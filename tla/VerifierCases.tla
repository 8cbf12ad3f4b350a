--------------------------- MODULE VerifierCases ----------------------------
(***************************************************************************)
(* A schema and two buffers for Verifier, byte by byte.                    *)
(***************************************************************************)
EXTENDS Integers, Sequences

LOCAL F(kind, size, required, of) ==
    [kind |-> kind, size |-> size, required |-> required, of |-> of]

VerifiedTypes == [
    M |-> <<F("string", 1, FALSE, "S"), F("scalar", 1, FALSE, "S"), F("tables", 4, FALSE, "M"),
            F("scalar", 1, FALSE, "S"), F("union", 4, FALSE, "S"), F("strings", 4, FALSE, "S")>>,
    N |-> <<F("vector", 1, FALSE, "S"), F("unions", 4, TRUE, "S"), F("table", 4, FALSE, "S")>>,
    S |-> <<F("scalar", 4, FALSE, "S")>>]

VerifiedMembers == <<"S">>

\* Root offset, identifier, vtable and root table, name, children, texts, the
\* union's table and the child with its name.
MonsterBuffer == [root |-> "M", ident |-> <<77, 79, 78, 83>>, prefixed |-> FALSE, bytes |->
    <<24, 0, 0, 0,
      77, 79, 78, 83,
      16, 0, 22, 0, 4, 0, 20, 0, 8, 0, 21, 0, 12, 0, 16, 0,
      16, 0, 0, 0, 20, 0, 0, 0, 24, 0, 0, 0, 48, 0, 0, 0, 24, 0, 0, 0, 7, 1, 0, 0,
      1, 0, 0, 0, 65, 0, 0, 0,
      1, 0, 0, 0, 40, 0, 0, 0,
      1, 0, 0, 0, 4, 0, 0, 0, 0, 0, 0, 0, 0, 0,
      6, 0, 8, 0, 4, 0,
      6, 0, 0, 0, 9, 0, 0, 0,
      6, 0, 8, 0, 4, 0, 0, 0,
      8, 0, 0, 0, 4, 0, 0, 0, 1, 0, 0, 0, 66, 0>>]

\* Size prefix, root offset, vtable and root table, types, values, a table.
VariantsBuffer == [root |-> "N", ident |-> <<>>, prefixed |-> TRUE, bytes |->
    <<68, 0, 0, 0,
      16, 0, 0, 0,
      10, 0, 16, 0, 4, 0, 8, 0, 12, 0, 0, 0,
      12, 0, 0, 0, 12, 0, 0, 0, 16, 0, 0, 0, 32, 0, 0, 0,
      2, 0, 0, 0, 1, 0, 0, 0,
      2, 0, 0, 0, 16, 0, 0, 0, 12, 0, 0, 0,
      6, 0, 8, 0, 4, 0, 0, 0,
      8, 0, 0, 0, 9, 0, 0, 0>>]

\* One byte of the first, or two of the second.
AnyDamage    == [at : 1..114, byte : {0, 1, 2, 5, 16, 128, 255}]
SmallDamage  == [at : 1..72, byte : {4}]
OffsetDamage == [at : {21, 25, 41, 45}, byte : {0, 4}]

=============================================================================
