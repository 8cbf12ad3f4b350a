-------------------------- MODULE ReflectionCases ---------------------------
(***************************************************************************)
(* A schema and buffers for Reflection, as FlatBufferBuilder lays them     *)
(* out.                                                                    *)
(***************************************************************************)
EXTENDS Integers, Sequences

LOCAL F(name, offset, type, element, index, required) ==
    [name |-> name, offset |-> offset, type |-> type, element |-> element,
     index |-> index, required |-> required]

LOCAL Monster == [struct |-> FALSE, size |-> 1, align |-> 1, fields |-> <<
    F("hp", 4, "Short", "Byte", "M", FALSE),
    F("kids", 6, "Vector", "Obj", "M", FALSE),
    F("name", 8, "String", "Byte", "M", FALSE),
    F("nums", 10, "Vector", "Short", "M", FALSE),
    F("pal", 12, "Obj", "Byte", "S", FALSE),
    F("pos", 14, "Obj", "Byte", "P", FALSE),
    F("texts", 16, "Vector", "String", "M", FALSE),
    F("u", 20, "Union", "Byte", "U", FALSE),
    F("u_type", 18, "UType", "Byte", "U", FALSE)>>]

LOCAL Stat == [struct |-> FALSE, size |-> 1, align |-> 1, fields |-> <<
    F("tag", 6, "String", "Byte", "M", FALSE),
    F("x", 4, "Long", "Byte", "M", FALSE)>>]

LOCAL Point == [struct |-> TRUE, size |-> 8, align |-> 8, fields |-> <<>>]

SchemaObjects == [M |-> Monster, S |-> Stat, P |-> Point]
SchemaUnions  == [U |-> <<"M", "S">>]

\* A monster with a union, a vector of one monster twice, and strings and a
\* table several fields share.
LOCAL Town ==
    <<28, 0, 0, 0, 0, 0, 22, 0, 40, 0, 6, 0, 24, 0, 20, 0, 0, 0, 16, 0,
      28, 0, 12, 0, 5, 0, 8, 0, 22, 0, 0, 0, 0, 2, 254, 255, 124, 0, 0, 0,
      100, 0, 0, 0, 116, 0, 0, 0, 20, 0, 0, 0, 24, 0, 0, 0, 1, 2, 3, 4,
      5, 6, 7, 8, 0, 0, 0, 0, 2, 0, 0, 0, 66, 66, 0, 0, 2, 0, 0, 0,
      32, 0, 0, 0, 28, 0, 0, 0, 0, 0, 22, 0, 16, 0, 6, 0, 0, 0, 12, 0,
      8, 0, 0, 0, 0, 0, 0, 0, 0, 0, 0, 0, 22, 0, 0, 0, 0, 0, 5, 0,
      8, 0, 0, 0, 52, 0, 0, 0, 3, 0, 0, 0, 3, 0, 255, 255, 2, 0, 0, 0,
      2, 0, 0, 0, 32, 0, 0, 0, 28, 0, 0, 0, 8, 0, 16, 0, 8, 0, 4, 0,
      8, 0, 0, 0, 12, 0, 0, 0, 7, 0, 0, 0, 0, 0, 0, 0, 1, 0, 0, 0,
      65, 0, 0, 0>>

\* Monsters that share a vtable, a string and a vector.
LOCAL Flat ==
    <<32, 0, 0, 0, 0, 0, 0, 0, 0, 0, 22, 0, 16, 0, 0, 0, 12, 0, 8, 0,
      0, 0, 4, 0, 0, 0, 0, 0, 0, 0, 0, 0, 22, 0, 0, 0, 44, 0, 0, 0,
      100, 0, 0, 0, 4, 0, 0, 0, 2, 0, 0, 0, 8, 0, 0, 0, 72, 0, 0, 0,
      210, 255, 255, 255, 84, 0, 0, 0, 72, 0, 0, 0, 8, 0, 20, 0, 8, 0, 4, 0,
      8, 0, 0, 0, 16, 0, 0, 0, 3, 0, 0, 0, 0, 0, 0, 0, 0, 0, 0, 0,
      1, 0, 0, 0, 84, 0, 22, 0, 12, 0, 0, 0, 0, 0, 8, 0, 4, 0, 0, 0,
      0, 0, 0, 0, 0, 0, 0, 0, 22, 0, 0, 0, 16, 0, 0, 0, 4, 0, 0, 0,
      0, 0, 0, 0, 0, 0, 0, 0, 3, 0, 0, 0, 1, 0, 2, 0, 3, 0, 0, 0>>

\* A table of its own.
LOCAL Added ==
    <<16, 0, 0, 0, 0, 0, 0, 0, 8, 0, 16, 0, 8, 0, 4, 0, 8, 0, 0, 0,
      12, 0, 0, 0, 9, 0, 0, 0, 0, 0, 0, 0, 2, 0, 0, 0, 67, 68, 0, 0>>

TownBuffer    == {Town}
FlatBuffer    == {Flat}
AddedBuffers  == [S |-> Added]
NewStrings    == {<<>>, <<67>>, <<67, 68, 69, 70, 71, 72, 73, 74, 75>>}

=============================================================================
