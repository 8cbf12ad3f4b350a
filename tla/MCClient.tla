------------------------------ MODULE MCClient ------------------------------
(***************************************************************************)
(* Small instances of GeneratedClient for TLC.  The schemas are made of    *)
(* what the tables of monster_test.fbs are made of: scalars of two widths, *)
(* a reference and a struct whose alignment is greater than an offset's.   *)
(***************************************************************************)
EXTENDS GeneratedClient

MCTables == {<<"Short", "offset">>, <<"Vec", "Int">>}
MCStructs == [Vec |-> [bytes |-> 8, align |-> 8]]
MCIdentifiers == {[chars |-> 4, bytes |-> 4]}

\* What the theorems of ClientProofs assume holds in every run.
ASSUME SchemaOfTheRun == SchemaFits /\ TablesFit

=============================================================================
