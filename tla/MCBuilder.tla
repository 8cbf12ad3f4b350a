----------------------------- MODULE MCBuilder -----------------------------
(***************************************************************************)
(* Small instances of Builder for TLC.                                     *)
(***************************************************************************)
EXTENDS Builder

MCValues == {-1, 0}
MCIdentifiers == {[chars |-> 4, bytes |-> 12],
                  [chars |-> 3, bytes |-> 3]}
=============================================================================
