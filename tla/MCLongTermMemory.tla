-------------------------- MODULE MCLongTermMemory --------------------------
(***************************************************************************)
(* LongTermMemory for TLC.  Neither the texts nor the calls are told       *)
(* apart, and only safety is checked: permutations of both are symmetries. *)
(***************************************************************************)
EXTENDS LongTermMemory, TLC

Symmetry == Permutations(Texts) \union Permutations(Calls)
=============================================================================
