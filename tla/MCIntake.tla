------------------------------ MODULE MCIntake ------------------------------
(***************************************************************************)
(* Intake with two messages from one user, and others from a stranger.     *)
(***************************************************************************)
EXTENDS Intake

CONSTANTS user, stranger

SmallSenders == [u \in Updates |-> IF u <= 2 THEN user ELSE stranger]
=============================================================================
