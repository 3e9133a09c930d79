--------------------------- MODULE MCCheckpoints ---------------------------
(* Checkpoints for TLC: an actor and a critic with limits of their own.      *)
EXTENDS Checkpoints

TwoRoles == <<"actor", "critic">>
KeepOneAndTwo == [actor |-> 1, critic |-> 2]
=============================================================================
