-------------------------- MODULE MCCapacitySearch --------------------------
(* CapacitySearch for TLC: every oracle on 0..Top and every request within   *)
(* the bounds is an initial state.                                           *)
EXTENDS CapacitySearch
=============================================================================
