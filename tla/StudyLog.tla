------------------------------ MODULE StudyLog ------------------------------
(***************************************************************************)
(* What the study memory promises: studies are kept one by one, a study    *)
(* that was kept is never lost or altered, and only a study that is kept   *)
(* is confirmed to the tool that ran it.                                   *)
(*                                                                         *)
(* Source: StudyMemoryStore of src/Code/gridmind_mini/memory.py, "append-  *)
(* only JSONL study memory".  StudyMemory implements it.                   *)
(***************************************************************************)
CONSTANT Studies

VARIABLES
  kept,        \* the studies with a line of their own
  confirmed    \* the studies whose tool was given a memory_record

vars == <<kept, confirmed>>

Init ==
  /\ kept = {}
  /\ confirmed = {}

Keep(s) ==
  /\ kept' = kept \cup {s}
  /\ UNCHANGED confirmed

Confirm(s) ==
  /\ s \in kept
  /\ confirmed' = confirmed \cup {s}
  /\ UNCHANGED kept

Next == \E s \in Studies : Keep(s) \/ Confirm(s)

Spec == Init /\ [][Next]_vars
=============================================================================
