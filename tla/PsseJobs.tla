------------------------------ MODULE PsseJobs ------------------------------
(***************************************************************************)
(* What the remote PSS/E worker promises about jobs, with its threads,     *)
(* files and lock left out: a job that was accepted waits in one line, the *)
(* head of the line is served alone, and a served job ends completed or in *)
(* error and keeps that verdict.  A restart of the worker process forgets  *)
(* every job, because JobManager keeps its jobs in memory only.            *)
(*                                                                         *)
(* Source: JobManager of src/Code/scripts/psse_remote_worker.py.  The      *)
(* module PsseWorker is shown to implement this specification.             *)
(***************************************************************************)
EXTENDS Sequences

CONSTANT Jobs     \* job ids, one uuid4 per accepted POST /jobs

VARIABLES
  phase,          \* what became of each job
  line            \* the accepted jobs that have not been taken, in order

vars == <<phase, line>>

Finished == {"completed", "error"}
Phases == {"new", "queued", "running", "lost"} \cup Finished

Init ==
  /\ phase = [j \in Jobs |-> "new"]
  /\ line = <<>>

(* A valid POST /jobs puts a fresh job at the end of the line. *)
Accept(j) ==
  /\ phase[j] = "new"
  /\ phase' = [phase EXCEPT ![j] = "queued"]
  /\ line' = Append(line, j)

(* The head of the line is served, and only when nothing else is. *)
Start ==
  /\ line # <<>>
  /\ \A j \in Jobs : phase[j] # "running"
  /\ phase' = [phase EXCEPT ![Head(line)] = "running"]
  /\ line' = Tail(line)

Finish(j) ==
  /\ phase[j] = "running"
  /\ \E verdict \in Finished : phase' = [phase EXCEPT ![j] = verdict]
  /\ UNCHANGED line

(* The process is restarted: no job accepted before is known afterwards,   *)
(* and an id that was being accepted at that moment may be gone as well.   *)
Restart ==
  /\ \E dropped \in SUBSET {j \in Jobs : phase[j] = "new"} :
       phase' = [j \in Jobs |->
                   IF phase[j] = "new" /\ j \notin dropped THEN "new" ELSE "lost"]
  /\ line' = <<>>

Next ==
  \/ \E j \in Jobs : Accept(j) \/ Finish(j)
  \/ Start
  \/ Restart

Spec == Init /\ [][Next]_vars
=============================================================================
