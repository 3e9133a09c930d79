----------------------------- MODULE PsseWorker -----------------------------
(***************************************************************************)
(* The remote PSS/E worker: the JobManager with its single worker thread,  *)
(* and the HTTP handler threads that submit jobs and read them.            *)
(*                                                                         *)
(* Source: src/Code/scripts/psse_remote_worker.py.                         *)
(*                                                                         *)
(* The threads interleave wherever the code lets them: _jobs is read under *)
(* the lock, but the fields of a JobRecord are read without it, one at a   *)
(* time, while the worker thread assigns them one at a time.  A critical   *)
(* section that makes a single access is one step; the one in which the    *)
(* worker publishes the outcome is several, and holds the lock meanwhile.  *)
(*                                                                         *)
(* Abstracted: the payload and its validation (an invalid one is answered  *)
(* 400 and changes nothing), time stamps, messages, and what PSS/E itself  *)
(* computes, of which only result["ok"] is kept.                           *)
(***************************************************************************)
EXTENDS Naturals, Sequences

CONSTANTS
  Jobs,           \* job ids; uuid4 never repeats one
  NoJob,          \* the worker or a handler holds no job
  Handlers,       \* HTTP handler threads
  FaultsPerJob,   \* bound: exceptions raised while one job is handled
  MaxRestarts     \* bound: restarts of the worker process

ASSUME WorkerAssumption ==
  /\ NoJob \notin Jobs
  /\ FaultsPerJob \in Nat
  /\ MaxRestarts \in Nat

VARIABLES
  records,        \* JobManager._jobs: the JobRecord of each job
  queue,          \* JobManager._queue
  issued,         \* the job ids given out so far
  wpc,            \* where the worker thread is
  wjob,           \* the job it handles
  wdir,           \* the local artifact_dir
  wok,            \* result["ok"]
  failing,        \* the worker is inside "except Exception" of _run_job
  faults,         \* exceptions raised so far for the current job
  disk,           \* the derived-output directories
  handlers,       \* the handler threads
  told,           \* history: the finished status some client was told, per job
  restarts        \* how often the process was restarted

workerVars == <<wpc, wjob, wdir, wok, failing, faults>>
vars == <<records, queue, issued, workerVars, disk, handlers, told, restarts>>

-----------------------------------------------------------------------------
(* Values *)

Finished == {"completed", "error"}
Statuses == {"absent", "queued", "running"} \cup Finished

\* create_artifact_dir stamps the directory with the current second, so the
\* call made after a failure may name another directory than the first call.
Folders == {"start", "failure"}
Paths == Folders \cup {"None"}

\* "absent": the id is not a key of _jobs
Record == [status : Statuses, result_path : Paths, artifacts_path : Paths]

NewRecord(status) ==
  [status |-> status, result_path |-> "None", artifacts_path |-> "None"]

ResultFile == {"none", "torn", "ok", "not_ok"}
ManifestFile == {"none", "torn", "whole"}
Folder == [request : BOOLEAN, result : ResultFile, manifest : ManifestFile]
EmptyFolder == [request |-> FALSE, result |-> "none", manifest |-> "none"]

WorkerPc == {"get", "mark", "open", "run", "save", "manifest", "publish",
             "publish_result", "publish_artifacts", "recover", "dead"}

ReadPc == {"status", "result", "load", "artifacts"}

\* late: when the request arrived some client had been told that the job is over
IdleHandler == [pc |-> "idle", job |-> NoJob, late |-> FALSE]
Handler == {IdleHandler} \cup [pc : ReadPc \cup {"put"}, job : Jobs, late : BOOLEAN]

TypeOK ==
  /\ records \in [Jobs -> Record]
  /\ queue \in Seq(Jobs)
  /\ issued \subseteq Jobs
  /\ wpc \in WorkerPc
  /\ wjob \in Jobs \cup {NoJob}
  /\ wdir \in Folders
  /\ wok \in BOOLEAN
  /\ failing \in BOOLEAN
  /\ faults \in 0..FaultsPerJob
  /\ disk \in [Jobs -> [Folders -> Folder]]
  /\ handlers \in [Handlers -> Handler]
  /\ told \in [Jobs -> Finished \cup {"nothing"}]
  /\ restarts \in 0..MaxRestarts

InitProcess ==
  /\ records = [j \in Jobs |-> NewRecord("absent")]
  /\ queue = <<>>
  /\ wpc = "get"
  /\ wjob = NoJob
  /\ wdir = "start"
  /\ wok = FALSE
  /\ failing = FALSE
  /\ faults = 0
  /\ handlers = [h \in Handlers |-> IdleHandler]

Init ==
  /\ InitProcess
  /\ issued = {}
  /\ disk = [j \in Jobs |-> [d \in Folders |-> EmptyFolder]]
  /\ told = [j \in Jobs |-> "nothing"]
  /\ restarts = 0

\* JobManager._lock.  The worker holds it from the first assignment of an
\* outcome to the last; every other critical section is a single step.
LockFree == wpc \notin {"publish_result", "publish_artifacts"}

-----------------------------------------------------------------------------
(* HTTP handler threads *)

Become(h, handler) == handlers' = [handlers EXCEPT ![h] = handler]

\* POST /jobs: submit stores the record under the lock ...
PostStore(h) ==
  /\ handlers[h].pc = "idle"
  /\ LockFree
  /\ \E j \in Jobs \ issued :
       /\ records' = [records EXCEPT ![j] = NewRecord("queued")]
       /\ issued' = issued \cup {j}
       /\ Become(h, [pc |-> "put", job |-> j, late |-> FALSE])
  /\ UNCHANGED <<queue, workerVars, disk, told, restarts>>

\* ... and puts the id in the queue after releasing it; then 202.
PostPut(h) ==
  /\ handlers[h].pc = "put"
  /\ queue' = Append(queue, handlers[h].job)
  /\ Become(h, IdleHandler)
  /\ UNCHANGED <<records, issued, workerVars, disk, told, restarts>>

\* Mutant of Lookup: status() that does not take the lock.
LookupWithoutLock(h) ==
  /\ handlers[h].pc = "idle"
  /\ \E j \in issued, pc \in {"status", "result", "artifacts"} :
       Become(h, IF records[j].status = "absent" THEN IdleHandler
                 ELSE [pc |-> pc, job |-> j, late |-> told[j] # "nothing"])
  /\ UNCHANGED <<records, queue, issued, workerVars, disk, told, restarts>>

\* GET /jobs/{id}, /jobs/{id}/result and /jobs/{id}/artifacts all begin with
\* JobManager.status, which waits for the lock; an unknown id is answered 404.
Lookup(h) ==
  /\ handlers[h].pc = "idle"
  /\ LockFree
  /\ \E j \in issued, pc \in {"status", "result", "artifacts"} :
       Become(h, IF records[j].status = "absent" THEN IdleHandler
                 ELSE [pc |-> pc, job |-> j, late |-> told[j] # "nothing"])
  /\ UNCHANGED <<records, queue, issued, workerVars, disk, told, restarts>>

\* What the handler would answer if it read the record, without the lock, now.
\* result() reads the status first and the path in a later step.
Answer(h) ==
  LET record == records[handlers[h].job]
      Content(path, missing, file) ==
        IF path = "None" THEN missing ELSE disk[handlers[h].job][path][file]
  IN
  CASE handlers[h].pc = "status" -> record.status
    [] handlers[h].pc = "result" ->
         IF record.status \in Finished THEN "unanswered" ELSE "job_not_finished"
    [] handlers[h].pc = "load" ->
         Content(record.result_path, "job_result_missing", "result")
    [] handlers[h].pc = "artifacts" ->
         Content(record.artifacts_path, "job_artifacts_missing", "manifest")
    [] OTHER -> "unanswered"

\* The read: result() of a finished job goes on to its file, any other request
\* is answered and over.
Read(h) ==
  /\ handlers[h].pc \in ReadPc
  /\ Become(h, IF Answer(h) = "unanswered"
               THEN [handlers[h] EXCEPT !.pc = "load"] ELSE IdleHandler)
  /\ told' = IF Answer(h) \in Finished
             THEN [told EXCEPT ![handlers[h].job] = Answer(h)] ELSE told
  /\ UNCHANGED <<records, queue, issued, workerVars, disk, restarts>>

Reply(h) == PostPut(h) \/ Read(h)

-----------------------------------------------------------------------------
(* The worker thread *)

\* Mutant of TakeJob: the head of the queue is read and stays.
PeekJob ==
  /\ wpc = "get"
  /\ queue # <<>>
  /\ wpc' = "mark"
  /\ wjob' = Head(queue)
  /\ failing' = FALSE
  /\ faults' = 0
  /\ UNCHANGED <<records, queue, issued, wdir, wok, disk, handlers, told, restarts>>

\* Mutant of TakeJob: a stack instead of a queue.
TakeLastJob ==
  /\ wpc = "get"
  /\ queue # <<>>
  /\ wpc' = "mark"
  /\ wjob' = queue[Len(queue)]
  /\ queue' = SubSeq(queue, 1, Len(queue) - 1)
  /\ failing' = FALSE
  /\ faults' = 0
  /\ UNCHANGED <<records, issued, wdir, wok, disk, handlers, told, restarts>>

\* _worker_loop takes the next id; _run_job finds its record.
TakeJob ==
  /\ wpc = "get"
  /\ queue # <<>>
  /\ wpc' = "mark"
  /\ wjob' = Head(queue)
  /\ queue' = Tail(queue)
  /\ failing' = FALSE
  /\ faults' = 0
  /\ UNCHANGED <<records, issued, wdir, wok, disk, handlers, told, restarts>>

MarkRunning ==
  /\ wpc = "mark"
  /\ wpc' = "open"
  /\ records' = [records EXCEPT ![wjob].status = "running"]
  /\ UNCHANGED <<queue, issued, wjob, wdir, wok, failing, faults, disk, handlers,
                 told, restarts>>

\* execute_job: the directory and request.json ...
OpenFolder ==
  /\ wpc = "open"
  /\ wpc' = "run"
  /\ wdir' = "start"
  /\ disk' = [disk EXCEPT ![wjob]["start"].request = TRUE]
  /\ UNCHANGED <<records, queue, issued, wjob, wok, failing, faults, handlers,
                 told, restarts>>

\* ... and the PSS/E subprocess, whose timeout bounds it.
RunPsse ==
  /\ wpc = "run"
  /\ wpc' = "save"
  /\ wok' \in BOOLEAN
  /\ UNCHANGED <<records, queue, issued, wjob, wdir, failing, faults, disk,
                 handlers, told, restarts>>

SaveResult ==
  /\ wpc = "save"
  /\ wpc' = "manifest"
  /\ disk' = [disk EXCEPT ![wjob][wdir].result = IF wok THEN "ok" ELSE "not_ok"]
  /\ UNCHANGED <<records, queue, issued, wjob, wdir, wok, failing, faults,
                 handlers, told, restarts>>

SaveManifest ==
  /\ wpc = "manifest"
  /\ wpc' = "publish"
  /\ disk' = [disk EXCEPT ![wjob][wdir].manifest = "whole"]
  /\ UNCHANGED <<records, queue, issued, wjob, wdir, wok, failing, faults,
                 handlers, told, restarts>>

\* Mutant of PublishStatus: a job that ran is completed, whatever its result.
PublishCompleted ==
  /\ wpc = "publish"
  /\ wpc' = "publish_result"
  /\ records' = [records EXCEPT ![wjob].status = "completed"]
  /\ UNCHANGED <<queue, issued, wjob, wdir, wok, failing, faults, disk, handlers,
                 told, restarts>>

\* The outcome is assigned field by field, the status first.
PublishStatus ==
  /\ wpc = "publish"
  /\ wpc' = "publish_result"
  /\ records' = [records EXCEPT ![wjob].status = IF wok THEN "completed" ELSE "error"]
  /\ UNCHANGED <<queue, issued, wjob, wdir, wok, failing, faults, disk, handlers,
                 told, restarts>>

PublishResult ==
  /\ wpc = "publish_result"
  /\ wpc' = "publish_artifacts"
  /\ records' = [records EXCEPT ![wjob].result_path = wdir]
  /\ UNCHANGED <<queue, issued, wjob, wdir, wok, failing, faults, disk, handlers,
                 told, restarts>>

\* Last assignment: the lock is released and the loop goes on.
PublishArtifacts ==
  /\ wpc = "publish_artifacts"
  /\ wpc' = "get"
  /\ wjob' = NoJob
  /\ records' = [records EXCEPT ![wjob].artifacts_path = wdir]
  /\ UNCHANGED <<queue, issued, wdir, wok, failing, faults, disk, handlers, told,
                 restarts>>

\* Mutant of Raise: _run_job has no except clause.
RaiseUncaught ==
  /\ wpc \in {"open", "run", "save", "manifest"}
  /\ faults < FaultsPerJob
  /\ faults' = faults + 1
  /\ wpc' = "dead"
  /\ UNCHANGED <<records, queue, issued, wjob, wdir, wok, failing, disk, handlers,
                 told, restarts>>

\* An exception: missing case files, a subprocess timeout, a full disk.  It is
\* caught once; one raised by the except clause itself ends the thread, since
\* _worker_loop has a finally and no except.  A write that fails leaves its
\* file torn.
Raise ==
  /\ wpc \in {"open", "run", "save", "manifest"}
  /\ faults < FaultsPerJob
  /\ faults' = faults + 1
  /\ wpc' = IF failing THEN "dead" ELSE "recover"
  /\ disk' = CASE wpc = "save" -> [disk EXCEPT ![wjob][wdir].result = "torn"]
               [] wpc = "manifest" -> [disk EXCEPT ![wjob][wdir].manifest = "torn"]
               [] OTHER -> disk
  /\ UNCHANGED <<records, queue, issued, wjob, wdir, wok, failing, handlers, told,
                 restarts>>

\* except Exception: the directory is named again, and the failure is written
\* and published by the same steps.
Recover ==
  /\ wpc = "recover"
  /\ wpc' = "save"
  /\ failing' = TRUE
  /\ wdir' \in Folders
  /\ wok' = FALSE
  /\ UNCHANGED <<records, queue, issued, wjob, faults, disk, handlers, told, restarts>>

WorkerStep ==
  \/ TakeJob
  \/ MarkRunning
  \/ OpenFolder
  \/ RunPsse
  \/ SaveResult
  \/ SaveManifest
  \/ PublishStatus
  \/ PublishResult
  \/ PublishArtifacts
  \/ Recover

\* The process is stopped and started again: its memory is gone, files stay.
Restart ==
  /\ restarts < MaxRestarts
  /\ restarts' = restarts + 1
  /\ records' = [j \in Jobs |-> NewRecord("absent")]
  /\ queue' = <<>>
  /\ wpc' = "get"
  /\ wjob' = NoJob
  /\ wdir' = "start"
  /\ wok' = FALSE
  /\ failing' = FALSE
  /\ faults' = 0
  /\ handlers' = [h \in Handlers |-> IdleHandler]
  /\ UNCHANGED <<issued, disk, told>>

Next ==
  \/ \E h \in Handlers : PostStore(h) \/ Lookup(h) \/ Reply(h)
  \/ WorkerStep
  \/ Raise
  \/ Restart

\* The operating system schedules every thread and the subprocess ends by its
\* timeout.  Requests, exceptions and restarts need not happen.
Fairness ==
  /\ WF_vars(WorkerStep)
  /\ \A h \in Handlers : WF_vars(Reply(h))

Spec == Init /\ [][Next]_vars
FairSpec == Spec /\ Fairness

-----------------------------------------------------------------------------
(* Properties *)

\* Nothing the manager shows as pending is lost.  A job shown as queued is in
\* the queue exactly once, or its handler is about to put it there, or the
\* worker has just taken it; a job shown as running is the one the worker
\* thread holds.  (submit puts the id after releasing the lock, and the worker
\* marks the job after taking it.)
Waiting(j) == \E i \in 1..Len(queue) : queue[i] = j
BeingPut(j) == \E h \in Handlers : handlers[h].pc = "put" /\ handlers[h].job = j
Taken(j) == wpc = "mark" /\ wjob = j

PendingIsAccounted ==
  \A j \in Jobs :
    /\ records[j].status = "queued" <=> (Waiting(j) \/ BeingPut(j) \/ Taken(j))
    /\ records[j].status = "running" =>
         wjob = j /\ wpc \notin {"get", "mark", "publish_result", "publish_artifacts"}

\* The accounting is exact: an id is in one place only.  (The strengthening
\* that makes PendingIsAccounted inductive.)
Placed ==
  /\ \A j \in Jobs : j \notin issued => records[j].status = "absent"
  /\ \A i, k \in 1..Len(queue) : queue[i] = queue[k] => i = k
  /\ \A j \in Jobs : ~(Waiting(j) /\ BeingPut(j)) /\ ~(Taken(j) /\ (Waiting(j) \/ BeingPut(j)))
  /\ \A h, g \in Handlers :
       handlers[h].pc = "put" /\ handlers[g].pc = "put" /\ h # g
         => handlers[h].job # handlers[g].job
  /\ wpc \in {"open", "run", "save", "manifest", "publish", "recover", "dead"} =>
       wjob \in Jobs /\ records[wjob].status = "running"
  /\ wpc = "mark" => wjob \in Jobs

\* Outcomes: what is on disk when a job is published, what its record says
\* then, and what clients were told.
Published(j) ==
  /\ records[j].result_path \in Folders
  /\ records[j].artifacts_path \in Folders
  /\ disk[j][records[j].result_path].result =
       (IF records[j].status = "completed" THEN "ok" ELSE "not_ok")
  /\ disk[j][records[j].artifacts_path].manifest = "whole"

BeingPublished(j) == wjob = j /\ ~LockFree

\* The files are whole before the outcome is assigned, which is done in order.
WrittenFirst ==
  /\ wpc \in {"manifest", "publish", "publish_result", "publish_artifacts"} =>
       disk[wjob][wdir].result = (IF wok THEN "ok" ELSE "not_ok")
  /\ wpc \in {"publish", "publish_result", "publish_artifacts"} =>
       disk[wjob][wdir].manifest = "whole"
  /\ ~LockFree =>
       wjob \in Jobs /\ records[wjob].status = (IF wok THEN "completed" ELSE "error")
  /\ wpc = "publish_artifacts" => records[wjob].result_path = wdir

FinishedIsPublished ==
  \A j \in Jobs :
    records[j].status \in Finished /\ ~BeingPublished(j) => Published(j)

ToldAgrees ==
  \A j \in Jobs : told[j] # "nothing" =>
    j \in issued /\ records[j].status \in {told[j], "absent"}

\* A late reader found the record after its publication was over.
LateReaderSafe(h) ==
  /\ handlers[h].pc \in ReadPc => records[handlers[h].job].status # "absent"
  /\ handlers[h].late => /\ handlers[h].pc \in ReadPc
                         /\ told[handlers[h].job] # "nothing"
                         /\ ~BeingPublished(handlers[h].job)

LateReadersSafe == \A h \in Handlers : LateReaderSafe(h)

Outcomes == WrittenFirst /\ FinishedIsPublished /\ ToldAgrees /\ LateReadersSafe

WorkerInv == TypeOK /\ PendingIsAccounted /\ Placed /\ Outcomes

\* A client that was told a job is over, by GET /jobs/{id}, and then asks for
\* its result or its manifest gets it, whole: the answer is never "not
\* finished" or "missing", although the outcome is assigned field by field and
\* read without the lock.
ToldFinishedThenResult ==
  \A h \in Handlers : handlers[h].late =>
    Answer(h) \notin {"job_not_finished", "job_result_missing",
                      "job_artifacts_missing", "none", "torn"}

\* The result a client reads agrees with the status it was told: "completed"
\* and a result that is ok, or "error" and one that is not.
ResultMatchesStatus ==
  \A h \in Handlers :
    handlers[h].late /\ handlers[h].pc = "load" =>
      (Answer(h) = "ok" <=> told[handlers[h].job] = "completed")

\* Two clients, or two polls, are never told different outcomes of a job.
ToldIsFinal ==
  [][\A j \in Jobs : told[j] # "nothing" => told'[j] = told[j]]_vars

\* The worker serves accepted jobs one at a time, in the order they were put
\* (Concurrent POST /jobs requests remain serialized by the worker queue).
Phase ==
  [j \in Jobs |->
     IF j \notin issued \/ BeingPut(j) THEN "new"
     ELSE IF records[j].status = "absent" THEN "lost"
     ELSE IF Taken(j) THEN "running"
     ELSE records[j].status]

Jb == INSTANCE PsseJobs WITH phase <- Phase, line <- queue

ServedInOrder == Jb!Spec

\* Every queued job comes to an end, or is forgotten by a restart.
QueuedJobEnds ==
  \A j \in Jobs :
    records[j].status = "queued" ~> records[j].status \in Finished \cup {"absent"}

\* A job whose request was written has its result in the same directory (the
\* bridge's README: its own subdirectory with request.json and result.json).
ResultBesideRequest ==
  \A j \in Jobs :
    records[j].result_path # "None" /\ (\E d \in Folders : disk[j][d].request) =>
      disk[j][records[j].result_path].request
=============================================================================
