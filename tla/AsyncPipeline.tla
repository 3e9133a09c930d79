--------------------------- MODULE AsyncPipeline ---------------------------
(***************************************************************************)
(* The fully asynchronous training of verl: a Rollouter generates samples  *)
(* and puts them into a MessageQueue, a Trainer collects them in batches   *)
(* and, after every SyncStep batches, hands its weights to the Rollouter   *)
(* and resets the Rollouter's count of stale samples.                      *)
(*                                                                         *)
(* The Rollouter is one actor on one event loop with several coroutines:   *)
(* the feeder, the processor (pc), a task for each sample, the monitor     *)
(* (mon) and the remote call reset_staleness of the Trainer (tpc).  A step *)
(* is what a coroutine does between two awaits; `lock' is the asyncio lock *)
(* of the Rollouter, held over an await in three places only.              *)
(*                                                                         *)
(* Samples are numbered in the order in which they are fed.  What a sample *)
(* holds, rewards, gradients and metrics are left out.                     *)
(***************************************************************************)
EXTENDS Integers, Sequences, FiniteSets

CONSTANTS
  Required,       \* required_samples: the samples of one batch
  SyncStep,       \* trigger_parameter_sync_step: the batches of one version
  MaxRequired,    \* int(Required * (1 + staleness_threshold) * SyncStep)
  MaxConcurrent,  \* min(16 * replicas, MaxRequired)
  Total,          \* total_rollout_steps: the samples to be fed
  PendingSize,    \* maxsize of the pending queue
  SaveFreq,       \* trainer.save_freq; nothing is saved unless it is positive
  TestFreq,       \* trainer.test_freq, or its absolute value, of which alone the
                  \* remainder depends: with 0 the Trainer ends in an exception
  MaxFailures     \* bound: how many generations raise

ASSUME PipelineAssumption ==
  /\ {Required, SyncStep, MaxConcurrent, Total, PendingSize} \subseteq Nat \ {0}
  /\ SaveFreq \in Int /\ TestFreq \in Nat \ {0}
  /\ MaxRequired \in Nat /\ MaxRequired >= Required * SyncStep
  /\ MaxConcurrent <= MaxRequired
  /\ MaxFailures \in Nat

Samples == 1..Total
End == 0                    \* None, the signal that no sample follows

VARIABLES
  fed,         \* feeder: how many items it put into the pending queue
  taken,       \* processor: how many items it took from it
  pc,          \* processor: where it stands
  active,      \* active_tasks: tasks created and not yet reaped
  generating,  \* samples whose task has neither put its sample nor raised
  failed,      \* samples whose task raised
  staleness,   \* staleness_samples
  paused,      \* paused; _resume_event is set exactly when it is FALSE
  mon,         \* monitor: where it stands
  queue,       \* the MessageQueue
  lost,        \* history: samples dropped or cleared by the queue, or left in
               \* the hand of a processor that raised
  tpc,         \* trainer: where it stands
  batch,       \* the samples it has collected for the next batch
  trained,     \* the samples its weights were updated with
  local,       \* local_trigger_step
  version,     \* current_param_version
  counted,     \* len(active_tasks), read by a reset_staleness in progress
  ended,       \* it has seen the end signal
  ckpt,        \* last_ckpt_version
  saved,       \* the samples the weights of the last checkpoint were trained on
  period       \* history: samples outstanding at the last reset, or taken since

rollouter == <<fed, taken, pc, active, generating, failed, staleness, paused, mon>>
messages  == <<queue, lost>>
trainer   == <<tpc, batch, trained, local, version, counted, ended, ckpt, saved>>
vars == <<rollouter, messages, trainer, period>>

Elements(s) == {s[i] : i \in DOMAIN s}

\* The sample the processor has taken and not yet submitted.
Hand == IF pc \in {"submit", "full"} THEN {taken} ELSE {}

TypeOK ==
  /\ fed \in 0..(Total + 1) /\ taken \in 0..fed /\ Hand \subseteq Samples
  /\ pc \in {"check", "asked", "pause", "drain", "get", "submit", "full",
             "end", "ending", "stopped", "closed", "over"}
  /\ active \subseteq Samples /\ generating \subseteq Samples /\ failed \subseteq Samples
  /\ staleness \in Nat /\ paused \in BOOLEAN /\ mon \in {"sleep", "asked", "resume"}
  /\ queue \in Seq(Samples \cup {End}) /\ lost \subseteq Samples \cup {End}
  /\ tpc \in {"collect", "train", "sync", "resetting", "save", "over", "finished"}
  /\ batch \in Seq(Samples) /\ trained \subseteq Samples /\ saved \subseteq Samples
  /\ local \in 1..SyncStep /\ version \in Nat /\ counted \in Nat /\ ckpt \in Nat
  /\ ended \in BOOLEAN /\ period \in Nat

\* How many samples are on the way to the trainer.
InFlight == Cardinality(Hand) + Cardinality(generating) + Len(queue)

Finished == active \ generating

LockFree == pc \notin {"full", "ending"} /\ tpc # "resetting"

Init ==
  /\ fed = 0 /\ taken = 0 /\ pc = "check"
  /\ active = {} /\ generating = {} /\ failed = {}
  /\ staleness = 0 /\ paused = FALSE /\ mon = "sleep"
  /\ queue = <<>> /\ lost = {}
  /\ tpc = "collect" /\ batch = <<>> /\ trained = {}
  /\ local = 1 /\ version = 0 /\ counted = 0 /\ ended = FALSE
  /\ ckpt = 0 /\ saved = {}
  /\ period = 0

-----------------------------------------------------------------------------
(* The message queue. *)

\* Mutant of Enqueue: a full queue refuses the new sample without saying so.
EnqueueRefuses(item) ==
  IF Len(queue) >= MaxRequired
  THEN UNCHANGED <<queue, lost>>
  ELSE queue' = Append(queue, item) /\ UNCHANGED lost

\* MessageQueue.put_sample: a full queue loses its oldest sample.
Enqueue(item) ==
  IF Len(queue) >= MaxRequired
  THEN /\ queue' = Append(Tail(queue), item)
       /\ lost' = lost \cup {Head(queue)}
  ELSE /\ queue' = Append(queue, item)
       /\ UNCHANGED lost

-----------------------------------------------------------------------------
(* The feeder. *)

\* Item Total + 1 is None.
Feed ==
  /\ pc \notin {"closed", "over"}
  /\ fed <= Total
  /\ fed - taken < PendingSize
  /\ fed' = fed + 1
  /\ UNCHANGED <<taken, pc, active, generating, failed, staleness, paused, mon>>
  /\ UNCHANGED <<messages, trainer, period>>

-----------------------------------------------------------------------------
(* The processor.                                                          *)

ProcessorUnchanged == UNCHANGED <<fed, generating, failed, mon, queue, trainer>>

\* _should_pause_generation asks the queue for its size, ...
AskQueueSize ==
  /\ pc = "check"
  /\ pc' = IF paused \/ Len(queue) >= MaxRequired THEN "pause" ELSE "asked"
  /\ UNCHANGED <<taken, active, staleness, paused, period>>
  /\ UNCHANGED lost /\ ProcessorUnchanged

\* Mutant of JudgeStaleness: one sample more before the Rollouter pauses.
JudgeOneMore ==
  /\ pc = "asked"
  /\ pc' = IF staleness > MaxRequired THEN "pause" ELSE "get"
  /\ UNCHANGED <<taken, active, staleness, paused, period>>
  /\ UNCHANGED lost /\ ProcessorUnchanged

\* ... and looks at staleness_samples when the answer is there.
JudgeStaleness ==
  /\ pc = "asked"
  /\ pc' = IF staleness >= MaxRequired THEN "pause" ELSE "get"
  /\ UNCHANGED <<taken, active, staleness, paused, period>>
  /\ UNCHANGED lost /\ ProcessorUnchanged

\* The decision may be outdated when the lock is there.
Pause ==
  /\ pc = "pause" /\ LockFree
  /\ paused' = TRUE
  /\ pc' = "drain"
  /\ UNCHANGED <<taken, active, staleness, period>>
  /\ UNCHANGED lost /\ ProcessorUnchanged

Resume ==
  /\ pc = "drain" /\ ~paused
  /\ pc' = "check"
  /\ UNCHANGED <<taken, active, staleness, paused, period>>
  /\ UNCHANGED lost /\ ProcessorUnchanged

\* Tasks that are done leave active_tasks, here and nowhere else; awaiting one
\* that raised ends the processor.
Reap(next) ==
  \E done \in (SUBSET Finished) \ {{}} :
    /\ active' = active \ done
    /\ IF done \cap failed # {}
       THEN pc' = "stopped" /\ lost' = lost \cup Hand
       ELSE pc' = next /\ UNCHANGED lost
    /\ UNCHANGED <<taken, staleness, paused, period>>
    /\ ProcessorUnchanged

ReapWhilePaused == pc = "drain" /\ LockFree /\ Reap("drain")

\* staleness_samples is incremented without the lock, for None as well.
TakeItem ==
  /\ pc = "get"
  /\ taken < fed
  /\ taken' = taken + 1
  /\ staleness' = staleness + 1
  /\ period' = period + 1
  /\ pc' = IF taken = Total THEN "end" ELSE "submit"
  /\ UNCHANGED <<active, paused>>
  /\ UNCHANGED lost /\ ProcessorUnchanged

WaitForRoom ==
  /\ pc = "submit" /\ LockFree
  /\ Cardinality(active) >= MaxConcurrent
  /\ pc' = "full"
  /\ UNCHANGED <<taken, active, staleness, paused, period>>
  /\ UNCHANGED lost /\ ProcessorUnchanged

ReapForRoom == pc = "full" /\ Reap("submit")

Submit ==
  /\ pc = "submit" /\ LockFree
  /\ Cardinality(active) < MaxConcurrent
  /\ ~paused
  /\ active' = active \cup {taken}
  /\ generating' = generating \cup {taken}
  /\ pc' = "check"
  /\ UNCHANGED <<taken, staleness, paused, period>>
  /\ UNCHANGED <<fed, failed, mon, messages, trainer>>

\* Mutant of AwaitTasks: the tasks that still run are not waited for.
LeaveTasks ==
  /\ pc = "end"
  /\ pc' = "stopped"
  /\ UNCHANGED <<taken, active, staleness, paused, period>>
  /\ UNCHANGED lost /\ ProcessorUnchanged

\* After None: wait for the tasks, holding the lock during each wait.
AwaitTasks ==
  /\ pc = "end"
  /\ IF active = {} THEN pc' = "stopped" ELSE LockFree /\ pc' = "ending"
  /\ UNCHANGED <<taken, active, staleness, paused, period>>
  /\ UNCHANGED lost /\ ProcessorUnchanged

ReapAtEnd == pc = "ending" /\ Reap("end")

Processor ==
  \/ AskQueueSize \/ JudgeStaleness \/ Pause \/ Resume \/ ReapWhilePaused
  \/ TakeItem \/ WaitForRoom \/ ReapForRoom \/ Submit
  \/ AwaitTasks \/ ReapAtEnd

-----------------------------------------------------------------------------
(* The tasks of the samples.  A task is not cancelled when the processor   *)
(* ends.                                                                   *)

PutSample(s) ==
  /\ s \in generating
  /\ generating' = generating \ {s}
  /\ Enqueue(s)
  /\ UNCHANGED <<fed, taken, pc, active, failed, staleness, paused, mon>>
  /\ UNCHANGED <<trainer, period>>

Raise(s) ==
  /\ s \in generating
  /\ Cardinality(failed) < MaxFailures
  /\ generating' = generating \ {s}
  /\ failed' = failed \cup {s}
  /\ UNCHANGED <<fed, taken, pc, active, staleness, paused, mon>>
  /\ UNCHANGED <<messages, trainer, period>>

-----------------------------------------------------------------------------
(* The end of _streaming_generation_main, whether or not the processor     *)
(* raised, and the monitor.                                                *)

SendEnd ==
  /\ pc = "stopped"
  /\ pc' = "closed"
  /\ Enqueue(End)
  /\ UNCHANGED <<fed, taken, active, generating, failed, staleness, paused, mon>>
  /\ UNCHANGED <<trainer, period>>

StopRunning ==
  /\ pc = "closed" /\ LockFree
  /\ pc' = "over"
  /\ UNCHANGED <<fed, taken, active, generating, failed, staleness, paused, mon>>
  /\ UNCHANGED <<messages, trainer, period>>

MonitorUnchanged ==
  /\ UNCHANGED <<fed, taken, pc, active, generating, failed, staleness>>
  /\ UNCHANGED <<messages, trainer, period>>

MonitorAsks ==
  /\ mon = "sleep" /\ pc # "over"
  /\ paused /\ Len(queue) < MaxRequired
  /\ mon' = "asked"
  /\ UNCHANGED paused /\ MonitorUnchanged

\* Mutant of MonitorJudges: the monitor leaves a pause to reset_staleness.
MonitorNeverResumes ==
  /\ mon = "asked"
  /\ mon' = "sleep"
  /\ UNCHANGED paused /\ MonitorUnchanged

MonitorJudges ==
  /\ mon = "asked"
  /\ mon' = IF staleness >= MaxRequired THEN "sleep" ELSE "resume"
  /\ UNCHANGED paused /\ MonitorUnchanged

MonitorResumes ==
  /\ mon = "resume" /\ LockFree
  /\ mon' = "sleep"
  /\ paused' = FALSE
  /\ MonitorUnchanged

-----------------------------------------------------------------------------
(* The trainer. *)

\* A batch that the end signal cuts short is never trained.
GetSample ==
  /\ tpc = "collect" /\ queue # <<>>
  /\ queue' = Tail(queue)
  /\ IF Head(queue) = End
     THEN /\ ended' = TRUE
          /\ tpc' = IF local = 1 /\ version % TestFreq # 0 THEN "sync" ELSE "save"
          /\ UNCHANGED batch
     ELSE /\ batch' = Append(batch, Head(queue))
          /\ tpc' = IF Len(batch) + 1 = Required THEN "train" ELSE "collect"
          /\ UNCHANGED ended
  /\ UNCHANGED <<rollouter, lost, trained, local, version, counted, ckpt, saved, period>>

\* Mutant of SaveCheckpoint: the save at the end keeps to the frequency.
SaveByFrequency(force, weights) ==
  \E expiring \in BOOLEAN :
    IF version # ckpt /\ SaveFreq > 0 /\ (version % SaveFreq = 0 \/ expiring)
    THEN ckpt' = version /\ saved' = weights
    ELSE UNCHANGED <<ckpt, saved>>

\* _fit_save_checkpoint(force).  The machine's plan may be about to expire at any
\* time.
SaveCheckpoint(force, weights) ==
  \E expiring \in BOOLEAN :
    IF version # ckpt /\ SaveFreq > 0 /\ (force \/ version % SaveFreq = 0 \/ expiring)
    THEN ckpt' = version /\ saved' = weights
    ELSE UNCHANGED <<ckpt, saved>>

\* Mutant of Train: the weights are handed over one batch early.
TrainEarly ==
  LET weights == trained \cup Elements(batch) IN
  /\ tpc = "train"
  /\ trained' = weights /\ batch' = <<>>
  /\ IF local + 1 < SyncStep
     THEN /\ local' = local + 1 /\ tpc' = "collect"
          /\ SaveCheckpoint(FALSE, weights) /\ UNCHANGED version
     ELSE /\ local' = 1 /\ tpc' = "sync"
          /\ version' = version + 1 /\ UNCHANGED <<ckpt, saved>>
  /\ UNCHANGED <<rollouter, messages, counted, ended, period>>

\* Weights that are only partly through a version are not handed over; if they are
\* saved, it is under the number of the version they were updated from.
Train ==
  LET weights == trained \cup Elements(batch) IN
  /\ tpc = "train"
  /\ trained' = weights /\ batch' = <<>>
  /\ IF local < SyncStep
     THEN /\ local' = local + 1 /\ tpc' = "collect"
          /\ SaveCheckpoint(FALSE, weights) /\ UNCHANGED version
     ELSE /\ local' = 1 /\ tpc' = "sync"
          /\ version' = version + 1 /\ UNCHANGED <<ckpt, saved>>
  /\ UNCHANGED <<rollouter, messages, counted, ended, period>>

\* _fit_update_weights, then reset_staleness with the lock of the rollouter.
ResetStaleness ==
  /\ tpc = "sync" /\ LockFree
  /\ paused' = FALSE
  /\ counted' = Cardinality(active)
  /\ tpc' = "resetting"
  /\ UNCHANGED <<fed, taken, pc, active, generating, failed, staleness, mon>>
  /\ UNCHANGED <<batch, trained, local, version, ended, ckpt, saved>>
  /\ UNCHANGED <<messages, period>>

\* Mutant of AssignStaleness: what is outstanding is added to the old count.
AddStaleness ==
  /\ tpc = "resetting"
  /\ staleness' = staleness + counted + Len(queue)
  /\ period' = InFlight
  /\ counted' = 0
  /\ tpc' = IF ended THEN "save" ELSE "collect"
  /\ IF ended THEN UNCHANGED <<ckpt, saved>> ELSE SaveCheckpoint(FALSE, trained)
  /\ UNCHANGED <<fed, taken, pc, active, generating, failed, paused, mon>>
  /\ UNCHANGED <<batch, trained, local, version, ended, messages>>

\* The size of the queue is known later than the number of tasks.
AssignStaleness ==
  /\ tpc = "resetting"
  /\ staleness' = counted + Len(queue)
  /\ period' = InFlight
  /\ counted' = 0
  /\ tpc' = IF ended THEN "save" ELSE "collect"
  /\ IF ended THEN UNCHANGED <<ckpt, saved>> ELSE SaveCheckpoint(FALSE, trained)
  /\ UNCHANGED <<fed, taken, pc, active, generating, failed, paused, mon>>
  /\ UNCHANGED <<batch, trained, local, version, ended, messages>>

FinalSave ==
  /\ tpc = "save"
  /\ tpc' = "over"
  /\ SaveCheckpoint(TRUE, trained)
  /\ UNCHANGED <<batch, trained, local, version, counted, ended>>
  /\ UNCHANGED <<rollouter, messages, period>>

Trainer ==
  \/ GetSample \/ Train \/ ResetStaleness \/ AssignStaleness \/ FinalSave

\* _run_training_loop: both have returned, the queue is cleared.
Finish ==
  /\ tpc = "over" /\ pc = "over" /\ mon = "sleep"
  /\ tpc' = "finished"
  /\ queue' = <<>>
  /\ lost' = lost \cup (Elements(queue) \ {End})
  /\ UNCHANGED <<batch, trained, local, version, counted, ended, ckpt, saved>>
  /\ UNCHANGED <<rollouter, period>>

Terminated == tpc = "finished" /\ generating = {} /\ UNCHANGED vars

Next ==
  \/ Feed \/ Processor
  \/ \E s \in Samples : PutSample(s) \/ Raise(s)
  \/ SendEnd \/ StopRunning
  \/ MonitorAsks \/ MonitorJudges \/ MonitorResumes
  \/ Trainer \/ Finish \/ Terminated

Spec == Init /\ [][Next]_vars

FairSpec ==
  /\ Spec
  /\ WF_vars(Feed) /\ WF_vars(Processor)
  /\ \A s \in Samples : WF_vars(PutSample(s))
  /\ WF_vars(SendEnd) /\ WF_vars(StopRunning)
  /\ WF_vars(MonitorAsks \/ MonitorJudges \/ MonitorResumes)
  /\ WF_vars(Trainer) /\ WF_vars(Finish)

-----------------------------------------------------------------------------
(* Properties. *)

\* While the Rollouter generates, the end signal has not been put.
Generates == pc \notin {"closed", "over"}

\* Every sample the processor took is in exactly one place: its hand, a running
\* task, the queue, the batch being collected, the weights, or among the lost
\* and the failed.  No coroutine drops one silently or delivers it twice.
EverySampleAccounted ==
  LET places == <<Hand, generating, Elements(queue) \ {End}, Elements(batch),
                  trained, lost, failed>>
  IN  /\ UNION Elements(places) = 1..taken \cap Samples
      /\ \A i, k \in DOMAIN places : i < k => places[i] \cap places[k] = {}

\* If no generation raised, the end signal comes after every sample: nothing is
\* being generated and every item has been taken when it is in the queue.
EndIsLast ==
  failed = {} /\ (ended \/ End \in Elements(queue))
    => generating = {} /\ taken = Total + 1

\* The samples of one version, carried over or new, are at most MaxRequired and
\* one more: the sample the processor holds is not counted by reset_staleness,
\* and staleness_samples is read when the size of the queue is known already.
RolloutNum == Generates => period <= MaxRequired + 1

\* staleness_samples exceeds the samples of the version at most by the tasks
\* that are done and not yet reaped, which reset_staleness counts twice.
OverCount == Generates => staleness <= period + MaxConcurrent

\* If no generation raised, the queue drops at most one sample for each version
\* and one for the end signal.
FewDrops == failed = {} => Cardinality(lost) <= version + 1

\* If no generation raised, every sample that was not dropped is trained when the
\* Trainer has ended, except for those of an incomplete last batch.
AllTrained ==
  tpc \in {"over", "finished"} /\ failed = {}
    => Cardinality(trained) = ((Total - Cardinality(lost)) \div Required) * Required

\* When the Trainer has ended, the last version is saved, whatever the positive
\* save_freq is, and the updates no checkpoint has are those of an incomplete
\* version.  Without a positive one nothing is saved, at the end neither.
LastVersionSaved ==
  tpc \in {"over", "finished"} =>
    IF SaveFreq > 0
    THEN /\ ckpt = version
         /\ saved \subseteq trained
         /\ Cardinality(trained \ saved) < Required * SyncStep
    ELSE ckpt = 0 /\ saved = {}

\* The share of stale samples: what reset_staleness carries over into the next
\* version is at most MaxRequired - Required * SyncStep and one more.
StaleShare ==
  [][tpc = "resetting" /\ tpc' # "resetting" /\ Generates
       => period' <= MaxRequired + 1 - Required * SyncStep]_vars

\* The one deadlock: the Rollouter is paused with no task left and its count at
\* the limit, by tasks that reset_staleness counted twice, and the Trainer, which
\* alone would reset the count, waits for samples of its version.
Starved ==
  /\ pc = "drain" /\ paused /\ active = {} /\ staleness >= MaxRequired
  /\ tpc = "collect" /\ queue = <<>>
  /\ (local - 1) * Required + Len(batch) < Required * SyncStep
  /\ MaxRequired < Required * SyncStep + MaxConcurrent

\* The Trainer and the Rollouter both end, whatever fails and however often the
\* Rollouter pauses, or they starve; and they do not where the limit leaves room
\* beside one version for all tasks, as it does not with staleness_threshold = 0.
TrainingEnds == <>(tpc = "finished" \/ Starved)
=============================================================================
