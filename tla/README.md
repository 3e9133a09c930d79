# Grid-Mind: TLA+ models and proofs

This directory holds a formal model of the parts of Grid-Mind (`src/Code`), and of the
training framework it is trained with (`src/verl-main`), whose correctness depends on
the order of events, on failures, or on an argument about all inputs: the remote PSS/E
bridge (worker, client and VERL tool), the hosting-capacity search, the study memory,
and verl's fully asynchronous training with its checkpoints, its routing of
generations and its transfer of weights. The specifications are plain TLA+; TLC checks them on
small instances, and TLAPS proves the main results for every value of their
constants.

## 1. The system

| Component (source) | State it keeps | Operations | Talks to |
|---|---|---|---|
| Remote PSS/E worker (`scripts/psse_remote_worker.py`) | `_jobs` (id -> `JobRecord`), `_lock`, `_queue`, one worker thread, artifact directories on disk | `POST /jobs`, `GET /jobs/{id}`, `.../result`, `.../artifacts`, `/health`, `/action`; `_worker_loop`/`_run_job` | PSS/E as a subprocess; clients by HTTP |
| Remote PSS/E client (`gridmind_mini/remote_psse.py`) | the call in progress only | `run_remote_psse_m1m2`: POST, poll until over or `max_wait_s`, GET result, GET artifacts | the worker |
| VERL tool core (`gridmind_mini/remote_psse_verl.py`) | `_instances`: state id, step index, history, cached requests | `create`, `execute`, `reset`, `release` | the client; verl's agent loop |
| Hosting-capacity search (`gridmind_mini/capacity.py`) | samples, bracket, iteration count | `run`, `_fallback_scan_result` | the CIA runner, as an oracle |
| Agent loop (`gridmind_mini/agent.py`, `prompting.py`, `anti_hallucination.py`, `observations.py`) | messages, tool records and invoked tools of one turn | `run_turn` and its gates | LLM client, tool registry, memory |
| Tool registry (`gridmind_mini/tools.py`) | active backend, solver, memory store | `call_tool`, one handler per tool | solver, CIA, search, remote client, memory |
| Study memory (`gridmind_mini/memory.py`) | `studies.jsonl`, `ledger.md` | `append_record`, `load_records`, recalls, `regenerate_ledger` | shared files, several processes |
| CIA and integrated assessment (`cia.py`, `contingency.py`, `violations.py`, `integrated_assessment.py`) | none between calls | stages f1, f2, dynamic, EMT; recommendation | engines |
| M1/M2 gyms (`real_m1m2_engineer_gym.py`, `real_m1m2_evidence_gym.py`) | episode, records, rewards; cache directory of remote results | `reset`, `step`, cache runner | registry, processed artifacts |
| Frozen VERL tool and rewards (`verl_powergrid.py`, `verl_reward.py`) | per-instance replay | `execute`, trajectory reward | recorded data |
| Fully asynchronous training (`verl/experimental/fully_async_policy/`) | Rollouter: pending queue, active tasks, `staleness_samples`, `paused`; MessageQueue; Trainer: batch, step counters, version | feeder, processor, one task per sample, monitor, `reset_staleness`; `put_sample`, `get_sample`; `fit_step`, `_fit_update_weights`, `_fit_save_checkpoint` | three Ray actors calling one another; the servers below |
| Checkpoints (`verl/utils/checkpoint/`, and the save and load methods of Trainer and Rollouter) | `previous_saved_paths` in memory; shards, `data.pt` and the tracker file on disk | rotation, sharded save, resume | disk, the ranks of each role |
| Rollout routing (`verl/workers/rollout/llm_server.py`, `FullyAsyncLLMServerClient`, `verl/checkpoint_engine/base.py`, the vLLM server) | balancer: in-flight counts, sticky routes; servers: paused, asleep, weights; a conversation: ids, labels | `acquire_server`, `release_server`, `generate`, `update_weights`, `add_replicas`, `remove_replicas` | agent loops, Trainer, vLLM engines |
| Weight transfer (`verl/checkpoint_engine/nixl_checkpoint_engine.py`, `mooncake_checkpoint_engine.py`, `base.py`, `vllm_rollout/bucketed_weight_transfer.py`) | two buffers per rank and the copies queued on its device; announcements, reads and notifications between neighbours; the bucket shared with the inference worker | `send_weights`, `receive_weights`, `split_weight_chunks`, `merge_weight_chunks`, `async_send_weights`, the inference worker's `receive_weights` | the ranks before and behind, NIXL or Mooncake, the GPU |
| Engines, LLM client, reporting, benchmarks, data access | none that outlives a call | numeric simulation, one HTTP request, text, batch runs | files |

What makes each of them right, and what is hard about it:

* **Worker.** Accepted jobs are served one at a time, in order, and none is
  lost; a client that learns that a job is over can read its result, and the
  result says the same as the status. Hard: three kinds of threads share
  records that are read outside the lock and assigned field by field; the queue
  is filled outside the critical section that stores the record; an execution
  can fail before or after its files are written; the `except` clause can fail
  as well; a restart forgets every job.
* **Client and tool core.** Whatever the network and the worker do, a result
  belongs to the call it answers; a request id runs one job; a call ends. Hard: answers get lost after the
  worker acted on the request, the wait times out while the job goes on, the
  worker restarts between two requests of one call, and only two classes of
  exceptions are caught.
* **Search.** The reported boundary is that of the samples whatever the oracle
  answers, and it is exact up to the tolerance when the oracle is monotone. Hard:
  coincident and rounded points, a tolerance below the resolution, an oracle that is not
  monotone.
* **Agent loop, registry.** A tool that fails does not earn grounding credit;
  a turn ends; a study that ran is not reported as failed. Not modelled yet.
* **Memory.** A study that a tool was told to be recorded can be read back, no other
  process undoes it, and what the ledger lists is in the file. Hard: an append that is cut
  short, a second record glued to it, two processes with one file and one ledger. (That a
  stopped writer leaves the store readable is wished for and does not hold.)
* **CIA, integrated assessment.** `approve` only when every stage that ran
  supports it. Not modelled yet.
* **Gyms.** The rewards of an episode add up to its final score; no action after
  the end; the cache never serves a result of other arguments. Not modelled yet.
* **Fully asynchronous training.** No sample disappears unseen, the samples of one
  version stay within the staleness bound, and training ends with the last version saved.
  Hard: counts that are read before an await and used after it, decisions
  to pause that are outdated when the lock is there, tasks that are done and not reaped, a
  generation that raises in the middle, an end signal that must come last.
* **Checkpoints.** A crash at any step leaves the last completed save loadable, and a
  restart does not train a prompt twice. Hard: old directories are removed before the new
  one is complete, the ranks write one by one, the tracker is emptied before it is written,
  the list of saved paths does not survive.
* **Rollout routing.** Counts agree with what is being served, nothing is routed to a server
  without weights, no server answers with other weights than the rest, a trajectory
  carries the oldest version it was generated with and never exceeds its length, and a call
  ends. Hard: weight updates abort generations that go on elsewhere; releases are fired and
  forgotten; servers come and go.

* **Weight transfer.** Every inference worker loads the weights of the trainer, whole and in
  order; no buffer is written while somebody reads it; every rank gets to its end and leaves
  nothing behind for the next transfer. Hard: tensors are views of buffers that are filled
  again, copies are queued and not done, reads by others run in the background, and each
  rank waits for its neighbours and its inference worker.

`PROJECT.json` lists every component with its status, and the hazards at the
lines where they bite.

## 2. The modules

    PsseJobs            what the worker promises: a line of jobs
      ^  refinement (ServedInOrder)         ^  INSTANCE (Server)
    PsseWorker                            PsseSession
      ^                                     ^
    MCPsseWorker, PsseWorkerProofs        MCPsseSession, PsseSessionProofs

    CapacitySearch  <-  MCCapacitySearch, CapacitySearchProofs

    StudyLog  <- refinement (KeepsStudies) -  StudyMemory
                                                ^
                                    MCStudyMemory, StudyMemoryProofs

    AsyncPipeline  <-  MCAsyncPipeline, AsyncPipelineProofs
    Checkpoints    <-  MCCheckpoints, CheckpointsProofs
    RolloutRouting <-  MCRolloutRouting, RolloutRoutingProofs

    WeightStream  <- refinement (StreamsWeights) -  WeightBuckets
                                                      ^       ^
      MCNixlRelay, NixlRelayProofs  ->  NixlRelay ----+       +---- MooncakeRelay  <-  MCMooncakeRelay

### PsseJobs and PsseWorker

`PsseJobs` has two variables, the phase of each job and the line of waiting ones.
`PsseWorker` is the code: `records` is `_jobs`, `queue` is `_queue`, `handlers`
are the threads of `ThreadingHTTPServer`, `wpc`/`wjob`/`wdir`/`wok`/`failing` are
the program counter and locals of `_run_job`, `disk` the files of each job's
directories.

| Action | Code |
|---|---|
| `PostStore`, `PostPut` | `submit`, before and after the lock is released |
| `Lookup` | `status()`, the only locked access of the three GETs |
| `Read` | the unlocked reads of `to_dict`, `result()` and `artifacts()`; `result()` makes two |
| `TakeJob`, `MarkRunning` | `_queue.get()`, and the first critical section of `_run_job` |
| `OpenFolder`, `RunPsse` | `execute_job`: directory and `request.json`; the subprocess |
| `SaveResult`, `SaveManifest` | the two files, before anything is published |
| `PublishStatus`, `PublishResult`, `PublishArtifacts` | the assignments of the outcome, one step each, lock held |
| `Raise`, `Recover` | an exception at any of the steps that can raise, and the `except` clause, whose own exception ends the thread |
| `Restart` | the process is stopped and started again |

The lock is held over several steps only while an outcome is published
(`LockFree`); any other critical section makes one access and is one step.
`told` and `late` are history: what some client was told, and whether a request
came after that. A handler whose client gave up, or that the restart interrupts,
is one that disappears with `Restart`. `create_artifact_dir` stamps its name
with the second, so the `except` clause may name the first directory again or
another one: `Folders`. A write that fails leaves a torn file; several
threads reading a file while it is being written never happens to a published
one (`WrittenFirst`), and an unpublished path is not known to anyone.

### PsseSession

The client and the tool core, against `PsseJobs` as the worker. One call is a
sequence of HTTP requests and each is a step; any of them may fail in one of
two ways, by an exception that `request_json` turns into `RemotePsseError`
(`Unreachable`: the call returns an error result, which is recorded) or by one
it lets through (`Broken`, `Unanswered`: `execute` records nothing). A POST may
be accepted and its answer lost (`Unanswered`).

| Action | Code |
|---|---|
| `Create`, `Reset`, `Release` | the same methods of `RemotePsseM1M2ToolCore` |
| `Refuse`, `Replay`, `Begin` | `execute` up to the runner: unknown instance or stale state; known request id; otherwise |
| `Submit`, `Rejected`, `Poll`, `Fetch`, `FetchArtifacts` | `run_remote_psse_m1m2` and `wait_for_remote_job` |
| `Record` | `execute` after the runner: state id, step, history, cached request |
| `Serve` | steps of the worker |

A state id is a digest of the previous id and the result; it is modelled by the
sequence of results it digests. `PerCall` says who owns the instance: one for
the episode, as the methods' `reset` and step index mean it, or one per call, as
verl's `_call_tool` creates it. A caller sends what it last saw or nothing. With `PerCall`
nothing is carried over from one call to the next, though the tool core is called multi-turn
(`remote_psse_verl.py:46`) and its schema has a step index that is tracked between turns
(`tools.py:1535`): verl's agent loop creates an instance for each call and releases it
(`tool_agent_loop.py:449`), so the state starts at `initial` each time, and a caller that
sends the state id of its last result is refused. The run is about a long-lived instance, whose
calls can disturb one another; the proofs are about both.

### CapacitySearch

`run` and `_fallback_scan_result`. MW values are integers: `evaluate` rounds to
nine decimals and looks the key up before it runs the CIA, so a search moves on a
grid, and the midpoint of two neighbours is one of them (`Midpoints` has the two
outcomes of the rounding). The oracle `accepts` is any function. The branch of
`Bisect` that leaves for the scan is kept as the code has it, and proved dead:
`FallbackIsMaximum` says that only the two bounds can contradict each other,
because a midpoint is always evaluated inside a bracket (lemma
`BisectionNeverContradicts`).

### StudyLog and StudyMemory

`StudyLog` is the promise: a set of kept studies that only grows, and confirmed
ones among them. `StudyMemory` is `append_record` in several processes, one step
for each access to a file.

| Action | Code |
|---|---|
| `Begin` | `record_from_tool_result` |
| `AppendRecord`, `CutRecord` | the one write of a line, whole or cut short |
| `Load`, `LoadFails` | `load_records`, called by `regenerate_ledger` |
| `OpenLedger`, `WriteLedger`, `CutLedger` | the two steps of `write_text`: truncation and text |
| `Stop` | the process stops, or a directory or file cannot be opened, between two writes |

`studies.jsonl` is a sequence of pieces. A piece without a newline shares its line
with the next one, and the line is then no JSON object; a proper part of a record
never is one, since its braces are open. A listing in `ledger.md` is the set of its
rows: two processes read one append-only file, so one listing extends the other, and the
shorter one written over the longer leaves a tail behind it. `Kept` are the
studies on a line of their own, and `told` is what `_persist_study_memory` gave to the
tool. An id is fresh for each study, so a study is begun once.

### AsyncPipeline

Rollouter, MessageQueue and Trainer in one module, because what is hard is what each of
them believes of the others. The Rollouter's coroutines interleave at their awaits only, so
a step is what a coroutine does between two of them; the asyncio lock is held over an
await in three places (`LockFree`).

| Action | Code |
|---|---|
| `Feed` | `_feed_samples`: the pending queue, with `None` at the end |
| `AskQueueSize`, `JudgeStaleness`, `Pause`, `ReapWhilePaused`, `Resume` | `_should_pause_generation`, which awaits the size of the queue, and the branch of `_processor_worker` that follows it |
| `TakeItem`, `WaitForRoom`, `ReapForRoom`, `Submit` | the rest of `_processor_worker` |
| `AwaitTasks`, `ReapAtEnd`, `SendEnd`, `StopRunning` | the same after `None`, and the end of `_streaming_generation_main` |
| `PutSample`, `Raise` | `_process_single_sample_streaming`, with `put_sample` |
| `MonitorAsks`, `MonitorJudges`, `MonitorResumes` | `_async_monitor_loop` |
| `GetSample`, `Train` | `_get_samples_from_queue`; `fit_step` and `_fit_update_local_step` |
| `ResetStaleness`, `AssignStaleness` | `reset_staleness`, before and after its await, called by `_fit_update_weights` |
| `FinalSave`, `Finish` | the end of the Trainer's `fit`, and of `_run_training_loop` |

`period` is history: what was outstanding at the last reset, and what was taken since. It is
the number that the staleness threshold is about, while `staleness` is the program's
estimate of it.

### Checkpoints

The save is a sequence through roles, ranks, the data loader and the tracker file. A crash
may come before any step, and in the middle of a removal (`BeingRemoved`).

| Action | Code |
|---|---|
| `Feed`, `Train` | the prompts that are drawn and the ones the weights are trained on |
| `BeginSave` | `_fit_save_checkpoint` |
| `EnsureCapacity`, `Register` | `ensure_checkpoint_capacity`, `register_checkpoint` |
| `OpenShard`, `WriteShard` | `save_checkpoint` of a rank, and the barriers |
| `OpenData`, `WriteData` | `save_checkpoint` of the Rollouter |
| `OpenTracker`, `WriteTracker` | `open(.., "w")` and the write of `latest_checkpointed_iteration.txt` |
| `Crash` | the job is stopped |
| `StartAnew`, `Resume`, `FailToResume` | `load_checkpoint` of both with `resume_mode = auto` |

A shard holds the job that wrote it and the prompts its weights were trained on; that is
what tells a checkpoint of one save from a mixture of two.

### RolloutRouting

| Action | Code |
|---|---|
| `Begin`, `Retry`, `Complete`, `TakeAborted`, `Raise` | `FullyAsyncLLMServerClient.generate` and `LLMServerClient.generate`, with `acquire_server` and the call of `release_server` |
| `ReceiveRelease` | `release_server` at the balancer |
| `Start`, `Generate` | the vLLM engine (external): a paused one takes no request; one id at a time |
| `StartSync`, `Sync` | `_fit_update_weights` and `update_weights` of the checkpoint manager of the standalone servers |
| `Validate`, `AddReplicas`, `RemoveReplicas`, `EndValidation` | `_fit_validate` and `_trainer_side_validate` |
| `AbortReplica`, `DrainReplica`, `ResumeReplica` | `abort_all_requests`, with the branch for vLLM before 0.12 and the `except` clause; `wait_for_requests_to_drain`; `resume_generation` |
| `WakeWeights`, `LoadWeights`, `SetGlobalSteps`, `WakeCache` | `update_weights` of the Trainer's workers: `resume(["weights"])`, the weights, `set_global_steps`, `resume(["kv_cache"])` |
| `SleepReplica` | `sleep` of a hybrid server |

The Trainer awaits each remote call before the next, so its program is a list
(`Script`). An entry is a gather: its servers have the same calls, one after the other, each a
step of its own, and the servers are served in any order (`done` counts the calls a server has
had). A conversation is an agent loop with one or more turns of `generate`, and has a sticky
server. `CallEnds` excepts the requests that were routed to a hybrid server before its removal:
such a request may begin after the last resume, on a server that sleeps, and vLLM gives no
promise for it.

Three settings of the deployment are constants. Without `FreeCacheEngine`, hybrid servers
never sleep: `HybridUpdate` and `HybridSleep` then lack the calls that return at once, and what
keeps their old weights from serving is only that they are out of the pool (`Settled`).
`Unpaused` are the servers that an abort may leave running: all of them before vLLM 0.12,
where `abort_all_requests` pauses nothing and `resume_generation` does nothing, and any
whose abort raises, which is logged and ends the call, before or after the requests were aborted or
the engine was
paused. `loose` is history: the servers that are to be paused and are not; `OneVersionServes` and
`NeverOlder` except exactly these. `ValBeforeTrain` begins with a validation, before the first
update; the model lets conversations begin during it, which is more than the code does.

### WeightStream, WeightBuckets, NixlRelay and MooncakeRelay

`WeightStream` is the promise: what a worker has loaded grows, weight by weight, as a
beginning of the trainer's units. `WeightBuckets` has what the engines share: the device with its queued
copies, the trainer's filling of a bucket, and the adapter and inference worker that consume
the tensors. `NixlRelay` and `MooncakeRelay` add how a bucket gets from one rank to the
next.

| Action | Code |
|---|---|
| `Fill` | `send_weights` over `split_weight_chunks`: a chunk is copied into the bucket |
| `ExecuteCopy` | the device executes a `copy_(.., non_blocking=True)` or an assignment between tensors |
| `TakeSmall`, `Flush`, `SendTail` | `async_send_weights` |
| `TakeChunk`, `SendLarge` | `merge_weight_chunks`; `_direct_send_large_weight` |
| `Load` | `receive_weights` of the inference worker, its answer, and its receipt |
| NIXL: `SendBucket`, `EndSend` | the two places of `send_weights` that make a `ReadableOperation`, and its end |
| NIXL: `BeginRead`, `Transfer` | `ReadOperation`; the transfer moves a unit at a time and notifies at its end |
| NIXL: `SwapBuckets`, `EndReceive` | steps 4, 5 and 1 of `_receive_weight_chunks`, with the first bucket before the loop; its end |
| Mooncake: `SendBucket`, `AwaitMagic` | `send_weights`, `wait_for_complete` |
| Mooncake: `ReadBucket`, `WriteMagic`, `SwapBuffers` | steps 1 and 2, 4, and 5 of `receive_weights` |

Weights, chunks and buckets are intervals of the units numbered in sending order, because a
bucket packs chunks one behind the other; an offset is a distance from the beginning of the
bucket. Waits that follow one another, and that nothing undoes, are one guard. A rank is one
thread: its coroutine stops at its awaits, and altogether while it waits for the answer of its inference
worker. External are the RDMA reads and their notifications, the ordering of copies on a stream, and
the event that
a CUDA handle carries.

## 3. The runs

| Run | Shows | States |
|---|---|---|
| `worker_safety` | `PendingIsAccounted`, `ToldFinishedThenResult`, `ResultMatchesStatus`, the refinement `ServedInOrder`, the action property `ToldIsFinal` | 870 000 |
| `worker_live` | `QueuedJobEnds` under `FairSpec` | 66 000 |
| `session_alone` | `RequestRunsOnce`, `HistoryIsTrue`, `OkIsOwn` of a long-lived instance, and `CallEnds` under `FairSpec` | 425 000 |
| `capacity_search` | `Bracket`, `BoundaryIsReported`, `MonotoneIsExact`, and `SearchEnds` under `FairSpec` | 363 000 |
| `study_memory` | refinement `KeepsStudies`, action property `LedgerIsCurrent` | 42 000 |
| `pipeline` | `EverySampleAccounted`, `EndIsLast`, `RolloutNum`, `AllTrained`, `OverCount`, `LastVersionSaved`, the action property `StaleShare`, and `TrainingEnds` under `FairSpec` | 392 000 |
| `checkpoints` | `TrackedIsWhole`, `RestartSucceeds`, `NothingTwice`, `RotationIsExact`, the action property `NoSaveLost` | 3 570 000 |
| `routing` | `CountsTrue`, `PoolIsAwake`, `OneVersionServes`, `NeverOlder`, `LengthBound`, and `CallEnds` under `FairSpec` | 444 000 |
| `nixl` | `BufferIsQuiet`, `NothingLeft`, the refinement `StreamsWeights`, and `TransferEnds` under `FairSpec` | 40 000 |

Type invariants (`TypeCorrect`), the inductive invariants (`WorkerInv`, `MemoryInv`),
`FallbackIsMaximum` and `ContradictionFallsBack` are proved; the configurations do not
repeat them.

Three more runs show a disagreement between what a document of the repository
says and what the code does:

* `worker_folder` (`ResultBesideRequest`). The bridge's README says that each job
  gets its own subdirectory with request and result. The `except` clause of
  `_run_job` names the directory anew; if the clock has moved on by a second, the
  failure is written elsewhere.
* `session_retry` (`RequestIsIdempotent`). The schema offers `request_id` for
  idempotency. A `TimeoutError` or a closed connection while the answer is
  awaited or read is neither `HTTPError` nor `URLError`; it passes
  through `execute`, the id is not recorded, and the retry runs a second job.
  `RequestRunsOnce` is the part that does hold: without such an exception a request
  id runs at most one job.
* `mooncake` (`WeightsEqual`). The test of the engines asserts that every received weight
  equals the trainer's. A rank tells the one behind of its bucket before it hands the bucket on itself, and
  the one behind writes its four magic bytes over the beginning of that bucket as soon as it
  is through. If the rank still has to copy the first weight, because its inference worker is
  slower or its device is busy, it copies the magic bytes. The last rank, and so a single
  receiver, is safe. In NIXL the notification is a message and nothing is overwritten.

What the runs of verl's modules show of the code, beside their properties:

* `RolloutNum` and `StaleShare` hold with one sample more than
  `docs/advance/fully_async.md` (126-146) computes: the sample in the processor's hand is in
  neither count.
* `TrainingEnds` has one exception, the deadlock `Starved`. `reset_staleness` counts a task that is
  done and not yet reaped together with its sample in the queue; the processor reaps only when it
  pauses or is full. Such a count can reach the limit while the Trainer still lacks samples of
  its version; then the Rollouter is paused with no task left, nobody lowers the count, and
  neither moves. It takes `MaxRequired < Required * SyncStep + MaxConcurrent`, and so it is within
  reach of the documented modes without stale samples (`staleness_threshold = 0`,
  `docs/advance/fully_async.md:191-203`), where `MaxRequired = Required * SyncStep`: for instance
  with `Required = 2`, `SyncStep = 1`, `MaxRequired = MaxConcurrent = 2`, `Total = 5`. The run
  carries one sample over, one less than `MaxConcurrent`, and reaches `Starved` as well.
  The processor must not have been scheduled, or must wait for the data loader, between the
  end of the task and the synchronisation, so this is rare. `TrainingGoesOn` proves for every
  configuration that there is no other deadlock.
* A generation that raises ends the processor, the exception is collected by
  `gather(return_exceptions=True)`, and the Trainer ends as if all samples had been fed. The
  properties that assume `failed = {}` say so.
* `LastVersionSaved` states what the last save has: the updates since the last
  hand-over are in no checkpoint. Without a positive `save_freq`, and verl's default is -1
  (`ppo_trainer.yaml:149`), the forced save at the end saves nothing either.
* `TrackedIsWhole` and `RestartSucceeds` except a role with a limit of one (`Superseded`), which a
  warning of the Trainer recommends (`fully_async_trainer.py:659-668`).
  `ensure_checkpoint_capacity` leaves that case alone so that the old checkpoint lives until the
  new one is written (`checkpoint_manager.py:152-165`); but `register_checkpoint` then removes it
  before the other roles, the data loader and the tracker file have followed
  (`fully_async_trainer.py:680-696`). A job that is stopped in between cannot be resumed. The
  run's actor has that limit and gets there.
* `RestartSucceeds` has one exception more: a crash between the opening
  and the writing of the tracker file leaves it empty, and `int('')` ends every later job.
* `CountsTrue` speaks of an upper bound for hybrid servers: a server that was removed and comes
  back starts at 0, and releases of its former requests are counted against the new ones.
* `LengthBound` bounds prompt and response together. An interrupted generation is sent again
  with what it has as its prompt, and its limit shrinks only by what exceeds
  `prompt_length`; after a shorter prompt the response may be longer than
  `response_length`, and the agent loops cut it.

### Bounds, and why they suffice

* Worker: two jobs and two handler threads. Each property relates one job or one
  pair of jobs, with one reader and one other thread; the proofs confirm that nothing
  depends on the numbers. `FaultsPerJob = 2` is the least that lets the `except`
  clause fail; with 1, in the liveness run, it does not, since a dead worker
  thread never serves the jobs behind it (see below). One restart: everything after it
  starts from the same memory as at the beginning, with old ids in circulation.
* Session: two jobs let a request id run twice; two lives let something survive a
  reset; two steps and two request ids allow an error, a result and a replay of either. `MaxPolls`
  stands for `max_wait_s`; a deadline may also pass earlier (`Poll`).
* Memory: two processes are what `LinesStay` and the overlay of two ledgers speak of;
  three studies let a record be torn, one be glued to it and one come after; two faults
  tear both files. The proofs hold for any numbers.
* Pipeline: two batches of one sample for a version, so that training may end within one;
  one sample may be carried over, and two tasks run at once, so that counts can be wrong by
  more than one, and by enough for the deadlock that `TrainingEnds` names; seven samples give three
  versions and an incomplete one; one generation that raises.
* Checkpoints: two ranks let one be done while the other writes; two roles, one with a limit of
  one, which the code treats in its own way, and one with two, let their rotations differ; four
  versions overflow both lists; three jobs let a resumed one crash again.
* Routing: two standalone servers, so that one has the new weights and has resumed while the other
  has not, and one hybrid; two conversations, one with two turns, both with prompts of full
  length; a route cache of one, so that a route is forgotten; one update, after which a
  trajectory spans two versions, and its validation; one standalone server that an abort may leave
  running. `ToolLength = 0` gives the second turn room within the two ids of a response.
  `FreeCacheEngine = FALSE`, `ValBeforeTrain = TRUE`, and a hybrid server that is left running are
  covered by the proofs, which assume none of this.
* Weight transfer: three receivers, so that one in the middle has a middle one on either
  side of a read; buckets of two units, so that a bucket may hold two weights, a part of one, or
  the end of one and the next; ten units in weights of 1, 1, 5, 1 and 2 take every branch of the adapter.
  Mooncake's disagreement needs two receivers.
* Search: 0..6 has room for two levels of bisection, for every tolerance from 0 to
  2 and iteration limits below and above what is needed.

`MaxSteps`, `MaxLives` and `MaxPolls` in `PsseSession`, `FaultsPerJob` and
`MaxRestarts` in `PsseWorker`, `MaxFaults` in `StudyMemory`, `MaxFailures` in `AsyncPipeline`, `MaxVersion`,
`MaxPrompts` and `MaxLives` in `Checkpoints`, `MaxVersion` in `RolloutRouting`, and `Top`,
`MaxTolerance`, `MaxIterations` and
`MaxScan` in `CapacitySearch` are bounds of the models, not of the code (but
`iterations <= max_iterations`, which is the code's). `CHECK_DEADLOCK FALSE`
stands only in the search, memory, checkpoint and transfer configurations: a search is over when it
has answered, the memory rests when every study has been recorded, a job stops when it
has trained enough or cannot be resumed, and a transfer ends (`TransferEnds` says that it
does not get stuck before). The pipeline and the routing have an action of
their own for the end (`Terminated`, `Over`), so a deadlock of theirs would be found.

### Fairness

* `PsseWorker`: weak fairness of the worker thread's own steps and of each handler
  that is about to answer: the operating system schedules threads, the lock is held
  over finitely many assignments, and the subprocess has a timeout
  (`run_subprocess`). No fairness on requests, exceptions, restarts.
  `QueuedJobEnds` assumes that the `except` clause itself does not raise: when it
  does, the only worker thread ends and the server goes on accepting jobs. That is
  the state `wpc = "dead"` of the safety run.
* `PsseSession`: weak fairness of the call in progress. Nothing is asked of the
  worker: `CallEnds` rests on `max_wait_s` alone. `urlopen`'s timeout is what
  keeps a single request from blocking forever.
* `CapacitySearch`: weak fairness of the sequential program.
* `AsyncPipeline`: weak fairness of every coroutine and of the Trainer: each is
  scheduled by an event loop, holds the lock over finitely many awaits, and its remote calls are
  answered. Every generation ends or raises; none must raise.
* `RolloutRouting`: weak fairness of each conversation, of the delivery of each release and
  of the Trainer. Ray delivers the calls of one caller in order. The engine's generation of
  a further id is not fair: it may end a response at any time.

* `NixlRelay`: weak fairness of each thread, device, transfer and inference worker. A transfer
  that fails ends the process (`exit(-1)`).

## 4. The proofs

`PsseWorkerProofs` proves, for all sets of jobs and handlers and all bounds,
from `WorkerAssumption` only:

* `TypeCorrect`, by one step per action.
* `PendingAccounted`. `PendingIsAccounted` says where a job of a given status is;
  it is not inductive, since it would allow the same id twice in the queue, so that taking
  one leaves the other. `Placed` adds that an id is in one place only, and that ids not
  issued have no record. `PutElements` and `GetElements` are the facts about sequences
  this needs.
* `WorkerInvariant`: `WorkerInv`, which adds `Outcomes`. `WrittenFirst` follows the
  worker from the writing of the files to the last assignment;
  `FinishedIsPublished` says that a finished record outside the publication has both
  paths and whole files; `ToldAgrees` ties what clients were told to the record;
  `LateReadersSafe` says that a late reader passed the lock after the publication.
  The lock matters in exactly this place: without it (`LookupWithoutLock`) a reader
  told of the outcome during the publication finds no path.
* `ResultAfterTold`, `ResultAgrees`, `ToldOnce`: from that invariant.
* `ServesInOrder`: `PsseWorker` implements `PsseJobs` under the mapping `Phase`: a
  job is `queued` from the moment it is put, and `running` from the moment it is
  taken, before the record says so.

`PsseSessionProofs` proves, for all jobs, episodes, requests and bounds, from
`SessionAssumption`, and so for any number of episodes that share the worker:

* `TypeCorrect` and `SessionInvariant`. The invariant says what the worker has of the posted
  jobs (`Waiting`, `Posts`), that a job in a history was posted by the instance's present life
  with the request it is cached under (`History`, `CacheTrue`), and of a call in progress that its
  job is its own, is in no step of
  the history and has not raised (`Calling`). `Replied` and `Accounted` follow the last answer and
  the requests that are still to be recorded.
* `HistoryTrue` and `OkOwn` (a late verdict of a job that was given up reaches no other call), and
  `RequestOnce`.

`CapacitySearchProofs` proves, for every oracle, request and bound, from
`SearchAssumption`: the invariant `TypeOK /\ Bracket` (`SearchInvariant`), and from it
that all answers are right (`AnswersRight`, restated by `BoundaryReported`,
`MonotoneExact`, `ContradictionsFallBack` and `FallbackMaximum`). `Bracket` is needed as
the strengthening: `BoundaryIsReported` speaks only of finished searches. `SearchGoesOn` and
`SearchShortens` are what `SearchEnds` rests on: there is always a next step, since
a scan after a contradiction has an accepted sample, and each step lowers `StepsLeft`.

`StudyMemoryProofs` proves, for all processes, studies and faults, from
`MemoryAssumption`:

* `MemoryInvariant`: `MemoryInv`. `Confirmed \subseteq Kept` alone is not inductive: the
  append does not look at what it appends to. The strengthening follows a process: its
  line is in the file from the append on, and `Load` shows that nothing precedes it on
  that line (`LineOfLoadableIsKept`), which no later append can change (`KeptGrows`).
  `OneRecorder` keeps a failing call from taking back another's answer.
* `StudiesAreKept`: the refinement of `StudyLog`, step by step.
* `LedgerCurrent`, `LedgerOfOneProcess`: what the ledger lists is in the file
  (`Listings`), so a complete listing covers whatever another process or an earlier call
  left on disk. A listing can be outdated only by an append after the file was read, and a
  single process makes none.

Once the file cannot be loaded it never can again: there is no repair, and until someone edits
the file every recall, and with it every prompt with a memory store, raises `ValueError`. Nothing is
stated of this but that no later study is taken for recorded (`KeepsStudies`).

`AsyncPipelineProofs` proves, for every batch size, limit and number of samples, from
`PipelineAssumption`:

* `TypeCorrect` and `PipelineInvariant`. The invariant counts (`Counts`): what is in
  flight and what was consumed since the hand-over are at most `period`, and `period` is at most
  `staleness` and one more, so a processor that takes an item has found `period` at most
  `MaxRequired`. `Tasks` bounds the active tasks and, between the two steps of
  `reset_staleness`, says that `counted` covers what still generates; `Batches`
  says where the Trainer is within a version.
* `SamplesPerVersion` (`RolloutNum`), `StaleShareBounded` (`StaleShare`) and
  `StalenessOverCount` (`OverCount`: the estimate exceeds the truth by at most the
  tasks that are done and not reaped).
* `DeliveryInvariant`: where every sample is. `SampleInv` puts each one in exactly one
  place, and says that the queue and the batch repeat nothing and that the end signal is never among the
  dropped. For the latter it needs `EndInv`: once the processor has stopped,
  fewer than `MaxConcurrent` tasks can still put a sample behind the end signal, too few to push it out.
  `OrderInv` says that without failures nothing is put behind it at all; `SaveInv`
  that whole batches are trained and which of them the last checkpoint lacks.
* `SamplesAccounted` (`EverySampleAccounted`), `EndComesLast` (`EndIsLast`), `AllAreTrained`
  (`AllTrained`) and `LastVersionIsSaved` (`LastVersionSaved`) from it.
* `DropsBounded` (`FewDrops`) and `FewUntrained`. A queue that drops a sample is full while a task is
  running, and then `MaxRequired + 1` samples are in flight: all that `Counts` allows in one version,
  with none consumed. So a version drops one sample at most, and the next one can be dropped
  only after a hand-over (`DropInv`).
* `TrainingGoesOn`: until both have ended, some coroutine can go on or they are in `Starved`,
  whatever fails and for every configuration that `PipelineAssumption` admits. `Goes` lists what each
  of them waits for; a monitor that would only ask and find the count too high does not count as
  going on. `AllWait` says what a state would be in which nobody can: the processor is paused,
  nothing is in flight,
  and the Trainer lacks samples of a version. `FlowInv` bounds `staleness_samples` by what the Trainer
  has of the version and the tasks counted twice; the monitor does not resume only if this reaches
  `MaxRequired`, and so only if there is less room beside a version than for the running tasks.
  `WaitInv` says that the lock is held over a wait only while there are tasks, and that the end signal
  stays in the queue until the Trainer sees it. TLC finds the bound in `Starved` tight: with one
  sample less of room the state is reached in every small configuration tried.

`CheckpointsProofs` proves, for all roles, ranks, limits and numbers of jobs:

* `TypeCorrect` and `CompletedSaveIsKept` (`NoSaveLost`) from `CheckpointAssumption`.
* `RotationLeavesTheKept` (`RotationIsExact`) from `CheckpointAssumption`, for every limit, also that
  of a single checkpoint. `RotationInv` follows the running job's own directories through a save: the
  manager's list and what is on disk are equal but for the version that is being written.
* `TrackerNamesWhole`, `NoPromptTwice`, `OnlyTornOrGivenUpFails`, from the same assumption. The
  invariant `SaveInv` says that the paths a manager knows are in the order in which they were saved
  (`PathsInv`), so that a rotation with room for two does not reach the tracked one, and one with
  room for a single checkpoint removes it only when the newer one is whole; that the parts of the
  present save hold the weights of
  this moment (`WrittenInv`), since training waits for the save; that the tracked version is of one
  snapshot and its data go on behind it (`TrackedInv`); and that the weights were trained on drawn prompts
  only (`PromptInv`).

`RolloutRoutingProofs` proves, for all servers, conversations and lengths, from
`RoutingAssumption`:

* `PoolServesAwake` and `ServersAgree` from `ScriptInv`, which says at each place of the
  Trainer's script, and of each server by the calls of the present gather it has had, whether it is
  paused or loose, asleep, and has the weights and the label of the present version. They hold with
  and without `FreeCacheEngine`, for every set `Unpaused`, and with a first validation.
* `TrajectoryNeverOlder` from `LabelInv`, `LengthBounded` from `RoomInv`, `CountsCorrect` from
  `CountInv`: a server's count against the set of conversations that acquired it and
  whose release has not arrived.

`NixlRelayProofs` proves, for every chain of at least two receivers, every division of the units
into weights and every size of a bucket, from `BucketAssumption` and `RelayAssumption`:

* `TypeCorrect` and `RelayInvariant`. What the properties say of buffers and of what was loaded
  is not inductive, because a bucket passes through notes, announcements, transfers and queued copies
  before anybody loads it. `LinkInv` gives each pair of neighbours one of five states: nothing offered
  yet, announced, being read, read, or over; in all but the first the offered buffer holds its
  bucket. `ThreadInv` follows the two buffers of a receiver: the current one holds its bucket, and the other
  one the units that the transfer has moved. `WillHold` and `Merged` say that every unit a rank
  has taken over is in memory or in a queued copy, and `CopiesInv` that queued copies read
  the current buffer, which is why the swap must wait for them. `AdapterInv` says what was
  loaded. `Cut` says that all boundaries are ends of chunks, so that a chunk never leaves its bucket
  (`ChunkIsWhole`).
* `BufferQuiet` (`BufferIsQuiet`) and `NothingIsLeft` (`NothingLeft`) from that invariant.
* `WeightsStream`: `NixlRelay` implements `WeightStream`. A request of the adapter that the
  inference worker answers is a step of the stream, or a stutter if its bucket is empty;
  every other step leaves what was loaded (`StepHolds`).
* `ChainGoesOn`: no deadlock, for every length of the chain. `Goes` is the disjunction of the guards
  of all actions. If nobody can go on, no rank waits for the one behind it: if one did, the one
  behind would wait for its own successor in turn (`BlockedBehind`), but nobody is
  behind the last (`NoneBlocked`). So the first rank that is not through waits for an announcement of
  a rank that is through and has made all of its announcements (`Stopped`).
* `StepsAdvance` and `ProgressBounded`: every step raises `Progress` of one rank and lowers none, and
  no rank's exceeds a bound in the sizes alone. With `ChainGoesOn` this is
  `TransferEnds` but for fairness: a behaviour that stops only when no step is possible is finite and
  ends with every rank through.

The theorems named `...GoesOn` speak of guards, since `ENABLED` is out of the prover's reach.
For each, TLC confirmed on a small instance that the disjunction of guards holds exactly where the
next-state
relation is enabled (for the pipeline: apart from a generation that raises, and with the monitor's
vain questions counted in).

Only model-checked: the liveness properties `QueuedJobEnds`, `CallEnds` (of the session and of the
routing), `SearchEnds`, `TrainingEnds` and `TransferEnds`, because fairness and `ENABLED` are out of
the prover's reach; and all of `MooncakeRelay`, whose run shows a violation. Every invariant and every
action property of the passing runs is the subject of a theorem.

## 5. Not modelled, and why

* What PSS/E, the power-flow, dynamic and EMT engines compute: floating-point
  simulation. Their outcomes are nondeterministic.
* `preflight` and `psse_import_check` of the worker: they touch none of the
  worker's state; the subprocess they start shares the PSS/E licence with a running job,
  which is outside the program.
* Validation, authorisation and wording of HTTP answers: an invalid request changes
  nothing.
* The reward of a replayed observation, which is paid again: nothing says whether it
  should be.
* `src/M1` is an earlier copy of the package.
* `src/verl-main` is a vendored framework, and most of it is numeric (losses, model
  engines, kernels, data pipelines) or sequential (the synchronous trainers): states a
  model checker has nothing to say about. Modelled are the parts whose actors run
  concurrently or whose files outlive a crash.
* Of the asynchronous training: the expiry of a machine's plan, aborts during the
  hand-over of weights and the sleeping servers in the pipeline (`RolloutRouting` has them), statistics.
* Of the checkpoints: HDFS, `resume_path`, `del_local_ckpt_after_load`, managers
  other than the one of FSDP. Checkpoints of former jobs are never rotated out,
  since the list of paths is in memory; `RotationIsExact` is about the running job.
* Of the routing: failing add and remove calls, limits in `sampling_params`, engines other than
  vLLM, sleep level 1 (LoRA adapters, NPUs), where the base weights outlive the sleep,
  and the last hand-over at the end of `fit`, which repeats a version. Which route a full cache
  forgets is left open. The answer of a server and its receipt are one step; validation's own
  generations are among the conversations.

* Of the weight transfer: the NCCL, HCCL and Kimi engines, whose collectives are one operation of a
  library; the fallback to shared memory, in which the receiver copies before it loads; and
  weights without elements, of which no chunk is sent. `build_topology` of the NIXL engine cannot
  serve a single receiver: `metadata[-rollout_world_size + 1:]` is then the whole list, and
  `build_process_group` refuses it; hence `RelayAssumption`.

## 6. Plan

Done: `PsseJobs`, `PsseWorker`, `CapacitySearch`, `StudyLog`, `StudyMemory`,
`PsseSession`, `AsyncPipeline`, `Checkpoints`, `RolloutRouting`, `WeightStream`,
`WeightBuckets` and `NixlRelay` with runs and proofs; `MooncakeRelay` with a run.
What is left, in this order:

1. `Assessment`: `_recommend` of the CIA and of the integrated assessment as
   operators over stage reports, against a reference definition; the search composed with it.
2. `AgentTurn`: gates, rounds, tool failures, grounding credit, persistence of a study
   (`agent.py`, `tools.py`, `memory.py` composed); properties: a turn ends, credit only
   for a tool that succeeded in this turn, a failure to persist is not a failed study.
3. `EngineerGym`: episode, telescoping rewards, result cache with concurrent writers;
   the frozen tool with it.
4. Proofs for 1 to 3: the invariants of the turn and of the episode.
