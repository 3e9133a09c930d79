------------------------ MODULE AsyncPipelineProofs ------------------------
(***************************************************************************)
(* What the asynchronous pipeline keeps for every batch size, staleness    *)
(* threshold, concurrency and number of samples: its types; the bounds on  *)
(* the samples of a version, on the count of stale samples and on the      *)
(* share that a synchronisation carries over; and what becomes of every    *)
(* sample: where it is, that the end signal comes last, how many are       *)
(* dropped, what is trained and what is saved in the end.  And, for the    *)
(* settings that leave room for it, that the coroutines never all wait.    *)
(***************************************************************************)
EXTENDS AsyncPipeline, FiniteSetTheorems, TLAPS

\* The parameters are positive numbers.
LEMMA Sizes ==
  /\ Required \in Nat /\ Required > 0 /\ SyncStep \in Nat /\ SyncStep > 0
  /\ MaxConcurrent \in Nat /\ MaxConcurrent > 0 /\ MaxRequired \in Nat
  /\ MaxConcurrent <= MaxRequired
  /\ Total \in Nat /\ Total > 0
BY PipelineAssumption

LEMMA SamplesFinite ==
  /\ IsFiniteSet(Samples)
  /\ \A S \in SUBSET Samples : IsFiniteSet(S) /\ Cardinality(S) \in Nat
<1>1. IsFiniteSet(Samples)
  BY FS_Interval, Sizes DEF Samples
<1>2. ASSUME NEW S \in SUBSET Samples
      PROVE  IsFiniteSet(S) /\ Cardinality(S) \in Nat
  BY <1>1, FS_Subset, FS_CardinalityType
<1> QED BY <1>1, <1>2

-----------------------------------------------------------------------------
(* Types. *)

LEMMA EnqueueType ==
  ASSUME TypeOK, NEW item \in Samples \cup {End}, Enqueue(item)
  PROVE  /\ queue' \in Seq(Samples \cup {End})
         /\ lost' \subseteq Samples \cup {End}
         /\ Len(queue') <= Len(queue) + 1
<1>1. queue \in Seq(Samples \cup {End}) /\ lost \subseteq Samples \cup {End}
  BY DEF TypeOK
<1>2. CASE Len(queue) >= MaxRequired
  <2>1. queue # <<>>
    BY <1>1, <1>2, Sizes
  <2> QED BY <1>1, <1>2, <2>1 DEF Enqueue
<1>3. CASE ~(Len(queue) >= MaxRequired)
  BY <1>1, <1>3 DEF Enqueue
<1> QED BY <1>2, <1>3

\* What a batch changes: the weights, and the checkpoint only within a version.
LEMMA TrainStep ==
  ASSUME Train
  PROVE  /\ tpc = "train" /\ trained' = trained \cup Elements(batch) /\ batch' = <<>>
         /\ local < SyncStep =>
              /\ local' = local + 1 /\ tpc' = "collect" /\ version' = version
              /\ \/ UNCHANGED <<ckpt, saved>>
                 \/ SaveFreq > 0 /\ ckpt' = version /\ saved' = trained'
         /\ ~(local < SyncStep) =>
              /\ local' = 1 /\ tpc' = "sync" /\ version' = version + 1
              /\ UNCHANGED <<ckpt, saved>>
         /\ UNCHANGED <<rollouter, messages, counted, ended, period>>
<1>1. /\ tpc = "train" /\ trained' = trained \cup Elements(batch) /\ batch' = <<>>
      /\ UNCHANGED <<rollouter, messages, counted, ended, period>>
  BY Zenon DEF Train
<1>2. ASSUME local < SyncStep
      PROVE  /\ local' = local + 1 /\ tpc' = "collect" /\ version' = version
             /\ SaveCheckpoint(FALSE, trained \cup Elements(batch))
  BY <1>2, Zenon DEF Train
<1>3. ASSUME local < SyncStep
      PROVE  \/ UNCHANGED <<ckpt, saved>>
             \/ SaveFreq > 0 /\ ckpt' = version /\ saved' = trained'
  <2>1. PICK expiring \in BOOLEAN :
          IF version # ckpt /\ SaveFreq > 0 /\ (FALSE \/ version % SaveFreq = 0 \/ expiring)
          THEN ckpt' = version /\ saved' = trained \cup Elements(batch)
          ELSE UNCHANGED <<ckpt, saved>>
    BY <1>2, <1>3, Zenon DEF SaveCheckpoint
  <2> QED BY <1>1, <2>1, Zenon
<1>4. ASSUME ~(local < SyncStep)
      PROVE  /\ local' = 1 /\ tpc' = "sync" /\ version' = version + 1
             /\ UNCHANGED <<ckpt, saved>>
  BY <1>4, Zenon DEF Train
<1> QED BY <1>1, <1>2, <1>3, <1>4

LEMMA TypeStep == TypeOK /\ [Next]_vars => TypeOK'
<1> SUFFICES ASSUME TypeOK, [Next]_vars PROVE TypeOK'
  OBVIOUS
<1>1. CASE Feed
  BY <1>1, Sizes DEF TypeOK, Hand, Feed, messages, trainer
<1>2. CASE Processor
  <2>0. ASSUME NEW next \in {"drain", "submit", "end"}, Reap(next),
               next = "submit" => pc = "full"
        PROVE  TypeOK'
    <3> PICK done \in (SUBSET Finished) \ {{}} :
               /\ active' = active \ done
               /\ \/ pc' = "stopped" /\ lost' = lost \cup Hand
                  \/ pc' = next /\ lost' = lost
      BY <2>0 DEF Reap
    <3>1. taken' = taken /\ ProcessorUnchanged /\ UNCHANGED <<staleness, paused, period>>
      BY <2>0 DEF Reap
    <3>2. Hand' \subseteq Samples
      BY <2>0, <3>1 DEF TypeOK, Hand
    <3>3. active' \subseteq Samples /\ lost' \subseteq Samples \cup {End}
      BY DEF TypeOK
    <3>4. pc' \in {"drain", "submit", "end", "stopped"}
      OBVIOUS
    <3> QED BY <3>1, <3>2, <3>3, <3>4 DEF TypeOK, ProcessorUnchanged, trainer
  <2>1. CASE AskQueueSize
    BY <2>1 DEF TypeOK, Hand, AskQueueSize, ProcessorUnchanged, trainer
  <2>2. CASE JudgeStaleness
    BY <2>2 DEF TypeOK, Hand, JudgeStaleness, ProcessorUnchanged, trainer
  <2>3. CASE Pause
    BY <2>3 DEF TypeOK, Hand, Pause, ProcessorUnchanged, trainer
  <2>4. CASE Resume
    BY <2>4 DEF TypeOK, Hand, Resume, ProcessorUnchanged, trainer
  <2>5. CASE ReapWhilePaused
    BY <2>0, <2>5 DEF ReapWhilePaused
  <2>6. CASE TakeItem
    BY <2>6, Sizes DEF TypeOK, Hand, Samples, TakeItem, ProcessorUnchanged, trainer
  <2>7. CASE WaitForRoom
    BY <2>7 DEF TypeOK, Hand, WaitForRoom, ProcessorUnchanged, trainer
  <2>8. CASE ReapForRoom
    BY <2>0, <2>8 DEF ReapForRoom
  <2>9. CASE Submit
    BY <2>9 DEF TypeOK, Hand, Submit, messages, trainer
  <2>10. CASE AwaitTasks
    BY <2>10 DEF TypeOK, Hand, AwaitTasks, ProcessorUnchanged, trainer
  <2>11. CASE ReapAtEnd
    BY <2>0, <2>11 DEF ReapAtEnd
  <2> QED BY <1>2, <2>1, <2>2, <2>3, <2>4, <2>5, <2>6, <2>7, <2>8, <2>9, <2>10, <2>11
             DEF Processor
<1>3. ASSUME NEW s \in Samples, PutSample(s) PROVE TypeOK'
  BY <1>3, EnqueueType DEF TypeOK, Hand, PutSample, trainer
<1>4. ASSUME NEW s \in Samples, Raise(s) PROVE TypeOK'
  BY <1>4 DEF TypeOK, Hand, Raise, messages, trainer
<1>5. CASE SendEnd
  BY <1>5, EnqueueType DEF TypeOK, Hand, SendEnd, trainer
<1>6. CASE StopRunning
  BY <1>6 DEF TypeOK, Hand, StopRunning, messages, trainer
<1>7. CASE MonitorAsks \/ MonitorJudges \/ MonitorResumes
  <2>1. CASE MonitorAsks
    BY <2>1 DEF TypeOK, Hand, MonitorAsks, MonitorUnchanged, messages, trainer
  <2>2. CASE MonitorJudges
    BY <2>2 DEF TypeOK, Hand, MonitorJudges, MonitorUnchanged, messages, trainer
  <2>3. CASE MonitorResumes
    BY <2>3 DEF TypeOK, Hand, MonitorResumes, MonitorUnchanged, messages, trainer
  <2> QED BY <1>7, <2>1, <2>2, <2>3
<1>8. CASE Trainer
  <2>1. CASE GetSample
    <3>1. /\ Head(queue) \in Samples \cup {End}
          /\ queue' \in Seq(Samples \cup {End})
      BY <2>1 DEF TypeOK, GetSample
    <3>2. batch' \in Seq(Samples) /\ ended' \in BOOLEAN
      <4>1. batch \in Seq(Samples) /\ ended \in BOOLEAN
        BY DEF TypeOK
      <4>2. CASE Head(queue) = End
        BY <2>1, <4>1, <4>2 DEF GetSample
      <4>3. CASE Head(queue) # End
        <5>1. Head(queue) \in Samples
          BY <3>1, <4>3
        <5> QED BY <2>1, <4>1, <4>3, <5>1 DEF GetSample
      <4> QED BY <4>2, <4>3
    <3>3. tpc' \in {"collect", "train", "sync", "save"}
      BY <2>1 DEF GetSample
    <3> QED BY <2>1, <3>1, <3>2, <3>3 DEF TypeOK, Hand, GetSample, rollouter
  <2>2. CASE Train
    <3>1. trained' \subseteq Samples /\ version' \in Nat /\ batch' = <<>>
      BY <2>2, TrainStep DEF TypeOK, Elements
    <3>2. ckpt' \in Nat /\ saved' \subseteq Samples
      <4>1. \/ UNCHANGED <<ckpt, saved>>
            \/ ckpt' = version /\ saved' = trained'
        BY <2>2, TrainStep
      <4> QED BY <3>1, <4>1 DEF TypeOK
    <3>3. local' \in 1..SyncStep /\ tpc' \in {"collect", "sync"}
      BY <2>2, TrainStep, Sizes DEF TypeOK
    <3>4. UNCHANGED <<rollouter, messages, counted, ended, period>>
      BY <2>2, TrainStep
    <3> QED BY <3>1, <3>2, <3>3, <3>4 DEF TypeOK, Hand, rollouter, messages
  <2>3. CASE ResetStaleness
    BY <2>3, SamplesFinite DEF TypeOK, Hand, ResetStaleness, messages
  <2>4. CASE AssignStaleness
    <3>1. InFlight \in Nat
      <4>1. Hand \subseteq Samples
        BY DEF TypeOK, Hand, Hand
      <4> QED BY <4>1, SamplesFinite DEF InFlight, TypeOK
    <3> QED BY <2>4, <3>1 DEF TypeOK, Hand, AssignStaleness, SaveCheckpoint, messages
  <2>5. CASE FinalSave
    BY <2>5 DEF TypeOK, Hand, FinalSave, SaveCheckpoint, rollouter, messages
  <2> QED BY <1>8, <2>1, <2>2, <2>3, <2>4, <2>5 DEF Trainer
<1>9. CASE Finish
  BY <1>9 DEF TypeOK, Hand, Finish, rollouter, Elements
<1>10. CASE Terminated \/ UNCHANGED vars
  BY <1>10 DEF TypeOK, Hand, Terminated, vars, rollouter, messages, trainer
<1> QED BY <1>1, <1>2, <1>3, <1>4, <1>5, <1>6, <1>7, <1>8, <1>9, <1>10 DEF Next

\* Every variable keeps its type: the pipeline never has more than one item in
\* its hand, and no coroutine takes an item nobody fed.
THEOREM TypeCorrect == Spec => []TypeOK
<1>1. ASSUME Init PROVE TypeOK
  <2>1. queue \in Seq(Samples \cup {End}) /\ batch \in Seq(Samples)
    BY <1>1 DEF Init
  <2>2. /\ Hand = {} /\ local \in 1..SyncStep
        /\ fed \in 0..(Total + 1) /\ taken \in 0..fed
    BY <1>1, Sizes DEF Init, Hand
  <2>3. /\ staleness \in Nat /\ version \in Nat /\ counted \in Nat
        /\ ckpt \in Nat /\ period \in Nat
    BY <1>1 DEF Init
  <2> QED BY <1>1, <2>1, <2>2, <2>3 DEF Init, TypeOK
<1> QED BY <1>1, TypeStep, PTL DEF Spec
-----------------------------------------------------------------------------
(* The tasks and the batch. *)

\* A task that generates is an active one, and there are at most MaxConcurrent.
Tasks ==
  /\ generating \subseteq active
  /\ Cardinality(active) <= MaxConcurrent
  /\ counted <= MaxConcurrent
  /\ tpc = "resetting" => Cardinality(generating) <= counted

LEMMA TasksStep == TypeOK /\ Tasks /\ [Next]_vars => Tasks'
<1> SUFFICES ASSUME TypeOK, Tasks, [Next]_vars PROVE Tasks'
  OBVIOUS
<1>0. /\ IsFiniteSet(active) /\ Cardinality(active) \in Nat
      /\ IsFiniteSet(generating) /\ Cardinality(generating) \in Nat
      /\ Cardinality(generating) <= Cardinality(active)
  BY SamplesFinite, FS_Subset DEF TypeOK, Tasks
<1>a. ASSUME UNCHANGED <<active, generating, counted>>, tpc' = "resetting" => tpc = "resetting"
      PROVE  Tasks'
  BY <1>a DEF Tasks
<1>b. ASSUME NEW s \in generating, generating' = generating \ {s},
             UNCHANGED <<active, counted, tpc>>
      PROVE  Tasks'
  <2>1. Cardinality(generating') <= Cardinality(generating)
    BY <1>0, <1>b, FS_Subset
  <2>2. Cardinality(generating') \in Nat
    BY <1>0, <1>b, FS_Subset, FS_CardinalityType
  <2> QED BY <1>0, <1>b, <2>1, <2>2 DEF Tasks, TypeOK
<1>c. ASSUME NEW next, Reap(next) PROVE Tasks'
  <2> PICK done \in (SUBSET Finished) \ {{}} : active' = active \ done
    BY <1>c DEF Reap
  <2>1. UNCHANGED <<generating, counted, tpc>>
    BY <1>c DEF Reap, ProcessorUnchanged, trainer
  <2>2. generating' \subseteq active'
    BY <2>1 DEF Finished, Tasks
  <2>3. Cardinality(active') <= Cardinality(active) /\ Cardinality(active') \in Nat
    BY <1>0, FS_Subset, FS_CardinalityType
  <2> QED BY <1>0, <2>1, <2>2, <2>3, Sizes DEF Tasks
<1>1. CASE Feed
  BY <1>1, <1>a DEF Feed, trainer
<1>2. CASE Processor
  <2>1. CASE AskQueueSize \/ JudgeStaleness \/ Pause \/ Resume \/ TakeItem
             \/ WaitForRoom \/ AwaitTasks
    BY <2>1, <1>a DEF AskQueueSize, JudgeStaleness, Pause, Resume, TakeItem, WaitForRoom,
                      AwaitTasks, ProcessorUnchanged, trainer
  <2>2. CASE ReapWhilePaused \/ ReapForRoom \/ ReapAtEnd
    BY <2>2, <1>c DEF ReapWhilePaused, ReapForRoom, ReapAtEnd
  <2>3. CASE Submit
    <3>1. /\ active' = active \cup {taken} /\ generating' = generating \cup {taken}
          /\ Cardinality(active) < MaxConcurrent /\ tpc # "resetting"
          /\ UNCHANGED <<counted, tpc>>
      BY <2>3 DEF Submit, LockFree, trainer
    <3>2. Cardinality(active') <= Cardinality(active) + 1 /\ Cardinality(active') \in Nat
      <4>1. IsFiniteSet(active \cup {taken})
        BY <1>0, FS_AddElement
      <4>2. Cardinality(active \cup {taken}) \in {Cardinality(active), Cardinality(active) + 1}
        <5>1. CASE taken \in active
          <6>1. active \cup {taken} = active
            BY <5>1
          <6> QED BY <6>1
        <5>2. CASE taken \notin active
          BY <1>0, <5>2, FS_AddElement
        <5> QED BY <5>1, <5>2
      <4> QED BY <1>0, <3>1, <4>1, <4>2, FS_CardinalityType
    <3> QED BY <1>0, <3>1, <3>2, Sizes DEF Tasks
  <2> QED BY <1>2, <2>1, <2>2, <2>3 DEF Processor
<1>3. ASSUME NEW s \in Samples, PutSample(s) \/ Raise(s) PROVE Tasks'
  BY <1>3, <1>b DEF PutSample, Raise, trainer, messages
<1>4. CASE SendEnd \/ StopRunning \/ MonitorAsks \/ MonitorJudges \/ MonitorResumes
  BY <1>4, <1>a DEF SendEnd, StopRunning, MonitorAsks, MonitorJudges, MonitorResumes,
                    MonitorUnchanged, trainer
<1>5. CASE Trainer
  <2>1. CASE GetSample \/ Train \/ FinalSave
    BY <2>1, <1>a DEF GetSample, Train, FinalSave, rollouter
  <2>2. CASE ResetStaleness
    BY <1>0, <2>2 DEF ResetStaleness, Tasks
  <2>3. CASE AssignStaleness
    BY <2>3, Sizes DEF AssignStaleness, Tasks
  <2> QED BY <1>5, <2>1, <2>2, <2>3 DEF Trainer
<1>6. CASE Finish \/ Terminated \/ UNCHANGED vars
  BY <1>6, <1>a DEF Finish, Terminated, vars, rollouter, trainer
<1> QED BY <1>1, <1>2, <1>3, <1>4, <1>5, <1>6 DEF Next

\* A batch that is trained is full, and a synchronisation starts a new one.
Batches ==
  /\ tpc = "collect" => Len(batch) < Required
  /\ tpc = "train" => Len(batch) = Required
  /\ tpc \in {"sync", "resetting"} /\ ~ended => local = 1 /\ batch = <<>>

LEMMA BatchesStep == TypeOK /\ Batches /\ [Next]_vars => Batches'
<1> SUFFICES ASSUME TypeOK, Batches, [Next]_vars PROVE Batches'
  OBVIOUS
<1>a. ASSUME UNCHANGED <<tpc, batch, local, ended>> PROVE Batches'
  BY <1>a DEF Batches
<1>1. CASE Feed \/ SendEnd \/ StopRunning \/ MonitorAsks \/ MonitorJudges \/ MonitorResumes
  BY <1>1, <1>a DEF Feed, SendEnd, StopRunning, MonitorAsks, MonitorJudges, MonitorResumes,
                    MonitorUnchanged, trainer
<1>2. CASE Processor
  BY <1>2, <1>a DEF Processor, AskQueueSize, JudgeStaleness, Pause, Resume, ReapWhilePaused,
                    TakeItem, WaitForRoom, ReapForRoom, Submit, AwaitTasks, ReapAtEnd, Reap,
                    ProcessorUnchanged, trainer
<1>3. ASSUME NEW s \in Samples, PutSample(s) \/ Raise(s) PROVE Batches'
  BY <1>3, <1>a DEF PutSample, Raise, trainer
<1>4. CASE Trainer
  <2>0. batch \in Seq(Samples) /\ Len(batch) \in Nat
    BY DEF TypeOK
  <2>1. CASE GetSample
    BY <2>0, <2>1, Sizes DEF GetSample, Batches
  <2>2. CASE Train
    BY <2>2, Sizes DEF Train, Batches
  <2>3. CASE ResetStaleness
    BY <2>3 DEF ResetStaleness, Batches
  <2>4. CASE AssignStaleness
    BY <2>0, <2>4, Sizes DEF AssignStaleness, Batches
  <2>5. CASE FinalSave
    BY <2>5 DEF FinalSave, Batches
  <2> QED BY <1>4, <2>1, <2>2, <2>3, <2>4, <2>5 DEF Trainer
<1>5. CASE Finish \/ Terminated \/ UNCHANGED vars
  BY <1>5, <1>a DEF Finish, Terminated, vars, trainer, Batches
<1> QED BY <1>1, <1>2, <1>3, <1>4, <1>5 DEF Next

-----------------------------------------------------------------------------
(* The counts. *)

\* The samples the trainer has taken for the version in the making.
Consumed ==
  IF tpc \in {"sync", "resetting"} THEN Required * SyncStep
  ELSE (local - 1) * Required + Len(batch)

HandSize == IF pc \in {"submit", "full"} THEN 1 ELSE 0

LEMMA HandCardinality == Cardinality(Hand) = HandSize /\ Cardinality(Hand') = HandSize'
BY FS_Singleton, FS_EmptySet DEF Hand, HandSize

LEMMA InFlightType ==
  TypeOK => /\ HandSize \in Nat /\ Cardinality(generating) \in Nat /\ Len(queue) \in Nat
            /\ InFlight = HandSize + Cardinality(generating) + Len(queue)
            /\ InFlight \in Nat
BY HandCardinality, SamplesFinite DEF TypeOK, InFlight, HandSize

LEMMA Products ==
  /\ Required * SyncStep \in Nat
  /\ \A n \in Nat : n * Required \in Nat /\ n * Required + Required = (n + 1) * Required
BY Sizes

LEMMA ConsumedType == TypeOK => Consumed \in Nat
<1> SUFFICES ASSUME TypeOK PROVE Consumed \in Nat
  OBVIOUS
<1>1. local - 1 \in Nat /\ Len(batch) \in Nat
  BY Sizes DEF TypeOK
<1>2. (local - 1) * Required \in Nat
  BY <1>1, Products
<1>3. (local - 1) * Required + Len(batch) \in Nat
  BY <1>1, <1>2
<1> QED BY <1>3, Products DEF Consumed

LEMMA NextTypes == TypeOK' => InFlight' \in Nat /\ Consumed' \in Nat
<1>1. (TypeOK => InFlight \in Nat /\ Consumed \in Nat)'
  <2>1. TypeOK => InFlight \in Nat /\ Consumed \in Nat
    BY InFlightType, ConsumedType
  <2> QED BY <2>1, PTL
<1> QED BY <1>1

\* While samples are generated: a sample of the version is in flight or consumed,
\* or was lost or failed; the two counters differ by less than two samples one
\* way and by at most the tasks another; and the end signal is not sent yet.
Counts ==
  Generates =>
    /\ InFlight + Consumed <= period
    /\ period <= staleness + 1
    /\ period <= MaxRequired + 1
    /\ pc = "get" => period <= MaxRequired
    /\ staleness <= period + MaxConcurrent
    /\ ~ended /\ End \notin Elements(queue)

\* Steps that count nothing and put nothing in flight.
LEMMA CountsKept ==
  ASSUME TypeOK, TypeOK', Counts, InFlight' + Consumed' <= InFlight + Consumed,
         Generates' => Generates, pc' = "get" => pc = "get",
         UNCHANGED <<period, staleness, ended>>,
         Elements(queue') \subseteq Elements(queue) \cup Samples
  PROVE  Counts'
<1>1. /\ InFlight \in Nat /\ Consumed \in Nat /\ InFlight' \in Nat /\ Consumed' \in Nat
      /\ period \in Nat
  BY InFlightType, ConsumedType, NextTypes DEF TypeOK
<1>2. End \notin Samples
  BY DEF End, Samples
<1> SUFFICES ASSUME Generates' PROVE Counts'
  BY DEF Counts
<1>3. /\ InFlight + Consumed <= period /\ period <= staleness + 1
      /\ period <= MaxRequired + 1 /\ (pc = "get" => period <= MaxRequired)
      /\ staleness <= period + MaxConcurrent /\ ~ended /\ End \notin Elements(queue)
  BY DEF Counts
<1>4. InFlight' + Consumed' <= period'
  <2>1. InFlight' + Consumed' <= InFlight + Consumed /\ period' = period
    OBVIOUS
  <2>2. \A a, b, c, d, n \in Nat : a + b <= c + d /\ c + d <= n => a + b <= n
    OBVIOUS
  <2> QED BY <1>1, <1>3, <2>1, <2>2
<1>5. ~ended' /\ End \notin Elements(queue')
  BY <1>2, <1>3
<1>6. /\ period' <= staleness' + 1 /\ period' <= MaxRequired + 1
      /\ (pc' = "get" => period' <= MaxRequired) /\ staleness' <= period' + MaxConcurrent
  BY <1>3
<1> QED BY <1>4, <1>5, <1>6 DEF Counts

\* Steps that change neither what the trainer has nor the counters.
LEMMA FlightStep ==
  ASSUME TypeOK, TypeOK', Counts, InFlight' <= InFlight,
         Generates' => Generates, pc' = "get" => pc = "get",
         UNCHANGED <<period, staleness, ended, tpc, local, batch>>,
         Elements(queue') \subseteq Elements(queue) \cup Samples
  PROVE  Counts'
<1>1. Consumed' = Consumed
  BY DEF Consumed
<1>2. InFlight \in Nat /\ Consumed \in Nat /\ InFlight' \in Nat
  BY InFlightType, ConsumedType, NextTypes
<1>3. InFlight' + Consumed' <= InFlight + Consumed
  <2>1. \A a, b, c \in Nat : a <= b => a + c <= b + c
    OBVIOUS
  <2> QED BY <1>1, <1>2, <2>1
<1> QED BY <1>3, CountsKept

LEMMA FlightSum ==
  ASSUME TypeOK, TypeOK',
         HandSize' + Cardinality(generating') + Len(queue')
           <= HandSize + Cardinality(generating) + Len(queue)
  PROVE  InFlight' <= InFlight
BY HandCardinality DEF InFlight

\* A task that ends and puts its sample, or raises, puts nothing more in flight.
LEMMA TaskEnds ==
  ASSUME TypeOK, NEW s \in generating, generating' = generating \ {s}
  PROVE  Cardinality(generating') = Cardinality(generating) - 1
BY SamplesFinite, FS_RemoveElement DEF TypeOK

LEMMA EnqueueElements ==
  ASSUME TypeOK, NEW item \in Samples \cup {End}, Enqueue(item)
  PROVE  Elements(queue') \subseteq Elements(queue) \cup {item}
<1>1. queue \in Seq(Samples \cup {End})
  BY DEF TypeOK
<1>2. CASE Len(queue) >= MaxRequired
  <2>1. queue # <<>>
    BY <1>1, <1>2, Sizes
  <2> DEFINE rest == Tail(queue)
  <2>2. rest \in Seq(Samples \cup {End}) /\ Len(rest) = Len(queue) - 1
    BY <1>1, <2>1
  <2>3. \A i \in 1..Len(rest) : rest[i] = queue[i + 1]
    BY <1>1, <2>1
  <2>4. queue' = Append(rest, item)
    BY <1>2 DEF Enqueue
  <2>5. ASSUME NEW i \in DOMAIN queue' PROVE queue'[i] \in Elements(queue) \cup {item}
    <3>1. i \in 1..(Len(rest) + 1)
      BY <2>2, <2>4, <2>5
    <3>2. CASE i = Len(rest) + 1
      BY <2>2, <2>4, <3>2
    <3>3. CASE i \in 1..Len(rest)
      <4>1. queue'[i] = queue[i + 1] /\ i + 1 \in DOMAIN queue
        BY <1>1, <2>2, <2>3, <2>4, <3>3
      <4> QED BY <4>1 DEF Elements
    <3> QED BY <2>2, <3>1, <3>2, <3>3
  <2> QED BY <2>5 DEF Elements
<1>3. CASE ~(Len(queue) >= MaxRequired)
  <2>1. queue' = Append(queue, item)
    BY <1>3 DEF Enqueue
  <2>2. ASSUME NEW i \in DOMAIN queue' PROVE queue'[i] \in Elements(queue) \cup {item}
    <3>1. i \in 1..(Len(queue) + 1)
      BY <1>1, <2>1, <2>2
    <3> QED BY <1>1, <2>1, <3>1 DEF Elements
  <2> QED BY <2>2 DEF Elements
<1> QED BY <1>2, <1>3

LEMMA HeadAndRest ==
  ASSUME TypeOK, queue # <<>>
  PROVE  /\ Head(queue) \in Elements(queue)
         /\ Len(Tail(queue)) = Len(queue) - 1
         /\ Elements(Tail(queue)) \subseteq Elements(queue)
<1>1. queue \in Seq(Samples \cup {End})
  BY DEF TypeOK
<1>2. \A i \in DOMAIN Tail(queue) : Tail(queue)[i] = queue[i + 1] /\ i + 1 \in DOMAIN queue
  BY <1>1
<1>3. Head(queue) = queue[1] /\ 1 \in DOMAIN queue /\ Len(Tail(queue)) = Len(queue) - 1
  BY <1>1
<1> QED BY <1>2, <1>3 DEF Elements

\* Taking an item puts it into the hand; submitting it moves it on.
LEMMA TakeFlight ==
  ASSUME TypeOK, TypeOK', TakeItem
  PROVE  InFlight' <= InFlight + HandSize'
<1>1. UNCHANGED <<generating, queue>> /\ HandSize = 0 /\ HandSize' \in {0, 1}
  BY DEF TakeItem, ProcessorUnchanged, HandSize
<1> QED BY <1>1, InFlightType, HandCardinality DEF InFlight

LEMMA SubmitFlight ==
  ASSUME TypeOK, TypeOK', Submit
  PROVE  InFlight' <= InFlight
<1>1. /\ pc = "submit" /\ pc' = "check" /\ generating' = generating \cup {taken}
      /\ UNCHANGED queue
  BY DEF Submit, messages
<1>2. Cardinality(generating') \in Nat /\ Cardinality(generating') <= Cardinality(generating) + 1
  <2>1. /\ IsFiniteSet(generating) /\ Cardinality(generating') \in Nat
        /\ Cardinality(generating) \in Nat
    BY SamplesFinite DEF TypeOK
  <2>2. CASE taken \in generating
    <3>1. generating' = generating
      BY <1>1, <2>2
    <3> QED BY <2>1, <3>1
  <2>3. CASE taken \notin generating
    BY <1>1, <2>1, <2>3, FS_AddElement
  <2> QED BY <2>2, <2>3
<1>3. HandSize = 1 /\ HandSize' = 0
  BY <1>1 DEF HandSize
<1> QED BY <1>1, <1>2, <1>3, InFlightType, FlightSum

LEMMA ProcessorCounts ==
  TypeOK /\ TypeOK' /\ Counts /\ Processor => Counts'
<1> SUFFICES ASSUME TypeOK, TypeOK', Counts, Processor PROVE Counts'
  OBVIOUS
<1>0. /\ HandSize \in Nat /\ Cardinality(generating) \in Nat /\ Len(queue) \in Nat
      /\ staleness \in Nat /\ period \in Nat
  BY InFlightType DEF TypeOK
<1>a. ASSUME ProcessorUnchanged, UNCHANGED <<staleness, period>>, HandSize' <= HandSize,
             HandSize' \in Nat, Generates' => Generates, pc' = "get" => pc = "get"
      PROVE  Counts'
  <2>1. UNCHANGED <<generating, queue, tpc, local, batch, ended>>
    BY <1>a DEF ProcessorUnchanged, trainer
  <2>2. InFlight' <= InFlight
    BY <1>0, <1>a, <2>1, FlightSum
  <2>3. Elements(queue') \subseteq Elements(queue) \cup Samples
    BY <2>1
  <2> QED BY <1>a, <2>1, <2>2, <2>3, FlightStep
<1>b. ASSUME NEW next \in {"drain", "submit", "end"}, Reap(next), Generates,
             next = "submit" => pc = "full"
      PROVE  Counts'
  <2>1. ProcessorUnchanged /\ UNCHANGED <<staleness, period>> /\ pc' \in {next, "stopped"}
    BY <1>b DEF Reap
  <2>2. HandSize' <= HandSize /\ HandSize' \in Nat
    BY <1>b, <2>1 DEF HandSize
  <2> QED BY <1>a, <1>b, <2>1, <2>2
<1>1. CASE AskQueueSize
  BY <1>1, <1>a DEF AskQueueSize, HandSize, Generates
<1>2. CASE JudgeStaleness
  <2>1. CASE staleness >= MaxRequired
    BY <1>2, <2>1, <1>a DEF JudgeStaleness, HandSize, Generates
  <2>2. CASE ~(staleness >= MaxRequired)
    <3>1. pc = "asked" /\ pc' = "get" /\ UNCHANGED <<staleness, period>> /\ ProcessorUnchanged
      BY <1>2, <2>2 DEF JudgeStaleness
    <3>2. UNCHANGED <<generating, queue, tpc, local, batch, ended>>
      BY <3>1 DEF ProcessorUnchanged, trainer
    <3>3. Consumed' = Consumed
      BY <3>2 DEF Consumed
    <3>4. InFlight' = InFlight
      BY <3>1, <3>2 DEF InFlight, Hand
    <3>5. period <= MaxRequired
      BY <1>0, <2>2, <3>1, Sizes DEF Counts, Generates
    <3> QED BY <3>1, <3>2, <3>3, <3>4, <3>5 DEF Counts, Generates
  <2> QED BY <2>1, <2>2
<1>3. CASE Pause \/ Resume \/ WaitForRoom
  BY <1>3, <1>a DEF Pause, Resume, WaitForRoom, HandSize, Generates
<1>4. CASE ReapWhilePaused \/ ReapForRoom \/ ReapAtEnd
  BY <1>4, <1>b DEF ReapWhilePaused, ReapForRoom, ReapAtEnd, Generates
<1>5. CASE AwaitTasks
  BY <1>5, <1>a DEF AwaitTasks, HandSize, Generates
<1>6. CASE TakeItem
  <2>1. /\ pc = "get" /\ pc' \in {"end", "submit"} /\ ProcessorUnchanged
        /\ staleness' = staleness + 1 /\ period' = period + 1
    BY <1>6 DEF TakeItem
  <2>2. UNCHANGED <<generating, queue, tpc, local, batch, ended>>
    BY <2>1 DEF ProcessorUnchanged, trainer
  <2>3. Consumed' = Consumed
    BY <2>2 DEF Consumed
  <2>4. InFlight' <= InFlight + 1 /\ InFlight' \in Nat /\ InFlight \in Nat /\ Consumed \in Nat
    <3>1. HandSize' \in {0, 1}
      BY DEF HandSize
    <3>2. InFlight' \in Nat /\ InFlight \in Nat /\ Consumed \in Nat
      BY InFlightType, NextTypes, ConsumedType
    <3>3. InFlight' <= InFlight + HandSize'
      BY <1>6, TakeFlight
    <3>4. \A a, b \in Nat : \A n \in {0, 1} : a <= b + n => a <= b + 1
      OBVIOUS
    <3> QED BY <3>1, <3>2, <3>3, <3>4
  <2>5. /\ InFlight + Consumed <= period /\ period <= staleness + 1
        /\ period <= MaxRequired /\ staleness <= period + MaxConcurrent
        /\ ~ended /\ End \notin Elements(queue)
    BY <2>1 DEF Counts, Generates
  <2>6. InFlight' + Consumed' <= period'
    <3>1. \A a, b, c, n \in Nat : a <= b + 1 /\ b + c <= n => a + c <= n + 1
      OBVIOUS
    <3> QED BY <1>0, <2>1, <2>3, <2>4, <2>5, <3>1
  <2> QED BY <1>0, <2>1, <2>2, <2>5, <2>6, Sizes DEF Counts
<1>7. CASE Submit
  <2>1. /\ pc = "submit" /\ pc' = "check" /\ generating' = generating \cup {taken}
        /\ UNCHANGED <<queue, tpc, local, batch, ended, staleness, period>>
    BY <1>7 DEF Submit, messages, trainer
  <2>2. InFlight' <= InFlight
    BY <1>7, SubmitFlight
  <2> QED BY <2>1, <2>2, FlightStep DEF Generates
<1> QED BY <1>1, <1>2, <1>3, <1>4, <1>5, <1>6, <1>7 DEF Processor

\* What the trainer takes from the queue it has consumed, until the next version.
LEMMA TrainerFlight ==
  ASSUME TypeOK, TypeOK', Batches, Counts, Trainer, Generates
  PROVE  InFlight' + Consumed' <= InFlight + Consumed
<1>0. /\ HandSize \in Nat /\ Cardinality(generating) \in Nat /\ Len(queue) \in Nat
      /\ InFlight \in Nat /\ Consumed \in Nat /\ InFlight' \in Nat /\ Consumed' \in Nat
      /\ batch \in Seq(Samples) /\ local \in Nat /\ local - 1 \in Nat /\ local <= SyncStep
  <2>1. batch \in Seq(Samples) /\ local \in Nat /\ local - 1 \in Nat /\ local <= SyncStep
    BY Sizes DEF TypeOK
  <2> QED BY <2>1, InFlightType, ConsumedType, NextTypes
<1>1. UNCHANGED <<pc, taken, generating>> /\ ~ended
  BY DEF Trainer, GetSample, Train, ResetStaleness, AssignStaleness, FinalSave, rollouter,
         Counts
<1>2. HandSize' = HandSize /\ Hand' = Hand
  BY <1>1 DEF HandSize, Hand
<1>3. CASE GetSample
  <2>1. tpc = "collect" /\ queue # <<>> /\ queue' = Tail(queue) /\ UNCHANGED local
    BY <1>3 DEF GetSample
  <2>2. Head(queue) # End
    BY <2>1, HeadAndRest DEF Counts
  <2>3. batch' = Append(batch, Head(queue)) /\ tpc' \in {"train", "collect"}
    BY <1>3, <2>2 DEF GetSample
  <2>4. InFlight' = InFlight - 1
    BY <1>0, <1>1, <1>2, <2>1, HeadAndRest, HandCardinality DEF InFlight
  <2>5. Consumed' = Consumed + 1
    <3>1. Len(batch') = Len(batch) + 1
      BY <1>0, <2>3
    <3>2. (local - 1) * Required \in Nat
      BY <1>0, Products
    <3>3. /\ Consumed = (local - 1) * Required + Len(batch)
          /\ Consumed' = (local - 1) * Required + (Len(batch) + 1)
      BY <2>1, <2>3, <3>1 DEF Consumed
    <3>4. \A p, l \in Nat : p + (l + 1) = p + l + 1
      OBVIOUS
    <3>5. Len(batch) \in Nat
      BY <1>0
    <3> QED BY <3>2, <3>3, <3>4, <3>5
  <2> QED BY <1>0, <2>4, <2>5
<1>4. CASE Train
  <2>1. tpc = "train" /\ batch' = <<>> /\ Len(batch) = Required /\ UNCHANGED queue
    BY <1>4 DEF Train, messages, Batches
  <2>2. InFlight' = InFlight
    BY <1>1, <1>2, <2>1 DEF InFlight
  <2>3. Consumed = local * Required
    <3>1. (local - 1) * Required + Required = ((local - 1) + 1) * Required
      BY <1>0, Products
    <3>2. (local - 1) + 1 = local
      BY <1>0
    <3> QED BY <2>1, <3>1, <3>2 DEF Consumed
  <2>4. Consumed' = local * Required
    <3>1. CASE local < SyncStep
      <4>1. local' - 1 = local /\ tpc' = "collect" /\ Len(batch') = 0
        BY <1>0, <1>4, <2>1, <3>1 DEF Train
      <4>2. local * Required \in Nat
        BY <1>0, Products
      <4> QED BY <4>1, <4>2 DEF Consumed
    <3>2. CASE ~(local < SyncStep)
      <4>1. local = SyncStep /\ tpc' = "sync"
        BY <1>0, <1>4, <3>2, Sizes DEF Train
      <4>2. SyncStep * Required = Required * SyncStep
        BY Sizes
      <4> QED BY <4>1, <4>2 DEF Consumed
    <3> QED BY <3>1, <3>2
  <2> QED BY <1>0, <2>2, <2>3, <2>4
<1>5. CASE AssignStaleness
  <2>1. tpc = "resetting" /\ tpc' = "collect" /\ UNCHANGED <<queue, local, batch>>
    BY <1>1, <1>5 DEF AssignStaleness, messages
  <2>2. local = 1 /\ batch = <<>>
    BY <1>1, <2>1 DEF Batches
  <2>3. InFlight' = InFlight /\ Consumed' = 0
    BY <1>1, <1>2, <2>1, <2>2, Sizes DEF InFlight, Consumed
  <2> QED BY <1>0, <2>3
<1>6. CASE ResetStaleness \/ FinalSave
  <2>1. InFlight' = InFlight /\ Consumed' = Consumed
    BY <1>1, <1>2, <1>6 DEF ResetStaleness, FinalSave, messages, InFlight, Consumed
  <2> QED BY <1>0, <2>1
<1> QED BY <1>3, <1>4, <1>5, <1>6 DEF Trainer

LEMMA TrainerCounts ==
  TypeOK /\ TypeOK' /\ Tasks /\ Batches /\ Counts /\ Trainer => Counts'
<1> SUFFICES ASSUME TypeOK, TypeOK', Tasks, Batches, Counts, Trainer, Generates'
             PROVE  Counts'
  BY DEF Counts
<1>0. /\ HandSize \in Nat /\ Cardinality(generating) \in Nat /\ Len(queue) \in Nat
      /\ InFlight \in Nat /\ Consumed \in Nat /\ InFlight' \in Nat /\ Consumed' \in Nat
  BY InFlightType, ConsumedType, NextTypes
<1>1. /\ pc' = pc /\ UNCHANGED <<taken, generating>> /\ Generates
  BY DEF Trainer, GetSample, Train, ResetStaleness, AssignStaleness, FinalSave, rollouter,
         Generates
<1>2. InFlight' + Consumed' <= InFlight + Consumed
  BY <1>1, TrainerFlight
<1>3. CASE GetSample
  <2>1. /\ queue # <<>> /\ queue' = Tail(queue) /\ UNCHANGED <<staleness, period>>
    BY <1>3 DEF GetSample, rollouter
  <2>2. Head(queue) # End
    BY <1>1, <2>1, HeadAndRest DEF Counts
  <2>3. ended' = ended
    BY <1>3, <2>2 DEF GetSample
  <2> QED BY <1>1, <1>2, <2>1, <2>3, HeadAndRest, CountsKept
<1>4. CASE Train \/ ResetStaleness \/ FinalSave
  <2>1. UNCHANGED <<queue, staleness, period, ended>>
    BY <1>4 DEF Train, ResetStaleness, FinalSave, rollouter, messages
  <2> QED BY <1>1, <1>2, <2>1, CountsKept
<1>5. CASE AssignStaleness
  <2>1. /\ tpc = "resetting" /\ staleness' = counted + Len(queue) /\ period' = InFlight
        /\ UNCHANGED <<queue, ended, local, batch>>
    BY <1>5 DEF AssignStaleness, messages
  <2>2. local = 1 /\ batch = <<>> /\ ~ended /\ tpc' = "collect"
    BY <1>1, <1>5, <2>1 DEF AssignStaleness, Batches, Counts
  <2>3. InFlight' = InFlight
    BY <1>1, <2>1 DEF InFlight, Hand
  <2>4. Consumed' = 0
    BY <2>1, <2>2, Sizes DEF Consumed
  <2>5. InFlight <= period /\ period \in Nat
    BY <1>0, <1>1 DEF Counts, TypeOK
  <2>6. InFlight = HandSize + Cardinality(generating) + Len(queue) /\ HandSize <= 1
    BY InFlightType DEF HandSize
  <2>7. /\ Cardinality(generating) <= counted /\ counted <= MaxConcurrent /\ counted \in Nat
    BY <2>1 DEF Tasks, TypeOK
  <2>8. period' <= staleness' + 1 /\ staleness' <= period' + MaxConcurrent
    BY <1>0, <2>1, <2>6, <2>7, Sizes
  <2>9. period' <= MaxRequired + 1 /\ (pc' = "get" => period' <= MaxRequired)
    BY <1>0, <1>1, <2>1, <2>5, Sizes DEF Counts
  <2>10. ~ended' /\ End \notin Elements(queue')
    BY <1>1, <2>1 DEF Counts
  <2>11. InFlight' + Consumed' <= period'
    BY <1>0, <2>1, <2>3, <2>4
  <2> QED BY <2>8, <2>9, <2>10, <2>11 DEF Counts
<1> QED BY <1>3, <1>4, <1>5 DEF Trainer

LEMMA CountsStep ==
  TypeOK /\ TypeOK' /\ Tasks /\ Batches /\ Counts /\ [Next]_vars => Counts'
<1> SUFFICES ASSUME TypeOK, TypeOK', Tasks, Batches, Counts, [Next]_vars PROVE Counts'
  OBVIOUS
<1>0. /\ HandSize \in Nat /\ Cardinality(generating) \in Nat /\ Len(queue) \in Nat
      /\ InFlight \in Nat
  BY InFlightType
<1>a. ASSUME UNCHANGED <<pc, taken, generating, queue, tpc, local, batch, ended, staleness, period>>
      PROVE  Counts'
  <2>1. InFlight' = InFlight /\ Consumed' = Consumed /\ (Generates' <=> Generates)
    BY <1>a DEF InFlight, Hand, Consumed, Generates
  <2> QED BY <1>a, <2>1 DEF Counts
<1>1. CASE Feed
  BY <1>1, <1>a DEF Feed, messages, trainer
<1>2. CASE Processor
  BY <1>2, ProcessorCounts
<1>3. ASSUME NEW s \in Samples, PutSample(s) \/ Raise(s) PROVE Counts'
  <2>1. /\ s \in generating /\ generating' = generating \ {s}
        /\ UNCHANGED <<pc, taken, tpc, local, batch, ended, staleness, period>>
    BY <1>3 DEF PutSample, Raise, trainer
  <2>2. Cardinality(generating') = Cardinality(generating) - 1
    BY <2>1, TaskEnds
  <2>3. Len(queue') \in Nat /\ Len(queue') <= Len(queue) + 1
    BY <1>0, <1>3, EnqueueType DEF PutSample, Raise, messages
  <2>4. Elements(queue') \subseteq Elements(queue) \cup Samples
    BY <1>3, EnqueueElements DEF PutSample, Raise, messages
  <2>5. HandSize' = HandSize
    BY <2>1 DEF HandSize
  <2>6. InFlight' <= InFlight
    BY <1>0, <2>2, <2>3, <2>5, FlightSum
  <2> QED BY <2>1, <2>4, <2>6, FlightStep DEF Generates
<1>4. CASE SendEnd \/ StopRunning
  BY <1>4 DEF SendEnd, StopRunning, Generates, Counts
<1>5. CASE MonitorAsks \/ MonitorJudges \/ MonitorResumes
  BY <1>5, <1>a DEF MonitorAsks, MonitorJudges, MonitorResumes, MonitorUnchanged,
                    messages, trainer
<1>6. CASE Trainer
  BY <1>6, TrainerCounts
<1>7. CASE Finish
  BY <1>7 DEF Finish, rollouter, Generates, Counts
<1>8. CASE Terminated \/ UNCHANGED vars
  BY <1>8, <1>a DEF Terminated, vars, rollouter, messages, trainer
<1> QED BY <1>1, <1>2, <1>3, <1>4, <1>5, <1>6, <1>7, <1>8 DEF Next

\* The inductive invariant of the counts.
PipelineInv == TypeOK /\ Tasks /\ Batches /\ Counts

THEOREM PipelineInvariant == Spec => []PipelineInv
<1>1. ASSUME Init PROVE Tasks /\ Batches /\ Counts
  <2>1. Tasks
    BY <1>1, FS_EmptySet, Sizes DEF Init, Tasks
  <2>2. Batches
    BY <1>1, Sizes DEF Init, Batches
  <2>3. InFlight = 0 /\ Consumed = 0
    BY <1>1, FS_EmptySet, Sizes DEF Init, InFlight, Hand, Consumed
  <2>4. Counts
    BY <1>1, <2>3, Sizes DEF Init, Counts, Elements
  <2> QED BY <2>1, <2>2, <2>4
<1>2. (Tasks /\ Batches /\ Counts) /\ TypeOK /\ TypeOK' /\ [Next]_vars
        => (Tasks /\ Batches /\ Counts)'
  BY TasksStep, BatchesStep, CountsStep
<1> QED BY <1>1, <1>2, TypeCorrect, PTL DEF Spec, PipelineInv

\* The samples of one version are at most MaxRequired and one more.
THEOREM SamplesPerVersion == Spec => []RolloutNum
<1>1. PipelineInv => RolloutNum
  BY DEF PipelineInv, Counts, RolloutNum
<1> QED BY <1>1, PipelineInvariant, PTL

\* staleness_samples counts at most MaxConcurrent samples too many.
THEOREM StalenessOverCount == Spec => []OverCount
<1>1. PipelineInv => OverCount
  BY DEF PipelineInv, Counts, OverCount
<1> QED BY <1>1, PipelineInvariant, PTL

\* A synchronisation carries over at most MaxRequired - Required * SyncStep
\* samples and one more: what staleness_threshold is there to bound.
THEOREM StaleShareBounded == Spec => StaleShare
<1>1. ASSUME PipelineInv, [Next]_vars, tpc = "resetting", tpc' # "resetting", Generates
      PROVE  period' <= MaxRequired + 1 - Required * SyncStep
  <2>1. TypeOK /\ InFlight \in Nat /\ Required * SyncStep \in Nat
    BY <1>1, InFlightType, Products DEF PipelineInv
  <2>2. period' = InFlight
    BY <1>1 DEF Generates, vars, trainer, rollouter, messages, Next, Feed, Processor, AskQueueSize,
                JudgeStaleness, Pause, Resume, ReapWhilePaused, TakeItem, WaitForRoom,
                ReapForRoom, Submit, AwaitTasks, ReapAtEnd, Reap, ProcessorUnchanged,
                PutSample, Raise, SendEnd, StopRunning, MonitorAsks, MonitorJudges,
                MonitorResumes, MonitorUnchanged, Trainer, GetSample, Train, ResetStaleness,
                AssignStaleness, FinalSave, Finish, Terminated
  <2>3. InFlight + Required * SyncStep <= period /\ period <= MaxRequired + 1 /\ period \in Nat
    BY <1>1 DEF PipelineInv, Counts, Consumed, TypeOK
  <2>4. \A a, b, c \in Nat : \A m \in Nat : a + b <= c /\ c <= m + 1 => a <= m + 1 - b
    OBVIOUS
  <2> QED BY <2>1, <2>2, <2>3, <2>4, Sizes
<1>2. PipelineInv /\ [Next]_vars =>
        [tpc = "resetting" /\ tpc' # "resetting" /\ Generates
           => period' <= MaxRequired + 1 - Required * SyncStep]_vars
  BY <1>1
<1> QED BY <1>2, PipelineInvariant, PTL DEF Spec, StaleShare
-----------------------------------------------------------------------------
(* Sequences without repetitions. *)

NoRepeat(q) == \A i, k \in DOMAIN q : q[i] = q[k] => i = k

LEMMA RestOfSequence ==
  ASSUME NEW S, NEW q \in Seq(S), q # <<>>
  PROVE  /\ Head(q) = q[1] /\ 1 \in DOMAIN q /\ Head(q) \in Elements(q)
         /\ Tail(q) \in Seq(S) /\ Len(Tail(q)) = Len(q) - 1 /\ Len(q) \in Nat
         /\ \A i \in DOMAIN Tail(q) : i + 1 \in DOMAIN q /\ Tail(q)[i] = q[i + 1]
         /\ \A i \in DOMAIN q : i # 1 => i - 1 \in DOMAIN Tail(q) /\ Tail(q)[i - 1] = q[i]
         /\ Elements(q) = Elements(Tail(q)) \cup {Head(q)}
         /\ NoRepeat(q) => NoRepeat(Tail(q)) /\ Head(q) \notin Elements(Tail(q))
<1>1. /\ Head(q) = q[1] /\ 1 \in DOMAIN q
      /\ Tail(q) \in Seq(S) /\ Len(Tail(q)) = Len(q) - 1 /\ Len(q) \in Nat
      /\ \A i \in DOMAIN Tail(q) : i + 1 \in DOMAIN q /\ Tail(q)[i] = q[i + 1] /\ i + 1 # 1
  OBVIOUS
<1>2. \A i \in DOMAIN q : i # 1 => i - 1 \in DOMAIN Tail(q) /\ Tail(q)[i - 1] = q[i]
  OBVIOUS
<1>3. Head(q) \in Elements(q) /\ Elements(q) = Elements(Tail(q)) \cup {Head(q)}
  BY <1>1, <1>2 DEF Elements
<1>4. ASSUME NoRepeat(q) PROVE NoRepeat(Tail(q)) /\ Head(q) \notin Elements(Tail(q))
  <2>1. ASSUME NEW i \in DOMAIN Tail(q), NEW k \in DOMAIN Tail(q), Tail(q)[i] = Tail(q)[k]
        PROVE  i = k
    <3>1. i \in Int /\ k \in Int
      BY <1>1
    <3>2. i + 1 = k + 1
      BY <1>1, <1>4, <2>1 DEF NoRepeat
    <3> QED BY <3>1, <3>2
  <2>2. Head(q) \notin Elements(Tail(q))
    BY <1>1, <1>4 DEF NoRepeat, Elements
  <2> QED BY <2>1, <2>2 DEF NoRepeat
<1> QED BY <1>1, <1>2, <1>3, <1>4

LEMMA LongerSequence ==
  ASSUME NEW S, NEW q \in Seq(S), NEW e \in S
  PROVE  /\ Append(q, e) \in Seq(S) /\ Len(Append(q, e)) = Len(q) + 1 /\ Len(q) \in Nat
         /\ \A i \in DOMAIN Append(q, e) :
              \/ i = Len(q) + 1 /\ Append(q, e)[i] = e
              \/ i \in DOMAIN q /\ Append(q, e)[i] = q[i] /\ i # Len(q) + 1
         /\ Elements(Append(q, e)) = Elements(q) \cup {e}
         /\ NoRepeat(q) /\ e \notin Elements(q) => NoRepeat(Append(q, e))
<1>1. /\ Append(q, e) \in Seq(S) /\ Len(Append(q, e)) = Len(q) + 1 /\ Len(q) \in Nat
      /\ \A i \in DOMAIN Append(q, e) :
           \/ i = Len(q) + 1 /\ Append(q, e)[i] = e
           \/ i \in DOMAIN q /\ Append(q, e)[i] = q[i] /\ i # Len(q) + 1
  OBVIOUS
<1>2. /\ Len(q) + 1 \in DOMAIN Append(q, e)
      /\ \A i \in DOMAIN q : i \in DOMAIN Append(q, e) /\ Append(q, e)[i] = q[i]
  OBVIOUS
<1>3. Elements(Append(q, e)) = Elements(q) \cup {e}
  BY <1>1, <1>2 DEF Elements
<1>4. ASSUME NoRepeat(q), e \notin Elements(q) PROVE NoRepeat(Append(q, e))
  BY <1>1, <1>4 DEF NoRepeat, Elements
<1> QED BY <1>1, <1>3, <1>4

LEMMA ElementsCounted ==
  ASSUME NEW S, NEW q \in Seq(S), NoRepeat(q)
  PROVE  IsFiniteSet(Elements(q)) /\ Cardinality(Elements(q)) = Len(q)
<1>1. /\ Len(q) \in Nat /\ DOMAIN q = 1..Len(q)
      /\ q \in [1..Len(q) -> Elements(q)]
  <2>1. Len(q) \in Nat /\ DOMAIN q = 1..Len(q) /\ q = [i \in 1..Len(q) |-> q[i]]
    OBVIOUS
  <2>2. \A i \in DOMAIN q : q[i] \in Elements(q)
    BY DEF Elements
  <2> QED BY <2>1, <2>2
<1>2. q \in Bijection(1..Len(q), Elements(q))
  <2>1. q \in Injection(1..Len(q), Elements(q))
    BY <1>1 DEF Injection, IsInjective, NoRepeat
  <2>2. q \in Surjection(1..Len(q), Elements(q))
    BY <1>1 DEF Surjection, Elements
  <2> QED BY <2>1, <2>2 DEF Bijection
<1>3. ExistsBijection(1..Len(q), Elements(q))
  BY <1>2 DEF ExistsBijection
<1>4. IsFiniteSet(1..Len(q)) /\ Cardinality(1..Len(q)) = Len(q)
  BY <1>1, FS_Interval
<1> QED BY <1>3, <1>4, FS_Bijection

\* What putting an item does to a queue without repetitions: the item is last,
\* and a full queue loses its first.
LEMMA EnqueueKeeps ==
  ASSUME TypeOK, NoRepeat(queue), NEW item \in Samples \cup {End},
         item \notin Elements(queue), Enqueue(item)
  PROVE  /\ NoRepeat(queue') /\ item \in Elements(queue') /\ Len(queue) \in Nat
         /\ \/ /\ Elements(queue') = Elements(queue) \cup {item} /\ lost' = lost
               /\ Len(queue') = Len(queue) + 1
               /\ \A i \in DOMAIN queue' :
                    \/ i = Len(queue') /\ queue'[i] = item
                    \/ i \in DOMAIN queue /\ queue'[i] = queue[i] /\ i # Len(queue')
            \/ /\ Len(queue) >= MaxRequired /\ queue # <<>> /\ 1 \in DOMAIN queue
               /\ Head(queue) \in Elements(queue) /\ Head(queue) = queue[1]
               /\ Elements(queue') = (Elements(queue) \ {Head(queue)}) \cup {item}
               /\ lost' = lost \cup {Head(queue)} /\ Len(queue') = Len(queue)
               /\ \A i \in DOMAIN queue' :
                    \/ i = Len(queue') /\ queue'[i] = item
                    \/ i + 1 \in DOMAIN queue /\ queue'[i] = queue[i + 1] /\ i # Len(queue')
<1>1. queue \in Seq(Samples \cup {End})
  BY DEF TypeOK
<1>2. CASE Len(queue) >= MaxRequired
  <2>1. queue # <<>>
    BY <1>1, <1>2, Sizes
  <2> DEFINE rest == Tail(queue)
  <2>2. /\ queue' = Append(rest, item) /\ lost' = lost \cup {Head(queue)}
    BY <1>2 DEF Enqueue
  <2>3. /\ Head(queue) = queue[1] /\ 1 \in DOMAIN queue /\ Head(queue) \in Elements(queue)
        /\ rest \in Seq(Samples \cup {End})
        /\ Len(rest) = Len(queue) - 1 /\ Len(queue) \in Nat
        /\ \A i \in DOMAIN rest : i + 1 \in DOMAIN queue /\ rest[i] = queue[i + 1]
        /\ Elements(queue) = Elements(rest) \cup {Head(queue)}
        /\ NoRepeat(rest) /\ Head(queue) \notin Elements(rest)
    BY <1>1, <2>1, RestOfSequence
  <2> HIDE DEF rest
  <2>4. /\ NoRepeat(queue') /\ Elements(queue') = Elements(rest) \cup {item}
        /\ Len(queue') = Len(rest) + 1
        /\ \A i \in DOMAIN queue' :
             \/ i = Len(rest) + 1 /\ queue'[i] = item
             \/ /\ i \in DOMAIN rest /\ queue'[i] = rest[i]
                /\ i # Len(rest) + 1
    <3>1. item \notin Elements(rest)
      BY <2>3
    <3>2. /\ Elements(Append(rest, item)) = Elements(rest) \cup {item}
          /\ NoRepeat(Append(rest, item)) /\ Len(Append(rest, item)) = Len(rest) + 1
          /\ \A i \in DOMAIN Append(rest, item) :
               \/ i = Len(rest) + 1 /\ Append(rest, item)[i] = item
               \/ i \in DOMAIN rest /\ Append(rest, item)[i] = rest[i] /\ i # Len(rest) + 1
      BY <2>3, <3>1, LongerSequence
    <3> QED BY <2>2, <3>2
  <2>5. Elements(queue') = (Elements(queue) \ {Head(queue)}) \cup {item}
    BY <2>3, <2>4
  <2>6. Len(queue') = Len(queue)
    BY <2>3, <2>4
  <2>7. ASSUME NEW i \in DOMAIN queue'
        PROVE  \/ i = Len(queue') /\ queue'[i] = item
               \/ i + 1 \in DOMAIN queue /\ queue'[i] = queue[i + 1] /\ i # Len(queue')
    BY <2>3, <2>4
  <2> QED BY <1>2, <2>1, <2>2, <2>3, <2>4, <2>5, <2>6, <2>7
<1>3. CASE ~(Len(queue) >= MaxRequired)
  <2>1. queue' = Append(queue, item) /\ lost' = lost
    BY <1>3 DEF Enqueue
  <2> QED BY <1>1, <2>1, LongerSequence
<1> QED BY <1>2, <1>3

-----------------------------------------------------------------------------
(* Every sample is in one place. *)

\* The first n samples are each in exactly one of seven sets, the others in none.
InOnePlace(H, G, Q, B, T, L, F, n) ==
  \A s \in Samples :
    /\ s <= n <=> s \in H \/ s \in G \/ s \in Q \/ s \in B \/ s \in T \/ s \in L \/ s \in F
    /\ s \in H => s \notin G /\ s \notin Q /\ s \notin B /\ s \notin T /\ s \notin L /\ s \notin F
    /\ s \in G => s \notin Q /\ s \notin B /\ s \notin T /\ s \notin L /\ s \notin F
    /\ s \in Q => s \notin B /\ s \notin T /\ s \notin L /\ s \notin F
    /\ s \in B => s \notin T /\ s \notin L /\ s \notin F
    /\ s \in T => s \notin L /\ s \notin F
    /\ s \in L => s \notin F

\* No sample is in the queue or in the batch twice, and the end signal is never
\* dropped.
SampleInv ==
  /\ InOnePlace(Hand, generating, Elements(queue), Elements(batch), trained, lost, failed, taken)
  /\ NoRepeat(queue) /\ NoRepeat(batch)
  /\ lost \subseteq Samples

\* The end signal is put once. Fewer tasks than the queue has room for can put
\* a sample behind it, so that it is not dropped; and once the trainer has seen
\* it, no batch is collected.
EndInv ==
  /\ pc \in {"stopped", "closed", "over"} => Cardinality(generating) < MaxConcurrent
  /\ ~Generates => \A i \in DOMAIN queue :
       queue[i] = End => Cardinality(generating) + (Len(queue) - i) < MaxConcurrent
  /\ tpc \in {"collect", "train"} => ~ended
  /\ tpc \in {"save", "over", "finished"} => ended
  /\ ended => Len(batch) < Required /\ End \notin Elements(queue)

LEMMA NotASample == End \notin Samples /\ \A s \in Samples : s # End
BY DEF End, Samples

\* A full queue does not drop the end signal.
LEMMA DropsSample ==
  ASSUME TypeOK, Counts, EndInv, NoRepeat(queue), queue # <<>>, Len(queue) >= MaxRequired,
         Generates \/ generating # {}
  PROVE  Head(queue) \in Samples
<1>1. queue \in Seq(Samples \cup {End}) /\ Len(queue) \in Nat
  BY DEF TypeOK
<1>2. Head(queue) = queue[1] /\ 1 \in DOMAIN queue /\ Head(queue) \in Elements(queue)
  BY <1>1, RestOfSequence
<1>3. Head(queue) \in Samples \cup {End}
  BY <1>1
<1>4. CASE Generates
  BY <1>2, <1>3, <1>4 DEF Counts
<1>5. CASE ~Generates
  <2>1. Cardinality(generating) \in Nat /\ Cardinality(generating) # 0
    BY <1>5, SamplesFinite, FS_EmptySet DEF TypeOK
  <2> SUFFICES ASSUME queue[1] = End PROVE FALSE
    BY <1>2, <1>3
  <2>2. Cardinality(generating) + (Len(queue) - 1) < MaxConcurrent
    BY <1>2, <1>5 DEF EndInv
  <2> QED BY <1>1, <2>1, <2>2, Sizes
<1> QED BY <1>4, <1>5

\* What the queue does with a new item.
LEMMA EnqueueSamples ==
  ASSUME TypeOK, Counts, EndInv, NoRepeat(queue), lost \subseteq Samples,
         NEW item \in Samples \cup {End}, item \notin Elements(queue), Enqueue(item),
         Generates \/ generating # {}
  PROVE  /\ NoRepeat(queue') /\ lost' \subseteq Samples
         /\ \/ Elements(queue') = Elements(queue) \cup {item} /\ lost' = lost
            \/ \E d \in Elements(queue) \cap Samples :
                 /\ Elements(queue') = (Elements(queue) \ {d}) \cup {item}
                 /\ lost' = lost \cup {d}
<1>1. CASE Elements(queue') = Elements(queue) \cup {item} /\ lost' = lost
  BY <1>1, EnqueueKeeps
<1>2. CASE /\ Len(queue) >= MaxRequired /\ queue # <<>> /\ Head(queue) \in Elements(queue)
           /\ Elements(queue') = (Elements(queue) \ {Head(queue)}) \cup {item}
           /\ lost' = lost \cup {Head(queue)}
  <2>1. Head(queue) \in Samples
    BY <1>2, DropsSample
  <2> QED BY <1>2, <2>1, EnqueueKeeps
<1> QED BY <1>1, <1>2, EnqueueKeeps

LEMMA SampleStep ==
  TypeOK /\ TypeOK' /\ Counts /\ EndInv /\ SampleInv /\ [Next]_vars => SampleInv'
<1> SUFFICES ASSUME TypeOK, TypeOK', Counts, EndInv, SampleInv, [Next]_vars PROVE SampleInv'
  OBVIOUS
<1> DEFINE Q == Elements(queue)
           B == Elements(batch)
<1>0. /\ InOnePlace(Hand, generating, Q, B, trained, lost, failed, taken)
      /\ NoRepeat(queue) /\ NoRepeat(batch) /\ lost \subseteq Samples
      /\ queue \in Seq(Samples \cup {End}) /\ batch \in Seq(Samples)
      /\ generating \subseteq Samples /\ taken \in Nat /\ fed \in 0..(Total + 1)
      /\ Total \in Nat /\ Total > 0 /\ taken <= fed
  <2>1. /\ InOnePlace(Hand, generating, Q, B, trained, lost, failed, taken)
        /\ NoRepeat(queue) /\ NoRepeat(batch) /\ lost \subseteq Samples
    BY DEF SampleInv
  <2>2. /\ queue \in Seq(Samples \cup {End}) /\ batch \in Seq(Samples)
        /\ generating \subseteq Samples /\ fed \in 0..(Total + 1) /\ taken \in 0..fed
    BY DEF TypeOK
  <2>3. taken \in Nat /\ taken <= fed
    BY <2>2, Sizes
  <2> QED BY <2>1, <2>2, <2>3, Sizes
<1>a. ASSUME UNCHANGED <<generating, queue, batch, trained, lost, failed, taken>>, Hand' = Hand
      PROVE  SampleInv'
  BY <1>0, <1>a DEF SampleInv
<1> HIDE DEF Q, B
<1>b. ASSUME UNCHANGED <<queue, batch>>, lost' \subseteq Samples,
             InOnePlace(Hand', generating', Q, B, trained', lost', failed', taken')
      PROVE  SampleInv'
  BY <1>0, <1>b DEF SampleInv, Q, B
<1>1. CASE Feed
  BY <1>1, <1>a DEF Feed, Hand, messages, trainer
<1>2. CASE Processor
  <2>r. ASSUME NEW next \in {"drain", "submit", "end"}, Reap(next),
               pc = "full" => next = "submit", next = "submit" => pc = "full",
               next # "submit" => Hand = {}
        PROVE  SampleInv'
    <3>1. UNCHANGED <<generating, queue, batch, trained, failed, taken>>
      BY <2>r DEF Reap, ProcessorUnchanged, trainer
    <3>2. CASE pc' = next /\ UNCHANGED lost
      <4>1. Hand' = Hand
        BY <2>r, <3>1, <3>2 DEF Hand
      <4> QED BY <1>a, <3>1, <3>2, <4>1
    <3>3. CASE pc' = "stopped" /\ lost' = lost \cup Hand
      <4>1. Hand' = {} /\ Hand \subseteq Samples
        BY <3>3 DEF Hand, TypeOK
      <4>2. InOnePlace({}, generating, Q, B, trained, lost \cup Hand, failed, taken)
        BY <1>0 DEF InOnePlace
      <4> QED BY <1>0, <1>b, <3>1, <3>3, <4>1, <4>2
    <3> QED BY <2>r, <3>2, <3>3 DEF Reap
  <2>1. CASE AskQueueSize \/ JudgeStaleness \/ Pause \/ Resume \/ WaitForRoom \/ AwaitTasks
    BY <2>1, <1>a DEF AskQueueSize, JudgeStaleness, Pause, Resume, WaitForRoom, AwaitTasks,
                      Hand, ProcessorUnchanged, trainer
  <2>2. CASE ReapWhilePaused \/ ReapForRoom \/ ReapAtEnd
    BY <2>2, <2>r DEF ReapWhilePaused, ReapForRoom, ReapAtEnd, Hand
  <2>3. CASE TakeItem
    <3>1. /\ UNCHANGED <<generating, queue, batch, trained, failed, lost>>
          /\ pc = "get" /\ taken < fed /\ taken' = taken + 1
          /\ pc' = IF taken = Total THEN "end" ELSE "submit"
      BY <2>3 DEF TakeItem, ProcessorUnchanged, trainer
    <3>2. Hand = {}
      BY <3>1 DEF Hand
    <3>3. CASE taken = Total
      <4>1. Hand' = {}
        BY <3>1, <3>3 DEF Hand
      <4>2. \A s \in Samples : s <= taken <=> s <= taken'
        BY <1>0, <3>1, <3>3 DEF Samples
      <4>3. InOnePlace({}, generating, Q, B, trained, lost, failed, taken')
        BY <1>0, <3>2, <4>2 DEF InOnePlace
      <4> QED BY <1>0, <1>b, <3>1, <4>1, <4>3
    <3>4. CASE taken # Total
      <4>1. Hand' = {taken'}
        BY <3>1, <3>4 DEF Hand
      <4>2. /\ \A s \in Samples : s <= taken' <=> s <= taken \/ s = taken'
            /\ \A s \in Samples : s = taken' => ~(s <= taken)
        BY <1>0, <3>1 DEF Samples
      <4>3. InOnePlace({taken'}, generating, Q, B, trained, lost, failed, taken')
        BY <1>0, <3>2, <4>2 DEF InOnePlace
      <4> QED BY <1>0, <1>b, <3>1, <4>1, <4>3
    <3> QED BY <3>3, <3>4
  <2>4. CASE Submit
    <3>1. /\ UNCHANGED <<queue, batch, trained, failed, lost, taken>>
          /\ generating' = generating \cup {taken} /\ pc = "submit" /\ pc' = "check"
      BY <2>4 DEF Submit, messages, trainer
    <3>2. Hand = {taken} /\ Hand' = {}
      BY <3>1 DEF Hand
    <3>3. InOnePlace({}, generating', Q, B, trained, lost, failed, taken)
      BY <1>0, <3>1, <3>2 DEF InOnePlace
    <3> QED BY <1>0, <1>b, <3>1, <3>2, <3>3
  <2> QED BY <1>2, <2>1, <2>2, <2>3, <2>4 DEF Processor
<1>3. ASSUME NEW s \in Samples, PutSample(s) PROVE SampleInv'
  <2>1. /\ s \in generating /\ generating' = generating \ {s} /\ Enqueue(s)
        /\ UNCHANGED <<batch, trained, failed, taken>> /\ Hand' = Hand
    BY <1>3 DEF PutSample, Hand, trainer
  <2>2. s \notin Q
    BY <1>0, <1>3, <2>1 DEF InOnePlace
  <2>3. /\ NoRepeat(queue') /\ lost' \subseteq Samples
        /\ \/ Elements(queue') = Q \cup {s} /\ lost' = lost
           \/ \E d \in Q \cap Samples :
                Elements(queue') = (Q \ {d}) \cup {s} /\ lost' = lost \cup {d}
    BY <1>0, <2>1, <2>2, EnqueueSamples DEF Q
  <2>4. InOnePlace(Hand, generating', Elements(queue'), B, trained, lost', failed, taken)
    <3>1. CASE Elements(queue') = Q \cup {s} /\ lost' = lost
      BY <1>0, <2>1, <3>1 DEF InOnePlace
    <3>2. ASSUME NEW d \in Q \cap Samples,
                 Elements(queue') = (Q \ {d}) \cup {s}, lost' = lost \cup {d}
          PROVE  InOnePlace(Hand, generating', Elements(queue'), B, trained, lost', failed, taken)
      BY <1>0, <2>1, <2>2, <3>2 DEF InOnePlace
    <3> QED BY <2>3, <3>1, <3>2
  <2> QED BY <1>0, <2>1, <2>3, <2>4 DEF SampleInv, B
<1>4. ASSUME NEW s \in Samples, Raise(s) PROVE SampleInv'
  <2>1. /\ s \in generating /\ generating' = generating \ {s} /\ failed' = failed \cup {s}
        /\ UNCHANGED <<queue, lost, batch, trained, taken>> /\ Hand' = Hand
    BY <1>4 DEF Raise, Hand, messages, trainer
  <2>2. InOnePlace(Hand, generating', Q, B, trained, lost, failed', taken)
    BY <1>0, <2>1 DEF InOnePlace
  <2> QED BY <1>0, <1>b, <2>1, <2>2
<1>5. CASE SendEnd
  <2>1. /\ Enqueue(End) /\ pc = "stopped"
        /\ UNCHANGED <<generating, batch, trained, failed, taken>> /\ Hand' = Hand
    BY <1>5 DEF SendEnd, Hand, trainer
  <2>2. End \notin Q /\ Generates
    BY <2>1 DEF Counts, Generates, Q
  <2>3. /\ NoRepeat(queue') /\ lost' \subseteq Samples
        /\ \/ Elements(queue') = Q \cup {End} /\ lost' = lost
           \/ \E d \in Q \cap Samples :
                Elements(queue') = (Q \ {d}) \cup {End} /\ lost' = lost \cup {d}
    BY <1>0, <2>1, <2>2, EnqueueSamples DEF Q
  <2>4. InOnePlace(Hand, generating, Elements(queue'), B, trained, lost', failed, taken)
    <3>1. CASE Elements(queue') = Q \cup {End} /\ lost' = lost
      BY <1>0, <3>1, NotASample DEF InOnePlace
    <3>2. ASSUME NEW d \in Q \cap Samples,
                 Elements(queue') = (Q \ {d}) \cup {End}, lost' = lost \cup {d}
          PROVE  InOnePlace(Hand, generating, Elements(queue'), B, trained, lost', failed, taken)
      BY <1>0, <3>2, NotASample DEF InOnePlace
    <3> QED BY <2>3, <3>1, <3>2
  <2> QED BY <1>0, <2>1, <2>3, <2>4 DEF SampleInv, B
<1>6. CASE StopRunning \/ MonitorAsks \/ MonitorJudges \/ MonitorResumes
  BY <1>6, <1>a DEF StopRunning, MonitorAsks, MonitorJudges, MonitorResumes, MonitorUnchanged,
                    Hand, messages, trainer
<1>7. CASE Trainer
  <2>0. Hand' = Hand
    BY <1>7 DEF Trainer, GetSample, Train, ResetStaleness, AssignStaleness, FinalSave,
                rollouter, Hand
  <2>1. CASE GetSample
    <3>1. /\ queue # <<>> /\ queue' = Tail(queue)
          /\ UNCHANGED <<generating, trained, failed, taken, lost>>
          /\ batch' = IF Head(queue) = End THEN batch ELSE Append(batch, Head(queue))
      BY <2>1 DEF GetSample, rollouter
    <3>2. /\ Head(queue) \in Q /\ Elements(queue') = Q \ {Head(queue)} /\ NoRepeat(queue')
      <4>1. /\ Head(queue) \in Q /\ Q = Elements(Tail(queue)) \cup {Head(queue)}
            /\ NoRepeat(Tail(queue)) /\ Head(queue) \notin Elements(Tail(queue))
        BY <1>0, <3>1, RestOfSequence DEF Q
      <4> QED BY <3>1, <4>1
    <3>3. CASE Head(queue) = End
      <4>1. InOnePlace(Hand, generating, Elements(queue'), B, trained, lost, failed, taken)
        BY <1>0, <3>2, <3>3, NotASample DEF InOnePlace
      <4> QED BY <1>0, <2>0, <3>1, <3>2, <3>3, <4>1 DEF SampleInv, B
    <3>4. CASE Head(queue) # End
      <4>1. Head(queue) \in Samples
        BY <1>0, <3>1, <3>4
      <4>2. Head(queue) \notin B
        BY <1>0, <3>2, <4>1 DEF InOnePlace
      <4>3. Elements(batch') = B \cup {Head(queue)} /\ NoRepeat(batch')
        BY <1>0, <3>1, <3>4, <4>1, <4>2, LongerSequence DEF B
      <4>4. InOnePlace(Hand, generating, Elements(queue'), Elements(batch'), trained, lost,
                       failed, taken)
        BY <1>0, <3>2, <4>1, <4>3 DEF InOnePlace
      <4> QED BY <1>0, <2>0, <3>1, <3>2, <4>3, <4>4 DEF SampleInv
    <3> QED BY <3>3, <3>4
  <2>2. CASE Train
    <3>1. /\ trained' = trained \cup B /\ batch' = <<>>
          /\ UNCHANGED <<generating, queue, failed, taken, lost>>
      BY <2>2 DEF Train, rollouter, messages, B
    <3>2. Elements(batch') = {} /\ NoRepeat(batch')
      BY <3>1 DEF Elements, NoRepeat
    <3>3. InOnePlace(Hand, generating, Q, {}, trained', lost, failed, taken)
      BY <1>0, <3>1 DEF InOnePlace
    <3> QED BY <1>0, <2>0, <3>1, <3>2, <3>3 DEF SampleInv, Q
  <2>3. CASE ResetStaleness \/ AssignStaleness \/ FinalSave
    BY <2>0, <2>3, <1>a DEF ResetStaleness, AssignStaleness, FinalSave, rollouter, messages
  <2> QED BY <1>7, <2>1, <2>2, <2>3 DEF Trainer
<1>8. CASE Finish
  <2>1. /\ queue' = <<>> /\ lost' = lost \cup (Q \ {End})
        /\ UNCHANGED <<generating, batch, trained, failed, taken>> /\ Hand' = Hand
    BY <1>8 DEF Finish, rollouter, Hand, Q
  <2>2. Elements(queue') = {} /\ NoRepeat(queue')
    BY <2>1 DEF Elements, NoRepeat
  <2>3. Q \ {End} \subseteq Samples
    BY <1>0 DEF Q, Elements
  <2>4. InOnePlace(Hand, generating, {}, B, trained, lost', failed, taken)
    BY <1>0, <2>1, NotASample DEF InOnePlace
  <2> QED BY <1>0, <2>1, <2>2, <2>3, <2>4 DEF SampleInv, B
<1>9. CASE Terminated \/ UNCHANGED vars
  BY <1>9, <1>a DEF Terminated, vars, rollouter, messages, trainer, Hand
<1> QED BY <1>1, <1>2, <1>3, <1>4, <1>5, <1>6, <1>7, <1>8, <1>9 DEF Next

LEMMA EndStep ==
  TypeOK /\ TypeOK' /\ Tasks /\ Batches /\ Counts /\ SampleInv /\ EndInv /\ [Next]_vars
    => EndInv'
<1> SUFFICES ASSUME TypeOK, TypeOK', Tasks, Batches, Counts, SampleInv, EndInv, [Next]_vars
             PROVE  EndInv'
  OBVIOUS
<1>0. /\ IsFiniteSet(active) /\ Cardinality(active) \in Nat /\ generating \subseteq active
      /\ IsFiniteSet(generating) /\ Cardinality(generating) \in Nat
      /\ Cardinality(active) <= MaxConcurrent /\ MaxConcurrent \in Nat
      /\ queue \in Seq(Samples \cup {End}) /\ Len(queue) \in Nat
      /\ NoRepeat(queue)
  <2>1. /\ active \subseteq Samples /\ generating \subseteq Samples
        /\ queue \in Seq(Samples \cup {End}) /\ NoRepeat(queue)
        /\ generating \subseteq active /\ Cardinality(active) <= MaxConcurrent
    BY DEF TypeOK, Tasks, SampleInv
  <2>2. /\ IsFiniteSet(active) /\ Cardinality(active) \in Nat
        /\ IsFiniteSet(generating) /\ Cardinality(generating) \in Nat
    BY <2>1, SamplesFinite
  <2>3. Len(queue) \in Nat
    BY <2>1
  <2> QED BY <2>1, <2>2, <2>3, Sizes
<1>a. ASSUME UNCHANGED <<generating, queue, tpc, batch, ended>>,
             \/ pc' = pc
             \/ Generates /\ Generates' /\ pc' # "stopped"
             \/ pc = "closed" /\ pc' = "over"
      PROVE  EndInv'
  BY <1>a DEF EndInv, Generates
<1>r. ASSUME NEW next \in {"drain", "submit", "end"}, Reap(next), Generates PROVE EndInv'
  <2> PICK done \in (SUBSET Finished) \ {{}} : pc' = "stopped" \/ pc' = next
    BY <1>r DEF Reap
  <2>1. UNCHANGED <<generating, queue, tpc, batch, ended>>
    BY <1>r DEF Reap, ProcessorUnchanged, trainer
  <2>2. Cardinality(generating) < MaxConcurrent
    <3>0. done # {} /\ done \subseteq Finished
      OBVIOUS
    <3> PICK d \in done : TRUE
      BY <3>0
    <3>1. d \in active /\ generating \subseteq active \ {d}
      BY <1>0 DEF Finished
    <3>2. /\ IsFiniteSet(active \ {d}) /\ Cardinality(active \ {d}) = Cardinality(active) - 1
      BY <1>0, <3>1, FS_RemoveElement
    <3>3. Cardinality(generating) <= Cardinality(active \ {d})
      BY <3>1, <3>2, FS_Subset
    <3> QED BY <1>0, <3>2, <3>3
  <2> QED BY <1>r, <2>1, <2>2 DEF EndInv, Generates
<1>1. CASE Feed
  BY <1>1, <1>a DEF Feed, messages, trainer
<1>2. CASE Processor
  <2>1. CASE AskQueueSize \/ JudgeStaleness \/ Pause \/ Resume \/ WaitForRoom \/ TakeItem
    BY <2>1, <1>a DEF AskQueueSize, JudgeStaleness, Pause, Resume, WaitForRoom, TakeItem,
                      Generates, ProcessorUnchanged, trainer
  <2>2. CASE ReapWhilePaused \/ ReapForRoom \/ ReapAtEnd
    BY <2>2, <1>r DEF ReapWhilePaused, ReapForRoom, ReapAtEnd, Generates
  <2>3. CASE Submit
    BY <2>3 DEF Submit, EndInv, Generates, messages, trainer
  <2>4. CASE AwaitTasks
    <3>1. pc = "end" /\ UNCHANGED <<generating, queue, tpc, batch, ended>>
      BY <2>4 DEF AwaitTasks, ProcessorUnchanged, trainer
    <3>2. CASE active = {}
      <4>1. Cardinality(generating) < MaxConcurrent
        BY <1>0, <3>2, FS_EmptySet, Sizes
      <4>2. pc' = "stopped"
        BY <2>4, <3>2 DEF AwaitTasks
      <4> QED BY <3>1, <4>1, <4>2 DEF EndInv, Generates
    <3>3. CASE active # {}
      BY <2>4, <3>1, <3>3, <1>a DEF AwaitTasks, Generates
    <3> QED BY <3>2, <3>3
  <2> QED BY <1>2, <2>1, <2>2, <2>3, <2>4 DEF Processor
<1>3. ASSUME NEW s \in Samples, PutSample(s) PROVE EndInv'
  <2>1. /\ s \in generating /\ Enqueue(s) /\ s # End
        /\ UNCHANGED <<pc, tpc, batch, ended>> /\ s \notin Elements(queue)
    BY <1>3, NotASample DEF PutSample, trainer, SampleInv, InOnePlace
  <2>2. Cardinality(generating') = Cardinality(generating) - 1
    BY <1>3, TaskEnds DEF PutSample
  <2>3. /\ Elements(queue') \subseteq Elements(queue) \cup {s}
        /\ \/ /\ Len(queue') = Len(queue) + 1
              /\ \A i \in DOMAIN queue' :
                   \/ i = Len(queue') /\ queue'[i] = s
                   \/ i \in DOMAIN queue /\ queue'[i] = queue[i] /\ i # Len(queue')
           \/ /\ Len(queue') = Len(queue)
              /\ \A i \in DOMAIN queue' :
                   \/ i = Len(queue') /\ queue'[i] = s
                   \/ i + 1 \in DOMAIN queue /\ queue'[i] = queue[i + 1] /\ i # Len(queue')
    BY <1>0, <2>1, EnqueueKeeps
  <2>4. ASSUME ~Generates, NEW i \in DOMAIN queue', queue'[i] = End
        PROVE  Cardinality(generating') + (Len(queue') - i) < MaxConcurrent
    <3>0. i \in Int
      <4>1. queue' \in Seq(Samples \cup {End})
        BY DEF TypeOK
      <4> QED BY <2>4, <4>1
    <3>1. CASE Len(queue') = Len(queue) + 1 /\ i \in DOMAIN queue /\ queue'[i] = queue[i]
      <4>1. Cardinality(generating) + (Len(queue) - i) < MaxConcurrent
        BY <2>4, <3>1 DEF EndInv
      <4> QED BY <1>0, <2>2, <3>0, <3>1, <4>1
    <3>2. CASE Len(queue') = Len(queue) /\ i + 1 \in DOMAIN queue /\ queue'[i] = queue[i + 1]
      <4>1. Cardinality(generating) + (Len(queue) - (i + 1)) < MaxConcurrent
        BY <2>4, <3>2 DEF EndInv
      <4> QED BY <1>0, <2>2, <3>0, <3>2, <4>1
    <3> QED BY <2>1, <2>3, <2>4, <3>1, <3>2
  <2>5. ended => End \notin Elements(queue')
    BY <2>1, <2>3 DEF EndInv
  <2> QED BY <1>0, <2>1, <2>2, <2>4, <2>5 DEF EndInv, Generates
<1>4. ASSUME NEW s \in Samples, Raise(s) PROVE EndInv'
  <2>1. UNCHANGED <<pc, queue, tpc, batch, ended>>
    BY <1>4 DEF Raise, messages, trainer
  <2>2. Cardinality(generating') = Cardinality(generating) - 1
    BY <1>4, TaskEnds DEF Raise
  <2>3. \A i \in DOMAIN queue : i \in Int
    BY <1>0
  <2> QED BY <1>0, <2>1, <2>2, <2>3 DEF EndInv, Generates
<1>5. CASE SendEnd
  <2>1. /\ pc = "stopped" /\ pc' = "closed" /\ Enqueue(End)
        /\ UNCHANGED <<generating, tpc, batch, ended>>
        /\ Cardinality(generating) < MaxConcurrent
    BY <1>5 DEF SendEnd, trainer, EndInv
  <2>2. ~ended /\ End \notin Elements(queue)
    BY <2>1 DEF Counts, Generates
  <2>3. \A i \in DOMAIN queue' : queue'[i] = End => i = Len(queue')
    <3>1. \A i \in DOMAIN queue : queue[i] # End
      BY <2>2 DEF Elements
    <3> QED BY <1>0, <2>1, <2>2, <3>1, EnqueueKeeps
  <2>4. Len(queue') \in Nat
    BY DEF TypeOK
  <2> QED BY <1>0, <2>1, <2>2, <2>3, <2>4 DEF EndInv
<1>6. CASE StopRunning \/ MonitorAsks \/ MonitorJudges \/ MonitorResumes
  BY <1>6, <1>a DEF StopRunning, MonitorAsks, MonitorJudges, MonitorResumes, MonitorUnchanged,
                    messages, trainer
<1>7. CASE Trainer
  <2>0. UNCHANGED <<pc, generating>> /\ Len(batch) \in Nat
    <3>1. UNCHANGED <<pc, generating>>
      BY <1>7 DEF Trainer, GetSample, Train, ResetStaleness, AssignStaleness, FinalSave,
                  rollouter
    <3>2. batch \in Seq(Samples)
      BY DEF TypeOK
    <3> QED BY <3>1, <3>2
  <2>1. CASE GetSample
    <3>1. /\ queue # <<>> /\ queue' = Tail(queue) /\ tpc = "collect" /\ ~ended
          /\ Len(batch) < Required
      BY <2>1 DEF GetSample, EndInv, Batches
    <3>2. /\ Len(queue') = Len(queue) - 1
          /\ \A i \in DOMAIN queue' : i + 1 \in DOMAIN queue /\ queue'[i] = queue[i + 1]
          /\ Head(queue) \notin Elements(queue')
      BY <1>0, <3>1, RestOfSequence
    <3>3. ASSUME ~Generates, NEW i \in DOMAIN queue', queue'[i] = End
          PROVE  Cardinality(generating) + (Len(queue') - i) < MaxConcurrent
      <4>1. Cardinality(generating) + (Len(queue) - (i + 1)) < MaxConcurrent
        BY <3>2, <3>3 DEF EndInv
      <4>2. i \in Int
        <5>1. queue' \in Seq(Samples \cup {End})
          BY DEF TypeOK
        <5> QED BY <3>3, <5>1
      <4> QED BY <1>0, <3>2, <4>1, <4>2
    <3>4. CASE Head(queue) = End
      <4>1. ended' = TRUE /\ tpc' \in {"sync", "save"} /\ batch' = batch
        BY <2>1, <3>4 DEF GetSample
      <4> QED BY <2>0, <3>1, <3>2, <3>3, <3>4, <4>1 DEF EndInv, Generates
    <3>5. CASE Head(queue) # End
      <4>1. ended' = ended /\ tpc' \in {"train", "collect"}
        BY <2>1, <3>5 DEF GetSample
      <4> QED BY <2>0, <3>1, <3>3, <4>1 DEF EndInv, Generates
    <3> QED BY <3>4, <3>5
  <2>2. CASE Train
    BY <2>0, <2>2 DEF Train, EndInv, Generates, messages
  <2>3. CASE ResetStaleness
    BY <2>0, <2>3 DEF ResetStaleness, EndInv, Generates, messages
  <2>4. CASE AssignStaleness
    BY <2>0, <2>4 DEF AssignStaleness, EndInv, Generates, messages
  <2>5. CASE FinalSave
    BY <2>0, <2>5 DEF FinalSave, EndInv, Generates, messages
  <2> QED BY <1>7, <2>1, <2>2, <2>3, <2>4, <2>5 DEF Trainer
<1>8. CASE Finish
  BY <1>8 DEF Finish, EndInv, Generates, rollouter, Elements
<1>9. CASE Terminated \/ UNCHANGED vars
  BY <1>9, <1>a DEF Terminated, vars, rollouter, messages, trainer
<1> QED BY <1>1, <1>2, <1>3, <1>4, <1>5, <1>6, <1>7, <1>8, <1>9 DEF Next

-----------------------------------------------------------------------------
(* The end signal comes last. *)

\* If no generation raised, the processor ends when every item is taken and every
\* task is done; nothing is put behind the end signal, and nothing is in the
\* queue when the trainer has seen it.
OrderInv ==
  failed = {} =>
    /\ pc \in {"end", "ending", "stopped", "closed", "over"} => taken = Total + 1
    /\ pc \in {"stopped", "closed", "over"} => active = {}
    /\ \A i \in DOMAIN queue : queue[i] = End => i = Len(queue)
    /\ ended => queue = <<>>

LEMMA FailedStays == [Next]_vars => failed \subseteq failed'
BY DEF Next, Feed, Processor, AskQueueSize, JudgeStaleness, Pause, Resume, ReapWhilePaused,
       TakeItem, WaitForRoom, ReapForRoom, Submit, AwaitTasks, ReapAtEnd, Reap,
       ProcessorUnchanged, PutSample, Raise, SendEnd, StopRunning, MonitorAsks,
       MonitorJudges, MonitorResumes, MonitorUnchanged, Trainer, GetSample, Train,
       ResetStaleness, AssignStaleness, FinalSave, Finish, Terminated, rollouter, vars

LEMMA OrderStep ==
  TypeOK /\ TypeOK' /\ Tasks /\ Counts /\ SampleInv /\ OrderInv /\ [Next]_vars => OrderInv'
<1> SUFFICES ASSUME TypeOK, TypeOK', Tasks, Counts, SampleInv, OrderInv, [Next]_vars, failed' = {}
             PROVE  OrderInv'
  BY DEF OrderInv
<1>f. failed = {}
  BY FailedStays
<1>0. /\ pc \in {"end", "ending", "stopped", "closed", "over"} => taken = Total + 1
      /\ pc \in {"stopped", "closed", "over"} => active = {}
      /\ \A i \in DOMAIN queue : queue[i] = End => i = Len(queue)
      /\ ended => queue = <<>>
      /\ generating \subseteq active /\ queue \in Seq(Samples \cup {End}) /\ NoRepeat(queue)
  BY <1>f DEF OrderInv, Tasks, TypeOK, SampleInv
<1>a. ASSUME UNCHANGED <<pc, taken, active, queue, ended>> PROVE OrderInv'
  BY <1>0, <1>a DEF OrderInv
<1>q. ASSUME UNCHANGED <<queue, ended>>,
             pc' \in {"end", "ending", "stopped", "closed", "over"} => taken' = Total + 1,
             pc' \in {"stopped", "closed", "over"} => active' = {}
      PROVE  OrderInv'
  BY <1>0, <1>q DEF OrderInv
<1>r. ASSUME NEW next, Reap(next), pc \notin {"stopped", "closed", "over"},
             next \in {"drain", "submit"} \/ next = pc \/ (next = "end" /\ pc = "ending")
      PROVE  OrderInv'
  BY <1>0, <1>f, <1>r, <1>q DEF Reap, ProcessorUnchanged, trainer
<1>1. CASE Feed
  BY <1>1, <1>a DEF Feed, messages, trainer
<1>2. CASE Processor
  <2>1. CASE AskQueueSize \/ JudgeStaleness \/ Pause \/ Resume \/ WaitForRoom
    BY <2>1, <1>q DEF AskQueueSize, JudgeStaleness, Pause, Resume, WaitForRoom,
                      ProcessorUnchanged, trainer
  <2>2. CASE ReapWhilePaused \/ ReapForRoom \/ ReapAtEnd
    BY <2>2, <1>r DEF ReapWhilePaused, ReapForRoom, ReapAtEnd
  <2>3. CASE TakeItem
    BY <2>3, <1>q DEF TakeItem, ProcessorUnchanged, trainer
  <2>4. CASE Submit
    BY <2>4, <1>q DEF Submit, messages, trainer
  <2>5. CASE AwaitTasks
    BY <2>5, <1>0, <1>q DEF AwaitTasks, ProcessorUnchanged, trainer
  <2> QED BY <1>2, <2>1, <2>2, <2>3, <2>4, <2>5 DEF Processor
<1>3. ASSUME NEW s \in Samples, PutSample(s) PROVE OrderInv'
  <2>1. /\ s \in generating /\ Enqueue(s) /\ s # End
        /\ UNCHANGED <<pc, taken, active, ended>>
    BY <1>3, NotASample DEF PutSample, trainer
  <2>2. Generates
    <3>1. active # {}
      BY <1>0, <2>1
    <3> QED BY <1>0, <3>1 DEF Generates
  <2>3. ~ended /\ End \notin Elements(queue)
    BY <2>2 DEF Counts
  <2>4. End \notin Elements(queue')
    BY <2>1, <2>3, EnqueueElements
  <2> QED BY <1>0, <2>1, <2>3, <2>4 DEF OrderInv, Elements
<1>4. ASSUME NEW s \in Samples, Raise(s) PROVE OrderInv'
  BY <1>4, <1>a DEF Raise, messages, trainer
<1>5. CASE SendEnd
  <2>1. /\ pc = "stopped" /\ pc' = "closed" /\ Enqueue(End) /\ UNCHANGED <<taken, active, ended>>
    BY <1>5 DEF SendEnd, trainer
  <2>2. ~ended /\ End \notin Elements(queue)
    BY <2>1 DEF Counts, Generates
  <2>3. \A i \in DOMAIN queue' : queue'[i] = End => i = Len(queue')
    <3>1. \A i \in DOMAIN queue : queue[i] # End
      BY <2>2 DEF Elements
    <3> QED BY <1>0, <2>1, <2>2, <3>1, EnqueueKeeps
  <2> QED BY <1>0, <2>1, <2>2, <2>3 DEF OrderInv
<1>6. CASE StopRunning
  BY <1>6, <1>0, <1>q DEF StopRunning, messages, trainer
<1>7. CASE MonitorAsks \/ MonitorJudges \/ MonitorResumes
  BY <1>7, <1>a DEF MonitorAsks, MonitorJudges, MonitorResumes, MonitorUnchanged, messages, trainer
<1>8. CASE Trainer
  <2>1. CASE GetSample
    <3>1. queue # <<>> /\ queue' = Tail(queue) /\ UNCHANGED <<pc, taken, active>>
      BY <2>1 DEF GetSample, rollouter
    <3>2. /\ Len(queue') = Len(queue) - 1 /\ Len(queue) \in Nat /\ 1 \in DOMAIN queue
          /\ Head(queue) = queue[1] /\ queue' \in Seq(Samples \cup {End})
          /\ \A i \in DOMAIN queue' : i + 1 \in DOMAIN queue /\ queue'[i] = queue[i + 1]
      BY <1>0, <3>1, RestOfSequence
    <3>3. \A i \in DOMAIN queue' : queue'[i] = End => i = Len(queue')
      <4>1. SUFFICES ASSUME NEW i \in DOMAIN queue', queue'[i] = End PROVE i = Len(queue')
        OBVIOUS
      <4>2. i + 1 = Len(queue) /\ i \in Int
        BY <1>0, <3>2, <4>1
      <4> QED BY <3>2, <4>2
    <3>4. CASE Head(queue) = End
      <4>1. Len(queue) = 1
        BY <1>0, <3>2, <3>4
      <4>2. queue' = <<>>
        BY <3>2, <4>1
      <4> QED BY <1>0, <3>1, <3>3, <4>2 DEF OrderInv
    <3>5. CASE Head(queue) # End
      <4>1. ended' = ended /\ ~ended
        BY <1>0, <2>1, <3>1, <3>5 DEF GetSample
      <4> QED BY <1>0, <3>1, <3>3, <4>1 DEF OrderInv
    <3> QED BY <3>4, <3>5
  <2>2. CASE Train \/ ResetStaleness \/ AssignStaleness \/ FinalSave
    BY <2>2, <1>a DEF Train, ResetStaleness, AssignStaleness, FinalSave, rollouter, messages
  <2> QED BY <1>8, <2>1, <2>2 DEF Trainer
<1>9. CASE Finish
  BY <1>0, <1>9 DEF Finish, OrderInv, rollouter
<1>10. CASE Terminated \/ UNCHANGED vars
  BY <1>10, <1>a DEF Terminated, vars, rollouter, messages, trainer
<1> QED BY <1>1, <1>2, <1>3, <1>4, <1>5, <1>6, <1>7, <1>8, <1>9, <1>10 DEF Next

-----------------------------------------------------------------------------
(* What is trained, and what is saved. *)

\* Whole batches are trained, and what the checkpoint of the current version has
\* not seen are the batches trained since that version was made.
SaveInv ==
  /\ \E k \in Nat : Cardinality(trained) = k * Required
  /\ ckpt <= version /\ saved \subseteq trained
  /\ ckpt = version => Cardinality(trained \ saved) <= (local - 1) * Required
  /\ SaveFreq > 0 /\ tpc \in {"over", "finished"} => ckpt = version
  /\ ~(SaveFreq > 0) => ckpt = 0 /\ saved = {}

LEMMA SaveStep ==
  TypeOK /\ TypeOK' /\ Batches /\ SampleInv /\ SaveInv /\ [Next]_vars => SaveInv'
<1> SUFFICES ASSUME TypeOK, TypeOK', Batches, SampleInv, SaveInv, [Next]_vars PROVE SaveInv'
  OBVIOUS
<1>0. /\ trained \subseteq Samples /\ version \in Nat /\ ckpt \in Nat
      /\ batch \in Seq(Samples) /\ NoRepeat(batch)
      /\ local \in Nat /\ local - 1 \in Nat /\ local <= SyncStep
      /\ IsFiniteSet(trained) /\ Cardinality(trained) \in Nat
  <2>1. /\ trained \subseteq Samples /\ version \in Nat /\ ckpt \in Nat
        /\ batch \in Seq(Samples) /\ local \in 1..SyncStep
    BY DEF TypeOK
  <2>2. local \in Nat /\ local - 1 \in Nat /\ local <= SyncStep
    BY <2>1, Sizes
  <2>3. NoRepeat(batch)
    BY DEF SampleInv
  <2>4. IsFiniteSet(trained) /\ Cardinality(trained) \in Nat
    BY <2>1, SamplesFinite
  <2> QED BY <2>1, <2>2, <2>3, <2>4
<1>a. ASSUME UNCHANGED <<trained, version, ckpt, saved, local>>,
             tpc' \in {"over", "finished"} => tpc \in {"over", "finished"}
      PROVE  SaveInv'
  BY <1>a DEF SaveInv
<1>s. ASSUME UNCHANGED <<trained, version, local>>, NEW force \in BOOLEAN,
             SaveCheckpoint(force, trained),
             tpc' \in {"over", "finished"} => force
      PROVE  SaveInv'
  <2>1. CASE UNCHANGED <<ckpt, saved>> /\ (force /\ SaveFreq > 0 => version = ckpt)
    BY <1>s, <2>1 DEF SaveInv
  <2>2. CASE SaveFreq > 0 /\ ckpt' = version /\ saved' = trained
    <3>1. Cardinality(trained' \ saved') = 0
      BY <1>s, <2>2, FS_EmptySet
    <3>2. 0 <= (local - 1) * Required
      BY <1>0, Products
    <3> QED BY <1>0, <1>s, <2>2, <3>1, <3>2 DEF SaveInv
  <2> QED BY <1>s, <2>1, <2>2 DEF SaveCheckpoint
<1>1. CASE Feed \/ SendEnd \/ StopRunning \/ MonitorAsks \/ MonitorJudges \/ MonitorResumes
  BY <1>1, <1>a DEF Feed, SendEnd, StopRunning, MonitorAsks, MonitorJudges, MonitorResumes,
                    MonitorUnchanged, trainer
<1>2. CASE Processor
  BY <1>2, <1>a DEF Processor, AskQueueSize, JudgeStaleness, Pause, Resume, ReapWhilePaused,
                    TakeItem, WaitForRoom, ReapForRoom, Submit, AwaitTasks, ReapAtEnd, Reap,
                    ProcessorUnchanged, trainer
<1>3. ASSUME NEW s \in Samples, PutSample(s) \/ Raise(s) PROVE SaveInv'
  BY <1>3, <1>a DEF PutSample, Raise, trainer
<1>4. CASE Trainer
  <2>1. CASE GetSample \/ ResetStaleness
    BY <2>1, <1>a DEF GetSample, ResetStaleness
  <2>2. CASE Train
    <3> DEFINE B == Elements(batch)
    <3>1. tpc = "train" /\ trained' = trained \cup B /\ tpc' \in {"collect", "sync"}
      BY <2>2 DEF Train
    <3>2. IsFiniteSet(B) /\ Cardinality(B) = Required
      BY <1>0, <3>1, ElementsCounted DEF Batches
    <3>3. trained \cap B = {} /\ B \subseteq Samples
      BY <1>0 DEF SampleInv, InOnePlace, Elements
    <3> HIDE DEF B
    <3>4. Cardinality(trained') = Cardinality(trained) + Required
      <4>1. Cardinality(trained \cup B)
              = Cardinality(trained) + Cardinality(B) - Cardinality(trained \cap B)
        BY <1>0, <3>2, FS_Union
      <4>2. Cardinality(trained \cap B) = 0
        BY <3>3, FS_EmptySet
      <4> QED BY <1>0, <3>1, <3>2, <4>1, <4>2, Sizes
    <3>5. \E k \in Nat : Cardinality(trained') = k * Required
      <4>1. PICK k \in Nat : Cardinality(trained) = k * Required
        BY DEF SaveInv
      <4>2. Cardinality(trained') = (k + 1) * Required
        BY <3>4, <4>1, Products
      <4> QED BY <4>2
    <3>6. UNCHANGED saved => saved' \subseteq trained'
      BY <3>1 DEF SaveInv
    <3>7. CASE local < SyncStep /\ UNCHANGED <<ckpt, saved>>
      <4>1. local' = local + 1 /\ version' = version
        BY <2>2, <3>7 DEF Train
      <4>2. ASSUME ckpt = version
            PROVE  Cardinality(trained' \ saved') <= local * Required
        <5>1. /\ IsFiniteSet(trained \ saved) /\ IsFiniteSet(trained' \ saved')
              /\ trained' \ saved' \subseteq (trained \ saved) \cup B
          BY <1>0, <3>1, <3>2, <3>7, FS_Subset, FS_Union
        <5>2. /\ IsFiniteSet((trained \ saved) \cup B)
              /\ Cardinality((trained \ saved) \cup B)
                   = Cardinality(trained \ saved) + Cardinality(B)
                       - Cardinality((trained \ saved) \cap B)
          BY <3>2, <5>1, FS_Union
        <5>3. Cardinality((trained \ saved) \cap B) = 0
          <6>1. (trained \ saved) \cap B = {}
            BY <3>3
          <6> QED BY <6>1, FS_EmptySet
        <5>4. /\ Cardinality(trained \ saved) \in Nat /\ Cardinality(trained' \ saved') \in Nat
              /\ Cardinality(trained' \ saved') <= Cardinality((trained \ saved) \cup B)
          BY <5>1, <5>2, FS_Subset, FS_CardinalityType
        <5>5. Cardinality(trained' \ saved') <= Cardinality(trained \ saved) + Required
          BY <3>2, <5>2, <5>3, <5>4, Sizes
        <5>6. Cardinality(trained \ saved) <= (local - 1) * Required
          BY <4>2 DEF SaveInv
        <5>7. /\ (local - 1) * Required + Required = local * Required
              /\ (local - 1) * Required \in Nat /\ local * Required \in Nat
          <6>1. (local - 1) + 1 = local
            BY <1>0
          <6> QED BY <1>0, <6>1, Products
        <5> QED BY <5>4, <5>5, <5>6, <5>7, Sizes
      <4>3. local' - 1 = local
        BY <1>0, <4>1
      <4> QED BY <3>1, <3>5, <3>6, <3>7, <4>1, <4>2, <4>3 DEF SaveInv
    <3>8. CASE local < SyncStep /\ SaveFreq > 0 /\ ckpt' = version /\ saved' = trained'
      <4>1. local' = local + 1 /\ version' = version /\ local' - 1 = local
        BY <1>0, <2>2, <3>8 DEF Train
      <4>2. Cardinality(trained' \ saved') = 0
        BY <3>8, FS_EmptySet
      <4>3. 0 <= local * Required
        BY <1>0, Products
      <4> QED BY <1>0, <3>1, <3>5, <3>8, <4>1, <4>2, <4>3 DEF SaveInv
    <3>9. CASE ~(local < SyncStep)
      <4>1. version' = version + 1 /\ UNCHANGED <<ckpt, saved>>
        BY <2>2, <3>9 DEF Train
      <4> QED BY <1>0, <3>1, <3>5, <3>6, <4>1 DEF SaveInv
    <3>10. local < SyncStep => \/ UNCHANGED <<ckpt, saved>>
                               \/ SaveFreq > 0 /\ ckpt' = version /\ saved' = trained'
      BY <2>2, TrainStep
    <3> QED BY <3>7, <3>8, <3>9, <3>10
  <2>3. CASE AssignStaleness
    <3>1. UNCHANGED <<trained, version, local>> /\ tpc' \in {"save", "collect"}
      BY <2>3 DEF AssignStaleness
    <3>2. CASE ended
      BY <2>3, <3>1, <3>2, <1>a DEF AssignStaleness
    <3>3. CASE ~ended
      BY <2>3, <3>1, <3>3, <1>s DEF AssignStaleness
    <3> QED BY <3>2, <3>3
  <2>4. CASE FinalSave
    BY <2>4, <1>s DEF FinalSave
  <2> QED BY <1>4, <2>1, <2>2, <2>3, <2>4 DEF Trainer
<1>5. CASE Finish \/ Terminated \/ UNCHANGED vars
  BY <1>5, <1>a DEF Finish, Terminated, vars, trainer
<1> QED BY <1>1, <1>2, <1>3, <1>4, <1>5 DEF Next

-----------------------------------------------------------------------------
(* How many samples are dropped. *)

\* The processor has taken the last item and only waits.
Late == pc \in {"end", "ending", "stopped"}

\* The versions the Rollouter has received.
HandedOver == IF tpc \in {"sync", "resetting"} /\ ~ended THEN version - 1 ELSE version

\* The room for a drop.  A queue that is full while a task still generates takes
\* MaxRequired + 1 samples in flight, which a version reaches once: after the drop
\* fewer are in flight or consumed than the version has, until the next reset.
DropInv ==
  /\ tpc \in {"sync", "resetting"} /\ ~ended => version > 0
  /\ failed = {} =>
       IF Generates
         THEN /\ Late => InFlight + Consumed <= MaxRequired
              /\ \/ Cardinality(lost) <= HandedOver
                 \/ /\ Cardinality(lost) <= HandedOver + 1
                    /\ InFlight + Consumed < period
                    /\ Late => InFlight + Consumed < MaxRequired
         ELSE Cardinality(lost) <= HandedOver + 1

\* The solver does not add the counters of a step before it knows their sums.
LEMMA Arithmetic ==
  /\ \A a, b, c \in Nat : a <= b => a + c <= b + c
  /\ \A a, b, c, d, n \in Nat : a + b <= c + d /\ c + d <= n => a + b <= n
  /\ \A h, q \in Nat : \A g, k \in Nat : g = k - 1 =>
       /\ h + g + (q + 1) = h + k + q
       /\ h + g + q = (h + k + q) - 1 /\ h + k + q >= q + 1
OBVIOUS

LEMMA OneMore ==
  ASSUME NEW S, IsFiniteSet(S), NEW e
  PROVE  Cardinality(S \cup {e}) <= Cardinality(S) + 1
<1>1. Cardinality(S) \in Nat
  BY FS_CardinalityType
<1>2. CASE e \in S
  <2>1. S \cup {e} = S
    BY <1>2
  <2> QED BY <1>1, <2>1
<1>3. CASE e \notin S
  <2>1. Cardinality(S \cup {e}) = Cardinality(S) + 1
    BY <1>3, FS_AddElement
  <2> QED BY <1>1, <2>1
<1> QED BY <1>2, <1>3

LEMMA DropTypes ==
  TypeOK /\ TypeOK' /\ SampleInv /\ SampleInv' /\ DropInv =>
    /\ InFlight \in Nat /\ Consumed \in Nat /\ InFlight' \in Nat /\ Consumed' \in Nat
    /\ IsFiniteSet(lost) /\ Cardinality(lost) \in Nat /\ Cardinality(lost') \in Nat
    /\ period \in Nat /\ period' \in Nat /\ version \in Nat /\ version' \in Nat
    /\ HandedOver \in Nat /\ MaxRequired \in Nat
<1> SUFFICES ASSUME TypeOK, TypeOK', SampleInv, SampleInv', DropInv
             PROVE  /\ InFlight \in Nat /\ Consumed \in Nat /\ InFlight' \in Nat
                    /\ Consumed' \in Nat /\ IsFiniteSet(lost) /\ Cardinality(lost) \in Nat
                    /\ Cardinality(lost') \in Nat
                    /\ period \in Nat /\ period' \in Nat /\ version \in Nat /\ version' \in Nat
                    /\ HandedOver \in Nat /\ MaxRequired \in Nat
  OBVIOUS
<1>1. lost \subseteq Samples /\ lost' \subseteq Samples
  BY DEF SampleInv
<1>2. period \in Nat /\ period' \in Nat /\ version \in Nat /\ version' \in Nat
  BY DEF TypeOK
<1>3. HandedOver \in Nat
  BY <1>2 DEF HandedOver, DropInv
<1> QED BY <1>1, <1>2, <1>3, InFlightType, ConsumedType, NextTypes, SamplesFinite, Sizes

\* Steps that drop nothing, put nothing in flight and hand over no version.
LEMMA DropKept ==
  ASSUME TypeOK, TypeOK', SampleInv, SampleInv', DropInv, failed' = {} => failed = {},
         Generates' => InFlight' + Consumed' <= InFlight + Consumed /\ Generates,
         Late' => Late, UNCHANGED <<lost, period>>,
         UNCHANGED <<tpc, version, ended>> \/ HandedOver' = HandedOver,
         tpc' \in {"sync", "resetting"} /\ ~ended' => version' > 0
  PROVE  DropInv'
<1> DEFINE S == InFlight + Consumed
<1>1. /\ S \in Nat /\ S' \in Nat /\ period \in Nat /\ HandedOver \in Nat
      /\ Cardinality(lost) \in Nat /\ MaxRequired \in Nat
  BY DropTypes
<1>2. HandedOver' = HandedOver /\ lost' = lost /\ period' = period
  BY DEF HandedOver
<1> SUFFICES ASSUME failed' = {}
             PROVE  IF Generates'
                      THEN /\ Late' => S' <= MaxRequired
                           /\ \/ Cardinality(lost') <= HandedOver'
                              \/ /\ Cardinality(lost') <= HandedOver' + 1
                                 /\ S' < period'
                                 /\ Late' => S' < MaxRequired
                      ELSE Cardinality(lost') <= HandedOver' + 1
  BY DEF DropInv
<1>3. IF Generates
        THEN /\ Late => S <= MaxRequired
             /\ \/ Cardinality(lost) <= HandedOver
                \/ /\ Cardinality(lost) <= HandedOver + 1
                   /\ S < period
                   /\ Late => S < MaxRequired
        ELSE Cardinality(lost) <= HandedOver + 1
  BY DEF DropInv
<1>4. Generates' => S' <= S /\ Generates
  OBVIOUS
<1> HIDE DEF S
<1>5. CASE Generates'
  BY <1>1, <1>2, <1>3, <1>4, <1>5
<1>6. CASE ~Generates'
  BY <1>1, <1>2, <1>3, <1>6
<1> QED BY <1>5, <1>6

LEMMA DropStep ==
  TypeOK /\ Tasks /\ Batches /\ Counts /\ SampleInv /\ EndInv /\ OrderInv /\ DropInv
    /\ TypeOK' /\ Counts' /\ SampleInv' /\ [Next]_vars
    => DropInv'
<1> SUFFICES ASSUME TypeOK, Tasks, Batches, Counts, SampleInv, EndInv, OrderInv, DropInv,
                    TypeOK', Counts', SampleInv', [Next]_vars
             PROVE  DropInv'
  OBVIOUS
<1>f. failed' = {} => failed = {}
  BY FailedStays
<1>0. /\ InFlight \in Nat /\ Consumed \in Nat /\ InFlight' \in Nat /\ Consumed' \in Nat
      /\ IsFiniteSet(lost) /\ Cardinality(lost) \in Nat /\ Cardinality(lost') \in Nat
      /\ period \in Nat /\ period' \in Nat /\ version \in Nat /\ version' \in Nat
      /\ HandedOver \in Nat /\ MaxRequired \in Nat
  BY DropTypes
<1>a. ASSUME UNCHANGED <<taken, generating, queue, lost, period>>,
             UNCHANGED <<tpc, local, batch, ended, version>>,
             pc' = pc \/ (pc = "closed" /\ pc' = "over")
      PROVE  DropInv'
  <2>1. InFlight' = InFlight /\ Consumed' = Consumed
    BY <1>a DEF InFlight, Hand, Consumed
  <2>2. Late' <=> Late
    BY <1>a DEF Late
  <2>3. Generates' => Generates
    BY <1>a DEF Generates
  <2>4. InFlight' + Consumed' <= InFlight + Consumed
    BY <1>0, <2>1
  <2> QED BY <1>a, <1>f, <2>2, <2>3, <2>4, DropKept DEF DropInv
\* A step of the processor that puts nothing more in flight.
<1>p. ASSUME InFlight' <= InFlight, Late' => Late, Generates, lost' = lost,
             UNCHANGED <<period, tpc, local, batch, ended, version>>
      PROVE  DropInv'
  <2>1. Consumed' = Consumed
    BY <1>p DEF Consumed
  <2>2. InFlight' + Consumed' <= InFlight + Consumed
    BY <1>0, <1>p, <2>1, Arithmetic
  <2> QED BY <1>p, <1>f, <2>2, DropKept DEF DropInv
<1>r. ASSUME NEW next \in {"drain", "submit", "end"}, Reap(next), Generates,
             next = "submit" <=> pc = "full", next = "end" => Late
      PROVE  DropInv'
  <2>1. /\ ProcessorUnchanged /\ UNCHANGED <<taken, period>> /\ pc' \in {next, "stopped"}
        /\ \/ pc' = next /\ lost' = lost
           \/ failed # {} 
    BY <1>r DEF Reap
  <2>2. CASE failed # {}
    BY <1>f, <1>r, <2>1, <2>2 DEF DropInv, ProcessorUnchanged, trainer
  <2>3. CASE failed = {}
    <3>1. UNCHANGED <<generating, queue, tpc, local, batch, ended, version>>
      BY <2>1 DEF ProcessorUnchanged, trainer
    <3>2. pc' = next /\ lost' = lost
      BY <2>1, <2>3
    <3>3. InFlight' <= InFlight
      <4>1. HandSize' <= HandSize /\ HandSize' \in Nat
        BY <1>r, <3>2 DEF HandSize
      <4> QED BY <3>1, <4>1, InFlightType, FlightSum
    <3>4. Late' => Late
      BY <1>r, <3>2 DEF Late
    <3> QED BY <1>p, <1>r, <2>1, <3>1, <3>2, <3>3, <3>4
  <2> QED BY <2>2, <2>3
<1>1. CASE Feed
  BY <1>1, <1>a DEF Feed, messages, trainer
<1>2. CASE Processor
  <2>1. CASE AskQueueSize \/ JudgeStaleness \/ Pause \/ Resume \/ WaitForRoom \/ AwaitTasks
    <3>1. /\ UNCHANGED <<taken, generating, queue, lost, period, tpc, local, batch, ended, version>>
      BY <2>1 DEF AskQueueSize, JudgeStaleness, Pause, Resume, WaitForRoom, AwaitTasks,
                  ProcessorUnchanged, trainer
    <3>2. Generates /\ (Late' => Late) /\ HandSize' = HandSize
      BY <2>1 DEF AskQueueSize, JudgeStaleness, Pause, Resume, WaitForRoom, AwaitTasks,
                  Generates, Late, HandSize
    <3>3. InFlight' <= InFlight
      BY <3>1, <3>2, InFlightType, FlightSum
    <3> QED BY <1>p, <3>1, <3>2, <3>3
  <2>2. CASE ReapWhilePaused \/ ReapForRoom \/ ReapAtEnd
    BY <2>2, <1>r DEF ReapWhilePaused, ReapForRoom, ReapAtEnd, Generates, Late
  <2>3. CASE TakeItem
    <3>1. /\ pc = "get" /\ pc' = (IF taken = Total THEN "end" ELSE "submit")
          /\ period' = period + 1 /\ lost' = lost
          /\ UNCHANGED <<tpc, local, batch, ended, version, failed>>
      BY <2>3 DEF TakeItem, ProcessorUnchanged, trainer
    <3>2. Consumed' = Consumed /\ HandedOver' = HandedOver
      BY <3>1 DEF Consumed, HandedOver
    <3>3. Generates /\ Generates' /\ ~Late
      BY <3>1 DEF Generates, Late
    <3>4. /\ InFlight + Consumed <= period /\ period <= MaxRequired
      BY <3>1, <3>3 DEF Counts
    <3>5. InFlight' <= InFlight + HandSize' /\ HandSize' \in {0, 1} /\ (Late' => HandSize' = 0)
      <4>1. HandSize' \in {0, 1} /\ (Late' => HandSize' = 0)
        BY DEF HandSize, Late
      <4> QED BY <2>3, <4>1, TakeFlight
    <3>6. failed = {} => \/ Cardinality(lost) <= HandedOver
                         \/ /\ Cardinality(lost) <= HandedOver + 1
                            /\ InFlight + Consumed < period
      BY <3>3 DEF DropInv
    <3>7. ASSUME NEW F \in Nat, NEW G \in Nat, NEW C \in Nat, NEW n \in {0, 1},
                 G <= F + n, F + C <= period, period <= MaxRequired
          PROVE  /\ n = 0 => G + C <= MaxRequired
                 /\ F + C < period => G + C < period + 1 /\ (n = 0 => G + C < MaxRequired)
      BY <1>0, <3>7
    <3>8. /\ HandSize' = 0 => InFlight' + Consumed <= MaxRequired
          /\ InFlight + Consumed < period =>
               /\ InFlight' + Consumed < period + 1
               /\ HandSize' = 0 => InFlight' + Consumed < MaxRequired
      BY <1>0, <3>4, <3>5, <3>7
    <3> QED BY <3>1, <3>2, <3>3, <3>5, <3>6, <3>8 DEF DropInv
  <2>4. CASE Submit
    <3>1. /\ pc = "submit" /\ pc' = "check" /\ lost' = lost
          /\ UNCHANGED <<period, tpc, local, batch, ended, version>>
      BY <2>4 DEF Submit, messages, trainer
    <3> QED BY <1>p, <2>4, <3>1, SubmitFlight DEF Generates, Late
  <2> QED BY <1>2, <2>1, <2>2, <2>3, <2>4 DEF Processor
<1>3. ASSUME NEW s \in Samples, PutSample(s) PROVE DropInv'
  <2>1. /\ s \in generating /\ generating' = generating \ {s} /\ Enqueue(s)
        /\ UNCHANGED <<taken, pc, failed, period, tpc, local, batch, ended, version>>
    BY <1>3 DEF PutSample, trainer
  <2> SUFFICES ASSUME failed = {} PROVE DropInv'
    BY <2>1 DEF DropInv
  <2>2. Generates
    <3>1. active # {}
      BY <2>1 DEF Tasks
    <3> QED BY <3>1 DEF OrderInv, Generates
  <2>3. /\ Consumed' = Consumed /\ HandedOver' = HandedOver /\ (Late' <=> Late)
        /\ (Generates' <=> Generates) /\ HandSize' = HandSize
    BY <2>1 DEF Consumed, HandedOver, Late, Generates, HandSize
  <2>4. /\ Cardinality(generating') = Cardinality(generating) - 1 /\ HandSize \in Nat
        /\ Cardinality(generating) \in Nat /\ Cardinality(generating') \in Nat
        /\ Len(queue) \in Nat
        /\ InFlight = HandSize + Cardinality(generating) + Len(queue)
        /\ InFlight' = HandSize + Cardinality(generating') + Len(queue')
    <3>1. InFlight' = HandSize' + Cardinality(generating') + Len(queue')
      BY HandCardinality DEF InFlight
    <3>2. Cardinality(generating') \in Nat
      BY SamplesFinite DEF TypeOK
    <3> QED BY <2>1, <2>3, <3>1, <3>2, TaskEnds, InFlightType
  <2>5. s \notin Elements(queue) /\ NoRepeat(queue)
    BY <2>1 DEF SampleInv, InOnePlace
  <2>6. CASE Len(queue') = Len(queue) + 1 /\ lost' = lost
    <3>1. InFlight' = InFlight
      BY <2>4, <2>6, Arithmetic
    <3>2. InFlight' <= InFlight
      BY <1>0, <3>1
    <3> QED BY <1>p, <2>1, <2>2, <2>3, <2>6, <3>2
  <2>7. CASE /\ Len(queue) >= MaxRequired /\ Len(queue') = Len(queue)
             /\ lost' = lost \cup {Head(queue)}
    <3>1. InFlight' = InFlight - 1 /\ InFlight >= MaxRequired + 1
      <4>1. InFlight' = InFlight - 1 /\ InFlight >= Len(queue) + 1
        BY <2>4, <2>7, Arithmetic
      <4> QED BY <1>0, <2>4, <2>7, <4>1
    <3>2. InFlight + Consumed <= period /\ period <= MaxRequired + 1
      BY <2>2 DEF Counts
    <3>3. ~Late /\ Cardinality(lost) <= HandedOver
      BY <1>0, <2>2, <3>1, <3>2 DEF DropInv
    <3>4. Cardinality(lost') <= HandedOver + 1
      <4>1. Cardinality(lost \cup {Head(queue)}) <= Cardinality(lost) + 1
        BY <1>0, OneMore
      <4> QED BY <1>0, <2>7, <3>3, <4>1
    <3>5. InFlight' + Consumed' < period'
      BY <1>0, <2>1, <2>3, <3>1, <3>2
    <3> QED BY <2>1, <2>2, <2>3, <3>3, <3>4, <3>5 DEF DropInv
  <2> QED BY <2>1, <2>5, <2>6, <2>7, EnqueueKeeps
<1>4. ASSUME NEW s \in Samples, Raise(s) PROVE DropInv'
  <2>1. failed' # {} /\ UNCHANGED <<tpc, ended, version>>
    BY <1>4 DEF Raise, trainer
  <2> QED BY <2>1 DEF DropInv
<1>5. CASE SendEnd
  <2>1. /\ pc = "stopped" /\ pc' = "closed" /\ Enqueue(End)
        /\ UNCHANGED <<failed, tpc, ended, version>>
    BY <1>5 DEF SendEnd, trainer
  <2>2. Generates /\ Late /\ ~Generates' /\ HandedOver' = HandedOver
    BY <2>1 DEF Generates, Late, HandedOver
  <2> SUFFICES ASSUME failed = {} PROVE Cardinality(lost') <= HandedOver + 1
    BY <2>1, <2>2 DEF DropInv
  <2>3. End \notin Elements(queue) /\ NoRepeat(queue)
    BY <2>2 DEF Counts, SampleInv
  <2>4. CASE lost' = lost
    BY <1>0, <2>2, <2>4 DEF DropInv
  <2>5. CASE Len(queue) >= MaxRequired /\ lost' = lost \cup {Head(queue)}
    <3>1. InFlight >= MaxRequired
      BY <1>0, <2>5, InFlightType
    <3>2. Cardinality(lost) <= HandedOver
      BY <1>0, <2>2, <3>1 DEF DropInv
    <3>3. Cardinality(lost \cup {Head(queue)}) <= Cardinality(lost) + 1
      BY <1>0, OneMore
    <3> QED BY <1>0, <2>5, <3>2, <3>3
  <2> QED BY <2>1, <2>3, <2>4, <2>5, EnqueueKeeps
<1>6. CASE StopRunning \/ MonitorAsks \/ MonitorJudges \/ MonitorResumes
  BY <1>6, <1>a DEF StopRunning, MonitorAsks, MonitorJudges, MonitorResumes, MonitorUnchanged,
                    messages, trainer
<1>7. CASE Trainer
  <2>1. /\ UNCHANGED <<pc, taken, generating, failed, lost>>
    BY <1>7 DEF Trainer, GetSample, Train, ResetStaleness, AssignStaleness, FinalSave,
                rollouter, messages
  <2>2. (Generates' <=> Generates) /\ (Late' <=> Late)
    BY <2>1 DEF Generates, Late
  <2>3. Generates' => InFlight' + Consumed' <= InFlight + Consumed /\ Generates
    BY <1>7, <2>2, TrainerFlight
  <2>4. CASE GetSample
    <3>1. /\ period' = period /\ version' = version /\ tpc = "collect"
          /\ tpc' = "sync" => ended'
          /\ tpc' # "resetting"
      BY <2>4 DEF GetSample
    <3>2. HandedOver' = HandedOver
      BY <3>1 DEF HandedOver
    <3> QED BY <1>f, <2>1, <2>2, <2>3, <3>1, <3>2, DropKept
  <2>5. CASE Train
    <3>1. period' = period /\ tpc = "train" /\ ~ended /\ ended' = ended
      BY <2>5 DEF Train, EndInv
    <3>2. HandedOver' = HandedOver /\ (tpc' \in {"sync", "resetting"} => version' > 0)
      <4>1. CASE local < SyncStep
        BY <2>5, <3>1, <4>1 DEF Train, HandedOver
      <4>2. CASE ~(local < SyncStep)
        <5>1. version' = version + 1 /\ tpc' = "sync"
          BY <2>5, <4>2 DEF Train
        <5>2. HandedOver' = (version + 1) - 1 /\ HandedOver = version
          BY <3>1, <5>1 DEF HandedOver
        <5> QED BY <1>0, <5>1, <5>2
      <4> QED BY <4>1, <4>2
    <3> QED BY <1>f, <2>1, <2>2, <2>3, <3>1, <3>2, DropKept
  <2>6. CASE ResetStaleness \/ FinalSave
    <3>1. /\ period' = period /\ UNCHANGED <<version, ended>>
          /\ tpc' \in {"sync", "resetting"} => tpc \in {"sync", "resetting"}
          /\ tpc \in {"sync", "resetting"} => tpc' \in {"sync", "resetting"}
      BY <2>6 DEF ResetStaleness, FinalSave
    <3>2. HandedOver' = HandedOver /\ (tpc' \in {"sync", "resetting"} /\ ~ended' => version' > 0)
      BY <3>1 DEF HandedOver, DropInv
    <3> QED BY <1>f, <2>1, <2>2, <2>3, <3>1, <3>2, DropKept
  <2>7. CASE AssignStaleness
    <3>1. /\ tpc = "resetting" /\ UNCHANGED <<version, ended>>
          /\ tpc' = IF ended THEN "save" ELSE "collect"
      BY <2>7 DEF AssignStaleness
    <3>2. HandedOver' = version
      BY <3>1 DEF HandedOver
    <3> SUFFICES ASSUME failed = {}
                 PROVE  IF Generates
                          THEN /\ Late => InFlight' + Consumed' <= MaxRequired
                               /\ Cardinality(lost) <= version
                          ELSE Cardinality(lost) <= version + 1
      BY <2>1, <2>2, <3>1, <3>2 DEF DropInv
    <3>3. CASE Generates
      <4>1. ~ended /\ HandedOver = version - 1
        BY <3>1, <3>3 DEF Counts, HandedOver
      <4>2. Cardinality(lost) <= version
        BY <1>0, <3>3, <4>1 DEF DropInv
      <4>3. Late => InFlight' + Consumed' <= MaxRequired
        <5>1. Late => InFlight + Consumed <= MaxRequired
          BY <3>3 DEF DropInv
        <5>2. InFlight' + Consumed' <= InFlight + Consumed
          BY <2>2, <2>3, <3>3
        <5> QED BY <1>0, <5>1, <5>2, Arithmetic
      <4> QED BY <3>3, <4>2, <4>3
    <3>4. CASE ~Generates
      <4>1. HandedOver <= version
        BY <1>0 DEF HandedOver
      <4> QED BY <1>0, <3>4, <4>1 DEF DropInv
    <3> QED BY <3>3, <3>4
  <2> QED BY <1>7, <2>4, <2>5, <2>6, <2>7 DEF Trainer
<1>8. CASE Finish
  <2>1. /\ tpc = "over" /\ tpc' = "finished" /\ UNCHANGED <<failed, version, ended, pc>>
        /\ lost' = lost \cup (Elements(queue) \ {End}) /\ ended
    BY <1>8 DEF Finish, rollouter, EndInv
  <2> SUFFICES ASSUME failed = {} PROVE DropInv'
    BY <2>1 DEF DropInv
  <2>2. lost' = lost
    BY <2>1 DEF OrderInv, Elements
  <2>3. ~Generates /\ ~Generates' /\ HandedOver' = HandedOver
    BY <2>1 DEF Counts, Generates, HandedOver
  <2> QED BY <2>1, <2>2, <2>3 DEF DropInv
<1>9. CASE Terminated \/ UNCHANGED vars
  BY <1>9, <1>a DEF Terminated, vars, rollouter, messages, trainer
<1> QED BY <1>1, <1>2, <1>3, <1>4, <1>5, <1>6, <1>7, <1>8, <1>9 DEF Next

-----------------------------------------------------------------------------
(* The theorems. *)

\* The inductive invariant of what becomes of the samples.
DeliveryInv == SampleInv /\ EndInv /\ OrderInv /\ SaveInv /\ DropInv

\* The whole inductive invariant: the counts and places of PipelineInv, and where
\* the samples, the end signal, the checkpoints and the dropped samples are.
THEOREM DeliveryInvariant == Spec => [](PipelineInv /\ DeliveryInv)
<1>1. ASSUME Init PROVE DeliveryInv
  <2>0. /\ queue = <<>> /\ batch = <<>> /\ Elements(queue) = {} /\ Elements(batch) = {}
        /\ Hand = {} /\ Generates /\ ~Late /\ tpc = "collect" /\ ~ended
    BY <1>1 DEF Init, Elements, Hand, Generates, Late
  <2>1. SampleInv
    <3>1. \A s \in Samples : ~(s <= taken)
      BY <1>1, Sizes DEF Init, Samples
    <3> QED BY <1>1, <2>0, <3>1 DEF Init, SampleInv, InOnePlace, NoRepeat
  <2>2. EndInv /\ OrderInv
    BY <1>1, <2>0 DEF Init, EndInv, OrderInv, Generates
  <2>3. SaveInv
    <3>1. Cardinality(trained) = 0 /\ Cardinality(trained \ saved) = 0
      BY <1>1, FS_EmptySet DEF Init
    <3>2. 0 * Required = 0 /\ local - 1 = 0
      BY <1>1, Sizes DEF Init
    <3> QED BY <1>1, <3>1, <3>2 DEF Init, SaveInv
  <2>4. DropInv
    <3>1. Cardinality(lost) = 0 /\ HandedOver = 0
      BY <1>1, FS_EmptySet DEF Init, HandedOver
    <3> QED BY <2>0, <3>1 DEF DropInv
  <2> QED BY <2>1, <2>2, <2>3, <2>4 DEF DeliveryInv
<1>2. PipelineInv /\ PipelineInv' /\ DeliveryInv /\ [Next]_vars => DeliveryInv'
  BY SampleStep, EndStep, OrderStep, SaveStep, DropStep DEF PipelineInv, DeliveryInv
<1> QED BY <1>1, <1>2, PipelineInvariant, PTL DEF Spec

\* No coroutine loses a sample without a trace or delivers it twice: a sample the
\* processor took is in one place, and only a full queue, the final clear, a
\* processor that raised and a generation that raised take one out of the way
\* to the weights.
THEOREM SamplesAccounted == Spec => []EverySampleAccounted
<1>1. ASSUME TypeOK, SampleInv PROVE EverySampleAccounted
  <2> DEFINE Q == Elements(queue) \ {End}
             places == <<Hand, generating, Q, Elements(batch), trained, lost, failed>>
  <2>1. /\ taken \in Nat /\ Hand \subseteq Samples /\ generating \subseteq Samples
        /\ Q \subseteq Samples /\ Elements(batch) \subseteq Samples /\ trained \subseteq Samples
        /\ lost \subseteq Samples /\ failed \subseteq Samples
    BY <1>1, Sizes DEF TypeOK, SampleInv, Elements
  <2>2. InOnePlace(Hand, generating, Q, Elements(batch), trained, lost, failed, taken)
    BY <1>1, NotASample DEF SampleInv, InOnePlace
  <2>3. Elements(places) = {Hand, generating, Q, Elements(batch), trained, lost, failed}
    <3>1. DOMAIN places = 1..7
      OBVIOUS
    <3>2. 1..7 = {1, 2, 3, 4, 5, 6, 7}
      OBVIOUS
    <3> HIDE DEF Q
    <3> QED BY <3>1, <3>2 DEF Elements
  <2>4. 1..taken \cap Samples = {s \in Samples : s <= taken}
    BY <2>1 DEF Samples
  <2>5. UNION Elements(places) = 1..taken \cap Samples
    <3> HIDE DEF Q, places
    <3> QED BY <2>1, <2>2, <2>3, <2>4 DEF InOnePlace
  <2>6. \A i, k \in 1..7 : i < k => places[i] \cap places[k] = {}
    <3>1. /\ \A i \in 2..7 : Hand \cap places[i] = {}
          /\ \A i \in 3..7 : generating \cap places[i] = {}
          /\ \A i \in 4..7 : Q \cap places[i] = {}
          /\ \A i \in 5..7 : Elements(batch) \cap places[i] = {}
          /\ \A i \in 6..7 : trained \cap places[i] = {}
          /\ lost \cap failed = {}
      <4> HIDE DEF Q
      <4> QED BY <2>1, <2>2 DEF InOnePlace
    <3> HIDE DEF Q
    <3> QED BY <3>1
  <2>7. DOMAIN places = 1..7
    OBVIOUS
  <2> QED BY <2>5, <2>6, <2>7 DEF EverySampleAccounted
<1>2. PipelineInv /\ DeliveryInv => EverySampleAccounted
  BY <1>1 DEF PipelineInv, DeliveryInv
<1> QED BY <1>2, DeliveryInvariant, PTL

\* The end signal does not overtake a sample, unless a generation raised.
THEOREM EndComesLast == Spec => []EndIsLast
<1>1. ASSUME PipelineInv, DeliveryInv PROVE EndIsLast
  <2> SUFFICES ASSUME failed = {}, ended \/ End \in Elements(queue)
               PROVE  generating = {} /\ taken = Total + 1
    BY DEF EndIsLast
  <2>1. pc \in {"closed", "over"}
    BY <1>1 DEF PipelineInv, Counts, Generates
  <2> QED BY <1>1, <2>1 DEF PipelineInv, DeliveryInv, Tasks, OrderInv
<1> QED BY <1>1, DeliveryInvariant, PTL

\* Where the samples are when the trainer has ended and no generation raised.
LEMMA AtTheEnd ==
  ASSUME PipelineInv, DeliveryInv, tpc \in {"over", "finished"}, failed = {}
  PROVE  /\ Cardinality(trained) \in Nat /\ Cardinality(lost) \in Nat /\ Len(batch) \in Nat
         /\ Len(batch) < Required
         /\ Total = Cardinality(trained) + Cardinality(lost) + Len(batch)
<1> DEFINE B == Elements(batch)
<1>1. ended /\ pc \in {"closed", "over"} /\ Len(batch) < Required
  BY DEF PipelineInv, Counts, Generates, DeliveryInv, EndInv
<1>2. /\ taken = Total + 1 /\ generating = {} /\ Elements(queue) = {} /\ Hand = {}
  BY <1>1 DEF PipelineInv, DeliveryInv, OrderInv, Tasks, Hand, Elements
<1>3. /\ trained \subseteq Samples /\ lost \subseteq Samples /\ batch \in Seq(Samples)
      /\ NoRepeat(batch)
  BY DEF PipelineInv, TypeOK, DeliveryInv, SampleInv
<1>4. B \subseteq Samples /\ Cardinality(B) = Len(batch) /\ Len(batch) \in Nat
  <2>1. B \subseteq Samples /\ Len(batch) \in Nat
    BY <1>3 DEF Elements
  <2> QED BY <1>3, <2>1, ElementsCounted
<1>5. \A s \in Samples : s <= taken
  BY <1>2, Sizes DEF Samples
<1>6. InOnePlace({}, {}, {}, B, trained, lost, {}, taken)
  BY <1>2 DEF DeliveryInv, SampleInv
<1> HIDE DEF B
<1>7. /\ Samples = B \cup (trained \cup lost)
      /\ trained \cap lost = {} /\ B \cap (trained \cup lost) = {}
  BY <1>3, <1>4, <1>5, <1>6 DEF InOnePlace
<1>8. /\ IsFiniteSet(B) /\ IsFiniteSet(trained) /\ IsFiniteSet(lost)
      /\ Cardinality(B) \in Nat /\ Cardinality(trained) \in Nat /\ Cardinality(lost) \in Nat
  BY <1>3, <1>4, SamplesFinite
<1>9. /\ IsFiniteSet(trained \cup lost)
      /\ Cardinality(trained \cup lost) = Cardinality(trained) + Cardinality(lost)
  <2>1. /\ IsFiniteSet(trained \cup lost)
        /\ Cardinality(trained \cup lost)
             = Cardinality(trained) + Cardinality(lost) - Cardinality(trained \cap lost)
    BY <1>8, FS_Union
  <2>2. Cardinality(trained \cap lost) = 0
    BY <1>7, FS_EmptySet
  <2> QED BY <1>8, <2>1, <2>2
<1>10. Cardinality(Samples) = Cardinality(B) + Cardinality(trained \cup lost)
  <2>1. Cardinality(B \cup (trained \cup lost))
          = Cardinality(B) + Cardinality(trained \cup lost)
              - Cardinality(B \cap (trained \cup lost))
    BY <1>8, <1>9, FS_Union
  <2>2. Cardinality(B \cap (trained \cup lost)) = 0
    BY <1>7, FS_EmptySet
  <2> QED BY <1>7, <1>8, <1>9, <2>1, <2>2
<1>11. Cardinality(Samples) = Total
  BY FS_Interval, Sizes DEF Samples
<1> QED BY <1>1, <1>4, <1>8, <1>9, <1>10, <1>11

\* Every sample that was not dropped is trained, but for an incomplete last batch.
THEOREM AllAreTrained == Spec => []AllTrained
<1>1. ASSUME PipelineInv, DeliveryInv, tpc \in {"over", "finished"}, failed = {}
      PROVE  Cardinality(trained) = ((Total - Cardinality(lost)) \div Required) * Required
  <2>1. PICK k \in Nat : Cardinality(trained) = k * Required
    BY <1>1 DEF DeliveryInv, SaveInv
  <2>2. /\ Cardinality(lost) \in Nat /\ Len(batch) \in 0..(Required - 1) /\ k * Required \in Nat
        /\ Total - Cardinality(lost) = k * Required + Len(batch)
    BY <1>1, <2>1, AtTheEnd, Products, Sizes
  <2>3. \A r \in 0..(Required - 1) : (k * Required + r) \div Required = k
    BY Sizes
  <2>4. (Total - Cardinality(lost)) \div Required = k
    BY <2>2, <2>3
  <2> QED BY <2>1, <2>4
<1>2. PipelineInv /\ DeliveryInv => AllTrained
  BY <1>1 DEF AllTrained
<1> QED BY <1>2, DeliveryInvariant, PTL

\* When the trainer has ended, the last version is on disk, whatever the positive
\* save_freq is; without a positive one, as by default, nothing is.
THEOREM LastVersionIsSaved == Spec => []LastVersionSaved
<1>1. ASSUME PipelineInv, DeliveryInv, SaveFreq > 0, tpc \in {"over", "finished"}
      PROVE  /\ ckpt = version /\ saved \subseteq trained
             /\ Cardinality(trained \ saved) < Required * SyncStep
  <2>1. /\ ckpt = version /\ saved \subseteq trained
        /\ Cardinality(trained \ saved) <= (local - 1) * Required
    BY <1>1 DEF DeliveryInv, SaveInv
  <2>2. /\ local - 1 \in Nat /\ local - 1 <= SyncStep - 1 /\ SyncStep - 1 \in Nat
        /\ (SyncStep - 1) + 1 = SyncStep
    BY <1>1, Sizes DEF PipelineInv, TypeOK
  <2>3. (local - 1) * Required <= (SyncStep - 1) * Required
    BY <2>2, Sizes
  <2>4. (SyncStep - 1) * Required + Required = SyncStep * Required
    BY <2>2, Products
  <2>5. SyncStep * Required = Required * SyncStep
    BY Sizes
  <2>6. Cardinality(trained \ saved) \in Nat
    <3>1. trained \ saved \subseteq Samples
      BY <1>1 DEF PipelineInv, TypeOK
    <3> QED BY <3>1, SamplesFinite
  <2>7. /\ (local - 1) * Required \in Nat /\ (SyncStep - 1) * Required \in Nat
        /\ Required * SyncStep \in Nat
    BY <2>2, Products
  <2> QED BY <2>1, <2>3, <2>4, <2>5, <2>6, <2>7, Sizes
<1>2. PipelineInv /\ DeliveryInv /\ ~(SaveFreq > 0) => ckpt = 0 /\ saved = {}
  BY DEF DeliveryInv, SaveInv
<1>3. PipelineInv /\ DeliveryInv => LastVersionSaved
  BY <1>1, <1>2 DEF LastVersionSaved
<1> QED BY <1>3, DeliveryInvariant, PTL

\* The queue drops at most one sample for each version and one for the end signal,
\* unless a generation raised: the Rollouter pauses in time.
THEOREM DropsBounded == Spec => []FewDrops
<1>1. ASSUME PipelineInv, DeliveryInv, failed = {}
      PROVE  Cardinality(lost) <= version + 1
  <2>1. lost \subseteq Samples /\ version \in Nat
    BY <1>1 DEF PipelineInv, TypeOK, DeliveryInv, SampleInv
  <2>2. Cardinality(lost) \in Nat
    BY <2>1, SamplesFinite
  <2>3. Cardinality(lost) <= HandedOver + 1
    <3>1. HandedOver \in Int
      BY <2>1 DEF HandedOver
    <3> QED BY <1>1, <2>2, <3>1 DEF DeliveryInv, DropInv
  <2>4. HandedOver \in Int /\ HandedOver <= version
    BY <2>1 DEF HandedOver
  <2> QED BY <2>1, <2>2, <2>3, <2>4
<1>2. PipelineInv /\ DeliveryInv => FewDrops
  BY <1>1 DEF FewDrops
<1> QED BY <1>2, DeliveryInvariant, PTL

\* If no generation raised, the samples the training ends without are fewer than
\* one batch and, for each version and for the end signal, one.
THEOREM FewUntrained ==
  Spec => [](tpc \in {"over", "finished"} /\ failed = {}
               => Total <= Cardinality(trained) + version + Required)
<1>1. ASSUME PipelineInv, DeliveryInv, FewDrops, tpc \in {"over", "finished"}, failed = {}
      PROVE  Total <= Cardinality(trained) + version + Required
  <2>1. Cardinality(lost) <= version + 1 /\ version \in Nat
    BY <1>1 DEF FewDrops, PipelineInv, TypeOK
  <2> QED BY <1>1, <2>1, AtTheEnd, Sizes
<1>2. PipelineInv /\ DeliveryInv /\ FewDrops =>
        (tpc \in {"over", "finished"} /\ failed = {}
           => Total <= Cardinality(trained) + version + Required)
  BY <1>1
<1> QED BY <1>2, DeliveryInvariant, DropsBounded, PTL

-----------------------------------------------------------------------------
(* No deadlock. *)

\* The processor has not seen the end of the samples.
Takes == pc \notin {"end", "ending", "stopped", "closed", "over"}

\* What keeps the coroutines from waiting for each other: the lock is held over
\* a wait for tasks only while there are some, only the processor that drains
\* is paused, and the end signal stays in the queue until the trainer sees it.
WaitInv ==
  /\ pc \in {"full", "ending"} => active # {}
  /\ paused => pc \in {"drain", "stopped", "closed", "over"}
  /\ Takes => taken <= Total
  /\ ~Generates => ended \/ End \in Elements(queue)

\* Unless a sample was dropped or a task raised, staleness_samples exceeds what
\* is in flight or consumed at most by the tasks that are done and not yet
\* reaped; and a queue that drops a sample has enough for a version.
FlowInv ==
  Takes /\ active \cap failed = {} =>
    \/ staleness <= InFlight + Consumed + MaxConcurrent
    \/ InFlight + Consumed >= MaxRequired

LEMMA WaitStep ==
  TypeOK /\ TypeOK' /\ Counts /\ SampleInv /\ EndInv /\ WaitInv /\ [Next]_vars => WaitInv'
<1> SUFFICES ASSUME TypeOK, TypeOK', Counts, SampleInv, EndInv, WaitInv, [Next]_vars
             PROVE  WaitInv'
  OBVIOUS
<1>0. taken \in Nat /\ queue \in Seq(Samples \cup {End}) /\ NoRepeat(queue)
  BY Sizes DEF TypeOK, SampleInv
<1>a. ASSUME UNCHANGED <<pc, active, paused, taken, ended, queue>> PROVE WaitInv'
  BY <1>a DEF WaitInv, Takes, Generates
<1>r. ASSUME NEW next \in {"drain", "submit", "end"}, Reap(next), Generates,
             paused => pc = "drain" /\ next = "drain",
             next # "end" => Takes
      PROVE  WaitInv'
  <2>1. /\ pc' \in {next, "stopped"} /\ UNCHANGED <<taken, paused>>
    BY <1>r DEF Reap
  <2> QED BY <1>r, <2>1 DEF WaitInv, Takes, Generates
<1>1. CASE Feed
  BY <1>1, <1>a DEF Feed, messages, trainer
<1>2. CASE Processor
  <2>1. CASE AskQueueSize \/ JudgeStaleness \/ Pause \/ Resume
    BY <2>1 DEF AskQueueSize, JudgeStaleness, Pause, Resume, WaitInv, Takes, Generates
  <2>2. CASE ReapWhilePaused \/ ReapForRoom \/ ReapAtEnd
    BY <2>2, <1>r DEF ReapWhilePaused, ReapForRoom, ReapAtEnd, WaitInv, Takes, Generates
  <2>3. CASE TakeItem
    BY <1>0, <2>3, Sizes DEF TakeItem, WaitInv, Takes, Generates, TypeOK
  <2>4. CASE WaitForRoom
    <3>1. active # {}
      <4>1. Cardinality(active) >= MaxConcurrent
        BY <2>4 DEF WaitForRoom
      <4> QED BY <4>1, Sizes, FS_EmptySet
    <3> QED BY <2>4, <3>1 DEF WaitForRoom, WaitInv, Takes, Generates
  <2>5. CASE Submit
    BY <2>5 DEF Submit, WaitInv, Takes, Generates
  <2>6. CASE AwaitTasks
    BY <2>6 DEF AwaitTasks, WaitInv, Takes, Generates
  <2> QED BY <1>2, <2>1, <2>2, <2>3, <2>4, <2>5, <2>6 DEF Processor
<1>3. ASSUME NEW s \in Samples, PutSample(s) PROVE WaitInv'
  <2>1. /\ s \in generating /\ Enqueue(s) /\ s # End
        /\ UNCHANGED <<pc, active, paused, taken, ended>> /\ s \notin Elements(queue)
    BY <1>3, NotASample DEF PutSample, trainer, SampleInv, InOnePlace
  <2>2. End \in Elements(queue) => End \in Elements(queue')
    <3>1. lost \subseteq Samples
      BY DEF SampleInv
    <3>2. \/ Elements(queue') = Elements(queue) \cup {s}
          \/ \E d \in Elements(queue) \cap Samples :
               Elements(queue') = (Elements(queue) \ {d}) \cup {s}
      BY <1>0, <2>1, <3>1, EnqueueSamples
    <3> QED BY <3>2, NotASample
  <2> QED BY <2>1, <2>2 DEF WaitInv, Takes, Generates
<1>4. ASSUME NEW s \in Samples, Raise(s) PROVE WaitInv'
  BY <1>4, <1>a DEF Raise, messages, trainer
<1>5. CASE SendEnd
  <2>1. /\ pc = "stopped" /\ pc' = "closed" /\ Enqueue(End) /\ UNCHANGED <<paused, ended>>
    BY <1>5 DEF SendEnd, trainer
  <2>2. End \in Elements(queue')
    <3>1. End \notin Elements(queue)
      BY <2>1 DEF Counts, Generates
    <3> QED BY <1>0, <2>1, <3>1, EnqueueKeeps
  <2> QED BY <2>1, <2>2 DEF WaitInv, Takes, Generates
<1>6. CASE StopRunning
  BY <1>6 DEF StopRunning, WaitInv, Takes, Generates, messages, trainer
<1>7. CASE MonitorAsks \/ MonitorJudges \/ MonitorResumes
  BY <1>7 DEF MonitorAsks, MonitorJudges, MonitorResumes, MonitorUnchanged, WaitInv, Takes,
              Generates, messages, trainer
<1>8. CASE Trainer
  <2>1. CASE GetSample
    <3>1. /\ queue # <<>> /\ queue' = Tail(queue) /\ UNCHANGED <<pc, active, paused, taken>>
          /\ IF Head(queue) = End THEN ended' = TRUE ELSE ended' = ended
      BY <2>1 DEF GetSample, rollouter
    <3>2. Elements(queue) = Elements(queue') \cup {Head(queue)}
      BY <1>0, <3>1, RestOfSequence
    <3> QED BY <3>1, <3>2 DEF WaitInv, Takes, Generates
  <2>2. CASE Train \/ FinalSave
    BY <2>2, <1>a DEF Train, FinalSave, rollouter, messages
  <2>3. CASE ResetStaleness
    BY <2>3 DEF ResetStaleness, WaitInv, Takes, Generates, messages
  <2>4. CASE AssignStaleness
    BY <2>4, <1>a DEF AssignStaleness, messages
  <2> QED BY <1>8, <2>1, <2>2, <2>3, <2>4 DEF Trainer
<1>9. CASE Finish
  BY <1>9 DEF Finish, EndInv, WaitInv, Takes, Generates, rollouter
<1>10. CASE Terminated \/ UNCHANGED vars
  BY <1>10, <1>a DEF Terminated, vars, rollouter, messages, trainer
<1> QED BY <1>1, <1>2, <1>3, <1>4, <1>5, <1>6, <1>7, <1>8, <1>9, <1>10 DEF Next

\* A step that keeps the count and loses nothing of what is in flight.
LEMMA FlowKept ==
  ASSUME TypeOK, TypeOK', FlowInv, UNCHANGED staleness, Takes' => Takes,
         InFlight' + Consumed' = InFlight + Consumed,
         Takes' /\ active' \cap failed' = {} => active \cap failed = {}
  PROVE  FlowInv'
<1>1. /\ InFlight \in Nat /\ Consumed \in Nat /\ InFlight' \in Nat /\ Consumed' \in Nat
      /\ staleness \in Nat
  BY InFlightType, ConsumedType, NextTypes DEF TypeOK
<1> SUFFICES ASSUME Takes', active' \cap failed' = {}
             PROVE  \/ staleness' <= InFlight' + Consumed' + MaxConcurrent
                    \/ InFlight' + Consumed' >= MaxRequired
  BY DEF FlowInv
<1>2. \/ staleness <= InFlight + Consumed + MaxConcurrent
      \/ InFlight + Consumed >= MaxRequired
  BY DEF FlowInv
<1> QED BY <1>1, <1>2

\* Steps of the processor, a task or the monitor that leave the trainer alone.
LEMMA FlightKept ==
  ASSUME TypeOK, TypeOK', FlowInv, UNCHANGED <<staleness, tpc, local, batch>>,
         Takes' => Takes,
         HandSize' + Cardinality(generating') + Len(queue')
           = HandSize + Cardinality(generating) + Len(queue),
         Takes' /\ active' \cap failed' = {} => active \cap failed = {}
  PROVE  FlowInv'
<1>1. Consumed' = Consumed
  BY DEF Consumed
<1>2. InFlight' = InFlight
  BY HandCardinality DEF InFlight
<1>3. InFlight' + Consumed' = InFlight + Consumed
  BY <1>1, <1>2
<1> QED BY <1>3, FlowKept

\* Once the end has been taken there is nothing to show.
LEMMA FlowEnds == ~Takes' => FlowInv'
BY DEF FlowInv

\* The samples of a full batch stay consumed when it is trained.
LEMMA TrainerFlow ==
  TypeOK /\ TypeOK' /\ Tasks /\ Batches /\ Counts /\ EndInv /\ FlowInv /\ Trainer => FlowInv'
<1> SUFFICES ASSUME TypeOK, TypeOK', Tasks, Batches, Counts, EndInv, FlowInv, Trainer, Takes'
             PROVE  FlowInv'
  BY FlowEnds
<1>0. /\ HandSize \in Nat /\ Cardinality(generating) \in Nat /\ Len(queue) \in Nat
      /\ InFlight \in Nat /\ Consumed \in Nat /\ InFlight' \in Nat /\ Consumed' \in Nat
      /\ batch \in Seq(Samples) /\ local \in Nat /\ local - 1 \in Nat /\ local <= SyncStep
  <2>1. batch \in Seq(Samples) /\ local \in Nat /\ local - 1 \in Nat /\ local <= SyncStep
    BY Sizes DEF TypeOK
  <2> QED BY <2>1, InFlightType, ConsumedType, NextTypes
<1>1. UNCHANGED <<pc, taken, active, generating, failed>>
  BY DEF Trainer, GetSample, Train, ResetStaleness, AssignStaleness, FinalSave, rollouter
<1>2. Takes /\ ~ended /\ Generates
  BY <1>1 DEF Takes, Generates, Counts
<1>3. HandSize' = HandSize /\ Hand' = Hand
  BY <1>1 DEF HandSize, Hand
<1>a. ASSUME InFlight' + Consumed' = InFlight + Consumed, UNCHANGED staleness
      PROVE  FlowInv'
  BY <1>1, <1>2, <1>a, FlowKept
<1>4. CASE GetSample
  <2>1. /\ tpc = "collect" /\ queue # <<>> /\ queue' = Tail(queue)
        /\ UNCHANGED <<local, staleness>>
    BY <1>4 DEF GetSample, rollouter
  <2>2. Head(queue) # End
    BY <1>2, <2>1, HeadAndRest DEF Counts
  <2>3. batch' = Append(batch, Head(queue)) /\ tpc' \in {"train", "collect"}
    BY <1>4, <2>2 DEF GetSample
  <2>4. InFlight' = InFlight - 1
    BY <1>0, <1>1, <1>3, <2>1, HeadAndRest, HandCardinality DEF InFlight
  <2>5. Consumed' = Consumed + 1
    <3>1. Len(batch') = Len(batch) + 1
      BY <1>0, <2>3
    <3>2. (local - 1) * Required \in Nat
      BY <1>0, Products
    <3>3. /\ Consumed = (local - 1) * Required + Len(batch)
          /\ Consumed' = (local - 1) * Required + (Len(batch) + 1)
      BY <2>1, <2>3, <3>1 DEF Consumed
    <3>4. \A p, l \in Nat : p + (l + 1) = p + l + 1
      OBVIOUS
    <3>5. Len(batch) \in Nat
      BY <1>0
    <3> QED BY <3>2, <3>3, <3>4, <3>5
  <2>6. InFlight' + Consumed' = InFlight + Consumed
    BY <1>0, <2>4, <2>5
  <2> QED BY <1>a, <2>1, <2>6
<1>5. CASE Train
  <2>1. /\ tpc = "train" /\ batch' = <<>> /\ Len(batch) = Required
        /\ UNCHANGED <<queue, staleness>>
    BY <1>5 DEF Train, rollouter, messages, Batches
  <2>2. InFlight' = InFlight
    BY <1>1, <1>3, <2>1 DEF InFlight
  <2>3. Consumed = local * Required
    <3>1. (local - 1) * Required + Required = ((local - 1) + 1) * Required
      BY <1>0, Products
    <3>2. (local - 1) + 1 = local
      BY <1>0
    <3> QED BY <2>1, <3>1, <3>2 DEF Consumed
  <2>4. Consumed' = local * Required
    <3>1. CASE local < SyncStep
      <4>1. local' - 1 = local /\ tpc' = "collect" /\ Len(batch') = 0
        BY <1>0, <1>5, <2>1, <3>1 DEF Train
      <4>2. local * Required \in Nat
        BY <1>0, Products
      <4> QED BY <4>1, <4>2 DEF Consumed
    <3>2. CASE ~(local < SyncStep)
      <4>1. local = SyncStep /\ tpc' = "sync"
        BY <1>0, <1>5, <3>2, Sizes DEF Train
      <4>2. SyncStep * Required = Required * SyncStep
        BY Sizes
      <4> QED BY <4>1, <4>2 DEF Consumed
    <3> QED BY <3>1, <3>2
  <2>5. InFlight' + Consumed' = InFlight + Consumed
    BY <2>2, <2>3, <2>4
  <2> QED BY <1>a, <2>1, <2>5
<1>6. CASE ResetStaleness
  <2>1. UNCHANGED <<staleness, queue, local, batch>> /\ tpc = "sync" /\ tpc' = "resetting"
    BY <1>6 DEF ResetStaleness, messages
  <2>2. InFlight' = InFlight /\ Consumed' = Consumed
    BY <1>1, <1>3, <2>1 DEF InFlight, Consumed
  <2>3. InFlight' + Consumed' = InFlight + Consumed
    BY <2>2
  <2> QED BY <1>a, <2>1, <2>3
<1>7. CASE AssignStaleness
  <2>1. /\ tpc = "resetting" /\ staleness' = counted + Len(queue)
        /\ UNCHANGED queue
    BY <1>7 DEF AssignStaleness, messages
  <2>2. InFlight' = InFlight
    BY <1>1, <1>3, <2>1 DEF InFlight
  <2>3. Len(queue) <= InFlight
    BY <1>0, InFlightType
  <2>4. counted <= MaxConcurrent /\ counted \in Nat
    BY DEF Tasks, TypeOK
  <2>5. staleness' <= InFlight' + Consumed' + MaxConcurrent
    BY <1>0, <2>1, <2>2, <2>3, <2>4, Sizes
  <2> QED BY <2>5 DEF FlowInv
<1>8. CASE FinalSave
  BY <1>2, <1>8 DEF FinalSave, EndInv
<1> QED BY <1>4, <1>5, <1>6, <1>7, <1>8 DEF Trainer

LEMMA FlowStep ==
  PipelineInv /\ TypeOK' /\ SampleInv /\ EndInv /\ FlowInv /\ [Next]_vars => FlowInv'
<1> SUFFICES ASSUME TypeOK, TypeOK', Tasks, Batches, Counts, SampleInv, EndInv, FlowInv,
                    [Next]_vars, Takes'
             PROVE  FlowInv'
  BY FlowEnds DEF PipelineInv
<1>0. /\ HandSize \in Nat /\ Cardinality(generating) \in Nat /\ Len(queue) \in Nat
      /\ InFlight \in Nat /\ Consumed \in Nat /\ InFlight' \in Nat /\ Consumed' \in Nat
      /\ staleness \in Nat
  BY InFlightType, ConsumedType, NextTypes DEF TypeOK
<1>a. ASSUME UNCHANGED <<pc, active, generating, failed, staleness, queue, tpc, local, batch>>
      PROVE  FlowInv'
  BY <1>a, FlightKept DEF HandSize, Takes
<1>b. ASSUME ProcessorUnchanged, UNCHANGED <<active, staleness>>, HandSize' = HandSize, Takes
      PROVE  FlowInv'
  <2>1. UNCHANGED <<generating, failed, queue, tpc, local, batch>>
    BY <1>b DEF ProcessorUnchanged, trainer
  <2> QED BY <1>b, <2>1, FlightKept
<1>r. ASSUME NEW next \in {"drain", "submit"}, Reap(next), Takes,
             next = "submit" <=> pc = "full", pc # "submit"
      PROVE  FlowInv'
  <2> PICK done \in (SUBSET Finished) \ {{}} :
             /\ active' = active \ done
             /\ IF done \cap failed # {} THEN pc' = "stopped" ELSE pc' = next
    BY <1>r DEF Reap
  <2>1. UNCHANGED <<generating, failed, queue, tpc, local, batch, staleness>>
    BY <1>r DEF Reap, ProcessorUnchanged, trainer
  <2>2. done \cap failed = {} /\ pc' = next
    BY DEF Takes
  <2>3. HandSize' = HandSize
    BY <1>r, <2>2 DEF HandSize
  <2>4. active' \cap failed' = {} => active \cap failed = {}
    BY <2>1, <2>2
  <2> QED BY <1>r, <2>1, <2>3, <2>4, FlightKept
<1>1. CASE Feed
  BY <1>1, <1>a DEF Feed, messages, trainer
<1>2. CASE Processor
  <2>1. CASE AskQueueSize \/ JudgeStaleness \/ Pause \/ Resume \/ WaitForRoom
    BY <2>1, <1>b DEF AskQueueSize, JudgeStaleness, Pause, Resume, WaitForRoom, HandSize, Takes
  <2>2. CASE ReapWhilePaused \/ ReapForRoom
    BY <2>2, <1>r DEF ReapWhilePaused, ReapForRoom, Takes
  <2>3. CASE TakeItem
    <3>1. /\ pc = "get" /\ pc' = "submit" /\ staleness' = staleness + 1
          /\ UNCHANGED <<active, generating, failed, queue, tpc, local, batch>>
      BY <2>3 DEF TakeItem, ProcessorUnchanged, trainer, Takes
    <3>2. HandSize = 0 /\ HandSize' = 1 /\ Consumed' = Consumed
      BY <3>1 DEF HandSize, Consumed
    <3>3. InFlight' = InFlight + 1
      BY <1>0, <3>1, <3>2, HandCardinality DEF InFlight
    <3>4. \/ active \cap failed # {}
          \/ staleness <= InFlight + Consumed + MaxConcurrent
          \/ InFlight + Consumed >= MaxRequired
      BY <3>1 DEF FlowInv, Takes
    <3> QED BY <1>0, <3>1, <3>2, <3>3, <3>4, Sizes DEF FlowInv
  <2>4. CASE Submit
    <3>1. /\ pc = "submit" /\ pc' = "check" /\ generating' = generating \cup {taken}
          /\ active' = active \cup {taken}
          /\ UNCHANGED <<staleness, failed, queue, tpc, local, batch>>
      BY <2>4 DEF Submit, messages, trainer
    <3>2. taken \in Samples /\ taken \notin generating
      BY <3>1 DEF TypeOK, Hand, SampleInv, InOnePlace
    <3>3. Cardinality(generating') = Cardinality(generating) + 1
      BY <3>1, <3>2, SamplesFinite, FS_AddElement DEF TypeOK
    <3>4. HandSize = 1 /\ HandSize' = 0
      BY <3>1 DEF HandSize
    <3>5. HandSize' + Cardinality(generating') + Len(queue')
            = HandSize + Cardinality(generating) + Len(queue)
      BY <1>0, <3>1, <3>3, <3>4
    <3>6. active' \cap failed' = {} => active \cap failed = {}
      BY <3>1
    <3> QED BY <3>1, <3>5, <3>6, FlightKept DEF Takes
  <2>5. CASE AwaitTasks \/ ReapAtEnd
    BY <2>5 DEF AwaitTasks, ReapAtEnd, Reap, Takes
  <2> QED BY <1>2, <2>1, <2>2, <2>3, <2>4, <2>5 DEF Processor
<1>3. ASSUME NEW s \in Samples, PutSample(s) PROVE FlowInv'
  <2>1. /\ s \in generating /\ generating' = generating \ {s} /\ Enqueue(s)
        /\ UNCHANGED <<pc, active, failed, staleness, tpc, local, batch>>
        /\ s \notin Elements(queue) /\ NoRepeat(queue)
    BY <1>3 DEF PutSample, trainer, SampleInv, InOnePlace
  <2>2. Cardinality(generating') = Cardinality(generating) - 1
    BY <2>1, TaskEnds
  <2>3. HandSize' = HandSize
    BY <2>1 DEF HandSize
  <2>4. CASE Len(queue') = Len(queue) + 1
    <3>1. HandSize' + Cardinality(generating') + Len(queue')
            = HandSize + Cardinality(generating) + Len(queue)
      BY <1>0, <2>2, <2>3, <2>4
    <3> QED BY <2>1, <3>1, FlightKept DEF Takes
  <2>5. CASE Len(queue') = Len(queue) /\ Len(queue) >= MaxRequired
    <3>1. InFlight' >= Len(queue')
      <4>1. Cardinality(generating') \in Nat /\ Len(queue') \in Nat
        BY <1>0, <2>5, SamplesFinite DEF TypeOK
      <4> QED BY <1>0, <2>3, <4>1, HandCardinality DEF InFlight
    <3>2. InFlight' + Consumed' >= MaxRequired
      <4>1. \A f, c, n, m \in Nat : f >= n /\ n >= m => f + c >= m
        OBVIOUS
      <4>2. Len(queue') \in Nat /\ Len(queue') >= MaxRequired
        BY <1>0, <2>5
      <4> QED BY <1>0, <3>1, <4>1, <4>2, Sizes
    <3> QED BY <3>2 DEF FlowInv
  <2> QED BY <2>1, <2>4, <2>5, EnqueueKeeps
<1>4. ASSUME NEW s \in Samples, Raise(s) PROVE FlowInv'
  <2>1. s \in active' /\ s \in failed'
    BY <1>4 DEF Raise, Tasks
  <2> QED BY <2>1 DEF FlowInv
<1>5. CASE SendEnd \/ StopRunning
  BY <1>5 DEF SendEnd, StopRunning, Takes
<1>6. CASE MonitorAsks \/ MonitorJudges \/ MonitorResumes
  BY <1>6, <1>a DEF MonitorAsks, MonitorJudges, MonitorResumes, MonitorUnchanged, messages,
                    trainer
<1>7. CASE Trainer
  BY <1>7, TrainerFlow
<1>8. CASE Finish
  BY <1>8 DEF Finish, Takes, rollouter
<1>9. CASE Terminated \/ UNCHANGED vars
  BY <1>9, <1>a DEF Terminated, vars, rollouter, messages, trainer
<1> QED BY <1>1, <1>2, <1>3, <1>4, <1>5, <1>6, <1>7, <1>8, <1>9 DEF Next

\* What each coroutine waits for, read from the guards of its actions; the
\* monitor goes on when asking again would make it resume.
FeederGoes ==
  pc \notin {"closed", "over"} /\ fed <= Total /\ fed - taken < PendingSize

ProcessorGoes ==
  \/ pc \in {"check", "asked", "stopped"}
  \/ pc \in {"pause", "closed"} /\ LockFree
  \/ pc = "drain" /\ (~paused \/ (LockFree /\ Finished # {}))
  \/ pc = "get" /\ taken < fed
  \/ pc = "submit" /\ LockFree /\ (Cardinality(active) >= MaxConcurrent \/ ~paused)
  \/ pc \in {"full", "ending"} /\ Finished # {}
  \/ pc = "end" /\ (active = {} \/ LockFree)

MonitorGoes ==
  \/ /\ mon = "sleep" /\ pc # "over" /\ paused
     /\ Len(queue) < MaxRequired /\ staleness < MaxRequired
  \/ mon = "asked"
  \/ mon = "resume" /\ LockFree

TrainerGoes ==
  \/ tpc = "collect" /\ queue # <<>>
  \/ tpc \in {"train", "resetting", "save"}
  \/ tpc = "sync" /\ LockFree
  \/ tpc = "over" /\ pc = "over" /\ mon = "sleep"

Goes == FeederGoes \/ ProcessorGoes \/ generating # {} \/ MonitorGoes \/ TrainerGoes

\* When nobody goes on, the processor is paused with no task and nothing in
\* flight, and the trainer waits for the rest of a version.
LEMMA AllWait ==
  ASSUME PipelineInv, DeliveryInv, WaitInv, tpc # "finished", ~Goes
  PROVE  /\ pc = "drain" /\ paused /\ active = {} /\ generating = {} /\ queue = <<>>
         /\ tpc = "collect" /\ mon = "sleep"
<1>0. TypeOK /\ Counts /\ EndInv
  BY DEF PipelineInv, DeliveryInv
<1>1. generating = {} /\ Finished = active /\ mon # "asked"
  BY DEF Goes, MonitorGoes, Finished
<1>2. pc \notin {"full", "ending"} /\ tpc \notin {"train", "resetting", "save"}
  BY <1>1 DEF Goes, ProcessorGoes, TrainerGoes, WaitInv
<1>3. LockFree
  BY <1>2 DEF LockFree
<1>4. mon = "sleep" /\ tpc \in {"collect", "over"}
  BY <1>0, <1>1, <1>2, <1>3 DEF Goes, MonitorGoes, TrainerGoes, TypeOK
<1>5. pc \in {"drain", "get", "submit", "over"}
  BY <1>0, <1>2, <1>3 DEF Goes, ProcessorGoes, TypeOK
<1>6. pc # "submit"
  BY <1>3 DEF Goes, ProcessorGoes, WaitInv
<1>7. pc # "get"
  <2> SUFFICES ASSUME pc = "get" PROVE FALSE
    OBVIOUS
  <2>1. taken <= Total /\ ~(taken < fed)
    BY DEF WaitInv, Takes, Goes, ProcessorGoes
  <2>2. fed = taken
    BY <1>0, <2>1, Sizes DEF TypeOK
  <2>3. fed - taken < PendingSize /\ fed <= Total
    BY <1>0, <2>1, <2>2, PipelineAssumption DEF TypeOK
  <2> QED BY <2>3 DEF Goes, FeederGoes
<1>8. tpc = "collect" => queue = <<>>
  BY DEF Goes, TrainerGoes
<1>9. pc # "over"
  <2> SUFFICES ASSUME pc = "over" PROVE FALSE
    OBVIOUS
  <2>1. tpc # "over"
    BY <1>4 DEF Goes, TrainerGoes
  <2>2. queue = <<>> /\ ~ended
    BY <1>0, <1>4, <1>8, <2>1 DEF EndInv
  <2>3. End \in Elements(queue)
    BY <2>2 DEF WaitInv, Generates
  <2> QED BY <2>2, <2>3 DEF Elements
<1>10. pc = "drain" /\ paused /\ active = {}
  BY <1>1, <1>3, <1>5, <1>6, <1>7, <1>9 DEF Goes, ProcessorGoes
<1>11. tpc = "collect"
  BY <1>0, <1>4, <1>10 DEF EndInv, Counts, Generates
<1> QED BY <1>1, <1>4, <1>8, <1>10, <1>11

\* Until both have ended, some coroutine of the Rollouter or the Trainer can go on,
\* whatever fails, or they starve: the Rollouter is paused with nothing in flight,
\* the Trainer waits for samples of its version, and max_required_samples leaves
\* no room beside one version for the tasks that reset_staleness counts twice.
THEOREM TrainingGoesOn == Spec => [](tpc = "finished" \/ Goes \/ Starved)
<1>1. Spec => [](PipelineInv /\ DeliveryInv /\ WaitInv /\ FlowInv)
  <2>1. ASSUME Init PROVE WaitInv /\ FlowInv
    <3>1. WaitInv
      BY <2>1, Sizes DEF Init, WaitInv, Takes, Generates
    <3>2. staleness = 0 /\ InFlight \in Nat /\ Consumed \in Nat
      <4>1. InFlight = 0 /\ Consumed = 0
        BY <2>1, FS_EmptySet, Sizes DEF Init, InFlight, Hand, Consumed
      <4> QED BY <2>1, <4>1 DEF Init
    <3> QED BY <3>1, <3>2, Sizes DEF FlowInv
  <2>2. /\ PipelineInv /\ PipelineInv' /\ DeliveryInv /\ WaitInv /\ FlowInv /\ [Next]_vars
        => WaitInv' /\ FlowInv'
    BY WaitStep, FlowStep DEF PipelineInv, DeliveryInv
  <2> QED BY <2>1, <2>2, DeliveryInvariant, PTL DEF Spec
<1>2. PipelineInv /\ DeliveryInv /\ WaitInv /\ FlowInv => tpc = "finished" \/ Goes \/ Starved
  <2> SUFFICES ASSUME PipelineInv, DeliveryInv, WaitInv, FlowInv, tpc # "finished", ~Goes
               PROVE  Starved
    OBVIOUS
  <2>1. /\ pc = "drain" /\ paused /\ active = {} /\ generating = {} /\ queue = <<>>
        /\ tpc = "collect" /\ mon = "sleep"
    BY AllWait
  <2>2. TypeOK /\ Batches /\ staleness \in Nat
    BY DEF PipelineInv, TypeOK
  <2>3. staleness >= MaxRequired
    BY <2>1, <2>2, Sizes DEF Goes, MonitorGoes
  <2>4. InFlight = 0
    BY <2>1, FS_EmptySet DEF InFlight, Hand
  <2>5. Consumed < Required * SyncStep /\ Consumed \in Nat
    <3>1. Consumed = (local - 1) * Required + Len(batch) /\ Len(batch) < Required
      BY <2>1, <2>2 DEF Consumed, Batches
    <3>2. /\ local - 1 \in Nat /\ local - 1 <= SyncStep - 1 /\ SyncStep - 1 \in Nat
          /\ (SyncStep - 1) + 1 = SyncStep /\ Len(batch) \in Nat
      BY <2>2, Sizes DEF TypeOK
    <3>3. (local - 1) * Required <= (SyncStep - 1) * Required
      BY <3>2, Sizes
    <3>4. (SyncStep - 1) * Required + Required = Required * SyncStep
      BY <3>2, Products, Sizes
    <3>5. (local - 1) * Required \in Nat /\ (SyncStep - 1) * Required \in Nat
      BY <3>2, Products
    <3>6. \A a, b, c, r, p \in Nat : a <= b /\ b + r = p /\ c < r => a + c < p
      OBVIOUS
    <3> QED BY <2>2, <3>1, <3>2, <3>3, <3>4, <3>5, <3>6, Products, Sizes, ConsumedType
  <2>6. \/ staleness <= Consumed + MaxConcurrent
        \/ Consumed >= MaxRequired
    BY <2>1, <2>4, <2>5 DEF FlowInv, Takes
  <2>7. MaxRequired < Required * SyncStep + MaxConcurrent
    <3>1. \A s, c, m, p, n \in Nat :
             s >= n /\ c < p /\ (s <= c + m \/ c >= n) => n < p + m
      OBVIOUS
    <3> QED BY <2>2, <2>3, <2>5, <2>6, <3>1, Products, Sizes
  <2>8. Consumed = (local - 1) * Required + Len(batch)
    BY <2>1, <2>2 DEF Consumed, Batches
  <2> QED BY <2>1, <2>3, <2>5, <2>7, <2>8 DEF Starved
<1> QED BY <1>1, <1>2, PTL

=============================================================================
