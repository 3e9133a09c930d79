------------------------- MODULE CheckpointsProofs -------------------------
(***************************************************************************)
(* What the checkpoints keep for every number of roles, ranks, versions    *)
(* and crashes: their types, that a restart loses no completed save, that  *)
(* the rotation keeps on disk what the managers know, that no prompt is    *)
(* trained twice, and that the tracker names a whole checkpoint but for    *)
(* what a role with a limit of one gives up too early, so that nothing     *)
(* else and no other moment than its own writing stops a restart.          *)
(***************************************************************************)
EXTENDS Checkpoints, SequenceTheorems, TLAPS

Running == pc \notin {"down", "failed"}
Saving == Running /\ pc # "train"

\* A tracker that is not torn names the last completed save.
TrackerInv ==
  /\ tracker = Torn => pc \in {"tracking", "down", "failed"}
  /\ pc = "tracking" => tracker = Torn
  /\ tracker = Torn \/ tracker = IF last = 0 THEN None ELSE last

VersionInv ==
  /\ Running => last <= version
  /\ Saving => last < version

BaseInv == TypeOK /\ TrackerInv /\ VersionInv

-----------------------------------------------------------------------------
(* Rotation. *)

LEMMA RoleType == TypeOK => Role \in RoleSet
BY DEF TypeOK, Role, RoleSet

LEMMA InList ==
  ASSUME NEW list \in Seq(Versions), NEW i \in 1..Len(list)
  PROVE  list[i] \in Versions /\ list[i] \in Int /\ Len(list) \in Nat
<1>1. list[i] \in Versions /\ Len(list) \in Nat
  BY ElementOfSeq
<1>2. \A v \in Versions : v \in Int
  BY DEF Versions
<1> QED BY <1>1, <1>2

LEMMA SurplusRange ==
  ASSUME NEW list \in Seq(Versions), NEW limit \in Int
  PROVE  /\ Surplus(list, limit) \in 0..Len(list) /\ Len(list) \in Nat
         /\ Surplus(list, limit) > 0 =>
              limit > 0 /\ limit < Len(list) /\ Surplus(list, limit) = Len(list) - limit
BY DEF Surplus

\* What stays of a list is its end, in the same order.
LEMMA RestOfList ==
  ASSUME NEW list \in Seq(Versions), NEW limit \in Int
  PROVE  LET s == Surplus(list, limit)
             rest == SubSeq(list, s + 1, Len(list))
         IN  /\ rest \in Seq(Versions)
             /\ Len(rest) = Len(list) - s
             /\ \A i \in 1..Len(rest) : rest[i] = list[i + s] /\ i + s \in 1..Len(list)
<1> DEFINE s == Surplus(list, limit)
<1>1. s \in 0..Len(list) /\ Len(list) \in Nat
  BY SurplusRange
<1> HIDE DEF s
<1>2. \A i \in (s + 1)..Len(list) : list[i] \in Versions
  BY <1>1, ElementOfSeq
<1>3. /\ SubSeq(list, s + 1, Len(list)) \in Seq(Versions)
      /\ Len(SubSeq(list, s + 1, Len(list))) = Len(list) - s
      /\ \A i \in 1..(Len(list) - s) : SubSeq(list, s + 1, Len(list))[i] = list[i + s]
  BY <1>1, <1>2
<1>4. ASSUME NEW i \in 1..(Len(list) - s)
      PROVE  i + s \in 1..Len(list)
  BY <1>1
<1> QED BY <1>3, <1>4 DEF s

\* What a rotation does to each shard and to each list.
LEMMA RotateEffect ==
  ASSUME TypeOK, NEW list \in Seq(Versions), NEW limit \in Int, Rotate(list, limit)
  PROVE  /\ shards' \in [RoleSet -> [Versions -> [Ranks -> Snapshot \cup {None}]]]
         /\ paths' \in [RoleSet -> Seq(Versions)]
         /\ \A r \in RoleSet, v \in Versions, k \in Ranks :
              shards'[r][v][k] =
                IF r = Role /\ v \in Oldest(list, limit) THEN None ELSE shards[r][v][k]
         /\ \A r \in RoleSet \ {Role} : paths'[r] = paths[r]
         /\ paths'[Role] = SubSeq(list, Surplus(list, limit) + 1, Len(list))
<1> DEFINE rest == SubSeq(list, Surplus(list, limit) + 1, Len(list))
<1>1. rest \in Seq(Versions)
  BY RestOfList
<1>2. Role \in RoleSet
  BY RoleType
<1>3. paths' = [paths EXCEPT ![Role] = rest] /\ paths \in [RoleSet -> Seq(Versions)]
  BY DEF Rotate, TypeOK
<1>4. shards \in [RoleSet -> [Versions -> [Ranks -> Snapshot \cup {None}]]]
  BY DEF TypeOK
<1>5. shards' = [shards EXCEPT ![Role] =
        [v \in Versions |-> IF v \in Oldest(list, limit) THEN [k \in Ranks |-> None]
                                                         ELSE shards[Role][v]]]
  BY <1>2, <1>4 DEF Rotate
<1> HIDE DEF rest
<1>6. /\ paths' \in [RoleSet -> Seq(Versions)] /\ paths'[Role] = rest
      /\ \A r \in RoleSet \ {Role} : paths'[r] = paths[r]
  BY <1>1, <1>2, <1>3
<1>7. \A r \in RoleSet, v \in Versions, k \in Ranks :
        shards'[r][v][k] =
          IF r = Role /\ v \in Oldest(list, limit) THEN None ELSE shards[r][v][k]
  BY <1>2, <1>4, <1>5
<1>8. shards' \in [RoleSet -> [Versions -> [Ranks -> Snapshot \cup {None}]]]
  BY <1>2, <1>4, <1>5
<1> QED BY <1>6, <1>7, <1>8 DEF rest

\* What one rank writes to its shard.
LEMMA ShardEffect ==
  ASSUME TypeOK, NEW k \in Ranks, NEW x \in Snapshot \cup {None}, version \in Versions,
         shards' = [shards EXCEPT ![Role][version][k] = x]
  PROVE  /\ shards' \in [RoleSet -> [Versions -> [Ranks -> Snapshot \cup {None}]]]
         /\ \A r \in RoleSet, v \in Versions, q \in Ranks :
              shards'[r][v][q] =
                IF r = Role /\ v = version /\ q = k THEN x ELSE shards[r][v][q]
<1>1. Role \in RoleSet
  BY RoleType
<1>2. shards \in [RoleSet -> [Versions -> [Ranks -> Snapshot \cup {None}]]]
  BY DEF TypeOK
<1> QED BY <1>1, <1>2

\* What a crash leaves of each shard.
LEMMA CrashEffect ==
  ASSUME TypeOK, Crash
  PROVE  /\ shards' \in [RoleSet -> [Versions -> [Ranks -> Snapshot \cup {None}]]]
         /\ \A r \in RoleSet, v \in Versions, k \in Ranks :
              \/ shards'[r][v][k] = shards[r][v][k]
              \/ shards'[r][v][k] = None /\ r = Role /\ v \in BeingRemoved
<1>1. Role \in RoleSet
  BY RoleType
<1>2. shards \in [RoleSet -> [Versions -> [Ranks -> Snapshot \cup {None}]]]
  BY DEF TypeOK
<1>3. PICK gone \in SUBSET (BeingRemoved \X Ranks) :
        shards' = [shards EXCEPT ![Role] =
          [v \in Versions |-> [k \in Ranks |-> IF <<v, k>> \in gone THEN None
                                                                  ELSE @[v][k]]]]
  BY DEF Crash
<1>4. \A v \in Versions, k \in Ranks : <<v, k>> \in gone => v \in BeingRemoved
  BY <1>3
<1>5. shards' = [shards EXCEPT ![Role] =
        [v \in Versions |-> [k \in Ranks |-> IF <<v, k>> \in gone THEN None
                                                                ELSE shards[Role][v][k]]]]
  BY <1>1, <1>2, <1>3
<1>6. \A r \in RoleSet, v \in Versions, k \in Ranks :
        shards'[r][v][k] = IF r = Role /\ <<v, k>> \in gone THEN None ELSE shards[r][v][k]
  BY <1>1, <1>2, <1>5
<1>7. shards' \in [RoleSet -> [Versions -> [Ranks -> Snapshot \cup {None}]]]
  BY <1>1, <1>2, <1>5
<1>8. ASSUME NEW r \in RoleSet, NEW v \in Versions, NEW k \in Ranks
      PROVE  \/ shards'[r][v][k] = shards[r][v][k]
             \/ shards'[r][v][k] = None /\ r = Role /\ v \in BeingRemoved
  <2>1. CASE r = Role /\ <<v, k>> \in gone
    <3>1. v \in BeingRemoved
      BY <1>4, <2>1
    <3>2. shards'[r][v][k] = None
      BY <1>6, <2>1
    <3> QED BY <2>1, <3>1, <3>2
  <2>2. CASE ~(r = Role /\ <<v, k>> \in gone)
    BY <1>6, <2>2
  <2> QED BY <2>1, <2>2
<1> QED BY <1>7, <1>8

-----------------------------------------------------------------------------
(* Types, and what the tracker names. *)

LEMMA Parameters ==
  /\ MaxVersion \in Nat \ {0} /\ MaxLives \in Nat \ {0} /\ MaxPrompts \in Nat
  /\ 1 \in DOMAIN Roles /\ Len(Roles) \in Nat /\ DOMAIN Roles = 1..Len(Roles)
  /\ None \notin Versions /\ Torn \notin Versions /\ None # Torn
  /\ None \notin Snapshot /\ None \notin Position
  /\ \A r \in RoleSet : Keep[r] \in Nat
BY CheckpointAssumption DEF Versions

LEMMA InitBase == Init => BaseInv
<1> SUFFICES ASSUME Init PROVE BaseInv
  OBVIOUS
<1>1. TypeOK
  <2>1. /\ paths \in [RoleSet -> Seq(Versions)]
        /\ shards \in [RoleSet -> [Versions -> [Ranks -> Snapshot \cup {None}]]]
        /\ data \in [Versions -> Position \cup {None}]
    BY DEF Init
  <2> QED BY <2>1, Parameters DEF Init, TypeOK, Lives
<1>2. TrackerInv /\ VersionInv
  BY Parameters DEF Init, TrackerInv, VersionInv, Running, Saving
<1> QED BY <1>1, <1>2 DEF BaseInv

\* The weights and the position that a restarted job takes over.
LEMMA ResumedType ==
  ASSUME TypeOK, Resume
  PROVE  trained' \in SUBSET Prompts /\ drawn' \in 0..MaxPrompts
<1>1. PICK k \in Ranks : trained' = shards[Roles[1]][tracker][k].trained
  BY DEF Resume
<1>2. Roles[1] \in RoleSet /\ tracker \in Versions
  BY Parameters DEF RoleSet, Resume
<1>3. shards[Roles[1]][tracker][k] \in Snapshot
  BY <1>2 DEF Resume, Loadable, TypeOK
<1>4. data[tracker] = None \/ data[tracker] \in Position
  BY <1>2 DEF TypeOK
<1>5. trained' \in SUBSET Prompts
  BY <1>1, <1>3 DEF Snapshot
<1>6. drawn' \in 0..MaxPrompts
  BY <1>4, Parameters DEF Resume, Position
<1> QED BY <1>5, <1>6

LEMMA TypeStep == BaseInv /\ [Next]_vars => TypeOK'
<1> SUFFICES ASSUME TypeOK, VersionInv, [Next]_vars PROVE TypeOK'
  BY DEF BaseInv
<1> USE Parameters
<1>0. Saving => version \in Versions
  BY DEF VersionInv, Versions, TypeOK, Saving
<1>1. CASE Feed
  BY <1>1 DEF Feed, memory, disk, TypeOK, Prompts
<1>2. CASE Train
  BY <1>2 DEF Train, disk, TypeOK, Prompts
<1>3. CASE BeginSave
  BY <1>3 DEF BeginSave, rollout, disk, TypeOK
<1>4. CASE EnsureCapacity
  <2>1. paths[Role] \in Seq(Versions) /\ Keep[Role] - 1 \in Int
    BY RoleType DEF TypeOK
  <2>2. /\ shards' \in [RoleSet -> [Versions -> [Ranks -> Snapshot \cup {None}]]]
        /\ paths' \in [RoleSet -> Seq(Versions)]
    BY <1>4, <2>1, RotateEffect DEF EnsureCapacity
  <2> QED BY <1>4, <2>2 DEF EnsureCapacity, rollout, TypeOK
<1>5. ASSUME NEW k \in Ranks, OpenShard(k)
      PROVE  TypeOK'
  <2>1. version \in Versions
    BY <1>0, <1>5 DEF OpenShard, Saving, Running
  <2>2. shards' \in [RoleSet -> [Versions -> [Ranks -> Snapshot \cup {None}]]]
    BY <1>5, <2>1, ShardEffect DEF OpenShard
  <2> QED BY <1>5, <2>2 DEF OpenShard, rollout, TypeOK
<1>6. ASSUME NEW k \in Ranks, WriteShard(k)
      PROVE  TypeOK'
  <2>1. version \in Versions
    BY <1>0, <1>6 DEF WriteShard, Saving, Running
  <2>2. [life |-> life, trained |-> trained] \in Snapshot
    BY DEF TypeOK, Snapshot
  <2>3. shards' \in [RoleSet -> [Versions -> [Ranks -> Snapshot \cup {None}]]]
    BY <1>6, <2>1, <2>2, ShardEffect DEF WriteShard
  <2> QED BY <1>6, <2>3 DEF WriteShard, rollout, TypeOK
<1>7. CASE Register
  <2>1. version \in Versions
    BY <1>0, <1>7 DEF Register, Saving, Running
  <2>2. Append(paths[Role], version) \in Seq(Versions) /\ Keep[Role] \in Int
    BY <2>1, RoleType DEF TypeOK
  <2>3. /\ shards' \in [RoleSet -> [Versions -> [Ranks -> Snapshot \cup {None}]]]
        /\ paths' \in [RoleSet -> Seq(Versions)]
    BY <1>7, <2>2, RotateEffect DEF Register
  <2>4. stage' \in DOMAIN Roles /\ pc' \in {"ensure", "data"}
    BY <1>7 DEF Register, TypeOK
  <2> QED BY <1>7, <2>3, <2>4 DEF Register, rollout, TypeOK
<1>8. CASE OpenData
  BY <1>8 DEF OpenData, rollout, TypeOK
<1>9. CASE WriteData
  <2>1. [life |-> life, drawn |-> position] \in Position
    BY DEF TypeOK, Position
  <2>2. data' \in [Versions -> Position \cup {None}]
    BY <1>9, <2>1 DEF WriteData, TypeOK
  <2> QED BY <1>9, <2>2 DEF WriteData, rollout, TypeOK
<1>10. CASE OpenTracker
  BY <1>10 DEF OpenTracker, memory, rollout, TypeOK
<1>11. CASE WriteTracker
  <2>1. version \in Versions
    BY <1>0, <1>11 DEF WriteTracker, Saving, Running
  <2> QED BY <1>11, <2>1 DEF WriteTracker, rollout, TypeOK
<1>12. CASE Crash
  <2>1. shards' \in [RoleSet -> [Versions -> [Ranks -> Snapshot \cup {None}]]]
    BY <1>12, CrashEffect
  <2>2. paths' \in [RoleSet -> Seq(Versions)]
    BY <1>12 DEF Crash
  <2> QED BY <1>12, <2>1, <2>2 DEF Crash, TypeOK, Lives
<1>13. CASE StartAnew
  BY <1>13 DEF StartAnew, RestartUnchanged, disk, TypeOK, Lives
<1>14. CASE Resume
  <2>1. trained' \in SUBSET Prompts /\ drawn' \in 0..MaxPrompts
    BY <1>14, ResumedType
  <2> QED BY <1>14, <2>1 DEF Resume, RestartUnchanged, disk, TypeOK, Lives, Versions
<1>15. CASE FailToResume
  BY <1>15 DEF FailToResume, memory, rollout, disk, TypeOK
<1>16. CASE UNCHANGED vars
  BY <1>16 DEF vars, memory, rollout, disk, TypeOK
<1> QED BY <1>1, <1>2, <1>3, <1>4, <1>5, <1>6, <1>7, <1>8, <1>9, <1>10, <1>11, <1>12,
          <1>13, <1>14, <1>15, <1>16 DEF Next

LEMMA TrackerStep == BaseInv /\ [Next]_vars => (TrackerInv /\ VersionInv)'
<1> SUFFICES ASSUME BaseInv, [Next]_vars PROVE (TrackerInv /\ VersionInv)'
  OBVIOUS
<1> USE Parameters DEF BaseInv, TrackerInv, VersionInv, Running, Saving
<1>0. version \in 0..MaxVersion /\ last \in 0..MaxVersion
  BY DEF TypeOK
<1>1. CASE Feed
  BY <1>1 DEF Feed, memory, disk
<1>2. CASE Train
  BY <1>0, <1>2 DEF Train, disk
<1>3. CASE BeginSave
  BY <1>0, <1>3 DEF BeginSave, rollout, disk
<1>4. CASE EnsureCapacity
  BY <1>4 DEF EnsureCapacity, rollout
<1>5. ASSUME NEW k \in Ranks, OpenShard(k) \/ WriteShard(k)
      PROVE  (TrackerInv /\ VersionInv)'
  BY <1>5 DEF OpenShard, WriteShard, rollout
<1>6. CASE Register
  BY <1>6 DEF Register, rollout
<1>7. CASE OpenData \/ WriteData
  BY <1>7 DEF OpenData, WriteData, rollout
<1>8. CASE OpenTracker
  BY <1>8 DEF OpenTracker, memory, rollout
<1>9. CASE WriteTracker
  BY <1>0, <1>9 DEF WriteTracker, rollout, Versions
<1>10. CASE Crash
  BY <1>10 DEF Crash
<1>11. CASE StartAnew
  BY <1>11 DEF StartAnew, RestartUnchanged, disk
<1>12. CASE Resume
  BY <1>12 DEF Resume, RestartUnchanged, disk, Versions
<1>13. CASE FailToResume
  BY <1>13 DEF FailToResume, memory, rollout, disk
<1>14. CASE UNCHANGED vars
  BY <1>14 DEF vars, memory, rollout, disk
<1> QED BY <1>1, <1>2, <1>3, <1>4, <1>5, <1>6, <1>7, <1>8, <1>9, <1>10, <1>11, <1>12,
          <1>13, <1>14 DEF Next

LEMMA BaseInvariant == Spec => []BaseInv
<1>1. BaseInv /\ [Next]_vars => BaseInv'
  BY TypeStep, TrackerStep DEF BaseInv
<1> QED BY <1>1, InitBase, PTL DEF Spec

\* Every variable keeps its type: no manager ever knows version 0, and what a restarted
\* job takes over is a snapshot and a position that were written.
THEOREM TypeCorrect == Spec => []TypeOK
<1>1. BaseInv => TypeOK
  BY DEF BaseInv
<1> QED BY <1>1, BaseInvariant, PTL

\* A restarted job goes back no further than to the last save that was completed,
\* for every limit, also one that keeps a single checkpoint: it either resumes there
\* or fails.
THEOREM CompletedSaveIsKept == Spec => NoSaveLost
<1>1. BaseInv /\ [Next]_vars => [pc = "down" /\ pc' = "train" => version' >= last]_vars
  <2> SUFFICES ASSUME BaseInv, Next, pc = "down", pc' = "train"
               PROVE  version' >= last
    BY DEF vars, memory, rollout, disk
  <2>1. StartAnew \/ Resume
    BY DEF Next, Feed, Train, BeginSave, EnsureCapacity, OpenShard, WriteShard, Register,
           OpenData, WriteData, OpenTracker, WriteTracker, Crash, FailToResume
  <2>2. last \in 0..MaxVersion /\ (tracker = Torn \/ tracker = IF last = 0 THEN None ELSE last)
    BY DEF BaseInv, TypeOK, TrackerInv
  <2>3. CASE StartAnew
    BY <2>2, <2>3, Parameters DEF StartAnew, Versions
  <2>4. CASE Resume
    BY <2>2, <2>4, Parameters DEF Resume, Versions
  <2> QED BY <2>1, <2>3, <2>4
<1> QED BY <1>1, BaseInvariant, PTL DEF Spec, NoSaveLost

-----------------------------------------------------------------------------
(* What a save has done so far. *)

\* The roles that the save in progress has registered.
Registered ==
  {r \in RoleSet :
     \/ pc \in {"data", "loader", "tracker", "tracking"}
     \/ pc \in {"ensure", "write", "register"} /\ \E i \in 1..(stage - 1) : Roles[i] = r}

Sorted(list, bound) ==
  \A i \in 1..Len(list) :
    list[i] <= bound /\ \A j \in 1..Len(list) : i < j => list[i] < list[j]

Now == [life |-> life, trained |-> trained]

\* A manager knows versions in the order in which they were saved.
PathsInv ==
  /\ ~Running => \A r \in RoleSet : paths[r] = <<>>
  /\ \A r \in RoleSet : Sorted(paths[r], IF r \in Registered THEN version ELSE last)

\* What is registered, written and saved holds the weights of this moment.
WrittenInv ==
  /\ \A r \in Registered, k \in Ranks : shards[r][version][k] = Now
  /\ pc = "write" => \A k \in Ranks \ (unopened \cup writing) : shards[Role][version][k] = Now
  /\ pc = "register" => \A k \in Ranks : shards[Role][version][k] = Now
  /\ pc = "loader" => trained \subseteq 1..position
  /\ pc \in {"tracker", "tracking"} =>
       /\ data[version] \in Position /\ data[version].life = life
       /\ trained \subseteq 1..data[version].drawn

\* All parts of a version are of one snapshot, and the data goes on after it.
Covered(v) ==
  \E s \in Snapshot :
    /\ \A r \in RoleSet, k \in Ranks : shards[r][v][k] = s
    /\ data[v] \in Position /\ data[v].life = s.life /\ s.trained \subseteq 1..data[v].drawn

\* A role with a limit of one removes the tracked checkpoint when it registers its
\* successor; after a crash the successor is all there is of it.
GivenUp(r) == Keep[r] = 1 /\ IF Running THEN r \in Registered ELSE Superseded(r, tracker)

\* All of the tracked checkpoint but what is given up is of one snapshot.
TrackedInv ==
  tracker \in Versions =>
    \E s \in Snapshot :
      /\ \A r \in RoleSet, k \in Ranks :
           shards[r][tracker][k] = s \/ (shards[r][tracker][k] = None /\ GivenUp(r))
      /\ data[tracker] \in Position /\ data[tracker].life = s.life
      /\ s.trained \subseteq 1..data[tracker].drawn

PromptInv ==
  /\ Running => /\ trained \subseteq 1..drawn /\ inflight \subseteq 1..drawn
                /\ inflight \cap trained = {}
  /\ ~Running => inflight = {}

SaveInv == BaseInv /\ PathsInv /\ WrittenInv /\ TrackedInv /\ PromptInv

LEMMA OpenRole == TypeOK /\ pc \in {"ensure", "write", "register"} => Role \notin Registered
<1> SUFFICES ASSUME TypeOK, pc \in {"ensure", "write", "register"}, Role \in Registered
             PROVE  FALSE
  OBVIOUS
<1>1. PICK i \in 1..(stage - 1) : Roles[i] = Role
  BY DEF Registered
<1>2. stage \in 1..Len(Roles)
  BY Parameters DEF TypeOK
<1>3. i \in DOMAIN Roles /\ stage \in DOMAIN Roles /\ i # stage
  BY <1>2, Parameters
<1> QED BY <1>1, <1>3, CheckpointAssumption DEF Role

LEMMA SortedRest ==
  ASSUME NEW list \in Seq(Versions), NEW limit \in Int, NEW bound \in Int, Sorted(list, bound)
  PROVE  Sorted(SubSeq(list, Surplus(list, limit) + 1, Len(list)), bound)
<1> DEFINE s == Surplus(list, limit)
           rest == SubSeq(list, s + 1, Len(list))
<1>1. /\ s \in 0..Len(list) /\ Len(rest) = Len(list) - s
      /\ \A i \in 1..Len(rest) : rest[i] = list[i + s] /\ i + s \in 1..Len(list)
  BY SurplusRange, RestOfList
<1>2. \A i \in 1..Len(list) : list[i] \in Int
  BY InList
<1> HIDE DEF s, rest
<1>3. ASSUME NEW i \in 1..Len(rest), NEW j \in 1..Len(rest)
      PROVE  rest[i] <= bound /\ (i < j => rest[i] < rest[j])
  <2>1. /\ rest[i] = list[i + s] /\ i + s \in 1..Len(list)
        /\ rest[j] = list[j + s] /\ j + s \in 1..Len(list)
    BY <1>1
  <2>2. i < j => i + s < j + s
    BY <1>1
  <2> QED BY <2>1, <2>2 DEF Sorted
<1>4. Sorted(rest, bound)
  BY <1>3 DEF Sorted
<1> QED BY <1>4 DEF rest, s

LEMMA SortedAppend ==
  ASSUME NEW list \in Seq(Versions), NEW bound \in Int, NEW v \in Versions,
         Sorted(list, bound), bound < v
  PROVE  Sorted(Append(list, v), v)
<1>1. /\ Len(Append(list, v)) = Len(list) + 1 /\ Append(list, v)[Len(list) + 1] = v
      /\ \A i \in 1..Len(list) : Append(list, v)[i] = list[i]
      /\ Len(list) \in Nat
  BY AppendProperties
<1>2. \A i \in 1..Len(list) : list[i] \in Int /\ list[i] < v
  BY InList DEF Sorted, Versions
<1>3. v \in Int
  BY DEF Versions
<1> QED BY <1>1, <1>2, <1>3 DEF Sorted

\* A list that is kept to one or more loses only versions below its newest.
LEMMA OldestBelow ==
  ASSUME NEW list \in Seq(Versions), NEW limit \in Int, NEW bound \in Int,
         Sorted(list, bound), NEW v \in Oldest(list, limit)
  PROVE  v < bound
<1>1. PICK i \in 1..Surplus(list, limit) : v = list[i]
  BY DEF Oldest
<1>2. limit > 0 /\ Surplus(list, limit) = Len(list) - limit /\ Len(list) \in Nat
  <2>1. Surplus(list, limit) \in 0..Len(list) /\ Len(list) \in Nat
    BY SurplusRange
  <2>2. Surplus(list, limit) > 0
    BY <1>1, <2>1
  <2> QED BY <2>1, <2>2, SurplusRange
<1>3. i \in 1..Len(list) /\ Len(list) \in 1..Len(list) /\ i < Len(list)
  BY <1>1, <1>2
<1>4. list[i] \in Int /\ list[Len(list)] \in Int
  BY <1>3, InList
<1>5. list[i] < list[Len(list)] /\ list[Len(list)] <= bound
  BY <1>3 DEF Sorted
<1> QED BY <1>1, <1>4, <1>5

\* Neither rotation of a save touches the last save, unless one is kept and its
\* successor is written.
LEMMA RemovedBelow ==
  ASSUME BaseInv, PathsInv
  PROVE  /\ pc = "ensure" => \A v \in Oldest(paths[Role], Keep[Role] - 1) : v < last
         /\ pc = "register" => \A v \in Oldest(Append(paths[Role], version), Keep[Role]) :
                                 v <= last /\ (v = last => Keep[Role] = 1)
         /\ \A v \in BeingRemoved :
              v <= last /\ (v = last => pc = "register" /\ Keep[Role] = 1)
<1>1. Role \in RoleSet /\ paths[Role] \in Seq(Versions) /\ last \in 0..MaxVersion
  BY RoleType DEF BaseInv, TypeOK
<1>2. Keep[Role] \in Int /\ Keep[Role] >= 0
  BY <1>1, Parameters
<1>3. pc \in {"ensure", "register"} => Sorted(paths[Role], last) /\ version \in Versions
  <2> SUFFICES ASSUME TypeOK, pc \in {"ensure", "register"}
               PROVE  Sorted(paths[Role], last) /\ version \in Versions
    BY DEF BaseInv
  <2>1. Role \notin Registered
    BY OpenRole
  <2>2. Sorted(paths[Role], last)
    BY <1>1, <2>1, Zenon DEF PathsInv
  <2>3. version \in Versions
    BY Parameters DEF BaseInv, VersionInv, Saving, Running, TypeOK, Versions
  <2> QED BY <2>2, <2>3
<1>4. ASSUME pc = "ensure", NEW v \in Oldest(paths[Role], Keep[Role] - 1)
      PROVE  v < last
  BY <1>1, <1>2, <1>3, <1>4, OldestBelow
<1>5. ASSUME pc = "register", NEW v \in Oldest(Append(paths[Role], version), Keep[Role])
      PROVE  v <= last /\ (v = last => Keep[Role] = 1)
  <2> DEFINE list == paths[Role]
             more == Append(list, version)
  <2>1. /\ version \in Versions /\ list \in Seq(Versions) /\ Len(list) \in Nat
        /\ Sorted(list, last)
    BY <1>1, <1>3, <1>5
  <2>2. /\ more \in Seq(Versions) /\ Len(more) = Len(list) + 1
        /\ \A i \in 1..Len(list) : more[i] = list[i]
    BY <2>1, AppendProperties
  <2>3. PICK i \in 1..Surplus(more, Keep[Role]) : v = more[i]
    BY <1>5 DEF Oldest
  <2> HIDE DEF more, list
  <2>4. Keep[Role] > 0 /\ Surplus(more, Keep[Role]) = Len(list) + 1 - Keep[Role]
    <3>1. Surplus(more, Keep[Role]) \in 0..Len(more)
      BY <1>2, <2>2, SurplusRange
    <3>2. Surplus(more, Keep[Role]) > 0
      BY <2>3, <3>1
    <3>3. Keep[Role] > 0 /\ Surplus(more, Keep[Role]) = Len(more) - Keep[Role]
      BY <1>2, <2>2, <3>2, SurplusRange
    <3>4. Keep[Role] \in Int
      BY <1>2
    <3>6. Len(more) = Len(list) + 1 /\ Len(list) \in Nat
      BY <2>1, <2>2
    <3>7. \A m, l \in Nat, k \in Int : m = l + 1 => m - k = l + 1 - k
      OBVIOUS
    <3>8. Len(more) - Keep[Role] = Len(list) + 1 - Keep[Role]
      BY <3>4, <3>6, <3>7
    <3> QED BY <3>3, <3>8, Zenon
  <2>5. i \in 1..Len(list) /\ (Keep[Role] # 1 => i < Len(list)) /\ Len(list) \in 1..Len(list)
    BY <1>2, <2>1, <2>3, <2>4
  <2>6. v = list[i] /\ list[i] <= last
    BY <2>1, <2>2, <2>3, <2>5 DEF Sorted
  <2>7. list[i] \in Int /\ list[Len(list)] \in Int
    BY <2>1, <2>5, InList
  <2>8. CASE Keep[Role] # 1
    <3>1. list[i] < list[Len(list)] /\ list[Len(list)] <= last
      BY <2>1, <2>5, <2>8 DEF Sorted
    <3> QED BY <1>1, <2>6, <2>7, <3>1
  <2> QED BY <2>6, <2>8
<1>6. \A v \in BeingRemoved :
        v <= last /\ (v = last => pc = "register" /\ Keep[Role] = 1)
  <2> SUFFICES ASSUME NEW v \in BeingRemoved
               PROVE  v <= last /\ (v = last => pc = "register" /\ Keep[Role] = 1)
    OBVIOUS
  <2>1. CASE pc = "ensure" /\ v \in Oldest(paths[Role], Keep[Role] - 1)
    <3>1. v < last /\ v \in Int /\ last \in Int
      BY <1>1, <1>4, <2>1 DEF BeingRemoved, Versions
    <3> QED BY <3>1
  <2>2. CASE pc = "register" /\ v \in Oldest(Append(paths[Role], version), Keep[Role])
    BY <1>5, <2>2
  <2> QED BY <2>1, <2>2 DEF BeingRemoved
<1> QED BY <1>4, <1>5, <1>6

-----------------------------------------------------------------------------
(* Every step keeps what a save has done. *)

LEMMA RegisteredStep ==
  ASSUME TypeOK, Next
  PROVE  /\ Register => Registered' = Registered \cup {Role}
         /\ pc' = pc /\ stage' = stage => Registered' = Registered
         /\ pc \in {"ensure", "write"} => Registered' = Registered \/ pc' = "down"
         /\ pc \in {"data", "loader", "tracker", "tracking"} => Registered = RoleSet
         /\ pc' \in {"data", "loader", "tracker", "tracking"} => Registered' = RoleSet
         /\ pc \in {"train", "down", "failed"} => Registered = {}
         /\ pc' \in {"train", "down", "failed"} => Registered' = {}
         /\ BeginSave => Registered' = {}
<1>0. stage \in 1..Len(Roles) /\ Len(Roles) \in Nat /\ DOMAIN Roles = 1..Len(Roles)
  BY Parameters DEF TypeOK
<1>1. ASSUME Register PROVE Registered' = Registered \cup {Role}
  <2>1. pc = "register" /\ Role = Roles[stage]
    BY <1>1 DEF Register, Role
  <2>2. \A r \in RoleSet : r \in Registered <=> \E i \in 1..(stage - 1) : Roles[i] = r
    BY <2>1 DEF Registered
  <2>3. \A r \in RoleSet : r \in Registered \cup {Role} <=> \E i \in 1..stage : Roles[i] = r
    BY <1>0, <2>1, <2>2
  <2>4. \A r \in RoleSet : r \in Registered' <=> \E i \in 1..stage : Roles[i] = r
    <3>1. CASE stage < Len(Roles)
      <4>1. pc' = "ensure" /\ stage' = stage + 1 /\ stage' - 1 = stage
        BY <1>0, <1>1, <3>1 DEF Register
      <4> QED BY <4>1 DEF Registered
    <3>2. CASE ~(stage < Len(Roles))
      <4>1. pc' = "data"
        BY <1>1, <3>2 DEF Register
      <4>2. stage = Len(Roles)
        <5>1. stage \in Int /\ Len(Roles) \in Int /\ stage <= Len(Roles)
          BY <1>0
        <5> QED BY <3>2, <5>1
      <4>3. 1..stage = DOMAIN Roles
        BY <1>0, <4>2
      <4> QED BY <4>1, <4>3 DEF Registered, RoleSet
    <3> QED BY <3>1, <3>2
  <2>5. Registered' \subseteq RoleSet /\ Registered \cup {Role} \subseteq RoleSet
    BY RoleType DEF Registered
  <2> QED BY <2>3, <2>4, <2>5
<1>2. pc' = pc /\ stage' = stage => Registered' = Registered
  BY DEF Registered
<1>3. ASSUME pc \in {"ensure", "write"} PROVE Registered' = Registered \/ pc' = "down"
  <2>1. pc' \in {"ensure", "write", "register", "down"} /\ (pc' # "down" => stage' = stage)
    BY <1>3 DEF Next, Feed, memory, Train, BeginSave, EnsureCapacity, OpenShard, WriteShard,
            Register, OpenData, WriteData, OpenTracker, WriteTracker, Crash, StartAnew,
            Resume, FailToResume
  <2> QED BY <1>3, <2>1 DEF Registered
<1>4. BeginSave => Registered' = {}
  BY DEF BeginSave, Registered
<1>5. /\ pc \in {"data", "loader", "tracker", "tracking"} => Registered = RoleSet
      /\ pc' \in {"data", "loader", "tracker", "tracking"} => Registered' = RoleSet
      /\ pc \in {"train", "down", "failed"} => Registered = {}
      /\ pc' \in {"train", "down", "failed"} => Registered' = {}
  BY DEF Registered
<1> QED BY <1>1, <1>2, <1>3, <1>4, <1>5

LEMMA PathsStep == BaseInv /\ PathsInv /\ [Next]_vars => PathsInv'
<1> SUFFICES ASSUME BaseInv, PathsInv, Next PROVE PathsInv'
  BY DEF vars, memory, PathsInv, Running, Registered, RoleSet
<1> USE DEF Running
<1>0. /\ TypeOK /\ last \in Int /\ version \in Int /\ Role \in RoleSet
      /\ \A r \in RoleSet : paths[r] \in Seq(Versions)
  BY RoleType DEF BaseInv, TypeOK
<1>1. CASE Feed \/ \E k \in Ranks : OpenShard(k)
  <2>1. UNCHANGED <<pc, stage, paths, version, last>>
    BY <1>1 DEF Feed, memory, OpenShard
  <2> QED BY <1>0, <2>1, RegisteredStep, Zenon DEF PathsInv
<1>2. CASE \/ OpenData \/ WriteData \/ OpenTracker \/ \E k \in Ranks : WriteShard(k)
  <2>1. /\ UNCHANGED <<paths, version, last>> /\ pc # "down" /\ pc # "failed"
        /\ pc' # "down" /\ pc' # "failed"
    BY <1>2 DEF OpenData, WriteData, OpenTracker, memory, WriteShard
  <2>2. Registered' = Registered
    BY <1>0, <1>2, RegisteredStep DEF OpenData, WriteData, OpenTracker, WriteShard
  <2> QED BY <2>1, <2>2, Zenon DEF PathsInv
<1>3. CASE Train \/ BeginSave
  <2>1. UNCHANGED <<paths, last>> /\ pc = "train" /\ pc' \in {"train", "ensure"}
    BY <1>3 DEF Train, BeginSave
  <2>2. Registered = {} /\ Registered' = {}
    BY <1>0, <1>3, <2>1, RegisteredStep DEF Train
  <2> QED BY <2>1, <2>2 DEF PathsInv
<1>4. CASE EnsureCapacity
  <2>1. /\ pc = "ensure" /\ pc' = "write" /\ UNCHANGED <<version, last>>
        /\ Rotate(paths[Role], Keep[Role] - 1)
    BY <1>4 DEF EnsureCapacity
  <2>2. Registered' = Registered /\ Role \notin Registered
    BY <1>0, <2>1, RegisteredStep, OpenRole
  <2>3. Keep[Role] - 1 \in Int
    BY <1>0, Parameters
  <2>4. /\ \A r \in RoleSet \ {Role} : paths'[r] = paths[r]
        /\ paths'[Role] =
             SubSeq(paths[Role], Surplus(paths[Role], Keep[Role] - 1) + 1, Len(paths[Role]))
    BY <1>0, <2>1, <2>3, RotateEffect, Zenon
  <2>5. Sorted(paths[Role], last)
    BY <1>0, <2>2, Zenon DEF PathsInv
  <2>6. Sorted(paths'[Role], last)
    BY <1>0, <2>3, <2>4, <2>5, SortedRest, Zenon
  <2>7. ASSUME NEW r \in RoleSet
        PROVE  Sorted(paths'[r], IF r \in Registered' THEN version' ELSE last')
    <3>1. CASE r = Role
      BY <2>1, <2>2, <2>6, <3>1, Zenon
    <3>2. CASE r # Role
      BY <2>1, <2>2, <2>4, <3>2, Zenon DEF PathsInv
    <3> QED BY <3>1, <3>2
  <2> QED BY <2>1, <2>7 DEF PathsInv, Sorted
<1>5. CASE Register
  <2> DEFINE more == Append(paths[Role], version)
  <2>1. /\ pc = "register" /\ pc' \in {"ensure", "data"} /\ UNCHANGED <<version, last>>
        /\ Rotate(more, Keep[Role])
    BY <1>5 DEF Register
  <2>2. Registered' = Registered \cup {Role} /\ Role \notin Registered
    BY <1>0, <1>5, <2>1, RegisteredStep, OpenRole
  <2>3. version \in Versions /\ last < version
    BY <2>1 DEF BaseInv, VersionInv, Saving, TypeOK, Versions
  <2>4. Keep[Role] \in Int /\ more \in Seq(Versions)
    BY <1>0, <2>3, Parameters, AppendProperties
  <2>5. Sorted(paths[Role], last)
    BY <1>0, <2>2, Zenon DEF PathsInv
  <2>6. Sorted(more, version)
    BY <1>0, <2>3, <2>5, SortedAppend
  <2> HIDE DEF more
  <2>7. /\ \A r \in RoleSet \ {Role} : paths'[r] = paths[r]
        /\ paths'[Role] = SubSeq(more, Surplus(more, Keep[Role]) + 1, Len(more))
    BY <1>0, <2>1, <2>4, RotateEffect, Zenon
  <2>8. Sorted(paths'[Role], version)
    BY <1>0, <2>4, <2>6, <2>7, SortedRest, Zenon
  <2>9. ASSUME NEW r \in RoleSet
        PROVE  Sorted(paths'[r], IF r \in Registered' THEN version' ELSE last')
    <3>1. CASE r = Role
      BY <2>1, <2>2, <2>8, <3>1
    <3>2. CASE r # Role
      <4>1. r \in Registered' <=> r \in Registered
        BY <2>2, <3>2
      <4> QED BY <2>1, <2>7, <3>2, <4>1, Zenon DEF PathsInv
    <3> QED BY <3>1, <3>2
  <2> QED BY <2>1, <2>9 DEF PathsInv, Sorted
<1>6. CASE WriteTracker
  <2>1. /\ pc = "tracking" /\ pc' = "train" /\ last' = version /\ paths' = paths
    BY <1>6 DEF WriteTracker
  <2>2. Registered = RoleSet /\ Registered' = {}
    BY <1>0, <2>1, RegisteredStep
  <2> QED BY <2>1, <2>2 DEF PathsInv
<1>7. CASE Crash \/ StartAnew \/ Resume \/ FailToResume
  <2>1. \A r \in RoleSet : paths'[r] = <<>>
    BY <1>7 DEF Crash, StartAnew, Resume, FailToResume, RestartUnchanged, memory, PathsInv
  <2>2. \A r \in RoleSet : Len(paths'[r]) = 0
    BY <2>1
  <2> QED BY <2>1, <2>2 DEF PathsInv, Sorted
<1> QED BY <1>1, <1>2, <1>3, <1>4, <1>5, <1>6, <1>7 DEF Next

\* What a save has written changes only by that save.
LEMMA WrittenStep ==
  ASSUME SaveInv, [Next]_vars PROVE WrittenInv'
<1> SUFFICES ASSUME BaseInv, PathsInv, WrittenInv, PromptInv, Next PROVE WrittenInv'
  BY DEF SaveInv, vars, memory, rollout, disk, WrittenInv, Registered, RoleSet, Now, Role
<1>0. /\ TypeOK /\ last \in Int /\ version \in Int /\ Role \in RoleSet
      /\ (Saving => version \in Versions /\ last < version)
      /\ Registered \subseteq RoleSet
  BY RoleType DEF BaseInv, TypeOK, VersionInv, Saving, Versions, Registered
<1> USE DEF Saving, Running
<1>1. CASE Feed
  <2>1. UNCHANGED <<pc, stage, unopened, writing, version, life, trained, shards, data, position>>
    BY <1>1 DEF Feed, memory, disk
  <2> QED BY <2>1 DEF WrittenInv, Registered, RoleSet, Now, Role
<1>2. CASE Train \/ BeginSave \/ WriteTracker \/ Crash \/ StartAnew \/ Resume \/ FailToResume
  <2>1. pc' \in {"train", "ensure", "down", "failed"}
    BY <1>2 DEF Train, BeginSave, WriteTracker, Crash, StartAnew, Resume, FailToResume
  <2>2. Registered' = {}
    BY <1>0, <1>2, <2>1, RegisteredStep
       DEF Train, WriteTracker, Crash, StartAnew, Resume, FailToResume
  <2> QED BY <2>1, <2>2 DEF WrittenInv
<1>3. CASE EnsureCapacity
  <2>1. /\ pc = "ensure" /\ pc' = "write" /\ unopened' = Ranks
        /\ UNCHANGED <<stage, version, life, trained>>
        /\ Rotate(paths[Role], Keep[Role] - 1)
    BY <1>3 DEF EnsureCapacity, rollout
  <2>2. Registered' = Registered
    BY <1>0, <2>1, RegisteredStep
  <2>3. version \notin Oldest(paths[Role], Keep[Role] - 1)
    BY <1>0, <2>1, RemovedBelow
  <2>4. paths[Role] \in Seq(Versions) /\ Keep[Role] - 1 \in Int
    BY <1>0, Parameters DEF TypeOK
  <2>5. \A r \in RoleSet, k \in Ranks : shards'[r][version][k] = shards[r][version][k]
    BY <1>0, <2>1, <2>3, <2>4, RotateEffect
  <2>6. \A r \in Registered', k \in Ranks : shards'[r][version'][k] = Now'
    BY <1>0, <2>1, <2>2, <2>5 DEF WrittenInv, Now
  <2> QED BY <2>1, <2>6 DEF WrittenInv
<1>4. ASSUME NEW k \in Ranks, OpenShard(k)
      PROVE  WrittenInv'
  <2>1. /\ pc = "write" /\ pc' = "write" /\ k \in unopened
        /\ unopened' = unopened \ {k} /\ writing' = writing \cup {k}
        /\ UNCHANGED <<stage, version, life, trained>>
    BY <1>4 DEF OpenShard, rollout
  <2>2. Registered' = Registered /\ Role \notin Registered /\ version \in Versions
    BY <1>0, <2>1, RegisteredStep, OpenRole
  <2>3. \A r \in RoleSet, v \in Versions, q \in Ranks :
          r # Role \/ q # k => shards'[r][v][q] = shards[r][v][q]
    BY <1>0, <1>4, <2>2, ShardEffect DEF OpenShard
  <2>4. \A r \in Registered', q \in Ranks : shards'[r][version'][q] = Now'
    BY <1>0, <2>1, <2>2, <2>3 DEF WrittenInv, Now
  <2>5. \A q \in Ranks \ (unopened' \cup writing') : shards'[Role'][version'][q] = Now'
    BY <1>0, <2>1, <2>2, <2>3 DEF WrittenInv, Now, Role
  <2> QED BY <2>1, <2>4, <2>5 DEF WrittenInv
<1>5. ASSUME NEW k \in Ranks, WriteShard(k)
      PROVE  WrittenInv'
  <2>1. /\ pc = "write" /\ pc' \in {"write", "register"} /\ k \in writing
        /\ unopened' = unopened /\ writing' = writing \ {k}
        /\ (pc' = "register" => writing = {k} /\ unopened = {})
        /\ UNCHANGED <<stage, version, life, trained>>
    BY <1>5 DEF WriteShard, rollout
  <2>2. Registered' = Registered /\ Role \notin Registered /\ version \in Versions
    BY <1>0, <2>1, RegisteredStep, OpenRole
  <2>3. Now \in Snapshot
    BY <1>0 DEF TypeOK, Snapshot, Now
  <2>4. \A r \in RoleSet, v \in Versions, q \in Ranks :
          shards'[r][v][q] = IF r = Role /\ v = version /\ q = k THEN Now ELSE shards[r][v][q]
    <3>1. shards' = [shards EXCEPT ![Role][version][k] = Now]
      BY <1>5 DEF WriteShard, Now
    <3>2. /\ Role \in RoleSet /\ version \in Versions
          /\ shards \in [RoleSet -> [Versions -> [Ranks -> Snapshot \cup {None}]]]
      BY <1>0, <2>2 DEF TypeOK
    <3> QED BY <3>1, <3>2
  <2>5. \A r \in Registered', q \in Ranks : shards'[r][version'][q] = Now'
    BY <1>0, <2>1, <2>2, <2>4 DEF WrittenInv, Now
  <2>6. \A q \in Ranks \ (unopened' \cup writing') : shards'[Role'][version'][q] = Now'
    BY <1>0, <2>1, <2>2, <2>4 DEF WrittenInv, Now, Role
  <2>7. pc' = "register" => \A q \in Ranks : shards'[Role'][version'][q] = Now'
    BY <2>1, <2>6
  <2> QED BY <2>1, <2>5, <2>6, <2>7 DEF WrittenInv
<1>6. CASE Register
  <2> DEFINE more == Append(paths[Role], version)
  <2>1. /\ pc = "register" /\ pc' \in {"ensure", "data"}
        /\ UNCHANGED <<version, life, trained>>
        /\ Rotate(more, Keep[Role])
    BY <1>6 DEF Register, rollout
  <2>2. Registered' = Registered \cup {Role}
    BY <1>0, <1>6, RegisteredStep
  <2>3. version \notin Oldest(more, Keep[Role])
    BY <1>0, <2>1, RemovedBelow
  <2>4. more \in Seq(Versions) /\ Keep[Role] \in Int
    BY <1>0, <2>1, Parameters, AppendProperties DEF TypeOK
  <2> HIDE DEF more
  <2>5. \A r \in RoleSet, k \in Ranks : shards'[r][version][k] = shards[r][version][k]
    BY <1>0, <2>1, <2>3, <2>4, RotateEffect
  <2>6. \A r \in Registered', k \in Ranks : shards'[r][version'][k] = Now'
    BY <1>0, <2>1, <2>2, <2>5 DEF WrittenInv, Now
  <2> QED BY <2>1, <2>6 DEF WrittenInv
<1>7. CASE OpenData
  <2>1. /\ pc = "data" /\ pc' = "loader" /\ position' = drawn
        /\ UNCHANGED <<version, life, trained, shards>>
    BY <1>7 DEF OpenData, rollout
  <2>2. Registered' = Registered
    BY <1>0, <2>1, RegisteredStep
  <2> QED BY <2>1, <2>2 DEF WrittenInv, PromptInv, Now
<1>8. CASE WriteData
  <2>1. /\ pc = "loader" /\ pc' = "tracker"
        /\ UNCHANGED <<version, life, trained, shards>>
        /\ data' = [data EXCEPT ![version] = [life |-> life, drawn |-> position]]
    BY <1>8 DEF WriteData, rollout
  <2>2. Registered' = Registered
    BY <1>0, <2>1, RegisteredStep
  <2>3. data'[version] = [life |-> life, drawn |-> position]
    BY <1>0, <2>1 DEF TypeOK
  <2>4. data'[version] \in Position
    BY <1>0, <2>3 DEF TypeOK, Position
  <2> QED BY <2>1, <2>2, <2>3, <2>4 DEF WrittenInv, Now
<1>9. CASE OpenTracker
  <2>1. /\ pc = "tracker" /\ pc' = "tracking"
        /\ UNCHANGED <<version, life, trained, shards, data>>
    BY <1>9 DEF OpenTracker, memory
  <2>2. Registered' = Registered
    BY <1>0, <2>1, RegisteredStep
  <2> QED BY <2>1, <2>2 DEF WrittenInv, Now
<1> QED BY <1>1, <1>2, <1>3, <1>4, <1>5, <1>6, <1>7, <1>8, <1>9 DEF Next

\* What is written of the next version of a role is a newer one than the tracked.
LEMMA NextSupersedes ==
  ASSUME TypeOK, NEW r \in RoleSet, Keep[r] = 1, last < version, version \in Versions,
         tracker = last,
         \A k \in Ranks : shards[r][version][k] = Now
  PROVE  Superseded(r, tracker)
<1>1. Now \in Snapshot /\ None \notin Snapshot
  BY Parameters DEF TypeOK, Snapshot, Now
<1>2. \A k \in Ranks : shards[r][version][k] # None
  BY <1>1
<1>3. last \in Int /\ version \in Int
  BY DEF TypeOK, Versions
<1> QED BY <1>2, <1>3 DEF Superseded

LEMMA TrackedSame == ASSUME TrackedInv, UNCHANGED vars PROVE TrackedInv'
<1>1. UNCHANGED <<pc, stage, version, shards, data, tracker>>
  BY DEF vars, memory, disk
<1>2. ASSUME NEW r \in RoleSet PROVE GivenUp(r)' <=> GivenUp(r)
  BY <1>1 DEF GivenUp, Running, Registered, Superseded
<1> QED BY <1>1, <1>2, Zenon DEF TrackedInv

\* The tracked checkpoint is left alone until the next one is whole, but where one
\* role keeps one.
LEMMA TrackedNext ==
  ASSUME BaseInv, PathsInv, WrittenInv, TrackedInv, Next PROVE TrackedInv'
<1>0. /\ TypeOK /\ last \in Int /\ version \in Int /\ Role \in RoleSet
      /\ (Saving => version \in Versions /\ last < version)
      /\ Registered \subseteq RoleSet
  BY RoleType DEF BaseInv, TypeOK, VersionInv, Saving, Versions, Registered
<1> USE DEF Saving, Running
<1>1. tracker \in Versions => tracker = last
  BY Parameters DEF BaseInv, TrackerInv
<1>2. ASSUME tracker' = tracker,
             tracker \in Versions => data'[tracker] = data[tracker],
             \A r \in RoleSet : tracker \in Versions /\ GivenUp(r) => GivenUp(r)',
             \A r \in RoleSet, k \in Ranks :
               tracker \in Versions =>
                 \/ shards'[r][tracker][k] = shards[r][tracker][k]
                 \/ shards'[r][tracker][k] = None /\ GivenUp(r)'
      PROVE  TrackedInv'
  <2>0. SUFFICES ASSUME (tracker \in Versions)'
                 PROVE  (\E s \in Snapshot :
                   /\ \A r \in RoleSet, k \in Ranks :
                        shards[r][tracker][k] = s \/ (shards[r][tracker][k] = None /\ GivenUp(r))
                   /\ data[tracker] \in Position /\ data[tracker].life = s.life
                   /\ s.trained \subseteq 1..data[tracker].drawn)'
    BY Zenon DEF TrackedInv
  <2>1. PICK s \in Snapshot :
          /\ \A r \in RoleSet, k \in Ranks :
               shards[r][tracker][k] = s \/ (shards[r][tracker][k] = None /\ GivenUp(r))
          /\ data[tracker] \in Position /\ data[tracker].life = s.life
          /\ s.trained \subseteq 1..data[tracker].drawn
    BY <1>2, <2>0, Zenon DEF TrackedInv
  <2>2. ASSUME NEW r \in RoleSet, NEW k \in Ranks
        PROVE  \/ shards'[r][tracker'][k] = s
               \/ shards'[r][tracker'][k] = None /\ GivenUp(r)'
    BY <1>2, <2>0, <2>1
  <2>3. /\ data'[tracker'] \in Position /\ data'[tracker'].life = s.life
        /\ s.trained \subseteq 1..data'[tracker'].drawn
    BY <1>2, <2>0, <2>1, Zenon
  <2> QED BY <2>2, <2>3
<1>3. ASSUME Registered' = Registered, pc \notin {"down", "failed"},
             pc' \notin {"down", "failed"}
      PROVE  \A r \in RoleSet : GivenUp(r) => GivenUp(r)'
  BY <1>3 DEF GivenUp
<1>4. CASE Feed
  <2>1. UNCHANGED <<disk, pc, stage>> /\ pc \notin {"down", "failed"}
    BY <1>4 DEF Feed, memory
  <2>2. Registered' = Registered
    BY <1>0, <2>1, RegisteredStep
  <2> QED BY <1>2, <1>3, <2>1, <2>2 DEF disk
<1>5. CASE Train \/ BeginSave
  <2>1. UNCHANGED disk /\ pc = "train"
    BY <1>5 DEF Train, BeginSave
  <2>2. \A r \in RoleSet : ~GivenUp(r)
    BY <1>0, <2>1, RegisteredStep DEF GivenUp
  <2> QED BY <1>2, <2>1, <2>2 DEF disk
<1>6. CASE EnsureCapacity
  <2>1. /\ pc = "ensure" /\ pc' = "write" /\ UNCHANGED <<tracker, data>>
        /\ Rotate(paths[Role], Keep[Role] - 1)
    BY <1>6 DEF EnsureCapacity
  <2>2. \A v \in Oldest(paths[Role], Keep[Role] - 1) : v < last
    BY <1>0, <2>1, RemovedBelow
  <2>3. last \notin Oldest(paths[Role], Keep[Role] - 1)
    BY <1>0, <2>2
  <2>4. paths[Role] \in Seq(Versions) /\ Keep[Role] - 1 \in Int
    BY <1>0, Parameters DEF TypeOK
  <2>5. \A r \in RoleSet, v \in Versions, k \in Ranks :
          v = last => shards'[r][v][k] = shards[r][v][k]
    BY <1>0, <2>1, <2>3, <2>4, RotateEffect
  <2>6. Registered' = Registered
    BY <1>0, <2>1, RegisteredStep
  <2>7. \A r \in RoleSet : GivenUp(r) => GivenUp(r)'
    BY <1>3, <2>1, <2>6
  <2> QED BY <1>1, <1>2, <2>1, <2>5, <2>7
<1>7. ASSUME NEW k \in Ranks, OpenShard(k) \/ WriteShard(k)
      PROVE  TrackedInv'
  <2>1. /\ pc = "write" /\ pc' \in {"write", "register"}
        /\ UNCHANGED <<tracker, data>> /\ version \in Versions /\ last # version
    BY <1>0, <1>7 DEF OpenShard, WriteShard
  <2>2. Now \in Snapshot
    BY <1>0 DEF TypeOK, Snapshot, Now
  <2>3. \A r \in RoleSet, v \in Versions, q \in Ranks :
          v = last => shards'[r][v][q] = shards[r][v][q]
    BY <1>0, <1>7, <2>1, <2>2, ShardEffect DEF OpenShard, WriteShard, Now
  <2>4. Registered' = Registered
    BY <1>0, <2>1, RegisteredStep
  <2>5. \A r \in RoleSet : GivenUp(r) => GivenUp(r)'
    BY <1>3, <2>1, <2>4
  <2> QED BY <1>1, <1>2, <2>1, <2>3, <2>5
<1>8. CASE Register
  <2> DEFINE more == Append(paths[Role], version)
  <2>1. /\ pc = "register" /\ pc' \in {"ensure", "data"} /\ UNCHANGED <<tracker, data>>
        /\ Rotate(more, Keep[Role])
    BY <1>8 DEF Register
  <2>2. \A v \in Oldest(more, Keep[Role]) : v = last => Keep[Role] = 1
    BY <1>0, <2>1, RemovedBelow
  <2>3. more \in Seq(Versions) /\ Keep[Role] \in Int
    BY <1>0, <2>1, Parameters, AppendProperties DEF TypeOK
  <2> HIDE DEF more
  <2>4. Registered' = Registered \cup {Role}
    BY <1>0, <1>8, RegisteredStep
  <2>5. \A r \in RoleSet : GivenUp(r) => GivenUp(r)'
    BY <2>1, <2>4 DEF GivenUp
  <2>6. ASSUME NEW r \in RoleSet, NEW k \in Ranks, tracker \in Versions
        PROVE  \/ shards'[r][tracker][k] = shards[r][tracker][k]
               \/ shards'[r][tracker][k] = None /\ GivenUp(r)'
    <3>1. shards'[r][tracker][k] = IF r = Role /\ tracker \in Oldest(more, Keep[Role])
                                   THEN None ELSE shards[r][tracker][k]
      BY <1>0, <2>1, <2>3, <2>6, RotateEffect
    <3>2. \A q \in RoleSet : q = Role /\ Keep[Role] = 1 => GivenUp(q)'
      BY <2>1, <2>4 DEF GivenUp
    <3> QED BY <1>1, <2>2, <2>6, <3>1, <3>2
  <2> QED BY <1>2, <2>1, <2>5, <2>6
<1>9. CASE OpenData \/ WriteData
  <2>1. /\ UNCHANGED <<tracker, shards>> /\ version \in Versions /\ last # version
        /\ pc \in {"data", "loader"} /\ pc' \in {"loader", "tracker"}
    BY <1>0, <1>9 DEF OpenData, WriteData
  <2>2. \A v \in Versions : v = last => data'[v] = data[v]
    BY <1>0, <1>9, <2>1 DEF OpenData, WriteData, TypeOK
  <2>3. Registered' = Registered
    BY <1>0, <2>1, RegisteredStep
  <2>4. \A r \in RoleSet : GivenUp(r) => GivenUp(r)'
    BY <1>3, <2>1, <2>3
  <2> QED BY <1>1, <1>2, <2>1, <2>2, <2>4
<1>10. CASE OpenTracker
  BY <1>10, Parameters DEF OpenTracker, TrackedInv
<1>11. CASE WriteTracker
  <2>1. pc = "tracking" /\ tracker' = version /\ UNCHANGED <<shards, data>>
    BY <1>11 DEF WriteTracker
  <2>2. Registered = RoleSet
    BY <1>0, <2>1 DEF Registered
  <2>3. Now \in Snapshot
    BY <1>0 DEF TypeOK, Snapshot, Now
  <2>4. Covered(version)
    BY <2>1, <2>2, <2>3 DEF WrittenInv, Covered, Now
  <2> QED BY <2>1, <2>4 DEF TrackedInv, Covered
<1>12. CASE Crash
  <2>1. UNCHANGED <<tracker, data, version, last>> /\ pc \notin {"down", "failed"}
        /\ pc' = "down"
    BY <1>12 DEF Crash
  <2>2. \A v \in BeingRemoved :
          v <= last /\ (v = last => pc = "register" /\ Keep[Role] = 1)
    BY RemovedBelow
  <2>3. ASSUME NEW r \in RoleSet, Keep[r] = 1, tracker \in Versions,
               pc \notin {"train", "down", "failed"},
               \A k \in Ranks : shards[r][version][k] = Now
        PROVE  GivenUp(r)'
    <3>1. version \in Versions /\ last < version
      BY <1>0, <2>3
    <3>2. version \notin BeingRemoved
      BY <1>0, <2>2, <3>1
    <3>3. \A k \in Ranks : shards'[r][version][k] = shards[r][version][k]
      BY <1>0, <1>12, <3>1, <3>2, CrashEffect
    <3>4. Now \in Snapshot /\ None \notin Snapshot
      BY <1>0, Parameters DEF TypeOK, Snapshot, Now
    <3>5. \A k \in Ranks : shards'[r][version][k] # None
      BY <2>3, <3>3, <3>4
    <3>6. version > tracker
      BY <1>0, <1>1, <2>3, <3>1
    <3>7. Superseded(r, tracker)'
      BY <2>1, <2>3, <3>1, <3>5, <3>6 DEF Superseded
    <3> QED BY <2>1, <2>3, <3>7 DEF GivenUp
  <2>4. ASSUME NEW r \in RoleSet, tracker \in Versions, GivenUp(r) PROVE GivenUp(r)'
    <3>1. Keep[r] = 1 /\ r \in Registered
      BY <2>1, <2>4 DEF GivenUp
    <3>2. pc \notin {"train", "down", "failed"}
      BY <1>0, <3>1, RegisteredStep
    <3>3. \A k \in Ranks : shards[r][version][k] = Now
      BY <3>1 DEF WrittenInv
    <3> QED BY <2>3, <2>4, <3>1, <3>2, <3>3
  <2>5. ASSUME NEW r \in RoleSet, NEW k \in Ranks, tracker \in Versions
        PROVE  \/ shards'[r][tracker][k] = shards[r][tracker][k]
               \/ shards'[r][tracker][k] = None /\ GivenUp(r)'
    <3>1. \/ shards'[r][tracker][k] = shards[r][tracker][k]
          \/ shards'[r][tracker][k] = None /\ r = Role /\ tracker \in BeingRemoved
      BY <1>0, <1>12, <2>5, CrashEffect
    <3>2. CASE shards'[r][tracker][k] = None /\ r = Role /\ tracker \in BeingRemoved
      <4>1. pc = "register" /\ Keep[r] = 1
        BY <1>1, <2>2, <2>5, <3>2
      <4>2. \A q \in Ranks : shards[r][version][q] = Now
        BY <3>2, <4>1 DEF WrittenInv
      <4> QED BY <2>3, <2>5, <3>2, <4>1, <4>2
    <3> QED BY <3>1, <3>2
  <2> QED BY <1>2, <2>1, <2>4, <2>5
<1>13. CASE StartAnew
  BY <1>13, Parameters DEF StartAnew, RestartUnchanged, disk, TrackedInv
<1>14. CASE Resume
  <2>1. UNCHANGED disk /\ Loadable(tracker)
    BY <1>14 DEF Resume, RestartUnchanged
  <2>2. \A r \in RoleSet, k \in Ranks : shards[r][tracker][k] # None
    BY <2>1 DEF Loadable
  <2> QED BY <2>1, <2>2 DEF TrackedInv, disk
<1>15. CASE FailToResume
  <2>1. UNCHANGED disk /\ pc = "down" /\ pc' = "failed"
    BY <1>15 DEF FailToResume
  <2>2. \A r \in RoleSet : GivenUp(r) => GivenUp(r)'
    BY <2>1 DEF GivenUp, Superseded, disk
  <2> QED BY <1>2, <2>1, <2>2 DEF disk
<1> QED
  BY <1>4, <1>5, <1>6, <1>7, <1>8, <1>9, <1>10, <1>11, <1>12, <1>13, <1>14, <1>15 DEF Next

LEMMA TrackedStep == SaveInv /\ [Next]_vars => TrackedInv'
<1>1. SaveInv => BaseInv /\ PathsInv /\ WrittenInv /\ TrackedInv
  BY DEF SaveInv
<1>2. [Next]_vars => Next \/ UNCHANGED vars
  OBVIOUS
<1> QED BY <1>1, <1>2, TrackedNext, TrackedSame, Zenon

LEMMA PromptStep == SaveInv /\ [Next]_vars => PromptInv'
<1> SUFFICES ASSUME BaseInv, TrackedInv, PromptInv, Next PROVE PromptInv'
  BY DEF SaveInv, vars, memory, rollout, PromptInv, Running
<1>0. drawn \in Nat /\ TypeOK
  BY DEF BaseInv, TypeOK
<1> USE DEF PromptInv, Running
<1>1. CASE Feed
  BY <1>0, <1>1 DEF Feed, memory
<1>2. CASE Train
  BY <1>2 DEF Train
<1>3. CASE BeginSave \/ EnsureCapacity \/ Register \/ OpenData \/ WriteData
  BY <1>3 DEF BeginSave, EnsureCapacity, Register, OpenData, WriteData, rollout
<1>4. ASSUME NEW k \in Ranks, OpenShard(k) \/ WriteShard(k)
      PROVE  PromptInv'
  BY <1>4 DEF OpenShard, WriteShard, rollout
<1>5. CASE OpenTracker \/ WriteTracker
  BY <1>5 DEF OpenTracker, WriteTracker, memory, rollout
<1>6. CASE Crash
  BY <1>6 DEF Crash
<1>7. CASE StartAnew
  BY <1>7 DEF StartAnew, RestartUnchanged
<1>8. CASE Resume
  <2>1. pc' = "train" /\ inflight' = {}
    BY <1>8 DEF Resume, RestartUnchanged
  <2>2. PICK s \in Snapshot :
          /\ \A r \in RoleSet, k \in Ranks : shards[r][tracker][k] = s
          /\ data[tracker] \in Position /\ s.trained \subseteq 1..data[tracker].drawn
    BY <1>8 DEF Resume, Loadable, TrackedInv
  <2>3. Roles[1] \in RoleSet
    BY Parameters DEF RoleSet
  <2>4. trained' = s.trained
    BY <1>8, <2>2, <2>3 DEF Resume
  <2>5. data[tracker] # None
    BY <2>2, Parameters
  <2>6. drawn' = data[tracker].drawn
    BY <1>8, <2>5 DEF Resume
  <2> QED BY <2>1, <2>2, <2>4, <2>6
<1>9. CASE FailToResume
  BY <1>9 DEF FailToResume, memory, rollout
<1> QED BY <1>1, <1>2, <1>3, <1>4, <1>5, <1>6, <1>7, <1>8, <1>9 DEF Next

LEMMA SaveInvariant == Spec => []SaveInv
<1>1. Init => SaveInv
  <2> SUFFICES ASSUME Init PROVE SaveInv
    OBVIOUS
  <2>1. PathsInv
    BY DEF Init, PathsInv, Sorted, Running
  <2>2. WrittenInv
    BY DEF Init, WrittenInv, Registered
  <2>3. TrackedInv
    BY Parameters DEF Init, TrackedInv
  <2>4. PromptInv
    BY DEF Init, PromptInv, Running
  <2> QED BY <2>1, <2>2, <2>3, <2>4, InitBase DEF SaveInv
<1>2. SaveInv /\ [Next]_vars => SaveInv'
  <2> SUFFICES ASSUME SaveInv, [Next]_vars PROVE SaveInv'
    OBVIOUS
  <2>1. BaseInv'
    BY TypeStep, TrackerStep DEF SaveInv, BaseInv
  <2>2. PathsInv' /\ WrittenInv' /\ TrackedInv' /\ PromptInv'
    BY PathsStep, WrittenStep, TrackedStep, PromptStep DEF SaveInv
  <2> QED BY <2>1, <2>2 DEF SaveInv
<1> QED BY <1>1, <1>2, PTL DEF Spec

\* A role that gave up the tracked checkpoint has a newer one.
LEMMA GivenUpSuperseded ==
  ASSUME SaveInv, NEW r \in RoleSet, tracker \in Versions, GivenUp(r)
  PROVE  Superseded(r, tracker)
<1>1. CASE ~Running
  BY <1>1 DEF GivenUp
<1>2. CASE Running
  <2>1. Keep[r] = 1 /\ r \in Registered
    BY <1>2 DEF GivenUp
  <2>2. TypeOK /\ pc \notin {"train", "down", "failed"}
    BY <2>1 DEF Registered, SaveInv, BaseInv
  <2>3. last < version /\ version \in Versions /\ tracker = last
    BY <2>2, Parameters
       DEF SaveInv, BaseInv, VersionInv, TrackerInv, Saving, Running, TypeOK, Versions
  <2>4. \A k \in Ranks : shards[r][version][k] = Now
    BY <2>1 DEF SaveInv, WrittenInv
  <2> QED BY <2>1, <2>2, <2>3, <2>4, NextSupersedes
<1> QED BY <1>1, <1>2

\* The tracker file always names a checkpoint that one save wrote, in full but for
\* what a role with a limit of one gave up: both rotations, a save over the remains
\* of a crashed one and a crash anywhere leave it alone.
THEOREM TrackerNamesWhole == Spec => []TrackedIsWhole
<1>1. SaveInv => TrackedIsWhole
  <2> SUFFICES ASSUME SaveInv, tracker \in Versions
               PROVE  /\ data[tracker] # None
                      /\ \A s, t \in Parts(tracker) \ {None} :
                           s = t /\ s.life = data[tracker].life
                      /\ \A r \in RoleSet, k \in Ranks :
                           shards[r][tracker][k] = None => Superseded(r, tracker)
    BY Zenon DEF TrackedIsWhole
  <2>1. PICK s \in Snapshot :
          /\ \A r \in RoleSet, k \in Ranks :
               shards[r][tracker][k] = s \/ (shards[r][tracker][k] = None /\ GivenUp(r))
          /\ data[tracker] \in Position /\ data[tracker].life = s.life
    BY DEF SaveInv, TrackedInv
  <2>2. None \notin Snapshot /\ None \notin Position
    BY Parameters
  <2>3. Parts(tracker) \ {None} \subseteq {s}
    BY <2>1 DEF Parts
  <2>4. ASSUME NEW r \in RoleSet, NEW k \in Ranks, shards[r][tracker][k] = None
        PROVE  Superseded(r, tracker)
    BY <2>1, <2>2, <2>4, GivenUpSuperseded
  <2> QED BY <2>1, <2>2, <2>3, <2>4
<1> QED BY <1>1, SaveInvariant, PTL

\* No prompt is trained twice in the weights, over any number of crashes: what is
\* resumed goes on with the data behind every prompt of the weights.
THEOREM NoPromptTwice == Spec => []NothingTwice
<1>1. SaveInv => NothingTwice
  BY DEF SaveInv, PromptInv, NothingTwice
<1> QED BY <1>1, SaveInvariant, PTL

\* A job that cannot be resumed was stopped between the opening and the writing of
\* the tracker file, or a role with a limit of one gave the tracked checkpoint up.
THEOREM OnlyTornOrGivenUpFails == Spec => []RestartSucceeds
<1>1. Init => RestartSucceeds
  BY DEF Init, RestartSucceeds
<1>2. SaveInv /\ RestartSucceeds /\ [Next]_vars => RestartSucceeds'
  <2> SUFFICES ASSUME SaveInv, RestartSucceeds, [Next]_vars, pc' = "failed"
               PROVE  RestartSucceeds'
    BY DEF RestartSucceeds
  <2>1. CASE FailToResume
    <3>1. /\ UNCHANGED disk
          /\ tracker = Torn \/ (tracker \in Versions /\ ~Loadable(tracker))
      BY <2>1 DEF FailToResume
    <3>2. ASSUME tracker \in Versions, ~Loadable(tracker)
          PROVE  \E r \in RoleSet : Superseded(r, tracker)
      <4>1. PICK r \in RoleSet, k \in Ranks : shards[r][tracker][k] = None
        BY <3>2 DEF Loadable
      <4>2. GivenUp(r)
        BY <3>2, <4>1, Parameters DEF SaveInv, TrackedInv
      <4> QED BY <3>2, <4>1, <4>2, GivenUpSuperseded
    <3> QED BY <3>1, <3>2 DEF RestartSucceeds, Superseded, disk
  <2>2. CASE UNCHANGED vars
    BY <2>2 DEF vars, disk, RestartSucceeds, Superseded
  <2>3. FailToResume \/ UNCHANGED vars
    BY DEF Next, Feed, Train, BeginSave, EnsureCapacity, OpenShard, WriteShard, Register,
           OpenData, WriteData, OpenTracker, WriteTracker, Crash, StartAnew, Resume
  <2> QED BY <2>1, <2>2, <2>3
<1> QED BY <1>1, <1>2, SaveInvariant, PTL DEF Spec

-----------------------------------------------------------------------------
(* What this job has on disk. *)

Mine(r, v, k) == shards[r][v][k] # None /\ shards[r][v][k].life = life
Own(r) == {v \in Versions : \E k \in Ranks : Mine(r, v, k)}
Values(list) == {list[i] : i \in DOMAIN list}

\* The version that a manager writes and does not know yet.
Pending(r) == IF pc \in {"write", "register"} /\ r = Role THEN {version} ELSE {}

\* No shard is of a later job.  What a manager knows is on disk, and of this job
\* there is nothing else but the version being written, of which the shards of the
\* ranks that are done are there.
RotationInv ==
  /\ \A r \in RoleSet, v \in Versions, k \in Ranks :
       shards[r][v][k] # None => shards[r][v][k].life <= life
  /\ Running => \A r \in RoleSet :
       /\ Values(paths[r]) \subseteq Own(r)
       /\ Own(r) \subseteq Values(paths[r]) \cup Pending(r)
       /\ Keep[r] > 0 => Len(paths[r]) <= Keep[r]
  /\ pc = "write" => \A k \in Ranks \ (unopened \cup writing) : Mine(Role, version, k)
  /\ pc = "register" => \A k \in Ranks : Mine(Role, version, k)

\* The versions that a shortened list keeps are those that are not the oldest.
LEMMA ShortenedList ==
  ASSUME NEW list \in Seq(Versions), NEW limit \in Int, NEW bound \in Int, Sorted(list, bound)
  PROVE  LET rest == SubSeq(list, Surplus(list, limit) + 1, Len(list))
         IN  /\ Values(rest) = Values(list) \ Oldest(list, limit)
             /\ limit > 0 => Len(rest) <= limit
<1> DEFINE s == Surplus(list, limit)
           rest == SubSeq(list, s + 1, Len(list))
<1>1. /\ s \in 0..Len(list) /\ Len(list) \in Nat /\ DOMAIN list = 1..Len(list)
      /\ rest \in Seq(Versions) /\ Len(rest) = Len(list) - s /\ DOMAIN rest = 1..Len(rest)
      /\ \A i \in 1..Len(rest) : rest[i] = list[i + s] /\ i + s \in 1..Len(list)
  <2>1. s \in 0..Len(list) /\ Len(list) \in Nat
    BY SurplusRange
  <2>2. /\ rest \in Seq(Versions) /\ Len(rest) = Len(list) - s
        /\ \A i \in 1..Len(rest) : rest[i] = list[i + s] /\ i + s \in 1..Len(list)
    BY RestOfList
  <2> HIDE DEF s, rest
  <2>3. DOMAIN list = 1..Len(list) /\ DOMAIN rest = 1..Len(rest)
    BY <2>2
  <2> QED BY <2>1, <2>2, <2>3
<1>2. Oldest(list, limit) = {list[i] : i \in 1..s}
  BY DEF Oldest
<1>3. \A i, j \in 1..Len(list) : list[i] = list[j] => i = j
  <2> SUFFICES ASSUME NEW i \in 1..Len(list), NEW j \in 1..Len(list), list[i] = list[j]
               PROVE  i = j
    OBVIOUS
  <2>1. list[i] \in Int /\ list[j] \in Int /\ i \in Int /\ j \in Int
    BY <1>1, InList
  <2>2. /\ i < j => list[i] < list[j]
        /\ j < i => list[j] < list[i]
    BY DEF Sorted
  <2> QED BY <2>1, <2>2
<1>4. limit > 0 => Len(rest) <= limit
  BY <1>1 DEF Surplus
<1> HIDE DEF s, rest
<1>5. ASSUME NEW i \in 1..Len(rest)
      PROVE  rest[i] \in Values(list) /\ rest[i] \notin Oldest(list, limit)
  <2>1. rest[i] = list[i + s] /\ i + s \in 1..Len(list) /\ i + s \notin 1..s
    BY <1>1
  <2>2. 1..s \subseteq 1..Len(list)
    BY <1>1
  <2>3. rest[i] \in Values(list)
    BY <1>1, <2>1 DEF Values
  <2>4. ASSUME NEW j \in 1..s, rest[i] = list[j] PROVE FALSE
    BY <1>3, <2>1, <2>2, <2>4
  <2> QED BY <1>2, <2>3, <2>4
<1>6. ASSUME NEW j \in 1..Len(list), list[j] \notin Oldest(list, limit)
      PROVE  list[j] \in Values(rest)
  <2>1. j \notin 1..s
    BY <1>2, <1>6
  <2>2. j - s \in 1..Len(rest) /\ (j - s) + s = j
    BY <1>1, <2>1
  <2> QED BY <1>1, <2>2 DEF Values
<1>7. Values(rest) = Values(list) \ Oldest(list, limit)
  BY <1>1, <1>5, <1>6 DEF Values
<1> QED BY <1>4, <1>7 DEF rest, s

\* A rotation removes the same versions from the disk and from the list.
LEMMA RotateOwn ==
  ASSUME TypeOK, NEW list \in Seq(Versions), NEW limit \in Int, NEW bound \in Int,
         Sorted(list, bound), Rotate(list, limit), life' = life
  PROVE  /\ \A r \in RoleSet \ {Role} : paths'[r] = paths[r] /\ Own(r)' = Own(r)
         /\ \A r \in {Role} :
              /\ Values(paths'[r]) = Values(list) \ Oldest(list, limit)
              /\ Own(r)' = Own(r) \ Oldest(list, limit)
              /\ limit > 0 => Len(paths'[r]) <= limit
         /\ \A r \in RoleSet, v \in Versions, k \in Ranks :
              shards'[r][v][k] \in {shards[r][v][k], None}
<1>1. /\ \A r \in RoleSet, v \in Versions, k \in Ranks :
           shards'[r][v][k] =
             IF r = Role /\ v \in Oldest(list, limit) THEN None ELSE shards[r][v][k]
      /\ \A r \in RoleSet \ {Role} : paths'[r] = paths[r]
      /\ paths'[Role] = SubSeq(list, Surplus(list, limit) + 1, Len(list))
  BY RotateEffect
<1>2. Role \in RoleSet
  BY RoleType
<1>3. ASSUME NEW r \in RoleSet, r # Role PROVE Own(r)' = Own(r)
  BY <1>1, <1>3 DEF Own, Mine
<1>4. ASSUME NEW r \in {Role} PROVE Own(r)' = Own(r) \ Oldest(list, limit)
  <2>1. \A v \in Versions, k \in Ranks :
          shards'[r][v][k] = IF v \in Oldest(list, limit) THEN None ELSE shards[r][v][k]
    BY <1>1, <1>2
  <2> QED BY <2>1 DEF Own, Mine
<1>5. /\ Values(paths'[Role]) = Values(list) \ Oldest(list, limit)
      /\ limit > 0 => Len(paths'[Role]) <= limit
  <2>1. paths'[Role] = SubSeq(list, Surplus(list, limit) + 1, Len(list))
    BY <1>1
  <2>2. LET rest == SubSeq(list, Surplus(list, limit) + 1, Len(list))
        IN  /\ Values(rest) = Values(list) \ Oldest(list, limit)
            /\ limit > 0 => Len(rest) <= limit
    BY ShortenedList
  <2> QED BY <2>1, <2>2
<1>6. \A r \in RoleSet \ {Role} : paths'[r] = paths[r] /\ Own(r)' = Own(r)
  BY <1>1, <1>3
<1>7. \A r \in RoleSet, v \in Versions, k \in Ranks :
        shards'[r][v][k] \in {shards[r][v][k], None}
  BY <1>1
<1> QED BY <1>4, <1>5, <1>6, <1>7, Zenon

\* A manager does not know the version that is being saved before it registers it.
LEMMA NotKnownYet ==
  ASSUME BaseInv, PathsInv, pc \in {"ensure", "write", "register"}
  PROVE  /\ Role \in RoleSet /\ paths[Role] \in Seq(Versions) /\ Sorted(paths[Role], last)
         /\ version \in Versions /\ last \in Int /\ last < version
         /\ version \notin Values(paths[Role])
<1>1. /\ TypeOK /\ Role \in RoleSet /\ paths[Role] \in Seq(Versions) /\ last \in Int
      /\ version \in Versions /\ version \in Int /\ last < version
  BY RoleType DEF BaseInv, TypeOK, VersionInv, Saving, Running, Versions
<1>2. Role \notin Registered
  BY <1>1, OpenRole
<1>3. Sorted(paths[Role], last)
  BY <1>1, <1>2, Zenon DEF PathsInv
<1>4. ASSUME NEW i \in 1..Len(paths[Role]) PROVE paths[Role][i] # version
  BY <1>1, <1>3, InList DEF Sorted
<1>5. DOMAIN paths[Role] = 1..Len(paths[Role])
  BY <1>1
<1> QED BY <1>1, <1>3, <1>4, <1>5 DEF Values

LEMMA RotationStep == BaseInv /\ PathsInv /\ RotationInv /\ [Next]_vars => RotationInv'
<1> SUFFICES ASSUME BaseInv, PathsInv, RotationInv, [Next]_vars PROVE RotationInv'
  OBVIOUS
<1>0. /\ TypeOK /\ Role \in RoleSet /\ life \in Nat /\ Ranks # {}
      /\ \A r \in RoleSet : Keep[r] \in Nat
      /\ shards \in [RoleSet -> [Versions -> [Ranks -> Snapshot \cup {None}]]]
  BY RoleType, Parameters, CheckpointAssumption DEF BaseInv, TypeOK, Lives
<1> USE DEF Running
<1>i. /\ \A r \in RoleSet, v \in Versions, k \in Ranks :
           shards[r][v][k] # None => shards[r][v][k].life <= life
      /\ pc \notin {"down", "failed"} => \A r \in RoleSet :
           /\ Values(paths[r]) \subseteq Own(r)
           /\ Own(r) \subseteq Values(paths[r]) \cup Pending(r)
           /\ Keep[r] > 0 => Len(paths[r]) <= Keep[r]
      /\ pc = "write" => \A k \in Ranks \ (unopened \cup writing) : Mine(Role, version, k)
      /\ pc = "register" => \A k \in Ranks : Mine(Role, version, k)
  BY DEF RotationInv
<1>1. CASE Feed \/ UNCHANGED vars
  <2>1. UNCHANGED <<pc, stage, unopened, writing, version, life, paths, shards>>
    BY <1>1 DEF Feed, vars, memory, disk
  <2> QED BY <1>i, <2>1 DEF RotationInv, Own, Mine, Pending, Role
<1>2. CASE \/ Train \/ BeginSave \/ OpenData \/ WriteData \/ OpenTracker \/ WriteTracker
           \/ FailToResume
  <2>1. /\ UNCHANGED <<life, paths, shards>>
        /\ pc \notin {"write", "register"} /\ pc' \notin {"write", "register"}
        /\ Running' => Running
    BY <1>2 DEF Train, BeginSave, OpenData, WriteData, OpenTracker, WriteTracker, FailToResume,
                memory, disk
  <2>2. \A r \in RoleSet : Own(r)' = Own(r) /\ Pending(r)' = Pending(r)
    BY <2>1 DEF Own, Mine, Pending
  <2> QED BY <1>i, <2>1, <2>2 DEF RotationInv
<1>3. CASE EnsureCapacity
  <2>1. /\ pc = "ensure" /\ pc' = "write" /\ unopened' = Ranks /\ UNCHANGED <<life, stage>>
        /\ Rotate(paths[Role], Keep[Role] - 1)
    BY <1>3 DEF EnsureCapacity
  <2>2. paths[Role] \in Seq(Versions) /\ Sorted(paths[Role], last) /\ last \in Int
    BY <2>1, NotKnownYet
  <2>3. /\ \A r \in RoleSet \ {Role} : paths'[r] = paths[r] /\ Own(r)' = Own(r)
        /\ \A r \in {Role} :
             /\ Values(paths'[r]) = Values(paths[Role]) \ Oldest(paths[Role], Keep[Role] - 1)
             /\ Own(r)' = Own(r) \ Oldest(paths[Role], Keep[Role] - 1)
             /\ Keep[Role] - 1 > 0 => Len(paths'[r]) <= Keep[Role] - 1
        /\ \A r \in RoleSet, v \in Versions, k \in Ranks :
             shards'[r][v][k] \in {shards[r][v][k], None}
    <3>1. Keep[Role] - 1 \in Int
      BY <1>0
    <3> QED BY <1>0, <2>1, <2>2, <3>1, RotateOwn
  <2>4. \A r \in RoleSet : Pending(r) = {}
    BY <2>1 DEF Pending
  <2>5. ASSUME NEW r \in RoleSet
        PROVE  /\ Values(paths'[r]) \subseteq Own(r)' /\ Own(r)' \subseteq Values(paths'[r])
               /\ Keep[r] > 0 => Len(paths'[r]) <= Keep[r]
    <3>1. CASE r # Role
      BY <1>i, <2>1, <2>3, <2>4, <3>1
    <3>2. CASE r = Role
      <4>1. Values(paths'[r]) \subseteq Own(r)' /\ Own(r)' \subseteq Values(paths'[r])
        BY <1>i, <2>1, <2>3, <2>4, <3>2
      <4>2. CASE Keep[r] = 1
        <5>1. Surplus(paths[Role], Keep[Role] - 1) = 0
          BY <3>2, <4>2 DEF Surplus
        <5>2. paths'[r] = SubSeq(paths[Role], 1, Len(paths[Role]))
          <6>1. Keep[Role] - 1 \in Int
            BY <1>0
          <6>2. paths'[Role] =
                  SubSeq(paths[Role], Surplus(paths[Role], Keep[Role] - 1) + 1, Len(paths[Role]))
            BY <1>0, <2>1, <2>2, <6>1, RotateEffect
          <6> QED BY <3>2, <5>1, <6>2
        <5>3. paths'[r] = paths[r]
          BY <2>2, <3>2, <5>2
        <5> QED BY <1>i, <2>1, <4>1, <5>3
      <4>3. CASE Keep[r] > 1
        <5>1. Len(paths'[r]) <= Keep[r] - 1
          BY <1>0, <2>3, <3>2, <4>3
        <5>2. Len(paths'[r]) \in Nat
          <6>1. TypeOK'
            BY TypeStep
          <6> QED BY <6>1 DEF TypeOK
        <5> QED BY <1>0, <4>1, <5>1, <5>2
      <4> QED BY <1>0, <4>1, <4>2, <4>3
    <3> QED BY <3>1, <3>2
  <2>6. \A r \in RoleSet, v \in Versions, k \in Ranks :
          shards'[r][v][k] # None => shards'[r][v][k].life <= life'
    BY <1>i, <2>1, <2>3
  <2> QED BY <2>1, <2>5, <2>6 DEF RotationInv
<1>4. ASSUME NEW k \in Ranks, OpenShard(k) \/ WriteShard(k)
      PROVE  RotationInv'
  <2>1. /\ pc = "write" /\ pc' \in {"write", "register"}
        /\ UNCHANGED <<life, stage, version, paths>>
        /\ Role' = Role
    BY <1>4 DEF OpenShard, WriteShard, Role
  <2>2. version \in Versions /\ version \notin Values(paths[Role])
    BY <2>1, NotKnownYet
  <2>3. [life |-> life, trained |-> trained] \in Snapshot /\ None \notin Snapshot
    BY <1>0, Parameters DEF TypeOK, Snapshot
  <2>4. PICK x \in Snapshot \cup {None} :
          /\ x # None => x.life = life
          /\ \A r \in RoleSet, v \in Versions, q \in Ranks :
               shards'[r][v][q] =
                 IF r = Role /\ v = version /\ q = k THEN x ELSE shards[r][v][q]
          /\ OpenShard(k) \/ x # None
    <3>1. CASE OpenShard(k)
      <4>1. shards' = [shards EXCEPT ![Role][version][k] = None]
        BY <3>1 DEF OpenShard
      <4>2. \A r \in RoleSet, v \in Versions, q \in Ranks :
              shards'[r][v][q] =
                IF r = Role /\ v = version /\ q = k THEN None ELSE shards[r][v][q]
        BY <1>0, <2>2, <4>1, ShardEffect
      <4> QED BY <3>1, <4>2
    <3>2. CASE WriteShard(k)
      <4>1. shards' = [shards EXCEPT ![Role][version][k] = [life |-> life, trained |-> trained]]
        BY <3>2 DEF WriteShard
      <4>2. [life |-> life, trained |-> trained].life = life
        OBVIOUS
      <4>3. \A r \in RoleSet, v \in Versions, q \in Ranks :
              shards'[r][v][q] = IF r = Role /\ v = version /\ q = k
                                   THEN [life |-> life, trained |-> trained]
                                   ELSE shards[r][v][q]
        <5> DEFINE now == [life |-> life, trained |-> trained]
        <5>1. now \in Snapshot \cup {None} /\ shards' = [shards EXCEPT ![Role][version][k] = now]
          BY <2>3, <4>1
        <5> HIDE DEF now
        <5>2. \A r \in RoleSet, v \in Versions, q \in Ranks :
                shards'[r][v][q] =
                  IF r = Role /\ v = version /\ q = k THEN now ELSE shards[r][v][q]
          BY <1>0, <2>2, <5>1, ShardEffect
        <5> QED BY <5>2 DEF now
      <4> QED BY <2>3, <4>2, <4>3
    <3> QED BY <1>4, <3>1, <3>2
  <2>5. \A r \in RoleSet, v \in Versions, q \in Ranks :
          shards'[r][v][q] # None => shards'[r][v][q].life <= life'
    BY <1>0, <1>i, <2>1, <2>4
  <2>6. \A r \in RoleSet, v \in Versions, q \in Ranks :
          r # Role \/ v # version \/ q # k => (Mine(r, v, q)' <=> Mine(r, v, q))
    BY <2>1, <2>4 DEF Mine
  <2>7. ASSUME NEW r \in RoleSet
        PROVE  /\ Values(paths'[r]) \subseteq Own(r)'
               /\ Own(r)' \subseteq Values(paths'[r]) \cup Pending(r)'
               /\ Keep[r] > 0 => Len(paths'[r]) <= Keep[r]
    <3>1. CASE r # Role
      <4>1. Own(r)' = Own(r) /\ Pending(r) = {}
        BY <2>6, <3>1 DEF Own, Pending
      <4> QED BY <1>i, <2>1, <4>1
    <3>2. CASE r = Role
      <4>1. Pending(r) = {version} /\ Pending(r)' = {version}
        BY <2>1, <3>2 DEF Pending
      <4>2. \A v \in Versions : v # version => (v \in Own(r)' <=> v \in Own(r))
        BY <2>6 DEF Own
      <4>3. Own(r)' \subseteq Versions /\ Own(r) \subseteq Versions
        BY DEF Own
      <4>4. /\ Values(paths[r]) \subseteq Own(r) /\ version \notin Values(paths[r])
            /\ Own(r) \subseteq Values(paths[r]) \cup {version}
            /\ Keep[r] > 0 => Len(paths'[r]) <= Keep[r]
        BY <1>i, <2>1, <2>2, <3>2, <4>1
      <4> QED BY <2>1, <4>1, <4>2, <4>3, <4>4
    <3> QED BY <3>1, <3>2
  <2>8. \A q \in Ranks \ (unopened' \cup writing') : Mine(Role, version, q)'
    <3> SUFFICES ASSUME NEW q \in Ranks \ (unopened' \cup writing') PROVE Mine(Role, version, q)'
      OBVIOUS
    <3>1. CASE q = k
      <4>1. ~OpenShard(k)
        BY <3>1 DEF OpenShard
      <4>2. shards'[Role][version][k] = x /\ x # None /\ x.life = life
        BY <1>0, <2>2, <2>4, <4>1
      <4> QED BY <2>1, <3>1, <4>2 DEF Mine
    <3>2. CASE q # k
      <4>1. q \notin unopened \cup writing
        BY <1>4, <3>2 DEF OpenShard, WriteShard
      <4>2. Mine(Role, version, q)
        BY <1>i, <2>1, <4>1
      <4>3. shards'[Role][version][q] = shards[Role][version][q]
        BY <1>0, <2>2, <2>4, <3>2
      <4> QED BY <2>1, <4>2, <4>3 DEF Mine
    <3> QED BY <3>1, <3>2
  <2>9. pc' = "register" => unopened' = {} /\ writing' = {}
    BY <1>4, <2>1 DEF OpenShard, WriteShard
  <2> QED BY <2>1, <2>5, <2>7, <2>8, <2>9 DEF RotationInv
<1>5. CASE Register
  <2> DEFINE more == Append(paths[Role], version)
  <2>1. /\ pc = "register" /\ pc' \in {"ensure", "data"} /\ life' = life
        /\ Rotate(more, Keep[Role])
    BY <1>5 DEF Register
  <2>2. /\ paths[Role] \in Seq(Versions) /\ Sorted(paths[Role], last) /\ version \in Versions
        /\ last \in Int /\ last < version
    BY <2>1, NotKnownYet
  <2>3. /\ more \in Seq(Versions) /\ Sorted(more, version) /\ version \in Int
        /\ Values(more) = Values(paths[Role]) \cup {version}
    <3>1. /\ more \in Seq(Versions) /\ Len(more) = Len(paths[Role]) + 1
          /\ Len(paths[Role]) \in Nat
          /\ more[Len(paths[Role]) + 1] = version
          /\ \A i \in 1..Len(paths[Role]) : more[i] = paths[Role][i]
      BY <2>2, AppendProperties
    <3>2. Sorted(more, version) /\ version \in Int
      BY <2>2, SortedAppend DEF Versions
    <3>3. DOMAIN paths[Role] = 1..Len(paths[Role]) /\ DOMAIN more = 1..Len(more)
      BY <2>2, <3>1
    <3> HIDE DEF more
    <3>4. 1..(Len(paths[Role]) + 1) = 1..Len(paths[Role]) \cup {Len(paths[Role]) + 1}
      BY <3>1
    <3>5. Values(more) = Values(paths[Role]) \cup {version}
      BY <3>1, <3>3, <3>4 DEF Values
    <3> QED BY <3>1, <3>2, <3>5
  <2> HIDE DEF more
  <2>4. Values(more) = Own(Role)
    <3>1. version \in Own(Role)
      BY <1>0, <1>i, <2>1, <2>2 DEF Own
    <3>2. Pending(Role) = {version}
      BY <2>1 DEF Pending
    <3> QED BY <1>0, <1>i, <2>1, <2>3, <3>1, <3>2
  <2>5. /\ \A r \in RoleSet \ {Role} : paths'[r] = paths[r] /\ Own(r)' = Own(r)
        /\ \A r \in {Role} :
             /\ Values(paths'[r]) = Values(more) \ Oldest(more, Keep[Role])
             /\ Own(r)' = Own(r) \ Oldest(more, Keep[Role])
             /\ Keep[Role] > 0 => Len(paths'[r]) <= Keep[Role]
        /\ \A r \in RoleSet, v \in Versions, k \in Ranks :
             shards'[r][v][k] \in {shards[r][v][k], None}
    <3>1. Keep[Role] \in Int
      BY <1>0
    <3> QED BY <1>0, <2>1, <2>3, <3>1, RotateOwn
  <2>6. ASSUME NEW r \in RoleSet
        PROVE  /\ Values(paths'[r]) \subseteq Own(r)' /\ Own(r)' \subseteq Values(paths'[r])
               /\ Keep[r] > 0 => Len(paths'[r]) <= Keep[r]
    <3>1. CASE r # Role
      <4>1. Pending(r) = {}
        BY <3>1 DEF Pending
      <4> QED BY <1>i, <2>1, <2>5, <3>1, <4>1
    <3>2. CASE r = Role
      BY <2>4, <2>5, <3>2
    <3> QED BY <3>1, <3>2
  <2>7. \A r \in RoleSet, v \in Versions, k \in Ranks :
          shards'[r][v][k] # None => shards'[r][v][k].life <= life'
    BY <1>i, <2>1, <2>5
  <2> QED BY <2>1, <2>6, <2>7 DEF RotationInv
<1>6. CASE Crash
  <2>1. pc' = "down" /\ life' = life
    BY <1>6 DEF Crash
  <2>2. \A r \in RoleSet, v \in Versions, k \in Ranks :
          shards'[r][v][k] # None => shards'[r][v][k].life <= life'
    BY <1>0, <1>6, <1>i, <2>1, CrashEffect
  <2> QED BY <2>1, <2>2 DEF RotationInv
<1>7. CASE StartAnew \/ Resume
  <2>1. /\ pc = "down" /\ pc' = "train" /\ life' = life + 1 /\ UNCHANGED <<paths, shards>>
    BY <1>7 DEF StartAnew, Resume, RestartUnchanged, disk
  <2>2. \A r \in RoleSet : paths'[r] = <<>>
    BY <2>1 DEF PathsInv
  <2>3. \A r \in RoleSet, v \in Versions, k \in Ranks :
          shards[r][v][k] # None => shards[r][v][k].life <= life /\ shards[r][v][k].life \in Nat
    BY <1>0, <1>i DEF Snapshot, Lives
  <2>4. \A r \in RoleSet, v \in Versions, k \in Ranks :
          shards'[r][v][k] # None => /\ shards'[r][v][k].life <= life'
                                     /\ shards'[r][v][k].life # life'
    BY <1>0, <2>1, <2>3
  <2>5. \A r \in RoleSet : Own(r)' = {}
    BY <2>4 DEF Own, Mine
  <2>6. \A r \in RoleSet : Values(paths'[r]) = {} /\ Len(paths'[r]) = 0
    BY <2>2 DEF Values
  <2>7. \A r \in RoleSet : /\ Values(paths'[r]) \subseteq Own(r)'
                           /\ Own(r)' \subseteq Values(paths'[r]) \cup Pending(r)'
                           /\ Keep[r] > 0 => Len(paths'[r]) <= Keep[r]
    <3> SUFFICES ASSUME NEW r \in RoleSet
                 PROVE  /\ Values(paths'[r]) \subseteq Own(r)'
                        /\ Own(r)' \subseteq Values(paths'[r]) \cup Pending(r)'
                        /\ Keep[r] > 0 => Len(paths'[r]) <= Keep[r]
      OBVIOUS
    <3>1. Values(paths'[r]) = {} /\ Own(r)' = {}
      BY <2>5, <2>6
    <3>2. Keep[r] > 0 => Len(paths'[r]) <= Keep[r]
      BY <1>0, <2>6
    <3> QED BY <3>1, <3>2
  <2>8. \A r \in RoleSet, v \in Versions, k \in Ranks :
          shards'[r][v][k] # None => shards'[r][v][k].life <= life'
    BY <2>4
  <2> QED BY <2>1, <2>7, <2>8 DEF RotationInv
<1> QED BY <1>1, <1>2, <1>3, <1>4, <1>5, <1>6, <1>7 DEF Next

\* Between two saves the checkpoints this job has on disk are those its managers know,
\* and no more than the limit, whatever the limits are and wherever jobs before it
\* crashed: neither rotation leaves a directory behind or removes one it keeps.
THEOREM RotationLeavesTheKept == Spec => []RotationIsExact
<1>1. Init => PathsInv /\ RotationInv
  <2> SUFFICES ASSUME Init PROVE PathsInv /\ RotationInv
    OBVIOUS
  <2>1. /\ \A r \in RoleSet : paths[r] = <<>> /\ Len(paths[r]) = 0 /\ Values(paths[r]) = {}
        /\ \A r \in RoleSet, v \in Versions, k \in Ranks : shards[r][v][k] = None
        /\ pc = "train"
    BY DEF Init, Values
  <2>2. PathsInv
    BY <2>1 DEF PathsInv, Sorted, Running
  <2>3. RotationInv
    BY <2>1, Parameters DEF RotationInv, Own, Mine
  <2> QED BY <2>2, <2>3
<1>2. BaseInv /\ PathsInv /\ RotationInv /\ [Next]_vars => (PathsInv /\ RotationInv)'
  BY PathsStep, RotationStep
<1>3. RotationInv => RotationIsExact
  <2> SUFFICES ASSUME RotationInv, pc = "train", NEW r \in RoleSet
               PROVE  /\ {v \in Versions : \E k \in Ranks : shards[r][v][k] # None
                                                            /\ shards[r][v][k].life = life}
                           = {paths[r][i] : i \in DOMAIN paths[r]}
                      /\ Keep[r] > 0 => Len(paths[r]) <= Keep[r]
    BY DEF RotationIsExact
  <2>1. /\ Values(paths[r]) \subseteq Own(r) /\ Own(r) \subseteq Values(paths[r])
        /\ Keep[r] > 0 => Len(paths[r]) <= Keep[r]
    BY DEF RotationInv, Running, Pending
  <2> QED BY <2>1 DEF Own, Mine, Values
<1> QED BY <1>1, <1>2, <1>3, BaseInvariant, PTL DEF Spec

=============================================================================
