---------------------------- MODULE Checkpoints ----------------------------
(***************************************************************************)
(* The checkpoints of verl's fully asynchronous training: how a version is *)
(* saved, how old ones are rotated out, and what a restarted job resumes   *)
(* from.                                                                   *)
(*                                                                         *)
(* A save goes through the managers of the roles (actor, then critic), the *)
(* data loader of the Rollouter and, last, the tracker file.  A manager    *)
(* runs in a process for each rank: rank 0 removes old directories before  *)
(* and after, every rank writes its shard, and two barriers are between.   *)
(* A job may crash between any two steps; its directories stay, its memory *)
(* is gone, and resume_mode "auto" follows the tracker file.               *)
(*                                                                         *)
(* A shard stands for the files of a rank (model, optimizer, extra state); *)
(* one that is missing or half written cannot be loaded.  Its contents are *)
(* the job that wrote it and the prompts its weights were trained on.      *)
(* Prompts are numbered in the order of the data loader.                   *)
(***************************************************************************)
EXTENDS Integers, Sequences, FiniteSets

CONSTANTS
  Roles,       \* the roles that are saved, in that order
  Ranks,       \* the processes of a role
  Keep,        \* max_ckpt_to_keep of each role; 0 is None, no limit
  SaveFreq,    \* trainer.save_freq; not positive: nothing is ever saved
  MaxVersion,  \* bound: versions
  MaxPrompts,  \* bound: prompts drawn from the data loader
  MaxLives,    \* bound: jobs, the first and the restarted ones
  None, Torn   \* what a file holds that is missing, or cut short

RoleSet == {Roles[i] : i \in DOMAIN Roles}
Versions == 1..MaxVersion
Prompts == 1..MaxPrompts
Lives == 1..MaxLives
Snapshot == [life : Lives, trained : SUBSET Prompts]
Position == [life : Lives, drawn : 0..MaxPrompts]

ASSUME CheckpointAssumption ==
  /\ Roles \in Seq(STRING) /\ Roles # <<>>
  /\ \A i, k \in DOMAIN Roles : Roles[i] = Roles[k] => i = k
  /\ Ranks # {} /\ Keep \in [RoleSet -> Nat]
  /\ SaveFreq \in Int
  /\ {MaxVersion, MaxLives} \subseteq Nat \ {0} /\ MaxPrompts \in Nat
  /\ None \notin Nat /\ Torn \notin Nat /\ None # Torn
  /\ None \notin Snapshot /\ None \notin Position

VARIABLES
  pc,        \* the trainer: "train", a stage of a save, or "down" or "failed"
  stage,     \* the index of the role that is saved
  unopened,  \* ranks that have not opened their shard
  writing,   \* ranks that write their shard
  version,   \* current_param_version
  last,      \* last_ckpt_version
  trained,   \* prompts the weights were trained on
  drawn,     \* prompts drawn by the feeder of the Rollouter
  inflight,  \* prompts drawn by this job and not yet trained
  paths,     \* previous_saved_paths of each role's manager
  position,  \* the state of the data loader, when it is being written
  life,      \* history: the job that runs
  shards,    \* on disk: the shard of each role, version and rank
  data,      \* on disk: data.pt of each version
  tracker    \* on disk: latest_checkpointed_iteration.txt

memory == <<stage, unopened, writing, version, last, trained, paths, position>>
rollout == <<drawn, inflight>>
disk == <<shards, data, tracker>>
vars == <<pc, memory, rollout, life, disk>>

Role == Roles[stage]

TypeOK ==
  /\ pc \in {"train", "ensure", "write", "register", "data", "loader", "tracker",
             "tracking", "down", "failed"}
  /\ stage \in DOMAIN Roles
  /\ unopened \subseteq Ranks /\ writing \subseteq Ranks
  /\ version \in 0..MaxVersion /\ last \in 0..MaxVersion
  /\ trained \subseteq Prompts /\ drawn \in 0..MaxPrompts /\ inflight \subseteq Prompts
  /\ paths \in [RoleSet -> Seq(Versions)]
  /\ position \in 0..MaxPrompts
  /\ life \in Lives /\ (pc = "down" => life < MaxLives)
  /\ shards \in [RoleSet -> [Versions -> [Ranks -> Snapshot \cup {None}]]]
  /\ data \in [Versions -> Position \cup {None}]
  /\ tracker \in Versions \cup {None, Torn}

Init ==
  /\ pc = "train" /\ stage = 1 /\ unopened = {} /\ writing = {}
  /\ version = 0 /\ last = 0 /\ trained = {} /\ drawn = 0 /\ inflight = {}
  /\ paths = [r \in RoleSet |-> <<>>] /\ position = 0 /\ life = 1
  /\ shards = [r \in RoleSet |-> [v \in Versions |-> [k \in Ranks |-> None]]]
  /\ data = [v \in Versions |-> None]
  /\ tracker = None

-----------------------------------------------------------------------------
(* Training. *)

\* The feeder goes on while a checkpoint is written.
Feed ==
  /\ pc \notin {"down", "failed"} /\ drawn < MaxPrompts
  /\ drawn' = drawn + 1
  /\ inflight' = inflight \cup {drawn + 1}
  /\ UNCHANGED <<pc, memory, life, disk>>

\* A version is trained on prompts in the order in which they are finished.  The
\* frequency does not let a version pass that is to be saved.
Train ==
  /\ pc = "train" /\ version < MaxVersion
  /\ SaveFreq > 0 /\ version # last => version % SaveFreq # 0
  /\ \E p \in inflight :
       /\ trained' = trained \cup {p}
       /\ inflight' = inflight \ {p}
  /\ version' = version + 1
  /\ UNCHANGED <<pc, stage, unopened, writing, last, paths, position, drawn, life, disk>>

-----------------------------------------------------------------------------
(* Saving. *)

\* _fit_save_checkpoint: by frequency, by force at the end, or because the plan
\* of the machine is about to expire; all of them only with a positive frequency.
BeginSave ==
  /\ pc = "train" /\ version # last /\ SaveFreq > 0
  /\ pc' = "ensure" /\ stage' = 1
  /\ UNCHANGED <<unopened, writing, version, last, trained, paths, position>>
  /\ UNCHANGED <<rollout, life, disk>>

\* Mutant of Surplus: room is made once more than the limit asks for.
SurplusAndOne(list, limit) ==
  IF limit > 0 /\ Len(list) >= limit THEN Len(list) - limit + 1 ELSE 0

\* How many paths, the oldest first, are beyond a limit; without a positive
\* limit there is none.
Surplus(list, limit) == IF limit > 0 /\ Len(list) > limit THEN Len(list) - limit ELSE 0

Oldest(list, limit) == {list[i] : i \in 1..Surplus(list, limit)}

\* Mutant of Rotate: the paths are forgotten and the directories stay.
RotateListOnly(list, limit) ==
  /\ UNCHANGED shards
  /\ paths' = [paths EXCEPT ![Role] = SubSeq(list, Surplus(list, limit) + 1, Len(list))]

\* remove_previous_save_local_path, and the shortened list.
Rotate(list, limit) ==
  /\ shards' = [shards EXCEPT ![Role] =
       [v \in Versions |-> IF v \in Oldest(list, limit) THEN [k \in Ranks |-> None] ELSE @[v]]]
  /\ paths' = [paths EXCEPT ![Role] = SubSeq(list, Surplus(list, limit) + 1, Len(list))]

\* ensure_checkpoint_capacity makes room for one, so for a limit of one it does
\* nothing.
EnsureCapacity ==
  /\ pc = "ensure"
  /\ Rotate(paths[Role], Keep[Role] - 1)
  /\ pc' = "write" /\ unopened' = Ranks
  /\ UNCHANGED <<stage, writing, version, last, trained, position>>
  /\ UNCHANGED <<rollout, life, data, tracker>>

OpenShard(k) ==
  /\ pc = "write" /\ k \in unopened
  /\ unopened' = unopened \ {k}
  /\ writing' = writing \cup {k}
  /\ shards' = [shards EXCEPT ![Role][version][k] = None]
  /\ UNCHANGED <<pc, stage, version, last, trained, paths, position>>
  /\ UNCHANGED <<rollout, life, data, tracker>>

\* The last rank that has written lets all pass the barrier.
WriteShard(k) ==
  /\ pc = "write" /\ k \in writing
  /\ writing' = writing \ {k}
  /\ shards' = [shards EXCEPT ![Role][version][k] = [life |-> life, trained |-> trained]]
  /\ pc' = IF writing = {k} /\ unopened = {} THEN "register" ELSE "write"
  /\ UNCHANGED <<stage, unopened, version, last, trained, paths, position>>
  /\ UNCHANGED <<rollout, life, data, tracker>>

\* register_checkpoint; then the next role, or the data loader.
Register ==
  /\ pc = "register"
  /\ Rotate(Append(paths[Role], version), Keep[Role])
  /\ IF stage < Len(Roles)
     THEN stage' = stage + 1 /\ pc' = "ensure"
     ELSE stage' = 1 /\ pc' = "data"
  /\ UNCHANGED <<unopened, writing, version, last, trained, position>>
  /\ UNCHANGED <<rollout, life, data, tracker>>

\* Mutant of OpenData: the prompts in flight are to be drawn again.
OpenDataRewound ==
  /\ pc = "data"
  /\ position' = drawn - Cardinality(inflight)
  /\ data' = [data EXCEPT ![version] = None]
  /\ pc' = "loader"
  /\ UNCHANGED <<stage, unopened, writing, version, last, trained, paths>>
  /\ UNCHANGED <<rollout, life, shards, tracker>>

\* save_checkpoint of the Rollouter: the state of the loader, then the file.
OpenData ==
  /\ pc = "data"
  /\ position' = drawn
  /\ data' = [data EXCEPT ![version] = None]
  /\ pc' = "loader"
  /\ UNCHANGED <<stage, unopened, writing, version, last, trained, paths>>
  /\ UNCHANGED <<rollout, life, shards, tracker>>

WriteData ==
  /\ pc = "loader"
  /\ data' = [data EXCEPT ![version] = [life |-> life, drawn |-> position]]
  /\ position' = 0
  /\ pc' = "tracker"
  /\ UNCHANGED <<stage, unopened, writing, version, last, trained, paths>>
  /\ UNCHANGED <<rollout, life, shards, tracker>>

\* open(.., "w") leaves the tracker file empty until it is written.
OpenTracker ==
  /\ pc = "tracker"
  /\ tracker' = Torn
  /\ pc' = "tracking"
  /\ UNCHANGED <<memory, rollout, life, shards, data>>

\* Mutant of WriteTracker: it names the checkpoint before the one just saved.
WriteTrackerLate ==
  /\ pc = "tracking"
  /\ tracker' = IF last = 0 THEN None ELSE last
  /\ last' = version
  /\ pc' = "train"
  /\ UNCHANGED <<stage, unopened, writing, version, trained, paths, position>>
  /\ UNCHANGED <<rollout, life, shards, data>>

WriteTracker ==
  /\ pc = "tracking"
  /\ tracker' = version
  /\ last' = version
  /\ pc' = "train"
  /\ UNCHANGED <<stage, unopened, writing, version, trained, paths, position>>
  /\ UNCHANGED <<rollout, life, shards, data>>

-----------------------------------------------------------------------------
(* Crash and restart. *)

\* The versions of which a removal in progress may have removed some of the files.
BeingRemoved ==
  {v \in Versions :
     \/ pc = "ensure" /\ v \in Oldest(paths[Role], Keep[Role] - 1)
     \/ pc = "register" /\ v \in Oldest(Append(paths[Role], version), Keep[Role])}

\* What was in memory is gone; version, last and trained stay as history.
Crash ==
  /\ pc \notin {"down", "failed"} /\ life < MaxLives
  /\ pc' = "down"
  /\ stage' = 1 /\ unopened' = {} /\ writing' = {}
  /\ paths' = [r \in RoleSet |-> <<>>] /\ position' = 0
  /\ inflight' = {}
  /\ \E gone \in SUBSET (BeingRemoved \X Ranks) :
       shards' = [shards EXCEPT ![Role] =
         [v \in Versions |-> [k \in Ranks |-> IF <<v, k>> \in gone THEN None ELSE @[v][k]]]]
  /\ UNCHANGED <<version, last, trained, drawn, life, data, tracker>>

RestartUnchanged == UNCHANGED <<stage, unopened, writing, inflight, paths, position, disk>>

\* find_latest_ckpt_path finds no tracker: the job starts from scratch.
StartAnew ==
  /\ pc = "down" /\ tracker = None
  /\ pc' = "train" /\ life' = life + 1
  /\ version' = 0 /\ last' = 0 /\ trained' = {} /\ drawn' = 0
  /\ RestartUnchanged

Loadable(v) == \A r \in RoleSet, k \in Ranks : shards[r][v][k] # None

\* Mutant of Resume: last_ckpt_version is not restored.
ResumeUnsaved ==
  /\ pc = "down" /\ tracker \in Versions /\ Loadable(tracker)
  /\ pc' = "train" /\ life' = life + 1
  /\ version' = tracker /\ last' = 0
  /\ \E k \in Ranks : trained' = shards[Roles[1]][tracker][k].trained
  /\ drawn' = IF data[tracker] = None THEN 0 ELSE data[tracker].drawn
  /\ RestartUnchanged

\* load_checkpoint of the trainer and of the Rollouter, which begins at the start
\* of the data if data.pt is missing.
Resume ==
  /\ pc = "down" /\ tracker \in Versions /\ Loadable(tracker)
  /\ pc' = "train" /\ life' = life + 1
  /\ version' = tracker /\ last' = tracker
  /\ \E k \in Ranks : trained' = shards[Roles[1]][tracker][k].trained
  /\ drawn' = IF data[tracker] = None THEN 0 ELSE data[tracker].drawn
  /\ RestartUnchanged

\* The tracker holds no number, or names a checkpoint with missing files: an
\* exception ends this job and every later one.
FailToResume ==
  /\ pc = "down"
  /\ \/ tracker = Torn
     \/ tracker \in Versions /\ ~Loadable(tracker)
  /\ pc' = "failed"
  /\ UNCHANGED <<memory, rollout, life, disk>>

Next ==
  \/ Feed \/ Train \/ BeginSave \/ EnsureCapacity
  \/ \E k \in Ranks : OpenShard(k) \/ WriteShard(k)
  \/ Register \/ OpenData \/ WriteData \/ OpenTracker \/ WriteTracker
  \/ Crash \/ StartAnew \/ Resume \/ FailToResume

Spec == Init /\ [][Next]_vars

-----------------------------------------------------------------------------
(* Properties. *)

Parts(v) == {shards[r][v][k] : r \in RoleSet, k \in Ranks}

\* A role that keeps one checkpoint gives it up for a newer one of its own, before
\* the other roles, the data loader and the tracker file have followed.
Superseded(r, v) ==
  /\ Keep[r] = 1
  /\ \E w \in Versions : w > v /\ \A k \in Ranks : shards[r][w][k] # None

\* What the tracker file names was written by one save, at every moment, so also
\* after a crash anywhere: what there is of its shards is by one job and of the same
\* weights, and the position in the data is of that job.  None of it is missing,
\* but of a role with a limit of one when that role has a newer one on disk: neither
\* another rotation nor a save over the remains of a crashed one touches it.
TrackedIsWhole ==
  tracker \in Versions =>
    /\ data[tracker] # None
    /\ \A s, t \in Parts(tracker) \ {None} : s = t /\ s.life = data[tracker].life
    /\ \A r \in RoleSet, k \in Ranks :
         shards[r][tracker][k] = None => Superseded(r, tracker)

\* A job that cannot be resumed was stopped between the opening and the writing
\* of the tracker file, or its tracker names a checkpoint that a role with a limit
\* of one gave up before the tracker named its successor.
RestartSucceeds ==
  pc = "failed" =>
    \/ tracker = Torn
    \/ tracker \in Versions /\ \E r \in RoleSet : Superseded(r, tracker)

\* No prompt is trained twice in the weights, whatever is resumed: the position in
\* the data is saved after the weights.
NothingTwice == inflight \cap trained = {}

\* Between two saves the checkpoints this job has on disk are those its managers
\* know, and no more than the limit.
RotationIsExact ==
  pc = "train" => \A r \in RoleSet :
    /\ {v \in Versions : \E k \in Ranks : shards[r][v][k] # None /\ shards[r][v][k].life = life}
         = {paths[r][i] : i \in DOMAIN paths[r]}
    /\ Keep[r] > 0 => Len(paths[r]) <= Keep[r]

\* A restarted job goes back no further than to the last save that was completed.
NoSaveLost == [][pc = "down" /\ pc' = "train" => version' >= last]_vars
=============================================================================
