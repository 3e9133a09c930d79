-------------------------- MODULE PsseWorkerProofs --------------------------
(***************************************************************************)
(* Proofs about the remote PSS/E worker, for every set of jobs and of      *)
(* handler threads and every bound on exceptions and restarts.             *)
(***************************************************************************)
EXTENDS PsseWorker, TLAPS

-----------------------------------------------------------------------------
(* The queue *)

\* The elements of a queue after put: the old ones and the new one, each at one
\* place if the new one was not in the queue.
LEMMA PutElements ==
  ASSUME NEW S, NEW q \in Seq(S), NEW x \in S
  PROVE  /\ Append(q, x) \in Seq(S)
         /\ \A y : (\E i \in 1..Len(Append(q, x)) : Append(q, x)[i] = y)
                     <=> y = x \/ \E i \in 1..Len(q) : q[i] = y
         /\ (\A i, k \in 1..Len(q) : q[i] = q[k] => i = k)
              /\ (\A i \in 1..Len(q) : q[i] # x)
              => \A i, k \in 1..Len(Append(q, x)) :
                   Append(q, x)[i] = Append(q, x)[k] => i = k
<1>1. /\ Append(q, x) \in Seq(S)
      /\ Len(Append(q, x)) = Len(q) + 1
      /\ Len(q) \in Nat
      /\ \A i \in 1..Len(q) : Append(q, x)[i] = q[i]
      /\ Append(q, x)[Len(q) + 1] = x
  OBVIOUS
<1> QED  BY <1>1

\* An element of a queue.
Occurs(x, q) == \E i \in 1..Len(q) : q[i] = x

\* The elements of a queue after get.
LEMMA GetElements ==
  ASSUME NEW S, NEW q \in Seq(S), q # <<>>,
         \A i, k \in 1..Len(q) : q[i] = q[k] => i = k
  PROVE  /\ Head(q) \in S
         /\ Tail(q) \in Seq(S)
         /\ Occurs(Head(q), q)
         /\ \A y : Occurs(y, Tail(q)) <=> y # Head(q) /\ Occurs(y, q)
         /\ \A i, k \in 1..Len(Tail(q)) : Tail(q)[i] = Tail(q)[k] => i = k
<1>1. /\ Head(q) \in S
      /\ Head(q) = q[1]
      /\ Tail(q) \in Seq(S)
      /\ Len(q) \in Nat
      /\ Len(q) >= 1
      /\ Len(Tail(q)) = Len(q) - 1
      /\ \A i \in 1..Len(Tail(q)) : Tail(q)[i] = q[i + 1]
  OBVIOUS
<1>2. \A y : (\E i \in 1..Len(Tail(q)) : Tail(q)[i] = y)
               <=> y # Head(q) /\ \E i \in 1..Len(q) : q[i] = y
  <2>1. ASSUME NEW y, NEW i \in 1..Len(Tail(q)), Tail(q)[i] = y
        PROVE  y # Head(q) /\ \E k \in 1..Len(q) : q[k] = y
    <3>1. i + 1 \in 1..Len(q) /\ q[i + 1] = y /\ i + 1 # 1 /\ 1 \in 1..Len(q)
      BY <1>1, <2>1
    <3> QED  BY <1>1, <3>1
  <2>2. ASSUME NEW y, y # Head(q), NEW i \in 1..Len(q), q[i] = y
        PROVE  \E k \in 1..Len(Tail(q)) : Tail(q)[k] = y
    <3>1. i - 1 \in 1..Len(Tail(q)) /\ Tail(q)[i - 1] = y
      BY <1>1, <2>2
    <3> QED  BY <3>1
  <2> QED  BY <2>1, <2>2
<1>3. /\ Occurs(Head(q), q)
      /\ \A y : Occurs(y, Tail(q)) <=> y # Head(q) /\ Occurs(y, q)
  BY <1>1, <1>2 DEF Occurs
<1>4. \A i, k \in 1..Len(Tail(q)) : Tail(q)[i] = Tail(q)[k] => i = k
  BY <1>1
<1> QED  BY <1>1, <1>3, <1>4

-----------------------------------------------------------------------------
(* Types *)

\* Writing one file of one directory keeps the type of the disk.
LEMMA WriteType ==
  ASSUME NEW k \in [Jobs -> [Folders -> Folder]], NEW j, NEW d
  PROVE  /\ [k EXCEPT ![j][d].request = TRUE] \in [Jobs -> [Folders -> Folder]]
         /\ \A v \in ResultFile :
              [k EXCEPT ![j][d].result = v] \in [Jobs -> [Folders -> Folder]]
         /\ \A v \in ManifestFile :
              [k EXCEPT ![j][d].manifest = v] \in [Jobs -> [Folders -> Folder]]
<1>1. \A f \in Folder : [f EXCEPT !.request = TRUE] \in Folder
  BY DEF Folder
<1>2. \A f \in Folder, v \in ResultFile : [f EXCEPT !.result = v] \in Folder
  BY DEF Folder
<1>3. \A f \in Folder, v \in ManifestFile : [f EXCEPT !.manifest = v] \in Folder
  BY DEF Folder
<1> QED  BY <1>1, <1>2, <1>3

\* The worker starts with every variable of its type.
LEMMA InitType == Init => TypeOK
<1> SUFFICES ASSUME Init PROVE TypeOK
  OBVIOUS
<1>1. NewRecord("absent") \in Record /\ EmptyFolder \in Folder
  BY DEF NewRecord, Record, Statuses, Paths, EmptyFolder, Folder, ResultFile, ManifestFile
<1>2. disk \in [Jobs -> [Folders -> Folder]] /\ records \in [Jobs -> Record]
  BY <1>1 DEF Init, InitProcess
<1>3. handlers \in [Handlers -> Handler]
  BY DEF Init, InitProcess, Handler
<1>4. told \in [Jobs -> Finished \cup {"nothing"}]
  BY DEF Init
<1>5. faults \in 0..FaultsPerJob /\ restarts \in 0..MaxRestarts
  BY WorkerAssumption DEF Init, InitProcess
<1>6. wpc \in WorkerPc /\ wdir \in Folders /\ queue \in Seq(Jobs)
  BY DEF Init, InitProcess, Folders, WorkerPc
<1>7. wok \in BOOLEAN /\ failing \in BOOLEAN
  BY DEF Init, InitProcess
<1>8. wjob \in Jobs \cup {NoJob} /\ issued \subseteq Jobs
  BY DEF Init, InitProcess
<1> QED  BY <1>2, <1>3, <1>4, <1>5, <1>6, <1>7, <1>8 DEF TypeOK

\* Every step of the worker, of a handler or of the process keeps the types.
LEMMA TypeStep == TypeOK /\ [Next]_vars => TypeOK'
<1> SUFFICES ASSUME TypeOK, [Next]_vars PROVE TypeOK'
  OBVIOUS
<1> USE DEF TypeOK, workerVars
<1>1. ASSUME NEW h \in Handlers, PostStore(h) PROVE TypeOK'
  BY <1>1 DEF PostStore, Become, Record, NewRecord, Statuses, Paths, Handler
<1>2. ASSUME NEW h \in Handlers, Lookup(h) PROVE TypeOK'
  BY <1>2 DEF Lookup, Become, Handler, ReadPc
<1>3. ASSUME NEW h \in Handlers, PostPut(h) PROVE TypeOK'
  <2>1. handlers[h].job \in Jobs
    BY <1>3 DEF PostPut, Handler, IdleHandler
  <2>2. queue' \in Seq(Jobs)
    BY <1>3, <2>1 DEF PostPut
  <2> QED  BY <1>3, <2>2 DEF PostPut, Become, Handler
<1>4. ASSUME NEW h \in Handlers, Read(h) PROVE TypeOK'
  <2>1. handlers[h] \in Handler /\ handlers[h].pc \in ReadPc
    BY <1>4 DEF Read
  <2>2. [handlers[h] EXCEPT !.pc = "load"] \in Handler
    BY <2>1 DEF Handler, IdleHandler, ReadPc
  <2>3. handlers' \in [Handlers -> Handler]
    BY <1>4, <2>2 DEF Read, Become, Handler
  <2>4. told' \in [Jobs -> Finished \cup {"nothing"}]
    BY <1>4 DEF Read
  <2> QED  BY <1>4, <2>3, <2>4 DEF Read
<1>5. ASSUME TakeJob PROVE TypeOK'
  <2>1. wjob' \in Jobs /\ queue' \in Seq(Jobs)
    BY <1>5 DEF TakeJob
  <2>2. failing' \in BOOLEAN /\ wpc' \in WorkerPc
    BY <1>5 DEF TakeJob, WorkerPc
  <2>3. faults' \in 0..FaultsPerJob
    BY <1>5, WorkerAssumption DEF TakeJob
  <2> QED  BY <1>5, <2>1, <2>2, <2>3 DEF TakeJob
<1>6. ASSUME MarkRunning PROVE TypeOK'
  BY <1>6 DEF MarkRunning, WorkerPc, Record, Statuses
<1>7. ASSUME OpenFolder PROVE TypeOK'
  <2>1. disk' \in [Jobs -> [Folders -> Folder]]
    BY <1>7, WriteType DEF OpenFolder
  <2> QED  BY <1>7, <2>1 DEF OpenFolder, WorkerPc, Folders
<1>8. ASSUME RunPsse PROVE TypeOK'
  <2>1. wok' \in BOOLEAN /\ wpc' \in WorkerPc
    BY <1>8 DEF RunPsse, WorkerPc
  <2> QED  BY <1>8, <2>1 DEF RunPsse
<1>9. ASSUME SaveResult PROVE TypeOK'
  <2>1. disk' \in [Jobs -> [Folders -> Folder]]
    BY <1>9, WriteType DEF SaveResult, ResultFile
  <2> QED  BY <1>9, <2>1 DEF SaveResult, WorkerPc
<1>10. ASSUME SaveManifest PROVE TypeOK'
  <2>1. disk' \in [Jobs -> [Folders -> Folder]]
    BY <1>10, WriteType DEF SaveManifest, ManifestFile
  <2> QED  BY <1>10, <2>1 DEF SaveManifest, WorkerPc
<1>11. ASSUME PublishStatus PROVE TypeOK'
  <2>1. (IF wok THEN "completed" ELSE "error") \in Statuses
    BY DEF Statuses, Finished
  <2>2. records' \in [Jobs -> Record]
    BY <1>11, <2>1 DEF PublishStatus, Record
  <2> QED  BY <1>11, <2>2 DEF PublishStatus, WorkerPc
<1>12. ASSUME PublishResult PROVE TypeOK'
  BY <1>12 DEF PublishResult, WorkerPc, Record, Paths
<1>13. ASSUME PublishArtifacts PROVE TypeOK'
  BY <1>13 DEF PublishArtifacts, WorkerPc, Record, Paths
<1>14. ASSUME Recover PROVE TypeOK'
  BY <1>14 DEF Recover, WorkerPc
<1>15. ASSUME Raise PROVE TypeOK'
  <2>1. disk' \in [Jobs -> [Folders -> Folder]]
    BY <1>15, WriteType DEF Raise, ResultFile, ManifestFile
  <2>2. faults' \in 0..FaultsPerJob
    BY <1>15, WorkerAssumption DEF Raise
  <2> QED  BY <1>15, <2>1, <2>2 DEF Raise, WorkerPc
<1>16. ASSUME Restart PROVE TypeOK'
  <2>1. records' \in [Jobs -> Record] /\ handlers' \in [Handlers -> Handler]
    BY <1>16 DEF Restart, Record, NewRecord, Statuses, Paths, Handler
  <2>2. restarts' \in 0..MaxRestarts /\ faults' \in 0..FaultsPerJob
    BY <1>16, WorkerAssumption DEF Restart
  <2>3. wok' \in BOOLEAN /\ failing' \in BOOLEAN
    BY <1>16 DEF Restart
  <2>4. wpc' \in WorkerPc /\ wdir' \in Folders /\ queue' \in Seq(Jobs)
    BY <1>16 DEF Restart, WorkerPc, Folders
  <2> QED  BY <1>16, <2>1, <2>2, <2>3, <2>4 DEF Restart
<1>17. ASSUME UNCHANGED vars PROVE TypeOK'
  BY <1>17 DEF vars
<1> QED
  BY <1>1, <1>2, <1>3, <1>4, <1>5, <1>6, <1>7, <1>8, <1>9, <1>10, <1>11, <1>12,
     <1>13, <1>14, <1>15, <1>16, <1>17 DEF Next, Reply, WorkerStep

\* Every variable keeps its type, in every behaviour.
THEOREM TypeCorrect == Spec => []TypeOK
<1> QED  BY InitType, TypeStep, PTL DEF Spec

-----------------------------------------------------------------------------
(* Where the jobs are *)

\* Initially there is no job to place.
LEMMA InitPlaced == Init => PendingIsAccounted /\ Placed
BY DEF Init, InitProcess, NewRecord, IdleHandler, PendingIsAccounted, Placed,
       Waiting, BeingPut, Taken

\* Every step moves a job from one place to the next, and loses none.
LEMMA PlacedStep ==
  TypeOK /\ PendingIsAccounted /\ Placed /\ [Next]_vars
    => PendingIsAccounted' /\ Placed'
<1> SUFFICES ASSUME TypeOK, PendingIsAccounted, Placed, [Next]_vars
             PROVE  PendingIsAccounted' /\ Placed'
  OBVIOUS
<1> USE DEF workerVars
<1>1. ASSUME NEW h \in Handlers, PostStore(h) PROVE PendingIsAccounted' /\ Placed'
  <2>1. PICK j \in Jobs \ issued :
          /\ records' = [records EXCEPT ![j] = NewRecord("queued")]
          /\ issued' = issued \cup {j}
          /\ handlers' = [handlers EXCEPT ![h] =
               [pc |-> "put", job |-> j, late |-> FALSE]]
    BY <1>1 DEF PostStore, Become
  <2>2. /\ UNCHANGED <<queue, wpc, wjob>>
        /\ handlers[h].pc = "idle"
        /\ records[j].status = "absent"
        /\ records'[j].status = "queued"
        /\ \A i \in Jobs \ {j} : records'[i] = records[i]
    BY <1>1, <2>1 DEF PostStore, TypeOK, Placed, NewRecord
  <2>3. \A i \in Jobs : Waiting(i)' <=> Waiting(i)
    BY <2>2 DEF Waiting
  <2>4. \A i \in Jobs : Taken(i)' <=> Taken(i)
    BY <2>2 DEF Taken
  <2>5. \A i \in Jobs : BeingPut(i)' <=> (i = j \/ BeingPut(i))
    BY <2>1, <2>2 DEF BeingPut, TypeOK
  <2>6. ~Waiting(j) /\ ~Taken(j) /\ ~BeingPut(j)
    BY <2>2 DEF PendingIsAccounted
  <2>7. PendingIsAccounted'
    BY <2>2, <2>3, <2>4, <2>5, <2>6 DEF PendingIsAccounted
  <2>8. \A g \in Handlers : g # h => handlers'[g] = handlers[g]
    BY <2>1 DEF TypeOK
  <2>9. handlers'[h].job = j
    BY <2>1 DEF TypeOK
  <2>10. \A g, f \in Handlers :
           handlers'[g].pc = "put" /\ handlers'[f].pc = "put" /\ g # f
             => handlers'[g].job # handlers'[f].job
    BY <2>6, <2>8, <2>9 DEF Placed, BeingPut
  <2> QED
    BY <2>1, <2>2, <2>3, <2>4, <2>5, <2>6, <2>7, <2>10 DEF Placed, TypeOK
<1>2. ASSUME NEW h \in Handlers, PostPut(h) PROVE PendingIsAccounted' /\ Placed'
  <2> DEFINE j == handlers[h].job
  <2>1. /\ j \in Jobs
        /\ handlers[h].pc = "put"
        /\ queue' = Append(queue, j)
        /\ handlers' = [handlers EXCEPT ![h] = IdleHandler]
        /\ UNCHANGED <<records, issued, wpc, wjob>>
    BY <1>2 DEF PostPut, Become, TypeOK, Handler, IdleHandler
  <2>2. BeingPut(j) /\ ~Waiting(j) /\ ~Taken(j)
    BY <2>1 DEF BeingPut, Placed
  <2>3. queue \in Seq(Jobs) /\ \A i \in 1..Len(queue) : queue[i] # j
    BY <2>2 DEF Waiting, TypeOK
  <2>4. /\ \A i \in Jobs : Waiting(i)' <=> (i = j \/ Waiting(i))
        /\ \A i, k \in 1..Len(queue') : queue'[i] = queue'[k] => i = k
    BY <2>1, <2>3, PutElements DEF Waiting, Placed
  <2>5. /\ handlers'[h].pc = "idle"
        /\ \A g \in Handlers : g # h => handlers'[g] = handlers[g]
    BY <2>1 DEF TypeOK, IdleHandler
  <2>6. \A i \in Jobs : BeingPut(i)' <=> (i # j /\ BeingPut(i))
    BY <2>1, <2>5 DEF BeingPut, Placed
  <2>7. \A i \in Jobs : Taken(i)' <=> Taken(i)
    BY <2>1 DEF Taken
  <2>8. PendingIsAccounted'
    BY <2>1, <2>2, <2>4, <2>6, <2>7 DEF PendingIsAccounted
  <2>9. \A g, f \in Handlers :
          handlers'[g].pc = "put" /\ handlers'[f].pc = "put" /\ g # f
            => handlers'[g].job # handlers'[f].job
    BY <2>5 DEF Placed
  <2> HIDE DEF j
  <2> QED
    BY <2>1, <2>2, <2>4, <2>6, <2>7, <2>8, <2>9 DEF Placed
<1>3. ASSUME NEW h \in Handlers, Lookup(h) \/ Read(h)
      PROVE  PendingIsAccounted' /\ Placed'
  <2>1. /\ handlers[h].pc # "put"
        /\ handlers'[h].pc # "put"
        /\ \A g \in Handlers : g # h => handlers'[g] = handlers[g]
        /\ UNCHANGED <<records, queue, issued, wpc, wjob>>
    <3>1. CASE Lookup(h)
      BY <3>1 DEF Lookup, Become, IdleHandler, TypeOK
    <3>2. CASE Read(h)
      BY <3>2 DEF Read, Become, IdleHandler, ReadPc, TypeOK, Handler
    <3> QED  BY <1>3, <3>1, <3>2
  <2>2. \A i \in Jobs : /\ BeingPut(i)' <=> BeingPut(i)
                        /\ Waiting(i)' <=> Waiting(i)
                        /\ Taken(i)' <=> Taken(i)
    BY <2>1 DEF BeingPut, Waiting, Taken
  <2> QED  BY <2>1, <2>2 DEF PendingIsAccounted, Placed
<1>4. ASSUME TakeJob PROVE PendingIsAccounted' /\ Placed'
  <2> DEFINE j == Head(queue)
  <2>1. /\ queue # <<>> /\ queue \in Seq(Jobs)
        /\ wpc = "get" /\ wpc' = "mark" /\ wjob' = j /\ queue' = Tail(queue)
        /\ UNCHANGED <<records, issued, handlers>>
    BY <1>4 DEF TakeJob, TypeOK
  <2>2. /\ j \in Jobs
        /\ Waiting(j)
        /\ \A i \in Jobs : Waiting(i)' <=> (i # j /\ Waiting(i))
        /\ \A i, k \in 1..Len(queue') : queue'[i] = queue'[k] => i = k
    <3>1. \A i, k \in 1..Len(queue) : queue[i] = queue[k] => i = k
      BY DEF Placed
    <3>2. queue # <<>> /\ queue \in Seq(Jobs) /\ queue' = Tail(queue)
      BY <2>1
    <3>3. j \in Jobs /\ Occurs(j, queue)
      BY <3>1, <3>2, GetElements
    <3>4. \A y : Occurs(y, Tail(queue)) <=> y # j /\ Occurs(y, queue)
      BY <3>1, <3>2, GetElements
    <3>5. \A i, k \in 1..Len(Tail(queue)) : Tail(queue)[i] = Tail(queue)[k] => i = k
      BY <3>1, <3>2, GetElements
    <3> HIDE DEF j
    <3>6. \A i \in Jobs : Waiting(i)' <=> (i # j /\ Waiting(i))
      <4>1. \A i \in Jobs : /\ Waiting(i) <=> Occurs(i, queue)
                            /\ Waiting(i)' <=> Occurs(i, Tail(queue))
        BY <3>2 DEF Waiting, Occurs
      <4> QED  BY <3>4, <4>1
    <3> QED  BY <3>2, <3>3, <3>5, <3>6 DEF Waiting, Occurs
  <2>3. \A i \in Jobs : Taken(i)' <=> i = j
    BY <2>1 DEF Taken
  <2>4. \A i \in Jobs : ~Taken(i)
    BY <2>1 DEF Taken
  <2>5. \A i \in Jobs : BeingPut(i)' <=> BeingPut(i)
    BY <2>1 DEF BeingPut
  <2> HIDE DEF j
  <2> QED
    BY <2>1, <2>2, <2>3, <2>4, <2>5 DEF PendingIsAccounted, Placed
<1>5. ASSUME MarkRunning PROVE PendingIsAccounted' /\ Placed'
  <2>1. /\ wpc = "mark" /\ wpc' = "open" /\ wjob \in Jobs
        /\ records'[wjob].status = "running"
        /\ \A i \in Jobs \ {wjob} : records'[i] = records[i]
        /\ UNCHANGED <<queue, issued, wjob, handlers>>
    BY <1>5 DEF MarkRunning, TypeOK, Placed, Record
  <2>2. \A i \in Jobs : /\ BeingPut(i)' <=> BeingPut(i)
                        /\ Waiting(i)' <=> Waiting(i)
                        /\ Taken(i) <=> i = wjob
                        /\ ~Taken(i)'
    BY <2>1 DEF BeingPut, Waiting, Taken
  <2> QED
    BY <2>1, <2>2 DEF PendingIsAccounted, Placed
<1>6. ASSUME OpenFolder \/ RunPsse \/ SaveResult \/ SaveManifest \/ Raise \/ Recover
      PROVE  PendingIsAccounted' /\ Placed'
  <2>1. /\ wpc  \in {"open", "run", "save", "manifest", "recover"}
        /\ wpc' \in {"run", "save", "manifest", "publish", "recover", "dead"}
        /\ UNCHANGED <<records, queue, issued, wjob, handlers>>
    BY <1>6 DEF OpenFolder, RunPsse, SaveResult, SaveManifest, Raise, Recover
  <2>2. \A i \in Jobs : /\ BeingPut(i)' <=> BeingPut(i)
                        /\ Waiting(i)' <=> Waiting(i)
                        /\ ~Taken(i)
                        /\ ~Taken(i)'
    BY <2>1 DEF BeingPut, Waiting, Taken
  <2> QED
    BY <2>1, <2>2 DEF PendingIsAccounted, Placed
<1>7. ASSUME PublishStatus PROVE PendingIsAccounted' /\ Placed'
  <2>1. /\ wpc = "publish" /\ wpc' = "publish_result" /\ wjob \in Jobs
        /\ records'[wjob].status \in Finished
        /\ records[wjob].status = "running"
        /\ \A i \in Jobs \ {wjob} : records'[i] = records[i]
        /\ UNCHANGED <<queue, issued, wjob, handlers>>
    BY <1>7 DEF PublishStatus, TypeOK, Placed, Record, Finished
  <2>2. \A i \in Jobs : /\ BeingPut(i)' <=> BeingPut(i)
                        /\ Waiting(i)' <=> Waiting(i)
                        /\ ~Taken(i)
                        /\ ~Taken(i)'
    BY <2>1 DEF BeingPut, Waiting, Taken
  <2> QED
    BY <2>1, <2>2 DEF PendingIsAccounted, Placed, Finished
<1>8. ASSUME PublishResult \/ PublishArtifacts PROVE PendingIsAccounted' /\ Placed'
  <2>1. /\ wpc \in {"publish_result", "publish_artifacts"}
        /\ wpc' \in {"publish_artifacts", "get"}
        /\ \A i \in Jobs : records'[i].status = records[i].status
        /\ UNCHANGED <<queue, issued, handlers>>
    <3>1. CASE PublishResult
      BY <3>1 DEF PublishResult, TypeOK, Record
    <3>2. CASE PublishArtifacts
      BY <3>2 DEF PublishArtifacts, TypeOK, Record
    <3> QED  BY <1>8, <3>1, <3>2
  <2>2. \A i \in Jobs : /\ BeingPut(i)' <=> BeingPut(i)
                        /\ Waiting(i)' <=> Waiting(i)
                        /\ ~Taken(i)
                        /\ ~Taken(i)'
    BY <2>1 DEF BeingPut, Waiting, Taken
  <2> QED
    BY <2>1, <2>2 DEF PendingIsAccounted, Placed
<1>9. ASSUME Restart PROVE PendingIsAccounted' /\ Placed'
  <2>1. /\ \A i \in Jobs : records'[i].status = "absent"
        /\ queue' = <<>> /\ wpc' = "get"
        /\ \A g \in Handlers : handlers'[g].pc = "idle"
    BY <1>9 DEF Restart, NewRecord, IdleHandler
  <2>2. \A i \in Jobs : ~BeingPut(i)' /\ ~Waiting(i)' /\ ~Taken(i)'
    BY <2>1 DEF BeingPut, Waiting, Taken
  <2> QED
    BY <2>1, <2>2 DEF PendingIsAccounted, Placed
<1>10. CASE UNCHANGED vars
  BY <1>10 DEF vars, PendingIsAccounted, Placed, Waiting, BeingPut, Taken
<1> QED
  BY <1>1, <1>2, <1>3, <1>4, <1>5, <1>6, <1>7, <1>8, <1>9, <1>10
     DEF Next, Reply, WorkerStep

\* Nothing that is shown as pending is lost, in every behaviour.
THEOREM PendingAccounted == Spec => []PendingIsAccounted
<1>1. Init => TypeOK /\ PendingIsAccounted /\ Placed
  BY InitType, InitPlaced
<1>2. TypeOK /\ PendingIsAccounted /\ Placed /\ [Next]_vars
        => (TypeOK /\ PendingIsAccounted /\ Placed)'
  BY TypeStep, PlacedStep
<1> QED  BY <1>1, <1>2, PTL DEF Spec

-----------------------------------------------------------------------------
(* What clients are told *)

\* Initially nothing is published and nobody was told anything.
LEMMA InitOutcomes == Init => Outcomes
<1> SUFFICES ASSUME Init PROVE Outcomes
  OBVIOUS
<1>1. WrittenFirst
  BY DEF Init, InitProcess, WrittenFirst, LockFree
<1>2. FinishedIsPublished /\ ToldAgrees
  BY DEF Init, InitProcess, NewRecord, FinishedIsPublished, ToldAgrees, Finished
<1>3. LateReadersSafe
  BY DEF Init, InitProcess, IdleHandler, ReadPc, LateReadersSafe, LateReaderSafe
<1> QED  BY <1>1, <1>2, <1>3 DEF Outcomes

\* Every step keeps files, records and what clients were told in agreement.
LEMMA OutcomesStep == WorkerInv /\ [Next]_vars => Outcomes'
<1> SUFFICES ASSUME TypeOK, PendingIsAccounted, Placed, [Next]_vars,
                    WrittenFirst, FinishedIsPublished, ToldAgrees, LateReadersSafe
             PROVE  /\ WrittenFirst' /\ FinishedIsPublished'
                    /\ ToldAgrees' /\ LateReadersSafe'
  BY DEF WorkerInv, Outcomes
<1> USE DEF workerVars
<1>1. ASSUME NEW h \in Handlers, PostStore(h) PROVE Outcomes'
  <2>1. PICK j \in Jobs \ issued :
          /\ records' = [records EXCEPT ![j] = NewRecord("queued")]
          /\ issued' = issued \cup {j}
          /\ handlers' = [handlers EXCEPT ![h] =
               [pc |-> "put", job |-> j, late |-> FALSE]]
    BY <1>1 DEF PostStore, Become
  <2>2. /\ UNCHANGED <<wpc, wjob, wdir, wok, disk, told>>
        /\ LockFree
        /\ records[j].status = "absent"
        /\ told[j] = "nothing"
        /\ records'[j].status = "queued"
        /\ \A i \in Jobs \ {j} : records'[i] = records[i]
    BY <1>1, <2>1 DEF PostStore, TypeOK, Placed, NewRecord, ToldAgrees
  <2>3. WrittenFirst'
    BY <2>2 DEF WrittenFirst, LockFree
  <2>4. FinishedIsPublished'
    BY <2>2 DEF FinishedIsPublished, Published, BeingPublished, LockFree, Finished
  <2>5. ToldAgrees'
    BY <2>1, <2>2 DEF ToldAgrees
  <2>6. LateReadersSafe'
    <3> SUFFICES ASSUME NEW g \in Handlers PROVE LateReaderSafe(g)'
      BY DEF LateReadersSafe
    <3>1. CASE g = h
      BY <2>1, <3>1 DEF TypeOK, ReadPc, LateReaderSafe
    <3>2. CASE g # h
      <4>1. handlers'[g] = handlers[g]
        BY <2>1, <3>2 DEF TypeOK
      <4>2. handlers[g].pc \in ReadPc => handlers[g].job \in Jobs \ {j}
        BY <2>2 DEF TypeOK, Handler, IdleHandler, ReadPc, LateReadersSafe, LateReaderSafe
      <4> QED  BY <2>2, <4>1, <4>2 DEF LateReadersSafe, LateReaderSafe, BeingPublished, LockFree
    <3> QED  BY <3>1, <3>2
  <2> QED  BY <2>3, <2>4, <2>5, <2>6 DEF Outcomes
<1>2. ASSUME NEW h \in Handlers, PostPut(h) PROVE Outcomes'
  <2>1. /\ UNCHANGED <<records, issued, wpc, wjob, wdir, wok, disk, told>>
        /\ handlers' = [handlers EXCEPT ![h] = IdleHandler]
    BY <1>2 DEF PostPut, Become
  <2>2. WrittenFirst' /\ FinishedIsPublished' /\ ToldAgrees'
    BY <2>1 DEF WrittenFirst, FinishedIsPublished, Published, BeingPublished,
                ToldAgrees, LockFree
  <2>3. LateReadersSafe'
    BY <2>1 DEF LateReadersSafe, LateReaderSafe, BeingPublished, LockFree, TypeOK,
                IdleHandler, ReadPc
  <2> QED  BY <2>2, <2>3 DEF Outcomes
<1>3. ASSUME NEW h \in Handlers, Lookup(h) PROVE Outcomes'
  <2>1. PICK j \in issued, pc \in {"status", "result", "artifacts"} :
          handlers' = [handlers EXCEPT ![h] =
            IF records[j].status = "absent" THEN IdleHandler
            ELSE [pc |-> pc, job |-> j, late |-> told[j] # "nothing"]]
    BY <1>3 DEF Lookup, Become
  <2>2. /\ UNCHANGED <<records, issued, wpc, wjob, wdir, wok, disk, told>>
        /\ LockFree
    BY <1>3 DEF Lookup
  <2>3. WrittenFirst' /\ FinishedIsPublished' /\ ToldAgrees'
    BY <2>2 DEF WrittenFirst, FinishedIsPublished, Published, BeingPublished,
                ToldAgrees, LockFree
  <2>4. LateReadersSafe'
    <3>1. ~BeingPublished(j)'
      BY <2>2 DEF BeingPublished, LockFree
    <3>2. CASE records[j].status = "absent"
      BY <2>1, <2>2, <3>2
         DEF LateReadersSafe, LateReaderSafe, BeingPublished, LockFree, TypeOK, IdleHandler, ReadPc
    <3>3. CASE records[j].status # "absent"
      BY <2>1, <2>2, <3>1, <3>3
         DEF LateReadersSafe, LateReaderSafe, BeingPublished, LockFree, TypeOK, ReadPc
    <3> QED  BY <3>2, <3>3
  <2> QED  BY <2>3, <2>4 DEF Outcomes
<1>4. ASSUME NEW h \in Handlers, Read(h) PROVE Outcomes'
  <2> DEFINE j == handlers[h].job
  <2>1. /\ UNCHANGED <<records, issued, wpc, wjob, wdir, wok, disk>>
        /\ handlers[h].pc \in ReadPc
        /\ j \in Jobs
        /\ told' = IF Answer(h) \in Finished THEN [told EXCEPT ![j] = Answer(h)] ELSE told
    BY <1>4 DEF Read, TypeOK, Handler, IdleHandler, ReadPc
  <2>2. Answer(h) \in Finished => records[j].status = Answer(h)
    <3>1. /\ records[j].result_path # "None" =>
               disk[j][records[j].result_path].result \in ResultFile
          /\ records[j].artifacts_path # "None" =>
               disk[j][records[j].artifacts_path].manifest \in ManifestFile
      BY <2>1 DEF TypeOK, Record, Paths, Folder
    <3> HIDE DEF j
    <3> QED  BY <2>1, <3>1 DEF Answer, j, ReadPc, Finished, ResultFile, ManifestFile
  <2>3. /\ records[j].status # "absent"
        /\ j \in issued
    BY <2>1 DEF LateReadersSafe, LateReaderSafe, Placed
  <2>4. WrittenFirst' /\ FinishedIsPublished'
    BY <2>1 DEF WrittenFirst, FinishedIsPublished, Published, BeingPublished, LockFree
  <2>5. /\ \A i \in Jobs : i # j => told'[i] = told[i]
        /\ told'[j] # told[j] => told'[j] = records[j].status /\ told'[j] \in Finished
    BY <2>1, <2>2 DEF TypeOK
  <2>6. ToldAgrees'
    <3> HIDE DEF j
    <3> QED  BY <2>1, <2>3, <2>5 DEF ToldAgrees
  <2>7. LateReadersSafe'
    <3> SUFFICES ASSUME NEW g \in Handlers PROVE LateReaderSafe(g)'
      BY DEF LateReadersSafe
    <3>1. handlers[g].job \in Jobs /\ told[handlers[g].job] # "nothing"
            => told'[handlers[g].job] # "nothing"
      BY <2>5 DEF Finished
    <3>2. LateReaderSafe(g)
      BY DEF LateReadersSafe
    <3>3. CASE g = h
      <4>1. handlers'[h] = [handlers[h] EXCEPT !.pc = "load"] \/ handlers'[h] = IdleHandler
        BY <1>4 DEF Read, Become, TypeOK
      <4>2. CASE handlers'[h] = IdleHandler
        BY <3>3, <4>2 DEF LateReaderSafe, IdleHandler, ReadPc
      <4>3. CASE handlers'[h] = [handlers[h] EXCEPT !.pc = "load"]
        <5>1. /\ handlers'[h].pc = "load"
              /\ handlers'[h].job = handlers[h].job
              /\ handlers'[h].late = handlers[h].late
          BY <4>3 DEF TypeOK, Handler, IdleHandler
        <5> QED
          BY <2>1, <2>3, <3>1, <3>2, <3>3, <5>1
             DEF LateReaderSafe, BeingPublished, LockFree, ReadPc
      <4> QED  BY <4>1, <4>2, <4>3
    <3>4. CASE g # h
      <4>1. handlers'[g] = handlers[g]
        BY <1>4, <3>4 DEF Read, Become, TypeOK
      <4>2. handlers[g].late => handlers[g].job \in Jobs
        BY DEF TypeOK, Handler, IdleHandler
      <4> QED
        BY <2>1, <3>1, <3>2, <4>1, <4>2 DEF LateReaderSafe, BeingPublished, LockFree
    <3> QED  BY <3>3, <3>4
  <2> QED  BY <2>4, <2>6, <2>7 DEF Outcomes
<1>5. ASSUME TakeJob PROVE Outcomes'
  <2>1. /\ wpc = "get" /\ wpc' = "mark"
        /\ UNCHANGED <<records, issued, disk, handlers, told>>
    BY <1>5 DEF TakeJob
  <2> QED
    BY <2>1 DEF Outcomes, WrittenFirst, FinishedIsPublished, Published, ToldAgrees,
                LateReadersSafe, LateReaderSafe, BeingPublished, LockFree
<1>6. ASSUME MarkRunning PROVE Outcomes'
  <2>1. /\ wpc = "mark" /\ wpc' = "open" /\ wjob \in Jobs
        /\ records'[wjob].status = "running"
        /\ \A i \in Jobs \ {wjob} : records'[i] = records[i]
        /\ UNCHANGED <<issued, wjob, disk, handlers, told>>
    BY <1>6 DEF MarkRunning, TypeOK, Placed, Record
  <2>2. records[wjob].status = "queued"
    BY <2>1 DEF PendingIsAccounted, Taken
  <2>3. told[wjob] = "nothing"
    BY <2>1, <2>2 DEF ToldAgrees, TypeOK, Finished
  <2>4. WrittenFirst' /\ FinishedIsPublished' /\ ToldAgrees'
    BY <2>1, <2>3 DEF WrittenFirst, FinishedIsPublished, Published, ToldAgrees,
                      BeingPublished, LockFree, Finished
  <2>5. \A h \in Handlers : handlers[h].pc \in ReadPc => handlers[h].job \in Jobs
    BY DEF TypeOK, Handler, IdleHandler, ReadPc
  <2>6. LateReadersSafe'
    BY <2>1, <2>5 DEF LateReadersSafe, LateReaderSafe, BeingPublished, LockFree
  <2> QED  BY <2>4, <2>6 DEF Outcomes
<1>7. ASSUME OpenFolder \/ RunPsse \/ SaveResult \/ SaveManifest \/ Raise \/ Recover
      PROVE  Outcomes'
  <2>1. /\ wpc \in {"open", "run", "save", "manifest", "recover"}
        /\ wpc' \notin {"publish_result", "publish_artifacts"}
        /\ UNCHANGED <<records, issued, wjob, handlers, told>>
        /\ wjob \in Jobs /\ records[wjob].status = "running"
    BY <1>7 DEF OpenFolder, RunPsse, SaveResult, SaveManifest, Raise, Recover, Placed
  <2>2. \A i \in Jobs : i # wjob => disk'[i] = disk[i]
    BY <1>7, <2>1
       DEF OpenFolder, RunPsse, SaveResult, SaveManifest, Raise, Recover, TypeOK
  <2>3. WrittenFirst'
    <3>1. CASE SaveResult
      <4>1. /\ wpc' = "manifest" /\ wok' = wok /\ wdir' = wdir
            /\ disk'[wjob][wdir].result = IF wok THEN "ok" ELSE "not_ok"
        BY <2>1, <3>1 DEF SaveResult, TypeOK, Folder
      <4> QED  BY <2>1, <4>1 DEF WrittenFirst, LockFree
    <3>2. CASE SaveManifest
      <4>1. /\ wpc = "manifest" /\ wpc' = "publish" /\ wok' = wok /\ wdir' = wdir
            /\ disk'[wjob][wdir].manifest = "whole"
            /\ disk'[wjob][wdir].result = disk[wjob][wdir].result
        BY <2>1, <3>2 DEF SaveManifest, TypeOK, Folder
      <4> QED  BY <2>1, <4>1 DEF WrittenFirst, LockFree
    <3>3. CASE OpenFolder \/ RunPsse \/ Raise \/ Recover
      <4>1. wpc' \in {"run", "save", "dead", "recover"}
        BY <3>3 DEF OpenFolder, RunPsse, Raise, Recover
      <4> QED  BY <4>1 DEF WrittenFirst, LockFree
    <3> QED  BY <1>7, <3>1, <3>2, <3>3
  <2>4. FinishedIsPublished' /\ ToldAgrees' /\ LateReadersSafe'
    BY <2>1, <2>2 DEF FinishedIsPublished, Published, ToldAgrees, LateReadersSafe,
                      LateReaderSafe, BeingPublished, LockFree, Finished
  <2> QED  BY <2>3, <2>4 DEF Outcomes
<1>8. ASSUME PublishStatus PROVE Outcomes'
  <2>1. /\ wpc = "publish" /\ wpc' = "publish_result" /\ wjob \in Jobs
        /\ records[wjob].status = "running"
        /\ records'[wjob].status = IF wok THEN "completed" ELSE "error"
        /\ \A i \in Jobs \ {wjob} : records'[i] = records[i]
        /\ UNCHANGED <<issued, wjob, wdir, wok, disk, handlers, told>>
    BY <1>8 DEF PublishStatus, TypeOK, Placed, Record
  <2>2. told[wjob] = "nothing"
    BY <2>1 DEF ToldAgrees, TypeOK, Finished
  <2>3. WrittenFirst' /\ FinishedIsPublished' /\ ToldAgrees'
    BY <2>1, <2>2 DEF WrittenFirst, FinishedIsPublished, Published, ToldAgrees,
                      BeingPublished, LockFree
  <2>4. \A h \in Handlers : handlers[h].pc \in ReadPc => handlers[h].job \in Jobs
    BY DEF TypeOK, Handler, IdleHandler, ReadPc
  <2>5. LateReadersSafe'
    BY <2>1, <2>2, <2>4 DEF LateReadersSafe, LateReaderSafe, BeingPublished, LockFree
  <2> QED  BY <2>3, <2>5 DEF Outcomes
<1>9. ASSUME PublishResult PROVE Outcomes'
  <2>1. /\ wpc = "publish_result" /\ wpc' = "publish_artifacts" /\ wjob \in Jobs
        /\ records'[wjob].status = records[wjob].status
        /\ records'[wjob].result_path = wdir
        /\ \A i \in Jobs \ {wjob} : records'[i] = records[i]
        /\ UNCHANGED <<issued, wjob, wdir, wok, disk, handlers, told>>
    BY <1>9 DEF PublishResult, TypeOK, WrittenFirst, LockFree, Record
  <2>2. WrittenFirst' /\ FinishedIsPublished' /\ ToldAgrees'
    BY <2>1 DEF WrittenFirst, FinishedIsPublished, Published, ToldAgrees,
                BeingPublished, LockFree
  <2>3. \A h \in Handlers : handlers[h].pc \in ReadPc => handlers[h].job \in Jobs
    BY DEF TypeOK, Handler, IdleHandler, ReadPc
  <2>4. LateReadersSafe'
    BY <2>1, <2>3 DEF LateReadersSafe, LateReaderSafe, BeingPublished, LockFree
  <2> QED  BY <2>2, <2>4 DEF Outcomes
<1>10. ASSUME PublishArtifacts PROVE Outcomes'
  <2>1. /\ wpc = "publish_artifacts" /\ wpc' = "get" /\ wjob \in Jobs
        /\ records'[wjob].status = records[wjob].status
        /\ records'[wjob].result_path = records[wjob].result_path
        /\ records'[wjob].artifacts_path = wdir
        /\ \A i \in Jobs \ {wjob} : records'[i] = records[i]
        /\ UNCHANGED <<issued, wdir, wok, disk, handlers, told>>
    BY <1>10 DEF PublishArtifacts, TypeOK, WrittenFirst, LockFree, Record
  <2>2. /\ records[wjob].result_path = wdir /\ wdir \in Folders
        /\ records[wjob].status = IF wok THEN "completed" ELSE "error"
        /\ disk[wjob][wdir].result = IF wok THEN "ok" ELSE "not_ok"
        /\ disk[wjob][wdir].manifest = "whole"
    BY <2>1 DEF WrittenFirst, LockFree, TypeOK
  <2>3. \A i \in Jobs : i = wjob => Published(i)'
    BY <2>1, <2>2 DEF Published
  <2>4. WrittenFirst' /\ FinishedIsPublished' /\ ToldAgrees'
    BY <2>1, <2>3 DEF WrittenFirst, FinishedIsPublished, Published, ToldAgrees,
                      BeingPublished, LockFree
  <2>5. \A h \in Handlers : handlers[h].pc \in ReadPc => handlers[h].job \in Jobs
    BY DEF TypeOK, Handler, IdleHandler, ReadPc
  <2>6. LateReadersSafe'
    BY <2>1, <2>5 DEF LateReadersSafe, LateReaderSafe, BeingPublished, LockFree
  <2> QED  BY <2>4, <2>6 DEF Outcomes
<1>11. ASSUME Restart PROVE Outcomes'
  <2>1. /\ \A i \in Jobs : records'[i].status = "absent"
        /\ wpc' = "get"
        /\ \A g \in Handlers : handlers'[g].pc = "idle" /\ ~handlers'[g].late
        /\ UNCHANGED <<issued, told>>
    BY <1>11 DEF Restart, NewRecord, IdleHandler
  <2> QED
    BY <2>1 DEF Outcomes, WrittenFirst, FinishedIsPublished, ToldAgrees, ReadPc,
                LateReadersSafe, LateReaderSafe, LockFree, Finished
<1>12. CASE UNCHANGED vars
  BY <1>12 DEF vars, Outcomes, WrittenFirst, FinishedIsPublished, Published,
               ToldAgrees, LateReadersSafe, LateReaderSafe, BeingPublished, LockFree
<1> QED
  BY <1>1, <1>2, <1>3, <1>4, <1>5, <1>6, <1>7, <1>8, <1>9, <1>10, <1>11, <1>12
     DEF Next, Reply, WorkerStep, Outcomes

\* Types, places and outcomes hold together in every behaviour.
THEOREM WorkerInvariant == Spec => []WorkerInv
<1>1. Init => WorkerInv
  BY InitType, InitPlaced, InitOutcomes DEF WorkerInv
<1>2. WorkerInv /\ [Next]_vars => WorkerInv'
  BY TypeStep, PlacedStep, OutcomesStep DEF WorkerInv
<1> QED  BY <1>1, <1>2, PTL DEF Spec

\* A late reader's record is finished and published.
LEMMA LateRecord ==
  ASSUME WorkerInv, NEW h \in Handlers, handlers[h].late
  PROVE  LET j == handlers[h].job IN
         /\ j \in Jobs
         /\ told[j] \in Finished
         /\ records[j].status = told[j]
         /\ Published(j)
         /\ handlers[h].pc \in ReadPc
<1> DEFINE j == handlers[h].job
<1>1. /\ handlers[h].pc \in ReadPc /\ told[j] # "nothing" /\ ~BeingPublished(j)
      /\ records[j].status # "absent"
  BY DEF WorkerInv, Outcomes, LateReadersSafe, LateReaderSafe
<1>2. j \in Jobs
  BY <1>1 DEF WorkerInv, TypeOK, Handler, IdleHandler
<1>3. told[j] \in Finished /\ records[j].status = told[j]
  BY <1>1, <1>2 DEF WorkerInv, TypeOK, Outcomes, ToldAgrees
<1>4. Published(j)
  BY <1>1, <1>2, <1>3 DEF WorkerInv, Outcomes, FinishedIsPublished
<1> QED  BY <1>1, <1>2, <1>3, <1>4

\* A client that was told the job is over gets its result, whole.
THEOREM ResultAfterTold == Spec => []ToldFinishedThenResult
<1>1. WorkerInv => ToldFinishedThenResult
  <2> SUFFICES ASSUME WorkerInv, NEW h \in Handlers, handlers[h].late
               PROVE  Answer(h) \notin {"job_not_finished", "job_result_missing",
                                        "job_artifacts_missing", "none", "torn"}
    BY DEF ToldFinishedThenResult
  <2> QED
    BY LateRecord DEF Answer, Published, Folders, Finished, ReadPc
<1> QED  BY <1>1, WorkerInvariant, PTL

\* The result read agrees with the status told.
THEOREM ResultAgrees == Spec => []ResultMatchesStatus
<1>1. WorkerInv => ResultMatchesStatus
  <2> SUFFICES ASSUME WorkerInv, NEW h \in Handlers, handlers[h].late,
                      handlers[h].pc = "load"
               PROVE  Answer(h) = "ok" <=> told[handlers[h].job] = "completed"
    BY DEF ResultMatchesStatus
  <2> QED
    BY LateRecord DEF Answer, Published, Folders, Finished
<1> QED  BY <1>1, WorkerInvariant, PTL

\* No client is told two outcomes of one job.
THEOREM ToldOnce == Spec => ToldIsFinal
<1>1. WorkerInv /\ [Next]_vars
        => [\A j \in Jobs : told[j] # "nothing" => told'[j] = told[j]]_vars
  <2> SUFFICES ASSUME WorkerInv, Next, NEW j \in Jobs, told[j] # "nothing"
               PROVE  told'[j] = told[j]
    OBVIOUS
  <2>1. CASE UNCHANGED told
    BY <2>1
  <2>2. ASSUME NEW h \in Handlers, Read(h) PROVE told'[j] = told[j]
    <3> DEFINE k == handlers[h].job
    <3>1. CASE Answer(h) \notin Finished
      BY <2>2, <3>1 DEF Read
    <3>2. CASE Answer(h) \in Finished
      <4>1. told' = [told EXCEPT ![k] = Answer(h)] /\ k \in Jobs
        BY <2>2, <3>2 DEF Read, WorkerInv, TypeOK, Handler, IdleHandler, ReadPc
      <4>2. handlers[h].pc = "status" => Answer(h) = records[k].status
        BY DEF Answer
      <4>3. handlers[h].pc = "status"
        <5>1. /\ records[k].result_path # "None" =>
                   disk[k][records[k].result_path].result \in ResultFile
              /\ records[k].artifacts_path # "None" =>
                   disk[k][records[k].artifacts_path].manifest \in ManifestFile
          BY <4>1 DEF WorkerInv, TypeOK, Record, Paths, Folder
        <5> HIDE DEF k
        <5> QED
          BY <3>2, <5>1 DEF Answer, k, ReadPc, Finished, ResultFile, ManifestFile
      <4>4. told[k] # "nothing" => records[k].status \in {told[k], "absent"}
        BY <4>1 DEF WorkerInv, Outcomes, ToldAgrees
      <4>5. told[k] # "nothing" => told[k] = Answer(h)
        BY <3>2, <4>2, <4>3, <4>4 DEF Finished
      <4> HIDE DEF k
      <4> QED  BY <4>1, <4>5 DEF WorkerInv, TypeOK
    <3> QED  BY <3>1, <3>2
  <2> QED
    BY <2>1, <2>2
       DEF Next, Reply, WorkerStep, PostStore, PostPut, Lookup, TakeJob, MarkRunning,
           OpenFolder, RunPsse, SaveResult, SaveManifest, PublishStatus,
           PublishResult, PublishArtifacts, Raise, Recover, Restart
<1> QED  BY <1>1, WorkerInvariant, PTL DEF Spec, ToldIsFinal

-----------------------------------------------------------------------------
(* The worker implements the specification of its jobs *)

\* The worker starts as the abstract line of jobs does.
LEMMA InitRefines == Init => Jb!Init
BY DEF Init, InitProcess, Jb!Init, Phase

\* A step that leaves the queue and every job's phase alone.
LEMMA Stutter ==
  ASSUME queue' = queue, \A i \in Jobs : Phase'[i] = Phase[i]
  PROVE  UNCHANGED Jb!vars
<1>1. Phase' = Phase
  BY DEF Phase
<1> QED  BY <1>1 DEF Jb!vars

\* Every step of the worker is a step of the abstract line of jobs, or stutters.
LEMMA StepRefines == WorkerInv /\ [Next]_vars => [Jb!Next]_(Jb!vars)
<1> SUFFICES ASSUME TypeOK, PendingIsAccounted, Placed, [Next]_vars
             PROVE  [Jb!Next]_(Jb!vars)
  BY DEF WorkerInv
<1> USE DEF workerVars
<1>1. ASSUME NEW h \in Handlers, PostStore(h) PROVE UNCHANGED Jb!vars
  <2>1. PICK j \in Jobs \ issued :
          /\ records' = [records EXCEPT ![j] = NewRecord("queued")]
          /\ issued' = issued \cup {j}
          /\ handlers' = [handlers EXCEPT ![h] =
               [pc |-> "put", job |-> j, late |-> FALSE]]
    BY <1>1 DEF PostStore, Become
  <2>2. /\ UNCHANGED <<queue, wpc, wjob>>
        /\ handlers[h].pc = "idle"
        /\ \A i \in Jobs \ {j} : records'[i] = records[i]
    BY <1>1, <2>1 DEF PostStore, TypeOK
  <2>3. \A i \in Jobs : BeingPut(i)' <=> (i = j \/ BeingPut(i))
    BY <2>1, <2>2 DEF BeingPut, TypeOK
  <2>4. \A i \in Jobs : Taken(i)' <=> Taken(i)
    BY <2>2 DEF Taken
  <2> QED  BY <2>1, <2>2, <2>3, <2>4, Stutter DEF Phase
<1>2. ASSUME NEW h \in Handlers, PostPut(h) PROVE Jb!Next
  <2> DEFINE j == handlers[h].job
  <2>1. /\ j \in Jobs
        /\ handlers[h].pc = "put"
        /\ queue' = Append(queue, j)
        /\ handlers' = [handlers EXCEPT ![h] = IdleHandler]
        /\ UNCHANGED <<records, issued, wpc, wjob>>
    BY <1>2 DEF PostPut, Become, TypeOK, Handler, IdleHandler
  <2>2. BeingPut(j) /\ ~Taken(j)
    BY <2>1 DEF BeingPut, Placed
  <2>3. records[j].status = "queued" /\ j \in issued
    BY <2>1, <2>2 DEF PendingIsAccounted, Placed
  <2>4. /\ handlers'[h].pc = "idle"
        /\ \A g \in Handlers : g # h => handlers'[g] = handlers[g]
    BY <2>1 DEF TypeOK, IdleHandler
  <2>5. \A i \in Jobs : BeingPut(i)' <=> (i # j /\ BeingPut(i))
    BY <2>1, <2>4 DEF BeingPut, Placed
  <2>6. \A i \in Jobs : Taken(i)' <=> Taken(i)
    BY <2>1 DEF Taken
  <2> HIDE DEF j
  <2>7. Phase[j] = "new" /\ Phase' = [Phase EXCEPT ![j] = "queued"]
    BY <2>1, <2>2, <2>3, <2>5, <2>6 DEF Phase
  <2> QED  BY <2>1, <2>7 DEF Jb!Next, Jb!Accept
<1>3. ASSUME NEW h \in Handlers, Lookup(h) \/ Read(h) PROVE UNCHANGED Jb!vars
  <2>1. /\ handlers[h].pc # "put"
        /\ handlers'[h].pc # "put"
        /\ \A g \in Handlers : g # h => handlers'[g] = handlers[g]
        /\ UNCHANGED <<records, queue, issued, wpc, wjob>>
    <3>1. CASE Lookup(h)
      BY <3>1 DEF Lookup, Become, IdleHandler, TypeOK
    <3>2. CASE Read(h)
      BY <3>2 DEF Read, Become, IdleHandler, ReadPc, TypeOK, Handler
    <3> QED  BY <1>3, <3>1, <3>2
  <2>2. \A i \in Jobs : (BeingPut(i)' <=> BeingPut(i)) /\ (Taken(i)' <=> Taken(i))
    BY <2>1 DEF BeingPut, Taken
  <2> QED  BY <2>1, <2>2, Stutter DEF Phase
<1>4. ASSUME TakeJob PROVE Jb!Next
  <2> DEFINE j == Head(queue)
  <2>1. /\ queue # <<>> /\ queue \in Seq(Jobs)
        /\ wpc = "get" /\ wpc' = "mark" /\ wjob' = j /\ queue' = Tail(queue)
        /\ UNCHANGED <<records, issued, handlers>>
    BY <1>4 DEF TakeJob, TypeOK
  <2>2. j \in Jobs /\ Waiting(j)
    <3>1. \A i, k \in 1..Len(queue) : queue[i] = queue[k] => i = k
      BY DEF Placed
    <3> HIDE DEF j
    <3> QED  BY <2>1, <3>1, GetElements DEF Waiting, Occurs, j
  <2>3. records[j].status = "queued" /\ j \in issued /\ ~BeingPut(j)
    BY <2>2 DEF PendingIsAccounted, Placed
  <2>4. \A i \in Jobs : Taken(i)' <=> i = j
    BY <2>1 DEF Taken
  <2>5. \A i \in Jobs : ~Taken(i) /\ records[i].status # "running"
    BY <2>1 DEF Taken, PendingIsAccounted
  <2>6. \A i \in Jobs : BeingPut(i)' <=> BeingPut(i)
    BY <2>1 DEF BeingPut
  <2> HIDE DEF j
  <2>7. \A i \in Jobs : Phase[i] # "running"
    BY <2>5 DEF Phase
  <2>8. Phase' = [Phase EXCEPT ![j] = "running"]
    BY <2>1, <2>2, <2>3, <2>4, <2>5, <2>6 DEF Phase
  <2> QED  BY <2>1, <2>7, <2>8 DEF Jb!Next, Jb!Start, j
<1>5. ASSUME MarkRunning PROVE UNCHANGED Jb!vars
  <2>1. /\ wpc = "mark" /\ wpc' = "open" /\ wjob \in Jobs
        /\ records'[wjob].status = "running"
        /\ \A i \in Jobs \ {wjob} : records'[i] = records[i]
        /\ UNCHANGED <<queue, issued, wjob, handlers>>
    BY <1>5 DEF MarkRunning, TypeOK, Placed, Record
  <2>2. \A i \in Jobs : /\ BeingPut(i)' <=> BeingPut(i)
                        /\ Taken(i) <=> i = wjob
                        /\ ~Taken(i)'
    BY <2>1 DEF BeingPut, Taken
  <2>3. wjob \in issued /\ ~BeingPut(wjob) /\ records[wjob].status = "queued"
    BY <2>1, <2>2 DEF PendingIsAccounted, Placed
  <2> QED  BY <2>1, <2>2, <2>3, Stutter DEF Phase
<1>6. ASSUME OpenFolder \/ RunPsse \/ SaveResult \/ SaveManifest \/ Raise \/ Recover
      PROVE  UNCHANGED Jb!vars
  <2>1. /\ wpc # "mark" /\ wpc' # "mark"
        /\ UNCHANGED <<records, queue, issued, handlers>>
    BY <1>6 DEF OpenFolder, RunPsse, SaveResult, SaveManifest, Raise, Recover
  <2>2. \A i \in Jobs : (BeingPut(i)' <=> BeingPut(i)) /\ ~Taken(i) /\ ~Taken(i)'
    BY <2>1 DEF BeingPut, Taken
  <2> QED  BY <2>1, <2>2, Stutter DEF Phase
<1>7. ASSUME PublishStatus PROVE Jb!Next
  <2>1. /\ wpc = "publish" /\ wpc' = "publish_result" /\ wjob \in Jobs
        /\ records[wjob].status = "running"
        /\ records'[wjob].status \in Finished
        /\ \A i \in Jobs \ {wjob} : records'[i] = records[i]
        /\ UNCHANGED <<queue, issued, wjob, handlers>>
    BY <1>7 DEF PublishStatus, TypeOK, Placed, Record, Finished
  <2>2. \A i \in Jobs : (BeingPut(i)' <=> BeingPut(i)) /\ ~Taken(i) /\ ~Taken(i)'
    BY <2>1 DEF BeingPut, Taken
  <2>3. wjob \in issued /\ ~BeingPut(wjob)
    BY <2>1 DEF PendingIsAccounted, Placed
  <2>4. Phase[wjob] = "running"
        /\ Phase' = [Phase EXCEPT ![wjob] = records'[wjob].status]
    BY <2>1, <2>2, <2>3 DEF Phase, Finished
  <2> QED  BY <2>1, <2>4 DEF Jb!Next, Jb!Finish, Jb!Finished, Finished
<1>8. ASSUME PublishResult \/ PublishArtifacts PROVE UNCHANGED Jb!vars
  <2>1. /\ wpc # "mark" /\ wpc' # "mark"
        /\ \A i \in Jobs : records'[i].status = records[i].status
        /\ UNCHANGED <<queue, issued, handlers>>
    <3>1. CASE PublishResult
      BY <3>1 DEF PublishResult, TypeOK, Record
    <3>2. CASE PublishArtifacts
      BY <3>2 DEF PublishArtifacts, TypeOK, Record
    <3> QED  BY <1>8, <3>1, <3>2
  <2>2. \A i \in Jobs : (BeingPut(i)' <=> BeingPut(i)) /\ ~Taken(i) /\ ~Taken(i)'
    BY <2>1 DEF BeingPut, Taken
  <2> QED  BY <2>1, <2>2, Stutter DEF Phase
<1>9. ASSUME Restart PROVE Jb!Next
  <2>1. /\ \A i \in Jobs : records'[i].status = "absent"
        /\ queue' = <<>> /\ issued' = issued
        /\ \A g \in Handlers : handlers'[g].pc = "idle"
    BY <1>9 DEF Restart, NewRecord, IdleHandler
  <2>2. \A i \in Jobs : ~BeingPut(i)'
    BY <2>1 DEF BeingPut
  <2>3. Phase' = [i \in Jobs |-> IF i \in issued THEN "lost" ELSE "new"]
    BY <2>1, <2>2 DEF Phase
  <2> DEFINE dropped == {i \in Jobs : Phase[i] = "new" /\ i \in issued}
  <2>4. dropped \in SUBSET {i \in Jobs : Phase[i] = "new"}
    OBVIOUS
  <2>5. \A i \in Jobs : i \notin issued => Phase[i] = "new"
    BY DEF Phase
  <2>6. Phase' = [i \in Jobs |->
                    IF Phase[i] = "new" /\ i \notin dropped THEN "new" ELSE "lost"]
    BY <2>3, <2>5
  <2> QED  BY <2>1, <2>4, <2>6 DEF Jb!Next, Jb!Restart
<1>10. CASE UNCHANGED vars
  <2>1. \A i \in Jobs : (BeingPut(i)' <=> BeingPut(i)) /\ (Taken(i)' <=> Taken(i))
    BY <1>10 DEF vars, BeingPut, Taken
  <2> QED  BY <1>10, <2>1, Stutter DEF Phase, vars
<1> QED
  BY <1>1, <1>2, <1>3, <1>4, <1>5, <1>6, <1>7, <1>8, <1>9, <1>10
     DEF Next, Reply, WorkerStep

\* The worker serves accepted jobs one at a time and in order.
THEOREM ServesInOrder == Spec => ServedInOrder
<1> QED  BY InitRefines, StepRefines, WorkerInvariant, PTL
         DEF Spec, ServedInOrder, Jb!Spec
=============================================================================
