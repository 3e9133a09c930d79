------------------------- MODULE StudyMemoryProofs -------------------------
(***************************************************************************)
(* Proofs about StudyMemory, for all processes, studies and faults: the    *)
(* shared files implement the log of StudyLog; the ledger follows it.      *)
(***************************************************************************)
EXTENDS StudyMemory, TLAPS

\* What an append leaves of the pieces before it.
LEMMA AppendKeeps ==
  ASSUME file \in Seq(Piece), NEW piece \in Piece, file' = Append(file, piece)
  PROVE  /\ file' \in Seq(Piece)
         /\ Len(file') = Len(file) + 1
         /\ \A i \in 1..Len(file) : file'[i] = file[i]
         /\ file'[Len(file) + 1] = piece
  OBVIOUS

\* A study that is kept stays kept, and an append keeps its own at most.
LEMMA KeptGrows ==
  ASSUME file \in Seq(Piece), NEW piece \in Piece, file' = Append(file, piece)
  PROVE  /\ Kept \subseteq Kept'
         /\ Kept' \subseteq Kept \cup {piece.study}
  <1>1. /\ Len(file) \in Nat
        /\ Len(file') = Len(file) + 1
        /\ \A i \in 1..Len(file) : file'[i] = file[i]
        /\ file'[Len(file) + 1] = piece
    BY AppendKeeps
  <1>2. ASSUME NEW i \in 1..Len(file)
        PROVE  /\ i \in 1..Len(file')
               /\ file'[i] = file[i]
               /\ i > 1 => file'[i - 1] = file[i - 1]
    BY <1>1
  <1>3. Kept \subseteq Kept'
    BY <1>2 DEF Kept
  <1>4. ASSUME NEW i \in 1..Len(file'), i \notin 1..Len(file)
        PROVE  file'[i] = piece
    BY <1>1, <1>4
  <1>5. Kept' \subseteq Kept \cup {piece.study}
    BY <1>2, <1>4 DEF Kept
  <1> QED  BY <1>3, <1>5

\* In a file that can be loaded, every study with a line is kept.
LEMMA LineOfLoadableIsKept ==
  ASSUME file \in Seq(Piece), Loadable,
         NEW i \in 1..Len(file), file[i].extent = "line"
  PROVE  file[i].study \in Kept
  <1>1. ASSUME i > 1 PROVE file[i - 1].extent = "line"
    <2>1. i - 1 \in 1..Len(file) /\ i - 1 < Len(file)
      BY <1>1
    <2> QED  BY <2>1 DEF Loadable
  <1> QED  BY <1>1 DEF Kept

\* A step either leaves the records file alone or appends a piece of the
\* study that some process records.
LEMMA FileOnlyGrows ==
  ASSUME TypeOK, [Next]_vars
  PROVE  \/ UNCHANGED file
         \/ \E piece \in Piece : file' = Append(file, piece)
  <1>1. CASE UNCHANGED vars
    BY <1>1 DEF vars
  <1>2. ASSUME NEW p \in Processes, AppendRecord(p)
        PROVE  \E piece \in Piece : file' = Append(file, piece)
    <2>1. [study |-> study[p], extent |-> "line"] \in Piece
      BY DEF TypeOK, Piece
    <2> QED  BY <1>2, <2>1 DEF AppendRecord
  <1>3. ASSUME NEW p \in Processes, CutRecord(p)
        PROVE  \/ UNCHANGED file
               \/ \E piece \in Piece : file' = Append(file, piece)
    <2>1. \A extent \in {"text", "part"} :
            [study |-> study[p], extent |-> extent] \in Piece
      BY DEF TypeOK, Piece
    <2> QED  BY <1>3, <2>1 DEF CutRecord
  <1> QED
    BY <1>1, <1>2, <1>3
    DEF Next, Begin, Load, LoadFails, OpenLedger, WriteLedger, CutLedger, Stop

-----------------------------------------------------------------------------
\* The types hold initially.
LEMMA InitTypes == Init => TypeOK
  BY MemoryAssumption DEF Init, TypeOK, Piece

\* Every step keeps the types.
LEMMA StepTypes == TypeOK /\ [Next]_vars => TypeOK'
  <1> SUFFICES ASSUME TypeOK, [Next]_vars PROVE TypeOK'
    OBVIOUS
  <1>1. file' \in Seq(Piece)
    <2>1. ASSUME NEW piece \in Piece, file' = Append(file, piece)
          PROVE  file' \in Seq(Piece)
      BY <2>1, AppendKeeps DEF TypeOK
    <2> QED  BY <2>1, FileOnlyGrows DEF TypeOK
  <1>2. ASSUME NEW p \in Processes, NEW outcome \in {"recorded", "failed"},
               Leave(p, outcome)
        PROVE  /\ pc' \in [Processes -> {"idle", "append", "load", "open", "write"}]
               /\ told' \in [Studies -> {"nothing", "running", "recorded", "failed"}]
    BY <1>2 DEF Leave, TypeOK
  <1>3. Fault => faults' \in 0..MaxFaults
    BY MemoryAssumption DEF Fault, TypeOK
  <1>4. CASE UNCHANGED vars
    BY <1>1, <1>4 DEF TypeOK, vars
  <1>5. ASSUME NEW p \in Processes, NEW s \in Studies, Begin(p, s) PROVE TypeOK'
    BY <1>1, <1>5 DEF TypeOK, Begin
  <1>6. ASSUME NEW p \in Processes, AppendRecord(p) PROVE TypeOK'
    BY <1>1, <1>6 DEF TypeOK, AppendRecord
  <1>7. ASSUME NEW p \in Processes, CutRecord(p) PROVE TypeOK'
    BY <1>1, <1>2, <1>3, <1>7 DEF TypeOK, CutRecord
  <1>8. ASSUME NEW p \in Processes, Load(p) PROVE TypeOK'
    <2>1. ASSUME NEW i \in 1..Len(file) PROVE file[i].study \in Studies
      <3>1. file[i] \in Piece
        BY DEF TypeOK
      <3> QED  BY <3>1 DEF Piece
    <2>2. Listed \in SUBSET Studies
      BY <2>1 DEF Listed
    <2> QED  BY <1>1, <1>8, <2>2 DEF TypeOK, Load
  <1>9. ASSUME NEW p \in Processes, LoadFails(p) PROVE TypeOK'
    BY <1>1, <1>2, <1>9 DEF TypeOK, LoadFails
  <1>10. ASSUME NEW p \in Processes, OpenLedger(p) PROVE TypeOK'
    BY <1>1, <1>10 DEF TypeOK, OpenLedger
  <1>11. ASSUME NEW p \in Processes, WriteLedger(p) PROVE TypeOK'
    <2>1. ledger' \in [rows : SUBSET Studies, whole : BOOLEAN]
      BY <1>11 DEF TypeOK, WriteLedger
    <2> QED  BY <1>1, <1>2, <1>11, <2>1 DEF TypeOK, WriteLedger
  <1>12. ASSUME NEW p \in Processes, CutLedger(p) PROVE TypeOK'
    <2>1. ledger' \in [rows : SUBSET Studies, whole : BOOLEAN]
      BY <1>12 DEF TypeOK, CutLedger
    <2> QED  BY <1>1, <1>2, <1>3, <1>12, <2>1 DEF TypeOK, CutLedger
  <1>13. ASSUME NEW p \in Processes, Stop(p) PROVE TypeOK'
    BY <1>1, <1>2, <1>3, <1>13 DEF TypeOK, Stop
  <1> QED
    BY <1>4, <1>5, <1>6, <1>7, <1>8, <1>9, <1>10, <1>11, <1>12, <1>13 DEF Next

-----------------------------------------------------------------------------
\* What is kept stays kept over every step.
LEMMA KeptStays == TypeOK /\ [Next]_vars => Kept \subseteq Kept'
  <1> SUFFICES ASSUME TypeOK, [Next]_vars PROVE Kept \subseteq Kept'
    OBVIOUS
  <1>1. CASE UNCHANGED file
    BY <1>1 DEF Kept
  <1>2. ASSUME NEW piece \in Piece, file' = Append(file, piece)
        PROVE  Kept \subseteq Kept'
    BY <1>2, KeptGrows DEF TypeOK
  <1> QED  BY <1>1, <1>2, FileOnlyGrows

-----------------------------------------------------------------------------
\* A study that is being recorded has one recorder and no answer.
LEMMA StepOneRecorder == TypeOK /\ OneRecorder /\ [Next]_vars => OneRecorder'
  <1> SUFFICES ASSUME TypeOK, OneRecorder, [Next]_vars PROVE OneRecorder'
    OBVIOUS
  <1>1. CASE UNCHANGED <<pc, study, told>>
    BY <1>1 DEF OneRecorder
  <1>2. ASSUME NEW p \in Processes, NEW s \in Studies, Begin(p, s)
        PROVE  OneRecorder'
    <2>1. /\ told[s] = "nothing"
          /\ \A q \in Processes : q # p => pc'[q] = pc[q] /\ study'[q] = study[q]
          /\ study'[p] = s /\ told'[s] = "running"
          /\ \A t \in Studies : t # s => told'[t] = told[t]
      BY <1>2 DEF Begin, TypeOK
    <2>2. \A q \in Processes : pc[q] # "idle" => study[q] # s
      BY <2>1 DEF OneRecorder
    <2> QED  BY <2>1, <2>2 DEF OneRecorder, TypeOK
  <1>3. ASSUME NEW p \in Processes, pc[p] # "idle",
               NEW next \in {"append", "load", "open", "write"},
               pc' = [pc EXCEPT ![p] = next], UNCHANGED <<study, told>>
        PROVE  OneRecorder'
    <2>1. \A q \in Processes : pc'[q] # "idle" => pc[q] # "idle"
      BY <1>3 DEF TypeOK
    <2> QED  BY <1>3, <2>1 DEF OneRecorder
  <1>4. ASSUME NEW p \in Processes, pc[p] # "idle", NEW outcome, Leave(p, outcome),
               UNCHANGED study
        PROVE  OneRecorder'
    <2>1. /\ \A q \in Processes : pc'[q] # "idle" => q # p /\ pc[q] # "idle"
          /\ \A t \in Studies : t # study[p] => told'[t] = told[t]
      BY <1>4 DEF Leave, TypeOK
    <2>2. \A q \in Processes : pc'[q] # "idle" => told'[study[q]] = "running"
      BY <1>4, <2>1 DEF OneRecorder, TypeOK
    <2> QED  BY <1>4, <2>1, <2>2 DEF OneRecorder
  <1>5. ASSUME NEW p \in Processes, AppendRecord(p) \/ Load(p) \/ OpenLedger(p)
        PROVE  OneRecorder'
    BY <1>3, <1>5 DEF AppendRecord, Load, OpenLedger
  <1>6. ASSUME NEW p \in Processes,
               CutRecord(p) \/ LoadFails(p) \/ WriteLedger(p) \/ CutLedger(p) \/ Stop(p)
        PROVE  OneRecorder'
    <2>1. pc[p] # "idle" /\ UNCHANGED study /\ \E outcome : Leave(p, outcome)
      BY <1>6 DEF CutRecord, LoadFails, WriteLedger, CutLedger, Stop
    <2> QED  BY <1>4, <2>1
  <1> QED  BY <1>1, <1>2, <1>5, <1>6 DEF Next, vars

-----------------------------------------------------------------------------
\* The whole lines that a process wrote are still there after any step.
LEMMA LinesStay ==
  ASSUME TypeOK, [Next]_vars, NEW i \in 1..Len(file)
  PROVE  i \in 1..Len(file') /\ file'[i] = file[i]
  <1>1. ASSUME NEW piece \in Piece, file' = Append(file, piece)
        PROVE  i \in 1..Len(file') /\ file'[i] = file[i]
    BY <1>1, AppendKeeps DEF TypeOK
  <1> QED  BY <1>1, FileOnlyGrows

\* Every step preserves what is kept of the confirmed studies.
LEMMA StepConfirmed == MemoryInv /\ [Next]_vars => ConfirmedIsKept'
  <1> SUFFICES ASSUME MemoryInv, [Next]_vars PROVE ConfirmedIsKept'
    OBVIOUS
  <1> USE DEF MemoryInv
  <1>1. Kept \subseteq Kept'
    BY KeptStays
  <1>2. ASSUME NEW p \in Processes, pc[p] = "load", study'[p] = study[p]
        PROVE  \E i \in 1..Len(file') : file'[i] = [study |-> study'[p], extent |-> "line"]
    <2>1. PICK i \in 1..Len(file) : file[i] = [study |-> study[p], extent |-> "line"]
      BY <1>2 DEF ConfirmedIsKept
    <2> QED  BY <1>2, <2>1, LinesStay
  <1>3. ASSUME UNCHANGED <<pc, study, told>> PROVE ConfirmedIsKept'
    BY <1>1, <1>2, <1>3 DEF ConfirmedIsKept, Confirmed
  <1>4. ASSUME NEW p \in Processes, NEW s \in Studies, Begin(p, s)
        PROVE  ConfirmedIsKept'
    <2>1. /\ \A q \in Processes : pc'[q] \in {"load", "open", "write"} =>
                pc[q] = pc'[q] /\ study'[q] = study[q]
          /\ Confirmed' \subseteq Confirmed
      BY <1>4 DEF Begin, TypeOK, Confirmed
    <2> QED  BY <1>1, <1>2, <2>1 DEF ConfirmedIsKept
  <1>5. ASSUME NEW p \in Processes, AppendRecord(p) PROVE ConfirmedIsKept'
    <2>1. /\ \A q \in Processes : q # p => pc'[q] = pc[q]
          /\ pc'[p] = "load" /\ study' = study /\ Confirmed' = Confirmed
      BY <1>5 DEF AppendRecord, TypeOK, Confirmed
    <2>2. \E i \in 1..Len(file') : file'[i] = [study |-> study'[p], extent |-> "line"]
      <3>1. [study |-> study[p], extent |-> "line"] \in Piece
        BY DEF TypeOK, Piece
      <3>2. /\ Len(file) + 1 \in 1..Len(file')
            /\ file'[Len(file) + 1] = [study |-> study[p], extent |-> "line"]
        BY <1>5, <3>1, AppendKeeps DEF AppendRecord, TypeOK
      <3> QED  BY <2>1, <3>2
    <2> QED  BY <1>1, <1>2, <2>1, <2>2 DEF ConfirmedIsKept
  <1>6. ASSUME NEW p \in Processes, Load(p) PROVE ConfirmedIsKept'
    <2>1. /\ \A q \in Processes : q # p => pc'[q] = pc[q]
          /\ pc'[p] = "open" /\ study' = study /\ Confirmed' = Confirmed
      BY <1>6 DEF Load, TypeOK, Confirmed
    <2>2. study[p] \in Kept
      <3>1. PICK i \in 1..Len(file) : file[i] = [study |-> study[p], extent |-> "line"]
        BY <1>6 DEF ConfirmedIsKept, Load
      <3> QED  BY <1>6, <3>1, LineOfLoadableIsKept DEF Load, TypeOK
    <2> QED  BY <1>1, <1>2, <2>1, <2>2 DEF ConfirmedIsKept
  <1>7. ASSUME NEW p \in Processes, OpenLedger(p) PROVE ConfirmedIsKept'
    <2>1. /\ \A q \in Processes : q # p => pc'[q] = pc[q]
          /\ pc'[p] = "write" /\ study' = study /\ Confirmed' = Confirmed
          /\ study[p] \in Kept
      BY <1>7 DEF OpenLedger, TypeOK, Confirmed, ConfirmedIsKept
    <2> QED  BY <1>1, <1>2, <2>1 DEF ConfirmedIsKept
  <1>8. ASSUME NEW p \in Processes, NEW outcome \in {"recorded", "failed"},
               Leave(p, outcome), UNCHANGED study,
               outcome = "recorded" => study[p] \in Kept
        PROVE  ConfirmedIsKept'
    <2>1. \A q \in Processes : pc'[q] # "idle" => pc'[q] = pc[q] /\ study'[q] = study[q]
      BY <1>8 DEF Leave, TypeOK
    <2>2. Confirmed' \subseteq Kept
      BY <1>8 DEF Leave, TypeOK, Confirmed, ConfirmedIsKept
    <2> QED  BY <1>1, <1>2, <2>1, <2>2 DEF ConfirmedIsKept
  <1>9. ASSUME NEW p \in Processes,
               CutRecord(p) \/ LoadFails(p) \/ CutLedger(p) \/ Stop(p)
        PROVE  ConfirmedIsKept'
    <2>1. Leave(p, "failed") /\ UNCHANGED study
      BY <1>9 DEF CutRecord, LoadFails, CutLedger, Stop
    <2> QED  BY <1>8, <2>1
  <1>10. ASSUME NEW p \in Processes, WriteLedger(p) PROVE ConfirmedIsKept'
    <2>1. /\ Leave(p, "recorded") /\ UNCHANGED study
          /\ study[p] \in Kept
      BY <1>10 DEF WriteLedger, ConfirmedIsKept
    <2> QED  BY <1>8, <2>1
  <1> QED
    BY <1>3, <1>4, <1>5, <1>6, <1>7, <1>9, <1>10 DEF Next, vars

\* The invariant of the study memory: whoever was given a memory_record has a
\* line of its own in studies.jsonl, next to any torn lines of other calls.
THEOREM MemoryInvariant == Spec => []MemoryInv
  <1>1. Init => MemoryInv
    BY InitTypes
    DEF Init, MemoryInv, OneRecorder, ConfirmedIsKept, Confirmed, Kept
  <1>2. MemoryInv /\ [Next]_vars => MemoryInv'
    BY StepTypes, StepOneRecorder, StepConfirmed DEF MemoryInv
  <1> QED  BY <1>1, <1>2, PTL DEF Spec

\* A step of the memory is a step of the log: a study more is kept, or one that
\* is kept is confirmed, or neither changes.
LEMMA StepLog == MemoryInv /\ [Next]_vars => [Log!Next]_(Log!vars)
  <1> SUFFICES ASSUME MemoryInv, [Next]_vars PROVE [Log!Next]_(Log!vars)
    OBVIOUS
  <1> USE DEF MemoryInv, Log!Next, Log!vars, Log!Keep, Log!Confirm
  <1>1. ASSUME UNCHANGED <<file, told>> PROVE UNCHANGED Log!vars
    BY <1>1 DEF Kept, Confirmed
  <1>2. ASSUME UNCHANGED file PROVE Kept' = Kept
    BY <1>2 DEF Kept
  <1>3. ASSUME NEW piece \in Piece, file' = Append(file, piece), Confirmed' = Confirmed
        PROVE  [Log!Next]_(Log!vars)
    <2>0. Kept \subseteq Kept' /\ Kept' \subseteq Kept \cup {piece.study}
      BY <1>3, KeptGrows DEF TypeOK
    <2>1. Kept' = Kept \/ Kept' = Kept \cup {piece.study}
      BY <2>0
    <2>2. piece.study \in Studies
      BY DEF Piece
    <2> QED  BY <1>3, <2>1, <2>2
  <1>4. ASSUME NEW p \in Processes, pc[p] # "idle", Leave(p, "failed")
        PROVE  Confirmed' = Confirmed
    <2>1. told[study[p]] = "running"
      BY <1>4 DEF OneRecorder
    <2> QED  BY <1>4, <2>1 DEF Leave, TypeOK, Confirmed
  <1>5. ASSUME NEW p \in Processes, NEW s \in Studies, Begin(p, s)
        PROVE  UNCHANGED Log!vars
    <2>1. Confirmed' = Confirmed
      BY <1>5 DEF Begin, TypeOK, Confirmed
    <2> QED  BY <1>2, <1>5, <2>1 DEF Begin
  <1>6. ASSUME NEW p \in Processes, AppendRecord(p) PROVE [Log!Next]_(Log!vars)
    <2>1. [study |-> study[p], extent |-> "line"] \in Piece
      BY DEF TypeOK, Piece
    <2>2. Confirmed' = Confirmed
      BY <1>6 DEF AppendRecord, Confirmed
    <2> QED  BY <1>3, <1>6, <2>1, <2>2 DEF AppendRecord
  <1>7. ASSUME NEW p \in Processes, CutRecord(p) PROVE [Log!Next]_(Log!vars)
    <2>1. Confirmed' = Confirmed
      BY <1>4, <1>7 DEF CutRecord
    <2>2. CASE UNCHANGED file
      BY <1>2, <2>1, <2>2
    <2>3. CASE \E piece \in Piece : file' = Append(file, piece)
      BY <1>3, <2>1, <2>3
    <2> QED  BY <2>2, <2>3, FileOnlyGrows
  <1>8. ASSUME NEW p \in Processes, LoadFails(p) \/ CutLedger(p) \/ Stop(p)
        PROVE  UNCHANGED Log!vars
    <2>1. pc[p] # "idle" /\ Leave(p, "failed") /\ UNCHANGED file
      BY <1>8 DEF LoadFails, CutLedger, Stop
    <2> QED  BY <1>2, <1>4, <2>1
  <1>9. ASSUME NEW p \in Processes, WriteLedger(p) PROVE [Log!Next]_(Log!vars)
    <2>1. Confirmed' = Confirmed \cup {study[p]} /\ study[p] \in Studies
      BY <1>9 DEF WriteLedger, Leave, TypeOK, Confirmed
    <2>2. study[p] \in Kept
      BY <1>9 DEF WriteLedger, ConfirmedIsKept
    <2>3. Kept' = Kept
      BY <1>2, <1>9 DEF WriteLedger
    <2> QED  BY <2>1, <2>2, <2>3
  <1> QED
    BY <1>1, <1>5, <1>6, <1>7, <1>8, <1>9 DEF Next, vars, Load, OpenLedger

\* The shared files implement the log: no study that was kept is ever lost, and
\* only one that is kept is confirmed, whatever fails and whoever else writes.
THEOREM StudiesAreKept == Spec => KeepsStudies
  <1>1. Init => Log!Init
    BY DEF Init, Log!Init, Kept, Confirmed
  <1> QED
    BY <1>1, MemoryInvariant, StepLog, PTL DEF Spec, KeepsStudies, Log!Spec

-----------------------------------------------------------------------------
\* What the ledger and the processes list is in the records file, and a process
\* that is alone lists all of it.
Listings ==
  /\ ledger.rows \subseteq Listed
  /\ \A p \in Processes : pc[p] \in {"open", "write"} =>
       /\ loaded[p] \subseteq Listed
       /\ Processes = {p} => loaded[p] = Listed

\* Records are only added to the file.
LEMMA ListedGrows == TypeOK /\ [Next]_vars => Listed \subseteq Listed'
  <1> SUFFICES ASSUME TypeOK, [Next]_vars, NEW i \in 1..Len(file)
               PROVE  file[i].study \in Listed'
    BY DEF Listed
  <1>1. i \in 1..Len(file') /\ file'[i] = file[i]
    BY LinesStay
  <1> QED  BY <1>1 DEF Listed

\* Every step preserves the listings.
LEMMA StepListings == TypeOK /\ Listings /\ [Next]_vars => Listings'
  <1> SUFFICES ASSUME TypeOK, Listings, [Next]_vars PROVE Listings'
    OBVIOUS
  <1>1. Listed \subseteq Listed'
    BY ListedGrows
  <1>2. UNCHANGED file => Listed' = Listed
    BY DEF Listed
  <1>3. CASE UNCHANGED vars
    BY <1>2, <1>3 DEF Listings, vars
  <1>4. ASSUME NEW p \in Processes, NEW s \in Studies, Begin(p, s) PROVE Listings'
    BY <1>2, <1>4 DEF Begin, Listings, TypeOK
  <1>5. ASSUME NEW p \in Processes, pc[p] = "append", pc'[p] \in {"load", "idle"},
               \A q \in Processes : q # p => pc'[q] = pc[q], UNCHANGED <<ledger, loaded>>
        PROVE  Listings'
    BY <1>1, <1>5 DEF Listings
  <1>6. ASSUME NEW p \in Processes, AppendRecord(p) PROVE Listings'
    BY <1>5, <1>6 DEF AppendRecord, TypeOK
  <1>7. ASSUME NEW p \in Processes, CutRecord(p) PROVE Listings'
    BY <1>5, <1>7 DEF CutRecord, Leave, TypeOK
  <1>8. ASSUME NEW p \in Processes, Load(p) PROVE Listings'
    BY <1>2, <1>8 DEF Load, Listings, TypeOK
  <1>9. ASSUME NEW p \in Processes, LoadFails(p) \/ Stop(p) PROVE Listings'
    BY <1>2, <1>9 DEF LoadFails, Stop, Leave, Listings, TypeOK
  <1>10. ASSUME NEW p \in Processes, OpenLedger(p) PROVE Listings'
    BY <1>2, <1>10 DEF OpenLedger, Listings, TypeOK
  <1>11. ASSUME NEW p \in Processes, pc[p] = "write", ledger'.rows \subseteq Listed,
                \E outcome : Leave(p, outcome), UNCHANGED <<file, loaded>>
         PROVE  Listings'
    BY <1>2, <1>11 DEF Leave, Listings, TypeOK
  <1>12. ASSUME NEW p \in Processes, WriteLedger(p) PROVE Listings'
    <2>1. ledger'.rows \subseteq Listed
      BY <1>12 DEF WriteLedger, Listings, TypeOK
    <2> QED  BY <1>11, <1>12, <2>1 DEF WriteLedger
  <1>13. ASSUME NEW p \in Processes, CutLedger(p) PROVE Listings'
    <2>1. ledger'.rows \subseteq Listed
      BY <1>13 DEF CutLedger, Listings, TypeOK
    <2> QED  BY <1>11, <1>13, <2>1 DEF CutLedger
  <1> QED
    BY <1>3, <1>4, <1>6, <1>7, <1>8, <1>9, <1>10, <1>12, <1>13 DEF Next

\* Types, recorders and listings hold in every state.
LEMMA ListingsHold == Spec => [](TypeOK /\ OneRecorder /\ Listings)
  <1>1. Init => TypeOK /\ OneRecorder /\ Listings
    BY InitTypes DEF Init, OneRecorder, Listings
  <1>2. TypeOK /\ OneRecorder /\ Listings /\ [Next]_vars
          => (TypeOK /\ OneRecorder /\ Listings)'
    BY StepTypes, StepOneRecorder, StepListings
  <1> QED  BY <1>1, <1>2, PTL DEF Spec

\* A study is recorded by the step in which its process writes the ledger, and if
\* the process lists every record, the ledger is that listing.
LEMMA StepLedger ==
  ASSUME TypeOK, OneRecorder, Listings, [Next]_vars, NEW p \in Processes,
         pc[p] # "idle", told[study[p]] # "recorded", told'[study[p]] = "recorded",
         loaded[p] = Listed \/ Processes = {p}
  PROVE  ledger' = [rows |-> Listed, whole |-> TRUE]
  <1>1. study[p] \in Studies
    BY DEF TypeOK
  <1>2. ASSUME NEW q \in Processes, Leave(q, "failed") PROVE FALSE
    BY <1>1, <1>2 DEF Leave, TypeOK
  <1>3. ASSUME NEW q \in Processes, WriteLedger(q), q # p PROVE FALSE
    <2>1. study[q] # study[p]
      BY <1>3 DEF WriteLedger, OneRecorder
    <2> QED  BY <1>1, <1>3, <2>1 DEF WriteLedger, Leave, TypeOK
  <1>4. ASSUME NEW q \in Processes, NEW s \in Studies, Begin(q, s) PROVE FALSE
    BY <1>1, <1>4 DEF Begin, TypeOK
  <1>5. WriteLedger(p)
    BY <1>2, <1>3, <1>4
    DEF Next, vars, AppendRecord, CutRecord, Load, LoadFails, OpenLedger, CutLedger, Stop
  <1> QED  BY <1>5 DEF WriteLedger, Listings

\* A study is recorded with a complete and whole ledger, if no other process has
\* appended since the file was read.
THEOREM LedgerCurrent == Spec => LedgerIsCurrent
  <1>1. TypeOK /\ OneRecorder /\ Listings /\ [Next]_vars =>
          [\A p \in Processes :
             /\ pc[p] # "idle"
             /\ told[study[p]] # "recorded" /\ told'[study[p]] = "recorded"
             /\ loaded[p] = Listed
             => ledger' = [rows |-> Listed, whole |-> TRUE]]_vars
    BY StepLedger
  <1> QED  BY <1>1, ListingsHold, PTL DEF Spec, LedgerIsCurrent

\* A single process never records a study with an outdated ledger.
THEOREM LedgerOfOneProcess ==
  Spec => [][\A p \in Processes :
               /\ Processes = {p} /\ pc[p] # "idle"
               /\ told[study[p]] # "recorded" /\ told'[study[p]] = "recorded"
               => ledger' = [rows |-> Listed, whole |-> TRUE]]_vars
  <1>1. TypeOK /\ OneRecorder /\ Listings /\ [Next]_vars =>
          [\A p \in Processes :
             /\ Processes = {p} /\ pc[p] # "idle"
             /\ told[study[p]] # "recorded" /\ told'[study[p]] = "recorded"
             => ledger' = [rows |-> Listed, whole |-> TRUE]]_vars
    BY StepLedger
  <1> QED  BY <1>1, ListingsHold, PTL DEF Spec
=============================================================================
