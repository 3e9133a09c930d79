---------------------------- MODULE StudyMemory ----------------------------
(***************************************************************************)
(* The study memory: processes that share a memory directory append one    *)
(* JSON line per study to studies.jsonl and then write ledger.md anew from *)
(* all lines.  Neither file is locked, a write may be cut short, and a     *)
(* process may stop anywhere.                                              *)
(*                                                                         *)
(* Source: StudyMemoryStore of src/Code/gridmind_mini/memory.py, called by *)
(* ToolRegistry._persist_study_memory of tools.py.                         *)
(*                                                                         *)
(* A record is one write to a file opened for appending.  What it leaves   *)
(* is a piece: the whole "line", its "text" without the newline, or only a *)
(* "part" of the text, which is no JSON object.  A piece that is not a     *)
(* line shares its line with the piece after it.                           *)
(***************************************************************************)
EXTENDS Sequences, Naturals

CONSTANTS
  Processes,   \* the scripts that use the directory
  Studies,     \* successful tool results, each with a fresh record id
  MaxFaults    \* bound: writes cut short and processes stopped

ASSUME MemoryAssumption == MaxFaults \in Nat

VARIABLES
  file,        \* studies.jsonl: its pieces
  ledger,      \* ledger.md: the rows that fill it, and whether it is whole
  pc,          \* where each process is in append_record
  study,       \* the study it records
  loaded,      \* the studies it read for the ledger
  told,        \* what the tool was told of each study
  faults       \* writes cut short and processes stopped so far

vars == <<file, ledger, pc, study, loaded, told, faults>>

Piece == [study : Studies, extent : {"line", "text", "part"}]

TypeOK ==
  /\ file \in Seq(Piece)
  /\ ledger \in [rows : SUBSET Studies, whole : BOOLEAN]
  /\ pc \in [Processes -> {"idle", "append", "load", "open", "write"}]
  /\ study \in [Processes -> Studies]
  /\ loaded \in [Processes -> SUBSET Studies]
  /\ told \in [Studies -> {"nothing", "running", "recorded", "failed"}]
  /\ faults \in 0..MaxFaults

Init ==
  /\ file = <<>>
  /\ ledger = [rows |-> {}, whole |-> TRUE]
  /\ pc = [p \in Processes |-> "idle"]
  /\ study \in [Processes -> Studies]
  /\ loaded = [p \in Processes |-> {}]
  /\ told = [s \in Studies |-> "nothing"]
  /\ faults = 0

(* load_records accepts the file if every line that is not blank is one    *)
(* JSON object: no part of a record, and nothing behind a missing newline. *)
Loadable ==
  \A i \in 1..Len(file) :
    /\ file[i].extent # "part"
    /\ i < Len(file) => file[i].extent = "line"

Listed == {file[i].study : i \in 1..Len(file)}

(* A call ends: the tool gets its record, or an error.                     *)
Leave(p, outcome) ==
  /\ pc' = [pc EXCEPT ![p] = "idle"]
  /\ told' = [told EXCEPT ![study[p]] = outcome]

Fault ==
  /\ faults < MaxFaults
  /\ faults' = faults + 1

(* record_from_tool_result: a new id and the time, nothing shared.         *)
Begin(p, s) ==
  /\ pc[p] = "idle"
  /\ told[s] = "nothing"
  /\ pc' = [pc EXCEPT ![p] = "append"]
  /\ study' = [study EXCEPT ![p] = s]
  /\ told' = [told EXCEPT ![s] = "running"]
  /\ UNCHANGED <<file, ledger, loaded, faults>>

\* Mutant of AppendRecord: the file is opened for writing.
AppendAnew(p) ==
  /\ pc[p] = "append"
  /\ file' = <<[study |-> study[p], extent |-> "line"]>>
  /\ pc' = [pc EXCEPT ![p] = "load"]
  /\ UNCHANGED <<ledger, study, loaded, told, faults>>

AppendRecord(p) ==
  /\ pc[p] = "append"
  /\ file' = Append(file, [study |-> study[p], extent |-> "line"])
  /\ pc' = [pc EXCEPT ![p] = "load"]
  /\ UNCHANGED <<ledger, study, loaded, told, faults>>

(* The disk is full or the process is stopped: nothing is written, a part  *)
(* of the record, or all of it but the newline.                            *)
CutRecord(p) ==
  /\ pc[p] = "append"
  /\ Fault
  /\ \/ UNCHANGED file
     \/ \E extent \in {"text", "part"} :
          file' = Append(file, [study |-> study[p], extent |-> extent])
  /\ Leave(p, "failed")
  /\ UNCHANGED <<ledger, study, loaded>>

(* regenerate_ledger reads the whole file first.                           *)
Load(p) ==
  /\ pc[p] = "load"
  /\ Loadable
  /\ loaded' = [loaded EXCEPT ![p] = Listed]
  /\ pc' = [pc EXCEPT ![p] = "open"]
  /\ UNCHANGED <<file, ledger, study, told, faults>>

LoadFails(p) ==
  /\ pc[p] = "load"
  /\ ~Loadable
  /\ Leave(p, "failed")
  /\ UNCHANGED <<file, ledger, study, loaded, faults>>

\* Mutant of OpenLedger: the tool is answered before the ledger is written.
OpenLedgerConfirms(p) ==
  /\ pc[p] = "open"
  /\ ledger' = [rows |-> {}, whole |-> TRUE]
  /\ Leave(p, "recorded")
  /\ UNCHANGED <<file, study, loaded, faults>>

(* write_text empties the ledger when it opens it.                         *)
OpenLedger(p) ==
  /\ pc[p] = "open"
  /\ ledger' = [rows |-> {}, whole |-> TRUE]
  /\ pc' = [pc EXCEPT ![p] = "write"]
  /\ UNCHANGED <<file, study, loaded, told, faults>>

(* The text is written from the beginning of the file; what a process that *)
(* opened it at the same time has written beyond its end stays.  Of two    *)
(* listings of an append-only file, one extends the other.                 *)
WriteLedger(p) ==
  /\ pc[p] = "write"
  /\ ledger' = IF ledger.rows \subseteq loaded[p]
               THEN [rows |-> loaded[p], whole |-> TRUE]
               ELSE [ledger EXCEPT !.whole = FALSE]
  /\ Leave(p, "recorded")
  /\ UNCHANGED <<file, study, loaded, faults>>

CutLedger(p) ==
  /\ pc[p] = "write"
  /\ Fault
  /\ \E rows \in SUBSET loaded[p] :
       ledger' = [rows |-> ledger.rows \cup rows, whole |-> FALSE]
  /\ Leave(p, "failed")
  /\ UNCHANGED <<file, study, loaded>>

(* The process stops, or the file system fails, between two writes.        *)
Stop(p) ==
  /\ pc[p] \in {"load", "open", "write"}
  /\ Fault
  /\ Leave(p, "failed")
  /\ UNCHANGED <<file, ledger, study, loaded>>

Next ==
  \E p \in Processes :
    \/ \E s \in Studies : Begin(p, s)
    \/ AppendRecord(p)
    \/ CutRecord(p)
    \/ Load(p)
    \/ LoadFails(p)
    \/ OpenLedger(p)
    \/ WriteLedger(p)
    \/ CutLedger(p)
    \/ Stop(p)

Spec == Init /\ [][Next]_vars

-----------------------------------------------------------------------------
(* Properties *)

(* The studies whose line is one JSON object whatever is appended later.   *)
Kept ==
  {file[i].study : i \in {i \in 1..Len(file) :
     /\ file[i].extent = "line"
     /\ i > 1 => file[i - 1].extent = "line"}}

Confirmed == {s \in Studies : told[s] = "recorded"}

\* A study whose tool was given a memory_record has a line of its own, although
\* the append says nothing of what it was appended to: a record glued to the
\* rest of an earlier one is found by the regeneration of the ledger, which
\* reads the file back before the tool is answered (append_record).
ConfirmedIsKept ==
  /\ \A p \in Processes :
       /\ pc[p] = "load" =>
            \E i \in 1..Len(file) : file[i] = [study |-> study[p], extent |-> "line"]
       /\ pc[p] \in {"open", "write"} => study[p] \in Kept
  /\ Confirmed \subseteq Kept

\* A study is recorded by one process, and has no answer before.
OneRecorder ==
  \A p \in Processes : pc[p] # "idle" =>
    /\ told[study[p]] = "running"
    /\ \A q \in Processes \ {p} : pc[q] # "idle" => study[q] # study[p]

\* The inductive invariant of the module.
MemoryInv == TypeOK /\ OneRecorder /\ ConfirmedIsKept

\* No study is ever lost or taken back: the two files with all their torn
\* lines, failures and processes implement the log of StudyLog.
Log == INSTANCE StudyLog WITH kept <- Kept, confirmed <- Confirmed
KeepsStudies == Log!Spec

\* When a tool is told that its study is recorded, the ledger on disk lists every
\* record, unless another process appended one after this one had read the file.
\* This holds over the half-written ledgers of other processes and other calls,
\* and for a single process without the exception.
LedgerIsCurrent ==
  [][\A p \in Processes :
       /\ pc[p] # "idle"
       /\ told[study[p]] # "recorded" /\ told'[study[p]] = "recorded"
       /\ loaded[p] = Listed
       => ledger' = [rows |-> Listed, whole |-> TRUE]]_vars
=============================================================================
