---------------------------- MODULE MooncakeRelay ---------------------------
(* The Mooncake engine of verl (verl/checkpoint_engine/mooncake_checkpoint_ *)
(* engine): the chain of NixlRelay without notifications. A rank that has   *)
(* handed on a bucket writes four magic bytes over the beginning of the     *)
(* buffer it read it from, and the owner of that buffer waits for them      *)
(* before it fills the buffer again. There are no chunks: a weight larger   *)
(* than a bucket fails an assertion of send_weights.                        *)
EXTENDS WeightBuckets

VARIABLES
  rounds,   \* buckets a rank is through with: idx, and should_wait
  source    \* the buffer of the rank before that holds a rank's bucket

mooncakeVars == <<rounds, source>>
vars == <<bucketVars, mooncakeVars>>

\* The magic bytes, in the unit at the beginning of a buffer.
Magic == Total + 1
Stamped(r) == buf[r][side[r]][1] = Magic

Threads == {"fill", "await", "last", "meta", "work", "sync", "tail", "done"}

TypeOK ==
  /\ BucketTypeOK
  /\ pc \in [Ranks -> Threads]
  /\ rounds \in [Ranks -> 0..Total]
  /\ source \in [Receivers -> Sides]

Init ==
  /\ BucketInit
  /\ rounds = [r \in Ranks |-> 0]
  /\ source = [r \in Receivers |-> 0]

-----------------------------------------------------------------------------
(* The trainer. *)

Announce(r, a) == inbox' = [inbox EXCEPT ![r] = Append(@, a)]

\* send_weights: a bucket that is full, or the last, is announced when its
\* copies are done.
SendBucket ==
  /\ pc[0] = "fill"
  /\ ~Fits
  /\ Synchronized(0)
  /\ Announce(1, [from |-> cur[0].from, to |-> cur[0].to, side |-> side[0]])
  /\ IF cur[0].to = Total
     THEN /\ pc' = [pc EXCEPT ![0] = "last"]
          /\ UNCHANGED <<side, cur>>
     ELSE /\ pc' = [pc EXCEPT ![0] = IF rounds[0] > 0 THEN "await" ELSE "fill"]
          /\ side' = [side EXCEPT ![0] = 1 - @]
          /\ cur' = [cur EXCEPT ![0] = Empty(cur[0].to)]
  /\ rounds' = [rounds EXCEPT ![0] = @ + 1]
  /\ UNCHANGED <<buf, copies, adapter, source>>

\* wait_for_complete of the buffer to fill, or of the last one.
AwaitMagic ==
  /\ pc[0] \in {"await", "last"}
  /\ Stamped(0)
  /\ pc' = [pc EXCEPT ![0] = IF @ = "await" THEN "fill" ELSE "done"]
  /\ UNCHANGED <<buf, copies, side, cur, inbox, adapter, mooncakeVars>>

Trainer ==
  \/ Fill /\ ~IsLarge(cur[0].to) /\ UNCHANGED mooncakeVars
  \/ SendBucket
  \/ AwaitMagic

-----------------------------------------------------------------------------
(* A receiver. *)

\* receive_weights, steps 1 and 2: the bucket is read at once, for only its
\* reader writes to the buffer of an announced bucket, and announced on.
ReadBucket(r) ==
  /\ pc[r] = "meta"
  /\ inbox[r] # <<>>
  /\ rounds[r] >= 2 /\ r < N => Stamped(r)
  /\ LET a == Head(inbox[r])
         taken == [inbox EXCEPT ![r] = Tail(@)] IN
     /\ buf' = [buf EXCEPT ![r][side[r]] =
          [o \in Offsets |-> IF o <= a.to - a.from THEN buf[r - 1][a.side][o] ELSE @[o]]]
     /\ cur' = [cur EXCEPT ![r] = [from |-> a.from, to |-> a.to]]
     /\ source' = [source EXCEPT ![r] = a.side]
     /\ inbox' = IF r < N
                 THEN [taken EXCEPT ![r + 1] = Append(@, [a EXCEPT !.side = side[r]])]
                 ELSE taken
  /\ pc' = [pc EXCEPT ![r] = "work"]
  /\ UNCHANGED <<copies, side, adapter, rounds>>

\* Step 4, after all tensors have been handed on: the magic bytes.
WriteMagic(r) ==
  /\ AsksForNext(r)
  /\ buf' = [buf EXCEPT ![r - 1][source[r]][1] = Magic]
  /\ pc' = [pc EXCEPT ![r] = "sync"]
  /\ UNCHANGED <<copies, side, cur, inbox, adapter, mooncakeVars>>

\* Step 5.
SwapBuffers(r) ==
  /\ pc[r] = "sync"
  /\ Synchronized(r)
  /\ side' = [side EXCEPT ![r] = 1 - @]
  /\ rounds' = [rounds EXCEPT ![r] = @ + 1]
  /\ pc' = [pc EXCEPT ![r] = IF cur[r].to = Total THEN "tail" ELSE "meta"]
  /\ UNCHANGED <<buf, copies, cur, inbox, adapter, source>>

Receiver(r) ==
  \/ ReadBucket(r)
  \/ WriteMagic(r)
  \/ SwapBuffers(r)
  \/ Adapter(r) /\ UNCHANGED mooncakeVars

-----------------------------------------------------------------------------

Next ==
  \/ Trainer
  \/ \E r \in Receivers : Receiver(r) \/ (Load(r) /\ UNCHANGED mooncakeVars)
  \/ \E r \in Ranks : ExecuteCopy(r) /\ UNCHANGED mooncakeVars

Spec == Init /\ [][Next]_vars

-----------------------------------------------------------------------------
(* Property. *)

\* What the test of the engines asserts of the weights that an inference worker
\* received, "weight {name} not equal" (tests/checkpoint_engine/test_utils.py):
\* they are those of the trainer. The magic bytes for the rank before are
\* written when the rank behind has handed the bucket on, which says nothing of
\* whether the owner of the buffer has.
WeightsEqual ==
  \A r \in Receivers : \A i \in 1..Len(loaded[r]) : loaded[r][i] = i
=============================================================================
