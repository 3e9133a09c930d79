------------------------------ MODULE NixlRelay -----------------------------
(* The NIXL engine of verl (verl/checkpoint_engine/nixl_checkpoint_engine): *)
(* a chain of ranks, each of which reads every bucket out of the buffer of  *)
(* the rank before, and announces it to the rank behind.                    *)
(*                                                                          *)
(* A ReadableOperation announces a filled buffer; the ReadOperation of the  *)
(* reader runs in the background and, when it is complete, notifies the     *)
(* owner of the buffer with the key of the announcement. An asyncio thread  *)
(* only stops at its awaits: synchronize, a notification that has not come, *)
(* a message that has not come, a transfer that is not complete.            *)
EXTENDS WeightBuckets

VARIABLES
  next,      \* the bucket a rank reads
  xfer,      \* its transfer: the buffer it reads, and the units read so far
  offered,   \* the key of a rank's readable operation
  notes      \* notifications on their way to a rank

\* build_topology gives a single receiver a list of next agents that is as long
\* as the metadata of all workers, and build_process_group refuses it.
ASSUME RelayAssumption == N >= 2

nixlVars == <<next, xfer, offered, notes>>
vars == <<bucketVars, nixlVars>>

\* A key is the first unit of the bucket, and so unique (uuid4 in the code).
NoKey == Total
Keys == 0..Total

Threads == {"fill", "meta", "work", "direct", "tail", "last", "done"}

TypeOK ==
  /\ BucketTypeOK
  /\ pc \in [Ranks -> Threads]
  /\ next \in [Receivers -> Interval]
  /\ xfer \in [Receivers -> [side : Sides, moved : 0..BucketSize]]
  /\ offered \in [Ranks -> Keys]
  /\ notes \in [Ranks -> Seq(Keys)]

Init ==
  /\ BucketInit
  /\ next = [r \in Receivers |-> Empty(0)]
  /\ xfer = [r \in Receivers |-> [side |-> 0, moved |-> BucketSize]]
  /\ offered = [r \in Ranks |-> NoKey]
  /\ notes = [r \in Ranks |-> <<>>]

\* wait_for_complete of the readable operation of rank r, if it has one.
ReadByNext(r) == offered[r] = NoKey \/ notes[r] # <<>>
TakeNote(r) == IF offered[r] = NoKey THEN notes[r] ELSE Tail(notes[r])

\* Mutant of Offer: the last bucket is not handed on.
OfferUnlessLast(r, b, s) ==
  IF r < N /\ b.to < Total
  THEN /\ offered' = [offered EXCEPT ![r] = b.from]
       /\ inbox' = [inbox EXCEPT ![r + 1] =
            Append(@, [from |-> b.from, to |-> b.to, side |-> s])]
  ELSE UNCHANGED <<offered, inbox>>

\* Rank r offers bucket b in its buffer s to the rank behind it.
Offer(r, b, s) ==
  IF r < N
  THEN /\ offered' = [offered EXCEPT ![r] = b.from]
       /\ inbox' = [inbox EXCEPT ![r + 1] =
            Append(@, [from |-> b.from, to |-> b.to, side |-> s])]
  ELSE UNCHANGED <<offered, inbox>>

-----------------------------------------------------------------------------
(* The trainer. *)

\* Mutant of SendBucket: the bucket before is not awaited.
SendBucketEarly ==
  /\ pc[0] = "fill"
  /\ ~Fits
  /\ Synchronized(0)
  /\ Offer(0, cur[0], side[0])
  /\ side' = [side EXCEPT ![0] = 1 - @]
  /\ cur' = [cur EXCEPT ![0] = Empty(cur[0].to)]
  /\ pc' = [pc EXCEPT ![0] = IF cur[0].to = Total THEN "last" ELSE "fill"]
  /\ UNCHANGED <<buf, copies, adapter, next, xfer, notes>>

\* send_weights: a bucket that is full, or the last, is announced when its
\* copies are done and the bucket before has been read.
SendBucket ==
  /\ pc[0] = "fill"
  /\ ~Fits
  /\ Synchronized(0)
  /\ ReadByNext(0)
  /\ notes' = [notes EXCEPT ![0] = TakeNote(0)]
  /\ Offer(0, cur[0], side[0])
  /\ side' = [side EXCEPT ![0] = 1 - @]
  /\ cur' = [cur EXCEPT ![0] = Empty(cur[0].to)]
  /\ pc' = [pc EXCEPT ![0] = IF cur[0].to = Total THEN "last" ELSE "fill"]
  /\ UNCHANGED <<buf, copies, adapter, next, xfer>>

EndSend ==
  /\ pc[0] = "last"
  /\ ReadByNext(0)
  /\ notes' = [notes EXCEPT ![0] = TakeNote(0)]
  /\ pc' = [pc EXCEPT ![0] = "done"]
  /\ UNCHANGED <<buf, copies, side, cur, inbox, adapter, next, xfer, offered>>

Trainer ==
  \/ Fill /\ UNCHANGED nixlVars
  \/ SendBucket
  \/ EndSend

-----------------------------------------------------------------------------
(* A receiver. *)

\* _receive_weight_chunks: the announcement of the next bucket has come and its
\* transfer begins, into recv_buf.
BeginRead(r) ==
  /\ pc[r] = "meta"
  /\ inbox[r] # <<>>
  /\ LET a == Head(inbox[r]) IN
     /\ next' = [next EXCEPT ![r] = [from |-> a.from, to |-> a.to]]
     /\ xfer' = [xfer EXCEPT ![r] = [side |-> a.side, moved |-> 0]]
  /\ inbox' = [inbox EXCEPT ![r] = Tail(@)]
  /\ pc' = [pc EXCEPT ![r] = "work"]
  /\ UNCHANGED <<buf, copies, side, cur, adapter, offered, notes>>

\* The transfer moves a unit of the buffer, whole buffers always; the last one
\* completes it and notifies the owner of the buffer.
Transfer(r) ==
  /\ xfer[r].moved < BucketSize
  /\ LET o == xfer[r].moved + 1 IN
     /\ buf' = [buf EXCEPT ![r][1 - side[r]][o] = buf[r - 1][xfer[r].side][o]]
     /\ xfer' = [xfer EXCEPT ![r].moved = o]
     /\ notes' = IF o = BucketSize
                 THEN [notes EXCEPT ![r - 1] = Append(@, next[r].from)]
                 ELSE notes
  /\ UNCHANGED <<copies, side, cur, inbox, pc, adapter, next, offered>>

\* Mutant of SwapBuckets: queued copies are not waited for.
SwapUnsynchronized(r) ==
  /\ AsksForNext(r)
  /\ cur[r].to < Total
  /\ ReadByNext(r)
  /\ xfer[r].moved = BucketSize
  /\ notes' = [notes EXCEPT ![r] = TakeNote(r)]
  /\ side' = [side EXCEPT ![r] = 1 - @]
  /\ cur' = [cur EXCEPT ![r] = next[r]]
  /\ Offer(r, next[r], 1 - side[r])
  /\ pc' = [pc EXCEPT ![r] = IF next[r].to = Total THEN "work" ELSE "meta"]
  /\ UNCHANGED <<buf, copies, adapter, next, xfer>>

\* All tensors of the bucket are handed on: the rank behind has read it, the
\* next one is here, and no copy out of the old one is left; the buffers are
\* swapped and the new bucket is offered. With the first bucket there is no
\* old one.
SwapBuckets(r) ==
  /\ AsksForNext(r)
  /\ cur[r].to < Total
  /\ ReadByNext(r)
  /\ xfer[r].moved = BucketSize
  /\ Synchronized(r)
  /\ notes' = [notes EXCEPT ![r] = TakeNote(r)]
  /\ side' = [side EXCEPT ![r] = 1 - @]
  /\ cur' = [cur EXCEPT ![r] = next[r]]
  /\ Offer(r, next[r], 1 - side[r])
  /\ pc' = [pc EXCEPT ![r] = IF next[r].to = Total THEN "work" ELSE "meta"]
  /\ UNCHANGED <<buf, copies, adapter, next, xfer>>

\* Mutant of EndReceive: the rank behind is not waited for.
EndReceiveEarly(r) ==
  /\ AsksForNext(r)
  /\ cur[r].to = Total
  /\ pc' = [pc EXCEPT ![r] = "tail"]
  /\ UNCHANGED <<buf, copies, side, cur, inbox, adapter, next, xfer, offered, notes>>

\* After the last bucket the generator ends when the rank behind has read it.
EndReceive(r) ==
  /\ AsksForNext(r)
  /\ cur[r].to = Total
  /\ ReadByNext(r)
  /\ notes' = [notes EXCEPT ![r] = TakeNote(r)]
  /\ pc' = [pc EXCEPT ![r] = "tail"]
  /\ UNCHANGED <<buf, copies, side, cur, inbox, adapter, next, xfer, offered>>

Receiver(r) ==
  \/ BeginRead(r)
  \/ SwapBuckets(r)
  \/ EndReceive(r)
  \/ Adapter(r) /\ UNCHANGED nixlVars

-----------------------------------------------------------------------------

Next ==
  \/ Trainer
  \/ \E r \in Receivers : Receiver(r) \/ Transfer(r) \/ (Load(r) /\ UNCHANGED nixlVars)
  \/ \E r \in Ranks : ExecuteCopy(r) /\ UNCHANGED nixlVars

Spec == Init /\ [][Next]_vars

\* Every process and device goes on with what it has to do.
FairSpec ==
  /\ Spec
  /\ WF_vars(Trainer)
  /\ \A r \in Receivers : /\ WF_vars(Receiver(r))
                          /\ WF_vars(Transfer(r))
                          /\ WF_vars(Load(r) /\ UNCHANGED nixlVars)
  /\ \A r \in Ranks : WF_vars(ExecuteCopy(r) /\ UNCHANGED nixlVars)

-----------------------------------------------------------------------------
(* Properties. *)

\* No buffer is written while it is read. What a transfer reads is written by
\* no copy of the trainer and by no transfer of the rank that owns it, and what
\* it writes is read by no queued copy and by no transfer of the rank behind.
Reading(r) == xfer[r].moved < BucketSize

BufferIsQuiet ==
  \A r \in Receivers : Reading(r) =>
    /\ \A i \in 1..Len(copies[0]) : r = 1 => copies[0][i].side # xfer[r].side
    /\ r > 1 /\ Reading(r - 1) => xfer[r].side = side[r - 1]
    /\ \A i \in 1..Len(copies[r]) : copies[r][i].side = side[r]

\* A notification is that of the operation the rank waits for
\* (ReadableOperation.wait_for_complete asserts it), and when all ranks are
\* done no message and no notification is left for the next transfer, whose
\* agents are the same.
NothingLeft ==
  /\ \A r \in Ranks : notes[r] # <<>> => notes[r][1] = offered[r]
  /\ (\A r \in Ranks : Finished(r)) =>
       /\ \A r \in Ranks : notes[r] = <<>>
       /\ \A r \in Receivers : inbox[r] = <<>> /\ Len(loaded[r]) = Total

\* Every rank gets to its end.
TransferEnds == <>(\A r \in Ranks : Finished(r))
=============================================================================
