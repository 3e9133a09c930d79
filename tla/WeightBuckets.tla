---------------------------- MODULE WeightBuckets ---------------------------
(* Weights on their way from the trainer (rank 0) to the inference workers  *)
(* beside the ranks 1..N, in buckets: what the peer-to-peer engines of      *)
(* verl/checkpoint_engine have in common.                                   *)
(*                                                                          *)
(* Each rank has two buffers of one bucket. A tensor handed on is a view of *)
(* a buffer: the adapter of the inference server copies it into a bucket of *)
(* its own (small weights) or it is merged into a tensor put together from  *)
(* chunks (weights larger than a bucket). Copies are asynchronous: the host *)
(* queues them on the stream of its device, and only synchronize waits for  *)
(* them. The adapter's bucket is shared with the inference worker, another  *)
(* process, which answers when it has loaded it; until then the rank, one   *)
(* thread, does nothing else.                                               *)
(*                                                                          *)
(* The units of all weights are numbered 1..Total in the order in which     *)
(* they are sent and packed, so that a bucket, a chunk and a weight are     *)
(* intervals (from, to], and memory holds numbers of units.                 *)
EXTENDS Naturals, Sequences

CONSTANTS
  N,           \* rollout.world_size: the ranks that receive
  Total,       \* units of all weights
  Ends,        \* the last unit of each weight
  BucketSize   \* units of a bucket

ASSUME BucketAssumption ==
  /\ N \in Nat \ {0}
  /\ Total \in Nat \ {0}
  /\ Ends \subseteq 1..Total
  /\ Total \in Ends
  /\ BucketSize \in Nat \ {0}

VARIABLES
  buf,      \* the two buffers of each rank
  copies,   \* the copies queued on the stream of each rank
  side,     \* the buffer a rank fills or hands on: send_buf, current
  cur,      \* the bucket in that buffer
  inbox,    \* announcements on their way to a rank
  pc,       \* where the thread of a rank is
  pos,      \* the last unit the adapter of a rank has taken over
  box,      \* the bucket of the adapter: its interval ...
  staged,   \* ... and its memory
  merged,   \* the memory of tensors put together from chunks
  sock,     \* the request the adapter waits for: "none", "box", "large"
  loaded    \* the units an inference worker has put into its model

adapter == <<pos, box, staged, merged, sock, loaded>>
bucketVars == <<buf, copies, side, cur, inbox, pc, adapter>>

Ranks == 0..N
Receivers == 1..N
Sides == {0, 1}
Offsets == 1..BucketSize
Contents == 0..Total + 1   \* a unit, or 0 and Total + 1: bytes that are none
Interval == [from : 0..Total, to : 0..Total]
Announcement == [from : 0..Total, to : 0..Total, side : Sides]
Copy == [from : 0..Total, to : 0..Total, side : Sides, base : 0..Total,
         into : {"buffer", "box", "merged"}, at : 0..Total]

BucketTypeOK ==
  /\ buf \in [Ranks -> [Sides -> [Offsets -> Contents]]]
  /\ copies \in [Ranks -> Seq(Copy)]
  /\ side \in [Ranks -> Sides]
  /\ cur \in [Ranks -> Interval]
  /\ inbox \in [Receivers -> Seq(Announcement)]
  /\ pos \in [Receivers -> 0..Total]
  /\ box \in [Receivers -> Interval]
  /\ staged \in [Receivers -> [Offsets -> Contents]]
  /\ merged \in [Receivers -> [1..Total -> Contents]]
  /\ sock \in [Receivers -> {"none", "box", "large"}]
  /\ loaded \in [Receivers -> Seq(Contents)]

Empty(p) == [from |-> p, to |-> p]

BucketInit ==
  /\ buf = [r \in Ranks |-> [s \in Sides |-> [o \in Offsets |-> 0]]]
  /\ copies = [r \in Ranks |-> <<>>]
  /\ side = [r \in Ranks |-> 0]
  /\ cur = [r \in Ranks |-> Empty(0)]
  /\ inbox = [r \in Receivers |-> <<>>]
  /\ pc = [r \in Ranks |-> IF r = 0 THEN "fill" ELSE "meta"]
  /\ pos = [r \in Receivers |-> 0]
  /\ box = [r \in Receivers |-> Empty(0)]
  /\ staged = [r \in Receivers |-> [o \in Offsets |-> 0]]
  /\ merged = [r \in Receivers |-> [u \in 1..Total |-> 0]]
  /\ sock = [r \in Receivers |-> "none"]
  /\ loaded = [r \in Receivers |-> <<>>]

-----------------------------------------------------------------------------
(* Weights and chunks. *)

\* The weight of unit p + 1 is (Start(p), End(p)].
End(p) == CHOOSE e \in Ends : e > p /\ \A f \in Ends : f > p => e <= f
Start(p) ==
  CHOOSE s \in Ends \cup {0} : s <= p /\ \A f \in Ends : f <= p => f <= s
IsLarge(p) == End(p) - Start(p) > BucketSize

\* split_weight_chunks: a weight is cut after every BucketSize units of it.
ChunkEnd(p) == IF End(p) - p > BucketSize THEN p + BucketSize ELSE End(p)

-----------------------------------------------------------------------------
(* The device: queued copies are executed in order, at any time. *)

\* Memory f after copy c of what source holds.
Filled(f, c, source) ==
  [o \in DOMAIN f |-> IF o + c.at \in c.from + 1..c.to THEN source[o + c.at] ELSE f[o]]

\* A copy reads a weight of the trainer, or a view of the rank's own buffer.
Source(r, c) ==
  [u \in c.from + 1..c.to |-> IF r = 0 THEN u ELSE buf[r][c.side][u - c.base]]

ExecuteCopy(r) ==
  /\ copies[r] # <<>>
  /\ copies' = [copies EXCEPT ![r] = Tail(@)]
  /\ LET c == Head(copies[r]) IN
     \/ /\ c.into = "buffer"
        /\ buf' = [buf EXCEPT ![r][c.side] = Filled(@, c, Source(r, c))]
        /\ UNCHANGED <<staged, merged>>
     \/ /\ c.into = "box"
        /\ staged' = [staged EXCEPT ![r] = Filled(@, c, Source(r, c))]
        /\ UNCHANGED <<buf, merged>>
     \/ /\ c.into = "merged"
        /\ merged' = [merged EXCEPT ![r] = Filled(@, c, Source(r, c))]
        /\ UNCHANGED <<buf, staged>>
  /\ UNCHANGED <<side, cur, inbox, pc, pos, box, sock, loaded>>

Synchronized(r) == copies[r] = <<>>

\* Queue a copy of units (pos, q] between the bucket of rank r and `into`.
QueueCopy(r, p, q, into, at) ==
  copies' = [copies EXCEPT ![r] =
    Append(@, [from |-> p, to |-> q, side |-> side[r], base |-> cur[r].from,
               into |-> into, at |-> at])]

-----------------------------------------------------------------------------
(* The trainer. *)

Fits == cur[0].to < Total /\ ChunkEnd(cur[0].to) - cur[0].from <= BucketSize

\* send_weights: a chunk that still fits is copied into the bucket.
Fill ==
  /\ pc[0] = "fill"
  /\ Fits
  /\ QueueCopy(0, cur[0].to, ChunkEnd(cur[0].to), "buffer", cur[0].from)
  /\ cur' = [cur EXCEPT ![0].to = ChunkEnd(@)]
  /\ UNCHANGED <<buf, side, inbox, pc, adapter>>

-----------------------------------------------------------------------------
(* The adapter of the inference server, which consumes the tensors that     *)
(* receive_weights yields.                                                  *)

Takes(r) == pc[r] = "work" /\ sock[r] = "none" /\ pos[r] < cur[r].to

\* async_send_weights: a small weight is copied from the view into the bucket.
TakeSmall(r) ==
  /\ Takes(r)
  /\ LET q == ChunkEnd(pos[r]) IN
     /\ ~IsLarge(pos[r])
     /\ q - box[r].from <= BucketSize
     /\ QueueCopy(r, pos[r], q, "box", box[r].from)
     /\ pos' = [pos EXCEPT ![r] = q]
     /\ box' = [box EXCEPT ![r].to = q]
  /\ UNCHANGED <<buf, side, cur, inbox, pc, staged, merged, sock, loaded>>

\* merge_weight_chunks: a chunk of a large weight is copied into the tensor
\* allocated for it, which goes to the adapter when it is complete.
TakeChunk(r) ==
  /\ Takes(r)
  /\ LET q == ChunkEnd(pos[r]) IN
     /\ IsLarge(pos[r])
     /\ QueueCopy(r, pos[r], q, "merged", 0)
     /\ pos' = [pos EXCEPT ![r] = q]
     /\ pc' = [pc EXCEPT ![r] = IF q \in Ends THEN "direct" ELSE @]
  /\ UNCHANGED <<buf, side, cur, inbox, box, staged, merged, sock, loaded>>

\* A bucket without room for the next weight is handed to the inference worker
\* when all copies into it are done.
Flush(r) ==
  /\ sock[r] = "none"
  /\ \/ /\ Takes(r)
        /\ ~IsLarge(pos[r])
        /\ ChunkEnd(pos[r]) - box[r].from > BucketSize
     \/ pc[r] = "direct" /\ box[r].from < box[r].to
  /\ Synchronized(r)
  /\ sock' = [sock EXCEPT ![r] = "box"]
  /\ UNCHANGED <<buf, copies, side, cur, inbox, pc, pos, box, staged, merged, loaded>>

\* _direct_send_large_weight, with no small weight before it in the bucket.
SendLarge(r) ==
  /\ pc[r] = "direct"
  /\ sock[r] = "none"
  /\ box[r].from = box[r].to
  /\ sock' = [sock EXCEPT ![r] = "large"]
  /\ pc' = [pc EXCEPT ![r] = "work"]
  /\ UNCHANGED <<buf, copies, side, cur, inbox, pos, box, staged, merged, loaded>>

\* async_send_weights, after the last tensor.
SendTail(r) ==
  /\ pc[r] = "tail"
  /\ Synchronized(r)
  /\ sock' = [sock EXCEPT ![r] = "box"]
  /\ pc' = [pc EXCEPT ![r] = "done"]
  /\ UNCHANGED <<buf, copies, side, cur, inbox, pos, box, staged, merged, loaded>>

\* receive_weights of the inference worker: it loads what it was handed, waits
\* for its own device and answers, so that the adapter begins a new bucket. The
\* handle of a large tensor carries an event of the device, for which whoever
\* opens it waits.
Load(r) ==
  /\ \/ /\ sock[r] = "box"
        /\ loaded' = [loaded EXCEPT ![r] =
             @ \o [i \in 1..box[r].to - box[r].from |-> staged[r][i]]]
        /\ box' = [box EXCEPT ![r] = Empty(@.to)]
     \/ /\ sock[r] = "large"
        /\ Synchronized(r)
        /\ loaded' = [loaded EXCEPT ![r] =
             @ \o [i \in 1..pos[r] - box[r].to |-> merged[r][box[r].to + i]]]
        /\ box' = [box EXCEPT ![r] = Empty(pos[r])]
  /\ sock' = [sock EXCEPT ![r] = "none"]
  /\ UNCHANGED <<buf, copies, side, cur, inbox, pc, pos, staged, merged>>

Adapter(r) == TakeSmall(r) \/ TakeChunk(r) \/ Flush(r) \/ SendLarge(r) \/ SendTail(r)

\* The adapter asks for the next tensor of a bucket that has no more.
AsksForNext(r) == pc[r] = "work" /\ sock[r] = "none" /\ pos[r] = cur[r].to

Finished(r) == pc[r] = "done" /\ (r # 0 => sock[r] = "none")

-----------------------------------------------------------------------------
(* What the transfer is for. *)

Stream == INSTANCE WeightStream WITH Workers <- Receivers

\* The inference workers load the weights the trainer sent: each one whole, in
\* order and with its own bytes.
StreamsWeights == Stream!Spec
=============================================================================
