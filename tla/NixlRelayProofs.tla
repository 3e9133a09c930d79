--------------------------- MODULE NixlRelayProofs --------------------------
(* Proofs about NixlRelay, for every chain of receivers, every division of  *)
(* the units into weights and every size of a bucket: types, that no buffer *)
(* is written while it is read, that nothing is left over, that the         *)
(* inference workers load the stream of WeightStream, and that the chain    *)
(* comes to its end without waiting on itself.                              *)
EXTENDS NixlRelay, WellFoundedInduction, SequenceTheorems, TLAPS

-----------------------------------------------------------------------------
(* The invariant *)

\* An end of a chunk.
Cut(p) ==
  \/ p = Total
  \/ /\ p \in 0..Total - 1
     /\ \E k \in Nat : p = Start(p) + k * BucketSize

\* An interval that chunks cover and that fits into a bucket.
Packed(b) ==
  /\ Cut(b.from)
  /\ Cut(b.to)
  /\ b.from <= b.to
  /\ b.to - b.from <= BucketSize

InCopy(c, u) == c.from < u /\ u <= c.to

\* Memory f holds the units of bucket b, ...
Holds(f, b) == \A u \in b.from + 1..b.to : f[u - b.from] = u

\* ... or will hold them when the copies q are executed.
WillHold(f, b, q, into) ==
  \A u \in b.from + 1..b.to :
    \/ f[u - b.from] = u
    \/ \E i \in 1..Len(q) : q[i].into = into /\ InCopy(q[i], u)

\* The trainer.
TrainerInv ==
  /\ pc[0] \in {"fill", "last", "done"}
  /\ Packed(cur[0])
  /\ pc[0] = "fill" => cur[0].from < Total
  /\ pc[0] # "fill" => cur[0] = Empty(Total) /\ copies[0] = <<>>
  /\ \A i \in 1..Len(copies[0]) :
       LET c == copies[0][i] IN
       /\ c.into = "buffer" /\ c.side = side[0]
       /\ c.base = cur[0].from /\ c.at = cur[0].from
       /\ cur[0].from <= c.from /\ c.to <= cur[0].to
  /\ WillHold(buf[0][side[0]], cur[0], copies[0], "buffer")

\* The bucket a rank has offered, and the buffer it is in.
OfferedTo(o) == IF o = 0 THEN cur[0].from ELSE cur[o].to
OfferedSide(o) == IF o = 0 THEN 1 - side[0] ELSE side[o]
OfferedBucket(o) == [from |-> offered[o], to |-> OfferedTo(o)]

\* Between a rank and the one before: no bucket offered yet, one announced, one
\* being read, one read, or the last one over.
Unoffered(r) ==
  /\ offered[r - 1] = NoKey
  /\ inbox[r] = <<>> /\ notes[r - 1] = <<>> /\ ~Reading(r)
  /\ next[r] = Empty(0) /\ cur[r] = Empty(0) /\ pc[r] = "meta"
  /\ OfferedTo(r - 1) = 0

Announced(r) ==
  /\ inbox[r] = <<[from |-> offered[r - 1], to |-> OfferedTo(r - 1),
                   side |-> OfferedSide(r - 1)]>>
  /\ notes[r - 1] = <<>> /\ ~Reading(r)
  /\ next[r].to = offered[r - 1]
  /\ pc[r - 1] \notin {"tail", "done"}

Taken(r) ==
  /\ inbox[r] = <<>>
  /\ next[r] = OfferedBucket(r - 1)
  /\ \/ /\ Reading(r) /\ notes[r - 1] = <<>>
        /\ xfer[r].side = OfferedSide(r - 1)
        /\ pc[r] \in {"work", "direct"}
        /\ pc[r - 1] \notin {"tail", "done"}
     \/ ~Reading(r) /\ notes[r - 1] = <<offered[r - 1]>> /\ pc[r - 1] \notin {"tail", "done"}
     \/ ~Reading(r) /\ notes[r - 1] = <<>> /\ pc[r - 1] \in {"tail", "done"}

LinkInv(r) ==
  \/ Unoffered(r)
  \/ /\ offered[r - 1] < OfferedTo(r - 1)
     /\ r > 1 => offered[r - 1] = cur[r - 1].from
     /\ Packed(OfferedBucket(r - 1))
     /\ Holds(buf[r - 1][OfferedSide(r - 1)], OfferedBucket(r - 1))
     /\ Announced(r) \/ Taken(r)

\* The thread of a receiver and its two buffers.
ThreadInv(r) ==
  /\ pc[r] \in {"meta", "work", "direct", "tail", "done"}
  /\ Packed(cur[r]) /\ Packed(next[r]) /\ Cut(pos[r])
  /\ cur[r].from <= pos[r] /\ pos[r] <= cur[r].to
  /\ pc[r] = "meta" => cur[r] = next[r] /\ cur[r].to < Total /\ pos[r] = cur[r].from
  /\ pc[r] \in {"tail", "done"} => pos[r] = Total
  /\ IF cur[r].to < Total /\ pc[r] # "meta"
     THEN next[r].from = cur[r].to /\ next[r].from < next[r].to
     ELSE next[r] = cur[r] /\ ~Reading(r)
  /\ Holds(buf[r][side[r]], cur[r])
  /\ cur[r].to < Total /\ pc[r] # "meta" =>
       \A o \in 1..xfer[r].moved :
         next[r].from + o <= next[r].to => buf[r][1 - side[r]][o] = next[r].from + o

\* The copies of a receiver.
CopiesInv(r) ==
  \A i \in 1..Len(copies[r]) :
    LET c == copies[r][i] IN
    /\ c.side = side[r] /\ c.base = cur[r].from
    /\ cur[r].from <= c.from /\ c.to <= pos[r]
    /\ \/ /\ c.into = "box" /\ c.at = box[r].from
          /\ box[r].from <= c.from /\ c.to <= box[r].to
       \/ c.into = "merged" /\ c.at = 0

\* A large weight has not yet reached the inference worker as a whole.
Held(r) == pc[r] = "direct" \/ sock[r] = "large" \/ pos[r] \notin Ends \cup {0}

\* The chunks of a large weight are in its tensor, or will be.
Merged(r) ==
  \A u \in 1..pos[r] : IsLarge(u - 1) =>
    \/ merged[r][u] = u
    \/ \E i \in 1..Len(copies[r]) : copies[r][i].into = "merged" /\ InCopy(copies[r][i], u)

\* What the adapter and the inference worker have taken over.
AdapterInv(r) ==
  /\ loaded[r] = [i \in 1..box[r].from |-> i]
  /\ box[r].from <= box[r].to
  /\ box[r].to - box[r].from <= BucketSize
  /\ box[r].to \in Ends \cup {0}
  /\ box[r].from \in Ends \cup {0}
  /\ Held(r) => pos[r] > 0 /\ IsLarge(pos[r] - 1) /\ box[r].to = Start(pos[r] - 1)
  /\ ~Held(r) => box[r].to = pos[r]
  /\ pc[r] = "direct" \/ sock[r] = "large" => pos[r] \in Ends
  /\ sock[r] = "large" => box[r].from = box[r].to /\ pc[r] = "work"
  /\ sock[r] = "box" => copies[r] = <<>> /\ pc[r] \in {"work", "direct", "done"}
  /\ pc[r] = "done" /\ sock[r] = "none" => box[r].from = Total
  /\ WillHold(staged[r], box[r], copies[r], "box")
  /\ Merged(r)

ReceiverInv(r) == ThreadInv(r) /\ CopiesInv(r) /\ AdapterInv(r)

\* Nobody is behind the last rank.
LastInv == offered[N] = NoKey /\ notes[N] = <<>>

RelayInv ==
  /\ TrainerInv
  /\ LastInv
  /\ \A r \in Receivers : LinkInv(r) /\ ReceiverInv(r)

-----------------------------------------------------------------------------
(* Weights and chunks *)

LEMMA Constants ==
  /\ N \in Nat /\ N >= 2
  /\ Total \in Nat /\ Total > 0
  /\ BucketSize \in Nat /\ BucketSize > 0
  /\ Ends \subseteq 1..Total /\ Total \in Ends
  BY BucketAssumption, RelayAssumption DEF BucketAssumption, RelayAssumption

\* A set of numbers has a smallest member.
LEMMA Smallest ==
  ASSUME NEW T, T \subseteq Nat, T # {}
  PROVE  \E m \in T : \A k \in T : m <= k
  <1>1. PICK m \in T : \A k \in T : <<k, m>> \notin OpToRel(<, Nat)
    BY WFMin, NatLessThanWellFounded, Zenon
  <1>2. OpToRel(<, Nat) = {q \in Nat \X Nat : q[1] < q[2]}
    BY Zenon DEF OpToRel
  <1>3. \A k \in T : ~(k < m)
    BY <1>1, <1>2
  <1> QED
    BY <1>3

\* The weight of unit p + 1.
LEMMA Weight ==
  ASSUME NEW p \in 0..Total - 1
  PROVE  /\ End(p) \in Ends /\ p < End(p) /\ \A f \in Ends : f > p => End(p) <= f
         /\ Start(p) \in Ends \cup {0} /\ Start(p) <= p
         /\ \A f \in Ends : f <= p => f <= Start(p)
  <1> USE BucketAssumption DEF BucketAssumption
  <1>1. \E e \in Ends : e > p /\ \A f \in Ends : f > p => e <= f
    <2> DEFINE T == {f \in Ends : f > p}
    <2>1. /\ T \subseteq Nat
          /\ Total \in T
      <3>1. \A f \in Ends : f \in Nat
        OBVIOUS
      <3>2. Total > p
        OBVIOUS
      <3> QED
        BY <3>1, <3>2
    <2>2. PICK m \in T : \A k \in T : m <= k
      BY <2>1, Smallest
    <2> QED
      BY <2>2
  <1>2. \E s \in Ends \cup {0} : s <= p /\ \A f \in Ends : f <= p => f <= s
    <2> DEFINE T == {n \in Nat : p - n \in Ends \cup {0}}
    <2>1. /\ T \subseteq Nat
          /\ p \in T
      OBVIOUS
    <2>2. PICK m \in T : \A k \in T : m <= k
      <3> HIDE DEF T
      <3> QED
        BY <2>1, Smallest
    <2>3. p - m \in Ends \cup {0} /\ p - m <= p
      BY <2>2
    <2>4. \A f \in Ends : f <= p => f <= p - m
      <3> SUFFICES ASSUME NEW f \in Ends, f <= p
                   PROVE  f <= p - m
        OBVIOUS
      <3>1. p - f \in Nat /\ p - (p - f) = f
        OBVIOUS
      <3>2. p - f \in T
        BY <3>1
      <3>3. m <= p - f
        BY <2>2, <3>2
      <3> QED
        BY <3>3, <2>2
    <2> QED
      BY <2>3, <2>4
  <1>3. End(p) \in Ends /\ End(p) > p /\ \A f \in Ends : f > p => End(p) <= f
    BY <1>1, Zenon DEF End
  <1>4. Start(p) \in Ends \cup {0} /\ Start(p) <= p
        /\ \A f \in Ends : f <= p => f <= Start(p)
    BY <1>2, Zenon DEF Start
  <1> QED
    BY <1>3, <1>4

LEMMA WeightTypes ==
  ASSUME NEW p \in 0..Total - 1
  PROVE  Start(p) \in Nat /\ End(p) \in Nat /\ End(p) \in 1..Total
  <1>1. \A f \in Ends : f \in Nat /\ f \in 1..Total
    BY BucketAssumption DEF BucketAssumption
  <1> QED
    BY <1>1, Weight

LEMMA SameWeight ==
  ASSUME NEW p \in 0..Total - 1, NEW q \in 0..Total - 1, p <= q, q < End(p)
  PROVE  Start(q) = Start(p) /\ End(q) = End(p)
  <1>1. \A f \in Ends : f \in Nat
    BY BucketAssumption DEF BucketAssumption
  <1>2. /\ End(p) \in Ends /\ \A f \in Ends : f > p => End(p) <= f
        /\ End(q) \in Ends /\ q < End(q) /\ \A f \in Ends : f > q => End(q) <= f
        /\ Start(p) \in Ends \cup {0} /\ Start(p) <= p
        /\ \A f \in Ends : f <= p => f <= Start(p)
        /\ Start(q) \in Ends \cup {0} /\ Start(q) <= q
        /\ \A f \in Ends : f <= q => f <= Start(q)
    BY Weight
  <1>3. End(q) = End(p)
    BY <1>1, <1>2
  <1>4. Start(q) <= p /\ Start(q) \in Nat /\ Start(p) \in Nat
    BY <1>1, <1>2
  <1>5. Start(q) <= Start(p)
    BY <1>1, <1>2, <1>4
  <1>6. Start(p) <= Start(q)
    BY <1>1, <1>2, <1>4
  <1> QED
    BY <1>3, <1>4, <1>5, <1>6

\* Multiplication by the size of a bucket is monotonic.
LEMMA Times ==
  ASSUME NEW j \in Nat, NEW k \in Nat
  PROVE  /\ k * BucketSize \in Nat
         /\ (k + 1) * BucketSize = k * BucketSize + BucketSize
         /\ k < j => k * BucketSize + BucketSize <= j * BucketSize
         /\ k * BucketSize < BucketSize => k = 0
         /\ k = 0 => k * BucketSize = 0
  <1>1. BucketSize \in Nat /\ BucketSize > 0
    BY Constants
  <1>2. k * BucketSize \in Nat
    BY <1>1
  <1>3. (k + 1) * BucketSize = k * BucketSize + BucketSize
    BY <1>1
  <1>4. ASSUME k < j
        PROVE  k * BucketSize + BucketSize <= j * BucketSize
    <2>1. PICK d \in Nat : j = k + 1 + d
      <3>1. j - (k + 1) \in Nat /\ j = k + 1 + (j - (k + 1))
        BY <1>4
      <3> QED
        BY <3>1
    <2>2. j * BucketSize = k * BucketSize + BucketSize + d * BucketSize
      BY <1>1, <2>1
    <2>3. d * BucketSize \in Nat
      BY <1>1
    <2> QED
      BY <1>1, <1>2, <2>2, <2>3
  <1>5. ASSUME k * BucketSize < BucketSize
        PROVE  k = 0
    <2>1. k # 0 => k * BucketSize >= BucketSize
      <3>1. k # 0 => k * BucketSize = (k - 1) * BucketSize + BucketSize
        BY <1>1
      <3>2. k # 0 => (k - 1) * BucketSize \in Nat
        BY <1>1
      <3> QED
        BY <3>1, <3>2, <1>1, <1>2
    <2> QED
      BY <2>1, <1>5, <1>1, <1>2
  <1>6. k = 0 => k * BucketSize = 0
    BY <1>1
  <1> QED
    BY <1>2, <1>3, <1>4, <1>5, <1>6

\* The ends of weights are ends of chunks.
LEMMA EndsAreCuts ==
  ASSUME NEW p \in Ends \cup {0}
  PROVE  Cut(p) /\ p \in 0..Total /\ (p < Total => Start(p) = p)
  <1>1. p \in 0..Total /\ \A f \in Ends : f \in Nat
    BY Constants
  <1>2. ASSUME p # Total
        PROVE  p \in 0..Total - 1 /\ Start(p) = p
    <2>1. p \in 0..Total - 1
      BY <1>1, <1>2, Constants
    <2> QED
      <3>1. Start(p) \in Nat /\ Start(p) <= p /\ (p \in Ends => p <= Start(p))
        BY <2>1, Weight, WeightTypes
      <3> QED
        BY <2>1, <3>1, <1>1
  <1>3. 0 \in Nat /\ 0 * BucketSize = 0
    BY Constants, Times
  <1> QED
    BY <1>1, <1>2, <1>3, Constants DEF Cut

\* What a chunk is.
LEMMA Chunk ==
  ASSUME NEW p \in 0..Total - 1
  PROVE  /\ ChunkEnd(p) \in 1..Total /\ p < ChunkEnd(p)
         /\ ChunkEnd(p) - p <= BucketSize /\ ChunkEnd(p) <= End(p)
         /\ ChunkEnd(p) = End(p) \/ ChunkEnd(p) = p + BucketSize
         /\ ChunkEnd(p) \in Ends <=> ChunkEnd(p) = End(p)
         /\ ChunkEnd(p) \in Ends \cup {0} <=> ChunkEnd(p) = End(p)
  <1>1. /\ End(p) \in Ends /\ p < End(p) /\ End(p) \in 1..Total
        /\ \A f \in Ends : f > p => End(p) <= f
    BY Weight, Constants
  <1>2. BucketSize \in Nat /\ BucketSize > 0 /\ Total \in Nat /\ p \in Nat
    BY Constants
  <1>3. /\ ChunkEnd(p) \in 1..Total /\ p < ChunkEnd(p)
        /\ ChunkEnd(p) - p <= BucketSize /\ ChunkEnd(p) <= End(p)
        /\ ChunkEnd(p) = End(p) \/ ChunkEnd(p) = p + BucketSize
    BY <1>1, <1>2 DEF ChunkEnd
  <1> HIDE DEF ChunkEnd
  <1>4. ChunkEnd(p) \in Ends => ChunkEnd(p) = End(p)
    BY <1>1, <1>2, <1>3
  <1> QED
    BY <1>1, <1>3, <1>4

LEMMA NextCut ==
  ASSUME NEW p \in 0..Total - 1, Cut(p)
  PROVE  /\ Cut(ChunkEnd(p))
         /\ IsLarge(p) \/ (p = Start(p) /\ ChunkEnd(p) = End(p))
  <1>1. PICK k \in Nat : p = Start(p) + k * BucketSize
    BY Constants DEF Cut
  <1>2. /\ ChunkEnd(p) \in 1..Total /\ p < ChunkEnd(p)
        /\ ChunkEnd(p) - p <= BucketSize /\ ChunkEnd(p) <= End(p)
        /\ ChunkEnd(p) = End(p) \/ ChunkEnd(p) = p + BucketSize
    BY Chunk
  <1>3. /\ End(p) \in Ends /\ p < End(p) /\ Start(p) \in Nat /\ End(p) \in Nat
    BY Weight, WeightTypes
  <1>4. BucketSize \in Nat /\ BucketSize > 0 /\ Total \in Nat /\ p \in Nat
    BY Constants
  <1>5. CASE ChunkEnd(p) = End(p)
    <2>1. Cut(ChunkEnd(p))
      BY <1>3, <1>5, EndsAreCuts
    <2>2. ~IsLarge(p) => k * BucketSize < BucketSize
      BY <1>1, <1>3, <1>4, Times DEF IsLarge
    <2>3. ~IsLarge(p) => p = Start(p)
      BY <2>2, <1>1, <1>3, <1>4, Times
    <2> QED
      BY <2>1, <2>3, <1>5
  <1>6. CASE ChunkEnd(p) = p + BucketSize /\ ChunkEnd(p) < End(p)
    <2>1. ChunkEnd(p) \in 0..Total - 1
      BY <1>2, <1>3, <1>6, Constants
    <2>2. Start(ChunkEnd(p)) = Start(p)
      BY <2>1, <1>2, <1>4, <1>6, SameWeight
    <2>3. ChunkEnd(p) = Start(p) + (k + 1) * BucketSize
      BY <1>1, <1>3, <1>4, <1>6, Times
    <2>4. Cut(ChunkEnd(p))
      BY <2>1, <2>2, <2>3 DEF Cut
    <2>5. IsLarge(p)
      BY <1>1, <1>3, <1>4, <1>6, Times DEF IsLarge
    <2> QED
      BY <2>4, <2>5
  <1> QED
    BY <1>2, <1>3, <1>5, <1>6

\* Nothing ends inside a chunk.
LEMMA ChunkIsWhole ==
  ASSUME NEW p \in 0..Total - 1, Cut(p), NEW c \in 0..Total, Cut(c), p < c
  PROVE  ChunkEnd(p) <= c
  <1>1. PICK k \in Nat : p = Start(p) + k * BucketSize
    BY Constants DEF Cut
  <1>2. /\ ChunkEnd(p) \in 1..Total
        /\ ChunkEnd(p) - p <= BucketSize /\ ChunkEnd(p) <= End(p)
    BY Chunk
  <1>3. /\ Start(p) \in Nat /\ End(p) \in 1..Total
    BY Weight, WeightTypes
  <1>4. BucketSize \in Nat /\ Total \in Nat /\ p \in Nat /\ c \in Nat
    BY Constants
  <1>5. CASE c < End(p)
    <2>1. c \in 0..Total - 1 /\ c # Total
      BY <1>3, <1>4, <1>5
    <2>2. PICK j \in Nat : c = Start(c) + j * BucketSize
      BY <2>1 DEF Cut
    <2>3. Start(c) = Start(p)
      BY <2>1, <1>4, <1>5, SameWeight
    <2>4. k * BucketSize \in Nat /\ j * BucketSize \in Nat
      BY Times
    <2>5. k * BucketSize < j * BucketSize
      BY <1>1, <1>3, <1>4, <2>2, <2>3, <2>4
    <2>6. k < j
      <3>1. j = k => j * BucketSize = k * BucketSize
        OBVIOUS
      <3>2. j < k => j * BucketSize + BucketSize <= k * BucketSize
        BY Times
      <3> QED
        BY <3>1, <3>2, <2>4, <2>5, <1>4
    <2>7. k * BucketSize + BucketSize <= j * BucketSize
      BY <2>6, Times
    <2> QED
      BY <1>1, <1>2, <1>3, <1>4, <2>2, <2>3, <2>4, <2>7
  <1>6. CASE c >= End(p)
    BY <1>2, <1>3, <1>4, <1>6
  <1> QED
    BY <1>3, <1>4, <1>5, <1>6

-----------------------------------------------------------------------------
(* Types *)

\* What TypeOK says of a rank, ...
LEMMA RankTypes ==
  ASSUME TypeOK, NEW r \in Ranks
  PROVE  /\ r \in Nat /\ r <= N
         /\ pc[r] \in Threads /\ side[r] \in Sides /\ 1 - side[r] \in Sides
         /\ 1 - (1 - side[r]) = side[r] /\ 1 - side[r] # side[r]
         /\ cur[r] \in Interval /\ cur[r].from \in 0..Total /\ cur[r].to \in 0..Total
         /\ cur[r] = [from |-> cur[r].from, to |-> cur[r].to]
         /\ buf[r] \in [Sides -> [Offsets -> Contents]]
         /\ copies[r] \in Seq(Copy)
         /\ offered[r] \in 0..Total /\ notes[r] \in Seq(Keys)
  <1>1. r \in Nat /\ r <= N
    BY Constants DEF Ranks
  <1>2. /\ pc[r] \in Threads /\ side[r] \in Sides /\ cur[r] \in Interval
        /\ buf[r] \in [Sides -> [Offsets -> Contents]] /\ copies[r] \in Seq(Copy)
        /\ offered[r] \in Keys /\ notes[r] \in Seq(Keys)
    BY DEF TypeOK, BucketTypeOK
  <1>3. /\ cur[r].from \in 0..Total /\ cur[r].to \in 0..Total
        /\ cur[r] = [from |-> cur[r].from, to |-> cur[r].to]
    BY <1>2 DEF Interval
  <1>4. 1 - side[r] \in Sides /\ 1 - (1 - side[r]) = side[r] /\ 1 - side[r] # side[r]
    BY <1>2 DEF Sides
  <1>5. offered[r] \in 0..Total
    BY <1>2 DEF Keys
  <1> QED
    BY <1>1, <1>2, <1>3, <1>4, <1>5

\* ... of a receiver, ...
LEMMA ReceiverTypes ==
  ASSUME TypeOK, NEW r \in Receivers
  PROVE  /\ r \in Ranks /\ r - 1 \in Ranks /\ r # 0 /\ r - 1 # r
         /\ next[r] \in Interval /\ next[r].from \in 0..Total /\ next[r].to \in 0..Total
         /\ next[r] = [from |-> next[r].from, to |-> next[r].to]
         /\ xfer[r] \in [side : Sides, moved : 0..BucketSize]
         /\ xfer[r].side \in Sides /\ xfer[r].moved \in 0..BucketSize
         /\ pos[r] \in 0..Total
         /\ box[r] \in Interval /\ box[r].from \in 0..Total /\ box[r].to \in 0..Total
         /\ box[r] = [from |-> box[r].from, to |-> box[r].to]
         /\ staged[r] \in [Offsets -> Contents] /\ merged[r] \in [1..Total -> Contents]
         /\ sock[r] \in {"none", "box", "large"}
         /\ loaded[r] \in Seq(Contents)
         /\ inbox[r] \in Seq(Announcement)
  <1>1. r \in Ranks /\ r - 1 \in Ranks /\ r # 0 /\ r - 1 # r
    BY Constants DEF Ranks, Receivers
  <1>2. /\ next[r] \in Interval /\ box[r] \in Interval
        /\ xfer[r] \in [side : Sides, moved : 0..BucketSize]
        /\ pos[r] \in 0..Total
        /\ staged[r] \in [Offsets -> Contents] /\ merged[r] \in [1..Total -> Contents]
        /\ sock[r] \in {"none", "box", "large"}
        /\ loaded[r] \in Seq(Contents)
        /\ inbox[r] \in Seq(Announcement)
    BY DEF TypeOK, BucketTypeOK
  <1>3. /\ next[r].from \in 0..Total /\ next[r].to \in 0..Total
        /\ next[r] = [from |-> next[r].from, to |-> next[r].to]
        /\ box[r].from \in 0..Total /\ box[r].to \in 0..Total
        /\ box[r] = [from |-> box[r].from, to |-> box[r].to]
    BY <1>2 DEF Interval
  <1>4. xfer[r].side \in Sides /\ xfer[r].moved \in 0..BucketSize
    BY <1>2
  <1> QED
    BY <1>1, <1>2, <1>3, <1>4

\* ... and of a queued copy.
LEMMA CopyTypes ==
  ASSUME TypeOK, NEW r \in Ranks
  PROVE  /\ Len(copies[r]) \in Nat
         /\ \A i \in 1..Len(copies[r]) :
              /\ copies[r][i] \in Copy
              /\ copies[r][i].from \in 0..Total /\ copies[r][i].to \in 0..Total
              /\ copies[r][i].base \in 0..Total /\ copies[r][i].at \in 0..Total
              /\ copies[r][i].side \in Sides
  <1>1. copies[r] \in Seq(Copy)
    BY RankTypes
  <1> QED
    <2>1. Len(copies[r]) \in Nat /\ \A i \in 1..Len(copies[r]) : copies[r][i] \in Copy
      BY <1>1, LenProperties, ElementOfSeq
    <2> QED
      BY <2>1 DEF Copy

-----------------------------------------------------------------------------
(* What a step leaves alone *)

\* A step of rank r changes the state of r, the announcements to the rank
\* behind and the notifications to the rank before.
Elsewhere(r) ==
  /\ \A k \in Ranks \ {r} :
       /\ pc'[k] = pc[k] /\ cur'[k] = cur[k] /\ side'[k] = side[k]
       /\ buf'[k] = buf[k] /\ copies'[k] = copies[k] /\ offered'[k] = offered[k]
  /\ \A k \in Ranks \ {r, r - 1} : notes'[k] = notes[k]
  /\ \A k \in Receivers \ {r} :
       /\ next'[k] = next[k] /\ xfer'[k] = xfer[k] /\ pos'[k] = pos[k]
       /\ box'[k] = box[k] /\ staged'[k] = staged[k] /\ merged'[k] = merged[k]
       /\ sock'[k] = sock[k] /\ loaded'[k] = loaded[k]
  /\ \A k \in Receivers \ {r, r + 1} : inbox'[k] = inbox[k]

LEMMA TrainerFrame ==
  ASSUME TrainerInv, pc'[0] = pc[0], cur'[0] = cur[0], side'[0] = side[0],
         buf'[0] = buf[0], copies'[0] = copies[0]
  PROVE  TrainerInv'
  BY DEF TrainerInv, WillHold, Packed, InCopy, Empty

LEMMA ThreadFrame ==
  ASSUME NEW k \in Receivers, ThreadInv(k),
         pc'[k] = pc[k], cur'[k] = cur[k], side'[k] = side[k], buf'[k] = buf[k],
         next'[k] = next[k], xfer'[k] = xfer[k], pos'[k] = pos[k]
  PROVE  ThreadInv(k)'
  BY DEF ThreadInv, Packed, Holds, Reading

LEMMA CopiesFrame ==
  ASSUME NEW k \in Receivers, CopiesInv(k), copies'[k] = copies[k],
         side'[k] = side[k], cur'[k] = cur[k], pos'[k] = pos[k], box'[k] = box[k]
  PROVE  CopiesInv(k)'
  BY DEF CopiesInv

LEMMA AdapterFrame ==
  ASSUME NEW k \in Receivers, AdapterInv(k), copies'[k] = copies[k],
         pc'[k] = pc[k], pos'[k] = pos[k], box'[k] = box[k], staged'[k] = staged[k],
         merged'[k] = merged[k], sock'[k] = sock[k], loaded'[k] = loaded[k]
  PROVE  AdapterInv(k)'
  BY DEF AdapterInv, Held, WillHold, Merged, InCopy

\* Between a rank and the one before nothing has happened.
LEMMA LinkFrame ==
  ASSUME NEW k \in Receivers, LinkInv(k),
         offered'[k - 1] = offered[k - 1], notes'[k - 1] = notes[k - 1],
         inbox'[k] = inbox[k], xfer'[k] = xfer[k], next'[k] = next[k],
         OfferedTo(k - 1)' = OfferedTo(k - 1),
         OfferedSide(k - 1)' = OfferedSide(k - 1),
         buf'[k - 1][OfferedSide(k - 1)] = buf[k - 1][OfferedSide(k - 1)],
         k > 1 => cur'[k - 1].from = cur[k - 1].from,
         pc'[k - 1] \in {"tail", "done"} <=> pc[k - 1] \in {"tail", "done"},
         Unoffered(k) => cur'[k] = cur[k] /\ pc'[k] = pc[k],
         Reading(k) => pc'[k] = pc[k] \/ pc'[k] \in {"work", "direct"}
  PROVE  LinkInv(k)'
  <1>1. CASE Unoffered(k)
    BY <1>1 DEF LinkInv, Unoffered, Reading, Empty
  <1>2. CASE ~Unoffered(k)
    <2>1. OfferedBucket(k - 1)' = OfferedBucket(k - 1)
      BY DEF OfferedBucket
    <2>2. /\ offered[k - 1] < OfferedTo(k - 1)
          /\ k > 1 => offered[k - 1] = cur[k - 1].from
          /\ Packed(OfferedBucket(k - 1))
          /\ Holds(buf[k - 1][OfferedSide(k - 1)], OfferedBucket(k - 1))
          /\ Announced(k) \/ Taken(k)
      BY <1>2 DEF LinkInv
    <2>3. Holds(buf[k - 1][OfferedSide(k - 1)], OfferedBucket(k - 1))'
      BY <2>1, <2>2 DEF Holds
    <2>4. Packed(OfferedBucket(k - 1))'
      BY <2>1, <2>2 DEF Packed
    <2>5. Announced(k) => Announced(k)'
      BY DEF Announced, Reading
    <2>6. Taken(k) => Taken(k)'
      BY <2>1 DEF Taken, Reading
    <2> QED
      BY <2>2, <2>3, <2>4, <2>5, <2>6 DEF LinkInv
  <1> QED
    BY <1>1, <1>2

\* An invariant of all ranks from that of the ranks and links a step disturbs.
LEMMA ElsewhereKeeps ==
  ASSUME TypeOK, RelayInv, NEW r \in Ranks, Elsewhere(r),
         r = 0 => TrainerInv',
         r # 0 => LinkInv(r)' /\ ThreadInv(r)' /\ CopiesInv(r)' /\ AdapterInv(r)',
         r < N => LinkInv(r + 1)',
         r = N => LastInv'
  PROVE  RelayInv'
  <1>1. /\ 0 \in Ranks /\ N \in Ranks /\ N # 0 /\ r \in Nat /\ r <= N
        /\ \A k \in Receivers : k \in Ranks /\ k - 1 \in Ranks /\ k # 0 /\ k \in Nat
    BY Constants DEF Ranks, Receivers
  <1>2. TrainerInv'
    BY <1>1, TrainerFrame DEF RelayInv, Elsewhere
  <1>3. LastInv'
    <2>1. CASE r # N
      <3>1. N # r - 1 /\ N \in Ranks \ {r} /\ N \in Ranks \ {r, r - 1}
        BY <1>1, <2>1, Constants
      <3> QED
        BY <3>1 DEF RelayInv, LastInv, Elsewhere
    <2> QED
      BY <2>1
  <1>4. ASSUME NEW k \in Receivers
        PROVE  LinkInv(k)' /\ ReceiverInv(k)'
    <2>1. LinkInv(k) /\ ThreadInv(k) /\ CopiesInv(k) /\ AdapterInv(k)
      BY DEF RelayInv, ReceiverInv
    <2>2. ASSUME k # r
          PROVE  ThreadInv(k)' /\ CopiesInv(k)' /\ AdapterInv(k)'
      <3>1. /\ pc'[k] = pc[k] /\ cur'[k] = cur[k] /\ side'[k] = side[k]
            /\ buf'[k] = buf[k] /\ copies'[k] = copies[k]
            /\ next'[k] = next[k] /\ xfer'[k] = xfer[k] /\ pos'[k] = pos[k]
            /\ box'[k] = box[k] /\ staged'[k] = staged[k] /\ merged'[k] = merged[k]
            /\ sock'[k] = sock[k] /\ loaded'[k] = loaded[k]
        BY <1>1, <2>2 DEF Elsewhere
      <3> QED
        BY <2>1, <3>1, ThreadFrame, CopiesFrame, AdapterFrame
    <2>3. ASSUME k # r, k # r + 1
          PROVE  LinkInv(k)'
      <3>1. k \in Ranks \ {r} /\ k - 1 \in Ranks \ {r} /\ k - 1 \in Ranks \ {r, r - 1}
            /\ k \in Receivers \ {r} /\ k \in Receivers \ {r, r + 1}
        BY <1>1, <2>3
      <3>2. /\ offered'[k - 1] = offered[k - 1] /\ notes'[k - 1] = notes[k - 1]
            /\ inbox'[k] = inbox[k] /\ xfer'[k] = xfer[k] /\ next'[k] = next[k]
            /\ cur'[k - 1] = cur[k - 1] /\ side'[k - 1] = side[k - 1]
            /\ buf'[k - 1] = buf[k - 1] /\ pc'[k - 1] = pc[k - 1]
            /\ cur'[k] = cur[k] /\ pc'[k] = pc[k]
        BY <3>1 DEF Elsewhere
      <3>3. /\ OfferedTo(k - 1)' = OfferedTo(k - 1)
            /\ OfferedSide(k - 1)' = OfferedSide(k - 1)
        <4>1. CASE k = 1
          <5>1. cur'[0] = cur[0] /\ side'[0] = side[0] /\ k - 1 = 0
            BY <4>1, <3>2
          <5> QED
            BY <5>1 DEF OfferedTo, OfferedSide
        <4>2. CASE k # 1
          <5>1. k - 1 # 0
            BY <4>2, <1>1
          <5> QED
            BY <5>1, <3>2 DEF OfferedTo, OfferedSide
        <4> QED
          BY <4>1, <4>2
      <3> QED
        BY <2>1, <3>2, <3>3, LinkFrame
    <2>4. ASSUME k = r + 1
          PROVE  r < N
      BY <2>4, <1>1, Constants DEF Receivers
    <2> QED
      BY <1>1, <2>2, <2>3, <2>4 DEF ReceiverInv
  <1> QED
    BY <1>2, <1>3, <1>4 DEF RelayInv

-----------------------------------------------------------------------------
(* The rank behind has read the bucket *)

\* What ReadByNext says of the rank behind.
LEMMA ReadDone ==
  ASSUME TypeOK, RelayInv, NEW r \in Ranks, r < N, ReadByNext(r)
  PROVE  /\ r + 1 \in Receivers /\ TakeNote(r) = <<>>
         /\ inbox[r + 1] = <<>> /\ ~Reading(r + 1)
         /\ next[r + 1].to = OfferedTo(r)
         /\ OfferedTo(r) # 0 =>
              /\ next[r + 1] = OfferedBucket(r) /\ offered[r] < OfferedTo(r)
              /\ r + 1 > 1 => offered[r] = cur[r].from
              /\ Packed(OfferedBucket(r))
              /\ Holds(buf[r][OfferedSide(r)], OfferedBucket(r))
              /\ ~Unoffered(r + 1)
  <1>1. r + 1 \in Receivers /\ (r + 1) - 1 = r
    BY Constants DEF Receivers, Ranks
  <1>2. LinkInv(r + 1)
    BY <1>1 DEF RelayInv
  <1>3. offered[r] \in 0..Total /\ notes[r] \in Seq(Keys) /\ cur[r].from \in 0..Total
        /\ cur[r].to \in 0..Total
    BY RankTypes
  <1>4. OfferedTo(r) \in 0..Total
    BY <1>3 DEF OfferedTo
  <1>5. CASE Unoffered(r + 1)
    <2>1. offered[r] = NoKey /\ inbox[r + 1] = <<>> /\ notes[r] = <<>> /\ ~Reading(r + 1)
          /\ next[r + 1] = Empty(0) /\ OfferedTo(r) = 0
      BY <1>1, <1>5 DEF Unoffered
    <2> QED
      BY <2>1, <1>1 DEF TakeNote, Empty
  <1>6. CASE ~Unoffered(r + 1)
    <2>1. /\ offered[r] < OfferedTo(r)
          /\ r + 1 > 1 => offered[r] = cur[r].from
          /\ Packed(OfferedBucket(r))
          /\ Holds(buf[r][OfferedSide(r)], OfferedBucket(r))
          /\ Announced(r + 1) \/ Taken(r + 1)
      BY <1>1, <1>2, <1>6 DEF LinkInv
    <2>2. offered[r] # NoKey
      BY <2>1, <1>3, <1>4, Constants DEF NoKey
    <2>3. notes[r] # <<>>
      BY <2>2 DEF ReadByNext
    <2>4. /\ Taken(r + 1) /\ inbox[r + 1] = <<>> /\ ~Reading(r + 1)
          /\ notes[r] = <<offered[r]>> /\ next[r + 1] = OfferedBucket(r)
      BY <2>1, <2>3, <1>1 DEF Announced, Taken
    <2>5. TakeNote(r) = <<>>
      BY <2>2, <2>4 DEF TakeNote
    <2>6. next[r + 1].to = OfferedTo(r)
      BY <2>4 DEF OfferedBucket
    <2> QED
      BY <1>1, <1>6, <2>1, <2>4, <2>5, <2>6
  <1> QED
    BY <1>5, <1>6

\* The rank takes the note and ends: the link stays as it is.
LEMMA LastRead ==
  ASSUME TypeOK, RelayInv, NEW r \in Ranks, r < N, ReadByNext(r), OfferedTo(r) # 0,
         Elsewhere(r), notes'[r] = <<>>, offered'[r] = offered[r], cur'[r] = cur[r],
         side'[r] = side[r], buf'[r] = buf[r], inbox'[r + 1] = inbox[r + 1],
         pc'[r] \in {"tail", "done"}
  PROVE  LinkInv(r + 1)'
  <1>1. /\ r + 1 \in Receivers /\ inbox[r + 1] = <<>> /\ ~Reading(r + 1)
        /\ next[r + 1] = OfferedBucket(r) /\ offered[r] < OfferedTo(r)
        /\ r + 1 > 1 => offered[r] = cur[r].from
        /\ Packed(OfferedBucket(r))
        /\ Holds(buf[r][OfferedSide(r)], OfferedBucket(r))
    BY ReadDone
  <1>2. (r + 1) - 1 = r /\ r + 1 # r /\ r + 1 \in Receivers \ {r}
    BY <1>1, Constants DEF Ranks
  <1>3. next'[r + 1] = next[r + 1] /\ xfer'[r + 1] = xfer[r + 1]
    BY <1>2 DEF Elsewhere
  <1>4. OfferedTo(r)' = OfferedTo(r) /\ OfferedSide(r)' = OfferedSide(r)
    BY DEF OfferedTo, OfferedSide
  <1>5. OfferedBucket(r)' = OfferedBucket(r)
    BY <1>4 DEF OfferedBucket
  <1>6. Packed(OfferedBucket(r))' /\ Holds(buf[r][OfferedSide(r)], OfferedBucket(r))'
    BY <1>1, <1>4, <1>5 DEF Packed, Holds
  <1>7. Taken(r + 1)'
    BY <1>1, <1>2, <1>3, <1>5 DEF Taken, Reading
  <1> QED
    BY <1>1, <1>2, <1>4, <1>6, <1>7 DEF LinkInv

\* The rank offers its next bucket.
LEMMA NextOffer ==
  ASSUME TypeOK, RelayInv, NEW r \in Ranks, r < N, ReadByNext(r), Elsewhere(r),
         notes'[r] = <<>>, pc'[r] \notin {"tail", "done"},
         offered'[r] = OfferedTo(r), OfferedTo(r) < OfferedTo(r)',
         r > 0 => OfferedTo(r) = cur'[r].from,
         Packed(OfferedBucket(r)'),
         Holds(buf'[r][OfferedSide(r)'], OfferedBucket(r)'),
         inbox'[r + 1] = Append(inbox[r + 1],
           [from |-> OfferedTo(r), to |-> OfferedTo(r)', side |-> OfferedSide(r)'])
  PROVE  LinkInv(r + 1)'
  <1>1. /\ r + 1 \in Receivers /\ inbox[r + 1] = <<>> /\ ~Reading(r + 1)
        /\ next[r + 1].to = OfferedTo(r)
    BY ReadDone
  <1>2. (r + 1) - 1 = r /\ r + 1 # r /\ r + 1 \in Receivers \ {r} /\ r \in Nat
    BY <1>1, Constants DEF Ranks
  <1>3. next'[r + 1] = next[r + 1] /\ xfer'[r + 1] = xfer[r + 1]
    BY <1>2 DEF Elsewhere
  <1>4. inbox'[r + 1] =
          <<[from |-> offered'[r], to |-> OfferedTo(r)', side |-> OfferedSide(r)']>>
    BY <1>1
  <1>5. Announced(r + 1)'
    BY <1>1, <1>2, <1>3, <1>4 DEF Announced, Reading
  <1>6. Packed(OfferedBucket(r))' /\ Holds(buf[r][OfferedSide(r)], OfferedBucket(r))'
    BY DEF Packed, Holds
  <1> QED
    BY <1>2, <1>5, <1>6 DEF LinkInv

-----------------------------------------------------------------------------
(* Queued copies *)

\* What a further copy changes.
LEMMA Queued ==
  ASSUME TypeOK, NEW r \in Ranks, NEW p \in 0..Total, NEW q \in 0..Total,
         NEW into \in {"buffer", "box", "merged"}, NEW at \in 0..Total,
         QueueCopy(r, p, q, into, at)
  PROVE  LET c == [from |-> p, to |-> q, side |-> side[r], base |-> cur[r].from,
                   into |-> into, at |-> at] IN
         /\ c \in Copy
         /\ \A k \in Ranks \ {r} : copies'[k] = copies[k]
         /\ copies' \in [Ranks -> Seq(Copy)]
         /\ Len(copies'[r]) = Len(copies[r]) + 1
         /\ \A i \in 1..Len(copies[r]) : copies'[r][i] = copies[r][i]
         /\ copies'[r][Len(copies[r]) + 1] = c
  <1> DEFINE c == [from |-> p, to |-> q, side |-> side[r], base |-> cur[r].from,
                   into |-> into, at |-> at]
  <1>1. c \in Copy
    BY RankTypes DEF Copy
  <1>2. copies' = [copies EXCEPT ![r] = Append(@, c)]
    BY DEF QueueCopy
  <1>3. copies \in [Ranks -> Seq(Copy)]
    BY DEF TypeOK, BucketTypeOK
  <1> HIDE DEF c
  <1>4. copies[r] \in Seq(Copy)
    BY <1>3
  <1>5. /\ Append(copies[r], c) \in Seq(Copy)
        /\ Len(Append(copies[r], c)) = Len(copies[r]) + 1
        /\ \A i \in 1..Len(copies[r]) : Append(copies[r], c)[i] = copies[r][i]
        /\ Append(copies[r], c)[Len(copies[r]) + 1] = c
    BY <1>1, <1>4, AppendProperties
  <1>6. /\ copies'[r] = Append(copies[r], c) /\ copies' \in [Ranks -> Seq(Copy)]
        /\ \A k \in Ranks \ {r} : copies'[k] = copies[k]
    BY <1>2, <1>3, <1>5
  <1>7. QED
    BY <1>1, <1>5, <1>6 DEF c

\* Memory that will hold a bucket still will when a copy is queued, and then it
\* will hold the units of the copy as well.
LEMMA QueuedHolds ==
  ASSUME TypeOK, NEW r \in Ranks, NEW p \in 0..Total, NEW q \in 0..Total, p <= q,
         NEW into \in {"buffer", "box", "merged"}, NEW at \in 0..Total,
         QueueCopy(r, p, q, into, at), NEW u \in Nat,
         \/ p < u /\ u <= q
         \/ \E i \in 1..Len(copies[r]) : copies[r][i].into = into /\ InCopy(copies[r][i], u)
  PROVE  \E i \in 1..Len(copies'[r]) : copies'[r][i].into = into /\ InCopy(copies'[r][i], u)
  <1> DEFINE c == [from |-> p, to |-> q, side |-> side[r], base |-> cur[r].from,
                   into |-> into, at |-> at]
  <1>1. /\ Len(copies'[r]) = Len(copies[r]) + 1
        /\ \A i \in 1..Len(copies[r]) : copies'[r][i] = copies[r][i]
        /\ copies'[r][Len(copies[r]) + 1] = c
    BY Queued
  <1>2. Len(copies[r]) \in Nat
    BY CopyTypes
  <1>3. CASE p < u /\ u <= q
    <2>1. copies'[r][Len(copies[r]) + 1].into = into
          /\ InCopy(copies'[r][Len(copies[r]) + 1], u)
      BY <1>1, <1>3 DEF InCopy
    <2> QED
      BY <2>1, <1>1, <1>2
  <1>4. CASE \E i \in 1..Len(copies[r]) : copies[r][i].into = into /\ InCopy(copies[r][i], u)
    <2>1. PICK i \in 1..Len(copies[r]) : copies[r][i].into = into /\ InCopy(copies[r][i], u)
      BY <1>4
    <2>2. copies'[r][i] = copies[r][i] /\ i \in 1..Len(copies'[r])
      BY <1>1, <1>2
    <2> QED
      BY <2>1, <2>2
  <1> QED
    BY <1>3, <1>4

-----------------------------------------------------------------------------
(* Steps of the trainer *)

LEMMA FillStep ==
  ASSUME TypeOK, RelayInv, Fill, UNCHANGED nixlVars
  PROVE  TypeOK' /\ RelayInv'
  <1> DEFINE p == cur[0].to
             q == ChunkEnd(p)
  <1>1. 0 \in Ranks /\ 0 < N
    BY Constants DEF Ranks
  <1>2. /\ p \in 0..Total - 1 /\ cur[0].from \in 0..Total
        /\ pc[0] = "fill" /\ q - cur[0].from <= BucketSize
        /\ QueueCopy(0, p, q, "buffer", cur[0].from)
        /\ cur' = [cur EXCEPT ![0].to = q]
        /\ UNCHANGED <<buf, side, inbox, pc, pos, box, staged, merged, sock, loaded>>
        /\ UNCHANGED <<next, xfer, offered, notes>>
    <2>1. cur[0].to \in 0..Total /\ cur[0].from \in 0..Total
      BY <1>1, RankTypes
    <2> QED
      BY <2>1, Constants DEF Fill, Fits, adapter, nixlVars
  <1>3. q \in 0..Total /\ p < q /\ p \in 0..Total
    BY <1>2, Chunk, Constants
  <1> HIDE DEF q
  <1>4. /\ \A k \in Ranks \ {0} : copies'[k] = copies[k]
        /\ copies' \in [Ranks -> Seq(Copy)]
        /\ Len(copies'[0]) = Len(copies[0]) + 1
        /\ \A i \in 1..Len(copies[0]) : copies'[0][i] = copies[0][i]
        /\ copies'[0][Len(copies[0]) + 1] =
             [from |-> p, to |-> q, side |-> side[0], base |-> cur[0].from,
              into |-> "buffer", at |-> cur[0].from]
    BY <1>1, <1>2, <1>3, Queued
  <1>5. cur \in [Ranks -> Interval]
    BY DEF TypeOK, BucketTypeOK
  <1>6. /\ cur' \in [Ranks -> Interval]
        /\ cur'[0] = [from |-> cur[0].from, to |-> q]
        /\ \A k \in Ranks \ {0} : cur'[k] = cur[k]
    BY <1>1, <1>2, <1>3, <1>5 DEF Interval
  <1>7. TypeOK'
    BY <1>2, <1>4, <1>6 DEF TypeOK, BucketTypeOK
  <1>8. TrainerInv'
    <2>1. /\ Packed(cur[0]) /\ cur[0].from < Total
          /\ \A i \in 1..Len(copies[0]) :
               /\ copies[0][i].into = "buffer" /\ copies[0][i].side = side[0]
               /\ copies[0][i].base = cur[0].from /\ copies[0][i].at = cur[0].from
               /\ cur[0].from <= copies[0][i].from /\ copies[0][i].to <= cur[0].to
          /\ WillHold(buf[0][side[0]], cur[0], copies[0], "buffer")
      BY <1>2 DEF RelayInv, TrainerInv
    <2>2. Packed(cur'[0])
      <3>1. Cut(q)
        BY <2>1, <1>2, NextCut DEF Packed, q
      <3> QED
        BY <3>1, <2>1, <1>2, <1>3, <1>6 DEF Packed
    <2>3. ASSUME NEW i \in 1..Len(copies'[0])
          PROVE  /\ copies'[0][i].into = "buffer" /\ copies'[0][i].side = side'[0]
                 /\ copies'[0][i].base = cur'[0].from /\ copies'[0][i].at = cur'[0].from
                 /\ cur'[0].from <= copies'[0][i].from /\ copies'[0][i].to <= cur'[0].to
      <3>1. Len(copies[0]) \in Nat
            /\ \A j \in 1..Len(copies[0]) : copies[0][j].to \in 0..Total
        BY <1>1, CopyTypes
      <3>2. CASE i = Len(copies[0]) + 1
        BY <3>2, <1>2, <1>3, <1>4, <1>6, <2>1 DEF Packed
      <3>3. CASE i \in 1..Len(copies[0])
        <4>1. copies'[0][i] = copies[0][i] /\ side'[0] = side[0]
          BY <3>3, <1>2, <1>4
        <4>2. copies[0][i].to <= p
          BY <3>3, <2>1
        <4>3. copies[0][i].to <= q
          BY <4>2, <3>1, <3>3, <1>2, <1>3
        <4>4. cur'[0].from = cur[0].from /\ cur'[0].to = q
          BY <1>6
        <4> QED
          BY <4>1, <4>3, <4>4, <3>3, <2>1
      <3> QED
        BY <3>1, <3>2, <3>3, <1>4
    <2>4. WillHold(buf'[0][side'[0]], cur'[0], copies'[0], "buffer")
      <3> SUFFICES ASSUME NEW u \in cur[0].from + 1..q, buf[0][side[0]][u - cur[0].from] # u
                   PROVE  \E i \in 1..Len(copies'[0]) :
                            copies'[0][i].into = "buffer" /\ InCopy(copies'[0][i], u)
        BY <1>2, <1>6 DEF WillHold
      <3>1. u \in Nat /\ (u <= p => u \in cur[0].from + 1..p)
        BY <1>2, <1>3
      <3>2. \/ p < u /\ u <= q
            \/ \E i \in 1..Len(copies[0]) :
                 copies[0][i].into = "buffer" /\ InCopy(copies[0][i], u)
        BY <3>1, <2>1, <1>2, <1>3 DEF WillHold
      <3>3. /\ p \in 0..Total /\ q \in 0..Total /\ p <= q /\ cur[0].from \in 0..Total
            /\ QueueCopy(0, p, q, "buffer", cur[0].from)
        BY <1>2, <1>3, Constants
      <3> HIDE DEF p
      <3> QED
        BY <1>1, <3>1, <3>2, <3>3, QueuedHolds
    <2> QED
      BY <1>2, <1>6, <2>1, <2>2, <2>3, <2>4 DEF TrainerInv
  <1>9. Elsewhere(0)
    BY <1>2, <1>4, <1>6 DEF Elsewhere
  <1>10. LinkInv(1)'
    <2>1. 1 \in Receivers /\ 1 - 1 = 0 /\ 1 \in Ranks \ {0} /\ LinkInv(1)
      BY Constants DEF Receivers, Ranks, RelayInv
    <2>2. cur'[1] = cur[1] /\ cur'[0].from = cur[0].from
      BY <2>1, <1>6
    <2>3. OfferedTo(0)' = OfferedTo(0) /\ OfferedSide(0)' = OfferedSide(0)
      BY <1>2, <2>2 DEF OfferedTo, OfferedSide
    <2> QED
      BY <2>1, <2>2, <2>3, <1>2, LinkFrame
  <1> QED
    BY <1>1, <1>7, <1>8, <1>9, <1>10, ElsewhereKeeps

\* What Offer changes, ...
LEMMA Offers ==
  ASSUME TypeOK, NEW r \in Ranks, NEW b \in Interval, NEW s \in Sides, Offer(r, b, s)
  PROVE  /\ offered' \in [Ranks -> Keys] /\ inbox' \in [Receivers -> Seq(Announcement)]
         /\ \A k \in Ranks \ {r} : offered'[k] = offered[k]
         /\ \A k \in Receivers \ {r + 1} : inbox'[k] = inbox[k]
         /\ r = N => offered' = offered /\ inbox' = inbox
         /\ r < N => /\ offered'[r] = b.from
                     /\ inbox'[r + 1] = Append(inbox[r + 1],
                          [from |-> b.from, to |-> b.to, side |-> s])
  <1> DEFINE a == [from |-> b.from, to |-> b.to, side |-> s]
  <1>1. /\ offered \in [Ranks -> Keys] /\ inbox \in [Receivers -> Seq(Announcement)]
        /\ r \in Nat /\ N \in Nat /\ r <= N /\ (r < N => r + 1 \in Receivers)
    <2>1. r \in Nat /\ N \in Nat /\ r <= N /\ (r < N => r + 1 \in Receivers)
      BY Constants DEF Ranks, Receivers
    <2> QED
      BY <2>1 DEF TypeOK, BucketTypeOK
  <1>2. a \in Announcement /\ b.from \in Keys
    BY DEF Announcement, Interval, Keys
  <1>3. CASE r < N
    <2>1. /\ offered' = [offered EXCEPT ![r] = b.from]
          /\ inbox' = [inbox EXCEPT ![r + 1] = Append(@, a)]
      BY <1>3 DEF Offer
    <2>2. r # N
      BY <1>1, <1>3
    <2> HIDE DEF a
    <2>3. Append(inbox[r + 1], a) \in Seq(Announcement)
      BY <1>1, <1>2, <1>3, AppendProperties
    <2> QED
      BY <1>1, <1>2, <1>3, <2>1, <2>2, <2>3 DEF a
  <1>4. CASE ~(r < N)
    BY <1>1, <1>4 DEF Offer
  <1> QED
    BY <1>3, <1>4

\* ... and what taking the note changes.
LEMMA NoteTaken ==
  ASSUME TypeOK, NEW r \in Ranks, ReadByNext(r), notes' = [notes EXCEPT ![r] = TakeNote(r)]
  PROVE  /\ notes' \in [Ranks -> Seq(Keys)] /\ notes'[r] = TakeNote(r)
         /\ \A k \in Ranks \ {r} : notes'[k] = notes[k]
  <1>1. notes \in [Ranks -> Seq(Keys)]
    BY DEF TypeOK
  <1>2. TakeNote(r) \in Seq(Keys)
    <2>1. notes[r] \in Seq(Keys)
      BY <1>1
    <2> QED
      BY <2>1, HeadTailProperties DEF ReadByNext, TakeNote
  <1> QED
    BY <1>1, <1>2

LEMMA SendBucketStep ==
  ASSUME TypeOK, RelayInv, SendBucket
  PROVE  TypeOK' /\ RelayInv'
  <1>1. 0 \in Ranks /\ 0 < N /\ 0 + 1 = 1 /\ 1 \in Receivers /\ 0 \in Nat
    BY Constants DEF Ranks, Receivers
  <1>2. /\ pc[0] = "fill" /\ ~Fits /\ copies[0] = <<>> /\ ReadByNext(0)
        /\ notes' = [notes EXCEPT ![0] = TakeNote(0)]
        /\ Offer(0, cur[0], side[0])
        /\ side' = [side EXCEPT ![0] = 1 - side[0]]
        /\ cur' = [cur EXCEPT ![0] = Empty(cur[0].to)]
        /\ pc' = [pc EXCEPT ![0] = IF cur[0].to = Total THEN "last" ELSE "fill"]
        /\ UNCHANGED <<buf, copies, pos, box, staged, merged, sock, loaded, next, xfer>>
    BY DEF SendBucket, Synchronized, adapter
  <1>3. /\ cur[0] \in Interval /\ cur[0].from \in 0..Total /\ cur[0].to \in 0..Total
        /\ cur[0] = [from |-> cur[0].from, to |-> cur[0].to]
        /\ side[0] \in Sides /\ 1 - side[0] \in Sides /\ 1 - (1 - side[0]) = side[0]
    BY <1>1, RankTypes
  <1>4. /\ offered' \in [Ranks -> Keys] /\ inbox' \in [Receivers -> Seq(Announcement)]
        /\ \A k \in Ranks \ {0} : offered'[k] = offered[k]
        /\ \A k \in Receivers \ {1} : inbox'[k] = inbox[k]
        /\ offered'[0] = cur[0].from
        /\ inbox'[1] = Append(inbox[1],
             [from |-> cur[0].from, to |-> cur[0].to, side |-> side[0]])
    BY <1>1, <1>2, <1>3, Offers
  <1>5. /\ notes' \in [Ranks -> Seq(Keys)] /\ notes'[0] = TakeNote(0)
        /\ \A k \in Ranks \ {0} : notes'[k] = notes[k]
    BY <1>1, <1>2, NoteTaken
  <1>6. /\ pc \in [Ranks -> Threads] /\ side \in [Ranks -> Sides] /\ cur \in [Ranks -> Interval]
    BY DEF TypeOK, BucketTypeOK
  <1>7. Empty(cur[0].to) \in Interval
    BY <1>3 DEF Empty, Interval
  <1>8. /\ pc' \in [Ranks -> Threads] /\ side' \in [Ranks -> Sides] /\ cur' \in [Ranks -> Interval]
        /\ pc'[0] = IF cur[0].to = Total THEN "last" ELSE "fill"
        /\ side'[0] = 1 - side[0] /\ cur'[0] = Empty(cur[0].to)
        /\ \A k \in Ranks \ {0} : pc'[k] = pc[k] /\ side'[k] = side[k] /\ cur'[k] = cur[k]
    BY <1>1, <1>2, <1>3, <1>6, <1>7 DEF Threads
  <1>9. TypeOK'
    BY <1>2, <1>4, <1>5, <1>8 DEF TypeOK, BucketTypeOK
  <1>10. Elsewhere(0)
    BY <1>1, <1>2, <1>4, <1>5, <1>8 DEF Elsewhere
  <1>11. /\ Packed(cur[0]) /\ cur[0].from < Total
         /\ WillHold(buf[0][side[0]], cur[0], copies[0], "buffer")
    BY <1>2 DEF RelayInv, TrainerInv
  <1>12. TrainerInv'
    <2>1. Packed(cur'[0])
      BY <1>3, <1>8, <1>11, Constants DEF Packed, Empty
    <2>2. WillHold(buf[0][side[0]], cur[0], copies[0], "buffer")'
      BY <1>3, <1>8 DEF WillHold, Empty
    <2>3. pc'[0] = "fill" => cur'[0].from < Total
      BY <1>3, <1>8, Constants DEF Empty
    <2>4. Len(copies'[0]) = 0
      BY <1>2
    <2> QED
      BY <1>2, <1>8, <2>1, <2>2, <2>3, <2>4 DEF TrainerInv
  <1>13. LinkInv(1)'
    <2>1. /\ OfferedTo(0) = cur[0].from /\ OfferedTo(0)' = cur[0].to
          /\ OfferedSide(0)' = side[0] /\ offered'[0] = OfferedTo(0)
      BY <1>3, <1>4, <1>8 DEF OfferedTo, OfferedSide, Empty
    <2>2. TakeNote(0) = <<>>
      BY <1>1, <1>2, ReadDone
    <2>3. cur[0].from < cur[0].to
      <3>1. SUFFICES ASSUME cur[0].from = cur[0].to
                     PROVE  FALSE
        BY <1>3, <1>11 DEF Packed
      <3>2. cur[0].to \in 0..Total - 1
        BY <1>3, <1>11, <3>1, Constants
      <3>3. ChunkEnd(cur[0].to) - cur[0].from <= BucketSize
        BY <3>1, <3>2, Chunk
      <3> QED
        BY <1>2, <3>1, <3>3, <1>11 DEF Fits
    <2>4. OfferedBucket(0)' = cur[0]
      BY <1>3, <2>1 DEF OfferedBucket
    <2>5. Holds(buf'[0][OfferedSide(0)'], OfferedBucket(0)')
      <3>1. Len(copies[0]) = 0 /\ buf' = buf
        BY <1>2
      <3> QED
        BY <1>11, <2>1, <2>4, <3>1 DEF WillHold, Holds
    <2>6. pc'[0] \notin {"tail", "done"}
      BY <1>8
    <2>7. inbox'[0 + 1] = Append(inbox[0 + 1],
            [from |-> OfferedTo(0), to |-> OfferedTo(0)', side |-> OfferedSide(0)'])
      BY <1>1, <1>4, <2>1
    <2>8. notes'[0] = <<>>
      BY <1>5, <2>2
    <2>9. Packed(OfferedBucket(0)') /\ OfferedTo(0) < OfferedTo(0)'
      BY <1>11, <2>1, <2>3, <2>4
    <2>10. LinkInv(0 + 1)'
      BY <1>1, <1>2, <1>10, <2>1, <2>5, <2>6, <2>7, <2>8, <2>9, NextOffer
    <2> QED
      BY <1>1, <2>10
  <1> QED
    BY <1>1, <1>9, <1>10, <1>12, <1>13, ElsewhereKeeps

LEMMA EndSendStep ==
  ASSUME TypeOK, RelayInv, EndSend
  PROVE  TypeOK' /\ RelayInv'
  <1>1. 0 \in Ranks /\ 0 < N /\ 0 + 1 = 1 /\ 1 \in Receivers /\ 0 \in Nat /\ Total # 0
    BY Constants DEF Ranks, Receivers
  <1>2. /\ pc[0] = "last" /\ ReadByNext(0)
        /\ notes' = [notes EXCEPT ![0] = TakeNote(0)]
        /\ pc' = [pc EXCEPT ![0] = "done"]
        /\ UNCHANGED <<buf, copies, side, cur, inbox, next, xfer, offered>>
        /\ UNCHANGED <<pos, box, staged, merged, sock, loaded>>
    BY DEF EndSend, adapter
  <1>3. /\ notes' \in [Ranks -> Seq(Keys)] /\ notes'[0] = TakeNote(0)
        /\ \A k \in Ranks \ {0} : notes'[k] = notes[k]
    BY <1>1, <1>2, NoteTaken
  <1>4. /\ pc' \in [Ranks -> Threads] /\ pc'[0] = "done"
        /\ \A k \in Ranks \ {0} : pc'[k] = pc[k]
    BY <1>1, <1>2 DEF TypeOK, Threads
  <1>5. TypeOK'
    BY <1>2, <1>3, <1>4 DEF TypeOK, BucketTypeOK
  <1>6. Elsewhere(0)
    BY <1>1, <1>2, <1>3, <1>4 DEF Elsewhere
  <1>7. TrainerInv'
    <2>1. Packed(cur[0])' /\ WillHold(buf[0][side[0]], cur[0], copies[0], "buffer")'
      BY <1>2 DEF RelayInv, TrainerInv, Packed, WillHold, InCopy
    <2> QED
      BY <1>2, <1>4, <2>1 DEF RelayInv, TrainerInv, Empty
  <1>8. LinkInv(0 + 1)'
    <2>1. OfferedTo(0) # 0
      BY <1>1, <1>2 DEF RelayInv, TrainerInv, OfferedTo, Empty
    <2>2. TakeNote(0) = <<>>
      BY <1>1, <1>2, ReadDone
    <2> QED
      BY <1>1, <1>2, <1>3, <1>4, <1>6, <2>1, <2>2, LastRead
  <1> QED
    BY <1>1, <1>5, <1>6, <1>7, <1>8, ElsewhereKeeps

-----------------------------------------------------------------------------
(* Steps of a receiver *)

\* The link to the rank behind, when nothing is offered.
LEMMA BehindFrame ==
  ASSUME TypeOK, RelayInv, NEW r \in Receivers, Elsewhere(r),
         offered'[r] = offered[r], notes'[r] = notes[r],
         r < N => inbox'[r + 1] = inbox[r + 1],
         cur'[r] = cur[r], side'[r] = side[r], buf'[r][side[r]] = buf[r][side[r]],
         pc'[r] \in {"tail", "done"} <=> pc[r] \in {"tail", "done"}
  PROVE  (r < N => LinkInv(r + 1)') /\ (r = N => LastInv')
  <1>1. ASSUME r < N
        PROVE  LinkInv(r + 1)'
    <2>1. /\ r + 1 \in Receivers /\ (r + 1) - 1 = r /\ r # 0
          /\ r + 1 \in Receivers \ {r} /\ r + 1 \in Ranks \ {r}
      BY <1>1, Constants DEF Receivers, Ranks
    <2>2. LinkInv(r + 1)
      BY <2>1 DEF RelayInv
    <2>3. /\ OfferedTo(r)' = OfferedTo(r)
          /\ OfferedSide(r)' = OfferedSide(r) /\ OfferedSide(r) = side[r]
      BY <2>1 DEF OfferedTo, OfferedSide
    <2>4. /\ next'[r + 1] = next[r + 1] /\ xfer'[r + 1] = xfer[r + 1]
          /\ cur'[r + 1] = cur[r + 1] /\ pc'[r + 1] = pc[r + 1]
      BY <2>1 DEF Elsewhere
    <2> QED
      BY <1>1, <2>1, <2>2, <2>3, <2>4, LinkFrame
  <1>2. ASSUME r = N
        PROVE  LastInv'
    BY <1>2 DEF RelayInv, LastInv
  <1> QED
    BY <1>1, <1>2

\* The link to the rank before, when nothing of it changes.
LEMMA AheadFrame ==
  ASSUME TypeOK, RelayInv, NEW r \in Receivers, Elsewhere(r),
         notes'[r - 1] = notes[r - 1], inbox'[r] = inbox[r],
         xfer'[r] = xfer[r], next'[r] = next[r],
         Unoffered(r) => cur'[r] = cur[r] /\ pc'[r] = pc[r],
         Reading(r) => pc'[r] = pc[r] \/ pc'[r] \in {"work", "direct"}
  PROVE  LinkInv(r)'
  <1>1. r - 1 \in Ranks \ {r} /\ LinkInv(r)
    BY ReceiverTypes DEF RelayInv
  <1>2. /\ offered'[r - 1] = offered[r - 1] /\ buf'[r - 1] = buf[r - 1]
        /\ cur'[r - 1] = cur[r - 1] /\ side'[r - 1] = side[r - 1] /\ pc'[r - 1] = pc[r - 1]
    BY <1>1 DEF Elsewhere
  <1>3. OfferedTo(r - 1)' = OfferedTo(r - 1) /\ OfferedSide(r - 1)' = OfferedSide(r - 1)
    <2>1. CASE r - 1 = 0
      BY <2>1, <1>2 DEF OfferedTo, OfferedSide
    <2>2. CASE r - 1 # 0
      BY <2>2, <1>2 DEF OfferedTo, OfferedSide
    <2> QED
      BY <2>1, <2>2
  <1> QED
    BY <1>1, <1>2, <1>3, LinkFrame

LEMMA BeginReadStep ==
  ASSUME TypeOK, RelayInv, NEW r \in Receivers, BeginRead(r)
  PROVE  TypeOK' /\ RelayInv'
  <1> DEFINE a == Head(inbox[r])
             o == r - 1
  <1>1. /\ r \in Ranks /\ o \in Ranks /\ o # r /\ r # 0 /\ o \in Ranks \ {r}
        /\ LinkInv(r) /\ ThreadInv(r) /\ CopiesInv(r) /\ AdapterInv(r)
    BY ReceiverTypes DEF RelayInv, ReceiverInv
  <1>2. /\ pc[r] = "meta" /\ inbox[r] # <<>>
        /\ next' = [next EXCEPT ![r] = [from |-> a.from, to |-> a.to]]
        /\ xfer' = [xfer EXCEPT ![r] = [side |-> a.side, moved |-> 0]]
        /\ inbox' = [inbox EXCEPT ![r] = Tail(@)]
        /\ pc' = [pc EXCEPT ![r] = "work"]
        /\ UNCHANGED <<buf, copies, side, cur, offered, notes>>
        /\ UNCHANGED <<pos, box, staged, merged, sock, loaded>>
    BY DEF BeginRead, adapter
  <1>3. /\ Announced(r) /\ offered[o] < OfferedTo(o)
        /\ r > 1 => offered[o] = cur[o].from
        /\ Packed(OfferedBucket(o))
        /\ Holds(buf[o][OfferedSide(o)], OfferedBucket(o))
    BY <1>1, <1>2 DEF LinkInv, Unoffered, Taken
  <1>4. /\ inbox[r] = <<[from |-> offered[o], to |-> OfferedTo(o), side |-> OfferedSide(o)]>>
        /\ notes[o] = <<>> /\ next[r].to = offered[o] /\ pc[o] \notin {"tail", "done"}
    BY <1>3 DEF Announced
  <1>5. /\ a = [from |-> offered[o], to |-> OfferedTo(o), side |-> OfferedSide(o)]
        /\ Tail(inbox[r]) = <<>>
    BY <1>4
  <1>6. /\ offered[o] \in 0..Total /\ OfferedTo(o) \in 0..Total /\ OfferedSide(o) \in Sides
    BY <1>1, RankTypes DEF OfferedTo, OfferedSide
  <1> HIDE DEF a, o
  <1>7. /\ next \in [Receivers -> Interval] /\ pc \in [Ranks -> Threads]
        /\ xfer \in [Receivers -> [side : Sides, moved : 0..BucketSize]]
        /\ inbox \in [Receivers -> Seq(Announcement)]
    BY DEF TypeOK, BucketTypeOK
  <1>8. [from |-> a.from, to |-> a.to] = OfferedBucket(o)
    BY <1>5 DEF OfferedBucket
  <1>9. /\ OfferedBucket(o) \in Interval
        /\ [side |-> a.side, moved |-> 0] \in [side : Sides, moved : 0..BucketSize]
        /\ a.side = OfferedSide(o)
    BY <1>5, <1>6, Constants DEF Interval, OfferedBucket
  <1>10. /\ next' \in [Receivers -> Interval] /\ pc' \in [Ranks -> Threads]
         /\ xfer' \in [Receivers -> [side : Sides, moved : 0..BucketSize]]
         /\ inbox' \in [Receivers -> Seq(Announcement)]
         /\ next'[r] = OfferedBucket(o) /\ pc'[r] = "work" /\ inbox'[r] = <<>>
         /\ xfer'[r].side = OfferedSide(o) /\ xfer'[r].moved = 0
         /\ \A k \in Ranks \ {r} : pc'[k] = pc[k]
         /\ \A k \in Receivers \ {r} :
              next'[k] = next[k] /\ xfer'[k] = xfer[k] /\ inbox'[k] = inbox[k]
    <2>1. <<>> \in Seq(Announcement) /\ "work" \in Threads
      BY DEF Threads
    <2> QED
      BY <1>1, <1>2, <1>5, <1>7, <1>8, <1>9, <2>1
  <1>11. TypeOK'
    BY <1>2, <1>10 DEF TypeOK, BucketTypeOK
  <1>12. Elsewhere(r)
    BY <1>2, <1>10 DEF Elsewhere
  <1>13. OfferedBucket(o)' = OfferedBucket(o) /\ OfferedSide(o)' = OfferedSide(o)
         /\ OfferedTo(o)' = OfferedTo(o)
    BY <1>2 DEF OfferedBucket, OfferedSide, OfferedTo
  <1>14. LinkInv(r)'
    <2>1. pc'[o] = pc[o] /\ notes'[o] = notes[o] /\ Reading(r)'
      BY <1>1, <1>2, <1>10, Constants DEF Reading
    <2>2. Taken(r)'
      BY <1>4, <1>10, <1>13, <2>1 DEF Taken, o
    <2>3. Packed(OfferedBucket(o))' /\ Holds(buf[o][OfferedSide(o)], OfferedBucket(o))'
      BY <1>2, <1>3, <1>13 DEF Packed, Holds
    <2>4. offered'[o] < OfferedTo(o)' /\ (r > 1 => offered'[o] = cur'[o].from)
      BY <1>2, <1>3, <1>13
    <2> QED
      BY <2>2, <2>3, <2>4 DEF LinkInv, o
  <1>15. (r < N => LinkInv(r + 1)') /\ (r = N => LastInv')
    <2>1. r < N => inbox'[r + 1] = inbox[r + 1]
      <3>1. r < N => r + 1 \in Receivers \ {r}
        BY Constants DEF Receivers
      <3> QED
        BY <3>1, <1>10
    <2> QED
      BY <1>2, <1>10, <1>12, <2>1, BehindFrame
  <1>16. ThreadInv(r)'
    <2>1. /\ Packed(cur[r]) /\ Cut(pos[r])
          /\ cur[r].from <= pos[r] /\ pos[r] <= cur[r].to
          /\ cur[r] = next[r] /\ cur[r].to < Total /\ pos[r] = cur[r].from
          /\ Holds(buf[r][side[r]], cur[r])
      BY <1>1, <1>2 DEF ThreadInv
    <2>2. next'[r].from = cur[r].to /\ next'[r].from < next'[r].to
      BY <2>1, <1>3, <1>4, <1>10 DEF OfferedBucket
    <2>3. Packed(cur[r])' /\ Packed(next[r])' /\ Holds(buf[r][side[r]], cur[r])'
      BY <1>2, <1>3, <1>10, <2>1 DEF Packed, Holds
    <2> QED
      BY <1>2, <1>10, <2>1, <2>2, <2>3 DEF ThreadInv
  <1>17. CopiesInv(r)'
    BY <1>1, <1>2, CopiesFrame
  <1>18. AdapterInv(r)'
    <2>1. sock[r] = "none"
      BY <1>1, <1>2, ReceiverTypes DEF AdapterInv
    <2>2. Held(r)' <=> Held(r)
      BY <1>2, <1>10 DEF Held
    <2>3. WillHold(staged[r], box[r], copies[r], "box")'
      BY <1>1, <1>2 DEF AdapterInv, WillHold, InCopy
    <2> QED
      BY <1>1, <1>2, <1>10, <2>1, <2>2, <2>3 DEF AdapterInv, Merged, InCopy
  <1> QED
    BY <1>1, <1>11, <1>12, <1>14, <1>15, <1>16, <1>17, <1>18, ElsewhereKeeps

LEMMA TransferStep ==
  ASSUME TypeOK, RelayInv, NEW r \in Receivers, Transfer(r)
  PROVE  TypeOK' /\ RelayInv'
  <1> DEFINE h == r - 1
             o == xfer[r].moved + 1
             s == 1 - side[r]
             x == buf[h][xfer[r].side][o]
  <1>1. /\ r \in Ranks /\ h \in Ranks /\ h # r /\ r # 0 /\ h \in Ranks \ {r}
        /\ LinkInv(r) /\ ThreadInv(r) /\ CopiesInv(r) /\ AdapterInv(r)
    BY ReceiverTypes DEF RelayInv, ReceiverInv
  <1>2. /\ xfer[r].moved < BucketSize
        /\ buf' = [buf EXCEPT ![r][s][o] = x]
        /\ xfer' = [xfer EXCEPT ![r].moved = o]
        /\ notes' = IF o = BucketSize
                    THEN [notes EXCEPT ![h] = Append(@, next[r].from)] ELSE notes
        /\ UNCHANGED <<copies, side, cur, inbox, pc, next, offered>>
        /\ UNCHANGED <<pos, box, staged, merged, sock, loaded>>
    BY DEF Transfer, adapter
  <1>3. /\ xfer[r].moved \in Nat /\ o \in Offsets /\ o \in 1..BucketSize /\ o \in 0..BucketSize
        /\ xfer[r].side \in Sides /\ s \in Sides /\ side[r] \in Sides /\ s # side[r]
        /\ next[r].from \in Keys /\ next[r].to \in Nat /\ next[r].from \in Nat
    <2>1. xfer[r].moved \in 0..BucketSize /\ xfer[r].side \in Sides
          /\ next[r].from \in 0..Total /\ next[r].to \in 0..Total
      BY ReceiverTypes
    <2>2. s \in Sides /\ side[r] \in Sides /\ s # side[r]
      BY <1>1, RankTypes
    <2>3. o \in 1..BucketSize /\ o \in 0..BucketSize
      BY <1>2, <2>1, Constants
    <2> QED
      BY <2>1, <2>2, <2>3, Constants DEF Offsets, Keys
  <1>4. /\ Taken(r) /\ Reading(r) /\ offered[h] < OfferedTo(h)
        /\ r > 1 => offered[h] = cur[h].from
        /\ Packed(OfferedBucket(h))
        /\ Holds(buf[h][OfferedSide(h)], OfferedBucket(h))
    BY <1>1, <1>2 DEF LinkInv, Unoffered, Announced, Reading
  <1>5. /\ inbox[r] = <<>> /\ next[r] = OfferedBucket(h) /\ notes[h] = <<>>
        /\ xfer[r].side = OfferedSide(h) /\ pc[r] \in {"work", "direct"}
        /\ pc[h] \notin {"tail", "done"}
    BY <1>4 DEF Taken
  <1>6. /\ buf \in [Ranks -> [Sides -> [Offsets -> Contents]]]
        /\ xfer \in [Receivers -> [side : Sides, moved : 0..BucketSize]]
        /\ notes \in [Ranks -> Seq(Keys)]
    BY DEF TypeOK, BucketTypeOK
  <1>7. x \in Contents
    BY <1>1, <1>3, <1>6
  <1> HIDE DEF x, o, s, h
  <1>8. /\ buf' \in [Ranks -> [Sides -> [Offsets -> Contents]]]
        /\ \A k \in Ranks \ {r} : buf'[k] = buf[k]
        /\ buf'[r][side[r]] = buf[r][side[r]]
        /\ buf'[r][s][o] = x
        /\ \A i \in Offsets \ {o} : buf'[r][s][i] = buf[r][s][i]
    <2> DEFINE g == [buf[r][s] EXCEPT ![o] = x]
               b == [buf[r] EXCEPT ![s] = g]
    <2>1. buf' = [buf EXCEPT ![r] = b]
      BY <1>2
    <2>2. /\ g \in [Offsets -> Contents] /\ g[o] = x
          /\ \A i \in Offsets \ {o} : g[i] = buf[r][s][i]
      BY <1>1, <1>3, <1>6, <1>7
    <2> HIDE DEF g
    <2>3. /\ b \in [Sides -> [Offsets -> Contents]] /\ b[s] = g /\ b[side[r]] = buf[r][side[r]]
      BY <1>1, <1>3, <1>6, <2>2
    <2> HIDE DEF b
    <2> QED
      BY <1>1, <1>6, <2>1, <2>2, <2>3
  <1>9. /\ xfer' \in [Receivers -> [side : Sides, moved : 0..BucketSize]]
        /\ \A k \in Receivers \ {r} : xfer'[k] = xfer[k]
        /\ xfer'[r].side = xfer[r].side /\ xfer'[r].moved = o
    BY <1>1, <1>2, <1>3, <1>6
  <1>10. /\ notes' \in [Ranks -> Seq(Keys)]
         /\ \A k \in Ranks \ {h} : notes'[k] = notes[k]
         /\ notes'[h] = IF o = BucketSize THEN <<next[r].from>> ELSE <<>>
    <2>1. Append(notes[h], next[r].from) = <<next[r].from>> /\ <<next[r].from>> \in Seq(Keys)
      BY <1>3, <1>5
    <2> QED
      BY <1>1, <1>2, <1>5, <1>6, <2>1
  <1>11. TypeOK'
    BY <1>2, <1>8, <1>9, <1>10 DEF TypeOK, BucketTypeOK
  <1>12. Elsewhere(r)
    BY <1>2, <1>8, <1>9, <1>10 DEF Elsewhere, h
  <1>13. LinkInv(r)'
    <2>1. /\ OfferedBucket(h)' = OfferedBucket(h) /\ OfferedSide(h)' = OfferedSide(h)
          /\ OfferedTo(h)' = OfferedTo(h)
      BY <1>2 DEF OfferedBucket, OfferedSide, OfferedTo
    <2>2. Packed(OfferedBucket(h))' /\ Holds(buf[h][OfferedSide(h)], OfferedBucket(h))'
      BY <1>1, <1>4, <1>8, <2>1 DEF Packed, Holds
    <2>3. Taken(r)'
      <3>1. next[r].from = offered[h]
        BY <1>5 DEF OfferedBucket
      <3>2. CASE o = BucketSize
        BY <3>1, <3>2, <1>2, <1>3, <1>5, <1>9, <1>10, <2>1, Constants DEF Taken, Reading, h
      <3>3. CASE o # BucketSize
        <4>1. Reading(r)'
          BY <3>3, <1>3, <1>9, Constants DEF Reading
        <4> QED
          BY <4>1, <3>3, <1>2, <1>5, <1>9, <1>10, <2>1 DEF Taken, h
      <3> QED
        BY <3>2, <3>3
    <2> QED
      BY <1>2, <1>4, <2>1, <2>2, <2>3 DEF LinkInv, h
  <1>14. (r < N => LinkInv(r + 1)') /\ (r = N => LastInv')
    <2>1. notes'[r] = notes[r] /\ offered'[r] = offered[r] /\ inbox' = inbox
          /\ cur'[r] = cur[r] /\ side'[r] = side[r] /\ pc'[r] = pc[r]
      BY <1>1, <1>2, <1>10
    <2> QED
      BY <1>8, <1>12, <2>1, BehindFrame
  <1>15. ThreadInv(r)'
    <2>1. cur[r].to < Total /\ pc[r] # "meta"
          /\ next[r].from = cur[r].to /\ next[r].from < next[r].to
          /\ \A i \in 1..xfer[r].moved :
               next[r].from + i <= next[r].to => buf[r][s][i] = next[r].from + i
      BY <1>1, <1>4 DEF ThreadInv, s
    <2>2. next[r].from + o <= next[r].to => x = next[r].from + o
      <3>1. SUFFICES ASSUME next[r].from + o <= next[r].to
                     PROVE  x = next[r].from + o
        OBVIOUS
      <3>2. next[r].from + o \in OfferedBucket(h).from + 1..OfferedBucket(h).to
            /\ (next[r].from + o) - OfferedBucket(h).from = o
        BY <3>1, <1>3, <1>5, Constants
      <3>3. buf[h][OfferedSide(h)][o] = next[r].from + o
        BY <3>2, <1>4 DEF Holds
      <3> QED
        BY <3>3, <1>5 DEF x
    <2>3. ASSUME NEW i \in 1..xfer'[r].moved, next'[r].from + i <= next'[r].to
          PROVE  buf'[r][1 - side'[r]][i] = next'[r].from + i
      <3>1. CASE i = o
        BY <3>1, <1>2, <1>8, <2>2, <2>3 DEF s
      <3>2. CASE i # o
        <4>1. i \in 1..xfer[r].moved /\ i \in Offsets \ {o}
          BY <3>2, <1>2, <1>3, <1>9, Constants DEF o, Offsets
        <4> QED
          BY <4>1, <1>2, <1>8, <2>1, <2>3 DEF s
      <3> QED
        BY <3>1, <3>2
    <2>4. Packed(cur[r])' /\ Packed(next[r])' /\ Holds(buf[r][side[r]], cur[r])'
      BY <1>1, <1>2, <1>8 DEF ThreadInv, Packed, Holds
    <2> QED
      BY <1>1, <1>2, <2>1, <2>3, <2>4 DEF ThreadInv
  <1>16. CopiesInv(r)'
    BY <1>1, <1>2, CopiesFrame
  <1>17. AdapterInv(r)'
    BY <1>1, <1>2, AdapterFrame
  <1> QED
    BY <1>1, <1>11, <1>12, <1>13, <1>14, <1>15, <1>16, <1>17, ElsewhereKeeps

LEMMA SwapBucketsStep ==
  ASSUME TypeOK, RelayInv, NEW r \in Receivers, SwapBuckets(r)
  PROVE  TypeOK' /\ RelayInv'
  <1> DEFINE t == IF next[r].to = Total THEN "work" ELSE "meta"
  <1>1. /\ r \in Ranks /\ r - 1 # r /\ r # 0 /\ r - 1 \in Ranks \ {r} /\ r > 0 /\ r <= N
        /\ LinkInv(r) /\ ThreadInv(r) /\ CopiesInv(r) /\ AdapterInv(r)
    <2>1. r > 0 /\ r <= N
      BY Constants DEF Receivers
    <2> QED
      BY <2>1, ReceiverTypes DEF RelayInv, ReceiverInv
  <1>2. /\ pc[r] = "work" /\ sock[r] = "none" /\ pos[r] = cur[r].to /\ cur[r].to < Total
        /\ ReadByNext(r) /\ xfer[r].moved = BucketSize /\ copies[r] = <<>>
        /\ notes' = [notes EXCEPT ![r] = TakeNote(r)]
        /\ side' = [side EXCEPT ![r] = 1 - side[r]]
        /\ cur' = [cur EXCEPT ![r] = next[r]]
        /\ Offer(r, next[r], 1 - side[r])
        /\ pc' = [pc EXCEPT ![r] = t]
        /\ UNCHANGED <<buf, copies, next, xfer>>
        /\ UNCHANGED <<pos, box, staged, merged, sock, loaded>>
    BY DEF SwapBuckets, AsksForNext, Synchronized, adapter
  <1>3. /\ next[r] \in Interval /\ next[r].from \in 0..Total /\ next[r].to \in 0..Total
        /\ next[r] = [from |-> next[r].from, to |-> next[r].to]
        /\ side[r] \in Sides /\ 1 - side[r] \in Sides /\ cur[r].to \in 0..Total
        /\ cur[r].from \in 0..Total
    BY <1>1, ReceiverTypes, RankTypes
  <1>4. /\ offered' \in [Ranks -> Keys] /\ inbox' \in [Receivers -> Seq(Announcement)]
        /\ \A k \in Ranks \ {r} : offered'[k] = offered[k]
        /\ \A k \in Receivers \ {r + 1} : inbox'[k] = inbox[k]
        /\ r = N => offered' = offered /\ inbox' = inbox
        /\ r < N => /\ offered'[r] = next[r].from
                    /\ inbox'[r + 1] = Append(inbox[r + 1],
                         [from |-> next[r].from, to |-> next[r].to, side |-> 1 - side[r]])
    BY <1>1, <1>2, <1>3, Offers
  <1>5. /\ notes' \in [Ranks -> Seq(Keys)] /\ notes'[r] = TakeNote(r)
        /\ \A k \in Ranks \ {r} : notes'[k] = notes[k]
    BY <1>1, <1>2, NoteTaken
  <1>6. /\ pc \in [Ranks -> Threads] /\ side \in [Ranks -> Sides] /\ cur \in [Ranks -> Interval]
        /\ t \in Threads
    BY DEF TypeOK, BucketTypeOK, Threads
  <1>7. /\ pc' \in [Ranks -> Threads] /\ side' \in [Ranks -> Sides] /\ cur' \in [Ranks -> Interval]
        /\ pc'[r] = t /\ side'[r] = 1 - side[r] /\ cur'[r] = next[r]
        /\ \A k \in Ranks \ {r} : pc'[k] = pc[k] /\ side'[k] = side[k] /\ cur'[k] = cur[k]
    <2> HIDE DEF t
    <2> QED
      BY <1>1, <1>2, <1>3, <1>6
  <1>8. TypeOK'
    BY <1>2, <1>4, <1>5, <1>7 DEF TypeOK, BucketTypeOK
  <1>9. Elsewhere(r)
    BY <1>1, <1>2, <1>4, <1>5, <1>7 DEF Elsewhere
  <1>10. /\ Packed(cur[r]) /\ Packed(next[r]) /\ Cut(pos[r])
         /\ next[r].from = cur[r].to /\ next[r].from < next[r].to
         /\ \A o \in 1..xfer[r].moved :
              next[r].from + o <= next[r].to => buf[r][1 - side[r]][o] = next[r].from + o
    BY <1>1, <1>2 DEF ThreadInv
  <1>11. Holds(buf[r][1 - side[r]], next[r])
    <2> SUFFICES ASSUME NEW u \in next[r].from + 1..next[r].to
                 PROVE  buf[r][1 - side[r]][u - next[r].from] = u
      BY DEF Holds
    <2>1. /\ u - next[r].from \in 1..xfer[r].moved /\ next[r].from + (u - next[r].from) = u
          /\ u <= next[r].to
      BY <1>2, <1>3, <1>10, Constants DEF Packed
    <2> QED
      BY <2>1, <1>10
  <1>12. LinkInv(r)'
    <2>1. ~Unoffered(r) /\ ~Reading(r)
      BY <1>2, <1>3, Constants DEF Unoffered, Reading
    <2>2. r \in Receivers \ {r + 1}
      BY <1>1, Constants DEF Receivers
    <2>3. notes'[r - 1] = notes[r - 1] /\ inbox'[r] = inbox[r]
          /\ xfer'[r] = xfer[r] /\ next'[r] = next[r]
      BY <1>1, <1>2, <1>4, <1>5, <2>2
    <2> QED
      BY <1>9, <2>1, <2>3, AheadFrame
  <1>13. ASSUME r < N
         PROVE  LinkInv(r + 1)'
    <2>1. /\ OfferedTo(r) = cur[r].to /\ OfferedTo(r)' = next[r].to
          /\ OfferedSide(r)' = 1 - side[r] /\ offered'[r] = OfferedTo(r)
      BY <1>1, <1>4, <1>7, <1>10, <1>13 DEF OfferedTo, OfferedSide
    <2>2. TakeNote(r) = <<>>
      BY <1>1, <1>2, <1>13, ReadDone
    <2>3. OfferedBucket(r)' = next[r]
      BY <1>3, <1>4, <1>13, <2>1 DEF OfferedBucket
    <2>4. Holds(buf'[r][OfferedSide(r)'], OfferedBucket(r)')
      BY <1>2, <1>11, <2>1, <2>3
    <2>5. pc'[r] \notin {"tail", "done"}
      BY <1>7
    <2>6. inbox'[r + 1] = Append(inbox[r + 1],
            [from |-> OfferedTo(r), to |-> OfferedTo(r)', side |-> OfferedSide(r)'])
      BY <1>4, <1>10, <1>13, <2>1
    <2>7. notes'[r] = <<>>
      BY <1>5, <2>2
    <2>8. Packed(OfferedBucket(r)') /\ OfferedTo(r) < OfferedTo(r)'
      BY <1>10, <2>1, <2>3
    <2>9. OfferedTo(r) = cur'[r].from
      BY <1>7, <1>10, <2>1
    <2> QED
      BY <1>1, <1>2, <1>9, <1>13, <2>1, <2>4, <2>5, <2>6, <2>7, <2>8, <2>9, NextOffer
  <1>14. ASSUME r = N
         PROVE  LastInv'
    <2>1. offered[N] = NoKey /\ notes[N] = <<>>
      BY DEF RelayInv, LastInv
    <2> QED
      BY <1>4, <1>5, <1>14, <2>1 DEF LastInv, TakeNote
  <1>15. ThreadInv(r)'
    <2>1. Packed(cur[r])' /\ Packed(next[r])' /\ Holds(buf[r][side[r]], cur[r])'
      BY <1>2, <1>7, <1>10, <1>11 DEF Packed, Holds
    <2>2. cur'[r].from <= pos'[r] /\ pos'[r] <= cur'[r].to /\ Cut(pos'[r])
          /\ pos'[r] = cur'[r].from
      BY <1>2, <1>3, <1>7, <1>10
    <2>3. next'[r] = cur'[r] /\ ~Reading(r)'
      BY <1>2, <1>7, Constants DEF Reading
    <2>4. (cur'[r].to = Total /\ pc'[r] = "work") \/ (cur'[r].to < Total /\ pc'[r] = "meta")
      BY <1>3, <1>7, Constants
    <2> QED
      BY <2>1, <2>2, <2>3, <2>4, Constants DEF ThreadInv
  <1>16. CopiesInv(r)'
    <2>1. Len(copies'[r]) = 0
      BY <1>2
    <2> QED
      BY <2>1 DEF CopiesInv
  <1>17. AdapterInv(r)'
    <2>1. pc[r] # "direct" /\ pc'[r] # "direct" /\ pc'[r] # "done" /\ pc'[r] # "tail"
      BY <1>2, <1>7
    <2>2. Held(r)' <=> Held(r)
      BY <1>2, <2>1 DEF Held
    <2>3. WillHold(staged[r], box[r], copies[r], "box")'
      BY <1>1, <1>2 DEF AdapterInv, WillHold, InCopy
    <2> QED
      BY <1>1, <1>2, <2>1, <2>2, <2>3 DEF AdapterInv, Merged, InCopy
  <1> QED
    BY <1>1, <1>8, <1>9, <1>12, <1>13, <1>14, <1>15, <1>16, <1>17, ElsewhereKeeps

LEMMA EndReceiveStep ==
  ASSUME TypeOK, RelayInv, NEW r \in Receivers, EndReceive(r)
  PROVE  TypeOK' /\ RelayInv'
  <1>1. /\ r \in Ranks /\ r - 1 # r /\ r # 0 /\ r - 1 \in Ranks \ {r} /\ r <= N
        /\ ThreadInv(r) /\ CopiesInv(r) /\ AdapterInv(r)
    <2>1. r <= N
      BY Constants DEF Receivers
    <2> QED
      BY <2>1, ReceiverTypes DEF RelayInv, ReceiverInv
  <1>2. /\ pc[r] = "work" /\ sock[r] = "none" /\ pos[r] = cur[r].to /\ cur[r].to = Total
        /\ ReadByNext(r)
        /\ notes' = [notes EXCEPT ![r] = TakeNote(r)]
        /\ pc' = [pc EXCEPT ![r] = "tail"]
        /\ UNCHANGED <<buf, copies, side, cur, inbox, next, xfer, offered>>
        /\ UNCHANGED <<pos, box, staged, merged, sock, loaded>>
    BY DEF EndReceive, AsksForNext, adapter
  <1>3. /\ notes' \in [Ranks -> Seq(Keys)] /\ notes'[r] = TakeNote(r)
        /\ \A k \in Ranks \ {r} : notes'[k] = notes[k]
    BY <1>1, <1>2, NoteTaken
  <1>4. /\ pc' \in [Ranks -> Threads] /\ pc'[r] = "tail"
        /\ \A k \in Ranks \ {r} : pc'[k] = pc[k]
    BY <1>1, <1>2 DEF TypeOK, Threads
  <1>5. TypeOK'
    BY <1>2, <1>3, <1>4 DEF TypeOK, BucketTypeOK
  <1>6. Elsewhere(r)
    BY <1>1, <1>2, <1>3, <1>4 DEF Elsewhere
  <1>7. next[r] = cur[r] /\ ~Reading(r)
    BY <1>1, <1>2, Constants DEF ThreadInv
  <1>8. LinkInv(r)'
    <2>1. ~Unoffered(r)
      BY <1>2 DEF Unoffered
    <2>2. notes'[r - 1] = notes[r - 1]
      BY <1>1, <1>3
    <2> QED
      BY <1>2, <1>6, <1>7, <2>1, <2>2, AheadFrame
  <1>9. ASSUME r < N
        PROVE  LinkInv(r + 1)'
    <2>1. OfferedTo(r) # 0
      BY <1>1, <1>2, Constants DEF OfferedTo
    <2>2. TakeNote(r) = <<>>
      BY <1>1, <1>2, <1>9, ReadDone
    <2> QED
      BY <1>1, <1>2, <1>3, <1>4, <1>6, <1>9, <2>1, <2>2, LastRead
  <1>10. ASSUME r = N
         PROVE  LastInv'
    BY <1>2, <1>3, <1>10 DEF RelayInv, LastInv, TakeNote
  <1>11. ThreadInv(r)'
    <2>1. Packed(cur[r])' /\ Packed(next[r])' /\ Holds(buf[r][side[r]], cur[r])'
          /\ ~Reading(r)'
      BY <1>1, <1>2, <1>7 DEF ThreadInv, Packed, Holds, Reading
    <2> QED
      BY <1>1, <1>2, <1>4, <1>7, <2>1, Constants DEF ThreadInv
  <1>12. CopiesInv(r)'
    BY <1>1, <1>2, CopiesFrame
  <1>13. AdapterInv(r)'
    <2>1. Held(r)' <=> Held(r)
      BY <1>2, <1>4 DEF Held
    <2>2. WillHold(staged[r], box[r], copies[r], "box")'
      BY <1>1, <1>2 DEF AdapterInv, WillHold, InCopy
    <2> QED
      BY <1>1, <1>2, <1>4, <2>1, <2>2 DEF AdapterInv, Merged, InCopy
  <1> QED
    BY <1>1, <1>5, <1>6, <1>8, <1>9, <1>10, <1>11, <1>12, <1>13, ElsewhereKeeps

-----------------------------------------------------------------------------
(* Steps of the adapter *)

\* The chunk that is taken over lies in the bucket.
LEMMA NextChunk ==
  ASSUME TypeOK, RelayInv, NEW r \in Receivers, Takes(r)
  PROVE  /\ pos[r] \in 0..Total - 1 /\ pos[r] \in 0..Total
         /\ ChunkEnd(pos[r]) \in 0..Total /\ ChunkEnd(pos[r]) \in 1..Total
         /\ pos[r] < ChunkEnd(pos[r]) /\ ChunkEnd(pos[r]) <= cur[r].to
         /\ Cut(ChunkEnd(pos[r])) /\ Cut(pos[r])
         /\ cur[r].from <= pos[r]
  <1>1. /\ pos[r] < cur[r].to /\ Cut(pos[r]) /\ cur[r].from <= pos[r] /\ Cut(cur[r].to)
    BY DEF RelayInv, ReceiverInv, ThreadInv, Packed, Takes
  <1>2. pos[r] \in 0..Total /\ cur[r].to \in 0..Total
    BY ReceiverTypes, RankTypes
  <1>3. pos[r] \in 0..Total - 1
    BY <1>1, <1>2, Constants
  <1>4. ChunkEnd(pos[r]) \in 1..Total /\ pos[r] < ChunkEnd(pos[r])
    BY <1>3, Chunk
  <1>5. Cut(ChunkEnd(pos[r]))
    BY <1>1, <1>3, NextCut
  <1>6. ChunkEnd(pos[r]) <= cur[r].to
    BY <1>1, <1>2, <1>3, ChunkIsWhole
  <1>7. ChunkEnd(pos[r]) \in 0..Total
    BY <1>4
  <1> QED
    BY <1>1, <1>2, <1>3, <1>4, <1>5, <1>6, <1>7

LEMMA TakeSmallStep ==
  ASSUME TypeOK, RelayInv, NEW r \in Receivers, TakeSmall(r), UNCHANGED nixlVars
  PROVE  TypeOK' /\ RelayInv'
  <1> DEFINE p == pos[r]
             q == ChunkEnd(p)
  <1>1. /\ r \in Ranks /\ r # 0 /\ ThreadInv(r) /\ CopiesInv(r) /\ AdapterInv(r)
    BY ReceiverTypes DEF RelayInv, ReceiverInv
  <1>2. /\ Takes(r) /\ pc[r] = "work" /\ sock[r] = "none"
        /\ ~IsLarge(p) /\ q - box[r].from <= BucketSize
        /\ QueueCopy(r, p, q, "box", box[r].from)
        /\ pos' = [pos EXCEPT ![r] = q]
        /\ box' = [box EXCEPT ![r].to = q]
        /\ UNCHANGED <<buf, side, cur, inbox, pc, staged, merged, sock, loaded>>
        /\ UNCHANGED <<next, xfer, offered, notes>>
    BY DEF TakeSmall, Takes, nixlVars
  <1>3. /\ p \in 0..Total - 1 /\ p \in 0..Total /\ q \in 0..Total /\ q \in 1..Total
        /\ p < q /\ q <= cur[r].to /\ Cut(q) /\ Cut(p) /\ cur[r].from <= p
    BY <1>2, NextChunk
  <1>4. p = Start(p) /\ q = End(p) /\ p \in Ends \cup {0} /\ q \in Ends
    BY <1>2, <1>3, NextCut, Weight
  <1> HIDE DEF q
  <1>5. /\ box[r].from \in 0..Total /\ box[r].to \in 0..Total
        /\ box[r] = [from |-> box[r].from, to |-> box[r].to]
    BY ReceiverTypes
  <1>6. /\ \A k \in Ranks \ {r} : copies'[k] = copies[k]
        /\ copies' \in [Ranks -> Seq(Copy)]
        /\ Len(copies'[r]) = Len(copies[r]) + 1
        /\ \A i \in 1..Len(copies[r]) : copies'[r][i] = copies[r][i]
        /\ copies'[r][Len(copies[r]) + 1] =
             [from |-> p, to |-> q, side |-> side[r], base |-> cur[r].from,
              into |-> "box", at |-> box[r].from]
    BY <1>1, <1>2, <1>3, <1>5, Queued
  <1>7. pos \in [Receivers -> 0..Total] /\ box \in [Receivers -> Interval]
    BY DEF TypeOK, BucketTypeOK
  <1>8. /\ pos' \in [Receivers -> 0..Total] /\ box' \in [Receivers -> Interval]
        /\ pos'[r] = q /\ box'[r] = [from |-> box[r].from, to |-> q]
        /\ \A k \in Receivers \ {r} : pos'[k] = pos[k] /\ box'[k] = box[k]
    BY <1>2, <1>3, <1>5, <1>7 DEF Interval
  <1>9. TypeOK'
    BY <1>2, <1>6, <1>8 DEF TypeOK, BucketTypeOK
  <1>10. Elsewhere(r)
    BY <1>2, <1>6, <1>8 DEF Elsewhere
  <1>11. LinkInv(r)' /\ (r < N => LinkInv(r + 1)') /\ (r = N => LastInv')
    BY <1>2, <1>10, AheadFrame, BehindFrame
  <1>12. ThreadInv(r)'
    <2>1. Packed(cur[r])' /\ Packed(next[r])' /\ Holds(buf[r][side[r]], cur[r])'
      BY <1>1, <1>2 DEF ThreadInv, Packed, Holds
    <2>2. cur[r].from <= q
      <3>1. cur[r].from \in 0..Total
        BY <1>1, RankTypes
      <3> QED
        BY <3>1, <1>3
    <2> QED
      BY <1>1, <1>2, <1>3, <1>8, <2>1, <2>2 DEF ThreadInv, Reading
  <1>13. ~Held(r) /\ box[r].to = p /\ box[r].from <= p
    BY <1>1, <1>2, <1>4 DEF Held, AdapterInv
  <1>14. CopiesInv(r)'
    <2>1. Len(copies[r]) \in Nat /\ \A i \in 1..Len(copies[r]) : copies[r][i].to \in 0..Total
      BY <1>1, CopyTypes
    <2> SUFFICES ASSUME NEW i \in 1..Len(copies'[r])
                 PROVE  LET c == copies'[r][i] IN
                   /\ c.side = side[r] /\ c.base = cur[r].from
                   /\ cur[r].from <= c.from /\ c.to <= q
                   /\ \/ /\ c.into = "box" /\ c.at = box[r].from
                         /\ box[r].from <= c.from /\ c.to <= q
                      \/ c.into = "merged" /\ c.at = 0
      BY <1>2, <1>8 DEF CopiesInv
    <2>2. CASE i = Len(copies[r]) + 1
      BY <2>2, <1>3, <1>6, <1>13
    <2>3. CASE i \in 1..Len(copies[r])
      <3>1. LET c == copies[r][i] IN
              /\ c.side = side[r] /\ c.base = cur[r].from
              /\ cur[r].from <= c.from /\ c.to <= p
              /\ \/ /\ c.into = "box" /\ c.at = box[r].from
                    /\ box[r].from <= c.from
                 \/ c.into = "merged" /\ c.at = 0
        BY <2>3, <1>1 DEF CopiesInv
      <3>2. copies[r][i].to <= q
        BY <3>1, <2>1, <2>3, <1>3
      <3>3. copies'[r][i] = copies[r][i]
        BY <2>3, <1>6
      <3> QED
        BY <3>1, <3>2, <3>3
    <2> QED
      BY <2>1, <2>2, <2>3, <1>6
  <1>15. AdapterInv(r)'
    <2>1. ~Held(r)'
      BY <1>2, <1>4, <1>8 DEF Held
    <2>2. WillHold(staged[r], box[r], copies[r], "box")'
      <3> SUFFICES ASSUME NEW u \in box[r].from + 1..q, staged[r][u - box[r].from] # u
                   PROVE  \E i \in 1..Len(copies'[r]) :
                            copies'[r][i].into = "box" /\ InCopy(copies'[r][i], u)
        BY <1>2, <1>8 DEF WillHold
      <3>1. u \in Nat /\ (u <= p => u \in box[r].from + 1..box[r].to)
        BY <1>3, <1>5, <1>13
      <3>2. WillHold(staged[r], box[r], copies[r], "box")
        BY <1>1 DEF AdapterInv
      <3>3. \/ p < u /\ u <= q
            \/ \E i \in 1..Len(copies[r]) :
                 copies[r][i].into = "box" /\ InCopy(copies[r][i], u)
        BY <3>1, <3>2, <1>3 DEF WillHold
      <3>4. /\ p \in 0..Total /\ q \in 0..Total /\ p <= q /\ box[r].from \in 0..Total
            /\ QueueCopy(r, p, q, "box", box[r].from)
        BY <1>2, <1>3, <1>5
      <3> HIDE DEF p
      <3> QED
        BY <1>1, <3>1, <3>3, <3>4, QueuedHolds
    <2>3. Merged(r)'
      <3> SUFFICES ASSUME NEW u \in 1..q, IsLarge(u - 1), merged[r][u] # u
                   PROVE  \E i \in 1..Len(copies'[r]) :
                            copies'[r][i].into = "merged" /\ InCopy(copies'[r][i], u)
        BY <1>2, <1>8 DEF Merged
      <3>1. u <= p
        <4> SUFFICES ASSUME u > p PROVE FALSE
          BY <1>3
        <4>1. u - 1 \in 0..Total - 1 /\ p <= u - 1 /\ u - 1 < q
          BY <1>3, Constants
        <4>2. Start(u - 1) = Start(p) /\ End(u - 1) = End(p)
          BY <4>1, <1>3, <1>4, SameWeight
        <4> QED
          BY <4>2, <1>2 DEF IsLarge
      <3>2. PICK i \in 1..Len(copies[r]) : copies[r][i].into = "merged" /\ InCopy(copies[r][i], u)
        <4>1. u \in 1..p
          BY <3>1, <1>3
        <4> QED
          BY <4>1, <1>1 DEF AdapterInv, Merged
      <3>3. copies'[r][i] = copies[r][i] /\ i \in 1..Len(copies'[r])
        BY <1>6, <1>1, CopyTypes
      <3> QED
        BY <3>2, <3>3
    <2>4. box[r].from <= q /\ q > 0
      BY <1>3, <1>5, <1>13
    <2> QED
      BY <1>1, <1>2, <1>4, <1>8, <2>1, <2>2, <2>3, <2>4 DEF AdapterInv
  <1> QED
    BY <1>1, <1>9, <1>10, <1>11, <1>12, <1>14, <1>15, ElsewhereKeeps

LEMMA TakeChunkStep ==
  ASSUME TypeOK, RelayInv, NEW r \in Receivers, TakeChunk(r), UNCHANGED nixlVars
  PROVE  TypeOK' /\ RelayInv'
  <1> DEFINE p == pos[r]
             q == ChunkEnd(p)
             t == IF q \in Ends THEN "direct" ELSE "work"
  <1>1. /\ r \in Ranks /\ r # 0 /\ ThreadInv(r) /\ CopiesInv(r) /\ AdapterInv(r)
    BY ReceiverTypes DEF RelayInv, ReceiverInv
  <1>2. /\ Takes(r) /\ pc[r] = "work" /\ sock[r] = "none"
        /\ IsLarge(p)
        /\ QueueCopy(r, p, q, "merged", 0)
        /\ pos' = [pos EXCEPT ![r] = q]
        /\ pc' = [pc EXCEPT ![r] = t]
        /\ UNCHANGED <<buf, side, cur, inbox, box, staged, merged, sock, loaded>>
        /\ UNCHANGED <<next, xfer, offered, notes>>
    <2>1. pc' = [pc EXCEPT ![r] = IF q \in Ends THEN "direct" ELSE pc[r]] /\ pc[r] = "work"
      BY DEF TakeChunk, Takes
    <2> QED
      BY <2>1 DEF TakeChunk, Takes, nixlVars
  <1>3. /\ p \in 0..Total - 1 /\ p \in 0..Total /\ q \in 0..Total /\ q \in 1..Total
        /\ p < q /\ q <= cur[r].to /\ Cut(q) /\ Cut(p) /\ cur[r].from <= p
    BY <1>2, NextChunk
  <1>4. q <= End(p) /\ Start(p) \in Nat /\ Start(p) \in Ends \cup {0} /\ Start(p) <= p
        /\ End(p) \in Nat
    BY <1>3, Chunk, Weight, WeightTypes
  <1> HIDE DEF q
  <1>5. 0 \in 0..Total
    BY Constants
  <1>6. /\ \A k \in Ranks \ {r} : copies'[k] = copies[k]
        /\ copies' \in [Ranks -> Seq(Copy)]
        /\ Len(copies'[r]) = Len(copies[r]) + 1
        /\ \A i \in 1..Len(copies[r]) : copies'[r][i] = copies[r][i]
        /\ copies'[r][Len(copies[r]) + 1] =
             [from |-> p, to |-> q, side |-> side[r], base |-> cur[r].from,
              into |-> "merged", at |-> 0]
    BY <1>1, <1>2, <1>3, <1>5, Queued
  <1>7. pos \in [Receivers -> 0..Total] /\ pc \in [Ranks -> Threads] /\ t \in Threads
    BY DEF TypeOK, BucketTypeOK, Threads
  <1>8. /\ pos' \in [Receivers -> 0..Total] /\ pc' \in [Ranks -> Threads]
        /\ pos'[r] = q /\ pc'[r] = t
        /\ \A k \in Receivers \ {r} : pos'[k] = pos[k]
        /\ \A k \in Ranks \ {r} : pc'[k] = pc[k]
    <2> HIDE DEF t
    <2> QED
      BY <1>1, <1>2, <1>3, <1>7
  <1>9. TypeOK'
    BY <1>2, <1>6, <1>8 DEF TypeOK, BucketTypeOK
  <1>10. Elsewhere(r)
    BY <1>2, <1>6, <1>8 DEF Elsewhere
  <1>11. LinkInv(r)' /\ (r < N => LinkInv(r + 1)') /\ (r = N => LastInv')
    <2>1. pc'[r] \in {"work", "direct"} /\ ~Unoffered(r)
      BY <1>2, <1>8 DEF Unoffered
    <2> QED
      BY <1>2, <1>10, <2>1, AheadFrame, BehindFrame
  <1>12. ThreadInv(r)'
    <2>1. Packed(cur[r])' /\ Packed(next[r])' /\ Holds(buf[r][side[r]], cur[r])'
      BY <1>1, <1>2 DEF ThreadInv, Packed, Holds
    <2>2. cur[r].from <= q
      <3>1. cur[r].from \in 0..Total
        BY <1>1, RankTypes
      <3> QED
        BY <3>1, <1>3
    <2>3. pc'[r] \in {"work", "direct"}
      BY <1>8
    <2> QED
      BY <1>1, <1>2, <1>3, <1>8, <2>1, <2>2, <2>3 DEF ThreadInv, Reading
  <1>13. CopiesInv(r)'
    <2>1. Len(copies[r]) \in Nat /\ \A i \in 1..Len(copies[r]) : copies[r][i].to \in 0..Total
      BY <1>1, CopyTypes
    <2> SUFFICES ASSUME NEW i \in 1..Len(copies'[r])
                 PROVE  LET c == copies'[r][i] IN
                   /\ c.side = side[r] /\ c.base = cur[r].from
                   /\ cur[r].from <= c.from /\ c.to <= q
                   /\ \/ /\ c.into = "box" /\ c.at = box[r].from
                         /\ box[r].from <= c.from /\ c.to <= box[r].to
                      \/ c.into = "merged" /\ c.at = 0
      BY <1>2, <1>8 DEF CopiesInv
    <2>2. CASE i = Len(copies[r]) + 1
      BY <2>2, <1>3, <1>6
    <2>3. CASE i \in 1..Len(copies[r])
      <3>1. LET c == copies[r][i] IN
              /\ c.side = side[r] /\ c.base = cur[r].from
              /\ cur[r].from <= c.from /\ c.to <= p
              /\ \/ /\ c.into = "box" /\ c.at = box[r].from
                    /\ box[r].from <= c.from /\ c.to <= box[r].to
                 \/ c.into = "merged" /\ c.at = 0
        BY <2>3, <1>1 DEF CopiesInv
      <3>2. copies[r][i].to <= q
        BY <3>1, <2>1, <2>3, <1>3
      <3>3. copies'[r][i] = copies[r][i]
        BY <2>3, <1>6
      <3> QED
        BY <3>1, <3>2, <3>3
    <2> QED
      BY <2>1, <2>2, <2>3, <1>6
  <1>14. box[r].to = Start(p)
    <2>1. CASE Held(r)
      <3>1. /\ p \notin Ends \cup {0} /\ p > 0 /\ box[r].to = Start(p - 1)
        BY <1>1, <1>2, <2>1 DEF Held, AdapterInv
      <3>2. p - 1 \in 0..Total - 1 /\ p - 1 <= p
        BY <3>1, <1>3, Constants
      <3>3. p - 1 < End(p - 1) /\ End(p - 1) \in Ends /\ End(p - 1) \in Nat
        BY <3>2, Weight, WeightTypes
      <3>4. p < End(p - 1)
        BY <3>1, <3>3, <1>3
      <3> QED
        BY <3>1, <3>2, <3>4, <1>3, SameWeight
    <2>2. CASE ~Held(r)
      <3>1. p \in Ends \cup {0} /\ box[r].to = p
        BY <1>1, <2>2 DEF Held, AdapterInv
      <3> QED
        BY <3>1, <1>3, EndsAreCuts, Constants
    <2> QED
      BY <2>1, <2>2
  <1>15. AdapterInv(r)'
    <2>1. Held(r)'
      BY <1>2, <1>3, <1>8 DEF Held
    <2>2. WillHold(staged[r], box[r], copies[r], "box")'
      <3> SUFFICES ASSUME NEW u \in box[r].from + 1..box[r].to, staged[r][u - box[r].from] # u
                   PROVE  \E i \in 1..Len(copies'[r]) :
                            copies'[r][i].into = "box" /\ InCopy(copies'[r][i], u)
        BY <1>2 DEF WillHold
      <3>1. PICK i \in 1..Len(copies[r]) : copies[r][i].into = "box" /\ InCopy(copies[r][i], u)
        BY <1>1 DEF AdapterInv, WillHold
      <3>2. copies'[r][i] = copies[r][i] /\ i \in 1..Len(copies'[r])
        BY <1>6, <1>1, CopyTypes
      <3> QED
        BY <3>1, <3>2
    <2>3. Merged(r)'
      <3> SUFFICES ASSUME NEW u \in 1..q, IsLarge(u - 1), merged[r][u] # u
                   PROVE  \E i \in 1..Len(copies'[r]) :
                            copies'[r][i].into = "merged" /\ InCopy(copies'[r][i], u)
        BY <1>2, <1>8 DEF Merged
      <3>1. u \in Nat /\ (u <= p => u \in 1..p)
        BY <1>3
      <3>2. Merged(r)
        BY <1>1 DEF AdapterInv
      <3>3. \/ p < u /\ u <= q
            \/ \E i \in 1..Len(copies[r]) :
                 copies[r][i].into = "merged" /\ InCopy(copies[r][i], u)
        BY <3>1, <3>2, <1>3 DEF Merged
      <3>4. /\ p \in 0..Total /\ q \in 0..Total /\ p <= q /\ 0 \in 0..Total
            /\ QueueCopy(r, p, q, "merged", 0)
        BY <1>2, <1>3, <1>5
      <3> HIDE DEF p
      <3> QED
        BY <1>1, <3>1, <3>3, <3>4, QueuedHolds
    <2>4. q > 0 /\ IsLarge(q - 1) /\ box[r].to = Start(q - 1)
      <3>1. q - 1 \in 0..Total - 1 /\ p <= q - 1 /\ q - 1 < End(p)
        BY <1>3, <1>4, Constants
      <3>2. Start(q - 1) = Start(p) /\ End(q - 1) = End(p)
        BY <3>1, <1>3, SameWeight
      <3> QED
        BY <3>2, <1>2, <1>3, <1>14 DEF IsLarge
    <2>5. pc'[r] \in {"work", "direct"} /\ (pc'[r] = "direct" => q \in Ends)
      BY <1>8
    <2> QED
      BY <1>1, <1>2, <1>8, <2>1, <2>2, <2>3, <2>4, <2>5 DEF AdapterInv
  <1> QED
    BY <1>1, <1>9, <1>10, <1>11, <1>12, <1>13, <1>15, ElsewhereKeeps

\* A request of the adapter, or the end of its thread, leaves the ranks alone.
LEMMA RequestFrame ==
  ASSUME TypeOK, RelayInv, NEW r \in Receivers, NEW t \in Threads, NEW s \in {"box", "large"},
         pc' = [pc EXCEPT ![r] = t], sock' = [sock EXCEPT ![r] = s],
         UNCHANGED <<buf, copies, side, cur, inbox, pos, box, staged, merged, loaded>>,
         UNCHANGED <<next, xfer, offered, notes>>,
         \/ pc[r] \in {"work", "direct"} /\ t \in {"work", "direct"}
         \/ pc[r] = "tail" /\ t = "done"
  PROVE  /\ TypeOK' /\ pc'[r] = t /\ sock'[r] = s
         /\ AdapterInv(r)' => RelayInv'
  <1>1. /\ r \in Ranks /\ r # 0 /\ ThreadInv(r) /\ CopiesInv(r)
    BY ReceiverTypes DEF RelayInv, ReceiverInv
  <1>2. pc \in [Ranks -> Threads] /\ sock \in [Receivers -> {"none", "box", "large"}]
    BY DEF TypeOK, BucketTypeOK
  <1>3. /\ pc' \in [Ranks -> Threads] /\ sock' \in [Receivers -> {"none", "box", "large"}]
        /\ pc'[r] = t /\ sock'[r] = s
        /\ \A k \in Ranks \ {r} : pc'[k] = pc[k]
        /\ \A k \in Receivers \ {r} : sock'[k] = sock[k]
    BY <1>1, <1>2
  <1>4. TypeOK'
    BY <1>3 DEF TypeOK, BucketTypeOK
  <1>5. Elsewhere(r)
    BY <1>3 DEF Elsewhere
  <1>6. ~Unoffered(r) /\ (Reading(r) => pc'[r] = pc[r] \/ pc'[r] \in {"work", "direct"})
    <2>1. pc[r] = "tail" => ~Reading(r)
      <3>1. pc[r] = "tail" => pos[r] = Total /\ pos[r] <= cur[r].to
        BY <1>1 DEF ThreadInv
      <3>2. cur[r].to \in 0..Total
        BY <1>1, RankTypes
      <3>3. pc[r] = "tail" => ~(cur[r].to < Total)
        BY <3>1, <3>2, Constants
      <3> QED
        BY <3>3, <1>1 DEF ThreadInv
    <2> QED
      BY <1>3, <2>1 DEF Unoffered
  <1>7. LinkInv(r)'
    BY <1>5, <1>6, AheadFrame
  <1>8. (r < N => LinkInv(r + 1)') /\ (r = N => LastInv')
    BY <1>3, <1>5, BehindFrame
  <1>9. ThreadInv(r)'
    <2>1. Packed(cur[r])' /\ Packed(next[r])' /\ Holds(buf[r][side[r]], cur[r])'
      BY <1>1 DEF ThreadInv, Packed, Holds
    <2> QED
      BY <1>1, <1>3, <2>1 DEF ThreadInv, Reading
  <1>10. CopiesInv(r)'
    BY <1>1, CopiesFrame
  <1> QED
    BY <1>1, <1>3, <1>4, <1>5, <1>7, <1>8, <1>9, <1>10, ElsewhereKeeps

LEMMA FlushStep ==
  ASSUME TypeOK, RelayInv, NEW r \in Receivers, Flush(r), UNCHANGED nixlVars
  PROVE  TypeOK' /\ RelayInv'
  <1>1. /\ r \in Ranks /\ AdapterInv(r) /\ pc[r] \in {"work", "direct"}
        /\ sock[r] = "none" /\ copies[r] = <<>>
        /\ sock' = [sock EXCEPT ![r] = "box"]
        /\ UNCHANGED <<buf, copies, side, cur, inbox, pc, pos, box, staged, merged, loaded>>
        /\ UNCHANGED <<next, xfer, offered, notes>>
    BY ReceiverTypes DEF Flush, Takes, Synchronized, RelayInv, ReceiverInv, nixlVars
  <1>2. pc[r] \in Threads /\ pc' = [pc EXCEPT ![r] = pc[r]]
    BY <1>1 DEF TypeOK, Threads
  <1>3. TypeOK' /\ pc'[r] = pc[r] /\ sock'[r] = "box" /\ (AdapterInv(r)' => RelayInv')
    BY <1>1, <1>2, RequestFrame
  <1>4. Held(r)' <=> Held(r)
    BY <1>1, <1>3 DEF Held
  <1>5. WillHold(staged[r], box[r], copies[r], "box")' /\ Merged(r)'
    BY <1>1 DEF AdapterInv, WillHold, InCopy, Merged
  <1>6. AdapterInv(r)'
    BY <1>1, <1>3, <1>4, <1>5 DEF AdapterInv
  <1> QED
    BY <1>3, <1>6

LEMMA SendLargeStep ==
  ASSUME TypeOK, RelayInv, NEW r \in Receivers, SendLarge(r), UNCHANGED nixlVars
  PROVE  TypeOK' /\ RelayInv'
  <1>1. /\ r \in Ranks /\ AdapterInv(r) /\ pc[r] = "direct"
        /\ sock[r] = "none" /\ box[r].from = box[r].to
        /\ sock' = [sock EXCEPT ![r] = "large"] /\ pc' = [pc EXCEPT ![r] = "work"]
        /\ UNCHANGED <<buf, copies, side, cur, inbox, pos, box, staged, merged, loaded>>
        /\ UNCHANGED <<next, xfer, offered, notes>>
    BY ReceiverTypes DEF SendLarge, RelayInv, ReceiverInv, nixlVars
  <1>2. "work" \in Threads
    BY DEF Threads
  <1>3. TypeOK' /\ pc'[r] = "work" /\ sock'[r] = "large" /\ (AdapterInv(r)' => RelayInv')
    BY <1>1, <1>2, RequestFrame
  <1>4. Held(r)' /\ Held(r)
    BY <1>1, <1>3 DEF Held
  <1>5. WillHold(staged[r], box[r], copies[r], "box")' /\ Merged(r)'
    BY <1>1 DEF AdapterInv, WillHold, InCopy, Merged
  <1>6. AdapterInv(r)'
    BY <1>1, <1>3, <1>4, <1>5 DEF AdapterInv
  <1> QED
    BY <1>3, <1>6

LEMMA SendTailStep ==
  ASSUME TypeOK, RelayInv, NEW r \in Receivers, SendTail(r), UNCHANGED nixlVars
  PROVE  TypeOK' /\ RelayInv'
  <1>1. /\ r \in Ranks /\ ThreadInv(r) /\ AdapterInv(r) /\ pc[r] = "tail" /\ copies[r] = <<>>
        /\ sock' = [sock EXCEPT ![r] = "box"] /\ pc' = [pc EXCEPT ![r] = "done"]
        /\ UNCHANGED <<buf, copies, side, cur, inbox, pos, box, staged, merged, loaded>>
        /\ UNCHANGED <<next, xfer, offered, notes>>
    BY ReceiverTypes DEF SendTail, Synchronized, RelayInv, ReceiverInv, nixlVars
  <1>2. "done" \in Threads
    BY DEF Threads
  <1>3. TypeOK' /\ pc'[r] = "done" /\ sock'[r] = "box" /\ (AdapterInv(r)' => RelayInv')
    BY <1>1, <1>2, RequestFrame
  <1>4. sock[r] # "large"
    BY <1>1 DEF AdapterInv
  <1>5. Held(r)' <=> Held(r)
    BY <1>1, <1>3, <1>4 DEF Held
  <1>6. WillHold(staged[r], box[r], copies[r], "box")' /\ Merged(r)'
    BY <1>1 DEF AdapterInv, WillHold, InCopy, Merged
  <1>7. AdapterInv(r)'
    BY <1>1, <1>3, <1>4, <1>5, <1>6 DEF AdapterInv
  <1> QED
    BY <1>3, <1>7

-----------------------------------------------------------------------------
(* Steps of the inference worker and of the devices *)

\* The units up to a, followed by those from a to b.
LEMMA Grown ==
  ASSUME NEW a \in Nat, NEW b \in Nat, a <= b
  PROVE  [i \in 1..a |-> i] \o [i \in 1..b - a |-> a + i] = [i \in 1..b |-> i]
  <1> DEFINE s == [i \in 1..a |-> i]
             t == [i \in 1..b - a |-> a + i]
             w == [i \in 1..b |-> i]
  <1>1. s \in [1..a -> Nat] /\ t \in [1..b - a -> Nat] /\ w \in [1..b -> Nat] /\ b - a \in Nat
    OBVIOUS
  <1>2. s \in Seq(Nat) /\ t \in Seq(Nat) /\ w \in Seq(Nat)
    <2>1. \A n \in Nat : [1..n -> Nat] \subseteq Seq(Nat)
      BY SeqDef
    <2> QED
      BY <1>1, <2>1
  <1>3. Len(s) = a /\ Len(t) = b - a /\ Len(w) = b
    BY <1>1, <1>2, LenProperties
  <1>4. s \o t \in Seq(Nat) /\ Len(s \o t) = b
    BY <1>2, <1>3, ConcatProperties
  <1>5. ASSUME NEW i \in 1..b
        PROVE  (s \o t)[i] = w[i]
    <2>1. (s \o t)[i] = IF i <= Len(s) THEN s[i] ELSE t[i - Len(s)]
      <3> HIDE DEF s, t
      <3> QED
        BY <1>2, <1>3, <1>5
    <2>2. CASE i <= a
      BY <2>1, <2>2, <1>3
    <2>3. CASE ~(i <= a)
      <3>1. i - a \in 1..b - a /\ a + (i - a) = i
        BY <2>3
      <3>2. (s \o t)[i] = t[i - a]
        BY <2>1, <2>3, <1>3
      <3> QED
        BY <3>1, <3>2
    <2> QED
      BY <2>2, <2>3
  <1> HIDE DEF s, t, w
  <1>6. s \o t = w
    BY <1>2, <1>3, <1>4, <1>5, SeqEqual
  <1> QED
    BY <1>6 DEF s, t, w

\* Units between the start of a weight and one of its units are its own.
LEMMA InWeight ==
  ASSUME NEW p \in 0..Total - 1, NEW q \in 0..Total - 1, Start(p) <= q, q <= p
  PROVE  Start(q) = Start(p) /\ End(q) = End(p)
  <1> DEFINE s == Start(p)
  <1>1. /\ s \in Ends \cup {0} /\ s <= p /\ \A f \in Ends : f <= p => f <= s
        /\ s \in Nat
    BY Weight, WeightTypes
  <1>2. s \in 0..Total - 1 /\ p \in Nat
    BY <1>1, Constants
  <1> HIDE DEF s
  <1>3. End(s) \in Ends /\ s < End(s) /\ End(s) \in Nat
    BY <1>2, Weight, WeightTypes
  <1>4. p < End(s) /\ q < End(s)
    BY <1>1, <1>2, <1>3, Constants
  <1>5. Start(p) = Start(s) /\ End(p) = End(s)
    BY <1>1, <1>2, <1>4, SameWeight
  <1>6. Start(q) = Start(s) /\ End(q) = End(s)
    BY <1>2, <1>4, SameWeight DEF s
  <1> QED
    BY <1>5, <1>6

LEMMA LoadStep ==
  ASSUME TypeOK, RelayInv, NEW r \in Receivers, Load(r), UNCHANGED nixlVars
  PROVE  /\ TypeOK' /\ RelayInv'
         /\ box[r].from <= box'[r].from
         /\ \A k \in Receivers \ {r} : loaded'[k] = loaded[k]
  <1> DEFINE small == [i \in 1..box[r].to - box[r].from |-> staged[r][i]]
             large == [i \in 1..pos[r] - box[r].to |-> merged[r][box[r].to + i]]
             e == IF sock[r] = "box" THEN box[r].to ELSE pos[r]
  <1>1. /\ r \in Ranks /\ r # 0 /\ ThreadInv(r) /\ CopiesInv(r) /\ AdapterInv(r)
    BY ReceiverTypes DEF RelayInv, ReceiverInv
  <1>2. /\ UNCHANGED <<buf, copies, side, cur, inbox, pc, pos, staged, merged>>
        /\ UNCHANGED <<next, xfer, offered, notes>>
        /\ sock' = [sock EXCEPT ![r] = "none"]
        /\ sock[r] \in {"box", "large"}
    BY DEF Load, nixlVars
  <1>3. /\ box[r].from \in 0..Total /\ box[r].to \in 0..Total /\ pos[r] \in 0..Total
        /\ box[r].from \in Nat /\ box[r].to \in Nat /\ pos[r] \in Nat
        /\ box[r].from <= box[r].to /\ box[r].to - box[r].from <= BucketSize
        /\ box[r].from \in Ends \cup {0} /\ box[r].to \in Ends \cup {0}
        /\ loaded[r] = [i \in 1..box[r].from |-> i]
    <2>1. /\ box[r].from \in 0..Total /\ box[r].to \in 0..Total /\ pos[r] \in 0..Total
      BY ReceiverTypes
    <2> QED
      BY <1>1, <2>1, Constants DEF AdapterInv
  <1>4. copies[r] = <<>> /\ Len(copies[r]) = 0
    <2>1. sock[r] = "large" => copies[r] = <<>>
      BY DEF Load, Synchronized
    <2>2. sock[r] = "box" => copies[r] = <<>>
      BY <1>1 DEF AdapterInv
    <2> QED
      BY <1>2, <2>1, <2>2
  <1>5. /\ e \in Ends \cup {0} /\ box[r].from <= e /\ box[r].to <= e
        /\ sock[r] = "box" => e = box[r].to
        /\ sock[r] = "large" => /\ e = pos[r] /\ pos[r] \in Ends /\ pc[r] = "work"
                               /\ box[r].from = box[r].to /\ pos[r] > 0
                               /\ IsLarge(pos[r] - 1) /\ box[r].to = Start(pos[r] - 1)
    <2>1. CASE sock[r] = "box"
      BY <2>1, <1>3
    <2>2. CASE sock[r] = "large"
      <3>1. /\ pos[r] \in Ends /\ pc[r] = "work" /\ box[r].from = box[r].to /\ pos[r] > 0
            /\ IsLarge(pos[r] - 1) /\ box[r].to = Start(pos[r] - 1)
        BY <2>2, <1>1 DEF AdapterInv, Held
      <3>2. pos[r] - 1 \in 0..Total - 1
        BY <3>1, <1>3, Constants
      <3>3. box[r].to <= pos[r]
        BY <3>1, <3>2, <1>3, Weight
      <3> QED
        BY <2>2, <3>1, <3>3
    <2> QED
      BY <1>2, <2>1, <2>2
  <1> HIDE DEF e
  <1>6. e \in 0..Total /\ e \in Nat
    BY <1>5, Constants
  <1>7. /\ sock[r] = "box" => small = [i \in 1..e - box[r].from |-> box[r].from + i]
        /\ sock[r] = "large" => large = [i \in 1..e - box[r].from |-> box[r].from + i]
    <2>1. ASSUME sock[r] = "box", NEW i \in 1..box[r].to - box[r].from
          PROVE  staged[r][i] = box[r].from + i
      <3>1. /\ box[r].from + i \in box[r].from + 1..box[r].to
            /\ (box[r].from + i) - box[r].from = i
        BY <1>3
      <3>2. WillHold(staged[r], box[r], copies[r], "box")
        BY <1>1 DEF AdapterInv
      <3> QED
        BY <3>1, <3>2, <1>4 DEF WillHold
    <2>2. ASSUME sock[r] = "large", NEW i \in 1..pos[r] - box[r].to
          PROVE  merged[r][box[r].to + i] = box[r].to + i
      <3> DEFINE u == box[r].to + i
      <3>1. u \in 1..pos[r] /\ u - 1 \in 0..Total - 1 /\ pos[r] - 1 \in 0..Total - 1
            /\ box[r].to <= u - 1 /\ u - 1 <= pos[r] - 1
        <4>1. u \in Nat /\ u >= box[r].to + 1 /\ u <= pos[r] /\ u >= 1
          BY <1>3
        <4>2. pos[r] <= Total /\ Total \in Nat
          BY <1>3, Constants
        <4> HIDE DEF u
        <4> QED
          BY <4>1, <4>2, <1>3
      <3> HIDE DEF u
      <3>2. Start(u - 1) = Start(pos[r] - 1) /\ End(u - 1) = End(pos[r] - 1)
        BY <3>1, <2>2, <1>5, InWeight
      <3>3. IsLarge(u - 1)
        BY <3>2, <2>2, <1>5 DEF IsLarge
      <3>4. merged[r][u] = u
        BY <3>1, <3>3, <1>1, <1>4 DEF AdapterInv, Merged
      <3> QED
        BY <3>4 DEF u
    <2>3. CASE sock[r] = "box"
      BY <2>1, <2>3, <1>5
    <2>4. CASE sock[r] = "large"
      BY <2>2, <2>4, <1>5
    <2> QED
      BY <1>2, <2>3, <2>4
  <1>8. /\ loaded' = [loaded EXCEPT ![r] =
             loaded[r] \o [i \in 1..e - box[r].from |-> box[r].from + i]]
        /\ box' = [box EXCEPT ![r] = Empty(e)]
    <2>1. CASE sock[r] = "box"
      <3>1. loaded' = [loaded EXCEPT ![r] = loaded[r] \o small]
            /\ box' = [box EXCEPT ![r] = Empty(box[r].to)]
        BY <2>1 DEF Load
      <3> HIDE DEF small
      <3> QED
        BY <2>1, <3>1, <1>5, <1>7
    <2>2. CASE sock[r] = "large"
      <3>1. loaded' = [loaded EXCEPT ![r] = loaded[r] \o large]
            /\ box' = [box EXCEPT ![r] = Empty(pos[r])]
        BY <2>2 DEF Load
      <3> HIDE DEF large
      <3> QED
        BY <2>2, <3>1, <1>5, <1>7
    <2> QED
      BY <1>2, <2>1, <2>2
  <1>9. loaded[r] \o [i \in 1..e - box[r].from |-> box[r].from + i] = [i \in 1..e |-> i]
    <2>1. [i \in 1..box[r].from |-> i] \o [i \in 1..e - box[r].from |-> box[r].from + i]
            = [i \in 1..e |-> i]
      BY <1>3, <1>5, <1>6, Grown, Zenon
    <2> QED
      BY <2>1, <1>3, Zenon
  <1> HIDE DEF small, large
  <1>10. /\ loaded \in [Receivers -> Seq(Contents)] /\ box \in [Receivers -> Interval]
         /\ sock \in [Receivers -> {"none", "box", "large"}]
    BY DEF TypeOK, BucketTypeOK
  <1>11. [i \in 1..e |-> i] \in Seq(Contents) /\ Empty(e) \in Interval
    <2>1. [i \in 1..e |-> i] \in [1..e -> Contents]
      BY <1>6, Constants DEF Contents
    <2>2. [i \in 1..e |-> i] \in Seq(Contents)
      BY <2>1, <1>6, SeqDef
    <2> QED
      BY <2>2, <1>6 DEF Empty, Interval
  <1>12. /\ loaded' \in [Receivers -> Seq(Contents)] /\ box' \in [Receivers -> Interval]
         /\ sock' \in [Receivers -> {"none", "box", "large"}]
         /\ loaded'[r] = [i \in 1..e |-> i] /\ box'[r] = Empty(e) /\ sock'[r] = "none"
         /\ \A k \in Receivers \ {r} :
              loaded'[k] = loaded[k] /\ box'[k] = box[k] /\ sock'[k] = sock[k]
    BY <1>2, <1>8, <1>9, <1>10, <1>11
  <1>13. TypeOK'
    BY <1>2, <1>12 DEF TypeOK, BucketTypeOK
  <1>14. Elsewhere(r)
    BY <1>2, <1>12 DEF Elsewhere
  <1>15. LinkInv(r)' /\ (r < N => LinkInv(r + 1)') /\ (r = N => LastInv')
    BY <1>2, <1>14, AheadFrame, BehindFrame
  <1>16. ThreadInv(r)'
    BY <1>1, <1>2, ThreadFrame
  <1>17. CopiesInv(r)'
    <2>1. Len(copies'[r]) = 0
      BY <1>2, <1>4
    <2> QED
      BY <2>1 DEF CopiesInv
  <1>18. box'[r].from = e /\ box'[r].to = e
    BY <1>12 DEF Empty
  <1>19. AdapterInv(r)'
    <2>1. Held(r)' <=> pc[r] = "direct" \/ pos[r] \notin Ends \cup {0}
      BY <1>2, <1>12 DEF Held
    <2>4. WillHold(staged[r], box[r], copies[r], "box")'
      BY <1>6, <1>18 DEF WillHold
    <2>5. Merged(r)'
      BY <1>1, <1>2 DEF AdapterInv, Merged, InCopy
    <2>6. /\ loaded'[r] = [i \in 1..box'[r].from |-> i] /\ sock'[r] = "none"
          /\ box'[r].from <= box'[r].to /\ box'[r].to - box'[r].from <= BucketSize
          /\ box'[r].to \in Ends \cup {0} /\ box'[r].from \in Ends \cup {0}
          /\ pc'[r] = "direct" \/ sock'[r] = "large" => pos'[r] \in Ends
      BY <1>1, <1>2, <1>5, <1>6, <1>12, <1>18, Constants DEF AdapterInv
    <2>2. CASE sock[r] = "box"
      <3>1. Held(r)' <=> Held(r)
        BY <2>1, <2>2 DEF Held
      <3>2. box'[r].to = box[r].to
        BY <2>2, <1>5, <1>18
      <3>3. /\ Held(r)' => pos'[r] > 0 /\ IsLarge(pos'[r] - 1) /\ box'[r].to = Start(pos'[r] - 1)
            /\ ~Held(r)' => box'[r].to = pos'[r]
        BY <3>1, <3>2, <1>1, <1>2 DEF AdapterInv
      <3>4. pc'[r] = "done" => box'[r].from = Total
        <4>1. pc[r] = "done" => pos[r] = Total
          BY <1>1 DEF ThreadInv
        <4>2. pc'[r] = "done" => ~Held(r)'
          BY <4>1, <2>1, <1>2, Constants
        <4> QED
          BY <4>1, <4>2, <3>3, <1>2, <1>18
      <3> QED
        BY <3>3, <3>4, <2>4, <2>5, <2>6 DEF AdapterInv
    <2>3. CASE sock[r] = "large"
      <3>1. ~Held(r)' /\ pc'[r] # "done" /\ box'[r].to = pos'[r]
        BY <2>1, <2>3, <1>2, <1>5, <1>18
      <3> QED
        BY <3>1, <2>4, <2>5, <2>6 DEF AdapterInv
    <2> QED
      BY <1>2, <2>2, <2>3
  <1> QED
    BY <1>1, <1>5, <1>12, <1>13, <1>14, <1>15, <1>16, <1>17, <1>18, <1>19, ElsewhereKeeps

\* The first copy of a queue, and those behind it.
LEMMA FirstCopy ==
  ASSUME TypeOK, NEW r \in Ranks, copies[r] # <<>>
  PROVE  /\ Head(copies[r]) = copies[r][1] /\ Len(copies[r]) \in Nat /\ 1 \in 1..Len(copies[r])
         /\ Head(copies[r]) \in Copy
         /\ Tail(copies[r]) \in Seq(Copy) /\ Len(Tail(copies[r])) = Len(copies[r]) - 1
         /\ \A i \in 1..Len(Tail(copies[r])) :
              i + 1 \in 1..Len(copies[r]) /\ Tail(copies[r])[i] = copies[r][i + 1]
  <1>1. copies[r] \in Seq(Copy)
    BY RankTypes
  <1>2. /\ Head(copies[r]) \in Copy
        /\ Tail(copies[r]) \in Seq(Copy)
        /\ Len(Tail(copies[r])) = Len(copies[r]) - 1
        /\ \A i \in 1..Len(Tail(copies[r])) : Tail(copies[r])[i] = copies[r][i + 1]
    BY <1>1, HeadTailProperties
  <1>3. Len(copies[r]) \in Nat \ {0}
    BY <1>1, EmptySeq
  <1>4. Head(copies[r]) = copies[r][1]
    BY <1>1
  <1> QED
    BY <1>2, <1>3, <1>4

\* A copy of queue q brings unit u to the memory named into.
Brings(q, into, u) == \E i \in 1..Len(q) : q[i].into = into /\ InCopy(q[i], u)

\* A unit that a queued copy brings is brought by the first or by a later one.
LEMMA FirstOrLater ==
  ASSUME TypeOK, NEW r \in Ranks, copies[r] # <<>>, NEW u, NEW into, NEW c, c = Head(copies[r])
  PROVE  Brings(copies[r], into, u)
           => (c.into = into /\ InCopy(c, u)) \/ Brings(Tail(copies[r]), into, u)
  <1> SUFFICES ASSUME Brings(copies[r], into, u)
               PROVE  \/ c.into = into /\ InCopy(c, u)
                      \/ \E i \in 1..Len(Tail(copies[r])) :
                           Tail(copies[r])[i].into = into /\ InCopy(Tail(copies[r])[i], u)
    BY DEF Brings
  <1>1. PICK i \in 1..Len(copies[r]) : copies[r][i].into = into /\ InCopy(copies[r][i], u)
    BY DEF Brings
  <1>2. CASE i = 1
    BY <1>1, <1>2, FirstCopy
  <1>3. CASE i # 1
    <2>1. i - 1 \in 1..Len(Tail(copies[r])) /\ (i - 1) + 1 = i
      BY <1>3, FirstCopy
    <2>2. Tail(copies[r])[i - 1] = copies[r][i]
      BY <2>1, FirstCopy
    <2> QED
      BY <1>1, <2>1, <2>2
  <1> QED
    BY <1>2, <1>3

\* Copy c wrote the units it names over f, a function on S, and gave g.
Brought(g, f, c, S) ==
  /\ g \in [S -> Contents]
  /\ \A o \in S : InCopy(c, o + c.at) => g[o] = o + c.at
  /\ \A o \in S : ~InCopy(c, o + c.at) => g[o] = f[o]

\* A copy brings the units it names.
LEMMA CopyBrings ==
  ASSUME TypeOK, RelayInv, NEW r \in Ranks, copies[r] # <<>>,
         NEW S, S \subseteq Nat, NEW f, f \in [S -> Contents]
  PROVE  Brought(Filled(f, Head(copies[r]), Source(r, Head(copies[r]))), f, Head(copies[r]), S)
  <1> DEFINE c == Head(copies[r])
             g == Filled(f, c, Source(r, c))
  <1>1. /\ c = copies[r][1] /\ 1 \in 1..Len(copies[r]) /\ c \in Copy
        /\ c.from \in 0..Total /\ c.to \in 0..Total /\ c.at \in 0..Total /\ c.base \in 0..Total
    <2>1. c = copies[r][1] /\ 1 \in 1..Len(copies[r]) /\ c \in Copy
      BY FirstCopy
    <2> QED
      BY <2>1 DEF Copy
  <1>2. c.from \in Nat /\ c.to \in Nat /\ c.at \in Nat /\ c.base \in Nat /\ c.to <= Total
        /\ Total \in Nat
    BY <1>1, Constants
  <1> HIDE DEF c
  <1>3. ASSUME NEW u \in c.from + 1..c.to
        PROVE  Source(r, c)[u] = u
    <2>1. CASE r = 0
      BY <2>1, <1>3 DEF Source
    <2>2. CASE r # 0
      <3>1. r \in Receivers
        BY <2>2, Constants DEF Receivers, Ranks
      <3>2. ThreadInv(r) /\ CopiesInv(r)
        BY <3>1 DEF RelayInv, ReceiverInv
      <3>3. /\ c.side = side[r] /\ c.base = cur[r].from /\ cur[r].from <= c.from
            /\ c.to <= pos[r]
        BY <1>1, <3>2 DEF CopiesInv
      <3>4. pos[r] <= cur[r].to /\ Holds(buf[r][side[r]], cur[r])
        BY <3>2 DEF ThreadInv
      <3>5. pos[r] \in 0..Total /\ cur[r].to \in 0..Total /\ cur[r].from \in 0..Total
        BY <3>1, ReceiverTypes, RankTypes
      <3>6. u \in cur[r].from + 1..cur[r].to
        <4>1. u \in Nat /\ c.from + 1 <= u /\ u <= c.to
          BY <1>2, <1>3
        <4>2. /\ cur[r].from \in Nat /\ cur[r].to \in Nat /\ pos[r] \in Nat
              /\ cur[r].from <= c.from /\ c.to <= pos[r] /\ pos[r] <= cur[r].to
          BY <1>2, <3>3, <3>4, <3>5
        <4>3. \A v, a, b, d, e, p \in Nat :
                a <= b /\ b + 1 <= v /\ v <= d /\ d <= p /\ p <= e => v \in a + 1..e
          OBVIOUS
        <4> QED
          BY <1>2, <4>1, <4>2, <4>3
      <3>7. buf[r][c.side][u - c.base] = u
        BY <3>3, <3>4, <3>6 DEF Holds
      <3> QED
        BY <2>2, <3>7, <1>3 DEF Source
    <2> QED
      BY <2>1, <2>2
  <1>4. ASSUME NEW o \in S
        PROVE  /\ InCopy(c, o + c.at) => g[o] = o + c.at
               /\ ~InCopy(c, o + c.at) => g[o] = f[o]
               /\ g[o] \in Contents
    <2>1. g[o] = IF o + c.at \in c.from + 1..c.to THEN Source(r, c)[o + c.at] ELSE f[o]
      BY DEF Filled
    <2>2. o \in Nat /\ f[o] \in Contents
      OBVIOUS
    <2>3. o + c.at \in c.from + 1..c.to <=> InCopy(c, o + c.at)
      BY <2>2, <1>2 DEF InCopy
    <2>4. o + c.at \in c.from + 1..c.to => o + c.at \in Contents
      BY <2>2, <1>2 DEF Contents
    <2> HIDE DEF g
    <2> QED
      BY <2>1, <2>2, <2>3, <2>4, <1>3
  <1>5. g \in [S -> Contents]
    <2>1. DOMAIN g = S /\ g = [o \in DOMAIN g |-> g[o]]
      BY DEF Filled
    <2> HIDE DEF g
    <2> QED
      BY <2>1, <1>4
  <1> HIDE DEF g
  <1>6. /\ g \in [S -> Contents]
        /\ \A o \in S : InCopy(c, o + c.at) => g[o] = o + c.at
        /\ \A o \in S : ~InCopy(c, o + c.at) => g[o] = f[o]
    BY <1>4, <1>5
  <1>7. Brought(g, f, c, S)
    BY <1>6 DEF Brought
  <1> QED
    BY <1>7 DEF c, g

\* What a copy does to the queue.
LEMMA CopyLeaves ==
  ASSUME TypeOK, NEW r \in Ranks, copies[r] # <<>>,
         copies' = [copies EXCEPT ![r] = Tail(copies[r])]
  PROVE  /\ copies' \in [Ranks -> Seq(Copy)] /\ copies'[r] = Tail(copies[r])
         /\ \A k \in Ranks \ {r} : copies'[k] = copies[k]
  <1>1. copies \in [Ranks -> Seq(Copy)] /\ Tail(copies[r]) \in Seq(Copy)
    BY FirstCopy DEF TypeOK, BucketTypeOK
  <1> QED
    BY <1>1

LEMMA TrainerCopyStep ==
  ASSUME TypeOK, RelayInv, ExecuteCopy(0), UNCHANGED nixlVars
  PROVE  TypeOK' /\ RelayInv'
  <1> DEFINE c == Head(copies[0])
             s == side[0]
             g == Filled(buf[0][s], c, Source(0, c))
             at == cur[0].from
  <1>1. 0 \in Ranks /\ 0 < N /\ 0 \in Nat /\ TrainerInv /\ at \in 0..Total /\ cur[0].to \in 0..Total
        /\ s \in Sides /\ at \in Nat /\ cur[0].to \in Nat
    <2>1. 0 \in Ranks /\ 0 < N /\ 0 \in Nat
      BY Constants DEF Ranks
    <2>2. at \in 0..Total /\ cur[0].to \in 0..Total /\ s \in Sides
      BY <2>1, RankTypes
    <2> QED
      BY <2>1, <2>2, Constants DEF RelayInv
  <1>2. copies[0] # <<>> /\ copies' = [copies EXCEPT ![0] = Tail(copies[0])]
        /\ UNCHANGED <<side, cur, inbox, pc, pos, box, sock, loaded>>
        /\ UNCHANGED <<next, xfer, offered, notes>>
    BY DEF ExecuteCopy, nixlVars
  <1>3. c = copies[0][1] /\ 1 \in 1..Len(copies[0])
    BY <1>1, <1>2, FirstCopy
  <1>4. c.into = "buffer" /\ c.side = s /\ c.at = at
    BY <1>1, <1>3 DEF TrainerInv
  <1>5. buf' = [buf EXCEPT ![0][s] = g] /\ UNCHANGED <<staged, merged>>
    BY <1>4 DEF ExecuteCopy
  <1>6. buf \in [Ranks -> [Sides -> [Offsets -> Contents]]] /\ Offsets \subseteq Nat
        /\ buf[0][s] \in [Offsets -> Contents]
    BY <1>1 DEF TypeOK, BucketTypeOK, Offsets
  <1>7. /\ g \in [Offsets -> Contents]
        /\ \A o \in Offsets : InCopy(c, o + c.at) => g[o] = o + c.at
        /\ \A o \in Offsets : ~InCopy(c, o + c.at) => g[o] = buf[0][s][o]
    <2>1. 0 \in Ranks /\ copies[0] # <<>> /\ Offsets \subseteq Nat
      BY <1>1, <1>2, <1>6
    <2>2. buf[0][s] \in [Offsets -> Contents]
      BY <1>6
    <2>3. Brought(g, buf[0][s], c, Offsets)
      BY <2>1, <2>2, CopyBrings
    <2> HIDE DEF c, g
    <2> QED
      BY <2>3 DEF Brought
  <1> HIDE DEF g, c, s, at
  <1>8. /\ copies' \in [Ranks -> Seq(Copy)] /\ copies'[0] = Tail(copies[0])
        /\ \A k \in Ranks \ {0} : copies'[k] = copies[k]
    BY <1>1, <1>2, CopyLeaves
  <1>9. /\ buf' \in [Ranks -> [Sides -> [Offsets -> Contents]]]
        /\ \A k \in Ranks \ {0} : buf'[k] = buf[k]
        /\ buf'[0][s] = g /\ \A z \in Sides \ {s} : buf'[0][z] = buf[0][z]
    <2> DEFINE b == [buf[0] EXCEPT ![s] = g]
    <2>1. /\ b \in [Sides -> [Offsets -> Contents]] /\ b[s] = g
          /\ \A z \in Sides \ {s} : b[z] = buf[0][z]
      BY <1>1, <1>6, <1>7
    <2>2. buf' = [buf EXCEPT ![0] = b]
      BY <1>5
    <2> HIDE DEF b
    <2> QED
      BY <1>1, <1>6, <2>1, <2>2
  <1>10. TypeOK'
    BY <1>2, <1>5, <1>8, <1>9 DEF TypeOK, BucketTypeOK
  <1>11. Elsewhere(0)
    BY <1>2, <1>5, <1>8, <1>9 DEF Elsewhere
  <1>12. TrainerInv'
    <2>1. ASSUME NEW i \in 1..Len(copies'[0])
          PROVE  /\ copies'[0][i].into = "buffer" /\ copies'[0][i].side = side'[0]
                 /\ copies'[0][i].base = cur'[0].from /\ copies'[0][i].at = cur'[0].from
                 /\ cur'[0].from <= copies'[0][i].from /\ copies'[0][i].to <= cur'[0].to
      <3>1. i + 1 \in 1..Len(copies[0]) /\ copies'[0][i] = copies[0][i + 1]
        BY <1>1, <1>2, <1>8, FirstCopy
      <3> QED
        BY <3>1, <1>1, <1>2 DEF TrainerInv
    <2>2. WillHold(buf'[0][side'[0]], cur'[0], copies'[0], "buffer")
      <3> SUFFICES ASSUME NEW u \in at + 1..cur[0].to
                   PROVE  \/ g[u - at] = u
                          \/ \E i \in 1..Len(Tail(copies[0])) :
                               Tail(copies[0])[i].into = "buffer" /\ InCopy(Tail(copies[0])[i], u)
        BY <1>2, <1>8, <1>9 DEF WillHold, at, s
      <3>1. /\ u \in Nat /\ u - at \in Offsets /\ (u - at) + c.at = u
        <4>1. cur[0].to - at <= BucketSize
          BY <1>1 DEF TrainerInv, Packed, at
        <4> QED
          BY <4>1, <1>1, <1>4, Constants DEF Offsets
      <3> DEFINE mine == c.into = "buffer" /\ InCopy(c, u)
                 now == Brings(copies[0], "buffer", u)
                 later == Brings(Tail(copies[0]), "buffer", u)
      <3>2. g[u - at] = IF mine THEN u ELSE buf[0][s][u - at]
        BY <3>1, <1>4, <1>7 DEF InCopy
      <3>3. buf[0][s][u - at] = u \/ now
        BY <1>1 DEF TrainerInv, WillHold, Brings, at, s
      <3>4. now => mine \/ later
        <4>1. 0 \in Ranks /\ copies[0] # <<>> /\ c = Head(copies[0])
          BY <1>1, <1>2 DEF c
        <4> HIDE DEF c
        <4> QED
          BY <4>1, FirstOrLater
      <3> HIDE DEF mine, now, later
      <3>5. g[u - at] = u \/ later
        BY <3>2, <3>3, <3>4
      <3> QED
        BY <3>5 DEF later, Brings
    <2>3. pc[0] = "fill"
      BY <1>1, <1>2 DEF TrainerInv
    <2>4. Packed(cur[0])'
      BY <1>1, <1>2 DEF TrainerInv, Packed
    <2> QED
      BY <1>1, <1>2, <2>1, <2>2, <2>3, <2>4 DEF TrainerInv
  <1>13. LinkInv(1)'
    <2>1. 1 \in Receivers /\ 1 - 1 = 0 /\ 1 \in Ranks \ {0} /\ LinkInv(1)
      BY Constants DEF Receivers, Ranks, RelayInv
    <2>2. OfferedTo(0)' = OfferedTo(0) /\ OfferedSide(0)' = OfferedSide(0)
      BY <1>2 DEF OfferedTo, OfferedSide
    <2>3. OfferedSide(0) \in Sides \ {s}
      BY <1>1, RankTypes DEF OfferedSide, s
    <2>4. buf'[0][OfferedSide(0)] = buf[0][OfferedSide(0)]
      BY <1>9, <2>3
    <2> QED
      BY <2>1, <2>2, <2>4, <1>2, LinkFrame
  <1> QED
    BY <1>1, <1>10, <1>11, <1>12, <1>13, ElsewhereKeeps

LEMMA ReceiverCopyStep ==
  ASSUME TypeOK, RelayInv, NEW r \in Receivers, ExecuteCopy(r), UNCHANGED nixlVars
  PROVE  TypeOK' /\ RelayInv'
  <1> DEFINE c == Head(copies[r])
             g == Filled(staged[r], c, Source(r, c))
             m == Filled(merged[r], c, Source(r, c))
  <1>1. /\ r \in Ranks /\ r # 0 /\ ThreadInv(r) /\ CopiesInv(r) /\ AdapterInv(r)
    BY ReceiverTypes DEF RelayInv, ReceiverInv
  <1>2. copies[r] # <<>> /\ copies' = [copies EXCEPT ![r] = Tail(copies[r])]
        /\ UNCHANGED <<side, cur, inbox, pc, pos, box, sock, loaded>>
        /\ UNCHANGED <<next, xfer, offered, notes>>
    BY DEF ExecuteCopy, nixlVars
  <1>3. c = copies[r][1] /\ 1 \in 1..Len(copies[r])
    BY <1>1, <1>2, FirstCopy
  <1>4. \/ c.into = "box" /\ c.at = box[r].from
        \/ c.into = "merged" /\ c.at = 0
    BY <1>1, <1>3 DEF CopiesInv
  <1>5. /\ UNCHANGED buf
        /\ c.into = "box" => staged' = [staged EXCEPT ![r] = g] /\ UNCHANGED merged
        /\ c.into = "merged" => merged' = [merged EXCEPT ![r] = m] /\ UNCHANGED staged
    BY <1>4 DEF ExecuteCopy
  <1>6. /\ staged \in [Receivers -> [Offsets -> Contents]]
        /\ merged \in [Receivers -> [1..Total -> Contents]]
        /\ staged[r] \in [Offsets -> Contents] /\ merged[r] \in [1..Total -> Contents]
        /\ Offsets \subseteq Nat /\ 1..Total \subseteq Nat
    BY DEF TypeOK, BucketTypeOK, Offsets
  <1>7. /\ g \in [Offsets -> Contents]
        /\ \A o \in Offsets : InCopy(c, o + c.at) => g[o] = o + c.at
        /\ \A o \in Offsets : ~InCopy(c, o + c.at) => g[o] = staged[r][o]
    <2>1. r \in Ranks /\ copies[r] # <<>> /\ Offsets \subseteq Nat
      BY <1>1, <1>2, <1>6
    <2>2. staged[r] \in [Offsets -> Contents]
      BY <1>6
    <2>3. Brought(g, staged[r], c, Offsets)
      BY <2>1, <2>2, CopyBrings
    <2> HIDE DEF c, g
    <2> QED
      BY <2>3 DEF Brought
  <1>8. /\ m \in [1..Total -> Contents]
        /\ \A o \in 1..Total : InCopy(c, o + c.at) => m[o] = o + c.at
        /\ \A o \in 1..Total : ~InCopy(c, o + c.at) => m[o] = merged[r][o]
    <2>1. r \in Ranks /\ copies[r] # <<>> /\ 1..Total \subseteq Nat
      BY <1>1, <1>2, <1>6
    <2>2. merged[r] \in [1..Total -> Contents]
      BY <1>6
    <2>3. Brought(m, merged[r], c, 1..Total)
      BY <2>1, <2>2, CopyBrings
    <2> HIDE DEF c, m
    <2> QED
      BY <2>3 DEF Brought
  <1> HIDE DEF g, m, c
  <1>9. /\ copies' \in [Ranks -> Seq(Copy)] /\ copies'[r] = Tail(copies[r])
        /\ \A k \in Ranks \ {r} : copies'[k] = copies[k]
    BY <1>1, <1>2, CopyLeaves
  <1>10. /\ staged' \in [Receivers -> [Offsets -> Contents]]
         /\ merged' \in [Receivers -> [1..Total -> Contents]]
         /\ staged'[r] = IF c.into = "box" THEN g ELSE staged[r]
         /\ merged'[r] = IF c.into = "merged" THEN m ELSE merged[r]
         /\ \A k \in Receivers \ {r} : staged'[k] = staged[k] /\ merged'[k] = merged[k]
    <2>1. CASE c.into = "box"
      BY <2>1, <1>5, <1>6, <1>7
    <2>2. CASE c.into = "merged"
      BY <2>2, <1>5, <1>6, <1>8
    <2> QED
      BY <1>4, <2>1, <2>2
  <1>11. TypeOK'
    BY <1>2, <1>5, <1>9, <1>10 DEF TypeOK, BucketTypeOK
  <1>12. Elsewhere(r)
    BY <1>2, <1>5, <1>9, <1>10 DEF Elsewhere
  <1>13. LinkInv(r)' /\ (r < N => LinkInv(r + 1)') /\ (r = N => LastInv')
    BY <1>2, <1>5, <1>12, AheadFrame, BehindFrame
  <1>14. ThreadInv(r)'
    BY <1>1, <1>2, <1>5, ThreadFrame
  <1>15. CopiesInv(r)'
    <2> SUFFICES ASSUME NEW i \in 1..Len(Tail(copies[r]))
                 PROVE  LET d == Tail(copies[r])[i] IN
                   /\ d.side = side[r] /\ d.base = cur[r].from
                   /\ cur[r].from <= d.from /\ d.to <= pos[r]
                   /\ \/ /\ d.into = "box" /\ d.at = box[r].from
                         /\ box[r].from <= d.from /\ d.to <= box[r].to
                      \/ d.into = "merged" /\ d.at = 0
      <3>1. /\ copies'[r] = Tail(copies[r]) /\ side'[r] = side[r] /\ cur'[r] = cur[r]
            /\ pos'[r] = pos[r] /\ box'[r] = box[r]
        BY <1>2, <1>9
      <3> QED
        BY <3>1 DEF CopiesInv
    <2>1. i + 1 \in 1..Len(copies[r]) /\ Tail(copies[r])[i] = copies[r][i + 1]
      BY <1>1, <1>2, FirstCopy
    <2> QED
      BY <2>1, <1>1 DEF CopiesInv
  <1>16. AdapterInv(r)'
    <2>1. WillHold(staged[r], box[r], copies[r], "box")'
      <3> DEFINE at == box[r].from
      <3> SUFFICES ASSUME NEW u \in at + 1..box[r].to
                   PROVE  \/ staged'[r][u - at] = u
                          \/ \E i \in 1..Len(Tail(copies[r])) :
                               Tail(copies[r])[i].into = "box" /\ InCopy(Tail(copies[r])[i], u)
        BY <1>2, <1>9 DEF WillHold
      <3>1. u \in Nat /\ u - at \in Offsets /\ (c.into = "box" => (u - at) + c.at = u)
        <4>1. box[r].to - at <= BucketSize
          BY <1>1 DEF AdapterInv
        <4>2. at \in 0..Total /\ box[r].to \in 0..Total
          BY ReceiverTypes
        <4>3. u \in Nat /\ u - at \in Offsets /\ (u - at) + at = u
          BY <4>1, <4>2, Constants DEF Offsets
        <4>4. c.into = "box" => c.at = at
          BY <1>4
        <4> QED
          BY <4>3, <4>4
      <3> HIDE DEF at
      <3> DEFINE mine == c.into = "box" /\ InCopy(c, u)
                 now == Brings(copies[r], "box", u)
                 later == Brings(Tail(copies[r]), "box", u)
      <3>2. staged'[r][u - at] =
              IF mine THEN u ELSE staged[r][u - at]
        BY <3>1, <1>7, <1>10 DEF InCopy
      <3>3. staged[r][u - at] = u \/ now
        BY <1>1 DEF AdapterInv, WillHold, Brings, at
      <3>4. now => mine \/ later
        <4>1. r \in Ranks /\ copies[r] # <<>> /\ c = Head(copies[r])
          BY <1>1, <1>2 DEF c
        <4> HIDE DEF c
        <4> QED
          BY <4>1, FirstOrLater
      <3> HIDE DEF mine, now, later
      <3>5. staged'[r][u - at] = u \/ later
        BY <3>2, <3>3, <3>4
      <3> QED
        BY <3>5 DEF later, Brings
    <2>2. Merged(r)'
      <3> SUFFICES ASSUME NEW u \in 1..pos[r], IsLarge(u - 1)
                   PROVE  \/ merged'[r][u] = u
                          \/ \E i \in 1..Len(Tail(copies[r])) :
                               Tail(copies[r])[i].into = "merged" /\ InCopy(Tail(copies[r])[i], u)
        BY <1>2, <1>9 DEF Merged
      <3>1. u \in Nat /\ u \in 1..Total /\ u + 0 = u
        <4>1. pos[r] \in 0..Total
          BY ReceiverTypes
        <4> QED
          BY <4>1, Constants
      <3> DEFINE mine == c.into = "merged" /\ InCopy(c, u)
                 now == Brings(copies[r], "merged", u)
                 later == Brings(Tail(copies[r]), "merged", u)
      <3>2. merged'[r][u] = IF mine THEN u ELSE merged[r][u]
        <4>1. c.into = "merged" => c.at = 0
          BY <1>4
        <4> QED
          BY <3>1, <4>1, <1>8, <1>10 DEF InCopy
      <3>3. merged[r][u] = u \/ now
        BY <1>1 DEF AdapterInv, Merged, Brings
      <3>4. now => mine \/ later
        <4>1. r \in Ranks /\ copies[r] # <<>> /\ c = Head(copies[r])
          BY <1>1, <1>2 DEF c
        <4> HIDE DEF c
        <4> QED
          BY <4>1, FirstOrLater
      <3> HIDE DEF mine, now, later
      <3>5. merged'[r][u] = u \/ later
        BY <3>2, <3>3, <3>4
      <3> QED
        BY <3>5 DEF later, Brings
    <2>3. Held(r)' <=> Held(r)
      BY <1>2 DEF Held
    <2>4. sock[r] # "box"
      BY <1>1, <1>2 DEF AdapterInv
    <2> QED
      BY <1>1, <1>2, <2>1, <2>2, <2>3, <2>4 DEF AdapterInv
  <1> QED
    BY <1>1, <1>11, <1>12, <1>13, <1>14, <1>15, <1>16, ElsewhereKeeps

-----------------------------------------------------------------------------
(* Every state *)

LEMMA InitHolds ==
  ASSUME Init
  PROVE  TypeOK /\ RelayInv
  <1>1. /\ 0 \in Ranks /\ N \in Ranks /\ 0 \in 0..Total /\ Total \in 0..Total
        /\ 0 < Total /\ 0 \in Sides /\ 0 < N /\ BucketSize \in 0..BucketSize
        /\ 0 \in Contents /\ ~(BucketSize < BucketSize)
        /\ \A r \in Receivers : r \in Ranks /\ r - 1 \in Ranks /\ r # 0
    BY Constants DEF Ranks, Receivers, Sides, Contents
  <1>2. Empty(0) \in Interval /\ Empty(0).from = 0 /\ Empty(0).to = 0
    BY <1>1 DEF Empty, Interval
  <1>3. BucketTypeOK
    <2>1. [r \in Ranks |-> <<>>] \in [Ranks -> Seq(Copy)]
          /\ [r \in Receivers |-> <<>>] \in [Receivers -> Seq(Announcement)]
          /\ [r \in Receivers |-> <<>>] \in [Receivers -> Seq(Contents)]
      OBVIOUS
    <2> QED
      BY <1>1, <1>2, <2>1 DEF Init, BucketInit, BucketTypeOK
  <1>4. TypeOK
    <2>1. [r \in Ranks |-> <<>>] \in [Ranks -> Seq(Keys)]
      OBVIOUS
    <2>2. pc \in [Ranks -> Threads]
      BY DEF Init, BucketInit, Threads
    <2>3. xfer \in [Receivers -> [side : Sides, moved : 0..BucketSize]]
      BY <1>1 DEF Init
    <2>4. next \in [Receivers -> Interval] /\ offered \in [Ranks -> Keys]
      BY <1>1, <1>2 DEF Init, NoKey, Keys
    <2> QED
      BY <1>3, <2>1, <2>2, <2>3, <2>4 DEF Init, TypeOK
  <1>5. Cut(0) /\ Packed(Empty(0))
    BY <1>1, <1>2, EndsAreCuts, Constants DEF Packed
  <1>6. /\ \A r \in Ranks : /\ copies[r] = <<>> /\ side[r] = 0 /\ cur[r] = Empty(0)
                            /\ offered[r] = NoKey /\ notes[r] = <<>>
        /\ pc[0] = "fill" /\ \A r \in Receivers : pc[r] = "meta"
        /\ \A r \in Receivers :
             /\ inbox[r] = <<>> /\ pos[r] = 0 /\ box[r] = Empty(0) /\ sock[r] = "none"
             /\ loaded[r] = <<>> /\ next[r] = Empty(0) /\ xfer[r].moved = BucketSize
    BY <1>1 DEF Init, BucketInit
  <1>7. \A r \in Receivers : ~Reading(r)
    BY <1>1, <1>6 DEF Reading
  <1>8. TrainerInv
    <2>1. WillHold(buf[0][side[0]], cur[0], copies[0], "buffer")
      BY <1>1, <1>2, <1>6 DEF WillHold
    <2> QED
      BY <1>1, <1>2, <1>5, <1>6, <2>1 DEF TrainerInv
  <1>9. LastInv
    BY <1>1, <1>6 DEF LastInv
  <1>10. ASSUME NEW r \in Receivers
         PROVE  LinkInv(r) /\ ReceiverInv(r)
    <2>1. OfferedTo(r - 1) = 0
      BY <1>1, <1>2, <1>6, <1>10 DEF OfferedTo
    <2>2. LinkInv(r)
      BY <1>1, <1>6, <1>7, <1>10, <2>1 DEF LinkInv, Unoffered
    <2>3. ThreadInv(r)
      <3>1. Holds(buf[r][side[r]], cur[r])
        BY <1>1, <1>2, <1>6, <1>10 DEF Holds
      <3> QED
        BY <1>1, <1>2, <1>5, <1>6, <1>7, <1>10, <3>1 DEF ThreadInv
    <2>4. CopiesInv(r)
      BY <1>1, <1>6, <1>10 DEF CopiesInv
    <2>5. AdapterInv(r)
      <3>1. ~Held(r)
        BY <1>6, <1>10 DEF Held
      <3>2. WillHold(staged[r], box[r], copies[r], "box") /\ Merged(r)
        BY <1>1, <1>2, <1>6, <1>10 DEF WillHold, Merged
      <3>3. loaded[r] = [i \in 1..box[r].from |-> i]
        <4>1. 1..0 = {}
          OBVIOUS
        <4> QED
          BY <1>2, <1>6, <1>10, <4>1
      <3> QED
        BY <1>1, <1>2, <1>6, <1>10, <3>1, <3>2, <3>3, Constants DEF AdapterInv
    <2> QED
      BY <2>2, <2>3, <2>4, <2>5 DEF ReceiverInv
  <1> QED
    BY <1>4, <1>8, <1>9, <1>10 DEF RelayInv

LEMMA StutterStep ==
  ASSUME TypeOK, RelayInv, UNCHANGED vars
  PROVE  TypeOK' /\ RelayInv'
  <1>1. /\ UNCHANGED <<buf, copies, side, cur, inbox, pc, pos, box, staged, merged, sock, loaded>>
        /\ UNCHANGED <<next, xfer, offered, notes>>
    BY DEF vars, bucketVars, adapter, nixlVars
  <1>2. TypeOK'
    BY <1>1 DEF TypeOK, BucketTypeOK
  <1>3. 0 \in Ranks /\ 0 < N /\ 0 + 1 = 1 /\ 0 # N /\ 1 \in Receivers /\ 1 - 1 = 0
    BY Constants DEF Ranks, Receivers
  <1>4. Elsewhere(0)
    BY <1>1 DEF Elsewhere
  <1>5. TrainerInv'
    BY <1>1, TrainerFrame DEF RelayInv
  <1>6. LinkInv(1)'
    <2>1. OfferedTo(0)' = OfferedTo(0) /\ OfferedSide(0)' = OfferedSide(0)
      BY <1>1 DEF OfferedTo, OfferedSide
    <2> QED
      BY <1>1, <1>3, <2>1, LinkFrame DEF RelayInv
  <1> QED
    BY <1>2, <1>3, <1>4, <1>5, <1>6, ElsewhereKeeps

\* A step of the adapter of a receiver.
LEMMA AdapterStep ==
  ASSUME TypeOK, RelayInv, NEW r \in Receivers, Adapter(r), UNCHANGED nixlVars
  PROVE  TypeOK' /\ RelayInv' /\ UNCHANGED loaded
  <1>1. CASE TakeSmall(r)
    BY <1>1, TakeSmallStep DEF TakeSmall
  <1>2. CASE TakeChunk(r)
    BY <1>2, TakeChunkStep DEF TakeChunk
  <1>3. CASE Flush(r)
    BY <1>3, FlushStep DEF Flush
  <1>4. CASE SendLarge(r)
    BY <1>4, SendLargeStep DEF SendLarge
  <1>5. CASE SendTail(r)
    BY <1>5, SendTailStep DEF SendTail
  <1> QED
    BY <1>1, <1>2, <1>3, <1>4, <1>5 DEF Adapter

\* Every step keeps the invariant, and makes an inference worker load more of
\* the weights or leaves what they have loaded.
LEMMA StepHolds ==
  ASSUME TypeOK, RelayInv, [Next]_vars
  PROVE  /\ TypeOK' /\ RelayInv'
         /\ \/ UNCHANGED loaded
            \/ \E r \in Receivers :
                 /\ box[r].from <= box'[r].from
                 /\ \A k \in Receivers \ {r} : loaded'[k] = loaded[k]
  <1>1. CASE Trainer
    <2>1. CASE Fill /\ UNCHANGED nixlVars
      BY <2>1, FillStep DEF Fill, adapter
    <2>2. CASE SendBucket
      BY <2>2, SendBucketStep DEF SendBucket, adapter
    <2>3. CASE EndSend
      BY <2>3, EndSendStep DEF EndSend, adapter
    <2> QED
      BY <1>1, <2>1, <2>2, <2>3 DEF Trainer
  <1>2. ASSUME NEW r \in Receivers, Receiver(r)
        PROVE  TypeOK' /\ RelayInv' /\ UNCHANGED loaded
    <2>1. CASE BeginRead(r)
      BY <2>1, BeginReadStep DEF BeginRead, adapter
    <2>2. CASE SwapBuckets(r)
      BY <2>2, SwapBucketsStep DEF SwapBuckets, adapter
    <2>3. CASE EndReceive(r)
      BY <2>3, EndReceiveStep DEF EndReceive, adapter
    <2>4. CASE Adapter(r) /\ UNCHANGED nixlVars
      BY <2>4, AdapterStep
    <2> QED
      BY <1>2, <2>1, <2>2, <2>3, <2>4 DEF Receiver
  <1>3. ASSUME NEW r \in Receivers, Transfer(r)
        PROVE  TypeOK' /\ RelayInv' /\ UNCHANGED loaded
    BY <1>3, TransferStep DEF Transfer, adapter
  <1>4. ASSUME NEW r \in Receivers, Load(r), UNCHANGED nixlVars
        PROVE  /\ TypeOK' /\ RelayInv' /\ box[r].from <= box'[r].from
               /\ \A k \in Receivers \ {r} : loaded'[k] = loaded[k]
    BY <1>4, LoadStep
  <1>5. ASSUME NEW r \in Ranks, ExecuteCopy(r), UNCHANGED nixlVars
        PROVE  TypeOK' /\ RelayInv' /\ UNCHANGED loaded
    <2>1. UNCHANGED loaded
      BY <1>5 DEF ExecuteCopy
    <2>2. CASE r = 0
      BY <1>5, <2>1, <2>2, TrainerCopyStep
    <2>3. CASE r # 0
      <3>1. r \in Receivers
        BY <2>3, Constants DEF Ranks, Receivers
      <3> QED
        BY <1>5, <2>1, <3>1, ReceiverCopyStep
    <2> QED
      BY <2>2, <2>3
  <1>6. CASE UNCHANGED vars
    <2>1. UNCHANGED loaded
      BY <1>6 DEF vars, bucketVars, adapter
    <2> QED
      BY <1>6, <2>1, StutterStep
  <1> QED
    BY <1>1, <1>2, <1>3, <1>4, <1>5, <1>6 DEF Next

-----------------------------------------------------------------------------
(* What holds of the transfer *)

\* Every variable keeps its type. That units stay in the bucket they are copied
\* into, and cuts within the weights, needs the whole invariant.
THEOREM TypeCorrect == Spec => []TypeOK
  <1>1. Init => TypeOK /\ RelayInv
    BY InitHolds
  <1>2. (TypeOK /\ RelayInv) /\ [Next]_vars => (TypeOK /\ RelayInv)'
    BY StepHolds
  <1> QED
    BY <1>1, <1>2, PTL DEF Spec

\* What every state of the transfer satisfies: where each bucket is between two
\* ranks, and that every unit a rank has taken over is in memory or in a queued
\* copy.
THEOREM RelayInvariant == Spec => []RelayInv
  <1>1. Init => TypeOK /\ RelayInv
    BY InitHolds
  <1>2. (TypeOK /\ RelayInv) /\ [Next]_vars => (TypeOK /\ RelayInv)'
    BY StepHolds
  <1> QED
    BY <1>1, <1>2, PTL DEF Spec

\* No buffer is written while it is read, by whichever copy, transfer or reader.
THEOREM BufferQuiet == Spec => []BufferIsQuiet
  <1>1. TypeOK /\ RelayInv => BufferIsQuiet
    <2> SUFFICES ASSUME TypeOK, RelayInv, NEW r \in Receivers, Reading(r)
                 PROVE  /\ \A i \in 1..Len(copies[0]) : r = 1 => copies[0][i].side # xfer[r].side
                        /\ r > 1 /\ Reading(r - 1) => xfer[r].side = side[r - 1]
                        /\ \A i \in 1..Len(copies[r]) : copies[r][i].side = side[r]
      BY DEF BufferIsQuiet
    <2>1. LinkInv(r) /\ CopiesInv(r) /\ TrainerInv
      BY DEF RelayInv, ReceiverInv
    <2>2. xfer[r].side = OfferedSide(r - 1)
      BY <2>1 DEF LinkInv, Unoffered, Announced, Taken
    <2>3. \A i \in 1..Len(copies[0]) : r = 1 => copies[0][i].side # xfer[r].side
      <3>1. 0 \in Ranks
        BY Constants DEF Ranks
      <3>2. 1 - side[0] # side[0]
        BY <3>1, RankTypes
      <3>3. r = 1 => OfferedSide(r - 1) = 1 - side[0]
        BY DEF OfferedSide
      <3> QED
        BY <2>1, <2>2, <3>2, <3>3 DEF TrainerInv
    <2>4. r > 1 => xfer[r].side = side[r - 1]
      <3>1. r \in Nat
        BY Constants DEF Receivers
      <3> QED
        BY <2>2, <3>1 DEF OfferedSide
    <2>5. \A i \in 1..Len(copies[r]) : copies[r][i].side = side[r]
      BY <2>1 DEF CopiesInv
    <2> QED
      BY <2>3, <2>4, <2>5
  <1> QED
    BY <1>1, TypeCorrect, RelayInvariant, PTL

\* A rank is only ever notified of the operation it waits for, and when all
\* ranks are done no announcement and no notification is left to the next
\* transfer, and every inference worker has loaded all weights.
THEOREM NothingIsLeft == Spec => []NothingLeft
  <1>1. TypeOK /\ RelayInv => NothingLeft
    <2> SUFFICES ASSUME TypeOK, RelayInv
                 PROVE  NothingLeft
      OBVIOUS
    <2>1. \A r \in Ranks : r = N \/ (r + 1 \in Receivers /\ (r + 1) - 1 = r)
      BY Constants DEF Ranks, Receivers
    <2>2. ASSUME NEW r \in Ranks, notes[r] # <<>>
          PROVE  notes[r][1] = offered[r]
      <3>1. r # N
        BY <2>2 DEF RelayInv, LastInv
      <3>2. LinkInv(r + 1) /\ (r + 1) - 1 = r
        BY <2>1, <3>1 DEF RelayInv
      <3>3. notes[r] = <<offered[r]>>
        BY <2>2, <3>2 DEF LinkInv, Unoffered, Announced, Taken
      <3> QED
        BY <3>3
    <2>3. ASSUME NEW r \in Receivers, \A k \in Ranks : Finished(k)
          PROVE  notes[r - 1] = <<>> /\ inbox[r] = <<>> /\ Len(loaded[r]) = Total
      <3>1. r \in Ranks /\ r - 1 \in Ranks /\ r # 0 /\ LinkInv(r) /\ AdapterInv(r)
        BY ReceiverTypes DEF RelayInv, ReceiverInv
      <3>2. pc[r] = "done" /\ pc[r - 1] = "done" /\ sock[r] = "none"
        BY <2>3, <3>1 DEF Finished
      <3>3. notes[r - 1] = <<>> /\ inbox[r] = <<>>
        BY <3>1, <3>2 DEF LinkInv, Unoffered, Announced, Taken
      <3>4. loaded[r] = [i \in 1..Total |-> i]
        BY <3>1, <3>2 DEF AdapterInv
      <3> QED
        BY <3>3, <3>4, Constants
    <2>4. ASSUME NEW r \in Ranks, \A k \in Ranks : Finished(k)
          PROVE  notes[r] = <<>>
      <3>1. CASE r = N
        BY <3>1 DEF RelayInv, LastInv
      <3>2. CASE r # N
        <4>1. r + 1 \in Receivers /\ (r + 1) - 1 = r
          BY <2>1, <3>2
        <4> QED
          BY <2>3, <2>4, <4>1
      <3> QED
        BY <3>1, <3>2
    <2> QED
      BY <2>2, <2>3, <2>4 DEF NothingLeft
  <1> QED
    BY <1>1, TypeCorrect, RelayInvariant, PTL

\* The chain of buffers implements the stream: every inference worker loads the
\* weights the trainer sent, each one whole, in order and with its own bytes,
\* however the weights are cut and packed, and whenever copies are executed.
THEOREM WeightsStream == Spec => StreamsWeights
  <1>1. Init => Stream!Init
    BY DEF Init, BucketInit, Stream!Init
  <1>2. TypeOK /\ RelayInv /\ [Next]_vars => [Stream!Next]_loaded
    <2> SUFFICES ASSUME TypeOK, RelayInv, [Next]_vars, ~UNCHANGED loaded
                 PROVE  Stream!Next
      OBVIOUS
    <2>1. TypeOK' /\ RelayInv'
      BY StepHolds
    <2>2. PICK r \in Receivers :
            /\ box[r].from <= box'[r].from
            /\ \A k \in Receivers \ {r} : loaded'[k] = loaded[k]
      BY StepHolds
    <2>3. /\ loaded[r] = [i \in 1..box[r].from |-> i]
          /\ loaded'[r] = [i \in 1..box'[r].from |-> i]
          /\ box'[r].from \in Ends \cup {0}
      BY <2>1 DEF RelayInv, ReceiverInv, AdapterInv
    <2>4. box[r].from \in Nat /\ box'[r].from \in Nat
      <3>1. box[r].from \in 0..Total
        BY ReceiverTypes
      <3>2. box'[r].from \in 0..Total
        BY <2>3, EndsAreCuts
      <3> QED
        BY <3>1, <3>2, Constants
    <2>5. /\ loaded \in [Receivers -> Seq(Contents)]
          /\ loaded' \in [Receivers -> Seq(Contents)]
      BY <2>1 DEF TypeOK, BucketTypeOK
    <2>6. loaded' = [loaded EXCEPT ![r] = [u \in 1..box'[r].from |-> u]]
      BY <2>2, <2>3, <2>5
    <2>7. box'[r].from # box[r].from
      <3>1. box'[r].from = box[r].from => loaded'[r] = loaded[r]
        BY <2>3
      <3> QED
        BY <2>2, <2>5, <3>1
    <2>8. Len(loaded[r]) = box[r].from
      BY <2>3, <2>4
    <2>9. box'[r].from \in Ends /\ box'[r].from > Len(loaded[r])
      BY <2>2, <2>3, <2>4, <2>7, <2>8
    <2>10. Stream!Load(r)
      BY <2>6, <2>9 DEF Stream!Load
    <2> QED
      BY <2>10 DEF Stream!Next
  <1> QED
    BY <1>1, <1>2, TypeCorrect, RelayInvariant, PTL DEF Spec, StreamsWeights, Stream!Spec

-----------------------------------------------------------------------------
(* That the transfer ends: somebody can always go on, and every step brings *)
(* the transfer nearer to its end.                                          *)

\* The guards of the actions.
TrainerGoes ==
  \/ pc[0] = "fill" /\ Fits
  \/ pc[0] = "fill" /\ ~Fits /\ Synchronized(0) /\ ReadByNext(0)
  \/ pc[0] = "last" /\ ReadByNext(0)

ThreadGoes(r) ==
  \/ pc[r] = "meta" /\ inbox[r] # <<>>
  \/ AsksForNext(r) /\ ReadByNext(r) /\ ~Reading(r) /\ Synchronized(r)
  \/ AsksForNext(r) /\ ReadByNext(r) /\ cur[r].to = Total

AdapterGoes(r) ==
  \/ Takes(r) /\ (IsLarge(pos[r]) \/ ChunkEnd(pos[r]) - box[r].from <= BucketSize)
  \/ sock[r] = "none" /\ pc[r] = "direct" /\ box[r].from = box[r].to
  \/ /\ Synchronized(r)
     /\ \/ Takes(r) /\ ~IsLarge(pos[r]) /\ ChunkEnd(pos[r]) - box[r].from > BucketSize
        \/ sock[r] = "none" /\ pc[r] = "direct" /\ box[r].from < box[r].to
        \/ pc[r] = "tail"
        \/ sock[r] = "large"
  \/ sock[r] = "box"

Goes ==
  \/ TrainerGoes
  \/ \E r \in Receivers : ThreadGoes(r) \/ AdapterGoes(r) \/ Reading(r)
  \/ \E r \in Ranks : ~Synchronized(r)

\* How far a rank is: it never goes back.
Asked(r) == IF sock[r] # "none" /\ pc[r] # "done" THEN 1 ELSE 0

Ending(r) ==
  CASE pc[r] = "tail" -> 1
    [] pc[r] = "done" /\ sock[r] # "none" -> 2
    [] pc[r] = "done" /\ sock[r] = "none" -> 3
    [] OTHER -> 0

\* What the thread has read, what the adapter has taken over and copied, and what
\* the inference worker has been handed and loaded.
Reads(r) == next[r].to * BucketSize + next[r].to + xfer[r].moved + cur[r].to
Copied(r) == 2 * pos[r] - Len(copies[r])
Handed(r) == 2 * box[r].from + Asked(r) + Ending(r)

Progress(r) ==
  IF r = 0
  THEN 2 * cur[0].to + cur[0].from + (IF pc[0] = "done" THEN 1 ELSE 0) - Len(copies[0])
  ELSE Reads(r) + Copied(r) + Handed(r)

\* A rank that waits for the rank behind it to read what it has offered.
Blocked(r) == ~ReadByNext(r) /\ pc[r] \notin {"tail", "done"}

\* What keeps a receiver from going on.
LEMMA Stopped ==
  ASSUME TypeOK, RelayInv, ~Goes, NEW r \in Receivers
  PROVE  /\ sock[r] = "none" /\ ~Reading(r)
         /\ \/ pc[r] = "meta" /\ inbox[r] = <<>>
            \/ pc[r] = "work" /\ Blocked(r)
            \/ pc[r] = "done"
  <1>1. r \in Ranks
    BY ReceiverTypes
  <1>2. ~ThreadGoes(r) /\ ~AdapterGoes(r) /\ ~Reading(r) /\ Synchronized(r)
    BY <1>1, Zenon DEF Goes
  <1>3. sock[r] = "none"
    BY <1>2, ReceiverTypes DEF AdapterGoes
  <1>4. ThreadInv(r) /\ AdapterInv(r)
    BY DEF RelayInv, ReceiverInv
  <1>5. pc[r] # "direct"
    <2>1. box[r].from <= box[r].to
      BY <1>4 DEF AdapterInv
    <2>2. box[r].from \in 0..Total /\ box[r].to \in 0..Total
      BY ReceiverTypes
    <2>3. box[r].from = box[r].to \/ box[r].from < box[r].to
      BY <2>1, <2>2, Constants
    <2> QED
      BY <1>2, <1>3, <2>3 DEF AdapterGoes
  <1>6. pc[r] # "tail"
    BY <1>2 DEF AdapterGoes
  <1>7. pc[r] \in {"meta", "work", "done"}
    BY <1>4, <1>5, <1>6 DEF ThreadInv
  <1>8. CASE pc[r] = "meta"
    BY <1>2, <1>3, <1>8 DEF ThreadGoes
  <1>9. CASE pc[r] = "work"
    <2>1. pos[r] = cur[r].to
      <3>1. pos[r] \in 0..Total /\ cur[r].to \in 0..Total /\ box[r].from \in 0..Total
        BY <1>1, ReceiverTypes, RankTypes
      <3>2. pos[r] <= cur[r].to
        BY <1>4 DEF ThreadInv
      <3>3. ASSUME pos[r] < cur[r].to
            PROVE  FALSE
        <4>1. Takes(r)
          BY <1>3, <1>9, <3>3 DEF Takes
        <4>2. pos[r] \in 0..Total - 1
          BY <3>1, <3>3, Constants
        <4>3. ChunkEnd(pos[r]) \in 1..Total
          BY <4>2, Chunk
        <4>4. \/ ChunkEnd(pos[r]) - box[r].from <= BucketSize
              \/ ChunkEnd(pos[r]) - box[r].from > BucketSize
          BY <3>1, <4>3, Constants
        <4> QED
          BY <1>2, <4>1, <4>4, Zenon DEF AdapterGoes
      <3> QED
        BY <3>1, <3>2, <3>3, Constants
    <2>2. AsksForNext(r)
      BY <1>3, <1>9, <2>1 DEF AsksForNext
    <2>3. ~ReadByNext(r)
      BY <1>2, <2>2, Zenon DEF ThreadGoes
    <2> QED
      BY <1>2, <1>3, <1>9, <2>3 DEF Blocked
  <1> QED
    BY <1>2, <1>3, <1>7, <1>8, <1>9

\* If a rank waits for the one behind, that one waits for the next.
LEMMA BlockedBehind ==
  ASSUME TypeOK, RelayInv, ~Goes, NEW r \in Ranks, Blocked(r)
  PROVE  r + 1 \in Receivers /\ Blocked(r + 1)
  <1>1. offered[r] # NoKey /\ notes[r] = <<>> /\ pc[r] \notin {"tail", "done"}
    BY DEF Blocked, ReadByNext
  <1>2. r + 1 \in Receivers /\ (r + 1) - 1 = r
    BY <1>1, Constants DEF RelayInv, LastInv, Ranks, Receivers
  <1>3. LinkInv(r + 1) /\ ThreadInv(r + 1)
    BY <1>2 DEF RelayInv, ReceiverInv
  <1>4. ~Reading(r + 1)
    BY <1>2, Stopped
  <1>5. Announced(r + 1) /\ offered[r] < OfferedTo(r)
    BY <1>1, <1>2, <1>3, <1>4 DEF LinkInv, Unoffered, Taken
  <1>6. inbox[r + 1] # <<>> /\ next[r + 1].to = offered[r]
    BY <1>2, <1>5 DEF Announced
  <1>7. pc[r + 1] # "done"
    <2>1. /\ offered[r] \in 0..Total /\ OfferedTo(r) \in 0..Total
          /\ cur[r + 1].to \in 0..Total /\ pos[r + 1] \in 0..Total
      BY <1>2, RankTypes, ReceiverTypes, Constants DEF OfferedTo, Ranks
    <2>2. offered[r] < Total
      BY <1>5, <2>1, Constants
    <2>3. pc[r + 1] = "done" => pos[r + 1] = Total /\ pos[r + 1] <= cur[r + 1].to
      BY <1>3 DEF ThreadInv
    <2>4. pc[r + 1] = "done" => ~(cur[r + 1].to < Total)
      BY <2>1, <2>3, Constants
    <2>5. pc[r + 1] = "done" => next[r + 1] = cur[r + 1]
      BY <1>3, <2>4 DEF ThreadInv
    <2> QED
      BY <1>6, <2>1, <2>2, <2>4, <2>5, Constants
  <1> QED
    BY <1>2, <1>6, <1>7, Stopped

\* So nobody does, for nobody is behind the last rank.
LEMMA NoneBlocked ==
  ASSUME TypeOK, RelayInv, ~Goes, NEW r \in Ranks
  PROVE  ~Blocked(r)
  <1> SUFFICES ASSUME Blocked(r) PROVE FALSE
    OBVIOUS
  <1> DEFINE T == {n \in 0..N : Blocked(N - n)}
  <1>1. \A k \in Ranks : k \in Nat /\ N - k \in 0..N /\ N - (N - k) = k
    BY Constants DEF Ranks
  <1>2. T \subseteq Nat /\ N - r \in T
    BY <1>1
  <1>3. PICK m \in T : \A k \in T : m <= k
    <2> HIDE DEF T
    <2> QED
      BY <1>2, Smallest
  <1>4. m \in 0..N /\ N - m \in Ranks /\ Blocked(N - m)
    BY <1>3, Constants DEF Ranks
  <1>5. (N - m) + 1 \in Receivers /\ Blocked((N - m) + 1)
    BY <1>4, BlockedBehind
  <1>6. m - 1 \in 0..N /\ N - (m - 1) = (N - m) + 1
    BY <1>4, <1>5, Constants DEF Receivers
  <1>7. m - 1 \in T
    BY <1>5, <1>6
  <1> QED
    BY <1>3, <1>4, <1>7, Constants

\* As long as a rank has not finished, a thread, a transfer, a device or an
\* inference worker can go on.
GoesOn == (\E r \in Ranks : ~Finished(r)) => Goes

\* The chain never waits on itself, however long it is, though every rank waits for
\* the one before it to announce and for the one behind it to read.
THEOREM ChainGoesOn == Spec => []GoesOn
  <1>1. ASSUME TypeOK, RelayInv, ~Goes
        PROVE  \A r \in Ranks : Finished(r)
    <2>1. 0 \in Ranks /\ (\A r \in Ranks : r = 0 \/ r \in Receivers)
          /\ Receivers \subseteq Nat /\ (\A r \in Receivers : r - 1 \in Ranks)
      BY Constants DEF Ranks, Receivers
    <2>2. pc[0] = "done" /\ cur[0].from = Total
      <3>1. ~TrainerGoes /\ Synchronized(0) /\ TrainerInv
        BY <1>1, <2>1, Zenon DEF Goes, RelayInv
      <3>2. ReadByNext(0) \/ pc[0] = "done"
        BY <1>1, <2>1, <3>1, NoneBlocked DEF Blocked, TrainerInv
      <3>3. pc[0] = "done"
        BY <3>1, <3>2 DEF TrainerGoes, TrainerInv
      <3> QED
        BY <3>1, <3>3 DEF TrainerInv, Empty
    <2>3. \A r \in Receivers :
            /\ sock[r] = "none" /\ ~Reading(r)
            /\ (pc[r] = "meta" /\ inbox[r] = <<>>) \/ pc[r] = "done"
      BY <1>1, <2>1, Stopped, NoneBlocked, ReceiverTypes
    <2>4. \A r \in Receivers : pc[r] = "done"
      <3> DEFINE T == {r \in Receivers : pc[r] = "meta"}
      <3>1. T \subseteq Nat
        BY <2>1
      <3>2. ASSUME T # {}
            PROVE  FALSE
        <4>1. PICK m \in T : \A k \in T : m <= k
          <5> HIDE DEF T
          <5> QED
            BY <3>1, <3>2, Smallest
        <4>2. m \in Receivers /\ m - 1 \in Ranks /\ m - 1 \notin T
          BY <2>1, <4>1, Constants DEF Receivers
        <4>3. pc[m] = "meta" /\ inbox[m] = <<>>
          BY <2>3, <4>1
        <4>4. pc[m - 1] = "done"
          BY <2>1, <2>2, <2>3, <4>2
        <4>5. OfferedTo(m - 1) = Total
          <5>1. CASE m - 1 = 0
            BY <2>2, <5>1 DEF OfferedTo
          <5>2. CASE m - 1 # 0
            <6>1. m - 1 \in Receivers /\ ThreadInv(m - 1)
              BY <1>1, <2>1, <4>2, <5>2 DEF RelayInv, ReceiverInv
            <6>2. pos[m - 1] = Total /\ pos[m - 1] <= cur[m - 1].to
              BY <4>4, <6>1 DEF ThreadInv
            <6>3. cur[m - 1].to \in 0..Total
              BY <1>1, <4>2, RankTypes
            <6> QED
              BY <5>2, <6>2, <6>3, Constants DEF OfferedTo
          <5> QED
            BY <5>1, <5>2
        <4>6. LinkInv(m) /\ ThreadInv(m)
          BY <1>1, <4>2 DEF RelayInv, ReceiverInv
        <4>7. next[m] = OfferedBucket(m - 1)
          BY <4>3, <4>5, <4>6, Constants DEF LinkInv, Unoffered, Announced, Taken
        <4>8. next[m].to = Total
          BY <4>5, <4>7 DEF OfferedBucket
        <4>9. next[m].to < Total
          BY <4>3, <4>6 DEF ThreadInv
        <4> QED
          BY <4>8, <4>9, Constants
      <3> QED
        BY <2>3, <3>2
    <2> QED
      BY <2>1, <2>2, <2>3, <2>4 DEF Finished
  <1>2. TypeOK /\ RelayInv => GoesOn
    BY <1>1 DEF GoesOn
  <1> QED
    BY <1>2, TypeCorrect, RelayInvariant, PTL

\* What Progress is made of.
LEMMA ProgressTypes ==
  ASSUME TypeOK, NEW r \in Ranks
  PROVE  /\ Len(copies[r]) \in Nat /\ cur[r].from \in Nat /\ cur[r].to \in Nat
         /\ r \in Receivers =>
              /\ next[r].to \in Nat /\ next[r].to * BucketSize \in Nat
              /\ xfer[r].moved \in Nat /\ xfer[r].moved <= BucketSize
              /\ pos[r] \in Nat /\ box[r].from \in Nat /\ box[r].to \in Nat
              /\ Asked(r) \in Nat /\ Ending(r) \in Nat
              /\ Reads(r) \in Int /\ Copied(r) \in Int /\ Handed(r) \in Int
  <1>0. /\ \A n \in 0..Total : n \in Nat
        /\ BucketSize \in Nat /\ \A n \in 0..BucketSize : n \in Nat /\ n <= BucketSize
    BY Constants
  <1>1. copies[r] \in Seq(Copy) /\ cur[r].from \in Nat /\ cur[r].to \in Nat
    BY <1>0, RankTypes
  <1>2. Len(copies[r]) \in Nat
    BY <1>1, LenProperties
  <1>3. ASSUME r \in Receivers
        PROVE  /\ next[r].to \in Nat /\ xfer[r].moved \in Nat /\ xfer[r].moved <= BucketSize
               /\ pos[r] \in Nat /\ box[r].from \in Nat /\ box[r].to \in Nat
    BY <1>0, <1>3, ReceiverTypes
  <1>4. r \in Receivers => next[r].to * BucketSize \in Nat
    BY <1>0, <1>3
  <1>5. Asked(r) \in Nat /\ Ending(r) \in Nat
    BY DEF Asked, Ending
  <1>6. r \in Receivers => Reads(r) \in Int
    <2> SUFFICES ASSUME r \in Receivers PROVE Reads(r) \in Int
      OBVIOUS
    <2>1. \A a, b, c, d \in Nat : a + b + c + d \in Int
      OBVIOUS
    <2>2. /\ next[r].to * BucketSize \in Nat /\ next[r].to \in Nat
          /\ xfer[r].moved \in Nat /\ cur[r].to \in Nat
      BY <1>1, <1>3, <1>4
    <2>3. next[r].to * BucketSize + next[r].to + xfer[r].moved + cur[r].to \in Int
      BY <2>1, <2>2
    <2> QED
      BY <2>3 DEF Reads
  <1>7. r \in Receivers => Copied(r) \in Int
    BY <1>2, <1>3 DEF Copied
  <1>8. r \in Receivers => Handed(r) \in Int
    BY <1>3, <1>5 DEF Handed
  <1> QED
    BY <1>1, <1>2, <1>3, <1>4, <1>5, <1>6, <1>7, <1>8

LEMMA ProgressFrame ==
  ASSUME NEW k \in Ranks, cur'[k] = cur[k], copies'[k] = copies[k], pc'[k] = pc[k],
         k # 0 => /\ next'[k] = next[k] /\ xfer'[k] = xfer[k] /\ pos'[k] = pos[k]
                  /\ box'[k] = box[k] /\ sock'[k] = sock[k]
  PROVE  Progress(k)' = Progress(k)
  BY DEF Progress, Reads, Copied, Handed, Asked, Ending

\* A step of rank r brings it forward and leaves the others where they are.
Advances(r) ==
  /\ Progress(r)' > Progress(r)
  /\ \A k \in Ranks \ {r} : Progress(k)' = Progress(k)

\* A step of a receiver brings one part of its progress forward.
LEMMA OnePart ==
  ASSUME TypeOK, NEW r \in Receivers,
         \A k \in Ranks \ {r} : Progress(k)' = Progress(k),
         Reads(r)' \in Int /\ Copied(r)' \in Int /\ Handed(r)' \in Int,
         Reads(r) <= Reads(r)' /\ Copied(r) <= Copied(r)' /\ Handed(r) <= Handed(r)',
         Reads(r) < Reads(r)' \/ Copied(r) < Copied(r)' \/ Handed(r) < Handed(r)'
  PROVE  Advances(r)
  <1>1. Reads(r) \in Int /\ Copied(r) \in Int /\ Handed(r) \in Int /\ r # 0
    BY ProgressTypes, ReceiverTypes
  <1>2. \A a, b, c, d, e, f \in Int :
          a <= d /\ b <= e /\ c <= f /\ (a < d \/ b < e \/ c < f)
            => d + e + f > a + b + c
    OBVIOUS
  <1>3. /\ Progress(r) = Reads(r) + Copied(r) + Handed(r)
        /\ Progress(r)' = Reads(r)' + Copied(r)' + Handed(r)'
    BY <1>1 DEF Progress
  <1> HIDE DEF Reads, Copied, Handed
  <1>4. Progress(r)' > Progress(r)
    BY <1>1, <1>2, <1>3
  <1> QED
    BY <1>4 DEF Advances

\* The steps of the trainer.
LEMMA TrainerAdvances ==
  ASSUME TypeOK, RelayInv, Trainer
  PROVE  Advances(0)
  <1>1. 0 \in Ranks
    BY Constants DEF Ranks
  <1>2. UNCHANGED <<next, xfer, pos, box, sock>>
    BY DEF Trainer, Fill, SendBucket, EndSend, adapter, nixlVars
  <1>3. \A k \in Ranks \ {0} : cur'[k] = cur[k] /\ copies'[k] = copies[k] /\ pc'[k] = pc[k]
    BY DEF Trainer, Fill, SendBucket, EndSend, QueueCopy, TypeOK, BucketTypeOK
  <1>4. \A k \in Ranks \ {0} : Progress(k)' = Progress(k)
    BY <1>2, <1>3, ProgressFrame
  <1>5. /\ Len(copies[0]) \in Nat /\ cur[0].from \in Nat /\ cur[0].to \in Nat
        /\ copies[0] \in Seq(Copy) /\ cur[0] \in Interval
    BY <1>1, ProgressTypes, RankTypes
  <1>6. CASE Fill /\ UNCHANGED nixlVars
    <2> DEFINE q == ChunkEnd(cur[0].to)
               c == [from |-> cur[0].to, to |-> q, side |-> side[0], base |-> cur[0].from,
                     into |-> "buffer", at |-> cur[0].from]
    <2>1. cur[0].to \in 0..Total - 1
      BY <1>5, <1>6, Constants DEF Fill, Fits
    <2>2. q \in Nat /\ q > cur[0].to
      BY <2>1, Chunk
    <2>3. copies'[0] = Append(copies[0], c)
      BY <1>1, <1>6 DEF Fill, QueueCopy, TypeOK, BucketTypeOK
    <2>4. Len(copies'[0]) = Len(copies[0]) + 1
      BY <1>5, <2>3
    <2>5. cur'[0].to = q /\ cur'[0].from = cur[0].from /\ pc'[0] = pc[0]
      BY <1>1, <1>6 DEF Fill, TypeOK, BucketTypeOK, Interval
    <2> HIDE DEF q
    <2> DEFINE w == IF pc[0] = "done" THEN 1 ELSE 0
    <2>6. w \in Nat
      OBVIOUS
    <2>7. /\ Progress(0) = 2 * cur[0].to + cur[0].from + w - Len(copies[0])
          /\ Progress(0)' = 2 * q + cur[0].from + w - (Len(copies[0]) + 1)
      BY <2>4, <2>5 DEF Progress
    <2> HIDE DEF w
    <2>8. \A t, u, f, v, l \in Nat : u > t => 2 * u + f + v - (l + 1) > 2 * t + f + v - l
      OBVIOUS
    <2>9. 2 * q + cur[0].from + w - (Len(copies[0]) + 1)
            > 2 * cur[0].to + cur[0].from + w - Len(copies[0])
      BY <1>5, <2>2, <2>6, <2>8
    <2>10. Progress(0)' > Progress(0)
      BY <2>7, <2>9
    <2> QED
      BY <1>4, <2>10 DEF Advances
  <1>7. CASE SendBucket
    <2>1. pc[0] = "fill" /\ ~Fits /\ TrainerInv
      BY <1>7 DEF SendBucket, RelayInv
    <2>2. cur[0].from < cur[0].to
      <3>1. cur[0].from < Total /\ cur[0].from <= cur[0].to
        BY <2>1 DEF TrainerInv, Packed
      <3>2. cur[0].from # cur[0].to
        <4> SUFFICES ASSUME cur[0].from = cur[0].to PROVE Fits
          BY <2>1
        <4>1. cur[0].to \in 0..Total - 1
          BY <1>5, <3>1, Constants
        <4> QED
          BY <4>1, Chunk, Constants DEF Fits
      <3> QED
        BY <1>5, <3>1, <3>2
    <2>3. /\ cur'[0].to = cur[0].to /\ cur'[0].from = cur[0].to
          /\ copies' = copies /\ pc[0] # "done" /\ pc'[0] # "done"
      BY <1>1, <1>7, <2>1 DEF SendBucket, TypeOK, BucketTypeOK, Empty
    <2>4. /\ Progress(0) = 2 * cur[0].to + cur[0].from + 0 - Len(copies[0])
          /\ Progress(0)' = 2 * cur[0].to + cur[0].to + 0 - Len(copies[0])
      BY <2>3 DEF Progress
    <2>5. \A t, f, l \in Nat : f < t => 2 * t + t + 0 - l > 2 * t + f + 0 - l
      OBVIOUS
    <2>6. 2 * cur[0].to + cur[0].to + 0 - Len(copies[0])
            > 2 * cur[0].to + cur[0].from + 0 - Len(copies[0])
      BY <1>5, <2>2, <2>5
    <2>7. Progress(0)' > Progress(0)
      BY <2>4, <2>6
    <2> QED
      BY <1>4, <2>7 DEF Advances
  <1>8. CASE EndSend
    <2>1. cur' = cur /\ copies' = copies /\ pc[0] # "done" /\ pc'[0] = "done"
      BY <1>1, <1>8 DEF EndSend, TypeOK, BucketTypeOK
    <2>2. /\ Progress(0) = 2 * cur[0].to + cur[0].from + 0 - Len(copies[0])
          /\ Progress(0)' = 2 * cur[0].to + cur[0].from + 1 - Len(copies[0])
      BY <2>1 DEF Progress
    <2>3. \A t, f, l \in Nat : 2 * t + f + 1 - l > 2 * t + f + 0 - l
      OBVIOUS
    <2>4. 2 * cur[0].to + cur[0].from + 1 - Len(copies[0])
            > 2 * cur[0].to + cur[0].from + 0 - Len(copies[0])
      BY <1>5, <2>3
    <2> QED
      BY <1>4, <2>2, <2>4 DEF Advances
  <1> QED
    BY <1>6, <1>7, <1>8 DEF Trainer

\* The steps of a receiver's thread and of its transfer.
LEMMA ThreadAdvances ==
  ASSUME TypeOK, RelayInv, NEW r \in Receivers,
         BeginRead(r) \/ SwapBuckets(r) \/ EndReceive(r) \/ Transfer(r)
  PROVE  Advances(r)
  <1>1. r \in Ranks /\ r # 0
    BY ReceiverTypes
  <1>2. /\ UNCHANGED <<copies, pos, box, sock>>
        /\ \A k \in Ranks \ {r} : cur'[k] = cur[k] /\ pc'[k] = pc[k]
        /\ \A k \in Receivers \ {r} : next'[k] = next[k] /\ xfer'[k] = xfer[k]
    BY DEF BeginRead, SwapBuckets, EndReceive, Transfer, adapter, TypeOK, BucketTypeOK
  <1>3. \A k \in Ranks : k # 0 => k \in Receivers
    BY Constants DEF Ranks, Receivers
  <1>4. \A k \in Ranks \ {r} : Progress(k)' = Progress(k)
    BY <1>2, <1>3, ProgressFrame
  <1>5. /\ cur[r].to \in Nat
        /\ next[r].to \in Nat /\ next[r].to * BucketSize \in Nat
        /\ xfer[r].moved \in Nat /\ xfer[r].moved <= BucketSize
        /\ pos[r] \in Nat /\ box[r].from \in Nat
        /\ Asked(r) \in Nat /\ Ending(r) \in Nat
        /\ Reads(r) \in Int /\ Copied(r) \in Int /\ Handed(r) \in Int
    BY <1>1, ProgressTypes
  <1>6. /\ LinkInv(r) /\ ThreadInv(r) /\ cur[r] \in Interval /\ next[r] \in Interval
    BY <1>1, RankTypes, ReceiverTypes DEF RelayInv, ReceiverInv
  <1>7. Copied(r)' = Copied(r)
    BY <1>2 DEF Copied
  <1>8. CASE BeginRead(r)
    <2>1. pc[r] = "meta" /\ inbox[r] # <<>>
      BY <1>8 DEF BeginRead
    <2>2. Announced(r) /\ offered[r - 1] < OfferedTo(r - 1)
      BY <1>6, <2>1 DEF LinkInv, Unoffered, Taken, ThreadInv
    <2>3. Head(inbox[r]).to = OfferedTo(r - 1) /\ next[r].to = offered[r - 1]
      BY <2>2 DEF Announced
    <2>4. /\ next'[r].to = OfferedTo(r - 1) /\ xfer'[r].moved = 0
          /\ cur'[r] = cur[r] /\ pc'[r] = "work"
      BY <1>1, <1>8, <2>3 DEF BeginRead, TypeOK, BucketTypeOK
    <2>5. next'[r].to \in Nat /\ next[r].to < next'[r].to
      <3>0. 0 \in Ranks
        BY Constants DEF Ranks
      <3>1. r - 1 \in Ranks
        BY ReceiverTypes
      <3>2. OfferedTo(r - 1) \in Nat
        BY <3>0, <3>1, ProgressTypes DEF OfferedTo
      <3> QED
        BY <2>2, <2>3, <2>4, <3>2
    <2>6. /\ next'[r].to * BucketSize \in Nat
          /\ next[r].to * BucketSize + BucketSize <= next'[r].to * BucketSize
      BY <1>5, <2>5, Times
    <2>7. \A n, m, a, b, v, c, B \in Nat :
            n < m /\ a + B <= b /\ v <= B => a + n + v + c < b + m + 0 + c
      OBVIOUS
    <2>8. Reads(r)' = next'[r].to * BucketSize + next'[r].to + 0 + cur[r].to
      BY <2>4 DEF Reads
    <2>9. Reads(r) < Reads(r)' /\ Reads(r)' \in Int
      <3> DEFINE a == next[r].to * BucketSize
                 b == next'[r].to * BucketSize
      <3>1. /\ Reads(r) = a + next[r].to + xfer[r].moved + cur[r].to
            /\ Reads(r)' = b + next'[r].to + 0 + cur[r].to
            /\ a \in Nat /\ b \in Nat /\ a + BucketSize <= b
        BY <1>5, <2>6, <2>8 DEF Reads
      <3> HIDE DEF a, b
      <3>2. BucketSize \in Nat
        BY Constants
      <3> QED
        BY <1>5, <2>5, <2>7, <3>1, <3>2
    <2>10. Handed(r)' = Handed(r)
      BY <1>2, <2>1, <2>4 DEF Handed, Asked, Ending
    <2> QED
      BY <1>4, <1>5, <1>7, <2>9, <2>10, OnePart
  <1>9. CASE SwapBuckets(r)
    <2>1. pc[r] = "work" /\ cur[r].to < Total
      BY <1>9 DEF SwapBuckets, AsksForNext
    <2>2. cur'[r] = next[r] /\ UNCHANGED <<next, xfer>> /\ pc'[r] \in {"work", "meta"}
      BY <1>1, <1>9 DEF SwapBuckets, TypeOK, BucketTypeOK
    <2>3. cur[r].to < next[r].to
      BY <1>6, <2>1 DEF ThreadInv
    <2>4. Reads(r) < Reads(r)' /\ Reads(r)' \in Int
      BY <1>5, <2>2, <2>3 DEF Reads
    <2>5. Handed(r)' = Handed(r)
      BY <1>2, <2>1, <2>2 DEF Handed, Asked, Ending
    <2> QED
      BY <1>4, <1>5, <1>7, <2>4, <2>5, OnePart
  <1>10. CASE EndReceive(r)
    <2>1. pc[r] = "work" /\ pc'[r] = "tail" /\ UNCHANGED <<cur, next, xfer>>
      BY <1>1, <1>10 DEF EndReceive, AsksForNext, TypeOK, BucketTypeOK
    <2>2. Reads(r)' = Reads(r)
      BY <2>1 DEF Reads
    <2>3. Asked(r)' = Asked(r) /\ Ending(r) = 0 /\ Ending(r)' = 1
      BY <1>2, <2>1 DEF Asked, Ending
    <2>4. Handed(r) < Handed(r)' /\ Handed(r)' \in Int
      BY <1>2, <1>5, <2>3 DEF Handed
    <2> QED
      BY <1>4, <1>5, <1>7, <2>2, <2>4, OnePart
  <1>11. CASE Transfer(r)
    <2>1. xfer'[r].moved = xfer[r].moved + 1 /\ UNCHANGED <<cur, next, pc>>
      BY <1>1, <1>11 DEF Transfer, TypeOK
    <2>2. Reads(r) < Reads(r)' /\ Reads(r)' \in Int
      BY <1>5, <2>1 DEF Reads
    <2>3. Handed(r)' = Handed(r)
      BY <1>2, <2>1 DEF Handed, Asked, Ending
    <2> QED
      BY <1>4, <1>5, <1>7, <2>2, <2>3, OnePart
  <1> QED
    BY <1>8, <1>9, <1>10, <1>11

\* The bucket the inference worker is handed before the end is not empty.
BoxInv == \A r \in Receivers : sock[r] = "box" /\ pc[r] # "done" => box[r].from < box[r].to

LEMMA BoxStep ==
  ASSUME TypeOK, RelayInv, BoxInv, [Next]_vars
  PROVE  BoxInv'
  <1> SUFFICES ASSUME NEW r \in Receivers, sock'[r] = "box", pc'[r] # "done"
               PROVE  box'[r].from < box'[r].to
    BY DEF BoxInv
  <1>1. r \in Ranks /\ r # 0 /\ ThreadInv(r) /\ AdapterInv(r)
    BY ReceiverTypes DEF RelayInv, ReceiverInv
  <1>2. CASE sock[r] = "box"
    <2>1. pc[r] \in {"work", "direct", "done"}
      BY <1>1, <1>2 DEF AdapterInv
    <2>2. box'[r] = box[r] /\ pc[r] # "done"
      <3>1. CASE Trainer \/ UNCHANGED vars \/ \E k \in Ranks : ExecuteCopy(k)
        BY <1>1, <3>1 DEF Trainer, Fill, SendBucket, EndSend, ExecuteCopy, adapter, nixlVars,
             vars, bucketVars, TypeOK, BucketTypeOK
      <3>2. ASSUME NEW k \in Receivers,
                   BeginRead(k) \/ SwapBuckets(k) \/ EndReceive(k) \/ Transfer(k)
            PROVE  box'[r] = box[r] /\ pc[r] # "done"
        BY <1>1, <1>2, <3>2 DEF BeginRead, SwapBuckets, EndReceive, Transfer, AsksForNext, adapter,
             TypeOK, BucketTypeOK
      <3>3. ASSUME NEW k \in Receivers, Adapter(k)
            PROVE  box'[r] = box[r] /\ pc[r] # "done"
        <4>1. CASE k = r
          BY <1>1, <1>2, <2>1, <3>3, <4>1 DEF Adapter, TakeSmall, TakeChunk, Flush, SendLarge,
               SendTail, Takes
        <4>2. CASE k # r
          BY <1>1, <3>3, <4>2 DEF Adapter, TakeSmall, TakeChunk, Flush, SendLarge, SendTail,
               TypeOK, BucketTypeOK
        <4> QED
          BY <4>1, <4>2
      <3>4. ASSUME NEW k \in Receivers, Load(k)
            PROVE  box'[r] = box[r] /\ pc[r] # "done"
        BY <3>4 DEF Load, TypeOK, BucketTypeOK
      <3> QED
        BY <3>1, <3>2, <3>3, <3>4 DEF Next, Receiver
    <2> QED
      BY <1>2, <2>2 DEF BoxInv
  <1>3. CASE sock[r] # "box"
    <2>1. Flush(r)
      <3>1. sock' # sock
        BY <1>3
      <3>2. ~Trainer /\ ~UNCHANGED vars /\ \A k \in Ranks : ~ExecuteCopy(k)
        BY <3>1 DEF Trainer, Fill, SendBucket, EndSend, ExecuteCopy, adapter, vars, bucketVars
      <3>3. \A k \in Receivers : ~BeginRead(k) /\ ~SwapBuckets(k) /\ ~EndReceive(k) /\ ~Transfer(k)
        BY <3>1 DEF BeginRead, SwapBuckets, EndReceive, Transfer, adapter
      <3>4. \A k \in Receivers : ~Load(k)
        BY <1>3 DEF Load, TypeOK, BucketTypeOK
      <3>5. ASSUME NEW k \in Receivers, Adapter(k)
            PROVE  Flush(r)
        <4>1. k = r
          BY <1>3, <3>5 DEF Adapter, TakeSmall, TakeChunk, Flush, SendLarge, SendTail,
               TypeOK, BucketTypeOK
        <4>2. ~TakeSmall(r) /\ ~TakeChunk(r)
          BY <3>1 DEF TakeSmall, TakeChunk
        <4>3. ~SendLarge(r)
          BY <1>3 DEF SendLarge, TypeOK, BucketTypeOK
        <4>4. ~SendTail(r)
          BY <1>1 DEF SendTail, TypeOK, BucketTypeOK
        <4> QED
          BY <3>5, <4>1, <4>2, <4>3, <4>4 DEF Adapter
      <3> QED
        BY <3>2, <3>3, <3>4, <3>5 DEF Next, Receiver
    <2>2. box' = box /\ pc' = pc /\ sock[r] = "none"
      BY <2>1 DEF Flush
    <2>3. CASE pc[r] = "direct" /\ box[r].from < box[r].to
      BY <2>2, <2>3
    <2>4. CASE Takes(r) /\ ~IsLarge(pos[r]) /\ ChunkEnd(pos[r]) - box[r].from > BucketSize
      <3>1. /\ pos[r] \in 0..Total /\ cur[r].to \in 0..Total
            /\ box[r].from \in 0..Total /\ box[r].to \in 0..Total
        BY <1>1, ReceiverTypes, RankTypes
      <3>2. pos[r] \in 0..Total - 1
        BY <2>4, <3>1, Constants DEF Takes
      <3>3. /\ ChunkEnd(pos[r]) - pos[r] <= BucketSize /\ ChunkEnd(pos[r]) \in 1..Total
            /\ pos[r] = Start(pos[r]) /\ Start(pos[r]) \in Ends \cup {0}
        BY <1>1, <2>4, <3>2, Chunk, NextCut, Weight DEF ThreadInv
      <3>4. pc[r] = "work"
        BY <2>4 DEF Takes
      <3>5. ~Held(r)
        BY <2>2, <3>3, <3>4 DEF Held
      <3>6. box[r].to = pos[r] /\ box[r].from <= box[r].to
        BY <1>1, <3>5 DEF AdapterInv
      <3>7. box[r].from # box[r].to
        BY <2>4, <3>1, <3>3, <3>6, Constants
      <3> QED
        BY <2>2, <3>1, <3>6, <3>7, Constants
    <2> QED
      BY <2>1, <2>3, <2>4 DEF Flush
  <1> QED
    BY <1>2, <1>3

\* The steps of the adapter and of the inference worker.
LEMMA AdapterAdvances ==
  ASSUME TypeOK, RelayInv, BoxInv, NEW r \in Receivers, Adapter(r) \/ Load(r), UNCHANGED nixlVars
  PROVE  Advances(r)
  <1>1. r \in Ranks /\ r # 0 /\ ThreadInv(r) /\ AdapterInv(r)
    BY ReceiverTypes DEF RelayInv, ReceiverInv
  <1>2. /\ UNCHANGED <<cur, next, xfer>>
        /\ \A k \in Ranks \ {r} : copies'[k] = copies[k] /\ pc'[k] = pc[k]
        /\ \A k \in Receivers \ {r} : pos'[k] = pos[k] /\ box'[k] = box[k] /\ sock'[k] = sock[k]
    BY DEF Adapter, TakeSmall, TakeChunk, Flush, SendLarge, SendTail, Load, QueueCopy, nixlVars,
         TypeOK, BucketTypeOK
  <1>3. \A k \in Ranks : k # 0 => k \in Receivers
    BY Constants DEF Ranks, Receivers
  <1>4. \A k \in Ranks \ {r} : Progress(k)' = Progress(k)
    BY <1>2, <1>3, ProgressFrame
  <1>5. /\ Len(copies[r]) \in Nat /\ pos[r] \in Nat /\ box[r].from \in Nat /\ box[r].to \in Nat
        /\ Asked(r) \in Nat /\ Ending(r) \in Nat
        /\ Reads(r) \in Int /\ Copied(r) \in Int /\ Handed(r) \in Int
        /\ copies[r] \in Seq(Copy)
    BY <1>1, ProgressTypes, RankTypes
  <1>6. Reads(r)' = Reads(r)
    BY <1>2 DEF Reads
  <1>7. CASE TakeSmall(r) \/ TakeChunk(r)
    <2> DEFINE q == ChunkEnd(pos[r])
    <2>1. Takes(r) /\ pos[r] \in 0..Total - 1
      <3>1. Takes(r) /\ pos[r] < cur[r].to
        BY <1>7 DEF TakeSmall, TakeChunk, Takes
      <3>2. cur[r].to \in 0..Total /\ Total \in Nat /\ pos[r] \in Nat
        BY <1>1, <1>5, RankTypes, Constants
      <3> QED
        BY <3>1, <3>2
    <2>2. q \in Nat /\ pos[r] < q
      BY <2>1, Chunk
    <2>3. pos'[r] = q
      BY <1>7 DEF TakeSmall, TakeChunk, TypeOK, BucketTypeOK
    <2>4. \E c : copies'[r] = Append(copies[r], c)
      <3>1. \E c : copies' = [copies EXCEPT ![r] = Append(copies[r], c)]
        BY <1>7, Zenon DEF TakeSmall, TakeChunk, QueueCopy
      <3>2. copies \in [Ranks -> Seq(Copy)]
        BY DEF TypeOK, BucketTypeOK
      <3> QED
        BY <1>1, <3>1, <3>2
    <2>5. Len(copies'[r]) = Len(copies[r]) + 1
      BY <1>5, <2>4
    <2>6. Copied(r) < Copied(r)' /\ Copied(r)' \in Int
      <3>1. Copied(r) = 2 * pos[r] - Len(copies[r]) /\ Copied(r)' = 2 * q - (Len(copies[r]) + 1)
        BY <2>3, <2>5 DEF Copied
      <3>2. \A p, n, l \in Nat :
              p < n => 2 * p - l < 2 * n - (l + 1) /\ 2 * n - (l + 1) \in Int
        OBVIOUS
      <3> HIDE DEF q
      <3> QED
        BY <1>5, <2>2, <3>1, <3>2
    <2>7. /\ pc[r] = "work" /\ pc'[r] \in {"work", "direct"} /\ sock[r] = "none" /\ sock' = sock
          /\ box'[r].from = box[r].from
      BY <1>1, <1>7, <2>1, ReceiverTypes DEF TakeSmall, TakeChunk, Takes, TypeOK, BucketTypeOK,
           Interval
    <2>8. Handed(r)' = Handed(r)
      BY <2>7 DEF Handed, Asked, Ending
    <2> QED
      BY <1>4, <1>5, <1>6, <2>6, <2>8, OnePart
  <1>8. CASE Flush(r) \/ SendLarge(r)
    <2>1. /\ sock[r] = "none" /\ pc[r] \in {"work", "direct"} /\ UNCHANGED <<copies, pos, box>>
          /\ sock'[r] # "none" /\ pc'[r] \in {"work", "direct"}
      BY <1>1, <1>8 DEF Flush, SendLarge, Takes, TypeOK, BucketTypeOK
    <2>2. Asked(r) = 0 /\ Asked(r)' = 1 /\ Ending(r) = 0 /\ Ending(r)' = 0
      BY <2>1 DEF Asked, Ending
    <2>3. Handed(r) < Handed(r)' /\ Handed(r)' \in Int
      <3>1. Handed(r) = 2 * box[r].from + 0 + 0 /\ Handed(r)' = 2 * box[r].from + 1 + 0
        BY <2>1, <2>2 DEF Handed
      <3>2. \A f \in Nat : 2 * f + 0 + 0 < 2 * f + 1 + 0 /\ 2 * f + 1 + 0 \in Int
        OBVIOUS
      <3>3. /\ 2 * box[r].from + 0 + 0 < 2 * box[r].from + 1 + 0
            /\ 2 * box[r].from + 1 + 0 \in Int
        BY <1>5, <3>2
      <3> QED
        BY <3>1, <3>3
    <2>4. Copied(r)' = Copied(r)
      BY <2>1 DEF Copied
    <2> QED
      BY <1>4, <1>5, <1>6, <2>3, <2>4, OnePart
  <1>9. CASE SendTail(r)
    <2>1. /\ pc[r] = "tail" /\ pc'[r] = "done" /\ sock'[r] = "box" /\ UNCHANGED <<copies, pos, box>>
      BY <1>1, <1>9 DEF SendTail, TypeOK, BucketTypeOK
    <2>2. sock[r] = "none"
      BY <1>1, <2>1, ReceiverTypes DEF AdapterInv
    <2>3. Asked(r) = 0 /\ Asked(r)' = 0 /\ Ending(r) = 1 /\ Ending(r)' = 2
      BY <2>1, <2>2 DEF Asked, Ending
    <2>4. Handed(r) < Handed(r)' /\ Handed(r)' \in Int
      BY <1>5, <2>1, <2>3 DEF Handed
    <2>5. Copied(r)' = Copied(r)
      BY <2>1 DEF Copied
    <2> QED
      BY <1>4, <1>5, <1>6, <2>4, <2>5, OnePart
  <1>10. CASE Load(r)
    <2>1. UNCHANGED <<copies, pos, pc>> /\ sock'[r] = "none"
      BY <1>10 DEF Load, TypeOK, BucketTypeOK
    <2>2. Copied(r)' = Copied(r)
      BY <2>1 DEF Copied
    <2>3. CASE sock[r] = "box"
      <3>1. box'[r].from = box[r].to
        BY <1>10, <2>3 DEF Load, TypeOK, BucketTypeOK, Empty
      <3>2. box[r].from <= box[r].to /\ pc[r] \in {"work", "direct", "done"}
        BY <1>1, <2>3 DEF AdapterInv
      <3>3. CASE pc[r] = "done"
        <4>1. Asked(r) = 0 /\ Asked(r)' = 0 /\ Ending(r) = 2 /\ Ending(r)' = 3
          BY <2>1, <2>3, <3>3 DEF Asked, Ending
        <4>2. \A f, t \in Nat : f <= t => 2 * f + 0 + 2 < 2 * t + 0 + 3 /\ 2 * t + 0 + 3 \in Int
          OBVIOUS
        <4>3. /\ 2 * box[r].from + 0 + 2 < 2 * box[r].to + 0 + 3
              /\ 2 * box[r].to + 0 + 3 \in Int
          BY <1>5, <3>2, <4>2
        <4>4. Handed(r) < Handed(r)' /\ Handed(r)' \in Int
          BY <3>1, <4>1, <4>3 DEF Handed
        <4> QED
          BY <1>4, <1>5, <1>6, <2>2, <4>4, OnePart
      <3>4. CASE pc[r] # "done"
        <4>1. Asked(r) = 1 /\ Asked(r)' = 0 /\ Ending(r) = 0 /\ Ending(r)' = 0
          BY <2>1, <2>3, <3>2, <3>4 DEF Asked, Ending
        <4>2. box[r].from < box[r].to
          BY <2>3, <3>4 DEF BoxInv
        <4>3. Handed(r) < Handed(r)' /\ Handed(r)' \in Int
          BY <1>5, <3>1, <4>1, <4>2 DEF Handed
        <4> QED
          BY <1>4, <1>5, <1>6, <2>2, <4>3, OnePart
      <3> QED
        BY <3>3, <3>4
    <2>4. CASE sock[r] = "large"
      <3>1. box'[r].from = pos[r]
        BY <1>10, <2>4 DEF Load, TypeOK, BucketTypeOK, Empty
      <3>2. /\ box[r].from = box[r].to /\ pc[r] = "work"
            /\ pos[r] > 0 /\ box[r].to = Start(pos[r] - 1)
        BY <1>1, <2>4 DEF AdapterInv, Held
      <3>3. box[r].from < pos[r]
        <4>1. pos[r] \in 0..Total
          BY <1>1, ReceiverTypes
        <4>2. pos[r] - 1 \in 0..Total - 1
          BY <3>2, <4>1, Constants
        <4>3. Start(pos[r] - 1) <= pos[r] - 1
          BY <4>2, Weight
        <4> QED
          BY <1>5, <3>2, <4>3
      <3>4. Asked(r) = 1 /\ Asked(r)' = 0 /\ Ending(r) = 0 /\ Ending(r)' = 0
        BY <2>1, <2>4, <3>2 DEF Asked, Ending
      <3>5. Handed(r) < Handed(r)' /\ Handed(r)' \in Int
        BY <1>5, <3>1, <3>3, <3>4 DEF Handed
      <3> QED
        BY <1>4, <1>5, <1>6, <2>2, <3>5, OnePart
    <2> QED
      BY <1>10, <2>3, <2>4 DEF Load
  <1> QED
    BY <1>7, <1>8, <1>9, <1>10 DEF Adapter

\* A copy that the device executes.
LEMMA CopyAdvances ==
  ASSUME TypeOK, NEW r \in Ranks, ExecuteCopy(r), UNCHANGED nixlVars
  PROVE  Advances(r)
  <1>1. UNCHANGED <<cur, pc, pos, box, sock, next, xfer>>
    BY DEF ExecuteCopy, nixlVars
  <1>2. copies[r] # <<>> /\ copies' = [copies EXCEPT ![r] = Tail(@)]
    BY DEF ExecuteCopy
  <1>3. copies'[r] = Tail(copies[r]) /\ \A k \in Ranks \ {r} : copies'[k] = copies[k]
    BY <1>2 DEF TypeOK, BucketTypeOK
  <1>4. \A k \in Ranks \ {r} : Progress(k)' = Progress(k)
    BY <1>1, <1>3, ProgressFrame
  <1>5. /\ Len(copies[r]) \in Nat /\ cur[r].from \in Nat /\ cur[r].to \in Nat
        /\ copies[r] \in Seq(Copy)
    BY ProgressTypes, RankTypes
  <1>6. Len(copies'[r]) = Len(copies[r]) - 1
    BY <1>2, <1>3, <1>5, HeadTailProperties
  <1>7. CASE r = 0
    <2> DEFINE w == IF pc[0] = "done" THEN 1 ELSE 0
    <2>1. w \in Nat
      OBVIOUS
    <2>2. /\ Progress(0) = 2 * cur[0].to + cur[0].from + w - Len(copies[0])
          /\ Progress(0)' = 2 * cur[0].to + cur[0].from + w - (Len(copies[0]) - 1)
      BY <1>1, <1>6, <1>7 DEF Progress
    <2> HIDE DEF w
    <2>3. Len(copies[0]) \in Nat /\ cur[0].from \in Nat /\ cur[0].to \in Nat
      BY <1>5, <1>7
    <2>4. \A t, f, v, l \in Nat : 2 * t + f + v - (l - 1) > 2 * t + f + v - l
      OBVIOUS
    <2>5. Progress(0)' > Progress(0)
      BY <2>1, <2>2, <2>3, <2>4
    <2> QED
      BY <1>4, <1>7, <2>5 DEF Advances
  <1>8. CASE r # 0
    <2>1. r \in Receivers
      BY <1>8, Constants DEF Ranks, Receivers
    <2>2. Reads(r)' = Reads(r) /\ Handed(r)' = Handed(r)
      BY <1>1 DEF Reads, Handed, Asked, Ending
    <2>3. pos[r] \in Nat /\ Reads(r) \in Int /\ Copied(r) \in Int /\ Handed(r) \in Int
      BY <2>1, ProgressTypes
    <2>4. Copied(r) < Copied(r)' /\ Copied(r)' \in Int
      BY <1>1, <1>5, <1>6, <2>3 DEF Copied
    <2> QED
      BY <1>4, <2>1, <2>2, <2>3, <2>4, OnePart
  <1> QED
    BY <1>7, <1>8

\* Every step brings one rank forward and none back: no bucket is read, copied or
\* loaded twice.
EachStepAdvances == [][\E r \in Ranks : Advances(r)]_vars

\* No bucket is read, copied or loaded twice, and no wait is a loop: each step of the
\* transfer brings one rank nearer to its end.
THEOREM StepsAdvance == Spec => EachStepAdvances
  <1>1. Init => BoxInv
    BY DEF Init, BucketInit, BoxInv
  <1>2. TypeOK /\ RelayInv /\ BoxInv /\ [Next]_vars => BoxInv'
    BY BoxStep
  <1>3. TypeOK /\ RelayInv /\ BoxInv /\ [Next]_vars => [\E r \in Ranks : Advances(r)]_vars
    <2> SUFFICES ASSUME TypeOK, RelayInv, BoxInv, Next
                 PROVE  \E r \in Ranks : Advances(r)
      OBVIOUS
    <2>1. 0 \in Ranks /\ \A r \in Receivers : r \in Ranks
      BY Constants DEF Ranks, Receivers
    <2>2. CASE Trainer
      BY <2>1, <2>2, TrainerAdvances
    <2>3. ASSUME NEW r \in Receivers, Receiver(r) \/ Transfer(r) \/ (Load(r) /\ UNCHANGED nixlVars)
          PROVE  Advances(r)
      BY <2>3, ThreadAdvances, AdapterAdvances DEF Receiver
    <2>4. ASSUME NEW r \in Ranks, ExecuteCopy(r) /\ UNCHANGED nixlVars
          PROVE  Advances(r)
      BY <2>4, CopyAdvances
    <2> QED
      BY <2>1, <2>2, <2>3, <2>4 DEF Next
  <1> QED
    BY <1>1, <1>2, <1>3, TypeCorrect, RelayInvariant, PTL DEF Spec, EachStepAdvances

\* There is an end to that, which depends on the sizes only.
MaxProgress == Total * BucketSize + 6 * Total + BucketSize + 4
InBounds == \A r \in Ranks : Progress(r) <= MaxProgress

\* So the transfer takes a bounded number of steps, and ends where nobody can go on:
\* when all ranks have finished.
THEOREM ProgressBounded == Spec => []InBounds
  <1>1. TypeOK => InBounds
    <2> SUFFICES ASSUME TypeOK, NEW r \in Ranks
                 PROVE  Progress(r) <= MaxProgress
      BY DEF InBounds
    <2> DEFINE m == Total * BucketSize
    <2>1. /\ Total \in Nat /\ BucketSize \in Nat /\ m \in Nat
          /\ \A n \in 0..Total : n \in Nat /\ n <= Total
      BY Constants
    <2>2. /\ Len(copies[r]) \in Nat /\ cur[r].from \in Nat /\ cur[r].to \in Nat
          /\ cur[r].from <= Total /\ cur[r].to <= Total
      BY <2>1, ProgressTypes, RankTypes
    <2>3. CASE r = 0
      <3> DEFINE w == IF pc[0] = "done" THEN 1 ELSE 0
      <3>1. w \in Nat /\ w <= 1
        OBVIOUS
      <3>2. Progress(r) = 2 * cur[r].to + cur[r].from + w - Len(copies[r])
        BY <2>3 DEF Progress
      <3>3. MaxProgress = m + 6 * Total + BucketSize + 4
        BY DEF MaxProgress
      <3> HIDE DEF w, m
      <3>4. \A a, b, d, l, t, n, e \in Nat :
              a <= t /\ b <= t /\ d <= 1 => 2 * a + b + d - l <= n + 6 * t + e + 4
        OBVIOUS
      <3>5. 2 * cur[r].to + cur[r].from + w - Len(copies[r]) <= m + 6 * Total + BucketSize + 4
        BY <2>1, <2>2, <3>1, <3>4
      <3> QED
        BY <3>2, <3>3, <3>5
    <2>4. CASE r # 0
      <3> DEFINE a == next[r].to * BucketSize
      <3>1. r \in Receivers
        BY <2>4, Constants DEF Ranks, Receivers
      <3>2. /\ next[r].to \in Nat /\ next[r].to <= Total
            /\ xfer[r].moved \in Nat /\ xfer[r].moved <= BucketSize
            /\ pos[r] \in Nat /\ pos[r] <= Total /\ box[r].from \in Nat /\ box[r].from <= Total
        BY <2>1, <3>1, ReceiverTypes, ProgressTypes
      <3>3. a \in Nat /\ a <= m
        <4>1. CASE next[r].to = Total
          BY <2>1, <4>1
        <4>2. CASE next[r].to < Total
          BY <2>1, <3>2, <4>2, Times
        <4> QED
          BY <2>1, <3>2, <4>1, <4>2
      <3>4. Asked(r) \in Nat /\ Ending(r) \in Nat /\ Asked(r) <= 1 /\ Ending(r) <= 3
        BY DEF Asked, Ending
      <3>5. Progress(r) = (a + next[r].to + xfer[r].moved + cur[r].to)
              + (2 * pos[r] - Len(copies[r])) + (2 * box[r].from + Asked(r) + Ending(r))
        BY <2>4 DEF Progress, Reads, Copied, Handed
      <3>6. MaxProgress = m + 6 * Total + BucketSize + 4
        BY DEF MaxProgress
      <3> HIDE DEF a, m
      <3> DEFINE x == a + next[r].to + xfer[r].moved + cur[r].to
                 y == 2 * pos[r] - Len(copies[r])
                 z == 2 * box[r].from + Asked(r) + Ending(r)
      <3>7. x \in Int /\ x <= m + 2 * Total + BucketSize
        <4>1. \A b, n, v, c, d, t, s \in Nat :
                b <= d /\ n <= t /\ v <= s /\ c <= t
                  => b + n + v + c \in Int /\ b + n + v + c <= d + 2 * t + s
          OBVIOUS
        <4> HIDE DEF x
        <4>2. x = a + next[r].to + xfer[r].moved + cur[r].to
          BY DEF x
        <4> QED
          BY <2>1, <2>2, <3>2, <3>3, <4>1, <4>2
      <3>8. y \in Int /\ y <= 2 * Total
        <4>1. \A n, l, t \in Nat : n <= t => 2 * n - l \in Int /\ 2 * n - l <= 2 * t
          OBVIOUS
        <4>2. /\ pos[r] \in Nat /\ Len(copies[r]) \in Nat /\ Total \in Nat
              /\ pos[r] <= Total
          BY <2>1, <2>2, <3>2
        <4> QED
          BY <4>1, <4>2
      <3>9. z \in Int /\ z <= 2 * Total + 4
        BY <2>1, <3>2, <3>4
      <3>10. Progress(r) = x + y + z
        BY <3>5
      <3> HIDE DEF x, y, z
      <3> QED
        BY <2>1, <3>6, <3>7, <3>8, <3>9, <3>10
    <2> QED
      BY <2>3, <2>4
  <1> QED
    BY <1>1, TypeCorrect, PTL
=============================================================================
