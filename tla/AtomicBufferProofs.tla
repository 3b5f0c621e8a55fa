-------------------------- MODULE AtomicBufferProofs --------------------------
(***************************************************************************)
(* What the stores of a transaction leave alone and what they change, for  *)
(* every buffer: the facts that the proofs about atomic_send and           *)
(* atomic_recv rest on.                                                    *)
(***************************************************************************)
EXTENDS AtomicBuffer, RingBufferProofs

LEMMA BufferFields ==
  ASSUME NEW B, NEW b \in AtomicBuffers(B)
  PROVE  /\ b.state \in TransactionStates
         /\ b.bit \in 0 .. 1
         /\ b.msgLen \in (0 .. BufSize) \cup {Sentinel}
         /\ b.active \in 0 .. 1 /\ 1 - b.active \in 0 .. 1
         /\ 1 - (1 - b.active) = b.active /\ b.active # 1 - b.active
         /\ b.range \in [0 .. 1 -> Ranges]
         /\ b.range[b.bit] \in Ranges
         /\ ActiveRange(b) \in Ranges
         /\ InactiveRange(b) \in Ranges
         /\ b.buf \in [Index -> B]
<1>1. /\ b.state \in TransactionStates
      /\ b.bit \in 0 .. 1
      /\ b.msgLen \in (0 .. BufSize) \cup {Sentinel}
      /\ b.active \in 0 .. 1
      /\ b.range \in [0 .. 1 -> Ranges]
      /\ b.buf \in [Index -> B]
  BY DEF AtomicBuffers
<1>2. 1 - b.active \in 0 .. 1 /\ 1 - (1 - b.active) = b.active /\ b.active # 1 - b.active
  BY <1>1, SMT
<1> QED BY <1>1, <1>2 DEF ActiveRange, InactiveRange

LEMMA PrefixType ==
  ASSUME NEW S, NEW s \in Seq(S), NEW n \in 1 .. Len(s)
  PROVE  SubSeq(s, 1, n) \in Seq(S)
<1>1. Len(s) \in Nat /\ n \in Int /\ \A i \in 1 .. n : i \in 1 .. Len(s)
  BY LenProperties, SMT
<1>2. \A i \in 1 .. n : s[i] \in S
  BY <1>1, ElementOfSeq
<1> QED BY <1>1, <1>2, SubSeqProperties

LEMMA ExtendType ==
  ASSUME NEW r \in Ranges, NEW n \in Nat, r.len + n <= BufSize
  PROVE  /\ Extend(r, n) \in Ranges
         /\ Extend(r, n).len = r.len + n /\ Extend(r, n).start = r.start
         /\ Extend(r, 0) = r
<1>1. r.len + n \in 0 .. BufSize /\ r.len + 0 = r.len
  BY BufSizeAssumption, SMT DEF Ranges
<1> QED BY <1>1 DEF Extend, Ranges

LEMMA NewBufferType ==
  ASSUME NEW B, NEW byte \in B
  PROVE  NewBuffer(byte) \in AtomicBuffers(B)
<1>1. EmptyRange \in Ranges
  BY BufSizeAssumption, SMT DEF EmptyRange, Ranges, Index
<1>2. 0 \in 0 .. 1 /\ 0 \in 0 .. BufSize
  BY BufSizeAssumption, SMT
<1> QED BY <1>1, <1>2 DEF NewBuffer, AtomicBuffers, TransactionStates

(* The stores to a single field. *)
LEMMA StateStore ==
  ASSUME NEW B, NEW b \in AtomicBuffers(B), NEW s \in TransactionStates, NEW k \in 0 .. 1
  PROVE  /\ [b EXCEPT !.state = s, !.bit = k] \in AtomicBuffers(B)
         /\ [b EXCEPT !.state = s, !.bit = 0] \in AtomicBuffers(B)
         /\ [b EXCEPT !.active = k] \in AtomicBuffers(B)
<1>1. \A bit \in 0 .. 1 : [b EXCEPT !.state = s, !.bit = bit] \in AtomicBuffers(B)
  BY DEF AtomicBuffers
<1>2. [b EXCEPT !.active = k] \in AtomicBuffers(B)
  BY DEF AtomicBuffers
<1>3. 0 \in 0 .. 1
  OBVIOUS
<1> QED BY <1>1, <1>2, <1>3

LEMMA MsgLenStore ==
  ASSUME NEW B, NEW b \in AtomicBuffers(B), NEW n \in (0 .. BufSize) \cup {Sentinel}
  PROVE  [b EXCEPT !.msgLen = n] \in AtomicBuffers(B)
BY DEF AtomicBuffers

(* Writing the inactive range is invisible through the active one. *)
LEMMA InactiveStore ==
  ASSUME NEW B, NEW b \in AtomicBuffers(B), NEW r \in Ranges
  PROVE  /\ WithInactive(b, r) \in AtomicBuffers(B)
         /\ WithInactive(b, r).state = b.state
         /\ WithInactive(b, r).bit = b.bit
         /\ WithInactive(b, r).msgLen = b.msgLen
         /\ WithInactive(b, r).active = b.active
         /\ WithInactive(b, r).buf = b.buf
         /\ WithInactive(b, r).range[b.active] = b.range[b.active]
         /\ ActiveRange(WithInactive(b, r)) = ActiveRange(b)
         /\ InactiveRange(WithInactive(b, r)) = r
<1> DEFINE ran == [b.range EXCEPT ![1 - b.active] = r]
           w == [b EXCEPT !.range = ran]
<1>1. WithInactive(b, r) = w
  BY DEF WithInactive
<1>2. /\ b.active \in 0 .. 1 /\ 1 - b.active \in 0 .. 1 /\ b.active # 1 - b.active
      /\ b.range \in [0 .. 1 -> Ranges]
  BY BufferFields
<1>3. ran \in [0 .. 1 -> Ranges] /\ ran[1 - b.active] = r /\ ran[b.active] = b.range[b.active]
  BY <1>2
<1> HIDE DEF ran
<1>4. /\ w \in AtomicBuffers(B)
      /\ w.state = b.state /\ w.bit = b.bit /\ w.msgLen = b.msgLen
      /\ w.active = b.active /\ w.buf = b.buf /\ w.range = ran
  BY <1>3 DEF AtomicBuffers
<1> HIDE DEF w
<1> QED BY <1>1, <1>3, <1>4 DEF ActiveRange, InactiveRange

LEMMA ActiveStore ==
  ASSUME NEW B, NEW b \in AtomicBuffers(B), NEW r \in Ranges
  PROVE  /\ WithActive(b, r) \in AtomicBuffers(B)
         /\ WithActive(b, r).state = b.state
         /\ WithActive(b, r).bit = b.bit
         /\ WithActive(b, r).msgLen = b.msgLen
         /\ WithActive(b, r).active = b.active
         /\ WithActive(b, r).buf = b.buf
         /\ ActiveRange(WithActive(b, r)) = r
         /\ InactiveRange(WithActive(b, r)) = InactiveRange(b)
<1> DEFINE ran == [b.range EXCEPT ![b.active] = r]
           w == [b EXCEPT !.range = ran]
<1>1. WithActive(b, r) = w
  BY DEF WithActive
<1>2. /\ b.active \in 0 .. 1 /\ 1 - b.active \in 0 .. 1 /\ b.active # 1 - b.active
      /\ b.range \in [0 .. 1 -> Ranges]
  BY BufferFields
<1>3. /\ ran \in [0 .. 1 -> Ranges] /\ ran[b.active] = r
      /\ ran[1 - b.active] = b.range[1 - b.active]
  BY <1>2
<1> HIDE DEF ran
<1>4. /\ w \in AtomicBuffers(B)
      /\ w.state = b.state /\ w.bit = b.bit /\ w.msgLen = b.msgLen
      /\ w.active = b.active /\ w.buf = b.buf /\ w.range = ran
  BY <1>3 DEF AtomicBuffers
<1> HIDE DEF w
<1> QED BY <1>1, <1>3, <1>4 DEF ActiveRange, InactiveRange

(* Flipping exchanges the roles of the two ranges. *)
LEMMA FlipStore ==
  ASSUME NEW B, NEW b \in AtomicBuffers(B)
  PROVE  /\ Flipped(b) \in AtomicBuffers(B)
         /\ Flipped(b).state = b.state
         /\ Flipped(b).bit = b.bit
         /\ Flipped(b).msgLen = b.msgLen
         /\ Flipped(b).active = 1 - b.active
         /\ Flipped(b).range = b.range
         /\ Flipped(b).buf = b.buf
         /\ ActiveRange(Flipped(b)) = InactiveRange(b)
         /\ InactiveRange(Flipped(b)) = ActiveRange(b)
<1>1. 1 - b.active \in 0 .. 1 /\ 1 - (1 - b.active) = b.active
  BY BufferFields
<1>2. /\ Flipped(b) \in AtomicBuffers(B)
      /\ Flipped(b).state = b.state /\ Flipped(b).bit = b.bit
      /\ Flipped(b).msgLen = b.msgLen /\ Flipped(b).active = 1 - b.active
      /\ Flipped(b).range = b.range /\ Flipped(b).buf = b.buf
  BY <1>1 DEF Flipped, AtomicBuffers
<1> QED BY <1>1, <1>2 DEF ActiveRange, InactiveRange

LEMMA BytesStore ==
  ASSUME NEW B, NEW b \in AtomicBuffers(B), NEW f \in [Index -> B]
  PROVE  /\ [b EXCEPT !.buf = f] \in AtomicBuffers(B)
         /\ ActiveRange([b EXCEPT !.buf = f]) = ActiveRange(b)
         /\ InactiveRange([b EXCEPT !.buf = f]) = InactiveRange(b)
         /\ [b EXCEPT !.buf = f].state = b.state
         /\ [b EXCEPT !.buf = f].bit = b.bit
         /\ [b EXCEPT !.buf = f].msgLen = b.msgLen
         /\ [b EXCEPT !.buf = f].active = b.active
         /\ [b EXCEPT !.buf = f].buf = f
BY DEF AtomicBuffers, ActiveRange, InactiveRange

(* A store on a buffer of the proper type, field by field. *)
LEMMA TightStores ==
  ASSUME NEW B, NEW b \in AtomicBuffers(B)
  PROVE  /\ Prepared(b) \in AtomicBuffers(B) /\ Prepared(b).state = b.state
         /\ Prepared(b).bit = b.bit /\ Prepared(b).msgLen = Sentinel
         /\ Prepared(b).active = b.active /\ Prepared(b).range = b.range
         /\ Prepared(b).buf = b.buf
         /\ Begun(b) \in AtomicBuffers(B) /\ Begun(b).state = "DO_SYSCALL"
         /\ Begun(b).bit = 0 /\ Begun(b).msgLen = b.msgLen
         /\ Begun(b).active = b.active /\ Begun(b).range = b.range /\ Begun(b).buf = b.buf
         /\ RecvSwap(b) \in AtomicBuffers(B) /\ RecvSwap(b).state = "SWAP"
         /\ RecvSwap(b).bit = 1 - b.active /\ RecvSwap(b).msgLen = b.msgLen
         /\ RecvSwap(b).active = b.active /\ RecvSwap(b).range = b.range
         /\ RecvSwap(b).buf = b.buf
         /\ RecvRestored(b) \in AtomicBuffers(B) /\ RecvRestored(b).state = b.state
         /\ RecvRestored(b).bit = b.bit /\ RecvRestored(b).msgLen = b.msgLen
         /\ RecvRestored(b).active = 1 - b.bit /\ RecvRestored(b).range = b.range
         /\ RecvRestored(b).buf = b.buf
         /\ SendSwap(b) \in AtomicBuffers(B) /\ SendSwap(b).state = "SWAP"
         /\ SendSwap(b).bit = b.active /\ SendSwap(b).msgLen = b.msgLen
         /\ SendSwap(b).active = b.active /\ SendSwap(b).range = b.range
         /\ SendSwap(b).buf = b.buf
         /\ SendRestored(b) \in AtomicBuffers(B) /\ SendRestored(b).state = b.state
         /\ SendRestored(b).bit = b.bit /\ SendRestored(b).msgLen = b.msgLen
         /\ SendRestored(b).active = b.bit /\ SendRestored(b).range = b.range
         /\ SendRestored(b).buf = b.buf
         /\ Finished(b) \in AtomicBuffers(B) /\ Finished(b).state = "INIT"
         /\ Finished(b).msgLen = b.msgLen /\ Finished(b).active = b.active
         /\ Finished(b).range = b.range /\ Finished(b).buf = b.buf
<1>0. 0 \in 0 .. 1 /\ b.active \in 0 .. 1 /\ b.bit \in 0 .. 1 /\ 1 - b.active \in 0 .. 1 /\ 1 - b.bit \in 0 .. 1
  <2>1. b.active \in 0 .. 1 /\ b.bit \in 0 .. 1
    BY BufferFields
  <2> QED BY <2>1, SMT
<1> USE <1>0 DEF AtomicBuffers, TransactionStates
<1>1. /\ Prepared(b) \in AtomicBuffers(B) /\ Prepared(b).state = b.state
      /\ Prepared(b).bit = b.bit /\ Prepared(b).msgLen = Sentinel
      /\ Prepared(b).active = b.active /\ Prepared(b).range = b.range
      /\ Prepared(b).buf = b.buf
  BY DEF Prepared
<1>2. /\ Begun(b) \in AtomicBuffers(B) /\ Begun(b).state = "DO_SYSCALL"
      /\ Begun(b).bit = 0 /\ Begun(b).msgLen = b.msgLen
      /\ Begun(b).active = b.active /\ Begun(b).range = b.range /\ Begun(b).buf = b.buf
  BY DEF Begun
<1>3. /\ RecvSwap(b) \in AtomicBuffers(B) /\ RecvSwap(b).state = "SWAP"
      /\ RecvSwap(b).bit = 1 - b.active /\ RecvSwap(b).msgLen = b.msgLen
      /\ RecvSwap(b).active = b.active /\ RecvSwap(b).range = b.range
      /\ RecvSwap(b).buf = b.buf
  BY DEF RecvSwap
<1>4. /\ RecvRestored(b) \in AtomicBuffers(B) /\ RecvRestored(b).state = b.state
      /\ RecvRestored(b).bit = b.bit /\ RecvRestored(b).msgLen = b.msgLen
      /\ RecvRestored(b).active = 1 - b.bit /\ RecvRestored(b).range = b.range
      /\ RecvRestored(b).buf = b.buf
  BY DEF RecvRestored
<1>5. /\ Finished(b) \in AtomicBuffers(B) /\ Finished(b).state = "INIT"
      /\ Finished(b).msgLen = b.msgLen /\ Finished(b).active = b.active
      /\ Finished(b).range = b.range /\ Finished(b).buf = b.buf
  BY DEF Finished
<1>6. /\ SendSwap(b) \in AtomicBuffers(B) /\ SendSwap(b).state = "SWAP"
      /\ SendSwap(b).bit = b.active /\ SendSwap(b).msgLen = b.msgLen
      /\ SendSwap(b).active = b.active /\ SendSwap(b).range = b.range
      /\ SendSwap(b).buf = b.buf
  BY DEF SendSwap
<1>7. /\ SendRestored(b) \in AtomicBuffers(B) /\ SendRestored(b).state = b.state
      /\ SendRestored(b).bit = b.bit /\ SendRestored(b).msgLen = b.msgLen
      /\ SendRestored(b).active = b.bit /\ SendRestored(b).range = b.range
      /\ SendRestored(b).buf = b.buf
  BY DEF SendRestored
<1> QED BY <1>1, <1>2, <1>3, <1>4, <1>5, <1>6, <1>7

(* Receiving data appends it to what the active range stands for, together *)
(* with the result that is stored but not yet in the range.                *)
LEMMA ReceivedBuffer ==
  ASSUME NEW B, NEW b \in AtomicBuffers(B), NEW data \in Seq(B),
         Len(data) <= Capacity(RecvTarget(RecvPrepared(b)))
  PROVE  LET c == RecvDone(RecvPrepared(b), data) IN
         /\ c \in AtomicBuffers(B)
         /\ c.state = b.state /\ c.bit = b.bit /\ c.active = b.active
         /\ c.msgLen = Len(data)
         /\ ActiveRange(c) = Rewound(ActiveRange(b))
         /\ ActiveRange(c).len = ActiveRange(b).len
         /\ ActiveRange(c).shutdown = ActiveRange(b).shutdown
         /\ ActiveRange(b).len + Len(data) <= BufSize
         /\ Contents(c.buf, Extend(ActiveRange(c), Len(data)))
              = Contents(b.buf, ActiveRange(b)) \o data
<1> DEFINE a == ActiveRange(b)
           q == Rewound(a)
           p == RecvPrepared(b)
           n == Len(data)
           f == Scatter(b.buf, IovecUnused(a), data)
           c == [p EXCEPT !.msgLen = n, !.buf = f]
<1>1. a \in Ranges /\ b.buf \in [Index -> B] /\ q \in Ranges /\ q.len = a.len
      /\ q.shutdown = a.shutdown
  BY BufferFields, RewoundType
<1>2. /\ p \in AtomicBuffers(B) /\ p.state = b.state /\ p.bit = b.bit
      /\ p.msgLen = b.msgLen /\ p.active = b.active /\ p.buf = b.buf /\ ActiveRange(p) = q
  BY <1>1, ActiveStore DEF RecvPrepared
<1>3. IovecUnused(q) = IovecUnused(a)
  <2>1. Rewound(q) = q
    BY <1>1, RewoundType DEF Rewound, Ranges
  <2> QED BY <2>1 DEF IovecUnused
<1>4. RecvDone(p, data) = c
  BY <1>2, <1>3 DEF RecvDone, RecvTarget
<1>5. n <= BufSize - a.len
  BY <1>1, <1>2, <1>3, UnusedCapacity DEF RecvTarget
<1>6. n \in Nat /\ a.len \in Nat /\ a.len + n <= BufSize /\ n \in (0 .. BufSize) \cup {Sentinel}
  <2>1. n \in Nat /\ a.len \in Nat
    BY <1>1, LenProperties, BufSizeAssumption DEF Ranges
  <2> HIDE DEF a, n
  <2> QED BY <1>5, <2>1, BufSizeAssumption, SMT
<1>7. f \in [Index -> B] /\ Contents(f, Extend(q, n)) = Contents(b.buf, a) \o data
  <2>1. ASSUME NEW buf \in [Index -> B], NEW r \in Ranges, n <= BufSize - r.len
        PROVE  /\ Scatter(buf, IovecUnused(r), data) \in [Index -> B]
               /\ Contents(Scatter(buf, IovecUnused(r), data), Extend(Rewound(r), n))
                    = Contents(buf, r) \o data
    BY <2>1, ScatterContents
  <2> HIDE DEF a, n
  <2> QED BY <1>1, <1>5, <2>1
<1> HIDE DEF a, q, p, n, f
<1>8. /\ c \in AtomicBuffers(B) /\ c.state = p.state /\ c.bit = p.bit
      /\ c.active = p.active /\ c.msgLen = n /\ c.buf = f /\ c.range = p.range
  BY <1>2, <1>6, <1>7 DEF AtomicBuffers
<1>9. ActiveRange(c) = q
  BY <1>2, <1>8 DEF ActiveRange
<1> HIDE DEF c
<1> QED BY <1>1, <1>2, <1>4, <1>6, <1>7, <1>8, <1>9 DEF a, n, p, q

-------------------------------------------------------------------------------
(* A transformation that appends adds to the end of the buffer's queue and *)
(* does not touch its transaction.                                         *)
LEMMA AppendedBuffer ==
  ASSUME NEW B, NEW b \in AtomicBuffers(B), NEW data \in Seq(B),
         Len(data) <= Capacity(IovecUnused(ActiveRange(b)))
  PROVE  /\ Appended(b, data) \in AtomicBuffers(B)
         /\ Appended(b, data).state = b.state
         /\ Appended(b, data).bit = b.bit
         /\ Appended(b, data).msgLen = b.msgLen
         /\ ActiveRange(Appended(b, data)).len = ActiveRange(b).len + Len(data)
         /\ Contents(Appended(b, data).buf, ActiveRange(Appended(b, data)))
              = Contents(b.buf, ActiveRange(b)) \o data
<1> DEFINE a == ActiveRange(b)
           q == Rewound(a)
           e == Extend(q, Len(data))
           f == Scatter(b.buf, IovecUnused(q), data)
           g == Scatter(b.buf, IovecUnused(a), data)
           w == WithInactive(b, e)
           x == [w EXCEPT !.buf = f]
<1>1. a \in Ranges /\ b.buf \in [Index -> B] /\ q \in Ranges /\ q.len = a.len
  BY BufferFields, RewoundType
<1>2. Len(data) <= BufSize - a.len
  BY <1>1, UnusedCapacity
<1>3. f = g
  <2>1. Rewound(q) = q
    BY <1>1, RewoundType DEF Rewound, Ranges
  <2> QED BY <2>1 DEF IovecUnused
<1>4. /\ g \in [Index -> B] /\ e \in Ranges
      /\ Contents(g, e) = Contents(b.buf, a) \o data
  BY <1>1, <1>2, ScatterContents
<1>5. e.len = a.len + Len(data)
  <2> HIDE DEF q
  <2> QED BY <1>1 DEF Extend, Ranges
<1> HIDE DEF a, q, e, f, g
<1>6. /\ w \in AtomicBuffers(B)
      /\ w.state = b.state /\ w.bit = b.bit /\ w.msgLen = b.msgLen
      /\ InactiveRange(w) = e
  BY <1>4, InactiveStore
<1> HIDE DEF w
<1>7. /\ x \in AtomicBuffers(B)
      /\ x.state = b.state /\ x.bit = b.bit /\ x.msgLen = b.msgLen
      /\ InactiveRange(x) = e /\ x.buf = f
  BY <1>3, <1>4, <1>6, BytesStore
<1>8. Appended(b, data) = Flipped(x)
  BY DEF Appended, x, w, f, e, q, a
<1> HIDE DEF x
<1>9. /\ Flipped(x) \in AtomicBuffers(B)
      /\ Flipped(x).state = x.state /\ Flipped(x).bit = x.bit
      /\ Flipped(x).msgLen = x.msgLen /\ Flipped(x).buf = x.buf
      /\ ActiveRange(Flipped(x)) = InactiveRange(x)
  BY <1>7, FlipStore
<1> QED BY <1>3, <1>4, <1>5, <1>7, <1>8, <1>9 DEF a
===============================================================================
