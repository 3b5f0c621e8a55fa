--------------------------- MODULE RingBufferProofs ---------------------------
(***************************************************************************)
(* What the ring buffer functions do, for every buffer size and every      *)
(* range: the iovec lists name the right bytes in the right order at every *)
(* place of the wrap-around, and appending, reading and trimming act on    *)
(* the queue of bytes that a range stands for.                             *)
(***************************************************************************)
EXTENDS RingBuffer, SequenceTheorems, TLAPS

(* A sum of two in-range indices wraps around at most once, so the modulus *)
(* in ring_buffer_ltrim is a single subtraction.                           *)
LEMMA ModIsWrap ==
  ASSUME NEW i \in 0 .. 2 * BufSize - 1
  PROVE  i % BufSize = Wrap(i)
<1>1. CASE i < BufSize
  BY <1>1, BufSizeAssumption, SMT DEF Wrap
<1>2. CASE i >= BufSize
  <2>1. i = BufSize * 1 + (i - BufSize) /\ i - BufSize \in 0 .. BufSize - 1
    BY <1>2, BufSizeAssumption, SMT
  <2> QED BY <1>2, <2>1, BufSizeAssumption, SMT DEF Wrap
<1> QED BY <1>1, <1>2, BufSizeAssumption, SMT

(* set_iovec_used lists the bytes of the range from its start on. *)
LEMMA UsedSlots ==
  ASSUME NEW r \in Ranges, NEW i \in 0 .. r.len - 1
  PROVE  Slot(IovecUsed(r), i) = Wrap(r.start + i)
BY BufSizeAssumption, SMT DEF Slot, IovecUsed, Segment, Wrap, End, Ranges, Index

LEMMA UsedCapacity ==
  ASSUME NEW r \in Ranges
  PROVE  Capacity(IovecUsed(r)) = r.len
BY BufSizeAssumption, SMT DEF Capacity, IovecUsed, Segment, End, Ranges, Index

LEMMA RewoundType ==
  ASSUME NEW r \in Ranges
  PROVE  /\ Rewound(r) \in Ranges
         /\ Rewound(r).len = r.len
         /\ Rewound(r).shutdown = r.shutdown
         /\ r.len # 0 => Rewound(r) = r
         /\ r.len = 0 => Rewound(r).start = 0
BY BufSizeAssumption, SMT DEF Rewound, Ranges, Index

(* set_iovec_unused lists exactly the other bytes, from the end of the     *)
(* range on.                                                               *)
LEMMA UnusedCapacity ==
  ASSUME NEW r \in Ranges
  PROVE  Capacity(IovecUnused(r)) = BufSize - r.len
<1> DEFINE q == Rewound(r)
<1>1. q \in Ranges /\ q.len = r.len /\ (r.len = 0 => q.start = 0)
  BY RewoundType
<1> HIDE DEF q
<1>2. IovecUnused(r) = IF q.start = 0 THEN << Segment(q.len, BufSize - q.len) >>
                       ELSE IF End(q) >= BufSize
                       THEN << Segment(End(q) - BufSize, q.start - (End(q) - BufSize)) >>
                       ELSE << Segment(End(q), BufSize - End(q)), Segment(0, q.start) >>
  BY DEF IovecUnused, q
<1> QED BY <1>1, <1>2, BufSizeAssumption, SMT DEF Capacity, Segment, End, Ranges, Index

LEMMA UnusedOffsets ==
  ASSUME NEW r \in Ranges
  PROVE  /\ \A i \in 0 .. BufSize - r.len - 1 :
              /\ Wrap(Rewound(r).start + r.len + i) \in Index
              /\ Offset(IovecUnused(r), Wrap(Rewound(r).start + r.len + i)) = i
         /\ \A i \in 0 .. r.len - 1 :
              /\ Wrap(r.start + i) \in Index
              /\ Offset(IovecUnused(r), Wrap(r.start + i)) = BufSize
<1> DEFINE q == Rewound(r)
           v == IovecUnused(r)
<1>1. q \in Ranges /\ q.len = r.len /\ (r.len = 0 => q.start = 0) /\ (r.len # 0 => q = r)
  BY RewoundType
<1> HIDE DEF q
<1>2. v =  IF q.start = 0 THEN << Segment(q.len, BufSize - q.len) >>
                       ELSE IF End(q) >= BufSize
                       THEN << Segment(End(q) - BufSize, q.start - (End(q) - BufSize)) >>
                       ELSE << Segment(End(q), BufSize - End(q)), Segment(0, q.start) >>
  BY DEF IovecUnused, q
<1> HIDE DEF v
<1>3. ASSUME NEW i \in 0 .. BufSize - r.len - 1
      PROVE  /\ Wrap(q.start + r.len + i) \in Index
             /\ Offset(v, Wrap(q.start + r.len + i)) = i
  BY <1>1, <1>2, BufSizeAssumption, SMT DEF Offset, Within, Segment, Wrap, End, Ranges, Index
<1>4. ASSUME NEW i \in 0 .. r.len - 1
      PROVE  /\ Wrap(r.start + i) \in Index
             /\ Offset(v, Wrap(r.start + i)) = BufSize
  <2>1. q = r
    BY <1>1, SMT DEF Ranges
  <2> QED BY <1>1, <1>2, <2>1, BufSizeAssumption, SMT DEF Offset, Within, Segment, Wrap, End, Ranges, Index
<1> QED BY <1>3, <1>4 DEF q, v

-------------------------------------------------------------------------------
(* Dropping the front of a sequence. *)
LEMMA Suffix ==
  ASSUME NEW S, NEW s \in Seq(S), NEW n \in 0 .. Len(s)
  PROVE  /\ SubSeq(s, n + 1, Len(s)) \in Seq(S)
         /\ Len(SubSeq(s, n + 1, Len(s))) = Len(s) - n
         /\ \A i \in 1 .. Len(s) - n : SubSeq(s, n + 1, Len(s))[i] = s[n + i]
<1>1. Len(s) \in Nat
  BY LenProperties
<1>2. \A i \in n + 1 .. Len(s) : s[i] \in S
  <2> TAKE i \in n + 1 .. Len(s)
  <2>1. i \in 1 .. Len(s)
    BY <1>1, SMT
  <2> QED BY <2>1, ElementOfSeq
<1>3. n + 1 \in Int /\ Len(s) \in Int
  BY <1>1, SMT
<1>4. /\ SubSeq(s, n + 1, Len(s)) \in Seq(S)
      /\ Len(SubSeq(s, n + 1, Len(s)))
           = IF n + 1 <= Len(s) THEN Len(s) - (n + 1) + 1 ELSE 0
      /\ \A i \in 1 .. Len(s) - (n + 1) + 1 :
           SubSeq(s, n + 1, Len(s))[i] = s[n + 1 + i - 1]
  BY <1>2, <1>3, SubSeqProperties
<1>5. /\ (IF n + 1 <= Len(s) THEN Len(s) - (n + 1) + 1 ELSE 0) = Len(s) - n
      /\ Len(s) - (n + 1) + 1 = Len(s) - n
      /\ \A i \in 1 .. Len(s) - n : n + 1 + i - 1 = n + i
  BY <1>1, SMT
<1> QED BY <1>4, <1>5

LEMMA SuffixOfConcat ==
  ASSUME NEW S, NEW s \in Seq(S), NEW t \in Seq(S), NEW n \in 0 .. Len(s)
  PROVE  SubSeq(s \o t, n + 1, Len(s) + Len(t)) = SubSeq(s, n + 1, Len(s)) \o t
<1> DEFINE u == SubSeq(s, n + 1, Len(s))
           l == SubSeq(s \o t, n + 1, Len(s) + Len(t))
<1>1. Len(s) \in Nat /\ Len(t) \in Nat /\ n \in Nat
  BY LenProperties, SMT
<1>2. /\ s \o t \in Seq(S) /\ Len(s \o t) = Len(s) + Len(t)
      /\ \A i \in 1 .. Len(s) + Len(t) :
           (s \o t)[i] = IF i <= Len(s) THEN s[i] ELSE t[i - Len(s)]
  BY ConcatProperties
<1>3. /\ l \in Seq(S) /\ Len(l) = Len(s) + Len(t) - n
      /\ \A i \in 1 .. Len(s) + Len(t) - n : l[i] = (s \o t)[n + i]
  <2>1. n \in 0 .. Len(s \o t)
    BY <1>1, <1>2, SMT
  <2> QED BY <1>2, <2>1, Suffix
<1>4. /\ u \in Seq(S) /\ Len(u) = Len(s) - n
      /\ \A i \in 1 .. Len(s) - n : u[i] = s[n + i]
  BY Suffix
<1> HIDE DEF u, l
<1>5. /\ u \o t \in Seq(S) /\ Len(u \o t) = Len(s) - n + Len(t)
      /\ \A i \in 1 .. Len(s) - n + Len(t) :
           (u \o t)[i] = IF i <= Len(s) - n THEN u[i] ELSE t[i - (Len(s) - n)]
  <2>1. u \in Seq(S) /\ Len(u) = Len(s) - n
    BY <1>4
  <2>2. /\ u \o t \in Seq(S) /\ Len(u \o t) = Len(u) + Len(t)
        /\ \A i \in 1 .. Len(u) + Len(t) :
             (u \o t)[i] = IF i <= Len(u) THEN u[i] ELSE t[i - Len(u)]
    BY <2>1, ConcatProperties
  <2> QED BY <2>1, <2>2
<1>6. Len(s) + Len(t) - n = Len(s) - n + Len(t)
  BY <1>1, SMT
<1>7. ASSUME NEW i \in 1 .. Len(s) - n + Len(t)
      PROVE  l[i] = (u \o t)[i]
  <2>1. /\ n + i \in 1 .. Len(s) + Len(t)
        /\ n + i <= Len(s) <=> i <= Len(s) - n
        /\ n + i - Len(s) = i - (Len(s) - n)
        /\ i <= Len(s) - n => i \in 1 .. Len(s) - n
    BY <1>1, SMT
  <2> QED BY <1>2, <1>3, <1>4, <1>5, <1>6, <2>1
<1> QED BY <1>3, <1>5, <1>6, <1>7, SeqEqual DEF u, l

-------------------------------------------------------------------------------
LEMMA ContentsType ==
  ASSUME NEW S, NEW buf \in [Index -> S], NEW r \in Ranges
  PROVE  /\ Contents(buf, r) \in Seq(S)
         /\ Len(Contents(buf, r)) = r.len
         /\ \A i \in 1 .. r.len : Contents(buf, r)[i] = buf[Wrap(r.start + i - 1)]
<1>1. r.len \in Nat
  BY BufSizeAssumption DEF Ranges
<1>2. \A i \in 1 .. r.len : Wrap(r.start + i - 1) \in Index
  BY BufSizeAssumption, SMT DEF Ranges, Index, Wrap
<1>3. Contents(buf, r) \in [1 .. r.len -> S]
  BY <1>2 DEF Contents
<1>4. Contents(buf, r) \in Seq(S)
  BY <1>1, <1>3, IsASeq
<1> QED BY <1>1, <1>3, <1>4, SMT DEF Contents

(* An empty range stands for the same queue wherever it starts. *)
LEMMA RewoundContents ==
  ASSUME NEW S, NEW buf \in [Index -> S], NEW r \in Ranges
  PROVE  Contents(buf, Rewound(r)) = Contents(buf, r)
<1>1. CASE r.len = 0
  BY <1>1, RewoundType DEF Contents
<1>2. CASE r.len # 0
  BY <1>2, RewoundType
<1> QED BY <1>1, <1>2

(* Reading from the front of the occupied bytes reads the queue's front. *)
LEMMA GatherContents ==
  ASSUME NEW S, NEW buf \in [Index -> S], NEW r \in Ranges, NEW n \in 0 .. r.len
  PROVE  Gather(buf, IovecUsed(r), n) = SubSeq(Contents(buf, r), 1, n)
<1>0. n \in Nat /\ r.len \in Nat /\ r.start \in Nat
  BY BufSizeAssumption DEF Ranges, Index
<1>1. \A i \in 1 .. n : buf[Slot(IovecUsed(r), i - 1)] = buf[Wrap(r.start + i - 1)]
  <2> TAKE i \in 1 .. n
  <2>1. i - 1 \in 0 .. r.len - 1
    BY <1>0, SMT
  <2>2. r.start + (i - 1) = r.start + i - 1
    BY <1>0, SMT
  <2> QED BY <2>1, <2>2, UsedSlots
<1>2. Gather(buf, IovecUsed(r), n) = [i \in 1 .. n |-> buf[Wrap(r.start + i - 1)]]
  BY <1>1 DEF Gather
<1>3. SubSeq(Contents(buf, r), 1, n) = [i \in 1 .. n |-> Contents(buf, r)[i]]
  BY <1>0, ContentsType, SMT
<1>4. \A i \in 1 .. r.len : Contents(buf, r)[i] = buf[Wrap(r.start + i - 1)]
  BY ContentsType
<1>5. \A i \in 1 .. n : Contents(buf, r)[i] = buf[Wrap(r.start + i - 1)]
  <2> TAKE i \in 1 .. n
  <2>1. i \in 1 .. r.len
    BY <1>0, SMT
  <2> QED BY <1>4, <2>1
<1> QED BY <1>2, <1>3, <1>5

(* ring_buffer_ltrim drops the queue's front. *)
LEMMA LtrimType ==
  ASSUME NEW r \in Ranges, NEW n \in Nat
  PROVE  /\ Ltrim(r, n) \in Ranges
         /\ Ltrim(r, n).len = IF n >= r.len THEN 0 ELSE r.len - n
         /\ n < r.len => Ltrim(r, n).start = Wrap(r.start + n)
<1>0. r.len \in 0 .. BufSize /\ 0 \in Index /\ 0 \in 0 .. BufSize
  BY BufSizeAssumption, SMT DEF Ranges, Index
<1>1. CASE n >= r.len
  <2>1. Ltrim(r, n) = [r EXCEPT !.start = 0, !.len = 0]
    BY <1>1 DEF Ltrim
  <2>2. /\ [r EXCEPT !.start = 0, !.len = 0] \in Ranges
        /\ [r EXCEPT !.start = 0, !.len = 0].len = 0
    BY <1>0 DEF Ranges
  <2>3. ~(n < r.len)
    BY <1>0, <1>1, SMT
  <2> QED BY <1>1, <2>1, <2>2, <2>3
<1>2. CASE n < r.len
  <2>1. r.start + n \in 0 .. 2 * BufSize - 1
    BY <1>2, BufSizeAssumption, SMT DEF Ranges, Index
  <2>2. (r.start + n) % BufSize = Wrap(r.start + n)
    BY <2>1, ModIsWrap
  <2>3. Wrap(r.start + n) \in Index
    BY <2>1, BufSizeAssumption, SMT DEF Wrap, Index
  <2>4. ~(n >= r.len) /\ r.len - n \in 0 .. BufSize
    BY <1>0, <1>2, BufSizeAssumption, SMT
  <2>5. Ltrim(r, n) = [r EXCEPT !.start = Wrap(r.start + n), !.len = r.len - n]
    BY <2>2, <2>4 DEF Ltrim
  <2>6. [r EXCEPT !.start = Wrap(r.start + n), !.len = r.len - n] \in Ranges
    BY <2>3, <2>4 DEF Ranges
  <2>7. /\ Ltrim(r, n).len = r.len - n
        /\ Ltrim(r, n).start = Wrap(r.start + n)
    BY <2>5 DEF Ranges
  <2> QED BY <2>4, <2>5, <2>6, <2>7
<1> QED BY <1>0, <1>1, <1>2, SMT

LEMMA LtrimContents ==
  ASSUME NEW S, NEW buf \in [Index -> S], NEW r \in Ranges, NEW n \in 0 .. r.len
  PROVE  Contents(buf, Ltrim(r, n)) = SubSeq(Contents(buf, r), n + 1, r.len)
<1> DEFINE t == Ltrim(r, n)
<1>0. n \in Nat /\ r.len \in Nat /\ r.start \in Index /\ r.len <= BufSize
  BY BufSizeAssumption DEF Ranges
<1>1. /\ t \in Ranges
      /\ t.len = r.len - n
      /\ n < r.len => t.start = Wrap(r.start + n)
  <2>1. /\ t \in Ranges
        /\ t.len = IF n >= r.len THEN 0 ELSE r.len - n
        /\ n < r.len => t.start = Wrap(r.start + n)
    BY <1>0, LtrimType
  <2>2. (IF n >= r.len THEN 0 ELSE r.len - n) = r.len - n
    BY <1>0, SMT
  <2> QED BY <2>1, <2>2
<1> HIDE DEF t
<1>2. SubSeq(Contents(buf, r), n + 1, r.len)
        = [i \in 1 .. r.len - n |-> Contents(buf, r)[n + i]]
  BY <1>0, ContentsType, SMT
<1>3. \A i \in 1 .. r.len - n : Contents(buf, r)[n + i] = buf[Wrap(r.start + (n + i) - 1)]
  <2> TAKE i \in 1 .. r.len - n
  <2>1. n + i \in 1 .. r.len
    BY <1>0, SMT
  <2> QED BY <2>1, ContentsType
<1>4. \A i \in 1 .. r.len - n : Wrap(r.start + (n + i) - 1) = Wrap(t.start + i - 1)
  BY <1>0, <1>1, BufSizeAssumption, SMTT(20) DEF Wrap, Index
<1>5. Contents(buf, t) = [i \in 1 .. r.len - n |-> buf[Wrap(t.start + i - 1)]]
  BY <1>1 DEF Contents
<1> QED BY <1>2, <1>3, <1>4, <1>5 DEF t

(* Writing into the free bytes and extending the range adds to the queue's *)
(* end and leaves the rest of it alone.                                    *)
LEMMA ScatterType ==
  ASSUME NEW S, NEW buf \in [Index -> S], NEW iov, NEW data \in Seq(S),
         \A p \in Index : Offset(iov, p) \in Nat
  PROVE  Scatter(buf, iov, data) \in [Index -> S]
<1>1. ASSUME NEW p \in Index, Offset(iov, p) < Len(data)
      PROVE  data[Offset(iov, p) + 1] \in S
  <2>1. Offset(iov, p) + 1 \in 1 .. Len(data)
    BY <1>1, LenProperties, SMT
  <2> QED BY <2>1, ElementOfSeq
<1> QED BY <1>1 DEF Scatter

LEMMA UnusedOffsetType ==
  ASSUME NEW r \in Ranges, NEW p \in Index
  PROVE  Offset(IovecUnused(r), p) \in 0 .. BufSize
<1> DEFINE q == Rewound(r)
<1>1. q \in Ranges /\ q.len = r.len /\ (r.len = 0 => q.start = 0)
  BY RewoundType
<1> HIDE DEF q
<1>2. IovecUnused(r) = IF q.start = 0 THEN << Segment(q.len, BufSize - q.len) >>
                       ELSE IF End(q) >= BufSize
                       THEN << Segment(End(q) - BufSize, q.start - (End(q) - BufSize)) >>
                       ELSE << Segment(End(q), BufSize - End(q)), Segment(0, q.start) >>
  BY DEF IovecUnused, q
<1> QED BY <1>1, <1>2, BufSizeAssumption, SMT DEF Offset, Within, Segment, End, Ranges, Index

LEMMA ScatterContents ==
  ASSUME NEW S, NEW buf \in [Index -> S], NEW r \in Ranges, NEW data \in Seq(S),
         Len(data) <= BufSize - r.len
  PROVE  /\ Scatter(buf, IovecUnused(r), data) \in [Index -> S]
         /\ Extend(Rewound(r), Len(data)) \in Ranges
         /\ Contents(Scatter(buf, IovecUnused(r), data), Extend(Rewound(r), Len(data)))
              = Contents(buf, r) \o data
         /\ Contents(Scatter(buf, IovecUnused(r), data), r) = Contents(buf, r)
<1> DEFINE q == Rewound(r)
           e == Extend(q, Len(data))
           b == Scatter(buf, IovecUnused(r), data)
           n == Len(data)
<1>0. r.len \in Nat /\ r.start \in Index /\ n \in Nat /\ r.len + n <= BufSize
  BY LenProperties, BufSizeAssumption, SMT DEF Ranges
<1>1. q \in Ranges /\ q.len = r.len /\ (r.len # 0 => q = r)
  BY RewoundType
<1>2. b \in [Index -> S]
  <2>1. \A p \in Index : Offset(IovecUnused(r), p) \in Nat
    BY UnusedOffsetType, BufSizeAssumption
  <2> QED BY <2>1, ScatterType
<1>3. e \in Ranges /\ e.start = q.start /\ e.len = r.len + n
  <2>1. r.len + n \in 0 .. BufSize
    BY <1>0, BufSizeAssumption, SMT
  <2>2. e = [q EXCEPT !.len = r.len + n]
    BY <1>1 DEF Extend
  <2> HIDE DEF q, n, e
  <2> QED BY <1>1, <2>1, <2>2 DEF Ranges
<1>4. \A i \in 1 .. r.len : b[Wrap(r.start + i - 1)] = buf[Wrap(r.start + i - 1)]
  <2> TAKE i \in 1 .. r.len
  <2>1. i - 1 \in 0 .. r.len - 1 /\ r.start + (i - 1) = r.start + i - 1
    BY <1>0, SMT DEF Index
  <2>2. /\ Wrap(r.start + i - 1) \in Index
        /\ Offset(IovecUnused(r), Wrap(r.start + i - 1)) = BufSize
    BY <2>1, UnusedOffsets
  <2>3. ~(BufSize < n)
    BY <1>0, BufSizeAssumption, SMT
  <2> QED BY <2>2, <2>3 DEF Scatter
<1>5. \A i \in 1 .. n : b[Wrap(q.start + (r.len + i) - 1)] = data[i]
  <2> TAKE i \in 1 .. n
  <2>1. /\ i - 1 \in 0 .. BufSize - r.len - 1 /\ i - 1 < n /\ i - 1 + 1 = i
        /\ q.start + r.len + (i - 1) = q.start + (r.len + i) - 1
    <3> HIDE DEF q
    <3> QED BY <1>0, <1>1, BufSizeAssumption, SMT DEF Index, Ranges
  <2>2. /\ Wrap(q.start + (r.len + i) - 1) \in Index
        /\ Offset(IovecUnused(r), Wrap(q.start + (r.len + i) - 1)) = i - 1
    BY <2>1, UnusedOffsets
  <2> QED BY <2>1, <2>2 DEF Scatter
<1> HIDE DEF b, e, q
<1>6. /\ Contents(b, e) = [i \in 1 .. r.len + n |-> b[Wrap(q.start + i - 1)]]
      /\ Contents(b, r) = [i \in 1 .. r.len |-> b[Wrap(r.start + i - 1)]]
      /\ Contents(buf, r) = [i \in 1 .. r.len |-> buf[Wrap(r.start + i - 1)]]
  BY <1>3 DEF Contents
<1>7. Contents(b, r) = Contents(buf, r)
  BY <1>4, <1>6
<1>8. Contents(b, e) = Contents(buf, r) \o data
  <2>1. /\ Contents(buf, r) \o data \in Seq(S)
        /\ Len(Contents(buf, r) \o data) = r.len + n
        /\ \A i \in 1 .. r.len + n : (Contents(buf, r) \o data)[i]
             = IF i <= r.len THEN Contents(buf, r)[i] ELSE data[i - r.len]
    <3>1. Contents(buf, r) \in Seq(S) /\ Len(Contents(buf, r)) = r.len
      BY ContentsType
    <3> QED BY <3>1, ConcatProperties
  <2>2. /\ Contents(b, e) \in Seq(S) /\ Len(Contents(b, e)) = r.len + n
        /\ \A i \in 1 .. r.len + n : Contents(b, e)[i] = b[Wrap(q.start + i - 1)]
    BY <1>2, <1>3, ContentsType
  <2>3. ASSUME NEW i \in 1 .. r.len + n
        PROVE  Contents(b, e)[i] = (Contents(buf, r) \o data)[i]
    <3>1. CASE i <= r.len
      <4>1. i \in 1 .. r.len /\ q = r
        BY <1>0, <1>1, <3>1, SMT
      <4>2. Contents(b, e)[i] = buf[Wrap(r.start + i - 1)]
        BY <4>1, <2>2, <1>4
      <4>3. Contents(buf, r)[i] = buf[Wrap(r.start + i - 1)]
        BY <4>1, ContentsType
      <4> QED BY <3>1, <4>2, <4>3, <2>1
    <3>2. CASE ~(i <= r.len)
      <4>1. i - r.len \in 1 .. n /\ r.len + (i - r.len) = i
        BY <1>0, <3>2, SMT
      <4>2. b[Wrap(q.start + i - 1)] = data[i - r.len]
        BY <4>1, <1>5
      <4> QED BY <3>2, <4>2, <2>1, <2>2
    <3> QED BY <3>1, <3>2
  <2> QED BY <2>1, <2>2, <2>3, SeqEqual
<1> QED BY <1>2, <1>3, <1>7, <1>8 DEF b, e, q
===============================================================================
