---------------------------- MODULE RingMoveProofs ----------------------------
(***************************************************************************)
(* Theorems about RingMove, for every size of the buffers: the loop of     *)
(* ring_buffer_move stays inside both arrays, and the two buffers are two  *)
(* queues.                                                                 *)
(***************************************************************************)
EXTENDS RingMove, RingBufferProofs

Data == Byte \cup {Blank}
Segments == [base : Nat, len : Nat]
Iovecs == {v \in Seq(Segments) : Len(v) \in {1, 2}}

(* What set_iovec_unused lists, byte by byte.                              *)
LEMMA UnusedSlots ==
  ASSUME NEW r \in Ranges, NEW i \in 0 .. BufSize - r.len - 1
  PROVE  Slot(IovecUnused(r), i) = Wrap(Rewound(r).start + r.len + i)
<1> DEFINE q == Rewound(r)
<1>1. q \in Ranges /\ q.len = r.len /\ (r.len = 0 => q.start = 0)
  BY RewoundType
<1> HIDE DEF q
<1>2. IovecUnused(r) = IF q.start = 0 THEN << Segment(q.len, BufSize - q.len) >>
                       ELSE IF End(q) >= BufSize
                       THEN << Segment(End(q) - BufSize, q.start - (End(q) - BufSize)) >>
                       ELSE << Segment(End(q), BufSize - End(q)), Segment(0, q.start) >>
  BY DEF IovecUnused, q
<1>3. Slot(IovecUnused(r), i) = Wrap(q.start + r.len + i)
  BY <1>1, <1>2, BufSizeAssumption, SMT DEF Slot, Segment, Wrap, End, Ranges, Index
<1> QED BY <1>3 DEF q

LEMMA UsedType ==
  ASSUME NEW r \in Ranges
  PROVE  IovecUsed(r) \in Iovecs
<1>1. /\ r.start \in Nat /\ r.len \in Nat /\ BufSize - r.start \in Nat /\ 0 \in Nat
      /\ ~(End(r) <= BufSize) => r.len - (BufSize - r.start) \in Nat
  BY BufSizeAssumption, SMT DEF Ranges, Index, End
<1>2. CASE End(r) <= BufSize
  BY <1>1, <1>2 DEF IovecUsed, Iovecs, Segments, Segment
<1>3. CASE ~(End(r) <= BufSize)
  BY <1>1, <1>3 DEF IovecUsed, Iovecs, Segments, Segment
<1> QED BY <1>2, <1>3

LEMMA UnusedType ==
  ASSUME NEW r \in Ranges
  PROVE  IovecUnused(r) \in Iovecs
<1> DEFINE q == Rewound(r)
<1>1. q \in Ranges
  BY RewoundType
<1> HIDE DEF q
<1>2. IovecUnused(r) = IF q.start = 0 THEN << Segment(q.len, BufSize - q.len) >>
                       ELSE IF End(q) >= BufSize
                       THEN << Segment(End(q) - BufSize, q.start - (End(q) - BufSize)) >>
                       ELSE << Segment(End(q), BufSize - End(q)), Segment(0, q.start) >>
  BY DEF IovecUnused, q
<1>3. /\ q.start \in Nat /\ q.len \in Nat /\ BufSize - q.len \in Nat /\ 0 \in Nat
      /\ End(q) >= BufSize => /\ End(q) - BufSize \in Nat
                              /\ q.start - (End(q) - BufSize) \in Nat
      /\ ~(End(q) >= BufSize) => End(q) \in Nat /\ BufSize - End(q) \in Nat
  BY <1>1, BufSizeAssumption, SMT DEF Ranges, Index, End
<1> QED BY <1>2, <1>3 DEF Iovecs, Segments, Segment

-------------------------------------------------------------------------------
(* The loop works on copies of two iovec lists, of which it shortens the   *)
(* current segment: v and i are what is left of iov after its first c      *)
(* bytes.                                                                  *)
Left(iov, v, i, c) ==
  /\ v \in Iovecs /\ Len(v) = Len(iov) /\ c \in Nat
  /\ \/ /\ i = 1 /\ c <= iov[1].len
        /\ v[1] = Segment(iov[1].base + c, iov[1].len - c)
        /\ Len(iov) = 2 => v[2] = iov[2]
     \/ /\ i = 2 /\ Len(iov) = 2 /\ iov[1].len <= c /\ c <= iov[1].len + iov[2].len
        /\ v[2] = Segment(iov[2].base + (c - iov[1].len), iov[2].len - (c - iov[1].len))
     \/ i = Len(iov) + 1 /\ c = Capacity(iov)

LEMMA IovecParts ==
  ASSUME NEW iov \in Iovecs
  PROVE  /\ Len(iov) \in {1, 2} /\ DOMAIN iov = 1 .. Len(iov)
         /\ \A i \in 1 .. Len(iov) :
              /\ iov[i] \in Segments /\ iov[i].base \in Nat /\ iov[i].len \in Nat
              /\ iov[i] = Segment(iov[i].base, iov[i].len)
<1>1. iov \in Seq(Segments) /\ Len(iov) \in {1, 2}
  BY DEF Iovecs
<1>2. ASSUME NEW i \in 1 .. Len(iov)
      PROVE  iov[i] \in Segments
  BY <1>1, <1>2, ElementOfSeq
<1> QED BY <1>1, <1>2 DEF Segments, Segment

LEMMA LeftAll ==
  ASSUME NEW iov \in Iovecs
  PROVE  Left(iov, iov, 1, 0)
<1>1. /\ Len(iov) \in {1, 2} /\ 1 \in 1 .. Len(iov)
      /\ iov[1].base \in Nat /\ iov[1].len \in Nat
      /\ iov[1] = Segment(iov[1].base, iov[1].len)
  BY IovecParts
<1>2. iov[1].base + 0 = iov[1].base /\ iov[1].len - 0 = iov[1].len /\ 0 <= iov[1].len
  BY <1>1
<1> QED BY <1>1, <1>2 DEF Left

(* The bytes of the current segment are the next ones of the list.         *)
LEMMA LeftSlots ==
  ASSUME NEW iov \in Iovecs, NEW v, NEW i, NEW c, Left(iov, v, i, c), i <= Len(v)
  PROVE  /\ i \in 1 .. Len(v) /\ v[i].base \in Nat /\ v[i].len \in Nat
         /\ c + v[i].len <= Capacity(iov)
         /\ \A j \in 0 .. v[i].len - 1 : v[i].base + j = Slot(iov, c + j)
<1>1. /\ Len(iov) \in {1, 2} /\ Len(v) = Len(iov) /\ v \in Iovecs /\ c \in Nat
      /\ \A k \in 1 .. Len(iov) : iov[k].base \in Nat /\ iov[k].len \in Nat
  BY IovecParts DEF Left
<1>2. CASE i = 1
  <2>1. /\ c <= iov[1].len /\ v[1].base = iov[1].base + c /\ v[1].len = iov[1].len - c
        /\ iov[1].base \in Nat /\ iov[1].len \in Nat
    BY <1>1, <1>2 DEF Left, Segment
  <2>2. c + v[1].len <= Capacity(iov)
    BY <1>1, <2>1 DEF Capacity
  <2>3. ASSUME NEW j \in 0 .. v[1].len - 1
        PROVE  v[1].base + j = Slot(iov, c + j)
    BY <1>1, <2>1 DEF Slot
  <2> QED BY <1>1, <1>2, <2>1, <2>2, <2>3
<1>3. CASE i = 2
  <2>1. Len(iov) = 2
    BY <1>1, <1>3
  <2>2. /\ iov[1].len <= c /\ c <= iov[1].len + iov[2].len
        /\ v[2].base = iov[2].base + (c - iov[1].len)
        /\ v[2].len = iov[2].len - (c - iov[1].len)
        /\ iov[1].len \in Nat /\ iov[2].base \in Nat /\ iov[2].len \in Nat
    BY <1>1, <1>3, <2>1 DEF Left, Segment
  <2>3. c + v[2].len <= Capacity(iov)
    BY <1>1, <2>1, <2>2 DEF Capacity
  <2>4. ASSUME NEW j \in 0 .. v[2].len - 1
        PROVE  v[2].base + j = Slot(iov, c + j)
    BY <1>1, <2>2, SMTT(20) DEF Slot
  <2> QED BY <1>1, <1>3, <2>1, <2>2, <2>3, <2>4
<1> QED BY <1>1, <1>2, <1>3 DEF Left

LEMMA LeftNone ==
  ASSUME NEW iov \in Iovecs, NEW v, NEW i, NEW c, Left(iov, v, i, c), ~(i <= Len(v))
  PROVE  c = Capacity(iov)
<1>1. Len(iov) \in {1, 2} /\ Len(v) = Len(iov)
  BY IovecParts DEF Left
<1> QED BY <1>1 DEF Left

(* One memcpy from or to the current segment.                              *)
LEMMA LeftAfter ==
  ASSUME NEW iov \in Iovecs, NEW v, NEW i, NEW c, Left(iov, v, i, c), i <= Len(v),
         NEW n \in 0 .. v[i].len
  PROVE  Left(iov, Shortened(v, i, n), Advanced(v, i, n), c + n)
<1> DEFINE u == Shortened(v, i, n)
<1>0. /\ Len(v) = Len(iov) /\ v \in Iovecs /\ c \in Nat
      /\ i \in 1 .. Len(v) /\ v[i].base \in Nat /\ v[i].len \in Nat
  BY LeftSlots DEF Left
<1>1. /\ Len(iov) \in {1, 2} /\ Len(v) = Len(iov) /\ v \in Iovecs /\ c \in Nat /\ n \in Nat
      /\ i \in 1 .. Len(v) /\ v[i].base \in Nat /\ v[i].len \in Nat
      /\ \A k \in 1 .. Len(iov) : iov[k].base \in Nat /\ iov[k].len \in Nat
  BY <1>0, IovecParts, SMTT(20)
<1>2. /\ v \in Seq(Segments) /\ DOMAIN v = 1 .. Len(v)
      /\ Segment(v[i].base + n, v[i].len - n) \in Segments
  <2>1. v[i].base + n \in Nat /\ v[i].len - n \in Nat
    BY <1>1
  <2> QED BY <1>1, <2>1, IovecParts DEF Iovecs, Segments, Segment
<1>3. u \in Iovecs /\ Len(u) = Len(v) /\ u[i] = Segment(v[i].base + n, v[i].len - n)
      /\ \A k \in 1 .. Len(v) : k # i => u[k] = v[k]
  BY <1>1, <1>2 DEF Shortened, Iovecs
<1>4. c + n \in Nat
  BY <1>1
<1> HIDE DEF u
<1>5. CASE i = 1
  <2>1. /\ c <= iov[1].len /\ v[1].base = iov[1].base + c /\ v[1].len = iov[1].len - c
        /\ Len(iov) = 2 => v[2] = iov[2]
        /\ iov[1].base \in Nat /\ iov[1].len \in Nat
    BY <1>1, <1>5 DEF Left, Segment
  <2>2. CASE v[1].len # n
    <3>1. /\ v[1].base + n = iov[1].base + (c + n) /\ v[1].len - n = iov[1].len - (c + n)
          /\ c + n <= iov[1].len
      BY <1>1, <1>5, <2>1, SMTT(20)
    <3>2. u[1] = Segment(iov[1].base + (c + n), iov[1].len - (c + n))
      BY <1>3, <1>5, <3>1
    <3>3. Len(iov) = 2 => u[2] = iov[2]
      BY <1>1, <1>3, <1>5, <2>1
    <3>4. Advanced(v, i, n) = 1
      BY <1>5, <2>2 DEF Advanced
    <3> QED BY <1>1, <1>3, <1>4, <3>1, <3>2, <3>3, <3>4 DEF Left, u
  <2>3. CASE v[1].len = n
    <3>1. Advanced(v, i, n) = 2 /\ c + n = iov[1].len
      <4>1. n = iov[1].len - c /\ c \in Nat /\ iov[1].len \in Nat
        BY <1>1, <2>1, <2>3
      <4>2. c + n = iov[1].len
        BY <4>1
      <4> QED BY <1>5, <2>3, <4>2 DEF Advanced
    <3>2. CASE Len(iov) = 1
      <4>1. c + n = Capacity(iov)
        BY <3>1, <3>2 DEF Capacity
      <4> QED BY <1>1, <1>3, <1>4, <3>1, <3>2, <4>1 DEF Left, u
    <3>3. CASE Len(iov) = 2
      <4>1. /\ iov[2].base \in Nat /\ iov[2].len \in Nat /\ 2 \in 1 .. Len(iov)
            /\ iov[2] = Segment(iov[2].base, iov[2].len)
        <5>1. 2 \in 1 .. Len(iov)
          BY <3>3
        <5> QED BY <5>1, IovecParts
      <4>2. u[2] = iov[2]
        BY <1>1, <1>3, <1>5, <2>1, <3>3, <4>1
      <4>3. /\ iov[2].base + (c + n - iov[1].len) = iov[2].base
            /\ iov[2].len - (c + n - iov[1].len) = iov[2].len
            /\ iov[1].len <= c + n /\ c + n <= iov[1].len + iov[2].len
        <5>1. /\ iov[1].len \in Nat /\ iov[2].len \in Nat /\ iov[2].base \in Nat
              /\ c + n = iov[1].len /\ c \in Nat /\ n \in Nat
          BY <1>1, <2>1, <3>1, <4>1
        <5>2. c + n - iov[1].len = 0
          BY <5>1
        <5>3. iov[2].base + 0 = iov[2].base /\ iov[2].len - 0 = iov[2].len
          BY <5>1
        <5>4. iov[1].len <= c + n /\ c + n <= iov[1].len + iov[2].len
          BY <5>1
        <5> QED BY <5>2, <5>3, <5>4
      <4> QED BY <1>1, <1>3, <1>4, <3>1, <3>3, <4>1, <4>2, <4>3 DEF Left, u
    <3> QED BY <1>1, <3>2, <3>3
  <2> QED BY <2>2, <2>3
<1>6. CASE i = 2
  <2>1. /\ Len(iov) = 2 /\ iov[1].len <= c /\ c <= iov[1].len + iov[2].len
        /\ v[2].base = iov[2].base + (c - iov[1].len)
        /\ v[2].len = iov[2].len - (c - iov[1].len)
        /\ iov[1].len \in Nat /\ iov[2].base \in Nat /\ iov[2].len \in Nat
    BY <1>1, <1>6 DEF Left, Segment
  <2>2. /\ v[2].base + n = iov[2].base + (c + n - iov[1].len)
        /\ v[2].len - n = iov[2].len - (c + n - iov[1].len)
        /\ iov[1].len <= c + n /\ c + n <= iov[1].len + iov[2].len
    BY <1>1, <1>6, <2>1
  <2>3. CASE v[2].len # n
    <3>1. Advanced(v, i, n) = 2
      BY <1>6, <2>3 DEF Advanced
    <3>2. u[2] = Segment(iov[2].base + (c + n - iov[1].len), iov[2].len - (c + n - iov[1].len))
      BY <1>3, <1>6, <2>2
    <3> QED BY <1>1, <1>3, <1>4, <2>1, <2>2, <3>1, <3>2 DEF Left, u
  <2>4. CASE v[2].len = n
    <3>1. Advanced(v, i, n) = Len(iov) + 1
      BY <1>6, <2>1, <2>4 DEF Advanced
    <3>2. c + n = Capacity(iov)
      BY <1>1, <2>1, <2>4 DEF Capacity
    <3> QED BY <1>1, <1>3, <1>4, <3>1, <3>2 DEF Left, u
  <2> QED BY <2>3, <2>4
<1> QED BY <1>1, <1>5, <1>6

-------------------------------------------------------------------------------
(* Sums of a start and an offset wrap around at most once, and two offsets *)
(* within the array never meet.                                            *)
LEMMA WrapApart ==
  ASSUME NEW i \in Index, NEW a \in 0 .. BufSize - 1, NEW b \in 0 .. BufSize - 1
  PROVE  /\ Wrap(i + a) \in Index
         /\ a # b => Wrap(i + a) # Wrap(i + b)
BY BufSizeAssumption, SMT DEF Index, Wrap

(* What is blanked is what no range has.                                   *)
LEMMA BlankedContents ==
  ASSUME NEW buf \in [Index -> Data], NEW r \in Ranges
  PROVE  /\ Blanked(buf, r) \in [Index -> Data]
         /\ Contents(Blanked(buf, r), r) = Contents(buf, r)
<1>1. Blanked(buf, r) \in [Index -> Data]
  BY DEF Blanked, Data
<1>2. r.start \in Index /\ r.len \in 0 .. BufSize
  BY DEF Ranges
<1>3. ASSUME NEW i \in 1 .. r.len
      PROVE  Blanked(buf, r)[Wrap(r.start + i - 1)] = buf[Wrap(r.start + i - 1)]
  <2>1. /\ i - 1 \in 0 .. r.len - 1 /\ i - 1 \in 0 .. BufSize - 1
        /\ r.start + (i - 1) = r.start + i - 1
    BY <1>2, BufSizeAssumption, SMT DEF Index
  <2>2. Wrap(r.start + i - 1) \in Index /\ Wrap(r.start + i - 1) \in Live(r)
    BY <1>2, <2>1, WrapApart DEF Live
  <2> QED BY <2>2 DEF Blanked
<1> QED BY <1>1, <1>3 DEF Contents

LEMMA FreshType ==
  ASSUME next \in Byte, NEW n \in Nat
  PROVE  /\ Fresh(n) \in Seq(Data) /\ Len(Fresh(n)) = n
         /\ (next + n) % NumBytes \in Byte
<1>1. \A i \in Nat : (next + i) % NumBytes \in Byte
  BY RingMoveAssumption, SMT DEF Byte
<1>2. ASSUME NEW i \in 1 .. n
      PROVE  (next + i - 1) % NumBytes \in Byte
  <2>1. i - 1 \in Nat /\ next + i - 1 = next + (i - 1)
    BY RingMoveAssumption, SMT DEF Byte
  <2> QED BY <1>1, <2>1
<1>3. Fresh(n) \in [1 .. n -> Data]
  BY <1>2 DEF Fresh, Data
<1>4. Fresh(n) \in Seq(Data)
  BY <1>3, IsASeq
<1>5. Len(Fresh(n)) = n
  BY <1>3, <1>4, SMT
<1> QED BY <1>1, <1>4, <1>5

-------------------------------------------------------------------------------
(* The invariant.  In the loop of ring_buffer_move both lists are what is  *)
(* left of those it began with after the bytes copied so far, and these    *)
(* are the first ones of the source, behind the last one of the            *)
(* destination.                                                            *)
Copied ==
  \A k \in 0 .. copied - 1 : dstBuf[Wrap(dst.start + dst.len + k)] = srcBuf[Wrap(src.start + k)]

Loop ==
  moving =>
    /\ Rewound(dst) = dst
    /\ Left(IovecUnused(dst), vDst, iDst, copied)
    /\ Left(IovecUsed(src), vSrc, iSrc, copied)
    /\ copied <= BufSize - dst.len /\ copied <= src.len
    /\ Copied

IInv == TypeOK /\ Loop

(* What one memcpy reads and writes.                                       *)
Least(i, j) == IF i <= j THEN i ELSE j
Piece == Least(vDst[iDst].len, vSrc[iSrc].len)

LEMMA PieceSlots ==
  ASSUME IInv, moving, InLoop
  PROVE  /\ Piece \in 0 .. vDst[iDst].len /\ Piece \in 0 .. vSrc[iSrc].len
         /\ copied \in Nat /\ copied + Piece <= BufSize - dst.len /\ copied + Piece <= src.len
         /\ vDst[iDst].base \in Nat /\ vSrc[iSrc].base \in Nat
         /\ \A j \in 0 .. Piece - 1 :
              /\ vDst[iDst].base + j = Wrap(dst.start + dst.len + (copied + j))
              /\ vSrc[iSrc].base + j = Wrap(src.start + (copied + j))
<1>1. /\ src \in Ranges /\ dst \in Ranges
      /\ Left(IovecUnused(dst), vDst, iDst, copied) /\ iDst <= Len(vDst)
      /\ Left(IovecUsed(src), vSrc, iSrc, copied) /\ iSrc <= Len(vSrc)
      /\ Rewound(dst) = dst
  BY DEF IInv, TypeOK, Loop, InLoop
<1>2. /\ IovecUnused(dst) \in Iovecs /\ Capacity(IovecUnused(dst)) = BufSize - dst.len
      /\ IovecUsed(src) \in Iovecs /\ Capacity(IovecUsed(src)) = src.len
  BY <1>1, UnusedType, UsedType, UnusedCapacity, UsedCapacity
<1>3. /\ vDst[iDst].base \in Nat /\ vDst[iDst].len \in Nat
      /\ copied + vDst[iDst].len <= BufSize - dst.len
      /\ \A j \in 0 .. vDst[iDst].len - 1 : vDst[iDst].base + j = Slot(IovecUnused(dst), copied + j)
  BY <1>1, <1>2, LeftSlots
<1>4. /\ vSrc[iSrc].base \in Nat /\ vSrc[iSrc].len \in Nat
      /\ copied + vSrc[iSrc].len <= src.len
      /\ \A j \in 0 .. vSrc[iSrc].len - 1 : vSrc[iSrc].base + j = Slot(IovecUsed(src), copied + j)
  BY <1>1, <1>2, LeftSlots
<1>5. copied \in Nat /\ dst.len \in Nat /\ src.len \in Nat /\ BufSize \in Nat
  BY <1>1, BufSizeAssumption DEF Left, Ranges
<1>6. /\ Piece \in Nat /\ Piece <= vDst[iDst].len /\ Piece <= vSrc[iSrc].len
  BY <1>3, <1>4 DEF Piece, Least
<1>7. /\ Piece \in 0 .. vDst[iDst].len /\ Piece \in 0 .. vSrc[iSrc].len
      /\ copied + Piece <= BufSize - dst.len /\ copied + Piece <= src.len
  BY <1>3, <1>4, <1>5, <1>6
<1>8. ASSUME NEW j \in 0 .. Piece - 1
      PROVE  /\ vDst[iDst].base + j = Wrap(dst.start + dst.len + (copied + j))
             /\ vSrc[iSrc].base + j = Wrap(src.start + (copied + j))
  <2>1. /\ j \in 0 .. vDst[iDst].len - 1 /\ j \in 0 .. vSrc[iSrc].len - 1
        /\ copied + j \in 0 .. BufSize - dst.len - 1 /\ copied + j \in 0 .. src.len - 1
    BY <1>3, <1>4, <1>5, <1>6, <1>7
  <2>2. Slot(IovecUnused(dst), copied + j) = Wrap(dst.start + dst.len + (copied + j))
    BY <1>1, <2>1, UnusedSlots
  <2>3. Slot(IovecUsed(src), copied + j) = Wrap(src.start + (copied + j))
    BY <1>1, <2>1, UsedSlots
  <2> QED BY <1>3, <1>4, <2>1, <2>2, <2>3
<1> QED BY <1>3, <1>4, <1>5, <1>7, <1>8

(* No memcpy of ring_buffer_move reads outside the bytes of the source or  *)
(* writes over a byte of the destination.                                  *)
LEMMA InBounds ==
  ASSUME IInv
  PROVE  MoveStaysInBounds
<1> SUFFICES ASSUME moving, InLoop, NEW j \in 0 .. Piece - 1
             PROVE  /\ \E k \in 0 .. src.len - 1 : vSrc[iSrc].base + j = Wrap(src.start + k)
                    /\ vDst[iDst].base + j \in Index
                    /\ \A k \in 0 .. dst.len - 1 : vDst[iDst].base + j # Wrap(dst.start + k)
  BY DEF MoveStaysInBounds, Piece, Least
<1>1. /\ copied \in Nat /\ copied + Piece <= BufSize - dst.len /\ copied + Piece <= src.len
      /\ Piece \in Int
      /\ vDst[iDst].base + j = Wrap(dst.start + dst.len + (copied + j))
      /\ vSrc[iSrc].base + j = Wrap(src.start + (copied + j))
  BY PieceSlots
<1>2. /\ src.len \in 0 .. BufSize /\ dst.len \in 0 .. BufSize /\ dst.start \in Index
  BY DEF IInv, TypeOK, Ranges
<1>3. /\ copied + j \in 0 .. src.len - 1 /\ dst.len + (copied + j) \in 0 .. BufSize - 1
      /\ dst.start + dst.len + (copied + j) = dst.start + (dst.len + (copied + j))
      /\ \A k \in 0 .. dst.len - 1 : k \in 0 .. BufSize - 1 /\ dst.len + (copied + j) # k
  BY <1>1, <1>2, BufSizeAssumption, SMT DEF Index
<1>4. /\ Wrap(dst.start + (dst.len + (copied + j))) \in Index
      /\ \A k \in 0 .. dst.len - 1 : Wrap(dst.start + (dst.len + (copied + j))) # Wrap(dst.start + k)
  BY <1>2, <1>3, WrapApart
<1> QED BY <1>1, <1>3, <1>4

-------------------------------------------------------------------------------
(* Each step of the buffers is a step of the queues.                       *)
LEMMA BufferTypes ==
  ASSUME TypeOK
  PROVE  /\ srcBuf \in [Index -> Data] /\ dstBuf \in [Index -> Data]
         /\ src \in Ranges /\ dst \in Ranges /\ next \in Byte
         /\ src.len \in 0 .. BufSize /\ dst.len \in 0 .. BufSize
         /\ Len(Contents(srcBuf, src)) = src.len /\ Len(Contents(dstBuf, dst)) = dst.len
<1>1. /\ srcBuf \in [Index -> Data] /\ dstBuf \in [Index -> Data]
      /\ src \in Ranges /\ dst \in Ranges /\ next \in Byte
  BY DEF TypeOK, Data
<1>2. src.len \in 0 .. BufSize /\ dst.len \in 0 .. BufSize
  BY <1>1 DEF Ranges
<1> QED BY <1>1, <1>2, ContentsType

LEMMA InitStep ==
  ASSUME Init
  PROVE  IInv /\ Queues!Init
<1>1. EmptyRange \in Ranges /\ EmptyRange.len = 0
  BY BufSizeAssumption, SMT DEF EmptyRange, Ranges, Index
<1>2. 0 \in Byte
  BY RingMoveAssumption DEF Byte
<1>3. TypeOK
  <2>1. srcBuf \in [Index -> Data] /\ dstBuf \in [Index -> Data]
    BY DEF Init, Data
  <2>2. 0 \in 0 .. BufSize
    BY BufSizeAssumption
  <2> QED BY <1>1, <1>2, <2>1, <2>2 DEF Init, TypeOK, Data
<1>4. Contents(srcBuf, src) = <<>> /\ Contents(dstBuf, dst) = <<>>
  BY <1>1 DEF Init, Contents
<1> QED BY <1>3, <1>4 DEF Init, IInv, Loop, Queues!Init

LEMMA ReceiveStep ==
  ASSUME IInv, NEW n \in 1 .. BufSize, Receive(n)
  PROVE  IInv' /\ Queues!Put(n)
<1>1. /\ n \in Nat /\ BufSize \in Nat
      /\ srcBuf \in [Index -> Data] /\ src \in Ranges /\ src.len \in 0 .. BufSize
      /\ Len(Contents(srcBuf, src)) = src.len
      /\ Fresh(n) \in Seq(Data) /\ Len(Fresh(n)) = n /\ (next + n) % NumBytes \in Byte
  <2>1. n \in Nat /\ BufSize \in Nat
    BY BufSizeAssumption
  <2> QED BY <2>1, BufferTypes, FreshType DEF IInv
<1>2. n <= BufSize - src.len
  BY <1>1, UnusedCapacity DEF Receive
<1>3. /\ srcBuf' \in [Index -> Data] /\ src' \in Ranges
      /\ Contents(srcBuf', src') = Contents(srcBuf, src) \o Fresh(n)
  BY <1>1, <1>2, ScatterContents DEF Receive
<1>4. TypeOK'
  BY <1>1, <1>3 DEF Receive, IInv, TypeOK, Data, locals
<1>5. Loop'
  BY DEF Receive, Loop, locals
<1>6. Queues!Put(n)
  BY <1>1, <1>2, <1>3 DEF Receive, Queues!Put, Queues!Room, Queues!Fresh, Queues!Used, Fresh
<1> QED BY <1>4, <1>5, <1>6 DEF IInv

LEMMA AppendTailStep ==
  ASSUME IInv, NEW n \in 1 .. MaxTail, AppendTail(n)
  PROVE  IInv' /\ Queues!PutSecond(n)
<1> DEFINE count == AppendCount(dst, n)
<1>1. /\ n \in Nat /\ BufSize \in Nat
      /\ dstBuf \in [Index -> Data] /\ dst \in Ranges /\ dst.len \in 0 .. BufSize
      /\ Len(Contents(dstBuf, dst)) = dst.len /\ next \in Byte
  <2>1. n \in Nat /\ BufSize \in Nat
    BY BufSizeAssumption, RingMoveAssumption
  <2> QED BY <2>1, BufferTypes DEF IInv
<1>2. count = (IF n <= BufSize - dst.len THEN n ELSE BufSize - dst.len)
  BY <1>1, UnusedCapacity DEF AppendCount
<1>3. count \in Nat /\ count <= BufSize - dst.len
  <2> HIDE DEF count
  <2> QED BY <1>1, <1>2
<1>4. Fresh(count) \in Seq(Data) /\ Len(Fresh(count)) = count /\ (next + count) % NumBytes \in Byte
  BY <1>1, <1>3, FreshType
<1>5. /\ dstBuf' = Scatter(dstBuf, IovecUnused(dst), Fresh(count))
      /\ dst' = Extend(Rewound(dst), count) /\ next' = (next + count) % NumBytes
      /\ ~moving' /\ UNCHANGED <<srcBuf, src, moving, copied>>
  BY DEF AppendTail, locals
<1> HIDE DEF count
<1>6. /\ dstBuf' \in [Index -> Data] /\ dst' \in Ranges
      /\ Contents(dstBuf', dst') = Contents(dstBuf, dst) \o Fresh(count)
  <2>1. PICK data \in Seq(Data) : data = Fresh(count) /\ Len(data) = count
    BY <1>4
  <2>2. Len(data) <= BufSize - dst.len
    BY <1>3, <2>1
  <2>3. /\ Scatter(dstBuf, IovecUnused(dst), data) \in [Index -> Data]
        /\ Extend(Rewound(dst), Len(data)) \in Ranges
        /\ Contents(Scatter(dstBuf, IovecUnused(dst), data), Extend(Rewound(dst), Len(data)))
             = Contents(dstBuf, dst) \o data
    BY <1>1, <2>2, ScatterContents
  <2> QED BY <1>5, <2>1, <2>3
<1>7. TypeOK'
  BY <1>4, <1>5, <1>6 DEF IInv, TypeOK, Data
<1>8. Queues!Least(n, Queues!Room(Contents(dstBuf, dst))) = count
  BY <1>1, <1>2 DEF Queues!Least, Queues!Room
<1>9. Queues!PutSecond(n)
  BY <1>5, <1>6, <1>8 DEF Queues!PutSecond, Queues!Fresh, Queues!Used, Fresh
<1> QED BY <1>5, <1>7, <1>9 DEF IInv, Loop

LEMMA SendStep ==
  ASSUME IInv, NEW n \in 1 .. BufSize, Send(n)
  PROVE  IInv' /\ Queues!Take(n)
<1>1. /\ n \in Nat
      /\ dstBuf \in [Index -> Data] /\ dst \in Ranges /\ dst.len \in 0 .. BufSize
      /\ Len(Contents(dstBuf, dst)) = dst.len
  BY BufferTypes, BufSizeAssumption DEF IInv
<1>2. n <= dst.len /\ n \in 0 .. dst.len
  BY <1>1, UsedCapacity DEF Send
<1>3. dst' = Ltrim(dst, n) /\ dst' \in Ranges
  BY <1>1, LtrimType DEF Send
<1>4. /\ dstBuf' \in [Index -> Data]
      /\ Contents(dstBuf', dst') = Contents(dstBuf, dst')
  BY <1>1, <1>3, BlankedContents DEF Send
<1>5. Contents(dstBuf, dst') = SubSeq(Contents(dstBuf, dst), n + 1, dst.len)
  BY <1>1, <1>2, <1>3, LtrimContents
<1>6. TypeOK'
  BY <1>3, <1>4 DEF Send, IInv, TypeOK, Data, locals
<1>7. Queues!Take(n)
  BY <1>1, <1>2, <1>4, <1>5 DEF Send, Queues!Take
<1> QED BY <1>6, <1>7 DEF Send, IInv, Loop, locals

LEMMA MoveBeginStep ==
  ASSUME IInv, MoveBegin
  PROVE  /\ IInv'
         /\ UNCHANGED <<Contents(srcBuf, src), Contents(dstBuf, dst), next>>
<1>1. /\ dstBuf \in [Index -> Data] /\ dst \in Ranges /\ src \in Ranges
      /\ dst.len \in 0 .. BufSize /\ src.len \in 0 .. BufSize
  BY BufferTypes DEF IInv
<1>2. /\ dst' = Rewound(dst) /\ UNCHANGED <<srcBuf, src, dstBuf, next>> /\ moving' = TRUE
      /\ vDst' = IovecUnused(dst) /\ iDst' = 1 /\ vSrc' = IovecUsed(src) /\ iSrc' = 1
      /\ copied' = 0
  BY DEF MoveBegin
<1>3. dst' \in Ranges /\ dst'.len = dst.len /\ Rewound(dst') = dst'
  BY <1>1, <1>2, RewoundType DEF Rewound
<1>4. IovecUnused(dst') = IovecUnused(dst)
  BY <1>2, <1>3 DEF IovecUnused
<1>5. /\ Left(IovecUnused(dst), IovecUnused(dst), 1, 0)
      /\ Left(IovecUsed(src), IovecUsed(src), 1, 0)
  BY <1>1, UnusedType, UsedType, LeftAll
<1>6. 0 <= BufSize - dst.len /\ 0 <= src.len /\ 0 \in 0 .. BufSize
  BY <1>1, BufSizeAssumption
<1>7. Copied'
  BY <1>2 DEF Copied
<1>8. TypeOK'
  BY <1>2, <1>3, <1>6 DEF IInv, TypeOK
<1>9. Loop'
  BY <1>2, <1>3, <1>4, <1>5, <1>6, <1>7 DEF Loop
<1>10. Contents(dstBuf, dst') = Contents(dstBuf, dst)
  BY <1>1, <1>2, RewoundContents
<1> QED BY <1>2, <1>8, <1>9, <1>10 DEF IInv

LEMMA MoveCopyStep ==
  ASSUME IInv, MoveCopy
  PROVE  /\ IInv'
         /\ UNCHANGED <<Contents(srcBuf, src), Contents(dstBuf, dst), next>>
<1>1. /\ moving /\ InLoop
      /\ UNCHANGED <<srcBuf, src, dst, moving, next>>
      /\ dstBuf' = [p \in Index |-> IF vDst[iDst].base <= p /\ p < vDst[iDst].base + Piece
                                    THEN srcBuf[vSrc[iSrc].base + (p - vDst[iDst].base)]
                                    ELSE dstBuf[p]]
      /\ copied' = copied + Piece
      /\ vDst' = Shortened(vDst, iDst, Piece) /\ iDst' = Advanced(vDst, iDst, Piece)
      /\ vSrc' = Shortened(vSrc, iSrc, Piece) /\ iSrc' = Advanced(vSrc, iSrc, Piece)
  BY DEF MoveCopy, Piece, Least
<1>2. /\ Piece \in 0 .. vDst[iDst].len /\ Piece \in 0 .. vSrc[iSrc].len
      /\ copied \in Nat /\ copied + Piece <= BufSize - dst.len /\ copied + Piece <= src.len
      /\ vDst[iDst].base \in Nat /\ vSrc[iSrc].base \in Nat
      /\ \A j \in 0 .. Piece - 1 :
           /\ vDst[iDst].base + j = Wrap(dst.start + dst.len + (copied + j))
           /\ vSrc[iSrc].base + j = Wrap(src.start + (copied + j))
  BY <1>1, PieceSlots
<1>3. /\ srcBuf \in [Index -> Data] /\ dstBuf \in [Index -> Data]
      /\ src.start \in Index /\ dst.start \in Index
      /\ src.len \in 0 .. BufSize /\ dst.len \in 0 .. BufSize
  BY BufferTypes DEF IInv, Ranges
<1>4. /\ Left(IovecUnused(dst), vDst, iDst, copied) /\ iDst <= Len(vDst)
      /\ Left(IovecUsed(src), vSrc, iSrc, copied) /\ iSrc <= Len(vSrc)
      /\ IovecUnused(dst) \in Iovecs /\ IovecUsed(src) \in Iovecs
      /\ Rewound(dst) = dst /\ Copied
  BY <1>1, UnusedType, UsedType DEF IInv, TypeOK, Loop, InLoop
<1>5. /\ Left(IovecUnused(dst), vDst', iDst', copied')
      /\ Left(IovecUsed(src), vSrc', iSrc', copied')
  BY <1>1, <1>2, <1>4, LeftAfter
<1>6. PICK d, s, n : d = vDst[iDst].base /\ s = vSrc[iSrc].base /\ n = Piece
  OBVIOUS
<1>7. d \in Nat /\ s \in Nat /\ n \in Nat /\ copied \in Nat
  <2>1. vDst[iDst].len \in Nat
    BY <1>4, LeftSlots
  <2> QED BY <1>2, <1>6, <2>1
(* The bytes that are written lie behind what was copied before. *)
<1>8. ASSUME NEW p \in Index, d <= p, p < d + n
      PROVE  /\ p - d \in 0 .. n - 1
             /\ p = Wrap(dst.start + (dst.len + (copied + (p - d))))
             /\ dst.len + (copied + (p - d)) \in 0 .. BufSize - 1
             /\ s + (p - d) = Wrap(src.start + (copied + (p - d)))
             /\ s + (p - d) \in Index
  <2>1. p - d \in 0 .. n - 1 /\ d + (p - d) = p
    BY <1>7, <1>8, BufSizeAssumption, SMT DEF Index
  <2>2. /\ p = Wrap(dst.start + dst.len + (copied + (p - d)))
        /\ s + (p - d) = Wrap(src.start + (copied + (p - d)))
    BY <1>2, <1>6, <2>1
  <2>3. /\ dst.start + dst.len + (copied + (p - d)) = dst.start + (dst.len + (copied + (p - d)))
        /\ dst.len + (copied + (p - d)) \in 0 .. BufSize - 1
        /\ copied + (p - d) \in 0 .. BufSize - 1
    <3>1. /\ dst.start \in Nat /\ dst.len \in Nat /\ src.len \in 0 .. BufSize
          /\ BufSize \in Nat /\ copied \in Nat /\ n \in Nat
          /\ copied + n <= BufSize - dst.len /\ copied + n <= src.len
      BY <1>2, <1>3, <1>6, <1>7, BufSizeAssumption DEF Index
    <3>2. PICK j \in 0 .. n - 1 : j = p - d
      BY <2>1
    <3>3. /\ dst.start + dst.len + (copied + j) = dst.start + (dst.len + (copied + j))
          /\ dst.len + (copied + j) \in 0 .. BufSize - 1
          /\ copied + j \in 0 .. BufSize - 1
      BY <3>1, SMT
    <3> QED BY <3>2, <3>3
  <2>4. Wrap(src.start + (copied + (p - d))) \in Index
    BY <1>3, <2>3, WrapApart
  <2> QED BY <2>1, <2>2, <2>3, <2>4
<1>9. dstBuf' \in [Index -> Data]
  BY <1>1, <1>3, <1>6, <1>8
(* So every byte of the destination, old or copied, stays. *)
<1>10. ASSUME NEW k \in 0 .. dst.len + copied - 1
       PROVE  dstBuf'[Wrap(dst.start + k)] = dstBuf[Wrap(dst.start + k)]
  <2>1. k \in 0 .. BufSize - 1 /\ k < dst.len + copied
    BY <1>2, <1>3, <1>6, <1>7, BufSizeAssumption, SMT
  <2>2. Wrap(dst.start + k) \in Index
    BY <1>3, <2>1, WrapApart
  <2>3. ~(d <= Wrap(dst.start + k) /\ Wrap(dst.start + k) < d + n)
    <3> SUFFICES ASSUME d <= Wrap(dst.start + k), Wrap(dst.start + k) < d + n PROVE FALSE
      OBVIOUS
    <3>1. PICK j \in 0 .. n - 1 : /\ Wrap(dst.start + k) = Wrap(dst.start + (dst.len + (copied + j)))
                                  /\ dst.len + (copied + j) \in 0 .. BufSize - 1
      BY <1>8, <2>2
    <3>2. k # dst.len + (copied + j)
      BY <1>3, <1>7, <2>1, SMT
    <3> QED BY <1>3, <2>1, <3>1, <3>2, WrapApart
  <2> QED BY <1>1, <1>6, <2>2, <2>3
<1>11. Contents(dstBuf', dst) = Contents(dstBuf, dst)
  <2>1. ASSUME NEW i \in 1 .. dst.len
        PROVE  dstBuf'[Wrap(dst.start + i - 1)] = dstBuf[Wrap(dst.start + i - 1)]
    <3>1. i - 1 \in 0 .. dst.len + copied - 1 /\ dst.start + (i - 1) = dst.start + i - 1
      BY <1>3, <1>7, BufSizeAssumption, SMT DEF Index
    <3> QED BY <1>10, <3>1
  <2> QED BY <2>1 DEF Contents
<1>12. Copied'
  <2> SUFFICES ASSUME NEW k \in 0 .. copied + n - 1
               PROVE  dstBuf'[Wrap(dst.start + dst.len + k)] = srcBuf[Wrap(src.start + k)]
    <3>1. /\ copied' = copied + n /\ srcBuf' = srcBuf
          /\ dst' = dst /\ src' = src
      BY <1>1, <1>6
    <3>2. Copied' <=> \A k \in 0 .. copied' - 1 :
                      dstBuf'[Wrap(dst'.start + dst'.len + k)] = srcBuf'[Wrap(src'.start + k)]
      BY DEF Copied
    <3>3. \A k \in 0 .. copied' - 1 :
            dstBuf'[Wrap(dst'.start + dst'.len + k)] = srcBuf'[Wrap(src'.start + k)]
      <4> TAKE k \in 0 .. copied' - 1
      <4>1. k \in 0 .. copied + n - 1
        BY <1>7, <3>1
      <4>2. dstBuf'[Wrap(dst.start + dst.len + k)] = srcBuf[Wrap(src.start + k)]
        BY <4>1
      <4> QED BY <3>1, <4>2
    <3> QED BY <3>2, <3>3, Zenon
  <2>0. /\ dst.start + dst.len + k = dst.start + (dst.len + k)
        /\ dst.len + k \in 0 .. BufSize - 1
    BY <1>2, <1>3, <1>6, <1>7, BufSizeAssumption, SMTT(20) DEF Index
  <2>1. CASE k < copied
    <3>1. k \in 0 .. copied - 1 /\ dst.len + k \in 0 .. dst.len + copied - 1
      BY <1>3, <1>7, <2>1, BufSizeAssumption, SMT
    <3>2. dstBuf[Wrap(dst.start + dst.len + k)] = srcBuf[Wrap(src.start + k)]
      BY <1>4, <3>1 DEF Copied
    <3> QED BY <1>10, <2>0, <3>1, <3>2
  <2>2. CASE ~(k < copied)
    <3>1. PICK j \in 0 .. n - 1 : k = copied + j
      <4>1. k - copied \in 0 .. n - 1 /\ k = copied + (k - copied)
        BY <1>7, <2>2, SMT
      <4> QED BY <4>1
    <3>2. /\ d + j = Wrap(dst.start + dst.len + k) /\ s + j = Wrap(src.start + k)
      BY <1>2, <1>6, <3>1
    <3>3. d + j \in Index
      BY <1>3, <2>0, <3>2, WrapApart
    <3>4. d <= d + j /\ d + j < d + n /\ d + j - d = j
      <4>1. d \in Nat /\ n \in Nat /\ j \in Nat /\ j < n
        BY <1>7
      <4> QED BY <4>1
    <3>5. dstBuf'[d + j] = srcBuf[s + j]
      <4>1. dstBuf' = [p \in Index |-> IF d <= p /\ p < d + n
                                       THEN srcBuf[s + (p - d)] ELSE dstBuf[p]]
        BY <1>1, <1>6
      <4>2. PICK p \in Index : p = d + j
        BY <3>3
      <4>3. d <= p /\ p < d + n /\ p - d = j
        BY <1>7, <4>2
      <4>4. dstBuf'[p] = srcBuf[s + (p - d)]
        BY <4>1, <4>3, Zenon
      <4> QED BY <4>2, <4>3, <4>4
    <3> QED BY <3>2, <3>5
  <2> QED BY <2>1, <2>2
<1>13. copied' \in 0 .. BufSize /\ copied' <= BufSize - dst.len /\ copied' <= src.len
  BY <1>1, <1>2, <1>3, <1>6, <1>7, BufSizeAssumption, SMT
<1>14. TypeOK'
  BY <1>1, <1>9, <1>13 DEF IInv, TypeOK, Data
<1>15. Loop'
  BY <1>1, <1>4, <1>5, <1>12, <1>13 DEF Loop
<1> QED BY <1>1, <1>11, <1>14, <1>15 DEF IInv

(* The loop ends when either list is used up, so that what was copied is   *)
(* all of the source or all that fits.                                     *)
LEMMA MoveEndStep ==
  ASSUME IInv, MoveEnd
  PROVE  IInv' /\ Queues!Transfer
<1>1. /\ moving /\ ~InLoop /\ moving' = FALSE
      /\ dst' = Extend(dst, copied) /\ src' = Ltrim(src, copied)
      /\ srcBuf' = Blanked(srcBuf, src') /\ copied' = 0
      /\ UNCHANGED <<dstBuf, next>>
  BY DEF MoveEnd
<1>2. /\ srcBuf \in [Index -> Data] /\ dstBuf \in [Index -> Data]
      /\ src \in Ranges /\ dst \in Ranges /\ next \in Byte
      /\ src.len \in 0 .. BufSize /\ dst.len \in 0 .. BufSize
      /\ Len(Contents(srcBuf, src)) = src.len /\ Len(Contents(dstBuf, dst)) = dst.len
  BY BufferTypes DEF IInv
<1>3. /\ Left(IovecUnused(dst), vDst, iDst, copied)
      /\ Left(IovecUsed(src), vSrc, iSrc, copied)
      /\ copied <= BufSize - dst.len /\ copied <= src.len /\ Copied
      /\ ~(iDst <= Len(vDst)) \/ ~(iSrc <= Len(vSrc))
  BY <1>1 DEF IInv, Loop, InLoop
<1>4. copied = BufSize - dst.len \/ copied = src.len
  <2>1. CASE ~(iDst <= Len(vDst))
    BY <1>2, <1>3, <2>1, UnusedType, UnusedCapacity, LeftNone
  <2>2. CASE ~(iSrc <= Len(vSrc))
    BY <1>2, <1>3, <2>2, UsedType, UsedCapacity, LeftNone
  <2> QED BY <1>3, <2>1, <2>2
<1>5. copied \in Nat /\ BufSize \in Nat
  BY <1>3, BufSizeAssumption DEF Left
<1>6. Queues!Least(Len(Contents(srcBuf, src)), Queues!Room(Contents(dstBuf, dst))) = copied
  BY <1>2, <1>3, <1>4, <1>5 DEF Queues!Least, Queues!Room
<1>7. copied \in 0 .. src.len
  BY <1>2, <1>3, <1>5
<1>8. src' \in Ranges
  BY <1>1, <1>2, <1>5, LtrimType
<1>9. /\ srcBuf' \in [Index -> Data]
      /\ Contents(srcBuf', src') = Contents(srcBuf, src')
  BY <1>1, <1>2, <1>8, BlankedContents
<1>10. Contents(srcBuf, src') = SubSeq(Contents(srcBuf, src), copied + 1, src.len)
  BY <1>1, <1>2, <1>7, LtrimContents
<1>11. /\ dst' \in Ranges /\ dst'.start = dst.start /\ dst'.len = dst.len + copied
  <2>1. dst.len + copied \in 0 .. BufSize
    BY <1>2, <1>3, <1>5
  <2> QED BY <1>1, <1>2, <2>1 DEF Extend, Ranges
<1>12. Contents(dstBuf', dst') = Contents(dstBuf, dst) \o SubSeq(Contents(srcBuf, src), 1, copied)
  <2> DEFINE a == Contents(dstBuf, dst)
             b == Contents(srcBuf, src)
             t == SubSeq(b, 1, copied)
  <2>1. /\ a \in Seq(Data) /\ Len(a) = dst.len
        /\ \A i \in 1 .. dst.len : a[i] = dstBuf[Wrap(dst.start + i - 1)]
        /\ b \in Seq(Data) /\ Len(b) = src.len
        /\ \A i \in 1 .. src.len : b[i] = srcBuf[Wrap(src.start + i - 1)]
    BY <1>2, ContentsType
  <2>2. /\ t \in Seq(Data) /\ Len(t) = copied
        /\ \A i \in 1 .. copied : t[i] = b[i]
    <3> HIDE DEF b
    <3> QED BY <1>7, <2>1, SubSeqProperties
  <2>3. /\ Contents(dstBuf, dst') \in Seq(Data) /\ Len(Contents(dstBuf, dst')) = dst.len + copied
        /\ \A i \in 1 .. dst.len + copied :
             Contents(dstBuf, dst')[i] = dstBuf[Wrap(dst.start + i - 1)]
    BY <1>2, <1>11, ContentsType
  <2> HIDE DEF a, b, t
  <2>4. /\ a \o t \in Seq(Data) /\ Len(a \o t) = dst.len + copied
        /\ \A i \in 1 .. dst.len + copied :
             (a \o t)[i] = IF i <= dst.len THEN a[i] ELSE t[i - dst.len]
    <3>1. /\ a \o t \in Seq(Data) /\ Len(a \o t) = Len(a) + Len(t)
          /\ \A i \in 1 .. Len(a) + Len(t) :
               (a \o t)[i] = IF i <= Len(a) THEN a[i] ELSE t[i - Len(a)]
      BY <2>1, <2>2, ConcatProperties, Zenon
    <3>2. Len(a) = dst.len /\ Len(t) = copied
      BY <2>1, <2>2
    <3> QED BY <3>1, <3>2
  <2>5. ASSUME NEW i \in 1 .. dst.len + copied
        PROVE  Contents(dstBuf, dst')[i] = (a \o t)[i]
    <3>1. CASE i <= dst.len
      <4>1. i \in 1 .. dst.len
        BY <1>2, <1>5, <3>1
      <4> QED BY <2>1, <2>3, <2>4, <3>1, <4>1
    <3>2. CASE ~(i <= dst.len)
      <4>1. PICK k \in 0 .. copied - 1 : i = dst.len + (k + 1)
        <5>1. i - dst.len - 1 \in 0 .. copied - 1 /\ i = dst.len + (i - dst.len - 1 + 1)
          BY <1>2, <1>5, <3>2
        <5> QED BY <5>1
      <4>2. /\ i - dst.len = k + 1 /\ k + 1 \in 1 .. copied /\ k + 1 \in 1 .. src.len
            /\ k + 1 - 1 = k
        BY <1>2, <1>5, <1>7, <4>1
      <4>3. dst.start + i - 1 = dst.start + dst.len + k /\ src.start + (k + 1) - 1 = src.start + k
        <5>1. dst.start \in Nat /\ dst.len \in Nat /\ src.start \in Nat /\ k \in Nat
          BY <1>2, BufSizeAssumption DEF Ranges, Index
        <5> QED BY <4>1, <5>1, SMT
      <4>4. b[k + 1] = srcBuf[Wrap(src.start + k)]
        BY <2>1, <4>2, <4>3
      <4>5. dstBuf[Wrap(dst.start + dst.len + k)] = srcBuf[Wrap(src.start + k)]
        BY <1>3, <4>1 DEF Copied
      <4> QED BY <2>2, <2>3, <2>4, <3>2, <4>2, <4>3, <4>4, <4>5
    <3> QED BY <3>1, <3>2
  <2>6. Contents(dstBuf, dst') = a \o t
    BY <2>3, <2>4, <2>5, SeqEqual
  <2> QED BY <1>1, <2>6 DEF a, b, t
<1>13. TypeOK'
  <2>1. 0 \in 0 .. BufSize
    BY <1>5
  <2> QED BY <1>1, <1>2, <1>8, <1>9, <1>11, <2>1 DEF TypeOK, Data
<1>14. Queues!Transfer
  BY <1>1, <1>2, <1>6, <1>9, <1>10, <1>12 DEF Queues!Transfer
<1> QED BY <1>1, <1>13, <1>14 DEF IInv, Loop

LEMMA Stutter ==
  ASSUME IInv, UNCHANGED vars
  PROVE  IInv' /\ UNCHANGED <<Contents(srcBuf, src), Contents(dstBuf, dst), next>>
<1>1. UNCHANGED <<srcBuf, src, dstBuf, dst, vSrc, iSrc, vDst, iDst, copied, moving, next>>
  BY DEF vars
<1>2. TypeOK'
  BY <1>1 DEF IInv, TypeOK
<1>3. Copied' = Copied
  BY <1>1 DEF Copied
<1>4. Loop'
  BY <1>1, <1>3 DEF IInv, Loop
<1> QED BY <1>1, <1>2, <1>4 DEF IInv

LEMMA Step ==
  ASSUME IInv, [Next]_vars
  PROVE  /\ IInv'
         /\ [Queues!Next]_<<Contents(srcBuf, src), Contents(dstBuf, dst), next>>
<1>1. ASSUME NEW n \in 1 .. BufSize, Receive(n)
      PROVE  IInv' /\ Queues!Next
  BY <1>1, ReceiveStep DEF Queues!Next
<1>2. ASSUME NEW n \in 1 .. BufSize, Send(n)
      PROVE  IInv' /\ Queues!Next
  BY <1>2, SendStep DEF Queues!Next
<1>3. ASSUME NEW n \in 1 .. MaxTail, AppendTail(n)
      PROVE  IInv' /\ Queues!Next
  BY <1>3, AppendTailStep DEF Queues!Next
<1>4. CASE MoveBegin
  BY <1>4, MoveBeginStep
<1>5. CASE MoveCopy
  BY <1>5, MoveCopyStep
<1>6. CASE MoveEnd
  BY <1>6, MoveEndStep DEF Queues!Next
<1>7. CASE UNCHANGED vars
  BY <1>7, Stutter
<1> QED BY <1>1, <1>2, <1>3, <1>4, <1>5, <1>6, <1>7 DEF Next

LEMMA Inductive == Spec => []IInv
<1>1. Init => IInv
  BY InitStep
<1>2. IInv /\ [Next]_vars => IInv'
  BY Step
<1> QED BY <1>1, <1>2, PTL DEF Spec

-------------------------------------------------------------------------------
(* The ranges of both buffers always lie within the array, whatever is     *)
(* received, appended, moved and sent.                                     *)
THEOREM TypeCorrect == Spec => []TypeOK
<1>1. IInv => TypeOK
  BY DEF IInv
<1> QED BY <1>1, Inductive, PTL

(* No memcpy of ring_buffer_move reads outside the occupied bytes of the   *)
(* source or writes over an occupied byte of the destination.              *)
THEOREM StaysInBounds == Spec => []MoveStaysInBounds
<1>1. IInv => MoveStaysInBounds
  BY InBounds
<1> QED BY <1>1, Inductive, PTL

(* The two buffers implement two FIFO queues in a row: ring_buffer_move    *)
(* and its callers lose, repeat and reorder no byte.                       *)
THEOREM Refinement == Spec => BehavesAsQueues
<1>1. Init => Queues!Init
  BY InitStep
<1>2. IInv /\ [Next]_vars => [Queues!Next]_<<Contents(srcBuf, src), Contents(dstBuf, dst), next>>
  BY Step
<1> QED BY <1>1, <1>2, Inductive, PTL DEF Spec, BehavesAsQueues, Queues!Spec
===============================================================================
