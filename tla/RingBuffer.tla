------------------------------ MODULE RingBuffer ------------------------------
(***************************************************************************)
(* The pure functions on `struct ring_buffer_range` and its byte array     *)
(* (src/worker/atomic_send_recv.c).  A range says which part of an array   *)
(* of BufSize bytes is in use: `len` bytes from `start` on, wrapping       *)
(* around at the end.  An iovec list is a sequence of one or two segments  *)
(* [base, len] of the array, as sendmmsg(2) and recvmmsg(2) take them.     *)
(***************************************************************************)
EXTENDS Integers, Sequences

CONSTANT BufSize          \* RING_BUFFER_SIZE

ASSUME BufSizeAssumption == BufSize \in Nat \ {0}

Index  == 0 .. BufSize - 1
Ranges == [start : Index, len : 0 .. BufSize, shutdown : BOOLEAN]

EmptyRange == [start |-> 0, len |-> 0, shutdown |-> FALSE]

End(r)  == r.start + r.len
Wrap(i) == IF i < BufSize THEN i ELSE i - BufSize

Segment(base, len) == [base |-> base, len |-> len]

-------------------------------------------------------------------------------
(* Slips that the runs must notice: the end of the array taken for one     *)
(* later, a start that is not wrapped, and a move that does not look for   *)
(* room.                                                                   *)
IovecUsedBeyond(r) ==
  IF End(r) <= BufSize + 1
  THEN << Segment(r.start, r.len) >>
  ELSE << Segment(r.start, BufSize - r.start),
          Segment(0, r.len - (BufSize - r.start)) >>

LtrimUnwrapped(r, size) ==
  IF size >= r.len
  THEN [r EXCEPT !.start = 0, !.len = 0]
  ELSE [r EXCEPT !.start = r.start + size, !.len = r.len - size]

MoveCountAll(dst, src) == src.len

-------------------------------------------------------------------------------
(* The bytes a range occupies. *)
IovecUsed(r) ==
  IF End(r) <= BufSize
  THEN << Segment(r.start, r.len) >>
  ELSE << Segment(r.start, BufSize - r.start),
          Segment(0, r.len - (BufSize - r.start)) >>

(* set_iovec_unused also moves an empty range to the front of the array,   *)
(* in the range it is given.                                               *)
Rewound(r) == IF r.len = 0 THEN [r EXCEPT !.start = 0] ELSE r

(* The bytes a range leaves free, in the order in which they are filled. *)
IovecUnused(range) ==
  LET r == Rewound(range) IN
  IF r.start = 0
  THEN << Segment(r.len, BufSize - r.len) >>
  ELSE IF End(r) >= BufSize
  THEN << Segment(End(r) - BufSize, r.start - (End(r) - BufSize)) >>
  ELSE << Segment(End(r), BufSize - End(r)), Segment(0, r.start) >>

(* What the kernel and memcpy make of an iovec list: the array index of    *)
(* the i-th byte, counting from 0, and back again (BufSize when the list   *)
(* does not cover the index).                                              *)
Slot(iov, i) == IF i < iov[1].len THEN iov[1].base + i
                                  ELSE iov[2].base + (i - iov[1].len)

Within(seg, p) == seg.base <= p /\ p < seg.base + seg.len

Offset(iov, p) ==
  IF Within(iov[1], p) THEN p - iov[1].base
  ELSE IF Len(iov) = 2 /\ Within(iov[2], p) THEN iov[1].len + (p - iov[2].base)
  ELSE BufSize

Capacity(iov) == IF Len(iov) = 2 THEN iov[1].len + iov[2].len ELSE iov[1].len

(* Reading the first k bytes of an iovec list, and writing a sequence of   *)
(* bytes into one.                                                         *)
Gather(buf, iov, k) == [i \in 1 .. k |-> buf[Slot(iov, i - 1)]]

Scatter(buf, iov, data) ==
  [p \in Index |-> IF Offset(iov, p) < Len(data) THEN data[Offset(iov, p) + 1]
                                                 ELSE buf[p]]

-------------------------------------------------------------------------------
(* ring_buffer_ltrim *)
Ltrim(r, size) ==
  IF size >= r.len
  THEN [r EXCEPT !.start = 0, !.len = 0]
  ELSE [r EXCEPT !.start = (r.start + size) % BufSize, !.len = r.len - size]

Extend(r, n) == [r EXCEPT !.len = r.len + n]

(* ring_buffer_append copies as much of the tail as fits; the caller adds  *)
(* the number of bytes copied to the range.                                *)
AppendCount(r, size) ==
  IF size <= Capacity(IovecUnused(r)) THEN size ELSE Capacity(IovecUnused(r))

(* ring_buffer_move: how many bytes it copies, and what becomes of the     *)
(* destination's bytes and of the two ranges.                              *)
MoveCount(dst, src) == AppendCount(dst, src.len)

MoveBytes(dstBuf, dst, srcBuf, src) ==
  Scatter(dstBuf, IovecUnused(dst),
          Gather(srcBuf, IovecUsed(src), MoveCount(dst, src)))

MoveDst(dst, src) == Extend(Rewound(dst), MoveCount(dst, src))
MoveSrc(dst, src) == Ltrim(src, MoveCount(dst, src))

-------------------------------------------------------------------------------
(* The reference the iovecs are held against: the queue of bytes that a    *)
(* range stands for, oldest first.                                         *)
Contents(buf, r) == [i \in 1 .. r.len |-> buf[Wrap(r.start + i - 1)]]
===============================================================================
