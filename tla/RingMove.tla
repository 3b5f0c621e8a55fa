------------------------------- MODULE RingMove -------------------------------
(***************************************************************************)
(* The ring buffers at work, as src/worker/atomic_send_recv.c fills, moves *)
(* and empties them, with the loop of ring_buffer_move taken one memcpy at *)
(* a time.  The kernel receives into the free bytes of `src`               *)
(* (recvmmsg), ring_buffer_move carries them over to `dst`,                *)
(* ring_buffer_append adds pieces to `dst` that come from elsewhere, and   *)
(* sendmmsg takes bytes off the front of `dst`.  A byte outside its range  *)
(* is dead; the model blanks it, so that states that differ only there are *)
(* one state and a function that read one would be seen to deliver Blank.  *)
(***************************************************************************)
EXTENDS RingBuffer

CONSTANTS NumBytes,    \* bytes are numbered modulo NumBytes
          MaxTail      \* the longest piece given to ring_buffer_append

ASSUME RingMoveAssumption == NumBytes \in Nat \ {0} /\ MaxTail \in Nat

VARIABLES
  srcBuf, src,         \* the two buffers and their ranges
  dstBuf, dst,
  vSrc, iSrc,          \* ring_buffer_move's locals
  vDst, iDst,
  copied,
  moving,              \* the loop of ring_buffer_move is running
  next                 \* the next byte to enter the system

vars == <<srcBuf, src, dstBuf, dst, vSrc, iSrc, vDst, iDst, copied, moving, next>>
locals == <<vSrc, iSrc, vDst, iDst, copied, moving>>

Byte == 0 .. NumBytes - 1
Fresh(n) == [i \in 1 .. n |-> (next + i - 1) % NumBytes]

Blank == NumBytes

Live(r) == {Wrap(r.start + i) : i \in 0 .. r.len - 1}
Blanked(buf, r) == [p \in Index |-> IF p \in Live(r) THEN buf[p] ELSE Blank]

Init ==
  /\ srcBuf = [p \in Index |-> Blank] /\ dstBuf = [p \in Index |-> Blank]
  /\ src = EmptyRange /\ dst = EmptyRange
  /\ vSrc = <<>> /\ vDst = <<>> /\ iSrc = 1 /\ iDst = 1 /\ copied = 0
  /\ moving = FALSE
  /\ next = 0

Receive(n) ==
  /\ ~moving
  /\ src.len < BufSize
  /\ n <= Capacity(IovecUnused(src))
  /\ srcBuf' = Scatter(srcBuf, IovecUnused(src), Fresh(n))
  /\ src' = Extend(Rewound(src), n)
  /\ next' = (next + n) % NumBytes
  /\ UNCHANGED <<dstBuf, dst, locals>>

AppendTail(n) ==
  /\ ~moving
  /\ LET count == AppendCount(dst, n) IN
       /\ dstBuf' = Scatter(dstBuf, IovecUnused(dst), Fresh(count))
       /\ dst' = Extend(Rewound(dst), count)
       /\ next' = (next + count) % NumBytes
  /\ UNCHANGED <<srcBuf, src, locals>>

Send(n) ==
  /\ ~moving
  /\ n <= Capacity(IovecUsed(dst))
  /\ dst' = Ltrim(dst, n)
  /\ dstBuf' = Blanked(dstBuf, dst')
  /\ UNCHANGED <<srcBuf, src, locals, next>>

-------------------------------------------------------------------------------
(* ring_buffer_move *)
MoveBegin ==
  /\ ~moving
  /\ moving' = TRUE
  /\ dst' = Rewound(dst)
  /\ vDst' = IovecUnused(dst) /\ iDst' = 1
  /\ vSrc' = IovecUsed(src) /\ iSrc' = 1
  /\ copied' = 0
  /\ UNCHANGED <<srcBuf, src, dstBuf, next>>

InLoop == iDst <= Len(vDst) /\ iSrc <= Len(vSrc)

Shortened(v, i, n) ==
  [v EXCEPT ![i] = Segment(v[i].base + n, v[i].len - n)]

(* Slips: a segment is left although it is not used up, or kept although   *)
(* it is empty.                                                            *)
AdvancedAlways(v, i, n) == i + 1
AdvancedIfCopied(v, i, n) == IF n > 0 /\ v[i].len = n THEN i + 1 ELSE i

Advanced(v, i, n) == IF v[i].len = n THEN i + 1 ELSE i

MoveCopy ==
  /\ moving /\ InLoop
  /\ LET d == vDst[iDst]
         s == vSrc[iSrc]
         n == IF d.len <= s.len THEN d.len ELSE s.len
     IN /\ dstBuf' = [p \in Index |-> IF d.base <= p /\ p < d.base + n
                                      THEN srcBuf[s.base + (p - d.base)]
                                      ELSE dstBuf[p]]
        /\ copied' = copied + n
        /\ vDst' = Shortened(vDst, iDst, n) /\ iDst' = Advanced(vDst, iDst, n)
        /\ vSrc' = Shortened(vSrc, iSrc, n) /\ iSrc' = Advanced(vSrc, iSrc, n)
  /\ UNCHANGED <<srcBuf, src, dst, moving, next>>

MoveEnd ==
  /\ moving /\ ~InLoop
  /\ moving' = FALSE
  /\ dst' = Extend(dst, copied)
  /\ src' = Ltrim(src, copied)
  /\ srcBuf' = Blanked(srcBuf, src')
  /\ vSrc' = <<>> /\ vDst' = <<>> /\ iSrc' = 1 /\ iDst' = 1 /\ copied' = 0
  /\ UNCHANGED <<dstBuf, next>>

-------------------------------------------------------------------------------
Next ==
  \/ \E n \in 1 .. BufSize : Receive(n) \/ Send(n)
  \/ \E n \in 1 .. MaxTail : AppendTail(n)
  \/ MoveBegin \/ MoveCopy \/ MoveEnd

Spec == Init /\ [][Next]_vars /\ WF_vars(MoveBegin \/ MoveCopy \/ MoveEnd)

-------------------------------------------------------------------------------
(* The ranges stay within the array.  The code never reduces a sum of      *)
(* `start` and `len`: only ring_buffer_ltrim wraps.                        *)
TypeOK ==
  /\ srcBuf \in [Index -> Byte \cup {Blank}]
  /\ dstBuf \in [Index -> Byte \cup {Blank}]
  /\ src \in Ranges /\ dst \in Ranges
  /\ moving \in BOOLEAN
  /\ copied \in 0 .. BufSize
  /\ next \in Byte

(* No memcpy of ring_buffer_move reads outside the occupied bytes of the   *)
(* source or writes over an occupied byte of the destination, whichever    *)
(* way the two segments of either side line up (lines 134-148).            *)
MoveStaysInBounds ==
  moving /\ InLoop =>
    LET d == vDst[iDst]
        s == vSrc[iSrc]
        n == IF d.len <= s.len THEN d.len ELSE s.len
    IN \A i \in 0 .. n - 1 :
         /\ \E k \in 0 .. src.len - 1 : s.base + i = Wrap(src.start + k)
         /\ d.base + i \in Index
         /\ \A k \in 0 .. dst.len - 1 : d.base + i # Wrap(dst.start + k)

(* The pair of buffers is a pair of FIFO queues: receiving, appending,     *)
(* moving and trimming lose, repeat and reorder no byte at any fill level  *)
(* and any place of the wrap-around, and a move leaves bytes behind only   *)
(* when the destination is full.                                           *)
Queues == INSTANCE ByteQueues WITH first <- Contents(srcBuf, src),
                                   second <- Contents(dstBuf, dst)
BehavesAsQueues == Queues!Spec

(* The loop of ring_buffer_move ends (it has no bound of its own: an       *)
(* iteration that copies nothing must still advance one of the indices).   *)
MoveTerminates == moving ~> ~moving
===============================================================================
