----------------------------- MODULE AtomicBuffer -----------------------------
(***************************************************************************)
(* `struct atomic_ring_buffer` (src/worker/atomic_send_recv.h): a ring     *)
(* buffer in shared memory with two ranges, of which one is active, and    *)
(* the state of the transaction that was last begun on it.  The operators  *)
(* are the single stores that atomic_send and atomic_recv make; a worker   *)
(* may die between any two of them, and the next worker finds the buffer   *)
(* as it was left.                                                         *)
(***************************************************************************)
EXTENDS RingBuffer

(* (unsigned int)-1: no result of sendmmsg or recvmmsg. *)
Sentinel == -1

TransactionStates == {"INIT", "DO_SYSCALL", "SWAP"}

AtomicBuffers(Byte) ==
  [state  : TransactionStates,     \* atomic_ring_buffer::state, bits 0-6
   bit    : 0 .. 1,                \* and bit 7, meaningful in SWAP
   msgLen : (0 .. BufSize) \cup {Sentinel},
   active : 0 .. 1,
   range  : [0 .. 1 -> Ranges],
   buf    : [Index -> Byte]]

NewBuffer(byte) ==
  [state |-> "INIT", bit |-> 0, msgLen |-> 0, active |-> 0,
   range |-> [a \in 0 .. 1 |-> EmptyRange],
   buf |-> [p \in Index |-> byte]]

ActiveRange(b)   == b.range[b.active]
InactiveRange(b) == b.range[1 - b.active]

WithInactive(b, r) == [b EXCEPT !.range[1 - b.active] = r]
WithActive(b, r)   == [b EXCEPT !.range[b.active] = r]
Flipped(b)         == [b EXCEPT !.active = 1 - b.active]

-------------------------------------------------------------------------------
(* Slips that the runs must notice: a store left out, the wrong range      *)
(* encoded, and the wrong range trimmed or extended.                       *)
NoStore(b)          == b
SendSwapInactive(b) == [b EXCEPT !.state = "SWAP", !.bit = 1 - b.active]
RecvSwapActive(b)   == [b EXCEPT !.state = "SWAP", !.bit = b.active]
SendResultAll(b)    == Ltrim(ActiveRange(b), ActiveRange(b).len)
RecvResultStale(b)  == Extend(InactiveRange(b), b.msgLen)

-------------------------------------------------------------------------------
(* The stores of both transactions, in program order. *)
Prepared(b)        == [b EXCEPT !.msgLen = Sentinel]
Begun(b)           == [b EXCEPT !.state = "DO_SYSCALL", !.bit = 0]
NotYetCalled(b)    == b.msgLen = Sentinel
Finished(b)        == [b EXCEPT !.state = "INIT", !.bit = 0]

(* The kernel's result; recvmmsg also fills the free bytes. *)
SendDone(b, n) == [b EXCEPT !.msgLen = n]

RecvTarget(b) == IovecUnused(ActiveRange(b))
RecvPrepared(b) == WithActive(b, Rewound(ActiveRange(b)))
RecvDone(b, data) ==
  [b EXCEPT !.msgLen = Len(data),
            !.buf = Scatter(b.buf, RecvTarget(b), data)]

(* atomic_send encodes the active range in the state, atomic_recv the      *)
(* inactive one.                                                           *)
SendSwap(b) == [b EXCEPT !.state = "SWAP", !.bit = b.active]
RecvSwap(b) == [b EXCEPT !.state = "SWAP", !.bit = 1 - b.active]

SendRestored(b) == [b EXCEPT !.active = b.bit]
RecvRestored(b) == [b EXCEPT !.active = 1 - b.bit]

SendResult(b) == Ltrim(ActiveRange(b), b.msgLen)
RecvResult(b) == Extend(ActiveRange(b), b.msgLen)

-------------------------------------------------------------------------------
(* How main.c and transform.c change a buffer outside of atomic_send and   *)
(* atomic_recv: they work on a copy of the active range in the inactive    *)
(* one, and swap_buffers makes that the active one.                        *)
Appended(b, data) ==
  LET r == Rewound(ActiveRange(b)) IN
  Flipped([WithInactive(b, Extend(r, Len(data)))
             EXCEPT !.buf = Scatter(b.buf, IovecUnused(r), data)])

Consumed(b, n) == Flipped(WithInactive(b, Ltrim(ActiveRange(b), n)))
===============================================================================
