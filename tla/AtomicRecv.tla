------------------------------ MODULE AtomicRecv ------------------------------
(***************************************************************************)
(* atomic_recv (src/worker/atomic_send_recv.c): the worker receives into   *)
(* one rx buffer as a transaction on shared memory.  Every step is one     *)
(* store to shared memory or one system call, as in AtomicSend.  Between   *)
(* calls the worker's transformation consumes bytes off the front of the   *)
(* buffer.  Bytes are numbered in the order in which the peer sends them.  *)
(***************************************************************************)
EXTENDS AtomicBuffer

CONSTANTS MaxBytes,    \* bound: bytes the peer sends
          MaxCrashes   \* bound: times the worker dies

ASSUME BoundsAssumption == MaxBytes \in Nat /\ MaxCrashes \in Nat

VARIABLES
  rx,                  \* shared memory
  pc,                  \* where the worker is in atomic_recv; "idle" outside
  arrived,             \* kernel: how many bytes the peer has sent
  fin,                 \* kernel: the peer has shut down its direction
  taken,               \* kernel: how many bytes recvmmsg has handed out
  consumed,            \* history: the bytes the transformation took
  eof,                 \* the last call returned 0
  clobbered,           \* history: see Consume
  crashes

vars == <<rx, pc, arrived, fin, taken, consumed, eof, clobbered, crashes>>

Byte == 0 .. MaxBytes
Numbered(first, n) == [i \in 1 .. n |-> first + i]

PC == {"idle", "prepare", "begin", "syscall", "store", "restore", "extend",
       "flip", "finish"}

Init ==
  /\ rx = NewBuffer(0)
  /\ pc = "idle"
  /\ arrived = 0 /\ fin = FALSE /\ taken = 0
  /\ consumed = <<>>
  /\ eof = FALSE
  /\ clobbered = FALSE
  /\ crashes = 0

-------------------------------------------------------------------------------
Goto(from, to) == pc = from /\ pc' = to

Kernel == UNCHANGED <<arrived, fin, taken>>
Rest   == UNCHANGED <<consumed, eof, clobbered, crashes>>

Entry(state) == CASE state = "INIT"       -> "prepare"
                  [] state = "DO_SYSCALL" -> "syscall"
                  [] state = "SWAP"       -> "restore"

(* The call with its switch on the stored state.  With nothing begun and a *)
(* full buffer it returns EOVERFLOW.  The caller does not call again after *)
(* an EOF.                                                                 *)
Call ==
  /\ ~eof
  /\ rx.state = "INIT" => ActiveRange(rx).len < BufSize
  /\ Goto("idle", Entry(rx.state))
  /\ Kernel /\ Rest /\ UNCHANGED rx

Prepare == Goto("prepare", "begin") /\ rx' = Prepared(rx) /\ Kernel /\ Rest

Begin == Goto("begin", "syscall") /\ rx' = Begun(rx) /\ Kernel /\ Rest

(* set_iovec_unused moves an empty active range to the front before        *)
(* recvmmsg is called on what the range leaves free.                       *)
Recvmmsg(n) ==
  LET b == RecvPrepared(rx) IN
  /\ NotYetCalled(b)
  /\ n <= Capacity(RecvTarget(b)) /\ n <= arrived - taken
  /\ Goto("syscall", "store")
  /\ rx' = RecvDone(b, Numbered(taken, n))
  /\ taken' = taken + n
  /\ UNCHANGED <<arrived, fin>> /\ Rest

RecvmmsgEof ==
  /\ NotYetCalled(rx)
  /\ fin /\ taken = arrived
  /\ Goto("syscall", "store")
  /\ rx' = RecvDone(RecvPrepared(rx), <<>>)
  /\ Kernel /\ Rest

RecvmmsgFailsAsEof ==
  /\ NotYetCalled(rx)
  /\ Goto("syscall", "idle")
  /\ rx' = RecvPrepared(rx)
  /\ eof' = TRUE
  /\ Kernel /\ UNCHANGED <<consumed, clobbered, crashes>>

RecvmmsgFails ==
  /\ NotYetCalled(rx)
  /\ Goto("syscall", "idle")
  /\ rx' = RecvPrepared(rx)
  /\ Kernel /\ Rest

(* A call that finds the result of a dead worker's recvmmsg skips it. *)
SkipSyscall ==
  /\ ~NotYetCalled(rx)
  /\ Goto("syscall", "store")
  /\ Kernel /\ Rest /\ UNCHANGED rx

ReturnEofAsNothing ==
  /\ rx.msgLen = 0
  /\ Goto("store", "idle")
  /\ rx' = Finished(rx)
  /\ Kernel /\ Rest

ReturnEof ==
  /\ rx.msgLen = 0
  /\ Goto("store", "idle")
  /\ rx' = Finished(rx)
  /\ eof' = TRUE
  /\ Kernel /\ UNCHANGED <<consumed, clobbered, crashes>>

StoreSwap ==
  /\ rx.msgLen # 0
  /\ Goto("store", "restore")
  /\ rx' = RecvSwap(rx) /\ Kernel /\ Rest

Restore == Goto("restore", "extend") /\ rx' = RecvRestored(rx) /\ Kernel /\ Rest

(* As in AtomicSend: a worker may die with the inactive range half written *)
(* to.                                                                     *)
Tear ==
  /\ pc = "extend"
  /\ \E s \in {ActiveRange(rx).start, InactiveRange(rx).start},
        l \in {RecvResult(rx).len, InactiveRange(rx).len} :
       rx' = WithInactive(rx, [ActiveRange(rx) EXCEPT !.start = s, !.len = l])
  /\ Kernel /\ Rest /\ UNCHANGED pc

CopyExtended ==
  /\ Goto("extend", "flip")
  /\ rx' = WithInactive(rx, RecvResult(rx))
  /\ Kernel /\ Rest

Flip == Goto("flip", "finish") /\ rx' = Flipped(rx) /\ Kernel /\ Rest

Finish == Goto("finish", "idle") /\ rx' = Finished(rx) /\ Kernel /\ Rest

-------------------------------------------------------------------------------
(* A swap is unfinished, or a result of recvmmsg is not yet in the range.  *)
SwapPending == rx.state = "SWAP"
ResultPending == rx.state = "DO_SYSCALL" /\ ~NotYetCalled(rx)

(* The worker outside of atomic_recv: a transformation consumes n bytes    *)
(* and swaps the ranges, whatever the state of the buffer's transaction.   *)
(* It spoils an unfinished swap; it spoils a pending result if it empties  *)
(* the range, whose `start` then goes back to 0 while the received bytes   *)
(* stay where they are.                                                    *)
Consume(n) ==
  /\ pc = "idle"
  /\ n <= ActiveRange(rx).len
  /\ Len(consumed) + n <= MaxBytes
  /\ consumed' = consumed \o Gather(rx.buf, IovecUsed(ActiveRange(rx)), n)
  /\ rx' = Consumed(rx, n)
  /\ clobbered' = (clobbered \/ SwapPending
                             \/ (ResultPending /\ n = ActiveRange(rx).len))
  /\ Kernel /\ UNCHANGED <<pc, eof, crashes>>

PeerSends ==
  /\ ~fin
  /\ arrived < MaxBytes
  /\ arrived' = arrived + 1
  /\ UNCHANGED <<rx, pc, fin, taken>> /\ Rest

PeerShutsDown ==
  /\ ~fin
  /\ fin' = TRUE
  /\ UNCHANGED <<rx, pc, arrived, taken>> /\ Rest

Crash ==
  /\ crashes < MaxCrashes
  /\ pc # "idle"
  /\ pc' = "idle"
  /\ crashes' = crashes + 1
  /\ Kernel /\ UNCHANGED <<rx, consumed, eof, clobbered>>

Step == \/ Prepare \/ Begin \/ SkipSyscall \/ ReturnEof
        \/ StoreSwap \/ Restore \/ CopyExtended \/ Flip \/ Finish

Receives == RecvmmsgEof \/ \E n \in 1 .. BufSize : Recvmmsg(n)

Next ==
  \/ Call \/ Step \/ Tear
  \/ Receives \/ RecvmmsgFails
  \/ \E n \in 1 .. BufSize : Consume(n)
  \/ PeerSends \/ PeerShutsDown
  \/ Crash

(* atomic_recv is called again while the socket has something to read, and *)
(* recvmmsg, which never blocks (MSG_DONTWAIT), then fails only now and    *)
(* then; the transformation keeps consuming.                               *)
Fairness ==
  /\ WF_vars(Call) /\ WF_vars(Step)
  /\ WF_vars(Receives \/ RecvmmsgFails) /\ SF_vars(Receives)
  /\ SF_vars(\E n \in 1 .. BufSize : Consume(n))

Spec == Init /\ [][Next]_vars /\ Fairness

-------------------------------------------------------------------------------
TypeOK ==
  /\ ~clobbered => rx \in AtomicBuffers(Byte)
  /\ pc \in PC
  /\ arrived \in 0 .. MaxBytes /\ taken \in 0 .. arrived
  /\ Len(consumed) \in 0 .. MaxBytes
  /\ crashes \in 0 .. MaxCrashes

(* The range to trust, and the bytes that it stands for together with a    *)
(* result that is stored but not yet in the range.                         *)
Origin == IF SwapPending THEN rx.range[1 - rx.bit] ELSE ActiveRange(rx)

Extra == IF (SwapPending \/ ResultPending) THEN rx.msgLen ELSE 0

Unread == Contents(rx.buf, Extend(Origin, Extra))

(* The transformation sees the peer's bytes once and in order, whenever    *)
(* and however often the worker dies inside atomic_recv -- unless it ran   *)
(* over an unfinished transaction, which only a worker that died leaves.   *)
InOrder == \A i \in DOMAIN consumed : consumed[i] = i

ExactlyOnce == (clobbered /\ crashes > 0) \/ InOrder

(* Every byte that recvmmsg handed out and the transformation has not      *)
(* taken is in the buffer: the pending result included, none twice.        *)
NothingForgotten == ~clobbered => consumed \o Unread = [i \in 1 .. taken |-> i]

(* The end of the stream is reported after its last byte, never before. *)
EofIsLast == eof => fin /\ taken = arrived

Stream == INSTANCE ByteStream WITH queue <- Unread, out <- consumed

(* Each step is one of a reliable byte stream's or changes nothing there:  *)
(* the receive takes effect in the one instant recvmmsg stores its result. *)
ImplementsStream ==
  /\ Stream!Init
  /\ [][~clobbered' => Stream!Next]_<<Unread, consumed>>

(* Every byte the peer sent is consumed in the end, and so is the end of   *)
(* its stream reported, although the worker dies.                          *)
EverythingConsumed ==
  \A n \in 1 .. MaxBytes : arrived >= n ~> (Len(consumed) >= n \/ clobbered)

EofReported == fin ~> (eof \/ clobbered)
===============================================================================
