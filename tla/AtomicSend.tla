------------------------------ MODULE AtomicSend ------------------------------
(***************************************************************************)
(* atomic_send (src/worker/atomic_send_recv.c): the worker sends the       *)
(* bytes of one tx buffer as a transaction on shared memory.  Every step   *)
(* is one store to shared memory or one system call; the worker may be     *)
(* killed between any two, and the worker that replaces it calls           *)
(* atomic_send again on the buffer it finds.  Between calls the worker     *)
(* appends what the transformation produced.  Bytes are numbered in the    *)
(* order in which they are produced.                                       *)
(***************************************************************************)
EXTENDS AtomicBuffer

CONSTANTS MaxBytes,    \* bound: bytes produced in a behaviour
          MaxCrashes   \* bound: times the worker dies

ASSUME BoundsAssumption == MaxBytes \in Nat /\ MaxCrashes \in Nat

VARIABLES
  tx,                  \* shared memory
  pc,                  \* where the worker is in atomic_send; "idle" outside
  sent,                \* kernel: the bytes the peer gets
  produced,            \* history: how many bytes were appended
  clobbered,           \* history: bytes were appended over an unfinished swap
  crashes

vars == <<tx, pc, sent, produced, clobbered, crashes>>

Byte == 0 .. MaxBytes
Numbered(n) == [i \in 1 .. n |-> produced + i]

PC == {"idle", "prepare", "begin", "syscall", "restore", "copy", "flip", "finish"}

Init ==
  /\ tx = NewBuffer(0)
  /\ pc = "idle"
  /\ sent = <<>>
  /\ produced = 0
  /\ clobbered = FALSE
  /\ crashes = 0

-------------------------------------------------------------------------------
Goto(from, to) == pc = from /\ pc' = to

Local == UNCHANGED <<sent, produced, clobbered, crashes>>

Entry(state) == CASE state = "INIT"       -> "prepare"
                  [] state = "DO_SYSCALL" -> "syscall"
                  [] state = "SWAP"       -> "restore"

(* The call, with its early return and its switch on the stored state. *)
Call ==
  /\ ActiveRange(tx).len # 0
  /\ Goto("idle", Entry(tx.state))
  /\ Local /\ UNCHANGED tx

Prepare == Goto("prepare", "begin") /\ tx' = Prepared(tx) /\ Local

Begin == Goto("begin", "syscall") /\ tx' = Begun(tx) /\ Local

(* sendmmsg takes part or all of the bytes and stores how many. *)
Sendmmsg(n) ==
  /\ pc = "syscall" /\ NotYetCalled(tx)
  /\ n <= ActiveRange(tx).len
  /\ sent' = sent \o Gather(tx.buf, IovecUsed(ActiveRange(tx)), n)
  /\ tx' = SendDone(tx, n)
  /\ UNCHANGED <<pc, produced, clobbered, crashes>>

SendmmsgFails ==
  /\ NotYetCalled(tx)
  /\ Goto("syscall", "idle")
  /\ Local /\ UNCHANGED tx

StoreSwap ==
  /\ ~NotYetCalled(tx)
  /\ Goto("syscall", "restore")
  /\ tx' = SendSwap(tx) /\ Local

Restore == Goto("restore", "copy") /\ tx' = SendRestored(tx) /\ Local

(* The inactive range is overwritten field by field, so a worker that dies *)
(* on the way leaves any mixture of old and new fields.                    *)
Tear ==
  /\ pc = "copy"
  /\ \E s \in {ActiveRange(tx).start, InactiveRange(tx).start, SendResult(tx).start},
        l \in {ActiveRange(tx).len, InactiveRange(tx).len, SendResult(tx).len} :
       tx' = WithInactive(tx, [ActiveRange(tx) EXCEPT !.start = s, !.len = l])
  /\ Local /\ UNCHANGED pc

CopyTrimmed ==
  Goto("copy", "flip") /\ tx' = WithInactive(tx, SendResult(tx)) /\ Local

Flip == Goto("flip", "finish") /\ tx' = Flipped(tx) /\ Local

Finish == Goto("finish", "idle") /\ tx' = Finished(tx) /\ Local

-------------------------------------------------------------------------------
(* The worker outside of atomic_send: a transformation puts n bytes into   *)
(* the buffer and swaps its ranges.  It does not look at the state of the  *)
(* buffer's transaction.                                                   *)
AppendUnchecked(n) ==
  /\ pc = "idle"
  /\ produced + n <= MaxBytes
  /\ tx' = Appended(tx, Numbered(n))
  /\ produced' = produced + n
  /\ clobbered' = (clobbered \/ tx.state = "SWAP")
  /\ UNCHANGED <<pc, sent, crashes>>

AppendBytes(n) ==
  /\ pc = "idle"
  /\ n <= Capacity(IovecUnused(ActiveRange(tx)))
  /\ produced + n <= MaxBytes
  /\ tx' = Appended(tx, Numbered(n))
  /\ produced' = produced + n
  /\ clobbered' = (clobbered \/ tx.state = "SWAP")
  /\ UNCHANGED <<pc, sent, crashes>>

Crash ==
  /\ crashes < MaxCrashes
  /\ pc # "idle"
  /\ pc' = "idle"
  /\ crashes' = crashes + 1
  /\ UNCHANGED <<tx, sent, produced, clobbered>>

Step == Prepare \/ Begin \/ StoreSwap \/ Restore \/ CopyTrimmed \/ Flip \/ Finish

Next ==
  \/ Call \/ Step \/ Tear
  \/ \E n \in 1 .. BufSize : Sendmmsg(n) \/ AppendBytes(n)
  \/ SendmmsgFails
  \/ Crash

(* atomic_send is called again while there is something to send (epoll     *)
(* reports a writable socket for as long as it is one), and the peer keeps *)
(* reading, so the socket buffer cannot be full at every attempt.          *)
Fairness ==
  /\ WF_vars(Call) /\ WF_vars(Step)
  /\ SF_vars(\E n \in 1 .. BufSize : Sendmmsg(n))

Spec == Init /\ [][Next]_vars /\ Fairness

-------------------------------------------------------------------------------
TypeOK ==
  /\ tx \in AtomicBuffers(Byte)
  /\ pc \in PC
  /\ sent \in Seq(Byte)
  /\ produced \in 0 .. MaxBytes
  /\ clobbered \in BOOLEAN
  /\ crashes \in 0 .. MaxCrashes

(* The range and the number of bytes gone from its front that say what is  *)
(* still to be sent: a result of sendmmsg counts as soon as it is stored,  *)
(* and while a swap is unfinished the encoded range is the one to trust.   *)
Origin == IF tx.state = "SWAP" THEN tx.range[tx.bit] ELSE ActiveRange(tx)

Gone == IF tx.state = "INIT" \/ NotYetCalled(tx) THEN 0 ELSE tx.msgLen

Unsent == SubSeq(Contents(tx.buf, Origin), Gone + 1, Origin.len)

(* The peer gets every byte once and in order, whenever and however often  *)
(* the worker dies inside atomic_send -- unless bytes were appended over a *)
(* swap that a dead worker left unfinished.                                *)
InOrder == \A i \in DOMAIN sent : sent[i] = i

ExactlyOnce == ~clobbered => InOrder

(* What was produced and not sent is in the buffer, in the range that the  *)
(* next call will use: no crash point forgets a byte or keeps a sent one.  *)
NothingForgotten == ~clobbered => sent \o Unsent = [i \in 1 .. produced |-> i]

(* Without a crash no append meets an unfinished swap: a call that returns *)
(* leaves the buffer in INIT or, after an error, in DO_SYSCALL.            *)
OnlyCrashesClobber == clobbered => crashes > 0

(* Where the worker is agrees with what it has stored, so that a store     *)
(* made after a restart is the one that the dead worker would have made:   *)
(* the encoded bit names the range from before the swap, a stored result   *)
(* never exceeds that range, and an unfinished swap without a worker in it *)
(* means that one died.                                                    *)
Swapping == {"restore", "copy", "flip", "finish"}

Coherent ==
  /\ pc \in {"prepare", "begin"} => tx.state = "INIT"
  /\ pc = "begin" => NotYetCalled(tx)
  /\ pc = "syscall" => tx.state = "DO_SYSCALL"
  /\ pc \in Swapping => tx.state = "SWAP"
  /\ tx.state = "SWAP" => ~NotYetCalled(tx)
  /\ tx.state = "SWAP" /\ crashes = 0 => pc \in Swapping
  /\ pc \in {"copy", "flip"} => tx.active = tx.bit
  /\ pc = "flip" => InactiveRange(tx) = SendResult(tx)
  /\ pc = "finish" => /\ tx.active # tx.bit
                     /\ ActiveRange(tx) = Ltrim(tx.range[tx.bit], tx.msgLen)
  /\ ~clobbered => Gone <= Origin.len

(* Each step is one of a reliable byte stream's or changes nothing there:  *)
(* the send takes effect in the one instant sendmmsg stores its result.    *)
Stream == INSTANCE ByteStream WITH queue <- Unsent, out <- sent

ImplementsStream ==
  /\ Stream!Init
  /\ [][~clobbered' => Stream!Next]_<<Unsent, sent>>

(* Every byte produced is sent in the end, although the worker dies.       *)
EverythingSent ==
  \A n \in 1 .. MaxBytes : produced >= n ~> (Len(sent) >= n \/ clobbered)

===============================================================================
