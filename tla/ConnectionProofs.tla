--------------------------- MODULE ConnectionProofs ---------------------------
(***************************************************************************)
(* Theorems about Connection, for every buffer size, every number of bytes *)
(* on either side, every length of their headers and any number of         *)
(* crashes.                                                                *)
(***************************************************************************)
EXTENDS Connection, AtomicBufferProofs

-------------------------------------------------------------------------------
(* The control of the worker, which does not depend on what is in the      *)
(* buffers.                                                                *)
Steps == {"idle", "prepare", "begin", "syscall", "restore", "copy", "flip", "finish"}

Handling == {"handle", "send", "receive", "recv", "eof", "copy", "transform", "check", "error"}

(* A buffer whose ranges may be anything. *)
Shaped(b) ==
  b \in [state : {b.state}, bit : 0 .. 1, msgLen : {b.msgLen}, active : 0 .. 1,
         range : {b.range}, buf : {b.buf}]

Control ==
  /\ state \in {"POLL", "SWAP_BUFFERS", "CLOSING", "ERROR"}
  /\ encoded \in [rx : [Ends -> 0 .. 1], tx : [Ends -> 0 .. 1], context : 0 .. 1]
  /\ rx = [e \in Ends |-> rx[e]] /\ tx = [e \in Ends |-> tx[e]]
  /\ \A e \in Ends : Shaped(rx[e]) /\ Shaped(tx[e])
  /\ context \in [active : 0 .. 1, got : [0 .. 1 -> [Ends -> BOOLEAN]]]
  /\ taken \in [Ends -> Nat] /\ \A e \in Ends : taken[e] <= Total[e]
  /\ reset \in [Ends -> {"none", "pending", "reported"}]
  /\ errno \in [Ends -> {"none", "ECONNRESET", "EPIPE"}]
  /\ fin \in [Ends -> BOOLEAN] /\ outFin \in [Ends -> BOOLEAN]
  /\ early \in [Ends -> BOOLEAN] /\ overlap \in BOOLEAN /\ crashes \in Nat
  /\ interest \in [Ends -> SUBSET {"in", "out"}] /\ batch \in [Ends -> SUBSET {"in", "out"}]
  /\ cur \in Ends /\ ev \in SUBSET {"in", "out"}
  /\ pc \in Handling \cup {"wait", "batch", "close", "swap", "poll", "dead", "closed",
                           "failed", "exited"}

Places ==
  /\ pc \in Handling => state = "POLL"
  /\ pc = "close" => state \in {"CLOSING", "ERROR"}
  /\ pc \in {"swap", "poll"} => state = "SWAP_BUFFERS"
  /\ pc = "poll" => /\ context.active = encoded.context
                    /\ \A e \in Ends : Swapped(e)
  /\ state = "CLOSING" => pc \in {"close", "batch", "closed", "exited", "dead"}
  /\ state = "ERROR" => pc \in {"close", "failed", "dead"}
  /\ pc \notin {"send", "recv"} => step = "idle"

-------------------------------------------------------------------------------
(* A buffer with a system call whose result is not yet in the ranges. *)
Called(b) == b.state = "SWAP" \/ (b.state = "DO_SYSCALL" /\ ~NotYetCalled(b))

Pending(b) == IF Called(b) THEN b.msgLen ELSE 0

Drop(q, n) == SubSeq(q, n + 1, Len(q))

(* The bytes of a send buffer that are still to be sent, and the bytes of  *)
(* a receive buffer that were received.                                    *)
SendOrigin(b) == IF b.state = "SWAP" THEN b.range[b.bit] ELSE ActiveRange(b)
RecvOrigin(b) == IF b.state = "SWAP" THEN b.range[1 - b.bit] ELSE ActiveRange(b)

Unsent(b) == Drop(Contents(b.buf, SendOrigin(b)), Pending(b))
Unread(b) == Contents(b.buf, Extend(RecvOrigin(b), Pending(b)))

(* What holds of the buffers whoever left them. *)
SendSound(b) ==
  /\ b \in AtomicBuffers(Byte)
  /\ Called(b) => b.msgLen \in 1 .. SendOrigin(b).len
  /\ b.state = "SWAP" /\ b.active # b.bit => ActiveRange(b) = Ltrim(SendOrigin(b), b.msgLen)

RecvSound(b) ==
  /\ b \in AtomicBuffers(Byte)
  /\ Called(b) => /\ b.msgLen # Sentinel /\ RecvOrigin(b).len + b.msgLen <= BufSize
                  /\ ~RecvOrigin(b).shutdown
  /\ b.state = "SWAP" /\ b.active = b.bit => ActiveRange(b) = Extend(RecvOrigin(b), b.msgLen)

(* Where the worker is in atomic_send and atomic_recv. *)
Swapping == {"restore", "copy", "flip", "finish"}

SendPlace(b, p) ==
  /\ p \in Steps
  /\ p \in {"prepare", "begin"} => b.state = "INIT"
  /\ p = "begin" => NotYetCalled(b)
  /\ p = "syscall" => b.state = "DO_SYSCALL"
  /\ p \in {"prepare", "begin", "syscall"} => ActiveRange(b).len > 0
  /\ p \in Swapping => b.state = "SWAP"
  /\ p \in {"copy", "flip"} => b.active = b.bit
  /\ p = "flip" => InactiveRange(b) = SendResult(b)
  /\ p = "finish" => b.active # b.bit

RecvPlace(b, p) ==
  /\ p \in Steps
  /\ ~ActiveRange(b).shutdown
  /\ p \in {"prepare", "begin"} => b.state = "INIT"
  /\ p = "begin" => NotYetCalled(b)
  /\ p = "syscall" => b.state = "DO_SYSCALL"
  /\ p \in Swapping => b.state = "SWAP"
  /\ p \in {"copy", "flip"} => b.active # b.bit
  /\ p = "flip" => InactiveRange(b) = RecvResult(b)
  /\ p = "finish" => b.active = b.bit

-------------------------------------------------------------------------------
(* A direction from the endpoint s that receives to the other one: what    *)
(* was done for it, whether its header was dealt with, and its two buffers *)
(* R and T.                                                                *)
Progress(s, got) ==
  [got |-> got, out |-> out[Other(s)], taken |-> taken[s], fin |-> fin[s],
   outFin |-> outFin[Other(s)], early |-> early[Other(s)]]

IsStream(s, c, q) ==
  \/ q = Numbered(0, c.taken)
  \/ /\ c.got /\ HeaderLen[s] <= c.taken
     /\ q = <<Header>> \o Numbered(HeaderLen[s], c.taken - HeaderLen[s])

Queued(R, T) == Unsent(T) \o Unread(R)

HeaderFirst(R, T, c) ==
  /\ c.out = <<>>
  /\ T.state = "INIT" /\ ActiveRange(T).len = 0
  /\ RecvOrigin(R).start = 0

EndLast(R, T, c) ==
  /\ ActiveRange(R).shutdown => c.fin
  /\ R.state = "DO_SYSCALL" /\ R.msgLen = 0 => c.fin
  /\ ActiveRange(T).shutdown => ActiveRange(R).shutdown
  /\ c.outFin =>
       /\ c.fin
       /\ c.early \/ (Unsent(T) = <<>> /\ Unread(R) = <<>> /\ ActiveRange(R).shutdown)

Flow(s, R, T, c) ==
  /\ RecvSound(R) /\ SendSound(T)
  /\ c.out \in Seq(Byte) /\ IsStream(s, c, c.out \o Queued(R, T))
  /\ c.got \/ HeaderFirst(R, T, c)
  /\ EndLast(R, T, c)

DirectionOk(s, R, T, got) == Flow(s, R, T, Progress(s, got))

(* What the next worker will find to be the active ranges. *)
ViewRx(e) == IF state = "SWAP_BUFFERS" THEN [rx[e] EXCEPT !.active = encoded.rx[e]] ELSE rx[e]
ViewTx(e) == IF state = "SWAP_BUFFERS" THEN [tx[e] EXCEPT !.active = encoded.tx[e]] ELSE tx[e]
ViewGot(e) == IF state = "SWAP_BUFFERS" THEN context.got[encoded.context][e]
                                        ELSE context.got[context.active][e]

AllMoved(s, R, T) ==
  /\ ActiveRange(T).shutdown /\ ActiveRange(T).len = 0 => ActiveRange(R).len = 0
  /\ ActiveRange(tx[Other(s)]).shutdown => ActiveRange(T).shutdown

(* What a transformation has done to the ranges of the endpoint e. *)
Grown(e) ==
  /\ ActiveRange(tx[e]).len <= InactiveRange(tx[e]).len
  /\ InactiveRange(rx[e]).len <= ActiveRange(rx[e]).len
  /\ InactiveRange(rx[e]).shutdown => ActiveRange(rx[e]).shutdown

Streams ==
  /\ rx \in [Ends -> AtomicBuffers(Byte)] /\ tx \in [Ends -> AtomicBuffers(Byte)]
  /\ out = [e \in Ends |-> out[e]]
  /\ \A s \in Ends : DirectionOk(s, ViewRx(s), ViewTx(Other(s)), ViewGot(s))

Sending == pc = "send" => SendPlace(tx[cur], step)
Receiving == pc = "recv" => RecvPlace(rx[cur], step)

Settling ==
  /\ pc \in {"transform", "check"} \/ state = "SWAP_BUFFERS" =>
       \A e \in Ends : ~Unfinished(e)
  /\ pc = "transform" => \A e \in Ends : /\ InactiveRange(rx[e]) = ActiveRange(rx[e])
                                         /\ InactiveRange(tx[e]) = ActiveRange(tx[e])
  /\ pc = "check" =>
       \A s \in Ends :
         LET R == Flipped(rx[s])
             T == Flipped(tx[Other(s)])
         IN /\ DirectionOk(s, R, T, context.got[1 - context.active][s])
            /\ AllMoved(s, R, T)
            /\ Grown(s)
  /\ state = "SWAP_BUFFERS" =>
       \A s \in Ends : AllMoved(s, ViewRx(s), ViewTx(Other(s)))

Ending ==
  /\ \A e \in Ends : fin[e] => taken[e] = Total[e] \/ ErrorLost(e)
  /\ pc = "eof" =>
       \/ fin[cur] /\ rx[cur].state = "INIT"
       \/ /\ reset[cur] = "reported" /\ errno[cur] = "EPIPE"
          /\ rx[cur].state = "DO_SYSCALL" /\ NotYetCalled(rx[cur])
  /\ pc = "error" \/ state = "ERROR" => \E e \in Ends : reset[e] = "reported" \/ early[e]
  /\ state = "CLOSING" => \A e \in Ends : fin[e] /\ Forwarded(e)

Data == ~overlap => Streams /\ Sending /\ Receiving /\ Settling /\ Ending

(* After a system call has failed. *)
GivingUp == pc \in {"error", "failed"} \/ (pc = "close" /\ state = "ERROR")

(* As long as no worker has died. *)
Undisturbed ==
  crashes = 0 =>
    /\ ~overlap /\ pc # "dead"
    /\ \A e \in Ends : Called(tx[e]) => pc = "send" /\ cur = e /\ step # "idle"
    /\ \A e \in Ends : Called(rx[e]) => pc = "recv" /\ cur = e /\ step # "idle"
    /\ \A e \in Ends : reset[e] = "reported" /\ errno[e] = "ECONNRESET" => GivingUp
    /\ \A e \in Ends : ~early[e]

(* The events of an endpoint are still good for something when they are    *)
(* handled.                                                                *)
Room(b) == ActiveRange(b).len < BufSize

Useful(e) ==
  \/ ActiveRange(ViewTx(e)).len > 0
  \/ Room(ViewRx(e)) /\ ~ActiveRange(ViewRx(e)).shutdown

Readable(e) ==
  \/ Room(ViewRx(e))
  \/ reset[e] # "none" /\ "out" \in batch[e]

Batched(e) ==
  /\ batch[e] # {} => state # "CLOSING" /\ Useful(e)
  /\ "in" \in batch[e] => Readable(e)

(* A send that is going to fail, because of a reset. *)
Doomed == /\ reset[cur] # "none" /\ ActiveRange(tx[cur]).len > 0 /\ ~Called(tx[cur])

Valid ==
  /\ pc # "exited"
  /\ pc \in {"poll", "batch", "wait"} /\ state # "CLOSING" =>
       \A e \in Ends : interest[e] = Interest(e)
  /\ \A e \in Ends : Batched(e)
  /\ pc \in Handling \cup {"swap", "poll"} => batch[cur] = {}
  /\ pc = "handle" /\ "in" \in ev => HasRoom(cur) \/ ("out" \in ev /\ Doomed)
  /\ pc = "send" /\ "in" \in ev => HasRoom(cur) \/ Doomed
  /\ pc = "receive" /\ "in" \in ev => HasRoom(cur)
  /\ state = "SWAP_BUFFERS" => pc \in {"swap", "poll"}

Events == crashes = 0 => Valid

IInv == Control /\ Places /\ Data /\ Undisturbed /\ Events

-------------------------------------------------------------------------------
LEMMA ShapedStores ==
  ASSUME NEW b, Shaped(b)
  PROVE  /\ b.active \in 0 .. 1 /\ b.bit \in 0 .. 1
         /\ 1 - b.active \in 0 .. 1 /\ 1 - b.bit \in 0 .. 1
         /\ \A s : \A k \in 0 .. 1 : Shaped([b EXCEPT !.state = s, !.bit = k])
         /\ \A s : Shaped([b EXCEPT !.state = s, !.bit = 0])
         /\ \A n : Shaped([b EXCEPT !.msgLen = n])
         /\ \A k \in 0 .. 1 : Shaped([b EXCEPT !.active = k])
         /\ \A r : Shaped([b EXCEPT !.range = r])
         /\ \A f : Shaped([b EXCEPT !.buf = f])
<1>1. b.active \in 0 .. 1 /\ b.bit \in 0 .. 1
  BY DEF Shaped
<1>2. 1 - b.active \in 0 .. 1 /\ 1 - b.bit \in 0 .. 1 /\ 0 \in 0 .. 1
  BY <1>1, SMT
<1>3. \A s : \A k \in 0 .. 1 : Shaped([b EXCEPT !.state = s, !.bit = k])
  BY DEF Shaped
<1>4. \A n : Shaped([b EXCEPT !.msgLen = n])
  BY DEF Shaped
<1>5. \A k \in 0 .. 1 : Shaped([b EXCEPT !.active = k])
  BY DEF Shaped
<1>6. \A r : Shaped([b EXCEPT !.range = r])
  BY DEF Shaped
<1>7. \A f : Shaped([b EXCEPT !.buf = f])
  BY DEF Shaped
<1>8. \A s : Shaped([b EXCEPT !.state = s, !.bit = 0])
  BY <1>2 DEF Shaped
<1> QED BY <1>1, <1>2, <1>3, <1>4, <1>5, <1>6, <1>7, <1>8

(* The same for the stores that the worker makes. *)
LEMMA ShapedResults ==
  ASSUME NEW b, Shaped(b)
  PROVE  /\ Shaped(Prepared(b)) /\ Shaped(Begun(b)) /\ Shaped(Finished(b))
         /\ Shaped(Flipped(b)) /\ Shaped(SendSwap(b)) /\ Shaped(RecvSwap(b))
         /\ Shaped(SendRestored(b)) /\ Shaped(RecvRestored(b))
         /\ \A n : Shaped(SendDone(b, n))
         /\ \A r : Shaped(WithInactive(b, r)) /\ Shaped(WithActive(b, r))
         /\ Shaped(RecvPrepared(b))
         /\ \A data : Shaped(RecvDone(RecvPrepared(b), data))
         /\ Shaped(Settled(b))
<1>1. \A r : Shaped(WithInactive(b, r)) /\ Shaped(WithActive(b, r))
  BY ShapedStores DEF WithInactive, WithActive
<1>2. Shaped(RecvPrepared(b))
  BY <1>1 DEF RecvPrepared
<1>3. \A data : Shaped(RecvDone(RecvPrepared(b), data))
  <2> TAKE data
  <2> DEFINE c == RecvPrepared(b)
             n == Len(data)
             f == Scatter(c.buf, RecvTarget(c), data)
             d == [c EXCEPT !.msgLen = n]
  <2>1. RecvDone(c, data) = [d EXCEPT !.buf = f]
    BY DEF RecvDone
  <2> HIDE DEF c, n, f
  <2>2. Shaped(d)
    BY <1>2, ShapedStores DEF c
  <2> HIDE DEF d
  <2>3. Shaped([d EXCEPT !.buf = f])
    BY <2>2, ShapedStores
  <2> QED BY <2>1, <2>3 DEF c
<1>4. Shaped(Settled(b))
  <2>1. CASE b.state = "SWAP" \/ (b.state = "DO_SYSCALL" /\ ~NotYetCalled(b))
    BY <2>1 DEF Settled
  <2>2. CASE ~(b.state = "SWAP" \/ (b.state = "DO_SYSCALL" /\ ~NotYetCalled(b)))
    <3> DEFINE r == ActiveRange(b)
               live == {Wrap(r.start + i) : i \in 0 .. r.len - 1}
               f == [p \in Index |-> IF p \in live THEN b.buf[p] ELSE Blank]
               m == IF b.state = "INIT" THEN 0 ELSE Sentinel
               n == NewBuffer(Blank)
               n1 == [n EXCEPT !.state = b.state]
               n2 == [n1 EXCEPT !.msgLen = m]
               n3 == [n2 EXCEPT !.active = b.active]
               n4 == [n3 EXCEPT !.range = [n.range EXCEPT ![b.active] = r]]
    <3>0. Shaped(n) /\ n = [state |-> n.state, bit |-> n.bit, msgLen |-> n.msgLen,
                            active |-> n.active, range |-> n.range, buf |-> n.buf]
      BY DEF NewBuffer, Shaped
    <3>1. Settled(b) = [n4 EXCEPT !.buf = f]
      <4> HIDE DEF r, f, m, n
      <4>1. Settled(b) = [n EXCEPT !.state = b.state, !.msgLen = m, !.active = b.active,
                            !.range[b.active] = r, !.buf = f]
        BY <2>2, Zenon DEF Settled, r, f, m, n
      <4> QED BY <3>0, <4>1
    <3> HIDE DEF f, m, n, r
    <3>2. Shaped(n1)
      BY <3>0 DEF Shaped
    <3>3. Shaped(n2)
      <4> HIDE DEF n1
      <4> QED BY <3>2, ShapedStores
    <3>4. Shaped(n3)
      <4> HIDE DEF n2
      <4> QED BY <3>3, ShapedStores
    <3>5. Shaped(n4)
      <4> HIDE DEF n3
      <4> QED BY <3>4, ShapedStores
    <3> HIDE DEF n4
    <3>6. Shaped([n4 EXCEPT !.buf = f])
      BY <3>5, ShapedStores
    <3> QED BY <3>1, <3>6
  <2> QED BY <2>1, <2>2
<1>5. Shaped(Prepared(b)) /\ Shaped(Begun(b)) /\ Shaped(Finished(b))
  BY ShapedStores DEF Prepared, Begun, Finished
<1>6. Shaped(Flipped(b)) /\ Shaped(SendRestored(b)) /\ Shaped(RecvRestored(b))
  BY ShapedStores DEF Flipped, SendRestored, RecvRestored
<1>7. Shaped(SendSwap(b)) /\ Shaped(RecvSwap(b))
  BY ShapedStores DEF SendSwap, RecvSwap
<1>8. \A n : Shaped(SendDone(b, n))
  BY ShapedStores DEF SendDone
<1> QED BY <1>1, <1>2, <1>3, <1>4, <1>5, <1>6, <1>7, <1>8

LEMMA ControlInit == Init => Control /\ Places
<1> SUFFICES ASSUME Init PROVE Control /\ Places
  OBVIOUS
<1> USE DEF Init
<1>1. Shaped(NewBuffer(Blank))
  BY DEF NewBuffer, Shaped
<1>2. encoded \in [rx : [Ends -> 0 .. 1], tx : [Ends -> 0 .. 1], context : 0 .. 1]
  BY DEF NoneEncoded
<1>3. /\ rx = [e \in Ends |-> rx[e]] /\ tx = [e \in Ends |-> tx[e]]
      /\ \A e \in Ends : Shaped(rx[e]) /\ Shaped(tx[e])
  BY <1>1
<1>4. \A e \in Ends : taken[e] <= Total[e]
  BY TotalsAssumption
<1>5. "down" \in Ends /\ 0 \in Nat /\ 0 \in 0 .. 1
  BY DEF Ends
<1> QED BY <1>2, <1>3, <1>4, <1>5 DEF Control, Places, Handling

(* What a step may do to the buffers, whatever is in them. *)
LEMMA ShapeStep ==
  ASSUME Control, [Next]_vars
  PROVE  /\ rx' = [e \in Ends |-> rx'[e]] /\ tx' = [e \in Ends |-> tx'[e]]
         /\ \A e \in Ends : Shaped(rx'[e]) /\ Shaped(tx'[e])
<1> DEFINE P == /\ rx' = [e \in Ends |-> rx'[e]] /\ tx' = [e \in Ends |-> tx'[e]]
                /\ \A e \in Ends : Shaped(rx'[e]) /\ Shaped(tx'[e])
<1> SUFFICES P
  OBVIOUS
<1>0. /\ rx = [e \in Ends |-> rx[e]] /\ tx = [e \in Ends |-> tx[e]]
      /\ \A e \in Ends : Shaped(rx[e]) /\ Shaped(tx[e])
      /\ cur \in Ends
  BY DEF Control
<1>1. CASE UNCHANGED <<rx, tx>>
  BY <1>0, <1>1
<1>2. ASSUME NEW b, Shaped(b), tx' = [tx EXCEPT ![cur] = b], rx' = rx PROVE P
  BY <1>0, <1>2
<1>3. ASSUME NEW b, Shaped(b), rx' = [rx EXCEPT ![cur] = b], tx' = tx PROVE P
  BY <1>0, <1>3
<1>4. CASE SendStore
  <2>1. PICK s \in SendStores(tx[cur]) : tx' = [tx EXCEPT ![cur] = s[3]]
    BY <1>4 DEF SendStore
  <2>2. Shaped(s[3])
    BY <1>0, <2>1, ShapedResults DEF SendStores
  <2> QED BY <1>2, <1>4, <2>1, <2>2 DEF SendStore, InSend
<1>5. CASE RecvStore
  <2>1. PICK s \in RecvStores(rx[cur]) : rx' = [rx EXCEPT ![cur] = s[3]]
    BY <1>5 DEF RecvStore
  <2>2. Shaped(s[3])
    BY <1>0, <2>1, ShapedResults DEF RecvStores
  <2> QED BY <1>3, <1>5, <2>1, <2>2 DEF RecvStore, InRecv
<1>6. ASSUME NEW n \in 1 .. BufSize, Sendmmsg(n) PROVE P
  BY <1>0, <1>2, <1>6, ShapedResults DEF Sendmmsg, InSend
<1>7. ASSUME NEW n \in 0 .. BufSize, Recvmmsg(n) PROVE P
  BY <1>0, <1>3, <1>7, ShapedResults DEF Recvmmsg, InRecv
<1>8. CASE RecvWouldBlock \/ RecvFails \/ RecvReturnsEof
  BY <1>0, <1>3, <1>8, ShapedResults
     DEF RecvWouldBlock, RecvFails, RecvError, RecvReturnsEof, InRecv
<1>9. CASE MarkEof
  BY <1>0, <1>3, <1>9, ShapedResults DEF MarkEof
<1>10. CASE CopyActiveRanges
  BY <1>0, <1>10, ShapedResults DEF CopyActiveRanges, Synced
<1>11. ASSUME NEW result \in ParseResults, Transform(result) PROVE P
  <2>1. ASSUME NEW e \in Ends
        PROVE  LET d == Direction(e, context.got[context.active][e], result[e])
               IN Shaped(d.rx) /\ Shaped(d.tx)
    <3>0. Other(e) \in Ends
      BY DEF Other, Ends
    <3> DEFINE Both(d) == Shaped(d.rx) /\ Shaped(d.tx)
    <3>1. ASSUME NEW b, Both(b), NEW flag PROVE Both(ShutDown(b, flag))
      BY <3>1, ShapedResults DEF ShutDown
    <3>2. ASSUME NEW b, Both(b) PROVE Both(Moved(b))
      <4> DEFINE w == WithInactive(b.tx, MoveDst(InactiveRange(b.tx), InactiveRange(b.rx)))
                 f == MoveBytes(b.tx.buf, InactiveRange(b.tx), b.rx.buf, InactiveRange(b.rx))
      <4>1. Shaped(w)
        BY <3>2, ShapedResults
      <4> HIDE DEF w, f
      <4>2. Shaped([w EXCEPT !.buf = f])
        BY <4>1, ShapedStores
      <4> QED BY <3>2, <4>2, ShapedResults DEF Moved, w, f
    <3>3. ASSUME NEW b, Both(b) PROVE Both(Rewritten(e, b))
      <4> DEFINE w == WithInactive(b.tx, Extend(EmptyRange, 1))
      <4>1. Shaped(w)
        BY <3>3, ShapedResults
      <4> HIDE DEF w
      <4>2. Shaped([w EXCEPT !.buf = [w.buf EXCEPT ![0] = Header]])
        BY <4>1, ShapedStores
      <4>3. [w EXCEPT !.buf[0] = Header] = [w EXCEPT !.buf = [w.buf EXCEPT ![0] = Header]]
        BY <4>1 DEF Shaped
      <4> QED BY <3>3, <4>2, <4>3, ShapedResults DEF Rewritten, w
    <3> DEFINE before == [rx |-> rx[e], tx |-> tx[Other(e)]]
    <3>4. Both(before)
      BY <1>0, <3>0
    <3>5. Both(Rewritten(e, before))
      BY <3>3, <3>4
    <3> HIDE DEF before, Both
    <3> QED BY <3>1, <3>2, <3>4, <3>5 DEF Direction, before, Both
  <2>2. \A e \in Ends : Other(e) \in Ends
    BY DEF Other, Ends
  <2> QED BY <1>11, <2>1, <2>2 DEF Transform
<1>12. ASSUME NEW e \in Ends, SwapRx(e) \/ SwapTx(e) PROVE P
  <2>1. encoded.rx[e] \in 0 .. 1 /\ encoded.tx[e] \in 0 .. 1
    BY DEF Control
  <2>2. /\ Shaped([rx[e] EXCEPT !.active = encoded.rx[e]])
        /\ Shaped([tx[e] EXCEPT !.active = encoded.tx[e]])
    BY <1>0, <2>1, ShapedStores
  <2> QED BY <1>0, <1>12, <2>2 DEF SwapRx, SwapTx
<1>13. CASE SwapDone
  BY <1>0, <1>13, ShapedResults DEF SwapDone
<1> HIDE DEF P
<1>14. ASSUME \/ \E kinds \in [Ends -> SUBSET {"in", "out"}] : EpollWait(kinds)
              \/ \E e \in Ends : Dispatch(e)
              \/ BatchDone
              \/ SendOrNot \/ SendCall \/ SendWouldBlock \/ SendFails \/ SendLoopDone
              \/ ReceiveOrNot \/ RecvCall \/ RecvLoopDone
              \/ StartClosing \/ GiveUp \/ Close \/ StartSwap \/ SwapContext \/ SwapEpoll
              \/ Recover \/ Crash
              \/ (\E e \in MayReset : Reset(e))
              \/ UNCHANGED vars
       PROVE  P
  <2>1. UNCHANGED <<rx, tx>>
    BY <1>14 DEF EpollWait, Dispatch, BatchDone, SendOrNot, SendCall, SendWouldBlock,
       SendFails, SendLoopDone, ReceiveOrNot, RecvCall, RecvLoopDone, StartClosing, GiveUp,
       Close, StartSwap, SwapContext, SwapEpoll, Recover, Crash, Reset, InSend, InRecv,
       InSwap, vars, shared
  <2> QED BY <1>1, <2>1 DEF P
<1>15. CASE Next
  <2>1. CASE Sends \/ Receives \/ (\E result \in ParseResults : Transform(result))
    BY <1>6, <1>7, <1>11, <2>1 DEF Sends, Receives
  <2>2. CASE SwapStore
    BY <1>12, <1>14, <2>2 DEF SwapStore
  <2> QED BY <1>4, <1>5, <1>8, <1>9, <1>10, <1>13, <1>14, <1>15, <2>1, <2>2 DEF Next, Run
<1> QED BY <1>14, <1>15

LEMMA ControlStep ==
  ASSUME Control, Places, [Next]_vars
  PROVE  Control' /\ Places'
<1>0. /\ rx' = [e \in Ends |-> rx'[e]] /\ tx' = [e \in Ends |-> tx'[e]]
      /\ \A e \in Ends : Shaped(rx'[e]) /\ Shaped(tx'[e])
  BY ShapeStep
<1>a. /\ cur \in Ends /\ "down" \in Ends
      /\ NoneEncoded \in [rx : [Ends -> 0 .. 1], tx : [Ends -> 0 .. 1], context : 0 .. 1]
  BY DEF Control, Ends, NoneEncoded
<1>b. [e \in Ends |-> {}] \in [Ends -> SUBSET {"in", "out"}]
  OBVIOUS
<1> USE <1>0, <1>a, <1>b DEF Control, Places, Handling
<1>1. ASSUME NEW kinds \in [Ends -> SUBSET {"in", "out"}], EpollWait(kinds)
      PROVE  Control' /\ Places'
  BY <1>1 DEF EpollWait, shared, kernel, history
<1>2. ASSUME NEW e \in Ends, Dispatch(e) PROVE Control' /\ Places'
  BY <1>2 DEF Dispatch, shared, kernel, history
<1>3. CASE BatchDone
  BY <1>3 DEF BatchDone, shared, kernel, history
<1>4. CASE SendOrNot \/ ReceiveOrNot
  BY <1>4 DEF SendOrNot, ReceiveOrNot, shared, kernel, history
<1>5. CASE SendCall \/ SendStore \/ SendWouldBlock \/ SendLoopDone
  BY <1>5 DEF SendCall, SendStore, SendWouldBlock, SendLoopDone, InSend, history
<1>6. CASE SendFails
  BY <1>6 DEF SendFails, InSend, history
<1>7. ASSUME NEW n \in 1 .. BufSize, Sendmmsg(n) PROVE Control' /\ Places'
  BY <1>7 DEF Sendmmsg, InSend, history
<1>8. CASE RecvCall \/ RecvStore \/ RecvWouldBlock \/ RecvLoopDone \/ RecvReturnsEof
  BY <1>8 DEF RecvCall, RecvStore, RecvWouldBlock, RecvLoopDone, RecvReturnsEof, InRecv, history
<1>9. CASE RecvFails
  BY <1>9 DEF RecvFails, RecvError, InRecv, history
<1>10. ASSUME NEW n \in 0 .. BufSize, Recvmmsg(n) PROVE Control' /\ Places'
  <2>1. taken' \in [Ends -> Nat] /\ \A e \in Ends : taken'[e] <= Total[e]
    <3>1. n \in Nat /\ taken[cur] \in Nat /\ Total[cur] \in Nat
      BY BufSizeAssumption, TotalsAssumption
    <3>2. n <= Total[cur] - taken[cur] /\ taken' = [taken EXCEPT ![cur] = taken[cur] + n]
      BY <1>10 DEF Recvmmsg
    <3>3. taken[cur] + n \in Nat /\ taken[cur] + n <= Total[cur]
      BY <3>1, <3>2, SMT
    <3> QED BY <3>2, <3>3
  <2> QED BY <1>10, <2>1 DEF Recvmmsg, InRecv, history
<1>11. CASE MarkEof
  BY <1>11 DEF MarkEof, history
<1>12. CASE CopyActiveRanges
  BY <1>12 DEF CopyActiveRanges, kernel
<1>13. ASSUME NEW result \in ParseResults, Transform(result) PROVE Control' /\ Places'
  <2>1. /\ pc = "transform" /\ pc' = "check"
        /\ UNCHANGED <<state, encoded, kernel, interest, step, cur, ev, batch, history>>
    BY <1>13 DEF Transform
  <2>2. context' \in [active : 0 .. 1, got : [0 .. 1 -> [Ends -> BOOLEAN]]]
    <3> DEFINE g == [e \in Ends |-> context.got[context.active][e] \/ result[e] # "incomplete"]
               h == [context.got EXCEPT ![1 - context.active] = g]
    <3>1. context' = [context EXCEPT !.got = h]
      BY <1>13 DEF Transform
    <3>2. h \in [0 .. 1 -> [Ends -> BOOLEAN]]
      OBVIOUS
    <3> HIDE DEF h
    <3> QED BY <3>1, <3>2
  <2> QED BY <2>1, <2>2 DEF kernel, history
<1>14. CASE StartClosing \/ GiveUp
  BY <1>14 DEF StartClosing, GiveUp, kernel, history
<1>15. CASE Close
  BY <1>15 DEF Close, Fails, Returns, shared, kernel, history
<1>16. CASE StartSwap
  <2>1. \A k \in 0 .. 1 : 1 - k \in 0 .. 1
    BY SMT
  <2>2. /\ encoded' = [rx |-> [e \in Ends |-> 1 - rx[e].active],
                       tx |-> [e \in Ends |-> 1 - tx[e].active],
                       context |-> 1 - context.active]
        /\ state' = "SWAP_BUFFERS" /\ pc' = "swap" /\ pc = "check"
        /\ UNCHANGED <<rx, tx, context, kernel, interest, step, cur, ev, batch, history>>
    BY <1>16 DEF StartSwap
  <2>3. \A e \in Ends : 1 - rx[e].active \in 0 .. 1 /\ 1 - tx[e].active \in 0 .. 1
    BY ShapedStores
  <2>4. encoded' \in [rx : [Ends -> 0 .. 1], tx : [Ends -> 0 .. 1], context : 0 .. 1]
    BY <2>1, <2>2, <2>3
  <2> QED BY <2>2, <2>4 DEF kernel, history
<1>17. ASSUME NEW e \in Ends, SwapRx(e) \/ SwapTx(e) PROVE Control' /\ Places'
  BY <1>17 DEF SwapRx, SwapTx, InSwap, kernel, history
<1>18. CASE SwapContext
  BY <1>18 DEF SwapContext, InSwap, kernel, history
<1>19. \A e \in Ends : Interest(e) \in SUBSET {"in", "out"}
  BY DEF Interest
<1>20. CASE SwapEpoll
  <2>1. interest' \in [Ends -> SUBSET {"in", "out"}] /\ outFin' \in [Ends -> BOOLEAN]
    BY <1>19, <1>20 DEF SwapEpoll, EpollFromBuffers, Drained
  <2> QED BY <1>20, <2>1 DEF SwapEpoll, EpollFromBuffers, shared, history, Swapped, SwappedRx, SwappedTx
<1>21. CASE SwapDone
  BY <1>21 DEF SwapDone, Returns, kernel, history
<1>22. CASE Recover
  <2>1. interest' \in [Ends -> SUBSET {"in", "out"}] /\ outFin' \in [Ends -> BOOLEAN]
        /\ early' \in [Ends -> BOOLEAN]
    BY <1>19, <1>22 DEF Recover, EpollFromBuffers, Drained, Held
  <2> QED BY <1>22, <2>1 DEF Recover, EpollFromBuffers, shared
<1>23. CASE Crash
  BY <1>23 DEF Crash, shared, kernel
<1>24. ASSUME NEW e \in MayReset, Reset(e) PROVE Control' /\ Places'
  <2>1. PICK error \in Errors(e) : errno' = [errno EXCEPT ![e] = error]
    BY <1>24 DEF Reset
  <2>2. error \in {"ECONNRESET", "EPIPE"}
    <3>1. CASE outFin[e]
      BY <2>1, <3>1 DEF Errors
    <3>2. CASE ~outFin[e] /\ fin[e]
      BY <2>1, <3>2 DEF Errors
    <3>3. CASE ~outFin[e] /\ ~fin[e]
      BY <2>1, <3>3 DEF Errors
    <3> QED BY <3>1, <3>2, <3>3
  <2>3. errno' \in [Ends -> {"none", "ECONNRESET", "EPIPE"}]
    BY <2>1, <2>2
  <2>4. /\ reset' \in [Ends -> {"none", "pending", "reported"}]
        /\ UNCHANGED <<shared, taken, fin, out, outFin, interest, process, history>>
    BY <1>24 DEF Reset
  <2> QED BY <2>3, <2>4 DEF shared, process, history, Swapped, SwappedRx, SwappedTx
<1>25. CASE UNCHANGED vars
  BY <1>25 DEF vars, shared, kernel, process, history, Swapped, SwappedRx, SwappedTx
<1> QED
  <2>1. CASE Sends \/ Receives \/ (\E result \in ParseResults : Transform(result))
    BY <1>7, <1>10, <1>13, <2>1 DEF Sends, Receives
  <2>2. CASE SwapStore
    BY <1>17, <1>18, <2>2 DEF SwapStore
  <2>3. CASE Next
    BY <1>1, <1>2, <1>3, <1>4, <1>5, <1>6, <1>8, <1>9, <1>11, <1>12, <1>14, <1>15, <1>16,
       <1>20, <1>21, <1>22, <1>23, <1>24, <2>1, <2>2, <2>3 DEF Next, Run
  <2> QED BY <1>25, <2>3

-------------------------------------------------------------------------------
(* The bytes to be sent and the bytes received are sequences.              *)
LEMMA SendFields ==
  ASSUME NEW T, SendSound(T)
  PROVE  /\ T \in AtomicBuffers(Byte) /\ T.buf \in [Index -> Byte]
         /\ SendOrigin(T) \in Ranges /\ ActiveRange(T) \in Ranges
         /\ Pending(T) \in 0 .. SendOrigin(T).len
         /\ Contents(T.buf, SendOrigin(T)) \in Seq(Byte)
         /\ Len(Contents(T.buf, SendOrigin(T))) = SendOrigin(T).len
         /\ Unsent(T) \in Seq(Byte)
         /\ Len(Unsent(T)) = SendOrigin(T).len - Pending(T)
<1>1. T \in AtomicBuffers(Byte)
  BY DEF SendSound
<1>2. SendOrigin(T) \in Ranges /\ T.buf \in [Index -> Byte] /\ ActiveRange(T) \in Ranges
  BY <1>1, BufferFields DEF SendOrigin
<1>3. SendOrigin(T).len \in Nat
  BY <1>2, BufSizeAssumption DEF Ranges
<1>4. Pending(T) \in 0 .. SendOrigin(T).len
  BY <1>3, SMT DEF SendSound, Pending
<1>5. /\ Contents(T.buf, SendOrigin(T)) \in Seq(Byte)
      /\ Len(Contents(T.buf, SendOrigin(T))) = SendOrigin(T).len
  BY <1>2, ContentsType
<1> QED BY <1>1, <1>2, <1>4, <1>5, Suffix DEF Unsent, Drop

LEMMA RecvFields ==
  ASSUME NEW R, RecvSound(R)
  PROVE  /\ R \in AtomicBuffers(Byte) /\ R.buf \in [Index -> Byte]
         /\ RecvOrigin(R) \in Ranges /\ ActiveRange(R) \in Ranges
         /\ Pending(R) \in Nat /\ RecvOrigin(R).len + Pending(R) <= BufSize
         /\ Extend(RecvOrigin(R), Pending(R)) \in Ranges
         /\ Extend(RecvOrigin(R), Pending(R)).len = RecvOrigin(R).len + Pending(R)
         /\ Unread(R) \in Seq(Byte)
         /\ Len(Unread(R)) = RecvOrigin(R).len + Pending(R)
<1>1. R \in AtomicBuffers(Byte)
  BY DEF RecvSound
<1>2. /\ R.bit \in 0 .. 1 /\ R.range \in [0 .. 1 -> Ranges] /\ ActiveRange(R) \in Ranges
      /\ R.buf \in [Index -> Byte] /\ R.msgLen \in (0 .. BufSize) \cup {Sentinel}
  BY <1>1, BufferFields
<1>3. 1 - R.bit \in 0 .. 1
  BY <1>2, SMT
<1>4. RecvOrigin(R) \in Ranges
  BY <1>2, <1>3 DEF RecvOrigin
<1>5. RecvOrigin(R).len \in Nat /\ RecvOrigin(R).len <= BufSize
  BY <1>4, BufSizeAssumption, SMT DEF Ranges
<1>6. Pending(R) \in Nat /\ RecvOrigin(R).len + Pending(R) <= BufSize
  <2>1. CASE Called(R)
    <3>1. R.msgLen \in Nat
      BY <1>2, <2>1, BufSizeAssumption DEF RecvSound
    <3> QED BY <2>1, <3>1 DEF RecvSound, Pending
  <2>2. CASE ~Called(R)
    BY <1>5, <2>2, SMT DEF Pending
  <2> QED BY <2>1, <2>2
<1>7. /\ Extend(RecvOrigin(R), Pending(R)) \in Ranges
      /\ Extend(RecvOrigin(R), Pending(R)).len = RecvOrigin(R).len + Pending(R)
  BY <1>4, <1>6, ExtendType
<1> QED BY <1>1, <1>2, <1>4, <1>6, <1>7, ContentsType DEF Unread

(* What the other buffer of a direction, and what was done for it, need to *)
(* know of a change that moves no byte.                                    *)
SendAlike(T, U) ==
  /\ SendSound(U)
  /\ Unsent(U) = Unsent(T)
  /\ ActiveRange(U).shutdown = ActiveRange(T).shutdown
  /\ T.state = "INIT" /\ ActiveRange(T).len = 0 => U.state = "INIT" /\ ActiveRange(U).len = 0

RecvAlike(R, Q) ==
  /\ RecvSound(Q)
  /\ Unread(Q) = Unread(R)
  /\ ActiveRange(Q).shutdown = ActiveRange(R).shutdown
  /\ RecvOrigin(R).start = 0 => RecvOrigin(Q).start = 0
  /\ Q.state = "DO_SYSCALL" /\ Q.msgLen = 0 => R.state = "DO_SYSCALL" /\ R.msgLen = 0

LEMMA FlowAlike ==
  ASSUME NEW s, NEW R, NEW T, NEW Q, NEW U, NEW c,
         Flow(s, R, T, c), RecvAlike(R, Q), SendAlike(T, U)
  PROVE  Flow(s, Q, U, c)
<1>1. Queued(Q, U) = Queued(R, T)
  BY DEF Queued, RecvAlike, SendAlike
<1>2. c.got \/ HeaderFirst(Q, U, c)
  BY DEF Flow, HeaderFirst, RecvAlike, SendAlike
<1>3. EndLast(Q, U, c)
  BY DEF Flow, EndLast, RecvAlike, SendAlike
<1> QED BY <1>1, <1>2, <1>3 DEF Flow, RecvAlike, SendAlike

LEMMA AlikeSelf ==
  /\ \A T : SendSound(T) => SendAlike(T, T)
  /\ \A R : RecvSound(R) => RecvAlike(R, R)
BY DEF SendAlike, RecvAlike

-------------------------------------------------------------------------------
(* A store of atomic_send moves no byte and leads to its next place.       *)
LEMMA SendStoreSound ==
  ASSUME NEW T, SendSound(T), NEW st \in SendStores(T), SendPlace(T, st[1])
  PROVE  /\ SendAlike(T, st[3]) /\ SendPlace(st[3], st[2])
         /\ ~Called(T) => st[2] # "idle" /\ ~Called(st[3]) /\ ActiveRange(st[3]) = ActiveRange(T)
         /\ st[2] = "idle" => ~Called(st[3])
<1> DEFINE a == ActiveRange(T)
           Goal(p, q, U) ==
             SendPlace(T, p) =>
               /\ SendAlike(T, U) /\ SendPlace(U, q)
               /\ ~Called(T) => q # "idle" /\ ~Called(U) /\ ActiveRange(U) = ActiveRange(T)
               /\ q = "idle" => ~Called(U)
<1>0. /\ T \in AtomicBuffers(Byte) /\ T.buf \in [Index -> Byte]
      /\ SendOrigin(T) \in Ranges /\ a \in Ranges
      /\ Pending(T) \in 0 .. SendOrigin(T).len
  BY SendFields
<1>1. Goal("prepare", "begin", Prepared(T))
  <2> SUFFICES ASSUME SendPlace(T, "prepare")
               PROVE  /\ SendAlike(T, Prepared(T)) /\ SendPlace(Prepared(T), "begin")
                      /\ ~Called(Prepared(T)) /\ ActiveRange(Prepared(T)) = ActiveRange(T)
    OBVIOUS
  <2> DEFINE U == Prepared(T)
  <2>1. /\ U \in AtomicBuffers(Byte) /\ U.state = T.state /\ U.bit = T.bit
        /\ U.msgLen = Sentinel /\ U.active = T.active /\ U.range = T.range /\ U.buf = T.buf
    BY <1>0, TightStores
  <2>2. T.state = "INIT" /\ a.len > 0
    BY DEF SendPlace
  <2> HIDE DEF U
  <2>3. /\ ~Called(T) /\ ~Called(U) /\ ActiveRange(U) = a /\ SendOrigin(U) = SendOrigin(T)
    BY <2>1, <2>2 DEF Called, ActiveRange, SendOrigin
  <2>4. Unsent(U) = Unsent(T)
    BY <2>1, <2>3 DEF Unsent, Pending
  <2> QED BY <2>1, <2>2, <2>3, <2>4
          DEF SendAlike, SendSound, SendPlace, Steps, Swapping, NotYetCalled, U
<1>2. Goal("begin", "syscall", Begun(T))
  <2> SUFFICES ASSUME SendPlace(T, "begin")
               PROVE  /\ SendAlike(T, Begun(T)) /\ SendPlace(Begun(T), "syscall")
                      /\ ~Called(Begun(T)) /\ ActiveRange(Begun(T)) = ActiveRange(T)
    OBVIOUS
  <2> DEFINE U == Begun(T)
  <2>1. /\ U \in AtomicBuffers(Byte) /\ U.state = "DO_SYSCALL"
        /\ U.msgLen = T.msgLen /\ U.active = T.active /\ U.range = T.range /\ U.buf = T.buf
    BY <1>0, TightStores
  <2>2. T.state = "INIT" /\ a.len > 0 /\ NotYetCalled(T)
    BY DEF SendPlace
  <2> HIDE DEF U
  <2>3. /\ ~Called(T) /\ ~Called(U) /\ ActiveRange(U) = a /\ SendOrigin(U) = SendOrigin(T)
    BY <2>1, <2>2 DEF Called, ActiveRange, SendOrigin, NotYetCalled
  <2>4. Unsent(U) = Unsent(T)
    BY <2>1, <2>3 DEF Unsent, Pending
  <2>5. ~(T.state = "INIT" /\ ActiveRange(T).len = 0)
    BY <1>0, <2>2, SMT DEF Ranges
  <2> QED BY <2>1, <2>2, <2>3, <2>4, <2>5
          DEF SendAlike, SendSound, SendPlace, Steps, Swapping, NotYetCalled, U
<1>3. ~NotYetCalled(T) => Goal("syscall", "restore", SendSwap(T))
  <2> SUFFICES ASSUME SendPlace(T, "syscall"), ~NotYetCalled(T)
               PROVE  /\ SendAlike(T, SendSwap(T)) /\ SendPlace(SendSwap(T), "restore")
                      /\ Called(T)
    OBVIOUS
  <2> DEFINE U == SendSwap(T)
  <2>1. /\ U \in AtomicBuffers(Byte) /\ U.state = "SWAP" /\ U.bit = T.active
        /\ U.msgLen = T.msgLen /\ U.active = T.active /\ U.range = T.range /\ U.buf = T.buf
    BY <1>0, TightStores
  <2>2. T.state = "DO_SYSCALL"
    BY DEF SendPlace
  <2> HIDE DEF U
  <2>3. /\ Called(T) /\ Called(U) /\ ActiveRange(U) = a /\ SendOrigin(U) = SendOrigin(T)
    BY <2>1, <2>2 DEF Called, ActiveRange, SendOrigin
  <2>4. Unsent(U) = Unsent(T)
    BY <2>1, <2>3 DEF Unsent, Pending
  <2> QED BY <2>1, <2>2, <2>3, <2>4
          DEF SendAlike, SendSound, SendPlace, Steps, Swapping, U
<1>4. Goal("restore", "copy", SendRestored(T))
  <2> SUFFICES ASSUME SendPlace(T, "restore")
               PROVE  /\ SendAlike(T, SendRestored(T)) /\ SendPlace(SendRestored(T), "copy")
                      /\ Called(T)
    OBVIOUS
  <2> DEFINE U == SendRestored(T)
  <2>1. /\ U \in AtomicBuffers(Byte) /\ U.state = T.state /\ U.bit = T.bit
        /\ U.msgLen = T.msgLen /\ U.active = T.bit /\ U.range = T.range /\ U.buf = T.buf
    BY <1>0, TightStores
  <2>2. T.state = "SWAP"
    BY DEF SendPlace, Swapping
  <2> HIDE DEF U
  <2>3. /\ Called(T) /\ Called(U) /\ ActiveRange(U) = SendOrigin(T)
        /\ SendOrigin(U) = SendOrigin(T)
    BY <2>1, <2>2 DEF Called, ActiveRange, SendOrigin
  <2>4. Unsent(U) = Unsent(T)
    BY <2>1, <2>3 DEF Unsent, Pending
  <2>5. SendOrigin(T).shutdown = a.shutdown
    <3>1. CASE T.active = T.bit
      BY <2>2, <3>1 DEF SendOrigin, ActiveRange
    <3>2. CASE T.active # T.bit
      <4>1. a = Ltrim(SendOrigin(T), T.msgLen)
        BY <2>2, <3>2 DEF SendSound
      <4> HIDE DEF a
      <4> QED BY <1>0, <4>1 DEF Ltrim, Ranges
    <3> QED BY <3>1, <3>2
  <2>6. SendSound(U)
    BY <2>1, <2>2, <2>3 DEF SendSound
  <2>7. SendPlace(U, "copy")
    BY <2>1, <2>2 DEF SendPlace, Steps, Swapping
  <2> QED BY <2>2, <2>3, <2>4, <2>5, <2>6, <2>7 DEF SendAlike, U
<1>5. Goal("copy", "flip", WithInactive(T, SendResult(T)))
  <2> SUFFICES ASSUME SendPlace(T, "copy")
               PROVE  /\ SendAlike(T, WithInactive(T, SendResult(T)))
                      /\ SendPlace(WithInactive(T, SendResult(T)), "flip")
                      /\ Called(T)
    OBVIOUS
  <2> DEFINE r == SendResult(T)
             U == WithInactive(T, r)
  <2>1. T.state = "SWAP" /\ T.active = T.bit
    BY DEF SendPlace, Swapping
  <2>2. Called(T) /\ SendOrigin(T) = a /\ T.msgLen \in Nat
    BY <1>0, <2>1, SMT DEF Called, SendOrigin, ActiveRange, Pending
  <2>3. r \in Ranges
    BY <1>0, <2>2, LtrimType DEF SendResult
  <2> HIDE DEF r
  <2>4. /\ U \in AtomicBuffers(Byte) /\ U.state = T.state /\ U.bit = T.bit
        /\ U.msgLen = T.msgLen /\ U.active = T.active /\ U.buf = T.buf
        /\ U.range[T.active] = T.range[T.active] /\ ActiveRange(U) = a
        /\ InactiveRange(U) = r
    BY <1>0, <2>3, InactiveStore
  <2> HIDE DEF U
  <2>5. Called(U) /\ SendOrigin(U) = SendOrigin(T)
    BY <2>1, <2>4 DEF Called, SendOrigin
  <2>6. Unsent(U) = Unsent(T)
    BY <2>2, <2>4, <2>5 DEF Unsent, Pending
  <2>7. SendResult(U) = r
    BY <2>4 DEF SendResult, r
  <2>8. SendSound(U)
    BY <2>1, <2>2, <2>4, <2>5 DEF SendSound
  <2>9. SendPlace(U, "flip")
    BY <2>1, <2>4, <2>7 DEF SendPlace, Steps, Swapping
  <2> QED BY <2>1, <2>2, <2>4, <2>6, <2>8, <2>9 DEF SendAlike, U, r
<1>6. Goal("flip", "finish", Flipped(T))
  <2> SUFFICES ASSUME SendPlace(T, "flip")
               PROVE  /\ SendAlike(T, Flipped(T)) /\ SendPlace(Flipped(T), "finish")
                      /\ Called(T)
    OBVIOUS
  <2> DEFINE U == Flipped(T)
  <2>1. T.state = "SWAP" /\ T.active = T.bit /\ InactiveRange(T) = Ltrim(a, T.msgLen)
    BY DEF SendPlace, Swapping, SendResult
  <2>2. /\ U \in AtomicBuffers(Byte) /\ U.state = T.state /\ U.bit = T.bit
        /\ U.msgLen = T.msgLen /\ U.active = 1 - T.active /\ U.range = T.range
        /\ U.buf = T.buf /\ ActiveRange(U) = Ltrim(a, T.msgLen)
    BY <1>0, <2>1, FlipStore
  <2> HIDE DEF U
  <2>3. Called(T) /\ Called(U) /\ SendOrigin(U) = SendOrigin(T) /\ SendOrigin(T) = a
    BY <2>1, <2>2 DEF Called, SendOrigin, ActiveRange
  <2>4. Unsent(U) = Unsent(T)
    BY <2>2, <2>3 DEF Unsent, Pending
  <2>5. ActiveRange(U).shutdown = a.shutdown
    <3> HIDE DEF a
    <3> QED BY <1>0, <2>2 DEF Ltrim, Ranges
  <2>6. U.active # U.bit
    BY <1>0, <2>1, <2>2, BufferFields
  <2>7. SendSound(U)
    BY <2>1, <2>2, <2>3 DEF SendSound
  <2>8. SendPlace(U, "finish")
    BY <2>1, <2>2, <2>6 DEF SendPlace, Steps, Swapping
  <2> QED BY <2>1, <2>3, <2>4, <2>5, <2>7, <2>8 DEF SendAlike, U
<1>7. Goal("finish", "idle", Finished(T))
  <2> SUFFICES ASSUME SendPlace(T, "finish")
               PROVE  /\ SendAlike(T, Finished(T)) /\ SendPlace(Finished(T), "idle")
                      /\ Called(T) /\ ~Called(Finished(T))
    OBVIOUS
  <2> DEFINE U == Finished(T)
             o == SendOrigin(T)
             n == T.msgLen
  <2>1. /\ U \in AtomicBuffers(Byte) /\ U.state = "INIT"
        /\ U.msgLen = T.msgLen /\ U.active = T.active /\ U.range = T.range /\ U.buf = T.buf
    BY <1>0, TightStores
  <2>2. T.state = "SWAP" /\ T.active # T.bit
    BY DEF SendPlace, Swapping
  <2>3. Called(T) /\ a = Ltrim(o, n) /\ Pending(T) = n
    BY <2>2 DEF Called, SendSound, Pending
  <2> HIDE DEF U
  <2>4. ~Called(U) /\ ActiveRange(U) = a /\ SendOrigin(U) = a /\ Pending(U) = 0
    BY <2>1 DEF Called, ActiveRange, SendOrigin, Pending
  <2>5. Unsent(U) = Contents(T.buf, a)
    <3>1. Contents(T.buf, a) \in Seq(Byte)
      BY <1>0, ContentsType
    <3>2. Unsent(U) = SubSeq(Contents(T.buf, a), 0 + 1, Len(Contents(T.buf, a)))
      BY <2>1, <2>4 DEF Unsent, Drop
    <3> QED BY <3>1, <3>2, SubSeqFull
  <2>6. Contents(T.buf, a) = SubSeq(Contents(T.buf, o), n + 1, o.len)
    BY <1>0, <2>3, LtrimContents
  <2>7. Unsent(U) = Unsent(T)
    <3>1. Len(Contents(T.buf, o)) = o.len
      BY SendFields
    <3> QED BY <2>3, <2>5, <2>6, <3>1 DEF Unsent, Drop
  <2>8. SendSound(U)
    BY <2>1, <2>4 DEF SendSound
  <2>9. SendPlace(U, "idle")
    BY DEF SendPlace, Steps, Swapping
  <2> QED BY <2>2, <2>3, <2>4, <2>7, <2>8, <2>9 DEF SendAlike, U
<1> HIDE DEF Goal
<1>8. Goal(st[1], st[2], st[3])
  <2>1. CASE st = <<"prepare", "begin", Prepared(T)>>
    BY <1>1, <2>1
  <2>2. CASE st = <<"begin", "syscall", Begun(T)>>
    BY <1>2, <2>2
  <2>3. CASE ~NotYetCalled(T) /\ st = <<"syscall", "restore", SendSwap(T)>>
    BY <1>3, <2>3
  <2>4. CASE st = <<"restore", "copy", SendRestored(T)>>
    BY <1>4, <2>4
  <2>5. CASE st = <<"copy", "flip", WithInactive(T, SendResult(T))>>
    BY <1>5, <2>5
  <2>6. CASE st = <<"flip", "finish", Flipped(T)>>
    BY <1>6, <2>6
  <2>7. CASE st = <<"finish", "idle", Finished(T)>>
    BY <1>7, <2>7
  <2> QED BY <2>1, <2>2, <2>3, <2>4, <2>5, <2>6, <2>7 DEF SendStores
<1> QED BY <1>8 DEF Goal

(* The same for atomic_recv. *)
LEMMA RecvStoreSound ==
  ASSUME NEW R, RecvSound(R), NEW st \in RecvStores(R), RecvPlace(R, st[1])
  PROVE  /\ RecvAlike(R, st[3]) /\ RecvPlace(st[3], st[2])
         /\ ~Called(R) => st[2] # "idle"
         /\ st[2] = "idle" => ~Called(st[3])
<1> DEFINE a == ActiveRange(R)
           Goal(p, q, U) ==
             RecvPlace(R, p) =>
               /\ RecvAlike(R, U) /\ RecvPlace(U, q)
               /\ ~Called(R) => q # "idle"
               /\ q = "idle" => ~Called(U)
<1>0. /\ R \in AtomicBuffers(Byte) /\ R.buf \in [Index -> Byte]
      /\ RecvOrigin(R) \in Ranges /\ a \in Ranges
      /\ Pending(R) \in Nat /\ RecvOrigin(R).len + Pending(R) <= BufSize
      /\ R.active \in 0 .. 1 /\ R.bit \in 0 .. 1 /\ InactiveRange(R) \in Ranges
  BY RecvFields, BufferFields
<1>a. 1 - R.active # R.active /\ 1 - (1 - R.active) = R.active /\ 1 - R.bit # R.bit
      /\ (R.active # R.bit <=> R.active = 1 - R.bit) /\ Sentinel # 0
  BY <1>0, SMT DEF Sentinel
<1>1. Goal("prepare", "begin", Prepared(R))
  <2> SUFFICES ASSUME RecvPlace(R, "prepare")
               PROVE  RecvAlike(R, Prepared(R)) /\ RecvPlace(Prepared(R), "begin")
    OBVIOUS
  <2> DEFINE U == Prepared(R)
  <2>1. /\ U \in AtomicBuffers(Byte) /\ U.state = R.state /\ U.bit = R.bit
        /\ U.msgLen = Sentinel /\ U.active = R.active /\ U.range = R.range /\ U.buf = R.buf
    BY <1>0, TightStores
  <2>2. R.state = "INIT" /\ ~a.shutdown
    BY DEF RecvPlace
  <2> HIDE DEF U
  <2>3. /\ ~Called(R) /\ ~Called(U) /\ ActiveRange(U) = a /\ RecvOrigin(U) = RecvOrigin(R)
    BY <2>1, <2>2 DEF Called, ActiveRange, RecvOrigin
  <2>4. Unread(U) = Unread(R)
    BY <2>1, <2>3 DEF Unread, Pending
  <2> QED BY <2>1, <2>2, <2>3, <2>4
          DEF RecvAlike, RecvSound, RecvPlace, Steps, Swapping, NotYetCalled, U
<1>2. Goal("begin", "syscall", Begun(R))
  <2> SUFFICES ASSUME RecvPlace(R, "begin")
               PROVE  RecvAlike(R, Begun(R)) /\ RecvPlace(Begun(R), "syscall")
    OBVIOUS
  <2> DEFINE U == Begun(R)
  <2>1. /\ U \in AtomicBuffers(Byte) /\ U.state = "DO_SYSCALL"
        /\ U.msgLen = R.msgLen /\ U.active = R.active /\ U.range = R.range /\ U.buf = R.buf
    BY <1>0, TightStores
  <2>2. R.state = "INIT" /\ ~a.shutdown /\ R.msgLen = Sentinel
    BY DEF RecvPlace, NotYetCalled
  <2> HIDE DEF U
  <2>3. /\ ~Called(R) /\ ~Called(U) /\ ActiveRange(U) = a /\ RecvOrigin(U) = RecvOrigin(R)
    BY <2>1, <2>2 DEF Called, ActiveRange, RecvOrigin, NotYetCalled
  <2>4. Unread(U) = Unread(R)
    BY <2>1, <2>3 DEF Unread, Pending
  <2> QED BY <1>a, <2>1, <2>2, <2>3, <2>4
          DEF RecvAlike, RecvSound, RecvPlace, Steps, Swapping, U
<1>3. R.msgLen \notin {Sentinel, 0} => Goal("syscall", "restore", RecvSwap(R))
  <2> SUFFICES ASSUME RecvPlace(R, "syscall"), R.msgLen \notin {Sentinel, 0}
               PROVE  RecvAlike(R, RecvSwap(R)) /\ RecvPlace(RecvSwap(R), "restore")
    OBVIOUS
  <2> DEFINE U == RecvSwap(R)
  <2>1. /\ U \in AtomicBuffers(Byte) /\ U.state = "SWAP" /\ U.bit = 1 - R.active
        /\ U.msgLen = R.msgLen /\ U.active = R.active /\ U.range = R.range /\ U.buf = R.buf
    BY <1>0, TightStores
  <2>2. R.state = "DO_SYSCALL" /\ ~a.shutdown
    BY DEF RecvPlace
  <2> HIDE DEF U
  <2>3. /\ Called(R) /\ Called(U) /\ ActiveRange(U) = a /\ RecvOrigin(U) = RecvOrigin(R)
    BY <1>a, <2>1, <2>2 DEF Called, ActiveRange, RecvOrigin, NotYetCalled
  <2>4. Unread(U) = Unread(R)
    BY <2>1, <2>3 DEF Unread, Pending
  <2>5. U.active # U.bit
    BY <1>a, <2>1
  <2>6. RecvSound(U)
    BY <2>1, <2>3, <2>5 DEF RecvSound
  <2>7. RecvPlace(U, "restore")
    BY <2>1, <2>2, <2>3 DEF RecvPlace, Steps, Swapping
  <2> QED BY <2>1, <2>3, <2>4, <2>6, <2>7 DEF RecvAlike, U
<1>b. R.state = "SWAP" => /\ Called(R) /\ Pending(R) = R.msgLen
                          /\ RecvOrigin(R) = R.range[1 - R.bit] /\ ~RecvOrigin(R).shutdown
  BY DEF Called, Pending, RecvOrigin, RecvSound
<1>4. Goal("restore", "copy", RecvRestored(R))
  <2> SUFFICES ASSUME RecvPlace(R, "restore")
               PROVE  RecvAlike(R, RecvRestored(R)) /\ RecvPlace(RecvRestored(R), "copy")
    OBVIOUS
  <2> DEFINE U == RecvRestored(R)
  <2>1. /\ U \in AtomicBuffers(Byte) /\ U.state = R.state /\ U.bit = R.bit
        /\ U.msgLen = R.msgLen /\ U.active = 1 - R.bit /\ U.range = R.range /\ U.buf = R.buf
    BY <1>0, TightStores
  <2>2. R.state = "SWAP" /\ ~a.shutdown
    BY DEF RecvPlace, Swapping
  <2> HIDE DEF U
  <2>3. /\ Called(R) /\ Called(U) /\ ActiveRange(U) = RecvOrigin(R)
        /\ RecvOrigin(U) = RecvOrigin(R)
    BY <2>1, <2>2 DEF Called, ActiveRange, RecvOrigin
  <2>4. Unread(U) = Unread(R)
    BY <2>1, <2>3 DEF Unread, Pending
  <2>5. U.active # U.bit
    BY <1>a, <2>1
  <2>6. RecvSound(U)
    BY <2>1, <2>2, <2>3, <2>5 DEF RecvSound
  <2>7. RecvPlace(U, "copy")
    BY <1>b, <2>1, <2>2, <2>3, <2>5 DEF RecvPlace, Steps, Swapping
  <2>8. ActiveRange(U).shutdown = FALSE /\ a.shutdown = FALSE
    BY <1>0, <1>b, <2>2, <2>3 DEF Ranges
  <2> QED BY <2>1, <2>2, <2>3, <2>4, <2>6, <2>7, <2>8 DEF RecvAlike, U
<1>5. Goal("copy", "flip", WithInactive(R, RecvResult(R)))
  <2> SUFFICES ASSUME RecvPlace(R, "copy")
               PROVE  /\ RecvAlike(R, WithInactive(R, RecvResult(R)))
                      /\ RecvPlace(WithInactive(R, RecvResult(R)), "flip")
    OBVIOUS
  <2> DEFINE r == RecvResult(R)
             U == WithInactive(R, r)
  <2>1. R.state = "SWAP" /\ R.active # R.bit /\ ~a.shutdown
    BY DEF RecvPlace, Swapping
  <2>2. RecvOrigin(R) = a
    BY <1>a, <1>b, <2>1 DEF ActiveRange
  <2>3. r \in Ranges
    <3>1. a.len + R.msgLen <= BufSize /\ R.msgLen \in Nat
      BY <1>0, <1>b, <2>1, <2>2
    <3> QED BY <1>0, <3>1, ExtendType DEF RecvResult
  <2> HIDE DEF r
  <2>4. /\ U \in AtomicBuffers(Byte) /\ U.state = R.state /\ U.bit = R.bit
        /\ U.msgLen = R.msgLen /\ U.active = R.active /\ U.buf = R.buf
        /\ U.range[R.active] = R.range[R.active] /\ ActiveRange(U) = a
        /\ InactiveRange(U) = r
    BY <1>0, <2>3, InactiveStore
  <2> HIDE DEF U
  <2>5. Called(U) /\ RecvOrigin(U) = RecvOrigin(R)
    BY <1>a, <1>b, <2>1, <2>4 DEF Called, RecvOrigin
  <2>6. Unread(U) = Unread(R)
    BY <1>b, <2>1, <2>4, <2>5 DEF Unread, Pending
  <2>7. RecvResult(U) = r
    BY <2>4 DEF RecvResult, r
  <2>8. RecvSound(U)
    BY <1>b, <2>1, <2>4, <2>5 DEF RecvSound
  <2>9. RecvPlace(U, "flip")
    BY <2>1, <2>4, <2>7 DEF RecvPlace, Steps, Swapping
  <2> QED BY <2>1, <2>4, <2>5, <2>6, <2>8, <2>9 DEF RecvAlike, U, r
<1>6. Goal("flip", "finish", Flipped(R))
  <2> SUFFICES ASSUME RecvPlace(R, "flip")
               PROVE  RecvAlike(R, Flipped(R)) /\ RecvPlace(Flipped(R), "finish")
    OBVIOUS
  <2> DEFINE U == Flipped(R)
  <2>1. R.state = "SWAP" /\ R.active # R.bit /\ ~a.shutdown
        /\ InactiveRange(R) = Extend(a, R.msgLen)
    BY DEF RecvPlace, Swapping, RecvResult
  <2>2. /\ U \in AtomicBuffers(Byte) /\ U.state = R.state /\ U.bit = R.bit
        /\ U.msgLen = R.msgLen /\ U.active = 1 - R.active /\ U.range = R.range
        /\ U.buf = R.buf /\ ActiveRange(U) = Extend(a, R.msgLen)
    BY <1>0, <2>1, FlipStore
  <2> HIDE DEF U
  <2>3. Called(U) /\ RecvOrigin(U) = RecvOrigin(R) /\ RecvOrigin(R) = a
    BY <1>a, <1>b, <2>1, <2>2 DEF Called, RecvOrigin, ActiveRange
  <2>4. Unread(U) = Unread(R)
    BY <1>b, <2>1, <2>2, <2>3 DEF Unread, Pending
  <2>5. ActiveRange(U).shutdown = a.shutdown
    <3> HIDE DEF a
    <3> QED BY <1>0, <2>2 DEF Extend, Ranges
  <2>6. U.active = U.bit
    BY <1>0, <2>1, <2>2, SMT
  <2>7. RecvSound(U)
    BY <1>b, <2>1, <2>2, <2>3 DEF RecvSound
  <2>8. RecvPlace(U, "finish")
    BY <2>1, <2>2, <2>5, <2>6 DEF RecvPlace, Steps, Swapping
  <2> QED BY <2>1, <2>2, <2>3, <2>4, <2>5, <2>7, <2>8 DEF RecvAlike, U
<1>7. Goal("finish", "idle", Finished(R))
  <2> SUFFICES ASSUME RecvPlace(R, "finish")
               PROVE  /\ RecvAlike(R, Finished(R)) /\ RecvPlace(Finished(R), "idle")
                      /\ Called(R) /\ ~Called(Finished(R))
    OBVIOUS
  <2> DEFINE U == Finished(R)
             o == RecvOrigin(R)
  <2>1. /\ U \in AtomicBuffers(Byte) /\ U.state = "INIT"
        /\ U.msgLen = R.msgLen /\ U.active = R.active /\ U.range = R.range /\ U.buf = R.buf
    BY <1>0, TightStores
  <2>2. R.state = "SWAP" /\ R.active = R.bit /\ ~a.shutdown
    BY DEF RecvPlace, Swapping
  <2>3. a = Extend(o, Pending(R))
    BY <1>b, <2>2 DEF RecvSound
  <2> HIDE DEF U
  <2>4. ~Called(U) /\ ActiveRange(U) = a /\ RecvOrigin(U) = a /\ Pending(U) = 0
    BY <2>1 DEF Called, ActiveRange, RecvOrigin, Pending
  <2>5. Unread(U) = Unread(R)
    <3>1. Extend(a, 0) = a
      <4>1. a.len + 0 <= BufSize
        <5> HIDE DEF a
        <5> QED BY <1>0, BufSizeAssumption, SMT DEF Ranges
      <4> QED BY <1>0, <4>1, ExtendType
    <3> QED BY <2>1, <2>3, <2>4, <3>1 DEF Unread
  <2>6. o.start = a.start
    <3> HIDE DEF a, o
    <3> QED BY <1>0, <2>3 DEF Extend, Ranges, o
  <2>7. RecvSound(U)
    BY <2>1, <2>4 DEF RecvSound
  <2>8. RecvPlace(U, "idle")
    BY <2>2, <2>4 DEF RecvPlace, Steps, Swapping
  <2> QED BY <1>b, <2>1, <2>2, <2>4, <2>5, <2>6, <2>7, <2>8 DEF RecvAlike, U
<1> HIDE DEF Goal
<1>8. Goal(st[1], st[2], st[3])
  <2>1. CASE st = <<"prepare", "begin", Prepared(R)>>
    BY <1>1, <2>1
  <2>2. CASE st = <<"begin", "syscall", Begun(R)>>
    BY <1>2, <2>2
  <2>3. CASE R.msgLen \notin {Sentinel, 0} /\ st = <<"syscall", "restore", RecvSwap(R)>>
    BY <1>3, <2>3
  <2>4. CASE st = <<"restore", "copy", RecvRestored(R)>>
    BY <1>4, <2>4
  <2>5. CASE st = <<"copy", "flip", WithInactive(R, RecvResult(R))>>
    BY <1>5, <2>5
  <2>6. CASE st = <<"flip", "finish", Flipped(R)>>
    BY <1>6, <2>6
  <2>7. CASE st = <<"finish", "idle", Finished(R)>>
    BY <1>7, <2>7
  <2> QED BY <2>1, <2>2, <2>3, <2>4, <2>5, <2>6, <2>7 DEF RecvStores
<1> QED BY <1>8 DEF Goal

-------------------------------------------------------------------------------
LEMMA SplitSeq ==
  ASSUME NEW S, NEW q \in Seq(S), NEW n \in 0 .. Len(q)
  PROVE  /\ SubSeq(q, 1, n) \in Seq(S) /\ Len(SubSeq(q, 1, n)) = n
         /\ Drop(q, n) \in Seq(S) /\ Len(Drop(q, n)) = Len(q) - n
         /\ SubSeq(q, 1, n) \o Drop(q, n) = q
<1>1. Len(q) \in Nat
  BY LenProperties
<1>2. Drop(q, n) \in Seq(S) /\ Len(Drop(q, n)) = Len(q) - n
  BY Suffix DEF Drop
<1>3. SubSeq(q, 1, n) \in Seq(S) /\ Len(SubSeq(q, 1, n)) = n
  <2>1. 1 \in Int /\ n \in Int /\ \A i \in 1 .. n : i \in 1 .. Len(q)
    BY <1>1, SMT
  <2>2. \A i \in 1 .. n : q[i] \in S
    BY <2>1, ElementOfSeq
  <2>3. SubSeq(q, 1, n) \in Seq(S) /\ Len(SubSeq(q, 1, n)) = IF 1 <= n THEN n - 1 + 1 ELSE 0
    BY <2>1, <2>2, SubSeqProperties
  <2>4. (IF 1 <= n THEN n - 1 + 1 ELSE 0) = n
    BY <1>1, SMT
  <2> QED BY <2>3, <2>4
<1>4. SubSeq(q, 1, n) \o SubSeq(q, n + 1, Len(q)) = SubSeq(q, 1, Len(q))
  <2>1. 1 \in 1 .. Len(q) + 1 /\ n \in 1 - 1 .. Len(q) /\ Len(q) \in n .. Len(q)
    BY <1>1, SMT
  <2> QED BY <2>1, ConcatAdjacentSubSeq
<1>5. SubSeq(q, 1, Len(q)) = q
  BY SubSeqFull
<1> QED BY <1>2, <1>3, <1>4, <1>5 DEF Drop

(* Without a call whose result is pending, the queue is the active range's. *)
LEMMA SendIdle ==
  ASSUME NEW T, SendSound(T), ~Called(T)
  PROVE  /\ SendOrigin(T) = ActiveRange(T) /\ Pending(T) = 0
         /\ Unsent(T) = Contents(T.buf, ActiveRange(T))
<1>1. SendOrigin(T) = ActiveRange(T) /\ Pending(T) = 0
  BY DEF SendOrigin, Pending, Called
<1>2. /\ Contents(T.buf, ActiveRange(T)) \in Seq(Byte)
  BY <1>1, SendFields
<1>3. Unsent(T) = SubSeq(Contents(T.buf, ActiveRange(T)), 0 + 1, Len(Contents(T.buf, ActiveRange(T))))
  BY <1>1 DEF Unsent, Drop
<1> QED BY <1>1, <1>2, <1>3, SubSeqFull

LEMMA RecvIdle ==
  ASSUME NEW R, RecvSound(R), ~Called(R)
  PROVE  /\ RecvOrigin(R) = ActiveRange(R) /\ Pending(R) = 0
         /\ Unread(R) = Contents(R.buf, ActiveRange(R))
<1>1. RecvOrigin(R) = ActiveRange(R) /\ Pending(R) = 0
  BY DEF RecvOrigin, Pending, Called
<1>2. ActiveRange(R) \in Ranges
  BY RecvFields
<1>3. ActiveRange(R).len + 0 <= BufSize
  BY <1>2, BufSizeAssumption, SMT DEF Ranges
<1> QED BY <1>1, <1>2, <1>3, ExtendType DEF Unread

(* A call that is entered, or resumed, finds its place.                    *)
LEMMA EntryPlace ==
  /\ \A T : SendSound(T) /\ ActiveRange(T).len > 0 => SendPlace(T, Entry(T)) /\ Entry(T) # "idle"
  /\ \A R : RecvSound(R) /\ ~ActiveRange(R).shutdown => RecvPlace(R, Entry(R)) /\ Entry(R) # "idle"
<1>1. \A b : b \in AtomicBuffers(Byte) => b.state \in {"INIT", "DO_SYSCALL", "SWAP"}
  BY DEF AtomicBuffers, TransactionStates
<1> QED BY <1>1 DEF SendSound, RecvSound, Entry, SendPlace, RecvPlace, Steps, Swapping

(* sendmmsg takes the first of the unsent bytes. *)
LEMMA SendDoneSound ==
  ASSUME NEW T, SendSound(T), T.state = "DO_SYSCALL", NotYetCalled(T),
         NEW n \in 1 .. BufSize, n <= ActiveRange(T).len
  PROVE  LET U == SendDone(T, n)
             sent == Gather(T.buf, IovecUsed(ActiveRange(T)), n)
         IN /\ SendSound(U) /\ U.state = "DO_SYSCALL"
            /\ ActiveRange(U) = ActiveRange(T) /\ ActiveRange(U).len > 0
            /\ sent \in Seq(Byte) /\ sent \o Unsent(U) = Unsent(T)
            /\ Unsent(T) # <<>>
<1> DEFINE U == SendDone(T, n)
           a == ActiveRange(T)
           c == Contents(T.buf, a)
           sent == Gather(T.buf, IovecUsed(a), n)
<1>0. T \in AtomicBuffers(Byte) /\ T.buf \in [Index -> Byte] /\ a \in Ranges
  BY SendFields
<1>1. n \in Nat /\ a.len \in Nat /\ n \in 1 .. a.len /\ n # Sentinel /\ a.len > 0
      /\ n \in (0 .. BufSize) \cup {Sentinel}
  <2>1. a.len \in Nat
    BY <1>0, BufSizeAssumption DEF Ranges
  <2> HIDE DEF a
  <2> QED BY <2>1, BufSizeAssumption, SMT DEF Sentinel, a
<1>2. /\ U \in AtomicBuffers(Byte) /\ U.state = "DO_SYSCALL" /\ U.msgLen = n
      /\ U.active = T.active /\ U.range = T.range /\ U.buf = T.buf
  BY <1>0, <1>1 DEF SendDone, AtomicBuffers
<1>3. Unsent(T) = c
  BY SendIdle DEF Called
<1> HIDE DEF U
<1>4. Called(U) /\ SendOrigin(U) = a /\ Pending(U) = n /\ ActiveRange(U) = a
  BY <1>1, <1>2 DEF Called, NotYetCalled, SendOrigin, Pending, ActiveRange
<1>5. c \in Seq(Byte) /\ Len(c) = a.len
  BY <1>0, ContentsType
<1>6. Unsent(U) = Drop(c, n)
  BY <1>2, <1>4 DEF Unsent
<1>7. n \in 0 .. a.len
  BY <1>1, SMT
<1>8. sent = SubSeq(c, 1, n)
  BY <1>0, <1>7, GatherContents
<1>9. sent \in Seq(Byte) /\ sent \o Unsent(U) = c
  BY <1>5, <1>6, <1>7, <1>8, SplitSeq
<1>10. c # <<>>
  <2>1. Len(<<>>) = 0
    OBVIOUS
  <2> HIDE DEF c, a
  <2> QED BY <1>1, <1>5, <2>1, SMT
<1>11. SendSound(U)
  BY <1>1, <1>2, <1>4 DEF SendSound
<1> QED BY <1>1, <1>2, <1>3, <1>4, <1>9, <1>10, <1>11 DEF U

-------------------------------------------------------------------------------
(* The bytes of a peer, by their numbers. *)
LEMMA NumberedType ==
  ASSUME NEW s \in Ends, NEW first \in Nat, NEW n \in Nat, first + n <= Total[s]
  PROVE  /\ Numbered(first, n) \in Seq(Byte) /\ Len(Numbered(first, n)) = n
         /\ \A i \in 1 .. n : Numbered(first, n)[i] = first + i
<1>1. Total.down \in Nat /\ Total.up \in Nat /\ (s = "down" \/ s = "up")
  BY TotalsAssumption DEF Ends
<1>2. Longest \in Nat /\ Total[s] <= Longest
  BY <1>1, SMT DEF Longest
<1>3. \A i \in 1 .. n : first + i \in Byte
  <2>1. Total[s] \in Nat
    BY <1>1
  <2>2. \A i \in 1 .. n : first + i \in 0 .. Longest + 1
    BY <1>2, <2>1, SMT
  <2> QED BY <2>2 DEF Byte, Header, Blank
<1>4. Numbered(first, n) \in [1 .. n -> Byte]
  BY <1>3 DEF Numbered
<1> QED BY <1>4, SMT DEF Numbered

LEMMA HeaderByte ==
  /\ Header \in Byte /\ Blank \in Byte /\ Longest \in Nat
  /\ <<Header>> \in Seq(Byte) /\ Len(<<Header>>) = 1
<1>1. Total.down \in Nat /\ Total.up \in Nat
  BY TotalsAssumption DEF Ends
<1>2. Header \in Byte /\ Blank \in Byte /\ Longest \in Nat
  BY <1>1, SMT DEF Byte, Header, Blank, Longest
<1> QED BY <1>2

LEMMA NumberedMore ==
  ASSUME NEW s \in Ends, NEW first \in Nat, NEW n \in Nat, NEW m \in Nat,
         first + (n + m) <= Total[s]
  PROVE  Numbered(first, n) \o Numbered(first + n, m) = Numbered(first, n + m)
<1>0. Total[s] \in Nat
  BY TotalsAssumption
<1>1. first + n \in Nat /\ n + m \in Nat /\ first + n <= Total[s] /\ first + n + m <= Total[s]
  BY <1>0, SMT
<1> DEFINE a == Numbered(first, n)
           b == Numbered(first + n, m)
           c == Numbered(first, n + m)
<1>2. /\ a \in Seq(Byte) /\ Len(a) = n /\ \A i \in 1 .. n : a[i] = first + i
      /\ b \in Seq(Byte) /\ Len(b) = m /\ \A i \in 1 .. m : b[i] = first + n + i
      /\ c \in Seq(Byte) /\ Len(c) = n + m /\ \A i \in 1 .. n + m : c[i] = first + i
  <2>1. a \in Seq(Byte) /\ Len(a) = n /\ \A i \in 1 .. n : a[i] = first + i
    BY <1>1, NumberedType
  <2>2. b \in Seq(Byte) /\ Len(b) = m /\ \A i \in 1 .. m : b[i] = first + n + i
    BY <1>1, NumberedType
  <2>3. c \in Seq(Byte) /\ Len(c) = n + m /\ \A i \in 1 .. n + m : c[i] = first + i
    BY <1>1, NumberedType
  <2> QED BY <2>1, <2>2, <2>3
<1> HIDE DEF a, b, c
<1>3. /\ a \o b \in Seq(Byte) /\ Len(a \o b) = Len(a) + Len(b)
      /\ \A i \in 1 .. Len(a) + Len(b) :
           (a \o b)[i] = IF i <= Len(a) THEN a[i] ELSE b[i - Len(a)]
  BY <1>2, ConcatProperties
<1>4. ASSUME NEW i \in 1 .. n + m PROVE (a \o b)[i] = c[i]
  <2>1. CASE i <= n
    BY <1>2, <1>3, <2>1, SMT
  <2>2. CASE ~(i <= n)
    <3>1. i - n \in 1 .. m /\ first + n + (i - n) = first + i
      BY <2>2, SMT
    <3>2. (a \o b)[i] = b[i - n]
      BY <1>2, <1>3, <2>2
    <3>3. b[i - n] = first + n + (i - n)
      BY <1>2, <3>1
    <3> QED BY <1>2, <3>1, <3>2, <3>3
  <2> QED BY <2>1, <2>2
<1>5. a \o b = c
  BY <1>2, <1>3, <1>4, SeqEqual
<1> QED BY <1>5 DEF a, b, c

(* recvmmsg stores what it received behind the bytes received before.      *)
LEMMA RecvDoneSound ==
  ASSUME NEW R, RecvSound(R), R.state = "DO_SYSCALL", NotYetCalled(R),
         ~ActiveRange(R).shutdown, NEW data \in Seq(Byte),
         Len(data) <= Capacity(RecvTarget(RecvPrepared(R)))
  PROVE  LET Q == RecvDone(RecvPrepared(R), data)
         IN /\ RecvSound(Q) /\ Q.state = "DO_SYSCALL" /\ Q.msgLen = Len(data)
            /\ ~ActiveRange(Q).shutdown
            /\ Unread(Q) = Unread(R) \o data
            /\ RecvOrigin(R).start = 0 => RecvOrigin(Q).start = 0
<1> DEFINE Q == RecvDone(RecvPrepared(R), data)
           a == ActiveRange(R)
<1>0. R \in AtomicBuffers(Byte) /\ a \in Ranges
  BY RecvFields
<1>1. /\ Q \in AtomicBuffers(Byte)
      /\ Q.state = R.state /\ Q.bit = R.bit /\ Q.active = R.active
      /\ Q.msgLen = Len(data)
      /\ ActiveRange(Q) = Rewound(a)
      /\ ActiveRange(Q).len = a.len
      /\ ActiveRange(Q).shutdown = a.shutdown
      /\ a.len + Len(data) <= BufSize
      /\ Contents(Q.buf, Extend(ActiveRange(Q), Len(data))) = Contents(R.buf, a) \o data
  BY <1>0, ReceivedBuffer
<1> HIDE DEF Q
<1>2. Len(data) \in Nat /\ Len(data) # Sentinel
  BY LenProperties, SMT DEF Sentinel
<1>3. Called(Q) /\ RecvOrigin(Q) = ActiveRange(Q) /\ Pending(Q) = Len(data)
  BY <1>1, <1>2 DEF Called, NotYetCalled, RecvOrigin, Pending
<1>4. RecvOrigin(R) = a /\ Unread(R) = Contents(R.buf, a)
  BY RecvIdle DEF Called
<1>5. Unread(Q) = Unread(R) \o data
  BY <1>1, <1>3, <1>4 DEF Unread
<1>6. RecvSound(Q)
  BY <1>1, <1>2, <1>3 DEF RecvSound
<1>7. a.start = 0 => ActiveRange(Q).start = 0
  <2>1. Rewound(a).start = a.start \/ Rewound(a).start = 0
    BY <1>0 DEF Rewound, Ranges
  <2> QED BY <1>1, <2>1
<1> QED BY <1>1, <1>3, <1>4, <1>5, <1>6, <1>7 DEF Q

(* recvmmsg that fails has rewound an empty range, no more.                *)
LEMMA RecvPreparedSound ==
  ASSUME NEW R, RecvSound(R), R.state = "DO_SYSCALL", NotYetCalled(R)
  PROVE  /\ RecvAlike(R, RecvPrepared(R)) /\ ~Called(RecvPrepared(R))
         /\ RecvPrepared(R).state = "DO_SYSCALL" /\ RecvPrepared(R).msgLen = Sentinel
         /\ ActiveRange(RecvPrepared(R)).len = ActiveRange(R).len
<1> DEFINE Q == RecvPrepared(R)
           a == ActiveRange(R)
<1>0. R \in AtomicBuffers(Byte) /\ a \in Ranges /\ R.buf \in [Index -> Byte]
  BY RecvFields
<1>1. Rewound(a) \in Ranges /\ Rewound(a).len = a.len /\ Rewound(a).shutdown = a.shutdown
      /\ (Rewound(a).start = a.start \/ Rewound(a).start = 0)
  BY <1>0, RewoundType DEF Rewound, Ranges
<1>2. /\ Q \in AtomicBuffers(Byte) /\ Q.state = R.state /\ Q.msgLen = R.msgLen
      /\ Q.buf = R.buf /\ ActiveRange(Q) = Rewound(a)
  BY <1>0, <1>1, ActiveStore DEF RecvPrepared
<1> HIDE DEF Q
<1>3. ~Called(Q) /\ ~Called(R) /\ Q.msgLen = Sentinel
  BY <1>2 DEF Called, NotYetCalled
<1>4. RecvSound(Q)
  BY <1>2, <1>3 DEF RecvSound
<1>5. RecvOrigin(Q) = Rewound(a) /\ Unread(Q) = Contents(R.buf, Rewound(a))
  BY <1>2, <1>3, <1>4, RecvIdle
<1>6. RecvOrigin(R) = a /\ Unread(R) = Contents(R.buf, a)
  BY <1>3, RecvIdle
<1>7. Unread(Q) = Unread(R)
  BY <1>0, <1>5, <1>6, RewoundContents
<1>8. Sentinel # 0
  BY SMT DEF Sentinel
<1> QED BY <1>1, <1>2, <1>3, <1>4, <1>5, <1>6, <1>7, <1>8 DEF RecvAlike, Q

(* The end of a stream is a result of 0, which ends the transaction, or an *)
(* EPIPE, which does not, and then a mark in the active range.             *)
Quiet(R) == R.state = "INIT" \/ (R.state = "DO_SYSCALL" /\ NotYetCalled(R))

LEMMA EofSound ==
  ASSUME NEW R, RecvSound(R)
  PROVE  /\ R.state = "DO_SYSCALL" /\ R.msgLen = 0 =>
              /\ RecvAlike(R, Finished(R)) /\ Finished(R).state = "INIT"
              /\ ~Called(Finished(R))
         /\ Quiet(R) =>
              LET Q == WithActive(R, [ActiveRange(R) EXCEPT !.shutdown = TRUE])
              IN /\ RecvSound(Q) /\ Unread(Q) = Unread(R)
                 /\ ActiveRange(Q).shutdown
                 /\ RecvOrigin(R).start = 0 => RecvOrigin(Q).start = 0
<1> DEFINE a == ActiveRange(R)
<1>0. R \in AtomicBuffers(Byte) /\ a \in Ranges /\ R.buf \in [Index -> Byte]
  BY RecvFields
<1>1. ASSUME R.state = "DO_SYSCALL", R.msgLen = 0
      PROVE  /\ RecvAlike(R, Finished(R)) /\ Finished(R).state = "INIT"
             /\ ~Called(Finished(R))
  <2> DEFINE Q == Finished(R)
  <2>1. /\ Q \in AtomicBuffers(Byte) /\ Q.state = "INIT"
        /\ Q.active = R.active /\ Q.range = R.range /\ Q.buf = R.buf
    BY <1>0, TightStores
  <2> HIDE DEF Q
  <2>2. ~Called(Q) /\ ActiveRange(Q) = a
    BY <2>1 DEF Called, ActiveRange
  <2>3. RecvSound(Q)
    BY <2>1, <2>2 DEF RecvSound
  <2>4. RecvOrigin(Q) = a /\ Unread(Q) = Contents(R.buf, a)
    BY <2>1, <2>2, <2>3, RecvIdle
  <2>5. RecvOrigin(R) = a /\ Pending(R) = 0
    BY <1>1 DEF RecvOrigin, Pending
  <2>6. Extend(a, 0) = a
    <3>1. a.len + 0 <= BufSize
      BY <1>0, BufSizeAssumption, SMT DEF Ranges
    <3> QED BY <1>0, <3>1, ExtendType
  <2>7. Unread(R) = Contents(R.buf, a)
    BY <2>5, <2>6 DEF Unread
  <2> QED BY <2>1, <2>2, <2>3, <2>4, <2>5, <2>7 DEF RecvAlike, Q
<1>2. ASSUME Quiet(R)
      PROVE  LET Q == WithActive(R, [a EXCEPT !.shutdown = TRUE])
             IN /\ RecvSound(Q) /\ Unread(Q) = Unread(R)
                /\ ActiveRange(Q).shutdown
                /\ RecvOrigin(R).start = 0 => RecvOrigin(Q).start = 0
  <2> DEFINE r == [a EXCEPT !.shutdown = TRUE]
             Q == WithActive(R, r)
  <2>1. r \in Ranges /\ r.start = a.start /\ r.len = a.len /\ r.shutdown
    BY <1>0 DEF Ranges
  <2> HIDE DEF r
  <2>2. /\ Q \in AtomicBuffers(Byte) /\ Q.state = R.state /\ Q.msgLen = R.msgLen
        /\ Q.buf = R.buf /\ ActiveRange(Q) = r
    BY <1>0, <2>1, ActiveStore
  <2> HIDE DEF Q
  <2>3. ~Called(Q) /\ ~Called(R) /\ Q.state # "SWAP"
    BY <1>2, <2>2 DEF Called, NotYetCalled, Quiet
  <2>4. RecvSound(Q)
    BY <2>2, <2>3 DEF RecvSound
  <2>5. RecvOrigin(Q) = r /\ Unread(Q) = Contents(R.buf, r)
    BY <2>2, <2>3, <2>4, RecvIdle
  <2>6. RecvOrigin(R) = a /\ Unread(R) = Contents(R.buf, a)
    BY <2>3, RecvIdle
  <2>7. Contents(R.buf, r) = Contents(R.buf, a)
    BY <2>1 DEF Contents
  <2> QED BY <1>2, <2>1, <2>2, <2>4, <2>5, <2>6, <2>7 DEF Q, r
<1> QED BY <1>1, <1>2

(* copy_active_ranges, where it finds no unfinished swap. *)
LEMMA SyncedSound ==
  /\ \A T : SendSound(T) /\ T.state # "SWAP" =>
       /\ SendAlike(T, Synced(T))
       /\ Synced(T).state = T.state /\ Synced(T).msgLen = T.msgLen
       /\ ActiveRange(Synced(T)) = ActiveRange(T) /\ InactiveRange(Synced(T)) = ActiveRange(T)
  /\ \A R : RecvSound(R) /\ ~Called(R) =>
       /\ RecvAlike(R, Synced(R))
       /\ Synced(R).state = R.state /\ Synced(R).msgLen = R.msgLen
       /\ ActiveRange(Synced(R)) = ActiveRange(R) /\ InactiveRange(Synced(R)) = ActiveRange(R)
<1>0. \A b \in AtomicBuffers(Byte) :
        /\ Synced(b) \in AtomicBuffers(Byte) /\ Synced(b).buf = b.buf
        /\ Synced(b).state = b.state /\ Synced(b).msgLen = b.msgLen
        /\ ActiveRange(Synced(b)) = ActiveRange(b) /\ InactiveRange(Synced(b)) = ActiveRange(b)
  BY BufferFields, InactiveStore DEF Synced
<1>1. ASSUME NEW T, SendSound(T), T.state # "SWAP" PROVE SendAlike(T, Synced(T))
  <2> DEFINE U == Synced(T)
  <2>1. /\ U \in AtomicBuffers(Byte) /\ U.buf = T.buf /\ U.state = T.state
        /\ U.msgLen = T.msgLen /\ ActiveRange(U) = ActiveRange(T)
    BY <1>0, <1>1 DEF SendSound
  <2> HIDE DEF U
  <2>2. SendOrigin(U) = SendOrigin(T) /\ Pending(U) = Pending(T) /\ (Called(U) <=> Called(T))
    BY <1>1, <2>1 DEF SendOrigin, Pending, Called, NotYetCalled
  <2>3. Unsent(U) = Unsent(T)
    BY <2>1, <2>2 DEF Unsent
  <2>4. SendSound(U)
    BY <1>1, <2>1, <2>2 DEF SendSound
  <2> QED BY <2>1, <2>3, <2>4 DEF SendAlike, U
<1>2. ASSUME NEW R, RecvSound(R), ~Called(R) PROVE RecvAlike(R, Synced(R))
  <2> DEFINE Q == Synced(R)
  <2>1. /\ Q \in AtomicBuffers(Byte) /\ Q.buf = R.buf /\ Q.state = R.state
        /\ Q.msgLen = R.msgLen /\ ActiveRange(Q) = ActiveRange(R)
    BY <1>0, <1>2 DEF RecvSound
  <2> HIDE DEF Q
  <2>2. ~Called(Q) /\ Q.state # "SWAP"
    BY <1>2, <2>1 DEF Called, NotYetCalled
  <2>3. RecvSound(Q)
    BY <2>1, <2>2 DEF RecvSound
  <2>4. /\ RecvOrigin(Q) = ActiveRange(R) /\ Unread(Q) = Contents(R.buf, ActiveRange(R))
        /\ RecvOrigin(R) = ActiveRange(R) /\ Unread(R) = Contents(R.buf, ActiveRange(R))
    BY <1>2, <2>1, <2>2, <2>3, RecvIdle
  <2> QED BY <2>1, <2>3, <2>4 DEF RecvAlike, Q
<1> QED BY <1>0, <1>1, <1>2 DEF SendSound, RecvSound

(* What the model blanks is what nothing reads. *)
LEMMA SettledFields ==
  ASSUME NEW b \in AtomicBuffers(Byte),
         ~(b.state = "SWAP" \/ (b.state = "DO_SYSCALL" /\ ~NotYetCalled(b)))
  PROVE  /\ Settled(b) \in AtomicBuffers(Byte)
         /\ Settled(b).state = b.state
         /\ b.state = "DO_SYSCALL" => Settled(b).msgLen = Sentinel
         /\ ActiveRange(Settled(b)) = ActiveRange(b)
         /\ Contents(Settled(b).buf, ActiveRange(b)) = Contents(b.buf, ActiveRange(b))
<1> DEFINE r == ActiveRange(b)
           live == {Wrap(r.start + i) : i \in 0 .. r.len - 1}
           f == [p \in Index |-> IF p \in live THEN b.buf[p] ELSE Blank]
           m == IF b.state = "INIT" THEN 0 ELSE Sentinel
           n == NewBuffer(Blank)
           g == [n.range EXCEPT ![b.active] = r]
<1>0. /\ b.state \in TransactionStates /\ b.active \in 0 .. 1 /\ r \in Ranges
      /\ b.buf \in [Index -> Byte] /\ n \in AtomicBuffers(Byte) /\ n.range \in [0 .. 1 -> Ranges]
      /\ Blank \in Byte
  BY BufferFields, HeaderByte, NewBufferType
<1>1. m \in (0 .. BufSize) \cup {Sentinel} /\ (b.state = "DO_SYSCALL" => m = Sentinel)
  BY BufSizeAssumption, SMT
<1>2. f \in [Index -> Byte]
  BY <1>0
<1>3. \A i \in 1 .. r.len : f[Wrap(r.start + i - 1)] = b.buf[Wrap(r.start + i - 1)]
  <2> TAKE i \in 1 .. r.len
  <2>1. /\ i - 1 \in 0 .. r.len - 1 /\ r.start + (i - 1) = r.start + i - 1
        /\ Wrap(r.start + i - 1) \in Index
    <3>1. r.start \in Index /\ r.len \in 0 .. BufSize
      BY <1>0 DEF Ranges
    <3> HIDE DEF r
    <3> QED BY <3>1, BufSizeAssumption, SMT DEF Index, Wrap, r
  <2>2. Wrap(r.start + i - 1) \in live
    <3> HIDE DEF r
    <3> QED BY <2>1
  <2> QED BY <2>1, <2>2
<1>4. g \in [0 .. 1 -> Ranges] /\ g[b.active] = r
  BY <1>0
<1>5. Settled(b) = [n EXCEPT !.state = b.state, !.msgLen = m, !.active = b.active,
                      !.range[b.active] = r, !.buf = f]
  <2> HIDE DEF m, n, f, r
  <2> QED BY Zenon DEF Settled, r, f, m, n
<1>6. Settled(b) = [n EXCEPT !.state = b.state, !.msgLen = m, !.active = b.active,
                      !.range = g, !.buf = f]
  <2> HIDE DEF m, n, f, r
  <2> QED BY <1>0, <1>5 DEF AtomicBuffers, g
<1> HIDE DEF m, n, f, g, live
<1>7. /\ Settled(b) \in AtomicBuffers(Byte) /\ Settled(b).state = b.state
      /\ Settled(b).msgLen = m /\ Settled(b).active = b.active /\ Settled(b).range = g
      /\ Settled(b).buf = f
  <2> HIDE DEF r
  <2> QED BY <1>0, <1>1, <1>2, <1>4, <1>6 DEF AtomicBuffers
<1>8. ActiveRange(Settled(b)) = r
  <2> HIDE DEF r
  <2> QED BY <1>4, <1>7 DEF ActiveRange
<1>9. Contents(f, r) = Contents(b.buf, r)
  BY <1>3 DEF Contents
<1> QED BY <1>1, <1>7, <1>8, <1>9

LEMMA SettledSound ==
  /\ \A T : SendSound(T) /\ T.state # "SWAP" =>
       /\ SendAlike(T, Settled(T)) /\ (Called(Settled(T)) => Called(T))
       /\ ActiveRange(Settled(T)) = ActiveRange(T)
  /\ \A R : RecvSound(R) /\ ~Called(R) =>
       /\ RecvAlike(R, Settled(R)) /\ ~Called(Settled(R))
       /\ ActiveRange(Settled(R)) = ActiveRange(R)
<1>1. ASSUME NEW T, SendSound(T), T.state # "SWAP"
      PROVE  /\ SendAlike(T, Settled(T)) /\ (Called(Settled(T)) => Called(T))
             /\ ActiveRange(Settled(T)) = ActiveRange(T)
  <2>1. CASE Called(T)
    <3>1. Settled(T) = T
      BY <2>1 DEF Settled, Called
    <3> QED BY <1>1, <2>1, <3>1, AlikeSelf
  <2>2. CASE ~Called(T)
    <3> DEFINE U == Settled(T)
    <3>1. /\ U \in AtomicBuffers(Byte) /\ U.state = T.state
          /\ T.state = "DO_SYSCALL" => U.msgLen = Sentinel
          /\ ActiveRange(U) = ActiveRange(T)
          /\ Contents(U.buf, ActiveRange(T)) = Contents(T.buf, ActiveRange(T))
      BY <1>1, <2>2, SettledFields DEF SendSound, Called
    <3> HIDE DEF U
    <3>2. ~Called(U) /\ U.state # "SWAP"
      BY <1>1, <3>1 DEF Called, NotYetCalled
    <3>3. SendSound(U)
      BY <3>1, <3>2 DEF SendSound
    <3>4. Unsent(U) = Unsent(T)
      BY <1>1, <2>2, <3>1, <3>2, <3>3, SendIdle
    <3> QED BY <3>1, <3>2, <3>3, <3>4 DEF SendAlike, U
  <2> QED BY <2>1, <2>2
<1>2. ASSUME NEW R, RecvSound(R), ~Called(R)
      PROVE  /\ RecvAlike(R, Settled(R)) /\ ~Called(Settled(R))
             /\ ActiveRange(Settled(R)) = ActiveRange(R)
  <2> DEFINE Q == Settled(R)
  <2>1. /\ Q \in AtomicBuffers(Byte) /\ Q.state = R.state /\ R.state # "SWAP"
        /\ R.state = "DO_SYSCALL" => Q.msgLen = Sentinel
        /\ ActiveRange(Q) = ActiveRange(R)
        /\ Contents(Q.buf, ActiveRange(R)) = Contents(R.buf, ActiveRange(R))
    BY <1>2, SettledFields DEF RecvSound, Called
  <2> HIDE DEF Q
  <2>2. ~Called(Q) /\ Q.state # "SWAP" /\ Sentinel # 0
    BY <2>1, SMT DEF Called, NotYetCalled, Sentinel
  <2>3. RecvSound(Q)
    BY <2>1, <2>2 DEF RecvSound
  <2>4. Unread(Q) = Unread(R) /\ RecvOrigin(Q) = RecvOrigin(R)
    BY <1>2, <2>1, <2>2, <2>3, RecvIdle
  <2> QED BY <2>1, <2>2, <2>3, <2>4 DEF RecvAlike, Q
<1> QED BY <1>1, <1>2

LEMMA BytesConcat ==
  /\ \A q, u \in Seq(Byte) : q \o u \in Seq(Byte)
  /\ \A q, u, v \in Seq(Byte) : (q \o u) \o v = q \o (u \o v)
BY ConcatProperties, ConcatAssociative

-------------------------------------------------------------------------------
(* What is done for a direction, with one of its buffers. *)
LEMMA FlowTypes ==
  ASSUME NEW s, NEW R, NEW T, NEW c, Flow(s, R, T, c)
  PROVE  /\ c.out \in Seq(Byte) /\ Unsent(T) \in Seq(Byte) /\ Unread(R) \in Seq(Byte)
         /\ Queued(R, T) \in Seq(Byte)
         /\ ActiveRange(R) \in Ranges /\ ActiveRange(T) \in Ranges
<1>1. c.out \in Seq(Byte) /\ Unsent(T) \in Seq(Byte) /\ Unread(R) \in Seq(Byte)
      /\ ActiveRange(R) \in Ranges /\ ActiveRange(T) \in Ranges
  BY SendFields, RecvFields DEF Flow
<1> QED BY <1>1, ConcatProperties DEF Queued

LEMMA FlowSent ==
  ASSUME NEW s, NEW R, NEW T, NEW c, NEW d, Flow(s, R, T, c),
         T.state = "DO_SYSCALL", NotYetCalled(T), ~c.outFin,
         NEW n \in 1 .. BufSize, n <= ActiveRange(T).len,
         d.out = c.out \o Gather(T.buf, IovecUsed(ActiveRange(T)), n),
         d.got = c.got, d.taken = c.taken, d.fin = c.fin, d.outFin = c.outFin,
         d.early = c.early
  PROVE  Flow(s, R, SendDone(T, n), d)
<1> DEFINE U == SendDone(T, n)
           sent == Gather(T.buf, IovecUsed(ActiveRange(T)), n)
<1>1. SendSound(T) /\ RecvSound(R)
  BY DEF Flow
<1>2. /\ SendSound(U) /\ U.state = "DO_SYSCALL"
      /\ ActiveRange(U) = ActiveRange(T)
      /\ sent \in Seq(Byte) /\ sent \o Unsent(U) = Unsent(T)
  BY <1>1, SendDoneSound
<1> HIDE DEF U, sent
<1>3. c.out \in Seq(Byte) /\ Unread(R) \in Seq(Byte) /\ Unsent(U) \in Seq(Byte)
  BY <1>1, <1>2, SendFields, RecvFields DEF Flow
<1>4. d.out = c.out \o sent
  BY DEF sent
<1>5. d.out \in Seq(Byte)
  BY <1>2, <1>3, <1>4, ConcatProperties
<1>6. d.out \o Queued(R, U) = c.out \o Queued(R, T)
  <2>1. Unsent(U) \o Unread(R) \in Seq(Byte)
    BY <1>3, ConcatProperties
  <2>2. (c.out \o sent) \o (Unsent(U) \o Unread(R))
          = c.out \o (sent \o (Unsent(U) \o Unread(R)))
    BY <1>2, <1>3, <2>1, BytesConcat, Zenon
  <2>3. sent \o (Unsent(U) \o Unread(R)) = (sent \o Unsent(U)) \o Unread(R)
    BY <1>2, <1>3, BytesConcat
  <2> QED BY <1>2, <1>4, <2>2, <2>3 DEF Queued
<1>7. IsStream(s, d, d.out \o Queued(R, U))
  BY <1>6 DEF Flow, IsStream
<1>8. d.got
  BY DEF Flow, HeaderFirst
<1>9. EndLast(R, U, d)
  BY <1>2 DEF Flow, EndLast
<1> QED BY <1>1, <1>2, <1>5, <1>7, <1>8, <1>9 DEF Flow, U

LEMMA FlowReceived ==
  ASSUME NEW s \in Ends, NEW R, NEW T, NEW c, NEW d, Flow(s, R, T, c),
         R.state = "DO_SYSCALL", NotYetCalled(R), ~ActiveRange(R).shutdown,
         c.taken \in Nat, NEW n \in Nat, c.taken + n <= Total[s], c.fin => n = 0,
         n <= Capacity(RecvTarget(RecvPrepared(R))),
         d.taken = c.taken + n, d.fin = (n = 0),
         d.got = c.got, d.out = c.out, d.outFin = c.outFin, d.early = c.early
  PROVE  Flow(s, RecvDone(RecvPrepared(R), Numbered(c.taken, n)), T, d)
<1> DEFINE data == Numbered(c.taken, n)
           Q == RecvDone(RecvPrepared(R), data)
<1>1. SendSound(T) /\ RecvSound(R)
  BY DEF Flow
<1>2. data \in Seq(Byte) /\ Len(data) = n
  BY NumberedType
<1> HIDE DEF data
<1>3. /\ RecvSound(Q) /\ Q.state = "DO_SYSCALL" /\ Q.msgLen = n
      /\ ~ActiveRange(Q).shutdown
      /\ Unread(Q) = Unread(R) \o data
      /\ RecvOrigin(R).start = 0 => RecvOrigin(Q).start = 0
  BY <1>1, <1>2, RecvDoneSound
<1> HIDE DEF Q
<1>4. c.out \in Seq(Byte) /\ Unread(R) \in Seq(Byte) /\ Unsent(T) \in Seq(Byte)
  BY <1>1, SendFields, RecvFields DEF Flow
<1>5. d.out \o Queued(Q, T) = (c.out \o Queued(R, T)) \o data
  <2>1. Unsent(T) \o Unread(R) \in Seq(Byte)
    BY <1>4, ConcatProperties
  <2>2. Unsent(T) \o (Unread(R) \o data) = (Unsent(T) \o Unread(R)) \o data
    BY <1>2, <1>4, BytesConcat
  <2>3. c.out \o ((Unsent(T) \o Unread(R)) \o data) = (c.out \o (Unsent(T) \o Unread(R))) \o data
    BY <1>2, <1>4, <2>1, BytesConcat
  <2> QED BY <1>3, <2>2, <2>3 DEF Queued
<1>6. IsStream(s, d, d.out \o Queued(Q, T))
  <2> DEFINE q == c.out \o Queued(R, T)
             h == HeaderLen[s]
  <2>1. CASE q = Numbered(0, c.taken)
    <3>1. Numbered(0, c.taken) \o Numbered(0 + c.taken, n) = Numbered(0, c.taken + n)
      <4>1. 0 \in Nat /\ 0 + (c.taken + n) <= Total[s]
        BY TotalsAssumption, SMT
      <4> QED BY <4>1, NumberedMore
    <3>2. 0 + c.taken = c.taken
      BY SMT
    <3> QED BY <1>5, <2>1, <3>1, <3>2 DEF IsStream, data
  <2>2. CASE /\ c.got /\ h <= c.taken
             /\ q = <<Header>> \o Numbered(h, c.taken - h)
    <3>0. h \in Nat /\ Total[s] \in Nat
      BY TotalsAssumption
    <3> HIDE DEF h
    <3>1. /\ c.taken - h \in Nat /\ h + ((c.taken - h) + n) <= Total[s]
          /\ h + (c.taken - h) = c.taken /\ (c.taken - h) + n = (c.taken + n) - h
          /\ h <= c.taken + n /\ h + (c.taken - h) <= Total[s]
      <4> DEFINE k == c.taken
      <4>1. k \in Nat /\ h <= k /\ k + n <= Total[s]
        BY <2>2
      <4> HIDE DEF k
      <4>2. /\ k - h \in Nat /\ h + ((k - h) + n) <= Total[s] /\ h + (k - h) = k
            /\ (k - h) + n = (k + n) - h /\ h <= k + n /\ h + (k - h) <= Total[s]
        BY <3>0, <4>1, SMT
      <4> QED BY <4>2 DEF k
    <3>2. Numbered(h, c.taken - h) \o data = Numbered(h, d.taken - h)
      <4>1. Numbered(h, c.taken - h) \o Numbered(h + (c.taken - h), n)
              = Numbered(h, (c.taken - h) + n)
        <5> DEFINE k == c.taken - h
        <5>1. k \in Nat /\ h + (k + n) <= Total[s]
          BY <3>1
        <5> HIDE DEF k
        <5>2. Numbered(h, k) \o Numbered(h + k, n) = Numbered(h, k + n)
          BY <3>0, <5>1, NumberedMore, ZenonT(30)
        <5> QED BY <5>2 DEF k
      <4> QED BY <3>1, <4>1 DEF data
    <3>3. Numbered(h, c.taken - h) \in Seq(Byte)
      BY <3>0, <3>1, NumberedType
    <3>4. q \o data = <<Header>> \o Numbered(h, d.taken - h)
      <4>1. q = <<Header>> \o Numbered(h, c.taken - h)
        BY <2>2
      <4> HIDE DEF q
      <4>2. <<Header>> \in Seq(Byte)
        BY HeaderByte
      <4>3. (<<Header>> \o Numbered(h, c.taken - h)) \o data
              = <<Header>> \o (Numbered(h, c.taken - h) \o data)
        BY <1>2, <3>3, <4>2, BytesConcat, Zenon
      <4> QED BY <3>2, <4>1, <4>3
    <3> QED BY <1>5, <2>2, <3>1, <3>4 DEF IsStream, h
  <2> QED BY <2>1, <2>2 DEF Flow, IsStream
<1>7. d.got \/ HeaderFirst(Q, T, d)
  BY <1>3 DEF Flow, HeaderFirst
<1>8. EndLast(Q, T, d)
  BY <1>3 DEF Flow, EndLast
<1> QED BY <1>1, <1>3, <1>6, <1>7, <1>8 DEF Flow, Q, data

LEMMA FlowMarked ==
  ASSUME NEW s, NEW R, NEW T, NEW c, NEW d, Flow(s, R, T, c), Quiet(R), d.fin,
         d.taken = c.taken, d.out = c.out, d.got = c.got, d.outFin = c.outFin,
         d.early = c.early
  PROVE  Flow(s, WithActive(R, [ActiveRange(R) EXCEPT !.shutdown = TRUE]), T, d)
<1> DEFINE Q == WithActive(R, [ActiveRange(R) EXCEPT !.shutdown = TRUE])
<1>1. /\ RecvSound(Q) /\ Unread(Q) = Unread(R)
      /\ ActiveRange(Q).shutdown
      /\ RecvOrigin(R).start = 0 => RecvOrigin(Q).start = 0
  BY EofSound DEF Flow
<1> HIDE DEF Q
<1>2. Queued(Q, T) = Queued(R, T)
  BY <1>1 DEF Queued
<1>3. d.got \/ HeaderFirst(Q, T, d)
  BY <1>1 DEF Flow, HeaderFirst
<1>4. EndLast(Q, T, d)
  BY <1>1 DEF Flow, EndLast
<1>5. IsStream(s, d, d.out \o Queued(Q, T))
  BY <1>2 DEF Flow, IsStream
<1> QED BY <1>1, <1>3, <1>4, <1>5 DEF Flow, Q

(* When an end of stream was passed on and neither range holds a byte, no  *)
(* result of a system call is pending either: everything was sent.         *)
LEMMA FlowEmpty ==
  ASSUME NEW s, NEW R, NEW T, NEW c, Flow(s, R, T, c),
         ActiveRange(T).shutdown
  PROVE  /\ ActiveRange(R).shutdown /\ c.fin
         /\ ActiveRange(T).len = 0 => Unsent(T) = <<>>
         /\ ActiveRange(R).len = 0 => Unread(R) = <<>>
<1>1. ActiveRange(R).shutdown /\ c.fin
  BY DEF Flow, EndLast
<1>2. SendSound(T) /\ RecvSound(R)
  BY DEF Flow
<1>3. ~Called(R)
  <2> SUFFICES ASSUME Called(R) PROVE FALSE
    OBVIOUS
  <2>1. ~RecvOrigin(R).shutdown /\ RecvOrigin(R) \in Ranges
    BY <1>2, RecvFields DEF RecvSound
  <2>2. R.state = "SWAP" /\ R.active = R.bit
    <3>1. R.active \in 0 .. 1 /\ R.bit \in 0 .. 1
      BY <1>2, RecvFields, BufferFields
    <3>2. R.active # R.bit => 1 - R.bit = R.active
      BY <3>1, SMT
    <3> QED BY <1>1, <2>1, <3>2 DEF RecvOrigin, ActiveRange
  <2>3. ActiveRange(R) = Extend(RecvOrigin(R), R.msgLen)
    BY <1>2, <2>2 DEF RecvSound
  <2>4. ActiveRange(R).shutdown = RecvOrigin(R).shutdown
    BY <2>1, <2>3 DEF Extend, Ranges
  <2> QED BY <1>1, <2>1, <2>4
<1>4. \A b : \A r \in Ranges : r.len = 0 => Contents(b, r) = <<>>
  BY DEF Contents
<1>5. ASSUME ActiveRange(R).len = 0 PROVE Unread(R) = <<>>
  BY <1>2, <1>3, <1>4, <1>5, RecvIdle, RecvFields
<1>6. ASSUME ActiveRange(T).len = 0 PROVE Unsent(T) = <<>>
  <2>1. CASE ~Called(T)
    BY <1>2, <1>4, <1>6, <2>1, SendIdle, SendFields
  <2>2. CASE Called(T)
    <3> DEFINE o == SendOrigin(T)
               a == ActiveRange(T)
    <3>1. /\ Pending(T) = T.msgLen /\ T.msgLen \in 1 .. o.len /\ o \in Ranges
          /\ Unsent(T) \in Seq(Byte) /\ Len(Unsent(T)) = o.len - Pending(T)
      BY <1>2, <2>2, SendFields DEF SendSound, Pending
    <3>2. o.len \in Nat
      BY <3>1, BufSizeAssumption DEF Ranges
    <3>3. o # a
      <4> HIDE DEF o, a
      <4> QED BY <1>6, <3>1, <3>2, SMT DEF a
    <3>4. a = Ltrim(o, T.msgLen)
      <4>1. T.state = "SWAP" /\ T.active # T.bit
        BY <3>3 DEF SendOrigin, ActiveRange
      <4> QED BY <1>2, <4>1 DEF SendSound
    <3>5. T.msgLen = o.len
      <4> HIDE DEF o
      <4>1. T.msgLen \in Nat
        BY <3>1, SMT
      <4>2. Ltrim(o, T.msgLen).len = IF T.msgLen >= o.len THEN 0 ELSE o.len - T.msgLen
        BY <3>1, <4>1, LtrimType
      <4>3. Ltrim(o, T.msgLen).len = 0
        BY <1>6, <3>4
      <4> QED BY <3>1, <3>2, <4>1, <4>2, <4>3, SMT
    <3>6. Len(Unsent(T)) = 0
      BY <3>1, <3>2, <3>5, SMT
    <3> QED BY <3>1, <3>6, EmptySeq
  <2> QED BY <2>1, <2>2
<1> QED BY <1>1, <1>5, <1>6

(* SHUT_WR, by the worker that passed the end of the stream on or by one   *)
(* that recovers.                                                          *)
LEMMA FlowShutWr ==
  ASSUME NEW s, NEW R, NEW T, NEW c, NEW d, Flow(s, R, T, c),
         d.outFin => \/ c.outFin
                     \/ /\ ActiveRange(T).shutdown
                        /\ d.early \/ (ActiveRange(T).len = 0 /\ ActiveRange(R).len = 0),
         c.early => d.early,
         d.got = c.got, d.out = c.out, d.taken = c.taken, d.fin = c.fin
  PROVE  Flow(s, R, T, d)
<1>1. EndLast(R, T, d)
  <2>1. d.outFin => /\ d.fin
                    /\ d.early \/ (Unsent(T) = <<>> /\ Unread(R) = <<>> /\ ActiveRange(R).shutdown)
    BY FlowEmpty DEF Flow, EndLast
  <2> QED BY <2>1 DEF Flow, EndLast
<1> QED BY <1>1 DEF Flow, IsStream, HeaderFirst

-------------------------------------------------------------------------------
(* What transform does to the inactive ranges of a direction, one function *)
(* after the other.  None of them touches a transaction or the bytes of    *)
(* the active ranges.                                                      *)
SameTransaction(b, w) ==
  /\ w.state = b.state /\ w.bit = b.bit /\ w.msgLen = b.msgLen /\ w.active = b.active
  /\ ActiveRange(w) = ActiveRange(b)
  /\ Contents(w.buf, ActiveRange(b)) = Contents(b.buf, ActiveRange(b))

LEMMA MoveCounts ==
  ASSUME NEW r \in Ranges, NEW t \in Ranges
  PROVE  LET k == MoveCount(t, r) IN
         /\ k \in Nat /\ k <= r.len /\ t.len + k <= BufSize
         /\ k < r.len => t.len + k = BufSize
<1>1. /\ r.len \in Nat /\ t.len \in Nat /\ t.len <= BufSize /\ BufSize \in Nat
  BY BufSizeAssumption, SMT DEF Ranges
<1>2. Capacity(IovecUnused(t)) = BufSize - t.len
  BY UnusedCapacity
<1> QED BY <1>1, <1>2, SMT DEF MoveCount, AppendCount

LEMMA MovedSound ==
  ASSUME NEW R \in AtomicBuffers(Byte), NEW T \in AtomicBuffers(Byte),
         ActiveRange(T) = InactiveRange(T) \/ ActiveRange(T).len = 0
  PROVE  LET m == Moved([rx |-> R, tx |-> T])
             r == InactiveRange(R)
             t == InactiveRange(T)
             k == MoveCount(t, r)
         IN /\ m.rx \in AtomicBuffers(Byte) /\ m.tx \in AtomicBuffers(Byte)
            /\ SameTransaction(R, m.rx) /\ SameTransaction(T, m.tx)
            /\ InactiveRange(m.rx).len = r.len - k
            /\ InactiveRange(m.rx).shutdown = r.shutdown
            /\ InactiveRange(m.tx).len = t.len + k
            /\ InactiveRange(m.tx).shutdown = t.shutdown
            /\ Contents(m.rx.buf, InactiveRange(m.rx)) = Drop(Contents(R.buf, r), k)
            /\ Contents(m.tx.buf, InactiveRange(m.tx))
                 = Contents(T.buf, t) \o SubSeq(Contents(R.buf, r), 1, k)
<1> DEFINE m == Moved([rx |-> R, tx |-> T])
           r == InactiveRange(R)
           t == InactiveRange(T)
           k == MoveCount(t, r)
           p == SubSeq(Contents(R.buf, r), 1, k)
           f == MoveBytes(T.buf, t, R.buf, r)
           w == WithInactive(T, MoveDst(t, r))
<1>0. /\ r \in Ranges /\ t \in Ranges /\ R.buf \in [Index -> Byte] /\ T.buf \in [Index -> Byte]
      /\ ActiveRange(T) \in Ranges
  BY BufferFields
<1>1. k \in Nat /\ k <= r.len /\ t.len + k <= BufSize /\ r.len \in Nat /\ t.len \in Nat
  BY <1>0, MoveCounts, BufSizeAssumption DEF Ranges
<1>2. /\ Contents(R.buf, r) \in Seq(Byte) /\ Len(Contents(R.buf, r)) = r.len
  BY <1>0, ContentsType
<1>3. k \in 0 .. r.len /\ k <= BufSize - t.len
  <2> HIDE DEF k, r, t
  <2> QED BY <1>1, BufSizeAssumption, SMT
<1>4. Gather(R.buf, IovecUsed(r), k) = p
  BY <1>0, <1>3, GatherContents
<1>5. p \in Seq(Byte) /\ Len(p) = k
  BY <1>2, <1>3, SplitSeq
<1>6. f = Scatter(T.buf, IovecUnused(t), p)
  BY <1>4 DEF MoveBytes
<1> HIDE DEF p
<1>7. /\ f \in [Index -> Byte]
      /\ Extend(Rewound(t), k) \in Ranges
      /\ Contents(f, Extend(Rewound(t), k)) = Contents(T.buf, t) \o p
      /\ Contents(f, t) = Contents(T.buf, t)
  BY <1>0, <1>3, <1>5, <1>6, ScatterContents
<1>8. MoveDst(t, r) = Extend(Rewound(t), k)
  BY DEF MoveDst
<1>9. MoveDst(t, r).len = t.len + k /\ MoveDst(t, r).shutdown = t.shutdown
  <2>1. Rewound(t) \in Ranges /\ Rewound(t).len = t.len /\ Rewound(t).shutdown = t.shutdown
    BY <1>0, RewoundType
  <2> HIDE DEF t, k
  <2> QED BY <1>8, <2>1 DEF Extend, Ranges
<1>10. /\ MoveSrc(t, r) \in Ranges /\ MoveSrc(t, r).len = r.len - k
       /\ MoveSrc(t, r).shutdown = r.shutdown
       /\ Contents(R.buf, MoveSrc(t, r)) = Drop(Contents(R.buf, r), k)
  <2>1. MoveSrc(t, r) = Ltrim(r, k)
    BY DEF MoveSrc
  <2>2. Ltrim(r, k) \in Ranges /\ Ltrim(r, k).len = IF k >= r.len THEN 0 ELSE r.len - k
    BY <1>0, <1>1, LtrimType
  <2>3. (IF k >= r.len THEN 0 ELSE r.len - k) = r.len - k
    <3> HIDE DEF k, r
    <3> QED BY <1>1, SMT
  <2>4. Ltrim(r, k).shutdown = r.shutdown
    <3> HIDE DEF k, r
    <3> QED BY <1>0 DEF Ltrim, Ranges
  <2>5. Contents(R.buf, Ltrim(r, k)) = SubSeq(Contents(R.buf, r), k + 1, r.len)
    BY <1>0, <1>3, LtrimContents
  <2> QED BY <1>2, <2>1, <2>2, <2>3, <2>4, <2>5 DEF Drop
<1>11. Contents(f, ActiveRange(T)) = Contents(T.buf, ActiveRange(T))
  <2>1. CASE ActiveRange(T) = t
    BY <1>7, <2>1
  <2>2. CASE ActiveRange(T).len = 0
    BY <2>2 DEF Contents
  <2> QED BY <2>1, <2>2
<1>12. m.rx = WithInactive(R, MoveSrc(t, r)) /\ m.tx = [w EXCEPT !.buf = f]
  BY DEF Moved
<1> HIDE DEF f, k, m
<1>13. /\ m.rx \in AtomicBuffers(Byte) /\ SameTransaction(R, m.rx)
       /\ InactiveRange(m.rx) = MoveSrc(t, r) /\ m.rx.buf = R.buf
  BY <1>10, <1>12, InactiveStore DEF SameTransaction
<1>14. /\ w \in AtomicBuffers(Byte) /\ w.state = T.state /\ w.bit = T.bit
       /\ w.msgLen = T.msgLen /\ w.active = T.active /\ ActiveRange(w) = ActiveRange(T)
       /\ InactiveRange(w) = MoveDst(t, r)
  BY <1>7, <1>8, InactiveStore
<1> HIDE DEF w
<1>15. /\ m.tx \in AtomicBuffers(Byte) /\ m.tx.state = T.state /\ m.tx.bit = T.bit
       /\ m.tx.msgLen = T.msgLen /\ m.tx.active = T.active /\ ActiveRange(m.tx) = ActiveRange(T)
       /\ InactiveRange(m.tx) = MoveDst(t, r) /\ m.tx.buf = f
  BY <1>7, <1>12, <1>14, BytesStore
<1>16. SameTransaction(T, m.tx)
  BY <1>11, <1>15 DEF SameTransaction
<1> QED BY <1>7, <1>8, <1>9, <1>10, <1>13, <1>15, <1>16 DEF m, k, p

LEMMA RewrittenSound ==
  ASSUME NEW s \in Ends, NEW R \in AtomicBuffers(Byte), NEW T \in AtomicBuffers(Byte),
         HeaderLen[s] <= InactiveRange(R).len, ActiveRange(T).len = 0
  PROVE  LET m == Rewritten(s, [rx |-> R, tx |-> T])
             r == InactiveRange(R)
             h == HeaderLen[s]
         IN /\ m.rx \in AtomicBuffers(Byte) /\ m.tx \in AtomicBuffers(Byte)
            /\ SameTransaction(R, m.rx) /\ SameTransaction(T, m.tx)
            /\ InactiveRange(m.rx).len = r.len - h
            /\ InactiveRange(m.rx).shutdown = r.shutdown
            /\ InactiveRange(m.tx).len = 1
            /\ InactiveRange(m.tx).shutdown = FALSE
            /\ Contents(m.rx.buf, InactiveRange(m.rx)) = Drop(Contents(R.buf, r), h)
            /\ Contents(m.tx.buf, InactiveRange(m.tx)) = <<Header>>
<1> DEFINE m == Rewritten(s, [rx |-> R, tx |-> T])
           r == InactiveRange(R)
           h == HeaderLen[s]
           q == [r EXCEPT !.start = (r.start + h) % BufSize, !.len = r.len - h]
           e == Extend(EmptyRange, 1)
           w == WithInactive(T, e)
           f == [T.buf EXCEPT ![0] = Header]
<1>0. /\ r \in Ranges /\ R.buf \in [Index -> Byte] /\ T.buf \in [Index -> Byte]
      /\ ActiveRange(T) \in Ranges /\ h \in Nat \ {0} /\ Header \in Byte
  BY BufferFields, TotalsAssumption, HeaderByte
<1>1. r.start \in Index /\ r.len \in Nat /\ r.len <= BufSize
  BY <1>0, BufSizeAssumption, SMT DEF Ranges
<1>2. h <= r.len
  OBVIOUS
<1>3. (r.start + h) % BufSize \in Index /\ r.len - h \in 0 .. BufSize
  <2> HIDE DEF h, r
  <2>1. r.start + h \in 0 .. 2 * BufSize - 1
    BY <1>0, <1>1, <1>2, BufSizeAssumption, SMT DEF Index
  <2>2. (r.start + h) % BufSize = Wrap(r.start + h)
    BY <2>1, ModIsWrap
  <2>3. Wrap(r.start + h) \in Index
    BY <2>1, BufSizeAssumption, SMT DEF Wrap, Index
  <2>4. r.len - h \in 0 .. BufSize
    BY <1>0, <1>1, <1>2, BufSizeAssumption, SMT
  <2> QED BY <2>2, <2>3, <2>4
<1>4. q \in Ranges /\ q.len = r.len - h /\ q.shutdown = r.shutdown
  <2> HIDE DEF h, r
  <2> QED BY <1>0, <1>3 DEF Ranges
<1>5. Contents(R.buf, q) = Drop(Contents(R.buf, r), h)
  <2>0. Contents(R.buf, r) \in Seq(Byte) /\ Len(Contents(R.buf, r)) = r.len
    <3> HIDE DEF r, h, q
    <3> QED BY <1>0, ContentsType, ZenonT(30)
  <2>1. CASE h < r.len
    <3>1. ~(h >= r.len) /\ h \in 0 .. r.len
      <4> HIDE DEF h, r
      <4> QED BY <1>0, <1>1, <2>1, SMT
    <3>2. q = Ltrim(r, h)
      BY <3>1 DEF Ltrim
    <3>3. Contents(R.buf, Ltrim(r, h)) = SubSeq(Contents(R.buf, r), h + 1, r.len)
      BY <1>0, <3>1, LtrimContents
    <3> HIDE DEF q
    <3> QED BY <2>0, <3>2, <3>3 DEF Drop
  <2>2. CASE ~(h < r.len)
    <3>1. q.len = 0 /\ r.len < h + 1 /\ h + 1 \in Int /\ r.len \in Int
      <4> HIDE DEF h, r, q
      <4> QED BY <1>0, <1>1, <1>2, <1>4, <2>2, SMT
    <3>2. Contents(R.buf, q) = <<>>
      <4> HIDE DEF q
      <4> QED BY <3>1 DEF Contents
    <3>3. SubSeq(Contents(R.buf, r), h + 1, r.len) = <<>>
      BY <3>1, SubSeqEmpty
    <3> QED BY <2>0, <3>2, <3>3 DEF Drop
  <2> QED BY <2>1, <2>2
<1>6. e \in Ranges /\ e.start = 0 /\ e.len = 1 /\ e.shutdown = FALSE
  <2>1. EmptyRange \in Ranges /\ EmptyRange.len = 0 /\ EmptyRange.start = 0
        /\ EmptyRange.shutdown = FALSE
    BY BufSizeAssumption, SMT DEF EmptyRange, Ranges, Index
  <2>2. EmptyRange.len + 1 <= BufSize /\ 1 \in Nat /\ EmptyRange.len + 1 = 1
    BY <2>1, BufSizeAssumption, SMT
  <2>3. e.shutdown = FALSE
    BY <2>1 DEF Extend, Ranges
  <2> HIDE DEF e
  <2> QED BY <2>1, <2>2, <2>3, ExtendType DEF e
<1>7. f \in [Index -> Byte] /\ f[0] = Header
  <2>1. 0 \in Index
    BY BufSizeAssumption, SMT DEF Index
  <2> QED BY <1>0, <2>1
<1>8. m.rx = WithInactive(R, q)
  BY DEF Rewritten
<1> HIDE DEF q, e
<1>9. /\ w \in AtomicBuffers(Byte) /\ w.state = T.state /\ w.bit = T.bit
      /\ w.msgLen = T.msgLen /\ w.active = T.active /\ ActiveRange(w) = ActiveRange(T)
      /\ InactiveRange(w) = e /\ w.buf = T.buf
  BY <1>6, InactiveStore
<1>10. m.tx = [w EXCEPT !.buf[0] = Header]
  BY DEF Rewritten, e
<1> HIDE DEF w, f, m
<1>11. m.tx = [w EXCEPT !.buf = f]
  BY <1>9, <1>10 DEF AtomicBuffers, f
<1>12. /\ m.rx \in AtomicBuffers(Byte) /\ SameTransaction(R, m.rx)
       /\ InactiveRange(m.rx) = q /\ m.rx.buf = R.buf
  BY <1>4, <1>8, InactiveStore DEF SameTransaction
<1>13. /\ m.tx \in AtomicBuffers(Byte) /\ m.tx.state = T.state /\ m.tx.bit = T.bit
       /\ m.tx.msgLen = T.msgLen /\ m.tx.active = T.active /\ ActiveRange(m.tx) = ActiveRange(T)
       /\ InactiveRange(m.tx) = e /\ m.tx.buf = f
  BY <1>7, <1>9, <1>11, BytesStore
<1>14. SameTransaction(T, m.tx)
  BY <1>13 DEF SameTransaction, Contents
<1>15. Contents(f, e) = <<Header>>
  <2>1. Wrap(0 + 1 - 1) = 0
    BY BufSizeAssumption, SMT DEF Wrap
  <2>2. Contents(f, e) = [i \in 1 .. 1 |-> f[Wrap(0 + i - 1)]]
    BY <1>6 DEF Contents
  <2>3. \A i \in 1 .. 1 : i = 1
    BY SMT
  <2>4. Contents(f, e) = [i \in 1 .. 1 |-> Header]
    BY <1>7, <2>1, <2>2, <2>3
  <2> QED BY <2>4
<1> QED BY <1>4, <1>5, <1>6, <1>12, <1>13, <1>14, <1>15 DEF m

(* Both ranges are marked: the end of the stream has come this far. *)
LEMMA ShutDownSound ==
  ASSUME NEW R \in AtomicBuffers(Byte), NEW T \in AtomicBuffers(Byte), NEW flag \in BOOLEAN
  PROVE  LET m == ShutDown([rx |-> R, tx |-> T], flag)
             r == InactiveRange(R)
             t == InactiveRange(T)
         IN /\ m.rx \in AtomicBuffers(Byte) /\ m.tx \in AtomicBuffers(Byte)
            /\ SameTransaction(R, m.rx) /\ SameTransaction(T, m.tx)
            /\ InactiveRange(m.rx).len = r.len
            /\ InactiveRange(m.rx).shutdown = (r.shutdown \/ flag)
            /\ InactiveRange(m.tx).len = t.len
            /\ InactiveRange(m.tx).shutdown = (t.shutdown \/ flag)
            /\ Contents(m.rx.buf, InactiveRange(m.rx)) = Contents(R.buf, r)
            /\ Contents(m.tx.buf, InactiveRange(m.tx)) = Contents(T.buf, t)
<1> DEFINE m == ShutDown([rx |-> R, tx |-> T], flag)
           Marked(b) == WithInactive(b, [InactiveRange(b) EXCEPT !.shutdown = TRUE])
           Good(b, w) ==
             /\ w \in AtomicBuffers(Byte) /\ SameTransaction(b, w)
             /\ InactiveRange(w).len = InactiveRange(b).len
             /\ InactiveRange(w).shutdown = (InactiveRange(b).shutdown \/ flag)
             /\ Contents(w.buf, InactiveRange(w)) = Contents(b.buf, InactiveRange(b))
<1>1. ASSUME NEW b \in AtomicBuffers(Byte), flag PROVE Good(b, Marked(b))
  <2> DEFINE q == [InactiveRange(b) EXCEPT !.shutdown = TRUE]
             w == Marked(b)
  <2>1. InactiveRange(b) \in Ranges
    BY BufferFields
  <2>2. /\ q \in Ranges /\ q.shutdown = TRUE /\ q.len = InactiveRange(b).len
        /\ q.start = InactiveRange(b).start
    BY <2>1 DEF Ranges
  <2>3. w = WithInactive(b, q)
    OBVIOUS
  <2> HIDE DEF q, w
  <2>4. /\ w \in AtomicBuffers(Byte) /\ SameTransaction(b, w) /\ InactiveRange(w) = q
        /\ w.buf = b.buf
    BY <2>2, <2>3, InactiveStore DEF SameTransaction
  <2>5. Contents(w.buf, InactiveRange(w)) = Contents(b.buf, InactiveRange(b))
    BY <2>2, <2>4 DEF Contents
  <2> QED BY <1>1, <2>2, <2>4, <2>5 DEF w
<1>2. ASSUME NEW b \in AtomicBuffers(Byte), ~flag PROVE Good(b, b)
  <2>1. InactiveRange(b).shutdown \in BOOLEAN
    BY BufferFields DEF Ranges
  <2> QED BY <1>2, <2>1 DEF SameTransaction
<1>3. Good(R, m.rx) /\ Good(T, m.tx)
  <2>1. CASE flag
    <3>1. m.rx = Marked(R) /\ m.tx = Marked(T)
      BY <2>1 DEF ShutDown
    <3> HIDE DEF Good, m, Marked
    <3> QED BY <1>1, <2>1, <3>1
  <2>2. CASE ~flag
    <3>1. m.rx = R /\ m.tx = T
      BY <2>2 DEF ShutDown
    <3> HIDE DEF Good, m
    <3> QED BY <1>2, <2>2, <3>1
  <2> QED BY <2>1, <2>2
<1> HIDE DEF m
<1> QED BY <1>3 DEF m

(* What is moved from one queue to the other stays in their order, and the *)
(* receive range keeps bytes only if the send range is full.               *)
InOrder(R, T, flag, m) ==
  LET r == InactiveRange(R)
      t == InactiveRange(T)
  IN /\ m.rx \in AtomicBuffers(Byte) /\ m.tx \in AtomicBuffers(Byte)
     /\ SameTransaction(R, m.rx) /\ SameTransaction(T, m.tx)
     /\ InactiveRange(m.rx).len <= r.len /\ t.len <= InactiveRange(m.tx).len
     /\ InactiveRange(m.tx).len = 0 => InactiveRange(m.rx).len = 0
     /\ InactiveRange(m.rx).shutdown = (r.shutdown \/ flag)
     /\ InactiveRange(m.tx).shutdown = (t.shutdown \/ flag)
     /\ \A n \in 0 .. t.len :
          Drop(Contents(m.tx.buf, InactiveRange(m.tx)), n)
            \o Contents(m.rx.buf, InactiveRange(m.rx))
              = Drop(Contents(T.buf, t), n) \o Contents(R.buf, r)

LEMMA MovedQueues ==
  ASSUME NEW R \in AtomicBuffers(Byte), NEW T \in AtomicBuffers(Byte),
         ActiveRange(T) = InactiveRange(T) \/ ActiveRange(T).len = 0, NEW flag \in BOOLEAN
  PROVE  InOrder(R, T, flag, ShutDown(Moved([rx |-> R, tx |-> T]), flag))
<1> DEFINE v == Moved([rx |-> R, tx |-> T])
           m == ShutDown(v, flag)
           r == InactiveRange(R)
           t == InactiveRange(T)
           k == MoveCount(t, r)
           x == Contents(R.buf, r)
           y == Contents(T.buf, t)
           p == SubSeq(x, 1, k)
<1>0. /\ r \in Ranges /\ t \in Ranges /\ R.buf \in [Index -> Byte] /\ T.buf \in [Index -> Byte]
      /\ r.len \in Nat /\ t.len \in Nat /\ BufSize \in Nat \ {0}
      /\ r.shutdown \in BOOLEAN /\ t.shutdown \in BOOLEAN
  BY BufferFields, BufSizeAssumption DEF Ranges
<1>1. k \in Nat /\ k <= r.len /\ t.len + k <= BufSize /\ (k < r.len => t.len + k = BufSize)
  BY <1>0, MoveCounts
<1>2. /\ x \in Seq(Byte) /\ Len(x) = r.len /\ y \in Seq(Byte) /\ Len(y) = t.len
  BY <1>0, ContentsType
<1>3. /\ v.rx \in AtomicBuffers(Byte) /\ v.tx \in AtomicBuffers(Byte)
      /\ SameTransaction(R, v.rx) /\ SameTransaction(T, v.tx)
      /\ InactiveRange(v.rx).len = r.len - k
      /\ InactiveRange(v.rx).shutdown = r.shutdown
      /\ InactiveRange(v.tx).len = t.len + k
      /\ InactiveRange(v.tx).shutdown = t.shutdown
      /\ Contents(v.rx.buf, InactiveRange(v.rx)) = Drop(x, k)
      /\ Contents(v.tx.buf, InactiveRange(v.tx)) = y \o p
  BY MovedSound
<1>4. v = [rx |-> v.rx, tx |-> v.tx]
  BY DEF Moved
<1> HIDE DEF v, r, t, k, x, y, p
<1>5. /\ m.rx \in AtomicBuffers(Byte) /\ m.tx \in AtomicBuffers(Byte)
      /\ SameTransaction(v.rx, m.rx) /\ SameTransaction(v.tx, m.tx)
      /\ InactiveRange(m.rx).len = r.len - k
      /\ InactiveRange(m.rx).shutdown = (r.shutdown \/ flag)
      /\ InactiveRange(m.tx).len = t.len + k
      /\ InactiveRange(m.tx).shutdown = (t.shutdown \/ flag)
      /\ Contents(m.rx.buf, InactiveRange(m.rx)) = Drop(x, k)
      /\ Contents(m.tx.buf, InactiveRange(m.tx)) = y \o p
  <2>1. m = ShutDown([rx |-> v.rx, tx |-> v.tx], flag)
    BY <1>4
  <2> HIDE DEF m
  <2> QED BY <1>3, <2>1, ShutDownSound
<1> HIDE DEF m
<1>6. SameTransaction(R, m.rx) /\ SameTransaction(T, m.tx)
  BY <1>3, <1>5 DEF SameTransaction
<1>7. /\ r.len - k <= r.len /\ t.len <= t.len + k
      /\ t.len + k = 0 => r.len - k = 0
  BY <1>0, <1>1, SMT
<1>8. p \in Seq(Byte) /\ Drop(x, k) \in Seq(Byte) /\ p \o Drop(x, k) = x
  <2>1. k \in 0 .. Len(x)
    BY <1>0, <1>1, <1>2, SMT
  <2> QED BY <1>2, <2>1, SplitSeq DEF p
<1>9. ASSUME NEW n \in 0 .. t.len PROVE Drop(y \o p, n) \o Drop(x, k) = Drop(y, n) \o x
  <2>1. Drop(y \o p, n) = Drop(y, n) \o p /\ Drop(y, n) \in Seq(Byte)
    <3>1. SubSeq(y \o p, n + 1, Len(y) + Len(p)) = SubSeq(y, n + 1, Len(y)) \o p
      BY <1>2, <1>8, SuffixOfConcat
    <3>2. Len(y \o p) = Len(y) + Len(p)
      BY <1>2, <1>8, ConcatProperties
    <3> QED BY <1>2, <3>1, <3>2, Suffix DEF Drop
  <2>2. (Drop(y, n) \o p) \o Drop(x, k) = Drop(y, n) \o (p \o Drop(x, k))
    BY <1>8, <2>1, BytesConcat, Zenon
  <2> QED BY <1>8, <2>1, <2>2
<1>10. InOrder(R, T, flag, m)
  BY <1>5, <1>6, <1>7, <1>9 DEF InOrder, r, t, x, y
<1> QED BY <1>10 DEF m, v

(* The ranges that transform worked on become the active ones. *)
LEMMA FlippedQueues ==
  ASSUME NEW R, NEW T, RecvSound(R), ~Called(R), SendSound(T), T.state # "SWAP",
         NEW Q \in AtomicBuffers(Byte), NEW U \in AtomicBuffers(Byte),
         SameTransaction(R, Q), SameTransaction(T, U),
         ActiveRange(T).len <= InactiveRange(U).len
  PROVE  /\ RecvAlike(R, Q) /\ SendAlike(T, U)
         /\ RecvSound(Flipped(Q)) /\ SendSound(Flipped(U))
         /\ ~Called(Q) /\ U.state = T.state /\ ~Called(Flipped(Q)) /\ Flipped(U).state = T.state
         /\ ActiveRange(Flipped(Q)) = InactiveRange(Q)
         /\ ActiveRange(Flipped(U)) = InactiveRange(U)
         /\ RecvOrigin(Flipped(Q)) = InactiveRange(Q)
         /\ Flipped(Q).state = "DO_SYSCALL" => Flipped(Q).msgLen = Sentinel
         /\ Unread(Flipped(Q)) = Contents(Q.buf, InactiveRange(Q))
         /\ Unsent(Flipped(U)) = Drop(Contents(U.buf, InactiveRange(U)), Pending(T))
         /\ Unsent(T) = Drop(Contents(T.buf, ActiveRange(T)), Pending(T))
         /\ Unread(R) = Contents(R.buf, ActiveRange(R))
         /\ Pending(T) \in 0 .. ActiveRange(T).len
<1> DEFINE Qf == Flipped(Q)
           Uf == Flipped(U)
<1>1. /\ Qf \in AtomicBuffers(Byte) /\ Qf.state = Q.state /\ Qf.msgLen = Q.msgLen
      /\ Qf.buf = Q.buf /\ ActiveRange(Qf) = InactiveRange(Q)
      /\ Uf \in AtomicBuffers(Byte) /\ Uf.state = U.state /\ Uf.msgLen = U.msgLen
      /\ Uf.buf = U.buf /\ ActiveRange(Uf) = InactiveRange(U)
  BY FlipStore
<1>2. /\ Q.state = R.state /\ Q.bit = R.bit /\ Q.msgLen = R.msgLen /\ Q.active = R.active
      /\ ActiveRange(Q) = ActiveRange(R)
      /\ Contents(Q.buf, ActiveRange(R)) = Contents(R.buf, ActiveRange(R))
      /\ U.state = T.state /\ U.bit = T.bit /\ U.msgLen = T.msgLen /\ U.active = T.active
      /\ ActiveRange(U) = ActiveRange(T)
      /\ Contents(U.buf, ActiveRange(T)) = Contents(T.buf, ActiveRange(T))
  BY DEF SameTransaction
<1> HIDE DEF Qf, Uf
<1>3. /\ R.state # "SWAP" /\ Q.state # "SWAP" /\ Qf.state # "SWAP" /\ ~Called(Q) /\ ~Called(Qf)
      /\ Qf.state = "DO_SYSCALL" => Qf.msgLen = Sentinel
      /\ Q.state = "DO_SYSCALL" => Q.msgLen = Sentinel
  BY <1>1, <1>2 DEF Called, NotYetCalled
<1>4. RecvSound(Q) /\ RecvSound(Qf)
  BY <1>1, <1>3 DEF RecvSound
<1>5. /\ RecvOrigin(Q) = ActiveRange(R) /\ Unread(Q) = Contents(R.buf, ActiveRange(R))
      /\ RecvOrigin(R) = ActiveRange(R) /\ Unread(R) = Contents(R.buf, ActiveRange(R))
  BY <1>2, <1>3, <1>4, RecvIdle
<1>6. RecvOrigin(Qf) = InactiveRange(Q) /\ Unread(Qf) = Contents(Q.buf, InactiveRange(Q))
  BY <1>1, <1>3, <1>4, RecvIdle
<1>7. RecvAlike(R, Q)
  <2>1. Sentinel # 0
    BY SMT DEF Sentinel
  <2> QED BY <1>2, <1>3, <1>4, <1>5, <2>1 DEF RecvAlike
<1>8. /\ U.state # "SWAP" /\ Uf.state # "SWAP" /\ (Called(U) <=> Called(T))
      /\ (Called(Uf) <=> Called(T))
      /\ SendOrigin(U) = ActiveRange(T) /\ SendOrigin(T) = ActiveRange(T)
      /\ SendOrigin(Uf) = InactiveRange(U)
      /\ Pending(U) = Pending(T) /\ Pending(Uf) = Pending(T)
  BY <1>1, <1>2 DEF Called, NotYetCalled, SendOrigin, Pending
<1>9. Pending(T) \in 0 .. ActiveRange(T).len
  BY <1>8, SendFields
<1>10. SendSound(U)
  BY <1>2, <1>8 DEF SendSound
<1>11. SendSound(Uf)
  <2>1. ASSUME Called(T) PROVE T.msgLen \in 1 .. InactiveRange(U).len
    <3>1. T.msgLen \in 1 .. ActiveRange(T).len
      BY <1>8, <2>1 DEF SendSound
    <3>2. ActiveRange(T) \in Ranges /\ InactiveRange(U) \in Ranges
      BY SendFields, BufferFields
    <3>3. ActiveRange(T).len \in Nat /\ InactiveRange(U).len \in Nat
      BY <3>2, BufSizeAssumption DEF Ranges
    <3> QED BY <3>1, <3>3, SMT
  <2> QED BY <1>1, <1>2, <1>8, <2>1 DEF SendSound
<1>12. Unsent(U) = Unsent(T)
  BY <1>2, <1>8 DEF Unsent
<1>13. /\ Unsent(Uf) = Drop(Contents(U.buf, InactiveRange(U)), Pending(T))
       /\ Unsent(T) = Drop(Contents(T.buf, ActiveRange(T)), Pending(T))
  BY <1>1, <1>8 DEF Unsent
<1>14. SendAlike(T, U)
  BY <1>2, <1>10, <1>12 DEF SendAlike
<1> QED BY <1>1, <1>2, <1>3, <1>4, <1>5, <1>6, <1>7, <1>8, <1>9, <1>11, <1>13, <1>14 DEF Qf, Uf

-------------------------------------------------------------------------------
(* Direction, of two buffers. *)
Transformed(s, R, T, got, result) ==
  LET before == [rx |-> R, tx |-> T]
      parsed == IF ~got /\ result = "rewritten" THEN Rewritten(s, before) ELSE before
      earlier == InactiveRange(T).shutdown
  IN IF got \/ result # "incomplete"
     THEN ShutDown(Moved(parsed), InactiveRange(R).shutdown \/ earlier)
     ELSE ShutDown(parsed, earlier)

LEMMA SameTransactionTwice ==
  ASSUME NEW b, NEW v, NEW w, SameTransaction(b, v), SameTransaction(v, w)
  PROVE  SameTransaction(b, w)
BY DEF SameTransaction

(* The bytes of a direction of which nothing was forwarded yet: dropping   *)
(* the header's from the front leaves what follows the header.             *)
LEMMA NumberedDrop ==
  ASSUME NEW s \in Ends, NEW n \in Nat, n <= Total[s], NEW h \in Nat, h <= n
  PROVE  Drop(Numbered(0, n), h) = Numbered(h, n - h)
<1>0. Total[s] \in Nat
  BY TotalsAssumption
<1>1. n - h \in Nat /\ h + (n - h) = n /\ 0 + n <= Total[s] /\ h + (n - h) <= Total[s] /\ h \in 0 .. n
      /\ 0 \in Nat /\ 0 + h = h /\ 0 + (h + (n - h)) <= Total[s] /\ 0 + h <= Total[s]
  BY <1>0, SMT
<1> DEFINE q == Numbered(0, n)
           a == Numbered(0, h)
           b == Numbered(h, n - h)
<1>2. q \in Seq(Byte) /\ Len(q) = n /\ b \in Seq(Byte) /\ Len(b) = n - h
      /\ a \in Seq(Byte) /\ Len(a) = h
  BY <1>1, NumberedType
<1>3. a \o b = q
  <2>1. Numbered(0, h) \o Numbered(0 + h, n - h) = Numbered(0, h + (n - h))
    BY <1>1, NumberedMore
  <2> QED BY <1>1, <2>1
<1> HIDE DEF q, a, b
<1>4. SubSeq(a \o b, h + 1, Len(a) + Len(b)) = SubSeq(a, h + 1, Len(a)) \o b
  <2>1. h \in 0 .. Len(a)
    BY <1>2, SMT
  <2> QED BY <1>2, <2>1, SuffixOfConcat
<1>5. Len(a) + Len(b) = n
  BY <1>0, <1>1, <1>2
<1>6. SubSeq(a, h + 1, Len(a)) = <<>>
  BY <1>2, SMT
<1>7. <<>> \o b = b
  BY <1>2, ConcatEmptySeq
<1> QED BY <1>2, <1>3, <1>4, <1>5, <1>6, <1>7 DEF Drop, q, b

(* transform keeps the stream of a direction, whichever worker activates   *)
(* the ranges that it made.                                                *)
Carried(s, R, T, d, X) ==
  LET Q == X.rx
      U == X.tx
  IN /\ RecvAlike(R, Q) /\ SendAlike(T, U) /\ ~Called(Q) /\ U.state = T.state
     /\ Called(U) => Called(T)
     /\ Flow(s, Flipped(Q), Flipped(U), d)
     /\ ActiveRange(Q) = ActiveRange(R) /\ ActiveRange(U) = ActiveRange(T)
     /\ InactiveRange(U).shutdown /\ InactiveRange(U).len = 0 => InactiveRange(Q).len = 0
     /\ ActiveRange(T).shutdown => InactiveRange(U).shutdown
     /\ ActiveRange(T).len <= InactiveRange(U).len
     /\ InactiveRange(Q).len <= ActiveRange(R).len
     /\ InactiveRange(Q).shutdown => ActiveRange(R).shutdown

LEMMA FlowTransformed ==
  ASSUME NEW s \in Ends, NEW R, NEW T, NEW c, NEW d, NEW result, Flow(s, R, T, c),
         c.got \in BOOLEAN, c.taken \in Nat, c.taken <= Total[s],
         ~Called(R), T.state # "SWAP",
         InactiveRange(R) = ActiveRange(R), InactiveRange(T) = ActiveRange(T),
         ~c.got /\ result = "rewritten" => HeaderLen[s] <= InactiveRange(R).len,
         ~c.got /\ result = "incomplete" => ~InactiveRange(R).shutdown,
         d.got = (c.got \/ result # "incomplete"), d.out = c.out, d.taken = c.taken,
         d.fin = c.fin, d.outFin = c.outFin, d.early = c.early
  PROVE  Carried(s, R, T, d, Transformed(s, R, T, c.got, result))
<1> DEFINE X == Transformed(s, R, T, c.got, result)
           r == ActiveRange(R)
           t == ActiveRange(T)
           flag == r.shutdown \/ t.shutdown
           x == Contents(R.buf, r)
           Goal(Q, U) ==
             /\ RecvAlike(R, Q) /\ SendAlike(T, U) /\ ~Called(Q) /\ U.state = T.state
             /\ Called(U) => Called(T)
             /\ Flow(s, Flipped(Q), Flipped(U), d)
             /\ ActiveRange(Q) = ActiveRange(R) /\ ActiveRange(U) = ActiveRange(T)
             /\ InactiveRange(U).shutdown /\ InactiveRange(U).len = 0 => InactiveRange(Q).len = 0
             /\ ActiveRange(T).shutdown => InactiveRange(U).shutdown
             /\ ActiveRange(T).len <= InactiveRange(U).len
             /\ InactiveRange(Q).len <= ActiveRange(R).len
             /\ InactiveRange(Q).shutdown => ActiveRange(R).shutdown
<1> SUFFICES Carried(s, R, T, d, X)
  OBVIOUS
<1>0. /\ RecvSound(R) /\ SendSound(T) /\ c.out \in Seq(Byte)
      /\ R \in AtomicBuffers(Byte) /\ T \in AtomicBuffers(Byte) /\ R.buf \in [Index -> Byte]
      /\ r \in Ranges /\ t \in Ranges /\ Unread(R) \in Seq(Byte) /\ Unsent(T) \in Seq(Byte)
      /\ IsStream(s, c, c.out \o Queued(R, T)) /\ (c.got \/ HeaderFirst(R, T, c))
      /\ EndLast(R, T, c)
  BY SendFields, RecvFields DEF Flow
<1>1. /\ r.shutdown \in BOOLEAN /\ t.shutdown \in BOOLEAN /\ flag \in BOOLEAN
      /\ r.len \in Nat /\ t.len \in Nat
  <2> HIDE DEF r, t
  <2> QED BY <1>0, BufSizeAssumption DEF Ranges
<1>2. (t.shutdown => r.shutdown) /\ (flag => r.shutdown)
  BY <1>0 DEF EndLast
<1>3. Unread(R) = x /\ RecvOrigin(R) = r /\ x \in Seq(Byte) /\ Len(x) = r.len
  BY <1>0, RecvIdle, ContentsType
<1>4. SameTransaction(R, R) /\ SameTransaction(T, T)
  BY DEF SameTransaction
<1>5. X.rx = R /\ X.tx = T => (~c.got /\ result = "incomplete" => Goal(X.rx, X.tx))
  <2> SUFFICES ASSUME X.rx = R, X.tx = T, ~c.got, result = "incomplete"
               PROVE  Goal(R, T)
    <3> HIDE DEF Goal, X
    <3> QED OBVIOUS
  <2>1. t.len <= InactiveRange(T).len
    BY <1>1
  <2>2. /\ RecvAlike(R, R) /\ SendAlike(T, T)
        /\ RecvSound(Flipped(R)) /\ SendSound(Flipped(T))
        /\ Flipped(T).state = T.state
        /\ ActiveRange(Flipped(R)) = r /\ ActiveRange(Flipped(T)) = t
        /\ RecvOrigin(Flipped(R)) = r
        /\ Flipped(R).state = "DO_SYSCALL" => Flipped(R).msgLen = Sentinel
        /\ Unread(Flipped(R)) = Unread(R) /\ Unsent(Flipped(T)) = Unsent(T)
    BY <1>0, <1>4, <2>1, FlippedQueues
  <2>3. Queued(Flipped(R), Flipped(T)) = Queued(R, T)
    BY <2>2 DEF Queued
  <2>4. HeaderFirst(Flipped(R), Flipped(T), d)
    BY <1>0, <1>3, <2>2 DEF HeaderFirst
  <2>5. EndLast(Flipped(R), Flipped(T), d)
    <3>1. Sentinel # 0
      BY SMT DEF Sentinel
    <3> QED BY <1>0, <2>2, <3>1 DEF EndLast
  <2>6. IsStream(s, d, d.out \o Queued(Flipped(R), Flipped(T)))
    BY <1>0, <2>3 DEF IsStream
  <2>7. Flow(s, Flipped(R), Flipped(T), d)
    BY <1>0, <2>2, <2>4, <2>5, <2>6 DEF Flow
  <2>8. ~t.shutdown
    BY <1>2
  <2> QED BY <1>1, <2>1, <2>2, <2>7, <2>8
<1>6. CASE ~c.got /\ result = "incomplete"
  <2>1. X = ShutDown([rx |-> R, tx |-> T], t.shutdown)
    BY <1>6 DEF Transformed
  <2>2. ~t.shutdown
    BY <1>2, <1>6
  <2>3. X.rx = R /\ X.tx = T
    <3> HIDE DEF X, t
    <3> QED BY <2>1, <2>2 DEF ShutDown
  <2> HIDE DEF Goal, X
  <2>4. Goal(X.rx, X.tx)
    BY <1>5, <1>6, <2>3
  <2> QED BY <2>4 DEF Carried, Goal
<1>7. ASSUME NEW Q \in AtomicBuffers(Byte), NEW U \in AtomicBuffers(Byte), d.got = TRUE,
             SameTransaction(R, Q), SameTransaction(T, U),
             InactiveRange(Q).len <= r.len, t.len <= InactiveRange(U).len,
             InactiveRange(U).len = 0 => InactiveRange(Q).len = 0,
             InactiveRange(Q).shutdown = flag, InactiveRange(U).shutdown = flag,
             IsStream(s, d, d.out \o (Drop(Contents(U.buf, InactiveRange(U)), Pending(T))
                                        \o Contents(Q.buf, InactiveRange(Q)))),
             c.outFin /\ ~c.early =>
               Drop(Contents(U.buf, InactiveRange(U)), Pending(T))
                 \o Contents(Q.buf, InactiveRange(Q)) = <<>>
      PROVE  Goal(Q, U)
  <2>1. /\ RecvAlike(R, Q) /\ SendAlike(T, U)
        /\ RecvSound(Flipped(Q)) /\ SendSound(Flipped(U))
        /\ ~Called(Q) /\ U.state = T.state
        /\ ActiveRange(Flipped(Q)) = InactiveRange(Q)
        /\ ActiveRange(Flipped(U)) = InactiveRange(U)
        /\ Flipped(Q).state = "DO_SYSCALL" => Flipped(Q).msgLen = Sentinel
        /\ Unread(Flipped(Q)) = Contents(Q.buf, InactiveRange(Q))
        /\ Unsent(Flipped(U)) = Drop(Contents(U.buf, InactiveRange(U)), Pending(T))
    BY <1>0, <1>7, FlippedQueues
  <2>2. Queued(Flipped(Q), Flipped(U))
          = Drop(Contents(U.buf, InactiveRange(U)), Pending(T)) \o Contents(Q.buf, InactiveRange(Q))
    BY <2>1 DEF Queued
  <2>3. EndLast(Flipped(Q), Flipped(U), d)
    <3>1. Sentinel # 0
      BY SMT DEF Sentinel
    <3>2. ActiveRange(Flipped(Q)).shutdown = flag /\ ActiveRange(Flipped(U)).shutdown = flag
      BY <1>7, <2>1
    <3>3. Unsent(Flipped(U)) \in Seq(Byte) /\ Unread(Flipped(Q)) \in Seq(Byte)
      BY <2>1, SendFields, RecvFields
    <3>4. c.outFin /\ ~c.early => Unsent(Flipped(U)) = <<>> /\ Unread(Flipped(Q)) = <<>>
      <4> SUFFICES ASSUME Unsent(Flipped(U)) \o Unread(Flipped(Q)) = <<>>
                   PROVE  Unsent(Flipped(U)) = <<>> /\ Unread(Flipped(Q)) = <<>>
        BY <1>7, <2>1
      <4> DEFINE a == Unsent(Flipped(U))
                 b == Unread(Flipped(Q))
      <4>1. Len(a) \in Nat /\ Len(b) \in Nat /\ Len(a \o b) = Len(a) + Len(b)
        BY <3>3, LenProperties, ConcatProperties
      <4>2. Len(a \o b) = 0
        OBVIOUS
      <4>3. Len(a) = 0 /\ Len(b) = 0
        <5> HIDE DEF a, b
        <5> QED BY <4>1, <4>2, SMT
      <4> QED BY <3>3, <4>3, EmptySeq
    <3>5. c.outFin => r.shutdown \/ c.early
      BY <1>0 DEF EndLast
    <3>6. r.shutdown => c.fin
      BY <1>0 DEF EndLast
    <3>7. c.outFin => c.fin
      BY <1>0 DEF EndLast
    <3> QED BY <1>2, <2>1, <3>1, <3>2, <3>4, <3>5, <3>6, <3>7 DEF EndLast
  <2>4. Flow(s, Flipped(Q), Flipped(U), d)
    BY <1>0, <1>7, <2>1, <2>2, <2>3 DEF Flow
  <2>5. /\ ActiveRange(Q) = ActiveRange(R) /\ ActiveRange(U) = ActiveRange(T)
        /\ Called(U) => Called(T)
    BY <1>7 DEF SameTransaction, Called, NotYetCalled
  <2> QED BY <1>2, <1>7, <2>1, <2>4, <2>5
<1>8. CASE c.got \/ (result # "incomplete" /\ result # "rewritten")
  <2>1. X = ShutDown(Moved([rx |-> R, tx |-> T]), flag)
    BY <1>8 DEF Transformed
  <2> DEFINE Q == X.rx
             U == X.tx
             q == Drop(Contents(U.buf, InactiveRange(U)), Pending(T))
                    \o Contents(Q.buf, InactiveRange(Q))
  <2> HIDE DEF X
  <2>2. Pending(T) \in 0 .. InactiveRange(T).len /\ Unsent(T) = Drop(Contents(T.buf, InactiveRange(T)), Pending(T))
    <3>1. t.len <= InactiveRange(T).len
      BY <1>1
    <3> QED BY <1>0, <1>4, <3>1, FlippedQueues
  <2>3. /\ Q \in AtomicBuffers(Byte) /\ U \in AtomicBuffers(Byte)
        /\ SameTransaction(R, Q) /\ SameTransaction(T, U)
        /\ InactiveRange(Q).len <= r.len /\ t.len <= InactiveRange(U).len
        /\ InactiveRange(U).len = 0 => InactiveRange(Q).len = 0
        /\ InactiveRange(Q).shutdown = (r.shutdown \/ flag)
        /\ InactiveRange(U).shutdown = (t.shutdown \/ flag)
        /\ q = Drop(Contents(T.buf, InactiveRange(T)), Pending(T)) \o Contents(R.buf, InactiveRange(R))
    <3>1. InactiveRange(R) = r /\ InactiveRange(T) = t
      OBVIOUS
    <3> HIDE DEF flag, r, t
    <3>2. ActiveRange(T) = InactiveRange(T)
      OBVIOUS
    <3>3. InOrder(R, T, flag, X)
      BY <1>0, <1>1, <2>1, <3>2, MovedQueues
    <3> QED BY <2>2, <3>1, <3>3 DEF InOrder
  <2>4. (r.shutdown \/ flag) = flag /\ (t.shutdown \/ flag) = flag
    BY <1>1
  <2>5. q = Queued(R, T)
    BY <1>3, <2>2, <2>3 DEF Queued
  <2>6. d.got = TRUE
    BY <1>8
  <2>7. IsStream(s, d, d.out \o q)
    <3> HIDE DEF q
    <3> QED BY <1>0, <2>5, <2>6 DEF IsStream
  <2>8. c.outFin /\ ~c.early => q = <<>>
    <3>1. c.outFin /\ ~c.early => Unsent(T) = <<>> /\ Unread(R) = <<>>
      BY <1>0 DEF EndLast
    <3>2. <<>> \o <<>> = <<>>
      OBVIOUS
    <3> HIDE DEF q
    <3> QED BY <2>5, <3>1, <3>2 DEF Queued
  <2> HIDE DEF Goal, flag
  <2>9. Goal(Q, U)
    BY <1>7, <2>3, <2>4, <2>6, <2>7, <2>8
  <2> QED BY <2>9 DEF Carried, Goal
<1>9. CASE ~c.got /\ result = "rewritten"
  <2> DEFINE v == Rewritten(s, [rx |-> R, tx |-> T])
             h == HeaderLen[s]
  <2>1. X = ShutDown(Moved([rx |-> v.rx, tx |-> v.tx]), flag)
    <3>1. v = [rx |-> v.rx, tx |-> v.tx]
      BY DEF Rewritten
    <3> HIDE DEF v
    <3>2. X = ShutDown(Moved(v), flag)
      BY <1>9 DEF Transformed, v
    <3> QED BY <3>1, <3>2
  <2>2. /\ c.out = <<>> /\ T.state = "INIT" /\ t.len = 0 /\ h \in Nat \ {0} /\ h <= r.len
    BY <1>0, <1>9, TotalsAssumption DEF HeaderFirst
  <2>3. Pending(T) = 0 /\ Unsent(T) = <<>>
    <3>1. ~Called(T)
      BY <2>2 DEF Called
    <3>2. Unsent(T) = Contents(T.buf, t)
      BY <1>0, <3>1, SendIdle
    <3>3. Contents(T.buf, t) = <<>>
      BY <2>2 DEF Contents
    <3> QED BY <3>1, <3>2, <3>3 DEF Pending
  <2>4. x = Numbered(0, c.taken) /\ r.len = c.taken
    <3>1. <<>> \o (<<>> \o x) = x
      BY <1>3, ConcatEmptySeq
    <3>2. c.out \o Queued(R, T) = x
      BY <1>3, <2>2, <2>3, <3>1 DEF Queued
    <3>3. x = Numbered(0, c.taken)
      BY <1>0, <1>9, <3>2 DEF IsStream
    <3>4. Len(Numbered(0, c.taken)) = c.taken
      <4>1. 0 + c.taken <= Total[s] /\ 0 \in Nat
        BY TotalsAssumption
      <4> QED BY <4>1, NumberedType
    <3> QED BY <1>3, <3>3, <3>4
  <2> HIDE DEF v, h, X
  <2>5. /\ v.rx \in AtomicBuffers(Byte) /\ v.tx \in AtomicBuffers(Byte)
        /\ SameTransaction(R, v.rx) /\ SameTransaction(T, v.tx)
        /\ InactiveRange(v.rx).len = r.len - h
        /\ InactiveRange(v.rx).shutdown = r.shutdown
        /\ InactiveRange(v.tx).len = 1
        /\ InactiveRange(v.tx).shutdown = FALSE
        /\ Contents(v.rx.buf, InactiveRange(v.rx)) = Drop(x, h)
        /\ Contents(v.tx.buf, InactiveRange(v.tx)) = <<Header>>
    <3>1. InactiveRange(R) = r
      OBVIOUS
    <3>2. HeaderLen[s] <= InactiveRange(R).len /\ ActiveRange(T).len = 0
      BY <2>2, <3>1 DEF h
    <3> HIDE DEF r, t
    <3>3. /\ v.rx \in AtomicBuffers(Byte) /\ v.tx \in AtomicBuffers(Byte)
          /\ SameTransaction(R, v.rx) /\ SameTransaction(T, v.tx)
          /\ InactiveRange(v.rx).len = InactiveRange(R).len - h
          /\ InactiveRange(v.rx).shutdown = InactiveRange(R).shutdown
          /\ InactiveRange(v.tx).len = 1
          /\ InactiveRange(v.tx).shutdown = FALSE
          /\ Contents(v.rx.buf, InactiveRange(v.rx)) = Drop(Contents(R.buf, InactiveRange(R)), h)
          /\ Contents(v.tx.buf, InactiveRange(v.tx)) = <<Header>>
      BY <1>0, <3>2, RewrittenSound DEF v, h
    <3> QED BY <3>1, <3>3
  <2> DEFINE Q == X.rx
             U == X.tx
             q == Drop(Contents(U.buf, InactiveRange(U)), Pending(T))
                    \o Contents(Q.buf, InactiveRange(Q))
  <2>6. ActiveRange(v.tx).len = 0 /\ 0 \in 0 .. InactiveRange(v.tx).len
    <3>1. ActiveRange(v.tx) = t
      BY <2>5 DEF SameTransaction
    <3> QED BY <2>2, <2>5, <3>1, SMT
  <2>7. /\ Q \in AtomicBuffers(Byte) /\ U \in AtomicBuffers(Byte)
        /\ SameTransaction(v.rx, Q) /\ SameTransaction(v.tx, U)
        /\ InactiveRange(Q).len <= r.len - h /\ 1 <= InactiveRange(U).len
        /\ InactiveRange(U).len = 0 => InactiveRange(Q).len = 0
        /\ InactiveRange(Q).shutdown = (r.shutdown \/ flag)
        /\ InactiveRange(U).shutdown = (FALSE \/ flag)
        /\ q = Drop(<<Header>>, 0) \o Drop(x, h)
    <3> HIDE DEF flag, r, x
    <3>1. InOrder(v.rx, v.tx, flag, X)
      BY <1>1, <2>1, <2>5, <2>6, MovedQueues
    <3> QED BY <2>3, <2>5, <2>6, <3>1 DEF InOrder
  <2>8. (r.shutdown \/ flag) = flag /\ (FALSE \/ flag) = flag
    BY <1>1
  <2>9. /\ InactiveRange(Q).len <= r.len /\ t.len <= InactiveRange(U).len
    <3>1. InactiveRange(Q) \in Ranges /\ InactiveRange(U) \in Ranges
      BY <2>7, BufferFields
    <3>2. InactiveRange(Q).len \in Nat /\ InactiveRange(U).len \in Nat
      BY <3>1, BufSizeAssumption DEF Ranges
    <3> HIDE DEF r, t, Q, U
    <3> QED BY <1>1, <2>2, <2>7, <3>2, SMT
  <2>10. SameTransaction(R, Q) /\ SameTransaction(T, U)
    BY <2>5, <2>7, SameTransactionTwice
  <2>11. q = <<Header>> \o Numbered(h, c.taken - h)
    <3>1. Drop(Numbered(0, c.taken), h) = Numbered(h, c.taken - h)
      BY <2>2, <2>4, NumberedDrop
    <3>2. Drop(<<Header>>, 0) = <<Header>>
      <4>1. Drop(<<Header>>, 0) = SubSeq(<<Header>>, 1, Len(<<Header>>))
        BY DEF Drop
      <4> QED BY <4>1, SubSeqFull, HeaderByte
    <3> HIDE DEF q, x
    <3> QED BY <2>4, <2>7, <3>1, <3>2
  <2>12. d.got = TRUE
    BY <1>9
  <2>13. IsStream(s, d, d.out \o q)
    <3>1. <<Header>> \o Numbered(h, c.taken - h) \in Seq(Byte)
      <4>1. c.taken - h \in Nat /\ h + (c.taken - h) <= Total[s]
        BY <2>2, <2>4, TotalsAssumption, SMT
      <4>2. Numbered(h, c.taken - h) \in Seq(Byte)
        BY <2>2, <4>1, NumberedType
      <4> QED BY <4>2, HeaderByte, ConcatProperties
    <3> HIDE DEF q
    <3>2. d.out \o q = q
      BY <2>2, <2>11, <3>1, ConcatEmptySeq
    <3>3. HeaderLen[s] <= d.taken
      BY <2>2, <2>4 DEF h
    <3> QED BY <2>11, <2>12, <3>2, <3>3 DEF IsStream, h
  <2>14. c.outFin /\ ~c.early => q = <<>>
    <3>1. c.outFin /\ ~c.early => x = <<>>
      BY <1>0, <1>3 DEF EndLast
    <3>2. x # <<>>
      <4>1. Len(x) # 0
        <5> HIDE DEF x, r
        <5> QED BY <1>1, <1>3, <2>2, SMT
      <4> QED BY <4>1
    <3> QED BY <3>1, <3>2
  <2> HIDE DEF Goal, flag
  <2>15. Goal(Q, U)
    BY <1>7, <2>7, <2>8, <2>9, <2>10, <2>12, <2>13, <2>14
  <2> QED BY <2>15 DEF Carried, Goal
<1> QED BY <1>6, <1>8, <1>9

-------------------------------------------------------------------------------
(* The steps of the worker, and what they do to the streams.               *)
Active(s) == context.got[context.active][s]

LEMMA TwoEnds ==
  /\ "down" \in Ends /\ "up" \in Ends
  /\ \A e \in Ends : Other(e) \in Ends /\ Other(Other(e)) = e /\ Other(e) # e
  /\ \A e, f \in Ends : f = e \/ f = Other(e)
BY DEF Ends, Other

LEMMA StreamsAt ==
  ASSUME Streams, state # "SWAP_BUFFERS", NEW s \in Ends
  PROVE  /\ Flow(s, rx[s], tx[Other(s)], Progress(s, Active(s)))
         /\ RecvSound(rx[s]) /\ SendSound(tx[s])
         /\ rx[s] \in AtomicBuffers(Byte) /\ tx[s] \in AtomicBuffers(Byte)
<1>1. ASSUME NEW e \in Ends PROVE Flow(e, rx[e], tx[Other(e)], Progress(e, Active(e)))
  BY DEF Streams, DirectionOk, ViewRx, ViewTx, ViewGot, Active
<1>2. RecvSound(rx[s])
  BY <1>1 DEF Flow
<1>3. SendSound(tx[s])
  <2>1. Other(s) \in Ends /\ Other(Other(s)) = s
    BY TwoEnds
  <2>2. Flow(Other(s), rx[Other(s)], tx[s], Progress(Other(s), Active(Other(s))))
    BY <1>1, <2>1
  <2> QED BY <2>2 DEF Flow
<1> QED BY <1>1, <1>2, <1>3 DEF Streams

LEMMA StreamsFrom ==
  ASSUME state' # "SWAP_BUFFERS",
         rx' = [e \in Ends |-> rx'[e]], tx' = [e \in Ends |-> tx'[e]],
         out' = [e \in Ends |-> out'[e]],
         \A s \in Ends : Flow(s, rx'[s], tx'[Other(s)], Progress(s, Active(s))')
  PROVE  Streams'
<1>1. \A s \in Ends : RecvSound(rx'[s]) /\ SendSound(tx'[Other(s)])
  BY DEF Flow
<1>2. \A s \in Ends : rx'[s] \in AtomicBuffers(Byte) /\ tx'[s] \in AtomicBuffers(Byte)
  BY <1>1, TwoEnds DEF RecvSound, SendSound
<1>3. rx' \in [Ends -> AtomicBuffers(Byte)] /\ tx' \in [Ends -> AtomicBuffers(Byte)]
  BY <1>2
<1> QED BY <1>3 DEF Streams, DirectionOk, ViewRx, ViewTx, ViewGot, Active

(* One send buffer is changed. *)
LEMMA StreamsSendSide ==
  ASSUME Control, Streams, state # "SWAP_BUFFERS", state' = state,
         UNCHANGED <<rx, context, taken, fin, outFin, early>>,
         NEW c \in Ends, NEW U, tx' = [tx EXCEPT ![c] = U],
         out' = [e \in Ends |-> out'[e]], out'[Other(c)] = out[Other(c)],
         Flow(Other(c), rx[Other(c)], U, Progress(Other(c), Active(Other(c)))')
  PROVE  Streams'
<1>0. rx = [e \in Ends |-> rx[e]] /\ tx = [e \in Ends |-> tx[e]]
  BY DEF Control
<1>1. ASSUME NEW s \in Ends
      PROVE  Flow(s, rx'[s], tx'[Other(s)], Progress(s, Active(s))')
  <2>1. CASE s = Other(c)
    BY <1>0, <2>1, TwoEnds
  <2>2. CASE s = c
    <3>1. Progress(s, Active(s))' = Progress(s, Active(s))
      BY <2>2 DEF Progress, Active
    <3> QED BY <1>0, <2>2, <3>1, StreamsAt, TwoEnds
  <2> QED BY <1>0, <2>1, <2>2, TwoEnds
<1> QED BY <1>0, <1>1, StreamsFrom

(* One receive buffer is changed. *)
LEMMA StreamsRecvSide ==
  ASSUME Control, Streams, state # "SWAP_BUFFERS", state' = state,
         UNCHANGED <<tx, context, out, outFin, early>>,
         NEW c \in Ends, NEW Q, rx' = [rx EXCEPT ![c] = Q],
         taken'[Other(c)] = taken[Other(c)], fin'[Other(c)] = fin[Other(c)],
         Flow(c, Q, tx[Other(c)], Progress(c, Active(c))')
  PROVE  Streams'
<1>0. rx = [e \in Ends |-> rx[e]] /\ tx = [e \in Ends |-> tx[e]]
  BY DEF Control
<1>1. ASSUME NEW s \in Ends
      PROVE  Flow(s, rx'[s], tx'[Other(s)], Progress(s, Active(s))')
  <2>1. CASE s = c
    BY <1>0, <2>1, TwoEnds
  <2>2. CASE s = Other(c)
    <3>1. Progress(s, Active(s))' = Progress(s, Active(s))
      BY <2>2 DEF Progress, Active
    <3> QED BY <1>0, <2>2, <3>1, StreamsAt, TwoEnds
  <2> QED BY <1>0, <2>1, <2>2, TwoEnds
<1>2. out' = [e \in Ends |-> out'[e]]
  BY DEF Streams
<1> QED BY <1>0, <1>1, <1>2, StreamsFrom

LEMMA StreamsQuiet ==
  ASSUME Streams, UNCHANGED <<shared, taken, fin, out, outFin, early>>
  PROVE  Streams'
BY DEF Streams, DirectionOk, Progress, ViewRx, ViewTx, ViewGot, shared

LEMMA SendStreams ==
  ASSUME Control, Places, Streams, Sending, SendStore \/ Sends
  PROVE  Streams' /\ Sending'
<1> DEFINE T == tx[cur]
           s == Other(cur)
<1>0. /\ InSend /\ pc = "send" /\ pc' = "send" /\ state # "SWAP_BUFFERS" /\ cur \in Ends
      /\ cur' = cur /\ state' = state
      /\ UNCHANGED <<rx, context, taken, fin, outFin, early>>
      /\ tx = [e \in Ends |-> tx[e]]
  BY DEF SendStore, Sends, Sendmmsg, InSend, Places, Handling, Control, history
<1>1. /\ SendSound(T) /\ SendPlace(T, step) /\ s \in Ends /\ Other(s) = cur
      /\ Flow(s, rx[s], T, Progress(s, Active(s))) /\ RecvSound(rx[s])
  BY <1>0, StreamsAt, TwoEnds DEF Sending
<1>2. out = [e \in Ends |-> out[e]]
  BY DEF Streams
<1>3. CASE SendStore
  <2>1. PICK st \in SendStores(T) : /\ step = st[1] /\ step' = st[2]
                                    /\ tx' = [tx EXCEPT ![cur] = st[3]] /\ out' = out
    BY <1>3 DEF SendStore
  <2>2. SendAlike(T, st[3]) /\ SendPlace(st[3], st[2])
    BY <1>1, <2>1, SendStoreSound
  <2>3. Flow(s, rx[s], st[3], Progress(s, Active(s)))
    BY <1>1, <2>2, AlikeSelf, FlowAlike
  <2>4. ASSUME NEW c \in Ends, c = cur PROVE Streams'
    <3>1. Progress(Other(c), Active(Other(c)))' = Progress(Other(c), Active(Other(c)))
      BY <1>0, <2>1 DEF Progress, Active
    <3>2. Flow(Other(c), rx[Other(c)], st[3], Progress(Other(c), Active(Other(c)))')
      BY <2>3, <2>4, <3>1
    <3> QED BY <1>0, <1>2, <2>1, <2>4, <3>2, StreamsSendSide
  <2>5. Sending'
    BY <1>0, <2>1, <2>2 DEF Sending
  <2> QED BY <1>0, <2>4, <2>5
<1>4. CASE Sends
  <2>1. PICK n \in 1 .. BufSize : Sendmmsg(n)
    BY <1>4 DEF Sends
  <2>2. /\ step = "syscall" /\ NotYetCalled(T) /\ ~outFin[cur] /\ n <= ActiveRange(T).len
        /\ out' = [out EXCEPT ![cur] = @ \o Gather(T.buf, IovecUsed(ActiveRange(T)), n)]
        /\ tx' = [tx EXCEPT ![cur] = SendDone(T, n)] /\ step' = step
    BY <2>1 DEF Sendmmsg
  <2>3. T.state = "DO_SYSCALL"
    BY <1>1, <2>2 DEF SendPlace
  <2>4. SendDone(T, n).state = "DO_SYSCALL" /\ ActiveRange(SendDone(T, n)).len > 0
    BY <1>1, <2>2, <2>3, SendDoneSound
  <2>5. ASSUME NEW c \in Ends, c = cur PROVE Streams'
    <3> DEFINE p == Progress(Other(c), Active(Other(c)))
               q == Progress(Other(c), Active(Other(c)))'
    <3>1. Other(c) = s /\ Other(Other(c)) = c
      BY <2>5, TwoEnds
    <3>2. /\ q.out = p.out \o Gather(T.buf, IovecUsed(ActiveRange(T)), n)
          /\ q.got = p.got /\ q.taken = p.taken /\ q.fin = p.fin /\ q.outFin = p.outFin
          /\ q.early = p.early /\ ~p.outFin
      BY <1>0, <1>2, <2>2, <2>5, <3>1 DEF Progress, Active
    <3>3. Flow(Other(c), rx[Other(c)], T, p)
      BY <1>1, <3>1
    <3> HIDE DEF p, q, T
    <3>4. Flow(Other(c), rx[Other(c)], SendDone(T, n), q)
      BY <2>2, <2>3, <3>2, <3>3, FlowSent
    <3>5. tx' = [tx EXCEPT ![c] = SendDone(T, n)]
      BY <2>2, <2>5
    <3>6. out' = [e \in Ends |-> out'[e]] /\ out'[Other(c)] = out[Other(c)]
      BY <1>2, <2>2, <2>5, <3>1, TwoEnds
    <3> QED BY <1>0, <3>4, <3>5, <3>6, StreamsSendSide DEF q
  <2>6. Sending'
    <3>1. SendPlace(SendDone(T, n), "syscall")
      BY <2>4 DEF SendPlace, Steps, Swapping
    <3> QED BY <1>0, <2>2, <3>1 DEF Sending
  <2> QED BY <1>0, <2>5, <2>6
<1> QED BY <1>3, <1>4

LEMMA RecvStreams ==
  ASSUME Control, Places, Streams, Receiving, Ending,
         RecvStore \/ Receives \/ RecvWouldBlock \/ RecvFails \/ RecvReturnsEof
  PROVE  Streams' /\ Receiving'
<1> DEFINE R == rx[cur]
<1>0. /\ InRecv /\ pc = "recv" /\ state # "SWAP_BUFFERS" /\ cur \in Ends
      /\ cur' = cur /\ state' = state
      /\ UNCHANGED <<tx, context, out, outFin, early>>
      /\ rx = [e \in Ends |-> rx[e]] /\ taken = [e \in Ends |-> taken[e]]
      /\ fin = [e \in Ends |-> fin[e]]
  BY DEF RecvStore, Receives, Recvmmsg, RecvWouldBlock, RecvFails, RecvError,
         RecvReturnsEof, InRecv, Places, Handling, Control, history
<1>1. /\ RecvSound(R) /\ RecvPlace(R, step) /\ Other(cur) \in Ends
      /\ Flow(cur, R, tx[Other(cur)], Progress(cur, Active(cur))) /\ SendSound(tx[Other(cur)])
  BY <1>0, StreamsAt, TwoEnds DEF Receiving
<1>2. ASSUME NEW Q, RecvAlike(R, Q), rx' = [rx EXCEPT ![cur] = Q], UNCHANGED <<taken, fin>>
      PROVE  Streams'
  <2>1. Flow(cur, Q, tx[Other(cur)], Progress(cur, Active(cur)))
    BY <1>1, <1>2, AlikeSelf, FlowAlike
  <2>2. ASSUME NEW c \in Ends, c = cur PROVE Streams'
    <3>1. Progress(c, Active(c))' = Progress(c, Active(c))
      BY <1>0, <1>2 DEF Progress, Active
    <3>2. Flow(c, Q, tx[Other(c)], Progress(c, Active(c))')
      BY <2>1, <2>2, <3>1
    <3> QED BY <1>0, <1>2, <2>2, <3>2, StreamsRecvSide
  <2> QED BY <1>0, <2>2
<1>3. CASE RecvStore
  <2>1. PICK st \in RecvStores(R) : /\ step = st[1] /\ step' = st[2]
                                    /\ rx' = [rx EXCEPT ![cur] = st[3]]
                                    /\ UNCHANGED <<taken, fin>>
    BY <1>3 DEF RecvStore
  <2>2. RecvAlike(R, st[3]) /\ RecvPlace(st[3], st[2])
    BY <1>1, <2>1, RecvStoreSound
  <2>3. Receiving'
    BY <1>0, <2>1, <2>2 DEF Receiving
  <2> QED BY <1>2, <2>1, <2>2, <2>3
<1>4. CASE Receives
  <2>1. PICK n \in 0 .. BufSize : Recvmmsg(n)
    BY <1>4 DEF Receives
  <2> DEFINE P == RecvPrepared(R)
             Q == RecvDone(P, Numbered(taken[cur], n))
  <2>2. /\ step = "syscall" /\ NotYetCalled(P)
        /\ n <= Capacity(RecvTarget(P)) /\ n <= Total[cur] - taken[cur]
        /\ fin[cur] => n = 0
        /\ rx' = [rx EXCEPT ![cur] = Q] /\ taken' = [taken EXCEPT ![cur] = @ + n]
        /\ fin' = [fin EXCEPT ![cur] = (n = 0)] /\ step' = step
    BY <2>1 DEF Recvmmsg
  <2>3. R.state = "DO_SYSCALL" /\ ~ActiveRange(R).shutdown
    BY <1>1, <2>2 DEF RecvPlace
  <2>4. NotYetCalled(R)
    <3>1. P.msgLen = R.msgLen
      <4>1. R \in AtomicBuffers(Byte) /\ Rewound(ActiveRange(R)) \in Ranges
        BY <1>1, RecvFields, RewoundType
      <4> QED BY <4>1, ActiveStore DEF RecvPrepared
    <3> QED BY <2>2, <3>1 DEF NotYetCalled
  <2>5. /\ n \in Nat /\ taken[cur] \in Nat /\ taken[cur] + n <= Total[cur]
        /\ taken[cur] + n \in Nat
    <3>1. n \in Nat /\ taken[cur] \in Nat /\ Total[cur] \in Nat
      BY <1>0, BufSizeAssumption, TotalsAssumption DEF Control
    <3> QED BY <2>2, <3>1, SMT
  <2>6. ASSUME NEW c \in Ends, c = cur PROVE Streams'
    <3> DEFINE p == Progress(c, Active(c))
               q == Progress(c, Active(c))'
    <3>1. /\ p.taken = taken[cur] /\ p.fin = fin[cur]
          /\ q.taken = p.taken + n /\ q.fin = (n = 0)
          /\ q.out = p.out /\ q.got = p.got /\ q.outFin = p.outFin /\ q.early = p.early
      BY <1>0, <2>2, <2>6 DEF Progress, Active
    <3>2. Flow(c, R, tx[Other(c)], p)
      BY <1>1, <2>6
    <3>3. Other(c) \in Ends /\ Other(c) # c
      BY TwoEnds
    <3> HIDE DEF p, q, R, P
    <3>4. Flow(c, RecvDone(RecvPrepared(R), Numbered(p.taken, n)), tx[Other(c)], q)
      BY <2>2, <2>3, <2>4, <2>5, <2>6, <3>1, <3>2, FlowReceived DEF P
    <3>5. Flow(c, Q, tx[Other(c)], q)
      BY <3>1, <3>4 DEF P
    <3>6. rx' = [rx EXCEPT ![c] = Q] /\ taken'[Other(c)] = taken[Other(c)]
          /\ fin'[Other(c)] = fin[Other(c)]
      BY <1>0, <2>2, <2>6, <3>3
    <3> QED BY <1>0, <3>5, <3>6, StreamsRecvSide DEF q
  <2>7. Receiving'
    <3>1. Numbered(taken[cur], n) \in Seq(Byte) /\ Len(Numbered(taken[cur], n)) = n
      BY <1>0, <2>5, NumberedType
    <3>2. Q.state = "DO_SYSCALL" /\ ~ActiveRange(Q).shutdown
      <4> HIDE DEF R
      <4> QED BY <1>1, <2>2, <2>3, <2>4, <3>1, RecvDoneSound
    <3>3. RecvPlace(Q, "syscall")
      BY <3>2 DEF RecvPlace, Steps, Swapping
    <3> QED BY <1>0, <2>2, <3>3 DEF Receiving
  <2> QED BY <1>0, <2>6, <2>7
<1>5. CASE RecvWouldBlock \/ RecvFails
  <2>1. /\ step = "syscall" /\ NotYetCalled(R) /\ UNCHANGED <<taken, fin>>
        /\ rx' = [rx EXCEPT ![cur] = RecvPrepared(R)] /\ pc' # "recv"
    BY <1>5 DEF RecvWouldBlock, RecvFails, RecvError
  <2>2. R.state = "DO_SYSCALL"
    BY <1>1, <2>1 DEF RecvPlace
  <2>3. RecvAlike(R, RecvPrepared(R))
    BY <1>1, <2>1, <2>2, RecvPreparedSound
  <2>4. Receiving'
    BY <2>1 DEF Receiving
  <2> QED BY <1>2, <2>1, <2>3, <2>4
<1>6. CASE RecvReturnsEof
  <2>1. /\ step = "syscall" /\ R.msgLen = 0 /\ UNCHANGED <<taken, fin>>
        /\ rx' = [rx EXCEPT ![cur] = Finished(R)] /\ pc' # "recv"
    BY <1>6 DEF RecvReturnsEof
  <2>2. R.state = "DO_SYSCALL"
    BY <1>1, <2>1 DEF RecvPlace
  <2>3. RecvAlike(R, Finished(R))
    BY <1>1, <2>1, <2>2, EofSound
  <2>4. Receiving'
    BY <2>1 DEF Receiving
  <2> QED BY <1>2, <2>1, <2>3, <2>4
<1> QED BY <1>3, <1>4, <1>5, <1>6

LEMMA MarkEofStreams ==
  ASSUME Control, Places, Streams, Ending, MarkEof
  PROVE  Streams'
<1> DEFINE R == rx[cur]
           Q == WithActive(R, [ActiveRange(R) EXCEPT !.shutdown = TRUE])
<1>0. /\ pc = "eof" /\ state # "SWAP_BUFFERS" /\ cur \in Ends /\ state' = state
      /\ UNCHANGED <<tx, context, out, outFin, early, taken>>
      /\ fin' = [fin EXCEPT ![cur] = TRUE] /\ fin = [e \in Ends |-> fin[e]]
      /\ rx' = [rx EXCEPT ![cur] = Q] /\ rx = [e \in Ends |-> rx[e]]
  BY DEF MarkEof, Places, Handling, Control, history
<1>1. /\ Quiet(R) /\ Other(cur) \in Ends
      /\ Flow(cur, R, tx[Other(cur)], Progress(cur, Active(cur)))
  BY <1>0, StreamsAt, TwoEnds DEF Ending, Quiet
<1>2. ASSUME NEW c \in Ends, c = cur PROVE Streams'
  <2> DEFINE p == Progress(c, Active(c))
             q == Progress(c, Active(c))'
  <2>1. /\ q.fin /\ q.taken = p.taken /\ q.out = p.out /\ q.got = p.got
        /\ q.outFin = p.outFin /\ q.early = p.early
    BY <1>0, <1>2 DEF Progress, Active
  <2>2. Flow(c, R, tx[Other(c)], p)
    BY <1>1, <1>2
  <2> HIDE DEF p, q, R
  <2>3. Flow(c, WithActive(R, [ActiveRange(R) EXCEPT !.shutdown = TRUE]), tx[Other(c)], q)
    BY <1>1, <2>1, <2>2, FlowMarked
  <2>4. /\ rx' = [rx EXCEPT ![c] = Q] /\ taken'[Other(c)] = taken[Other(c)]
        /\ fin'[Other(c)] = fin[Other(c)]
    BY <1>0, <1>2, TwoEnds
  <2> QED BY <1>0, <2>3, <2>4, StreamsRecvSide DEF q
<1> QED BY <1>0, <1>2

LEMMA CopyStreams ==
  ASSUME Control, Places, Streams, CopyActiveRanges, ~overlap'
  PROVE  Streams' /\ Settling'
<1>0. /\ pc = "copy" /\ pc' = "transform" /\ state # "SWAP_BUFFERS" /\ state' = state
      /\ rx' = [e \in Ends |-> Synced(rx[e])] /\ tx' = [e \in Ends |-> Synced(tx[e])]
      /\ UNCHANGED <<context, out, outFin, early, taken, fin>>
      /\ \A e \in Ends : ~Unfinished(e)
  BY DEF CopyActiveRanges, Places, Handling, kernel
<1>1. ASSUME NEW e \in Ends
      PROVE  /\ RecvSound(rx[e]) /\ SendSound(tx[e]) /\ tx[e].state # "SWAP" /\ ~Called(rx[e])
  BY <1>0, <1>1, StreamsAt DEF Unfinished, Called
<1>2. ASSUME NEW e \in Ends
      PROVE  /\ RecvAlike(rx[e], rx'[e]) /\ SendAlike(tx[e], tx'[e])
             /\ rx'[e].state = rx[e].state /\ rx'[e].msgLen = rx[e].msgLen
             /\ tx'[e].state = tx[e].state
             /\ InactiveRange(rx'[e]) = ActiveRange(rx'[e])
             /\ InactiveRange(tx'[e]) = ActiveRange(tx'[e])
  BY <1>0, <1>1, SyncedSound
<1>3. ASSUME NEW s \in Ends
      PROVE  Flow(s, rx'[s], tx'[Other(s)], Progress(s, Active(s))')
  <2>1. Progress(s, Active(s))' = Progress(s, Active(s))
    BY <1>0 DEF Progress, Active
  <2>2. Flow(s, rx[s], tx[Other(s)], Progress(s, Active(s))) /\ Other(s) \in Ends
    BY <1>0, StreamsAt, TwoEnds
  <2> QED BY <1>2, <2>1, <2>2, FlowAlike
<1>4. out' = [e \in Ends |-> out'[e]]
  BY <1>0 DEF Streams
<1>5. Streams'
  BY <1>0, <1>3, <1>4, StreamsFrom
<1>6. \A e \in Ends : ~Unfinished(e)'
  BY <1>0, <1>2 DEF Unfinished, NotYetCalled
<1> QED BY <1>0, <1>2, <1>5, <1>6 DEF Settling

LEMMA TransformCarries ==
  ASSUME Control, Places, Streams, Settling, NEW result \in ParseResults, Transform(result),
         NEW s \in Ends
  PROVE  /\ Carried(s, rx[s], tx[Other(s)], Progress(s, context.got[1 - context.active][s])',
                    [rx |-> rx'[s], tx |-> tx'[Other(s)]])
         /\ tx[Other(s)].state # "SWAP"
         /\ Active(s)' = Active(s)
         /\ pc = "transform" /\ pc' = "check" /\ state # "SWAP_BUFFERS" /\ state' = state
         /\ UNCHANGED <<out, outFin, early, taken, fin>>
         /\ rx' = [e \in Ends |-> rx'[e]] /\ tx' = [e \in Ends |-> tx'[e]]
<1> DEFINE Got(e) == Active(e)
           X(e) == Transformed(e, rx[e], tx[Other(e)], Got(e), result[e])
<1>0. /\ pc = "transform" /\ pc' = "check" /\ state # "SWAP_BUFFERS" /\ state' = state
      /\ UNCHANGED <<out, outFin, early, taken, fin>>
      /\ \A e \in Ends : IF Got(e) THEN result[e] = "verbatim" ELSE Parsed(e, result[e])
      /\ context' = [context EXCEPT !.got[1 - context.active] =
                       [e \in Ends |-> Got(e) \/ result[e] # "incomplete"]]
  BY DEF Transform, Places, Handling, kernel, history, Active
<1>1. ASSUME NEW e \in Ends
      PROVE  /\ Direction(e, Got(e), result[e]) = X(e)
             /\ rx'[e] = X(e).rx /\ tx'[e] = X(Other(e)).tx
  <2>1. \A f \in Ends : Direction(f, Got(f), result[f]) = X(f)
    BY DEF Direction, Transformed
  <2>2. /\ rx'[e] = Direction(e, Got(e), result[e]).rx
        /\ tx'[e] = Direction(Other(e), Got(Other(e)), result[Other(e)]).tx
    BY TwoEnds DEF Transform, Active
  <2> HIDE DEF X, Got
  <2> QED BY <2>1, <2>2, TwoEnds
<1>2. /\ rx' = [e \in Ends |-> rx'[e]] /\ tx' = [e \in Ends |-> tx'[e]]
  BY DEF Transform
<1>3. /\ context'.active = context.active /\ context.active \in 0 .. 1
      /\ \A e \in Ends : /\ Active(e)' = Got(e) /\ Got(e) \in BOOLEAN
                         /\ context'.got[1 - context'.active][e] = (Got(e) \/ result[e] # "incomplete")
  <2>1. context.active \in 0 .. 1 /\ 1 - context.active \in 0 .. 1 /\ 1 - context.active # context.active
    BY SMT DEF Control
  <2>2. context \in [active : 0 .. 1, got : [0 .. 1 -> [Ends -> BOOLEAN]]]
    BY DEF Control
  <2> DEFINE g == [e \in Ends |-> Got(e) \/ result[e] # "incomplete"]
             h == [context.got EXCEPT ![1 - context.active] = g]
  <2>3. context' = [context EXCEPT !.got = h]
    BY <1>0, <2>2
  <2>4. h[context.active] = context.got[context.active] /\ h[1 - context.active] = g
    BY <2>1, <2>2
  <2>5. \A e \in Ends : g[e] = (Got(e) \/ result[e] # "incomplete")
    OBVIOUS
  <2>6. \A e \in Ends : Got(e) \in BOOLEAN
    BY <2>1, <2>2 DEF Active
  <2> HIDE DEF g, h
  <2>7. context'.active = context.active /\ context'.got = h
    BY <2>2, <2>3
  <2>8. \A e \in Ends : Active(e)' = Got(e)
    BY <2>4, <2>7 DEF Active
  <2> HIDE DEF Got
  <2> QED BY <2>1, <2>4, <2>5, <2>6, <2>7, <2>8
<1>4. /\ Carried(s, rx[s], tx[Other(s)], Progress(s, context.got[1 - context.active][s])',
              [rx |-> rx'[s], tx |-> tx'[Other(s)]])
      /\ tx[Other(s)].state # "SWAP"
  <2> DEFINE R == rx[s]
             T == tx[Other(s)]
             c == Progress(s, Got(s))
             d == Progress(s, context.got[1 - context.active][s])'
  <2>1. Other(s) \in Ends /\ Flow(s, R, T, c)
    BY <1>0, StreamsAt, TwoEnds
  <2>2. ~Called(R) /\ T.state # "SWAP" /\ InactiveRange(R) = ActiveRange(R)
        /\ InactiveRange(T) = ActiveRange(T)
    BY <1>0, <2>1 DEF Settling, Unfinished, Called
  <2>3. c.got = Got(s) /\ c.got \in BOOLEAN /\ c.taken \in Nat /\ c.taken <= Total[s]
    BY <1>3 DEF Progress, Control
  <2>4. /\ d.got = (c.got \/ result[s] # "incomplete") /\ d.out = c.out /\ d.taken = c.taken
        /\ d.fin = c.fin /\ d.outFin = c.outFin /\ d.early = c.early
    BY <1>0, <1>3 DEF Progress
  <2>5. /\ ~c.got /\ result[s] = "rewritten" => HeaderLen[s] <= InactiveRange(R).len
        /\ ~c.got /\ result[s] = "incomplete" => ~InactiveRange(R).shutdown
    <3>1. InactiveRange(R).len \in Nat /\ HeaderLen[s] \in Nat
      <4>1. InactiveRange(R) \in Ranges
        BY <2>1, <2>2, RecvFields DEF Flow
      <4> QED BY <4>1, BufSizeAssumption, TotalsAssumption DEF Ranges
    <3>2. CASE c.got
      BY <3>2
    <3>3. CASE ~c.got
      <4>1. Parsed(s, result[s])
        BY <1>0, <2>3, <3>3
      <4>2. result[s] = "rewritten" => InactiveRange(rx[s]).len >= HeaderLen[s]
        BY <4>1 DEF Parsed
      <4>3. result[s] = "incomplete" => ~InactiveRange(rx[s]).shutdown
        BY <4>1 DEF Parsed
      <4>4. \A a, b \in Nat : a >= b => b <= a
        BY SMT
      <4> HIDE DEF c
      <4> QED BY <3>1, <4>2, <4>3, <4>4
    <3> QED BY <3>2, <3>3
  <2>6. X(s) = Transformed(s, R, T, c.got, result[s])
    BY <2>3
  <2> HIDE DEF c, d, R, T, X
  <2>7. Carried(s, R, T, d, X(s))
    BY <2>1, <2>2, <2>3, <2>4, <2>5, <2>6, FlowTransformed
  <2>8. X(s).rx = rx'[s] /\ X(s).tx = tx'[Other(s)] /\ Other(Other(s)) = s
    BY <1>1, <2>1, TwoEnds
  <2>9. Carried(s, R, T, d, [rx |-> rx'[s], tx |-> tx'[Other(s)]])
    BY <2>7, <2>8, Zenon DEF Carried
  <2> QED BY <2>2, <2>9 DEF R, T, d
<1> HIDE DEF X
<1> QED BY <1>0, <1>2, <1>3, <1>4

LEMMA TransformStreams ==
  ASSUME Control, Places, Streams, Settling, NEW result \in ParseResults, Transform(result)
  PROVE  Streams' /\ Settling'
<1>0. /\ pc' = "check" /\ state # "SWAP_BUFFERS" /\ state' = state
      /\ UNCHANGED <<out, outFin, early, taken, fin>>
      /\ rx' = [e \in Ends |-> rx'[e]] /\ tx' = [e \in Ends |-> tx'[e]]
      /\ \A s \in Ends : Active(s)' = Active(s)
  <2>1. "down" \in Ends
    BY DEF Ends
  <2> QED BY <2>1, TransformCarries
<1>1. out' = [e \in Ends |-> out'[e]]
  BY <1>0 DEF Streams
<1>4. ASSUME NEW s \in Ends
      PROVE  LET R == rx[s]
                 T == tx[Other(s)]
                 Q == rx'[s]
                 U == tx'[Other(s)]
             IN /\ RecvAlike(R, Q) /\ SendAlike(T, U) /\ ~Called(Q) /\ U.state = T.state
                /\ Flow(s, Flipped(Q), Flipped(U), Progress(s, context.got[1 - context.active][s])')
                /\ ActiveRange(Q) = ActiveRange(R) /\ ActiveRange(U) = ActiveRange(T)
                /\ InactiveRange(U).shutdown /\ InactiveRange(U).len = 0 => InactiveRange(Q).len = 0
                /\ ActiveRange(T).shutdown => InactiveRange(U).shutdown
                /\ ActiveRange(T).len <= InactiveRange(U).len
                /\ InactiveRange(Q).len <= ActiveRange(R).len
                /\ InactiveRange(Q).shutdown => ActiveRange(R).shutdown
                /\ T.state # "SWAP"
  BY TransformCarries DEF Carried
<1>5. ASSUME NEW s \in Ends
      PROVE  Flow(s, rx'[s], tx'[Other(s)], Progress(s, Active(s))')
  <2>1. Progress(s, Active(s))' = Progress(s, Active(s))
    BY <1>0 DEF Progress
  <2>2. Flow(s, rx[s], tx[Other(s)], Progress(s, Active(s)))
    BY <1>0, StreamsAt
  <2> QED BY <1>4, <2>1, <2>2, FlowAlike
<1>6. Streams'
  BY <1>0, <1>1, <1>5, StreamsFrom
<1>7. ASSUME NEW e \in Ends PROVE ~Unfinished(e)'
  <2>1. Other(e) \in Ends /\ Other(Other(e)) = e
    BY TwoEnds
  <2>3. ~Called(rx'[e]) /\ tx'[e].state # "SWAP"
    BY <1>4, <2>1
  <2> QED BY <2>3 DEF Unfinished, Called
<1>8. ASSUME NEW s \in Ends
      PROVE  /\ DirectionOk(s, Flipped(rx[s]), Flipped(tx[Other(s)]),
                             context.got[1 - context.active][s])'
             /\ AllMoved(s, Flipped(rx[s]), Flipped(tx[Other(s)]))'
             /\ Grown(s)'
  <2>0. Other(s) \in Ends /\ Other(Other(s)) = s
    BY TwoEnds
  <2>2. /\ rx'[s] \in AtomicBuffers(Byte) /\ tx'[s] \in AtomicBuffers(Byte)
        /\ tx'[Other(s)] \in AtomicBuffers(Byte)
    BY <1>4, <2>0 DEF RecvAlike, SendAlike, RecvSound, SendSound
  <2>3. DirectionOk(s, Flipped(rx[s]), Flipped(tx[Other(s)]),
                    context.got[1 - context.active][s])'
    BY <1>4 DEF DirectionOk
  <2>4. ActiveRange(Flipped(rx'[s])) = InactiveRange(rx'[s])
        /\ ActiveRange(Flipped(tx'[Other(s)])) = InactiveRange(tx'[Other(s)])
    BY <2>2, FlipStore
  <2>5. AllMoved(s, Flipped(rx[s]), Flipped(tx[Other(s)]))'
    BY <1>4, <2>4 DEF AllMoved
  <2>6. Grown(s)'
    BY <1>4, <2>0 DEF Grown
  <2> QED BY <2>3, <2>5, <2>6
<1> QED BY <1>0, <1>6, <1>7, <1>8 DEF Settling

LEMMA StopStreams ==
  ASSUME Control, Places, Streams, StartClosing \/ GiveUp
  PROVE  Streams'
<1>0. /\ pc \in Handling /\ state # "SWAP_BUFFERS" /\ state' # "SWAP_BUFFERS"
      /\ UNCHANGED <<rx, tx, context, out, outFin, early, taken, fin>>
  BY DEF StartClosing, GiveUp, Places, Handling, kernel, history
<1>1. ASSUME NEW s \in Ends
      PROVE  Flow(s, rx'[s], tx'[Other(s)], Progress(s, Active(s))')
  <2>1. Progress(s, Active(s))' = Progress(s, Active(s))
    BY <1>0 DEF Progress, Active
  <2> QED BY <1>0, <2>1, StreamsAt
<1>2. /\ rx' = [e \in Ends |-> rx'[e]] /\ tx' = [e \in Ends |-> tx'[e]]
      /\ out' = [e \in Ends |-> out'[e]]
  BY <1>0 DEF Control, Streams
<1> QED BY <1>0, <1>1, <1>2, StreamsFrom

LEMMA StartSwapStreams ==
  ASSUME Control, Streams, Settling, StartSwap
  PROVE  Streams' /\ Settling'
<1>0. /\ pc = "check" /\ pc' = "swap" /\ state' = "SWAP_BUFFERS"
      /\ encoded'.rx = [e \in Ends |-> 1 - rx[e].active]
      /\ encoded'.tx = [e \in Ends |-> 1 - tx[e].active]
      /\ encoded'.context = 1 - context.active
      /\ UNCHANGED <<rx, tx, context, out, outFin, early, taken, fin>>
  BY DEF StartSwap, kernel, history
<1>1. \A e \in Ends : Other(e) \in Ends
  BY TwoEnds
<1>2. ASSUME NEW e \in Ends
      PROVE  ViewRx(e)' = Flipped(rx[e]) /\ ViewTx(e)' = Flipped(tx[e])
  BY <1>0 DEF ViewRx, ViewTx, Flipped
<1>3. ASSUME NEW s \in Ends
      PROVE  DirectionOk(s, ViewRx(s), ViewTx(Other(s)), ViewGot(s))'
  <2>1. Flow(s, Flipped(rx[s]), Flipped(tx[Other(s)]),
             Progress(s, context.got[1 - context.active][s]))
    BY <1>0 DEF Settling, DirectionOk
  <2>2. Progress(s, ViewGot(s))' = Progress(s, context.got[1 - context.active][s])
    BY <1>0 DEF Progress, ViewGot
  <2> QED BY <1>1, <1>2, <2>1, <2>2 DEF DirectionOk
<1>4. Streams'
  BY <1>0, <1>3 DEF Streams
<1>5. ASSUME NEW s \in Ends
      PROVE  AllMoved(s, ViewRx(s), ViewTx(Other(s)))' /\ ~Unfinished(s)'
  <2>1. AllMoved(s, Flipped(rx[s]), Flipped(tx[Other(s)])) /\ ~Unfinished(s)
    BY <1>0 DEF Settling
  <2> QED BY <1>0, <1>1, <1>2, <2>1 DEF AllMoved, Unfinished
<1> QED BY <1>0, <1>4, <1>5 DEF Settling

LEMMA SwapViews ==
  ASSUME Control, Places, Streams, SwapStore
  PROVE  /\ rx' \in [Ends -> AtomicBuffers(Byte)] /\ tx' \in [Ends -> AtomicBuffers(Byte)]
         /\ \A e \in Ends :
              /\ ViewRx(e)' = ViewRx(e) /\ ViewTx(e)' = ViewTx(e) /\ ViewGot(e)' = ViewGot(e)
              /\ rx'[e].state = rx[e].state /\ rx'[e].msgLen = rx[e].msgLen
              /\ tx'[e].state = tx[e].state
              /\ tx'[e] = tx[e] \/ tx'[e] = ViewTx(e)
<1>0. /\ pc = "swap" /\ pc' = "swap" /\ state = "SWAP_BUFFERS" /\ state' = state
      /\ UNCHANGED <<encoded, out, outFin, early, taken, fin>>
      /\ \A e \in Ends : encoded.rx[e] \in 0 .. 1 /\ encoded.tx[e] \in 0 .. 1
      /\ rx \in [Ends -> AtomicBuffers(Byte)] /\ tx \in [Ends -> AtomicBuffers(Byte)]
  BY DEF SwapStore, SwapContext, SwapRx, SwapTx, InSwap, kernel, history, Places, Control, Streams
<1>1. \A b \in AtomicBuffers(Byte) : \A k \in 0 .. 1 :
        /\ [b EXCEPT !.active = k] \in AtomicBuffers(Byte)
        /\ [[b EXCEPT !.active = k] EXCEPT !.active = k] = [b EXCEPT !.active = k]
        /\ [b EXCEPT !.active = k].state = b.state /\ [b EXCEPT !.active = k].msgLen = b.msgLen
  <2>1. \A b \in AtomicBuffers(Byte) : \A k \in 0 .. 1 : [b EXCEPT !.active = k] \in AtomicBuffers(Byte)
    BY DEF AtomicBuffers
  <2> QED BY <2>1 DEF AtomicBuffers
<1> DEFINE Moves ==
      /\ rx' \in [Ends -> AtomicBuffers(Byte)] /\ tx' \in [Ends -> AtomicBuffers(Byte)]
      /\ \A e \in Ends : /\ rx'[e] = rx[e] \/ rx'[e] = [rx[e] EXCEPT !.active = encoded.rx[e]]
                         /\ tx'[e] = tx[e] \/ tx'[e] = [tx[e] EXCEPT !.active = encoded.tx[e]]
      /\ \A e \in Ends : context'.got[encoded.context][e] = context.got[encoded.context][e]
<1>2. Moves
  <2>1. CASE SwapContext
    <3>1. context'.got = context.got
      BY <2>1 DEF SwapContext, Control
    <3> QED BY <1>0, <2>1, <3>1 DEF SwapContext
  <2>2. ASSUME NEW e \in Ends, SwapRx(e) PROVE Moves
    <3>1. rx' = [rx EXCEPT ![e] = [rx[e] EXCEPT !.active = encoded.rx[e]]]
      BY <1>0, <2>2 DEF SwapRx
    <3>2. [rx[e] EXCEPT !.active = encoded.rx[e]] \in AtomicBuffers(Byte)
      BY <1>0, <1>1
    <3> QED BY <1>0, <2>2, <3>1, <3>2 DEF SwapRx
  <2>3. ASSUME NEW e \in Ends, SwapTx(e) PROVE Moves
    <3>1. tx' = [tx EXCEPT ![e] = [tx[e] EXCEPT !.active = encoded.tx[e]]]
      BY <1>0, <2>3 DEF SwapTx
    <3>2. [tx[e] EXCEPT !.active = encoded.tx[e]] \in AtomicBuffers(Byte)
      BY <1>0, <1>1
    <3> QED BY <1>0, <2>3, <3>1, <3>2 DEF SwapTx
  <2> QED BY <2>1, <2>2, <2>3 DEF SwapStore
<1>3. ASSUME NEW e \in Ends
      PROVE  /\ ViewRx(e)' = ViewRx(e) /\ ViewTx(e)' = ViewTx(e) /\ ViewGot(e)' = ViewGot(e)
             /\ rx'[e].state = rx[e].state /\ rx'[e].msgLen = rx[e].msgLen
             /\ tx'[e].state = tx[e].state
  <2>1. /\ [rx'[e] EXCEPT !.active = encoded.rx[e]] = [rx[e] EXCEPT !.active = encoded.rx[e]]
        /\ [tx'[e] EXCEPT !.active = encoded.tx[e]] = [tx[e] EXCEPT !.active = encoded.tx[e]]
        /\ rx'[e].state = rx[e].state /\ rx'[e].msgLen = rx[e].msgLen
        /\ tx'[e].state = tx[e].state
    <3> DEFINE Same(b, k, c) == /\ [c EXCEPT !.active = k] = [b EXCEPT !.active = k]
                                /\ c.state = b.state /\ c.msgLen = b.msgLen
    <3>1. \A b \in AtomicBuffers(Byte) : \A k \in 0 .. 1 : Same(b, k, [b EXCEPT !.active = k])
      BY <1>1
    <3>2. Same(rx[e], encoded.rx[e], [rx[e] EXCEPT !.active = encoded.rx[e]])
      BY <1>0, <3>1
    <3>3. Same(tx[e], encoded.tx[e], [tx[e] EXCEPT !.active = encoded.tx[e]])
      BY <1>0, <3>1
    <3>4. Same(rx[e], encoded.rx[e], rx[e]) /\ Same(tx[e], encoded.tx[e], tx[e])
      OBVIOUS
    <3> HIDE DEF Same
    <3>5. Same(rx[e], encoded.rx[e], rx'[e]) /\ Same(tx[e], encoded.tx[e], tx'[e])
      BY <1>2, <3>2, <3>3, <3>4
    <3> QED BY <3>5 DEF Same
  <2> QED BY <1>0, <1>2, <2>1 DEF ViewRx, ViewTx, ViewGot
<1>4. \A e \in Ends : tx'[e] = tx[e] \/ tx'[e] = ViewTx(e)
  BY <1>0, <1>2 DEF ViewTx
<1> QED BY <1>2, <1>3, <1>4

LEMMA SwapStreams ==
  ASSUME Control, Places, Streams, Settling, SwapStore
  PROVE  Streams' /\ Settling'
<1>0. /\ pc = "swap" /\ pc' = "swap" /\ state = "SWAP_BUFFERS" /\ state' = state
      /\ UNCHANGED <<encoded, out, outFin, early, taken, fin>>
  BY DEF SwapStore, SwapContext, SwapRx, SwapTx, InSwap, kernel, history, Places
<1>3. ASSUME NEW e \in Ends
      PROVE  /\ ViewRx(e)' = ViewRx(e) /\ ViewTx(e)' = ViewTx(e) /\ ViewGot(e)' = ViewGot(e)
             /\ rx'[e].state = rx[e].state /\ rx'[e].msgLen = rx[e].msgLen
             /\ tx'[e].state = tx[e].state
             /\ tx'[e] = tx[e] \/ tx'[e] = ViewTx(e)
  BY SwapViews
<1>4. \A e \in Ends : Other(e) \in Ends
  BY TwoEnds
<1>5. ASSUME NEW s \in Ends
      PROVE  DirectionOk(s, ViewRx(s), ViewTx(Other(s)), ViewGot(s))'
  <2>1. Flow(s, ViewRx(s), ViewTx(Other(s)), Progress(s, ViewGot(s)))
    BY DEF Streams, DirectionOk
  <2>2. Progress(s, ViewGot(s))' = Progress(s, ViewGot(s))
    BY <1>0, <1>3 DEF Progress
  <2> QED BY <1>3, <1>4, <2>1, <2>2 DEF DirectionOk
<1>6. Streams'
  BY <1>0, <1>5, SwapViews DEF Streams
<1>7. ASSUME NEW s \in Ends
      PROVE  AllMoved(s, ViewRx(s), ViewTx(Other(s)))' /\ ~Unfinished(s)'
  <2>1. AllMoved(s, ViewRx(s), ViewTx(Other(s))) /\ ~Unfinished(s)
    BY <1>0 DEF Settling
  <2>2. ~Unfinished(s)'
    BY <1>3, <2>1 DEF Unfinished, NotYetCalled
  <2>3. tx'[Other(s)] = tx[Other(s)] \/ tx'[Other(s)] = ViewTx(Other(s))
    BY <1>3, <1>4
  <2> QED BY <1>3, <1>4, <2>1, <2>2, <2>3 DEF AllMoved
<1> QED BY <1>0, <1>6, <1>7 DEF Settling

(* Once everything is swapped, the views are the buffers. *)
LEMMA SwappedViews ==
  ASSUME Control, Streams, state = "SWAP_BUFFERS", context.active = encoded.context,
         \A e \in Ends : Swapped(e), NEW s \in Ends
  PROVE  ViewRx(s) = rx[s] /\ ViewTx(s) = tx[s] /\ ViewGot(s) = Active(s)
<1>1. \A b \in AtomicBuffers(Byte) : [b EXCEPT !.active = b.active] = b
  BY DEF AtomicBuffers
<1>2. rx[s] \in AtomicBuffers(Byte) /\ tx[s] \in AtomicBuffers(Byte)
  BY DEF Streams
<1>3. encoded.rx[s] = rx[s].active /\ encoded.tx[s] = tx[s].active
  BY DEF Swapped, SwappedRx, SwappedTx
<1> QED BY <1>1, <1>2, <1>3 DEF ViewRx, ViewTx, ViewGot, Active

LEMMA SwapDoneStreams ==
  ASSUME Control, Places, Streams, Settling, SwapDone
  PROVE  Streams'
<1>0. /\ pc = "poll" /\ state = "SWAP_BUFFERS" /\ state' # "SWAP_BUFFERS"
      /\ context.active = encoded.context /\ \A e \in Ends : Swapped(e) /\ ~Unfinished(e)
      /\ rx' = [e \in Ends |-> Settled(rx[e])] /\ tx' = [e \in Ends |-> Settled(tx[e])]
      /\ UNCHANGED <<context, out, outFin, early, taken, fin>>
  BY DEF SwapDone, kernel, history, Places, Settling
<1>1. \A e \in Ends : Other(e) \in Ends
  BY TwoEnds
<1>2. ASSUME NEW s \in Ends
      PROVE  Flow(s, rx'[s], tx'[Other(s)], Progress(s, Active(s))')
  <2>1. Flow(s, rx[s], tx[Other(s)], Progress(s, Active(s)))
    BY <1>0, <1>1, SwappedViews DEF Streams, DirectionOk
  <2>2. ~Called(rx[s]) /\ tx[Other(s)].state # "SWAP"
    BY <1>0, <1>1 DEF Unfinished, Called
  <2>3. RecvAlike(rx[s], rx'[s]) /\ SendAlike(tx[Other(s)], tx'[Other(s)])
    BY <1>0, <1>1, <2>1, <2>2, SettledSound DEF Flow
  <2>4. Progress(s, Active(s))' = Progress(s, Active(s))
    BY <1>0 DEF Progress, Active
  <2> QED BY <2>1, <2>3, <2>4, FlowAlike
<1>3. out' = [e \in Ends |-> out'[e]]
  BY <1>0 DEF Streams
<1> QED BY <1>0, <1>2, <1>3, StreamsFrom

LEMMA EpollStreams ==
  ASSUME Control, Places, Streams, Settling, SwapEpoll \/ Recover
  PROVE  Streams'
<1>0. /\ state' = state /\ UNCHANGED <<encoded, rx, tx, context, out, taken, fin>>
      /\ \A e \in Ends : outFin'[e] = (outFin[e] \/ Drained(e)) /\ (early[e] => early'[e])
      /\ \A e \in Ends : Other(e) \in Ends /\ Other(Other(e)) = e
  BY TwoEnds, ZenonT(30) DEF SwapEpoll, Recover, EpollFromBuffers, shared, history
<1>1. ASSUME NEW s \in Ends
      PROVE  /\ ViewRx(s)' = ViewRx(s) /\ ViewTx(s)' = ViewTx(s) /\ ViewGot(s)' = ViewGot(s)
  BY <1>0 DEF ViewRx, ViewTx, ViewGot
<1>2. ASSUME NEW s \in Ends, Drained(Other(s))
      PROVE  /\ ActiveRange(ViewTx(Other(s))).shutdown
             /\ \/ early'[Other(s)]
                \/ ActiveRange(ViewTx(Other(s))).len = 0 /\ ActiveRange(ViewRx(s)).len = 0
  <2>1. ActiveRange(tx[Other(s)]).len = 0 /\ ActiveRange(tx[Other(s)]).shutdown
    BY <1>2 DEF Drained
  <2>2. CASE SwapEpoll
    <3>1. /\ state = "SWAP_BUFFERS" /\ ViewTx(Other(s)) = tx[Other(s)] /\ ViewRx(s) = rx[s]
      BY <1>0, <2>2, SwappedViews DEF SwapEpoll, Places
    <3>2. AllMoved(s, ViewRx(s), ViewTx(Other(s)))
      BY <3>1 DEF Settling
    <3> QED BY <2>1, <3>1, <3>2 DEF AllMoved
  <2>3. CASE Recover
    <3>1. early'[Other(s)] = (early[Other(s)] \/ (Drained(Other(s)) /\ Held(Other(s))))
      BY <1>0, <2>3 DEF Recover
    <3>2. \A b \in AtomicBuffers(Byte) : \A k \in 0 .. 1 :
            /\ ActiveRange([b EXCEPT !.active = k]) = b.range[k]
            /\ b.range[k].len \in Nat /\ ActiveRange(b).len \in Nat
      BY BufferFields, BufSizeAssumption DEF ActiveRange, Ranges, AtomicBuffers
    <3>3. \A n \in Nat : n > 0 \/ n = 0
      BY SMT
    <3>4. /\ rx[s] \in AtomicBuffers(Byte) /\ tx[Other(s)] \in AtomicBuffers(Byte)
          /\ encoded.rx[s] \in 0 .. 1 /\ encoded.tx[Other(s)] \in 0 .. 1
          /\ Other(Other(s)) = s
      BY <1>0 DEF Streams, Control
    <3>5. CASE state = "SWAP_BUFFERS"
      <4>1. /\ ViewTx(Other(s)) = [tx[Other(s)] EXCEPT !.active = encoded.tx[Other(s)]]
            /\ ViewRx(s) = [rx[s] EXCEPT !.active = encoded.rx[s]]
        BY <3>5 DEF ViewTx, ViewRx
      <4>2. AllMoved(s, ViewRx(s), ViewTx(Other(s)))
        BY <3>5 DEF Settling
      <4>3. ActiveRange(ViewTx(Other(s))).shutdown
        BY <2>1, <4>2 DEF AllMoved
      <4>4. ~Held(Other(s)) => /\ ActiveRange(ViewTx(Other(s))).len = 0
                               /\ ActiveRange(ViewRx(s)).len = 0
        <5> DEFINE m == tx[Other(s)].range[encoded.tx[Other(s)]].len
                   n == rx[s].range[encoded.rx[s]].len
        <5>1. /\ ActiveRange(ViewTx(Other(s))).len = m /\ m \in Nat
              /\ ActiveRange(ViewRx(s)).len = n /\ n \in Nat
          <6>1. /\ ActiveRange([tx[Other(s)] EXCEPT !.active = encoded.tx[Other(s)]])
                     = tx[Other(s)].range[encoded.tx[Other(s)]]
                /\ m \in Nat
            BY <3>2, <3>4
          <6>2. /\ ActiveRange([rx[s] EXCEPT !.active = encoded.rx[s]]) = rx[s].range[encoded.rx[s]]
                /\ n \in Nat
            BY <3>2, <3>4
          <6> QED BY <4>1, <6>1, <6>2
        <5>2. Held(Other(s)) <=> n > 0 \/ m > 0
          BY <3>4, <3>5 DEF Held
        <5> HIDE DEF m, n
        <5> QED BY <3>3, <5>1, <5>2
      <4> QED BY <1>2, <3>1, <4>3, <4>4
    <3>6. CASE state # "SWAP_BUFFERS"
      <4>1. ViewTx(Other(s)) = tx[Other(s)] /\ ViewRx(s) = rx[s]
        BY <3>6 DEF ViewTx, ViewRx
      <4>2. ~Held(Other(s)) => ActiveRange(rx[s]).len = 0
        BY <3>2, <3>3, <3>4, <3>6 DEF Held
      <4> QED BY <1>2, <2>1, <3>1, <4>1, <4>2
    <3> QED BY <3>5, <3>6
  <2> QED BY <2>2, <2>3
<1>3. ASSUME NEW s \in Ends
      PROVE  DirectionOk(s, ViewRx(s), ViewTx(Other(s)), ViewGot(s))'
  <2> DEFINE c == Progress(s, ViewGot(s))
             d == Progress(s, ViewGot(s))'
  <2>1. Flow(s, ViewRx(s), ViewTx(Other(s)), c) /\ Other(s) \in Ends
    BY <1>0 DEF Streams, DirectionOk
  <2>2. /\ d.got = c.got /\ d.out = c.out /\ d.taken = c.taken /\ d.fin = c.fin
        /\ d.outFin = (c.outFin \/ Drained(Other(s))) /\ (c.early => d.early)
        /\ d.early = early'[Other(s)]
    BY <1>0, <1>1, <2>1 DEF Progress
  <2> HIDE DEF c, d
  <2>3. Flow(s, ViewRx(s), ViewTx(Other(s)), d)
    BY <1>2, <2>1, <2>2, FlowShutWr
  <2> QED BY <1>1, <2>1, <2>3 DEF DirectionOk, d
<1> QED BY <1>0, <1>3 DEF Streams

-------------------------------------------------------------------------------
(* Which steps lead to a place, and which ones change what the kernel and  *)
(* the history remember.                                                   *)
Stays == UNCHANGED <<shared, taken, fin, out, outFin, early, pc, step, cur>>

LEMMA Origins ==
  ASSUME Control, Places, [Next]_vars
  PROVE  /\ \/ UNCHANGED <<taken, reset, errno, fin, out, overlap, early, crashes>>
            \/ Sends \/ SendFails \/ Receives \/ RecvFails \/ MarkEof \/ CopyActiveRanges
            \/ Recover \/ Crash \/ \E e \in MayReset : Reset(e)
         /\ pc' = "send" => SendOrNot \/ SendCall \/ SendStore \/ Sends \/ Stays
         /\ pc' = "recv" => ReceiveOrNot \/ RecvCall \/ RecvStore \/ Receives \/ Stays
         /\ pc' = "eof" => RecvReturnsEof \/ RecvFails \/ Stays
         /\ pc' = "transform" => CopyActiveRanges \/ Stays
         /\ pc' = "check" => (\E result \in ParseResults : Transform(result)) \/ Stays
         /\ pc' = "error" => SendFails \/ RecvFails \/ Stays
         /\ pc' = "dead" => Crash \/ Stays
         /\ state' = "SWAP_BUFFERS" =>
              \/ StartSwap \/ SwapStore
              \/ UNCHANGED shared /\ (pc' \notin {"transform", "check"} \/ Stays)
         /\ state' = "ERROR" => GiveUp \/ (state = "ERROR" /\ UNCHANGED shared)
         /\ state' = "CLOSING" =>
              \/ StartClosing
              \/ state = "CLOSING" /\ UNCHANGED <<shared, taken, fin, out>>
         /\ \/ UNCHANGED <<shared, taken, fin, out, outFin, early>>
            \/ SendStore \/ Sends \/ RecvStore \/ Receives \/ RecvWouldBlock \/ RecvFails
            \/ RecvReturnsEof \/ MarkEof \/ CopyActiveRanges
            \/ (\E result \in ParseResults : Transform(result))
            \/ StartClosing \/ GiveUp \/ StartSwap \/ SwapStore \/ SwapEpoll \/ SwapDone
            \/ Recover
<1> DEFINE P ==
         /\ \/ UNCHANGED <<taken, reset, errno, fin, out, overlap, early, crashes>>
            \/ Sends \/ SendFails \/ Receives \/ RecvFails \/ MarkEof \/ CopyActiveRanges
            \/ Recover \/ Crash \/ \E e \in MayReset : Reset(e)
         /\ pc' = "send" => SendOrNot \/ SendCall \/ SendStore \/ Sends \/ Stays
         /\ pc' = "recv" => ReceiveOrNot \/ RecvCall \/ RecvStore \/ Receives \/ Stays
         /\ pc' = "eof" => RecvReturnsEof \/ RecvFails \/ Stays
         /\ pc' = "transform" => CopyActiveRanges \/ Stays
         /\ pc' = "check" => (\E result \in ParseResults : Transform(result)) \/ Stays
         /\ pc' = "error" => SendFails \/ RecvFails \/ Stays
         /\ pc' = "dead" => Crash \/ Stays
         /\ state' = "SWAP_BUFFERS" =>
              \/ StartSwap \/ SwapStore
              \/ UNCHANGED shared /\ (pc' \notin {"transform", "check"} \/ Stays)
         /\ state' = "ERROR" => GiveUp \/ (state = "ERROR" /\ UNCHANGED shared)
         /\ state' = "CLOSING" =>
              \/ StartClosing
              \/ state = "CLOSING" /\ UNCHANGED <<shared, taken, fin, out>>
         /\ \/ UNCHANGED <<shared, taken, fin, out, outFin, early>>
            \/ SendStore \/ Sends \/ RecvStore \/ Receives \/ RecvWouldBlock \/ RecvFails
            \/ RecvReturnsEof \/ MarkEof \/ CopyActiveRanges
            \/ (\E result \in ParseResults : Transform(result))
            \/ StartClosing \/ GiveUp \/ StartSwap \/ SwapStore \/ SwapEpoll \/ SwapDone
            \/ Recover
<1> SUFFICES P
  OBVIOUS
<1>0. /\ pc \in Handling => state = "POLL"
      /\ pc = "close" => state \in {"CLOSING", "ERROR"}
      /\ pc \in {"swap", "poll"} => state = "SWAP_BUFFERS"
      /\ state = "CLOSING" => pc \in {"close", "batch", "closed", "exited", "dead"}
      /\ state = "ERROR" => pc \in {"close", "failed", "dead"}
  BY DEF Places
<1> USE <1>0 DEF Handling
<1>1. ASSUME NEW kinds \in [Ends -> SUBSET {"in", "out"}], EpollWait(kinds) PROVE P
  BY <1>1 DEF EpollWait, shared, kernel, history
<1>2. ASSUME NEW e \in Ends, Dispatch(e) PROVE P
  <2>1. pc' \in {"handle", "swap", "exited"}
    <3>1. pc = "batch" /\ state \in {"POLL", "SWAP_BUFFERS", "CLOSING", "ERROR"}
      BY <1>2 DEF Dispatch, Control
    <3>2. state \in {"POLL", "SWAP_BUFFERS", "CLOSING"}
      BY <3>1
    <3> QED BY <1>2, <3>2 DEF Dispatch
  <2> QED BY <1>2, <2>1 DEF Dispatch, shared, kernel, history
<1>3. CASE BatchDone
  BY <1>3 DEF BatchDone, shared, kernel, history
<1>4. CASE SendOrNot
  BY <1>4 DEF SendOrNot, shared, kernel, history
<1>5. CASE SendCall
  BY <1>5 DEF SendCall, InSend, shared, history
<1>6. CASE SendStore
  BY <1>6 DEF SendStore, InSend, history
<1>7. CASE Sends
  BY <1>7 DEF Sends, Sendmmsg, InSend, history
<1>8. CASE SendWouldBlock \/ SendLoopDone
  BY <1>8 DEF SendWouldBlock, SendLoopDone, InSend, shared, history
<1>9. CASE SendFails
  BY <1>9 DEF SendFails, InSend, shared, history
<1>10. CASE ReceiveOrNot
  BY <1>10 DEF ReceiveOrNot, shared, kernel, history
<1>11. CASE RecvCall
  BY <1>11 DEF RecvCall, InRecv, shared, history
<1>12. CASE RecvStore
  BY <1>12 DEF RecvStore, InRecv, history
<1>13. CASE Receives
  BY <1>13 DEF Receives, Recvmmsg, InRecv, history
<1>14. CASE RecvWouldBlock
  BY <1>14 DEF RecvWouldBlock, InRecv, history
<1>15. CASE RecvLoopDone
  BY <1>15 DEF RecvLoopDone, InRecv, shared, history
<1>16. CASE RecvFails
  BY <1>16 DEF RecvFails, RecvError, InRecv, history
<1>17. CASE RecvReturnsEof
  BY <1>17 DEF RecvReturnsEof, InRecv, history
<1>18. CASE MarkEof
  BY <1>18 DEF MarkEof, history
<1>19. CASE CopyActiveRanges
  BY <1>19 DEF CopyActiveRanges, kernel
<1>20. ASSUME NEW result \in ParseResults, Transform(result) PROVE P
  <2>1. /\ pc = "transform" /\ pc' = "check" /\ state' = state
        /\ UNCHANGED <<state, encoded, kernel, interest, step, cur, ev, batch, history>>
    BY <1>20 DEF Transform
  <2> QED BY <1>20, <2>1 DEF kernel, history
<1>21. CASE StartClosing \/ GiveUp
  BY <1>21 DEF StartClosing, GiveUp, kernel, history
<1>22. CASE Close
  BY <1>22 DEF Close, Fails, Returns, shared, kernel, history
<1>23. CASE StartSwap
  BY <1>23 DEF StartSwap, kernel, history
<1>24. CASE SwapStore
  BY <1>24 DEF SwapStore, SwapRx, SwapTx, SwapContext, InSwap, kernel, history
<1>25. CASE SwapEpoll
  BY <1>25 DEF SwapEpoll, EpollFromBuffers, shared, history
<1>26. CASE SwapDone
  BY <1>26 DEF SwapDone, Returns, kernel, history
<1>27. CASE Recover
  BY <1>27 DEF Recover, EpollFromBuffers, shared
<1>28. CASE Crash
  BY <1>28 DEF Crash, shared, kernel
<1>29. ASSUME NEW e \in MayReset, Reset(e) PROVE P
  BY <1>29 DEF Reset, shared, process, history, Stays
<1>30. CASE UNCHANGED vars
  BY <1>30 DEF vars, shared, kernel, process, history, Stays
<1> QED
  <2> HIDE DEF P
  <2>1. CASE \E result \in ParseResults : Transform(result)
    BY <1>20, <2>1
  <2>2. CASE Next
    BY <1>1, <1>2, <1>3, <1>4, <1>5, <1>6, <1>7, <1>8, <1>9, <1>10, <1>11, <1>12, <1>13,
       <1>14, <1>15, <1>16, <1>17, <1>18, <1>19, <1>21, <1>22, <1>23, <1>24, <1>25, <1>26,
       <1>27, <1>28, <1>29, <2>1, <2>2 DEF Next, Run
  <2> QED BY <1>30, <2>2

LEMMA StreamsStep ==
  ASSUME Control, Places, Streams, Sending, Receiving, Settling, Ending, [Next]_vars, ~overlap'
  PROVE  Streams'
<1>1. CASE UNCHANGED <<shared, taken, fin, out, outFin, early>>
  BY <1>1, StreamsQuiet
<1>2. CASE SendStore \/ Sends
  BY <1>2, SendStreams
<1>3. CASE RecvStore \/ Receives \/ RecvWouldBlock \/ RecvFails \/ RecvReturnsEof
  BY <1>3, RecvStreams
<1>4. CASE MarkEof
  BY <1>4, MarkEofStreams
<1>5. CASE CopyActiveRanges
  BY <1>5, CopyStreams
<1>6. CASE \E result \in ParseResults : Transform(result)
  BY <1>6, TransformStreams
<1>7. CASE StartClosing \/ GiveUp
  BY <1>7, StopStreams
<1>8. CASE StartSwap
  BY <1>8, StartSwapStreams
<1>9. CASE SwapStore
  BY <1>9, SwapStreams
<1>10. CASE SwapEpoll \/ Recover
  BY <1>10, EpollStreams
<1>11. CASE SwapDone
  BY <1>11, SwapDoneStreams
<1> QED BY <1>1, <1>2, <1>3, <1>4, <1>5, <1>6, <1>7, <1>8, <1>9, <1>10, <1>11, Origins

LEMMA PlaceStep ==
  ASSUME Control, Places, Streams, Sending, Receiving, Settling, Ending, [Next]_vars
  PROVE  Sending' /\ Receiving'
<1>1. ASSUME pc' = "send" PROVE Sending'
  <2>1. CASE SendOrNot
    <3>1. step' = "idle"
      BY <2>1 DEF SendOrNot, Places
    <3> QED BY <3>1 DEF Sending, SendPlace, Steps, Swapping
  <2>2. CASE SendCall
    <3>1. /\ pc = "send" /\ cur' = cur /\ tx' = tx /\ step' = Entry(tx[cur])
          /\ ActiveRange(tx[cur]).len > 0
      BY <2>2 DEF SendCall, InSend
    <3>2. SendSound(tx[cur])
      BY <3>1, StreamsAt DEF Control, Places, Handling
    <3>3. SendPlace(tx[cur], Entry(tx[cur]))
      BY <3>1, <3>2, EntryPlace
    <3> QED BY <3>1, <3>3 DEF Sending
  <2>3. CASE SendStore \/ Sends
    BY <2>3, SendStreams
  <2>4. CASE Stays
    BY <1>1, <2>4 DEF Stays, Sending, shared
  <2> QED BY <1>1, <2>1, <2>2, <2>3, <2>4, Origins
<1>2. ASSUME pc' = "recv" PROVE Receiving'
  <2>1. CASE ReceiveOrNot
    <3>1. step' = "idle" /\ rx' = rx /\ cur' = cur /\ ~ActiveRange(rx[cur]).shutdown
      BY <1>2, <2>1 DEF ReceiveOrNot, WantsRecv, Places, shared
    <3> QED BY <3>1 DEF Receiving, RecvPlace, Steps, Swapping
  <2>2. CASE RecvCall
    <3>1. pc = "recv" /\ cur' = cur /\ rx' = rx /\ step' = Entry(rx[cur])
      BY <2>2 DEF RecvCall, InRecv
    <3>2. RecvSound(rx[cur]) /\ ~ActiveRange(rx[cur]).shutdown
      BY <3>1, StreamsAt DEF Control, Places, Handling, Receiving, RecvPlace
    <3>3. RecvPlace(rx[cur], Entry(rx[cur]))
      BY <3>2, EntryPlace
    <3> QED BY <3>1, <3>3 DEF Receiving
  <2>3. CASE RecvStore \/ Receives
    BY <2>3, RecvStreams
  <2>4. CASE Stays
    BY <1>2, <2>4 DEF Stays, Receiving, shared
  <2> QED BY <1>2, <2>1, <2>2, <2>3, <2>4, Origins
<1> QED BY <1>1, <1>2 DEF Sending, Receiving

LEMMA SettlingStep ==
  ASSUME Control, Places, Streams, Settling, [Next]_vars, ~overlap'
  PROVE  Settling'
<1>1. CASE CopyActiveRanges
  BY <1>1, CopyStreams
<1>2. CASE \E result \in ParseResults : Transform(result)
  BY <1>2, TransformStreams
<1>3. CASE StartSwap
  BY <1>3, StartSwapStreams
<1>4. CASE SwapStore
  BY <1>4, SwapStreams
<1>5. CASE Stays
  BY <1>5 DEF Stays, shared, Settling, DirectionOk, Progress, AllMoved, Grown, Unfinished,
              ViewRx, ViewTx
<1>6. CASE UNCHANGED shared /\ pc' \notin {"transform", "check"}
  BY <1>6 DEF shared, Settling, AllMoved, Unfinished, ViewRx, ViewTx
<1>7. CASE state' # "SWAP_BUFFERS" /\ pc' \notin {"transform", "check"}
  BY <1>7 DEF Settling
<1> QED BY <1>1, <1>2, <1>3, <1>4, <1>5, <1>6, <1>7, Origins

(* What is remembered is never taken back. *)
LEMMA Remembered ==
  ASSUME Control, Places, [Next]_vars
  PROVE  /\ \A e \in Ends : /\ reset[e] = "reported" =>
                                 reset'[e] = "reported" /\ errno'[e] = errno[e]
                            /\ early[e] => early'[e]
                            /\ fin[e] => fin'[e] /\ taken'[e] = taken[e]
         /\ crashes > 0 => crashes' > 0
         /\ overlap => overlap'
<1> DEFINE P ==
         /\ \A e \in Ends : /\ reset[e] = "reported" =>
                                 reset'[e] = "reported" /\ errno'[e] = errno[e]
                            /\ early[e] => early'[e]
                            /\ fin[e] => fin'[e] /\ taken'[e] = taken[e]
         /\ crashes > 0 => crashes' > 0
         /\ overlap => overlap'
<1> SUFFICES P
  OBVIOUS
<1>0. /\ reset \in [Ends -> {"none", "pending", "reported"}] /\ early \in [Ends -> BOOLEAN]
      /\ fin \in [Ends -> BOOLEAN] /\ crashes \in Nat /\ cur \in Ends /\ overlap \in BOOLEAN
      /\ taken \in [Ends -> Nat]
  BY DEF Control
<1>1. CASE UNCHANGED <<taken, reset, errno, fin, out, overlap, early, crashes>>
  BY <1>1
<1>2. CASE Sends
  BY <1>2 DEF Sends, Sendmmsg, InSend, history
<1>3. CASE SendFails
  BY <1>0, <1>3 DEF SendFails, InSend, history
<1>4. CASE Receives
  <2>1. PICK n \in 0 .. BufSize : Recvmmsg(n)
    BY <1>4 DEF Receives
  <2>2. /\ taken' = [taken EXCEPT ![cur] = @ + n] /\ fin' = [fin EXCEPT ![cur] = (n = 0)]
        /\ (fin[cur] => n = 0) /\ reset' = reset
        /\ UNCHANGED <<errno, overlap, early, crashes>>
    BY <2>1 DEF Recvmmsg, InRecv, history
  <2>3. taken[cur] \in Nat /\ taken[cur] + 0 = taken[cur]
    BY <1>0
  <2>4. \A e \in Ends : fin[e] => fin'[e] /\ taken'[e] = taken[e]
    BY <1>0, <2>2, <2>3
  <2> QED BY <2>2, <2>4
<1>5. CASE RecvFails
  BY <1>0, <1>5 DEF RecvFails, RecvError, InRecv, history
<1>6. CASE CopyActiveRanges
  BY <1>6 DEF CopyActiveRanges, kernel
<1>7. CASE Recover
  BY <1>0, <1>7 DEF Recover, EpollFromBuffers
<1>8. CASE Crash
  BY <1>0, <1>8 DEF Crash, kernel
<1>9. ASSUME NEW e \in MayReset, Reset(e) PROVE P
  BY <1>0, <1>9 DEF Reset, history
<1>10. CASE MarkEof
  BY <1>0, <1>10 DEF MarkEof, history
<1> QED BY <1>1, <1>2, <1>3, <1>4, <1>5, <1>6, <1>7, <1>8, <1>9, <1>10, Origins

(* A connection is closed when all that was received is delivered. *)
LEMMA ClosingComplete ==
  ASSUME Control, Places, Streams, Settling, Ending, StartClosing, NEW s \in Ends
  PROVE  fin[s] /\ Forwarded(Other(s))
<1> DEFINE R == Flipped(rx[s])
           T == Flipped(tx[Other(s)])
           g == context.got[1 - context.active][s]
           c == Progress(s, g)
<1>1. /\ Flow(s, R, T, c) /\ AllMoved(s, R, T)
      /\ Other(s) \in Ends /\ Other(Other(s)) = s
      /\ rx[s] \in AtomicBuffers(Byte) /\ tx[Other(s)] \in AtomicBuffers(Byte)
  BY TwoEnds DEF StartClosing, Settling, DirectionOk, Streams
<1>2. ActiveRange(T) = InactiveRange(tx[Other(s)])
  BY <1>1, FlipStore
<1>3. ActiveRange(T).shutdown /\ ActiveRange(T).len = 0
  BY <1>1, <1>2 DEF StartClosing, BothDelivered
<1> HIDE DEF R, T
<1>4. ActiveRange(R).len = 0
  BY <1>1, <1>3 DEF AllMoved
<1>5. c.fin /\ Unsent(T) = <<>> /\ Unread(R) = <<>>
  BY <1>1, <1>3, <1>4, FlowEmpty
<1>6. c.out \in Seq(Byte) /\ c.out \o Queued(R, T) = c.out
  <2>1. <<>> \o <<>> = <<>>
    OBVIOUS
  <2>2. c.out \in Seq(Byte)
    BY <1>1 DEF Flow
  <2> HIDE DEF c
  <2> QED BY <1>5, <2>1, <2>2, ConcatEmptySeq DEF Queued
<1>7. IsStream(s, c, c.out)
  BY <1>1, <1>6 DEF Flow
<1>8. fin[s] /\ c.taken = taken[s] /\ c.out = out[Other(s)]
  BY <1>5 DEF Progress
<1>9. Forwarded(Other(s))
  BY <1>1, <1>7, <1>8 DEF IsStream, Forwarded
<1> QED BY <1>8, <1>9

LEMMA EndingStep ==
  ASSUME Control, Places, Streams, Sending, Receiving, Settling, Ending, Undisturbed,
         [Next]_vars, ~overlap'
  PROVE  Ending'
<1>0. /\ \A e \in Ends : /\ reset[e] = "reported" =>
                              reset'[e] = "reported" /\ errno'[e] = errno[e]
                         /\ early[e] => early'[e]
                         /\ fin[e] => fin'[e] /\ taken'[e] = taken[e]
      /\ crashes > 0 => crashes' > 0
  BY Remembered
<1>1. ASSUME NEW e \in Ends, fin'[e] PROVE taken'[e] = Total[e] \/ ErrorLost(e)'
  <2>1. CASE fin[e]
    BY <1>0, <2>1 DEF Ending, ErrorLost
  <2>2. CASE ~fin[e]
    <3>1. Receives \/ MarkEof
      BY <1>1, <2>2, Origins
         DEF Sends, Sendmmsg, SendFails, InSend, RecvFails, RecvError, CopyActiveRanges, kernel,
             Recover, EpollFromBuffers, Crash, Reset
    <3>2. CASE Receives
      <4>1. PICK n \in 0 .. BufSize : Recvmmsg(n)
        BY <3>2 DEF Receives
      <4>2. /\ pc = "recv" /\ fin' = [fin EXCEPT ![cur] = (n = 0)] /\ UNCHANGED <<reset, errno>>
            /\ crashes' = crashes /\ taken' = [taken EXCEPT ![cur] = @ + n]
            /\ n = 0 => \/ taken[cur] = Total[cur]
                        \/ reset[cur] = "reported" /\ errno[cur] = "ECONNRESET"
            /\ fin \in [Ends -> BOOLEAN] /\ taken \in [Ends -> Nat] /\ crashes \in Nat
        BY <4>1 DEF Recvmmsg, InRecv, history, Control
      <4>3. e = cur /\ n = 0
        BY <1>1, <2>2, <4>2
      <4>4. taken'[e] = taken[e]
        <5>1. taken[e] + 0 = taken[e]
          BY <4>2
        <5> QED BY <4>2, <4>3, <5>1
      <4>5. reset[cur] = "reported" /\ errno[cur] = "ECONNRESET" => crashes > 0
        <5>1. cur \in Ends /\ (crashes = 0 \/ crashes > 0)
          BY <4>2, SMT DEF Control
        <5>2. ~GivingUp
          BY <4>2 DEF GivingUp
        <5> QED BY <5>1, <5>2 DEF Undisturbed
      <4> QED BY <4>2, <4>3, <4>4, <4>5 DEF ErrorLost
    <3>3. CASE MarkEof
      <4>1. /\ pc = "eof" /\ fin' = [fin EXCEPT ![cur] = TRUE] /\ fin \in [Ends -> BOOLEAN]
            /\ UNCHANGED <<reset, errno>>
        BY <3>3 DEF MarkEof, Control
      <4>2. e = cur
        BY <1>1, <2>2, <4>1
      <4> QED BY <2>2, <4>1, <4>2 DEF Ending, ErrorLost
    <3> QED BY <3>1, <3>2, <3>3
  <2> QED BY <2>1, <2>2
<1>2. ASSUME pc' = "eof"
      PROVE  \/ fin'[cur'] /\ rx'[cur'].state = "INIT"
             \/ /\ reset'[cur'] = "reported" /\ errno'[cur'] = "EPIPE"
                /\ rx'[cur'].state = "DO_SYSCALL" /\ NotYetCalled(rx'[cur'])
  <2>1. CASE RecvReturnsEof
    <3>1. /\ pc = "recv" /\ step = "syscall" /\ rx[cur].msgLen = 0 /\ cur' = cur
          /\ rx' = [rx EXCEPT ![cur] = Finished(rx[cur])] /\ fin' = fin
          /\ state # "SWAP_BUFFERS" /\ cur \in Ends /\ rx = [e \in Ends |-> rx[e]]
      BY <2>1 DEF RecvReturnsEof, InRecv, Places, Handling, Control
    <3>2. RecvSound(rx[cur]) /\ Flow(cur, rx[cur], tx[Other(cur)], Progress(cur, Active(cur)))
      BY <3>1, StreamsAt
    <3>3. rx[cur].state = "DO_SYSCALL"
      BY <3>1 DEF Receiving, RecvPlace
    <3>4. fin[cur]
      BY <3>1, <3>2, <3>3 DEF Flow, EndLast, Progress
    <3>5. Finished(rx[cur]).state = "INIT"
      BY <3>1, <3>2, <3>3, EofSound
    <3> QED BY <3>1, <3>4, <3>5
  <2>2. CASE RecvFails
    <3>1. /\ pc = "recv" /\ step = "syscall" /\ NotYetCalled(rx[cur]) /\ cur' = cur
          /\ rx' = [rx EXCEPT ![cur] = RecvPrepared(rx[cur])]
          /\ reset' = [reset EXCEPT ![cur] = "reported"] /\ errno' = errno
          /\ state # "SWAP_BUFFERS" /\ cur \in Ends /\ rx = [e \in Ends |-> rx[e]]
          /\ reset = [e \in Ends |-> reset[e]]
      BY <2>2 DEF RecvFails, RecvError, InRecv, Places, Handling, Control
    <3>2. errno[cur] = "EPIPE"
      BY <1>2, <2>2 DEF RecvFails
    <3>3. RecvSound(rx[cur]) /\ rx[cur].state = "DO_SYSCALL"
      BY <3>1, StreamsAt DEF Receiving, RecvPlace
    <3>4. RecvPrepared(rx[cur]).state = "DO_SYSCALL" /\ NotYetCalled(RecvPrepared(rx[cur]))
      BY <3>1, <3>3, RecvPreparedSound DEF NotYetCalled
    <3> QED BY <3>1, <3>2, <3>4
  <2>3. CASE Stays
    <3>1. pc = "eof" /\ cur' = cur /\ UNCHANGED <<rx, fin>> /\ cur \in Ends
      BY <1>2, <2>3 DEF Stays, shared, Control
    <3> QED BY <1>0, <3>1 DEF Ending
  <2> QED BY <1>2, <2>1, <2>2, <2>3, Origins
<1>3. ASSUME pc' = "error" \/ state' = "ERROR"
      PROVE  \E e \in Ends : reset'[e] = "reported" \/ early'[e]
  <2>1. CASE pc = "error" \/ state = "ERROR"
    BY <1>0, <2>1 DEF Ending
  <2>2. CASE SendFails
    <3>1. /\ pc = "send" /\ step = "syscall" /\ NotYetCalled(tx[cur]) /\ cur \in Ends
          /\ reset[cur] # "none" \/ outFin[cur]
          /\ reset' = [reset EXCEPT ![cur] = IF @ = "none" THEN @ ELSE "reported"]
          /\ reset = [e \in Ends |-> reset[e]]
      BY <2>2 DEF SendFails, InSend, Control
    <3>2. CASE reset[cur] # "none"
      BY <3>1, <3>2
    <3>3. CASE outFin[cur]
      <4> DEFINE T == tx[cur]
                 s == Other(cur)
      <4>1. /\ s \in Ends /\ Other(s) = cur /\ state # "SWAP_BUFFERS"
        BY <3>1, TwoEnds DEF Places, Handling
      <4>2. Flow(s, rx[s], T, Progress(s, Active(s)))
        BY <4>1, StreamsAt
      <4>3. SendSound(T) /\ T.state = "DO_SYSCALL" /\ ActiveRange(T).len > 0
        BY <3>1, <4>2 DEF Flow, Sending, SendPlace
      <4>4. 1 \in 1 .. BufSize /\ 1 <= ActiveRange(T).len
        <5>1. ActiveRange(T) \in Ranges
          BY <4>3, SendFields
        <5>2. ActiveRange(T).len \in Nat
          BY <5>1, BufSizeAssumption DEF Ranges
        <5> HIDE DEF T
        <5> QED BY <4>3, <5>2, BufSizeAssumption, SMT
      <4>5. Unsent(T) # <<>>
        BY <3>1, <4>3, <4>4, SendDoneSound
      <4>6. early[cur]
        BY <3>3, <4>1, <4>2, <4>5 DEF Flow, EndLast, Progress
      <4> QED BY <1>0, <3>1, <4>6
    <3> QED BY <3>1, <3>2, <3>3
  <2>3. CASE RecvFails
    <3>1. cur \in Ends /\ reset' = [reset EXCEPT ![cur] = "reported"]
          /\ reset = [e \in Ends |-> reset[e]]
      BY <2>3 DEF RecvFails, RecvError, Control
    <3> QED BY <3>1
  <2> QED BY <1>3, <2>1, <2>2, <2>3, Origins DEF Stays, GiveUp
<1>4. ASSUME state' = "CLOSING", NEW e \in Ends
      PROVE  fin'[e] /\ Forwarded(e)'
  <2>1. CASE StartClosing
    <3>1. fin[e] /\ Forwarded(e)
      BY <2>1, ClosingComplete, TwoEnds
    <3>2. UNCHANGED <<fin, out, taken>>
      BY <2>1 DEF StartClosing, kernel
    <3> QED BY <3>1, <3>2 DEF Forwarded
  <2>2. CASE state = "CLOSING" /\ UNCHANGED <<shared, taken, fin, out>>
    BY <2>2 DEF Ending, Forwarded
  <2> QED BY <1>4, <2>1, <2>2, Origins
<1> QED BY <1>1, <1>2, <1>3, <1>4 DEF Ending

-------------------------------------------------------------------------------
(* As long as no worker dies, every transaction is finished before the     *)
(* worker leaves atomic_send or atomic_recv, but for the system calls that *)
(* have nothing to report.                                                 *)
LEMMA StoresCalled ==
  ASSUME NEW b, Shaped(b)
  PROVE  /\ \A r : Called(WithInactive(b, r)) = Called(b) /\ Called(WithActive(b, r)) = Called(b)
         /\ \A k : Called([b EXCEPT !.active = k]) = Called(b)
         /\ Called(RecvPrepared(b)) = Called(b)
         /\ ~Called(Finished(b))
         /\ ~Called(b) => ~Called(Settled(b))
<1>1. \A r : Called(WithInactive(b, r)) = Called(b) /\ Called(WithActive(b, r)) = Called(b)
  BY DEF Called, NotYetCalled, WithInactive, WithActive, Shaped
<1>2. \A k : Called([b EXCEPT !.active = k]) = Called(b)
  BY DEF Called, NotYetCalled, Shaped
<1>3. ~Called(Finished(b))
  BY DEF Called, Finished, Shaped
<1>4. ASSUME ~Called(b) PROVE ~Called(Settled(b))
  <2> DEFINE r == ActiveRange(b)
             live == {Wrap(r.start + i) : i \in 0 .. r.len - 1}
             f == [p \in Index |-> IF p \in live THEN b.buf[p] ELSE Blank]
             m == IF b.state = "INIT" THEN 0 ELSE Sentinel
             n == NewBuffer(Blank)
  <2>1. Settled(b) = [n EXCEPT !.state = b.state, !.msgLen = m, !.active = b.active,
                               !.range[b.active] = r, !.buf = f]
    BY <1>4, Zenon DEF Settled, Called, r, f, m, n, live
  <2>2. n = [state |-> n.state, bit |-> n.bit, msgLen |-> n.msgLen,
             active |-> n.active, range |-> n.range, buf |-> n.buf]
    BY DEF NewBuffer
  <2>3. b.state # "INIT" => m = Sentinel
    OBVIOUS
  <2> HIDE DEF r, f, m, n
  <2>4. Settled(b).state = b.state /\ Settled(b).msgLen = m
    BY <2>1, <2>2
  <2> QED BY <1>4, <2>3, <2>4 DEF Called, NotYetCalled
<1> QED BY <1>1, <1>2, <1>3, <1>4 DEF RecvPrepared

LEMMA UndisturbedInit == Init => Undisturbed
BY DEF Init, Undisturbed, NewBuffer, Called

LEMMA StillInOrder ==
  ASSUME Control, Places, Undisturbed, [Next]_vars, crashes' = 0
  PROVE  crashes = 0 /\ ~overlap /\ ~overlap'
<1>1. crashes = 0
  <2>1. crashes \in Nat /\ (crashes > 0 => crashes' > 0)
    BY Remembered DEF Control
  <2> QED BY <2>1
<1>2. ~overlap /\ \A e \in Ends : (Called(tx[e]) => pc = "send") /\ (Called(rx[e]) => pc = "recv")
  BY <1>1 DEF Undisturbed
<1>3. CASE CopyActiveRanges
  BY <1>1, <1>2, <1>3 DEF CopyActiveRanges, Unfinished, Called
<1>4. CASE ~CopyActiveRanges
  <2>1. CASE Crash
    BY <1>1, <2>1 DEF Crash
  <2>2. overlap' = overlap \/ Crash
    BY <1>4, Origins
       DEF Sends, Sendmmsg, SendFails, InSend, Receives, Recvmmsg, RecvFails, RecvError, InRecv,
           MarkEof, Recover, Reset, history
  <2> QED BY <1>1, <1>2, <2>1, <2>2
<1> QED BY <1>1, <1>2, <1>3, <1>4

(* Where a system call can have taken effect. *)
InCall(b, p, e) == Called(b) => pc = p /\ cur = e /\ step # "idle"

LEMMA CallsStep ==
  ASSUME Control, Places, Streams, Sending, Receiving, Settling, [Next]_vars, crashes' = 0,
         pc # "dead",
         \A e \in Ends : InCall(tx[e], "send", e) /\ InCall(rx[e], "recv", e)
  PROVE  \A e \in Ends : InCall(tx[e], "send", e)' /\ InCall(rx[e], "recv", e)'
<1> DEFINE P == \A e \in Ends : InCall(tx[e], "send", e)' /\ InCall(rx[e], "recv", e)'
           Idle == \A e \in Ends : ~Called(tx'[e]) /\ ~Called(rx'[e])
<1> SUFFICES P
  OBVIOUS
<1>0. /\ rx = [e \in Ends |-> rx[e]] /\ tx = [e \in Ends |-> tx[e]]
      /\ \A e \in Ends : Shaped(rx[e]) /\ Shaped(tx[e])
      /\ cur \in Ends
  BY DEF Control
<1>a. \A e \in Ends : InCall(tx[e], "send", e) /\ InCall(rx[e], "recv", e)
  OBVIOUS
<1>b. Idle => P
  BY DEF InCall
<1>c. \A e \in Ends : /\ pc # "send" \/ step = "idle" => ~Called(tx[e])
                      /\ pc # "recv" \/ step = "idle" => ~Called(rx[e])
  BY <1>a DEF InCall
<1>1. CASE UNCHANGED <<rx, tx, pc, step, cur>>
  BY <1>a, <1>1 DEF InCall
<1>2. CASE UNCHANGED <<rx, tx>> /\ (pc \notin {"send", "recv"} \/ step = "idle")
  BY <1>b, <1>c, <1>2
<1>3. CASE SendStore
  <2> DEFINE T == tx[cur]
  <2>1. /\ pc = "send" /\ pc' = "send" /\ cur' = cur /\ rx' = rx /\ state # "SWAP_BUFFERS"
        /\ \E st \in SendStores(T) : step = st[1] /\ step' = st[2] /\ tx' = [tx EXCEPT ![cur] = st[3]]
    BY <1>3 DEF SendStore, InSend, Places, Handling
  <2>2. PICK st \in SendStores(T) : step = st[1] /\ step' = st[2] /\ tx' = [tx EXCEPT ![cur] = st[3]]
    BY <2>1
  <2>3. SendSound(T) /\ SendPlace(T, st[1])
    BY <1>0, <2>1, <2>2, StreamsAt DEF Sending
  <2>4. st[2] = "idle" => ~Called(st[3])
    BY <2>3, SendStoreSound
  <2>5. ASSUME NEW e \in Ends PROVE InCall(tx[e], "send", e)' /\ InCall(rx[e], "recv", e)'
    BY <1>0, <1>c, <2>1, <2>2, <2>4 DEF InCall
  <2> QED BY <2>5
<1>4. CASE RecvStore
  <2> DEFINE R == rx[cur]
  <2>1. /\ pc = "recv" /\ pc' = "recv" /\ cur' = cur /\ tx' = tx /\ state # "SWAP_BUFFERS"
        /\ \E st \in RecvStores(R) : step = st[1] /\ step' = st[2] /\ rx' = [rx EXCEPT ![cur] = st[3]]
    BY <1>4 DEF RecvStore, InRecv, Places, Handling
  <2>2. PICK st \in RecvStores(R) : step = st[1] /\ step' = st[2] /\ rx' = [rx EXCEPT ![cur] = st[3]]
    BY <2>1
  <2>3. RecvSound(R) /\ RecvPlace(R, st[1])
    BY <1>0, <2>1, <2>2, StreamsAt DEF Receiving
  <2>4. st[2] = "idle" => ~Called(st[3])
    BY <2>3, RecvStoreSound
  <2>5. ASSUME NEW e \in Ends PROVE InCall(tx[e], "send", e)' /\ InCall(rx[e], "recv", e)'
    BY <1>0, <1>c, <2>1, <2>2, <2>4 DEF InCall
  <2> QED BY <2>5
<1>5. CASE Sends
  <2>1. PICK n \in 1 .. BufSize : Sendmmsg(n)
    BY <1>5 DEF Sends
  <2>2. /\ pc = "send" /\ pc' = "send" /\ cur' = cur /\ rx' = rx /\ step' = step /\ step = "syscall"
        /\ tx' = [tx EXCEPT ![cur] = SendDone(tx[cur], n)]
    BY <2>1 DEF Sendmmsg, InSend
  <2>3. ASSUME NEW e \in Ends PROVE InCall(tx[e], "send", e)' /\ InCall(rx[e], "recv", e)'
    BY <1>0, <1>c, <2>2 DEF InCall
  <2> QED BY <2>3
<1>6. CASE Receives
  <2>1. PICK n \in 0 .. BufSize : Recvmmsg(n)
    BY <1>6 DEF Receives
  <2>2. /\ pc = "recv" /\ pc' = "recv" /\ cur' = cur /\ tx' = tx /\ step' = step /\ step = "syscall"
        /\ rx' = [rx EXCEPT ![cur] = RecvDone(RecvPrepared(rx[cur]), Numbered(taken[cur], n))]
    BY <2>1 DEF Recvmmsg, InRecv
  <2>3. ASSUME NEW e \in Ends PROVE InCall(tx[e], "send", e)' /\ InCall(rx[e], "recv", e)'
    BY <1>0, <1>c, <2>2 DEF InCall
  <2> QED BY <2>3
<1>7. CASE SendWouldBlock \/ SendFails
  <2>1. /\ pc = "send" /\ step = "syscall" /\ NotYetCalled(tx[cur]) /\ UNCHANGED <<rx, tx>>
    BY <1>7 DEF SendWouldBlock, SendFails, InSend
  <2>2. tx[cur].state = "DO_SYSCALL"
    BY <2>1 DEF Sending, SendPlace
  <2>3. ~Called(tx[cur])
    BY <2>1, <2>2 DEF Called
  <2> QED BY <1>a, <1>b, <2>1, <2>3 DEF InCall
<1>8. CASE RecvWouldBlock \/ RecvFails
  <2>1. /\ pc = "recv" /\ step = "syscall" /\ NotYetCalled(rx[cur]) /\ tx' = tx
        /\ rx' = [rx EXCEPT ![cur] = RecvPrepared(rx[cur])]
    BY <1>8 DEF RecvWouldBlock, RecvFails, RecvError, InRecv
  <2>2. rx[cur].state = "DO_SYSCALL"
    BY <2>1 DEF Receiving, RecvPlace
  <2>3. ~Called(rx[cur])
    BY <2>1, <2>2 DEF Called
  <2>4. ~Called(RecvPrepared(rx[cur]))
    BY <1>0, <2>3, StoresCalled
  <2> QED BY <1>0, <1>a, <1>b, <2>1, <2>4 DEF InCall
<1>9. CASE RecvReturnsEof
  <2>1. /\ pc = "recv" /\ tx' = tx /\ rx' = [rx EXCEPT ![cur] = Finished(rx[cur])]
    BY <1>9 DEF RecvReturnsEof, InRecv
  <2>2. ~Called(Finished(rx[cur]))
    BY <1>0, StoresCalled
  <2> QED BY <1>0, <1>a, <1>b, <2>1, <2>2 DEF InCall
<1>10. CASE MarkEof
  <2>1. /\ pc = "eof" /\ tx' = tx
        /\ \E r : rx' = [rx EXCEPT ![cur] = WithActive(rx[cur], r)]
    BY <1>10 DEF MarkEof
  <2> QED BY <1>0, <1>b, <1>c, <2>1, StoresCalled
<1>11. CASE CopyActiveRanges
  <2>1. /\ pc = "copy" /\ rx' = [e \in Ends |-> Synced(rx[e])] /\ tx' = [e \in Ends |-> Synced(tx[e])]
    BY <1>11 DEF CopyActiveRanges
  <2> QED BY <1>0, <1>b, <1>c, <2>1, StoresCalled DEF Synced
<1>12. ASSUME NEW result \in ParseResults, Transform(result) PROVE P
  <2>1. ASSUME NEW s \in Ends
        PROVE  ~Called(rx'[s]) /\ (Called(tx'[Other(s)]) => Called(tx[Other(s)]))
    BY <1>12, TransformCarries DEF Carried
  <2>2. pc = "transform"
    BY <1>12 DEF Transform
  <2> QED BY <1>b, <1>c, <2>1, <2>2, TwoEnds
<1>13. CASE SwapStore
  <2>1. pc = "swap"
    BY <1>13 DEF SwapStore, SwapRx, SwapTx, SwapContext, InSwap
  <2>2. CASE SwapContext
    BY <1>2, <2>1, <2>2 DEF SwapContext
  <2>3. ASSUME NEW c \in Ends, SwapRx(c) PROVE P
    BY <1>0, <1>b, <1>c, <2>1, <2>3, StoresCalled, SMTT(20) DEF SwapRx
  <2>4. ASSUME NEW c \in Ends, SwapTx(c) PROVE P
    BY <1>0, <1>b, <1>c, <2>1, <2>4, StoresCalled, SMTT(20) DEF SwapTx
  <2> QED BY <1>13, <2>2, <2>3, <2>4 DEF SwapStore
<1>14. CASE SwapDone
  <2>1. /\ pc = "poll" /\ rx' = [e \in Ends |-> Settled(rx[e])] /\ tx' = [e \in Ends |-> Settled(tx[e])]
    BY <1>14 DEF SwapDone
  <2> QED BY <1>0, <1>b, <1>c, <2>1, StoresCalled
<1> HIDE DEF P, Idle
<1>15. ASSUME \/ \E kinds \in [Ends -> SUBSET {"in", "out"}] : EpollWait(kinds)
              \/ \E e \in Ends : Dispatch(e)
              \/ BatchDone
              \/ SendOrNot \/ SendCall \/ SendLoopDone
              \/ ReceiveOrNot \/ RecvCall \/ RecvLoopDone
              \/ StartClosing \/ GiveUp \/ Close \/ StartSwap \/ SwapEpoll
       PROVE  P
  <2>1. UNCHANGED <<rx, tx>> /\ (pc \notin {"send", "recv"} \/ step = "idle")
    BY <1>15 DEF EpollWait, Dispatch, BatchDone, SendOrNot, SendCall, SendLoopDone,
       ReceiveOrNot, RecvCall, RecvLoopDone, StartClosing, GiveUp, Close, StartSwap,
       SwapEpoll, InSend, InRecv, shared
  <2> QED BY <1>2, <2>1
<1>16. ASSUME Recover \/ Crash \/ (\E e \in MayReset : Reset(e)) \/ UNCHANGED vars PROVE P
  <2>1. CASE Crash
    <3>1. crashes \in Nat
      BY DEF Control
    <3> QED BY <2>1, <3>1 DEF Crash
  <2>2. CASE Recover
    BY <2>2 DEF Recover
  <2>3. CASE (\E e \in MayReset : Reset(e)) \/ UNCHANGED vars
    BY <1>1, <2>3 DEF Reset, vars, process, shared
  <2> QED BY <1>16, <2>1, <2>2, <2>3
<1>17. CASE \E result \in ParseResults : Transform(result)
  BY <1>12, <1>17
<1> QED
  BY <1>3, <1>4, <1>5, <1>6, <1>7, <1>8, <1>9, <1>10, <1>11, <1>13, <1>14, <1>15, <1>16, <1>17
     DEF Next, Run

(* An error that a system call has reported makes the worker give up. *)
LEMMA ReportedStep ==
  ASSUME Control, Places, [Next]_vars, ~Crash, GivingUp
  PROVE  GivingUp'
<1>1. CASE pc = "error"
  BY <1>1 DEF GivingUp, Next, Run, EpollWait, Dispatch, BatchDone, SendOrNot, SendCall, SendStore, Sends,
     Sendmmsg, SendWouldBlock, SendFails, SendLoopDone, ReceiveOrNot, RecvCall, RecvStore,
     Receives, Recvmmsg, RecvWouldBlock, RecvFails, RecvError, RecvLoopDone, RecvReturnsEof,
     MarkEof, CopyActiveRanges, Transform, StartClosing, GiveUp, Close, StartSwap, SwapStore,
     SwapRx, SwapTx, SwapContext, SwapEpoll, SwapDone, Recover, Reset, InSend, InRecv, InSwap,
     vars, process
<1>2. CASE pc = "failed"
  BY <1>2 DEF GivingUp, Next, Run, EpollWait, Dispatch, BatchDone, SendOrNot, SendCall, SendStore, Sends,
     Sendmmsg, SendWouldBlock, SendFails, SendLoopDone, ReceiveOrNot, RecvCall, RecvStore,
     Receives, Recvmmsg, RecvWouldBlock, RecvFails, RecvError, RecvLoopDone, RecvReturnsEof,
     MarkEof, CopyActiveRanges, Transform, StartClosing, GiveUp, Close, StartSwap, SwapStore,
     SwapRx, SwapTx, SwapContext, SwapEpoll, SwapDone, Recover, Reset, InSend, InRecv, InSwap,
     vars, process
<1>3. CASE pc = "close" /\ state = "ERROR"
  BY <1>3 DEF GivingUp, Next, Run, EpollWait, Dispatch, BatchDone, SendOrNot, SendCall, SendStore, Sends,
     Sendmmsg, SendWouldBlock, SendFails, SendLoopDone, ReceiveOrNot, RecvCall, RecvStore,
     Receives, Recvmmsg, RecvWouldBlock, RecvFails, RecvError, RecvLoopDone, RecvReturnsEof,
     MarkEof, CopyActiveRanges, Transform, StartClosing, GiveUp, Close, Fails, StartSwap,
     SwapStore, SwapRx, SwapTx, SwapContext, SwapEpoll, SwapDone, Recover, Reset, InSend,
     InRecv, InSwap, vars, process, shared
<1> QED BY <1>1, <1>2, <1>3 DEF GivingUp

LEMMA UndisturbedStep ==
  ASSUME Control, Places, Data, Undisturbed, [Next]_vars
  PROVE  Undisturbed'
<1> SUFFICES ASSUME crashes' = 0
             PROVE  /\ ~overlap' /\ pc' # "dead"
                    /\ \A e \in Ends : InCall(tx[e], "send", e)' /\ InCall(rx[e], "recv", e)'
                    /\ \A e \in Ends : reset'[e] = "reported" /\ errno'[e] = "ECONNRESET" => GivingUp'
                    /\ \A e \in Ends : ~early'[e]
  BY DEF Undisturbed, InCall
<1>1. crashes = 0 /\ ~overlap /\ ~overlap' /\ crashes \in Nat
  BY StillInOrder DEF Control
<1>2. Streams /\ Sending /\ Receiving /\ Settling
  BY <1>1 DEF Data
<1>3. /\ pc # "dead"
      /\ \A e \in Ends : InCall(tx[e], "send", e) /\ InCall(rx[e], "recv", e)
      /\ \A e \in Ends : reset[e] = "reported" /\ errno[e] = "ECONNRESET" => GivingUp
      /\ \A e \in Ends : ~early[e]
  BY <1>1 DEF Undisturbed, InCall
<1>4. ~Crash /\ ~Recover
  BY <1>1, <1>3 DEF Crash, Recover
<1>5. pc' # "dead"
  BY <1>3, <1>4, Origins DEF Stays
<1>6. \A e \in Ends : InCall(tx[e], "send", e)' /\ InCall(rx[e], "recv", e)'
  BY <1>2, <1>3, CallsStep
<1>7. \A e \in Ends : ~early'[e]
  <2>1. early' = early
    BY <1>4, Origins
       DEF Sends, Sendmmsg, SendFails, InSend, Receives, Recvmmsg, RecvFails, RecvError, InRecv,
           MarkEof, CopyActiveRanges, Reset, history
  <2> QED BY <1>3, <2>1
<1>8. ASSUME NEW e \in Ends, reset'[e] = "reported", errno'[e] = "ECONNRESET"
      PROVE  GivingUp'
  <2>1. CASE reset[e] = "reported"
    BY <1>3, <1>4, <1>8, <2>1, Remembered, ReportedStep
  <2>2. CASE reset[e] # "reported"
    <3>1. SendFails \/ RecvFails
      <4>1. reset'[e] # reset[e]
        BY <1>8, <2>2
      <4>2. CASE Sends \/ Receives
        BY <4>1, <4>2 DEF Sends, Sendmmsg, InSend, Receives, Recvmmsg, InRecv
      <4>3. CASE MarkEof \/ CopyActiveRanges
        BY <4>1, <4>3 DEF MarkEof, CopyActiveRanges, kernel
      <4>4. ASSUME NEW f \in MayReset, Reset(f) PROVE FALSE
        BY <1>8, <4>1, <4>4 DEF Reset, Control
      <4> QED BY <1>4, <4>1, <4>2, <4>3, <4>4, Origins
    <3>2. CASE SendFails
      BY <3>2 DEF SendFails, GivingUp
    <3>3. CASE RecvFails
      <4>1. /\ errno' = errno /\ reset' = [reset EXCEPT ![cur] = "reported"]
            /\ reset = [f \in Ends |-> reset[f]]
        BY <3>3 DEF RecvFails, RecvError, InRecv, Control
      <4>2. e = cur
        BY <1>8, <2>2, <4>1
      <4> QED BY <1>8, <3>3, <4>1, <4>2 DEF RecvFails, GivingUp
    <3> QED BY <3>1, <3>2, <3>3
  <2> QED BY <2>1, <2>2
<1> QED BY <1>1, <1>5, <1>6, <1>7, <1>8

LEMMA DataInit == Init => Data
<1> SUFFICES ASSUME Init PROVE Data
  OBVIOUS
<1>1. /\ rx = [e \in Ends |-> NewBuffer(Blank)] /\ tx = [e \in Ends |-> NewBuffer(Blank)]
      /\ state = "POLL" /\ pc = "handle"
      /\ out = [e \in Ends |-> <<>>] /\ taken = [e \in Ends |-> 0] /\ fin = [e \in Ends |-> FALSE]
      /\ outFin = [e \in Ends |-> FALSE]
      /\ context = [active |-> 0, got |-> [a \in 0 .. 1 |-> [e \in Ends |-> FALSE]]]
  BY DEF Init
<1> DEFINE b == NewBuffer(Blank)
<1>2. /\ b \in AtomicBuffers(Byte) /\ b.state = "INIT" /\ ActiveRange(b) = EmptyRange
      /\ ~Called(b)
  <2>1. b \in AtomicBuffers(Byte)
    BY HeaderByte, NewBufferType
  <2>2. b.state = "INIT" /\ b.active = 0 /\ b.range = [a \in 0 .. 1 |-> EmptyRange]
    BY DEF NewBuffer
  <2>3. 0 \in 0 .. 1
    BY SMT
  <2> HIDE DEF b
  <2> QED BY <2>1, <2>2, <2>3 DEF ActiveRange, Called
<1> HIDE DEF b
<1>3. SendSound(b) /\ RecvSound(b)
  BY <1>2 DEF SendSound, RecvSound
<1>4. /\ RecvOrigin(b) = EmptyRange /\ SendOrigin(b) = EmptyRange
      /\ EmptyRange.len = 0 /\ EmptyRange.start = 0 /\ ~EmptyRange.shutdown
  BY <1>2 DEF RecvOrigin, SendOrigin, EmptyRange
<1>5. Unsent(b) = <<>> /\ Unread(b) = <<>>
  <2>1. Unsent(b) \in Seq(Byte) /\ Len(Unsent(b)) = 0 - Pending(b) /\ Pending(b) = 0
    BY <1>2, <1>3, <1>4, SendFields DEF Pending
  <2>2. Unread(b) \in Seq(Byte) /\ Len(Unread(b)) = 0 + Pending(b)
    BY <1>3, <1>4, RecvFields
  <2>3. \A q \in Seq(Byte) : Len(q) = 0 => q = <<>>
    BY EmptySeq
  <2>4. 0 - 0 = 0 /\ 0 + 0 = 0
    BY SMT
  <2> QED BY <2>1, <2>2, <2>3, <2>4
<1>6. ASSUME NEW s \in Ends
      PROVE  Flow(s, rx[s], tx[Other(s)], Progress(s, Active(s)))
  <2> DEFINE c == Progress(s, Active(s))
  <2>1. Other(s) \in Ends
    BY TwoEnds
  <2>2. rx[s] = b /\ tx[Other(s)] = b
    BY <1>1, <2>1 DEF b
  <2>3. c.out = <<>> /\ c.taken = 0 /\ ~c.outFin
    BY <1>1, <2>1 DEF Progress
  <2> HIDE DEF c
  <2>4. Numbered(0, c.taken) = <<>> /\ <<>> \in Seq(Byte)
    BY <2>3 DEF Numbered
  <2>5. c.out \o Queued(b, b) = <<>>
    BY <1>5, <2>3 DEF Queued
  <2>6. HeaderFirst(b, b, c) /\ EndLast(b, b, c)
    BY <1>2, <1>4, <2>3 DEF HeaderFirst, EndLast
  <2> QED BY <1>3, <2>2, <2>3, <2>4, <2>5, <2>6 DEF Flow, IsStream, c
<1>7. Streams
  <2>1. \A e \in Ends : rx[e] = b /\ tx[e] = b
    BY <1>1 DEF b
  <2>2. rx \in [Ends -> AtomicBuffers(Byte)] /\ tx \in [Ends -> AtomicBuffers(Byte)]
        /\ out = [e \in Ends |-> out[e]]
    BY <1>1, <1>2, <2>1
  <2>3. \A s \in Ends : ViewRx(s) = rx[s] /\ ViewTx(Other(s)) = tx[Other(s)] /\ ViewGot(s) = Active(s)
    BY <1>1 DEF ViewRx, ViewTx, ViewGot, Active
  <2> QED BY <1>6, <2>2, <2>3 DEF Streams, DirectionOk
<1>8. Sending /\ Receiving /\ Settling
  BY <1>1 DEF Sending, Receiving, Settling
<1>9. Ending
  BY <1>1 DEF Ending
<1> QED BY <1>7, <1>8, <1>9 DEF Data

LEMMA DataStep ==
  ASSUME Control, Places, Data, Undisturbed, [Next]_vars
  PROVE  Data'
<1> SUFFICES ASSUME ~overlap'
             PROVE  Streams' /\ Sending' /\ Receiving' /\ Settling' /\ Ending'
  BY DEF Data
<1>1. ~overlap
  BY Remembered
<1>2. Streams /\ Sending /\ Receiving /\ Settling /\ Ending
  BY <1>1 DEF Data
<1> QED BY <1>2, StreamsStep, PlaceStep, SettlingStep, EndingStep

-------------------------------------------------------------------------------
(* The events that wait to be handled, while others are.                   *)
LEMMA OthersBatched ==
  ASSUME Control, \A e \in Ends : Batched(e), batch[cur] = {},
         state # "SWAP_BUFFERS", state' = state, batch' = batch,
         \A e \in Ends : e # cur => rx'[e] = rx[e] /\ tx'[e] = tx[e] /\ reset'[e] = reset[e]
  PROVE  \A e \in Ends : Batched(e)'
<1> SUFFICES ASSUME NEW e \in Ends PROVE Batched(e)'
  OBVIOUS
<1>1. CASE e = cur
  BY <1>1 DEF Batched
<1>2. CASE e # cur
  <2>1. rx'[e] = rx[e] /\ tx'[e] = tx[e] /\ reset'[e] = reset[e]
    BY <1>2
  <2>2. ViewRx(e)' = ViewRx(e) /\ ViewTx(e)' = ViewTx(e)
    BY <2>1 DEF ViewRx, ViewTx
  <2> QED BY <2>1, <2>2 DEF Batched, Useful, Readable, Room
<1> QED BY <1>1, <1>2

LEMMA RangesBatched ==
  ASSUME \A e \in Ends : Batched(e), state' # "CLOSING", batch' = batch,
         \A e \in Ends : reset[e] # "none" => reset'[e] # "none",
         \A e \in Ends : /\ ActiveRange(ViewTx(e))' = ActiveRange(ViewTx(e))
                         /\ ActiveRange(ViewRx(e))' = ActiveRange(ViewRx(e))
  PROVE  \A e \in Ends : Batched(e)'
BY DEF Batched, Useful, Readable, Room

(* What a transformation leaves to the events that wait to be handled.     *)
LEMMA GrownBatched ==
  ASSUME Control, Streams, Settling, \A e \in Ends : Batched(e), batch[cur] = {},
         pc = "check", state # "SWAP_BUFFERS"
  PROVE  /\ StartSwap => \A e \in Ends : Batched(e)'
         /\ StartClosing => \A e \in Ends : batch[e] = {}
<1>1. ASSUME NEW e \in Ends
      PROVE  /\ Grown(e)
             /\ ActiveRange(rx[e]) \in Ranges /\ InactiveRange(rx[e]) \in Ranges
             /\ ActiveRange(tx[e]) \in Ranges /\ InactiveRange(tx[e]) \in Ranges
             /\ ActiveRange(rx[e]).len \in Nat /\ InactiveRange(rx[e]).len \in Nat
             /\ ActiveRange(tx[e]).len \in Nat /\ InactiveRange(tx[e]).len \in Nat
             /\ InactiveRange(tx[Other(e)]).shutdown => InactiveRange(rx[e]).shutdown
  <2>1. rx[e] \in AtomicBuffers(Byte) /\ tx[e] \in AtomicBuffers(Byte) /\ Other(e) \in Ends
        /\ tx[Other(e)] \in AtomicBuffers(Byte)
    BY TwoEnds DEF Streams
  <2>2. /\ ActiveRange(rx[e]) \in Ranges /\ InactiveRange(rx[e]) \in Ranges
        /\ ActiveRange(tx[e]) \in Ranges /\ InactiveRange(tx[e]) \in Ranges
    BY <2>1, BufferFields
  <2>3. \A r \in Ranges : r.len \in Nat
    BY BufSizeAssumption, SMT DEF Ranges
  <2>4. EndLast(Flipped(rx[e]), Flipped(tx[Other(e)]), Progress(e, context.got[1 - context.active][e]))
        /\ Grown(e)
    BY DEF Settling, DirectionOk, Flow
  <2>5. ActiveRange(Flipped(tx[Other(e)])) = InactiveRange(tx[Other(e)])
        /\ ActiveRange(Flipped(rx[e])) = InactiveRange(rx[e])
    BY <2>1, FlipStore
  <2>6. InactiveRange(tx[Other(e)]).shutdown => InactiveRange(rx[e]).shutdown
    BY <2>4, <2>5 DEF EndLast
  <2> QED BY <2>2, <2>3, <2>4, <2>6
<1>2. ASSUME NEW e \in Ends PROVE ViewRx(e) = rx[e] /\ ViewTx(e) = tx[e]
  BY DEF ViewRx, ViewTx
<1>3. ASSUME StartSwap, NEW e \in Ends PROVE Batched(e)'
  <2>1. /\ state' = "SWAP_BUFFERS" /\ UNCHANGED <<rx, tx, batch, reset>>
        /\ encoded'.rx[e] = 1 - rx[e].active /\ encoded'.tx[e] = 1 - tx[e].active
    BY <1>3 DEF StartSwap, kernel
  <2>2. ViewRx(e)' = Flipped(rx[e]) /\ ViewTx(e)' = Flipped(tx[e])
    BY <2>1 DEF ViewRx, ViewTx, Flipped
  <2>3. rx[e] \in AtomicBuffers(Byte) /\ tx[e] \in AtomicBuffers(Byte)
    BY DEF Streams
  <2>4. ActiveRange(ViewRx(e)') = InactiveRange(rx[e]) /\ ActiveRange(ViewTx(e)') = InactiveRange(tx[e])
    BY <2>2, <2>3, FlipStore
  <2> DEFINE at == ActiveRange(tx[e]).len
             it == InactiveRange(tx[e]).len
             ar == ActiveRange(rx[e]).len
             ir == InactiveRange(rx[e]).len
  <2>5. /\ at \in Nat /\ it \in Nat /\ ar \in Nat /\ ir \in Nat /\ at <= it /\ ir <= ar
        /\ InactiveRange(rx[e]).shutdown => ActiveRange(rx[e]).shutdown
    BY <1>1 DEF Grown
  <2>6. (at > 0 => it > 0) /\ (ar < BufSize => ir < BufSize)
    <3> HIDE DEF at, it, ar, ir
    <3> QED BY <2>5, BufSizeAssumption, SMT
  <2>7. batch[e] # {} => state' # "CLOSING" /\ Useful(e)'
    <3>1. batch[e] # {} => at > 0 \/ (ar < BufSize /\ ~ActiveRange(rx[e]).shutdown)
      BY <1>2 DEF Batched, Useful, Room
    <3> QED BY <2>1, <2>4, <2>5, <2>6, <3>1 DEF Useful, Room
  <2>8. "in" \in batch[e] => Readable(e)'
    <3>1. "in" \in batch[e] => ar < BufSize \/ (reset[e] # "none" /\ "out" \in batch[e])
      BY <1>2 DEF Batched, Readable, Room
    <3> QED BY <2>1, <2>4, <2>6, <3>1 DEF Readable, Room
  <2> QED BY <2>1, <2>7, <2>8 DEF Batched
<1>4. ASSUME StartClosing, NEW e \in Ends, batch[e] # {} PROVE FALSE
  <2>1. \A f \in Ends : InactiveRange(tx[f]).shutdown /\ InactiveRange(tx[f]).len = 0
    BY <1>4 DEF StartClosing, BothDelivered
  <2>2. ActiveRange(tx[e]).len > 0 \/ ~ActiveRange(rx[e]).shutdown
    BY <1>2, <1>4 DEF Batched, Useful
  <2>3. ActiveRange(tx[e]).len = 0
    <3>1. ActiveRange(tx[e]).len <= 0 /\ ActiveRange(tx[e]).len \in Nat
      BY <1>1, <2>1 DEF Grown
    <3> QED BY <3>1, SMT
  <2>4. InactiveRange(rx[e]).shutdown
    BY <1>1, <2>1, TwoEnds
  <2>5. ActiveRange(rx[e]).shutdown
    BY <1>1, <2>4 DEF Grown
  <2> QED BY <2>2, <2>3, <2>5
<1> QED BY <1>3, <1>4

LEMMA EventsInit == Init => Events
BY DEF Init, Events, Valid, Batched, Handling, Ends

(* The steps of atomic_send and atomic_recv leave the events of the other  *)
(* endpoint alone.                                                         *)
LEMMA EventsInCalls ==
  ASSUME Control, Places, Streams, Sending, Valid, pc \in {"send", "recv"},
         SendCall \/ SendStore \/ Sends \/ SendWouldBlock \/ SendFails \/ SendLoopDone
         \/ RecvCall \/ RecvStore \/ Receives \/ RecvWouldBlock \/ RecvFails \/ RecvLoopDone
         \/ RecvReturnsEof
  PROVE  Valid'
<1>0. /\ cur \in Ends /\ state = "POLL" /\ batch[cur] = {}
      /\ rx = [e \in Ends |-> rx[e]] /\ tx = [e \in Ends |-> tx[e]]
      /\ reset = [e \in Ends |-> reset[e]]
      /\ \A e \in Ends : Batched(e)
      /\ pc = "send" /\ "in" \in ev => HasRoom(cur) \/ Doomed
  BY DEF Control, Places, Handling, Valid
<1>1. /\ cur' = cur /\ state' = state /\ batch' = batch /\ ev' \subseteq ev
      /\ \A e \in Ends : e # cur => rx'[e] = rx[e] /\ tx'[e] = tx[e] /\ reset'[e] = reset[e]
      /\ pc' \in {"send", "recv", "receive", "copy", "eof", "error"}
  <2>1. CASE SendCall \/ SendLoopDone \/ RecvCall \/ RecvLoopDone
    BY <2>1 DEF SendCall, SendLoopDone, RecvCall, RecvLoopDone, InSend, InRecv
  <2>2. CASE SendStore \/ Sends
    BY <1>0, <2>2 DEF SendStore, Sends, Sendmmsg, InSend
  <2>3. CASE SendWouldBlock \/ SendFails
    BY <1>0, <2>3 DEF SendWouldBlock, SendFails, InSend
  <2>4. CASE RecvStore \/ Receives
    BY <1>0, <2>4 DEF RecvStore, Receives, Recvmmsg, InRecv
  <2>5. CASE RecvWouldBlock \/ RecvFails \/ RecvReturnsEof
    BY <1>0, <2>5 DEF RecvWouldBlock, RecvFails, RecvError, RecvReturnsEof, InRecv
  <2> QED BY <2>1, <2>2, <2>3, <2>4, <2>5
<1>2. \A e \in Ends : Batched(e)'
  BY <1>0, <1>1, OthersBatched
<1>3. ASSUME pc' = "send", "in" \in ev' PROVE (HasRoom(cur) \/ Doomed)'
  <2>1. CASE SendCall
    BY <1>0, <1>3, <2>1 DEF SendCall, InSend, HasRoom, Doomed
  <2>2. CASE Sends
    <3>1. reset[cur] = "none" /\ pc = "send" /\ rx' = rx
      BY <2>2 DEF Sends, Sendmmsg, InSend
    <3> QED BY <1>0, <1>1, <1>3, <3>1 DEF HasRoom, Doomed
  <2>3. CASE SendStore
    <3> DEFINE T == tx[cur]
    <3>1. PICK st \in SendStores(T) : step = st[1] /\ tx' = [tx EXCEPT ![cur] = st[3]]
      BY <2>3 DEF SendStore
    <3>2. pc = "send" /\ rx' = rx /\ reset' = reset
      BY <2>3 DEF SendStore, InSend
    <3>3. SendSound(T) /\ SendPlace(T, st[1])
      BY <1>0, <3>1, <3>2, StreamsAt DEF Sending
    <3>4. ~Called(T) => ~Called(st[3]) /\ ActiveRange(st[3]) = ActiveRange(T)
      BY <3>3, SendStoreSound
    <3>5. tx'[cur] = st[3]
      BY <1>0, <3>1
    <3>6. Doomed => Doomed'
      BY <1>0, <1>1, <3>2, <3>4, <3>5 DEF Doomed
    <3> QED BY <1>0, <1>1, <1>3, <3>2, <3>6 DEF HasRoom
  <2>4. CASE ~(SendCall \/ Sends \/ SendStore)
    BY <1>3, <2>4 DEF SendWouldBlock, SendFails, SendLoopDone, RecvCall, RecvStore, Receives,
       Recvmmsg, RecvWouldBlock, RecvFails, RecvLoopDone, RecvReturnsEof, InRecv
  <2> QED BY <2>1, <2>2, <2>3, <2>4
<1>4. ASSUME pc' = "receive", "in" \in ev' PROVE HasRoom(cur)'
  <2>1. SendWouldBlock \/ SendLoopDone
    BY <1>4 DEF SendCall, SendStore, Sends, Sendmmsg, InSend, SendFails, RecvCall, RecvStore,
       Receives, Recvmmsg, RecvWouldBlock, RecvFails, RecvLoopDone, RecvReturnsEof, InRecv
  <2>2. pc = "send" /\ rx' = rx /\ (reset[cur] = "none" \/ ActiveRange(tx[cur]).len = 0)
    BY <2>1 DEF SendWouldBlock, SendLoopDone, InSend
  <2>3. ~(0 > 0)
    BY SMT
  <2>4. ~Doomed
    BY <2>2, <2>3 DEF Doomed
  <2> QED BY <1>0, <1>1, <1>4, <2>2, <2>4 DEF HasRoom
<1> QED BY <1>0, <1>1, <1>2, <1>3, <1>4 DEF Valid

LEMMA EventsStep ==
  ASSUME Control, Places, Data, Undisturbed, Events, [Next]_vars
  PROVE  Events'
<1> DEFINE P == Valid'
<1> SUFFICES ASSUME crashes' = 0 PROVE P
  BY DEF Events
<1>0. crashes = 0 /\ ~overlap /\ ~overlap' /\ Valid /\ pc # "dead" /\ crashes \in Nat
  BY StillInOrder DEF Control, Undisturbed, Events
<1>1. Streams /\ Sending /\ Receiving /\ Settling
  BY <1>0 DEF Data
<1>a. /\ \A e \in Ends : pc # "send" => ~Called(tx[e])
      /\ \A e \in Ends : Batched(e)
  BY <1>0 DEF Undisturbed, Valid
<1>b. /\ rx = [e \in Ends |-> rx[e]] /\ tx = [e \in Ends |-> tx[e]]
      /\ reset = [e \in Ends |-> reset[e]] /\ cur \in Ends
      /\ state \in {"POLL", "SWAP_BUFFERS", "CLOSING", "ERROR"}
      /\ batch = [e \in Ends |-> batch[e]]
  BY DEF Control
<1>c. /\ pc \in Handling => state = "POLL"
      /\ pc = "close" => state \in {"CLOSING", "ERROR"}
      /\ pc \in {"swap", "poll"} => state = "SWAP_BUFFERS"
      /\ state = "CLOSING" => pc \in {"close", "batch", "closed", "exited", "dead"}
      /\ state = "ERROR" => pc \in {"close", "failed", "dead"}
  BY DEF Places
<1>2. CASE SendCall \/ SendStore \/ Sends \/ SendWouldBlock \/ SendFails \/ SendLoopDone
           \/ RecvCall \/ RecvStore \/ Receives \/ RecvWouldBlock \/ RecvFails \/ RecvLoopDone
           \/ RecvReturnsEof
  <2>1. pc \in {"send", "recv"}
    BY <1>2 DEF SendCall, SendStore, Sends, Sendmmsg, InSend, SendWouldBlock, SendFails,
       SendLoopDone, RecvCall, RecvStore, Receives, Recvmmsg, RecvWouldBlock, RecvFails,
       RecvError, RecvLoopDone, RecvReturnsEof, InRecv
  <2> QED BY <1>0, <1>1, <1>2, <2>1, EventsInCalls
<1>3. ASSUME NEW kinds \in [Ends -> SUBSET {"in", "out"}], EpollWait(kinds) PROVE P
  <2>1. /\ pc = "wait" /\ pc' = "batch" /\ batch' = kinds /\ UNCHANGED <<state, rx, tx, encoded, reset, interest>>
        /\ \A e \in Ends : kinds[e] \in Ready(e)
    BY <1>3 DEF EpollWait, shared, kernel
  <2>2. state = "POLL"
    BY <1>0, <1>b, <1>c, <2>1 DEF Valid
  <2>3. \A e \in Ends : interest[e] = Interest(e)
    BY <1>0, <2>1, <2>2 DEF Valid
  <2>4. ASSUME NEW e \in Ends PROVE Batched(e)'
    <3>1. ViewRx(e)' = rx[e] /\ ViewTx(e)' = tx[e]
      BY <2>1, <2>2 DEF ViewRx, ViewTx
    <3>2. kinds[e] # {} => Interest(e) # {}
      BY <2>1, <2>3 DEF Ready
    <3>3. "in" \in kinds[e] => "in" \in Interest(e) \/ (reset[e] # "none" /\ "out" \in kinds[e])
      BY <2>1, <2>3 DEF Ready
    <3>4. Interest(e) # {} => \/ ActiveRange(tx[e]).len > 0
                              \/ ActiveRange(rx[e]).len < BufSize /\ ~ActiveRange(rx[e]).shutdown
      BY DEF Interest
    <3>5. "in" \in Interest(e) => ActiveRange(rx[e]).len < BufSize
      BY DEF Interest
    <3> QED BY <2>1, <2>2, <3>1, <3>2, <3>3, <3>4, <3>5 DEF Batched, Useful, Readable, Room
  <2> QED BY <2>1, <2>2, <2>3, <2>4
          DEF Valid, Handling, Interest
<1>4. ASSUME NEW c \in Ends, Dispatch(c) PROVE P
  <2>1. /\ pc = "batch" /\ batch[c] # {} /\ batch' = [batch EXCEPT ![c] = {}]
        /\ cur' = c /\ ev' = batch[c] /\ UNCHANGED <<state, rx, tx, encoded, reset>>
    BY <1>4 DEF Dispatch, shared, kernel
  <2>2. state = "POLL"
    BY <1>0, <1>a, <1>b, <1>c, <2>1 DEF Valid, Batched
  <2>3. pc' = "handle"
    BY <1>4, <2>2 DEF Dispatch
  <2>4. batch'[c] = {} /\ \A e \in Ends : e # c => batch'[e] = batch[e]
    BY <1>b, <2>1
  <2>5. \A e \in Ends : Batched(e)'
    BY <1>a, <2>1, <2>2, <2>4 DEF Batched, Useful, Readable, Room, ViewRx, ViewTx
  <2>6. ASSUME "in" \in batch[c] PROVE (HasRoom(cur) \/ ("out" \in ev /\ Doomed))'
    <3>1. Useful(c) /\ Readable(c) /\ ~Called(tx[c])
      BY <1>a, <2>1, <2>6 DEF Batched
    <3>2. ViewRx(c) = rx[c] /\ ViewTx(c) = tx[c]
      BY <2>2 DEF ViewRx, ViewTx
    <3> QED BY <2>1, <3>1, <3>2 DEF Useful, Readable, Room, HasRoom, Doomed
  <2> QED BY <2>1, <2>2, <2>3, <2>4, <2>5, <2>6 DEF Valid
<1>5. CASE BatchDone
  <2>1. /\ pc = "batch" /\ pc' = (IF state = "CLOSING" THEN "closed" ELSE "wait")
        /\ UNCHANGED <<state, rx, tx, encoded, reset, batch, cur, interest>>
    BY <1>5 DEF BatchDone, shared, kernel
  <2>2. \A e \in Ends : Batched(e)'
    BY <1>a, <2>1 DEF Batched, Useful, Readable, Room, ViewRx, ViewTx
  <2> QED BY <1>0, <2>1, <2>2 DEF Valid, Handling, Interest
<1>6. CASE SendOrNot \/ ReceiveOrNot
  <2>1. /\ pc \in {"handle", "receive"} /\ UNCHANGED <<state, rx, tx, encoded, reset, batch, cur, ev>>
    BY <1>6 DEF SendOrNot, ReceiveOrNot, shared, kernel
  <2>2. \A e \in Ends : Batched(e)'
    BY <1>a, <2>1 DEF Batched, Useful, Readable, Room, ViewRx, ViewTx
  <2>3. state = "POLL" /\ batch[cur] = {}
    BY <1>0, <1>c, <2>1 DEF Handling, Valid
  <2>4. CASE SendOrNot
    <3>1. pc = "handle" /\ pc' = (IF "out" \in ev THEN "send" ELSE "receive")
      BY <2>4 DEF SendOrNot
    <3>2. "in" \in ev => HasRoom(cur) \/ ("out" \in ev /\ Doomed)
      BY <1>0, <3>1 DEF Valid
    <3> QED BY <2>1, <2>2, <2>3, <3>1, <3>2 DEF Valid, HasRoom, Doomed
  <2>5. CASE ReceiveOrNot
    <3>1. pc = "receive" /\ ("in" \in ev => HasRoom(cur))
      BY <1>0, <2>5 DEF ReceiveOrNot, Valid
    <3>2. pc' \in {"copy", "recv"}
      BY <2>5, <3>1 DEF ReceiveOrNot, WantsRecv
    <3> QED BY <2>1, <2>2, <2>3, <3>2 DEF Valid
  <2> QED BY <1>6, <2>4, <2>5
<1>7. CASE MarkEof
  <2>1. /\ pc = "eof" /\ pc' = "copy" /\ UNCHANGED <<state, tx, reset, batch, cur>>
        /\ \E b : rx' = [rx EXCEPT ![cur] = b]
    BY <1>7 DEF MarkEof, kernel
  <2>2. state = "POLL" /\ batch[cur] = {}
    BY <1>0, <1>c, <2>1 DEF Handling, Valid
  <2>3. \A e \in Ends : Batched(e)'
    BY <1>a, <1>b, <2>1, <2>2, OthersBatched
  <2> QED BY <2>1, <2>2, <2>3 DEF Valid
<1>8. CASE CopyActiveRanges
  <2>1. /\ pc = "copy" /\ pc' = "transform" /\ UNCHANGED <<state, encoded, reset, batch, cur>>
        /\ rx' = [e \in Ends |-> Synced(rx[e])] /\ tx' = [e \in Ends |-> Synced(tx[e])]
    BY <1>8 DEF CopyActiveRanges, kernel
  <2>2. state = "POLL" /\ batch[cur] = {}
    BY <1>0, <1>c, <2>1 DEF Handling, Valid
  <2>3. ASSUME NEW e \in Ends
        PROVE  /\ ActiveRange(ViewTx(e))' = ActiveRange(ViewTx(e))
               /\ ActiveRange(ViewRx(e))' = ActiveRange(ViewRx(e))
    <3>1. /\ SendSound(tx[e]) /\ RecvSound(rx[e])
      BY <2>2, StreamsAt, <1>1, TwoEnds
    <3>2. /\ tx[e].state # "SWAP" /\ ~Called(rx[e])
      BY <1>0, <2>1 DEF Undisturbed, Called
    <3>3. ActiveRange(Synced(tx[e])) = ActiveRange(tx[e]) /\ ActiveRange(Synced(rx[e])) = ActiveRange(rx[e])
      BY <3>1, <3>2, SyncedSound
    <3> QED BY <2>1, <2>2, <3>3 DEF ViewRx, ViewTx
  <2>4. \A e \in Ends : Batched(e)'
    BY <1>a, <2>1, <2>2, <2>3, RangesBatched
  <2> QED BY <2>1, <2>2, <2>4 DEF Valid
<1>9. ASSUME NEW result \in ParseResults, Transform(result) PROVE P
  <2>1. /\ pc = "transform" /\ pc' = "check" /\ UNCHANGED <<state, encoded, reset, batch, cur>>
    BY <1>9 DEF Transform, kernel
  <2>2. state = "POLL" /\ batch[cur] = {}
    BY <1>0, <1>c, <2>1 DEF Handling, Valid
  <2>3. ASSUME NEW e \in Ends
        PROVE  /\ ActiveRange(ViewTx(e))' = ActiveRange(ViewTx(e))
               /\ ActiveRange(ViewRx(e))' = ActiveRange(ViewRx(e))
    <3>1. \A s \in Ends : /\ ActiveRange(rx'[s]) = ActiveRange(rx[s])
                          /\ ActiveRange(tx'[Other(s)]) = ActiveRange(tx[Other(s)])
      BY <1>1, <1>9, TransformCarries DEF Carried
    <3>2. ActiveRange(rx'[e]) = ActiveRange(rx[e]) /\ ActiveRange(tx'[e]) = ActiveRange(tx[e])
      BY <3>1, TwoEnds
    <3> QED BY <2>1, <2>2, <3>2 DEF ViewRx, ViewTx
  <2>4. \A e \in Ends : Batched(e)'
    BY <1>a, <2>1, <2>2, <2>3, RangesBatched
  <2> QED BY <2>1, <2>2, <2>4 DEF Valid
<1>10. CASE StartClosing
  <2>1. /\ pc = "check" /\ pc' = "close" /\ state' = "CLOSING" /\ UNCHANGED <<batch, cur>>
    BY <1>10 DEF StartClosing
  <2>2. state = "POLL" /\ batch[cur] = {}
    BY <1>0, <1>c, <2>1 DEF Handling, Valid
  <2>3. \A e \in Ends : batch[e] = {}
    BY <1>1, <1>a, <1>10, <2>1, <2>2, GrownBatched
  <2>4. \A e \in Ends : Batched(e)'
    BY <2>1, <2>3 DEF Batched
  <2> QED BY <2>1, <2>4 DEF Valid, Handling
<1>11. CASE GiveUp
  <2>1. /\ pc = "error" /\ pc' = "close" /\ state' = "ERROR" /\ UNCHANGED <<rx, tx, reset, batch, cur>>
    BY <1>11 DEF GiveUp, kernel
  <2>2. state = "POLL"
    BY <1>c, <2>1 DEF Handling
  <2>3. \A e \in Ends : Batched(e)'
    BY <1>a, <2>1, <2>2, RangesBatched DEF ViewRx, ViewTx
  <2> QED BY <2>1, <2>3 DEF Valid, Handling
<1>12. CASE Close
  <2>1. /\ pc = "close" /\ UNCHANGED <<state, rx, tx, encoded, reset>>
        /\ IF state = "ERROR" THEN Fails ELSE Returns
    BY <1>12 DEF Close, shared, kernel
  <2>2. CASE state = "ERROR"
    BY <2>1, <2>2 DEF Fails, Valid, Batched, Handling
  <2>3. CASE state = "CLOSING"
    <3>1. /\ pc' = "batch" /\ batch' = batch /\ state' = "CLOSING"
      BY <2>1, <2>3 DEF Returns
    <3>2. \A e \in Ends : batch[e] = {}
      BY <1>a, <2>3 DEF Batched
    <3> QED BY <3>1, <3>2 DEF Valid, Batched, Handling
  <2> QED BY <1>c, <2>1, <2>2, <2>3
<1>13. CASE StartSwap
  <2>1. /\ pc = "check" /\ pc' = "swap" /\ UNCHANGED <<batch, cur>>
    BY <1>13 DEF StartSwap
  <2>2. state = "POLL" /\ batch[cur] = {}
    BY <1>0, <1>c, <2>1 DEF Handling, Valid
  <2>3. \A e \in Ends : Batched(e)'
    BY <1>1, <1>a, <1>13, <2>1, <2>2, GrownBatched
  <2> QED BY <2>1, <2>2, <2>3 DEF Valid
<1>14. CASE SwapStore
  <2>1. /\ pc = "swap" /\ pc' = "swap" /\ UNCHANGED <<state, encoded, batch, cur, reset>>
    BY <1>14 DEF SwapStore, SwapRx, SwapTx, SwapContext, InSwap, kernel
  <2>2. state = "SWAP_BUFFERS" /\ batch[cur] = {}
    BY <1>0, <1>c, <2>1 DEF Valid
  <2>3. \A e \in Ends : ViewRx(e)' = ViewRx(e) /\ ViewTx(e)' = ViewTx(e)
    BY <1>1, <1>14, SwapViews
  <2>4. \A e \in Ends : Batched(e)'
    BY <1>a, <2>1, <2>2, <2>3, RangesBatched
  <2> QED BY <2>1, <2>2, <2>4 DEF Valid
<1>15. CASE SwapEpoll
  <2>1. /\ pc = "swap" /\ pc' = "poll" /\ UNCHANGED <<state, rx, tx, encoded, reset, batch, cur>>
        /\ interest' = [e \in Ends |-> Interest(e)]
    BY <1>15 DEF SwapEpoll, EpollFromBuffers, shared
  <2>2. state = "SWAP_BUFFERS" /\ batch[cur] = {}
    BY <1>0, <1>c, <2>1 DEF Valid
  <2>3. \A e \in Ends : Batched(e)'
    BY <1>a, <2>1 DEF Batched, Useful, Readable, Room, ViewRx, ViewTx
  <2>4. \A e \in Ends : interest'[e] = Interest(e)'
    BY <2>1 DEF Interest
  <2> QED BY <2>1, <2>2, <2>3, <2>4 DEF Valid
<1>16. CASE SwapDone
  <2>1. /\ pc = "poll" /\ pc' = "batch" /\ state' = "POLL" /\ UNCHANGED <<interest, reset, batch>>
        /\ rx' = [e \in Ends |-> Settled(rx[e])] /\ tx' = [e \in Ends |-> Settled(tx[e])]
    BY <1>16 DEF SwapDone, Returns, kernel
  <2>2. /\ state = "SWAP_BUFFERS" /\ \A e \in Ends : interest[e] = Interest(e)
    BY <1>0, <1>c, <2>1 DEF Valid
  <2>3. ASSUME NEW e \in Ends
        PROVE  /\ ActiveRange(tx'[e]) = ActiveRange(tx[e]) /\ ViewTx(e) = tx[e]
               /\ ActiveRange(rx'[e]) = ActiveRange(rx[e]) /\ ViewRx(e) = rx[e]
    <3>1. \A f \in Ends : ViewRx(f) = rx[f] /\ ViewTx(f) = tx[f]
      BY <1>1, <2>1, <2>2, SwappedViews DEF Places
    <3>2. RecvSound(rx[e]) /\ SendSound(tx[e])
      BY <1>1, <3>1, TwoEnds DEF Streams, DirectionOk, Flow
    <3>3. tx[e].state # "SWAP" /\ ~Called(rx[e])
      BY <1>0, <2>1 DEF Undisturbed, Called
    <3> QED BY <2>1, <3>1, <3>2, <3>3, SettledSound
  <2>4. \A e \in Ends : /\ ActiveRange(ViewTx(e))' = ActiveRange(ViewTx(e))
                        /\ ActiveRange(ViewRx(e))' = ActiveRange(ViewRx(e))
    BY <2>1, <2>3 DEF ViewRx, ViewTx
  <2>5. \A e \in Ends : Batched(e)'
    BY <1>a, <2>1, <2>4, RangesBatched
  <2>6. \A e \in Ends : Interest(e)' = Interest(e)
    BY <2>3 DEF Interest
  <2> QED BY <2>1, <2>2, <2>5, <2>6 DEF Valid, Handling
<1>17. ASSUME NEW c \in MayReset, Reset(c) PROVE P
  <2>1. /\ UNCHANGED <<state, encoded, rx, tx, pc, cur, ev, batch, interest>>
        /\ \A e \in Ends : reset[e] # "none" => reset'[e] # "none"
    BY <1>17, <1>b DEF Reset, shared, process
  <2>2. \A e \in Ends : Batched(e)'
    BY <1>a, <2>1 DEF Batched, Useful, Readable, Room, ViewRx, ViewTx
  <2>3. Doomed => Doomed'
    BY <1>b, <2>1 DEF Doomed
  <2> QED BY <1>0, <2>1, <2>2, <2>3 DEF Valid, Interest, HasRoom
<1>18. CASE UNCHANGED vars
  <2>1. UNCHANGED <<state, encoded, rx, tx, pc, cur, ev, batch, interest, reset>>
    BY <1>18 DEF vars, shared, kernel, process
  <2> QED BY <1>0, <2>1 DEF Valid, Batched, Useful, Readable, Room, ViewRx, ViewTx, Interest, HasRoom,
             Doomed
<1>19. ~Crash /\ ~Recover
  BY <1>0 DEF Crash, Recover
<1> HIDE DEF P
<1>20. CASE \E result \in ParseResults : Transform(result)
  BY <1>9, <1>20
<1> QED
  <2>1. CASE Next
    BY <1>2, <1>3, <1>4, <1>5, <1>6, <1>7, <1>8, <1>10, <1>11, <1>12, <1>13, <1>14, <1>15,
       <1>16, <1>17, <1>19, <1>20, <2>1 DEF Next, Run
  <2> QED BY <1>18, <2>1

-------------------------------------------------------------------------------
LEMMA Inductive == Spec => []IInv
<1>1. Init => IInv
  BY ControlInit, DataInit, UndisturbedInit, EventsInit DEF IInv
<1>2. IInv /\ [Next]_vars => IInv'
  <2> SUFFICES ASSUME IInv, [Next]_vars PROVE IInv'
    OBVIOUS
  <2>1. Control /\ Places /\ Data /\ Undisturbed /\ Events
    BY DEF IInv
  <2>2. Control' /\ Places'
    BY <2>1, ControlStep
  <2>3. Data'
    BY <2>1, DataStep
  <2>4. Undisturbed'
    BY <2>1, UndisturbedStep
  <2>5. Events'
    BY <2>1, EventsStep
  <2> QED BY <2>2, <2>3, <2>4, <2>5 DEF IInv
<1> QED BY <1>1, <1>2, PTL DEF Spec

(* Every variable keeps its type, and the buffers are well formed as long  *)
(* as no transformation ran over an unfinished transaction.                *)
THEOREM TypeCorrect == Spec => []TypeOK
<1>1. IInv => TypeOK
  <2> SUFFICES ASSUME IInv PROVE TypeOK
    OBVIOUS
  <2>1. Control
    BY DEF IInv
  <2>2. ASSUME NEW e \in Ends PROVE taken[e] \in 0 .. Total[e]
    <3>1. taken[e] \in Nat /\ taken[e] <= Total[e] /\ Total[e] \in Nat
      BY <2>1, TotalsAssumption DEF Control
    <3> QED BY <3>1, SMT
  <2>3. overlap \/ {rx[e] : e \in Ends} \cup {tx[e] : e \in Ends} \subseteq AtomicBuffers(Byte)
    BY DEF IInv, Data, Streams
  <2> QED BY <2>1, <2>2, <2>3 DEF TypeOK, Control, Handling
<1> QED BY <1>1, Inductive, PTL

(* What the bytes of a direction are a beginning of.                       *)
LEMMA BeginningOfConcat ==
  ASSUME NEW q \in Seq(Byte), NEW u \in Seq(Byte)
  PROVE  Prefix(q, q \o u)
<1>1. q \o u \in Seq(Byte) /\ Len(q \o u) = Len(q) + Len(u) /\ Len(q) \in Nat /\ Len(u) \in Nat
  BY ConcatProperties, LenProperties
<1>2. Len(q) <= Len(q \o u)
  BY <1>1, SMT
<1>3. q = SubSeq(q \o u, 1, Len(q))
  BY <1>1, SMT
<1> QED BY <1>2, <1>3 DEF Prefix

LEMMA StreamIsIntact ==
  ASSUME NEW s \in Ends, NEW c, NEW q \in Seq(Byte), NEW u \in Seq(Byte),
         c.taken \in Nat, c.taken <= Total[s], IsStream(s, c, q \o u)
  PROVE  \/ Prefix(q, Numbered(0, Total[s]))
         \/ /\ Total[s] >= HeaderLen[s]
            /\ Prefix(q, <<Header>> \o Numbered(HeaderLen[s], Total[s] - HeaderLen[s]))
<1> DEFINE n == c.taken
           t == Total[s]
           h == HeaderLen[s]
           rest == Numbered(n, t - n)
<1>1. t \in Nat /\ n \in Nat /\ h \in Nat /\ n <= t
  BY TotalsAssumption
<1> HIDE DEF n, t, h
<1>2. /\ t - n \in Nat /\ n + (t - n) = t /\ 0 + (n + (t - n)) <= t /\ n + (t - n) <= t /\ 0 \in Nat
      /\ 0 + n = n /\ 0 + n <= t
  BY <1>1, SMT
<1>3. rest \in Seq(Byte)
  BY <1>1, <1>2, NumberedType DEF t
<1>4. (q \o u) \o rest = q \o (u \o rest) /\ u \o rest \in Seq(Byte)
  BY <1>3, BytesConcat
<1>5. CASE q \o u = Numbered(0, n)
  <2>1. Numbered(0, n) \o Numbered(0 + n, t - n) = Numbered(0, n + (t - n))
    <3> DEFINE m == t - n
    <3>1. m \in Nat /\ 0 + (n + m) <= Total[s]
      BY <1>2 DEF t
    <3> HIDE DEF m
    <3>2. ASSUME NEW z \in Nat, z = 0
          PROVE  Numbered(z, n) \o Numbered(z + n, m) = Numbered(z, n + m)
      <4>1. z \in Nat /\ n \in Nat /\ m \in Nat /\ z + (n + m) <= Total[s]
        BY <1>1, <3>1, <3>2
      <4> QED BY <4>1, NumberedMore, ZenonT(20)
    <3> QED BY <3>2 DEF m
  <2>2. q \o (u \o rest) = Numbered(0, t)
    BY <1>2, <1>4, <1>5, <2>1
  <2> QED BY <1>4, <2>2, BeginningOfConcat DEF t
<1>6. CASE h <= n /\ q \o u = <<Header>> \o Numbered(h, n - h)
  <2>1. /\ n - h \in Nat /\ h + (n - h) = n /\ h + ((n - h) + (t - n)) <= t
        /\ (n - h) + (t - n) = t - h /\ t >= h /\ h + (n - h) <= t
    BY <1>1, <1>6, SMT
  <2>2. Numbered(h, n - h) \o Numbered(h + (n - h), t - n) = Numbered(h, (n - h) + (t - n))
    <3> DEFINE k == n - h
               m == t - n
    <3>1. k \in Nat /\ m \in Nat /\ h + (k + m) <= Total[s]
      BY <1>2, <2>1 DEF t
    <3> HIDE DEF k, m
    <3>2. Numbered(h, k) \o Numbered(h + k, m) = Numbered(h, k + m)
      BY <1>1, <3>1, NumberedMore, ZenonT(30)
    <3> QED BY <3>2 DEF k, m
  <2>3. Numbered(h, n - h) \in Seq(Byte)
    BY <1>1, <2>1, NumberedType DEF t
  <2>4. (<<Header>> \o Numbered(h, n - h)) \o rest = <<Header>> \o (Numbered(h, n - h) \o rest)
    BY <1>3, <2>3, BytesConcat, HeaderByte
  <2>5. q \o (u \o rest) = <<Header>> \o Numbered(h, t - h)
    BY <1>4, <1>6, <2>1, <2>2, <2>4
  <2> QED BY <1>4, <2>1, <2>5, BeginningOfConcat DEF t, h
<1> QED BY <1>5, <1>6 DEF IsStream, n, h

(* What every state says of the direction towards e.                       *)
LEMMA DirectionFlow ==
  ASSUME IInv, ~overlap, NEW e \in Ends
  PROVE  LET s == Other(e)
             c == Progress(s, ViewGot(s))
         IN /\ s \in Ends /\ Other(s) = e
            /\ Flow(s, ViewRx(s), ViewTx(e), c)
            /\ c.out = out[e] /\ c.taken = taken[s] /\ c.fin = fin[s] /\ c.outFin = outFin[e]
            /\ c.early = early[e] /\ c.taken \in Nat /\ c.taken <= Total[s]
            /\ c.out \in Seq(Byte) /\ Queued(ViewRx(s), ViewTx(e)) \in Seq(Byte)
<1> DEFINE s == Other(e)
           c == Progress(s, ViewGot(s))
<1>1. s \in Ends /\ Other(s) = e
  BY TwoEnds
<1>2. Flow(s, ViewRx(s), ViewTx(e), c)
  BY <1>1 DEF IInv, Data, Streams, DirectionOk
<1>3. c.out \in Seq(Byte) /\ Queued(ViewRx(s), ViewTx(e)) \in Seq(Byte)
  BY <1>2, FlowTypes
<1>4. taken[s] \in Nat /\ taken[s] <= Total[s]
  BY <1>1 DEF IInv, Control
<1> QED BY <1>1, <1>2, <1>3, <1>4 DEF Progress

(* Every peer receives a prefix of what the other one sent, or of what the *)
(* rewritten header makes of it, in order, however often the worker dies   *)
(* and wherever, until a transformation runs over an unfinished            *)
(* transaction; and without a death it never does.                         *)
THEOREM StreamsStayIntact == Spec => []StreamsIntact
<1>1. IInv => StreamsIntact
  <2> SUFFICES ASSUME IInv, ~(overlap /\ crashes > 0), NEW e \in Ends PROVE Intact(e)
    BY DEF StreamsIntact
  <2>1. ~overlap
    <3>1. crashes \in Nat /\ (crashes = 0 => ~overlap)
      BY DEF IInv, Control, Undisturbed
    <3> QED BY <3>1, SMT
  <2> DEFINE s == Other(e)
             c == Progress(s, ViewGot(s))
             q == Queued(ViewRx(s), ViewTx(e))
  <2>2. /\ s \in Ends /\ Flow(s, ViewRx(s), ViewTx(e), c)
        /\ c.out = out[e] /\ c.taken \in Nat /\ c.taken <= Total[s]
        /\ c.out \in Seq(Byte) /\ q \in Seq(Byte)
    BY <2>1, DirectionFlow
  <2>3. IsStream(s, c, c.out \o q)
    BY <2>2 DEF Flow
  <2> HIDE DEF c, q
  <2>4. \/ Prefix(c.out, Numbered(0, Total[s]))
        \/ /\ Total[s] >= HeaderLen[s]
           /\ Prefix(c.out, <<Header>> \o Numbered(HeaderLen[s], Total[s] - HeaderLen[s]))
    BY <2>2, <2>3, StreamIsIntact
  <2> QED BY <2>2, <2>4 DEF Intact, Verbatim, Rewrite
<1> QED BY <1>1, Inductive, PTL

(* SHUT_WR is called towards a peer only after the end of the other peer's *)
(* stream, which is known to be whole unless an error of the socket was    *)
(* lost to a worker that died or was an EPIPE taken for the end; and after *)
(* all that was received, unless a recovery calls it before an end of      *)
(* stream that was passed on is that of the bytes.                         *)
THEOREM EndAfterData == Spec => []EofAfterData
<1>1. IInv => EofAfterData
  <2> SUFFICES ASSUME IInv, ~overlap, NEW e \in Ends, outFin[e]
               PROVE  Ended(Other(e)) /\ (Forwarded(e) \/ early[e])
    BY DEF EofAfterData
  <2> DEFINE s == Other(e)
             c == Progress(s, ViewGot(s))
             R == ViewRx(s)
             T == ViewTx(e)
  <2>1. /\ s \in Ends /\ Other(s) = e /\ Flow(s, R, T, c)
        /\ c.out = out[e] /\ c.taken = taken[s] /\ c.fin = fin[s] /\ c.outFin = outFin[e]
        /\ c.early = early[e] /\ c.out \in Seq(Byte)
    BY DirectionFlow
  <2>2. /\ c.fin /\ (c.early \/ (Unsent(T) = <<>> /\ Unread(R) = <<>>))
    BY <2>1 DEF Flow, EndLast
  <2>3. ASSUME Unsent(T) = <<>>, Unread(R) = <<>> PROVE Forwarded(e)
    <3>1. <<>> \o <<>> = <<>>
      OBVIOUS
    <3>2. c.out \o Queued(R, T) = c.out
      <4> HIDE DEF c
      <4> QED BY <2>1, <2>3, <3>1, ConcatEmptySeq DEF Queued
    <3>3. IsStream(s, c, c.out)
      BY <2>1, <3>2 DEF Flow
    <3> HIDE DEF c
    <3> QED BY <2>1, <2>3, <3>3 DEF IsStream, Forwarded
  <2>4. taken[s] = Total[s] \/ ErrorLost(s)
    BY <2>1, <2>2 DEF IInv, Data, Ending
  <2> HIDE DEF c, R, T
  <2> QED BY <2>1, <2>2, <2>3, <2>4 DEF Ended
<1> QED BY <1>1, Inductive, PTL

(* The connection is closed in an orderly way only after all that was      *)
(* received of both streams has been delivered, and that was the whole of  *)
(* them unless an error of a socket was lost or an EPIPE was taken for the *)
(* end; and it is given up only after an error of a socket.                *)
THEOREM ClosedOnlyWhenDelivered == Spec => []ClosedWhenDelivered
<1>1. IInv => ClosedWhenDelivered
  BY DEF IInv, Data, Ending, Ended, ClosedWhenDelivered
<1> QED BY <1>1, Inductive, PTL

(* Until the header of a direction is dealt with, nothing was forwarded    *)
(* and what was received does not wrap around.                             *)
THEOREM HeaderStaysAtFront == Spec => []HeaderAtFront
<1>1. IInv => HeaderAtFront
  <2> SUFFICES ASSUME IInv, ~overlap, pc = "transform", NEW e \in Ends,
                      ~context.got[context.active][e]
               PROVE  /\ InactiveRange(tx[Other(e)]).len = 0
                      /\ End(InactiveRange(rx[e])) <= BufSize
    BY DEF HeaderAtFront
  <2>1. state = "POLL" /\ Streams /\ Settling
    BY DEF IInv, Places, Handling, Data
  <2>2. /\ Flow(e, rx[e], tx[Other(e)], Progress(e, Active(e))) /\ RecvSound(rx[e]) /\ Other(e) \in Ends
    BY <2>1, StreamsAt, TwoEnds
  <2>3. ~Called(rx[e]) /\ InactiveRange(rx[e]) = ActiveRange(rx[e])
        /\ InactiveRange(tx[Other(e)]) = ActiveRange(tx[Other(e)])
    BY <2>1, <2>2 DEF Settling, Unfinished, Called
  <2>4. HeaderFirst(rx[e], tx[Other(e)], Progress(e, Active(e)))
    BY <2>2 DEF Flow, Progress, Active
  <2>5. RecvOrigin(rx[e]) = ActiveRange(rx[e]) /\ ActiveRange(rx[e]) \in Ranges
    BY <2>2, <2>3, RecvIdle, RecvFields
  <2>6. ActiveRange(tx[Other(e)]).len = 0 /\ ActiveRange(rx[e]).start = 0
    BY <2>4, <2>5 DEF HeaderFirst
  <2>7. ActiveRange(rx[e]).len \in 0 .. BufSize
    BY <2>5 DEF Ranges
  <2>8. \A k \in 0 .. BufSize : 0 + k <= BufSize
    BY BufSizeAssumption, SMT
  <2> QED BY <2>3, <2>6, <2>7, <2>8 DEF End
<1> QED BY <1>1, Inductive, PTL

(* As long as no worker dies, an event that epoll_wait reported is still   *)
(* good for something when its turn comes: it never finds the connection   *)
(* closed, and never a full buffer to receive into.                        *)
THEOREM EventsRemainValid == Spec => [](crashes = 0 => EventsStayValid)
<1>1. IInv => (crashes = 0 => EventsStayValid)
  BY DEF IInv, Events, Valid, EventsStayValid
<1> QED BY <1>1, Inductive, PTL
===============================================================================
