------------------------------ MODULE Connection ------------------------------
(***************************************************************************)
(* One proxied connection in the worker (src/worker/main.c and             *)
(* src/worker/transform.c): two endpoints, `down` towards the client and   *)
(* `up` towards the server, each with a receive and a send buffer in       *)
(* shared memory.  handle_connection sends, receives, transforms the       *)
(* inactive ranges and swaps them in; every store to shared memory that a  *)
(* later worker can see is a step, and the worker may be killed between    *)
(* any two.  The worker that replaces it gets the descriptors from the     *)
(* listener and registers them with its own epoll instance.                *)
(*                                                                         *)
(* Bytes are numbered as their peer sends them.  A rewritten HTTP header   *)
(* is the single byte Header.  A peer may reset its connection: the kernel *)
(* reports that once, to whichever call comes first and before the bytes   *)
(* that are still to be received, and from then on nothing can be sent.    *)
(* The error is EPIPE if the end of the peer's stream had arrived before,  *)
(* which the worker takes for that end, and otherwise ECONNRESET; then     *)
(* those bytes may end before the last one, and they end like a stream.    *)
(***************************************************************************)
EXTENDS AtomicBuffer

CONSTANTS
  Total,       \* how many bytes each peer sends, [Ends -> Nat]
  HeaderLen,   \* how many of them are its HTTP header, [Ends -> Nat]
  MaxCrashes,  \* bound: times the worker dies
  MayReset     \* bound: the peers that may reset their connection

Ends == {"down", "up"}
Other(e) == IF e = "down" THEN "up" ELSE "down"

ASSUME TotalsAssumption ==
  /\ Total \in [Ends -> Nat] /\ HeaderLen \in [Ends -> Nat \ {0}]
  /\ MaxCrashes \in Nat /\ MayReset \subseteq Ends

VARIABLES
  (* shared memory: struct connection *)
  state,       \* "POLL", "SWAP_BUFFERS", "CLOSING" or "ERROR"
  encoded,     \* bits 8-12 of the state: the ranges to activate
  rx, tx,      \* the buffers, [Ends -> AtomicBuffers]
  context,     \* transformation_context: the same double buffering
  (* kernel *)
  taken,       \* how many bytes recvmmsg has handed out, per endpoint
  reset,       \* "none", "pending" or "reported": the error of the socket
  errno,       \* which error that is
  fin,         \* the end of the peer's stream: recvmmsg has reported it, or
               \* the worker has noted it for an EPIPE
  out,         \* the bytes sent to the peer
  outFin,      \* SHUT_WR was called towards the peer
  interest,    \* epoll: the events registered for the endpoint
  (* the worker process *)
  pc, step,    \* place in handle_connection, and in atomic_send/atomic_recv
  cur, ev,     \* the endpoint and the events being handled
  batch,       \* what epoll_wait returned and is still to be handled
  (* history *)
  overlap,     \* a transformation ran over an unfinished transaction
  early,       \* SHUT_WR was called before the last byte, per endpoint
  crashes

shared  == <<state, encoded, rx, tx, context>>
kernel  == <<taken, reset, errno, fin, out, outFin>>
process == <<pc, step, cur, ev, batch>>
history == <<overlap, early, crashes>>
vars    == <<shared, kernel, interest, process, history>>

Longest == IF Total.down >= Total.up THEN Total.down ELSE Total.up
Header  == Longest + 1
Blank   == 0
Byte    == Blank .. Header

Numbered(first, n) == [i \in 1 .. n |-> first + i]

NoneEncoded ==
  [rx |-> [e \in Ends |-> 0], tx |-> [e \in Ends |-> 0], context |-> 0]

(* As ipc_connected leaves it, with both descriptors registered for input, *)
(* on its way into handle_connection for `down` without events.            *)
Init ==
  /\ state = "POLL"
  /\ encoded = NoneEncoded
  /\ rx = [e \in Ends |-> NewBuffer(Blank)]
  /\ tx = [e \in Ends |-> NewBuffer(Blank)]
  /\ context = [active |-> 0, got |-> [a \in 0 .. 1 |-> [e \in Ends |-> FALSE]]]
  /\ reset = [e \in Ends |-> "none"] /\ errno = [e \in Ends |-> "none"]
  /\ taken = [e \in Ends |-> 0] /\ fin = [e \in Ends |-> FALSE]
  /\ out = [e \in Ends |-> <<>>] /\ outFin = [e \in Ends |-> FALSE]
  /\ interest = [e \in Ends |-> {"in"}]
  /\ pc = "handle" /\ step = "idle" /\ cur = "down" /\ ev = {}
  /\ batch = [e \in Ends |-> {}]
  /\ overlap = FALSE /\ early = [e \in Ends |-> FALSE] /\ crashes = 0

-------------------------------------------------------------------------------
(* The event loop.  EPOLLERR and EPOLLHUP are reported of every registered *)
(* descriptor and are taken for both kinds of events.                      *)
Ready(e) == IF reset[e] = "none" \/ interest[e] = {}
            THEN SUBSET interest[e]
            ELSE {{"in", "out"}}

EpollWait(events) ==
  /\ pc = "wait"
  /\ \A e \in Ends : events[e] \in Ready(e)
  /\ \E e \in Ends : events[e] # {}
  /\ pc' = "batch" /\ batch' = events
  /\ UNCHANGED <<shared, kernel, interest, step, cur, ev, history>>

DispatchAsPoll(e) ==
  /\ pc = "batch" /\ batch[e] # {}
  /\ batch' = [batch EXCEPT ![e] = {}]
  /\ cur' = e /\ ev' = batch[e]
  /\ pc' = IF state = "CLOSING" THEN "exited" ELSE "handle"
  /\ UNCHANGED <<shared, kernel, interest, step, history>>

(* handle_connection's switch on the state.  After the connection is       *)
(* closed its descriptors are unknown, which ends the worker ("exited").   *)
Dispatch(e) ==
  /\ pc = "batch" /\ batch[e] # {}
  /\ batch' = [batch EXCEPT ![e] = {}]
  /\ cur' = e /\ ev' = batch[e]
  /\ pc' = CASE state = "POLL"         -> "handle"
             [] state = "SWAP_BUFFERS" -> "swap"
             [] state = "CLOSING"      -> "exited"
  /\ UNCHANGED <<shared, kernel, interest, step, history>>

BatchDone ==
  /\ pc = "batch" /\ \A e \in Ends : batch[e] = {}
  /\ pc' = IF state = "CLOSING" THEN "closed" ELSE "wait"
  /\ UNCHANGED <<shared, kernel, interest, step, cur, ev, batch, history>>

-------------------------------------------------------------------------------
(* atomic_send and atomic_recv, as modelled in AtomicSend and AtomicRecv:  *)
(* <<from, to, the buffer after the store>>.                               *)
Entry(b) == CASE b.state = "INIT"       -> "prepare"
              [] b.state = "DO_SYSCALL" -> "syscall"
              [] b.state = "SWAP"       -> "restore"

SendStores(b) ==
  { <<"prepare", "begin",   Prepared(b)>>,
    <<"begin",   "syscall", Begun(b)>>,
    <<"restore", "copy",    SendRestored(b)>>,
    <<"copy",    "flip",    WithInactive(b, SendResult(b))>>,
    <<"flip",    "finish",  Flipped(b)>>,
    <<"finish",  "idle",    Finished(b)>> }
  \cup (IF NotYetCalled(b) THEN {} ELSE {<<"syscall", "restore", SendSwap(b)>>})

RecvStores(b) ==
  { <<"prepare", "begin",   Prepared(b)>>,
    <<"begin",   "syscall", Begun(b)>>,
    <<"restore", "copy",    RecvRestored(b)>>,
    <<"copy",    "flip",    WithInactive(b, RecvResult(b))>>,
    <<"flip",    "finish",  Flipped(b)>>,
    <<"finish",  "idle",    Finished(b)>> }
  \cup (IF b.msgLen \in {Sentinel, 0} THEN {} ELSE {<<"syscall", "restore", RecvSwap(b)>>})

InSend == /\ pc = "send"
          /\ UNCHANGED <<state, encoded, rx, context, taken, errno, fin, outFin, interest,
                         cur, batch, history>>
InRecv == /\ pc = "recv"
          /\ UNCHANGED <<state, encoded, tx, context, errno, out, outFin, interest,
                         cur, batch, history>>

(* The send loop, entered if the socket is writable: as long as there is   *)
(* something to send and no error.                                         *)
SendOrNot ==
  /\ pc = "handle"
  /\ pc' = IF "out" \in ev THEN "send" ELSE "receive"
  /\ UNCHANGED <<shared, kernel, interest, step, cur, ev, batch, history>>

SendCall ==
  /\ InSend /\ step = "idle" /\ ActiveRange(tx[cur]).len > 0
  /\ step' = Entry(tx[cur])
  /\ UNCHANGED <<tx, out, reset, pc, ev>>

SendStore ==
  /\ InSend
  /\ \E s \in SendStores(tx[cur]) :
       step = s[1] /\ step' = s[2] /\ tx' = [tx EXCEPT ![cur] = s[3]]
  /\ UNCHANGED <<out, reset, pc, ev>>

(* A writable socket takes at least one byte; then it may be full. *)
Sendmmsg(n) ==
  LET b == tx[cur] IN
  /\ InSend /\ step = "syscall" /\ NotYetCalled(b)
  /\ reset[cur] = "none" /\ ~outFin[cur]
  /\ n <= ActiveRange(b).len
  /\ out' = [out EXCEPT ![cur] = @ \o Gather(b.buf, IovecUsed(ActiveRange(b)), n)]
  /\ tx' = [tx EXCEPT ![cur] = SendDone(b, n)]
  /\ ev' = ev \ {"out"}
  /\ UNCHANGED <<reset, pc, step>>

SendWouldBlock ==
  /\ InSend /\ step = "syscall" /\ NotYetCalled(tx[cur])
  /\ "out" \notin ev /\ reset[cur] = "none" /\ ~outFin[cur]
  /\ step' = "idle" /\ pc' = "receive"
  /\ UNCHANGED <<tx, out, reset, ev>>

(* ECONNRESET, and EPIPE when that was reported before or after SHUT_WR. *)
SendFails ==
  /\ InSend /\ step = "syscall" /\ NotYetCalled(tx[cur])
  /\ reset[cur] # "none" \/ outFin[cur]
  /\ reset' = [reset EXCEPT ![cur] = IF @ = "none" THEN @ ELSE "reported"]
  /\ step' = "idle" /\ pc' = "error"
  /\ UNCHANGED <<tx, out, ev>>

SendLoopDone ==
  /\ InSend /\ step = "idle" /\ ActiveRange(tx[cur]).len = 0
  /\ pc' = "receive"
  /\ UNCHANGED <<tx, out, reset, step, ev>>

(* The receive loop, entered if there is something to receive, which is    *)
(* asserted to find room.                                                  *)
WantsRecv == "in" \in ev /\ ~ActiveRange(rx[cur]).shutdown

HasRoom(e) == ActiveRange(rx[e]).len < BufSize

ReceiveOrNot ==
  /\ pc = "receive"
  /\ pc' = CASE ~WantsRecv                       -> "copy"
             [] WantsRecv /\ ~HasRoom(cur)        -> "exited"
             [] WantsRecv /\ HasRoom(cur)         -> "recv"
  /\ UNCHANGED <<shared, kernel, interest, step, cur, ev, batch, history>>

RecvCall ==
  /\ InRecv /\ step = "idle" /\ HasRoom(cur)
  /\ step' = Entry(rx[cur])
  /\ UNCHANGED <<ev, rx, taken, reset, fin, pc>>

RecvStore ==
  /\ InRecv
  /\ \E s \in RecvStores(rx[cur]) :
       step = s[1] /\ step' = s[2] /\ rx' = [rx EXCEPT ![cur] = s[3]]
  /\ UNCHANGED <<ev, taken, reset, fin, pc>>

(* A readable socket has at least one byte or the end of the stream, which *)
(* the peer sends at some time after its last byte.  An error is reported  *)
(* before what has arrived, and only once; a later call receives that and  *)
(* then the end of the stream, after ECONNRESET possibly before the last   *)
(* byte.                                                                   *)
Recvmmsg(n) ==
  LET b == RecvPrepared(rx[cur]) IN
  /\ InRecv /\ step = "syscall" /\ NotYetCalled(b)
  /\ reset[cur] # "pending"
  /\ n <= Capacity(RecvTarget(b)) /\ n <= Total[cur] - taken[cur]
  /\ n = 0 => taken[cur] = Total[cur] \/ (reset[cur] = "reported" /\ errno[cur] = "ECONNRESET")
  /\ fin[cur] => n = 0
  /\ rx' = [rx EXCEPT ![cur] = RecvDone(b, Numbered(taken[cur], n))]
  /\ taken' = [taken EXCEPT ![cur] = @ + n]
  /\ fin' = [fin EXCEPT ![cur] = (n = 0)]
  /\ ev' = ev \ {"in"}
  /\ UNCHANGED <<reset, pc, step>>

RecvWouldBlock ==
  /\ InRecv /\ step = "syscall" /\ NotYetCalled(rx[cur])
  /\ ~fin[cur] /\ "in" \notin ev /\ reset[cur] = "none"
  /\ rx' = [rx EXCEPT ![cur] = RecvPrepared(@)]
  /\ step' = "idle" /\ pc' = "copy"
  /\ UNCHANGED <<ev, taken, reset, fin>>

(* An error is gone from the socket before anything is stored. *)
RecvError ==
  /\ InRecv /\ step = "syscall" /\ NotYetCalled(rx[cur])
  /\ reset[cur] = "pending"
  /\ reset' = [reset EXCEPT ![cur] = "reported"]
  /\ rx' = [rx EXCEPT ![cur] = RecvPrepared(@)]
  /\ step' = "idle"
  /\ UNCHANGED <<ev, taken, fin>>

RecvFailsQuietly == RecvError /\ pc' = "eof"

(* EPIPE is taken for the end of the stream, because the result that       *)
(* reported that may have been lost with a worker; but it comes before the *)
(* bytes that have not been received.                                      *)
RecvFails == RecvError /\ pc' = IF errno[cur] = "EPIPE" THEN "eof" ELSE "error"

RecvLoopDone ==
  /\ InRecv /\ step = "idle" /\ ~HasRoom(cur)
  /\ pc' = "copy"
  /\ UNCHANGED <<ev, rx, taken, reset, fin, step>>

RecvReturnsEof ==
  /\ InRecv /\ step = "syscall" /\ rx[cur].msgLen = 0
  /\ rx' = [rx EXCEPT ![cur] = Finished(@)]
  /\ step' = "idle" /\ pc' = "eof"
  /\ UNCHANGED <<ev, taken, reset, fin>>

(* The end of the stream is noted in the active range, outside of any      *)
(* transaction; nothing is received after that.                            *)
MarkEof ==
  /\ pc = "eof" /\ pc' = "copy"
  /\ rx' = [rx EXCEPT ![cur] =
              WithActive(@, [ActiveRange(@) EXCEPT !.shutdown = TRUE])]
  /\ fin' = [fin EXCEPT ![cur] = TRUE]
  /\ UNCHANGED <<state, encoded, tx, context, taken, reset, errno, out, outFin, interest, step,
                 cur, ev, batch, history>>

-------------------------------------------------------------------------------
(* copy_active_ranges.  It does not ask whether a dead worker left a       *)
(* transaction unfinished whose range it overwrites or supersedes.         *)
Unfinished(e) == \/ tx[e].state = "SWAP" \/ rx[e].state = "SWAP"
                 \/ rx[e].state = "DO_SYSCALL" /\ ~NotYetCalled(rx[e])

UnSynced(b) == b

Synced(b) == WithInactive(b, ActiveRange(b))

CopyActiveRanges ==
  /\ pc = "copy" /\ pc' = "transform"
  /\ rx' = [e \in Ends |-> Synced(rx[e])]
  /\ tx' = [e \in Ends |-> Synced(tx[e])]
  /\ overlap' = (overlap \/ \E e \in Ends : Unfinished(e))
  /\ UNCHANGED <<state, encoded, context, kernel, interest, step, cur, ev, batch, early,
                 crashes>>

(* transform, for the direction from `src` to the other endpoint.  What    *)
(* the parser makes of the header depends on the bytes: a complete one is  *)
(* rewritten or found malformed, an incomplete one is waited for unless it *)
(* cannot become complete or does not look like HTTP.                      *)
Parsed(src, result) ==
  LET r == InactiveRange(rx[src]) IN
  CASE result = "rewritten"  -> r.len >= HeaderLen[src]
    [] result = "incomplete" -> /\ r.len < HeaderLen[src] /\ r.len < BufSize
                                /\ ~r.shutdown
    [] result = "verbatim"   -> r.len > 0 \/ r.shutdown

(* The header's bytes are dropped from the receive range, and the new      *)
(* header becomes the whole of the send range.                             *)
Rewritten(src, b) ==
  LET r == InactiveRange(b.rx) IN
  [rx |-> WithInactive(b.rx, [r EXCEPT !.start = (r.start + HeaderLen[src]) % BufSize,
                                       !.len = r.len - HeaderLen[src]]),
   tx |-> [WithInactive(b.tx, Extend(EmptyRange, 1)) EXCEPT !.buf[0] = Header]]

(* ring_buffer_move *)
Moved(b) ==
  LET r == InactiveRange(b.rx)
      t == InactiveRange(b.tx)
  IN [rx |-> WithInactive(b.rx, MoveSrc(t, r)),
      tx |-> [WithInactive(b.tx, MoveDst(t, r))
                EXCEPT !.buf = MoveBytes(b.tx.buf, t, b.rx.buf, r)]]

(* An end of stream is passed on together with the data before it          *)
(* (shutdown_direction).                                                   *)
ShutDown(b, shutdown) ==
  IF shutdown
  THEN [rx |-> WithInactive(b.rx, [InactiveRange(b.rx) EXCEPT !.shutdown = TRUE]),
        tx |-> WithInactive(b.tx, [InactiveRange(b.tx) EXCEPT !.shutdown = TRUE])]
  ELSE b

DirectionEager(src, got, result) ==
  LET before == [rx |-> rx[src], tx |-> tx[Other(src)]] IN
  ShutDown(Moved(IF ~got /\ result = "rewritten" THEN Rewritten(src, before) ELSE before),
           InactiveRange(before.rx).shutdown)

Direction(src, got, result) ==
  LET before == [rx |-> rx[src], tx |-> tx[Other(src)]]
      parsed == IF ~got /\ result = "rewritten" THEN Rewritten(src, before) ELSE before
      eof    == InactiveRange(before.rx).shutdown
      earlier == InactiveRange(before.tx).shutdown
  IN IF got \/ result # "incomplete"
     THEN ShutDown(Moved(parsed), eof \/ earlier)
     ELSE ShutDown(parsed, earlier)

Transform(result) ==
  LET got == context.got[context.active]
      after == [e \in Ends |-> Direction(e, got[e], result[e])]
  IN /\ pc = "transform" /\ pc' = "check"
     /\ \A e \in Ends : IF got[e] THEN result[e] = "verbatim" ELSE Parsed(e, result[e])
     /\ rx' = [e \in Ends |-> after[e].rx]
     /\ tx' = [e \in Ends |-> after[Other(e)].tx]
     /\ context' = [context EXCEPT !.got[1 - context.active] =
                      [e \in Ends |-> got[e] \/ result[e] # "incomplete"]]
     /\ UNCHANGED <<state, encoded, kernel, interest, step, cur, ev, batch, history>>

BothShutDown == \A e \in Ends : InactiveRange(tx[e]).shutdown

BothDelivered == \A e \in Ends : /\ InactiveRange(tx[e]).shutdown
                             /\ InactiveRange(tx[e]).len = 0

StartClosing ==
  /\ pc = "check" /\ BothDelivered
  /\ state' = "CLOSING" /\ encoded' = NoneEncoded /\ pc' = "close"
  /\ UNCHANGED <<rx, tx, context, kernel, interest, step, cur, ev, batch, history>>

GiveUp ==
  /\ pc = "error" /\ pc' = "close"
  /\ state' = "ERROR" /\ encoded' = NoneEncoded
  /\ UNCHANGED <<rx, tx, context, kernel, interest, step, cur, ev, batch, history>>

(* handle_connection returns; its locals are dead. *)
Returns ==
  pc' = "batch" /\ step' = "idle" /\ cur' = "down" /\ ev' = {} /\ UNCHANGED batch

(* The descriptors are closed and the listener is told.  After an error    *)
(* the worker ends, with whatever other events it has.                     *)
Fails == pc' = "failed" /\ step' = "idle" /\ cur' = "down" /\ ev' = {}
         /\ batch' = [e \in Ends |-> {}]

Close ==
  /\ pc = "close"
  /\ IF state = "ERROR" THEN Fails ELSE Returns
  /\ interest' = [e \in Ends |-> {}]
  /\ UNCHANGED <<shared, kernel, history>>

StartSwap ==
  /\ pc = "check" /\ ~BothDelivered
  /\ state' = "SWAP_BUFFERS" /\ pc' = "swap"
  /\ encoded' = [rx |-> [e \in Ends |-> 1 - rx[e].active],
                 tx |-> [e \in Ends |-> 1 - tx[e].active],
                 context |-> 1 - context.active]
  /\ UNCHANGED <<rx, tx, context, kernel, interest, step, cur, ev, batch, history>>

-------------------------------------------------------------------------------
(* swap_buffers: five stores, then the epoll events, then the state.  A     *)
(* store of the value that is already there is no step.                    *)
SwappedRx(e) == rx[e].active = encoded.rx[e]
SwappedTx(e) == tx[e].active = encoded.tx[e]
Swapped(e) == SwappedRx(e) /\ SwappedTx(e)

InSwap == /\ pc = "swap"
          /\ UNCHANGED <<state, encoded, kernel, interest, pc, step, cur, ev, batch, history>>

SwapRx(e) ==
  /\ InSwap /\ ~SwappedRx(e) /\ (e = "up" => Swapped("down"))
  /\ rx' = [rx EXCEPT ![e].active = encoded.rx[e]]
  /\ UNCHANGED <<tx, context>>

SwapTx(e) ==
  /\ InSwap /\ ~SwappedTx(e) /\ SwappedRx(e) /\ (e = "up" => Swapped("down"))
  /\ tx' = [tx EXCEPT ![e].active = encoded.tx[e]]
  /\ UNCHANGED <<rx, context>>

SwapContext ==
  /\ InSwap /\ context.active # encoded.context /\ \A e \in Ends : Swapped(e)
  /\ context' = [context EXCEPT !.active = encoded.context]
  /\ UNCHANGED <<rx, tx>>

SwapStore == SwapContext \/ \E e \in Ends : SwapRx(e) \/ SwapTx(e)

(* epoll_from_buffers *)
InterestWhenFull(e) ==
  (IF ActiveRange(tx[e]).len > 0 THEN {"out"} ELSE {})
  \cup (IF ~ActiveRange(rx[e]).shutdown THEN {"in"} ELSE {})

Interest(e) ==
  (IF ActiveRange(tx[e]).len > 0 THEN {"out"} ELSE {})
  \cup (IF ActiveRange(rx[e]).len < BufSize /\ ~ActiveRange(rx[e]).shutdown
        THEN {"in"} ELSE {})

Drained(e) == ActiveRange(tx[e]).len = 0 /\ ActiveRange(tx[e]).shutdown

EpollOfCurrent ==
  /\ interest' = [interest EXCEPT ![cur] = Interest(cur)]
  /\ outFin' = [outFin EXCEPT ![cur] = @ \/ Drained(cur)]
  /\ UNCHANGED <<taken, reset, errno, fin, out>>

EpollFromBuffers ==
  /\ interest' = [e \in Ends |-> Interest(e)]
  /\ outFin' = [e \in Ends |-> outFin[e] \/ Drained(e)]
  /\ UNCHANGED <<taken, reset, errno, fin, out>>

SwapEpoll ==
  /\ pc = "swap" /\ context.active = encoded.context /\ \A e \in Ends : Swapped(e)
  /\ pc' = "poll"
  /\ EpollFromBuffers
  /\ UNCHANGED <<shared, step, cur, ev, batch, history>>

(* What nothing may read again before it is written: without a system call *)
(* that took effect, all but the active range and its bytes.  The model    *)
(* blanks it, so that states that differ only there are one state, and a   *)
(* function that did read it would deliver Blank.                          *)
Settled(b) ==
  LET r == ActiveRange(b)
      live == {Wrap(r.start + i) : i \in 0 .. r.len - 1}
  IN IF b.state = "SWAP" \/ (b.state = "DO_SYSCALL" /\ ~NotYetCalled(b))
     THEN b
     ELSE [NewBuffer(Blank) EXCEPT !.state = b.state, !.msgLen = IF b.state = "INIT" THEN 0 ELSE Sentinel,
             !.active = b.active, !.range[b.active] = r,
             !.buf = [p \in Index |-> IF p \in live THEN b.buf[p] ELSE Blank]]

SwapDone ==
  /\ pc = "poll" /\ Returns
  /\ state' = "POLL" /\ encoded' = NoneEncoded
  /\ rx' = [e \in Ends |-> Settled(rx[e])]
  /\ tx' = [e \in Ends |-> Settled(tx[e])]
  /\ UNCHANGED <<context, kernel, interest, history>>

-------------------------------------------------------------------------------
(* A peer resets its connection.  The worker takes notice of that in its   *)
(* system calls only, so that is where the model lets it happen.  The      *)
(* error is EPIPE between the end of the peer's stream and SHUT_WR.        *)
Errors(e) == CASE outFin[e]              -> {"ECONNRESET"}
               [] ~outFin[e] /\ fin[e]  -> {"EPIPE"}
               [] ~outFin[e] /\ ~fin[e] -> {"ECONNRESET", "EPIPE"}

Reset(e) ==
  /\ reset[e] = "none"
  /\ pc = "wait" \/ (cur = e /\ pc \in {"send", "recv"} /\ step = "syscall")
  /\ reset' = [reset EXCEPT ![e] = "pending"]
  /\ \E error \in Errors(e) : errno' = [errno EXCEPT ![e] = error]
  /\ UNCHANGED <<shared, taken, fin, out, outFin, interest, process, history>>

(* The worker is killed; its epoll instance goes with it. *)
Crash ==
  /\ crashes < MaxCrashes
  /\ pc \notin {"dead", "closed", "exited", "failed"}
  /\ pc' = "dead" /\ step' = "idle" /\ cur' = "down" /\ ev' = {}
  /\ batch' = [e \in Ends |-> {}]
  /\ interest' = [e \in Ends |-> {}]
  /\ crashes' = crashes + 1
  /\ UNCHANGED <<shared, kernel, overlap, early>>

(* Bytes for the peer at e that a swap will activate or has activated. *)
Held(e) ==
  IF state = "SWAP_BUFFERS"
  THEN rx[Other(e)].range[encoded.rx[Other(e)]].len > 0 \/ tx[e].range[encoded.tx[e]].len > 0
  ELSE ActiveRange(rx[Other(e)]).len > 0

(* The next worker has received both descriptors (ipc_orphan_downstream,   *)
(* ipc_orphan_upstream) and registers them.  An end of stream that a dead  *)
(* worker had passed on is taken for the end of the active send range.     *)
Recover ==
  /\ pc = "dead" /\ state \notin {"CLOSING", "ERROR"}
  /\ pc' = "wait"
  /\ EpollFromBuffers
  /\ early' = [e \in Ends |-> early[e] \/ (Drained(e) /\ Held(e))]
  /\ UNCHANGED <<shared, step, cur, ev, batch, overlap, crashes>>

-------------------------------------------------------------------------------
Sends    == \E n \in 1 .. BufSize : Sendmmsg(n)
Receives == \E n \in 0 .. BufSize : Recvmmsg(n)

ParseResults == [Ends -> {"rewritten", "incomplete", "verbatim"}]

Run ==
  \/ \E kinds \in [Ends -> SUBSET {"in", "out"}] : EpollWait(kinds)
  \/ \E e \in Ends : Dispatch(e)
  \/ BatchDone
  \/ SendOrNot \/ SendCall \/ SendStore \/ Sends \/ SendWouldBlock \/ SendFails
  \/ SendLoopDone
  \/ ReceiveOrNot \/ RecvCall \/ RecvStore \/ Receives \/ RecvWouldBlock
  \/ RecvFails \/ RecvLoopDone \/ RecvReturnsEof \/ MarkEof
  \/ CopyActiveRanges \/ (\E result \in ParseResults : Transform(result))
  \/ StartClosing \/ GiveUp \/ Close \/ StartSwap \/ SwapStore \/ SwapEpoll \/ SwapDone
  \/ Recover

Next == Run \/ Crash \/ \E e \in MayReset : Reset(e)

(* The worker runs, it is replaced when it dies, and the peers read, send  *)
(* their bytes and shut down: epoll reports one of the registered events   *)
(* in the end.  Which one, and in which order, is left open.               *)
Fairness == WF_vars(Run)

Spec == Init /\ [][Next]_vars /\ Fairness

-------------------------------------------------------------------------------
TypeOK ==
  /\ state \in {"POLL", "SWAP_BUFFERS", "CLOSING", "ERROR"}
  /\ encoded \in [rx : [Ends -> 0 .. 1], tx : [Ends -> 0 .. 1], context : 0 .. 1]
  /\ \A e \in Ends : taken[e] \in 0 .. Total[e]
  /\ reset \in [Ends -> {"none", "pending", "reported"}]
  /\ errno \in [Ends -> {"none", "ECONNRESET", "EPIPE"}]
  /\ fin \in [Ends -> BOOLEAN]
  /\ outFin \in [Ends -> BOOLEAN]
  /\ overlap \/ {rx[e] : e \in Ends} \cup {tx[e] : e \in Ends} \subseteq AtomicBuffers(Byte)
  /\ interest \in [Ends -> SUBSET {"in", "out"}]
  /\ cur \in Ends
  /\ pc \in {"wait", "batch", "handle", "send", "receive", "recv", "eof", "copy", "transform",
             "check", "error", "close", "swap", "poll", "dead", "closed", "failed", "exited"}

(* What the peer at e may be sent: the other peer's bytes, or the          *)
(* rewritten header and what follows the header.                           *)
Verbatim(e) == Numbered(0, Total[Other(e)])
Rewrite(e)  == LET h == HeaderLen[Other(e)] IN
               <<Header>> \o Numbered(h, Total[Other(e)] - h)

Prefix(s, t) == Len(s) <= Len(t) /\ s = SubSeq(t, 1, Len(s))

Intact(e) == Prefix(out[e], Verbatim(e))
             \/ (Total[Other(e)] >= HeaderLen[Other(e)] /\ Prefix(out[e], Rewrite(e)))

(* All that was received for the peer at e has been sent to it.            *)
Forwarded(e) ==
  LET h == HeaderLen[Other(e)]
      n == taken[Other(e)]
  IN out[e] = Numbered(0, n) \/ (n >= h /\ out[e] = <<Header>> \o Numbered(h, n - h))

(* Every peer receives a prefix of what it should, in order, unless a      *)
(* transformation ran over an unfinished transaction; and that needs a     *)
(* worker that died: no order of events alone leads there.                 *)
StreamsIntact == (overlap /\ crashes > 0) \/ \A e \in Ends : Intact(e)

(* The end of a stream follows its last byte: SHUT_WR is not called while  *)
(* a byte of the other peer is on the way, be it in a buffer, in a swap    *)
(* that is not done, or in a transaction that a dead worker left, except   *)
(* by a recovery that calls it too early (StreamsEndWhole).  And a stream  *)
(* whose last bytes were not received does not end like a whole one, but   *)
(* for an error of the socket that was lost: to a worker that died with it *)
(* in its hands, of which the code warns                                   *)
(* (src/worker/atomic_send_recv.c:285), or as an EPIPE that was taken for  *)
(* the end (src/worker/main.c:328).                                        *)
ErrorLost(e) == reset[e] = "reported" /\ (crashes > 0 \/ errno[e] = "EPIPE")

Ended(e) == fin[e] /\ (taken[e] = Total[e] \/ ErrorLost(e))

EofAfterData ==
  overlap \/ \A e \in Ends : outFin[e] => Ended(Other(e)) /\ (Forwarded(e) \/ early[e])

(* The connection is closed in an orderly way only when all that was       *)
(* received has been delivered, in both directions, and that was the whole *)
(* of both streams, unless an error was lost as above; when the worker is  *)
(* told of another reset before that, it gives the connection up, so that  *)
(* the listener resets the other side, too.  And it is given up for no     *)
(* other reason, except that a recovery called SHUT_WR too early and the   *)
(* next byte cannot be sent.                                               *)
ClosedWhenDelivered ==
  overlap \/
    /\ state = "CLOSING" => \A e \in Ends : Ended(e) /\ Forwarded(e)
    /\ state = "ERROR" => \E e \in Ends : reset[e] = "reported" \/ early[e]

(* epoll_wait returns events for both descriptors at once, and handling    *)
(* the first may change what the second was registered for; an error is    *)
(* reported of a descriptor whatever it was registered for.  Handling one  *)
(* never closes the connection under the second event, which would then be *)
(* that of an unknown descriptor, and never finds an event to receive with *)
(* a full buffer, against which the receive loop asserts.                  *)
EventsStayValid == pc # "exited"

(* Until its header is dealt with, a direction has forwarded nothing, as   *)
(* transform asserts before it puts a rewritten header there, and what is  *)
(* received does not wrap around, as it must not where parse_response is   *)
(* given a pointer into the ring instead of the linearised copy            *)
(* (src/worker/transform.c:490).                                           *)
HeaderAtFront ==
  overlap \/ (pc = "transform" =>
    \A e \in Ends : ~context.got[context.active][e] =>
      /\ InactiveRange(tx[Other(e)]).len = 0
      /\ End(InactiveRange(rx[e])) <= BufSize)

(* "any operations on connections and their data must be designed in a     *)
(* manner that allows them to be interrupted at any point, without         *)
(* corrupting underlying data structures" (thesis/30_design.md): the same  *)
(* as StreamsIntact, for any worker that dies anywhere.                    *)
NeverCorrupted == \A e \in Ends : Intact(e)

(* "Transactional I/O and transformations allow the worker process to be   *)
(* interrupted and the transaction to continue at a later point, without   *)
(* any loss of state or corruption" (thesis/50_evaluation.md): as          *)
(* EofAfterData, also of a connection that was recovered with the end of   *)
(* the stream in an active range and bytes that go before it not yet in    *)
(* one.                                                                    *)
StreamsEndWhole ==
  overlap \/ \A e \in Ends : outFin[e] => Ended(Other(e)) /\ Forwarded(e)

(* "the worker will automatically resume operations where they were        *)
(* interrupted" (thesis/30_design.md): the death of a worker is made up    *)
(* for without waiting for a peer that has nothing more to say.            *)
ResumesAutomatically == pc = "dead" ~> (state \in {"CLOSING", "ERROR"} \/ overlap)

(* Whatever the order of events, the partial reads and writes and the      *)
(* moment the header is recognised, no byte or end of stream gets stuck: a *)
(* registered interest is missing for nothing that is still to be done, so *)
(* that without crashes every connection whose peers read, write and shut  *)
(* down is delivered and closed.  When one of them resets, the connection  *)
(* is given up or, where nothing depended on that peer any more, closed.   *)
Delivered ==
  <>(state = "CLOSING" \/ crashes > 0
     \/ (state = "ERROR" /\ \E e \in Ends : reset[e] = "reported"))
===============================================================================
