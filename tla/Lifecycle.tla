------------------------------- MODULE Lifecycle -------------------------------
(***************************************************************************)
(* The life of a connection across processes: the active listener accepts  *)
(* it into a slot of the shared table (src/common/accept.c), announces it  *)
(* on a socket that all workers read, connects to upstream on behalf of    *)
(* the worker that took it, and closes and releases the slot when that     *)
(* worker is done (src/listener/main_active.c, src/worker/main.c).  Both   *)
(* hold the descriptors; the slot says who has which.  After a crash the   *)
(* next active listener puts a forgotten descriptor back into its slot     *)
(* and distributes the orphaned connections.                               *)
(*                                                                         *)
(* Supervision is abstracted by what it does for connections: if a worker  *)
(* or the active listener ends, all workers are terminated and reaped, and *)
(* a new active listener starts new ones; if the passive listener ends,    *)
(* the active one is succeeded, and the workers go on.                     *)
(*                                                                         *)
(* Outside the model: the bytes on a connection (see Connection), for      *)
(* which CONN_SWAP_BUFFERS is not told from CONN_POLL; system calls that   *)
(* fail, connect apart; sockets whose buffer is full; the death of both    *)
(* listeners at once.                                                      *)
(***************************************************************************)
EXTENDS Integers, Sequences, FiniteSets, FiniteSetsExt

CONSTANTS
  Clients,      \* incoming connections, in the backlog of the listening socket
  Workers,
  NumSlots,     \* bound: how long the shared table may get
  MaxCrashes    \* bound: processes that die of themselves or of an error

None     == "none"
Upstream == "upstream"    \* a socket connected to upstream; one is like another
Slots    == 1 .. NumSlots

ASSUME LifecycleAssumption ==
  /\ IsFiniteSet(Clients) /\ IsFiniteSet(Workers) /\ Workers # {}
  /\ None \notin Clients \cup Workers /\ Upstream \notin Clients
  /\ NumSlots \in Nat \ {0} /\ MaxCrashes \in Nat

VARIABLES
  conn,        \* the shared table of connections
  size, file,  \* how many of them its header says, and the file holds
  open, ups,   \* the listeners' descriptors: client sockets, how many to upstream
  active,      \* where the active listener is, and the slot, socket or worker it is at
  next,        \* next_adopted; NumSlots + 2 stands for -1
  worker,      \* the same of each worker
  polled,      \* the slots whose sockets a worker has registered with epoll
  broadcast, toWorker, toListener,   \* messages that were not received yet
  client,      \* what became of each client
  spoiled,     \* history: a connection was announced twice, a listener
               \* started and found a slot without its descriptor, or a worker
               \* closed a connection whose slot was another's already
  crashes

table  == <<size, file>>
fds    == <<open, ups>>
queues == <<broadcast, toWorker, toListener>>
vars == <<conn, table, fds, active, next, worker, polled, queues, client, spoiled, crashes>>

(* A slot: its state, the worker it belongs to, and the descriptors of the *)
(* listener and, from wdown on, of that worker.                            *)
Unused  == [state |-> "UNUSED", pid |-> None, down |-> None, up |-> None,
            wdown |-> None, wup |-> None]

(* Where a process is between two of its stores, and a message.            *)
At(place, slot, arg) == [at |-> place, slot |-> slot, arg |-> arg]
Msg(action, slot, fd) == [action |-> action, slot |-> slot, fd |-> fd]
Loop == At("loop", 0, None)
Down == At("down", 0, None)
Idle == At("idle", 0, None)
Dead == At("dead", 0, None)
Alive(w) == worker[w] # Dead
Done == NumSlots + 2

Init ==
  /\ conn = [s \in Slots |-> Unused] /\ size = 0 /\ file = 0 /\ open = {} /\ ups = 0
  /\ active = Loop /\ next = 1
  /\ worker = [w \in Workers |-> Idle] /\ polled = [w \in Workers |-> {}]
  /\ broadcast = <<>>
  /\ toWorker = [w \in Workers |-> <<>>] /\ toListener = [w \in Workers |-> <<>>]
  /\ client = [c \in Clients |-> "waiting"]
  /\ spoiled = FALSE /\ crashes = 0

-------------------------------------------------------------------------------
(* The active listener's table of descriptors. *)
Ups(C) == {s \in Slots : C[s].up = Upstream}
Downs(C) == {C[s].down : s \in Slots} \ {None}

(* The states of a connection that its worker is done with. *)
OverInAnyCase(c) == c.state \in {"CLOSING", "ERROR", "POLL"}

Over(c) == c.state \in {"CLOSING", "ERROR"}

(* close_connection for the slots of a set. *)
Released(C, S, state) ==
  [s \in Slots |-> IF s \in S THEN [C[s] EXCEPT !.state = state, !.down = None, !.up = None]
                              ELSE C[s]]
Closed(S, fate) ==
  /\ open' = open \ {conn[s].down : s \in S}
  /\ ups' = ups - Cardinality(S \cap Ups(conn))
  /\ client' = [c \in Clients |-> IF \E s \in S : conn[s].down = c THEN fate ELSE client[c]]

(* A connection is announced although a message about it is under way or a *)
(* worker has it.                                                          *)
Announced(s) ==
  \/ \E k \in DOMAIN broadcast : broadcast[k].slot = s
  \/ \E w \in Workers : worker[w].slot = s \/ conn[s].pid = w

Announce(action, s) ==
  /\ broadcast' = Append(broadcast, Msg(action, s, conn[s].down))
  /\ spoiled' = (spoiled \/ Announced(s))

(* An accept event: claim the first unused slot, or append one, then       *)
(* accept, note the descriptor and announce the connection.  The first     *)
(* event that a new listener gets is that of the broadcast socket.         *)
Incoming == active = Loop /\ next # 1 /\ \E c \in Clients : client[c] = "waiting"
Free == {s \in 1 .. size : conn[s].state = "UNUSED"}

ClaimSlot(s) ==
  /\ conn' = [conn EXCEPT ![s] = [Unused EXCEPT !.state = "ACCEPTING"]]
  /\ active' = At("accept", s, None)
  /\ UNCHANGED <<fds, next, worker, polled, queues, client, spoiled, crashes>>

Claim == Incoming /\ Free # {} /\ ClaimSlot(Min(Free)) /\ UNCHANGED table

AppendEntryOnly ==
  /\ Incoming /\ Free = {} /\ size < NumSlots
  /\ active' = At("append", 0, None)
  /\ UNCHANGED <<conn, table, fds, next, worker, polled, queues, client, spoiled, crashes>>

AppendEntry ==
  /\ Incoming /\ Free = {} /\ size < NumSlots
  /\ file' = Max({file, size + 1})
  /\ active' = At("append", 0, None)
  /\ UNCHANGED <<conn, size, fds, next, worker, polled, queues, client, spoiled, crashes>>

PublishEntry ==
  /\ active.at = "append"
  /\ size' = size + 1
  /\ ClaimSlot(size + 1) /\ UNCHANGED file

AcceptUnchecked ==
  /\ active.at = "accept"
  /\ open' = open \cup {None}
  /\ active' = At("accepted", active.slot, None)
  /\ UNCHANGED <<conn, table, ups, next, worker, polled, queues, client, spoiled, crashes>>

Accept ==
  /\ active.at = "accept"
  /\ \E c \in Clients :
     /\ client[c] = "waiting"
     /\ client' = [client EXCEPT ![c] = "accepted"]
     /\ open' = open \cup {c}
     /\ active' = At("accepted", active.slot, c)
  /\ UNCHANGED <<conn, table, ups, next, worker, polled, queues, spoiled, crashes>>

NoteAccepted ==
  /\ active.at = "accepted"
  /\ conn' = [conn EXCEPT ![active.slot].down = active.arg]
  /\ active' = At("announce", active.slot, None)
  /\ UNCHANGED <<table, fds, next, worker, polled, queues, client, spoiled, crashes>>

AnnounceAccepted ==
  /\ active.at = "announce" /\ active' = Loop
  /\ Announce("accepted", active.slot)
  /\ UNCHANGED <<conn, table, fds, next, worker, polled, toWorker, toListener, client, crashes>>


Orphans == {s \in Slots : conn[s].state # "UNUSED" /\ conn[s].pid = None}

Adopt ==
  /\ active = Loop /\ next # Done
  /\ LET rest == {s \in Orphans : s >= next} IN
     IF rest # {}
     THEN active' = At("adopt", Min(rest), conn[Min(rest)].state) /\ UNCHANGED next
     ELSE /\ next' = (IF Orphans = {} THEN Done ELSE Max(Orphans) + 1)
          /\ UNCHANGED active
  /\ UNCHANGED <<conn, table, fds, worker, polled, queues, client, spoiled, crashes>>

(* What it does then is for the state that it has read; without a          *)
(* descriptor of upstream its assertion ends the process.                  *)
Distribute ==
  LET s == active.slot
      orphan == [conn[s] EXCEPT !.wdown = None, !.wup = None,
                  !.state = IF active.arg = "CONNECTING" THEN "POLL" ELSE @] IN
  /\ active.at = "adopt"
  /\ conn' = [conn EXCEPT ![s] = orphan]
  /\ IF active.arg \in {"CONNECTING", "POLL"} /\ conn[s].up = None
     THEN active' = Down /\ UNCHANGED <<next, broadcast, spoiled>>
     ELSE /\ active' = Loop /\ next' = s + 1
          /\ CASE active.arg = "ACCEPTING" -> Announce("accepted", s)
               [] active.arg \in {"CONNECTING", "POLL"} -> Announce("orphan_down", s)
               [] OTHER -> UNCHANGED <<broadcast, spoiled>>
  /\ UNCHANGED <<table, fds, worker, polled, toWorker, toListener, client, crashes>>

-------------------------------------------------------------------------------
(* Messages of a worker to the active listener. *)
Received(w, action) ==
  /\ active = Loop /\ toListener[w] # <<>> /\ Head(toListener[w]).action = action
  /\ toListener' = [toListener EXCEPT ![w] = Tail(@)]

Tell(w, action, s, fd) == toWorker' = [toWorker EXCEPT ![w] = Append(@, Msg(action, s, fd))]

(* ipc_connect *)
Connect(w) ==
  /\ Received(w, "connect")
  /\ ups' = ups + 1
  /\ active' = At("connected", Head(toListener[w]).slot, w)
  /\ UNCHANGED <<conn, table, open, next, worker, polled, broadcast, toWorker, client, spoiled, crashes>>

NoteConnected ==
  /\ active.at = "connected"
  /\ conn' = [conn EXCEPT ![active.slot].up = Upstream]
  /\ active' = [active EXCEPT !.at = "answer"]
  /\ UNCHANGED <<table, fds, next, worker, polled, queues, client, spoiled, crashes>>

AnswerConnected ==
  /\ active.at = "answer" /\ Alive(active.arg)
  /\ Tell(active.arg, "connected", active.slot, Upstream)
  /\ active' = Loop
  /\ UNCHANGED <<conn, table, fds, next, worker, polled, broadcast, toListener, client, spoiled, crashes>>

(* Its error path: no connection, or no worker to tell. *)
RefuseOpen(s, w, fate) ==
  /\ conn' = Released(conn, {s}, conn[s].state)
  /\ active' = At("refuse", s, w)
  /\ UNCHANGED fds
  /\ client' = [c \in Clients |-> IF conn[s].down = c THEN fate ELSE client[c]]

Refuse(s, w, fate) ==
  /\ conn' = Released(conn, {s}, conn[s].state)
  /\ Closed({s}, fate)
  /\ active' = At("refuse", s, w)

ConnectFails(w) ==
  /\ Received(w, "connect")
  /\ Refuse(Head(toListener[w]).slot, w, "refused")
  /\ UNCHANGED <<table, next, worker, polled, broadcast, toWorker, spoiled, crashes>>

AnswerFails ==
  /\ active.at = "answer" /\ ~Alive(active.arg)
  /\ Refuse(active.slot, active.arg, "dropped")
  /\ UNCHANGED <<table, next, worker, polled, queues, spoiled, crashes>>

TellRefused ==
  /\ active.at = "refuse"
  /\ IF Alive(active.arg) THEN active' = Loop /\ Tell(active.arg, "close", active.slot, None)
                          ELSE active' = Down /\ UNCHANGED toWorker
  /\ UNCHANGED <<conn, table, fds, next, worker, polled, broadcast, toListener, client, spoiled, crashes>>

(* ipc_close; in any other state its assertion ends the process. *)
Close(w) ==
  LET s == Head(toListener[w]).slot
      fate == IF conn[s].state = "ERROR" THEN "reset" ELSE "served" IN
  /\ Received(w, "close")
  /\ IF Over(conn[s])
     THEN /\ conn' = Released(conn, {s}, "UNUSED") /\ Closed({s}, fate)
          /\ UNCHANGED active
     ELSE active' = Down /\ UNCHANGED <<conn, fds, client>>
  /\ UNCHANGED <<table, next, worker, polled, broadcast, toWorker, spoiled, crashes>>

(* ipc_orphan_upstream *)
PassUpstream(w) ==
  LET s == Head(toListener[w]).slot IN
  /\ Received(w, "orphan_up")
  /\ IF Alive(w) THEN Tell(w, "orphan_up", s, conn[s].up) /\ UNCHANGED active
                 ELSE active' = Down /\ UNCHANGED toWorker
  /\ UNCHANGED <<conn, table, fds, next, worker, polled, broadcast, client, spoiled, crashes>>

(* The end of file on a worker's socket is an error that ends main_active. *)
IpcEof(w) ==
  /\ active = Loop /\ ~Alive(w) /\ toListener[w] = <<>>
  /\ active' = Down
  /\ UNCHANGED <<conn, table, fds, next, worker, polled, queues, client, spoiled, crashes>>

-------------------------------------------------------------------------------
(* A new active listener: cleanup_connections, then recover_one_fd, which  *)
(* knows what to do with one forgotten descriptor that fits one slot, and  *)
(* closes it if it fits none.  If there was not exactly one, every slot    *)
(* must have the descriptors that its state asks for.                      *)
Broken(c) ==
  \/ c.state \in {"ACCEPTING", "CONNECTING", "POLL"} /\ c.down = None
  \/ c.state \in {"CONNECTING", "POLL"} /\ c.up = None

Recover(C0) ==
  LET ended   == {s \in Slots : Over(conn[s])}
      C       == Released(C0, ended, "UNUSED")
      held    == Cardinality(ended \cap Ups(conn))
      lostOnes == (open \ {conn[s].down : s \in ended}) \ Downs(C)
      lostUps == ups - held - Cardinality(Ups(C))
      lost    == Cardinality(lostOnes) + lostUps
      found   == IF lostOnes # {} THEN CHOOSE c \in lostOnes : TRUE ELSE Upstream
      accepting  == {s \in Slots : C[s].state = "ACCEPTING" /\ C[s].down = None}
      connecting == {s \in Slots : C[s].state = "CONNECTING" /\ C[s].up = None}
      match   == lost = 1 /\ Cardinality(accepting \cup connecting) = 1
      R       == [s \in Slots |->
                   IF match /\ s \in accepting THEN [C[s] EXCEPT !.down = found]
                   ELSE IF match /\ s \in connecting THEN [C[s] EXCEPT !.up = found]
                   ELSE C[s]]
      broken  == \E s \in Slots : Broken(R[s]) IN
  /\ conn' = R
  /\ open' = Downs(R) /\ ups' = Cardinality(Ups(R))
  /\ client' = [c \in Clients |->
       IF \E s \in ended : conn[s].down = c
       THEN IF \E s \in ended : conn[s].down = c /\ conn[s].state = "ERROR" THEN "reset" ELSE "served"
       ELSE IF c \in lostOnes /\ ~match THEN "dropped" ELSE client[c]]
  /\ active' = IF lost # 1 /\ broken THEN Down ELSE Loop
  /\ next' = 1
  /\ spoiled' = (spoiled \/ broken)

(* After the end of the active listener its workers are terminated and     *)
(* reaped (Supervision) and their sockets closed, before a new listener    *)
(* starts others; the broadcast socket and what is queued there stay.      *)
Restart ==
  /\ active = Down
  /\ Recover([s \in Slots |-> [conn[s] EXCEPT !.pid = None]])
  /\ worker' = [w \in Workers |-> Idle] /\ polled' = [w \in Workers |-> {}]
  /\ toWorker' = [w \in Workers |-> <<>>] /\ toListener' = [w \in Workers |-> <<>>]
  /\ UNCHANGED <<table, broadcast, crashes>>

(* After the end of the passive listener: the workers go on. *)
TakeOver ==
  /\ active = Loop /\ crashes < MaxCrashes /\ crashes' = crashes + 1
  /\ Recover(conn)
  /\ UNCHANGED <<table, worker, polled, queues>>

-------------------------------------------------------------------------------
(* A worker. *)
Goes(w, to) == worker' = [worker EXCEPT ![w] = to]
Ends(w) == Goes(w, Dead) /\ polled' = [polled EXCEPT ![w] = {}]
Report(w, action, s) ==
  toListener' = [toListener EXCEPT ![w] = Append(@, Msg(action, s, None))]

Abandoned(c, w) == c

Owned(c, w) == [c EXCEPT !.pid = w]

Kept(w, s) == UNCHANGED polled

Forgotten(w, s) == polled' = [polled EXCEPT ![w] = @ \ {s}]

(* A message from the broadcast socket, which must bring a descriptor. *)
Take(w) ==
  /\ worker[w] = Idle /\ broadcast # <<>>
  /\ broadcast' = Tail(broadcast)
  /\ LET m == Head(broadcast) IN
     IF m.fd = None THEN Ends(w) ELSE Goes(w, At(m.action, m.slot, m.fd)) /\ UNCHANGED polled
  /\ UNCHANGED <<conn, table, fds, active, next, toWorker, toListener, client, spoiled, crashes>>

(* ipc_accepted and ipc_orphan_downstream, as far as the slot. *)
NoteTaken(w) ==
  LET s == worker[w].slot
      c == conn[s]
      mine == [Owned(c, w) EXCEPT !.wdown = worker[w].arg,
                !.state = IF worker[w].at = "accepted" THEN "CONNECTING" ELSE @] IN
  /\ worker[w].at \in {"accepted", "orphan_down"}
  /\ IF c.wdown # None
     THEN conn' = [conn EXCEPT ![s] = Owned(@, w)] /\ Ends(w)
     ELSE /\ conn' = [conn EXCEPT ![s] = mine]
          /\ Goes(w, At(IF mine.state = "CONNECTING" THEN "connect" ELSE "orphan_up", s, None))
          /\ UNCHANGED polled
  /\ UNCHANGED <<table, fds, active, next, queues, client, spoiled, crashes>>

Ask(w) ==
  /\ worker[w].at \in {"connect", "orphan_up"}
  /\ Report(w, worker[w].at, worker[w].slot)
  /\ Goes(w, Idle)
  /\ UNCHANGED <<conn, table, fds, active, next, polled, broadcast, toWorker, client, spoiled, crashes>>

Answered(w, actions) ==
  /\ worker[w] = Idle /\ toWorker[w] # <<>> /\ Head(toWorker[w]).action \in actions
  /\ toWorker' = [toWorker EXCEPT ![w] = Tail(@)]

(* ipc_connected and ipc_orphan_upstream: both sockets are registered. *)
TakeUpstream(w) ==
  LET m == Head(toWorker[w])
      c == conn[m.slot]
      mine == IF m.action = "connected"
              THEN [c EXCEPT !.wup = m.fd, !.state = IF c.wdown = None THEN @ ELSE "POLL"]
              ELSE [Owned(c, w) EXCEPT !.wup = m.fd] IN
  /\ Answered(w, {"connected", "orphan_up"})
  /\ IF m.fd = None \/ c.wup # None
     THEN Ends(w) /\ conn' = [conn EXCEPT ![m.slot] =
                                IF m.fd # None /\ m.action = "orphan_up" THEN Owned(@, w) ELSE @]
     ELSE /\ conn' = [conn EXCEPT ![m.slot] = mine]
          /\ IF c.wdown = None THEN Ends(w)
             ELSE polled' = [polled EXCEPT ![w] = @ \cup {m.slot}] /\ UNCHANGED worker
  /\ UNCHANGED <<table, fds, active, next, broadcast, toListener, client, spoiled, crashes>>

(* ipc_close *)
TakeRefusal(w) ==
  LET s == Head(toWorker[w]).slot IN
  /\ Answered(w, {"close"})
  /\ conn' = [conn EXCEPT ![s] = [@ EXCEPT !.wdown = None, !.wup = None, !.state = "UNUSED"]]
  /\ Forgotten(w, s)
  /\ UNCHANGED <<table, fds, active, next, worker, broadcast, toListener, client, spoiled, crashes>>

(* handle_connection at the end: of the data in both directions, or at an  *)
(* error; the sockets are closed and the listener is told, and after an    *)
(* error the worker ends.  What it closes are the descriptors in the slot; *)
(* if the slot was released by a takeover and claimed again, they are not  *)
(* there, which is no error, and its sockets stay open and registered.     *)
Finish(w, s) ==
  /\ worker[w] = Idle /\ s \in polled[w]
  /\ conn' = [conn EXCEPT ![s].state = "CLOSING"]
  /\ Goes(w, At("closing", s, None))
  /\ UNCHANGED <<table, fds, active, next, polled, queues, client, spoiled, crashes>>

Fail(w, s) ==
  /\ worker[w] = Idle /\ s \in polled[w]
  /\ crashes < MaxCrashes /\ crashes' = crashes + 1
  /\ conn' = [conn EXCEPT ![s].state = "ERROR"]
  /\ Goes(w, At("error", s, None))
  /\ UNCHANGED <<table, fds, active, next, polled, queues, client, spoiled>>

ReportClosed(w) ==
  LET s == worker[w].slot
      lost == conn[s].wdown = None \/ conn[s].wup = None IN
  /\ worker[w].at \in {"closing", "error"}
  /\ conn' = [conn EXCEPT ![s] = [@ EXCEPT !.wdown = None, !.wup = None]]
  /\ Report(w, "close", s)
  /\ spoiled' = (spoiled \/ (worker[w].at = "closing" /\ lost))
  /\ IF worker[w].at = "error" THEN Ends(w)
     ELSE /\ Goes(w, Idle)
          /\ IF lost THEN UNCHANGED polled ELSE Forgotten(w, s)
  /\ UNCHANGED <<table, fds, active, next, broadcast, toWorker, client, crashes>>

-------------------------------------------------------------------------------
ActiveFails ==
  /\ active # Down /\ crashes < MaxCrashes /\ crashes' = crashes + 1
  /\ active' = Down
  /\ UNCHANGED <<conn, table, fds, next, worker, polled, queues, client, spoiled>>

WorkerFails(w) ==
  /\ Alive(w) /\ crashes < MaxCrashes /\ crashes' = crashes + 1
  /\ Ends(w)
  /\ UNCHANGED <<conn, table, fds, active, next, queues, client, spoiled>>

Handle(w) == Connect(w) \/ ConnectFails(w) \/ Close(w) \/ PassUpstream(w) \/ IpcEof(w)

Continue ==
  PublishEntry \/ Accept \/ NoteAccepted \/ AnnounceAccepted \/ Distribute \/ NoteConnected
    \/ AnswerConnected \/ AnswerFails \/ TellRefused \/ Restart

WorkerStep(w) ==
  \/ Take(w) \/ NoteTaken(w) \/ Ask(w) \/ TakeUpstream(w) \/ TakeRefusal(w) \/ ReportClosed(w)
  \/ \E s \in Slots : Finish(w, s)

Next ==
  \/ Claim \/ AppendEntry \/ Adopt \/ Continue \/ TakeOver \/ ActiveFails
  \/ \E w \in Workers : Handle(w) \/ WorkerStep(w) \/ WorkerFails(w) \/ \E s \in Slots : Fail(w, s)

(* A process that is at something goes on.  epoll_wait of the listener     *)
(* returns one event at a time, and its ready list takes the descriptors   *)
(* in turn: an accept, the broadcast socket and each worker's socket are   *)
(* served again and again while the others stay ready.                     *)
Fairness ==
  /\ WF_vars(Continue) /\ SF_vars(Claim \/ AppendEntry) /\ SF_vars(Adopt)
  /\ \A w \in Workers : SF_vars(Handle(w)) /\ WF_vars(WorkerStep(w))

Spec == Init /\ [][Next]_vars /\ Fairness

-------------------------------------------------------------------------------
Sockets == Clients \cup {Upstream, None}
States  == {"UNUSED", "ACCEPTING", "CONNECTING", "POLL", "CLOSING", "ERROR"}
Indices == 0 .. NumSlots
Messages == [action : {"accepted", "orphan_down", "connect", "connected", "close", "orphan_up"},
             slot : Slots, fd : Sockets]

TypeOK ==
  /\ conn \in [Slots -> [state : States, pid : Workers \cup {None},
                        down : Sockets, up : Sockets, wdown : Sockets, wup : Sockets]]
  /\ size \in Indices /\ file \in Indices
  /\ open \subseteq Sockets \ {None} /\ ups \in Int
  /\ active \in [at : {"loop", "append", "accept", "accepted", "announce", "adopt", "connected",
                      "answer", "refuse", "down"},
                slot : Indices, arg : Sockets \cup States \cup Workers]
  /\ next \in 1 .. Done
  /\ worker \in [Workers -> [at : {"idle", "accepted", "orphan_down", "connect", "orphan_up",
                                  "closing", "error", "dead"},
                            slot : Indices, arg : Sockets]]
  /\ polled \in [Workers -> SUBSET Slots]
  /\ broadcast \in Seq(Messages)
  /\ toWorker \in [Workers -> Seq(Messages)] /\ toListener \in [Workers -> Seq(Messages)]
  /\ client \in [Clients -> {"waiting", "accepted", "served", "refused", "reset", "dropped"}]
  /\ spoiled \in BOOLEAN /\ crashes \in 0 .. MaxCrashes

(* Once a history is spoiled, the proxy is known not to keep its promises  *)
(* (see RecoveryCompletes), and TLC does not follow it any further.        *)
Unspoiled == ~spoiled

(* No two running workers work on the same connection, although orphans    *)
(* are distributed again after every crash, through a socket that all      *)
(* workers read and that keeps its messages.                               *)
Has(w, s) == Alive(w) /\ (s \in polled[w] \/ worker[w].slot = s)

HandledOnce == spoiled \/ \A s \in Slots : Cardinality({w \in Workers : Has(w, s)}) <= 1

(* The descriptors a worker serves a slot with are copies of those that    *)
(* the listener keeps for it, so that what is recovered after the next     *)
(* crash is the same connection; and the slot names that worker.  Only the *)
(* slot that it is closing is different.                                   *)
RightSockets ==
  spoiled \/ \A w \in Workers : \A s \in polled[w] : worker[w].slot # s =>
    /\ conn[s].down # None /\ conn[s].wdown = conn[s].down
    /\ conn[s].up # None /\ conn[s].wup = conn[s].up
    /\ conn[s].pid = w

(* Between two events the listener has no descriptor that is in no slot:   *)
(* none leaks and none stays forgotten, in spite of crashes between accept *)
(* or connect and the note of the descriptor, and none is used that was    *)
(* closed.                                                                 *)
Accounted ==
  ~spoiled /\ active = Loop => open = Downs(conn) /\ ups = Cardinality(Ups(conn))

(* The header of the shared table never promises an entry that the file    *)
(* does not hold, and nobody is told of a slot that its mapping, renewed   *)
(* from the header, would not have.                                        *)
Within(q) == \A k \in DOMAIN q : q[k].slot <= size

Backed ==
  /\ size <= file
  /\ active.slot <= size /\ Within(broadcast)
  /\ \A w \in Workers :
       /\ worker[w].slot <= size /\ \A s \in polled[w] : s <= size
       /\ Within(toWorker[w]) /\ Within(toListener[w])

GivesUp(s) == conn[s].state # "UNUSED" /\ conn'[s].state = "UNUSED"

(* A slot is given up only when no worker serves its sockets any more; a   *)
(* worker that is closing them may be late, after a takeover.              *)
ReleasedWhenDone ==
  [][~spoiled =>
       \A s \in Slots : GivesUp(s) =>
         \A w \in Workers : s \in polled'[w] => worker[w].at \in {"closing", "error"}]_vars



(* "If it crashed before accept(2) completed, ... The struct connection    *)
(* can be released and accept(2) will later return the connection again."  *)
(* and, of CONN_CONNECTING, "Depending on the point of the interruption,   *)
(* the worker may need to retransmit the upstream host's address"          *)
(* (thesis/40_implementation.md): an active listener that is started after *)
(* a crash gets to serve events.                                           *)
RecoveryCompletes == active = Down ~> active = Loop
===============================================================================
