---------------------------- MODULE LifecycleProofs ----------------------------
(***************************************************************************)
(* Theorems about Lifecycle, for every number of clients, workers, slots   *)
(* and crashes.                                                            *)
(***************************************************************************)
EXTENDS Lifecycle, FiniteSetTheorems, WellFoundedInduction, TLAPS

(* Every set of slots is finite, and has a first and a last one. *)
LEMMA SlotSets ==
  ASSUME NEW T \in SUBSET Slots
  PROVE  IsFiniteSet(T) /\ Cardinality(T) \in Nat
<1>1. IsFiniteSet(Slots)
  BY FS_Interval, LifecycleAssumption DEF Slots
<1> QED BY <1>1, FS_Subset, FS_CardinalityType

LEMMA NatOrder ==
  \A x, y \in Nat : <<x, y>> \in OpToRel(<, Nat) <=> x < y
BY DEF OpToRel

LEMMA LeastNat ==
  ASSUME NEW T \in SUBSET Nat, T # {}
  PROVE  \E x \in T : \A y \in T : x <= y
<1> DEFINE less == OpToRel(<, Nat)
<1>1. IsWellFoundedOn(less, Nat)
  BY NatLessThanWellFounded
<1>2. \A x, y \in Nat : <<x, y>> \in less <=> x < y
  BY NatOrder
<1> HIDE DEF less
<1>3. \E x \in T : \A y \in T : ~ (<<y, x>> \in less)
  BY <1>1, WFMin, Zenon
<1>4. \E x \in T : \A y \in T : ~ (y < x)
  BY <1>2, <1>3, Zenon
<1> QED BY <1>4

LEMMA LeastSlot ==
  ASSUME NEW T \in SUBSET Slots, T # {}
  PROVE  Min(T) \in T
<1>1. \E x \in T : \A y \in T : x <= y
  BY LeastNat, LifecycleAssumption DEF Slots
<1> QED BY <1>1 DEF Min

LEMMA LastSlot ==
  ASSUME NEW T \in SUBSET Slots, T # {}
  PROVE  Max(T) \in T
<1> DEFINE U == {NumSlots - x : x \in T}
<1>1. U \subseteq Nat /\ U # {}
  <2>1. NumSlots \in Nat /\ \A x \in T : x \in 1 .. NumSlots
    BY LifecycleAssumption DEF Slots
  <2> QED BY <2>1
<1>2. \E x \in U : \A y \in U : x <= y
  <2> HIDE DEF U
  <2> QED BY <1>1, LeastNat
<1>3. PICK x \in T : \A y \in T : NumSlots - x <= NumSlots - y
  BY <1>2
<1>4. \A y \in T : x >= y
  BY <1>3, LifecycleAssumption DEF Slots
<1> QED BY <1>4 DEF Max

-------------------------------------------------------------------------------
(* The invariant: the types, of messages and places those that refer to    *)
(* slots of the table only; a slot that is used is one of the table; while *)
(* an entry is being appended the file is ahead of the header.             *)
FromActive == {"accepted", "orphan_down"}
ToWorkers  == {"connected", "close", "orphan_up"}
ToActive   == {"connect", "close", "orphan_up"}
Letters(actions, n) == [action : actions, slot : 1 .. n, fd : Sockets]

Entries == [state : States, pid : Workers \cup {None},
            down : Sockets, up : Sockets, wdown : Sockets, wup : Sockets]

ActiveAway == [at : {"loop", "append", "down"}, slot : {0}, arg : {None}]
ActiveAt(n) == [at : {"accept", "accepted", "announce", "adopt", "connected", "answer", "refuse"},
                slot : 1 .. n, arg : Sockets \cup States \cup Workers]
WorkerAway == [at : {"idle", "dead"}, slot : {0}, arg : {None}]
WorkerAt(n) == [at : {"accepted", "orphan_down", "connect", "orphan_up", "closing", "error"},
                slot : 1 .. n, arg : Sockets]

TableOK ==
  /\ conn \in [Slots -> Entries]
  /\ size \in Indices /\ file \in Indices /\ size <= file
  /\ \A s \in Slots : conn[s].state # "UNUSED" => s <= size

FdsOK == open \subseteq Sockets \ {None} /\ ups \in Int

ActiveOK ==
  /\ active \in ActiveAway \cup ActiveAt(size)
  /\ active.at = "append" => size < file
  /\ active.at = "accepted" => active.arg \in Clients
  /\ next \in 1 .. Done

WorkersOK ==
  /\ worker \in [Workers -> WorkerAway \cup WorkerAt(size)]
  /\ polled \in [Workers -> SUBSET (1 .. size)]

QueuesOK ==
  /\ broadcast \in Seq(Letters(FromActive, size))
  /\ toWorker \in [Workers -> Seq(Letters(ToWorkers, size))]
  /\ toListener \in [Workers -> Seq(Letters(ToActive, size))]

HistoryOK ==
  /\ client \in [Clients -> {"waiting", "accepted", "served", "refused", "reset", "dropped"}]
  /\ spoiled \in BOOLEAN /\ crashes \in 0 .. MaxCrashes

Sound == TableOK /\ FdsOK /\ ActiveOK /\ WorkersOK /\ QueuesOK /\ HistoryOK

LEMMA Base == Init => Sound
<1> SUFFICES ASSUME Init PROVE Sound
  OBVIOUS
<1> USE LifecycleAssumption DEF Init
<1>1. TableOK
  BY DEF TableOK, Entries, States, Sockets, Unused, Indices
<1>2. FdsOK
  BY DEF FdsOK
<1>3. ActiveOK
  BY DEF ActiveOK, ActiveAway, Loop, At, Done
<1>4. WorkersOK
  BY DEF WorkersOK, WorkerAway, Idle, At
<1>5. QueuesOK
  BY DEF QueuesOK
<1>6. HistoryOK
  <2>1. 0 \in 0 .. MaxCrashes
    OBVIOUS
  <2> QED BY <2>1 DEF HistoryOK
<1> QED BY <1>1, <1>2, <1>3, <1>4, <1>5, <1>6 DEF Sound

LEMMA Implied == Sound => TypeOK /\ Backed
<1> SUFFICES ASSUME Sound PROVE TypeOK /\ Backed
  OBVIOUS
<1>1. size \in Indices /\ 1 .. size \subseteq Slots /\ 1 .. size \subseteq Indices /\ 0 \in Indices /\ 0 <= size
      /\ \A s \in 1 .. size : s <= size
  BY LifecycleAssumption DEF Sound, TableOK, Indices, Slots
<1>2. active \in [at : {"loop", "append", "accept", "accepted", "announce", "adopt", "connected",
                      "answer", "refuse", "down"},
                slot : Indices, arg : Sockets \cup States \cup Workers] /\ active.slot <= size
  BY <1>1 DEF Sound, ActiveOK, ActiveAway, ActiveAt, Sockets
<1>3. /\ worker \in [Workers -> [at : {"idle", "accepted", "orphan_down", "connect", "orphan_up",
                                  "closing", "error", "dead"},
                            slot : Indices, arg : Sockets]]
      /\ polled \in [Workers -> SUBSET Slots]
      /\ \A w \in Workers : worker[w].slot <= size /\ \A s \in polled[w] : s <= size
  BY <1>1 DEF Sound, WorkersOK, WorkerAway, WorkerAt, Sockets
<1>4. ASSUME NEW A \in SUBSET {"accepted", "orphan_down", "connect", "connected", "close", "orphan_up"},
             NEW q \in Seq(Letters(A, size))
      PROVE  q \in Seq(Messages) /\ Within(q)
  <2>1. Letters(A, size) \subseteq Messages
    BY <1>1 DEF Letters, Messages
  <2>2. \A k \in DOMAIN q : q[k] \in Letters(A, size)
    OBVIOUS
  <2>3. q \in Seq(Messages)
    BY <2>1
  <2> QED BY <1>1, <2>2, <2>3 DEF Within, Letters
<1>5. /\ broadcast \in Seq(Messages) /\ Within(broadcast)
      /\ toWorker \in [Workers -> Seq(Messages)] /\ toListener \in [Workers -> Seq(Messages)]
      /\ \A w \in Workers : Within(toWorker[w]) /\ Within(toListener[w])
  <2>1. \A w \in Workers : toWorker[w] \in Seq(Letters(ToWorkers, size)) /\ toListener[w] \in Seq(Letters(ToActive, size))
    BY DEF Sound, QueuesOK
  <2>2. \A w \in Workers : /\ toWorker[w] \in Seq(Messages) /\ Within(toWorker[w])
                           /\ toListener[w] \in Seq(Messages) /\ Within(toListener[w])
    BY <1>4, <2>1 DEF ToWorkers, ToActive
  <2>3. broadcast \in Seq(Messages) /\ Within(broadcast)
    BY <1>4 DEF Sound, QueuesOK, FromActive
  <2>4. toWorker \in [Workers -> Seq(Messages)] /\ toListener \in [Workers -> Seq(Messages)]
    BY <2>2 DEF Sound, QueuesOK
  <2> QED BY <2>2, <2>3, <2>4
<1>6. TypeOK
  BY <1>1, <1>2, <1>3, <1>5 DEF TypeOK, Sound, TableOK, FdsOK, ActiveOK, HistoryOK, Entries
<1>7. Backed
  BY <1>1, <1>2, <1>3, <1>5 DEF Backed, Sound, TableOK
<1> QED BY <1>6, <1>7

-------------------------------------------------------------------------------
(* What the invariant says of the things that actions refer to. *)
LEMMA Places ==
  ASSUME Sound
  PROVE  /\ \A s \in 1 .. size : s \in Slots
         /\ active.at \notin {"loop", "append", "down"} =>
              active.slot \in 1 .. size /\ active.slot \in Slots /\ active.arg \in Sockets \cup States \cup Workers
         /\ \A w \in Workers : worker[w].at \notin {"idle", "dead"} =>
              worker[w].slot \in 1 .. size /\ worker[w].slot \in Slots /\ worker[w].arg \in Sockets
<1>1. \A s \in 1 .. size : s \in Slots
  BY LifecycleAssumption DEF Sound, TableOK, Indices, Slots
<1>2. active.at \notin {"loop", "append", "down"} => active \in ActiveAt(size)
  BY DEF Sound, ActiveOK, ActiveAway
<1>3. \A w \in Workers : worker[w].at \notin {"idle", "dead"} => worker[w] \in WorkerAt(size)
  BY DEF Sound, WorkersOK, WorkerAway
<1> QED BY <1>1, <1>2, <1>3 DEF ActiveAt, WorkerAt

LEMMA EntryFields ==
  ASSUME Sound, NEW s \in Slots
  PROVE  /\ conn[s] \in Entries /\ conn[s].state \in States /\ conn[s].pid \in Workers \cup {None}
         /\ conn[s].down \in Sockets /\ conn[s].up \in Sockets
         /\ conn[s].wdown \in Sockets /\ conn[s].wup \in Sockets
BY DEF Sound, TableOK, Entries

LEMMA Letter ==
  ASSUME NEW A, NEW n, NEW q \in Seq(Letters(A, n))
  PROVE  /\ \A action \in A, s \in 1 .. n, fd \in Sockets :
              Append(q, Msg(action, s, fd)) \in Seq(Letters(A, n))
         /\ q # <<>> => /\ Tail(q) \in Seq(Letters(A, n))
                        /\ Head(q).action \in A /\ Head(q).slot \in 1 .. n /\ Head(q).fd \in Sockets
<1>1. \A action \in A, s \in 1 .. n, fd \in Sockets : Msg(action, s, fd) \in Letters(A, n)
  BY DEF Msg, Letters
<1>2. q # <<>> => Tail(q) \in Seq(Letters(A, n)) /\ Head(q) \in Letters(A, n)
  OBVIOUS
<1> QED BY <1>1, <1>2 DEF Letters

LEMMA Queued ==
  ASSUME Sound, NEW action, NEW s \in 1 .. size, NEW fd \in Sockets
  PROVE  /\ broadcast # <<>> =>
              /\ Head(broadcast).action \in FromActive /\ Head(broadcast).fd \in Sockets
              /\ Head(broadcast).slot \in 1 .. size
              /\ Tail(broadcast) \in Seq(Letters(FromActive, size))
         /\ action \in FromActive =>
              Append(broadcast, Msg(action, s, fd)) \in Seq(Letters(FromActive, size))
<1>1. broadcast \in Seq(Letters(FromActive, size))
  BY DEF Sound, QueuesOK
<1> QED BY <1>1, Letter

LEMMA Told ==
  ASSUME Sound, NEW w, NEW action \in ToWorkers, NEW s \in 1 .. size, NEW fd \in Sockets,
         Tell(w, action, s, fd)
  PROVE  toWorker' \in [Workers -> Seq(Letters(ToWorkers, size))]
<1>1. \A v \in Workers : toWorker[v] \in Seq(Letters(ToWorkers, size))
  BY DEF Sound, QueuesOK
<1>2. w \in Workers => Append(toWorker[w], Msg(action, s, fd)) \in Seq(Letters(ToWorkers, size))
  BY <1>1, Letter
<1> QED BY <1>1, <1>2 DEF Tell, Sound, QueuesOK

LEMMA Reported ==
  ASSUME Sound, NEW w \in Workers, NEW action \in ToActive, NEW s \in 1 .. size,
         Report(w, action, s)
  PROVE  toListener' \in [Workers -> Seq(Letters(ToActive, size))]
<1>1. toListener[w] \in Seq(Letters(ToActive, size)) /\ None \in Sockets
  BY DEF Sound, QueuesOK, Sockets
<1>2. Append(toListener[w], Msg(action, s, None)) \in Seq(Letters(ToActive, size))
  BY <1>1, Letter
<1> QED BY <1>2 DEF Report, Sound, QueuesOK

LEMMA Receives ==
  ASSUME Sound, NEW w \in Workers, NEW action, Received(w, action)
  PROVE  /\ active = Loop
         /\ Head(toListener[w]).slot \in 1 .. size /\ Head(toListener[w]).slot \in Slots
         /\ toListener' \in [Workers -> Seq(Letters(ToActive, size))]
<1>1. toListener[w] \in Seq(Letters(ToActive, size)) /\ toListener[w] # <<>>
  BY DEF Sound, QueuesOK, Received
<1>2. Tail(toListener[w]) \in Seq(Letters(ToActive, size)) /\ Head(toListener[w]).slot \in 1 .. size
  BY <1>1, Letter
<1> QED BY <1>2, Places DEF Received, Sound, QueuesOK

LEMMA Answers ==
  ASSUME Sound, NEW w \in Workers, NEW actions, Answered(w, actions)
  PROVE  /\ Head(toWorker[w]).slot \in 1 .. size /\ Head(toWorker[w]).slot \in Slots
         /\ Head(toWorker[w]).fd \in Sockets /\ Head(toWorker[w]).action \in ToWorkers
         /\ toWorker' \in [Workers -> Seq(Letters(ToWorkers, size))]
<1>1. toWorker[w] \in Seq(Letters(ToWorkers, size)) /\ toWorker[w] # <<>>
  BY DEF Sound, QueuesOK, Answered
<1>2. /\ Tail(toWorker[w]) \in Seq(Letters(ToWorkers, size))
      /\ Head(toWorker[w]).slot \in 1 .. size /\ Head(toWorker[w]).fd \in Sockets
      /\ Head(toWorker[w]).action \in ToWorkers
  BY <1>1, Letter
<1> QED BY <1>2, Places DEF Answered, Sound, QueuesOK

(* How the actions change them. *)
LEMMA EntryStored ==
  ASSUME Sound, NEW s \in Slots, NEW e \in Entries,
         e.state = "UNUSED" \/ e.state = conn[s].state \/ s \in 1 .. size,
         conn' = [conn EXCEPT ![s] = e], UNCHANGED table
  PROVE  TableOK'
<1>1. conn' \in [Slots -> Entries] /\ \A t \in Slots : conn'[t] = IF t = s THEN e ELSE conn[t]
  BY DEF Sound, TableOK
<1>2. \A t \in Slots : conn'[t].state # "UNUSED" => t <= size
  BY <1>1 DEF Sound, TableOK, Indices
<1> QED BY <1>1, <1>2 DEF Sound, TableOK, table

LEMMA EntriesReleased ==
  ASSUME NEW C \in [Slots -> Entries], NEW S, NEW state \in States
  PROVE  /\ Released(C, S, state) \in [Slots -> Entries]
         /\ \A s \in Slots : Released(C, S, state)[s].state = IF s \in S THEN state ELSE C[s].state
         /\ \A s \in Slots : s \notin S => Released(C, S, state)[s] = C[s]
<1>1. \A s \in Slots : [C[s] EXCEPT !.state = state, !.down = None, !.up = None] \in Entries
  BY DEF Entries, Sockets
<1> QED BY <1>1 DEF Released, Entries

LEMMA SlotReleased ==
  ASSUME Sound, NEW s \in Slots, NEW state \in States,
         state = "UNUSED" \/ state = conn[s].state,
         conn' = Released(conn, {s}, state), UNCHANGED table
  PROVE  TableOK'
<1>1. conn \in [Slots -> Entries]
  BY DEF Sound, TableOK
<1>2. /\ conn' \in [Slots -> Entries]
      /\ \A t \in Slots : conn'[t].state = IF t = s THEN state ELSE conn[t].state
  BY <1>1, EntriesReleased
<1>3. \A t \in Slots : conn'[t].state # "UNUSED" => t <= size
  BY <1>2 DEF Sound, TableOK
<1> QED BY <1>2, <1>3 DEF Sound, TableOK, table

Fates == {"waiting", "accepted", "served", "refused", "reset", "dropped"}

LEMMA SocketsClosed ==
  ASSUME Sound, NEW S \in SUBSET Slots, NEW fate \in Fates, Closed(S, fate)
  PROVE  FdsOK' /\ client' \in [Clients -> Fates]
<1>1. Cardinality(S \cap Ups(conn)) \in Nat
  BY SlotSets
<1>2. ups' \in Int /\ open' \subseteq open
  BY <1>1 DEF Closed, Sound, FdsOK
<1>3. client' \in [Clients -> Fates]
  BY DEF Closed, Sound, HistoryOK, Fates
<1> QED BY <1>2, <1>3 DEF Sound, FdsOK

LEMMA ActiveGoes ==
  ASSUME Sound, UNCHANGED size,
         NEW place \in {"accept", "accepted", "announce", "adopt", "connected", "answer", "refuse"},
         NEW s \in 1 .. size, NEW arg \in Sockets \cup States \cup Workers,
         place = "accepted" => arg \in Clients,
         active' = At(place, s, arg), next' \in 1 .. Done
  PROVE  ActiveOK'
<1>1. active' \in ActiveAt(size) /\ active'.at = place /\ active'.arg = arg
  BY DEF At, ActiveAt
<1> QED BY <1>1 DEF ActiveOK

LEMMA ActiveLeaves ==
  ASSUME Sound, UNCHANGED size, active' \in {Loop, Down}, next' \in 1 .. Done
  PROVE  ActiveOK'
<1>1. active' \in ActiveAway /\ active'.at \in {"loop", "down"}
  BY DEF Loop, Down, At, ActiveAway
<1> QED BY <1>1 DEF ActiveOK

LEMMA WorkerGoes ==
  ASSUME Sound, UNCHANGED size, NEW w \in Workers,
         NEW place \in {"accepted", "orphan_down", "connect", "orphan_up", "closing", "error"},
         NEW s \in 1 .. size, NEW arg \in Sockets, Goes(w, At(place, s, arg))
  PROVE  worker' \in [Workers -> WorkerAway \cup WorkerAt(size)]
<1>1. At(place, s, arg) \in WorkerAt(size)
  BY DEF At, WorkerAt
<1> QED BY <1>1 DEF Goes, Sound, WorkersOK

LEMMA WorkerEnds ==
  ASSUME Sound, UNCHANGED size, NEW w \in Workers, Ends(w)
  PROVE  WorkersOK'
<1>1. Dead \in WorkerAway
  BY DEF Dead, At, WorkerAway
<1> QED BY <1>1 DEF Ends, Goes, Sound, WorkersOK

-------------------------------------------------------------------------------
(* Every action of the active listener preserves the invariant. *)
LEMMA ClaimedSlot ==
  ASSUME Sound, NEW s \in Slots, s <= size', ClaimSlot(s)
  PROVE  /\ conn' \in [Slots -> Entries]
         /\ \A t \in Slots : conn'[t].state # "UNUSED" => t <= size \/ t = s
         /\ active' \in ActiveAt(size') \/ ~(s \in 1 .. size')
         /\ active'.at = "accept"
<1> DEFINE e == [Unused EXCEPT !.state = "ACCEPTING"]
<1>1. e \in Entries /\ e.state = "ACCEPTING"
  BY DEF Unused, Entries, States, Sockets
<1>2. conn' = [conn EXCEPT ![s] = e]
  BY DEF ClaimSlot
<1> HIDE DEF e
<1>3. conn' \in [Slots -> Entries] /\ \A t \in Slots : t # s => conn'[t] = conn[t]
  BY <1>1, <1>2 DEF Sound, TableOK
<1>4. active' = At("accept", s, None) /\ None \in Sockets
  BY DEF ClaimSlot, Sockets
<1>5. active'.at = "accept" /\ (s \in 1 .. size' => active' \in ActiveAt(size'))
  BY <1>4 DEF At, ActiveAt
<1> QED BY <1>3, <1>5 DEF Sound, TableOK

LEMMA ClaimSound ==
  ASSUME Sound, Claim
  PROVE  Sound'
<1>1. FdsOK' /\ WorkersOK' /\ QueuesOK' /\ HistoryOK'
  BY DEF Sound, Claim, ClaimSlot, table, fds, queues, FdsOK, WorkersOK, QueuesOK, HistoryOK
<1>2. Min(Free) \in Slots /\ Min(Free) \in 1 .. size
  <2>1. Free \in SUBSET Slots /\ Free # {} /\ Free \subseteq 1 .. size
    BY Places DEF Claim, Free
  <2> QED BY <2>1, LeastSlot
<1>3. size' = size /\ file' = file /\ next' = next /\ ClaimSlot(Min(Free)) /\ Min(Free) <= size
  BY <1>2 DEF Claim, ClaimSlot, table
<1>4. /\ conn' \in [Slots -> Entries]
      /\ \A t \in Slots : conn'[t].state # "UNUSED" => t <= size
      /\ active' \in ActiveAt(size') /\ active'.at = "accept"
  BY <1>2, <1>3, ClaimedSlot
<1>5. TableOK' /\ ActiveOK'
  BY <1>3, <1>4 DEF Sound, TableOK, ActiveOK
<1> QED BY <1>1, <1>5 DEF Sound

LEMMA AppendEntrySound ==
  ASSUME Sound, AppendEntry
  PROVE  Sound'
<1>1. FdsOK' /\ WorkersOK' /\ QueuesOK' /\ HistoryOK'
  BY DEF Sound, AppendEntry, fds, queues, FdsOK, WorkersOK, QueuesOK, HistoryOK
<1>2. size \in 0 .. NumSlots /\ file \in 0 .. NumSlots /\ size <= file /\ size < NumSlots
  BY DEF AppendEntry, Sound, TableOK, Indices
<1>3. file' \in {file, size + 1} /\ file' >= file /\ file' >= size + 1
  BY <1>2 DEF AppendEntry, Max
<1>4. file' \in Indices /\ size < file' /\ size' = size /\ conn' = conn /\ next' = next
  BY <1>2, <1>3, LifecycleAssumption DEF Indices, AppendEntry
<1>5. active' \in ActiveAway /\ active'.at = "append"
  BY DEF AppendEntry, At, ActiveAway
<1>6. TableOK' /\ ActiveOK'
  BY <1>2, <1>4, <1>5 DEF Sound, TableOK, ActiveOK
<1> QED BY <1>1, <1>6 DEF Sound

LEMMA PublishEntrySound ==
  ASSUME Sound, PublishEntry
  PROVE  Sound'
<1>1. FdsOK' /\ HistoryOK'
  BY DEF Sound, PublishEntry, ClaimSlot, fds, FdsOK, HistoryOK
<1>2. /\ size \in 0 .. NumSlots /\ file \in 0 .. NumSlots /\ size < file
      /\ size' = size + 1 /\ file' = file /\ next' = next
  BY DEF PublishEntry, ClaimSlot, Sound, TableOK, ActiveOK, Indices
<1>3. size + 1 \in Slots /\ size + 1 \in 1 .. size' /\ size' \in Indices /\ size' <= file'
      /\ 1 .. size \subseteq 1 .. size' /\ size <= size'
  BY <1>2, LifecycleAssumption DEF Slots, Indices
<1>4. /\ conn' \in [Slots -> Entries]
      /\ \A t \in Slots : conn'[t].state # "UNUSED" => t <= size \/ t = size + 1
      /\ active' \in ActiveAt(size') /\ active'.at = "accept"
  BY <1>2, <1>3, ClaimedSlot DEF PublishEntry
<1>5. \A t \in Slots : conn'[t].state # "UNUSED" => t <= size'
  BY <1>2, <1>4, LifecycleAssumption DEF Slots
<1>6. TableOK' /\ ActiveOK'
  BY <1>2, <1>3, <1>4, <1>5 DEF Sound, TableOK, ActiveOK
<1>7. WorkersOK'
  <2>1. WorkerAt(size) \subseteq WorkerAt(size')
    BY <1>3 DEF WorkerAt
  <2>2. worker' = worker /\ polled' = polled
    BY DEF PublishEntry, ClaimSlot
  <2>3. polled \in [Workers -> SUBSET (1 .. size')]
    BY <1>3 DEF Sound, WorkersOK
  <2> QED BY <2>1, <2>2, <2>3 DEF Sound, WorkersOK
<1>8. QueuesOK'
  <2>1. ASSUME NEW A PROVE Seq(Letters(A, size)) \subseteq Seq(Letters(A, size'))
    <3>1. Letters(A, size) \subseteq Letters(A, size')
      BY <1>3 DEF Letters
    <3> QED BY <3>1
  <2>2. UNCHANGED queues
    BY DEF PublishEntry, ClaimSlot
  <2> QED BY <2>1, <2>2 DEF Sound, QueuesOK, queues
<1> QED BY <1>1, <1>6, <1>7, <1>8 DEF Sound

LEMMA AcceptSound ==
  ASSUME Sound, Accept
  PROVE  Sound'
<1>1. TableOK' /\ WorkersOK' /\ QueuesOK'
  BY DEF Sound, Accept, table, queues, TableOK, WorkersOK, QueuesOK
<1>2. PICK c \in Clients : /\ client' = [client EXCEPT ![c] = "accepted"]
                           /\ open' = open \cup {c}
                           /\ active' = At("accepted", active.slot, c)
  BY DEF Accept
<1>3. ActiveOK'
  <2>1. active.slot \in 1 .. size /\ c \in Sockets \cup States \cup Workers
    BY Places DEF Accept, Sockets
  <2> QED BY <1>2, <2>1, ActiveGoes DEF Accept, table, Sound, ActiveOK
<1>4. HistoryOK'
  BY <1>2 DEF Accept, Sound, HistoryOK
<1>5. ups' = ups /\ open' \subseteq Sockets \ {None}
  BY <1>2, LifecycleAssumption DEF Accept, Sound, FdsOK, Sockets
<1> QED BY <1>1, <1>3, <1>4, <1>5 DEF Sound, FdsOK

LEMMA NoteAcceptedSound ==
  ASSUME Sound, NoteAccepted
  PROVE  Sound'
<1>1. FdsOK' /\ WorkersOK' /\ QueuesOK' /\ HistoryOK'
  BY DEF Sound, NoteAccepted, table, fds, queues, FdsOK, WorkersOK, QueuesOK, HistoryOK
<1> DEFINE s == active.slot
           e == [conn[s] EXCEPT !.down = active.arg]
<1>2. s \in 1 .. size /\ s \in Slots /\ active.arg \in Sockets /\ UNCHANGED table
  BY Places DEF NoteAccepted, Sound, ActiveOK, Sockets
<1>3. e \in Entries /\ e.state = conn[s].state
  BY <1>2, EntryFields DEF Entries
<1>4. conn' = [conn EXCEPT ![s] = e]
  BY <1>2 DEF NoteAccepted
<1>5. TableOK'
  <2> HIDE DEF e, s
  <2> QED BY <1>2, <1>3, <1>4, EntryStored
<1>6. ActiveOK'
  <2>1. None \in Sockets \cup States \cup Workers
    BY DEF Sockets
  <2> QED BY <1>2, <2>1, ActiveGoes DEF NoteAccepted, table, Sound, ActiveOK
<1> QED BY <1>1, <1>5, <1>6 DEF Sound

LEMMA AnnounceAcceptedSound ==
  ASSUME Sound, AnnounceAccepted
  PROVE  Sound'
<1>1. TableOK' /\ FdsOK' /\ WorkersOK'
  BY DEF Sound, AnnounceAccepted, table, fds, TableOK, FdsOK, WorkersOK
<1>2. active.slot \in 1 .. size /\ conn[active.slot].down \in Sockets /\ "accepted" \in FromActive
  BY Places, EntryFields DEF AnnounceAccepted, FromActive
<1>3. broadcast' \in Seq(Letters(FromActive, size))
  BY <1>2, Queued DEF AnnounceAccepted, Announce
<1>4. QueuesOK'
  BY <1>3 DEF AnnounceAccepted, table, Sound, QueuesOK
<1>5. ActiveOK'
  BY ActiveLeaves DEF AnnounceAccepted, table, Sound, ActiveOK
<1>6. HistoryOK'
  BY DEF AnnounceAccepted, Announce, Announced, Sound, HistoryOK
<1> QED BY <1>1, <1>4, <1>5, <1>6 DEF Sound

LEMMA AnnouncedSlot ==
  ASSUME Sound, NEW action \in FromActive, NEW s \in 1 .. size, Announce(action, s)
  PROVE  /\ broadcast' \in Seq(Letters(FromActive, size))
         /\ spoiled' \in BOOLEAN
<1>1. conn[s].down \in Sockets
  BY Places, EntryFields
<1>2. broadcast' \in Seq(Letters(FromActive, size))
  BY <1>1, Queued DEF Announce
<1>3. spoiled' \in BOOLEAN
  BY DEF Announce, Announced, Sound, HistoryOK
<1> QED BY <1>2, <1>3

LEMMA AdoptSound ==
  ASSUME Sound, Adopt
  PROVE  Sound'
<1>1. TableOK' /\ FdsOK' /\ WorkersOK' /\ QueuesOK' /\ HistoryOK'
  BY DEF Sound, Adopt, table, fds, queues, TableOK, FdsOK, WorkersOK, QueuesOK, HistoryOK
<1> DEFINE rest == {s \in Orphans : s >= next}
<1>2. Orphans \in SUBSET Slots /\ Orphans \subseteq 1 .. size
  BY LifecycleAssumption DEF Orphans, Sound, TableOK, Slots, Indices
<1>3. size' = size /\ next \in 1 .. Done
  BY DEF Adopt, table, Sound, ActiveOK
<1>4. CASE rest # {}
  <2>1. Min(rest) \in rest
    BY <1>2, <1>4, LeastSlot
  <2>2. Min(rest) \in 1 .. size /\ Min(rest) \in Slots
    BY <1>2, <2>1
  <2>3. conn[Min(rest)].state \in Sockets \cup States \cup Workers
    BY <2>2, EntryFields
  <2>4. active' = At("adopt", Min(rest), conn[Min(rest)].state) /\ next' = next
    BY <1>4 DEF Adopt
  <2>5. ActiveOK'
    <3> HIDE DEF rest
    <3> QED BY <1>3, <2>2, <2>3, <2>4, ActiveGoes
  <2> QED BY <1>1, <2>5 DEF Sound
<1>5. CASE rest = {}
  <2>1. active' = Loop /\ next' = IF Orphans = {} THEN Done ELSE Max(Orphans) + 1
    BY <1>5 DEF Adopt
  <2>2. Orphans # {} => Max(Orphans) \in 1 .. NumSlots
    BY <1>2, LastSlot DEF Slots
  <2>3. next' \in 1 .. Done
    BY <2>1, <2>2, LifecycleAssumption DEF Done
  <2>4. ActiveOK'
    BY <1>3, <2>1, <2>3, ActiveLeaves
  <2> QED BY <1>1, <2>4 DEF Sound
<1> QED BY <1>4, <1>5

LEMMA DistributeSound ==
  ASSUME Sound, Distribute
  PROVE  Sound'
<1>1. FdsOK' /\ WorkersOK'
  BY DEF Sound, Distribute, table, fds, FdsOK, WorkersOK
<1> DEFINE s == active.slot
           e == [conn[s] EXCEPT !.wdown = None, !.wup = None,
                  !.state = IF active.arg = "CONNECTING" THEN "POLL" ELSE @]
<1>2. s \in 1 .. size /\ s \in Slots /\ UNCHANGED table
  BY Places DEF Distribute
<1>3. e \in Entries
  BY <1>2, EntryFields, ZenonT(20) DEF Entries, Sockets, States
<1>4. conn' = [conn EXCEPT ![s] = e]
  BY DEF Distribute
<1>5. TableOK'
  <2> HIDE DEF e, s
  <2> QED BY <1>2, <1>3, <1>4, EntryStored
<1>6. s + 1 \in 1 .. Done /\ next \in 1 .. Done
  BY <1>2, LifecycleAssumption DEF Done, Sound, ActiveOK, Slots
<1>7. ActiveOK'
  <2>1. active' \in {Loop, Down} /\ next' \in 1 .. Done
    BY <1>6 DEF Distribute
  <2> QED BY <1>2, <2>1, ActiveLeaves DEF table
<1>8. broadcast' \in Seq(Letters(FromActive, size)) /\ spoiled' \in BOOLEAN
  <2>1. broadcast \in Seq(Letters(FromActive, size)) /\ spoiled \in BOOLEAN
    BY DEF Sound, QueuesOK, HistoryOK
  <2>2. \/ UNCHANGED <<broadcast, spoiled>>
        \/ \E action \in FromActive : Announce(action, s)
    BY DEF Distribute, FromActive
  <2> HIDE DEF s
  <2> QED BY <1>2, <2>1, <2>2, AnnouncedSlot
<1>9. QueuesOK' /\ HistoryOK'
  BY <1>2, <1>8 DEF Distribute, table, Sound, QueuesOK, HistoryOK
<1> QED BY <1>1, <1>5, <1>7, <1>9 DEF Sound

LEMMA ConnectSound ==
  ASSUME Sound, NEW w \in Workers, Connect(w)
  PROVE  Sound'
<1>1. TableOK' /\ WorkersOK' /\ HistoryOK'
  BY DEF Sound, Connect, table, TableOK, WorkersOK, HistoryOK
<1>2. FdsOK'
  BY DEF Connect, Sound, FdsOK
<1>3. /\ Head(toListener[w]).slot \in 1 .. size
      /\ toListener' \in [Workers -> Seq(Letters(ToActive, size))]
  BY Receives DEF Connect
<1>4. ActiveOK'
  BY <1>3, ActiveGoes DEF Connect, table, Sound, ActiveOK
<1>5. QueuesOK'
  BY <1>3 DEF Connect, table, Sound, QueuesOK
<1> QED BY <1>1, <1>2, <1>4, <1>5 DEF Sound

LEMMA NoteConnectedSound ==
  ASSUME Sound, NoteConnected
  PROVE  Sound'
<1>1. FdsOK' /\ WorkersOK' /\ QueuesOK' /\ HistoryOK'
  BY DEF Sound, NoteConnected, table, fds, queues, FdsOK, WorkersOK, QueuesOK, HistoryOK
<1> DEFINE s == active.slot
           e == [conn[s] EXCEPT !.up = Upstream]
<1>2. s \in 1 .. size /\ s \in Slots /\ active.arg \in Sockets \cup States \cup Workers /\ UNCHANGED table
  BY Places DEF NoteConnected
<1>3. e \in Entries /\ e.state = conn[s].state
  BY <1>2, EntryFields DEF Entries, Sockets
<1>4. conn' = [conn EXCEPT ![s] = e]
  BY DEF NoteConnected
<1>5. TableOK'
  <2> HIDE DEF e, s
  <2> QED BY <1>2, <1>3, <1>4, EntryStored
<1>6. active \in ActiveAt(size)
  BY DEF NoteConnected, Sound, ActiveOK, ActiveAway
<1>7. active' \in ActiveAt(size) /\ active'.at = "answer"
  BY <1>6 DEF NoteConnected, ActiveAt
<1>8. ActiveOK'
  BY <1>7 DEF NoteConnected, table, Sound, ActiveOK
<1> QED BY <1>1, <1>5, <1>8 DEF Sound

LEMMA AnswerConnectedSound ==
  ASSUME Sound, AnswerConnected
  PROVE  Sound'
<1>1. TableOK' /\ FdsOK' /\ WorkersOK' /\ HistoryOK'
  BY DEF Sound, AnswerConnected, table, fds, TableOK, FdsOK, WorkersOK, HistoryOK
<1>2. active.slot \in 1 .. size /\ "connected" \in ToWorkers /\ Upstream \in Sockets
  BY Places DEF AnswerConnected, ToWorkers, Sockets
<1>3. toWorker' \in [Workers -> Seq(Letters(ToWorkers, size))]
  BY <1>2, Told DEF AnswerConnected
<1>4. QueuesOK'
  BY <1>3 DEF AnswerConnected, table, Sound, QueuesOK
<1>5. ActiveOK'
  BY ActiveLeaves DEF AnswerConnected, table, Sound, ActiveOK
<1> QED BY <1>1, <1>4, <1>5 DEF Sound

LEMMA Refused ==
  ASSUME Sound, NEW s \in 1 .. size, NEW w \in Workers \cup Sockets \cup States, NEW fate \in Fates,
         Refuse(s, w, fate), UNCHANGED <<table, next>>
  PROVE  TableOK' /\ FdsOK' /\ ActiveOK' /\ client' \in [Clients -> Fates]
<1>1. s \in Slots /\ {s} \in SUBSET Slots /\ conn[s].state \in States
  BY Places, EntryFields
<1>2. FdsOK' /\ client' \in [Clients -> Fates]
  BY <1>1, SocketsClosed DEF Refuse
<1>3. TableOK'
  BY <1>1, SlotReleased DEF Refuse
<1>4. ActiveOK'
  BY ActiveGoes DEF Refuse, table, Sound, ActiveOK
<1> QED BY <1>2, <1>3, <1>4

LEMMA ConnectFailsSound ==
  ASSUME Sound, NEW w \in Workers, ConnectFails(w)
  PROVE  Sound'
<1>1. WorkersOK'
  BY DEF Sound, ConnectFails, table, WorkersOK
<1>2. /\ Head(toListener[w]).slot \in 1 .. size
      /\ toListener' \in [Workers -> Seq(Letters(ToActive, size))]
  BY Receives DEF ConnectFails
<1>3. TableOK' /\ FdsOK' /\ ActiveOK' /\ client' \in [Clients -> Fates]
  BY <1>2, Refused DEF ConnectFails, Fates
<1>4. QueuesOK' /\ HistoryOK'
  BY <1>2, <1>3 DEF ConnectFails, table, Sound, QueuesOK, HistoryOK, Fates
<1> QED BY <1>1, <1>3, <1>4 DEF Sound

LEMMA AnswerFailsSound ==
  ASSUME Sound, AnswerFails
  PROVE  Sound'
<1>1. WorkersOK' /\ QueuesOK'
  BY DEF Sound, AnswerFails, table, queues, WorkersOK, QueuesOK
<1>2. active.slot \in 1 .. size /\ active.arg \in Workers \cup Sockets \cup States
  BY Places DEF AnswerFails
<1>3. TableOK' /\ FdsOK' /\ ActiveOK' /\ client' \in [Clients -> Fates]
  BY <1>2, Refused DEF AnswerFails, Fates
<1>4. HistoryOK'
  BY <1>3 DEF AnswerFails, Sound, HistoryOK, Fates
<1> QED BY <1>1, <1>3, <1>4 DEF Sound

LEMMA TellRefusedSound ==
  ASSUME Sound, TellRefused
  PROVE  Sound'
<1>1. TableOK' /\ FdsOK' /\ WorkersOK' /\ HistoryOK'
  BY DEF Sound, TellRefused, table, fds, TableOK, FdsOK, WorkersOK, HistoryOK
<1>2. active.slot \in 1 .. size /\ "close" \in ToWorkers /\ None \in Sockets
  BY Places DEF TellRefused, ToWorkers, Sockets
<1>3. toWorker' \in [Workers -> Seq(Letters(ToWorkers, size))]
  BY <1>2, Told DEF TellRefused, Sound, QueuesOK
<1>4. QueuesOK'
  BY <1>3 DEF TellRefused, table, Sound, QueuesOK
<1>5. ActiveOK'
  BY ActiveLeaves DEF TellRefused, table, Sound, ActiveOK
<1> QED BY <1>1, <1>4, <1>5 DEF Sound

LEMMA CloseSound ==
  ASSUME Sound, NEW w \in Workers, Close(w)
  PROVE  Sound'
<1>1. WorkersOK'
  BY DEF Sound, Close, table, WorkersOK
<1> DEFINE s == Head(toListener[w]).slot
           fate == IF conn[s].state = "ERROR" THEN "reset" ELSE "served"
<1>2. /\ s \in Slots /\ {s} \in SUBSET Slots /\ fate \in Fates /\ "UNUSED" \in States
      /\ active = Loop
      /\ toListener' \in [Workers -> Seq(Letters(ToActive, size))]
  BY Receives DEF Close, Fates, States
<1>3. QueuesOK'
  BY <1>2 DEF Close, table, Sound, QueuesOK
<1>4. ActiveOK'
  BY <1>2, ActiveLeaves DEF Close, table, Sound, ActiveOK
<1>5. \/ conn' = Released(conn, {s}, "UNUSED") /\ Closed({s}, fate)
      \/ UNCHANGED <<conn, fds, client>>
  BY DEF Close
<1>6. TableOK' /\ FdsOK' /\ client' \in [Clients -> Fates]
  <2>1. UNCHANGED <<table, spoiled, crashes>>
    BY DEF Close
  <2> HIDE DEF s, fate
  <2>2. CASE conn' = Released(conn, {s}, "UNUSED") /\ Closed({s}, fate)
    BY <1>2, <2>1, <2>2, SlotReleased, SocketsClosed
  <2>3. CASE UNCHANGED <<conn, fds, client>>
    BY <2>1, <2>3 DEF table, fds, Sound, TableOK, FdsOK, HistoryOK, Fates
  <2> QED BY <1>5, <2>2, <2>3
<1>7. HistoryOK'
  BY <1>6 DEF Close, Sound, HistoryOK, Fates
<1> QED BY <1>1, <1>3, <1>4, <1>6, <1>7 DEF Sound

LEMMA PassUpstreamSound ==
  ASSUME Sound, NEW w \in Workers, PassUpstream(w)
  PROVE  Sound'
<1>1. TableOK' /\ FdsOK' /\ WorkersOK' /\ HistoryOK'
  BY DEF Sound, PassUpstream, table, fds, TableOK, FdsOK, WorkersOK, HistoryOK
<1> DEFINE s == Head(toListener[w]).slot
<1>2. /\ s \in 1 .. size /\ s \in Slots /\ active = Loop
      /\ toListener' \in [Workers -> Seq(Letters(ToActive, size))]
  BY Receives DEF PassUpstream
<1>3. conn[s].up \in Sockets /\ "orphan_up" \in ToWorkers
  BY <1>2, EntryFields DEF ToWorkers
<1>4. toWorker' \in [Workers -> Seq(Letters(ToWorkers, size))]
  BY <1>2, <1>3, Told DEF PassUpstream, Sound, QueuesOK
<1>5. QueuesOK'
  BY <1>2, <1>4 DEF PassUpstream, table, Sound, QueuesOK
<1>6. ActiveOK'
  BY <1>2, ActiveLeaves DEF PassUpstream, table, Sound, ActiveOK
<1> QED BY <1>1, <1>5, <1>6 DEF Sound

LEMMA IpcEofSound ==
  ASSUME Sound, NEW w \in Workers, IpcEof(w)
  PROVE  Sound'
<1>1. TableOK' /\ FdsOK' /\ WorkersOK' /\ QueuesOK' /\ HistoryOK'
  BY DEF Sound, IpcEof, table, fds, queues, TableOK, FdsOK, WorkersOK, QueuesOK, HistoryOK
<1>2. ActiveOK'
  BY ActiveLeaves DEF IpcEof, table, Sound, ActiveOK
<1> QED BY <1>1, <1>2 DEF Sound

(* A new listener recovers: it releases the slots that are done with and   *)
(* stores at most one descriptor, so that no slot comes into use.          *)
LEMMA Recovers ==
  ASSUME Sound, NEW C0 \in [Slots -> Entries], \A s \in Slots : C0[s].state = conn[s].state,
         Recover(C0), UNCHANGED table
  PROVE  TableOK' /\ FdsOK' /\ ActiveOK' /\ client' \in [Clients -> Fates] /\ spoiled' \in BOOLEAN
<1> DEFINE ended   == {s \in Slots : Over(conn[s])}
           C       == Released(C0, ended, "UNUSED")
           held    == Cardinality(ended \cap Ups(conn))
           lostOnes == (open \ {conn[s].down : s \in ended}) \ Downs(C)
           lostUps == ups - held - Cardinality(Ups(C))
           lost    == Cardinality(lostOnes) + lostUps
           found   == IF lostOnes # {} THEN CHOOSE c \in lostOnes : TRUE ELSE Upstream
           accepting  == {s \in Slots : C[s].state = "ACCEPTING" /\ C[s].down = None}
           connecting == {s \in Slots : C[s].state = "CONNECTING" /\ C[s].up = None}
           match   == lost = 1 /\ Cardinality(accepting \cup connecting) = 1
           R       == [s \in Slots |->
                        IF match /\ s \in accepting THEN [C[s] EXCEPT !.down = found]
                        ELSE IF match /\ s \in connecting THEN [C[s] EXCEPT !.up = found]
                        ELSE C[s]]
           broken  == \E s \in Slots : Broken(R[s])
<1>1. /\ conn' = R
      /\ open' = Downs(R) /\ ups' = Cardinality(Ups(R))
      /\ client' = [c \in Clients |->
           IF \E s \in ended : conn[s].down = c
           THEN IF \E s \in ended : conn[s].down = c /\ conn[s].state = "ERROR" THEN "reset" ELSE "served"
           ELSE IF c \in lostOnes /\ ~match THEN "dropped" ELSE client[c]]
      /\ active' \in {Loop, Down}
      /\ next' = 1
      /\ spoiled' = (spoiled \/ broken)
  BY DEF Recover
<1>2. /\ C \in [Slots -> Entries]
      /\ \A s \in Slots : C[s].state # "UNUSED" => C[s].state = conn[s].state
  <2>1. "UNUSED" \in States
    BY DEF States
  <2> HIDE DEF ended
  <2> QED BY <2>1, EntriesReleased
<1>3. found \in Sockets
  <2>1. lostOnes \subseteq Sockets /\ Upstream \in Sockets
    BY DEF Sound, FdsOK, Sockets
  <2> HIDE DEF lostOnes
  <2> QED BY <2>1
<1>4. /\ R \in [Slots -> Entries]
      /\ \A s \in Slots : R[s].state # "UNUSED" => R[s].state = conn[s].state
  <2> HIDE DEF C, found, match, accepting, connecting
  <2>1. ASSUME NEW s \in Slots
        PROVE  /\ [C[s] EXCEPT !.down = found] \in Entries /\ [C[s] EXCEPT !.up = found] \in Entries
               /\ [C[s] EXCEPT !.down = found].state = C[s].state
               /\ [C[s] EXCEPT !.up = found].state = C[s].state
    BY <1>2, <1>3 DEF Entries
  <2> QED BY <1>2, <2>1
<1> HIDE DEF R
<1>5. TableOK'
  BY <1>1, <1>4 DEF table, Sound, TableOK
<1>6. FdsOK'
  <2>1. Ups(R) \in SUBSET Slots
    BY DEF Ups
  <2>2. Cardinality(Ups(R)) \in Nat
    BY <2>1, SlotSets
  <2>3. Downs(R) \subseteq Sockets \ {None}
    BY <1>4 DEF Downs, Entries
  <2> QED BY <1>1, <2>2, <2>3 DEF FdsOK
<1>7. ActiveOK'
  <2>1. next' \in 1 .. Done
    BY <1>1, LifecycleAssumption DEF Done
  <2> QED BY <1>1, <2>1, ActiveLeaves DEF table
<1>8. client' \in [Clients -> Fates]
  <2> HIDE DEF ended, lostOnes, match
  <2>1. client \in [Clients -> Fates]
    BY DEF Sound, HistoryOK, Fates
  <2> QED BY <1>1, <2>1 DEF Fates
<1>9. spoiled' \in BOOLEAN
  BY <1>1 DEF Sound, HistoryOK
<1> QED BY <1>5, <1>6, <1>7, <1>8, <1>9

LEMMA RestartSound ==
  ASSUME Sound, Restart
  PROVE  Sound'
<1> DEFINE C0 == [s \in Slots |-> [conn[s] EXCEPT !.pid = None]]
<1>1. C0 \in [Slots -> Entries] /\ \A s \in Slots : C0[s].state = conn[s].state
  BY DEF Sound, TableOK, Entries
<1>2. Recover(C0) /\ UNCHANGED table
  BY DEF Restart
<1>3. TableOK' /\ FdsOK' /\ ActiveOK' /\ client' \in [Clients -> Fates] /\ spoiled' \in BOOLEAN
  <2> HIDE DEF C0
  <2> QED BY <1>1, <1>2, Recovers
<1>4. WorkersOK'
  <2>1. Idle \in WorkerAway
    BY DEF Idle, At, WorkerAway
  <2> QED BY <2>1 DEF Restart, WorkersOK
<1>5. QueuesOK'
  <2>1. \A A, n : <<>> \in Seq(Letters(A, n))
    OBVIOUS
  <2> QED BY <1>2, <2>1 DEF Restart, table, Sound, QueuesOK
<1>6. HistoryOK'
  BY <1>3 DEF Restart, Sound, HistoryOK, Fates
<1> QED BY <1>3, <1>4, <1>5, <1>6 DEF Sound

LEMMA TakeOverSound ==
  ASSUME Sound, TakeOver
  PROVE  Sound'
<1>1. WorkersOK' /\ QueuesOK'
  BY DEF Sound, TakeOver, table, queues, WorkersOK, QueuesOK
<1>2. conn \in [Slots -> Entries] /\ Recover(conn) /\ UNCHANGED table
  BY DEF TakeOver, Sound, TableOK
<1>3. TableOK' /\ FdsOK' /\ ActiveOK' /\ client' \in [Clients -> Fates] /\ spoiled' \in BOOLEAN
  BY <1>2, Recovers
<1>4. crashes' \in 0 .. MaxCrashes
  BY LifecycleAssumption DEF TakeOver, Sound, HistoryOK
<1>5. HistoryOK'
  BY <1>3, <1>4 DEF HistoryOK, Fates
<1> QED BY <1>1, <1>3, <1>5 DEF Sound

-------------------------------------------------------------------------------
(* And every action of a worker. *)
LEMMA TakeSound ==
  ASSUME Sound, NEW w \in Workers, Take(w)
  PROVE  Sound'
<1>1. TableOK' /\ FdsOK' /\ ActiveOK' /\ HistoryOK'
  BY DEF Sound, Take, table, fds, TableOK, FdsOK, ActiveOK, HistoryOK
<1> DEFINE m == Head(broadcast)
<1>2. /\ m.action \in FromActive /\ m.slot \in 1 .. size /\ m.fd \in Sockets
      /\ Tail(broadcast) \in Seq(Letters(FromActive, size))
  <2>1. broadcast \in Seq(Letters(FromActive, size)) /\ broadcast # <<>>
    BY DEF Take, Sound, QueuesOK
  <2> QED BY <2>1, Letter
<1>3. UNCHANGED size
  BY DEF Take, table
<1>4. QueuesOK'
  BY <1>2, <1>3 DEF Take, Sound, QueuesOK
<1>5. CASE Ends(w)
  BY <1>1, <1>3, <1>4, <1>5, WorkerEnds DEF Sound
<1>6. CASE Goes(w, At(m.action, m.slot, m.fd)) /\ UNCHANGED polled
  <2>1. worker' \in [Workers -> WorkerAway \cup WorkerAt(size)]
    <3> HIDE DEF m
    <3> QED BY <1>2, <1>3, <1>6, WorkerGoes DEF FromActive
  <2>2. WorkersOK'
    BY <1>3, <1>6, <2>1 DEF Sound, WorkersOK
  <2> QED BY <1>1, <1>4, <2>2 DEF Sound
<1> QED BY <1>5, <1>6 DEF Take

LEMMA NoteTakenSound ==
  ASSUME Sound, NEW w \in Workers, NoteTaken(w)
  PROVE  Sound'
<1>1. FdsOK' /\ ActiveOK' /\ QueuesOK' /\ HistoryOK'
  BY DEF Sound, NoteTaken, table, fds, queues, FdsOK, ActiveOK, QueuesOK, HistoryOK
<1> DEFINE s == worker[w].slot
           c == conn[s]
           mine == [Owned(c, w) EXCEPT !.wdown = worker[w].arg,
                !.state = IF worker[w].at = "accepted" THEN "CONNECTING" ELSE @]
           next2 == At(IF mine.state = "CONNECTING" THEN "connect" ELSE "orphan_up", s, None)
<1>2. s \in 1 .. size /\ s \in Slots /\ worker[w].arg \in Sockets /\ UNCHANGED table
  BY Places DEF NoteTaken
<1>3. Owned(c, w) \in Entries /\ Owned(c, w).state = c.state
  BY <1>2, EntryFields DEF Owned, Entries
<1>4. mine \in Entries
  BY <1>2, <1>3 DEF Entries, States
<1>5. \/ conn' = [conn EXCEPT ![s] = Owned(c, w)] /\ Ends(w)
      \/ conn' = [conn EXCEPT ![s] = mine] /\ Goes(w, next2) /\ UNCHANGED polled
  BY <1>2 DEF NoteTaken, Sound, TableOK
<1>6. None \in Sockets
  BY DEF Sockets
<1> HIDE DEF mine, c, s
<1>7. CASE conn' = [conn EXCEPT ![s] = Owned(c, w)] /\ Ends(w)
  <2>1. TableOK'
    BY <1>2, <1>3, <1>7, EntryStored
  <2>2. WorkersOK'
    BY <1>2, <1>7, WorkerEnds DEF table
  <2> QED BY <1>1, <2>1, <2>2 DEF Sound
<1>8. CASE conn' = [conn EXCEPT ![s] = mine] /\ Goes(w, next2) /\ UNCHANGED polled
  <2>1. TableOK'
    BY <1>2, <1>4, <1>8, EntryStored
  <2>2. worker' \in [Workers -> WorkerAway \cup WorkerAt(size)]
    BY <1>2, <1>6, <1>8, WorkerGoes DEF table
  <2>3. WorkersOK'
    BY <1>2, <1>8, <2>2 DEF table, Sound, WorkersOK
  <2> QED BY <1>1, <2>1, <2>3 DEF Sound
<1> QED BY <1>5, <1>7, <1>8

LEMMA WorkerRests ==
  ASSUME Sound, UNCHANGED size, NEW w \in Workers, Goes(w, Idle)
  PROVE  worker' \in [Workers -> WorkerAway \cup WorkerAt(size)]
<1>1. Idle \in WorkerAway
  BY DEF Idle, At, WorkerAway
<1> QED BY <1>1 DEF Goes, Sound, WorkersOK

LEMMA AskSound ==
  ASSUME Sound, NEW w \in Workers, Ask(w)
  PROVE  Sound'
<1>1. TableOK' /\ FdsOK' /\ ActiveOK' /\ HistoryOK'
  BY DEF Sound, Ask, table, fds, TableOK, FdsOK, ActiveOK, HistoryOK
<1>2. worker[w].at \in {"connect", "orphan_up"} /\ worker[w].slot \in 1 .. size /\ UNCHANGED <<size, polled>>
  BY Places DEF Ask, table
<1>3. worker' \in [Workers -> WorkerAway \cup WorkerAt(size)]
  BY <1>2, WorkerRests DEF Ask
<1>4. WorkersOK'
  BY <1>2, <1>3 DEF Sound, WorkersOK
<1>5. toListener' \in [Workers -> Seq(Letters(ToActive, size))]
  <2>1. worker[w].at \in ToActive
    BY <1>2 DEF ToActive
  <2> QED BY <1>2, <2>1, Reported DEF Ask
<1>6. QueuesOK'
  BY <1>2, <1>5 DEF Ask, Sound, QueuesOK
<1> QED BY <1>1, <1>4, <1>6 DEF Sound

LEMMA TakeUpstreamSound ==
  ASSUME Sound, NEW w \in Workers, TakeUpstream(w)
  PROVE  Sound'
<1>1. FdsOK' /\ ActiveOK' /\ HistoryOK'
  BY DEF Sound, TakeUpstream, table, fds, FdsOK, ActiveOK, HistoryOK
<1> DEFINE m == Head(toWorker[w])
           s == m.slot
           c == conn[s]
           mine == IF m.action = "connected"
                   THEN [c EXCEPT !.wup = m.fd, !.state = IF c.wdown = None THEN @ ELSE "POLL"]
                   ELSE [Owned(c, w) EXCEPT !.wup = m.fd]
<1>2. /\ s \in 1 .. size /\ s \in Slots /\ m.fd \in Sockets /\ UNCHANGED table
      /\ toWorker' \in [Workers -> Seq(Letters(ToWorkers, size))]
  BY Answers DEF TakeUpstream
<1>3. c \in Entries /\ Owned(c, w) \in Entries /\ mine \in Entries
  BY <1>2, EntryFields DEF Owned, Entries, States
<1>4. \E e \in Entries : conn' = [conn EXCEPT ![s] = e]
  <2>1. conn' = [conn EXCEPT ![s] = mine] \/ conn' = [conn EXCEPT ![s] = Owned(c, w)] \/ conn' = [conn EXCEPT ![s] = c]
    BY DEF TakeUpstream
  <2> HIDE DEF mine, c, s
  <2> QED BY <1>3, <2>1
<1>5. TableOK'
  <2> HIDE DEF mine, c, s
  <2> QED BY <1>2, <1>4, EntryStored
<1>6. WorkersOK'
  <2>1. Ends(w) \/ (polled' = [polled EXCEPT ![w] = @ \cup {s}] /\ UNCHANGED worker)
    BY DEF TakeUpstream
  <2> HIDE DEF mine, c, s
  <2>2. CASE Ends(w)
    BY <1>2, <2>2, WorkerEnds DEF table
  <2>3. CASE polled' = [polled EXCEPT ![w] = @ \cup {s}] /\ UNCHANGED worker
    BY <1>2, <2>3 DEF table, Sound, WorkersOK
  <2> QED BY <2>1, <2>2, <2>3
<1>7. QueuesOK'
  BY <1>2 DEF TakeUpstream, table, Sound, QueuesOK
<1> QED BY <1>1, <1>5, <1>6, <1>7 DEF Sound

LEMMA TakeRefusalSound ==
  ASSUME Sound, NEW w \in Workers, TakeRefusal(w)
  PROVE  Sound'
<1>1. FdsOK' /\ ActiveOK' /\ HistoryOK'
  BY DEF Sound, TakeRefusal, table, fds, FdsOK, ActiveOK, HistoryOK
<1> DEFINE s == Head(toWorker[w]).slot
           e == [conn[s] EXCEPT !.wdown = None, !.wup = None, !.state = "UNUSED"]
<1>2. /\ s \in Slots /\ UNCHANGED table
      /\ toWorker' \in [Workers -> Seq(Letters(ToWorkers, size))]
  BY Answers DEF TakeRefusal
<1>3. e \in Entries /\ e.state = "UNUSED"
  BY <1>2, EntryFields DEF Entries, Sockets, States
<1>4. conn' = [conn EXCEPT ![s] = e]
  BY DEF TakeRefusal
<1>5. TableOK'
  <2> HIDE DEF e, s
  <2> QED BY <1>2, <1>3, <1>4, EntryStored
<1>6. WorkersOK'
  BY DEF TakeRefusal, Forgotten, table, Sound, WorkersOK
<1>7. QueuesOK'
  BY <1>2 DEF TakeRefusal, table, Sound, QueuesOK
<1> QED BY <1>1, <1>5, <1>6, <1>7 DEF Sound

LEMMA EndsSlot ==
  ASSUME Sound, NEW w \in Workers, NEW s \in Slots, s \in polled[w],
         NEW state \in {"CLOSING", "ERROR"}, NEW place \in {"closing", "error"},
         conn' = [conn EXCEPT ![s].state = state], Goes(w, At(place, s, None)),
         UNCHANGED <<table, polled>>
  PROVE  TableOK' /\ WorkersOK'
<1> DEFINE e == [conn[s] EXCEPT !.state = state]
<1>1. s \in 1 .. size /\ None \in Sockets
  BY DEF Sound, WorkersOK, Sockets
<1>2. e \in Entries /\ conn' = [conn EXCEPT ![s] = e]
  BY EntryFields DEF Entries, States
<1>3. TableOK'
  <2> HIDE DEF e
  <2> QED BY <1>1, <1>2, EntryStored
<1>4. worker' \in [Workers -> WorkerAway \cup WorkerAt(size)]
  BY <1>1, WorkerGoes DEF table
<1>5. WorkersOK'
  BY <1>4 DEF table, Sound, WorkersOK
<1> QED BY <1>3, <1>5

LEMMA FinishSound ==
  ASSUME Sound, NEW w \in Workers, NEW s \in Slots, Finish(w, s)
  PROVE  Sound'
<1>1. FdsOK' /\ ActiveOK' /\ QueuesOK' /\ HistoryOK'
  BY DEF Sound, Finish, table, fds, queues, FdsOK, ActiveOK, QueuesOK, HistoryOK
<1>2. TableOK' /\ WorkersOK'
  BY EndsSlot DEF Finish
<1> QED BY <1>1, <1>2 DEF Sound

LEMMA FailSound ==
  ASSUME Sound, NEW w \in Workers, NEW s \in Slots, Fail(w, s)
  PROVE  Sound'
<1>1. FdsOK' /\ ActiveOK' /\ QueuesOK'
  BY DEF Sound, Fail, table, fds, queues, FdsOK, ActiveOK, QueuesOK
<1>2. TableOK' /\ WorkersOK'
  BY EndsSlot DEF Fail
<1>3. HistoryOK'
  BY LifecycleAssumption DEF Fail, Sound, HistoryOK
<1> QED BY <1>1, <1>2, <1>3 DEF Sound

LEMMA ReportClosedSound ==
  ASSUME Sound, NEW w \in Workers, ReportClosed(w)
  PROVE  Sound'
<1>1. FdsOK' /\ ActiveOK' /\ HistoryOK'
  <2>1. spoiled' \in BOOLEAN
    BY DEF ReportClosed
  <2> QED BY <2>1 DEF Sound, ReportClosed, table, fds, FdsOK, ActiveOK, HistoryOK
<1> DEFINE s == worker[w].slot
           e == [conn[s] EXCEPT !.wdown = None, !.wup = None]
<1>2. s \in 1 .. size /\ s \in Slots /\ UNCHANGED table /\ "close" \in ToActive
  BY Places DEF ReportClosed, ToActive
<1>3. e \in Entries /\ e.state = conn[s].state
  BY <1>2, EntryFields DEF Entries, Sockets
<1>4. conn' = [conn EXCEPT ![s] = e]
  BY DEF ReportClosed
<1>5. TableOK'
  <2> HIDE DEF e, s
  <2> QED BY <1>2, <1>3, <1>4, EntryStored
<1>6. toListener' \in [Workers -> Seq(Letters(ToActive, size))]
  BY <1>2, Reported DEF ReportClosed
<1>7. QueuesOK'
  BY <1>2, <1>6 DEF ReportClosed, table, Sound, QueuesOK
<1>8. Ends(w) \/ (Goes(w, Idle) /\ (UNCHANGED polled \/ Forgotten(w, s)))
  BY DEF ReportClosed
<1>9. WorkersOK'
  <2>1. CASE Ends(w)
    BY <1>2, <2>1, WorkerEnds DEF table
  <2>2. CASE Goes(w, Idle) /\ (UNCHANGED polled \/ Forgotten(w, s))
    <3>1. worker' \in [Workers -> WorkerAway \cup WorkerAt(size)]
      BY <1>2, <2>2, WorkerRests DEF table
    <3>2. CASE UNCHANGED polled
      BY <1>2, <3>1, <3>2 DEF table, Sound, WorkersOK
    <3>3. CASE Forgotten(w, s)
      BY <1>2, <3>1, <3>3 DEF Forgotten, table, Sound, WorkersOK
    <3> QED BY <2>2, <3>2, <3>3
  <2> QED BY <1>8, <2>1, <2>2
<1> QED BY <1>1, <1>5, <1>7, <1>9 DEF Sound

(* Unless that spoils the history, the worker closes the sockets that it   *)
(* has registered, or it ends.                                             *)
LEMMA ReportClosedEffect ==
  ASSUME Sound, NEW w \in Workers, NEW s, s = worker[w].slot, ReportClosed(w), ~spoiled'
  PROVE  UNCHANGED spoiled /\ (Ends(w) \/ (Goes(w, Idle) /\ Forgotten(w, s)))
<1>1. spoiled \in BOOLEAN
  BY DEF Sound, HistoryOK
<1> DEFINE lost == conn[s].wdown = None \/ conn[s].wup = None
<1>2. spoiled' = (spoiled \/ (worker[w].at = "closing" /\ lost))
  BY DEF ReportClosed
<1>3. ~spoiled /\ spoiled' = spoiled
  BY <1>1, <1>2
<1>4. worker[w].at = "closing" => ~lost
  BY <1>2
<1>5. worker[w].at \in {"closing", "error"}
  BY DEF ReportClosed
<1> QED BY <1>3, <1>4, <1>5 DEF ReportClosed

LEMMA ActiveFailsSound ==
  ASSUME Sound, ActiveFails
  PROVE  Sound'
<1>1. TableOK' /\ FdsOK' /\ WorkersOK' /\ QueuesOK'
  BY DEF Sound, ActiveFails, table, fds, queues, TableOK, FdsOK, WorkersOK, QueuesOK
<1>2. ActiveOK'
  BY ActiveLeaves DEF ActiveFails, table, Sound, ActiveOK
<1>3. HistoryOK'
  BY LifecycleAssumption DEF ActiveFails, Sound, HistoryOK
<1> QED BY <1>1, <1>2, <1>3 DEF Sound

LEMMA WorkerFailsSound ==
  ASSUME Sound, NEW w \in Workers, WorkerFails(w)
  PROVE  Sound'
<1>1. TableOK' /\ FdsOK' /\ ActiveOK' /\ QueuesOK'
  BY DEF Sound, WorkerFails, table, fds, queues, TableOK, FdsOK, ActiveOK, QueuesOK
<1>2. WorkersOK'
  BY WorkerEnds DEF WorkerFails, table
<1>3. HistoryOK'
  BY LifecycleAssumption DEF WorkerFails, Sound, HistoryOK
<1> QED BY <1>1, <1>2, <1>3 DEF Sound

LEMMA Stutter ==
  ASSUME Sound, UNCHANGED vars
  PROVE  Sound'
BY DEF vars, table, fds, queues, Sound, TableOK, FdsOK, ActiveOK, WorkersOK, QueuesOK, HistoryOK

LEMMA Step ==
  ASSUME Sound, [Next]_vars
  PROVE  Sound'
<1>1. CASE Claim \/ AppendEntry \/ Adopt \/ TakeOver \/ ActiveFails
  BY <1>1, ClaimSound, AppendEntrySound, AdoptSound, TakeOverSound, ActiveFailsSound
<1>2. CASE Continue
  BY <1>2, PublishEntrySound, AcceptSound, NoteAcceptedSound, AnnounceAcceptedSound, DistributeSound,
     NoteConnectedSound, AnswerConnectedSound, AnswerFailsSound, TellRefusedSound, RestartSound DEF Continue
<1>3. ASSUME NEW w \in Workers, Handle(w)
      PROVE  Sound'
  BY <1>3, ConnectSound, ConnectFailsSound, CloseSound, PassUpstreamSound, IpcEofSound DEF Handle
<1>4. ASSUME NEW w \in Workers, WorkerStep(w)
      PROVE  Sound'
  BY <1>4, TakeSound, NoteTakenSound, AskSound, TakeUpstreamSound, TakeRefusalSound, ReportClosedSound,
     FinishSound DEF WorkerStep
<1>5. ASSUME NEW w \in Workers, WorkerFails(w) \/ \E s \in Slots : Fail(w, s)
      PROVE  Sound'
  BY <1>5, WorkerFailsSound, FailSound
<1>6. CASE UNCHANGED vars
  BY <1>6, Stutter
<1> QED BY <1>1, <1>2, <1>3, <1>4, <1>5, <1>6 DEF Next

-------------------------------------------------------------------------------
LEMMA Invariance == Spec => []Sound
<1>1. Init => Sound
  BY Base
<1>2. Sound /\ [Next]_vars => Sound'
  BY Step
<1> QED BY <1>1, <1>2, PTL DEF Spec

(* The types of the table, the descriptors, the queues and the processes   *)
(* hold in every reachable state, also of a history that is spoiled.       *)
THEOREM TypeCorrect == Spec => []TypeOK
<1>1. Sound => TypeOK
  BY Implied
<1> QED BY <1>1, Invariance, PTL

(* The header of the shared table never promises an entry that the file    *)
(* does not hold, and no process is told of or at a slot that is not in it,*)
(* however long the table, whoever dies while it grows and whatever        *)
(* messages outlive the processes that sent them.                          *)
THEOREM TableBacked == Spec => []Backed
<1>1. Sound => Backed
  BY Implied
<1> QED BY <1>1, Invariance, PTL

-------------------------------------------------------------------------------
(* Who may be about to work on a slot.  As long as no history is spoiled,  *)
(* a slot that is announced, or about which a worker and the listener      *)
(* still have to talk, or whose sockets a worker has registered, is all of *)
(* that at most once, and it is neither free nor about to be closed.       *)
SlotsOf(q) == {q[k].slot : k \in DOMAIN q}
Once(q) == \A j, k \in DOMAIN q : q[j].slot = q[k].slot => j = k
Questions(q) == {q[k].slot : k \in {k \in DOMAIN q : q[k].action # "close"}}
AskedOnce(q) ==
  \A j, k \in DOMAIN q :
    q[j].action # "close" /\ q[k].action # "close" /\ q[j].slot = q[k].slot => j = k

Live(s) == conn[s].state \in {"ACCEPTING", "CONNECTING", "POLL"}
Mine(w, s) == conn[s].pid = w /\ Live(s)
Nobody(s) == \A w \in Workers : worker[w].slot # s
Leaving(w) == worker[w].at \in {"closing", "error"}
Opening(s) == active.at \in {"accept", "accepted", "announce"} /\ active.slot = s
Adopting(s) == active.at = "adopt" /\ active.slot = s
Answering(w, s) ==
  active.at \in {"connected", "answer", "refuse"} /\ active.slot = s /\ active.arg = w

Announcing(s) == s \in SlotsOf(broadcast) => conn[s].pid = None /\ Live(s) /\ Nobody(s)
Taking(s) == \A w \in Workers :
  /\ worker[w].slot = s /\ worker[w].at \in {"accepted", "orphan_down"} =>
       conn[s].pid = None /\ Live(s)
  /\ worker[w].slot = s /\ worker[w].at \in {"connect", "orphan_up"} => Mine(w, s)
  /\ \A v \in Workers : worker[w].slot = s /\ worker[v].slot = s => v = w
Asking(s) == \A w \in Workers :
  s \in Questions(toListener[w]) =>
    Mine(w, s) /\ Nobody(s) /\ s \notin SlotsOf(toWorker[w]) /\ ~Answering(w, s) /\ s \notin polled[w]
Telling(s) == \A w \in Workers :
  s \in SlotsOf(toWorker[w]) => Mine(w, s) /\ Nobody(s) /\ ~Answering(w, s) /\ s \notin polled[w]
InAnswer(s) == \A w \in Workers : Answering(w, s) => Mine(w, s) /\ Nobody(s) /\ s \notin polled[w]
Serving(s) == \A w \in Workers :
  /\ s \in polled[w] /\ worker[w].slot # s => Mine(w, s) /\ Nobody(s)
  /\ s \in polled[w] /\ worker[w].slot = s => Leaving(w)
InOpening(s) ==
  Opening(s) => /\ conn[s].pid = None /\ Live(s) /\ s \notin SlotsOf(broadcast)
                /\ \A w \in Workers : worker[w].slot = s => Leaving(w)
InAdoption(s) ==
  Adopting(s) => /\ Live(s)
                 /\ \A w \in Workers : /\ s \notin SlotsOf(toWorker[w])
                                       /\ s \in polled[w] => worker[w].slot = s
Ending(s) == Over(conn[s]) => conn[s].pid # None

OneHand(s) ==
  /\ Announcing(s) /\ Taking(s) /\ Asking(s) /\ Telling(s) /\ InAnswer(s) /\ Serving(s)
  /\ InOpening(s) /\ InAdoption(s) /\ Ending(s)

ToldOnce ==
  Once(broadcast) /\ \A w \in Workers : Once(toWorker[w]) /\ AskedOnce(toListener[w])

Orderly == spoiled \/ (ToldOnce /\ \A s \in Slots : OneHand(s))

LEMMA OrderlyBase == Init => Orderly
<1> SUFFICES ASSUME Init PROVE ToldOnce /\ \A s \in Slots : OneHand(s)
  BY DEF Orderly
<1>1. ToldOnce
  BY DEF Init, ToldOnce, Once, AskedOnce
<1> SUFFICES ASSUME NEW s \in Slots PROVE OneHand(s)
  BY <1>1
<1>2. /\ SlotsOf(broadcast) = {} /\ s # 0 /\ active = Loop
      /\ conn[s].state = "UNUSED"
      /\ \A w \in Workers : /\ SlotsOf(toWorker[w]) = {} /\ Questions(toListener[w]) = {}
                            /\ worker[w] = Idle /\ polled[w] = {}
  BY LifecycleAssumption DEF Init, SlotsOf, Questions, Slots, Unused
<1> QED BY <1>2 DEF OneHand, Announcing, Taking, Asking, Telling, InAnswer, Serving, InOpening, InAdoption,
     Ending, Opening, Adopting, Answering, Over, Loop, Idle, At

(* No two workers have the same slot, then. *)
LEMMA OneWorker ==
  ASSUME Sound, Orderly
  PROVE  HandledOnce
<1> SUFFICES ASSUME ~spoiled, NEW s \in Slots
             PROVE  Cardinality({w \in Workers : Has(w, s)}) <= 1
  BY DEF HandledOnce
<1> DEFINE W == {w \in Workers : Has(w, s)}
<1>1. OneHand(s)
  BY DEF Orderly
<1>2. ASSUME NEW v \in W, NEW w \in W PROVE v = w
  <2>1. /\ v \in Workers /\ (s \in polled[v] \/ worker[v].slot = s)
        /\ w \in Workers /\ (s \in polled[w] \/ worker[w].slot = s)
    BY DEF Has
  <2>2. CASE worker[v].slot = s /\ worker[w].slot = s
    BY <1>1, <2>1, <2>2 DEF OneHand, Taking
  <2>3. CASE worker[v].slot # s \/ worker[w].slot # s
    BY <1>1, <2>1, <2>3 DEF OneHand, Serving, Mine, Nobody
  <2> QED BY <2>2, <2>3
<1>3. W = {} \/ \E w : W = {w}
  <2> HIDE DEF W
  <2> QED BY <1>2
<1>4. IsFiniteSet(W) /\ (Cardinality(W) = 0 \/ Cardinality(W) = 1)
  <2> HIDE DEF W
  <2>1. IsFiniteSet({}) /\ Cardinality({}) = 0 /\ \A w : IsFiniteSet({w}) /\ Cardinality({w}) = 1
    BY FS_EmptySet, FS_Singleton
  <2> QED BY <1>3, <2>1
<1> QED BY <1>4

(* Messages that are queued and taken. *)
LEMMA LastIndex ==
  ASSUME NEW i \in Nat, NEW k \in 1 .. i + 1
  PROVE  k \in 1 .. i \/ k = i + 1
OBVIOUS

LEMMA QueuedSlots ==
  ASSUME NEW A, NEW n, NEW q \in Seq(Letters(A, n)), NEW action, NEW s, NEW fd
  PROVE  LET r == Append(q, Msg(action, s, fd)) IN
         /\ SlotsOf(r) = SlotsOf(q) \cup {s}
         /\ Once(q) /\ s \notin SlotsOf(q) => Once(r)
         /\ action = "close" => Questions(r) = Questions(q) /\ (AskedOnce(q) => AskedOnce(r))
         /\ action # "close" => Questions(r) = Questions(q) \cup {s}
         /\ AskedOnce(q) /\ s \notin Questions(q) => AskedOnce(r)
<1> DEFINE m == Msg(action, s, fd)
           r == Append(q, m)
<1>1. m.action = action /\ m.slot = s
  BY DEF Msg
<1> HIDE DEF m
<1>2. /\ DOMAIN r = 1 .. Len(q) + 1 /\ DOMAIN q = 1 .. Len(q) /\ Len(q) \in Nat
      /\ \A k \in 1 .. Len(q) : r[k] = q[k]
      /\ r[Len(q) + 1] = m
  OBVIOUS
<1> HIDE DEF r
<1>3. \A k \in DOMAIN r : (k \in DOMAIN q /\ r[k] = q[k]) \/ (k = Len(q) + 1 /\ r[k] = m)
  <2> TAKE k \in DOMAIN r
  <2>1. k \in 1 .. Len(q) \/ k = Len(q) + 1
    BY <1>2, LastIndex
  <2> QED BY <1>2, <2>1
<1>4. Len(q) + 1 \in DOMAIN r /\ \A k \in DOMAIN q : k \in DOMAIN r /\ r[k] = q[k] /\ k # Len(q) + 1
  BY <1>2
<1>5. SlotsOf(r) = SlotsOf(q) \cup {s}
  BY <1>1, <1>2, <1>3, <1>4 DEF SlotsOf
<1>6. Once(q) /\ s \notin SlotsOf(q) => Once(r)
  BY <1>1, <1>2, <1>3, <1>4 DEF SlotsOf, Once
<1>7. action = "close" => Questions(r) = Questions(q) /\ (AskedOnce(q) => AskedOnce(r))
  BY <1>1, <1>2, <1>3, <1>4 DEF Questions, AskedOnce
<1>8. action # "close" => Questions(r) = Questions(q) \cup {s}
  BY <1>1, <1>2, <1>3, <1>4 DEF Questions
<1>9. AskedOnce(q) /\ s \notin Questions(q) => AskedOnce(r)
  BY <1>1, <1>2, <1>3, <1>4 DEF Questions, AskedOnce
<1> QED BY <1>5, <1>6, <1>7, <1>8, <1>9 DEF r, m

LEMMA TakenSlots ==
  ASSUME NEW A, NEW n, NEW q \in Seq(Letters(A, n)), q # <<>>
  PROVE  /\ Head(q).slot \in SlotsOf(q) /\ SlotsOf(Tail(q)) \subseteq SlotsOf(q)
         /\ Once(q) => Once(Tail(q)) /\ Head(q).slot \notin SlotsOf(Tail(q))
         /\ Questions(Tail(q)) \subseteq Questions(q)
         /\ AskedOnce(q) => AskedOnce(Tail(q))
         /\ Head(q).action # "close" =>
              /\ Head(q).slot \in Questions(q)
              /\ AskedOnce(q) => Head(q).slot \notin Questions(Tail(q))
<1> DEFINE r == Tail(q)
<1>1. /\ DOMAIN q = 1 .. Len(q) /\ Len(q) \in Nat /\ Len(q) >= 1 /\ Head(q) = q[1]
      /\ DOMAIN r = 1 .. Len(q) - 1
      /\ \A k \in 1 .. Len(q) - 1 : r[k] = q[k + 1]
  OBVIOUS
<1> HIDE DEF r
<1>2. 1 \in DOMAIN q /\ \A k \in DOMAIN r : k + 1 \in DOMAIN q /\ r[k] = q[k + 1] /\ k + 1 # 1
  BY <1>1
<1>3. \A j, k \in DOMAIN r : j + 1 = k + 1 => j = k
  BY <1>1
<1>4. Head(q).slot \in SlotsOf(q) /\ SlotsOf(r) \subseteq SlotsOf(q)
  BY <1>1, <1>2 DEF SlotsOf
<1>5. Once(q) => Once(r) /\ Head(q).slot \notin SlotsOf(r)
  BY <1>1, <1>2, <1>3 DEF SlotsOf, Once
<1>6. Questions(r) \subseteq Questions(q)
  BY <1>1, <1>2 DEF Questions
<1>7. AskedOnce(q) => AskedOnce(r)
  BY <1>1, <1>2, <1>3 DEF AskedOnce
<1>8. Head(q).action # "close" =>
        Head(q).slot \in Questions(q) /\ (AskedOnce(q) => Head(q).slot \notin Questions(r))
  BY <1>1, <1>2, <1>3 DEF Questions, AskedOnce
<1> QED BY <1>4, <1>5, <1>6, <1>7, <1>8 DEF r

(* What the queues' actions do to these sets. *)
LEMMA TellEffect ==
  ASSUME Sound, ToldOnce, NEW w, NEW action, NEW s, NEW fd, Tell(w, action, s, fd),
         w \in Workers => s \notin SlotsOf(toWorker[w])
  PROVE  \A v \in Workers : /\ SlotsOf(toWorker'[v]) = SlotsOf(toWorker[v]) \cup (IF v = w THEN {s} ELSE {})
                            /\ Once(toWorker'[v])
<1> SUFFICES ASSUME NEW v \in Workers
             PROVE  /\ SlotsOf(toWorker'[v]) = SlotsOf(toWorker[v]) \cup (IF v = w THEN {s} ELSE {})
                    /\ Once(toWorker'[v])
  OBVIOUS
<1>1. toWorker[v] \in Seq(Letters(ToWorkers, size)) /\ Once(toWorker[v]) /\ v \in DOMAIN toWorker
  BY DEF Sound, QueuesOK, ToldOnce
<1>2. CASE v = w
  <2>1. toWorker'[v] = Append(toWorker[v], Msg(action, s, fd))
    BY <1>1, <1>2 DEF Tell
  <2> QED BY <1>1, <1>2, <2>1, QueuedSlots
<1>3. CASE v # w
  <2>1. toWorker'[v] = toWorker[v]
    BY <1>1, <1>3 DEF Tell
  <2> QED BY <1>1, <1>3, <2>1
<1> QED BY <1>2, <1>3

LEMMA ReportEffect ==
  ASSUME Sound, ToldOnce, NEW w \in Workers, NEW action, NEW s, Report(w, action, s),
         action # "close" => s \notin Questions(toListener[w])
  PROVE  \A v \in Workers :
           /\ Questions(toListener'[v]) =
                Questions(toListener[v]) \cup (IF v = w /\ action # "close" THEN {s} ELSE {})
           /\ AskedOnce(toListener'[v])
<1> SUFFICES ASSUME NEW v \in Workers
             PROVE  /\ Questions(toListener'[v]) =
                         Questions(toListener[v]) \cup (IF v = w /\ action # "close" THEN {s} ELSE {})
                    /\ AskedOnce(toListener'[v])
  OBVIOUS
<1>1. toListener[v] \in Seq(Letters(ToActive, size)) /\ AskedOnce(toListener[v]) /\ v \in DOMAIN toListener
  BY DEF Sound, QueuesOK, ToldOnce
<1>2. CASE v = w
  <2>1. toListener'[v] = Append(toListener[v], Msg(action, s, None))
    BY <1>1, <1>2 DEF Report
  <2>2. CASE action = "close"
    BY <1>1, <1>2, <2>1, <2>2, QueuedSlots
  <2>3. CASE action # "close"
    BY <1>1, <1>2, <2>1, <2>3, QueuedSlots
  <2> QED BY <2>2, <2>3
<1>3. CASE v # w
  <2>1. toListener'[v] = toListener[v]
    BY <1>1, <1>3 DEF Report
  <2> QED BY <1>1, <1>3, <2>1
<1> QED BY <1>2, <1>3

LEMMA ReceiveEffect ==
  ASSUME Sound, ToldOnce, NEW w \in Workers, NEW action, Received(w, action)
  PROVE  /\ \A v \in Workers : /\ Questions(toListener'[v]) \subseteq Questions(toListener[v])
                               /\ AskedOnce(toListener'[v])
         /\ action # "close" => /\ Head(toListener[w]).slot \in Questions(toListener[w])
                                /\ Head(toListener[w]).slot \notin Questions(toListener'[w])
<1>1. \A v \in Workers : /\ toListener[v] \in Seq(Letters(ToActive, size)) /\ AskedOnce(toListener[v])
                         /\ toListener'[v] = IF v = w THEN Tail(toListener[v]) ELSE toListener[v]
  BY DEF Sound, QueuesOK, ToldOnce, Received
<1>2. toListener[w] # <<>> /\ Head(toListener[w]).action = action
  BY DEF Received
<1>3. \A v \in Workers : /\ Questions(toListener'[v]) \subseteq Questions(toListener[v])
                         /\ AskedOnce(toListener'[v])
  BY <1>1, <1>2, TakenSlots
<1>4. action # "close" => /\ Head(toListener[w]).slot \in Questions(toListener[w])
                          /\ Head(toListener[w]).slot \notin Questions(toListener'[w])
  BY <1>1, <1>2, TakenSlots
<1> QED BY <1>3, <1>4

LEMMA AnswerEffect ==
  ASSUME Sound, ToldOnce, NEW w \in Workers, NEW actions, Answered(w, actions)
  PROVE  /\ \A v \in Workers : /\ SlotsOf(toWorker'[v]) \subseteq SlotsOf(toWorker[v])
                               /\ Once(toWorker'[v])
         /\ Head(toWorker[w]).slot \in SlotsOf(toWorker[w])
         /\ Head(toWorker[w]).slot \notin SlotsOf(toWorker'[w])
<1>1. \A v \in Workers : /\ toWorker[v] \in Seq(Letters(ToWorkers, size)) /\ Once(toWorker[v])
                         /\ toWorker'[v] = IF v = w THEN Tail(toWorker[v]) ELSE toWorker[v]
  BY DEF Sound, QueuesOK, ToldOnce, Answered
<1>2. toWorker[w] # <<>>
  BY DEF Answered
<1>3. \A v \in Workers : SlotsOf(toWorker'[v]) \subseteq SlotsOf(toWorker[v]) /\ Once(toWorker'[v])
  BY <1>1, <1>2, TakenSlots
<1>4. /\ Head(toWorker[w]).slot \in SlotsOf(toWorker[w])
      /\ Head(toWorker[w]).slot \notin SlotsOf(toWorker'[w])
  BY <1>1, <1>2, TakenSlots
<1> QED BY <1>3, <1>4

LEMMA AnnounceEffect ==
  ASSUME Sound, ToldOnce, NEW action, NEW s, Announce(action, s), ~spoiled'
  PROVE  /\ SlotsOf(broadcast') = SlotsOf(broadcast) \cup {s} /\ Once(broadcast')
         /\ s \notin SlotsOf(broadcast) /\ Nobody(s) /\ \A w \in Workers : conn[s].pid # w
<1>1. broadcast \in Seq(Letters(FromActive, size)) /\ Once(broadcast)
  BY DEF Sound, QueuesOK, ToldOnce
<1>2. broadcast' = Append(broadcast, Msg(action, s, conn[s].down)) /\ ~Announced(s)
  BY DEF Announce
<1>3. s \notin SlotsOf(broadcast)
  BY <1>2 DEF Announced, SlotsOf
<1>4. SlotsOf(broadcast') = SlotsOf(broadcast) \cup {s} /\ Once(broadcast')
  BY <1>1, <1>2, <1>3, QueuedSlots
<1>5. Nobody(s) /\ \A w \in Workers : conn[s].pid # w
  BY <1>2 DEF Announced, Nobody
<1> QED BY <1>3, <1>4, <1>5

(* A slot that an action has nothing to do with. *)
Untouched(s) ==
  /\ conn'[s].pid = conn[s].pid /\ conn'[s].state = conn[s].state
  /\ s \in SlotsOf(broadcast') => s \in SlotsOf(broadcast)
  /\ \A w \in Workers :
       /\ worker'[w].slot = s => worker[w].slot = s /\ worker'[w].at = worker[w].at
       /\ s \in polled'[w] => s \in polled[w] /\ (worker[w].slot = s => worker'[w].slot = s)
       /\ s \in Questions(toListener'[w]) => s \in Questions(toListener[w])
       /\ s \in SlotsOf(toWorker'[w]) => s \in SlotsOf(toWorker[w])
  /\ Opening(s)' => Opening(s)
  /\ Adopting(s)' => Adopting(s)
  /\ \A w \in Workers : Answering(w, s)' => Answering(w, s)

LEMMA UntouchedStays ==
  ASSUME NEW s \in Slots, OneHand(s), Untouched(s)
  PROVE  OneHand(s)'
<1> USE DEF Untouched
<1>0. /\ Opening(s)' => Opening(s)
      /\ Adopting(s)' => Adopting(s)
      /\ \A w \in Workers : Answering(w, s)' => Answering(w, s)
  OBVIOUS
<1>1. Live(s)' = Live(s) /\ \A w \in Workers : Mine(w, s)' = Mine(w, s)
  BY DEF Live, Mine
<1>2. Nobody(s) => Nobody(s)'
  BY DEF Nobody
<1>3. Announcing(s)'
  BY <1>1, <1>2 DEF OneHand, Announcing
<1>4. Taking(s)'
  BY <1>1 DEF OneHand, Taking
<1>5. Asking(s)'
  BY <1>0, <1>1, <1>2 DEF OneHand, Asking
<1>6. Telling(s)'
  BY <1>0, <1>1, <1>2 DEF OneHand, Telling
<1>7. InAnswer(s)'
  BY <1>0, <1>1, <1>2 DEF OneHand, InAnswer
<1>8. Serving(s)'
  BY <1>1, <1>2 DEF OneHand, Serving, Leaving
<1>9. InOpening(s)'
  BY <1>0, <1>1 DEF OneHand, InOpening, Leaving
<1>10. InAdoption(s)'
  BY <1>0, <1>1 DEF OneHand, InAdoption
<1>11. Ending(s)'
  BY DEF OneHand, Ending, Over
<1> QED BY <1>3, <1>4, <1>5, <1>6, <1>7, <1>8, <1>9, <1>10, <1>11 DEF OneHand

(* The actions keep this order. *)
LEMMA QuietOrderly ==
  ASSUME Orderly, spoiled' = spoiled, ToldOnce => ToldOnce', \A s \in Slots : Untouched(s)
  PROVE  Orderly'
<1> SUFFICES ASSUME ~spoiled, NEW s \in Slots
             PROVE  ToldOnce' /\ OneHand(s)'
  <2>1. Slots # {}
    BY LifecycleAssumption DEF Slots
  <2> QED BY <2>1 DEF Orderly
<1> QED BY UntouchedStays DEF Orderly

LEMMA AwayFromSlots ==
  ASSUME Sound, NEW s \in Slots
  PROVE  /\ \A w \in Workers : worker[w].at \in {"idle", "dead"} => worker[w].slot # s
         /\ \A w \in Workers : worker[w] = Idle \/ worker[w] = Dead => worker[w].slot # s
         /\ \A a : a \in {Loop, Down} => a.slot # s /\ a.at \in {"loop", "down"}
<1>1. s # 0
  BY LifecycleAssumption DEF Slots
<1>2. \A w \in Workers : worker[w].at \in {"idle", "dead"} => worker[w].slot = 0
  BY DEF Sound, WorkersOK, WorkerAway, WorkerAt
<1> QED BY <1>1, <1>2 DEF Loop, Down, Idle, Dead, At

LEMMA ActiveFailsOrderly ==
  ASSUME Sound, Orderly, ActiveFails
  PROVE  Orderly'
<1>1. UNCHANGED <<conn, worker, polled, broadcast, toWorker, toListener, spoiled>> /\ active' = Down
  BY DEF ActiveFails, queues
<1>2. \A s \in Slots : Untouched(s)
  BY <1>1 DEF Untouched, Opening, Adopting, Answering, Down, At
<1>3. ToldOnce => ToldOnce'
  BY <1>1 DEF ToldOnce
<1> QED BY <1>1, <1>2, <1>3, QuietOrderly

LEMMA IpcEofOrderly ==
  ASSUME Sound, Orderly, NEW w \in Workers, IpcEof(w)
  PROVE  Orderly'
<1>1. UNCHANGED <<conn, worker, polled, broadcast, toWorker, toListener, spoiled>> /\ active' = Down
  BY DEF IpcEof, queues
<1>2. \A s \in Slots : Untouched(s)
  BY <1>1 DEF Untouched, Opening, Adopting, Answering, Down, At
<1>3. ToldOnce => ToldOnce'
  BY <1>1 DEF ToldOnce
<1> QED BY <1>1, <1>2, <1>3, QuietOrderly

LEMMA AppendEntryOrderly ==
  ASSUME Sound, Orderly, AppendEntry
  PROVE  Orderly'
<1>1. /\ UNCHANGED <<conn, worker, polled, broadcast, toWorker, toListener, spoiled>>
      /\ active' = At("append", 0, None)
  BY DEF AppendEntry, queues
<1>2. \A s \in Slots : Untouched(s)
  BY <1>1 DEF Untouched, Opening, Adopting, Answering, At
<1>3. ToldOnce => ToldOnce'
  BY <1>1 DEF ToldOnce
<1> QED BY <1>1, <1>2, <1>3, QuietOrderly

LEMMA WorkerEndsEffect ==
  ASSUME Sound, NEW w \in Workers, Ends(w)
  PROVE  \A v \in Workers, s \in Slots :
           /\ worker'[v].slot = s => worker[v].slot = s /\ worker'[v] = worker[v] /\ v # w
           /\ s \in polled'[v] => s \in polled[v] /\ worker'[v] = worker[v] /\ v # w
<1> SUFFICES ASSUME NEW v \in Workers, NEW s \in Slots
             PROVE  /\ worker'[v].slot = s => worker[v].slot = s /\ worker'[v] = worker[v] /\ v # w
                    /\ s \in polled'[v] => s \in polled[v] /\ worker'[v] = worker[v] /\ v # w
  OBVIOUS
<1>1. Dead.slot = 0 /\ s # 0
  BY LifecycleAssumption DEF Dead, At, Slots
<1>2. /\ worker'[v] = IF v = w THEN Dead ELSE worker[v]
      /\ polled'[v] = IF v = w THEN {} ELSE polled[v]
  BY DEF Ends, Goes, Sound, WorkersOK
<1> QED BY <1>1, <1>2

LEMMA WorkerFailsOrderly ==
  ASSUME Sound, Orderly, NEW w \in Workers, WorkerFails(w)
  PROVE  Orderly'
<1>1. UNCHANGED <<conn, active, broadcast, toWorker, toListener, spoiled>> /\ Ends(w)
  BY DEF WorkerFails, queues
<1>2. \A s \in Slots : Untouched(s)
  BY <1>1, WorkerEndsEffect DEF Untouched, Opening, Adopting, Answering
<1>3. ToldOnce => ToldOnce'
  BY <1>1 DEF ToldOnce
<1> QED BY <1>1, <1>2, <1>3, QuietOrderly

LEMMA AcceptOrderly ==
  ASSUME Sound, Orderly, Accept
  PROVE  Orderly'
<1>1. UNCHANGED <<conn, worker, polled, broadcast, toWorker, toListener, spoiled>>
  BY DEF Accept, queues
<1>2. active.at = "accept" /\ \E c : active' = At("accepted", active.slot, c)
  BY DEF Accept
<1>3. \A s \in Slots : Untouched(s)
  BY <1>1, <1>2 DEF Untouched, Opening, Adopting, Answering, At
<1>4. ToldOnce => ToldOnce'
  BY <1>1 DEF ToldOnce
<1> QED BY <1>1, <1>3, <1>4, QuietOrderly

LEMMA NoteAcceptedOrderly ==
  ASSUME Sound, Orderly, NoteAccepted
  PROVE  Orderly'
<1>1. UNCHANGED <<worker, polled, broadcast, toWorker, toListener, spoiled>>
  BY DEF NoteAccepted, queues
<1>2. active.at = "accepted" /\ active' = At("announce", active.slot, None)
  BY DEF NoteAccepted
<1>3. \A s \in Slots : conn'[s].pid = conn[s].pid /\ conn'[s].state = conn[s].state
  BY EntryFields DEF NoteAccepted, Sound, TableOK, Entries
<1>4. \A s \in Slots : Untouched(s)
  BY <1>1, <1>2, <1>3 DEF Untouched, Opening, Adopting, Answering, At
<1>5. ToldOnce => ToldOnce'
  BY <1>1 DEF ToldOnce
<1> QED BY <1>1, <1>4, <1>5, QuietOrderly

LEMMA NoteConnectedOrderly ==
  ASSUME Sound, Orderly, NoteConnected
  PROVE  Orderly'
<1>1. UNCHANGED <<worker, polled, broadcast, toWorker, toListener, spoiled>>
  BY DEF NoteConnected, queues
<1>2. active.at = "connected" /\ active'.at = "answer" /\ active'.slot = active.slot /\ active'.arg = active.arg
  <2>1. active \in ActiveAt(size)
    BY DEF NoteConnected, Sound, ActiveOK, ActiveAway
  <2> QED BY <2>1 DEF NoteConnected, ActiveAt
<1>3. \A s \in Slots : conn'[s].pid = conn[s].pid /\ conn'[s].state = conn[s].state
  BY EntryFields DEF NoteConnected, Sound, TableOK, Entries
<1>4. \A s \in Slots : Untouched(s)
  BY <1>1, <1>2, <1>3 DEF Untouched, Opening, Adopting, Answering
<1>5. ToldOnce => ToldOnce'
  BY <1>1 DEF ToldOnce
<1> QED BY <1>1, <1>4, <1>5, QuietOrderly

LEMMA ReleasedFields ==
  ASSUME NEW C \in [Slots -> Entries], NEW S, NEW state, NEW s \in Slots
  PROVE  /\ Released(C, S, state)[s].pid = C[s].pid
         /\ Released(C, S, state)[s].state = IF s \in S THEN state ELSE C[s].state
BY DEF Released, Entries

LEMMA AnswerFailsOrderly ==
  ASSUME Sound, Orderly, AnswerFails
  PROVE  Orderly'
<1>1. UNCHANGED <<worker, polled, broadcast, toWorker, toListener, spoiled>>
  BY DEF AnswerFails, queues
<1>2. active.at = "answer" /\ active' = At("refuse", active.slot, active.arg)
  BY DEF AnswerFails, Refuse
<1>3. \A s \in Slots : conn'[s].pid = conn[s].pid /\ conn'[s].state = conn[s].state
  <2>1. conn' = Released(conn, {active.slot}, conn[active.slot].state) /\ conn \in [Slots -> Entries]
    BY DEF AnswerFails, Refuse, Sound, TableOK
  <2> QED BY <2>1, ReleasedFields
<1>4. \A s \in Slots : Untouched(s)
  BY <1>1, <1>2, <1>3 DEF Untouched, Opening, Adopting, Answering, At
<1>5. ToldOnce => ToldOnce'
  BY <1>1 DEF ToldOnce
<1> QED BY <1>1, <1>4, <1>5, QuietOrderly

LEMMA OneSlotOrderly ==
  ASSUME Orderly, spoiled => spoiled', NEW s \in Slots,
         ~spoiled' => ToldOnce' /\ OneHand(s)' /\ \A t \in Slots \ {s} : Untouched(t)
  PROVE  Orderly'
BY UntouchedStays DEF Orderly

LEMMA ClaimSlotOrderly ==
  ASSUME Sound, Orderly, NEW s \in Slots, conn[s].state = "UNUSED", ClaimSlot(s)
  PROVE  Orderly'
<1>1. /\ UNCHANGED <<worker, polled, broadcast, toWorker, toListener, spoiled>>
      /\ active' = At("accept", s, None)
  BY DEF ClaimSlot, queues
<1> SUFFICES ASSUME ~spoiled
             PROVE  ToldOnce' /\ OneHand(s)' /\ \A t \in Slots \ {s} : Untouched(t)
  BY <1>1, OneSlotOrderly
<1>2. ToldOnce' /\ OneHand(s)
  BY <1>1 DEF Orderly, ToldOnce
<1>3. /\ conn'[s].pid = None /\ conn'[s].state = "ACCEPTING"
      /\ \A t \in Slots \ {s} : conn'[t] = conn[t]
  BY DEF ClaimSlot, Unused, Sound, TableOK
<1>4. \A t \in Slots \ {s} : Untouched(t)
  BY <1>1, <1>3 DEF Untouched, Opening, Adopting, Answering, At
<1>5. /\ Opening(s)' /\ ~Adopting(s)' /\ \A w \in Workers : ~Answering(w, s)'
  BY <1>1 DEF Opening, Adopting, Answering, At
<1>6. /\ s \notin SlotsOf(broadcast)
      /\ \A w \in Workers : /\ s \notin Questions(toListener[w]) /\ s \notin SlotsOf(toWorker[w])
                            /\ worker[w].slot = s => worker[w].at \notin {"accepted", "orphan_down", "connect", "orphan_up"}
                            /\ s \in polled[w] => worker[w].slot = s
  BY <1>2 DEF OneHand, Announcing, Taking, Asking, Telling, Serving, Live, Mine
<1>7. \A w \in Workers : worker[w].slot = s => Leaving(w)
  <2>1. \A w \in Workers : worker[w].slot = s => worker[w].at \notin {"idle", "dead"}
    BY AwayFromSlots
  <2>2. \A w \in Workers : worker[w].at \in {"idle", "dead", "accepted", "orphan_down", "connect", "orphan_up", "closing", "error"}
    BY DEF Sound, WorkersOK, WorkerAway, WorkerAt
  <2> QED BY <1>6, <2>1, <2>2 DEF Leaving
<1>8. \A v, w \in Workers : worker[w].slot = s /\ worker[v].slot = s => v = w
  BY <1>2 DEF OneHand, Taking
<1>9. OneHand(s)'
  BY <1>1, <1>3, <1>5, <1>6, <1>7, <1>8 DEF OneHand, Announcing, Taking, Asking, Telling, InAnswer,
     Serving, InOpening, InAdoption, Ending, Live, Leaving, Over
<1> QED BY <1>2, <1>4, <1>9

LEMMA ClaimOrderly ==
  ASSUME Sound, Orderly, Claim
  PROVE  Orderly'
<1>1. Free \in SUBSET Slots /\ Free # {}
  BY Places DEF Claim, Free
<1>2. Min(Free) \in Free
  BY <1>1, LeastSlot
<1>3. Min(Free) \in Slots /\ conn[Min(Free)].state = "UNUSED" /\ ClaimSlot(Min(Free))
  BY <1>1, <1>2 DEF Claim, Free
<1> QED BY <1>3, ClaimSlotOrderly

LEMMA PublishEntryOrderly ==
  ASSUME Sound, Orderly, PublishEntry
  PROVE  Orderly'
<1>1. size \in 0 .. NumSlots /\ file \in 0 .. NumSlots /\ size < file
  BY DEF PublishEntry, Sound, TableOK, ActiveOK, Indices
<1>2. size + 1 \in Slots /\ ~(size + 1 <= size)
  BY <1>1, LifecycleAssumption DEF Slots
<1>3. conn[size + 1].state = "UNUSED" /\ ClaimSlot(size + 1)
  BY <1>2 DEF PublishEntry, Sound, TableOK
<1> QED BY <1>2, <1>3, ClaimSlotOrderly

LEMMA AnnounceAcceptedOrderly ==
  ASSUME Sound, Orderly, AnnounceAccepted
  PROVE  Orderly'
<1>1. PICK s \in Slots :
      /\ s = active.slot /\ active.at = "announce" /\ active' = Loop
      /\ UNCHANGED <<conn, worker, polled, toWorker, toListener>>
      /\ Announce("accepted", s)
  BY Places DEF AnnounceAccepted
<1>2. spoiled => spoiled'
  BY <1>1 DEF Announce
<1> SUFFICES ASSUME ~spoiled'
             PROVE  ToldOnce' /\ OneHand(s)' /\ \A t \in Slots \ {s} : Untouched(t)
  BY <1>1, <1>2, OneSlotOrderly
<1>3. ToldOnce /\ OneHand(s)
  BY <1>1, <1>2 DEF Orderly
<1>4. SlotsOf(broadcast') = SlotsOf(broadcast) \cup {s} /\ Once(broadcast') /\ Nobody(s)
  BY <1>1, <1>3, AnnounceEffect
<1>5. ToldOnce'
  BY <1>1, <1>3, <1>4 DEF ToldOnce
<1>6. \A t \in Slots : ~Opening(t)' /\ ~Adopting(t)' /\ \A w \in Workers : ~Answering(w, t)'
  BY <1>1 DEF Opening, Adopting, Answering, Loop, At
<1>7. \A t \in Slots \ {s} : Untouched(t)
  BY <1>1, <1>4, <1>6 DEF Untouched
<1>8. conn[s].pid = None /\ Live(s)
  BY <1>1, <1>3 DEF OneHand, InOpening, Opening
<1>9. OneHand(s)'
  BY <1>1, <1>3, <1>4, <1>6, <1>8 DEF OneHand, Announcing, Taking, Asking, Telling, InAnswer,
     Serving, InOpening, InAdoption, Ending, Live, Mine, Nobody, Leaving, Over
<1> QED BY <1>5, <1>7, <1>9

LEMMA AdoptOrderly ==
  ASSUME Sound, Orderly, Adopt
  PROVE  Orderly'
<1>1. UNCHANGED <<conn, worker, polled, broadcast, toWorker, toListener, spoiled>> /\ active = Loop
  BY DEF Adopt, queues
<1>2. ToldOnce => ToldOnce'
  BY <1>1 DEF ToldOnce
<1> DEFINE rest == {s \in Orphans : s >= next}
<1>3. CASE rest = {}
  <2>1. active' = Loop
    BY <1>3 DEF Adopt
  <2>2. \A t \in Slots : Untouched(t)
    BY <1>1, <2>1 DEF Untouched, Opening, Adopting, Answering, Loop, At
  <2> QED BY <1>1, <1>2, <2>2, QuietOrderly
<1>4. CASE rest # {}
  <2>1. rest \in SUBSET Slots
    BY DEF Orphans
  <2>2. PICK s \in Slots : s = Min(rest) /\ conn[s].state # "UNUSED" /\ conn[s].pid = None
    BY <1>4, <2>1, LeastSlot DEF Orphans
  <2>3. active' = At("adopt", s, conn[s].state)
    BY <1>4, <2>2 DEF Adopt
  <2> HIDE DEF rest
  <2> SUFFICES ASSUME ~spoiled
               PROVE  ToldOnce' /\ OneHand(s)' /\ \A t \in Slots \ {s} : Untouched(t)
    BY <1>1, <2>2, OneSlotOrderly
  <2>4. ToldOnce' /\ OneHand(s)
    BY <1>2, <2>2 DEF Orderly
  <2>5. Adopting(s)' /\ ~Opening(s)' /\ \A w \in Workers : ~Answering(w, s)'
    BY <2>3 DEF Opening, Adopting, Answering, At
  <2>6. \A t \in Slots \ {s} : Untouched(t)
    BY <1>1, <2>3 DEF Untouched, Opening, Adopting, Answering, At
  <2>7. Live(s)
    BY <2>2, <2>4, EntryFields DEF OneHand, Ending, Over, Live, States
  <2>8. \A w \in Workers : conn[s].pid # w
    BY <2>2, LifecycleAssumption
  <2>9. OneHand(s)'
    BY <1>1, <2>4, <2>5, <2>7, <2>8 DEF OneHand, Announcing, Taking, Asking, Telling, InAnswer,
       Serving, InOpening, InAdoption, Ending, Live, Mine, Nobody, Leaving, Over
  <2> QED BY <2>4, <2>6, <2>9
<1> QED BY <1>3, <1>4

LEMMA DistributeOrderly ==
  ASSUME Sound, Orderly, Distribute
  PROVE  Orderly'
<1>1. PICK s \in Slots :
      /\ s = active.slot /\ active.at = "adopt" /\ active' \in {Loop, Down}
      /\ UNCHANGED <<worker, polled, toWorker, toListener>>
      /\ \/ UNCHANGED <<broadcast, spoiled>>
         \/ \E action \in FromActive : Announce(action, s)
  BY Places DEF Distribute, FromActive
<1>2. spoiled => spoiled'
  BY <1>1 DEF Announce
<1>3. /\ conn'[s].pid = conn[s].pid /\ conn'[s].state \in {conn[s].state, "POLL"}
      /\ \A t \in Slots \ {s} : conn'[t] = conn[t]
  BY <1>1, EntryFields DEF Distribute, Sound, TableOK, Entries
<1> SUFFICES ASSUME ~spoiled'
             PROVE  ToldOnce' /\ OneHand(s)' /\ \A t \in Slots \ {s} : Untouched(t)
  BY <1>1, <1>2, OneSlotOrderly
<1>4. ToldOnce /\ OneHand(s) /\ Adopting(s)
  BY <1>1, <1>2 DEF Orderly, Adopting
<1>5. \A t \in Slots : ~Opening(t)' /\ ~Adopting(t)' /\ \A w \in Workers : ~Answering(w, t)'
  BY <1>1 DEF Opening, Adopting, Answering, Loop, Down, At
<1>6. Live(s) /\ Live(s)'
  BY <1>3, <1>4 DEF OneHand, InAdoption, Live
<1>7. CASE UNCHANGED <<broadcast, spoiled>>
  <2>1. ToldOnce'
    BY <1>1, <1>4, <1>7 DEF ToldOnce
  <2>2. \A t \in Slots \ {s} : Untouched(t)
    BY <1>1, <1>3, <1>5, <1>7 DEF Untouched
  <2>3. OneHand(s)'
    BY <1>1, <1>3, <1>4, <1>5, <1>6, <1>7 DEF OneHand, Announcing, Taking, Asking, Telling, InAnswer,
       Serving, InOpening, InAdoption, Ending, Live, Mine, Nobody, Leaving, Over
  <2> QED BY <2>1, <2>2, <2>3
<1>8. CASE \E action \in FromActive : Announce(action, s)
  <2>1. /\ SlotsOf(broadcast') = SlotsOf(broadcast) \cup {s} /\ Once(broadcast')
        /\ Nobody(s) /\ \A w \in Workers : conn[s].pid # w
    BY <1>4, <1>8, AnnounceEffect
  <2>2. ToldOnce'
    BY <1>1, <1>4, <2>1 DEF ToldOnce
  <2>3. \A t \in Slots \ {s} : Untouched(t)
    BY <1>1, <1>3, <1>5, <2>1 DEF Untouched
  <2>4. conn[s].pid = None
    BY <1>1, <2>1, EntryFields
  <2>5. OneHand(s)'
    BY <1>1, <1>3, <1>4, <1>5, <1>6, <2>1, <2>4 DEF OneHand, Announcing, Taking, Asking, Telling, InAnswer,
       Serving, InOpening, InAdoption, Ending, Live, Mine, Nobody, Leaving, Over
  <2> QED BY <2>2, <2>3, <2>5
<1> QED BY <1>1, <1>7, <1>8

(* A question that the listener has received is being answered. *)
LEMMA QuestionOrderly ==
  ASSUME Sound, Orderly, NEW w \in Workers, NEW s \in Slots, Received(w, "connect"),
         s = Head(toListener[w]).slot,
         \A t \in Slots : conn'[t].pid = conn[t].pid /\ conn'[t].state = conn[t].state,
         NEW place \in {"connected", "refuse"}, active' = At(place, s, w),
         UNCHANGED <<worker, polled, broadcast, toWorker, spoiled>>
  PROVE  Orderly'
<1> SUFFICES ASSUME ~spoiled
             PROVE  ToldOnce' /\ OneHand(s)' /\ \A t \in Slots \ {s} : Untouched(t)
  BY OneSlotOrderly
<1>1. ToldOnce /\ OneHand(s)
  BY DEF Orderly
<1>2. /\ \A v \in Workers : /\ Questions(toListener'[v]) \subseteq Questions(toListener[v])
                            /\ AskedOnce(toListener'[v])
      /\ s \in Questions(toListener[w]) /\ s \notin Questions(toListener'[w])
  BY <1>1, ReceiveEffect
<1>3. ToldOnce'
  BY <1>1, <1>2 DEF ToldOnce
<1>4. active'.at = place /\ active'.slot = s /\ active'.arg = w
  BY DEF At
<1>5. /\ \A t \in Slots : ~Opening(t)' /\ ~Adopting(t)'
      /\ \A t \in Slots, v \in Workers : Answering(v, t)' <=> t = s /\ v = w
  BY <1>4 DEF Opening, Adopting, Answering
<1>6. \A t \in Slots \ {s} : Untouched(t)
  BY <1>2, <1>5 DEF Untouched
<1>7. /\ Mine(w, s) /\ Nobody(s) /\ s \notin SlotsOf(toWorker[w]) /\ s \notin polled[w]
      /\ s \notin SlotsOf(broadcast)
  BY <1>1, <1>2, LifecycleAssumption DEF OneHand, Asking, Announcing, Mine
<1>8. \A v \in Workers : v # w => s \notin Questions(toListener[v]) /\ s \notin SlotsOf(toWorker[v])
  BY <1>1, <1>7 DEF OneHand, Asking, Telling, Mine
<1>9. Live(s)' = Live(s) /\ Mine(w, s)' /\ Nobody(s)'
  BY <1>7 DEF Live, Mine, Nobody
<1>10. Announcing(s)' /\ Taking(s)' /\ Asking(s)' /\ Telling(s)'
  BY <1>2, <1>7, <1>8, <1>9 DEF Announcing, Taking, Asking, Telling, Nobody
<1>11. InAnswer(s)' /\ Serving(s)' /\ InOpening(s)' /\ InAdoption(s)'
  BY <1>1, <1>5, <1>7, <1>9 DEF OneHand, InAnswer, Serving, InOpening, InAdoption, Mine, Nobody
<1>12. Ending(s)'
  BY <1>1 DEF OneHand, Ending, Over
<1> QED BY <1>3, <1>6, <1>10, <1>11, <1>12 DEF OneHand

LEMMA ConnectOrderly ==
  ASSUME Sound, Orderly, NEW w \in Workers, Connect(w)
  PROVE  Orderly'
<1>1. PICK s \in Slots : s = Head(toListener[w]).slot
  BY Receives DEF Connect
<1>2. /\ Received(w, "connect") /\ active' = At("connected", s, w)
      /\ UNCHANGED <<conn, worker, polled, broadcast, toWorker, spoiled>>
  BY <1>1 DEF Connect
<1> QED BY <1>1, <1>2, QuestionOrderly

LEMMA ConnectFailsOrderly ==
  ASSUME Sound, Orderly, NEW w \in Workers, ConnectFails(w)
  PROVE  Orderly'
<1>1. PICK s \in Slots : s = Head(toListener[w]).slot
  BY Receives DEF ConnectFails
<1>2. /\ Received(w, "connect") /\ active' = At("refuse", s, w)
      /\ conn' = Released(conn, {s}, conn[s].state) /\ conn \in [Slots -> Entries]
      /\ UNCHANGED <<worker, polled, broadcast, toWorker, spoiled>>
  BY <1>1 DEF ConnectFails, Refuse, Sound, TableOK
<1>3. \A t \in Slots : conn'[t].pid = conn[t].pid /\ conn'[t].state = conn[t].state
  BY <1>2, ReleasedFields
<1> QED BY <1>1, <1>2, <1>3, QuestionOrderly

(* The answer has been sent, or dropped with the listener. *)
LEMMA AnsweredOrderly ==
  ASSUME Sound, Orderly, NEW w, NEW s \in Slots, Answering(w, s), active' \in {Loop, Down},
         NEW action, NEW fd, Tell(w, action, s, fd) \/ UNCHANGED toWorker,
         UNCHANGED <<conn, worker, polled, broadcast, toListener, spoiled>>
  PROVE  Orderly'
<1> SUFFICES ASSUME ~spoiled
             PROVE  ToldOnce' /\ OneHand(s)' /\ \A t \in Slots \ {s} : Untouched(t)
  BY OneSlotOrderly
<1>1. ToldOnce /\ OneHand(s)
  BY DEF Orderly
<1>2. w \in Workers => Mine(w, s) /\ Nobody(s) /\ s \notin polled[w] /\ s \notin SlotsOf(toWorker[w])
  BY <1>1 DEF OneHand, InAnswer, Telling
<1>3. \A v \in Workers :
        /\ SlotsOf(toWorker'[v]) \subseteq SlotsOf(toWorker[v]) \cup (IF v = w THEN {s} ELSE {})
        /\ Once(toWorker'[v])
  <2>1. CASE Tell(w, action, s, fd)
    BY <1>1, <1>2, <2>1, TellEffect
  <2>2. CASE UNCHANGED toWorker
    BY <1>1, <2>2 DEF ToldOnce
  <2> QED BY <2>1, <2>2
<1>4. ToldOnce'
  BY <1>1, <1>3 DEF ToldOnce
<1>5. \A t \in Slots : ~Opening(t)' /\ ~Adopting(t)' /\ \A v \in Workers : ~Answering(v, t)'
  BY DEF Opening, Adopting, Answering, Loop, Down, At
<1>6. \A t \in Slots \ {s} : Untouched(t)
  BY <1>3, <1>5 DEF Untouched
<1>7. Announcing(s)' /\ Taking(s)' /\ Serving(s)' /\ Ending(s)'
  BY <1>1 DEF OneHand, Announcing, Taking, Serving, Ending, Live, Mine, Nobody, Leaving, Over
<1>8. Asking(s)'
  BY <1>1, <1>2, <1>3, <1>5 DEF OneHand, Asking, Live, Mine, Nobody
<1>9. Telling(s)'
  BY <1>1, <1>2, <1>3, <1>5 DEF OneHand, Telling, Live, Mine, Nobody
<1>10. InAnswer(s)' /\ InOpening(s)' /\ InAdoption(s)'
  BY <1>5 DEF InAnswer, InOpening, InAdoption
<1> QED BY <1>4, <1>6, <1>7, <1>8, <1>9, <1>10 DEF OneHand

LEMMA AnswerConnectedOrderly ==
  ASSUME Sound, Orderly, AnswerConnected
  PROVE  Orderly'
<1>1. PICK s \in Slots : s = active.slot
  BY Places DEF AnswerConnected
<1>2. PICK w : w = active.arg
  OBVIOUS
<1>3. /\ Answering(w, s) /\ active' = Loop /\ Tell(w, "connected", s, Upstream)
      /\ UNCHANGED <<conn, worker, polled, broadcast, toListener, spoiled>>
  BY <1>1, <1>2 DEF AnswerConnected, Answering
<1> QED BY <1>3, AnsweredOrderly

LEMMA TellRefusedOrderly ==
  ASSUME Sound, Orderly, TellRefused
  PROVE  Orderly'
<1>1. PICK s \in Slots : s = active.slot
  BY Places DEF TellRefused
<1>2. PICK w : w = active.arg
  OBVIOUS
<1>3. /\ Answering(w, s) /\ active' \in {Loop, Down} /\ (Tell(w, "close", s, None) \/ UNCHANGED toWorker)
      /\ UNCHANGED <<conn, worker, polled, broadcast, toListener, spoiled>>
  BY <1>1, <1>2 DEF TellRefused, Answering
<1> QED BY <1>3, AnsweredOrderly

LEMMA PassUpstreamOrderly ==
  ASSUME Sound, Orderly, NEW w \in Workers, PassUpstream(w)
  PROVE  Orderly'
<1>1. PICK s \in Slots : s = Head(toListener[w]).slot
  BY Receives DEF PassUpstream
<1>2. PICK fd : fd = conn[s].up
  OBVIOUS
<1>3. /\ Received(w, "orphan_up") /\ active = Loop /\ active' \in {Loop, Down}
      /\ Tell(w, "orphan_up", s, fd) \/ UNCHANGED toWorker
      /\ UNCHANGED <<conn, worker, polled, broadcast, spoiled>>
  BY <1>1, <1>2 DEF PassUpstream, Received
<1> SUFFICES ASSUME ~spoiled
             PROVE  ToldOnce' /\ OneHand(s)' /\ \A t \in Slots \ {s} : Untouched(t)
  BY <1>3, OneSlotOrderly
<1>4. ToldOnce /\ OneHand(s)
  BY DEF Orderly
<1>5. /\ \A v \in Workers : /\ Questions(toListener'[v]) \subseteq Questions(toListener[v])
                            /\ AskedOnce(toListener'[v])
      /\ s \in Questions(toListener[w]) /\ s \notin Questions(toListener'[w])
  BY <1>1, <1>3, <1>4, ReceiveEffect
<1>6. Mine(w, s) /\ Nobody(s) /\ s \notin polled[w] /\ s \notin SlotsOf(toWorker[w])
  BY <1>4, <1>5 DEF OneHand, Asking
<1>7. \A v \in Workers :
        /\ SlotsOf(toWorker'[v]) \subseteq SlotsOf(toWorker[v]) \cup (IF v = w THEN {s} ELSE {})
        /\ Once(toWorker'[v])
  <2>1. CASE Tell(w, "orphan_up", s, fd)
    BY <1>4, <1>6, <2>1, TellEffect
  <2>2. CASE UNCHANGED toWorker
    BY <1>4, <2>2 DEF ToldOnce
  <2> QED BY <1>3, <2>1, <2>2
<1>8. ToldOnce'
  BY <1>3, <1>4, <1>5, <1>7 DEF ToldOnce
<1>9. \A t \in Slots : ~Opening(t)' /\ ~Adopting(t)' /\ \A v \in Workers : ~Answering(v, t)'
  BY <1>3 DEF Opening, Adopting, Answering, Loop, Down, At
<1>10. \A t \in Slots \ {s} : Untouched(t)
  BY <1>3, <1>5, <1>7, <1>9 DEF Untouched
<1>11. Announcing(s)' /\ Taking(s)' /\ Serving(s)' /\ Ending(s)'
  BY <1>3, <1>4 DEF OneHand, Announcing, Taking, Serving, Ending, Live, Mine, Nobody, Leaving, Over
<1>12. Asking(s)'
  BY <1>3, <1>4, <1>5, <1>6, <1>7, <1>9 DEF OneHand, Asking, Live, Mine, Nobody
<1>13. Telling(s)'
  BY <1>3, <1>4, <1>5, <1>6, <1>7, <1>9 DEF OneHand, Telling, Live, Mine, Nobody
<1>14. InAnswer(s)' /\ InOpening(s)' /\ InAdoption(s)'
  BY <1>9 DEF InAnswer, InOpening, InAdoption
<1> QED BY <1>8, <1>10, <1>11, <1>12, <1>13, <1>14 DEF OneHand

(* Slots that are done with may become free: nobody has them in hand. *)
LEMMA EndedFreed ==
  ASSUME NEW s \in Slots, OneHand(s), Over(conn[s]), conn'[s].state = "UNUSED",
         UNCHANGED <<worker, polled, broadcast, toWorker>>,
         \A w \in Workers : s \in Questions(toListener'[w]) => s \in Questions(toListener[w]),
         ~Opening(s)', ~Adopting(s)', \A w \in Workers : ~Answering(w, s)'
  PROVE  OneHand(s)'
<1>1. ~Live(s) /\ \A w \in Workers : ~Mine(w, s)
  BY DEF Over, Live, Mine
<1>2. Announcing(s)' /\ Asking(s)' /\ Telling(s)'
  BY <1>1 DEF OneHand, Announcing, Asking, Telling
<1>3. Taking(s)' /\ Serving(s)'
  BY <1>1 DEF OneHand, Taking, Serving, Leaving
<1>4. InAnswer(s)' /\ InOpening(s)' /\ InAdoption(s)' /\ Ending(s)'
  BY DEF InAnswer, InOpening, InAdoption, Ending, Over
<1> QED BY <1>2, <1>3, <1>4 DEF OneHand

LEMMA CloseOrderly ==
  ASSUME Sound, Orderly, NEW w \in Workers, Close(w)
  PROVE  Orderly'
<1>1. PICK s \in Slots : s = Head(toListener[w]).slot
  BY Receives DEF Close
<1>2. /\ Received(w, "close") /\ active = Loop /\ active' \in {Loop, Down}
      /\ UNCHANGED <<worker, polled, broadcast, toWorker, spoiled>>
      /\ conn' = conn \/ (Over(conn[s]) /\ conn' = Released(conn, {s}, "UNUSED"))
  BY <1>1 DEF Close, Received
<1> SUFFICES ASSUME ~spoiled
             PROVE  ToldOnce' /\ OneHand(s)' /\ \A t \in Slots \ {s} : Untouched(t)
  BY <1>2, OneSlotOrderly
<1>3. ToldOnce /\ OneHand(s)
  BY DEF Orderly
<1>4. \A v \in Workers : /\ Questions(toListener'[v]) \subseteq Questions(toListener[v])
                         /\ AskedOnce(toListener'[v])
  BY <1>2, <1>3, ReceiveEffect
<1>5. ToldOnce'
  BY <1>2, <1>3, <1>4 DEF ToldOnce
<1>6. \A t \in Slots : ~Opening(t)' /\ ~Adopting(t)' /\ \A v \in Workers : ~Answering(v, t)'
  BY <1>2 DEF Opening, Adopting, Answering, Loop, Down, At
<1>7. CASE conn' = conn
  <2>1. \A t \in Slots : Untouched(t)
    BY <1>2, <1>4, <1>6, <1>7 DEF Untouched
  <2> QED BY <1>3, <1>5, <2>1, UntouchedStays
<1>8. CASE Over(conn[s]) /\ conn' = Released(conn, {s}, "UNUSED")
  <2>1. /\ conn'[s].state = "UNUSED"
        /\ \A t \in Slots \ {s} : conn'[t].pid = conn[t].pid /\ conn'[t].state = conn[t].state
    BY <1>8, ReleasedFields DEF Sound, TableOK
  <2>2. \A t \in Slots \ {s} : Untouched(t)
    BY <1>2, <1>4, <1>6, <2>1 DEF Untouched
  <2>3. OneHand(s)'
    BY <1>2, <1>3, <1>4, <1>6, <1>8, <2>1, EndedFreed
  <2> QED BY <1>5, <2>2, <2>3
<1> QED BY <1>2, <1>7, <1>8

(* A new listener: only what is queued for all workers outlives them.      *)
LEMMA RecoverEffect ==
  ASSUME Sound, NEW C0 \in [Slots -> Entries], \A s \in Slots : C0[s].state = conn[s].state,
         Recover(C0)
  PROVE  /\ active' \in {Loop, Down} /\ (spoiled => spoiled')
         /\ \A s \in Slots : /\ conn'[s].pid = C0[s].pid
                             /\ conn'[s].state = IF Over(conn[s]) THEN "UNUSED" ELSE conn[s].state
<1> DEFINE ended == {s \in Slots : Over(conn[s])}
           C     == Released(C0, ended, "UNUSED")
<1>1. \A s \in Slots : /\ C[s] \in Entries
                       /\ C[s].pid = C0[s].pid
                       /\ C[s].state = IF Over(conn[s]) THEN "UNUSED" ELSE conn[s].state
  <2> SUFFICES ASSUME NEW s \in Slots
               PROVE  /\ C[s] \in Entries
                      /\ C[s].pid = C0[s].pid
                      /\ C[s].state = IF s \in ended THEN "UNUSED" ELSE conn[s].state
    OBVIOUS
  <2> HIDE DEF ended
  <2>1. "UNUSED" \in States
    BY DEF States
  <2>2. C \in [Slots -> Entries]
    BY <2>1, EntriesReleased
  <2> QED BY <2>2, ReleasedFields
<1>2. active' \in {Loop, Down} /\ (spoiled => spoiled')
  BY DEF Recover
<1>3. ASSUME NEW s \in Slots
      PROVE  \E d : conn'[s] \in {C[s], [C[s] EXCEPT !.down = d], [C[s] EXCEPT !.up = d]}
  <2> HIDE DEF C
  <2> QED BY DEF Recover, C, ended
<1>4. ASSUME NEW s \in Slots
      PROVE  conn'[s].pid = C[s].pid /\ conn'[s].state = C[s].state
  <2> HIDE DEF C
  <2> QED BY <1>1, <1>3 DEF Entries
<1> HIDE DEF C
<1> QED BY <1>1, <1>2, <1>4

LEMMA RestartOrderly ==
  ASSUME Sound, Orderly, Restart
  PROVE  Orderly'
<1> DEFINE C0 == [s \in Slots |-> [conn[s] EXCEPT !.pid = None]]
<1>1. C0 \in [Slots -> Entries] /\ \A s \in Slots : C0[s].state = conn[s].state /\ C0[s].pid = None
  BY DEF Sound, TableOK, Entries
<1>2. Recover(C0)
  BY DEF Restart
<1>3. /\ active' \in {Loop, Down} /\ (spoiled => spoiled')
      /\ \A s \in Slots : /\ conn'[s].pid = None
                          /\ conn'[s].state = IF Over(conn[s]) THEN "UNUSED" ELSE conn[s].state
  <2> HIDE DEF C0
  <2> QED BY <1>1, <1>2, RecoverEffect
<1>4. /\ UNCHANGED broadcast
      /\ \A w \in Workers : /\ worker'[w] = Idle /\ polled'[w] = {}
                            /\ toWorker'[w] = <<>> /\ toListener'[w] = <<>>
  BY DEF Restart
<1> SUFFICES ASSUME ~spoiled, NEW s \in Slots
             PROVE  ToldOnce' /\ OneHand(s)'
  <2>1. Slots # {}
    BY LifecycleAssumption DEF Slots
  <2> QED BY <1>3, <2>1 DEF Orderly
<1>5. ToldOnce /\ OneHand(s)
  BY DEF Orderly
<1>6. ToldOnce'
  BY <1>4, <1>5 DEF ToldOnce, Once, AskedOnce
<1>7. /\ Idle.slot # s /\ ~Opening(s)' /\ ~Adopting(s)' /\ \A w \in Workers : ~Answering(w, s)'
  BY <1>3, LifecycleAssumption DEF Opening, Adopting, Answering, Loop, Down, Idle, At, Slots
<1>8. \A w \in Workers : SlotsOf(toWorker'[w]) = {} /\ Questions(toListener'[w]) = {}
  BY <1>4 DEF SlotsOf, Questions
<1>9. Announcing(s)'
  BY <1>3, <1>4, <1>5, <1>7 DEF OneHand, Announcing, Live, Nobody, Over
<1>10. Taking(s)' /\ Serving(s)' /\ Asking(s)' /\ Telling(s)'
  BY <1>4, <1>7, <1>8, SMTT(20) DEF Taking, Serving, Asking, Telling
<1>11. InAnswer(s)' /\ InOpening(s)' /\ InAdoption(s)'
  BY <1>7 DEF InAnswer, InOpening, InAdoption
<1>12. Ending(s)'
  BY <1>3 DEF Ending, Over
<1> QED BY <1>6, <1>9, <1>10, <1>11, <1>12 DEF OneHand

LEMMA TakeOverOrderly ==
  ASSUME Sound, Orderly, TakeOver
  PROVE  Orderly'
<1>1. /\ active' \in {Loop, Down} /\ (spoiled => spoiled')
      /\ \A s \in Slots : /\ conn'[s].pid = conn[s].pid
                          /\ conn'[s].state = IF Over(conn[s]) THEN "UNUSED" ELSE conn[s].state
  <2>1. Recover(conn) /\ conn \in [Slots -> Entries]
    BY DEF TakeOver, Sound, TableOK
  <2> QED BY <2>1, RecoverEffect
<1>2. UNCHANGED <<worker, polled, broadcast, toWorker, toListener>>
  BY DEF TakeOver, queues
<1> SUFFICES ASSUME ~spoiled, NEW s \in Slots
             PROVE  ToldOnce' /\ OneHand(s)'
  <2>1. Slots # {}
    BY LifecycleAssumption DEF Slots
  <2> QED BY <1>1, <2>1 DEF Orderly
<1>3. ToldOnce' /\ OneHand(s)
  BY <1>2 DEF Orderly, ToldOnce
<1>4. ~Opening(s)' /\ ~Adopting(s)' /\ \A w \in Workers : ~Answering(w, s)'
  BY <1>1 DEF Opening, Adopting, Answering, Loop, Down, At
<1>5. CASE Over(conn[s])
  BY <1>1, <1>2, <1>3, <1>4, <1>5, EndedFreed
<1>6. CASE ~Over(conn[s])
  <2>1. Untouched(s)
    BY <1>1, <1>2, <1>4, <1>6 DEF Untouched
  <2> QED BY <1>3, <2>1, UntouchedStays
<1> QED BY <1>5, <1>6

(* The actions of a worker.                                                *)
LEMMA WorkerPlace ==
  ASSUME Sound, NEW w \in Workers, NEW to, Goes(w, to)
  PROVE  \A v \in Workers : worker'[v] = IF v = w THEN to ELSE worker[v]
BY DEF Goes, Sound, WorkersOK

LEMMA TakeOrderly ==
  ASSUME Sound, Orderly, NEW w \in Workers, Take(w)
  PROVE  Orderly'
<1>0. /\ broadcast \in Seq(Letters(FromActive, size)) /\ Head(broadcast).action \in FromActive
      /\ Head(broadcast).slot \in 1 .. size
  BY Letter DEF Take, Sound, QueuesOK
<1>1. PICK s \in Slots : s = Head(broadcast).slot
  BY <1>0, Places
<1>2. /\ broadcast # <<>> /\ broadcast' = Tail(broadcast) /\ worker[w] = Idle
      /\ UNCHANGED <<conn, active, toWorker, toListener, spoiled>>
      /\ \/ Ends(w)
         \/ \E fd : Goes(w, At(Head(broadcast).action, s, fd)) /\ UNCHANGED polled
  BY <1>1 DEF Take
<1> SUFFICES ASSUME ~spoiled
             PROVE  ToldOnce' /\ OneHand(s)' /\ \A t \in Slots \ {s} : Untouched(t)
  BY <1>2, OneSlotOrderly
<1>3. ToldOnce /\ OneHand(s)
  BY DEF Orderly
<1>5. /\ s \in SlotsOf(broadcast) /\ s \notin SlotsOf(broadcast') /\ Once(broadcast')
      /\ SlotsOf(broadcast') \subseteq SlotsOf(broadcast)
  BY <1>0, <1>1, <1>2, <1>3, TakenSlots DEF ToldOnce
<1>6. ToldOnce'
  BY <1>2, <1>3, <1>5 DEF ToldOnce
<1>7. ASSUME NEW v \in Workers
      PROVE  /\ \/ worker'[v] = worker[v]
                \/ v = w /\ worker'[v].slot \notin Slots
                \/ v = w /\ worker'[v].slot = s /\ worker'[v].at \in FromActive
             /\ polled'[v] \subseteq polled[v]
  <2>1. CASE Ends(w)
    <3>1. Dead.slot \notin Slots
      BY LifecycleAssumption DEF Dead, At, Slots
    <3> QED BY <2>1, <3>1, WorkerPlace DEF Ends, Sound, WorkersOK
  <2>2. CASE UNCHANGED polled /\ \E fd : Goes(w, At(Head(broadcast).action, s, fd))
    <3>1. PICK fd : worker'[v] = IF v = w THEN At(Head(broadcast).action, s, fd) ELSE worker[v]
      BY <2>2, WorkerPlace
    <3> QED BY <1>0, <2>2, <3>1 DEF At
  <2> QED BY <1>2, <2>1, <2>2
<1>8. \A t \in Slots : worker[w].slot # t
  BY <1>2, AwayFromSlots
<1>9. \A t \in Slots : /\ Opening(t)' <=> Opening(t)
                       /\ Adopting(t)' <=> Adopting(t)
                       /\ \A v \in Workers : Answering(v, t)' <=> Answering(v, t)
  BY <1>2 DEF Opening, Adopting, Answering
<1>10. \A t \in Slots \ {s} : Untouched(t)
  BY <1>2, <1>5, <1>7, <1>8, <1>9 DEF Untouched
<1>11. conn[s].pid = None /\ Live(s) /\ Nobody(s) /\ ~Opening(s) /\ \A v \in Workers : ~Mine(v, s)
  BY <1>3, <1>5, LifecycleAssumption DEF OneHand, Announcing, InOpening, Mine
<1>12. \A v \in Workers : /\ s \notin polled[v] /\ s \notin Questions(toListener[v])
                          /\ s \notin SlotsOf(toWorker[v]) /\ ~Answering(v, s)
  BY <1>3, <1>11 DEF OneHand, Asking, Telling, InAnswer, Serving, Nobody
<1>13. \A v \in Workers : worker'[v].slot = s => v = w /\ worker'[v].at \in {"accepted", "orphan_down"}
  BY <1>7, <1>11 DEF Nobody, FromActive
<1>14. Taking(s)'
  BY <1>2, <1>11, <1>13 DEF Taking, Live
<1>15. Announcing(s)' /\ Asking(s)' /\ Telling(s)' /\ InAnswer(s)' /\ Serving(s)'
  BY <1>2, <1>5, <1>7, <1>9, <1>12 DEF Announcing, Asking, Telling, InAnswer, Serving
<1>16. InOpening(s)' /\ InAdoption(s)' /\ Ending(s)'
  BY <1>2, <1>3, <1>7, <1>9, <1>11, <1>12 DEF OneHand, InOpening, InAdoption, Ending, Live, Over
<1> QED BY <1>6, <1>10, <1>14, <1>15, <1>16 DEF OneHand

LEMMA NoteTakenOrderly ==
  ASSUME Sound, Orderly, NEW w \in Workers, NoteTaken(w)
  PROVE  Orderly'
<1>1. PICK s \in Slots : s = worker[w].slot /\ worker[w].at \in {"accepted", "orphan_down"}
  BY Places DEF NoteTaken
<1>2. /\ UNCHANGED <<active, broadcast, toWorker, toListener, spoiled>>
      /\ \A t \in Slots \ {s} : conn'[t] = conn[t]
      /\ conn'[s].pid = w /\ conn'[s].state \in {conn[s].state, "CONNECTING"}
      /\ \/ Ends(w)
         \/ UNCHANGED polled /\ \E place \in {"connect", "orphan_up"} : Goes(w, At(place, s, None))
  <2>0. UNCHANGED <<active, broadcast, toWorker, toListener, spoiled>>
    BY DEF NoteTaken, queues
  <2>1. conn[s] \in Entries /\ conn \in [Slots -> Entries]
    BY EntryFields DEF Sound, TableOK
  <2>2. Owned(conn[s], w).pid = w /\ Owned(conn[s], w).state = conn[s].state /\ Owned(conn[s], w) \in Entries
    BY <2>1 DEF Owned, Entries
  <2>3. CASE conn[s].wdown # None
    <3>1. conn' = [conn EXCEPT ![s] = Owned(conn[s], w)] /\ Ends(w)
      BY <1>1, <2>1, <2>3 DEF NoteTaken
    <3> QED BY <2>0, <2>1, <2>2, <3>1
  <2>4. CASE conn[s].wdown = None
    <3> DEFINE mine == [Owned(conn[s], w) EXCEPT !.wdown = worker[w].arg,
                         !.state = IF worker[w].at = "accepted" THEN "CONNECTING" ELSE @]
    <3>1. mine.pid = w /\ mine.state \in {conn[s].state, "CONNECTING"}
      BY <2>2 DEF Entries
    <3>2. /\ conn' = [conn EXCEPT ![s] = mine] /\ UNCHANGED polled
          /\ Goes(w, At(IF mine.state = "CONNECTING" THEN "connect" ELSE "orphan_up", s, None))
      BY <1>1, <2>4 DEF NoteTaken
    <3> HIDE DEF mine
    <3> QED BY <2>0, <2>1, <3>1, <3>2
  <2> QED BY <2>3, <2>4
<1> SUFFICES ASSUME ~spoiled
             PROVE  ToldOnce' /\ OneHand(s)' /\ \A t \in Slots \ {s} : Untouched(t)
  BY <1>2, OneSlotOrderly
<1>3. ToldOnce' /\ OneHand(s)
  BY <1>2 DEF Orderly, ToldOnce
<1>4. ASSUME NEW v \in Workers
      PROVE  /\ \/ worker'[v] = worker[v] /\ v # w
                \/ v = w /\ worker'[v].slot \notin Slots
                \/ v = w /\ worker'[v].slot = s /\ worker'[v].at \in {"connect", "orphan_up"}
             /\ polled'[v] \subseteq polled[v]
  <2>1. CASE Ends(w)
    <3>1. Dead.slot \notin Slots
      BY LifecycleAssumption DEF Dead, At, Slots
    <3> QED BY <2>1, <3>1, WorkerPlace DEF Ends, Sound, WorkersOK
  <2>2. CASE UNCHANGED polled /\ \E place \in {"connect", "orphan_up"} : Goes(w, At(place, s, None))
    <3>1. PICK place \in {"connect", "orphan_up"} :
            worker'[v] = IF v = w THEN At(place, s, None) ELSE worker[v]
      BY <2>2, WorkerPlace
    <3> QED BY <2>2, <3>1 DEF At
  <2> QED BY <1>2, <2>1, <2>2
<1>5. \A t \in Slots : /\ Opening(t)' <=> Opening(t)
                       /\ Adopting(t)' <=> Adopting(t)
                       /\ \A v \in Workers : Answering(v, t)' <=> Answering(v, t)
  BY <1>2 DEF Opening, Adopting, Answering
<1>6. \A t \in Slots \ {s} : Untouched(t)
  BY <1>1, <1>2, <1>4, <1>5 DEF Untouched
<1>7. conn[s].pid = None /\ Live(s) /\ ~Nobody(s) /\ ~Opening(s) /\ \A v \in Workers : ~Mine(v, s)
  BY <1>1, <1>3, LifecycleAssumption DEF OneHand, Taking, InOpening, Leaving, Mine, Nobody
<1>8. \A v \in Workers : worker[v].slot = s => v = w
  BY <1>1, <1>3 DEF OneHand, Taking
<1>9. /\ s \notin SlotsOf(broadcast)
      /\ \A v \in Workers : /\ s \notin polled[v] /\ s \notin Questions(toListener[v])
                            /\ s \notin SlotsOf(toWorker[v]) /\ ~Answering(v, s)
  BY <1>1, <1>3, <1>7, <1>8 DEF OneHand, Announcing, Asking, Telling, InAnswer, Serving, Leaving
<1>10. \A v \in Workers : worker'[v].slot = s => v = w /\ worker'[v].at \in {"connect", "orphan_up"}
  BY <1>4, <1>8
<1>11. Live(s)'
  BY <1>2, <1>7 DEF Live
<1>12. Taking(s)'
  BY <1>2, <1>10, <1>11 DEF Taking, Mine
<1>13. Announcing(s)' /\ Asking(s)' /\ Telling(s)' /\ InAnswer(s)' /\ Serving(s)'
  BY <1>2, <1>4, <1>5, <1>9 DEF Announcing, Asking, Telling, InAnswer, Serving
<1>14. InOpening(s)' /\ InAdoption(s)' /\ Ending(s)'
  BY <1>2, <1>4, <1>5, <1>7, <1>9, <1>11 DEF InOpening, InAdoption, Ending, Live, Over
<1> QED BY <1>3, <1>6, <1>12, <1>13, <1>14 DEF OneHand

LEMMA AskOrderly ==
  ASSUME Sound, Orderly, NEW w \in Workers, Ask(w)
  PROVE  Orderly'
<1>1. PICK s \in Slots : s = worker[w].slot /\ worker[w].at \in {"connect", "orphan_up"}
  BY Places DEF Ask
<1>2. /\ UNCHANGED <<conn, active, polled, broadcast, toWorker, spoiled>>
      /\ Report(w, worker[w].at, s) /\ Goes(w, Idle)
  BY <1>1 DEF Ask
<1> SUFFICES ASSUME ~spoiled
             PROVE  ToldOnce' /\ OneHand(s)' /\ \A t \in Slots \ {s} : Untouched(t)
  BY <1>2, OneSlotOrderly
<1>3. ToldOnce /\ OneHand(s)
  BY DEF Orderly
<1>4. Mine(w, s) /\ \A v \in Workers : worker[v].slot = s => v = w
  BY <1>1, <1>3 DEF OneHand, Taking
<1>5. /\ s \notin SlotsOf(broadcast) /\ ~Opening(s)
      /\ \A v \in Workers : /\ s \notin polled[v] /\ s \notin Questions(toListener[v])
                            /\ s \notin SlotsOf(toWorker[v]) /\ ~Answering(v, s)
  BY <1>1, <1>3, <1>4, LifecycleAssumption DEF OneHand, Announcing, Asking, Telling, InAnswer, Serving,
     InOpening, Leaving, Mine, Nobody
<1>6. \A v \in Workers :
        /\ Questions(toListener'[v]) = Questions(toListener[v]) \cup (IF v = w THEN {s} ELSE {})
        /\ AskedOnce(toListener'[v])
  <2>1. worker[w].at # "close"
    BY <1>1
  <2> QED BY <1>2, <1>3, <1>5, <2>1, ReportEffect
<1>7. ToldOnce'
  BY <1>2, <1>3, <1>6 DEF ToldOnce
<1>8. \A v \in Workers, t \in Slots :
        /\ worker'[v].slot = t => worker[v].slot = t /\ worker'[v] = worker[v] /\ v # w
        /\ v # w => worker'[v] = worker[v]
  <2>1. Idle.slot = 0 /\ 0 \notin Slots
    BY LifecycleAssumption DEF Idle, At, Slots
  <2> QED BY <1>2, <2>1, WorkerPlace
<1>9. \A t \in Slots : /\ Opening(t)' <=> Opening(t)
                       /\ Adopting(t)' <=> Adopting(t)
                       /\ \A v \in Workers : Answering(v, t)' <=> Answering(v, t)
  BY <1>2 DEF Opening, Adopting, Answering
<1>10. \A t \in Slots \ {s} : Untouched(t)
  BY <1>1, <1>2, <1>6, <1>8, <1>9 DEF Untouched
<1>11. Nobody(s)' /\ Live(s)' /\ Mine(w, s)'
  BY <1>2, <1>4, <1>8 DEF Nobody, Live, Mine
<1>12. Announcing(s)' /\ Taking(s)' /\ Telling(s)' /\ InAnswer(s)' /\ Serving(s)'
  BY <1>2, <1>5, <1>9, <1>11 DEF Announcing, Taking, Telling, InAnswer, Serving, Nobody
<1>13. Asking(s)'
  BY <1>2, <1>5, <1>6, <1>9, <1>11 DEF Asking
<1>14. InOpening(s)' /\ InAdoption(s)' /\ Ending(s)'
  BY <1>2, <1>5, <1>9, <1>11 DEF InOpening, InAdoption, Ending, Live, Over
<1> QED BY <1>7, <1>10, <1>12, <1>13, <1>14 DEF OneHand

LEMMA TakeUpstreamOrderly ==
  ASSUME Sound, Orderly, NEW w \in Workers, TakeUpstream(w)
  PROVE  Orderly'
<1>1. PICK s \in Slots : s = Head(toWorker[w]).slot
  BY Answers DEF TakeUpstream
<1>2. /\ UNCHANGED <<active, broadcast, toListener, spoiled>>
      /\ Answered(w, {"connected", "orphan_up"})
      /\ Ends(w) \/ (polled' = [polled EXCEPT ![w] = @ \cup {s}] /\ UNCHANGED worker)
  BY <1>1 DEF TakeUpstream
<1>3. /\ \A t \in Slots \ {s} : conn'[t] = conn[t]
      /\ conn'[s].pid \in {conn[s].pid, w} /\ conn'[s].state \in {conn[s].state, "POLL"}
  <2> DEFINE m == Head(toWorker[w])
             c == conn[s]
             mine == IF m.action = "connected"
                     THEN [c EXCEPT !.wup = m.fd, !.state = IF c.wdown = None THEN @ ELSE "POLL"]
                     ELSE [Owned(c, w) EXCEPT !.wup = m.fd]
  <2>1. c \in Entries /\ conn \in [Slots -> Entries]
    BY EntryFields DEF Sound, TableOK
  <2>2. Owned(c, w).pid = w /\ Owned(c, w).state = c.state /\ Owned(c, w) \in Entries
    BY <2>1 DEF Owned, Entries
  <2>3. mine.pid \in {c.pid, w} /\ mine.state \in {c.state, "POLL"}
    <3> HIDE DEF m, c
    <3> QED BY <2>1, <2>2 DEF Entries
  <2>4. \E e \in {mine, Owned(c, w), c} : conn' = [conn EXCEPT ![s] = e]
    BY <1>1 DEF TakeUpstream
  <2> HIDE DEF mine
  <2> QED BY <2>1, <2>2, <2>3, <2>4
<1> SUFFICES ASSUME ~spoiled
             PROVE  ToldOnce' /\ OneHand(s)' /\ \A t \in Slots \ {s} : Untouched(t)
  BY <1>2, OneSlotOrderly
<1>4. ToldOnce /\ OneHand(s)
  BY DEF Orderly
<1>5. /\ \A v \in Workers : SlotsOf(toWorker'[v]) \subseteq SlotsOf(toWorker[v]) /\ Once(toWorker'[v])
      /\ s \in SlotsOf(toWorker[w]) /\ s \notin SlotsOf(toWorker'[w])
  BY <1>1, <1>2, <1>4, AnswerEffect
<1>6. ToldOnce'
  BY <1>2, <1>4, <1>5 DEF ToldOnce
<1>7. Mine(w, s) /\ Nobody(s) /\ \A v \in Workers : ~Answering(v, s)
  BY <1>4, <1>5 DEF OneHand, Telling, InAnswer, Mine
<1>8. /\ s \notin SlotsOf(broadcast) /\ ~Opening(s) /\ ~Adopting(s)
      /\ \A v \in Workers : /\ s \notin polled[v] /\ s \notin Questions(toListener[v])
                            /\ v # w => s \notin SlotsOf(toWorker[v])
  BY <1>4, <1>5, <1>7, LifecycleAssumption DEF OneHand, Announcing, Asking, Telling, Serving, InOpening,
     InAdoption, Mine, Nobody
<1>9. \A v \in Workers, t \in Slots :
        /\ worker'[v].slot = t => worker[v].slot = t /\ worker'[v] = worker[v]
        /\ t \in polled'[v] => (t \in polled[v] \/ (t = s /\ v = w)) /\ worker'[v] = worker[v]
  <2>1. CASE Ends(w)
    BY <2>1, WorkerEndsEffect
  <2>2. CASE polled' = [polled EXCEPT ![w] = @ \cup {s}] /\ UNCHANGED worker
    BY <2>2 DEF Sound, WorkersOK
  <2> QED BY <1>2, <2>1, <2>2
<1>10. \A t \in Slots : /\ Opening(t)' <=> Opening(t)
                        /\ Adopting(t)' <=> Adopting(t)
                        /\ \A v \in Workers : Answering(v, t)' <=> Answering(v, t)
  BY <1>2 DEF Opening, Adopting, Answering
<1>11. \A t \in Slots \ {s} : Untouched(t)
  BY <1>2, <1>3, <1>5, <1>9, <1>10 DEF Untouched
<1>12. Nobody(s)' /\ Live(s)' /\ Mine(w, s)'
  BY <1>3, <1>7, <1>9 DEF Nobody, Live, Mine
<1>13. Serving(s)'
  BY <1>8, <1>9, <1>12 DEF Serving, Nobody
<1>14. Announcing(s)' /\ Taking(s)' /\ Asking(s)' /\ Telling(s)' /\ InAnswer(s)'
  BY <1>2, <1>5, <1>7, <1>8, <1>10, <1>12 DEF Announcing, Taking, Asking, Telling, InAnswer, Nobody
<1>15. InOpening(s)' /\ InAdoption(s)' /\ Ending(s)'
  BY <1>8, <1>10, <1>12 DEF InOpening, InAdoption, Ending, Live, Over
<1> QED BY <1>6, <1>11, <1>13, <1>14, <1>15 DEF OneHand

LEMMA TakeRefusalOrderly ==
  ASSUME Sound, Orderly, NEW w \in Workers, TakeRefusal(w)
  PROVE  Orderly'
<1>1. PICK s \in Slots : s = Head(toWorker[w]).slot
  BY Answers DEF TakeRefusal
<1>2. /\ UNCHANGED <<active, worker, broadcast, toListener, spoiled>>
      /\ Answered(w, {"close"})
      /\ \A v \in Workers : polled'[v] \subseteq polled[v]
  BY <1>1 DEF TakeRefusal, Forgotten, Sound, WorkersOK
<1>3. /\ \A t \in Slots \ {s} : conn'[t] = conn[t]
      /\ conn'[s].pid = conn[s].pid /\ conn'[s].state = "UNUSED"
  <2>1. conn[s] \in Entries /\ conn \in [Slots -> Entries]
    BY EntryFields DEF Sound, TableOK
  <2> QED BY <1>1, <2>1 DEF TakeRefusal, Entries
<1> SUFFICES ASSUME ~spoiled
             PROVE  ToldOnce' /\ OneHand(s)' /\ \A t \in Slots \ {s} : Untouched(t)
  BY <1>2, OneSlotOrderly
<1>4. ToldOnce /\ OneHand(s)
  BY DEF Orderly
<1>5. /\ \A v \in Workers : SlotsOf(toWorker'[v]) \subseteq SlotsOf(toWorker[v]) /\ Once(toWorker'[v])
      /\ s \in SlotsOf(toWorker[w]) /\ s \notin SlotsOf(toWorker'[w])
  BY <1>1, <1>2, <1>4, AnswerEffect
<1>6. ToldOnce'
  BY <1>2, <1>4, <1>5 DEF ToldOnce
<1>7. Mine(w, s) /\ Nobody(s) /\ \A v \in Workers : ~Answering(v, s)
  BY <1>4, <1>5 DEF OneHand, Telling, InAnswer, Mine
<1>8. /\ s \notin SlotsOf(broadcast) /\ ~Opening(s) /\ ~Adopting(s)
      /\ \A v \in Workers : /\ s \notin polled[v] /\ s \notin Questions(toListener[v])
                            /\ v # w => s \notin SlotsOf(toWorker[v])
  BY <1>4, <1>5, <1>7, LifecycleAssumption DEF OneHand, Announcing, Asking, Telling, Serving, InOpening,
     InAdoption, Mine, Nobody
<1>9. \A t \in Slots : /\ Opening(t)' <=> Opening(t)
                       /\ Adopting(t)' <=> Adopting(t)
                       /\ \A v \in Workers : Answering(v, t)' <=> Answering(v, t)
  BY <1>2 DEF Opening, Adopting, Answering
<1>10. \A t \in Slots \ {s} : Untouched(t)
  BY <1>2, <1>3, <1>5, <1>9 DEF Untouched
<1>11. Announcing(s)' /\ Taking(s)' /\ Asking(s)' /\ Telling(s)' /\ InAnswer(s)' /\ Serving(s)'
  BY <1>2, <1>5, <1>7, <1>8, <1>9 DEF Announcing, Taking, Asking, Telling, InAnswer, Serving, Nobody
<1>12. InOpening(s)' /\ InAdoption(s)' /\ Ending(s)'
  BY <1>3, <1>8, <1>9 DEF InOpening, InAdoption, Ending, Over
<1> QED BY <1>6, <1>10, <1>11, <1>12 DEF OneHand

(* Finish and Fail. *)
LEMMA EndsOrderly ==
  ASSUME Sound, Orderly, NEW w \in Workers, NEW s \in Slots, worker[w] = Idle, s \in polled[w],
         NEW state \in {"CLOSING", "ERROR"}, NEW place \in {"closing", "error"},
         conn' = [conn EXCEPT ![s].state = state], Goes(w, At(place, s, None)),
         UNCHANGED <<active, polled, broadcast, toWorker, toListener, spoiled>>
  PROVE  Orderly'
<1>1. /\ \A t \in Slots \ {s} : conn'[t] = conn[t]
      /\ conn'[s].pid = conn[s].pid /\ conn'[s].state = state
  BY EntryFields DEF Sound, TableOK, Entries
<1> SUFFICES ASSUME ~spoiled
             PROVE  ToldOnce' /\ OneHand(s)' /\ \A t \in Slots \ {s} : Untouched(t)
  BY OneSlotOrderly
<1>2. ToldOnce' /\ OneHand(s)
  BY DEF Orderly, ToldOnce
<1>3. \A t \in Slots : worker[w].slot # t
  BY AwayFromSlots
<1>4. \A v \in Workers : IF v = w THEN worker'[v].slot = s /\ worker'[v].at = place
                                  ELSE worker'[v] = worker[v]
  BY WorkerPlace DEF At
<1>5. Mine(w, s) /\ Nobody(s)
  BY <1>2, <1>3 DEF OneHand, Serving
<1>6. /\ s \notin SlotsOf(broadcast) /\ ~Opening(s) /\ ~Adopting(s)
      /\ \A v \in Workers : /\ s \notin Questions(toListener[v]) /\ s \notin SlotsOf(toWorker[v])
                            /\ ~Answering(v, s) /\ (s \in polled[v] => v = w)
  BY <1>2, <1>3, <1>5, LifecycleAssumption DEF OneHand, Announcing, Asking, Telling, InAnswer, Serving,
     InOpening, InAdoption, Mine, Nobody
<1>7. \A t \in Slots : /\ Opening(t)' <=> Opening(t)
                       /\ Adopting(t)' <=> Adopting(t)
                       /\ \A v \in Workers : Answering(v, t)' <=> Answering(v, t)
  BY DEF Opening, Adopting, Answering
<1>8. \A t \in Slots \ {s} : Untouched(t)
  BY <1>1, <1>3, <1>4, <1>7 DEF Untouched
<1>9. \A v \in Workers : worker'[v].slot = s => v = w /\ Leaving(w)'
  BY <1>4, <1>5 DEF Nobody, Leaving
<1>10. Taking(s)' /\ Serving(s)'
  BY <1>4, <1>6, <1>9 DEF Taking, Serving, Leaving
<1>11. Announcing(s)' /\ Asking(s)' /\ Telling(s)' /\ InAnswer(s)'
  BY <1>6, <1>7 DEF Announcing, Asking, Telling, InAnswer
<1>12. InOpening(s)' /\ InAdoption(s)' /\ Ending(s)'
  BY <1>1, <1>5, <1>6, <1>7, LifecycleAssumption DEF InOpening, InAdoption, Ending, Mine
<1> QED BY <1>2, <1>8, <1>10, <1>11, <1>12 DEF OneHand

LEMMA FinishOrderly ==
  ASSUME Sound, Orderly, NEW w \in Workers, NEW s \in Slots, Finish(w, s)
  PROVE  Orderly'
BY EndsOrderly DEF Finish, queues

LEMMA FailOrderly ==
  ASSUME Sound, Orderly, NEW w \in Workers, NEW s \in Slots, Fail(w, s)
  PROVE  Orderly'
BY EndsOrderly DEF Fail, queues

LEMMA ReportClosedOrderly ==
  ASSUME Sound, Orderly, NEW w \in Workers, ReportClosed(w)
  PROVE  Orderly'
<1> SUFFICES ASSUME ~spoiled' PROVE Orderly'
  BY DEF Orderly
<1>1. PICK s \in Slots : s = worker[w].slot
  BY Places DEF ReportClosed
<1>2. /\ UNCHANGED <<active, broadcast, toWorker, spoiled>>
      /\ Report(w, "close", s)
      /\ Ends(w) \/ (Goes(w, Idle) /\ Forgotten(w, s))
  BY <1>1, ReportClosedEffect DEF ReportClosed
<1>3. \A t \in Slots : conn'[t].pid = conn[t].pid /\ conn'[t].state = conn[t].state
  BY EntryFields DEF ReportClosed, Sound, TableOK, Entries
<1>4. \A v \in Workers, t \in Slots :
        /\ worker'[v].slot = t => worker[v].slot = t /\ worker'[v] = worker[v]
        /\ t \in polled'[v] => t \in polled[v] /\ (worker[v].slot = t => worker'[v].slot = t)
  <2>1. CASE Ends(w)
    BY <2>1, WorkerEndsEffect
  <2>2. CASE Goes(w, Idle) /\ Forgotten(w, s)
    <3>1. Idle.slot = 0 /\ 0 \notin Slots
      BY LifecycleAssumption DEF Idle, At, Slots
    <3>2. \A v \in Workers : /\ worker'[v] = IF v = w THEN Idle ELSE worker[v]
                             /\ polled'[v] = IF v = w THEN polled[v] \ {s} ELSE polled[v]
      BY <2>2, WorkerPlace DEF Forgotten, Sound, WorkersOK
    <3> QED BY <1>1, <3>1, <3>2
  <2> QED BY <1>2, <2>1, <2>2
<1>5. ToldOnce =>
        \A v \in Workers : Questions(toListener'[v]) = Questions(toListener[v]) /\ AskedOnce(toListener'[v])
  BY <1>2, ReportEffect
<1>6. ToldOnce => ToldOnce'
  BY <1>2, <1>5 DEF ToldOnce
<1>7. ASSUME ToldOnce PROVE \A t \in Slots : Untouched(t)
  BY <1>2, <1>3, <1>4, <1>5, <1>7 DEF Untouched, Opening, Adopting, Answering
<1>8. CASE spoiled
  BY <1>2, <1>8 DEF Orderly
<1>9. CASE ~spoiled
  <2>1. ToldOnce
    BY <1>9 DEF Orderly
  <2> QED BY <1>2, <1>6, <1>7, <2>1, QuietOrderly
<1> QED BY <1>8, <1>9

LEMMA StutterOrderly ==
  ASSUME Sound, Orderly, UNCHANGED vars
  PROVE  Orderly'
<1>1. UNCHANGED <<conn, active, worker, polled, broadcast, toWorker, toListener, spoiled>>
  BY DEF vars, queues
<1>2. \A s \in Slots : Untouched(s)
  BY <1>1 DEF Untouched, Opening, Adopting, Answering
<1>3. ToldOnce => ToldOnce'
  BY <1>1 DEF ToldOnce
<1> QED BY <1>1, <1>2, <1>3, QuietOrderly

LEMMA OrderlyStep ==
  ASSUME Sound, Orderly, [Next]_vars
  PROVE  Orderly'
<1>1. CASE Claim \/ AppendEntry \/ Adopt \/ TakeOver \/ ActiveFails
  BY <1>1, ClaimOrderly, AppendEntryOrderly, AdoptOrderly, TakeOverOrderly, ActiveFailsOrderly
<1>2. CASE Continue
  BY <1>2, PublishEntryOrderly, AcceptOrderly, NoteAcceptedOrderly, AnnounceAcceptedOrderly,
     DistributeOrderly, NoteConnectedOrderly, AnswerConnectedOrderly, AnswerFailsOrderly,
     TellRefusedOrderly, RestartOrderly DEF Continue
<1>3. ASSUME NEW w \in Workers, Handle(w)
      PROVE  Orderly'
  BY <1>3, ConnectOrderly, ConnectFailsOrderly, CloseOrderly, PassUpstreamOrderly, IpcEofOrderly
     DEF Handle
<1>4. ASSUME NEW w \in Workers, WorkerStep(w)
      PROVE  Orderly'
  BY <1>4, TakeOrderly, NoteTakenOrderly, AskOrderly, TakeUpstreamOrderly, TakeRefusalOrderly,
     ReportClosedOrderly, FinishOrderly DEF WorkerStep
<1>5. ASSUME NEW w \in Workers, WorkerFails(w) \/ \E s \in Slots : Fail(w, s)
      PROVE  Orderly'
  BY <1>5, WorkerFailsOrderly, FailOrderly
<1>6. CASE UNCHANGED vars
  BY <1>6, StutterOrderly
<1> QED BY <1>1, <1>2, <1>3, <1>4, <1>5, <1>6 DEF Next

(* As long as no history is spoiled, no two running workers work on the    *)
(* same connection, whatever process ends at whatever step, and although   *)
(* orphans are distributed again through a socket that all workers read    *)
(* and that outlives them.                                                 *)
THEOREM WorkedOnByOne == Spec => []HandledOnce
<1>1. Init => Orderly
  BY OrderlyBase
<1>2. Sound /\ Orderly /\ [Next]_vars => Orderly'
  BY OrderlyStep
<1>3. Sound /\ Orderly => HandledOnce
  BY OneWorker
<1> QED BY <1>1, <1>2, <1>3, Invariance, PTL DEF Spec

(* A slot in whose state nobody but a worker that leaves it is involved.   *)
Given(s) == \A w \in Workers : s \in polled'[w] => Leaving(w)

LEMMA OverGiven ==
  ASSUME NEW s \in Slots, OneHand(s), Over(conn[s]), \A w \in Workers : polled'[w] \subseteq polled[w]
  PROVE  Given(s)
BY DEF OneHand, Serving, Mine, Live, Over, Given

(* Most actions give up no slot. *)
Keeps(s) == conn'[s].state = conn[s].state \/ conn'[s].state # "UNUSED"

LEMMA ListenerKeeps ==
  ASSUME Sound, NEW s \in Slots,
         \/ Claim \/ PublishEntry \/ NoteAccepted \/ Distribute \/ NoteConnected \/ AnswerFails
         \/ UNCHANGED conn
         \/ \E w \in Workers : ConnectFails(w)
  PROVE  Keeps(s)
<1>1. conn \in [Slots -> Entries] /\ conn[s] \in Entries
  BY DEF Sound, TableOK
<1>2. ASSUME NEW t, ClaimSlot(t) PROVE Keeps(s)
  BY <1>1, <1>2 DEF ClaimSlot, Unused, Keeps
<1>3. CASE NoteAccepted \/ NoteConnected
  BY <1>1, <1>3 DEF NoteAccepted, NoteConnected, Keeps, Entries
<1>4. CASE Distribute
  BY <1>1, <1>4 DEF Distribute, Keeps, Entries
<1>5. ASSUME NEW t, conn' = Released(conn, {t}, conn[t].state) PROVE Keeps(s)
  BY <1>1, <1>5, ReleasedFields DEF Keeps
<1>6. CASE AnswerFails \/ \E w \in Workers : ConnectFails(w)
  BY <1>5, <1>6 DEF AnswerFails, ConnectFails, Refuse
<1> QED BY <1>2, <1>3, <1>4, <1>6 DEF Claim, PublishEntry, Keeps

LEMMA WorkerKeeps ==
  ASSUME Sound, NEW s \in Slots, NEW w \in Workers,
         NoteTaken(w) \/ TakeUpstream(w) \/ ReportClosed(w) \/ \E t \in Slots : Finish(w, t) \/ Fail(w, t)
  PROVE  Keeps(s)
<1>1. conn \in [Slots -> Entries] /\ conn[s] \in Entries
  BY DEF Sound, TableOK
<1>2. \A t \in Slots : Owned(conn[t], w) \in Entries /\ Owned(conn[t], w).state = conn[t].state
  BY <1>1 DEF Owned, Entries
<1>3. ASSUME NEW t, NEW e, conn' = [conn EXCEPT ![t] = e],
             t \in Slots => e.state = conn[t].state \/ e.state # "UNUSED"
      PROVE  Keeps(s)
  BY <1>1, <1>3 DEF Keeps
<1>4. CASE NoteTaken(w)
  <2> DEFINE t == worker[w].slot
             mine == [Owned(conn[t], w) EXCEPT !.wdown = worker[w].arg,
                       !.state = IF worker[w].at = "accepted" THEN "CONNECTING" ELSE @]
  <2>1. t \in Slots
    BY <1>4, Places DEF NoteTaken
  <2>2. mine.state = conn[t].state \/ mine.state # "UNUSED"
    <3> HIDE DEF t
    <3> QED BY <1>2, <2>1 DEF Entries
  <2>3. conn' = [conn EXCEPT ![t] = Owned(conn[t], w)] \/ conn' = [conn EXCEPT ![t] = mine]
    BY <1>1, <1>4, <2>1 DEF NoteTaken
  <2> HIDE DEF mine, t
  <2> QED BY <1>2, <1>3, <2>1, <2>2, <2>3
<1>5. CASE TakeUpstream(w)
  <2> DEFINE m == Head(toWorker[w])
             t == m.slot
             mine == IF m.action = "connected"
                     THEN [conn[t] EXCEPT !.wup = m.fd,
                            !.state = IF conn[t].wdown = None THEN @ ELSE "POLL"]
                     ELSE [Owned(conn[t], w) EXCEPT !.wup = m.fd]
  <2>1. t \in Slots
    BY <1>5, Answers DEF TakeUpstream
  <2>2. mine.state = conn[t].state \/ mine.state # "UNUSED"
    <3> HIDE DEF m, t
    <3>1. conn[t] \in Entries
      BY <1>1, <2>1
    <3> QED BY <1>2, <2>1, <3>1 DEF Entries
  <2>3. \E e \in {mine, Owned(conn[t], w), conn[t]} : conn' = [conn EXCEPT ![t] = e]
    BY <1>5 DEF TakeUpstream
  <2> HIDE DEF mine, t
  <2> QED BY <1>2, <1>3, <2>1, <2>2, <2>3
<1>6. CASE ReportClosed(w)
  <2> DEFINE t == worker[w].slot
             e == [conn[t] EXCEPT !.wdown = None, !.wup = None]
  <2>1. t \in Slots => e.state = conn[t].state
    <3> HIDE DEF t
    <3> QED BY <1>1 DEF Entries
  <2>2. conn' = [conn EXCEPT ![t] = e]
    BY <1>6 DEF ReportClosed
  <2> HIDE DEF e, t
  <2> QED BY <1>3, <2>1, <2>2
<1>7. ASSUME NEW t \in Slots, NEW state \in {"CLOSING", "ERROR"}, conn' = [conn EXCEPT ![t].state = state]
      PROVE  Keeps(s)
  <2>1. conn[t] \in Entries
    BY <1>1
  <2> QED BY <1>1, <1>7, <2>1 DEF Keeps, Entries
<1>8. CASE \E t \in Slots : Finish(w, t) \/ Fail(w, t)
  BY <1>7, <1>8 DEF Finish, Fail
<1> QED BY <1>4, <1>5, <1>6, <1>8

(* And the others. *)
LEMMA RefusalGiven ==
  ASSUME Sound, ToldOnce, \A t \in Slots : OneHand(t), NEW w \in Workers, TakeRefusal(w), NEW s \in Slots
  PROVE  Keeps(s) \/ Given(s)
<1>1. PICK t \in Slots : t = Head(toWorker[w]).slot
  BY Answers DEF TakeRefusal
<1>2. CASE s = t
  <2>1. s \in SlotsOf(toWorker[w]) /\ OneHand(s)
    BY <1>1, <1>2, AnswerEffect DEF TakeRefusal
  <2>2. Mine(w, s) /\ Nobody(s) /\ s \notin polled[w]
    BY <2>1 DEF OneHand, Telling
  <2>3. \A v \in Workers : s \notin polled[v]
    BY <2>1, <2>2 DEF OneHand, Serving, Mine, Nobody
  <2> QED BY <2>3 DEF TakeRefusal, Forgotten, Given, Sound, WorkersOK
<1>3. CASE s # t
  BY <1>1, <1>3 DEF TakeRefusal, Keeps, Sound, TableOK
<1> QED BY <1>2, <1>3

LEMMA CloseGiven ==
  ASSUME Sound, \A t \in Slots : OneHand(t), NEW w \in Workers, Close(w), NEW s \in Slots
  PROVE  Keeps(s) \/ Given(s)
<1>1. PICK t \in Slots : t = Head(toListener[w]).slot
  BY Receives DEF Close
<1>2. /\ UNCHANGED polled
      /\ conn' = conn \/ (Over(conn[t]) /\ conn' = Released(conn, {t}, "UNUSED"))
  BY <1>1 DEF Close
<1>3. CASE conn' = conn
  BY <1>3 DEF Keeps
<1>4. CASE Over(conn[t]) /\ conn' = Released(conn, {t}, "UNUSED")
  <2>1. CASE s = t
    BY <1>2, <1>4, <2>1, OverGiven
  <2>2. CASE s # t
    BY <1>4, <2>2, ReleasedFields DEF Keeps, Sound, TableOK
  <2> QED BY <2>1, <2>2
<1> QED BY <1>2, <1>3, <1>4

LEMMA RecoveryGiven ==
  ASSUME Sound, \A t \in Slots : OneHand(t), Restart \/ TakeOver, NEW s \in Slots
  PROVE  Keeps(s) \/ Given(s)
<1>1. CASE Over(conn[s])
  <2>1. \A w \in Workers : polled'[w] \subseteq polled[w]
    BY DEF Restart, TakeOver
  <2> QED BY <1>1, <2>1, OverGiven
<1>2. CASE ~Over(conn[s])
  <2> DEFINE C0 == [t \in Slots |-> [conn[t] EXCEPT !.pid = None]]
  <2>1. /\ C0 \in [Slots -> Entries] /\ \A t \in Slots : C0[t].state = conn[t].state
        /\ conn \in [Slots -> Entries]
    BY DEF Sound, TableOK, Entries
  <2>2. Recover(C0) \/ Recover(conn)
    BY DEF Restart, TakeOver
  <2> HIDE DEF C0
  <2>3. conn'[s].state = conn[s].state
    BY <1>2, <2>1, <2>2, RecoverEffect
  <2> QED BY <2>3 DEF Keeps
<1> QED BY <1>1, <1>2

LEMMA SlotGiven ==
  ASSUME Sound, Orderly, ~spoiled, [Next]_vars, NEW s \in Slots
  PROVE  Keeps(s) \/ Given(s)
<1>0. ToldOnce /\ \A t \in Slots : OneHand(t)
  BY DEF Orderly
<1>1. CASE Claim \/ AppendEntry \/ Adopt \/ TakeOver \/ ActiveFails
  BY <1>0, <1>1, ListenerKeeps, RecoveryGiven DEF AppendEntry, Adopt, ActiveFails
<1>2. CASE Continue
  BY <1>0, <1>2, ListenerKeeps, RecoveryGiven
     DEF Continue, Accept, AnnounceAccepted, AnswerConnected, TellRefused
<1>3. ASSUME NEW w \in Workers, Handle(w)
      PROVE  Keeps(s) \/ Given(s)
  BY <1>0, <1>3, ListenerKeeps, CloseGiven DEF Handle, Connect, PassUpstream, IpcEof
<1>4. ASSUME NEW w \in Workers, WorkerStep(w) \/ WorkerFails(w) \/ \E t \in Slots : Fail(w, t)
      PROVE  Keeps(s) \/ Given(s)
  BY <1>0, <1>4, ListenerKeeps, WorkerKeeps, RefusalGiven DEF WorkerStep, Take, Ask, WorkerFails
<1>5. CASE UNCHANGED vars
  BY <1>5, ListenerKeeps DEF vars
<1> QED BY <1>1, <1>2, <1>3, <1>4, <1>5 DEF Next

(* As long as no history is spoiled, a slot is given up only when no       *)
(* worker serves its sockets any more, or one that is closing them.        *)
THEOREM NoneServedIsReleased == Spec => ReleasedWhenDone
<1>1. Init => Orderly
  BY OrderlyBase
<1>2. Sound /\ Orderly /\ [Next]_vars => Orderly'
  BY OrderlyStep
<1>3. Sound /\ Orderly /\ [Next]_vars =>
        [~spoiled => \A s \in Slots : GivesUp(s) =>
           \A w \in Workers : s \in polled'[w] => worker[w].at \in {"closing", "error"}]_vars
  BY SlotGiven DEF Keeps, Given, GivesUp, Leaving
<1> QED BY <1>1, <1>2, <1>3, Invariance, PTL DEF Spec, ReleasedWhenDone

-------------------------------------------------------------------------------
(* Whose descriptors they are.  Where a slot is in somebody's hand, the    *)
(* descriptors on their way and those of the worker are the listener's.    *)
Fds(q, s) == {q[k].fd : k \in {k \in DOMAIN q : q[k].slot = s}}
Paired(s) == conn[s].down # None /\ conn[s].wdown = conn[s].down

Offered(s) == \A fd \in Fds(broadcast, s) : fd \in {None, conn[s].down}
Holding(s) == \A w \in Workers : worker[w].slot = s =>
  /\ worker[w].at \in {"accepted", "orphan_down"} => worker[w].arg # None /\ worker[w].arg = conn[s].down
  /\ worker[w].at \in {"connect", "orphan_up"} => Paired(s)
Wanted(s) == \A w \in Workers : s \in Questions(toListener[w]) => Paired(s)
Reaching(s) ==
  active.at \in {"connected", "answer", "refuse"} /\ active.slot = s =>
    /\ active.arg \in Workers
    /\ active.at # "refuse" => Paired(s)
    /\ active.at = "answer" => conn[s].up = Upstream
Handed(s) == \A w \in Workers : \A fd \in Fds(toWorker[w], s) :
  fd # None => Paired(s) /\ fd = conn[s].up
Registered(s) == \A w \in Workers : s \in polled[w] /\ worker[w].slot # s =>
  Paired(s) /\ conn[s].up # None /\ conn[s].wup = conn[s].up

(* A slot that was recovered has its descriptor of upstream: the assertion *)
(* of the adoption only fails in a history that is spoiled.                *)
Opened(s) == conn[s].state \in {"CONNECTING", "POLL"}
Recovered(s) == conn[s].pid = None /\ Opened(s) => conn[s].up # None
Adoptable(s) ==
  Adopting(s) => \/ active.arg = "ACCEPTING"
                 \/ active.arg \in {"CONNECTING", "POLL"} /\ conn[s].up # None

Fits(s) ==
  /\ Offered(s) /\ Holding(s) /\ Wanted(s) /\ Reaching(s) /\ Handed(s) /\ Registered(s)
  /\ Recovered(s) /\ Adoptable(s)

Fitting == spoiled \/ \A s \in Slots : Fits(s)

LEMMA FittingBase == Init => Fitting
<1> SUFFICES ASSUME Init, NEW s \in Slots PROVE Fits(s)
  BY DEF Fitting
<1>1. /\ Fds(broadcast, s) = {} /\ s # 0 /\ active = Loop /\ conn[s].state = "UNUSED"
      /\ \A w \in Workers : /\ Fds(toWorker[w], s) = {} /\ Questions(toListener[w]) = {}
                            /\ worker[w] = Idle /\ polled[w] = {}
  BY LifecycleAssumption DEF Init, Fds, Questions, Slots, Unused
<1> QED BY <1>1 DEF Fits, Offered, Holding, Wanted, Reaching, Handed, Registered, Recovered, Adoptable,
     Opened, Adopting, Loop, Idle, At

LEMMA SocketsRight ==
  ASSUME Sound, Orderly, Fitting
  PROVE  RightSockets
<1> SUFFICES ASSUME ~spoiled, NEW w \in Workers, NEW s \in polled[w], worker[w].slot # s
             PROVE  Paired(s) /\ conn[s].up # None /\ conn[s].wup = conn[s].up /\ conn[s].pid = w
  BY DEF RightSockets, Paired
<1>1. s \in Slots
  BY Places DEF Sound, WorkersOK
<1>2. OneHand(s) /\ Fits(s)
  BY <1>1 DEF Orderly, Fitting
<1> QED BY <1>2 DEF OneHand, Serving, Mine, Fits, Registered

(* A slot for which nothing that matters is new. *)
SameFds(s) ==
  /\ conn[s].down # None => conn'[s].down = conn[s].down
  /\ conn[s].up # None => conn'[s].up = conn[s].up
  /\ conn'[s].wdown = conn[s].wdown /\ conn'[s].wup = conn[s].wup
  /\ conn'[s].pid = None /\ Opened(s)' => conn[s].pid = None /\ Opened(s)
  /\ Fds(broadcast', s) \subseteq Fds(broadcast, s)
  /\ \A w \in Workers :
       /\ worker'[w].slot = s => worker'[w] = worker[w]
       /\ s \in polled'[w] => s \in polled[w] /\ (worker[w].slot = s => worker'[w].slot = s)
       /\ s \in Questions(toListener'[w]) => s \in Questions(toListener[w])
       /\ Fds(toWorker'[w], s) \subseteq Fds(toWorker[w], s)

(* A listener that has nothing new to do with it, either. *)
Same(s) ==
  SameFds(s) /\ (active' = active \/ active' \in {Loop, Down} \/ active'.slot # s)

LEMMA SameFits ==
  ASSUME NEW s \in Slots, Fits(s), SameFds(s), Reaching(s)', Adoptable(s)'
  PROVE  Fits(s)'
<1> USE DEF SameFds
<1>1. Paired(s) => Paired(s)'
  BY DEF Paired
<1>2. Offered(s)' /\ Recovered(s)'
  BY DEF Fits, Offered, Recovered
<1>3. Holding(s)'
  BY <1>1 DEF Fits, Holding
<1>4. Wanted(s)' /\ Handed(s)'
  BY <1>1 DEF Fits, Wanted, Handed
<1>5. Registered(s)'
  BY <1>1 DEF Fits, Registered
<1> QED BY <1>2, <1>3, <1>4, <1>5 DEF Fits

LEMMA StaysFit ==
  ASSUME NEW s \in Slots, Fits(s), Same(s)
  PROVE  Fits(s)'
<1>1. Paired(s) => Paired(s)'
  BY DEF Same, SameFds, Paired
<1>2. CASE active' = active
  <2>1. Reaching(s)'
    BY <1>1, <1>2, LifecycleAssumption DEF Same, SameFds, Fits, Reaching, Upstream, None
  <2>2. Adoptable(s)'
    BY <1>2 DEF Same, SameFds, Fits, Adoptable, Adopting
  <2> QED BY <2>1, <2>2, SameFits DEF Same
<1>3. CASE active' \in {Loop, Down} \/ active'.slot # s
  <2>1. Reaching(s)' /\ Adoptable(s)'
    BY <1>3 DEF Reaching, Adoptable, Adopting, Loop, Down, At
  <2> QED BY <2>1, SameFits DEF Same
<1> QED BY <1>2, <1>3 DEF Same

LEMMA QuietFitting ==
  ASSUME Fitting, spoiled => spoiled', ~spoiled' => \A s \in Slots : Same(s)
  PROVE  Fitting'
BY StaysFit DEF Fitting

LEMMA OneSlotFitting ==
  ASSUME Fitting, spoiled => spoiled', NEW s \in Slots,
         ~spoiled' => Fits(s)' /\ \A t \in Slots \ {s} : Same(t)
  PROVE  Fitting'
BY StaysFit DEF Fitting

(* As a slot is in one hand only, the descriptors there are all there is   *)
(* to a slot.                                                              *)
LEMMA NoFds ==
  ASSUME NEW q, NEW s, s \notin SlotsOf(q)
  PROVE  Fds(q, s) = {}
BY DEF Fds, SlotsOf

LEMMA ReachedBy ==
  ASSUME NEW s \in Slots, Fits(s), active' = active, conn[s].up # None => conn'[s].up = conn[s].up
  PROVE  /\ Adoptable(s)'
         /\ Reaching(s)' \/ \E w \in Workers : Answering(w, s)'
BY DEF Fits, Adoptable, Adopting, Reaching, Answering

LEMMA Rests ==
  ASSUME NEW s \in Slots, active' \in {Loop, Down}
  PROVE  Reaching(s)' /\ Adoptable(s)'
BY DEF Reaching, Adoptable, Adopting, Loop, Down, At

LEMMA NotLiveFits ==
  ASSUME NEW s \in Slots, OneHand(s)', ~Live(s)',
         \/ active' \in {Loop, Down}
         \/ active' = active /\ Fits(s) /\ conn'[s].up = conn[s].up
  PROVE  Fits(s)'
<1>1. /\ s \notin SlotsOf(broadcast') /\ \A w \in Workers : ~Mine(w, s)'
  BY DEF OneHand, Announcing, Mine
<1>2. \A w \in Workers : /\ s \notin Questions(toListener'[w]) /\ s \notin SlotsOf(toWorker'[w])
                         /\ ~Answering(w, s)'
  BY <1>1 DEF OneHand, Asking, Telling, InAnswer
<1>3. Reaching(s)' /\ Adoptable(s)'
  BY <1>2, ReachedBy, Rests
<1>4. Offered(s)' /\ Handed(s)' /\ Wanted(s)'
  BY <1>1, <1>2, NoFds DEF Offered, Handed, Wanted
<1>5. Holding(s)' /\ Registered(s)'
  BY <1>1 DEF OneHand, Taking, Serving, Holding, Registered
<1>6. Recovered(s)'
  BY DEF Recovered, Opened, Live
<1> QED BY <1>3, <1>4, <1>5, <1>6 DEF Fits

LEMMA OpeningFits ==
  ASSUME NEW s \in Slots, OneHand(s)', Opening(s)', Recovered(s)'
  PROVE  Fits(s)'
<1>1. /\ s \notin SlotsOf(broadcast') /\ \A w \in Workers : ~Mine(w, s)'
      /\ \A w \in Workers : worker'[w].slot = s => worker'[w].at \in {"closing", "error"}
  BY LifecycleAssumption DEF OneHand, InOpening, Mine, Leaving
<1>2. \A w \in Workers : s \notin Questions(toListener'[w]) /\ s \notin SlotsOf(toWorker'[w])
  BY <1>1 DEF OneHand, Asking, Telling
<1>3. Reaching(s)' /\ Adoptable(s)'
  BY DEF Reaching, Adoptable, Adopting, Opening
<1>4. Offered(s)' /\ Handed(s)' /\ Wanted(s)'
  BY <1>1, <1>2, NoFds DEF Offered, Handed, Wanted
<1>5. Holding(s)' /\ Registered(s)'
  BY <1>1 DEF OneHand, Serving, Holding, Registered
<1> QED BY <1>3, <1>4, <1>5 DEF Fits

LEMMA AnnouncedFits ==
  ASSUME NEW s \in Slots, OneHand(s)', s \in SlotsOf(broadcast'), Offered(s)', Recovered(s)',
         active' \in {Loop, Down}
  PROVE  Fits(s)'
<1>1. Nobody(s)' /\ \A w \in Workers : ~Mine(w, s)'
  BY LifecycleAssumption DEF OneHand, Announcing, Mine
<1>2. \A w \in Workers : s \notin Questions(toListener'[w]) /\ s \notin SlotsOf(toWorker'[w])
  BY <1>1 DEF OneHand, Asking, Telling
<1>3. Handed(s)' /\ Wanted(s)'
  BY <1>2, NoFds DEF Handed, Wanted
<1>4. Holding(s)' /\ Registered(s)'
  BY <1>1 DEF OneHand, Serving, Holding, Registered, Nobody
<1> QED BY <1>3, <1>4, Rests DEF Fits

LEMMA TakenFits ==
  ASSUME NEW s \in Slots, OneHand(s)', NEW w \in Workers, worker'[w].slot = s,
         worker'[w].at \in {"accepted", "orphan_down", "connect", "orphan_up"},
         Holding(s)', Recovered(s)', Fits(s), active' = active, conn'[s].up = conn[s].up
  PROVE  Fits(s)'
<1>1. ~Nobody(s)'
  BY DEF Nobody
<1>2. /\ s \notin SlotsOf(broadcast')
      /\ \A v \in Workers : /\ s \notin Questions(toListener'[v]) /\ s \notin SlotsOf(toWorker'[v])
                            /\ ~Answering(v, s)' /\ (s \in polled'[v] => worker'[v].slot = s)
  BY <1>1 DEF OneHand, Announcing, Asking, Telling, InAnswer, Serving
<1>3. Reaching(s)' /\ Adoptable(s)'
  BY <1>2, ReachedBy
<1>4. Offered(s)' /\ Handed(s)' /\ Wanted(s)' /\ Registered(s)'
  BY <1>2, NoFds DEF Offered, Handed, Wanted, Registered
<1> QED BY <1>3, <1>4 DEF Fits

(* What is a worker's is not offered, and in no other worker's hand.       *)
LEMMA OnlyMine ==
  ASSUME NEW s \in Slots, OneHand(s)', NEW w \in Workers, Mine(w, s)', Nobody(s)'
  PROVE  /\ Offered(s)' /\ Holding(s)' /\ Recovered(s)'
         /\ \A v \in Workers : v # w => /\ s \notin Questions(toListener'[v])
                                        /\ s \notin SlotsOf(toWorker'[v]) /\ ~Answering(v, s)'
                                        /\ s \notin polled'[v]
<1>1. conn'[s].pid = w /\ s \notin SlotsOf(broadcast')
  BY LifecycleAssumption DEF OneHand, Announcing, Mine
<1>2. Offered(s)' /\ Holding(s)' /\ Recovered(s)'
  BY <1>1, NoFds, LifecycleAssumption DEF Offered, Holding, Recovered, Nobody
<1>3. \A v \in Workers : v # w => ~Mine(v, s)'
  BY <1>1 DEF Mine
<1> QED BY <1>2, <1>3 DEF OneHand, Asking, Telling, InAnswer, Serving, Nobody

LEMMA AnsweringFits ==
  ASSUME NEW s \in Slots, OneHand(s)', NEW w \in Workers, Answering(w, s)', Reaching(s)'
  PROVE  Fits(s)'
<1>1. Mine(w, s)' /\ Nobody(s)' /\ s \notin polled'[w]
  BY DEF OneHand, InAnswer
<1>2. \A v \in Workers : /\ s \notin Questions(toListener'[v]) /\ s \notin SlotsOf(toWorker'[v])
                         /\ s \notin polled'[v]
  BY <1>1, OnlyMine DEF OneHand, Asking, Telling
<1>3. Handed(s)' /\ Wanted(s)' /\ Registered(s)'
  BY <1>2, NoFds DEF Handed, Wanted, Registered
<1>4. Adoptable(s)'
  BY DEF Adoptable, Adopting, Answering
<1> QED BY <1>1, <1>3, <1>4, OnlyMine DEF Fits

LEMMA AskingFits ==
  ASSUME NEW s \in Slots, OneHand(s)', NEW w \in Workers, s \in Questions(toListener'[w]), Paired(s)',
         Fits(s), active' = active, conn'[s].up = conn[s].up
  PROVE  Fits(s)'
<1>1. Mine(w, s)' /\ Nobody(s)' /\ s \notin SlotsOf(toWorker'[w]) /\ ~Answering(w, s)' /\ s \notin polled'[w]
  BY DEF OneHand, Asking
<1>2. \A v \in Workers : s \notin SlotsOf(toWorker'[v]) /\ ~Answering(v, s)' /\ s \notin polled'[v]
  BY <1>1, OnlyMine
<1>3. Reaching(s)' /\ Adoptable(s)'
  BY <1>2, ReachedBy
<1>4. Handed(s)' /\ Wanted(s)' /\ Registered(s)'
  BY <1>2, NoFds DEF Handed, Wanted, Registered
<1> QED BY <1>1, <1>3, <1>4, OnlyMine DEF Fits

LEMMA ToldFits ==
  ASSUME NEW s \in Slots, OneHand(s)', NEW w \in Workers, s \in SlotsOf(toWorker'[w]), Handed(s)',
         active' \in {Loop, Down}
  PROVE  Fits(s)'
<1>1. Mine(w, s)' /\ Nobody(s)' /\ s \notin polled'[w]
  BY DEF OneHand, Telling
<1>2. \A v \in Workers : s \notin Questions(toListener'[v]) /\ s \notin polled'[v]
  BY <1>1, OnlyMine DEF OneHand, Asking
<1>3. Wanted(s)' /\ Registered(s)'
  BY <1>2 DEF Wanted, Registered
<1> QED BY <1>1, <1>3, OnlyMine, Rests DEF Fits

LEMMA ServingFits ==
  ASSUME NEW s \in Slots, OneHand(s)', NEW w \in Workers, s \in polled'[w], worker'[w].slot # s,
         Paired(s)', conn'[s].up # None, conn'[s].wup = conn'[s].up,
         Fits(s), active' = active, conn'[s].up = conn[s].up
  PROVE  Fits(s)'
<1>1. Mine(w, s)' /\ Nobody(s)'
  BY DEF OneHand, Serving
<1>2. \A v \in Workers : /\ s \notin Questions(toListener'[v]) /\ s \notin SlotsOf(toWorker'[v])
                         /\ ~Answering(v, s)'
  BY <1>1, OnlyMine DEF OneHand, Asking, Telling, InAnswer
<1>3. Reaching(s)' /\ Adoptable(s)'
  BY <1>2, ReachedBy
<1>4. Handed(s)' /\ Wanted(s)' /\ Registered(s)'
  BY <1>2, NoFds DEF Handed, Wanted, Registered
<1> QED BY <1>1, <1>3, <1>4, OnlyMine DEF Fits

(* Descriptors that are queued and taken.                                  *)
LEMMA QueuedFds ==
  ASSUME NEW A, NEW n, NEW q \in Seq(Letters(A, n)), NEW action, NEW s, NEW fd, NEW t
  PROVE  Fds(Append(q, Msg(action, s, fd)), t) \subseteq Fds(q, t) \cup (IF t = s THEN {fd} ELSE {})
<1> DEFINE m == Msg(action, s, fd)
           r == Append(q, m)
<1>1. m.fd = fd /\ m.slot = s
  BY DEF Msg
<1> HIDE DEF m
<1>2. /\ DOMAIN r = 1 .. Len(q) + 1 /\ DOMAIN q = 1 .. Len(q) /\ Len(q) \in Nat
      /\ \A k \in 1 .. Len(q) : r[k] = q[k]
      /\ r[Len(q) + 1] = m
  OBVIOUS
<1> HIDE DEF r
<1>3. \A k \in DOMAIN r : (k \in DOMAIN q /\ r[k] = q[k]) \/ r[k] = m
  <2> TAKE k \in DOMAIN r
  <2>1. k \in 1 .. Len(q) \/ k = Len(q) + 1
    BY <1>2, LastIndex
  <2> QED BY <1>2, <2>1
<1>4. Fds(r, t) \subseteq Fds(q, t) \cup (IF t = s THEN {fd} ELSE {})
  BY <1>1, <1>3 DEF Fds
<1> QED BY <1>4 DEF r, m

LEMMA TakenFds ==
  ASSUME NEW A, NEW n, NEW q \in Seq(Letters(A, n)), q # <<>>
  PROVE  /\ Head(q).fd \in Fds(q, Head(q).slot)
         /\ \A t : Fds(Tail(q), t) \subseteq Fds(q, t)
<1> DEFINE r == Tail(q)
<1>1. /\ DOMAIN q = 1 .. Len(q) /\ Len(q) \in Nat /\ Len(q) >= 1 /\ Head(q) = q[1]
      /\ DOMAIN r = 1 .. Len(q) - 1
      /\ \A k \in 1 .. Len(q) - 1 : r[k] = q[k + 1]
  OBVIOUS
<1> HIDE DEF r
<1>2. 1 \in DOMAIN q /\ \A k \in DOMAIN r : k + 1 \in DOMAIN q /\ r[k] = q[k + 1]
  BY <1>1
<1>3. Head(q).fd \in Fds(q, Head(q).slot) /\ \A t : Fds(r, t) \subseteq Fds(q, t)
  BY <1>1, <1>2 DEF Fds
<1> QED BY <1>3 DEF r

LEMMA ToldFds ==
  ASSUME Sound, NEW w, NEW action, NEW s, NEW fd, Tell(w, action, s, fd) \/ UNCHANGED toWorker
  PROVE  \A v \in Workers, t \in Slots :
           Fds(toWorker'[v], t) \subseteq Fds(toWorker[v], t) \cup (IF t = s /\ v = w THEN {fd} ELSE {})
<1> SUFFICES ASSUME Tell(w, action, s, fd), NEW v \in Workers, NEW t \in Slots
             PROVE  Fds(toWorker'[v], t) \subseteq
                      Fds(toWorker[v], t) \cup (IF t = s /\ v = w THEN {fd} ELSE {})
  OBVIOUS
<1>1. toWorker[v] \in Seq(Letters(ToWorkers, size)) /\ v \in DOMAIN toWorker
  BY DEF Sound, QueuesOK
<1>2. CASE v = w
  <2>1. toWorker'[v] = Append(toWorker[v], Msg(action, s, fd))
    BY <1>1, <1>2 DEF Tell
  <2> QED BY <1>1, <1>2, <2>1, QueuedFds
<1>3. CASE v # w
  <2>1. toWorker'[v] = toWorker[v]
    BY <1>1, <1>3 DEF Tell
  <2> QED BY <1>3, <2>1
<1> QED BY <1>2, <1>3

LEMMA AnswerFds ==
  ASSUME Sound, NEW w \in Workers, NEW actions, Answered(w, actions)
  PROVE  /\ Head(toWorker[w]).fd \in Fds(toWorker[w], Head(toWorker[w]).slot)
         /\ \A v \in Workers, t \in Slots : Fds(toWorker'[v], t) \subseteq Fds(toWorker[v], t)
<1>1. \A v \in Workers : /\ toWorker[v] \in Seq(Letters(ToWorkers, size))
                         /\ toWorker'[v] = IF v = w THEN Tail(toWorker[v]) ELSE toWorker[v]
  BY DEF Sound, QueuesOK, Answered
<1>2. toWorker[w] # <<>>
  BY DEF Answered
<1> QED BY <1>1, <1>2, TakenFds

LEMMA AnnouncedFds ==
  ASSUME Sound, NEW action, NEW s, Announce(action, s)
  PROVE  \A t \in Slots :
           Fds(broadcast', t) \subseteq Fds(broadcast, t) \cup (IF t = s THEN {conn[s].down} ELSE {})
<1>1. broadcast \in Seq(Letters(FromActive, size)) /\ broadcast' = Append(broadcast, Msg(action, s, conn[s].down))
  BY DEF Sound, QueuesOK, Announce
<1> QED BY <1>1, QueuedFds

-------------------------------------------------------------------------------
(* The actions keep the descriptors right.                                 *)
LEMMA QuietListenerFitting ==
  ASSUME Sound, Orderly, Fitting,
         ActiveFails \/ AppendEntry \/ Accept \/ Adopt \/ UNCHANGED vars \/ \E w \in Workers : IpcEof(w)
  PROVE  Fitting'
<1>1. UNCHANGED <<conn, worker, polled, broadcast, toWorker, toListener, spoiled>>
  BY DEF ActiveFails, AppendEntry, Accept, Adopt, IpcEof, vars, queues
<1>2. \A s \in Slots : SameFds(s)
  BY <1>1 DEF SameFds, Opened
<1>3. CASE ActiveFails \/ UNCHANGED vars \/ \E w \in Workers : IpcEof(w)
  <2>1. active' = active \/ active' \in {Loop, Down}
    BY <1>3 DEF ActiveFails, IpcEof, vars
  <2> QED BY <1>1, <1>2, <2>1, QuietFitting DEF Same
<1>4. ASSUME NEW s \in Slots, Fits(s), active'.at \in {"append", "accepted"} PROVE Fits(s)'
  <2>1. Reaching(s)' /\ Adoptable(s)'
    BY <1>4 DEF Reaching, Adoptable, Adopting
  <2> QED BY <1>2, <1>4, <2>1, SameFits
<1>5. CASE AppendEntry \/ Accept
  <2>1. active'.at \in {"append", "accepted"}
    BY <1>5 DEF AppendEntry, Accept, At
  <2> QED BY <1>1, <1>4, <2>1 DEF Fitting
<1>6. CASE Adopt
  <2> DEFINE rest == {s \in Orphans : s >= next}
  <2>1. CASE rest = {}
    <3>1. active' = active
      BY <1>6, <2>1 DEF Adopt
    <3> QED BY <1>1, <1>2, <3>1, QuietFitting DEF Same
  <2>2. CASE rest # {}
    <3>1. rest \in SUBSET Slots
      BY DEF Orphans
    <3>2. PICK s \in Slots : s = Min(rest) /\ conn[s].state # "UNUSED" /\ conn[s].pid = None
      BY <2>2, <3>1, LeastSlot DEF Orphans
    <3>3. active' = At("adopt", s, conn[s].state)
      BY <1>6, <2>2, <3>2 DEF Adopt
    <3> HIDE DEF rest
    <3>4. \A t \in Slots \ {s} : Same(t)
      BY <1>2, <3>3 DEF Same, At
    <3>5. ASSUME ~spoiled PROVE Fits(s)'
      <4>0. Live(s)
        BY <3>2, <3>5, EntryFields DEF Orderly, OneHand, Ending, Over, Live, States
      <4>1. Fits(s)
        BY <3>5 DEF Fitting
      <4>2. Adoptable(s)'
        BY <1>1, <3>2, <3>3, <4>0, <4>1 DEF Fits, Recovered, Opened, Live, Adoptable, At
      <4>3. Reaching(s)'
        BY <3>3 DEF Reaching, At
      <4> QED BY <1>2, <4>1, <4>2, <4>3, SameFits
    <3> QED BY <1>1, <3>2, <3>4, <3>5, OneSlotFitting DEF Fitting
  <2> QED BY <2>1, <2>2
<1> QED BY <1>3, <1>5, <1>6

LEMMA ClaimSlotFitting ==
  ASSUME Sound, Orderly', Fitting, NEW s \in Slots, ClaimSlot(s)
  PROVE  Fitting'
<1>1. /\ UNCHANGED <<worker, polled, broadcast, toWorker, toListener, spoiled>>
      /\ active' = At("accept", s, None)
  BY DEF ClaimSlot, queues
<1>2. conn'[s].state = "ACCEPTING" /\ \A t \in Slots \ {s} : conn'[t] = conn[t]
  BY DEF ClaimSlot, Unused, Sound, TableOK
<1>3. \A t \in Slots \ {s} : Same(t)
  BY <1>1, <1>2 DEF Same, SameFds, Opened, At
<1>4. Opening(s)' /\ Recovered(s)'
  BY <1>1, <1>2 DEF Opening, Recovered, Opened, At
<1>5. ~spoiled => Fits(s)'
  BY <1>1, <1>4, OpeningFits DEF Orderly
<1> QED BY <1>1, <1>3, <1>5, OneSlotFitting

LEMMA ClaimFitting ==
  ASSUME Sound, Orderly', Fitting, Claim
  PROVE  Fitting'
<1>1. Free \in SUBSET Slots /\ Free # {}
  BY Places DEF Claim, Free
<1>2. Min(Free) \in Slots /\ ClaimSlot(Min(Free))
  BY <1>1, LeastSlot DEF Claim
<1> QED BY <1>2, ClaimSlotFitting

LEMMA PublishEntryFitting ==
  ASSUME Sound, Orderly', Fitting, PublishEntry
  PROVE  Fitting'
<1>1. size \in 0 .. NumSlots /\ file \in 0 .. NumSlots /\ size < file
  BY DEF PublishEntry, Sound, TableOK, ActiveOK, Indices
<1>2. size + 1 \in Slots
  BY <1>1, LifecycleAssumption DEF Slots
<1> QED BY <1>2, ClaimSlotFitting DEF PublishEntry

LEMMA NoteAcceptedFitting ==
  ASSUME Sound, Orderly', Fitting, NoteAccepted
  PROVE  Fitting'
<1>1. PICK s \in Slots : s = active.slot
  BY Places DEF NoteAccepted
<1>2. /\ UNCHANGED <<worker, polled, broadcast, toWorker, toListener, spoiled>>
      /\ active' = At("announce", s, None)
  BY <1>1 DEF NoteAccepted, queues
<1>3. /\ \A t \in Slots \ {s} : conn'[t] = conn[t]
      /\ conn'[s].up = conn[s].up /\ conn'[s].pid = conn[s].pid /\ conn'[s].state = conn[s].state
  BY <1>1, EntryFields DEF NoteAccepted, Sound, TableOK, Entries
<1>4. \A t \in Slots \ {s} : Same(t)
  BY <1>2, <1>3 DEF Same, SameFds, Opened, At
<1>5. Opening(s)' /\ (Recovered(s) => Recovered(s)')
  BY <1>2, <1>3 DEF Opening, Recovered, Opened, At
<1>6. ~spoiled => Fits(s)'
  BY <1>2, <1>5, OpeningFits DEF Orderly, Fitting, Fits
<1> QED BY <1>2, <1>4, <1>6, OneSlotFitting

(* The connection is announced with the descriptor that the slot has.      *)
LEMMA AnnounceFitting ==
  ASSUME Sound, Orderly, Orderly', Fitting, NEW s \in Slots, NEW action, Announce(action, s),
         active' \in {Loop, Down}, UNCHANGED <<worker, polled, toWorker, toListener>>,
         \A t \in Slots \ {s} : conn'[t] = conn[t],
         conn'[s].down = conn[s].down, conn'[s].up = conn[s].up, conn'[s].pid = conn[s].pid,
         Recovered(s) => Recovered(s)'
  PROVE  Fitting'
<1>1. spoiled => spoiled'
  BY DEF Announce
<1> SUFFICES ASSUME ~spoiled'
             PROVE  Fits(s)' /\ \A t \in Slots \ {s} : Same(t)
  BY <1>1, OneSlotFitting
<1>2. ToldOnce /\ Fits(s) /\ OneHand(s)'
  BY <1>1 DEF Orderly, Fitting
<1>3. \A t \in Slots : Fds(broadcast', t) \subseteq Fds(broadcast, t) \cup (IF t = s THEN {conn[s].down} ELSE {})
  BY AnnouncedFds
<1>4. \A t \in Slots \ {s} : Same(t)
  BY <1>3 DEF Same, SameFds, Opened
<1>5. s \in SlotsOf(broadcast')
  BY <1>2, AnnounceEffect
<1>6. Offered(s)' /\ Recovered(s)'
  BY <1>2, <1>3 DEF Fits, Offered, Recovered
<1> QED BY <1>2, <1>4, <1>5, <1>6, AnnouncedFits

LEMMA AnnounceAcceptedFitting ==
  ASSUME Sound, Orderly, Orderly', Fitting, AnnounceAccepted
  PROVE  Fitting'
<1>1. PICK s \in Slots : s = active.slot
  BY Places DEF AnnounceAccepted
<1>2. /\ Announce("accepted", s) /\ active' = Loop
      /\ UNCHANGED <<conn, worker, polled, toWorker, toListener>>
  BY <1>1 DEF AnnounceAccepted
<1>3. Recovered(s) => Recovered(s)'
  BY <1>2 DEF Recovered, Opened
<1> QED BY <1>2, <1>3, AnnounceFitting

LEMMA DistributeFitting ==
  ASSUME Sound, Orderly, Orderly', Fitting, Distribute
  PROVE  Fitting'
<1>1. PICK s \in Slots : s = active.slot /\ Adopting(s)
  BY Places DEF Distribute, Adopting
<1>2. spoiled => spoiled'
  BY <1>1 DEF Distribute, Announce
<1> SUFFICES ASSUME ~spoiled PROVE Fitting'
  BY <1>2 DEF Fitting
<1>3. Fits(s)
  BY DEF Fitting
<1>4. \/ active.arg = "ACCEPTING"
      \/ active.arg \in {"CONNECTING", "POLL"} /\ conn[s].up # None
  BY <1>1, <1>3 DEF Fits, Adoptable
<1>5. /\ UNCHANGED <<worker, polled, toWorker, toListener>> /\ active' = Loop
      /\ \E action \in FromActive : Announce(action, s)
  BY <1>1, <1>4 DEF Distribute, FromActive
<1>6. /\ \A t \in Slots \ {s} : conn'[t] = conn[t]
      /\ conn'[s].down = conn[s].down /\ conn'[s].up = conn[s].up /\ conn'[s].pid = conn[s].pid
      /\ conn'[s].state = IF active.arg = "CONNECTING" THEN "POLL" ELSE conn[s].state
  BY <1>1, EntryFields DEF Distribute, Sound, TableOK, Entries
<1>7. Recovered(s)'
  BY <1>3, <1>4, <1>6 DEF Fits, Recovered, Opened
<1> QED BY <1>5, <1>6, <1>7, AnnounceFitting

(* A question has been received: its answer is about the slot asked for.   *)
LEMMA QuestionFitting ==
  ASSUME Sound, Orderly, Orderly', Fitting, NEW w \in Workers, NEW s \in Slots, Received(w, "connect"),
         s = Head(toListener[w]).slot,
         NEW place \in {"connected", "refuse"}, active' = At(place, s, w),
         place = "connected" => conn'[s] = conn[s],
         \A t \in Slots \ {s} : conn'[t] = conn[t],
         UNCHANGED <<worker, polled, broadcast, toWorker, spoiled>>
  PROVE  Fitting'
<1> SUFFICES ASSUME ~spoiled
             PROVE  Fits(s)' /\ \A t \in Slots \ {s} : Same(t)
  BY OneSlotFitting
<1>1. ToldOnce /\ Fits(s) /\ OneHand(s)'
  BY DEF Orderly, Fitting
<1>2. /\ \A v \in Workers : Questions(toListener'[v]) \subseteq Questions(toListener[v])
      /\ s \in Questions(toListener[w])
  BY <1>1, ReceiveEffect
<1>3. \A t \in Slots \ {s} : Same(t)
  BY <1>2 DEF Same, SameFds, Opened, At
<1>4. Answering(w, s)'
  BY DEF Answering, At
<1>5. Paired(s)
  BY <1>1, <1>2 DEF Fits, Wanted
<1>6. Reaching(s)'
  BY <1>5 DEF Reaching, Paired, At
<1> QED BY <1>1, <1>3, <1>4, <1>6, AnsweringFits

LEMMA ConnectFitting ==
  ASSUME Sound, Orderly, Orderly', Fitting, NEW w \in Workers, Connect(w)
  PROVE  Fitting'
<1>1. PICK s \in Slots : s = Head(toListener[w]).slot
  BY Receives DEF Connect
<1>2. /\ Received(w, "connect") /\ active' = At("connected", s, w)
      /\ UNCHANGED <<conn, worker, polled, broadcast, toWorker, spoiled>>
  BY <1>1 DEF Connect
<1> QED BY <1>1, <1>2, QuestionFitting

LEMMA ConnectFailsFitting ==
  ASSUME Sound, Orderly, Orderly', Fitting, NEW w \in Workers, ConnectFails(w)
  PROVE  Fitting'
<1>1. PICK s \in Slots : s = Head(toListener[w]).slot
  BY Receives DEF ConnectFails
<1>2. /\ Received(w, "connect") /\ active' = At("refuse", s, w)
      /\ conn' = Released(conn, {s}, conn[s].state) /\ conn \in [Slots -> Entries]
      /\ UNCHANGED <<worker, polled, broadcast, toWorker, spoiled>>
  BY <1>1 DEF ConnectFails, Refuse, Sound, TableOK
<1>3. \A t \in Slots \ {s} : conn'[t] = conn[t]
  BY <1>2 DEF Released
<1> QED BY <1>1, <1>2, <1>3, QuestionFitting

(* NoteConnected and the answer that fails: the question stays the same.   *)
LEMMA AnswerFitting ==
  ASSUME Sound, Orderly, Orderly', Fitting, NEW s \in Slots, s = active.slot,
         active.at \in {"connected", "answer"}, active'.at \in {"answer", "refuse"},
         active'.slot = s, active'.arg = active.arg,
         active'.at = "answer" =>
           conn'[s].down = conn[s].down /\ conn'[s].wdown = conn[s].wdown /\ conn'[s].up = Upstream,
         \A t \in Slots \ {s} : conn'[t] = conn[t],
         UNCHANGED <<worker, polled, broadcast, toWorker, toListener, spoiled>>
  PROVE  Fitting'
<1> SUFFICES ASSUME ~spoiled
             PROVE  Fits(s)' /\ \A t \in Slots \ {s} : Same(t)
  BY OneSlotFitting
<1>1. Fits(s) /\ OneHand(s)'
  BY DEF Orderly, Fitting
<1>2. \A t \in Slots \ {s} : Same(t)
  BY DEF Same, SameFds, Opened
<1>3. active.arg \in Workers /\ Paired(s)
  BY <1>1 DEF Fits, Reaching
<1>4. PICK w \in Workers : w = active.arg
  BY <1>3
<1>5. Answering(w, s)'
  BY <1>4 DEF Answering
<1>6. Reaching(s)'
  BY <1>3 DEF Reaching, Paired
<1> QED BY <1>1, <1>2, <1>5, <1>6, AnsweringFits

LEMMA NoteConnectedFitting ==
  ASSUME Sound, Orderly, Orderly', Fitting, NoteConnected
  PROVE  Fitting'
<1>1. PICK s \in Slots : s = active.slot
  BY Places DEF NoteConnected
<1>2. active.at = "connected" /\ active'.at = "answer" /\ active'.slot = s /\ active'.arg = active.arg
  <2>1. active \in ActiveAt(size)
    BY DEF NoteConnected, Sound, ActiveOK, ActiveAway
  <2> QED BY <1>1, <2>1 DEF NoteConnected, ActiveAt
<1>3. /\ conn'[s].down = conn[s].down /\ conn'[s].wdown = conn[s].wdown /\ conn'[s].up = Upstream
      /\ \A t \in Slots \ {s} : conn'[t] = conn[t]
      /\ UNCHANGED <<worker, polled, broadcast, toWorker, toListener, spoiled>>
  BY <1>1, EntryFields DEF NoteConnected, queues, Sound, TableOK, Entries
<1> QED BY <1>1, <1>2, <1>3, AnswerFitting

LEMMA AnswerFailsFitting ==
  ASSUME Sound, Orderly, Orderly', Fitting, AnswerFails
  PROVE  Fitting'
<1>1. PICK s \in Slots : s = active.slot
  BY Places DEF AnswerFails
<1>2. active.at = "answer" /\ active'.at = "refuse" /\ active'.slot = s /\ active'.arg = active.arg
  BY <1>1 DEF AnswerFails, Refuse, At
<1>3. /\ conn' = Released(conn, {s}, conn[s].state) /\ conn \in [Slots -> Entries]
      /\ UNCHANGED <<worker, polled, broadcast, toWorker, toListener, spoiled>>
  BY <1>1 DEF AnswerFails, Refuse, queues, Sound, TableOK
<1>4. \A t \in Slots \ {s} : conn'[t] = conn[t]
  BY <1>3 DEF Released
<1> QED BY <1>1, <1>2, <1>3, <1>4, AnswerFitting

(* The answer goes to the worker with the descriptor of the slot, or with  *)
(* none.                                                                   *)
LEMMA ToldFitting ==
  ASSUME Sound, Orderly, Orderly', Fitting, NEW w \in Workers, NEW s \in Slots,
         NEW action, NEW fd, Tell(w, action, s, fd) \/ UNCHANGED toWorker,
         ~spoiled => fd = None \/ (Paired(s) /\ fd = conn[s].up),
         active' \in {Loop, Down}, UNCHANGED <<conn, worker, polled, broadcast, spoiled>>,
         \A v \in Workers : Questions(toListener'[v]) \subseteq Questions(toListener[v])
  PROVE  Fitting'
<1> SUFFICES ASSUME ~spoiled
             PROVE  Fits(s)' /\ \A t \in Slots \ {s} : Same(t)
  BY OneSlotFitting
<1>1. Fits(s) /\ OneHand(s)'
  BY DEF Orderly, Fitting
<1>2. \A v \in Workers, t \in Slots :
        Fds(toWorker'[v], t) \subseteq Fds(toWorker[v], t) \cup (IF t = s /\ v = w THEN {fd} ELSE {})
  BY ToldFds
<1>3. \A t \in Slots \ {s} : Same(t)
  BY <1>2 DEF Same, SameFds, Opened
<1>4. Handed(s)'
  BY <1>1, <1>2 DEF Fits, Handed, Paired
<1>5. CASE s \in SlotsOf(toWorker'[w])
  BY <1>1, <1>3, <1>4, <1>5, ToldFits
<1>6. CASE s \notin SlotsOf(toWorker'[w])
  <2>1. Fds(toWorker'[w], s) = {}
    BY <1>6, NoFds
  <2>2. Same(s)
    BY <1>2, <2>1 DEF Same, SameFds, Opened
  <2> QED BY <1>1, <1>3, <2>2, StaysFit
<1> QED BY <1>5, <1>6

LEMMA AnswerConnectedFitting ==
  ASSUME Sound, Orderly, Orderly', Fitting, AnswerConnected
  PROVE  Fitting'
<1>1. PICK s \in Slots : s = active.slot
  BY Places DEF AnswerConnected
<1> SUFFICES ASSUME ~spoiled PROVE Fitting'
  BY DEF AnswerConnected, Fitting
<1>2. Fits(s)
  BY DEF Fitting
<1>3. active.arg \in Workers /\ Paired(s) /\ conn[s].up = Upstream
  BY <1>1, <1>2 DEF Fits, Reaching, AnswerConnected
<1>4. PICK w \in Workers : w = active.arg
  BY <1>3
<1>5. /\ Tell(w, "connected", s, Upstream) /\ active' = Loop
      /\ UNCHANGED <<conn, worker, polled, broadcast, toListener, spoiled>>
  BY <1>1, <1>4 DEF AnswerConnected
<1> QED BY <1>3, <1>5, ToldFitting

LEMMA TellRefusedFitting ==
  ASSUME Sound, Orderly, Orderly', Fitting, TellRefused
  PROVE  Fitting'
<1>1. PICK s \in Slots : s = active.slot
  BY Places DEF TellRefused
<1> SUFFICES ASSUME ~spoiled PROVE Fitting'
  BY DEF TellRefused, Fitting
<1>2. Fits(s)
  BY DEF Fitting
<1>3. PICK w \in Workers : w = active.arg
  BY <1>1, <1>2 DEF Fits, Reaching, TellRefused
<1>4. /\ Tell(w, "close", s, None) \/ UNCHANGED toWorker
      /\ active' \in {Loop, Down}
      /\ UNCHANGED <<conn, worker, polled, broadcast, toListener, spoiled>>
  BY <1>1, <1>3 DEF TellRefused
<1> QED BY <1>4, ToldFitting

LEMMA PassUpstreamFitting ==
  ASSUME Sound, Orderly, Orderly', Fitting, NEW w \in Workers, PassUpstream(w)
  PROVE  Fitting'
<1>1. PICK s \in Slots : s = Head(toListener[w]).slot
  BY Receives DEF PassUpstream
<1>2. PICK fd : fd = conn[s].up
  OBVIOUS
<1>3. /\ Received(w, "orphan_up") /\ active = Loop /\ active' \in {Loop, Down}
      /\ Tell(w, "orphan_up", s, fd) \/ UNCHANGED toWorker
      /\ UNCHANGED <<conn, worker, polled, broadcast, spoiled>>
  BY <1>1, <1>2 DEF PassUpstream, Received
<1> SUFFICES ASSUME ~spoiled PROVE Fitting'
  BY <1>3 DEF Fitting
<1>4. ToldOnce /\ Fits(s)
  BY DEF Orderly, Fitting
<1>5. /\ \A v \in Workers : Questions(toListener'[v]) \subseteq Questions(toListener[v])
      /\ s \in Questions(toListener[w])
  BY <1>1, <1>3, <1>4, ReceiveEffect
<1>6. Paired(s)
  BY <1>4, <1>5 DEF Fits, Wanted
<1> QED BY <1>2, <1>3, <1>5, <1>6, ToldFitting

LEMMA CloseFitting ==
  ASSUME Sound, Orderly, Orderly', Fitting, NEW w \in Workers, Close(w)
  PROVE  Fitting'
<1>1. PICK s \in Slots : s = Head(toListener[w]).slot
  BY Receives DEF Close
<1>2. /\ Received(w, "close") /\ active = Loop /\ active' \in {Loop, Down}
      /\ UNCHANGED <<worker, polled, broadcast, toWorker, spoiled>>
      /\ conn' = conn \/ (Over(conn[s]) /\ conn' = Released(conn, {s}, "UNUSED"))
  BY <1>1 DEF Close, Received
<1> SUFFICES ASSUME ~spoiled
             PROVE  Fits(s)' /\ \A t \in Slots \ {s} : Same(t)
  BY <1>2, OneSlotFitting
<1>3. ToldOnce /\ Fits(s) /\ OneHand(s)'
  BY <1>2 DEF Orderly, Fitting
<1>4. \A v \in Workers : Questions(toListener'[v]) \subseteq Questions(toListener[v])
  BY <1>2, <1>3, ReceiveEffect
<1>5. conn \in [Slots -> Entries]
  BY DEF Sound, TableOK
<1>6. \A t \in Slots \ {s} : conn'[t] = conn[t]
  BY <1>2, <1>5 DEF Released
<1>7. \A t \in Slots \ {s} : Same(t)
  BY <1>2, <1>4, <1>6 DEF Same, SameFds, Opened
<1>8. CASE conn' = conn
  <2>1. Same(s)
    BY <1>2, <1>4, <1>8 DEF Same, SameFds, Opened
  <2> QED BY <1>3, <1>7, <2>1, StaysFit
<1>9. CASE conn' = Released(conn, {s}, "UNUSED")
  <2>1. ~Live(s)'
    BY <1>5, <1>9, ReleasedFields DEF Live
  <2> QED BY <1>2, <1>3, <1>7, <2>1, NotLiveFits
<1> QED BY <1>2, <1>8, <1>9

(* A new listener puts descriptors where there were none only.             *)
LEMMA RecoveredFds ==
  ASSUME Sound, NEW C0 \in [Slots -> Entries], Recover(C0), NEW s \in Slots, ~Over(conn[s])
  PROVE  /\ C0[s].down # None => conn'[s].down = C0[s].down
         /\ C0[s].up # None => conn'[s].up = C0[s].up
         /\ conn'[s].wdown = C0[s].wdown /\ conn'[s].wup = C0[s].wup
         /\ ~spoiled' => ~Broken(conn'[s])
<1> DEFINE ended == {t \in Slots : Over(conn[t])}
           C     == Released(C0, ended, "UNUSED")
<1>1. C[s] = C0[s] /\ C0[s] \in Entries
  <2>1. s \notin ended
    OBVIOUS
  <2> HIDE DEF ended
  <2> QED BY <2>1 DEF Released
<1>2. \E d : \/ conn'[s] = C[s]
             \/ C[s].down = None /\ conn'[s] = [C[s] EXCEPT !.down = d]
             \/ C[s].up = None /\ conn'[s] = [C[s] EXCEPT !.up = d]
  <2> HIDE DEF C
  <2> QED BY DEF Recover, C, ended
<1>3. ~spoiled' => ~Broken(conn'[s])
  <2> HIDE DEF C
  <2> QED BY DEF Recover, C, ended
<1> HIDE DEF C
<1>4. PICK d : \/ conn'[s] = C0[s]
               \/ C0[s].down = None /\ conn'[s] = [C0[s] EXCEPT !.down = d]
               \/ C0[s].up = None /\ conn'[s] = [C0[s] EXCEPT !.up = d]
  BY <1>1, <1>2
<1> QED BY <1>1, <1>3, <1>4 DEF Entries

LEMMA RestartFitting ==
  ASSUME Sound, Orderly', Fitting, Restart
  PROVE  Fitting'
<1> DEFINE C0 == [s \in Slots |-> [conn[s] EXCEPT !.pid = None]]
<1>1. /\ C0 \in [Slots -> Entries]
      /\ \A s \in Slots : /\ C0[s].state = conn[s].state
                          /\ C0[s].down = conn[s].down /\ C0[s].up = conn[s].up
  BY DEF Sound, TableOK, Entries
<1>2. Recover(C0)
  BY DEF Restart
<1> HIDE DEF C0
<1>3. active' \in {Loop, Down} /\ (spoiled => spoiled')
  BY <1>1, <1>2, RecoverEffect
<1> SUFFICES ASSUME ~spoiled', NEW s \in Slots
             PROVE  Fits(s)'
  <2>1. Slots # {}
    BY LifecycleAssumption DEF Slots
  <2> QED BY <1>3, <2>1 DEF Fitting
<1>4. Fits(s) /\ OneHand(s)'
  BY <1>3 DEF Orderly, Fitting
<1>5. CASE Over(conn[s])
  <2>1. ~Live(s)'
    BY <1>1, <1>2, <1>5, RecoverEffect DEF Live
  <2> QED BY <1>3, <1>4, <2>1, NotLiveFits
<1>6. CASE ~Over(conn[s])
  <2>1. (conn[s].down # None => conn'[s].down = conn[s].down) /\ ~Broken(conn'[s])
    BY <1>1, <1>2, <1>6, RecoveredFds
  <2>2. /\ UNCHANGED broadcast /\ Idle.slot # s
        /\ \A w \in Workers : /\ worker'[w] = Idle /\ polled'[w] = {}
                              /\ toWorker'[w] = <<>> /\ toListener'[w] = <<>>
    BY LifecycleAssumption DEF Restart, Idle, At, Slots
  <2>3. \A w \in Workers : Fds(toWorker'[w], s) = {} /\ Questions(toListener'[w]) = {}
    BY <2>2 DEF Fds, Questions
  <2>4. Offered(s)'
    BY <1>4, <2>1, <2>2 DEF Fits, Offered
  <2>5. Recovered(s)'
    BY <2>1 DEF Recovered, Opened, Broken
  <2>6. Holding(s)' /\ Registered(s)'
    BY <2>2 DEF Holding, Registered
  <2>7. Wanted(s)' /\ Handed(s)'
    BY <2>3 DEF Wanted, Handed
  <2> QED BY <1>3, <2>4, <2>5, <2>6, <2>7, Rests DEF Fits
<1> QED BY <1>5, <1>6

LEMMA TakeOverFitting ==
  ASSUME Sound, Orderly', Fitting, TakeOver
  PROVE  Fitting'
<1>1. /\ Recover(conn) /\ conn \in [Slots -> Entries]
      /\ UNCHANGED <<worker, polled, broadcast, toWorker, toListener>>
  BY DEF TakeOver, queues, Sound, TableOK
<1>2. active' \in {Loop, Down} /\ (spoiled => spoiled')
  BY <1>1, RecoverEffect
<1> SUFFICES ASSUME ~spoiled', NEW s \in Slots
             PROVE  Fits(s)'
  <2>1. Slots # {}
    BY LifecycleAssumption DEF Slots
  <2> QED BY <1>2, <2>1 DEF Fitting
<1>3. Fits(s) /\ OneHand(s)'
  BY <1>2 DEF Orderly, Fitting
<1>4. CASE Over(conn[s])
  <2>1. ~Live(s)'
    BY <1>1, <1>4, RecoverEffect DEF Live
  <2> QED BY <1>2, <1>3, <2>1, NotLiveFits
<1>5. CASE ~Over(conn[s])
  <2>1. /\ conn[s].down # None => conn'[s].down = conn[s].down
        /\ conn[s].up # None => conn'[s].up = conn[s].up
        /\ conn'[s].wdown = conn[s].wdown /\ conn'[s].wup = conn[s].wup
    BY <1>1, <1>5, RecoveredFds
  <2>2. conn'[s].pid = conn[s].pid /\ conn'[s].state = conn[s].state
    BY <1>1, <1>5, RecoverEffect
  <2>3. Same(s)
    BY <1>1, <1>2, <2>1, <2>2 DEF Same, SameFds, Opened
  <2> QED BY <1>3, <2>3, StaysFit
<1> QED BY <1>4, <1>5

(* The actions of a worker.                                                *)
LEMMA WorkerFailsFitting ==
  ASSUME Sound, Fitting, NEW w \in Workers, WorkerFails(w)
  PROVE  Fitting'
<1>1. UNCHANGED <<conn, active, broadcast, toWorker, toListener, spoiled>> /\ Ends(w)
  BY DEF WorkerFails, queues
<1>2. \A s \in Slots : Same(s)
  BY <1>1, WorkerEndsEffect DEF Same, SameFds, Opened
<1> QED BY <1>1, <1>2, QuietFitting

LEMMA TakeFitting ==
  ASSUME Sound, Orderly', Fitting, NEW w \in Workers, Take(w)
  PROVE  Fitting'
<1> DEFINE m == Head(broadcast)
<1>1. /\ broadcast # <<>> /\ broadcast' = Tail(broadcast) /\ worker[w] = Idle
      /\ UNCHANGED <<conn, active, toWorker, toListener, spoiled>>
      /\ \/ Ends(w)
         \/ m.fd # None /\ Goes(w, At(m.action, m.slot, m.fd)) /\ UNCHANGED polled
  BY DEF Take
<1>2. /\ broadcast \in Seq(Letters(FromActive, size)) /\ m.action \in FromActive /\ m.slot \in Slots
  BY <1>1, Letter, Places DEF Sound, QueuesOK
<1>3. m.fd \in Fds(broadcast, m.slot) /\ \A t \in Slots : Fds(broadcast', t) \subseteq Fds(broadcast, t)
  BY <1>1, <1>2, TakenFds
<1> HIDE DEF m
<1>4. CASE Ends(w)
  <2>1. \A s \in Slots : Same(s)
    BY <1>1, <1>3, <1>4, WorkerEndsEffect DEF Same, SameFds, Opened
  <2> QED BY <1>1, <2>1, QuietFitting
<1>5. CASE m.fd # None /\ Goes(w, At(m.action, m.slot, m.fd)) /\ UNCHANGED polled
  <2>1. PICK s \in Slots : s = m.slot
    BY <1>2
  <2>2. \A v \in Workers : worker'[v] = IF v = w THEN At(m.action, s, m.fd) ELSE worker[v]
    BY <1>5, <2>1, WorkerPlace
  <2>3. /\ worker'[w].at = m.action /\ worker'[w].slot = s /\ worker'[w].arg = m.fd
        /\ \A v \in Workers : v # w => worker'[v] = worker[v]
    BY <2>2 DEF At
  <2> SUFFICES ASSUME ~spoiled
               PROVE  Fits(s)' /\ \A t \in Slots \ {s} : Same(t)
    BY <1>1, OneSlotFitting
  <2>4. Fits(s) /\ OneHand(s)'
    BY <1>1 DEF Orderly, Fitting
  <2>5. \A t \in Slots : worker[w].slot # t
    BY <1>1, AwayFromSlots
  <2>6. \A t \in Slots \ {s} : Same(t)
    BY <1>1, <1>3, <1>5, <2>3, <2>5 DEF Same, SameFds, Opened
  <2>7. m.fd = conn[s].down
    BY <1>3, <1>5, <2>1, <2>4 DEF Fits, Offered
  <2>8. \A v \in Workers : worker'[v].slot = s => v = w
    BY <1>2, <2>3, <2>4 DEF OneHand, Taking
  <2>9. Holding(s)'
    BY <1>1, <1>2, <1>5, <2>3, <2>7, <2>8 DEF Holding, FromActive
  <2>10. Recovered(s)'
    BY <1>1, <2>4 DEF Fits, Recovered, Opened
  <2>11. worker'[w].at \in {"accepted", "orphan_down", "connect", "orphan_up"}
    BY <1>2, <2>3 DEF FromActive
  <2> QED BY <1>1, <2>3, <2>4, <2>6, <2>9, <2>10, <2>11, TakenFits
<1> QED BY <1>1, <1>4, <1>5

LEMMA NoteTakenFitting ==
  ASSUME Sound, Orderly', Fitting, NEW w \in Workers, NoteTaken(w)
  PROVE  Fitting'
<1>1. PICK s \in Slots : s = worker[w].slot /\ worker[w].at \in {"accepted", "orphan_down"}
  BY Places DEF NoteTaken
<1>2. UNCHANGED <<active, broadcast, toWorker, toListener, spoiled>>
  BY DEF NoteTaken, queues
<1>3. conn[s] \in Entries /\ conn \in [Slots -> Entries]
  BY EntryFields DEF Sound, TableOK
<1> SUFFICES ASSUME ~spoiled
             PROVE  Fits(s)' /\ \A t \in Slots \ {s} : Same(t)
  BY <1>2, OneSlotFitting
<1>4. Fits(s) /\ OneHand(s)'
  BY <1>2 DEF Orderly, Fitting
<1>5. w # None
  BY LifecycleAssumption
<1>6. CASE conn[s].wdown # None
  <2>1. conn' = [conn EXCEPT ![s] = [@ EXCEPT !.pid = w]] /\ Ends(w)
    BY <1>1, <1>3, <1>6 DEF NoteTaken, Owned
  <2>2. /\ conn'[s].pid = w /\ conn'[s].down = conn[s].down /\ conn'[s].up = conn[s].up
        /\ conn'[s].wdown = conn[s].wdown /\ conn'[s].wup = conn[s].wup
        /\ \A t \in Slots \ {s} : conn'[t] = conn[t]
    BY <1>3, <2>1 DEF Entries
  <2>3. \A t \in Slots : Same(t)
    BY <1>2, <1>5, <2>1, <2>2, WorkerEndsEffect DEF Same, SameFds, Opened
  <2> QED BY <1>4, <2>3, StaysFit
<1>7. CASE conn[s].wdown = None
  <2> DEFINE mine == [Owned(conn[s], w) EXCEPT !.wdown = worker[w].arg,
                       !.state = IF worker[w].at = "accepted" THEN "CONNECTING" ELSE @]
  <2>1. /\ mine.pid = w /\ mine.wdown = worker[w].arg
        /\ mine.down = conn[s].down /\ mine.up = conn[s].up
    BY <1>3 DEF Owned, Entries
  <2>2. PICK place \in {"connect", "orphan_up"} :
        conn' = [conn EXCEPT ![s] = mine] /\ UNCHANGED polled /\ Goes(w, At(place, s, None))
    BY <1>1, <1>7 DEF NoteTaken
  <2> HIDE DEF mine
  <2>3. /\ conn'[s].pid = w /\ conn'[s].wdown = worker[w].arg
        /\ conn'[s].down = conn[s].down /\ conn'[s].up = conn[s].up
        /\ \A t \in Slots \ {s} : conn'[t] = conn[t]
    BY <1>3, <2>1, <2>2
  <2>4. \A v \in Workers : worker'[v] = IF v = w THEN At(place, s, None) ELSE worker[v]
    BY <2>2, WorkerPlace
  <2>5. /\ worker'[w].at = place /\ worker'[w].slot = s
        /\ \A v \in Workers : v # w => worker'[v] = worker[v]
    BY <2>4 DEF At
  <2>6. \A t \in Slots \ {s} : Same(t)
    BY <1>1, <1>2, <2>2, <2>3, <2>5 DEF Same, SameFds, Opened
  <2>7. Paired(s)'
    BY <1>1, <1>4, <2>3 DEF Fits, Holding, Paired
  <2>8. \A v \in Workers : worker'[v].slot = s => v = w
    BY <1>4, <2>5 DEF OneHand, Taking
  <2>9. Holding(s)' /\ Recovered(s)'
    BY <1>5, <2>3, <2>5, <2>7, <2>8 DEF Holding, Recovered
  <2> QED BY <1>2, <1>4, <2>3, <2>5, <2>6, <2>9, TakenFits
<1> QED BY <1>6, <1>7

LEMMA AskFitting ==
  ASSUME Sound, Orderly, Orderly', Fitting, NEW w \in Workers, Ask(w)
  PROVE  Fitting'
<1>1. PICK s \in Slots : s = worker[w].slot /\ worker[w].at \in {"connect", "orphan_up"}
  BY Places DEF Ask
<1>2. /\ UNCHANGED <<conn, active, polled, broadcast, toWorker, spoiled>>
      /\ Report(w, worker[w].at, s) /\ Goes(w, Idle)
  BY <1>1 DEF Ask
<1> SUFFICES ASSUME ~spoiled
             PROVE  Fits(s)' /\ \A t \in Slots \ {s} : Same(t)
  BY <1>2, OneSlotFitting
<1>3. ToldOnce /\ OneHand(s) /\ Fits(s) /\ OneHand(s)'
  BY <1>2 DEF Orderly, Fitting
<1>4. s \notin Questions(toListener[w])
  BY <1>1, <1>3 DEF OneHand, Asking, Nobody
<1>5. \A v \in Workers :
        Questions(toListener'[v]) = Questions(toListener[v]) \cup (IF v = w THEN {s} ELSE {})
  <2>1. worker[w].at # "close"
    BY <1>1
  <2> QED BY <1>2, <1>3, <1>4, <2>1, ReportEffect
<1>6. \A v \in Workers, t \in Slots :
        /\ worker'[v].slot = t => worker'[v] = worker[v]
        /\ v # w => worker'[v] = worker[v]
  <2>1. Idle.slot = 0 /\ 0 \notin Slots
    BY LifecycleAssumption DEF Idle, At, Slots
  <2> QED BY <1>2, <2>1, WorkerPlace
<1>7. \A t \in Slots \ {s} : Same(t)
  BY <1>1, <1>2, <1>5, <1>6 DEF Same, SameFds, Opened
<1>8. Paired(s)' /\ s \in Questions(toListener'[w])
  BY <1>1, <1>2, <1>3, <1>5 DEF Fits, Holding, Paired
<1> QED BY <1>2, <1>3, <1>7, <1>8, AskingFits

LEMMA TakeUpstreamFitting ==
  ASSUME Sound, Orderly, Orderly', Fitting, NEW w \in Workers, TakeUpstream(w)
  PROVE  Fitting'
<1>1. PICK s \in Slots : s = Head(toWorker[w]).slot
  BY Answers DEF TakeUpstream
<1>2. PICK m : m = Head(toWorker[w])
  OBVIOUS
<1>3. /\ UNCHANGED <<active, broadcast, toListener, spoiled>>
      /\ Answered(w, {"connected", "orphan_up"})
  BY DEF TakeUpstream
<1> SUFFICES ASSUME ~spoiled PROVE Fitting'
  BY <1>3 DEF Fitting
<1>4. ToldOnce /\ OneHand(s) /\ Fits(s) /\ OneHand(s)'
  BY <1>3 DEF Orderly, Fitting
<1>5. /\ m.fd \in Fds(toWorker[w], s)
      /\ \A v \in Workers, t \in Slots : Fds(toWorker'[v], t) \subseteq Fds(toWorker[v], t)
  BY <1>1, <1>2, <1>3, AnswerFds
<1>6. m.fd # None => Paired(s) /\ m.fd = conn[s].up
  BY <1>4, <1>5 DEF Fits, Handed
<1>7. conn[s] \in Entries /\ conn \in [Slots -> Entries]
  BY EntryFields DEF Sound, TableOK
<1>8. CASE m.fd = None \/ conn[s].wup # None
  <2>1. Ends(w) /\ \E e \in {Owned(conn[s], w), conn[s]} : conn' = [conn EXCEPT ![s] = e]
    BY <1>1, <1>2, <1>8 DEF TakeUpstream
  <2>2. \A t \in Slots :
          /\ conn'[t].down = conn[t].down /\ conn'[t].up = conn[t].up
          /\ conn'[t].wdown = conn[t].wdown /\ conn'[t].wup = conn[t].wup
          /\ conn'[t].state = conn[t].state /\ (conn'[t].pid = conn[t].pid \/ conn'[t].pid = w)
    BY <1>7, <2>1 DEF Owned, Entries
  <2>3. ASSUME NEW t \in Slots PROVE Same(t)
    <3>1. \A v \in Workers : /\ worker'[v].slot = t => worker'[v] = worker[v]
                             /\ t \in polled'[v] => t \in polled[v] /\ worker'[v] = worker[v]
      BY <2>1, WorkerEndsEffect
    <3>2. w # None
      BY LifecycleAssumption
    <3>3. conn'[t].pid = None /\ Opened(t)' => conn[t].pid = None /\ Opened(t)
      BY <2>2, <3>2 DEF Opened
    <3> QED BY <1>3, <1>5, <2>2, <3>1, <3>3 DEF Same, SameFds
  <2> QED BY <1>3, <2>3, QuietFitting
<1>9. CASE m.fd # None /\ conn[s].wup = None
  <2>1. Paired(s) /\ m.fd = conn[s].up /\ conn[s].wdown # None
    BY <1>6, <1>9 DEF Paired
  <2> DEFINE mine == IF m.action = "connected"
                     THEN [conn[s] EXCEPT !.wup = m.fd,
                             !.state = IF conn[s].wdown = None THEN @ ELSE "POLL"]
                     ELSE [Owned(conn[s], w) EXCEPT !.wup = m.fd]
  <2>2. /\ conn' = [conn EXCEPT ![s] = mine]
        /\ polled' = [polled EXCEPT ![w] = @ \cup {s}] /\ UNCHANGED worker
    BY <1>1, <1>2, <1>9, <2>1 DEF TakeUpstream
  <2>3. /\ mine.down = conn[s].down /\ mine.up = conn[s].up
        /\ mine.wdown = conn[s].wdown /\ mine.wup = m.fd
    BY <1>7 DEF Owned, Entries
  <2> HIDE DEF mine
  <2>4. /\ conn'[s].down = conn[s].down /\ conn'[s].up = conn[s].up
        /\ conn'[s].wdown = conn[s].wdown /\ conn'[s].wup = m.fd
        /\ \A t \in Slots \ {s} : conn'[t] = conn[t]
    BY <1>7, <2>2, <2>3
  <2>5. s \in polled'[w] /\ \A v \in Workers, t \in Slots \ {s} : t \in polled'[v] => t \in polled[v]
    BY <2>2 DEF Sound, WorkersOK
  <2>6. worker'[w].slot # s
    BY <1>3, <2>2, AwayFromSlots DEF Answered
  <2>7. \A t \in Slots \ {s} : Same(t)
    BY <1>3, <1>5, <2>2, <2>4, <2>5 DEF Same, SameFds, Opened
  <2>8. Paired(s)'
    BY <2>1, <2>4 DEF Paired
  <2>9. Fits(s)'
    BY <1>3, <1>4, <1>9, <2>1, <2>4, <2>5, <2>6, <2>8, ServingFits
  <2> QED BY <1>3, <2>7, <2>9, OneSlotFitting
<1> QED BY <1>8, <1>9

LEMMA TakeRefusalFitting ==
  ASSUME Sound, Orderly', Fitting, NEW w \in Workers, TakeRefusal(w)
  PROVE  Fitting'
<1>1. PICK s \in Slots : s = Head(toWorker[w]).slot
  BY Answers DEF TakeRefusal
<1>2. /\ UNCHANGED <<active, worker, broadcast, toListener, spoiled>>
      /\ Answered(w, {"close"})
      /\ \A v \in Workers : polled'[v] \subseteq polled[v]
  BY <1>1 DEF TakeRefusal, Forgotten, Sound, WorkersOK
<1>3. /\ \A t \in Slots \ {s} : conn'[t] = conn[t]
      /\ conn'[s].up = conn[s].up /\ conn'[s].state = "UNUSED"
  <2>1. conn[s] \in Entries /\ conn \in [Slots -> Entries]
    BY EntryFields DEF Sound, TableOK
  <2> QED BY <1>1, <2>1 DEF TakeRefusal, Entries
<1>4. \A v \in Workers, t \in Slots : Fds(toWorker'[v], t) \subseteq Fds(toWorker[v], t)
  BY <1>2, AnswerFds
<1>5. \A t \in Slots \ {s} : Same(t)
  BY <1>2, <1>3, <1>4 DEF Same, SameFds, Opened
<1>6. ASSUME ~spoiled' PROVE Fits(s)'
  <2>1. OneHand(s)' /\ Fits(s) /\ ~Live(s)'
    BY <1>2, <1>3, <1>6 DEF Orderly, Fitting, Live
  <2> QED BY <1>2, <1>3, <2>1, NotLiveFits
<1> QED BY <1>2, <1>5, <1>6, OneSlotFitting

(* Finish and Fail. *)
LEMMA EndsFitting ==
  ASSUME Sound, Orderly', Fitting, NEW w \in Workers, NEW s \in Slots, worker[w] = Idle,
         NEW state \in {"CLOSING", "ERROR"}, NEW place \in {"closing", "error"},
         conn' = [conn EXCEPT ![s].state = state], Goes(w, At(place, s, None)),
         UNCHANGED <<active, polled, broadcast, toWorker, toListener, spoiled>>
  PROVE  Fitting'
<1>1. /\ \A t \in Slots \ {s} : conn'[t] = conn[t]
      /\ conn'[s].up = conn[s].up /\ conn'[s].state = state
  BY EntryFields DEF Sound, TableOK, Entries
<1>2. \A v \in Workers, t \in Slots \ {s} :
        /\ worker'[v].slot = t => worker'[v] = worker[v]
        /\ worker[v].slot = t => worker'[v].slot = t
  <2>1. \A v \in Workers : worker'[v] = IF v = w THEN At(place, s, None) ELSE worker[v]
    BY WorkerPlace
  <2>2. At(place, s, None).slot = s /\ \A t \in Slots : worker[w].slot # t
    BY AwayFromSlots DEF At
  <2> QED BY <2>1, <2>2
<1>3. \A t \in Slots \ {s} : Same(t)
  BY <1>1, <1>2 DEF Same, SameFds, Opened
<1>4. ASSUME ~spoiled' PROVE Fits(s)'
  <2>1. OneHand(s)' /\ Fits(s) /\ ~Live(s)'
    BY <1>1, <1>4 DEF Orderly, Fitting, Live
  <2> QED BY <1>1, <2>1, NotLiveFits
<1> QED BY <1>3, <1>4, OneSlotFitting

LEMMA FinishFitting ==
  ASSUME Sound, Orderly', Fitting, NEW w \in Workers, NEW s \in Slots, Finish(w, s)
  PROVE  Fitting'
BY EndsFitting DEF Finish, queues

LEMMA FailFitting ==
  ASSUME Sound, Orderly', Fitting, NEW w \in Workers, NEW s \in Slots, Fail(w, s)
  PROVE  Fitting'
BY EndsFitting DEF Fail, queues

(* The descriptors of a worker that closes them are nobody else's concern. *)
LEMMA ReportClosedFitting ==
  ASSUME Sound, Orderly, Orderly', Fitting, NEW w \in Workers, ReportClosed(w)
  PROVE  Fitting'
<1> SUFFICES ASSUME ~spoiled' PROVE Fitting'
  BY DEF Fitting
<1>1. PICK s \in Slots : s = worker[w].slot /\ worker[w].at \in {"closing", "error"}
  BY Places DEF ReportClosed
<1>2. /\ UNCHANGED <<active, broadcast, toWorker, spoiled>>
      /\ Report(w, "close", s)
      /\ Ends(w) \/ (Goes(w, Idle) /\ Forgotten(w, s))
  BY <1>1, ReportClosedEffect DEF ReportClosed
<1> SUFFICES ASSUME ~spoiled
             PROVE  Fits(s)' /\ \A t \in Slots \ {s} : Same(t)
  BY <1>2, OneSlotFitting
<1>3. ToldOnce /\ OneHand(s) /\ Fits(s)
  BY DEF Orderly, Fitting
<1>4. /\ \A t \in Slots \ {s} : conn'[t] = conn[t]
      /\ conn'[s].down = conn[s].down /\ conn'[s].up = conn[s].up
      /\ conn'[s].pid = conn[s].pid /\ conn'[s].state = conn[s].state
  BY <1>1, EntryFields DEF ReportClosed, Sound, TableOK, Entries
<1>5. \A v \in Workers, t \in Slots :
        /\ worker'[v].slot = t => worker[v].slot = t /\ worker'[v] = worker[v] /\ v # w
        /\ t \in polled'[v] => t \in polled[v] /\ (worker[v].slot = t => worker'[v].slot = t)
  <2>1. CASE Ends(w)
    BY <2>1, WorkerEndsEffect
  <2>2. CASE Goes(w, Idle) /\ Forgotten(w, s)
    <3>1. Idle.slot = 0 /\ 0 \notin Slots
      BY LifecycleAssumption DEF Idle, At, Slots
    <3>2. \A v \in Workers : /\ worker'[v] = IF v = w THEN Idle ELSE worker[v]
                             /\ polled'[v] = IF v = w THEN polled[v] \ {s} ELSE polled[v]
      BY <2>2, WorkerPlace DEF Forgotten, Sound, WorkersOK
    <3> QED BY <1>1, <3>1, <3>2
  <2> QED BY <1>2, <2>1, <2>2
<1>6. \A v \in Workers : Questions(toListener'[v]) = Questions(toListener[v])
  BY <1>2, <1>3, ReportEffect
<1>7. \A t \in Slots \ {s} : Same(t)
  BY <1>2, <1>4, <1>5, <1>6 DEF Same, SameFds, Opened
<1>8. /\ ~Nobody(s)
      /\ \A v \in Workers : /\ s \notin Questions(toListener'[v]) /\ s \notin SlotsOf(toWorker[v])
                            /\ ~Answering(v, s) /\ worker'[v].slot # s
                            /\ s \notin polled'[v]
  <2>1. ~Nobody(s)
    BY <1>1 DEF Nobody
  <2>2. \A v \in Workers : /\ s \notin Questions(toListener'[v]) /\ s \notin SlotsOf(toWorker[v])
                           /\ ~Answering(v, s)
    BY <1>3, <1>6, <2>1 DEF OneHand, Asking, Telling, InAnswer
  <2>3. \A v \in Workers : worker'[v].slot # s
    BY <1>1, <1>3, <1>5 DEF OneHand, Taking
  <2>4. \A v \in Workers : s \notin polled'[v]
    BY <1>3, <1>5, <2>1, <2>3 DEF OneHand, Serving
  <2> QED BY <2>1, <2>2, <2>3, <2>4
<1>9. Reaching(s)' /\ Adoptable(s)'
  BY <1>2, <1>3, <1>4, <1>8 DEF Fits, Reaching, Adoptable, Adopting, Answering
<1>10. Offered(s)' /\ Recovered(s)'
  BY <1>2, <1>3, <1>4 DEF Fits, Offered, Recovered, Opened
<1>11. Holding(s)' /\ Wanted(s)' /\ Handed(s)' /\ Registered(s)'
  BY <1>2, <1>8, NoFds DEF Holding, Wanted, Handed, Registered
<1> QED BY <1>7, <1>9, <1>10, <1>11 DEF Fits

LEMMA FittingStep ==
  ASSUME Sound, Orderly, Orderly', Fitting, [Next]_vars
  PROVE  Fitting'
<1>1. CASE Claim \/ AppendEntry \/ Adopt \/ TakeOver \/ ActiveFails
  BY <1>1, ClaimFitting, QuietListenerFitting, TakeOverFitting
<1>2. CASE Continue
  BY <1>2, PublishEntryFitting, QuietListenerFitting, NoteAcceptedFitting, AnnounceAcceptedFitting,
     DistributeFitting, NoteConnectedFitting, AnswerConnectedFitting, AnswerFailsFitting,
     TellRefusedFitting, RestartFitting DEF Continue
<1>3. ASSUME NEW w \in Workers, Handle(w)
      PROVE  Fitting'
  BY <1>3, ConnectFitting, ConnectFailsFitting, CloseFitting, PassUpstreamFitting, QuietListenerFitting
     DEF Handle
<1>4. ASSUME NEW w \in Workers, WorkerStep(w)
      PROVE  Fitting'
  BY <1>4, TakeFitting, NoteTakenFitting, AskFitting, TakeUpstreamFitting, TakeRefusalFitting,
     ReportClosedFitting, FinishFitting DEF WorkerStep
<1>5. ASSUME NEW w \in Workers, WorkerFails(w) \/ \E s \in Slots : Fail(w, s)
      PROVE  Fitting'
  BY <1>5, WorkerFailsFitting, FailFitting
<1>6. CASE UNCHANGED vars
  BY <1>6, QuietListenerFitting
<1> QED BY <1>1, <1>2, <1>3, <1>4, <1>5, <1>6 DEF Next

(* As long as no history is spoiled, a worker serves a connection with     *)
(* copies of the very descriptors that the listener keeps for its slot,    *)
(* and the slot names that worker, although descriptors travel in messages *)
(* and are matched to slots again after every crash.                       *)
THEOREM SocketsStayRight == Spec => []RightSockets
<1>1. Init => Orderly /\ Fitting
  BY OrderlyBase, FittingBase
<1>2. Sound /\ Orderly /\ [Next]_vars => Orderly'
  BY OrderlyStep
<1>3. Sound /\ Orderly /\ Orderly' /\ Fitting /\ [Next]_vars => Fitting'
  BY FittingStep
<1>4. Sound /\ Orderly /\ Fitting => RightSockets
  BY SocketsRight
<1> QED BY <1>1, <1>2, <1>3, <1>4, Invariance, PTL DEF Spec

-------------------------------------------------------------------------------
(* What the slots contain when somebody goes on with them.  A slot that    *)
(* is free or refused has no descriptors, and one that is accepted, or for *)
(* which upstream was asked for, has none of upstream, which would be lost *)
(* when the next one is stored there.                                      *)
About(q, action) == {q[k].slot : k \in {k \in DOMAIN q : q[k].action = action}}
Emptied(s) == conn[s].down = None /\ conn[s].up = None
Fresh(s)   == conn[s].state = "CONNECTING" /\ conn[s].up = None

Filled(s) ==
  /\ conn[s].state = "UNUSED" => Emptied(s)
  /\ conn[s].state = "ACCEPTING" => conn[s].up = None
Called(s) ==
  /\ s \in About(broadcast, "accepted") => conn[s].state = "ACCEPTING"
  /\ s \in About(broadcast, "orphan_down") => conn[s].state = "POLL"
Begun(s) == \A w \in Workers : worker[w].slot = s =>
  /\ worker[w].at = "accepted" => conn[s].state = "ACCEPTING"
  /\ worker[w].at = "orphan_down" => conn[s].state = "POLL"
  /\ worker[w].at = "connect" => Fresh(s)
Asked(s) == \A w \in Workers :
  /\ s \in About(toListener[w], "connect") => Fresh(s)
  /\ s \in About(toWorker[w], "close") => Emptied(s)
Entered(s) == active.slot = s =>
  /\ active.at \in {"accept", "accepted"} => conn[s].state = "ACCEPTING" /\ conn[s].down = None
  /\ active.at = "announce" => conn[s].state = "ACCEPTING"
  /\ active.at = "adopt" => conn[s].pid # None \/ conn[s].state = active.arg
  /\ active.at = "connected" => Fresh(s)
  /\ active.at = "refuse" => Emptied(s)

Expects(s) == Filled(s) /\ Called(s) /\ Begun(s) /\ Asked(s) /\ Entered(s)

(* The descriptors of the listener: no two slots have the same, and none   *)
(* is the next that accept returns; one more than the slots know of is     *)
(* open between accept or connect and the note of it, or if the listener   *)
(* has died there.  Then the slot that waits for it is in nobody's hand.   *)
Stranded(s) ==
  /\ Fresh(s) /\ s \notin SlotsOf(broadcast)
  /\ \A w \in Workers : worker[w].slot # s /\ s \notin polled[w] /\ s \notin SlotsOf(toWorker[w])

Unnoted == IF active.at = "accepted" THEN {active.arg} ELSE {}

Distinct == \A s, t \in Slots : conn[s].down = conn[t].down /\ conn[s].down # None => s = t
Waits    == \A c \in Clients : client[c] = "waiting" => c \notin open
Belongs  ==
  /\ Downs(conn) \subseteq open /\ Unnoted \cap Downs(conn) = {}
  /\ active.at # "down" => open = Downs(conn) \cup Unnoted
Counted  ==
  \/ ups = Cardinality(Ups(conn)) /\ active.at # "connected"
  \/ ups = Cardinality(Ups(conn)) + 1 /\ active.at = "connected"
  \/ ups = Cardinality(Ups(conn)) + 1 /\ active.at = "down" /\ \E s \in Slots : Stranded(s)

Tallied == Distinct /\ Waits /\ Belongs /\ Counted

Balanced == spoiled \/ (Tallied /\ \A s \in Slots : Expects(s))

LEMMA BalancedBase == Init => Balanced
<1> SUFFICES ASSUME Init PROVE Tallied /\ \A s \in Slots : Expects(s)
  BY DEF Balanced
<1>1. \A s \in Slots : conn[s] = Unused /\ s # 0
  BY LifecycleAssumption DEF Init, Slots
<1>2. /\ broadcast = <<>> /\ active = Loop /\ open = {} /\ ups = 0
      /\ \A w \in Workers : worker[w] = Idle /\ toWorker[w] = <<>> /\ toListener[w] = <<>>
  BY DEF Init
<1>3. \A s \in Slots : Expects(s)
  BY <1>1, <1>2 DEF Expects, Filled, Emptied, Called, Begun, Asked, Entered, About, Unused, Loop, Idle, At
<1>4. Ups(conn) = {} /\ Downs(conn) = {}
  <2>1. Unused.up = None /\ Unused.down = None /\ None # Upstream
    BY DEF Unused, None, Upstream
  <2> QED BY <1>1, <2>1 DEF Ups, Downs
<1>5. Cardinality(Ups(conn)) = 0
  BY <1>4, FS_EmptySet
<1>6. active.at = "loop" /\ Unnoted = {}
  BY <1>2 DEF Loop, At, Unnoted
<1>7. Distinct
  BY <1>1 DEF Distinct, Unused
<1> QED BY <1>2, <1>3, <1>4, <1>5, <1>6, <1>7 DEF Tallied, Waits, Belongs, Counted

LEMMA Accounts ==
  ASSUME Balanced
  PROVE  Accounted
<1> SUFFICES ASSUME ~spoiled, active = Loop
             PROVE  open = Downs(conn) /\ ups = Cardinality(Ups(conn))
  BY DEF Accounted
<1>1. active.at = "loop" /\ Unnoted = {} /\ Belongs /\ Counted
  BY DEF Balanced, Tallied, Unnoted, Loop, At
<1>2. open = Downs(conn)
  BY <1>1 DEF Belongs
<1>3. ups = Cardinality(Ups(conn))
  BY <1>1 DEF Counted
<1> QED BY <1>2, <1>3

(* Messages of a kind that are queued and taken.                           *)
LEMMA QueuedAbout ==
  ASSUME NEW A, NEW n, NEW q \in Seq(Letters(A, n)), NEW action, NEW s, NEW fd, NEW a
  PROVE  About(Append(q, Msg(action, s, fd)), a) \subseteq About(q, a) \cup (IF a = action THEN {s} ELSE {})
<1> DEFINE r == Append(q, Msg(action, s, fd))
<1>1. Len(q) \in Nat /\ DOMAIN q = 1 .. Len(q) /\ DOMAIN r = 1 .. Len(q) + 1
  OBVIOUS
<1>2. r[Len(q) + 1] = Msg(action, s, fd) /\ \A k \in 1 .. Len(q) : r[k] = q[k]
  OBVIOUS
<1> HIDE DEF r
<1>3. \A k \in DOMAIN r : k \in DOMAIN q \/ k = Len(q) + 1
  BY <1>1, LastIndex
<1>4. ASSUME NEW k \in DOMAIN r, r[k].action = a
      PROVE  r[k].slot \in About(q, a) \cup (IF a = action THEN {s} ELSE {})
  BY <1>1, <1>2, <1>3, <1>4 DEF About, Msg
<1>5. About(r, a) \subseteq About(q, a) \cup (IF a = action THEN {s} ELSE {})
  BY <1>4 DEF About
<1> QED BY <1>5 DEF r

LEMMA TakenAbout ==
  ASSUME NEW A, NEW n, NEW q \in Seq(Letters(A, n)), q # <<>>
  PROVE  /\ Head(q).slot \in About(q, Head(q).action)
         /\ \A a : About(Tail(q), a) \subseteq About(q, a)
<1> DEFINE r == Tail(q)
<1>1. /\ Len(q) \in Nat /\ Len(q) >= 1 /\ DOMAIN q = 1 .. Len(q) /\ Head(q) = q[1]
      /\ DOMAIN r = 1 .. Len(q) - 1
      /\ \A k \in 1 .. Len(q) - 1 : r[k] = q[k + 1]
  OBVIOUS
<1> HIDE DEF r
<1>2. Head(q).slot \in About(q, Head(q).action)
  BY <1>1 DEF About
<1>3. \A k \in DOMAIN r : k + 1 \in DOMAIN q /\ r[k] = q[k + 1]
  BY <1>1
<1>4. \A a : About(r, a) \subseteq About(q, a)
  BY <1>3 DEF About
<1> QED BY <1>2, <1>4 DEF r

LEMMA AboutSlots ==
  ASSUME NEW q, NEW action
  PROVE  About(q, action) \subseteq SlotsOf(q) /\ (action # "close" => About(q, action) \subseteq Questions(q))
BY DEF About, SlotsOf, Questions

LEMMA TellAbout ==
  ASSUME Sound, NEW w, NEW action, NEW s, NEW fd, Tell(w, action, s, fd) \/ UNCHANGED toWorker
  PROVE  \A v \in Workers : \A a :
           About(toWorker'[v], a) \subseteq About(toWorker[v], a) \cup (IF a = action /\ v = w THEN {s} ELSE {})
<1> SUFFICES ASSUME NEW v \in Workers, NEW a
             PROVE  About(toWorker'[v], a) \subseteq
                      About(toWorker[v], a) \cup (IF a = action /\ v = w THEN {s} ELSE {})
  OBVIOUS
<1>1. toWorker[v] \in Seq(Letters(ToWorkers, size))
  BY DEF Sound, QueuesOK
<1>2. \/ toWorker'[v] = toWorker[v]
      \/ v = w /\ toWorker'[v] = Append(toWorker[v], Msg(action, s, fd))
  BY DEF Tell, Sound, QueuesOK
<1>3. About(Append(toWorker[v], Msg(action, s, fd)), a) \subseteq
        About(toWorker[v], a) \cup (IF a = action THEN {s} ELSE {})
  BY <1>1, QueuedAbout
<1> QED BY <1>2, <1>3

LEMMA ReportAbout ==
  ASSUME Sound, NEW w \in Workers, NEW action, NEW s, Report(w, action, s)
  PROVE  \A v \in Workers : \A a :
           About(toListener'[v], a) \subseteq About(toListener[v], a) \cup (IF a = action /\ v = w THEN {s} ELSE {})
<1> SUFFICES ASSUME NEW v \in Workers, NEW a
             PROVE  About(toListener'[v], a) \subseteq
                      About(toListener[v], a) \cup (IF a = action /\ v = w THEN {s} ELSE {})
  OBVIOUS
<1>1. toListener[v] \in Seq(Letters(ToActive, size))
  BY DEF Sound, QueuesOK
<1>2. \/ toListener'[v] = toListener[v]
      \/ v = w /\ toListener'[v] = Append(toListener[v], Msg(action, s, None))
  BY DEF Report, Sound, QueuesOK
<1>3. About(Append(toListener[v], Msg(action, s, None)), a) \subseteq
        About(toListener[v], a) \cup (IF a = action THEN {s} ELSE {})
  BY <1>1, QueuedAbout
<1> QED BY <1>2, <1>3

LEMMA ReceiveAbout ==
  ASSUME Sound, NEW w \in Workers, NEW action, Received(w, action)
  PROVE  /\ \A v \in Workers : \A a : About(toListener'[v], a) \subseteq About(toListener[v], a)
         /\ Head(toListener[w]).slot \in About(toListener[w], action)
<1>1. /\ toListener[w] \in Seq(Letters(ToActive, size)) /\ toListener[w] # <<>>
      /\ Head(toListener[w]).action = action
  BY DEF Received, Sound, QueuesOK
<1>2. \A v \in Workers : toListener'[v] = IF v = w THEN Tail(toListener[w]) ELSE toListener[v]
  BY DEF Received, Sound, QueuesOK
<1> QED BY <1>1, <1>2, TakenAbout

LEMMA AnswerAbout ==
  ASSUME Sound, NEW w \in Workers, NEW actions, Answered(w, actions)
  PROVE  /\ \A v \in Workers : \A a : About(toWorker'[v], a) \subseteq About(toWorker[v], a)
         /\ Head(toWorker[w]).slot \in About(toWorker[w], Head(toWorker[w]).action)
<1>1. toWorker[w] \in Seq(Letters(ToWorkers, size)) /\ toWorker[w] # <<>>
  BY DEF Answered, Sound, QueuesOK
<1>2. \A v \in Workers : toWorker'[v] = IF v = w THEN Tail(toWorker[w]) ELSE toWorker[v]
  BY DEF Answered, Sound, QueuesOK
<1> QED BY <1>1, <1>2, TakenAbout

LEMMA AnnouncedAbout ==
  ASSUME Sound, NEW action, NEW s, Announce(action, s)
  PROVE  \A a : About(broadcast', a) \subseteq About(broadcast, a) \cup (IF a = action THEN {s} ELSE {})
BY QueuedAbout DEF Announce, Sound, QueuesOK

(* A slot for which nothing that matters is new.                           *)
AlikeBut(s) ==
  /\ conn'[s].state = conn[s].state
  /\ conn[s].down = None => conn'[s].down = None
  /\ conn[s].up = None => conn'[s].up = None
  /\ \A a : About(broadcast', a) \subseteq About(broadcast, a) \cup (Slots \ {s})
  /\ \A w \in Workers :
       /\ worker'[w].slot = s => worker[w].slot = s /\ worker'[w].at = worker[w].at
       /\ s \in About(toListener'[w], "connect") => s \in About(toListener[w], "connect")
       /\ s \in About(toWorker'[w], "close") => s \in About(toWorker[w], "close")

Alike(s) ==
  /\ AlikeBut(s)
  /\ active'.slot = s => active' = active /\ (conn[s].pid # None => conn'[s].pid # None)

LEMMA ExpectsStill ==
  ASSUME NEW s \in Slots, Expects(s), AlikeBut(s), Entered(s)'
  PROVE  Expects(s)'
<1> USE DEF AlikeBut
<1>1. (Emptied(s) => Emptied(s)') /\ (Fresh(s) => Fresh(s)')
  BY DEF Emptied, Fresh
<1>2. Filled(s)'
  BY <1>1 DEF Expects, Filled
<1>3. Called(s)'
  BY DEF Expects, Called
<1>4. Begun(s)'
  BY <1>1 DEF Expects, Begun
<1>5. Asked(s)'
  BY <1>1 DEF Expects, Asked
<1> QED BY <1>2, <1>3, <1>4, <1>5 DEF Expects

LEMMA ExpectsAlike ==
  ASSUME NEW s \in Slots, Expects(s), Alike(s)
  PROVE  Expects(s)'
<1>1. AlikeBut(s) /\ (active'.slot = s => active' = active /\ (conn[s].pid # None => conn'[s].pid # None))
  BY DEF Alike
<1>2. (Emptied(s) => Emptied(s)') /\ (Fresh(s) => Fresh(s)')
  BY <1>1 DEF AlikeBut, Emptied, Fresh
<1>3. Entered(s)'
  BY <1>1, <1>2 DEF Expects, Entered, AlikeBut
<1> QED BY <1>1, <1>3, ExpectsStill

(* A slot that is not in use is expected to be nothing in particular.      *)
LEMMA NotLiveSlot ==
  ASSUME NEW s \in Slots, OneHand(s), ~Live(s)
  PROVE  /\ s \notin SlotsOf(broadcast)
         /\ \A w \in Workers :
              /\ s \notin Questions(toListener[w]) /\ s \notin SlotsOf(toWorker[w])
              /\ worker[w].slot = s => worker[w].at \notin {"accepted", "orphan_down", "connect", "orphan_up"}
         /\ active.slot = s => active.at \notin {"accept", "accepted", "announce", "adopt"}
BY DEF OneHand, Announcing, Taking, Asking, Telling, InOpening, InAdoption, Opening, Adopting, Mine

LEMMA LeftAlone ==
  ASSUME NEW s \in Slots, Filled(s)', Entered(s)', s \notin SlotsOf(broadcast'),
         \A w \in Workers :
           /\ s \notin Questions(toListener'[w]) /\ s \notin SlotsOf(toWorker'[w])
           /\ worker'[w].slot = s => worker'[w].at \notin {"accepted", "orphan_down", "connect"}
  PROVE  Expects(s)'
<1>1. \A w \in Workers : /\ s \notin About(toListener'[w], "connect")
                         /\ s \notin About(toWorker'[w], "close")
  BY AboutSlots
<1>2. \A a : s \notin About(broadcast', a)
  BY AboutSlots
<1> QED BY <1>1, <1>2 DEF Expects, Called, Begun, Asked

LEMMA OneSlotBalanced ==
  ASSUME Balanced, spoiled => spoiled', NEW s \in Slots,
         ~spoiled' => Tallied' /\ Expects(s)' /\ \A t \in Slots \ {s} : Alike(t)
  PROVE  Balanced'
BY ExpectsAlike DEF Balanced

LEMMA QuietBalanced ==
  ASSUME Balanced, spoiled => spoiled', ~spoiled' => Tallied' /\ \A s \in Slots : Alike(s)
  PROVE  Balanced'
BY ExpectsAlike DEF Balanced

(* A table with the same descriptors of the listener. *)
LEMMA SameSets ==
  ASSUME \A s \in Slots : conn'[s].down = conn[s].down /\ conn'[s].up = conn[s].up
  PROVE  Downs(conn') = Downs(conn) /\ Ups(conn') = Ups(conn) /\ (Distinct => Distinct')
<1>1. Downs(conn') = Downs(conn)
  BY DEF Downs
<1>2. Ups(conn') = Ups(conn)
  BY DEF Ups
<1>3. Distinct => Distinct'
  BY DEF Distinct
<1> QED BY <1>1, <1>2, <1>3

LEMMA QuietTally ==
  ASSUME Tallied, active.at \notin {"accepted", "connected", "down"},
         active'.at \notin {"accepted", "connected"}, UNCHANGED fds,
         \A s \in Slots : conn'[s].down = conn[s].down /\ conn'[s].up = conn[s].up,
         \A c \in Clients : client'[c] = "waiting" => client[c] = "waiting"
  PROVE  Tallied'
<1>1. Downs(conn') = Downs(conn) /\ Ups(conn') = Ups(conn) /\ Distinct'
  BY SameSets DEF Tallied
<1>2. open' = open /\ ups' = ups /\ Unnoted = {} /\ Unnoted' = {}
  BY DEF fds, Unnoted
<1>3. open = Downs(conn) /\ ups = Cardinality(Ups(conn))
  BY <1>2 DEF Tallied, Belongs, Counted
<1>4. Waits'
  BY <1>2 DEF Tallied, Waits
<1>5. Belongs'
  BY <1>1, <1>2, <1>3 DEF Belongs
<1>6. Counted'
  BY <1>1, <1>2, <1>3 DEF Counted
<1> QED BY <1>1, <1>4, <1>5, <1>6 DEF Tallied

LEMMA LeavesSlots ==
  ASSUME active' \in {Loop, Down}
  PROVE  active'.at \in {"loop", "down"} /\ \A s \in Slots : active'.slot # s
BY LifecycleAssumption DEF Loop, Down, At, Slots

LEMMA QuietListenerBalanced ==
  ASSUME Sound, Balanced, AppendEntry \/ \E w \in Workers : IpcEof(w)
  PROVE  Balanced'
<1>1. /\ UNCHANGED <<conn, fds, worker, polled, broadcast, toWorker, toListener, client, spoiled>>
      /\ active = Loop /\ active' \in {Down, At("append", 0, None)}
  BY DEF AppendEntry, Incoming, IpcEof, queues
<1>2. /\ active.at = "loop" /\ active'.at \in {"down", "append"} /\ active'.slot = 0
      /\ \A s \in Slots : active'.slot # s
  BY <1>1, LifecycleAssumption DEF Loop, Down, At, Slots
<1>3. \A s \in Slots : Alike(s)
  BY <1>1, <1>2 DEF Alike, AlikeBut
<1>4. Tallied => Tallied'
  BY <1>1, <1>2, QuietTally
<1> QED BY <1>1, <1>3, <1>4, QuietBalanced DEF Balanced

(* Where the listener dies while it has a connection to upstream that no   *)
(* slot knows of, the slot that it is for waits for it alone.              *)
LEMMA Strands ==
  ASSUME Sound, NEW s \in Slots, OneHand(s), Fits(s), Expects(s), active.slot = s, active.at = "connected"
  PROVE  Stranded(s)
<1>1. PICK w \in Workers : Answering(w, s)
  BY DEF Fits, Reaching, Answering
<1>2. Mine(w, s) /\ Nobody(s) /\ s \notin polled[w] /\ w # None /\ Fresh(s)
  BY <1>1, LifecycleAssumption DEF OneHand, InAnswer, Expects, Entered
<1>3. s \notin SlotsOf(broadcast)
  BY <1>2 DEF OneHand, Announcing, Mine
<1>4. \A v \in Workers : v # w => ~Mine(v, s)
  BY <1>2 DEF Mine
<1>5. \A v \in Workers : s \notin SlotsOf(toWorker[v])
  BY <1>1, <1>4 DEF OneHand, Telling
<1>6. \A v \in Workers : s \notin polled[v]
  BY <1>2, <1>4 DEF OneHand, Serving, Nobody
<1> QED BY <1>2, <1>3, <1>5, <1>6 DEF Stranded, Nobody

LEMMA ActiveFailsBalanced ==
  ASSUME Sound, Orderly, Fitting, Balanced, ActiveFails
  PROVE  Balanced'
<1>1. /\ UNCHANGED <<conn, open, ups, worker, polled, broadcast, toWorker, toListener, client, spoiled>>
      /\ active' = Down
  BY DEF ActiveFails, queues, fds
<1>2. active'.at = "down" /\ \A s \in Slots : active'.slot # s
  BY <1>1, LifecycleAssumption DEF Down, At, Slots
<1>3. \A s \in Slots : Alike(s)
  BY <1>1, <1>2 DEF Alike, AlikeBut
<1> SUFFICES ASSUME ~spoiled PROVE Tallied'
  BY <1>1, <1>3, QuietBalanced
<1>4. Tallied /\ \A s \in Slots : Expects(s) /\ OneHand(s) /\ Fits(s)
  BY DEF Balanced, Orderly, Fitting
<1>5. Distinct' /\ Waits'
  BY <1>1, <1>4 DEF Tallied, Distinct, Waits
<1>6. Belongs'
  BY <1>1, <1>2, <1>4 DEF Tallied, Belongs, Unnoted
<1>7. \A s \in Slots : Stranded(s) => Stranded(s)'
  BY <1>1 DEF Stranded, Fresh
<1>8. active.at = "connected" => \E s \in Slots : Stranded(s)
  BY <1>4, Places, Strands
<1>9. Counted'
  BY <1>1, <1>2, <1>4, <1>7, <1>8 DEF Tallied, Counted
<1> QED BY <1>5, <1>6, <1>9 DEF Tallied

LEMMA ClaimSlotBalanced ==
  ASSUME Sound, Orderly, Balanced, NEW s \in Slots, conn[s].state = "UNUSED", ClaimSlot(s),
         active.at \in {"loop", "append"}
  PROVE  Balanced'
<1>1. /\ UNCHANGED <<fds, worker, polled, broadcast, toWorker, toListener, client, spoiled>>
      /\ active' = At("accept", s, None)
  BY DEF ClaimSlot, queues
<1>2. active'.at = "accept" /\ active'.slot = s
  BY <1>1 DEF At
<1> SUFFICES ASSUME ~spoiled
             PROVE  Tallied' /\ Expects(s)' /\ \A t \in Slots \ {s} : Alike(t)
  BY <1>1, OneSlotBalanced
<1>3. Tallied /\ Expects(s) /\ OneHand(s)
  BY DEF Balanced, Orderly
<1>4. /\ conn'[s].state = "ACCEPTING" /\ conn'[s].down = None /\ conn'[s].up = None
      /\ \A t \in Slots \ {s} : conn'[t] = conn[t]
  BY DEF ClaimSlot, Unused, Sound, TableOK
<1>5. conn[s].down = None /\ conn[s].up = None
  BY <1>3 DEF Expects, Filled, Emptied
<1>6. Tallied'
  BY <1>1, <1>2, <1>3, <1>4, <1>5, QuietTally
<1>7. ~Live(s)
  BY DEF Live
<1>8. Filled(s)' /\ Entered(s)'
  BY <1>2, <1>4 DEF Filled, Entered
<1>9. Expects(s)'
  BY <1>1, <1>3, <1>7, <1>8, NotLiveSlot, LeftAlone
<1>10. \A t \in Slots \ {s} : Alike(t)
  BY <1>1, <1>2, <1>4 DEF Alike, AlikeBut
<1> QED BY <1>6, <1>9, <1>10

LEMMA ClaimBalanced ==
  ASSUME Sound, Orderly, Balanced, Claim
  PROVE  Balanced'
<1>1. Free \in SUBSET Slots /\ Free # {}
  BY Places DEF Claim, Free
<1>2. Min(Free) \in Free
  BY <1>1, LeastSlot
<1>3. /\ Min(Free) \in Slots /\ conn[Min(Free)].state = "UNUSED" /\ ClaimSlot(Min(Free))
      /\ active.at = "loop"
  BY <1>1, <1>2 DEF Claim, Free, Incoming, Loop, At
<1> QED BY <1>3, ClaimSlotBalanced

LEMMA PublishEntryBalanced ==
  ASSUME Sound, Orderly, Balanced, PublishEntry
  PROVE  Balanced'
<1>1. size \in 0 .. NumSlots /\ file \in 0 .. NumSlots /\ size < file
  BY DEF PublishEntry, Sound, TableOK, ActiveOK, Indices
<1>2. size + 1 \in Slots /\ ~(size + 1 <= size)
  BY <1>1, LifecycleAssumption DEF Slots
<1>3. conn[size + 1].state = "UNUSED" /\ ClaimSlot(size + 1) /\ active.at = "append"
  BY <1>2 DEF PublishEntry, Sound, TableOK
<1> QED BY <1>2, <1>3, ClaimSlotBalanced

LEMMA AcceptBalanced ==
  ASSUME Sound, Balanced, Accept
  PROVE  Balanced'
<1>1. PICK s \in Slots, c \in Clients :
        /\ s = active.slot /\ active.at = "accept" /\ active' = At("accepted", s, c)
        /\ client[c] = "waiting" /\ client' = [client EXCEPT ![c] = "accepted"]
        /\ open' = open \cup {c}
  BY Places DEF Accept
<1>2. UNCHANGED <<conn, ups, worker, polled, broadcast, toWorker, toListener, spoiled>>
  BY DEF Accept, queues
<1>3. active'.at = "accepted" /\ active'.slot = s /\ active'.arg = c
  BY <1>1 DEF At
<1> SUFFICES ASSUME ~spoiled
             PROVE  Tallied' /\ Expects(s)' /\ \A t \in Slots \ {s} : Alike(t)
  BY <1>2, OneSlotBalanced
<1>4. Tallied /\ Expects(s)
  BY DEF Balanced
<1>5. c \notin open /\ open = Downs(conn)
  BY <1>1, <1>4 DEF Tallied, Waits, Belongs, Unnoted
<1>6. Unnoted' = {c}
  BY <1>3 DEF Unnoted
<1>7. Distinct' /\ Counted'
  BY <1>1, <1>2, <1>3, <1>4 DEF Tallied, Distinct, Counted
<1>8. Belongs'
  BY <1>1, <1>2, <1>5, <1>6 DEF Belongs
<1>9. Waits'
  <2>1. client \in [Clients -> Fates]
    BY DEF Sound, HistoryOK, Fates
  <2> QED BY <1>1, <1>4, <2>1 DEF Tallied, Waits
<1>10. Entered(s)' /\ AlikeBut(s)
  BY <1>1, <1>2, <1>3, <1>4 DEF Expects, Entered, AlikeBut
<1>11. \A t \in Slots \ {s} : Alike(t)
  BY <1>2, <1>3 DEF Alike, AlikeBut
<1> QED BY <1>4, <1>7, <1>8, <1>9, <1>10, <1>11, ExpectsStill DEF Tallied

LEMMA NoteAcceptedBalanced ==
  ASSUME Sound, Orderly, Balanced, NoteAccepted
  PROVE  Balanced'
<1>1. PICK s \in Slots, c \in Clients :
        /\ s = active.slot /\ c = active.arg /\ active.at = "accepted" /\ active' = At("announce", s, None)
  BY Places DEF NoteAccepted, Sound, ActiveOK
<1>2. UNCHANGED <<fds, worker, polled, broadcast, toWorker, toListener, client, spoiled>>
  BY DEF NoteAccepted, queues
<1>3. active'.at = "announce" /\ active'.slot = s
  BY <1>1 DEF At
<1>4. /\ conn'[s].state = conn[s].state /\ conn'[s].down = c /\ conn'[s].up = conn[s].up
      /\ \A t \in Slots \ {s} : conn'[t] = conn[t]
  BY <1>1, EntryFields DEF NoteAccepted, Sound, TableOK, Entries
<1> SUFFICES ASSUME ~spoiled
             PROVE  Tallied' /\ Expects(s)' /\ \A t \in Slots \ {s} : Alike(t)
  BY <1>2, OneSlotBalanced
<1>5. Tallied /\ Expects(s) /\ OneHand(s)
  BY DEF Balanced, Orderly
<1>6. conn[s].state = "ACCEPTING" /\ conn[s].down = None /\ conn[s].up = None
  BY <1>1, <1>5 DEF Expects, Entered, Filled
<1>7. c # None
  BY <1>1, LifecycleAssumption
<1>8. Downs(conn') = Downs(conn) \cup {c} /\ Ups(conn') = Ups(conn)
  <2>1. Ups(conn') = Ups(conn)
    BY <1>4 DEF Ups
  <2>2. \A d : d \in Downs(conn') <=> d # None /\ \E t \in Slots : conn'[t].down = d
    BY DEF Downs
  <2>3. \A d : d \in Downs(conn) <=> d # None /\ \E t \in Slots : conn[t].down = d
    BY DEF Downs
  <2>4. \A d : d # None => ((\E t \in Slots : conn'[t].down = d) <=> d = c \/ \E t \in Slots : conn[t].down = d)
    BY <1>4, <1>6
  <2> QED BY <1>7, <2>1, <2>2, <2>3, <2>4
<1>9. Unnoted = {c} /\ Unnoted' = {} /\ open' = open /\ ups' = ups
  BY <1>1, <1>2, <1>3 DEF Unnoted, fds
<1>10. c \notin Downs(conn) /\ open = Downs(conn) \cup {c} /\ ups = Cardinality(Ups(conn))
  BY <1>1, <1>5, <1>9 DEF Tallied, Belongs, Counted
<1>11. Distinct'
  <2>1. \A t \in Slots : conn[t].down # c
    BY <1>7, <1>10 DEF Downs
  <2> QED BY <1>4, <1>5, <2>1 DEF Tallied, Distinct
<1>12. Belongs' /\ Counted'
  BY <1>3, <1>8, <1>9, <1>10 DEF Belongs, Counted
<1>13. Waits'
  BY <1>2, <1>5, <1>9 DEF Tallied, Waits
<1>14. Expects(s)'
  <2>1. Filled(s)' /\ Called(s)' /\ Begun(s)' /\ Entered(s)'
    BY <1>2, <1>3, <1>4, <1>5, <1>6 DEF Expects, Filled, Called, Begun, Entered, Fresh
  <2>2. conn[s].pid = None
    BY <1>1, <1>5 DEF OneHand, InOpening, Opening
  <2>3. \A w \in Workers : s \notin SlotsOf(toWorker[w])
    BY <1>5, <2>2, LifecycleAssumption DEF OneHand, Telling, Mine
  <2>4. Asked(s)'
    BY <1>2, <1>4, <1>5, <2>3, AboutSlots DEF Expects, Asked, Fresh
  <2> QED BY <2>1, <2>4 DEF Expects
<1>15. \A t \in Slots \ {s} : Alike(t)
  BY <1>2, <1>3, <1>4 DEF Alike, AlikeBut
<1> QED BY <1>11, <1>12, <1>13, <1>14, <1>15 DEF Tallied

LEMMA AnnounceAcceptedBalanced ==
  ASSUME Sound, Balanced, AnnounceAccepted
  PROVE  Balanced'
<1>1. PICK s \in Slots : s = active.slot /\ active.at = "announce" /\ active' = Loop /\ Announce("accepted", s)
  BY Places DEF AnnounceAccepted
<1>2. /\ UNCHANGED <<conn, fds, worker, polled, toWorker, toListener, client>>
      /\ spoiled => spoiled'
  BY <1>1 DEF AnnounceAccepted, Announce
<1>3. active'.at \in {"loop", "down"} /\ \A t \in Slots : active'.slot # t
  BY <1>1, LeavesSlots
<1> SUFFICES ASSUME ~spoiled
             PROVE  Tallied' /\ Expects(s)' /\ \A t \in Slots \ {s} : Alike(t)
  BY <1>2, OneSlotBalanced
<1>4. Tallied /\ Expects(s)
  BY DEF Balanced
<1>5. conn[s].state = "ACCEPTING"
  BY <1>1, <1>4 DEF Expects, Entered
<1>6. Tallied'
  BY <1>1, <1>2, <1>3, <1>4, QuietTally
<1>7. \A a : About(broadcast', a) \subseteq About(broadcast, a) \cup (IF a = "accepted" THEN {s} ELSE {})
  BY <1>1, AnnouncedAbout
<1>8. \A t \in Slots \ {s} : Alike(t)
  BY <1>2, <1>3, <1>7 DEF Alike, AlikeBut
<1>9. Expects(s)'
  BY <1>2, <1>3, <1>4, <1>5, <1>7 DEF Expects, Filled, Called, Begun, Asked, Entered, Emptied, Fresh
<1> QED BY <1>6, <1>8, <1>9

LEMMA AdoptBalanced ==
  ASSUME Sound, Balanced, Adopt
  PROVE  Balanced'
<1>1. UNCHANGED <<conn, fds, worker, polled, broadcast, toWorker, toListener, client, spoiled>> /\ active = Loop
  BY DEF Adopt, queues
<1>2. active' = active \/ \E s \in Slots : active' = At("adopt", s, conn[s].state)
  <2>1. {s \in Orphans : s >= next} \in SUBSET Slots
    BY DEF Orphans
  <2> QED BY <2>1, LeastSlot DEF Adopt
<1>3. active.at = "loop" /\ active'.at \in {"loop", "adopt"}
  BY <1>1, <1>2 DEF Loop, At
<1>4. Tallied => Tallied'
  BY <1>1, <1>3, QuietTally
<1>5. CASE active' = active
  <2>1. \A t \in Slots : Alike(t)
    BY <1>1, <1>5 DEF Alike, AlikeBut
  <2> QED BY <1>1, <1>4, <2>1, QuietBalanced DEF Balanced
<1>6. ASSUME NEW s \in Slots, active' = At("adopt", s, conn[s].state)
      PROVE  Balanced'
  <2>1. active'.at = "adopt" /\ active'.slot = s /\ active'.arg = conn[s].state
    BY <1>6 DEF At
  <2>2. \A t \in Slots \ {s} : Alike(t)
    BY <1>1, <2>1 DEF Alike, AlikeBut
  <2>3. AlikeBut(s) /\ Entered(s)'
    BY <1>1, <2>1 DEF AlikeBut, Entered
  <2> QED BY <1>1, <1>4, <2>2, <2>3, ExpectsStill, OneSlotBalanced DEF Balanced
<1> QED BY <1>2, <1>5, <1>6

LEMMA DistributeBalanced ==
  ASSUME Sound, Orderly, Fitting, Balanced, Distribute
  PROVE  Balanced'
<1>1. PICK s \in Slots :
      /\ s = active.slot /\ active.at = "adopt" /\ active' \in {Loop, Down}
      /\ UNCHANGED <<fds, worker, polled, toWorker, toListener, client>>
      /\ \/ UNCHANGED <<broadcast, spoiled>>
         \/ Announce("accepted", s) /\ active.arg = "ACCEPTING"
         \/ Announce("orphan_down", s) /\ active.arg \in {"CONNECTING", "POLL"}
  BY Places DEF Distribute
<1>2. spoiled => spoiled'
  BY <1>1 DEF Announce
<1>3. active'.at \in {"loop", "down"} /\ \A t \in Slots : active'.slot # t
  BY <1>1, LeavesSlots
<1>4. /\ conn'[s].state = IF active.arg = "CONNECTING" THEN "POLL" ELSE conn[s].state
      /\ conn'[s].down = conn[s].down /\ conn'[s].up = conn[s].up
      /\ \A t \in Slots \ {s} : conn'[t] = conn[t]
  BY <1>1, EntryFields DEF Distribute, Sound, TableOK, Entries
<1> SUFFICES ASSUME ~spoiled'
             PROVE  Tallied' /\ Expects(s)' /\ \A t \in Slots \ {s} : Alike(t)
  BY <1>2, OneSlotBalanced
<1>5. Tallied /\ Expects(s) /\ ToldOnce /\ OneHand(s) /\ Fits(s)
  BY <1>2 DEF Balanced, Orderly, Fitting
<1>6. Tallied'
  BY <1>1, <1>3, <1>4, <1>5, QuietTally
<1>7. active.arg = "ACCEPTING" \/ (active.arg \in {"CONNECTING", "POLL"} /\ conn[s].up # None)
  BY <1>1, <1>5 DEF Fits, Adoptable, Adopting
<1>8. \/ Announce("accepted", s) /\ active.arg = "ACCEPTING"
      \/ Announce("orphan_down", s) /\ active.arg \in {"CONNECTING", "POLL"}
  BY <1>1, <1>7 DEF Distribute
<1>9. s \notin SlotsOf(broadcast) /\ Nobody(s) /\ \A w \in Workers : conn[s].pid # w
  BY <1>5, <1>8, AnnounceEffect
<1>10. conn[s].pid = None
  BY <1>9, EntryFields
<1>11. conn'[s].state = IF active.arg = "ACCEPTING" THEN "ACCEPTING" ELSE "POLL"
  BY <1>1, <1>4, <1>5, <1>7, <1>10 DEF Expects, Entered
<1>12. \A a : About(broadcast', a) \subseteq About(broadcast, a) \cup
         (IF a = IF active.arg = "ACCEPTING" THEN "accepted" ELSE "orphan_down" THEN {s} ELSE {})
  <2>1. CASE active.arg = "ACCEPTING"
    <3>1. Announce("accepted", s)
      BY <1>8, <2>1
    <3> QED BY <2>1, <3>1, AnnouncedAbout
  <2>2. CASE active.arg # "ACCEPTING"
    <3>1. Announce("orphan_down", s)
      BY <1>8, <2>2
    <3> QED BY <2>2, <3>1, AnnouncedAbout
  <2> QED BY <2>1, <2>2
<1>13. \A t \in Slots \ {s} : Alike(t)
  BY <1>1, <1>3, <1>4, <1>12 DEF Alike, AlikeBut
<1>14. \A w \in Workers : /\ s \notin About(toListener[w], "connect")
                          /\ s \notin About(toWorker[w], "close")
  <2>1. \A w \in Workers : s \notin SlotsOf(toWorker[w])
    BY <1>1, <1>5 DEF OneHand, InAdoption, Adopting
  <2>2. \A w \in Workers : s \notin Questions(toListener[w])
    BY <1>5, <1>9 DEF OneHand, Asking, Mine
  <2> QED BY <2>1, <2>2, AboutSlots
<1>15. Filled(s)'
  BY <1>1, <1>4, <1>5, <1>10, <1>11 DEF Expects, Filled, Entered
<1>16. Called(s)'
  <2>1. \A a : s \notin About(broadcast, a)
    BY <1>9, AboutSlots
  <2> QED BY <1>11, <1>12, <2>1 DEF Called
<1>17. Begun(s)' /\ Asked(s)' /\ Entered(s)'
  BY <1>1, <1>3, <1>9, <1>14 DEF Begun, Asked, Entered, Nobody
<1> QED BY <1>6, <1>13, <1>15, <1>16, <1>17 DEF Expects

(* A worker's question is received and answered. *)
LEMMA ConnectBalanced ==
  ASSUME Sound, Balanced, NEW w \in Workers, Connect(w)
  PROVE  Balanced'
<1>1. PICK s \in Slots : s = Head(toListener[w]).slot
  BY Receives DEF Connect
<1>2. /\ Received(w, "connect") /\ active.at = "loop" /\ active' = At("connected", s, w)
      /\ ups' = ups + 1 /\ UNCHANGED <<conn, open, worker, polled, broadcast, toWorker, client, spoiled>>
  BY <1>1 DEF Connect, Received, Loop, At
<1>3. active'.at = "connected" /\ active'.slot = s
  BY <1>2 DEF At
<1> SUFFICES ASSUME ~spoiled
             PROVE  Tallied' /\ Expects(s)' /\ \A t \in Slots \ {s} : Alike(t)
  BY <1>2, OneSlotBalanced
<1>4. Tallied /\ Expects(s)
  BY DEF Balanced
<1>5. /\ \A v \in Workers : \A a : About(toListener'[v], a) \subseteq About(toListener[v], a)
      /\ s \in About(toListener[w], "connect")
  BY <1>1, <1>2, ReceiveAbout
<1>6. Fresh(s)
  BY <1>4, <1>5 DEF Expects, Asked
<1>7. Entered(s)' /\ AlikeBut(s)
  BY <1>2, <1>3, <1>5, <1>6 DEF Entered, AlikeBut, Fresh
<1>8. \A t \in Slots \ {s} : Alike(t)
  BY <1>2, <1>3, <1>5 DEF Alike, AlikeBut
<1>9. Tallied'
  <2>1. ups = Cardinality(Ups(conn)) /\ Unnoted = {} /\ Unnoted' = {}
    BY <1>2, <1>3, <1>4 DEF Tallied, Counted, Unnoted
  <2>2. Distinct' /\ Waits'
    BY <1>2, <1>4 DEF Tallied, Distinct, Waits
  <2>3. Belongs' /\ Counted'
    BY <1>2, <1>3, <1>4, <2>1 DEF Tallied, Belongs, Counted
  <2> QED BY <2>2, <2>3 DEF Tallied
<1> QED BY <1>4, <1>7, <1>8, <1>9, ExpectsStill

LEMMA NoteConnectedBalanced ==
  ASSUME Sound, Orderly, Fitting, Balanced, NoteConnected
  PROVE  Balanced'
<1>1. PICK s \in Slots : s = active.slot
  BY Places DEF NoteConnected
<1>2. active.at = "connected" /\ active'.at = "answer" /\ active'.slot = s
  <2>1. active \in ActiveAt(size)
    BY DEF NoteConnected, Sound, ActiveOK, ActiveAway
  <2> QED BY <1>1, <2>1 DEF NoteConnected, ActiveAt
<1>3. /\ conn'[s].state = conn[s].state /\ conn'[s].down = conn[s].down /\ conn'[s].up = Upstream
      /\ \A t \in Slots \ {s} : conn'[t] = conn[t]
      /\ UNCHANGED <<open, ups, worker, polled, broadcast, toWorker, toListener, client, spoiled>>
  BY <1>1, EntryFields DEF NoteConnected, queues, fds, Sound, TableOK, Entries
<1> SUFFICES ASSUME ~spoiled
             PROVE  Tallied' /\ Expects(s)' /\ \A t \in Slots \ {s} : Alike(t)
  BY <1>3, OneSlotBalanced
<1>4. Tallied /\ Expects(s) /\ OneHand(s) /\ Fits(s)
  BY DEF Balanced, Orderly, Fitting
<1>5. Fresh(s) /\ Stranded(s)
  BY <1>1, <1>2, <1>4, Strands DEF Stranded
<1>6. ups = Cardinality(Ups(conn)) + 1 /\ Unnoted = {} /\ Unnoted' = {}
  BY <1>2, <1>4 DEF Tallied, Counted, Unnoted
<1>7. Cardinality(Ups(conn')) = Cardinality(Ups(conn)) + 1
  <2>1. Ups(conn') = Ups(conn) \cup {s} /\ s \notin Ups(conn)
    BY <1>3, <1>5 DEF Ups, Fresh, None, Upstream
  <2>2. Ups(conn) \in SUBSET Slots
    BY DEF Ups
  <2> QED BY <2>1, <2>2, SlotSets, FS_AddElement
<1>8. Downs(conn') = Downs(conn) /\ Distinct'
  <2>1. \A t \in Slots : conn'[t].down = conn[t].down
    BY <1>3
  <2> QED BY <1>4, <2>1 DEF Downs, Tallied, Distinct
<1>9. Tallied'
  BY <1>2, <1>3, <1>4, <1>6, <1>7, <1>8 DEF Tallied, Waits, Belongs, Counted
<1>10. Filled(s)' /\ Entered(s)'
  BY <1>2, <1>3, <1>5 DEF Filled, Entered, Fresh
<1>11. \A v \in Workers : s \notin Questions(toListener[v])
  <2>1. PICK w \in Workers : Answering(w, s)
    BY <1>1, <1>2, <1>4 DEF Fits, Reaching, Answering
  <2> QED BY <1>4, <2>1 DEF OneHand, Asking, InAnswer, Mine
<1>12. Expects(s)'
  BY <1>3, <1>5, <1>10, <1>11, LeftAlone DEF Stranded
<1>13. \A t \in Slots \ {s} : Alike(t)
  BY <1>2, <1>3 DEF Alike, AlikeBut
<1> QED BY <1>9, <1>12, <1>13

(* The descriptors of one slot are closed, and all that no slot has any    *)
(* more, no others.                                                        *)
LEMMA ClosedTally ==
  ASSUME Sound, Tallied, NEW s \in Slots, NEW state, NEW fate \in Fates \ {"waiting"}, Closed({s}, fate),
         conn' = Released(conn, {s}, state),
         active.at \notin {"accepted", "connected", "down"}, active'.at \notin {"accepted", "connected"}
  PROVE  Tallied'
<1>1. /\ conn'[s].down = None /\ conn'[s].up = None
      /\ \A t \in Slots \ {s} : conn'[t] = conn[t]
  BY EntryFields DEF Released, Entries
<1>2. Unnoted = {} /\ Unnoted' = {} /\ open = Downs(conn) /\ ups = Cardinality(Ups(conn))
  <2>1. Unnoted = {} /\ Unnoted' = {}
    BY DEF Unnoted
  <2>2. open = Downs(conn)
    BY <2>1 DEF Tallied, Belongs
  <2>3. ups = Cardinality(Ups(conn))
    BY DEF Tallied, Counted
  <2> QED BY <2>1, <2>2, <2>3
<1>3. Distinct'
  BY <1>1 DEF Tallied, Distinct
<1>4. open' = open \ {conn[s].down}
  BY DEF Closed
<1>5. Downs(conn') = Downs(conn) \ {conn[s].down}
  <2>1. \A d : d \in Downs(conn') <=> d # None /\ \E t \in Slots \ {s} : conn[t].down = d
    BY <1>1 DEF Downs
  <2>2. \A d : d \in Downs(conn) <=> d # None /\ \E t \in Slots : conn[t].down = d
    BY DEF Downs
  <2>3. \A t \in Slots \ {s} : conn[t].down # None => conn[t].down # conn[s].down
    BY DEF Tallied, Distinct
  <2> QED BY <2>1, <2>2, <2>3
<1>6. Cardinality(Ups(conn')) = ups'
  <2>1. Ups(conn') = Ups(conn) \ {s}
    BY <1>1 DEF Ups, None, Upstream
  <2>2. IsFiniteSet(Ups(conn))
    BY SlotSets DEF Ups
  <2>3. Cardinality(Ups(conn')) = Cardinality(Ups(conn)) - Cardinality(Ups(conn) \cap {s})
    BY <2>1, <2>2, FS_Difference
  <2>4. ups' = ups - Cardinality({s} \cap Ups(conn)) /\ Ups(conn) \cap {s} = {s} \cap Ups(conn)
    BY DEF Closed
  <2> QED BY <1>2, <2>3, <2>4
<1>7. Waits'
  <2>1. open' \subseteq open
    BY <1>4
  <2>2. \A c \in Clients : client'[c] = "waiting" => client[c] = "waiting"
    BY DEF Closed, Fates
  <2> QED BY <2>1, <2>2 DEF Tallied, Waits
<1>8. Belongs' /\ Counted'
  BY <1>2, <1>4, <1>5, <1>6 DEF Belongs, Counted
<1> QED BY <1>3, <1>7, <1>8 DEF Tallied

(* Refuse: what was asked for is still missing. *)
LEMMA RefusedBalanced ==
  ASSUME Sound, Balanced, NEW s \in Slots, NEW w, NEW fate \in Fates \ {"waiting"}, Refuse(s, w, fate),
         active.at \in {"loop", "answer"},
         \A v \in Workers : \A a : About(toListener'[v], a) \subseteq About(toListener[v], a),
         UNCHANGED <<worker, polled, broadcast, toWorker, spoiled>>
  PROVE  Balanced'
<1>1. active'.at = "refuse" /\ active'.slot = s
  BY DEF Refuse, At
<1>2. /\ conn' = Released(conn, {s}, conn[s].state) /\ Closed({s}, fate)
      /\ conn[s] \in Entries
  BY EntryFields DEF Refuse
<1> SUFFICES ASSUME ~spoiled
             PROVE  Tallied' /\ Expects(s)' /\ \A t \in Slots \ {s} : Alike(t)
  BY OneSlotBalanced
<1>3. Tallied /\ Expects(s)
  BY DEF Balanced
<1>4. Tallied'
  BY <1>1, <1>2, <1>3, ClosedTally
<1>5. /\ conn'[s].state = conn[s].state /\ conn'[s].down = None /\ conn'[s].up = None
      /\ \A t \in Slots \ {s} : conn'[t] = conn[t]
  BY <1>2 DEF Released, Entries
<1>6. AlikeBut(s) /\ Entered(s)'
  BY <1>1, <1>5 DEF AlikeBut, Entered, Emptied
<1>7. \A t \in Slots \ {s} : Alike(t)
  BY <1>1, <1>5 DEF Alike, AlikeBut
<1> QED BY <1>3, <1>4, <1>6, <1>7, ExpectsStill

LEMMA ConnectFailsBalanced ==
  ASSUME Sound, Balanced, NEW w \in Workers, ConnectFails(w)
  PROVE  Balanced'
<1>1. PICK s \in Slots : s = Head(toListener[w]).slot
  BY Receives DEF ConnectFails
<1>2. /\ Received(w, "connect") /\ active.at = "loop" /\ Refuse(s, w, "refused")
      /\ UNCHANGED <<worker, polled, broadcast, toWorker, spoiled>>
  BY <1>1 DEF ConnectFails, Received, Loop, At
<1>3. \A v \in Workers : \A a : About(toListener'[v], a) \subseteq About(toListener[v], a)
  BY <1>2, ReceiveAbout
<1>4. "refused" \in Fates \ {"waiting"}
  BY DEF Fates
<1> QED BY <1>2, <1>3, <1>4, RefusedBalanced

LEMMA AnswerFailsBalanced ==
  ASSUME Sound, Balanced, AnswerFails
  PROVE  Balanced'
<1>1. PICK s \in Slots : s = active.slot
  BY Places DEF AnswerFails
<1>2. /\ active.at = "answer" /\ Refuse(s, active.arg, "dropped")
      /\ UNCHANGED <<worker, polled, broadcast, toWorker, toListener, spoiled>>
  BY <1>1 DEF AnswerFails, queues
<1>3. "dropped" \in Fates \ {"waiting"}
  BY DEF Fates
<1> QED BY <1>2, <1>3, RefusedBalanced

(* A worker is told, of a refusal that its slot is empty. *)
LEMMA ToldBalanced ==
  ASSUME Sound, Balanced, NEW w, NEW s \in Slots, NEW action, NEW fd,
         Tell(w, action, s, fd) \/ UNCHANGED toWorker,
         ~spoiled /\ action = "close" => Emptied(s),
         active.at \notin {"accepted", "connected", "down"}, active' \in {Loop, Down},
         \A v \in Workers : \A a : About(toListener'[v], a) \subseteq About(toListener[v], a),
         UNCHANGED <<conn, fds, worker, polled, broadcast, client, spoiled>>
  PROVE  Balanced'
<1>1. active'.at \in {"loop", "down"} /\ \A t \in Slots : active'.slot # t
  BY LeavesSlots
<1>2. \A v \in Workers : \A a :
        About(toWorker'[v], a) \subseteq About(toWorker[v], a) \cup (IF a = action /\ v = w THEN {s} ELSE {})
  BY TellAbout
<1> SUFFICES ASSUME ~spoiled
             PROVE  Tallied' /\ Expects(s)' /\ \A t \in Slots \ {s} : Alike(t)
  BY OneSlotBalanced
<1>3. Tallied /\ Expects(s)
  BY DEF Balanced
<1>4. Tallied'
  BY <1>1, <1>3, QuietTally
<1>5. \A t \in Slots \ {s} : Alike(t)
  BY <1>1, <1>2 DEF Alike, AlikeBut
<1>6. Filled(s)' /\ Called(s)' /\ Begun(s)' /\ Entered(s)'
  BY <1>1, <1>3 DEF Expects, Filled, Called, Begun, Entered, Emptied, Fresh
<1>7. Asked(s)'
  BY <1>2, <1>3 DEF Expects, Asked, Emptied, Fresh
<1> QED BY <1>4, <1>5, <1>6, <1>7 DEF Expects

LEMMA AnswerConnectedBalanced ==
  ASSUME Sound, Balanced, AnswerConnected
  PROVE  Balanced'
<1>1. PICK s \in Slots : s = active.slot
  BY Places DEF AnswerConnected
<1>2. PICK w : w = active.arg
  OBVIOUS
<1>3. /\ Tell(w, "connected", s, Upstream) /\ active.at = "answer" /\ active' = Loop
      /\ UNCHANGED <<conn, fds, worker, polled, broadcast, toListener, client, spoiled>>
  BY <1>1, <1>2 DEF AnswerConnected
<1> QED BY <1>3, ToldBalanced

LEMMA TellRefusedBalanced ==
  ASSUME Sound, Balanced, TellRefused
  PROVE  Balanced'
<1>1. PICK s \in Slots : s = active.slot
  BY Places DEF TellRefused
<1>2. PICK w : w = active.arg
  OBVIOUS
<1>3. /\ Tell(w, "close", s, None) \/ UNCHANGED toWorker
      /\ active.at = "refuse" /\ active' \in {Loop, Down}
      /\ UNCHANGED <<conn, fds, worker, polled, broadcast, toListener, client, spoiled>>
  BY <1>1, <1>2 DEF TellRefused
<1>4. ~spoiled => Emptied(s)
  BY <1>1, <1>3 DEF Balanced, Expects, Entered
<1> QED BY <1>3, <1>4, ToldBalanced

LEMMA PassUpstreamBalanced ==
  ASSUME Sound, Balanced, NEW w \in Workers, PassUpstream(w)
  PROVE  Balanced'
<1>1. PICK s \in Slots : s = Head(toListener[w]).slot
  BY Receives DEF PassUpstream
<1>2. PICK fd : fd = conn[s].up
  OBVIOUS
<1>3. /\ Received(w, "orphan_up") /\ active = Loop /\ active' \in {Loop, Down}
      /\ Tell(w, "orphan_up", s, fd) \/ UNCHANGED toWorker
      /\ UNCHANGED <<conn, fds, worker, polled, broadcast, client, spoiled>>
  BY <1>1, <1>2 DEF PassUpstream, Received
<1>4. active.at = "loop"
  BY <1>3 DEF Loop, At
<1>5. \A v \in Workers : \A a : About(toListener'[v], a) \subseteq About(toListener[v], a)
  BY <1>3, ReceiveAbout
<1> QED BY <1>3, <1>4, <1>5, ToldBalanced

LEMMA CloseBalanced ==
  ASSUME Sound, Orderly, Balanced, NEW w \in Workers, Close(w)
  PROVE  Balanced'
<1>1. PICK s \in Slots : s = Head(toListener[w]).slot
  BY Receives DEF Close
<1>2. /\ Received(w, "close") /\ active = Loop /\ active' \in {Loop, Down}
      /\ UNCHANGED <<worker, polled, broadcast, toWorker, spoiled>>
      /\ \/ UNCHANGED <<conn, fds, client>>
         \/ /\ Over(conn[s]) /\ conn' = Released(conn, {s}, "UNUSED")
            /\ \E fate \in {"reset", "served"} : Closed({s}, fate)
  BY <1>1 DEF Close, Received, fds
<1>3. active.at = "loop" /\ active'.at \in {"loop", "down"} /\ \A t \in Slots : active'.slot # t
  BY <1>2, LeavesSlots DEF Loop, At
<1>4. \A v \in Workers : \A a : About(toListener'[v], a) \subseteq About(toListener[v], a)
  BY <1>2, ReceiveAbout
<1> SUFFICES ASSUME ~spoiled
             PROVE  Tallied' /\ Expects(s)' /\ \A t \in Slots \ {s} : Alike(t)
  BY <1>2, OneSlotBalanced
<1>5. Tallied /\ Expects(s) /\ ToldOnce /\ OneHand(s)
  BY DEF Balanced, Orderly
<1>6. CASE UNCHANGED <<conn, fds, client>>
  <2>1. Tallied'
    BY <1>3, <1>5, <1>6, QuietTally
  <2>2. \A t \in Slots : Alike(t)
    BY <1>2, <1>3, <1>4, <1>6 DEF Alike, AlikeBut
  <2> QED BY <1>5, <2>1, <2>2, ExpectsAlike
<1>7. ASSUME Over(conn[s]), conn' = Released(conn, {s}, "UNUSED"), NEW fate \in {"reset", "served"},
             Closed({s}, fate)
      PROVE  Tallied' /\ Expects(s)' /\ \A t \in Slots \ {s} : Alike(t)
  <2>1. Tallied'
    <3>1. fate \in Fates \ {"waiting"}
      BY DEF Fates
    <3> QED BY <1>3, <1>5, <1>7, <3>1, ClosedTally
  <2>2. /\ conn'[s].state = "UNUSED" /\ conn'[s].down = None /\ conn'[s].up = None
        /\ \A t \in Slots \ {s} : conn'[t] = conn[t]
    BY <1>7, EntryFields DEF Released, Entries
  <2>3. \A t \in Slots \ {s} : Alike(t)
    BY <1>2, <1>3, <1>4, <2>2 DEF Alike, AlikeBut
  <2>4. Filled(s)' /\ Entered(s)'
    BY <1>3, <2>2 DEF Filled, Emptied, Entered
  <2>5. ~Live(s)
    BY <1>7 DEF Live, Over
  <2>6. \A v \in Workers : Questions(toListener'[v]) \subseteq Questions(toListener[v])
    BY <1>2, <1>5, ReceiveEffect
  <2>7. Expects(s)'
    BY <1>2, <1>5, <2>4, <2>5, <2>6, NotLiveSlot, LeftAlone
  <2> QED BY <2>1, <2>3, <2>7
<1> QED BY <1>2, <1>6, <1>7

(* A new listener closes what it cannot match, and what it matches is one  *)
(* descriptor that no slot has: one of a client, for a slot that accepts,  *)
(* because the slot of one to upstream is known to wait for it.            *)
LEMMA RecoveredTally ==
  ASSUME Sound, Tallied, active.at \in {"loop", "down"}, NEW C0 \in [Slots -> Entries], Recover(C0),
         \A s \in Slots : /\ C0[s].state = conn[s].state
                          /\ C0[s].down = conn[s].down /\ C0[s].up = conn[s].up
  PROVE  /\ Tallied'
         /\ \A s \in Slots : /\ Over(conn[s]) => conn'[s].down = None /\ conn'[s].up = None
                             /\ conn[s].state # "CONNECTING" /\ ~Over(conn[s]) => conn'[s].up = conn[s].up
                             /\ conn[s].state # "ACCEPTING" /\ ~Over(conn[s]) => conn'[s].down = conn[s].down
                             /\ active.at = "loop" /\ ~Over(conn[s]) =>
                                  conn'[s].down = conn[s].down /\ conn'[s].up = conn[s].up
<1> DEFINE ended   == {s \in Slots : Over(conn[s])}
           C       == Released(C0, ended, "UNUSED")
           held    == Cardinality(ended \cap Ups(conn))
           closed  == {conn[s].down : s \in ended}
           lostOnes == (open \ closed) \ Downs(C)
           lostUps == ups - held - Cardinality(Ups(C))
           lost    == Cardinality(lostOnes) + lostUps
           found   == IF lostOnes # {} THEN CHOOSE c \in lostOnes : TRUE ELSE Upstream
           accepting  == {s \in Slots : C[s].state = "ACCEPTING" /\ C[s].down = None}
           connecting == {s \in Slots : C[s].state = "CONNECTING" /\ C[s].up = None}
           match   == lost = 1 /\ Cardinality(accepting \cup connecting) = 1
           R       == [s \in Slots |->
                        IF match /\ s \in accepting THEN [C[s] EXCEPT !.down = found]
                        ELSE IF match /\ s \in connecting THEN [C[s] EXCEPT !.up = found]
                        ELSE C[s]]
<1>1. /\ conn' = R
      /\ open' = Downs(R) /\ ups' = Cardinality(Ups(R))
      /\ client' = [c \in Clients |->
           IF \E s \in ended : conn[s].down = c
           THEN IF \E s \in ended : conn[s].down = c /\ conn[s].state = "ERROR" THEN "reset" ELSE "served"
           ELSE IF c \in lostOnes /\ ~match THEN "dropped" ELSE client[c]]
      /\ active' \in {Loop, Down}
  BY DEF Recover
<1>2. ASSUME NEW s \in Slots
      PROVE  /\ C[s] \in Entries /\ (s \in ended <=> Over(conn[s]))
             /\ s \in ended => C[s].state = "UNUSED" /\ C[s].down = None /\ C[s].up = None
             /\ s \notin ended => C[s] = C0[s]
  <2>1. s \in ended <=> Over(conn[s])
    OBVIOUS
  <2> HIDE DEF ended
  <2>2. "UNUSED" \in States /\ C0[s] \in Entries
    BY DEF States
  <2>3. C \in [Slots -> Entries]
    BY <2>2, EntriesReleased
  <2>4. C[s] = IF s \in ended THEN [C0[s] EXCEPT !.state = "UNUSED", !.down = None, !.up = None] ELSE C0[s]
    BY DEF Released
  <2> QED BY <2>1, <2>2, <2>3, <2>4 DEF Entries
<1>3. lostUps = ups - Cardinality(Ups(conn))
  <2>1. Ups(C) = Ups(conn) \ ended
    <3> HIDE DEF C, ended
    <3> QED BY <1>2 DEF Ups, None, Upstream
  <2>2. IsFiniteSet(Ups(conn)) /\ Cardinality(Ups(conn)) \in Nat
    BY SlotSets DEF Ups
  <2> HIDE DEF C, ended
  <2>3. Cardinality(Ups(C)) = Cardinality(Ups(conn)) - Cardinality(Ups(conn) \cap ended)
    BY <2>1, <2>2, FS_Difference
  <2>4. Ups(conn) \cap ended = ended \cap Ups(conn)
    OBVIOUS
  <2>5. Cardinality(Ups(conn) \cap ended) \in Nat /\ ups \in Int
    <3>1. Ups(conn) \cap ended \in SUBSET Slots
      BY DEF Ups
    <3> QED BY <3>1, SlotSets DEF Sound, FdsOK
  <2>6. lostUps = ups - Cardinality(Ups(conn) \cap ended) - (Cardinality(Ups(conn)) - Cardinality(Ups(conn) \cap ended))
    BY <2>3, <2>4
  <2> QED BY <2>2, <2>5, <2>6
<1>4. Cardinality(Ups(conn)) \in Nat
  BY SlotSets DEF Ups
<1>5. lostUps = 1 => connecting # {}
  <2> SUFFICES ASSUME lostUps = 1 PROVE connecting # {}
    OBVIOUS
  <2>1. ups # Cardinality(Ups(conn))
    BY <1>3, <1>4
  <2>2. PICK s \in Slots : Stranded(s)
    BY <2>1 DEF Tallied, Counted
  <2> HIDE DEF C, ended
  <2>3. C[s].state = "CONNECTING" /\ C[s].up = None
    BY <1>2, <2>2 DEF Stranded, Fresh, Over
  <2> QED BY <2>3
<1>6. /\ lostOnes \subseteq open /\ lostOnes \cap Downs(C) = {}
      /\ found \in lostOnes \/ (lostOnes = {} /\ found = Upstream)
  OBVIOUS
<1>7. active.at = "loop" => ~match
  <2> SUFFICES ASSUME active.at = "loop" PROVE lost = 0
    OBVIOUS
  <2>1. ups = Cardinality(Ups(conn)) /\ open = Downs(conn)
    <3>1. Unnoted = {}
      BY DEF Unnoted
    <3> QED BY <3>1 DEF Tallied, Belongs, Counted
  <2>2. lostUps = 0
    BY <1>3, <1>4, <2>1
  <2>3. lostOnes = {}
    <3>1. \A s \in Slots : conn[s].down \in closed \/ C[s].down = conn[s].down
      <4> HIDE DEF C
      <4> QED BY <1>2
    <3> HIDE DEF C, closed
    <3> QED BY <2>1, <3>1 DEF Downs
  <2>4. Cardinality(lostOnes) = 0
    BY <2>3, FS_EmptySet
  <2> QED BY <2>2, <2>4
<1>8. match => /\ \A s, t \in accepting \cup connecting : s = t
               /\ accepting # {} => lostOnes # {}
  <2> SUFFICES ASSUME match
               PROVE  /\ \A s, t \in accepting \cup connecting : s = t
                      /\ accepting # {} => lostOnes # {}
    OBVIOUS
  <2>1. lost = 1 /\ Cardinality(accepting \cup connecting) = 1
    OBVIOUS
  <2>2. accepting \cup connecting \in SUBSET Slots
    OBVIOUS
  <2>3. \A s : ~(s \in accepting /\ s \in connecting)
    OBVIOUS
  <2> HIDE DEF accepting, connecting
  <2>4. \E x : accepting \cup connecting = {x}
    BY <2>1, <2>2, SlotSets, FS_Singleton
  <2>5. lostOnes = {} => lostUps = 1
    <3>1. lostOnes = {} => Cardinality(lostOnes) = 0
      BY FS_EmptySet
    <3>2. lostUps \in Int
      BY <1>3, <1>4 DEF Sound, FdsOK
    <3> HIDE DEF lostOnes, lostUps
    <3> QED BY <2>1, <3>1, <3>2
  <2> QED BY <1>5, <2>3, <2>4, <2>5
<1>9. ASSUME NEW s \in Slots
      PROVE  /\ conn'[s].down = IF match /\ s \in accepting THEN found ELSE C[s].down
             /\ conn'[s].up \in {C[s].up, found}
             /\ ~(match /\ s \in connecting) => conn'[s].up = C[s].up
             /\ s \in accepting => C[s].state = "ACCEPTING" /\ C[s].down = None
             /\ s \in connecting => C[s].state = "CONNECTING" /\ C[s].up = None
  <2>1. conn'[s] = R[s]
    BY <1>1
  <2>2. /\ s \in accepting => C[s].state = "ACCEPTING" /\ C[s].down = None
        /\ s \in connecting => C[s].state = "CONNECTING" /\ C[s].up = None
    OBVIOUS
  <2> HIDE DEF C, accepting, connecting, match, found
  <2> QED BY <1>2, <2>1, <2>2 DEF Entries
<1> HIDE DEF C, R, ended, closed, lostOnes, accepting, connecting, match, found, lostUps, lost, held
<1>10. ASSUME NEW s \in Slots
       PROVE  /\ C[s].down = conn[s].down \/ C[s].down = None
              /\ Over(conn[s]) => conn'[s].down = None /\ conn'[s].up = None
              /\ ~Over(conn[s]) => C[s].down = conn[s].down /\ C[s].up = conn[s].up /\ C[s].state = conn[s].state
  BY <1>2, <1>9
<1>11. \A s \in Slots : C[s].down # None => C[s].down \in Downs(C) /\ C[s].down \in Downs(conn)
  BY <1>10 DEF Downs
<1>12. Distinct'
  <2> SUFFICES ASSUME NEW s \in Slots, NEW t \in Slots, conn'[s].down = conn'[t].down, conn'[s].down # None
               PROVE  s = t
    BY DEF Distinct
  <2>1. CASE ~(match /\ s \in accepting) /\ ~(match /\ t \in accepting)
    <3>1. conn'[s].down = C[s].down /\ conn'[t].down = C[t].down
      BY <1>9, <2>1
    <3>2. C[s].down = conn[s].down /\ C[t].down = conn[t].down
      BY <1>10, <3>1
    <3>3. conn[s].down = conn[t].down /\ conn[s].down # None /\ Distinct
      BY <3>1, <3>2 DEF Tallied
    <3> QED BY <3>3 DEF Distinct
  <2>2. ASSUME match, NEW x \in Slots, NEW y \in Slots, x \in accepting, conn'[x].down = conn'[y].down
        PROVE  x = y
    <3>1. found \in lostOnes /\ conn'[x].down = found
      BY <1>6, <1>8, <1>9, <2>2
    <3>2. found \notin Downs(C) /\ found # None
      BY <1>6, <3>1 DEF Sound, FdsOK
    <3>3. y \in accepting
      BY <1>9, <1>11, <2>2, <3>1, <3>2
    <3> QED BY <1>8, <2>2, <3>3
  <2> QED BY <2>1, <2>2
<1>13. active'.at \in {"loop", "down"} /\ Unnoted' = {}
  BY <1>1 DEF Loop, Down, At, Unnoted
<1>14. Belongs' /\ Counted'
  BY <1>1, <1>13 DEF Belongs, Counted
<1>15. Waits'
  <2> SUFFICES ASSUME NEW c \in Clients, client'[c] = "waiting"
               PROVE  c \notin open'
    BY DEF Waits
  <2>1. client[c] = "waiting"
    BY <1>1
  <2>2. c \notin open
    BY <2>1 DEF Tallied, Waits
  <2>3. c # found /\ c # None
    BY <1>6, <2>2, LifecycleAssumption
  <2>4. \A s \in Slots : conn'[s].down # c
    BY <1>9, <1>11, <2>2, <2>3 DEF Tallied, Belongs
  <2> QED BY <1>1, <2>4 DEF Downs
<1>16. ASSUME NEW s \in Slots
       PROVE  /\ Over(conn[s]) => conn'[s].down = None /\ conn'[s].up = None
              /\ conn[s].state # "CONNECTING" /\ ~Over(conn[s]) => conn'[s].up = conn[s].up
              /\ conn[s].state # "ACCEPTING" /\ ~Over(conn[s]) => conn'[s].down = conn[s].down
              /\ active.at = "loop" /\ ~Over(conn[s]) =>
                   conn'[s].down = conn[s].down /\ conn'[s].up = conn[s].up
  BY <1>7, <1>9, <1>10
<1> QED BY <1>12, <1>14, <1>15, <1>16 DEF Tallied

LEMMA RestartBalanced ==
  ASSUME Sound, Orderly, Orderly', Balanced, Restart
  PROVE  Balanced'
<1> DEFINE C0 == [s \in Slots |-> [conn[s] EXCEPT !.pid = None]]
<1>1. /\ C0 \in [Slots -> Entries]
      /\ \A s \in Slots : /\ C0[s].state = conn[s].state
                          /\ C0[s].down = conn[s].down /\ C0[s].up = conn[s].up
  BY DEF Sound, TableOK, Entries
<1>2. Recover(C0) /\ active.at = "down"
  BY DEF Restart, Down, At
<1> HIDE DEF C0
<1>3. /\ active' \in {Loop, Down} /\ (spoiled => spoiled')
      /\ \A s \in Slots : conn'[s].state = IF Over(conn[s]) THEN "UNUSED" ELSE conn[s].state
  BY <1>1, <1>2, RecoverEffect
<1> SUFFICES ASSUME ~spoiled'
             PROVE  Tallied' /\ \A s \in Slots : Expects(s)'
  BY DEF Balanced
<1>4. Tallied /\ \A s \in Slots : Expects(s) /\ OneHand(s)
  BY <1>3 DEF Balanced, Orderly
<1>5. /\ Tallied'
      /\ \A s \in Slots : /\ Over(conn[s]) => conn'[s].down = None /\ conn'[s].up = None
                          /\ conn[s].state # "CONNECTING" /\ ~Over(conn[s]) => conn'[s].up = conn[s].up
                          /\ conn[s].state # "ACCEPTING" /\ ~Over(conn[s]) => conn'[s].down = conn[s].down
  BY <1>1, <1>2, <1>4, RecoveredTally
<1>6. ASSUME NEW s \in Slots
      PROVE  Expects(s)'
  <2>1. /\ UNCHANGED broadcast /\ Idle.slot # s
        /\ \A w \in Workers : worker'[w] = Idle /\ toWorker'[w] = <<>> /\ toListener'[w] = <<>>
    BY LifecycleAssumption DEF Restart, Idle, At, Slots
  <2>2. Begun(s)' /\ Asked(s)'
    BY <2>1 DEF Begun, Asked, About
  <2>3. Entered(s)'
    BY <1>3, LeavesSlots DEF Entered
  <2>4. Filled(s)'
    BY <1>3, <1>4, <1>5 DEF Expects, Filled, Emptied, Over
  <2>5. \A a : Over(conn[s]) => s \notin About(broadcast, a)
    BY <1>4, NotLiveSlot, AboutSlots DEF Live, Over
  <2>6. Called(s)'
    BY <1>3, <1>4, <2>1, <2>5 DEF Expects, Called
  <2> QED BY <2>2, <2>3, <2>4, <2>6 DEF Expects
<1> QED BY <1>5, <1>6

(* A new listener that the workers outlive has lost nothing.               *)
LEMMA TakeOverBalanced ==
  ASSUME Sound, Orderly, Balanced, TakeOver
  PROVE  Balanced'
<1>1. /\ Recover(conn) /\ conn \in [Slots -> Entries] /\ active.at = "loop"
      /\ UNCHANGED <<worker, polled, broadcast, toWorker, toListener>>
  BY DEF TakeOver, queues, Sound, TableOK, Loop, At
<1>2. /\ active' \in {Loop, Down} /\ (spoiled => spoiled')
      /\ \A s \in Slots : conn'[s].state = IF Over(conn[s]) THEN "UNUSED" ELSE conn[s].state
  BY <1>1, RecoverEffect
<1>3. \A s \in Slots : active'.slot # s
  BY <1>2, LeavesSlots
<1> SUFFICES ASSUME ~spoiled'
             PROVE  Tallied' /\ \A s \in Slots : Expects(s)'
  BY DEF Balanced
<1>4. Tallied /\ \A s \in Slots : Expects(s) /\ OneHand(s)
  BY <1>2 DEF Balanced, Orderly
<1>5. /\ Tallied'
      /\ \A s \in Slots : /\ Over(conn[s]) => conn'[s].down = None /\ conn'[s].up = None
                          /\ ~Over(conn[s]) => conn'[s].down = conn[s].down /\ conn'[s].up = conn[s].up
  BY <1>1, <1>4, RecoveredTally
<1>6. ASSUME NEW s \in Slots
      PROVE  Expects(s)'
  <2>1. CASE Over(conn[s])
    <3>1. Filled(s)' /\ Entered(s)'
      BY <1>2, <1>3, <1>5, <2>1 DEF Filled, Emptied, Entered
    <3>2. OneHand(s) /\ ~Live(s)
      BY <1>4, <2>1 DEF Live, Over
    <3> QED BY <1>1, <3>1, <3>2, NotLiveSlot, LeftAlone
  <2>2. CASE ~Over(conn[s])
    <3>1. Alike(s)
      BY <1>1, <1>2, <1>3, <1>5, <2>2 DEF Alike, AlikeBut
    <3> QED BY <1>4, <3>1, ExpectsAlike
  <2> QED BY <2>1, <2>2
<1> QED BY <1>5, <1>6

(* The actions of a worker open and close none of the descriptors.         *)
LEMMA WorkerTally ==
  ASSUME Tallied, UNCHANGED <<active, fds, client>>,
         \A s \in Slots : conn'[s].down = conn[s].down /\ conn'[s].up = conn[s].up,
         \A s \in Slots : Stranded(s) => Stranded(s)'
  PROVE  Tallied'
<1>1. Downs(conn') = Downs(conn) /\ Ups(conn') = Ups(conn) /\ Distinct'
  BY SameSets DEF Tallied
<1>2. open' = open /\ ups' = ups /\ Unnoted' = Unnoted
  BY DEF fds, Unnoted
<1>3. Waits'
  BY <1>2 DEF Tallied, Waits
<1>4. Belongs'
  BY <1>1, <1>2 DEF Tallied, Belongs
<1>5. Counted'
  BY <1>1, <1>2 DEF Tallied, Counted
<1> QED BY <1>1, <1>3, <1>4, <1>5 DEF Tallied

LEMMA WorkerFailsBalanced ==
  ASSUME Sound, Balanced, NEW w \in Workers, WorkerFails(w)
  PROVE  Balanced'
<1>1. UNCHANGED <<conn, active, fds, broadcast, toWorker, toListener, client, spoiled>> /\ Ends(w)
  BY DEF WorkerFails, queues
<1>2. \A v \in Workers, s \in Slots :
        /\ worker'[v].slot = s => worker[v].slot = s /\ worker'[v] = worker[v]
        /\ s \in polled'[v] => s \in polled[v]
  BY <1>1, WorkerEndsEffect
<1>3. \A s \in Slots : Alike(s)
  BY <1>1, <1>2 DEF Alike, AlikeBut
<1>4. \A s \in Slots : Stranded(s) => Stranded(s)'
  BY <1>1, <1>2 DEF Stranded, Fresh
<1>5. Tallied => Tallied'
  BY <1>1, <1>4, WorkerTally
<1> QED BY <1>1, <1>3, <1>5, QuietBalanced DEF Balanced

LEMMA TakeBalanced ==
  ASSUME Sound, Balanced, NEW w \in Workers, Take(w)
  PROVE  Balanced'
<1> DEFINE m == Head(broadcast)
<1>1. /\ broadcast # <<>> /\ broadcast' = Tail(broadcast) /\ worker[w] = Idle
      /\ UNCHANGED <<conn, active, fds, toWorker, toListener, client, spoiled>>
      /\ Ends(w) \/ (Goes(w, At(m.action, m.slot, m.fd)) /\ UNCHANGED polled)
  BY DEF Take
<1>2. /\ broadcast \in Seq(Letters(FromActive, size)) /\ m.action \in FromActive /\ m.slot \in Slots
  BY <1>1, Letter, Places DEF Sound, QueuesOK
<1>3. /\ m.slot \in About(broadcast, m.action) /\ m.slot \in SlotsOf(broadcast)
      /\ \A a : About(broadcast', a) \subseteq About(broadcast, a)
      /\ SlotsOf(broadcast') \subseteq SlotsOf(broadcast)
  BY <1>1, <1>2, TakenAbout, TakenSlots
<1> HIDE DEF m
<1>4. CASE Ends(w)
  <2>1. \A v \in Workers, s \in Slots :
          /\ worker'[v].slot = s => worker[v].slot = s /\ worker'[v] = worker[v]
          /\ s \in polled'[v] => s \in polled[v]
    BY <1>4, WorkerEndsEffect
  <2>2. \A s \in Slots : Alike(s)
    BY <1>1, <1>3, <2>1 DEF Alike, AlikeBut
  <2>3. \A s \in Slots : Stranded(s) => Stranded(s)'
    BY <1>1, <1>3, <2>1 DEF Stranded, Fresh
  <2>4. Tallied => Tallied'
    BY <1>1, <2>3, WorkerTally
  <2> QED BY <1>1, <2>2, <2>4, QuietBalanced DEF Balanced
<1>5. CASE Goes(w, At(m.action, m.slot, m.fd)) /\ UNCHANGED polled
  <2>1. PICK s \in Slots : s = m.slot
    BY <1>2
  <2>2. \A v \in Workers : worker'[v] = IF v = w THEN At(m.action, s, m.fd) ELSE worker[v]
    BY <1>5, <2>1, WorkerPlace
  <2>3. /\ worker'[w].at = m.action /\ worker'[w].slot = s
        /\ \A v \in Workers : v # w => worker'[v] = worker[v]
    BY <2>2 DEF At
  <2> SUFFICES ASSUME ~spoiled
               PROVE  Tallied' /\ Expects(s)' /\ \A t \in Slots \ {s} : Alike(t)
    BY <1>1, OneSlotBalanced
  <2>4. Tallied /\ Expects(s)
    BY DEF Balanced
  <2>5. \A t \in Slots \ {s} : Alike(t)
    BY <1>1, <1>3, <2>3 DEF Alike, AlikeBut
  <2>6. \A t \in Slots : Stranded(t) => Stranded(t)'
    BY <1>1, <1>3, <1>5, <2>1, <2>3 DEF Stranded, Fresh
  <2>7. Tallied'
    BY <1>1, <2>4, <2>6, WorkerTally
  <2>8. /\ m.action = "accepted" => conn[s].state = "ACCEPTING"
        /\ m.action = "orphan_down" => conn[s].state = "POLL"
    BY <1>3, <2>1, <2>4 DEF Expects, Called
  <2>9. Begun(s)'
    BY <1>1, <1>2, <2>3, <2>4, <2>8 DEF Expects, Begun, Fresh, FromActive
  <2>10. Filled(s)' /\ Called(s)' /\ Asked(s)' /\ Entered(s)'
    BY <1>1, <1>3, <2>4 DEF Expects, Filled, Called, Asked, Entered, Emptied, Fresh
  <2> QED BY <2>5, <2>7, <2>9, <2>10 DEF Expects
<1> QED BY <1>1, <1>4, <1>5

LEMMA NoteTakenBalanced ==
  ASSUME Sound, Orderly, Balanced, NEW w \in Workers, NoteTaken(w)
  PROVE  Balanced'
<1>1. PICK s \in Slots : s = worker[w].slot /\ worker[w].at \in {"accepted", "orphan_down"}
  BY Places DEF NoteTaken
<1>2. UNCHANGED <<active, fds, broadcast, toWorker, toListener, client, spoiled>>
  BY DEF NoteTaken, queues
<1>3. conn[s] \in Entries /\ conn \in [Slots -> Entries] /\ w # None
  BY EntryFields, LifecycleAssumption DEF Sound, TableOK
<1> SUFFICES ASSUME ~spoiled
             PROVE  Tallied' /\ Expects(s)' /\ \A t \in Slots \ {s} : Alike(t)
  BY <1>2, OneSlotBalanced
<1>4. Tallied /\ Expects(s) /\ OneHand(s) /\ ~Stranded(s)
  BY <1>1 DEF Balanced, Orderly, Stranded
<1>5. CASE conn[s].wdown # None
  <2>1. conn' = [conn EXCEPT ![s] = [@ EXCEPT !.pid = w]] /\ Ends(w)
    BY <1>1, <1>3, <1>5 DEF NoteTaken, Owned
  <2>2. /\ conn'[s].pid = w /\ conn'[s].state = conn[s].state
        /\ conn'[s].down = conn[s].down /\ conn'[s].up = conn[s].up
        /\ \A t \in Slots \ {s} : conn'[t] = conn[t]
    BY <1>3, <2>1 DEF Entries
  <2>3. \A v \in Workers, t \in Slots :
          /\ worker'[v].slot = t => worker[v].slot = t /\ worker'[v] = worker[v]
          /\ t \in polled'[v] => t \in polled[v]
    BY <2>1, WorkerEndsEffect
  <2>4. \A t \in Slots : Alike(t)
    BY <1>2, <1>3, <2>2, <2>3 DEF Alike, AlikeBut
  <2>5. \A t \in Slots : Stranded(t) => Stranded(t)'
    BY <1>2, <2>2, <2>3 DEF Stranded, Fresh
  <2>6. Tallied'
    BY <1>2, <1>4, <2>2, <2>5, WorkerTally
  <2> QED BY <1>4, <2>4, <2>6, ExpectsAlike
<1>6. CASE conn[s].wdown = None
  <2> DEFINE mine == [Owned(conn[s], w) EXCEPT !.wdown = worker[w].arg,
                       !.state = IF worker[w].at = "accepted" THEN "CONNECTING" ELSE @]
             place == IF mine.state = "CONNECTING" THEN "connect" ELSE "orphan_up"
  <2>1. /\ mine.state = IF worker[w].at = "accepted" THEN "CONNECTING" ELSE conn[s].state
        /\ mine.pid = w /\ mine.down = conn[s].down /\ mine.up = conn[s].up
    BY <1>3 DEF Owned, Entries
  <2>2. conn' = [conn EXCEPT ![s] = mine] /\ UNCHANGED polled /\ Goes(w, At(place, s, None))
    BY <1>1, <1>6 DEF NoteTaken
  <2> HIDE DEF mine
  <2>3. /\ conn'[s].state = mine.state /\ conn'[s].pid = w
        /\ conn'[s].down = conn[s].down /\ conn'[s].up = conn[s].up
        /\ \A t \in Slots \ {s} : conn'[t] = conn[t]
    BY <1>3, <2>1, <2>2
  <2>4. /\ worker'[w].at = place /\ worker'[w].slot = s
        /\ \A v \in Workers : v # w => worker'[v] = worker[v]
    BY <2>2, WorkerPlace DEF At
  <2>5. \A t \in Slots \ {s} : Alike(t)
    BY <1>1, <1>2, <2>3, <2>4 DEF Alike, AlikeBut
  <2>6. \A t \in Slots : Stranded(t) => Stranded(t)'
    BY <1>2, <1>4, <2>2, <2>3, <2>4 DEF Stranded, Fresh
  <2>7. Tallied'
    BY <1>2, <1>4, <2>3, <2>6, WorkerTally
  <2>8. /\ worker[w].at = "accepted" => conn[s].state = "ACCEPTING" /\ conn[s].up = None
        /\ worker[w].at = "orphan_down" => conn[s].state = "POLL"
    BY <1>1, <1>4 DEF Expects, Begun, Filled
  <2>9. conn'[s].state = "CONNECTING" => Fresh(s)'
    BY <1>1, <2>1, <2>3, <2>8 DEF Fresh
  <2>10. \A v \in Workers : worker'[v].slot = s => v = w
    BY <1>1, <1>4, <2>4 DEF OneHand, Taking
  <2>11. Begun(s)'
    BY <2>3, <2>4, <2>9, <2>10 DEF Begun
  <2>12. Filled(s)'
    BY <1>1, <2>1, <2>3, <2>8 DEF Filled
  <2>13. ~Nobody(s)
    BY <1>1 DEF Nobody
  <2>14. Called(s)' /\ Asked(s)'
    <3>1. s \notin SlotsOf(broadcast) /\ \A v \in Workers : s \notin Questions(toListener[v]) /\ s \notin SlotsOf(toWorker[v])
      BY <1>4, <2>13 DEF OneHand, Announcing, Asking, Telling
    <3> QED BY <1>2, <3>1, AboutSlots DEF Called, Asked
  <2>15. Entered(s)'
    <3>1. ~Opening(s)
      BY <1>1, <1>4 DEF OneHand, InOpening, Leaving
    <3>2. ~Fresh(s)
      BY <1>1, <2>8 DEF Fresh
    <3> QED BY <1>2, <1>3, <1>4, <2>3, <3>1, <3>2 DEF Expects, Entered, Opening, Emptied
  <2> QED BY <2>5, <2>7, <2>11, <2>12, <2>14, <2>15 DEF Expects
<1> QED BY <1>5, <1>6

LEMMA AskBalanced ==
  ASSUME Sound, Balanced, NEW w \in Workers, Ask(w)
  PROVE  Balanced'
<1>1. PICK s \in Slots : s = worker[w].slot /\ worker[w].at \in {"connect", "orphan_up"}
  BY Places DEF Ask
<1>2. /\ UNCHANGED <<conn, active, fds, polled, broadcast, toWorker, client, spoiled>>
      /\ Report(w, worker[w].at, s) /\ Goes(w, Idle)
  BY <1>1 DEF Ask
<1> SUFFICES ASSUME ~spoiled
             PROVE  Tallied' /\ Expects(s)' /\ \A t \in Slots \ {s} : Alike(t)
  BY <1>2, OneSlotBalanced
<1>3. Tallied /\ Expects(s) /\ ~Stranded(s)
  BY <1>1 DEF Balanced, Stranded
<1>4. \A v \in Workers : \A a : About(toListener'[v], a) \subseteq
        About(toListener[v], a) \cup (IF a = worker[w].at /\ v = w THEN {s} ELSE {})
  BY <1>2, ReportAbout
<1>5. \A v \in Workers, t \in Slots : worker'[v].slot = t => worker'[v] = worker[v]
  <2>1. Idle.slot = 0 /\ 0 \notin Slots
    BY LifecycleAssumption DEF Idle, At, Slots
  <2> QED BY <1>2, <2>1, WorkerPlace
<1>6. \A t \in Slots \ {s} : Alike(t)
  BY <1>2, <1>4, <1>5 DEF Alike, AlikeBut
<1>7. \A t \in Slots : Stranded(t) => Stranded(t)'
  BY <1>2, <1>5 DEF Stranded, Fresh
<1>8. Tallied'
  BY <1>2, <1>3, <1>7, WorkerTally
<1>9. worker[w].at = "connect" => Fresh(s)
  BY <1>1, <1>3 DEF Expects, Begun
<1>10. Asked(s)'
  BY <1>2, <1>3, <1>4, <1>9 DEF Expects, Asked, Emptied, Fresh
<1>11. Filled(s)' /\ Called(s)' /\ Begun(s)' /\ Entered(s)'
  BY <1>2, <1>3, <1>5 DEF Expects, Filled, Called, Begun, Entered, Emptied, Fresh
<1> QED BY <1>6, <1>8, <1>10, <1>11 DEF Expects

(* What a worker is told of or serves is in no other hand.                 *)
LEMMA InHand ==
  ASSUME Sound, NEW s \in Slots, OneHand(s), Fits(s), NEW w \in Workers,
         s \in SlotsOf(toWorker[w]) \/ (s \in polled[w] /\ worker[w].slot # s)
  PROVE  /\ s \notin SlotsOf(broadcast) /\ active.slot # s
         /\ \A v \in Workers : /\ s \notin Questions(toListener[v]) /\ worker[v].slot # s
                               /\ s \in SlotsOf(toWorker[v]) => v = w /\ s \notin polled[w]
<1>1. Mine(w, s) /\ Nobody(s) /\ w # None
  BY LifecycleAssumption DEF OneHand, Telling, Serving
<1>2. \A v \in Workers : Mine(v, s) => v = w
  BY <1>1 DEF Mine
<1>3. s \notin SlotsOf(broadcast)
  BY <1>1 DEF OneHand, Announcing, Mine
<1>4. \A v \in Workers : s \in SlotsOf(toWorker[v]) => v = w /\ s \notin polled[w]
  BY <1>2 DEF OneHand, Telling
<1>5. \A v \in Workers : s \notin Questions(toListener[v])
  BY <1>2 DEF OneHand, Asking
<1>6. active.slot # s
  <2>1. ~Opening(s)
    BY <1>1 DEF OneHand, InOpening, Mine
  <2>2. ~Adopting(s)
    BY DEF OneHand, InAdoption
  <2>3. \A v \in Workers : ~Answering(v, s)
    BY <1>2 DEF OneHand, InAnswer, Telling
  <2>4. ~(active.at \in {"connected", "answer", "refuse"} /\ active.slot = s)
    BY <2>3 DEF Fits, Reaching, Answering
  <2>5. active.at \in {"loop", "append", "down"} => active.slot # s
    BY LifecycleAssumption DEF Sound, ActiveOK, ActiveAway, ActiveAt, Slots
  <2>6. active.at \in {"loop", "append", "down", "accept", "accepted", "announce", "adopt", "connected",
                       "answer", "refuse"}
    BY DEF Sound, ActiveOK, ActiveAway, ActiveAt
  <2> QED BY <2>1, <2>2, <2>4, <2>5, <2>6 DEF Opening, Adopting
<1> QED BY <1>1, <1>3, <1>4, <1>5, <1>6 DEF Nobody

LEMMA TakeUpstreamBalanced ==
  ASSUME Sound, Orderly, Fitting, Balanced, NEW w \in Workers, TakeUpstream(w)
  PROVE  Balanced'
<1>1. PICK s \in Slots : s = Head(toWorker[w]).slot
  BY Answers DEF TakeUpstream
<1>2. PICK m : m = Head(toWorker[w])
  OBVIOUS
<1>3. /\ UNCHANGED <<active, fds, broadcast, toListener, client, spoiled>>
      /\ Answered(w, {"connected", "orphan_up"})
      /\ Ends(w) \/ (polled' = [polled EXCEPT ![w] = @ \cup {s}] /\ UNCHANGED worker)
  BY <1>1 DEF TakeUpstream
<1>4. conn[s] \in Entries /\ conn \in [Slots -> Entries]
  BY EntryFields DEF Sound, TableOK
<1>5. /\ conn'[s].down = conn[s].down /\ conn'[s].up = conn[s].up
      /\ conn'[s].state \in {conn[s].state, "POLL"}
      /\ \A t \in Slots \ {s} : conn'[t] = conn[t]
  <2> DEFINE noted == [conn[s] EXCEPT !.wup = m.fd,
                                      !.state = IF conn[s].wdown = None THEN conn[s].state ELSE "POLL"]
             own   == [Owned(conn[s], w) EXCEPT !.wup = m.fd]
             e     == conn'[s]
  <2>1. \E x \in {conn[s], Owned(conn[s], w), noted, own} : conn' = [conn EXCEPT ![s] = x]
    <3>1. CASE m.fd = None \/ conn[s].wup # None
      <4>1. conn' = [conn EXCEPT ![s] = IF m.fd # None /\ m.action = "orphan_up"
                                        THEN Owned(conn[s], w) ELSE conn[s]]
        BY <1>1, <1>2, <3>1 DEF TakeUpstream
      <4> HIDE DEF noted, own
      <4> QED BY <4>1
    <3>2. CASE ~(m.fd = None \/ conn[s].wup # None)
      <4>1. conn' = [conn EXCEPT ![s] = IF m.action = "connected" THEN noted ELSE own]
        BY <1>1, <1>2, <3>2 DEF TakeUpstream
      <4> HIDE DEF noted, own
      <4> QED BY <4>1
    <3> QED BY <3>1, <3>2
  <2>2. /\ noted.down = conn[s].down /\ noted.up = conn[s].up
        /\ noted.state \in {conn[s].state, "POLL"}
    BY <1>4 DEF Entries
  <2>3. /\ Owned(conn[s], w).down = conn[s].down /\ Owned(conn[s], w).up = conn[s].up
        /\ Owned(conn[s], w).state = conn[s].state
    BY <1>4 DEF Entries, Owned
  <2>4. own.down = conn[s].down /\ own.up = conn[s].up /\ own.state = conn[s].state
    BY <1>4 DEF Entries, Owned
  <2> HIDE DEF noted, own
  <2> QED BY <1>4, <2>1, <2>2, <2>3, <2>4
<1> SUFFICES ASSUME ~spoiled
             PROVE  Tallied' /\ Expects(s)' /\ \A t \in Slots \ {s} : Alike(t)
  BY <1>3, OneSlotBalanced
<1>6. Tallied /\ Expects(s) /\ ToldOnce /\ OneHand(s) /\ Fits(s)
  BY DEF Balanced, Orderly, Fitting
<1>7. /\ \A v \in Workers : SlotsOf(toWorker'[v]) \subseteq SlotsOf(toWorker[v])
      /\ s \in SlotsOf(toWorker[w]) /\ s \notin SlotsOf(toWorker'[w])
      /\ \A v \in Workers : \A a : About(toWorker'[v], a) \subseteq About(toWorker[v], a)
  BY <1>1, <1>3, <1>6, AnswerEffect, AnswerAbout
<1>8. \A v \in Workers, t \in Slots :
        /\ worker'[v].slot = t => worker[v].slot = t /\ worker'[v] = worker[v]
        /\ t # s /\ t \in polled'[v] => t \in polled[v]
  <2>1. CASE Ends(w)
    BY <2>1, WorkerEndsEffect
  <2>2. CASE polled' = [polled EXCEPT ![w] = @ \cup {s}] /\ UNCHANGED worker
    BY <2>2 DEF Sound, WorkersOK
  <2> QED BY <1>3, <2>1, <2>2
<1>9. \A t \in Slots \ {s} : Alike(t)
  BY <1>3, <1>5, <1>7, <1>8 DEF Alike, AlikeBut
<1>10. \A t \in Slots : Stranded(t) => Stranded(t)'
  BY <1>3, <1>5, <1>7, <1>8 DEF Stranded, Fresh
<1>11. Tallied'
  BY <1>3, <1>5, <1>6, <1>10, WorkerTally
<1>12. /\ s \notin SlotsOf(broadcast) /\ active.slot # s
       /\ \A v \in Workers : /\ s \notin Questions(toListener[v]) /\ worker[v].slot # s
                             /\ s \in SlotsOf(toWorker[v]) => v = w
  BY <1>6, <1>7, InHand
<1>13. Filled(s)' /\ Entered(s)'
  BY <1>3, <1>5, <1>6, <1>12 DEF Expects, Filled, Emptied, Entered
<1>14. Expects(s)'
  BY <1>3, <1>7, <1>8, <1>12, <1>13, LeftAlone
<1> QED BY <1>9, <1>11, <1>14

LEMMA TakeRefusalBalanced ==
  ASSUME Sound, Orderly, Fitting, Balanced, NEW w \in Workers, TakeRefusal(w)
  PROVE  Balanced'
<1>1. PICK s \in Slots : s = Head(toWorker[w]).slot
  BY Answers DEF TakeRefusal
<1>2. /\ UNCHANGED <<active, fds, worker, broadcast, toListener, client, spoiled>>
      /\ Answered(w, {"close"}) /\ Head(toWorker[w]).action = "close"
      /\ \A v \in Workers : polled'[v] \subseteq polled[v]
  BY <1>1 DEF TakeRefusal, Answered, Forgotten, Sound, WorkersOK
<1>3. /\ \A t \in Slots \ {s} : conn'[t] = conn[t]
      /\ conn'[s].down = conn[s].down /\ conn'[s].up = conn[s].up /\ conn'[s].state = "UNUSED"
  <2>1. conn[s] \in Entries /\ conn \in [Slots -> Entries]
    BY EntryFields DEF Sound, TableOK
  <2> QED BY <1>1, <2>1 DEF TakeRefusal, Entries
<1> SUFFICES ASSUME ~spoiled
             PROVE  Tallied' /\ Expects(s)' /\ \A t \in Slots \ {s} : Alike(t)
  BY <1>2, OneSlotBalanced
<1>4. Tallied /\ Expects(s) /\ ToldOnce /\ OneHand(s) /\ Fits(s)
  BY DEF Balanced, Orderly, Fitting
<1>5. /\ \A v \in Workers : SlotsOf(toWorker'[v]) \subseteq SlotsOf(toWorker[v])
      /\ s \in SlotsOf(toWorker[w]) /\ s \notin SlotsOf(toWorker'[w])
      /\ \A v \in Workers : \A a : About(toWorker'[v], a) \subseteq About(toWorker[v], a)
      /\ s \in About(toWorker[w], "close")
  BY <1>1, <1>2, <1>4, AnswerEffect, AnswerAbout
<1>6. \A t \in Slots \ {s} : Alike(t)
  BY <1>2, <1>3, <1>5 DEF Alike, AlikeBut
<1>7. \A t \in Slots : Stranded(t) => Stranded(t)'
  BY <1>2, <1>3, <1>5 DEF Stranded, Fresh
<1>8. Tallied'
  BY <1>2, <1>3, <1>4, <1>7, WorkerTally
<1>9. /\ s \notin SlotsOf(broadcast) /\ active.slot # s
      /\ \A v \in Workers : /\ s \notin Questions(toListener[v]) /\ worker[v].slot # s
                            /\ s \in SlotsOf(toWorker[v]) => v = w
  BY <1>4, <1>5, InHand
<1>10. Filled(s)' /\ Entered(s)'
  BY <1>2, <1>3, <1>4, <1>5, <1>9 DEF Expects, Asked, Filled, Emptied, Entered
<1>11. Expects(s)'
  BY <1>2, <1>5, <1>9, <1>10, LeftAlone
<1> QED BY <1>6, <1>8, <1>11

(* Finish and Fail. *)
LEMMA EndsBalanced ==
  ASSUME Sound, Orderly, Fitting, Balanced, NEW w \in Workers, NEW s \in Slots, worker[w] = Idle, s \in polled[w],
         NEW state \in {"CLOSING", "ERROR"}, NEW place \in {"closing", "error"},
         conn' = [conn EXCEPT ![s].state = state], Goes(w, At(place, s, None)),
         UNCHANGED <<active, fds, polled, broadcast, toWorker, toListener, client, spoiled>>
  PROVE  Balanced'
<1>1. /\ \A t \in Slots \ {s} : conn'[t] = conn[t]
      /\ conn'[s].down = conn[s].down /\ conn'[s].up = conn[s].up /\ conn'[s].state = state
  BY EntryFields DEF Sound, TableOK, Entries
<1>2. /\ worker'[w].at = place /\ worker'[w].slot = s
      /\ \A v \in Workers : v # w => worker'[v] = worker[v]
  BY WorkerPlace DEF At
<1> SUFFICES ASSUME ~spoiled
             PROVE  Tallied' /\ Expects(s)' /\ \A t \in Slots \ {s} : Alike(t)
  BY OneSlotBalanced
<1>3. Tallied /\ Expects(s) /\ OneHand(s) /\ Fits(s) /\ ~Stranded(s)
  BY DEF Balanced, Orderly, Fitting, Stranded
<1>4. \A t \in Slots \ {s} : Alike(t)
  BY <1>1, <1>2 DEF Alike, AlikeBut
<1>5. \A t \in Slots : Stranded(t) => Stranded(t)'
  BY <1>1, <1>2, <1>3 DEF Stranded, Fresh
<1>6. Tallied'
  BY <1>1, <1>3, <1>5, WorkerTally
<1>7. /\ s \notin SlotsOf(broadcast) /\ active.slot # s
      /\ \A v \in Workers : /\ s \notin Questions(toListener[v]) /\ worker[v].slot # s
                            /\ s \notin SlotsOf(toWorker[v])
  <2>1. worker[w].slot # s
    BY AwayFromSlots
  <2> QED BY <1>3, <2>1, InHand
<1>8. Filled(s)' /\ Entered(s)'
  BY <1>1, <1>7 DEF Filled, Entered
<1>9. Expects(s)'
  BY <1>2, <1>7, <1>8, LeftAlone
<1> QED BY <1>4, <1>6, <1>9

LEMMA FinishBalanced ==
  ASSUME Sound, Orderly, Fitting, Balanced, NEW w \in Workers, NEW s \in Slots, Finish(w, s)
  PROVE  Balanced'
BY EndsBalanced DEF Finish, queues

LEMMA FailBalanced ==
  ASSUME Sound, Orderly, Fitting, Balanced, NEW w \in Workers, NEW s \in Slots, Fail(w, s)
  PROVE  Balanced'
BY EndsBalanced DEF Fail, queues

LEMMA ReportClosedBalanced ==
  ASSUME Sound, Balanced, NEW w \in Workers, ReportClosed(w)
  PROVE  Balanced'
<1> SUFFICES ASSUME ~spoiled' PROVE Balanced'
  BY DEF Balanced
<1>1. PICK s \in Slots : s = worker[w].slot /\ worker[w].at \in {"closing", "error"}
  BY Places DEF ReportClosed
<1>2. /\ UNCHANGED <<active, fds, broadcast, toWorker, client, spoiled>>
      /\ Report(w, "close", s)
      /\ Ends(w) \/ (Goes(w, Idle) /\ Forgotten(w, s))
  BY <1>1, ReportClosedEffect DEF ReportClosed
<1>3. \A t \in Slots : /\ conn'[t].down = conn[t].down /\ conn'[t].up = conn[t].up
                       /\ conn'[t].pid = conn[t].pid /\ conn'[t].state = conn[t].state
  BY <1>1, EntryFields DEF ReportClosed, Sound, TableOK, Entries
<1>4. \A v \in Workers, t \in Slots :
        /\ worker'[v].slot = t => worker[v].slot = t /\ worker'[v] = worker[v]
        /\ t \in polled'[v] => t \in polled[v]
  <2>1. CASE Ends(w)
    BY <2>1, WorkerEndsEffect
  <2>2. CASE Goes(w, Idle) /\ Forgotten(w, s)
    <3>1. Idle.slot = 0 /\ 0 \notin Slots
      BY LifecycleAssumption DEF Idle, At, Slots
    <3>2. \A v \in Workers : /\ worker'[v] = IF v = w THEN Idle ELSE worker[v]
                             /\ polled'[v] = IF v = w THEN polled[v] \ {s} ELSE polled[v]
      BY <2>2, WorkerPlace DEF Forgotten, Sound, WorkersOK
    <3> QED BY <3>1, <3>2
  <2> QED BY <1>2, <2>1, <2>2
<1>5. \A v \in Workers : About(toListener'[v], "connect") \subseteq About(toListener[v], "connect")
  BY <1>2, ReportAbout
<1>6. \A t \in Slots : Alike(t)
  BY <1>2, <1>3, <1>4, <1>5 DEF Alike, AlikeBut
<1>7. \A t \in Slots : Stranded(t) => Stranded(t)'
  BY <1>2, <1>3, <1>4 DEF Stranded, Fresh
<1>8. Tallied => Tallied'
  BY <1>2, <1>3, <1>7, WorkerTally
<1> QED BY <1>2, <1>6, <1>8, QuietBalanced DEF Balanced

LEMMA StutterBalanced ==
  ASSUME Balanced, UNCHANGED vars
  PROVE  Balanced'
<1>1. UNCHANGED <<conn, active, fds, worker, polled, broadcast, toWorker, toListener, client, spoiled>>
  BY DEF vars, queues
<1>2. \A s \in Slots : Alike(s)
  BY <1>1 DEF Alike, AlikeBut
<1>3. \A s \in Slots : Stranded(s) => Stranded(s)'
  BY <1>1 DEF Stranded, Fresh
<1>4. Tallied => Tallied'
  BY <1>1, <1>3, WorkerTally
<1> QED BY <1>1, <1>2, <1>4, QuietBalanced DEF Balanced

LEMMA BalancedStep ==
  ASSUME Sound, Orderly, Orderly', Fitting, Balanced, [Next]_vars
  PROVE  Balanced'
<1>1. CASE Claim \/ AppendEntry \/ Adopt \/ TakeOver \/ ActiveFails
  BY <1>1, ClaimBalanced, QuietListenerBalanced, AdoptBalanced, TakeOverBalanced, ActiveFailsBalanced
<1>2. CASE Continue
  BY <1>2, PublishEntryBalanced, AcceptBalanced, NoteAcceptedBalanced, AnnounceAcceptedBalanced,
     DistributeBalanced, NoteConnectedBalanced, AnswerConnectedBalanced, AnswerFailsBalanced,
     TellRefusedBalanced, RestartBalanced DEF Continue
<1>3. ASSUME NEW w \in Workers, Handle(w)
      PROVE  Balanced'
  BY <1>3, ConnectBalanced, ConnectFailsBalanced, CloseBalanced, PassUpstreamBalanced, QuietListenerBalanced
     DEF Handle
<1>4. ASSUME NEW w \in Workers, WorkerStep(w)
      PROVE  Balanced'
  BY <1>4, TakeBalanced, NoteTakenBalanced, AskBalanced, TakeUpstreamBalanced, TakeRefusalBalanced,
     ReportClosedBalanced, FinishBalanced DEF WorkerStep
<1>5. ASSUME NEW w \in Workers, WorkerFails(w) \/ \E s \in Slots : Fail(w, s)
      PROVE  Balanced'
  BY <1>5, WorkerFailsBalanced, FailBalanced
<1>6. CASE UNCHANGED vars
  BY <1>6, StutterBalanced
<1> QED BY <1>1, <1>2, <1>3, <1>4, <1>5, <1>6 DEF Next

(* As long as no history is spoiled, the listener has, between two events, *)
(* exactly the descriptors that its slots name: a crash between accept or  *)
(* connect and the note of the descriptor leaks none, for the next         *)
(* listener matches it to the slot that waits for it, or closes it; and    *)
(* none that a slot names has been closed.                                 *)
THEOREM DescriptorsAccounted == Spec => []Accounted
<1>1. Init => Orderly /\ Fitting /\ Balanced
  BY OrderlyBase, FittingBase, BalancedBase
<1>2. Sound /\ Orderly /\ [Next]_vars => Orderly'
  BY OrderlyStep
<1>3. Sound /\ Orderly /\ Orderly' /\ Fitting /\ [Next]_vars => Fitting'
  BY FittingStep
<1>4. Sound /\ Orderly /\ Orderly' /\ Fitting /\ Balanced /\ [Next]_vars => Balanced'
  BY BalancedStep
<1>5. Balanced => Accounted
  BY Accounts
<1> QED BY <1>1, <1>2, <1>3, <1>4, <1>5, Invariance, PTL DEF Spec
===============================================================================
