------------------------------ MODULE Supervision ------------------------------
(***************************************************************************)
(* The process tree: the passive listener (src/listener/main_passive.c)    *)
(* clones the active listener, which shares its descriptor table; the      *)
(* active listener (src/listener/main_active.c) forks the workers          *)
(* (src/listener/worker_process.c) and notes each in an array in shared    *)
(* memory.  Whoever dies is replaced: the passive listener clones a new    *)
(* active one, the active one takes the place of the passive one, and the  *)
(* active one starts workers anew.                                         *)
(*                                                                         *)
(* A worker's socket is closed before it becomes a zombie, so to a         *)
(* listener that was watching it while it ran, the end of file comes       *)
(* before the event of its pidfd and before SIGCHLD.                       *)
(*                                                                         *)
(* Outside the model: connections; system calls like fork and exec that    *)
(* fail; SIGINT before it is blocked, and during an executable's start.    *)
(***************************************************************************)
EXTENDS Integers, FiniteSets

CONSTANTS
  NumWorkers,   \* the entries of worker_process_array, --num-workers
  MaxCrashes,   \* bound: processes that die of themselves
  MaxStops      \* bound: processes that are stopped by a signal

ASSUME SupervisionAssumption ==
  /\ NumWorkers \in Nat \ {0} /\ MaxCrashes \in Nat /\ MaxStops \in Nat

VARIABLES
  passive,     \* where the passive listener is in main_passive
  active,      \* where the active listener is in main_active
  at,          \* the active listener's index into the array
  entry,       \* worker_process_array: "set", "empty", or beyond its end
  worker,      \* the process that the entry is or was about
  parent,      \* whose child it is
  hup,         \* epoll_wait reported EPOLLHUP for its pidfd
  strays,      \* workers that were forked and are in no entry
  polling,     \* wait_workers: the entries it still waits for
  int,         \* SIGINT, sent to the passive listener
  chld,        \* SIGCHLD pending at the passive listener, not of the active one
  crashes, stops

array     == <<entry, worker, parent>>
listeners == <<passive, active>>
bounds    == <<crashes, stops>>
vars == <<listeners, at, array, hup, strays, polling, int, chld, bounds>>

Entries == 1 .. NumWorkers
Ended   == {"zombie", "gone"}
Known   == {i \in Entries : entry[i] = "set"}
Children(p) == {i \in Entries : parent[i] = p /\ worker[i] \notin {"none", "gone"}}

(* With both listeners dead nobody is left to restart anything. *)
Lost == passive = "dead" /\ active \in {"none", "zombie"}

(* main_passive, before its loop: an array of NumWorkers empty entries. *)
Init ==
  /\ passive = "clone" /\ active = "none" /\ at = 1
  /\ entry = [i \in Entries |-> "empty"]
  /\ worker = [i \in Entries |-> "none"]
  /\ parent = [i \in Entries |-> "init"]
  /\ hup = [i \in Entries |-> FALSE]
  /\ strays = 0 /\ polling = {} /\ int = "none" /\ chld = FALSE
  /\ crashes = 0 /\ stops = 0

-------------------------------------------------------------------------------
(* The passive listener. *)
Clone ==
  /\ passive = "clone" /\ passive' = "wait"
  /\ active' = "start"
  /\ UNCHANGED <<at, array, hup, strays, polling, int, chld, bounds>>

(* A worker that gets SIGTERM or SIGINT dies soon, unless it is stopped. *)
Signalled == [i \in Entries |-> IF i \in Known /\ worker[i] = "running"
                                THEN "dying" ELSE worker[i]]

(* If the active listener ends between the fork of a worker and the note   *)
(* of it, the worker is in no entry.                                       *)
Forked == active \in {"startFork", "loopFork"}
Strays == IF Forked THEN strays + 1 ELSE strays
WithoutForked(w) == [i \in Entries |-> IF Forked /\ i = at THEN "none" ELSE w[i]]

(* The children of an active listener that ends are adopted by init. *)
Orphaned == [i \in Entries |-> IF parent[i] = "active" THEN "init" ELSE parent[i]]

(* SIGINT is relayed (kill_active), which ends the active listener.  *)
(* sigwait takes it before a pending SIGCHLD.                        *)
Interrupted ==
  /\ passive = "wait" /\ int = "pending" /\ int' = "taken"
  /\ active' = "zombie" /\ parent' = Orphaned
  /\ worker' = WithoutForked(Signalled) /\ strays' = Strays
  /\ UNCHANGED <<passive, at, entry, hup, polling, chld, bounds>>

(* SIGCHLD of another child: waitpid with WNOHANG returns 0 as long as the *)
(* active listener runs, which the loop around it takes for no reason to   *)
(* stop.                                                                   *)
Spins ==
  /\ passive = "wait" /\ int # "pending" /\ chld /\ active # "zombie"
  /\ passive' = "spin" /\ chld' = FALSE
  /\ UNCHANGED <<active, at, array, hup, strays, polling, int, bounds>>

(* The active listener is reaped, then wait_workers sends SIGTERM to the   *)
(* workers of all entries.                                                 *)
ReapActive ==
  /\ passive \in {"wait", "spin"} /\ active = "zombie"
  /\ passive = "wait" => int # "pending"
  /\ passive' = "poll" /\ active' = "none" /\ chld' = FALSE
  /\ worker' = Signalled
  /\ polling' = Known
  /\ UNCHANGED <<at, entry, parent, hup, strays, int, bounds>>

(* poll returns how many of the pidfds are ready; wait_workers then drops  *)
(* that many from the front, whichever are ready.                          *)
PollReturns ==
  LET ready == Cardinality({i \in polling : worker[i] \in Ended})
      before(i) == {j \in polling : j < i} IN
  /\ passive = "poll" /\ ready > 0
  /\ polling' = {i \in polling : Cardinality(before(i)) >= ready}
  /\ UNCHANGED <<listeners, at, array, hup, strays, int, chld, bounds>>

(* The arguments of the new executable name the workers of all entries;    *)
(* the number of entries is not among them, so empty ones are lost, but    *)
(* there is always one.                                                    *)
Compacted ==
  IF Known = {} THEN [i \in Entries |-> IF i = 1 THEN "empty" ELSE "absent"]
                ELSE [i \in Entries |-> IF i \in Known THEN "set" ELSE "absent"]

PollDoneAnyway ==
  /\ passive = "poll" /\ polling = {}
  /\ passive' = "clone"
  /\ entry' = Compacted
  /\ UNCHANGED <<active, at, worker, parent, hup, strays, polling, int, chld, bounds>>

(* Then the passive listener exits, or executes itself anew.               *)
PollDone ==
  /\ passive = "poll" /\ polling = {}
  /\ IF int = "taken"
     THEN passive' = "exited" /\ UNCHANGED entry
     ELSE passive' = "clone" /\ entry' = Compacted
  /\ UNCHANGED <<active, at, worker, parent, hup, strays, polling, int, chld, bounds>>

-------------------------------------------------------------------------------
(* The active listener. *)
RecoverFdsKept ==
  /\ active = "start" /\ active' = "starting"
  /\ at' = 1
  /\ UNCHANGED <<passive, array, hup, strays, polling, int, chld, bounds>>

(* recover_one_fd closes the descriptors that nobody knows: those of a     *)
(* worker that was forked and not noted are several, and without its       *)
(* socket the worker exits.                                                *)
RecoverFds ==
  /\ active = "start" /\ active' = "starting"
  /\ at' = 1 /\ strays' = 0
  /\ UNCHANGED <<passive, array, hup, polling, int, chld, bounds>>

PollExistingTwice ==
  /\ active = "starting" /\ at \in Entries /\ entry[at] # "empty"
  /\ at' = at + 2
  /\ UNCHANGED <<listeners, array, hup, strays, polling, int, chld, bounds>>

(* A worker that is noted is watched, its pidfd before its socket, whether *)
(* it runs or not.                                                         *)
PollExisting ==
  /\ active = "starting" /\ at \in Entries /\ entry[at] # "empty"
  /\ at' = at + 1
  /\ UNCHANGED <<listeners, array, hup, strays, polling, int, chld, bounds>>

(* worker_process_spawn: the fork, and the note of it. *)
Fork ==
  /\ \/ active = "starting" /\ at \in Entries /\ entry[at] = "empty" /\ active' = "startFork"
     \/ active = "respawn" /\ active' = "loopFork"
  /\ worker' = [worker EXCEPT ![at] = "running"]
  /\ parent' = [parent EXCEPT ![at] = "active"]
  /\ UNCHANGED <<passive, at, entry, hup, strays, polling, int, chld, bounds>>

Note ==
  /\ \/ active = "startFork" /\ active' = "starting" /\ at' = at + 1
     \/ active = "loopFork" /\ active' = "loop" /\ UNCHANGED at
  /\ entry' = [entry EXCEPT ![at] = "set"]
  /\ hup' = [hup EXCEPT ![at] = FALSE]
  /\ UNCHANGED <<passive, worker, parent, strays, polling, int, chld, bounds>>

(* The first epoll_wait reports EPOLLHUP for the workers that have been    *)
(* reaped by now.                                                          *)
FirstWait ==
  /\ active = "starting" /\ at = NumWorkers + 1
  /\ active' = "loop"
  /\ hup' = [i \in Entries |-> i \in Known /\ worker[i] = "gone"]
  /\ UNCHANGED <<passive, at, array, strays, polling, int, chld, bounds>>

PidEventEmpties(i) ==
  /\ active = "loop" /\ i \in Known /\ hup[i]
  /\ entry' = [entry EXCEPT ![i] = "empty"] /\ worker' = [worker EXCEPT ![i] = "none"]
  /\ hup' = [hup EXCEPT ![i] = FALSE]
  /\ UNCHANGED <<listeners, at, parent, strays, polling, int, chld, bounds>>

PidEventAny(i) ==
  /\ active = "loop" /\ i \in Known
  /\ active' = "respawn" /\ at' = i
  /\ entry' = [entry EXCEPT ![i] = "empty"] /\ worker' = [worker EXCEPT ![i] = "none"]
  /\ hup' = [hup EXCEPT ![i] = FALSE]
  /\ UNCHANGED <<passive, parent, strays, polling, int, chld, bounds>>

(* cleanup_worker_process, if the pidfd says that the worker was reaped. *)
PidEvent(i) ==
  /\ active = "loop" /\ i \in Known /\ hup[i]
  /\ active' = "respawn" /\ at' = i
  /\ entry' = [entry EXCEPT ![i] = "empty"] /\ worker' = [worker EXCEPT ![i] = "none"]
  /\ hup' = [hup EXCEPT ![i] = FALSE]
  /\ UNCHANGED <<passive, parent, strays, polling, int, chld, bounds>>

(* The end of file on a worker's socket is an error of                     *)
(* ipc_process_incoming, and main_active returns.                          *)
IpcEof(i) ==
  /\ active = "loop" /\ i \in Known /\ worker[i] \in Ended /\ ~hup[i]
  /\ active' = "zombie" /\ parent' = Orphaned
  /\ UNCHANGED <<passive, at, entry, worker, hup, strays, polling, int, chld, bounds>>

(* The pidfd of the passive listener: the active one executes itself anew  *)
(* as a passive one, which will find the workers among its children.       *)
TakeOver ==
  /\ active = "loop" /\ passive = "dead"
  /\ passive' = "clone" /\ active' = "none"
  /\ entry' = Compacted
  /\ parent' = [i \in Entries |-> IF parent[i] = "active" THEN "passive" ELSE parent[i]]
  /\ chld' = (\E i \in Children("active") : worker[i] = "zombie")
  /\ UNCHANGED <<at, worker, hup, strays, polling, int, bounds>>

(* SIGCHLD of a worker that was stopped: it is continued, and then waitpid *)
(* is called until there is no child left, reaping those that die.         *)
ContinueWorker(i) ==
  /\ active \in {"loop", "spin"} /\ i \in Children("active") /\ worker[i] = "stopped"
  /\ worker' = [worker EXCEPT ![i] = "running"]
  /\ active' = "spin"
  /\ UNCHANGED <<passive, at, entry, parent, hup, strays, polling, int, chld, bounds>>

ReapWorker(i) ==
  /\ active = "spin" /\ i \in Children("active") /\ worker[i] = "zombie"
  /\ worker' = [worker EXCEPT ![i] = "gone"]
  /\ UNCHANGED <<listeners, at, entry, parent, hup, strays, polling, int, chld, bounds>>

NoChildLeft ==
  /\ active = "spin" /\ Children("active") = {}
  /\ active' = "loop"
  /\ UNCHANGED <<passive, at, array, hup, strays, polling, int, chld, bounds>>

-------------------------------------------------------------------------------
(* Workers and the kernel. *)
Dies(i) ==
  /\ worker' = [worker EXCEPT ![i] = "zombie"]
  /\ chld' = (chld \/ parent[i] = "passive")
  /\ UNCHANGED <<listeners, at, entry, parent, hup, strays, polling, int>>

WorkerKilled(i) == worker[i] = "dying" /\ Dies(i) /\ UNCHANGED bounds

(* Orphans are reaped by init. *)
InitReaps(i) ==
  /\ parent[i] = "init" /\ worker[i] = "zombie"
  /\ worker' = [worker EXCEPT ![i] = "gone"]
  /\ UNCHANGED <<listeners, at, entry, parent, hup, strays, polling, int, chld, bounds>>

Fails == ~Lost /\ passive # "exited" /\ crashes < MaxCrashes
         /\ crashes' = crashes + 1 /\ UNCHANGED stops

WorkerFails(i) == Fails /\ i \in Known /\ worker[i] = "running" /\ Dies(i)

ActiveFails ==
  /\ Fails /\ active \notin {"none", "zombie"}
  /\ active' = "zombie" /\ parent' = Orphaned
  /\ worker' = WithoutForked(worker) /\ strays' = Strays
  /\ UNCHANGED <<passive, at, entry, hup, polling, int, chld>>

PassiveFails ==
  /\ Fails /\ passive # "dead"
  /\ passive' = "dead" /\ polling' = {} /\ chld' = FALSE
  /\ parent' = [i \in Entries |-> IF parent[i] = "passive" THEN "init" ELSE parent[i]]
  /\ int' = IF int = "none" THEN "none" ELSE "lost"
  /\ UNCHANGED <<active, at, entry, worker, hup, strays>>

Interrupt ==
  /\ int = "none" /\ passive \notin {"dead", "exited"}
  /\ int' = "pending"
  /\ UNCHANGED <<listeners, at, array, hup, strays, polling, chld, bounds>>

Stops == stops < MaxStops /\ stops' = stops + 1 /\ UNCHANGED crashes

WorkerStops(i) ==
  /\ Stops /\ i \in Known /\ worker[i] = "running"
  /\ worker' = [worker EXCEPT ![i] = "stopped"]
  /\ chld' = (chld \/ parent[i] = "passive")
  /\ UNCHANGED <<listeners, at, entry, parent, hup, strays, polling, int>>

(* The passive listener continues a stopped active one at once. *)
ActiveStops ==
  /\ Stops /\ passive = "wait" /\ int # "pending" /\ active \notin {"none", "zombie"}
  /\ passive' = "spin"
  /\ UNCHANGED <<active, at, array, hup, strays, polling, int, chld>>

-------------------------------------------------------------------------------
PassiveStep == Clone \/ Interrupted \/ Spins \/ ReapActive \/ PollReturns \/ PollDone

ActiveStep ==
  \/ RecoverFds \/ PollExisting \/ Fork \/ Note \/ FirstWait \/ TakeOver \/ NoChildLeft
  \/ \E i \in Entries : PidEvent(i) \/ IpcEof(i) \/ ContinueWorker(i) \/ ReapWorker(i)

KernelStep(i) == WorkerKilled(i) \/ InitReaps(i)

Next ==
  \/ PassiveStep \/ ActiveStep
  \/ \E i \in Entries : KernelStep(i) \/ WorkerFails(i) \/ WorkerStops(i)
  \/ ActiveFails \/ PassiveFails \/ Interrupt \/ ActiveStops

(* Processes run, a killed one dies, and init reaps orphans. *)
Fairness ==
  /\ WF_vars(PassiveStep) /\ WF_vars(ActiveStep)
  /\ \A i \in Entries : WF_vars(KernelStep(i))

Spec == Init /\ [][Next]_vars /\ Fairness

-------------------------------------------------------------------------------
TypeOK ==
  /\ passive \in {"clone", "wait", "spin", "poll", "dead", "exited"}
  /\ active \in {"none", "start", "starting", "startFork", "loop", "respawn", "loopFork",
                 "spin", "zombie"}
  /\ at \in 1 .. NumWorkers + 1
  /\ entry \in [Entries -> {"set", "empty", "absent"}]
  /\ worker \in [Entries -> {"none", "running", "stopped", "dying", "zombie", "gone"}]
  /\ parent \in [Entries -> {"active", "passive", "init"}]
  /\ hup \in [Entries -> BOOLEAN]
  /\ strays \in 0 .. MaxCrashes + 1 /\ crashes \in 0 .. MaxCrashes /\ stops \in 0 .. MaxStops
  /\ polling \subseteq Entries
  /\ int \in {"none", "pending", "taken", "lost"} /\ chld \in BOOLEAN

Up == /\ passive = "wait" /\ active = "loop"
      /\ \A i \in Entries : entry[i] # "absent" => entry[i] = "set" /\ worker[i] = "running"

(* A worker is replaced only once it cannot touch its connections any      *)
(* more: the entry of a process that may still run is never given up, nor  *)
(* is a second process forked for it, across restarts of the listeners.    *)
ReplacedOnlyWhenDead ==
  [][\A i \in Entries : entry[i] = "set" /\ entry'[i] # "set" => worker[i] = "gone"]_vars

(* A worker that nobody knows of has lost its socket, and so ends, before  *)
(* a listener hands out connections again; it would take some from the     *)
(* broadcast socket that nobody could take back.                           *)
NoStrays == active = "loop" => strays = 0

(* The orphans of an active listener are dead and reaped by the time its   *)
(* successor serves events.                                                *)
OrphansAreReaped ==
  active = "loop" => \A i \in Children("init") : worker[i] \notin {"dying", "zombie"}

(* Whichever process dies, and wherever, both listeners and all workers    *)
(* (of the entries that are left) run again in the end, if orphans are     *)
(* reaped in time at least from some point on.  Only the passive listener  *)
(* must not die while there is no active one.                              *)
Recovers ==
  <>[]OrphansAreReaped =>
    <>[]Up \/ <>(Lost \/ crashes > 1 \/ stops > 0 \/ int # "none")

(* SIGINT to the passive listener ends the proxy, although it arrives at   *)
(* any time and is relayed, and while processes die, as long as the        *)
(* passive listener does not.                                              *)
ShutdownCompletes ==
  int = "pending" ~> (passive = "exited" \/ int = "lost" \/ stops > 0)

(* "When a process of the proxy terminates, it is restarted and recovery   *)
(* sets in to continue operating" (thesis/40_implementation.md): as        *)
(* Recovers, for any number of deaths, unless both listeners are dead at   *)
(* once.                                                                   *)
Restarted == <>[]Up \/ <>(Lost \/ int # "none")
===============================================================================
