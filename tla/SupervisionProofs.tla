---------------------------- MODULE SupervisionProofs ----------------------------
(***************************************************************************)
(* Theorems about Supervision, for every number of workers, of deaths and  *)
(* of stopped processes.                                                   *)
(***************************************************************************)
EXTENDS Supervision, TLAPS

(* The active listener forks for an entry that it has emptied; while the   *)
(* passive one waits or clones there is no active one; a worker whose      *)
(* pidfd is known to have hung up was reaped and is still noted; and from  *)
(* the time that forgotten descriptors are recovered until it ends, the    *)
(* active listener knows all workers.                                      *)
Recovered == {"starting", "startFork", "loop", "respawn", "loopFork", "spin"}

Phases ==
  /\ passive \in {"poll", "clone"} => active = "none"
  /\ Forked \/ active = "respawn" => at \in Entries /\ entry[at] = "empty"
  /\ \A i \in Entries : hup[i] => entry[i] = "set" /\ worker[i] = "gone"
  /\ active \in Recovered => strays = 0

IInv == TypeOK /\ Phases

(* How the parts of the state change that several actions share. *)
LEMMA SharedTypes ==
  ASSUME TypeOK
  PROVE  /\ Orphaned \in [Entries -> {"active", "passive", "init"}]
         /\ Compacted \in [Entries -> {"set", "empty", "absent"}]
         /\ Known \subseteq Entries
         /\ Signalled \in [Entries -> {"none", "running", "stopped", "dying", "zombie", "gone"}]
         /\ \A w \in [Entries -> {"none", "running", "stopped", "dying", "zombie", "gone"}] :
              WithoutForked(w)
                \in [Entries -> {"none", "running", "stopped", "dying", "zombie", "gone"}]
BY DEF TypeOK, Orphaned, Compacted, Known, Signalled, WithoutForked

(* A worker that was reaped stays so for those that know it, and a set     *)
(* entry stays set when the array is compacted.                            *)
LEMMA SharedHup ==
  ASSUME TypeOK, Phases, NEW i \in Entries, hup[i]
  PROVE  /\ Compacted[i] = "set" /\ Signalled[i] = "gone"
         /\ WithoutForked(worker)[i] = "gone" /\ WithoutForked(Signalled)[i] = "gone"
<1>1. entry[i] = "set" /\ worker[i] = "gone" /\ i \in Known /\ Known # {}
  BY DEF Phases, Known
<1>2. ~(Forked /\ i = at)
  BY <1>1 DEF Phases
<1>3. Signalled[i] = "gone"
  BY <1>1 DEF Signalled
<1> QED BY <1>1, <1>2, <1>3 DEF Compacted, WithoutForked

LEMMA StrayType ==
  ASSUME TypeOK, Phases
  PROVE  Strays \in 0 .. MaxCrashes + 1
<1>1. Forked => strays = 0
  BY DEF Forked, Phases, Recovered
<1> QED BY <1>1, SupervisionAssumption, SMT DEF Strays, TypeOK

LEMMA Base == Init => IInv
<1> SUFFICES ASSUME Init PROVE IInv
  OBVIOUS
<1>1. /\ 1 \in 1 .. NumWorkers + 1 /\ 0 \in 0 .. MaxCrashes /\ 0 \in 0 .. MaxCrashes + 1
      /\ 0 \in 0 .. MaxStops
  BY SupervisionAssumption, SMT
<1> QED BY <1>1 DEF Init, IInv, TypeOK, Phases, Forked, Recovered

LEMMA Inductive == IInv /\ [Next]_vars => IInv'
<1> SUFFICES ASSUME TypeOK, Phases, [Next]_vars
             PROVE  TypeOK' /\ Phases'
  BY DEF IInv
<1> USE DEF TypeOK, Phases, array, listeners, bounds, Forked, Recovered
<1>1. CASE Clone
  BY <1>1 DEF Clone
<1>2. CASE Interrupted
  BY <1>2, SharedTypes, SharedHup, StrayType DEF Interrupted
<1>3. CASE Spins
  BY <1>3 DEF Spins
<1>4. CASE ReapActive
  BY <1>4, SharedTypes, SharedHup DEF ReapActive
<1>5. CASE PollReturns
  BY <1>5 DEF PollReturns
<1>6. CASE PollDone
  BY <1>6, SharedTypes, SharedHup DEF PollDone
<1>7. CASE RecoverFds
  <2>1. 1 \in 1 .. NumWorkers + 1 /\ 0 \in 0 .. MaxCrashes + 1
    BY SupervisionAssumption, SMT
  <2> QED BY <1>7, <2>1 DEF RecoverFds
<1>8. CASE PollExisting
  <2>1. at + 1 \in 1 .. NumWorkers + 1
    BY <1>8, SupervisionAssumption, SMT DEF PollExisting, Entries
  <2> QED BY <1>8, <2>1 DEF PollExisting
<1>9. CASE Fork
  BY <1>9 DEF Fork
<1>10. CASE Note
  <2>1. at \in Entries /\ at + 1 \in 1 .. NumWorkers + 1
    BY <1>10, SupervisionAssumption, SMT DEF Note, Entries
  <2> QED BY <1>10, <2>1 DEF Note
<1>11. CASE FirstWait
  BY <1>11 DEF FirstWait, Known
<1>12. CASE TakeOver
  BY <1>12, SharedTypes, SharedHup DEF TakeOver
<1>13. CASE NoChildLeft
  BY <1>13 DEF NoChildLeft
<1>14. ASSUME NEW i \in Entries, PidEvent(i)
       PROVE  TypeOK' /\ Phases'
  <2>1. i \in 1 .. NumWorkers + 1
    BY SupervisionAssumption, SMT DEF Entries
  <2> QED BY <1>14, <2>1 DEF PidEvent
<1>15. ASSUME NEW i \in Entries, IpcEof(i)
       PROVE  TypeOK' /\ Phases'
  BY <1>15, SharedTypes DEF IpcEof
<1>16. ASSUME NEW i \in Entries, ContinueWorker(i) \/ ReapWorker(i)
       PROVE  TypeOK' /\ Phases'
  BY <1>16 DEF ContinueWorker, ReapWorker
<1>17. ASSUME NEW i \in Entries, WorkerKilled(i) \/ InitReaps(i)
       PROVE  TypeOK' /\ Phases'
  <2>1. CASE WorkerKilled(i)
    BY <2>1 DEF WorkerKilled, Dies
  <2>2. CASE InitReaps(i)
    BY <2>2 DEF InitReaps
  <2> QED BY <1>17, <2>1, <2>2
<1>18. ASSUME NEW i \in Entries, WorkerFails(i)
       PROVE  TypeOK' /\ Phases'
  <2>1. crashes' \in 0 .. MaxCrashes
    BY <1>18, SupervisionAssumption, SMT DEF WorkerFails, Fails
  <2> QED BY <1>18, <2>1 DEF WorkerFails, Fails, Dies
<1>19. CASE ActiveFails
  <2>1. crashes' \in 0 .. MaxCrashes
    BY <1>19, SupervisionAssumption, SMT DEF ActiveFails, Fails
  <2> QED BY <1>19, <2>1, SharedTypes, SharedHup, StrayType DEF ActiveFails, Fails
<1>20. CASE PassiveFails
  <2>1. crashes' \in 0 .. MaxCrashes
    BY <1>20, SupervisionAssumption, SMT DEF PassiveFails, Fails
  <2> QED BY <1>20, <2>1 DEF PassiveFails, Fails
<1>21. CASE Interrupt
  BY <1>21 DEF Interrupt
<1>22. ASSUME NEW i \in Entries, WorkerStops(i)
       PROVE  TypeOK' /\ Phases'
  <2>1. stops' \in 0 .. MaxStops
    BY <1>22, SupervisionAssumption, SMT DEF WorkerStops, Stops
  <2> QED BY <1>22, <2>1 DEF WorkerStops, Stops
<1>23. CASE ActiveStops
  <2>1. stops' \in 0 .. MaxStops
    BY <1>23, SupervisionAssumption, SMT DEF ActiveStops, Stops
  <2> QED BY <1>23, <2>1 DEF ActiveStops, Stops
<1>24. CASE UNCHANGED vars
  BY <1>24 DEF vars
<1> QED BY <1>1, <1>2, <1>3, <1>4, <1>5, <1>6, <1>7, <1>8, <1>9, <1>10, <1>11, <1>12, <1>13,
           <1>14, <1>15, <1>16, <1>17, <1>18, <1>19, <1>20, <1>21, <1>22, <1>23, <1>24
        DEF Next, PassiveStep, ActiveStep, KernelStep

LEMMA Invariant == Spec => []IInv
BY Base, Inductive, PTL DEF Spec

(* Type correctness. *)
THEOREM TypeCorrect == Spec => []TypeOK
BY Invariant, PTL DEF IInv

(* The active listener serves events only when it knows every worker that  *)
(* was forked, however often and wherever listeners and workers died.      *)
THEOREM NoWorkerUnknown == Spec => []NoStrays
<1>1. IInv => NoStrays
  BY DEF IInv, Phases, Recovered, NoStrays
<1> QED BY <1>1, Invariant, PTL

(* A worker's entry is given up only once the worker has been reaped: for  *)
(* every number of workers and of deaths, also across the re-executions    *)
(* that compact the array.                                                 *)
THEOREM EntryOutlivesWorker == Spec => ReplacedOnlyWhenDead
<1> DEFINE A == \A i \in Entries : entry[i] = "set" /\ entry'[i] # "set" => worker[i] = "gone"
<1>1. IInv /\ [Next]_vars => [A]_vars
  <2> SUFFICES ASSUME TypeOK, Phases, Next,
                      NEW i \in Entries, entry[i] = "set", entry'[i] # "set"
               PROVE  worker[i] = "gone"
    BY DEF IInv
  <2> USE DEF array, listeners, bounds
  <2>1. entry' # entry /\ entry' # Compacted
    BY DEF Compacted, Known
  <2>2. ~Note
    BY DEF Note, TypeOK
  <2>3. \E j \in Entries : PidEvent(j)
    BY <2>1, <2>2
       DEF Next, PassiveStep, ActiveStep, KernelStep, Clone, Interrupted, Spins, ReapActive,
           PollReturns, PollDone, RecoverFds, PollExisting, Fork, FirstWait, TakeOver,
           NoChildLeft, IpcEof, ContinueWorker, ReapWorker, WorkerKilled, InitReaps, Dies,
           WorkerFails, Fails, ActiveFails, PassiveFails, Interrupt, WorkerStops, Stops,
           ActiveStops
  <2>4. PICK j \in Entries : PidEvent(j)
    BY <2>3
  <2>5. i = j
    BY <2>4 DEF PidEvent, TypeOK
  <2> QED BY <2>4, <2>5 DEF PidEvent, Phases
<1>2. Spec => [][A]_vars
  BY <1>1, Invariant, PTL DEF Spec
<1> QED BY <1>2 DEF ReplacedOnlyWhenDead
===============================================================================
