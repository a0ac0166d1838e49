---------------------------- MODULE RunnerThreads ----------------------------
(***************************************************************************)
(* The runner threads of the simulator, the two phasers that keep their    *)
(* clocks together, and the main thread that waits for them.               *)
(*                                                                         *)
(* Thread t simulates the cores t, t + M, t + 2M, ... one after the other, *)
(* M being MaxNumJavaThreads, and on each core every kernel.  Every        *)
(* SynchClockDomainsCycles cycles it meets the others at epochEnd; before  *)
(* it hands its core over for the next one it arrives at coreEnd.  Each    *)
(* action makes at most one access to state another thread writes.         *)
(***************************************************************************)
EXTENDS Integers, FiniteSets, Phaser

CONSTANTS
  MaxNumJavaThreads,        \* number of runner threads
  totalNumCores,            \* number of SPs to simulate
  totalNumKernels,          \* number of kernels in the trace
  totalBlocks,              \* totalBlocks[k]: blocks of kernel k
  SynchClockDomainsCycles,  \* cycles between two arrivals at epochEnd
  MaxKernelCycles           \* bound: cycles one kernel takes on one core

Threads == 0 .. MaxNumJavaThreads - 1
Cores   == 0 .. totalNumCores - 1
Kernels == 0 .. totalNumKernels - 1

ASSUME RunnerAssumption ==
  /\ MaxNumJavaThreads \in Nat \ {0}
  /\ totalNumCores \in Nat /\ MaxNumJavaThreads <= totalNumCores
  /\ totalNumKernels \in Nat \ {0}
  /\ totalBlocks \in [Kernels -> Nat]
  /\ SynchClockDomainsCycles \in Nat \ {0}
  /\ MaxKernelCycles \in Nat \ {0}

VARIABLES
  pc,              \* where each runner thread is
  coreid,          \* the core a thread simulates
  kernelExecuted,  \* kernels the thread has finished on that core
  TOTALBLOCKS,     \* its share of the blocks of the current kernel
  cycles,          \* cycles simulated of the current kernel
  clock,           \* local clock of the core it simulates
  epochCount,      \* cycles counted towards the next epochEnd arrival
  newCount,        \* epochCount + 1, between the read and the write
  previousPhase,   \* phase of the thread's last epochEnd.arrive()
  previousCore,    \* phase of the thread's last coreEnd.arrive()
  epochEnd,        \* phaser, with onAdvance overridden
  coreEnd,         \* phaser
  resetting,       \* epochEnd.onAdvance has still to reset the counts
  GlobalClock,     \* the clock all threads and the DRAM thread share
  free,            \* semaphore of each thread: released or not
  waitingFor,      \* the thread main waits for, M when it has seen all
  allfinished,     \* main has seen every thread finish
  blocksDone,      \* history: blocks simulated of each kernel
  sinceSync,       \* history: cycles since kernel start or epoch advance
  thrown           \* history: threads that met IllegalStateException

work   == <<coreid, kernelExecuted, TOTALBLOCKS, cycles, blocksDone>>
clocks == <<clock, GlobalClock>>
epochs == <<epochCount, newCount, previousPhase, epochEnd, resetting, sinceSync>>
cores  == <<previousCore, coreEnd>>
main   == <<free, waitingFor, allfinished>>
vars   == <<pc, work, clocks, epochs, cores, main, thrown>>

Locations ==
  {"boot", "joinCore", "joinEpoch", "skip", "cycle", "setGlobal", "count",
   "countWrite", "check", "awaitEpoch", "arriveEpoch", "handover",
   "leaveEpoch", "awaitCore", "rejoinEpoch", "arriveCore", "move",
   "finishEpoch", "finishCore", "release", "done", "dead", "deadInCore"}

(* The blocks of kernel k that core c simulates. *)
Share(c, k) ==
  totalBlocks[k] \div totalNumCores
    + (IF c < totalBlocks[k] % totalNumCores THEN 1 ELSE 0)

(* Where a thread goes when it starts a kernel with n blocks to simulate. *)
KernelEntry(n) == IF n = 0 THEN "skip" ELSE "cycle"

(* A thread inside a phaser's advance does nothing else. *)
Free(t) == epochEnd.advancer # t /\ coreEnd.advancer # t

At(t, l)     == pc[t] = l /\ Free(t)
Goto(t, l)   == pc' = [pc EXCEPT ![t] = l]

Init ==
  /\ pc = [t \in Threads |-> "boot"]
  /\ coreid = [t \in Threads |-> t]
  /\ kernelExecuted = [t \in Threads |-> 0]
  /\ TOTALBLOCKS = [t \in Threads |-> 0]
  /\ cycles = [t \in Threads |-> 0]
  /\ clock = [t \in Threads |-> 0]
  /\ epochCount = [t \in Threads |-> 0]
  /\ newCount = [t \in Threads |-> 0]
  /\ previousPhase = [t \in Threads |-> -1]
  /\ previousCore = [t \in Threads |-> -1]
  /\ epochEnd = NewPhaser(MaxNumJavaThreads)
  /\ coreEnd = NewPhaser(MaxNumJavaThreads)
  /\ resetting = FALSE
  /\ GlobalClock = 0
  /\ free = [t \in Threads |-> FALSE]
  /\ waitingFor = 0
  /\ allfinished = FALSE
  /\ blocksDone = [k \in Kernels |-> 0]
  /\ sinceSync = [t \in Threads |-> 0]
  /\ thrown = {}

-----------------------------------------------------------------------------
(* Phaser calls.  `next' is where the caller continues, `catch' where it   *)
(* ends up when the call throws.                                           *)

(* Slip: an arrival nobody is left for goes through. *)
EpochCallUnguarded(t, p, next, catch) ==
  /\ epochEnd' = p
  /\ resetting' = (resetting \/ p.advancer = t)
  /\ Goto(t, next)
  /\ UNCHANGED thrown

EpochCall(t, p, next, catch) ==
  IF CanArrive(epochEnd)
  THEN /\ epochEnd' = p
       /\ resetting' = (resetting \/ p.advancer = t)
       /\ Goto(t, next)
       /\ UNCHANGED thrown
  ELSE /\ Goto(t, catch)
       /\ thrown' = thrown \cup {t}
       /\ UNCHANGED <<epochEnd, resetting>>

CoreCall(t, p, next, catch) ==
  IF CanArrive(coreEnd)
  THEN /\ coreEnd' = p
       /\ Goto(t, next)
       /\ UNCHANGED thrown
  ELSE /\ Goto(t, catch)
       /\ thrown' = thrown \cup {t}
       /\ UNCHANGED coreEnd

(* previousPhase = epochEnd.arrive() *)
EpochArrive(t, next) ==
  /\ EpochCall(t, Arrive(epochEnd, t), next, "dead")
  /\ previousPhase' = IF CanArrive(epochEnd)
                      THEN [previousPhase EXCEPT ![t] = epochEnd.phase]
                      ELSE previousPhase

(* previousCore = coreEnd.arrive() *)
CoreArrive(t, next, catch) ==
  /\ CoreCall(t, Arrive(coreEnd, t), next, catch)
  /\ previousCore' = IF CanArrive(coreEnd)
                     THEN [previousCore EXCEPT ![t] = coreEnd.phase]
                     ELSE previousCore

(* The overridden onAdvance of epochEnd: every runner counts from 0 again. *)
OnAdvance ==
  /\ resetting
  /\ resetting' = FALSE
  /\ epochCount' = [t \in Threads |-> 0]
  /\ UNCHANGED <<pc, work, clocks, newCount, previousPhase, epochEnd,
                 sinceSync, cores, main, thrown>>

PublishEpoch ==
  /\ epochEnd.advancer # Nobody
  /\ ~resetting
  /\ epochEnd' = Publish(epochEnd)
  /\ sinceSync' = [t \in Threads |-> 0]
  /\ UNCHANGED <<pc, work, clocks, epochCount, newCount, previousPhase,
                 resetting, cores, main, thrown>>

PublishCore ==
  /\ coreEnd.advancer # Nobody
  /\ coreEnd' = Publish(coreEnd)
  /\ UNCHANGED <<pc, work, clocks, epochs, previousCore, main, thrown>>

-----------------------------------------------------------------------------
(* initialize(), called with k kernels finished on the current core.       *)

Initialize(t, k) ==
  /\ kernelExecuted' = [kernelExecuted EXCEPT ![t] = k]
  /\ epochCount' = [epochCount EXCEPT ![t] = 0]
  /\ sinceSync' = [sinceSync EXCEPT ![t] = 0]
  /\ cycles' = [cycles EXCEPT ![t] = 0]
  /\ LET blocks == IF k < totalNumKernels THEN Share(coreid[t], k) ELSE 0
     IN  /\ TOTALBLOCKS' = [TOTALBLOCKS EXCEPT ![t] = blocks]
         /\ Goto(t, CASE pc[t] = "boot"                 -> "joinCore"
                      [] pc[t] # "boot" /\ k < totalNumKernels
                                                        -> KernelEntry(blocks)
                      [] pc[t] # "boot" /\ k >= totalNumKernels
                           /\ coreid[t] + MaxNumJavaThreads < totalNumCores
                                                        -> "handover"
                      [] OTHER                          -> "finishEpoch")
  /\ UNCHANGED <<coreid, clocks, newCount, previousPhase, epochEnd, resetting,
                 cores, main, thrown>>

(* run(): the first initialize(), then an arrival at both phasers. *)
Boot(t) ==
  /\ At(t, "boot")
  /\ Initialize(t, 0)
  /\ UNCHANGED blocksDone

JoinCore(t) ==
  /\ At(t, "joinCore")
  /\ CoreArrive(t, "joinEpoch", "dead")
  /\ UNCHANGED <<work, clocks, epochs, main>>

JoinEpoch(t) ==
  /\ At(t, "joinEpoch")
  /\ EpochArrive(t, KernelEntry(TOTALBLOCKS[t]))
  /\ UNCHANGED <<work, clocks, epochCount, newCount, sinceSync, cores, main>>

(* A kernel that has no block for this core. *)
SkipKernel(t) ==
  /\ At(t, "skip")
  /\ Initialize(t, kernelExecuted[t] + 1)
  /\ UNCHANGED blocksDone

(* Slip: kernelExecuted is counted in run() and in initialize(). *)
EndKernelCountsTwice(t) ==
  /\ At(t, "cycle")
  /\ cycles[t] > 0
  /\ blocksDone' = [blocksDone EXCEPT ![kernelExecuted[t]] = @ + TOTALBLOCKS[t]]
  /\ Initialize(t, kernelExecuted[t] + 2)

(* finishAllPipelines() has found the warp table empty. *)
EndKernel(t) ==
  /\ At(t, "cycle")
  /\ cycles[t] > 0
  /\ blocksDone' = [blocksDone EXCEPT ![kernelExecuted[t]] = @ + TOTALBLOCKS[t]]
  /\ Initialize(t, kernelExecuted[t] + 1)

-----------------------------------------------------------------------------
(* One simulated cycle: AddToSetAndIncrementClock().                       *)

(* Slip: the comparison with the global clock is the wrong way round. *)
CycleClockSwapped(t) ==
  /\ At(t, "cycle")
  /\ cycles[t] < MaxKernelCycles
  /\ cycles' = [cycles EXCEPT ![t] = @ + 1]
  /\ clock' = [clock EXCEPT ![t] = @ + 1]
  /\ sinceSync' = [sinceSync EXCEPT ![t] = @ + 1]
  /\ Goto(t, IF GlobalClock > clock[t] + 1 THEN "setGlobal" ELSE "count")
  /\ UNCHANGED <<coreid, kernelExecuted, TOTALBLOCKS, blocksDone, GlobalClock,
                 epochCount, newCount, previousPhase, epochEnd, resetting,
                 cores, main, thrown>>

Cycle(t) ==
  /\ At(t, "cycle")
  /\ cycles[t] < MaxKernelCycles
  /\ cycles' = [cycles EXCEPT ![t] = @ + 1]
  /\ clock' = [clock EXCEPT ![t] = @ + 1]
  /\ sinceSync' = [sinceSync EXCEPT ![t] = @ + 1]
  /\ Goto(t, IF GlobalClock < clock[t] + 1 THEN "setGlobal" ELSE "count")
  /\ UNCHANGED <<coreid, kernelExecuted, TOTALBLOCKS, blocksDone, GlobalClock,
                 epochCount, newCount, previousPhase, epochEnd, resetting,
                 cores, main, thrown>>

SetGlobal(t) ==
  /\ At(t, "setGlobal")
  /\ GlobalClock' = clock[t]
  /\ Goto(t, "count")
  /\ UNCHANGED <<work, clock, epochs, cores, main, thrown>>

(* epochCount++ is a read and a write; onAdvance may come between. *)
Count(t) ==
  /\ At(t, "count")
  /\ newCount' = [newCount EXCEPT ![t] = epochCount[t] + 1]
  /\ Goto(t, "countWrite")
  /\ UNCHANGED <<work, clocks, epochCount, previousPhase, epochEnd, resetting,
                 sinceSync, cores, main, thrown>>

CountWrite(t) ==
  /\ At(t, "countWrite")
  /\ epochCount' = [epochCount EXCEPT ![t] = newCount[t]]
  /\ Goto(t, "check")
  /\ UNCHANGED <<work, clocks, newCount, previousPhase, epochEnd, resetting,
                 sinceSync, cores, main, thrown>>

(* Slip: the count is compared with the epoch, not taken modulo. *)
CheckOnce(t) ==
  /\ At(t, "check")
  /\ Goto(t, IF epochCount[t] = SynchClockDomainsCycles
             THEN "awaitEpoch" ELSE "cycle")
  /\ UNCHANGED <<work, clocks, epochs, cores, main, thrown>>

Check(t) ==
  /\ At(t, "check")
  /\ Goto(t, IF epochCount[t] % SynchClockDomainsCycles = 0
             THEN "awaitEpoch" ELSE "cycle")
  /\ UNCHANGED <<work, clocks, epochs, cores, main, thrown>>

(* Slip: awaitAdvance is forgotten. *)
AwaitEpochForgotten(t) ==
  /\ At(t, "awaitEpoch")
  /\ Goto(t, "arriveEpoch")
  /\ UNCHANGED <<work, clocks, epochs, cores, main, thrown>>

(* getPhase() and, when it is the phase of the last arrival, awaitAdvance. *)
AwaitEpoch(t) ==
  /\ At(t, "awaitEpoch")
  /\ epochEnd.phase # previousPhase[t]
  /\ Goto(t, "arriveEpoch")
  /\ UNCHANGED <<work, clocks, epochs, cores, main, thrown>>

ArriveEpoch(t) ==
  /\ At(t, "arriveEpoch")
  /\ EpochArrive(t, "cycle")
  /\ UNCHANGED <<work, clocks, epochCount, newCount, sinceSync, cores, main>>

-----------------------------------------------------------------------------
(* The hand-over in initialize(): the thread leaves a finished core.  run()*)
(* catches what initialize() throws; no kernel is left then.               *)

HandOver(t) ==
  /\ At(t, "handover")
  /\ Goto(t, IF coreEnd.phase = previousCore[t]
             THEN "leaveEpoch" ELSE "arriveCore")
  /\ UNCHANGED <<work, clocks, epochs, cores, main, thrown>>

(* Slip: the thread arrives but stays registered while it waits. *)
LeaveEpochRegistered(t) ==
  /\ At(t, "leaveEpoch")
  /\ EpochCall(t, Arrive(epochEnd, t), "awaitCore", "finishEpoch")
  /\ UNCHANGED <<work, clocks, epochCount, newCount, previousPhase, sinceSync,
                 cores, main>>

LeaveEpoch(t) ==
  /\ At(t, "leaveEpoch")
  /\ EpochCall(t, ArriveAndDeregister(epochEnd, t), "awaitCore", "finishEpoch")
  /\ UNCHANGED <<work, clocks, epochCount, newCount, previousPhase, sinceSync,
                 cores, main>>

AwaitCore(t) ==
  /\ At(t, "awaitCore")
  /\ coreEnd.phase # previousCore[t]
  /\ Goto(t, "rejoinEpoch")
  /\ UNCHANGED <<work, clocks, epochs, cores, main, thrown>>

(* Slip: the thread does not register again. *)
RejoinEpochForgotten(t) ==
  /\ At(t, "rejoinEpoch")
  /\ Goto(t, "arriveCore")
  /\ UNCHANGED <<work, clocks, epochs, cores, main, thrown>>

RejoinEpoch(t) ==
  /\ At(t, "rejoinEpoch")
  /\ CanRegister(epochEnd)
  /\ epochEnd' = Register(epochEnd)
  /\ Goto(t, "arriveCore")
  /\ UNCHANGED <<work, clocks, epochCount, newCount, previousPhase, resetting,
                 sinceSync, cores, main, thrown>>

ArriveCore(t) ==
  /\ At(t, "arriveCore")
  /\ CoreArrive(t, "move", "finishEpoch")
  /\ UNCHANGED <<work, clocks, epochs, main>>

(* Slip: the stride over the cores is one short. *)
MoveOneShort(t) ==
  /\ At(t, "move")
  /\ coreid' = [coreid EXCEPT ![t] = @ + MaxNumJavaThreads - 1]
  /\ kernelExecuted' = [kernelExecuted EXCEPT ![t] = 0]
  /\ LET blocks == Share(coreid[t] + MaxNumJavaThreads - 1, 0)
     IN  /\ TOTALBLOCKS' = [TOTALBLOCKS EXCEPT ![t] = blocks]
         /\ Goto(t, KernelEntry(blocks))
  /\ clock' = [clock EXCEPT ![t] = 0]
  /\ GlobalClock' = IF t = 0 THEN 0 ELSE GlobalClock
  /\ UNCHANGED <<cycles, blocksDone, epochs, cores, main, thrown>>

(* The next core starts at time 0; thread 0 also resets the global clock. *)
Move(t) ==
  /\ At(t, "move")
  /\ coreid' = [coreid EXCEPT ![t] = @ + MaxNumJavaThreads]
  /\ kernelExecuted' = [kernelExecuted EXCEPT ![t] = 0]
  /\ LET blocks == Share(coreid[t] + MaxNumJavaThreads, 0)
     IN  /\ TOTALBLOCKS' = [TOTALBLOCKS EXCEPT ![t] = blocks]
         /\ Goto(t, KernelEntry(blocks))
  /\ clock' = [clock EXCEPT ![t] = 0]
  /\ GlobalClock' = IF t = 0 THEN 0 ELSE GlobalClock
  /\ UNCHANGED <<cycles, blocksDone, epochs, cores, main, thrown>>

-----------------------------------------------------------------------------
(* The end: iFinished() and free.release(), and main's wait.               *)

(* Slip: a finished thread stays registered with epochEnd. *)
FinishEpochRegistered(t) ==
  /\ At(t, "finishEpoch")
  /\ EpochCall(t, Arrive(epochEnd, t), "finishCore", "dead")
  /\ UNCHANGED <<work, clocks, epochCount, newCount, previousPhase, sinceSync,
                 cores, main>>

FinishEpoch(t) ==
  /\ At(t, "finishEpoch")
  /\ EpochCall(t, ArriveAndDeregister(epochEnd, t), "finishCore", "dead")
  /\ UNCHANGED <<work, clocks, epochCount, newCount, previousPhase, sinceSync,
                 cores, main>>

(* Slip: a finished thread stays registered with coreEnd. *)
FinishCoreRegistered(t) ==
  /\ At(t, "finishCore")
  /\ CoreCall(t, Arrive(coreEnd, t), "release", "deadInCore")
  /\ UNCHANGED <<work, clocks, epochs, previousCore, main>>

FinishCore(t) ==
  /\ At(t, "finishCore")
  /\ CoreCall(t, ArriveAndDeregister(coreEnd, t), "release", "deadInCore")
  /\ UNCHANGED <<work, clocks, epochs, previousCore, main>>

Release(t) ==
  /\ At(t, "release")
  /\ free' = [free EXCEPT ![t] = TRUE]
  /\ Goto(t, "done")
  /\ UNCHANGED <<work, clocks, epochs, cores, waitingFor, allfinished, thrown>>

(* waitForJavaThreads() acquires the semaphores in order. *)
WaitForJavaThread ==
  /\ waitingFor < MaxNumJavaThreads
  /\ free[waitingFor]
  /\ free' = [free EXCEPT ![waitingFor] = FALSE]
  /\ waitingFor' = waitingFor + 1
  /\ UNCHANGED <<pc, work, clocks, epochs, cores, allfinished, thrown>>

AllFinished ==
  /\ waitingFor = MaxNumJavaThreads
  /\ ~allfinished
  /\ allfinished' = TRUE
  /\ UNCHANGED <<pc, work, clocks, epochs, cores, free, waitingFor, thrown>>

-----------------------------------------------------------------------------

Step(t) ==
  \/ Boot(t)        \/ JoinCore(t)    \/ JoinEpoch(t)
  \/ SkipKernel(t)  \/ EndKernel(t)
  \/ Cycle(t)       \/ SetGlobal(t)   \/ Count(t)     \/ CountWrite(t)
  \/ Check(t)       \/ AwaitEpoch(t)  \/ ArriveEpoch(t)
  \/ HandOver(t)    \/ LeaveEpoch(t)  \/ AwaitCore(t) \/ RejoinEpoch(t)
  \/ ArriveCore(t)  \/ Move(t)
  \/ FinishEpoch(t) \/ FinishCore(t)  \/ Release(t)

Next ==
  \/ \E t \in Threads : Step(t)
  \/ OnAdvance \/ PublishEpoch \/ PublishCore
  \/ WaitForJavaThread \/ AllFinished

Spec == Init /\ [][Next]_vars

(* Every Java thread that can take a step is scheduled sooner or later. *)
Fairness ==
  /\ \A t \in Threads : WF_vars(Step(t))
  /\ WF_vars(OnAdvance \/ PublishEpoch)
  /\ WF_vars(PublishCore)
  /\ WF_vars(WaitForJavaThread \/ AllFinished)

FairSpec == Spec /\ Fairness

-----------------------------------------------------------------------------
(* Properties.                                                             *)

(* Type invariant.                                                         *)
PhaserType ==
  [phase : Nat, parties : Nat, unarrived : Nat, advancer : Threads \cup {Nobody}]

TypeOK ==
  /\ pc \in [Threads -> Locations]
  /\ coreid \in [Threads -> Nat]
  /\ kernelExecuted \in [Threads -> Nat]
  /\ TOTALBLOCKS \in [Threads -> Nat]
  /\ cycles \in [Threads -> Nat]
  /\ clock \in [Threads -> Nat]
  /\ epochCount \in [Threads -> Nat]
  /\ newCount \in [Threads -> Nat]
  /\ previousPhase \in [Threads -> Nat \cup {-1}]
  /\ previousCore \in [Threads -> Nat \cup {-1}]
  /\ epochEnd \in PhaserType
  /\ coreEnd \in PhaserType
  /\ resetting \in BOOLEAN
  /\ GlobalClock \in Nat
  /\ free \in [Threads -> BOOLEAN]
  /\ waitingFor \in 0 .. MaxNumJavaThreads
  /\ allfinished \in BOOLEAN
  /\ blocksDone \in [Kernels -> Nat]
  /\ sinceSync \in [Threads -> Nat]
  /\ thrown \subseteq Threads

(* The threads registered with each phaser. *)
EpochMembers ==
  {t \in Threads : pc[t] \notin {"awaitCore", "rejoinEpoch", "finishCore",
                                 "release", "done", "deadInCore"}}
CoreMembers == {t \in Threads : pc[t] \notin {"release", "done"}}

(* Members that still have to arrive in the current phase, and threads that *)
(* left a phase they had already arrived in: these were counted twice.      *)
Pending(members, previous, p) == {t \in members : previous[t] # p.phase}
CountedTwice(members, previous, p) ==
  {t \in Threads \ members : previous[t] = p.phase}

Accounted(members, previous, p) ==
  /\ p.parties = Cardinality(members)
  /\ p.unarrived = Cardinality(Pending(members, previous, p))
                     - Cardinality(CountedTwice(members, previous, p))
  /\ p.advancer = Nobody /\ p.parties > 0 => p.unarrived > 0

(* What epochEnd counts is what the threads did: the arrivals it waits for  *)
(* are those of members that have not arrived, less one for each thread     *)
(* that left (hand-over or end) after it had arrived in the same phase.     *)
EpochAccounting == Accounted(EpochMembers, previousPhase, epochEnd)

(* The same for coreEnd, which threads leave only at their end.             *)
CoreAccounting == Accounted(CoreMembers, previousCore, coreEnd)

(* arrive() is only called in a phase in which the caller has not arrived   *)
(* yet, although the phase is read some steps before: the test of the phase *)
(* in AddToSetAndIncrementClock and in initialize() cannot become stale.    *)
ArrivesOnce ==
  \A t \in Threads :
    /\ previousPhase[t] <= epochEnd.phase
    /\ pc[t] \in {"boot", "joinCore", "joinEpoch", "arriveEpoch"}
         => previousPhase[t] < epochEnd.phase
    /\ previousCore[t] <= coreEnd.phase
    /\ pc[t] \in {"boot", "joinCore", "rejoinEpoch", "arriveCore"}
         => previousCore[t] < coreEnd.phase

(* The conjunction that every step preserves. *)
IndInv == TypeOK /\ ArrivesOnce /\ EpochAccounting /\ CoreAccounting

(* Nobody waits for an advance that no thread can bring about: a phase that *)
(* is not over has a member that has not arrived in it.                     *)
NoOrphanWait ==
  /\ \A t \in Threads :
       pc[t] = "awaitEpoch" /\ epochEnd.phase = previousPhase[t]
         /\ epochEnd.advancer = Nobody
       => \E u \in EpochMembers : previousPhase[u] # epochEnd.phase
  /\ \A t \in Threads :
       pc[t] = "awaitCore" /\ coreEnd.phase = previousCore[t]
         /\ coreEnd.advancer = Nobody
       => \E u \in CoreMembers : previousCore[u] # coreEnd.phase

(* No two runner threads ever drive the same core.                          *)
ExclusiveCores ==
  \A t, u \in Threads : t # u => coreid[t] # coreid[u]

(* Inside a kernel a thread simulates fewer than three epochs' worth of     *)
(* cycles between two epoch advances, although onAdvance clears its count   *)
(* before the advance can be seen and may clear it between read and write.  *)
EpochBound == \A t \in Threads : sinceSync[t] < 3 * SynchClockDomainsCycles

(* In spite of the unguarded check and write, the global clock is never     *)
(* behind every local clock by more than the cycle under way.               *)
GlobalClockFloor == \E t \in Threads : GlobalClock >= clock[t] - 1

(* When main ends and no phaser call has thrown, every block of every       *)
(* kernel has been simulated exactly once.                                  *)
EveryBlockOnce ==
  /\ \A k \in Kernels : blocksDone[k] <= totalBlocks[k]
  /\ allfinished /\ thrown = {} => blocksDone = totalBlocks

(* A phaser call throws only during an advance, and only when a thread      *)
(* arrives twice in one phase: the caller itself, or one that left before.  *)
ThrowsOnlyOnDoubleArrival ==
  [][\A t \in thrown' \ thrown :
       \/ /\ epochEnd.advancer # Nobody
          /\ \/ previousPhase[t] = epochEnd.phase
             \/ CountedTwice(EpochMembers, previousPhase, epochEnd) # {}
       \/ /\ coreEnd.advancer # Nobody
          /\ \/ previousCore[t] = coreEnd.phase
             \/ CountedTwice(CoreMembers, previousCore, coreEnd) # {}]_vars

(* Main's wait ends, unless a phaser call has thrown.                       *)
MainFinishesUnlessThrown == <>(allfinished \/ thrown # {})

-----------------------------------------------------------------------------
(* What comments in the code say of it, which the runs refute.             *)

(* "The main thread waits for the finish of reader threads and returns"     *)
(* (IpcBase.java:84).                                                       *)
MainFinishes == <>allfinished

(* "assign threads to unexecuted cores" (SimplerRunnableThread.java:100):   *)
(* when main reports the results, no core was left out.                     *)
NoCoreUnexecuted == allfinished => blocksDone = totalBlocks

=============================================================================
