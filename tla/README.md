# A TLA+ model of the GPUTejas simulator

GPUTejas replays instruction traces of CUDA kernels on a simulated GPU. The
program is the Java code under `src/gputejas/src/simulator` (22,000 lines);
paths below are relative to that directory. `src/Tracegen.cpp` produces the
traces with the help of GPU Ocelot; the rest of `src/` is third-party code
(boost, ocelot, hydrazine, CUDA headers), sample traces and installation files.

This directory holds the TLA+ modules, TLC configurations and TLAPS proofs for
the simulator. `PROJECT.json` lists components, runs, mutants, hazards and
theorems, and maps every definition to the lines it stands for.

## 1. Inventory

### 1.1 How a simulation runs

`Main.main` builds the architecture, two `java.util.concurrent.Phaser`s, one
runner thread (`SimplerRunnableThread`) per `MaxNumJavaThreads`, and a DRAM
thread (`DramRunnableThread`). A runner thread reads packets from its trace
file, turns them into instructions, feeds them to the pipeline of the streaming
processor (SP, "core") it simulates, and steps this pipeline cycle by cycle.
Loads and stores become events that travel from the SP through caches with
MSHRs, an interconnect and a DRAM controller, and back. `Main` waits for one
semaphore per runner thread, prints statistics and exits. The traces are made
beforehand: `Tracegen` deals the blocks of a kernel out to one file per core, and
`TraceSimplifier` cuts each file into one stream per kernel.

### 1.2 Components

| Component | Where | State | Operations | Correct when |
|---|---|---|---|---|
| Runner threads | `emulatorinterface/SimplerRunnableThread`, `main/Main` | core, kernel, block share, local clock, epoch count, last phases; two phasers; semaphores | `run`, `initialize`, `AddToSetAndIncrementClock`, `iFinished`, `onAdvance`, `waitForJavaThreads` | every block simulated once; cores exclusive; phasers count what the threads do; nobody waits for nothing; main ends |
| Clocks | `generic/GlobalClock`, `LocalClockperSp` | one global, one local clock per SP | get, set, increment | global clock follows the local ones |
| DRAM thread | `emulatorinterface/DramRunnableThread` | DRAM clock | `run`, `clear` | DRAM keeps pace with the global clock |
| Instruction feed | `SimplerFilePacket`, `CircularPacketQueue`, `BlockState` | packets of the current block, file position | `fetchManyPackets`, `processPacket`, `runPipelines` | every instruction of every block reaches the pipeline once, in order |
| SP pipeline | `pipeline/*` | warp table, latches, pending loads | `oneCycleOperation`: write back, execute, schedule, collect, fill the warp table | instructions leave in the order and number they came in; pending loads equal outstanding requests |
| Operand collector | `pipeline/RF/*` | collector units, bank queues, bank allocation | `step`, `writeback` | a collector dispatches when, and only when, its operands were read; banks used once per cycle |
| Caches and MSHR | `memorysystem/Cache`, `Mode3MSHR` | lines, outstanding requests per address, busy flag, waiting list | `handleEvent`, `handleAccess`, `handleMemResponse`, `fillAndSatisfyRequests` | each request answered once; no request forgotten |
| Directory, NUCA | `memorysystem/directory`, `NucaCache` | sharers, states, banks | only when configured (not in the shipped configuration) | single writer |
| Events and ports | `generic/EventQueue`, `Port` | priority queue per SP, busy time per port | `addEvent`, `processEvents`, `put` | each event handled once, in time order |
| DRAM controller | `dram/*` | pending transactions, command queues, bank states, refresh counters | `handleEvent`, `enqueueToCommandQ`, `oneCycleOperation`, `CommandQueue.pop`, `Rank.handleEvent` | bank timing respected; every read answered |
| Interconnect | `net/*` | router buffers | `handleEvent`, `RoutingAlgo` | messages arrive, no cyclic wait |
| Circular queues | `generic/GenericCircularQueue` | head, tail, array | `enqueue`, `dequeue`, `pop`, `peek` | behaves as a bounded sequence |
| Trace simplification | `traceSimplification`, `main/readThread` | files | split blocks over cores, code packets | reading gives back what was written |
| Decoding | `emulatorinterface/translator` | none | one handler per instruction class | table complete |
| Configuration, statistics, misc | `config`, `generic/Statistics`, `misc` | static values and counters | parse, print | - |
| Left over from the CPU simulator | `SynchPrimitive`, `GlobalTable`, `Barrier`, ... | - | not called | - |

### 1.3 How they interact

* Runner threads meet at `epochEnd` every `SynchClockDomainsCycles` (50) cycles
  and at `coreEnd` before each hand-over to their next core; they share
  `GlobalClock` without a lock; `onAdvance` writes the `epochCount` of all.
* The DRAM thread reads `GlobalClock`, and its controllers are filled by the
  runner threads' event handlers and cleared by runner thread 0.
* Within an SP everything is called from `oneCycleOperation` by its own
  thread, until an event reaches a component shared by several SPs.
* Main and runner threads meet at the semaphores `free`.

### 1.4 What is hard

Phaser calls that race an advance; leaving and rejoining a phaser after having
arrived; a reset of a counter other threads are incrementing; the end of threads
with unequal work; MSHR entries, responses and retries between cache levels;
collectors and banks at their limits; DRAM timing with commands that may be
dropped; swallowed exceptions. `PROJECT.json` lists each at its line.

## 2. Modules and plan

| Module | Models | Uses | Checked by | Section |
|---|---|---|---|---|
| `Phaser` (external) | `java.util.concurrent.Phaser` | - | with `RunnerThreads` | 3 |
| `RunnerThreads` | runner threads, clocks, main | `Phaser` | `runner_*` | 3 |
| `RunnerThreads_proofs` | | `RunnerThreads` | TLAPS | 3 |
| `Arbiter`, `ArbiterRounds`, `Arbiter_proofs`, `ArbiterRounds_proofs` | `arbiter_t` | - | `arbiter_rounds`, TLAPS | 4 |
| `SPPipeline`, `SPPipeline_proofs`, `Collector_proofs` | one SP and the loop that feeds it | `Arbiter` | `pipeline*`, TLAPS | 4 |
| `CoalescingMemory` | what an SP may expect of memory (abstract) | - | refined by `Caches` | 5 |
| `Caches`, `Caches_proofs` | first-level caches, L2, their MSHRs | `CoalescingMemory` | `caches*`, TLAPS | 5 |
| `Tracegen` | the tracer | - | with `InstructionFeed` | 6 |
| `CircularQueue` | the circular queues, as operators | - | with `InstructionFeed` | 6 |
| `BoundedQueue` | a bounded sequence (abstract) | - | refined by `InstructionFeed` | 6 |
| `InstructionFeed`, `InstructionFeed_proofs` | simplifier, packet reader, `run()` up to the pipeline | `Tracegen`, `CircularQueue`, `BoundedQueue` | `feed`, TLAPS | 6 |
| `DRAMController`, `DRAMController_proofs` | DRAM thread, controller, command queues, rank | - | `dram*`, TLAPS | 7 |

The modules fit together where one leaves open what the other fixes. `SPPipeline`
takes any trace; `InstructionFeed` says which one it gets, and relies on
`FeedRunsNoCycle` of `SPPipeline` when it runs no cycle. Memory in `SPPipeline`
answers a request up to twice or never, which is what `CoalescingMemory` allows.
`Caches` takes a DRAM that answers every read; `DRAMController` shows when it
does not.

Left for later: a module for `EventQueue` and `Port` with their times (every
property of section 5 holds in any order of events, so nothing there waits for
it), the address mapping and ClosePage policy of the DRAM, and `NocRouting` and the
directory, which the shipped configuration does not use.

Every safety property that a passing run checks is also proved for all values of
the constants, two of them under a named hypothesis: `NoWriteLost` for one dispatch
unit, and `TraceMatchesShares` and `KernelFed` for `BlocksDiffer`. What only TLC checks
are the liveness properties, which TLAPS cannot prove: `MainFinishesUnlessThrown`,
`KernelsFinish`, `ReadsAnswered` and `FeedEnds`. For three of them it proves the safety
half, that the system never stops short of the goal: `NoDeadlock` of the runner
threads, `NoReadLeft` of caches at rest, and `ExitsOnlyWhenFull` of the feed.

## 3. The runner threads

### 3.1 Modules

`Phaser` has the part of `java.util.concurrent.Phaser` the code relies on, as
operators on a record. The JDK's phaser counts arrivals; it does not know who
arrives. The thread whose arrival brings `unarrived` to zero becomes the
`advancer`: it runs `onAdvance` and then publishes the next phase, in steps the
other threads can see. In that window an arrival throws `IllegalStateException`
(`CanArrive` is false) and `register` waits. This module is external: it is
taken from how the code uses the class and from the behaviour of the class.

`RunnerThreads` has one process per runner thread, plus the advance of the two
phasers and the main thread.

| Action | Code |
|---|---|
| `Boot`, `JoinCore`, `JoinEpoch` | start of `run()`: `initialize()`, `coreEnd.arrive()`, `epochEnd.arrive()` |
| `SkipKernel` | `run()` with `TOTALBLOCKS == 0` |
| `Cycle`, `SetGlobal`, `Count`, `CountWrite`, `Check`, `AwaitEpoch`, `ArriveEpoch` | `AddToSetAndIncrementClock()`; `epochCount++` is a read and a write because `onAdvance` writes the same field |
| `EndKernel` | `finishAllPipelines()` has returned; the rest of the loop body and `initialize()` |
| `HandOver`, `LeaveEpoch`, `AwaitCore`, `RejoinEpoch`, `ArriveCore`, `Move` | the hand-over in `initialize()` |
| `FinishEpoch`, `FinishCore`, `Release` | `iFinished()`, `free.release()` |
| `OnAdvance`, `PublishEpoch`, `PublishCore` | the advance of a phaser by its last arriver |
| `WaitForJavaThread`, `AllFinished` | `waitForJavaThreads()` and what follows in `main` |

An action makes at most one access to state another thread writes, so TLC
interleaves what the JVM can interleave. `pc` values name the statement a thread
is at. A phaser call that throws leads to `dead` (or `deadInCore`: already
deregistered from `epochEnd`) where `run()` does not catch, and to
`finishEpoch` where the `try` around `initialize()` does: the kernels of the
old core are used up, `kernelLeft()` is false, and the loop of `run()` ends.

Abstracted: the instructions of a kernel are a number of cycles between 1 and
`MaxKernelCycles`, chosen by TLC (`Cycle` or `EndKernel`); blocks are counted,
not simulated; an access to a `volatile`-less field is taken to be atomic and
visible at once, so effects of the memory model are not covered.

`blocksDone`, `sinceSync` and `thrown` are history variables: no guard of the
code's behaviour depends on them.

### 3.2 Properties

* `EpochAccounting`, `CoreAccounting`: `parties` is the number of threads that
  should be registered at their place in the code; `unarrived` is the number of
  members that have not arrived in this phase, less the threads that left in a
  phase in which they had already arrived. The subtraction is what the code
  really does: `arriveAndDeregister` after `arrive` counts a thread twice.
* `ArrivesOnce`: the phase test before `arrive` cannot become stale.
* `NoOrphanWait`: who waits for a phase to end waits for an actual member that
  has not arrived.
* `ExclusiveCores`: two threads never simulate the same core.
* `EpochBound`: within a kernel a thread runs fewer than 3 epochs' worth of
  cycles between two advances, in spite of the racing reset.
* `GlobalClockFloor`: some local clock is not ahead of the global one by more
  than the cycle under way.
* `EveryBlockOnce`: no block twice; all of them when main ends and nothing threw.
* `ThrowsOnlyOnDoubleArrival` (action property): a call throws only in the
  window of an advance, and only because somebody arrived twice.
* `MainFinishesUnlessThrown` (liveness).

### 3.3 Runs

| Run | Instance | Shows |
|---|---|---|
| `runner_safety` | 2 threads, 3 cores, 1 kernel of 4 blocks, epoch of 2, up to 6 cycles | all safety properties; thread 0 makes a hand-over, thread 1 ends early; 3 epochs per kernel, so the reset can hit every statement and the phasers throw |
| `runner_kernels` | 2 threads, 3 cores, kernels of 4 and 1 blocks, `FairSpec` | block shares, skipped kernels and `MainFinishesUnlessThrown` |
| `runner_main_hangs` | 2 threads, 3 cores, 1 kernel, epoch of 1, `FairSpec` | violated: `MainFinishes` |
| `runner_core_skipped` | 2 threads, 4 cores | violated: `NoCoreUnexecuted` |

The bounds: two threads are enough for every race between an arrival and an
advance, and the accounting is proved for any number (3.5); 3 cores for one hand-over next
to a thread that ends, 4 for two. `SynchClockDomainsCycles` is 2 where the code
has 50: an epoch then has cycles with and without an arrival.
`MaxKernelCycles` is the only bound on a counter and is in the guard of `Cycle`.
`CHECK_DEADLOCK FALSE` is set because the program stops: all threads done, or
main waiting for a dead thread. `NoOrphanWait` and `MainFinishesUnlessThrown` take the
place of the deadlock check.

Fairness: each Java thread that can take a step is scheduled eventually
(`WF` of a thread's steps, of each phaser's advance, which its last arriver
performs, and of main). No strong fairness is assumed: a waiting thread's
condition, once true, stays true until it moves or it is its own doing.

### 3.4 What the violated runs show

The two runs with expected violations are statements comments in the code make,
which the code does not keep; both have the same causes. A thread that
leaves a phaser (`arriveAndDeregister`) in a phase in which it has already
arrived is counted twice. And `Phaser` is not safe against such a call while
another thread advances: it throws. Depending on the place, the thread dies and
main waits for ever (`runner_main_hangs`), or the exception is printed and the
thread's remaining cores are silently left out (`runner_core_skipped`). With the
shipped `MaxNumJavaThreads` of 1 none of this can happen.

### 3.5 Proofs

`RunnerThreads_proofs` proves for every number of threads, cores, kernels and
blocks (`RunnerAssumption`, which only asks for natural numbers and
`MaxNumJavaThreads <= totalNumCores`, established at `Main.java:106`):

| Theorem | Property |
|---|---|
| `TypeCorrect` | `TypeOK` |
| `ArrivesOnceCorrect` | `ArrivesOnce` |
| `AccountingCorrect` | `EpochAccounting`, `CoreAccounting` |
| `NoOrphanWaitCorrect` | `NoOrphanWait` |
| `ThrowsCorrect` | `ThrowsOnlyOnDoubleArrival` |
| `ExclusiveCoresCorrect` | `ExclusiveCores` |

The inductive invariant is `IndInv`: types, `ArrivesOnce` and both accountings.
None of them is inductive alone. That an arrival lowers the number of pending
members by one needs that the caller was pending, which is `ArrivesOnce`;
that a phase published afresh starts with all members pending and nobody
counted twice needs that no last-arrival phase lies in the future, which is
`ArrivesOnce` again; and that a thread may call a phaser at all follows from its
place in the code, hence the types of `pc`.

The proof is in layers. Four lemmas about sets (`ArriveAccounted`,
`DeregisterAccounted`, `RegisterAccounted`, `PublishAccounted`) say what each
phaser operation does to `Accounted`, in terms of cardinalities. `Members` and
`GotoMembers` relate places in the code to membership. `TypeStep`, `OrderStep`
and `AccountingStep` go through the actions of `Next`, with frame lemmas
(`EpochFrame`, `CoreFrame`) for those that leave a phaser alone. `Inductive`
combines them; `NoOrphanWait` and `ThrowsOnlyOnDoubleArrival` follow from
`IndInv` because a positive `unarrived` means that a pending member exists.
`ExclusiveCores` has an invariant of its own: a thread's core is congruent to
its number (`Stride`).

More theorems build on `IndInv`, under the same assumptions:

| Theorem | Property |
|---|---|
| `GlobalClockFloorCorrect` | `GlobalClockFloor` |
| `EpochBoundCorrect` | `EpochBound` |
| `EveryBlockOnceCorrect` | `EveryBlockOnce` |
| `NoDeadlockCorrect` | `NoDeadlock` |

`GlobalClockFloor` does not survive a step by itself, since a thread may write a
smaller value over the global clock; `FloorInv` says of the thread that witnesses
it that it is not ahead, or ahead by one cycle and about to report it
(`setGlobal`).

`EpochBound` needs to know where a thread stands in its epoch. `Past(n, p)` says
that a count is `p` past a multiple of an epoch. `RoundInv` bounds what a thread
has simulated since the last advance by `p` and by what it no longer counts
(`Before`): a whole epoch if it arrived in this phase, and an epoch less a cycle if
`onAdvance()` has cleared its count before the new phase could be seen. With the
epoch it is in, that is fewer than three; only threads at the places of
`MayBeWhole` have `p` a whole epoch.

`EveryBlockOnce` sums the blocks of all cores, and a sum over a set is induction
over data. `BlockInv` counts instead: block `b` of a kernel is core
`b % totalNumCores`'s, and `blocksDone[k]` is the cardinality of the set of numbers
below `totalBlocks[k]` whose core has done them (`DoneBlocks`). `ShareCounts` gives
the number of those of one core, by a bijection with `0 .. Share - 1`, and shows
that it is what the division in `initialize()` hands out. `WorkInv` says which
cores a thread has behind it, and `MainInv` that all have when main ends.

`NoDeadlockCorrect` (`NoDeadlock`, stated in `RunnerThreads_proofs`) is the safety half
of `MainFinishesUnlessThrown`: until main ends or a phaser call throws, a thread can go
on, an advance is under way, or main finds the semaphore it waits for released.
`CanGoOn` says in terms of the state when a thread can take a step, because `ENABLED` is
out of the prover's reach; on the instance of `runner_safety` it is exactly
`ENABLED Step(t)`. The proof is by `NoOrphanWait`: a thread blocked on a phaser waits
for another that has not arrived, which is not blocked on the same one; nobody who is
blocked on `epochEnd` can be waited for there, so somebody is not blocked, or all are
done, and then main has a semaphore to take (`EndInv`).

Only model-checked: the liveness properties, which are out of the prover's reach.

## 4. The pipeline of an SP

### 4.1 Modules

`Arbiter` holds the arbitration of `arbiter_t.allocate_reads()` as operators:
`Matching` walks the wrapped diagonals in the order of the two loops (`Visit`)
and grants what is requested, not written and not yet matched; `NextPriority`
moves the first diagonal. `ArbiterRounds` runs it under arbitrary requests.
`SPPipeline` uses it and adds everything else an SP does in a cycle.

One thread runs all of an SP, so `SPPipeline` is sequential; what varies is the
trace, how many micro-operations a packet brings and when memory answers.
`stage` is the call that comes next:

| Action | Code |
|---|---|
| `Feed` | the loop of `run()` over blocks and packets: `processPacket`, the block-end marker, `runPipelines()` |
| `Finish`, `Tick` | the loops round the cycle, `finishAllPipelines()`, `initialize()` clearing the queue |
| `FillWarpTable` | `GPUExecutionEngine.WarpTable()` |
| `Writeback` | `GPUExecutionEngine.writeback()`, `OperandCollector.writeback()` |
| `Execute` | `ExecuteUnit.performExecute()` with the latch's `poll()` |
| `DrainEvents` | `EventQueue.processEvents()` as far as the SP sees it: `processCompletionOfMemRequest()` for any number of pending loads |
| `DispatchReady` | `dispatch_ready_cu()` for one dispatch unit: `find_ready()`, `Collector.dispatch()` |
| `AllocateCu` | `allocate_cu()`: `Collector.allocate()`, `add_read_requests()` |
| `AllocateReads` | `allocate_reads()`, `collect_operand()`, `process_banks()` |
| `Schedule` | `performSchedule()`, `fetchInstruction()` |

Some facts of the code shape the model:

* `Warp.in` is allocated and never filled, so every operand is register 0 and
  all reads go to bank 0; only the destination of a write varies. `Arbiter` is
  checked with arbitrary banks in `ArbiterRounds`.
* `fetchedInstructionStatus` is set together with `fetchedInstruction`: the
  instruction cache is asked, but its answer is not waited for.
* `step()` of the operand collector is skipped while the latch is full; a bank
  written in `writeback()` then stays written until the next step.
* `performExecute()` is only called while the warp table is not empty.
* A collector that has never held a warp counts as ready; dispatching it does
  nothing but take the unit's turn.
* A micro-operation needs a slot beside it in `inputToPipeline`, the marker at
  the end of a block does not; a marker that finds the queue full exits the
  program (`exited`).

Abstracted: an instruction is its type, number of registers, destination and
number of addresses; latencies are a function of the type; memory answers each
address of a load up to twice, or never, in any later cycle (`due`): a cache
answers a miss, and a hit, twice, and can forget a request (section 5). So
`pendingLoads` may be negative. `executed`,
`readBy` and `passed` are history variables. The model stops when the kernels of
this core are done.

### 4.2 Properties

* `MaximalMatching`, `BoundedWait`: a cycle's grants use no bank and no
  collector twice and leave nothing out that could be granted; a queue head
  waits less than one turn of the diagonals, and one more per write.
* `OnePlace`: an instruction fed is in exactly one queue, collector, latch or
  the history, so none is lost or duplicated.
* `QueuesMatchCollectors`: bank queues hold exactly the operands the busy
  collectors wait for; no request survives its collector's warp.
* `DispatchedWithOperands`: nothing is past the collectors with an operand unread.
* `NeverDead`: `allocate_cu()` never takes a warp from an empty table. It does
  not check; the loops round the cycle stop before it could.
* `FeedRunsNoCycle`: `runPipelines()` never runs a cycle. It counts the warps of
  the table, and only a cycle puts any there. All of a kernel is therefore
  queued before its first cycle.
* `LeftBehindBound`: `finishAllPipelines()` returns with instructions still in
  collectors and latches; at most as many as these hold.
* `BoundedOvertaking`, `ReadyWaitsOneRound`: instructions leave out of order, an
  early one at a position no further off than the collectors allow, and a ready
  collector gets its turn within a round.
* `NoWriteLost`: a write-back never meets a bank that is written already.
* `KernelsFinish` (liveness).

### 4.3 Runs

| Run | Instance | Shows |
|---|---|---|
| `arbiter_rounds` | 3 banks, 2 collectors, at most 1 write | `MaximalMatching`, `BoundedWait`; more banks than collectors, so diagonals leave the matrix |
| `pipeline` | 2 banks, 2 collectors, 1 dispatch unit, 2 kernels of 4 instructions from `Two`, warp table of 3, `FairSpec` | all other properties; the second kernel meets what the first left behind, the table fills up, and the three bounds fail here with one less |
| `pipeline_full` | kernel of 4, queue of 3, `FairSpec` | violated: `KernelsFinish` |

`Two` has a load of two addresses with two operands and a block end without
operands; they write different banks, the block end the one all operands are read
from. `Mix` adds an operation with three operands. All traces over them are
initial states. The shipped
configuration has 40 banks, 20 collectors and 1 dispatch unit: with 2 collectors
both are already competed for, and all collectors can be busy. The constants are
the only bounds: `KernelSize` and `totalNumKernels` bound the trace, hence
`clock`. `MaxWrites` bounds the writes in `ArbiterRounds`.
`CHECK_DEADLOCK FALSE` is set because the program ends, and because the feed can
get stuck; `KernelsFinish` says when it does not.

Fairness: the thread is scheduled again and again (`WF` of `Next`); memory owes
nothing, since a load leaves the latch by its latency whether answered or not.

### 4.4 What the violated runs show

`pipeline_full`: a kernel with more micro-operations per core than
`inputToPipeline` has slots (4,000,000) makes `run()` loop for ever; it waits for
space that only a cycle could make.

### 4.5 Proofs

For every trace, queue size and number of collectors, banks and dispatch units
(`PipelineAssumption`, `ArbiterAssumption`), four modules prove:

| Module | Theorem | Property |
|---|---|---|
| `SPPipeline_proofs` | `NeverDeadCorrect` | `NeverDead` |
| | `FeedRunsNoCycleCorrect` | `FeedRunsNoCycle` |
| | `OnePlaceCorrect` | `OnePlace` |
| | `BoundedOvertakingCorrect` | `BoundedOvertaking` |
| | `LeftBehindBoundCorrect` | `LeftBehindBound` |
| | `ReadyWaitsOneRoundCorrect` | `ReadyWaitsOneRound` |
| | `NoWriteLostCorrect` | `NoWriteLost`, assuming `num_dispatch_units = 1` |
| `Collector_proofs` | `TypeCorrect` | `TypeOK` of `SPPipeline` |
| | `QueuesMatchCollectorsCorrect` | `QueuesMatchCollectors` |
| | `DispatchedWithOperandsCorrect` | `DispatchedWithOperands` |
| `ArbiterRounds_proofs` | `MaximalMatchingCorrect` | `MaximalMatching` |
| | `BoundedWaitCorrect` | `BoundedWait` |

These are all safety properties of the two specifications. `Arbiter_proofs` has the
lemmas about the arbiter that the others need.

`NeverDead` and `FeedRunsNoCycle` are not inductive. `FeedInv` adds why they hold:
while a kernel is fed, `inputToPipeline` holds all that has been read of it and the
warp table is empty; so the first cycle finds at least one micro-operation, and
between `FillWarpTable` and `AllocateCu` the table is not empty. One lemma per action
that touches the queues, `FrameStep` for the others.

`OnePlace` is a sum over eight places, and each action moves a warp from one to
the next; lemmas say how often a warp occurs in what is appended, cut and taken.
The one step that could lose a warp is the end of a kernel, where `clear()` empties
`inputToPipeline`. `FullTable` is why it does not: what is left there found the
warp table full, so the warp table is not empty, and the kernel has not ended.

`BoundedOvertaking` and `LeftBehindBound` are about numbers of warps (`FlowInv`).
Warps are numbered as they are fed and keep that order up to the collectors
(`InOrder`); from there on the number of a warp is less than its place in the order
of leaving plus `num_collector_units` (`Overtaken`), since what is fed is at most
what has been dispatched and what the collectors hold.

`ReadyWaitsOneRound` counts turns. `TurnsBefore(c)` has a pair for each turn in which
a dispatch unit may have passed over `c`: as many for a unit as it has come nearer
to `c` in its round. A unit that passes over `c` comes nearer, which makes one pair
more, and `TurnInv` says that `passed[c]` is no more than the pairs.

`NoWriteLost` holds as shipped because at most one warp waits for write-back, and
by then the collector has been stepped and has freed its banks, or has not been
stepped and no warp got there (`WriteInv`). The assumption is needed: two units may
let two warps write the same bank before the collector is stepped again.

`Matching` is defined by recursion on the number of visits. What every recursive
value satisfies needs induction, and the library's induction theorems cannot be
instantiated; but a set of numbers that is not empty has a least element
(`LeastNumber`, from the library's `NatLessThanWellFounded`), and the first visit after
which a statement fails is a step from one where it holds. `Arbiter_proofs` argues
in this way that the grants are requested, idle and no two of a bank or of a
collector, and that every request finds its bank or its collector taken once it has
been visited; that all are visited is arithmetic of the wrapped diagonals.
`BoundedWait` (`RoundInv`) says where the first diagonal stands for each waiting
head: the head of a bank is granted when its diagonal comes first, unless the bank is
written, and that costs one more turn per write.

`QueuesMatchCollectors` is `OperandInv`: each place in a bank's queue is of an
operand its collector still waits for, no two places are of the same, and each
operand waited for has a place. `DispatchedWithOperands` adds `ReadInv`: of a warp
past the collectors all operands have been read, of one in a collector all but those
it waits for, of the others none. It uses `PlaceInv`, since what a collector
reads for its warp must not be read for another place of the same warp.

Liveness (`KernelsFinish`, `FairSpec`) is out of the prover's reach.

## 5. Caches and MSHRs

### 5.1 Modules

`Caches` has the first-level caches of several SPs over the L2 they share.
An event goes to the queue it carries and is handled by the thread of that queue:
an access by the thread of its SP, and so is a write that the access sends down to
L2; reads for L2, what memory answers, and responses by runner thread 0. A written
line that a response evicts carries the queue of the SP it answers. L2 therefore
has several threads at work. The events of a queue are handled in any order: their
times, and what `Port.put()` adds to them, are left out, so what is shown holds for
all.

| Action | Code |
|---|---|
| `Issue`, `Merge` | `addEvent()` of a first-level cache: a new entry, or `containsKey()` and later `get()` of one that exists |
| `HandleHit` | `handleAccess()` with a valid line: `read()`/`write()`, `processBlockAvailable()` |
| `HandleMiss`, `AddAgain` | `handleAccess()` without one: `sendRequestToNextLevel()`, then a second `addOutstandingRequest()` |
| `SendRead` | `addEventAtLowerCache()` with the test of `isBusy()` |
| `Respond` | `fillAndSatisfyRequests()` of a first-level cache: answers, fill, eviction |
| `HandleRead2`, `HandleWrite2`, `Respond2` | the same handlers of L2; a miss (`Miss2`) sends its read first |
| `Look2`, then `Put2` or `Join2` | `addOutstandingRequest()` of L2, step by step: for a miss (after the read was sent), and in `addEvent()` for blocks that are written back or through (`WriteDown`) |
| `Clear` | `GPUExecutionEngine.clear()` when the last SP of an SM hands over |

Some facts of the code shape the model:

* Every miss is put into the MSHR twice, by `addEvent()` and by `handleAccess()`,
  and a hit serves its entry and then itself: the request that makes an entry is
  answered twice, one that joins it once.
* `removeRequestsByAddress()` makes the event it is given a copy of the entry's
  first request; in L2 a read can so become a write, which is not answered.
* A read that finds L2 busy is put into `eventsWaitingOnMSHR`, which nobody reads.
* A clean line that L2 evicts while it serves a read sends another read to memory.
* L2 is configured as S_NUCA, but `nucaType` of `Cache` is never set (`NucaCache`
  has a field of the same name), so it behaves as one bank of a `Cache`.
* When thread 0 hands over, the queue that reads of L2 use is not read any more;
  writes in the queue of another SP go on until that SP hands over.

Abstracted: blocks are all of one set; an SM has one SP (the shipped NoOfSP is 4,
sharing the data cache of the SM; their races for it are not modelled); the shared
cache is a data cache without a next level; the directory and the paths of events
nobody sends are left out.

Several threads meet in L2 and in the MSHRs, so what is one step matters. Steps of
their own are: sending a read and putting its request into the MSHR, at both levels;
`containsKey()` and the `put()` or `get()` that follows it, wherever another thread
can come in between (a first-level entry is made by the thread of its SP alone, and
thread 0 only removes entries); each write that a handler sends down. Assumed to be
one step are: the look for a line of L2 with the service of a hit; the filling of a
line with the removal and the answers of its entry; the test of `isBusy()` with the
sending of the read; and `get()` with `add()`, where a request that comes too late
for the list is forgotten as one that finds no list is. The lines of L2 can so not
change between their being looked at and used; an SP's write that meets such a change
in the code serves its entry all the same, or sends a read of its own.

`CoalescingMemory` is the abstract specification: a request opens an entry for
its block (two answers), or finds one and may join it (one answer); all requests
of an entry are answered in one step, except that the second copy of the one that
made it may come late, and may then be lost when it is to join an entry that goes
away; an SP that hands over is forgotten. `Caches` implements it
with `owed` mapped to what a request still gets (`Owed`).

### 5.2 Properties

* `RequestsAccounted`: a read of an SP that goes on has been answered, or is
  still owed an answer, exactly as often as `addEvent()` decided.
* `EntriesServed`: a first-level entry has exactly one thing under way that will
  serve it (event, read, place in L2 or the hands of thread 0, response), or is
  known to be stuck.
* `LowerEntriesServed`: a read in the MSHR of L2 has a read in memory. An entry of
  writes has that, or an event of an SP that goes on, unless it was made too late to
  be served (`stranded`): memory had answered before the thread that sent the read
  put its write there, or the SP whose event it is had handed over.
* `Coalesces`: the refinement of `CoalescingMemory`.
* `ReadsAnswered` (liveness): every read is answered, unless an SP hands over, L2
  was full, or L2 forgot the read.
* `PendingEventsAnswered`: the same without the case that L2 was full. Violated.

### 5.3 Runs

`caches` and `caches_put_aside` have a data cache (write back, the core of thread
0) and a constant cache (write through), one line each, L2 with one line and an
MSHR of 2, two blocks, and eight programs of three requests (`MCPrograms`): reads
of a block that meet in both caches, a read that meets a write, and evictions at
both levels. TLC finds 130,373 states; writes stranded in L2, entries replaced by
`Put2` and second copies that are lost are among them. With one line every fill of another block evicts; with an MSHR of 2
the third request finds L2 busy. Requests and hand-overs are bounded by
`MaxRequests` and `Caches`. `CHECK_DEADLOCK FALSE` is set because the program of
requests ends.

Fairness: each SP's loop drains its queue in every cycle until it hands over,
the reads of L2 and the responses in that of thread 0 among them, and the DRAM
answers every read it is sent. The last is an assumption: section 7 shows that the shipped DRAM timing drops reads.

`caches_put_aside` shows that a read that meets a full MSHR of L2 is never
answered, and with it every request that joins its entry later.

### 5.4 Proofs

`Caches_proofs` proves, for every set of caches and blocks, every size and every
program (`CacheAssumption`):

| Theorem | Property |
|---|---|
| `TypeCorrect` | `TypeOK` |
| `RequestsAccountedCorrect` | `RequestsAccounted` |
| `EntriesServedCorrect` | `EntriesServed` |
| `LowerEntriesServedCorrect` | `LowerEntriesServed` |
| `CachesCoalesce` | `Coalesces` |
| `NoReadLeftAtRest` | `NoReadLeft` when `AtRest` |

The invariant has layers. `CacheTypes` has the ranges. `AccountInv` is the account
of a request at any time: nothing before it is issued; an event only for a request
that made an entry; and the sum of answers, copies and the copy under way. It
needs what `adding` may be (`AddingOf`). `ServedInv` adds to `EntriesServed` that
no read of a block is outstanding in L2 while the block is valid there: without it
a hit in L2 could leave a read behind. `LowerInv` adds to `LowerEntriesServed` what is
still in the hands of a thread: when a thread has sent a read for a block and is to put
its request into the MSHR, that read is in memory or the block is `stranded`
(`LateComing`); and a write that will be an event in the queue of an SP that has handed
over is `stranded` too (`QueueComing`). Without the first, `Put2` after an answer
of memory could make an entry that the invariant knows nothing of.

`HeldInv` says that a queued event has a copy in the MSHR beside it, and so has a
second copy that is to join an entry. It is what the refinement needs to map a hit to
an answer of a whole entry. Each step is mapped: `Issue` to `Open` or `Find`, `Merge`
to `Join`, to `Lose` (the second copy finds the entry gone) or a stutter, `HandleHit` and `Respond` to `Serve` (with the late copy,
or a stutter when there is no entry), `Clear` to `Forget`, all others to stutters.

`TypeOK` takes three of the layers: the ranges, the lines (`LineTypes`: `mark()` and
`fill()` keep a sequence of blocks, because only a cache whose lines are all in use
evicts one), and the account, which is why a request never has a third copy.

`NoReadLeftAtRest` is the safety half of `ReadsAnswered`, and puts three invariants
together: when no request is being added, no event is queued, no message is between
the caches and nothing is in memory (`AtRest`), every read of an SP that goes on has an
answer, or its entry went away while it was added, or its block is put aside or
forgotten by L2 (`NoReadLeft`). By `AccountInv` a read without an answer has a copy in
the MSHR, by `ServedInv` something will serve that entry, and at rest this can only be
an entry of L2, which `LowerEntriesServed` excludes. What TLC adds is that the caches
come to rest. On the instance of `caches` there are states at rest with every read
answered, and others with a read that is not.

Only model-checked: `ReadsAnswered`, which is a liveness property.

## 6. Traces and the instruction feed

### 6.1 Modules

`Tracegen` is the tracer: `initialize()` at the start of a kernel, `event()` for
each instruction of the blocks, which Ocelot runs one after the other, and
`finish()`. A new block is known by its number, which leaves out the z coordinate.
The block in `temp.txt` goes to the next file, round over the cores.

`InstructionFeed` extends it. `Stream(c, k)` is what `TraceSimplifier` makes of
the file of core `c` for kernel `k`; `Share` is the number of blocks `run()`
computes for itself. `StartKernel`, `BeginFetch`, `FetchPacket`, `EndFetch`,
`ProcessPacket`, `EndProcess` and `EndBlock` are the statements of the loop of
`run()` with `fetchManyPackets()` and `processPacket()`. The packet queue is a
`CircularQueue`. An instruction is its number of micro-operations; addresses, the
instruction table and the binary coding of the simplifier are left out. The exit
of a block has one micro-operation; the others have as many as `MicroOpCounts`
allows, which is at most 50, the size of `outstandingMicroOps` (`FeedAssumption`):
the handlers of the instruction table add one each. No cycle of the pipeline runs
while a kernel is fed, so the pipeline is not part of it.

`Tracegen.cpp:110` and `:119` read `memory_addresses[i]` for the threads of the
warp by position in the mask; which addresses end up in the trace is not modelled.

### 6.2 Properties

* `TraceMatchesShares`: the file of a core has as many blocks of a kernel as the
  core will look for; every block is whole, in one file, and in no other.
* `FedInOrder`, `KernelFed`: micro-operations go into the pipeline in the order of
  the trace, none twice, and at the end of a kernel every instruction of the stream
  has been fed with all of them, except the last of each block, the exit: the packet
  of an instruction is turned into micro-operations when the next one comes, and
  the end of the block is none.
* `PacketsKept`: the packet queue implements `BoundedQueue`: nothing is overwritten.
* `FeedEnds` (liveness): a core gets through all its kernels and never runs into
  the end of a stream.

### 6.3 Run

`feed`: two cores, two kernels with grids of 1 and of 3 blocks (so that a core has
none, and a share has a remainder), blocks of up to two instructions of one
micro-operation and the exit, a packet queue of 2. The packet queue is smaller
than a block, so a block takes several rounds of fetching. `InputSize` 12 holds a
kernel; what happens when it does not is `pipeline_full`. `MaxLength` and
`NumKernels` are the bounds. Grids have one layer: with two layers of one block
`TraceMatchesShares` fails, since the tracer takes them for one block.
`CHECK_DEADLOCK FALSE` is set because the program ends. Fairness is that the
program that is traced, and then the thread, go on (`WF` of `Next`).

The feed empties the queue before it fetches again, so the indices of the ring
never wrap around in a run.

### 6.4 Proofs

Every safety property of this section is proved in `InstructionFeed_proofs`, for
every number of cores and kernels, every trace, and all sizes of the packet queue
and of `inputToPipeline`. Only `FeedEnds`, a liveness property, stays with TLC.

`PacketsKeptCorrect`: `InstructionFeed` implements `BoundedQueue` with the contents
of the ring as the sequence. `enqueue()` itself protects nothing. What protects the
packets is `QueueInv`: inside `fetchManyPackets()` there are never more turns left
than the queue has space. The lemmas `EnqueueAppends` and `DequeueTakesFirst` are
about the ring alone and cover the wrap around that no run reaches.

`TypeCorrect` and `FedInOrderCorrect` need the same invariant, `FeedInv`, which
says how the reader, the queue and the block's state hang together:

* `TraceTypes`: each file has the starts of all kernels launched, so that `Stream`
  denotes something. The lemmas `PartIs`, `PartShape` and `PartLines` say which
  lines a stream has and how it grows; the CHOOSE in `Stream` is not well defined
  without them.
* `ReadInv`: the queue holds the items of the stream that follow those taken from
  it (`Taken` of them), in order; the end of a block is the last of them, and no
  turns are left after it. The queue is empty before more is fetched.
* `KeptInv`: the packet kept is the last one taken, and micro-operations that were
  put aside do not fit in any more.
* `OrderInv`: what has been fed belongs to items taken, and not to the packet kept.

The queue may stay filled when `inputToPipeline` is full (`processPacket()` breaks
off), so most of `ReadInv` is conditional on `Room`. That case is the one that the
run does not reach, and the proof covers it.

`TraceMatchesSharesCorrect` rests on `DealtInv`: `temp.txt` holds one block, and
the stream of core `c` has all blocks with remainder `c` below that one, each whole
and followed by its end (`Dealt`). The arithmetic is in `ShareCounts`: as many
numbers below `m` have remainder `c` as `initialize()` computes. The theorem assumes
`BlocksDiffer`: no grid has several layers of one block, because the tracer does
not see where such a block ends; for these grids the property is false.

`KernelFedCorrect` rests on `WholeInv`: all items taken are fed but the one that is
kept and the last of each block, and as many ends of blocks have been taken as
blocks have ended. When the last block ends, all ends of the stream have been taken
(there are `TOTALBLOCKS` of them, by `DealtInv`), the last item of the stream is one,
so the whole stream has been read.

`ExitsOnlyWhenFullCorrect` uses the same counting the other way round: while a block
is missing its end is still in the stream, so `fetchManyPackets()` never finds the
stream at its end, unless `inputToPipeline` is full and packets remain in the queue.
It is the safety half of `FeedEnds`.

## 7. The DRAM

### 7.1 Module

`DRAMController` is one channel with its only rank, the DRAM thread, and what
thread 0 does to them. The DRAM thread looks at the global clock, pops a command
from the queues, changes the states of the banks, sends the command and the end
of a precharge or refresh as events to the queue of thread 0's core, and moves the
waiting requests to the command queues. Thread 0 handles these events when they
are due, adds requests, steps the clock, and at a hand-over clears everything.

| Action | Code |
|---|---|
| `StartCycle`, `EndCycle` | `DramRunnableThread.run()` |
| `Pop` | `oneCycleOperation()` up to the bank states, with `CommandQueue.pop()`: `ForRefresh`, `ForRequest`, `ForClosing` |
| `Send` | the rest of it: the events |
| `Take`, `EnqueueActivate`, `EnqueueColumn` | `enqueueToCommandQ()`: `get(0)`, and the two `enqueue()` calls, each in the command queues of that moment |
| `Shift`, `Cut`, `Removed` | `remove(0)`, of what is then the first: move the others up, read the size again and cut off the last place, write the size |
| `Receive`, `StateUpdate`, `RankResponse` | `handleEvent()` of the controller |
| `RankRead`, `RankWrite`, `RankActivate`, `RankPrecharge`, `RankRefresh`, `ColumnReadComplete` | `Rank.handleEvent()` |
| `EndEvents`, `Tick` | the end of `processEvents()` and the next cycle |
| `Clear` | the hand-over of thread 0 with `clear()` of DRAM thread and controller |

Modelled is the shipped configuration: OpenPage, PerRankPerBank, one rank, no
posted CAS, and `MaxNumJavaThreads` 1, so the global clock is that of the core.
One channel: they share only `counter1`. One runner thread also means that all events
of section 5 are handled by thread 0, writes of L2 among them, so only thread 0 adds
requests. The address mapping draws row and bank at random, so requests are
arbitrary. The data packets of writes do nothing and are left out. `clear()` resets
the clock but not `busFreeTime`, which is kept as it is.

What is one step. The DRAM thread may be held up between reading the clock, popping,
sending, and any two of the steps that take a request from the list to the command
queues. In between, thread 0 may add a request or hand over (`Clear`), after which the
DRAM thread goes on with the fresh list and the fresh queues, but with what it has in
hand: a request so survives the hand-over, or gets into the queue without its ACTIVATE
(`torn`). `Pop` (the command queues, the states of the banks and the choice), each
handler, and `Clear` itself are one step: torn updates of a single bank state, and a
hand-over in the middle of `pop()`, are not covered.

The list is an `ArrayList` of JDK 7, whose `remove(0)` reads the size, moves the
elements up, and then reads and writes the size. An `add()` before the move is seen by
it. One after the move is lost: the second reading of the size makes the cut fall on
the new request, and the last one before it stays in its old place too, so it is in the
list twice (`copied`), and is done twice. One between the second reading and the write
of the size is lost alone. When the removed request was the only one, its own old
place is the copy. Left out: an `add()` that is split by the write of the size (its
request is lost, or leaves a null that the loop removes), an `add()` that makes the
array grow during a `remove()` (it keeps a request of the old array, as the copy does),
the branch without room in the command queue (it only skips), and that the events of
the two copies may fall together in a queue which the model keeps as a set.

`answered`, `written`, `dropped`, `lost`, `copied`, `torn` and `late` are history
variables.

### 7.2 Properties

* `RequestsConserved`: no request vanishes, and each is in exactly one place, or done
  once. It is lost only to a race for the list or to a hand-over, and dropped only by
  the rank; only one that the race has put into the list twice (`copied`) may be in
  several places and be done twice.
* `RowKept`: a column command whose ACTIVATE has been issued finds its row open
  until it is issued itself. There are two exceptions, both reached by the run. When
  the DRAM thread was held up between popping and sending for so long that a state
  update was due before it was sent (`late`), the update acts on a later command and
  closes a row in use. And a command that a hand-over has parted from its ACTIVATE
  (`torn`) stands in the queue of a bank whose row is closed; it waits until a later
  request opens that row, and commands to that row behind it wait with it.
* `ReadsTakenOnlyLate`: a READ is served only when its event is handled
  `max(tCCD, tBL / 2) - tCMD` cycles later than it was due.
* `IssuedReadsAllowed`: the rank takes what the controller has issued. Violated.

### 7.3 Runs

Two banks, two rows, two requests of a READ of either row of bank 1 and a WRITE to
bank 0, one hand-over, a clock up to 7. The shipped timings are scaled down and
keep their order: `tCMD < max(tCCD, tBL / 2) <= tRCD`, and `tCMD` below `tRP` and
`tRFC`. `TimingAssumption` states this much of it, and the proofs use no more. The refresh period of
2 is shorter than a row cycle, so that a refresh meets every other command;
`TOTAL_ROW_ACCESSES` and `MaxActivates` of 1 make both limits bind. `MaxRequests`,
`MaxClock` and `MaxClears` bound the run, which has 2,487,747 states. With two requests
only the request that is being removed can be copied; the copy of another one that
waits behind it takes three, and is left to the proof of `RequestsConserved`. `CHECK_DEADLOCK FALSE` is set because the
clock stops at `MaxClock`.

`dram_read_dropped`: controller and rank share the bank states. When it issues a
READ the controller notes that the bank takes no READ for `max(tCCD, tBL / 2)`
cycles; when the READ gets to the rank, `tCMD` later, the rank refuses it for that
very note and drops it, and its error exit is commented out. A READ is answered
only when its event is handled late (`ReadsTakenOnlyLate`).

### 7.4 Proofs

`DRAMController_proofs` proves the four properties of the run `dram` for every
number of banks, rows and requests, every bound and every timing in the order of
`TimingAssumption` (`DRAMAssumption`, `TimingAssumption`, of which the types and
`RequestsConserved` need only the first):

| Theorem | Property |
|---|---|
| `TypeCorrect` | `TypeOK` |
| `RequestsConservedCorrect` | `RequestsConserved` |
| `RowKeptCorrect` | `RowKept` |
| `ReadsTakenOnlyLateCorrect` | `ReadsTakenOnlyLate` |

`TypeInv` adds to the types what they rest on: the countdowns of the four-activate window
are positive, in rising order and no two alike, events carry packets of their kind, and every
packet is of a request that has been received.

`ReadsTakenOnlyLate` (`ReadInv`): the time at which a READ on its way was issued is
known from its event, and from then on no bank is open to a READ before
`max(tCCD, tBL / 2)` cycles have passed (`Bars`). No other command brings that
time forward (`BarsKept`), because `tRCD` is no shorter.

`RowKept` (`RowAll`): a precharge or refresh closes its banks when it is issued, and
they stay closed until it is over. As long as nothing was sent late, its command and
its end are handled before that (`ClosersOk`, and `HandOk` for the one the DRAM thread
is about to send), so they meet no row that has been opened since. A column
command whose ACTIVATE has left the queue has its row open, unused, and no other
command for that row before it (`Heads`). While the DRAM thread is between its two
`enqueue()` calls the ACTIVATE waits at the end of the queue for its column command
(`HalfOk`, `NearlyShape`); only the DRAM thread pops, so nothing issues it before. `StaleInv` covers a hand-over
between reading the clock and sending: the fresh queues are empty, so what was begun for
the old ones finds nothing to pop. Late events and torn commands are excluded by the
property itself; the run shows that they do break it.

`RequestsConserved` (`ConsInv`): every request is somewhere, and in one place unless it
was copied (`Good`), counted over waiting list, command queues, the DRAM thread's hand,
events and the ends; in each of them one that was not copied occurs once (`WaitsOnce`,
`QueuedOnce`, `EventsOnce`). Two places of the list do not count, the one that
`remove()` is to take out and the one it has left over; the request in either of them is
also in a command queue, in hand, further up in the list, or lost (`Ghosts`, `TakenFirst`), so it may be cut off
without being missed. One lemma for each way `pop()` finds a command.

## 8. Not modelled

* The directory, the network on chip and split banks of the NUCA cache: the
  shipped configuration uses none of them.
* `EventQueue` and `Port` as modules of their own: the events of section 5 come in
  any order and those of section 7 by their time, which is all these sections need.
* Decoding tables (one entry per instruction class), configuration parsing,
  statistics and error exits: no control, or pure input and output.
* The left-overs of the CPU simulator, which nothing calls.
* Effects of the Java memory model: an access is atomic and visible at once.
* Boost, Ocelot, hydrazine, the CUDA headers and the libraries are third-party
  code in the tree. They are nearly all of its lines (more than two million), and
  nearly all of its C++; the simulator itself is Java, and the only C++ of its own
  is `Tracegen.cpp`, which is modelled. Any share of the lines of the whole tree
  that the modules stand for is therefore small, whatever they model.
