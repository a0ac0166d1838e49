----------------------------- MODULE SPPipeline -----------------------------
(***************************************************************************)
(* The pipeline of one streaming processor and the loop that feeds and     *)
(* steps it: warp table, operand collector, schedule unit, latch, execute  *)
(* unit and write-back.  One thread runs all of it; `stage' is the call of *)
(* oneCycleOperation() that comes next.  Instruction i of the thread's     *)
(* trace becomes warp i.  Memory answers a request up to twice, in later   *)
(* cycles, or not at all: that is what CoalescingMemory leaves open.       *)
(***************************************************************************)
EXTENDS Arbiter, Sequences

CONSTANTS
  num_dispatch_units,  \* dispatch units
  Instructions,        \* instructions: [type, regs, dst, addresses]
  Latency,             \* Latency[type]: cycles in the latch
  KernelSize,          \* micro-operations of a kernel on this core
  totalNumKernels,     \* kernels
  InputSize,           \* capacity of inputToPipeline
  WarpTableSize        \* capacity of WarpTable

Units == 0 .. num_dispatch_units - 1
Warps == 1 .. KernelSize * totalNumKernels
NoWarp == 0

Types == {"load", "store", "alu", "inValid"}

ASSUME PipelineAssumption ==
  /\ num_dispatch_units \in Nat \ {0}
  /\ Instructions \subseteq [type : Types, regs : Nat, dst : Nat, addresses : Nat]
  /\ Latency \in [Types -> Nat]
  /\ KernelSize \in Nat \ {0} /\ totalNumKernels \in Nat \ {0}
  /\ InputSize \in Nat \ {0} /\ WarpTableSize \in Nat \ {0, 1}

VARIABLES
  trace,          \* the instructions of all kernels, in order
  stage,          \* what the thread does next
  minN,           \* cycles runPipelines() still has to run, 0 outside of it
  kernel,         \* kernels finished
  fed,            \* instructions that have entered inputToPipeline
  input,          \* inputToPipeline
  WarpTable,      \* warps waiting for a collector
  m_cu,           \* collector units
  m_last_cu,      \* last collector of each dispatch unit
  unit,           \* dispatch unit whose turn it is
  m_queue,        \* read requests of each bank: <<collector, operand>>
  written,        \* banks allocated for a write
  pri,            \* first diagonal of the arbiter
  Warp_write,     \* warps waiting for write-back
  complete,       \* completeWarpPipeline
  fetched,        \* fetchedInstruction, or NoWarp
  latch,          \* scheduleExecuteLatch: [warp, completesAt]
  clock,          \* local clock
  pendingLoads,   \* requests of loads less the answers, may be negative
  due,            \* answers the memory may still give
  executed,       \* history: warps in the order they left the latch
  readBy,         \* history: operands collected for each warp
  passed          \* history: turns each collector was ready and not taken

control   == <<stage, minN, kernel>>
feedvars  == <<trace, fed, input>>
collector == <<m_cu, m_last_cu, unit, m_queue, pri, readBy, passed>>
backend   == <<complete, fetched, latch, executed>>
write     == <<Warp_write, written>>
memory    == <<pendingLoads, due>>
vars == <<control, feedvars, WarpTable, collector, backend, memory, write, clock>>

Empty == [warp |-> NoWarp, completesAt |-> 0]

(* A collector that has never held a warp: m_not_ready is null. *)
Unused == [warp |-> NoWarp, free |-> TRUE, notReady |-> {}]

Init ==
  /\ trace \in [Warps -> Instructions]
  /\ stage = "feed" /\ minN = 0 /\ kernel = 0
  /\ fed = 0 /\ input = <<>>
  /\ WarpTable = <<>>
  /\ m_cu = [c \in CollectorIds |-> Unused]
  /\ m_last_cu = [u \in Units |-> 0]
  /\ unit = 0
  /\ m_queue = [b \in Banks |-> <<>>]
  /\ written = {}
  /\ pri = 0
  /\ Warp_write = <<>>
  /\ complete = <<>>
  /\ fetched = NoWarp
  /\ latch = Empty
  /\ clock = 0
  /\ pendingLoads = 0 /\ due = 0
  /\ executed = <<>>
  /\ readBy = [w \in Warps |-> {}]
  /\ passed = [c \in CollectorIds |-> 0]

-----------------------------------------------------------------------------
SpaceLeftOneLess == InputSize - Len(input) - 1  \* Slip: one slot is never used.
SpaceLeft == InputSize - Len(input)

(* Slip: the other of the two sizes runPipelines() reads. *)
CyclesToRunQueued(queue) == Len(queue)

(* runPipelines(): a cycle for each warp in the table. *)
CyclesToRun(queue) == Len(WarpTable)

(* The marker of a block end. *)
Marker(w) == trace[w].type = "inValid"

(* run(): feeding.  The n micro-operations of a packet are enqueued when a *)
(* slot is left beside them; otherwise run() goes round without fetching.  *)
(* The marker of a block end is enqueued in any case, and that ends the    *)
(* program when the queue is full.                                         *)
Feed ==
  /\ stage = "feed"
  /\ fed < KernelSize * (kernel + 1)
  /\ \E n \in 0 .. KernelSize * (kernel + 1) - fed :
       /\ IF n = 0
          THEN Marker(fed + 1) /\ SpaceLeft = 0
          ELSE n < SpaceLeft \/ (n = 1 /\ Marker(fed + 1) /\ SpaceLeft > 0)
       /\ input' = input \o [i \in 1 .. n |-> fed + i]
       /\ fed' = fed + n
       /\ stage' = IF n = 0 THEN "exited"
                   ELSE IF CyclesToRun(input') = 0 THEN "feed" ELSE "fill"
       /\ minN' = CyclesToRun(input')
  /\ UNCHANGED <<trace, kernel, WarpTable, collector, backend, memory, write, clock>>

(* Slip: the queue is cleared before the kernel's cycles, not after. *)
FinishAfterClear ==
  /\ stage = "feed"
  /\ fed = KernelSize * (kernel + 1)
  /\ stage' = "fill"
  /\ input' = <<>>
  /\ UNCHANGED <<minN, kernel, trace, fed, WarpTable, collector, backend, memory,
                 write, clock>>

(* All blocks of the kernel have been read: finishAllPipelines(). *)
Finish ==
  /\ stage = "feed"
  /\ fed = KernelSize * (kernel + 1)
  /\ stage' = "fill"
  /\ UNCHANGED <<minN, kernel, feedvars, WarpTable, collector, backend, memory,
                 write, clock>>

-----------------------------------------------------------------------------
(* oneCycleOperation()                                                     *)

(* Slip: the capacity of the warp table is not looked at. *)
FillWarpTableUnbounded ==
  /\ stage = "fill"
  /\ WarpTable' = WarpTable \o input
  /\ input' = <<>>
  /\ stage' = "writeback"
  /\ UNCHANGED <<minN, kernel, trace, fed, collector, backend, memory, write, clock>>

(* Slip: new warps go to the front. *)
FillWarpTableInFront ==
  /\ stage = "fill"
  /\ LET room == WarpTableSize - Len(WarpTable)
         n    == IF Len(input) < room THEN Len(input) ELSE room
     IN  /\ WarpTable' = SubSeq(input, 1, n) \o WarpTable
         /\ input' = SubSeq(input, n + 1, Len(input))
  /\ stage' = "writeback"
  /\ UNCHANGED <<minN, kernel, trace, fed, collector, backend, memory, write, clock>>

(* WarpTable(): a warp for every instruction there is room for. *)
FillWarpTable ==
  /\ stage = "fill"
  /\ LET room == WarpTableSize - Len(WarpTable)
         n    == IF Len(input) < room THEN Len(input) ELSE room
     IN  /\ WarpTable' = WarpTable \o SubSeq(input, 1, n)
         /\ input' = SubSeq(input, n + 1, Len(input))
  /\ stage' = "writeback"
  /\ UNCHANGED <<minN, kernel, trace, fed, collector, backend, memory, write, clock>>

(* writeback(): the bank of the destination is taken if it is idle; the    *)
(* warp is off its queue in any case.                                      *)
Writeback ==
  /\ stage = "writeback"
  /\ IF Warp_write = <<>>
     THEN UNCHANGED write
     ELSE /\ Warp_write' = Tail(Warp_write)
          /\ written' = written \cup {register_bank(trace[Head(Warp_write)].dst)}
  /\ stage' = "execute"
  /\ UNCHANGED <<minN, kernel, feedvars, WarpTable, collector, backend, memory, clock>>

(* performExecute(), only called while a warp waits for a collector. *)
Execute ==
  /\ stage = "execute"
  /\ IF WarpTable # <<>> /\ latch # Empty /\ latch.completesAt <= clock
     THEN /\ latch' = Empty
          /\ executed' = Append(executed, latch.warp)
     ELSE UNCHANGED <<latch, executed>>
  /\ stage' = "drain"
  /\ UNCHANGED <<minN, kernel, feedvars, WarpTable, collector, complete, fetched,
                 memory, write, clock>>

(* drainEvents(): n answers arrive.  When the count is not above zero an   *)
(* instruction still in the latch is complete.                             *)
DrainEvents ==
  /\ stage = "drain"
  /\ \E n \in 0 .. due :
       /\ due' = due - n
       /\ pendingLoads' = pendingLoads - n
       /\ latch' = IF n > 0 /\ latch # Empty /\ latch.completesAt > clock
                        /\ pendingLoads - n <= 0
                   THEN [latch EXCEPT !.completesAt = clock] ELSE latch
  /\ stage' = IF latch = Empty THEN "dispatch" ELSE "schedule"
  /\ unit' = 0
  /\ UNCHANGED <<minN, kernel, feedvars, WarpTable, m_cu, m_last_cu, m_queue, pri,
                 readBy, passed, complete, fetched, executed, write, clock>>

(* Slip: nobody looks whether all operands are there. *)
ReadyAnyOperand(c) == m_cu[c] = Unused \/ ~m_cu[c].free

(* A collector that never held a warp also counts as ready. *)
Ready(c) == m_cu[c] = Unused \/ (~m_cu[c].free /\ m_cu[c].notReady = {})

(* Slip: the search always starts at the first collector. *)
TurnFromZero(u, n) == n

(* find_ready(): the first ready collector after the unit's last one. *)
Turn(u, n) == (m_last_cu[u] + n + 1) % num_collector_units
FirstReady(u, c) ==
  \E n \in CollectorIds :
    /\ c = Turn(u, n) /\ Ready(c)
    /\ \A i \in CollectorIds : i < n => ~Ready(Turn(u, i))

(* dispatch_ready_cu() for one dispatch unit. *)
DispatchReady ==
  /\ stage = "dispatch"
  /\ unit \in Units
  /\ IF \E c \in CollectorIds : Ready(c)
     THEN \E c \in CollectorIds :
            /\ FirstReady(unit, c)
            /\ m_last_cu' = [m_last_cu EXCEPT ![unit] = c]
            /\ passed' = [d \in CollectorIds |->
                            IF Ready(d) /\ d # c THEN passed[d] + 1 ELSE 0]
            /\ IF m_cu[c] = Unused
               THEN UNCHANGED <<m_cu, complete, Warp_write>>
               ELSE /\ complete' = Append(complete, m_cu[c].warp)
                    /\ Warp_write' = Append(Warp_write, m_cu[c].warp)
                    /\ m_cu' = [m_cu EXCEPT ![c].free = TRUE]
     ELSE UNCHANGED <<m_last_cu, m_cu, complete, Warp_write, passed>>
  /\ unit' = unit + 1
  /\ stage' = IF unit + 1 \in Units THEN "dispatch" ELSE "allocate"
  /\ UNCHANGED <<minN, kernel, feedvars, WarpTable, m_queue, pri, readBy, fetched,
                 latch, executed, memory, written, clock>>

(* The registers a collector asks for are never filled in: in[] is all 0.  *)
OperandRegister == 0

(* Slip: a busy collector is taken. *)
AnyCollector == CollectorIds

FreeCollectors == {c \in CollectorIds : m_cu[c].free}
First(S) == CHOOSE c \in S : \A d \in S : c <= d

(* Operands of a warp, in the order they are requested. *)
OperandsFromOne(w) == 1 .. trace[w].regs - 1  \* Slip: the first is left out.
Operands(w) == 0 .. trace[w].regs - 1
ReadRequests(c, w) == [i \in 1 .. trace[w].regs |-> <<c, i - 1>>]

(* allocate_cu(): the first free collector takes the next warp.  With no   *)
(* warp there is a null pointer, and the thread is gone.                   *)
AllocateCu ==
  /\ stage = "allocate"
  /\ IF FreeCollectors = {}
     THEN stage' = "reads" /\ UNCHANGED <<WarpTable, m_cu, m_queue>>
     ELSE IF WarpTable = <<>>
     THEN stage' = "dead" /\ UNCHANGED <<WarpTable, m_cu, m_queue>>
     ELSE LET c == First(FreeCollectors)
              w == Head(WarpTable)
              b == register_bank(OperandRegister)
          IN  /\ stage' = "reads"
              /\ WarpTable' = Tail(WarpTable)
              /\ m_cu' = [m_cu EXCEPT ![c] =
                            [warp |-> w, free |-> FALSE, notReady |-> Operands(w)]]
              /\ m_queue' = [m_queue EXCEPT ![b] = @ \o ReadRequests(c, w)]
  /\ UNCHANGED <<minN, kernel, feedvars, m_last_cu, unit, pri, readBy, passed, backend,
                 memory, write, clock>>

Requested == {<<b, Head(m_queue[b])[1]>> : b \in {d \in Banks : m_queue[d] # <<>>}}

(* Slip: the banks stay allocated. *)
NoReset == UNCHANGED written

(* process_banks(): all banks are idle again. *)
ResetAllocation == written' = {}

(* allocate_reads() and process_banks(): the granted banks deliver their   *)
(* first operand.                                                          *)
AllocateReads ==
  /\ stage = "reads"
  /\ LET banks == {g[1] : g \in Matching(Requested, written, pri)}
         ops   == {Head(m_queue[b]) : b \in banks}
         Got(c) == {op[2] : op \in {o \in ops : o[1] = c}}
     IN  /\ m_queue' = [b \in Banks |->
                          IF b \in banks THEN Tail(m_queue[b]) ELSE m_queue[b]]
         /\ m_cu' = [c \in CollectorIds |->
                       [m_cu[c] EXCEPT !.notReady = @ \ Got(c)]]
         /\ readBy' = [w \in Warps |->
                         readBy[w] \cup UNION {Got(c) : c \in {d \in CollectorIds : m_cu[d].warp = w}}]
  /\ pri' = NextPriority(pri)
  /\ ResetAllocation
  /\ stage' = "schedule"
  /\ UNCHANGED <<minN, kernel, feedvars, WarpTable, m_last_cu, unit, passed, backend,
                 memory, Warp_write, clock>>

(* performSchedule() and fetchInstruction().  An instruction issues in the *)
(* cycle after it was fetched; its loads go to memory.  The answer of the  *)
(* instruction cache is not waited for: fetchedInstructionStatus is set    *)
(* together with fetchedInstruction.                                       *)
Schedule ==
  /\ stage = "schedule"
  /\ IF complete = <<>> \/ latch # Empty
     THEN UNCHANGED <<complete, fetched, latch, memory>>
     ELSE /\ complete' = Tail(complete)
          /\ fetched' = Head(complete)
          /\ IF fetched = NoWarp
             THEN UNCHANGED <<latch, memory>>
             ELSE LET i == trace[fetched]
                      n == IF i.type = "load" THEN i.addresses ELSE 0
                  IN  /\ latch' = [warp |-> fetched,
                                   completesAt |-> clock + Latency[i.type]]
                      /\ pendingLoads' = pendingLoads + n
                      /\ due' = due + 2 * n
  /\ stage' = "tick"
  /\ UNCHANGED <<minN, kernel, feedvars, WarpTable, collector, executed, write, clock>>

CyclesWhileTwo == Len(WarpTable) > 1                  \* Slip: stops one too early.

(* finishAllPipelines() runs another cycle. *)
CyclesGoOn == WarpTable # <<>>

(* AddToSetAndIncrementClock() and the end of the loop round the cycle:    *)
(* runPipelines() counts, finishAllPipelines() ends the kernel when the    *)
(* warp table is empty, and initialize() clears inputToPipeline.           *)
Tick ==
  /\ stage = "tick"
  /\ clock' = clock + 1
  /\ IF minN > 0
     THEN /\ minN' = minN - 1
          /\ stage' = IF minN = 1 THEN "feed" ELSE "fill"
          /\ UNCHANGED <<kernel, input>>
     ELSE IF CyclesGoOn
     THEN stage' = "fill" /\ UNCHANGED <<minN, kernel, input>>
     ELSE /\ kernel' = kernel + 1
          /\ input' = <<>>
          /\ stage' = IF kernel + 1 < totalNumKernels THEN "feed" ELSE "done"
          /\ UNCHANGED minN
  /\ UNCHANGED <<trace, fed, WarpTable, collector, backend, memory, write>>

Next ==
  \/ Feed \/ Finish
  \/ FillWarpTable \/ Writeback \/ Execute \/ DrainEvents
  \/ DispatchReady \/ AllocateCu \/ AllocateReads
  \/ Schedule \/ Tick

Spec == Init /\ [][Next]_vars

(* The runner thread is scheduled again and again. *)
FairSpec == Spec /\ WF_vars(Next)

-----------------------------------------------------------------------------
(* Properties.                                                             *)

Busy == {c \in CollectorIds : ~m_cu[c].free}

(* Type invariant.                                                         *)
TypeOK ==
  /\ trace \in [Warps -> Instructions]
  /\ stage \in {"feed", "fill", "writeback", "execute", "drain", "dispatch",
               "allocate", "reads", "schedule", "tick", "done", "dead", "exited"}
  /\ minN \in 0 .. WarpTableSize
  /\ kernel \in 0 .. totalNumKernels
  /\ fed \in 0 .. KernelSize * totalNumKernels
  /\ input \in Seq(Warps) /\ Len(input) <= InputSize
  /\ WarpTable \in Seq(Warps) /\ Len(WarpTable) <= WarpTableSize
  /\ m_cu \in [CollectorIds -> [warp : Warps \cup {NoWarp}, free : BOOLEAN,
                               notReady : SUBSET Nat]]
  /\ m_last_cu \in [Units -> CollectorIds]
  /\ unit \in 0 .. num_dispatch_units
  /\ m_queue \in [Banks -> Seq(CollectorIds \X Nat)]
  /\ written \subseteq Banks
  /\ pri \in 0 .. Square - 1
  /\ Warp_write \in Seq(Warps)
  /\ complete \in Seq(Warps)
  /\ fetched \in Warps \cup {NoWarp}
  /\ latch \in [warp : Warps \cup {NoWarp}, completesAt : Nat]
  /\ clock \in Nat
  /\ pendingLoads \in Int /\ due \in Nat
  /\ executed \in Seq(Warps)
  /\ readBy \in [Warps -> SUBSET Nat]
  /\ passed \in [CollectorIds -> Nat]

Occurs(w, s) == Cardinality({i \in DOMAIN s : s[i] = w})
Held(w) == Cardinality({c \in Busy : m_cu[c].warp = w})
One(b) == IF b THEN 1 ELSE 0

(* Between the queues, the collectors, the fetched instruction and the      *)
(* latch no instruction is lost and none appears twice: each one that was   *)
(* fed is in exactly one place.                                             *)
OnePlace ==
  \A w \in Warps :
    Occurs(w, input) + Occurs(w, WarpTable) + Held(w) + Occurs(w, complete)
      + One(fetched = w) + One(latch.warp = w) + Occurs(w, executed)
    = One(w <= fed)

(* The bank queues hold exactly the operands the busy collectors still wait *)
(* for, each of them once, so no collector waits for nothing.               *)
QueuesMatchCollectors ==
  LET Queued(c) == {q \in UNION {{b} \X DOMAIN m_queue[b] : b \in Banks} :
                      m_queue[q[1]][q[2]][1] = c}
      Wanted(c) == {m_queue[q[1]][q[2]][2] : q \in Queued(c)}
  IN  \A c \in CollectorIds :
        /\ Wanted(c) = m_cu[c].notReady
        /\ Cardinality(Queued(c)) = Cardinality(m_cu[c].notReady)
        /\ m_cu[c].free => m_cu[c].notReady = {}

(* What is past the collectors has had all its operands read.               *)
DispatchedWithOperands ==
  \A w \in 1 .. fed :
    Occurs(w, complete) + One(fetched = w) + One(latch.warp = w)
      + Occurs(w, executed) > 0
    => readBy[w] = Operands(w)

(* A collector is never given a warp the warp table does not have: the null *)
(* pointer that would end the thread cannot happen, because the loops round *)
(* the cycle stop as soon as the warp table is empty.                       *)
NeverDead == stage # "dead"

(* No cycle runs while a kernel is being fed: the loop of runPipelines()    *)
(* counts the warps in the table, and the table is only filled by a cycle.  *)
FeedRunsNoCycle == minN = 0

(* What a kernel leaves in the pipeline when finishAllPipelines() returns   *)
(* is no more than the collectors, one fetched instruction and one in the   *)
(* latch can hold.                                                          *)
LeftBehindBound ==
  stage \in {"feed", "done"} /\ input = <<>>
    => fed - Len(executed) <= num_collector_units + 2

(* Instructions leave the pipeline out of order, but an instruction passes  *)
(* no more than the other collectors can hold.                              *)
BoundedOvertaking ==
  \A i \in DOMAIN executed : executed[i] < i + num_collector_units

(* The dispatch units go round fairly: a collector that has its operands is *)
(* passed over by one less than there are collectors in the turns of a unit.*)
ReadyWaitsOneRound ==
  \A c \in CollectorIds : passed[c] < num_collector_units * num_dispatch_units

(* A warp leaves Warp_write only when the bank of its destination is idle,  *)
(* although nobody looks at what writeback() returns: "might cause stall"   *)
(* (OperandCollector.java:96).                                              *)
NoWriteLost ==
  [][Warp_write # <<>> /\ Warp_write' = Tail(Warp_write)
       => register_bank(trace[Head(Warp_write)].dst) \notin written]_vars

(* Every kernel ends.                                                       *)
KernelsFinish == <>(stage = "done")

=============================================================================
