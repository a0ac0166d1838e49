-------------------------- MODULE Collector_proofs --------------------------
(*************************************************************************)
(* Proofs about the operand collectors of SPPipeline, for every trace    *)
(* and all sizes: its types, that the bank queues hold exactly the       *)
(* requests the collectors wait for, and that a warp is dispatched with  *)
(* all its operands read.                                                *)
(*************************************************************************)
EXTENDS SPPipeline_proofs, FunctionTheorems

-----------------------------------------------------------------------------
(* The types of the pipeline.                                              *)

(* Beside the types: a kernel under way is not the last one's successor, a *)
(* busy collector holds a warp, and so does a latch that is not empty.     *)
TypeInv ==
  /\ FeedInv
  /\ TypeOK
  /\ stage \in InCycle \cup {"feed"} => kernel < totalNumKernels
  /\ \A c \in Busy : m_cu[c].warp \in Warps
  /\ latch.warp = NoWarp => latch = Empty

(* What the trace says of a warp.                                          *)
LEMMA Instruction ==
  ASSUME TypeOK, NEW w \in Warps
  PROVE  /\ trace[w].regs \in Nat /\ trace[w].addresses \in Nat /\ trace[w].type \in Types
         /\ Latency[trace[w].type] \in Nat
         /\ register_bank(trace[w].dst) \in Banks
  <1>1. trace[w] \in [type : Types, regs : Nat, dst : Nat, addresses : Nat]
    BY PipelineAssumption DEF TypeOK
  <1>2. num_banks \in Nat \ {0} /\ trace[w].dst \in Nat
    BY <1>1, ArbiterAssumption
  <1>3. trace[w].dst % num_banks \in 0 .. num_banks - 1
    BY <1>2
  <1>4. QED
    BY <1>1, <1>3, PipelineAssumption DEF register_bank, Banks

(* Warps are numbers, and no warp is none.                                 *)
LEMMA WarpNumbers ==
  /\ KernelSize * totalNumKernels \in Nat /\ KernelSize \in Nat \ {0} /\ totalNumKernels \in Nat \ {0}
  /\ Warps \subseteq Nat \ {0} /\ NoWarp \notin Warps
  /\ num_dispatch_units \in Nat \ {0} /\ Units \subseteq Nat
  /\ Square \in Nat \ {0}
  <1>1. KernelSize \in Nat \ {0} /\ totalNumKernels \in Nat \ {0} /\ num_dispatch_units \in Nat \ {0}
    BY PipelineAssumption
  <1>2. KernelSize * totalNumKernels \in Nat
    BY <1>1
  <1>3. Square \in Nat \ {0}
    BY ArbiterAssumption DEF Square
  <1>4. QED
    BY <1>1, <1>2, <1>3 DEF Warps, NoWarp, Units

(* The first state.                                                        *)
LEMMA TypeInit == Init => TypeInv
  <1> SUFFICES ASSUME Init PROVE TypeInv
    OBVIOUS
  <1>1. /\ m_cu \in [CollectorIds -> [warp : Warps \cup {NoWarp}, free : BOOLEAN,
                                     notReady : SUBSET Nat]]
        /\ Busy = {}
    BY DEF Init, Unused, Busy
  <1>2. m_last_cu \in [Units -> CollectorIds] /\ pri \in 0 .. Square - 1
    BY CollectorNumbers, WarpNumbers DEF Init
  <1>3. latch \in [warp : Warps \cup {NoWarp}, completesAt : Nat]
    BY DEF Init, Empty
  <1>4. m_queue \in [Banks -> Seq(CollectorIds \X Nat)]
    BY DEF Init
  <1>5. minN \in 0 .. WarpTableSize /\ kernel \in 0 .. totalNumKernels
        /\ fed \in 0 .. KernelSize * totalNumKernels /\ unit \in 0 .. num_dispatch_units
        /\ Len(input) <= InputSize /\ Len(WarpTable) <= WarpTableSize
        /\ kernel < totalNumKernels
    BY WarpNumbers, PipelineAssumption DEF Init
  <1>6. TypeOK
    BY <1>1, <1>2, <1>3, <1>4, <1>5 DEF Init, TypeOK
  <1>7. QED
    BY <1>1, <1>5, <1>6, FeedInit DEF TypeInv, Init

(* run() stays within the kernel and the queue.                            *)
LEMMA TypeFeed == TypeInv /\ Feed => TypeInv'
  <1> SUFFICES ASSUME TypeInv, Feed PROVE TypeInv'
    OBVIOUS
  <1>1. PICK n \in 0 .. KernelSize * (kernel + 1) - fed :
          /\ IF n = 0
             THEN Marker(fed + 1) /\ SpaceLeft = 0
             ELSE n < SpaceLeft \/ (n = 1 /\ Marker(fed + 1) /\ SpaceLeft > 0)
          /\ input' = input \o [i \in 1 .. n |-> fed + i]
          /\ fed' = fed + n
          /\ stage' \in {"exited", "feed", "fill"}
    BY DEF Feed
  <1>2. /\ stage = "feed" /\ fed \in Nat /\ kernel \in Nat /\ kernel < totalNumKernels
        /\ input \in Seq(Warps) /\ Len(input) <= InputSize /\ InputSize \in Nat
    BY PipelineAssumption, WarpNumbers DEF TypeInv, TypeOK, Feed
  <1>3. n \in Nat /\ fed + n <= KernelSize * totalNumKernels
    <2>1. KernelSize * (kernel + 1) \in Nat /\ n \in Nat
      BY <1>1, <1>2, WarpNumbers
    <2>2. fed + n <= KernelSize * (kernel + 1)
      BY <1>1, <1>2, <2>1
    <2>3. KernelSize * (kernel + 1) <= KernelSize * totalNumKernels
      BY <1>2, WarpNumbers
    <2>4. QED
      BY <1>2, <2>1, <2>2, <2>3, WarpNumbers
  <1> DEFINE new == [i \in 1 .. n |-> fed + i]
  <1>4. new \in Seq(Warps) /\ Len(new) = n
    <2>1. \A i \in 1 .. n : fed + i \in Warps
      BY <1>2, <1>3, WarpNumbers DEF Warps
    <2>2. QED
      BY <1>3, <2>1
  <1>5. input' = input \o new
    BY <1>1
  <1> HIDE DEF new
  <1>6. input' \in Seq(Warps) /\ Len(input') = Len(input) + n
    BY <1>2, <1>4, <1>5, ConcatProperties
  <1>7. Len(input') <= InputSize
    <2>1. Len(input) \in Nat
      BY <1>2
    <2>2. CASE n = 0
      BY <1>2, <1>6, <2>1, <2>2
    <2>3. CASE n # 0
      BY <1>1, <1>2, <1>3, <1>6, <2>1, <2>3 DEF SpaceLeft
    <2>4. QED
      BY <2>2, <2>3
  <1>8. fed' \in 0 .. KernelSize * totalNumKernels
    BY <1>1, <1>2, <1>3
  <1>9. FeedInv'
    BY FeedStep DEF TypeInv
  <1>10. minN' \in 0 .. WarpTableSize
    BY <1>9, PipelineAssumption DEF FeedInv, QueueTypes
  <1>11. UNCHANGED <<trace, kernel, WarpTable, m_cu, m_last_cu, unit, m_queue, pri, readBy, passed,
                     complete, fetched, latch, executed, pendingLoads, due, Warp_write, written,
                     clock, Busy>>
    BY DEF Feed, collector, backend, memory, write, Busy
  <1>12. TypeOK'
    BY <1>1, <1>6, <1>7, <1>8, <1>10, <1>11 DEF TypeInv, TypeOK
  <1>13. QED
    BY <1>2, <1>9, <1>11, <1>12 DEF TypeInv

(* Steps that only turn the counters over.                                 *)
LEMMA TypeFrame ==
  ASSUME TypeInv, FeedInv',
         UNCHANGED <<trace, fed, m_cu, complete, fetched, executed>>,
         input' \in Seq(Warps), Len(input') <= InputSize,
         WarpTable' \in Seq(Warps),
         kernel' \in 0 .. totalNumKernels,
         stage' \in InCycle \cup {"feed"} => kernel' < totalNumKernels,
         m_last_cu' \in [Units -> CollectorIds], unit' \in 0 .. num_dispatch_units,
         m_queue' \in [Banks -> Seq(CollectorIds \X Nat)],
         written' \subseteq Banks, pri' \in 0 .. Square - 1, Warp_write' \in Seq(Warps),
         latch' \in [warp : Warps \cup {NoWarp}, completesAt : Nat],
         latch'.warp = NoWarp => latch' = Empty,
         clock' \in Nat, pendingLoads' \in Int, due' \in Nat,
         readBy' \in [Warps -> SUBSET Nat], passed' \in [CollectorIds -> Nat]
  PROVE  TypeInv'
  <1>1. Busy' = Busy
    BY DEF Busy
  <1>2. minN' \in 0 .. WarpTableSize /\ Len(WarpTable') <= WarpTableSize
        /\ stage' \in {"feed", "fill", "writeback", "execute", "drain", "dispatch",
                       "allocate", "reads", "schedule", "tick", "done", "dead", "exited"}
    BY PipelineAssumption DEF FeedInv, QueueTypes, InCycle, BeforeAllocate
  <1>3. TypeOK'
    BY <1>2 DEF TypeInv, TypeOK
  <1>4. QED
    BY <1>1, <1>3 DEF TypeInv

(* Steps of the queues, the write-back and the clock.                      *)
LEMMA TypeQueues ==
  ASSUME TypeInv, FeedInv', FillWarpTable \/ Finish \/ Tick \/ UNCHANGED vars
  PROVE  TypeInv'
  <1> DEFINE Same == UNCHANGED <<trace, fed, m_cu, m_last_cu, unit, m_queue, pri, readBy, passed,
                                 complete, fetched, latch, executed, pendingLoads, due,
                                 Warp_write, written>>
  <1>1. ASSUME Same,
               input' \in Seq(Warps), Len(input') <= InputSize, WarpTable' \in Seq(Warps),
               kernel' \in 0 .. totalNumKernels,
               stage' \in InCycle \cup {"feed"} => kernel' < totalNumKernels,
               clock' \in Nat
        PROVE  TypeInv'
    BY <1>1, TypeFrame DEF TypeInv, TypeOK
  <1> HIDE DEF Same
  <1>2. /\ input \in Seq(Warps) /\ Len(input) <= InputSize /\ InputSize \in Nat
        /\ WarpTable \in Seq(Warps) /\ Len(WarpTable) <= WarpTableSize /\ WarpTableSize \in Nat
        /\ kernel \in 0 .. totalNumKernels /\ clock \in Nat
    BY PipelineAssumption DEF TypeInv, TypeOK
  <1>3. CASE FillWarpTable
    <2> DEFINE room == WarpTableSize - Len(WarpTable)
               n    == IF Len(input) < room THEN Len(input) ELSE room
    <2>1. n \in 0 .. Len(input) /\ Len(input) \in Nat
      BY <1>2
    <2>2. WarpTable' = WarpTable \o SubSeq(input, 1, n) /\ input' = SubSeq(input, n + 1, Len(input))
      BY <1>3 DEF FillWarpTable
    <2> HIDE DEF n
    <2>3. /\ SubSeq(input, 1, n) \in Seq(Warps)
          /\ SubSeq(input, n + 1, Len(input)) \in Seq(Warps)
          /\ Len(SubSeq(input, n + 1, Len(input))) <= Len(input)
      BY <1>2, <2>1
    <2>4. /\ input' \in Seq(Warps) /\ Len(input') <= InputSize /\ WarpTable' \in Seq(Warps)
      <3> DEFINE new == SubSeq(input, 1, n)
      <3>1. new \in Seq(Warps)
        BY <2>3
      <3> HIDE DEF new
      <3>2. WarpTable \o new \in Seq(Warps)
        BY <1>2, <3>1, ConcatProperties
      <3>3. Len(input') <= InputSize
        BY <1>2, <2>1, <2>2, <2>3
      <3>4. QED
        BY <2>2, <2>3, <3>2, <3>3 DEF new
    <2>5. Same /\ UNCHANGED <<kernel, clock>> /\ stage = "fill"
      BY <1>3 DEF FillWarpTable, Same, collector, backend, memory, write
    <2>6. QED
      BY <1>1, <1>2, <2>4, <2>5 DEF TypeInv, InCycle
  <1>4. CASE Finish
    <2>1. Same /\ UNCHANGED <<kernel, clock, input, WarpTable>> /\ stage = "feed"
      BY <1>4 DEF Finish, Same, feedvars, collector, backend, memory, write
    <2>2. QED
      BY <1>1, <1>2, <2>1 DEF TypeInv
  <1>5. CASE UNCHANGED vars
    <2>1. Same /\ UNCHANGED <<kernel, clock, input, WarpTable, stage>>
      BY <1>5 DEF vars, Same, control, feedvars, collector, backend, memory, write
    <2>2. QED
      BY <1>1, <1>2, <2>1 DEF TypeInv
  <1>6. CASE Tick
    <2>1. Same /\ WarpTable' = WarpTable /\ clock' = clock + 1 /\ stage = "tick"
      BY <1>6 DEF Tick, Same, collector, backend, memory, write
    <2>2. kernel < totalNumKernels /\ minN = 0
      BY <2>1 DEF TypeInv, InCycle, FeedInv, QueueTypes
    <2>3. CASE UNCHANGED <<kernel, input>>
      BY <1>1, <1>2, <2>1, <2>2, <2>3
    <2>4. CASE /\ kernel' = kernel + 1 /\ input' = <<>>
               /\ stage' = IF kernel + 1 < totalNumKernels THEN "feed" ELSE "done"
      <3>1. input' \in Seq(Warps) /\ Len(input') <= InputSize
        BY <1>2, <2>4
      <3>2. kernel' \in 0 .. totalNumKernels
        BY <1>2, <2>2, <2>4, WarpNumbers
      <3>3. stage' \in InCycle \cup {"feed"} => kernel' < totalNumKernels
        BY <2>4 DEF InCycle, BeforeAllocate
      <3>4. QED
        BY <1>1, <1>2, <2>1, <3>1, <3>2, <3>3
    <2>5. QED
      BY <1>6, <2>2, <2>3, <2>4 DEF Tick
  <1>7. QED
    BY <1>3, <1>4, <1>5, <1>6

(* Write-back and the answers of the memory.                               *)
LEMMA TypeAnswers ==
  ASSUME TypeInv, FeedInv', Writeback \/ DrainEvents
  PROVE  TypeInv'
  <1> DEFINE Same == UNCHANGED <<trace, fed, m_cu, m_last_cu, m_queue, pri, readBy, passed,
                                 complete, fetched, executed, clock, kernel, input, WarpTable>>
  <1>1. ASSUME Same, stage \in InCycle,
               unit' \in 0 .. num_dispatch_units,
               written' \subseteq Banks, Warp_write' \in Seq(Warps),
               latch' \in [warp : Warps \cup {NoWarp}, completesAt : Nat],
               latch'.warp = NoWarp => latch' = Empty,
               pendingLoads' \in Int, due' \in Nat
        PROVE  TypeInv'
    BY <1>1, TypeFrame DEF TypeInv, TypeOK
  <1> HIDE DEF Same
  <1>2. /\ unit \in 0 .. num_dispatch_units /\ written \subseteq Banks /\ Warp_write \in Seq(Warps)
        /\ latch \in [warp : Warps \cup {NoWarp}, completesAt : Nat]
        /\ latch.warp = NoWarp => latch = Empty
        /\ pendingLoads \in Int /\ due \in Nat /\ clock \in Nat
    BY DEF TypeInv, TypeOK
  <1>3. CASE Writeback
    <2>1. Same /\ UNCHANGED <<unit, latch, pendingLoads, due>> /\ stage \in InCycle
      BY <1>3 DEF Writeback, Same, feedvars, collector, backend, memory, InCycle, BeforeAllocate
    <2>2. CASE Warp_write = <<>>
      BY <1>1, <1>2, <1>3, <2>1, <2>2 DEF Writeback, write
    <2>3. CASE Warp_write # <<>>
      <3>1. Head(Warp_write) \in Warps /\ Tail(Warp_write) \in Seq(Warps)
        BY <1>2, <2>3
      <3>2. register_bank(trace[Head(Warp_write)].dst) \in Banks
        BY <3>1, Instruction DEF TypeInv
      <3>3. Warp_write' \in Seq(Warps) /\ written' \subseteq Banks
        BY <1>2, <1>3, <2>3, <3>1, <3>2 DEF Writeback
      <3>4. QED
        BY <1>1, <1>2, <2>1, <3>3
    <2>4. QED
      BY <2>2, <2>3
  <1>4. CASE DrainEvents
    <2>1. Same /\ UNCHANGED <<Warp_write, written>> /\ unit' = 0 /\ stage \in InCycle
      BY <1>4 DEF DrainEvents, Same, feedvars, write, InCycle, BeforeAllocate
    <2>2. PICK n \in 0 .. due :
            /\ due' = due - n /\ pendingLoads' = pendingLoads - n
            /\ latch' = latch \/ (latch # Empty /\ latch' = [latch EXCEPT !.completesAt = clock])
      BY <1>4 DEF DrainEvents
    <2>3. due' \in Nat /\ pendingLoads' \in Int
      BY <1>2, <2>2
    <2>4. /\ latch' \in [warp : Warps \cup {NoWarp}, completesAt : Nat]
          /\ latch'.warp = NoWarp => latch' = Empty
      <3>1. ASSUME NEW W, NEW r \in [warp : W, completesAt : Nat], NEW t \in Nat
            PROVE  /\ [r EXCEPT !.completesAt = t] \in [warp : W, completesAt : Nat]
                   /\ [r EXCEPT !.completesAt = t].warp = r.warp
        OBVIOUS
      <3>2. CASE latch' = latch
        BY <1>2, <3>2
      <3>3. CASE latch # Empty /\ latch' = [latch EXCEPT !.completesAt = clock]
        BY <1>2, <3>1, <3>3
      <3>4. QED
        BY <2>2, <3>2, <3>3
    <2>5. unit' \in 0 .. num_dispatch_units
      BY <2>1, WarpNumbers
    <2>6. QED
      BY <1>1, <1>2, <2>1, <2>3, <2>4, <2>5
  <1>5. QED
    BY <1>3, <1>4

(* performExecute() takes a warp from the latch.                           *)
LEMMA TypeExecute ==
  ASSUME TypeInv, FeedInv', Execute
  PROVE  TypeInv'
  <1>1. UNCHANGED <<trace, fed, m_cu, m_last_cu, unit, m_queue, pri, readBy, passed, complete,
                    fetched, clock, minN, kernel, input, WarpTable, pendingLoads, due, Warp_write,
                    written, Busy>>
        /\ stage = "execute" /\ stage' = "drain"
    BY DEF Execute, feedvars, collector, memory, write, Busy
  <1>2. /\ latch \in [warp : Warps \cup {NoWarp}, completesAt : Nat]
        /\ latch.warp = NoWarp => latch = Empty
        /\ executed \in Seq(Warps)
    BY DEF TypeInv, TypeOK
  <1>3. /\ latch' \in [warp : Warps \cup {NoWarp}, completesAt : Nat]
        /\ latch'.warp = NoWarp => latch' = Empty
        /\ executed' \in Seq(Warps)
    <2>1. CASE latch # Empty /\ latch' = Empty /\ executed' = Append(executed, latch.warp)
      <3>1. latch.warp \in Warps
        BY <1>2, <2>1
      <3>2. QED
        BY <1>2, <2>1, <3>1 DEF Empty
    <2>2. CASE UNCHANGED <<latch, executed>>
      BY <1>2, <2>2
    <2>3. QED
      BY <2>1, <2>2 DEF Execute
  <1>4. TypeOK'
    BY <1>1, <1>3 DEF TypeInv, TypeOK
  <1>5. QED
    BY <1>1, <1>3, <1>4 DEF TypeInv, InCycle, BeforeAllocate

(* performSchedule() takes a complete warp and fills the latch.            *)
LEMMA TypeSchedule ==
  ASSUME TypeInv, FeedInv', Schedule
  PROVE  TypeInv'
  <1>1. UNCHANGED <<trace, fed, m_cu, m_last_cu, unit, m_queue, pri, readBy, passed, executed,
                    clock, minN, kernel, input, WarpTable, Warp_write, written, Busy>>
        /\ stage = "schedule" /\ stage' = "tick"
    BY DEF Schedule, feedvars, collector, write, Busy
  <1>2. /\ latch \in [warp : Warps \cup {NoWarp}, completesAt : Nat]
        /\ latch.warp = NoWarp => latch = Empty
        /\ complete \in Seq(Warps) /\ fetched \in Warps \cup {NoWarp}
        /\ pendingLoads \in Int /\ due \in Nat /\ clock \in Nat
    BY DEF TypeInv, TypeOK
  <1>3. /\ latch' \in [warp : Warps \cup {NoWarp}, completesAt : Nat]
        /\ latch'.warp = NoWarp => latch' = Empty
        /\ complete' \in Seq(Warps) /\ fetched' \in Warps \cup {NoWarp}
        /\ pendingLoads' \in Int /\ due' \in Nat
    <2>1. CASE UNCHANGED <<complete, fetched, latch, memory>>
      BY <1>2, <2>1 DEF memory
    <2>2. CASE complete # <<>> /\ latch = Empty
      <3>1. complete' \in Seq(Warps) /\ fetched' \in Warps \cup {NoWarp}
        BY <1>2, <2>2 DEF Schedule
      <3>2. CASE fetched = NoWarp
        BY <1>2, <2>2, <3>1, <3>2 DEF Schedule, memory
      <3>3. CASE fetched # NoWarp
        <4> DEFINE t == trace[fetched].type
                   n == IF t = "load" THEN trace[fetched].addresses ELSE 0
        <4>1. /\ latch' = [warp |-> fetched, completesAt |-> clock + Latency[t]]
              /\ pendingLoads' = pendingLoads + n /\ due' = due + 2 * n
          BY <2>2, <3>3 DEF Schedule
        <4>2. fetched \in Warps /\ Latency[t] \in Nat /\ n \in Nat
          BY <1>2, <3>3, Instruction DEF TypeInv
        <4> HIDE DEF t, n
        <4>3. clock + Latency[t] \in Nat /\ pendingLoads + n \in Int /\ due + 2 * n \in Nat
          BY <1>2, <4>2
        <4>4. QED
          BY <3>1, <3>3, <4>1, <4>2, <4>3
      <3>4. QED
        BY <3>2, <3>3
    <2>3. QED
      BY <2>1, <2>2 DEF Schedule
  <1>4. TypeOK'
    BY <1>1, <1>3 DEF TypeInv, TypeOK
  <1>5. QED
    BY <1>1, <1>3, <1>4 DEF TypeInv, InCycle, BeforeAllocate

(* A collector is a record.                                                *)
CollectorRecord == [warp : Warps \cup {NoWarp}, free : BOOLEAN, notReady : SUBSET Nat]

(* dispatch_ready_cu() sends a warp of a busy collector on.                *)
LEMMA TypeDispatch ==
  ASSUME TypeInv, FeedInv', DispatchReady
  PROVE  TypeInv'
  <1>1. /\ UNCHANGED <<trace, fed, m_queue, pri, readBy, fetched, latch, executed,
                       clock, minN, kernel, input, WarpTable, pendingLoads, due, written>>
        /\ stage = "dispatch" /\ stage' \in {"dispatch", "allocate"}
        /\ unit \in Units /\ unit' = unit + 1
    BY DEF DispatchReady, feedvars, memory
  <1>2. /\ m_cu \in [CollectorIds -> CollectorRecord] /\ m_last_cu \in [Units -> CollectorIds]
        /\ passed \in [CollectorIds -> Nat]
        /\ complete \in Seq(Warps) /\ Warp_write \in Seq(Warps)
        /\ \A c \in Busy : m_cu[c].warp \in Warps
    BY DEF TypeInv, TypeOK, CollectorRecord
  <1>3. unit' \in 0 .. num_dispatch_units
    BY <1>1, WarpNumbers DEF Units
  <1>4. /\ m_cu' \in [CollectorIds -> CollectorRecord]
        /\ complete' \in Seq(Warps) /\ Warp_write' \in Seq(Warps)
        /\ \A c \in Busy' : m_cu'[c].warp \in Warps
    <2>1. CASE UNCHANGED <<m_cu, complete, Warp_write>>
      BY <1>2, <2>1 DEF Busy
    <2>2. ASSUME NEW c \in Busy,
                 m_cu' = [m_cu EXCEPT ![c].free = TRUE],
                 complete' = Append(complete, m_cu[c].warp),
                 Warp_write' = Append(Warp_write, m_cu[c].warp)
          PROVE  /\ m_cu' \in [CollectorIds -> CollectorRecord]
                 /\ complete' \in Seq(Warps) /\ Warp_write' \in Seq(Warps)
                 /\ \A d \in Busy' : m_cu'[d].warp \in Warps
      <3>1. c \in CollectorIds /\ m_cu[c].warp \in Warps
        BY <1>2 DEF Busy
      <3>2. complete' \in Seq(Warps) /\ Warp_write' \in Seq(Warps)
        BY <1>2, <2>2, <3>1
      <3>3. ASSUME NEW r \in CollectorRecord
            PROVE  /\ [r EXCEPT !.free = TRUE] \in CollectorRecord
                   /\ [r EXCEPT !.free = TRUE].warp = r.warp
        BY DEF CollectorRecord
      <3>4. /\ m_cu' \in [CollectorIds -> CollectorRecord]
            /\ \A d \in CollectorIds : m_cu'[d].warp = m_cu[d].warp
            /\ \A d \in CollectorIds : d # c => m_cu'[d] = m_cu[d]
            /\ m_cu'[c] = [m_cu[c] EXCEPT !.free = TRUE]
        BY <1>2, <2>2, <3>1, <3>3
      <3>5. \A d \in Busy' : d \in Busy \/ d = c
        BY <3>4 DEF Busy
      <3>6. QED
        BY <1>2, <3>1, <3>2, <3>4, <3>5 DEF Busy
    <2>3. ASSUME NEW c \in CollectorIds, FirstReady(unit, c), m_cu[c] # Unused
          PROVE  c \in Busy
      BY <2>3 DEF FirstReady, Ready, Busy
    <2>4. QED
      BY <2>1, <2>2, <2>3 DEF DispatchReady
  <1>5. m_last_cu' \in [Units -> CollectorIds] /\ passed' \in [CollectorIds -> Nat]
    <2>1. CASE UNCHANGED <<m_last_cu, passed>>
      BY <1>2, <2>1
    <2>2. ASSUME NEW c \in CollectorIds,
                 m_last_cu' = [m_last_cu EXCEPT ![unit] = c],
                 passed' = [d \in CollectorIds |->
                              IF Ready(d) /\ d # c THEN passed[d] + 1 ELSE 0]
          PROVE  m_last_cu' \in [Units -> CollectorIds] /\ passed' \in [CollectorIds -> Nat]
      <3>1. m_last_cu' \in [Units -> CollectorIds]
        BY <1>2, <2>2
      <3>2. ASSUME NEW d \in CollectorIds
            PROVE  (IF Ready(d) /\ d # c THEN passed[d] + 1 ELSE 0) \in Nat
        <4>1. passed[d] + 1 \in Nat /\ 0 \in Nat
          BY <1>2
        <4>2. QED
          BY <4>1, Zenon
      <3>3. passed' \in [CollectorIds -> Nat]
        BY <2>2, <3>2, Zenon
      <3>4. QED
        BY <3>1, <3>3
    <2>3. QED
      BY <2>1, <2>2 DEF DispatchReady
  <1>6. TypeOK'
    BY <1>1, <1>3, <1>4, <1>5 DEF TypeInv, TypeOK, CollectorRecord
  <1>7. QED
    BY <1>1, <1>4, <1>6 DEF TypeInv, InCycle, BeforeAllocate

(* allocate_cu() gives a collector a warp of the table and its operands.   *)
LEMMA TypeAllocate ==
  ASSUME TypeInv, FeedInv', AllocateCu
  PROVE  TypeInv'
  <1>1. /\ UNCHANGED <<trace, fed, m_last_cu, unit, pri, readBy, passed, complete, fetched, latch,
                       executed, clock, minN, kernel, input, pendingLoads, due, Warp_write, written>>
        /\ stage = "allocate" /\ WarpTable # <<>> /\ stage' = "reads"
    BY DEF AllocateCu, feedvars, backend, memory, write, TypeInv, FeedInv, BeforeAllocate
  <1>2. /\ m_cu \in [CollectorIds -> CollectorRecord]
        /\ m_queue \in [Banks -> Seq(CollectorIds \X Nat)]
        /\ WarpTable \in Seq(Warps) /\ Len(WarpTable) <= WarpTableSize /\ WarpTableSize \in Nat
        /\ \A c \in Busy : m_cu[c].warp \in Warps
    BY PipelineAssumption DEF TypeInv, TypeOK, CollectorRecord
  <1>3. /\ m_cu' \in [CollectorIds -> CollectorRecord]
        /\ m_queue' \in [Banks -> Seq(CollectorIds \X Nat)]
        /\ WarpTable' \in Seq(Warps) /\ Len(WarpTable') <= WarpTableSize
        /\ \A c \in Busy' : m_cu'[c].warp \in Warps
    <2>1. CASE UNCHANGED <<WarpTable, m_cu, m_queue>>
      BY <1>2, <2>1 DEF Busy
    <2>2. CASE FreeCollectors # {}
      <3> DEFINE c == First(FreeCollectors)
                 w == Head(WarpTable)
                 b == register_bank(OperandRegister)
                 r == [warp |-> w, free |-> FALSE, notReady |-> Operands(w)]
      <3>1. c \in FreeCollectors
        BY <2>2, FirstExists DEF FreeCollectors
      <3>2. c \in CollectorIds
        BY <3>1 DEF FreeCollectors
      <3>3. /\ WarpTable' = Tail(WarpTable)
            /\ m_cu' = [m_cu EXCEPT ![c] = r]
            /\ m_queue' = [m_queue EXCEPT ![b] = @ \o ReadRequests(c, w)]
        BY <1>1, <2>2 DEF AllocateCu
      <3>4. w \in Warps /\ WarpTable' \in Seq(Warps) /\ Len(WarpTable') <= WarpTableSize
        <4>1. w \in Warps /\ Tail(WarpTable) \in Seq(Warps)
              /\ Len(Tail(WarpTable)) = Len(WarpTable) - 1 /\ Len(WarpTable) \in Nat
          BY <1>1, <1>2
        <4>2. QED
          BY <1>2, <3>3, <4>1
      <3>5. trace[w].regs \in Nat
        BY <3>4, Instruction DEF TypeInv
      <3> HIDE DEF c, w
      <3>6. r \in CollectorRecord /\ r.warp \in Warps
        BY <3>4, <3>5 DEF CollectorRecord, Operands
      <3>7. ReadRequests(c, w) \in Seq(CollectorIds \X Nat)
        BY <3>2, <3>5 DEF ReadRequests
      <3>8. b \in Banks
        BY ArbiterAssumption DEF register_bank, OperandRegister, Banks
      <3>9. m_queue[b] \o ReadRequests(c, w) \in Seq(CollectorIds \X Nat)
        <4> DEFINE E == CollectorIds \X Nat
                   q == m_queue[b]
                   s == ReadRequests(c, w)
        <4>1. q \in Seq(E) /\ s \in Seq(E)
          BY <1>2, <3>7, <3>8
        <4> HIDE DEF E, q, s
        <4>2. q \o s \in Seq(E)
          BY <4>1, ConcatProperties
        <4>3. QED
          BY <4>2 DEF E, q, s
      <3> HIDE DEF b, r
      <3>10. m_queue' \in [Banks -> Seq(CollectorIds \X Nat)]
        BY <1>2, <3>3, <3>8, <3>9
      <3>11. m_cu' \in [CollectorIds -> CollectorRecord]
        BY <1>2, <3>2, <3>3, <3>6
      <3>12. \A d \in Busy' : m_cu'[d].warp \in Warps
        BY <1>2, <3>2, <3>3, <3>6 DEF Busy
      <3>13. QED
        BY <3>4, <3>10, <3>11, <3>12
    <2>3. QED
      BY <2>1, <2>2 DEF AllocateCu
  <1>4. TypeOK'
    BY <1>1, <1>3 DEF TypeInv, TypeOK, CollectorRecord
  <1>5. QED
    BY <1>1, <1>3, <1>4 DEF TypeInv, InCycle, BeforeAllocate

(* The heads of the queues ask for collectors.                             *)
LEMMA RequestedAre ==
  ASSUME TypeOK
  PROVE  /\ RequestSet(Requested)
         /\ {g[1] : g \in Matching(Requested, written, pri)} \subseteq
              {b \in Banks : m_queue[b] # <<>>}
         /\ \A b \in Banks : m_queue[b] # <<>> =>
              Head(m_queue[b]) \in CollectorIds \X Nat
  <1>1. ASSUME NEW b \in Banks, m_queue[b] # <<>>
        PROVE  Head(m_queue[b]) \in CollectorIds \X Nat
    <2> DEFINE E == CollectorIds \X Nat
               q == m_queue[b]
    <2>1. q \in Seq(E) /\ q # <<>>
      BY <1>1 DEF TypeOK
    <2> HIDE DEF E, q
    <2>2. Head(q) \in E
      BY <2>1
    <2>3. QED
      BY <2>2 DEF E, q
  <1>2. RequestSet(Requested)
    <2> SUFFICES ASSUME NEW b \in Banks, m_queue[b] # <<>>
        PROVE  <<b, Head(m_queue[b])[1]>> \in Banks \X CollectorIds
      BY DEF RequestSet, Requested
    <2>1. QED
      BY <1>1
  <1>3. Matching(Requested, written, pri) \subseteq Requested
    <2>1. pri \in 0 .. Square - 1
      BY DEF TypeOK
    <2>2. QED
      BY <1>2, <2>1, MatchingMaximal
  <1>4. ASSUME NEW g \in Matching(Requested, written, pri)
        PROVE  g[1] \in {b \in Banks : m_queue[b] # <<>>}
    <2>1. g \in Requested
      BY <1>3
    <2>2. PICK b \in {d \in Banks : m_queue[d] # <<>>} : g = <<b, Head(m_queue[b])[1]>>
      BY <2>1 DEF Requested
    <2>3. QED
      BY <2>2
  <1>5. QED
    BY <1>1, <1>2, <1>4

(* allocate_reads() takes operands that wait for a collector.              *)
LEMMA TypeReads ==
  ASSUME TypeInv, FeedInv', AllocateReads
  PROVE  TypeInv'
  <1>1. /\ UNCHANGED <<trace, fed, m_last_cu, unit, passed, complete, fetched, latch, WarpTable,
                       executed, clock, minN, kernel, input, pendingLoads, due, Warp_write>>
        /\ stage = "reads" /\ stage' = "schedule" /\ written' = {}
    BY DEF AllocateReads, ResetAllocation, feedvars, backend, memory
  <1>2. /\ m_cu \in [CollectorIds -> CollectorRecord]
        /\ m_queue \in [Banks -> Seq(CollectorIds \X Nat)]
        /\ readBy \in [Warps -> SUBSET Nat]
        /\ pri \in 0 .. Square - 1
        /\ \A c \in Busy : m_cu[c].warp \in Warps
    BY DEF TypeInv, TypeOK, CollectorRecord
  <1> DEFINE banks  == {g[1] : g \in Matching(Requested, written, pri)}
             ops    == {Head(m_queue[b]) : b \in banks}
             Got(c) == {op[2] : op \in {o \in ops : o[1] = c}}
             Rest(c) == m_cu[c].notReady \ Got(c)
             New(w) == readBy[w] \cup UNION {Got(c) : c \in {d \in CollectorIds : m_cu[d].warp = w}}
  <1>3. banks \subseteq {b \in Banks : m_queue[b] # <<>>} /\ ops \subseteq CollectorIds \X Nat
    BY RequestedAre DEF TypeInv
  <1>4. \A c : Got(c) \subseteq Nat
    BY <1>3
  <1>5. /\ m_queue' = [b \in Banks |-> IF b \in banks THEN Tail(m_queue[b]) ELSE m_queue[b]]
        /\ m_cu' = [c \in CollectorIds |-> [m_cu[c] EXCEPT !.notReady = Rest(c)]]
        /\ readBy' = [w \in Warps |-> New(w)]
        /\ pri' = NextPriority(pri)
    BY DEF AllocateReads
  <1> HIDE DEF ops, Got
  <1>6. readBy' \in [Warps -> SUBSET Nat]
    <2>1. \A w \in Warps : New(w) \subseteq Nat
      BY <1>2, <1>4
    <2> HIDE DEF New
    <2>2. QED
      BY <1>5, <2>1
  <1> HIDE DEF banks, Rest, New
  <1>7. m_queue' \in [Banks -> Seq(CollectorIds \X Nat)]
    <2> SUFFICES ASSUME NEW b \in banks PROVE Tail(m_queue[b]) \in Seq(CollectorIds \X Nat)
      BY <1>2, <1>5
    <2> DEFINE E == CollectorIds \X Nat
               q == m_queue[b]
    <2>1. q \in Seq(E) /\ q # <<>>
      BY <1>2, <1>3
    <2> HIDE DEF E, q
    <2>2. Tail(q) \in Seq(E)
      BY <2>1
    <2>3. QED
      BY <2>2 DEF E, q
  <1>8. /\ m_cu' \in [CollectorIds -> CollectorRecord]
        /\ \A c \in CollectorIds : m_cu'[c].warp = m_cu[c].warp /\ m_cu'[c].free = m_cu[c].free
    <2>1. ASSUME NEW r \in CollectorRecord, NEW n \in SUBSET Nat
          PROVE  /\ [r EXCEPT !.notReady = n] \in CollectorRecord
                 /\ [r EXCEPT !.notReady = n].warp = r.warp
                 /\ [r EXCEPT !.notReady = n].free = r.free
      BY DEF CollectorRecord
    <2>2. \A c \in CollectorIds : Rest(c) \in SUBSET Nat
      BY <1>2 DEF Rest, CollectorRecord
    <2>3. QED
      BY <1>2, <1>5, <2>1, <2>2
  <1>9. \A c \in Busy' : m_cu'[c].warp \in Warps
    BY <1>2, <1>8 DEF Busy
  <1>10. pri' \in 0 .. Square - 1
    BY <1>2, <1>5, NextPriorityType
  <1>11. TypeOK'
    BY <1>1, <1>6, <1>7, <1>8, <1>10 DEF TypeInv, TypeOK, CollectorRecord
  <1>12. QED
    BY <1>1, <1>9, <1>11 DEF TypeInv, InCycle, BeforeAllocate

(* Every step keeps the types.                                             *)
LEMMA TypeInductive == TypeInv /\ [Next]_vars => TypeInv'
  <1> SUFFICES ASSUME TypeInv, [Next]_vars PROVE TypeInv'
    OBVIOUS
  <1>1. FeedInv'
    BY FeedInductive DEF TypeInv
  <1>2. QED
    BY <1>1, TypeFeed, TypeQueues, TypeAnswers, TypeExecute, TypeSchedule, TypeDispatch,
       TypeAllocate, TypeReads DEF Next

(* The pipeline's variables have their types: no queue outgrows its        *)
(* capacity and no number leaves its range.                                *)
THEOREM TypeCorrect == Spec => []TypeOK
  <1>1. TypeInv => TypeOK
    BY DEF TypeInv
  <1>2. QED
    BY <1>1, TypeInit, TypeInductive, PTL DEF Spec

-----------------------------------------------------------------------------
(* The requests in the bank queues.                                        *)

Slots == UNION {{b} \X DOMAIN m_queue[b] : b \in Banks}
At(q) == m_queue[q[1]][q[2]]

(* Each request is for an operand its collector still waits for, no two    *)
(* requests are equal, and every operand waited for is requested.  A free  *)
(* collector waits for none.                                               *)
OperandInv ==
  /\ \A q \in Slots : At(q)[2] \in m_cu[At(q)[1]].notReady
  /\ \A q, r \in Slots : At(q) = At(r) => q = r
  /\ \A c \in CollectorIds : \A op \in m_cu[c].notReady :
       \E q \in Slots : At(q) = <<c, op>>
  /\ \A c \in CollectorIds : /\ IsFiniteSet(m_cu[c].notReady)
                             /\ m_cu[c].free => m_cu[c].notReady = {}

(* A slot is a place in a bank's queue.                                    *)
SlotFacts ==
  /\ \A b \in Banks : /\ m_queue[b] \in Seq(CollectorIds \X Nat)
                      /\ Len(m_queue[b]) \in Nat
                      /\ DOMAIN m_queue[b] = 1 .. Len(m_queue[b])
  /\ \A q : q \in Slots <=> /\ q = <<q[1], q[2]>> /\ q[1] \in Banks
                            /\ q[2] \in 1 .. Len(m_queue[q[1]])
  /\ \A b \in Banks : \A i \in 1 .. Len(m_queue[b]) :
       <<b, i>> \in Slots /\ At(<<b, i>>) = m_queue[b][i]
  /\ \A q \in Slots : At(q) \in CollectorIds \X Nat

QueueTyped == m_queue \in [Banks -> Seq(CollectorIds \X Nat)]

(* That follows from the type of the queues.                               *)
LEMMA SlotIs == m_queue \in [Banks -> Seq(CollectorIds \X Nat)] => SlotFacts
  <1> SUFFICES ASSUME m_queue \in [Banks -> Seq(CollectorIds \X Nat)] PROVE SlotFacts
    OBVIOUS
  <1> DEFINE E == CollectorIds \X Nat
  <1> HIDE DEF E
  <1>1. ASSUME NEW b \in Banks
        PROVE  /\ m_queue[b] \in Seq(E) /\ Len(m_queue[b]) \in Nat
               /\ DOMAIN m_queue[b] = 1 .. Len(m_queue[b])
               /\ \A i \in 1 .. Len(m_queue[b]) : m_queue[b][i] \in E
    <2>1. m_queue[b] \in Seq(E)
      BY DEF E
    <2>2. QED
      BY <2>1
  <1>2. \A q : q \in Slots <=> /\ q = <<q[1], q[2]>> /\ q[1] \in Banks
                               /\ q[2] \in 1 .. Len(m_queue[q[1]])
    <2>1. ASSUME NEW q, q \in Slots
          PROVE  q = <<q[1], q[2]>> /\ q[1] \in Banks /\ q[2] \in 1 .. Len(m_queue[q[1]])
      <3>1. PICK b \in Banks : q \in {b} \X DOMAIN m_queue[b]
        BY <2>1 DEF Slots
      <3>2. q[1] = b /\ q[2] \in DOMAIN m_queue[b] /\ q = <<q[1], q[2]>>
        BY <3>1
      <3>3. QED
        BY <1>1, <3>1, <3>2
    <2>2. ASSUME NEW q, q = <<q[1], q[2]>>, q[1] \in Banks, q[2] \in 1 .. Len(m_queue[q[1]])
          PROVE  q \in Slots
      <3>1. q[2] \in DOMAIN m_queue[q[1]]
        BY <1>1, <2>2
      <3>2. q \in {q[1]} \X DOMAIN m_queue[q[1]]
        BY <2>2, <3>1
      <3>3. QED
        BY <2>2, <3>2 DEF Slots
    <2>3. QED
      BY <2>1, <2>2
  <1>3. \A b \in Banks : \A i \in 1 .. Len(m_queue[b]) :
          <<b, i>> \in Slots /\ At(<<b, i>>) = m_queue[b][i]
    BY <1>1 DEF Slots, At
  <1>4. \A q \in Slots : At(q) \in E
    BY <1>1, <1>2 DEF At
  <1>5. QED
    BY <1>1, <1>2, <1>3, <1>4 DEF E, SlotFacts

(* After a step as well.                                                   *)
LEMMA SlotsNext == m_queue' \in [Banks -> Seq(CollectorIds \X Nat)] => SlotFacts'
  <1>1. QueueTyped => SlotFacts
    BY SlotIs DEF QueueTyped
  <1>2. QueueTyped' => SlotFacts'
    BY <1>1, PTL
  <1>3. QED
    BY <1>2 DEF QueueTyped

(* Nothing is requested at first.                                          *)
LEMMA OperandInit == Init => OperandInv
  <1> SUFFICES ASSUME Init PROVE OperandInv
    OBVIOUS
  <1>1. Slots = {}
    BY DEF Init, Slots
  <1>2. \A c \in CollectorIds : m_cu[c].notReady = {}
    BY DEF Init, Unused
  <1>3. IsFiniteSet({})
    BY FS_EmptySet
  <1>4. QED
    BY <1>1, <1>2, <1>3 DEF OperandInv

(* Steps that leave the queues and what the collectors wait for.           *)
LEMMA OperandFrame ==
  ASSUME OperandInv, m_queue' = m_queue,
         \A c \in CollectorIds :
           /\ m_cu'[c].notReady = m_cu[c].notReady
           /\ m_cu'[c].free => m_cu[c].free \/ m_cu[c].notReady = {},
         TypeOK
  PROVE  OperandInv'
  <1>1. Slots' = Slots /\ \A q : At(q)' = At(q)
    BY DEF Slots, At
  <1>2. \A q \in Slots : At(q)[1] \in CollectorIds
    BY SlotIs DEF TypeOK, SlotFacts
  <1>3. QED
    BY <1>1, <1>2 DEF OperandInv

(* dispatch_ready_cu() frees a collector that waits for nothing.           *)
LEMMA OperandDispatch == TypeInv /\ OperandInv /\ DispatchReady => OperandInv'
  <1> SUFFICES ASSUME TypeInv, OperandInv, DispatchReady PROVE OperandInv'
    OBVIOUS
  <1>1. m_queue' = m_queue /\ TypeOK /\ m_cu \in [CollectorIds -> CollectorRecord]
    BY DEF DispatchReady, TypeInv, TypeOK, CollectorRecord
  <1>2. CASE m_cu' = m_cu
    BY <1>1, <1>2, OperandFrame
  <1>3. ASSUME NEW c \in CollectorIds, m_cu[c].notReady = {},
               m_cu' = [m_cu EXCEPT ![c].free = TRUE]
        PROVE  OperandInv'
    <2>1. ASSUME NEW r \in CollectorRecord
          PROVE  [r EXCEPT !.free = TRUE].notReady = r.notReady
      BY DEF CollectorRecord
    <2>2. ASSUME NEW d \in CollectorIds
          PROVE  /\ m_cu'[d].notReady = m_cu[d].notReady
                 /\ m_cu'[d].free => m_cu[d].free \/ m_cu[d].notReady = {}
      <3>1. CASE d = c
        <4>1. m_cu'[c] = [m_cu[c] EXCEPT !.free = TRUE]
          BY <1>1, <1>3
        <4>2. m_cu'[c].notReady = m_cu[c].notReady
          BY <1>1, <2>1, <4>1
        <4>3. QED
          BY <1>3, <3>1, <4>2
      <3>2. CASE d # c
        BY <1>1, <1>3, <3>2
      <3>3. QED
        BY <3>1, <3>2
    <2>3. QED
      BY <1>1, <2>2, OperandFrame
  <1>4. ASSUME NEW c \in CollectorIds, FirstReady(unit, c), m_cu[c] # Unused
        PROVE  m_cu[c].notReady = {}
    BY <1>4 DEF FirstReady, Ready
  <1>5. QED
    BY <1>2, <1>3, <1>4 DEF DispatchReady

(* allocate_cu() requests each operand of the warp once.                   *)
LEMMA OperandAllocate == TypeInv /\ OperandInv /\ AllocateCu => OperandInv'
  <1> SUFFICES ASSUME TypeInv, OperandInv, AllocateCu PROVE OperandInv'
    OBVIOUS
  <1>1. /\ TypeOK /\ WarpTable \in Seq(Warps) /\ WarpTable # <<>>
        /\ m_cu \in [CollectorIds -> CollectorRecord]
        /\ m_queue \in [Banks -> Seq(CollectorIds \X Nat)]
    BY DEF AllocateCu, TypeInv, TypeOK, CollectorRecord, FeedInv, BeforeAllocate
  <1>2. m_queue' \in [Banks -> Seq(CollectorIds \X Nat)]
    BY TypeAllocate, FeedInductive DEF TypeInv, TypeOK, Next
  <1>3. CASE UNCHANGED <<m_cu, m_queue>>
    BY <1>1, <1>3, OperandFrame
  <1>4. CASE FreeCollectors # {}
    <2> DEFINE c == First(FreeCollectors)
               w == Head(WarpTable)
               b == register_bank(OperandRegister)
               s == ReadRequests(c, w)
               n == trace[w].regs
    <2>1. c \in CollectorIds /\ m_cu[c].free
      BY <1>4, FirstExists DEF FreeCollectors
    <2>2. /\ m_cu' = [m_cu EXCEPT ![c] =
                        [warp |-> w, free |-> FALSE, notReady |-> Operands(w)]]
          /\ m_queue' = [m_queue EXCEPT ![b] = @ \o s]
      BY <1>1, <1>4 DEF AllocateCu
    <2>3. w \in Warps /\ n \in Nat
      <3>1. w \in Warps
        BY <1>1
      <3>2. QED
        BY <1>1, <3>1, Instruction
    <2>4. b \in Banks
      BY ArbiterAssumption DEF register_bank, OperandRegister, Banks
    <2>5. s = [j \in 1 .. n |-> <<c, j - 1>>]
      BY DEF ReadRequests
    <2>6. /\ m_cu'[c].notReady = 0 .. n - 1 /\ ~m_cu'[c].free
          /\ \A d \in CollectorIds : d # c => m_cu'[d] = m_cu[d]
      BY <1>1, <2>1, <2>2 DEF Operands
    <2> HIDE DEF c, w, s, n, b
    <2>7. /\ s \in Seq(CollectorIds \X Nat) /\ Len(s) = n
           /\ \A j \in 1 .. n : s[j] = <<c, j - 1>>
      <3>1. \A j \in 1 .. n : <<c, j - 1>> \in CollectorIds \X Nat
        BY <2>1, <2>3
      <3>2. QED
        BY <2>3, <2>5, <3>1
    <2>8. /\ m_queue'[b] = m_queue[b] \o s /\ Len(m_queue[b]) \in Nat
          /\ \A d \in Banks : d # b => m_queue'[d] = m_queue[d]
      BY <1>1, <2>2, <2>4, SlotIs DEF SlotFacts
    <2>9. PICK K \in Nat : K = Len(m_queue[b])
      BY <2>8
    <2>10. /\ Len(m_queue'[b]) = K + n
          /\ \A i \in 1 .. K + n : m_queue'[b][i] = IF i <= K THEN m_queue[b][i] ELSE s[i - K]
      <3> DEFINE E == CollectorIds \X Nat
                 q == m_queue[b]
      <3>1. q \in Seq(E) /\ s \in Seq(E)
        BY <1>1, <2>4, <2>7
      <3> HIDE DEF E
      <3>2. /\ Len(q \o s) = Len(q) + Len(s)
            /\ \A i \in 1 .. Len(q) + Len(s) :
                 (q \o s)[i] = IF i <= Len(q) THEN q[i] ELSE s[i - Len(q)]
        BY <3>1, ConcatProperties
      <3>3. QED
        BY <2>7, <2>8, <2>9, <3>2
    <2>11. ASSUME NEW q \in Slots'
          PROVE  \/ q \in Slots /\ At(q)' = At(q)
                 \/ \E j \in 1 .. n : q = <<b, K + j>> /\ At(q)' = <<c, j - 1>>
      <3>1. q = <<q[1], q[2]>> /\ q[1] \in Banks /\ q[2] \in 1 .. Len(m_queue'[q[1]])
        BY <1>2, SlotIs, SlotsNext DEF SlotFacts
      <3>2. CASE q[1] # b
        <4>1. m_queue'[q[1]] = m_queue[q[1]]
          BY <2>8, <2>9, <3>1, <3>2
        <4>2. QED
          BY <1>1, <3>1, <4>1, SlotIs DEF At, SlotFacts
      <3>3. CASE q[1] = b /\ q[2] <= K
        <4>1. q[2] \in 1 .. K /\ m_queue'[b][q[2]] = m_queue[b][q[2]]
          BY <2>3, <2>8, <2>9, <2>10, <3>1, <3>3
        <4>2. QED
          BY <1>1, <2>9, <3>1, <3>3, <4>1, SlotIs DEF At, SlotFacts
      <3>4. CASE q[1] = b /\ ~(q[2] <= K)
        <4>1. q[2] \in 1 .. K + n /\ q[2] - K \in 1 .. n /\ q[2] = K + (q[2] - K)
          BY <2>3, <2>8, <2>9, <2>10, <3>1, <3>4, SMTT(30)
        <4>2. m_queue'[b][q[2]] = <<c, (q[2] - K) - 1>>
          BY <2>7, <2>10, <3>4, <4>1
        <4>3. QED
          BY <3>1, <3>4, <4>1, <4>2 DEF At
      <3>5. QED
        BY <3>2, <3>3, <3>4
    <2>12. ASSUME NEW q \in Slots PROVE q \in Slots' /\ At(q)' = At(q)
      <3>1. q = <<q[1], q[2]>> /\ q[1] \in Banks /\ q[2] \in 1 .. Len(m_queue[q[1]])
        BY <1>1, SlotIs DEF SlotFacts
      <3>2. CASE q[1] # b
        <4>1. m_queue'[q[1]] = m_queue[q[1]]
          BY <2>8, <2>9, <3>1, <3>2
        <4>2. QED
          BY <1>2, <3>1, <4>1, SlotsNext DEF At, SlotFacts
      <3>3. CASE q[1] = b
        <4>1. q[2] \in 1 .. K + n /\ q[2] <= K
          BY <2>3, <2>8, <2>9, <3>1, <3>3
        <4>2. m_queue'[b][q[2]] = m_queue[b][q[2]]
          BY <2>10, <4>1
        <4>3. QED
          BY <1>2, <2>10, <3>1, <3>3, <4>1, <4>2, SlotsNext DEF At, SlotFacts
      <3>4. QED
        BY <3>2, <3>3
    <2>13. ASSUME NEW j \in 1 .. n
           PROVE  <<b, K + j>> \in Slots' /\ At(<<b, K + j>>)' = <<c, j - 1>>
      <3>1. K + j \in 1 .. K + n /\ ~(K + j <= K) /\ (K + j) - K = j
        BY <2>3, <2>9
      <3>2. m_queue'[b][K + j] = <<c, j - 1>>
        BY <2>7, <2>10, <3>1
      <3>3. K + j \in 1 .. Len(m_queue'[b])
        BY <2>10, <3>1
      <3>4. SlotFacts'
        BY <1>2, SlotsNext
      <3>5. <<b, K + j>> \in Slots' /\ At(<<b, K + j>>)' = m_queue'[b][K + j]
        BY <2>4, <3>3, <3>4 DEF SlotFacts
      <3>6. QED
        BY <3>2, <3>5
    <2>14. \A q \in Slots : At(q)[1] \in CollectorIds /\ At(q)[1] # c
      BY <1>1, <2>1, SlotIs DEF OperandInv, SlotFacts
    <2>15. ASSUME NEW q \in Slots' PROVE At(q)'[2] \in m_cu'[At(q)'[1]].notReady
      <3>1. CASE q \in Slots /\ At(q)' = At(q)
        BY <2>6, <2>14, <3>1 DEF OperandInv
      <3>2. ASSUME NEW j \in 1 .. n, At(q)' = <<c, j - 1>>
            PROVE  At(q)'[2] \in m_cu'[At(q)'[1]].notReady
        <4>1. j - 1 \in 0 .. n - 1
          BY <2>3
        <4>2. At(q)'[1] = c /\ At(q)'[2] = j - 1
          BY <3>2
        <4>3. QED
          BY <2>6, <4>1, <4>2
      <3>3. QED
        BY <2>11, <3>1, <3>2
    <2>16. ASSUME NEW q \in Slots', NEW r \in Slots', At(q)' = At(r)' PROVE q = r
      <3>1. CASE q \in Slots /\ At(q)' = At(q)
        <4>1. ~ \E j \in 1 .. n : At(r)' = <<c, j - 1>>
          BY <2>14, <2>16, <3>1
        <4>2. r \in Slots /\ At(r)' = At(r)
          BY <2>11, <4>1
        <4>3. QED
          BY <2>16, <3>1, <4>2 DEF OperandInv
      <3>2. ASSUME NEW j \in 1 .. n, q = <<b, K + j>>, At(q)' = <<c, j - 1>>
            PROVE  q = r
        <4>1. ~(r \in Slots /\ At(r)' = At(r))
          BY <2>14, <2>16, <3>2
        <4>2. PICK i \in 1 .. n : r = <<b, K + i>> /\ At(r)' = <<c, i - 1>>
          BY <2>11, <4>1
        <4>3. i = j
          BY <2>3, <2>16, <3>2, <4>2
        <4>4. QED
          BY <3>2, <4>2, <4>3
      <3>3. QED
        BY <2>11, <3>1, <3>2
    <2>17. ASSUME NEW d \in CollectorIds, NEW op \in m_cu'[d].notReady
           PROVE  \E q \in Slots' : At(q)' = <<d, op>>
      <3>1. CASE d = c
        <4>1. op + 1 \in 1 .. n /\ (op + 1) - 1 = op
          BY <2>3, <2>6, <2>17, <3>1
        <4>2. \E q \in Slots' : At(q)' = <<c, (op + 1) - 1>>
          BY <2>13, <4>1
        <4>3. QED
          BY <3>1, <4>1, <4>2
      <3>2. CASE d # c
        <4>1. PICK q \in Slots : At(q) = <<d, op>>
          BY <2>6, <2>17, <3>2 DEF OperandInv
        <4>2. QED
          BY <2>12, <4>1
      <3>3. QED
        BY <3>1, <3>2
    <2>18. ASSUME NEW d \in CollectorIds
           PROVE  /\ IsFiniteSet(m_cu'[d].notReady)
                  /\ m_cu'[d].free => m_cu'[d].notReady = {}
      <3>1. IsFiniteSet(0 .. n - 1)
        BY <2>3, FS_Interval
      <3>2. QED
        BY <2>6, <3>1 DEF OperandInv
    <2>19. QED
      BY <2>15, <2>16, <2>17, <2>18 DEF OperandInv
  <1>5. QED
    BY <1>3, <1>4 DEF AllocateCu

(* allocate_reads() takes granted requests off the queues and the operands *)
(* off those the collectors wait for.                                      *)
Granted == {g[1] : g \in Matching(Requested, written, pri)}
Delivered(c) == {op[2] : op \in {o \in {Head(m_queue[b]) : b \in Granted} : o[1] = c}}

(* What that does to the queues and the collectors.                        *)
LEMMA ReadsDeliver ==
  ASSUME TypeInv, AllocateReads
  PROVE  /\ Granted \subseteq Banks
         /\ \A b \in Granted : <<b, 1>> \in Slots /\ At(<<b, 1>>) = Head(m_queue[b])
         /\ \A b \in Banks :
              m_queue'[b] = IF b \in Granted THEN Tail(m_queue[b]) ELSE m_queue[b]
         /\ \A c \in CollectorIds : /\ m_cu'[c].notReady = m_cu[c].notReady \ Delivered(c)
                                    /\ m_cu'[c].free = m_cu[c].free
                                    /\ m_cu'[c].warp = m_cu[c].warp
         /\ \A c : \A op : op \in Delivered(c) => \E b \in Granted : At(<<b, 1>>) = <<c, op>>
         /\ \A b \in Granted : At(<<b, 1>>)[2] \in Delivered(At(<<b, 1>>)[1])
  <1>1. /\ TypeOK /\ m_cu \in [CollectorIds -> CollectorRecord]
        /\ m_queue \in [Banks -> Seq(CollectorIds \X Nat)]
    BY DEF TypeInv, TypeOK, CollectorRecord
  <1>2. /\ Granted \subseteq Banks
        /\ \A b \in Granted : m_queue[b] # <<>> /\ Head(m_queue[b]) \in CollectorIds \X Nat
    BY <1>1, RequestedAre DEF Granted
  <1>3. ASSUME NEW b \in Granted PROVE <<b, 1>> \in Slots /\ At(<<b, 1>>) = Head(m_queue[b])
    <2> DEFINE q == m_queue[b]
    <2>1. q \in Seq(CollectorIds \X Nat) /\ q # <<>>
      BY <1>1, <1>2
    <2> HIDE DEF q
    <2>2. 1 \in 1 .. Len(q) /\ q[1] = Head(q)
      BY <2>1
    <2>3. QED
      BY <1>1, <1>2, <2>2, SlotIs DEF q, SlotFacts
  <1>4. /\ m_queue' = [b \in Banks |-> IF b \in Granted THEN Tail(m_queue[b]) ELSE m_queue[b]]
        /\ m_cu' = [c \in CollectorIds |->
                      [m_cu[c] EXCEPT !.notReady = m_cu[c].notReady \ Delivered(c)]]
    BY DEF AllocateReads, Granted, Delivered
  <1>5. ASSUME NEW c \in CollectorIds
        PROVE  /\ m_cu'[c].notReady = m_cu[c].notReady \ Delivered(c)
               /\ m_cu'[c].free = m_cu[c].free /\ m_cu'[c].warp = m_cu[c].warp
    <2>1. ASSUME NEW r \in CollectorRecord, NEW n
          PROVE  /\ [r EXCEPT !.notReady = n].notReady = n
                 /\ [r EXCEPT !.notReady = n].free = r.free
                 /\ [r EXCEPT !.notReady = n].warp = r.warp
      BY DEF CollectorRecord
    <2>2. m_cu'[c] = [m_cu[c] EXCEPT !.notReady = m_cu[c].notReady \ Delivered(c)]
      BY <1>4
    <2>3. QED
      BY <1>1, <2>1, <2>2
  <1>6. ASSUME NEW c, NEW op \in Delivered(c) PROVE \E b \in Granted : At(<<b, 1>>) = <<c, op>>
    <2>1. PICK b \in Granted : Head(m_queue[b])[1] = c /\ Head(m_queue[b])[2] = op
      BY DEF Delivered
    <2>2. Head(m_queue[b]) = <<c, op>>
      BY <1>2, <2>1
    <2>3. QED
      BY <1>3, <2>2
  <1>7. \A b \in Granted : At(<<b, 1>>)[2] \in Delivered(At(<<b, 1>>)[1])
    BY <1>3 DEF Delivered
  <1>8. QED
    BY <1>2, <1>3, <1>4, <1>5, <1>6, <1>7

(* An operand leaves the queue and the collector's list together.          *)
LEMMA OperandReads == TypeInv /\ OperandInv /\ AllocateReads => OperandInv'
  <1> SUFFICES ASSUME TypeInv, OperandInv, AllocateReads PROVE OperandInv'
    OBVIOUS
  <1>1. /\ m_queue \in [Banks -> Seq(CollectorIds \X Nat)]
        /\ m_queue' \in [Banks -> Seq(CollectorIds \X Nat)]
    BY TypeReads, FeedInductive DEF TypeInv, TypeOK, Next
  <1>2. SlotFacts /\ SlotFacts'
    BY <1>1, SlotIs, SlotsNext
  <1> DEFINE Before(q) == IF q[1] \in Granted THEN <<q[1], q[2] + 1>> ELSE q
             Heads == {<<b, 1>> : b \in Granted}
  <1>3. ASSUME NEW b \in Granted
        PROVE  /\ Len(m_queue'[b]) = Len(m_queue[b]) - 1 /\ Len(m_queue[b]) \in Nat \ {0}
               /\ \A i \in 1 .. Len(m_queue[b]) - 1 : m_queue'[b][i] = m_queue[b][i + 1]
    <2> DEFINE E == CollectorIds \X Nat
               q == m_queue[b]
    <2>1. b \in Banks /\ <<b, 1>> \in Slots /\ m_queue'[b] = Tail(q)
      BY ReadsDeliver
    <2>2. q \in Seq(E) /\ 1 \in 1 .. Len(q)
      BY <1>2, <2>1 DEF SlotFacts
    <2> HIDE DEF E, q
    <2>3. /\ Len(Tail(q)) = Len(q) - 1 /\ Len(q) \in Nat \ {0}
          /\ \A i \in 1 .. Len(q) - 1 : Tail(q)[i] = q[i + 1]
      BY <2>2, HeadTailProperties
    <2>4. QED
      BY <2>1, <2>3 DEF q
  <1>4. ASSUME NEW q \in Slots'
        PROVE  /\ Before(q) \in Slots /\ Before(q) \notin Heads
               /\ At(q)' = At(Before(q))
    <2>1. q = <<q[1], q[2]>> /\ q[1] \in Banks /\ q[2] \in 1 .. Len(m_queue'[q[1]])
      BY <1>2 DEF SlotFacts
    <2>2. CASE q[1] \in Granted
      <3>1. /\ q[2] + 1 \in 1 .. Len(m_queue[q[1]]) /\ q[2] + 1 # 1
            /\ m_queue'[q[1]][q[2]] = m_queue[q[1]][q[2] + 1]
        BY <1>3, <2>1, <2>2
      <3>2. Before(q) = <<q[1], q[2] + 1>>
        BY <2>2
      <3>3. QED
        BY <1>2, <2>1, <3>1, <3>2, SMTT(30) DEF SlotFacts, At
    <2>3. CASE q[1] \notin Granted
      <3>1. Before(q) = q /\ m_queue'[q[1]] = m_queue[q[1]]
        BY <2>1, <2>3, ReadsDeliver
      <3>2. q \in Slots /\ q \notin Heads
        BY <1>2, <2>1, <2>3, <3>1 DEF SlotFacts
      <3>3. QED
        BY <3>1, <3>2 DEF At
    <2>4. QED
      BY <2>2, <2>3
  <1>5. ASSUME NEW p \in Slots, p \notin Heads
        PROVE  \E q \in Slots' : At(q)' = At(p)
    <2>1. p = <<p[1], p[2]>> /\ p[1] \in Banks /\ p[2] \in 1 .. Len(m_queue[p[1]])
      BY <1>2 DEF SlotFacts
    <2>2. CASE p[1] \in Granted
      <3>1. p[2] # 1
        BY <1>5, <2>1, <2>2
      <3>2. /\ p[2] - 1 \in 1 .. Len(m_queue'[p[1]]) /\ (p[2] - 1) + 1 = p[2]
            /\ m_queue'[p[1]][p[2] - 1] = m_queue[p[1]][p[2]]
        <4>1. /\ p[2] - 1 \in 1 .. Len(m_queue[p[1]]) - 1 /\ (p[2] - 1) + 1 = p[2]
          BY <1>3, <2>1, <2>2, <3>1
        <4>2. QED
          BY <1>3, <2>2, <4>1
      <3>3. PICK i \in 1 .. Len(m_queue'[p[1]]) : m_queue'[p[1]][i] = At(p)
        BY <3>2 DEF At
      <3>4. <<p[1], i>> \in Slots' /\ At(<<p[1], i>>)' = m_queue'[p[1]][i]
        BY <1>2, <2>1, <3>3 DEF SlotFacts
      <3>5. QED
        BY <3>3, <3>4
    <2>3. CASE p[1] \notin Granted
      <3>1. m_queue'[p[1]] = m_queue[p[1]]
        BY <2>1, <2>3, ReadsDeliver
      <3>2. p \in Slots' /\ At(p)' = At(p)
        BY <1>2, <2>1, <3>1 DEF SlotFacts, At
      <3>3. QED
        BY <3>2
    <2>4. QED
      BY <2>2, <2>3
  <1>6. ASSUME NEW p \in Slots, p \notin Heads
        PROVE  At(p) \in CollectorIds \X Nat /\ At(p)[2] \notin Delivered(At(p)[1])
    <2>1. At(p) \in CollectorIds \X Nat
      BY <1>2 DEF SlotFacts
    <2>2. ASSUME At(p)[2] \in Delivered(At(p)[1]) PROVE FALSE
      <3>1. PICK b \in Granted : At(<<b, 1>>) = <<At(p)[1], At(p)[2]>>
        BY <2>2, ReadsDeliver, ZenonT(60)
      <3>2. At(<<b, 1>>) = At(p) /\ <<b, 1>> \in Slots
        BY <2>1, <3>1, ReadsDeliver
      <3>3. p = <<b, 1>>
        BY <3>2 DEF OperandInv
      <3>4. QED
        BY <1>6, <3>3
    <2>3. QED
      BY <2>1, <2>2
  <1>7. ASSUME NEW q \in Slots' PROVE At(q)'[2] \in m_cu'[At(q)'[1]].notReady
    <2>1. PICK p \in Slots : p \notin Heads /\ At(q)' = At(p)
      BY <1>4
    <2>2. At(p) \in CollectorIds \X Nat /\ At(p)[2] \notin Delivered(At(p)[1])
      BY <1>6, <2>1
    <2>3. At(p)[2] \in m_cu[At(p)[1]].notReady /\ At(p)[1] \in CollectorIds
      BY <2>2 DEF OperandInv
    <2>4. At(p)[2] \in m_cu'[At(p)[1]].notReady
      BY <2>2, <2>3, ReadsDeliver
    <2>5. QED
      BY <2>1, <2>4
  <1>8. ASSUME NEW q \in Slots', NEW r \in Slots', At(q)' = At(r)' PROVE q = r
    <2>1. Before(q) = Before(r)
      BY <1>4, <1>8 DEF OperandInv
    <2>2. /\ q = <<q[1], q[2]>> /\ q[2] \in Int
          /\ r = <<r[1], r[2]>> /\ r[2] \in Int
      BY <1>2 DEF SlotFacts
    <2>3. Before(q)[1] = q[1] /\ Before(r)[1] = r[1]
      BY <2>2
    <2>4. q[1] = r[1] /\ q[2] = r[2]
      BY <2>1, <2>2, <2>3
    <2>5. QED
      BY <2>2, <2>4
  <1>9. ASSUME NEW c \in CollectorIds, NEW op \in m_cu'[c].notReady
        PROVE  \E q \in Slots' : At(q)' = <<c, op>>
    <2>1. op \in m_cu[c].notReady /\ op \notin Delivered(c)
      BY <1>9, ReadsDeliver
    <2>2. PICK p \in Slots : At(p) = <<c, op>>
      BY <2>1 DEF OperandInv
    <2>3. p \notin Heads
      <3>1. ASSUME NEW b \in Granted, p = <<b, 1>> PROVE FALSE
        <4>1. op \in Delivered(c)
          BY <2>2, <3>1, ReadsDeliver
        <4>2. QED
          BY <2>1, <4>1
      <3>2. QED
        BY <3>1
    <2>4. PICK q \in Slots' : At(q)' = At(p)
      BY <1>5, <2>3
    <2>5. QED
      BY <2>2, <2>4
  <1>10. ASSUME NEW c \in CollectorIds
         PROVE  /\ IsFiniteSet(m_cu'[c].notReady)
                /\ m_cu'[c].free => m_cu'[c].notReady = {}
    <2>1. /\ m_cu'[c].notReady \subseteq m_cu[c].notReady /\ m_cu'[c].free = m_cu[c].free
      BY ReadsDeliver
    <2>2. IsFiniteSet(m_cu[c].notReady) /\ (m_cu[c].free => m_cu[c].notReady = {})
      BY DEF OperandInv
    <2>3. IsFiniteSet(m_cu'[c].notReady)
      BY <2>1, <2>2, FS_Subset
    <2>4. QED
      BY <2>1, <2>2, <2>3
  <1>11. QED
    BY <1>7, <1>8, <1>9, <1>10 DEF OperandInv

(* Requests and operands agree in every step.                              *)
LEMMA OperandInductive == TypeInv /\ OperandInv /\ [Next]_vars => OperandInv'
  <1> SUFFICES ASSUME TypeInv, OperandInv, [Next]_vars PROVE OperandInv'
    OBVIOUS
  <1>1. CASE \/ Feed \/ Finish \/ FillWarpTable \/ Writeback \/ Execute \/ DrainEvents
             \/ Schedule \/ Tick \/ UNCHANGED vars
    <2>1. UNCHANGED <<m_queue, m_cu>> /\ TypeOK
      BY <1>1 DEF Feed, Finish, FillWarpTable, Writeback, Execute, DrainEvents, Schedule, Tick,
                  collector, vars, TypeInv
    <2>2. QED
      BY <2>1, OperandFrame
  <1>2. QED
    BY <1>1, OperandDispatch, OperandAllocate, OperandReads DEF Next

(* Each busy collector waits for exactly the operands the bank queues hold *)
(* for it, each in one place: add_read_requests() and allocate_reads()     *)
(* keep the arbiter's queues and the collectors in step.                   *)
THEOREM QueuesMatchCollectorsCorrect == Spec => []QueuesMatchCollectors
  <1>1. ASSUME TypeInv, OperandInv PROVE QueuesMatchCollectors
    <2> DEFINE Queued(c) == {q \in Slots : m_queue[q[1]][q[2]][1] = c}
               Wanted(c) == {m_queue[q[1]][q[2]][2] : q \in Queued(c)}
    <2>1. SlotFacts
      BY <1>1, SlotIs DEF TypeInv, TypeOK
    <2>2. ASSUME NEW c \in CollectorIds
          PROVE  /\ Wanted(c) = m_cu[c].notReady
                 /\ Cardinality(Queued(c)) = Cardinality(m_cu[c].notReady)
                 /\ m_cu[c].free => m_cu[c].notReady = {}
      <3>1. \A q \in Queued(c) : /\ q \in Slots /\ At(q) = <<c, m_queue[q[1]][q[2]][2]>>
                                 /\ m_queue[q[1]][q[2]][2] \in m_cu[c].notReady
        BY <1>1, <2>1 DEF OperandInv, SlotFacts, At
      <3>2. \A op \in m_cu[c].notReady :
              \E q \in Queued(c) : m_queue[q[1]][q[2]][2] = op
        <4>1. ASSUME NEW op \in m_cu[c].notReady
              PROVE  \E q \in Slots : At(q)[1] = c /\ At(q)[2] = op
          BY <1>1 DEF OperandInv
        <4>2. QED
          BY <4>1 DEF At
      <3>3. Wanted(c) = m_cu[c].notReady
        BY <3>1, <3>2
      <3> DEFINE f == [q \in Queued(c) |-> m_queue[q[1]][q[2]][2]]
      <3>4. f \in [Queued(c) -> m_cu[c].notReady]
        BY <3>1
      <3>5. ASSUME NEW q \in Queued(c), NEW r \in Queued(c), f[q] = f[r] PROVE q = r
        <4>1. m_queue[q[1]][q[2]][2] = m_queue[r[1]][r[2]][2]
          BY <3>5
        <4>2. q \in Slots /\ r \in Slots /\ At(q) = At(r)
          BY <3>1, <4>1
        <4>3. QED
          BY <1>1, <4>2, Zenon DEF OperandInv
      <3>6. \A op \in m_cu[c].notReady : \E q \in Queued(c) : f[q] = op
        BY <3>2
      <3> HIDE DEF f, Queued
      <3>7. f \in Bijection(Queued(c), m_cu[c].notReady)
        BY <3>4, <3>5, <3>6 DEF Bijection, Injection, Surjection, IsInjective
      <3>8. ExistsBijection(m_cu[c].notReady, Queued(c))
        <4>1. ExistsBijection(Queued(c), m_cu[c].notReady)
          BY <3>7 DEF ExistsBijection
        <4>2. QED
          BY <4>1, Fun_ExistsBijSymmetric
      <3>9. IsFiniteSet(m_cu[c].notReady)
        BY <1>1 DEF OperandInv
      <3>10. Cardinality(Queued(c)) = Cardinality(m_cu[c].notReady)
        BY <3>8, <3>9, FS_Bijection
      <3>11. QED
        BY <1>1, <3>3, <3>10 DEF OperandInv
    <2>3. QED
      BY <2>2 DEF QueuesMatchCollectors, Slots
  <1>2. QED
    BY <1>1, TypeInit, TypeInductive, OperandInit, OperandInductive, PTL DEF Spec

-----------------------------------------------------------------------------
(* What has been read for a warp.                                          *)

(* How often a warp is past the collectors, and how often before them.     *)
Past(w) == Occurs(w, complete) + One(fetched = w) + One(latch.warp = w) + Occurs(w, executed)
Waiting(w) == Occurs(w, input) + Occurs(w, WarpTable)

(* All operands of a warp past the collectors have been read; of one in a  *)
(* collector, all but those the collector waits for; of others, none.      *)
ReadInv ==
  /\ \A w \in Warps : Past(w) > 0 => readBy[w] = Operands(w)
  /\ \A c \in Busy : /\ m_cu[c].notReady \subseteq Operands(m_cu[c].warp)
                     /\ readBy[m_cu[c].warp] = Operands(m_cu[c].warp) \ m_cu[c].notReady
  /\ \A w \in Warps : Past(w) = 0 /\ Held(w) = 0 => readBy[w] = {}

AllInv == TypeInv /\ PlaceInv /\ OperandInv /\ ReadInv

(* A warp is in one place.                                                 *)
Counted ==
  \A w \in Warps :
    /\ Past(w) \in Nat /\ Held(w) \in Nat /\ Waiting(w) \in Nat /\ w \in Nat \ {0}
    /\ Waiting(w) + Held(w) + Past(w) = One(w <= fed)
    /\ One(w <= fed) \in 0 .. 1

(* That is what OnePlace says.                                             *)
LEMMA CountedIs == PlaceInv => Counted
  <1> SUFFICES ASSUME PlaceInv, NEW w \in Warps
      PROVE /\ Past(w) \in Nat /\ Held(w) \in Nat /\ Waiting(w) \in Nat /\ w \in Nat \ {0}
            /\ Waiting(w) + Held(w) + Past(w) = One(w <= fed)
            /\ One(w <= fed) \in 0 .. 1
    BY DEF Counted
  <1>1. /\ Occurs(w, input) \in Nat /\ Occurs(w, WarpTable) \in Nat /\ Held(w) \in Nat
        /\ Occurs(w, complete) \in Nat /\ Occurs(w, executed) \in Nat
        /\ w \in Nat \ {0} /\ Copies(w) = One(w <= fed)
    BY CopiesType
  <1>2. One(fetched = w) \in 0 .. 1 /\ One(latch.warp = w) \in 0 .. 1 /\ One(w <= fed) \in 0 .. 1
    BY DEF One
  <1>3. QED
    BY <1>1, <1>2 DEF Copies, Past, Waiting

(* A busy collector is the only one with its warp, which is not past it.   *)
LEMMA HolderAlone ==
  ASSUME Counted, NEW c \in Busy, m_cu[c].warp \in Warps
  PROVE  /\ Past(m_cu[c].warp) = 0 /\ Held(m_cu[c].warp) = 1
         /\ \A d \in Busy : m_cu[d].warp = m_cu[c].warp => d = c
  <1> DEFINE w == m_cu[c].warp
             H == Holders(w)
  <1>1. c \in H /\ IsFiniteSet(H) /\ Held(w) = Cardinality(H) /\ Held(w) \in Nat
    BY HeldType DEF Holders
  <1>2. Held(w) # 0
    BY <1>1, FS_EmptySet
  <1>3. Held(w) = 1 /\ Past(w) = 0
    <2>1. /\ Past(w) \in Nat /\ Held(w) \in Nat /\ Waiting(w) \in Nat
          /\ Waiting(w) + Held(w) + Past(w) <= 1
      BY DEF Counted
    <2> HIDE DEF w
    <2>2. QED
      BY <1>2, <2>1
  <1>4. ASSUME NEW d \in Busy, m_cu[d].warp = w PROVE d = c
    <2>1. d \in H
      BY <1>4 DEF Holders
    <2> HIDE DEF H, w
    <2>2. PICK x : H = {x}
      BY <1>1, <1>3, FS_Singleton
    <2>3. QED
      BY <1>1, <2>1, <2>2
  <1>5. QED
    BY <1>3, <1>4

(* Nothing has been read at first.                                         *)
LEMMA ReadInit == Init => ReadInv
  <1> SUFFICES ASSUME Init PROVE ReadInv
    OBVIOUS
  <1>1. Busy = {} /\ \A w \in Warps : readBy[w] = {}
    BY DEF Init, Busy, Unused
  <1>2. ASSUME NEW w \in Warps PROVE Past(w) = 0
    <2>1. w # 0
      BY WarpNumbers
    <2>2. /\ complete = <<>> /\ executed = <<>> /\ fetched = 0 /\ latch.warp = 0
      BY DEF Init, NoWarp, Empty
    <2>3. QED
      BY <2>1, <2>2, OccursEmpty DEF Past, One
  <1>3. QED
    BY <1>1, <1>2 DEF ReadInv

(* Steps that leave the collectors and move no warp past them.             *)
LEMMA ReadFrame ==
  ASSUME ReadInv, UNCHANGED <<m_cu, readBy, trace>>, \A w \in Warps : Past(w)' = Past(w)
  PROVE  ReadInv'
  BY DEF ReadInv, Busy, Operands, Held

(* dispatch_ready_cu() lets a warp pass when all its operands are there.   *)
LEMMA ReadDispatch ==
  ASSUME AllInv, Counted, Counted', DispatchReady
  PROVE  ReadInv'
  <1>1. UNCHANGED <<readBy, trace, input, WarpTable, fetched, latch, executed, fed>>
    BY DEF DispatchReady, feedvars
  <1>2. CASE UNCHANGED <<m_cu, complete>>
    <2>1. \A w \in Warps : Past(w)' = Past(w)
      BY <1>1, <1>2 DEF Past
    <2>2. QED
      BY <1>1, <1>2, <2>1, ReadFrame DEF AllInv
  <1>3. ASSUME NEW c \in Busy, m_cu[c].notReady = {},
               m_cu' = [m_cu EXCEPT ![c].free = TRUE]
        PROVE  ReadInv'
    <2> DEFINE w == m_cu[c].warp
    <2>1. w \in Warps /\ c \in CollectorIds /\ m_cu \in [CollectorIds -> CollectorRecord]
      BY DEF AllInv, TypeInv, TypeOK, Busy, CollectorRecord
    <2>2. \A v : Held(v)' \in Nat /\ Held(v) = Held(v)' + One(w = v)
      BY <1>3, HeldRelease DEF AllInv, PlaceInv, PlaceTypes
    <2>3. \A d \in CollectorIds : d # c => m_cu'[d] = m_cu[d]
      BY <1>3, <2>1
    <2>4. m_cu'[c].free
      BY <1>3, <2>1 DEF CollectorRecord
    <2>5. ASSUME NEW d \in Busy'
          PROVE  d \in Busy /\ m_cu'[d] = m_cu[d]
      <3>1. d \in CollectorIds /\ ~m_cu'[d].free
        BY <2>5 DEF Busy
      <3>2. d # c
        BY <2>4, <3>1
      <3>3. QED
        BY <2>3, <3>1, <3>2 DEF Busy
    <2>6. readBy[w] = Operands(w)
      BY <1>3 DEF AllInv, ReadInv
    <2> HIDE DEF w
    <2>7. ASSUME NEW v \in Warps
          PROVE  /\ Past(v)' > 0 => readBy[v] = Operands(v)
                 /\ Past(v)' = 0 /\ Held(v)' = 0 => readBy[v] = {}
      <3>1. /\ Past(v) \in Nat /\ Held(v) \in Nat /\ Waiting(v) \in Nat
            /\ Past(v)' \in Nat /\ Held(v)' \in Nat
            /\ Waiting(v) + Held(v) + Past(v) = One(v <= fed) /\ One(v <= fed) \in 0 .. 1
            /\ Waiting(v)' + Held(v)' + Past(v)' = One(v <= fed)'
        BY DEF Counted
      <3>2. Waiting(v)' = Waiting(v) /\ One(v <= fed)' = One(v <= fed)
        BY <1>1 DEF Waiting
      <3>3. Past(v)' + Held(v)' = Past(v) + Held(v)
        BY <3>1, <3>2
      <3>4. CASE v = w
        <4>1. Held(v) = Held(v)' + 1
          BY <2>2, <3>4 DEF One
        <4>2. Past(v)' # 0
          BY <3>1, <3>3, <4>1
        <4>3. QED
          BY <2>6, <3>4, <4>2
      <3>5. CASE v # w
        <4>1. Held(v) = Held(v)'
          BY <2>2, <3>1, <3>5 DEF One
        <4>2. Past(v)' = Past(v)
          <5>1. \A p, q, h \in Nat : p + h = q + h => p = q
            OBVIOUS
          <5>2. Past(v)' + Held(v) = Past(v) + Held(v)
            BY <3>3, <4>1
          <5>3. QED
            BY <3>1, <5>1, <5>2
        <4>3. QED
          BY <4>1, <4>2 DEF AllInv, ReadInv
      <3>6. QED
        BY <3>4, <3>5
    <2>8. \A v \in Warps : readBy'[v] = readBy[v] /\ Operands(v)' = Operands(v)
      BY <1>1 DEF Operands
    <2>9. ASSUME NEW d \in Busy'
          PROVE  /\ m_cu'[d].notReady \subseteq Operands(m_cu[d].warp)
                 /\ m_cu'[d].warp = m_cu[d].warp
                 /\ Operands(m_cu[d].warp)' = Operands(m_cu[d].warp)
                 /\ readBy'[m_cu[d].warp] = Operands(m_cu[d].warp) \ m_cu'[d].notReady
      BY <1>1, <2>5 DEF AllInv, ReadInv, Operands
    <2>10. QED
      BY <2>7, <2>8, <2>9 DEF ReadInv
  <1>4. ASSUME NEW c \in CollectorIds, FirstReady(unit, c), m_cu[c] # Unused
        PROVE  c \in Busy /\ m_cu[c].notReady = {}
    BY <1>4 DEF FirstReady, Ready, Busy
  <1>5. QED
    BY <1>2, <1>3, <1>4 DEF DispatchReady

(* allocate_cu() starts with a warp nothing has been read for.             *)
LEMMA ReadAllocate ==
  ASSUME AllInv, Counted, Counted', AllocateCu
  PROVE  ReadInv'
  <1>1. /\ UNCHANGED <<readBy, trace, input, complete, fetched, latch, executed, fed>>
        /\ WarpTable \in Seq(Warps) /\ WarpTable \in Seq(Nat) /\ WarpTable # <<>>
        /\ m_cu \in [CollectorIds -> CollectorRecord]
    BY DEF AllocateCu, feedvars, backend, AllInv, PlaceInv, FeedInv, QueueTypes, BeforeAllocate,
           TypeInv, TypeOK, CollectorRecord
  <1>2. \A w \in Warps : Past(w)' = Past(w)
    BY <1>1 DEF Past
  <1>3. CASE UNCHANGED m_cu
    BY <1>1, <1>2, <1>3, ReadFrame DEF AllInv
  <1>4. CASE FreeCollectors # {}
    <2> DEFINE c == First(FreeCollectors)
               w == Head(WarpTable)
    <2>1. c \in FreeCollectors
      BY <1>4, FirstExists DEF FreeCollectors
    <2>2. m_cu' = [m_cu EXCEPT ![c] = [warp |-> w, free |-> FALSE, notReady |-> Operands(w)]]
      BY <1>1, <1>4 DEF AllocateCu
    <2>3. /\ w \in Warps /\ w \in Nat
          /\ Occurs(w, WarpTable) = One(w = w) + Occurs(w, Tail(WarpTable))
      BY <1>1, OccursTail
    <2>4. Tail(WarpTable) \in Seq(Nat)
      BY <1>1
    <2> HIDE DEF c, w
    <2>5. \A v : Held(v)' = Held(v) + One(w = v)
      BY <2>1, <2>2, <2>3, HeldTake, ZenonT(60) DEF AllInv, PlaceInv, PlaceTypes
    <2>6. Past(w) = 0 /\ Held(w) = 0
      <3>1. Occurs(w, input) \in Nat /\ Occurs(w, Tail(WarpTable)) \in Nat
        BY <2>3, <2>4, OccursType, CopiesType DEF AllInv
      <3>2. Waiting(w) > 0
        BY <2>3, <3>1 DEF Waiting, One
      <3>3. /\ Past(w) \in Nat /\ Held(w) \in Nat /\ Waiting(w) \in Nat
            /\ Waiting(w) + Held(w) + Past(w) <= 1
        BY <2>3 DEF Counted
      <3>4. QED
        BY <3>2, <3>3
    <2>7. readBy[w] = {}
      BY <2>3, <2>6 DEF AllInv, ReadInv
    <2>8. /\ c \in CollectorIds
          /\ m_cu'[c].warp = w /\ m_cu'[c].notReady = Operands(w)
          /\ \A d \in CollectorIds : d # c => m_cu'[d] = m_cu[d]
      BY <1>1, <2>1, <2>2 DEF FreeCollectors
    <2>9. \A v : readBy'[v] = readBy[v] /\ Operands(v)' = Operands(v)
      BY <1>1 DEF Operands
    <2>10. ASSUME NEW d \in Busy'
           PROVE  /\ m_cu'[d].notReady \subseteq Operands(m_cu'[d].warp)
                  /\ readBy[m_cu'[d].warp] = Operands(m_cu'[d].warp) \ m_cu'[d].notReady
      <3>1. CASE d = c
        BY <2>7, <2>8, <3>1
      <3>2. CASE d # c
        <4>1. d \in Busy /\ m_cu'[d] = m_cu[d]
          BY <2>8, <2>10, <3>2 DEF Busy
        <4>2. QED
          BY <4>1 DEF AllInv, ReadInv
      <3>3. QED
        BY <3>1, <3>2
    <2>11. ASSUME NEW v \in Warps
           PROVE  /\ Past(v)' > 0 => readBy[v] = Operands(v)
                  /\ Past(v)' = 0 /\ Held(v)' = 0 => readBy[v] = {}
      <3>1. Held(v)' = 0 => Held(v) = 0
        <4>1. Held(v) \in Nat /\ One(w = v) \in Nat
          BY DEF Counted, One
        <4>2. QED
          BY <2>5, <4>1
      <3>2. QED
        BY <1>2, <3>1 DEF AllInv, ReadInv
    <2>12. QED
      BY <2>9, <2>10, <2>11 DEF ReadInv
  <1>5. QED
    BY <1>1, <1>3, <1>4 DEF AllocateCu

(* allocate_reads() notes what it delivers.                                *)
LEMMA ReadReads ==
  ASSUME AllInv, Counted, AllocateReads
  PROVE  ReadInv'
  <1>1. /\ UNCHANGED <<trace, complete, fetched, latch, executed>>
        /\ TypeInv /\ OperandInv /\ ReadInv /\ TypeOK /\ readBy \in [Warps -> SUBSET Nat]
    BY DEF AllocateReads, feedvars, backend, AllInv, TypeInv, TypeOK
  <1>2. \A w \in Warps : Past(w)' = Past(w) /\ Operands(w)' = Operands(w)
    BY <1>1 DEF Past, Operands
  <1> DEFINE New(w) == readBy[w] \cup
                         UNION {Delivered(c) : c \in {d \in CollectorIds : m_cu[d].warp = w}}
  <1>3. readBy' = [w \in Warps |-> New(w)]
    BY DEF AllocateReads, Granted, Delivered
  <1>4. \A c \in CollectorIds : /\ m_cu'[c].notReady = m_cu[c].notReady \ Delivered(c)
                                /\ m_cu'[c].free = m_cu[c].free
                                /\ m_cu'[c].warp = m_cu[c].warp
    BY <1>1, ReadsDeliver
  <1>5. ASSUME NEW c \in CollectorIds
        PROVE  /\ Delivered(c) \subseteq m_cu[c].notReady
               /\ c \notin Busy => Delivered(c) = {}
    <2>1. ASSUME NEW op \in Delivered(c) PROVE op \in m_cu[c].notReady
      <3>1. PICK b \in Granted : At(<<b, 1>>) = <<c, op>> /\ <<b, 1>> \in Slots
        <4>1. \E b \in Granted : At(<<b, 1>>) = <<c, op>>
          BY <1>1, <2>1, ReadsDeliver
        <4>2. \A b \in Granted : <<b, 1>> \in Slots
          BY <1>1, ReadsDeliver
        <4>3. QED
          BY <4>1, <4>2
      <3>2. At(<<b, 1>>)[2] = op /\ At(<<b, 1>>)[1] = c
        BY <3>1
      <3>3. QED
        BY <1>1, <3>1, <3>2 DEF OperandInv
    <2>2. c \notin Busy => m_cu[c].notReady = {}
      BY <1>1 DEF OperandInv, Busy
    <2>3. QED
      BY <2>1, <2>2
  <1>6. ASSUME NEW w \in Warps, \A c \in Busy : m_cu[c].warp # w
        PROVE  readBy'[w] = readBy[w]
    <2>1. \A c \in CollectorIds : m_cu[c].warp = w => Delivered(c) = {}
      BY <1>5, <1>6
    <2>2. New(w) = readBy[w]
      BY <2>1
    <2>3. QED
      BY <1>3, <2>2
  <1>7. ASSUME NEW w \in Warps, Held(w) = 0 PROVE \A c \in Busy : m_cu[c].warp # w
    <2>1. Held(w) = Cardinality(Holders(w)) /\ IsFiniteSet(Holders(w))
      BY HeldType
    <2>2. Holders(w) = {}
      BY <1>7, <2>1, FS_EmptySet
    <2>3. QED
      BY <2>2 DEF Holders
  <1>8. ASSUME NEW c \in Busy'
        PROVE  /\ m_cu'[c].notReady \subseteq Operands(m_cu'[c].warp)
               /\ readBy'[m_cu'[c].warp] = Operands(m_cu'[c].warp) \ m_cu'[c].notReady
               /\ m_cu'[c].warp \in Warps
    <2> DEFINE w == m_cu[c].warp
    <2>1. /\ c \in Busy /\ c \in CollectorIds /\ w \in Warps
          /\ m_cu'[c].warp = w /\ m_cu'[c].notReady = m_cu[c].notReady \ Delivered(c)
      BY <1>1, <1>4 DEF Busy, TypeInv
    <2>2. \A d \in CollectorIds : m_cu[d].warp = w => d = c \/ Delivered(d) = {}
      BY <1>5, <2>1, HolderAlone
    <2>3. New(w) = readBy[w] \cup Delivered(c)
      BY <2>1, <2>2
    <2>4. readBy'[w] = readBy[w] \cup Delivered(c)
      BY <1>3, <2>1, <2>3
    <2>5. /\ m_cu[c].notReady \subseteq Operands(w)
          /\ readBy[w] = Operands(w) \ m_cu[c].notReady
          /\ Delivered(c) \subseteq m_cu[c].notReady
      BY <1>1, <1>5, <2>1 DEF ReadInv
    <2> HIDE DEF w, New
    <2>6. QED
      BY <2>1, <2>4, <2>5
  <1>9. \A w \in Warps : Held(w)' = Held(w)
    <2>1. \A w : Holders(w)' = Holders(w)
      BY <1>4 DEF Holders, Busy
    <2>2. QED
      BY <2>1, HeldKept
  <1>10. ASSUME NEW w \in Warps
         PROVE  /\ Past(w) > 0 => readBy'[w] = Operands(w)
                /\ Past(w) = 0 /\ Held(w) = 0 => readBy'[w] = {}
    <2>1. /\ Past(w) \in Nat /\ Held(w) \in Nat /\ Waiting(w) \in Nat
          /\ Waiting(w) + Held(w) + Past(w) <= 1
      BY DEF Counted
    <2>2. Past(w) > 0 => Held(w) = 0
      BY <2>1
    <2>3. Held(w) = 0 => readBy'[w] = readBy[w]
      BY <1>6, <1>7
    <2>4. QED
      BY <1>1, <2>2, <2>3 DEF ReadInv
  <1>11. QED
    BY <1>2, <1>8, <1>9, <1>10 DEF ReadInv

(* Every step keeps the account of what has been read.                     *)
LEMMA ReadInductive == AllInv /\ [Next]_vars => ReadInv'
  <1> SUFFICES ASSUME AllInv, [Next]_vars PROVE ReadInv'
    OBVIOUS
  <1>1. PlaceInv /\ PlaceInv'
    BY PlaceInductive DEF AllInv
  <1>2. Counted /\ Counted'
    <2>1. PlaceInv' => Counted'
      BY CountedIs, PTL
    <2>2. QED
      BY <1>1, <2>1, CountedIs
  <1>3. CASE Feed \/ Finish \/ FillWarpTable \/ Writeback \/ Tick \/ UNCHANGED vars
    <2>1. UNCHANGED <<m_cu, readBy, trace, complete, fetched, latch, executed>>
      BY <1>3 DEF Feed, Finish, FillWarpTable, Writeback, Tick, vars, collector, feedvars, backend
    <2>2. \A w \in Warps : Past(w)' = Past(w)
      BY <2>1 DEF Past
    <2>3. QED
      BY <2>1, <2>2, ReadFrame DEF AllInv
  <1>4. CASE Execute \/ DrainEvents \/ Schedule
    <2>1. UNCHANGED <<m_cu, readBy, trace, input, WarpTable, fed>>
      BY <1>4 DEF Execute, DrainEvents, Schedule, collector, feedvars
    <2>2. ASSUME NEW w \in Warps PROVE Past(w)' = Past(w)
      <3>1. /\ Past(w) \in Nat /\ Held(w) \in Nat /\ Waiting(w) \in Nat /\ Past(w)' \in Nat
            /\ Waiting(w) + Held(w) + Past(w) = One(w <= fed)
            /\ Waiting(w)' + Held(w)' + Past(w)' = One(w <= fed)'
        BY <1>2 DEF Counted
      <3>2. Waiting(w)' = Waiting(w) /\ Held(w)' = Held(w) /\ One(w <= fed)' = One(w <= fed)
        BY <2>1 DEF Waiting, Held, Busy
      <3>3. QED
        BY <3>1, <3>2
    <2>3. QED
      BY <2>1, <2>2, ReadFrame DEF AllInv
  <1>5. QED
    BY <1>2, <1>3, <1>4, ReadDispatch, ReadAllocate, ReadReads DEF Next

(* A warp that dispatch_ready_cu() has passed on, up to the end of its     *)
(* execution, has had each of its operands read from the banks: no warp is *)
(* dispatched with an operand missing.                                     *)
THEOREM DispatchedWithOperandsCorrect == Spec => []DispatchedWithOperands
  <1>1. Init => AllInv
    BY TypeInit, PlaceInit, OperandInit, ReadInit DEF AllInv
  <1>2. AllInv /\ [Next]_vars => AllInv'
    BY TypeInductive, PlaceInductive, OperandInductive, ReadInductive DEF AllInv
  <1>3. ASSUME AllInv PROVE DispatchedWithOperands
    <2> SUFFICES ASSUME NEW w \in 1 .. fed, Past(w) > 0 PROVE readBy[w] = Operands(w)
      BY DEF DispatchedWithOperands, Past
    <2>1. fed \in 0 .. KernelSize * totalNumKernels
      BY <1>3 DEF AllInv, TypeInv, TypeOK
    <2>2. KernelSize * totalNumKernels \in Nat
      BY WarpNumbers
    <2>3. w \in Warps
      <3> DEFINE k == KernelSize * totalNumKernels
      <3> HIDE DEF k
      <3>1. fed \in 0 .. k /\ k \in Nat
        BY <2>1, <2>2 DEF k
      <3>2. w \in 1 .. k
        BY <3>1
      <3>3. QED
        BY <3>2 DEF Warps, k
    <2>4. QED
      BY <1>3, <2>3 DEF AllInv, ReadInv
  <1>4. QED
    BY <1>1, <1>2, <1>3, PTL DEF Spec

=============================================================================
