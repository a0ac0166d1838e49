------------------------- MODULE SPPipeline_proofs --------------------------
(*************************************************************************)
(* Proofs about the flow of warps through SPPipeline, for every trace,   *)
(* every size of the queues and every number of banks, collectors and    *)
(* dispatch units: no cycle runs while a kernel is fed, no warp is taken *)
(* from an empty warp table, no warp is lost and none appears twice,     *)
(* overtaking is bounded by the number of collectors, and a ready        *)
(* collector is passed over for less than one round of every dispatch    *)
(* unit. With one dispatch unit no write meets a bank that is written    *)
(* already.                                                              *)
(*************************************************************************)
EXTENDS SPPipeline, Arbiter_proofs, SequenceTheorems, FiniteSetTheorems

(* Stages up to allocate_cu() at which the warp table must hold a warp.     *)
BeforeAllocate == {"writeback", "execute", "drain", "dispatch", "allocate"}

InCycle == BeforeAllocate \cup {"fill", "reads", "schedule", "tick"}

QueueTypes ==
  /\ stage \in InCycle \cup {"feed", "done", "exited"}
  /\ minN = 0
  /\ kernel \in Nat /\ fed \in Nat
  /\ input \in Seq(Nat)
  /\ WarpTable \in Seq(Nat) /\ Len(WarpTable) <= WarpTableSize

(* While a kernel is fed all of it that has been read is still queued, so a *)
(* kernel is queued in full when its first cycle begins; a cycle goes on    *)
(* only with a warp in the table.                                           *)
FeedInv ==
  /\ QueueTypes
  /\ stage = "feed" => WarpTable = <<>> /\ fed = KernelSize * kernel + Len(input)
  /\ stage \in InCycle => fed = KernelSize * (kernel + 1)
  /\ stage = "fill" => Len(input) + Len(WarpTable) > 0
  /\ stage \in BeforeAllocate => WarpTable # <<>>

(* The loops have not begun: nothing is fed.                                *)
LEMMA FeedInit == Init => FeedInv
  <1>1. KernelSize \in Nat /\ WarpTableSize \in Nat
    BY PipelineAssumption
  <1>2. QED
    BY <1>1 DEF Init, FeedInv, QueueTypes, InCycle, BeforeAllocate

(* run() enqueues what it reads and runs no cycle, as the table is empty.   *)
LEMMA FeedStep == FeedInv /\ Feed => FeedInv'
  <1> SUFFICES ASSUME FeedInv, Feed PROVE FeedInv'
    OBVIOUS
  <1>1. /\ KernelSize \in Nat
        /\ KernelSize * kernel \in Nat
        /\ KernelSize * (kernel + 1) \in Nat
    BY PipelineAssumption DEF FeedInv, QueueTypes
  <1>2. stage = "feed" /\ WarpTable = <<>> /\ Len(WarpTable) = 0 /\ fed \in Nat
    BY DEF Feed, FeedInv, QueueTypes
  <1>3. PICK n \in 0 .. KernelSize * (kernel + 1) - fed :
          /\ input' = input \o [i \in 1 .. n |-> fed + i]
          /\ fed' = fed + n
          /\ stage' = IF n = 0 THEN "exited"
                      ELSE IF CyclesToRun(input') = 0 THEN "feed" ELSE "fill"
          /\ minN' = CyclesToRun(input')
    BY DEF Feed
  <1>4. n \in Nat
    BY <1>1, <1>2, <1>3
  <1>5. minN' = 0 /\ stage' \in {"feed", "exited"} /\ fed' \in Nat
    BY <1>2, <1>3, <1>4 DEF CyclesToRun
  <1>6. input' \in Seq(Nat) /\ Len(input') = Len(input) + n
    <2>1. [i \in 1 .. n |-> fed + i] \in Seq(Nat) /\ Len([i \in 1 .. n |-> fed + i]) = n
      BY <1>2, <1>4
    <2>2. QED
      BY <1>3, <2>1 DEF FeedInv, QueueTypes
  <1>7. kernel' = kernel /\ WarpTable' = WarpTable
    BY DEF Feed
  <1>8. fed' = KernelSize * kernel' + Len(input')
    BY <1>1, <1>2, <1>3, <1>4, <1>6, <1>7 DEF FeedInv, QueueTypes
  <1>9. QED
    BY <1>2, <1>5, <1>6, <1>7, <1>8 DEF FeedInv, QueueTypes, InCycle, BeforeAllocate

(* A kernel has at least one micro-operation, and all of it is queued.      *)
LEMMA FinishStep == FeedInv /\ Finish => FeedInv'
  <1> SUFFICES ASSUME FeedInv, Finish PROVE FeedInv'
    OBVIOUS
  <1>1. /\ KernelSize \in Nat \ {0} /\ KernelSize * kernel \in Nat
        /\ KernelSize * (kernel + 1) = KernelSize * kernel + KernelSize
    BY PipelineAssumption DEF FeedInv, QueueTypes
  <1>2. Len(input) = KernelSize
    BY <1>1 DEF FeedInv, QueueTypes, Finish
  <1>3. QED
    BY <1>1, <1>2 DEF FeedInv, QueueTypes, InCycle, BeforeAllocate, Finish, feedvars

(* There is room for a warp when the table is empty.                        *)
LEMMA FillStep == FeedInv /\ FillWarpTable => FeedInv'
  <1> SUFFICES ASSUME FeedInv, FillWarpTable PROVE FeedInv'
    OBVIOUS
  <1> DEFINE room == WarpTableSize - Len(WarpTable)
             n    == IF Len(input) < room THEN Len(input) ELSE room
             new  == SubSeq(input, 1, n)
             rest == SubSeq(input, n + 1, Len(input))
  <1>1. /\ input \in Seq(Nat) /\ WarpTable \in Seq(Nat)
        /\ Len(input) \in Nat /\ Len(WarpTable) \in Nat
        /\ Len(input) + Len(WarpTable) > 0
        /\ WarpTableSize \in Nat /\ WarpTableSize > 0
        /\ Len(WarpTable) <= WarpTableSize
    BY PipelineAssumption DEF FeedInv, QueueTypes, FillWarpTable
  <1>2. n \in 0 .. Len(input) /\ n <= room /\ n + Len(WarpTable) > 0
    BY <1>1
  <1>3. new \in Seq(Nat) /\ Len(new) = n /\ rest \in Seq(Nat)
    BY <1>1, <1>2, SMTT(30)
  <1>4. WarpTable' = WarpTable \o new /\ input' = rest
    BY DEF FillWarpTable
  <1> HIDE DEF room, n, new, rest
  <1>5. WarpTable' \in Seq(Nat) /\ Len(WarpTable') = Len(WarpTable) + n
    <2>1. /\ WarpTable \o new \in Seq(Nat)
          /\ Len(WarpTable \o new) = Len(WarpTable) + Len(new)
      BY <1>1, <1>3, ConcatProperties
    <2>2. QED
      BY <1>3, <1>4, <2>1
  <1>6. WarpTable' # <<>> /\ Len(WarpTable') <= WarpTableSize
    BY <1>1, <1>2, <1>5 DEF room
  <1>7. QED
    BY <1>3, <1>4, <1>5, <1>6 DEF FeedInv, QueueTypes, InCycle, BeforeAllocate, FillWarpTable

(* Steps of a cycle that leave the queues alone.                            *)
LEMMA FrameStep ==
  ASSUME FeedInv,
         UNCHANGED <<minN, kernel, feedvars, WarpTable>>,
         stage \in InCycle, stage' \in InCycle \ {"fill"},
         stage' \in BeforeAllocate => stage \in BeforeAllocate
  PROVE  FeedInv'
  BY DEF FeedInv, QueueTypes, InCycle, BeforeAllocate, feedvars

(* The last warp of the table may be taken; the table is not empty before.  *)
LEMMA AllocateStep == FeedInv /\ AllocateCu => FeedInv'
  <1> SUFFICES ASSUME FeedInv, AllocateCu PROVE FeedInv'
    OBVIOUS
  <1>1. stage = "allocate" /\ WarpTable \in Seq(Nat) /\ WarpTable # <<>>
    BY DEF AllocateCu, FeedInv, QueueTypes, BeforeAllocate
  <1>2. stage' = "reads" /\ (WarpTable' = WarpTable \/ WarpTable' = Tail(WarpTable))
    BY <1>1 DEF AllocateCu
  <1>3. WarpTable' \in Seq(Nat) /\ Len(WarpTable') <= Len(WarpTable)
    BY <1>1, <1>2
  <1>4. UNCHANGED <<minN, kernel, fed, input>>
    BY DEF AllocateCu, feedvars
  <1>5. WarpTableSize \in Nat /\ Len(WarpTable) \in Nat /\ Len(WarpTable') \in Nat
    BY <1>1, <1>3, PipelineAssumption
  <1>6. QED
    BY <1>1, <1>2, <1>3, <1>4, <1>5 DEF FeedInv, QueueTypes, InCycle, BeforeAllocate

(* Another cycle, or the next kernel with both queues empty.                *)
LEMMA TickStep == FeedInv /\ Tick => FeedInv'
  <1> SUFFICES ASSUME FeedInv, Tick PROVE FeedInv'
    OBVIOUS
  <1> USE DEF FeedInv, QueueTypes, InCycle, BeforeAllocate
  <1>1. stage = "tick" /\ minN = 0 /\ UNCHANGED <<fed, WarpTable>> /\ minN' = 0
    BY DEF Tick
  <1>2. CASE CyclesGoOn
    <2>1. stage' = "fill" /\ UNCHANGED <<kernel, input>>
      BY <1>1, <1>2 DEF Tick
    <2>2. Len(WarpTable) > 0 /\ Len(input) \in Nat
      BY <1>2 DEF CyclesGoOn
    <2>3. QED
      BY <1>1, <2>1, <2>2
  <1>3. CASE ~CyclesGoOn
    <2>1. /\ kernel' = kernel + 1 /\ input' = <<>>
          /\ stage' \in {"feed", "done"} /\ WarpTable = <<>>
      BY <1>1, <1>3 DEF Tick, CyclesGoOn
    <2>2. fed = KernelSize * kernel' + Len(input')
      <3>1. KernelSize * (kernel + 1) \in Nat /\ Len(input') = 0
        BY <2>1, PipelineAssumption
      <3>2. QED
        BY <1>1, <2>1, <3>1
    <2>3. QED
      BY <1>1, <2>1, <2>2
  <1>4. QED
    BY <1>2, <1>3

(* The invariant is inductive.                                              *)
LEMMA FeedInductive == FeedInv /\ [Next]_vars => FeedInv'
  <1> SUFFICES ASSUME FeedInv, [Next]_vars PROVE FeedInv'
    OBVIOUS
  <1>1. CASE Feed
    BY <1>1, FeedStep
  <1>2. CASE Finish
    BY <1>2, FinishStep
  <1>3. CASE FillWarpTable
    BY <1>3, FillStep
  <1>4. CASE Writeback
    BY <1>4, FrameStep DEF Writeback, InCycle, BeforeAllocate
  <1>5. CASE Execute
    BY <1>5, FrameStep DEF Execute, InCycle, BeforeAllocate
  <1>6. CASE DrainEvents
    BY <1>6, FrameStep DEF DrainEvents, InCycle, BeforeAllocate
  <1>7. CASE DispatchReady
    BY <1>7, FrameStep DEF DispatchReady, InCycle, BeforeAllocate
  <1>8. CASE AllocateCu
    BY <1>8, AllocateStep
  <1>9. CASE AllocateReads
    BY <1>9, FrameStep DEF AllocateReads, InCycle, BeforeAllocate
  <1>10. CASE Schedule
    BY <1>10, FrameStep DEF Schedule, InCycle, BeforeAllocate
  <1>11. CASE Tick
    BY <1>11, TickStep
  <1>12. CASE UNCHANGED vars
    BY <1>12 DEF vars, control, feedvars, FeedInv, QueueTypes
  <1>13. QED
    BY <1>1, <1>2, <1>3, <1>4, <1>5, <1>6, <1>7, <1>8, <1>9, <1>10, <1>11, <1>12 DEF Next

(* No collector is ever given a warp from an empty table (allocate_cu() and *)
(* the loops of SimplerRunnableThread): the thread never meets null.        *)
THEOREM NeverDeadCorrect == Spec => []NeverDead
  <1>1. FeedInv => NeverDead
    BY DEF FeedInv, QueueTypes, InCycle, BeforeAllocate, NeverDead
  <1>2. QED
    BY <1>1, FeedInit, FeedInductive, PTL DEF Spec

(* runPipelines() never runs a cycle: a kernel is queued in full before its *)
(* first one.                                                               *)
THEOREM FeedRunsNoCycleCorrect == Spec => []FeedRunsNoCycle
  <1>1. FeedInv => FeedRunsNoCycle
    BY DEF FeedInv, QueueTypes, FeedRunsNoCycle
  <1>2. QED
    BY <1>1, FeedInit, FeedInductive, PTL DEF Spec

-----------------------------------------------------------------------------
(* Write-back with one dispatch unit.  At most one warp waits for it; it   *)
(* got there in a step of the collector, which then freed the banks, or    *)
(* the step was skipped and no warp got there.                             *)
WriteInv ==
  /\ Warp_write = <<>> \/ \E w : Warp_write = <<w>>
  /\ stage = "dispatch" => unit = 0
  /\ stage \in {"execute", "drain", "dispatch"} => Warp_write = <<>>
  /\ stage \in {"feed", "fill", "writeback", "schedule", "tick"} =>
       Warp_write = <<>> \/ written = {}

(* Nothing waits at first.                                                 *)
LEMMA WriteInit == Init => WriteInv
  BY DEF Init, WriteInv

(* The step of the collector leaves one warp and idle banks.               *)
LEMMA WriteStep ==
  ASSUME num_dispatch_units = 1, WriteInv, [Next]_vars
  PROVE  WriteInv'
  <1> USE DEF WriteInv
  <1>1. Units = {0}
    BY DEF Units
  <1>2. CASE Feed
    BY <1>2 DEF Feed, write, collector
  <1>3. CASE Finish
    BY <1>3 DEF Finish, write, collector
  <1>4. CASE FillWarpTable
    BY <1>4 DEF FillWarpTable, write, collector
  <1>5. CASE Writeback
    <2>1. stage' = "execute"
      BY <1>5 DEF Writeback
    <2>2. Warp_write' = <<>>
      <3>1. CASE Warp_write = <<>>
        BY <1>5, <3>1 DEF Writeback, write
      <3>2. CASE Warp_write # <<>>
        <4>1. Warp_write' = Tail(Warp_write)
          BY <1>5, <3>2 DEF Writeback
        <4>2. PICK w : Warp_write = <<w>>
          BY <3>2
        <4>3. Tail(<<w>>) = <<>>
          OBVIOUS
        <4>4. QED
          BY <4>1, <4>2, <4>3
      <3>3. QED
        BY <3>1, <3>2
    <2>3. QED
      BY <2>1, <2>2
  <1>6. CASE Execute
    BY <1>6 DEF Execute, write, collector
  <1>7. CASE DrainEvents
    BY <1>7 DEF DrainEvents, write, collector
  <1>8. CASE DispatchReady
    <2>1. stage = "dispatch" /\ unit = 0 /\ Warp_write = <<>>
      BY <1>8 DEF DispatchReady
    <2>2. stage' = "allocate"
      BY <1>1, <1>8, <2>1 DEF DispatchReady
    <2>3. Warp_write' = <<>> \/ \E w : Warp_write' = Append(<<>>, w)
      BY <1>8, <2>1 DEF DispatchReady
    <2>4. \A w : Append(<<>>, w) = <<w>>
      OBVIOUS
    <2>5. QED
      BY <2>2, <2>3, <2>4
  <1>9. CASE AllocateCu
    BY <1>9 DEF AllocateCu, write
  <1>10. CASE AllocateReads
    BY <1>10 DEF AllocateReads, ResetAllocation
  <1>11. CASE Schedule
    BY <1>11 DEF Schedule, write, collector
  <1>12. CASE Tick
    BY <1>12 DEF Tick, write, collector
  <1>13. CASE UNCHANGED vars
    BY <1>13 DEF vars, control, collector, write
  <1>14. QED
    BY <1>2, <1>3, <1>4, <1>5, <1>6, <1>7, <1>8, <1>9, <1>10, <1>11, <1>12, <1>13 DEF Next

(* writeback() never meets a written bank when there is one dispatch unit, *)
(* as in the shipped configuration: the result nobody looks at is always   *)
(* that the bank was idle.                                                 *)
THEOREM NoWriteLostCorrect ==
  ASSUME num_dispatch_units = 1
  PROVE  Spec => NoWriteLost
  <1> DEFINE Idle == Warp_write # <<>> /\ Warp_write' = Tail(Warp_write)
                       => register_bank(trace[Head(Warp_write)].dst) \notin written
  <1>1. ASSUME WriteInv, [Next]_vars PROVE [Idle]_vars
    <2> SUFFICES ASSUME Warp_write # <<>>, Warp_write' = Tail(Warp_write), Next
        PROVE  written = {}
      BY <1>1
    <2>1. PICK w : Warp_write = <<w>>
      BY <1>1 DEF WriteInv
    <2>2. Warp_write' # Warp_write
      <3>1. Tail(<<w>>) = <<>> /\ <<w>> # <<>>
        OBVIOUS
      <3>2. QED
        BY <2>1, <3>1
    <2>3. ~DispatchReady
      BY <1>1, <2>1 DEF WriteInv, DispatchReady
    <2>4. Writeback
      BY <2>2, <2>3 DEF Next, Feed, Finish, FillWarpTable, Execute, DrainEvents, AllocateCu,
         AllocateReads, Schedule, Tick, write
    <2>5. QED
      BY <1>1, <2>4 DEF WriteInv, Writeback
  <1> HIDE DEF Idle
  <1>2. Spec => [][Idle]_vars
    BY <1>1, WriteInit, WriteStep, PTL DEF Spec
  <1>3. QED
    BY <1>2 DEF NoWriteLost, Idle

-----------------------------------------------------------------------------
(* How often a warp occurs in a queue.                                     *)

Places(w, s) == {i \in DOMAIN s : s[i] = w}

(* The places are finitely many.                                           *)
LEMMA OccursType ==
  ASSUME NEW s \in Seq(Nat), NEW w
  PROVE  /\ IsFiniteSet(Places(w, s))
         /\ Occurs(w, s) = Cardinality(Places(w, s))
         /\ Occurs(w, s) \in Nat
  <1>1. IsFiniteSet(1 .. Len(s)) /\ Places(w, s) \subseteq 1 .. Len(s)
    BY FS_Interval DEF Places
  <1>2. IsFiniteSet(Places(w, s))
    BY <1>1, FS_Subset
  <1>3. QED
    BY <1>2, FS_CardinalityType DEF Places, Occurs

(* The empty queue.                                                        *)
LEMMA OccursEmpty == ASSUME NEW w PROVE Occurs(w, <<>>) = 0
  <1>1. {i \in DOMAIN <<>> : <<>>[i] = w} = {}
    OBVIOUS
  <1>2. QED
    BY <1>1, FS_EmptySet DEF Occurs

(* One queue after the other.                                              *)
LEMMA OccursConcat ==
  ASSUME NEW s \in Seq(Nat), NEW t \in Seq(Nat), NEW w
  PROVE  Occurs(w, s \o t) = Occurs(w, s) + Occurs(w, t)
  <1> DEFINE Shifted == {Len(s) + i : i \in Places(w, t)}
  <1>1. /\ s \o t \in Seq(Nat) /\ Len(s \o t) = Len(s) + Len(t)
        /\ \A i \in 1 .. Len(s) + Len(t) :
             (s \o t)[i] = IF i <= Len(s) THEN s[i] ELSE t[i - Len(s)]
    BY ConcatProperties
  <1>2. /\ Len(s) \in Nat /\ Len(t) \in Nat
        /\ DOMAIN s = 1 .. Len(s) /\ DOMAIN t = 1 .. Len(t)
        /\ DOMAIN (s \o t) = 1 .. Len(s) + Len(t)
    BY <1>1
  <1>3. Places(w, s \o t) = Places(w, s) \cup Shifted
    <2>1. ASSUME NEW i \in Places(w, s \o t) PROVE i \in Places(w, s) \cup Shifted
      <3>1. i \in 1 .. Len(s) + Len(t) /\ (s \o t)[i] = w
        BY <1>2 DEF Places
      <3>2. CASE i <= Len(s)
        BY <1>1, <1>2, <3>1, <3>2 DEF Places
      <3>3. CASE ~(i <= Len(s))
        <4>1. i - Len(s) \in 1 .. Len(t) /\ t[i - Len(s)] = w /\ i = Len(s) + (i - Len(s))
          BY <1>1, <1>2, <3>1, <3>3
        <4>2. QED
          BY <1>2, <4>1 DEF Places
      <3>4. QED
        BY <3>2, <3>3
    <2>2. ASSUME NEW i \in Places(w, s) PROVE i \in Places(w, s \o t)
      BY <1>1, <1>2 DEF Places
    <2>3. ASSUME NEW i \in Places(w, t) PROVE Len(s) + i \in Places(w, s \o t)
      <3>1. i \in 1 .. Len(t) /\ t[i] = w
        BY <1>2 DEF Places
      <3>2. /\ Len(s) + i \in 1 .. Len(s) + Len(t) /\ ~(Len(s) + i <= Len(s))
            /\ Len(s) + i - Len(s) = i
        BY <1>2, <3>1
      <3>3. QED
        BY <1>1, <1>2, <3>1, <3>2 DEF Places
    <2>4. QED
      BY <2>1, <2>2, <2>3
  <1>4. Places(w, s) \cap Shifted = {}
    BY <1>2 DEF Places
  <1>5. IsFiniteSet(Shifted) /\ Cardinality(Shifted) = Cardinality(Places(w, t))
    <2> DEFINE f == [i \in Places(w, t) |-> Len(s) + i]
    <2>1. f \in [Places(w, t) -> Shifted]
      OBVIOUS
    <2>2. \A i, j \in Places(w, t) : f[i] = f[j] => i = j
      BY <1>2 DEF Places
    <2>3. \A k \in Shifted : \E i \in Places(w, t) : f[i] = k
      OBVIOUS
    <2> HIDE DEF f, Shifted
    <2>4. f \in Bijection(Places(w, t), Shifted)
      BY <2>1, <2>2, <2>3 DEF Bijection, Injection, Surjection, IsInjective
    <2>5. ExistsBijection(Places(w, t), Shifted)
      BY <2>4 DEF ExistsBijection
    <2>6. QED
      BY <2>5, FS_Bijection, OccursType
  <1> HIDE DEF Shifted
  <1>6. Cardinality(Places(w, s) \cup Shifted)
          = Cardinality(Places(w, s)) + Cardinality(Places(w, t))
    <2>1. Cardinality(Places(w, s) \cup Shifted)
            = Cardinality(Places(w, s)) + Cardinality(Shifted) - Cardinality({})
      BY <1>4, <1>5, FS_Union, OccursType, SMTT(30)
    <2>2. Cardinality({}) = 0 /\ Cardinality(Places(w, s)) \in Nat
          /\ Cardinality(Places(w, t)) \in Nat
      BY FS_EmptySet, FS_CardinalityType, OccursType
    <2>3. QED
      BY <1>5, <2>1, <2>2
  <1>7. QED
    BY <1>1, <1>3, <1>6, OccursType

(* A queue of one.                                                         *)
LEMMA OccursOne == ASSUME NEW e \in Nat, NEW w PROVE Occurs(w, <<e>>) = One(e = w)
  <1>1. <<e>> \in Seq(Nat) /\ DOMAIN <<e>> = {1} /\ <<e>>[1] = e
    OBVIOUS
  <1>2. CASE e = w
    <2>1. Places(w, <<e>>) = {1}
      BY <1>1, <1>2 DEF Places
    <2>2. QED
      BY <1>1, <1>2, <2>1, FS_Singleton, OccursType, ZenonT(60) DEF One
  <1>3. CASE e # w
    <2>1. Places(w, <<e>>) = {}
      BY <1>1, <1>3 DEF Places
    <2>2. QED
      BY <1>1, <1>3, <2>1, FS_EmptySet, OccursType DEF One
  <1>4. QED
    BY <1>2, <1>3

(* The end of a queue.                                                     *)
LEMMA OccursAppend ==
  ASSUME NEW s \in Seq(Nat), NEW e \in Nat, NEW w
  PROVE  /\ Append(s, e) \in Seq(Nat)
         /\ Occurs(w, Append(s, e)) = Occurs(w, s) + One(e = w)
  <1>1. Append(s, e) = s \o <<e>> /\ <<e>> \in Seq(Nat) /\ Append(s, e) \in Seq(Nat)
    OBVIOUS
  <1>2. Occurs(w, s \o <<e>>) = Occurs(w, s) + Occurs(w, <<e>>)
    BY <1>1, OccursConcat
  <1>3. Occurs(w, <<e>>) = One(e = w)
    BY OccursOne
  <1>4. QED
    BY <1>1, <1>2, <1>3

(* The front of a queue.                                                   *)
LEMMA OccursTail ==
  ASSUME NEW s \in Seq(Nat), s # <<>>, NEW w
  PROVE  /\ Head(s) \in Nat /\ Tail(s) \in Seq(Nat)
         /\ Occurs(w, s) = One(Head(s) = w) + Occurs(w, Tail(s))
  <1>1. Head(s) \in Nat /\ Tail(s) \in Seq(Nat) /\ <<Head(s)>> \in Seq(Nat)
        /\ s = <<Head(s)>> \o Tail(s)
    OBVIOUS
  <1>2. Occurs(w, <<Head(s)>> \o Tail(s)) = Occurs(w, <<Head(s)>>) + Occurs(w, Tail(s))
    BY <1>1, OccursConcat
  <1>3. Occurs(w, <<Head(s)>>) = One(Head(s) = w)
    BY <1>1, OccursOne
  <1>4. QED
    BY <1>1, <1>2, <1>3

(* A queue cut in two.                                                     *)
LEMMA OccursCut ==
  ASSUME NEW s \in Seq(Nat), NEW n \in 0 .. Len(s), NEW w
  PROVE  Occurs(w, s) = Occurs(w, SubSeq(s, 1, n)) + Occurs(w, SubSeq(s, n + 1, Len(s)))
  <1>1. Len(s) \in Nat /\ 1 \in 1 .. Len(s) + 1 /\ n \in 1 - 1 .. Len(s) /\ Len(s) \in n .. Len(s)
    OBVIOUS
  <1>2. SubSeq(s, 1, n) \o SubSeq(s, n + 1, Len(s)) = SubSeq(s, 1, Len(s))
    BY <1>1, ConcatAdjacentSubSeq
  <1>3. SubSeq(s, 1, Len(s)) = s /\ SubSeq(s, 1, n) \in Seq(Nat) /\ SubSeq(s, n + 1, Len(s)) \in Seq(Nat)
    BY <1>1
  <1> DEFINE front == SubSeq(s, 1, n)
             back  == SubSeq(s, n + 1, Len(s))
  <1>4. Occurs(w, front \o back) = Occurs(w, front) + Occurs(w, back)
    <2>1. front \in Seq(Nat) /\ back \in Seq(Nat)
      BY <1>3
    <2> HIDE DEF front, back
    <2>2. QED
      BY <2>1, OccursConcat
  <1>5. QED
    BY <1>2, <1>3, <1>4

(* The n warps after the first k.                                          *)
LEMMA OccursNew ==
  ASSUME NEW k \in Nat, NEW n \in Nat, NEW w \in Nat
  PROVE  LET s == [i \in 1 .. n |-> k + i] IN
         s \in Seq(Nat) /\ Occurs(w, s) = One(k < w /\ w <= k + n)
  <1> DEFINE s == [i \in 1 .. n |-> k + i]
  <1>1. s \in Seq(Nat) /\ DOMAIN s = 1 .. n /\ \A i \in 1 .. n : s[i] = k + i
    OBVIOUS
  <1> HIDE DEF s
  <1>2. CASE k < w /\ w <= k + n
    <2>1. Places(w, s) = {w - k}
      BY <1>1, <1>2 DEF Places
    <2>2. Occurs(w, s) = 1
      BY <1>1, <2>1, FS_Singleton, OccursType
    <2>3. QED
      BY <1>1, <1>2, <2>2 DEF One, s
  <1>3. CASE ~(k < w /\ w <= k + n)
    <2>1. Places(w, s) = {}
      BY <1>1, <1>3 DEF Places
    <2>2. Occurs(w, s) = 0
      BY <1>1, <2>1, FS_EmptySet, OccursType
    <2>3. QED
      BY <1>1, <1>3, <2>2 DEF One, s
  <1>4. QED
    BY <1>2, <1>3

-----------------------------------------------------------------------------
(* The collectors.                                                         *)

(* Each collector is a record of what it holds.                            *)
CollectorTypes ==
  /\ DOMAIN m_cu = CollectorIds
  /\ \A c \in CollectorIds :
       m_cu[c] \in [warp : Nat, free : BOOLEAN, notReady : {m_cu[c].notReady}]

Holders(w) == {c \in Busy : m_cu[c].warp = w}

(* The holders of a warp are finitely many.                                *)
LEMMA HeldType ==
  /\ \A w : IsFiniteSet(Holders(w)) /\ Held(w) = Cardinality(Holders(w)) /\ Held(w) \in Nat
  /\ IsFiniteSet(CollectorIds) /\ CollectorIds \subseteq Nat
  <1>1. IsFiniteSet(CollectorIds) /\ CollectorIds \subseteq Nat
    <2>1. num_collector_units - 1 \in Int
      BY ArbiterAssumption
    <2>2. QED
      BY <2>1, FS_Interval DEF CollectorIds
  <1>2. ASSUME NEW w
        PROVE  IsFiniteSet(Holders(w)) /\ Held(w) = Cardinality(Holders(w)) /\ Held(w) \in Nat
    <2>1. Holders(w) \subseteq CollectorIds
      BY DEF Holders, Busy
    <2>2. IsFiniteSet(Holders(w))
      BY <1>1, <2>1, FS_Subset
    <2>3. QED
      BY <2>2, FS_CardinalityType DEF Holders, Held
  <1>3. QED
    BY <1>1, <1>2

(* When the holders stay, so does the count.                               *)
LEMMA HeldKept ==
  ASSUME \A w : Holders(w)' = Holders(w)
  PROVE  \A w : Held(w)' = Held(w)
  BY DEF Holders, Held

(* A set of collectors has a first one.                                    *)
LEMMA FirstExists ==
  ASSUME NEW S, S \subseteq CollectorIds, S # {}
  PROVE  First(S) \in S
  <1> DEFINE R == {ss \in Nat \X Nat : ss[1] < ss[2]}
  <1>1. S \subseteq Nat
    BY HeldType
  <1>2. PICK x \in S : \A y \in S : ~(<<y, x>> \in R)
    <2>1. IsWellFoundedOn(R, Nat)
      BY NatLessThanWellFounded DEF OpToRel
    <2> HIDE DEF R
    <2>2. QED
      BY <1>1, <2>1, WFMin
  <1>3. ASSUME NEW y \in S PROVE x <= y
    <2>1. x \in Nat /\ y \in Nat /\ <<y, x>> \in Nat \X Nat
      BY <1>1
    <2>2. ~(y < x)
      BY <1>2, <2>1
    <2>3. QED
      BY <2>1, <2>2
  <1>4. QED
    BY <1>3 DEF First

(* A busy collector lets its warp go.                                      *)
LEMMA HeldRelease ==
  ASSUME CollectorTypes, NEW c \in Busy,
         m_cu' = [m_cu EXCEPT ![c].free = TRUE]
  PROVE  /\ CollectorTypes'
         /\ \A w : Held(w)' \in Nat /\ Held(w) = Held(w)' + One(m_cu[c].warp = w)
  <1>1. c \in CollectorIds
    BY DEF Busy
  <1>2. /\ DOMAIN m_cu' = CollectorIds
        /\ m_cu'[c] \in [warp : {m_cu[c].warp}, free : {TRUE}, notReady : {m_cu[c].notReady}]
        /\ m_cu[c].warp \in Nat
        /\ \A d \in CollectorIds : d # c => m_cu'[d] = m_cu[d]
    <2>1. /\ DOMAIN m_cu' = CollectorIds
          /\ m_cu'[c] = [m_cu[c] EXCEPT !.free = TRUE]
          /\ \A d \in CollectorIds : d # c => m_cu'[d] = m_cu[d]
      BY <1>1 DEF CollectorTypes
    <2>2. ASSUME NEW V, NEW r \in [warp : Nat, free : BOOLEAN, notReady : V]
          PROVE  /\ [r EXCEPT !.free = TRUE] \in
                      [warp : {r.warp}, free : {TRUE}, notReady : {r.notReady}]
                 /\ r.warp \in Nat
      OBVIOUS
    <2>3. QED
      BY <1>1, <2>1, <2>2 DEF CollectorTypes
  <1>3. CollectorTypes'
    BY <1>2 DEF CollectorTypes
  <1>4. ASSUME NEW w PROVE Holders(w)' = Holders(w) \ {c}
    BY <1>1, <1>2 DEF Holders, Busy
  <1>5. ASSUME NEW w PROVE Held(w)' \in Nat /\ Held(w) = Held(w)' + One(m_cu[c].warp = w)
    <2>1. Held(w)' = Cardinality(Holders(w) \ {c}) /\ Held(w) = Cardinality(Holders(w))
      BY <1>4 DEF Held, Holders
    <2>2. c \in Holders(w) <=> m_cu[c].warp = w
      BY DEF Holders
    <2>3. Cardinality(Holders(w) \ {c}) =
            IF c \in Holders(w) THEN Held(w) - 1 ELSE Held(w)
      BY <2>1, HeldType, FS_RemoveElement
    <2>4. Cardinality(Holders(w) \ {c}) \in Nat
      BY HeldType, FS_RemoveElement, FS_CardinalityType
    <2>5. QED
      BY <2>1, <2>2, <2>3, <2>4, HeldType DEF One
  <1>6. QED
    BY <1>3, <1>5

(* A free collector takes a warp.                                          *)
LEMMA HeldTake ==
  ASSUME CollectorTypes, NEW c \in FreeCollectors, NEW v \in Nat, NEW ops,
         m_cu' = [m_cu EXCEPT ![c] = [warp |-> v, free |-> FALSE, notReady |-> ops]]
  PROVE  /\ CollectorTypes'
         /\ \A w : Held(w)' = Held(w) + One(v = w)
  <1>1. c \in CollectorIds /\ c \notin Busy
    BY DEF FreeCollectors, Busy
  <1>2. /\ DOMAIN m_cu' = CollectorIds
        /\ m_cu'[c] = [warp |-> v, free |-> FALSE, notReady |-> ops]
        /\ \A d \in CollectorIds : d # c => m_cu'[d] = m_cu[d]
    BY <1>1 DEF CollectorTypes
  <1>3. CollectorTypes'
    BY <1>2 DEF CollectorTypes
  <1>4. ASSUME NEW w PROVE Held(w)' = Held(w) + One(v = w)
    <2>1. c \notin Holders(w)
      BY <1>1 DEF Holders
    <2>2. Held(w)' = Cardinality(Holders(w)') /\ Held(w) = Cardinality(Holders(w))
      BY DEF Held, Holders
    <2>3. CASE v = w
      <3>1. Holders(w)' = Holders(w) \cup {c}
        BY <1>1, <1>2, <2>3 DEF Holders, Busy
      <3>2. Cardinality(Holders(w) \cup {c}) = Cardinality(Holders(w)) + 1
        BY <2>1, HeldType, FS_AddElement
      <3>3. QED
        BY <2>2, <2>3, <3>1, <3>2 DEF One
    <2>4. CASE v # w
      <3>1. Holders(w)' = Holders(w)
        BY <1>1, <1>2, <2>4 DEF Holders, Busy
      <3>2. QED
        BY <2>2, <2>4, <3>1, HeldType DEF One
    <2>5. QED
      BY <2>3, <2>4
  <1>5. QED
    BY <1>3, <1>4

-----------------------------------------------------------------------------
(* The invariant.                                                          *)

(* What is behind the warp table.                                          *)
PlaceTypes ==
  /\ CollectorTypes
  /\ complete \in Seq(Nat) /\ executed \in Seq(Nat)
  /\ fetched \in Nat
  /\ latch \in [warp : Nat, completesAt : {latch.completesAt}]

(* What is left in inputToPipeline found the warp table full, and a cycle  *)
(* takes one warp from the table: a kernel does not end with a warp left,  *)
(* so clearing inputToPipeline loses nothing.                              *)
FullTable ==
  input # <<>> =>
    /\ stage \in BeforeAllocate => Len(WarpTable) = WarpTableSize
    /\ stage \in {"reads", "schedule", "tick"} => Len(WarpTable) >= WarpTableSize - 1

PlaceInv == FeedInv /\ PlaceTypes /\ FullTable /\ OnePlace

Copies(w) ==
  Occurs(w, input) + Occurs(w, WarpTable) + Held(w) + Occurs(w, complete)
    + One(fetched = w) + One(latch.warp = w) + Occurs(w, executed)

(* A warp is a positive number and is counted with natural numbers.        *)
LEMMA CopiesType ==
  ASSUME PlaceInv, NEW w \in Warps
  PROVE  /\ w \in Nat \ {0}
         /\ Occurs(w, input) \in Nat /\ Occurs(w, WarpTable) \in Nat /\ Held(w) \in Nat
         /\ Occurs(w, complete) \in Nat /\ Occurs(w, executed) \in Nat
         /\ Copies(w) = One(w <= fed) /\ fed \in Nat
  <1>1. w \in Nat \ {0}
    BY PipelineAssumption DEF Warps
  <1>2. /\ input \in Seq(Nat) /\ WarpTable \in Seq(Nat) /\ complete \in Seq(Nat)
        /\ executed \in Seq(Nat) /\ fed \in Nat
    BY DEF PlaceInv, FeedInv, QueueTypes, PlaceTypes
  <1>3. QED
    BY <1>1, <1>2, OccursType, HeldType DEF PlaceInv, OnePlace, Copies

(* All is empty.                                                           *)
LEMMA PlaceInit == Init => PlaceInv
  <1> SUFFICES ASSUME Init PROVE PlaceInv
    OBVIOUS
  <1>1. FeedInv
    BY FeedInit
  <1>2. PlaceTypes
    BY DEF Init, PlaceTypes, CollectorTypes, Unused, Empty, NoWarp
  <1>3. FullTable
    BY DEF Init, FullTable
  <1>4. OnePlace
    <2> SUFFICES ASSUME NEW w \in Warps PROVE Copies(w) = One(w <= fed)
      BY DEF OnePlace, Copies
    <2>1. w \in Nat \ {0}
      BY PipelineAssumption DEF Warps
    <2>2. Held(w) = 0
      <3>1. Holders(w) = {}
        BY DEF Init, Holders, Busy, Unused
      <3>2. QED
        BY <3>1, HeldType, FS_EmptySet
    <2>3. QED
      BY <2>1, <2>2, OccursEmpty DEF Init, Copies, One, Empty, NoWarp
  <1>5. QED
    BY <1>1, <1>2, <1>3, <1>4 DEF PlaceInv

(* Steps that move no warp.                                                *)
LEMMA PlaceFrame ==
  ASSUME PlaceInv,
         UNCHANGED <<input, WarpTable, complete, fetched, executed, fed>>,
         latch' \in [warp : {latch.warp}, completesAt : {latch'.completesAt}],
         CollectorTypes', \A w : Held(w)' = Held(w),
         stage' \in BeforeAllocate => stage \in BeforeAllocate,
         stage' \in {"reads", "schedule", "tick"} =>
           stage \in BeforeAllocate \cup {"reads", "schedule", "tick"}
  PROVE  PlaceTypes' /\ FullTable' /\ OnePlace'
  <1>1. latch'.warp = latch.warp /\ latch.warp \in Nat
    BY DEF PlaceInv, PlaceTypes
  <1>2. PlaceTypes'
    BY <1>1 DEF PlaceInv, PlaceTypes
  <1>3. FullTable'
    <2>1. WarpTableSize \in Nat
      BY PipelineAssumption
    <2>2. QED
      BY <2>1 DEF PlaceInv, FullTable
  <1>4. OnePlace'
    BY <1>1 DEF PlaceInv, OnePlace
  <1>5. QED
    BY <1>2, <1>3, <1>4

(* run() enqueues the next warps of the trace.                             *)
LEMMA PlaceFeed == PlaceInv /\ Feed => PlaceTypes' /\ FullTable' /\ OnePlace'
  <1> SUFFICES ASSUME PlaceInv, Feed PROVE PlaceTypes' /\ FullTable' /\ OnePlace'
    OBVIOUS
  <1>1. PICK n \in 0 .. KernelSize * (kernel + 1) - fed :
          /\ input' = input \o [i \in 1 .. n |-> fed + i]
          /\ fed' = fed + n
          /\ stage' \in {"exited", "feed", "fill"}
    BY DEF Feed
  <1>2. n \in Nat /\ fed \in Nat /\ input \in Seq(Nat)
    <2>1. KernelSize \in Nat /\ kernel \in Nat /\ fed \in Nat /\ input \in Seq(Nat)
      BY PipelineAssumption DEF PlaceInv, FeedInv, QueueTypes
    <2>2. KernelSize * (kernel + 1) \in Nat
      BY <2>1
    <2>3. QED
      BY <1>1, <2>1, <2>2
  <1>3. UNCHANGED <<WarpTable, m_cu, complete, fetched, latch, executed>>
    BY DEF Feed, collector, backend
  <1>4. PlaceTypes' /\ FullTable'
    BY <1>1, <1>3 DEF PlaceInv, PlaceTypes, CollectorTypes, FullTable, BeforeAllocate
  <1>5. \A w : Held(w)' = Held(w)
    BY <1>3 DEF Held, Busy
  <1>6. ASSUME NEW w \in Warps PROVE Copies(w)' = One(w <= fed)'
    <2> DEFINE new == [i \in 1 .. n |-> fed + i]
    <2>1. new \in Seq(Nat) /\ Occurs(w, new) = One(fed < w /\ w <= fed + n)
      BY <1>2, CopiesType, OccursNew
    <2>2. Occurs(w, new) \in Nat
      BY <2>1, OccursType
    <2> HIDE DEF new
    <2>3. Occurs(w, input)' = Occurs(w, input) + Occurs(w, new)
      BY <1>1, <1>2, <2>1, OccursConcat DEF new
    <2>4. Copies(w)' = Copies(w) + Occurs(w, new)
      BY <1>3, <1>5, <2>2, <2>3, CopiesType DEF Copies, One
    <2>5. QED
      BY <1>1, <1>2, <2>1, <2>4, CopiesType DEF One
  <1>7. QED
    BY <1>4, <1>6 DEF OnePlace, Copies

(* WarpTable() moves the front of the queue to the end of the table.       *)
LEMMA PlaceFill == PlaceInv /\ FillWarpTable => PlaceTypes' /\ FullTable' /\ OnePlace'
  <1> SUFFICES ASSUME PlaceInv, FillWarpTable PROVE PlaceTypes' /\ FullTable' /\ OnePlace'
    OBVIOUS
  <1> DEFINE room == WarpTableSize - Len(WarpTable)
             n    == IF Len(input) < room THEN Len(input) ELSE room
             new  == SubSeq(input, 1, n)
             rest == SubSeq(input, n + 1, Len(input))
  <1>1. /\ input \in Seq(Nat) /\ WarpTable \in Seq(Nat)
        /\ Len(input) \in Nat /\ Len(WarpTable) \in Nat
        /\ WarpTableSize \in Nat /\ Len(WarpTable) <= WarpTableSize
    BY PipelineAssumption DEF PlaceInv, FeedInv, QueueTypes
  <1>2. n \in 0 .. Len(input) /\ (n < Len(input) => n = room)
    BY <1>1
  <1>3. /\ new \in Seq(Nat) /\ rest \in Seq(Nat) /\ Len(new) = n
        /\ n = Len(input) => rest = <<>>
    BY <1>1, <1>2
  <1>4. WarpTable' = WarpTable \o new /\ input' = rest /\ stage' = "writeback"
    BY DEF FillWarpTable
  <1>5. UNCHANGED <<m_cu, complete, fetched, latch, executed, fed>>
    BY DEF FillWarpTable, collector, backend
  <1>6. PlaceTypes'
    BY <1>5 DEF PlaceInv, PlaceTypes, CollectorTypes
  <1> HIDE DEF room, n, new, rest
  <1>7. FullTable'
    <2>1. Len(WarpTable \o new) = Len(WarpTable) + Len(new)
      BY <1>1, <1>3, ConcatProperties
    <2>2. rest # <<>> => Len(WarpTable \o new) = WarpTableSize
      BY <1>1, <1>2, <1>3, <2>1 DEF room
    <2>3. QED
      BY <1>1, <1>4, <2>2 DEF FullTable
  <1>8. \A w : Held(w)' = Held(w)
    BY <1>5 DEF Held, Busy
  <1>9. ASSUME NEW w \in Warps PROVE Copies(w)' = One(w <= fed)'
    <2>1. Occurs(w, input) = Occurs(w, new) + Occurs(w, rest)
      BY <1>1, <1>2, OccursCut DEF new, rest
    <2>2. Occurs(w, WarpTable)' = Occurs(w, WarpTable) + Occurs(w, new)
      BY <1>1, <1>3, <1>4, OccursConcat
    <2>3. Occurs(w, new) \in Nat /\ Occurs(w, rest) \in Nat
      BY <1>3, OccursType
    <2>4. Copies(w)' = Copies(w)
      BY <1>4, <1>5, <1>8, <2>1, <2>2, <2>3, CopiesType DEF Copies, One
    <2>5. QED
      BY <1>5, <2>4, CopiesType
  <1>10. QED
    BY <1>6, <1>7, <1>9 DEF OnePlace, Copies

(* performExecute() takes the instruction out of the latch.                *)
LEMMA PlaceExecute == PlaceInv /\ Execute => PlaceTypes' /\ FullTable' /\ OnePlace'
  <1> SUFFICES ASSUME PlaceInv, Execute PROVE PlaceTypes' /\ FullTable' /\ OnePlace'
    OBVIOUS
  <1>1. /\ UNCHANGED <<input, WarpTable, m_cu, complete, fetched, fed>>
        /\ stage = "execute" /\ stage' = "drain"
    BY DEF Execute, feedvars, collector
  <1>2. \A w : Held(w)' = Held(w)
    BY <1>1 DEF Held, Busy
  <1>3. latch.warp \in Nat /\ executed \in Seq(Nat)
    BY DEF PlaceInv, PlaceTypes
  <1>4. CollectorTypes'
    BY <1>1 DEF PlaceInv, PlaceTypes, CollectorTypes
  <1>5. FullTable'
    BY <1>1 DEF PlaceInv, FullTable, BeforeAllocate
  <1>6. CASE latch' = Empty /\ executed' = Append(executed, latch.warp)
    <2>1. PlaceTypes'
      BY <1>1, <1>3, <1>4, <1>6 DEF PlaceInv, PlaceTypes, Empty, NoWarp
    <2>2. ASSUME NEW w \in Warps PROVE Copies(w)' = One(w <= fed)'
      <3>1. Occurs(w, executed)' = Occurs(w, executed) + One(latch.warp = w)
        BY <1>3, <1>6, OccursAppend
      <3>2. latch'.warp # w
        BY <1>6, CopiesType DEF Empty, NoWarp
      <3>3. Copies(w)' = Copies(w)
        BY <1>1, <1>2, <3>1, <3>2, CopiesType DEF Copies, One
      <3>4. QED
        BY <1>1, <3>3, CopiesType
    <2>3. QED
      BY <1>5, <2>1, <2>2 DEF OnePlace, Copies
  <1>7. CASE UNCHANGED <<latch, executed>>
    <2>1. latch' \in [warp : {latch.warp}, completesAt : {latch'.completesAt}]
      BY <1>7 DEF PlaceInv, PlaceTypes
    <2>2. QED
      BY <1>1, <1>2, <1>4, <1>7, <2>1, PlaceFrame DEF BeforeAllocate
  <1>8. QED
    BY <1>6, <1>7 DEF Execute

(* A response changes at most when the instruction in the latch completes. *)
LEMMA PlaceDrain == PlaceInv /\ DrainEvents => PlaceTypes' /\ FullTable' /\ OnePlace'
  <1> SUFFICES ASSUME PlaceInv, DrainEvents PROVE PlaceTypes' /\ FullTable' /\ OnePlace'
    OBVIOUS
  <1>1. /\ UNCHANGED <<input, WarpTable, m_cu, complete, fetched, executed, fed>>
        /\ stage = "drain" /\ stage' \in {"dispatch", "schedule"}
    BY DEF DrainEvents, feedvars
  <1>2. \A w : Held(w)' = Held(w)
    BY <1>1 DEF Held, Busy
  <1>3. CollectorTypes'
    BY <1>1 DEF PlaceInv, PlaceTypes, CollectorTypes
  <1>4. latch' \in [warp : {latch.warp}, completesAt : {latch'.completesAt}]
    <2>1. latch' \in {latch, [latch EXCEPT !.completesAt = clock]}
      BY DEF DrainEvents
    <2>2. ASSUME NEW V, NEW r \in [warp : Nat, completesAt : V], NEW t
          PROVE  [r EXCEPT !.completesAt = t] \in [warp : {r.warp}, completesAt : {t}]
      OBVIOUS
    <2>3. CASE latch' = latch
      BY <2>3 DEF PlaceInv, PlaceTypes
    <2>4. CASE latch' = [latch EXCEPT !.completesAt = clock]
      <3>1. latch' \in [warp : {latch.warp}, completesAt : {clock}]
        BY <2>2, <2>4 DEF PlaceInv, PlaceTypes
      <3>2. QED
        BY <3>1
    <2>5. QED
      BY <2>1, <2>3, <2>4
  <1>5. QED
    BY <1>1, <1>2, <1>3, <1>4, PlaceFrame DEF BeforeAllocate

(* dispatch_ready_cu() moves the warp of a collector to the end of the     *)
(* complete warps.                                                         *)
LEMMA PlaceDispatch == PlaceInv /\ DispatchReady => PlaceTypes' /\ FullTable' /\ OnePlace'
  <1> SUFFICES ASSUME PlaceInv, DispatchReady PROVE PlaceTypes' /\ FullTable' /\ OnePlace'
    OBVIOUS
  <1>1. /\ UNCHANGED <<input, WarpTable, fetched, latch, executed, fed>>
        /\ stage = "dispatch" /\ stage' \in {"dispatch", "allocate"}
    BY DEF DispatchReady, feedvars
  <1>2. FullTable'
    BY <1>1 DEF PlaceInv, FullTable, BeforeAllocate
  <1>3. CASE UNCHANGED <<m_cu, complete>>
    <2>1. (\A w : Held(w)' = Held(w)) /\ CollectorTypes'
      BY <1>3 DEF Held, Busy, PlaceInv, PlaceTypes, CollectorTypes
    <2>2. latch' \in [warp : {latch.warp}, completesAt : {latch'.completesAt}]
      BY <1>1 DEF PlaceInv, PlaceTypes
    <2>3. QED
      BY <1>1, <1>3, <2>1, <2>2, PlaceFrame DEF BeforeAllocate
  <1>4. ASSUME NEW c \in Busy,
               m_cu' = [m_cu EXCEPT ![c].free = TRUE],
               complete' = Append(complete, m_cu[c].warp)
        PROVE  PlaceTypes' /\ FullTable' /\ OnePlace'
    <2>1. m_cu[c].warp \in Nat /\ complete \in Seq(Nat)
      BY DEF PlaceInv, PlaceTypes, CollectorTypes, Busy
    <2>2. CollectorTypes' /\ \A w : Held(w)' \in Nat /\ Held(w) = Held(w)' + One(m_cu[c].warp = w)
      BY <1>4, HeldRelease DEF PlaceInv, PlaceTypes
    <2>3. \A w : /\ Append(complete, m_cu[c].warp) \in Seq(Nat)
                 /\ Occurs(w, complete)' = Occurs(w, complete) + One(m_cu[c].warp = w)
      BY <1>4, <2>1, OccursAppend
    <2>4. PlaceTypes'
      BY <1>1, <1>4, <2>2, <2>3 DEF PlaceInv, PlaceTypes
    <2>5. ASSUME NEW w \in Warps PROVE Copies(w)' = One(w <= fed)'
      <3>1. /\ Held(w)' \in Nat /\ Held(w) = Held(w)' + One(m_cu[c].warp = w)
            /\ Occurs(w, complete)' = Occurs(w, complete) + One(m_cu[c].warp = w)
        BY <2>2, <2>3
      <3>2. Copies(w)' = Copies(w)
        BY <1>1, <3>1, CopiesType DEF Copies, One
      <3>3. QED
        BY <1>1, <3>2, CopiesType
    <2>6. QED
      BY <1>2, <2>4, <2>5 DEF OnePlace, Copies
  <1>5. ASSUME NEW c \in CollectorIds, FirstReady(unit, c), m_cu[c] # Unused
        PROVE  c \in Busy
    BY <1>5 DEF FirstReady, Ready, Busy
  <1>6. QED
    BY <1>3, <1>4, <1>5 DEF DispatchReady

(* allocate_cu() moves the first warp of the table to a free collector.    *)
LEMMA PlaceAllocate == PlaceInv /\ AllocateCu => PlaceTypes' /\ FullTable' /\ OnePlace'
  <1> SUFFICES ASSUME PlaceInv, AllocateCu PROVE PlaceTypes' /\ FullTable' /\ OnePlace'
    OBVIOUS
  <1>1. /\ UNCHANGED <<input, complete, fetched, latch, executed, fed>>
        /\ stage = "allocate" /\ WarpTable \in Seq(Nat) /\ WarpTable # <<>>
        /\ stage' = "reads"
    BY DEF AllocateCu, feedvars, backend, PlaceInv, FeedInv, QueueTypes, BeforeAllocate
  <1>2. Len(WarpTable) \in Nat /\ WarpTableSize \in Nat /\ Len(Tail(WarpTable)) = Len(WarpTable) - 1
    BY <1>1, PipelineAssumption
  <1>3. CASE UNCHANGED <<WarpTable, m_cu>>
    <2>1. (\A w : Held(w)' = Held(w)) /\ CollectorTypes'
      BY <1>3 DEF Held, Busy, PlaceInv, PlaceTypes, CollectorTypes
    <2>2. latch' \in [warp : {latch.warp}, completesAt : {latch'.completesAt}]
      BY <1>1 DEF PlaceInv, PlaceTypes
    <2>3. QED
      BY <1>1, <1>3, <2>1, <2>2, PlaceFrame DEF BeforeAllocate
  <1>4. CASE FreeCollectors # {}
    <2> DEFINE c == First(FreeCollectors)
               v == Head(WarpTable)
    <2>1. c \in FreeCollectors
      BY <1>4, FirstExists DEF FreeCollectors
    <2>2. /\ WarpTable' = Tail(WarpTable)
          /\ m_cu' = [m_cu EXCEPT ![c] =
                        [warp |-> v, free |-> FALSE, notReady |-> Operands(v)]]
      BY <1>1, <1>4 DEF AllocateCu
    <2>3. /\ v \in Nat
          /\ \A w : Occurs(w, WarpTable) = One(v = w) + Occurs(w, Tail(WarpTable))
      BY <1>1, OccursTail
    <2> HIDE DEF c, v
    <2>4. CollectorTypes' /\ \A w : Held(w)' = Held(w) + One(v = w)
      BY <2>1, <2>2, <2>3, HeldTake, ZenonT(60) DEF PlaceInv, PlaceTypes
    <2>5. PlaceTypes'
      BY <1>1, <2>4 DEF PlaceInv, PlaceTypes
    <2>6. FullTable'
      BY <1>1, <1>2, <2>2 DEF PlaceInv, FullTable, BeforeAllocate
    <2>7. ASSUME NEW w \in Warps PROVE Copies(w)' = One(w <= fed)'
      <3>1. /\ Occurs(w, WarpTable)' \in Nat
            /\ Occurs(w, WarpTable) = One(v = w) + Occurs(w, WarpTable)'
            /\ Held(w)' = Held(w) + One(v = w)
        BY <1>1, <2>2, <2>3, <2>4, OccursTail, OccursType
      <3>2. Copies(w)' = Copies(w)
        BY <1>1, <3>1, CopiesType, SMTT(30) DEF Copies, One
      <3>3. QED
        BY <1>1, <3>2, CopiesType
    <2>8. QED
      BY <2>5, <2>6, <2>7 DEF OnePlace, Copies
  <1>5. QED
    BY <1>3, <1>4 DEF AllocateCu

(* allocate_reads() changes the operands a collector waits for, not its    *)
(* warp.                                                                   *)
LEMMA PlaceReads == PlaceInv /\ AllocateReads => PlaceTypes' /\ FullTable' /\ OnePlace'
  <1> SUFFICES ASSUME PlaceInv, AllocateReads PROVE PlaceTypes' /\ FullTable' /\ OnePlace'
    OBVIOUS
  <1>1. /\ UNCHANGED <<input, WarpTable, complete, fetched, latch, executed, fed>>
        /\ stage = "reads" /\ stage' = "schedule"
    BY DEF AllocateReads, feedvars, backend
  <1> DEFINE ops     == {Head(m_queue[b]) : b \in {g[1] : g \in Matching(Requested, written, pri)}}
             Got(c)  == {op[2] : op \in {o \in ops : o[1] = c}}
             Rest(c) == m_cu[c].notReady \ Got(c)
  <1>2. m_cu' = [c \in CollectorIds |-> [m_cu[c] EXCEPT !.notReady = Rest(c)]]
    BY DEF AllocateReads
  <1> HIDE DEF Rest
  <1>3. /\ DOMAIN m_cu' = CollectorIds
        /\ \A c \in CollectorIds :
             /\ m_cu'[c] \in [warp : {m_cu[c].warp}, free : {m_cu[c].free}, notReady : {Rest(c)}]
             /\ m_cu[c].warp \in Nat /\ m_cu[c].free \in BOOLEAN
    <2>1. ASSUME NEW V, NEW r \in [warp : Nat, free : BOOLEAN, notReady : V], NEW n
          PROVE  /\ [r EXCEPT !.notReady = n] \in [warp : {r.warp}, free : {r.free}, notReady : {n}]
                 /\ r.warp \in Nat /\ r.free \in BOOLEAN
      OBVIOUS
    <2>2. \A c \in CollectorIds : m_cu'[c] = [m_cu[c] EXCEPT !.notReady = Rest(c)]
      BY <1>2
    <2>3. DOMAIN m_cu' = CollectorIds
      BY <1>2
    <2>4. QED
      BY <2>1, <2>2, <2>3 DEF PlaceInv, PlaceTypes, CollectorTypes
  <1>4. CollectorTypes'
    BY <1>3 DEF CollectorTypes
  <1>5. \A w : Held(w)' = Held(w)
    <2>1. \A w : Holders(w)' = Holders(w)
      BY <1>3 DEF Holders, Busy
    <2>2. QED
      BY <2>1, HeldKept
  <1>6. latch' \in [warp : {latch.warp}, completesAt : {latch'.completesAt}]
    BY <1>1 DEF PlaceInv, PlaceTypes
  <1>7. QED
    BY <1>1, <1>4, <1>5, <1>6, PlaceFrame DEF BeforeAllocate

(* performSchedule() moves the fetched instruction to the latch, which is  *)
(* empty, and the first complete warp is fetched in its place.             *)
LEMMA PlaceSchedule == PlaceInv /\ Schedule => PlaceTypes' /\ FullTable' /\ OnePlace'
  <1> SUFFICES ASSUME PlaceInv, Schedule PROVE PlaceTypes' /\ FullTable' /\ OnePlace'
    OBVIOUS
  <1>1. /\ UNCHANGED <<input, WarpTable, m_cu, executed, fed>>
        /\ stage = "schedule" /\ stage' = "tick"
    BY DEF Schedule, feedvars, collector
  <1>2. /\ fetched \in Nat /\ complete \in Seq(Nat)
        /\ latch \in [warp : Nat, completesAt : {latch.completesAt}]
    BY DEF PlaceInv, PlaceTypes
  <1>3. (\A w : Held(w)' = Held(w)) /\ CollectorTypes' /\ executed' \in Seq(Nat)
    BY <1>1 DEF Held, Busy, PlaceInv, PlaceTypes, CollectorTypes
  <1>4. FullTable'
    BY <1>1 DEF PlaceInv, FullTable, BeforeAllocate
  <1>5. CASE UNCHANGED <<complete, fetched, latch>>
    <2>1. latch' \in [warp : {latch.warp}, completesAt : {latch'.completesAt}]
      BY <1>2, <1>5
    <2>2. QED
      BY <1>1, <1>3, <1>5, <2>1, PlaceFrame DEF BeforeAllocate
  <1>6. CASE /\ complete # <<>> /\ latch = Empty
             /\ complete' = Tail(complete) /\ fetched' = Head(complete)
    <2>1. \A w : /\ fetched' \in Nat /\ complete' \in Seq(Nat)
                 /\ Occurs(w, complete) = One(fetched' = w) + Occurs(w, complete')
                 /\ Occurs(w, complete') \in Nat
      BY <1>2, <1>6, OccursTail, OccursType
    <2>2. latch' \in [warp : {fetched}, completesAt : {latch'.completesAt}]
      <3>1. CASE fetched = NoWarp
        BY <1>6, <3>1 DEF Schedule, Empty
      <3>2. CASE fetched # NoWarp
        <4>1. latch' = [warp |-> fetched,
                        completesAt |-> clock + Latency[trace[fetched].type]]
          BY <1>6, <3>2 DEF Schedule
        <4>2. QED
          BY <4>1
      <3>3. QED
        BY <3>1, <3>2
    <2>3. latch.warp = 0
      BY <1>6 DEF Empty, NoWarp
    <2>4. PlaceTypes'
      BY <1>2, <1>3, <2>1, <2>2 DEF PlaceTypes
    <2>5. ASSUME NEW w \in Warps PROVE Copies(w)' = One(w <= fed)'
      <3>1. w # 0 /\ latch'.warp = fetched
        BY <2>2, CopiesType
      <3>2. /\ Occurs(w, complete) = One(fetched' = w) + Occurs(w, complete)'
            /\ Occurs(w, complete)' \in Nat
        BY <2>1
      <3>3. Copies(w)' = Copies(w)
        BY <1>1, <1>3, <2>3, <3>1, <3>2, CopiesType DEF Copies, One
      <3>4. QED
        BY <1>1, <3>3, CopiesType
    <2>6. QED
      BY <1>4, <2>4, <2>5 DEF OnePlace, Copies
  <1>7. QED
    BY <1>5, <1>6 DEF Schedule

(* initialize() clears inputToPipeline at the end of a kernel: nothing is  *)
(* left in it.                                                             *)
LEMMA PlaceTick == PlaceInv /\ Tick => PlaceTypes' /\ FullTable' /\ OnePlace'
  <1> SUFFICES ASSUME PlaceInv, Tick PROVE PlaceTypes' /\ FullTable' /\ OnePlace'
    OBVIOUS
  <1>1. /\ UNCHANGED <<WarpTable, m_cu, complete, fetched, latch, executed, fed>>
        /\ stage = "tick" /\ stage' \in {"feed", "fill", "done"}
        /\ input' \in {input, <<>>}
    BY DEF Tick, collector, backend
  <1>2. input' = input
    <2>1. input' # input => WarpTable = <<>>
      BY DEF Tick, CyclesGoOn
    <2>2. WarpTable = <<>> => input = <<>>
      <3>1. WarpTableSize \in Nat \ {0, 1} /\ Len(<<>>) = 0
        BY PipelineAssumption
      <3>2. QED
        BY <1>1, <3>1 DEF PlaceInv, FullTable
    <2>3. QED
      BY <1>1, <2>1, <2>2
  <1>3. (\A w : Held(w)' = Held(w)) /\ CollectorTypes'
    BY <1>1 DEF Held, Busy, PlaceInv, PlaceTypes, CollectorTypes
  <1>4. latch' \in [warp : {latch.warp}, completesAt : {latch'.completesAt}]
    BY <1>1 DEF PlaceInv, PlaceTypes
  <1>5. QED
    BY <1>1, <1>2, <1>3, <1>4, PlaceFrame DEF BeforeAllocate

(* Nothing is lost and nothing appears twice in any step.                  *)
LEMMA PlaceInductive == PlaceInv /\ [Next]_vars => PlaceInv'
  <1> SUFFICES ASSUME PlaceInv, [Next]_vars PROVE PlaceInv'
    OBVIOUS
  <1>1. FeedInv'
    BY FeedInductive DEF PlaceInv
  <1>2. SUFFICES PlaceTypes' /\ FullTable' /\ OnePlace'
    BY <1>1 DEF PlaceInv
  <1> DEFINE SameLatch == latch' \in [warp : {latch.warp}, completesAt : {latch'.completesAt}]
             SameHeld  == CollectorTypes' /\ \A w : Held(w)' = Held(w)
  <1>3. ASSUME m_cu' = m_cu PROVE SameHeld
    BY <1>3 DEF Held, Busy, PlaceInv, PlaceTypes, CollectorTypes
  <1>4. ASSUME latch' = latch PROVE SameLatch
    BY <1>4 DEF PlaceInv, PlaceTypes
  <1>5. CASE Finish
    <2>1. UNCHANGED <<input, WarpTable, m_cu, complete, fetched, latch, executed, fed>>
          /\ stage' = "fill"
      BY <1>5 DEF Finish, feedvars, collector, backend
    <2>2. QED
      BY <2>1, <1>3, <1>4, PlaceFrame DEF BeforeAllocate
  <1>6. CASE Writeback
    <2>1. UNCHANGED <<input, WarpTable, m_cu, complete, fetched, latch, executed, fed>>
          /\ stage = "writeback" /\ stage' = "execute"
      BY <1>6 DEF Writeback, feedvars, collector, backend
    <2>2. QED
      BY <2>1, <1>3, <1>4, PlaceFrame DEF BeforeAllocate
  <1>7. CASE UNCHANGED vars
    <2>1. UNCHANGED <<stage, input, WarpTable, m_cu, complete, fetched, latch, executed, fed>>
      BY <1>7 DEF vars, control, feedvars, collector, backend
    <2>2. QED
      BY <2>1, <1>3, <1>4, PlaceFrame
  <1>8. QED
    BY <1>5, <1>6, <1>7, PlaceFeed, PlaceFill, PlaceExecute, PlaceDrain, PlaceDispatch,
       PlaceAllocate, PlaceReads, PlaceSchedule, PlaceTick DEF Next

(* Every micro-operation that run() has fed is in exactly one of the input *)
(* queue, the warp table, a busy collector, the complete warps, the fetch, *)
(* the latch and the executed ones: the hand-overs of oneCycleOperation()  *)
(* and the clearing between kernels lose none and double none.             *)
THEOREM OnePlaceCorrect == Spec => []OnePlace
  <1>1. PlaceInv => OnePlace
    BY DEF PlaceInv
  <1>2. QED
    BY <1>1, PlaceInit, PlaceInductive, PTL DEF Spec

-----------------------------------------------------------------------------
(* The order of the warps and how many are in the collectors.              *)

(* Warps past the collectors, and all that the collectors have taken.      *)
Dispatched ==
  Len(complete) + One(fetched # NoWarp) + One(latch.warp # NoWarp) + Len(executed)
Taken == Cardinality(Busy) + Dispatched

(* Warps that will be executed before the fetched one, before a complete   *)
(* one.                                                                    *)
BeforeFetched  == Len(executed) + One(latch.warp # NoWarp)
BeforeComplete == BeforeFetched + One(fetched # NoWarp)

(* Warps are numbered in the order they are fed, and keep it up to the     *)
(* collectors.                                                             *)
InOrder ==
  /\ fed = Taken + Len(WarpTable) + Len(input)
  /\ \A i \in 1 .. Len(WarpTable) : WarpTable[i] = Taken + i
  /\ \A i \in 1 .. Len(input) : input[i] = Taken + Len(WarpTable) + i
  /\ \A c \in Busy : m_cu[c].warp \in 1 .. Taken

(* From there on a warp's number is less than that of its place among the  *)
(* dispatched ones and the collectors together.                            *)
Overtaken ==
  /\ \A i \in 1 .. Len(executed) : executed[i] < i + num_collector_units
  /\ latch.warp < Len(executed) + 1 + num_collector_units
  /\ fetched < BeforeFetched + 1 + num_collector_units
  /\ \A i \in 1 .. Len(complete) :
       complete[i] # NoWarp /\ complete[i] < BeforeComplete + i + num_collector_units

(* A collector takes a warp only when the latch is empty, and then a       *)
(* complete warp is fetched in the same cycle.                             *)
FewBehind ==
  /\ latch.warp = NoWarp => latch = Empty
  /\ stage \in {"dispatch", "allocate", "reads"} => latch = Empty
  /\ stage = "done" => WarpTable = <<>>
  /\ Cardinality(Busy) + Len(complete) <=
       num_collector_units + One(stage \in {"reads", "schedule"} /\ latch = Empty)

FlowInv == InOrder /\ Overtaken /\ FewBehind

(* The busy collectors are finitely many, no more than there are.          *)
LEMMA BusyType ==
  /\ num_collector_units \in Nat \ {0}
  /\ IsFiniteSet(Busy) /\ Cardinality(Busy) \in 0 .. num_collector_units
  <1>1. num_collector_units \in Nat \ {0}
    BY ArbiterAssumption
  <1>2. IsFiniteSet(CollectorIds) /\ Cardinality(CollectorIds) = num_collector_units
    BY <1>1, FS_Interval DEF CollectorIds
  <1>3. Busy \subseteq CollectorIds
    BY DEF Busy
  <1>4. IsFiniteSet(Busy) /\ Cardinality(Busy) <= num_collector_units
    BY <1>2, <1>3, FS_Subset
  <1>5. QED
    BY <1>1, <1>4, FS_CardinalityType

FlowNumbers ==
  /\ Cardinality(Busy) \in Nat /\ num_collector_units \in Nat
  /\ Len(complete) \in Nat /\ Len(executed) \in Nat
  /\ Len(input) \in Nat /\ Len(WarpTable) \in Nat
  /\ One(fetched # NoWarp) \in 0 .. 1 /\ One(latch.warp # NoWarp) \in 0 .. 1
  /\ Dispatched \in Nat /\ Taken \in Nat
  /\ BeforeFetched \in Nat /\ BeforeComplete \in Nat

(* The queues hold numbers.                                                *)
LEMMA FlowTypes ==
  ASSUME PlaceInv
  PROVE  /\ complete \in Seq(Nat) /\ executed \in Seq(Nat)
         /\ input \in Seq(Nat) /\ WarpTable \in Seq(Nat)
         /\ fetched \in Nat /\ latch.warp \in Nat /\ fed \in Nat
         /\ latch \in [warp : Nat, completesAt : {latch.completesAt}]
         /\ CollectorTypes
  BY DEF PlaceInv, PlaceTypes, FeedInv, QueueTypes

(* The counts of FlowInv are natural numbers.                              *)
LEMMA FlowCounts == PlaceInv => FlowNumbers
  <1> SUFFICES ASSUME PlaceInv PROVE FlowNumbers
    OBVIOUS
  <1>1. One(fetched # NoWarp) \in 0 .. 1 /\ One(latch.warp # NoWarp) \in 0 .. 1
    BY DEF One
  <1>2. Len(complete) \in Nat /\ Len(executed) \in Nat /\ Len(input) \in Nat /\ Len(WarpTable) \in Nat
    BY FlowTypes
  <1>3. Cardinality(Busy) \in Nat /\ num_collector_units \in Nat
    BY BusyType
  <1>4. Dispatched \in Nat
    BY <1>1, <1>2 DEF Dispatched
  <1>5. Taken \in Nat
    BY <1>3, <1>4 DEF Taken
  <1>6. BeforeFetched \in Nat
    BY <1>1, <1>2 DEF BeforeFetched
  <1>7. BeforeComplete \in Nat
    BY <1>1, <1>6 DEF BeforeComplete
  <1>8. QED
    BY <1>1, <1>2, <1>3, <1>4, <1>5, <1>6, <1>7 DEF FlowNumbers

(* All is empty.                                                           *)
LEMMA FlowInit == Init => FlowInv
  <1> SUFFICES ASSUME Init PROVE FlowInv
    OBVIOUS
  <1>1. Busy = {} /\ Cardinality(Busy) = 0
    <2>1. Busy = {}
      BY DEF Init, Busy, Unused
    <2>2. QED
      BY <2>1, FS_EmptySet
  <1>2. /\ Len(input) = 0 /\ Len(WarpTable) = 0 /\ Len(complete) = 0 /\ Len(executed) = 0
        /\ fed = 0 /\ fetched = 0 /\ latch = Empty /\ latch.warp = 0 /\ stage = "feed"
    BY DEF Init, Empty, NoWarp
  <1>3. Taken = 0 /\ BeforeFetched = 0 /\ BeforeComplete = 0
    BY <1>1, <1>2 DEF Taken, Dispatched, BeforeFetched, BeforeComplete, One, NoWarp
  <1>4. QED
    BY <1>1, <1>2, <1>3, BusyType
       DEF FlowInv, InOrder, Overtaken, FewBehind, One, NoWarp

(* Steps that move no warp.                                                *)
LEMMA FlowFrame ==
  ASSUME PlaceInv, FlowInv,
         UNCHANGED <<input, WarpTable, complete, fetched, executed, fed>>,
         latch'.warp = latch.warp,
         latch.warp = NoWarp => latch' = latch,
         Busy' = Busy, \A c \in Busy : m_cu'[c].warp = m_cu[c].warp,
         stage' \in {"dispatch", "allocate", "reads"} =>
           stage \in {"dispatch", "allocate", "reads"} \/ latch = Empty,
         stage' = "done" => stage = "done" \/ WarpTable = <<>>,
         stage \in {"reads", "schedule"} => stage' \in {"reads", "schedule"}
  PROVE  FlowInv'
  <1>1. UNCHANGED <<Taken, BeforeFetched, BeforeComplete>>
    BY DEF Taken, Dispatched, BeforeFetched, BeforeComplete
  <1>2. InOrder'
    BY <1>1 DEF FlowInv, InOrder
  <1>3. Overtaken'
    BY <1>1 DEF FlowInv, Overtaken
  <1>4. latch' = Empty <=> latch = Empty
    BY DEF FlowInv, FewBehind, Empty
  <1>5. FewBehind'
    <2>1. Cardinality(Busy) + Len(complete) <=
            num_collector_units + One(stage \in {"reads", "schedule"} /\ latch = Empty)'
      BY <1>4, FlowCounts DEF FlowInv, FewBehind, One, FlowNumbers
    <2>2. QED
      BY <1>4, <2>1 DEF FlowInv, FewBehind
  <1>6. QED
    BY <1>2, <1>3, <1>5 DEF FlowInv
(* run() numbers the warps as they come.                                   *)
LEMMA FlowFeed == PlaceInv /\ FlowInv /\ Feed => FlowInv'
  <1> SUFFICES ASSUME PlaceInv, FlowInv, Feed PROVE FlowInv'
    OBVIOUS
  <1>1. PICK n \in 0 .. KernelSize * (kernel + 1) - fed :
          /\ input' = input \o [i \in 1 .. n |-> fed + i]
          /\ fed' = fed + n
          /\ stage' \in {"exited", "feed", "fill"}
    BY DEF Feed
  <1>2. n \in Nat
    <2>1. KernelSize \in Nat /\ kernel \in Nat
      BY PipelineAssumption DEF PlaceInv, FeedInv, QueueTypes
    <2>2. KernelSize * (kernel + 1) \in Nat
      BY <2>1
    <2>3. QED
      BY <1>1, <2>2, FlowTypes
  <1>3. UNCHANGED <<WarpTable, m_cu, complete, fetched, latch, executed>> /\ stage = "feed"
    BY DEF Feed, collector, backend
  <1>4. UNCHANGED <<Taken, BeforeFetched, BeforeComplete>> /\ Busy' = Busy
    BY <1>3 DEF Taken, Dispatched, BeforeFetched, BeforeComplete, Busy
  <1> DEFINE new == [i \in 1 .. n |-> fed + i]
  <1>5. new \in Seq(Nat) /\ Len(new) = n /\ \A i \in 1 .. n : new[i] = fed + i
    <2>1. fed \in Nat
      BY FlowTypes
    <2>2. QED
      BY <1>2, <2>1
  <1>6. input' = input \o new
    BY <1>1
  <1> HIDE DEF new
  <1>7. /\ Len(input') = Len(input) + n
        /\ \A i \in 1 .. Len(input) + n :
             input'[i] = IF i <= Len(input) THEN input[i] ELSE new[i - Len(input)]
    BY <1>5, <1>6, ConcatProperties, FlowTypes
  <1>8. InOrder'
    <2>1. fed' = Taken + Len(WarpTable) + Len(input')
      BY <1>1, <1>2, <1>7, FlowCounts, SMTT(30) DEF FlowNumbers, FlowInv, InOrder
    <2>2. ASSUME NEW i \in 1 .. Len(input')
          PROVE  input'[i] = Taken + Len(WarpTable) + i
      <3>1. i \in 1 .. Len(input) + n /\ Len(input) \in Nat /\ Taken \in Nat /\ Len(WarpTable) \in Nat
        BY <1>7, FlowCounts DEF FlowNumbers
      <3>2. CASE i <= Len(input)
        BY <1>7, <3>1, <3>2 DEF FlowInv, InOrder
      <3>3. CASE ~(i <= Len(input))
        <4>1. input'[i] = new[i - Len(input)] /\ i - Len(input) \in 1 .. n
          BY <1>2, <1>7, <3>1, <3>3
        <4>2. new[i - Len(input)] = fed + (i - Len(input))
          BY <1>5, <4>1
        <4>3. fed = Taken + Len(WarpTable) + Len(input)
          BY DEF FlowInv, InOrder
        <4>4. QED
          BY <3>1, <4>1, <4>2, <4>3
      <3>4. QED
        BY <3>2, <3>3
    <2>3. QED
      BY <1>3, <1>4, <2>1, <2>2 DEF FlowInv, InOrder
  <1>9. Overtaken'
    BY <1>3, <1>4 DEF FlowInv, Overtaken
  <1>10. FewBehind'
    BY <1>1, <1>3, <1>4, FlowCounts DEF FlowInv, FewBehind, FlowNumbers, One
  <1>11. QED
    BY <1>8, <1>9, <1>10 DEF FlowInv

(* WarpTable() moves the first warps of the queue behind those of the      *)
(* table.                                                                  *)
LEMMA FlowFill == PlaceInv /\ FlowInv /\ FillWarpTable => FlowInv'
  <1> SUFFICES ASSUME PlaceInv, FlowInv, FillWarpTable PROVE FlowInv'
    OBVIOUS
  <1> DEFINE room == WarpTableSize - Len(WarpTable)
             n    == IF Len(input) < room THEN Len(input) ELSE room
             new  == SubSeq(input, 1, n)
             rest == SubSeq(input, n + 1, Len(input))
  <1>1. /\ input \in Seq(Nat) /\ WarpTable \in Seq(Nat)
        /\ Len(input) \in Nat /\ Len(WarpTable) \in Nat
        /\ WarpTableSize \in Nat /\ Len(WarpTable) <= WarpTableSize
    BY PipelineAssumption DEF PlaceInv, FeedInv, QueueTypes
  <1>2. n \in 0 .. Len(input)
    BY <1>1
  <1> HIDE DEF n
  <1>3. /\ new \in Seq(Nat) /\ Len(new) = n
        /\ \A i \in 1 .. n : new[i] = input[i]
        /\ Len(rest) = Len(input) - n
        /\ \A i \in 1 .. Len(input) - n : rest[i] = input[n + i]
    <2>1. new \in Seq(Nat) /\ Len(new) = n /\ \A i \in 1 .. n : new[i] = input[i]
      BY <1>1, <1>2
    <2>2. Len(rest) = Len(input) - n /\ \A i \in 1 .. Len(input) - n : rest[i] = input[n + i]
      BY <1>1, <1>2
    <2>3. QED
      BY <2>1, <2>2
  <1>4. WarpTable' = WarpTable \o new /\ input' = rest /\ stage = "fill" /\ stage' = "writeback"
    BY DEF FillWarpTable, n
  <1>5. UNCHANGED <<m_cu, complete, fetched, latch, executed, fed>>
    BY DEF FillWarpTable, collector, backend
  <1>6. UNCHANGED <<Taken, BeforeFetched, BeforeComplete>> /\ Busy' = Busy
    BY <1>5 DEF Taken, Dispatched, BeforeFetched, BeforeComplete, Busy
  <1> HIDE DEF new, rest
  <1>7. /\ Len(WarpTable') = Len(WarpTable) + n
        /\ \A i \in 1 .. Len(WarpTable) + n :
             WarpTable'[i] = IF i <= Len(WarpTable) THEN WarpTable[i] ELSE new[i - Len(WarpTable)]
    BY <1>1, <1>3, <1>4, ConcatProperties, ZenonT(60)
  <1>8. InOrder'
    <2>1. Taken \in Nat
      BY FlowCounts DEF FlowNumbers
    <2>2. fed' = Taken + Len(WarpTable') + Len(input')
      <3>1. fed = Taken + Len(WarpTable) + Len(input) /\ n \in Nat
        BY <1>2 DEF FlowInv, InOrder
      <3>2. Len(WarpTable') = Len(WarpTable) + n /\ Len(input') = Len(input) - n /\ fed' = fed
        BY <1>3, <1>4, <1>5, <1>7
      <3>3. QED
        BY <1>1, <2>1, <3>1, <3>2
    <2>3. ASSUME NEW i \in 1 .. Len(WarpTable')
          PROVE  WarpTable'[i] = Taken + i
      <3>1. CASE i <= Len(WarpTable)
        <4>1. i \in 1 .. Len(WarpTable) + n /\ i \in 1 .. Len(WarpTable)
          BY <1>1, <1>2, <1>7, <3>1
        <4>2. QED
          BY <1>7, <3>1, <4>1 DEF FlowInv, InOrder
      <3>2. CASE ~(i <= Len(WarpTable))
        <4>1. WarpTable'[i] = new[i - Len(WarpTable)] /\ i - Len(WarpTable) \in 1 .. n
          BY <1>1, <1>2, <1>7, <3>2
        <4>2. new[i - Len(WarpTable)] = input[i - Len(WarpTable)]
              /\ i - Len(WarpTable) \in 1 .. Len(input)
          BY <1>1, <1>2, <1>3, <4>1, SMTT(60)
        <4>3. input[i - Len(WarpTable)] = Taken + Len(WarpTable) + (i - Len(WarpTable))
          BY <4>2 DEF FlowInv, InOrder
        <4>4. QED
          BY <1>1, <2>1, <4>1, <4>2, <4>3
      <3>3. QED
        BY <3>1, <3>2
    <2>4. ASSUME NEW i \in 1 .. Len(input')
          PROVE  input'[i] = Taken + Len(WarpTable') + i
      <3>1. i \in 1 .. Len(input) - n /\ n + i \in 1 .. Len(input) /\ n \in Nat
        BY <1>1, <1>2, <1>3, <1>4
      <3>2. input'[i] = input[n + i]
        BY <1>3, <1>4, <3>1
      <3>3. input[n + i] = Taken + Len(WarpTable) + (n + i)
        BY <3>1 DEF FlowInv, InOrder
      <3>4. QED
        BY <1>1, <1>7, <2>1, <3>1, <3>2, <3>3
    <2>5. QED
      BY <1>5, <1>6, <2>2, <2>3, <2>4 DEF FlowInv, InOrder
  <1>9. Overtaken'
    BY <1>5, <1>6 DEF FlowInv, Overtaken
  <1>10. FewBehind'
    BY <1>4, <1>5, <1>6, FlowCounts DEF FlowInv, FewBehind, FlowNumbers, One
  <1>11. QED
    BY <1>8, <1>9, <1>10 DEF FlowInv

(* performExecute() takes the warp of the latch as the next executed one.  *)
LEMMA FlowExecute == PlaceInv /\ FlowInv /\ Execute => FlowInv'
  <1> SUFFICES ASSUME PlaceInv, FlowInv, Execute PROVE FlowInv'
    OBVIOUS
  <1>1. /\ UNCHANGED <<input, WarpTable, m_cu, complete, fetched, fed>>
        /\ stage = "execute" /\ stage' = "drain" /\ Busy' = Busy
    BY DEF Execute, feedvars, collector, Busy
  <1>2. CASE latch # Empty /\ latch' = Empty /\ executed' = Append(executed, latch.warp)
    <2>1. latch.warp # NoWarp /\ latch'.warp = NoWarp
      BY <1>2 DEF FlowInv, FewBehind, Empty
    <2>2. /\ Len(executed') = Len(executed) + 1
          /\ \A i \in 1 .. Len(executed) : executed'[i] = executed[i]
          /\ executed'[Len(executed) + 1] = latch.warp
      BY <1>2, FlowTypes, AppendProperties
    <2>3. UNCHANGED <<Taken, BeforeFetched, BeforeComplete>>
      <3>1. One(latch.warp # NoWarp) = 1 /\ One(latch.warp # NoWarp)' = 0
        BY <2>1 DEF One
      <3>2. Len(executed) \in Nat /\ Len(complete) \in Nat /\ One(fetched # NoWarp) \in Nat
            /\ One(fetched # NoWarp)' = One(fetched # NoWarp)
            /\ Len(complete') = Len(complete)
        BY <1>1, FlowCounts DEF FlowNumbers, One
      <3>3. BeforeFetched' = BeforeFetched
        BY <2>2, <3>1, <3>2 DEF BeforeFetched
      <3>4. Dispatched' = Dispatched
        BY <2>2, <3>1, <3>2 DEF Dispatched
      <3>5. QED
        BY <1>1, <3>3, <3>4 DEF Taken, BeforeComplete
    <2>4. InOrder'
      BY <1>1, <2>3 DEF FlowInv, InOrder
    <2>5. Overtaken'
      <3>1. ASSUME NEW i \in 1 .. Len(executed')
            PROVE  executed'[i] < i + num_collector_units
        <4>1. Len(executed) \in Nat
          BY FlowCounts DEF FlowNumbers
        <4>2. i \in 1 .. Len(executed) \/ i = Len(executed) + 1
          BY <2>2, <4>1
        <4>3. QED
          BY <2>2, <4>2 DEF FlowInv, Overtaken
      <3>2. latch'.warp < Len(executed') + 1 + num_collector_units
        BY <2>1, <2>2, FlowCounts DEF NoWarp, FlowNumbers
      <3>3. QED
        BY <1>1, <2>3, <3>1, <3>2 DEF FlowInv, Overtaken
    <2>6. FewBehind'
      BY <1>1, <1>2, FlowCounts DEF FlowInv, FewBehind, FlowNumbers, One
    <2>7. QED
      BY <2>4, <2>5, <2>6 DEF FlowInv
  <1>3. CASE UNCHANGED <<latch, executed>>
    BY <1>1, <1>3, FlowFrame
  <1>4. QED
    BY <1>2, <1>3 DEF Execute

(* A busy collector that dispatches is busy no more.                       *)
LEMMA BusyRelease ==
  ASSUME CollectorTypes, NEW c \in Busy, m_cu' = [m_cu EXCEPT ![c].free = TRUE]
  PROVE  /\ Cardinality(Busy') = Cardinality(Busy) - 1
         /\ Busy' \subseteq Busy /\ \A d \in Busy' : m_cu'[d] = m_cu[d]
  <1>1. c \in CollectorIds
    BY DEF Busy
  <1>2. /\ DOMAIN m_cu' = CollectorIds
        /\ m_cu'[c] = [m_cu[c] EXCEPT !.free = TRUE]
        /\ \A d \in CollectorIds : d # c => m_cu'[d] = m_cu[d]
    BY <1>1 DEF CollectorTypes
  <1>3. m_cu'[c].free
    <2>1. ASSUME NEW V, NEW r \in [warp : Nat, free : BOOLEAN, notReady : V]
          PROVE  [r EXCEPT !.free = TRUE].free
      OBVIOUS
    <2>2. QED
      BY <1>1, <1>2, <2>1 DEF CollectorTypes
  <1>4. Busy' = Busy \ {c}
    BY <1>1, <1>2, <1>3 DEF Busy
  <1>5. QED
    BY <1>2, <1>4, BusyType, FS_RemoveElement DEF Busy

(* A free collector that takes a warp is busy.                             *)
LEMMA BusyTake ==
  ASSUME CollectorTypes, NEW c \in FreeCollectors, NEW r, r.free = FALSE,
         m_cu' = [m_cu EXCEPT ![c] = r]
  PROVE  /\ Cardinality(Busy') = Cardinality(Busy) + 1
         /\ m_cu'[c] = r
         /\ \A d \in Busy' : d = c \/ (d \in Busy /\ m_cu'[d] = m_cu[d])
  <1>1. c \in CollectorIds /\ c \notin Busy
    BY DEF FreeCollectors, Busy
  <1>2. /\ DOMAIN m_cu' = CollectorIds
        /\ m_cu'[c] = r
        /\ \A d \in CollectorIds : d # c => m_cu'[d] = m_cu[d]
    BY <1>1 DEF CollectorTypes
  <1>3. Busy' = Busy \cup {c}
    BY <1>1, <1>2 DEF Busy
  <1>4. Cardinality(Busy') = Cardinality(Busy) + 1
    <2>1. IsFiniteSet(Busy)
      BY BusyType
    <2>2. Cardinality(Busy \cup {c}) = Cardinality(Busy) + 1
      BY <1>1, <2>1, FS_AddElement
    <2>3. QED
      BY <1>3, <2>2
  <1>5. \A d \in Busy' : d = c \/ (d \in Busy /\ m_cu'[d] = m_cu[d])
    BY <1>2, <1>3 DEF Busy
  <1>6. QED
    BY <1>2, <1>4, <1>5

(* dispatch_ready_cu() puts the warp of a collector behind the complete    *)
(* ones.                                                                   *)
LEMMA FlowDispatch == PlaceInv /\ FlowInv /\ DispatchReady => FlowInv'
  <1> SUFFICES ASSUME PlaceInv, FlowInv, DispatchReady PROVE FlowInv'
    OBVIOUS
  <1>1. /\ UNCHANGED <<input, WarpTable, fetched, latch, executed, fed>>
        /\ stage = "dispatch" /\ stage' \in {"dispatch", "allocate"}
    BY DEF DispatchReady, feedvars
  <1>2. CASE UNCHANGED <<m_cu, complete>>
    <2>1. Busy' = Busy
      BY <1>2 DEF Busy
    <2>2. QED
      BY <1>1, <1>2, <2>1, FlowFrame
  <1>3. ASSUME NEW c \in Busy,
               m_cu' = [m_cu EXCEPT ![c].free = TRUE],
               complete' = Append(complete, m_cu[c].warp)
        PROVE  FlowInv'
    <2> DEFINE w == m_cu[c].warp
    <2>1. w \in Nat /\ w \in 1 .. Taken
      BY DEF FlowInv, InOrder, PlaceInv, PlaceTypes, CollectorTypes, Busy
    <2>2. /\ Len(complete') = Len(complete) + 1
          /\ \A i \in 1 .. Len(complete) : complete'[i] = complete[i]
          /\ complete'[Len(complete) + 1] = w
      BY <1>3, <2>1, FlowTypes, AppendProperties
    <2>3. /\ Cardinality(Busy') = Cardinality(Busy) - 1
          /\ Busy' \subseteq Busy /\ \A d \in Busy' : m_cu'[d] = m_cu[d]
      BY <1>3, FlowTypes, BusyRelease
    <2> HIDE DEF w
    <2>4. /\ Dispatched = BeforeComplete + Len(complete)
          /\ Dispatched' = Dispatched + 1 /\ Taken' = Taken
          /\ UNCHANGED <<BeforeFetched, BeforeComplete>>
      <3>1. UNCHANGED <<BeforeFetched, BeforeComplete>>
        BY <1>1 DEF BeforeFetched, BeforeComplete
      <3>2. Dispatched' = Dispatched + 1
        BY <1>1, <2>2, FlowCounts, SMTT(30) DEF Dispatched, FlowNumbers
      <3>3. Taken' = Taken
        BY <2>3, <3>2, FlowCounts DEF Taken, FlowNumbers
      <3>4. Dispatched = BeforeComplete + Len(complete)
        <4> DEFINE a == Len(complete)
                   b == One(fetched # NoWarp)
                   d == One(latch.warp # NoWarp)
                   e == Len(executed)
        <4>1. a \in Nat /\ b \in Nat /\ d \in Nat /\ e \in Nat
          BY FlowCounts DEF FlowNumbers
        <4>2. Dispatched = a + b + d + e /\ BeforeComplete = e + d + b
          BY DEF Dispatched, BeforeComplete, BeforeFetched
        <4> HIDE DEF a, b, d, e
        <4>3. Dispatched = BeforeComplete + a
          BY <4>1, <4>2
        <4>4. QED
          BY <4>3 DEF a
      <3>5. QED
        BY <3>1, <3>2, <3>3, <3>4
    <2>5. InOrder'
      BY <1>1, <2>3, <2>4 DEF FlowInv, InOrder
    <2>6. Overtaken'
      <3>1. ASSUME NEW i \in 1 .. Len(complete')
            PROVE  /\ complete'[i] # NoWarp
                   /\ complete'[i] < BeforeComplete + i + num_collector_units
        <4>1. Len(complete) \in Nat
          BY FlowCounts DEF FlowNumbers
        <4>2. CASE i \in 1 .. Len(complete)
          BY <2>2, <4>2 DEF FlowInv, Overtaken
        <4>3. CASE i = Len(complete) + 1
          <5>1. complete'[i] = w /\ w # NoWarp
            BY <2>1, <2>2, <4>3 DEF NoWarp
          <5>2. w <= num_collector_units + Dispatched
            BY <2>1, BusyType, FlowCounts DEF Taken, FlowNumbers
          <5>3. QED
            <6>1. num_collector_units \in Nat /\ BeforeComplete \in Nat /\ Len(complete) \in Nat
              BY FlowCounts DEF FlowNumbers
            <6>2. w < BeforeComplete + (Len(complete) + 1) + num_collector_units
              BY <2>1, <2>4, <5>2, <6>1
            <6>3. QED
              BY <4>3, <5>1, <6>2
        <4>4. QED
          BY <2>2, <4>1, <4>2, <4>3
      <3>2. QED
        BY <1>1, <2>4, <3>1 DEF FlowInv, Overtaken
    <2>7. FewBehind'
      <3>1. Cardinality(Busy') + Len(complete') <= num_collector_units
        BY <1>1, <2>2, <2>3, FlowCounts DEF FlowInv, FewBehind, FlowNumbers, One
      <3>2. QED
        BY <1>1, <2>2, <2>3, <3>1, FlowCounts DEF FlowInv, FewBehind, FlowNumbers, One
    <2>8. QED
      BY <2>5, <2>6, <2>7 DEF FlowInv
  <1>4. ASSUME NEW c \in CollectorIds, FirstReady(unit, c), m_cu[c] # Unused
        PROVE  c \in Busy
    BY <1>4 DEF FirstReady, Ready, Busy
  <1>5. QED
    BY <1>2, <1>3, <1>4 DEF DispatchReady

(* allocate_cu() takes the next warp, and the latch is empty.              *)
LEMMA FlowAllocate == PlaceInv /\ FlowInv /\ AllocateCu => FlowInv'
  <1> SUFFICES ASSUME PlaceInv, FlowInv, AllocateCu PROVE FlowInv'
    OBVIOUS
  <1>1. /\ UNCHANGED <<input, complete, fetched, latch, executed, fed>>
        /\ stage = "allocate" /\ WarpTable \in Seq(Nat) /\ WarpTable # <<>>
        /\ stage' = "reads"
    BY DEF AllocateCu, feedvars, backend, PlaceInv, FeedInv, QueueTypes, BeforeAllocate
  <1>2. CASE UNCHANGED <<WarpTable, m_cu>>
    <2>1. Busy' = Busy
      BY <1>2 DEF Busy
    <2>2. QED
      BY <1>1, <1>2, <2>1, FlowFrame
  <1>3. CASE FreeCollectors # {}
    <2> DEFINE c == First(FreeCollectors)
               v == Head(WarpTable)
               r == [warp |-> v, free |-> FALSE, notReady |-> Operands(v)]
    <2>1. c \in FreeCollectors
      BY <1>3, FirstExists DEF FreeCollectors
    <2>2. WarpTable' = Tail(WarpTable) /\ m_cu' = [m_cu EXCEPT ![c] = r]
      BY <1>1, <1>3 DEF AllocateCu
    <2>3. r.free = FALSE /\ r.warp = v
      OBVIOUS
    <2> HIDE DEF c, r
    <2>4. /\ Cardinality(Busy') = Cardinality(Busy) + 1
          /\ m_cu'[c] = r
          /\ \A d \in Busy' : d = c \/ (d \in Busy /\ m_cu'[d] = m_cu[d])
      BY <2>1, <2>2, <2>3, BusyTake, FlowTypes
    <2>5. /\ Len(WarpTable) \in Nat \ {0} /\ v = WarpTable[1]
          /\ Len(WarpTable') = Len(WarpTable) - 1
          /\ \A i \in 1 .. Len(WarpTable) - 1 : WarpTable'[i] = WarpTable[i + 1]
      BY <1>1, <2>2, HeadTailProperties
    <2>6. /\ UNCHANGED <<Dispatched, BeforeFetched, BeforeComplete>> /\ Taken' = Taken + 1
      BY <1>1, <2>4, FlowCounts
         DEF Taken, Dispatched, BeforeFetched, BeforeComplete, FlowNumbers
    <2>7. v = Taken + 1 /\ Taken \in Nat
      BY <2>5, FlowCounts DEF FlowInv, InOrder, FlowNumbers
    <2> HIDE DEF v
    <2>8. InOrder'
      <3>1. fed = Taken' + Len(WarpTable') + Len(input)
        BY <2>5, <2>6, FlowCounts, SMTT(30) DEF FlowInv, InOrder, FlowNumbers
      <3>2. ASSUME NEW i \in 1 .. Len(WarpTable') PROVE WarpTable'[i] = Taken' + i
        <4>1. i + 1 \in 1 .. Len(WarpTable) /\ WarpTable'[i] = WarpTable[i + 1] /\ i \in Int
          BY <2>5
        <4>2. WarpTable[i + 1] = Taken + (i + 1)
          BY <4>1 DEF FlowInv, InOrder
        <4>3. QED
          BY <2>6, <2>7, <4>1, <4>2
      <3>3. ASSUME NEW i \in 1 .. Len(input) PROVE input[i] = Taken' + Len(WarpTable') + i
        <4>1. input[i] = Taken + Len(WarpTable) + i
          BY DEF FlowInv, InOrder
        <4>2. QED
          BY <2>5, <2>6, <2>7, <4>1
      <3>4. ASSUME NEW d \in Busy' PROVE m_cu'[d].warp \in 1 .. Taken'
        <4>1. CASE d = c
          BY <2>3, <2>4, <2>6, <2>7, <4>1
        <4>2. CASE d \in Busy /\ m_cu'[d] = m_cu[d]
          <5>1. m_cu[d].warp \in 1 .. Taken
            BY <4>2 DEF FlowInv, InOrder
          <5>2. QED
            BY <2>6, <2>7, <4>2, <5>1
        <4>3. QED
          BY <2>4, <4>1, <4>2
      <3>5. QED
        BY <1>1, <3>1, <3>2, <3>3, <3>4 DEF InOrder
    <2>9. Overtaken'
      BY <1>1, <2>6 DEF FlowInv, Overtaken
    <2>10. FewBehind'
      BY <1>1, <2>4, FlowCounts DEF FlowInv, FewBehind, FlowNumbers, One
    <2>11. QED
      BY <2>8, <2>9, <2>10 DEF FlowInv
  <1>4. QED
    BY <1>2, <1>3 DEF AllocateCu

(* The complete warps that are scheduled are one fewer.                    *)
LEMMA FlowMove ==
  ASSUME PlaceInv, FlowInv, Schedule, complete # <<>>, latch = Empty
  PROVE  FlowInv'
  <1>1. /\ UNCHANGED <<input, WarpTable, m_cu, executed, fed>>
        /\ stage = "schedule" /\ stage' = "tick"
        /\ complete' = Tail(complete) /\ fetched' = Head(complete) /\ Busy' = Busy
    BY DEF Schedule, feedvars, collector, Busy
  <1>2. latch'.warp = fetched /\ (fetched = NoWarp => latch' = Empty)
    <2>1. CASE fetched = NoWarp
      BY <2>1 DEF Schedule, Empty
    <2>2. CASE fetched # NoWarp
      <3>1. latch' = [warp |-> fetched,
                      completesAt |-> clock + Latency[trace[fetched].type]]
        BY <2>2 DEF Schedule
      <3>2. QED
        BY <2>2, <3>1
    <2>3. QED
      BY <2>1, <2>2
  <1>3. /\ Len(complete) \in Nat \ {0} /\ fetched' = complete[1]
        /\ Len(complete') = Len(complete) - 1
        /\ \A i \in 1 .. Len(complete) - 1 : complete'[i] = complete[i + 1]
    BY <1>1, FlowTypes, HeadTailProperties
  <1>4. fetched' # NoWarp /\ fetched' < BeforeComplete + 1 + num_collector_units
    BY <1>3 DEF FlowInv, Overtaken
  <1>5. /\ One(latch.warp # NoWarp) = 0
        /\ One(latch.warp # NoWarp)' = One(fetched # NoWarp)
        /\ One(fetched # NoWarp)' = 1
        /\ One(fetched # NoWarp) \in 0 .. 1
        /\ latch.warp = NoWarp
    BY <1>2, <1>4 DEF One, Empty
  <1>6. /\ Len(executed) \in Nat /\ num_collector_units \in Nat /\ Cardinality(Busy) \in Nat
        /\ BeforeFetched \in Nat /\ BeforeComplete \in Nat /\ Len(executed') = Len(executed)
    BY <1>1, FlowCounts DEF FlowNumbers
  <1>7. BeforeFetched = Len(executed) /\ BeforeFetched' = BeforeComplete
        /\ BeforeComplete' = BeforeComplete + 1
    <2>1. BeforeFetched = Len(executed)
      BY <1>5, <1>6 DEF BeforeFetched
    <2>2. BeforeFetched' = BeforeComplete
      BY <1>5, <1>6, <2>1 DEF BeforeFetched, BeforeComplete
    <2>3. BeforeComplete' = BeforeComplete + 1
      BY <1>5, <2>2 DEF BeforeComplete
    <2>4. QED
      BY <2>1, <2>2, <2>3
  <1>8. Taken' = Taken
    <2>1. Dispatched' = Dispatched
      BY <1>3, <1>5, <1>6 DEF Dispatched
    <2>2. QED
      BY <1>1, <2>1 DEF Taken
  <1>9. InOrder'
    BY <1>1, <1>8 DEF FlowInv, InOrder
  <1>10. Overtaken'
    <2>1. ASSUME NEW i \in 1 .. Len(complete')
          PROVE  /\ complete'[i] # NoWarp
                 /\ complete'[i] < BeforeComplete' + i + num_collector_units
      <3>1. i + 1 \in 1 .. Len(complete) /\ complete'[i] = complete[i + 1] /\ i \in Int
        BY <1>3
      <3>2. complete[i + 1] # NoWarp
            /\ complete[i + 1] < BeforeComplete + (i + 1) + num_collector_units
        BY <3>1 DEF FlowInv, Overtaken
      <3>3. BeforeComplete + (i + 1) + num_collector_units
              = BeforeComplete' + i + num_collector_units
        BY <1>6, <1>7, <3>1
      <3>4. QED
        BY <3>1, <3>2, <3>3
    <2>2. latch'.warp < Len(executed') + 1 + num_collector_units
      BY <1>2, <1>6, <1>7 DEF FlowInv, Overtaken
    <2>3. fetched' < BeforeFetched' + 1 + num_collector_units
      BY <1>4, <1>7
    <2>4. QED
      BY <1>1, <2>1, <2>2, <2>3 DEF FlowInv, Overtaken
  <1>11. FewBehind'
    <2>1. Cardinality(Busy') + Len(complete') <= num_collector_units
      <3>1. Cardinality(Busy) + Len(complete) <= num_collector_units + 1
        BY <1>1 DEF FlowInv, FewBehind, One
      <3>2. QED
        BY <1>1, <1>3, <1>6, <3>1
    <2>2. One(stage \in {"reads", "schedule"} /\ latch = Empty)' = 0
      BY <1>1 DEF One
    <2>3. QED
      BY <1>1, <1>2, <1>6, <2>1, <2>2 DEF FewBehind
  <1>12. QED
    BY <1>9, <1>10, <1>11 DEF FlowInv

(* A cycle that leaves the latch full, or has no complete warp, moves none. *)
LEMMA FlowSchedule == PlaceInv /\ FlowInv /\ Schedule => FlowInv'
  <1> SUFFICES ASSUME PlaceInv, FlowInv, Schedule PROVE FlowInv'
    OBVIOUS
  <1>1. CASE complete = <<>> \/ latch # Empty
    <2>1. /\ UNCHANGED <<input, WarpTable, m_cu, executed, fed, complete, fetched, latch>>
          /\ stage = "schedule" /\ stage' = "tick" /\ Busy' = Busy
      BY <1>1 DEF Schedule, feedvars, collector, Busy
    <2>2. UNCHANGED <<Taken, BeforeFetched, BeforeComplete>>
      BY <2>1 DEF Taken, Dispatched, BeforeFetched, BeforeComplete
    <2>3. Cardinality(Busy) + Len(complete) <= num_collector_units
      <3>1. CASE complete = <<>>
        <4>1. Len(complete) = 0
          BY <3>1
        <4>2. QED
          BY <4>1, BusyType
      <3>2. CASE latch # Empty
        BY <3>2, FlowCounts DEF FlowInv, FewBehind, One, FlowNumbers
      <3>3. QED
        BY <1>1, <3>1, <3>2
    <2>4. FewBehind'
      BY <2>1, <2>3, FlowCounts DEF FlowInv, FewBehind, One, FlowNumbers
    <2>5. InOrder' /\ Overtaken'
      BY <2>1, <2>2 DEF FlowInv, InOrder, Overtaken
    <2>6. QED
      BY <2>4, <2>5 DEF FlowInv
  <1>2. CASE complete # <<>> /\ latch = Empty
    BY <1>2, FlowMove
  <1>3. QED
    BY <1>1, <1>2

(* allocate_reads() frees no collector and changes no warp.                *)
LEMMA FlowReads == PlaceInv /\ FlowInv /\ AllocateReads => FlowInv'
  <1> SUFFICES ASSUME PlaceInv, FlowInv, AllocateReads PROVE FlowInv'
    OBVIOUS
  <1>1. /\ UNCHANGED <<input, WarpTable, complete, fetched, latch, executed, fed>>
        /\ stage = "reads" /\ stage' = "schedule"
    BY DEF AllocateReads, feedvars, backend
  <1> DEFINE ops     == {Head(m_queue[b]) : b \in {g[1] : g \in Matching(Requested, written, pri)}}
             Got(c)  == {op[2] : op \in {o \in ops : o[1] = c}}
             Rest(c) == m_cu[c].notReady \ Got(c)
  <1>2. m_cu' = [c \in CollectorIds |-> [m_cu[c] EXCEPT !.notReady = Rest(c)]]
    BY DEF AllocateReads
  <1> HIDE DEF Rest
  <1>3. \A c \in CollectorIds :
          /\ m_cu'[c].warp = m_cu[c].warp /\ m_cu'[c].free = m_cu[c].free
    <2>1. ASSUME NEW V, NEW r \in [warp : Nat, free : BOOLEAN, notReady : V], NEW n
          PROVE  /\ [r EXCEPT !.notReady = n].warp = r.warp
                 /\ [r EXCEPT !.notReady = n].free = r.free
      OBVIOUS
    <2>2. \A c \in CollectorIds : m_cu'[c] = [m_cu[c] EXCEPT !.notReady = Rest(c)]
      BY <1>2
    <2>3. QED
      BY <2>1, <2>2, FlowTypes, ZenonT(60) DEF CollectorTypes
  <1>4. Busy' = Busy /\ \A c \in Busy : m_cu'[c].warp = m_cu[c].warp
    BY <1>3 DEF Busy
  <1>5. QED
    BY <1>1, <1>4, FlowFrame

(* A kernel ends with an empty warp table, and initialize() finds nothing  *)
(* left in inputToPipeline.                                                *)
LEMMA FlowTick == PlaceInv /\ FlowInv /\ Tick => FlowInv'
  <1> SUFFICES ASSUME PlaceInv, FlowInv, Tick PROVE FlowInv'
    OBVIOUS
  <1>1. /\ UNCHANGED <<WarpTable, m_cu, complete, fetched, latch, executed, fed>>
        /\ stage = "tick" /\ stage' \in {"feed", "fill", "done"}
        /\ input' \in {input, <<>>} /\ Busy' = Busy
    BY DEF Tick, collector, backend, Busy
  <1>2. input' # input \/ stage' = "done" => WarpTable = <<>>
    BY DEF Tick, CyclesGoOn
  <1>3. WarpTable = <<>> => input = <<>>
    <2>1. WarpTableSize \in Nat \ {0, 1} /\ Len(<<>>) = 0
      BY PipelineAssumption
    <2>2. QED
      BY <1>1, <2>1 DEF PlaceInv, FullTable
  <1>4. input' = input
    BY <1>1, <1>2, <1>3
  <1>5. QED
    BY <1>1, <1>2, <1>4, FlowFrame

(* The order and the counts hold in every step.                            *)
LEMMA FlowInductive == PlaceInv /\ FlowInv /\ [Next]_vars => FlowInv'
  <1> SUFFICES ASSUME PlaceInv, FlowInv, [Next]_vars PROVE FlowInv'
    OBVIOUS
  <1>1. CASE Finish
    <2>1. UNCHANGED <<input, WarpTable, m_cu, complete, fetched, latch, executed, fed, Busy>>
          /\ stage = "feed" /\ stage' = "fill"
      BY <1>1 DEF Finish, feedvars, collector, backend, Busy
    <2>2. QED
      BY <2>1, FlowFrame
  <1>2. CASE Writeback
    <2>1. UNCHANGED <<input, WarpTable, m_cu, complete, fetched, latch, executed, fed, Busy>>
          /\ stage = "writeback" /\ stage' = "execute"
      BY <1>2 DEF Writeback, feedvars, collector, backend, Busy
    <2>2. QED
      BY <2>1, FlowFrame
  <1>3. CASE DrainEvents
    <2>1. UNCHANGED <<input, WarpTable, m_cu, complete, fetched, executed, fed, Busy>>
          /\ stage = "drain"
          /\ stage' = IF latch = Empty THEN "dispatch" ELSE "schedule"
      BY <1>3 DEF DrainEvents, feedvars, Busy
    <2>2. latch' = latch \/ (latch # Empty /\ latch' = [latch EXCEPT !.completesAt = clock])
      BY <1>3 DEF DrainEvents
    <2>3. latch'.warp = latch.warp /\ (latch.warp = NoWarp => latch' = latch)
      <3>1. ASSUME NEW V, NEW r \in [warp : Nat, completesAt : V], NEW t
            PROVE  [r EXCEPT !.completesAt = t].warp = r.warp
        OBVIOUS
      <3>2. [latch EXCEPT !.completesAt = clock].warp = latch.warp
        BY <3>1, FlowTypes
      <3>3. latch.warp = NoWarp => latch = Empty
        BY DEF FlowInv, FewBehind
      <3>4. QED
        BY <2>2, <3>2, <3>3
    <2>4. QED
      BY <2>1, <2>3, FlowFrame
  <1>4. CASE UNCHANGED vars
    <2>1. UNCHANGED <<stage, input, WarpTable, m_cu, complete, fetched, latch, executed, fed, Busy>>
      BY <1>4 DEF vars, control, feedvars, collector, backend, Busy
    <2>2. QED
      BY <2>1, FlowFrame
  <1>5. QED
    BY <1>1, <1>2, <1>3, <1>4, FlowFeed, FlowFill, FlowExecute, FlowDispatch, FlowAllocate,
       FlowReads, FlowSchedule, FlowTick DEF Next

(* An executed instruction is ahead of its turn by less than the number of *)
(* collectors: the collectors are the only place where one passes another. *)
THEOREM BoundedOvertakingCorrect == Spec => []BoundedOvertaking
  <1>1. ASSUME PlaceInv, FlowInv PROVE BoundedOvertaking
    <2>1. DOMAIN executed = 1 .. Len(executed)
      BY <1>1, FlowTypes
    <2>2. QED
      BY <1>1, <2>1 DEF FlowInv, Overtaken, BoundedOvertaking
  <1>2. QED
    BY <1>1, PlaceInit, PlaceInductive, FlowInit, FlowInductive, PTL DEF Spec

(* What run() leaves unexecuted between two kernels and at the end is in   *)
(* the collectors, the complete warps, the fetch or the latch, and there   *)
(* are never more of them than the collectors and two.                     *)
THEOREM LeftBehindBoundCorrect == Spec => []LeftBehindBound
  <1>1. ASSUME PlaceInv, FlowInv PROVE LeftBehindBound
    <2> SUFFICES ASSUME stage \in {"feed", "done"}, input = <<>>
        PROVE  fed - Len(executed) <= num_collector_units + 2
      BY DEF LeftBehindBound
    <2>1. WarpTable = <<>> /\ Len(WarpTable) = 0 /\ Len(input) = 0
      BY <1>1 DEF PlaceInv, FeedInv, FlowInv, FewBehind
    <2>2. FlowNumbers
      BY <1>1, FlowCounts
    <2>3. fed = Taken
      BY <1>1, <2>1, <2>2 DEF FlowInv, InOrder, FlowNumbers
    <2>4. Cardinality(Busy) + Len(complete) <= num_collector_units
      BY <1>1, <2>2 DEF FlowInv, FewBehind, FlowNumbers, One
    <2> DEFINE a == Len(complete)
               b == One(fetched # NoWarp)
               d == One(latch.warp # NoWarp)
               e == Len(executed)
               h == Cardinality(Busy)
    <2>5. /\ a \in Nat /\ b \in 0 .. 1 /\ d \in 0 .. 1 /\ e \in Nat /\ h \in Nat
          /\ num_collector_units \in Nat
      BY <2>2 DEF FlowNumbers
    <2>6. Taken = h + (a + b + d + e)
      BY DEF Taken, Dispatched
    <2>7. h + a <= num_collector_units
      BY <2>4
    <2> HIDE DEF a, b, d, e, h
    <2>8. fed - e <= num_collector_units + 2
      BY <2>3, <2>5, <2>6, <2>7
    <2>9. QED
      BY <2>8 DEF e
  <1>2. QED
    BY <1>1, PlaceInit, PlaceInductive, FlowInit, FlowInductive, PTL DEF Spec

-----------------------------------------------------------------------------
(* The turns of the dispatch units.                                        *)

(* How many collectors find_ready() looks at before c.                     *)
Distance(u, c) ==
  IF c > m_last_cu[u] THEN c - m_last_cu[u] - 1
  ELSE c + num_collector_units - m_last_cu[u] - 1

(* A pair for each turn that the units may have passed over c.             *)
TurnsBefore(c) ==
  {p \in Units \X CollectorIds : p[2] + Distance(p[1], c) + 1 < num_collector_units}

TurnTypes ==
  /\ unit \in Nat
  /\ m_last_cu \in [Units -> CollectorIds]
  /\ passed \in [CollectorIds -> Nat]

(* Each time a unit passes over a ready collector it comes nearer to it.   *)
TurnInv ==
  /\ TurnTypes
  /\ \A c \in CollectorIds : passed[c] <= Cardinality(TurnsBefore(c))

(* Collectors are numbered from 0.                                         *)
LEMMA CollectorNumbers ==
  /\ num_collector_units \in Nat \ {0}
  /\ \A c : c \in CollectorIds <=> c \in Nat /\ c < num_collector_units
  <1>1. num_collector_units \in Nat \ {0}
    BY ArbiterAssumption
  <1>2. QED
    BY <1>1 DEF CollectorIds

(* find_ready() comes to a collector after that many others.               *)
LEMMA TurnDistance ==
  ASSUME TurnTypes, NEW u \in Units, NEW c \in CollectorIds
  PROVE  Distance(u, c) \in CollectorIds /\ Turn(u, Distance(u, c)) = c
  <1> DEFINE N == num_collector_units
             l == m_last_cu[u]
             x == l + Distance(u, c) + 1
  <1>1. N \in Nat \ {0} /\ c \in Nat /\ c < N /\ l \in Nat /\ l < N
    BY CollectorNumbers DEF TurnTypes
  <1>2. /\ Distance(u, c) \in Nat /\ Distance(u, c) < N
        /\ x = IF c > l THEN c ELSE c + N
    BY <1>1 DEF Distance
  <1>3. x \in 0 .. 2 * N - 1
    BY <1>1, <1>2
  <1> HIDE DEF x, N, l
  <1>4. x % N = c
    <2>1. x % N = IF x < N THEN x ELSE x - N
      BY <1>1, <1>3, ModOnce
    <2>2. QED
      BY <1>1, <1>2, <2>1
  <1>5. QED
    BY <1>2, <1>4, CollectorNumbers DEF x, N, l, Turn

(* A unit that takes collector c ahead of ready collector d comes nearer   *)
(* to d.                                                                   *)
LEMMA TurnNearer ==
  ASSUME TurnTypes, NEW u \in Units, NEW c \in CollectorIds, FirstReady(u, c),
         NEW d \in CollectorIds, d # c, Ready(d),
         m_last_cu' = [m_last_cu EXCEPT ![u] = c]
  PROVE  Distance(u, d)' < Distance(u, d)
  <1> DEFINE N == num_collector_units
             l == m_last_cu[u]
             k == Distance(u, d)
  <1>1. N \in Nat \ {0} /\ c \in Nat /\ c < N /\ l \in Nat /\ l < N /\ d \in Nat /\ d < N
    BY CollectorNumbers DEF TurnTypes
  <1>2. PICK n \in CollectorIds :
          /\ c = Turn(u, n)
          /\ \A i \in CollectorIds : i < n => ~Ready(Turn(u, i))
    BY DEF FirstReady
  <1>3. k \in CollectorIds /\ Turn(u, k) = d
    BY TurnDistance
  <1>4. n \in Nat /\ n < N /\ k \in Nat /\ k < N
    BY <1>2, <1>3, CollectorNumbers
  <1>5. n < k
    BY <1>2, <1>3, <1>4
  <1> DEFINE y == l + n + 1
  <1>6. c = IF y < N THEN y ELSE y - N
    <2>1. y \in 0 .. 2 * N - 1
      BY <1>1, <1>4
    <2>2. c = y % N
      BY <1>2 DEF Turn
    <2> HIDE DEF y, N
    <2>3. y % N = IF y < N THEN y ELSE y - N
      BY <1>1, <2>1, ModOnce
    <2>4. QED
      BY <2>2, <2>3
  <1>7. m_last_cu'[u] = c
    BY DEF TurnTypes
  <1>8. k = IF d > l THEN d - l - 1 ELSE d + N - l - 1
    BY DEF Distance
  <1>9. Distance(u, d)' = IF d > c THEN d - c - 1 ELSE d + N - c - 1
    BY <1>7 DEF Distance
  <1> HIDE DEF N, l, k
  <1>10. y = l + n + 1
    OBVIOUS
  <1> HIDE DEF y
  <1>11. (IF d > c THEN d - c - 1 ELSE d + N - c - 1) < k
    BY <1>1, <1>4, <1>5, <1>6, <1>8, <1>10
  <1>12. QED
    BY <1>9, <1>11 DEF k

(* The turns before a collector are finitely many.                         *)
LEMMA TurnsFinite ==
  /\ IsFiniteSet(Units) /\ Cardinality(Units) = num_dispatch_units
  /\ num_dispatch_units \in Nat \ {0}
  /\ \A c : IsFiniteSet(TurnsBefore(c)) /\ Cardinality(TurnsBefore(c)) \in Nat
  <1>1. IsFiniteSet(CollectorIds)
    BY HeldType
  <1>2. num_dispatch_units \in Nat \ {0}
    BY PipelineAssumption
  <1>3. IsFiniteSet(Units) /\ Cardinality(Units) = num_dispatch_units
    BY <1>2, FS_Interval DEF Units
  <1>4. IsFiniteSet(Units \X CollectorIds)
    BY <1>1, <1>3, FS_Product
  <1>5. ASSUME NEW c PROVE IsFiniteSet(TurnsBefore(c)) /\ Cardinality(TurnsBefore(c)) \in Nat
    <2>1. TurnsBefore(c) \subseteq Units \X CollectorIds
      BY DEF TurnsBefore
    <2>2. QED
      BY <1>4, <2>1, FS_Subset, FS_CardinalityType
  <1>6. QED
    BY <1>2, <1>3, <1>5

(* After a step as well.                                                   *)
LEMMA TurnsFiniteNext ==
  ASSUME NEW c PROVE IsFiniteSet(TurnsBefore(c)') /\ Cardinality(TurnsBefore(c)') \in Nat
  <1>1. TurnsBefore(c)' \subseteq Units \X CollectorIds
    BY DEF TurnsBefore
  <1>2. IsFiniteSet(Units \X CollectorIds)
    BY TurnsFinite, HeldType, FS_Product
  <1>3. QED
    BY <1>1, <1>2, FS_Subset, FS_CardinalityType

(* So there is one turn fewer that may pass over d.                        *)
LEMMA TurnGone ==
  ASSUME TurnTypes, TurnTypes', NEW u \in Units, NEW c \in CollectorIds, FirstReady(u, c),
         NEW d \in CollectorIds, d # c, Ready(d),
         m_last_cu' = [m_last_cu EXCEPT ![u] = c]
  PROVE  Cardinality(TurnsBefore(d)) + 1 <= Cardinality(TurnsBefore(d)')
  <1> DEFINE N == num_collector_units
             k == Distance(u, d)
             p == <<u, N - 1 - k>>
  <1>1. N \in Nat \ {0} /\ k \in Nat /\ k < N /\ N - 1 - k \in CollectorIds
    <2>1. k \in CollectorIds
      BY TurnDistance
    <2>2. N \in Nat \ {0} /\ k \in Nat /\ k < N
      BY <2>1, CollectorNumbers
    <2>3. N - 1 - k \in Nat /\ N - 1 - k < N
      BY <2>2
    <2>4. QED
      BY <2>2, <2>3, CollectorNumbers
  <1>2. Distance(u, d)' < k /\ Distance(u, d)' \in Int
    <2>1. c \in Nat /\ d \in Nat /\ N \in Nat /\ m_last_cu'[u] = c
      BY CollectorNumbers DEF TurnTypes
    <2>2. Distance(u, d)' = IF d > c THEN d - c - 1 ELSE d + N - c - 1
      BY <2>1 DEF Distance
    <2>3. Distance(u, d)' < k
      BY TurnNearer
    <2>4. Distance(u, d)' \in Int
      BY <2>1, <2>2
    <2>5. QED
      BY <2>3, <2>4
  <1>3. \A v \in Units : v # u => Distance(v, d)' = Distance(v, d)
    BY DEF Distance, TurnTypes
  <1>4. p \notin TurnsBefore(d)
    BY <1>1 DEF TurnsBefore
  <1>5. p \in TurnsBefore(d)'
    BY <1>1, <1>2 DEF TurnsBefore
  <1>6. TurnsBefore(d) \subseteq TurnsBefore(d)'
    <2> SUFFICES ASSUME NEW q \in TurnsBefore(d) PROVE q \in TurnsBefore(d)'
      OBVIOUS
    <2>1. q \in Units \X CollectorIds /\ q[2] + Distance(q[1], d) + 1 < N
      BY DEF TurnsBefore
    <2>2. q[1] \in Units /\ q[2] \in Nat
      BY <2>1, CollectorNumbers
    <2>3. CASE q[1] = u
      <3>1. q[2] + Distance(u, d)' + 1 < N
        BY <1>1, <1>2, <2>1, <2>2, <2>3
      <3>2. QED
        BY <2>1, <2>3, <3>1 DEF TurnsBefore
    <2>4. CASE q[1] # u
      <3>1. Distance(q[1], d)' = Distance(q[1], d)
        BY <1>3, <2>2, <2>4
      <3>2. QED
        BY <2>1, <3>1 DEF TurnsBefore
    <2>5. QED
      BY <2>3, <2>4
  <1> HIDE DEF p, k, N
  <1>7. IsFiniteSet(TurnsBefore(d)) /\ Cardinality(TurnsBefore(d)) \in Nat
    BY TurnsFinite
  <1>8. IsFiniteSet(TurnsBefore(d)')
    BY TurnsFiniteNext
  <1>9. Cardinality(TurnsBefore(d) \cup {p}) = Cardinality(TurnsBefore(d)) + 1
    BY <1>4, <1>7, FS_AddElement
  <1>10. Cardinality(TurnsBefore(d) \cup {p}) <= Cardinality(TurnsBefore(d)')
    <2>1. TurnsBefore(d) \cup {p} \subseteq TurnsBefore(d)'
      BY <1>5, <1>6
    <2>2. QED
      BY <1>8, <2>1, FS_Subset
  <1>11. QED
    BY <1>9, <1>10

(* No collector has been passed over.                                      *)
LEMMA TurnInit == Init => TurnInv
  <1> SUFFICES ASSUME Init PROVE TurnInv
    OBVIOUS
  <1>1. TurnTypes
    BY CollectorNumbers DEF Init, TurnTypes
  <1>2. \A c \in CollectorIds : passed[c] = 0
    BY DEF Init
  <1>3. QED
    BY <1>1, <1>2, TurnsFinite DEF TurnInv

(* Only dispatch_ready_cu() passes over a collector.                       *)
LEMMA TurnFrame ==
  ASSUME TurnInv, UNCHANGED <<m_last_cu, passed>>, unit' \in Nat
  PROVE  TurnInv'
  <1>1. \A c : TurnsBefore(c)' = TurnsBefore(c)
    BY DEF TurnsBefore, Distance
  <1>2. QED
    BY <1>1 DEF TurnInv, TurnTypes

(* A unit's turn.                                                          *)
LEMMA TurnDispatch == TurnInv /\ DispatchReady => TurnInv'
  <1> SUFFICES ASSUME TurnInv, DispatchReady PROVE TurnInv'
    OBVIOUS
  <1>1. unit \in Units /\ unit' = unit + 1 /\ unit' \in Nat
    BY DEF DispatchReady, TurnInv, TurnTypes
  <1>2. CASE UNCHANGED <<m_last_cu, passed>>
    BY <1>1, <1>2, TurnFrame
  <1>3. ASSUME NEW c \in CollectorIds, FirstReady(unit, c),
               m_last_cu' = [m_last_cu EXCEPT ![unit] = c],
               passed' = [d \in CollectorIds |->
                            IF Ready(d) /\ d # c THEN passed[d] + 1 ELSE 0]
        PROVE  TurnInv'
    <2>1. TurnTypes'
      BY <1>1, <1>3 DEF TurnInv, TurnTypes
    <2>2. ASSUME NEW d \in CollectorIds
          PROVE  passed'[d] <= Cardinality(TurnsBefore(d)')
      <3>1. CASE Ready(d) /\ d # c
        <4>1. Cardinality(TurnsBefore(d)) + 1 <= Cardinality(TurnsBefore(d)')
          BY <1>1, <1>3, <2>1, <3>1, TurnGone DEF TurnInv
        <4>2. passed'[d] = passed[d] + 1 /\ passed[d] <= Cardinality(TurnsBefore(d))
              /\ passed[d] \in Nat
          BY <1>3, <3>1 DEF TurnInv, TurnTypes
        <4>3. Cardinality(TurnsBefore(d)) \in Nat /\ Cardinality(TurnsBefore(d)') \in Nat
          BY TurnsFinite, TurnsFiniteNext
        <4>4. QED
          BY <4>1, <4>2, <4>3
      <3>2. CASE ~(Ready(d) /\ d # c)
        <4>1. passed'[d] = 0
          BY <1>3, <3>2
        <4>2. Cardinality(TurnsBefore(d)') \in Nat
          BY TurnsFiniteNext
        <4>3. QED
          BY <4>1, <4>2
      <3>3. QED
        BY <3>1, <3>2
    <2>3. QED
      BY <2>1, <2>2 DEF TurnInv
  <1>4. QED
    BY <1>2, <1>3 DEF DispatchReady

(* A ready collector is taken before it has been passed over that often.   *)
LEMMA TurnInductive == TurnInv /\ [Next]_vars => TurnInv'
  <1> SUFFICES ASSUME TurnInv, [Next]_vars PROVE TurnInv'
    OBVIOUS
  <1>1. CASE DispatchReady
    BY <1>1, TurnDispatch
  <1>2. CASE DrainEvents
    BY <1>2, TurnFrame DEF DrainEvents
  <1>3. CASE \/ Feed \/ Finish \/ FillWarpTable \/ Writeback \/ Execute
             \/ AllocateCu \/ AllocateReads \/ Schedule \/ Tick \/ UNCHANGED vars
    <2>1. UNCHANGED <<unit, m_last_cu, passed>>
      BY <1>3 DEF Feed, Finish, FillWarpTable, Writeback, Execute, AllocateCu,
                  AllocateReads, Schedule, Tick, collector, vars
    <2>2. QED
      BY <2>1, TurnFrame DEF TurnInv, TurnTypes
  <1>4. QED
    BY <1>1, <1>2, <1>3 DEF Next

(* The round robin of the dispatch units: a collector that has all its     *)
(* operands is passed over less often than there are collectors, by each   *)
(* unit, whatever the other collectors do.                                 *)
THEOREM ReadyWaitsOneRoundCorrect == Spec => []ReadyWaitsOneRound
  <1>1. ASSUME TurnInv, NEW c \in CollectorIds
        PROVE  passed[c] < num_collector_units * num_dispatch_units
    <2> DEFINE N == num_collector_units
               U == num_dispatch_units
    <2>1. TurnsBefore(c) \subseteq Units \X (0 .. N - 2)
      <3> SUFFICES ASSUME NEW p \in TurnsBefore(c) PROVE p \in Units \X (0 .. N - 2)
        OBVIOUS
      <3>1. p \in Units \X CollectorIds /\ p[2] + Distance(p[1], c) + 1 < N
        BY DEF TurnsBefore
      <3>2. p[1] \in Units /\ p[2] \in Nat /\ N \in Nat /\ Distance(p[1], c) \in Nat
        <4>1. p[1] \in Units /\ p[2] \in CollectorIds
          BY <3>1
        <4>2. Distance(p[1], c) \in CollectorIds
          BY <1>1, <4>1, TurnDistance DEF TurnInv
        <4>3. QED
          BY <4>1, <4>2, CollectorNumbers
      <3>3. p[2] \in 0 .. N - 2
        BY <3>1, <3>2
      <3>4. QED
        BY <3>1, <3>3
    <2>2. N \in Nat \ {0} /\ U \in Nat \ {0}
      BY CollectorNumbers, TurnsFinite
    <2>3. IsFiniteSet(0 .. N - 2) /\ Cardinality(0 .. N - 2) = N - 1
      <3>1. 0 \in Int /\ N - 2 \in Int
        BY <2>2
      <3>2. IsFiniteSet(0 .. N - 2)
            /\ Cardinality(0 .. N - 2) = IF 0 > N - 2 THEN 0 ELSE N - 2 - 0 + 1
        BY <3>1, FS_Interval
      <3>3. QED
        BY <2>2, <3>2
    <2>4. /\ IsFiniteSet(Units \X (0 .. N - 2))
          /\ Cardinality(Units \X (0 .. N - 2)) = U * (N - 1)
      BY <2>3, TurnsFinite, FS_Product
    <2>5. Cardinality(TurnsBefore(c)) <= U * (N - 1)
      BY <2>1, <2>4, FS_Subset
    <2>6. passed[c] <= Cardinality(TurnsBefore(c)) /\ passed[c] \in Nat
          /\ Cardinality(TurnsBefore(c)) \in Nat
      BY <1>1, TurnsFinite DEF TurnInv, TurnTypes
    <2> HIDE DEF N, U
    <2>7. U * (N - 1) < N * U /\ U * (N - 1) \in Nat /\ N * U \in Nat
      BY <2>2
    <2>8. passed[c] < N * U
      BY <2>5, <2>6, <2>7
    <2>9. QED
      BY <2>8 DEF N, U
  <1>2. TurnInv => ReadyWaitsOneRound
    BY <1>1 DEF ReadyWaitsOneRound
  <1>3. QED
    BY <1>2, TurnInit, TurnInductive, PTL DEF Spec

=============================================================================
