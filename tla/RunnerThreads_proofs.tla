------------------------ MODULE RunnerThreads_proofs ------------------------
(*************************************************************************)
(* Proofs about RunnerThreads, for every number of threads, cores,       *)
(* kernels, blocks and cycles: the phasers count what the threads do,    *)
(* the global clock does not fall behind all the others, no thread runs  *)
(* far ahead of the epochs, no block is simulated twice or left out, and *)
(* the threads and main never wait for each other in a circle.           *)
(*************************************************************************)
EXTENDS RunnerThreads, FiniteSetTheorems, TLAPS

USE DEF Nobody

-----------------------------------------------------------------------------
(* Lemmas about one phaser p, its members and their last arrivals.         *)

Arrivals == [Threads -> Nat \cup {-1}]

LEMMA ThreadsFinite ==
  /\ IsFiniteSet(Threads)
  /\ \A S \in SUBSET Threads : IsFiniteSet(S) /\ Cardinality(S) \in Nat
<1>1. 0 \in Int /\ MaxNumJavaThreads - 1 \in Int
  BY RunnerAssumption
<1>2. IsFiniteSet(Threads)
  BY <1>1, FS_Interval DEF Threads
<1>3. QED
  BY <1>2, FS_Subset, FS_CardinalityType

(* A member that has not arrived in this phase arrives. *)
LEMMA ArriveAccounted ==
  ASSUME NEW members \in SUBSET Threads, NEW previous \in Arrivals,
         NEW p \in PhaserType, NEW t \in members,
         Accounted(members, previous, p),
         CanArrive(p), previous[t] # p.phase
  PROVE  /\ Arrive(p, t) \in PhaserType
         /\ Arrive(p, t).phase = p.phase
         /\ Accounted(members, [previous EXCEPT ![t] = p.phase], Arrive(p, t))
<1> DEFINE q == Arrive(p, t)
           now == [previous EXCEPT ![t] = p.phase]
<1>1. /\ q \in PhaserType
      /\ q.phase = p.phase /\ q.parties = p.parties
      /\ q.unarrived = p.unarrived - 1
      /\ q.advancer = Nobody => q.unarrived > 0
  BY RunnerAssumption
  DEF PhaserType, Phaser, Arrive, AfterArrival, CanArrive, Threads
<1>2. Pending(members, now, q) = Pending(members, previous, p) \ {t}
  BY <1>1 DEF Pending, Arrivals, PhaserType
<1>3. CountedTwice(members, now, q) = CountedTwice(members, previous, p)
  BY <1>1 DEF CountedTwice, Arrivals
<1>4. t \in Pending(members, previous, p)
  BY DEF Pending
<1>5. /\ Pending(members, previous, p) \in SUBSET Threads
      /\ CountedTwice(members, previous, p) \in SUBSET Threads
  BY DEF Pending, CountedTwice
<1>0. /\ IsFiniteSet(Pending(members, previous, p))
      /\ Cardinality(Pending(members, previous, p)) \in Nat
      /\ Cardinality(CountedTwice(members, previous, p)) \in Nat
  BY <1>5, ThreadsFinite
<1>6. Cardinality(Pending(members, now, q))
        = Cardinality(Pending(members, previous, p)) - 1
  <2>1. Cardinality(Pending(members, now, q))
          = Cardinality(Pending(members, previous, p) \ {t})
    BY <1>2
  <2> QED
    BY <2>1, <1>4, <1>0, FS_RemoveElement
<1>7. Accounted(members, now, q)
  BY <1>1, <1>3, <1>5, <1>6, ThreadsFinite DEF Accounted, PhaserType
<1> QED
  BY <1>1, <1>7

(* A member arrives and leaves, whether or not it has arrived before. *)
LEMMA DeregisterAccounted ==
  ASSUME NEW members \in SUBSET Threads, NEW previous \in Arrivals,
         NEW p \in PhaserType, NEW t \in members,
         Accounted(members, previous, p), CanArrive(p)
  PROVE  /\ ArriveAndDeregister(p, t) \in PhaserType
         /\ ArriveAndDeregister(p, t).phase = p.phase
         /\ Accounted(members \ {t}, previous, ArriveAndDeregister(p, t))
<1> DEFINE q == ArriveAndDeregister(p, t)
           P == Pending(members, previous, p)
           C == CountedTwice(members, previous, p)
<1>1. Cardinality(members \ {t}) = Cardinality(members) - 1
      /\ Cardinality(members) \in Nat /\ Cardinality(members \ {t}) \in Nat
  BY ThreadsFinite, FS_RemoveElement
<1>2. p.parties = Cardinality(members) /\ p.parties - 1 \in Nat
  BY <1>1 DEF Accounted
<1>3. /\ q \in PhaserType
      /\ q.phase = p.phase /\ q.parties = p.parties - 1
      /\ q.unarrived = p.unarrived - 1
      /\ q.advancer = Nobody => q.unarrived > 0
  BY <1>2, RunnerAssumption
  DEF PhaserType, Phaser, ArriveAndDeregister, AfterArrival, CanArrive, Threads
<1>4. P \in SUBSET Threads /\ C \in SUBSET Threads
  BY DEF Pending, CountedTwice
<1>0. Cardinality(P) \in Nat /\ Cardinality(C) \in Nat
      /\ IsFiniteSet(P) /\ IsFiniteSet(C)
  BY <1>4, ThreadsFinite
<1>5. Cardinality(Pending(members \ {t}, previous, q))
        - Cardinality(CountedTwice(members \ {t}, previous, q))
      = Cardinality(P) - Cardinality(C) - 1
  <2>1. CASE previous[t] = p.phase
    <3>1. Pending(members \ {t}, previous, q) = P
      BY <1>3, <2>1 DEF Pending
    <3>2. CountedTwice(members \ {t}, previous, q) = C \cup {t} /\ t \notin C
      BY <1>3, <2>1 DEF CountedTwice
    <3>3. Cardinality(C \cup {t}) = Cardinality(C) + 1
      BY <3>2, <1>0, FS_AddElement
    <3>4. /\ Cardinality(Pending(members \ {t}, previous, q)) = Cardinality(P)
          /\ Cardinality(CountedTwice(members \ {t}, previous, q))
               = Cardinality(C \cup {t})
      BY <3>1, <3>2
    <3> QED
      BY <3>3, <3>4, <1>0
  <2>2. CASE previous[t] # p.phase
    <3>1. Pending(members \ {t}, previous, q) = P \ {t} /\ t \in P
      BY <1>3, <2>2 DEF Pending
    <3>2. CountedTwice(members \ {t}, previous, q) = C
      BY <1>3, <2>2 DEF CountedTwice
    <3>3. Cardinality(P \ {t}) = Cardinality(P) - 1
      BY <3>1, <1>0, FS_RemoveElement
    <3>4. /\ Cardinality(Pending(members \ {t}, previous, q))
               = Cardinality(P \ {t})
          /\ Cardinality(CountedTwice(members \ {t}, previous, q))
               = Cardinality(C)
      BY <3>1, <3>2
    <3> QED
      BY <3>3, <3>4, <1>0
  <2> QED
    BY <2>1, <2>2
<1>6. p.unarrived = Cardinality(P) - Cardinality(C)
  BY DEF Accounted
<1>7. Accounted(members \ {t}, previous, q)
  BY <1>1, <1>2, <1>3, <1>4, <1>5, <1>6, ThreadsFinite DEF Accounted, PhaserType
<1> QED
  BY <1>3, <1>7

(* A thread that had left joins again, perhaps in the phase it left in. *)
LEMMA RegisterAccounted ==
  ASSUME NEW members \in SUBSET Threads, NEW previous \in Arrivals,
         NEW p \in PhaserType, NEW t \in Threads \ members,
         Accounted(members, previous, p)
  PROVE  /\ Register(p) \in PhaserType
         /\ Register(p).phase = p.phase
         /\ Accounted(members \cup {t}, previous, Register(p))
<1> DEFINE q == Register(p)
           P == Pending(members, previous, p)
           C == CountedTwice(members, previous, p)
<1>1. /\ q \in PhaserType
      /\ q.phase = p.phase /\ q.parties = p.parties + 1
      /\ q.unarrived = p.unarrived + 1 /\ q.unarrived > 0
  BY DEF PhaserType, Phaser, Register
<1>2. /\ Cardinality(members \cup {t}) = Cardinality(members) + 1
      /\ Cardinality(members) \in Nat
  BY ThreadsFinite, FS_AddElement
<1>3. P \in SUBSET Threads /\ C \in SUBSET Threads
  BY DEF Pending, CountedTwice
<1>0. Cardinality(P) \in Nat /\ Cardinality(C) \in Nat
      /\ IsFiniteSet(P) /\ IsFiniteSet(C)
  BY <1>3, ThreadsFinite
<1>4. Cardinality(Pending(members \cup {t}, previous, q))
        - Cardinality(CountedTwice(members \cup {t}, previous, q))
      = Cardinality(P) - Cardinality(C) + 1
  <2>1. CASE previous[t] = p.phase
    <3>1. Pending(members \cup {t}, previous, q) = P
      BY <1>1, <2>1 DEF Pending
    <3>2. CountedTwice(members \cup {t}, previous, q) = C \ {t} /\ t \in C
      BY <1>1, <2>1 DEF CountedTwice
    <3>3. Cardinality(C \ {t}) = Cardinality(C) - 1
      BY <3>2, <1>0, FS_RemoveElement
    <3>4. /\ Cardinality(Pending(members \cup {t}, previous, q))
               = Cardinality(P)
          /\ Cardinality(CountedTwice(members \cup {t}, previous, q))
               = Cardinality(C \ {t})
      BY <3>1, <3>2
    <3> QED
      BY <3>3, <3>4, <1>0
  <2>2. CASE previous[t] # p.phase
    <3>1. Pending(members \cup {t}, previous, q) = P \cup {t} /\ t \notin P
      BY <1>1, <2>2 DEF Pending
    <3>2. CountedTwice(members \cup {t}, previous, q) = C
      BY <1>1, <2>2 DEF CountedTwice
    <3>3. Cardinality(P \cup {t}) = Cardinality(P) + 1
      BY <3>1, <1>0, FS_AddElement
    <3>4. /\ Cardinality(Pending(members \cup {t}, previous, q))
               = Cardinality(P \cup {t})
          /\ Cardinality(CountedTwice(members \cup {t}, previous, q))
               = Cardinality(C)
      BY <3>1, <3>2
    <3> QED
      BY <3>3, <3>4, <1>0
  <2> QED
    BY <2>1, <2>2
<1>5. p.unarrived = Cardinality(P) - Cardinality(C)
      /\ p.parties = Cardinality(members)
  BY DEF Accounted
<1>6. Accounted(members \cup {t}, previous, q)
  BY <1>1, <1>2, <1>3, <1>4, <1>5, ThreadsFinite DEF Accounted, PhaserType
<1> QED
  BY <1>1, <1>6

(* The advance to the next phase, in which nobody has arrived. *)
LEMMA PublishAccounted ==
  ASSUME NEW members \in SUBSET Threads, NEW previous \in Arrivals,
         NEW p \in PhaserType,
         Accounted(members, previous, p),
         \A t \in Threads : previous[t] <= p.phase
  PROVE  /\ Publish(p) \in PhaserType
         /\ Publish(p).phase = p.phase + 1
         /\ Accounted(members, previous, Publish(p))
<1> DEFINE q == Publish(p)
<1>1. /\ q \in PhaserType
      /\ q.phase = p.phase + 1 /\ q.parties = p.parties
      /\ q.unarrived = p.parties
  BY DEF PhaserType, Phaser, Publish
<1>2. \A t \in Threads : previous[t] # q.phase
  BY <1>1 DEF Arrivals, PhaserType
<1>3. Pending(members, previous, q) = members
  BY <1>2 DEF Pending
<1>4. CountedTwice(members, previous, q) = {}
  BY <1>2 DEF CountedTwice
<1>5. Cardinality({}) = 0 /\ Cardinality(members) \in Nat
  BY ThreadsFinite, FS_EmptySet
<1>6. Accounted(members, previous, q)
  BY <1>1, <1>3, <1>4, <1>5 DEF Accounted, PhaserType
<1> QED
  BY <1>1, <1>6

-----------------------------------------------------------------------------
(* The members of the two phasers, and what a step does to them.           *)

LeftEpoch == {"awaitCore", "rejoinEpoch", "finishCore", "release", "done",
              "deadInCore"}
LeftCore  == {"release", "done"}

LEMMA Members ==
  /\ EpochMembers = {t \in Threads : pc[t] \notin LeftEpoch}
  /\ CoreMembers = {t \in Threads : pc[t] \notin LeftCore}
  /\ EpochMembers \in SUBSET Threads
  /\ CoreMembers \in SUBSET Threads
BY DEF EpochMembers, CoreMembers, LeftEpoch, LeftCore

LEMMA GotoMembers ==
  ASSUME pc \in [Threads -> Locations], NEW t \in Threads,
         NEW l \in Locations, Goto(t, l)
  PROVE  /\ pc' \in [Threads -> Locations]
         /\ pc'[t] = l
         /\ \A u \in Threads \ {t} : pc'[u] = pc[u]
         /\ l \in LeftEpoch => EpochMembers' = EpochMembers \ {t}
         /\ l \notin LeftEpoch => EpochMembers' = EpochMembers \cup {t}
         /\ (l \in LeftEpoch <=> pc[t] \in LeftEpoch)
              => EpochMembers' = EpochMembers
         /\ l \in LeftCore => CoreMembers' = CoreMembers \ {t}
         /\ (l \in LeftCore <=> pc[t] \in LeftCore)
              => CoreMembers' = CoreMembers
<1>1. /\ pc' \in [Threads -> Locations] /\ pc'[t] = l
      /\ \A u \in Threads \ {t} : pc'[u] = pc[u]
  BY DEF Goto
<1>2. /\ EpochMembers' = {u \in Threads : pc'[u] \notin LeftEpoch}
      /\ CoreMembers' = {u \in Threads : pc'[u] \notin LeftCore}
  BY DEF EpochMembers, CoreMembers, LeftEpoch, LeftCore
<1>3. /\ l \in LeftEpoch => EpochMembers' = EpochMembers \ {t}
      /\ l \notin LeftEpoch => EpochMembers' = EpochMembers \cup {t}
      /\ (l \in LeftEpoch <=> pc[t] \in LeftEpoch)
           => EpochMembers' = EpochMembers
  BY <1>1, <1>2, Members
<1>4. /\ l \in LeftCore => CoreMembers' = CoreMembers \ {t}
      /\ (l \in LeftCore <=> pc[t] \in LeftCore)
           => CoreMembers' = CoreMembers
  BY <1>1, <1>2, Members
<1> QED
  BY <1>1, <1>3, <1>4

LEMMA InvTypes ==
  ASSUME IndInv
  PROVE  /\ pc \in [Threads -> Locations]
         /\ epochEnd \in PhaserType /\ coreEnd \in PhaserType
         /\ epochEnd.phase \in Nat /\ coreEnd.phase \in Nat
         /\ previousPhase \in Arrivals /\ previousCore \in Arrivals
         /\ thrown \subseteq Threads
BY DEF IndInv, TypeOK, Arrivals, PhaserType

(* The two arrive() calls on epochEnd. *)
LEMMA EpochArriveStep ==
  ASSUME IndInv, NEW t \in Threads, pc[t] \in {"joinEpoch", "arriveEpoch"},
         NEW next \in Locations \ LeftEpoch,
         EpochArrive(t, next)
  PROVE  /\ epochEnd' \in PhaserType /\ epochEnd'.phase = epochEnd.phase
         /\ previousPhase' \in Arrivals
         /\ \A u \in Threads \ {t} : previousPhase'[u] = previousPhase[u]
         /\ previousPhase'[t] \in {previousPhase[t], epochEnd.phase}
         /\ Goto(t, next) \/ Goto(t, "dead")
         /\ thrown' \subseteq Threads
         /\ Accounted(EpochMembers', previousPhase', epochEnd')
<1> USE InvTypes
<1>0. "dead" \in Locations \ LeftEpoch
  BY DEF Locations, LeftEpoch
<1>1. /\ t \in EpochMembers /\ previousPhase[t] # epochEnd.phase
      /\ Accounted(EpochMembers, previousPhase, epochEnd)
      /\ pc[t] \notin LeftEpoch
  BY Members DEF IndInv, ArrivesOnce, EpochAccounting, LeftEpoch
<1>2. CASE CanArrive(epochEnd)
  <2>1. /\ epochEnd' = Arrive(epochEnd, t) /\ Goto(t, next) /\ thrown' = thrown
        /\ previousPhase' = [previousPhase EXCEPT ![t] = epochEnd.phase]
    BY <1>2 DEF EpochArrive, EpochCall
  <2>2. EpochMembers' = EpochMembers
    BY <2>1, <1>1, GotoMembers
  <2>3. /\ Arrive(epochEnd, t) \in PhaserType
        /\ Arrive(epochEnd, t).phase = epochEnd.phase
        /\ Accounted(EpochMembers, [previousPhase EXCEPT ![t] = epochEnd.phase],
                     Arrive(epochEnd, t))
    BY <1>1, <1>2, Members, ArriveAccounted
  <2> QED
    BY <2>1, <2>2, <2>3 DEF Arrivals
<1>3. CASE ~CanArrive(epochEnd)
  <2>1. /\ epochEnd' = epochEnd /\ previousPhase' = previousPhase /\ Goto(t, "dead")
        /\ thrown' = thrown \cup {t}
    BY <1>3 DEF EpochArrive, EpochCall
  <2>2. EpochMembers' = EpochMembers
    BY <2>1, <1>1, <1>0, GotoMembers
  <2> QED
    BY <2>1, <2>2, <1>1
<1> QED
  BY <1>2, <1>3

(* The two arrive() calls on coreEnd. *)
LEMMA CoreArriveStep ==
  ASSUME IndInv, NEW t \in Threads, pc[t] \in {"joinCore", "arriveCore"},
         NEW next \in Locations \ LeftCore,
         NEW catch \in Locations \ LeftCore,
         CoreArrive(t, next, catch)
  PROVE  /\ coreEnd' \in PhaserType /\ coreEnd'.phase = coreEnd.phase
         /\ previousCore' \in Arrivals
         /\ \A u \in Threads \ {t} : previousCore'[u] = previousCore[u]
         /\ previousCore'[t] \in {previousCore[t], coreEnd.phase}
         /\ Goto(t, next) \/ Goto(t, catch)
         /\ thrown' \subseteq Threads
         /\ Accounted(CoreMembers', previousCore', coreEnd')
<1> USE InvTypes
<1>1. /\ t \in CoreMembers /\ previousCore[t] # coreEnd.phase
      /\ Accounted(CoreMembers, previousCore, coreEnd)
      /\ pc[t] \notin LeftCore
  BY Members DEF IndInv, ArrivesOnce, CoreAccounting, LeftCore
<1>2. CASE CanArrive(coreEnd)
  <2>1. /\ coreEnd' = Arrive(coreEnd, t) /\ Goto(t, next) /\ thrown' = thrown
        /\ previousCore' = [previousCore EXCEPT ![t] = coreEnd.phase]
    BY <1>2 DEF CoreArrive, CoreCall
  <2>2. CoreMembers' = CoreMembers
    BY <2>1, <1>1, GotoMembers
  <2>3. /\ Arrive(coreEnd, t) \in PhaserType
        /\ Arrive(coreEnd, t).phase = coreEnd.phase
        /\ Accounted(CoreMembers, [previousCore EXCEPT ![t] = coreEnd.phase],
                     Arrive(coreEnd, t))
    BY <1>1, <1>2, Members, ArriveAccounted
  <2> QED
    BY <2>1, <2>2, <2>3 DEF Arrivals
<1>3. CASE ~CanArrive(coreEnd)
  <2>1. /\ coreEnd' = coreEnd /\ previousCore' = previousCore /\ Goto(t, catch)
        /\ thrown' = thrown \cup {t}
    BY <1>3 DEF CoreArrive, CoreCall
  <2>2. CoreMembers' = CoreMembers
    BY <2>1, <1>1, GotoMembers
  <2> QED
    BY <2>1, <2>2, <1>1
<1> QED
  BY <1>2, <1>3

(* The arriveAndDeregister() calls on epochEnd. *)
LEMMA EpochLeaveStep ==
  ASSUME IndInv, NEW t \in Threads, pc[t] \in {"leaveEpoch", "finishEpoch"},
         NEW next \in Locations \cap LeftEpoch,
         NEW catch \in Locations \ LeftEpoch,
         EpochCall(t, ArriveAndDeregister(epochEnd, t), next, catch),
         UNCHANGED previousPhase
  PROVE  /\ epochEnd' \in PhaserType /\ epochEnd'.phase = epochEnd.phase
         /\ Goto(t, next) \/ Goto(t, catch)
         /\ thrown' \subseteq Threads
         /\ Accounted(EpochMembers', previousPhase', epochEnd')
<1> USE InvTypes
<1>1. /\ t \in EpochMembers /\ pc[t] \notin LeftEpoch
      /\ Accounted(EpochMembers, previousPhase, epochEnd)
  BY Members DEF IndInv, EpochAccounting, LeftEpoch
<1>2. CASE CanArrive(epochEnd)
  <2>1. /\ epochEnd' = ArriveAndDeregister(epochEnd, t)
        /\ Goto(t, next) /\ thrown' = thrown
    BY <1>2 DEF EpochCall
  <2>2. EpochMembers' = EpochMembers \ {t}
    BY <2>1, GotoMembers
  <2>3. /\ epochEnd' \in PhaserType /\ epochEnd'.phase = epochEnd.phase
        /\ Accounted(EpochMembers \ {t}, previousPhase, epochEnd')
    BY <2>1, <1>1, <1>2, Members, DeregisterAccounted
  <2> QED
    BY <2>1, <2>2, <2>3
<1>3. CASE ~CanArrive(epochEnd)
  <2>1. epochEnd' = epochEnd /\ Goto(t, catch) /\ thrown' = thrown \cup {t}
    BY <1>3 DEF EpochCall
  <2>2. EpochMembers' = EpochMembers
    BY <2>1, <1>1, GotoMembers
  <2> QED
    BY <2>1, <2>2, <1>1
<1> QED
  BY <1>2, <1>3

(* The arriveAndDeregister() calls on coreEnd. *)
LEMMA CoreLeaveStep ==
  ASSUME IndInv, NEW t \in Threads, pc[t] \in {"finishCore"},
         NEW next \in Locations \cap LeftCore,
         NEW catch \in Locations \ LeftCore,
         CoreCall(t, ArriveAndDeregister(coreEnd, t), next, catch),
         UNCHANGED previousCore
  PROVE  /\ coreEnd' \in PhaserType /\ coreEnd'.phase = coreEnd.phase
         /\ Goto(t, next) \/ Goto(t, catch)
         /\ thrown' \subseteq Threads
         /\ Accounted(CoreMembers', previousCore', coreEnd')
<1> USE InvTypes
<1>1. /\ t \in CoreMembers /\ pc[t] \notin LeftCore
      /\ Accounted(CoreMembers, previousCore, coreEnd)
  BY Members DEF IndInv, CoreAccounting, LeftCore
<1>2. CASE CanArrive(coreEnd)
  <2>1. /\ coreEnd' = ArriveAndDeregister(coreEnd, t)
        /\ Goto(t, next) /\ thrown' = thrown
    BY <1>2 DEF CoreCall
  <2>2. CoreMembers' = CoreMembers \ {t}
    BY <2>1, GotoMembers
  <2>3. /\ coreEnd' \in PhaserType /\ coreEnd'.phase = coreEnd.phase
        /\ Accounted(CoreMembers \ {t}, previousCore, coreEnd')
    BY <2>1, <1>1, <1>2, Members, DeregisterAccounted
  <2> QED
    BY <2>1, <2>2, <2>3
<1>3. CASE ~CanArrive(coreEnd)
  <2>1. coreEnd' = coreEnd /\ Goto(t, catch) /\ thrown' = thrown \cup {t}
    BY <1>3 DEF CoreCall
  <2>2. CoreMembers' = CoreMembers
    BY <2>1, <1>1, GotoMembers
  <2> QED
    BY <2>1, <2>2, <1>1
<1> QED
  BY <1>2, <1>3

-----------------------------------------------------------------------------
(* Type correctness.                                                       *)

LEMMA ShareType ==
  ASSUME NEW c \in Nat, NEW k \in Kernels
  PROVE  Share(c, k) \in Nat
<1>1. totalNumCores \in Nat \ {0} /\ totalBlocks[k] \in Nat
  BY RunnerAssumption
<1>2. totalBlocks[k] \div totalNumCores \in Nat
  BY <1>1
<1>3. QED
  BY <1>1, <1>2 DEF Share

(* initialize() keeps the types and ends in one of five places. *)
LEMMA InitializeType ==
  ASSUME TypeOK, NEW t \in Threads, NEW k \in Nat, Initialize(t, k),
         blocksDone' \in [Kernels -> Nat]
  PROVE  TypeOK'
<1> DEFINE n == IF k < totalNumKernels THEN Share(coreid[t], k) ELSE 0
<1>1. n \in Nat
  <2>1. CASE k < totalNumKernels
    <3>1. k \in Kernels /\ coreid[t] \in Nat
      BY <2>1, RunnerAssumption DEF TypeOK, Kernels
    <3> QED
      BY <2>1, <3>1, ShareType
  <2>2. CASE ~(k < totalNumKernels)
    BY <2>2
  <2> QED
    BY <2>1, <2>2
<1>2. \E l \in Locations : Goto(t, l)
  BY DEF Initialize, KernelEntry, Locations
<1>3. pc' \in [Threads -> Locations]
  BY <1>2 DEF TypeOK, Goto
<1>4. /\ kernelExecuted' \in [Threads -> Nat]
      /\ epochCount' \in [Threads -> Nat]
      /\ sinceSync' \in [Threads -> Nat]
      /\ cycles' \in [Threads -> Nat]
      /\ TOTALBLOCKS' \in [Threads -> Nat]
  <2>1. TOTALBLOCKS' = [TOTALBLOCKS EXCEPT ![t] = n]
    BY DEF Initialize
  <2>2. TOTALBLOCKS' \in [Threads -> Nat]
    BY <2>1, <1>1 DEF TypeOK
  <2> QED
    BY <2>2 DEF TypeOK, Initialize
<1>5. UNCHANGED <<coreid, clocks, newCount, previousPhase, epochEnd, resetting,
                  cores, main, thrown>>
  BY DEF Initialize
<1> QED
  BY <1>3, <1>4, <1>5 DEF TypeOK, clocks, cores, main

THEOREM TypeStep == IndInv /\ [Next]_vars => TypeOK'
<1> SUFFICES ASSUME IndInv, [Next]_vars
             PROVE  TypeOK'
  OBVIOUS
<1>0. TypeOK
  BY DEF IndInv
<1>1. ASSUME NEW t \in Threads, Boot(t) PROVE TypeOK'
  <2>1. Initialize(t, 0) /\ blocksDone' \in [Kernels -> Nat]
    BY <1>0, <1>1 DEF Boot, TypeOK
  <2> QED
    BY <1>0, <2>1, InitializeType
<1>2. ASSUME NEW t \in Threads, JoinCore(t) PROVE TypeOK'
  <2>1. /\ coreEnd' \in PhaserType /\ previousCore' \in Arrivals
        /\ thrown' \subseteq Threads
        /\ Goto(t, "joinEpoch") \/ Goto(t, "dead")
    BY <1>2, CoreArriveStep DEF JoinCore, At, Locations, LeftCore
  <2> QED
    BY <1>0, <1>2, <2>1
    DEF TypeOK, Arrivals, JoinCore, Goto, Locations, work, clocks, epochs, main
<1>3. ASSUME NEW t \in Threads, JoinEpoch(t) PROVE TypeOK'
  <2>1. KernelEntry(TOTALBLOCKS[t]) \in Locations \ LeftEpoch
    BY DEF KernelEntry, Locations, LeftEpoch
  <2>2. /\ epochEnd' \in PhaserType /\ previousPhase' \in Arrivals
        /\ thrown' \subseteq Threads
        /\ Goto(t, KernelEntry(TOTALBLOCKS[t])) \/ Goto(t, "dead")
    BY <1>3, <2>1, EpochArriveStep DEF JoinEpoch, At
  <2>3. pc' \in [Threads -> Locations] /\ resetting' \in BOOLEAN
    BY <1>0, <1>3, <2>1, <2>2, ZenonT(60)
    DEF TypeOK, Goto, Locations, JoinEpoch, EpochArrive, EpochCall
  <2> QED
    BY <1>0, <1>3, <2>2, <2>3
    DEF TypeOK, Arrivals, JoinEpoch, work, clocks, cores, main
<1>4. ASSUME NEW t \in Threads, SkipKernel(t) PROVE TypeOK'
  <2>1. /\ kernelExecuted[t] + 1 \in Nat
        /\ Initialize(t, kernelExecuted[t] + 1)
        /\ blocksDone' \in [Kernels -> Nat]
    BY <1>0, <1>4 DEF SkipKernel, TypeOK
  <2> QED
    BY <1>0, <2>1, InitializeType
<1>5. ASSUME NEW t \in Threads, EndKernel(t) PROVE TypeOK'
  <2> DEFINE k == kernelExecuted[t]
  <2>1. k + 1 \in Nat /\ TOTALBLOCKS[t] \in Nat
    BY <1>0 DEF TypeOK
  <2>2. /\ Initialize(t, k + 1)
        /\ blocksDone' = [blocksDone EXCEPT ![k] = @ + TOTALBLOCKS[t]]
    BY <1>5 DEF EndKernel
  <2>3. k \in Kernels => blocksDone[k] + TOTALBLOCKS[t] \in Nat
    BY <1>0, <2>1 DEF TypeOK
  <2>4. blocksDone' \in [Kernels -> Nat]
    BY <1>0, <2>2, <2>3 DEF TypeOK
  <2> QED
    BY <1>0, <2>1, <2>2, <2>4, InitializeType
<1>6. ASSUME NEW t \in Threads, Cycle(t) PROVE TypeOK'
  BY <1>0, <1>6
  DEF TypeOK, Cycle, At, Goto, Locations, work, clocks, epochs, cores, main
<1>7. ASSUME NEW t \in Threads, SetGlobal(t) PROVE TypeOK'
  BY <1>0, <1>7
  DEF TypeOK, SetGlobal, At, Goto, Locations, work, clocks, epochs, cores, main
<1>8. ASSUME NEW t \in Threads, Count(t) PROVE TypeOK'
  BY <1>0, <1>8
  DEF TypeOK, Count, At, Goto, Locations, work, clocks, epochs, cores, main
<1>9. ASSUME NEW t \in Threads, CountWrite(t) PROVE TypeOK'
  BY <1>0, <1>9
  DEF TypeOK, CountWrite, At, Goto, Locations, work, clocks, epochs, cores, main
<1>10. ASSUME NEW t \in Threads, Check(t) PROVE TypeOK'
  BY <1>0, <1>10
  DEF TypeOK, Check, At, Goto, Locations, work, clocks, epochs, cores, main
<1>11. ASSUME NEW t \in Threads, AwaitEpoch(t) PROVE TypeOK'
  BY <1>0, <1>11
  DEF TypeOK, AwaitEpoch, At, Goto, Locations, work, clocks, epochs, cores, main
<1>12. ASSUME NEW t \in Threads, ArriveEpoch(t) PROVE TypeOK'
  <2>1. /\ epochEnd' \in PhaserType /\ previousPhase' \in Arrivals
        /\ thrown' \subseteq Threads
        /\ Goto(t, "cycle") \/ Goto(t, "dead")
    BY <1>12, EpochArriveStep DEF ArriveEpoch, At, Locations, LeftEpoch
  <2>2. pc' \in [Threads -> Locations] /\ resetting' \in BOOLEAN
    BY <1>0, <1>12, <2>1
    DEF TypeOK, Goto, Locations, ArriveEpoch, EpochArrive, EpochCall
  <2> QED
    BY <1>0, <1>12, <2>1, <2>2
    DEF TypeOK, Arrivals, ArriveEpoch, work, clocks, cores, main
<1>13. ASSUME NEW t \in Threads, HandOver(t) PROVE TypeOK'
  BY <1>0, <1>13
  DEF TypeOK, HandOver, At, Goto, Locations, work, clocks, epochs, cores, main
<1>14. ASSUME NEW t \in Threads, LeaveEpoch(t) PROVE TypeOK'
  <2>1. /\ epochEnd' \in PhaserType /\ thrown' \subseteq Threads
        /\ Goto(t, "awaitCore") \/ Goto(t, "finishEpoch")
    BY <1>14, EpochLeaveStep DEF LeaveEpoch, At, Locations, LeftEpoch
  <2>2. pc' \in [Threads -> Locations] /\ resetting' \in BOOLEAN
    BY <1>0, <1>14, <2>1 DEF TypeOK, Goto, Locations, LeaveEpoch, EpochCall
  <2> QED
    BY <1>0, <1>14, <2>1, <2>2
    DEF TypeOK, LeaveEpoch, work, clocks, cores, main
<1>15. ASSUME NEW t \in Threads, AwaitCore(t) PROVE TypeOK'
  BY <1>0, <1>15
  DEF TypeOK, AwaitCore, At, Goto, Locations, work, clocks, epochs, cores, main
<1>16. ASSUME NEW t \in Threads, RejoinEpoch(t) PROVE TypeOK'
  <2>1. Register(epochEnd) \in PhaserType
    BY <1>0 DEF TypeOK, PhaserType, Register, Phaser
  <2> QED
    BY <1>0, <1>16, <2>1
    DEF TypeOK, RejoinEpoch, Goto, Locations, work, clocks, cores, main
<1>17. ASSUME NEW t \in Threads, ArriveCore(t) PROVE TypeOK'
  <2>1. /\ coreEnd' \in PhaserType /\ previousCore' \in Arrivals
        /\ thrown' \subseteq Threads
        /\ Goto(t, "move") \/ Goto(t, "finishEpoch")
    BY <1>17, CoreArriveStep DEF ArriveCore, At, Locations, LeftCore
  <2> QED
    BY <1>0, <1>17, <2>1
    DEF TypeOK, Arrivals, ArriveCore, Goto, Locations, work, clocks, epochs, main
<1>18. ASSUME NEW t \in Threads, Move(t) PROVE TypeOK'
  <2> DEFINE c == coreid[t] + MaxNumJavaThreads
             n == Share(c, 0)
  <2>1. c \in Nat /\ 0 \in Kernels
    BY <1>0, RunnerAssumption DEF TypeOK, Kernels
  <2>a. n \in Nat
    BY <2>1, ShareType
  <2>2. /\ coreid' = [coreid EXCEPT ![t] = c]
        /\ TOTALBLOCKS' = [TOTALBLOCKS EXCEPT ![t] = n]
        /\ Goto(t, KernelEntry(n))
    BY <1>18 DEF Move
  <2> HIDE DEF c, n
  <2>3. /\ coreid' \in [Threads -> Nat] /\ TOTALBLOCKS' \in [Threads -> Nat]
        /\ pc' \in [Threads -> Locations]
    BY <1>0, <2>1, <2>a, <2>2 DEF TypeOK, Goto, KernelEntry, Locations
  <2> QED
    BY <1>0, <1>18, <2>3 DEF TypeOK, Move, epochs, cores, main
<1>19. ASSUME NEW t \in Threads, FinishEpoch(t) PROVE TypeOK'
  <2>1. /\ epochEnd' \in PhaserType /\ thrown' \subseteq Threads
        /\ Goto(t, "finishCore") \/ Goto(t, "dead")
    BY <1>19, EpochLeaveStep DEF FinishEpoch, At, Locations, LeftEpoch
  <2>2. pc' \in [Threads -> Locations] /\ resetting' \in BOOLEAN
    BY <1>0, <1>19, <2>1 DEF TypeOK, Goto, Locations, FinishEpoch, EpochCall
  <2> QED
    BY <1>0, <1>19, <2>1, <2>2
    DEF TypeOK, FinishEpoch, work, clocks, cores, main
<1>20. ASSUME NEW t \in Threads, FinishCore(t) PROVE TypeOK'
  <2>1. previousCore' = previousCore
    BY <1>20 DEF FinishCore
  <2>2. /\ coreEnd' \in PhaserType /\ thrown' \subseteq Threads
        /\ Goto(t, "release") \/ Goto(t, "deadInCore")
    BY <1>20, <2>1, CoreLeaveStep DEF FinishCore, At, Locations, LeftCore
  <2>3. pc' \in [Threads -> Locations]
    BY <1>0, <2>2 DEF TypeOK, Goto, Locations
  <2> QED
    BY <1>0, <1>20, <2>2, <2>3
    DEF TypeOK, FinishCore, work, clocks, epochs, main
<1>21. ASSUME NEW t \in Threads, Release(t) PROVE TypeOK'
  BY <1>0, <1>21
  DEF TypeOK, Release, At, Goto, Locations, work, clocks, epochs, cores, main
<1>22. CASE OnAdvance
  BY <1>0, <1>22 DEF TypeOK, OnAdvance, work, clocks, epochs, cores, main
<1>23. CASE PublishEpoch
  <2>1. Publish(epochEnd) \in PhaserType
    BY <1>0 DEF TypeOK, PhaserType, Publish, Phaser
  <2> QED
    BY <1>0, <1>23, <2>1 DEF TypeOK, PublishEpoch, work, clocks, cores, main
<1>24. CASE PublishCore
  <2>1. Publish(coreEnd) \in PhaserType
    BY <1>0 DEF TypeOK, PhaserType, Publish, Phaser
  <2> QED
    BY <1>0, <1>24, <2>1 DEF TypeOK, PublishCore, work, clocks, epochs, main
<1>25. CASE WaitForJavaThread
  <2>1. waitingFor + 1 \in 0 .. MaxNumJavaThreads
    BY <1>0, <1>25, RunnerAssumption DEF TypeOK, WaitForJavaThread
  <2> QED
    BY <1>0, <1>25, <2>1
    DEF TypeOK, WaitForJavaThread, work, clocks, epochs, cores
<1>26. CASE AllFinished
  BY <1>0, <1>26 DEF TypeOK, AllFinished, work, clocks, epochs, cores, main
<1>27. CASE UNCHANGED vars
  BY <1>0, <1>27 DEF TypeOK, vars, work, clocks, epochs, cores, main
<1> QED
  BY <1>1, <1>2, <1>3, <1>4, <1>5, <1>6, <1>7, <1>8, <1>9, <1>10, <1>11,
     <1>12, <1>13, <1>14, <1>15, <1>16, <1>17, <1>18, <1>19, <1>20, <1>21, <1>22,
     <1>23, <1>24, <1>25, <1>26, <1>27
  DEF Next, Step

-----------------------------------------------------------------------------
(* The accounting.                                                         *)

ToArriveEpoch == {"boot", "joinCore", "joinEpoch", "arriveEpoch"}
ToArriveCore  == {"boot", "joinCore", "rejoinEpoch", "arriveCore"}

(* What ArrivesOnce asks of thread t.                                      *)
InOrder(t) ==
  /\ previousPhase[t] <= epochEnd.phase
  /\ pc[t] \in ToArriveEpoch => previousPhase[t] < epochEnd.phase
  /\ previousCore[t] <= coreEnd.phase
  /\ pc[t] \in ToArriveCore => previousCore[t] < coreEnd.phase

LEMMA ArrivesOnceInOrder ==
  /\ ArrivesOnce <=> \A t \in Threads : InOrder(t)
  /\ ArrivesOnce' <=> \A t \in Threads : InOrder(t)'
BY DEF ArrivesOnce, InOrder, ToArriveEpoch, ToArriveCore

(* Steps of a thread that touch neither phaser move it between locations   *)
(* on the same side of each, and test the phase before they let it arrive. *)
Quiet(t) ==
  \/ Boot(t)   \/ SkipKernel(t) \/ EndKernel(t)  \/ Cycle(t)    \/ SetGlobal(t)
  \/ Count(t)  \/ CountWrite(t) \/ Check(t)      \/ AwaitEpoch(t)
  \/ HandOver(t) \/ AwaitCore(t) \/ Move(t)      \/ Release(t)

QuietGoto(t, l) ==
  /\ l \in Locations /\ Goto(t, l)
  /\ l \in LeftEpoch <=> pc[t] \in LeftEpoch
  /\ l \in LeftCore <=> pc[t] \in LeftCore
  /\ l \in ToArriveEpoch => previousPhase[t] < epochEnd.phase
  /\ l \in ToArriveCore => previousCore[t] < coreEnd.phase

LEMMA QuietSteps ==
  ASSUME IndInv, NEW t \in Threads, Quiet(t)
  PROVE  /\ UNCHANGED <<epochEnd, coreEnd, previousPhase, previousCore>>
         /\ \E l : QuietGoto(t, l)
<1> USE InvTypes DEF ToArriveEpoch, ToArriveCore, LeftEpoch, LeftCore, Locations
<1>0. InOrder(t)
  BY ArrivesOnceInOrder DEF IndInv
<1>1. UNCHANGED <<epochEnd, coreEnd, previousPhase, previousCore>>
  BY DEF Quiet, Boot, SkipKernel, EndKernel, Cycle, SetGlobal, Count,
         CountWrite, Check, AwaitEpoch, HandOver, AwaitCore, Move, Release,
         Initialize, epochs, cores
<1>2. CASE Boot(t)
  <2>1. Goto(t, "joinCore") /\ pc[t] = "boot"
    BY <1>2 DEF Boot, Initialize, At
  <2>2. QuietGoto(t, "joinCore")
    BY <1>0, <1>2, <2>1 DEF QuietGoto, InOrder, Arrivals, Boot
  <2> QED
    BY <1>1, <2>2
<1>3. CASE SkipKernel(t)
  <2>1. /\ pc[t] = "skip"
        /\ \/ Goto(t, "skip") \/ Goto(t, "cycle")
           \/ Goto(t, "handover") \/ Goto(t, "finishEpoch")
    BY <1>3 DEF SkipKernel, Initialize, KernelEntry, At
  <2>2. /\ Goto(t, "skip") => QuietGoto(t, "skip")
        /\ Goto(t, "cycle") => QuietGoto(t, "cycle")
        /\ Goto(t, "handover") => QuietGoto(t, "handover")
        /\ Goto(t, "finishEpoch") => QuietGoto(t, "finishEpoch")
    BY <1>0, <2>1 DEF QuietGoto, InOrder, Arrivals
  <2> QED
    BY <1>1, <2>1, <2>2
<1>4. CASE EndKernel(t)
  <2>1. /\ pc[t] = "cycle"
        /\ \/ Goto(t, "skip") \/ Goto(t, "cycle")
           \/ Goto(t, "handover") \/ Goto(t, "finishEpoch")
    BY <1>4 DEF EndKernel, Initialize, KernelEntry, At
  <2>2. /\ Goto(t, "skip") => QuietGoto(t, "skip")
        /\ Goto(t, "cycle") => QuietGoto(t, "cycle")
        /\ Goto(t, "handover") => QuietGoto(t, "handover")
        /\ Goto(t, "finishEpoch") => QuietGoto(t, "finishEpoch")
    BY <1>0, <2>1 DEF QuietGoto, InOrder, Arrivals
  <2> QED
    BY <1>1, <2>1, <2>2
<1>5. CASE Cycle(t)
  <2>1. /\ pc[t] = "cycle"
        /\ \/ Goto(t, "setGlobal") \/ Goto(t, "count")
    BY <1>5 DEF Cycle, At
  <2>2. /\ Goto(t, "setGlobal") => QuietGoto(t, "setGlobal")
        /\ Goto(t, "count") => QuietGoto(t, "count")
    BY <1>0, <2>1 DEF QuietGoto, InOrder, Arrivals
  <2> QED
    BY <1>1, <2>1, <2>2
<1>6. CASE SetGlobal(t)
  <2>1. Goto(t, "count") /\ pc[t] = "setGlobal"
    BY <1>6 DEF SetGlobal, At
  <2>2. QuietGoto(t, "count")
    BY <1>0, <1>6, <2>1 DEF QuietGoto, InOrder, Arrivals, SetGlobal
  <2> QED
    BY <1>1, <2>2
<1>7. CASE Count(t)
  <2>1. Goto(t, "countWrite") /\ pc[t] = "count"
    BY <1>7 DEF Count, At
  <2>2. QuietGoto(t, "countWrite")
    BY <1>0, <1>7, <2>1 DEF QuietGoto, InOrder, Arrivals, Count
  <2> QED
    BY <1>1, <2>2
<1>8. CASE CountWrite(t)
  <2>1. Goto(t, "check") /\ pc[t] = "countWrite"
    BY <1>8 DEF CountWrite, At
  <2>2. QuietGoto(t, "check")
    BY <1>0, <1>8, <2>1 DEF QuietGoto, InOrder, Arrivals, CountWrite
  <2> QED
    BY <1>1, <2>2
<1>9. CASE Check(t)
  <2>1. /\ pc[t] = "check"
        /\ \/ Goto(t, "awaitEpoch") \/ Goto(t, "cycle")
    BY <1>9 DEF Check, At
  <2>2. /\ Goto(t, "awaitEpoch") => QuietGoto(t, "awaitEpoch")
        /\ Goto(t, "cycle") => QuietGoto(t, "cycle")
    BY <1>0, <2>1 DEF QuietGoto, InOrder, Arrivals
  <2> QED
    BY <1>1, <2>1, <2>2
<1>10. CASE AwaitEpoch(t)
  <2>1. Goto(t, "arriveEpoch") /\ pc[t] = "awaitEpoch"
    BY <1>10 DEF AwaitEpoch, At
  <2>2. QuietGoto(t, "arriveEpoch")
    BY <1>0, <1>10, <2>1 DEF QuietGoto, InOrder, Arrivals, AwaitEpoch
  <2> QED
    BY <1>1, <2>2
<1>11. CASE HandOver(t)
  <2>1. /\ pc[t] = "handover"
        /\ \/ Goto(t, "leaveEpoch")
           \/ Goto(t, "arriveCore") /\ coreEnd.phase # previousCore[t]
    BY <1>11 DEF HandOver, At
  <2>2. /\ Goto(t, "leaveEpoch") => QuietGoto(t, "leaveEpoch")
        /\ Goto(t, "arriveCore") /\ coreEnd.phase # previousCore[t]
             => QuietGoto(t, "arriveCore")
    BY <1>0, <2>1 DEF QuietGoto, InOrder, Arrivals
  <2> QED
    BY <1>1, <2>1, <2>2
<1>12. CASE AwaitCore(t)
  <2>1. Goto(t, "rejoinEpoch") /\ pc[t] = "awaitCore"
    BY <1>12 DEF AwaitCore, At
  <2>2. QuietGoto(t, "rejoinEpoch")
    BY <1>0, <1>12, <2>1 DEF QuietGoto, InOrder, Arrivals, AwaitCore
  <2> QED
    BY <1>1, <2>2
<1>13. CASE Move(t)
  <2>1. /\ pc[t] = "move"
        /\ \/ Goto(t, "skip") \/ Goto(t, "cycle")
    BY <1>13 DEF Move, KernelEntry, At
  <2>2. /\ Goto(t, "skip") => QuietGoto(t, "skip")
        /\ Goto(t, "cycle") => QuietGoto(t, "cycle")
    BY <1>0, <2>1 DEF QuietGoto, InOrder, Arrivals
  <2> QED
    BY <1>1, <2>1, <2>2
<1>14. CASE Release(t)
  <2>1. Goto(t, "done") /\ pc[t] = "release"
    BY <1>14 DEF Release, At
  <2>2. QuietGoto(t, "done")
    BY <1>0, <1>14, <2>1 DEF QuietGoto, InOrder, Arrivals, Release
  <2> QED
    BY <1>1, <2>2
<1> QED
  BY <1>1, <1>2, <1>3, <1>4, <1>5, <1>6, <1>7, <1>8, <1>9, <1>10, <1>11, <1>12, <1>13, <1>14 DEF Quiet

(* A step that leaves a phaser, its members and their arrivals alone.      *)
LEMMA EpochFrame ==
  ASSUME IndInv, EpochMembers' = EpochMembers,
         UNCHANGED <<epochEnd, previousPhase>>
  PROVE  EpochAccounting'
BY DEF IndInv, EpochAccounting, Accounted, Pending, CountedTwice

LEMMA CoreFrame ==
  ASSUME IndInv, CoreMembers' = CoreMembers,
         UNCHANGED <<coreEnd, previousCore>>
  PROVE  CoreAccounting'
BY DEF IndInv, CoreAccounting, Accounted, Pending, CountedTwice

(* Order is kept by a step of t that moves it to l.                        *)
LEMMA OrderStep ==
  ASSUME IndInv, NEW t \in Threads, NEW l \in Locations, Goto(t, l),
         epochEnd'.phase = epochEnd.phase, coreEnd'.phase = coreEnd.phase,
         \A u \in Threads \ {t} :
           previousPhase'[u] = previousPhase[u] /\ previousCore'[u] = previousCore[u],
         previousPhase'[t] \in {previousPhase[t], epochEnd.phase},
         previousCore'[t] \in {previousCore[t], coreEnd.phase},
         l \in ToArriveEpoch => previousPhase'[t] < epochEnd.phase,
         l \in ToArriveCore => previousCore'[t] < coreEnd.phase
  PROVE  ArrivesOnce'
<1>1. ASSUME NEW u \in Threads PROVE InOrder(u)'
  <2>1. InOrder(u)
    BY ArrivesOnceInOrder DEF IndInv
  <2>2. CASE u # t
    <3>1. pc'[u] = pc[u]
      BY <2>2, InvTypes, GotoMembers
    <3> QED
      BY <2>1, <2>2, <3>1 DEF InOrder
  <2>3. CASE u = t
    <3>1. pc'[t] = l
      BY InvTypes, GotoMembers
    <3>2. /\ epochEnd.phase \in Nat /\ coreEnd.phase \in Nat
          /\ previousPhase[t] \in Nat \cup {-1}
          /\ previousCore[t] \in Nat \cup {-1}
      BY InvTypes DEF Arrivals
    <3>3. /\ previousPhase'[t] <= epochEnd.phase
          /\ previousCore'[t] <= coreEnd.phase
      BY <2>1, <2>3, <3>2 DEF InOrder
    <3> QED
      BY <2>3, <3>1, <3>3 DEF InOrder
  <2> QED
    BY <2>2, <2>3
<1> QED
  BY <1>1, ArrivesOnceInOrder

THEOREM AccountingStep ==
  IndInv /\ [Next]_vars => EpochAccounting' /\ CoreAccounting' /\ ArrivesOnce'
<1> SUFFICES ASSUME IndInv, [Next]_vars
             PROVE  EpochAccounting' /\ CoreAccounting' /\ ArrivesOnce'
  OBVIOUS
<1> USE InvTypes
<1>0. \A t \in Threads : InOrder(t)
  BY ArrivesOnceInOrder DEF IndInv
<1>1. ASSUME NEW t \in Threads, Quiet(t)
      PROVE  EpochAccounting' /\ CoreAccounting' /\ ArrivesOnce'
  <2>1. UNCHANGED <<epochEnd, coreEnd, previousPhase, previousCore>>
    BY <1>1, QuietSteps
  <2>2. PICK l : QuietGoto(t, l)
    BY <1>1, QuietSteps
  <2>3. EpochMembers' = EpochMembers /\ CoreMembers' = CoreMembers
    BY <2>2, GotoMembers DEF QuietGoto
  <2>4. ArrivesOnce'
    BY <2>1, <2>2, OrderStep DEF QuietGoto
  <2> QED
    BY <2>1, <2>3, <2>4, EpochFrame, CoreFrame
<1>2. ASSUME NEW t \in Threads, JoinCore(t)
      PROVE  EpochAccounting' /\ CoreAccounting' /\ ArrivesOnce'
  <2>1. /\ pc[t] = "joinCore" /\ UNCHANGED <<epochEnd, previousPhase>>
        /\ CoreArrive(t, "joinEpoch", "dead")
    BY <1>2 DEF JoinCore, At, epochs
  <2>2. /\ coreEnd'.phase = coreEnd.phase
        /\ \A u \in Threads \ {t} : previousCore'[u] = previousCore[u]
        /\ previousCore'[t] \in {previousCore[t], coreEnd.phase}
        /\ Goto(t, "joinEpoch") \/ Goto(t, "dead")
        /\ CoreAccounting'
    BY <2>1, CoreArriveStep DEF CoreAccounting, Locations, LeftCore
  <2>3. EpochMembers' = EpochMembers
    BY <2>1, <2>2, GotoMembers DEF Locations, LeftEpoch
  <2>4. ArrivesOnce'
    BY <1>0, <2>1, <2>2, OrderStep DEF InOrder, Locations, ToArriveEpoch, ToArriveCore
  <2> QED
    BY <2>1, <2>2, <2>3, <2>4, EpochFrame
<1>3. ASSUME NEW t \in Threads, ArriveCore(t)
      PROVE  EpochAccounting' /\ CoreAccounting' /\ ArrivesOnce'
  <2>1. /\ pc[t] = "arriveCore" /\ UNCHANGED <<epochEnd, previousPhase>>
        /\ CoreArrive(t, "move", "finishEpoch")
    BY <1>3 DEF ArriveCore, At, epochs
  <2>2. /\ coreEnd'.phase = coreEnd.phase
        /\ \A u \in Threads \ {t} : previousCore'[u] = previousCore[u]
        /\ previousCore'[t] \in {previousCore[t], coreEnd.phase}
        /\ Goto(t, "move") \/ Goto(t, "finishEpoch")
        /\ CoreAccounting'
    BY <2>1, CoreArriveStep DEF CoreAccounting, Locations, LeftCore
  <2>3. EpochMembers' = EpochMembers
    BY <2>1, <2>2, GotoMembers DEF Locations, LeftEpoch
  <2>4. ArrivesOnce'
    BY <1>0, <2>1, <2>2, OrderStep DEF InOrder, Locations, ToArriveEpoch, ToArriveCore
  <2> QED
    BY <2>1, <2>2, <2>3, <2>4, EpochFrame
<1>4. ASSUME NEW t \in Threads, JoinEpoch(t)
      PROVE  EpochAccounting' /\ CoreAccounting' /\ ArrivesOnce'
  <2>0. KernelEntry(TOTALBLOCKS[t]) \in {"skip", "cycle"}
    BY DEF KernelEntry
  <2>1. /\ pc[t] = "joinEpoch" /\ UNCHANGED <<coreEnd, previousCore>>
        /\ EpochArrive(t, KernelEntry(TOTALBLOCKS[t]))
    BY <1>4 DEF JoinEpoch, At, cores
  <2>2. /\ epochEnd'.phase = epochEnd.phase
        /\ \A u \in Threads \ {t} : previousPhase'[u] = previousPhase[u]
        /\ previousPhase'[t] \in {previousPhase[t], epochEnd.phase}
        /\ Goto(t, KernelEntry(TOTALBLOCKS[t])) \/ Goto(t, "dead")
        /\ EpochAccounting'
    BY <2>0, <2>1, EpochArriveStep DEF EpochAccounting, Locations, LeftEpoch
  <2>3. CoreMembers' = CoreMembers
    BY <2>0, <2>1, <2>2, GotoMembers DEF Locations, LeftCore
  <2>4. ArrivesOnce'
    BY <2>0, <1>0, <2>1, <2>2, OrderStep DEF InOrder, Locations, ToArriveEpoch, ToArriveCore
  <2> QED
    BY <2>1, <2>2, <2>3, <2>4, CoreFrame
<1>5. ASSUME NEW t \in Threads, ArriveEpoch(t)
      PROVE  EpochAccounting' /\ CoreAccounting' /\ ArrivesOnce'
  <2>1. /\ pc[t] = "arriveEpoch" /\ UNCHANGED <<coreEnd, previousCore>>
        /\ EpochArrive(t, "cycle")
    BY <1>5 DEF ArriveEpoch, At, cores
  <2>2. /\ epochEnd'.phase = epochEnd.phase
        /\ \A u \in Threads \ {t} : previousPhase'[u] = previousPhase[u]
        /\ previousPhase'[t] \in {previousPhase[t], epochEnd.phase}
        /\ Goto(t, "cycle") \/ Goto(t, "dead")
        /\ EpochAccounting'
    BY <2>1, EpochArriveStep DEF EpochAccounting, Locations, LeftEpoch
  <2>3. CoreMembers' = CoreMembers
    BY <2>1, <2>2, GotoMembers DEF Locations, LeftCore
  <2>4. ArrivesOnce'
    BY <1>0, <2>1, <2>2, OrderStep DEF InOrder, Locations, ToArriveEpoch, ToArriveCore
  <2> QED
    BY <2>1, <2>2, <2>3, <2>4, CoreFrame
<1>6. ASSUME NEW t \in Threads, LeaveEpoch(t)
      PROVE  EpochAccounting' /\ CoreAccounting' /\ ArrivesOnce'
  <2>1. /\ pc[t] = "leaveEpoch" /\ UNCHANGED <<coreEnd, previousCore, previousPhase>>
        /\ EpochCall(t, ArriveAndDeregister(epochEnd, t), "awaitCore", "finishEpoch")
    BY <1>6 DEF LeaveEpoch, At, cores
  <2>2. /\ epochEnd'.phase = epochEnd.phase
        /\ Goto(t, "awaitCore") \/ Goto(t, "finishEpoch")
        /\ EpochAccounting'
    BY <2>1, EpochLeaveStep DEF EpochAccounting, Locations, LeftEpoch
  <2>3. CoreMembers' = CoreMembers
    BY <2>1, <2>2, GotoMembers DEF Locations, LeftCore
  <2>4. ArrivesOnce'
    BY <2>1, <2>2, OrderStep DEF Locations, ToArriveEpoch, ToArriveCore
  <2> QED
    BY <2>1, <2>2, <2>3, <2>4, CoreFrame
<1>7. ASSUME NEW t \in Threads, FinishEpoch(t)
      PROVE  EpochAccounting' /\ CoreAccounting' /\ ArrivesOnce'
  <2>1. /\ pc[t] = "finishEpoch" /\ UNCHANGED <<coreEnd, previousCore, previousPhase>>
        /\ EpochCall(t, ArriveAndDeregister(epochEnd, t), "finishCore", "dead")
    BY <1>7 DEF FinishEpoch, At, cores
  <2>2. /\ epochEnd'.phase = epochEnd.phase
        /\ Goto(t, "finishCore") \/ Goto(t, "dead")
        /\ EpochAccounting'
    BY <2>1, EpochLeaveStep DEF EpochAccounting, Locations, LeftEpoch
  <2>3. CoreMembers' = CoreMembers
    BY <2>1, <2>2, GotoMembers DEF Locations, LeftCore
  <2>4. ArrivesOnce'
    BY <2>1, <2>2, OrderStep DEF Locations, ToArriveEpoch, ToArriveCore
  <2> QED
    BY <2>1, <2>2, <2>3, <2>4, CoreFrame
<1>8. ASSUME NEW t \in Threads, FinishCore(t)
      PROVE  EpochAccounting' /\ CoreAccounting' /\ ArrivesOnce'
  <2>1. /\ pc[t] = "finishCore" /\ UNCHANGED <<epochEnd, previousPhase, previousCore>>
        /\ CoreCall(t, ArriveAndDeregister(coreEnd, t), "release", "deadInCore")
    BY <1>8 DEF FinishCore, At, epochs
  <2>2. /\ coreEnd'.phase = coreEnd.phase
        /\ Goto(t, "release") \/ Goto(t, "deadInCore")
        /\ CoreAccounting'
    BY <2>1, CoreLeaveStep DEF CoreAccounting, Locations, LeftCore
  <2>3. EpochMembers' = EpochMembers
    BY <2>1, <2>2, GotoMembers DEF Locations, LeftEpoch
  <2>4. ArrivesOnce'
    BY <2>1, <2>2, OrderStep DEF Locations, ToArriveEpoch, ToArriveCore
  <2> QED
    BY <2>1, <2>2, <2>3, <2>4, EpochFrame
<1>9. ASSUME NEW t \in Threads, RejoinEpoch(t)
      PROVE  EpochAccounting' /\ CoreAccounting' /\ ArrivesOnce'
  <2>1. /\ pc[t] = "rejoinEpoch" /\ epochEnd' = Register(epochEnd)
        /\ Goto(t, "arriveCore")
        /\ UNCHANGED <<coreEnd, previousCore, previousPhase>>
    BY <1>9 DEF RejoinEpoch, At, cores
  <2>2. t \in Threads \ EpochMembers
    BY <2>1, Members DEF LeftEpoch
  <2>3. /\ epochEnd'.phase = epochEnd.phase
        /\ Accounted(EpochMembers \cup {t}, previousPhase, epochEnd')
    BY <2>1, <2>2, Members, RegisterAccounted DEF IndInv, EpochAccounting
  <2>4. /\ EpochMembers' = EpochMembers \cup {t}
        /\ CoreMembers' = CoreMembers
    BY <2>1, GotoMembers DEF Locations, LeftEpoch, LeftCore
  <2>5. EpochAccounting'
    BY <2>1, <2>3, <2>4 DEF EpochAccounting
  <2>6. ArrivesOnce'
    BY <1>0, <2>1, <2>3, OrderStep
    DEF InOrder, Locations, ToArriveEpoch, ToArriveCore
  <2> QED
    BY <2>1, <2>4, <2>5, <2>6, CoreFrame
<1>10. CASE PublishEpoch
  <2>1. /\ epochEnd' = Publish(epochEnd)
        /\ UNCHANGED <<pc, previousPhase, coreEnd, previousCore>>
    BY <1>10 DEF PublishEpoch, epochs, cores
  <2>2. EpochMembers' = EpochMembers /\ CoreMembers' = CoreMembers
    BY <2>1 DEF EpochMembers, CoreMembers
  <2>3. /\ epochEnd'.phase = epochEnd.phase + 1
        /\ Accounted(EpochMembers, previousPhase, epochEnd')
    BY <1>0, <2>1, Members, PublishAccounted DEF InOrder, IndInv, EpochAccounting
  <2>4. EpochAccounting'
    BY <2>1, <2>2, <2>3 DEF EpochAccounting
  <2>5. \A u \in Threads : InOrder(u)'
    BY <1>0, <2>1, <2>3 DEF InOrder, Arrivals
  <2> QED
    BY <2>1, <2>2, <2>4, <2>5, CoreFrame, ArrivesOnceInOrder
<1>11. CASE PublishCore
  <2>1. /\ coreEnd' = Publish(coreEnd)
        /\ UNCHANGED <<pc, previousCore, epochEnd, previousPhase>>
    BY <1>11 DEF PublishCore, epochs, cores
  <2>2. EpochMembers' = EpochMembers /\ CoreMembers' = CoreMembers
    BY <2>1 DEF EpochMembers, CoreMembers
  <2>3. /\ coreEnd'.phase = coreEnd.phase + 1
        /\ Accounted(CoreMembers, previousCore, coreEnd')
    BY <1>0, <2>1, Members, PublishAccounted DEF InOrder, IndInv, CoreAccounting
  <2>4. CoreAccounting'
    BY <2>1, <2>2, <2>3 DEF CoreAccounting
  <2>5. \A u \in Threads : InOrder(u)'
    BY <1>0, <2>1, <2>3 DEF InOrder, Arrivals
  <2> QED
    BY <2>1, <2>2, <2>4, <2>5, EpochFrame, ArrivesOnceInOrder
<1>12. CASE OnAdvance \/ WaitForJavaThread \/ AllFinished \/ UNCHANGED vars
  <2>1. UNCHANGED <<pc, epochEnd, coreEnd, previousPhase, previousCore>>
    BY <1>12 DEF OnAdvance, WaitForJavaThread, AllFinished, vars, epochs, cores
  <2>2. EpochMembers' = EpochMembers /\ CoreMembers' = CoreMembers
    BY <2>1 DEF EpochMembers, CoreMembers
  <2>3. ArrivesOnce'
    BY <2>1 DEF IndInv, ArrivesOnce
  <2> QED
    BY <2>1, <2>2, <2>3, EpochFrame, CoreFrame
<1> QED
  BY <1>1, <1>2, <1>3, <1>4, <1>5, <1>6, <1>7, <1>8, <1>9, <1>10, <1>11, <1>12
  DEF Next, Step, Quiet

-----------------------------------------------------------------------------
(* The theorems.                                                           *)

THEOREM InitInv == Init => IndInv
<1> SUFFICES ASSUME Init PROVE IndInv
  OBVIOUS
<1>0. MaxNumJavaThreads \in Nat \ {0} /\ Threads \subseteq Nat
  BY RunnerAssumption DEF Threads
<1>1. epochEnd \in PhaserType /\ coreEnd \in PhaserType
  <2>1. NewPhaser(MaxNumJavaThreads) \in PhaserType
    BY <1>0 DEF PhaserType, NewPhaser, Phaser
  <2> QED
    BY <2>1 DEF Init
<1>2. TypeOK
  <2>1. \A t \in Threads : t \in Nat
    BY <1>0
  <2>2. coreid \in [Threads -> Nat] /\ waitingFor \in 0 .. MaxNumJavaThreads
    BY <1>0, <2>1 DEF Init
  <2>3. pc \in [Threads -> Locations]
    BY DEF Init, Locations
  <2> QED
    BY <1>1, <2>2, <2>3 DEF Init, TypeOK
<1>3. ArrivesOnce
  BY <1>0 DEF Init, ArrivesOnce, NewPhaser, Phaser
<1>4. EpochMembers = Threads /\ CoreMembers = Threads
  BY DEF Init, EpochMembers, CoreMembers
<1>5. Cardinality(Threads) = MaxNumJavaThreads
  <2>1. 0 \in Int /\ MaxNumJavaThreads - 1 \in Int
    BY <1>0
  <2>2. Cardinality(Threads)
          = IF 0 > MaxNumJavaThreads - 1
            THEN 0 ELSE MaxNumJavaThreads - 1 - 0 + 1
    BY <2>1, FS_Interval DEF Threads
  <2> QED
    BY <1>0, <2>2
<1>6. ASSUME NEW previous, previous = [t \in Threads |-> -1]
      PROVE  Accounted(Threads, previous, NewPhaser(MaxNumJavaThreads))
  <2> DEFINE p == NewPhaser(MaxNumJavaThreads)
  <2>1. p.phase = 0 /\ p.parties = MaxNumJavaThreads
        /\ p.unarrived = MaxNumJavaThreads
    BY DEF NewPhaser, Phaser
  <2>2. Pending(Threads, previous, p) = Threads
    BY <1>6, <2>1 DEF Pending
  <2>3. CountedTwice(Threads, previous, p) = {}
    BY DEF CountedTwice
  <2>4. Cardinality({}) = 0
    BY FS_EmptySet
  <2> QED
    BY <1>0, <1>5, <2>1, <2>2, <2>3, <2>4 DEF Accounted
<1>7. EpochAccounting /\ CoreAccounting
  BY <1>4, <1>6 DEF Init, EpochAccounting, CoreAccounting
<1> QED
  BY <1>2, <1>3, <1>7 DEF IndInv

(* The conjunction of the four is preserved by every step.                 *)
THEOREM Inductive == Spec => []IndInv
<1>1. IndInv /\ [Next]_vars => IndInv'
  BY TypeStep, AccountingStep DEF IndInv
<1> QED
  BY InitInv, <1>1, PTL DEF Spec

(* Every variable keeps its type: no counter of a phaser ever goes below 0. *)
THEOREM TypeCorrect == Spec => []TypeOK
  BY Inductive, PTL DEF IndInv

(* What the phasers count is what the threads did, double arrivals included. *)
THEOREM AccountingCorrect == Spec => [](EpochAccounting /\ CoreAccounting)
  BY Inductive, PTL DEF IndInv

(* No thread calls arrive() in a phase it has arrived in.                  *)
THEOREM ArrivesOnceCorrect == Spec => []ArrivesOnce
  BY Inductive, PTL DEF IndInv

(* A thread blocked on a phase always waits for a member that has not      *)
(* arrived yet: the two phasers cannot lose an advance.                    *)
THEOREM NoOrphanWaitCorrect == Spec => []NoOrphanWait
<1>1. ASSUME NEW members \in SUBSET Threads, NEW previous \in Arrivals,
             NEW p \in PhaserType, Accounted(members, previous, p),
             NEW t \in members, p.advancer = Nobody
      PROVE  \E u \in members : previous[u] # p.phase
  <2> DEFINE P == Pending(members, previous, p)
             C == CountedTwice(members, previous, p)
  <2>1. /\ IsFiniteSet(members) /\ IsFiniteSet(P)
        /\ Cardinality(members) \in Nat
        /\ Cardinality(P) \in Nat /\ Cardinality(C) \in Nat
    BY ThreadsFinite DEF Pending, CountedTwice
  <2>2. Cardinality(members) > 0
    BY <2>1, FS_EmptySet
  <2>3. p.parties = Cardinality(members)
        /\ p.unarrived = Cardinality(P) - Cardinality(C)
    BY <1>1 DEF Accounted
  <2>4. Cardinality(P) > 0
    <3>1. p.unarrived > 0
      BY <1>1, <2>2, <2>3 DEF Accounted
    <3> QED
      BY <2>1, <2>3, <3>1
  <2>5. P # {}
    BY <2>4, FS_EmptySet
  <2> QED
    BY <2>5 DEF Pending
<1>2. IndInv => NoOrphanWait
  <2> SUFFICES ASSUME IndInv PROVE NoOrphanWait
    OBVIOUS
  <2>1. /\ Accounted(EpochMembers, previousPhase, epochEnd)
        /\ Accounted(CoreMembers, previousCore, coreEnd)
    BY DEF IndInv, EpochAccounting, CoreAccounting
  <2>2. \A t \in Threads :
          /\ pc[t] = "awaitEpoch" => t \in EpochMembers
          /\ pc[t] = "awaitCore" => t \in CoreMembers
    BY DEF EpochMembers, CoreMembers
  <2>3. ASSUME NEW t \in EpochMembers, epochEnd.advancer = Nobody
        PROVE  \E u \in EpochMembers : previousPhase[u] # epochEnd.phase
    BY <1>1, <2>1, <2>3, InvTypes, Members
  <2>4. ASSUME NEW t \in CoreMembers, coreEnd.advancer = Nobody
        PROVE  \E u \in CoreMembers : previousCore[u] # coreEnd.phase
    BY <1>1, <2>1, <2>4, InvTypes, Members
  <2>5. ASSUME NEW t \in Threads, pc[t] = "awaitEpoch",
               epochEnd.advancer = Nobody
        PROVE  \E u \in EpochMembers : previousPhase[u] # epochEnd.phase
    <3>1. t \in EpochMembers
      BY <2>2, <2>5
    <3> QED
      BY <2>3, <2>5, <3>1
  <2>6. ASSUME NEW t \in Threads, pc[t] = "awaitCore",
               coreEnd.advancer = Nobody
        PROVE  \E u \in CoreMembers : previousCore[u] # coreEnd.phase
    <3>1. t \in CoreMembers
      BY <2>2, <2>6
    <3> QED
      BY <2>4, <2>6, <3>1
  <2> QED
    BY <2>5, <2>6 DEF NoOrphanWait
<1> QED
  BY Inductive, <1>2, PTL

(* IllegalStateException has one cause: an advance is under way and its    *)
(* phase has been arrived in twice.                                        *)
THEOREM ThrowsCorrect == Spec => ThrowsOnlyOnDoubleArrival
<1> DEFINE Twice(members, previous, p, t) ==
             /\ p.advancer # Nobody
             /\ previous[t] = p.phase \/ CountedTwice(members, previous, p) # {}
           Blame == \A t \in thrown' \ thrown :
             \/ Twice(EpochMembers, previousPhase, epochEnd, t)
             \/ Twice(CoreMembers, previousCore, coreEnd, t)
<1>1. ASSUME NEW members \in SUBSET Threads, NEW previous \in Arrivals,
             NEW p \in PhaserType, Accounted(members, previous, p),
             NEW t \in members, ~CanArrive(p)
      PROVE  Twice(members, previous, p, t)
  <2> DEFINE P == Pending(members, previous, p)
             C == CountedTwice(members, previous, p)
  <2>1. /\ IsFiniteSet(members) /\ IsFiniteSet(P)
        /\ Cardinality(members) \in Nat
        /\ Cardinality(P) \in Nat /\ Cardinality(C) \in Nat
    BY ThreadsFinite DEF Pending, CountedTwice
  <2>2. Cardinality(members) > 0
    BY <2>1, FS_EmptySet
  <2>3. p.unarrived = 0
    BY <1>1 DEF CanArrive, PhaserType
  <2>4. p.advancer # Nobody
    BY <1>1, <2>2, <2>3 DEF Accounted
  <2>5. CASE previous[t] # p.phase
    <3>1. t \in P
      BY <2>5 DEF Pending
    <3>2. Cardinality(P) > 0
      BY <2>1, <3>1, FS_EmptySet
    <3>3. Cardinality(C) > 0
      BY <1>1, <2>1, <2>3, <3>2 DEF Accounted
    <3>4. C # {}
      BY <3>3, FS_EmptySet
    <3> QED
      BY <2>4, <3>4
  <2> QED
    BY <2>4, <2>5
<1>2. ASSUME IndInv, NEW t \in EpochMembers, ~CanArrive(epochEnd)
      PROVE  Twice(EpochMembers, previousPhase, epochEnd, t)
  BY <1>1, <1>2, InvTypes, Members DEF IndInv, EpochAccounting
<1>3. ASSUME IndInv, NEW t \in CoreMembers, ~CanArrive(coreEnd)
      PROVE  Twice(CoreMembers, previousCore, coreEnd, t)
  BY <1>1, <1>3, InvTypes, Members DEF IndInv, CoreAccounting
<1> HIDE DEF Twice
<1>4. ASSUME IndInv, [Next]_vars
      PROVE  Blame
  <2>1. ASSUME NEW t \in Threads, JoinCore(t) \/ ArriveCore(t) \/ FinishCore(t)
        PROVE  Blame
    <3>1. /\ t \in CoreMembers
          /\ thrown' = thrown \/ (thrown' = thrown \cup {t} /\ ~CanArrive(coreEnd))
      BY <2>1 DEF JoinCore, ArriveCore, FinishCore, CoreArrive, CoreCall, At,
                  CoreMembers
    <3> QED
      BY <1>3, <1>4, <3>1
  <2>2. ASSUME NEW t \in Threads,
               JoinEpoch(t) \/ ArriveEpoch(t) \/ LeaveEpoch(t) \/ FinishEpoch(t)
        PROVE  Blame
    <3>1. /\ t \in EpochMembers
          /\ thrown' = thrown \/ (thrown' = thrown \cup {t} /\ ~CanArrive(epochEnd))
      BY <2>2 DEF JoinEpoch, ArriveEpoch, LeaveEpoch, FinishEpoch, EpochArrive,
                  EpochCall, At, EpochMembers
    <3> QED
      BY <1>2, <1>4, <3>1
  <2>3. ASSUME NEW t \in Threads, Quiet(t) \/ RejoinEpoch(t)
        PROVE  Blame
    <3>1. thrown' = thrown
      BY <2>3 DEF Quiet, Boot, SkipKernel, EndKernel, Cycle, SetGlobal, Count,
         CountWrite, Check, AwaitEpoch, HandOver, AwaitCore, Move, Release,
         Initialize, RejoinEpoch
    <3> QED
      BY <3>1
  <2>4. CASE \/ OnAdvance \/ PublishEpoch \/ PublishCore
             \/ WaitForJavaThread \/ AllFinished \/ UNCHANGED vars
    <3>1. thrown' = thrown
      BY <2>4 DEF OnAdvance, PublishEpoch, PublishCore, WaitForJavaThread,
                  AllFinished, vars
    <3> QED
      BY <3>1
  <2> QED
    BY <1>4, <2>1, <2>2, <2>3, <2>4 DEF Next, Step, Quiet
<1>5. IndInv /\ [Next]_vars => Blame
  BY <1>4
<1>6. Blame => \A t \in thrown' \ thrown :
       \/ /\ epochEnd.advancer # Nobody
          /\ \/ previousPhase[t] = epochEnd.phase
             \/ CountedTwice(EpochMembers, previousPhase, epochEnd) # {}
       \/ /\ coreEnd.advancer # Nobody
          /\ \/ previousCore[t] = coreEnd.phase
             \/ CountedTwice(CoreMembers, previousCore, coreEnd) # {}
  BY DEF Twice
<1> QED
  BY Inductive, <1>5, <1>6, PTL DEF Spec, ThrowsOnlyOnDoubleArrival

-----------------------------------------------------------------------------
(* The cores.                                                              *)

(* Thread t only ever simulates cores t, t + M, t + 2M, ...                *)
Stride == \A t \in Threads : \E n \in Nat : coreid[t] = t + n * MaxNumJavaThreads

LEMMA StrideStep == TypeOK /\ Stride /\ [Next]_vars => Stride'
<1> SUFFICES ASSUME TypeOK, Stride, [Next]_vars
             PROVE  Stride'
  OBVIOUS
<1> DEFINE M == MaxNumJavaThreads
<1>1. CASE UNCHANGED coreid
  BY <1>1 DEF Stride
<1>2. ASSUME NEW t \in Threads, Move(t)
      PROVE  Stride'
  <2>1. coreid' = [coreid EXCEPT ![t] = @ + M] /\ coreid \in [Threads -> Nat]
    BY <1>2 DEF Move, TypeOK
  <2>2. ASSUME NEW u \in Threads PROVE \E n \in Nat : coreid'[u] = u + n * M
    <3>1. PICK n \in Nat : coreid[u] = u + n * M
      BY DEF Stride
    <3>2. CASE u # t
      BY <2>1, <3>1, <3>2
    <3>3. CASE u = t
      <4>1. M \in Nat /\ u \in Nat /\ n + 1 \in Nat
        BY RunnerAssumption DEF Threads
      <4>2. (u + n * M) + M = u + (n + 1) * M
        BY <4>1
      <4>3. coreid'[u] = u + (n + 1) * M
        BY <2>1, <3>1, <3>3, <4>2
      <4> QED
        BY <4>1, <4>3
    <3> QED
      BY <3>2, <3>3
  <2> QED
    BY <2>2 DEF Stride
<1>3. ASSUME NEW t \in Threads, Step(t), ~Move(t)
      PROVE  UNCHANGED coreid
  BY <1>3 DEF Step, Boot, JoinCore, JoinEpoch, SkipKernel, EndKernel, Cycle,
              SetGlobal, Count, CountWrite, Check, AwaitEpoch, ArriveEpoch,
              HandOver, LeaveEpoch, AwaitCore, RejoinEpoch, ArriveCore,
              FinishEpoch, FinishCore, Release, Initialize, work
<1>4. CASE \/ OnAdvance \/ PublishEpoch \/ PublishCore
           \/ WaitForJavaThread \/ AllFinished \/ UNCHANGED vars
  BY <1>1, <1>4 DEF OnAdvance, PublishEpoch, PublishCore, WaitForJavaThread,
                    AllFinished, vars, work
<1> QED
  BY <1>1, <1>2, <1>3, <1>4 DEF Next

(* Two runner threads never simulate the same core, for any number of both. *)
THEOREM ExclusiveCoresCorrect == Spec => []ExclusiveCores
<1> DEFINE M == MaxNumJavaThreads
<1>1. Init => Stride
  <2> SUFFICES ASSUME Init PROVE Stride
    OBVIOUS
  <2>1. ASSUME NEW t \in Threads PROVE coreid[t] = t + 0 * M
    BY RunnerAssumption DEF Init, Threads
  <2> QED
    BY <2>1 DEF Stride
<1>2. ASSUME NEW t \in Threads, NEW u \in Threads,
             NEW n \in Nat, NEW m \in Nat, n < m
      PROVE  t + n * M # u + m * M
  <2>1. /\ M \in Nat \ {0} /\ n * M \in Int /\ m * M \in Int
        /\ t \in 0 .. M - 1 /\ u \in 0 .. M - 1
    BY RunnerAssumption DEF Threads
  <2>2. (n + 1) * M <= m * M
    BY <1>2, <2>1
  <2>3. (n + 1) * M = n * M + M
    BY <2>1
  <2> QED
    BY <2>1, <2>2, <2>3
<1>3. Stride => ExclusiveCores
  <2> SUFFICES ASSUME Stride, NEW t \in Threads, NEW u \in Threads, t # u
               PROVE  coreid[t] # coreid[u]
    BY DEF ExclusiveCores
  <2>1. PICK n \in Nat : coreid[t] = t + n * M
    BY DEF Stride
  <2>2. PICK m \in Nat : coreid[u] = u + m * M
    BY DEF Stride
  <2>3. CASE n = m
    <3>1. n * M \in Int /\ t \in Int /\ u \in Int
      BY RunnerAssumption DEF Threads
    <3> QED
      BY <2>1, <2>2, <2>3, <3>1
  <2>4. CASE n < m
    BY <1>2, <2>1, <2>2, <2>4
  <2>5. CASE m < n
    BY <1>2, <2>1, <2>2, <2>5
  <2> QED
    BY <2>3, <2>4, <2>5
<1> QED
  BY TypeCorrect, <1>1, <1>3, StrideStep, PTL DEF Spec

-----------------------------------------------------------------------------
(* Steps seen from a thread that is not the one that takes them.           *)

(* A thread writes its own place, clocks and counts only.                  *)
LEMMA OthersKeep ==
  ASSUME TypeOK, NEW t \in Threads, Step(t), NEW u \in Threads, u # t
  PROVE  /\ pc'[u] = pc[u] /\ clock'[u] = clock[u] /\ sinceSync'[u] = sinceSync[u]
         /\ epochCount'[u] = epochCount[u] /\ newCount'[u] = newCount[u]
         /\ previousPhase'[u] = previousPhase[u]
  <1> USE DEF TypeOK
  <1>1. \A l : Goto(t, l) => pc'[u] = pc[u]
    BY DEF Goto
  <1>2. pc'[u] = pc[u]
    BY <1>1 DEF Step, Boot, JoinCore, JoinEpoch, SkipKernel, EndKernel, Cycle, SetGlobal, Count,
       CountWrite, Check, AwaitEpoch, ArriveEpoch, HandOver, LeaveEpoch, AwaitCore, RejoinEpoch,
       ArriveCore, Move, FinishEpoch, FinishCore, Release, Initialize, EpochArrive, CoreArrive,
       EpochCall, CoreCall
  <1>3. clock'[u] = clock[u]
    BY DEF Step, Boot, JoinCore, JoinEpoch, SkipKernel, EndKernel, Cycle, SetGlobal, Count,
       CountWrite, Check, AwaitEpoch, ArriveEpoch, HandOver, LeaveEpoch, AwaitCore, RejoinEpoch,
       ArriveCore, Move, FinishEpoch, FinishCore, Release, Initialize, clocks
  <1>4. sinceSync'[u] = sinceSync[u] /\ epochCount'[u] = epochCount[u]
    BY DEF Step, Boot, JoinCore, JoinEpoch, SkipKernel, EndKernel, Cycle, SetGlobal, Count,
       CountWrite, Check, AwaitEpoch, ArriveEpoch, HandOver, LeaveEpoch, AwaitCore, RejoinEpoch,
       ArriveCore, Move, FinishEpoch, FinishCore, Release, Initialize, epochs
  <1>5. newCount'[u] = newCount[u]
    BY DEF Step, Boot, JoinCore, JoinEpoch, SkipKernel, EndKernel, Cycle, SetGlobal, Count,
       CountWrite, Check, AwaitEpoch, ArriveEpoch, HandOver, LeaveEpoch, AwaitCore, RejoinEpoch,
       ArriveCore, Move, FinishEpoch, FinishCore, Release, Initialize, epochs
  <1>6. previousPhase'[u] = previousPhase[u]
    BY DEF Step, Boot, JoinCore, JoinEpoch, SkipKernel, EndKernel, Cycle, SetGlobal, Count,
       CountWrite, Check, AwaitEpoch, ArriveEpoch, HandOver, LeaveEpoch, AwaitCore, RejoinEpoch,
       ArriveCore, Move, FinishEpoch, FinishCore, Release, Initialize, EpochArrive, epochs
  <1>7. QED
    BY <1>2, <1>3, <1>4, <1>5, <1>6

-----------------------------------------------------------------------------
(* The global clock.                                                       *)

(* The clock of t is not ahead of the global clock, except by the cycle it *)
(* is about to report.                                                     *)
NotAhead(t) ==
  GlobalClock >= clock[t] \/ (pc[t] = "setGlobal" /\ GlobalClock >= clock[t] - 1)

FloorInv == \E t \in Threads : NotAhead(t)

(* All clocks are 0.                                                       *)
LEMMA FloorInit == Init => FloorInv
  <1> SUFFICES ASSUME Init PROVE FloorInv
    OBVIOUS
  <1>1. 0 \in Threads
    BY RunnerAssumption DEF Threads
  <1>2. NotAhead(0)
    BY <1>1 DEF Init, NotAhead
  <1>3. QED
    BY <1>1, <1>2 DEF FloorInv

(* A thread that is not ahead stays so, or sets the global clock itself.   *)
LEMMA FloorStep == TypeOK /\ FloorInv /\ [Next]_vars => FloorInv'
  <1> SUFFICES ASSUME TypeOK, FloorInv, [Next]_vars PROVE FloorInv'
    OBVIOUS
  <1>1. PICK w \in Threads : NotAhead(w)
    BY DEF FloorInv
  <1>2. GlobalClock \in Nat /\ clock \in [Threads -> Nat] /\ pc \in [Threads -> Locations]
    BY DEF TypeOK
  <1>3. ASSUME UNCHANGED <<pc, clocks>> PROVE FloorInv'
    BY <1>1, <1>3 DEF FloorInv, NotAhead, clocks
  <1>4. ASSUME NEW t \in Threads, SetGlobal(t) PROVE FloorInv'
    <2>1. GlobalClock' = clock[t] /\ clock' = clock
      BY <1>4 DEF SetGlobal
    <2>2. NotAhead(t)'
      BY <1>2, <2>1 DEF NotAhead
    <2>3. QED
      BY <2>2 DEF FloorInv
  <1>5. ASSUME NEW t \in Threads, Move(t) PROVE FloorInv'
    <2>1. clock'[t] = 0 /\ GlobalClock' \in Nat
      BY <1>2, <1>5 DEF Move
    <2>2. NotAhead(t)'
      BY <2>1 DEF NotAhead
    <2>3. QED
      BY <2>2 DEF FloorInv
  <1>6. ASSUME NEW t \in Threads, Step(t), ~SetGlobal(t), ~Move(t) PROVE FloorInv'
    <2>1. GlobalClock' = GlobalClock
      BY <1>6 DEF Step, Boot, JoinCore, JoinEpoch, SkipKernel, EndKernel, Cycle, Count, CountWrite,
         Check, AwaitEpoch, ArriveEpoch, HandOver, LeaveEpoch, AwaitCore, RejoinEpoch, ArriveCore,
         FinishEpoch, FinishCore, Release, Initialize, clocks
    <2>2. CASE t # w
      <3>1. pc'[w] = pc[w] /\ clock'[w] = clock[w]
        BY <1>6, <2>2, OthersKeep
      <3>2. NotAhead(w)'
        BY <1>1, <2>1, <3>1 DEF NotAhead
      <3>3. QED
        BY <3>2 DEF FloorInv
    <2>3. CASE t = w /\ Cycle(t)
      <3>1. pc[w] = "cycle" /\ clock'[w] = clock[w] + 1
        BY <1>2, <2>3 DEF Cycle, At
      <3>2. pc'[w] = IF GlobalClock < clock[w] + 1 THEN "setGlobal" ELSE "count"
        BY <1>2, <2>3 DEF Cycle, Goto
      <3>3. GlobalClock >= clock[w] /\ clock[w] \in Nat
        BY <1>1, <1>2, <3>1 DEF NotAhead
      <3>4. NotAhead(w)'
        BY <1>2, <2>1, <3>1, <3>2, <3>3 DEF NotAhead
      <3>5. QED
        BY <3>4 DEF FloorInv
    <2>4. CASE t = w /\ ~Cycle(t)
      <3>1. pc[w] # "setGlobal"
        BY <1>6, <2>4 DEF Step, Boot, JoinCore, JoinEpoch, SkipKernel, EndKernel, Count, CountWrite,
           Check, AwaitEpoch, ArriveEpoch, HandOver, LeaveEpoch, AwaitCore, RejoinEpoch, ArriveCore,
           FinishEpoch, FinishCore, Release, At
      <3>2. clock' = clock
        BY <1>6, <2>4 DEF Step, Boot, JoinCore, JoinEpoch, SkipKernel, EndKernel, Count, CountWrite,
           Check, AwaitEpoch, ArriveEpoch, HandOver, LeaveEpoch, AwaitCore, RejoinEpoch, ArriveCore,
           FinishEpoch, FinishCore, Release, Initialize, clocks
      <3>3. NotAhead(w)'
        BY <1>1, <2>1, <3>1, <3>2 DEF NotAhead
      <3>4. QED
        BY <3>3 DEF FloorInv
    <2>5. QED
      BY <2>2, <2>3, <2>4
  <1>7. CASE OnAdvance \/ PublishEpoch \/ PublishCore \/ WaitForJavaThread \/ AllFinished
             \/ UNCHANGED vars
    BY <1>3, <1>7 DEF OnAdvance, PublishEpoch, PublishCore, WaitForJavaThread, AllFinished, vars
  <1>8. QED
    BY <1>4, <1>5, <1>6, <1>7 DEF Next

(* However the test and the write of the global clock interleave, some     *)
(* local clock is at most the cycle under way ahead of it                  *)
(* (AddToSetAndIncrementClock() of SimplerRunnableThread).                 *)
THEOREM GlobalClockFloorCorrect == Spec => []GlobalClockFloor
  <1>1. TypeOK /\ FloorInv => GlobalClockFloor
    BY DEF TypeOK, FloorInv, NotAhead, GlobalClockFloor
  <1>2. QED
    BY <1>1, FloorInit, FloorStep, TypeCorrect, PTL DEF Spec

-----------------------------------------------------------------------------
(* The epochs.  A count n is p past a multiple of an epoch; p is counted   *)
(* up to a whole epoch, which is where a thread meets the others.          *)
Past(n, p) == \E q \in Int : n = q * SynchClockDomainsCycles + p

(* Counting on, starting over, and what the code tests.                    *)
LEMMA PastFacts ==
  LET S == SynchClockDomainsCycles IN
  /\ S \in Nat \ {0}
  /\ Past(0, 0) /\ Past(0, S) /\ Past(1, 1)
  /\ \A n, p \in Int : Past(n, p) => Past(n + 1, p + 1)
  /\ \A n \in Nat : Past(n, S) => Past(n, 0) /\ n % S = 0
  <1> DEFINE S == SynchClockDomainsCycles
  <1>1. S \in Nat \ {0}
    BY RunnerAssumption
  <1>2. Past(0, 0) /\ Past(1, 1)
    <2>1. 0 \in Int /\ 0 = 0 * S + 0 /\ 1 = 0 * S + 1
      BY <1>1
    <2>2. QED
      BY <2>1 DEF Past
  <1>3. Past(0, S)
    <2>1. -1 \in Int /\ 0 = (-1) * S + S
      BY <1>1
    <2>2. QED
      BY <2>1 DEF Past
  <1>4. ASSUME NEW n \in Int, NEW p \in Int, Past(n, p) PROVE Past(n + 1, p + 1)
    <2>1. PICK q \in Int : n = q * S + p
      BY <1>4 DEF Past
    <2>2. n + 1 = q * S + (p + 1)
      BY <1>1, <2>1
    <2>3. QED
      BY <2>2 DEF Past
  <1>5. ASSUME NEW n \in Nat, Past(n, S) PROVE Past(n, 0) /\ n % S = 0
    <2>1. PICK q \in Int : n = q * S + S
      BY <1>5 DEF Past
    <2>2. q + 1 \in Int /\ n = (q + 1) * S /\ n = (q + 1) * S + 0
      BY <1>1, <2>1
    <2>3. n % S = 0
      <3>1. n % S \in 0 .. S - 1 /\ n \div S \in Int /\ n = S * (n \div S) + (n % S)
        BY <1>1
      <3>2. n % S = S * (q + 1 - (n \div S))
        BY <1>1, <2>2, <3>1
      <3> DEFINE k == q + 1 - (n \div S)
      <3>3. k \in Int /\ n % S = S * k
        BY <2>2, <3>1, <3>2
      <3> HIDE DEF k
      <3>4. k >= 1 => S * k >= S
        BY <1>1, <3>3
      <3>5. k <= -1 => S * k < 0
        BY <1>1, <3>3
      <3>6. k = 0 => S * k = 0
        BY <1>1
      <3>7. QED
        BY <1>1, <3>1, <3>3, <3>4, <3>5, <3>6
    <2>4. QED
      BY <2>2, <2>3 DEF Past
  <1>6. QED
    BY <1>1, <1>2, <1>3, <1>4, <1>5

(* An advance begins with the last arrival and counts it.                  *)
AdvanceInv ==
  /\ epochEnd.advancer # Nobody => epochEnd.unarrived = 0
  /\ resetting => epochEnd.advancer # Nobody

(* The counts are reset and the next phase is not there yet.               *)
CountsReset == epochEnd.advancer # Nobody /\ ~resetting

(* What thread t has counted or is about to count.                         *)
Counting(t) ==
  IF pc[t] = "countWrite" THEN newCount[t]
  ELSE IF pc[t] \in {"setGlobal", "count"} THEN epochCount[t] + 1
  ELSE epochCount[t]

(* What t has simulated since the last advance without counting it now: an *)
(* epoch before it arrived, and one less a cycle before the counts were    *)
(* reset under it.                                                         *)
Before(t) ==
  (IF previousPhase[t] = epochEnd.phase THEN SynchClockDomainsCycles ELSE 0)
  + (IF CountsReset THEN SynchClockDomainsCycles - 1 ELSE 0)

(* Where t may have counted a whole epoch.                                 *)
MayBeWhole ==
  {"setGlobal", "count", "countWrite", "check", "awaitEpoch", "arriveEpoch", "dead"}

InTime(t) ==
  \E p \in 0 .. SynchClockDomainsCycles :
    /\ Past(Counting(t), p)
    /\ sinceSync[t] <= Before(t) + p
    /\ pc[t] \notin MayBeWhole => p < SynchClockDomainsCycles

RoundInv == AdvanceInv /\ \A t \in Threads : InTime(t)

(* Nobody has counted.                                                     *)
LEMMA RoundInit == Init => RoundInv
  <1> SUFFICES ASSUME Init PROVE RoundInv
    OBVIOUS
  <1>1. AdvanceInv
    BY DEF Init, AdvanceInv, NewPhaser, Phaser
  <1>2. ASSUME NEW t \in Threads PROVE InTime(t)
    <2>1. /\ Counting(t) = 0 /\ sinceSync[t] = 0 /\ Before(t) = 0
          /\ 0 \in 0 .. SynchClockDomainsCycles /\ 0 < SynchClockDomainsCycles
      BY PastFacts DEF Init, Counting, Before, CountsReset, NewPhaser, Phaser
    <2>2. QED
      BY <2>1, PastFacts DEF InTime
  <1>3. QED
    BY <1>1, <1>2 DEF RoundInv

(* A call of epochEnd by t: when it goes through, the counts are not       *)
(* reset, before or after.                                                 *)
LEMMA EpochCallEffect ==
  ASSUME AdvanceInv, TypeOK, NEW t \in Threads, NEW q, NEW next, NEW catch,
         q \in {Arrive(epochEnd, t), ArriveAndDeregister(epochEnd, t)},
         EpochCall(t, q, next, catch)
  PROVE  /\ AdvanceInv'
         /\ CountsReset' = CountsReset
         /\ epochEnd'.phase = epochEnd.phase
         /\ pc' = [pc EXCEPT ![t] = IF CanArrive(epochEnd) THEN next ELSE catch]
  <1>1. CASE CanArrive(epochEnd)
    <2>1. epochEnd.unarrived \in Nat \ {0} /\ epochEnd.advancer = Nobody /\ ~resetting
      BY <1>1 DEF CanArrive, AdvanceInv, TypeOK, PhaserType
    <2>2. /\ epochEnd' = q /\ resetting' = (resetting \/ q.advancer = t)
          /\ pc' = [pc EXCEPT ![t] = next]
      BY <1>1 DEF EpochCall, Goto
    <2>3. /\ q.phase = epochEnd.phase /\ q.unarrived = epochEnd.unarrived - 1
          /\ q.advancer = IF epochEnd.unarrived = 1 THEN t ELSE Nobody
      BY <2>1 DEF Arrive, ArriveAndDeregister, AfterArrival, Phaser
    <2>4. t # Nobody
      BY RunnerAssumption DEF Threads, Nobody
    <2>5. resetting' <=> epochEnd'.advancer = t
      BY <2>1, <2>2
    <2>6. AdvanceInv'
      BY <2>1, <2>2, <2>3, <2>4, <2>5 DEF AdvanceInv
    <2>7. ~CountsReset /\ ~CountsReset'
      BY <2>1, <2>2, <2>3, <2>4, <2>5 DEF CountsReset
    <2>8. QED
      BY <1>1, <2>2, <2>3, <2>6, <2>7 DEF CountsReset
  <1>2. CASE ~CanArrive(epochEnd)
    BY <1>2 DEF EpochCall, Goto, AdvanceInv, CountsReset
  <1>3. QED
    BY <1>1, <1>2

(* What every step of a thread leaves of the phaser.                       *)
LEMMA StepPhaser ==
  ASSUME AdvanceInv, TypeOK, NEW t \in Threads, Step(t)
  PROVE  AdvanceInv' /\ CountsReset' = CountsReset /\ epochEnd'.phase = epochEnd.phase
  <1>1. CASE UNCHANGED <<epochEnd, resetting>>
    BY <1>1 DEF AdvanceInv, CountsReset
  <1>2. CASE JoinEpoch(t) \/ ArriveEpoch(t)
    BY <1>2, EpochCallEffect DEF JoinEpoch, ArriveEpoch, EpochArrive
  <1>3. CASE LeaveEpoch(t) \/ FinishEpoch(t)
    BY <1>3, EpochCallEffect DEF LeaveEpoch, FinishEpoch
  <1>4. CASE RejoinEpoch(t)
    <2>1. /\ epochEnd.advancer = Nobody /\ epochEnd' = Register(epochEnd)
          /\ resetting' = resetting
      BY <1>4 DEF RejoinEpoch, CanRegister
    <2>2. epochEnd'.phase = epochEnd.phase /\ epochEnd'.advancer = Nobody
      BY <2>1 DEF Register, Phaser
    <2>3. QED
      BY <2>1, <2>2 DEF AdvanceInv, CountsReset
  <1>5. QED
    BY <1>1, <1>2, <1>3, <1>4 DEF Step, Boot, JoinCore, SkipKernel, EndKernel, Cycle, SetGlobal,
       Count, CountWrite, Check, AwaitEpoch, HandOver, AwaitCore, ArriveCore, Move, FinishCore,
       Release, Initialize, epochs

(* The ranges the arithmetic needs.                                        *)
LEMMA RoundTypes ==
  ASSUME TypeOK, NEW t \in Threads
  PROVE  /\ Counting(t) \in Nat /\ sinceSync[t] \in Nat /\ Before(t) \in Nat
         /\ epochCount[t] \in Nat /\ newCount[t] \in Nat
  BY PastFacts DEF TypeOK, Counting, Before

(* A step of another thread.                                               *)
LEMMA InTimeOthers ==
  ASSUME TypeOK, AdvanceInv, NEW t \in Threads, Step(t),
         NEW u \in Threads, u # t, InTime(u)
  PROVE  InTime(u)'
  BY OthersKeep, StepPhaser DEF InTime, Counting, Before

(* A step of t that counts and simulates nothing and does not arrive.      *)
LEMMA InTimeGoto ==
  ASSUME TypeOK, AdvanceInv, NEW t \in Threads, Step(t), InTime(t),
         Counting(t)' = Counting(t),
         UNCHANGED <<sinceSync, previousPhase>>,
         pc[t] \notin MayBeWhole \/ pc'[t] \in MayBeWhole
  PROVE  InTime(t)'
  <1>1. Before(t)' = Before(t)
    BY StepPhaser DEF Before
  <1>2. QED
    BY <1>1 DEF InTime

(* The start of a kernel on a core.                                        *)
LEMMA InTimeInitialize ==
  ASSUME TypeOK, AdvanceInv, NEW t \in Threads, Step(t),
         NEW k, Initialize(t, k)
  PROVE  InTime(t)'
  <1>1. /\ epochCount'[t] = 0 /\ sinceSync'[t] = 0
        /\ \E l \in {"joinCore", "skip", "cycle", "handover", "finishEpoch"} : pc'[t] = l
    BY DEF Initialize, Goto, KernelEntry, TypeOK
  <1>2. Before(t)' \in Nat
    BY PastFacts DEF Before
  <1>3. Counting(t)' = 0 /\ pc'[t] \notin MayBeWhole
    BY <1>1 DEF Counting, MayBeWhole
  <1>4. 0 \in 0 .. SynchClockDomainsCycles /\ 0 < SynchClockDomainsCycles
    BY PastFacts
  <1>5. QED
    BY <1>1, <1>2, <1>3, <1>4, PastFacts DEF InTime

(* One more cycle.                                                         *)
LEMMA InTimeCycle ==
  ASSUME TypeOK, AdvanceInv, NEW t \in Threads, InTime(t), Cycle(t)
  PROVE  InTime(t)'
  <1>1. PICK p \in 0 .. SynchClockDomainsCycles :
          /\ Past(Counting(t), p)
          /\ sinceSync[t] <= Before(t) + p
          /\ pc[t] \notin MayBeWhole => p < SynchClockDomainsCycles
    BY DEF InTime
  <1>2. /\ pc[t] = "cycle" /\ pc'[t] \in {"setGlobal", "count"}
        /\ sinceSync'[t] = sinceSync[t] + 1
        /\ UNCHANGED <<epochCount, previousPhase, epochEnd, resetting>>
    BY DEF Cycle, At, Goto, TypeOK
  <1>3. Counting(t)' = Counting(t) + 1 /\ Before(t)' = Before(t)
    BY <1>2 DEF Counting, Before, CountsReset
  <1>4. /\ p + 1 \in 0 .. SynchClockDomainsCycles /\ Past(Counting(t) + 1, p + 1)
        /\ sinceSync[t] + 1 <= Before(t) + (p + 1)
    BY <1>1, <1>2, PastFacts, RoundTypes DEF MayBeWhole
  <1>5. QED
    BY <1>2, <1>3, <1>4 DEF InTime, MayBeWhole

(* The test of the count: a whole epoch is not overrun.                    *)
LEMMA InTimeCheck ==
  ASSUME TypeOK, AdvanceInv, NEW t \in Threads, InTime(t), Check(t)
  PROVE  InTime(t)'
  <1>1. PICK p \in 0 .. SynchClockDomainsCycles :
          /\ Past(Counting(t), p)
          /\ sinceSync[t] <= Before(t) + p
          /\ pc[t] \notin MayBeWhole => p < SynchClockDomainsCycles
    BY DEF InTime
  <1>2. /\ pc[t] = "check"
        /\ pc'[t] = IF epochCount[t] % SynchClockDomainsCycles = 0 THEN "awaitEpoch" ELSE "cycle"
        /\ UNCHANGED <<epochCount, sinceSync, previousPhase, epochEnd, resetting>>
    BY DEF Check, At, Goto, TypeOK, epochs
  <1>3. Counting(t)' = Counting(t) /\ Before(t)' = Before(t) /\ Counting(t) = epochCount[t]
    BY <1>2 DEF Counting, Before, CountsReset
  <1>4. pc'[t] \notin MayBeWhole => p < SynchClockDomainsCycles
    BY <1>1, <1>2, <1>3, PastFacts, RoundTypes, SMTT(30) DEF MayBeWhole
  <1>5. QED
    BY <1>1, <1>2, <1>3, <1>4 DEF InTime

(* An arrival at epochEnd, which is the first in its phase, counts for an  *)
(* epoch.                                                                  *)
LEMMA InTimeArrive ==
  ASSUME TypeOK, AdvanceInv, ArrivesOnce, NEW t \in Threads, InTime(t),
         JoinEpoch(t) \/ ArriveEpoch(t)
  PROVE  InTime(t)'
  <1> DEFINE S == SynchClockDomainsCycles
             Next0 == IF pc[t] = "joinEpoch" THEN KernelEntry(TOTALBLOCKS[t]) ELSE "cycle"
  <1>1. PICK p \in 0 .. S :
          /\ Past(Counting(t), p)
          /\ sinceSync[t] <= Before(t) + p
          /\ pc[t] \notin MayBeWhole => p < S
    BY DEF InTime
  <1>2. /\ pc[t] \in {"joinEpoch", "arriveEpoch"} /\ UNCHANGED <<epochCount, newCount, sinceSync>>
        /\ EpochArrive(t, Next0)
    BY DEF JoinEpoch, ArriveEpoch, At
  <1>3. /\ AdvanceInv' /\ CountsReset' = CountsReset /\ epochEnd'.phase = epochEnd.phase
        /\ pc' = [pc EXCEPT ![t] = IF CanArrive(epochEnd) THEN Next0 ELSE "dead"]
    BY <1>2, EpochCallEffect DEF EpochArrive
  <1>4. Next0 \in {"skip", "cycle"}
    BY DEF KernelEntry
  <1> HIDE DEF Next0
  <1>5. pc'[t] = IF CanArrive(epochEnd) THEN Next0 ELSE "dead"
    BY <1>3 DEF TypeOK
  <1>6. Counting(t)' = Counting(t)
    BY <1>2, <1>4, <1>5 DEF Counting
  <1>7. CASE CanArrive(epochEnd)
    <2>1. previousPhase'[t] = epochEnd.phase /\ previousPhase[t] < epochEnd.phase
      BY <1>2, <1>7 DEF EpochArrive, TypeOK, ArrivesOnce
    <2>2. previousPhase[t] # epochEnd.phase
      BY <2>1 DEF TypeOK, PhaserType
    <2>3. Before(t)' = Before(t) + S
      BY <1>3, <2>1, <2>2, PastFacts DEF Before
    <2>4. pc'[t] \notin MayBeWhole
      BY <1>4, <1>5, <1>7 DEF MayBeWhole
    <2>5. CASE p = S
      <3>1. Past(Counting(t), 0) /\ 0 \in 0 .. S /\ 0 < S
        BY <1>1, <2>5, PastFacts, RoundTypes
      <3>2. sinceSync'[t] <= Before(t)' + 0
        BY <1>1, <1>2, <2>3, <2>5, RoundTypes, PastFacts
      <3>3. QED
        BY <1>6, <3>1, <3>2 DEF InTime
    <2>6. CASE p # S
      <3>1. p < S /\ sinceSync'[t] <= Before(t)' + p
        BY <1>1, <1>2, <2>3, <2>6, RoundTypes, PastFacts
      <3>2. QED
        BY <1>1, <1>6, <3>1 DEF InTime
    <2>7. QED
      BY <2>5, <2>6
  <1>8. CASE ~CanArrive(epochEnd)
    <2>1. pc'[t] \in MayBeWhole /\ previousPhase' = previousPhase
      BY <1>2, <1>5, <1>8 DEF EpochArrive, MayBeWhole
    <2>2. Before(t)' = Before(t)
      BY <1>3, <2>1 DEF Before
    <2>3. QED
      BY <1>1, <1>2, <1>6, <2>1, <2>2 DEF InTime
  <1>9. QED
    BY <1>7, <1>8

(* onAdvance: a count that starts over in the middle of an epoch lets the  *)
(* thread simulate the rest of it again, less one cycle.                   *)
LEMMA InTimeReset ==
  ASSUME TypeOK, AdvanceInv, NEW t \in Threads, InTime(t), OnAdvance
  PROVE  InTime(t)'
  <1> DEFINE S == SynchClockDomainsCycles
  <1>1. PICK p \in 0 .. S :
          /\ Past(Counting(t), p)
          /\ sinceSync[t] <= Before(t) + p
          /\ pc[t] \notin MayBeWhole => p < S
    BY DEF InTime
  <1>2. /\ resetting /\ ~resetting' /\ epochEnd.advancer # Nobody
        /\ epochCount'[t] = 0
        /\ UNCHANGED <<pc, newCount, sinceSync, previousPhase, epochEnd>>
    BY DEF OnAdvance, AdvanceInv
  <1>3. S \in Nat \ {0} /\ Before(t) \in Nat /\ Before(t)' = Before(t) + S - 1
    BY <1>2, PastFacts DEF Before, CountsReset
  <1>4. CASE pc[t] = "countWrite"
    <2>1. Counting(t)' = Counting(t) /\ sinceSync'[t] <= Before(t)' + p
      BY <1>1, <1>2, <1>3, <1>4, RoundTypes DEF Counting
    <2>2. QED
      BY <1>1, <1>2, <2>1 DEF InTime
  <1>5. CASE pc[t] \in {"setGlobal", "count"}
    <2>1. Counting(t)' = 1 /\ sinceSync'[t] <= Before(t)' + 1
      BY <1>1, <1>2, <1>3, <1>5, RoundTypes DEF Counting
    <2>2. 1 \in 0 .. S /\ pc'[t] \in MayBeWhole
      BY <1>2, <1>3, <1>5 DEF MayBeWhole
    <2>3. QED
      BY <2>1, <2>2, PastFacts DEF InTime
  <1>6. CASE pc[t] \in MayBeWhole \ {"countWrite", "setGlobal", "count"}
    <2>1. Counting(t)' = 0 /\ sinceSync'[t] <= Before(t)' + S
      BY <1>1, <1>2, <1>3, <1>6, RoundTypes DEF Counting
    <2>2. S \in 0 .. S /\ pc'[t] \in MayBeWhole
      BY <1>2, <1>3, <1>6
    <2>3. QED
      BY <2>1, <2>2, PastFacts DEF InTime
  <1>7. CASE pc[t] \notin MayBeWhole
    <2>1. Counting(t)' = 0 /\ sinceSync'[t] <= Before(t)' + 0
      BY <1>1, <1>2, <1>3, <1>7, RoundTypes DEF Counting, MayBeWhole
    <2>2. 0 \in 0 .. S /\ 0 < S
      BY <1>3
    <2>3. QED
      BY <2>1, <2>2, PastFacts DEF InTime
  <1>8. QED
    BY <1>4, <1>5, <1>6, <1>7

(* The next phase is published: all start anew.                            *)
LEMMA InTimePublish ==
  ASSUME TypeOK, AdvanceInv, NEW t \in Threads, InTime(t), PublishEpoch
  PROVE  InTime(t)'
  <1>1. PICK p \in 0 .. SynchClockDomainsCycles :
          /\ Past(Counting(t), p)
          /\ pc[t] \notin MayBeWhole => p < SynchClockDomainsCycles
    BY DEF InTime
  <1>2. sinceSync'[t] = 0 /\ UNCHANGED <<pc, epochCount, newCount>>
    BY DEF PublishEpoch
  <1>3. Before(t)' \in Nat /\ Counting(t)' = Counting(t)
    BY <1>2, PastFacts DEF Before, Counting
  <1>4. sinceSync'[t] <= Before(t)' + p
    BY <1>2, <1>3
  <1>5. QED
    BY <1>1, <1>2, <1>3, <1>4 DEF InTime

(* A step of t itself.                                                     *)
LEMMA InTimeOwn ==
  ASSUME TypeOK, AdvanceInv, ArrivesOnce, NEW t \in Threads, InTime(t), Step(t)
  PROVE  InTime(t)'
  <1>1. CASE Boot(t) \/ SkipKernel(t) \/ EndKernel(t)
    BY <1>1, InTimeInitialize DEF Boot, SkipKernel, EndKernel
  <1>2. CASE Cycle(t)
    BY <1>2, InTimeCycle
  <1>3. CASE Check(t)
    BY <1>3, InTimeCheck
  <1>4. CASE JoinEpoch(t) \/ ArriveEpoch(t)
    BY <1>4, InTimeArrive
  <1>5. CASE SetGlobal(t) \/ Count(t) \/ CountWrite(t) \/ AwaitEpoch(t)
    <2>1. /\ pc[t] \in {"setGlobal", "count", "countWrite", "awaitEpoch"}
          /\ pc'[t] \in {"count", "countWrite", "check", "arriveEpoch"}
          /\ UNCHANGED <<sinceSync, previousPhase>>
      BY <1>5 DEF SetGlobal, Count, CountWrite, AwaitEpoch, At, Goto, TypeOK, epochs
    <2>2. Counting(t)' = Counting(t)
      <3>1. CASE SetGlobal(t)
        BY <3>1 DEF SetGlobal, At, Goto, TypeOK, Counting, epochs
      <3>2. CASE Count(t)
        BY <3>2 DEF Count, At, Goto, TypeOK, Counting
      <3>3. CASE CountWrite(t)
        BY <3>3 DEF CountWrite, At, Goto, TypeOK, Counting
      <3>4. CASE AwaitEpoch(t)
        BY <3>4 DEF AwaitEpoch, At, Goto, TypeOK, Counting, epochs
      <3>5. QED
        BY <1>5, <3>1, <3>2, <3>3, <3>4
    <2>3. QED
      BY <2>1, <2>2, InTimeGoto DEF MayBeWhole
  <1>6. CASE \/ JoinCore(t) \/ HandOver(t) \/ LeaveEpoch(t) \/ AwaitCore(t) \/ RejoinEpoch(t)
             \/ ArriveCore(t) \/ Move(t) \/ FinishEpoch(t) \/ FinishCore(t) \/ Release(t)
    <2>1. pc[t] \in {"joinCore", "handover", "leaveEpoch", "awaitCore", "rejoinEpoch",
                     "arriveCore", "move", "finishEpoch", "finishCore", "release"}
      BY <1>6 DEF JoinCore, HandOver, LeaveEpoch, AwaitCore, RejoinEpoch, ArriveCore, Move,
         FinishEpoch, FinishCore, Release, At
    <2>2. UNCHANGED <<epochCount, newCount, sinceSync, previousPhase>>
      BY <1>6 DEF JoinCore, HandOver, LeaveEpoch, AwaitCore, RejoinEpoch, ArriveCore, Move,
         FinishEpoch, FinishCore, Release, epochs
    <2>3. pc'[t] \notin {"setGlobal", "count", "countWrite"}
      BY <1>6 DEF JoinCore, HandOver, LeaveEpoch, AwaitCore, RejoinEpoch, ArriveCore, Move,
         FinishEpoch, FinishCore, Release, CoreArrive, CoreCall, EpochCall, Goto, KernelEntry,
         TypeOK
    <2>4. Counting(t)' = Counting(t)
      BY <2>1, <2>2, <2>3 DEF Counting
    <2>5. QED
      BY <2>1, <2>2, <2>4, InTimeGoto DEF MayBeWhole
  <1>7. QED
    BY <1>1, <1>2, <1>3, <1>4, <1>5, <1>6 DEF Step

(* No step lets a thread run ahead.                                        *)
LEMMA RoundStep == IndInv /\ RoundInv /\ [Next]_vars => RoundInv'
  <1> SUFFICES ASSUME IndInv, RoundInv, [Next]_vars PROVE RoundInv'
    OBVIOUS
  <1>1. TypeOK /\ ArrivesOnce /\ AdvanceInv /\ \A t \in Threads : InTime(t)
    BY DEF IndInv, RoundInv
  <1>2. ASSUME NEW t \in Threads, Step(t) PROVE RoundInv'
    <2>1. AdvanceInv'
      BY <1>1, <1>2, StepPhaser
    <2>2. ASSUME NEW u \in Threads PROVE InTime(u)'
      <3>1. CASE u = t
        BY <1>1, <1>2, <3>1, InTimeOwn
      <3>2. CASE u # t
        BY <1>1, <1>2, <3>2, InTimeOthers
      <3>3. QED
        BY <3>1, <3>2
    <2>3. QED
      BY <2>1, <2>2 DEF RoundInv
  <1>3. CASE OnAdvance
    <2>1. AdvanceInv'
      BY <1>1, <1>3 DEF OnAdvance, AdvanceInv
    <2>2. QED
      BY <1>1, <1>3, <2>1, InTimeReset DEF RoundInv
  <1>4. CASE PublishEpoch
    <2>1. AdvanceInv'
      BY <1>4 DEF PublishEpoch, AdvanceInv, Publish, Phaser, Nobody
    <2>2. QED
      BY <1>1, <1>4, <2>1, InTimePublish DEF RoundInv
  <1>5. CASE PublishCore \/ WaitForJavaThread \/ AllFinished \/ UNCHANGED vars
    <2>1. UNCHANGED <<pc, epochs>>
      BY <1>5 DEF PublishCore, WaitForJavaThread, AllFinished, vars
    <2>2. QED
      BY <1>1, <2>1 DEF RoundInv, AdvanceInv, InTime, Counting, Before, CountsReset, epochs
  <1>6. QED
    BY <1>2, <1>3, <1>4, <1>5 DEF Next

(* Between two advances of epochEnd a thread simulates fewer than three    *)
(* epochs of cycles: one before it arrives, one before it waits and one    *)
(* that onAdvance lets it count again (AddToSetAndIncrementClock() and the *)
(* onAdvance of Main).                                                     *)
THEOREM EpochBoundCorrect == Spec => []EpochBound
  <1>1. TypeOK /\ RoundInv => EpochBound
    <2> SUFFICES ASSUME TypeOK, RoundInv, NEW t \in Threads
        PROVE  sinceSync[t] < 3 * SynchClockDomainsCycles
      BY DEF EpochBound
    <2>1. PICK p \in 0 .. SynchClockDomainsCycles : sinceSync[t] <= Before(t) + p
      BY DEF RoundInv, InTime
    <2>2. QED
      BY <2>1, PastFacts, RoundTypes DEF Before
  <1>2. QED
    BY <1>1, RoundInit, RoundStep, Inductive, TypeCorrect, PTL DEF Spec


-----------------------------------------------------------------------------
(* The blocks of a core.  Core c simulates as many blocks of a kernel as   *)
(* there are numbers below totalBlocks[k] with the remainder c.            *)

BlocksOf(c, k) == {b \in 0 .. totalBlocks[k] - 1 : b % totalNumCores = c}

(* Quotient and remainder.                                                 *)
LEMMA DivMod ==
  ASSUME NEW n \in Nat \ {0}, NEW x \in Int
  PROVE  x \div n \in Int /\ x % n \in 0 .. n - 1 /\ x = n * (x \div n) + (x % n)
  OBVIOUS

(* A multiple of the divisor changes no remainder.                         *)
LEMMA ModMultiple ==
  ASSUME NEW n \in Nat \ {0}, NEW q \in Int, NEW r \in 0 .. n - 1
  PROVE  (n * q + r) % n = r /\ (n * q + r) \div n = q
  OBVIOUS

(* The number of numbers with a remainder.                                 *)
LEMMA BelowCount ==
  ASSUME NEW n \in Nat \ {0}, NEW q \in Nat, NEW r \in 0 .. n - 1,
         NEW p \in Nat, NEW c \in 0 .. n - 1
  PROVE  n * p + c < n * q + r <=> p < q + (IF c < r THEN 1 ELSE 0)
  <1>1. n * p \in Nat /\ n * q \in Nat
    OBVIOUS
  <1>2. CASE p < q
    <2>1. n * (p + 1) <= n * q /\ n * (p + 1) = n * p + n
      BY <1>2
    <2>2. QED
      BY <1>1, <1>2, <2>1
  <1>3. CASE p = q
    BY <1>1, <1>3
  <1>4. CASE p > q
    <2>1. n * (q + 1) <= n * p /\ n * (q + 1) = n * q + n
      BY <1>4
    <2>2. QED
      BY <1>1, <1>4, <2>1
  <1>5. QED
    BY <1>2, <1>3, <1>4

(* The share that run() computes for a core is the number of its blocks.   *)
LEMMA ShareCounts ==
  ASSUME NEW c \in Cores, NEW k \in Kernels
  PROVE  IsFiniteSet(BlocksOf(c, k)) /\ Cardinality(BlocksOf(c, k)) = Share(c, k)
  <1> DEFINE n == totalNumCores
             t == totalBlocks[k]
             q == t \div n
             r == t % n
             s == q + (IF c < r THEN 1 ELSE 0)
             f == [j \in 1 .. s |-> n * (j - 1) + c]
             B == BlocksOf(c, k)
  <1>1. n \in Nat \ {0} /\ t \in Nat /\ c \in 0 .. n - 1
    BY RunnerAssumption DEF Cores
  <1>2. q \in Int /\ r \in 0 .. n - 1 /\ t = n * q + r
    <2> HIDE DEF t, n
    <2>1. QED
      BY <1>1, DivMod
  <1> HIDE DEF q, r
  <1>3. q \in Nat
    <2>1. CASE q < 0
      <3>1. n * q <= n * (-1) /\ n * (-1) = -n
        BY <1>1, <1>2, <2>1
      <3>2. n * q \in Int
        BY <1>1, <1>2
      <3> HIDE DEF t, n
      <3>3. QED
        BY <1>1, <1>2, <3>1, <3>2
    <2>2. QED
      BY <1>2, <2>1
  <1>4. s \in Nat
    BY <1>2, <1>3
  <1>5. s = Share(c, k)
    BY DEF Share, q, r
  <1> HIDE DEF t, n, s
  <1>6. \A p \in Nat : n * p + c < t <=> p < s
    BY <1>1, <1>2, <1>3, BelowCount DEF s
  <1>7. \A p \in Nat : n * p + c \in Nat /\ (n * p + c) % n = c /\ (n * p + c) \div n = p
    BY <1>1, ModMultiple
  <1>8. \A b : b \in B <=> b \in Nat /\ b < t /\ b % n = c
    BY <1>1 DEF BlocksOf, t, n
  <1> HIDE DEF B
  <1>9. ASSUME NEW j \in 1 .. s
        PROVE  j - 1 \in Nat /\ f[j] = n * (j - 1) + c /\ f[j] \in B /\ f[j] \div n = j - 1
    <2>1. j - 1 \in Nat /\ j - 1 < s /\ f[j] = n * (j - 1) + c
      BY <1>4
    <2> DEFINE p == j - 1
    <2> HIDE DEF p, f
    <2>2. p \in Nat /\ p < s /\ f[j] = n * p + c
      BY <2>1 DEF p
    <2>3. f[j] \in B /\ f[j] \div n = p
      BY <1>6, <1>7, <1>8, <2>2
    <2>4. QED
      BY <2>1, <2>3 DEF p
  <1>10. f \in [1 .. s -> B]
    BY <1>9
  <1>11. \A i, j \in 1 .. s : f[i] = f[j] => i = j
    <2> HIDE DEF f
    <2>1. QED
      BY <1>4, <1>9
  <1>12. ASSUME NEW b \in B PROVE \E j \in 1 .. s : f[j] = b
    <2> DEFINE p == b \div n
    <2>1. b \in Nat /\ p \in Int /\ b = n * p + c /\ b < t
      <3>1. b \in Nat /\ b < t /\ b % n = c
        BY <1>8
      <3>2. p \in Int /\ b = n * p + (b % n)
        BY <1>1, <3>1, DivMod
      <3>3. QED
        BY <3>1, <3>2
    <2> HIDE DEF p
    <2>2. p \in Nat
      <3>1. CASE p < 0
        <4>1. n * p <= n * (-1) /\ n * (-1) = -n
          BY <1>1, <2>1, <3>1
        <4>2. n * p \in Int
          BY <1>1, <2>1
        <4>3. QED
          BY <1>1, <2>1, <4>1, <4>2
      <3>2. QED
        BY <2>1, <3>1
    <2>3. p < s /\ p + 1 \in 1 .. s
      BY <1>4, <1>6, <2>1, <2>2
    <2>4. f[p + 1] = n * ((p + 1) - 1) + c /\ (p + 1) - 1 = p
      BY <2>2, <2>3
    <2>5. QED
      BY <2>1, <2>3, <2>4
  <1>13. f \in Bijection(1 .. s, B)
    <2> HIDE DEF f
    <2>1. QED
      BY <1>10, <1>11, <1>12 DEF Bijection, Injection, Surjection, IsInjective
  <1>14. IsFiniteSet(1 .. s) /\ Cardinality(1 .. s) = s
    BY <1>4, FS_Interval
  <1>15. QED
    BY <1>5, <1>13, <1>14, FS_Bijection DEF ExistsBijection, B

-----------------------------------------------------------------------------
(* The blocks that have been simulated.                                    *)

(* Thread c % M has left core c behind, or finished kernel k on it.        *)
Done(c, k) ==
  LET t == c % MaxNumJavaThreads IN
    c < coreid[t] \/ (c = coreid[t] /\ k < kernelExecuted[t])

DoneBlocks(k) == {b \in 0 .. totalBlocks[k] - 1 : Done(b % totalNumCores, k)}

Working == {"joinCore", "joinEpoch", "skip", "cycle", "setGlobal", "count", "countWrite", "check",
            "awaitEpoch", "arriveEpoch"}
Leaving == {"handover", "leaveEpoch", "awaitCore", "rejoinEpoch", "arriveCore", "move"}
Ending == {"finishEpoch", "finishCore", "release", "done"}

(* Where a thread is among its cores and kernels.                          *)
WorkTypes ==
  /\ coreid \in [Threads -> Cores]
  /\ \A t \in Threads : coreid[t] % MaxNumJavaThreads = t
WorkInv(t) ==
  /\ pc[t] = "boot" => kernelExecuted[t] = 0
  /\ pc[t] \in Working => /\ kernelExecuted[t] < totalNumKernels
                          /\ TOTALBLOCKS[t] = Share(coreid[t], kernelExecuted[t])
  /\ pc[t] = "skip" => TOTALBLOCKS[t] = 0
  /\ pc[t] \in Leaving => /\ kernelExecuted[t] = totalNumKernels
                          /\ coreid[t] + MaxNumJavaThreads < totalNumCores
  /\ pc[t] \in Ending /\ t \notin thrown =>
       /\ kernelExecuted[t] = totalNumKernels
       /\ coreid[t] + MaxNumJavaThreads >= totalNumCores

(* Main has seen only threads that are done.                               *)
MainInv ==
  /\ \A t \in Threads : free[t] \/ t < waitingFor => pc[t] = "done"
  /\ allfinished => waitingFor = MaxNumJavaThreads

CountInv == \A k \in Kernels : blocksDone[k] = Cardinality(DoneBlocks(k))

BlockInv == WorkTypes /\ (\A t \in Threads : WorkInv(t)) /\ MainInv /\ CountInv

(* The numbers of threads, cores and kernels.                              *)
LEMMA RunnerNumbers ==
  /\ MaxNumJavaThreads \in Nat \ {0} /\ totalNumCores \in Nat \ {0}
  /\ MaxNumJavaThreads <= totalNumCores /\ totalNumKernels \in Nat \ {0}
  /\ \A t : t \in Threads <=> t \in Nat /\ t < MaxNumJavaThreads
  /\ \A c : c \in Cores <=> c \in Nat /\ c < totalNumCores
  /\ \A k : k \in Kernels <=> k \in Nat /\ k < totalNumKernels
  /\ \A k \in Kernels : totalBlocks[k] \in Nat
  <1>1. /\ MaxNumJavaThreads \in Nat \ {0} /\ totalNumCores \in Nat \ {0}
        /\ MaxNumJavaThreads <= totalNumCores /\ totalNumKernels \in Nat \ {0}
        /\ \A k \in Kernels : totalBlocks[k] \in Nat
    BY RunnerAssumption
  <1>2. QED
    BY <1>1 DEF Threads, Cores, Kernels

(* The core of a block is one of the cores, and its thread one of them.    *)
LEMMA CoreOf ==
  /\ \A b \in Nat : b % totalNumCores \in Cores
  /\ \A c \in Cores : c % MaxNumJavaThreads \in Threads
  <1>1. \A n \in Nat \ {0} : \A x \in Int : x % n \in Nat /\ x % n < n
    BY DivMod
  <1>2. \A b \in Nat : b % totalNumCores \in Nat /\ b % totalNumCores < totalNumCores
    BY <1>1, RunnerNumbers
  <1>3. \A c \in Nat : c % MaxNumJavaThreads \in Nat /\ c % MaxNumJavaThreads < MaxNumJavaThreads
    BY <1>1, RunnerNumbers
  <1>4. QED
    BY <1>2, <1>3, RunnerNumbers

(* Two cores of a thread are as far apart as there are threads.            *)
LEMMA SameThread ==
  ASSUME NEW x \in Nat, NEW y \in Nat, x % MaxNumJavaThreads = y % MaxNumJavaThreads
  PROVE  x < y + MaxNumJavaThreads <=> x <= y
  <1> DEFINE n == MaxNumJavaThreads
             p == x \div n
             q == y \div n
             r == x % n
  <1>1. /\ n \in Nat \ {0} /\ p \in Int /\ q \in Int /\ r \in 0 .. n - 1
        /\ x = n * p + r /\ y = n * q + r
    <2>1. n \in Nat \ {0}
      BY RunnerNumbers
    <2> HIDE DEF n
    <2>2. p \in Int /\ r \in 0 .. n - 1 /\ x = n * p + r
      BY <2>1, DivMod
    <2>3. q \in Int /\ y = n * q + (y % n) /\ y % n = r
      BY <2>1, DivMod DEF n
    <2>4. QED
      BY <2>1, <2>2, <2>3
  <1> HIDE DEF n, p, q, r
  <1>2. n * p \in Int /\ n * q \in Int
    BY <1>1
  <1>3. CASE p <= q
    <2>1. n * p <= n * q
      BY <1>1, <1>3
    <2>2. x <= y /\ x < y + n
      BY <1>1, <1>2, <2>1
    <2>3. QED
      BY <2>2 DEF n
  <1>4. CASE p > q
    <2>1. n * (q + 1) <= n * p /\ n * (q + 1) = n * q + n
      BY <1>1, <1>4
    <2>2. ~(x <= y) /\ ~(x < y + n)
      BY <1>1, <1>2, <2>1
    <2>3. QED
      BY <2>2 DEF n
  <1>5. QED
    BY <1>1, <1>3, <1>4

(* When thread t goes on to the next kernel, the blocks of its core for    *)
(* the last one are done, and only these were not done before.             *)
LEMMA KernelDone ==
  ASSUME TypeOK, WorkTypes, NEW t \in Threads, UNCHANGED coreid,
         kernelExecuted' = [kernelExecuted EXCEPT ![t] = kernelExecuted[t] + 1], NEW k \in Kernels
  PROVE  /\ k = kernelExecuted[t] =>
              /\ DoneBlocks(k)' = DoneBlocks(k) \cup BlocksOf(coreid[t], k)
              /\ DoneBlocks(k) \cap BlocksOf(coreid[t], k) = {}
         /\ k # kernelExecuted[t] => DoneBlocks(k)' = DoneBlocks(k)
  <1> DEFINE e == kernelExecuted[t]
             n == coreid[t]
  <1>1. e \in Nat /\ k \in Nat /\ n \in Cores /\ n % MaxNumJavaThreads = t
    BY RunnerNumbers DEF TypeOK, WorkTypes
  <1>2. ASSUME NEW c \in Cores
        PROVE  /\ Done(c, k)' <=> Done(c, k) \/ (c = n /\ k = e)
               /\ c = n /\ k = e => ~Done(c, k)
    <2> DEFINE u == c % MaxNumJavaThreads
    <2>1. u \in Threads /\ c \in Nat
      BY CoreOf, RunnerNumbers
    <2>2. Done(c, k)' <=> c < coreid[u] \/ (c = coreid[u] /\ k < kernelExecuted'[u])
      BY DEF Done
    <2>3. CASE u = t
      <3>1. kernelExecuted'[u] = e + 1
        BY <2>3 DEF TypeOK
      <3>2. k < e + 1 <=> k < e \/ k = e
        BY <1>1
      <3>3. Done(c, k) <=> c < n \/ (c = n /\ k < e)
        BY <2>3 DEF Done
      <3>4. n \in Nat
        BY <1>1, RunnerNumbers
      <3> HIDE DEF u, e, n
      <3>5. ~(c < n /\ c = n) /\ ~(k < e /\ k = e)
        BY <1>1, <2>1, <3>4
      <3>6. coreid[u] = n
        BY <2>3 DEF n
      <3>7. QED
        BY <2>2, <3>1, <3>2, <3>3, <3>5, <3>6, Zenon
    <2>4. CASE u # t
      <3>1. kernelExecuted'[u] = kernelExecuted[u] /\ c # n
        BY <1>1, <2>4 DEF TypeOK
      <3>2. QED
        BY <2>2, <3>1 DEF Done
    <2>5. QED
      BY <2>3, <2>4
  <1>3. \A b \in 0 .. totalBlocks[k] - 1 : b % totalNumCores \in Cores
    BY CoreOf, RunnerNumbers
  <1>4. CASE k = e
    <2>1. DoneBlocks(k)' = DoneBlocks(k) \cup BlocksOf(n, k)
      BY <1>2, <1>3, <1>4 DEF DoneBlocks, BlocksOf
    <2>2. DoneBlocks(k) \cap BlocksOf(n, k) = {}
      BY <1>2, <1>3, <1>4 DEF DoneBlocks, BlocksOf
    <2>3. QED
      BY <1>4, <2>1, <2>2
  <1>5. CASE k # e
    BY <1>2, <1>3, <1>5 DEF DoneBlocks
  <1>6. QED
    BY <1>4, <1>5

(* When it goes on to its next core, nothing more is done.                 *)
LEMMA CoreDone ==
  ASSUME TypeOK, WorkTypes, NEW t \in Threads, kernelExecuted[t] = totalNumKernels,
         coreid' = [coreid EXCEPT ![t] = coreid[t] + MaxNumJavaThreads],
         kernelExecuted' = [kernelExecuted EXCEPT ![t] = 0], NEW k \in Kernels
  PROVE  DoneBlocks(k)' = DoneBlocks(k)
  <1> DEFINE n == coreid[t]
  <1>1. k \in Nat /\ k < totalNumKernels /\ n \in Nat /\ n % MaxNumJavaThreads = t
    BY RunnerNumbers DEF WorkTypes
  <1>2. ASSUME NEW c \in Cores PROVE Done(c, k)' <=> Done(c, k)
    <2> DEFINE u == c % MaxNumJavaThreads
    <2>1. u \in Threads /\ c \in Nat
      BY CoreOf, RunnerNumbers
    <2>2. Done(c, k)' <=> c < coreid'[u] \/ (c = coreid'[u] /\ k < kernelExecuted'[u])
      BY DEF Done
    <2>3. CASE u = t
      <3>1. kernelExecuted'[u] = 0 /\ coreid'[u] = n + MaxNumJavaThreads
        BY <2>3 DEF TypeOK
      <3>2. Done(c, k) <=> c < n \/ (c = n /\ k < totalNumKernels)
        BY <2>3 DEF Done
      <3>3. c < n + MaxNumJavaThreads <=> c <= n
        BY <1>1, <2>1, <2>3, SameThread
      <3> HIDE DEF n, u
      <3>4. ~(k < 0) /\ (c <= n <=> c < n \/ c = n)
        BY <1>1, <2>1
      <3>5. QED
        BY <1>1, <2>2, <3>1, <3>2, <3>3, <3>4
    <2>4. CASE u # t
      <3>1. kernelExecuted'[u] = kernelExecuted[u] /\ coreid'[u] = coreid[u]
        BY <2>1, <2>4 DEF TypeOK
      <3>2. QED
        BY <2>2, <3>1 DEF Done
    <2>5. QED
      BY <2>3, <2>4
  <1>3. \A b \in 0 .. totalBlocks[k] - 1 : b % totalNumCores \in Cores
    BY CoreOf, RunnerNumbers
  <1>4. QED
    BY <1>2, <1>3 DEF DoneBlocks

(* There are no more blocks done than there are.                           *)
LEMMA DoneFinite ==
  ASSUME NEW k \in Kernels
  PROVE  /\ IsFiniteSet(DoneBlocks(k)) /\ Cardinality(DoneBlocks(k)) \in Nat
         /\ Cardinality(DoneBlocks(k)) <= totalBlocks[k]
         /\ DoneBlocks(k) = 0 .. totalBlocks[k] - 1 => Cardinality(DoneBlocks(k)) = totalBlocks[k]
  <1> DEFINE t == totalBlocks[k]
  <1>1. t \in Nat
    BY RunnerNumbers
  <1>2. IsFiniteSet(0 .. t - 1) /\ Cardinality(0 .. t - 1) = t
    <2> HIDE DEF t
    <2>1. 0 \in Int /\ t - 1 \in Int
      BY <1>1
    <2>2. IsFiniteSet(0 .. t - 1)
          /\ Cardinality(0 .. t - 1) = IF 0 > t - 1 THEN 0 ELSE t - 1 - 0 + 1
      BY <2>1, FS_Interval
    <2>3. QED
      BY <1>1, <2>2
  <1>3. DoneBlocks(k) \subseteq 0 .. t - 1
    BY DEF DoneBlocks
  <1>4. QED
    BY <1>2, <1>3, FS_Subset, FS_CardinalityType

(* What is counted at the end of a kernel is what is done.                 *)
LEMMA CountKernel ==
  ASSUME TypeOK, WorkTypes, CountInv, NEW t \in Threads, UNCHANGED coreid,
         kernelExecuted[t] \in Kernels, TOTALBLOCKS[t] = Share(coreid[t], kernelExecuted[t]),
         kernelExecuted' = [kernelExecuted EXCEPT ![t] = kernelExecuted[t] + 1],
         blocksDone' = [blocksDone EXCEPT ![kernelExecuted[t]] = @ + TOTALBLOCKS[t]]
  PROVE  CountInv'
  <1> SUFFICES ASSUME NEW k \in Kernels PROVE blocksDone'[k] = Cardinality(DoneBlocks(k)')
    BY DEF CountInv
  <1> DEFINE D == DoneBlocks(k)
             B == BlocksOf(coreid[t], k)
             d == blocksDone[k]
             s == Share(coreid[t], k)
  <1>1. d = Cardinality(D) /\ IsFiniteSet(D) /\ Cardinality(D) \in Nat
    BY DoneFinite DEF CountInv
  <1>2. CASE k = kernelExecuted[t]
    <2>1. coreid[t] \in Cores
      BY DEF WorkTypes
    <2>2. IsFiniteSet(B) /\ Cardinality(B) = s
      BY <2>1, ShareCounts
    <2>3. DoneBlocks(k)' = D \cup B /\ D \cap B = {}
      BY <1>2, KernelDone
    <2>4. blocksDone'[k] = d + s
      BY <1>2 DEF TypeOK
    <2> HIDE DEF D, B, d, s
    <2>5. Cardinality(D \cup B) = Cardinality(D) + Cardinality(B) - Cardinality(D \cap B)
      BY <1>1, <2>2, FS_Union
    <2>6. Cardinality(D \cap B) = 0 /\ Cardinality(B) \in Nat
      BY <2>2, <2>3, FS_EmptySet, FS_CardinalityType
    <2>7. QED
      BY <1>1, <2>2, <2>3, <2>4, <2>5, <2>6
  <1>3. CASE k # kernelExecuted[t]
    <2>1. DoneBlocks(k)' = D
      BY <1>3, KernelDone
    <2>2. blocksDone'[k] = d
      BY <1>3 DEF TypeOK
    <2>3. QED
      BY <1>1, <2>1, <2>2
  <1>4. QED
    BY <1>2, <1>3

(* Every step of a thread keeps the count.                                 *)
LEMMA CountStep ==
  ASSUME TypeOK, WorkTypes, CountInv, NEW t \in Threads, WorkInv(t), Step(t)
  PROVE  CountInv'
  <1>1. ASSUME UNCHANGED <<coreid, kernelExecuted, blocksDone>> PROVE CountInv'
    BY <1>1 DEF CountInv, DoneBlocks, Done
  <1>2. CASE Boot(t)
    <2>1. kernelExecuted[t] = 0 /\ kernelExecuted' = [kernelExecuted EXCEPT ![t] = 0]
          /\ UNCHANGED <<coreid, blocksDone>>
      BY <1>2 DEF Boot, Initialize, At, WorkInv
    <2>2. kernelExecuted' = kernelExecuted
      BY <2>1 DEF TypeOK
    <2>3. QED
      BY <1>1, <2>1, <2>2
  <1>3. CASE SkipKernel(t)
    <2>1. /\ kernelExecuted' = [kernelExecuted EXCEPT ![t] = kernelExecuted[t] + 1]
          /\ UNCHANGED <<coreid, blocksDone>> /\ pc[t] = "skip"
      BY <1>3 DEF SkipKernel, Initialize, At
    <2>2. /\ TOTALBLOCKS[t] = 0 /\ kernelExecuted[t] < totalNumKernels
          /\ TOTALBLOCKS[t] = Share(coreid[t], kernelExecuted[t])
      BY <2>1 DEF WorkInv, Working
    <2>3. kernelExecuted[t] \in Kernels
      BY <2>2, RunnerNumbers DEF TypeOK
    <2>4. blocksDone' = [blocksDone EXCEPT ![kernelExecuted[t]] = @ + TOTALBLOCKS[t]]
      BY <2>1, <2>2, <2>3 DEF TypeOK
    <2>5. QED
      BY <2>1, <2>2, <2>3, <2>4, CountKernel
  <1>4. CASE EndKernel(t)
    <2>1. /\ kernelExecuted' = [kernelExecuted EXCEPT ![t] = kernelExecuted[t] + 1]
          /\ blocksDone' = [blocksDone EXCEPT ![kernelExecuted[t]] = @ + TOTALBLOCKS[t]]
          /\ UNCHANGED coreid /\ pc[t] = "cycle"
      BY <1>4 DEF EndKernel, Initialize, At
    <2>2. /\ kernelExecuted[t] < totalNumKernels
          /\ TOTALBLOCKS[t] = Share(coreid[t], kernelExecuted[t])
      BY <2>1 DEF WorkInv, Working
    <2>3. kernelExecuted[t] \in Kernels
      BY <2>2, RunnerNumbers DEF TypeOK
    <2>4. QED
      BY <2>1, <2>2, <2>3, CountKernel
  <1>5. CASE Move(t)
    <2>1. /\ coreid' = [coreid EXCEPT ![t] = coreid[t] + MaxNumJavaThreads]
          /\ kernelExecuted' = [kernelExecuted EXCEPT ![t] = 0]
          /\ UNCHANGED blocksDone /\ pc[t] = "move"
      BY <1>5 DEF Move, At
    <2>2. kernelExecuted[t] = totalNumKernels
      BY <2>1 DEF WorkInv, Leaving
    <2>3. \A k \in Kernels : DoneBlocks(k)' = DoneBlocks(k)
      BY <2>1, <2>2, CoreDone
    <2>4. QED
      BY <2>1, <2>3 DEF CountInv
  <1>6. CASE ~Boot(t) /\ ~SkipKernel(t) /\ ~EndKernel(t) /\ ~Move(t)
    <2>1. UNCHANGED <<coreid, kernelExecuted, blocksDone>>
      BY <1>6 DEF Step, JoinCore, JoinEpoch, Cycle, SetGlobal, Count, CountWrite, Check, AwaitEpoch,
         ArriveEpoch, HandOver, LeaveEpoch, AwaitCore, RejoinEpoch, ArriveCore, FinishEpoch,
         FinishCore, Release, work
    <2>2. QED
      BY <1>1, <2>1
  <1>7. QED
    BY <1>2, <1>3, <1>4, <1>5, <1>6

(* A step of a thread leaves the others where they are.                    *)
LEMMA WorkOthers ==
  ASSUME TypeOK, NEW t \in Threads, Step(t), NEW u \in Threads, u # t, WorkInv(u)
  PROVE  WorkInv(u)'
  <1>1. pc'[u] = pc[u]
    BY OthersKeep
  <1>2. /\ coreid'[u] = coreid[u] /\ kernelExecuted'[u] = kernelExecuted[u]
        /\ TOTALBLOCKS'[u] = TOTALBLOCKS[u]
    BY DEF TypeOK, Step, Boot, JoinCore, JoinEpoch, SkipKernel, EndKernel, Cycle, SetGlobal, Count,
       CountWrite, Check, AwaitEpoch, ArriveEpoch, HandOver, LeaveEpoch, AwaitCore, RejoinEpoch,
       ArriveCore, Move, FinishEpoch, FinishCore, Release, Initialize, work
  <1>3. thrown' \in {thrown, thrown \cup {t}}
    BY DEF Step, Boot, JoinCore, JoinEpoch, SkipKernel, EndKernel, Cycle, SetGlobal, Count,
       CountWrite, Check, AwaitEpoch, ArriveEpoch, HandOver, LeaveEpoch, AwaitCore, RejoinEpoch,
       ArriveCore, Move, FinishEpoch, FinishCore, Release, Initialize, EpochArrive, CoreArrive,
       EpochCall, CoreCall
  <1>4. u \notin thrown' => u \notin thrown
    BY <1>3
  <1>5. QED
    BY <1>1, <1>2, <1>4 DEF WorkInv, Share

(* initialize() leaves a thread at the first kernel that is not finished.  *)
LEMMA WorkInitialize ==
  ASSUME TypeOK, WorkTypes, NEW t \in Threads, NEW k \in Nat, k <= totalNumKernels, Initialize(t, k),
         IF pc[t] = "boot" THEN k = 0 ELSE k > 0
  PROVE  WorkInv(t)'
  <1> DEFINE n == IF k < totalNumKernels THEN Share(coreid[t], k) ELSE 0
             l == CASE pc[t] = "boot"                 -> "joinCore"
                    [] pc[t] # "boot" /\ k < totalNumKernels
                                                      -> KernelEntry(n)
                    [] pc[t] # "boot" /\ k >= totalNumKernels
                         /\ coreid[t] + MaxNumJavaThreads < totalNumCores
                                                      -> "handover"
                    [] OTHER                          -> "finishEpoch"
  <1>1. /\ kernelExecuted'[t] = k /\ coreid' = coreid /\ TOTALBLOCKS'[t] = n
        /\ pc'[t] = l /\ thrown' = thrown
    BY DEF Initialize, TypeOK, Goto
  <1>2. totalNumKernels \in Nat \ {0} /\ MaxNumJavaThreads \in Nat /\ totalNumCores \in Nat
    BY RunnerNumbers
  <1>3. coreid[t] \in Nat
    BY DEF TypeOK
  <1>4. CASE k < totalNumKernels
    <2>1. l \in {"joinCore", KernelEntry(n)} /\ n = Share(coreid[t], k)
      <3>1. pc[t] = "boot" => l = "joinCore"
        OBVIOUS
      <3>2. pc[t] # "boot" => l = KernelEntry(n)
        <4>1. ~(k >= totalNumKernels)
          BY <1>2, <1>4
        <4>2. QED
          BY <1>4, <4>1, Zenon
      <3>3. QED
        BY <1>4, <3>1, <3>2
    <2>2. CASE n = 0
      <3>1. l \in {"joinCore", "skip"}
        BY <2>1, <2>2 DEF KernelEntry
      <3> HIDE DEF l, n
      <3>2. QED
        BY <1>1, <1>4, <2>1, <2>2, <3>1 DEF WorkInv, Working, Leaving, Ending, Share
    <2>3. CASE n # 0
      <3>1. l \in {"joinCore", "cycle"}
        BY <2>1, <2>3 DEF KernelEntry
      <3> HIDE DEF l, n
      <3>2. QED
        BY <1>1, <1>4, <2>1, <3>1 DEF WorkInv, Working, Leaving, Ending, Share
    <2>4. QED
      BY <2>2, <2>3
  <1>5. CASE k >= totalNumKernels
    <2>1. k = totalNumKernels /\ pc[t] # "boot"
      BY <1>2, <1>5
    <2>2. CASE coreid[t] + MaxNumJavaThreads < totalNumCores
      <3>1. l = "handover"
        BY <1>5, <2>1, <2>2
      <3> HIDE DEF l, n
      <3>2. QED
        BY <1>1, <2>1, <2>2, <3>1 DEF WorkInv, Working, Leaving, Ending
    <2>3. CASE ~(coreid[t] + MaxNumJavaThreads < totalNumCores)
      <3>1. l = "finishEpoch"
        BY <1>2, <1>5, <2>1, <2>3
      <3> HIDE DEF l, n
      <3>2. QED
        BY <1>1, <1>2, <1>3, <2>1, <2>3, <3>1 DEF WorkInv, Working, Leaving, Ending
    <2>4. QED
      BY <2>2, <2>3
  <1>6. QED
    BY <1>2, <1>4, <1>5

(* A thread that stays with its kernel, with its core or at its end.       *)
LEMMA WorkSame ==
  ASSUME TypeOK, NEW t \in Threads, WorkInv(t),
         UNCHANGED <<coreid, kernelExecuted, TOTALBLOCKS, thrown>>,
         NEW l, Goto(t, l),
         \/ pc[t] \in Working /\ l \in Working /\ (l = "skip" => TOTALBLOCKS[t] = 0)
         \/ pc[t] \in Leaving /\ l \in Leaving
         \/ pc[t] \in Ending /\ l \in Ending
  PROVE  WorkInv(t)'
  <1>1. pc'[t] = l
    BY DEF Goto, TypeOK
  <1>2. QED
    BY <1>1 DEF WorkInv, Working, Leaving, Ending, Share

(* A thread that throws.                                                   *)
LEMMA WorkThrown ==
  ASSUME TypeOK, NEW t \in Threads, NEW l \in {"dead", "deadInCore", "finishEpoch"}, Goto(t, l),
         t \in thrown'
  PROVE  WorkInv(t)'
  <1>1. pc'[t] = l
    BY DEF Goto, TypeOK
  <1>2. QED
    BY <1>1 DEF WorkInv, Working, Leaving, Ending

(* Calls of a phaser.                                                      *)
LEMMA WorkCalls ==
  ASSUME TypeOK, NEW t \in Threads, WorkInv(t),
         JoinCore(t) \/ JoinEpoch(t) \/ ArriveEpoch(t) \/ LeaveEpoch(t) \/ ArriveCore(t)
           \/ FinishEpoch(t) \/ FinishCore(t)
  PROVE  WorkInv(t)'
  <1>1. \A p, next, catch :
          /\ EpochCall(t, p, next, catch) =>
               (Goto(t, next) /\ thrown' = thrown) \/ (Goto(t, catch) /\ t \in thrown')
          /\ CoreCall(t, p, next, catch) =>
               (Goto(t, next) /\ thrown' = thrown) \/ (Goto(t, catch) /\ t \in thrown')
    BY DEF EpochCall, CoreCall
  <1>2. UNCHANGED <<coreid, kernelExecuted, TOTALBLOCKS>>
    BY DEF JoinCore, JoinEpoch, ArriveEpoch, LeaveEpoch, ArriveCore, FinishEpoch, FinishCore, work
  <1>3. CASE JoinCore(t)
    <2>1. pc[t] = "joinCore"
      BY <1>3 DEF JoinCore, At
    <2>2. (Goto(t, "joinEpoch") /\ thrown' = thrown) \/ (Goto(t, "dead") /\ t \in thrown')
      BY <1>1, <1>3 DEF JoinCore, CoreArrive
    <2>3. QED
      BY <1>2, <2>1, <2>2, WorkSame, WorkThrown DEF Working
  <1>4. CASE JoinEpoch(t)
    <2>1. pc[t] = "joinEpoch"
      BY <1>4 DEF JoinEpoch, At
    <2>2. \/ Goto(t, KernelEntry(TOTALBLOCKS[t])) /\ thrown' = thrown
          \/ Goto(t, "dead") /\ t \in thrown'
      BY <1>1, <1>4 DEF JoinEpoch, EpochArrive
    <2>3. QED
      BY <1>2, <2>1, <2>2, WorkSame, WorkThrown DEF Working, KernelEntry
  <1>5. CASE ArriveEpoch(t)
    <2>1. pc[t] = "arriveEpoch"
      BY <1>5 DEF ArriveEpoch, At
    <2>2. (Goto(t, "cycle") /\ thrown' = thrown) \/ (Goto(t, "dead") /\ t \in thrown')
      BY <1>1, <1>5 DEF ArriveEpoch, EpochArrive
    <2>3. QED
      BY <1>2, <2>1, <2>2, WorkSame, WorkThrown DEF Working
  <1>6. CASE LeaveEpoch(t)
    <2>1. pc[t] = "leaveEpoch"
      BY <1>6 DEF LeaveEpoch, At
    <2>2. (Goto(t, "awaitCore") /\ thrown' = thrown) \/ (Goto(t, "finishEpoch") /\ t \in thrown')
      BY <1>1, <1>6 DEF LeaveEpoch
    <2>3. QED
      BY <1>2, <2>1, <2>2, WorkSame, WorkThrown DEF Leaving
  <1>7. CASE ArriveCore(t)
    <2>1. pc[t] = "arriveCore"
      BY <1>7 DEF ArriveCore, At
    <2>2. (Goto(t, "move") /\ thrown' = thrown) \/ (Goto(t, "finishEpoch") /\ t \in thrown')
      BY <1>1, <1>7 DEF ArriveCore, CoreArrive
    <2>3. QED
      BY <1>2, <2>1, <2>2, WorkSame, WorkThrown DEF Leaving
  <1>8. CASE FinishEpoch(t)
    <2>1. pc[t] = "finishEpoch"
      BY <1>8 DEF FinishEpoch, At
    <2>2. (Goto(t, "finishCore") /\ thrown' = thrown) \/ (Goto(t, "dead") /\ t \in thrown')
      BY <1>1, <1>8 DEF FinishEpoch
    <2>3. QED
      BY <1>2, <2>1, <2>2, WorkSame, WorkThrown DEF Ending
  <1>9. CASE FinishCore(t)
    <2>1. pc[t] = "finishCore"
      BY <1>9 DEF FinishCore, At
    <2>2. (Goto(t, "release") /\ thrown' = thrown) \/ (Goto(t, "deadInCore") /\ t \in thrown')
      BY <1>1, <1>9 DEF FinishCore
    <2>3. QED
      BY <1>2, <2>1, <2>2, WorkSame, WorkThrown DEF Ending
  <1>10. QED
    BY <1>3, <1>4, <1>5, <1>6, <1>7, <1>8, <1>9

(* Every step of a thread leaves it where its counts say.                  *)
LEMMA WorkOwn ==
  ASSUME TypeOK, WorkTypes, NEW t \in Threads, WorkInv(t), Step(t)
  PROVE  WorkInv(t)' /\ WorkTypes'
  <1>1. /\ \A u \in Threads : coreid[u] \in Nat /\ kernelExecuted[u] \in Nat
        /\ totalNumKernels \in Nat \ {0}
    BY RunnerNumbers DEF TypeOK
  <1>2. UNCHANGED coreid => WorkTypes'
    BY DEF WorkTypes
  <1>3. CASE Boot(t)
    <2>1. Initialize(t, 0) /\ pc[t] = "boot"
      BY <1>3 DEF Boot, At
    <2>2. UNCHANGED coreid
      BY <2>1 DEF Initialize
    <2>3. 0 \in Nat /\ 0 <= totalNumKernels
      BY <1>1
    <2>4. QED
      BY <1>2, <2>1, <2>2, <2>3, WorkInitialize
  <1>4. CASE SkipKernel(t) \/ EndKernel(t)
    <2> DEFINE k == kernelExecuted[t] + 1
    <2>1. Initialize(t, k) /\ pc[t] \in {"skip", "cycle"}
      BY <1>4 DEF SkipKernel, EndKernel, At
    <2>2. UNCHANGED coreid
      BY <2>1 DEF Initialize
    <2>3. kernelExecuted[t] < totalNumKernels
      BY <2>1 DEF WorkInv, Working
    <2>4. k \in Nat /\ k <= totalNumKernels /\ k > 0
      BY <1>1, <2>3
    <2> HIDE DEF k
    <2>5. QED
      BY <1>2, <2>1, <2>2, <2>4, WorkInitialize
  <1>5. CASE Move(t)
    <2> DEFINE c == coreid[t] + MaxNumJavaThreads
               n == Share(c, 0)
    <2>1. /\ coreid' = [coreid EXCEPT ![t] = c] /\ kernelExecuted' = [kernelExecuted EXCEPT ![t] = 0]
          /\ TOTALBLOCKS' = [TOTALBLOCKS EXCEPT ![t] = n] /\ Goto(t, KernelEntry(n))
          /\ pc[t] = "move"
      BY <1>5 DEF Move, At
    <2>2. coreid[t] \in Nat /\ MaxNumJavaThreads \in Nat \ {0} /\ c \in Nat
      BY <1>1, RunnerNumbers
    <2>3. c < totalNumCores
      BY <2>1 DEF WorkInv, Leaving
    <2>4. c \in Cores
      BY <2>2, <2>3, RunnerNumbers
    <2>5. c % MaxNumJavaThreads = t
      <3> DEFINE m == MaxNumJavaThreads
                 x == coreid[t]
                 q == x \div m
      <3>1. x % m = t
        BY DEF WorkTypes
      <3> HIDE DEF m, x, q
      <3>2. m \in Nat \ {0} /\ x \in Int
        BY <2>2 DEF m, x
      <3>3. q \in Int /\ t \in 0 .. m - 1 /\ x = m * q + t
        BY <3>1, <3>2, DivMod DEF q
      <3>4. x + m = m * (q + 1) + t
        BY <3>2, <3>3
      <3>5. q + 1 \in Int
        BY <3>3
      <3>6. (m * (q + 1) + t) % m = t
        BY <3>2, <3>3, <3>5, ModMultiple
      <3>7. QED
        BY <3>4, <3>6 DEF m, x
    <2>6. WorkTypes'
      BY <2>1, <2>4, <2>5 DEF WorkTypes
    <2>7. coreid'[t] = c /\ kernelExecuted'[t] = 0 /\ TOTALBLOCKS'[t] = n /\ pc'[t] = KernelEntry(n)
      BY <2>1 DEF TypeOK, Goto
    <2> HIDE DEF c
    <2>8. CASE n = 0
      <3>1. pc'[t] = "skip"
        BY <2>7, <2>8 DEF KernelEntry
      <3>2. TOTALBLOCKS'[t] = Share(coreid'[t], kernelExecuted'[t])
        BY <2>7
      <3> HIDE DEF n
      <3>3. QED
        BY <1>1, <2>6, <2>7, <2>8, <3>1, <3>2 DEF WorkInv, Working, Leaving, Ending, Share
    <2>9. CASE n # 0
      <3>1. pc'[t] = "cycle"
        BY <2>7, <2>9 DEF KernelEntry
      <3>2. TOTALBLOCKS'[t] = Share(coreid'[t], kernelExecuted'[t])
        BY <2>7
      <3> HIDE DEF n
      <3>3. QED
        BY <1>1, <2>6, <2>7, <3>1, <3>2 DEF WorkInv, Working, Leaving, Ending, Share
    <2>10. QED
      BY <2>6, <2>8, <2>9
  <1>6. CASE JoinCore(t) \/ JoinEpoch(t) \/ ArriveEpoch(t) \/ LeaveEpoch(t) \/ ArriveCore(t)
               \/ FinishEpoch(t) \/ FinishCore(t)
    <2>1. UNCHANGED coreid
      BY <1>6 DEF JoinCore, JoinEpoch, ArriveEpoch, LeaveEpoch, ArriveCore, FinishEpoch, FinishCore,
                  work
    <2>2. QED
      BY <1>2, <1>6, <2>1, WorkCalls
  <1>7. CASE Cycle(t) \/ SetGlobal(t) \/ Count(t) \/ CountWrite(t) \/ Check(t) \/ AwaitEpoch(t)
    <2>1. UNCHANGED <<coreid, kernelExecuted, TOTALBLOCKS, thrown>>
      BY <1>7 DEF Cycle, SetGlobal, Count, CountWrite, Check, AwaitEpoch, work
    <2>2. pc[t] \in Working
      BY <1>7 DEF Cycle, SetGlobal, Count, CountWrite, Check, AwaitEpoch, At, Working
    <2>3. \E l \in Working \ {"skip"} : Goto(t, l)
      BY <1>7 DEF Cycle, SetGlobal, Count, CountWrite, Check, AwaitEpoch, Working
    <2>4. QED
      BY <1>2, <2>1, <2>2, <2>3, WorkSame
  <1>8. CASE HandOver(t) \/ AwaitCore(t) \/ RejoinEpoch(t)
    <2>1. UNCHANGED <<coreid, kernelExecuted, TOTALBLOCKS, thrown>>
      BY <1>8 DEF HandOver, AwaitCore, RejoinEpoch, work
    <2>2. pc[t] \in Leaving
      BY <1>8 DEF HandOver, AwaitCore, RejoinEpoch, At, Leaving
    <2>3. \E l \in Leaving : Goto(t, l)
      BY <1>8 DEF HandOver, AwaitCore, RejoinEpoch, Leaving
    <2>4. QED
      BY <1>2, <2>1, <2>2, <2>3, WorkSame
  <1>9. CASE Release(t)
    <2>1. /\ UNCHANGED <<coreid, kernelExecuted, TOTALBLOCKS, thrown>>
          /\ pc[t] \in Ending /\ "done" \in Ending /\ Goto(t, "done")
      BY <1>9 DEF Release, At, Ending, work
    <2>2. QED
      BY <1>2, <2>1, WorkSame
  <1>10. QED
    BY <1>3, <1>4, <1>5, <1>6, <1>7, <1>8, <1>9 DEF Step

(* Only release() lets main go on, and a thread that is done stays so.     *)
LEMMA MainStep ==
  ASSUME TypeOK, MainInv, NEW t \in Threads, Step(t)
  PROVE  MainInv'
  <1>1. pc[t] # "done"
    BY DEF Step, Boot, JoinCore, JoinEpoch, SkipKernel, EndKernel, Cycle, SetGlobal, Count,
       CountWrite, Check, AwaitEpoch, ArriveEpoch, HandOver, LeaveEpoch, AwaitCore, RejoinEpoch,
       ArriveCore, Move, FinishEpoch, FinishCore, Release, At
  <1>2. UNCHANGED <<waitingFor, allfinished>>
    BY DEF Step, Boot, JoinCore, JoinEpoch, SkipKernel, EndKernel, Cycle, SetGlobal, Count,
       CountWrite, Check, AwaitEpoch, ArriveEpoch, HandOver, LeaveEpoch, AwaitCore, RejoinEpoch,
       ArriveCore, Move, FinishEpoch, FinishCore, Release, Initialize, main
  <1>3. UNCHANGED free \/ (free' = [free EXCEPT ![t] = TRUE] /\ Goto(t, "done"))
    BY DEF Step, Boot, JoinCore, JoinEpoch, SkipKernel, EndKernel, Cycle, SetGlobal, Count,
       CountWrite, Check, AwaitEpoch, ArriveEpoch, HandOver, LeaveEpoch, AwaitCore, RejoinEpoch,
       ArriveCore, Move, FinishEpoch, FinishCore, Release, Initialize, main
  <1>4. \A u \in Threads : u # t => pc'[u] = pc[u]
    BY OthersKeep
  <1>5. CASE UNCHANGED free
    <2>1. ~free[t] /\ ~(t < waitingFor)
      BY <1>1 DEF MainInv
    <2>2. QED
      BY <1>2, <1>4, <1>5, <2>1 DEF MainInv
  <1>6. CASE free' = [free EXCEPT ![t] = TRUE] /\ Goto(t, "done")
    <2>1. pc'[t] = "done" /\ \A u \in Threads : u # t => free'[u] = free[u]
      BY <1>6 DEF TypeOK, Goto
    <2>2. QED
      BY <1>2, <1>4, <2>1 DEF MainInv
  <1>7. QED
    BY <1>3, <1>5, <1>6

(* The invariant holds at first.                                           *)
LEMMA BlockInit == Init => BlockInv
  <1> SUFFICES ASSUME Init PROVE BlockInv
    OBVIOUS
  <1>1. \A t \in Threads : t \in Cores /\ t \in Nat /\ t < MaxNumJavaThreads
    BY RunnerNumbers
  <1>2. \A n \in Nat \ {0} : \A x \in 0 .. n - 1 : x % n = x
    OBVIOUS
  <1>3. \A t \in Threads : t % MaxNumJavaThreads = t
    BY <1>1, <1>2, RunnerNumbers
  <1>4. WorkTypes
    BY <1>1, <1>3 DEF Init, WorkTypes
  <1>5. \A t \in Threads : WorkInv(t)
    BY DEF Init, WorkInv, Working, Leaving, Ending
  <1>6. MainInv
    BY <1>1 DEF Init, MainInv
  <1>7. ASSUME NEW k \in Kernels PROVE blocksDone[k] = Cardinality(DoneBlocks(k))
    <2>1. ASSUME NEW c \in Cores PROVE ~Done(c, k)
      <3> DEFINE u == c % MaxNumJavaThreads
      <3>1. u \in Threads /\ c \in Nat /\ k \in Nat
        BY CoreOf, RunnerNumbers
      <3>2. coreid[u] = u /\ kernelExecuted[u] = 0
        BY <3>1 DEF Init
      <3>3. u <= c
        <4>1. \A n \in Nat \ {0} : \A x \in Nat : x % n <= x
          OBVIOUS
        <4>2. QED
          BY <3>1, <4>1, RunnerNumbers
      <3>4. u \in Nat
        BY <1>1, <3>1
      <3> HIDE DEF u
      <3>5. ~(c < u) /\ ~(k < 0)
        BY <3>1, <3>3, <3>4
      <3>6. QED
        BY <3>2, <3>5 DEF Done, u
    <2>2. DoneBlocks(k) = {}
      BY <2>1, CoreOf, RunnerNumbers DEF DoneBlocks
    <2>3. QED
      BY <2>2, FS_EmptySet DEF Init
  <1>8. QED
    BY <1>4, <1>5, <1>6, <1>7 DEF BlockInv, CountInv

(* Every step keeps it.                                                    *)
LEMMA BlockStep == TypeOK /\ BlockInv /\ [Next]_vars => BlockInv'
  <1> SUFFICES ASSUME TypeOK, BlockInv, [Next]_vars PROVE BlockInv'
    OBVIOUS
  <1>1. WorkTypes /\ (\A t \in Threads : WorkInv(t)) /\ MainInv /\ CountInv
    BY DEF BlockInv
  <1>2. ASSUME NEW t \in Threads, Step(t) PROVE BlockInv'
    <2>1. \A u \in Threads : WorkInv(u)'
      BY <1>1, <1>2, WorkOwn, WorkOthers
    <2>2. WorkTypes' /\ MainInv' /\ CountInv'
      BY <1>1, <1>2, WorkOwn, MainStep, CountStep
    <2>3. QED
      BY <2>1, <2>2 DEF BlockInv
  <1>3. ASSUME UNCHANGED <<pc, work, thrown>>
        PROVE  WorkTypes' /\ (\A t \in Threads : WorkInv(t)') /\ CountInv'
    <2>1. WorkTypes'
      BY <1>1, <1>3 DEF WorkTypes, work
    <2>2. \A t \in Threads : WorkInv(t)'
      BY <1>1, <1>3 DEF WorkInv, Share, work
    <2>3. CountInv'
      BY <1>1, <1>3 DEF CountInv, DoneBlocks, Done, work
    <2>4. QED
      BY <2>1, <2>2, <2>3
  <1>4. CASE OnAdvance \/ PublishEpoch \/ PublishCore \/ UNCHANGED vars
    <2>1. UNCHANGED <<pc, work, thrown, main>>
      BY <1>4 DEF OnAdvance, PublishEpoch, PublishCore, vars
    <2>2. MainInv'
      BY <1>1, <2>1 DEF MainInv, main
    <2>3. QED
      BY <1>3, <2>1, <2>2 DEF BlockInv
  <1>5. CASE WaitForJavaThread
    <2>1. /\ UNCHANGED <<pc, work, thrown, allfinished>>
          /\ waitingFor < MaxNumJavaThreads /\ free[waitingFor] /\ waitingFor' = waitingFor + 1
          /\ free' = [free EXCEPT ![waitingFor] = FALSE]
      BY <1>5 DEF WaitForJavaThread
    <2>2. waitingFor \in Threads /\ waitingFor \in Nat
      BY <2>1, RunnerNumbers DEF TypeOK
    <2>3. \A u \in Threads : /\ free'[u] => free[u]
                             /\ u < waitingFor' => u < waitingFor \/ u = waitingFor
      BY <2>1, <2>2, RunnerNumbers DEF TypeOK
    <2>4. ~allfinished
      BY <1>1, <2>1, RunnerNumbers DEF MainInv
    <2>5. MainInv'
      BY <1>1, <2>1, <2>2, <2>3, <2>4 DEF MainInv
    <2>6. QED
      BY <1>3, <2>1, <2>5 DEF BlockInv
  <1>6. CASE AllFinished
    <2>1. UNCHANGED <<pc, work, thrown, free, waitingFor>> /\ waitingFor = MaxNumJavaThreads
      BY <1>6 DEF AllFinished
    <2>2. MainInv'
      BY <1>1, <2>1 DEF MainInv
    <2>3. QED
      BY <1>3, <2>1, <2>2 DEF BlockInv
  <1>7. QED
    BY <1>2, <1>4, <1>5, <1>6 DEF Next

(* No block is simulated twice, and when main ends and nothing has thrown  *)
(* none is left out, for every number of threads, cores, kernels and       *)
(* blocks (SimplerRunnableThread.java, initialize() and run()).            *)
THEOREM EveryBlockOnceCorrect == Spec => []EveryBlockOnce
  <1>1. TypeOK /\ BlockInv => EveryBlockOnce
    <2> SUFFICES ASSUME TypeOK, BlockInv PROVE EveryBlockOnce
      OBVIOUS
    <2>1. \A k \in Kernels : blocksDone[k] <= totalBlocks[k]
      BY DoneFinite DEF BlockInv, CountInv
    <2>2. ASSUME allfinished, thrown = {}, NEW k \in Kernels
          PROVE  blocksDone[k] = totalBlocks[k]
      <3>1. ASSUME NEW c \in Cores PROVE Done(c, k)
        <4> DEFINE t == c % MaxNumJavaThreads
        <4>1. t \in Threads /\ c \in Nat /\ c < totalNumCores /\ k \in Nat /\ k < totalNumKernels
          BY CoreOf, RunnerNumbers
        <4>2. pc[t] = "done"
          BY <2>2, <4>1, RunnerNumbers DEF BlockInv, MainInv
        <4>3. /\ kernelExecuted[t] = totalNumKernels
              /\ coreid[t] + MaxNumJavaThreads >= totalNumCores
          BY <2>2, <4>1, <4>2 DEF BlockInv, WorkInv, Ending
        <4>4. coreid[t] \in Nat /\ coreid[t] % MaxNumJavaThreads = t
          BY <4>1 DEF TypeOK, BlockInv, WorkTypes
        <4>5. c < coreid[t] + MaxNumJavaThreads
          BY <4>1, <4>3, <4>4, RunnerNumbers
        <4>6. c <= coreid[t]
          BY <4>1, <4>4, <4>5, SameThread
        <4> HIDE DEF t
        <4>7. c < coreid[t] \/ (c = coreid[t] /\ k < kernelExecuted[t])
          BY <4>1, <4>3, <4>4, <4>6
        <4>8. QED
          BY <4>7 DEF Done, t
      <3>2. DoneBlocks(k) = 0 .. totalBlocks[k] - 1
        BY <3>1, CoreOf, RunnerNumbers DEF DoneBlocks
      <3>3. QED
        BY <3>2, DoneFinite DEF BlockInv, CountInv
    <2>3. allfinished /\ thrown = {} => blocksDone = totalBlocks
      <3>1. blocksDone \in [Kernels -> Nat] /\ totalBlocks \in [Kernels -> Nat]
        BY RunnerAssumption DEF TypeOK
      <3>2. QED
        BY <2>2, <3>1
    <2>4. QED
      BY <2>1, <2>3 DEF EveryBlockOnce
  <1>2. QED
    BY <1>1, TypeCorrect, BlockInit, BlockStep, PTL DEF Spec


-----------------------------------------------------------------------------
(* Somebody can always go on.                                              *)

(* t can take a step: it is not at its end, and what it waits for is there. *)
CanGoOn(t) ==
  /\ Free(t) /\ pc[t] \notin {"done", "dead", "deadInCore"}
  /\ pc[t] = "awaitEpoch" => epochEnd.phase # previousPhase[t]
  /\ pc[t] = "awaitCore" => coreEnd.phase # previousCore[t]
  /\ pc[t] = "rejoinEpoch" => CanRegister(epochEnd)

(* A thread, an advance under way, or main.                                *)
SomebodyCanGoOn ==
  \/ \E t \in Threads : CanGoOn(t)
  \/ epochEnd.advancer # Nobody \/ coreEnd.advancer # Nobody
  \/ \E t \in Threads : waitingFor = t /\ free[t]
  \/ waitingFor = MaxNumJavaThreads /\ ~allfinished

(* The threads and main never wait for each other in a circle.             *)
NoDeadlock == allfinished \/ thrown # {} \/ SomebodyCanGoOn

(* A thread that is done was seen by main or can be seen; one that stopped *)
(* before has met the exception.                                           *)
EndInv ==
  \A t \in Threads :
    /\ pc[t] = "done" => free[t] \/ t < waitingFor
    /\ pc[t] \in {"dead", "deadInCore"} => t \in thrown

(* What a step of t may do to its end.                                     *)
LEMMA EndOwn ==
  ASSUME TypeOK, NEW t \in Threads, Step(t)
  PROVE  /\ thrown \subseteq thrown' /\ waitingFor' = waitingFor
         /\ pc'[t] \in {"dead", "deadInCore"} => t \in thrown'
         /\ \/ UNCHANGED free /\ pc'[t] # "done"
            \/ free' = [free EXCEPT ![t] = TRUE]
  <1>1. \A l : Goto(t, l) => pc'[t] = l
    BY DEF TypeOK, Goto
  <1>2. CASE Release(t)
    BY <1>1, <1>2 DEF Release
  <1>3. CASE \/ Boot(t) \/ SkipKernel(t) \/ EndKernel(t) \/ Cycle(t) \/ SetGlobal(t) \/ Count(t)
             \/ CountWrite(t) \/ Check(t) \/ AwaitEpoch(t) \/ HandOver(t) \/ AwaitCore(t)
             \/ RejoinEpoch(t) \/ Move(t)
    <2>1. UNCHANGED <<thrown, waitingFor, free>>
      BY <1>3 DEF Boot, SkipKernel, EndKernel, Cycle, SetGlobal, Count, CountWrite, Check, AwaitEpoch,
         HandOver, AwaitCore, RejoinEpoch, Move, Initialize, main
    <2>2. pc'[t] \notin {"done", "dead", "deadInCore"}
      BY <1>1, <1>3 DEF Boot, SkipKernel, EndKernel, Cycle, SetGlobal, Count, CountWrite, Check,
         AwaitEpoch, HandOver, AwaitCore, RejoinEpoch, Move, Initialize, KernelEntry
    <2>3. QED
      BY <2>1, <2>2
  <1>4. CASE \/ JoinCore(t) \/ JoinEpoch(t) \/ ArriveEpoch(t) \/ LeaveEpoch(t) \/ ArriveCore(t)
             \/ FinishEpoch(t) \/ FinishCore(t)
    <2>1. UNCHANGED <<waitingFor, free>>
      BY <1>4 DEF JoinCore, JoinEpoch, ArriveEpoch, LeaveEpoch, ArriveCore, FinishEpoch, FinishCore, main
    <2>2. \E next \in {"joinEpoch", "skip", "cycle", "awaitCore", "move", "finishCore", "release"},
             catch \in {"dead", "deadInCore", "finishEpoch"} :
            \/ Goto(t, next) /\ thrown' = thrown
            \/ Goto(t, catch) /\ thrown' = thrown \cup {t}
      BY <1>4 DEF JoinCore, JoinEpoch, ArriveEpoch, LeaveEpoch, ArriveCore, FinishEpoch, FinishCore,
         EpochArrive, CoreArrive, EpochCall, CoreCall, KernelEntry
    <2>3. QED
      BY <1>1, <2>1, <2>2
  <1>5. QED
    BY <1>2, <1>3, <1>4 DEF Step

(* Every step keeps it.                                                    *)
LEMMA EndStep == TypeOK /\ EndInv /\ [Next]_vars => EndInv'
  <1> SUFFICES ASSUME TypeOK, EndInv, [Next]_vars PROVE EndInv'
    OBVIOUS
  <1>1. ASSUME NEW t \in Threads, Step(t) PROVE EndInv'
    <2>1. ASSUME NEW u \in Threads, u # t
          PROVE  /\ pc'[u] = pc[u] /\ free'[u] = free[u]
      BY <1>1, <2>1, OthersKeep, EndOwn DEF TypeOK
    <2>2. pc'[t] = "done" => free'[t]
      BY <1>1, EndOwn DEF TypeOK
    <2>3. QED
      BY <1>1, <2>1, <2>2, EndOwn DEF EndInv
  <1>2. CASE OnAdvance \/ PublishEpoch \/ PublishCore \/ AllFinished \/ UNCHANGED vars
    <2>1. UNCHANGED <<pc, thrown, free, waitingFor>>
      BY <1>2 DEF OnAdvance, PublishEpoch, PublishCore, AllFinished, vars, main
    <2>2. QED
      BY <2>1 DEF EndInv
  <1>3. CASE WaitForJavaThread
    <2>1. /\ UNCHANGED <<pc, thrown>> /\ waitingFor' = waitingFor + 1
          /\ free' = [free EXCEPT ![waitingFor] = FALSE] /\ waitingFor \in Nat
      BY <1>3 DEF WaitForJavaThread, TypeOK
    <2>2. \A u \in Threads : u \in Nat
      BY RunnerNumbers
    <2>3. ASSUME NEW u \in Threads, free[u] \/ u < waitingFor
          PROVE  free'[u] \/ u < waitingFor'
      <3>1. CASE u = waitingFor
        BY <2>1, <2>2, <3>1
      <3>2. CASE u # waitingFor
        <4>1. free'[u] = free[u]
          BY <2>1, <3>2 DEF TypeOK
        <4>2. u < waitingFor => u < waitingFor'
          BY <2>1, <2>2
        <4>3. QED
          BY <2>3, <4>1, <4>2
      <3>3. QED
        BY <3>1, <3>2
    <2>4. QED
      BY <2>1, <2>3 DEF EndInv
  <1>4. QED
    BY <1>1, <1>2, <1>3 DEF Next

(* Without an advance under way, a thread that cannot go on is at its end  *)
(* or waits for a phase to end.                                            *)
LEMMA Blocked ==
  ASSUME ~SomebodyCanGoOn, thrown = {}, EndInv, NEW t \in Threads
  PROVE  \/ pc[t] = "done"
         \/ pc[t] = "awaitEpoch" /\ epochEnd.phase = previousPhase[t]
         \/ pc[t] = "awaitCore" /\ coreEnd.phase = previousCore[t]
  <1>1. epochEnd.advancer = Nobody /\ coreEnd.advancer = Nobody /\ ~CanGoOn(t)
    BY DEF SomebodyCanGoOn
  <1>2. t # Nobody
    BY RunnerNumbers DEF Nobody
  <1>3. Free(t) /\ CanRegister(epochEnd)
    BY <1>1, <1>2 DEF Free, CanRegister
  <1>4. pc[t] \notin {"dead", "deadInCore"}
    BY DEF EndInv
  <1>5. QED
    BY <1>1, <1>3, <1>4, Zenon DEF CanGoOn

(* As long as main has not ended, and no phaser call has thrown, a thread, *)
(* an advance under way or main can take a step: threads that block on the *)
(* two phasers and on the semaphores never all wait for each other.        *)
THEOREM NoDeadlockCorrect == Spec => []NoDeadlock
  <1>1. TypeOK /\ NoOrphanWait /\ EndInv => NoDeadlock
    <2> SUFFICES ASSUME TypeOK, NoOrphanWait, EndInv, ~allfinished, thrown = {}, ~SomebodyCanGoOn
                 PROVE  FALSE
      BY DEF NoDeadlock
    <2>1. epochEnd.advancer = Nobody /\ coreEnd.advancer = Nobody
      BY DEF SomebodyCanGoOn
    <2>2. ASSUME NEW t \in Threads PROVE pc[t] # "awaitEpoch"
      <3> SUFFICES ASSUME pc[t] = "awaitEpoch" PROVE FALSE
        OBVIOUS
      <3>1. epochEnd.phase = previousPhase[t]
        BY Blocked
      <3>2. PICK u \in EpochMembers : previousPhase[u] # epochEnd.phase
        BY <2>1, <3>1 DEF NoOrphanWait
      <3>3. u \in Threads /\ pc[u] \notin {"done", "awaitCore"}
        BY DEF EpochMembers
      <3>4. QED
        BY <3>2, <3>3, Blocked
    <2>3. ASSUME NEW t \in Threads PROVE pc[t] # "awaitCore"
      <3> SUFFICES ASSUME pc[t] = "awaitCore" PROVE FALSE
        OBVIOUS
      <3>1. coreEnd.phase = previousCore[t]
        BY Blocked
      <3>2. PICK u \in CoreMembers : previousCore[u] # coreEnd.phase
        BY <2>1, <3>1 DEF NoOrphanWait
      <3>3. u \in Threads /\ pc[u] # "done"
        BY DEF CoreMembers
      <3>4. QED
        BY <2>2, <3>2, <3>3, Blocked
    <2>4. \A t \in Threads : pc[t] = "done"
      BY <2>2, <2>3, Blocked
    <2>5. waitingFor \in 0 .. MaxNumJavaThreads /\ waitingFor # MaxNumJavaThreads
      BY DEF TypeOK, SomebodyCanGoOn
    <2>6. waitingFor \in Threads /\ ~(waitingFor < waitingFor)
      BY <2>5, RunnerNumbers
    <2>7. free[waitingFor]
      BY <2>4, <2>6 DEF EndInv
    <2>8. QED
      BY <2>6, <2>7 DEF SomebodyCanGoOn
  <1>2. Init => EndInv
    BY DEF Init, EndInv
  <1>3. QED
    BY <1>1, <1>2, TypeCorrect, NoOrphanWaitCorrect, EndStep, PTL DEF Spec
=============================================================================
