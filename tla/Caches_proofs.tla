---------------------------- MODULE Caches_proofs ----------------------------
(***************************************************************************)
(* Proofs about Caches, for every set of caches and blocks, every size of  *)
(* the lines and of the MSHR, and every program: how often a read is       *)
(* answered, what will serve the entries of the MSHRs, that the caches     *)
(* implement the coalescing memory, and that no read is left behind.       *)
(***************************************************************************)
EXTENDS Caches, FiniteSetTheorems, SequenceTheorems, TLAPS

(* What a thread may still have to put into the MSHR of L2.                *)
Additions ==
  [what : Caches \cup {Write}, block : Blocks, queue : Caches \cup {NoQueue},
   step : {"look", "new", "join"}]

(* A read is put there by thread 0, before anything else and without an    *)
(* event.                                                                  *)
ReadFirst(t) ==
  \A k \in DOMAIN todo[t] :
    todo[t][k].what # Write => k = 1 /\ t = thread0 /\ todo[t][k].queue = NoQueue

(* The ranges the proofs need.                                             *)
CacheTypes ==
  /\ program \in [Ids -> [cache : Caches, type : Kinds, block : Blocks]]
  /\ issued \subseteq Ids /\ finished \subseteq Caches
  /\ adding \in [Caches -> Ids \cup {NoRequest}] /\ again \in [Caches -> Ids \cup {NoRequest}]
  /\ held \in [Ids -> Nat] /\ answers \in [Ids -> Nat]
  /\ queued \subseteq Ids /\ opened \subseteq Ids /\ dropped \subseteq Ids
  /\ used1 \in [Caches -> Seq(Blocks)]
  /\ state2 \in [Blocks -> MESI]
  /\ mshr2 \in [Blocks -> Seq(Caches \cup {Write})]
  /\ reads \in [Caches \X Blocks -> Nat] /\ responses \in [Caches \X Blocks -> Nat]
  /\ writes \in [Caches \X Blocks -> Nat] /\ memReads \in [Blocks -> Nat]
  /\ todo \in [Caches -> Seq(Additions)] /\ \A t \in Caches : ReadFirst(t)
  /\ waiting \subseteq Caches \X Blocks /\ lost \subseteq Caches \X Blocks
  /\ stranded \subseteq Blocks

-----------------------------------------------------------------------------
(* How often an element occurs in a sequence.                              *)

Places(x, s) == {k \in DOMAIN s : s[k] = x}

(* The places are finitely many.                                           *)
LEMMA PlacesFinite ==
  ASSUME NEW S, NEW s \in Seq(S), NEW x
  PROVE  IsFiniteSet(Places(x, s)) /\ Times(x, s) = Cardinality(Places(x, s)) /\ Times(x, s) \in Nat
  <1>1. IsFiniteSet(1 .. Len(s))
    BY FS_Interval
  <1>2. Places(x, s) \subseteq 1 .. Len(s)
    BY DEF Places
  <1>3. IsFiniteSet(Places(x, s))
    BY <1>1, <1>2, FS_Subset
  <1>4. QED
    BY <1>3, FS_CardinalityType DEF Places, Times

(* The empty sequence.                                                     *)
LEMMA TimesEmpty == ASSUME NEW x PROVE Times(x, <<>>) = 0
  <1>1. {k \in DOMAIN <<>> : <<>>[k] = x} = {}
    OBVIOUS
  <1>2. QED
    BY <1>1, FS_EmptySet DEF Times

(* One element more.                                                       *)
LEMMA TimesAppend ==
  ASSUME NEW S, NEW s \in Seq(S), NEW e \in S, NEW x
  PROVE  Times(x, Append(s, e)) = Times(x, s) + (IF e = x THEN 1 ELSE 0)
  <1> DEFINE n == Len(s) + 1
  <1>1. Append(s, e) \in Seq(S) /\ DOMAIN Append(s, e) = 1 .. n /\ Append(s, e)[n] = e
        /\ \A k \in 1 .. Len(s) : Append(s, e)[k] = s[k]
    OBVIOUS
  <1>2. n \notin Places(x, s) /\ DOMAIN s = 1 .. Len(s) /\ Len(s) \in Nat
    BY DEF Places
  <1>3. CASE e = x
    <2>1. Places(x, Append(s, e)) = Places(x, s) \cup {n}
      BY <1>1, <1>2, <1>3 DEF Places
    <2>2. Cardinality(Places(x, s) \cup {n}) = Cardinality(Places(x, s)) + 1
      BY <1>2, PlacesFinite, FS_AddElement
    <2>3. QED
      BY <1>1, <1>3, <2>1, <2>2, PlacesFinite
  <1>4. CASE e # x
    <2>1. Places(x, Append(s, e)) = Places(x, s)
      BY <1>1, <1>2, <1>4 DEF Places
    <2>2. Times(x, Append(s, e)) = Cardinality(Places(x, s)) /\ Times(x, s) = Cardinality(Places(x, s))
      BY <2>1, <1>1, PlacesFinite
    <2>3. Times(x, s) \in Nat
      BY PlacesFinite
    <2>4. QED
      BY <1>4, <2>2, <2>3
  <1>5. QED
    BY <1>3, <1>4

(* An element that does not occur is not the first.                        *)
LEMMA TimesHead ==
  ASSUME NEW S, NEW s \in Seq(S), NEW x, s # <<>>, Times(x, s) = 0
  PROVE  Head(s) # x /\ Head(s) \in S
  <1>1. 1 \in DOMAIN s /\ Head(s) = s[1] /\ Head(s) \in S
    OBVIOUS
  <1>2. SUFFICES ASSUME Head(s) = x PROVE FALSE
    BY <1>1
  <1>3. Places(x, s) # {}
    BY <1>1, <1>2 DEF Places
  <1>4. QED
    BY <1>3, PlacesFinite, FS_EmptySet

-----------------------------------------------------------------------------
(* The order of the blocks of a cache is a sequence of them whatever is    *)
(* used, filled or evicted.                                                *)

(* mark() keeps a sequence of blocks.                                      *)
LEMMA MarkedType ==
  ASSUME NEW used \in Seq(Blocks), NEW b \in Blocks
  PROVE  Marked(used, b) \in Seq(Blocks)
  <1> DEFINE at == {k \in DOMAIN used : used[k] = b}
             k == CHOOSE p \in at : TRUE
             before == SubSeq(used, 1, k - 1)
             after == SubSeq(used, k + 1, Len(used))
  <1>1. CASE at = {}
    <2>1. Marked(used, b) = Append(used, b)
      BY <1>1 DEF Marked
    <2>2. QED
      BY <2>1
  <1>2. CASE at # {}
    <2>1. k \in at
      BY <1>2
    <2>2. k \in 1 .. Len(used) /\ Len(used) \in Nat
      BY <2>1
    <2>3. Marked(used, b) = Append(before \o after, b)
      BY <1>2 DEF Marked
    <2> HIDE DEF at, k
    <2>4. before \in Seq(Blocks)
      <3>1. \A p \in 1 .. k - 1 : used[p] \in Blocks
        BY <2>2
      <3>2. 1 \in Nat /\ k - 1 \in Nat
        BY <2>2
      <3>3. QED
        BY <2>2, <3>1
    <2>5. after \in Seq(Blocks)
      <3>1. \A p \in k + 1 .. Len(used) : used[p] \in Blocks
        BY <2>2
      <3>2. QED
        BY <2>2, <3>1
    <2> HIDE DEF before, after
    <2>6. before \o after \in Seq(Blocks)
      BY <2>4, <2>5
    <2>7. QED
      BY <2>3, <2>6
  <1>3. QED
    BY <1>1, <1>2

(* fill() keeps a sequence of blocks: only a cache whose lines are all in  *)
(* use evicts, and it has at least one line.                               *)
LEMMA FilledOrderType ==
  ASSUME NEW used \in Seq(Blocks), NEW b \in Blocks, NEW state, NEW ways \in Nat \ {0}
  PROVE  FilledOrder(used, Evicted(state, used, ways, b), b) \in Seq(Blocks)
  <1> DEFINE evicted == Evicted(state, used, ways, b)
             left == IF evicted = {} THEN used ELSE Tail(used)
  <1>1. left \in Seq(Blocks)
    <2>1. evicted = {} \/ Len(used) >= ways
      BY DEF Evicted
    <2>2. CASE evicted = {}
      BY <2>2
    <2>3. CASE Len(used) >= ways /\ evicted # {}
      <3>1. Len(used) >= 1 /\ used # <<>>
        BY <2>3
      <3>2. Tail(used) \in Seq(Blocks)
        BY <3>1
      <3>3. QED
        BY <2>3, <3>2
    <2>4. QED
      BY <2>1, <2>2, <2>3
  <1>2. FilledOrder(used, evicted, b) = Marked(left, b)
    BY DEF FilledOrder
  <1> HIDE DEF left
  <1>3. QED
    BY <1>1, <1>2, MarkedType

(* fill() keeps the states.                                                *)
LEMMA FilledType ==
  ASSUME NEW state \in [Blocks -> MESI], NEW evicted, NEW b \in Blocks, NEW s \in MESI
  PROVE  Filled(state, evicted, b, s) \in [Blocks -> MESI]
  BY DEF Filled, MESI

(* fill() evicts a block of the order.                                     *)
LEMMA EvictedBlock ==
  ASSUME NEW used \in Seq(Blocks), NEW state, NEW b, NEW ways \in Nat \ {0},
         Evicted(state, used, ways, b) # {}
  PROVE  Head(used) \in Blocks
  <1>1. Len(used) >= ways
    BY DEF Evicted
  <1>2. Len(used) >= 1
    BY <1>1
  <1>3. QED
    BY <1>2

-----------------------------------------------------------------------------
(* What the threads still have to put into the MSHR of L2.                 *)

(* Writes with events for the queues Q.                                    *)
OnlyWrites(s, Q) ==
  /\ s \in Seq(Additions)
  /\ \A k \in DOMAIN s : s[k].what = Write /\ s[k].queue \in Q

(* What two calls of propogateWrite() or sendWriteRequest() leave.         *)
LEMMA WriteDownWrites ==
  ASSUME NEW p \in BOOLEAN, NEW q \in BOOLEAN, NEW x, NEW y, NEW c, NEW d, NEW Q, Q \subseteq Caches,
         p => x \in Blocks /\ c \in Q, q => y \in Blocks /\ d \in Q
  PROVE  OnlyWrites(WriteDown(p, x, c) \o WriteDown(q, y, d), Q)
  <1>1. ASSUME NEW r \in BOOLEAN, NEW z, NEW e, r => z \in Blocks /\ e \in Q
        PROVE  OnlyWrites(WriteDown(r, z, e), Q)
    <2>1. CASE r
      <3>1. WriteDown(r, z, e) = <<Add(Write, z, e)>>
        BY <2>1 DEF WriteDown
      <3>2. Add(Write, z, e) \in Additions /\ Add(Write, z, e).what = Write
            /\ Add(Write, z, e).queue \in Q
        BY <1>1, <2>1 DEF Add, Additions
      <3> DEFINE a == Add(Write, z, e)
      <3> HIDE DEF a
      <3>3. <<a>> \in Seq(Additions) /\ DOMAIN <<a>> = {1} /\ <<a>>[1] = a
        BY <3>2 DEF a
      <3>4. QED
        BY <3>1, <3>2, <3>3 DEF OnlyWrites, a
    <2>2. CASE ~r
      BY <2>2 DEF WriteDown, OnlyWrites
    <2>3. QED
      BY <2>1, <2>2
  <1> DEFINE s == WriteDown(p, x, c)
             t == WriteDown(q, y, d)
  <1>2. OnlyWrites(s, Q) /\ OnlyWrites(t, Q)
    BY <1>1
  <1> HIDE DEF s, t
  <1>3. s \in Seq(Additions) /\ t \in Seq(Additions)
    BY <1>2 DEF OnlyWrites
  <1>4. /\ s \o t \in Seq(Additions) /\ Len(s \o t) = Len(s) + Len(t)
        /\ \A k \in 1 .. Len(s) + Len(t) :
             (s \o t)[k] = IF k <= Len(s) THEN s[k] ELSE t[k - Len(s)]
    BY <1>3, ConcatProperties
  <1>5. ASSUME NEW k \in DOMAIN (s \o t)
        PROVE  (s \o t)[k].what = Write /\ (s \o t)[k].queue \in Q
    <2>1. k \in 1 .. Len(s) + Len(t) /\ Len(s) \in Nat /\ Len(t) \in Nat
      BY <1>3, <1>4
    <2>2. CASE k <= Len(s)
      <3>1. k \in DOMAIN s /\ (s \o t)[k] = s[k]
        BY <1>3, <1>4, <2>1, <2>2
      <3>2. QED
        BY <1>2, <3>1 DEF OnlyWrites
    <2>3. CASE ~(k <= Len(s))
      <3>1. k - Len(s) \in DOMAIN t /\ (s \o t)[k] = t[k - Len(s)]
        BY <1>3, <1>4, <2>1, <2>3
      <3>2. QED
        BY <1>2, <3>1 DEF OnlyWrites
    <2>4. QED
      BY <2>2, <2>3
  <1>6. QED
    BY <1>4, <1>5 DEF OnlyWrites, s, t

(* A hit writes down at most itself and what it has satisfied.             *)
LEMMA HandleHitWrites ==
  ASSUME CacheTypes, NEW i \in Ids, HandleHit(i)
  PROVE  \E s : /\ OnlyWrites(s, {program[i].cache})
                /\ todo' = [todo EXCEPT ![program[i].cache] = s]
                /\ todo[program[i].cache] = <<>> /\ program[i].cache \notin finished
  <1> DEFINE c == program[i].cache
             b == program[i].block
             written == \E j \in Entry(c, b) : ~IsRead(j)
             s == WriteDown(~IsRead(i) /\ state1[c][b] # "MODIFIED", b, c)
                    \o WriteDown(written /\ c \notin WriteBack, b, c)
  <1>1. todo' = [todo EXCEPT ![c] = s] /\ todo[c] = <<>> /\ c \notin finished
    BY DEF HandleHit, Idle
  <1>2. c \in Caches /\ b \in Blocks
    BY DEF CacheTypes
  <1>3. OnlyWrites(s, {c})
    <2> DEFINE p == ~IsRead(i) /\ state1[c][b] # "MODIFIED"
               q == written /\ c \notin WriteBack
    <2>1. p \in BOOLEAN /\ q \in BOOLEAN
      OBVIOUS
    <2> HIDE DEF p, q, c, b
    <2>2. OnlyWrites(WriteDown(p, b, c) \o WriteDown(q, b, c), {c})
      BY <1>2, <2>1, WriteDownWrites
    <2>3. QED
      BY <2>2 DEF p, q
  <1>4. QED
    BY <1>1, <1>3

(* A response writes down what it evicts, for the SP whose entry it        *)
(* serves, and what it has satisfied.                                      *)
LEMMA RespondWrites ==
  ASSUME CacheTypes, NEW c \in Caches, NEW b \in Blocks, Respond(c, b)
  PROVE  \E s : /\ OnlyWrites(s, IF Entry(c, b) = {} THEN {thread0} ELSE {c})
                /\ todo' = [todo EXCEPT ![thread0] = s] /\ Idle(thread0)
  <1> DEFINE entry == Entry(c, b)
             written == \E j \in entry : ~IsRead(j)
             evicted == Evicted(state1[c], used1[c], Ways1, b)
             down == {x \in evicted : ~(state1[c][x] = "MODIFIED" /\ c \notin WriteBack)}
             queue == IF entry = {} THEN thread0 ELSE c
             Q == IF entry = {} THEN {thread0} ELSE {c}
             s == WriteDown(down # {}, Head(used1[c]), queue)
                    \o WriteDown(written /\ c \notin WriteBack, b, c)
  <1>1. todo' = [todo EXCEPT ![thread0] = s] /\ Idle(thread0)
    BY DEF Respond, Running
  <1>2. Q \subseteq Caches /\ queue \in Q /\ (written => c \in Q)
    BY CacheAssumption
  <1>3. down # {} => Head(used1[c]) \in Blocks
    <2> SUFFICES ASSUME down # {} PROVE Head(used1[c]) \in Blocks
      OBVIOUS
    <2>1. evicted # {} /\ used1[c] \in Seq(Blocks)
      BY DEF CacheTypes
    <2>2. QED
      BY <2>1, EvictedBlock, CacheAssumption
  <1>4. (down # {}) \in BOOLEAN /\ (written /\ c \notin WriteBack) \in BOOLEAN
    OBVIOUS
  <1> HIDE DEF Q, queue, down, evicted, written
  <1>5. OnlyWrites(s, Q)
    BY <1>2, <1>3, <1>4, WriteDownWrites
  <1>6. QED
    BY <1>1, <1>5 DEF Q

(* Writes leave the reads alone.                                           *)
LEMMA TodoWrites ==
  ASSUME CacheTypes, NEW t \in Caches, NEW s, NEW Q, OnlyWrites(s, Q),
         todo' = [todo EXCEPT ![t] = s]
  PROVE  /\ todo' \in [Caches -> Seq(Additions)] /\ \A u \in Caches : ReadFirst(u)'
         /\ todo'[t] = s /\ \A u \in Caches : u # t => todo'[u] = todo[u]
  <1>1. todo \in [Caches -> Seq(Additions)] /\ \A u \in Caches : ReadFirst(u)
    BY DEF CacheTypes
  <1>2. /\ todo' \in [Caches -> Seq(Additions)]
        /\ todo'[t] = s /\ \A u \in Caches : u # t => todo'[u] = todo[u]
    BY <1>1 DEF OnlyWrites
  <1>3. \A u \in Caches : ReadFirst(u)'
    BY <1>1, <1>2 DEF ReadFirst, OnlyWrites
  <1>4. QED
    BY <1>2, <1>3

(* A miss of L2: its request is all the thread has to put.                 *)
LEMMA TodoMiss ==
  ASSUME CacheTypes, NEW t \in Caches, NEW e \in Caches \cup {Write}, NEW b \in Blocks,
         e # Write => t = thread0, todo' = [todo EXCEPT ![t] = <<Add(e, b, NoQueue)>>]
  PROVE  /\ todo' \in [Caches -> Seq(Additions)] /\ \A u \in Caches : ReadFirst(u)'
         /\ todo'[t] = <<Add(e, b, NoQueue)>> /\ \A u \in Caches : u # t => todo'[u] = todo[u]
  <1> DEFINE a == Add(e, b, NoQueue)
  <1>1. todo \in [Caches -> Seq(Additions)] /\ \A u \in Caches : ReadFirst(u)
    BY DEF CacheTypes
  <1>2. a \in Additions /\ a.what = e /\ a.queue = NoQueue
    BY DEF Add, Additions
  <1> HIDE DEF a
  <1>3. <<a>> \in Seq(Additions) /\ DOMAIN <<a>> = {1} /\ <<a>>[1] = a
    BY <1>2
  <1>4. todo'[t] = <<a>> /\ todo' \in [Caches -> Seq(Additions)]
        /\ \A u \in Caches : u # t => todo'[u] = todo[u]
    BY <1>1, <1>3 DEF a
  <1>5. \A u \in Caches : ReadFirst(u)'
    BY <1>1, <1>2, <1>3, <1>4 DEF ReadFirst
  <1>6. QED
    BY <1>4, <1>5 DEF a

(* The thread has put its first request.                                   *)
LEMMA TodoTail ==
  ASSUME CacheTypes, NEW t \in Caches, todo[t] # <<>>, todo' = [todo EXCEPT ![t] = Tail(@)]
  PROVE  /\ todo' \in [Caches -> Seq(Additions)] /\ \A u \in Caches : ReadFirst(u)'
         /\ \A u \in Caches : u # t => todo'[u] = todo[u]
         /\ 1 \in DOMAIN todo[t] /\ Head(todo[t]) = todo[t][1] /\ Head(todo[t]) \in Additions
         /\ \A k \in DOMAIN todo'[t] : /\ k + 1 \in DOMAIN todo[t] /\ todo'[t][k] = todo[t][k + 1]
                                       /\ todo'[t][k].what = Write
  <1>1. todo \in [Caches -> Seq(Additions)] /\ \A u \in Caches : ReadFirst(u)
    BY DEF CacheTypes
  <1>2. todo[t] \in Seq(Additions)
    BY <1>1
  <1>3. /\ todo'[t] = Tail(todo[t]) /\ Tail(todo[t]) \in Seq(Additions)
        /\ 1 \in DOMAIN todo[t] /\ Head(todo[t]) = todo[t][1] /\ Head(todo[t]) \in Additions
        /\ \A u \in Caches : u # t => todo'[u] = todo[u]
    BY <1>1, <1>2
  <1>4. todo' \in [Caches -> Seq(Additions)]
    BY <1>1, <1>3
  <1>5. \A k \in DOMAIN todo'[t] : /\ k + 1 \in DOMAIN todo[t] /\ todo'[t][k] = todo[t][k + 1]
                                   /\ k \in Nat /\ k >= 1
    <2> DEFINE s == todo[t]
    <2>1. s \in Seq(Additions) /\ s # <<>>
      BY <1>2
    <2> HIDE DEF s
    <2>2. /\ Tail(s) \in Seq(Additions) /\ Len(Tail(s)) = Len(s) - 1 /\ Len(s) \in Nat
          /\ \A k \in 1 .. Len(Tail(s)) : Tail(s)[k] = s[k + 1]
      BY <2>1, HeadTailProperties
    <2>3. \A k \in DOMAIN Tail(s) : k + 1 \in DOMAIN s /\ Tail(s)[k] = s[k + 1] /\ k \in Nat /\ k >= 1
      BY <2>1, <2>2
    <2>4. QED
      BY <1>3, <2>3 DEF s
  <1>6. \A k \in DOMAIN todo'[t] : todo'[t][k].what = Write
    <2>1. ASSUME NEW k \in DOMAIN todo'[t] PROVE todo'[t][k].what = Write
      <3>1. k + 1 \in DOMAIN todo[t] /\ k + 1 # 1 /\ todo'[t][k] = todo[t][k + 1]
        BY <1>5
      <3>2. QED
        BY <1>1, <3>1 DEF ReadFirst
    <2>2. QED
      BY <2>1
  <1>7. \A u \in Caches : ReadFirst(u)'
    BY <1>1, <1>3, <1>6 DEF ReadFirst
  <1>8. QED
    BY <1>3, <1>4, <1>5, <1>6, <1>7

(* The thread has looked for the entry.                                    *)
LEMMA TodoLook ==
  ASSUME CacheTypes, NEW t \in Caches, Look2(t)
  PROVE  /\ todo' \in [Caches -> Seq(Additions)] /\ \A u \in Caches : ReadFirst(u)'
         /\ \A u \in Caches : u # t => todo'[u] = todo[u]
         /\ todo[t] # <<>> /\ todo'[t] # <<>> /\ DOMAIN todo'[t] = DOMAIN todo[t]
         /\ 1 \in DOMAIN todo[t] /\ Head(todo[t]) = todo[t][1] /\ Head(todo'[t]) = todo'[t][1]
         /\ \A k \in DOMAIN todo[t] : /\ todo'[t][k].what = todo[t][k].what
                                      /\ todo'[t][k].block = todo[t][k].block
                                      /\ todo'[t][k].queue = todo[t][k].queue
  <1> DEFINE x == IF mshr2[Head(todo[t]).block] = <<>> THEN "new" ELSE "join"
             old == todo[t]
             first == [old[1] EXCEPT !.step = x]
             new == [old EXCEPT ![1] = first]
  <1>1. todo \in [Caches -> Seq(Additions)] /\ \A u \in Caches : ReadFirst(u)
    BY DEF CacheTypes
  <1>2. todo[t] # <<>> /\ todo' = [todo EXCEPT ![t][1].step = x]
    BY DEF Look2
  <1>3. old \in Seq(Additions) /\ old # <<>> /\ x \in {"new", "join"}
    BY <1>1, <1>2
  <1>4. todo' = [todo EXCEPT ![t] = new]
    BY <1>2
  <1> HIDE DEF x
  <1>5. 1 \in DOMAIN old /\ old[1] \in Additions
    BY <1>3
  <1>6. first \in Additions /\ first.what = old[1].what /\ first.block = old[1].block
        /\ first.queue = old[1].queue
    BY <1>3, <1>5 DEF Additions
  <1> HIDE DEF first
  <1>7. /\ new \in Seq(Additions) /\ DOMAIN new = DOMAIN old /\ new[1] = first
        /\ \A k \in DOMAIN old : k # 1 => new[k] = old[k]
    BY <1>3, <1>5, <1>6
  <1>8. \A k \in DOMAIN old : /\ new[k].what = old[k].what /\ new[k].block = old[k].block
                              /\ new[k].queue = old[k].queue
    BY <1>6, <1>7
  <1>9. new # <<>> /\ Head(new) = new[1] /\ Head(old) = old[1]
    BY <1>3, <1>5, <1>7
  <1> HIDE DEF new
  <1>10. todo'[t] = new /\ todo' \in [Caches -> Seq(Additions)]
         /\ \A u \in Caches : u # t => todo'[u] = todo[u]
    BY <1>1, <1>4, <1>7
  <1>11. ASSUME NEW u \in Caches PROVE ReadFirst(u)'
    <2>1. CASE u # t
      BY <1>1, <1>10, <2>1 DEF ReadFirst
    <2>2. CASE u = t
      BY <1>1, <1>7, <1>8, <1>10, <2>2 DEF ReadFirst
    <2>3. QED
      BY <2>1, <2>2
  <1>12. QED
    BY <1>5, <1>7, <1>8, <1>9, <1>10, <1>11

-----------------------------------------------------------------------------
(* Nothing has happened yet.                                               *)
LEMMA TypesInit == Init => CacheTypes
  <1> SUFFICES ASSUME Init PROVE CacheTypes
    OBVIOUS
  <1>1. program \in [Ids -> [cache : Caches, type : Kinds, block : Blocks]]
    BY CacheAssumption DEF Init
  <1>2. <<>> \in Seq(Caches \cup {Write}) /\ <<>> \in Seq(Additions) /\ <<>> \in Seq(Blocks)
    OBVIOUS
  <1>3. \A t \in Caches : ReadFirst(t)
    BY DEF Init, ReadFirst
  <1>4. QED
    BY <1>1, <1>2, <1>3 DEF Init, CacheTypes, MESI, NoRequest

(* A request of a cache, and its block.                                    *)
LEMMA RequestTypes ==
  ASSUME CacheTypes, NEW i \in Ids
  PROVE  program[i].cache \in Caches /\ program[i].block \in Blocks /\ program[i].type \in Kinds
  BY DEF CacheTypes

(* What L2 and the lines of the caches are made of stays.                  *)
LEMMA TypesStay ==
  ASSUME CacheTypes, UNCHANGED <<program, finished, used1, level2, todo>>
  PROVE  /\ program' \in [Ids -> [cache : Caches, type : Kinds, block : Blocks]]
         /\ finished' \subseteq Caches /\ used1' \in [Caches -> Seq(Blocks)]
         /\ state2' \in [Blocks -> MESI] /\ mshr2' \in [Blocks -> Seq(Caches \cup {Write})]
         /\ writes' \in [Caches \X Blocks -> Nat] /\ memReads' \in [Blocks -> Nat]
         /\ todo' \in [Caches -> Seq(Additions)] /\ \A t \in Caches : ReadFirst(t)'
         /\ stranded' \subseteq Blocks
  BY DEF CacheTypes, level2, lines2, ReadFirst

(* What the SP and its thread do.                                          *)
LEMMA TypesRequestSteps ==
  ASSUME CacheTypes, NEW c \in Caches, NEW i \in Ids,
         Issue(i) \/ Merge(c) \/ HandleMiss(i) \/ AddAgain(c)
  PROVE  CacheTypes'
  <1>0. \A j \in Ids : /\ program[j].cache \in Caches /\ program[j].block \in Blocks
                      /\ <<program[j].cache, program[j].block>> \in Caches \X Blocks
    BY RequestTypes
  <1>1. UNCHANGED <<program, finished, used1, level2, todo>>
    BY DEF Issue, Merge, HandleMiss, AddAgain
  <1>2. /\ held \in [Ids -> Nat] /\ queued \subseteq Ids /\ opened \subseteq Ids
        /\ issued \subseteq Ids /\ dropped \subseteq Ids /\ answers \in [Ids -> Nat]
        /\ adding \in [Caches -> Ids \cup {NoRequest}] /\ again \in [Caches -> Ids \cup {NoRequest}]
        /\ reads \in [Caches \X Blocks -> Nat] /\ waiting \subseteq Caches \X Blocks
        /\ lost \subseteq Caches \X Blocks /\ responses \in [Caches \X Blocks -> Nat]
    BY DEF CacheTypes
  <1> DEFINE Rest ==
        /\ held' \in [Ids -> Nat] /\ queued' \subseteq Ids /\ opened' \subseteq Ids
        /\ issued' \subseteq Ids /\ dropped' \subseteq Ids /\ answers' \in [Ids -> Nat]
        /\ adding' \in [Caches -> Ids \cup {NoRequest}]
        /\ again' \in [Caches -> Ids \cup {NoRequest}]
        /\ reads' \in [Caches \X Blocks -> Nat] /\ waiting' \subseteq Caches \X Blocks
        /\ lost' \subseteq Caches \X Blocks /\ responses' \in [Caches \X Blocks -> Nat]
  <1>3. CASE Issue(i)
    <2>1. UNCHANGED <<again, dropped, answers, link>> /\ issued' = issued \cup {i}
      BY <1>3 DEF Issue
    <2>2. \/ /\ held' = [held EXCEPT ![i] = 1] /\ queued' = queued \cup {i}
             /\ opened' = opened \cup {i} /\ UNCHANGED adding
          \/ adding' = [adding EXCEPT ![program[i].cache] = i] /\ UNCHANGED <<held, queued, opened>>
      BY <1>3 DEF Issue
    <2>3. Rest
      BY <1>0, <1>2, <2>1, <2>2 DEF link
    <2>4. QED
      BY <1>1, <2>3, TypesStay DEF CacheTypes
  <1>4. CASE Merge(c)
    <2>1. UNCHANGED <<issued, again, opened, queued, answers, link>>
          /\ adding' = [adding EXCEPT ![c] = NoRequest] /\ adding[c] \in Ids
      BY <1>4 DEF Merge, CacheTypes
    <2>2. \/ dropped' = dropped \cup {adding[c]} /\ UNCHANGED held
          \/ held' = [held EXCEPT ![adding[c]] = @ + 1] /\ UNCHANGED dropped
      BY <1>4 DEF Merge
    <2>3. Rest
      BY <1>2, <2>1, <2>2 DEF link
    <2>4. QED
      BY <1>1, <2>3, TypesStay DEF CacheTypes
  <1>5. CASE HandleMiss(i)
    <2> DEFINE cb == <<program[i].cache, program[i].block>>
    <2>1. /\ UNCHANGED <<issued, adding, opened, dropped, held, answers, responses, lost>>
          /\ again' = [again EXCEPT ![program[i].cache] = i] /\ queued' = queued \ {i}
          /\ SendRead(program[i].cache, program[i].block)
      BY <1>5 DEF HandleMiss
    <2>2. \/ waiting' = waiting \cup {cb} /\ UNCHANGED reads
          \/ reads' = [reads EXCEPT ![cb] = @ + 1] /\ UNCHANGED waiting
      BY <2>1 DEF SendRead
    <2>3. cb \in Caches \X Blocks
      BY <1>0
    <2> HIDE DEF cb
    <2>4. reads' \in [Caches \X Blocks -> Nat] /\ waiting' \subseteq Caches \X Blocks
      BY <1>2, <2>2, <2>3
    <2>5. Rest
      BY <1>0, <1>2, <2>1, <2>4
    <2>6. QED
      BY <1>1, <2>5, TypesStay DEF CacheTypes
  <1>6. CASE AddAgain(c)
    <2>1. /\ UNCHANGED <<issued, opened, dropped, queued, answers, reads, waiting, responses>>
          /\ again' = [again EXCEPT ![c] = NoRequest] /\ again[c] \in Ids
      BY <1>6 DEF AddAgain, CacheTypes
    <2>2. \/ /\ held' = [held EXCEPT ![again[c]] = @ + 1] /\ UNCHANGED adding
             /\ lost' = lost \cup {<<c, program[again[c]].block>>}
          \/ adding' = [adding EXCEPT ![c] = again[c]] /\ UNCHANGED <<held, lost>>
      BY <1>6 DEF AddAgain
    <2>3. <<c, program[again[c]].block>> \in Caches \X Blocks
      BY <1>0, <2>1
    <2> DEFINE cb == <<c, program[again[c]].block>>
    <2> HIDE DEF cb
    <2>4. /\ held' \in [Ids -> Nat] /\ lost' \subseteq Caches \X Blocks
          /\ adding' \in [Caches -> Ids \cup {NoRequest}]
      <3>1. \/ /\ held' = [held EXCEPT ![again[c]] = @ + 1] /\ UNCHANGED adding
               /\ lost' = lost \cup {cb}
            \/ adding' = [adding EXCEPT ![c] = again[c]] /\ UNCHANGED <<held, lost>>
        BY <2>2 DEF cb
      <3>2. cb \in Caches \X Blocks
        BY <2>3 DEF cb
      <3>3. QED
        BY <1>2, <2>1, <3>1, <3>2
    <2>5. again' \in [Caches -> Ids \cup {NoRequest}]
      BY <1>2, <2>1
    <2>6. Rest
      BY <1>2, <2>1, <2>4, <2>5
    <2>7. QED
      BY <1>1, <2>6, TypesStay DEF CacheTypes
  <1>7. QED
    BY <1>3, <1>4, <1>5, <1>6

(* The copies and the answers after an entry is removed.                   *)
LEMMA RemovedTypes ==
  ASSUME CacheTypes, NEW entry
  PROVE  Given(entry) \in [Ids -> Nat] /\ Removed(entry) \in [Ids -> Nat]
  <1>1. held \in [Ids -> Nat] /\ answers \in [Ids -> Nat]
    BY DEF CacheTypes
  <1>2. QED
    BY <1>1 DEF Given, Removed

(* A hit serves the entry.                                                 *)
LEMMA TypesHit == ASSUME CacheTypes, NEW i \in Ids, HandleHit(i) PROVE CacheTypes'
  <1> DEFINE c == program[i].cache
             b == program[i].block
             entry == Entry(c, b)
  <1>1. /\ UNCHANGED <<sp, level2, link>> /\ queued' = queued \ {i}
        /\ held' = Removed(entry)
        /\ answers' = IF IsRead(i) THEN [Given(entry) EXCEPT ![i] = @ + 1] ELSE Given(entry)
        /\ used1' = [used1 EXCEPT ![c] = Marked(@, b)]
    BY DEF HandleHit
  <1>2. c \in Caches /\ b \in Blocks
    BY RequestTypes
  <1>3. answers' \in [Ids -> Nat] /\ held' \in [Ids -> Nat]
    <2>1. Given(entry) \in [Ids -> Nat] /\ Removed(entry) \in [Ids -> Nat]
      BY RemovedTypes
    <2> HIDE DEF entry
    <2>2. QED
      BY <1>1, <2>1
  <1>4. used1' \in [Caches -> Seq(Blocks)]
    <2>1. used1 \in [Caches -> Seq(Blocks)]
      BY DEF CacheTypes
    <2>2. Marked(used1[c], b) \in Seq(Blocks)
      BY <1>2, <2>1, MarkedType
    <2> HIDE DEF c, b
    <2>3. QED
      BY <1>1, <1>2, <2>1, <2>2
  <1>5. todo' \in [Caches -> Seq(Additions)] /\ \A t \in Caches : ReadFirst(t)'
    <2>1. PICK s : OnlyWrites(s, {c}) /\ todo' = [todo EXCEPT ![c] = s]
      BY HandleHitWrites
    <2>2. QED
      BY <1>2, <2>1, TodoWrites
  <1>6. QED
    BY <1>1, <1>3, <1>4, <1>5 DEF CacheTypes, level2, lines2, sp, link

(* A response serves the entry.                                            *)
LEMMA TypesRespond ==
  ASSUME CacheTypes, NEW c \in Caches, NEW b \in Blocks, Respond(c, b) PROVE CacheTypes'
  <1>1. /\ UNCHANGED <<sp, queued, level2, reads, waiting, lost>>
        /\ responses[<<c, b>>] > 0
        /\ responses' = [responses EXCEPT ![<<c, b>>] = @ - 1]
        /\ held' = Removed(Entry(c, b)) /\ answers' = Given(Entry(c, b))
    BY DEF Respond
  <1>2. answers' \in [Ids -> Nat] /\ held' \in [Ids -> Nat]
    BY <1>1, RemovedTypes
  <1>3. responses' \in [Caches \X Blocks -> Nat]
    BY <1>1 DEF CacheTypes
  <1>4. used1' \in [Caches -> Seq(Blocks)]
    <2> DEFINE order == FilledOrder(used1[c], Evicted(state1[c], used1[c], Ways1, b), b)
    <2>1. used1' = [used1 EXCEPT ![c] = order]
      BY DEF Respond
    <2>2. used1 \in [Caches -> Seq(Blocks)]
      BY DEF CacheTypes
    <2>3. order \in Seq(Blocks)
      BY <2>2, FilledOrderType, CacheAssumption
    <2> HIDE DEF order
    <2>4. QED
      BY <2>1, <2>2, <2>3
  <1>5. todo' \in [Caches -> Seq(Additions)] /\ \A t \in Caches : ReadFirst(t)'
    <2>1. PICK s : /\ OnlyWrites(s, IF Entry(c, b) = {} THEN {thread0} ELSE {c})
                   /\ todo' = [todo EXCEPT ![thread0] = s]
      BY RespondWrites
    <2>2. QED
      BY <2>1, TodoWrites, CacheAssumption
  <1>6. QED
    BY <1>1, <1>2, <1>3, <1>4, <1>5 DEF CacheTypes, level2, lines2, sp

(* The MSHRs are emptied.                                                  *)
LEMMA TypesClear == ASSUME CacheTypes, NEW c \in Caches, Clear(c) PROVE CacheTypes'
  <1>1. <<>> \in Seq(Caches \cup {Write})
    OBVIOUS
  <1>2. /\ UNCHANGED <<program, issued, adding, again, opened, dropped, queued, answers, used1,
                       lines2, writes, memReads, todo, reads, waiting, responses>>
        /\ finished' = finished \cup {c}
        /\ held' = [i \in Ids |-> IF program[i].cache = c THEN 0 ELSE held[i]]
        /\ mshr2' = [b \in Blocks |-> <<>>]
        /\ lost' = lost \cup {cb \in Caches \X Blocks : Times(cb[1], mshr2[cb[2]]) > 0}
        /\ \E B \in SUBSET Blocks : stranded' = stranded \cup B
    BY DEF Clear
  <1>3. held' \in [Ids -> Nat] /\ lost' \subseteq Caches \X Blocks /\ stranded' \subseteq Blocks
    BY <1>2 DEF CacheTypes
  <1>4. \A t \in Caches : ReadFirst(t)'
    BY <1>2 DEF CacheTypes, ReadFirst
  <1>5. QED
    BY <1>1, <1>2, <1>3, <1>4 DEF CacheTypes, lines2

(* Responses for a list of requests of a block.                            *)
LEMMA AnsweredTypes ==
  ASSUME CacheTypes, NEW list \in Seq(Caches \cup {Write}), NEW b \in Blocks, Answered(list, b)
  PROVE  /\ responses' \in [Caches \X Blocks -> Nat]
         /\ \A c \in Caches, x \in Blocks :
              responses'[<<c, x>>] = responses[<<c, x>>] + (IF x = b THEN Times(c, list) ELSE 0)
  <1>1. \A c \in Caches : Times(c, list) \in Nat
    <2> DEFINE T == Caches \cup {Write}
    <2> HIDE DEF T
    <2>1. list \in Seq(T)
      BY DEF T
    <2>2. QED
      BY <2>1, PlacesFinite
  <1>2. responses' = [cb \in Caches \X Blocks |->
                        responses[cb] + (IF cb[2] = b THEN Times(cb[1], list) ELSE 0)]
    BY DEF Answered
  <1>3. \A cb \in Caches \X Blocks : responses[cb] \in Nat /\ cb[1] \in Caches
    BY DEF CacheTypes
  <1>4. QED
    BY <1>1, <1>2, <1>3

(* The two ways L2 handles an event, with what they leave in the MSHR.     *)
LEMMA LowerHandlers ==
  ASSUME CacheTypes, NEW t \in Caches, NEW e \in Caches \cup {Write}, NEW b \in Blocks
  PROVE  /\ Miss2(t, e, b) => /\ memReads' = [memReads EXCEPT ![b] = @ + 1]
                              /\ todo' = [todo EXCEPT ![t] = <<Add(e, b, NoQueue)>>]
                              /\ UNCHANGED <<lines2, mshr2, responses, lost>>
                              /\ state2[b] = "INVALID"
         /\ Available(e, b) => /\ \E list \in Seq(Caches \cup {Write}) : Answered(list, b)
                               /\ mshr2' = [mshr2 EXCEPT ![b] = <<>>]
                               /\ e \notin Caches => UNCHANGED lost
                               /\ lost' \subseteq lost \cup {<<e, b>>}
                               /\ UNCHANGED memReads /\ state2[b] # "INVALID"
  <1>1. mshr2[b] \in Seq(Caches \cup {Write})
    BY DEF CacheTypes
  <1>2. ASSUME Available(e, b)
        PROVE  \E list \in Seq(Caches \cup {Write}) : Answered(list, b)
    <2> DEFINE T == Caches \cup {Write}
               became == IF mshr2[b] = <<>> THEN e ELSE Head(mshr2[b])
    <2>1. became \in T
      BY <1>1
    <2>2. Append(mshr2[b], became) \in Seq(T)
      <3> HIDE DEF T, became
      <3>1. mshr2[b] \in Seq(T)
        BY <1>1 DEF T
      <3>2. QED
        BY <2>1, <3>1
    <2>3. Answered(Append(mshr2[b], became), b)
      BY <1>2 DEF Available
    <2>4. QED
      BY <2>2, <2>3
  <1>3. e \notin Caches => e = Write
    OBVIOUS
  <1>4. ASSUME Available(e, b)
        PROVE  /\ mshr2' = [mshr2 EXCEPT ![b] = <<>>]
               /\ e \notin Caches => UNCHANGED lost
               /\ lost' \subseteq lost \cup {<<e, b>>}
               /\ UNCHANGED memReads /\ state2[b] # "INVALID"
    <2>1. mshr2' = [mshr2 EXCEPT ![b] = <<>>]
      BY <1>4 DEF Available, Removed2
    <2>2. /\ lost' = lost \cup {<<e, b>>} \/ lost' = lost
          /\ e = Write => lost' = lost
      BY <1>4 DEF Available
    <2>3. UNCHANGED memReads /\ state2[b] # "INVALID"
      BY <1>4 DEF Available
    <2>4. QED
      BY <1>3, <2>1, <2>2, <2>3
  <1>5. Miss2(t, e, b) => /\ memReads' = [memReads EXCEPT ![b] = @ + 1]
                          /\ todo' = [todo EXCEPT ![t] = <<Add(e, b, NoQueue)>>]
                          /\ UNCHANGED <<lines2, mshr2, responses, lost>>
                          /\ state2[b] = "INVALID"
    BY DEF Miss2
  <1>6. QED
    BY <1>2, <1>4, <1>5

(* Events of L2 that are handled by a thread: the read of t, or a write.   *)
LEMMA TypesHandled ==
  ASSUME CacheTypes, NEW t \in Caches, NEW e \in Caches \cup {Write}, NEW b \in Blocks,
         e # Write => t = thread0,
         (Available(e, b) /\ UNCHANGED todo) \/ Miss2(t, e, b)
  PROVE  /\ mshr2' \in [Blocks -> Seq(Caches \cup {Write})] /\ memReads' \in [Blocks -> Nat]
         /\ responses' \in [Caches \X Blocks -> Nat] /\ lost' \subseteq lost \cup {<<e, b>>}
         /\ (e = Write => UNCHANGED lost)
         /\ todo' \in [Caches -> Seq(Additions)] /\ \A u \in Caches : ReadFirst(u)'
  <1> DEFINE T == Caches \cup {Write}
  <1>1. /\ mshr2 \in [Blocks -> Seq(T)] /\ memReads \in [Blocks -> Nat]
        /\ responses \in [Caches \X Blocks -> Nat] /\ <<>> \in Seq(T)
        /\ todo \in [Caches -> Seq(Additions)] /\ \A u \in Caches : ReadFirst(u)
    BY DEF CacheTypes
  <1>2. CASE Miss2(t, e, b)
    <2>1. /\ memReads' = [memReads EXCEPT ![b] = @ + 1] /\ UNCHANGED <<mshr2, responses, lost>>
          /\ todo' = [todo EXCEPT ![t] = <<Add(e, b, NoQueue)>>]
      BY <1>2, LowerHandlers
    <2>2. todo' \in [Caches -> Seq(Additions)] /\ \A u \in Caches : ReadFirst(u)'
      BY <2>1, TodoMiss
    <2>3. QED
      BY <1>1, <2>1, <2>2
  <1>3. CASE Available(e, b) /\ UNCHANGED todo
    <2>1. /\ \E list \in Seq(T) : Answered(list, b)
          /\ mshr2' = [mshr2 EXCEPT ![b] = <<>>]
          /\ e \notin Caches => UNCHANGED lost
          /\ lost' \subseteq lost \cup {<<e, b>>} /\ UNCHANGED memReads
      BY <1>3, LowerHandlers
    <2>2. responses' \in [Caches \X Blocks -> Nat]
      BY <2>1, AnsweredTypes
    <2>3. \A u \in Caches : ReadFirst(u)'
      BY <1>1, <1>3 DEF ReadFirst
    <2>4. Write \notin Caches
      BY CacheAssumption
    <2> HIDE DEF T
    <2>5. mshr2' \in [Blocks -> Seq(T)]
      BY <1>1, <2>1
    <2>6. QED
      BY <1>1, <1>3, <2>1, <2>2, <2>3, <2>4, <2>5 DEF T
  <1>4. QED
    BY <1>2, <1>3

(* The handlers of L2.                                                     *)
LEMMA TypesLowerSteps ==
  ASSUME CacheTypes, NEW c \in Caches, NEW b \in Blocks,
         HandleRead2(c, b) \/ HandleWrite2(c, b) \/ Respond2(b)
  PROVE  CacheTypes'
  <1> DEFINE T == Caches \cup {Write}
  <1>0. /\ mshr2 \in [Blocks -> Seq(T)] /\ state2 \in [Blocks -> MESI]
        /\ reads \in [Caches \X Blocks -> Nat] /\ responses \in [Caches \X Blocks -> Nat]
        /\ writes \in [Caches \X Blocks -> Nat] /\ memReads \in [Blocks -> Nat]
        /\ lost \subseteq Caches \X Blocks /\ <<c, b>> \in Caches \X Blocks
        /\ stranded \subseteq Blocks
        /\ c \in T /\ Write \in T /\ <<>> \in Seq(T) /\ thread0 \in Caches
    BY CacheAssumption, SMTT(30) DEF CacheTypes
  <1>1. CASE HandleRead2(c, b)
    <2>1. /\ reads[<<c, b>>] > 0 /\ reads' = [reads EXCEPT ![<<c, b>>] = @ - 1]
          /\ Miss2(thread0, c, b) \/ (Available(c, b) /\ UNCHANGED <<state2, todo>>)
          /\ UNCHANGED <<sp, level1, writes, stranded, waiting>>
      BY <1>1 DEF HandleRead2
    <2>2. /\ mshr2' \in [Blocks -> Seq(T)] /\ memReads' \in [Blocks -> Nat]
          /\ responses' \in [Caches \X Blocks -> Nat] /\ lost' \subseteq lost \cup {<<c, b>>}
          /\ todo' \in [Caches -> Seq(Additions)] /\ \A u \in Caches : ReadFirst(u)'
      BY <1>0, <2>1, TypesHandled
    <2>3. state2' = state2
      BY <2>1 DEF Miss2, lines2
    <2>4. reads' \in [Caches \X Blocks -> Nat]
      BY <1>0, <2>1
    <2>5. lost' \subseteq Caches \X Blocks
      BY <1>0, <2>2
    <2>6. QED
      BY <1>0, <2>1, <2>2, <2>3, <2>4, <2>5 DEF CacheTypes, sp, level1
  <1>2. CASE HandleWrite2(c, b)
    <2>1. /\ writes[<<c, b>>] > 0 /\ writes' = [writes EXCEPT ![<<c, b>>] = @ - 1]
          /\ \/ Miss2(c, Write, b)
             \/ /\ Available(Write, b) /\ state2' = [state2 EXCEPT ![b] = "MODIFIED"]
                /\ UNCHANGED todo
          /\ UNCHANGED <<sp, level1, stranded, reads, waiting>>
      BY <1>2 DEF HandleWrite2
    <2>2. /\ mshr2' \in [Blocks -> Seq(T)] /\ memReads' \in [Blocks -> Nat]
          /\ responses' \in [Caches \X Blocks -> Nat] /\ lost' = lost
          /\ todo' \in [Caches -> Seq(Additions)] /\ \A u \in Caches : ReadFirst(u)'
      BY <1>0, <2>1, TypesHandled
    <2>3. state2' \in [Blocks -> MESI]
      <3>1. "MODIFIED" \in MESI
        BY DEF MESI
      <3>2. state2' = state2 \/ state2' = [state2 EXCEPT ![b] = "MODIFIED"]
        BY <2>1 DEF Miss2, lines2
      <3>3. QED
        BY <1>0, <3>1, <3>2
    <2>4. writes' \in [Caches \X Blocks -> Nat]
      BY <1>0, <2>1
    <2>5. QED
      BY <1>0, <2>1, <2>2, <2>3, <2>4 DEF CacheTypes, sp, level1
  <1>3. CASE Respond2(b)
    <2> DEFINE readsAgain == mshr2[b] # <<>> /\ Head(mshr2[b]) # Write
                             /\ \E x \in Evicted(state2, used2, Ways2, b) : state2[x] = "EXCLUSIVE"
    <2>1. /\ memReads[b] > 0 /\ memReads' = [memReads EXCEPT ![b] = @ - 1 + One(readsAgain)]
          /\ mshr2' = Removed2(b)
          /\ state2' = Filled(state2, Evicted(state2, used2, Ways2, b), b, "EXCLUSIVE")
          /\ Answered(mshr2[b], b)
          /\ stranded' = stranded \/ stranded' = stranded \cup {b}
          /\ UNCHANGED <<sp, level1, writes, todo, reads, waiting, lost>>
      BY <1>3 DEF Respond2
    <2>2. mshr2' \in [Blocks -> Seq(T)]
      BY <1>0, <2>1 DEF Removed2
    <2>3. responses' \in [Caches \X Blocks -> Nat]
      BY <1>0, <2>1, AnsweredTypes
    <2>4. state2' \in [Blocks -> MESI]
      BY <1>0, <2>1 DEF Filled, MESI
    <2>5. memReads' \in [Blocks -> Nat]
      <3>1. One(readsAgain) \in Nat
        BY DEF One
      <3> HIDE DEF readsAgain
      <3>2. QED
        BY <1>0, <2>1, <3>1
    <2>6. \A u \in Caches : ReadFirst(u)'
      BY <2>1 DEF CacheTypes, ReadFirst
    <2>7. stranded' \subseteq Blocks
      BY <1>0, <2>1
    <2>8. QED
      BY <1>0, <2>1, <2>2, <2>3, <2>4, <2>5, <2>6, <2>7 DEF CacheTypes, sp, level1
  <1>4. QED
    BY <1>1, <1>2, <1>3

(* What a thread puts into the MSHR of L2.                                 *)
LEMMA TypesAdd2 ==
  ASSUME CacheTypes, NEW t \in Caches, Look2(t) \/ Put2(t) \/ Join2(t) PROVE CacheTypes'
  <1> DEFINE a == Head(todo[t])
             T == Caches \cup {Write}
  <1>1. CASE Look2(t)
    <2>1. UNCHANGED <<sp, level1, level2, link>>
      BY <1>1 DEF Look2
    <2>2. todo' \in [Caches -> Seq(Additions)] /\ \A u \in Caches : ReadFirst(u)'
      BY <1>1, TodoLook
    <2>3. QED
      BY <2>1, <2>2 DEF CacheTypes, sp, level1, level2, lines2, link
  <1>2. CASE Put2(t) \/ Join2(t)
    <2>1. /\ todo[t] # <<>> /\ todo' = [todo EXCEPT ![t] = Tail(@)]
          /\ UNCHANGED <<sp, level1, lines2, memReads, stranded, reads, waiting, responses>>
      BY <1>2 DEF Put2, Join2
    <2>2. /\ todo' \in [Caches -> Seq(Additions)] /\ \A u \in Caches : ReadFirst(u)'
          /\ a \in Additions
      BY <2>1, TodoTail
    <2>3. a.what \in T /\ a.block \in Blocks /\ (a.queue # NoQueue => <<a.queue, a.block>> \in Caches \X Blocks)
      BY <2>2 DEF Additions
    <2>4. /\ mshr2 \in [Blocks -> Seq(T)] /\ writes \in [Caches \X Blocks -> Nat]
          /\ lost \subseteq Caches \X Blocks
      BY DEF CacheTypes
    <2>5. /\ writes' = writes \/ (a.queue # NoQueue /\ writes' = [writes EXCEPT ![<<a.queue, a.block>>] = @ + 1])
          /\ \/ mshr2' = mshr2 \/ mshr2' = [mshr2 EXCEPT ![a.block] = <<a.what>>]
             \/ mshr2' = [mshr2 EXCEPT ![a.block] = Append(@, a.what)]
      BY <1>2 DEF Put2, Join2
    <2>6. lost' \subseteq Caches \X Blocks
      BY <1>2, <2>3, <2>4 DEF Put2, Join2
    <2> HIDE DEF a, T
    <2>7. <<a.what>> \in Seq(T) /\ Append(mshr2[a.block], a.what) \in Seq(T)
      BY <2>3, <2>4
    <2>8. mshr2' \in [Blocks -> Seq(T)]
      BY <2>4, <2>5, <2>7
    <2>9. writes' \in [Caches \X Blocks -> Nat]
      <3> DEFINE cb == <<a.queue, a.block>>
      <3>1. \/ writes' = writes
            \/ cb \in Caches \X Blocks /\ writes' = [writes EXCEPT ![cb] = @ + 1]
        BY <2>3, <2>5
      <3> HIDE DEF cb
      <3>2. QED
        BY <2>4, <3>1
    <2>10. QED
      BY <2>1, <2>2, <2>6, <2>8, <2>9 DEF CacheTypes, sp, level1, lines2, T
  <1>3. QED
    BY <1>1, <1>2

(* Every step.                                                             *)
LEMMA TypesStep == CacheTypes /\ [Next]_vars => CacheTypes'
  <1> SUFFICES ASSUME CacheTypes, [Next]_vars PROVE CacheTypes'
    OBVIOUS
  <1>1. ASSUME NEW c \in Caches, Merge(c) \/ AddAgain(c) PROVE CacheTypes'
    <2>1. adding[c] \in Ids \/ again[c] \in Ids
      BY <1>1 DEF Merge, AddAgain, CacheTypes
    <2>2. QED
      BY <1>1, <2>1, TypesRequestSteps
  <1>2. ASSUME NEW i \in Ids, Issue(i) \/ HandleMiss(i) PROVE CacheTypes'
    <2>1. program[i].cache \in Caches
      BY RequestTypes
    <2>2. QED
      BY <1>2, <2>1, TypesRequestSteps
  <1>3. ASSUME NEW i \in Ids, HandleHit(i) PROVE CacheTypes'
    BY <1>3, TypesHit
  <1>4. ASSUME NEW c \in Caches, NEW b \in Blocks, Respond(c, b) PROVE CacheTypes'
    BY <1>4, TypesRespond
  <1>5. ASSUME NEW c \in Caches, NEW b \in Blocks, HandleRead2(c, b) \/ HandleWrite2(c, b)
        PROVE  CacheTypes'
    BY <1>5, TypesLowerSteps
  <1>6. ASSUME NEW b \in Blocks, Respond2(b) PROVE CacheTypes'
    BY <1>6, CacheAssumption, TypesLowerSteps
  <1>7. CASE UNCHANGED vars
    BY <1>7 DEF vars, sp, level1, level2, lines2, link, CacheTypes, ReadFirst
  <1>8. QED
    BY <1>1, <1>2, <1>3, <1>4, <1>5, <1>6, <1>7, TypesClear, TypesAdd2 DEF Next

-----------------------------------------------------------------------------
(* The account of a request.  What RequestsAccounted says of reads is not  *)
(* inductive without: a request that was not made has nothing, one that is *)
(* being merged has nothing yet, one that still comes was not dropped, and *)
(* the requests of an SP that has handed over are in no MSHR.              *)
Pending(i) ==
  \/ i \in queued \/ again[program[i].cache] = i
  \/ i \in opened /\ adding[program[i].cache] = i
Comes(i) == One(Pending(i))
Gone(i) == One(i \in dropped)
Due(i) == IF i \in opened THEN 2 ELSE One(adding[program[i].cache] # i)

AccountOf(i) ==
  /\ i \notin issued => held[i] = 0 /\ answers[i] = 0 /\ i \notin queued /\ i \notin opened
                        /\ i \notin dropped
  /\ i \in queued => i \in opened
  /\ i \in dropped => ~Pending(i)
  /\ program[i].cache \in finished => held[i] = 0
  /\ i \notin opened /\ adding[program[i].cache] = i
       => held[i] = 0 /\ answers[i] = 0 /\ i \notin dropped
  /\ program[i].cache \notin finished
       => held[i] + Comes(i) + Gone(i) <= IF i \in opened THEN 2 ELSE 1
  /\ program[i].cache \notin finished /\ IsRead(i) /\ i \in issued
       => answers[i] + held[i] + Comes(i) + Gone(i) = Due(i)

AddingOf(c) ==
  adding[c] # NoRequest =>
    /\ adding[c] \in issued /\ adding[c] \notin queued
    /\ program[adding[c]].cache = c /\ c \notin finished /\ again[c] = NoRequest

AgainOf(c) ==
  again[c] # NoRequest =>
    /\ again[c] \in opened /\ again[c] \in issued /\ again[c] \notin queued
    /\ program[again[c]].cache = c /\ c \notin finished

AccountInv ==
  /\ \A i \in Ids : AccountOf(i)
  /\ \A c \in Caches : AddingOf(c) /\ AgainOf(c)

(* The account is what the property says.                                  *)
LEMMA AccountImplies == AccountInv /\ CacheTypes => RequestsAccounted
  <1> SUFFICES ASSUME AccountInv, CacheTypes, NEW i \in issued,
                      program[i].cache \notin finished, IsRead(i)
               PROVE  answers[i] + Owed(i) + One(i \in dropped) = Due(i)
    BY DEF RequestsAccounted, Due
  <1>1. i \in Ids /\ held[i] \in Nat /\ answers[i] \in Nat
    BY DEF CacheTypes
  <1>2. answers[i] + held[i] + Comes(i) + Gone(i) = Due(i)
    BY <1>1 DEF AccountInv, AccountOf
  <1>3. Owed(i) = held[i] + Comes(i) /\ Comes(i) \in Nat /\ Gone(i) = One(i \in dropped)
        /\ Gone(i) \in Nat
    BY DEF Owed, Comes, Pending, Gone, One
  <1>4. QED
    BY <1>1, <1>2, <1>3

(* Nothing is owed at the start.                                           *)
LEMMA AccountInit == Init => AccountInv
  <1> SUFFICES ASSUME Init PROVE AccountInv
    OBVIOUS
  <1>1. \A c \in Caches : AddingOf(c) /\ AgainOf(c)
    BY DEF Init, AddingOf, AgainOf
  <1>2. ASSUME NEW i \in Ids PROVE AccountOf(i)
    <2>1. held[i] = 0 /\ answers[i] = 0 /\ i \notin queued /\ i \notin opened /\ i \notin dropped
          /\ i \notin issued /\ finished = {} /\ program[i].cache \in Caches /\ i # NoRequest
      BY CacheAssumption DEF Init, Ids, NoRequest
    <2>2. ~Pending(i)
      BY <2>1 DEF Pending, Init
    <2>3. QED
      BY <2>1, <2>2 DEF AccountOf, Comes, Gone, One
  <1>3. QED
    BY <1>1, <1>2 DEF AccountInv

(* A step that leaves a request alone, except that it may serve it.        *)
Aside(j) ==
  /\ program' = program
  /\ j \in issued' <=> j \in issued
  /\ j \in queued' <=> j \in queued
  /\ j \in opened' <=> j \in opened
  /\ j \in dropped' <=> j \in dropped
  /\ adding'[program[j].cache] = j <=> adding[program[j].cache] = j
  /\ again'[program[j].cache] = j <=> again[program[j].cache] = j

Kept(j) ==
  /\ held'[j] = held[j] /\ answers'[j] = answers[j]
  /\ program[j].cache \in finished' <=> program[j].cache \in finished

Served(j) ==
  /\ held'[j] = 0 /\ answers'[j] = answers[j] + (IF IsRead(j) THEN held[j] ELSE 0)
  /\ finished' = finished /\ held[j] > 0

Cleared(j) ==
  /\ held'[j] = 0 /\ answers'[j] = answers[j]
  /\ program[j].cache \in finished'

(* It keeps the account of that request.                                   *)
LEMMA AccountAside ==
  ASSUME CacheTypes, NEW j \in Ids, AccountOf(j), Aside(j), Kept(j) \/ Served(j) \/ Cleared(j)
  PROVE  AccountOf(j)'
  <1>1. /\ program' = program /\ held[j] \in Nat /\ answers[j] \in Nat
        /\ j \in issued' <=> j \in issued
        /\ j \in queued' <=> j \in queued
        /\ j \in opened' <=> j \in opened
        /\ j \in dropped' <=> j \in dropped
        /\ adding'[program[j].cache] = j <=> adding[program[j].cache] = j
        /\ again'[program[j].cache] = j <=> again[program[j].cache] = j
    BY DEF Aside, CacheTypes
  <1>2. /\ Comes(j)' = Comes(j) /\ Gone(j)' = Gone(j) /\ Due(j)' = Due(j)
        /\ Pending(j)' <=> Pending(j)
    BY <1>1 DEF Comes, Gone, Due, Pending, One
  <1>3. Comes(j) \in Nat /\ Gone(j) \in Nat /\ Due(j) \in Nat
    BY DEF Comes, Gone, Due, One
  <1>4. IsRead(j)' <=> IsRead(j)
    BY <1>1 DEF IsRead
  <1>5. CASE Kept(j)
    BY <1>1, <1>2, <1>4, <1>5 DEF AccountOf, Kept
  <1>6. CASE Served(j)
    <2>1. /\ held'[j] = 0 /\ finished' = finished /\ held[j] > 0
          /\ answers'[j] = answers[j] + (IF IsRead(j) THEN held[j] ELSE 0)
      BY <1>6 DEF Served
    <2>2. IsRead(j) => answers'[j] + held'[j] = answers[j] + held[j]
      BY <1>1, <2>1
    <2>3. held'[j] + Comes(j) + Gone(j) <= held[j] + Comes(j) + Gone(j)
      BY <1>1, <1>3, <2>1
    <2>4. QED
      BY <1>1, <1>2, <1>3, <1>4, <2>1, <2>2, <2>3 DEF AccountOf
  <1>7. CASE Cleared(j)
    BY <1>1, <1>2, <1>4, <1>7 DEF AccountOf, Cleared
  <1>8. QED
    BY <1>5, <1>6, <1>7

(* What the account says of one request.                                   *)
LEMMA AccountParts ==
  ASSUME CacheTypes, AccountInv
  PROVE  /\ \A j \in Ids : AccountOf(j) /\ j # NoRequest /\ program[j].cache \in Caches
                           /\ held[j] \in Nat /\ answers[j] \in Nat
         /\ \A d \in Caches : /\ AddingOf(d) /\ (adding[d] # NoRequest => adding[d] \in Ids)
                              /\ AgainOf(d) /\ (again[d] # NoRequest => again[d] \in Ids)
  <1>1. \A j \in Ids : j # NoRequest
    BY CacheAssumption DEF NoRequest, Ids
  <1>2. \A j \in Ids : held[j] \in Nat /\ answers[j] \in Nat
    BY DEF CacheTypes
  <1>3. \A d \in Caches : /\ adding[d] # NoRequest => adding[d] \in Ids
                          /\ again[d] # NoRequest => again[d] \in Ids
    BY DEF CacheTypes
  <1>4. QED
    BY <1>1, <1>2, <1>3, RequestTypes DEF AccountInv

(* A step of an SP touches one request.                                    *)
LEMMA OthersAside ==
  ASSUME CacheTypes, AccountInv, NEW i \in Ids, NEW c \in Caches,
         \/ Issue(i) \/ HandleMiss(i)
         \/ i = adding[c] /\ Merge(c)
         \/ i = again[c] /\ AddAgain(c),
         NEW j \in Ids, j # i
  PROVE  Aside(j) /\ Kept(j)
  <1>0. /\ held \in [Ids -> Nat] /\ adding \in [Caches -> Ids \cup {NoRequest}]
        /\ again \in [Caches -> Ids \cup {NoRequest}]
        /\ \A k \in Ids : k # NoRequest /\ program[k].cache \in Caches
    BY AccountParts DEF CacheTypes
  <1> DEFINE e == program[j].cache
  <1>1. CASE Issue(i) \/ HandleMiss(i)
    <2> DEFINE d == program[i].cache
    <2>1. /\ program' = program /\ finished' = finished /\ dropped' = dropped /\ answers' = answers
          /\ adding[d] = NoRequest /\ again[d] = NoRequest
          /\ adding' = adding \/ adding' = [adding EXCEPT ![d] = i]
          /\ again' = again \/ again' = [again EXCEPT ![d] = i]
          /\ issued' = issued \/ issued' = issued \cup {i}
          /\ held' = held \/ held' = [held EXCEPT ![i] = 1]
          /\ queued' = queued \/ queued' = queued \cup {i} \/ queued' = queued \ {i}
          /\ opened' = opened \/ opened' = opened \cup {i}
      BY <1>1 DEF Issue, HandleMiss, Idle
    <2>2. held'[j] = held[j] /\ (j \in queued' <=> j \in queued) /\ (j \in opened' <=> j \in opened)
          /\ (j \in issued' <=> j \in issued)
      BY <1>0, <2>1
    <2>3. adding'[e] = j <=> adding[e] = j
      <3>1. e = d => adding'[d] = NoRequest \/ adding'[d] = i
        BY <1>0, <2>1
      <3>2. e # d => adding'[e] = adding[e]
        BY <1>0, <2>1
      <3>3. QED
        BY <3>1, <3>2, <1>0, <2>1
    <2>4. again'[e] = j <=> again[e] = j
      <3>1. e = d => again'[d] = NoRequest \/ again'[d] = i
        BY <1>0, <2>1
      <3>2. e # d => again'[e] = again[e]
        BY <1>0, <2>1
      <3>3. QED
        BY <3>1, <3>2, <1>0, <2>1
    <2>5. QED
      BY <2>1, <2>2, <2>3, <2>4 DEF Aside, Kept
  <1>2. CASE i = adding[c] /\ Merge(c)
    <2>1. /\ program' = program /\ finished' = finished /\ answers' = answers /\ issued' = issued
          /\ queued' = queued /\ opened' = opened /\ again' = again
          /\ adding' = [adding EXCEPT ![c] = NoRequest]
          /\ dropped' = dropped \/ dropped' = dropped \cup {i}
          /\ held' = held \/ held' = [held EXCEPT ![i] = @ + 1]
      BY <1>2 DEF Merge
    <2>2. held'[j] = held[j] /\ (j \in dropped' <=> j \in dropped)
      BY <1>0, <2>1
    <2>3. adding'[e] = j <=> adding[e] = j
      BY <1>0, <1>2, <2>1
    <2>4. QED
      BY <2>1, <2>2, <2>3 DEF Aside, Kept
  <1>3. CASE i = again[c] /\ AddAgain(c)
    <2>1. /\ program' = program /\ finished' = finished /\ answers' = answers /\ issued' = issued
          /\ queued' = queued /\ opened' = opened /\ dropped' = dropped
          /\ again' = [again EXCEPT ![c] = NoRequest]
          /\ adding' = adding \/ adding' = [adding EXCEPT ![c] = i]
          /\ held' = held \/ held' = [held EXCEPT ![i] = @ + 1]
      BY <1>3 DEF AddAgain
    <2>2. held'[j] = held[j]
      BY <1>0, <2>1
    <2>3. again'[e] = j <=> again[e] = j
      BY <1>0, <1>3, <2>1
    <2>4. adding'[e] = j <=> adding[e] = j
      <3>1. again[c] # NoRequest
        BY <1>0, <1>3
      <3>2. adding[c] = NoRequest
        BY <3>1, AccountParts DEF AddingOf
      <3>3. e = c => adding'[e] = NoRequest \/ adding'[e] = i
        BY <1>0, <2>1, <3>2
      <3>4. e # c => adding'[e] = adding[e]
        BY <1>0, <2>1
      <3>5. QED
        BY <1>0, <3>2, <3>3, <3>4
    <2>5. QED
      BY <2>1, <2>2, <2>3, <2>4 DEF Aside, Kept
  <1>4. QED
    BY <1>1, <1>2, <1>3

(* A new request.                                                          *)
LEMMA AccountIssue ==
  ASSUME CacheTypes, AccountInv, NEW i \in Ids, Issue(i) PROVE AccountInv'
  <1> DEFINE c == program[i].cache
  <1>0. /\ program' = program /\ finished' = finished /\ dropped' = dropped /\ answers' = answers
        /\ issued' = issued \cup {i} /\ i \notin issued /\ again' = again
        /\ c \notin finished /\ adding[c] = NoRequest /\ again[c] = NoRequest
        /\ \/ /\ held' = [held EXCEPT ![i] = 1] /\ queued' = queued \cup {i}
              /\ opened' = opened \cup {i} /\ adding' = adding
           \/ /\ adding' = [adding EXCEPT ![c] = i]
              /\ held' = held /\ queued' = queued /\ opened' = opened
    BY DEF Issue, Idle
  <1>1. /\ held \in [Ids -> Nat] /\ answers \in [Ids -> Nat]
        /\ adding \in [Caches -> Ids \cup {NoRequest}]
    BY DEF CacheTypes
  <1>2. /\ \A j \in Ids : AccountOf(j) /\ j # NoRequest /\ program[j].cache \in Caches
        /\ \A d \in Caches : AddingOf(d) /\ AgainOf(d)
    BY AccountParts
  <1>3. held[i] = 0 /\ answers[i] = 0 /\ i \notin queued /\ i \notin opened /\ i \notin dropped
    BY <1>0, <1>2 DEF AccountOf
  <1>4. ASSUME NEW d \in Caches PROVE AddingOf(d)' /\ AgainOf(d)'
    <2>1. CASE adding' = adding /\ queued' = queued \cup {i} /\ opened' = opened \cup {i}
      BY <1>0, <1>1, <1>2, <1>3, <2>1 DEF AddingOf, AgainOf
    <2>2. CASE adding' = [adding EXCEPT ![c] = i] /\ queued' = queued /\ opened' = opened
      BY <1>0, <1>1, <1>2, <1>3, <2>2 DEF AddingOf, AgainOf
    <2>3. QED
      BY <1>0, <2>1, <2>2
  <1>5. ASSUME NEW j \in Ids, j # i PROVE AccountOf(j)'
    BY <1>2, <1>5, AccountParts, OthersAside, AccountAside
  <1>6. AccountOf(i)'
    <2>1. CASE held' = [held EXCEPT ![i] = 1] /\ queued' = queued \cup {i} /\ opened' = opened \cup {i}
      <3>1. held'[i] = 1 /\ i \in queued' /\ i \in opened' /\ i \in issued' /\ Pending(i)'
        BY <1>0, <1>1, <2>1 DEF Pending
      <3>2. Comes(i)' = 1 /\ Gone(i)' = 0 /\ Due(i)' = 2
        BY <1>0, <1>3, <3>1 DEF Comes, Gone, Due, One
      <3>3. answers'[i] = 0 /\ i \notin dropped' /\ c \notin finished'
        BY <1>0, <1>3
      <3>4. /\ answers'[i] + held'[i] + Comes(i)' + Gone(i)' = 2
            /\ held'[i] + Comes(i)' + Gone(i)' <= 2
        BY <3>1, <3>2, <3>3
      <3>5. QED
        BY <1>0, <3>1, <3>2, <3>3, <3>4 DEF AccountOf
    <2>2. CASE adding' = [adding EXCEPT ![c] = i] /\ held' = held /\ queued' = queued /\ opened' = opened
      <3>1. adding'[c] = i /\ ~Pending(i)'
        BY <1>0, <1>1, <1>2, <1>3, <2>2 DEF Pending
      <3>2. Comes(i)' = 0 /\ Gone(i)' = 0 /\ Due(i)' = 0
        BY <1>0, <1>3, <2>2, <3>1 DEF Comes, Gone, Due, One
      <3>3. QED
        BY <1>0, <1>3, <2>2, <3>1, <3>2 DEF AccountOf
    <2>3. QED
      BY <1>0, <2>1, <2>2
  <1>7. QED
    BY <1>4, <1>5, <1>6 DEF AccountInv

(* A request is merged, or forgotten.                                      *)
LEMMA AccountMerge ==
  ASSUME CacheTypes, AccountInv, NEW c \in Caches, Merge(c) PROVE AccountInv'
  <1>0. PICK i \in Ids : i = adding[c]
    BY DEF Merge, CacheTypes
  <1>1. /\ program' = program /\ finished' = finished /\ answers' = answers /\ issued' = issued
        /\ queued' = queued /\ opened' = opened /\ again' = again
        /\ i # NoRequest
        /\ adding' = [adding EXCEPT ![c] = NoRequest]
        /\ \/ dropped' = dropped \cup {i} /\ held' = held
           \/ held' = [held EXCEPT ![i] = @ + 1] /\ dropped' = dropped
    BY <1>0 DEF Merge
  <1>2. /\ held \in [Ids -> Nat] /\ adding \in [Caches -> Ids \cup {NoRequest}]
        /\ answers \in [Ids -> Nat]
    BY DEF CacheTypes
  <1>3. /\ \A j \in Ids : AccountOf(j) /\ j # NoRequest /\ program[j].cache \in Caches
        /\ \A d \in Caches : AddingOf(d) /\ AgainOf(d)
    BY AccountParts
  <1>4. /\ program[i].cache = c /\ c \notin finished /\ i \in issued /\ i \notin queued
        /\ again[c] = NoRequest
    BY <1>0, <1>1, <1>3 DEF AddingOf
  <1>5. ASSUME NEW d \in Caches PROVE AddingOf(d)' /\ AgainOf(d)'
    BY <1>1, <1>2, <1>3 DEF AddingOf, AgainOf
  <1>6. ASSUME NEW j \in Ids, j # i PROVE AccountOf(j)'
    BY <1>0, <1>3, <1>6, AccountParts, OthersAside, AccountAside
  <1>7. AccountOf(i)'
    <2>1. adding'[c] # i /\ ~Pending(i)'
      BY <1>0, <1>1, <1>2, <1>3, <1>4 DEF Pending
    <2>2. Comes(i)' = 0
      BY <2>1 DEF Comes, One
    <2>3. AccountOf(i) /\ held[i] \in Nat /\ answers[i] \in Nat /\ (IsRead(i)' <=> IsRead(i))
      BY <1>1, <1>2, <1>3 DEF IsRead
    <2>4. CASE i \notin opened
      <3>1. held[i] = 0 /\ answers[i] = 0 /\ i \notin dropped /\ i \notin opened' /\ Due(i)' = 1
        BY <1>0, <1>1, <1>4, <2>1, <2>3, <2>4 DEF AccountOf, Due, One
      <3>2. held'[i] + Gone(i)' = 1 /\ held'[i] \in Nat /\ Gone(i)' \in Nat
        BY <1>1, <1>2, <3>1 DEF Gone, One
      <3>3. QED
        BY <1>1, <1>4, <2>1, <2>2, <2>4, <3>1, <3>2 DEF AccountOf
    <2>5. CASE i \in opened
      <3>1. Pending(i) /\ Comes(i) = 1
        BY <1>0, <1>4, <2>5 DEF Pending, Comes, One
      <3>2. i \notin dropped /\ Gone(i) = 0 /\ Due(i) = 2 /\ Due(i)' = 2
        BY <1>1, <2>3, <2>5, <3>1 DEF AccountOf, Gone, Due, One
      <3>3. held'[i] + Gone(i)' = held[i] + 1 /\ held'[i] \in Nat /\ Gone(i)' \in Nat
        BY <1>1, <1>2, <3>2 DEF Gone, One
      <3>4. held[i] + 1 <= 2 /\ (IsRead(i) => answers[i] + held[i] + 1 = 2)
        BY <1>4, <2>3, <2>5, <3>1, <3>2 DEF AccountOf
      <3>5. QED
        BY <1>1, <1>4, <2>1, <2>2, <2>3, <2>5, <3>2, <3>3, <3>4 DEF AccountOf
    <2>6. QED
      BY <2>4, <2>5
  <1>8. QED
    BY <1>5, <1>6, <1>7 DEF AccountInv

(* The event of a request is handled, and the request will be added again. *)
LEMMA AccountMiss ==
  ASSUME CacheTypes, AccountInv, NEW i \in Ids, HandleMiss(i) PROVE AccountInv'
  <1> DEFINE c == program[i].cache
  <1>1. /\ program' = program /\ finished' = finished /\ answers' = answers /\ issued' = issued
        /\ held' = held /\ opened' = opened /\ dropped' = dropped /\ adding' = adding
        /\ queued' = queued \ {i} /\ i \in queued
        /\ adding[c] = NoRequest /\ c \notin finished
        /\ again' = [again EXCEPT ![c] = i]
    BY DEF HandleMiss, Idle
  <1>2. again \in [Caches -> Ids \cup {NoRequest}]
    BY DEF CacheTypes
  <1>3. /\ \A j \in Ids : AccountOf(j) /\ j # NoRequest /\ program[j].cache \in Caches
        /\ \A d \in Caches : AddingOf(d) /\ AgainOf(d)
    BY AccountParts
  <1>4. i \in issued /\ i \in opened
    BY <1>1, <1>3 DEF AccountOf
  <1>5. ASSUME NEW d \in Caches PROVE AddingOf(d)' /\ AgainOf(d)'
    <2>1. CASE d = c
      BY <1>1, <1>2, <1>4, <2>1 DEF AddingOf, AgainOf
    <2>2. CASE d # c
      <3>1. again'[d] = again[d]
        BY <1>1, <1>2, <2>2
      <3>2. QED
        BY <1>1, <1>3, <3>1 DEF AddingOf, AgainOf
    <2>3. QED
      BY <2>1, <2>2
  <1>6. ASSUME NEW j \in Ids, j # i PROVE AccountOf(j)'
    BY <1>3, <1>6, AccountParts, OthersAside, AccountAside
  <1>7. AccountOf(i)'
    <2>1. again'[c] = i /\ i \notin queued' /\ Pending(i)' /\ Pending(i)
      BY <1>1, <1>2, <1>3 DEF Pending
    <2>2. Comes(i)' = 1 /\ Comes(i) = 1 /\ Gone(i)' = Gone(i) /\ Due(i)' = Due(i)
      BY <1>1, <2>1 DEF Comes, Gone, Due, One
    <2>3. AccountOf(i)
      BY <1>3
    <2>4. IsRead(i)' <=> IsRead(i)
      BY <1>1 DEF IsRead
    <2>5. QED
      BY <1>1, <1>4, <2>1, <2>2, <2>3, <2>4 DEF AccountOf
  <1>8. QED
    BY <1>5, <1>6, <1>7 DEF AccountInv

(* The request is added again, or has seen an entry to join.               *)
LEMMA AccountAddAgain ==
  ASSUME CacheTypes, AccountInv, NEW c \in Caches, AddAgain(c) PROVE AccountInv'
  <1>0. PICK i \in Ids : i = again[c]
    BY DEF AddAgain, CacheTypes
  <1>1. /\ program' = program /\ finished' = finished /\ answers' = answers /\ issued' = issued
        /\ queued' = queued /\ opened' = opened /\ dropped' = dropped
        /\ i # NoRequest
        /\ again' = [again EXCEPT ![c] = NoRequest]
        /\ \/ held' = [held EXCEPT ![i] = @ + 1] /\ adding' = adding
           \/ held' = held /\ adding' = [adding EXCEPT ![c] = i]
    BY <1>0 DEF AddAgain
  <1>2. /\ held \in [Ids -> Nat] /\ adding \in [Caches -> Ids \cup {NoRequest}]
        /\ answers \in [Ids -> Nat] /\ again \in [Caches -> Ids \cup {NoRequest}]
    BY DEF CacheTypes
  <1>3. /\ \A j \in Ids : AccountOf(j) /\ j # NoRequest /\ program[j].cache \in Caches
        /\ \A d \in Caches : AddingOf(d) /\ AgainOf(d)
    BY AccountParts
  <1>4. /\ program[i].cache = c /\ c \notin finished /\ i \in issued /\ i \notin queued
        /\ i \in opened /\ adding[c] = NoRequest
    BY <1>0, <1>1, <1>3 DEF AgainOf, AddingOf
  <1>5. ASSUME NEW d \in Caches PROVE AddingOf(d)' /\ AgainOf(d)'
    <2>1. CASE d = c
      BY <1>1, <1>2, <1>4, <2>1 DEF AddingOf, AgainOf
    <2>2. CASE d # c
      <3>1. again'[d] = again[d] /\ adding'[d] = adding[d]
        BY <1>1, <1>2, <2>2
      <3>2. QED
        BY <1>1, <1>3, <3>1 DEF AddingOf, AgainOf
    <2>3. QED
      BY <2>1, <2>2
  <1>6. ASSUME NEW j \in Ids, j # i PROVE AccountOf(j)'
    BY <1>0, <1>3, <1>6, AccountParts, OthersAside, AccountAside
  <1>7. AccountOf(i)'
    <2>1. again'[c] # i /\ held[i] \in Nat /\ answers[i] \in Nat
      BY <1>1, <1>2, <1>3, <1>4
    <2>2. Pending(i) /\ Comes(i) = 1 /\ Gone(i)' = Gone(i) /\ Due(i) = 2 /\ Due(i)' = 2
      BY <1>0, <1>1, <1>4 DEF Comes, Gone, Due, Pending, One
    <2>3. AccountOf(i) /\ (IsRead(i)' <=> IsRead(i)) /\ Gone(i) \in Nat
      BY <1>1, <1>3 DEF IsRead, Gone, One
    <2>4. CASE held' = [held EXCEPT ![i] = @ + 1] /\ adding' = adding
      <3>1. held'[i] = held[i] + 1 /\ ~Pending(i)' /\ Comes(i)' = 0
        BY <1>0, <1>1, <1>2, <1>3, <1>4, <2>1, <2>4 DEF Comes, Pending, One
      <3>2. QED
        BY <1>1, <1>4, <2>1, <2>2, <2>3, <3>1 DEF AccountOf
    <2>5. CASE held' = held /\ adding' = [adding EXCEPT ![c] = i]
      <3>1. held'[i] = held[i] /\ Pending(i)' /\ Comes(i)' = 1
        BY <1>0, <1>1, <1>2, <1>3, <1>4, <2>1, <2>5 DEF Comes, Pending, One
      <3>2. QED
        BY <1>1, <1>4, <2>1, <2>2, <2>3, <3>1 DEF AccountOf
    <2>6. QED
      BY <1>1, <2>4, <2>5
  <1>8. QED
    BY <1>5, <1>6, <1>7 DEF AccountInv

(* The requests of an entry are served.                                    *)
LEMMA AccountEntry ==
  ASSUME CacheTypes, NEW c, NEW b, NEW j \in Ids, finished' = finished,
         held' = Removed(Entry(c, b)), answers'[j] = Given(Entry(c, b))[j]
  PROVE  Kept(j) \/ Served(j)
  <1> DEFINE entry == Entry(c, b)
  <1>1. held[j] \in Nat /\ answers[j] \in Nat
    BY DEF CacheTypes
  <1>2. /\ held'[j] = IF j \in entry THEN 0 ELSE held[j]
        /\ answers'[j] = answers[j] + (IF j \in entry /\ IsRead(j) THEN held[j] ELSE 0)
    BY DEF Removed, Given, IsReadOf
  <1>3. CASE j \in entry
    <2>1. held[j] > 0
      BY <1>3 DEF Entry
    <2>2. QED
      BY <1>1, <1>2, <1>3, <2>1 DEF Served
  <1>4. CASE j \notin entry
    BY <1>1, <1>2, <1>4 DEF Kept
  <1>5. QED
    BY <1>3, <1>4

(* A hit serves the entry, and the request of the event once more.         *)
LEMMA AccountHit ==
  ASSUME CacheTypes, AccountInv, NEW i \in Ids, HandleHit(i) PROVE AccountInv'
  <1> DEFINE c == program[i].cache
             b == program[i].block
  <1>1. /\ program' = program /\ finished' = finished /\ adding' = adding /\ issued' = issued
        /\ opened' = opened /\ dropped' = dropped /\ again' = again
        /\ queued' = queued \ {i} /\ i \in queued
        /\ adding[c] = NoRequest /\ again[c] = NoRequest /\ c \notin finished
        /\ held' = Removed(Entry(c, b))
        /\ answers' = IF IsRead(i) THEN [Given(Entry(c, b)) EXCEPT ![i] = @ + 1]
                                   ELSE Given(Entry(c, b))
    BY DEF HandleHit, Idle, sp
  <1>2. /\ Given(Entry(c, b)) \in [Ids -> Nat] /\ held \in [Ids -> Nat] /\ answers \in [Ids -> Nat]
    BY RemovedTypes DEF CacheTypes
  <1>3. /\ \A j \in Ids : AccountOf(j) /\ j # NoRequest /\ program[j].cache \in Caches
        /\ \A d \in Caches : AddingOf(d) /\ AgainOf(d)
    BY AccountParts
  <1>4. ASSUME NEW d \in Caches PROVE AddingOf(d)' /\ AgainOf(d)'
    BY <1>1, <1>3 DEF AddingOf, AgainOf
  <1>5. ASSUME NEW j \in Ids, j # i PROVE AccountOf(j)'
    <2>1. answers'[j] = Given(Entry(c, b))[j]
      BY <1>1, <1>2, <1>5
    <2>2. Kept(j) \/ Served(j)
      BY <1>1, <2>1, AccountEntry
    <2>3. Aside(j)
      BY <1>1, <1>5 DEF Aside
    <2>4. QED
      BY <1>3, <2>2, <2>3, AccountAside
  <1>6. AccountOf(i)'
    <2>1. AccountOf(i) /\ i # NoRequest
      BY <1>3
    <2>2. i \in opened /\ i \in issued /\ i \notin queued' /\ held[i] \in Nat /\ answers[i] \in Nat
      BY <1>1, <1>2, <2>1 DEF AccountOf
    <2>3. Pending(i) /\ ~Pending(i)' /\ Comes(i) = 1 /\ Comes(i)' = 0 /\ Gone(i)' = Gone(i)
          /\ Due(i)' = Due(i) /\ Due(i) = 2 /\ Gone(i) \in Nat
      BY <1>1, <2>1, <2>2 DEF Comes, Pending, Gone, Due, One
    <2>4. IsRead(i)' <=> IsRead(i)
      BY <1>1 DEF IsRead
    <2>5. held'[i] = IF i \in Entry(c, b) THEN 0 ELSE held[i]
      BY <1>1 DEF Removed
    <2>6. i \notin Entry(c, b) => held[i] = 0
      BY <1>2, <2>2 DEF Entry
    <2>7. held'[i] = 0
      BY <2>5, <2>6
    <2>8. IsRead(i) => answers'[i] = answers[i] + held[i] + 1
      <3> SUFFICES ASSUME IsRead(i) PROVE answers'[i] = answers[i] + held[i] + 1
        OBVIOUS
      <3>1. answers'[i] = Given(Entry(c, b))[i] + 1
        BY <1>1, <1>2
      <3>2. Given(Entry(c, b))[i] = answers[i] + (IF i \in Entry(c, b) THEN held[i] ELSE 0)
        BY DEF Given, IsReadOf
      <3>3. QED
        BY <2>2, <2>6, <3>1, <3>2
    <2>9. QED
      BY <1>1, <2>1, <2>2, <2>3, <2>4, <2>7, <2>8 DEF AccountOf
  <1>7. QED
    BY <1>4, <1>5, <1>6 DEF AccountInv

(* A response serves the entry.                                            *)
LEMMA AccountRespond ==
  ASSUME CacheTypes, AccountInv, NEW c \in Caches, NEW b \in Blocks, Respond(c, b) PROVE AccountInv'
  <1>1. /\ UNCHANGED <<program, finished, adding, again, issued, opened, dropped, queued>>
        /\ held' = Removed(Entry(c, b)) /\ answers' = Given(Entry(c, b))
    BY DEF Respond, sp
  <1>2. /\ \A j \in Ids : AccountOf(j)
        /\ \A d \in Caches : AddingOf(d) /\ AgainOf(d)
    BY AccountParts
  <1>3. ASSUME NEW j \in Ids PROVE AccountOf(j)'
    <2>1. Kept(j) \/ Served(j)
      BY <1>1, AccountEntry
    <2>2. Aside(j)
      BY <1>1 DEF Aside
    <2>3. QED
      BY <1>2, <2>1, <2>2, AccountAside
  <1>4. ASSUME NEW d \in Caches PROVE AddingOf(d)' /\ AgainOf(d)'
    BY <1>1, <1>2 DEF AddingOf, AgainOf
  <1>5. QED
    BY <1>3, <1>4 DEF AccountInv

(* The MSHR of a cache is emptied.                                         *)
LEMMA AccountClear ==
  ASSUME CacheTypes, AccountInv, NEW c \in Caches, Clear(c) PROVE AccountInv'
  <1>1. /\ UNCHANGED <<program, adding, again, issued, opened, dropped, queued, answers>>
        /\ finished' = finished \cup {c} /\ adding[c] = NoRequest /\ again[c] = NoRequest
        /\ held' = [i \in Ids |-> IF program[i].cache = c THEN 0 ELSE held[i]]
    BY DEF Clear, Idle
  <1>2. /\ \A j \in Ids : AccountOf(j)
        /\ \A d \in Caches : AddingOf(d) /\ AgainOf(d)
    BY AccountParts
  <1>3. ASSUME NEW j \in Ids PROVE AccountOf(j)'
    <2>1. Kept(j) \/ Cleared(j)
      BY <1>1 DEF Kept, Cleared
    <2>2. Aside(j)
      BY <1>1 DEF Aside
    <2>3. QED
      BY <1>2, <2>1, <2>2, AccountAside
  <1>4. ASSUME NEW d \in Caches PROVE AddingOf(d)' /\ AgainOf(d)'
    BY <1>1, <1>2 DEF AddingOf, AgainOf
  <1>5. QED
    BY <1>3, <1>4 DEF AccountInv

(* What L2 does is no concern of the account.                              *)
LEMMA AccountLower ==
  ASSUME CacheTypes, AccountInv, UNCHANGED <<sp, level1>> PROVE AccountInv'
  <1>1. UNCHANGED <<program, adding, again, issued, finished, opened, dropped, queued, held, answers>>
    BY DEF sp, level1
  <1>2. /\ \A j \in Ids : AccountOf(j)
        /\ \A d \in Caches : AddingOf(d) /\ AgainOf(d)
    BY AccountParts
  <1>3. ASSUME NEW j \in Ids PROVE AccountOf(j)'
    <2>1. Aside(j) /\ Kept(j)
      BY <1>1 DEF Aside, Kept
    <2>2. QED
      BY <1>2, <2>1, AccountAside
  <1>4. ASSUME NEW d \in Caches PROVE AddingOf(d)' /\ AgainOf(d)'
    BY <1>1, <1>2 DEF AddingOf, AgainOf
  <1>5. QED
    BY <1>3, <1>4 DEF AccountInv

(* Every step.                                                             *)
LEMMA AccountStep == CacheTypes /\ AccountInv /\ [Next]_vars => AccountInv'
  <1> SUFFICES ASSUME CacheTypes, AccountInv, [Next]_vars PROVE AccountInv'
    OBVIOUS
  <1>1. ASSUME NEW c \in Caches, NEW b \in Blocks, HandleRead2(c, b) \/ HandleWrite2(c, b)
        PROVE  AccountInv'
    BY <1>1, AccountLower DEF HandleRead2, HandleWrite2
  <1>2. ASSUME NEW b \in Blocks, Respond2(b) PROVE AccountInv'
    BY <1>2, AccountLower DEF Respond2
  <1>3. ASSUME NEW t \in Caches, Look2(t) \/ Put2(t) \/ Join2(t) PROVE AccountInv'
    BY <1>3, AccountLower DEF Look2, Put2, Join2
  <1>4. CASE UNCHANGED vars
    BY <1>4, AccountLower DEF vars
  <1>5. QED
    BY <1>1, <1>2, <1>3, <1>4, AccountIssue, AccountMerge, AccountMiss, AccountAddAgain, AccountHit,
       AccountRespond, AccountClear DEF Next

(* Every read of an SP that goes on is answered or owed as many answers as *)
(* addEvent() decided for it: two when it opened an entry, one when it     *)
(* joined one, and one less when an entry it had seen went away under it.  *)
THEOREM RequestsAccountedCorrect == Spec => []RequestsAccounted
  <1>1. CacheTypes /\ AccountInv => RequestsAccounted
    BY AccountImplies
  <1>2. QED
    BY <1>1, TypesInit, TypesStep, AccountInit, AccountStep, PTL DEF Spec

-----------------------------------------------------------------------------
(* What will serve an entry.  The terms of EntriesServed: a read is at L2  *)
(* when it is in the MSHR or in the hands of thread 0.                     *)
EventOf(c, b) == {i \in queued : program[i].cache = c /\ program[i].block = b}
Events(c, b) == Cardinality(EventOf(c, b))
InLower(c, b) == Times(c, mshr2[b])
AtLower(c, b) == InLower(c, b) + One(AtHand(c, b))
PutAside(c, b) == One(<<c, b>> \in waiting)
Forgotten(c, b) == One(<<c, b>> \in lost)
HasEntry(c, b) == One(Entry(c, b) # {})

ServedOf(c, b) ==
  Events(c, b) + reads[<<c, b>>] + AtLower(c, b) + responses[<<c, b>>] + PutAside(c, b)
    + Forgotten(c, b) = HasEntry(c, b)

(* A block that is valid in L2 has no read there.                          *)
NoReadOfValid == \A b \in Blocks : state2[b] # "INVALID" => \A c \in Caches : AtLower(c, b) = 0

ServedInv ==
  /\ \A c \in Caches \ finished : \A b \in Blocks : ServedOf(c, b)
  /\ NoReadOfValid

(* The terms are numbers.                                                  *)
LEMMA ServedTypes ==
  ASSUME CacheTypes, NEW c \in Caches, NEW b \in Blocks
  PROVE  /\ IsFiniteSet(EventOf(c, b)) /\ Events(c, b) \in Nat
         /\ reads[<<c, b>>] \in Nat /\ AtLower(c, b) \in Nat /\ InLower(c, b) \in Nat
         /\ responses[<<c, b>>] \in Nat
         /\ PutAside(c, b) \in 0 .. 1 /\ Forgotten(c, b) \in 0 .. 1 /\ HasEntry(c, b) \in 0 .. 1
  <1>1. IsFiniteSet(EventOf(c, b))
    <2>1. IsFiniteSet(1 .. MaxRequests)
      BY CacheAssumption, FS_Interval
    <2>2. EventOf(c, b) \subseteq 1 .. MaxRequests
      BY DEF CacheTypes, EventOf, Ids
    <2>3. QED
      BY <2>1, <2>2, FS_Subset
  <1>2. Events(c, b) \in Nat
    BY <1>1, FS_CardinalityType DEF Events
  <1>3. InLower(c, b) \in Nat /\ AtLower(c, b) \in Nat
    <2> DEFINE T == Caches \cup {Write}
    <2>1. mshr2[b] \in Seq(T)
      BY DEF CacheTypes
    <2> HIDE DEF T
    <2>2. QED
      BY <2>1, PlacesFinite DEF AtLower, InLower, One
  <1>4. reads[<<c, b>>] \in Nat /\ responses[<<c, b>>] \in Nat
    BY DEF CacheTypes
  <1>5. QED
    BY <1>1, <1>2, <1>3, <1>4 DEF PutAside, Forgotten, HasEntry, One

(* It is what the property says.                                           *)
LEMMA ServedImplies == CacheTypes /\ ServedInv => EntriesServed
  <1> SUFFICES ASSUME CacheTypes, ServedInv, NEW c \in Caches \ finished, NEW b \in Blocks
               PROVE  Events(c, b) + reads[<<c, b>>] + One(AtHand(c, b)) + InLower(c, b)
                        + responses[<<c, b>>] + PutAside(c, b) + Forgotten(c, b) = HasEntry(c, b)
    BY DEF EntriesServed, Events, EventOf, InLower, PutAside, Forgotten, HasEntry
  <1>1. ServedOf(c, b)
    BY DEF ServedInv
  <1>2. /\ Events(c, b) \in Nat /\ reads[<<c, b>>] \in Nat /\ InLower(c, b) \in Nat
        /\ responses[<<c, b>>] \in Nat /\ PutAside(c, b) \in Nat /\ Forgotten(c, b) \in Nat
    BY ServedTypes
  <1>3. One(AtHand(c, b)) \in Nat
    BY DEF One
  <1>4. QED
    BY <1>1, <1>2, <1>3 DEF ServedOf, AtLower

(* Nothing is outstanding at the start.                                    *)
LEMMA ServedInit == Init => ServedInv
  <1> SUFFICES ASSUME Init PROVE ServedInv
    OBVIOUS
  <1>1. ASSUME NEW c \in Caches, NEW b \in Blocks PROVE AtLower(c, b) = 0 /\ ServedOf(c, b)
    <2>1. mshr2[b] = <<>> /\ reads[<<c, b>>] = 0 /\ responses[<<c, b>>] = 0 /\ waiting = {}
          /\ lost = {} /\ queued = {} /\ \A i \in Ids : held[i] = 0
      BY DEF Init
    <2>2. AtLower(c, b) = 0
      <3>1. ~AtHand(c, b)
        BY CacheAssumption DEF Init, AtHand
      <3>2. QED
        BY <2>1, <3>1, TimesEmpty DEF AtLower, InLower, One
    <2>3. Events(c, b) = 0
      <3>1. EventOf(c, b) = {}
        BY <2>1 DEF EventOf
      <3>2. QED
        BY <3>1, FS_EmptySet DEF Events
    <2>4. Entry(c, b) = {}
      BY <2>1 DEF Entry
    <2>5. PutAside(c, b) = 0 /\ Forgotten(c, b) = 0 /\ HasEntry(c, b) = 0
      BY <2>1, <2>4 DEF PutAside, Forgotten, HasEntry, One
    <2>6. QED
      BY <2>1, <2>2, <2>3, <2>5 DEF ServedOf
  <1>2. QED
    BY <1>1 DEF ServedInv, NoReadOfValid

(* The entry of a block is that of its requests.                           *)
LEMMA SameEntry ==
  ASSUME NEW c, NEW b, program' = program,
         \A j \in Ids : program[j].cache = c /\ program[j].block = b => (held'[j] > 0 <=> held[j] > 0)
  PROVE  HasEntry(c, b)' = HasEntry(c, b)
  <1>1. Entry(c, b)' = Entry(c, b)
    BY DEF Entry
  <1>2. QED
    BY <1>1 DEF HasEntry, One

(* So are its events.                                                      *)
LEMMA SameEvents ==
  ASSUME NEW c, NEW b, program' = program,
         \A j \in queued \cup queued' : program[j].cache = c /\ program[j].block = b
                                          => (j \in queued' <=> j \in queued)
  PROVE  Events(c, b)' = Events(c, b)
  <1>1. EventOf(c, b)' = EventOf(c, b)
    BY DEF EventOf
  <1>2. QED
    BY <1>1 DEF Events

(* An event more, or one less.                                             *)
LEMMA EventChange ==
  ASSUME CacheTypes, NEW i \in Ids, program' = program
  PROVE  LET c == program[i].cache
             b == program[i].block
         IN /\ i \notin queued /\ queued' = queued \cup {i} => Events(c, b)' = Events(c, b) + 1
            /\ i \in queued /\ queued' = queued \ {i}
                 => Events(c, b)' = Events(c, b) - 1 /\ Events(c, b) > 0
  <1> DEFINE c == program[i].cache
             b == program[i].block
  <1>1. c \in Caches /\ b \in Blocks
    BY RequestTypes
  <1>2. IsFiniteSet(EventOf(c, b)) /\ Events(c, b) \in Nat
    BY <1>1, ServedTypes
  <1>3. ASSUME i \notin queued, queued' = queued \cup {i}
        PROVE  Events(c, b)' = Events(c, b) + 1
    <2>1. EventOf(c, b)' = EventOf(c, b) \cup {i} /\ i \notin EventOf(c, b)
      BY <1>3 DEF EventOf
    <2>2. Cardinality(EventOf(c, b) \cup {i}) = Cardinality(EventOf(c, b)) + 1
      BY <1>2, <2>1, FS_AddElement
    <2>3. QED
      BY <2>1, <2>2 DEF Events
  <1>4. ASSUME i \in queued, queued' = queued \ {i}
        PROVE  Events(c, b)' = Events(c, b) - 1 /\ Events(c, b) > 0
    <2>1. EventOf(c, b)' = EventOf(c, b) \ {i} /\ i \in EventOf(c, b)
      BY <1>4 DEF EventOf
    <2>2. Cardinality(EventOf(c, b) \ {i}) = Cardinality(EventOf(c, b)) - 1
      BY <1>2, <2>1, FS_RemoveElement
    <2>3. Cardinality(EventOf(c, b) \ {i}) \in Nat
      BY <1>2, FS_RemoveElement, FS_CardinalityType
    <2>4. QED
      BY <1>2, <2>1, <2>2, <2>3 DEF Events
  <1>5. QED
    BY <1>3, <1>4

(* What is on its way below, and stays.                                    *)
LowerStays(c, b) ==
  /\ reads'[<<c, b>>] = reads[<<c, b>>] /\ AtLower(c, b)' = AtLower(c, b)
  /\ responses'[<<c, b>>] = responses[<<c, b>>]
  /\ PutAside(c, b)' = PutAside(c, b) /\ Forgotten(c, b)' = Forgotten(c, b)

(* The hands of thread 0 hold the same.                                    *)
HandSame == \A d \in Caches, x \in Blocks : AtHand(d, x)' <=> AtHand(d, x)

(* Nothing new is to be put.                                               *)
LEMMA HandStays == ASSUME UNCHANGED todo PROVE HandSame
  BY DEF HandSame, AtHand

(* Writes are.                                                             *)
LEMMA HandWrites ==
  ASSUME CacheTypes, NEW t \in Caches, NEW s, NEW Q, OnlyWrites(s, Q),
         todo' = [todo EXCEPT ![t] = s], todo[t] = <<>>
  PROVE  HandSame
  <1> SUFFICES ASSUME NEW d \in Caches, NEW x \in Blocks PROVE AtHand(d, x)' <=> AtHand(d, x)
    BY DEF HandSame
  <1>1. d # Write /\ thread0 \in Caches
    BY CacheAssumption
  <1>2. todo'[t] = s /\ \A u \in Caches : u # t => todo'[u] = todo[u]
    BY TodoWrites
  <1>3. CASE t = thread0
    <2>1. s # <<>> => Head(s).what = Write
      BY DEF OnlyWrites
    <2>2. ~AtHand(d, x)
      BY <1>3 DEF AtHand
    <2>3. ~AtHand(d, x)'
      BY <1>1, <1>2, <1>3, <2>1 DEF AtHand
    <2>4. QED
      BY <2>2, <2>3
  <1>4. CASE t # thread0
    BY <1>1, <1>2, <1>4 DEF AtHand
  <1>5. QED
    BY <1>3, <1>4

(* A miss of L2 is.                                                        *)
LEMMA HandMiss ==
  ASSUME CacheTypes, NEW t \in Caches, NEW e \in Caches \cup {Write}, NEW b \in Blocks,
         e # Write => t = thread0, Idle(t), Miss2(t, e, b)
  PROVE  \A d \in Caches, x \in Blocks :
           One(AtHand(d, x))' = One(AtHand(d, x)) + (IF d = e /\ x = b THEN 1 ELSE 0)
  <1> SUFFICES ASSUME NEW d \in Caches, NEW x \in Blocks
               PROVE  One(AtHand(d, x))' = One(AtHand(d, x)) + (IF d = e /\ x = b THEN 1 ELSE 0)
    OBVIOUS
  <1>1. d # Write /\ thread0 \in Caches
    BY CacheAssumption
  <1>2. todo' = [todo EXCEPT ![t] = <<Add(e, b, NoQueue)>>] /\ todo[t] = <<>>
    <2>1. todo' = [todo EXCEPT ![t] = <<Add(e, b, NoQueue)>>]
      BY DEF Miss2
    <2>2. QED
      BY <2>1 DEF Idle
  <1>3. todo'[t] = <<Add(e, b, NoQueue)>> /\ \A u \in Caches : u # t => todo'[u] = todo[u]
    BY <1>2, TodoMiss
  <1>4. CASE t = thread0
    <2> DEFINE a == Add(e, b, NoQueue)
    <2>1. a.what = e /\ a.block = b
      BY DEF Add
    <2> HIDE DEF a
    <2>2. <<a>> # <<>> /\ Head(<<a>>) = a
      OBVIOUS
    <2>3. todo'[thread0] = <<a>>
      BY <1>3, <1>4 DEF a
    <2>4. AtHand(d, x)' <=> d = e /\ x = b
      BY <2>1, <2>2, <2>3 DEF AtHand
    <2>5. ~AtHand(d, x)
      BY <1>2, <1>4 DEF AtHand
    <2>6. QED
      BY <2>4, <2>5 DEF One
  <1>5. CASE t # thread0
    <2>1. d # e
      BY <1>1, <1>5
    <2>2. AtHand(d, x)' <=> AtHand(d, x)
      BY <1>1, <1>3, <1>5 DEF AtHand
    <2>3. QED
      BY <2>1, <2>2 DEF One
  <1>6. QED
    BY <1>4, <1>5

(* A thread puts its first request.                                        *)
LEMMA HandPut ==
  ASSUME CacheTypes, NEW t \in Caches, todo[t] # <<>>, todo' = [todo EXCEPT ![t] = Tail(@)]
  PROVE  \A d \in Caches, x \in Blocks :
           One(AtHand(d, x)) = One(AtHand(d, x))'
             + (IF d = Head(todo[t]).what /\ x = Head(todo[t]).block THEN 1 ELSE 0)
  <1> DEFINE a == Head(todo[t])
  <1> SUFFICES ASSUME NEW d \in Caches, NEW x \in Blocks
               PROVE  One(AtHand(d, x)) = One(AtHand(d, x))'
                        + (IF d = a.what /\ x = a.block THEN 1 ELSE 0)
    OBVIOUS
  <1>1. d # Write /\ thread0 \in Caches
    BY CacheAssumption
  <1>2. /\ \A u \in Caches : u # t => todo'[u] = todo[u]
        /\ 1 \in DOMAIN todo[t] /\ a = todo[t][1]
        /\ \A k \in DOMAIN todo'[t] : todo'[t][k].what = Write
        /\ todo'[t] \in Seq(Additions)
    BY TodoTail
  <1>3. CASE t = thread0
    <2>1. todo'[t] # <<>> => Head(todo'[t]).what = Write
      <3> DEFINE n == todo'[t]
      <3>1. n \in Seq(Additions) /\ \A k \in DOMAIN n : n[k].what = Write
        BY <1>2
      <3> HIDE DEF n
      <3>2. n # <<>> => 1 \in DOMAIN n /\ Head(n) = n[1]
        BY <3>1
      <3>3. n # <<>> => Head(n).what = Write
        BY <3>1, <3>2
      <3>4. QED
        BY <3>3 DEF n
    <2>2. ~AtHand(d, x)'
      BY <1>1, <1>3, <2>1 DEF AtHand
    <2>3. AtHand(d, x) <=> d = a.what /\ x = a.block
      BY <1>3 DEF AtHand
    <2>4. QED
      BY <2>2, <2>3 DEF One
  <1>4. CASE t # thread0
    <2>1. a.what = Write
      BY <1>2, <1>4 DEF CacheTypes, ReadFirst
    <2>2. AtHand(d, x)' <=> AtHand(d, x)
      BY <1>1, <1>2, <1>4 DEF AtHand
    <2>3. QED
      BY <1>1, <2>1, <2>2 DEF One
  <1>5. QED
    BY <1>3, <1>4

(* When nothing below moves, and L2 keeps its lines.                       *)
LEMMA LinkStays ==
  ASSUME UNCHANGED <<mshr2, link>>, HandSame
  PROVE  /\ \A c \in Caches, b \in Blocks : LowerStays(c, b)
         /\ NoReadOfValid /\ UNCHANGED state2 => NoReadOfValid'
  <1>1. \A c \in Caches, b \in Blocks : AtLower(c, b)' = AtLower(c, b)
    BY DEF AtLower, InLower, HandSame, One
  <1>2. QED
    BY <1>1 DEF LowerStays, PutAside, Forgotten, link, NoReadOfValid

(* A new request makes an entry, with its event, or finds one.             *)
LEMMA ServedIssue ==
  ASSUME CacheTypes, AccountInv, ServedInv, NEW i \in Ids, Issue(i) PROVE ServedInv'
  <1> DEFINE c == program[i].cache
             b == program[i].block
  <1>1. /\ program' = program /\ finished' = finished /\ UNCHANGED <<mshr2, state2, todo, link>>
        /\ i \notin issued /\ c \notin finished
        /\ \/ /\ Entry(c, b) = {}
              /\ held' = [held EXCEPT ![i] = 1] /\ queued' = queued \cup {i}
           \/ UNCHANGED <<held, queued>>
    BY DEF Issue, Idle, level2, lines2
  <1>2. i \notin queued /\ held \in [Ids -> Nat] /\ c \in Caches /\ b \in Blocks
    BY <1>1, AccountParts, RequestTypes DEF AccountOf, CacheTypes
  <1>3. (\A d \in Caches, x \in Blocks : LowerStays(d, x)) /\ NoReadOfValid'
    BY <1>1, HandStays, LinkStays DEF ServedInv
  <1>4. ASSUME NEW d \in Caches \ finished, NEW x \in Blocks PROVE ServedOf(d, x)'
    <2>1. ServedOf(d, x) /\ LowerStays(d, x)
      BY <1>3 DEF ServedInv
    <2>2. CASE UNCHANGED <<held, queued>>
      <3>1. Events(d, x)' = Events(d, x) /\ HasEntry(d, x)' = HasEntry(d, x)
        BY <1>1, <2>2, SameEntry, SameEvents
      <3>2. QED
        BY <2>1, <3>1 DEF ServedOf, LowerStays
    <2>3. CASE /\ Entry(c, b) = {} /\ <<d, x>> = <<c, b>>
               /\ held' = [held EXCEPT ![i] = 1] /\ queued' = queued \cup {i}
      <3>1. HasEntry(c, b) = 0
        BY <2>3 DEF HasEntry, One
      <3>2. HasEntry(c, b)' = 1
        <4>1. i \in Entry(c, b)'
          BY <1>1, <1>2, <2>3 DEF Entry
        <4>2. QED
          BY <4>1 DEF HasEntry, One
      <3>3. Events(c, b)' = Events(c, b) + 1
        BY <1>1, <1>2, <2>3, EventChange
      <3>4. d = c /\ x = b
        BY <2>3
      <3>5. /\ Events(d, x) \in Nat
            /\ reads[<<d, x>>] \in Nat /\ AtLower(d, x) \in Nat /\ responses[<<d, x>>] \in Nat
            /\ PutAside(d, x) \in 0 .. 1 /\ Forgotten(d, x) \in 0 .. 1
        BY ServedTypes
      <3>6. Events(d, x) + reads[<<d, x>>] + AtLower(d, x) + responses[<<d, x>>] + PutAside(d, x)
              + Forgotten(d, x) = 0
        BY <2>1, <3>1, <3>4 DEF ServedOf
      <3>7. HasEntry(d, x)' = 1 /\ Events(d, x)' = Events(d, x) + 1
        BY <1>1, <3>2, <3>3, <3>4
      <3>8. QED
        BY <2>1, <3>5, <3>6, <3>7 DEF ServedOf, LowerStays
    <2>4. CASE /\ <<d, x>> # <<c, b>>
               /\ held' = [held EXCEPT ![i] = 1] /\ queued' = queued \cup {i}
      <3>1. Events(d, x)' = Events(d, x) /\ HasEntry(d, x)' = HasEntry(d, x)
        BY <1>1, <1>2, <2>4, SameEntry, SameEvents
      <3>2. QED
        BY <2>1, <3>1 DEF ServedOf, LowerStays
    <2>5. QED
      BY <1>1, <2>2, <2>3, <2>4
  <1>5. QED
    BY <1>1, <1>3, <1>4 DEF ServedInv

(* A merged request joins an entry.                                        *)
LEMMA ServedMerge ==
  ASSUME CacheTypes, AccountInv, ServedInv, NEW c \in Caches, Merge(c) PROVE ServedInv'
  <1>0. PICK i \in Ids : i = adding[c]
    BY DEF Merge, CacheTypes
  <1>1. /\ program' = program /\ finished' = finished /\ queued' = queued
        /\ UNCHANGED <<mshr2, state2, todo, link>>
        /\ \/ held' = held
           \/ Entry(c, program[i].block) # {} /\ held' = [held EXCEPT ![i] = @ + 1]
    BY <1>0 DEF Merge, level2, lines2
  <1>2. i # NoRequest /\ program[i].cache = c /\ held \in [Ids -> Nat]
    BY <1>0, AccountParts DEF AddingOf, CacheTypes
  <1>3. (\A d \in Caches, x \in Blocks : LowerStays(d, x)) /\ NoReadOfValid'
    BY <1>1, HandStays, LinkStays DEF ServedInv
  <1>4. ASSUME NEW d \in Caches \ finished, NEW x \in Blocks PROVE ServedOf(d, x)'
    <2>1. ServedOf(d, x) /\ LowerStays(d, x)
      BY <1>3 DEF ServedInv
    <2>2. Events(d, x)' = Events(d, x)
      BY <1>1, SameEvents
    <2>3. HasEntry(d, x)' = HasEntry(d, x)
      <3>1. CASE held' = held
        BY <1>1, <3>1, SameEntry
      <3>2. CASE /\ Entry(c, program[i].block) # {} /\ held' = [held EXCEPT ![i] = @ + 1]
                 /\ d = c /\ x = program[i].block
        <4>1. PICK j \in Ids : j \in Entry(d, x)
          BY <3>2 DEF Entry
        <4>2. j \in Entry(d, x)'
          BY <1>1, <1>2, <3>2, <4>1 DEF Entry
        <4>3. QED
          BY <4>1, <4>2 DEF HasEntry, One
      <3>3. CASE /\ held' = [held EXCEPT ![i] = @ + 1]
                 /\ ~(d = c /\ x = program[i].block)
        BY <1>1, <1>2, <3>3, SameEntry
      <3>4. QED
        BY <1>1, <3>1, <3>2, <3>3
    <2>4. QED
      BY <2>1, <2>2, <2>3 DEF ServedOf, LowerStays
  <1>5. QED
    BY <1>1, <1>3, <1>4 DEF ServedInv

(* The event of an entry sends its read.                                   *)
LEMMA ServedMiss ==
  ASSUME CacheTypes, AccountInv, ServedInv, NEW i \in Ids, HandleMiss(i) PROVE ServedInv'
  <1> DEFINE c == program[i].cache
             b == program[i].block
             cb == <<c, b>>
  <1>1. /\ program' = program /\ finished' = finished /\ held' = held
        /\ UNCHANGED <<mshr2, state2, todo, responses, lost>>
        /\ i \in queued /\ queued' = queued \ {i} /\ c \notin finished
        /\ \/ waiting' = waiting \cup {cb} /\ reads' = reads
           \/ reads' = [reads EXCEPT ![cb] = @ + 1] /\ waiting' = waiting
    BY DEF HandleMiss, Idle, level2, lines2, SendRead
  <1>2. c \in Caches /\ b \in Blocks /\ cb \in Caches \X Blocks /\ reads \in [Caches \X Blocks -> Nat]
    BY RequestTypes DEF CacheTypes
  <1>3. \A d \in Caches, x \in Blocks : AtLower(d, x)' = AtLower(d, x) /\ Forgotten(d, x)' = Forgotten(d, x)
    BY <1>1 DEF AtLower, InLower, AtHand, Forgotten
  <1>4. NoReadOfValid'
    BY <1>1, <1>3 DEF ServedInv, NoReadOfValid
  <1>5. ASSUME NEW d \in Caches \ finished, NEW x \in Blocks PROVE ServedOf(d, x)'
    <2>1. ServedOf(d, x) /\ HasEntry(d, x)' = HasEntry(d, x)
          /\ responses'[<<d, x>>] = responses[<<d, x>>]
      BY <1>1, SameEntry DEF ServedInv
    <2>2. CASE <<d, x>> # cb
      <3>1. Events(d, x)' = Events(d, x)
        BY <1>1, <2>2, SameEvents
      <3>2. PutAside(d, x)' = PutAside(d, x) /\ reads'[<<d, x>>] = reads[<<d, x>>]
        BY <1>1, <1>2, <2>2 DEF PutAside
      <3>3. QED
        BY <1>3, <2>1, <3>1, <3>2 DEF ServedOf
    <2>3. CASE <<d, x>> = cb
      <3>1. d = c /\ x = b
        BY <2>3
      <3>2. Events(d, x)' = Events(d, x) - 1 /\ Events(d, x) > 0
        BY <1>1, <3>1, EventChange
      <3>3. /\ Events(d, x) \in Nat
            /\ reads[<<d, x>>] \in Nat /\ AtLower(d, x) \in Nat /\ responses[<<d, x>>] \in Nat
            /\ PutAside(d, x) \in 0 .. 1 /\ Forgotten(d, x) \in 0 .. 1 /\ HasEntry(d, x) \in 0 .. 1
        BY ServedTypes
      <3>4. PutAside(d, x) = 0
        BY <2>1, <3>2, <3>3 DEF ServedOf
      <3>5. PutAside(d, x)' + reads'[<<d, x>>] = PutAside(d, x) + reads[<<d, x>>] + 1
        <4>1. CASE waiting' = waiting \cup {cb} /\ reads' = reads
          <5>1. PutAside(d, x)' = 1
            BY <2>3, <4>1 DEF PutAside, One
          <5>2. QED
            BY <3>3, <3>4, <4>1, <5>1
        <4>2. CASE reads' = [reads EXCEPT ![cb] = @ + 1] /\ waiting' = waiting
          <5>1. PutAside(d, x)' = PutAside(d, x)
            BY <4>2 DEF PutAside
          <5>2. reads'[<<d, x>>] = reads[<<d, x>>] + 1
            BY <1>2, <2>3, <4>2
          <5>3. QED
            BY <3>3, <5>1, <5>2
        <4>3. QED
          BY <1>1, <4>1, <4>2
      <3>6. PutAside(d, x)' \in 0 .. 1 /\ reads'[<<d, x>>] \in Nat
        BY <1>1, <1>2, <2>3, <3>3 DEF PutAside, One
      <3>7. AtLower(d, x)' = AtLower(d, x) /\ Forgotten(d, x)' = Forgotten(d, x)
        BY <1>3
      <3>8. Events(d, x)' + reads'[<<d, x>>] + AtLower(d, x) + responses[<<d, x>>] + PutAside(d, x)'
              + Forgotten(d, x) = HasEntry(d, x)
        BY <2>1, <3>2, <3>3, <3>5, <3>6 DEF ServedOf
      <3>9. QED
        BY <2>1, <3>7, <3>8 DEF ServedOf
    <2>4. QED
      BY <2>2, <2>3
  <1>6. QED
    BY <1>1, <1>4, <1>5 DEF ServedInv

(* When the request is added again, the entry may have gone.               *)
LEMMA ServedAddAgain ==
  ASSUME CacheTypes, AccountInv, ServedInv, NEW c \in Caches, AddAgain(c) PROVE ServedInv'
  <1>0. PICK i \in Ids : i = again[c]
    BY DEF AddAgain, CacheTypes
  <1> DEFINE b == program[i].block
             cb == <<c, b>>
  <1>1. /\ program' = program /\ finished' = finished /\ queued' = queued
        /\ UNCHANGED <<mshr2, state2, todo, reads, responses, waiting>>
        /\ IF Entry(c, b) = {}
           THEN held' = [held EXCEPT ![i] = @ + 1] /\ lost' = lost \cup {cb}
           ELSE UNCHANGED <<held, lost>>
    BY <1>0 DEF AddAgain, level2, lines2
  <1>2. program[i].cache = c /\ held \in [Ids -> Nat] /\ b \in Blocks
    BY <1>0, AccountParts, RequestTypes DEF AgainOf, CacheTypes
  <1>3. \A d \in Caches, x \in Blocks : AtLower(d, x)' = AtLower(d, x) /\ PutAside(d, x)' = PutAside(d, x)
                                        /\ Events(d, x)' = Events(d, x)
    BY <1>1, SameEvents DEF AtLower, InLower, AtHand, PutAside
  <1>4. NoReadOfValid'
    BY <1>1, <1>3 DEF ServedInv, NoReadOfValid
  <1>5. ASSUME NEW d \in Caches \ finished, NEW x \in Blocks PROVE ServedOf(d, x)'
    <2>1. ServedOf(d, x) /\ reads'[<<d, x>>] = reads[<<d, x>>] /\ responses'[<<d, x>>] = responses[<<d, x>>]
          /\ AtLower(d, x)' = AtLower(d, x) /\ PutAside(d, x)' = PutAside(d, x)
          /\ Events(d, x)' = Events(d, x)
      BY <1>1, <1>3 DEF ServedInv
    <2>2. /\ Events(d, x) \in Nat
          /\ reads[<<d, x>>] \in Nat /\ AtLower(d, x) \in Nat /\ responses[<<d, x>>] \in Nat
          /\ PutAside(d, x) \in 0 .. 1 /\ Forgotten(d, x) \in 0 .. 1 /\ HasEntry(d, x) \in 0 .. 1
      BY ServedTypes
    <2>3. CASE Entry(c, b) # {}
      <3>1. HasEntry(d, x)' = HasEntry(d, x) /\ Forgotten(d, x)' = Forgotten(d, x)
        BY <1>1, <2>3, SameEntry DEF Forgotten
      <3>2. QED
        BY <2>1, <3>1 DEF ServedOf
    <2>4. CASE <<d, x>> # cb /\ Entry(c, b) = {}
      <3>1. HasEntry(d, x)' = HasEntry(d, x)
        BY <1>1, <1>2, <2>4, SameEntry
      <3>2. Forgotten(d, x)' = Forgotten(d, x)
        BY <1>1, <2>4 DEF Forgotten
      <3>3. QED
        BY <2>1, <3>1, <3>2 DEF ServedOf
    <2>5. CASE d = c /\ x = b /\ Entry(c, b) = {}
      <3>1. HasEntry(d, x) = 0
        BY <2>5 DEF HasEntry, One
      <3>2. i \in Entry(d, x)'
        BY <1>1, <1>2, <2>5 DEF Entry
      <3>3. HasEntry(d, x)' = 1
        BY <3>2 DEF HasEntry, One
      <3>4. Forgotten(d, x)' = 1
        BY <1>1, <2>5 DEF Forgotten, One
      <3>5. Forgotten(d, x) = 0
        BY <2>1, <2>2, <3>1 DEF ServedOf
      <3>6. QED
        BY <2>1, <2>2, <3>1, <3>3, <3>4, <3>5 DEF ServedOf
    <2>6. QED
      BY <2>3, <2>4, <2>5
  <1>6. QED
    BY <1>1, <1>4, <1>5 DEF ServedInv

(* An entry is removed whole, and no other.                                *)
LEMMA EntryRemoved ==
  ASSUME CacheTypes, NEW c, NEW b, program' = program, held' = Removed(Entry(c, b))
  PROVE  /\ HasEntry(c, b)' = 0
         /\ \A d, x : <<d, x>> # <<c, b>> => HasEntry(d, x)' = HasEntry(d, x)
  <1>1. held \in [Ids -> Nat]
    BY DEF CacheTypes
  <1>2. \A j \in Ids : held'[j] = IF j \in Entry(c, b) THEN 0 ELSE held[j]
    BY DEF Removed
  <1>3. Entry(c, b)' = {}
    BY <1>1, <1>2 DEF Entry
  <1>4. HasEntry(c, b)' = 0
    BY <1>3 DEF HasEntry, One
  <1>5. ASSUME NEW d, NEW x, <<d, x>> # <<c, b>> PROVE HasEntry(d, x)' = HasEntry(d, x)
    <2>1. \A j \in Ids : program[j].cache = d /\ program[j].block = x => held'[j] = held[j]
      BY <1>2, <1>5 DEF Entry
    <2>2. QED
      BY <2>1, SameEntry
  <1>6. QED
    BY <1>4, <1>5

(* A hit takes the event of the entry.                                     *)
LEMMA ServedHit ==
  ASSUME CacheTypes, AccountInv, ServedInv, NEW i \in Ids, HandleHit(i) PROVE ServedInv'
  <1> DEFINE c == program[i].cache
             b == program[i].block
  <1>1. /\ program' = program /\ finished' = finished /\ UNCHANGED <<mshr2, state2, link>>
        /\ i \in queued /\ queued' = queued \ {i} /\ c \notin finished
        /\ held' = Removed(Entry(c, b))
    BY DEF HandleHit, Idle, sp, level2, lines2
  <1>2. HandSame
    <2>1. PICK s : /\ OnlyWrites(s, {c}) /\ todo' = [todo EXCEPT ![c] = s] /\ todo[c] = <<>>
      BY HandleHitWrites
    <2>2. QED
      BY <2>1, HandWrites, RequestTypes
  <1>3. (\A d \in Caches, x \in Blocks : LowerStays(d, x)) /\ NoReadOfValid'
    BY <1>1, <1>2, LinkStays DEF ServedInv
  <1>4. ASSUME NEW d \in Caches \ finished, NEW x \in Blocks PROVE ServedOf(d, x)'
    <2>1. ServedOf(d, x) /\ LowerStays(d, x)
      BY <1>3 DEF ServedInv
    <2>2. CASE <<d, x>> # <<c, b>>
      <3>1. Events(d, x)' = Events(d, x) /\ HasEntry(d, x)' = HasEntry(d, x)
        BY <1>1, <2>2, SameEvents, EntryRemoved
      <3>2. QED
        BY <2>1, <3>1 DEF ServedOf, LowerStays
    <2>3. CASE d = c /\ x = b
      <3>1. Events(d, x)' = Events(d, x) - 1 /\ Events(d, x) > 0
        BY <1>1, <2>3, EventChange
      <3>2. HasEntry(d, x)' = 0
        BY <1>1, <2>3, EntryRemoved
      <3>3. /\ Events(d, x) \in Nat
            /\ reads[<<d, x>>] \in Nat /\ AtLower(d, x) \in Nat /\ responses[<<d, x>>] \in Nat
            /\ PutAside(d, x) \in 0 .. 1 /\ Forgotten(d, x) \in 0 .. 1 /\ HasEntry(d, x) \in 0 .. 1
        BY ServedTypes
      <3>4. QED
        BY <2>1, <3>1, <3>2, <3>3 DEF ServedOf, LowerStays
    <2>4. QED
      BY <2>2, <2>3
  <1>5. QED
    BY <1>1, <1>3, <1>4 DEF ServedInv

(* A response is what an entry waited for.                                 *)
LEMMA ServedRespond ==
  ASSUME CacheTypes, AccountInv, ServedInv, NEW c \in Caches, NEW b \in Blocks, Respond(c, b)
  PROVE  ServedInv'
  <1> DEFINE cb == <<c, b>>
  <1>1. /\ program' = program /\ finished' = finished /\ UNCHANGED <<mshr2, state2, queued, reads, waiting, lost>>
        /\ responses[cb] > 0 /\ responses' = [responses EXCEPT ![cb] = @ - 1]
        /\ held' = Removed(Entry(c, b))
    BY DEF Respond, sp, level2, lines2
  <1>2. responses \in [Caches \X Blocks -> Nat] /\ cb \in Caches \X Blocks
    BY DEF CacheTypes
  <1>7. HandSame
    <2>1. PICK s : /\ OnlyWrites(s, IF Entry(c, b) = {} THEN {thread0} ELSE {c})
                   /\ todo' = [todo EXCEPT ![thread0] = s] /\ Idle(thread0)
      BY RespondWrites
    <2>2. QED
      BY <2>1, HandWrites, CacheAssumption DEF Idle
  <1>3. \A d \in Caches, x \in Blocks :
          /\ AtLower(d, x)' = AtLower(d, x) /\ Events(d, x)' = Events(d, x)
          /\ PutAside(d, x)' = PutAside(d, x) /\ Forgotten(d, x)' = Forgotten(d, x)
    BY <1>1, <1>7, SameEvents DEF HandSame, AtLower, InLower, PutAside, Forgotten, One
  <1>4. NoReadOfValid'
    BY <1>1, <1>3 DEF ServedInv, NoReadOfValid
  <1>5. ASSUME NEW d \in Caches \ finished, NEW x \in Blocks PROVE ServedOf(d, x)'
    <2>1. /\ ServedOf(d, x) /\ reads'[<<d, x>>] = reads[<<d, x>>]
          /\ AtLower(d, x)' = AtLower(d, x) /\ Events(d, x)' = Events(d, x)
          /\ PutAside(d, x)' = PutAside(d, x) /\ Forgotten(d, x)' = Forgotten(d, x)
      BY <1>1, <1>3 DEF ServedInv
    <2>2. CASE <<d, x>> # cb
      <3>1. HasEntry(d, x)' = HasEntry(d, x)
        BY <1>1, <2>2, EntryRemoved
      <3>2. responses'[<<d, x>>] = responses[<<d, x>>]
        BY <1>1, <1>2, <2>2
      <3>3. QED
        BY <2>1, <3>1, <3>2 DEF ServedOf
    <2>3. CASE d = c /\ x = b
      <3>1. responses'[<<d, x>>] = responses[<<d, x>>] - 1 /\ responses[<<d, x>>] > 0
        BY <1>1, <1>2, <2>3
      <3>2. HasEntry(d, x)' = 0
        BY <1>1, <2>3, EntryRemoved
      <3>3. /\ Events(d, x) \in Nat
            /\ reads[<<d, x>>] \in Nat /\ AtLower(d, x) \in Nat /\ responses[<<d, x>>] \in Nat
            /\ PutAside(d, x) \in 0 .. 1 /\ Forgotten(d, x) \in 0 .. 1 /\ HasEntry(d, x) \in 0 .. 1
        BY ServedTypes
      <3>4. QED
        BY <2>1, <3>1, <3>2, <3>3 DEF ServedOf
    <2>4. QED
      BY <2>2, <2>3
  <1>6. QED
    BY <1>1, <1>4, <1>5 DEF ServedInv

(* What L2 had outstanding is forgotten, and known to be.                  *)
LEMMA ServedClear ==
  ASSUME CacheTypes, AccountInv, ServedInv, NEW c \in Caches, Clear(c) PROVE ServedInv'
  <1>1. /\ program' = program /\ finished' = finished \cup {c}
        /\ UNCHANGED <<queued, state2, todo, reads, waiting, responses>>
        /\ held' = [i \in Ids |-> IF program[i].cache = c THEN 0 ELSE held[i]]
        /\ mshr2' = [b \in Blocks |-> <<>>]
        /\ lost' = lost \cup {cb \in Caches \X Blocks : Times(cb[1], mshr2[cb[2]]) > 0}
    BY DEF Clear, lines2
  <1>2. ASSUME NEW d \in Caches, NEW x \in Blocks
        PROVE  /\ AtLower(d, x) = InLower(d, x) + One(AtHand(d, x)) /\ One(AtHand(d, x)) \in 0 .. 1
               /\ AtLower(d, x)' = One(AtHand(d, x)) /\ InLower(d, x) \in Nat
    <2>1. InLower(d, x)' = 0 /\ (AtHand(d, x)' <=> AtHand(d, x))
      BY <1>1, TimesEmpty DEF InLower, AtHand
    <2>2. InLower(d, x) \in Nat
      BY ServedTypes
    <2>3. QED
      BY <2>1, <2>2 DEF AtLower, One
  <1>3. NoReadOfValid'
    <2>1. ASSUME NEW d \in Caches, NEW x \in Blocks, AtLower(d, x) = 0 PROVE AtLower(d, x)' = 0
      BY <1>2, <2>1
    <2>2. QED
      BY <1>1, <2>1 DEF NoReadOfValid, ServedInv
  <1>4. ASSUME NEW d \in Caches \ finished', NEW x \in Blocks PROVE ServedOf(d, x)'
    <2>1. d \in Caches \ finished /\ d # c
      BY <1>1
    <2>2. ServedOf(d, x) /\ reads'[<<d, x>>] = reads[<<d, x>>] /\ responses'[<<d, x>>] = responses[<<d, x>>]
          /\ PutAside(d, x)' = PutAside(d, x) /\ Events(d, x)' = Events(d, x)
      BY <1>1, <2>1, SameEvents DEF ServedInv, PutAside
    <2>3. HasEntry(d, x)' = HasEntry(d, x)
      BY <1>1, <2>1, SameEntry
    <2>4. /\ Events(d, x) \in Nat
          /\ reads[<<d, x>>] \in Nat /\ AtLower(d, x) \in Nat /\ responses[<<d, x>>] \in Nat
          /\ PutAside(d, x) \in 0 .. 1 /\ Forgotten(d, x) \in 0 .. 1 /\ HasEntry(d, x) \in 0 .. 1
      BY <2>1, ServedTypes
    <2>5. <<d, x>> \in lost' <=> <<d, x>> \in lost \/ InLower(d, x) > 0
      BY <1>1, <2>1 DEF InLower
    <2>6. Forgotten(d, x)' = IF InLower(d, x) > 0 THEN 1 ELSE Forgotten(d, x)
      BY <2>5 DEF Forgotten, One
    <2>7. /\ AtLower(d, x) = InLower(d, x) + One(AtHand(d, x)) /\ One(AtHand(d, x)) \in 0 .. 1
          /\ AtLower(d, x)' = One(AtHand(d, x)) /\ InLower(d, x) \in Nat
      BY <1>2, <2>1
    <2>8. CASE InLower(d, x) > 0
      <3>1. InLower(d, x) = 1 /\ One(AtHand(d, x)) = 0 /\ Forgotten(d, x) = 0
        BY <2>2, <2>4, <2>7, <2>8 DEF ServedOf
      <3>2. QED
        BY <2>2, <2>3, <2>4, <2>6, <2>7, <2>8, <3>1 DEF ServedOf
    <2>9. CASE ~(InLower(d, x) > 0)
      <3>1. AtLower(d, x)' = AtLower(d, x) /\ Forgotten(d, x)' = Forgotten(d, x)
        BY <2>6, <2>7, <2>9
      <3>2. QED
        BY <2>2, <2>3, <3>1 DEF ServedOf
    <2>10. QED
      BY <2>8, <2>9
  <1>5. QED
    BY <1>3, <1>4 DEF ServedInv

(* A miss of L2: the event is in the hands of the thread.                  *)
LEMMA Miss2Effect ==
  ASSUME CacheTypes, NEW t \in Caches, NEW e \in Caches \cup {Write}, NEW b \in Blocks,
         e # Write => t = thread0, Idle(t), Miss2(t, e, b)
  PROVE  /\ \A d \in Caches, x \in Blocks :
              AtLower(d, x)' = AtLower(d, x) + (IF d = e /\ x = b THEN 1 ELSE 0)
         /\ NoReadOfValid => NoReadOfValid'
  <1>1. mshr2' = mshr2 /\ UNCHANGED state2 /\ state2[b] = "INVALID"
    BY LowerHandlers DEF lines2
  <1>2. ASSUME NEW d \in Caches, NEW x \in Blocks
        PROVE  AtLower(d, x)' = AtLower(d, x) + (IF d = e /\ x = b THEN 1 ELSE 0)
    <2>1. One(AtHand(d, x))' = One(AtHand(d, x)) + (IF d = e /\ x = b THEN 1 ELSE 0)
      BY HandMiss
    <2>2. InLower(d, x)' = InLower(d, x) /\ InLower(d, x) \in Nat /\ One(AtHand(d, x)) \in Nat
      BY <1>1, ServedTypes DEF InLower, One
    <2>3. QED
      BY <2>1, <2>2 DEF AtLower
  <1>3. ASSUME NoReadOfValid PROVE NoReadOfValid'
    <2>1. \A x \in Blocks : state2'[x] # "INVALID" => \A d \in Caches : AtLower(d, x) = 0 /\ x # b
      BY <1>1, <1>3 DEF NoReadOfValid
    <2>2. QED
      BY <1>2, <2>1 DEF NoReadOfValid
  <1>4. QED
    BY <1>2, <1>3

(* A hit in L2 answers the read of an empty entry, and forgets another.    *)
LEMMA AvailableEffect ==
  ASSUME CacheTypes, NoReadOfValid, NEW e \in Caches \cup {Write}, NEW b \in Blocks,
         Available(e, b), UNCHANGED todo
  PROVE  /\ \A d \in Caches, x \in Blocks : AtLower(d, x)' = AtLower(d, x)
         /\ \A d \in Caches, x \in Blocks :
              /\ ~(d = e /\ x = b) => responses'[<<d, x>>] = responses[<<d, x>>]
                                      /\ Forgotten(d, x)' = Forgotten(d, x)
              /\ d = e /\ x = b =>
                   \/ responses'[<<d, x>>] = responses[<<d, x>>] + 1
                      /\ Forgotten(d, x)' = Forgotten(d, x)
                   \/ responses'[<<d, x>>] = responses[<<d, x>>] /\ Forgotten(d, x)' = 1
  <1> DEFINE T == Caches \cup {Write}
             entry == mshr2[b]
             became == IF entry = <<>> THEN e ELSE Head(entry)
             list == Append(entry, became)
  <1>1. /\ state2[b] # "INVALID" /\ mshr2' = [mshr2 EXCEPT ![b] = <<>>]
        /\ Answered(list, b)
        /\ lost' = IF e # Write /\ Times(e, list) = 0 THEN lost \cup {<<e, b>>} ELSE lost
    BY DEF Available, Removed2
  <1>2. mshr2 \in [Blocks -> Seq(T)] /\ entry \in Seq(T) /\ e \in T
    BY DEF CacheTypes
  <1>3. \A d \in Caches : Times(d, entry) = 0 /\ d # Write
    <2>1. \A d \in Caches : AtLower(d, b) = 0 /\ InLower(d, b) \in Nat /\ One(AtHand(d, b)) \in Nat
      BY <1>1, ServedTypes DEF NoReadOfValid, One
    <2>2. QED
      BY <2>1, CacheAssumption DEF AtLower, InLower
  <1>4. became \in T /\ \A d \in Caches : became = d <=> entry = <<>> /\ d = e
    <2>1. CASE entry = <<>>
      BY <1>2, <2>1
    <2>2. CASE entry # <<>>
      <3> HIDE DEF T, entry
      <3>1. Head(entry) \in T
        BY <1>2, <2>2
      <3>2. \A d \in Caches : Head(entry) # d
        BY <1>2, <1>3, <2>2, TimesHead
      <3>3. QED
        BY <2>2, <3>1, <3>2
    <2>3. QED
      BY <2>1, <2>2
  <1>5. /\ list \in Seq(T)
        /\ \A d \in Caches : Times(d, list) = IF entry = <<>> /\ d = e THEN 1 ELSE 0
    <2> HIDE DEF T, entry, became
    <2>1. list \in Seq(T)
      BY <1>2, <1>4
    <2>2. ASSUME NEW d \in Caches PROVE Times(d, list) = IF entry = <<>> /\ d = e THEN 1 ELSE 0
      <3>1. Times(d, list) = Times(d, entry) + (IF became = d THEN 1 ELSE 0)
        BY <1>2, <1>4, TimesAppend
      <3>2. QED
        BY <1>3, <1>4, <3>1
    <2>3. QED
      BY <2>1, <2>2
  <1>6. \A d \in Caches, x \in Blocks :
          responses'[<<d, x>>] = responses[<<d, x>>] + (IF x = b THEN Times(d, list) ELSE 0)
    <2> HIDE DEF list
    <2>1. list \in Seq(Caches \cup {Write})
      BY <1>5
    <2>2. QED
      BY <1>1, <2>1, AnsweredTypes
  <1>7. \A d \in Caches, x \in Blocks : responses[<<d, x>>] \in Nat
    BY DEF CacheTypes
  <1>8. ASSUME NEW d \in Caches, NEW x \in Blocks PROVE AtLower(d, x)' = AtLower(d, x)
    <2>1. AtHand(d, x)' <=> AtHand(d, x)
      BY DEF AtHand
    <2>2. InLower(d, x)' = InLower(d, x)
      <3>1. CASE x = b
        BY <1>1, <1>2, <1>3, <3>1, TimesEmpty DEF InLower
      <3>2. CASE x # b
        BY <1>1, <1>2, <3>2 DEF InLower
      <3>3. QED
        BY <3>1, <3>2
    <2>3. QED
      BY <2>1, <2>2 DEF AtLower, One
  <1>9. ASSUME NEW d \in Caches, NEW x \in Blocks, ~(d = e /\ x = b)
        PROVE  responses'[<<d, x>>] = responses[<<d, x>>] /\ Forgotten(d, x)' = Forgotten(d, x)
    <2>1. responses'[<<d, x>>] = responses[<<d, x>>] + 0
      BY <1>5, <1>6, <1>9
    <2>2. Forgotten(d, x)' = Forgotten(d, x)
      BY <1>1, <1>9 DEF Forgotten
    <2>3. QED
      BY <1>7, <2>1, <2>2
  <1>10. ASSUME NEW d \in Caches, NEW x \in Blocks, d = e, x = b
         PROVE  \/ responses'[<<d, x>>] = responses[<<d, x>>] + 1 /\ Forgotten(d, x)' = Forgotten(d, x)
                \/ responses'[<<d, x>>] = responses[<<d, x>>] /\ Forgotten(d, x)' = 1
    <2>1. CASE entry = <<>>
      <3>1. Times(d, list) = 1
        BY <1>5, <1>10, <2>1
      <3>2. lost' = lost
        BY <1>1, <1>10, <3>1
      <3>3. QED
        BY <1>6, <1>10, <3>1, <3>2 DEF Forgotten
    <2>2. CASE entry # <<>>
      <3>1. Times(d, list) = 0
        BY <1>5, <1>10, <2>2
      <3>2. <<d, x>> \in lost'
        BY <1>1, <1>3, <1>10, <3>1
      <3>3. Forgotten(d, x)' = 1
        BY <3>2 DEF Forgotten, One
      <3>4. QED
        BY <1>6, <1>7, <1>10, <3>1, <3>3
    <2>3. QED
      BY <2>1, <2>2
  <1>11. QED
    BY <1>8, <1>9, <1>10

(* L2 handles a read.                                                      *)
LEMMA ServedRead2 ==
  ASSUME CacheTypes, ServedInv, NEW c \in Caches, NEW b \in Blocks, HandleRead2(c, b)
  PROVE  ServedInv'
  <1> DEFINE cb == <<c, b>>
  <1>1. /\ UNCHANGED <<program, finished, held, queued, waiting>>
        /\ reads[cb] > 0 /\ reads' = [reads EXCEPT ![cb] = @ - 1]
        /\ \/ Available(c, b) /\ UNCHANGED <<state2, todo>>
           \/ Miss2(thread0, c, b) /\ UNCHANGED <<responses, lost>>
        /\ Idle(thread0) /\ thread0 \in Caches
    BY CacheAssumption DEF HandleRead2, Miss2, Running, sp, level1
  <1>2. reads \in [Caches \X Blocks -> Nat] /\ cb \in Caches \X Blocks
    BY DEF CacheTypes
  <1>3. NoReadOfValid'
    <2>1. CASE Available(c, b) /\ UNCHANGED <<state2, todo>>
      BY <2>1, AvailableEffect DEF ServedInv, NoReadOfValid
    <2>2. CASE Miss2(thread0, c, b)
      BY <1>1, <2>2, Miss2Effect DEF ServedInv
    <2>3. QED
      BY <1>1, <2>1, <2>2
  <1>4. ASSUME NEW d \in Caches \ finished, NEW x \in Blocks PROVE ServedOf(d, x)'
    <2>1. /\ ServedOf(d, x) /\ Events(d, x)' = Events(d, x) /\ PutAside(d, x)' = PutAside(d, x)
          /\ HasEntry(d, x)' = HasEntry(d, x)
      BY <1>1, SameEvents, SameEntry DEF ServedInv, PutAside
    <2>2. /\ Events(d, x) \in Nat
          /\ reads[<<d, x>>] \in Nat /\ AtLower(d, x) \in Nat /\ responses[<<d, x>>] \in Nat
          /\ PutAside(d, x) \in 0 .. 1 /\ Forgotten(d, x) \in 0 .. 1 /\ HasEntry(d, x) \in 0 .. 1
      BY ServedTypes
    <2>3. CASE ~(d = c /\ x = b)
      <3>1. reads'[<<d, x>>] = reads[<<d, x>>]
        BY <1>1, <1>2, <2>3
      <3>2. /\ AtLower(d, x)' = AtLower(d, x) /\ responses'[<<d, x>>] = responses[<<d, x>>]
            /\ Forgotten(d, x)' = Forgotten(d, x)
        <4>1. CASE Available(c, b) /\ UNCHANGED todo
          BY <2>3, <4>1, AvailableEffect DEF ServedInv
        <4>2. CASE Miss2(thread0, c, b) /\ UNCHANGED <<responses, lost>>
          BY <1>1, <2>2, <2>3, <4>2, Miss2Effect DEF Forgotten
        <4>3. QED
          BY <1>1, <4>1, <4>2
      <3>3. QED
        BY <2>1, <3>1, <3>2 DEF ServedOf
    <2>4. CASE d = c /\ x = b
      <3>1. reads'[<<d, x>>] = reads[<<d, x>>] - 1 /\ reads[<<d, x>>] > 0
        BY <1>1, <1>2, <2>4
      <3>2. Forgotten(d, x) = 0
        BY <2>1, <2>2, <3>1 DEF ServedOf
      <3>3. CASE Available(c, b) /\ UNCHANGED todo
        <4>1. /\ AtLower(d, x)' = AtLower(d, x)
              /\ \/ responses'[<<d, x>>] = responses[<<d, x>>] + 1
                    /\ Forgotten(d, x)' = Forgotten(d, x)
                 \/ responses'[<<d, x>>] = responses[<<d, x>>] /\ Forgotten(d, x)' = 1
          BY <2>4, <3>3, AvailableEffect DEF ServedInv
        <4>2. QED
          BY <2>1, <2>2, <3>1, <3>2, <4>1 DEF ServedOf
      <3>4. CASE Miss2(thread0, c, b) /\ UNCHANGED <<responses, lost>>
        <4>1. AtLower(d, x)' = AtLower(d, x) + 1
          BY <1>1, <2>4, <3>4, Miss2Effect
        <4>2. Forgotten(d, x)' = Forgotten(d, x) /\ responses'[<<d, x>>] = responses[<<d, x>>]
          BY <3>4 DEF Forgotten
        <4>3. QED
          BY <2>1, <2>2, <3>1, <4>1, <4>2 DEF ServedOf
      <3>5. QED
        BY <1>1, <3>3, <3>4
    <2>5. QED
      BY <2>3, <2>4
  <1>5. QED
    BY <1>1, <1>3, <1>4 DEF ServedInv

(* L2 handles a write: no cache waits for it.                              *)
LEMMA ServedWrite2 ==
  ASSUME CacheTypes, ServedInv, NEW t \in Caches, NEW b \in Blocks, HandleWrite2(t, b)
  PROVE  ServedInv'
  <1>1. /\ UNCHANGED <<program, finished, held, queued, waiting, reads>>
        /\ \/ Available(Write, b) /\ state2' = [state2 EXCEPT ![b] = "MODIFIED"] /\ UNCHANGED todo
           \/ Miss2(t, Write, b) /\ UNCHANGED <<responses, lost>>
        /\ Idle(t)
    BY DEF HandleWrite2, Miss2, sp, level1
  <1>2. \A d \in Caches, x \in Blocks :
          /\ AtLower(d, x)' = AtLower(d, x) /\ responses'[<<d, x>>] = responses[<<d, x>>]
          /\ Forgotten(d, x)' = Forgotten(d, x)
    <2>1. \A d \in Caches : d # Write
      BY CacheAssumption
    <2>2. CASE Available(Write, b) /\ UNCHANGED todo
      BY <2>1, <2>2, AvailableEffect DEF ServedInv
    <2>3. CASE Miss2(t, Write, b) /\ UNCHANGED <<responses, lost>>
      <3>1. \A d \in Caches, x \in Blocks : AtLower(d, x) \in Nat
        BY ServedTypes
      <3>2. QED
        BY <1>1, <2>1, <2>3, <3>1, Miss2Effect DEF Forgotten
    <2>4. QED
      BY <1>1, <2>2, <2>3
  <1>3. NoReadOfValid'
    <2>1. CASE Available(Write, b) /\ state2' = [state2 EXCEPT ![b] = "MODIFIED"]
      <3>1. state2[b] # "INVALID" /\ state2 \in [Blocks -> MESI]
        BY <2>1 DEF Available, CacheTypes
      <3>2. \A x \in Blocks : state2'[x] # "INVALID" => state2[x] # "INVALID"
        BY <2>1, <3>1
      <3>3. QED
        BY <1>2, <3>2 DEF ServedInv, NoReadOfValid
    <2>2. CASE Miss2(t, Write, b)
      BY <1>1, <2>2, Miss2Effect DEF ServedInv
    <2>3. QED
      BY <1>1, <2>1, <2>2
  <1>4. ASSUME NEW d \in Caches \ finished, NEW x \in Blocks PROVE ServedOf(d, x)'
    <2>1. /\ ServedOf(d, x) /\ Events(d, x)' = Events(d, x) /\ PutAside(d, x)' = PutAside(d, x)
          /\ HasEntry(d, x)' = HasEntry(d, x) /\ reads'[<<d, x>>] = reads[<<d, x>>]
      BY <1>1, SameEvents, SameEntry DEF ServedInv, PutAside
    <2>2. QED
      BY <1>2, <2>1 DEF ServedOf
  <1>5. QED
    BY <1>1, <1>3, <1>4 DEF ServedInv

(* The memory answers L2, and L2 what it has outstanding.                  *)
LEMMA ServedRespond2 ==
  ASSUME CacheTypes, ServedInv, NEW b \in Blocks, Respond2(b)
  PROVE  ServedInv'
  <1>1. /\ UNCHANGED <<program, finished, held, queued, waiting, reads, lost, todo>>
        /\ mshr2' = [mshr2 EXCEPT ![b] = <<>>]
        /\ state2' = Filled(state2, Evicted(state2, used2, Ways2, b), b, "EXCLUSIVE")
        /\ Answered(mshr2[b], b)
    BY DEF Respond2, Removed2, sp, level1
  <1>8. \A d \in Caches, x \in Blocks : /\ ~AtHand(d, x) /\ ~AtHand(d, x)'
                                        /\ AtLower(d, x) = InLower(d, x) /\ AtLower(d, x)' = InLower(d, x)'
    <2>1. todo[thread0] = <<>> /\ todo'[thread0] = <<>>
      BY <1>1 DEF Respond2, Running, Idle
    <2>2. \A d \in Caches, x \in Blocks : ~AtHand(d, x) /\ ~AtHand(d, x)'
      BY <2>1 DEF AtHand
    <2>3. \A d \in Caches, x \in Blocks : InLower(d, x) \in Nat
      BY ServedTypes
    <2>4. ASSUME NEW d \in Caches, NEW x \in Blocks PROVE InLower(d, x)' \in Nat
      <3>1. mshr2'[x] = IF x = b THEN <<>> ELSE mshr2[x]
        BY <1>1 DEF CacheTypes
      <3>2. QED
        BY <2>3, <3>1, TimesEmpty DEF InLower
    <2>5. QED
      BY <2>2, <2>3, <2>4 DEF AtLower, One
  <1>2. mshr2 \in [Blocks -> Seq(Caches \cup {Write})] /\ state2 \in [Blocks -> MESI]
    BY DEF CacheTypes
  <1>3. \A d \in Caches, x \in Blocks :
          responses'[<<d, x>>] = responses[<<d, x>>] + (IF x = b THEN AtLower(d, b) ELSE 0)
    <2>1. mshr2[b] \in Seq(Caches \cup {Write})
      BY <1>2
    <2>2. \A d \in Caches, x \in Blocks :
            responses'[<<d, x>>] = responses[<<d, x>>] + (IF x = b THEN Times(d, mshr2[b]) ELSE 0)
      BY <1>1, <2>1, AnsweredTypes
    <2>3. \A d \in Caches : AtLower(d, b) = Times(d, mshr2[b])
      BY <1>8 DEF InLower
    <2>4. QED
      BY <2>2, <2>3
  <1>4. ASSUME NEW d \in Caches, NEW x \in Blocks
        PROVE  AtLower(d, x)' = IF x = b THEN 0 ELSE AtLower(d, x)
    <2>1. mshr2'[x] = IF x = b THEN <<>> ELSE mshr2[x]
      BY <1>1, <1>2
    <2>2. QED
      BY <1>8, <2>1, TimesEmpty DEF InLower
  <1>5. NoReadOfValid'
    <2>1. \A x \in Blocks : x # b /\ state2'[x] # "INVALID" => state2[x] # "INVALID"
      BY <1>1 DEF Filled
    <2>2. QED
      BY <1>4, <2>1 DEF ServedInv, NoReadOfValid
  <1>6. ASSUME NEW d \in Caches \ finished, NEW x \in Blocks PROVE ServedOf(d, x)'
    <2>1. /\ ServedOf(d, x) /\ Events(d, x)' = Events(d, x) /\ PutAside(d, x)' = PutAside(d, x)
          /\ HasEntry(d, x)' = HasEntry(d, x) /\ reads'[<<d, x>>] = reads[<<d, x>>]
          /\ Forgotten(d, x)' = Forgotten(d, x)
      BY <1>1, SameEvents, SameEntry DEF ServedInv, PutAside, Forgotten
    <2>2. /\ Events(d, x) \in Nat
          /\ reads[<<d, x>>] \in Nat /\ AtLower(d, x) \in Nat /\ responses[<<d, x>>] \in Nat
          /\ PutAside(d, x) \in 0 .. 1 /\ Forgotten(d, x) \in 0 .. 1 /\ HasEntry(d, x) \in 0 .. 1
      BY ServedTypes
    <2>3. AtLower(d, x)' + responses'[<<d, x>>] = AtLower(d, x) + responses[<<d, x>>]
          /\ AtLower(d, x)' \in Nat /\ responses'[<<d, x>>] \in Nat
      BY <1>3, <1>4, <2>2
    <2>4. QED
      BY <2>1, <2>2, <2>3 DEF ServedOf
  <1>7. QED
    BY <1>1, <1>5, <1>6 DEF ServedInv

(* A thread looks for an entry of L2, makes one or joins one: the reads of *)
(* an entry that is replaced, and one that joins an entry that has gone,   *)
(* are forgotten, and known to be.                                         *)
LEMMA Add2Effect ==
  ASSUME CacheTypes, NEW t \in Caches, Look2(t) \/ Put2(t) \/ Join2(t),
         NEW d \in Caches, NEW x \in Blocks
  PROVE  /\ AtLower(d, x) = 0 => AtLower(d, x)' = 0
         /\ AtLower(d, x) + Forgotten(d, x) <= 1
              => AtLower(d, x)' + Forgotten(d, x)' = AtLower(d, x) + Forgotten(d, x)
                 /\ AtLower(d, x)' \in Nat /\ Forgotten(d, x)' \in Nat
  <1> DEFINE a == Head(todo[t])
             e == a.what
             b == a.block
             T == Caches \cup {Write}
  <1>1. todo[t] # <<>>
    BY DEF Look2, Put2, Join2
  <1>3. /\ AtLower(d, x) = InLower(d, x) + One(AtHand(d, x)) /\ InLower(d, x) \in Nat
        /\ One(AtHand(d, x)) \in 0 .. 1 /\ Forgotten(d, x) \in 0 .. 1 /\ Forgotten(d, x)' \in 0 .. 1
        /\ AtLower(d, x)' = InLower(d, x)' + One(AtHand(d, x))'
        /\ One(AtHand(d, x))' \in 0 .. 1
    <2>1. InLower(d, x) \in Nat /\ Forgotten(d, x) \in 0 .. 1
      BY ServedTypes
    <2>2. /\ One(AtHand(d, x)) \in 0 .. 1 /\ One(AtHand(d, x))' \in 0 .. 1
          /\ Forgotten(d, x)' \in 0 .. 1
      BY DEF One, Forgotten
    <2>3. QED
      BY <2>1, <2>2 DEF AtLower
  <1>4. mshr2 \in [Blocks -> Seq(T)]
    BY DEF CacheTypes
  <1>5. CASE Look2(t)
    <2>1. /\ \A u \in Caches : u # t => todo'[u] = todo[u]
          /\ todo[t] # <<>> /\ todo'[t] # <<>> /\ Head(todo[t]) = todo[t][1]
          /\ Head(todo'[t]) = todo'[t][1] /\ 1 \in DOMAIN todo[t]
          /\ todo'[t][1].what = todo[t][1].what /\ todo'[t][1].block = todo[t][1].block
      BY <1>5, TodoLook
    <2>2. thread0 \in Caches
      BY CacheAssumption
    <2>3. AtHand(d, x)' <=> AtHand(d, x)
      BY <2>1, <2>2 DEF AtHand
    <2>4. InLower(d, x)' = InLower(d, x) /\ Forgotten(d, x)' = Forgotten(d, x)
      BY <1>5 DEF Look2, level2, link, InLower, Forgotten
    <2>5. One(AtHand(d, x))' = One(AtHand(d, x))
      BY <2>3 DEF One
    <2>6. QED
      BY <1>3, <2>4, <2>5
  <1>6. ASSUME todo' = [todo EXCEPT ![t] = Tail(@)]
        PROVE  /\ One(AtHand(d, x)) = One(AtHand(d, x))' + (IF d = e /\ x = b THEN 1 ELSE 0)
               /\ e \in T /\ b \in Blocks /\ d # Write
    <2>1. One(AtHand(d, x)) = One(AtHand(d, x))' + (IF d = e /\ x = b THEN 1 ELSE 0)
      BY <1>1, <1>6, HandPut
    <2>2. a \in Additions
      BY <1>1, <1>6, TodoTail
    <2>3. QED
      BY <2>1, <2>2, CacheAssumption DEF Additions
  <1>7. CASE Put2(t)
    <2>1. /\ todo' = [todo EXCEPT ![t] = Tail(@)]
          /\ mshr2' = [mshr2 EXCEPT ![b] = <<e>>]
          /\ lost' = lost \cup {cb \in Caches \X {b} : Times(cb[1], mshr2[b]) > 0}
      BY <1>7 DEF Put2
    <2>2. /\ One(AtHand(d, x)) = One(AtHand(d, x))' + (IF d = e /\ x = b THEN 1 ELSE 0)
          /\ e \in T /\ b \in Blocks
      BY <1>6, <2>1
    <2> HIDE DEF a, T
    <2>3. CASE x = b
      <3>1. Times(d, <<e>>) = IF d = e THEN 1 ELSE 0
        <4>1. Append(<<>>, e) = <<e>> /\ <<>> \in Seq(T)
          OBVIOUS
        <4>2. Times(d, Append(<<>>, e)) = Times(d, <<>>) + (IF e = d THEN 1 ELSE 0)
          BY <2>2, <4>1, TimesAppend
        <4>3. QED
          BY <4>1, <4>2, TimesEmpty
      <3>2. InLower(d, x)' = IF d = e THEN 1 ELSE 0
        BY <1>4, <2>1, <2>2, <2>3, <3>1 DEF InLower
      <3>3. <<d, x>> \in lost' <=> <<d, x>> \in lost \/ InLower(d, x) > 0
        BY <2>1, <2>3 DEF InLower
      <3>4. Forgotten(d, x)' = IF InLower(d, x) > 0 THEN 1 ELSE Forgotten(d, x)
        BY <3>3 DEF Forgotten, One
      <3>5. AtLower(d, x)' = One(AtHand(d, x))
        BY <1>3, <2>2, <2>3, <3>2
      <3>6. QED
        BY <1>3, <3>4, <3>5
    <2>4. CASE x # b
      <3>1. InLower(d, x)' = InLower(d, x)
        BY <1>4, <2>1, <2>4 DEF InLower
      <3>2. Forgotten(d, x)' = Forgotten(d, x)
        BY <2>1, <2>4 DEF Forgotten
      <3>3. QED
        BY <1>3, <2>2, <2>4, <3>1, <3>2
    <2>5. QED
      BY <2>3, <2>4
  <1>8. CASE Join2(t)
    <2>1. /\ todo' = [todo EXCEPT ![t] = Tail(@)]
          /\ \/ /\ mshr2[b] = <<>> /\ mshr2' = mshr2
                /\ lost' = lost \cup ({<<e, b>>} \cap (Caches \X Blocks))
             \/ /\ mshr2' = [mshr2 EXCEPT ![b] = Append(@, e)] /\ lost' = lost
      BY <1>8 DEF Join2
    <2>2. /\ One(AtHand(d, x)) = One(AtHand(d, x))' + (IF d = e /\ x = b THEN 1 ELSE 0)
          /\ e \in T /\ b \in Blocks /\ d # Write
      BY <1>6, <2>1
    <2> HIDE DEF a, T
    <2>3. CASE /\ mshr2[b] = <<>> /\ mshr2' = mshr2
               /\ lost' = lost \cup ({<<e, b>>} \cap (Caches \X Blocks))
      <3>1. InLower(d, x)' = InLower(d, x)
        BY <2>3 DEF InLower
      <3>2. Forgotten(d, x)' = IF d = e /\ x = b THEN 1 ELSE Forgotten(d, x)
        BY <2>3 DEF Forgotten, One
      <3>3. QED
        BY <1>3, <2>2, <3>1, <3>2
    <2>4. CASE mshr2' = [mshr2 EXCEPT ![b] = Append(@, e)] /\ lost' = lost
      <3>1. InLower(d, x)' = InLower(d, x) + (IF d = e /\ x = b THEN 1 ELSE 0)
        <4>1. CASE x = b
          <5>1. Times(d, Append(mshr2[b], e)) = Times(d, mshr2[b]) + (IF e = d THEN 1 ELSE 0)
            BY <1>4, <2>2, TimesAppend
          <5>2. QED
            BY <1>4, <2>2, <2>4, <4>1, <5>1 DEF InLower
        <4>2. CASE x # b
          BY <1>3, <1>4, <2>4, <4>2 DEF InLower
        <4>3. QED
          BY <4>1, <4>2
      <3>2. Forgotten(d, x)' = Forgotten(d, x)
        BY <2>4 DEF Forgotten
      <3>3. QED
        BY <1>3, <2>2, <3>1, <3>2
    <2>5. QED
      BY <2>1, <2>3, <2>4
  <1>9. QED
    BY <1>5, <1>7, <1>8

(* So every entry keeps what will serve it.                                *)
LEMMA ServedAdd2 ==
  ASSUME CacheTypes, ServedInv, NEW t \in Caches, Look2(t) \/ Put2(t) \/ Join2(t)
  PROVE  ServedInv'
  <1>1. UNCHANGED <<program, finished, held, queued, state2, waiting, reads, responses>>
    BY DEF Look2, Put2, Join2, sp, level1, level2, lines2, link
  <1>2. ASSUME NEW d \in Caches \ finished, NEW x \in Blocks PROVE ServedOf(d, x)'
    <2>1. /\ ServedOf(d, x) /\ Events(d, x)' = Events(d, x) /\ PutAside(d, x)' = PutAside(d, x)
          /\ HasEntry(d, x)' = HasEntry(d, x) /\ reads'[<<d, x>>] = reads[<<d, x>>]
          /\ responses'[<<d, x>>] = responses[<<d, x>>]
      BY <1>1, SameEvents, SameEntry DEF ServedInv, PutAside
    <2>2. /\ Events(d, x) \in Nat
          /\ reads[<<d, x>>] \in Nat /\ AtLower(d, x) \in Nat /\ responses[<<d, x>>] \in Nat
          /\ PutAside(d, x) \in 0 .. 1 /\ Forgotten(d, x) \in 0 .. 1 /\ HasEntry(d, x) \in 0 .. 1
      BY ServedTypes
    <2>3. AtLower(d, x) + Forgotten(d, x) <= 1
      BY <2>1, <2>2 DEF ServedOf
    <2>4. /\ AtLower(d, x)' + Forgotten(d, x)' = AtLower(d, x) + Forgotten(d, x)
          /\ AtLower(d, x)' \in Nat /\ Forgotten(d, x)' \in Nat
      BY <2>3, Add2Effect
    <2>5. QED
      BY <2>1, <2>2, <2>4 DEF ServedOf
  <1>3. NoReadOfValid'
    BY <1>1, Add2Effect DEF ServedInv, NoReadOfValid
  <1>4. QED
    BY <1>1, <1>2, <1>3 DEF ServedInv

(* Every step.                                                             *)
LEMMA ServedStep == CacheTypes /\ AccountInv /\ ServedInv /\ [Next]_vars => ServedInv'
  <1> SUFFICES ASSUME CacheTypes, AccountInv, ServedInv, [Next]_vars PROVE ServedInv'
    OBVIOUS
  <1>1. CASE UNCHANGED vars
    <2>1. UNCHANGED <<mshr2, link, todo, program, finished, queued, held, state2>>
      BY <1>1 DEF vars, sp, level1, level2, lines2
    <2>2. (\A d \in Caches, x \in Blocks : LowerStays(d, x)) /\ NoReadOfValid'
      BY <2>1, HandStays, LinkStays DEF ServedInv
    <2>3. ASSUME NEW d \in Caches \ finished, NEW x \in Blocks PROVE ServedOf(d, x)'
      <3>1. Events(d, x)' = Events(d, x) /\ HasEntry(d, x)' = HasEntry(d, x) /\ LowerStays(d, x)
            /\ ServedOf(d, x)
        BY <2>1, <2>2, SameEvents, SameEntry DEF ServedInv
      <3>2. QED
        BY <3>1 DEF ServedOf, LowerStays
    <2>4. QED
      BY <2>1, <2>2, <2>3 DEF ServedInv
  <1>2. QED
    BY <1>1, ServedIssue, ServedMerge, ServedMiss, ServedAddAgain, ServedHit, ServedRespond,
       ServedClear, ServedRead2, ServedWrite2, ServedRespond2, ServedAdd2 DEF Next

(* An entry of a first-level cache has exactly one thing under way that    *)
(* will serve it, or is known to be stuck.                                 *)
THEOREM EntriesServedCorrect == Spec => []EntriesServed
  BY TypesInit, TypesStep, AccountInit, AccountStep, ServedInit, ServedStep, ServedImplies,
     PTL DEF Spec

-----------------------------------------------------------------------------
(* What will serve an entry of L2.  What a thread is to put into the MSHR  *)
(* belongs to it: a read there has its read in memory, memory has not      *)
(* answered what is put after a miss, and the event of a write goes to a   *)
(* queue that is read, or the block is known to be stranded.               *)
ReadsComing(b) == (\E c \in Caches : AtLower(c, b) > 0) => memReads[b] > 0
LateComing(b) == (\E t \in Caches : AddsLate(t, b)) => memReads[b] > 0 \/ b \in stranded
EventComing(b) == \E t \in Caches \ finished : writes[<<t, b>>] > 0
EntryComing(b) == mshr2[b] # <<>> => memReads[b] > 0 \/ b \in stranded \/ EventComing(b)
AddsFinished(t, b) ==
  \E k \in DOMAIN todo[t] : todo[t][k].block = b /\ todo[t][k].queue \in finished
QueueComing(b) == (\E t \in Caches : AddsFinished(t, b)) => b \in stranded

LowerInv ==
  \A b \in Blocks : ReadsComing(b) /\ LateComing(b) /\ EntryComing(b) /\ QueueComing(b)

(* It implies the property.                                                *)
LEMMA LowerImplies == CacheTypes /\ LowerInv => LowerEntriesServed
  <1> SUFFICES ASSUME CacheTypes, LowerInv, NEW b \in Blocks
               PROVE  /\ (\E c \in Caches : InLower(c, b) > 0) => memReads[b] > 0
                      /\ mshr2[b] # <<>> => memReads[b] > 0 \/ b \in stranded \/ EventComing(b)
    BY DEF LowerEntriesServed, InLower, EventComing
  <1>1. ASSUME NEW c \in Caches, InLower(c, b) > 0 PROVE memReads[b] > 0
    <2>1. InLower(c, b) \in Nat /\ One(AtHand(c, b)) \in Nat
      BY ServedTypes DEF One
    <2>2. AtLower(c, b) > 0
      BY <1>1, <2>1 DEF AtLower
    <2>3. QED
      BY <2>2 DEF LowerInv, ReadsComing
  <1>2. QED
    BY <1>1 DEF LowerInv, EntryComing

(* Nothing is outstanding at the start.                                    *)
LEMMA LowerInit == Init => LowerInv
  <1> SUFFICES ASSUME Init, NEW b \in Blocks
               PROVE  ReadsComing(b) /\ LateComing(b) /\ EntryComing(b) /\ QueueComing(b)
    BY DEF LowerInv
  <1>1. mshr2[b] = <<>> /\ \A t \in Caches : todo[t] = <<>>
    BY DEF Init
  <1>2. \A c \in Caches : InLower(c, b) = 0 /\ ~AtHand(c, b)
    BY <1>1, CacheAssumption, TimesEmpty DEF InLower, AtHand
  <1>3. \A c \in Caches : AtLower(c, b) = 0
    BY <1>2 DEF AtLower, One
  <1>4. QED
    BY <1>1, <1>3 DEF ReadsComing, LateComing, EntryComing, QueueComing, AddsLate, AddsFinished

(* The hands of a thread hold nothing new, perhaps less.                   *)
TodoLess ==
  \A u \in Caches : \A k \in DOMAIN todo'[u] : \E j \in DOMAIN todo[u] :
    todo'[u][k].block = todo[u][j].block /\ todo'[u][k].queue = todo[u][j].queue

(* Then it adds nothing that it did not add before.                        *)
LEMMA TodoLessAdds ==
  ASSUME TodoLess, NEW u \in Caches, NEW x
  PROVE  /\ AddsLate(u, x)' => AddsLate(u, x)
         /\ finished' = finished /\ AddsFinished(u, x)' => AddsFinished(u, x)
  BY DEF TodoLess, AddsLate, AddsFinished

(* Steps above L2.                                                         *)
LEMMA LowerAbove ==
  ASSUME LowerInv, UNCHANGED <<finished, mshr2, writes, memReads, stranded, todo>>
  PROVE  LowerInv'
  <1>1. HandSame
    BY HandStays
  <1> SUFFICES ASSUME NEW b \in Blocks
               PROVE  ReadsComing(b)' /\ LateComing(b)' /\ EntryComing(b)' /\ QueueComing(b)'
    BY DEF LowerInv
  <1>2. ReadsComing(b) /\ LateComing(b) /\ EntryComing(b) /\ QueueComing(b)
    BY DEF LowerInv
  <1>3. \A c \in Caches : AtLower(c, b)' = AtLower(c, b)
    BY <1>1 DEF AtLower, InLower, HandSame, One
  <1>4. ReadsComing(b)'
    BY <1>2, <1>3 DEF ReadsComing
  <1>5. LateComing(b)'
    BY <1>2 DEF LateComing, AddsLate
  <1>6. EntryComing(b)'
    BY <1>2 DEF EntryComing, EventComing
  <1>7. QueueComing(b)'
    BY <1>2 DEF QueueComing, AddsFinished
  <1>8. QED
    BY <1>4, <1>5, <1>6, <1>7

(* A thread is to put writes whose events go to queues that are read.      *)
LEMMA LowerWritten ==
  ASSUME CacheTypes, LowerInv, NEW t \in Caches, NEW s, NEW Q, OnlyWrites(s, Q),
         Q \subseteq Caches \ finished, todo' = [todo EXCEPT ![t] = s], todo[t] = <<>>,
         UNCHANGED <<finished, mshr2, writes, memReads, stranded>>
  PROVE  LowerInv'
  <1>1. HandSame
    BY HandWrites
  <1>2. todo'[t] = s /\ \A u \in Caches : u # t => todo'[u] = todo[u]
    BY TodoWrites
  <1> SUFFICES ASSUME NEW b \in Blocks
               PROVE  ReadsComing(b)' /\ LateComing(b)' /\ EntryComing(b)' /\ QueueComing(b)'
    BY DEF LowerInv
  <1>3. ReadsComing(b) /\ LateComing(b) /\ EntryComing(b) /\ QueueComing(b)
    BY DEF LowerInv
  <1>4. \A c \in Caches : AtLower(c, b)' = AtLower(c, b)
    BY <1>1 DEF AtLower, InLower, HandSame, One
  <1>5. \A k \in DOMAIN s : s[k].queue # NoQueue /\ s[k].queue \notin finished
    BY CacheAssumption DEF OnlyWrites
  <1>6. ASSUME NEW u \in Caches
        PROVE  (AddsLate(u, b)' => AddsLate(u, b)) /\ (AddsFinished(u, b)' => AddsFinished(u, b))
    <2>1. CASE u = t
      BY <1>2, <1>5, <2>1 DEF AddsLate, AddsFinished
    <2>2. CASE u # t
      BY <1>2, <2>2 DEF AddsLate, AddsFinished
    <2>3. QED
      BY <2>1, <2>2
  <1>7. ReadsComing(b)'
    BY <1>3, <1>4 DEF ReadsComing
  <1>8. LateComing(b)'
    BY <1>3, <1>6 DEF LateComing
  <1>9. EntryComing(b)'
    BY <1>3 DEF EntryComing, EventComing
  <1>10. QueueComing(b)'
    BY <1>3, <1>6 DEF QueueComing
  <1>11. QED
    BY <1>7, <1>8, <1>9, <1>10

(* The MSHR of L2 is emptied.                                              *)
LEMMA LowerClear ==
  ASSUME CacheTypes, LowerInv, NEW c \in Caches, Clear(c) PROVE LowerInv'
  <1>1. /\ finished' = finished \cup {c} /\ mshr2' = [b \in Blocks |-> <<>>]
        /\ stranded' = stranded \cup
             {b \in Blocks : \E t \in Caches : \E k \in DOMAIN todo[t] :
                                todo[t][k].block = b /\ todo[t][k].queue = c}
        /\ UNCHANGED <<memReads, writes, todo>>
    BY DEF Clear
  <1>2. HandSame
    BY <1>1, HandStays
  <1> SUFFICES ASSUME NEW b \in Blocks
               PROVE  ReadsComing(b)' /\ LateComing(b)' /\ EntryComing(b)' /\ QueueComing(b)'
    BY DEF LowerInv
  <1>3. ReadsComing(b) /\ LateComing(b) /\ EntryComing(b) /\ QueueComing(b)
    BY DEF LowerInv
  <1>4. mshr2'[b] = <<>>
    BY <1>1
  <1>5. ASSUME NEW d \in Caches, AtLower(d, b)' > 0 PROVE AtLower(d, b) > 0
    <2>1. InLower(d, b)' = 0
      BY <1>4, TimesEmpty DEF InLower
    <2>2. AtHand(d, b)' <=> AtHand(d, b)
      BY <1>2 DEF HandSame
    <2>3. InLower(d, b) \in Nat
      BY ServedTypes
    <2>4. QED
      BY <1>5, <2>1, <2>2, <2>3 DEF AtLower, One
  <1>6. ReadsComing(b)'
    BY <1>1, <1>3, <1>5 DEF ReadsComing
  <1>7. LateComing(b)'
    BY <1>1, <1>3 DEF LateComing, AddsLate
  <1>8. EntryComing(b)'
    BY <1>4 DEF EntryComing
  <1>9. QueueComing(b)'
    BY <1>1, <1>3 DEF QueueComing, AddsFinished
  <1>10. QED
    BY <1>6, <1>7, <1>8, <1>9

(* A thread looks for an entry, makes one or joins one.                    *)
LEMMA LowerAdd2 ==
  ASSUME CacheTypes, LowerInv, NEW t \in Caches, Look2(t) \/ Put2(t) \/ Join2(t)
  PROVE  LowerInv'
  <1> DEFINE a == Head(todo[t])
  <1>1. UNCHANGED <<finished, memReads, stranded>> /\ todo[t] # <<>>
    BY DEF Look2, Put2, Join2, sp, level2
  <1>2. /\ TodoLess /\ a \in Additions
        /\ a.queue = NoQueue => AddsLate(t, a.block)
        /\ a.queue \in finished => AddsFinished(t, a.block)
    <2>1. CASE Look2(t)
      <3>1. /\ \A u \in Caches : u # t => todo'[u] = todo[u]
            /\ DOMAIN todo'[t] = DOMAIN todo[t] /\ 1 \in DOMAIN todo[t] /\ a = todo[t][1]
            /\ \A k \in DOMAIN todo[t] : /\ todo'[t][k].block = todo[t][k].block
                                         /\ todo'[t][k].queue = todo[t][k].queue
        BY <2>1, TodoLook
      <3>2. todo[t] \in Seq(Additions)
        BY DEF CacheTypes
      <3>3. a \in Additions
        BY <1>1, <3>2
      <3> HIDE DEF a
      <3>4. ASSUME NEW u \in Caches, NEW k \in DOMAIN todo'[u]
            PROVE  \E j \in DOMAIN todo[u] : /\ todo'[u][k].block = todo[u][j].block
                                             /\ todo'[u][k].queue = todo[u][j].queue
        <4>1. CASE u = t
          BY <3>1, <4>1
        <4>2. CASE u # t
          BY <3>1, <4>2
        <4>3. QED
          BY <4>1, <4>2
      <3>5. QED
        BY <3>1, <3>3, <3>4 DEF TodoLess, AddsLate, AddsFinished
    <2>2. CASE Put2(t) \/ Join2(t)
      <3>1. todo' = [todo EXCEPT ![t] = Tail(@)]
        BY <2>2 DEF Put2, Join2
      <3>2. /\ \A u \in Caches : u # t => todo'[u] = todo[u]
            /\ 1 \in DOMAIN todo[t] /\ a = todo[t][1] /\ a \in Additions
            /\ \A k \in DOMAIN todo'[t] : k + 1 \in DOMAIN todo[t] /\ todo'[t][k] = todo[t][k + 1]
        BY <1>1, <3>1, TodoTail
      <3> HIDE DEF a
      <3>3. ASSUME NEW u \in Caches, NEW k \in DOMAIN todo'[u]
            PROVE  \E j \in DOMAIN todo[u] : /\ todo'[u][k].block = todo[u][j].block
                                             /\ todo'[u][k].queue = todo[u][j].queue
        <4>1. CASE u = t
          BY <3>2, <4>1
        <4>2. CASE u # t
          BY <3>2, <4>2
        <4>3. QED
          BY <4>1, <4>2
      <3>4. QED
        BY <3>2, <3>3 DEF TodoLess, AddsLate, AddsFinished
    <2>3. QED
      BY <2>1, <2>2
  <1>3. /\ mshr2 \in [Blocks -> Seq(Caches \cup {Write})]
        /\ writes \in [Caches \X Blocks -> Nat]
    BY DEF CacheTypes
  <1> SUFFICES ASSUME NEW b \in Blocks
               PROVE  ReadsComing(b)' /\ LateComing(b)' /\ EntryComing(b)' /\ QueueComing(b)'
    BY DEF LowerInv
  <1>4. ReadsComing(b) /\ LateComing(b) /\ EntryComing(b) /\ QueueComing(b)
    BY DEF LowerInv
  <1>5. ReadsComing(b)'
    <2>1. \A c \in Caches : AtLower(c, b) = 0 => AtLower(c, b)' = 0
      BY Add2Effect
    <2>2. \A c \in Caches : AtLower(c, b) \in Nat
      BY ServedTypes
    <2>3. QED
      BY <1>1, <1>4, <2>1, <2>2 DEF ReadsComing
  <1>6. LateComing(b)' /\ QueueComing(b)'
    BY <1>1, <1>2, <1>4, TodoLessAdds DEF LateComing, QueueComing
  <1>7. \A u \in Caches : /\ writes'[<<u, b>>] >= writes[<<u, b>>]
                          /\ writes[<<u, b>>] \in Nat /\ writes'[<<u, b>>] \in Nat
    <2>1. UNCHANGED writes \/ \E cb \in Caches \X Blocks : writes' = [writes EXCEPT ![cb] = @ + 1]
      <3>1. UNCHANGED writes \/ (a.queue # NoQueue /\ writes' = [writes EXCEPT ![<<a.queue, a.block>>] = @ + 1])
        BY DEF Look2, Put2, Join2, level2
      <3>2. a.queue # NoQueue => <<a.queue, a.block>> \in Caches \X Blocks
        BY <1>2 DEF Additions
      <3>3. QED
        BY <3>1, <3>2
    <2>2. QED
      BY <1>3, <2>1
  <1>8. EntryComing(b)'
    <2>1. SUFFICES ASSUME mshr2'[b] # <<>>, memReads[b] = 0, b \notin stranded PROVE EventComing(b)'
      BY <1>1, <1>7 DEF EntryComing, CacheTypes
    <2>2. CASE mshr2[b] # <<>>
      <3>1. EventComing(b)
        BY <1>4, <2>1, <2>2 DEF EntryComing
      <3>2. PICK u \in Caches \ finished : writes[<<u, b>>] > 0
        BY <3>1 DEF EventComing
      <3>3. writes'[<<u, b>>] > 0
        <4>1. writes'[<<u, b>>] >= writes[<<u, b>>] /\ writes'[<<u, b>>] \in Nat
          BY <1>7, <3>2
        <4>2. writes[<<u, b>>] \in Nat
          BY <1>7, <3>2
        <4>3. QED
          BY <3>2, <4>1, <4>2
      <3>4. QED
        BY <1>1, <3>2, <3>3 DEF EventComing
    <2>3. CASE mshr2[b] = <<>>
      <3>1. Put2(t) /\ a.block = b
        <4>1. CASE Look2(t)
          BY <2>1, <2>3, <4>1 DEF Look2, level2
        <4>2. CASE Join2(t)
          BY <1>3, <2>1, <2>3, <4>2 DEF Join2
        <4>3. CASE Put2(t)
          BY <1>3, <2>1, <2>3, <4>3 DEF Put2
        <4>4. QED
          BY <4>1, <4>2, <4>3
      <3>2. a.queue # NoQueue
        BY <1>2, <1>4, <2>1, <3>1 DEF LateComing
      <3>3. a.queue \notin finished /\ a.queue \in Caches
        BY <1>2, <1>4, <2>1, <3>1, <3>2 DEF QueueComing, Additions
      <3>4. writes' = [writes EXCEPT ![<<a.queue, b>>] = @ + 1]
        BY <3>1, <3>2 DEF Put2
      <3> DEFINE cb == <<a.queue, b>>
      <3>5. cb \in Caches \X Blocks
        BY <3>3
      <3>6. writes'[cb] > 0
        <4> HIDE DEF cb
        <4>1. writes' = [writes EXCEPT ![cb] = @ + 1]
          BY <3>4 DEF cb
        <4>2. QED
          BY <1>3, <3>5, <4>1
      <3>7. QED
        BY <1>1, <3>3, <3>6 DEF EventComing
    <2>4. QED
      BY <2>2, <2>3
  <1>9. QED
    BY <1>5, <1>6, <1>8

(* L2 handles an event of a block: afterwards there is no entry, or it has *)
(* a read in memory.                                                       *)
LEMMA LowerEvent ==
  ASSUME CacheTypes, ServedInv, LowerInv, NEW t \in Caches, NEW e \in Caches \cup {Write},
         NEW b \in Blocks, e # Write => t = thread0, Idle(t),
         (Available(e, b) /\ UNCHANGED todo) \/ Miss2(t, e, b),
         \A u \in Caches, x \in Blocks : x # b => writes'[<<u, x>>] = writes[<<u, x>>],
         UNCHANGED <<finished, stranded>>
  PROVE  LowerInv'
  <1>1. mshr2 \in [Blocks -> Seq(Caches \cup {Write})] /\ memReads \in [Blocks -> Nat]
    BY DEF CacheTypes
  <1> SUFFICES ASSUME NEW x \in Blocks
               PROVE  ReadsComing(x)' /\ LateComing(x)' /\ EntryComing(x)' /\ QueueComing(x)'
    BY DEF LowerInv
  <1>2. ReadsComing(x) /\ LateComing(x) /\ EntryComing(x) /\ QueueComing(x)
    BY DEF LowerInv
  <1>3. x # b => (EventComing(x)' <=> EventComing(x))
    BY DEF EventComing
  <1>4. CASE Available(e, b) /\ UNCHANGED todo
    <2>1. mshr2' = [mshr2 EXCEPT ![b] = <<>>] /\ memReads' = memReads
      BY <1>4, LowerHandlers
    <2>2. \A c \in Caches : AtLower(c, x)' = AtLower(c, x)
      BY <1>4, AvailableEffect DEF ServedInv
    <2>3. ReadsComing(x)'
      BY <1>2, <2>1, <2>2 DEF ReadsComing
    <2>4. LateComing(x)'
      BY <1>2, <1>4, <2>1 DEF LateComing, AddsLate
    <2>5. EntryComing(x)'
      <3>1. mshr2'[x] = IF x = b THEN <<>> ELSE mshr2[x]
        BY <1>1, <2>1
      <3>2. QED
        BY <1>2, <1>3, <2>1, <3>1 DEF EntryComing
    <2>6. QueueComing(x)'
      BY <1>2, <1>4 DEF QueueComing, AddsFinished
    <2>7. QED
      BY <2>3, <2>4, <2>5, <2>6
  <1>5. CASE Miss2(t, e, b)
    <2>1. /\ memReads' = [memReads EXCEPT ![b] = @ + 1] /\ mshr2' = mshr2
          /\ todo' = [todo EXCEPT ![t] = <<Add(e, b, NoQueue)>>]
      BY <1>5, LowerHandlers
    <2>2. /\ todo'[t] = <<Add(e, b, NoQueue)>> /\ \A u \in Caches : u # t => todo'[u] = todo[u]
      BY <2>1, TodoMiss
    <2>3. IF x = b THEN memReads'[x] > 0 ELSE memReads'[x] = memReads[x]
      BY <1>1, <2>1
    <2>4. ReadsComing(x)'
      <3>1. \A c \in Caches : x # b => AtLower(c, x)' = AtLower(c, x) + 0
        BY <1>5, Miss2Effect
      <3>2. \A c \in Caches : AtLower(c, x) \in Nat
        BY ServedTypes
      <3>3. QED
        BY <1>2, <2>3, <3>1, <3>2 DEF ReadsComing
    <2>5. ASSUME NEW k \in DOMAIN todo'[t]
          PROVE  todo'[t][k].block = b /\ todo'[t][k].queue \notin finished
      <3> DEFINE l == Add(e, b, NoQueue)
      <3>1. l.block = b /\ l.queue = NoQueue
        BY DEF Add
      <3> HIDE DEF l
      <3>2. todo'[t][k] = l
        BY <2>2, <2>5 DEF l
      <3>3. NoQueue \notin finished
        BY CacheAssumption DEF CacheTypes
      <3>4. QED
        BY <3>1, <3>2, <3>3
    <2>6. ASSUME NEW u \in Caches
          PROVE  /\ x # b /\ AddsLate(u, x)' => AddsLate(u, x)
                 /\ AddsFinished(u, x)' => AddsFinished(u, x)
      <3>1. CASE u = t
        BY <2>5, <3>1 DEF AddsLate, AddsFinished
      <3>2. CASE u # t
        BY <2>2, <3>2 DEF AddsLate, AddsFinished
      <3>3. QED
        BY <3>1, <3>2
    <2>7. LateComing(x)'
      BY <1>2, <2>3, <2>6 DEF LateComing
    <2>8. EntryComing(x)'
      BY <1>2, <1>3, <2>1, <2>3 DEF EntryComing
    <2>9. QueueComing(x)'
      BY <1>2, <2>6 DEF QueueComing
    <2>10. QED
      BY <2>4, <2>7, <2>8, <2>9
  <1>6. QED
    BY <1>4, <1>5

(* Memory answers: the entry goes, and what is put too late is noted.      *)
LEMMA LowerRespond2 ==
  ASSUME CacheTypes, LowerInv, NEW b \in Blocks, Respond2(b) PROVE LowerInv'
  <1>1. /\ mshr2' = [mshr2 EXCEPT ![b] = <<>>] /\ UNCHANGED <<finished, writes, todo>>
        /\ \A x \in Blocks : x # b => memReads'[x] = memReads[x]
        /\ stranded' = IF memReads'[b] = 0 /\ \E t \in Caches : AddsLate(t, b)
                       THEN stranded \cup {b} ELSE stranded
        /\ todo[thread0] = <<>>
    BY DEF Respond2, Removed2, sp, CacheTypes, Running, Idle
  <1>2. memReads' \in [Blocks -> Nat] /\ mshr2 \in [Blocks -> Seq(Caches \cup {Write})]
    <2>1. thread0 \in Caches
      BY CacheAssumption
    <2>2. CacheTypes'
      BY <2>1, TypesLowerSteps
    <2>3. QED
      BY <2>2 DEF CacheTypes
  <1> SUFFICES ASSUME NEW x \in Blocks
               PROVE  ReadsComing(x)' /\ LateComing(x)' /\ EntryComing(x)' /\ QueueComing(x)'
    BY DEF LowerInv
  <1>3. ReadsComing(x) /\ LateComing(x) /\ EntryComing(x) /\ QueueComing(x)
    BY DEF LowerInv
  <1>4. mshr2'[x] = IF x = b THEN <<>> ELSE mshr2[x]
    BY <1>1, <1>2
  <1>5. \A c \in Caches : ~AtHand(c, x) /\ ~AtHand(c, x)'
    BY <1>1 DEF AtHand
  <1>6. ReadsComing(x)'
    <2>1. CASE x = b
      <3>1. \A c \in Caches : AtLower(c, x)' = 0
        BY <1>4, <1>5, <2>1, TimesEmpty DEF AtLower, InLower, One
      <3>2. QED
        BY <3>1 DEF ReadsComing
    <2>2. CASE x # b
      <3>1. \A c \in Caches : AtLower(c, x)' = AtLower(c, x)
        BY <1>4, <1>5, <2>2 DEF AtLower, InLower, One
      <3>2. QED
        BY <1>1, <1>3, <2>2, <3>1 DEF ReadsComing
    <2>3. QED
      BY <2>1, <2>2
  <1>7. \A t \in Caches : AddsLate(t, x)' <=> AddsLate(t, x)
    BY <1>1 DEF AddsLate
  <1>8. LateComing(x)'
    <2>1. CASE x = b
      BY <1>1, <1>2, <1>7, <2>1 DEF LateComing
    <2>2. CASE x # b
      BY <1>1, <1>3, <1>7, <2>2 DEF LateComing
    <2>3. QED
      BY <2>1, <2>2
  <1>9. EntryComing(x)'
    <2>1. EventComing(x)' <=> EventComing(x)
      BY <1>1 DEF EventComing
    <2>2. QED
      BY <1>1, <1>3, <1>4, <2>1 DEF EntryComing
  <1>10. QueueComing(x)'
    BY <1>1, <1>3 DEF QueueComing, AddsFinished
  <1>11. QED
    BY <1>6, <1>8, <1>9, <1>10

(* Every step.                                                             *)
LEMMA LowerStep ==
  CacheTypes /\ AccountInv /\ ServedInv /\ LowerInv /\ [Next]_vars => LowerInv'
  <1> SUFFICES ASSUME CacheTypes, AccountInv, ServedInv, LowerInv, [Next]_vars PROVE LowerInv'
    OBVIOUS
  <1>1. ASSUME NEW c \in Caches, Merge(c) \/ AddAgain(c) PROVE LowerInv'
    <2>1. UNCHANGED <<finished, mshr2, writes, memReads, stranded, todo>>
      BY <1>1 DEF Merge, AddAgain, level2
    <2>2. QED
      BY <2>1, LowerAbove
  <1>2. ASSUME NEW i \in Ids, Issue(i) \/ HandleMiss(i) PROVE LowerInv'
    <2>1. UNCHANGED <<finished, mshr2, writes, memReads, stranded, todo>>
      BY <1>2 DEF Issue, HandleMiss, level2
    <2>2. QED
      BY <2>1, LowerAbove
  <1>3. ASSUME NEW i \in Ids, HandleHit(i) PROVE LowerInv'
    <2> DEFINE c == program[i].cache
    <2>1. PICK s : /\ OnlyWrites(s, {c}) /\ todo' = [todo EXCEPT ![c] = s]
                   /\ todo[c] = <<>> /\ c \notin finished
      BY <1>3, HandleHitWrites
    <2>2. UNCHANGED <<finished, mshr2, writes, memReads, stranded>> /\ c \in Caches
      BY <1>3, RequestTypes DEF HandleHit, level2, sp
    <2> HIDE DEF c
    <2>3. QED
      BY <2>1, <2>2, LowerWritten
  <1>4. ASSUME NEW c \in Caches, NEW b \in Blocks, Respond(c, b) PROVE LowerInv'
    <2> DEFINE Q == IF Entry(c, b) = {} THEN {thread0} ELSE {c}
    <2>1. PICK s : /\ OnlyWrites(s, Q) /\ todo' = [todo EXCEPT ![thread0] = s]
                   /\ Idle(thread0)
      BY <1>4, RespondWrites
    <2>2. UNCHANGED <<finished, mshr2, writes, memReads, stranded>>
      BY <1>4 DEF Respond, level2, sp
    <2>3. Entry(c, b) # {} => c \notin finished
      BY DEF Entry, AccountInv, AccountOf
    <2>4. Q \subseteq Caches \ finished /\ todo[thread0] = <<>> /\ thread0 \in Caches
      BY <2>1, <2>3, CacheAssumption DEF Idle
    <2> HIDE DEF Q
    <2>5. QED
      BY <2>1, <2>2, <2>4, LowerWritten
  <1>5. ASSUME NEW c \in Caches, Clear(c) PROVE LowerInv'
    BY <1>5, LowerClear
  <1>6. ASSUME NEW c \in Caches, Look2(c) \/ Put2(c) \/ Join2(c) PROVE LowerInv'
    BY <1>6, LowerAdd2
  <1>7. ASSUME NEW c \in Caches, NEW b \in Blocks, HandleRead2(c, b) PROVE LowerInv'
    <2>1. /\ (Available(c, b) /\ UNCHANGED todo) \/ Miss2(thread0, c, b)
          /\ UNCHANGED <<finished, stranded, writes>> /\ Idle(thread0) /\ thread0 \in Caches
      BY <1>7, CacheAssumption DEF HandleRead2, sp, Running
    <2>2. QED
      BY <2>1, LowerEvent
  <1>8. ASSUME NEW t \in Caches, NEW b \in Blocks, HandleWrite2(t, b) PROVE LowerInv'
    <2>1. /\ (Available(Write, b) /\ UNCHANGED todo) \/ Miss2(t, Write, b)
          /\ UNCHANGED <<finished, stranded>> /\ Idle(t)
          /\ writes' = [writes EXCEPT ![<<t, b>>] = @ - 1]
      BY <1>8 DEF HandleWrite2, sp
    <2>2. \A u \in Caches, x \in Blocks : x # b => writes'[<<u, x>>] = writes[<<u, x>>]
      BY <2>1 DEF CacheTypes
    <2>3. QED
      BY <2>1, <2>2, LowerEvent
  <1>9. ASSUME NEW b \in Blocks, Respond2(b) PROVE LowerInv'
    BY <1>9, LowerRespond2
  <1>10. CASE UNCHANGED vars
    <2>1. UNCHANGED <<finished, mshr2, writes, memReads, stranded, todo>>
      BY <1>10 DEF vars, sp, level2
    <2>2. QED
      BY <2>1, LowerAbove
  <1>11. QED
    BY <1>1, <1>2, <1>3, <1>4, <1>5, <1>6, <1>7, <1>8, <1>9, <1>10 DEF Next

(* A read in L2 has a read in memory; an entry of writes has that or an    *)
(* event of an SP that goes on, or it was made too late.                   *)
THEOREM LowerEntriesServedCorrect == Spec => []LowerEntriesServed
  BY TypesInit, TypesStep, AccountInit, AccountStep, ServedInit, ServedStep, LowerInit, LowerStep,
     LowerImplies, PTL DEF Spec

-----------------------------------------------------------------------------
(* The caches implement the coalescing memory.  That needs to know where   *)
(* the second answer of a request that opened an entry comes from: its     *)
(* event is beside its copy in the MSHR, and so is the second copy its SP  *)
(* is adding, unless the entry has been served meanwhile.                  *)
Second(i) ==
  LET c == program[i].cache IN again[c] = i \/ (i \in opened /\ adding[c] = i)

QueuedHeld(i) == i \in queued /\ program[i].cache \notin finished => held[i] > 0
SecondHeld(i) == Second(i) /\ Entry(program[i].cache, program[i].block) # {} => held[i] > 0

HeldInv == \A i \in Ids : QueuedHeld(i) /\ SecondHeld(i)

(* Nothing is queued at the start.                                         *)
LEMMA HeldInit == Init => HeldInv
  <1> SUFFICES ASSUME Init, NEW i \in Ids PROVE QueuedHeld(i) /\ SecondHeld(i)
    BY DEF HeldInv
  <1>1. Entry(program[i].cache, program[i].block) = {}
    BY DEF Init, Entry
  <1>2. QED
    BY <1>1 DEF Init, QueuedHeld, SecondHeld

(* An SP that adds nothing has no second copy to add.                      *)
LEMMA NoSecond ==
  ASSUME CacheTypes, NEW j \in Ids,
         adding[program[j].cache] = NoRequest, again[program[j].cache] = NoRequest
  PROVE  ~Second(j)
  <1>1. j # NoRequest
    BY CacheAssumption DEF NoRequest, Ids
  <1>2. QED
    BY <1>1 DEF Second

(* A request whose cache has no less and no more.                          *)
LEMMA SecondStays ==
  ASSUME NEW j \in Ids, SecondHeld(j), program' = program, Second(j)' => Second(j), held'[j] = held[j],
         \A k \in Ids : program[k].cache = program[j].cache => held'[k] = held[k]
  PROVE  SecondHeld(j)'
  <1>1. Entry(program[j].cache, program[j].block)' = Entry(program[j].cache, program[j].block)
    BY DEF Entry
  <1>2. QED
    BY <1>1 DEF SecondHeld

(* What is under way for a block, when there is an event.                  *)
LEMMA OneEvent ==
  ASSUME CacheTypes, ServedInv, NEW i \in queued, program[i].cache \notin finished
  PROVE  LET c == program[i].cache
             b == program[i].block
         IN responses[<<c, b>>] = 0 /\ Entry(c, b) # {} /\ EventOf(c, b) = {i}
  <1> DEFINE c == program[i].cache
             b == program[i].block
  <1>1. i \in Ids /\ c \in Caches /\ b \in Blocks
    BY RequestTypes DEF CacheTypes
  <1>2. ServedOf(c, b)
    BY <1>1 DEF ServedInv
  <1>3. i \in EventOf(c, b)
    BY DEF EventOf
  <1> HIDE DEF c, b
  <1>4. /\ IsFiniteSet(EventOf(c, b)) /\ Events(c, b) \in Nat
        /\ reads[<<c, b>>] \in Nat /\ AtLower(c, b) \in Nat /\ responses[<<c, b>>] \in Nat
        /\ PutAside(c, b) \in 0 .. 1 /\ Forgotten(c, b) \in 0 .. 1 /\ HasEntry(c, b) \in 0 .. 1
    BY <1>1, ServedTypes
  <1>5. /\ Cardinality(EventOf(c, b) \ {i}) = Events(c, b) - 1
        /\ Cardinality(EventOf(c, b) \ {i}) \in Nat /\ IsFiniteSet(EventOf(c, b) \ {i})
    BY <1>3, <1>4, FS_RemoveElement, FS_CardinalityType DEF Events
  <1>6. Events(c, b) = 1 /\ responses[<<c, b>>] = 0 /\ HasEntry(c, b) = 1
    <2>1. Events(c, b) >= 1
      BY <1>4, <1>5
    <2>2. Events(c, b) + reads[<<c, b>>] + AtLower(c, b) + responses[<<c, b>>] + PutAside(c, b)
            + Forgotten(c, b) = HasEntry(c, b)
      BY <1>2 DEF ServedOf
    <2>3. QED
      BY <1>4, <2>1, <2>2
  <1>7. EventOf(c, b) \ {i} = {}
    BY <1>5, <1>6, FS_EmptySet
  <1>8. Entry(c, b) # {}
    BY <1>6 DEF HasEntry, One
  <1>9. QED
    BY <1>3, <1>6, <1>7, <1>8 DEF c, b

(* Every step.                                                             *)
LEMMA HeldStep ==
  ASSUME CacheTypes, AccountInv, ServedInv, HeldInv, [Next]_vars, CacheTypes', AccountInv'
  PROVE  HeldInv'
  <1>0. /\ held \in [Ids -> Nat] /\ adding \in [Caches -> Ids \cup {NoRequest}]
        /\ again \in [Caches -> Ids \cup {NoRequest}]
        /\ \A j \in Ids : /\ AccountOf(j) /\ program[j].cache \in Caches /\ program[j].block \in Blocks
                          /\ QueuedHeld(j) /\ SecondHeld(j) /\ j # NoRequest
        /\ \A d \in Caches : AddingOf(d) /\ AgainOf(d)
    BY AccountParts, RequestTypes DEF CacheTypes, HeldInv
  <1>1. ASSUME NEW i \in Ids, Issue(i) PROVE HeldInv'
    <2> DEFINE c == program[i].cache
    <2>1. /\ program' = program /\ finished' = finished /\ i \notin issued /\ again' = again
          /\ adding[c] = NoRequest /\ again[c] = NoRequest
          /\ \/ /\ held' = [held EXCEPT ![i] = 1] /\ queued' = queued \cup {i}
                /\ opened' = opened \cup {i} /\ adding' = adding
             \/ /\ adding' = [adding EXCEPT ![c] = i]
                /\ held' = held /\ queued' = queued /\ opened' = opened
      BY <1>1 DEF Issue, Idle
    <2>2. i \notin opened
      BY <1>0, <2>1 DEF AccountOf
    <2>3. ASSUME NEW j \in Ids PROVE QueuedHeld(j)'
      BY <1>0, <2>1 DEF QueuedHeld
    <2>4. ASSUME NEW j \in Ids PROVE SecondHeld(j)'
      <3>1. CASE program[j].cache = c
        <4>1. again'[c] = NoRequest /\ (adding'[c] = NoRequest \/ (adding'[c] = i /\ opened' = opened))
          BY <1>0, <2>1
        <4>2. ~Second(j)'
          BY <1>0, <2>1, <2>2, <3>1, <4>1 DEF Second
        <4>3. QED
          BY <4>2 DEF SecondHeld
      <3>2. CASE program[j].cache # c
        <4>1. /\ adding'[program[j].cache] = adding[program[j].cache]
              /\ j \in opened' <=> j \in opened
          BY <1>0, <2>1, <3>2
        <4>2. \A k \in Ids : program[k].cache = program[j].cache => held'[k] = held[k]
          BY <1>0, <2>1, <3>2
        <4>3. Second(j)' => Second(j)
          BY <2>1, <4>1 DEF Second
        <4>4. QED
          BY <1>0, <2>1, <4>2, <4>3, SecondStays
      <3>3. QED
        BY <3>1, <3>2
    <2>5. QED
      BY <2>3, <2>4 DEF HeldInv
  <1>2. ASSUME NEW c \in Caches, Merge(c) PROVE HeldInv'
    <2>1. PICK i \in Ids : i = adding[c]
      BY <1>2 DEF Merge, CacheTypes
    <2>2. /\ program' = program /\ finished' = finished /\ queued' = queued /\ opened' = opened
          /\ adding' = [adding EXCEPT ![c] = NoRequest] /\ again' = again
          /\ held' = held \/ held' = [held EXCEPT ![i] = @ + 1]
          /\ program[i].cache = c /\ again[c] = NoRequest
      BY <1>0, <1>2, <2>1 DEF Merge, AddingOf
    <2>3. ASSUME NEW j \in Ids PROVE QueuedHeld(j)'
      BY <1>0, <2>2 DEF QueuedHeld
    <2>4. ASSUME NEW j \in Ids PROVE SecondHeld(j)'
      <3>1. CASE program[j].cache = c
        <4>1. ~Second(j)'
          BY <1>0, <2>2, <3>1 DEF Second
        <4>2. QED
          BY <4>1 DEF SecondHeld
      <3>2. CASE program[j].cache # c
        <4>1. \A k \in Ids : program[k].cache = program[j].cache => held'[k] = held[k]
          BY <1>0, <2>2, <3>2
        <4>2. Second(j)' => Second(j)
          BY <1>0, <2>2, <3>2 DEF Second
        <4>3. QED
          BY <1>0, <2>2, <4>1, <4>2, SecondStays
      <3>3. QED
        BY <3>1, <3>2
    <2>5. QED
      BY <2>3, <2>4 DEF HeldInv
  <1>3. ASSUME NEW c \in Caches, AddAgain(c) PROVE HeldInv'
    <2>1. PICK i \in Ids : i = again[c]
      BY <1>3 DEF AddAgain, CacheTypes
    <2> DEFINE b == program[i].block
    <2>2. /\ program' = program /\ finished' = finished /\ queued' = queued /\ opened' = opened
          /\ again' = [again EXCEPT ![c] = NoRequest]
          /\ \/ /\ Entry(c, b) = {} /\ held' = [held EXCEPT ![i] = @ + 1] /\ adding' = adding
             \/ /\ Entry(c, b) # {} /\ held' = held /\ adding' = [adding EXCEPT ![c] = i]
          /\ program[i].cache = c /\ adding[c] = NoRequest /\ again[c] = i
      BY <1>0, <1>3, <2>1 DEF AddAgain, AgainOf, AddingOf
    <2>3. ASSUME NEW j \in Ids PROVE QueuedHeld(j)'
      BY <1>0, <2>2 DEF QueuedHeld
    <2>4. ASSUME NEW j \in Ids PROVE SecondHeld(j)'
      <3>1. CASE program[j].cache = c /\ j # i
        <4>1. again'[c] = NoRequest /\ (adding'[c] = NoRequest \/ adding'[c] = i)
          BY <1>0, <2>2
        <4>2. ~Second(j)'
          BY <1>0, <2>2, <3>1, <4>1 DEF Second
        <4>3. QED
          BY <4>2 DEF SecondHeld
      <3>2. CASE j = i
        <4>1. held'[i] > 0
          <5>1. CASE Entry(c, b) = {}
            BY <1>0, <2>2, <5>1
          <5>2. CASE Entry(c, b) # {}
            <6>1. Second(i)
              BY <2>2 DEF Second
            <6>2. held[i] > 0
              BY <1>0, <2>2, <5>2, <6>1 DEF SecondHeld
            <6>3. QED
              BY <2>2, <5>2, <6>2
          <5>3. QED
            BY <5>1, <5>2
        <4>2. QED
          BY <3>2, <4>1 DEF SecondHeld
      <3>3. CASE program[j].cache # c
        <4>1. \A k \in Ids : program[k].cache = program[j].cache => held'[k] = held[k]
          BY <1>0, <2>2, <3>3
        <4>2. Second(j)' => Second(j)
          BY <1>0, <2>2, <3>3 DEF Second
        <4>3. QED
          BY <1>0, <2>2, <4>1, <4>2, SecondStays
      <3>4. QED
        BY <3>1, <3>2, <3>3
    <2>5. QED
      BY <2>3, <2>4 DEF HeldInv
  <1>4. ASSUME NEW i \in Ids, HandleMiss(i) PROVE HeldInv'
    <2> DEFINE c == program[i].cache
    <2>1. /\ program' = program /\ finished' = finished /\ held' = held /\ opened' = opened
          /\ i \in queued /\ queued' = queued \ {i} /\ c \notin finished
          /\ again' = [again EXCEPT ![c] = i] /\ adding' = adding
          /\ adding[c] = NoRequest /\ again[c] = NoRequest
      BY <1>4 DEF HandleMiss, Idle
    <2>2. ASSUME NEW j \in Ids PROVE QueuedHeld(j)'
      BY <1>0, <2>1 DEF QueuedHeld
    <2>3. ASSUME NEW j \in Ids PROVE SecondHeld(j)'
      <3>1. CASE j = i
        BY <1>0, <2>1, <3>1 DEF QueuedHeld, SecondHeld
      <3>2. CASE j # i
        <4>1. Second(j)' => Second(j)
          <5>1. again'[program[j].cache] = j => again[program[j].cache] = j
            BY <1>0, <2>1, <3>2
          <5>2. QED
            BY <2>1, <5>1 DEF Second
        <4>2. QED
          BY <1>0, <2>1, <4>1, SecondStays
      <3>3. QED
        BY <3>1, <3>2
    <2>4. QED
      BY <2>2, <2>3 DEF HeldInv
  <1>5. ASSUME NEW i \in Ids, HandleHit(i) PROVE HeldInv'
    <2> DEFINE c == program[i].cache
               b == program[i].block
    <2>1. /\ program' = program /\ finished' = finished /\ adding' = adding /\ opened' = opened
          /\ again' = again /\ adding[c] = NoRequest /\ again[c] = NoRequest
          /\ i \in queued /\ queued' = queued \ {i} /\ c \notin finished
          /\ held' = Removed(Entry(c, b))
      BY <1>5 DEF HandleHit, Idle, sp
    <2>2. \A j \in Ids : held'[j] = IF j \in Entry(c, b) THEN 0 ELSE held[j]
      BY <2>1 DEF Removed
    <2>3. EventOf(c, b) = {i}
      BY <2>1, OneEvent
    <2>4. ASSUME NEW j \in Ids PROVE QueuedHeld(j)'
      <3>1. j \in queued' => j \in queued /\ j \notin Entry(c, b)
        BY <2>1, <2>3 DEF EventOf, Entry
      <3>2. QED
        BY <1>0, <2>1, <2>2, <3>1 DEF QueuedHeld
    <2>5. ASSUME NEW j \in Ids PROVE SecondHeld(j)'
      <3>1. Second(j)' => Second(j)
        BY <2>1 DEF Second
      <3>2. CASE program[j].cache = c
        <4>1. ~Second(j)
          BY <2>1, <3>2, NoSecond
        <4>2. QED
          BY <3>1, <4>1 DEF SecondHeld
      <3>3. CASE program[j].cache # c
        <4>1. \A k \in Ids : program[k].cache = program[j].cache => held'[k] = held[k]
          BY <2>2, <3>3 DEF Entry
        <4>2. QED
          BY <1>0, <2>1, <3>1, <4>1, SecondStays
      <3>4. QED
        BY <3>2, <3>3
    <2>6. QED
      BY <2>4, <2>5 DEF HeldInv
  <1>6. ASSUME NEW c \in Caches, NEW b \in Blocks, Respond(c, b) PROVE HeldInv'
    <2>1. /\ program' = program /\ finished' = finished /\ adding' = adding /\ opened' = opened
          /\ again' = again
          /\ queued' = queued /\ responses[<<c, b>>] > 0 /\ responses[<<c, b>>] \in Nat
          /\ held' = Removed(Entry(c, b))
      BY <1>6 DEF Respond, sp, CacheTypes
    <2>2. \A j \in Ids : held'[j] = IF j \in Entry(c, b) THEN 0 ELSE held[j]
      BY <2>1 DEF Removed
    <2>3. ASSUME NEW j \in Ids PROVE QueuedHeld(j)'
      <3>1. ASSUME j \in queued, program[j].cache \notin finished PROVE j \notin Entry(c, b)
        <4>1. responses[<<program[j].cache, program[j].block>>] = 0
          BY <3>1, OneEvent
        <4>2. QED
          BY <2>1, <4>1 DEF Entry
      <3>2. QED
        BY <1>0, <2>1, <2>2, <3>1 DEF QueuedHeld
    <2>4. ASSUME NEW j \in Ids PROVE SecondHeld(j)'
      <3>1. SUFFICES ASSUME Second(j)', Entry(program[j].cache, program[j].block)' # {}
                     PROVE  held'[j] > 0
        BY DEF SecondHeld
      <3>2. Second(j)
        BY <2>1, <3>1 DEF Second
      <3>3. PICK k \in Ids : held'[k] > 0 /\ program[k].cache = program[j].cache
                             /\ program[k].block = program[j].block
        BY <2>1, <3>1 DEF Entry
      <3>4. k \notin Entry(c, b) /\ held[k] > 0
        BY <1>0, <2>2, <3>3
      <3>5. ~(program[j].cache = c /\ program[j].block = b)
        BY <3>3, <3>4 DEF Entry
      <3>6. k \in Entry(program[j].cache, program[j].block)
        BY <3>3, <3>4 DEF Entry
      <3>7. held[j] > 0 /\ j \notin Entry(c, b)
        BY <1>0, <3>2, <3>5, <3>6 DEF SecondHeld, Entry
      <3>8. QED
        BY <2>2, <3>7
    <2>5. QED
      BY <2>3, <2>4 DEF HeldInv
  <1>7. ASSUME NEW c \in Caches, Clear(c) PROVE HeldInv'
    <2>1. /\ program' = program /\ finished' = finished \cup {c} /\ adding' = adding
          /\ opened' = opened /\ queued' = queued /\ adding[c] = NoRequest
          /\ again' = again /\ again[c] = NoRequest
          /\ held' = [i \in Ids |-> IF program[i].cache = c THEN 0 ELSE held[i]]
      BY <1>7 DEF Clear, Idle
    <2>2. ASSUME NEW j \in Ids PROVE QueuedHeld(j)'
      BY <1>0, <2>1 DEF QueuedHeld
    <2>3. ASSUME NEW j \in Ids PROVE SecondHeld(j)'
      <3>1. Second(j)' => Second(j)
        BY <2>1 DEF Second
      <3>2. CASE program[j].cache = c
        <4>1. ~Second(j)
          BY <2>1, <3>2, NoSecond
        <4>2. QED
          BY <3>1, <4>1 DEF SecondHeld
      <3>3. CASE program[j].cache # c
        BY <1>0, <2>1, <3>1, <3>3, SecondStays
      <3>4. QED
        BY <3>2, <3>3
    <2>4. QED
      BY <2>2, <2>3 DEF HeldInv
  <1>8. ASSUME UNCHANGED <<sp, level1>> PROVE HeldInv'
    <2>1. UNCHANGED <<program, finished, adding, again, opened, queued, held>>
      BY <1>8 DEF sp, level1
    <2>2. ASSUME NEW j \in Ids PROVE QueuedHeld(j)' /\ SecondHeld(j)'
      <3>1. Second(j)' => Second(j)
        BY <2>1 DEF Second
      <3>2. SecondHeld(j)'
        BY <1>0, <2>1, <3>1, SecondStays
      <3>3. QED
        BY <1>0, <2>1, <3>2 DEF QueuedHeld
    <2>3. QED
      BY <2>2 DEF HeldInv
  <1>9. QED
    BY <1>1, <1>2, <1>3, <1>4, <1>5, <1>6, <1>7, <1>8
    DEF Next, HandleRead2, HandleWrite2, Respond2, Look2, Put2, Join2, vars

-----------------------------------------------------------------------------
(* What the coalescing memory sees of an entry.                            *)
OwedEntry(c, b) == {i \in Ids : Owed(i) > 0 /\ program[i].cache = c /\ program[i].block = b}

(* What is owed is the copies in the MSHR and the event to come.           *)
LEMMA OwedParts ==
  ASSUME CacheTypes, NEW i \in Ids
  PROVE  /\ Owed(i) = IF program[i].cache \notin finished THEN held[i] + Comes(i) ELSE 0
         /\ Owed(i)' = IF program'[i].cache \notin finished' THEN held'[i] + Comes(i)' ELSE 0
         /\ Owed(i) \in Nat /\ Comes(i) \in 0 .. 1
  <1>1. held[i] \in Nat
    BY DEF CacheTypes
  <1>2. QED
    BY <1>1 DEF Owed, Comes, Pending, One

(* A request aside is owed as much as before, or has been given up.        *)
LEMMA OwedAside ==
  ASSUME CacheTypes, CacheTypes', NEW i \in Ids, Aside(i)
  PROVE  /\ Kept(i) => Owed(i)' = Owed(i)
         /\ Cleared(i) => Owed(i)' = 0
  <1>1. Comes(i)' = Comes(i) /\ program' = program
    BY DEF Aside, Comes, Pending, One
  <1>2. /\ Owed(i) = IF program[i].cache \notin finished THEN held[i] + Comes(i) ELSE 0
        /\ Owed(i)' = IF program'[i].cache \notin finished' THEN held'[i] + Comes(i)' ELSE 0
    BY OwedParts
  <1>3. QED
    BY <1>1, <1>2 DEF Kept, Cleared

(* The entry the coalescing memory sees.                                   *)
LEMMA MemoryEntry == ASSUME NEW c, NEW b PROVE M!Entry(c, b) = OwedEntry(c, b)
  BY DEF M!Entry, OwedEntry, M!Ids, Ids

(* A step that it does not see.                                            *)
LEMMA MemoryStutters ==
  ASSUME UNCHANGED <<program, issued, answers>>, \A j \in Ids : Owed(j)' = Owed(j)
  PROVE  UNCHANGED M!memory
  BY DEF M!memory

(* The first states correspond.                                            *)
LEMMA MemoryInit == Init => M!Init
  <1> SUFFICES ASSUME Init PROVE M!Init
    OBVIOUS
  <1>1. CacheTypes
    BY TypesInit
  <1>2. ASSUME NEW j \in Ids PROVE Owed(j) = 0
    <2>1. program[j].cache \in Caches /\ j # NoRequest
      BY <1>1, RequestTypes, CacheAssumption DEF NoRequest, Ids
    <2>2. QED
      BY <2>1 DEF Init, Owed, One
  <1>3. QED
    BY <1>2 DEF Init, M!Init, M!Ids, Ids

(* A new request opens an entry, or finds one.                             *)
LEMMA MemoryIssue ==
  ASSUME CacheTypes, AccountInv, ServedInv, CacheTypes', NEW i \in Ids, Issue(i)
  PROVE  M!Open(i) \/ M!Find(i)
  <1> DEFINE c == program[i].cache
             b == program[i].block
  <1>1. /\ program' = program /\ finished' = finished /\ answers' = answers
        /\ issued' = issued \cup {i} /\ i \notin issued
        /\ c \notin finished /\ adding[c] = NoRequest /\ again[c] = NoRequest /\ again' = again
        /\ \/ /\ Entry(c, b) = {}
              /\ held' = [held EXCEPT ![i] = 1] /\ queued' = queued \cup {i}
              /\ opened' = opened \cup {i} /\ adding' = adding
           \/ /\ Entry(c, b) # {}
              /\ held' = held /\ queued' = queued /\ opened' = opened
    BY DEF Issue, Idle
  <1>2. /\ \A j \in Ids : AccountOf(j) /\ j # NoRequest /\ held[j] \in Nat
        /\ c \in Caches /\ b \in Blocks
    BY AccountParts, RequestTypes
  <1>3. held[i] = 0 /\ i \notin queued /\ i \notin opened
    BY <1>1, <1>2 DEF AccountOf
  <1>4. \A j \in Ids : j # i => Owed(j)' = Owed(j)
    BY <1>2, OthersAside, OwedAside
  <1>5. CASE /\ Entry(c, b) = {}
             /\ held' = [held EXCEPT ![i] = 1] /\ queued' = queued \cup {i}
             /\ opened' = opened \cup {i} /\ adding' = adding
    <2>1. OwedEntry(c, b) = {}
      <3> SUFFICES ASSUME NEW j \in Ids, program[j].cache = c, program[j].block = b
                   PROVE  Owed(j) = 0
        BY DEF OwedEntry
      <3>1. held[j] = 0
        BY <1>2, <1>5 DEF Entry
      <3>2. j \notin queued
        BY <1>1, <1>5, OneEvent
      <3>3. Comes(j) = 0
        BY <1>1, <1>2, <3>2 DEF Comes, Pending, One
      <3>4. QED
        BY <3>1, <3>3, OwedParts
    <2>2. Owed(i)' = 2
      <3>1. held'[i] = 1
        BY <1>5 DEF CacheTypes
      <3>2. Comes(i)' = 1
        BY <1>5 DEF Comes, Pending, One
      <3>3. Owed(i)' = IF program'[i].cache \notin finished' THEN held'[i] + Comes(i)' ELSE 0
        BY OwedParts
      <3>4. QED
        BY <1>1, <3>1, <3>2, <3>3
    <2>3. [j \in Ids |-> Owed(j)]' = [[j \in Ids |-> Owed(j)] EXCEPT ![i] = 2]
      BY <1>4, <2>2
    <2>4. M!Entry(c, b) = {}
      BY <2>1, MemoryEntry
    <2>5. M!Open(i)
      BY <1>1, <2>3, <2>4 DEF M!Open
    <2>6. QED
      BY <2>5
  <1>6. CASE /\ Entry(c, b) # {}
             /\ held' = held /\ queued' = queued /\ opened' = opened
    <2>1. OwedEntry(c, b) # {}
      <3>1. PICK j \in Ids : held[j] > 0 /\ program[j].cache = c /\ program[j].block = b
        BY <1>6 DEF Entry
      <3>2. Owed(j) > 0
        BY <1>1, <1>2, <3>1, OwedParts
      <3>3. QED
        BY <3>1, <3>2 DEF OwedEntry
    <2>2. Owed(i)' = Owed(i)
      <3>1. Comes(i)' = 0 /\ Comes(i) = 0
        BY <1>1, <1>2, <1>3, <1>6 DEF Comes, Pending, One
      <3>2. Owed(i)' = IF program'[i].cache \notin finished' THEN held'[i] + Comes(i)' ELSE 0
        BY OwedParts
      <3>3. Owed(i) = IF program[i].cache \notin finished THEN held[i] + Comes(i) ELSE 0
        BY OwedParts
      <3>4. QED
        BY <1>1, <1>6, <3>1, <3>2, <3>3
    <2>3. [j \in Ids |-> Owed(j)]' = [j \in Ids |-> Owed(j)]
      BY <1>4, <2>2
    <2>4. M!Entry(c, b) # {}
      BY <2>1, MemoryEntry
    <2>5. M!Find(i)
      BY <1>1, <2>3, <2>4 DEF M!Find
    <2>6. QED
      BY <2>5
  <1>7. QED
    BY <1>1, <1>5, <1>6

(* A request that was found an entry joins it, or is forgotten.            *)
LEMMA MemoryMerge ==
  ASSUME CacheTypes, AccountInv, ServedInv, CacheTypes', NEW c \in Caches, Merge(c)
  PROVE  (\E i \in Ids : M!Join(i) \/ M!Lose(i)) \/ UNCHANGED M!memory
  <1>0. PICK i \in Ids : i = adding[c]
    BY DEF Merge, CacheTypes
  <1> DEFINE b == program[i].block
  <1>1. /\ program' = program /\ finished' = finished /\ answers' = answers /\ issued' = issued
        /\ queued' = queued /\ opened' = opened /\ i # NoRequest /\ again' = again
        /\ adding' = [adding EXCEPT ![c] = NoRequest]
        /\ \/ Entry(c, b) = {} /\ held' = held
           \/ Entry(c, b) # {} /\ held' = [held EXCEPT ![i] = @ + 1]
    BY <1>0 DEF Merge
  <1>2. /\ \A j \in Ids : AccountOf(j) /\ j # NoRequest /\ held[j] \in Nat
        /\ AddingOf(c)
    BY AccountParts
  <1>3. /\ program[i].cache = c /\ c \notin finished /\ i \in issued /\ i \notin queued
        /\ again[c] = NoRequest
    BY <1>0, <1>1, <1>2 DEF AddingOf
  <1>4. \A j \in Ids : j # i => Owed(j)' = Owed(j)
    BY <1>0, OthersAside, OwedAside
  <1>5. Comes(i)' = 0 /\ Comes(i) = IF i \in opened THEN 1 ELSE 0
    <2>1. adding'[c] = NoRequest
      BY <1>1 DEF CacheTypes
    <2>2. QED
      BY <1>0, <1>1, <1>2, <1>3, <2>1 DEF Comes, Pending, One
  <1>6. Owed(i) = held[i] + Comes(i) /\ Owed(i)' = held'[i] /\ held'[i] \in Nat
    <2>1. Owed(i) = held[i] + Comes(i) /\ Owed(i)' = held'[i] + Comes(i)' /\ held'[i] \in Nat
      BY <1>1, <1>3, OwedParts DEF CacheTypes
    <2>2. QED
      BY <1>5, <2>1
  <1>7. held'[i] = IF Entry(c, b) = {} THEN held[i] ELSE held[i] + 1
    BY <1>1 DEF CacheTypes
  <1>8. CASE i \notin opened
    <2>1. held[i] = 0 /\ answers[i] = 0 /\ Owed(i) = 0
      BY <1>0, <1>2, <1>3, <1>5, <1>6, <1>8 DEF AccountOf
    <2>2. CASE Entry(c, b) = {}
      <3>1. Owed(i)' = Owed(i)
        BY <1>6, <1>7, <2>1, <2>2
      <3>2. QED
        BY <1>1, <1>4, <3>1, MemoryStutters
    <2>3. CASE Entry(c, b) # {}
      <3>1. OwedEntry(c, b) # {}
        <4>1. PICK j \in Ids : held[j] > 0 /\ program[j].cache = c /\ program[j].block = b
          BY <2>3 DEF Entry
        <4>2. Owed(j) > 0
          BY <1>2, <1>3, <4>1, OwedParts
        <4>3. QED
          BY <4>1, <4>2 DEF OwedEntry
      <3>2. Owed(i)' = 1
        BY <1>6, <1>7, <2>1, <2>3
      <3>3. [j \in Ids |-> Owed(j)]' = [[j \in Ids |-> Owed(j)] EXCEPT ![i] = 1]
        BY <1>4, <3>2
      <3>4. M!Entry(program[i].cache, program[i].block) # {}
        BY <1>3, <3>1, MemoryEntry
      <3>5. M!Join(i)
        BY <1>1, <1>3, <2>1, <3>3, <3>4 DEF M!Join
      <3>6. QED
        BY <3>5
    <2>4. QED
      BY <2>2, <2>3
  <1>9. CASE i \in opened
    <2>1. CASE Entry(c, b) # {}
      <3>1. Owed(i)' = Owed(i)
        BY <1>2, <1>5, <1>6, <1>7, <1>9, <2>1
      <3>2. QED
        BY <1>1, <1>4, <3>1, MemoryStutters
    <2>2. CASE Entry(c, b) = {}
      <3>1. held[i] = 0
        BY <1>2, <1>3, <2>2 DEF Entry
      <3>2. Owed(i) = 1 /\ Owed(i)' = 0
        BY <1>5, <1>6, <1>7, <1>9, <2>2, <3>1
      <3>3. program[i].type = "Cache_Read" => answers[i] = 1
        <4>1. i \notin dropped
          BY <1>0, <1>2, <1>3, <1>9 DEF AccountOf, Pending
        <4>2. answers[i] \in Nat
          BY DEF CacheTypes
        <4>3. IsRead(i) => answers[i] + held[i] + Comes(i) + 0 = 2
          BY <1>2, <1>3, <1>9, <4>1 DEF AccountOf, Due, Gone, One
        <4>4. QED
          BY <1>5, <1>9, <3>1, <4>2, <4>3 DEF IsRead
      <3>4. OwedEntry(c, b) = {i}
        <4>1. ASSUME NEW j \in Ids, program[j].cache = c, program[j].block = b, j # i PROVE Owed(j) = 0
          <5>1. held[j] = 0
            BY <1>2, <2>2, <4>1 DEF Entry
          <5>2. j \notin queued
            BY <1>3, <2>2, <4>1, OneEvent
          <5>3. Comes(j) = 0
            BY <1>0, <1>2, <1>3, <4>1, <5>2 DEF Comes, Pending, One
          <5>4. QED
            BY <5>1, <5>3, OwedParts
        <4>2. QED
          BY <1>3, <3>2, <4>1 DEF OwedEntry
      <3>5. [j \in Ids |-> Owed(j)]' = [[j \in Ids |-> Owed(j)] EXCEPT ![i] = 0]
        BY <1>4, <3>2
      <3>6. M!Entry(program[i].cache, program[i].block) = {i}
        BY <1>3, <3>4, MemoryEntry
      <3>7. M!Lose(i)
        BY <1>1, <3>2, <3>3, <3>5, <3>6 DEF M!Lose
      <3>8. QED
        BY <3>7
    <2>3. QED
      BY <2>1, <2>2
  <1>10. QED
    BY <1>8, <1>9

(* A miss, and adding its request again, are not seen.                     *)
LEMMA MemoryMiss ==
  ASSUME CacheTypes, AccountInv, CacheTypes', NEW i \in Ids, HandleMiss(i)
  PROVE  UNCHANGED M!memory
  <1>1. /\ program' = program /\ finished' = finished /\ answers' = answers /\ issued' = issued
        /\ opened' = opened /\ held' = held /\ i \in queued
        /\ again' = [again EXCEPT ![program[i].cache] = i]
    BY DEF HandleMiss
  <1>2. /\ AccountOf(i) /\ again \in [Caches -> Ids \cup {NoRequest}] /\ program[i].cache \in Caches
    BY AccountParts DEF CacheTypes
  <1>3. again'[program[i].cache] = i
    BY <1>1, <1>2
  <1>4. Comes(i)' = Comes(i)
    BY <1>1, <1>3 DEF Comes, Pending, One
  <1>5. Owed(i)' = Owed(i)
    BY <1>1, <1>4, OwedParts
  <1>6. \A j \in Ids : j # i => Owed(j)' = Owed(j)
    BY <1>2, OthersAside, OwedAside
  <1>7. QED
    BY <1>1, <1>5, <1>6, MemoryStutters

(* The copy that is added again is what the event was.                     *)
LEMMA MemoryAddAgain ==
  ASSUME CacheTypes, AccountInv, CacheTypes', NEW c \in Caches, AddAgain(c)
  PROVE  UNCHANGED M!memory
  <1>0. PICK i \in Ids : i = again[c]
    BY DEF AddAgain, CacheTypes
  <1>1. /\ program' = program /\ finished' = finished /\ answers' = answers /\ issued' = issued
        /\ queued' = queued /\ opened' = opened /\ i # NoRequest
        /\ again' = [again EXCEPT ![c] = NoRequest]
        /\ \/ held' = [held EXCEPT ![i] = @ + 1] /\ adding' = adding
           \/ held' = held /\ adding' = [adding EXCEPT ![c] = i]
    BY <1>0 DEF AddAgain
  <1>2. /\ AddingOf(c) /\ AgainOf(c) /\ adding \in [Caches -> Ids \cup {NoRequest}]
        /\ again \in [Caches -> Ids \cup {NoRequest}] /\ held \in [Ids -> Nat]
    BY AccountParts DEF CacheTypes
  <1>3. program[i].cache = c /\ c \notin finished /\ i \notin queued /\ i \in opened
        /\ adding[c] = NoRequest
    BY <1>0, <1>1, <1>2 DEF AgainOf, AddingOf
  <1>4. Comes(i) = 1
    BY <1>0, <1>3 DEF Comes, Pending, One
  <1>5. Owed(i)' = Owed(i)
    <2>1. Owed(i) = held[i] + Comes(i) /\ Owed(i)' = held'[i] + Comes(i)'
      BY <1>1, <1>3, OwedParts
    <2>2. again'[c] = NoRequest
      BY <1>1, <1>2
    <2>3. CASE held' = [held EXCEPT ![i] = @ + 1] /\ adding' = adding
      <3>1. Comes(i)' = 0
        BY <1>1, <1>3, <2>2, <2>3 DEF Comes, Pending, One
      <3>2. held'[i] = held[i] + 1 /\ held[i] \in Nat
        BY <1>2, <2>3
      <3>3. QED
        BY <1>4, <2>1, <3>1, <3>2
    <2>4. CASE held' = held /\ adding' = [adding EXCEPT ![c] = i]
      <3>1. adding'[c] = i
        BY <1>2, <2>4
      <3>2. Comes(i)' = 1
        BY <1>1, <1>3, <3>1 DEF Comes, Pending, One
      <3>3. QED
        BY <1>4, <2>1, <2>4, <3>2
    <2>5. QED
      BY <1>1, <2>3, <2>4
  <1>6. \A j \in Ids : j # i => Owed(j)' = Owed(j)
    BY <1>0, OthersAside, OwedAside
  <1>7. QED
    BY <1>1, <1>5, <1>6, MemoryStutters

(* The SP hands over.                                                      *)
LEMMA MemoryClear ==
  ASSUME CacheTypes, AccountInv, CacheTypes', NEW c \in Caches, Clear(c)
  PROVE  M!Forget(c)
  <1>1. /\ UNCHANGED <<program, adding, again, issued, opened, dropped, queued, answers>>
        /\ finished' = finished \cup {c}
        /\ held' = [i \in Ids |-> IF program[i].cache = c THEN 0 ELSE held[i]]
    BY DEF Clear
  <1>2. ASSUME NEW j \in Ids
        PROVE  Owed(j)' = IF program[j].cache = c THEN 0 ELSE Owed(j)
    <2>1. Aside(j)
      BY <1>1 DEF Aside
    <2>2. IF program[j].cache = c THEN Cleared(j) ELSE Kept(j)
      BY <1>1 DEF Cleared, Kept
    <2>3. QED
      BY <2>1, <2>2, OwedAside
  <1>3. [j \in Ids |-> Owed(j)]' = [j \in Ids |-> IF program[j].cache = c THEN 0 ELSE [i \in Ids |-> Owed(i)][j]]
    BY <1>2
  <1>4. QED
    BY <1>1, <1>3 DEF M!Forget, M!Ids, Ids

(* What L2 does is not seen.                                               *)
LEMMA MemoryLower ==
  ASSUME UNCHANGED <<sp, level1>> PROVE UNCHANGED M!memory
  <1>1. UNCHANGED <<program, adding, again, issued, finished, opened, queued, held, answers>>
    BY DEF sp, level1
  <1>2. \A j \in Ids : Owed(j)' = Owed(j)
    BY <1>1 DEF Owed, One
  <1>3. QED
    BY <1>1, <1>2, MemoryStutters

(* Serving an entry, request by request.                                   *)
LEMMA MemoryServe ==
  ASSUME CacheTypes, CacheTypes', NEW c, NEW b, UNCHANGED <<program, issued>>,
         OwedEntry(c, b) # {},
         NEW late \in SUBSET {j \in OwedEntry(c, b) : Owed(j) = 2},
         \A j \in Ids :
           /\ Owed(j)' = IF j \in OwedEntry(c, b) THEN IF j \in late THEN 1 ELSE 0 ELSE Owed(j)
           /\ answers'[j] = IF j \in OwedEntry(c, b) /\ IsRead(j)
                            THEN answers[j] + Owed(j) - Owed(j)' ELSE answers[j]
  PROVE  M!Serve(c, b)
  <1> DEFINE owed == [j \in Ids |-> Owed(j)]
             served == OwedEntry(c, b)
  <1>1. M!Entry(c, b) = served /\ M!Ids = Ids
    BY MemoryEntry DEF M!Ids, Ids
  <1>2. late \in SUBSET {j \in served : owed[j] = 2}
    BY DEF OwedEntry
  <1>3. owed' = [j \in Ids |-> IF j \in served THEN IF j \in late THEN 1 ELSE 0 ELSE owed[j]]
    OBVIOUS
  <1>4. answers' = [j \in Ids |-> IF j \in served /\ program[j].type = "Cache_Read"
                                  THEN answers[j] + owed[j] - owed'[j] ELSE answers[j]]
    <2>1. answers' = [j \in Ids |-> answers'[j]]
      BY DEF CacheTypes
    <2>2. \A j \in Ids : answers'[j] = IF j \in served /\ program[j].type = "Cache_Read"
                                       THEN answers[j] + owed[j] - owed'[j] ELSE answers[j]
      BY DEF IsRead
    <2> HIDE DEF owed, served
    <2>3. QED
      BY <2>1, <2>2
  <1>5. M!Serve(c, b) <=>
          \E some \in SUBSET {j \in served : owed[j] = 2} :
            /\ served # {}
            /\ owed' = [j \in Ids |-> IF j \in served THEN IF j \in some THEN 1 ELSE 0 ELSE owed[j]]
            /\ answers' = [j \in Ids |-> IF j \in served /\ program[j].type = "Cache_Read"
                                         THEN answers[j] + owed[j] - owed'[j] ELSE answers[j]]
            /\ UNCHANGED <<program, issued>>
    BY <1>1 DEF M!Serve
  <1> HIDE DEF owed, served
  <1>6. served # {}
    BY DEF served
  <1>7. QED
    BY <1>2, <1>3, <1>4, <1>5, <1>6

(* A hit serves the entry and the event.                                   *)
LEMMA MemoryHit ==
  ASSUME CacheTypes, AccountInv, ServedInv, CacheTypes', NEW i \in Ids, HandleHit(i)
  PROVE  M!Serve(program[i].cache, program[i].block)
  <1> DEFINE c == program[i].cache
             b == program[i].block
             entry == Entry(c, b)
  <1>1. /\ program' = program /\ finished' = finished /\ adding' = adding /\ issued' = issued
        /\ opened' = opened /\ dropped' = dropped
        /\ i \in queued /\ queued' = queued \ {i} /\ c \notin finished /\ adding[c] = NoRequest
        /\ again' = again /\ again[c] = NoRequest
        /\ held' = Removed(entry)
        /\ answers' = IF IsRead(i) THEN [Given(entry) EXCEPT ![i] = @ + 1] ELSE Given(entry)
    BY DEF HandleHit, Idle, sp
  <1>2. /\ \A j \in Ids : /\ held[j] \in Nat /\ answers[j] \in Nat /\ j # NoRequest
        /\ Given(entry) \in [Ids -> Nat]
    BY AccountParts, RemovedTypes
  <1>3. EventOf(c, b) = {i}
    BY <1>1, OneEvent
  <1>4. \A j \in Ids : held'[j] = IF j \in entry THEN 0 ELSE held[j]
    BY <1>1 DEF Removed
  <1>5. Owed(i) = held[i] + 1 /\ i \in OwedEntry(c, b)
    <2>1. Comes(i) = 1
      BY <1>1 DEF Comes, Pending, One
    <2>2. Owed(i) = held[i] + Comes(i)
      BY <1>1, OwedParts
    <2>3. QED
      BY <1>2, <2>1, <2>2 DEF OwedEntry
  <1>6. ASSUME NEW j \in Ids, program[j].cache = c, program[j].block = b
        PROVE  /\ Owed(j) = IF j = i THEN held[j] + 1 ELSE held[j]
               /\ Owed(j)' = 0
               /\ j \in entry <=> held[j] > 0
    <2>1. j \in entry <=> held[j] > 0
      BY <1>6 DEF Entry
    <2>2. held'[j] = 0
      BY <1>2, <1>4, <2>1
    <2>3. j # i => j \notin queued
      BY <1>3, <1>6 DEF EventOf
    <2>4. adding[program[j].cache] # j /\ again[program[j].cache] # j
      BY <1>1, <1>2, <1>6
    <2>5. Comes(j)' = 0
      BY <1>1, <2>3, <2>4 DEF Comes, Pending, One
    <2>6. j # i => Comes(j) = 0
      BY <2>3, <2>4 DEF Comes, Pending, One
    <2>7. Owed(j) = held[j] + Comes(j) /\ Owed(j)' = held'[j] + Comes(j)'
      BY <1>1, <1>6, OwedParts
    <2>8. QED
      BY <1>2, <1>5, <2>1, <2>2, <2>5, <2>6, <2>7
  <1>7. ASSUME NEW j \in Ids, ~(program[j].cache = c /\ program[j].block = b)
        PROVE  Owed(j)' = Owed(j) /\ answers'[j] = answers[j] /\ j \notin OwedEntry(c, b)
    <2>1. j # i /\ j \notin entry /\ j \notin OwedEntry(c, b)
      BY <1>7 DEF Entry, OwedEntry
    <2>2. answers'[j] = answers[j] + 0
      BY <1>1, <1>2, <2>1 DEF Given, IsReadOf
    <2>3. Aside(j) /\ held'[j] = held[j]
      BY <1>1, <1>4, <2>1 DEF Aside
    <2>4. Kept(j)
      BY <1>1, <1>2, <2>2, <2>3 DEF Kept
    <2>5. QED
      BY <1>2, <2>1, <2>2, <2>3, <2>4, OwedAside
  <1>8. ASSUME NEW j \in Ids
        PROVE  /\ Owed(j)' = IF j \in OwedEntry(c, b) THEN 0 ELSE Owed(j)
               /\ answers'[j] = IF j \in OwedEntry(c, b) /\ IsRead(j)
                                THEN answers[j] + Owed(j) - Owed(j)' ELSE answers[j]
    <2>1. CASE ~(program[j].cache = c /\ program[j].block = b)
      BY <1>7, <2>1
    <2>2. CASE program[j].cache = c /\ program[j].block = b
      <3>1. /\ Owed(j) = IF j = i THEN held[j] + 1 ELSE held[j]
            /\ Owed(j)' = 0
            /\ j \in entry <=> held[j] > 0
        BY <1>6, <2>2
      <3>2. j \in OwedEntry(c, b) <=> Owed(j) > 0
        BY <2>2 DEF OwedEntry
      <3>3. Given(entry)[j] = answers[j] + (IF IsRead(j) THEN held[j] ELSE 0)
        BY <1>2, <3>1 DEF Given, IsReadOf
      <3>4. answers'[j] = Given(entry)[j] + (IF j = i /\ IsRead(j) THEN 1 ELSE 0)
        <4> HIDE DEF entry
        <4>1. Given(entry)[j] \in Nat
          BY <1>2
        <4>2. QED
          BY <1>1, <1>2, <4>1
      <3>5. answers'[j] = answers[j] + (IF IsRead(j) THEN Owed(j) ELSE 0)
        BY <1>2, <3>1, <3>3, <3>4
      <3>6. QED
        BY <1>2, <3>1, <3>2, <3>5
    <2>3. QED
      BY <2>1, <2>2
  <1>9. QED
    <2> DEFINE late == {}
    <2>1. OwedEntry(c, b) # {} /\ late \in SUBSET {j \in OwedEntry(c, b) : Owed(j) = 2}
      BY <1>5
    <2>2. UNCHANGED <<program, issued>>
      BY <1>1
    <2>3. \A j \in Ids :
            /\ Owed(j)' = IF j \in OwedEntry(c, b) THEN IF j \in late THEN 1 ELSE 0 ELSE Owed(j)
            /\ answers'[j] = IF j \in OwedEntry(c, b) /\ IsRead(j)
                             THEN answers[j] + Owed(j) - Owed(j)' ELSE answers[j]
      BY <1>8
    <2> HIDE DEF late
    <2>4. QED
      BY <2>1, <2>2, <2>3, MemoryServe

(* A response serves the entry, and the request being added comes late.    *)
LEMMA MemoryRespond ==
  ASSUME CacheTypes, AccountInv, ServedInv, HeldInv, CacheTypes',
         NEW c \in Caches, NEW b \in Blocks, Respond(c, b)
  PROVE  M!Serve(c, b) \/ UNCHANGED M!memory
  <1> DEFINE entry == Entry(c, b)
  <1>1. /\ program' = program /\ finished' = finished /\ adding' = adding /\ issued' = issued
        /\ opened' = opened /\ dropped' = dropped /\ queued' = queued /\ again' = again
        /\ responses[<<c, b>>] > 0
        /\ held' = Removed(entry) /\ answers' = Given(entry)
    BY DEF Respond, sp
  <1>2. /\ \A j \in Ids : AccountOf(j) /\ held[j] \in Nat /\ answers[j] \in Nat /\ j # NoRequest
        /\ \A j \in Ids : SecondHeld(j)
    BY AccountParts DEF HeldInv
  <1>3. /\ \A j \in Ids : held'[j] = IF j \in entry THEN 0 ELSE held[j]
        /\ \A j \in Ids : answers'[j] = answers[j] + (IF j \in entry /\ IsRead(j) THEN held[j] ELSE 0)
    BY <1>1 DEF Removed, Given, IsReadOf
  <1>4. \A j \in Ids : Comes(j)' = Comes(j)
    BY <1>1 DEF Comes, Pending, One
  <1>5. \A j \in Ids : /\ Owed(j) = IF program[j].cache \notin finished THEN held[j] + Comes(j) ELSE 0
                       /\ Owed(j)' = IF program[j].cache \notin finished THEN held'[j] + Comes(j) ELSE 0
                       /\ Comes(j) \in 0 .. 1
    BY <1>1, <1>4, OwedParts
  <1>6. CASE c \in finished
    <2>1. entry = {}
      BY <1>2, <1>6 DEF Entry, AccountOf
    <2>2. \A j \in Ids : held'[j] = held[j] /\ answers'[j] = answers[j]
      BY <1>2, <1>3, <2>1
    <2>3. answers' = answers
      BY <2>2 DEF CacheTypes
    <2>4. QED
      BY <1>1, <1>5, <2>2, <2>3, MemoryStutters
  <1>7. CASE c \notin finished
    <2> DEFINE late == {j \in OwedEntry(c, b) : Comes(j) = 1}
    <2>1. entry # {} /\ \A j \in queued : ~(program[j].cache = c /\ program[j].block = b)
      <3>1. ServedOf(c, b)
        BY <1>7 DEF ServedInv
      <3>2. /\ Events(c, b) \in Nat
            /\ reads[<<c, b>>] \in Nat /\ AtLower(c, b) \in Nat /\ responses[<<c, b>>] \in Nat
            /\ PutAside(c, b) \in 0 .. 1 /\ Forgotten(c, b) \in 0 .. 1 /\ HasEntry(c, b) \in 0 .. 1
        BY ServedTypes
      <3>3. HasEntry(c, b) = 1
        BY <1>1, <3>1, <3>2 DEF ServedOf
      <3>4. \A j \in queued : program[j].cache = c /\ program[j].block = b => responses[<<c, b>>] = 0
        BY <1>7, OneEvent
      <3>5. QED
        BY <1>1, <3>3, <3>4 DEF HasEntry, One
    <2>2. ASSUME NEW j \in Ids, program[j].cache = c, program[j].block = b
          PROVE  /\ j \in entry <=> held[j] > 0
                 /\ j \in OwedEntry(c, b) <=> j \in entry
                 /\ Comes(j) = 1 => held[j] = 1
      <3>1. j \in entry <=> held[j] > 0
        BY <2>2 DEF Entry
      <3>2. Comes(j) = 1 => Second(j)
        BY <2>1, <2>2 DEF Comes, Pending, Second, One
      <3>3. Comes(j) = 1 => held[j] > 0
        BY <2>1, <2>2, <3>2, <1>2 DEF SecondHeld
      <3>4. held[j] + Comes(j) <= 2
        <4>1. Gone(j) \in 0 .. 1 /\ Comes(j) \in 0 .. 1
          BY <1>5 DEF Gone, One
        <4>2. held[j] + Comes(j) + Gone(j) <= 2
          BY <1>2, <1>7, <2>2, <4>1 DEF AccountOf
        <4>3. QED
          BY <1>2, <4>1, <4>2
      <3>5. Owed(j) = held[j] + Comes(j) /\ Comes(j) \in 0 .. 1
        BY <1>5, <1>7, <2>2
      <3>6. Owed(j) > 0 <=> held[j] > 0
        BY <1>2, <3>3, <3>5
      <3>7. j \in OwedEntry(c, b) <=> Owed(j) > 0
        BY <2>2 DEF OwedEntry
      <3>8. QED
        BY <1>2, <3>1, <3>3, <3>4, <3>5, <3>6, <3>7
    <2>3. OwedEntry(c, b) # {}
      <3>1. PICK j \in Ids : j \in entry /\ program[j].cache = c /\ program[j].block = b
        BY <2>1 DEF Entry
      <3>2. QED
        BY <2>2, <3>1
    <2>4. late \in SUBSET {j \in OwedEntry(c, b) : Owed(j) = 2}
      <3> SUFFICES ASSUME NEW j \in OwedEntry(c, b), Comes(j) = 1 PROVE Owed(j) = 2
        OBVIOUS
      <3>1. j \in Ids /\ program[j].cache = c /\ program[j].block = b
        BY DEF OwedEntry
      <3>2. held[j] = 1
        BY <2>2, <3>1
      <3>3. QED
        BY <1>5, <1>7, <3>1, <3>2
    <2>5. ASSUME NEW j \in Ids
          PROVE  /\ Owed(j)' = IF j \in OwedEntry(c, b) THEN IF j \in late THEN 1 ELSE 0 ELSE Owed(j)
                 /\ answers'[j] = IF j \in OwedEntry(c, b) /\ IsRead(j)
                                  THEN answers[j] + Owed(j) - Owed(j)' ELSE answers[j]
      <3>1. CASE j \in OwedEntry(c, b)
        <4>1. program[j].cache = c /\ program[j].block = b
          BY <3>1 DEF OwedEntry
        <4>2. j \in entry
          BY <2>2, <3>1, <4>1
        <4>3. /\ held'[j] = 0
              /\ answers'[j] = answers[j] + (IF IsRead(j) THEN held[j] ELSE 0)
          BY <1>3, <4>2
        <4>4. /\ Owed(j) = held[j] + Comes(j) /\ Owed(j)' = held'[j] + Comes(j)
              /\ Comes(j) \in 0 .. 1
          BY <1>5, <1>7, <4>1
        <4>5. j \in late <=> Comes(j) = 1
          BY <3>1
        <4>6. Owed(j)' = IF j \in late THEN 1 ELSE 0
          BY <4>3, <4>4, <4>5
        <4>7. Owed(j) - Owed(j)' = held[j]
          BY <1>2, <4>3, <4>4
        <4> HIDE DEF late
        <4>8. answers[j] + Owed(j) - Owed(j)' = answers[j] + held[j]
          BY <1>2, <4>3, <4>4
        <4>9. QED
          BY <1>2, <3>1, <4>3, <4>6, <4>8
      <3>2. CASE j \notin OwedEntry(c, b)
        <4>1. j \notin entry
          BY <2>2, <3>2 DEF Entry
        <4>2. held'[j] = held[j] /\ answers'[j] = answers[j]
          BY <1>2, <1>3, <4>1
        <4>3. Owed(j)' = Owed(j)
          BY <1>5, <4>2
        <4>4. QED
          BY <3>2, <4>2, <4>3
      <3>3. QED
        BY <3>1, <3>2
    <2> HIDE DEF late
    <2>6. UNCHANGED <<program, issued>>
      BY <1>1
    <2>7. QED
      BY <2>3, <2>4, <2>5, <2>6, MemoryServe
  <1>8. QED
    BY <1>6, <1>7

(* Every step of the caches is a step of the memory, or not seen.          *)
LEMMA MemoryStep ==
  ASSUME CacheTypes, AccountInv, ServedInv, HeldInv, CacheTypes', [Next]_vars
  PROVE  [M!Next]_M!memory
  <1>0. M!Ids = Ids /\ \A i \in Ids : program[i].cache \in Caches /\ program[i].block \in Blocks
    BY RequestTypes DEF M!Ids, Ids
  <1>1. ASSUME NEW i \in Ids, Issue(i) PROVE M!Next
    BY <1>0, <1>1, MemoryIssue DEF M!Next
  <1>2. ASSUME NEW c \in Caches, Merge(c) PROVE M!Next \/ UNCHANGED M!memory
    BY <1>0, <1>2, MemoryMerge DEF M!Next
  <1>3. ASSUME NEW i \in Ids, HandleHit(i) PROVE M!Next
    BY <1>0, <1>3, MemoryHit DEF M!Next
  <1>4. ASSUME NEW c \in Caches, NEW b \in Blocks, Respond(c, b) PROVE M!Next \/ UNCHANGED M!memory
    BY <1>4, MemoryRespond DEF M!Next
  <1>5. ASSUME NEW c \in Caches, Clear(c) PROVE M!Next
    BY <1>5, MemoryClear DEF M!Next
  <1>6. ASSUME NEW c \in Caches, NEW b \in Blocks, HandleRead2(c, b) PROVE UNCHANGED M!memory
    BY <1>6, MemoryLower DEF HandleRead2
  <1>7. ASSUME NEW c \in Caches, NEW b \in Blocks,
               HandleWrite2(c, b)
        PROVE  UNCHANGED M!memory
    BY <1>7, MemoryLower DEF HandleWrite2
  <1>8. ASSUME NEW b \in Blocks, Respond2(b) PROVE UNCHANGED M!memory
    BY <1>8, MemoryLower DEF Respond2
  <1>9. ASSUME NEW c \in Caches, Look2(c) \/ Put2(c) \/ Join2(c) PROVE UNCHANGED M!memory
    BY <1>9, MemoryLower DEF Look2, Put2, Join2
  <1>10. CASE UNCHANGED vars
    BY <1>10, MemoryLower DEF vars
  <1>11. QED
    BY <1>1, <1>2, <1>3, <1>4, <1>5, <1>6, <1>7, <1>8, <1>9, <1>10, MemoryMiss, MemoryAddAgain
    DEF Next

(* Whatever L2 and the memory do, the SPs see a memory that answers the    *)
(* request which opened an entry twice and those that joined it once.      *)
THEOREM CachesCoalesce == Spec => Coalesces
  <1> DEFINE Inv == CacheTypes /\ AccountInv /\ ServedInv /\ HeldInv
  <1>1. Init => Inv
    BY TypesInit, AccountInit, ServedInit, HeldInit
  <1>2. Inv /\ [Next]_vars => Inv'
    BY TypesStep, AccountStep, ServedStep, HeldStep
  <1>3. Inv /\ Inv' /\ [Next]_vars => [M!Next]_M!memory
    BY MemoryStep
  <1>4. QED
    BY <1>1, <1>2, <1>3, MemoryInit, PTL DEF Spec, Coalesces, M!Spec

-----------------------------------------------------------------------------
(* The lines of the caches, and the program stays what the SPs were given. *)

LineTypes ==
  /\ program \in Programs
  /\ state1 \in [Caches -> [Blocks -> MESI]]
  /\ used2 \in Seq(Blocks)

(* No line at the start.                                                   *)
LEMMA LinesInit == Init => LineTypes
  <1>1. <<>> \in Seq(Blocks)
    OBVIOUS
  <1>2. QED
    BY <1>1 DEF Init, LineTypes, MESI

(* A hit.                                                                  *)
LEMMA LinesHit ==
  ASSUME CacheTypes, LineTypes, NEW i \in Ids, HandleHit(i) PROVE LineTypes'
  <1> DEFINE c == program[i].cache
             b == program[i].block
             written == \E j \in Entry(c, b) : ~IsRead(j)
             s == IF ~IsRead(i) \/ (written /\ c \in WriteBack) THEN "MODIFIED" ELSE state1[c][b]
  <1>1. c \in Caches /\ b \in Blocks
    BY RequestTypes
  <1>2. /\ state1' = [state1 EXCEPT ![c][b] = s]
        /\ program' = program /\ used2' = used2
    BY DEF HandleHit, sp, level2, lines2
  <1>3. s \in MESI
    <2>1. state1[c][b] \in MESI /\ "MODIFIED" \in MESI
      BY <1>1 DEF LineTypes, MESI
    <2>2. CASE s = "MODIFIED"
      BY <2>1, <2>2
    <2>3. CASE s = state1[c][b]
      BY <2>1, <2>3
    <2>4. QED
      BY <2>2, <2>3
  <1> HIDE DEF c, b, s
  <1>4. QED
    BY <1>1, <1>2, <1>3 DEF LineTypes

(* A response to a first-level cache.                                      *)
LEMMA LinesRespond ==
  ASSUME LineTypes, NEW c \in Caches, NEW b \in Blocks, Respond(c, b) PROVE LineTypes'
  <1> DEFINE evicted == Evicted(state1[c], used1[c], Ways1, b)
             written == \E j \in Entry(c, b) : ~IsRead(j)
             s == IF written /\ c \in WriteBack THEN "MODIFIED" ELSE "EXCLUSIVE"
             lines == Filled(state1[c], evicted, b, s)
  <1>1. /\ state1' = [state1 EXCEPT ![c] = lines]
        /\ program' = program /\ used2' = used2
    BY DEF Respond, sp, level2, lines2
  <1>2. s \in MESI
    BY DEF MESI
  <1>3. state1[c] \in [Blocks -> MESI]
    BY DEF LineTypes
  <1> HIDE DEF s, evicted
  <1>4. lines \in [Blocks -> MESI]
    BY <1>2, <1>3, FilledType
  <1> HIDE DEF lines
  <1>5. QED
    BY <1>1, <1>4 DEF LineTypes

(* What L2 does.                                                           *)
LEMMA LinesLower ==
  ASSUME LineTypes, NEW c \in Caches, NEW b \in Blocks,
         HandleRead2(c, b) \/ HandleWrite2(c, b) \/ Respond2(b)
  PROVE  LineTypes'
  <1>1. UNCHANGED <<program, state1>>
    BY DEF HandleRead2, HandleWrite2, Respond2, sp, level1
  <1>2. used2' \in Seq(Blocks)
    <2>1. used2 \in Seq(Blocks)
      BY DEF LineTypes
    <2>2. Marked(used2, b) \in Seq(Blocks)
      BY <2>1, MarkedType
    <2>3. FilledOrder(used2, Evicted(state2, used2, Ways2, b), b) \in Seq(Blocks)
      BY <2>1, FilledOrderType, CacheAssumption
    <2>4. \/ used2' = used2 \/ used2' = Marked(used2, b)
          \/ used2' = FilledOrder(used2, Evicted(state2, used2, Ways2, b), b)
      BY DEF HandleRead2, HandleWrite2, Respond2, Available, Miss2, lines2
    <2>5. QED
      BY <2>1, <2>2, <2>3, <2>4
  <1>3. QED
    BY <1>1, <1>2 DEF LineTypes

(* Every step keeps the lines.                                             *)
LEMMA LinesStep == CacheTypes /\ LineTypes /\ [Next]_vars => LineTypes'
  <1> SUFFICES ASSUME CacheTypes, LineTypes, [Next]_vars PROVE LineTypes'
    OBVIOUS
  <1>1. ASSUME NEW c \in Caches, Merge(c) \/ AddAgain(c) \/ Clear(c) PROVE LineTypes'
    BY <1>1 DEF Merge, AddAgain, Clear, level2, lines2, LineTypes
  <1>2. ASSUME NEW i \in Ids, Issue(i) \/ HandleMiss(i) PROVE LineTypes'
    BY <1>2 DEF Issue, HandleMiss, level2, lines2, LineTypes
  <1>3. ASSUME NEW t \in Caches, Look2(t) \/ Put2(t) \/ Join2(t) PROVE LineTypes'
    BY <1>3 DEF Look2, Put2, Join2, sp, level1, level2, lines2, LineTypes
  <1>4. CASE UNCHANGED vars
    BY <1>4 DEF vars, sp, level1, level2, lines2, LineTypes
  <1>5. \E c \in Caches : TRUE
    BY CacheAssumption
  <1>6. QED
    BY <1>1, <1>2, <1>3, <1>4, <1>5, LinesHit, LinesRespond, LinesLower DEF Next

(* Every variable keeps its range, for every program and every size of the *)
(* caches; that a request has at most two copies is part of the account.   *)
THEOREM TypeCorrect == Spec => []TypeOK
  <1>1. CacheTypes /\ LineTypes /\ AccountInv => TypeOK
    <2> SUFFICES ASSUME CacheTypes, LineTypes, AccountInv PROVE TypeOK
      OBVIOUS
    <2>1. held \in [Ids -> 0 .. 2]
      <3>1. ASSUME NEW i \in Ids PROVE held[i] \in 0 .. 2
        <4>1. AccountOf(i) /\ held[i] \in Nat /\ Comes(i) \in 0 .. 1 /\ Gone(i) \in 0 .. 1
          BY AccountParts DEF Comes, Gone, One
        <4>2. QED
          BY <4>1 DEF AccountOf
      <3>2. QED
        BY <3>1 DEF CacheTypes
    <2>2. QED
      BY <2>1 DEF CacheTypes, LineTypes, Additions, TypeOK
  <1>2. QED
    BY <1>1, TypesInit, TypesStep, LinesInit, LinesStep, AccountInit, AccountStep, PTL DEF Spec

-----------------------------------------------------------------------------
(* The caches at rest: no SP that goes on has an event in its queue, no    *)
(* thread is putting anything into an MSHR, no read or response is between *)
(* the caches, and the memory has nothing to do.                           *)
AtRest ==
  /\ \A c \in Caches : adding[c] = NoRequest /\ again[c] = NoRequest /\ todo[c] = <<>>
  /\ \A i \in queued : program[i].cache \in finished
  /\ \A c \in Caches, b \in Blocks : reads[<<c, b>>] = 0 /\ responses[<<c, b>>] = 0
  /\ \A b \in Blocks : memReads[b] = 0

(* No read is left behind without a trace: it has an answer, or its entry  *)
(* went away under it, or its block is put aside or forgotten by L2.       *)
NoReadLeft ==
  \A i \in issued :
    IsRead(i) /\ program[i].cache \notin finished =>
      \/ answers[i] > 0 \/ i \in dropped
      \/ <<program[i].cache, program[i].block>> \in waiting \cup lost

(* Caches at rest have no entry but those of a block put aside or          *)
(* forgotten.                                                              *)
LEMMA RestEntries ==
  ASSUME CacheTypes, ServedInv, LowerInv, AtRest,
         NEW c \in Caches \ finished, NEW b \in Blocks, <<c, b>> \notin waiting \cup lost
  PROVE  Entry(c, b) = {}
  <1>1. EventOf(c, b) = {}
    BY DEF AtRest, EventOf
  <1>2. Events(c, b) = 0
    BY <1>1, FS_EmptySet DEF Events
  <1>3. reads[<<c, b>>] = 0 /\ responses[<<c, b>>] = 0
    BY DEF AtRest
  <1>4. PutAside(c, b) = 0 /\ Forgotten(c, b) = 0
    BY DEF PutAside, Forgotten, One
  <1>5. AtLower(c, b) = 0
    <2>1. memReads[b] = 0
      BY DEF AtRest
    <2>2. ~(AtLower(c, b) > 0)
      BY <2>1 DEF LowerInv, ReadsComing
    <2>3. AtLower(c, b) \in Nat
      BY ServedTypes
    <2>4. QED
      BY <2>2, <2>3
  <1>6. HasEntry(c, b) = 0
    BY <1>2, <1>3, <1>4, <1>5 DEF ServedInv, ServedOf
  <1>7. QED
    BY <1>6 DEF HasEntry, One

(* A read is only ever lost in the ways that are on record: when the       *)
(* caches come to rest, every read of an SP that goes on is answered,      *)
(* unless its entry went away while it was added, or L2 was full or forgot *)
(* the read of its block.                                                  *)
THEOREM NoReadLeftAtRest == Spec => [](AtRest => NoReadLeft)
  <1>1. CacheTypes /\ AccountInv /\ ServedInv /\ LowerInv => (AtRest => NoReadLeft)
    <2> SUFFICES ASSUME CacheTypes, AccountInv, ServedInv, LowerInv, AtRest,
                        NEW i \in issued, IsRead(i), program[i].cache \notin finished,
                        answers[i] = 0, i \notin dropped,
                        <<program[i].cache, program[i].block>> \notin waiting \cup lost
                 PROVE  FALSE
      <3>1. ASSUME CacheTypes, NEW i \in issued PROVE answers[i] \in Nat
        BY <3>1 DEF CacheTypes
      <3>2. ASSUME CacheTypes, NEW i \in issued, answers[i] # 0 PROVE answers[i] > 0
        BY <3>1, <3>2
      <3>3. QED
        BY <3>2, Zenon DEF NoReadLeft
    <2>1. i \in Ids /\ i # NoRequest
      BY DEF CacheTypes, Ids, NoRequest
    <2> DEFINE c == program[i].cache
               b == program[i].block
    <2>2. c \in Caches \ finished /\ b \in Blocks
      BY <2>1, RequestTypes
    <2>3. adding[c] # i /\ again[c] # i /\ i \notin queued
      BY <2>1, <2>2 DEF AtRest
    <2>4. Comes(i) = 0 /\ Gone(i) = 0 /\ Due(i) \in 1 .. 2
      BY <2>3 DEF Comes, Pending, Gone, Due, One
    <2>5. held[i] \in Nat /\ held[i] > 0
      <3>1. AccountOf(i)
        BY <2>1 DEF AccountInv
      <3>2. answers[i] + held[i] + Comes(i) + Gone(i) = Due(i)
        BY <3>1 DEF AccountOf
      <3>3. held[i] \in Nat
        BY <2>1 DEF CacheTypes
      <3>4. QED
        BY <2>4, <3>2, <3>3
    <2>6. i \in Entry(c, b)
      BY <2>1, <2>5 DEF Entry
    <2>7. Entry(c, b) = {}
      BY <2>2, RestEntries
    <2>8. QED
      BY <2>6, <2>7
  <1>2. QED
    BY <1>1, TypesInit, TypesStep, AccountInit, AccountStep, ServedInit, ServedStep, LowerInit,
       LowerStep, PTL DEF Spec
=============================================================================
