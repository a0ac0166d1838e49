------------------------------- MODULE Caches -------------------------------
(***************************************************************************)
(* The first-level caches of the SPs over the one L2, with their MSHRs.    *)
(* Every SP has a queue and a thread that handles it.  An event goes to    *)
(* the queue it carries: reads for L2, responses and what memory answers   *)
(* to that of the core of runner thread 0; an access, and a write that it  *)
(* sends down to L2, to that of its SP.  Times are left out: events of a   *)
(* queue are handled in any order.  The DRAM answers each read it is sent  *)
(* and ignores writes.                                                     *)
(***************************************************************************)
EXTENDS Naturals, Sequences, FiniteSets

CONSTANTS
  Caches,        \* first-level caches, one for each SP of the model
  thread0,       \* the one of the core of runner thread 0
  Blocks,        \* blocks of memory, all of one set
  WriteBack,     \* the caches with writePolicy WRITE_BACK (data caches)
  Ways1, Ways2,  \* lines in a set
  MshrSize,      \* mshrStructSize of L2
  MaxRequests,   \* requests of a behaviour
  Programs       \* what the SPs request: requests 1 .. MaxRequests

Kinds == {"Cache_Read", "Cache_Write"}
Ids == 1 .. MaxRequests
NoRequest == 0
Write == "Cache_Write"
NoQueue == "no queue"
MESI == {"INVALID", "EXCLUSIVE", "MODIFIED"}

ASSUME CacheAssumption ==
  /\ thread0 \in Caches /\ WriteBack \subseteq Caches
  /\ Write \notin Caches /\ NoQueue \notin Caches
  /\ Ways1 \in Nat \ {0} /\ Ways2 \in Nat \ {0}
  /\ MshrSize \in Nat /\ MaxRequests \in Nat
  /\ Programs \subseteq [Ids -> [cache : Caches, type : Kinds, block : Blocks]]

VARIABLES
  program,     \* the requests
  issued,      \* those made so far; an SP makes its own in order
  adding,      \* adding[c]: request its SP puts into an entry it has seen, or NoRequest
  again,       \* again[c]: request sent down, to be put into the MSHR again
  finished,    \* caches whose SP has handed over
  held,        \* held[i]: copies of request i in the MSHR of its cache
  queued,      \* requests whose event is in the queue of their SP
  answers,     \* answers[i]: responses the SP got for request i
  state1,      \* state1[c][b]: the line of b
  used1,       \* used1[c]: blocks of c, least recently used first
  state2, used2,
  mshr2,       \* mshr2[b]: outstanding in L2: a cache (its read) or Write
  reads,       \* reads[<<c, b>>]: reads of c on their way to L2
  writes,      \* writes[<<c, b>>]: write events for L2 in the queue of c
  todo,        \* todo[c]: what the thread of c still puts into the MSHR of L2
  waiting,     \* reads in eventsWaitingOnMSHR of L2
  memReads,    \* memReads[b]: reads in the DRAM
  responses,   \* responses[<<c, b>>]: responses on their way from L2 to c
  opened,      \* history: requests that made an entry
  dropped,     \* history: requests that found an entry just removed
  lost,        \* history: reads of L1 caches that L2 has forgotten
  stranded     \* history: blocks whose entry in L2 is made too late to be served

sp == <<program, issued, adding, again, finished, opened, dropped>>
level1 == <<held, queued, answers, state1, used1>>
lines2 == <<state2, used2>>
level2 == <<lines2, mshr2, writes, memReads, stranded>>
link == <<reads, waiting, responses, lost>>
vars == <<sp, level1, level2, todo, link>>

Init ==
  /\ program \in Programs /\ issued = {}
  /\ adding = [c \in Caches |-> NoRequest] /\ again = [c \in Caches |-> NoRequest]
  /\ finished = {}
  /\ held = [i \in Ids |-> 0] /\ queued = {} /\ answers = [i \in Ids |-> 0]
  /\ state1 = [c \in Caches |-> [b \in Blocks |-> "INVALID"]]
  /\ used1 = [c \in Caches |-> <<>>]
  /\ state2 = [b \in Blocks |-> "INVALID"] /\ used2 = <<>>
  /\ mshr2 = [b \in Blocks |-> <<>>]
  /\ reads = [cb \in Caches \X Blocks |-> 0] /\ waiting = {}
  /\ writes = [cb \in Caches \X Blocks |-> 0] /\ memReads = [b \in Blocks |-> 0]
  /\ todo = [c \in Caches |-> <<>>]
  /\ responses = [cb \in Caches \X Blocks |-> 0]
  /\ opened = {} /\ dropped = {} /\ lost = {} /\ stranded = {}

-----------------------------------------------------------------------------
(* Lines.                                                                  *)

(* mark(): b becomes the most recently used block. *)
Marked(used, b) ==
  LET at == {k \in DOMAIN used : used[k] = b}
      k == CHOOSE p \in at : TRUE
  IN  Append(IF at = {} THEN used ELSE SubSeq(used, 1, k - 1) \o SubSeq(used, k + 1, Len(used)), b)

(* fill(): the blocks evicted to make room for b; a valid line stays. *)
Evicted(state, used, ways, b) ==
  IF state[b] = "INVALID" /\ Len(used) >= ways THEN {Head(used)} ELSE {}

(* The lines after fill(b). *)
Filled(state, evicted, b, s) ==
  [x \in Blocks |-> IF x = b THEN s ELSE IF x \in evicted THEN "INVALID" ELSE state[x]]

FilledOrder(used, evicted, b) == Marked(IF evicted = {} THEN used ELSE Tail(used), b)

-----------------------------------------------------------------------------
(* The MSHR of a first-level cache.  Only the first of an entry matters to *)
(* the code, and that is the request which made the entry.                 *)

(* Slip: the block number is left out of the key. *)
EntryAnyBlock(c, b) == {i \in Ids : held[i] > 0 /\ program[i].cache = c}

(* getMshrEntry(): the requests outstanding in c for b. *)
Entry(c, b) == {i \in Ids : held[i] > 0 /\ program[i].cache = c /\ program[i].block = b}

IsRead(i) == program[i].type = "Cache_Read"
IsReadOf(j, entry) == j \in entry /\ IsRead(j)

(* Slip: one copy of each request is removed. *)
RemovedOnce(entry) == [j \in Ids |-> IF j \in entry THEN held[j] - 1 ELSE held[j]]

(* removeRequestsByAddress() of a first-level cache. *)
Removed(entry) == [j \in Ids |-> IF j \in entry THEN 0 ELSE held[j]]

(* sendResponseToWaitingEvent(): each copy of a read is answered. *)
Given(entry) ==
  [j \in Ids |-> answers[j] + (IF IsReadOf(j, entry) THEN held[j] ELSE 0)]

(* Slip: the first request of the entry is removed. *)
RemovedFirst(b) == IF mshr2[b] = <<>> THEN mshr2 ELSE [mshr2 EXCEPT ![b] = Tail(@)]

(* removeRequestsByAddress() of L2. *)
Removed2(b) == [mshr2 EXCEPT ![b] = <<>>]

(* How often x occurs in a sequence. *)
Times(x, s) == Cardinality({k \in DOMAIN s : s[k] = x})

(* What a thread still has to put into the MSHR of L2: it is to look for   *)
(* an entry, to make one, or to join the one it has seen.  When it makes   *)
(* one, the event goes to the queue, if there is one.                      *)
Add(what, b, queue) == [what |-> what, block |-> b, queue |-> queue, step |-> "look"]

(* propogateWrite() or sendWriteRequest(), if p: to addEvent() of L2.      *)
WriteDown(p, b, queue) == IF p THEN <<Add(Write, b, queue)>> ELSE <<>>

One(p) == IF p THEN 1 ELSE 0

(* isBusy() of L2: all outstanding events count. *)
Busy2 == Cardinality(UNION {{b} \X DOMAIN mshr2[b] : b \in Blocks}) >= MshrSize

-----------------------------------------------------------------------------
(* The SP.                                                                 *)

(* The thread of c is not within a handler. *)
Idle(c) ==
  c \notin finished /\ adding[c] = NoRequest /\ again[c] = NoRequest /\ todo[c] = <<>>

(* addEvent() of a first-level cache for a new request: it makes an entry  *)
(* and becomes an event, or it has seen an entry.                          *)
Issue(i) ==
  LET c == program[i].cache IN
    /\ Idle(c) /\ i \notin issued
    /\ \A j \in 1 .. i - 1 : program[j].cache = c => j \in issued
    /\ issued' = issued \cup {i}
    /\ IF Entry(c, program[i].block) = {}
       THEN /\ held' = [held EXCEPT ![i] = 1]
            /\ queued' = queued \cup {i} /\ opened' = opened \cup {i}
            /\ UNCHANGED adding
       ELSE adding' = [adding EXCEPT ![c] = i] /\ UNCHANGED <<held, queued, opened>>
    /\ UNCHANGED <<program, again, finished, dropped, answers, state1, used1, level2, todo, link>>

(* Slip: the request stays to be added. *)
MergeAgain(c) ==
  LET i == adding[c] IN
    /\ i # NoRequest
    /\ Entry(c, program[i].block) # {}
    /\ held' = [held EXCEPT ![i] = @ + 1]
    /\ UNCHANGED <<sp, queued, answers, state1, used1, level2, todo, link>>

(* get().outStandingEvents.add() in addOutstandingRequest().  When the     *)
(* entry has gone, get() returns null, the exception is swallowed and the  *)
(* request is forgotten: false means "merged" to addEvent().               *)
Merge(c) ==
  LET i == adding[c] IN
    /\ i # NoRequest
    /\ adding' = [adding EXCEPT ![c] = NoRequest]
    /\ IF Entry(c, program[i].block) = {}
       THEN dropped' = dropped \cup {i} /\ UNCHANGED held
       ELSE held' = [held EXCEPT ![i] = @ + 1] /\ UNCHANGED dropped
    /\ UNCHANGED <<program, issued, again, finished, opened, queued, answers, state1, used1, level2,
                   todo, link>>

(* Slip: nothing is done when the lower cache is busy. *)
SendReadOrDrop(c, b) ==
  /\ reads' = IF Busy2 THEN reads ELSE [reads EXCEPT ![<<c, b>>] = @ + 1]
  /\ UNCHANGED waiting

(* sendRequestToNextLevel() and addEventAtLowerCache(): a read for which   *)
(* L2 has no room is put aside, and nobody ever looks for it again.        *)
SendRead(c, b) ==
  IF Busy2
  THEN waiting' = waiting \cup {<<c, b>>} /\ UNCHANGED reads
  ELSE reads' = [reads EXCEPT ![<<c, b>>] = @ + 1] /\ UNCHANGED waiting

(* handleAccess(), hit: read() or write() and processBlockAvailable().     *)
(* The requests of the entry are served, and then the event itself again.  *)
HandleHit(i) ==
  LET c == program[i].cache
      b == program[i].block
      entry == Entry(c, b)
      written == \E j \in entry : ~IsRead(j)
  IN
    /\ i \in queued /\ Idle(c)
    /\ state1[c][b] # "INVALID"
    /\ queued' = queued \ {i}
    /\ held' = Removed(entry)
    /\ answers' = IF IsRead(i) THEN [Given(entry) EXCEPT ![i] = @ + 1] ELSE Given(entry)
    /\ state1' = [state1 EXCEPT ![c][b] =
                    IF ~IsRead(i) \/ (written /\ c \in WriteBack) THEN "MODIFIED" ELSE @]
    /\ used1' = [used1 EXCEPT ![c] = Marked(@, b)]
    /\ todo' = [todo EXCEPT ![c] = WriteDown(~IsRead(i) /\ state1[c][b] # "MODIFIED", b, c)
                                     \o WriteDown(written /\ c \notin WriteBack, b, c)]
    /\ UNCHANGED <<sp, level2, link>>

(* handleAccess(), miss: sendRequestToNextLevel() ...                      *)
HandleMiss(i) ==
  LET c == program[i].cache
      b == program[i].block
  IN
    /\ i \in queued /\ Idle(c)
    /\ state1[c][b] = "INVALID"
    /\ queued' = queued \ {i}
    /\ SendRead(c, b)
    /\ again' = [again EXCEPT ![c] = i]
    /\ UNCHANGED <<program, issued, adding, finished, opened, dropped, held, answers, state1, used1,
                   level2, todo, responses, lost>>

(* ... and then addOutstandingRequest(), a second time for this request.   *)
(* When the response was faster this makes an entry nobody will serve.     *)
AddAgain(c) ==
  LET i == again[c]
      b == program[i].block
  IN
    /\ i # NoRequest
    /\ again' = [again EXCEPT ![c] = NoRequest]
    /\ IF Entry(c, b) = {}
       THEN /\ held' = [held EXCEPT ![i] = @ + 1] /\ lost' = lost \cup {<<c, b>>}
            /\ UNCHANGED adding
       ELSE adding' = [adding EXCEPT ![c] = i] /\ UNCHANGED <<held, lost>>
    /\ UNCHANGED <<program, issued, finished, opened, dropped, queued, answers, state1, used1, level2,
                   todo, reads, waiting, responses>>

(* clear() of the last SP of an SM: its queue, its MSHRs, and that of L2   *)
(* with what the other SMs have outstanding there.  A write that thread 0  *)
(* is about to add for it will be an event in a queue nobody reads.        *)
Clear(c) ==
  /\ Idle(c)
  /\ finished' = finished \cup {c}
  /\ held' = [i \in Ids |-> IF program[i].cache = c THEN 0 ELSE held[i]]
  /\ mshr2' = [b \in Blocks |-> <<>>]
  /\ lost' = lost \cup {cb \in Caches \X Blocks : Times(cb[1], mshr2[cb[2]]) > 0}
  /\ stranded' = stranded \cup
       {b \in Blocks : \E t \in Caches : \E k \in DOMAIN todo[t] :
                          todo[t][k].block = b /\ todo[t][k].queue = c}
  /\ UNCHANGED <<program, issued, adding, again, opened, dropped, queued, answers, state1, used1,
                 lines2, writes, memReads, todo, reads, waiting, responses>>

-----------------------------------------------------------------------------
(* Events handled by the core of thread 0.                                 *)

Running == Idle(thread0)

(* handleMemResponse() of a first-level cache: fillAndSatisfyRequests().   *)
(* The evicted line is written down also when it is clean, by an event     *)
(* with the queue of the first request of the entry.                       *)
Respond(c, b) ==
  LET entry == Entry(c, b)
      written == \E j \in entry : ~IsRead(j)
      evicted == Evicted(state1[c], used1[c], Ways1, b)
      down == {x \in evicted : ~(state1[c][x] = "MODIFIED" /\ c \notin WriteBack)}
      queue == IF entry = {} THEN thread0 ELSE c
  IN
    /\ Running
    /\ responses[<<c, b>>] > 0
    /\ responses' = [responses EXCEPT ![<<c, b>>] = @ - 1]
    /\ held' = Removed(entry)
    /\ answers' = Given(entry)
    /\ state1' = [state1 EXCEPT ![c] =
         Filled(@, evicted, b, IF written /\ c \in WriteBack THEN "MODIFIED" ELSE "EXCLUSIVE")]
    /\ used1' = [used1 EXCEPT ![c] = FilledOrder(@, evicted, b)]
    /\ todo' = [todo EXCEPT ![thread0] = WriteDown(down # {}, Head(used1[c]), queue)
                                           \o WriteDown(written /\ c \notin WriteBack, b, c)]
    /\ UNCHANGED <<sp, queued, level2, reads, waiting, lost>>

-----------------------------------------------------------------------------
(* L2.                                                                     *)

(* Slip: the first request of the entry is answered. *)
AnsweredFirst(list, b) ==
  responses' = [cb \in Caches \X Blocks |->
                  responses[cb] + One(cb[2] = b /\ list # <<>> /\ cb[1] = Head(list))]

(* L2 answers a list of requests for b: each read gets a response.         *)
Answered(list, b) ==
  responses' = [cb \in Caches \X Blocks |->
                  responses[cb] + (IF cb[2] = b THEN Times(cb[1], list) ELSE 0)]

(* processBlockAvailable() of L2 for the event e: the entry is served, and *)
(* then e, which removeRequestsByAddress() has made a copy of the entry's  *)
(* first request.  A read that becomes a write is never answered.          *)
Available(e, b) ==
  LET entry == mshr2[b]
      became == IF entry = <<>> THEN e ELSE Head(entry)
  IN
    /\ state2[b] # "INVALID"
    /\ mshr2' = Removed2(b)
    /\ Answered(Append(entry, became), b)
    /\ lost' = IF e # Write /\ Times(e, Append(entry, became)) = 0
               THEN lost \cup {<<e, b>>} ELSE lost
    /\ used2' = Marked(used2, b)
    /\ UNCHANGED memReads

(* handleAccess() of L2 by thread t, miss: every miss sends its own read,  *)
(* and is put into the MSHR after that.                                    *)
Miss2(t, e, b) ==
  /\ state2[b] = "INVALID"
  /\ memReads' = [memReads EXCEPT ![b] = @ + 1]
  /\ todo' = [todo EXCEPT ![t] = <<Add(e, b, NoQueue)>>]
  /\ UNCHANGED <<lines2, mshr2, responses, lost>>

HandleRead2(c, b) ==
  /\ Running
  /\ reads[<<c, b>>] > 0
  /\ reads' = [reads EXCEPT ![<<c, b>>] = @ - 1]
  /\ (Available(c, b) /\ UNCHANGED <<state2, todo>>) \/ Miss2(thread0, c, b)
  /\ UNCHANGED <<sp, level1, writes, stranded, waiting>>

(* A write is handled by the thread in whose queue it is. *)
HandleWrite2(t, b) ==
  /\ Idle(t)
  /\ writes[<<t, b>>] > 0
  /\ writes' = [writes EXCEPT ![<<t, b>>] = @ - 1]
  /\ \/ Available(Write, b) /\ state2' = [state2 EXCEPT ![b] = "MODIFIED"] /\ UNCHANGED todo
     \/ Miss2(t, Write, b)
  /\ UNCHANGED <<sp, level1, stranded, reads, waiting>>

(* addOutstandingRequest() of L2 by thread t: containsKey() ...            *)
Look2(t) ==
  LET a == Head(todo[t]) IN
    /\ todo[t] # <<>> /\ a.step = "look"
    /\ todo' = [todo EXCEPT ![t][1].step = IF mshr2[a.block] = <<>> THEN "new" ELSE "join"]
    /\ UNCHANGED <<sp, level1, level2, link>>

(* ... put(), which replaces an entry that another thread has just made;   *)
(* in addEvent() the request becomes an event ...                          *)
Put2(t) ==
  LET a == Head(todo[t]) IN
    /\ todo[t] # <<>> /\ a.step = "new"
    /\ todo' = [todo EXCEPT ![t] = Tail(@)]
    /\ mshr2' = [mshr2 EXCEPT ![a.block] = <<a.what>>]
    /\ writes' = IF a.queue = NoQueue THEN writes
                 ELSE [writes EXCEPT ![<<a.queue, a.block>>] = @ + 1]
    /\ lost' = lost \cup {cb \in Caches \X {a.block} : Times(cb[1], mshr2[a.block]) > 0}
    /\ UNCHANGED <<sp, level1, lines2, memReads, stranded, reads, waiting, responses>>

(* ... or get() and add(): when the entry has gone, the request is         *)
(* forgotten.                                                              *)
Join2(t) ==
  LET a == Head(todo[t]) IN
    /\ todo[t] # <<>> /\ a.step = "join"
    /\ todo' = [todo EXCEPT ![t] = Tail(@)]
    /\ IF mshr2[a.block] = <<>>
       THEN /\ lost' = lost \cup ({<<a.what, a.block>>} \cap (Caches \X Blocks))
            /\ UNCHANGED mshr2
       ELSE mshr2' = [mshr2 EXCEPT ![a.block] = Append(@, a.what)] /\ UNCHANGED lost
    /\ UNCHANGED <<sp, level1, lines2, writes, memReads, stranded, reads, waiting, responses>>

(* Thread t has sent a read for b and is to put its request into the MSHR. *)
AddsLate(t, b) ==
  \E k \in DOMAIN todo[t] : todo[t][k].block = b /\ todo[t][k].queue = NoQueue

(* handleMemResponse() of L2.  An evicted clean line sends the type of the *)
(* entry's first request to memory again: another read if it is a read.    *)
(* A thread that has sent a read for b may not have made its entry yet.    *)
Respond2(b) ==
  LET entry == mshr2[b]
      evicted == Evicted(state2, used2, Ways2, b)
      readsAgain == entry # <<>> /\ Head(entry) # Write /\ \E x \in evicted : state2[x] = "EXCLUSIVE"
  IN
    /\ Running
    /\ memReads[b] > 0
    /\ memReads' = [memReads EXCEPT ![b] = @ - 1 + One(readsAgain)]
    /\ mshr2' = Removed2(b)
    /\ state2' = Filled(state2, evicted, b, "EXCLUSIVE")
    /\ used2' = FilledOrder(used2, evicted, b)
    /\ Answered(entry, b)
    /\ stranded' = IF memReads'[b] = 0 /\ \E t \in Caches : AddsLate(t, b)
                   THEN stranded \cup {b} ELSE stranded
    /\ UNCHANGED <<sp, level1, writes, todo, reads, waiting, lost>>

-----------------------------------------------------------------------------
Next ==
  \/ \E c \in Caches :
       \/ Merge(c) \/ AddAgain(c) \/ Clear(c)
       \/ Look2(c) \/ Put2(c) \/ Join2(c)
       \/ \E b \in Blocks : Respond(c, b) \/ HandleRead2(c, b) \/ HandleWrite2(c, b)
  \/ \E i \in Ids : Issue(i) \/ HandleHit(i) \/ HandleMiss(i)
  \/ \E b \in Blocks : Respond2(b)

(* Each SP's loop drains its queue every cycle until it hands over, and    *)
(* the DRAM answers.  A handler waits only for its own thread.             *)
Fairness ==
  /\ \A c \in Caches : WF_vars(Merge(c) \/ AddAgain(c) \/ Look2(c) \/ Put2(c) \/ Join2(c))
  /\ \A c \in Caches, b \in Blocks :
       WF_vars(Respond(c, b)) /\ WF_vars(HandleRead2(c, b)) /\ WF_vars(HandleWrite2(c, b))
  /\ \A i \in Ids : WF_vars(HandleHit(i) \/ HandleMiss(i))
  /\ \A b \in Blocks : WF_vars(Respond2(b))

Spec == Init /\ [][Next]_vars
FairSpec == Spec /\ Fairness

-----------------------------------------------------------------------------
(* Properties                                                              *)

(* Every variable keeps its range; at most two copies of a request.        *)
TypeOK ==
  /\ program \in Programs /\ issued \subseteq Ids
  /\ {adding, again} \subseteq [Caches -> Ids \cup {NoRequest}] /\ finished \subseteq Caches
  /\ held \in [Ids -> 0 .. 2] /\ answers \in [Ids -> Nat]
  /\ queued \subseteq Ids /\ opened \subseteq Ids /\ dropped \subseteq Ids
  /\ state1 \in [Caches -> [Blocks -> MESI]] /\ used1 \in [Caches -> Seq(Blocks)]
  /\ state2 \in [Blocks -> MESI] /\ used2 \in Seq(Blocks)
  /\ mshr2 \in [Blocks -> Seq(Caches \cup {Write})]
  /\ reads \in [Caches \X Blocks -> Nat] /\ responses \in [Caches \X Blocks -> Nat]
  /\ writes \in [Caches \X Blocks -> Nat] /\ memReads \in [Blocks -> Nat]
  /\ todo \in [Caches -> Seq([what : Caches \cup {Write}, block : Blocks,
                              queue : Caches \cup {NoQueue}, step : {"look", "new", "join"}])]
  /\ waiting \subseteq Caches \X Blocks /\ lost \subseteq Caches \X Blocks
  /\ stranded \subseteq Blocks

(* What a request still gets. *)
Owed(i) ==
  IF program[i].cache \notin finished
  THEN held[i] + One(\/ i \in queued \/ again[program[i].cache] = i
                     \/ i \in opened /\ adding[program[i].cache] = i)
  ELSE 0

(* A read whose SP goes on is answered or owed an answer exactly as often  *)
(* as addEvent() decided: twice when it made the entry, once when it       *)
(* joined one, and once less when an entry it had seen went away under it. *)
RequestsAccounted ==
  \A i \in issued :
    program[i].cache \notin finished /\ IsRead(i) =>
      answers[i] + Owed(i) + One(i \in dropped)
        = IF i \in opened THEN 2 ELSE One(adding[program[i].cache] # i)

(* Thread 0 is to put the read of c for b into the MSHR of L2. *)
AtHand(c, b) ==
  todo[thread0] # <<>> /\ Head(todo[thread0]).what = c /\ Head(todo[thread0]).block = b

(* The entry of a first-level cache has one thing under way that will      *)
(* serve it: its event, its read to L2, its place in an entry of L2 or the *)
(* hands of thread 0, which is to put it there, the response, or it is     *)
(* known to be stuck.  Without an entry there is none.                     *)
EntriesServed ==
  \A c \in Caches \ finished, b \in Blocks :
    LET event == {i \in queued : program[i].cache = c /\ program[i].block = b} IN
      Cardinality(event) + reads[<<c, b>>] + One(AtHand(c, b)) + Times(c, mshr2[b])
        + responses[<<c, b>>] + One(<<c, b>> \in waiting) + One(<<c, b>> \in lost)
      = One(Entry(c, b) # {})

(* A read in L2 always has a read in memory that will serve it.  An entry  *)
(* of writes has that, or an event of an SP that goes on, unless it was    *)
(* made too late: memory had answered when the thread that sent the read   *)
(* put its write into the MSHR, or the SP of the event had handed over.    *)
LowerEntriesServed ==
  \A b \in Blocks :
    /\ (\E c \in Caches : Times(c, mshr2[b]) > 0) => memReads[b] > 0
    /\ mshr2[b] # <<>> => \/ memReads[b] > 0 \/ b \in stranded
                          \/ \E t \in Caches \ finished : writes[<<t, b>>] > 0

(* Every read is answered, unless its SP or that of thread 0 hands over,   *)
(* L2 was full, or L2 forgot the read of the block.                        *)
ReadsAnswered ==
  \A i \in Ids :
    (i \in issued /\ IsRead(i)) ~>
      \/ answers[i] > 0 \/ i \in dropped
      \/ finished \cap {program[i].cache, thread0} # {}
      \/ <<program[i].cache, program[i].block>> \in waiting \cup lost

(* The caches are a coalescing memory. *)
M == INSTANCE CoalescingMemory WITH owed <- [i \in Ids |-> Owed(i)]
Coalesces == M!Spec

(* "On occurrence of such events, we just add this event to the pending    *)
(* events list of the lower level cache" (Cache.java:465): a read that is  *)
(* put aside when L2 is full is answered all the same.                     *)
PendingEventsAnswered ==
  \A i \in Ids :
    (i \in issued /\ IsRead(i)) ~>
      \/ answers[i] > 0 \/ i \in dropped
      \/ finished \cap {program[i].cache, thread0} # {}
      \/ <<program[i].cache, program[i].block>> \in lost
=============================================================================
