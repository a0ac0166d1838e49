---------------------------- MODULE DRAMController ----------------------------
(***************************************************************************)
(* One channel of the DRAM: its controller with the command queues, its    *)
(* only rank, and the two threads that work on them.  The DRAM thread pops *)
(* one command per cycle and sends it to the rank as an event; thread 0    *)
(* handles the events of its core, those of the rank among them, and steps *)
(* the clock.  Controller and rank share the states of the banks.          *)
(* Modelled is the shipped configuration: OpenPage, PerRankPerBank, one    *)
(* rank, no posted CAS, one runner thread (so one clock).                  *)
(***************************************************************************)
EXTENDS Naturals, FiniteSets, SequencesExt

CONSTANTS
  numBanks, Rows,
  Requests,            \* what the channel may be asked for
  MaxRequests,         \* requests of a behaviour
  MaxClock,            \* the clock of a core stops here
  MaxClears,           \* hand-overs of thread 0
  RAMclock,            \* what counter1 goes on by in a cycle, for all channels
  RefreshPeriod,       \* cycles from one refresh to the next
  TOTAL_ROW_ACCESSES,
  MaxActivates, tFAW,  \* at most 4 activates in the code, in tFAW cycles
  tCMD, tCCD, tBL2,    \* tBL2 is tBL / 2
  tRL, tRCD, tRAS, tRC, tRP, tRRD, tRFC,
  ReadToPreDelay, ReadToWriteDelay, WriteToPreDelay, WriteToReadDelayB

Banks == 0 .. numBanks - 1
Ids == 1 .. MaxRequests
Columns == {"READ", "WRITE"}
Types == Columns \cup {"ACTIVATE", "PRECHARGE", "REFRESH"}
NoId == 0
NoRow == 0

ASSUME DRAMAssumption ==
  /\ numBanks \in Nat \ {0} /\ Rows \subseteq Nat \ {NoRow}
  /\ Requests \subseteq [type : Columns, bank : Banks, row : Rows]
  /\ MaxRequests \in Nat /\ MaxClock \in Nat /\ MaxClears \in Nat
  /\ {RAMclock, RefreshPeriod, TOTAL_ROW_ACCESSES, tFAW, tRP, tRFC} \subseteq Nat \ {0}
  /\ {MaxActivates, tCMD, tCCD, tBL2, tRL, tRCD, tRAS, tRC, tRRD,
      ReadToPreDelay, ReadToWriteDelay, WriteToPreDelay, WriteToReadDelayB} \subseteq Nat

Larger(m, n) == IF m > n THEN m ELSE n

(* How the delays of config.xml compare (lines 181 to 190): a command is   *)
(* at the rank before a precharge or a refresh is over (1 against 11 and   *)
(* 88), and a row takes longer to open than the data of a read to follow   *)
(* those of another (11 against 4).                                        *)
ASSUME TimingAssumption ==
  /\ tCMD < tRP /\ tCMD < tRFC
  /\ Larger(tCCD, tBL2) <= tRCD

(* A request is a column command; its ACTIVATE has the same id. *)
Packet == [type : Types, id : Ids \cup {NoId}, bank : Banks, row : Rows \cup {NoRow}]
NoPacket == [type |-> "REFRESH", id |-> NoId, bank |-> 0, row |-> NoRow]

VARIABLES
  clock,           \* GlobalClock, and the local clock of the core
  draining,        \* the core is in processEvents()
  events,          \* in the queue of the core: [time, kind, packet]
  received,        \* requests received so far; they are numbered
  pending,         \* pendingTransQueue
  queues,          \* queues[b]: command queue of bank b
  banks,           \* bankStates
  accesses,        \* rowAccessCounters
  faw,             \* tFAWCountdown
  nextBank, nextBankPRE,
  refreshWaiting, refreshCount,
  busFreeTime,
  pc,              \* where the DRAM thread is
  counter1,
  now,             \* its currentTime
  core0,           \* the core whose queue it has taken
  command,         \* the command it has popped
  taken,           \* the request it is putting into a command queue
  length,          \* of pending, as the remove() that is under way has read it
  clears,          \* hand-overs so far
  answered, written, dropped, lost,  \* history: what became of a request
  copied,          \* history: requests that were put twice into pending
  torn,            \* history: requests whose ACTIVATE went to a queue that is gone
  late             \* history: a state update was sent after it was due

clocks == <<clock, draining, clears>>
queueVars == <<queues, accesses, faw, nextBank, nextBankPRE, refreshWaiting, refreshCount>>
thread == <<pc, counter1, now, core0, command, taken, length>>
history == <<answered, written, dropped, lost, copied, torn, late>>
vars == <<clocks, events, received, pending, queueVars, banks, busFreeTime, thread, history>>

FreshBank == [state |-> "IDLE", last |-> "READ", row |-> NoRow, nextRead |-> 0,
              nextWrite |-> 0, nextActivate |-> 0, nextPrecharge |-> 0]

FreshController ==
  /\ pending = <<>>
  /\ queues = [b \in Banks |-> <<>>] /\ accesses = [b \in Banks |-> 0] /\ faw = <<>>
  /\ nextBank = 0 /\ nextBankPRE = 0
  /\ refreshWaiting = FALSE /\ refreshCount = RefreshPeriod
  /\ banks = [b \in Banks |-> FreshBank]

Init ==
  /\ clock = 0 /\ draining = TRUE /\ clears = 0 /\ events = {} /\ received = 0
  /\ FreshController /\ busFreeTime = 0
  /\ pc = "sleep" /\ counter1 = 0 /\ now = 0 /\ core0 = 0 /\ command = NoPacket
  /\ taken = NoPacket /\ length = 0
  /\ answered = {} /\ written = {} /\ dropped = {} /\ lost = {}
  /\ copied = {} /\ torn = {} /\ late = FALSE

-----------------------------------------------------------------------------
(* CommandQueue.pop()                                                      *)

Open(b) == banks[b].state = "ROW_ACTIVE"

(* Slip: the oldest is not removed at 0. *)
WindowKept == [k \in DOMAIN faw |-> faw[k] - 1]

(* The countdowns of pop(): all lose one, and the oldest ends at 0. *)
Window ==
  LET left == [k \in DOMAIN faw |-> faw[k] - 1] IN
    IF left # <<>> /\ Head(left) = 0 THEN Tail(left) ELSE left

isIssuable(p) ==
  LET bank == banks[p.bank] IN
    IF p.type = "ACTIVATE"
    THEN /\ bank.state \in {"IDLE", "REFRESHING"}
         /\ now >= bank.nextActivate
         /\ Len(Window) < MaxActivates
    ELSE /\ Open(p.bank) /\ p.row = bank.row
         /\ now >= (IF p.type = "READ" THEN bank.nextRead ELSE bank.nextWrite)
         /\ accesses[p.bank] < TOTAL_ROW_ACCESSES

(* The places in the queue of b that go to the open row. *)
Hits(b) == {i \in DOMAIN queues[b] : queues[b][i].row = banks[b].row}

(* What pop() returns: the command at place last, which takes all from     *)
(* place first with it, or one that is in no queue.                        *)
Queued(b, first, last) == {[packet |-> queues[b][last], first |-> first, last |-> last]}
Control(type, b) ==
  {[packet |-> [NoPacket EXCEPT !.type = type, !.bank = b], first |-> 1, last |-> 0]}

(* A refresh is due: the first bank that is open, or must not be activated *)
(* yet, decides.  What its open row still has to do is done, then it is    *)
(* closed; without such a bank the refresh is sent.                        *)
ForRefresh ==
  LET inTheWay == {b \in Banks : Open(b) \/ banks[b].nextActivate > now} IN
    IF inTheWay = {} THEN Control("REFRESH", 0)
    ELSE LET b == Min(inTheWay)
             i == Min(Hits(b))
         IN IF ~Open(b) THEN {}
            ELSE IF Hits(b) = {} \/ queues[b][i].type = "ACTIVATE"
            THEN IF now >= banks[b].nextPrecharge THEN Control("PRECHARGE", b) ELSE {}
            ELSE IF isIssuable(queues[b][i]) THEN Queued(b, i, i) ELSE {}

(* The first issuable command that overtakes no column command to its row. *)
Ready(b) ==
  {i \in DOMAIN queues[b] :
     /\ isIssuable(queues[b][i])
     /\ \A j \in 1 .. i - 1 :
          queues[b][j].type # "ACTIVATE" => queues[b][j].row # queues[b][i].row}

(* Round robin: the first of the banks B, counted from b on. *)
FirstFrom(b, B) == (b + Min({(x + numBanks - b) % numBanks : x \in B})) % numBanks

(* An ACTIVATE right before the command goes with it. *)
FirstRemoved(b, i) == IF i > 1 /\ queues[b][i - 1].type = "ACTIVATE" THEN i - 1 ELSE i

ForRequest ==
  LET ready == {b \in Banks : Ready(b) # {}} IN
    IF ready = {} THEN {}
    ELSE LET b == FirstFrom(nextBank, ready)
             i == Min(Ready(b))
         IN Queued(b, FirstRemoved(b, i), i)

(* Nothing to issue: a row nobody needs, or used too often, is closed. *)
ForClosing ==
  LET closable == {b \in Banks :
        /\ Open(b) /\ now >= banks[b].nextPrecharge
        /\ Hits(b) = {} \/ accesses[b] = TOTAL_ROW_ACCESSES}
  IN IF closable = {} THEN {} ELSE Control("PRECHARGE", FirstFrom(nextBankPRE, closable))

NeedRefresh == refreshWaiting \/ refreshCount = 0

Popped ==
  IF NeedRefresh /\ ForRefresh # {} THEN ForRefresh
  ELSE IF ~NeedRefresh /\ ForRequest # {} THEN ForRequest
  ELSE ForClosing

-----------------------------------------------------------------------------
(* The DRAM thread.                                                        *)

(* The states of the banks after the controller has issued p. *)
Issued(p) ==
  [b \in Banks |->
     LET bank == banks[b] IN
     CASE p.type = "READ" ->
            [bank EXCEPT !.nextRead = Larger(now + Larger(tCCD, tBL2), @),
                         !.nextWrite = Larger(now + ReadToWriteDelay, @),
                         !.nextPrecharge = IF b = p.bank THEN Larger(now + ReadToPreDelay, @) ELSE @,
                         !.last = IF b = p.bank THEN "READ" ELSE @]
       [] p.type = "WRITE" ->
            [bank EXCEPT !.nextWrite = Larger(now + Larger(tCCD, tBL2), @),
                         !.nextRead = Larger(now + WriteToReadDelayB, @),
                         !.nextPrecharge = IF b = p.bank THEN Larger(now + WriteToPreDelay, @) ELSE @,
                         !.last = IF b = p.bank THEN "WRITE" ELSE @]
       [] p.type = "ACTIVATE" /\ b = p.bank ->
            [bank EXCEPT !.state = "ROW_ACTIVE", !.last = "ACTIVATE", !.row = p.row,
                         !.nextActivate = Larger(now + tRC, @),
                         !.nextPrecharge = Larger(now + tRAS, @),
                         !.nextRead = Larger(now + tRCD, @), !.nextWrite = Larger(now + tRCD, @)]
       [] p.type = "ACTIVATE" /\ b # p.bank ->
            [bank EXCEPT !.nextActivate = Larger(now + tRRD, @)]
       [] p.type = "PRECHARGE" ->
            IF b # p.bank THEN bank
            ELSE [bank EXCEPT !.state = "PRECHARGING", !.last = "PRECHARGE",
                              !.nextActivate = Larger(now + tRP, @)]
       [] p.type = "REFRESH" ->
            [bank EXCEPT !.state = "REFRESHING", !.last = "REFRESH", !.nextActivate = now + tRFC]]

(* run(): a cycle starts when the clock is ahead of counter1. *)
StartCycle ==
  /\ pc = "sleep" /\ counter1 < clock
  /\ now' = clock /\ core0' = clears /\ pc' = "pop"
  /\ UNCHANGED <<clocks, events, received, pending, queueVars, banks, busFreeTime,
                 counter1, command, taken, length, history>>

(* oneCycleOperation() up to the change of the states of the banks. *)
Pop ==
  /\ pc = "pop"
  /\ refreshCount' = (IF refreshCount = 0 THEN RefreshPeriod ELSE refreshCount) - 1
  /\ \/ /\ Popped = {}
        /\ pc' = "enqueue" /\ faw' = Window /\ refreshWaiting' = NeedRefresh
        /\ UNCHANGED <<queues, accesses, nextBank, nextBankPRE, banks, command>>
     \/ \E c \in Popped :
          LET p == c.packet IN
            /\ pc' = "send" /\ command' = p
            /\ queues' = [queues EXCEPT ![p.bank] =
                 SubSeq(@, 1, c.first - 1) \o SubSeq(@, c.last + 1, Len(@))]
            /\ accesses' = [accesses EXCEPT ![p.bank] =
                 IF p.type = "PRECHARGE" THEN 0 ELSE IF c.first < c.last THEN @ + 1 ELSE @]
            /\ faw' = IF p.type = "ACTIVATE" THEN Append(Window, tFAW) ELSE Window
            /\ nextBank' =
                 ((IF ~NeedRefresh /\ ForRequest # {} THEN p.bank ELSE nextBank) + 1) % numBanks
            /\ nextBankPRE' =
                 IF (NeedRefresh /\ ForRefresh # {}) \/ (~NeedRefresh /\ ForRequest # {})
                 THEN nextBankPRE ELSE p.bank
            /\ refreshWaiting' = (NeedRefresh /\ p.type # "REFRESH")
            /\ banks' = Issued(p)
  /\ UNCHANGED <<clocks, events, received, pending, busFreeTime,
                 counter1, now, core0, taken, length, history>>

Event(time, kind, p) == [time |-> time, kind |-> kind, packet |-> p]

(* Slip: the update comes a tick later. *)
StateUpdatesLater(p) ==
  CASE p.type = "PRECHARGE" -> {Event(now + tRP, "update", p)}
    [] p.type = "REFRESH" -> {Event(now + tRFC, "update", p)}
    [] OTHER -> {}

(* Mem_Cntrlr_State_Update, for the end of a precharge or a refresh. *)
StateUpdates(p) ==
  CASE p.type = "PRECHARGE" -> {Event(now + tRP - 1, "update", p)}
    [] p.type = "REFRESH" -> {Event(now + tRFC - 1, "update", p)}
    [] OTHER -> {}

(* The rest of oneCycleOperation(): the events.  When thread 0 has handed  *)
(* over in between they land in the queue of a core that is finished.      *)
Send ==
  /\ pc = "send"
  /\ pc' = "enqueue" /\ command' = NoPacket
  /\ IF core0 = clears
     THEN /\ events' = events \cup {Event(now + tCMD, "command", command)} \cup StateUpdates(command)
          /\ UNCHANGED lost
     ELSE /\ lost' = IF command.type \in Columns THEN lost \cup {command.id} ELSE lost
          /\ UNCHANGED events
  /\ late' = (late \/ \E e \in StateUpdates(command) : e.time <= clock)
  /\ UNCHANGED <<clocks, received, pending, queueVars, banks, busFreeTime,
                 counter1, now, core0, taken, length,
                 answered, written, dropped, copied, torn>>

(* enqueueToCommandQ(), for the first transaction; there is always room in  *)
(* the queue of its bank.  Each line reads pendingTransQueue or             *)
(* commandQueue anew: after a hand-over it finds the fresh one.             *)
Take ==
  /\ pc = "enqueue" /\ pending # <<>>
  /\ pc' = "activate" /\ taken' = Head(pending)
  /\ UNCHANGED <<clocks, events, received, pending, queueVars, banks, busFreeTime,
                 counter1, now, core0, command, length, history>>

Activate(p) == [p EXCEPT !.type = "ACTIVATE"]

(* One more command in the queue of its bank. *)
Enqueue(p) ==
  /\ queues' = [queues EXCEPT ![p.bank] = Append(@, p)]
  /\ UNCHANGED <<clocks, events, received, pending, accesses, faw, nextBank, nextBankPRE,
                 refreshWaiting, refreshCount, banks, busFreeTime, counter1, now, core0, command,
                 taken, length, history>>

EnqueueActivate ==
  /\ pc = "activate" /\ pc' = "column"
  /\ Enqueue(Activate(taken))

EnqueueColumn ==
  /\ pc = "column" /\ pc' = "remove"
  /\ Enqueue(taken)

(* ArrayList.remove(0), of whatever is the first then; without one there   *)
(* is an exception, which ends the loop.  First all the others move up,    *)
(* which leaves the last one in its old place too ...                      *)
Shift ==
  /\ pc = "remove" /\ taken' = NoPacket
  /\ IF pending = <<>>
     THEN /\ pc' = "sleep" /\ counter1' = counter1 + RAMclock
          /\ UNCHANGED <<pending, length, lost>>
     ELSE /\ pc' = "shift" /\ length' = Len(pending)
          /\ pending' = Append(Tail(pending), Last(pending))
          /\ lost' = lost \cup ({Head(pending).id} \ {taken.id})
          /\ UNCHANGED counter1
  /\ UNCHANGED <<clocks, events, received, queueVars, banks, busFreeTime, now, core0, command,
                 answered, written, dropped, copied, torn, late>>

(* ... then the size is read again, and the last place is cut off.  That   *)
(* is not the place left over when a request has been added in the         *)
(* meantime.                                                               *)
Cut ==
  /\ pc = "shift" /\ pc' = "cut" /\ length' = 0
  /\ pending' = Front(pending)
  /\ IF Len(pending) > length
     THEN copied' = copied \cup {pending[length].id} /\ lost' = lost \cup {Last(pending).id}
     ELSE UNCHANGED <<copied, lost>>
  /\ UNCHANGED <<clocks, events, received, queueVars, banks, busFreeTime,
                 counter1, now, core0, command, taken, answered, written, dropped, torn, late>>

(* At last the size is written. *)
Removed ==
  /\ pc = "cut" /\ pc' = "enqueue"
  /\ UNCHANGED <<clocks, events, received, pending, queueVars, banks, busFreeTime,
                 counter1, now, core0, command, taken, length, history>>

EndCycle ==
  /\ pc = "enqueue" /\ pending = <<>>
  /\ pc' = "sleep" /\ counter1' = counter1 + RAMclock
  /\ UNCHANGED <<clocks, events, received, pending, queueVars, banks, busFreeTime,
                 now, core0, command, taken, length, history>>

-----------------------------------------------------------------------------
(* Thread 0.                                                               *)

(* A request of L2 to this channel.  Row and bank are drawn at random.     *)
(* What ArrayList.add() does between the last read of the size by a        *)
(* remove() and its write is undone by it.                                 *)
Receive(r) ==
  /\ draining /\ received < MaxRequests
  /\ received' = received + 1
  /\ IF pc = "cut"
     THEN lost' = lost \cup {received'} /\ UNCHANGED pending
     ELSE /\ pending' = Append(pending, [type |-> r.type, id |-> received', bank |-> r.bank,
                                         row |-> r.row])
          /\ UNCHANGED lost
  /\ UNCHANGED <<clocks, events, queueVars, banks, busFreeTime, thread,
                 answered, written, dropped, copied, torn, late>>

(* The next event of the queue. *)
Due(e, kind) ==
  /\ draining
  /\ e.kind = kind /\ e.time <= clock
  /\ \A f \in events : e.time <= f.time

Command(e, type) == Due(e, "command") /\ e.packet.type = type

(* Slip: the time is not looked at. *)
ReadAllowedAnytime(p) == Open(p.bank) /\ p.row = banks[p.bank].row

ReadAllowed(p) ==
  Open(p.bank) /\ p.row = banks[p.bank].row /\ clock >= banks[p.bank].nextRead

(* A READ that is not allowed is dropped. *)
RankRead(e) ==
  LET p == e.packet IN
    /\ Command(e, "READ")
    /\ IF ReadAllowed(p)
       THEN /\ events' = (events \ {e}) \cup {Event(e.time + tRL, "column", p)}
            /\ banks' = [b \in Banks |->
                 [banks[b] EXCEPT
                    !.nextRead = Larger(@, clock + Larger(tCCD, tBL2)),
                    !.nextWrite = Larger(@, clock + ReadToWriteDelay),
                    !.nextPrecharge = IF b = p.bank THEN Larger(@, clock + ReadToPreDelay) ELSE @]]
            /\ UNCHANGED dropped
       ELSE events' = events \ {e} /\ dropped' = dropped \cup {p.id} /\ UNCHANGED banks
    /\ UNCHANGED <<clocks, received, pending, queueVars, busFreeTime, thread,
                   answered, written, lost, copied, torn, late>>

(* A WRITE is never refused. *)
RankWrite(e) ==
  LET p == e.packet IN
    /\ Command(e, "WRITE")
    /\ events' = events \ {e} /\ written' = written \cup {p.id}
    /\ banks' = [b \in Banks |->
         [banks[b] EXCEPT
            !.nextWrite = Larger(@, clock + Larger(tCCD, tBL2)),
            !.nextRead = Larger(@, clock + WriteToReadDelayB),
            !.nextPrecharge = IF b = p.bank THEN Larger(@, clock + WriteToPreDelay) ELSE @]]
    /\ UNCHANGED <<clocks, received, pending, queueVars, busFreeTime, thread,
                   answered, dropped, lost, copied, torn, late>>

RankActivate(e) ==
  LET p == e.packet
      bank == banks[p.bank]
  IN
    /\ Command(e, "ACTIVATE")
    /\ events' = events \ {e}
    /\ banks' =
         IF bank.state # "IDLE" \/ clock < bank.nextActivate THEN banks
         ELSE [b \in Banks |->
                 IF b # p.bank
                 THEN [banks[b] EXCEPT !.nextActivate = Larger(@, clock + tRRD)]
                 ELSE [bank EXCEPT !.state = "ROW_ACTIVE", !.row = p.row,
                         !.nextActivate = clock + tRC, !.nextPrecharge = clock + tRAS,
                         !.nextRead = clock + tRCD, !.nextWrite = clock + tRCD]]
    /\ UNCHANGED <<clocks, received, pending, queueVars, busFreeTime, thread, history>>

RankPrecharge(e) ==
  LET b == e.packet.bank IN
    /\ Command(e, "PRECHARGE")
    /\ events' = events \ {e}
    /\ banks' = IF Open(b) /\ clock >= banks[b].nextPrecharge
                THEN [banks EXCEPT ![b].state = "IDLE",
                                   ![b].nextActivate = Larger(@, clock + tRP)]
                ELSE banks
    /\ UNCHANGED <<clocks, received, pending, queueVars, busFreeTime, thread, history>>

(* The loop over the banks ends at the first that is not idle. *)
RankRefresh(e) ==
  /\ Command(e, "REFRESH")
  /\ events' = events \ {e}
  /\ banks' = [b \in Banks |->
       IF \A x \in 0 .. b : banks[x].state = "IDLE"
       THEN [banks[b] EXCEPT !.nextActivate = clock + tRFC] ELSE banks[b]]
  /\ UNCHANGED <<clocks, received, pending, queueVars, busFreeTime, thread, history>>

(* handleEvent() of the controller: what the update does depends on the    *)
(* last command to its bank, not on the one it was made for.               *)
StateUpdate(e) ==
  LET b == e.packet.bank IN
    /\ Due(e, "update")
    /\ events' = events \ {e}
    /\ banks' = CASE banks[b].last = "REFRESH" ->
                       [x \in Banks |-> [banks[x] EXCEPT !.state = "IDLE"]]
                 [] banks[b].last = "PRECHARGE" -> [banks EXCEPT ![b].state = "IDLE"]
                 [] OTHER -> banks
    /\ UNCHANGED <<clocks, received, pending, queueVars, busFreeTime, thread, history>>

(* Slip: data that finds the bus busy is not tried again. *)
ColumnReadCompleteOnce(e) ==
  /\ Due(e, "column")
  /\ events' = (events \ {e}) \cup
        (IF clock < busFreeTime THEN {} ELSE {Event(e.time + tBL2, "response", e.packet)})
  /\ busFreeTime' = IF clock < busFreeTime THEN busFreeTime ELSE clock + tBL2
  /\ UNCHANGED <<clocks, received, pending, queueVars, banks, thread, history>>

(* Column_Read_Complete: the data goes out when the bus is free. *)
ColumnReadComplete(e) ==
  /\ Due(e, "column")
  /\ IF clock >= busFreeTime
     THEN /\ busFreeTime' = clock + tBL2
          /\ events' = (events \ {e}) \cup {Event(e.time + tBL2, "response", e.packet)}
     ELSE /\ events' = (events \ {e}) \cup
                         {Event(e.time + (busFreeTime - clock), "column", e.packet)}
          /\ UNCHANGED busFreeTime
  /\ UNCHANGED <<clocks, received, pending, queueVars, banks, thread, history>>

(* Rank_Response: Mem_Response to L2. *)
RankResponse(e) ==
  /\ Due(e, "response")
  /\ events' = events \ {e} /\ answered' = answered \cup {e.packet.id}
  /\ UNCHANGED <<clocks, received, pending, queueVars, banks, busFreeTime, thread,
                 written, dropped, lost, copied, torn, late>>

(* processEvents() returns; the rest of the cycle; the next one begins. *)
EndEvents ==
  /\ draining /\ \A e \in events : e.time > clock
  /\ draining' = FALSE
  /\ UNCHANGED <<clock, clears, events, received, pending, queueVars, banks, busFreeTime,
                 thread, history>>

Tick ==
  /\ ~draining /\ clock < MaxClock
  /\ clock' = clock + 1 /\ draining' = TRUE
  /\ UNCHANGED <<clears, events, received, pending, queueVars, banks, busFreeTime,
                 thread, history>>

(* The request that the DRAM thread has in hand. *)
Hand ==
  {p \in CASE pc = "send" -> {command} [] pc \in {"activate", "column"} -> {taken} [] OTHER -> {} :
     p.type \in Columns}

(* Requests that wait in the controller or in the queue of the core.  What *)
(* enqueueToCommandQ() has in hand gets into the fresh queues.             *)
UnderWay ==
  ({pending[k].id : k \in DOMAIN pending}
    \cup (UNION {{queues[b][k].id : k \in DOMAIN queues[b]} : b \in Banks})
    \cup {e.packet.id : e \in {f \in events : f.packet.type \in Columns}})
    \ {p.id : p \in Hand}

(* initialize() of thread 0 at a hand-over, with clear() of the DRAM       *)
(* thread and of the controller.  busFreeTime stays.  A remove() that is   *)
(* under way goes on with a list that is gone.                             *)
Clear ==
  /\ ~draining /\ clears < MaxClears
  /\ clears' = clears + 1 /\ clock' = 0 /\ draining' = TRUE /\ counter1' = 0
  /\ events' = {}
  /\ pending' = <<>>
  /\ queues' = [b \in Banks |-> <<>>] /\ accesses' = [b \in Banks |-> 0] /\ faw' = <<>>
  /\ nextBank' = 0 /\ nextBankPRE' = 0
  /\ refreshWaiting' = FALSE /\ refreshCount' = RefreshPeriod
  /\ banks' = [b \in Banks |-> FreshBank]
  /\ lost' = lost \cup UnderWay
  /\ torn' = IF pc = "column" THEN torn \cup {taken.id} ELSE torn
  /\ pc' = (IF pc \in {"shift", "cut"} THEN "enqueue" ELSE pc) /\ length' = 0
  /\ UNCHANGED <<received, busFreeTime, now, core0, command, taken,
                 answered, written, dropped, copied, late>>

Next ==
  \/ StartCycle \/ Pop \/ Send \/ EndCycle
  \/ Take \/ EnqueueActivate \/ EnqueueColumn \/ Shift \/ Cut \/ Removed
  \/ EndEvents \/ Tick \/ Clear
  \/ \E r \in Requests : Receive(r)
  \/ \E e \in events :
       \/ RankRead(e) \/ RankWrite(e) \/ RankActivate(e) \/ RankPrecharge(e) \/ RankRefresh(e)
       \/ StateUpdate(e) \/ ColumnReadComplete(e) \/ RankResponse(e)

Spec == Init /\ [][Next]_vars

-----------------------------------------------------------------------------
(* Properties                                                              *)

(* Every variable keeps its range: no counter of pop() runs away. *)
TypeOK ==
  /\ clock \in 0 .. MaxClock /\ draining \in BOOLEAN /\ clears \in 0 .. MaxClears
  /\ events \subseteq [time : Nat, kind : {"command", "update", "column", "response"},
                       packet : Packet]
  /\ received \in 0 .. MaxRequests /\ pending \in Seq(Packet)
  /\ queues \in [Banks -> Seq(Packet)]
  /\ banks \in [Banks -> [state : {"IDLE", "ROW_ACTIVE", "PRECHARGING", "REFRESHING"},
                          last : Types, row : Rows \cup {NoRow}, nextRead : Nat,
                          nextWrite : Nat, nextActivate : Nat, nextPrecharge : Nat]]
  /\ accesses \in [Banks -> 0 .. TOTAL_ROW_ACCESSES]
  /\ faw \in Seq(Nat) /\ Len(faw) <= MaxActivates
  /\ nextBank \in Banks /\ nextBankPRE \in Banks
  /\ refreshWaiting \in BOOLEAN /\ refreshCount \in 0 .. RefreshPeriod
  /\ busFreeTime \in Nat
  /\ pc \in {"sleep", "pop", "send", "enqueue", "activate", "column", "remove",
             "shift", "cut"}
  /\ counter1 \in Nat /\ now \in Nat
  /\ core0 \in 0 .. clears /\ command \in Packet /\ taken \in Packet /\ length \in Nat
  /\ UNION {answered, written, dropped, lost, copied, torn} \subseteq 1 .. received
  /\ late \in BOOLEAN

(* Where request i is.  Two places of the list do not count: what remove() *)
(* is to take out, and what it has left over.                              *)
Places(i) ==
  ({"list"} \X {k \in DOMAIN pending :
                  pending[k].id = i /\ i # taken.id /\ ~(pc = "shift" /\ k = length)})
  \cup ({"queue"} \X {bk \in UNION {{b} \X DOMAIN queues[b] : b \in Banks} :
                  queues[bk[1]][bk[2]].id = i /\ queues[bk[1]][bk[2]].type \in Columns})
  \cup ({"hand"} \X {p \in Hand : p.id = i})
  \cup ({"event"} \X {e \in events : e.packet.id = i /\ e.packet.type \in Columns})
  \cup {S \in {<<"answered", answered>>, <<"written", written>>, <<"dropped", dropped>>,
                <<"lost", lost>>} : i \in S[2]}

(* Every request received is in one place: waiting, in the hands of the    *)
(* DRAM thread, on its way to or from the rank, or done; it is done once.  *)
(* It is lost only to a race of the two threads for the list, or to a      *)
(* hand-over, and dropped only by the rank.  Only a request that the race  *)
(* has put twice into the list may be in several places, and be done twice.*)
RequestsConserved ==
  \A i \in 1 .. received :
    Cardinality(Places(i)) = 1 \/ (i \in copied /\ Places(i) # {})

(* The row a column command was activated for stays open until it is       *)
(* issued, or it could wait for ever; refreshes and the round robin of     *)
(* precharges must not close it.  A state update that was sent when it was *)
(* due already may: the DRAM thread was held up for as long as a refresh.  *)
(* A hand-over between the two enqueue() calls leaves a command (torn)     *)
(* without its ACTIVATE.                                                   *)
RowKept ==
  ~late => \A b \in Banks : \A k \in DOMAIN queues[b] :
    LET p == queues[b][k] IN
      /\ p.type \in Columns /\ p.id \notin torn
      /\ k = 1 \/ queues[b][k - 1] # Activate(p)
      => Open(b) /\ banks[b].row = p.row

(* The controller, when it issues a READ, bars the bank for max(tCCD,      *)
(* tBL / 2); the rank looks at the same bank state when the command        *)
(* arrives, tCMD later.  So a READ is served only when its event is        *)
(* handled that much after it was issued, and is dropped otherwise.        *)
ReadsTakenOnlyLate ==
  [][\A e \in events \ events' :
       /\ e.kind = "command" /\ e.packet.type = "READ"
       /\ Event(e.time + tRL, "column", e.packet) \in events' \ events
       => clock >= e.time - tCMD + Larger(tCCD, tBL2)]_vars

(* "checks if busPacket is allowed to be issued" (CommandQueue.java:137):  *)
(* a READ that was issued is then allowed at its rank.                     *)
IssuedReadsAllowed == dropped = {}
=============================================================================
