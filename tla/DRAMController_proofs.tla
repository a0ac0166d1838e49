------------------------- MODULE DRAMController_proofs -------------------------
(***************************************************************************)
(* Proofs about DRAMController, for every number of banks, rows and        *)
(* requests, every clock and every choice of the delays that compares as   *)
(* config.xml has it: the types, when a READ is served, that the row a     *)
(* column command waits for stays open, and that each request received is  *)
(* in one place, unless a race has put it twice into the list.             *)
(***************************************************************************)
EXTENDS DRAMController, SequenceTheorems, FiniteSetTheorems, WellFoundedInduction, TLAPS

-----------------------------------------------------------------------------
(* Numbers.                                                                *)

(* A set of numbers has a least one.                                       *)
LEMMA LeastIs ==
  ASSUME NEW S, S \subseteq Nat, S # {}
  PROVE  Min(S) \in S /\ \A y \in S : Min(S) <= y
  <1> DEFINE R == {ss \in Nat \X Nat : ss[1] < ss[2]}
  <1>1. PICK x \in S : \A y \in S : ~(<<y, x>> \in R)
    <2>1. IsWellFoundedOn(R, Nat)
      BY NatLessThanWellFounded DEF OpToRel
    <2> HIDE DEF R
    <2>2. QED
      BY <2>1, WFMin
  <1>2. ASSUME NEW y \in S PROVE x <= y
    <2>1. x \in Nat /\ y \in Nat /\ <<y, x>> \in Nat \X Nat
      OBVIOUS
    <2>2. ~(y < x)
      BY <1>1, <2>1
    <2>3. QED
      BY <2>1, <2>2
  <1>3. QED
    BY <1>2 DEF Min

(* A remainder of a number less than twice the divisor.                    *)
LEMMA RemainderOnce ==
  ASSUME NEW n \in Nat \ {0}, NEW x \in 0 .. 2 * n - 1
  PROVE  x % n = IF x < n THEN x ELSE x - n
  <1>1. CASE x < n
    BY <1>1
  <1>2. CASE ~(x < n)
    BY <1>2
  <1>3. QED
    BY <1>1, <1>2

(* The constants are numbers.                                              *)
LEMMA Numbers ==
  /\ numBanks \in Nat \ {0} /\ MaxRequests \in Nat /\ MaxClock \in Nat /\ MaxClears \in Nat
  /\ RAMclock \in Nat /\ RefreshPeriod \in Nat \ {0} /\ TOTAL_ROW_ACCESSES \in Nat \ {0}
  /\ MaxActivates \in Nat /\ tFAW \in Nat \ {0} /\ tCMD \in Nat /\ tCCD \in Nat /\ tBL2 \in Nat
  /\ tRL \in Nat /\ tRCD \in Nat /\ tRAS \in Nat /\ tRC \in Nat /\ tRP \in Nat \ {0}
  /\ tRRD \in Nat /\ tRFC \in Nat \ {0}
  /\ ReadToPreDelay \in Nat /\ ReadToWriteDelay \in Nat /\ WriteToPreDelay \in Nat
  /\ WriteToReadDelayB \in Nat
  /\ 0 \in Banks /\ Banks \subseteq Nat
  <1>1. numBanks \in Nat \ {0}
    BY DRAMAssumption
  <1>2. 0 \in Banks /\ Banks \subseteq Nat
    BY <1>1 DEF Banks
  <1>3. QED
    BY <1>2, DRAMAssumption

(* The larger of two numbers.                                              *)
LEMMA LargerIs ==
  ASSUME NEW m \in Nat, NEW n \in Nat
  PROVE  Larger(m, n) \in Nat /\ m <= Larger(m, n) /\ n <= Larger(m, n)
  BY DEF Larger

(* The round robin ends at one of the banks asked about.                   *)
LEMMA FirstFromIs ==
  ASSUME NEW b \in Banks, NEW B, B \subseteq Banks, B # {}
  PROVE  FirstFrom(b, B) \in B
  <1> DEFINE D == {(x + numBanks - b) % numBanks : x \in B}
  <1>1. numBanks \in Nat \ {0} /\ b \in 0 .. numBanks - 1 /\ B \subseteq 0 .. numBanks - 1
    BY Numbers DEF Banks
  <1>2. ASSUME NEW x \in B
        PROVE  /\ (x + numBanks - b) % numBanks = IF x < b THEN x + numBanks - b ELSE x - b
               /\ (b + ((x + numBanks - b) % numBanks)) % numBanks = x
    <2>1. x \in 0 .. numBanks - 1 /\ x + numBanks - b \in 0 .. 2 * numBanks - 1
      BY <1>1
    <2>2. (x + numBanks - b) % numBanks = IF x < b THEN x + numBanks - b ELSE x - b
      <3>1. (x + numBanks - b) % numBanks =
              IF x + numBanks - b < numBanks THEN x + numBanks - b ELSE x + numBanks - b - numBanks
        <4> DEFINE y == x + numBanks - b
        <4>1. /\ y \in 0 .. 2 * numBanks - 1 /\ numBanks \in Nat \ {0}
              /\ y = x + numBanks - b
          BY <1>1, <2>1
        <4> HIDE DEF y
        <4>2. y % numBanks = IF y < numBanks THEN y ELSE y - numBanks
          BY <4>1, RemainderOnce
        <4>3. QED
          BY <1>1, <2>1, <4>1, <4>2
      <3>2. QED
        BY <1>1, <2>1, <3>1
    <2> DEFINE d == (x + numBanks - b) % numBanks
    <2>3. d = IF x < b THEN x + numBanks - b ELSE x - b
      BY <2>2
    <2> HIDE DEF d
    <2>4. b + d \in 0 .. 2 * numBanks - 1 /\ b + d = IF x < b THEN x + numBanks ELSE x
      BY <1>1, <2>1, <2>3
    <2>5. (b + d) % numBanks = IF b + d < numBanks THEN b + d ELSE b + d - numBanks
      <3> DEFINE y == b + d
      <3>1. y \in 0 .. 2 * numBanks - 1 /\ numBanks \in Nat \ {0} /\ y = b + d
        BY <1>1, <2>4
      <3> HIDE DEF y
      <3>2. y % numBanks = IF y < numBanks THEN y ELSE y - numBanks
        BY <3>1, RemainderOnce
      <3>3. QED
        BY <1>1, <2>1, <2>3, <3>1, <3>2
    <2>6. (b + d) % numBanks = x
      BY <1>1, <2>1, <2>4, <2>5
    <2>7. QED
      BY <2>2, <2>6 DEF d
  <1>3. D \subseteq Nat /\ D # {}
    <2>1. ASSUME NEW x \in B PROVE (x + numBanks - b) % numBanks \in Nat
      BY <1>1, <1>2
    <2>2. QED
      BY <2>1
  <1>4. Min(D) \in D
    BY <1>3, LeastIs
  <1>5. PICK x \in B : Min(D) = (x + numBanks - b) % numBanks
    BY <1>4
  <1>6. QED
    BY <1>2, <1>5 DEF FirstFrom

-----------------------------------------------------------------------------
(* Queues.                                                                 *)

(* Taking the places first to last out of a queue.                         *)
LEMMA CutIs ==
  ASSUME NEW E, NEW q \in Seq(E), NEW first \in 1 .. Len(q) + 1, NEW last \in first - 1 .. Len(q)
  PROVE  LET r == SubSeq(q, 1, first - 1) \o SubSeq(q, last + 1, Len(q)) IN
           /\ r \in Seq(E)
           /\ Len(r) = Len(q) - (last - first + 1)
           /\ \A k \in 1 .. Len(r) :
                r[k] = IF k < first THEN q[k] ELSE q[k + (last - first + 1)]
  <1> DEFINE s == SubSeq(q, 1, first - 1)
             t == SubSeq(q, last + 1, Len(q))
  <1>1. Len(q) \in Nat /\ first \in Int /\ last \in Int /\ \A i \in 1 .. Len(q) : q[i] \in E
    OBVIOUS
  <1>2. /\ s \in Seq(E) /\ Len(s) = first - 1
        /\ \A i \in 1 .. first - 1 : s[i] = q[i]
    <2>1. \A i \in 1 .. first - 1 : q[i] \in E
      BY <1>1
    <2>2. first - 1 \in Int
      BY <1>1
    <2>3. /\ s \in Seq(E) /\ Len(s) = IF 1 <= first - 1 THEN (first - 1) - 1 + 1 ELSE 0
          /\ \A i \in 1 .. (first - 1) - 1 + 1 : s[i] = q[1 + i - 1]
      BY <2>1, <2>2, SubSeqProperties
    <2> HIDE DEF s
    <2>4. QED
      BY <1>1, <2>3
  <1>3. /\ t \in Seq(E) /\ Len(t) = Len(q) - last
        /\ \A i \in 1 .. Len(q) - last : t[i] = q[last + i]
    <2>1. \A i \in last + 1 .. Len(q) : q[i] \in E
      BY <1>1
    <2>2. last + 1 \in Int /\ Len(q) \in Int
      BY <1>1
    <2>3. /\ t \in Seq(E) /\ Len(t) = IF last + 1 <= Len(q) THEN Len(q) - (last + 1) + 1 ELSE 0
          /\ \A i \in 1 .. Len(q) - (last + 1) + 1 : t[i] = q[last + 1 + i - 1]
      BY <2>1, <2>2, SubSeqProperties
    <2> HIDE DEF t
    <2>4. \A i \in 1 .. Len(q) - last : last + 1 + i - 1 = last + i
      BY <1>1
    <2>5. QED
      BY <1>1, <2>3, <2>4
  <1> HIDE DEF s, t
  <1>4. /\ s \o t \in Seq(E) /\ Len(s \o t) = Len(s) + Len(t)
        /\ \A i \in 1 .. Len(s) + Len(t) : (s \o t)[i] = IF i <= Len(s) THEN s[i] ELSE t[i - Len(s)]
    BY <1>2, <1>3, ConcatProperties
  <1>5. ASSUME NEW k \in 1 .. Len(s \o t)
        PROVE  (s \o t)[k] = IF k < first THEN q[k] ELSE q[k + (last - first + 1)]
    <2>1. CASE k < first
      <3>1. k \in 1 .. Len(s) + Len(t) /\ k <= Len(s) /\ k \in 1 .. first - 1
        BY <1>1, <1>2, <1>3, <1>4, <2>1
      <3>2. QED
        BY <1>2, <1>4, <2>1, <3>1
    <2>2. CASE ~(k < first)
      <3>1. /\ k \in 1 .. Len(s) + Len(t) /\ ~(k <= Len(s))
            /\ k - Len(s) \in 1 .. Len(q) - last
            /\ last + (k - Len(s)) = k + (last - first + 1)
        BY <1>1, <1>2, <1>3, <1>4, <2>2
      <3>2. QED
        BY <1>3, <1>4, <2>2, <3>1
    <2>3. QED
      BY <2>1, <2>2
  <1>6. Len(s \o t) = Len(q) - (last - first + 1)
    BY <1>1, <1>2, <1>3, <1>4, SMTT(30)
  <1>7. QED
    BY <1>4, <1>5, <1>6 DEF s, t

(* Each queue of a bank is a sequence of packets.                          *)
QueuesTyped ==
  \A b \in Banks :
    /\ queues[b] \in Seq(Packet) /\ Len(queues[b]) \in Nat
    /\ DOMAIN queues[b] = 1 .. Len(queues[b])
    /\ \A k \in DOMAIN queues[b] : queues[b][k] \in Packet

(* That is what the type says.                                             *)
LEMMA QueuesAre == queues \in [Banks -> Seq(Packet)] => QueuesTyped
  <1> DEFINE E == Packet
  <1> HIDE DEF E
  <1>1. ASSUME NEW q \in Seq(E)
        PROVE  Len(q) \in Nat /\ DOMAIN q = 1 .. Len(q) /\ \A k \in DOMAIN q : q[k] \in E
    OBVIOUS
  <1>2. QED
    BY <1>1 DEF QueuesTyped, E

-----------------------------------------------------------------------------
(* The invariant behind the types.                                         *)

BankRecord ==
  [state : {"IDLE", "ROW_ACTIVE", "PRECHARGING", "REFRESHING"}, last : Types,
   row : Rows \cup {NoRow}, nextRead : Nat, nextWrite : Nat, nextActivate : Nat,
   nextPrecharge : Nat]

EventRecord ==
  [time : Nat, kind : {"command", "update", "column", "response"}, packet : Packet]

(* Column commands are for requests received; data is that of one, and     *)
(* what is updated is the end of a precharge or a refresh.                 *)
PacketOk(p, n) == p \in Packet /\ (p.type \in Columns => p.id \in 1 .. n)
EventOk(e, n) ==
  /\ e \in EventRecord /\ PacketOk(e.packet, n)
  /\ e.kind \in {"column", "response"} => e.packet.type \in Columns
  /\ e.kind = "update" => e.packet.type \in {"PRECHARGE", "REFRESH"}
EventsOk == \A e \in events : EventOk(e, received)
PendingOk ==
  /\ pending \in Seq(Packet) /\ length \in Nat
  /\ pc = "shift" => length \in DOMAIN pending
  /\ \A k \in DOMAIN pending : pending[k].type \in Columns /\ pending[k].id \in 1 .. received
CommandOk == PacketOk(command, received)

(* What is being put into a command queue is a request received.           *)
Enqueuing == {"activate", "column", "remove"}
TakenTyped ==
  /\ taken \in Packet
  /\ pc \in Enqueuing => taken.type \in Columns /\ taken.id \in 1 .. received
  /\ pc \notin Enqueuing => taken = NoPacket

(* A command queue holds requests, with an ACTIVATE before its column      *)
(* command as long as it has not been issued.                              *)
Paired(q, k) ==
  k + 1 \in DOMAIN q /\ q[k + 1].type \in Columns /\ q[k + 1].id = q[k].id
    /\ q[k + 1].row = q[k].row
Shape(q, b, n) ==
  \A k \in DOMAIN q :
    /\ q[k].bank = b /\ q[k].type \in Columns \cup {"ACTIVATE"} /\ q[k].id \in 1 .. n
    /\ q[k].type = "ACTIVATE" => Paired(q, k)

(* Between the two enqueue() calls the last ACTIVATE has none yet.         *)
HalfAt(q, b, k) == pc = "column" /\ b = taken.bank /\ k = Len(q) /\ q[k] = Activate(taken)
NearlyShape(q, b, n) ==
  \A k \in DOMAIN q :
    /\ q[k].bank = b /\ q[k].type \in Columns \cup {"ACTIVATE"} /\ q[k].id \in 1 .. n
    /\ q[k].type = "ACTIVATE" => Paired(q, k) \/ HalfAt(q, b, k)
QueuesOk ==
  /\ queues \in [Banks -> Seq(Packet)]
  /\ \A b \in Banks : NearlyShape(queues[b], b, received)

(* It is there, unless a hand-over has taken it away.                      *)
HalfOk ==
  pc = "column" =>
    \/ taken.id \in torn
    \/ LET q == queues[taken.bank] IN Len(q) \in DOMAIN q /\ q[Len(q)] = Activate(taken)

(* Of the countdowns each is longer than the one before.                   *)
Rising(s, n) ==
  /\ s \in Seq(Nat) /\ \A k \in DOMAIN s : s[k] \in 1 .. n
  /\ \A k \in DOMAIN s : \A j \in DOMAIN s : j < k => s[j] < s[k]
WindowOk == Rising(faw, tFAW) /\ Len(faw) <= MaxActivates

BanksOk == banks \in [Banks -> BankRecord]
CountsOk ==
  /\ accesses \in [Banks -> 0 .. TOTAL_ROW_ACCESSES]
  /\ nextBank \in Banks /\ nextBankPRE \in Banks
  /\ refreshWaiting \in BOOLEAN /\ refreshCount \in 0 .. RefreshPeriod
ClocksOk ==
  /\ clock \in 0 .. MaxClock /\ draining \in BOOLEAN /\ clears \in 0 .. MaxClears
  /\ received \in 0 .. MaxRequests /\ busFreeTime \in Nat
  /\ pc \in {"sleep", "pop", "send", "enqueue", "activate", "column", "remove", "shift", "cut"}
  /\ counter1 \in Nat /\ now \in Nat /\ core0 \in 0 .. clears /\ late \in BOOLEAN
HistoryOk == UNION {answered, written, dropped, lost, copied, torn} \subseteq 1 .. received

TypeInv ==
  /\ EventsOk /\ PendingOk /\ CommandOk /\ TakenTyped /\ QueuesOk /\ HalfOk /\ WindowOk
  /\ BanksOk /\ CountsOk /\ ClocksOk /\ HistoryOk

(* It implies the type invariant.                                          *)
LEMMA TypesHold == TypeInv => TypeOK
  <1> SUFFICES ASSUME TypeInv PROVE TypeOK
    OBVIOUS
  <1>1. events \subseteq EventRecord /\ command \in Packet
    BY DEF TypeInv, EventsOk, EventOk, CommandOk, PacketOk
  <1>2. faw \in Seq(Nat) /\ Len(faw) <= MaxActivates
    BY DEF TypeInv, WindowOk, Rising
  <1>3. QED
    BY <1>1, <1>2 DEF TypeInv, PendingOk, QueuesOk, BanksOk, BankRecord, EventRecord, CountsOk,
                      TakenTyped,
                      ClocksOk, HistoryOk, TypeOK

(* The first state, and what a hand-over goes back to.                     *)
LEMMA FreshTypes ==
  /\ [b \in Banks |-> <<>>] \in [Banks -> Seq(Packet)]
  /\ \A b, n : Shape(<<>>, b, n)
  /\ Rising(<<>>, tFAW) /\ Len(<<>>) <= MaxActivates
  /\ [b \in Banks |-> FreshBank] \in [Banks -> BankRecord]
  /\ NoPacket \in Packet /\ NoPacket.type = "REFRESH"
  <1>1. FreshBank \in BankRecord
    BY DEF FreshBank, BankRecord, Types, Columns, NoRow
  <1>2. NoPacket \in Packet /\ NoPacket.type = "REFRESH"
    BY Numbers DEF NoPacket, Packet, Types, NoId, NoRow
  <1>3. Rising(<<>>, tFAW) /\ Len(<<>>) <= MaxActivates
    BY Numbers DEF Rising
  <1>4. QED
    BY <1>1, <1>2, <1>3 DEF Shape

(* The types hold at first.                                                *)
LEMMA TypeInit == Init => TypeInv
  <1> SUFFICES ASSUME Init PROVE TypeInv
    OBVIOUS
  <1>1. EventsOk /\ PendingOk
    BY DEF Init, FreshController, EventsOk, PendingOk
  <1>2. \A b \in Banks : NearlyShape(<<>>, b, received)
    BY DEF NearlyShape
  <1>3. QueuesOk /\ WindowOk /\ BanksOk
    BY <1>2, FreshTypes DEF Init, FreshController, QueuesOk, WindowOk, BanksOk
  <1>4. CommandOk /\ TakenTyped /\ HalfOk
    BY FreshTypes DEF Init, CommandOk, PacketOk, Columns, TakenTyped, Enqueuing, HalfOk
  <1>5. CountsOk /\ ClocksOk /\ HistoryOk
    BY Numbers DEF Init, FreshController, CountsOk, ClocksOk, HistoryOk
  <1>6. QED
    BY <1>1, <1>3, <1>4, <1>5 DEF TypeInv

(* Except between the two enqueue() calls every ACTIVATE has its command.  *)
LEMMA WholeQueues ==
  ASSUME TypeInv, pc # "column"
  PROVE  QueuesTyped /\ \A b \in Banks : Shape(queues[b], b, received)
  <1>1. QueuesTyped
    BY QueuesAre DEF TypeInv, QueuesOk
  <1>2. \A b \in Banks : Shape(queues[b], b, received)
    BY DEF TypeInv, QueuesOk, NearlyShape, HalfAt, Shape
  <1>3. QED
    BY <1>1, <1>2

(* What is whole needs no exception.                                       *)
LEMMA WholeIsNearly ==
  ASSUME NEW q, NEW b, NEW n, Shape(q, b, n)
  PROVE  NearlyShape(q, b, n)
  BY DEF Shape, NearlyShape

(* Queues that are whole after a step are as they should be.               *)
LEMMA StillShaped ==
  ASSUME queues' \in [Banks -> Seq(Packet)],
         \A b \in Banks : Shape(queues'[b], b, received')
  PROVE  QueuesOk'
  BY DEF QueuesOk, NearlyShape, Shape

(* Queues that were whole and are left alone are.                          *)
LEMMA QueuesSame ==
  ASSUME TypeInv, pc # "column", UNCHANGED <<queues, received>>
  PROVE  QueuesOk'
  <1>1. queues' \in [Banks -> Seq(Packet)]
    BY DEF TypeInv, QueuesOk
  <1>2. \A b \in Banks : Shape(queues'[b], b, received')
    BY WholeQueues
  <1>3. QED
    BY <1>1, <1>2, StillShaped

-----------------------------------------------------------------------------
(* What pop() returns.                                                     *)

(* A command of the queue of b that overtakes no column command to its row *)
QueueCommand(c, b, i) ==
  /\ b \in Banks /\ i \in DOMAIN queues[b]
  /\ c = [packet |-> queues[b][i], first |-> FirstRemoved(b, i), last |-> i]
  /\ isIssuable(queues[b][i])
  /\ \A j \in 1 .. i - 1 :
       queues[b][j].type # "ACTIVATE" => queues[b][j].row # queues[b][i].row

(* ... the end of an open row nobody needs now ...                         *)
EndOfRow(c, b) ==
  /\ b \in Banks /\ Open(b)
  /\ c = [packet |-> [NoPacket EXCEPT !.type = "PRECHARGE", !.bank = b], first |-> 1, last |-> 0]
  /\ \/ Hits(b) = {} \/ queues[b][Min(Hits(b))].type = "ACTIVATE"
     \/ accesses[b] = TOTAL_ROW_ACCESSES

(* ... or a refresh, when all banks are closed and may be activated.       *)
RefreshOfAll(c) ==
  /\ c = [packet |-> [NoPacket EXCEPT !.type = "REFRESH", !.bank = 0], first |-> 1, last |-> 0]
  /\ NeedRefresh
  /\ \A b \in Banks : ~Open(b) /\ ~(banks[b].nextActivate > now)

(* Nothing else.                                                           *)
LEMMA PoppedIs ==
  ASSUME TypeInv, pc = "pop", NEW c \in Popped
  PROVE  (\E b, i : QueueCommand(c, b, i)) \/ (\E b : EndOfRow(c, b)) \/ RefreshOfAll(c)
  <1>1. /\ QueuesTyped /\ \A b \in Banks : Shape(queues[b], b, received)
        /\ nextBank \in Banks /\ nextBankPRE \in Banks
    BY WholeQueues DEF TypeInv, CountsOk
  <1>2. \A b \in Banks : Hits(b) \subseteq Nat /\ Hits(b) \subseteq DOMAIN queues[b]
    BY <1>1 DEF Hits, QueuesTyped
  <1>3. ASSUME c \in ForRefresh, NeedRefresh
        PROVE  (\E b, i : QueueCommand(c, b, i)) \/ (\E b : EndOfRow(c, b)) \/ RefreshOfAll(c)
    <2> DEFINE inTheWay == {b \in Banks : Open(b) \/ banks[b].nextActivate > now}
               b == Min(inTheWay)
               i == Min(Hits(b))
    <2>1. CASE inTheWay = {}
      <3>1. c \in Control("REFRESH", 0)
        BY <1>3, <2>1 DEF ForRefresh
      <3>2. QED
        BY <1>3, <2>1, <3>1 DEF Control, RefreshOfAll
    <2>2. CASE inTheWay # {}
      <3>1. b \in inTheWay
        <4>1. inTheWay \subseteq Nat
          BY Numbers
        <4>2. QED
          BY <2>2, <4>1, LeastIs
      <3>2. c \in (IF ~Open(b) THEN {}
            ELSE IF Hits(b) = {} \/ queues[b][i].type = "ACTIVATE"
            THEN IF now >= banks[b].nextPrecharge THEN Control("PRECHARGE", b) ELSE {}
            ELSE IF isIssuable(queues[b][i]) THEN Queued(b, i, i) ELSE {})
        BY <1>3, <2>2 DEF ForRefresh
      <3> HIDE DEF inTheWay
      <3>3. b \in Banks
        BY <3>1 DEF inTheWay
      <3> HIDE DEF b
      <3>4. CASE Open(b) /\ (Hits(b) = {} \/ queues[b][i].type = "ACTIVATE")
        <4>1. c \in Control("PRECHARGE", b)
          BY <3>2, <3>4
        <4>2. EndOfRow(c, b)
          BY <3>3, <3>4, <4>1 DEF Control, EndOfRow
        <4>3. QED
          BY <4>2
      <3>5. CASE /\ Open(b) /\ Hits(b) # {} /\ queues[b][i].type # "ACTIVATE"
                 /\ isIssuable(queues[b][i]) /\ c \in Queued(b, i, i)
        <4>1. i \in Hits(b) /\ \A j \in Hits(b) : i <= j
          BY <1>2, <3>3, <3>5, LeastIs
        <4> HIDE DEF i
        <4>2. /\ i \in DOMAIN queues[b] /\ i \in Nat /\ queues[b][i].row = banks[b].row
              /\ DOMAIN queues[b] = 1 .. Len(queues[b]) /\ Len(queues[b]) \in Nat
          BY <1>1, <1>2, <3>3, <4>1 DEF Hits, QueuesTyped
        <4>3. ASSUME NEW j \in 1 .. i - 1 PROVE queues[b][j].row # queues[b][i].row
          <5>1. j \in DOMAIN queues[b] /\ j \in Nat /\ j < i
            BY <4>2
          <5>2. j \notin Hits(b)
            BY <4>1, <4>2, <5>1
          <5>3. QED
            BY <4>2, <5>1, <5>2 DEF Hits
        <4>4. FirstRemoved(b, i) = i
          <5>1. SUFFICES ASSUME i > 1, queues[b][i - 1].type = "ACTIVATE" PROVE FALSE
            BY DEF FirstRemoved
          <5>2. i - 1 \in DOMAIN queues[b] /\ i - 1 \in 1 .. i - 1 /\ (i - 1) + 1 = i
            BY <4>2, <5>1
          <5>3. queues[b][(i - 1) + 1].row = queues[b][i - 1].row
            BY <1>1, <3>3, <5>1, <5>2 DEF Shape, Paired
          <5>4. QED
            BY <4>3, <5>2, <5>3
        <4>5. c = [packet |-> queues[b][i], first |-> i, last |-> i]
          BY <3>5 DEF Queued, i
        <4>6. isIssuable(queues[b][i])
          BY <3>5 DEF i
        <4>7. QueueCommand(c, b, i)
          BY <3>3, <4>2, <4>3, <4>4, <4>5, <4>6 DEF QueueCommand
        <4>8. QED
          BY <4>7
      <3>6. QED
        BY <3>2, <3>4, <3>5
    <2>3. QED
      BY <2>1, <2>2
  <1>4. ASSUME c \in ForRequest PROVE \E b, i : QueueCommand(c, b, i)
    <2> DEFINE ready == {b \in Banks : Ready(b) # {}}
               b == FirstFrom(nextBank, ready)
               i == Min(Ready(b))
    <2>1. ready # {} /\ c \in Queued(b, FirstRemoved(b, i), i)
      BY <1>4 DEF ForRequest
    <2>2. b \in ready
      BY <1>1, <2>1, FirstFromIs
    <2> HIDE DEF b
    <2>3. b \in Banks /\ Ready(b) # {}
      BY <2>2
    <2>4. Ready(b) \subseteq Nat
      BY <1>1, <2>3 DEF Ready, QueuesTyped
    <2>5. i \in Ready(b)
      BY <2>3, <2>4, LeastIs
    <2> HIDE DEF i
    <2>6. QueueCommand(c, b, i)
      BY <2>1, <2>3, <2>5 DEF QueueCommand, Queued, Ready
    <2>7. QED
      BY <2>6
  <1>5. ASSUME c \in ForClosing PROVE \E b : EndOfRow(c, b)
    <2> DEFINE closable == {b \in Banks :
                 /\ Open(b) /\ now >= banks[b].nextPrecharge
                 /\ Hits(b) = {} \/ accesses[b] = TOTAL_ROW_ACCESSES}
               b == FirstFrom(nextBankPRE, closable)
    <2>1. closable # {} /\ c \in Control("PRECHARGE", b)
      BY <1>5 DEF ForClosing
    <2>2. b \in closable
      <3>1. closable \subseteq Banks
        OBVIOUS
      <3> HIDE DEF closable
      <3>2. QED
        BY <1>1, <2>1, <3>1, FirstFromIs
    <2> HIDE DEF b
    <2>3. EndOfRow(c, b)
      BY <2>1, <2>2 DEF EndOfRow, Control
    <2>4. QED
      BY <2>3
  <1>6. QED
    BY <1>3, <1>4, <1>5 DEF Popped

-----------------------------------------------------------------------------
(* What pop() does to the queues and the banks.                            *)

(* The place in the queue of b that place k was before.                    *)
Was(c, b, k) ==
  IF b = c.packet.bank /\ ~(k < c.first) THEN k + (c.last - c.first + 1) ELSE k

(* What is known of the command.                                           *)
LEMMA CommandIs ==
  ASSUME TypeInv, pc = "pop", NEW c \in Popped
  PROVE  /\ PacketOk(c.packet, received) /\ c.packet.bank \in Banks
         /\ c.packet.type \in Columns \cup {"ACTIVATE"} =>
              \E i : QueueCommand(c, c.packet.bank, i)
         /\ c.packet.type = "PRECHARGE" => EndOfRow(c, c.packet.bank)
         /\ c.packet.type = "REFRESH" => RefreshOfAll(c)
         /\ c.first \in 1 .. Len(queues[c.packet.bank]) + 1
         /\ c.last \in c.first - 1 .. Len(queues[c.packet.bank])
         /\ c.first < c.last => c.packet.type \in Columns /\ isIssuable(c.packet)
  <1>1. QueuesTyped /\ \A b \in Banks : Shape(queues[b], b, received)
    BY WholeQueues
  <1>2. ASSUME NEW b, NEW i, QueueCommand(c, b, i)
        PROVE  /\ PacketOk(c.packet, received) /\ c.packet.bank = b /\ b \in Banks
               /\ c.packet.type \in Columns \cup {"ACTIVATE"}
               /\ c.first \in 1 .. Len(queues[b]) + 1
               /\ c.last \in c.first - 1 .. Len(queues[b])
               /\ c.first < c.last => c.packet.type \in Columns /\ isIssuable(c.packet)
    <2>1. /\ b \in Banks /\ i \in 1 .. Len(queues[b]) /\ Len(queues[b]) \in Nat
          /\ c.packet = queues[b][i] /\ c.first = FirstRemoved(b, i) /\ c.last = i
          /\ DOMAIN queues[b] = 1 .. Len(queues[b])
          /\ isIssuable(c.packet)
      BY <1>1, <1>2 DEF QueueCommand, QueuesTyped
    <2>2. /\ c.packet \in Packet /\ c.packet.bank = b /\ c.packet.id \in 1 .. received
          /\ c.packet.type \in Columns \cup {"ACTIVATE"}
      BY <1>1, <2>1 DEF QueuesTyped, Shape, Paired
    <2>3. FirstRemoved(b, i) \in {i - 1, i} /\ FirstRemoved(b, i) \in 1 .. i
      BY <2>1 DEF FirstRemoved
    <2>4. c.first < c.last => c.packet.type \in Columns
      <3>1. SUFFICES ASSUME i > 1, queues[b][i - 1].type = "ACTIVATE"
                     PROVE  c.packet.type \in Columns
        BY <2>1 DEF FirstRemoved
      <3>2. i - 1 \in DOMAIN queues[b] /\ (i - 1) + 1 = i
        BY <2>1, <3>1
      <3>3. queues[b][(i - 1) + 1].type \in Columns
        BY <1>1, <2>1, <3>1, <3>2 DEF Shape, Paired
      <3>4. QED
        BY <2>1, <3>2, <3>3
    <2>5. QED
      BY <2>1, <2>2, <2>3, <2>4 DEF PacketOk
  <1>3. ASSUME NEW t \in {"PRECHARGE", "REFRESH"}, NEW b \in Banks
        PROVE  LET p == [NoPacket EXCEPT !.type = t, !.bank = b] IN
                 p \in Packet /\ p.type = t /\ p.bank = b
    BY Numbers DEF NoPacket, Packet, Types, NoId, NoRow
  <1>4. ASSUME NEW b, EndOfRow(c, b)
        PROVE  /\ PacketOk(c.packet, received) /\ c.packet.bank = b /\ b \in Banks
               /\ c.packet.type = "PRECHARGE" /\ c.first = 1 /\ c.last = 0
               /\ Len(queues[b]) \in Nat
    BY <1>1, <1>3, <1>4 DEF EndOfRow, PacketOk, Columns, QueuesTyped
  <1>5. ASSUME RefreshOfAll(c)
        PROVE  /\ PacketOk(c.packet, received) /\ c.packet.bank \in Banks
               /\ c.packet.type = "REFRESH" /\ c.first = 1 /\ c.last = 0
               /\ Len(queues[c.packet.bank]) \in Nat
    BY <1>1, <1>3, <1>5, Numbers DEF RefreshOfAll, PacketOk, Columns, QueuesTyped
  <1>6. QED
    <2>1. "PRECHARGE" \notin Columns \cup {"ACTIVATE"} /\ "REFRESH" \notin Columns \cup {"ACTIVATE"}
          /\ "PRECHARGE" # "REFRESH"
      BY DEF Columns
    <2>2. CASE \E b, i : QueueCommand(c, b, i)
      BY <1>2, <2>1, <2>2
    <2>3. CASE \E b : EndOfRow(c, b)
      <3>1. PICK b : EndOfRow(c, b)
        BY <2>3
      <3>2. QED
        BY <1>4, <2>1, <3>1
    <2>4. CASE RefreshOfAll(c)
      BY <1>5, <2>1, <2>4
    <2>5. QED
      BY <2>2, <2>3, <2>4, PoppedIs

(* The queues after it.                                                    *)
LEMMA PopQueues ==
  ASSUME TypeInv, pc = "pop", NEW c \in Popped,
         queues' = [queues EXCEPT ![c.packet.bank] =
                      SubSeq(@, 1, c.first - 1) \o SubSeq(@, c.last + 1, Len(@))]
  PROVE  /\ queues' \in [Banks -> Seq(Packet)]
         /\ \A b \in Banks : \A k \in DOMAIN queues'[b] :
              /\ Was(c, b, k) \in DOMAIN queues[b] /\ queues'[b][k] = queues[b][Was(c, b, k)]
              /\ b = c.packet.bank => Was(c, b, k) \notin c.first .. c.last
         /\ \A b \in Banks : \A m \in DOMAIN queues[b] :
              \/ b = c.packet.bank /\ m \in c.first .. c.last
              \/ \E k \in DOMAIN queues'[b] : m = Was(c, b, k)
  <1> DEFINE d == c.packet.bank
             g == c.last - c.first + 1
             q == queues[d]
             E == Packet
             r == SubSeq(q, 1, c.first - 1) \o SubSeq(q, c.last + 1, Len(q))
  <1>1. QueuesTyped /\ queues \in [Banks -> Seq(Packet)]
    BY QueuesAre DEF TypeInv, QueuesOk
  <1>2. d \in Banks /\ c.first \in 1 .. Len(q) + 1 /\ c.last \in c.first - 1 .. Len(q)
    BY CommandIs
  <1>3. q \in Seq(E) /\ Len(q) \in Nat
    BY <1>1, <1>2 DEF QueuesTyped
  <1> HIDE DEF E, q
  <1>4. /\ r \in Seq(E) /\ Len(r) = Len(q) - g
        /\ \A k \in 1 .. Len(r) : r[k] = IF k < c.first THEN q[k] ELSE q[k + g]
    BY <1>2, <1>3, CutIs, ZenonT(30)
  <1>5. queues'[d] = r /\ \A b \in Banks : b # d => queues'[b] = queues[b]
    BY <1>1, <1>2 DEF q
  <1>6. g \in Nat /\ c.first \in Nat \ {0} /\ c.last \in Nat /\ g <= Len(q)
        /\ c.last = c.first + g - 1 /\ c.last <= Len(q)
    BY <1>2, <1>3
  <1>7. DOMAIN r = 1 .. Len(q) - g
    BY <1>4
  <1>8. queues' \in [Banks -> Seq(E)]
    BY <1>1, <1>4, <1>5 DEF E
  <1> HIDE DEF r
  <1> DEFINE f == c.first
             l == c.last
  <1>9. f \in Nat \ {0} /\ l \in Nat /\ l = f + g - 1 /\ g \in Nat /\ l <= Len(q)
    BY <1>6
  <1> HIDE DEF g, f, l
  <1>10. ASSUME NEW b \in Banks, NEW k \in DOMAIN queues'[b]
         PROVE  /\ Was(c, b, k) \in DOMAIN queues[b] /\ queues'[b][k] = queues[b][Was(c, b, k)]
                /\ b = d => Was(c, b, k) \notin c.first .. c.last
    <2>1. CASE b = d
      <3>1. k \in 1 .. Len(q) - g /\ queues'[b][k] = (IF k < f THEN q[k] ELSE q[k + g])
        BY <1>4, <1>5, <1>7, <2>1 DEF f
      <3>2. Was(c, b, k) = IF k < f THEN k ELSE k + g
        BY <2>1 DEF Was, f, g
      <3>3. DOMAIN queues[b] = 1 .. Len(q) /\ queues[b] = q
        BY <1>1, <2>1 DEF q, QueuesTyped
      <3>4. Was(c, b, k) \in 1 .. Len(q) /\ Was(c, b, k) \notin f .. l
        <4>1. k \in Nat /\ 1 <= k /\ k <= Len(q) - g /\ Len(q) \in Nat
          BY <1>3, <1>9, <3>1, SMTT(30)
        <4>2. CASE k < f
          BY <1>9, <3>2, <4>1, <4>2
        <4>3. CASE ~(k < f)
          BY <1>9, <3>2, <4>1, <4>3
        <4>4. QED
          BY <4>2, <4>3
      <3>5. queues'[b][k] = q[Was(c, b, k)]
        BY <3>1, <3>2
      <3>6. QED
        BY <3>3, <3>4, <3>5 DEF f, l
    <2>2. CASE b # d
      BY <1>5, <2>2 DEF Was
    <2>3. QED
      BY <2>1, <2>2
  <1>11. ASSUME NEW b \in Banks, NEW m \in DOMAIN queues[b]
         PROVE  \/ b = d /\ m \in c.first .. c.last
                \/ \E k \in DOMAIN queues'[b] : m = Was(c, b, k)
    <2>1. CASE b = d
      <3>1. m \in 1 .. Len(q) /\ DOMAIN queues'[b] = 1 .. Len(q) - g
        BY <1>1, <1>5, <1>7, <2>1 DEF q, QueuesTyped
      <3>2. \A k : Was(c, b, k) = IF k < f THEN k ELSE k + g
        BY <2>1 DEF Was, f, g
      <3>3. CASE m < f
        <4>1. m \in 1 .. Len(q) - g
          BY <1>3, <1>9, <3>1, <3>3
        <4>2. QED
          BY <3>1, <3>2, <3>3, <4>1
      <3>4. CASE m > l
        <4>1. m - g \in 1 .. Len(q) - g /\ ~(m - g < f) /\ (m - g) + g = m
          <5>1. m \in Nat /\ m <= Len(q) /\ Len(q) \in Nat
            BY <1>3, <3>1
          <5>2. QED
            BY <1>9, <3>4, <5>1
        <4>2. QED
          BY <3>1, <3>2, <4>1
      <3>5. CASE ~(m < f) /\ ~(m > l)
        <4>1. m \in f .. l
          <5>1. m \in Nat
            BY <1>3, <3>1
          <5>2. QED
            BY <1>9, <3>5, <5>1
        <4>2. QED
          BY <2>1, <4>1 DEF f, l
      <3>6. QED
        BY <3>3, <3>4, <3>5
    <2>2. CASE b # d
      BY <1>5, <2>2 DEF Was
    <2>3. QED
      BY <2>1, <2>2
  <1>12. QED
    BY <1>8, <1>10, <1>11 DEF E

-----------------------------------------------------------------------------
(* The types are kept by pop().                                            *)

(* Counting down keeps the countdowns rising, and none is at 0.            *)
LEMMA WindowIs ==
  ASSUME WindowOk
  PROVE  Rising(Window, tFAW - 1) /\ Len(Window) <= MaxActivates
  <1> DEFINE left == [k \in DOMAIN faw |-> faw[k] - 1]
             n == Len(faw)
  <1>1. /\ n \in Nat /\ DOMAIN faw = 1 .. n /\ n <= MaxActivates /\ tFAW \in Nat \ {0}
        /\ \A k \in 1 .. n : faw[k] \in 1 .. tFAW
        /\ \A k \in 1 .. n : \A j \in 1 .. n : j < k => faw[j] < faw[k]
    BY Numbers DEF WindowOk, Rising
  <1> HIDE DEF n
  <1>2. /\ left = [k \in 1 .. n |-> faw[k] - 1]
        /\ \A k \in 1 .. n : left[k] \in 0 .. tFAW - 1
        /\ \A k \in 1 .. n : \A j \in 1 .. n : j < k => left[j] < left[k]
    BY <1>1
  <1>3. left \in Seq(Nat) /\ Len(left) = n /\ DOMAIN left = 1 .. n
    <2>1. \A k \in 1 .. n : left[k] \in Nat
      BY <1>1, <1>2
    <2>2. left \in [1 .. n -> Nat]
      BY <1>2, <2>1
    <2> HIDE DEF left
    <2>3. left \in Seq(Nat)
      BY <1>1, <2>2, SeqDef
    <2>4. QED
      BY <1>1, <2>2, <2>3, LenProperties
  <1>4. Window = IF left # <<>> /\ Head(left) = 0 THEN Tail(left) ELSE left
    BY DEF Window
  <1> HIDE DEF left
  <1>5. CASE left # <<>> /\ Head(left) = 0
    <2>1. n \in Nat \ {0} /\ left[1] = 0
      BY <1>1, <1>3, <1>5
    <2>2. /\ Tail(left) \in Seq(Nat) /\ Len(Tail(left)) = n - 1 /\ DOMAIN Tail(left) = 1 .. n - 1
          /\ \A i \in 1 .. n - 1 : Tail(left)[i] = left[i + 1]
      BY <1>3, <1>5, <2>1, HeadTailProperties, LenProperties
    <2>3. ASSUME NEW k \in 1 .. n - 1
          PROVE  /\ Tail(left)[k] \in 1 .. tFAW - 1
                 /\ \A j \in 1 .. n - 1 : j < k => Tail(left)[j] < Tail(left)[k]
      <3>1. k + 1 \in 1 .. n /\ 1 \in 1 .. n /\ 1 < k + 1
        BY <1>1, <2>1
      <3>2. left[1] < left[k + 1] /\ left[k + 1] \in 0 .. tFAW - 1
        BY <1>2, <3>1
      <3>3. ASSUME NEW j \in 1 .. n - 1, j < k PROVE Tail(left)[j] < Tail(left)[k]
        <4>1. j + 1 \in 1 .. n /\ j + 1 < k + 1
          BY <1>1, <2>1, <3>3
        <4>2. QED
          BY <1>2, <2>2, <3>1, <4>1
      <3>4. Tail(left)[k] \in 1 .. tFAW - 1
        BY <1>1, <2>1, <2>2, <3>2
      <3>5. QED
        BY <3>3, <3>4
    <2>4. n - 1 <= MaxActivates
      BY <1>1, Numbers
    <2>5. QED
      BY <1>4, <1>5, <2>2, <2>3, <2>4 DEF Rising
  <1>6. CASE ~(left # <<>> /\ Head(left) = 0)
    <2>1. ASSUME NEW k \in 1 .. n PROVE left[k] \in 1 .. tFAW - 1
      <3>1. 1 \in 1 .. n /\ left[1] # 0
        BY <1>1, <1>3, <1>6
      <3>2. k = 1 \/ 1 < k
        BY <1>1
      <3>3. left[k] \in 0 .. tFAW - 1 /\ left[1] \in 0 .. tFAW - 1
        BY <1>2, <3>1
      <3>4. 1 < k => left[1] < left[k]
        BY <1>2, <3>1
      <3>5. QED
        BY <1>1, <3>1, <3>2, <3>3, <3>4
    <2>2. QED
      BY <1>1, <1>2, <1>3, <1>4, <1>6, <2>1 DEF Rising
  <1>7. QED
    BY <1>5, <1>6

(* An ACTIVATE starts the longest of them.                                 *)
LEMMA WindowGrows ==
  ASSUME WindowOk, Len(Window) < MaxActivates
  PROVE  LET w == Append(Window, tFAW) IN Rising(w, tFAW) /\ Len(w) <= MaxActivates
  <1> DEFINE v == Window
             n == Len(v)
             w == Append(v, tFAW)
  <1>1. Rising(v, tFAW - 1) /\ n < MaxActivates
    BY WindowIs
  <1> HIDE DEF v
  <1>2. /\ v \in Seq(Nat) /\ n \in Nat /\ DOMAIN v = 1 .. n
        /\ \A k \in 1 .. n : v[k] \in 1 .. tFAW - 1
        /\ \A k \in 1 .. n : \A j \in 1 .. n : j < k => v[j] < v[k]
    BY <1>1 DEF Rising
  <1>3. /\ w \in Seq(Nat) /\ Len(w) = n + 1 /\ DOMAIN w = 1 .. n + 1
        /\ \A k \in 1 .. n : w[k] = v[k]
        /\ w[n + 1] = tFAW
    BY <1>2, Numbers, AppendProperties
  <1> HIDE DEF w
  <1>4. ASSUME NEW k \in 1 .. n + 1 PROVE k \in 1 .. n \/ k = n + 1
    BY <1>2
  <1>5. ASSUME NEW k \in 1 .. n + 1
        PROVE  /\ w[k] \in 1 .. tFAW
               /\ \A j \in 1 .. n + 1 : j < k => w[j] < w[k]
    <2>1. CASE k \in 1 .. n
      <3>1. \A j \in 1 .. n + 1 : j < k => j \in 1 .. n
        BY <1>2, <2>1
      <3>2. w[k] \in 1 .. tFAW
        BY <1>2, <1>3, <2>1, Numbers
      <3>3. QED
        BY <1>2, <1>3, <2>1, <3>1, <3>2
    <2>2. CASE k = n + 1
      <3>1. \A j \in 1 .. n + 1 : j < k => j \in 1 .. n
        BY <1>2, <2>2
      <3>2. \A j \in 1 .. n : w[j] < tFAW
        BY <1>2, <1>3, Numbers
      <3>3. w[k] \in 1 .. tFAW
        BY <1>3, <2>2, Numbers
      <3>4. QED
        BY <1>3, <2>2, <3>1, <3>2, <3>3
    <2>3. QED
      BY <1>4, <2>1, <2>2
  <1>6. n + 1 <= MaxActivates
    BY <1>1, <1>2, Numbers DEF v
  <1>7. Rising(w, tFAW) /\ Len(w) <= MaxActivates
    BY <1>3, <1>5, <1>6 DEF Rising
  <1>8. QED
    BY <1>7 DEF w, v

(* What the controller notes in bank b when it issues p.                   *)
LEMMA IssuedIs ==
  ASSUME BanksOk, now \in Nat, NEW p \in Packet, NEW b \in Banks
  PROVE  /\ Issued(p)[b] \in BankRecord
         /\ banks[b].nextRead <= Issued(p)[b].nextRead
         /\ p.type = "READ" => now + Larger(tCCD, tBL2) <= Issued(p)[b].nextRead
         /\ p.type \in Columns =>
              /\ Issued(p)[b].state = banks[b].state /\ Issued(p)[b].row = banks[b].row
              /\ Issued(p)[b].nextActivate = banks[b].nextActivate
              /\ b # p.bank => Issued(p)[b].last = banks[b].last
         /\ p.type = "ACTIVATE" /\ b = p.bank =>
              Issued(p)[b].state = "ROW_ACTIVE" /\ Issued(p)[b].row = p.row
         /\ p.type = "ACTIVATE" /\ b # p.bank =>
              /\ Issued(p)[b].state = banks[b].state /\ Issued(p)[b].row = banks[b].row
              /\ Issued(p)[b].last = banks[b].last
              /\ banks[b].nextActivate <= Issued(p)[b].nextActivate
         /\ p.type = "PRECHARGE" /\ b # p.bank => Issued(p)[b] = banks[b]
         /\ p.type = "PRECHARGE" /\ b = p.bank =>
              /\ Issued(p)[b].state = "PRECHARGING" /\ Issued(p)[b].last = "PRECHARGE"
              /\ now + tRP <= Issued(p)[b].nextActivate
         /\ p.type = "REFRESH" =>
              /\ Issued(p)[b].state = "REFRESHING" /\ Issued(p)[b].last = "REFRESH"
              /\ Issued(p)[b].nextActivate = now + tRFC
  <1> DEFINE r == banks[b]
  <1>1. /\ r \in BankRecord /\ r.nextRead \in Nat /\ r.nextWrite \in Nat /\ r.nextActivate \in Nat
        /\ r.nextPrecharge \in Nat
    BY DEF BanksOk, BankRecord
  <1>2. /\ Columns = {"READ", "WRITE"} /\ p.type \in Types /\ p.row \in Rows \cup {NoRow}
        /\ Types = {"READ", "WRITE", "ACTIVATE", "PRECHARGE", "REFRESH"}
    BY DEF Packet, Types, Columns
  <1> DEFINE gap == Larger(tCCD, tBL2)
  <1>3. gap \in Nat
    BY Numbers, LargerIs
  <1> HIDE DEF gap
  <1>4. ASSUME NEW m \in Nat, NEW n \in Nat
        PROVE  Larger(now + m, n) \in Nat /\ now + m <= Larger(now + m, n)
               /\ n <= Larger(now + m, n)
    <2>1. now + m \in Nat
      OBVIOUS
    <2>2. QED
      BY <2>1, LargerIs
  <1>5. CASE p.type = "READ"
    <2> DEFINE x == Larger(now + gap, r.nextRead)
               y == Larger(now + ReadToWriteDelay, r.nextWrite)
               z == Larger(now + ReadToPreDelay, r.nextPrecharge)
    <2>1. /\ x \in Nat /\ y \in Nat /\ z \in Nat
          /\ r.nextRead <= x /\ now + gap <= x
      BY <1>1, <1>3, <1>4, Numbers
    <2>2. Issued(p)[b] = [r EXCEPT !.nextRead = x, !.nextWrite = y,
                                   !.nextPrecharge = IF b = p.bank THEN z ELSE r.nextPrecharge,
                                   !.last = IF b = p.bank THEN "READ" ELSE r.last]
      BY <1>5 DEF Issued, gap
    <2> HIDE DEF x, y, z, r
    <2>3. QED
      BY <1>1, <1>2, <1>5, <2>1, <2>2 DEF BankRecord, gap, r
  <1>6. CASE p.type = "WRITE"
    <2> DEFINE x == Larger(now + WriteToReadDelayB, r.nextRead)
               y == Larger(now + gap, r.nextWrite)
               z == Larger(now + WriteToPreDelay, r.nextPrecharge)
    <2>1. /\ x \in Nat /\ y \in Nat /\ z \in Nat /\ r.nextRead <= x
      BY <1>1, <1>3, <1>4, Numbers
    <2>2. Issued(p)[b] = [r EXCEPT !.nextWrite = y, !.nextRead = x,
                                   !.nextPrecharge = IF b = p.bank THEN z ELSE r.nextPrecharge,
                                   !.last = IF b = p.bank THEN "WRITE" ELSE r.last]
      BY <1>6 DEF Issued, gap
    <2> HIDE DEF x, y, z, r
    <2>3. QED
      BY <1>1, <1>2, <1>6, <2>1, <2>2 DEF BankRecord, r
  <1>7. CASE p.type = "ACTIVATE" /\ b = p.bank
    <2> DEFINE u == Larger(now + tRC, r.nextActivate)
               v == Larger(now + tRAS, r.nextPrecharge)
               x == Larger(now + tRCD, r.nextRead)
               y == Larger(now + tRCD, r.nextWrite)
    <2>1. u \in Nat /\ v \in Nat /\ x \in Nat /\ y \in Nat /\ r.nextRead <= x
      BY <1>1, <1>4, Numbers
    <2>2. Issued(p)[b] = [r EXCEPT !.state = "ROW_ACTIVE", !.last = "ACTIVATE", !.row = p.row,
                                   !.nextActivate = u, !.nextPrecharge = v,
                                   !.nextRead = x, !.nextWrite = y]
      BY <1>7 DEF Issued
    <2> HIDE DEF u, v, x, y, r
    <2>3. QED
      BY <1>1, <1>2, <1>7, <2>1, <2>2 DEF BankRecord, r
  <1>8. CASE p.type = "ACTIVATE" /\ b # p.bank
    <2> DEFINE u == Larger(now + tRRD, r.nextActivate)
    <2>1. u \in Nat /\ r.nextActivate <= u
      BY <1>1, <1>4, Numbers
    <2>2. Issued(p)[b] = [r EXCEPT !.nextActivate = u]
      BY <1>8 DEF Issued
    <2> HIDE DEF u, r
    <2>3. QED
      BY <1>1, <1>2, <1>8, <2>1, <2>2 DEF BankRecord, r
  <1>9. CASE p.type = "PRECHARGE"
    <2> DEFINE u == Larger(now + tRP, r.nextActivate)
    <2>1. u \in Nat /\ now + tRP <= u
      BY <1>1, <1>4, Numbers
    <2>2. Issued(p)[b] = IF b # p.bank THEN r
                         ELSE [r EXCEPT !.state = "PRECHARGING", !.last = "PRECHARGE",
                                        !.nextActivate = u]
      BY <1>9 DEF Issued
    <2> DEFINE n == Issued(p)[b]
    <2> HIDE DEF u, n, r
    <2>3. /\ n \in BankRecord /\ n.nextRead = r.nextRead
          /\ b # p.bank => n = r
          /\ b = p.bank => n.state = "PRECHARGING" /\ n.last = "PRECHARGE" /\ now + tRP <= n.nextActivate
      BY <1>1, <1>2, <2>1, <2>2 DEF BankRecord, n
    <2>4. r.nextRead <= n.nextRead
      BY <1>1, <2>3
    <2>5. QED
      BY <1>2, <1>9, <2>3, <2>4 DEF n, r
  <1>10. CASE p.type = "REFRESH"
    <2> DEFINE u == now + tRFC
    <2>1. u \in Nat
      BY Numbers
    <2>2. Issued(p)[b] = [r EXCEPT !.state = "REFRESHING", !.last = "REFRESH", !.nextActivate = u]
      BY <1>10 DEF Issued
    <2> DEFINE n == Issued(p)[b]
    <2> HIDE DEF u, n, r
    <2>3. /\ n \in BankRecord /\ n.nextRead = r.nextRead
          /\ n.state = "REFRESHING" /\ n.last = "REFRESH" /\ n.nextActivate = u
      BY <1>1, <1>2, <2>1, <2>2 DEF BankRecord, n
    <2>4. r.nextRead <= n.nextRead
      BY <1>1, <2>3
    <2>5. QED
      BY <1>2, <1>10, <2>3, <2>4 DEF n, r, u
  <1>11. QED
    BY <1>2, <1>5, <1>6, <1>7, <1>8, <1>9, <1>10

(* The queues lose what goes with c.                                       *)
CutOut(c) == queues' = [queues EXCEPT ![c.packet.bank] =
                       SubSeq(@, 1, c.first - 1) \o SubSeq(@, c.last + 1, Len(@))]

(* Places before and after keep their order, and what was right behind a   *)
(* place and stays is right behind it.                                     *)
LEMMA WasOrder ==
  ASSUME TypeInv, pc = "pop", NEW c \in Popped, CutOut(c), NEW b \in Banks, NEW k \in DOMAIN queues'[b]
  PROVE  /\ \A j \in DOMAIN queues'[b] : j < k => Was(c, b, j) < Was(c, b, k)
         /\ Was(c, b, k) + 1 \in DOMAIN queues[b]
              /\ ~(b = c.packet.bank /\ Was(c, b, k) + 1 \in c.first .. c.last) =>
              k + 1 \in DOMAIN queues'[b] /\ Was(c, b, k + 1) = Was(c, b, k) + 1
         /\ Was(c, b, k) > 1 /\ ~(b = c.packet.bank /\ Was(c, b, k) - 1 \in c.first .. c.last) =>
              k - 1 \in DOMAIN queues'[b] /\ k > 1 /\ Was(c, b, k - 1) = Was(c, b, k) - 1
  <1> DEFINE f == c.first
             l == c.last
             g == l - f + 1
             m == Was(c, b, k)
  <1>1. /\ queues' \in [Banks -> Seq(Packet)]
        /\ \A i \in DOMAIN queues'[b] : Was(c, b, i) \in DOMAIN queues[b]
        /\ m \in DOMAIN queues[b]
        /\ \A i \in DOMAIN queues[b] :
              \/ b = c.packet.bank /\ i \in f .. l
              \/ \E j \in DOMAIN queues'[b] : i = Was(c, b, j)
    BY PopQueues DEF CutOut
  <1>2. DOMAIN queues'[b] \subseteq Nat \ {0} /\ DOMAIN queues[b] \subseteq Nat \ {0}
    <2>1. QueuesTyped
      BY QueuesAre DEF TypeInv, QueuesOk
    <2> DEFINE E == Packet
               q == queues'[b]
    <2> HIDE DEF E
    <2>2. q \in Seq(E)
      BY <1>1 DEF E
    <2> HIDE DEF q
    <2>3. DOMAIN q \subseteq Nat \ {0}
      BY <2>2
    <2>4. DOMAIN queues[b] \subseteq Nat \ {0}
      BY <2>1 DEF QueuesTyped
    <2>5. QED
      BY <2>3, <2>4 DEF q
  <1>3. f \in Nat \ {0} /\ l \in Nat /\ g \in Nat /\ l = f + g - 1
    <2>1. /\ f \in 1 .. Len(queues[c.packet.bank]) + 1 /\ l \in f - 1 .. Len(queues[c.packet.bank])
          /\ Len(queues[c.packet.bank]) \in Nat
      BY CommandIs, QueuesAre DEF TypeInv, QueuesOk, QueuesTyped
    <2> HIDE DEF f, l
    <2>2. QED
      BY <2>1
  <1>4. \A j : Was(c, b, j) = IF b = c.packet.bank /\ ~(j < f) THEN j + g ELSE j
    BY DEF Was
  <1>5. m \in Nat \ {0} /\ k \in Nat \ {0} /\ m = IF b = c.packet.bank /\ ~(k < f) THEN k + g ELSE k
    BY <1>1, <1>2, <1>4
  <1> HIDE DEF f, l, g, m
  <1>6. ASSUME NEW j \in DOMAIN queues'[b], j < k PROVE Was(c, b, j) < m
    BY <1>2, <1>3, <1>4, <1>5, <1>6
  <1>7. ASSUME m + 1 \in DOMAIN queues[b], ~(b = c.packet.bank /\ m + 1 \in f .. l)
        PROVE  k + 1 \in DOMAIN queues'[b] /\ Was(c, b, k + 1) = m + 1
    <2>1. PICK j \in DOMAIN queues'[b] : m + 1 = Was(c, b, j)
      BY <1>1, <1>7
    <2>2. j = k + 1
      BY <1>2, <1>3, <1>4, <1>5, <1>7, <2>1
    <2>3. QED
      BY <2>1, <2>2
  <1>8. ASSUME m > 1, ~(b = c.packet.bank /\ m - 1 \in f .. l)
        PROVE  k - 1 \in DOMAIN queues'[b] /\ k > 1 /\ Was(c, b, k - 1) = m - 1
    <2>1. m - 1 \in DOMAIN queues[b]
      <3>1. DOMAIN queues[b] = 1 .. Len(queues[b]) /\ Len(queues[b]) \in Nat
        BY QueuesAre DEF TypeInv, QueuesOk, QueuesTyped
      <3>2. QED
        BY <1>1, <1>5, <1>8, <3>1 DEF m
    <2>2. PICK j \in DOMAIN queues'[b] : m - 1 = Was(c, b, j)
      BY <1>1, <1>8, <2>1
    <2>3. j = k - 1 /\ k > 1
      BY <1>2, <1>3, <1>4, <1>5, <1>8, <2>2
    <2>4. QED
      BY <2>2, <2>3
  <1>9. QED
    BY <1>6, <1>7, <1>8 DEF f, l, m

(* What is right before the first place taken is no ACTIVATE.              *)
LEMMA NoneBefore ==
  ASSUME TypeInv, pc = "pop", NEW c \in Popped, c.first > 1
  PROVE  queues[c.packet.bank][c.first - 1].type # "ACTIVATE"
  <1>1. QueuesTyped /\ \A b \in Banks : Shape(queues[b], b, received)
    BY WholeQueues
  <1>2. PICK b, i : QueueCommand(c, b, i)
    <2>1. c.first # 1
      OBVIOUS
    <2>2. \A b : ~EndOfRow(c, b)
      BY <2>1 DEF EndOfRow
    <2>3. ~RefreshOfAll(c)
      BY <2>1 DEF RefreshOfAll
    <2>4. QED
      BY <2>2, <2>3, PoppedIs
  <1>3. /\ b \in Banks /\ i \in 1 .. Len(queues[b]) /\ Len(queues[b]) \in Nat
        /\ c.packet = queues[b][i] /\ c.first = FirstRemoved(b, i)
        /\ DOMAIN queues[b] = 1 .. Len(queues[b])
    BY <1>1, <1>2 DEF QueueCommand, QueuesTyped
  <1>4. c.packet.bank = b
    BY <1>1, <1>3 DEF Shape, Paired
  <1>5. CASE i > 1 /\ queues[b][i - 1].type = "ACTIVATE"
    <2>1. c.first = i - 1
      BY <1>3, <1>5 DEF FirstRemoved
    <2>2. SUFFICES ASSUME queues[b][i - 2].type = "ACTIVATE" PROVE FALSE
      BY <1>3, <1>4, <2>1
    <2>3. i - 2 \in DOMAIN queues[b] /\ (i - 2) + 1 = i - 1
      BY <1>3, <2>1
    <2>4. queues[b][(i - 2) + 1].type \in Columns
      BY <1>1, <1>3, <2>2, <2>3 DEF Shape, Paired
    <2>5. QED
      BY <1>5, <2>3, <2>4 DEF Columns
  <1>6. CASE ~(i > 1 /\ queues[b][i - 1].type = "ACTIVATE")
    <2>1. c.first = i
      BY <1>3, <1>6 DEF FirstRemoved
    <2>2. QED
      BY <1>3, <1>4, <1>6, <2>1
  <1>7. QED
    BY <1>5, <1>6

(* The queues keep their shape.                                            *)
LEMMA PopShape ==
  ASSUME TypeInv, pc = "pop", NEW c \in Popped, CutOut(c)
  PROVE  \A b \in Banks : Shape(queues'[b], b, received)
  <1>1. QueuesTyped /\ \A b \in Banks : Shape(queues[b], b, received)
    BY WholeQueues
  <1> SUFFICES ASSUME NEW b \in Banks, NEW k \in DOMAIN queues'[b]
               PROVE  LET q == queues'[b] IN
                 /\ q[k].bank = b /\ q[k].type \in Columns \cup {"ACTIVATE"} /\ q[k].id \in 1 .. received
                 /\ q[k].type = "ACTIVATE" =>
                      k + 1 \in DOMAIN q /\ q[k + 1].type \in Columns /\ q[k + 1].id = q[k].id
                        /\ q[k + 1].row = q[k].row
    BY DEF Shape, Paired
  <1> DEFINE m == Was(c, b, k)
  <1>2. /\ m \in DOMAIN queues[b] /\ queues'[b][k] = queues[b][m]
        /\ b = c.packet.bank => m \notin c.first .. c.last
        /\ k + 1 \in DOMAIN queues'[b] => queues'[b][k + 1] = queues[b][Was(c, b, k + 1)]
    BY PopQueues DEF CutOut
  <1>3. /\ m + 1 \in DOMAIN queues[b] /\ ~(b = c.packet.bank /\ m + 1 \in c.first .. c.last) =>
             k + 1 \in DOMAIN queues'[b] /\ Was(c, b, k + 1) = m + 1
    BY WasOrder
  <1> HIDE DEF m
  <1>4. /\ queues[b][m].bank = b /\ queues[b][m].type \in Columns \cup {"ACTIVATE"}
        /\ queues[b][m].id \in 1 .. received
        /\ queues[b][m].type = "ACTIVATE" =>
             m + 1 \in DOMAIN queues[b] /\ queues[b][m + 1].type \in Columns
               /\ queues[b][m + 1].id = queues[b][m].id /\ queues[b][m + 1].row = queues[b][m].row
    BY <1>1, <1>2 DEF Shape, Paired
  <1>5. ASSUME queues[b][m].type = "ACTIVATE", b = c.packet.bank, m + 1 \in c.first .. c.last
        PROVE  FALSE
    <2>1. c.first \in 1 .. Len(queues[b]) + 1 /\ c.last \in Int /\ Len(queues[b]) \in Nat
          /\ m \in 1 .. Len(queues[b])
      <3>1. Len(queues[b]) \in Nat /\ m \in 1 .. Len(queues[b])
        BY <1>1, <1>2 DEF QueuesTyped
      <3>2. c.first \in 1 .. Len(queues[b]) + 1 /\ c.last \in c.first - 1 .. Len(queues[b])
        BY <1>5, CommandIs
      <3> DEFINE f == c.first
                 l == c.last
      <3> HIDE DEF f, l
      <3>3. f \in Int /\ l \in Int
        BY <3>1, <3>2 DEF f, l
      <3>4. QED
        BY <3>1, <3>2, <3>3 DEF f, l
    <2>2. m \notin c.first .. c.last
      BY <1>2, <1>5
    <2>3. m = c.first - 1 /\ c.first > 1
      <3> DEFINE f == c.first
                 l == c.last
      <3>1. /\ f \in Int /\ l \in Int /\ m \in Int /\ m + 1 \in f .. l /\ m \notin f .. l
            /\ m >= 1
        BY <1>5, <2>1, <2>2
      <3> HIDE DEF f, l
      <3>2. m = f - 1 /\ f > 1
        BY <3>1
      <3>3. QED
        BY <3>2 DEF f
    <2>4. QED
      BY <1>5, <2>3, NoneBefore
  <1>6. QED
    BY <1>2, <1>3, <1>4, <1>5

(* After pop() the types are right.                                        *)
LEMMA TypePop == TypeInv /\ Pop => TypeInv'
  <1> SUFFICES ASSUME TypeInv, Pop PROVE TypeInv'
    OBVIOUS
  <1>1. /\ UNCHANGED <<clocks, events, received, pending, busFreeTime, counter1, now, core0, taken,
                       length, history>>
        /\ pc = "pop" /\ pc' \in {"enqueue", "send"}
        /\ refreshCount' = (IF refreshCount = 0 THEN RefreshPeriod ELSE refreshCount) - 1
    BY DEF Pop
  <1>2. EventsOk' /\ PendingOk' /\ HistoryOk' /\ TakenTyped' /\ HalfOk'
    <2>1. EventsOk' /\ HistoryOk'
      BY <1>1 DEF TypeInv, EventsOk, HistoryOk, history
    <2>2. PendingOk'
      BY <1>1 DEF TypeInv, PendingOk
    <2>3. TakenTyped' /\ HalfOk'
      BY <1>1 DEF TypeInv, TakenTyped, Enqueuing, HalfOk
    <2>4. QED
      BY <2>1, <2>2, <2>3
  <1>3. refreshCount' \in 0 .. RefreshPeriod
    BY <1>1, Numbers DEF TypeInv, CountsOk
  <1>4. pc' \in {"enqueue", "send"} => ClocksOk'
    BY <1>1 DEF TypeInv, ClocksOk, clocks, history
  <1>5. CASE /\ pc' = "enqueue" /\ faw' = Window /\ refreshWaiting' = NeedRefresh
             /\ UNCHANGED <<queues, accesses, nextBank, nextBankPRE, banks, command>>
    <2>1. Rising(Window, tFAW) /\ Len(Window) <= MaxActivates
      <3>1. Rising(Window, tFAW - 1) /\ Len(Window) <= MaxActivates
        BY WindowIs DEF TypeInv
      <3>2. \A x : x \in 1 .. tFAW - 1 => x \in 1 .. tFAW
        BY Numbers
      <3>3. QED
        BY <3>1, <3>2 DEF Rising
    <2>2. WindowOk' /\ BanksOk' /\ CommandOk' /\ QueuesOk'
      <3>1. \A b \in Banks : Shape(queues[b], b, received)
        BY <1>1, WholeQueues
      <3>2. queues' \in [Banks -> Seq(Packet)] /\ \A b \in Banks : Shape(queues'[b], b, received')
        BY <1>1, <1>5, <3>1 DEF TypeInv, QueuesOk
      <3>3. QueuesOk'
        BY <3>2, StillShaped
      <3>4. QED
        BY <1>1, <1>5, <2>1, <3>3 DEF TypeInv, WindowOk, BanksOk, CommandOk
    <2>3. CountsOk'
      BY <1>3, <1>5 DEF TypeInv, CountsOk, NeedRefresh
    <2>4. QED
      BY <1>2, <1>4, <1>5, <2>2, <2>3 DEF TypeInv
  <1>6. ASSUME NEW c \in Popped,
               pc' = "send", command' = c.packet, CutOut(c),
               accesses' = [accesses EXCEPT ![c.packet.bank] =
                 IF c.packet.type = "PRECHARGE" THEN 0 ELSE IF c.first < c.last THEN @ + 1 ELSE @],
               faw' = IF c.packet.type = "ACTIVATE" THEN Append(Window, tFAW) ELSE Window,
               nextBank' =
                 ((IF ~NeedRefresh /\ ForRequest # {} THEN c.packet.bank ELSE nextBank) + 1) % numBanks,
               nextBankPRE' =
                 IF (NeedRefresh /\ ForRefresh # {}) \/ (~NeedRefresh /\ ForRequest # {})
                 THEN nextBankPRE ELSE c.packet.bank,
               refreshWaiting' = (NeedRefresh /\ c.packet.type # "REFRESH"),
               banks' = Issued(c.packet)
        PROVE  TypeInv'
    <2>1. PacketOk(c.packet, received) /\ c.packet.bank \in Banks /\ c.packet \in Packet
      BY <1>1, CommandIs DEF PacketOk
    <2>2. QueuesOk'
      <3>1. queues' \in [Banks -> Seq(Packet)]
        BY <1>1, <1>6, PopQueues DEF CutOut
      <3>2. \A b \in Banks : Shape(queues'[b], b, received')
        BY <1>1, <1>6, PopShape
      <3>3. QED
        BY <3>1, <3>2, StillShaped
    <2>3. WindowOk'
      <3>1. Rising(Window, tFAW) /\ Len(Window) <= MaxActivates
        <4>1. Rising(Window, tFAW - 1) /\ Len(Window) <= MaxActivates
          BY WindowIs DEF TypeInv
        <4>2. \A x : x \in 1 .. tFAW - 1 => x \in 1 .. tFAW
          BY Numbers
        <4>3. QED
          BY <4>1, <4>2 DEF Rising
      <3>2. ASSUME c.packet.type = "ACTIVATE" PROVE Len(Window) < MaxActivates
        <4>1. isIssuable(c.packet)
          BY <1>1, <3>2, CommandIs DEF QueueCommand
        <4>2. QED
          BY <3>2, <4>1 DEF isIssuable
      <3>3. QED
        BY <1>6, <3>1, <3>2, WindowGrows DEF TypeInv, WindowOk
    <2>4. BanksOk'
      <3>1. \A b \in Banks : Issued(c.packet)[b] \in BankRecord
        BY <2>1, IssuedIs DEF TypeInv, ClocksOk
      <3>2. QED
        BY <1>6, <3>1 DEF BanksOk, Issued
    <2>5. CommandOk'
      BY <1>1, <1>6, <2>1 DEF CommandOk
    <2>6. accesses' \in [Banks -> 0 .. TOTAL_ROW_ACCESSES]
      <3>1. c.first < c.last => accesses[c.packet.bank] < TOTAL_ROW_ACCESSES
        <4>1. SUFFICES ASSUME c.first < c.last
                       PROVE  accesses[c.packet.bank] < TOTAL_ROW_ACCESSES
          OBVIOUS
        <4>2. c.packet.type \in Columns /\ isIssuable(c.packet)
          BY <1>1, <4>1, CommandIs
        <4>3. QED
          BY <4>2 DEF isIssuable, Columns
      <3>2. accesses \in [Banks -> 0 .. TOTAL_ROW_ACCESSES]
        BY DEF TypeInv, CountsOk
      <3> DEFINE n == IF c.packet.type = "PRECHARGE" THEN 0
                      ELSE IF c.first < c.last THEN accesses[c.packet.bank] + 1
                      ELSE accesses[c.packet.bank]
      <3>3. n \in 0 .. TOTAL_ROW_ACCESSES
        <4> DEFINE a == accesses[c.packet.bank]
        <4>1. a \in 0 .. TOTAL_ROW_ACCESSES /\ TOTAL_ROW_ACCESSES \in Nat
          BY <2>1, <3>2, Numbers
        <4>2. c.first < c.last => a < TOTAL_ROW_ACCESSES
          BY <3>1
        <4> HIDE DEF a
        <4>3. 0 \in 0 .. TOTAL_ROW_ACCESSES
              /\ (a < TOTAL_ROW_ACCESSES => a + 1 \in 0 .. TOTAL_ROW_ACCESSES)
          BY <4>1
        <4>4. QED
          BY <4>1, <4>2, <4>3, Zenon DEF a
      <3>4. accesses' = [accesses EXCEPT ![c.packet.bank] = n]
        BY <1>6
      <3> HIDE DEF n
      <3>5. QED
        BY <3>2, <3>3, <3>4
    <2>7. nextBank' \in Banks
      <3> DEFINE x == (IF ~NeedRefresh /\ ForRequest # {} THEN c.packet.bank ELSE nextBank)
      <3>1. x \in Banks
        BY <2>1 DEF TypeInv, CountsOk
      <3>2. nextBank' = (x + 1) % numBanks
        BY <1>6
      <3> HIDE DEF x
      <3>3. (x + 1) % numBanks \in 0 .. numBanks - 1
        BY <3>1, Numbers DEF Banks
      <3>4. QED
        BY <3>2, <3>3 DEF Banks
    <2>8. nextBankPRE' \in Banks
      BY <1>6, <2>1 DEF TypeInv, CountsOk
    <2>9. refreshWaiting' \in BOOLEAN
      BY <1>6
    <2>10. CountsOk'
      BY <1>3, <2>6, <2>7, <2>8, <2>9 DEF CountsOk
    <2>11. QED
      BY <1>2, <1>4, <1>6, <2>2, <2>3, <2>4, <2>5, <2>10 DEF TypeInv
  <1>7. QED
    BY <1>5, <1>6 DEF Pop, CutOut

-----------------------------------------------------------------------------
(* What the handlers of thread 0 do to the banks.                          *)

(* All but the times for columns is as before, and no READ is let earlier. *)
SameRow(b) ==
  /\ banks'[b] \in BankRecord
  /\ banks'[b].state = banks[b].state /\ banks'[b].row = banks[b].row
  /\ banks'[b].last = banks[b].last /\ banks'[b].nextActivate = banks[b].nextActivate
  /\ banks[b].nextRead <= banks'[b].nextRead

(* A column command at the rank moves the times for columns only.          *)
LEMMA ColumnAtRank ==
  ASSUME BanksOk, ClocksOk, NEW e \in events, RankRead(e) \/ RankWrite(e)
  PROVE  BanksOk' /\ \A b \in Banks : SameRow(b)
  <1>1. /\ banks \in [Banks -> BankRecord] /\ clock \in Nat
        /\ \A b \in Banks : /\ banks[b] \in BankRecord /\ banks[b].nextRead \in Nat
                            /\ banks[b].nextWrite \in Nat /\ banks[b].nextPrecharge \in Nat
    BY Numbers DEF BanksOk, BankRecord, ClocksOk
  <1>2. ASSUME NEW m \in Nat, NEW n \in Nat
        PROVE  Larger(n, clock + m) \in Nat /\ n <= Larger(n, clock + m)
    <2>1. clock + m \in Nat
      BY <1>1
    <2>2. QED
      BY <2>1, LargerIs
  <1>3. Larger(tCCD, tBL2) \in Nat
    BY Numbers, LargerIs
  <1>4. CASE banks' = banks
    BY <1>1, <1>4 DEF SameRow, BanksOk
  <1>5. CASE banks' = [b \in Banks |->
               [banks[b] EXCEPT
                  !.nextRead = Larger(@, clock + Larger(tCCD, tBL2)),
                  !.nextWrite = Larger(@, clock + ReadToWriteDelay),
                  !.nextPrecharge = IF b = e.packet.bank THEN Larger(@, clock + ReadToPreDelay) ELSE @]]
    <2>1. ASSUME NEW b \in Banks PROVE SameRow(b)
      <3> DEFINE r == banks[b]
                 x == Larger(r.nextRead, clock + Larger(tCCD, tBL2))
                 y == Larger(r.nextWrite, clock + ReadToWriteDelay)
                 z == IF b = e.packet.bank THEN Larger(r.nextPrecharge, clock + ReadToPreDelay)
                      ELSE r.nextPrecharge
      <3>1. x \in Nat /\ y \in Nat /\ z \in Nat /\ r.nextRead <= x /\ r \in BankRecord
        BY <1>1, <1>2, <1>3, Numbers
      <3>2. banks'[b] = [r EXCEPT !.nextRead = x, !.nextWrite = y, !.nextPrecharge = z]
        BY <1>5
      <3> DEFINE n == banks'[b]
      <3> HIDE DEF x, y, z, n, r
      <3>3. /\ n \in BankRecord /\ n.state = r.state /\ n.row = r.row /\ n.last = r.last
            /\ n.nextActivate = r.nextActivate /\ n.nextRead = x
        BY <3>1, <3>2 DEF BankRecord, n
      <3>4. QED
        BY <3>1, <3>3 DEF SameRow, n, r
    <2>2. QED
      BY <1>5, <2>1 DEF BanksOk, SameRow
  <1>6. CASE banks' = [b \in Banks |->
               [banks[b] EXCEPT
                  !.nextWrite = Larger(@, clock + Larger(tCCD, tBL2)),
                  !.nextRead = Larger(@, clock + WriteToReadDelayB),
                  !.nextPrecharge = IF b = e.packet.bank THEN Larger(@, clock + WriteToPreDelay) ELSE @]]
    <2>1. ASSUME NEW b \in Banks PROVE SameRow(b)
      <3> DEFINE r == banks[b]
                 y == Larger(r.nextWrite, clock + Larger(tCCD, tBL2))
                 x == Larger(r.nextRead, clock + WriteToReadDelayB)
                 z == IF b = e.packet.bank THEN Larger(r.nextPrecharge, clock + WriteToPreDelay)
                      ELSE r.nextPrecharge
      <3>1. x \in Nat /\ y \in Nat /\ z \in Nat /\ r.nextRead <= x /\ r \in BankRecord
        BY <1>1, <1>2, <1>3, Numbers
      <3>2. banks'[b] = [r EXCEPT !.nextWrite = y, !.nextRead = x, !.nextPrecharge = z]
        BY <1>6
      <3> DEFINE n == banks'[b]
      <3> HIDE DEF x, y, z, n, r
      <3>3. n = [r EXCEPT !.nextRead = x, !.nextWrite = y, !.nextPrecharge = z]
        BY <3>1, <3>2 DEF BankRecord, n
      <3>4. /\ n \in BankRecord /\ n.state = r.state /\ n.row = r.row /\ n.last = r.last
            /\ n.nextActivate = r.nextActivate /\ n.nextRead = x
        BY <3>1, <3>3 DEF BankRecord
      <3>5. QED
        BY <3>1, <3>4 DEF SameRow, n, r
    <2>2. QED
      BY <1>6, <2>1 DEF BanksOk, SameRow
  <1>7. QED
    BY <1>4, <1>5, <1>6 DEF RankRead, RankWrite

(* An ACTIVATE at the rank opens an idle bank that may be activated, or    *)
(* puts off the others; a READ is let in only after the row has opened.    *)
LEMMA ActivateAtRank ==
  ASSUME BanksOk, ClocksOk, NEW e \in events, e.packet \in Packet, RankActivate(e)
  PROVE  /\ BanksOk'
         /\ \A b \in Banks :
              /\ banks'[b].last = banks[b].last
              /\ banks[b].nextActivate <= banks'[b].nextActivate
              /\ \/ banks'[b].state = banks[b].state /\ banks'[b].row = banks[b].row
                 \/ banks[b].state = "IDLE" /\ clock >= banks[b].nextActivate
              /\ banks[b].nextRead <= banks'[b].nextRead \/ banks'[b].nextRead = clock + tRCD
  <1> DEFINE d == e.packet.bank
  <1>1. /\ banks \in [Banks -> BankRecord] /\ clock \in Nat /\ d \in Banks
        /\ e.packet.row \in Rows \cup {NoRow}
        /\ \A b \in Banks : /\ banks[b] \in BankRecord /\ banks[b].nextRead \in Nat
                            /\ banks[b].nextActivate \in Nat
    BY Numbers DEF BanksOk, BankRecord, ClocksOk, Packet
  <1>2. /\ clock + tRC \in Nat /\ clock + tRAS \in Nat /\ clock + tRCD \in Nat
        /\ clock + tRRD \in Nat
        /\ \A b \in Banks : banks[b].nextRead <= banks[b].nextRead
                            /\ banks[b].nextActivate <= banks[b].nextActivate
    BY <1>1, Numbers
  <1>3. CASE banks' = banks
    BY <1>1, <1>2, <1>3 DEF BanksOk
  <1>4. CASE /\ banks[d].state = "IDLE" /\ ~(clock < banks[d].nextActivate)
             /\ banks' = [b \in Banks |->
                 IF b # d
                 THEN [banks[b] EXCEPT !.nextActivate = Larger(@, clock + tRRD)]
                 ELSE [banks[d] EXCEPT !.state = "ROW_ACTIVE", !.row = e.packet.row,
                         !.nextActivate = clock + tRC, !.nextPrecharge = clock + tRAS,
                         !.nextRead = clock + tRCD, !.nextWrite = clock + tRCD]]
    <2>1. ASSUME NEW r \in BankRecord, NEW u \in Nat
          PROVE  LET n == [r EXCEPT !.nextActivate = u] IN
                   n \in BankRecord /\ n.last = r.last /\ n.nextActivate = u
                     /\ n.nextRead = r.nextRead /\ n.state = r.state /\ n.row = r.row
      BY DEF BankRecord
    <2>2. ASSUME NEW b \in Banks
          PROVE  /\ banks'[b] \in BankRecord /\ banks'[b].last = banks[b].last
                 /\ banks[b].nextActivate <= banks'[b].nextActivate
                 /\ \/ banks'[b].state = banks[b].state /\ banks'[b].row = banks[b].row
                    \/ banks[b].state = "IDLE" /\ clock >= banks[b].nextActivate
                 /\ banks[b].nextRead <= banks'[b].nextRead \/ banks'[b].nextRead = clock + tRCD
      <3>1. CASE b = d
        <4>1. banks'[b] = [banks[b] EXCEPT !.state = "ROW_ACTIVE", !.row = e.packet.row,
                             !.nextActivate = clock + tRC, !.nextPrecharge = clock + tRAS,
                             !.nextRead = clock + tRCD, !.nextWrite = clock + tRCD]
          BY <1>4, <3>1
        <4>2. /\ banks'[b] \in BankRecord /\ banks'[b].last = banks[b].last
              /\ banks'[b].nextActivate = clock + tRC /\ banks'[b].nextRead = clock + tRCD
          <5> DEFINE u == clock + tRC
                     y == clock + tRAS
                     x == clock + tRCD
                     row == e.packet.row
                     r == banks[b]
                     n == banks'[b]
          <5>1. /\ u \in Nat /\ x \in Nat /\ y \in Nat /\ row \in Rows \cup {NoRow} /\ r \in BankRecord
                /\ n = [r EXCEPT !.state = "ROW_ACTIVE", !.row = row, !.nextActivate = u,
                             !.nextPrecharge = y, !.nextRead = x, !.nextWrite = x]
            BY <1>1, <1>2, <4>1
          <5> HIDE DEF u, y, x, row, r, n
          <5>2. n \in BankRecord /\ n.last = r.last /\ n.nextActivate = u /\ n.nextRead = x
            BY <5>1 DEF BankRecord
          <5>3. QED
            BY <5>2 DEF u, x, r, n
        <4>3. ~(clock < banks[b].nextActivate) /\ banks[b].nextActivate \in Nat
          BY <1>1, <1>4, <3>1
        <4>4. clock >= banks[b].nextActivate /\ banks[b].nextActivate <= clock + tRC
          BY <1>1, <4>3, Numbers
        <4>5. QED
          BY <1>4, <3>1, <4>2, <4>4
      <3>2. CASE b # d
        <4> DEFINE u == Larger(banks[b].nextActivate, clock + tRRD)
        <4>1. u \in Nat /\ banks[b].nextActivate <= u
          BY <1>1, <1>2, LargerIs
        <4>2. banks'[b] = [banks[b] EXCEPT !.nextActivate = u]
          BY <1>4, <3>2
        <4> HIDE DEF u
        <4>3. QED
          BY <1>1, <1>2, <2>1, <4>1, <4>2
      <3>3. QED
        BY <3>1, <3>2
    <2>3. QED
      BY <1>4, <2>2 DEF BanksOk
  <1>5. QED
    BY <1>3, <1>4 DEF RankActivate

(* A PRECHARGE at the rank only closes an open bank.                       *)
LEMMA PrechargeAtRank ==
  ASSUME BanksOk, ClocksOk, NEW e \in events, e.packet \in Packet, RankPrecharge(e)
  PROVE  /\ BanksOk'
         /\ Open(e.packet.bank) \/ banks' = banks
         /\ \A b \in Banks : banks'[b].nextRead = banks[b].nextRead
  <1> DEFINE d == e.packet.bank
  <1>1. /\ banks \in [Banks -> BankRecord] /\ clock \in Nat /\ d \in Banks
        /\ banks[d] \in BankRecord /\ banks[d].nextActivate \in Nat
    <2>1. banks \in [Banks -> BankRecord] /\ clock \in Nat /\ d \in Banks
      BY Numbers DEF BanksOk, ClocksOk, Packet
    <2>2. \A r \in BankRecord : r.nextActivate \in Nat
      BY DEF BankRecord
    <2>3. QED
      BY <2>1, <2>2
  <1>2. CASE banks' = banks
    BY <1>1, <1>2 DEF BanksOk
  <1>3. CASE /\ Open(d)
             /\ banks' = [banks EXCEPT ![d].state = "IDLE",
                                       ![d].nextActivate = Larger(@, clock + tRP)]
    <2> DEFINE u == Larger(banks[d].nextActivate, clock + tRP)
    <2>1. u \in Nat
      <3>1. clock + tRP \in Nat
        BY <1>1, Numbers
      <3>2. QED
        BY <1>1, <3>1, LargerIs
    <2>2. ASSUME NEW r \in BankRecord, NEW x \in Nat
          PROVE  LET n == [r EXCEPT !.state = "IDLE", !.nextActivate = x] IN
                   n \in BankRecord /\ n.nextRead = r.nextRead
      BY DEF BankRecord
    <2>3. banks' = [banks EXCEPT ![d] = [banks[d] EXCEPT !.state = "IDLE", !.nextActivate = u]]
      BY <1>1, <1>3 DEF BankRecord
    <2> DEFINE n == [banks[d] EXCEPT !.state = "IDLE", !.nextActivate = u]
    <2> HIDE DEF u
    <2>4. n \in BankRecord /\ n.nextRead = banks[d].nextRead
      BY <1>1, <2>1, <2>2
    <2>5. banks' = [banks EXCEPT ![d] = n]
      BY <2>3
    <2> HIDE DEF n
    <2>6. BanksOk'
      BY <1>1, <2>4, <2>5 DEF BanksOk
    <2>7. \A b \in Banks : banks'[b].nextRead = banks[b].nextRead
      BY <1>1, <2>4, <2>5
    <2>8. QED
      BY <1>3, <2>6, <2>7
  <1>4. QED
    BY <1>2, <1>3 DEF RankPrecharge

(* A REFRESH at the rank only bars idle banks.                             *)
LEMMA RefreshAtRank ==
  ASSUME BanksOk, ClocksOk, NEW e \in events, RankRefresh(e)
  PROVE  /\ BanksOk'
         /\ \A b \in Banks :
              /\ banks'[b].state = banks[b].state /\ banks'[b].row = banks[b].row
              /\ banks'[b].last = banks[b].last /\ banks'[b].nextRead = banks[b].nextRead
              /\ banks'[b].nextActivate \in {banks[b].nextActivate, clock + tRFC}
  <1>1. banks \in [Banks -> BankRecord] /\ clock + tRFC \in Nat
    BY Numbers DEF BanksOk, ClocksOk
  <1>2. banks' = [b \in Banks |->
           IF \A x \in 0 .. b : banks[x].state = "IDLE"
           THEN [banks[b] EXCEPT !.nextActivate = clock + tRFC] ELSE banks[b]]
    BY DEF RankRefresh
  <1>3. ASSUME NEW b \in Banks
        PROVE  banks'[b] \in {[banks[b] EXCEPT !.nextActivate = clock + tRFC], banks[b]}
    BY <1>2
  <1>4. ASSUME NEW b \in Banks
        PROVE  /\ banks'[b] \in BankRecord
               /\ banks'[b].state = banks[b].state /\ banks'[b].row = banks[b].row
               /\ banks'[b].last = banks[b].last /\ banks'[b].nextRead = banks[b].nextRead
               /\ banks'[b].nextActivate \in {banks[b].nextActivate, clock + tRFC}
    <2> DEFINE u == clock + tRFC
               r == banks[b]
               n == banks'[b]
    <2>1. u \in Nat /\ r \in BankRecord /\ (n = [r EXCEPT !.nextActivate = u] \/ n = r)
      BY <1>1, <1>3
    <2> HIDE DEF u, r, n
    <2>2. /\ n \in BankRecord /\ n.state = r.state /\ n.row = r.row /\ n.last = r.last
          /\ n.nextRead = r.nextRead /\ n.nextActivate \in {r.nextActivate, u}
      BY <2>1 DEF BankRecord
    <2>3. QED
      BY <2>2 DEF u, r, n
  <1>5. QED
    BY <1>2, <1>4 DEF BanksOk

(* A state update makes banks idle.                                        *)
LEMMA UpdateOfState ==
  ASSUME BanksOk, ClocksOk, NEW e \in events, e.packet \in Packet, StateUpdate(e)
  PROVE  /\ BanksOk'
         /\ \A b \in Banks :
              /\ banks'[b].row = banks[b].row /\ banks'[b].last = banks[b].last
              /\ banks'[b].nextRead = banks[b].nextRead
              /\ banks'[b].nextActivate = banks[b].nextActivate
              /\ \/ banks'[b].state = banks[b].state
                 \/ banks[e.packet.bank].last = "REFRESH" /\ banks'[b].state = "IDLE"
                 \/ /\ banks[e.packet.bank].last = "PRECHARGE" /\ b = e.packet.bank
                    /\ banks'[b].state = "IDLE"
  <1> DEFINE d == e.packet.bank
  <1>1. banks \in [Banks -> BankRecord] /\ d \in Banks
    BY DEF BanksOk, Packet
  <1>2. ASSUME NEW r \in BankRecord
        PROVE  LET n == [r EXCEPT !.state = "IDLE"] IN
                 n \in BankRecord /\ n.last = r.last /\ n.nextActivate = r.nextActivate
                   /\ n.nextRead = r.nextRead /\ n.row = r.row /\ n.state = "IDLE"
    BY DEF BankRecord
  <1>3. CASE banks[d].last = "REFRESH"
    <2>1. banks' = [x \in Banks |-> [banks[x] EXCEPT !.state = "IDLE"]]
      BY <1>3 DEF StateUpdate
    <2>2. QED
      BY <1>1, <1>2, <1>3, <2>1 DEF BanksOk
  <1>4. CASE banks[d].last = "PRECHARGE"
    <2>1. banks' = [banks EXCEPT ![d].state = "IDLE"]
      BY <1>4 DEF StateUpdate
    <2>2. \A b \in Banks : banks'[b] = IF b = d THEN [banks[d] EXCEPT !.state = "IDLE"] ELSE banks[b]
      BY <1>1, <2>1
    <2>3. QED
      BY <1>1, <1>2, <1>4, <2>1, <2>2 DEF BanksOk
  <1>5. CASE banks[d].last # "REFRESH" /\ banks[d].last # "PRECHARGE"
    <2>1. banks' = banks
      BY <1>5 DEF StateUpdate
    <2>2. QED
      BY <1>1, <2>1 DEF BanksOk
  <1>6. QED
    BY <1>3, <1>4, <1>5

-----------------------------------------------------------------------------
(* The other steps keep the types.                                         *)

(* More requests do no harm to what is known of a packet.                  *)
LEMMA MoreRequests ==
  ASSUME NEW n \in Nat, NEW p, PacketOk(p, n)
  PROVE  PacketOk(p, n + 1)
  BY DEF PacketOk

(* The events after a command was sent.                                    *)
LEMMA SentEvents ==
  ASSUME TypeInv, pc = "send",
         NEW e \in {Event(now + tCMD, "command", command)} \cup StateUpdates(command)
  PROVE  EventOk(e, received)
  <1>1. /\ now \in Nat /\ PacketOk(command, received) /\ command \in Packet
        /\ tRP \in Nat \ {0} /\ tRFC \in Nat \ {0} /\ tCMD \in Nat
    BY Numbers DEF TypeInv, ClocksOk, CommandOk, PacketOk
  <1>2. now + tCMD \in Nat /\ now + tRP - 1 \in Nat /\ now + tRFC - 1 \in Nat
    BY <1>1
  <1>3. CASE e = Event(now + tCMD, "command", command)
    BY <1>1, <1>2, <1>3 DEF Event, EventOk, EventRecord
  <1>4. CASE command.type = "PRECHARGE" /\ e = Event(now + tRP - 1, "update", command)
    BY <1>1, <1>2, <1>4 DEF Event, EventOk, EventRecord
  <1>5. CASE command.type = "REFRESH" /\ e = Event(now + tRFC - 1, "update", command)
    BY <1>1, <1>2, <1>5 DEF Event, EventOk, EventRecord
  <1>6. QED
    BY <1>3, <1>4, <1>5 DEF StateUpdates

(* A command is sent.                                                      *)
LEMMA TypeSend == TypeInv /\ Send => TypeInv'
  <1> SUFFICES ASSUME TypeInv, Send PROVE TypeInv'
    OBVIOUS
  <1>1. /\ pc = "send" /\ pc' = "enqueue" /\ command' = NoPacket
        /\ UNCHANGED <<clocks, received, pending, queueVars, banks, busFreeTime,
                       counter1, now, core0, taken, length, answered, written, dropped,
                       copied, torn>>
        /\ late' = (late \/ \E e \in StateUpdates(command) : e.time <= clock)
    BY DEF Send
  <1>2. EventsOk'
    <2>1. events' = events
            \/ events' = events \cup {Event(now + tCMD, "command", command)} \cup StateUpdates(command)
      BY DEF Send
    <2>2. QED
      BY <1>1, <2>1, SentEvents DEF TypeInv, EventsOk
  <1>3. PendingOk' /\ QueuesOk' /\ WindowOk' /\ BanksOk' /\ CountsOk' /\ TakenTyped' /\ HalfOk'
    <2>1. WindowOk' /\ BanksOk' /\ CountsOk'
      BY <1>1 DEF TypeInv, WindowOk, BanksOk, CountsOk, queueVars
    <2>2. PendingOk'
      BY <1>1 DEF TypeInv, PendingOk
    <2>3. QueuesOk'
      BY <1>1, QueuesSame DEF queueVars
    <2>4. TakenTyped' /\ HalfOk'
      BY <1>1 DEF TypeInv, TakenTyped, Enqueuing, HalfOk
    <2>5. QED
      BY <2>1, <2>2, <2>3, <2>4
  <1>4. CommandOk'
    BY <1>1, FreshTypes DEF CommandOk, PacketOk, Columns
  <1>5. ClocksOk'
    BY <1>1 DEF TypeInv, ClocksOk, clocks
  <1>6. HistoryOk'
    <2>1. lost' = lost \/ (command.type \in Columns /\ lost' = lost \cup {command.id})
      BY DEF Send
    <2>2. QED
      BY <1>1, <2>1 DEF TypeInv, HistoryOk, CommandOk, PacketOk
  <1>7. QED
    BY <1>2, <1>3, <1>4, <1>5, <1>6 DEF TypeInv

(* The steps of enqueueToCommandQ().                                       *)
Placing == Take \/ EnqueueActivate \/ EnqueueColumn \/ Shift \/ Cut \/ Removed

(* None of them touches the events, the banks or the clocks.               *)
LEMMA PlacingIs ==
  ASSUME Placing
  PROVE  /\ UNCHANGED <<clocks, events, received, accesses, faw, nextBank, nextBankPRE,
                       refreshWaiting, refreshCount, banks, busFreeTime, now, core0, command,
                       answered, written, dropped, torn, late>>
         /\ pc \in {"enqueue", "activate", "column", "remove", "shift", "cut"}
         /\ pc' \in {"sleep", "enqueue", "activate", "column", "remove", "shift", "cut"}
         /\ counter1' \in {counter1, counter1 + RAMclock}
  <1>1. CASE Take
    BY <1>1 DEF Take, queueVars, history
  <1>2. CASE EnqueueActivate \/ EnqueueColumn
    BY <1>2 DEF EnqueueActivate, EnqueueColumn, Enqueue, history
  <1>3. CASE Shift
    BY <1>3 DEF Shift, queueVars
  <1>4. CASE Cut \/ Removed
    BY <1>4 DEF Cut, Removed, queueVars, history
  <1>5. QED
    BY <1>1, <1>2, <1>3, <1>4 DEF Placing

(* What they leave alone keeps its type.                                   *)
LEMMA TypePlacing ==
  ASSUME TypeInv, Placing, PendingOk', TakenTyped', QueuesOk', HalfOk', HistoryOk'
  PROVE  TypeInv'
  <1>1. EventsOk' /\ WindowOk' /\ BanksOk' /\ CountsOk' /\ CommandOk'
    BY PlacingIs DEF TypeInv, EventsOk, WindowOk, BanksOk, CountsOk, CommandOk
  <1>2. ClocksOk'
    <2>1. counter1' \in Nat
      BY PlacingIs, Numbers DEF TypeInv, ClocksOk
    <2>2. QED
      BY <2>1, PlacingIs DEF TypeInv, ClocksOk, clocks
  <1>3. QED
    BY <1>1, <1>2 DEF TypeInv

(* The first of the list.                                                  *)
LEMMA HeadIs ==
  ASSUME TypeInv, pending # <<>>
  PROVE  /\ Len(pending) \in Nat \ {0} /\ DOMAIN pending = 1 .. Len(pending)
         /\ 1 \in DOMAIN pending /\ Head(pending) = pending[1]
         /\ \A k \in DOMAIN pending : pending[k] \in Packet /\ pending[k].type \in Columns
                                      /\ pending[k].id \in 1 .. received
  <1> DEFINE E == Packet
             s == pending
  <1> HIDE DEF E, s
  <1>1. s \in Seq(E) /\ s # <<>>
    BY DEF TypeInv, PendingOk, E, s
  <1>2. /\ Len(s) \in Nat \ {0} /\ DOMAIN s = 1 .. Len(s) /\ 1 \in DOMAIN s /\ Head(s) = s[1]
        /\ \A k \in DOMAIN s : s[k] \in E
    BY <1>1, HeadTailProperties, LenProperties, ElementOfSeq
  <1>3. \A k \in DOMAIN s : s[k].type \in Columns /\ s[k].id \in 1 .. received
    BY DEF TypeInv, PendingOk, s
  <1>4. QED
    BY <1>2, <1>3 DEF E, s

(* A request is taken.                                                     *)
LEMMA TypeTake == TypeInv /\ Take => TypeInv'
  <1> SUFFICES ASSUME TypeInv, Take PROVE TypeInv'
    OBVIOUS
  <1>1. /\ pc = "enqueue" /\ pending # <<>> /\ pc' = "activate" /\ taken' = Head(pending)
        /\ UNCHANGED <<received, pending, queueVars, length, history>>
    BY DEF Take
  <1>2. PendingOk' /\ HalfOk'
    BY <1>1 DEF TypeInv, PendingOk, HalfOk
  <1>3. TakenTyped'
    <2>1. taken' \in Packet /\ taken'.type \in Columns /\ taken'.id \in 1 .. received'
      BY <1>1, HeadIs
    <2>2. QED
      BY <1>1, <2>1 DEF TakenTyped, Enqueuing
  <1>4. QueuesOk'
    BY <1>1, QueuesSame DEF queueVars
  <1>5. HistoryOk'
    BY <1>1 DEF TypeInv, HistoryOk, history
  <1>6. QED
    BY <1>2, <1>3, <1>4, <1>5, TypePlacing DEF Placing

(* One more command in a queue.                                            *)
LEMMA Appended ==
  ASSUME TypeInv, NEW p \in Packet, Enqueue(p)
  PROVE  /\ p.bank \in Banks
         /\ queues' \in [Banks -> Seq(Packet)]
         /\ \A b \in Banks : b # p.bank => queues'[b] = queues[b]
         /\ Len(queues[p.bank]) \in Nat /\ DOMAIN queues[p.bank] = 1 .. Len(queues[p.bank])
         /\ Len(queues'[p.bank]) = Len(queues[p.bank]) + 1
         /\ DOMAIN queues'[p.bank] = 1 .. Len(queues[p.bank]) + 1
         /\ \A k \in 1 .. Len(queues[p.bank]) : queues'[p.bank][k] = queues[p.bank][k]
         /\ queues'[p.bank][Len(queues[p.bank]) + 1] = p
  <1> DEFINE E == Packet
             d == p.bank
             q == queues[d]
             r == Append(q, p)
  <1>1. d \in Banks /\ queues \in [Banks -> Seq(Packet)] /\ q \in Seq(Packet)
    BY DEF Packet, TypeInv, QueuesOk
  <1>2. queues' = [queues EXCEPT ![d] = r]
    BY DEF Enqueue
  <1> HIDE DEF E, d, q, r
  <1>3. q \in Seq(E) /\ p \in E
    BY <1>1 DEF E
  <1>4. /\ r \in Seq(E) /\ Len(q) \in Nat /\ Len(r) = Len(q) + 1
        /\ DOMAIN q = 1 .. Len(q) /\ DOMAIN r = 1 .. Len(q) + 1
        /\ \A k \in 1 .. Len(q) : r[k] = q[k]
        /\ r[Len(q) + 1] = p
    BY <1>3, AppendProperties, LenProperties DEF r
  <1>5. queues'[d] = r /\ queues' \in [Banks -> Seq(Packet)]
        /\ \A b \in Banks : b # d => queues'[b] = queues[b]
    BY <1>1, <1>2, <1>4 DEF E
  <1>6. QED
    BY <1>1, <1>4, <1>5 DEF d, q

(* The ACTIVATE of a request.                                              *)
LEMMA ActivateIs ==
  ASSUME NEW p \in Packet
  PROVE  /\ Activate(p) \in Packet /\ Activate(p).type = "ACTIVATE" /\ Activate(p).id = p.id
         /\ Activate(p).bank = p.bank /\ Activate(p).row = p.row
  BY DEF Activate, Packet, Types

(* It is put into the queue.                                               *)
LEMMA TypeEnqueueActivate == TypeInv /\ EnqueueActivate => TypeInv'
  <1> SUFFICES ASSUME TypeInv, EnqueueActivate PROVE TypeInv'
    OBVIOUS
  <1> DEFINE a == Activate(taken)
             d == taken.bank
             n == Len(queues[d])
  <1>1. /\ pc = "activate" /\ pc' = "column" /\ Enqueue(a)
        /\ UNCHANGED <<received, pending, taken, length, history>>
    BY DEF EnqueueActivate, Enqueue
  <1>2. taken \in Packet /\ taken.type \in Columns /\ taken.id \in 1 .. received
    BY <1>1 DEF TypeInv, TakenTyped, Enqueuing
  <1>3. a \in Packet /\ a.type = "ACTIVATE" /\ a.id = taken.id /\ a.bank = d
    BY <1>2, ActivateIs
  <1>4. /\ d \in Banks /\ queues' \in [Banks -> Seq(Packet)]
        /\ \A b \in Banks : b # d => queues'[b] = queues[b]
        /\ n \in Nat /\ DOMAIN queues[d] = 1 .. n /\ DOMAIN queues'[d] = 1 .. n + 1
        /\ Len(queues'[d]) = n + 1
        /\ \A k \in 1 .. n : queues'[d][k] = queues[d][k]
        /\ queues'[d][n + 1] = a
    <2> HIDE DEF a, d
    <2>1. Enqueue(a) /\ a \in Packet
      BY <1>1, <1>3
    <2>2. QED
      BY <1>3, <2>1, Appended DEF n
  <1> HIDE DEF a, d, n
  <1>5. \A b \in Banks : Shape(queues[b], b, received)
    BY <1>1, WholeQueues
  <1>6. ASSUME NEW b \in Banks PROVE NearlyShape(queues[b], b, received)'
    <2>1. CASE b # d
      BY <1>1, <1>4, <1>5, <2>1 DEF NearlyShape, Shape, Paired
    <2>2. CASE b = d
      <3> SUFFICES ASSUME NEW k \in 1 .. n + 1
                   PROVE  /\ queues'[d][k].bank = d
                          /\ queues'[d][k].type \in Columns \cup {"ACTIVATE"}
                          /\ queues'[d][k].id \in 1 .. received'
                          /\ queues'[d][k].type = "ACTIVATE" =>
                               Paired(queues'[d], k) \/ (k = n + 1 /\ queues'[d][k] = a)
        BY <1>1, <1>4, <2>2 DEF NearlyShape, HalfAt, Paired, a, d
      <3>1. CASE k \in 1 .. n
        <4>1. /\ queues[d][k].bank = d /\ queues[d][k].type \in Columns \cup {"ACTIVATE"}
              /\ queues[d][k].id \in 1 .. received
              /\ queues[d][k].type = "ACTIVATE" => Paired(queues[d], k)
          BY <1>4, <1>5, <3>1 DEF Shape
        <4>2. Paired(queues[d], k) => Paired(queues'[d], k)
          BY <1>4, <3>1 DEF Paired
        <4>3. QED
          BY <1>1, <1>4, <3>1, <4>1, <4>2
      <3>2. CASE k = n + 1
        BY <1>1, <1>2, <1>3, <1>4, <3>2
      <3>3. QED
        BY <1>4, <3>1, <3>2
    <2>3. QED
      BY <2>1, <2>2
  <1>7. QueuesOk'
    BY <1>4, <1>6 DEF QueuesOk
  <1>8. HalfOk'
    <2>1. Len(queues'[d]) \in DOMAIN queues'[d] /\ queues'[d][Len(queues'[d])] = a
      BY <1>4
    <2>2. QED
      BY <1>1, <2>1 DEF HalfOk, a, d
  <1>9. PendingOk' /\ TakenTyped'
    BY <1>1, <1>2 DEF TypeInv, PendingOk, TakenTyped, Enqueuing
  <1>10. HistoryOk'
    BY <1>1 DEF TypeInv, HistoryOk, history
  <1>11. QED
    BY <1>7, <1>8, <1>9, <1>10, TypePlacing DEF Placing

(* ... and the column command after it.                                    *)
LEMMA TypeEnqueueColumn == TypeInv /\ EnqueueColumn => TypeInv'
  <1> SUFFICES ASSUME TypeInv, EnqueueColumn PROVE TypeInv'
    OBVIOUS
  <1> DEFINE d == taken.bank
             n == Len(queues[d])
  <1>1. /\ pc = "column" /\ pc' = "remove" /\ Enqueue(taken)
        /\ UNCHANGED <<received, pending, taken, length, history>>
    BY DEF EnqueueColumn, Enqueue
  <1>2. taken \in Packet /\ taken.type \in Columns /\ taken.id \in 1 .. received
    BY <1>1 DEF TypeInv, TakenTyped, Enqueuing
  <1>3. /\ d \in Banks /\ queues' \in [Banks -> Seq(Packet)]
        /\ \A b \in Banks : b # d => queues'[b] = queues[b]
        /\ n \in Nat /\ DOMAIN queues[d] = 1 .. n /\ DOMAIN queues'[d] = 1 .. n + 1
        /\ \A k \in 1 .. n : queues'[d][k] = queues[d][k]
        /\ queues'[d][n + 1] = taken
    BY <1>1, <1>2, Appended
  <1> HIDE DEF d, n
  <1>4. \A b \in Banks : NearlyShape(queues[b], b, received)
    BY DEF TypeInv, QueuesOk
  <1>5. ASSUME NEW b \in Banks PROVE Shape(queues'[b], b, received')
    <2>1. CASE b # d
      BY <1>1, <1>3, <1>4, <2>1 DEF NearlyShape, Shape, HalfAt, d
    <2>2. CASE b = d
      <3> SUFFICES ASSUME NEW k \in 1 .. n + 1
                   PROVE  /\ queues'[d][k].bank = d
                          /\ queues'[d][k].type \in Columns \cup {"ACTIVATE"}
                          /\ queues'[d][k].id \in 1 .. received'
                          /\ queues'[d][k].type = "ACTIVATE" => Paired(queues'[d], k)
        BY <1>3, <2>2 DEF Shape
      <3>1. CASE k \in 1 .. n
        <4>1. /\ queues[d][k].bank = d /\ queues[d][k].type \in Columns \cup {"ACTIVATE"}
              /\ queues[d][k].id \in 1 .. received
              /\ queues[d][k].type = "ACTIVATE" => Paired(queues[d], k) \/ HalfAt(queues[d], d, k)
          BY <1>3, <1>4, <3>1 DEF NearlyShape
        <4>2. Paired(queues[d], k) => Paired(queues'[d], k)
          BY <1>3, <3>1 DEF Paired
        <4>3. ASSUME HalfAt(queues[d], d, k) PROVE Paired(queues'[d], k)
          <5>1. k = n /\ queues[d][k] = Activate(taken) /\ k + 1 = n + 1 /\ n + 1 \in 1 .. n + 1
            BY <1>3, <4>3 DEF HalfAt, n
          <5>2. QED
            BY <1>2, <1>3, <3>1, <5>1, ActivateIs DEF Paired
        <4>4. QED
          BY <1>1, <1>3, <3>1, <4>1, <4>2, <4>3
      <3>2. CASE k = n + 1
        BY <1>1, <1>2, <1>3, <3>2 DEF Columns, d
      <3>3. QED
        BY <1>3, <3>1, <3>2
    <2>3. QED
      BY <2>1, <2>2
  <1>6. QueuesOk'
    BY <1>3, <1>5, StillShaped
  <1>7. PendingOk' /\ TakenTyped' /\ HalfOk'
    BY <1>1, <1>2 DEF TypeInv, PendingOk, TakenTyped, Enqueuing, HalfOk
  <1>8. HistoryOk'
    BY <1>1 DEF TypeInv, HistoryOk, history
  <1>9. QED
    BY <1>6, <1>7, <1>8, TypePlacing DEF Placing

(* The list after the others have moved up.                                *)
LEMMA Shifted ==
  ASSUME TypeInv, pending # <<>>, pending' = Append(Tail(pending), Last(pending))
  PROVE  /\ pending' \in Seq(Packet) /\ DOMAIN pending' = 1 .. Len(pending)
         /\ \A k \in 1 .. Len(pending) - 1 : pending'[k] = pending[k + 1]
         /\ pending'[Len(pending)] = pending[Len(pending)]
  <1> DEFINE E == Packet
             s == pending
             n == Len(s)
             r == Append(Tail(s), Last(s))
             t == Tail(s)
             l == Last(s)
  <1> HIDE DEF E
  <1>1. s \in Seq(E) /\ s # <<>>
    BY DEF TypeInv, PendingOk, E
  <1> HIDE DEF s
  <1>2. n \in Nat \ {0} /\ n \in 1 .. n /\ l = s[n]
    <2>1. n \in Nat \ {0}
      BY <1>1
    <2>2. QED
      BY <2>1 DEF Last
  <1>3. l \in E
    BY <1>1, <1>2, ElementOfSeq
  <1>4. t \in Seq(E) /\ Len(t) = n - 1 /\ \A k \in 1 .. Len(t) : t[k] = s[k + 1]
    BY <1>1, HeadTailProperties
  <1> HIDE DEF t, l, n
  <1>5. /\ Append(t, l) \in Seq(E) /\ Len(Append(t, l)) = Len(t) + 1
        /\ \A k \in 1 .. Len(t) : Append(t, l)[k] = t[k]
        /\ Append(t, l)[Len(t) + 1] = l
        /\ DOMAIN Append(t, l) = 1 .. Len(Append(t, l))
    BY <1>3, <1>4, AppendProperties, LenProperties
  <1>6. r = Append(t, l)
    BY DEF t, l
  <1>7. (n - 1) + 1 = n
    BY <1>2
  <1> HIDE DEF r
  <1>8. /\ r \in Seq(E) /\ DOMAIN r = 1 .. n
        /\ \A k \in 1 .. n - 1 : r[k] = s[k + 1]
        /\ r[n] = s[n]
    BY <1>2, <1>4, <1>5, <1>6, <1>7
  <1>9. pending' = r
    BY DEF r, s
  <1>10. QED
    BY <1>8, <1>9 DEF E, n, s

(* The list without its last place.                                        *)
LEMMA Fronted ==
  ASSUME TypeInv, pending # <<>>, pending' = Front(pending)
  PROVE  /\ pending' \in Seq(Packet) /\ DOMAIN pending' = 1 .. Len(pending) - 1
         /\ \A k \in 1 .. Len(pending) - 1 : pending'[k] = pending[k]
         /\ Last(pending) = pending[Len(pending)]
  <1> DEFINE E == Packet
             s == pending
             r == SubSeq(s, 1, Len(s) - 1)
  <1> HIDE DEF E
  <1>1. s \in Seq(E) /\ s # <<>>
    BY DEF TypeInv, PendingOk, E
  <1> HIDE DEF s
  <1>2. Len(s) \in Nat \ {0}
    BY <1>1
  <1>3. r \in Seq(E) /\ DOMAIN r = 1 .. Len(s) - 1 /\ \A k \in 1 .. Len(s) - 1 : r[k] = s[k]
    BY <1>1, <1>2
  <1> HIDE DEF r
  <1>4. pending' = r
    BY DEF Front, r, s
  <1>5. QED
    BY <1>3, <1>4 DEF E, s, Last

(* The others move up, or the list is found empty.                         *)
LEMMA TypeShift == TypeInv /\ Shift => TypeInv'
  <1> SUFFICES ASSUME TypeInv, Shift PROVE TypeInv'
    OBVIOUS
  <1>1. /\ pc = "remove" /\ taken' = NoPacket /\ pc' \in {"sleep", "shift"}
        /\ UNCHANGED <<received, queues, answered, written, dropped, copied, torn>>
    BY DEF Shift, queueVars
  <1>2. TakenTyped' /\ HalfOk'
    BY <1>1, FreshTypes DEF TakenTyped, Enqueuing, HalfOk
  <1>3. QueuesOk'
    BY <1>1, QueuesSame
  <1>4. PendingOk' /\ HistoryOk'
    <2>1. CASE pending = <<>>
      <3>1. pc' = "sleep" /\ UNCHANGED <<pending, length, lost>>
        BY <2>1 DEF Shift
      <3>2. QED
        BY <1>1, <3>1 DEF TypeInv, PendingOk, HistoryOk
    <2>2. CASE pending # <<>>
      <3>1. /\ pc' = "shift" /\ length' = Len(pending)
            /\ pending' = Append(Tail(pending), Last(pending))
            /\ lost' = lost \cup ({Head(pending).id} \ {taken.id})
        BY <2>2 DEF Shift
      <3>2. /\ Len(pending) \in Nat \ {0} /\ DOMAIN pending = 1 .. Len(pending)
            /\ Head(pending).id \in 1 .. received
            /\ \A k \in DOMAIN pending : pending[k].type \in Columns /\ pending[k].id \in 1 .. received
        BY <2>2, HeadIs
      <3>3. /\ pending' \in Seq(Packet) /\ DOMAIN pending' = 1 .. Len(pending)
            /\ \A k \in 1 .. Len(pending) - 1 : pending'[k] = pending[k + 1]
            /\ pending'[Len(pending)] = pending[Len(pending)]
        BY <2>2, <3>1, Shifted
      <3>4. ASSUME NEW k \in DOMAIN pending'
            PROVE  pending'[k].type \in Columns /\ pending'[k].id \in 1 .. received
        <4>1. k = Len(pending) \/ (k \in 1 .. Len(pending) - 1 /\ k + 1 \in DOMAIN pending)
          BY <3>2, <3>3
        <4>2. Len(pending) \in DOMAIN pending
          BY <3>2
        <4>3. QED
          BY <3>2, <3>3, <4>1, <4>2
      <3>5. PendingOk'
        BY <1>1, <3>1, <3>2, <3>3, <3>4 DEF PendingOk
      <3>6. HistoryOk'
        BY <1>1, <3>1, <3>2 DEF TypeInv, HistoryOk
      <3>7. QED
        BY <3>5, <3>6
    <2>3. QED
      BY <2>1, <2>2
  <1>5. QED
    BY <1>2, <1>3, <1>4, TypePlacing DEF Placing

(* The last place is cut off.                                              *)
LEMMA TypeCut == TypeInv /\ Cut => TypeInv'
  <1> SUFFICES ASSUME TypeInv, Cut PROVE TypeInv'
    OBVIOUS
  <1>1. /\ pc = "shift" /\ pc' = "cut" /\ length' = 0 /\ pending' = Front(pending)
        /\ \/ copied' = copied \cup {pending[length].id} /\ lost' = lost \cup {Last(pending).id}
           \/ UNCHANGED <<copied, lost>>
        /\ UNCHANGED <<received, queues, taken, answered, written, dropped, torn>>
    BY DEF Cut, queueVars
  <1>2. TakenTyped' /\ HalfOk'
    BY <1>1 DEF TypeInv, TakenTyped, Enqueuing, HalfOk
  <1>3. QueuesOk'
    BY <1>1, QueuesSame
  <1>4. length \in DOMAIN pending /\ pending # <<>>
    BY <1>1 DEF TypeInv, PendingOk
  <1>5. /\ Len(pending) \in Nat \ {0} /\ DOMAIN pending = 1 .. Len(pending)
        /\ \A k \in DOMAIN pending : pending[k].type \in Columns /\ pending[k].id \in 1 .. received
    BY <1>4, HeadIs
  <1>6. /\ pending' \in Seq(Packet) /\ DOMAIN pending' = 1 .. Len(pending) - 1
        /\ \A k \in 1 .. Len(pending) - 1 : pending'[k] = pending[k]
        /\ Last(pending) = pending[Len(pending)]
    BY <1>1, <1>4, Fronted
  <1>7. Len(pending) \in DOMAIN pending /\ \A k \in 1 .. Len(pending) - 1 : k \in DOMAIN pending
    BY <1>5
  <1>8. PendingOk'
    BY <1>1, <1>5, <1>6, <1>7 DEF PendingOk
  <1>9. HistoryOk'
    <2>1. pending[length].id \in 1 .. received /\ Last(pending).id \in 1 .. received
      BY <1>4, <1>5, <1>6, <1>7
    <2>2. QED
      BY <1>1, <2>1 DEF TypeInv, HistoryOk
  <1>10. QED
    BY <1>2, <1>3, <1>8, <1>9, TypePlacing DEF Placing

(* The size is written.                                                    *)
LEMMA TypeRemoved == TypeInv /\ Removed => TypeInv'
  <1> SUFFICES ASSUME TypeInv, Removed PROVE TypeInv'
    OBVIOUS
  <1>1. /\ pc = "cut" /\ pc' = "enqueue"
        /\ UNCHANGED <<received, pending, queues, taken, length, history>>
    BY DEF Removed, queueVars
  <1>2. TakenTyped' /\ HalfOk' /\ PendingOk'
    BY <1>1 DEF TypeInv, TakenTyped, Enqueuing, HalfOk, PendingOk
  <1>3. QueuesOk'
    BY <1>1, QueuesSame
  <1>4. HistoryOk'
    BY <1>1 DEF TypeInv, HistoryOk, history
  <1>5. QED
    BY <1>2, <1>3, <1>4, TypePlacing DEF Placing

(* A request is received.                                                  *)
LEMMA TypeReceive == TypeInv /\ (\E r \in Requests : Receive(r)) => TypeInv'
  <1> SUFFICES ASSUME TypeInv, NEW r \in Requests, Receive(r) PROVE TypeInv'
    OBVIOUS
  <1> DEFINE n == received + 1
             p == [type |-> r.type, id |-> n, bank |-> r.bank, row |-> r.row]
  <1>1. /\ received < MaxRequests /\ received' = n
        /\ \/ pending' = Append(pending, p) /\ lost' = lost
           \/ lost' = lost \cup {n} /\ pending' = pending
        /\ UNCHANGED <<clocks, events, queueVars, banks, busFreeTime, thread,
                       answered, written, dropped, copied, torn, late>>
    BY DEF Receive
  <1>2. received \in Nat /\ n \in Nat /\ n \in Ids /\ n \in 1 .. n /\ n \in 0 .. MaxRequests
        /\ 1 .. received \subseteq 1 .. n
    BY <1>1, Numbers DEF TypeInv, ClocksOk, Ids
  <1>3. p \in Packet /\ p.type \in Columns /\ p.id = n
    <2>1. r \in [type : Columns, bank : Banks, row : Rows]
      BY DRAMAssumption
    <2>2. QED
      BY <1>2, <2>1 DEF Packet, Types
  <1> HIDE DEF n, p
  <1>4. PendingOk'
    <2>1. CASE pending' = pending
      BY <1>1, <1>2, <2>1 DEF TypeInv, PendingOk, thread
    <2>2. CASE pending' = Append(pending, p)
      <3> DEFINE E == Packet
      <3> HIDE DEF E
      <3>1. pending \in Seq(E) /\ p \in E
        BY <1>3 DEF TypeInv, PendingOk, E
      <3>2. /\ pending' \in Seq(E) /\ Len(pending) \in Nat /\ DOMAIN pending = 1 .. Len(pending)
            /\ DOMAIN pending' = 1 .. Len(pending) + 1
            /\ pending'[Len(pending) + 1] = p
            /\ \A k \in 1 .. Len(pending) : pending'[k] = pending[k]
        BY <2>2, <3>1, AppendProperties
      <3>3. \A k \in 1 .. Len(pending) + 1 : k \in 1 .. Len(pending) \/ k = Len(pending) + 1
        BY <3>2
      <3>4. \A k \in DOMAIN pending' : pending'[k].type \in Columns /\ pending'[k].id \in 1 .. n
        BY <1>2, <1>3, <3>2, <3>3 DEF TypeInv, PendingOk
      <3>5. length' \in Nat /\ (pc' = "shift" => length' \in DOMAIN pending')
        <4>1. length \in Nat /\ (pc = "shift" => length \in DOMAIN pending)
          BY DEF TypeInv, PendingOk
        <4>2. \A k \in DOMAIN pending : k \in DOMAIN pending'
          BY <3>2
        <4>3. QED
          BY <1>1, <4>1, <4>2 DEF thread
      <3>6. QED
        BY <1>1, <3>2, <3>4, <3>5 DEF PendingOk, E
    <2>3. QED
      BY <1>1, <2>1, <2>2
  <1>5. EventsOk' /\ CommandOk'
    <2>1. \A q : PacketOk(q, received) => PacketOk(q, n)
      BY <1>2 DEF PacketOk
    <2>2. QED
      BY <1>1, <2>1 DEF TypeInv, EventsOk, EventOk, CommandOk, thread
  <1>6. QueuesOk'
    <2>1. \A b \in Banks : NearlyShape(queues[b], b, n)
      BY <1>2 DEF TypeInv, QueuesOk, NearlyShape
    <2>2. QED
      BY <1>1, <2>1 DEF TypeInv, QueuesOk, queueVars, NearlyShape, HalfAt, thread
  <1>7. HistoryOk'
    BY <1>1, <1>2 DEF TypeInv, HistoryOk
  <1>8. WindowOk' /\ BanksOk' /\ CountsOk' /\ TakenTyped' /\ HalfOk'
    <2>1. WindowOk' /\ BanksOk' /\ CountsOk' /\ HalfOk'
      BY <1>1 DEF TypeInv, WindowOk, BanksOk, CountsOk, queueVars, HalfOk, thread
    <2>2. TakenTyped'
      BY <1>1, <1>2 DEF TypeInv, TakenTyped, thread
    <2>3. QED
      BY <2>1, <2>2
  <1>9. ClocksOk'
    BY <1>1, <1>2 DEF TypeInv, ClocksOk, clocks, thread
  <1>10. QED
    BY <1>4, <1>5, <1>6, <1>7, <1>8, <1>9 DEF TypeInv

(* What the history says is about requests received.                       *)
LEMMA FatesAre ==
  HistoryOk <=> /\ \A i \in answered : i \in 1 .. received
                /\ \A i \in written : i \in 1 .. received
                /\ \A i \in dropped : i \in 1 .. received
                /\ \A i \in lost : i \in 1 .. received
                /\ \A i \in copied : i \in 1 .. received
                /\ \A i \in torn : i \in 1 .. received
  BY DEF HistoryOk

(* The handlers of the rank and the controller.                            *)
Handler(e) ==
  \/ RankRead(e) \/ RankWrite(e) \/ RankActivate(e) \/ RankPrecharge(e) \/ RankRefresh(e)
  \/ StateUpdate(e) \/ ColumnReadComplete(e) \/ RankResponse(e)

(* What a handler leaves of the events, and what it says of a request.     *)
LEMMA HandlerIs ==
  ASSUME TypeInv, NEW e \in events, Handler(e)
  PROVE  /\ e.packet \in Packet /\ e.time \in Nat /\ draining /\ e.time <= clock
         /\ UNCHANGED <<clocks, received, pending, queueVars, thread, lost, copied, torn, late>>
         /\ \E E : /\ events' = (events \ {e}) \cup E
                   /\ E = {} \/ \E t \in Nat, k \in {"column", "response"} :
                                   E = {Event(t, k, e.packet)} /\ e.packet.type \in Columns
         /\ busFreeTime' \in Nat
  <1>1. /\ EventOk(e, received) /\ e.packet \in Packet /\ e.time \in Nat /\ clock \in Nat
        /\ busFreeTime \in Nat /\ tRL \in Nat /\ tBL2 \in Nat
    BY Numbers DEF TypeInv, EventsOk, EventOk, EventRecord, ClocksOk
  <1>2. draining /\ e.time <= clock
    BY DEF Handler, RankRead, RankWrite, RankActivate, RankPrecharge, RankRefresh, StateUpdate,
           ColumnReadComplete, RankResponse, Command, Due
  <1>3. UNCHANGED <<clocks, received, pending, queueVars, thread, lost, copied, torn, late>>
    BY DEF Handler, RankRead, RankWrite, RankActivate, RankPrecharge, RankRefresh, StateUpdate,
           ColumnReadComplete, RankResponse, history
  <1>4. busFreeTime' \in Nat
    <2>1. CASE ColumnReadComplete(e)
      <3>1. busFreeTime' = clock + tBL2 \/ busFreeTime' = busFreeTime
        BY <2>1 DEF ColumnReadComplete
      <3>2. QED
        BY <1>1, <3>1
    <2>2. CASE ~ColumnReadComplete(e)
      BY <1>1, <2>2 DEF Handler, RankRead, RankWrite, RankActivate, RankPrecharge, RankRefresh,
                        StateUpdate, RankResponse
    <2>3. QED
      BY <2>1, <2>2
  <1>5. \E E : /\ events' = (events \ {e}) \cup E
               /\ E = {} \/ \E t \in Nat, k \in {"column", "response"} :
                               E = {Event(t, k, e.packet)} /\ e.packet.type \in Columns
    <2>1. CASE RankRead(e)
      <3>1. /\ e.packet.type \in Columns
            /\ events' = events \ {e} \/ events' = (events \ {e}) \cup {Event(e.time + tRL, "column", e.packet)}
        BY <2>1 DEF RankRead, Command, Columns
      <3>2. e.time + tRL \in Nat
        BY <1>1
      <3>3. QED
        BY <3>1, <3>2
    <2>2. CASE ColumnReadComplete(e)
      <3>1. e.packet.type \in Columns
        BY <1>1, <2>2 DEF ColumnReadComplete, Due, EventOk
      <3>2. \/ events' = (events \ {e}) \cup {Event(e.time + tBL2, "response", e.packet)}
            \/ /\ ~(clock >= busFreeTime)
               /\ events' = (events \ {e}) \cup
                              {Event(e.time + (busFreeTime - clock), "column", e.packet)}
        BY <2>2 DEF ColumnReadComplete
      <3>3. /\ e.time + tBL2 \in Nat
            /\ ~(clock >= busFreeTime) => e.time + (busFreeTime - clock) \in Nat
        BY <1>1
      <3>4. QED
        BY <3>1, <3>2, <3>3
    <2>3. CASE ~RankRead(e) /\ ~ColumnReadComplete(e)
      <3>1. events' = (events \ {e}) \cup {}
        BY <2>3 DEF Handler, RankWrite, RankActivate, RankPrecharge, RankRefresh, StateUpdate,
                    RankResponse
      <3>2. QED
        BY <3>1
    <2>4. QED
      BY <2>1, <2>2, <2>3
  <1>6. QED
    BY <1>1, <1>2, <1>3, <1>4, <1>5

(* What a handler says of a request is of the one it handles.              *)
LEMMA FatesOf ==
  ASSUME TypeInv, NEW e \in events, Handler(e), NEW i
  PROVE  /\ i \in answered' => i \in answered \/ (i = e.packet.id /\ e.packet.type \in Columns)
         /\ i \in written' => i \in written \/ (i = e.packet.id /\ e.packet.type \in Columns)
         /\ i \in dropped' => i \in dropped \/ (i = e.packet.id /\ e.packet.type \in Columns)
  <1>1. EventOk(e, received)
    BY DEF TypeInv, EventsOk
  <1>2. CASE RankRead(e)
    <2>1. /\ e.packet.type \in Columns /\ answered' = answered /\ written' = written
          /\ dropped' = dropped \/ dropped' = dropped \cup {e.packet.id}
      BY <1>2 DEF RankRead, Command, Columns
    <2>2. QED
      BY <2>1
  <1>3. CASE RankWrite(e)
    <2>1. /\ e.packet.type \in Columns /\ answered' = answered /\ dropped' = dropped
          /\ written' = written \cup {e.packet.id}
      BY <1>3 DEF RankWrite, Command, Columns
    <2>2. QED
      BY <2>1
  <1>4. CASE RankResponse(e)
    <2>1. /\ e.packet.type \in Columns /\ written' = written /\ dropped' = dropped
          /\ answered' = answered \cup {e.packet.id}
      BY <1>1, <1>4 DEF RankResponse, Due, EventOk
    <2>2. QED
      BY <2>1
  <1>5. CASE ~RankRead(e) /\ ~RankWrite(e) /\ ~RankResponse(e)
    <2>1. answered' = answered /\ written' = written /\ dropped' = dropped
      BY <1>5 DEF Handler, RankActivate, RankPrecharge, RankRefresh, StateUpdate,
                  ColumnReadComplete, history
    <2>2. QED
      BY <2>1
  <1>6. QED
    BY <1>2, <1>3, <1>4, <1>5

(* A handler keeps the types.                                              *)
LEMMA TypeHandler == TypeInv /\ (\E e \in events : Handler(e)) => TypeInv'
  <1> SUFFICES ASSUME TypeInv, NEW e \in events, Handler(e) PROVE TypeInv'
    OBVIOUS
  <1>1. /\ UNCHANGED <<clocks, received, pending, queueVars, thread, lost, copied, torn, late>>
        /\ e.packet \in Packet /\ busFreeTime' \in Nat
    BY HandlerIs
  <1>2. EventsOk'
    <2>1. PICK E : /\ events' = (events \ {e}) \cup E
                   /\ E = {} \/ \E t \in Nat, k \in {"column", "response"} :
                                   E = {Event(t, k, e.packet)} /\ e.packet.type \in Columns
      BY HandlerIs
    <2>2. ASSUME NEW f \in E PROVE EventOk(f, received)
      <3>1. PICK t \in Nat, k \in {"column", "response"} :
              f = Event(t, k, e.packet) /\ e.packet.type \in Columns
        BY <2>1, <2>2
      <3>2. PacketOk(e.packet, received)
        BY DEF TypeInv, EventsOk, EventOk
      <3>3. QED
        BY <1>1, <3>1, <3>2 DEF Event, EventOk, EventRecord
    <2>3. \A f \in events' : EventOk(f, received)
      BY <2>1, <2>2 DEF TypeInv, EventsOk
    <2>4. QED
      BY <1>1, <2>3 DEF EventsOk
  <1>3. BanksOk'
    <2>1. BanksOk /\ ClocksOk
      BY DEF TypeInv
    <2>2. CASE banks' = banks
      BY <2>1, <2>2 DEF BanksOk
    <2>3. CASE banks' # banks
      <3>1. \/ RankRead(e) \/ RankWrite(e) \/ RankActivate(e) \/ RankPrecharge(e) \/ RankRefresh(e)
            \/ StateUpdate(e)
        BY <2>3 DEF Handler, ColumnReadComplete, RankResponse
      <3>2. QED
        BY <1>1, <2>1, <3>1, ColumnAtRank, ActivateAtRank, PrechargeAtRank, RefreshAtRank,
           UpdateOfState
    <2>4. QED
      BY <2>2, <2>3
  <1>4. HistoryOk'
    <2>1. e.packet.type \in Columns => e.packet.id \in 1 .. received
      BY DEF TypeInv, EventsOk, EventOk, PacketOk
    <2>2. received' = received /\ lost' = lost /\ copied' = copied /\ torn' = torn /\ HistoryOk
      BY <1>1 DEF TypeInv
    <2>3. ASSUME NEW i
          PROVE  /\ i \in answered' => i \in answered \/ (i = e.packet.id /\ e.packet.type \in Columns)
                 /\ i \in written' => i \in written \/ (i = e.packet.id /\ e.packet.type \in Columns)
                 /\ i \in dropped' => i \in dropped \/ (i = e.packet.id /\ e.packet.type \in Columns)
      BY FatesOf
    <2>4. /\ \A i \in answered' : i \in 1 .. received'
          /\ \A i \in written' : i \in 1 .. received'
          /\ \A i \in dropped' : i \in 1 .. received'
          /\ \A i \in lost' : i \in 1 .. received'
          /\ \A i \in copied' : i \in 1 .. received'
          /\ \A i \in torn' : i \in 1 .. received'
      BY <2>1, <2>2, <2>3, FatesAre
    <2>5. QED
      BY <2>4 DEF HistoryOk
  <1>5. PendingOk' /\ QueuesOk' /\ WindowOk' /\ CountsOk' /\ CommandOk' /\ TakenTyped' /\ HalfOk'
    <2>1. PendingOk' /\ WindowOk' /\ CountsOk' /\ CommandOk' /\ TakenTyped' /\ HalfOk'
      BY <1>1 DEF TypeInv, PendingOk, WindowOk, CountsOk, CommandOk, TakenTyped, HalfOk, queueVars,
                  thread
    <2>2. QueuesOk'
      BY <1>1 DEF TypeInv, QueuesOk, NearlyShape, HalfAt, queueVars, thread
    <2>3. QED
      BY <2>1, <2>2
  <1>6. ClocksOk'
    BY <1>1 DEF TypeInv, ClocksOk, clocks, thread
  <1>7. QED
    BY <1>2, <1>3, <1>4, <1>5, <1>6 DEF TypeInv

(* Where the requests are that a hand-over loses.                          *)
PendingIds == {pending[k].id : k \in DOMAIN pending}
QueuedIds == UNION {{queues[b][k].id : k \in DOMAIN queues[b]} : b \in Banks}
EventIds == {e.packet.id : e \in {f \in events : f.packet.type \in Columns}}

(* Those are all, but for what the DRAM thread has in hand.                *)
LEMMA UnderWayIs ==
  ASSUME NEW i
  PROVE  i \in UnderWay <=>
           /\ \A p \in Hand : i # p.id
           /\ \/ \E k \in DOMAIN pending : i = pending[k].id
              \/ \E b \in Banks : \E k \in DOMAIN queues[b] : i = queues[b][k].id
              \/ \E e \in events : e.packet.type \in Columns /\ i = e.packet.id
  <1> DEFINE H == {p.id : p \in Hand}
  <1>1. UnderWay = (PendingIds \cup QueuedIds \cup EventIds) \ H
    BY DEF UnderWay, PendingIds, QueuedIds, EventIds
  <1>2. i \in PendingIds <=> \E k \in DOMAIN pending : i = pending[k].id
    BY DEF PendingIds
  <1>3. i \in QueuedIds <=> \E b \in Banks : \E k \in DOMAIN queues[b] : i = queues[b][k].id
    BY DEF QueuedIds
  <1>4. i \in EventIds <=> \E e \in events : e.packet.type \in Columns /\ i = e.packet.id
    BY DEF EventIds
  <1>5. i \notin H <=> \A p \in Hand : i # p.id
    OBVIOUS
  <1> HIDE DEF H
  <1>6. QED
    BY <1>1, <1>2, <1>3, <1>4, <1>5

(* A hand-over of thread 0.                                                *)
LEMMA TypeClear == TypeInv /\ Clear => TypeInv'
  <1> SUFFICES ASSUME TypeInv, Clear PROVE TypeInv'
    OBVIOUS
  <1>1. /\ pc' = (IF pc \in {"shift", "cut"} THEN "enqueue" ELSE pc) /\ length' = 0
        /\ torn' = (IF pc = "column" THEN torn \cup {taken.id} ELSE torn)
        /\ UNCHANGED <<received, taken, command>>
    BY DEF Clear
  <1>2. EventsOk' /\ PendingOk'
    BY <1>1 DEF Clear, EventsOk, PendingOk
  <1>3. WindowOk' /\ BanksOk'
    BY FreshTypes DEF Clear, WindowOk, BanksOk
  <1>4. QueuesOk'
    <2>1. queues' = [b \in Banks |-> <<>>]
      BY DEF Clear
    <2>2. \A b \in Banks : Shape(queues'[b], b, received')
      BY <2>1, FreshTypes
    <2>3. queues' \in [Banks -> Seq(Packet)]
      BY <2>1, FreshTypes
    <2>4. QED
      BY <2>2, <2>3, StillShaped
  <1>5. TakenTyped' /\ HalfOk'
    BY <1>1 DEF TypeInv, TakenTyped, Enqueuing, HalfOk
  <1>6. CommandOk'
    BY <1>1 DEF TypeInv, CommandOk
  <1>7. CountsOk'
    BY Numbers DEF Clear, CountsOk
  <1>8. ClocksOk'
    <2>1. clears' \in 0 .. MaxClears /\ core0 \in 0 .. clears' /\ 0 \in 0 .. MaxClock
      BY Numbers DEF TypeInv, Clear, ClocksOk
    <2>2. QED
      BY <1>1, <2>1 DEF TypeInv, Clear, ClocksOk
  <1>9. HistoryOk'
    <2>1. UnderWay \subseteq 1 .. received
      <3>1. \A k \in DOMAIN pending : pending[k].id \in 1 .. received
        BY DEF TypeInv, PendingOk
      <3>2. \A b \in Banks : \A k \in DOMAIN queues[b] : queues[b][k].id \in 1 .. received
        BY DEF TypeInv, QueuesOk, NearlyShape
      <3>3. \A e \in events : e.packet.type \in Columns => e.packet.id \in 1 .. received
        BY DEF TypeInv, EventsOk, EventOk, PacketOk
      <3>4. ASSUME NEW i \in UnderWay PROVE i \in 1 .. received
        <4>1. \/ \E k \in DOMAIN pending : i = pending[k].id
              \/ \E b \in Banks : \E k \in DOMAIN queues[b] : i = queues[b][k].id
              \/ \E e \in events : e.packet.type \in Columns /\ i = e.packet.id
          BY UnderWayIs
        <4>2. QED
          BY <3>1, <3>2, <3>3, <4>1
      <3>5. QED
        BY <3>4
    <2>2. pc = "column" => taken.id \in 1 .. received
      BY DEF TypeInv, TakenTyped, Enqueuing
    <2>3. QED
      BY <1>1, <2>1, <2>2 DEF TypeInv, Clear, HistoryOk
  <1>10. QED
    BY <1>2, <1>3, <1>4, <1>5, <1>6, <1>7, <1>8, <1>9 DEF TypeInv

(* The steps that only move the clock or the place of the DRAM thread.     *)
LEMMA TypeClock ==
  TypeInv /\ (StartCycle \/ EndCycle \/ EndEvents \/ Tick \/ UNCHANGED vars) => TypeInv'
  <1> SUFFICES ASSUME TypeInv, StartCycle \/ EndCycle \/ EndEvents \/ Tick \/ UNCHANGED vars
               PROVE  TypeInv'
    OBVIOUS
  <1>1. /\ UNCHANGED <<clears, events, received, pending, queueVars, banks, busFreeTime, command, taken,
                       length, history>>
        /\ pc' = pc \/ (pc \in {"sleep", "enqueue"} /\ pc' \in {"pop", "sleep"})
        /\ counter1' \in {counter1, counter1 + RAMclock}
        /\ now' \in {now, clock} /\ core0' \in {core0, clears}
        /\ draining' \in {draining, TRUE, FALSE}
        /\ clock' = clock \/ (clock < MaxClock /\ clock' = clock + 1)
    BY DEF StartCycle, EndCycle, EndEvents, Tick, vars, clocks, thread
  <1>2. EventsOk' /\ PendingOk' /\ QueuesOk' /\ WindowOk' /\ BanksOk' /\ CountsOk' /\ CommandOk'
          /\ HistoryOk' /\ TakenTyped' /\ HalfOk'
    <2>1. EventsOk' /\ WindowOk' /\ BanksOk' /\ CountsOk' /\ CommandOk' /\ HistoryOk'
      BY <1>1 DEF TypeInv, EventsOk, WindowOk, BanksOk, CountsOk, CommandOk, HistoryOk, queueVars,
                  history
    <2>2. PendingOk' /\ TakenTyped' /\ HalfOk'
      BY <1>1 DEF TypeInv, PendingOk, TakenTyped, Enqueuing, HalfOk, queueVars, history
    <2>3. QueuesOk'
      <3>1. CASE pc = "column"
        <4>1. UNCHANGED <<queues, received, pc, taken>>
          BY <1>1, <3>1 DEF queueVars
        <4>2. QED
          BY <4>1 DEF TypeInv, QueuesOk, NearlyShape, HalfAt
      <3>2. CASE pc # "column"
        BY <1>1, <3>2, QueuesSame DEF queueVars
      <3>3. QED
        BY <3>1, <3>2
    <2>4. QED
      BY <2>1, <2>2, <2>3
  <1>3. ClocksOk'
    <2>1. /\ clock \in 0 .. MaxClock /\ counter1 \in Nat /\ clears \in Nat /\ core0 \in 0 .. clears
          /\ now \in Nat
      BY Numbers DEF TypeInv, ClocksOk
    <2>2. /\ clock' \in 0 .. MaxClock /\ counter1' \in Nat /\ now' \in Nat /\ core0' \in 0 .. clears'
      BY <1>1, <2>1, Numbers
    <2>3. QED
      BY <1>1, <2>2 DEF TypeInv, ClocksOk, history
  <1>4. QED
    BY <1>2, <1>3 DEF TypeInv

(* Every step keeps the types.                                             *)
LEMMA TypeInductive == TypeInv /\ [Next]_vars => TypeInv'
  <1> SUFFICES ASSUME TypeInv, [Next]_vars PROVE TypeInv'
    OBVIOUS
  <1>1. CASE Pop \/ Send \/ Clear \/ Placing
    BY <1>1, TypePop, TypeSend, TypeClear, TypeTake, TypeEnqueueActivate, TypeEnqueueColumn,
       TypeShift, TypeCut, TypeRemoved DEF Placing
  <1>2. CASE \E r \in Requests : Receive(r)
    BY <1>2, TypeReceive
  <1>3. CASE \E e \in events : Handler(e)
    BY <1>3, TypeHandler
  <1>4. CASE StartCycle \/ EndCycle \/ EndEvents \/ Tick \/ UNCHANGED vars
    BY <1>4, TypeClock
  <1>5. QED
    BY <1>1, <1>2, <1>3, <1>4 DEF Next, Handler, Placing

(* The types hold in every state.                                          *)
LEMMA TypeAlways == Spec => []TypeInv
  BY TypeInit, TypeInductive, PTL DEF Spec

(* Every variable of the controller and its threads keeps its range: no    *)
(* counter of CommandQueue.pop() runs away, whatever the two threads do in *)
(* between.                                                                *)
THEOREM TypeCorrect == Spec => []TypeOK
  BY TypeAlways, TypesHold, PTL

-----------------------------------------------------------------------------
(* When a READ is served.                                                  *)

Gap == Larger(tCCD, tBL2)

(* No bank takes a READ before Gap has passed since t.                     *)
Bars(t) == \A b \in Banks : t + Gap <= banks[b].nextRead

(* A READ on its way to the rank was issued at some time n up to now, and  *)
(* its controller has barred all banks from n on.                          *)
ReadInv ==
  /\ \A e \in events : e.kind = "command" /\ e.packet.type = "READ" =>
       \E n \in Nat : e.time = n + tCMD /\ n <= clock /\ Bars(n)
  /\ core0 = clears /\ pc = "send" /\ command.type = "READ" => Bars(now)
  /\ core0 = clears => now <= clock

(* No step of the rank or the controller lets a READ in earlier than a row *)
(* takes to open from now.                                                 *)
LEMMA BarsKept ==
  ASSUME TypeInv, ClocksOk', UNCHANGED banks \/ (Pop /\ UNCHANGED clock)
           \/ (\E e \in events : Handler(e)),
         NEW n \in Nat, n <= clock, Bars(n)
  PROVE  Bars(n)'
  <1>1. /\ Gap \in Nat /\ Gap <= tRCD /\ tRCD \in Nat /\ clock \in Nat /\ now \in Nat
        /\ BanksOk /\ ClocksOk
    BY Numbers, LargerIs, TimingAssumption DEF Gap, TypeInv, ClocksOk
  <1> SUFFICES ASSUME NEW b \in Banks PROVE n + Gap <= banks'[b].nextRead
    BY DEF Bars
  <1>2. n + Gap <= banks[b].nextRead /\ banks[b].nextRead \in Nat
    BY <1>1 DEF Bars, BanksOk, BankRecord
  <1>3. CASE UNCHANGED banks
    BY <1>2, <1>3
  <1>4. CASE Pop
    <2>1. CASE UNCHANGED banks
      BY <1>2, <2>1
    <2>2. CASE \E c \in Popped : banks' = Issued(c.packet)
      <3>1. PICK c \in Popped : banks' = Issued(c.packet)
        BY <2>2
      <3>2. c.packet \in Packet
        BY <1>4, CommandIs DEF PacketOk, Pop
      <3>3. /\ banks[b].nextRead <= Issued(c.packet)[b].nextRead
            /\ Issued(c.packet)[b] \in BankRecord
        BY <1>1, <3>2, IssuedIs
      <3>4. Issued(c.packet)[b].nextRead \in Nat
        BY <3>3 DEF BankRecord
      <3> DEFINE x == Issued(c.packet)[b].nextRead
                 y == banks[b].nextRead
      <3>5. n + Gap <= y /\ y <= x /\ x \in Nat /\ y \in Nat
        BY <1>2, <3>3, <3>4
      <3> HIDE DEF x, y
      <3>6. n + Gap <= x
        BY <1>1, <3>5
      <3>7. QED
        BY <3>1, <3>6 DEF x
    <2>3. QED
      BY <1>4, <2>1, <2>2 DEF Pop
  <1>5. CASE \E e \in events : Handler(e)
    <2>1. PICK e \in events : Handler(e)
      BY <1>5
    <2>2. e.packet \in Packet
      BY <2>1, HandlerIs
    <2>3. BanksOk' => banks'[b].nextRead \in Nat
      BY DEF BanksOk, BankRecord
    <2>4. CASE UNCHANGED banks
      BY <1>2, <2>4
    <2>5. CASE ~UNCHANGED banks
      <3>1. /\ BanksOk'
            /\ banks[b].nextRead <= banks'[b].nextRead \/ banks'[b].nextRead = banks[b].nextRead
                 \/ banks'[b].nextRead = clock + tRCD
        <4>1. CASE RankRead(e) \/ RankWrite(e)
          BY <1>1, <4>1, ColumnAtRank DEF SameRow
        <4>2. CASE RankActivate(e)
          BY <1>1, <2>2, <4>2, ActivateAtRank
        <4>3. CASE RankPrecharge(e)
          BY <1>1, <2>2, <4>3, PrechargeAtRank
        <4>4. CASE RankRefresh(e)
          BY <1>1, <4>4, RefreshAtRank
        <4>5. CASE StateUpdate(e)
          BY <1>1, <2>2, <4>5, UpdateOfState
        <4>6. QED
          BY <2>1, <2>5, <4>1, <4>2, <4>3, <4>4, <4>5 DEF Handler, ColumnReadComplete, RankResponse
      <3> DEFINE x == banks'[b].nextRead
                 y == banks[b].nextRead
      <3>2. /\ n + Gap <= y /\ x \in Nat /\ y \in Nat
            /\ y <= x \/ x = y \/ x = clock + tRCD
        BY <1>2, <2>3, <3>1
      <3> HIDE DEF x, y
      <3>3. n + Gap <= x
        BY <1>1, <3>2
      <3>4. QED
        BY <3>3 DEF x
    <2>6. QED
      BY <2>4, <2>5
  <1>6. QED
    BY <1>3, <1>4, <1>5

(* It holds at first.                                                      *)
LEMMA ReadInit == Init => ReadInv
  BY DEF Init, ReadInv

(* Every step keeps it.                                                    *)
LEMMA ReadInductive == TypeInv /\ TypeInv' /\ ReadInv /\ [Next]_vars => ReadInv'
  <1> SUFFICES ASSUME TypeInv, TypeInv', ReadInv, [Next]_vars PROVE ReadInv'
    OBVIOUS
  <1>1. /\ clock \in Nat /\ now \in Nat /\ ClocksOk' /\ tCMD \in Nat /\ clock' \in Nat
        /\ clears \in Nat /\ core0 \in Nat /\ core0 <= clears
    BY Numbers DEF TypeInv, ClocksOk
  <1>2. ASSUME clock <= clock', UNCHANGED <<core0, clears, now>>,
               UNCHANGED banks \/ (Pop /\ UNCHANGED clock) \/ (\E e \in events : Handler(e)),
               \A e \in events' : e \in events \/ ~(e.kind = "command" /\ e.packet.type = "READ"),
               pc' # "send" \/ UNCHANGED <<pc, command>>
        PROVE  ReadInv'
    <2>1. ASSUME NEW e \in events', e.kind = "command", e.packet.type = "READ"
          PROVE  \E n \in Nat : e.time = n + tCMD /\ n <= clock' /\ Bars(n)'
      <3>1. PICK n \in Nat : e.time = n + tCMD /\ n <= clock /\ Bars(n)
        BY <1>2, <2>1 DEF ReadInv
      <3>2. Bars(n)' /\ n <= clock'
        BY <1>1, <1>2, <3>1, BarsKept
      <3>3. QED
        BY <3>1, <3>2
    <2>2. core0' = clears' => now' <= clock'
      BY <1>1, <1>2 DEF ReadInv
    <2>3. ASSUME core0' = clears', pc' = "send", command'.type = "READ" PROVE Bars(now)'
      <3>1. now <= clock /\ Bars(now)
        BY <1>2, <2>3 DEF ReadInv
      <3>2. \A n \in Nat : n <= clock /\ Bars(n) => Bars(n)'
        BY <1>1, <1>2, BarsKept
      <3>3. now \in Nat /\ now' = now
        BY <1>1, <1>2
      <3>4. \A b \in Banks : now + Gap <= banks'[b].nextRead
        BY <3>1, <3>2, <3>3 DEF Bars
      <3>5. QED
        BY <3>3, <3>4 DEF Bars
    <2>4. QED
      BY <2>1, <2>2, <2>3 DEF ReadInv
  <1>3. CASE \E e \in events : Handler(e)
    <2>1. PICK e \in events : Handler(e)
      BY <1>3
    <2>2. UNCHANGED <<clocks, thread>>
      BY <2>1, HandlerIs
    <2>3. PICK E : /\ events' = (events \ {e}) \cup E
                   /\ E = {} \/ \E t \in Nat, k \in {"column", "response"} :
                                   E = {Event(t, k, e.packet)} /\ e.packet.type \in Columns
      BY <2>1, HandlerIs
    <2>4. \A f \in E : f.kind # "command"
      BY <2>3 DEF Event
    <2>5. clock <= clock'
      BY <1>1, <2>2 DEF clocks
    <2>6. QED
      BY <1>2, <1>3, <2>2, <2>3, <2>4, <2>5 DEF clocks, thread
  <1>4. CASE Pop
    <2>1. /\ UNCHANGED <<clocks, events, core0, now>>
          /\ pc' = "enqueue" \/ \E c \in Popped : /\ pc' = "send" /\ command' = c.packet
                                                  /\ banks' = Issued(c.packet)
      BY <1>4 DEF Pop
    <2>2. clock' = clock /\ clears' = clears /\ clock <= clock'
      BY <1>1, <2>1 DEF clocks
    <2>3. CASE pc' = "enqueue"
      BY <1>2, <1>4, <2>1, <2>2, <2>3
    <2>4. CASE \E c \in Popped : pc' = "send" /\ command' = c.packet /\ banks' = Issued(c.packet)
      <3>1. PICK c \in Popped : pc' = "send" /\ command' = c.packet /\ banks' = Issued(c.packet)
        BY <2>4
      <3>2. c.packet \in Packet
        BY <1>4, CommandIs DEF PacketOk, Pop
      <3>3. c.packet.type = "READ" => \A b \in Banks : now + Gap <= banks'[b].nextRead
        BY <1>1, <3>1, <3>2, IssuedIs DEF TypeInv, Gap
      <3>4. ASSUME NEW e \in events', e.kind = "command", e.packet.type = "READ"
            PROVE  \E n \in Nat : e.time = n + tCMD /\ n <= clock' /\ Bars(n)'
        <4>1. PICK n \in Nat : e.time = n + tCMD /\ n <= clock /\ Bars(n)
          BY <2>1, <3>4 DEF ReadInv
        <4>2. Bars(n)'
          BY <1>1, <1>4, <2>2, <4>1, BarsKept
        <4>3. QED
          BY <2>2, <4>1, <4>2
      <3>5. command'.type = "READ" => Bars(now)'
        BY <2>1, <3>1, <3>3 DEF Bars
      <3>6. core0' = clears' => now' <= clock'
        BY <2>1, <2>2 DEF ReadInv
      <3>7. QED
        BY <3>4, <3>5, <3>6 DEF ReadInv
    <2>5. QED
      BY <2>1, <2>3, <2>4
  <1>5. CASE Send
    <2>1. /\ pc = "send" /\ pc' = "enqueue" /\ UNCHANGED <<clocks, banks, core0, now>>
          /\ \/ events' = events
             \/ core0 = clears /\ events' = events \cup {Event(now + tCMD, "command", command)}
                                              \cup StateUpdates(command)
      BY <1>5 DEF Send
    <2>2. clock' = clock /\ clears' = clears
      BY <2>1 DEF clocks
    <2>3. ASSUME NEW e \in events', e.kind = "command", e.packet.type = "READ"
          PROVE  \E n \in Nat : e.time = n + tCMD /\ n <= clock' /\ Bars(n)
      <3>1. CASE e \in events
        BY <2>2, <2>3, <3>1 DEF ReadInv
      <3>2. CASE e \notin events
        <4>1. core0 = clears
          BY <2>1, <3>2
        <4>2. e = Event(now + tCMD, "command", command)
          <5>1. \A f \in StateUpdates(command) : f.kind = "update"
            BY DEF StateUpdates, Event
          <5>2. QED
            BY <2>1, <2>3, <3>2, <5>1
        <4>3. e.time = now + tCMD /\ command.type = "READ"
          BY <2>3, <4>2 DEF Event
        <4>4. Bars(now) /\ now <= clock
          BY <2>1, <4>1, <4>3 DEF ReadInv
        <4>5. QED
          BY <1>1, <2>2, <4>3, <4>4
      <3>3. QED
        BY <3>1, <3>2
    <2>4. \A n : Bars(n) => Bars(n)'
      BY <2>1 DEF Bars
    <2>5. QED
      BY <2>1, <2>2, <2>3, <2>4 DEF ReadInv
  <1>6. CASE StartCycle
    <2>1. UNCHANGED <<clocks, events, banks>> /\ now' = clock /\ pc' = "pop"
      BY <1>6 DEF StartCycle
    <2>2. \A n : Bars(n) => Bars(n)'
      BY <2>1 DEF Bars
    <2>3. clock' = clock /\ clock <= clock'
      BY <1>1, <2>1 DEF clocks
    <2>4. QED
      BY <2>1, <2>2, <2>3 DEF ReadInv
  <1>7. CASE Clear
    <2>1. events' = {} /\ clears' = clears + 1 /\ core0' = core0
      BY <1>7 DEF Clear
    <2>2. core0' # clears'
      BY <1>1, <2>1
    <2>3. QED
      BY <2>1, <2>2 DEF ReadInv
  <1>8. CASE Placing \/ EndCycle \/ (\E r \in Requests : Receive(r))
    <2>1. /\ UNCHANGED <<clocks, events, banks, core0, now>>
          /\ pc' # "send" \/ UNCHANGED <<pc, command>>
      <3>1. CASE Placing
        BY <3>1, PlacingIs
      <3>2. CASE EndCycle \/ (\E r \in Requests : Receive(r))
        BY <3>2 DEF EndCycle, Receive, thread
      <3>3. QED
        BY <1>8, <3>1, <3>2
    <2>2. clock <= clock' /\ clears' = clears
      BY <1>1, <2>1 DEF clocks
    <2>3. QED
      BY <1>2, <2>1, <2>2
  <1>9. CASE EndEvents \/ Tick \/ UNCHANGED vars
    <2>1. /\ UNCHANGED <<clears, events, banks, core0, now, pc, command>>
          /\ clock' = clock \/ clock' = clock + 1
      BY <1>9 DEF EndEvents, Tick, vars, clocks, thread
    <2>2. clock <= clock'
      BY <1>1, <2>1
    <2>3. QED
      BY <1>2, <2>1, <2>2
  <1>10. QED
    BY <1>3, <1>4, <1>5, <1>6, <1>7, <1>8, <1>9 DEF Next, Handler, Placing

(* It holds in every state.                                                *)
LEMMA ReadAlways == Spec => []ReadInv
  BY TypeInit, TypeInductive, ReadInit, ReadInductive, PTL DEF Spec

(* The step that takes a READ command off the events and puts its data     *)
(* there is its rank's, at a time the bank says is late enough.            *)
LEMMA ReadTaken ==
  TypeInv /\ ReadInv /\ [Next]_vars =>
    [\A e \in events \ events' :
       /\ e.kind = "command" /\ e.packet.type = "READ"
       /\ Event(e.time + tRL, "column", e.packet) \in events' \ events
       => clock >= e.time - tCMD + Larger(tCCD, tBL2)]_vars
  <1> SUFFICES ASSUME TypeInv, ReadInv, Next,
                      NEW e \in events \ events', e.kind = "command", e.packet.type = "READ",
                      Event(e.time + tRL, "column", e.packet) \in events' \ events
               PROVE  clock >= e.time - tCMD + Larger(tCCD, tBL2)
    OBVIOUS
  <1>1. CASE Clear
    BY <1>1 DEF Clear
  <1>2. CASE Send
    <2>1. events \subseteq events'
      BY <1>2 DEF Send
    <2>2. QED
      BY <2>1
  <1>3. CASE \E f \in events : Handler(f)
    <2>1. PICK f \in events : Handler(f)
      BY <1>3
    <2>2. f = e
      BY <2>1, HandlerIs
    <2>3. RankRead(e)
      BY <2>1, <2>2 DEF Handler, RankWrite, RankActivate, RankPrecharge, RankRefresh, StateUpdate,
                        ColumnReadComplete, RankResponse, Command, Due
    <2>4. ReadAllowed(e.packet)
      <3>1. ~ReadAllowed(e.packet) => events' = events \ {e}
        BY <2>3 DEF RankRead
      <3>2. QED
        BY <3>1
    <2>5. PICK n \in Nat : e.time = n + tCMD /\ Bars(n)
      BY DEF ReadInv
    <2>6. e.packet.bank \in Banks
      BY DEF TypeInv, EventsOk, EventOk, PacketOk, Packet
    <2> DEFINE x == banks[e.packet.bank].nextRead
               t == e.time
               g == Larger(tCCD, tBL2)
    <2>7. n + g <= x /\ clock >= x /\ t = n + tCMD
      BY <2>4, <2>5, <2>6 DEF Bars, Gap, ReadAllowed
    <2>8. x \in Nat
      BY <2>6 DEF TypeInv, BanksOk, BankRecord
    <2>9. g \in Nat /\ clock \in Nat /\ tCMD \in Nat
      BY Numbers, LargerIs DEF TypeInv, ClocksOk
    <2> HIDE DEF x, t, g
    <2>10. clock >= t - tCMD + g
      BY <2>7, <2>8, <2>9
    <2>11. QED
      BY <2>10 DEF t, g
  <1>4. CASE Placing
    BY <1>4, PlacingIs
  <1>5. CASE ~Clear /\ ~Send /\ ~Placing /\ ~(\E f \in events : Handler(f))
    <2>1. events' = events
      BY <1>5 DEF Next, Handler, Placing, StartCycle, Pop, EndCycle, EndEvents, Tick, Receive
    <2>2. QED
      BY <2>1
  <1>6. QED
    BY <1>1, <1>2, <1>3, <1>4, <1>5

(* The controller and the rank look at the same state of a bank, so a READ *)
(* is served only when its event is handled the gap between two bursts     *)
(* after its command was issued (Rank.java, CommandQueue.java).            *)
THEOREM ReadsTakenOnlyLateCorrect == Spec => ReadsTakenOnlyLate
  BY TypeAlways, ReadAlways, ReadTaken, PTL DEF ReadsTakenOnlyLate, Spec

-----------------------------------------------------------------------------
(* The row a column command waits for stays open.                          *)

(* A column command whose ACTIVATE was in its queue, and has been issued.  *)
Uncovered(b, k) ==
  /\ queues[b][k].type \in Columns /\ queues[b][k].id \notin torn
  /\ k = 1 \/ queues[b][k - 1].type # "ACTIVATE"

(* Its row is open, has not been used too often, and no other command to   *)
(* it comes first.                                                         *)
Heads ==
  \A b \in Banks : \A k \in DOMAIN queues[b] : Uncovered(b, k) =>
    /\ Open(b) /\ banks[b].row = queues[b][k].row /\ accesses[b] = 0
    /\ \A j \in 1 .. k - 1 : queues[b][j].row # queues[b][k].row
Unused == \A b \in Banks : ~Open(b) => accesses[b] = 0

(* A precharge or a refresh of t closes its banks, and they stay closed as *)
(* they must not be activated before t.                                    *)
Barred(b, t) == ~Open(b) /\ t <= banks[b].nextActivate
Closing(p, t) ==
  /\ p.type = "PRECHARGE" => Barred(p.bank, t)
  /\ p.type = "REFRESH" => \A b \in Banks : Barred(b, t)

Closes(p) == p.type \in {"PRECHARGE", "REFRESH"}
Lasts(type) == IF type = "PRECHARGE" THEN tRP ELSE tRFC

(* The event of such a command, and that of its end, are handled before it *)
(* is over.                                                                *)
Till(e) == IF e.kind = "update" THEN e.time + 1 ELSE e.time - tCMD + Lasts(e.packet.type)
Before(t) == IF draining THEN clock < t ELSE clock + 1 < t
ClosersOk ==
  \A e \in events : Closes(e.packet) =>
    /\ Before(Till(e)) /\ Till(e) <= clock + Lasts(e.packet.type)
    /\ Closing(e.packet, Till(e))
    /\ e.kind = "update" => banks[e.packet.bank].last = e.packet.type
    /\ e.packet.type = "REFRESH" =>
         \A f \in events : Closes(f.packet) => f.packet.type = "REFRESH"

(* So it is for a command in the hands of the DRAM thread that is sent in  *)
(* time; a refresh is issued only when nothing is under way.               *)
InTime == core0 = clears /\ pc = "send" /\ clock + 1 < now + Lasts(command.type)
HandOk ==
  InTime /\ Closes(command) =>
    /\ Closing(command, now + Lasts(command.type))
    /\ banks[command.bank].last = command.type
    /\ \A e \in events : Closes(e.packet) =>
         command.type = "PRECHARGE" /\ e.packet.type = "PRECHARGE"

RowInv == Heads /\ Unused /\ ClosersOk /\ HandOk

(* A cycle that was begun before the last hand-over finds nothing to do.   *)
StaleInv ==
  core0 # clears /\ pc \in {"pop", "send"} =>
    /\ events = {} /\ ~refreshWaiting /\ refreshCount = RefreshPeriod
    /\ \A b \in Banks : queues[b] = <<>> /\ ~Open(b)

(* What is known of a command or an end that closes banks.                 *)
LEMMA CloserIs ==
  ASSUME TypeInv, NEW e \in events, Closes(e.packet)
  PROVE  /\ e.time \in Nat /\ e.kind \in {"command", "update"} /\ e.packet \in Packet
         /\ e.packet.bank \in Banks /\ Lasts(e.packet.type) \in Nat
         /\ Till(e) \in Int /\ e.time < Till(e)
  <1>1. /\ tCMD \in Nat /\ tRP \in Nat /\ tRFC \in Nat /\ tCMD < tRP /\ tCMD < tRFC
    BY Numbers, TimingAssumption
  <1>2. /\ e.time \in Nat /\ e.packet \in Packet
        /\ e.kind \in {"command", "update", "column", "response"}
        /\ e.kind \in {"column", "response"} => e.packet.type \in Columns
    BY DEF TypeInv, EventsOk, EventOk, EventRecord
  <1>3. e.kind \in {"command", "update"} /\ e.packet.bank \in Banks
    BY <1>2 DEF Closes, Columns, Packet
  <1> DEFINE n == Lasts(e.packet.type)
             t == e.time
  <1>4. n \in Nat /\ tCMD < n
    BY <1>1 DEF Lasts
  <1> HIDE DEF n
  <1>5. Till(e) = IF e.kind = "update" THEN t + 1 ELSE t - tCMD + n
    BY DEF Till, n
  <1> HIDE DEF t
  <1>6. Till(e) \in Int /\ t < Till(e)
    <2>1. t \in Nat
      BY <1>2 DEF t
    <2>2. t + 1 \in Int /\ t < t + 1 /\ t - tCMD + n \in Int /\ t < t - tCMD + n
      BY <1>1, <1>4, <2>1
    <2>3. QED
      BY <1>5, <2>2
  <1>7. QED
    BY <1>2, <1>3, <1>4, <1>6 DEF n, t

(* The types of the banks.                                                 *)
LEMMA BankIs ==
  ASSUME BanksOk, NEW b \in Banks
  PROVE  /\ banks[b] \in BankRecord /\ banks[b].nextActivate \in Nat
         /\ banks[b].state \in {"IDLE", "ROW_ACTIVE", "PRECHARGING", "REFRESHING"}
  BY DEF BanksOk, BankRecord

-----------------------------------------------------------------------------
(* The handlers keep rows open and barred banks closed.                    *)

(* What a handler does to bank b.                                          *)
LEMMA HandledBank ==
  ASSUME TypeInv, TypeInv', RowInv, NEW e \in events, Handler(e), NEW b \in Banks
  PROVE  /\ banks'[b].last = banks[b].last
         /\ Open(b) => Open(b)' /\ banks'[b].row = banks[b].row
         /\ \/ banks[b].nextActivate <= banks'[b].nextActivate
            \/ RankRefresh(e) /\ banks'[b].nextActivate = clock + tRFC
         /\ ~Open(b) /\ clock < banks[b].nextActivate => ~Open(b)'
  <1>1. /\ BanksOk /\ ClocksOk /\ BanksOk' /\ e.packet \in Packet /\ clock \in Nat
        /\ banks[b].nextActivate \in Nat
    BY HandlerIs, BankIs DEF TypeInv, ClocksOk
  <1>2. CASE UNCHANGED banks
    BY <1>1, <1>2 DEF Open
  <1>3. CASE RankRead(e) \/ RankWrite(e)
    <2>1. SameRow(b)
      BY <1>1, <1>3, ColumnAtRank
    <2>2. QED
      BY <1>1, <2>1 DEF SameRow, Open
  <1>4. CASE RankActivate(e)
    <2>1. /\ banks'[b].last = banks[b].last
          /\ banks[b].nextActivate <= banks'[b].nextActivate
          /\ \/ banks'[b].state = banks[b].state /\ banks'[b].row = banks[b].row
             \/ banks[b].state = "IDLE" /\ clock >= banks[b].nextActivate
      BY <1>1, <1>4, ActivateAtRank
    <2>2. clock >= banks[b].nextActivate => ~(clock < banks[b].nextActivate)
      BY <1>1
    <2>3. QED
      BY <2>1, <2>2 DEF Open
  <1>5. CASE RankPrecharge(e)
    <2>1. e.packet.type = "PRECHARGE"
      BY <1>5 DEF RankPrecharge, Command
    <2>2. ~Open(e.packet.bank)
      BY <2>1 DEF RowInv, ClosersOk, Closes, Closing, Barred
    <2>3. UNCHANGED banks
      BY <1>1, <1>5, <2>2, PrechargeAtRank
    <2>4. QED
      BY <1>2, <2>3
  <1>6. CASE RankRefresh(e)
    <2>1. /\ banks'[b].state = banks[b].state /\ banks'[b].row = banks[b].row
          /\ banks'[b].last = banks[b].last
          /\ banks'[b].nextActivate \in {banks[b].nextActivate, clock + tRFC}
      BY <1>1, <1>6, RefreshAtRank
    <2>2. banks[b].nextActivate <= banks[b].nextActivate
      BY <1>1
    <2>3. QED
      BY <1>6, <2>1, <2>2 DEF Open
  <1>7. CASE StateUpdate(e)
    <2> DEFINE d == e.packet.bank
    <2>1. /\ banks'[b].row = banks[b].row /\ banks'[b].last = banks[b].last
          /\ banks'[b].nextActivate = banks[b].nextActivate
          /\ \/ banks'[b].state = banks[b].state
             \/ banks[d].last = "REFRESH" /\ banks'[b].state = "IDLE"
             \/ banks[d].last = "PRECHARGE" /\ b = d /\ banks'[b].state = "IDLE"
      BY <1>1, <1>7, UpdateOfState
    <2>2. Closes(e.packet) /\ banks[d].last = e.packet.type
      <3>1. e.kind = "update"
        BY <1>7 DEF StateUpdate, Due
      <3>2. Closes(e.packet)
        BY <3>1 DEF TypeInv, EventsOk, EventOk, Closes
      <3>3. QED
        BY <3>1, <3>2 DEF RowInv, ClosersOk
    <2>3. Closing(e.packet, Till(e))
      BY <2>2 DEF RowInv, ClosersOk
    <2>4. banks'[b].state # banks[b].state => ~Open(b) /\ banks'[b].state = "IDLE"
      BY <2>1, <2>2, <2>3 DEF Closing, Barred
    <2>5. banks[b].nextActivate <= banks'[b].nextActivate
      BY <1>1, <2>1
    <2>6. QED
      BY <2>1, <2>4, <2>5 DEF Open
  <1>8. CASE ColumnReadComplete(e) \/ RankResponse(e)
    BY <1>2, <1>8 DEF ColumnReadComplete, RankResponse
  <1>9. QED
    BY <1>3, <1>4, <1>5, <1>6, <1>7, <1>8 DEF Handler

(* So what closes banks is not undone.                                     *)
LEMMA HandledClosing ==
  ASSUME TypeInv, TypeInv', RowInv, NEW e \in events, Handler(e),
         NEW p \in Packet, NEW t \in Int, Closing(p, t), clock < t,
         RankRefresh(e) => t <= clock + tRFC
  PROVE  Closing(p, t)'
  <1>1. clock \in Nat /\ tRFC \in Nat /\ BanksOk /\ BanksOk'
    BY Numbers DEF TypeInv, ClocksOk
  <1>2. ASSUME NEW b \in Banks, Barred(b, t) PROVE Barred(b, t)'
    <2> DEFINE x == banks[b].nextActivate
               y == banks'[b].nextActivate
    <2>1. x \in Nat /\ y \in Nat
      BY <1>1 DEF BanksOk, BankRecord
    <2>2. /\ t <= x /\ ~Open(b)
          /\ x <= y \/ (RankRefresh(e) /\ y = clock + tRFC)
          /\ ~Open(b) /\ clock < x => ~Open(b)'
      BY <1>2, HandledBank DEF Barred
    <2> HIDE DEF x, y
    <2>3. clock < x
      BY <1>1, <2>1, <2>2
    <2>4. CASE x <= y
      <3>1. t <= y
        BY <2>1, <2>2, <2>4
      <3>2. QED
        BY <2>2, <2>3, <3>1 DEF Barred, y
    <2>5. CASE RankRefresh(e) /\ y = clock + tRFC
      <3>1. t <= y
        BY <2>5
      <3>2. QED
        BY <2>2, <2>3, <3>1 DEF Barred, y
    <2>6. QED
      BY <2>2, <2>4, <2>5
  <1>3. p.bank \in Banks
    BY DEF Packet
  <1>4. QED
    BY <1>2, <1>3 DEF Closing

(* A handler keeps the invariant.                                          *)
LEMMA RowHandler ==
  ASSUME TypeInv, TypeInv', RowInv, NEW e \in events, Handler(e)
  PROVE  RowInv'
  <1>1. /\ UNCHANGED <<clocks, queueVars, thread>> /\ draining /\ clock \in Nat /\ e.time <= clock
        /\ now \in Nat /\ tRP \in Nat /\ tRFC \in Nat
    BY HandlerIs, Numbers DEF TypeInv, ClocksOk
  <1>2. /\ torn' = torn /\ queues' = queues /\ accesses' = accesses /\ clock' = clock /\ draining' = draining
        /\ core0' = core0 /\ clears' = clears /\ pc' = pc /\ now' = now /\ command' = command
    BY <1>1, HandlerIs DEF clocks, queueVars, thread
  <1>3. Heads'
    BY <1>2, HandledBank DEF RowInv, Heads, Uncovered
  <1>4. Unused'
    BY <1>2, HandledBank DEF RowInv, Unused
  <1>5. ASSUME NEW f \in events', Closes(f.packet) PROVE f \in events
    <2>1. PICK E : /\ events' = (events \ {e}) \cup E
                   /\ E = {} \/ \E t \in Nat, k \in {"column", "response"} :
                                   E = {Event(t, k, e.packet)} /\ e.packet.type \in Columns
      BY HandlerIs
    <2>2. \A g \in E : g.packet.type \in Columns
      BY <2>1 DEF Event
    <2>3. QED
      BY <1>5, <2>1, <2>2 DEF Closes, Columns
  <1>6. ASSUME NEW f \in events', Closes(f.packet)
        PROVE  /\ Before(Till(f))' /\ Till(f) <= clock' + Lasts(f.packet.type)
               /\ Closing(f.packet, Till(f))'
               /\ f.kind = "update" => banks'[f.packet.bank].last = f.packet.type
               /\ f.packet.type = "REFRESH" =>
                    \A g \in events' : Closes(g.packet) => g.packet.type = "REFRESH"
    <2>1. f \in events
      BY <1>5, <1>6
    <2>2. /\ Before(Till(f)) /\ Till(f) <= clock + Lasts(f.packet.type)
          /\ Closing(f.packet, Till(f))
          /\ f.kind = "update" => banks[f.packet.bank].last = f.packet.type
          /\ f.packet.type = "REFRESH" =>
               \A g \in events : Closes(g.packet) => g.packet.type = "REFRESH"
      BY <1>6, <2>1 DEF RowInv, ClosersOk
    <2>3. f.packet \in Packet /\ f.packet.bank \in Banks /\ Till(f) \in Int
      BY <1>6, <2>1, CloserIs
    <2>4. clock < Till(f)
      BY <1>1, <2>2 DEF Before
    <2>5. RankRefresh(e) => Till(f) <= clock + tRFC
      <3>1. SUFFICES ASSUME RankRefresh(e) PROVE Till(f) <= clock + tRFC
        OBVIOUS
      <3>2. e.packet.type = "REFRESH"
        BY <3>1 DEF RankRefresh, Command
      <3>3. f.packet.type = "REFRESH"
        BY <1>6, <2>1, <3>2 DEF RowInv, ClosersOk, Closes
      <3>4. QED
        BY <2>2, <3>3 DEF Lasts
    <2>6. Closing(f.packet, Till(f))'
      BY <2>2, <2>3, <2>4, <2>5, HandledClosing
    <2>7. Before(Till(f))'
      BY <1>2, <2>2 DEF Before, Till
    <2>8. banks'[f.packet.bank].last = banks[f.packet.bank].last
      BY <2>3, HandledBank
    <2>9. \A g \in events' : Closes(g.packet) => g \in events
      BY <1>5
    <2>10. QED
      BY <1>2, <2>2, <2>6, <2>7, <2>8, <2>9
  <1>7. ClosersOk'
    BY <1>6 DEF ClosersOk, Till
  <1>8. HandOk'
    <2>1. SUFFICES ASSUME InTime, Closes(command) PROVE
            /\ Closing(command, now + Lasts(command.type))'
            /\ banks'[command.bank].last = command.type
            /\ \A f \in events' : Closes(f.packet) =>
                 command.type = "PRECHARGE" /\ f.packet.type = "PRECHARGE"
      BY <1>2 DEF HandOk, InTime, Closes, Lasts
    <2>2. /\ Closing(command, now + Lasts(command.type))
          /\ banks[command.bank].last = command.type
          /\ \A f \in events : Closes(f.packet) =>
               command.type = "PRECHARGE" /\ f.packet.type = "PRECHARGE"
      BY <2>1 DEF RowInv, HandOk
    <2>3. command \in Packet /\ command.bank \in Banks
      BY DEF TypeInv, CommandOk, PacketOk, Packet
    <2>4. \E p \in Packet, t \in Int : p = command /\ t = now + Lasts(command.type)
      <3>1. Lasts(command.type) \in Nat
        BY <1>1 DEF Lasts
      <3>2. now + Lasts(command.type) \in Int
        BY <1>1, <3>1
      <3>3. QED
        BY <2>3, <3>2
    <2>5. PICK p \in Packet, t \in Int : p = command /\ t = now + Lasts(command.type)
      BY <2>4
    <2>6. ~RankRefresh(e)
      <3>1. SUFFICES ASSUME RankRefresh(e) PROVE FALSE
        OBVIOUS
      <3>2. e.packet.type = "REFRESH"
        BY <3>1 DEF RankRefresh, Command
      <3>3. QED
        BY <2>2, <3>2 DEF Closes
    <2>7. clock < t
      <3>1. clock + 1 < t
        BY <2>1, <2>5 DEF InTime
      <3>2. QED
        BY <1>1, <3>1
    <2>8. Closing(p, t)'
      BY <2>2, <2>5, <2>6, <2>7, HandledClosing
    <2>9. Closing(command, now + Lasts(command.type))'
      BY <1>2, <2>5, <2>8 DEF Lasts
    <2>10. QED
      BY <1>5, <2>2, <2>3, <2>9, HandledBank
  <1>9. QED
    BY <1>3, <1>4, <1>7, <1>8 DEF RowInv

-----------------------------------------------------------------------------
(* pop() closes no row that is waited for.                                 *)

(* The banks, the places and the counter after c has been popped.          *)
Takes(c) ==
  /\ CutOut(c) /\ banks' = Issued(c.packet) /\ torn' = torn
  /\ accesses' = [accesses EXCEPT ![c.packet.bank] =
       IF c.packet.type = "PRECHARGE" THEN 0 ELSE IF c.first < c.last THEN @ + 1 ELSE @]

(* A command for an open row goes to a bank that is open.                  *)
LEMMA IssuableIs ==
  ASSUME TypeInv, pc = "pop", NEW c \in Popped
  PROVE  /\ c.packet.type \in Columns =>
              Open(c.packet.bank) /\ banks[c.packet.bank].row = c.packet.row
         /\ c.packet.type = "ACTIVATE" =>
              ~Open(c.packet.bank) /\ ~(now < banks[c.packet.bank].nextActivate)
         /\ c.packet.type = "PRECHARGE" => Open(c.packet.bank)
         /\ c.packet.type = "REFRESH" =>
              \A b \in Banks : ~Open(b) /\ ~(now < banks[b].nextActivate)
  <1>1. c.packet.type \in Columns \cup {"ACTIVATE"} => isIssuable(c.packet)
    BY CommandIs DEF QueueCommand
  <1>2. /\ c.packet.type \in Columns =>
              Open(c.packet.bank) /\ banks[c.packet.bank].row = c.packet.row
    BY <1>1 DEF isIssuable, Columns
  <1>3. now \in Nat /\ \A b \in Banks : banks[b].nextActivate \in Nat
    BY BankIs DEF TypeInv, ClocksOk
  <1>4. c.packet.type = "ACTIVATE" =>
          ~Open(c.packet.bank) /\ ~(now < banks[c.packet.bank].nextActivate)
    <2>1. SUFFICES ASSUME c.packet.type = "ACTIVATE"
                   PROVE  ~Open(c.packet.bank) /\ ~(now < banks[c.packet.bank].nextActivate)
      OBVIOUS
    <2>2. /\ banks[c.packet.bank].state \in {"IDLE", "REFRESHING"}
          /\ now >= banks[c.packet.bank].nextActivate
      BY <1>1, <2>1 DEF isIssuable
    <2>3. banks[c.packet.bank].nextActivate \in Nat
      BY <1>3, CommandIs
    <2>4. QED
      BY <1>3, <2>2, <2>3 DEF Open
  <1>5. c.packet.type = "PRECHARGE" => Open(c.packet.bank)
    BY CommandIs DEF EndOfRow
  <1>6. c.packet.type = "REFRESH" =>
          \A b \in Banks : ~Open(b) /\ ~(now < banks[b].nextActivate)
    <2>1. SUFFICES ASSUME c.packet.type = "REFRESH", NEW b \in Banks
                   PROVE  ~Open(b) /\ ~(now < banks[b].nextActivate)
      OBVIOUS
    <2>2. ~Open(b) /\ ~(banks[b].nextActivate > now) /\ banks[b].nextActivate \in Nat
      BY <1>3, <2>1, CommandIs DEF RefreshOfAll
    <2>3. QED
      BY <1>3, <2>2
  <1>7. QED
    BY <1>2, <1>4, <1>5, <1>6

(* A bank that is closed and barred stays so.                              *)
LEMMA IssuedBarred ==
  ASSUME TypeInv, now <= clock, pc = "pop", NEW c \in Popped, Takes(c),
         NEW b \in Banks, NEW t \in Int, Barred(b, t), clock < t
  PROVE  Barred(b, t)' /\ banks'[b].last = banks[b].last
  <1> DEFINE p == c.packet
  <1>1. /\ BanksOk /\ now \in Nat /\ clock \in Nat /\ p \in Packet
        /\ p.type \in Types /\ banks'[b] = Issued(p)[b]
    BY CommandIs DEF TypeInv, ClocksOk, PacketOk, Takes, Packet
  <1>2. ~Open(b) /\ t <= banks[b].nextActivate /\ banks[b].nextActivate \in Nat
    BY <1>1, BankIs DEF Barred
  <1>3. now < banks[b].nextActivate
    <2> DEFINE x == banks[b].nextActivate
    <2>1. t <= x /\ x \in Nat
      BY <1>2
    <2> HIDE DEF x
    <2>2. now < x
      BY <1>1, <2>1
    <2>3. QED
      BY <2>2 DEF x
  <1>4. p.type = "ACTIVATE" => b # p.bank
    BY <1>3, IssuableIs
  <1>5. p.type # "REFRESH"
    BY <1>3, IssuableIs
  <1>6. p.type = "PRECHARGE" => b # p.bank
    BY <1>2, IssuableIs
  <1>7. p.type \in Columns => b # p.bank
    BY <1>2, IssuableIs
  <1>8. /\ Issued(p)[b].state = banks[b].state /\ Issued(p)[b].last = banks[b].last
        /\ banks[b].nextActivate <= Issued(p)[b].nextActivate
        /\ Issued(p)[b] \in BankRecord
    <2>1. banks[b].nextActivate <= banks[b].nextActivate
      BY <1>2
    <2>2. CASE p.type = "ACTIVATE"
      BY <1>1, <1>4, <2>2, IssuedIs
    <2>3. CASE p.type = "PRECHARGE"
      BY <1>1, <1>6, <2>1, <2>3, IssuedIs
    <2>4. CASE p.type \in Columns
      BY <1>1, <1>7, <2>1, <2>4, IssuedIs
    <2>5. QED
      BY <1>1, <1>5, <2>2, <2>3, <2>4 DEF Types
  <1> DEFINE x == banks[b].nextActivate
             y == Issued(p)[b].nextActivate
  <1>9. y \in Nat /\ x \in Nat /\ x <= y /\ t <= x
    BY <1>2, <1>8 DEF BankRecord
  <1> HIDE DEF x, y
  <1>10. t <= y
    BY <1>9
  <1>11. QED
    BY <1>1, <1>2, <1>8, <1>10 DEF Barred, Open, y

(* A column command that waits for an open row and is not c.               *)
LEMMA Stays ==
  ASSUME TypeInv, pc = "pop", NEW c \in Popped, CutOut(c), torn' = torn,
         NEW b \in Banks, NEW k \in DOMAIN queues'[b],
         Uncovered(b, k)'
  PROVE  \/ Uncovered(b, Was(c, b, k))
         \/ /\ b = c.packet.bank /\ c.packet.type = "ACTIVATE"
            /\ QueueCommand(c, b, Was(c, b, k) - 1)
  <1> DEFINE m == Was(c, b, k)
             d == c.packet.bank
  <1>1. QueuesTyped /\ \A x \in Banks : Shape(queues[x], x, received)
    BY WholeQueues
  <1>2. /\ m \in DOMAIN queues[b] /\ queues'[b][k] = queues[b][m]
        /\ b = d => m \notin c.first .. c.last
    BY PopQueues DEF CutOut
  <1>3. /\ m > 1 /\ ~(b = d /\ m - 1 \in c.first .. c.last) =>
             k - 1 \in DOMAIN queues'[b] /\ k > 1 /\ Was(c, b, k - 1) = m - 1
    BY WasOrder
  <1>4. m \in 1 .. Len(queues[b]) /\ Len(queues[b]) \in Nat
    BY <1>1, <1>2 DEF QueuesTyped
  <1>5. queues[b][m].type \in Columns /\ queues[b][m].id \notin torn
    BY <1>2 DEF Uncovered
  <1> SUFFICES ASSUME m > 1, queues[b][m - 1].type = "ACTIVATE"
               PROVE  b = d /\ c.packet.type = "ACTIVATE" /\ QueueCommand(c, b, m - 1)
    <2>1. m = 1 \/ m > 1
      BY <1>4
    <2>2. QED
      BY <1>5, <2>1 DEF Uncovered
  <1>6. CASE ~(b = d /\ m - 1 \in c.first .. c.last)
    <2>1. k - 1 \in DOMAIN queues'[b] /\ k > 1 /\ Was(c, b, k - 1) = m - 1
      BY <1>3, <1>6
    <2>2. queues'[b][k - 1] = queues[b][m - 1]
      <3>1. \A j \in DOMAIN queues'[b] : queues'[b][j] = queues[b][Was(c, b, j)]
        BY PopQueues DEF CutOut
      <3>2. QED
        BY <2>1, <3>1
    <2>3. queues'[b][k - 1].type = "ACTIVATE"
      BY <2>2
    <2>4. k # 1
      BY <2>1
    <2>5. QED
      BY <2>3, <2>4 DEF Uncovered
  <1>7. CASE b = d /\ m - 1 \in c.first .. c.last
    <2>1. PICK x, i : QueueCommand(c, x, i)
      <3>1. ASSUME c.first = 1, c.last = 0 PROVE FALSE
        <4>1. c.first .. c.last = {}
          BY <3>1
        <4>2. QED
          BY <1>7, <4>1
      <3>2. ASSUME NEW x, EndOfRow(c, x) PROVE c.first = 1 /\ c.last = 0
        BY <3>2 DEF EndOfRow
      <3>3. ASSUME RefreshOfAll(c) PROVE c.first = 1 /\ c.last = 0
        BY <3>3 DEF RefreshOfAll
      <3>4. QED
        BY <3>1, <3>2, <3>3, PoppedIs
    <2>2. x = d /\ i \in 1 .. Len(queues[b]) /\ c.packet = queues[b][i]
          /\ c.first = FirstRemoved(b, i) /\ c.last = i
      <3>1. x \in Banks /\ i \in DOMAIN queues[x] /\ c.packet = queues[x][i]
            /\ c.first = FirstRemoved(x, i) /\ c.last = i
        BY <2>1 DEF QueueCommand
      <3>2. queues[x][i].bank = x
        BY <1>1, <3>1 DEF Shape
      <3>3. QED
        BY <1>1, <1>7, <3>1, <3>2 DEF QueuesTyped
    <2>3. c.first \in {i - 1, i}
      BY <2>2 DEF FirstRemoved
    <2>4. m - 1 = i - 1 \/ m - 1 = i
      <3>1. i \in Nat /\ c.first \in Int /\ c.last = i
        BY <1>4, <2>2, <2>3
      <3>2. m - 1 \in c.first .. c.last /\ m \in Nat
        BY <1>4, <1>7
      <3> HIDE DEF m, d
      <3>3. i - 1 <= m - 1 /\ m - 1 <= i
        BY <2>3, <3>1, <3>2
      <3>4. QED
        BY <3>1, <3>2, <3>3
    <2>5. m - 1 # i - 1
      <3>1. SUFFICES ASSUME m = i PROVE FALSE
        BY <1>4, <2>2
      <3>2. i \in c.first .. c.last
        BY <2>2, <2>3
      <3>3. QED
        BY <1>2, <1>7, <3>1, <3>2
    <2>6. m - 1 = i
      BY <2>4, <2>5
    <2>7. QED
      BY <1>7, <2>1, <2>2, <2>6
  <1>8. QED
    BY <1>6, <1>7

(* No command that is popped is for a bank a column command waits for, but *)
(* the column command itself.                                              *)
LEMMA NotForHead ==
  ASSUME TypeInv, RowInv, pc = "pop", NEW c \in Popped, CutOut(c), NEW b \in Banks, NEW m \in DOMAIN queues[b],
         Uncovered(b, m), b = c.packet.bank => m \notin c.first .. c.last
  PROVE  b # c.packet.bank /\ c.packet.type # "REFRESH"
  <1> DEFINE d == c.packet.bank
             p == c.packet
  <1>1. QueuesTyped /\ \A x \in Banks : Shape(queues[x], x, received)
    BY WholeQueues
  <1>2. /\ Open(b) /\ banks[b].row = queues[b][m].row /\ accesses[b] = 0
        /\ \A j \in 1 .. m - 1 : queues[b][j].row # queues[b][m].row
    BY DEF RowInv, Heads
  <1>3. m \in 1 .. Len(queues[b]) /\ Len(queues[b]) \in Nat /\ queues[b][m].type \in Columns
        /\ DOMAIN queues[b] = 1 .. Len(queues[b])
    BY <1>1 DEF QueuesTyped, Uncovered
  <1>4. p.type # "REFRESH"
    BY <1>2, IssuableIs
  <1>5. ASSUME b = d, p.type \in Columns \cup {"ACTIVATE"} PROVE FALSE
    <2>1. PICK i : QueueCommand(c, b, i)
      BY <1>5, CommandIs
    <2>2. /\ i \in 1 .. Len(queues[b]) /\ p = queues[b][i] /\ c.first = FirstRemoved(b, i)
          /\ c.last = i
          /\ \A j \in 1 .. i - 1 :
               queues[b][j].type # "ACTIVATE" => queues[b][j].row # queues[b][i].row
      BY <1>1, <2>1 DEF QueueCommand, QueuesTyped
    <2>3. p.type \in Columns /\ p.row = banks[b].row
      BY <1>2, <1>5, IssuableIs
    <2>4. m # i
      <3>1. c.first \in {i - 1, i}
        BY <2>2 DEF FirstRemoved
      <3>2. i \in c.first .. c.last
        BY <2>2, <3>1
      <3>3. QED
        BY <1>5, <3>2
    <2>5. ~(i < m)
      <3>1. SUFFICES ASSUME i < m PROVE FALSE
        OBVIOUS
      <3>2. i \in 1 .. m - 1
        BY <1>3, <2>2, <3>1
      <3>3. QED
        BY <1>2, <2>2, <2>3, <3>2
    <2>6. m \in 1 .. i - 1
      BY <1>3, <2>2, <2>4, <2>5
    <2>7. queues[b][m].type # "ACTIVATE"
      BY <1>3 DEF Columns
    <2>8. QED
      BY <1>2, <2>2, <2>3, <2>6, <2>7
  <1>6. ASSUME b = d, p.type = "PRECHARGE" PROVE FALSE
    <2>1. \/ Hits(b) = {} \/ queues[b][Min(Hits(b))].type = "ACTIVATE"
          \/ accesses[b] = TOTAL_ROW_ACCESSES
      BY <1>6, CommandIs DEF EndOfRow
    <2>2. m \in Hits(b) /\ Hits(b) \subseteq Nat
      BY <1>2, <1>3 DEF Hits
    <2>3. accesses[b] # TOTAL_ROW_ACCESSES
      BY <1>2, Numbers
    <2>4. Min(Hits(b)) = m
      <3> DEFINE i == Min(Hits(b))
      <3>1. i \in Hits(b) /\ i <= m
        BY <2>2, LeastIs
      <3> HIDE DEF i
      <3>2. i \in 1 .. Len(queues[b]) /\ queues[b][i].row = banks[b].row
        BY <1>3, <3>1 DEF Hits
      <3>3. i \notin 1 .. m - 1
        BY <1>2, <3>2
      <3>4. i = m
        BY <1>3, <3>1, <3>2, <3>3
      <3>5. QED
        BY <3>4 DEF i
    <2>5. QED
      BY <1>3, <2>1, <2>2, <2>3, <2>4 DEF Columns
  <1>7. p.type \in Types
    BY CommandIs DEF PacketOk, Packet
  <1>8. QED
    BY <1>4, <1>5, <1>6, <1>7 DEF Types

(* Open rows that are waited for stay open.                                *)
LEMMA PopHeads ==
  ASSUME TypeInv, RowInv, pc = "pop", NEW c \in Popped, Takes(c)
  PROVE  Heads'
  <1> SUFFICES ASSUME NEW b \in Banks, NEW k \in DOMAIN queues'[b], Uncovered(b, k)'
               PROVE  /\ Open(b)' /\ banks'[b].row = queues'[b][k].row /\ accesses'[b] = 0
                      /\ \A j \in 1 .. k - 1 : queues'[b][j].row # queues'[b][k].row
    BY DEF Heads
  <1> DEFINE m == Was(c, b, k)
             d == c.packet.bank
             p == c.packet
  <1>1. QueuesTyped /\ \A x \in Banks : Shape(queues[x], x, received)
    BY WholeQueues
  <1>2. CutOut(c) /\ BanksOk /\ now \in Nat /\ p \in Packet /\ p.type \in Types /\ d \in Banks
        /\ banks'[b] = Issued(p)[b]
    BY CommandIs DEF Takes, TypeInv, ClocksOk, PacketOk, Packet
  <1>3. /\ m \in DOMAIN queues[b] /\ queues'[b][k] = queues[b][m]
        /\ b = d => m \notin c.first .. c.last
    BY <1>2, PopQueues DEF CutOut
  <1>4. ASSUME NEW j \in 1 .. k - 1
        PROVE  /\ Was(c, b, j) \in 1 .. m - 1 /\ Was(c, b, j) \in DOMAIN queues[b]
               /\ queues'[b][j] = queues[b][Was(c, b, j)]
               /\ b = d => Was(c, b, j) \notin c.first .. c.last
    <2>1. j \in DOMAIN queues'[b] /\ j < k
      <3> DEFINE E == Packet
                 q == queues'[b]
      <3> HIDE DEF E
      <3>1. q \in Seq(E)
        BY <1>2, PopQueues DEF CutOut, E
      <3>2. k \in DOMAIN q
        OBVIOUS
      <3> HIDE DEF q
      <3>3. j \in DOMAIN q /\ j < k
        BY <3>1, <3>2
      <3>4. QED
        BY <3>3 DEF q
    <2>2. /\ Was(c, b, j) \in DOMAIN queues[b] /\ queues'[b][j] = queues[b][Was(c, b, j)]
          /\ b = d => Was(c, b, j) \notin c.first .. c.last
      BY <1>2, <2>1, PopQueues DEF CutOut
    <2>3. Was(c, b, j) < m
      BY <1>2, <2>1, WasOrder
    <2>4. DOMAIN queues[b] = 1 .. Len(queues[b]) /\ Len(queues[b]) \in Nat
      BY <1>1 DEF QueuesTyped
    <2> DEFINE n == Was(c, b, j)
    <2> HIDE DEF n, m
    <2>5. n \in 1 .. m - 1
      <3>1. n < m /\ n \in DOMAIN queues[b] /\ m \in DOMAIN queues[b]
        BY <1>3, <2>2, <2>3 DEF n, m
      <3>2. QED
        BY <2>4, <3>1
    <2>6. QED
      BY <2>2, <2>5 DEF n
  <1>5. accesses \in [Banks -> 0 .. TOTAL_ROW_ACCESSES]
    BY DEF TypeInv, CountsOk
  <1>6. CASE Uncovered(b, m)
    <2>1. b # d /\ p.type # "REFRESH"
      BY <1>2, <1>3, <1>6, NotForHead
    <2>2. /\ Open(b) /\ banks[b].row = queues[b][m].row /\ accesses[b] = 0
          /\ \A j \in 1 .. m - 1 : queues[b][j].row # queues[b][m].row
      BY <1>3, <1>6 DEF RowInv, Heads
    <2>3. accesses'[b] = accesses[b]
      BY <1>2, <1>5, <2>1 DEF Takes
    <2>4. banks'[b].state = banks[b].state /\ banks'[b].row = banks[b].row
      <3>1. CASE p.type \in Columns
        BY <1>2, <3>1, IssuedIs
      <3>2. CASE p.type = "ACTIVATE"
        BY <1>2, <2>1, <3>2, IssuedIs
      <3>3. CASE p.type = "PRECHARGE"
        BY <1>2, <2>1, <3>3, IssuedIs
      <3>4. QED
        BY <1>2, <2>1, <3>1, <3>2, <3>3 DEF Types
    <2>5. QED
      BY <1>3, <1>4, <2>2, <2>3, <2>4 DEF Open
  <1>7. CASE b = d /\ p.type = "ACTIVATE" /\ QueueCommand(c, b, m - 1)
    <2> DEFINE i == m - 1
    <2>1. m \in Int /\ i \in Int /\ m = i + 1
      BY <1>1, <1>3 DEF QueuesTyped
    <2> HIDE DEF i, m
    <2>2. /\ i \in DOMAIN queues[b] /\ p = queues[b][i] /\ c.first = FirstRemoved(b, i)
          /\ c.last = i
          /\ \A j \in 1 .. i - 1 :
               queues[b][j].type # "ACTIVATE" => queues[b][j].row # queues[b][i].row
      <3>1. QueueCommand(c, b, i)
        BY <1>7 DEF i, m
      <3>2. QED
        BY <3>1 DEF QueueCommand
    <2>3. queues[b][m].row = p.row
      <3>1. queues[b][i].type = "ACTIVATE"
        BY <1>7, <2>2
      <3>2. queues[b][i + 1].row = queues[b][i].row
        BY <1>1, <2>2, <3>1 DEF Shape, Paired
      <3>3. QED
        BY <2>1, <2>2, <3>2
    <2>4. Open(b)' /\ banks'[b].row = p.row
      BY <1>2, <1>7, IssuedIs DEF Open
    <2>5. accesses'[b] = 0
      <3>1. accesses[b] = 0
        BY <1>7, IssuableIs DEF RowInv, Unused
      <3>2. ~(c.first < c.last)
        BY <1>7, CommandIs DEF Columns
      <3>3. QED
        BY <1>2, <1>5, <1>7, <3>1, <3>2 DEF Takes
    <2>6. ASSUME NEW j \in 1 .. k - 1 PROVE queues'[b][j].row # p.row
      <3> DEFINE n == Was(c, b, j)
      <3>1. /\ n \in 1 .. m - 1 /\ n \in DOMAIN queues[b] /\ queues'[b][j] = queues[b][n]
            /\ n \notin c.first .. c.last
        BY <1>4, <1>7 DEF m
      <3> HIDE DEF n
      <3>2. i \in c.first .. c.last
        <4>1. c.first \in {i - 1, i}
          BY <2>2 DEF FirstRemoved
        <4>2. QED
          BY <2>1, <2>2, <4>1
      <3>3. n \in 1 .. i - 1
        <4>1. n # i
          BY <3>1, <3>2
        <4>2. QED
          BY <2>1, <3>1, <4>1
      <3>4. CASE queues[b][n].type # "ACTIVATE"
        BY <2>2, <3>1, <3>3, <3>4
      <3>5. CASE queues[b][n].type = "ACTIVATE"
        <4>1. /\ queues[b][n + 1].type \in Columns
              /\ queues[b][n + 1].row = queues[b][n].row
          BY <1>1, <3>1, <3>5 DEF Shape, Paired
        <4>2. queues[b][n + 1].type # "ACTIVATE"
          BY <4>1 DEF Columns
        <4>3. n + 1 # i
          BY <1>7, <2>2, <4>2
        <4>4. n + 1 \in 1 .. i - 1
          BY <2>1, <3>3, <4>3
        <4>5. QED
          BY <2>2, <3>1, <4>1, <4>2, <4>4
      <3>6. QED
        BY <3>4, <3>5
    <2>7. queues'[b][k].row = p.row
      BY <1>3, <2>3 DEF m
    <2>8. QED
      BY <2>4, <2>5, <2>6, <2>7
  <1>8. QED
    BY <1>2, <1>6, <1>7, Stays DEF Takes

(* A bank that is closed has no count.                                     *)
LEMMA PopUnused ==
  ASSUME TypeInv, RowInv, pc = "pop", NEW c \in Popped, Takes(c)
  PROVE  Unused'
  <1> SUFFICES ASSUME NEW b \in Banks, ~Open(b)' PROVE accesses'[b] = 0
    BY DEF Unused
  <1> DEFINE d == c.packet.bank
             p == c.packet
  <1>1. BanksOk /\ now \in Nat /\ p \in Packet /\ p.type \in Types /\ d \in Banks
        /\ banks'[b] = Issued(p)[b]
    BY CommandIs DEF Takes, TypeInv, ClocksOk, PacketOk, Packet
  <1>2. accesses \in [Banks -> 0 .. TOTAL_ROW_ACCESSES]
    BY DEF TypeInv, CountsOk
  <1>3. accesses'[b] = IF b # d THEN accesses[b]
                       ELSE IF p.type = "PRECHARGE" THEN 0
                       ELSE IF c.first < c.last THEN accesses[b] + 1 ELSE accesses[b]
    BY <1>1, <1>2 DEF Takes
  <1>4. ~Open(b) => accesses[b] = 0
    BY DEF RowInv, Unused
  <1>5. CASE p.type \in Columns
    <2>1. ~Open(b)
      BY <1>1, <1>5, IssuedIs DEF Open
    <2>2. b # d
      BY <1>5, <2>1, IssuableIs
    <2>3. QED
      BY <1>3, <1>4, <2>1, <2>2
  <1>6. CASE p.type = "ACTIVATE"
    <2>1. b # d
      BY <1>1, <1>6, IssuedIs DEF Open
    <2>2. ~Open(b)
      BY <1>1, <1>6, <2>1, IssuedIs DEF Open
    <2>3. QED
      BY <1>3, <1>4, <2>1, <2>2
  <1>7. CASE p.type = "PRECHARGE"
    <2>1. b # d => ~Open(b)
      BY <1>1, <1>7, IssuedIs DEF Open
    <2>2. QED
      BY <1>3, <1>4, <1>7, <2>1
  <1>8. CASE p.type = "REFRESH"
    <2>1. ~Open(b) /\ ~(c.first < c.last)
      BY <1>8, IssuableIs, CommandIs DEF Columns
    <2>2. QED
      BY <1>3, <1>4, <1>8, <2>1
  <1>9. QED
    BY <1>1, <1>5, <1>6, <1>7, <1>8 DEF Types

(* The invariant after pop(), in a cycle begun after the last hand-over.   *)
LEMMA RowTakes ==
  ASSUME TypeInv, TypeInv', RowInv, now <= clock, pc = "pop", NEW c \in Popped, Takes(c),
         pc' = "send", command' = c.packet,
         UNCHANGED <<clock, draining, events, now>>
  PROVE  RowInv'
  <1> DEFINE p == c.packet
  <1>1. BanksOk /\ now \in Nat /\ clock \in Nat /\ p \in Packet /\ p.bank \in Banks
        /\ banks' = Issued(p)
    BY CommandIs DEF Takes, TypeInv, ClocksOk, PacketOk
  <1>2. ASSUME NEW e \in events, Closes(e.packet)
        PROVE  /\ clock < Till(e) /\ Till(e) \in Int /\ e.packet.bank \in Banks
               /\ Closing(e.packet, Till(e))
               /\ \A b \in Banks : Barred(b, Till(e)) =>
                    /\ Barred(b, Till(e))' /\ banks'[b].last = banks[b].last
                    /\ ~Open(b) /\ now < banks[b].nextActivate
    <2>1. Before(Till(e)) /\ Closing(e.packet, Till(e))
      BY <1>2 DEF RowInv, ClosersOk
    <2>2. Till(e) \in Int /\ e.packet.bank \in Banks
      BY <1>2, CloserIs
    <2>3. clock < Till(e)
      <3> DEFINE t == Till(e)
      <3>1. clock < t \/ clock + 1 < t
        BY <2>1 DEF Before
      <3>2. t \in Int
        BY <2>2
      <3> HIDE DEF t
      <3>3. clock < t
        BY <1>1, <3>1, <3>2
      <3>4. QED
        BY <3>3 DEF t
    <2>4. ASSUME NEW b \in Banks, Barred(b, Till(e))
          PROVE  /\ Barred(b, Till(e))' /\ banks'[b].last = banks[b].last
                 /\ ~Open(b) /\ now < banks[b].nextActivate
      <3> DEFINE t == Till(e)
                 x == banks[b].nextActivate
      <3>1. t \in Int /\ clock < t /\ Barred(b, t)
        BY <2>2, <2>3, <2>4
      <3>2. x \in Nat /\ t <= x /\ ~Open(b)
        BY <1>1, <3>1, BankIs DEF Barred
      <3> HIDE DEF t
      <3>3. Barred(b, t)' /\ banks'[b].last = banks[b].last
        <4>1. PICK s \in Int : s = t
          BY <3>1
        <4>2. Barred(b, s)' /\ banks'[b].last = banks[b].last
          BY <3>1, <4>1, IssuedBarred
        <4>3. t' = t
          BY DEF t, Till
        <4>4. QED
          BY <4>1, <4>2, <4>3 DEF Barred
      <3> HIDE DEF x
      <3>4. now < x
        BY <1>1, <3>1, <3>2
      <3>5. QED
        BY <3>2, <3>3, <3>4 DEF t, x
    <2>5. QED
      BY <2>1, <2>2, <2>3, <2>4
  <1>3. ASSUME NEW e \in events, Closes(e.packet)
        PROVE  /\ Before(Till(e))' /\ Till(e) <= clock' + Lasts(e.packet.type)
               /\ Closing(e.packet, Till(e))'
               /\ e.kind = "update" => banks'[e.packet.bank].last = e.packet.type
    <2>1. /\ Before(Till(e)) /\ Till(e) <= clock + Lasts(e.packet.type)
          /\ e.kind = "update" => banks[e.packet.bank].last = e.packet.type
      BY <1>3 DEF RowInv, ClosersOk
    <2>2. /\ Closing(e.packet, Till(e)) /\ e.packet.bank \in Banks
          /\ \A b \in Banks : Barred(b, Till(e)) =>
               Barred(b, Till(e))' /\ banks'[b].last = banks[b].last
      BY <1>2, <1>3
    <2>3. Closing(e.packet, Till(e))' /\ banks'[e.packet.bank].last = banks[e.packet.bank].last
      BY <1>3, <2>2 DEF Closing, Closes
    <2>4. Before(Till(e))'
      BY <2>1 DEF Before, Till
    <2>5. QED
      BY <2>1, <2>3, <2>4
  <1>4. ClosersOk'
    <2>1. ASSUME NEW e \in events, Closes(e.packet), e.packet.type = "REFRESH"
          PROVE  \A f \in events : Closes(f.packet) => f.packet.type = "REFRESH"
      BY <2>1 DEF RowInv, ClosersOk
    <2>2. QED
      BY <1>3, <2>1 DEF ClosersOk, Till
  <1>5. HandOk'
    <2>1. SUFFICES ASSUME Closes(p)
          PROVE  /\ Closing(p, now + Lasts(p.type))'
                 /\ banks'[p.bank].last = p.type
                 /\ \A e \in events : Closes(e.packet) =>
                      p.type = "PRECHARGE" /\ e.packet.type = "PRECHARGE"
      BY DEF HandOk, Lasts, Closing, Barred, Open
    <2>2. CASE p.type = "PRECHARGE"
      <3>1. /\ Issued(p)[p.bank].state = "PRECHARGING" /\ Issued(p)[p.bank].last = "PRECHARGE"
            /\ now + tRP <= Issued(p)[p.bank].nextActivate
        BY <1>1, <2>2, IssuedIs
      <3>2. Open(p.bank)
        BY <2>2, IssuableIs
      <3>3. ASSUME NEW e \in events, Closes(e.packet) PROVE e.packet.type = "PRECHARGE"
        <4>1. SUFFICES ASSUME e.packet.type = "REFRESH" PROVE FALSE
          BY <3>3 DEF Closes
        <4>2. Barred(p.bank, Till(e))
          BY <1>1, <1>2, <3>3, <4>1 DEF Closing
        <4>3. QED
          BY <3>2, <4>2 DEF Barred
      <3>4. QED
        BY <1>1, <2>2, <3>1, <3>3 DEF Closing, Barred, Open, Lasts
    <2>3. CASE p.type = "REFRESH"
      <3>1. \A b \in Banks : /\ Issued(p)[b].state = "REFRESHING" /\ Issued(p)[b].last = "REFRESH"
                             /\ Issued(p)[b].nextActivate = now + tRFC
        BY <1>1, <2>3, IssuedIs
      <3>2. now + tRFC <= now + tRFC
        BY <1>1, Numbers
      <3>3. ASSUME NEW e \in events, Closes(e.packet) PROVE FALSE
        <4>1. PICK b \in Banks : Barred(b, Till(e))
          BY <1>2, <3>3 DEF Closes, Closing
        <4>2. now < banks[b].nextActivate
          BY <1>2, <3>3, <4>1
        <4>3. QED
          BY <2>3, <4>2, IssuableIs
      <3>4. QED
        BY <1>1, <2>3, <3>1, <3>2, <3>3 DEF Closing, Barred, Open, Lasts
    <2>4. QED
      BY <2>1, <2>2, <2>3 DEF Closes
  <1>6. QED
    BY <1>4, <1>5, PopHeads, PopUnused DEF RowInv

(* The invariant while queues, counters and banks stay as they are.        *)
LEMMA RowSame ==
  ASSUME TypeInv, RowInv,
         UNCHANGED <<banks, events, queues, accesses, torn>>, clock' \in Nat, clock <= clock',
         \A e \in events : Closes(e.packet) /\ Before(Till(e)) => Before(Till(e))',
         pc' # "send" \/ (UNCHANGED <<pc, command, now>> /\ (core0' = clears' => core0 = clears))
  PROVE  RowInv'
  <1>1. clock \in Nat /\ now \in Nat /\ tRP \in Nat /\ tRFC \in Nat /\ clock' \in Nat
        /\ clock <= clock'
    BY Numbers DEF TypeInv, ClocksOk
  <1>2. Heads' /\ Unused'
    BY DEF RowInv, Heads, Unused, Uncovered, Open
  <1>3. ASSUME NEW e \in events, Closes(e.packet)
        PROVE  /\ Before(Till(e))' /\ Till(e) <= clock' + Lasts(e.packet.type)
               /\ Closing(e.packet, Till(e))'
               /\ e.kind = "update" => banks'[e.packet.bank].last = e.packet.type
    <2>1. /\ Before(Till(e)) /\ Till(e) <= clock + Lasts(e.packet.type)
          /\ Closing(e.packet, Till(e))
          /\ e.kind = "update" => banks[e.packet.bank].last = e.packet.type
      BY <1>3 DEF RowInv, ClosersOk
    <2>2. Till(e) <= clock' + Lasts(e.packet.type)
      <3> DEFINE t == Till(e)
                 n == Lasts(e.packet.type)
      <3>1. t \in Int /\ n \in Nat /\ t <= clock + n
        BY <1>3, <2>1, CloserIs
      <3> HIDE DEF t, n
      <3>2. \A x, y, z, u \in Int : x <= y + u /\ y <= z => x <= z + u
        OBVIOUS
      <3>3. clock \in Int /\ clock' \in Int /\ n \in Int
        BY <1>1, <3>1
      <3>4. t <= clock' + n
        BY <1>1, <3>1, <3>2, <3>3, Zenon
      <3>5. QED
        BY <3>4 DEF t, n
    <2>3. Closing(e.packet, Till(e))'
      BY <2>1 DEF Closing, Barred, Open, Till
    <2>4. QED
      BY <1>3, <2>1, <2>2, <2>3
  <1>4. ClosersOk'
    <2>1. ASSUME NEW e \in events, Closes(e.packet), e.packet.type = "REFRESH"
          PROVE  \A f \in events : Closes(f.packet) => f.packet.type = "REFRESH"
      BY <2>1 DEF RowInv, ClosersOk
    <2>2. QED
      BY <1>3, <2>1 DEF ClosersOk, Till
  <1>5. HandOk'
    <2>1. CASE pc' # "send"
      BY <2>1 DEF HandOk, InTime
    <2>2. CASE UNCHANGED <<pc, command, now>> /\ (core0' = clears' => core0 = clears)
      <3>1. InTime' => InTime
        <4> DEFINE n == now + Lasts(command.type)
        <4>1. n \in Nat
          BY <1>1 DEF Lasts
        <4> HIDE DEF n
        <4>2. \A x, y \in Nat : x <= y => \A z \in Nat : y + 1 < z => x + 1 < z
          OBVIOUS
        <4>3. clock' + 1 < n => clock + 1 < n
          BY <1>1, <4>1, <4>2, Zenon
        <4>4. QED
          BY <2>2, <4>3 DEF InTime, n, Lasts
      <3>2. QED
        BY <2>2, <3>1 DEF RowInv, HandOk, Closing, Barred, Open, Closes, Lasts
    <2>3. QED
      BY <2>1, <2>2
  <1>6. QED
    BY <1>2, <1>4, <1>5 DEF RowInv

(* A stale cycle pops nothing.                                             *)
LEMMA StalePops ==
  ASSUME StaleInv, core0 # clears, pc = "pop"
  PROVE  Popped = {}
  <1>1. /\ ~refreshWaiting /\ refreshCount = RefreshPeriod
        /\ \A b \in Banks : queues[b] = <<>> /\ ~Open(b)
    BY DEF StaleInv
  <1>2. ~NeedRefresh
    BY <1>1, Numbers DEF NeedRefresh
  <1>3. \A b \in Banks : Ready(b) = {}
    BY <1>1 DEF Ready
  <1>4. ForRequest = {}
    BY <1>3 DEF ForRequest
  <1>5. ForClosing = {}
    BY <1>1 DEF ForClosing
  <1>6. QED
    BY <1>2, <1>4, <1>5 DEF Popped

(* pop() keeps the invariant.                                              *)
LEMMA RowPop ==
  ASSUME TypeInv, TypeInv', ReadInv, StaleInv, RowInv, Pop
  PROVE  RowInv'
  <1>1. UNCHANGED <<clock, draining, events, now, core0, clears, torn>> /\ clock \in Nat
    <2>1. UNCHANGED <<clock, draining, clears, events, now, core0, torn>>
      BY Zenon DEF Pop, clocks, history
    <2>2. clock \in 0 .. MaxClock
      BY Zenon DEF TypeInv, ClocksOk
    <2>3. QED
      BY <2>1, <2>2, Numbers
  <1>2. CASE pc' = "enqueue" /\ UNCHANGED <<queues, accesses, banks>>
    <2>1. \A e \in events : Before(Till(e)) => Before(Till(e))'
      BY <1>1 DEF Before, Till
    <2>2. clock' \in Nat /\ clock <= clock'
      BY <1>1
    <2>3. QED
      BY <1>1, <1>2, <2>1, <2>2, RowSame
  <1>3. CASE \E c \in Popped : pc' = "send" /\ command' = c.packet /\ Takes(c)
    <2>1. PICK c \in Popped : pc' = "send" /\ command' = c.packet /\ Takes(c)
      BY <1>3
    <2>2. core0 = clears
      <3>1. pc = "pop"
        BY DEF Pop
      <3>2. QED
        BY <3>1, StalePops
    <2>3. now <= clock
      BY <2>2 DEF ReadInv
    <2>4. QED
      BY <1>1, <2>1, <2>3, RowTakes DEF Pop
  <1>4. QED
    BY <1>1, <1>2, <1>3 DEF Pop, Takes, CutOut

(* A command that is sent in time keeps it.                                *)
LEMMA RowSend ==
  ASSUME TypeInv, TypeInv', ReadInv, RowInv, Send, ~late'
  PROVE  RowInv'
  <1>1. /\ pc = "send" /\ pc' = "enqueue" /\ UNCHANGED <<clocks, queueVars, banks, core0, now, torn>>
        /\ \A e \in StateUpdates(command) : ~(e.time <= clock)
        /\ now \in Nat /\ clock \in Nat /\ tRP \in Nat \ {0} /\ tRFC \in Nat \ {0} /\ tCMD \in Nat
        /\ command \in Packet
    <2>1. /\ pc = "send" /\ pc' = "enqueue" /\ UNCHANGED <<clocks, queueVars, banks, core0, now, torn>>
          /\ late' = (late \/ \E e \in StateUpdates(command) : e.time <= clock)
      BY DEF Send
    <2>2. \A e \in StateUpdates(command) : ~(e.time <= clock)
      BY <2>1, Zenon
    <2>3. QED
      BY <2>1, <2>2, Numbers DEF TypeInv, ClocksOk, CommandOk, PacketOk
  <1>2. /\ clock' = clock /\ draining' = draining /\ clears' = clears /\ queues' = queues
        /\ accesses' = accesses /\ clock <= clock'
    BY <1>1 DEF clocks, queueVars
  <1>3. CASE events' = events
    <2>1. \A e \in events : Before(Till(e)) => Before(Till(e))'
      BY <1>2 DEF Before, Till
    <2>2. QED
      BY <1>1, <1>2, <1>3, <2>1, RowSame
  <1>4. CASE /\ core0 = clears
             /\ events' = events \cup {Event(now + tCMD, "command", command)} \cup StateUpdates(command)
    <2> DEFINE n == Lasts(command.type)
               t == now + n
    <2>1. n \in Nat \ {0} /\ t \in Nat
      BY <1>1 DEF Lasts
    <2>2. now <= clock
      BY <1>4 DEF ReadInv
    <2>3. ASSUME Closes(command) PROVE clock + 1 < t
      <3>1. Event(t - 1, "update", command) \in StateUpdates(command)
        <4>1. CASE command.type = "PRECHARGE"
          <5>1. StateUpdates(command) = {Event(now + tRP - 1, "update", command)}
            BY <4>1 DEF StateUpdates
          <5>2. n = tRP
            BY <4>1 DEF Lasts
          <5> HIDE DEF n
          <5>3. t - 1 = now + tRP - 1
            BY <1>1, <5>2
          <5> HIDE DEF t
          <5>4. QED
            BY <5>1, <5>3
        <4>2. CASE command.type = "REFRESH"
          <5>1. StateUpdates(command) = {Event(now + tRFC - 1, "update", command)}
            BY <4>2 DEF StateUpdates
          <5>2. n = tRFC
            BY <4>2 DEF Lasts
          <5> HIDE DEF n
          <5>3. t - 1 = now + tRFC - 1
            BY <1>1, <5>2
          <5> HIDE DEF t
          <5>4. QED
            BY <5>1, <5>3
        <4>3. QED
          BY <2>3, <4>1, <4>2 DEF Closes
      <3>2. ~(t - 1 <= clock)
        BY <1>1, <3>1 DEF Event
      <3> HIDE DEF t
      <3>3. QED
        BY <1>1, <2>1, <3>2
    <2>4. ASSUME Closes(command)
          PROVE  /\ Closing(command, t) /\ banks[command.bank].last = command.type
                 /\ \A e \in events : Closes(e.packet) =>
                      command.type = "PRECHARGE" /\ e.packet.type = "PRECHARGE"
      BY <1>1, <1>4, <2>3, <2>4 DEF RowInv, HandOk, InTime
    <2>5. ASSUME NEW e \in events', Closes(e.packet), e \notin events
          PROVE  /\ e.packet = command /\ Till(e) = t
      <3>1. \/ e = Event(now + tCMD, "command", command)
            \/ command.type = "PRECHARGE" /\ e = Event(now + tRP - 1, "update", command)
            \/ command.type = "REFRESH" /\ e = Event(now + tRFC - 1, "update", command)
        BY <1>4, <2>5 DEF StateUpdates
      <3>2. CASE e = Event(now + tCMD, "command", command)
        <4>1. e.packet = command /\ e.kind = "command" /\ e.time = now + tCMD
          BY <3>2 DEF Event
        <4>2. Till(e) = e.time - tCMD + n
          BY <4>1 DEF Till
        <4> HIDE DEF n
        <4>3. Till(e) = now + n
          BY <1>1, <2>1, <4>1, <4>2
        <4>4. QED
          BY <4>1, <4>3
      <3>3. CASE command.type = "PRECHARGE" /\ e = Event(now + tRP - 1, "update", command)
        BY <1>1, <3>3 DEF Event, Till, Lasts
      <3>4. CASE command.type = "REFRESH" /\ e = Event(now + tRFC - 1, "update", command)
        BY <1>1, <3>4 DEF Event, Till, Lasts
      <3>5. QED
        BY <3>1, <3>2, <3>3, <3>4
    <2>6. t <= clock + n /\ (clock + 1 < t => clock < t)
      <3> HIDE DEF n
      <3>1. QED
        BY <1>1, <2>1, <2>2
    <2> HIDE DEF t, n
    <2>7. ASSUME NEW e \in events', Closes(e.packet)
          PROVE  /\ Before(Till(e)) /\ Till(e) <= clock + Lasts(e.packet.type)
                 /\ Closing(e.packet, Till(e))
                 /\ e.kind = "update" => banks[e.packet.bank].last = e.packet.type
                 /\ e.packet.type = "REFRESH" =>
                      \A f \in events' : Closes(f.packet) => f.packet.type = "REFRESH"
      <3>1. CASE e \in events
        <4>1. /\ Before(Till(e)) /\ Till(e) <= clock + Lasts(e.packet.type)
              /\ Closing(e.packet, Till(e))
              /\ e.kind = "update" => banks[e.packet.bank].last = e.packet.type
              /\ e.packet.type = "REFRESH" =>
                      \A f \in events : Closes(f.packet) => f.packet.type = "REFRESH"
          BY <2>7, <3>1 DEF RowInv, ClosersOk
        <4>2. Closes(command) => e.packet.type = "PRECHARGE"
          BY <2>4, <2>7, <3>1
        <4>3. \A f \in events' : Closes(f.packet) /\ f \notin events => Closes(command)
          BY <2>5
        <4>4. QED
          BY <4>1, <4>2, <4>3
      <3>2. CASE e \notin events
        <4>1. e.packet = command /\ Till(e) = t /\ Closes(command)
          BY <2>5, <2>7, <3>2
        <4>2. Closing(command, t) /\ banks[command.bank].last = command.type
          BY <2>4, <4>1
        <4>3. Before(t) /\ t <= clock + n
          BY <2>3, <2>6, <4>1 DEF Before
        <4>4. ASSUME command.type = "REFRESH", NEW f \in events', Closes(f.packet)
              PROVE  f.packet.type = "REFRESH"
          <5>1. f \notin events
            BY <2>4, <4>1, <4>4
          <5>2. QED
            BY <2>5, <4>4, <5>1
        <4>5. QED
          BY <4>1, <4>2, <4>3, <4>4 DEF n
      <3>3. QED
        BY <3>1, <3>2
    <2>8. ClosersOk'
      BY <1>1, <1>2, <2>7 DEF ClosersOk, Before, Till, Closing, Barred, Open
    <2>9. Heads' /\ Unused'
      BY <1>1, <1>2 DEF RowInv, Heads, Unused, Uncovered, Open
    <2>10. HandOk'
      BY <1>1 DEF HandOk, InTime
    <2>11. QED
      BY <2>8, <2>9, <2>10 DEF RowInv
  <1>5. QED
    BY <1>3, <1>4 DEF Send

(* One command more in a queue does not open or wait for anything: its     *)
(* ACTIVATE is right before it, or was torn from it.                       *)
LEMMA RowEnqueue ==
  ASSUME TypeInv, TypeInv', RowInv, NEW p \in Packet, Enqueue(p), pc' # "send",
         p.type \in Columns =>
           \/ p.id \in torn
           \/ Len(queues[p.bank]) # 0 /\ queues[p.bank][Len(queues[p.bank])].type = "ACTIVATE"
  PROVE  RowInv'
  <1> DEFINE d == p.bank
             n == Len(queues[d])
  <1>1. UNCHANGED <<clocks, events, accesses, banks, torn>>
    BY DEF Enqueue, history
  <1>2. clock \in Nat /\ clock' = clock /\ clock' \in Nat /\ draining' = draining /\ clock <= clock'
    BY <1>1, Numbers DEF clocks, TypeInv, ClocksOk
  <1>3. /\ d \in Banks /\ \A b \in Banks : b # d => queues'[b] = queues[b]
        /\ n \in Nat /\ DOMAIN queues[d] = 1 .. n /\ DOMAIN queues'[d] = 1 .. n + 1
        /\ \A k \in 1 .. n : queues'[d][k] = queues[d][k]
        /\ queues'[d][n + 1] = p
    BY Appended
  <1>4. p.type \in Columns => p.id \in torn \/ (n # 0 /\ queues[d][n].type = "ACTIVATE")
    OBVIOUS
  <1> HIDE DEF d, n
  <1>5. ASSUME NEW b \in Banks, NEW k \in DOMAIN queues'[b], Uncovered(b, k)'
        PROVE  /\ Open(b)' /\ banks'[b].row = queues'[b][k].row /\ accesses'[b] = 0
               /\ \A j \in 1 .. k - 1 : queues'[b][j].row # queues'[b][k].row
    <2>1. CASE b # d
      <3>1. queues'[b] = queues[b]
        BY <1>3, <2>1
      <3>2. Uncovered(b, k) /\ k \in DOMAIN queues[b]
        BY <1>1, <1>5, <3>1 DEF Uncovered
      <3>3. QED
        BY <1>1, <3>1, <3>2 DEF RowInv, Heads, Open
    <2>2. CASE b = d
      <3>1. k \in 1 .. n + 1
        BY <1>3, <2>2
      <3>2. /\ queues'[d][k].type \in Columns /\ queues'[d][k].id \notin torn
            /\ k = 1 \/ queues'[d][k - 1].type # "ACTIVATE"
        BY <1>1, <1>5, <2>2 DEF Uncovered
      <3>3. k # n + 1
        <4>1. SUFFICES ASSUME k = n + 1 PROVE FALSE
          OBVIOUS
        <4>2. n # 0 /\ queues[d][n].type = "ACTIVATE"
          BY <1>3, <1>4, <3>2, <4>1
        <4>3. k - 1 = n /\ k # 1 /\ n \in 1 .. n
          BY <1>3, <4>1, <4>2
        <4>4. QED
          BY <1>3, <3>2, <4>2, <4>3
      <3>4. k \in 1 .. n
        BY <1>3, <3>1, <3>3
      <3>5. /\ \A j \in 1 .. k - 1 : j \in 1 .. n
            /\ k = 1 \/ k - 1 \in 1 .. n
        BY <1>3, <3>4
      <3>6. Uncovered(b, k) /\ k \in DOMAIN queues[b]
        BY <1>3, <2>2, <3>2, <3>4, <3>5 DEF Uncovered
      <3>7. /\ Open(b) /\ banks[b].row = queues[d][k].row /\ accesses[b] = 0
            /\ \A j \in 1 .. k - 1 : queues[d][j].row # queues[d][k].row
        BY <2>2, <3>6 DEF RowInv, Heads
      <3>8. QED
        BY <1>1, <1>3, <2>2, <3>4, <3>5, <3>7 DEF Open
    <2>3. QED
      BY <2>1, <2>2
  <1>6. Heads' /\ Unused'
    BY <1>1, <1>5 DEF RowInv, Heads, Unused, Open
  <1>7. ClosersOk'
    BY <1>1, <1>2 DEF RowInv, ClosersOk, Before, Till, Closing, Barred, Open
  <1>8. HandOk'
    BY DEF HandOk, InTime
  <1>9. QED
    BY <1>6, <1>7, <1>8 DEF RowInv

(* So it is for the two commands of a request.                             *)
LEMMA RowEnqueues ==
  ASSUME TypeInv, TypeInv', RowInv, EnqueueActivate \/ EnqueueColumn
  PROVE  RowInv'
  <1>1. CASE EnqueueActivate
    <2>1. pc = "activate" /\ pc' = "column" /\ Enqueue(Activate(taken))
      BY <1>1 DEF EnqueueActivate
    <2>2. Activate(taken) \in Packet /\ Activate(taken).type \notin Columns
      BY ActivateIs DEF TypeInv, TakenTyped, Columns
    <2>3. QED
      BY <2>1, <2>2, RowEnqueue
  <1>2. CASE EnqueueColumn
    <2>1. pc = "column" /\ pc' = "remove" /\ Enqueue(taken) /\ taken \in Packet
      BY <1>2 DEF EnqueueColumn, TypeInv, TakenTyped
    <2>2. \/ taken.id \in torn
          \/ /\ Len(queues[taken.bank]) \in DOMAIN queues[taken.bank]
             /\ queues[taken.bank][Len(queues[taken.bank])] = Activate(taken)
      BY <2>1 DEF TypeInv, HalfOk
    <2>3. DOMAIN queues[taken.bank] = 1 .. Len(queues[taken.bank])
      BY <2>1, Appended
    <2>4. QED
      BY <2>1, <2>2, <2>3, ActivateIs, RowEnqueue
  <1>3. QED
    BY <1>1, <1>2

(* A hand-over leaves nothing that waits.                                  *)
LEMMA RowClear ==
  ASSUME TypeInv, Clear
  PROVE  RowInv' /\ StaleInv'
  <1>1. /\ clears' = clears + 1 /\ events' = {} /\ core0' = core0
        /\ queues' = [b \in Banks |-> <<>>] /\ accesses' = [b \in Banks |-> 0]
        /\ banks' = [b \in Banks |-> FreshBank]
        /\ refreshWaiting' = FALSE /\ refreshCount' = RefreshPeriod
    BY DEF Clear
  <1>2. core0' # clears'
    <2>1. core0 \in 0 .. clears /\ clears \in Nat
      BY Numbers DEF TypeInv, ClocksOk
    <2>2. QED
      BY <1>1, <2>1
  <1>3. \A b \in Banks : queues'[b] = <<>> /\ accesses'[b] = 0 /\ ~Open(b)'
    BY <1>1 DEF Open, FreshBank
  <1>4. Heads' /\ Unused'
    BY <1>3 DEF Heads, Unused
  <1>5. ClosersOk' /\ HandOk'
    BY <1>1, <1>2 DEF ClosersOk, HandOk, InTime
  <1>6. StaleInv'
    BY <1>1, <1>3 DEF StaleInv
  <1>7. QED
    BY <1>4, <1>5, <1>6 DEF RowInv

(* The clock goes on when all events up to it are handled.                 *)
LEMMA RowClock ==
  ASSUME TypeInv, TypeInv', RowInv, EndEvents \/ Tick
  PROVE  RowInv'
  <1>1. /\ UNCHANGED <<torn, banks, events, queues, accesses, pc, command, now, core0, clears>>
        /\ \/ draining /\ ~draining' /\ clock' = clock /\ \A e \in events : e.time > clock
           \/ ~draining /\ draining' /\ clock' = clock + 1
    BY DEF EndEvents, Tick, clocks, queueVars, thread, history
  <1>2. clock \in Nat /\ clock' \in Nat /\ clock <= clock'
    <2>1. clock \in Nat /\ clock' \in Nat
      BY Numbers DEF TypeInv, ClocksOk
    <2>2. QED
      BY <1>1, <2>1
  <1>3. ASSUME NEW e \in events, Closes(e.packet), Before(Till(e)) PROVE Before(Till(e))'
    <2>1. e.time \in Nat /\ Till(e) \in Int /\ e.time < Till(e) /\ Till(e)' = Till(e)
      BY <1>3, CloserIs DEF Till
    <2>2. CASE draining
      <3>1. e.time > clock /\ clock' = clock /\ ~draining'
        BY <1>1, <2>2
      <3>2. clock' + 1 < Till(e)
        BY <1>2, <2>1, <3>1
      <3>3. QED
        BY <2>1, <3>1, <3>2 DEF Before
    <2>3. CASE ~draining
      <3>1. clock' = clock + 1 /\ draining' /\ clock + 1 < Till(e)
        BY <1>1, <1>3, <2>3 DEF Before
      <3>2. QED
        BY <2>1, <3>1 DEF Before
    <2>4. QED
      BY <2>2, <2>3
  <1>4. QED
    BY <1>1, <1>2, <1>3, RowSame

(* The steps of the DRAM thread that touch neither command queues nor      *)
(* banks, and a request.                                                   *)
LEMMA RowIdle ==
  ASSUME TypeInv, TypeInv', RowInv,
         \/ StartCycle \/ Take \/ Shift \/ Cut \/ Removed \/ EndCycle
         \/ (\E r \in Requests : Receive(r)) \/ UNCHANGED vars
  PROVE  RowInv'
  <1>1. /\ UNCHANGED <<banks, events, queues, accesses, clock, draining, clears, torn>>
        /\ pc' # "send" \/ UNCHANGED <<pc, command, now, core0>>
    <2>1. CASE Take \/ Shift \/ Cut \/ Removed
      BY <2>1 DEF Take, Shift, Cut, Removed, clocks, queueVars, history
    <2>2. CASE StartCycle \/ EndCycle
      BY <2>2 DEF StartCycle, EndCycle, clocks, queueVars, history
    <2>3. CASE (\E r \in Requests : Receive(r)) \/ UNCHANGED vars
      BY <2>3 DEF Receive, vars, clocks, queueVars, thread, history
    <2>4. QED
      BY <2>1, <2>2, <2>3
  <1>2. clock \in Nat /\ clock' \in Nat /\ clock <= clock'
    BY <1>1, Numbers DEF TypeInv, ClocksOk
  <1>3. \A e \in events : Before(Till(e)) => Before(Till(e))'
    BY <1>1 DEF Before, Till
  <1>4. QED
    BY <1>1, <1>2, <1>3, RowSame

(* A cycle that was begun before a hand-over does nothing with the banks,  *)
(* which are as new until it has ended.                                    *)
LEMMA StaleKept ==
  ASSUME TypeInv, StaleInv, [Next]_vars
  PROVE  StaleInv'
  <1>1. CASE Clear
    BY <1>1, RowClear
  <1>2. CASE StartCycle \/ Send \/ Placing \/ EndCycle
    <2>1. core0' = clears' \/ pc' \notin {"pop", "send"}
      <3>1. CASE Placing
        BY <3>1, PlacingIs
      <3>2. CASE StartCycle \/ Send \/ EndCycle
        BY <3>2 DEF StartCycle, Send, EndCycle, clocks
      <3>3. QED
        BY <1>2, <3>1, <3>2
    <2>2. QED
      BY <2>1 DEF StaleInv
  <1>3. CASE Pop
    <2>1. pc = "pop" /\ UNCHANGED <<core0, clears>>
      BY <1>3 DEF Pop, clocks
    <2>2. CASE core0 = clears
      BY <2>1, <2>2 DEF StaleInv
    <2>3. CASE core0 # clears
      <3>1. Popped = {}
        BY <2>1, <2>3, StalePops
      <3>2. pc' = "enqueue"
        BY <1>3, <3>1 DEF Pop
      <3>3. QED
        BY <3>2 DEF StaleInv
    <2>4. QED
      BY <2>2, <2>3
  <1>4. CASE \E e \in events : Handler(e)
    <2>1. PICK e \in events : Handler(e)
      BY <1>4
    <2>2. UNCHANGED <<core0, clears, pc>>
      BY <2>1, HandlerIs DEF clocks, thread
    <2>3. QED
      BY <2>1, <2>2 DEF StaleInv
  <1>5. CASE EndEvents \/ Tick \/ (\E r \in Requests : Receive(r)) \/ UNCHANGED vars
    <2>1. UNCHANGED <<core0, clears, pc, events, refreshWaiting, refreshCount, queues, banks>>
      BY <1>5 DEF EndEvents, Tick, Receive, vars, clocks, queueVars, thread
    <2>2. QED
      BY <2>1 DEF StaleInv, Open
  <1>6. QED
    BY <1>1, <1>2, <1>3, <1>4, <1>5 DEF Next, Handler, Placing

(* The rows stay open as long as no update was sent late.                  *)
RowAll == StaleInv /\ (~late => RowInv)

(* That is so at first ...                                                 *)
LEMMA RowInit == Init => RowAll
  <1> SUFFICES ASSUME Init PROVE RowAll
    OBVIOUS
  <1>1. \A b \in Banks : queues[b] = <<>> /\ accesses[b] = 0 /\ ~Open(b)
    BY DEF Init, FreshController, FreshBank, Open
  <1>2. Heads /\ Unused
    BY <1>1 DEF Heads, Unused
  <1>3. events = {} /\ pc = "sleep"
    BY DEF Init
  <1>4. ClosersOk /\ HandOk /\ StaleInv
    BY <1>3 DEF ClosersOk, HandOk, InTime, StaleInv
  <1>5. QED
    BY <1>2, <1>4 DEF RowAll, RowInv

(* ... and stays so.                                                       *)
LEMMA RowInductive ==
  TypeInv /\ TypeInv' /\ ReadInv /\ RowAll /\ [Next]_vars => RowAll'
  <1> SUFFICES ASSUME TypeInv, TypeInv', ReadInv, RowAll, [Next]_vars PROVE RowAll'
    OBVIOUS
  <1>1. StaleInv'
    BY StaleKept DEF RowAll
  <1>2. late' = late \/ Send
    <2>1. CASE \E e \in events : Handler(e)
      BY <2>1, HandlerIs
    <2>2. CASE Placing
      BY <2>2, PlacingIs
    <2>3. CASE ~Placing /\ ~(\E e \in events : Handler(e))
      BY <2>3 DEF Next, Handler, Placing, StartCycle, Pop, EndCycle, EndEvents, Tick, Clear,
                  Receive, vars, history
    <2>4. QED
      BY <2>1, <2>2, <2>3
  <1>3. ASSUME ~late' PROVE RowInv'
    <2>1. ~late
      BY <1>2, <1>3 DEF Send
    <2>2. RowInv /\ StaleInv
      BY <2>1 DEF RowAll
    <2>3. CASE Pop
      BY <2>2, <2>3, RowPop
    <2>4. CASE Send
      BY <1>3, <2>2, <2>4, RowSend
    <2>5. CASE EnqueueActivate \/ EnqueueColumn
      BY <2>2, <2>5, RowEnqueues
    <2>6. CASE \E e \in events : Handler(e)
      BY <2>2, <2>6, RowHandler
    <2>7. CASE Clear
      BY <2>7, RowClear
    <2>8. CASE EndEvents \/ Tick
      BY <2>2, <2>8, RowClock
    <2>9. CASE \/ StartCycle \/ Take \/ Shift \/ Cut \/ Removed \/ EndCycle
               \/ (\E r \in Requests : Receive(r)) \/ UNCHANGED vars
      BY <2>2, <2>9, RowIdle
    <2>10. QED
      BY <2>3, <2>4, <2>5, <2>6, <2>7, <2>8, <2>9 DEF Next, Handler
  <1>4. QED
    BY <1>1, <1>3 DEF RowAll

(* It says more than is asked: a command without its ACTIVATE before it is *)
(* one whose ACTIVATE has been issued.                                     *)
LEMMA RowIsKept == TypeInv /\ RowAll => RowKept
  <1> SUFFICES ASSUME TypeInv, RowAll, ~late, NEW b \in Banks, NEW k \in DOMAIN queues[b],
                      queues[b][k].type \in Columns, queues[b][k].id \notin torn,
                      k = 1 \/ queues[b][k - 1] # Activate(queues[b][k])
               PROVE  Open(b) /\ banks[b].row = queues[b][k].row
    BY DEF RowKept
  <1>1. k = 1 \/ queues[b][k - 1].type # "ACTIVATE"
    <2>1. SUFFICES ASSUME k # 1, queues[b][k - 1].type = "ACTIVATE" PROVE FALSE
      OBVIOUS
    <2> DEFINE q == queues[b]
               a == q[k - 1]
               p == q[k]
    <2>2. /\ DOMAIN q = 1 .. Len(q) /\ Len(q) \in Nat
          /\ \A m \in DOMAIN q : q[m] \in Packet
      BY QueuesAre DEF TypeInv, QueuesOk, QueuesTyped
    <2>3. k - 1 \in DOMAIN q /\ (k - 1) + 1 = k /\ k - 1 # Len(q)
      BY <2>1, <2>2
    <2>4. Paired(q, k - 1) /\ a.bank = b /\ p.bank = b
      BY <2>1, <2>3 DEF TypeInv, QueuesOk, NearlyShape, HalfAt
    <2>5. a.type = "ACTIVATE" /\ a.id = p.id /\ a.row = p.row /\ a.bank = p.bank
          /\ a \in Packet /\ p \in Packet
      BY <2>1, <2>2, <2>3, <2>4 DEF Paired
    <2>6. a # Activate(p)
      BY <2>1
    <2> HIDE DEF a, p
    <2>7. a = Activate(p)
      BY <2>5 DEF Activate, Packet
    <2>8. QED
      BY <2>6, <2>7
  <1>2. Uncovered(b, k)
    BY <1>1 DEF Uncovered
  <1>3. QED
    BY <1>2 DEF RowAll, RowInv, Heads

(* No refresh and no precharge of the round robin closes a row that a      *)
(* column command in a queue was activated for, as long as the DRAM thread *)
(* sends its state updates in time and no hand-over came between its two   *)
(* enqueue() calls for it (CommandQueue.java, Rank.java).                  *)
THEOREM RowKeptCorrect == Spec => []RowKept
  <1>1. Spec => []RowAll
    BY TypeInit, TypeInductive, ReadAlways, RowInit, RowInductive, TypeAlways, PTL DEF Spec
  <1>2. QED
    BY <1>1, TypeAlways, RowIsKept, PTL

-----------------------------------------------------------------------------
(* Each request is in one place.                                           *)

(* Where request i may be.  Two places of the list do not count: that of   *)
(* the request that has been taken, and the one remove() has left over.    *)
Waits(i) ==
  \E k \in DOMAIN pending : pending[k].id = i /\ i # taken.id /\ ~(pc = "shift" /\ k = length)
InQueue(i) ==
  \E b \in Banks : \E k \in DOMAIN queues[b] : queues[b][k].id = i /\ queues[b][k].type \in Columns
InHand(i) ==
  \/ pc = "send" /\ command.id = i /\ command.type \in Columns
  \/ pc \in {"activate", "column"} /\ taken.id = i /\ taken.type \in Columns
InEvents(i) == \E e \in events : e.packet.id = i /\ e.packet.type \in Columns
At(i, x) ==
  \/ x = "waits" /\ Waits(i)
  \/ x = "queue" /\ InQueue(i)
  \/ x = "hand" /\ InHand(i)
  \/ x = "events" /\ InEvents(i)
  \/ x = "answered" /\ i \in answered
  \/ x = "written" /\ i \in written
  \/ x = "dropped" /\ i \in dropped
  \/ x = "lost" /\ i \in lost
OnlyAt(i, x) == \A y : At(i, y) <=> y = x
OnePlace(i) == \E x : OnlyAt(i, x)

(* A request is somewhere, and in one place unless it has been put twice   *)
(* into the list.                                                          *)
Good(i) == (\E x : At(i, x)) /\ (i \notin copied => OnePlace(i))

(* Such a request is once in each list ...                                 *)
WaitsOnce ==
  \A k, l \in DOMAIN pending :
    /\ ~(pc = "shift" /\ k = length) /\ ~(pc = "shift" /\ l = length)
    /\ pending[k].id = pending[l].id /\ pending[k].id \notin copied
    => k = l
QueuedOnce ==
  \A b, c \in Banks : \A k \in DOMAIN queues[b] : \A l \in DOMAIN queues[c] :
    /\ queues[b][k].type \in Columns /\ queues[c][l].type \in Columns
    /\ queues[b][k].id = queues[c][l].id /\ queues[b][k].id \notin copied
    => b = c /\ k = l
EventsOnce ==
  \A e, f \in events :
    /\ e.packet.type \in Columns /\ f.packet.type \in Columns
    /\ e.packet.id = f.packet.id /\ e.packet.id \notin copied
    => e = f

(* ... the one that has been taken is the first of its list, if it is      *)
(* there, and a place of the list that does not count is that of a request *)
(* which is elsewhere.                                                     *)
TakenFirst ==
  taken.id \notin copied => \A k \in DOMAIN pending : pending[k].id = taken.id => k = 1
Elsewhere(i) == Waits(i) \/ InHand(i) \/ InQueue(i) \/ i \in lost
Ghosts == \A k \in DOMAIN pending : pending[k].id \notin copied => Elsewhere(pending[k].id)

ConsInv ==
  /\ \A i \in 1 .. received : Good(i)
  /\ WaitsOnce /\ QueuedOnce /\ EventsOnce /\ TakenFirst /\ Ghosts

(* What is at one place only is at no other.                               *)
LEMMA OnlyOne ==
  ASSUME NEW i, Good(i), i \notin copied, NEW x, At(i, x)
  PROVE  \A y : At(i, y) <=> y = x
  BY DEF Good, OnePlace, OnlyAt

(* The places of a request that a step leaves where it is ...              *)
SamePlaces(i) ==
  /\ Waits(i)' <=> Waits(i)
  /\ InQueue(i)' <=> InQueue(i)
  /\ InHand(i)' <=> InHand(i)
  /\ InEvents(i)' <=> InEvents(i)
  /\ i \in answered' <=> i \in answered
  /\ i \in written' <=> i \in written
  /\ i \in dropped' <=> i \in dropped
  /\ i \in lost' <=> i \in lost

(* ... stay as they are ...                                                *)
LEMMA Remains ==
  ASSUME NEW i, Good(i), SamePlaces(i), i \in copied => i \in copied'
  PROVE  Good(i)'
  <1>1. \A x : At(i, x)' <=> At(i, x)
    BY ZenonT(60) DEF SamePlaces, At
  <1>2. \E x : At(i, x)'
    BY <1>1 DEF Good
  <1>3. ASSUME i \notin copied' PROVE OnePlace(i)'
    <2>1. PICK x : \A y : At(i, y) <=> y = x
      BY <1>3 DEF Good, OnePlace, OnlyAt
    <2>2. \A y : At(i, y)' <=> y = x
      BY <1>1, <2>1
    <2>3. QED
      BY <2>2 DEF OnePlace, OnlyAt
  <1>4. QED
    BY <1>2, <1>3 DEF Good

(* ... as do those of one that it moves.                                   *)
LEMMA Moves ==
  ASSUME NEW i, Good(i), i \in copied => i \in copied', NEW x, At(i, x), NEW y, At(i, y)',
         i \notin copied' => (x # y => ~At(i, x)'),
         \A z : z # x /\ z # y => (At(i, z)' => At(i, z))
  PROVE  Good(i)'
  <1>1. ASSUME i \notin copied' PROVE OnePlace(i)'
    <2>1. \A z : At(i, z) <=> z = x
      BY <1>1, OnlyOne
    <2>2. \A z : At(i, z)' <=> z = y
      BY <1>1, <2>1
    <2>3. QED
      BY <2>2 DEF OnePlace, OnlyAt
  <1>2. QED
    BY <1>1 DEF Good

(* What is elsewhere stays so when its places do.                          *)
LEMMA StillElsewhere ==
  ASSUME NEW i, Elsewhere(i), SamePlaces(i)
  PROVE  Elsewhere(i)'
  BY DEF Elsewhere, SamePlaces

(* A request that has not been received is nowhere.                        *)
LEMMA Nowhere ==
  ASSUME TypeInv, NEW i, i \notin 1 .. received
  PROVE  \A x : ~At(i, x)
  <1>1. ~Waits(i)
    BY DEF TypeInv, PendingOk, Waits
  <1>2. ~InQueue(i)
    BY DEF TypeInv, QueuesOk, NearlyShape, InQueue
  <1>3. ~InHand(i)
    BY DEF TypeInv, CommandOk, PacketOk, TakenTyped, Enqueuing, InHand
  <1>4. ~InEvents(i)
    BY DEF TypeInv, EventsOk, EventOk, PacketOk, InEvents
  <1>5. i \notin answered /\ i \notin written /\ i \notin dropped /\ i \notin lost
    BY FatesAre DEF TypeInv
  <1>6. QED
    BY <1>1, <1>2, <1>3, <1>4, <1>5, Zenon DEF At

(* While nothing is being put into a command queue no id is that of taken. *)
LEMMA NoneTaken ==
  ASSUME TypeInv, pc \notin Enqueuing
  PROVE  taken.id = NoId /\ (\A i \in 1 .. received : i # taken.id)
         /\ \A k \in DOMAIN pending : pending[k].id # taken.id
  BY DEF TypeInv, TakenTyped, PendingOk, NoPacket, NoId

(* The steps that move no request.                                         *)
LEMMA ConsIdle ==
  ASSUME TypeInv, ConsInv,
         StartCycle \/ EndCycle \/ EndEvents \/ Tick \/ Removed \/ UNCHANGED vars
           \/ (Pop /\ pc' = "enqueue" /\ UNCHANGED queues)
  PROVE  ConsInv'
  <1>1. /\ UNCHANGED <<received, pending, queues, events, taken, length, answered, written, dropped,
                       lost, copied>>
        /\ \/ /\ pc \notin {"send", "activate", "column", "shift"}
              /\ pc' \notin {"send", "activate", "column", "shift"}
           \/ UNCHANGED <<pc, command>>
    BY DEF StartCycle, EndCycle, EndEvents, Tick, Removed, Pop, vars, thread, queueVars, history
  <1>2. ASSUME NEW i PROVE SamePlaces(i)
    BY <1>1 DEF SamePlaces, Waits, InQueue, InHand, InEvents
  <1>3. ASSUME NEW i \in 1 .. received PROVE Good(i)'
    BY <1>1, <1>2, Remains DEF ConsInv
  <1>4. WaitsOnce' /\ QueuedOnce' /\ EventsOnce' /\ TakenFirst'
    BY <1>1 DEF ConsInv, WaitsOnce, QueuedOnce, EventsOnce, TakenFirst
  <1>5. Ghosts'
    <2>1. ASSUME NEW k \in DOMAIN pending, pending[k].id \notin copied
          PROVE  Elsewhere(pending[k].id)'
      <3>1. PICK i : i = pending[k].id
        OBVIOUS
      <3>2. Elsewhere(i)'
        BY <1>2, <2>1, <3>1, StillElsewhere DEF ConsInv, Ghosts
      <3>3. pending'[k].id = i
        BY <1>1, <3>1
      <3>4. QED
        BY <1>1, <3>1, <3>2
    <2>2. QED
      BY <1>1, <2>1 DEF Ghosts
  <1>6. QED
    BY <1>1, <1>3, <1>4, <1>5 DEF ConsInv

(* What pop() takes out of a queue is the command it returns, and the      *)
(* ACTIVATE that goes with it.                                             *)
LEMMA TakenOut ==
  ASSUME TypeInv, pc = "pop", NEW c \in Popped
  PROVE  /\ \A m \in DOMAIN queues[c.packet.bank] :
              m \in c.first .. c.last /\ queues[c.packet.bank][m].type \in Columns =>
                m = c.last /\ queues[c.packet.bank][m] = c.packet
         /\ c.packet.type \in Columns =>
              /\ c.last \in DOMAIN queues[c.packet.bank] /\ c.last \in c.first .. c.last
              /\ queues[c.packet.bank][c.last] = c.packet
  <1>1. QueuesTyped /\ \A b \in Banks : Shape(queues[b], b, received)
    BY WholeQueues
  <1>2. CASE \E b, i : QueueCommand(c, b, i)
    <2>1. PICK b, i : QueueCommand(c, b, i)
      BY <1>2
    <2>2. /\ b \in Banks /\ i \in 1 .. Len(queues[b]) /\ Len(queues[b]) \in Nat
          /\ c.packet = queues[b][i] /\ c.first = FirstRemoved(b, i) /\ c.last = i
          /\ DOMAIN queues[b] = 1 .. Len(queues[b])
      BY <1>1, <2>1 DEF QueueCommand, QueuesTyped
    <2>3. c.packet.bank = b
      BY <1>1, <2>2 DEF Shape
    <2>4. /\ FirstRemoved(b, i) \in {i - 1, i} /\ FirstRemoved(b, i) \in 1 .. i
          /\ FirstRemoved(b, i) = i - 1 => queues[b][i - 1].type = "ACTIVATE"
      BY <2>2 DEF FirstRemoved
    <2>5. ASSUME NEW m \in 1 .. Len(queues[b]), m \in FirstRemoved(b, i) .. i,
                 queues[b][m].type \in Columns
          PROVE  m = i
      <3>1. m = i \/ (m = i - 1 /\ FirstRemoved(b, i) = i - 1)
        BY <2>2, <2>4, <2>5
      <3>2. QED
        BY <2>4, <2>5, <3>1 DEF Columns
    <2>6. i \in FirstRemoved(b, i) .. i
      BY <2>2, <2>4
    <2>7. QED
      BY <2>2, <2>3, <2>5, <2>6
  <1>3. ASSUME NEW t \in {"PRECHARGE", "REFRESH"}, NEW b,
               c = [packet |-> [NoPacket EXCEPT !.type = t, !.bank = b], first |-> 1, last |-> 0]
        PROVE  c.last = 0 /\ c.first = 1 /\ c.packet.type \notin Columns
    BY <1>3 DEF NoPacket, Columns
  <1>4. CASE (\E b : EndOfRow(c, b)) \/ RefreshOfAll(c)
    <2>1. c.last = 0 /\ c.first = 1 /\ c.packet.type \notin Columns
      <3>1. CASE \E b : EndOfRow(c, b)
        <4>1. PICK b : EndOfRow(c, b)
          BY <3>1
        <4>2. QED
          BY <1>3, <4>1 DEF EndOfRow
      <3>2. CASE RefreshOfAll(c)
        BY <1>3, <3>2 DEF RefreshOfAll
      <3>3. QED
        BY <1>4, <3>1, <3>2
    <2>2. QED
      BY <2>1
  <1>5. QED
    BY <1>2, <1>4, PoppedIs

(* pop() moves a column command into the hands of the DRAM thread.         *)
LEMMA ConsPop ==
  ASSUME TypeInv, ConsInv, Pop, NEW c \in Popped, pc' = "send", command' = c.packet, CutOut(c)
  PROVE  ConsInv'
  <1> DEFINE d == c.packet.bank
  <1>1. /\ UNCHANGED <<received, pending, events, taken, length, answered, written, dropped, lost,
                       copied>>
        /\ pc = "pop" /\ pc' = "send" /\ command' = c.packet
    BY DEF Pop, history
  <1>2. \A b \in Banks : \A k \in DOMAIN queues'[b] :
          /\ Was(c, b, k) \in DOMAIN queues[b] /\ queues'[b][k] = queues[b][Was(c, b, k)]
          /\ b = d => Was(c, b, k) \notin c.first .. c.last
    BY <1>1, PopQueues DEF CutOut
  <1>3. \A b \in Banks : \A m \in DOMAIN queues[b] :
          \/ b = d /\ m \in c.first .. c.last
          \/ \E k \in DOMAIN queues'[b] : m = Was(c, b, k)
    BY <1>1, PopQueues DEF CutOut
  <1>4. /\ \A m \in DOMAIN queues[d] :
             m \in c.first .. c.last /\ queues[d][m].type \in Columns =>
               m = c.last /\ queues[d][m] = c.packet
        /\ c.packet.type \in Columns =>
             c.last \in DOMAIN queues[d] /\ c.last \in c.first .. c.last /\ queues[d][c.last] = c.packet
        /\ d \in Banks
    BY <1>1, TakenOut, CommandIs
  <1> HIDE DEF d
  <1>5. ASSUME NEW i, ~(c.packet.type \in Columns /\ i = c.packet.id)
        PROVE  InQueue(i)' <=> InQueue(i)
    <2>1. ASSUME InQueue(i) PROVE InQueue(i)'
      <3>1. PICK b \in Banks :
            \E m \in DOMAIN queues[b] : queues[b][m].id = i /\ queues[b][m].type \in Columns
        BY <2>1 DEF InQueue
      <3>2. PICK m \in DOMAIN queues[b] : queues[b][m].id = i /\ queues[b][m].type \in Columns
        BY <3>1
      <3>3. ~(b = d /\ m \in c.first .. c.last)
        BY <1>4, <1>5, <3>2
      <3>4. PICK k \in DOMAIN queues'[b] : m = Was(c, b, k)
        BY <1>3, <3>3
      <3>5. queues'[b][k] = queues[b][m]
        BY <1>2, <3>4
      <3>6. QED
        BY <3>2, <3>5 DEF InQueue
    <2>2. ASSUME InQueue(i)' PROVE InQueue(i)
      <3>1. PICK b \in Banks :
            \E k \in DOMAIN queues'[b] : queues'[b][k].id = i /\ queues'[b][k].type \in Columns
        BY <2>2 DEF InQueue
      <3>2. PICK k \in DOMAIN queues'[b] : queues'[b][k].id = i /\ queues'[b][k].type \in Columns
        BY <3>1
      <3>3. Was(c, b, k) \in DOMAIN queues[b] /\ queues'[b][k] = queues[b][Was(c, b, k)]
        BY <1>2
      <3>4. QED
        BY <3>2, <3>3 DEF InQueue
    <2>3. QED
      BY <2>1, <2>2
  <1>6. ASSUME NEW b \in Banks, NEW k \in DOMAIN queues'[b], c.packet.type \in Columns,
               queues'[b][k].type \in Columns, queues'[b][k].id = c.packet.id,
               c.packet.id \notin copied
        PROVE  FALSE
    <2>1. Was(c, b, k) \in DOMAIN queues[b] /\ queues'[b][k] = queues[b][Was(c, b, k)]
          /\ (b = d => Was(c, b, k) \notin c.first .. c.last)
      BY <1>2
    <2>2. b = d /\ Was(c, b, k) = c.last
      BY <1>4, <1>6, <2>1 DEF ConsInv, QueuedOnce
    <2>3. QED
      BY <1>4, <1>6, <2>1, <2>2
  <1>7. ASSUME NEW i \in 1 .. received PROVE Good(i)'
    <2>1. Good(i) /\ (Waits(i)' <=> Waits(i)) /\ (InEvents(i)' <=> InEvents(i)) /\ ~InHand(i)
          /\ (InHand(i)' <=> c.packet.type \in Columns /\ i = c.packet.id)
      BY <1>1 DEF ConsInv, Waits, InEvents, InHand
    <2>2. CASE c.packet.type \in Columns /\ i = c.packet.id
      <3>1. InQueue(i) /\ (i \notin copied => ~InQueue(i)')
        BY <1>4, <1>6, <2>2 DEF InQueue
      <3>2. At(i, "queue") /\ At(i, "hand")' /\ (i \notin copied' => ~At(i, "queue")')
        BY <1>1, <2>1, <2>2, <3>1 DEF At
      <3>3. \A z : z # "queue" /\ z # "hand" => (At(i, z)' => At(i, z))
        BY <1>1, <2>1, Zenon DEF At
      <3>4. QED
        BY <1>1, <2>1, <3>2, <3>3, Moves
    <2>3. CASE ~(c.packet.type \in Columns /\ i = c.packet.id)
      <3>1. SamePlaces(i)
        BY <1>1, <1>5, <2>1, <2>3 DEF SamePlaces
      <3>2. QED
        BY <1>1, <2>1, <3>1, Remains
    <2>4. QED
      BY <2>2, <2>3
  <1>8. QueuedOnce'
    <2>1. ASSUME NEW b \in Banks, NEW x \in Banks, NEW k \in DOMAIN queues'[b],
                 NEW l \in DOMAIN queues'[x],
                 queues'[b][k].type \in Columns, queues'[x][l].type \in Columns,
                 queues'[b][k].id = queues'[x][l].id, queues'[b][k].id \notin copied
          PROVE  b = x /\ k = l
      <3>1. /\ Was(c, b, k) \in DOMAIN queues[b] /\ queues'[b][k] = queues[b][Was(c, b, k)]
            /\ Was(c, x, l) \in DOMAIN queues[x] /\ queues'[x][l] = queues[x][Was(c, x, l)]
        BY <1>2
      <3>2. b = x /\ Was(c, b, k) = Was(c, b, l)
        BY <2>1, <3>1 DEF ConsInv, QueuedOnce
      <3>3. /\ k < l => Was(c, b, k) < Was(c, b, l)
            /\ l < k => Was(c, b, l) < Was(c, b, k)
        BY <1>1, <3>2, WasOrder
      <3>4. k \in Nat /\ l \in Nat /\ Was(c, b, k) \in Nat
        <4>1. \A y \in Banks : DOMAIN queues[y] \subseteq Nat
          BY <1>1, WholeQueues DEF QueuesTyped
        <4>2. queues' \in [Banks -> Seq(Packet)]
          BY <1>1, PopQueues DEF CutOut
        <4>3. \A y \in Banks : DOMAIN queues'[y] \subseteq Nat
          <5> DEFINE E == Packet
          <5> HIDE DEF E
          <5>1. \A y \in Banks : queues'[y] \in Seq(E)
            BY <4>2 DEF E
          <5>2. \A q \in Seq(E) : DOMAIN q \subseteq Nat
            OBVIOUS
          <5>3. QED
            BY <5>1, <5>2
        <4>4. QED
          BY <3>1, <4>1, <4>3
      <3> DEFINE u == Was(c, b, k)
      <3> HIDE DEF u
      <3>5. ~(k < l) /\ ~(l < k)
        <4>1. u \in Nat /\ ~(u < u)
          BY <3>4 DEF u
        <4>2. QED
          BY <3>2, <3>3, <4>1 DEF u
      <3>6. QED
        BY <3>2, <3>4, <3>5
    <2>2. QED
      BY <1>1, <2>1 DEF QueuedOnce
  <1>9. Ghosts'
    <2>1. ASSUME NEW k \in DOMAIN pending PROVE Waits(pending[k].id)'
      <3>1. pending[k].id # taken.id
        BY <1>1, NoneTaken DEF Enqueuing
      <3>2. QED
        BY <1>1, <3>1 DEF Waits
    <2>2. QED
      BY <1>1, <2>1 DEF Ghosts, Elsewhere
  <1>10. WaitsOnce' /\ EventsOnce' /\ TakenFirst'
    BY <1>1 DEF ConsInv, WaitsOnce, EventsOnce, TakenFirst
  <1>11. QED
    BY <1>1, <1>7, <1>8, <1>9, <1>10 DEF ConsInv

(* A command in hand goes to the events, or is lost.                       *)
LEMMA ConsSend ==
  ASSUME TypeInv, ConsInv, Send
  PROVE  ConsInv'
  <1> DEFINE n == Event(now + tCMD, "command", command)
             L == IF command.type \in Columns THEN lost \cup {command.id} ELSE lost
  <1>1. /\ pc = "send" /\ pc' = "enqueue"
        /\ UNCHANGED <<received, pending, queues, taken, length, answered, written, dropped, copied>>
        /\ \/ lost' = lost /\ events' = (events \cup {n}) \cup StateUpdates(command)
           \/ events' = events /\ lost' = L
    BY DEF Send, queueVars
  <1>2. command.type \in Columns => StateUpdates(command) = {}
    BY DEF StateUpdates, Columns
  <1>3. n.packet = command /\ \A e \in StateUpdates(command) : e.packet = command
    BY DEF StateUpdates, Event
  <1>4. /\ command.type \in Columns => L = lost \cup {command.id}
        /\ command.type \notin Columns => L = lost
    OBVIOUS
  <1> HIDE DEF n, L
  <1>5. \A e \in events' : e.packet.type \in Columns =>
          e \in events \/ (e = n /\ lost' = lost /\ command.type \in Columns)
    BY <1>1, <1>2, <1>3
  <1>6. /\ events \subseteq events'
        /\ (n \in events' /\ lost' = lost) \/ (events' = events /\ lost' = L)
    BY <1>1
  <1>7. ASSUME NEW i
        PROVE  /\ (Waits(i)' <=> Waits(i)) /\ (InQueue(i)' <=> InQueue(i)) /\ ~InHand(i)'
               /\ (InHand(i) <=> command.type \in Columns /\ i = command.id)
    BY <1>1 DEF Waits, InQueue, InHand
  <1>8. ASSUME NEW i, ~InHand(i) PROVE SamePlaces(i)
    <2>1. InEvents(i)' <=> InEvents(i)
      BY <1>3, <1>5, <1>6, <1>7, <1>8 DEF InEvents
    <2>2. i \in lost' <=> i \in lost
      BY <1>4, <1>6, <1>7, <1>8
    <2>3. QED
      BY <1>1, <1>7, <1>8, <2>1, <2>2 DEF SamePlaces
  <1>9. ASSUME NEW i \in 1 .. received PROVE Good(i)'
    <2>1. Good(i)
      BY DEF ConsInv
    <2>2. CASE InHand(i) /\ n \in events' /\ lost' = lost
      <3>1. InEvents(i)'
        BY <1>3, <1>7, <2>2 DEF InEvents
      <3>2. At(i, "hand") /\ At(i, "events")' /\ ~At(i, "hand")'
        BY <1>7, <2>2, <3>1 DEF At
      <3>3. \A z : z # "hand" /\ z # "events" => (At(i, z)' => At(i, z))
        BY <1>1, <1>7, <2>2, Zenon DEF At
      <3>4. QED
        BY <1>1, <2>1, <3>2, <3>3, Moves
    <2>3. CASE /\ InHand(i) /\ events' = events
               /\ lost' = L
      <3>1. i \in lost'
        BY <1>4, <1>7, <2>3
      <3>2. InEvents(i)' <=> InEvents(i)
        BY <2>3 DEF InEvents
      <3>3. At(i, "hand") /\ At(i, "lost")' /\ ~At(i, "hand")'
        BY <1>7, <2>3, <3>1 DEF At
      <3>4. \A z : z # "hand" /\ z # "lost" => (At(i, z)' => At(i, z))
        BY <1>1, <1>7, <3>2, Zenon DEF At
      <3>5. QED
        BY <1>1, <2>1, <3>3, <3>4, Moves
    <2>4. CASE ~InHand(i)
      BY <1>1, <1>8, <2>1, <2>4, Remains
    <2>5. QED
      BY <1>6, <2>2, <2>3, <2>4
  <1>10. EventsOnce'
    <2>1. ASSUME NEW e \in events, e.packet.type \in Columns, command.type \in Columns,
                 e.packet.id = command.id, command.id \notin copied
          PROVE  FALSE
      <3>1. PICK i \in 1 .. received : i = command.id
        BY <2>1 DEF TypeInv, CommandOk, PacketOk
      <3>2. At(i, "hand") /\ At(i, "events")
        BY <1>1, <2>1, <3>1 DEF At, InHand, InEvents
      <3>3. Good(i) /\ i \notin copied
        BY <2>1, <3>1 DEF ConsInv
      <3>4. QED
        BY <3>2, <3>3, OnlyOne
    <2>2. ASSUME NEW e \in events', NEW f \in events', e.packet.type \in Columns,
                 f.packet.type \in Columns, e.packet.id = f.packet.id, e.packet.id \notin copied
          PROVE  e = f
      <3>1. CASE e \in events /\ f \in events
        BY <2>2, <3>1 DEF ConsInv, EventsOnce
      <3>2. CASE e \notin events \/ f \notin events
        BY <1>3, <1>5, <2>1, <2>2, <3>2
      <3>3. QED
        BY <3>1, <3>2
    <2>3. QED
      BY <1>1, <2>2 DEF EventsOnce
  <1>11. Ghosts'
    <2>1. ASSUME NEW k \in DOMAIN pending PROVE Waits(pending[k].id)'
      <3>1. pending[k].id # taken.id
        BY <1>1, NoneTaken DEF Enqueuing
      <3>2. QED
        BY <1>1, <3>1 DEF Waits
    <2>2. QED
      BY <1>1, <2>1 DEF Ghosts, Elsewhere
  <1>12. WaitsOnce' /\ QueuedOnce' /\ TakenFirst'
    BY <1>1 DEF ConsInv, WaitsOnce, QueuedOnce, TakenFirst
  <1>13. QED
    BY <1>1, <1>9, <1>10, <1>11, <1>12 DEF ConsInv

(* The first of the list is taken into hand.                               *)
LEMMA ConsTake ==
  ASSUME TypeInv, ConsInv, Take
  PROVE  ConsInv'
  <1> DEFINE p == Head(pending)
  <1>1. /\ pc = "enqueue" /\ pc' = "activate" /\ pending # <<>> /\ taken' = p
        /\ UNCHANGED <<received, pending, queues, events, command, length, answered, written, dropped,
                       lost, copied>>
    BY DEF Take, queueVars, history
  <1>2. /\ p.type \in Columns /\ p.id \in 1 .. received
        /\ 1 \in DOMAIN pending /\ pending[1] = p
    BY <1>1, HeadIs
  <1>3. /\ \A i \in 1 .. received : i # taken.id
        /\ \A k \in DOMAIN pending : pending[k].id # taken.id
    BY <1>1, NoneTaken DEF Enqueuing
  <1> HIDE DEF p
  <1>4. ASSUME NEW i
        PROVE  /\ (InQueue(i)' <=> InQueue(i)) /\ (InEvents(i)' <=> InEvents(i)) /\ ~InHand(i)
               /\ InHand(i)' <=> i = p.id
               /\ Waits(i)' <=> Waits(i) /\ i # p.id
    BY <1>1, <1>2, <1>3 DEF Waits, InQueue, InHand, InEvents
  <1>5. ASSUME NEW i, i # p.id PROVE SamePlaces(i)
    BY <1>1, <1>4, <1>5 DEF SamePlaces
  <1>6. ASSUME NEW i \in 1 .. received PROVE Good(i)'
    <2>1. Good(i)
      BY DEF ConsInv
    <2>2. CASE i = p.id
      <3>1. Waits(i)
        BY <1>1, <1>2, <1>3, <2>2 DEF Waits
      <3>2. At(i, "waits") /\ At(i, "hand")' /\ ~At(i, "waits")'
        BY <1>4, <2>2, <3>1 DEF At
      <3>3. \A z : z # "waits" /\ z # "hand" => (At(i, z)' => At(i, z))
        BY <1>1, <1>4, Zenon DEF At
      <3>4. QED
        BY <1>1, <2>1, <3>2, <3>3, Moves
    <2>3. CASE i # p.id
      BY <1>1, <1>5, <2>1, <2>3, Remains
    <2>4. QED
      BY <2>2, <2>3
  <1>7. TakenFirst'
    BY <1>1, <1>2 DEF ConsInv, WaitsOnce, TakenFirst
  <1>8. Ghosts'
    <2>1. ASSUME NEW k \in DOMAIN pending, pending[k].id \notin copied
          PROVE  Elsewhere(pending[k].id)'
      <3>1. PICK i : i = pending[k].id
        OBVIOUS
      <3>2. Elsewhere(i)'
        <4>1. CASE i = p.id
          BY <1>4, <4>1 DEF Elsewhere
        <4>2. CASE i # p.id
          BY <1>5, <2>1, <3>1, <4>2, StillElsewhere DEF ConsInv, Ghosts
        <4>3. QED
          BY <4>1, <4>2
      <3>3. pending'[k].id = i
        BY <1>1, <3>1
      <3>4. QED
        BY <1>1, <3>1, <3>2
    <2>2. QED
      BY <1>1, <2>1 DEF Ghosts
  <1>9. WaitsOnce' /\ QueuedOnce' /\ EventsOnce'
    BY <1>1 DEF ConsInv, WaitsOnce, QueuedOnce, EventsOnce
  <1>10. QED
    BY <1>1, <1>6, <1>7, <1>8, <1>9 DEF ConsInv

(* What is at place k of a queue after one more command is there.          *)
LEMMA AppendedAt ==
  ASSUME TypeInv, NEW p \in Packet, Enqueue(p)
  PROVE  /\ \A b \in Banks : \A k \in DOMAIN queues[b] :
              k \in DOMAIN queues'[b] /\ queues'[b][k] = queues[b][k]
         /\ \A b \in Banks : \A k \in DOMAIN queues'[b] :
              k \in DOMAIN queues[b] \/ (b = p.bank /\ k = Len(queues[b]) + 1 /\ queues'[b][k] = p)
         /\ p.bank \in Banks /\ \E k \in DOMAIN queues'[p.bank] : queues'[p.bank][k] = p
  <1> DEFINE d == p.bank
             n == Len(queues[d])
  <1>1. /\ d \in Banks /\ \A b \in Banks : b # d => queues'[b] = queues[b]
        /\ n \in Nat /\ DOMAIN queues[d] = 1 .. n /\ DOMAIN queues'[d] = 1 .. n + 1
        /\ \A k \in 1 .. n : queues'[d][k] = queues[d][k]
        /\ queues'[d][n + 1] = p
    BY Appended
  <1>2. \A b \in Banks : b = d => Len(queues[b]) = n
    OBVIOUS
  <1> HIDE DEF n, d
  <1>3. /\ \A k \in 1 .. n : k \in 1 .. n + 1
        /\ \A k \in 1 .. n + 1 : k \in 1 .. n \/ k = n + 1
        /\ n + 1 \in 1 .. n + 1
    BY <1>1
  <1>4. ASSUME NEW b \in Banks, NEW k \in DOMAIN queues[b]
        PROVE  k \in DOMAIN queues'[b] /\ queues'[b][k] = queues[b][k]
    BY <1>1, <1>3
  <1>5. ASSUME NEW b \in Banks, NEW k \in DOMAIN queues'[b]
        PROVE  k \in DOMAIN queues[b] \/ (b = d /\ k = Len(queues[b]) + 1 /\ queues'[b][k] = p)
    BY <1>1, <1>2, <1>3
  <1>6. \E k \in DOMAIN queues'[d] : queues'[d][k] = p
    BY <1>1, <1>3
  <1>7. QED
    BY <1>1, <1>4, <1>5, <1>6 DEF d

(* Its ACTIVATE is put into a command queue.                               *)
LEMMA ConsEnqueueActivate ==
  ASSUME TypeInv, ConsInv, EnqueueActivate
  PROVE  ConsInv'
  <1> DEFINE a == Activate(taken)
  <1>1. /\ pc = "activate" /\ pc' = "column" /\ Enqueue(a)
        /\ UNCHANGED <<received, pending, events, command, taken, length, answered, written, dropped,
                       lost, copied>>
    BY DEF EnqueueActivate, Enqueue, history
  <1>2. a \in Packet /\ a.type \notin Columns
    BY ActivateIs DEF TypeInv, TakenTyped, Columns
  <1> HIDE DEF a
  <1>3. /\ \A b \in Banks : \A k \in DOMAIN queues[b] :
             k \in DOMAIN queues'[b] /\ queues'[b][k] = queues[b][k]
        /\ \A b \in Banks : \A k \in DOMAIN queues'[b] : queues'[b][k].type \in Columns =>
             k \in DOMAIN queues[b]
    BY <1>1, <1>2, AppendedAt
  <1>4. ASSUME NEW i PROVE InQueue(i)' <=> InQueue(i)
    BY <1>3 DEF InQueue
  <1>5. ASSUME NEW i PROVE SamePlaces(i)
    BY <1>1, <1>4 DEF SamePlaces, Waits, InHand, InEvents
  <1>6. ASSUME NEW i \in 1 .. received PROVE Good(i)'
    BY <1>1, <1>5, Remains DEF ConsInv
  <1>7. QueuedOnce'
    <2>1. ASSUME NEW b \in Banks, NEW x \in Banks, NEW k \in DOMAIN queues'[b],
                 NEW l \in DOMAIN queues'[x],
                 queues'[b][k].type \in Columns, queues'[x][l].type \in Columns,
                 queues'[b][k].id = queues'[x][l].id, queues'[b][k].id \notin copied
          PROVE  b = x /\ k = l
      BY <1>3, <2>1 DEF ConsInv, QueuedOnce
    <2>2. QED
      BY <1>1, <2>1 DEF QueuedOnce
  <1>8. Ghosts'
    <2>1. ASSUME NEW k \in DOMAIN pending, pending[k].id \notin copied
          PROVE  Elsewhere(pending[k].id)'
      <3>1. PICK i : i = pending[k].id
        OBVIOUS
      <3>2. Elsewhere(i)'
        BY <1>5, <2>1, <3>1, StillElsewhere DEF ConsInv, Ghosts
      <3>3. pending'[k].id = i
        BY <1>1, <3>1
      <3>4. QED
        BY <1>1, <3>1, <3>2
    <2>2. QED
      BY <1>1, <2>1 DEF Ghosts
  <1>9. WaitsOnce' /\ EventsOnce' /\ TakenFirst'
    BY <1>1 DEF ConsInv, WaitsOnce, EventsOnce, TakenFirst
  <1>10. QED
    BY <1>1, <1>6, <1>7, <1>8, <1>9 DEF ConsInv

(* The request itself is put into a command queue.                         *)
LEMMA ConsEnqueueColumn ==
  ASSUME TypeInv, ConsInv, EnqueueColumn
  PROVE  ConsInv'
  <1>1. /\ pc = "column" /\ pc' = "remove" /\ Enqueue(taken)
        /\ UNCHANGED <<received, pending, events, command, taken, length, answered, written, dropped,
                       lost, copied>>
    BY DEF EnqueueColumn, Enqueue, history
  <1>2. taken \in Packet /\ taken.type \in Columns /\ taken.id \in 1 .. received
    BY <1>1 DEF TypeInv, TakenTyped, Enqueuing
  <1>3. /\ \A b \in Banks : \A k \in DOMAIN queues[b] :
             k \in DOMAIN queues'[b] /\ queues'[b][k] = queues[b][k]
        /\ \A b \in Banks : \A k \in DOMAIN queues'[b] :
             k \in DOMAIN queues[b]
               \/ (b = taken.bank /\ k = Len(queues[b]) + 1 /\ queues'[b][k] = taken)
        /\ taken.bank \in Banks /\ \E k \in DOMAIN queues'[taken.bank] : queues'[taken.bank][k] = taken
    BY <1>1, <1>2, AppendedAt
  <1>4. ASSUME NEW i PROVE InQueue(i)' <=> InQueue(i) \/ i = taken.id
    <2>1. ASSUME InQueue(i) PROVE InQueue(i)'
      BY <1>3, <2>1 DEF InQueue
    <2>2. ASSUME i = taken.id PROVE InQueue(i)'
      BY <1>2, <1>3, <2>2 DEF InQueue
    <2>3. ASSUME InQueue(i)' PROVE InQueue(i) \/ i = taken.id
      BY <1>3, <2>3 DEF InQueue
    <2>4. QED
      BY <2>1, <2>2, <2>3
  <1>5. ASSUME NEW i
        PROVE  /\ (Waits(i)' <=> Waits(i)) /\ (InEvents(i)' <=> InEvents(i)) /\ ~InHand(i)'
               /\ InHand(i) <=> i = taken.id
    BY <1>1, <1>2 DEF Waits, InHand, InEvents
  <1>6. ASSUME NEW i, i # taken.id PROVE SamePlaces(i)
    BY <1>1, <1>4, <1>5, <1>6 DEF SamePlaces
  <1>7. ASSUME NEW i \in 1 .. received PROVE Good(i)'
    <2>1. Good(i)
      BY DEF ConsInv
    <2>2. CASE i = taken.id
      <3>1. At(i, "hand") /\ At(i, "queue")' /\ ~At(i, "hand")'
        BY <1>4, <1>5, <2>2 DEF At
      <3>2. \A z : z # "hand" /\ z # "queue" => (At(i, z)' => At(i, z))
        BY <1>1, <1>5, Zenon DEF At
      <3>3. QED
        BY <1>1, <2>1, <3>1, <3>2, Moves
    <2>3. CASE i # taken.id
      BY <1>1, <1>6, <2>1, <2>3, Remains
    <2>4. QED
      BY <2>2, <2>3
  <1>8. QueuedOnce'
    <2>1. taken.id \notin copied => ~InQueue(taken.id)
      <3>1. PICK i \in 1 .. received : i = taken.id
        BY <1>2
      <3>2. At(i, "hand") /\ Good(i)
        BY <1>5, <3>1 DEF At, ConsInv
      <3>3. i \notin copied => ~At(i, "queue")
        BY <3>2, OnlyOne
      <3>4. QED
        BY <3>1, <3>3 DEF At
    <2>2. ASSUME NEW b \in Banks, NEW x \in Banks, NEW k \in DOMAIN queues'[b],
                 NEW l \in DOMAIN queues'[x],
                 queues'[b][k].type \in Columns, queues'[x][l].type \in Columns,
                 queues'[b][k].id = queues'[x][l].id, queues'[b][k].id \notin copied
          PROVE  b = x /\ k = l
      <3>1. CASE k \in DOMAIN queues[b] /\ l \in DOMAIN queues[x]
        BY <1>3, <2>2, <3>1 DEF ConsInv, QueuedOnce
      <3>2. CASE k \in DOMAIN queues[b] /\ l \notin DOMAIN queues[x]
        <4>1. /\ queues'[x][l] = taken /\ queues[b][k].id = taken.id /\ queues[b][k].type \in Columns
              /\ taken.id \notin copied
          BY <1>3, <2>2, <3>2
        <4>2. QED
          BY <2>1, <3>2, <4>1 DEF InQueue
      <3>3. CASE k \notin DOMAIN queues[b] /\ l \in DOMAIN queues[x]
        <4>1. /\ queues'[b][k] = taken /\ queues[x][l].id = taken.id /\ queues[x][l].type \in Columns
              /\ taken.id \notin copied
          BY <1>3, <2>2, <3>3
        <4>2. QED
          BY <2>1, <3>3, <4>1 DEF InQueue
      <3>4. CASE k \notin DOMAIN queues[b] /\ l \notin DOMAIN queues[x]
        BY <1>3, <2>2, <3>4
      <3>5. QED
        BY <3>1, <3>2, <3>3, <3>4
    <2>3. QED
      BY <1>1, <2>2 DEF QueuedOnce
  <1>9. Ghosts'
    <2>1. ASSUME NEW k \in DOMAIN pending, pending[k].id \notin copied
          PROVE  Elsewhere(pending[k].id)'
      <3>1. PICK i : i = pending[k].id
        OBVIOUS
      <3>2. Elsewhere(i)'
        <4>1. CASE i = taken.id
          BY <1>4, <4>1 DEF Elsewhere
        <4>2. CASE i # taken.id
          BY <1>6, <2>1, <3>1, <4>2, StillElsewhere DEF ConsInv, Ghosts
        <4>3. QED
          BY <4>1, <4>2
      <3>3. pending'[k].id = i
        BY <1>1, <3>1
      <3>4. QED
        BY <1>1, <3>1, <3>2
    <2>2. QED
      BY <1>1, <2>1 DEF Ghosts
  <1>10. WaitsOnce' /\ EventsOnce' /\ TakenFirst'
    BY <1>1 DEF ConsInv, WaitsOnce, EventsOnce, TakenFirst
  <1>11. QED
    BY <1>1, <1>7, <1>8, <1>9, <1>10 DEF ConsInv

(* The others move up in the list.  When the first is not the one that has *)
(* been put into a command queue it is lost.                               *)
LEMMA ConsShift ==
  ASSUME TypeInv, ConsInv, Shift
  PROVE  ConsInv'
  <1>1. /\ pc = "remove" /\ pc' \in {"sleep", "shift"} /\ taken' = NoPacket
        /\ UNCHANGED <<received, queues, events, answered, written, dropped, copied>>
    BY DEF Shift, queueVars
  <1>2. ASSUME NEW i
        PROVE  /\ ~InHand(i) /\ ~InHand(i)' /\ (InQueue(i)' <=> InQueue(i))
               /\ (InEvents(i)' <=> InEvents(i))
    BY <1>1 DEF InHand, InQueue, InEvents
  <1>3. taken'.id = NoId /\ \A i \in 1 .. received : i # NoId
    BY <1>1 DEF NoPacket, NoId
  <1>4. QueuedOnce' /\ EventsOnce'
    BY <1>1 DEF ConsInv, QueuedOnce, EventsOnce
  <1>5. CASE pending = <<>>
    <2>1. pending' = pending /\ lost' = lost /\ DOMAIN pending = {}
      BY <1>5 DEF Shift
    <2>2. ASSUME NEW i PROVE SamePlaces(i)
      BY <1>1, <1>2, <2>1 DEF SamePlaces, Waits
    <2>3. ASSUME NEW i \in 1 .. received PROVE Good(i)'
      BY <1>1, <2>2, Remains DEF ConsInv
    <2>4. WaitsOnce' /\ TakenFirst' /\ Ghosts'
      BY <2>1 DEF WaitsOnce, TakenFirst, Ghosts
    <2>5. QED
      BY <1>1, <1>4, <2>3, <2>4 DEF ConsInv
  <1>6. CASE pending # <<>>
    <2> DEFINE n == Len(pending)
               h == Head(pending)
    <2>1. /\ pending' = Append(Tail(pending), Last(pending)) /\ pc' = "shift" /\ length' = n
          /\ lost' = lost \cup ({h.id} \ {taken.id})
      BY <1>6 DEF Shift
    <2>2. /\ 1 \in DOMAIN pending /\ h = pending[1] /\ n \in Nat \ {0} /\ DOMAIN pending = 1 .. n
          /\ \A k \in DOMAIN pending : pending[k].id \in 1 .. received
      BY <1>6, HeadIs
    <2>3. /\ DOMAIN pending' = 1 .. n
          /\ \A k \in 1 .. n - 1 : pending'[k] = pending[k + 1]
          /\ pending'[n] = pending[n]
      BY <1>6, <2>1, Shifted
    <2> HIDE DEF n, h
    <2>4. /\ \A k \in 1 .. n - 1 : k + 1 \in 1 .. n /\ k + 1 # 1 /\ k # n /\ k \in 1 .. n
          /\ \A k \in 1 .. n : k \in 1 .. n - 1 \/ k = n
          /\ \A k \in 1 .. n : k = 1 \/ (k - 1 \in 1 .. n - 1 /\ (k - 1) + 1 = k)
      BY <2>2
    <2>5. \A k \in DOMAIN pending' : pending'[k].id \in 1 .. received
      BY <2>2, <2>3, <2>4
    <2>6. ASSUME NEW i \in 1 .. received
          PROVE  Waits(i)' <=> \E k \in DOMAIN pending : k # 1 /\ pending[k].id = i
      <3>1. ASSUME NEW k \in DOMAIN pending, k # 1, pending[k].id = i PROVE Waits(i)'
        <4> DEFINE j == k - 1
        <4>1. j \in 1 .. n - 1 /\ j + 1 = k
          BY <2>2, <2>4, <3>1
        <4> HIDE DEF j
        <4>2. j \in DOMAIN pending' /\ j # n /\ pending'[j].id = i
          BY <2>3, <2>4, <3>1, <4>1
        <4>3. QED
          BY <1>3, <2>1, <4>2 DEF Waits
      <3>2. ASSUME Waits(i)' PROVE \E k \in DOMAIN pending : k # 1 /\ pending[k].id = i
        <4>1. PICK k \in DOMAIN pending' : pending'[k].id = i /\ k # n
          BY <2>1, <3>2 DEF Waits
        <4>2. k \in 1 .. n - 1
          BY <2>3, <2>4, <4>1
        <4>3. k + 1 \in DOMAIN pending /\ k + 1 # 1 /\ pending[k + 1].id = i
          BY <2>2, <2>3, <2>4, <4>1, <4>2
        <4>4. QED
          BY <4>3
      <3>3. QED
        BY <3>1, <3>2
    <2>7. ASSUME NEW i \in 1 .. received PROVE Good(i)'
      <3>1. Good(i)
        BY DEF ConsInv
      <3>2. CASE i = taken.id
        <4>1. ~Waits(i) /\ lost' = lost \cup ({h.id} \ {i})
          BY <2>1, <3>2 DEF Waits
        <4>2. i \in lost' <=> i \in lost
          BY <4>1
        <4>3. CASE i \notin copied
          <5>1. ~Waits(i)'
            BY <2>6, <3>2, <4>3 DEF ConsInv, TakenFirst
          <5>2. SamePlaces(i)
            BY <1>1, <1>2, <4>1, <4>2, <5>1 DEF SamePlaces
          <5>3. QED
            BY <3>1, <4>3, <5>2, Remains
        <4>4. CASE i \in copied
          <5>1. PICK x : At(i, x)
            BY <3>1 DEF Good
          <5>2. At(i, x)'
            BY <1>1, <1>2, <4>1, <4>2, <5>1, Zenon DEF At
          <5>3. QED
            BY <1>1, <4>4, <5>2 DEF Good
        <4>5. QED
          BY <4>3, <4>4
      <3>3. CASE i # taken.id /\ i = h.id
        <4>1. Waits(i)
          BY <1>1, <2>2, <3>3 DEF Waits
        <4>2. i \in lost'
          BY <2>1, <3>3
        <4>3. i \notin copied => ~Waits(i)'
          BY <1>1, <2>2, <2>6, <3>3 DEF ConsInv, WaitsOnce
        <4>4. At(i, "waits") /\ At(i, "lost")' /\ (i \notin copied' => ~At(i, "waits")')
          BY <1>1, <4>1, <4>2, <4>3 DEF At
        <4>5. \A z : z # "waits" /\ z # "lost" => (At(i, z)' => At(i, z))
          BY <1>1, <1>2, Zenon DEF At
        <4>6. QED
          BY <1>1, <3>1, <4>4, <4>5, Moves
      <3>4. CASE i # taken.id /\ i # h.id
        <4>1. Waits(i)' <=> Waits(i)
          <5>1. \A k \in DOMAIN pending : pending[k].id = i => k # 1
            BY <2>2, <3>4
          <5>2. QED
            BY <1>1, <2>6, <3>4, <5>1 DEF Waits
        <4>2. i \in lost' <=> i \in lost
          BY <2>1, <3>4
        <4>3. SamePlaces(i)
          BY <1>1, <1>2, <4>1, <4>2 DEF SamePlaces
        <4>4. QED
          BY <1>1, <3>1, <4>3, Remains
      <3>5. QED
        BY <3>2, <3>3, <3>4
    <2>8. WaitsOnce'
      <3>1. ASSUME NEW k \in 1 .. n - 1, NEW l \in 1 .. n - 1, pending'[k].id = pending'[l].id,
                   pending'[k].id \notin copied
            PROVE  k = l
        <4>1. pending'[k] = pending[k + 1] /\ pending'[l] = pending[l + 1]
          BY <2>3
        <4>2. k + 1 \in DOMAIN pending /\ l + 1 \in DOMAIN pending
          BY <2>2, <2>4
        <4>3. pending[k + 1].id = pending[l + 1].id /\ pending[k + 1].id \notin copied
          BY <3>1, <4>1
        <4>4. k + 1 = l + 1
          BY <1>1, <4>2, <4>3 DEF ConsInv, WaitsOnce
        <4>5. QED
          BY <2>2, <4>4
      <3>2. ASSUME NEW k \in DOMAIN pending', ~(pc' = "shift" /\ k = length') PROVE k \in 1 .. n - 1
        BY <2>1, <2>3, <2>4, <3>2
      <3>3. QED
        BY <1>1, <3>1, <3>2 DEF WaitsOnce
    <2>9. TakenFirst'
      BY <1>3, <2>5 DEF TakenFirst
    <2>10. Ghosts'
      <3>1. ASSUME NEW k \in DOMAIN pending', NEW i, i = pending'[k].id, i \notin copied
            PROVE  Elsewhere(i)'
        <4>1. i \in 1 .. received
          BY <2>5, <3>1
        <4>2. \/ \E j \in DOMAIN pending : j # 1 /\ pending[j].id = i
              \/ pending[1].id = i
          BY <2>2, <2>3, <2>4, <3>1
        <4>3. CASE \E j \in DOMAIN pending : j # 1 /\ pending[j].id = i
          BY <2>6, <4>1, <4>3 DEF Elsewhere
        <4>4. CASE pending[1].id = i /\ i # taken.id
          <5>1. i \in lost'
            BY <2>1, <2>2, <4>4
          <5>2. QED
            BY <5>1 DEF Elsewhere
        <4>5. CASE pending[1].id = i /\ i = taken.id
          <5>1. Elsewhere(i) /\ ~Waits(i)
            BY <2>2, <3>1, <4>5 DEF ConsInv, Ghosts, Waits
          <5>2. lost \subseteq lost'
            BY <2>1
          <5>3. QED
            BY <1>2, <5>1, <5>2 DEF Elsewhere
        <4>6. QED
          BY <4>2, <4>3, <4>4, <4>5
      <3>2. QED
        BY <1>1, <3>1 DEF Ghosts
    <2>11. QED
      BY <1>1, <1>4, <2>7, <2>8, <2>9, <2>10 DEF ConsInv
  <1>7. QED
    BY <1>5, <1>6

(* The last place of the list is cut off.  When that is not the one left   *)
(* over the request there is lost, and the one left over is there twice.   *)
LEMMA ConsCut ==
  ASSUME TypeInv, ConsInv, Cut
  PROVE  ConsInv'
  <1> DEFINE n == Len(pending)
             g == pending[length].id
             l == pending[n].id
  <1>1. /\ pc = "shift" /\ pc' = "cut" /\ pending' = Front(pending)
        /\ UNCHANGED <<received, queues, events, command, taken, answered, written, dropped>>
        /\ n > length => copied' = copied \cup {g} /\ lost' = lost \cup {Last(pending).id}
        /\ ~(n > length) => copied' = copied /\ lost' = lost
    BY DEF Cut, queueVars
  <1>2. length \in DOMAIN pending /\ pending # <<>>
    BY <1>1 DEF TypeInv, PendingOk
  <1>3. /\ n \in Nat \ {0} /\ DOMAIN pending = 1 .. n
        /\ \A k \in DOMAIN pending : pending[k].id \in 1 .. received
    BY <1>2, HeadIs
  <1>4. /\ DOMAIN pending' = 1 .. n - 1 /\ \A k \in 1 .. n - 1 : pending'[k] = pending[k]
        /\ Last(pending) = pending[n]
    BY <1>1, <1>2, Fronted
  <1> HIDE DEF n, g, l
  <1>5. /\ \A k \in 1 .. n - 1 : k \in 1 .. n /\ k # n
        /\ \A k \in 1 .. n : k \in 1 .. n - 1 \/ k = n
        /\ length \in 1 .. n - 1 \/ length = n
        /\ n > length <=> length # n
    BY <1>2, <1>3
  <1>6. \A i \in 1 .. received : i # taken.id /\ i # taken'.id
    BY <1>1, NoneTaken DEF Enqueuing
  <1>7. ASSUME NEW i \in 1 .. received
        PROVE  /\ Waits(i)' <=> \E k \in 1 .. n - 1 : pending[k].id = i
               /\ Waits(i) <=> \E k \in 1 .. n : k # length /\ pending[k].id = i
               /\ ~InHand(i) /\ ~InHand(i)'
               /\ (InQueue(i)' <=> InQueue(i)) /\ (InEvents(i)' <=> InEvents(i))
    <2>1. Waits(i)' <=> \E k \in 1 .. n - 1 : pending[k].id = i
      BY <1>1, <1>4, <1>6 DEF Waits
    <2>2. Waits(i) <=> \E k \in 1 .. n : k # length /\ pending[k].id = i
      BY <1>1, <1>3, <1>6 DEF Waits
    <2>3. QED
      BY <1>1, <2>1, <2>2 DEF InHand, InQueue, InEvents
  <1>8. ASSUME length = n PROVE \A i \in 1 .. received : Good(i)'
    <2>1. copied' = copied /\ lost' = lost
      BY <1>1, <1>5, <1>8
    <2>2. ASSUME NEW i \in 1 .. received PROVE Good(i)'
      <3>1. Waits(i)' <=> Waits(i)
        BY <1>5, <1>7, <1>8
      <3>2. SamePlaces(i)
        BY <1>1, <1>7, <2>1, <3>1 DEF SamePlaces
      <3>3. QED
        BY <2>1, <3>2, Remains DEF ConsInv
    <2>3. QED
      BY <2>2
  <1>9. ASSUME length # n PROVE \A i \in 1 .. received : Good(i)'
    <2>1. copied' = copied \cup {g} /\ lost' = lost \cup {l} /\ length \in 1 .. n - 1
      BY <1>1, <1>4, <1>5, <1>9 DEF l
    <2>2. n \in 1 .. n /\ l = pending[n].id /\ g = pending[length].id
      BY <1>3 DEF l, g
    <2>3. ASSUME NEW i \in 1 .. received PROVE Good(i)'
      <3>1. Good(i)
        BY DEF ConsInv
      <3>2. CASE i = l
        <4>1. Waits(i)
          BY <1>7, <1>9, <2>2, <3>2
        <4>2. i \notin copied' => ~Waits(i)'
          <5>1. ASSUME i \notin copied', NEW k \in 1 .. n - 1, pending[k].id = i PROVE FALSE
            <6>1. k # length /\ i \notin copied
              BY <2>1, <2>2, <5>1
            <6>2. k \in DOMAIN pending /\ n \in DOMAIN pending /\ n # length /\ k # n
              BY <1>3, <1>5, <1>9, <2>2
            <6>3. pending[k].id = pending[n].id /\ pending[k].id \notin copied
              BY <2>2, <3>2, <5>1, <6>1
            <6>4. QED
              BY <6>1, <6>2, <6>3 DEF ConsInv, WaitsOnce
          <5>2. QED
            BY <1>7, <5>1
        <4>3. At(i, "waits") /\ At(i, "lost")' /\ (i \notin copied' => ~At(i, "waits")')
          BY <2>1, <3>2, <4>1, <4>2 DEF At
        <4>4. \A z : z # "waits" /\ z # "lost" => (At(i, z)' => At(i, z))
          BY <1>1, <1>7, Zenon DEF At
        <4>5. QED
          BY <2>1, <3>1, <4>3, <4>4, Moves
      <3>3. CASE i # l /\ i = g
        <4>1. At(i, "waits")'
          BY <1>7, <2>1, <2>2, <3>3 DEF At
        <4>2. i \in copied'
          BY <2>1, <3>3
        <4>3. QED
          BY <4>1, <4>2 DEF Good
      <3>4. CASE i # l /\ i # g
        <4>1. Waits(i)' <=> Waits(i)
          BY <1>5, <1>7, <2>2, <3>4
        <4>2. i \in lost' <=> i \in lost
          BY <2>1, <3>4
        <4>3. SamePlaces(i)
          BY <1>1, <1>7, <4>1, <4>2 DEF SamePlaces
        <4>4. QED
          BY <2>1, <3>1, <4>3, Remains
      <3>5. QED
        BY <3>2, <3>3, <3>4
    <2>4. QED
      BY <2>3
  <1>10. copied \subseteq copied' /\ (length # n => g \in copied')
    BY <1>1, <1>5
  <1>11. WaitsOnce'
    <2>1. ASSUME NEW k \in 1 .. n - 1, NEW m \in 1 .. n - 1, pending[k].id = pending[m].id,
                 pending[k].id \notin copied'
          PROVE  k = m
      <3>1. k # length /\ m # length
        BY <1>5, <1>10, <2>1 DEF g
      <3>2. QED
        BY <1>3, <1>5, <1>10, <2>1, <3>1 DEF ConsInv, WaitsOnce
    <2>2. QED
      BY <1>4, <2>1 DEF WaitsOnce
  <1>12. Ghosts'
    <2>1. ASSUME NEW k \in DOMAIN pending', NEW i, i = pending'[k].id PROVE Elsewhere(i)'
      <3>1. k \in 1 .. n - 1 /\ i = pending[k].id
        BY <1>4, <2>1
      <3>2. i \in 1 .. received
        BY <1>3, <1>5, <3>1
      <3>3. QED
        BY <1>7, <3>1, <3>2 DEF Elsewhere
    <2>2. QED
      BY <2>1 DEF Ghosts
  <1>13. TakenFirst'
    BY <1>3, <1>4, <1>5, <1>6 DEF TakenFirst
  <1>14. QueuedOnce' /\ EventsOnce'
    BY <1>1, <1>10 DEF ConsInv, QueuedOnce, EventsOnce
  <1>15. \A i \in 1 .. received : Good(i)'
    BY <1>8, <1>9
  <1>16. QED
    BY <1>1, <1>11, <1>12, <1>13, <1>14, <1>15 DEF ConsInv

(* A request that is received waits, or is lost at once.                   *)
LEMMA ConsReceive ==
  ASSUME TypeInv, ConsInv, NEW r \in Requests, Receive(r)
  PROVE  ConsInv'
  <1> DEFINE n == received + 1
             p == [type |-> r.type, id |-> n, bank |-> r.bank, row |-> r.row]
  <1>1. /\ received' = n
        /\ \/ pending' = Append(pending, p) /\ lost' = lost
           \/ pending' = pending /\ lost' = lost \cup {n}
        /\ UNCHANGED <<queues, events, pc, command, taken, length, answered, written, dropped, copied>>
    BY DEF Receive, thread, queueVars
  <1>2. /\ received \in Nat /\ n \in Nat /\ n \notin 1 .. received
        /\ \A i \in 1 .. n : i \in 1 .. received \/ i = n
        /\ 0 .. received \subseteq 0 .. n
    BY Numbers DEF TypeInv, ClocksOk
  <1>3. p.id = n
    OBVIOUS
  <1> HIDE DEF n, p
  <1>4. \A x : ~At(n, x)
    BY <1>2, Nowhere
  <1>5. n # taken.id /\ n \notin copied
    <2>1. taken.id \in 1 .. received \/ taken.id = NoId
      BY DEF TypeInv, TakenTyped, ClocksOk, Enqueuing, NoPacket, NoId
    <2>2. n # NoId
      BY <1>2 DEF n, NoId
    <2>3. n \notin copied
      BY <1>2, FatesAre DEF TypeInv
    <2>4. QED
      BY <1>2, <2>1, <2>2, <2>3
  <1>6. /\ DOMAIN pending = 1 .. Len(pending) /\ Len(pending) \in Nat
        /\ Append(pending, p) # pending
        /\ pending' # pending => /\ DOMAIN pending' = 1 .. Len(pending) + 1
                                 /\ pending'[Len(pending) + 1].id = n /\ lost' = lost
                                 /\ \A k \in 1 .. Len(pending) : pending'[k] = pending[k]
    <2> DEFINE E == [type : {r.type}, id : {n}, bank : {r.bank}, row : {r.row}] \cup Packet
    <2>1. p \in E
      BY DEF p
    <2>2. pending \in Seq(E)
      <3>1. pending \in Seq(Packet)
        BY DEF TypeInv, PendingOk
      <3> DEFINE F == Packet
      <3> HIDE DEF F
      <3>2. pending \in Seq(F) /\ F \subseteq E
        BY <3>1 DEF F
      <3> HIDE DEF E
      <3>3. QED
        BY <3>2
    <2> HIDE DEF E
    <2>3. Len(Append(pending, p)) = Len(pending) + 1 /\ Len(pending) \in Nat
      BY <2>1, <2>2, AppendProperties
    <2>4. \A x \in Nat : x + 1 # x
      OBVIOUS
    <2>5. Append(pending, p) # pending
      BY <2>3, <2>4, Zenon
    <2>6. QED
      BY <1>1, <1>3, <2>1, <2>2, <2>5, AppendProperties
  <1>7. /\ \A k \in 1 .. Len(pending) : k \in 1 .. Len(pending) + 1
        /\ \A k \in 1 .. Len(pending) + 1 : k \in 1 .. Len(pending) \/ k = Len(pending) + 1
        /\ Len(pending) + 1 \in 1 .. Len(pending) + 1
    <2>1. \A x \in Nat : /\ \A k \in 1 .. x : k \in 1 .. x + 1
                         /\ \A k \in 1 .. x + 1 : k \in 1 .. x \/ k = x + 1
                         /\ x + 1 \in 1 .. x + 1
      OBVIOUS
    <2>2. Len(pending) \in Nat
      BY <1>6, Zenon
    <2>3. QED
      BY <2>1, <2>2, Zenon
  <1>8. \A k \in DOMAIN pending : k \in DOMAIN pending' /\ pending'[k] = pending[k]
    BY <1>6, <1>7
  <1>9. \A k \in DOMAIN pending' :
          k \in DOMAIN pending \/ (k = Len(pending) + 1 /\ pending'[k].id = n)
    BY <1>6, <1>7
  <1>10. \A k \in DOMAIN pending : pending[k].id # n
    BY <1>2 DEF TypeInv, PendingOk
  <1>11. pc = "shift" => length \in DOMAIN pending /\ length # Len(pending) + 1
    <2>1. pc = "shift" => length \in 1 .. Len(pending)
      BY <1>6 DEF TypeInv, PendingOk
    <2>2. \A x \in Nat : \A k \in 1 .. x : k # x + 1
      OBVIOUS
    <2>3. Len(pending) \in Nat
      BY <1>6, Zenon
    <2>4. QED
      BY <1>6, <2>1, <2>2, <2>3, Zenon
  <1>12. ASSUME NEW i, i # n PROVE SamePlaces(i)
    <2>1. Waits(i)' <=> Waits(i)
      BY <1>1, <1>8, <1>9, <1>12 DEF Waits
    <2>2. QED
      BY <1>1, <1>12, <2>1 DEF SamePlaces, InQueue, InHand, InEvents
  <1>13. ASSUME NEW i, i = n PROVE Good(i)'
    <2>1. (InQueue(i)' <=> InQueue(i)) /\ (InHand(i)' <=> InHand(i)) /\ (InEvents(i)' <=> InEvents(i))
      BY <1>1 DEF InQueue, InHand, InEvents
    <2>2. \A z : z # "waits" /\ z # "lost" => (At(i, z)' => At(i, z))
      BY <1>1, <2>1, Zenon DEF At
    <2>3. ~Waits(i) /\ i \notin lost
      BY <1>4, <1>13 DEF At
    <2>4. CASE pending' # pending
      <3>1. Len(pending) + 1 \in DOMAIN pending'
        BY <1>6, <1>7, <2>4
      <3>2. Waits(i)'
        BY <1>1, <1>5, <1>6, <1>11, <1>13, <2>4, <3>1 DEF Waits
      <3>3. i \notin lost'
        BY <1>6, <1>13, <2>3, <2>4
      <3>4. At(i, "waits")' /\ ~At(i, "lost")'
        BY <3>2, <3>3 DEF At
      <3>5. \A y : At(i, y)' <=> y = "waits"
        BY <1>4, <1>13, <2>2, <3>4
      <3>6. QED
        BY <3>5 DEF Good, OnePlace, OnlyAt
    <2>5. CASE pending' = pending
      <3>1. ~Waits(i)'
        BY <1>1, <2>3, <2>5 DEF Waits
      <3>2. i \in lost'
        BY <1>1, <1>6, <1>13, <2>5
      <3>3. At(i, "lost")' /\ ~At(i, "waits")'
        BY <3>1, <3>2 DEF At
      <3>4. \A y : At(i, y)' <=> y = "lost"
        BY <1>4, <1>13, <2>2, <3>3
      <3>5. QED
        BY <3>4 DEF Good, OnePlace, OnlyAt
    <2>6. QED
      BY <2>4, <2>5
  <1>14. ASSUME NEW i \in 1 .. n PROVE Good(i)'
    <2>1. CASE i # n
      BY <1>1, <1>2, <1>12, <2>1, Remains DEF ConsInv
    <2>2. QED
      BY <1>13, <2>1
  <1>15. WaitsOnce'
    BY <1>1, <1>8, <1>9, <1>10 DEF ConsInv, WaitsOnce
  <1>16. TakenFirst'
    BY <1>1, <1>5, <1>8, <1>9 DEF ConsInv, TakenFirst
  <1>17. Ghosts'
    <2>1. ASSUME NEW k \in DOMAIN pending', NEW i, i = pending'[k].id, i \notin copied
          PROVE  Elsewhere(i)'
      <3>1. CASE k \in DOMAIN pending
        <4>1. Elsewhere(i) /\ i # n
          BY <1>8, <1>10, <2>1, <3>1 DEF ConsInv, Ghosts
        <4>2. QED
          BY <1>12, <4>1, StillElsewhere
      <3>2. CASE k \notin DOMAIN pending
        <4>1. k = Len(pending) + 1 /\ i = n
          BY <1>9, <2>1, <3>2
        <4>2. Waits(i)'
          BY <1>1, <1>5, <1>11, <2>1, <4>1 DEF Waits
        <4>3. QED
          BY <4>1, <4>2 DEF Elsewhere
      <3>3. QED
        BY <3>1, <3>2
    <2>2. QED
      BY <1>1, <2>1 DEF Ghosts
  <1>18. QueuedOnce' /\ EventsOnce'
    BY <1>1 DEF ConsInv, QueuedOnce, EventsOnce
  <1>19. QED
    BY <1>1, <1>14, <1>15, <1>16, <1>17, <1>18 DEF ConsInv

(* What a handler of a column command does with it: an event more, or one  *)
(* thing to say of it.                                                     *)
LEMMA ColumnFate ==
  ASSUME TypeInv, NEW e \in events, Handler(e), e.packet.type \in Columns
  PROVE  \/ /\ UNCHANGED <<answered, written, dropped>>
            /\ \E n : n.packet = e.packet /\ events' = (events \ {e}) \cup {n}
         \/ /\ events' = events \ {e} /\ answered' = answered \cup {e.packet.id}
            /\ UNCHANGED <<written, dropped>>
         \/ /\ events' = events \ {e} /\ written' = written \cup {e.packet.id}
            /\ UNCHANGED <<answered, dropped>>
         \/ /\ events' = events \ {e} /\ dropped' = dropped \cup {e.packet.id}
            /\ UNCHANGED <<answered, written>>
  <1>1. EventOk(e, received)
    BY DEF TypeInv, EventsOk
  <1>2. ~RankActivate(e) /\ ~RankPrecharge(e) /\ ~RankRefresh(e) /\ ~StateUpdate(e)
    BY <1>1 DEF RankActivate, RankPrecharge, RankRefresh, StateUpdate, Command, Due, EventOk, Columns
  <1>3. \A t, k : Event(t, k, e.packet).packet = e.packet
    BY DEF Event
  <1>4. CASE RankRead(e)
    <2>1. \/ /\ events' = (events \ {e}) \cup {Event(e.time + tRL, "column", e.packet)}
             /\ UNCHANGED <<answered, written, dropped>>
          \/ /\ events' = events \ {e} /\ dropped' = dropped \cup {e.packet.id}
             /\ UNCHANGED <<answered, written>>
      BY <1>4 DEF RankRead
    <2>2. QED
      BY <1>3, <2>1
  <1>5. CASE RankWrite(e)
    BY <1>5 DEF RankWrite
  <1>6. CASE ColumnReadComplete(e)
    <2>1. /\ \/ events' = (events \ {e}) \cup {Event(e.time + tBL2, "response", e.packet)}
             \/ events' = (events \ {e}) \cup {Event(e.time + (busFreeTime - clock), "column", e.packet)}
          /\ UNCHANGED <<answered, written, dropped>>
      BY <1>6 DEF ColumnReadComplete, history
    <2>2. QED
      BY <1>3, <2>1
  <1>7. CASE RankResponse(e)
    BY <1>7 DEF RankResponse
  <1>8. QED
    BY <1>2, <1>4, <1>5, <1>6, <1>7 DEF Handler

(* What a handler of another command does with requests: nothing.          *)
LEMMA ControlFate ==
  ASSUME TypeInv, NEW e \in events, Handler(e), e.packet.type \notin Columns
  PROVE  UNCHANGED <<answered, written, dropped>> /\ events' = events \ {e}
  <1>1. EventOk(e, received)
    BY DEF TypeInv, EventsOk
  <1>2. ~RankRead(e) /\ ~RankWrite(e) /\ ~ColumnReadComplete(e) /\ ~RankResponse(e)
    BY <1>1 DEF RankRead, RankWrite, ColumnReadComplete, RankResponse, Command, Due, EventOk, Columns
  <1>3. QED
    BY <1>2 DEF Handler, RankActivate, RankPrecharge, RankRefresh, StateUpdate, history

(* A handler moves at most the request it is for.                          *)
LEMMA ConsHandler ==
  ASSUME TypeInv, ConsInv, NEW e \in events, Handler(e)
  PROVE  ConsInv'
  <1>1. UNCHANGED <<received, pending, queues, taken, length, pc, command, lost, copied>>
    BY HandlerIs DEF queueVars, thread
  <1>2. ASSUME NEW i
        PROVE  (Waits(i)' <=> Waits(i)) /\ (InQueue(i)' <=> InQueue(i)) /\ (InHand(i)' <=> InHand(i))
    BY <1>1 DEF Waits, InQueue, InHand
  <1>3. ASSUME NEW i \in 1 .. received PROVE Good(i)'
    <2>1. Good(i)
      BY DEF ConsInv
    <2>2. CASE e.packet.type \notin Columns
      <3>1. UNCHANGED <<answered, written, dropped>> /\ events' = events \ {e}
        BY <2>2, ControlFate
      <3>2. InEvents(i)' <=> InEvents(i)
        BY <2>2, <3>1 DEF InEvents
      <3>3. SamePlaces(i)
        BY <1>1, <1>2, <3>1, <3>2 DEF SamePlaces
      <3>4. QED
        BY <1>1, <2>1, <3>3, Remains
    <2>3. CASE e.packet.type \in Columns /\ e.packet.id # i
      <3>1. \A f \in events' : f \in events \/ f.packet = e.packet
        BY <2>3, ColumnFate
      <3>2. events \ {e} \subseteq events'
        BY <2>3, ColumnFate
      <3>3. InEvents(i)' <=> InEvents(i)
        BY <2>3, <3>1, <3>2 DEF InEvents
      <3>4. /\ i \in answered' <=> i \in answered
            /\ i \in written' <=> i \in written
            /\ i \in dropped' <=> i \in dropped
        BY <2>3, ColumnFate
      <3>5. SamePlaces(i)
        BY <1>1, <1>2, <3>3, <3>4 DEF SamePlaces
      <3>6. QED
        BY <1>1, <2>1, <3>5, Remains
    <2>4. CASE e.packet.type \in Columns /\ e.packet.id = i
      <3>1. At(i, "events")
        BY <2>4 DEF At, InEvents
      <3>2. events' = events \ {e} /\ i \notin copied => ~InEvents(i)'
        BY <2>4 DEF ConsInv, EventsOnce, InEvents
      <3>3. ASSUME NEW y \in {"answered", "written", "dropped"}, events' = events \ {e},
                   At(i, y)', \A z : z # "events" /\ z # y => (At(i, z)' => At(i, z))
            PROVE  Good(i)'
        <4>1. i \notin copied' => ~At(i, "events")'
          BY <1>1, <3>2, <3>3 DEF At
        <4>2. QED
          BY <1>1, <2>1, <3>1, <3>3, <4>1, Moves
      <3>4. CASE /\ UNCHANGED <<answered, written, dropped>>
                 /\ \E n : n.packet = e.packet /\ events' = (events \ {e}) \cup {n}
        <4>1. InEvents(i)' /\ InEvents(i)
          BY <2>4, <3>4 DEF InEvents
        <4>2. SamePlaces(i)
          BY <1>1, <1>2, <3>4, <4>1 DEF SamePlaces
        <4>3. QED
          BY <1>1, <2>1, <4>2, Remains
      <3>5. CASE /\ events' = events \ {e} /\ answered' = answered \cup {e.packet.id}
                 /\ UNCHANGED <<written, dropped>>
        <4>1. At(i, "answered")'
          BY <2>4, <3>5 DEF At
        <4>2. \A z : z # "events" /\ z # "answered" => (At(i, z)' => At(i, z))
          BY <1>1, <1>2, <3>5, Zenon DEF At
        <4>3. QED
          BY <3>3, <3>5, <4>1, <4>2
      <3>6. CASE /\ events' = events \ {e} /\ written' = written \cup {e.packet.id}
                 /\ UNCHANGED <<answered, dropped>>
        <4>1. At(i, "written")'
          BY <2>4, <3>6 DEF At
        <4>2. \A z : z # "events" /\ z # "written" => (At(i, z)' => At(i, z))
          BY <1>1, <1>2, <3>6, Zenon DEF At
        <4>3. QED
          BY <3>3, <3>6, <4>1, <4>2
      <3>7. CASE /\ events' = events \ {e} /\ dropped' = dropped \cup {e.packet.id}
                 /\ UNCHANGED <<answered, written>>
        <4>1. At(i, "dropped")'
          BY <2>4, <3>7 DEF At
        <4>2. \A z : z # "events" /\ z # "dropped" => (At(i, z)' => At(i, z))
          BY <1>1, <1>2, <3>7, Zenon DEF At
        <4>3. QED
          BY <3>3, <3>7, <4>1, <4>2
      <3>8. QED
        BY <2>4, <3>4, <3>5, <3>6, <3>7, ColumnFate
    <2>5. QED
      BY <2>2, <2>3, <2>4
  <1>4. EventsOnce'
    <2>1. \/ events' = events \ {e}
          \/ \E n : n.packet = e.packet /\ events' = (events \ {e}) \cup {n}
      BY ControlFate, ColumnFate
    <2>2. CASE events' = events \ {e}
      BY <1>1, <2>2 DEF ConsInv, EventsOnce
    <2>3. CASE \E n : n.packet = e.packet /\ events' = (events \ {e}) \cup {n}
      <3>1. PICK n : n.packet = e.packet /\ events' = (events \ {e}) \cup {n}
        BY <2>3
      <3>2. ASSUME NEW f \in events', NEW g \in events', f.packet.type \in Columns,
                   g.packet.type \in Columns, f.packet.id = g.packet.id, f.packet.id \notin copied
            PROVE  f = g
        BY <3>1, <3>2 DEF ConsInv, EventsOnce
      <3>3. QED
        BY <1>1, <3>2 DEF EventsOnce
    <2>4. QED
      BY <2>1, <2>2, <2>3
  <1>5. Ghosts'
    <2>1. ASSUME NEW i, Elsewhere(i) PROVE Elsewhere(i)'
      BY <1>1, <1>2, <2>1 DEF Elsewhere
    <2>2. ASSUME NEW k \in DOMAIN pending, NEW i, i = pending[k].id, i \notin copied
          PROVE  Elsewhere(i)'
      BY <2>1, <2>2 DEF ConsInv, Ghosts
    <2>3. QED
      BY <1>1, <2>2 DEF Ghosts
  <1>6. WaitsOnce' /\ QueuedOnce' /\ TakenFirst'
    BY <1>1 DEF ConsInv, WaitsOnce, QueuedOnce, TakenFirst
  <1>7. QED
    BY <1>1, <1>3, <1>4, <1>5, <1>6 DEF ConsInv

(* What the DRAM thread has in hand.                                       *)
LEMMA HandIs ==
  /\ \A p : p \in Hand <=> /\ p.type \in Columns
                           /\ \/ pc = "send" /\ p = command
                              \/ pc \in {"activate", "column"} /\ p = taken
  /\ \A i : InHand(i) <=> \E p \in Hand : p.id = i
  <1>1. \A p : p \in Hand <=> /\ p.type \in Columns
                              /\ \/ pc = "send" /\ p = command
                                 \/ pc \in {"activate", "column"} /\ p = taken
    <2>1. CASE pc = "send"
      BY <2>1 DEF Hand
    <2>2. CASE pc \in {"activate", "column"}
      BY <2>2 DEF Hand
    <2>3. CASE pc \notin {"send", "activate", "column"}
      <3>1. Hand = {p \in {} : p.type \in Columns}
        BY <2>3 DEF Hand
      <3>2. QED
        BY <2>3, <3>1
    <2>4. QED
      BY <2>1, <2>2, <2>3
  <1>2. QED
    BY <1>1 DEF InHand

(* A hand-over loses what waits, is in a command queue or in the events,   *)
(* but for what the DRAM thread has in hand.                               *)
LEMMA ConsClear ==
  ASSUME TypeInv, ConsInv, Clear
  PROVE  ConsInv'
  <1>1. /\ events' = {} /\ pending' = <<>> /\ queues' = [b \in Banks |-> <<>>]
        /\ lost' = lost \cup UnderWay
        /\ pc' = pc \/ (pc \in {"shift", "cut"} /\ pc' = "enqueue")
        /\ UNCHANGED <<received, command, taken, answered, written, dropped, copied>>
    BY DEF Clear
  <1>2. \A i : ~Waits(i)' /\ ~InQueue(i)' /\ ~InEvents(i)'
    BY <1>1 DEF Waits, InQueue, InEvents
  <1>3. \A i : InHand(i)' <=> InHand(i)
    BY <1>1 DEF InHand
  <1>4. ASSUME NEW i
        PROVE  i \in UnderWay <=>
                 /\ ~InHand(i)
                 /\ \/ \E k \in DOMAIN pending : i = pending[k].id
                    \/ \E b \in Banks : \E k \in DOMAIN queues[b] : i = queues[b][k].id
                    \/ InEvents(i)
    <2>1. InHand(i) <=> \E p \in Hand : p.id = i
      BY HandIs
    <2>2. QED
      BY <2>1, UnderWayIs DEF InEvents
  <1>5. ASSUME NEW i \in UnderWay, i \notin copied
        PROVE  Waits(i) \/ InQueue(i) \/ InEvents(i) \/ i \in lost
    <2>1. ~InHand(i)
      BY <1>4
    <2>2. CASE \E k \in DOMAIN pending : i = pending[k].id
      BY <1>5, <2>1, <2>2 DEF ConsInv, Ghosts, Elsewhere
    <2>3. ASSUME NEW b \in Banks, NEW k \in DOMAIN queues[b], i = queues[b][k].id
          PROVE  InQueue(i)
      <3>1. /\ queues[b][k].type \in Columns \cup {"ACTIVATE"}
            /\ queues[b][k].type = "ACTIVATE" => Paired(queues[b], k) \/ HalfAt(queues[b], b, k)
        BY DEF TypeInv, QueuesOk, NearlyShape
      <3>2. CASE queues[b][k].type \in Columns
        BY <2>3, <3>2 DEF InQueue
      <3>3. CASE queues[b][k].type = "ACTIVATE" /\ Paired(queues[b], k)
        BY <2>3, <3>3 DEF Paired, InQueue
      <3>4. CASE queues[b][k].type = "ACTIVATE" /\ HalfAt(queues[b], b, k)
        <4>1. pc = "column" /\ queues[b][k] = Activate(taken)
          BY <3>4 DEF HalfAt
        <4>2. taken \in Packet /\ taken.type \in Columns
          BY <4>1 DEF TypeInv, TakenTyped, Enqueuing
        <4>3. i = taken.id
          BY <2>3, <4>1, <4>2, ActivateIs
        <4>4. QED
          BY <2>1, <4>1, <4>2, <4>3 DEF InHand
      <3>5. QED
        BY <3>1, <3>2, <3>3, <3>4
    <2>4. QED
      BY <1>4, <2>2, <2>3
  <1>6. ASSUME NEW i, i \notin UnderWay
        PROVE  InHand(i) \/ (~Waits(i) /\ ~InQueue(i) /\ ~InEvents(i))
    BY <1>4, <1>6 DEF Waits, InQueue
  <1>7. ASSUME NEW i \in 1 .. received PROVE Good(i)'
    <2>1. Good(i)
      BY DEF ConsInv
    <2>2. \A z : z # "lost" => (At(i, z)' => At(i, z))
      BY <1>1, <1>2, <1>3, Zenon DEF At
    <2>3. CASE i \in UnderWay
      <3>1. At(i, "lost")'
        BY <1>1, <2>3 DEF At
      <3>2. CASE i \in copied
        BY <1>1, <3>1, <3>2 DEF Good
      <3>3. CASE Waits(i) \/ InQueue(i) \/ InEvents(i)
        <4>1. PICK x \in {"waits", "queue", "events"} : At(i, x)
          BY <3>3 DEF At
        <4>2. ~At(i, x)'
          BY <1>2, Zenon DEF At
        <4>3. QED
          BY <1>1, <2>1, <2>2, <3>1, <4>1, <4>2, Moves
      <3>4. CASE i \in lost
        <4>1. At(i, "lost")
          BY <3>4 DEF At
        <4>2. QED
          BY <1>1, <2>1, <2>2, <3>1, <4>1, Moves
      <3>5. QED
        BY <1>5, <2>3, <3>2, <3>3, <3>4
    <2>4. CASE i \notin UnderWay /\ InHand(i)
      <3>1. At(i, "hand") /\ At(i, "hand")'
        BY <1>3, <2>4 DEF At
      <3>2. At(i, "lost")' => At(i, "lost")
        BY <1>1, <2>4 DEF At
      <3>3. QED
        BY <1>1, <2>1, <2>2, <3>1, <3>2, Moves
    <2>5. CASE i \notin UnderWay /\ ~InHand(i)
      <3>1. SamePlaces(i)
        BY <1>1, <1>2, <1>3, <1>6, <2>5 DEF SamePlaces
      <3>2. QED
        BY <1>1, <2>1, <3>1, Remains
    <2>6. QED
      BY <2>3, <2>4, <2>5
  <1>8. WaitsOnce' /\ QueuedOnce' /\ EventsOnce' /\ TakenFirst' /\ Ghosts'
    BY <1>1 DEF WaitsOnce, QueuedOnce, EventsOnce, TakenFirst, Ghosts
  <1>9. QED
    BY <1>1, <1>7, <1>8 DEF ConsInv

(* Nothing has been received at first.                                     *)
LEMMA ConsInit == Init => ConsInv
  <1> SUFFICES ASSUME Init PROVE ConsInv
    OBVIOUS
  <1>1. /\ received = 0 /\ pending = <<>> /\ events = {}
        /\ queues = [b \in Banks |-> <<>>]
    BY DEF Init, FreshController
  <1>2. \A i \in 1 .. received : FALSE
    BY <1>1
  <1>3. WaitsOnce /\ QueuedOnce /\ EventsOnce /\ TakenFirst /\ Ghosts
    BY <1>1 DEF WaitsOnce, QueuedOnce, EventsOnce, TakenFirst, Ghosts
  <1>4. QED
    BY <1>2, <1>3 DEF ConsInv

(* Every step keeps that.                                                  *)
LEMMA ConsInductive == TypeInv /\ ConsInv /\ [Next]_vars => ConsInv'
  <1> SUFFICES ASSUME TypeInv, ConsInv, [Next]_vars PROVE ConsInv'
    OBVIOUS
  <1>1. CASE StartCycle \/ EndCycle \/ EndEvents \/ Tick \/ Removed \/ UNCHANGED vars
    BY <1>1, ConsIdle
  <1>2. CASE Pop
    <2>1. \/ pc' = "enqueue" /\ UNCHANGED queues
          \/ \E c \in Popped : pc' = "send" /\ command' = c.packet /\ CutOut(c)
      BY <1>2 DEF Pop, CutOut
    <2>2. QED
      BY <1>2, <2>1, ConsIdle, ConsPop
  <1>3. CASE Send
    BY <1>3, ConsSend
  <1>4. CASE Take \/ EnqueueActivate \/ EnqueueColumn
    BY <1>4, ConsTake, ConsEnqueueActivate, ConsEnqueueColumn
  <1>5. CASE Shift \/ Cut
    BY <1>5, ConsShift, ConsCut
  <1>6. CASE \E r \in Requests : Receive(r)
    BY <1>6, ConsReceive
  <1>7. CASE \E e \in events : Handler(e)
    BY <1>7, ConsHandler
  <1>8. CASE Clear
    BY <1>8, ConsClear
  <1>9. QED
    BY <1>1, <1>2, <1>3, <1>4, <1>5, <1>6, <1>7, <1>8 DEF Next, Handler

(* The places of a request in the sense of that are those it is at: there  *)
(* is one, and no other unless it has been put twice into the list.        *)
LEMMA OneIsOne == TypeInv /\ ConsInv => RequestsConserved
  <1> SUFFICES ASSUME TypeInv, ConsInv, NEW i \in 1 .. received
               PROVE  Cardinality(Places(i)) = 1 \/ (i \in copied /\ Places(i) # {})
    BY DEF RequestsConserved
  <1> DEFINE W == {"list"} \X {k \in DOMAIN pending :
                      pending[k].id = i /\ i # taken.id /\ ~(pc = "shift" /\ k = length)}
             Q == {"queue"} \X {bk \in UNION {{b} \X DOMAIN queues[b] : b \in Banks} :
                      queues[bk[1]][bk[2]].id = i /\ queues[bk[1]][bk[2]].type \in Columns}
             H == {"hand"} \X {p \in Hand : p.id = i}
             V == {"event"} \X {e \in events : e.packet.id = i /\ e.packet.type \in Columns}
             F == {S \in {<<"answered", answered>>, <<"written", written>>, <<"dropped", dropped>>,
                          <<"lost", lost>>} : i \in S[2]}
  <1>1. Places(i) = W \cup Q \cup H \cup V \cup F
    BY DEF Places
  <1>2. Good(i)
    BY DEF ConsInv
  <1>3. /\ W # {} <=> Waits(i)
        /\ i \notin copied => \A y, z \in W : y = z
    <2>1. ASSUME NEW z \in W
          PROVE  \E k \in DOMAIN pending : /\ z = <<"list", k>> /\ pending[k].id = i /\ i # taken.id
                                           /\ ~(pc = "shift" /\ k = length)
      OBVIOUS
    <2>2. ASSUME NEW k \in DOMAIN pending, pending[k].id = i, i # taken.id,
                 ~(pc = "shift" /\ k = length)
          PROVE  <<"list", k>> \in W
      BY <2>2
    <2> HIDE DEF W
    <2>3. W # {} <=> Waits(i)
      BY <2>1, <2>2 DEF Waits
    <2>4. ASSUME i \notin copied, NEW y \in W, NEW z \in W PROVE y = z
      <3>1. PICK k \in DOMAIN pending : /\ y = <<"list", k>> /\ pending[k].id = i
                                        /\ ~(pc = "shift" /\ k = length)
        BY <2>1
      <3>2. PICK l \in DOMAIN pending : /\ z = <<"list", l>> /\ pending[l].id = i
                                        /\ ~(pc = "shift" /\ l = length)
        BY <2>1
      <3>3. k = l
        BY <2>4, <3>1, <3>2 DEF ConsInv, WaitsOnce
      <3>4. QED
        BY <3>1, <3>2, <3>3
    <2>5. QED
      BY <2>3, <2>4
  <1>4. /\ Q # {} <=> InQueue(i)
        /\ i \notin copied => \A y, z \in Q : y = z
    <2>1. ASSUME NEW z \in Q
          PROVE  \E b \in Banks : \E k \in DOMAIN queues[b] :
                   z = <<"queue", <<b, k>>>> /\ queues[b][k].id = i /\ queues[b][k].type \in Columns
      <3>1. PICK bk \in UNION {{b} \X DOMAIN queues[b] : b \in Banks} :
              /\ z = <<"queue", bk>>
              /\ queues[bk[1]][bk[2]].id = i /\ queues[bk[1]][bk[2]].type \in Columns
        OBVIOUS
      <3>2. PICK b \in Banks : bk \in {b} \X DOMAIN queues[b]
        OBVIOUS
      <3>3. PICK k \in DOMAIN queues[b] : bk = <<b, k>>
        BY <3>2
      <3>4. QED
        BY <3>1, <3>3
    <2>2. ASSUME NEW b \in Banks, NEW k \in DOMAIN queues[b], queues[b][k].id = i,
                 queues[b][k].type \in Columns
          PROVE  <<"queue", <<b, k>>>> \in Q
      <3>1. <<b, k>> \in {b} \X DOMAIN queues[b]
        OBVIOUS
      <3>2. <<b, k>> \in UNION {{a} \X DOMAIN queues[a] : a \in Banks}
        BY <3>1
      <3>3. <<b, k>>[1] = b /\ <<b, k>>[2] = k
        OBVIOUS
      <3>4. QED
        BY <2>2, <3>2, <3>3
    <2> HIDE DEF Q
    <2>3. Q # {} <=> InQueue(i)
      BY <2>1, <2>2 DEF InQueue
    <2>4. ASSUME i \notin copied, NEW y \in Q, NEW z \in Q PROVE y = z
      <3>1. PICK b \in Banks : \E k \in DOMAIN queues[b] :
              y = <<"queue", <<b, k>>>> /\ queues[b][k].id = i /\ queues[b][k].type \in Columns
        BY <2>1
      <3>2. PICK k \in DOMAIN queues[b] :
              y = <<"queue", <<b, k>>>> /\ queues[b][k].id = i /\ queues[b][k].type \in Columns
        BY <3>1
      <3>3. PICK c \in Banks : \E l \in DOMAIN queues[c] :
              z = <<"queue", <<c, l>>>> /\ queues[c][l].id = i /\ queues[c][l].type \in Columns
        BY <2>1
      <3>4. PICK l \in DOMAIN queues[c] :
              z = <<"queue", <<c, l>>>> /\ queues[c][l].id = i /\ queues[c][l].type \in Columns
        BY <3>3
      <3>5. b = c /\ k = l
        BY <2>4, <3>2, <3>4 DEF ConsInv, QueuedOnce
      <3>6. QED
        BY <3>2, <3>4, <3>5
    <2>5. QED
      BY <2>3, <2>4
  <1>5. /\ H # {} <=> InHand(i)
        /\ \A y, z \in H : y = z
    <2>1. \A p, r \in Hand : p = r
      BY HandIs
    <2>2. \A z : z \in H <=> \E p \in Hand : z = <<"hand", p>> /\ p.id = i
      OBVIOUS
    <2> HIDE DEF H
    <2>3. H # {} <=> InHand(i)
      BY <2>2, HandIs
    <2>4. QED
      BY <2>1, <2>2, <2>3
  <1>6. /\ V # {} <=> InEvents(i)
        /\ i \notin copied => \A y, z \in V : y = z
    <2>1. \A z : z \in V <=> \E e \in events : /\ z = <<"event", e>> /\ e.packet.id = i
                                               /\ e.packet.type \in Columns
      OBVIOUS
    <2> HIDE DEF V
    <2>2. V # {} <=> InEvents(i)
      BY <2>1 DEF InEvents
    <2>3. i \notin copied => \A y, z \in V : y = z
      BY <2>1 DEF ConsInv, EventsOnce
    <2>4. QED
      BY <2>2, <2>3
  <1>7. \A z : z \in F <=> \/ z = <<"answered", answered>> /\ i \in answered
                           \/ z = <<"written", written>> /\ i \in written
                           \/ z = <<"dropped", dropped>> /\ i \in dropped
                           \/ z = <<"lost", lost>> /\ i \in lost
    OBVIOUS
  <1> HIDE DEF W, Q, H, V, F
  <1>8. Places(i) # {}
    <2>1. PICK x : At(i, x)
      BY <1>2 DEF Good
    <2>2. W # {} \/ Q # {} \/ H # {} \/ V # {} \/ F # {}
      BY <1>3, <1>4, <1>5, <1>6, <1>7, <2>1 DEF At
    <2>3. QED
      BY <1>1, <2>2
  <1>9. CASE i \in copied
    BY <1>8, <1>9
  <1>10. CASE i \notin copied
    <2>1. PICK x : \A y : At(i, y) <=> y = x
      BY <1>2, <1>10 DEF Good, OnePlace, OnlyAt
    <2>2. /\ Waits(i) => x = "waits"
          /\ InQueue(i) => x = "queue"
          /\ InHand(i) => x = "hand"
          /\ InEvents(i) => x = "events"
          /\ i \in answered => x = "answered"
          /\ i \in written => x = "written"
          /\ i \in dropped => x = "dropped"
          /\ i \in lost => x = "lost"
      BY <2>1 DEF At
    <2>3. F # {} => x \in {"answered", "written", "dropped", "lost"}
      BY <1>7, <2>2
    <2>4. \A y, z \in F : y = z
      BY <1>7, <2>2
    <2>5. ASSUME NEW y \in Places(i), NEW z \in Places(i) PROVE y = z
      <3>1. CASE x = "waits"
        <4>1. Q = {} /\ H = {} /\ V = {} /\ F = {}
          BY <1>4, <1>5, <1>6, <2>2, <2>3, <3>1
        <4>2. QED
          BY <1>1, <1>3, <1>10, <4>1
      <3>2. CASE x = "queue"
        <4>1. W = {} /\ H = {} /\ V = {} /\ F = {}
          BY <1>3, <1>5, <1>6, <2>2, <2>3, <3>2
        <4>2. QED
          BY <1>1, <1>4, <1>10, <4>1
      <3>3. CASE x = "hand"
        <4>1. W = {} /\ Q = {} /\ V = {} /\ F = {}
          BY <1>3, <1>4, <1>6, <2>2, <2>3, <3>3
        <4>2. QED
          BY <1>1, <1>5, <4>1
      <3>4. CASE x = "events"
        <4>1. W = {} /\ Q = {} /\ H = {} /\ F = {}
          BY <1>3, <1>4, <1>5, <2>2, <2>3, <3>4
        <4>2. QED
          BY <1>1, <1>6, <1>10, <4>1
      <3>5. CASE x \notin {"waits", "queue", "hand", "events"}
        <4>1. W = {} /\ Q = {} /\ H = {} /\ V = {}
          BY <1>3, <1>4, <1>5, <1>6, <2>2, <3>5
        <4>2. QED
          BY <1>1, <2>4, <4>1
      <3>6. QED
        BY <3>1, <3>2, <3>3, <3>4, <3>5
    <2>6. PICK z : z \in Places(i)
      BY <1>8
    <2>7. Places(i) = {z}
      BY <2>5, <2>6
    <2>8. QED
      BY <2>7, FS_Singleton
  <1>11. QED
    BY <1>9, <1>10

(* Every request received is in one place: it waits, is in a command       *)
(* queue, in the hands of the DRAM thread or among the events, or is done, *)
(* and that once, unless it has been put twice into the list; then it is   *)
(* still in some place (MainMemoryDRAMController.java, CommandQueue.java,  *)
(* Rank.java).                                                             *)
THEOREM RequestsConservedCorrect == Spec => []RequestsConserved
  <1>1. Spec => []ConsInv
    BY TypeInit, TypeInductive, TypeAlways, ConsInit, ConsInductive, PTL DEF Spec
  <1>2. QED
    BY <1>1, TypeAlways, OneIsOne, PTL

=============================================================================
