---------------------------- MODULE ArbiterRounds ----------------------------
(***************************************************************************)
(* The arbiter under arbitrary requests: every bank's queue head asks for  *)
(* one collector and keeps asking until it is granted.                     *)
(***************************************************************************)
EXTENDS Arbiter

CONSTANT MaxWrites  \* bound: cycles that write a bank while a head waits

VARIABLES
  head,       \* the collector each bank's queue head is for, or NoOne
  m_last_cu,  \* diagonal the next cycle starts on
  granted,    \* pairs granted in the last cycle
  offered,    \* pairs requested in the last cycle
  written,    \* banks written in the last cycle
  waited,     \* cycles each head has waited without its bank being written
  writes      \* cycles with a write so far

vars == <<head, m_last_cu, granted, offered, written, waited, writes>>

NoOne == -1

Init ==
  /\ head \in [Banks -> CollectorIds \cup {NoOne}]
  /\ m_last_cu = 0
  /\ granted = {}
  /\ offered = {}
  /\ written = {}
  /\ waited = [b \in Banks |-> 0]
  /\ writes = 0

Requests == {<<b, head[b]>> : b \in {c \in Banks : head[c] # NoOne}}

(* One call of allocate_reads(); at most one bank is written in a cycle.   *)
(* A bank whose head was granted shows its next one, or none.              *)
AllocateReads ==
  \E w \in {{}} \cup {{b} : b \in Banks}, next \in [Banks -> CollectorIds \cup {NoOne}] :
    LET g    == Matching(Requests, w, m_last_cu)
        Done == {p[1] : p \in g}
    IN  /\ w # {} => writes < MaxWrites
        /\ \A b \in Banks : head[b] # NoOne /\ b \notin Done => next[b] = head[b]
        /\ head' = next
        /\ granted' = g
        /\ offered' = Requests
        /\ written' = w
        /\ waited' = [b \in Banks |->
                        IF head[b] = NoOne \/ b \in Done THEN 0
                        ELSE IF b \in w THEN waited[b] ELSE waited[b] + 1]
        /\ writes' = IF w = {} THEN writes ELSE writes + 1
        /\ m_last_cu' = NextPriority(m_last_cu)

Next == AllocateReads

Spec == Init /\ [][Next]_vars

-----------------------------------------------------------------------------
(* What comes out of a cycle is a matching, and one nothing can be added   *)
(* to: "a list of registers that (a) are in different register banks, (b)  *)
(* do not go to the same operand collector" (arbiter_t.java:61).           *)
MaximalMatching ==
  /\ granted \subseteq {p \in offered : p[1] \notin written}
  /\ \A p, q \in granted : p # q => p[1] # q[1] /\ p[2] # q[2]
  /\ \A p \in offered :
       p[1] \in written \/ \E q \in granted : q[1] = p[1] \/ q[2] = p[2]

(* The rotating diagonal is fair: a queue head whose bank is not written   *)
(* waits less than one turn of the diagonals, plus one for each write.     *)
BoundedWait == \A b \in Banks : waited[b] < Square * (1 + writes)

=============================================================================
