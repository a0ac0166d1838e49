------------------------- MODULE ArbiterRounds_proofs -------------------------
(***************************************************************************)
(* Proofs about ArbiterRounds: what a cycle grants is a maximal matching,  *)
(* and no queue head waits longer than the diagonals take to come round,   *)
(* for every number of banks and collectors, all requests and all writes.  *)
(***************************************************************************)
EXTENDS ArbiterRounds, Arbiter_proofs

RoundTypes ==
  /\ head \in [Banks -> CollectorIds \cup {NoOne}]
  /\ m_last_cu \in 0 .. Square - 1
  /\ waited \in [Banks -> Nat]
  /\ writes \in Nat

(* Cycles until the diagonal of a bank's head comes first.                 *)
Ahead(b) == Diagonal(m_last_cu, b, head[b])

(* The cycles a head has waited and those until its diagonal comes first   *)
(* make one turn of the diagonals, and one more for each write.            *)
WaitInv ==
  \A b \in Banks :
    waited[b] + (IF head[b] = NoOne THEN 0 ELSE Ahead(b)) <= Square * (1 + writes) - 1

RoundInv == RoundTypes /\ WaitInv /\ MaximalMatching

(* The diagonal of a pair is a number below Square, and comes nearer by    *)
(* one when the first diagonal moves on.                                   *)
LEMMA DiagonalNearer ==
  ASSUME NEW pri \in 0 .. Square - 1, NEW b \in Banks, NEW c \in CollectorIds
  PROVE  /\ Diagonal(pri, b, c) \in 0 .. Square - 1
         /\ Diagonal(pri, b, c) # 0 =>
              Diagonal(NextPriority(pri), b, c) = Diagonal(pri, b, c) - 1
  <1> DEFINE S == Square
             d == Diagonal(pri, b, c)
             x == c - b - pri
             q == x \div S
             p == NextPriority(pri)
             y == c - b - p
  <1>1. /\ S \in Nat \ {0} /\ b \in Nat /\ c \in Nat /\ pri \in Nat /\ x \in Int
        /\ p \in Nat /\ p = IF pri = S - 1 THEN 0 ELSE pri + 1
    BY ArbiterNumbers, NextPriorityType
  <1>2. d \in 0 .. S - 1 /\ q \in Int /\ x = S * q + d
    <2>1. d = x % S
      BY DEF Diagonal
    <2> HIDE DEF x, S
    <2>2. QED
      BY <1>1, <2>1, DivMod
  <1>3. ASSUME d # 0 PROVE Diagonal(p, b, c) = d - 1
    <2> HIDE DEF q, d, p
    <2>1. d - 1 \in 0 .. S - 1 /\ q \in Int /\ q + 1 \in Int
      BY <1>1, <1>2, <1>3
    <2>2. CASE pri = S - 1
      <3>1. y = S * (q + 1) + (d - 1)
        BY <1>1, <1>2, <2>1, <2>2
      <3>2. (S * (q + 1) + (d - 1)) % S = d - 1
        <4> DEFINE r == q + 1
                   e == d - 1
        <4>1. r \in Int /\ e \in 0 .. S - 1
          BY <2>1
        <4> HIDE DEF r, e, S
        <4>2. (S * r + e) % S = e
          BY <1>1, <4>1, ModMultiple
        <4>3. QED
          BY <4>2 DEF r, e
      <3>3. QED
        BY <3>1, <3>2 DEF Diagonal
    <2>3. CASE pri # S - 1
      <3>1. y = S * q + (d - 1)
        BY <1>1, <1>2, <2>1, <2>3
      <3>2. (S * q + (d - 1)) % S = d - 1
        <4> DEFINE e == d - 1
        <4>1. e \in 0 .. S - 1
          BY <2>1
        <4> HIDE DEF e, S
        <4>2. (S * q + e) % S = e
          BY <1>1, <2>1, <4>1, ModMultiple
        <4>3. QED
          BY <4>2 DEF e
      <3>3. QED
        BY <3>1, <3>2 DEF Diagonal
    <2>4. QED
      BY <2>2, <2>3
  <1>4. QED
    BY <1>2, <1>3

(* Nobody has waited and nothing is granted.                               *)
LEMMA RoundInit == Init => RoundInv
  <1> SUFFICES ASSUME Init PROVE RoundInv
    OBVIOUS
  <1>1. Square \in Nat \ {0}
    BY ArbiterNumbers
  <1>2. RoundTypes
    BY <1>1 DEF Init, RoundTypes
  <1>3. MaximalMatching
    BY DEF Init, MaximalMatching
  <1>4. WaitInv
    <2>1. ASSUME NEW b \in Banks, head[b] # NoOne PROVE Ahead(b) \in 0 .. Square - 1
      <3>1. head[b] \in CollectorIds /\ m_last_cu \in 0 .. Square - 1
        BY <1>2, <2>1 DEF RoundTypes
      <3>2. QED
        BY <1>1, <3>1, DiagonalNearer DEF Ahead
    <2>2. /\ \A b \in Banks : waited[b] = 0
          /\ Square * (1 + writes) - 1 = Square - 1
      BY <1>1 DEF Init
    <2>3. QED
      BY <1>1, <2>1, <2>2 DEF WaitInv
  <1>5. QED
    BY <1>2, <1>3, <1>4 DEF RoundInv

(* The heads ask for collectors.                                           *)
LEMMA RequestsAre == ASSUME RoundTypes PROVE RequestSet(Requests)
  BY DEF RoundTypes, Requests, RequestSet

(* One call of allocate_reads().                                           *)
LEMMA RoundStep == RoundInv /\ AllocateReads => RoundInv'
  <1> SUFFICES ASSUME RoundInv, AllocateReads PROVE RoundInv'
    OBVIOUS
  <1> DEFINE Granted(w) == Matching(Requests, w, m_last_cu)
             Done(w)    == {p[1] : p \in Granted(w)}
  <1>1. PICK w \in {{}} \cup {{b} : b \in Banks}, next \in [Banks -> CollectorIds \cup {NoOne}] :
          /\ \A b \in Banks : head[b] # NoOne /\ b \notin Done(w) => next[b] = head[b]
          /\ head' = next
          /\ granted' = Granted(w)
          /\ offered' = Requests
          /\ written' = w
          /\ waited' = [b \in Banks |->
                          IF head[b] = NoOne \/ b \in Done(w) THEN 0
                          ELSE IF b \in w THEN waited[b] ELSE waited[b] + 1]
          /\ writes' = IF w = {} THEN writes ELSE writes + 1
          /\ m_last_cu' = NextPriority(m_last_cu)
    BY DEF AllocateReads
  <1>2. RoundTypes /\ RequestSet(Requests) /\ Square \in Nat \ {0}
    BY RequestsAre, ArbiterNumbers DEF RoundInv
  <1>3. RoundTypes'
    <2>1. m_last_cu' \in 0 .. Square - 1
      BY <1>1, <1>2, NextPriorityType DEF RoundTypes
    <2>2. waited' \in [Banks -> Nat] /\ writes' \in Nat
      BY <1>1, <1>2 DEF RoundTypes
    <2>3. QED
      BY <1>1, <2>1, <2>2 DEF RoundTypes
  <1>4. MaximalMatching'
    BY <1>1, <1>2, MatchingMaximal DEF RoundTypes, MaximalMatching
  <1>5. ASSUME NEW b \in Banks
        PROVE  waited'[b] + (IF head'[b] = NoOne THEN 0 ELSE Ahead(b)')
                 <= Square * (1 + writes') - 1
    <2> DEFINE S == Square
               turns == IF head'[b] = NoOne THEN 0 ELSE Ahead(b)'
    <2>1. turns \in 0 .. S - 1
      <3>1. CASE head'[b] = NoOne
        BY <1>2, <3>1
      <3>2. CASE head'[b] # NoOne
        <4>1. head'[b] \in CollectorIds /\ m_last_cu' \in 0 .. Square - 1
          BY <1>3, <3>2 DEF RoundTypes
        <4>2. QED
          BY <3>2, <4>1, DiagonalNearer DEF Ahead
      <3>3. QED
        BY <3>1, <3>2
    <2>2. /\ writes \in Nat /\ waited[b] \in Nat
          /\ writes' \in {writes, writes + 1}
          /\ S * (1 + writes) \in Nat /\ S * (1 + writes) >= S
          /\ S * (1 + (writes + 1)) = S * (1 + writes) + S
      <3>1. writes \in Nat /\ waited[b] \in Nat /\ writes' \in {writes, writes + 1}
        BY <1>1, <1>2 DEF RoundTypes
      <3>2. S * (1 + writes) = S + S * writes /\ S * writes \in Nat /\ S \in Nat
        BY <1>2, <3>1
      <3>3. S * (1 + (writes + 1)) = S * (1 + writes) + S
        BY <1>2, <3>1
      <3>4. QED
        BY <3>1, <3>2, <3>3
    <2>3. CASE head[b] = NoOne \/ b \in Done(w)
      <3>1. waited'[b] = 0
        BY <1>1, <2>3
      <3> HIDE DEF turns, S
      <3>2. waited'[b] + turns <= S * (1 + writes') - 1
        BY <1>2, <2>1, <2>2, <3>1 DEF S
      <3>3. QED
        BY <3>2 DEF turns, S
    <2>4. CASE head[b] # NoOne /\ b \notin Done(w)
      <3>1. head'[b] = head[b] /\ head[b] \in CollectorIds /\ m_last_cu \in 0 .. Square - 1
        BY <1>1, <1>2, <2>4 DEF RoundTypes
      <3>2. waited[b] + Ahead(b) <= S * (1 + writes) - 1
        BY <2>4 DEF RoundInv, WaitInv
      <3>3. /\ Ahead(b) \in 0 .. S - 1
            /\ Ahead(b) # 0 => turns = Ahead(b) - 1
        BY <1>1, <2>4, <3>1, DiagonalNearer DEF Ahead
      <3>4. CASE b \in w
        <4>1. waited'[b] = waited[b] /\ writes' = writes + 1
          BY <1>1, <2>4, <3>4
        <4> HIDE DEF turns, S
        <4>2. waited'[b] + turns <= S * (1 + writes') - 1
          BY <1>2, <2>1, <2>2, <3>2, <3>3, <4>1 DEF S
        <4>3. QED
          BY <4>2 DEF turns, S
      <3>5. CASE b \notin w
        <4>1. waited'[b] = waited[b] + 1
          BY <1>1, <2>4, <3>5
        <4>2. Ahead(b) # 0
          <5> SUFFICES ASSUME Ahead(b) = 0 PROVE b \in Done(w)
            BY <2>4
          <5>1. <<b, head[b]>> \in Requests
            BY <2>4 DEF Requests
          <5>2. <<b, head[b]>> \in Granted(w)
            BY <3>1, <3>5, <5>1, MatchingFirstDiagonal DEF Ahead
          <5>3. QED
            BY <5>2
        <4> HIDE DEF turns, S
        <4>3. waited'[b] + turns <= S * (1 + writes') - 1
          BY <1>2, <2>1, <2>2, <3>2, <3>3, <4>1, <4>2 DEF S
        <4>4. QED
          BY <4>3 DEF turns, S
      <3>6. QED
        BY <3>4, <3>5
    <2>5. QED
      BY <2>3, <2>4
  <1>6. QED
    BY <1>3, <1>4, <1>5 DEF RoundInv, WaitInv

(* The invariant is inductive.                                             *)
LEMMA RoundInductive == RoundInv /\ [Next]_vars => RoundInv'
  <1> SUFFICES ASSUME RoundInv, [Next]_vars PROVE RoundInv'
    OBVIOUS
  <1>1. CASE AllocateReads
    BY <1>1, RoundStep
  <1>2. CASE UNCHANGED vars
    BY <1>2 DEF vars, RoundInv, RoundTypes, WaitInv, Ahead, MaximalMatching
  <1>3. QED
    BY <1>1, <1>2 DEF Next

(* arbiter_t grants a matching of banks and collectors that are asked for  *)
(* and not written, and none that could be made larger.                    *)
THEOREM MaximalMatchingCorrect == Spec => []MaximalMatching
  <1>1. RoundInv => MaximalMatching
    BY DEF RoundInv
  <1>2. QED
    BY <1>1, RoundInit, RoundInductive, PTL DEF Spec

(* A queue head waits less than one turn of the diagonals, and one more    *)
(* for each cycle with a write.                                            *)
THEOREM BoundedWaitCorrect == Spec => []BoundedWait
  <1>1. ASSUME RoundInv, NEW b \in Banks PROVE waited[b] < Square * (1 + writes)
    <2>1. RoundTypes /\ Square \in Nat \ {0}
      BY <1>1, ArbiterNumbers DEF RoundInv
    <2>2. waited[b] \in Nat /\ Square * (1 + writes) \in Int
      BY <2>1 DEF RoundTypes
    <2>3. CASE head[b] = NoOne
      BY <1>1, <2>2, <2>3 DEF RoundInv, WaitInv
    <2>4. CASE head[b] # NoOne
      <3>1. head[b] \in CollectorIds /\ m_last_cu \in 0 .. Square - 1
        BY <2>1, <2>4 DEF RoundTypes
      <3>2. Ahead(b) \in 0 .. Square - 1
        BY <3>1, DiagonalNearer DEF Ahead
      <3>3. waited[b] + Ahead(b) <= Square * (1 + writes) - 1
        BY <1>1, <2>4 DEF RoundInv, WaitInv
      <3>4. QED
        BY <2>1, <2>2, <3>2, <3>3
    <2>5. QED
      BY <2>3, <2>4
  <1>2. RoundInv => BoundedWait
    BY <1>1 DEF BoundedWait
  <1>3. QED
    BY <1>2, RoundInit, RoundInductive, PTL DEF Spec

=============================================================================
