---------------------------- MODULE Arbiter_proofs ----------------------------
(***************************************************************************)
(* What the arbiter grants, for every number of banks and collectors: some *)
(* of the requests, no two of a bank or of a collector, and as many as     *)
(* find both free.  The search of arbiter_t is a function defined by       *)
(* recursion on the number of visits; what holds after every visit is      *)
(* proved by looking at the first visit after which it would not.          *)
(***************************************************************************)
EXTENDS Arbiter, WellFoundedInduction, TLAPS

-----------------------------------------------------------------------------
(* Remainders.                                                             *)

(* A remainder of a number less than twice the divisor.                    *)
LEMMA ModOnce ==
  ASSUME NEW n \in Nat \ {0}, NEW x \in 0 .. 2 * n - 1
  PROVE  x % n = IF x < n THEN x ELSE x - n
  <1>1. CASE x < n
    BY <1>1
  <1>2. CASE ~(x < n)
    BY <1>2
  <1>3. QED
    BY <1>1, <1>2

(* Quotient and remainder.                                                 *)
LEMMA DivMod ==
  ASSUME NEW n \in Nat \ {0}, NEW x \in Int
  PROVE  x \div n \in Int /\ x % n \in 0 .. n - 1 /\ x = n * (x \div n) + (x % n)
  OBVIOUS

(* A multiple of the divisor changes no remainder.                         *)
LEMMA ModMultiple ==
  ASSUME NEW n \in Nat \ {0}, NEW q \in Int, NEW r \in 0 .. n - 1
  PROVE  (n * q + r) % n = r /\ (n * q + r) \div n = q
  OBVIOUS

(* A difference, added again.                                              *)
LEMMA ModDifference ==
  ASSUME NEW n \in Nat \ {0}, NEW c \in 0 .. n - 1, NEW p \in Int
  PROVE  (p + ((c - p) % n)) % n = c
  <1> DEFINE d == (c - p) % n
             q == (c - p) \div n
  <1>1. d \in 0 .. n - 1 /\ q \in Int /\ c - p = n * q + d
    <2>1. c - p \in Int
      OBVIOUS
    <2>2. QED
      BY <2>1, DivMod
  <1> HIDE DEF d, q
  <1>2. p + d = n * (-q) + c /\ -q \in Int
    BY <1>1
  <1>3. (n * (-q) + c) % n = c
    BY <1>2, ModMultiple
  <1>4. QED
    BY <1>2, <1>3 DEF d

-----------------------------------------------------------------------------
(* Banks, collectors and visits.                                           *)

(* The numbers of the arbiter.                                             *)
LEMMA ArbiterNumbers ==
  /\ num_banks \in Nat \ {0} /\ num_collector_units \in Nat \ {0}
  /\ Square \in Nat \ {0} /\ num_banks <= Square /\ num_collector_units <= Square
  /\ \A b : b \in Banks <=> b \in Nat /\ b < num_banks
  /\ \A c : c \in CollectorIds <=> c \in Nat /\ c < num_collector_units
  <1>1. num_banks \in Nat \ {0} /\ num_collector_units \in Nat \ {0}
    BY ArbiterAssumption
  <1>2. QED
    BY <1>1 DEF Square, Banks, CollectorIds

(* The priority is a diagonal.                                             *)
LEMMA NextPriorityType ==
  ASSUME NEW pri \in 0 .. Square - 1
  PROVE  /\ NextPriority(pri) \in 0 .. Square - 1
         /\ NextPriority(pri) = IF pri = Square - 1 THEN 0 ELSE pri + 1
  <1> DEFINE x == pri + 1
  <1>1. Square \in Nat \ {0} /\ x \in 0 .. 2 * Square - 1 /\ NextPriority(pri) = x % Square
    BY ArbiterNumbers DEF NextPriority
  <1> HIDE DEF x
  <1>2. x % Square = IF x < Square THEN x ELSE x - Square
    BY <1>1, ModOnce
  <1>3. QED
    BY <1>1, <1>2 DEF x

(* The diagonal of a pair, counted from the first one of the search.       *)
Diagonal(pri, b, c) == (c - b - pri) % Square

(* The search visits every pair, on its diagonal.                          *)
LEMMA VisitsAll ==
  ASSUME NEW pri \in Nat, NEW b \in Banks, NEW c \in CollectorIds
  PROVE  LET k == num_banks * Diagonal(pri, b, c) + b
         IN  k \in 0 .. Square * num_banks - 1 /\ Visit(pri, k) = <<b, c>>
  <1> DEFINE N == num_banks
             S == Square
             d == Diagonal(pri, b, c)
             k == N * d + b
             p == b + pri
  <1>1. N \in Nat \ {0} /\ S \in Nat \ {0} /\ b \in 0 .. N - 1 /\ c \in 0 .. S - 1
    BY ArbiterNumbers
  <1>2. d = (c - p) % S /\ d \in 0 .. S - 1
    <2>1. c - b - pri = c - p /\ c - p \in Int
      BY <1>1
    <2>2. QED
      BY <1>1, <2>1, DivMod DEF Diagonal
  <1>3. (p + ((c - p) % S)) % S = c
    <2>1. p \in Int
      BY <1>1
    <2> HIDE DEF p
    <2>2. QED
      BY <1>1, <2>1, ModDifference
  <1> HIDE DEF N, S, d
  <1>4. k % N = b /\ k \div N = d
    BY <1>1, <1>2, ModMultiple
  <1>5. pri + d + b = p + d
    BY <1>1, <1>2
  <1>6. Visit(pri, k) = <<b, c>>
    BY <1>2, <1>3, <1>4, <1>5 DEF Visit, N, S
  <1>7. k \in 0 .. S * N - 1
    <2>1. d <= S - 1 /\ N * d <= N * (S - 1) /\ N * d \in Nat
      BY <1>1, <1>2
    <2>2. N * (S - 1) = S * N - N
      BY <1>1
    <2>3. QED
      BY <1>1, <2>1, <2>2
  <1>8. QED
    BY <1>6, <1>7 DEF N, S, d

(* The first diagonal has one pair of every bank, and each of its          *)
(* collectors once.                                                        *)
LEMMA FirstDiagonal ==
  ASSUME NEW pri \in 0 .. Square - 1, NEW i \in Banks, NEW j \in Banks
  PROVE  /\ Visit(pri, i)[1] = i
         /\ Visit(pri, i)[2] = Visit(pri, j)[2] => i = j
  <1>1. /\ i \in 0 .. num_banks - 1 /\ j \in 0 .. num_banks - 1
        /\ num_banks \in Nat \ {0} /\ Square \in Nat \ {0} /\ num_banks <= Square
    BY ArbiterNumbers
  <1>2. ASSUME NEW b \in 0 .. num_banks - 1
        PROVE  b % num_banks = b /\ b \div num_banks = 0
    BY <1>1
  <1>3. ASSUME NEW b \in 0 .. num_banks - 1
        PROVE  Visit(pri, b) = <<b, IF pri + b < Square THEN pri + b ELSE pri + b - Square>>
    <2> DEFINE x == pri + b
    <2>1. x \in 0 .. 2 * Square - 1 /\ pri + 0 + b = x /\ x = pri + b
      BY <1>1
    <2> HIDE DEF x
    <2>2. x % Square = IF x < Square THEN x ELSE x - Square
      BY <1>1, <2>1, ModOnce
    <2>3. Visit(pri, b) = <<b, x % Square>>
      BY <1>2, <2>1 DEF Visit
    <2>4. Visit(pri, b) = <<b, IF x < Square THEN x ELSE x - Square>>
      BY <2>2, <2>3
    <2>5. QED
      BY <1>1, <2>1, <2>4
  <1>4. /\ Visit(pri, i)[1] = i
        /\ Visit(pri, i)[2] = IF pri + i < Square THEN pri + i ELSE pri + i - Square
        /\ Visit(pri, j)[2] = IF pri + j < Square THEN pri + j ELSE pri + j - Square
    BY <1>1, <1>3
  <1>5. QED
    BY <1>1, <1>4

-----------------------------------------------------------------------------
(* The search.                                                             *)

(* What visit k adds.                                                      *)
AfterVisit(requests, writes, pri, k, sofar) ==
  sofar \cup {v \in {Visit(pri, k - 1)} \cap requests :
                 /\ v[1] \notin writes
                 /\ \A g \in sofar : g[1] # v[1] /\ g[2] # v[2]}

(* The grants after each of the first n visits.                            *)
Grants(grant, n, requests, writes, pri) ==
  grant = [k \in 0 .. n |->
             IF k = 0 THEN {} ELSE AfterVisit(requests, writes, pri, k, grant[k - 1])]

(* A set of numbers has a least one.                                       *)
LEMMA LeastNumber ==
  ASSUME NEW T, T \subseteq Nat, T # {}
  PROVE  \E x \in T : \A y \in T : x <= y
  <1> DEFINE R == {ss \in Nat \X Nat : ss[1] < ss[2]}
  <1>1. PICK x \in T : \A y \in T : ~(<<y, x>> \in R)
    <2>1. IsWellFoundedOn(R, Nat)
      BY NatLessThanWellFounded DEF OpToRel
    <2> HIDE DEF R
    <2>2. QED
      BY <2>1, WFMin
  <1>2. ASSUME NEW y \in T PROVE x <= y
    <2>1. x \in Nat /\ y \in Nat /\ <<y, x>> \in Nat \X Nat
      OBVIOUS
    <2>2. ~(y < x)
      BY <1>1, <2>1
    <2>3. QED
      BY <2>1, <2>2
  <1>3. QED
    BY <1>2

(* The recursion has a solution.                                           *)
LEMMA GrantsExist ==
  ASSUME NEW requests, NEW writes, NEW pri, NEW m \in Nat
  PROVE  \E grant : Grants(grant, m, requests, writes, pri)
  <1> DEFINE T == {n \in Nat : ~ \E grant : Grants(grant, n, requests, writes, pri)}
  <1> SUFFICES ASSUME T # {} PROVE FALSE
    OBVIOUS
  <1>1. PICK x \in T : \A y \in T : x <= y
    BY LeastNumber
  <1>2. x \in Nat /\ ~ \E grant : Grants(grant, x, requests, writes, pri)
    OBVIOUS
  <1>3. x # 0
    <2>1. Grants([k \in 0 .. 0 |-> {}], 0, requests, writes, pri)
      BY DEF Grants
    <2>2. QED
      BY <1>2, <2>1
  <1>4. x - 1 \in Nat /\ x - 1 \notin T
    BY <1>1, <1>2, <1>3
  <1>5. PICK g : Grants(g, x - 1, requests, writes, pri)
    BY <1>4
  <1> DEFINE last == AfterVisit(requests, writes, pri, x, g[x - 1])
             h    == [k \in 0 .. x |-> IF k = x THEN last ELSE g[k]]
  <1>6. ASSUME NEW k \in 0 .. x
        PROVE  h[k] = IF k = 0 THEN {} ELSE AfterVisit(requests, writes, pri, k, h[k - 1])
    <2>1. CASE k = 0
      <3>1. h[k] = g[0] /\ 0 \in 0 .. x - 1
        BY <1>2, <1>3, <2>1
      <3>2. g[0] = {}
        BY <1>5, <3>1 DEF Grants
      <3>3. QED
        BY <2>1, <3>1, <3>2
    <2>2. CASE k = x
      <3>1. x - 1 \in 0 .. x /\ x - 1 # x
        BY <1>4, <1>2
      <3>2. h[x - 1] = g[x - 1] /\ h[x] = last
        BY <1>2, <3>1
      <3>3. QED
        BY <1>3, <2>2, <3>2
    <2>3. CASE k # 0 /\ k # x
      <3>1. k \in 0 .. x - 1 /\ k - 1 \in 0 .. x /\ k - 1 # x
        BY <1>2, <2>3
      <3>2. h[k] = g[k] /\ h[k - 1] = g[k - 1]
        BY <2>3, <3>1
      <3>3. g[k] = AfterVisit(requests, writes, pri, k, g[k - 1])
        BY <1>5, <2>3, <3>1 DEF Grants
      <3>4. QED
        BY <2>3, <3>2, <3>3
    <2>4. QED
      BY <2>1, <2>2, <2>3
  <1>7. Grants(h, x, requests, writes, pri)
    <2>1. h = [k \in 0 .. x |-> h[k]]
      OBVIOUS
    <2> HIDE DEF h
    <2>2. h = [k \in 0 .. x |->
                 IF k = 0 THEN {} ELSE AfterVisit(requests, writes, pri, k, h[k - 1])]
      BY <1>6, <2>1
    <2>3. QED
      BY <2>2 DEF Grants
  <1>8. QED
    BY <1>2, <1>7

(* The matching is what is granted after the last visit.                   *)
LEMMA MatchingGrants ==
  ASSUME NEW requests, NEW writes, NEW pri
  PROVE  \E grant : /\ Grants(grant, Square * num_banks, requests, writes, pri)
                    /\ Matching(requests, writes, pri) = grant[Square * num_banks]
  <1>1. Square * num_banks \in Nat
    BY ArbiterNumbers
  <1>2. \E grant : Grants(grant, Square * num_banks, requests, writes, pri)
    BY <1>1, GrantsExist
  <1>3. Grants(CHOOSE grant : Grants(grant, Square * num_banks, requests, writes, pri),
               Square * num_banks, requests, writes, pri)
    BY <1>2
  <1>4. Matching(requests, writes, pri) =
          (CHOOSE grant : Grants(grant, Square * num_banks, requests, writes, pri))
             [Square * num_banks]
    BY DEF Matching, Grants, AfterVisit
  <1>5. QED
    BY <1>3, <1>4

-----------------------------------------------------------------------------
(* After k visits the grants are requests for idle banks, no two of them   *)
(* share a bank or a collector, and a request visited and not granted      *)
(* meets a written bank or a grant.  During the first diagonal the grants  *)
(* are on it, and nothing on it but a write is in a request's way.         *)
GrantInv(s, k, requests, writes, pri) ==
  /\ s \subseteq {v \in requests : v[1] \notin writes}
  /\ \A p, q \in s : p # q => p[1] # q[1] /\ p[2] # q[2]
  /\ \A j \in 0 .. k - 1 :
       Visit(pri, j) \in requests /\ Visit(pri, j)[1] \notin writes
         => \E q \in s : q[1] = Visit(pri, j)[1] \/ q[2] = Visit(pri, j)[2]
  /\ k <= num_banks => s \subseteq {Visit(pri, j) : j \in 0 .. k - 1}
  /\ \A j \in 0 .. k - 1 :
       j < num_banks /\ Visit(pri, j) \in requests /\ Visit(pri, j)[1] \notin writes
         => Visit(pri, j) \in s

(* A visit keeps that.                                                     *)
LEMMA GrantStep ==
  ASSUME NEW requests, NEW writes, NEW pri \in 0 .. Square - 1, NEW k \in Nat \ {0},
         NEW s, GrantInv(s, k - 1, requests, writes, pri)
  PROVE  GrantInv(AfterVisit(requests, writes, pri, k, s), k, requests, writes, pri)
  <1> DEFINE v == Visit(pri, k - 1)
             t == AfterVisit(requests, writes, pri, k, s)
             Free == /\ v \in requests /\ v[1] \notin writes
                     /\ \A g \in s : g[1] # v[1] /\ g[2] # v[2]
  <1>1. t = IF Free THEN s \cup {v} ELSE s
    BY DEF AfterVisit
  <1>2. \A j \in 0 .. k - 1 : j \in 0 .. (k - 1) - 1 \/ j = k - 1
    OBVIOUS
  <1> HIDE DEF v, t
  <1>3. t \subseteq {w \in requests : w[1] \notin writes}
    BY <1>1 DEF GrantInv
  <1>4. \A p, q \in t : p # q => p[1] # q[1] /\ p[2] # q[2]
    BY <1>1 DEF GrantInv
  <1>5. ASSUME NEW j \in 0 .. k - 1, Visit(pri, j) \in requests, Visit(pri, j)[1] \notin writes
        PROVE  \E q \in t : q[1] = Visit(pri, j)[1] \/ q[2] = Visit(pri, j)[2]
    <2>1. CASE j \in 0 .. (k - 1) - 1
      BY <1>1, <1>5, <2>1 DEF GrantInv
    <2>2. CASE j = k - 1
      BY <1>1, <1>5, <2>2 DEF v
    <2>3. QED
      BY <1>2, <2>1, <2>2
  <1>6. ASSUME k <= num_banks PROVE t \subseteq {Visit(pri, j) : j \in 0 .. k - 1}
    <2>1. s \subseteq {Visit(pri, j) : j \in 0 .. (k - 1) - 1}
      BY <1>6, ArbiterNumbers DEF GrantInv
    <2>2. 0 .. (k - 1) - 1 \subseteq 0 .. k - 1 /\ k - 1 \in 0 .. k - 1
      OBVIOUS
    <2>3. QED
      BY <1>1, <2>1, <2>2 DEF v
  <1>7. ASSUME NEW j \in 0 .. k - 1, j < num_banks,
               Visit(pri, j) \in requests, Visit(pri, j)[1] \notin writes
        PROVE  Visit(pri, j) \in t
    <2>1. CASE j \in 0 .. (k - 1) - 1
      BY <1>1, <1>7, <2>1 DEF GrantInv
    <2>2. CASE j = k - 1
      <3>1. k - 1 <= num_banks /\ j \in Banks
        BY <1>7, <2>2, ArbiterNumbers
      <3>2. s \subseteq {Visit(pri, i) : i \in 0 .. (k - 1) - 1}
        BY <3>1 DEF GrantInv
      <3>3. ASSUME NEW g \in s PROVE g[1] # v[1] /\ g[2] # v[2]
        <4>1. PICK i \in 0 .. (k - 1) - 1 : g = Visit(pri, i)
          BY <3>2
        <4>2. i \in Banks /\ i # j
          BY <1>7, <2>2, ArbiterNumbers
        <4>3. Visit(pri, i)[1] = i /\ Visit(pri, j)[1] = j
          BY <3>1, <4>2, FirstDiagonal
        <4>4. Visit(pri, i)[2] # Visit(pri, j)[2]
          BY <3>1, <4>2, FirstDiagonal
        <4>5. QED
          BY <2>2, <4>1, <4>2, <4>3, <4>4 DEF v
      <3>4. Free
        BY <1>7, <2>2, <3>3 DEF v
      <3>5. QED
        BY <1>1, <2>2, <3>4 DEF v
    <2>3. QED
      BY <1>2, <2>1, <2>2
  <1>8. QED
    BY <1>3, <1>4, <1>5, <1>6, <1>7 DEF GrantInv, t

(* It holds after every visit.                                             *)
LEMMA GrantAlways ==
  ASSUME NEW requests, NEW writes, NEW pri \in 0 .. Square - 1, NEW n \in Nat, NEW grant,
         Grants(grant, n, requests, writes, pri)
  PROVE  \A k \in 0 .. n : GrantInv(grant[k], k, requests, writes, pri)
  <1> DEFINE T == {k \in 0 .. n : ~GrantInv(grant[k], k, requests, writes, pri)}
  <1> SUFFICES ASSUME T # {} PROVE FALSE
    OBVIOUS
  <1>1. PICK x \in T : \A y \in T : x <= y
    <2>1. T \subseteq Nat
      OBVIOUS
    <2> HIDE DEF T
    <2>2. QED
      BY <2>1, LeastNumber
  <1>2. x \in Nat /\ x <= n /\ ~GrantInv(grant[x], x, requests, writes, pri)
    OBVIOUS
  <1>3. x # 0
    <2>1. grant[0] = {}
      BY DEF Grants
    <2>2. 0 .. 0 - 1 = {}
      OBVIOUS
    <2>3. GrantInv({}, 0, requests, writes, pri)
      BY <2>2 DEF GrantInv
    <2>4. QED
      BY <1>2, <2>1, <2>3
  <1>4. x - 1 \in 0 .. n /\ x - 1 \notin T /\ x \in Nat \ {0} /\ x \in 0 .. n
    BY <1>1, <1>2, <1>3
  <1>5. GrantInv(grant[x - 1], x - 1, requests, writes, pri)
    BY <1>4
  <1>6. grant[x] = AfterVisit(requests, writes, pri, x, grant[x - 1])
    BY <1>3, <1>4 DEF Grants
  <1>7. QED
    BY <1>2, <1>4, <1>5, <1>6, GrantStep

(* Requests of banks for collectors.                                       *)
RequestSet(requests) == requests \subseteq Banks \X CollectorIds

(* The grants are requests whose bank is not written, a matching, and      *)
(* maximal: a request that is not granted meets a write or a grant.        *)
LEMMA MatchingMaximal ==
  ASSUME NEW requests, RequestSet(requests), NEW writes, NEW pri \in 0 .. Square - 1
  PROVE  /\ Matching(requests, writes, pri) \subseteq {p \in requests : p[1] \notin writes}
         /\ \A p, q \in Matching(requests, writes, pri) : p # q => p[1] # q[1] /\ p[2] # q[2]
         /\ \A p \in requests :
              p[1] \in writes \/ \E q \in Matching(requests, writes, pri) :
                                   q[1] = p[1] \/ q[2] = p[2]
  <1> DEFINE m == Square * num_banks
             M == Matching(requests, writes, pri)
  <1>1. m \in Nat
    BY ArbiterNumbers
  <1>2. PICK grant : Grants(grant, m, requests, writes, pri) /\ M = grant[m]
    BY MatchingGrants
  <1> HIDE DEF M
  <1>3. GrantInv(M, m, requests, writes, pri)
    <2> HIDE DEF m
    <2>1. m \in 0 .. m
      BY <1>1
    <2>2. QED
      BY <1>1, <1>2, <2>1, GrantAlways
  <1>4. ASSUME NEW p \in requests, p[1] \notin writes
        PROVE  \E q \in M : q[1] = p[1] \/ q[2] = p[2]
    <2>1. p[1] \in Banks /\ p[2] \in CollectorIds /\ p = <<p[1], p[2]>>
      BY DEF RequestSet
    <2>2. PICK j \in 0 .. m - 1 : Visit(pri, j) = <<p[1], p[2]>>
      BY <2>1, ArbiterNumbers, VisitsAll
    <2>3. QED
      BY <1>3, <1>4, <2>1, <2>2 DEF GrantInv
  <1>5. QED
    BY <1>3, <1>4 DEF GrantInv, M

(* A request on the first diagonal is granted unless its bank is written.  *)
LEMMA MatchingFirstDiagonal ==
  ASSUME NEW requests, NEW writes, NEW pri \in 0 .. Square - 1,
         NEW b \in Banks, NEW c \in CollectorIds, <<b, c>> \in requests, b \notin writes,
         Diagonal(pri, b, c) = 0
  PROVE  <<b, c>> \in Matching(requests, writes, pri)
  <1> DEFINE m == Square * num_banks
             M == Matching(requests, writes, pri)
  <1>1. m \in Nat /\ num_banks \in Nat /\ b \in Nat /\ b < num_banks
    BY ArbiterNumbers
  <1>2. PICK grant : Grants(grant, m, requests, writes, pri) /\ M = grant[m]
    BY MatchingGrants
  <1> HIDE DEF M
  <1>3. GrantInv(M, m, requests, writes, pri)
    <2> HIDE DEF m
    <2>1. m \in 0 .. m
      BY <1>1
    <2>2. QED
      BY <1>1, <1>2, <2>1, GrantAlways
  <1>4. b \in 0 .. m - 1 /\ Visit(pri, b) = <<b, c>>
    <2>1. num_banks * 0 + b = b /\ pri \in Nat
      BY <1>1, ArbiterNumbers
    <2>2. QED
      BY <2>1, VisitsAll
  <1>5. QED
    BY <1>1, <1>3, <1>4 DEF GrantInv, M

=============================================================================
