------------------------------- MODULE Arbiter -------------------------------
(***************************************************************************)
(* The arbitration of register banks among collector units (arbiter_t): a  *)
(* matching of banks and collectors along wrapped diagonals, the first     *)
(* diagonal moving by one in every cycle.  Banks that are written in the   *)
(* cycle take no part.                                                     *)
(***************************************************************************)
EXTENDS Integers, FiniteSets

CONSTANTS
  num_banks,            \* register banks
  num_collector_units   \* collector units

ASSUME ArbiterAssumption ==
  num_banks \in Nat \ {0} /\ num_collector_units \in Nat \ {0}

Banks        == 0 .. num_banks - 1
CollectorIds == 0 .. num_collector_units - 1

Square ==
  IF num_banks > num_collector_units THEN num_banks ELSE num_collector_units

(* The bank a register lives in; bank_warp_shift is 0. *)
register_bank(reg) == reg % num_banks

(* Visit k of the search that starts on diagonal `pri': a bank and a       *)
(* collector (or a number that is no collector).                           *)
Visit(pri, k) ==
  <<k % num_banks, (pri + (k \div num_banks) + (k % num_banks)) % Square>>

(* Slip: a collector may be granted several banks. *)
MatchingSharedCollector(requests, writes, pri) ==
  LET grant[k \in 0 .. Square * num_banks] ==
        IF k = 0 THEN {}
        ELSE LET sofar == grant[k - 1]
             IN  sofar \cup {v \in {Visit(pri, k - 1)} \cap requests :
                                v[1] \notin writes /\ \A g \in sofar : g[1] # v[1]}
  IN  grant[Square * num_banks]

(* The pairs of bank and collector granted a read, for a set of requested  *)
(* pairs and the set of banks that are written.                            *)
Matching(requests, writes, pri) ==
  LET grant[k \in 0 .. Square * num_banks] ==
        IF k = 0 THEN {}
        ELSE LET sofar == grant[k - 1]
             IN  sofar \cup {v \in {Visit(pri, k - 1)} \cap requests :
                                /\ v[1] \notin writes
                                /\ \A g \in sofar : g[1] # v[1] /\ g[2] # v[2]}
  IN  grant[Square * num_banks]

(* Slip: the priority stays where it is. *)
NextPriorityFixed(pri) == pri

(* The diagonal the next cycle starts on. *)
NextPriority(pri) == (pri + 1) % Square

=============================================================================
