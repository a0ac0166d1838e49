-------------------------- MODULE CoalescingMemory --------------------------
(***************************************************************************)
(* What the caches promise to the SPs.  A request either opens an entry    *)
(* for its block, and is then answered twice, or joins an open entry, and  *)
(* is then answered once.  The requests of an entry are all answered in    *)
(* one step.  The requests of an SP that has handed over are forgotten.    *)
(***************************************************************************)
EXTENDS Naturals, Sequences

CONSTANTS
  Caches,       \* first-level caches, one per SP
  Blocks,       \* cache blocks
  MaxRequests,  \* requests of a behaviour
  Programs      \* what the SPs request: functions from Ids to Requests

Kinds == {"Cache_Read", "Cache_Write"}
Requests == [cache : Caches, type : Kinds, block : Blocks]
Ids == 1 .. MaxRequests

VARIABLES
  program,   \* the requests
  issued,    \* those made so far
  owed,      \* owed[i]: answers request i still gets
  answers    \* answers[i]: answers request i got

memory == <<program, issued, owed, answers>>

Entry(c, b) == {i \in Ids : owed[i] > 0 /\ program[i].cache = c /\ program[i].block = b}

Init ==
  /\ program \in Programs
  /\ issued = {}
  /\ owed = [i \in Ids |-> 0]
  /\ answers = [i \in Ids |-> 0]

(* A request with nothing outstanding for its block opens an entry. *)
Open(i) ==
  /\ i \notin issued
  /\ Entry(program[i].cache, program[i].block) = {}
  /\ issued' = issued \cup {i}
  /\ owed' = [owed EXCEPT ![i] = 2]
  /\ UNCHANGED <<program, answers>>

(* A request that found an entry, and may join it. *)
Find(i) ==
  /\ i \notin issued
  /\ Entry(program[i].cache, program[i].block) # {}
  /\ issued' = issued \cup {i}
  /\ UNCHANGED <<program, owed, answers>>

(* ... if the entry is still there. *)
Join(i) ==
  /\ i \in issued /\ owed[i] = 0 /\ answers[i] = 0
  /\ Entry(program[i].cache, program[i].block) # {}
  /\ owed' = [owed EXCEPT ![i] = 1]
  /\ UNCHANGED <<program, issued, answers>>

(* All requests of a block are answered; a write needs no answer.  The     *)
(* second copy of the one that made the entry may come late, and is then   *)
(* an entry of its own.                                                    *)
Serve(c, b) ==
  \E late \in SUBSET {i \in Entry(c, b) : owed[i] = 2} :
    /\ Entry(c, b) # {}
    /\ owed' = [i \in Ids |-> IF i \in Entry(c, b) THEN IF i \in late THEN 1 ELSE 0
                                                    ELSE owed[i]]
    /\ answers' = [i \in Ids |-> IF i \in Entry(c, b) /\ program[i].type = "Cache_Read"
                                 THEN answers[i] + owed[i] - owed'[i] ELSE answers[i]]
    /\ UNCHANGED <<program, issued>>

(* The second copy of i, which came late, may be forgotten when it is to   *)
(* join an entry that has just gone.                                       *)
Lose(i) ==
  /\ owed[i] = 1 /\ (program[i].type = "Cache_Read" => answers[i] = 1)
  /\ Entry(program[i].cache, program[i].block) = {i}
  /\ owed' = [owed EXCEPT ![i] = 0]
  /\ UNCHANGED <<program, issued, answers>>

(* The SP of c is given up. *)
Forget(c) ==
  /\ owed' = [i \in Ids |-> IF program[i].cache = c THEN 0 ELSE owed[i]]
  /\ UNCHANGED <<program, issued, answers>>

Next ==
  \/ \E i \in Ids : Open(i) \/ Find(i) \/ Join(i) \/ Lose(i)
  \/ \E c \in Caches : Forget(c) \/ \E b \in Blocks : Serve(c, b)

Spec == Init /\ [][Next]_memory
=============================================================================
