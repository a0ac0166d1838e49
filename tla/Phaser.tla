------------------------------- MODULE Phaser -------------------------------
(***************************************************************************)
(* The part of java.util.concurrent.Phaser the simulator relies on, as     *)
(* operators on a phaser value.  A phaser counts arrivals, it does not     *)
(* know who arrives.  The caller whose arrival brings `unarrived' to zero  *)
(* performs the advance itself, in steps the other threads can see: the    *)
(* count is zero, then onAdvance runs, then the next phase is published.   *)
(* An arrival that meets a zero count throws IllegalStateException.        *)
(***************************************************************************)
EXTENDS Integers

(* No thread performs an advance. *)
Nobody == -1

Phaser(phase, parties, unarrived, advancer) ==
  [phase |-> phase, parties |-> parties,
   unarrived |-> unarrived, advancer |-> advancer]

(* A phaser with n registered parties, as its constructor makes it. *)
NewPhaser(n) == Phaser(0, n, n, Nobody)

(* An arrival that is not legal throws IllegalStateException. *)
CanArrive(p) == p.unarrived > 0

(* The last arrival makes its caller t the advancer. *)
AfterArrival(p, t) == IF p.unarrived = 1 THEN t ELSE p.advancer

(* arrive() *)
Arrive(p, t) ==
  Phaser(p.phase, p.parties, p.unarrived - 1, AfterArrival(p, t))

(* arriveAndDeregister(): one arrival, and one party fewer. *)
ArriveAndDeregister(p, t) ==
  Phaser(p.phase, p.parties - 1, p.unarrived - 1, AfterArrival(p, t))

(* register() waits for an advance under way to end. *)
CanRegister(p) == p.advancer = Nobody

Register(p) == Phaser(p.phase, p.parties + 1, p.unarrived + 1, p.advancer)

(* The end of an advance: the next phase starts, everybody is unarrived. *)
Publish(p) == Phaser(p.phase + 1, p.parties, p.parties, Nobody)

=============================================================================
