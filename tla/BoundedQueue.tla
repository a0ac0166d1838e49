---------------------------- MODULE BoundedQueue ----------------------------
(***************************************************************************)
(* What a circular queue promises: a sequence of at most Size elements, in *)
(* at one end, out at either, never overwritten.                           *)
(***************************************************************************)
EXTENDS Naturals, Sequences

CONSTANT Size

VARIABLE queue

Init == queue = <<>>

Enqueue ==
  /\ Len(queue) < Size
  /\ Len(queue') = Len(queue) + 1
  /\ queue' = Append(queue, queue'[Len(queue')])

Dequeue == queue # <<>> /\ queue' = Tail(queue)

Clear == queue' = <<>>

Next == Enqueue \/ Dequeue \/ Clear

Spec == Init /\ [][Next]_queue
=============================================================================
