--------------------------- MODULE CircularQueue ----------------------------
(***************************************************************************)
(* CircularPacketQueue and GenericCircularQueue: an array with the index   *)
(* of the first and of the last element, both -1 when the queue is empty.  *)
(* The operations are operators on the record of these.                    *)
(***************************************************************************)
EXTENDS Integers, Sequences

CONSTANTS
  bufferSize,  \* length of the array, at least 1
  Elements     \* what is queued

Indices == 0 .. bufferSize - 1

Buffers == [head : Indices \cup {-1}, tail : Indices \cup {-1},
            buffer : [Indices -> Elements]]

(* i % bufferSize, for the indices the code has *)
Wrap(i) == IF i >= bufferSize THEN i - bufferSize ELSE i

IsEmpty(q) == q.head = -1

size(q) ==
  IF q.head = -1 THEN 0
  ELSE IF q.head <= q.tail THEN q.tail - q.head + 1
  ELSE bufferSize - q.head + q.tail + 1

(* Slip: the space of a queue counted from its indices as if it could hold *)
(* one more.                                                               *)
SpaceOneTooMany(q) == bufferSize - size(q) + 1

spaceLeft(q) == bufferSize - size(q)

(* enqueue() writes after the last element, also when the queue is full. *)
enqueue(q, e) ==
  [head   |-> IF q.head = -1 THEN 0 ELSE q.head,
   tail   |-> Wrap(q.tail + 1),
   buffer |-> [q.buffer EXCEPT ![Wrap(q.tail + 1)] = e]]

(* clear(): the elements stay in the array. *)
clear(q) == [q EXCEPT !.head = -1, !.tail = -1]

(* dequeue() of a queue that is not empty. *)
dequeue(q) ==
  IF q.head = q.tail THEN clear(q) ELSE [q EXCEPT !.head = Wrap(q.head + 1)]

First(q) == q.buffer[q.head]

(* The queue as a sequence. *)
Contents(q) == [k \in 1 .. size(q) |-> q.buffer[Wrap(q.head + k - 1)]]
=============================================================================
