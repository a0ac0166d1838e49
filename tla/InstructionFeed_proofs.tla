------------------------ MODULE InstructionFeed_proofs ------------------------
(***************************************************************************)
(* Proofs about InstructionFeed, for every trace, number of cores and size *)
(* of the queue and of inputToPipeline.  The circular packet queue         *)
(* implements a bounded sequence; the tracer's files hold the streams that *)
(* run() opens, and the blocks it looks for in them; what is fed keeps the *)
(* order of the stream, and a kernel does not end before its last block is *)
(* fed.                                                                    *)
(***************************************************************************)
EXTENDS InstructionFeed, FiniteSetTheorems, SequenceTheorems, TLAPS

-----------------------------------------------------------------------------
(* The circular queue.                                                     *)

(* The array is a function and both indices are -1, or none.               *)
Ring(q) ==
  /\ q \in [head : Int, tail : Int, buffer : {q.buffer}]
  /\ -1 <= q.head /\ q.head < ipcCount /\ -1 <= q.tail /\ q.tail < ipcCount
  /\ q.buffer = [i \in 0 .. ipcCount - 1 |-> q.buffer[i]]
  /\ q.head = -1 <=> q.tail = -1

(* How many elements there are, and where they are.                        *)
LEMMA RingSize ==
  ASSUME NEW q, Ring(q)
  PROVE  /\ Q!size(q) \in 0 .. ipcCount
         /\ Q!size(q) = 0 <=> q.head = -1
         /\ \A k \in 1 .. Q!size(q) : Q!Wrap(q.head + k - 1) \in 0 .. ipcCount - 1
         /\ Q!spaceLeft(q) = ipcCount - Q!size(q)
  <1>1. /\ ipcCount \in Nat \ {0} /\ q.head \in Int /\ q.tail \in Int
        /\ -1 <= q.head /\ q.head < ipcCount /\ -1 <= q.tail /\ q.tail < ipcCount
        /\ q.head = -1 <=> q.tail = -1
    BY FeedAssumption DEF Ring
  <1>2. Q!size(q) \in 0 .. ipcCount /\ (Q!size(q) = 0 <=> q.head = -1)
    BY <1>1 DEF Q!size
  <1>3. ASSUME NEW k \in 1 .. Q!size(q)
        PROVE  Q!Wrap(q.head + k - 1) \in 0 .. ipcCount - 1
    BY <1>1, <1>2 DEF Q!Wrap
  <1>4. QED
    BY <1>2, <1>3 DEF Q!spaceLeft

(* A function on 1 .. n is a sequence.                                     *)
LEMMA IsSequence ==
  ASSUME NEW S, NEW n \in Nat, NEW f \in [1 .. n -> S]
  PROVE  f \in Seq(S) /\ Len(f) = n
  OBVIOUS

(* The contents are a sequence.                                            *)
LEMMA RingContents ==
  ASSUME NEW q, Ring(q), NEW S, \A i \in 0 .. ipcCount - 1 : q.buffer[i] \in S
  PROVE  /\ Q!Contents(q) \in Seq(S)
         /\ Len(Q!Contents(q)) = Q!size(q)
         /\ \A k \in 1 .. Q!size(q) : Q!Contents(q)[k] = q.buffer[Q!Wrap(q.head + k - 1)]
  <1> DEFINE n == Q!size(q)
             At(k) == q.buffer[Q!Wrap(q.head + k - 1)]
  <1>1. n \in Nat /\ Q!Contents(q) = [k \in 1 .. n |-> At(k)]
    BY RingSize, FeedAssumption DEF Q!Contents
  <1>2. \A k \in 1 .. n : At(k) \in S
    BY RingSize
  <1> HIDE DEF n, At
  <1>3. Q!Contents(q) \in [1 .. n -> S]
    BY <1>1, <1>2
  <1>4. Q!Contents(q) \in Seq(S) /\ Len(Q!Contents(q)) = n
    BY <1>1, <1>3, IsSequence
  <1>5. \A k \in 1 .. n : Q!Contents(q)[k] = At(k)
    BY <1>1
  <1>6. QED
    BY <1>4, <1>5 DEF n, At

(* enqueue() with space left puts the element at the end.                  *)
LEMMA EnqueueAppends ==
  ASSUME NEW q, Ring(q), Q!size(q) < ipcCount, NEW e
  PROVE  /\ Ring(Q!enqueue(q, e))
         /\ Q!size(Q!enqueue(q, e)) = Q!size(q) + 1
         /\ Q!Contents(Q!enqueue(q, e)) = Append(Q!Contents(q), e)
  <1> DEFINE r == Q!enqueue(q, e)
             n == Q!size(q)
             last == Q!Wrap(q.tail + 1)
             S == {q.buffer[i] : i \in 0 .. ipcCount - 1} \cup {e}
  <1>1. /\ ipcCount \in Nat \ {0} /\ q.head \in Int /\ q.tail \in Int
        /\ -1 <= q.head /\ q.head < ipcCount /\ -1 <= q.tail /\ q.tail < ipcCount
        /\ q.head = -1 <=> q.tail = -1
        /\ n = IF q.head = -1 THEN 0
               ELSE IF q.head <= q.tail THEN q.tail - q.head + 1
               ELSE ipcCount - q.head + q.tail + 1
        /\ last = IF q.tail + 1 >= ipcCount THEN q.tail + 1 - ipcCount ELSE q.tail + 1
    BY FeedAssumption DEF Ring, Q!Wrap, Q!size
  <1>2. /\ r.head = IF q.head = -1 THEN 0 ELSE q.head
        /\ r.tail = last
        /\ r.buffer = [q.buffer EXCEPT ![last] = e]
        /\ r = [head |-> r.head, tail |-> r.tail, buffer |-> r.buffer]
    BY DEF Q!enqueue
  <1> HIDE DEF r
  <1>3. /\ DOMAIN q.buffer = 0 .. ipcCount - 1
        /\ r.buffer = [i \in 0 .. ipcCount - 1 |-> IF i = last THEN e ELSE q.buffer[i]]
    BY <1>2 DEF Ring
  <1> HIDE DEF n, last
  <1>4. n \in Nat /\ n < ipcCount /\ last \in 0 .. ipcCount - 1 /\ r.head \in 0 .. ipcCount - 1
    BY <1>1, <1>2 DEF n
  <1>5. Ring(r)
    <2>1. r \in [head : Int, tail : Int, buffer : {r.buffer}]
      BY <1>1, <1>2, <1>4
    <2>2. r.buffer = [i \in 0 .. ipcCount - 1 |-> r.buffer[i]]
      BY <1>3
    <2>3. r.head # -1 /\ r.tail # -1 /\ -1 <= r.head /\ r.head < ipcCount
          /\ -1 <= r.tail /\ r.tail < ipcCount
      BY <1>1, <1>2, <1>4
    <2>4. QED
      BY <2>1, <2>2, <2>3 DEF Ring
  <1>6. Q!size(r) = n + 1
    <2>1. Q!size(r) = IF r.head <= r.tail THEN r.tail - r.head + 1
                      ELSE ipcCount - r.head + r.tail + 1
      BY <1>1, <1>4 DEF Q!size
    <2>2. QED
      BY <2>1, <1>1, <1>2, <1>4
  <1>7. Q!Wrap(r.head + n) = last
    BY <1>1, <1>2, <1>4 DEF Q!Wrap
  <1>8. ASSUME NEW k \in 1 .. n
        PROVE  /\ Q!Wrap(r.head + k - 1) = Q!Wrap(q.head + k - 1)
               /\ Q!Wrap(q.head + k - 1) # last
               /\ Q!Wrap(q.head + k - 1) \in 0 .. ipcCount - 1
    BY <1>1, <1>2, <1>4 DEF Q!Wrap
  <1>9. /\ Q!Contents(q) \in Seq(S) /\ Len(Q!Contents(q)) = n
        /\ \A k \in 1 .. n : Q!Contents(q)[k] = q.buffer[Q!Wrap(q.head + k - 1)]
    <2>1. \A i \in 0 .. ipcCount - 1 : q.buffer[i] \in S
      OBVIOUS
    <2> HIDE DEF S
    <2>2. QED
      BY <2>1, RingContents DEF n
  <1>10. e \in S /\ \A i \in 0 .. ipcCount - 1 : r.buffer[i] \in S
    BY <1>3
  <1> HIDE DEF S
  <1>11. /\ Q!Contents(r) \in Seq(S) /\ Len(Q!Contents(r)) = n + 1
         /\ \A k \in 1 .. n + 1 : Q!Contents(r)[k] = r.buffer[Q!Wrap(r.head + k - 1)]
    BY <1>5, <1>6, <1>10, RingContents
  <1>12. /\ Append(Q!Contents(q), e) \in Seq(S) /\ Len(Append(Q!Contents(q), e)) = n + 1
         /\ \A k \in 1 .. n : Append(Q!Contents(q), e)[k] = Q!Contents(q)[k]
         /\ Append(Q!Contents(q), e)[n + 1] = e
    BY <1>9, <1>10, AppendProperties
  <1>13. Q!Contents(r) = Append(Q!Contents(q), e)
    <2>1. ASSUME NEW k \in 1 .. n + 1
          PROVE  Q!Contents(r)[k] = Append(Q!Contents(q), e)[k]
      <3>1. CASE k \in 1 .. n
        <4>1. Q!Contents(r)[k] = r.buffer[Q!Wrap(q.head + k - 1)]
          BY <1>8, <1>11, <3>1
        <4>2. r.buffer[Q!Wrap(q.head + k - 1)] = q.buffer[Q!Wrap(q.head + k - 1)]
          BY <1>3, <1>8, <3>1
        <4>3. QED
          BY <1>9, <1>12, <3>1, <4>1, <4>2
      <3>2. CASE k = n + 1
        <4>1. r.head + k - 1 = r.head + n
          BY <1>4, <3>2
        <4>2. Q!Contents(r)[k] = r.buffer[last]
          BY <1>7, <1>11, <4>1
        <4>3. r.buffer[last] = e
          BY <1>3, <1>4
        <4>4. QED
          BY <1>12, <3>2, <4>2, <4>3
      <3>3. k \in 1 .. n \/ k = n + 1
        BY <1>4
      <3>4. QED
        BY <3>1, <3>2, <3>3
    <2>2. QED
      BY <1>11, <1>12, <2>1, SeqEqual
  <1>14. QED
    BY <1>5, <1>6, <1>13 DEF r, n

(* dequeue() takes the first element.                                      *)
LEMMA DequeueTakesFirst ==
  ASSUME NEW q, Ring(q), q.head # -1
  PROVE  /\ Ring(Q!dequeue(q))
         /\ Q!size(Q!dequeue(q)) = Q!size(q) - 1
         /\ Q!Contents(q) # <<>>
         /\ Q!Contents(Q!dequeue(q)) = Tail(Q!Contents(q))
  <1> DEFINE r == Q!dequeue(q)
             n == Q!size(q)
             one == q.head = q.tail
             S == {q.buffer[i] : i \in 0 .. ipcCount - 1}
  <1>1. /\ ipcCount \in Nat \ {0} /\ q.head \in 0 .. ipcCount - 1 /\ q.tail \in 0 .. ipcCount - 1
        /\ n \in 1 .. ipcCount
        /\ n = IF q.head <= q.tail THEN q.tail - q.head + 1
               ELSE ipcCount - q.head + q.tail + 1
    <2>1. /\ ipcCount \in Nat \ {0} /\ q.head \in 0 .. ipcCount - 1
          /\ q.tail \in 0 .. ipcCount - 1
      BY FeedAssumption DEF Ring
    <2>2. QED
      BY <2>1 DEF Q!size
  <1>2. r \in [head : {IF one THEN -1 ELSE Q!Wrap(q.head + 1)},
               tail : {IF one THEN -1 ELSE q.tail}, buffer : {q.buffer}]
    <2>1. ASSUME NEW V, NEW h, NEW t, NEW x \in [head : Int, tail : Int, buffer : V]
          PROVE  /\ [x EXCEPT !.head = h, !.tail = t] \in [head : {h}, tail : {t}, buffer : {x.buffer}]
                 /\ [x EXCEPT !.head = h] \in [head : {h}, tail : {x.tail}, buffer : {x.buffer}]
      OBVIOUS
    <2>2. q \in [head : Int, tail : Int, buffer : {q.buffer}]
      BY DEF Ring
    <2>3. CASE one
      <3>1. r = [q EXCEPT !.head = -1, !.tail = -1]
        BY <2>3 DEF Q!dequeue, Q!clear
      <3>2. QED
        BY <2>1, <2>2, <2>3, <3>1, ZenonT(60)
    <2>4. CASE ~one
      <3>1. r = [q EXCEPT !.head = Q!Wrap(q.head + 1)]
        BY <2>4 DEF Q!dequeue
      <3>2. QED
        BY <2>1, <2>2, <2>4, <3>1
    <2>5. QED
      BY <2>3, <2>4
  <1> HIDE DEF r, n
  <1>3. /\ r.head = IF one THEN -1 ELSE Q!Wrap(q.head + 1)
        /\ r.tail = IF one THEN -1 ELSE q.tail
        /\ r.buffer = q.buffer
    BY <1>2
  <1>4. ~one => r.head = (IF q.head + 1 >= ipcCount THEN q.head + 1 - ipcCount ELSE q.head + 1)
    BY <1>1, <1>3 DEF Q!Wrap
  <1> HIDE DEF one
  <1>5. /\ r.head \in Int /\ -1 <= r.head /\ r.head < ipcCount
        /\ r.tail \in Int /\ -1 <= r.tail /\ r.tail < ipcCount
        /\ r.head = -1 <=> r.tail = -1
    <2>1. CASE one
      BY <2>1, <1>1, <1>3
    <2>2. CASE ~one
      BY <2>2, <1>1, <1>3, <1>4
    <2>3. QED
      BY <2>1, <2>2
  <1>6. Ring(r)
    <2>1. r \in [head : Int, tail : Int, buffer : {r.buffer}]
      BY <1>2, <1>3, <1>5
    <2>2. r.buffer = [i \in 0 .. ipcCount - 1 |-> r.buffer[i]]
      BY <1>3 DEF Ring
    <2>3. QED
      BY <2>1, <2>2, <1>5 DEF Ring
  <1>7. Q!size(r) = n - 1
    <2>1. Q!size(r) = IF r.head = -1 THEN 0
                      ELSE IF r.head <= r.tail THEN r.tail - r.head + 1
                      ELSE ipcCount - r.head + r.tail + 1
      BY DEF Q!size
    <2>2. CASE one
      <3>1. r.head = -1 /\ Q!size(r) = 0
        BY <1>3, <2>1, <2>2
      <3>2. n = 1
        BY <1>1, <2>2 DEF one
      <3>3. QED
        BY <3>1, <3>2
    <2>3. CASE ~one
      <3>1. /\ q.head # q.tail /\ r.tail = q.tail
            /\ r.head = IF q.head + 1 >= ipcCount THEN q.head + 1 - ipcCount ELSE q.head + 1
        BY <1>3, <1>4, <2>3 DEF one
      <3>2. Q!size(r) = IF r.head <= r.tail THEN r.tail - r.head + 1
                        ELSE ipcCount - r.head + r.tail + 1
        BY <1>1, <2>1, <3>1
      <3>3. QED
        BY <1>1, <3>1, <3>2
    <2>4. QED
      BY <2>2, <2>3
  <1>8. ASSUME NEW k \in 1 .. n - 1
        PROVE  Q!Wrap(r.head + k - 1) = Q!Wrap(q.head + (k + 1) - 1)
    <2>1. ~one
      BY <1>1 DEF one
    <2>2. QED
      BY <1>1, <1>4, <2>1 DEF Q!Wrap
  <1>9. \A i \in 0 .. ipcCount - 1 : q.buffer[i] \in S
    OBVIOUS
  <1> HIDE DEF S
  <1>10. /\ Q!Contents(q) \in Seq(S) /\ Len(Q!Contents(q)) = n
         /\ \A k \in 1 .. n : Q!Contents(q)[k] = q.buffer[Q!Wrap(q.head + k - 1)]
    BY <1>9, RingContents DEF n
  <1>11. /\ Q!Contents(r) \in Seq(S) /\ Len(Q!Contents(r)) = n - 1
         /\ \A k \in 1 .. n - 1 : Q!Contents(r)[k] = q.buffer[Q!Wrap(r.head + k - 1)]
    BY <1>3, <1>6, <1>7, <1>9, RingContents
  <1>12. /\ Q!Contents(q) # <<>>
         /\ Tail(Q!Contents(q)) \in Seq(S) /\ Len(Tail(Q!Contents(q))) = n - 1
         /\ \A k \in 1 .. n - 1 : Tail(Q!Contents(q))[k] = Q!Contents(q)[k + 1]
    <2>1. Q!Contents(q) # <<>>
      BY <1>1, <1>10, EmptySeq
    <2>2. QED
      BY <1>10, <2>1, HeadTailProperties
  <1>13. Q!Contents(r) = Tail(Q!Contents(q))
    <2>1. ASSUME NEW k \in 1 .. n - 1
          PROVE  Q!Contents(r)[k] = Tail(Q!Contents(q))[k]
      <3>1. k + 1 \in 1 .. n
        BY <1>1
      <3>2. QED
        BY <1>8, <1>10, <1>11, <1>12, <3>1
    <2>2. QED
      BY <1>1, <1>11, <1>12, <2>1, SeqEqual
  <1>14. QED
    BY <1>6, <1>7, <1>12, <1>13 DEF r, n

(* A new queue is empty.                                                   *)
LEMMA NewRing == Ring(NoPackets) /\ Q!size(NoPackets) = 0 /\ Q!Contents(NoPackets) = <<>>
  <1>1. Ring(NoPackets) /\ Q!size(NoPackets) = 0
    BY FeedAssumption DEF Ring, NoPackets, Q!size
  <1>2. QED
    BY <1>1 DEF Q!Contents

-----------------------------------------------------------------------------
(* run()                                                                   *)

(* fetchManyPackets() has no more turns than the queue has space.          *)
QueueInv ==
  /\ Ring(fromEmulator)
  /\ pc = "fetch" => turns \in Nat /\ turns <= ipcCount - Q!size(fromEmulator)

(* The queue begins empty.                                                 *)
LEMMA QueueInit == Init => QueueInv /\ PacketQueue!Init
  BY NewRing, FeedAssumption DEF Init, QueueInv, PacketQueue!Init

(* A turn of fetchManyPackets() enqueues one packet at most.               *)
LEMMA QueueFetch == QueueInv /\ FetchPacket
                      => QueueInv' /\ [PacketQueue!Next]_(Q!Contents(fromEmulator))
  <1> SUFFICES ASSUME QueueInv, FetchPacket
               PROVE  QueueInv' /\ [PacketQueue!Next]_(Q!Contents(fromEmulator))
    OBVIOUS
  <1> DEFINE stream == Stream(coreid, kernelExecuted)
             item   == stream[pos + 1]
             packet == [kind |-> item.kind, at |-> pos + 1]
  <1>1. /\ pc = "fetch" /\ turns > 0
        /\ \/ pc' = "exited" /\ UNCHANGED reader
           \/ /\ turns' = TurnsLeft(item) /\ UNCHANGED pc
              /\ \/ fromEmulator' = fromEmulator
                 \/ fromEmulator' = Q!enqueue(fromEmulator, packet)
    BY DEF FetchPacket
  <1> HIDE DEF stream, item, packet
  <1>2. /\ Ring(fromEmulator) /\ turns \in Nat \ {0}
        /\ Q!size(fromEmulator) \in Nat /\ turns <= ipcCount - Q!size(fromEmulator)
        /\ ipcCount \in Nat
    BY <1>1, RingSize, FeedAssumption DEF QueueInv
  <1>3. CASE pc' = "exited" /\ UNCHANGED reader
    BY <1>2, <1>3 DEF QueueInv, reader
  <1>4. CASE UNCHANGED pc /\ turns' = TurnsLeft(item) /\ fromEmulator' = fromEmulator
    <2>1. turns' \in Nat /\ turns' <= turns
      BY <1>2, <1>4 DEF TurnsLeft
    <2>2. QED
      BY <1>2, <1>4, <2>1 DEF QueueInv
  <1>5. CASE /\ UNCHANGED pc /\ turns' = TurnsLeft(item)
             /\ fromEmulator' = Q!enqueue(fromEmulator, packet)
    <2>1. turns' \in Nat /\ turns' <= turns - 1
      BY <1>2, <1>5 DEF TurnsLeft
    <2>2. /\ Ring(fromEmulator') /\ Q!size(fromEmulator') = Q!size(fromEmulator) + 1
          /\ Q!Contents(fromEmulator') = Append(Q!Contents(fromEmulator), packet)
      BY <1>2, <1>5, EnqueueAppends
    <2>3. QueueInv'
      BY <1>1, <1>2, <1>5, <2>1, <2>2 DEF QueueInv
    <2>4. PacketQueue!Enqueue
      <3>1. PICK S : /\ Q!Contents(fromEmulator) \in Seq(S) /\ packet \in S
                     /\ Len(Q!Contents(fromEmulator)) = Q!size(fromEmulator)
        <4> DEFINE T == {fromEmulator.buffer[i] : i \in 0 .. ipcCount - 1} \cup {packet}
        <4>1. \A i \in 0 .. ipcCount - 1 : fromEmulator.buffer[i] \in T
          OBVIOUS
        <4>2. packet \in T
          OBVIOUS
        <4> HIDE DEF T
        <4>3. /\ Q!Contents(fromEmulator) \in Seq(T)
              /\ Len(Q!Contents(fromEmulator)) = Q!size(fromEmulator)
          BY <1>2, <4>1, RingContents
        <4>4. QED
          BY <4>2, <4>3
      <3>2. /\ Len(Q!Contents(fromEmulator')) = Len(Q!Contents(fromEmulator)) + 1
            /\ Q!Contents(fromEmulator')[Len(Q!Contents(fromEmulator))+1] = packet
        BY <2>2, <3>1, AppendProperties
      <3>3. QED
        BY <1>2, <2>2, <3>1, <3>2 DEF PacketQueue!Enqueue
    <2>5. QED
      BY <2>3, <2>4 DEF PacketQueue!Next
  <1>6. QED
    BY <1>1, <1>3, <1>4, <1>5

(* A packet is taken from a queue that has one.                            *)
LEMMA QueueProcess == QueueInv /\ ProcessPacket
                        => QueueInv' /\ [PacketQueue!Next]_(Q!Contents(fromEmulator))
  <1> SUFFICES ASSUME QueueInv, ProcessPacket
               PROVE  QueueInv' /\ [PacketQueue!Next]_(Q!Contents(fromEmulator))
    OBVIOUS
  <1>1. /\ pc = "process" /\ fromEmulator.head # -1 /\ Ring(fromEmulator)
        /\ fromEmulator' = Q!dequeue(fromEmulator) /\ pc' \in {"process", "exited", "pipelines"}
    BY DEF ProcessPacket, Q!IsEmpty, QueueInv
  <1>2. /\ Ring(fromEmulator') /\ Q!Contents(fromEmulator) # <<>>
        /\ Q!Contents(fromEmulator') = Tail(Q!Contents(fromEmulator))
    BY <1>1, DequeueTakesFirst
  <1>3. QED
    BY <1>1, <1>2 DEF QueueInv, PacketQueue!Next, PacketQueue!Dequeue

(* Every step keeps the invariant and is a step of the bounded sequence.   *)
LEMMA QueueStep == QueueInv /\ [Next]_vars
                     => QueueInv' /\ [PacketQueue!Next]_(Q!Contents(fromEmulator))
  <1> SUFFICES ASSUME QueueInv, [Next]_vars
               PROVE  QueueInv' /\ [PacketQueue!Next]_(Q!Contents(fromEmulator))
    OBVIOUS
  <1>1. CASE StartKernel
    <2>1. CASE UNCHANGED <<pc, reader>>
      BY <2>1 DEF QueueInv, reader
    <2>2. CASE pc' = "block" /\ fromEmulator' = NoPackets
      BY <2>2, NewRing DEF QueueInv, PacketQueue!Next, PacketQueue!Clear
    <2>3. QED
      BY <1>1, <2>1, <2>2 DEF StartKernel
  <1>2. CASE BeginFetch
    <2>1. /\ fromEmulator' = fromEmulator /\ pc' = "fetch"
          /\ turns' = ipcCount - Q!size(fromEmulator)
      BY <1>2 DEF BeginFetch, Q!spaceLeft
    <2>2. turns' \in Nat
      BY <2>1, RingSize, FeedAssumption DEF QueueInv
    <2>3. QED
      BY <2>1, <2>2, RingSize, FeedAssumption DEF QueueInv
  <1>3. CASE FetchPacket
    BY <1>3, QueueFetch
  <1>4. CASE ProcessPacket
    BY <1>4, QueueProcess
  <1>5. CASE EndFetch \/ EndProcess \/ EndBlock \/ (\E c \in Cores : Simulate(c))
    <2>1. fromEmulator' = fromEmulator /\ pc' # "fetch"
      BY <1>5 DEF EndFetch, EndProcess, EndBlock, Simulate, reader
    <2>2. QED
      BY <2>1 DEF QueueInv
  <1>6. CASE Trace \/ UNCHANGED vars
    <2>1. UNCHANGED <<pc, reader>>
      BY <1>6 DEF Trace, vars
    <2>2. QED
      BY <2>1 DEF QueueInv, reader
  <1>7. QED
    BY <1>1, <1>2, <1>3, <1>4, <1>5, <1>6 DEF Next

(* No packet of the stream is overwritten before it is processed: the      *)
(* circular queue of run(), which enqueue() does not protect, is a bounded *)
(* sequence.                                                               *)
THEOREM PacketsKeptCorrect == Spec => PacketsKept
  <1>1. Init => QueueInv /\ PacketQueue!Init
    BY QueueInit
  <1>2. QueueInv /\ [Next]_vars => QueueInv' /\ [PacketQueue!Next]_(Q!Contents(fromEmulator))
    BY QueueStep
  <1>3. QED
    BY <1>1, <1>2, PTL DEF Spec, PacketsKept, PacketQueue!Spec

-----------------------------------------------------------------------------
(* The streams of a file.  A file is a sequence of lines in which some     *)
(* start a kernel; what the simplifier makes of it is known by the places  *)
(* of those lines, in ascending order.                                     *)

Lines == {r \in [kind : {"kernel", "ins", "end"}, block : Int, ops : 0 .. 50] :
            /\ r.kind # "ins" => r.ops = 0
            /\ r.kind = "kernel" => r.block > 0}

KernelLines(f) == {l \in DOMAIN f : f[l].kind = "kernel"}

(* The k-th part of f.                                                     *)
Part(f, k) ==
  LET first == CHOOSE l \in KernelLines(f) : Cardinality({m \in KernelLines(f) : m < l}) = k
      later == {m \in KernelLines(f) : m > first}
      last  == IF later = {} THEN Len(f)
               ELSE (CHOOSE m \in later : \A n \in later : m <= n) - 1
  IN  SubSeq(f, first, last)

(* The kernels of f start at p[0], ..., p[n - 1].                          *)
StartsAt(f, n, p) ==
  /\ p \in [0 .. n - 1 -> 1 .. Len(f)]
  /\ \A j, k \in 0 .. n - 1 : j < k => p[j] < p[k]
  /\ KernelLines(f) = {p[k] : k \in 0 .. n - 1}

HasKernels(f, n) == f \in Seq(Lines) /\ \E p : StartsAt(f, n, p)

LastOf(f, n, p, k) == IF k = n - 1 THEN Len(f) ELSE p[k + 1] - 1

(* Stream(c, k) is a part of the file of c.                                *)
LEMMA StreamIsPart == \A c, k : Stream(c, k) = Part(files[c], k)
  BY DEF Stream, Part, Starts, KernelLines

(* Before the k-th of ascending numbers there are k.                       *)
LEMMA CountBelow ==
  ASSUME NEW n \in Nat, NEW p \in [0 .. n - 1 -> Int],
         \A j, k \in 0 .. n - 1 : j < k => p[j] < p[k],
         NEW K, K = {p[k] : k \in 0 .. n - 1}, NEW k \in 0 .. n - 1
  PROVE  Cardinality({m \in K : m < p[k]}) = k
  <1> DEFINE B == {m \in K : m < p[k]}
             g == [j \in 0 .. k - 1 |-> p[j]]
  <1>1. \A j \in 0 .. n - 1 : p[j] < p[k] <=> j < k
    OBVIOUS
  <1>2. \A j \in 0 .. k - 1 : j \in 0 .. n - 1 /\ g[j] = p[j] /\ g[j] \in B
    BY <1>1
  <1>3. g \in [0 .. k - 1 -> B]
    BY <1>2
  <1>4. \A i, j \in 0 .. k - 1 : g[i] = g[j] => i = j
    <2>1. \A i, j \in 0 .. k - 1 : i < j => g[i] < g[j]
      BY <1>2
    <2>2. \A i \in 0 .. k - 1 : g[i] \in Int
      BY <1>2
    <2> HIDE DEF g
    <2>3. QED
      BY <2>1, <2>2
  <1>5. \A b \in B : \E j \in 0 .. k - 1 : g[j] = b
    <2> SUFFICES ASSUME NEW b \in B PROVE \E j \in 0 .. k - 1 : g[j] = b
      OBVIOUS
    <2>1. PICK j \in 0 .. n - 1 : b = p[j]
      OBVIOUS
    <2>2. j \in 0 .. k - 1
      BY <1>1, <2>1
    <2>3. QED
      BY <1>2, <2>1, <2>2
  <1>6. g \in Bijection(0 .. k - 1, B)
    <2> HIDE DEF g, B
    <2>1. QED
      BY <1>3, <1>4, <1>5 DEF Bijection, Injection, Surjection, IsInjective
  <1>7. IsFiniteSet(0 .. k - 1) /\ Cardinality(0 .. k - 1) = k
    <2>1. k \in Nat /\ k - 1 \in Int /\ 0 \in Int
      OBVIOUS
    <2>2. /\ IsFiniteSet(0 .. k - 1)
          /\ Cardinality(0 .. k - 1) = IF 0 > k - 1 THEN 0 ELSE (k - 1) - 0 + 1
      BY <2>1, FS_Interval
    <2>3. QED
      BY <2>1, <2>2
  <1> HIDE DEF B
  <1>8. Cardinality(B) = k
    BY <1>6, <1>7, FS_Bijection DEF ExistsBijection
  <1>9. QED
    BY <1>8 DEF B

(* The lines of a part.                                                    *)
LEMMA PartIs ==
  ASSUME NEW n \in Nat, NEW f \in Seq(Lines), NEW p, StartsAt(f, n, p), NEW k \in 0 .. n - 1
  PROVE  /\ Part(f, k) \in Seq(Lines)
         /\ LastOf(f, n, p, k) \in p[k] .. Len(f)
         /\ Len(Part(f, k)) = LastOf(f, n, p, k) - p[k] + 1
         /\ \A i \in 1 .. Len(Part(f, k)) : Part(f, k)[i] = f[p[k] + i - 1]
  <1> DEFINE K == KernelLines(f)
             first == CHOOSE l \in K : Cardinality({m \in K : m < l}) = k
             later == {m \in K : m > first}
             least == CHOOSE m \in later : \A x \in later : m <= x
             last == IF later = {} THEN Len(f) ELSE least - 1
  <1>1. /\ p \in [0 .. n - 1 -> Int] /\ \A j \in 0 .. n - 1 : p[j] \in 1 .. Len(f)
        /\ \A i, j \in 0 .. n - 1 : i < j => p[i] < p[j]
        /\ K = {p[j] : j \in 0 .. n - 1}
    BY DEF StartsAt
  <1> HIDE DEF K
  <1>2. \A j \in 0 .. n - 1 : Cardinality({m \in K : m < p[j]}) = j
    BY <1>1, CountBelow
  <1>3. first = p[k]
    <2>1. p[k] \in K /\ Cardinality({m \in K : m < p[k]}) = k
      BY <1>1, <1>2
    <2>2. first \in K /\ Cardinality({m \in K : m < first}) = k
      BY <2>1
    <2> HIDE DEF first
    <2>3. PICK j \in 0 .. n - 1 : first = p[j]
      BY <1>1, <2>2
    <2>4. QED
      BY <1>2, <2>2, <2>3
  <1> HIDE DEF first
  <1>4. \A j \in 0 .. n - 1 : p[j] \in later <=> k < j
    BY <1>1, <1>3, SMTT(30)
  <1>5. last = LastOf(f, n, p, k)
    <2>1. CASE k = n - 1
      <3>1. later = {}
        <4>1. \A m \in K : m \notin later
          BY <1>1, <1>4, <2>1
        <4>2. QED
          BY <4>1
      <3>2. QED
        BY <2>1, <3>1 DEF LastOf
    <2>2. CASE k # n - 1
      <3>1. k + 1 \in 0 .. n - 1 /\ p[k + 1] \in later
        BY <1>4, <2>2
      <3>2. \A x \in later : x \in Int /\ p[k + 1] <= x
        <4> SUFFICES ASSUME NEW x \in later PROVE x \in Int /\ p[k + 1] <= x
          OBVIOUS
        <4>1. PICK j \in 0 .. n - 1 : x = p[j]
          BY <1>1
        <4>2. k < j
          BY <1>4, <4>1
        <4>3. QED
          BY <1>1, <2>2, <3>1, <4>1, <4>2, SMTT(30)
      <3> HIDE DEF later
      <3>3. least \in later /\ \A x \in later : least <= x
        BY <3>1, <3>2
      <3>4. least = p[k + 1]
        <4> HIDE DEF least
        <4>1. least <= p[k + 1] /\ p[k + 1] <= least /\ least \in Int /\ p[k + 1] \in Int
          BY <3>1, <3>2, <3>3
        <4>2. QED
          BY <4>1
      <3> HIDE DEF least
      <3>5. later # {}
        BY <3>1
      <3>6. QED
        BY <2>2, <3>4, <3>5 DEF LastOf
    <2>3. QED
      BY <2>1, <2>2
  <1>6. Part(f, k) = SubSeq(f, first, last)
    BY DEF Part, K, first
  <1> HIDE DEF last
  <1>7. LastOf(f, n, p, k) \in p[k] .. Len(f)
    <2>1. Len(f) \in Nat /\ p[k] \in 1 .. Len(f)
      BY <1>1
    <2>2. k # n - 1 => k + 1 \in 0 .. n - 1 /\ p[k + 1] \in 1 .. Len(f) /\ p[k] < p[k + 1]
      BY <1>1
    <2>3. QED
      BY <2>1, <2>2 DEF LastOf
  <1> DEFINE a == p[k]
             b == LastOf(f, n, p, k)
  <1>8. a \in Int /\ b \in Int /\ a <= b /\ \A i \in a .. b : f[i] \in Lines
    BY <1>1, <1>7
  <1>9. Part(f, k) = SubSeq(f, a, b)
    BY <1>3, <1>5, <1>6
  <1> HIDE DEF a, b
  <1>10. /\ SubSeq(f, a, b) \in Seq(Lines) /\ Len(SubSeq(f, a, b)) = b - a + 1
         /\ \A i \in 1 .. b - a + 1 : SubSeq(f, a, b)[i] = f[a + i - 1]
    BY <1>8, SubSeqProperties
  <1>11. QED
    BY <1>7, <1>9, <1>10 DEF a, b

(* A part starts with the start of its kernel, and has no other.           *)
LEMMA PartShape ==
  ASSUME NEW n \in Nat, NEW f, HasKernels(f, n), NEW k \in 0 .. n - 1
  PROVE  /\ Part(f, k) \in Seq(Lines) /\ Len(Part(f, k)) \in Nat \ {0}
         /\ Part(f, k)[1].kind = "kernel"
         /\ \A i \in 2 .. Len(Part(f, k)) : Part(f, k)[i].kind # "kernel"
  <1>1. PICK p : StartsAt(f, n, p)
    BY DEF HasKernels
  <1> DEFINE s == Part(f, k)
             b == LastOf(f, n, p, k)
  <1>2. f \in Seq(Lines) /\ Len(f) \in Nat /\ DOMAIN f = 1 .. Len(f)
    BY DEF HasKernels
  <1>3. /\ s \in Seq(Lines) /\ b \in p[k] .. Len(f) /\ Len(s) = b - p[k] + 1
        /\ \A i \in 1 .. Len(s) : s[i] = f[p[k] + i - 1]
    BY <1>1, <1>2, PartIs
  <1>4. /\ \A j \in 0 .. n - 1 : p[j] \in 1 .. Len(f)
        /\ \A i, j \in 0 .. n - 1 : i < j => p[i] < p[j]
        /\ \A l \in 1 .. Len(f) : f[l].kind = "kernel" <=> \E j \in 0 .. n - 1 : l = p[j]
    BY <1>1, <1>2 DEF StartsAt, KernelLines
  <1> HIDE DEF s
  <1>5. Len(s) \in Nat \ {0} /\ s[1].kind = "kernel"
    <2>1. p[k] \in 1 .. Len(f) /\ f[p[k]].kind = "kernel"
      BY <1>4
    <2>2. Len(s) \in Nat \ {0} /\ s[1] = f[p[k] + 1 - 1] /\ p[k] + 1 - 1 = p[k]
      BY <1>2, <1>3, <2>1
    <2>3. QED
      BY <2>1, <2>2
  <1>6. ASSUME NEW i \in 2 .. Len(s), s[i].kind = "kernel" PROVE FALSE
    <2> DEFINE l == p[k] + i - 1
    <2>1. l \in 1 .. Len(f) /\ p[k] < l /\ l <= b /\ s[i] = f[l]
      <3>1. /\ Len(f) \in Nat /\ p[k] \in Int /\ p[k] >= 1 /\ b \in Int /\ b <= Len(f)
            /\ Len(s) = b - p[k] + 1
        BY <1>2, <1>3, <1>4
      <3>2. i \in 1 .. Len(s) /\ i \in Int /\ i >= 2 /\ i <= Len(s)
        BY <1>5
      <3>3. s[i] = f[l]
        BY <1>3, <3>2
      <3> HIDE DEF b
      <3>4. l \in Int /\ 1 <= l /\ p[k] < l /\ l <= b /\ l <= Len(f)
        BY <3>1, <3>2, SMTT(30)
      <3> HIDE DEF l
      <3>5. QED
        BY <3>1, <3>3, <3>4
    <2> HIDE DEF l
    <2>2. PICK j \in 0 .. n - 1 : l = p[j]
      BY <1>4, <1>6, <2>1
    <2>3. k < j
      BY <1>4, <2>1, <2>2
    <2>4. k # n - 1 /\ k + 1 \in 0 .. n - 1 /\ p[k + 1] <= p[j]
      BY <1>4, <2>3
    <2>5. b = p[k + 1] - 1
      BY <2>4 DEF LastOf
    <2> HIDE DEF b
    <2>6. QED
      BY <1>4, <2>1, <2>2, <2>4, <2>5
  <1>7. QED
    BY <1>3, <1>5, <1>6 DEF s

(* Parts with the same lines are equal.                                    *)
LEMMA SameParts ==
  ASSUME NEW n \in Nat, NEW f \in Seq(Lines), NEW p, StartsAt(f, n, p), NEW k \in 0 .. n - 1,
         NEW m \in Nat, NEW g \in Seq(Lines), NEW q, StartsAt(g, m, q), k \in 0 .. m - 1,
         p[k] = q[k], LastOf(f, n, p, k) = LastOf(g, m, q, k),
         \A l \in p[k] .. LastOf(f, n, p, k) : f[l] = g[l]
  PROVE  Part(f, k) = Part(g, k)
  <1> DEFINE s == Part(f, k)
             t == Part(g, k)
             a == p[k]
             b == LastOf(f, n, p, k)
  <1>1. /\ s \in Seq(Lines) /\ b \in a .. Len(f) /\ Len(s) = b - a + 1
        /\ \A i \in 1 .. Len(s) : s[i] = f[a + i - 1]
    BY PartIs
  <1>2. /\ t \in Seq(Lines) /\ Len(t) = b - a + 1
        /\ \A i \in 1 .. Len(t) : t[i] = g[a + i - 1]
    BY PartIs, SMTT(60)
  <1>3. a \in Int /\ b \in Int /\ \A l \in a .. b : f[l] = g[l]
    <2>1. a \in 1 .. Len(f) /\ Len(f) \in Nat
      BY DEF StartsAt
    <2>2. QED
      BY <1>1, <2>1
  <1> HIDE DEF s, t, a, b
  <1>4. \A i \in 1 .. b - a + 1 : a + i - 1 \in a .. b
    BY <1>3
  <1>5. \A i \in 1 .. Len(s) : s[i] = t[i]
    BY <1>1, <1>2, <1>3, <1>4
  <1>6. Len(s) = Len(t)
    BY <1>1, <1>2
  <1>7. s = t
    BY <1>1, <1>2, <1>5, <1>6, SeqEqual
  <1>8. QED
    BY <1>7 DEF s, t

(* A kernel more: the last part is its start, the others stay.             *)
LEMMA PartKernel ==
  ASSUME NEW n \in Nat, NEW f, HasKernels(f, n), NEW e \in Lines, e.kind = "kernel"
  PROVE  /\ HasKernels(Append(f, e), n + 1)
         /\ Part(Append(f, e), n) = <<e>>
         /\ \A k \in 0 .. n - 1 : Part(Append(f, e), k) = Part(f, k)
  <1> DEFINE g == Append(f, e)
             z == Len(f) + 1
  <1>1. PICK p : StartsAt(f, n, p)
    BY DEF HasKernels
  <1> DEFINE q == [j \in 0 .. (n + 1) - 1 |-> IF j = n THEN z ELSE p[j]]
  <1>2. /\ f \in Seq(Lines) /\ Len(f) \in Nat
        /\ g \in Seq(Lines) /\ Len(g) = z /\ g[z] = e /\ \A l \in 1 .. Len(f) : g[l] = f[l]
    BY DEF HasKernels
  <1>3. /\ \A j \in 0 .. n - 1 : p[j] \in 1 .. Len(f)
        /\ \A i, j \in 0 .. n - 1 : i < j => p[i] < p[j]
        /\ \A l \in 1 .. Len(f) : f[l].kind = "kernel" <=> \E j \in 0 .. n - 1 : l = p[j]
    BY <1>1, <1>2 DEF StartsAt, KernelLines
  <1> HIDE DEF g
  <1>4. /\ q[n] = z /\ \A j \in 0 .. n - 1 : q[j] = p[j]
        /\ \A j \in 0 .. (n + 1) - 1 : j = n \/ j \in 0 .. n - 1
    OBVIOUS
  <1>5. StartsAt(g, n + 1, q)
    <2>1. q \in [0 .. (n + 1) - 1 -> 1 .. Len(g)]
      BY <1>2, <1>3
    <2>2. \A i, j \in 0 .. (n + 1) - 1 : i < j => q[i] < q[j]
      <3> SUFFICES ASSUME NEW i \in 0 .. (n + 1) - 1, NEW j \in 0 .. (n + 1) - 1, i < j
                   PROVE  q[i] < q[j]
        OBVIOUS
      <3>1. i \in 0 .. n - 1 /\ q[i] = p[i]
        BY <1>4
      <3>2. CASE j = n
        BY <1>2, <1>3, <1>4, <3>1, <3>2
      <3>3. CASE j \in 0 .. n - 1
        BY <1>3, <1>4, <3>1, <3>3
      <3>4. QED
        BY <1>4, <3>2, <3>3
    <2>3. KernelLines(g) = {q[j] : j \in 0 .. (n + 1) - 1}
      <3>1. ASSUME NEW l \in 1 .. z
            PROVE  g[l].kind = "kernel" <=> \E j \in 0 .. (n + 1) - 1 : l = q[j]
        <4>1. CASE l = z
          BY <1>2, <1>4, <4>1
        <4>2. CASE l \in 1 .. Len(f)
          <5>1. g[l].kind = "kernel" <=> \E j \in 0 .. n - 1 : l = p[j]
            BY <1>2, <1>3, <4>2
          <5>2. l # z
            BY <1>2, <4>2
          <5> HIDE DEF q, z
          <5>3. QED
            BY <1>4, <5>1, <5>2
        <4>3. QED
          BY <1>2, <4>1, <4>2
      <3>2. \A j \in 0 .. (n + 1) - 1 : q[j] \in 1 .. z
        BY <1>2, <2>1
      <3>3. DOMAIN g = 1 .. z
        BY <1>2
      <3> HIDE DEF q, z
      <3>4. QED
        BY <3>1, <3>2, <3>3 DEF KernelLines
    <2> HIDE DEF q
    <2>4. QED
      BY <2>1, <2>2, <2>3 DEF StartsAt
  <1>6. HasKernels(g, n + 1)
    BY <1>2, <1>5 DEF HasKernels
  <1> HIDE DEF q
  <1>7. Part(g, n) = <<e>>
    <2>1. n \in 0 .. (n + 1) - 1 /\ LastOf(g, n + 1, q, n) = z
      BY <1>2 DEF LastOf
    <2>2. /\ Part(g, n) \in Seq(Lines) /\ Len(Part(g, n)) = z - z + 1
          /\ \A i \in 1 .. Len(Part(g, n)) : Part(g, n)[i] = g[z + i - 1]
      <3>1. n + 1 \in Nat /\ q[n] = z
        BY <1>4
      <3> HIDE DEF z
      <3>2. QED
        BY <1>2, <1>5, <2>1, <3>1, PartIs
    <2>3. Len(Part(g, n)) = 1 /\ Part(g, n)[1] = e
      <3>1. z - z + 1 = 1 /\ z + 1 - 1 = z
        BY <1>2
      <3>2. QED
        BY <1>2, <2>2, <3>1
    <2>4. <<e>> \in Seq(Lines) /\ Len(<<e>>) = 1 /\ <<e>>[1] = e
      OBVIOUS
    <2>5. QED
      BY <2>2, <2>3, <2>4, SeqEqual
  <1>8. ASSUME NEW k \in 0 .. n - 1 PROVE Part(g, k) = Part(f, k)
    <2>1. k \in 0 .. (n + 1) - 1 /\ n + 1 \in Nat /\ p[k] = q[k] /\ p[k] \in 1 .. Len(f)
      BY <1>3, <1>4
    <2>2. LastOf(g, n + 1, q, k) = LastOf(f, n, p, k) /\ LastOf(f, n, p, k) \in p[k] .. Len(f)
      <3>1. LastOf(f, n, p, k) \in p[k] .. Len(f)
        BY <1>1, <1>2, PartIs
      <3>2. CASE k = n - 1
        <4>1. k + 1 = n /\ k # (n + 1) - 1 /\ z - 1 = Len(f)
          BY <1>2, <3>2
        <4>2. QED
          BY <1>4, <3>1, <3>2, <4>1 DEF LastOf
      <3>3. CASE k # n - 1
        <4>1. k + 1 \in 0 .. n - 1 /\ k # (n + 1) - 1
          BY <3>3
        <4>2. QED
          BY <1>4, <3>1, <3>3, <4>1 DEF LastOf
      <3>4. QED
        BY <3>2, <3>3
    <2>3. \A l \in p[k] .. LastOf(f, n, p, k) : f[l] = g[l]
      <3>1. \A l \in p[k] .. LastOf(f, n, p, k) : l \in 1 .. Len(f)
        BY <1>2, <2>1, <2>2
      <3>2. QED
        BY <1>2, <3>1
    <2>4. QED
      BY <1>1, <1>2, <1>5, <2>1, <2>2, <2>3, SameParts
  <1>9. QED
    BY <1>6, <1>7, <1>8 DEF g

(* More lines of the kernel that runs: they go to the last part.           *)
LEMMA PartLines ==
  ASSUME NEW n \in Nat \ {0}, NEW f, HasKernels(f, n), NEW t \in Seq(Lines),
         \A l \in 1 .. Len(t) : t[l].kind # "kernel"
  PROVE  /\ HasKernels(f \o t, n)
         /\ Part(f \o t, n - 1) = Part(f, n - 1) \o t
         /\ \A k \in 0 .. n - 2 : Part(f \o t, k) = Part(f, k)
  <1> DEFINE g == f \o t
  <1>1. PICK p : StartsAt(f, n, p)
    BY DEF HasKernels
  <1>2. /\ f \in Seq(Lines) /\ Len(f) \in Nat /\ Len(t) \in Nat
        /\ g \in Seq(Lines) /\ Len(g) = Len(f) + Len(t)
        /\ \A l \in 1 .. Len(f) + Len(t) : g[l] = IF l <= Len(f) THEN f[l] ELSE t[l - Len(f)]
    BY ConcatProperties DEF HasKernels
  <1> HIDE DEF g
  <1>3. /\ p \in [0 .. n - 1 -> 1 .. Len(f)]
        /\ \A j \in 0 .. n - 1 : p[j] \in 1 .. Len(f)
        /\ \A i, j \in 0 .. n - 1 : i < j => p[i] < p[j]
        /\ \A l \in 1 .. Len(f) : f[l].kind = "kernel" <=> \E j \in 0 .. n - 1 : l = p[j]
    BY <1>1, <1>2, SMTT(30) DEF StartsAt, KernelLines
  <1>4. /\ \A l \in 1 .. Len(f) : g[l] = f[l] /\ l \in 1 .. Len(g)
        /\ \A l \in 1 .. Len(g) : l \in 1 .. Len(f) \/ (l - Len(f) \in 1 .. Len(t) /\ g[l] = t[l - Len(f)])
    BY <1>2
  <1>5. StartsAt(g, n, p)
    <2>1. p \in [0 .. n - 1 -> 1 .. Len(g)]
      BY <1>3, <1>4
    <2>2. ASSUME NEW l \in 1 .. Len(g)
          PROVE  g[l].kind = "kernel" <=> \E j \in 0 .. n - 1 : l = p[j]
      <3>1. CASE l \in 1 .. Len(f)
        BY <1>3, <1>4, <3>1, ZenonT(60)
      <3>2. CASE l \notin 1 .. Len(f)
        <4>1. g[l].kind # "kernel"
          BY <1>4, <3>2
        <4>2. \A j \in 0 .. n - 1 : l # p[j]
          BY <1>3, <3>2
        <4>3. QED
          BY <4>1, <4>2
      <3>3. QED
        BY <3>1, <3>2
    <2>3. DOMAIN g = 1 .. Len(g)
      BY <1>2
    <2>4. QED
      BY <1>3, <2>1, <2>2, <2>3, SMTT(30) DEF StartsAt, KernelLines
  <1>6. n - 1 \in 0 .. n - 1 /\ \A k \in 0 .. n - 2 : k \in 0 .. n - 1 /\ k # n - 1 /\ k + 1 \in 0 .. n - 1
    OBVIOUS
  <1>7. ASSUME NEW k \in 0 .. n - 2 PROVE Part(g, k) = Part(f, k)
    <2>1. LastOf(g, n, p, k) = LastOf(f, n, p, k) /\ LastOf(f, n, p, k) \in p[k] .. Len(f)
      BY <1>1, <1>2, <1>6, PartIs DEF LastOf
    <2>2. \A l \in p[k] .. LastOf(f, n, p, k) : l \in 1 .. Len(f)
      BY <1>2, <1>3, <1>6, <2>1, SMTT(30)
    <2>3. QED
      BY <1>1, <1>2, <1>4, <1>5, <1>6, <2>1, <2>2, SameParts
  <1>8. Part(g, n - 1) = Part(f, n - 1) \o t
    <2> DEFINE k == n - 1
               s == Part(f, k)
               a == p[k]
    <2>1. /\ s \in Seq(Lines) /\ Len(s) = Len(f) - a + 1
          /\ \A i \in 1 .. Len(s) : s[i] = f[a + i - 1]
      <3>1. LastOf(f, n, p, k) = Len(f) /\ k \in 0 .. n - 1 /\ n \in Nat
        BY <1>6 DEF LastOf
      <3>2. f \in Seq(Lines)
        BY <1>2
      <3> HIDE DEF k
      <3>3. /\ Part(f, k) \in Seq(Lines)
            /\ Len(Part(f, k)) = LastOf(f, n, p, k) - p[k] + 1
            /\ \A i \in 1 .. Len(Part(f, k)) : Part(f, k)[i] = f[p[k] + i - 1]
        BY <1>1, <3>1, <3>2, PartIs
      <3>4. QED
        BY <3>1, <3>3
    <2>2. /\ Part(g, k) \in Seq(Lines) /\ Len(Part(g, k)) = Len(g) - a + 1
          /\ \A i \in 1 .. Len(Part(g, k)) : Part(g, k)[i] = g[a + i - 1]
      BY <1>2, <1>5, <1>6, PartIs DEF LastOf
    <2>3. a \in 1 .. Len(f)
      BY <1>3, <1>6
    <2> HIDE DEF k, a, s
    <2>4. /\ s \o t \in Seq(Lines) /\ Len(s \o t) = Len(s) + Len(t)
          /\ \A i \in 1 .. Len(s) + Len(t) : (s \o t)[i] = IF i <= Len(s) THEN s[i] ELSE t[i - Len(s)]
      BY <2>1, ConcatProperties
    <2>5. Len(Part(g, k)) = Len(s \o t)
      BY <1>2, <2>1, <2>2, <2>3, <2>4
    <2>6. ASSUME NEW i \in 1 .. Len(Part(g, k)) PROVE Part(g, k)[i] = (s \o t)[i]
      <3>1. /\ Len(s) \in Nat /\ i \in Nat /\ i >= 1 /\ i <= Len(s) + Len(t)
            /\ Len(s) = Len(f) - a + 1 /\ a \in Nat
        BY <1>2, <2>1, <2>3, <2>4, <2>5
      <3>2. Part(g, k)[i] = g[a + i - 1]
        BY <2>2
      <3>3. CASE i <= Len(s)
        <4>1. i \in 1 .. Len(s) /\ a + i - 1 \in 1 .. Len(f)
          BY <1>2, <2>3, <3>1, <3>3
        <4>2. (s \o t)[i] = s[i]
          BY <2>4, <3>1, <3>3
        <4>3. QED
          BY <1>4, <2>1, <3>2, <4>1, <4>2
      <3>4. CASE ~(i <= Len(s))
        <4>1. /\ a + i - 1 \in 1 .. Len(f) + Len(t) /\ ~(a + i - 1 <= Len(f))
              /\ (a + i - 1) - Len(f) = i - Len(s)
          BY <1>2, <2>3, <3>1, <3>4
        <4>2. (s \o t)[i] = t[i - Len(s)]
          BY <2>4, <3>1, <3>4
        <4>3. g[a + i - 1] = t[(a + i - 1) - Len(f)]
          BY <1>2, <4>1
        <4>4. QED
          BY <3>2, <4>1, <4>2, <4>3
      <3>5. QED
        BY <3>3, <3>4
    <2>7. Part(g, k) = s \o t
      BY <2>2, <2>4, <2>5, <2>6, SeqEqual
    <2>8. QED
      BY <2>7 DEF k, s
  <1>9. QED
    BY <1>5, <1>2, <1>7, <1>8 DEF g, HasKernels

(* A new file.                                                             *)
LEMMA NoKernels == HasKernels(<<>>, 0)
  <1> DEFINE f == <<>>
             p == [j \in 0 .. 0 - 1 |-> 0]
  <1>1. f \in Seq(Lines) /\ Len(f) = 0 /\ DOMAIN f = {} /\ 0 .. 0 - 1 = {}
    OBVIOUS
  <1>2. p \in [0 .. 0 - 1 -> 1 .. Len(f)]
    BY <1>1
  <1> HIDE DEF f, p
  <1>3. StartsAt(f, 0, p)
    BY <1>1, <1>2 DEF StartsAt, KernelLines
  <1>4. QED
    BY <1>1, <1>3 DEF HasKernels, f

-----------------------------------------------------------------------------
(* The tracer.  Whatever it writes, each file has the starts of all the    *)
(* kernels launched, and what is written between them goes to the last.    *)

TraceTypes ==
  /\ grid \in [x : Nat, y : Nat, z : Nat] /\ launched \in 0 .. NumKernels
  /\ launched = 0 => NoBlocks = 0 /\ temp = <<>>
  /\ launched > 0 => grid \in Grids
  /\ block \in Nat /\ block <= NoBlocks /\ length \in 0 .. MaxLength
  /\ last_block_id \in Nat \cup {-1} /\ next_file \in Cores
  /\ temp \in Seq(Lines) /\ \A l \in 1 .. Len(temp) : temp[l].kind = "ins"
  /\ files \in [Cores -> Seq(Lines)]
  /\ \A c \in Cores : HasKernels(files[c], launched)

(* Products.                                                               *)
LEMMA Products ==
  /\ \A a, b \in Nat : a * b \in Nat
  /\ \A a, b \in Nat \ {0} : a * b \in Nat \ {0}
  OBVIOUS

(* A grid has blocks.                                                      *)
LEMMA GridBlocks ==
  ASSUME NEW g \in Grids
  PROVE  /\ g \in [x : Nat, y : Nat, z : Nat]
         /\ g.x * g.y \in Nat \ {0} /\ g.x * g.y * g.z \in Nat \ {0}
  <1>1. g.x \in Nat \ {0} /\ g.y \in Nat \ {0} /\ g.z \in Nat \ {0}
        /\ g \in [x : Nat, y : Nat, z : Nat]
    BY TraceAssumption
  <1>2. g.x * g.y \in Nat \ {0}
    BY <1>1, Products
  <1>3. g.x * g.y * g.z \in Nat \ {0}
    BY <1>1, <1>2, Products
  <1>4. QED
    BY <1>1, <1>2, <1>3

(* The number of blocks of the kernel that runs.                           *)
LEMMA NoBlocksType ==
  ASSUME TraceTypes
  PROVE  NoBlocks \in Nat /\ (launched > 0 => NoBlocks \in Nat \ {0} /\ grid.x * grid.y \in Nat \ {0})
  <1>1. grid.x \in Nat /\ grid.y \in Nat /\ grid.z \in Nat
    BY DEF TraceTypes
  <1>2. grid.x * grid.y \in Nat
    BY <1>1, Products
  <1>3. NoBlocks \in Nat
    BY <1>1, <1>2, Products DEF NoBlocks
  <1>4. QED
    BY <1>3, GridBlocks DEF TraceTypes, NoBlocks

(* The lines the tracer writes.                                            *)
LEMMA LineTypes ==
  /\ \A n \in Nat \ {0} : KernelStart(n) \in Lines /\ KernelStart(n).kind = "kernel"
                          /\ KernelStart(n).block = n
  /\ \A b \in Int, n \in 0 .. 50 : Ins(b, n) \in Lines /\ Ins(b, n).kind = "ins"
                                   /\ Ins(b, n).block = b
  /\ BlockEnd \in Lines /\ BlockEnd.kind = "end"
  BY DEF Lines, KernelStart, Ins, BlockEnd, NoBlock

(* A kernel is launched: each core has one stream more.                    *)
LEMMA LaunchStreams ==
  ASSUME TraceTypes, NEW g \in Grids, Initialize(g)
  PROVE  /\ files' \in [Cores -> Seq(Lines)]
         /\ \A c \in Cores :
              /\ HasKernels(files'[c], launched + 1)
              /\ \A k \in 0 .. launched :
                   Stream(c, k)' = IF k = launched THEN <<KernelStart(g.x * g.y * g.z)>>
                                   ELSE Stream(c, k)
  <1> DEFINE e == KernelStart(g.x * g.y * g.z)
  <1>1. e \in Lines /\ e.kind = "kernel"
    BY GridBlocks, LineTypes
  <1>2. files' = [c \in Cores |-> Append(files[c], e)] /\ launched \in Nat
    BY TraceAssumption DEF Initialize, TraceTypes
  <1>3. \A c \in Cores : files[c] \in Seq(Lines) /\ HasKernels(files[c], launched)
    BY DEF TraceTypes
  <1>4. \A c, k : Stream(c, k) = Part(files[c], k) /\ Stream(c, k)' = Part(files'[c], k)
    <2>1. \A c, k : Stream(c, k) = Part(files[c], k)
      BY StreamIsPart
    <2>2. \A c, k : Stream(c, k)' = Part(files'[c], k)
      BY DEF Stream, Part, Starts, KernelLines
    <2>3. QED
      BY <2>1, <2>2
  <1> HIDE DEF e
  <1>5. files' \in [Cores -> Seq(Lines)]
    <2>1. \A c \in Cores : Append(files[c], e) \in Seq(Lines)
      BY <1>1, <1>3
    <2>2. QED
      BY <1>2, <2>1
  <1>6. ASSUME NEW c \in Cores
        PROVE  /\ HasKernels(files'[c], launched + 1)
               /\ Part(files'[c], launched) = <<e>>
               /\ \A k \in 0 .. launched - 1 : Part(files'[c], k) = Part(files[c], k)
    <2> DEFINE f == files[c]
               n == launched
    <2>1. files'[c] = Append(f, e)
      BY <1>2
    <2>2. HasKernels(f, n) /\ n \in Nat
      BY <1>2, <1>3
    <2> HIDE DEF f, n
    <2>4. /\ HasKernels(Append(f, e), n + 1)
          /\ Part(Append(f, e), n) = <<e>>
          /\ \A k \in 0 .. n - 1 : Part(Append(f, e), k) = Part(f, k)
      BY <1>1, <2>2, PartKernel
    <2>5. HasKernels(files'[c], n + 1) /\ Part(files'[c], n) = <<e>>
      BY <2>1, <2>4
    <2>6. \A k \in 0 .. n - 1 : Part(files'[c], k) = Part(f, k)
      BY <2>1, <2>4
    <2>7. QED
      BY <2>5, <2>6 DEF f, n
  <1>7. \A k \in 0 .. launched : k = launched \/ k \in 0 .. launched - 1
    BY <1>2
  <1>8. QED
    BY <1>4, <1>5, <1>6, <1>7 DEF e

(* The block in temp.txt goes to one file: to its last stream.             *)
LEMMA FlushStreams ==
  ASSUME TraceTypes, temp # <<>>, files' = Flushed
  PROVE  /\ files' \in [Cores -> Seq(Lines)]
         /\ \A c \in Cores :
              /\ HasKernels(files'[c], launched)
              /\ \A k \in 0 .. launched - 1 :
                   Stream(c, k)' = IF c = next_file /\ k = launched - 1
                                   THEN Stream(c, k) \o Append(temp, BlockEnd) ELSE Stream(c, k)
  <1> DEFINE t == Append(temp, BlockEnd)
  <1>1. launched \in Nat \ {0} /\ next_file \in Cores
    BY TraceAssumption DEF TraceTypes
  <1>2. t \in Seq(Lines) /\ \A l \in 1 .. Len(t) : t[l].kind # "kernel"
    <2>1. temp \in Seq(Lines) /\ \A l \in 1 .. Len(temp) : temp[l].kind = "ins"
      BY DEF TraceTypes
    <2>2. /\ t \in Seq(Lines) /\ Len(t) = Len(temp) + 1 /\ t[Len(temp) + 1] = BlockEnd
          /\ \A l \in 1 .. Len(temp) : t[l] = temp[l]
      BY <2>1, LineTypes, AppendProperties
    <2> HIDE DEF t
    <2>3. \A l \in 1 .. Len(t) : l = Len(temp) + 1 \/ l \in 1 .. Len(temp)
      BY <2>1, <2>2
    <2>4. QED
      BY <2>1, <2>2, <2>3, LineTypes
  <1>3. files \in [Cores -> Seq(Lines)] /\ \A c \in Cores : HasKernels(files[c], launched)
    BY DEF TraceTypes
  <1>4. \A c \in Cores : files'[c] = IF c = next_file THEN files[c] \o t ELSE files[c]
    BY <1>3 DEF Flushed
  <1>5. \A c, k : Stream(c, k) = Part(files[c], k) /\ Stream(c, k)' = Part(files'[c], k)
    <2>1. \A c, k : Stream(c, k) = Part(files[c], k)
      BY StreamIsPart
    <2>2. \A c, k : Stream(c, k)' = Part(files'[c], k)
      BY DEF Stream, Part, Starts, KernelLines
    <2>3. QED
      BY <2>1, <2>2
  <1>6. files' = [files EXCEPT ![next_file] = files[next_file] \o t]
    BY DEF Flushed
  <1> HIDE DEF t
  <1>7. files' \in [Cores -> Seq(Lines)]
    <2>1. files[next_file] \o t \in Seq(Lines)
      BY <1>1, <1>2, <1>3
    <2>2. QED
      BY <1>1, <1>3, <1>6, <2>1
  <1>8. ASSUME NEW c \in Cores
        PROVE  /\ HasKernels(files'[c], launched)
               /\ \A k \in 0 .. launched - 1 :
                    Part(files'[c], k) = IF c = next_file /\ k = launched - 1
                                         THEN Part(files[c], k) \o t ELSE Part(files[c], k)
    <2>1. CASE c = next_file
      <3>1. /\ HasKernels(files[c] \o t, launched)
            /\ Part(files[c] \o t, launched - 1) = Part(files[c], launched - 1) \o t
            /\ \A k \in 0 .. launched - 2 : Part(files[c] \o t, k) = Part(files[c], k)
        BY <1>1, <1>2, <1>3, PartLines
      <3>2. \A k \in 0 .. launched - 1 : k = launched - 1 \/ k \in 0 .. launched - 2
        BY <1>1
      <3>3. QED
        BY <1>4, <2>1, <3>1, <3>2
    <2>2. CASE c # next_file
      BY <1>3, <1>4, <2>2
    <2>3. QED
      BY <2>1, <2>2
  <1>9. QED
    BY <1>5, <1>7, <1>8 DEF t

(* Nothing is written.                                                     *)
LEMMA SameStreams ==
  ASSUME files' = files PROVE \A c, k : Stream(c, k)' = Stream(c, k)
  BY DEF Stream, Starts

(* The next file.                                                          *)
LEMMA NextFileType == ASSUME TraceTypes PROVE NextFile \in Cores
  <1>1. next_file + 1 \in Int /\ MAX_THREADS \in Nat \ {0}
    BY TraceAssumption DEF TraceTypes, Cores
  <1>2. \A x \in Int, n \in Nat \ {0} : x % n \in 0 .. n - 1
    OBVIOUS
  <1>3. QED
    BY <1>1, <1>2 DEF NextFile, Cores

(* The tracer begins.                                                      *)
LEMMA TraceTypesInit == Init => TraceTypes
  <1> SUFFICES ASSUME Init PROVE TraceTypes
    OBVIOUS
  <1>1. TraceInit
    BY DEF Init
  <1>2. NoBlocks = 0
    BY <1>1 DEF TraceInit, NoBlocks
  <1>3. files = [c \in Cores |-> <<>>] /\ <<>> \in Seq(Lines)
    BY <1>1 DEF TraceInit
  <1>4. QED
    BY <1>1, <1>2, <1>3, NoKernels, TraceAssumption DEF TraceInit, TraceTypes, Cores

(* What an instruction adds to temp.txt.                                   *)
LEMMA TempAppend ==
  ASSUME NEW s \in Seq(Lines), NEW e \in Lines
  PROVE  /\ Append(s, e) \in Seq(Lines) /\ Len(Append(s, e)) = Len(s) + 1
         /\ \A l \in 1 .. Len(Append(s, e)) : Append(s, e)[l] = IF l = Len(s) + 1 THEN e ELSE s[l]
  BY AppendProperties

(* The tracer goes on.                                                     *)
LEMMA TraceTypesStep ==
  ASSUME TraceTypes, TraceNext PROVE TraceTypes'
  <1>1. ASSUME NEW g \in Grids, Initialize(g), temp = <<>> PROVE TraceTypes'
    <2>1. /\ grid' = g /\ launched' = launched + 1 /\ launched < NumKernels
          /\ block' = 0 /\ length' = 0 /\ last_block_id' = -1 /\ next_file' = 0 /\ temp' = temp
      BY <1>1 DEF Initialize
    <2>2. launched \in Nat /\ NumKernels \in Nat /\ MaxLength \in Nat /\ MAX_THREADS \in Nat \ {0}
      BY TraceAssumption DEF TraceTypes
    <2>3. launched' \in 0 .. NumKernels /\ launched' > 0 /\ launched' # 0
      BY <2>1, <2>2
    <2>4. NoBlocks' \in Nat
      <3>1. NoBlocks' = g.x * g.y * g.z
        BY <2>1 DEF NoBlocks
      <3>2. QED
        BY <3>1, GridBlocks
    <2>5. grid' \in [x : Nat, y : Nat, z : Nat] /\ grid' \in Grids
      BY <2>1, GridBlocks
    <2>6. /\ files' \in [Cores -> Seq(Lines)]
          /\ \A c \in Cores : HasKernels(files'[c], launched + 1)
      BY <1>1, LaunchStreams
    <2>7. QED
      BY <1>1, <2>1, <2>2, <2>3, <2>4, <2>5, <2>6 DEF TraceTypes, Cores
  <1>2. ASSUME NEW n \in 0 .. 50, NEW exit \in BOOLEAN, Event(n, exit) PROVE TraceTypes'
    <2>1. /\ block < NoBlocks /\ UNCHANGED <<grid, launched>>
          /\ \/ files' = Flushed /\ next_file' = NextFile /\ last_block_id # -1
             \/ UNCHANGED <<files, next_file>>
          /\ temp' = <<Ins(block, n)>> \/ temp' = Append(temp, Ins(block, n))
          /\ last_block_id' = CurBlock(block)
          /\ \/ block' = block + 1 /\ length' = 0
             \/ length' = length + 1 /\ block' = block /\ length < MaxLength
      BY <1>2 DEF Event
    <2>2. launched > 0 /\ launched' > 0 /\ NoBlocks \in Nat /\ block \in Nat /\ NoBlocks' = NoBlocks
          /\ grid.x * grid.y \in Nat \ {0}
      <3>1. NoBlocks \in Nat /\ block \in Nat /\ launched \in Nat
        BY NoBlocksType, TraceAssumption DEF TraceTypes
      <3>2. launched # 0
        BY <2>1, <3>1 DEF TraceTypes
      <3>3. NoBlocks' = NoBlocks
        BY <2>1 DEF NoBlocks
      <3>4. QED
        BY <2>1, <3>1, <3>2, <3>3, NoBlocksType
    <2>3. block' \in Nat /\ block' <= NoBlocks /\ length' \in 0 .. MaxLength
      BY <2>1, <2>2, TraceAssumption, SMTT(30) DEF TraceTypes
    <2>4. last_block_id' \in Nat \cup {-1}
      <3>1. \A x \in Nat, m \in Nat \ {0} : x % m \in Nat
        OBVIOUS
      <3>2. QED
        BY <2>1, <2>2, <3>1 DEF CurBlock
    <2>5. temp' \in Seq(Lines) /\ \A l \in 1 .. Len(temp') : temp'[l].kind = "ins"
      <3>1. Ins(block, n) \in Lines /\ Ins(block, n).kind = "ins"
        <4>1. block \in Int
          BY <2>2
        <4>2. QED
          BY <4>1 DEF Ins, Lines
      <3> DEFINE e == Ins(block, n)
      <3> HIDE DEF e
      <3>2. temp' = <<e>> \/ temp' = Append(temp, e)
        BY <2>1 DEF e
      <3>3. e \in Lines /\ e.kind = "ins"
        BY <3>1 DEF e
      <3>4. temp \in Seq(Lines) /\ \A l \in 1 .. Len(temp) : temp[l].kind = "ins"
        BY DEF TraceTypes
      <3>5. CASE temp' = <<e>>
        BY <3>3, <3>5
      <3>6. CASE temp' = Append(temp, e)
        <4>1. /\ Append(temp, e) \in Seq(Lines) /\ Len(Append(temp, e)) = Len(temp) + 1
              /\ \A l \in 1 .. Len(Append(temp, e)) :
                   Append(temp, e)[l] = IF l = Len(temp) + 1 THEN e ELSE temp[l]
          BY <3>3, <3>4, TempAppend
        <4>2. \A l \in 1 .. Len(temp) + 1 : l = Len(temp) + 1 \/ l \in 1 .. Len(temp)
          BY <3>4
        <4>3. QED
          BY <3>3, <3>4, <3>6, <4>1, <4>2
      <3>7. QED
        BY <3>2, <3>5, <3>6
    <2>6. /\ next_file' \in Cores /\ files' \in [Cores -> Seq(Lines)]
          /\ \A c \in Cores : HasKernels(files'[c], launched)
      <3>1. CASE UNCHANGED <<files, next_file>>
        BY <3>1 DEF TraceTypes
      <3>2. CASE files' = Flushed /\ next_file' = NextFile /\ temp # <<>>
        BY <3>2, FlushStreams, NextFileType
      <3>3. CASE files' = Flushed /\ next_file' = NextFile /\ temp = <<>>
        <4>1. /\ files \in [Cores -> Seq(Lines)] /\ next_file \in Cores
              /\ launched \in Nat \ {0} /\ \A c \in Cores : HasKernels(files[c], launched)
          BY <2>2, TraceAssumption DEF TraceTypes
        <4> DEFINE t == Append(temp, BlockEnd)
        <4>2. t \in Seq(Lines) /\ \A l \in 1 .. Len(t) : t[l].kind # "kernel"
          <5>1. t = <<BlockEnd>>
            BY <3>3
          <5>2. \A x \in Lines : <<x>> \in Seq(Lines) /\ Len(<<x>>) = 1 /\ <<x>>[1] = x
            OBVIOUS
          <5> HIDE DEF t
          <5>3. /\ t \in Seq(Lines) /\ Len(t) = 1 /\ t[1].kind = "end"
            BY <5>1, <5>2, LineTypes
          <5>4. QED
            BY <5>3
        <4>3. files' = [files EXCEPT ![next_file] = files[next_file] \o t]
          BY <3>3 DEF Flushed
        <4> HIDE DEF t
        <4>4. files[next_file] \o t \in Seq(Lines) /\ HasKernels(files[next_file] \o t, launched)
          BY <4>1, <4>2, PartLines
        <4>5. QED
          BY <3>3, <4>1, <4>3, <4>4, NextFileType
      <3>4. QED
        BY <2>1, <3>1, <3>2, <3>3
    <2>7. /\ grid' \in [x : Nat, y : Nat, z : Nat] /\ grid' \in Grids
          /\ launched' \in 0 .. NumKernels /\ launched' = launched
      BY <2>1, <2>2 DEF TraceTypes
    <2>8. launched' > 0 /\ launched' # 0 /\ NoBlocks' = NoBlocks
      BY <2>2
    <2>9. QED
      BY <2>3, <2>4, <2>5, <2>6, <2>7, <2>8 DEF TraceTypes
  <1>3. CASE Finish
    <2>1. /\ temp # <<>> /\ files' = Flushed /\ next_file' = NextFile /\ temp' = <<>>
          /\ UNCHANGED <<grid, launched, block, length, last_block_id>>
      BY <1>3 DEF Finish
    <2>2. /\ files' \in [Cores -> Seq(Lines)] /\ \A c \in Cores : HasKernels(files'[c], launched)
      BY <2>1, FlushStreams
    <2>3. NoBlocks' = NoBlocks
      BY <2>1 DEF NoBlocks
    <2>4. temp' \in Seq(Lines) /\ \A l \in 1 .. Len(temp') : temp'[l].kind = "ins"
      BY <2>1
    <2>5. QED
      BY <2>1, <2>2, <2>3, <2>4, NextFileType DEF TraceTypes
  <1>4. MicroOpCounts \subseteq 0 .. 50 /\ 1 \in 0 .. 50
    BY FeedAssumption
  <1>5. QED
    BY <1>1, <1>2, <1>3, <1>4 DEF TraceNext

-----------------------------------------------------------------------------
(* run() at work on a kernel.                                              *)

Running == pc \in {"block", "fetch", "process", "pipelines"}
TheStream == Stream(coreid, kernelExecuted)

(* The packets in the queue, and the items of the stream before them.      *)
Waiting == Q!Contents(fromEmulator)
Taken == pos - Len(Waiting)

(* There is space in inputToPipeline, or it is not needed any more.        *)
Room == SpaceLeft > 0 \/ blockEndSeen

(* The ranges of run()'s variables.                                        *)
RunTypes ==
  /\ pc \in {"trace", "kernel", "block", "fetch", "process", "pipelines", "exited"}
  /\ coreid \in Cores /\ kernelExecuted \in 0 .. NumKernels
  /\ pc # "trace" => TraceDone
  /\ TOTALBLOCKS \in Nat /\ pos \in Nat /\ turns \in 0 .. ipcCount /\ currBlock \in Nat
  /\ pc \notin {"fetch", "exited"} => turns = 0
  /\ isFirstPacket \in BOOLEAN /\ blockEndSeen \in BOOLEAN
  /\ \A i \in 0 .. ipcCount - 1 : fromEmulator.buffer[i] \in Packets
  /\ packetList \in Seq(Packets) /\ Len(packetList) <= 2
  /\ outstanding \in Seq(Nat \X Nat) /\ Len(outstanding) <= 50
  /\ inputToPipeline \in Seq(Nat \X Nat) /\ Len(inputToPipeline) <= InputSize

(* The queue holds the items of the stream after those taken; an end of a  *)
(* block is the last of them, and the queue is emptied before more is read.*)
ReadInv ==
  /\ kernelExecuted < NumKernels
  /\ TOTALBLOCKS = Share(coreid, kernelExecuted) /\ currBlock < TOTALBLOCKS
  /\ pos <= Len(TheStream) /\ Len(Waiting) <= pos
  /\ \A j \in 1 .. Len(Waiting) :
       /\ Taken + j > 1
       /\ Waiting[j] = [kind |-> TheStream[Taken + j].kind, at |-> Taken + j]
       /\ Room /\ Waiting[j].kind = "end" => j = Len(Waiting) /\ turns = 0
  /\ Room /\ outstanding = <<>> /\ pc \in {"block", "pipelines"} => Len(Waiting) = 0

(* The packet kept is the last one taken; micro-operations for which there *)
(* was no space stay where they are.                                       *)
KeptInv ==
  /\ isFirstPacket <=> packetList = <<>>
  /\ ~blockEndSeen => Len(packetList) <= 1
  /\ ~blockEndSeen /\ ~isFirstPacket => Taken > 0 /\ packetList[1].at = Taken
  /\ blockEndSeen => /\ Len(Waiting) = 0 /\ pc \in {"process", "pipelines"}
                     /\ Taken > 0 /\ TheStream[Taken].kind = "end"
  /\ outstanding # <<>> => /\ pc \in {"pipelines", "block"} /\ ~blockEndSeen
                           /\ Len(outstanding) >= SpaceLeft

(* What is fed comes from the items taken, and not from the packet kept.   *)
OrderInv ==
  outstanding = <<>> =>
    \A i \in 1 .. Len(inputToPipeline) :
      /\ inputToPipeline[i][1] <= Taken
      /\ ~blockEndSeen /\ ~isFirstPacket => inputToPipeline[i][1] < Taken

FeedInv ==
  /\ TraceTypes /\ QueueInv /\ RunTypes /\ FedInOrder
  /\ pc \in {"trace", "kernel"} => ~blockEndSeen
  /\ Running => ReadInv /\ KeptInv /\ OrderInv

(* The queue is of its type.                                               *)
LEMMA RingType ==
  ASSUME NEW q, Ring(q), \A i \in 0 .. ipcCount - 1 : q.buffer[i] \in Packets
  PROVE  q \in Q!Buffers
  <1>1. /\ q \in [head : Int, tail : Int, buffer : {q.buffer}]
        /\ q.head \in 0 .. ipcCount - 1 \cup {-1} /\ q.tail \in 0 .. ipcCount - 1 \cup {-1}
    BY FeedAssumption DEF Ring
  <1>2. q.buffer \in [0 .. ipcCount - 1 -> Packets \cup {NoPacket}]
    BY DEF Ring
  <1>3. QED
    BY <1>1, <1>2 DEF Q!Buffers, Q!Indices

(* The queue's array keeps its type.                                       *)
LEMMA BufferTypes ==
  ASSUME NEW q, Ring(q), \A i \in 0 .. ipcCount - 1 : q.buffer[i] \in Packets, NEW e \in Packets
  PROVE  /\ \A i \in 0 .. ipcCount - 1 : Q!enqueue(q, e).buffer[i] \in Packets
         /\ \A i \in 0 .. ipcCount - 1 : Q!dequeue(q).buffer[i] \in Packets
         /\ \A i \in 0 .. ipcCount - 1 : NoPackets.buffer[i] \in Packets
  <1>1. ASSUME NEW i \in 0 .. ipcCount - 1 PROVE Q!enqueue(q, e).buffer[i] \in Packets
    <2> DEFINE last == Q!Wrap(q.tail + 1)
    <2>1. Q!enqueue(q, e).buffer = [q.buffer EXCEPT ![last] = e]
      BY DEF Q!enqueue
    <2> HIDE DEF last
    <2>2. i \in DOMAIN q.buffer
      BY DEF Ring
    <2>3. QED
      BY <2>1, <2>2
  <1>2. Q!dequeue(q).buffer = q.buffer
    <2>1. ASSUME NEW V, NEW h, NEW t, NEW x \in [head : Int, tail : Int, buffer : V]
          PROVE  /\ [x EXCEPT !.head = h, !.tail = t].buffer = x.buffer
                 /\ [x EXCEPT !.head = h].buffer = x.buffer
      OBVIOUS
    <2>2. q \in [head : Int, tail : Int, buffer : {q.buffer}]
      BY DEF Ring
    <2>3. \/ Q!dequeue(q) = [q EXCEPT !.head = -1, !.tail = -1]
          \/ Q!dequeue(q) = [q EXCEPT !.head = Q!Wrap(q.head + 1)]
      BY DEF Q!dequeue, Q!clear
    <2>4. QED
      BY <2>1, <2>2, <2>3
  <1>3. \A i \in 0 .. ipcCount - 1 : NoPackets.buffer[i] \in Packets
    BY DEF NoPackets, NoPacket, Packets
  <1>4. QED
    BY <1>1, <1>2, <1>3

(* The stream that is read, and the number of its blocks.                  *)
LEMMA StreamTypes ==
  ASSUME TraceTypes, TraceDone, NEW c \in Cores, NEW k \in 0 .. NumKernels - 1
  PROVE  /\ Stream(c, k) \in Seq(Lines) /\ Len(Stream(c, k)) \in Nat \ {0}
         /\ \A l \in 1 .. Len(Stream(c, k)) : Stream(c, k)[l] \in Lines
         /\ \A l \in 1 .. Len(Stream(c, k)) : Stream(c, k)[l].kind = "kernel" <=> l = 1
         /\ totalBlocks(k) \in Nat \ {0} /\ Share(c, k) \in Nat
  <1>1. ASSUME NEW d \in Cores
        PROVE  /\ Stream(d, k) \in Seq(Lines) /\ Len(Stream(d, k)) \in Nat \ {0}
               /\ Stream(d, k)[1].kind = "kernel"
               /\ \A i \in 2 .. Len(Stream(d, k)) : Stream(d, k)[i].kind # "kernel"
    <2> DEFINE f == files[d]
               n == launched
    <2>1. HasKernels(f, n) /\ n \in Nat /\ k \in 0 .. n - 1 /\ Stream(d, k) = Part(f, k)
      BY StreamIsPart, TraceAssumption DEF TraceTypes, TraceDone
    <2> HIDE DEF f, n
    <2>2. QED
      BY <2>1, PartShape
  <1>2. 0 \in Cores /\ MAX_THREADS \in Nat \ {0}
    BY TraceAssumption DEF Cores
  <1>3. totalBlocks(k) \in Nat \ {0}
    <2> DEFINE s == Stream(0, k)
    <2>1. s \in Seq(Lines) /\ Len(s) \in Nat \ {0} /\ s[1].kind = "kernel"
      BY <1>1, <1>2
    <2> HIDE DEF s
    <2>2. s[1] \in Lines
      BY <2>1
    <2>3. s[1].block \in Nat \ {0}
      BY <2>1, <2>2 DEF Lines
    <2>4. QED
      BY <2>3 DEF s, totalBlocks
  <1>4. Share(c, k) \in Nat
    <2>1. \A x \in Nat, m \in Nat \ {0} : x \div m \in Nat
      OBVIOUS
    <2> DEFINE x == totalBlocks(k) \div MAX_THREADS
    <2>2. x \in Nat
      BY <1>2, <1>3, <2>1
    <2> HIDE DEF x
    <2>3. Share(c, k) = x \/ Share(c, k) = x + 1
      BY <2>2 DEF Share, x
    <2>4. QED
      BY <2>2, <2>3
  <1> DEFINE s == Stream(c, k)
  <1>5. /\ s \in Seq(Lines) /\ Len(s) \in Nat \ {0} /\ s[1].kind = "kernel"
        /\ \A i \in 2 .. Len(s) : s[i].kind # "kernel"
    BY <1>1
  <1> HIDE DEF s
  <1>6. /\ \A l \in 1 .. Len(s) : s[l] \in Lines
        /\ \A l \in 1 .. Len(s) : l = 1 \/ (l \in 2 .. Len(s) /\ l # 1)
    BY <1>5
  <1>7. \A l \in 1 .. Len(s) : s[l].kind = "kernel" <=> l = 1
    BY <1>5, <1>6
  <1>8. QED
    BY <1>3, <1>4, <1>5, <1>6, <1>7 DEF s

(* What holds while run() is at work.                                      *)
LEMMA RunFacts ==
  ASSUME FeedInv, Running
  PROVE  /\ TheStream \in Seq(Lines) /\ Len(TheStream) \in Nat \ {0}
         /\ \A l \in 1 .. Len(TheStream) : TheStream[l] \in Lines
         /\ \A l \in 1 .. Len(TheStream) : TheStream[l].kind = "kernel" <=> l = 1
         /\ Waiting \in Seq(Packets) /\ Len(Waiting) \in Nat /\ Len(Waiting) <= ipcCount
         /\ Len(Waiting) = Q!size(fromEmulator)
         /\ Q!IsEmpty(fromEmulator) <=> Len(Waiting) = 0
         /\ Taken \in Nat /\ pos \in Nat /\ pos = Taken + Len(Waiting) /\ Taken <= Len(TheStream)
         /\ SpaceLeft \in Nat /\ SpaceLeft = InputSize - Len(inputToPipeline)
  <1>1. TraceTypes /\ TraceDone /\ coreid \in Cores /\ kernelExecuted \in 0 .. NumKernels - 1
    <2>1. kernelExecuted \in Nat /\ kernelExecuted < NumKernels /\ NumKernels \in Nat
      BY TraceAssumption DEF FeedInv, RunTypes, ReadInv
    <2>2. TraceTypes /\ TraceDone /\ coreid \in Cores
      BY DEF FeedInv, RunTypes, Running
    <2>3. QED
      BY <2>1, <2>2
  <1>2. /\ TheStream \in Seq(Lines) /\ Len(TheStream) \in Nat \ {0}
        /\ \A l \in 1 .. Len(TheStream) : TheStream[l] \in Lines
        /\ \A l \in 1 .. Len(TheStream) : TheStream[l].kind = "kernel" <=> l = 1
    BY <1>1, StreamTypes DEF TheStream
  <1>3. Ring(fromEmulator) /\ \A i \in 0 .. ipcCount - 1 : fromEmulator.buffer[i] \in Packets
    BY DEF FeedInv, QueueInv, RunTypes
  <1>4. /\ Waiting \in Seq(Packets) /\ Len(Waiting) = Q!size(fromEmulator)
        /\ Q!size(fromEmulator) \in 0 .. ipcCount /\ (Q!size(fromEmulator) = 0 <=> fromEmulator.head = -1)
    BY <1>3, RingContents, RingSize DEF Waiting
  <1>5. Q!IsEmpty(fromEmulator) <=> Len(Waiting) = 0
    BY <1>4 DEF Q!IsEmpty
  <1>6. pos \in Nat /\ pos <= Len(TheStream) /\ Len(Waiting) <= pos
    BY DEF FeedInv, RunTypes, ReadInv
  <1>7. inputToPipeline \in Seq(Nat \X Nat) /\ Len(inputToPipeline) <= InputSize /\ InputSize \in Nat
    BY FeedAssumption DEF FeedInv, RunTypes
  <1>8. SpaceLeft \in Nat
    BY <1>7 DEF SpaceLeft
  <1>9. QED
    BY <1>2, <1>4, <1>5, <1>6, <1>8, FeedAssumption DEF Taken, SpaceLeft

(* The stream stays while its kernel runs.                                 *)
LEMMA StreamStays ==
  ASSUME UNCHANGED <<tracevars, coreid, kernelExecuted>>
  PROVE  TheStream' = TheStream
  BY SameStreams DEF TheStream, tracevars, Stream, Starts

(* The tracer has finished.                                                *)
LEMMA TraceStays ==
  ASSUME UNCHANGED tracevars
  PROVE  (TraceTypes => TraceTypes') /\ (TraceDone => TraceDone')
         /\ \A c, k : Share(c, k)' = Share(c, k)
  <1>1. \A c, k : Stream(c, k)' = Stream(c, k)
    BY SameStreams DEF tracevars
  <1>2. \A c, k : Share(c, k)' = Share(c, k)
    BY <1>1 DEF Share, totalBlocks
  <1>3. NoBlocks' = NoBlocks
    BY DEF tracevars, NoBlocks
  <1>4. (TraceTypes => TraceTypes') /\ (TraceDone => TraceDone')
    BY <1>3 DEF tracevars, TraceTypes, TraceDone
  <1>5. QED
    BY <1>2, <1>4

(* run() begins with nothing read.                                         *)
LEMMA FeedInvInit == Init => FeedInv
  <1> SUFFICES ASSUME Init PROVE FeedInv
    OBVIOUS
  <1>1. TraceTypes /\ QueueInv
    BY TraceTypesInit, QueueInit
  <1>2. /\ pc = "trace" /\ coreid = 0 /\ kernelExecuted = 0 /\ TOTALBLOCKS = 0 /\ pos = 0 /\ turns = 0
        /\ fromEmulator = NoPackets /\ currBlock = 0 /\ isFirstPacket = TRUE /\ packetList = <<>>
        /\ outstanding = <<>> /\ blockEndSeen = FALSE /\ inputToPipeline = <<>>
    BY DEF Init
  <1>3. \A i \in 0 .. ipcCount - 1 : fromEmulator.buffer[i] \in Packets
    BY <1>2 DEF NoPackets, NoPacket, Packets
  <1>4. RunTypes
    <2>1. 0 \in Cores /\ 0 \in 0 .. NumKernels /\ 0 \in 0 .. ipcCount /\ 0 <= InputSize
      BY TraceAssumption, FeedAssumption DEF Cores
    <2>2. \A S : <<>> \in Seq(S) /\ Len(<<>>) = 0
      OBVIOUS
    <2>3. /\ packetList \in Seq(Packets) /\ Len(packetList) <= 2
          /\ outstanding \in Seq(Nat \X Nat) /\ Len(outstanding) <= 50
          /\ inputToPipeline \in Seq(Nat \X Nat) /\ Len(inputToPipeline) <= InputSize
      BY <1>2, <2>1, <2>2
    <2>4. QED
      BY <1>2, <1>3, <2>1, <2>3 DEF RunTypes
  <1>5. FedInOrder
    BY <1>2 DEF FedInOrder
  <1>6. QED
    BY <1>1, <1>2, <1>4, <1>5 DEF FeedInv, Running

(* The tracer, and the start of a core.                                    *)
LEMMA FeedInvTrace ==
  ASSUME FeedInv, Trace \/ (\E c \in Cores : Simulate(c)) \/ UNCHANGED vars
  PROVE  FeedInv'
  <1>1. QueueInv'
    BY QueueStep DEF FeedInv, Next
  <1>2. UNCHANGED <<kernelExecuted, TOTALBLOCKS, pos, turns, fromEmulator, currBlock, isFirstPacket,
                    packetList, outstanding, blockEndSeen, inputToPipeline>>
    BY DEF Trace, Simulate, vars, feed, reader, blockState
  <1>3. FedInOrder'
    BY <1>2 DEF FeedInv, FedInOrder
  <1>4. CASE Trace
    <2>1. TraceTypes' /\ pc = "trace" /\ pc' = "trace" /\ coreid' = coreid
      BY <1>4, TraceTypesStep DEF Trace, FeedInv, feed
    <2>2. RunTypes'
      BY <1>2, <2>1 DEF FeedInv, RunTypes
    <2>3. ~blockEndSeen'
      BY <1>2, <2>1 DEF FeedInv
    <2>4. QED
      BY <1>1, <1>3, <2>1, <2>2, <2>3 DEF FeedInv, Running
  <1>5. CASE \E c \in Cores : Simulate(c)
    <2>1. pc = "trace" /\ TraceDone /\ coreid' \in Cores /\ pc' = "kernel" /\ UNCHANGED tracevars
      BY <1>5 DEF Simulate
    <2>2. TraceTypes' /\ TraceDone'
      BY <2>1, TraceStays DEF FeedInv
    <2>3. RunTypes'
      BY <1>2, <2>1, <2>2 DEF FeedInv, RunTypes
    <2>4. ~blockEndSeen'
      BY <1>2, <2>1 DEF FeedInv
    <2>5. QED
      BY <1>1, <1>3, <2>1, <2>2, <2>3, <2>4 DEF FeedInv, Running
  <1>6. CASE UNCHANGED vars
    <2>1. UNCHANGED <<tracevars, pc, coreid>>
      BY <1>6 DEF vars, feed
    <2>2. (TraceDone => TraceDone') /\ TraceTypes' /\ TheStream' = TheStream
          /\ Share(coreid, kernelExecuted)' = Share(coreid, kernelExecuted)
      <3>1. Share(coreid, kernelExecuted)' = Share(coreid, kernelExecuted)
        BY <1>2, <2>1 DEF Share, totalBlocks, Stream, Starts, tracevars
      <3>2. QED
        BY <1>2, <2>1, <3>1, TraceStays, StreamStays DEF FeedInv
    <2>3. RunTypes'
      BY <1>2, <2>1, <2>2 DEF FeedInv, RunTypes
    <2>4. Waiting' = Waiting /\ Taken' = Taken /\ SpaceLeft' = SpaceLeft /\ Room' = Room /\ Running' = Running
      BY <1>2, <2>1 DEF Waiting, Taken, SpaceLeft, Room, Running
    <2>5. Running => ReadInv' /\ KeptInv' /\ OrderInv'
      BY <1>2, <2>1, <2>2, <2>4 DEF FeedInv, ReadInv, KeptInv, OrderInv
    <2>6. QED
      BY <1>1, <1>2, <1>3, <2>1, <2>2, <2>3, <2>4, <2>5 DEF FeedInv
  <1>7. QED
    BY <1>4, <1>5, <1>6

(* A kernel starts, or is skipped.                                         *)
LEMMA FeedInvStart ==
  ASSUME FeedInv, StartKernel
  PROVE  FeedInv'
  <1>1. QueueInv'
    BY QueueStep DEF FeedInv, Next
  <1>2. /\ pc = "kernel" /\ kernelExecuted < NumKernels
        /\ TOTALBLOCKS' = Share(coreid, kernelExecuted) /\ inputToPipeline' = <<>>
        /\ UNCHANGED <<tracevars, coreid, blockEndSeen>>
    BY DEF StartKernel
  <1>3. TraceTypes' /\ TraceDone' /\ TraceDone /\ TraceTypes
    BY <1>2, TraceStays DEF FeedInv, RunTypes
  <1>4. kernelExecuted \in 0 .. NumKernels - 1 /\ NumKernels \in Nat /\ coreid \in Cores
    BY <1>2, TraceAssumption DEF FeedInv, RunTypes
  <1>5. TOTALBLOCKS' \in Nat /\ Len(TheStream) \in Nat \ {0}
    BY <1>2, <1>3, <1>4, StreamTypes DEF TheStream
  <1>6. /\ inputToPipeline' \in Seq(Nat \X Nat) /\ Len(inputToPipeline') = 0 /\ FedInOrder'
    BY <1>2 DEF FedInOrder
  <1>7. ~blockEndSeen /\ ~blockEndSeen'
    BY <1>2 DEF FeedInv
  <1>8. CASE TOTALBLOCKS' = 0
    <2>1. kernelExecuted' = kernelExecuted + 1 /\ UNCHANGED <<pc, reader, blockState>>
      BY <1>8 DEF StartKernel
    <2>2. kernelExecuted' \in 0 .. NumKernels
      BY <1>4, <2>1
    <2>3. RunTypes'
      BY <1>2, <1>3, <1>5, <1>6, <2>1, <2>2, FeedAssumption, SMTT(30) DEF FeedInv, RunTypes, reader, blockState
    <2>4. QED
      BY <1>1, <1>2, <1>3, <1>6, <1>7, <2>1, <2>3 DEF FeedInv, Running
  <1>9. CASE TOTALBLOCKS' # 0
    <2>1. /\ pc' = "block" /\ pos' = 0 /\ fromEmulator' = NoPackets
          /\ currBlock' = 0 /\ isFirstPacket' = TRUE /\ packetList' = <<>> /\ outstanding' = <<>>
          /\ UNCHANGED <<kernelExecuted, turns>>
      BY <1>9 DEF StartKernel
    <2>2. \A i \in 0 .. ipcCount - 1 : fromEmulator'.buffer[i] \in Packets
      BY <2>1 DEF NoPackets, NoPacket, Packets
    <2>3. RunTypes'
      <3>1. packetList' \in Seq(Packets) /\ Len(packetList') <= 2
        BY <2>1
      <3>2. outstanding' \in Seq(Nat \X Nat) /\ Len(outstanding') <= 50
        BY <2>1
      <3>3. QED
        BY <1>2, <1>3, <1>5, <1>6, <2>1, <2>2, <3>1, <3>2, FeedAssumption DEF FeedInv, RunTypes
    <2>4. Len(Waiting)' = 0 /\ Taken' = 0 /\ TheStream' = TheStream
      <3>1. Waiting' = <<>> /\ Len(<<>>) = 0
        BY <2>1, NewRing DEF Waiting
      <3>2. UNCHANGED <<tracevars, coreid, kernelExecuted>>
        BY <1>2, <2>1
      <3>3. TheStream' = TheStream
        BY <3>2, StreamStays
      <3>4. Len(Waiting)' = 0 /\ pos' = 0
        BY <2>1, <3>1
      <3>5. Taken' = 0
        BY <3>4 DEF Taken
      <3>6. QED
        BY <3>3, <3>4, <3>5
    <2>5. Share(coreid, kernelExecuted)' = Share(coreid, kernelExecuted)
      <3>1. UNCHANGED <<tracevars, coreid, kernelExecuted>>
        BY <1>2, <2>1
      <3>2. QED
        BY <3>1 DEF Share, totalBlocks, Stream, Starts, tracevars
    <2>6. ReadInv'
      BY <1>2, <1>5, <1>9, <2>1, <2>4, <2>5 DEF ReadInv
    <2>7. KeptInv' /\ OrderInv'
      BY <1>6, <1>7, <2>1, <2>4 DEF KeptInv, OrderInv
    <2>8. QED
      BY <1>1, <1>2, <1>3, <1>6, <1>7, <2>1, <2>3, <2>6, <2>7 DEF FeedInv
  <1>10. QED
    BY <1>8, <1>9

(* What fetchManyPackets() and the ends of the loops leave as it is.       *)
LEMMA LoopSteps ==
  ASSUME FeedInv, UNCHANGED <<tracevars, feed, pos, fromEmulator, currBlock, packetList,
                              isFirstPacket, blockEndSeen, inputToPipeline>>
  PROVE  /\ TraceTypes' /\ (TraceDone => TraceDone') /\ FedInOrder'
         /\ Waiting' = Waiting /\ Taken' = Taken /\ TheStream' = TheStream
         /\ SpaceLeft' = SpaceLeft /\ Room' = Room
         /\ Share(coreid, kernelExecuted)' = Share(coreid, kernelExecuted)
  <1>1. UNCHANGED <<coreid, kernelExecuted, TOTALBLOCKS>>
    BY DEF feed
  <1>2. TraceTypes' /\ (TraceDone => TraceDone') /\ TheStream' = TheStream
    BY <1>1, TraceStays, StreamStays DEF FeedInv
  <1>3. Share(coreid, kernelExecuted)' = Share(coreid, kernelExecuted)
    BY <1>1 DEF Share, totalBlocks, Stream, Starts, tracevars
  <1>4. /\ FedInOrder' /\ Waiting' = Waiting /\ Taken' = Taken
        /\ SpaceLeft' = SpaceLeft /\ Room' = Room
    BY DEF FeedInv, FedInOrder, Waiting, Taken, SpaceLeft, Room
  <1>5. QED
    BY <1>2, <1>3, <1>4

(* The head of the loop: the micro-operations put aside do not fit in      *)
(* later either, so none is put in here.                                   *)
LEMMA FeedInvBegin ==
  ASSUME FeedInv, BeginFetch
  PROVE  FeedInv'
  <1>1. QueueInv'
    BY QueueStep DEF FeedInv, Next
  <1>2. /\ pc = "block" /\ (outstanding # <<>> => Len(outstanding) < SpaceLeft)
        /\ inputToPipeline' = inputToPipeline \o outstanding /\ outstanding' = <<>>
        /\ turns' = Q!spaceLeft(fromEmulator) /\ pc' = "fetch"
        /\ UNCHANGED <<tracevars, feed, pos, fromEmulator, currBlock, isFirstPacket, packetList,
                       blockEndSeen>>
    BY DEF BeginFetch
  <1>3. Running /\ ReadInv /\ KeptInv /\ OrderInv /\ RunTypes
    BY <1>2 DEF Running, FeedInv
  <1>4. SpaceLeft \in Nat /\ Len(outstanding) \in Nat
    BY <1>3, RunFacts DEF RunTypes
  <1>5. outstanding = <<>> /\ ~blockEndSeen
    BY <1>2, <1>3, <1>4 DEF KeptInv
  <1>6. inputToPipeline' = inputToPipeline
    BY <1>2, <1>3, <1>5 DEF RunTypes
  <1>7. /\ TraceTypes' /\ (TraceDone => TraceDone') /\ FedInOrder'
        /\ Waiting' = Waiting /\ Taken' = Taken /\ TheStream' = TheStream
        /\ SpaceLeft' = SpaceLeft /\ Room' = Room
        /\ Share(coreid, kernelExecuted)' = Share(coreid, kernelExecuted)
    BY <1>2, <1>6, LoopSteps
  <1>8. turns' \in 0 .. ipcCount
    BY <1>2, RingSize, FeedAssumption DEF FeedInv, QueueInv
  <1>9. RunTypes'
    BY <1>2, <1>3, <1>5, <1>6, <1>7, <1>8 DEF RunTypes, feed
  <1>10. ReadInv'
    <2>1. Room => Len(Waiting) = 0
      BY <1>2, <1>3, <1>5 DEF ReadInv
    <2>2. QED
      BY <1>2, <1>3, <1>7, <2>1 DEF ReadInv, feed
  <1>11. KeptInv' /\ OrderInv'
    BY <1>2, <1>3, <1>5, <1>6, <1>7 DEF KeptInv, OrderInv
  <1>12. QED
    BY <1>1, <1>2, <1>7, <1>9, <1>10, <1>11 DEF FeedInv

(* The ends of the loops.                                                  *)
LEMMA FeedInvEnds ==
  ASSUME FeedInv, EndFetch \/ EndProcess
  PROVE  FeedInv'
  <1>1. QueueInv'
    BY QueueStep DEF FeedInv, Next
  <1>2. /\ UNCHANGED <<tracevars, feed, reader, blockState, blockEndSeen, inputToPipeline>>
        /\ \/ pc = "fetch" /\ turns = 0 /\ Q!IsEmpty(fromEmulator) /\ pc' = "block"
           \/ pc = "fetch" /\ turns = 0 /\ pc' = "process"
           \/ pc = "process" /\ Q!IsEmpty(fromEmulator) /\ pc' = "pipelines"
    BY DEF EndFetch, EndProcess
  <1>3. /\ UNCHANGED <<coreid, kernelExecuted, TOTALBLOCKS, pos, turns, fromEmulator>>
        /\ UNCHANGED <<currBlock, isFirstPacket, packetList, outstanding>>
    BY <1>2 DEF feed, reader, blockState
  <1>4. Running /\ ReadInv /\ KeptInv /\ OrderInv /\ RunTypes
    BY <1>2 DEF Running, FeedInv
  <1>5. Q!IsEmpty(fromEmulator) <=> Len(Waiting) = 0
    BY <1>4, RunFacts
  <1>6. /\ TraceTypes' /\ (TraceDone => TraceDone') /\ FedInOrder'
        /\ Waiting' = Waiting /\ Taken' = Taken /\ TheStream' = TheStream
        /\ SpaceLeft' = SpaceLeft /\ Room' = Room
        /\ Share(coreid, kernelExecuted)' = Share(coreid, kernelExecuted)
    BY <1>2, <1>3, LoopSteps
  <1>7. RunTypes'
    BY <1>2, <1>3, <1>4, <1>6 DEF RunTypes
  <1>8. ReadInv'
    BY <1>2, <1>3, <1>4, <1>5, <1>6 DEF ReadInv
  <1>9. KeptInv' /\ OrderInv'
    BY <1>2, <1>3, <1>4, <1>6 DEF KeptInv, OrderInv
  <1>10. QED
    BY <1>1, <1>2, <1>6, <1>7, <1>8, <1>9 DEF FeedInv

(* The end of the loop: the next block starts with nothing put aside.      *)
LEMMA FeedInvEndBlock ==
  ASSUME FeedInv, EndBlock
  PROVE  FeedInv'
  <1>1. QueueInv'
    BY QueueStep DEF FeedInv, Next
  <1>2. /\ pc = "pipelines" /\ blockEndSeen' = FALSE
        /\ UNCHANGED <<tracevars, coreid, TOTALBLOCKS, pos, turns, fromEmulator, inputToPipeline>>
    BY DEF EndBlock, reader
  <1>3. Running /\ ReadInv /\ KeptInv /\ OrderInv /\ RunTypes
    BY <1>2 DEF Running, FeedInv
  <1>4. TraceTypes' /\ TraceDone' /\ FedInOrder'
    BY <1>2, TraceStays DEF FeedInv, RunTypes, FedInOrder
  <1>5. Waiting' = Waiting /\ Taken' = Taken /\ SpaceLeft' = SpaceLeft
    BY <1>2 DEF Waiting, Taken, SpaceLeft
  <1>6. kernelExecuted \in Nat /\ kernelExecuted < NumKernels /\ NumKernels \in Nat
    BY <1>3, TraceAssumption DEF RunTypes, ReadInv
  <1>7. ASSUME UNCHANGED kernelExecuted
        PROVE  /\ TheStream' = TheStream
               /\ Share(coreid, kernelExecuted)' = Share(coreid, kernelExecuted)
    <2>1. UNCHANGED <<tracevars, coreid, kernelExecuted>>
      BY <1>2, <1>7
    <2>2. Share(coreid, kernelExecuted)' = Share(coreid, kernelExecuted)
      BY <2>1 DEF Share, totalBlocks, Stream, Starts, tracevars
    <2>3. QED
      BY <2>1, <2>2, StreamStays
  <1>8. CASE ~blockEndSeen
    <2>1. pc' = "block" /\ UNCHANGED <<kernelExecuted, currBlock, isFirstPacket, packetList, outstanding>>
      BY <1>8 DEF EndBlock, blockState
    <2>2. blockEndSeen' = blockEndSeen
      BY <1>2, <1>3, <1>8 DEF RunTypes
    <2>3. RunTypes'
      BY <1>2, <1>3, <1>4, <2>1, <2>2 DEF RunTypes
    <2>4. Room' = Room
      BY <1>5, <2>2 DEF Room
    <2>5. ReadInv'
      BY <1>2, <1>3, <1>5, <1>7, <2>1, <2>4 DEF ReadInv
    <2>6. KeptInv' /\ OrderInv'
      BY <1>2, <1>3, <1>5, <1>7, <1>8, <2>1 DEF KeptInv, OrderInv
    <2>7. QED
      BY <1>1, <1>2, <1>4, <2>1, <2>3, <2>5, <2>6 DEF FeedInv
  <1>9. CASE blockEndSeen /\ currBlock + 1 = TOTALBLOCKS
    <2>1. /\ pc' = "kernel" /\ kernelExecuted' = kernelExecuted + 1
          /\ UNCHANGED <<currBlock, isFirstPacket, packetList, outstanding>>
      BY <1>9 DEF EndBlock, blockState
    <2>2. kernelExecuted' \in 0 .. NumKernels
      BY <1>6, <2>1
    <2>3. RunTypes'
      BY <1>2, <1>3, <1>4, <2>1, <2>2 DEF RunTypes
    <2>4. QED
      BY <1>1, <1>2, <1>4, <2>1, <2>3 DEF FeedInv, Running
  <1>10. CASE blockEndSeen /\ currBlock + 1 # TOTALBLOCKS
    <2>1. /\ pc' = "block" /\ currBlock' = currBlock + 1
          /\ isFirstPacket' = TRUE /\ packetList' = <<>> /\ outstanding' = <<>>
          /\ UNCHANGED kernelExecuted
      BY <1>10 DEF EndBlock
    <2>2. currBlock' \in Nat /\ currBlock' < TOTALBLOCKS'
      BY <1>2, <1>3, <1>10, <2>1 DEF RunTypes, ReadInv
    <2>3. RunTypes'
      <3>1. packetList' \in Seq(Packets) /\ Len(packetList') <= 2
        BY <2>1
      <3>2. outstanding' \in Seq(Nat \X Nat) /\ Len(outstanding') <= 50
        BY <2>1
      <3>3. QED
        BY <1>2, <1>3, <1>4, <2>1, <2>2, <3>1, <3>2 DEF RunTypes
    <2>4. Len(Waiting) = 0 /\ outstanding = <<>>
      BY <1>3, <1>10 DEF KeptInv
    <2>5. ReadInv'
      BY <1>2, <1>3, <1>5, <1>7, <2>1, <2>2, <2>4 DEF ReadInv
    <2>6. KeptInv' /\ OrderInv'
      BY <1>2, <1>3, <1>5, <2>1, <2>4 DEF KeptInv, OrderInv
    <2>7. QED
      BY <1>1, <1>2, <1>4, <2>1, <2>3, <2>5, <2>6 DEF FeedInv
  <1>11. QED
    BY <1>8, <1>9, <1>10

(* What a turn of fetchManyPackets() does.                                 *)
LEMMA FetchFacts ==
  ASSUME FeedInv, FetchPacket
  PROVE  /\ pc = "fetch" /\ Running /\ turns \in Nat \ {0} /\ outstanding = <<>> /\ ~blockEndSeen
         /\ UNCHANGED <<tracevars, coreid, kernelExecuted, TOTALBLOCKS>>
         /\ UNCHANGED <<currBlock, isFirstPacket, packetList, outstanding>>
         /\ UNCHANGED <<blockEndSeen, inputToPipeline>>
         /\ TheStream' = TheStream /\ Share(coreid, kernelExecuted)' = Share(coreid, kernelExecuted)
         /\ SpaceLeft' = SpaceLeft /\ Room' = Room
         /\ TraceTypes' /\ TraceDone' /\ FedInOrder' /\ QueueInv'
         /\ \/ pos = Len(TheStream) /\ pc' = "exited" /\ UNCHANGED reader
            \/ /\ pos + 1 \in 1 .. Len(TheStream) /\ pos' = pos + 1 /\ pc' = pc
               /\ turns' = TurnsLeft(TheStream[pos + 1])
               /\ turns' \in 0 .. ipcCount
               /\ fromEmulator' = IF TheStream[pos + 1].kind = "kernel" THEN fromEmulator
                                  ELSE Q!enqueue(fromEmulator, [kind |-> TheStream[pos + 1].kind,
                                                                at |-> pos + 1])
  <1>1. /\ pc = "fetch" /\ turns > 0 /\ UNCHANGED <<tracevars, feed, blockState, blockEndSeen, inputToPipeline>>
        /\ \/ pos = Len(TheStream) /\ pc' = "exited" /\ UNCHANGED reader
           \/ /\ pos # Len(TheStream) /\ pos' = pos + 1 /\ pc' = pc
              /\ turns' = TurnsLeft(TheStream[pos + 1])
              /\ fromEmulator' = IF TheStream[pos + 1].kind = "kernel" THEN fromEmulator
                                 ELSE Q!enqueue(fromEmulator, [kind |-> TheStream[pos + 1].kind,
                                                               at |-> pos + 1])
    BY DEF FetchPacket, TheStream
  <1>2. Running /\ ReadInv /\ KeptInv /\ RunTypes
    BY <1>1 DEF Running, FeedInv
  <1>3. outstanding = <<>> /\ ~blockEndSeen
    BY <1>1, <1>2 DEF KeptInv
  <1>4. UNCHANGED <<tracevars, coreid, kernelExecuted, TOTALBLOCKS, currBlock, isFirstPacket, packetList,
                    outstanding, blockEndSeen, inputToPipeline>>
    BY <1>1 DEF feed, blockState
  <1>5. UNCHANGED <<tracevars, coreid, kernelExecuted>>
    BY <1>4
  <1>6. TheStream' = TheStream /\ Share(coreid, kernelExecuted)' = Share(coreid, kernelExecuted)
    <2>1. Share(coreid, kernelExecuted)' = Share(coreid, kernelExecuted)
      BY <1>5 DEF Share, totalBlocks, Stream, Starts, tracevars
    <2>2. QED
      BY <1>5, <2>1, StreamStays
  <1>7. SpaceLeft' = SpaceLeft /\ Room' = Room /\ FedInOrder'
    BY <1>4 DEF SpaceLeft, Room, FedInOrder, FeedInv
  <1>8. TraceTypes' /\ TraceDone'
    BY <1>1, <1>2, TraceStays DEF FeedInv, RunTypes
  <1>9. QueueInv'
    BY QueueStep DEF FeedInv, Next
  <1>10. pos \in Nat /\ pos <= Len(TheStream) /\ Len(TheStream) \in Nat
    BY <1>2, RunFacts DEF ReadInv
  <1>11. turns \in Nat \ {0} /\ turns <= ipcCount /\ ipcCount \in Nat
    BY <1>1, <1>2, FeedAssumption DEF RunTypes
  <1>12. TurnsLeft(TheStream[pos + 1]) \in 0 .. ipcCount
    BY <1>11 DEF TurnsLeft
  <1>13. \/ pos = Len(TheStream) /\ pc' = "exited" /\ UNCHANGED reader
         \/ /\ pos + 1 \in 1 .. Len(TheStream) /\ pos' = pos + 1 /\ pc' = pc
            /\ turns' = TurnsLeft(TheStream[pos + 1])
            /\ turns' \in 0 .. ipcCount
            /\ fromEmulator' = IF TheStream[pos + 1].kind = "kernel" THEN fromEmulator
                               ELSE Q!enqueue(fromEmulator, [kind |-> TheStream[pos + 1].kind,
                                                             at |-> pos + 1])
    BY <1>1, <1>10, <1>12
  <1>14. QED
    BY <1>1, <1>2, <1>3, <1>4, <1>6, <1>7, <1>8, <1>9, <1>11, <1>13

(* What a turn does to the queue: the start of the kernel is taken at      *)
(* once, another item waits in the queue.                                  *)
LEMMA FetchTakes ==
  ASSUME FeedInv, FetchPacket, pc' # "exited"
  PROVE  \/ /\ pos = 0 /\ Taken = 0 /\ Taken' = 1 /\ Len(Waiting) = 0 /\ Waiting' = Waiting
            /\ fromEmulator' = fromEmulator /\ TheStream[1].kind = "kernel"
         \/ /\ Taken' = Taken /\ Len(Waiting') = Len(Waiting) + 1
            /\ \A j \in 1 .. Len(Waiting) : Waiting'[j] = Waiting[j]
            /\ Waiting'[Len(Waiting) + 1] = [kind |-> TheStream[pos + 1].kind, at |-> pos + 1]
            /\ TheStream[pos + 1].kind \in {"ins", "end"} /\ pos + 1 > 1
            /\ \A i \in 0 .. ipcCount - 1 : fromEmulator'.buffer[i] \in Packets
  <1> DEFINE k == TheStream[pos + 1].kind
             packet == [kind |-> k, at |-> pos + 1]
  <1>1. /\ pc = "fetch" /\ Running /\ turns \in Nat \ {0}
        /\ pos + 1 \in 1 .. Len(TheStream) /\ pos' = pos + 1
        /\ fromEmulator' = IF k = "kernel" THEN fromEmulator ELSE Q!enqueue(fromEmulator, packet)
    BY FetchFacts
  <1>2. /\ Waiting \in Seq(Packets) /\ Len(Waiting) \in Nat /\ Len(Waiting) <= ipcCount
        /\ Len(Waiting) = Q!size(fromEmulator)
        /\ Taken \in Nat /\ pos \in Nat /\ pos = Taken + Len(Waiting)
        /\ k = "kernel" <=> pos + 1 = 1
        /\ TheStream[pos + 1] \in Lines
    BY <1>1, RunFacts
  <1>3. k \in {"kernel", "ins", "end"}
    BY <1>2 DEF Lines
  <1>4. Ring(fromEmulator) /\ turns <= ipcCount - Q!size(fromEmulator)
        /\ \A i \in 0 .. ipcCount - 1 : fromEmulator.buffer[i] \in Packets
    BY <1>1 DEF FeedInv, QueueInv, RunTypes
  <1>5. Taken' = pos' - Len(Waiting')
    BY DEF Taken
  <1> HIDE DEF k, packet
  <1>6. CASE k = "kernel"
    <2>1. fromEmulator' = fromEmulator /\ Waiting' = Waiting
      BY <1>1, <1>6 DEF Waiting
    <2>2. pos = 0 /\ Taken = 0 /\ Len(Waiting) = 0
      BY <1>2, <1>6, SMTT(30)
    <2>3. Taken' = 1
      BY <1>1, <1>5, <2>1, <2>2
    <2>4. TheStream[1].kind = "kernel"
      BY <1>6, <2>2 DEF k
    <2>5. QED
      BY <2>1, <2>2, <2>3, <2>4
  <1>7. CASE k # "kernel"
    <2>1. fromEmulator' = Q!enqueue(fromEmulator, packet) /\ packet \in Packets
      BY <1>1, <1>2, <1>3, <1>7 DEF packet, Packets
    <2>2. Q!size(fromEmulator) < ipcCount
      BY <1>1, <1>2, <1>4, FeedAssumption
    <2>3. Waiting' = Append(Waiting, packet)
      BY <1>4, <2>1, <2>2, EnqueueAppends DEF Waiting
    <2>4. \A i \in 0 .. ipcCount - 1 : fromEmulator'.buffer[i] \in Packets
      BY <1>4, <2>1, BufferTypes
    <2>5. /\ Len(Waiting') = Len(Waiting) + 1 /\ Waiting'[Len(Waiting) + 1] = packet
          /\ \A j \in 1 .. Len(Waiting) : Waiting'[j] = Waiting[j]
      BY <1>2, <2>1, <2>3, AppendProperties
    <2>6. Taken' = Taken
      BY <1>1, <1>2, <1>5, <2>5, SMTT(30)
    <2>7. k \in {"ins", "end"} /\ pos + 1 > 1
      BY <1>2, <1>3, <1>7
    <2>8. QED
      BY <2>4, <2>5, <2>6, <2>7 DEF packet, k
  <1>8. QED
    BY <1>6, <1>7

(* A turn of fetchManyPackets(): after the end of a block there is no      *)
(* other.                                                                  *)
LEMMA FeedInvFetch ==
  ASSUME FeedInv, FetchPacket
  PROVE  FeedInv'
  <1>1. /\ pc = "fetch" /\ Running /\ turns \in Nat \ {0} /\ outstanding = <<>> /\ ~blockEndSeen
        /\ UNCHANGED <<coreid, kernelExecuted, TOTALBLOCKS>>
        /\ UNCHANGED <<currBlock, isFirstPacket, packetList, outstanding>>
        /\ UNCHANGED <<blockEndSeen, inputToPipeline>>
        /\ TheStream' = TheStream /\ Share(coreid, kernelExecuted)' = Share(coreid, kernelExecuted)
        /\ SpaceLeft' = SpaceLeft /\ Room' = Room
        /\ TraceTypes' /\ TraceDone' /\ FedInOrder' /\ QueueInv'
    BY FetchFacts
  <1>2. ReadInv /\ KeptInv /\ OrderInv /\ RunTypes
    BY <1>1 DEF FeedInv
  <1>3. CASE pc' = "exited"
    <2>1. UNCHANGED <<pos, turns, fromEmulator>>
      BY <1>3, <1>1, FetchFacts DEF reader
    <2>2. RunTypes'
      BY <1>1, <1>2, <1>3, <2>1 DEF RunTypes
    <2>3. QED
      BY <1>1, <1>3, <2>2 DEF FeedInv, Running
  <1>4. CASE pc' # "exited"
    <2>1. /\ pos + 1 \in 1 .. Len(TheStream) /\ pos' = pos + 1 /\ pc' = pc
          /\ turns' = TurnsLeft(TheStream[pos + 1]) /\ turns' \in 0 .. ipcCount
      BY <1>4, FetchFacts
    <2>2. /\ Taken \in Nat /\ pos \in Nat /\ Len(Waiting) \in Nat /\ pos = Taken + Len(Waiting)
          /\ Len(TheStream) \in Nat
      BY <1>1, RunFacts
    <2>3. CASE /\ pos = 0 /\ Taken = 0 /\ Taken' = 1 /\ Len(Waiting) = 0 /\ Waiting' = Waiting
               /\ fromEmulator' = fromEmulator
      <3>1. RunTypes'
        BY <1>1, <1>2, <2>1, <2>2, <2>3 DEF RunTypes
      <3>2. ReadInv'
        BY <1>1, <1>2, <2>1, <2>2, <2>3 DEF ReadInv
      <3>3. isFirstPacket
        BY <1>1, <1>2, <2>3 DEF KeptInv
      <3>4. KeptInv'
        BY <1>1, <1>2, <2>1, <2>3, <3>3 DEF KeptInv
      <3>5. OrderInv'
        <4>1. \A i \in 1 .. Len(inputToPipeline) : inputToPipeline[i][1] <= 0 /\ inputToPipeline[i][1] \in Nat
          BY <1>1, <1>2, <2>3 DEF OrderInv, RunTypes
        <4>2. \A x \in Nat : x <= 0 => x <= 1
          OBVIOUS
        <4>3. QED
          BY <1>1, <2>3, <3>3, <4>1, <4>2 DEF OrderInv
      <3>6. QED
        BY <1>1, <2>1, <3>1, <3>2, <3>4, <3>5 DEF FeedInv
    <2>4. CASE /\ Taken' = Taken /\ Len(Waiting') = Len(Waiting) + 1
               /\ \A j \in 1 .. Len(Waiting) : Waiting'[j] = Waiting[j]
               /\ Waiting'[Len(Waiting) + 1] = [kind |-> TheStream[pos + 1].kind, at |-> pos + 1]
               /\ TheStream[pos + 1].kind \in {"ins", "end"} /\ pos + 1 > 1
               /\ \A i \in 0 .. ipcCount - 1 : fromEmulator'.buffer[i] \in Packets
      <3>1. RunTypes'
        BY <1>1, <1>2, <2>1, <2>2, <2>4 DEF RunTypes
      <3>2. ReadInv'
        <4>1. \A j \in 1 .. Len(Waiting') : j = Len(Waiting) + 1 \/ j \in 1 .. Len(Waiting)
          BY <2>2, <2>4
        <4>2. ASSUME NEW j \in 1 .. Len(Waiting')
              PROVE  /\ Taken' + j > 1
                     /\ Waiting'[j] = [kind |-> TheStream'[Taken' + j].kind, at |-> Taken' + j]
                     /\ (Room' /\ Waiting'[j].kind = "end"
                           => j = Len(Waiting') /\ turns' = 0)
          <5>1. CASE j = Len(Waiting) + 1
            <6>1. Taken' + j = pos + 1 /\ j = Len(Waiting')
              BY <2>2, <2>4, <5>1
            <6>2. Waiting'[j].kind = "end" => turns' = 0
              BY <2>1, <2>4, <5>1 DEF TurnsLeft
            <6>3. QED
              BY <1>1, <2>4, <5>1, <6>1, <6>2
          <5>2. CASE j \in 1 .. Len(Waiting)
            <6>1. /\ Taken + j > 1
                  /\ Waiting[j] = [kind |-> TheStream[Taken + j].kind, at |-> Taken + j]
                  /\ ~(Room /\ Waiting[j].kind = "end")
              BY <1>1, <1>2, <5>2 DEF ReadInv
            <6>2. QED
              BY <1>1, <2>4, <5>2, <6>1
          <5>3. QED
            BY <4>1, <5>1, <5>2
        <4>3. pos' <= Len(TheStream') /\ Len(Waiting') <= pos'
          BY <1>1, <2>1, <2>2, <2>4
        <4>4. QED
          BY <1>1, <1>2, <2>1, <4>2, <4>3 DEF ReadInv
      <3>3. KeptInv' /\ OrderInv'
        BY <1>1, <1>2, <2>1, <2>4 DEF KeptInv, OrderInv
      <3>4. QED
        BY <1>1, <2>1, <3>1, <3>2, <3>3 DEF FeedInv
    <2>5. QED
      BY <1>4, <2>3, <2>4, FetchTakes
  <1>5. QED
    BY <1>3, <1>4

(* The packet that processPacket() is given.                               *)
Arrived == Q!First(fromEmulator)

(* The packet is the next item of the stream.                              *)
LEMMA ProcessTakes ==
  ASSUME FeedInv, ProcessPacket
  PROVE  /\ pc = "process" /\ Running /\ outstanding = <<>> /\ ~blockEndSeen
         /\ UNCHANGED <<tracevars, coreid, kernelExecuted, TOTALBLOCKS, pos, turns, currBlock>>
         /\ TheStream' = TheStream /\ Share(coreid, kernelExecuted)' = Share(coreid, kernelExecuted)
         /\ TraceTypes' /\ TraceDone' /\ QueueInv'
         /\ \A i \in 0 .. ipcCount - 1 : fromEmulator'.buffer[i] \in Packets
         /\ Len(Waiting) \in Nat \ {0} /\ Len(Waiting') = Len(Waiting) - 1
         /\ \A j \in 1 .. Len(Waiting') : Waiting'[j] = Waiting[j + 1]
         /\ Taken' = Taken + 1 /\ Taken \in Nat /\ Taken + 1 \in 1 .. Len(TheStream) /\ Taken + 1 > 1
         /\ Arrived = Waiting[1]
         /\ Arrived = [kind |-> TheStream[Taken + 1].kind, at |-> Taken + 1]
         /\ Arrived \in Packets
         /\ Arrived.kind = "end" /\ Room => Len(Waiting) = 1
  <1>1. /\ pc = "process" /\ ~Q!IsEmpty(fromEmulator) /\ fromEmulator' = Q!dequeue(fromEmulator)
        /\ UNCHANGED <<tracevars, coreid, kernelExecuted, TOTALBLOCKS, pos, turns, currBlock>>
    BY DEF ProcessPacket, feed
  <1>2. Running /\ ReadInv /\ KeptInv /\ RunTypes
    BY <1>1 DEF Running, FeedInv
  <1>3. /\ Waiting \in Seq(Packets) /\ Len(Waiting) \in Nat /\ Len(Waiting) # 0
        /\ Len(Waiting) = Q!size(fromEmulator)
        /\ Taken \in Nat /\ pos \in Nat /\ pos = Taken + Len(Waiting)
    BY <1>1, <1>2, RunFacts
  <1>4. outstanding = <<>> /\ ~blockEndSeen
    BY <1>1, <1>2, <1>3 DEF KeptInv
  <1>5. UNCHANGED <<tracevars, coreid, kernelExecuted>>
    BY <1>1
  <1>6. TheStream' = TheStream /\ Share(coreid, kernelExecuted)' = Share(coreid, kernelExecuted)
    <2>1. Share(coreid, kernelExecuted)' = Share(coreid, kernelExecuted)
      BY <1>5 DEF Share, totalBlocks, Stream, Starts, tracevars
    <2>2. QED
      BY <1>5, <2>1, StreamStays
  <1>7. TraceTypes' /\ TraceDone' /\ QueueInv'
    <2>1. TraceTypes' /\ TraceDone'
      BY <1>1, <1>2, TraceStays DEF FeedInv, RunTypes
    <2>2. QED
      BY <2>1, QueueStep DEF FeedInv, Next
  <1>8. /\ Ring(fromEmulator) /\ fromEmulator.head # -1
        /\ \A i \in 0 .. ipcCount - 1 : fromEmulator.buffer[i] \in Packets
    BY <1>1, <1>2 DEF Q!IsEmpty, FeedInv, QueueInv, RunTypes
  <1>9. \A i \in 0 .. ipcCount - 1 : fromEmulator'.buffer[i] \in Packets
    <2>1. [kind |-> "ins", at |-> 0] \in Packets
      BY DEF Packets
    <2>2. QED
      BY <1>1, <1>8, <2>1, BufferTypes
  <1>10. Waiting' = Tail(Waiting)
    BY <1>1, <1>8, DequeueTakesFirst DEF Waiting
  <1>11. Len(Waiting') = Len(Waiting) - 1 /\ \A j \in 1 .. Len(Waiting') : Waiting'[j] = Waiting[j + 1]
    <2>1. Waiting # <<>>
      BY <1>3
    <2>2. QED
      BY <1>3, <1>10, <2>1, HeadTailProperties
  <1>12. Taken' = Taken + 1
    <2>1. Taken' = pos' - Len(Waiting')
      BY DEF Taken
    <2>2. QED
      BY <1>1, <1>3, <1>11, <2>1
  <1>13. Arrived = Waiting[1]
    <2>1. Waiting[1] = fromEmulator.buffer[Q!Wrap(fromEmulator.head + 1 - 1)]
      <3>1. 1 \in 1 .. Q!size(fromEmulator)
        BY <1>3
      <3>2. QED
        BY <1>8, <3>1, RingContents DEF Waiting
    <2>2. Q!Wrap(fromEmulator.head + 1 - 1) = fromEmulator.head
      BY <1>8, FeedAssumption DEF Ring, Q!Wrap
    <2>3. QED
      BY <2>1, <2>2 DEF Arrived, Q!First
  <1>14. /\ Taken + 1 > 1 /\ Arrived = [kind |-> TheStream[Taken + 1].kind, at |-> Taken + 1]
         /\ Arrived.kind = "end" /\ Room => Len(Waiting) = 1
    <2>1. 1 \in 1 .. Len(Waiting)
      BY <1>3
    <2>2. QED
      BY <1>2, <1>13, <2>1 DEF ReadInv
  <1>15. Arrived \in Packets
    BY <1>3, <1>13
  <1>16. Taken + 1 \in 1 .. Len(TheStream)
    <2>1. pos <= Len(TheStream) /\ Len(TheStream) \in Nat
      BY <1>2, RunFacts DEF ReadInv
    <2>2. QED
      BY <1>3, <2>1
  <1>17. QED
    BY <1>1, <1>2, <1>3, <1>4, <1>6, <1>7, <1>9, <1>11, <1>12, <1>13, <1>14, <1>15, <1>16

(* What the packet does to the block's state.                              *)
LEMMA ProcessDoes ==
  ASSUME FeedInv, ProcessPacket
  PROVE  /\ blockEndSeen' = (Arrived.kind = "end")
         /\ \/ /\ Arrived.kind = "end" /\ SpaceLeft = 0 /\ pc' = "exited"
               /\ UNCHANGED <<inputToPipeline, outstanding, packetList, isFirstPacket>>
            \/ /\ Arrived.kind = "end" /\ SpaceLeft # 0
               /\ packetList' = Append(packetList, Arrived) /\ isFirstPacket' = FALSE
               /\ inputToPipeline' = Append(inputToPipeline, <<Arrived.at, 0>>)
               /\ UNCHANGED <<outstanding, pc>>
            \/ /\ Arrived.kind # "end" /\ isFirstPacket
               /\ packetList' = Append(packetList, Arrived) /\ isFirstPacket' = FALSE
               /\ UNCHANGED <<inputToPipeline, outstanding, pc>>
            \/ /\ Arrived.kind # "end" /\ ~isFirstPacket /\ ~isFirstPacket' /\ packetList' = <<Arrived>>
               /\ Len(Fused(Arrived)) < SpaceLeft
               /\ inputToPipeline' = inputToPipeline \o Fused(Arrived) /\ outstanding' = <<>>
               /\ UNCHANGED pc
            \/ /\ Arrived.kind # "end" /\ ~isFirstPacket /\ ~isFirstPacket' /\ packetList' = <<Arrived>>
               /\ ~(Len(Fused(Arrived)) < SpaceLeft)
               /\ outstanding' = Fused(Arrived) /\ pc' = "pipelines" /\ UNCHANGED inputToPipeline
  <1> DEFINE p == Arrived
  <1>1. blockEndSeen' = (blockEndSeen \/ p.kind = "end") /\ ~blockEndSeen
    BY ProcessTakes DEF ProcessPacket, Arrived
  <1>2. IF p.kind = "end" /\ SpaceLeft = 0
        THEN pc' = "exited" /\ UNCHANGED <<inputToPipeline, outstanding, packetList, isFirstPacket>>
        ELSE IF isFirstPacket \/ p.kind = "end"
        THEN /\ packetList' = Append(packetList, p)
             /\ isFirstPacket' = FALSE
             /\ inputToPipeline' = IF p.kind = "end" THEN Append(inputToPipeline, <<p.at, 0>>)
                                   ELSE inputToPipeline
             /\ UNCHANGED <<outstanding, pc>>
        ELSE /\ packetList' = <<p>>
             /\ IF Len(Fused(p)) < SpaceLeft
                THEN inputToPipeline' = inputToPipeline \o Fused(p) /\ outstanding' = <<>> /\ UNCHANGED pc
                ELSE outstanding' = Fused(p) /\ pc' = "pipelines" /\ UNCHANGED inputToPipeline
             /\ UNCHANGED isFirstPacket
    BY DEF ProcessPacket, Arrived, Kept
  <1> HIDE DEF p
  <1>3. blockEndSeen' = (p.kind = "end")
    BY <1>1
  <1>4. CASE p.kind = "end" /\ SpaceLeft = 0
    BY <1>2, <1>3, <1>4 DEF p
  <1>5. CASE p.kind = "end" /\ SpaceLeft # 0
    BY <1>2, <1>3, <1>5 DEF p
  <1>6. CASE p.kind # "end" /\ isFirstPacket
    BY <1>2, <1>3, <1>6 DEF p
  <1>7. CASE p.kind # "end" /\ ~isFirstPacket
    <2>1. /\ packetList' = <<p>> /\ isFirstPacket' = isFirstPacket
          /\ IF Len(Fused(p)) < SpaceLeft
             THEN inputToPipeline' = inputToPipeline \o Fused(p) /\ outstanding' = <<>> /\ UNCHANGED pc
             ELSE outstanding' = Fused(p) /\ pc' = "pipelines" /\ UNCHANGED inputToPipeline
      BY <1>2, <1>7
    <2>2. ~isFirstPacket'
      BY <1>7, <2>1
    <2>3. QED
      BY <1>3, <1>7, <2>1, <2>2 DEF p
  <1>8. QED
    BY <1>4, <1>5, <1>6, <1>7

(* A step of the order in which micro-operations are fed.                  *)
Follows(a, b) == a[1] < b[1] \/ (a[1] = b[1] /\ b[2] = a[2] + 1)

Ordered(s) == \A i \in 1 .. Len(s) - 1 : Follows(s[i], s[i + 1])

(* Micro-operations of items before d, up to d, and of item d.             *)
Before(s, d) == \A i \in 1 .. Len(s) : s[i][1] < d
UpTo(s, d) == \A i \in 1 .. Len(s) : s[i][1] <= d
OfItem(t, d) == /\ \A i \in 1 .. Len(t) : t[i][1] = d
                /\ \A i \in 1 .. Len(t) - 1 : t[i + 1][2] = t[i][2] + 1

(* Micro-operations of a later item go behind.                             *)
LEMMA OrderedConcat ==
  ASSUME NEW s \in Seq(Nat \X Nat), Ordered(s), NEW t \in Seq(Nat \X Nat), NEW d \in Nat,
         Before(s, d), OfItem(t, d)
  PROVE  /\ s \o t \in Seq(Nat \X Nat) /\ Len(s \o t) = Len(s) + Len(t)
         /\ Ordered(s \o t)
         /\ UpTo(s \o t, d)
         /\ \A i \in 1 .. Len(s) : (s \o t)[i] = s[i]
         /\ \A i \in 1 .. Len(t) : (s \o t)[Len(s) + i] = t[i]
  <1> DEFINE r == s \o t
             n == Len(s)
             m == Len(t)
  <1>1. /\ r \in Seq(Nat \X Nat) /\ Len(r) = n + m /\ n \in Nat /\ m \in Nat
        /\ \A i \in 1 .. n + m : r[i] = IF i <= n THEN s[i] ELSE t[i - n]
    BY ConcatProperties
  <1>2. \A i \in 1 .. n : s[i][1] < d /\ s[i][1] \in Nat
    BY DEF Before
  <1>3. /\ \A i \in 1 .. m : t[i][1] = d
        /\ \A i \in 1 .. m - 1 : t[i + 1][2] = t[i][2] + 1
        /\ \A i \in 1 .. n - 1 : Follows(s[i], s[i + 1])
    BY DEF Ordered, OfItem
  <1> HIDE DEF r, n, m
  <1>4. \A i \in 1 .. n : i \in 1 .. n + m /\ i <= n
    BY <1>1
  <1>5. \A i \in 1 .. n : r[i] = s[i]
    BY <1>1, <1>4
  <1>6. \A i \in 1 .. m : n + i \in 1 .. n + m /\ ~(n + i <= n) /\ (n + i) - n = i
    BY <1>1
  <1>7. \A i \in 1 .. m : r[n + i] = t[i]
    BY <1>1, <1>6
  <1>8. \A i \in 1 .. n + m : i \in 1 .. n \/ (i - n \in 1 .. m /\ i = n + (i - n))
    BY <1>1
  <1>9. ASSUME NEW i \in 1 .. n + m PROVE r[i][1] <= d
    <2>1. CASE i \in 1 .. n
      <3>1. r[i][1] < d /\ r[i][1] \in Nat
        BY <1>2, <1>5, <2>1
      <3>2. QED
        BY <3>1, SMTT(30)
    <2>2. CASE i - n \in 1 .. m /\ i = n + (i - n)
      <3> DEFINE j == i - n
      <3>1. j \in 1 .. m /\ i = n + j
        BY <2>2
      <3> HIDE DEF j
      <3>2. r[i] = t[j]
        BY <1>7, <3>1
      <3>3. r[i][1] = d
        BY <1>3, <3>1, <3>2
      <3>4. QED
        BY <3>3
    <2>3. QED
      BY <1>8, <2>1, <2>2
  <1>10. ASSUME NEW i \in 1 .. (n + m) - 1 PROVE Follows(r[i], r[i + 1])
    <2>1. i \in 1 .. n + m /\ i + 1 \in 1 .. n + m
      BY <1>1
    <2>2. CASE i + 1 \in 1 .. n
      <3>1. i \in 1 .. n - 1 /\ i \in 1 .. n
        BY <1>1, <2>2
      <3>2. QED
        BY <1>3, <1>5, <2>2, <3>1
    <2>3. CASE i \in 1 .. n /\ i + 1 \notin 1 .. n
      <3> DEFINE j == (i + 1) - n
      <3>1. j \in 1 .. m /\ i + 1 = n + j
        BY <1>8, <2>1, <2>3
      <3> HIDE DEF j
      <3>2. r[i + 1][1] = d
        <4>1. r[i + 1] = t[j]
          BY <1>7, <3>1
        <4>2. QED
          BY <1>3, <3>1, <4>1
      <3>3. r[i][1] < d
        BY <1>2, <1>5, <2>3
      <3>4. QED
        BY <3>2, <3>3 DEF Follows
    <2>4. CASE i \notin 1 .. n
      <3> DEFINE j == i - n
      <3>1. i = n + j /\ i + 1 = n + (j + 1) /\ j \in 1 .. m - 1 /\ j \in 1 .. m /\ j + 1 \in 1 .. m
        BY <1>1, <2>1, <2>4
      <3> HIDE DEF j
      <3>2. r[i] = t[j] /\ r[i + 1] = t[j + 1]
        BY <1>7, <3>1
      <3>3. r[i][1] = d /\ r[i + 1][1] = d /\ r[i + 1][2] = r[i][2] + 1
        BY <1>3, <3>1, <3>2
      <3>4. QED
        BY <3>3 DEF Follows
    <2>5. QED
      BY <2>2, <2>3, <2>4
  <1>11. Ordered(r)
    BY <1>1, <1>10 DEF Ordered
  <1>12. UpTo(r, d)
    BY <1>1, <1>9 DEF UpTo
  <1>13. QED
    BY <1>1, <1>5, <1>7, <1>11, <1>12 DEF r, n, m

(* The micro-operations of the packet kept.                                *)
LEMMA FusedFacts ==
  ASSUME FeedInv, ProcessPacket, ~isFirstPacket
  PROVE  /\ Fused(Arrived) \in Seq(Nat \X Nat)
         /\ Taken \in 1 .. Len(TheStream)
         /\ Len(Fused(Arrived)) = TheStream[Taken].ops /\ TheStream[Taken].ops \in 0 .. 50
         /\ \A i \in 1 .. Len(Fused(Arrived)) : Fused(Arrived)[i] = <<Taken, i>>
  <1>1. /\ outstanding = <<>> /\ ~blockEndSeen /\ Running
    BY ProcessTakes
  <1>2. KeptInv
    BY <1>1 DEF FeedInv
  <1>3. Taken > 0 /\ packetList[1].at = Taken
    BY <1>1, <1>2 DEF KeptInv
  <1>4. Taken \in Nat /\ Taken <= Len(TheStream) /\ Len(TheStream) \in Nat
        /\ \A l \in 1 .. Len(TheStream) : TheStream[l] \in Lines
    BY <1>1, RunFacts
  <1>5. Taken \in 1 .. Len(TheStream)
    BY <1>3, <1>4
  <1>6. TheStream[Taken].ops \in 0 .. 50
    BY <1>4, <1>5 DEF Lines
  <1> DEFINE n == TheStream[Taken].ops
             f == [i \in 1 .. n |-> <<Taken, i>>]
  <1>7. MicroOps(packetList[1]) = f
    BY <1>3 DEF MicroOps, TheStream
  <1>8. n \in Nat /\ n \in 0 .. 50
    BY <1>6
  <1> HIDE DEF n
  <1>9. f \in [1 .. n -> Nat \X Nat]
    BY <1>4, <1>8
  <1>10. /\ f \in Seq(Nat \X Nat) /\ Len(f) = n /\ \A i \in 1 .. n : f[i] = <<Taken, i>>
    BY <1>8, <1>9, IsSequence
  <1> HIDE DEF f
  <1>11. Fused(Arrived) = f
    <2>1. Fused(Arrived) = <<>> \o f
      BY <1>1, <1>7 DEF Fused
    <2>2. QED
      BY <1>10, <2>1
  <1>12. QED
    BY <1>5, <1>8, <1>10, <1>11 DEF n

(* Nothing is fed before what was fed already.                             *)
LEMMA FedBefore ==
  ASSUME FeedInv, ProcessPacket
  PROVE  /\ inputToPipeline \in Seq(Nat \X Nat) /\ Len(inputToPipeline) \in Nat
         /\ Ordered(inputToPipeline)
         /\ \A i \in 1 .. Len(inputToPipeline) :
              /\ inputToPipeline[i][1] \in Nat /\ inputToPipeline[i][1] <= Taken
              /\ inputToPipeline[i][1] < Taken + 1
              /\ ~isFirstPacket => inputToPipeline[i][1] < Taken
  <1>1. Running /\ outstanding = <<>> /\ ~blockEndSeen /\ Taken \in Nat
    BY ProcessTakes
  <1>2. inputToPipeline \in Seq(Nat \X Nat) /\ FedInOrder /\ OrderInv
    BY <1>1 DEF FeedInv, RunTypes
  <1>3. Ordered(inputToPipeline)
    BY <1>2 DEF Ordered, Follows, FedInOrder
  <1>4. \A i \in 1 .. Len(inputToPipeline) : inputToPipeline[i] \in Nat \X Nat
    BY <1>2
  <1>5. \A i \in 1 .. Len(inputToPipeline) : inputToPipeline[i][1] \in Nat
    BY <1>4
  <1>6. \A x \in Nat : x <= Taken => x < Taken + 1
    BY <1>1
  <1>7. QED
    BY <1>1, <1>2, <1>3, <1>5, <1>6 DEF OrderInv

(* The input after a packet.                                               *)
LEMMA ProcessOrder ==
  ASSUME FeedInv, ProcessPacket
  PROVE  /\ inputToPipeline' \in Seq(Nat \X Nat) /\ Len(inputToPipeline') <= InputSize
         /\ FedInOrder' /\ OrderInv'
         /\ \A i \in 1 .. Len(inputToPipeline) : inputToPipeline'[i] = inputToPipeline[i]
         /\ Len(inputToPipeline') >= Len(inputToPipeline)
  <1> DEFINE s == inputToPipeline
             d == Taken
  <1>1. /\ s \in Seq(Nat \X Nat) /\ Len(s) \in Nat /\ Ordered(s)
        /\ \A i \in 1 .. Len(s) : /\ s[i][1] \in Nat /\ s[i][1] <= d /\ s[i][1] < d + 1
                                  /\ ~isFirstPacket => s[i][1] < d
    BY FedBefore
  <1>2. /\ outstanding = <<>> /\ ~blockEndSeen /\ d \in Nat /\ Taken' = d + 1 /\ Running
        /\ Arrived.at = d + 1
    BY ProcessTakes
  <1>3. SpaceLeft \in Nat /\ SpaceLeft = InputSize - Len(s) /\ InputSize \in Nat
    BY <1>2, RunFacts, FeedAssumption
  <1>4. FedInOrder' <=> Ordered(s')
    BY DEF FedInOrder, Ordered, Follows
  <1>5. OrderInv' <=>
          (outstanding' = <<>> => \A i \in 1 .. Len(s') : /\ s'[i][1] <= d + 1
                                                          /\ ~blockEndSeen' /\ ~isFirstPacket' => s'[i][1] < d + 1)
    BY <1>2 DEF OrderInv
  <1> HIDE DEF d
  <1>6. ASSUME UNCHANGED inputToPipeline
        PROVE  /\ s' \in Seq(Nat \X Nat) /\ Len(s') <= InputSize /\ Ordered(s')
               /\ \A i \in 1 .. Len(s') : s'[i][1] <= d + 1 /\ s'[i][1] < d + 1
               /\ \A i \in 1 .. Len(s) : s'[i] = s[i]
               /\ Len(s') >= Len(s)
    <2>1. s' = s
      BY <1>6
    <2>2. \A x \in Nat : x < d + 1 => x <= d + 1
      BY <1>2
    <2>3. Len(s) <= InputSize
      BY <1>1, <1>3
    <2> HIDE DEF s
    <2>4. QED
      BY <1>1, <2>1, <2>2, <2>3
  <1>7. CASE /\ Arrived.kind = "end" /\ SpaceLeft # 0 /\ blockEndSeen'
             /\ inputToPipeline' = Append(inputToPipeline, <<Arrived.at, 0>>)
    <2> DEFINE t == << <<d + 1, 0>> >>
    <2>1. t \in Seq(Nat \X Nat) /\ Len(t) = 1 /\ \A i \in 1 .. Len(t) : t[i][1] = d + 1
      BY <1>2
    <2>2. \A i \in 1 .. Len(t) - 1 : t[i + 1][2] = t[i][2] + 1
      BY <2>1
    <2>3. s' = s \o t
      BY <1>1, <1>2, <1>7, SMTT(30)
    <2> DEFINE e == d + 1
    <2>4. e \in Nat /\ e = d + 1 /\ OfItem(t, e)
      BY <1>2, <2>1, <2>2 DEF OfItem
    <2>5. s \in Seq(Nat \X Nat) /\ Ordered(s) /\ Len(s) \in Nat /\ Before(s, e)
      BY <1>1 DEF Before
    <2> HIDE DEF t, s, e
    <2>6. /\ s \o t \in Seq(Nat \X Nat) /\ Len(s \o t) = Len(s) + Len(t)
          /\ Ordered(s \o t)
          /\ UpTo(s \o t, e)
          /\ \A i \in 1 .. Len(s) : (s \o t)[i] = s[i]
      BY <2>1, <2>4, <2>5, OrderedConcat
    <2>7. Len(s') <= InputSize /\ Len(s') >= Len(s)
      BY <1>3, <1>7, <2>1, <2>3, <2>5, <2>6
    <2>8. QED
      BY <1>4, <1>5, <1>7, <2>3, <2>4, <2>6, <2>7 DEF s, UpTo
  <1>8. CASE /\ Arrived.kind # "end" /\ ~isFirstPacket /\ ~isFirstPacket'
             /\ Len(Fused(Arrived)) < SpaceLeft
             /\ inputToPipeline' = inputToPipeline \o Fused(Arrived)
    <2> DEFINE t == Fused(Arrived)
    <2>1. t \in Seq(Nat \X Nat) /\ Len(t) \in Nat /\ \A i \in 1 .. Len(t) : t[i] = <<d, i>>
      BY <1>8, FusedFacts DEF d
    <2>2. s' = s \o t /\ Len(t) < SpaceLeft
      BY <1>8
    <2> HIDE DEF t, s
    <2>3. OfItem(t, d)
      <3>1. \A i \in 1 .. Len(t) - 1 : i \in 1 .. Len(t) /\ i + 1 \in 1 .. Len(t)
        BY <2>1
      <3>2. \A i \in 1 .. Len(t) : t[i][1] = d /\ t[i][2] = i
        BY <2>1
      <3>3. QED
        BY <3>1, <3>2 DEF OfItem
    <2>4. s \in Seq(Nat \X Nat) /\ Ordered(s) /\ Before(s, d)
      BY <1>1, <1>8 DEF Before
    <2>5. /\ s \o t \in Seq(Nat \X Nat) /\ Len(s \o t) = Len(s) + Len(t)
          /\ Ordered(s \o t)
          /\ UpTo(s \o t, d)
          /\ \A i \in 1 .. Len(s) : (s \o t)[i] = s[i]
      BY <1>2, <2>1, <2>3, <2>4, OrderedConcat
    <2>6. Len(s') <= InputSize /\ Len(s') >= Len(s)
      BY <1>1, <1>3, <2>1, <2>2, <2>5
    <2>7. \A i \in 1 .. Len(s') : s'[i][1] <= d + 1 /\ s'[i][1] < d + 1
      <3>1. \A i \in 1 .. Len(s') : s'[i] \in Nat \X Nat /\ s'[i][1] <= d
        BY <2>2, <2>5 DEF UpTo
      <3>2. \A i \in 1 .. Len(s') : s'[i][1] \in Nat /\ s'[i][1] <= d
        BY <3>1
      <3>3. QED
        BY <1>2, <3>2
    <2>8. QED
      BY <1>4, <1>5, <2>2, <2>5, <2>6, <2>7 DEF s
  <1>9. CASE UNCHANGED inputToPipeline
    BY <1>4, <1>5, <1>6, <1>9
  <1>10. blockEndSeen' = (Arrived.kind = "end")
    BY ProcessDoes
  <1>11. QED
    BY <1>7, <1>8, <1>9, <1>10, ProcessDoes

(* The packet list and the micro-operations put aside after a packet.      *)
LEMMA ProcessTypes ==
  ASSUME FeedInv, ProcessPacket
  PROVE  RunTypes'
  <1>1. Running /\ RunTypes /\ KeptInv /\ ~blockEndSeen /\ pc = "process" /\ Arrived \in Packets
    BY ProcessTakes DEF FeedInv
  <1>2. packetList \in Seq(Packets) /\ Len(packetList) \in Nat /\ Len(packetList) <= 1
    BY <1>1 DEF RunTypes, KeptInv
  <1>3. packetList' \in Seq(Packets) /\ Len(packetList') <= 2
    <2>1. packetList' = packetList \/ packetList' = Append(packetList, Arrived) \/ packetList' = <<Arrived>>
      BY ProcessDoes
    <2>2. /\ Append(packetList, Arrived) \in Seq(Packets)
          /\ Len(Append(packetList, Arrived)) = Len(packetList) + 1
      BY <1>1, <1>2, AppendProperties
    <2>3. <<Arrived>> \in Seq(Packets) /\ Len(<<Arrived>>) = 1
      BY <1>1
    <2>4. CASE packetList' = packetList
      BY <1>2, <2>4
    <2>5. CASE packetList' = Append(packetList, Arrived)
      <3> DEFINE x == Append(packetList, Arrived)
      <3> HIDE DEF x
      <3>1. x \in Seq(Packets) /\ Len(x) = Len(packetList) + 1 /\ packetList' = x
        BY <2>2, <2>5 DEF x
      <3>2. QED
        BY <1>2, <3>1
    <2>6. CASE packetList' = <<Arrived>>
      BY <2>3, <2>6
    <2>7. QED
      BY <2>1, <2>4, <2>5, <2>6
  <1>4. outstanding' \in Seq(Nat \X Nat) /\ Len(outstanding') <= 50
    <2>1. \/ outstanding' = outstanding
          \/ outstanding' = <<>>
          \/ outstanding' = Fused(Arrived) /\ ~isFirstPacket
      BY ProcessDoes
    <2>2. CASE outstanding' = outstanding
      BY <1>1, <2>2 DEF RunTypes
    <2>3. CASE outstanding' = <<>>
      BY <2>3
    <2>4. CASE outstanding' = Fused(Arrived) /\ ~isFirstPacket
      <3>1. Fused(Arrived) \in Seq(Nat \X Nat)
        BY <2>4, FusedFacts
      <3>2. Len(Fused(Arrived)) \in 0 .. 50
        BY <2>4, FusedFacts
      <3>3. \A x \in 0 .. 50 : x <= 50
        OBVIOUS
      <3>4. Len(Fused(Arrived)) <= 50
        BY <3>2, <3>3
      <3>5. QED
        BY <2>4, <3>1, <3>4
    <2>5. QED
      BY <2>1, <2>2, <2>3, <2>4
  <1>5. inputToPipeline' \in Seq(Nat \X Nat) /\ Len(inputToPipeline') <= InputSize
    BY ProcessOrder
  <1>6. isFirstPacket' \in BOOLEAN /\ blockEndSeen' \in BOOLEAN /\ pc' \in {"process", "exited", "pipelines"}
    <2>1. isFirstPacket' \in BOOLEAN
      BY <1>1 DEF ProcessPacket, RunTypes
    <2>2. QED
      BY <1>1, <2>1, ProcessDoes
  <1>7. /\ UNCHANGED <<coreid, kernelExecuted, TOTALBLOCKS, pos, turns, currBlock>>
        /\ TraceDone' /\ \A i \in 0 .. ipcCount - 1 : fromEmulator'.buffer[i] \in Packets
    BY ProcessTakes
  <1>8. QED
    BY <1>1, <1>3, <1>4, <1>5, <1>6, <1>7 DEF RunTypes

(* The queue after a packet.                                               *)
LEMMA ProcessRead ==
  ASSUME FeedInv, ProcessPacket, pc' # "exited"
  PROVE  ReadInv'
  <1>1. /\ UNCHANGED <<coreid, kernelExecuted, TOTALBLOCKS, pos, turns, currBlock>>
        /\ TheStream' = TheStream /\ Share(coreid, kernelExecuted)' = Share(coreid, kernelExecuted)
        /\ Len(Waiting) \in Nat \ {0} /\ Len(Waiting') = Len(Waiting) - 1
        /\ \A j \in 1 .. Len(Waiting') : Waiting'[j] = Waiting[j + 1]
        /\ Taken' = Taken + 1 /\ Taken \in Nat
        /\ Arrived.kind = "end" /\ Room => Len(Waiting) = 1
        /\ Running /\ ~blockEndSeen
    BY ProcessTakes
  <1>2. ReadInv /\ pos \in Nat
    BY <1>1 DEF FeedInv, RunTypes
  <1>3. \/ Arrived.kind = "end" /\ SpaceLeft # 0 /\ UNCHANGED pc
        \/ /\ Arrived.kind # "end" /\ ~blockEndSeen' /\ UNCHANGED pc
           /\ SpaceLeft > 0 \/ inputToPipeline' = inputToPipeline
        \/ Arrived.kind # "end" /\ ~blockEndSeen' /\ ~(SpaceLeft > 0) /\ UNCHANGED inputToPipeline
        \/ Arrived.kind # "end" /\ ~blockEndSeen' /\ outstanding' # <<>> /\ UNCHANGED inputToPipeline
    <2>1. SpaceLeft \in Nat
      BY <1>1, RunFacts
    <2>2. ~isFirstPacket => Len(Fused(Arrived)) \in Nat
      BY FusedFacts
    <2>3. ASSUME Arrived.kind # "end", ~isFirstPacket, Len(Fused(Arrived)) < SpaceLeft
          PROVE  SpaceLeft > 0
      BY <2>1, <2>2, <2>3
    <2>4. ASSUME ~isFirstPacket, ~(Len(Fused(Arrived)) < SpaceLeft), outstanding' = Fused(Arrived)
          PROVE  ~(SpaceLeft > 0) \/ outstanding' # <<>>
      <3>1. outstanding' = <<>> => Len(Fused(Arrived)) = 0
        BY <2>4
      <3>2. QED
        BY <2>1, <2>4, <3>1
    <2>5. QED
      BY <2>3, <2>4, ProcessDoes
  <1>4. Room' => Room \/ Arrived.kind = "end"
    <2>1. SpaceLeft \in Nat /\ SpaceLeft' = InputSize - Len(inputToPipeline')
          /\ SpaceLeft = InputSize - Len(inputToPipeline)
      BY <1>1, RunFacts DEF SpaceLeft
    <2>2. QED
      BY <1>3, <2>1 DEF Room
  <1>5. Arrived.kind = "end" => Len(Waiting) = 1
    <2>1. SpaceLeft \in Nat
      BY <1>1, RunFacts
    <2>2. QED
      BY <1>1, <1>3, <2>1 DEF Room
  <1>6. ASSUME NEW j \in 1 .. Len(Waiting')
        PROVE  /\ Taken' + j > 1
               /\ Waiting'[j] = [kind |-> TheStream'[Taken' + j].kind, at |-> Taken' + j]
               /\ (Room' /\ Waiting'[j].kind = "end"
                     => j = Len(Waiting') /\ turns' = 0)
    <2>1. /\ j + 1 \in 1 .. Len(Waiting) /\ Waiting'[j] = Waiting[j + 1] /\ Taken' + j = Taken + (j + 1)
          /\ j + 1 = Len(Waiting) => j = Len(Waiting')
      BY <1>1
    <2>2. /\ Taken + (j + 1) > 1
          /\ Waiting[j + 1] = [kind |-> TheStream[Taken + (j + 1)].kind, at |-> Taken + (j + 1)]
          /\ Room /\ Waiting[j + 1].kind = "end" => j + 1 = Len(Waiting)
      BY <1>2, <2>1 DEF ReadInv
    <2>3. Room' => Room
      <3>1. Arrived.kind # "end"
        BY <1>1, <1>5, <2>1
      <3>2. QED
        BY <1>4, <3>1
    <2>4. turns' = 0
      BY <1>1, ProcessTakes DEF FeedInv, RunTypes
    <2>5. QED
      BY <1>1, <2>1, <2>2, <2>3, <2>4
  <1>7. Room' /\ outstanding' = <<>> /\ pc' \in {"block", "pipelines"} => Len(Waiting') = 0
    <2>1. CASE UNCHANGED pc
      BY <2>1, ProcessTakes
    <2>2. CASE Arrived.kind # "end" /\ ~blockEndSeen' /\ ~(SpaceLeft > 0) /\ UNCHANGED inputToPipeline
      BY <2>2 DEF Room, SpaceLeft
    <2>3. QED
      BY <1>3, <2>1, <2>2, ProcessDoes
  <1>8. pos' <= Len(TheStream') /\ Len(Waiting') <= pos'
    BY <1>1, <1>2 DEF ReadInv
  <1>9. QED
    BY <1>1, <1>2, <1>6, <1>7, <1>8 DEF ReadInv

(* The packet kept after a packet.                                         *)
LEMMA ProcessKept ==
  ASSUME FeedInv, ProcessPacket, pc' # "exited"
  PROVE  KeptInv'
  <1>1. /\ TheStream' = TheStream /\ pc = "process"
        /\ Len(Waiting) \in Nat \ {0} /\ Len(Waiting') = Len(Waiting) - 1
        /\ Taken' = Taken + 1 /\ Taken \in Nat
        /\ Arrived = [kind |-> TheStream[Taken + 1].kind, at |-> Taken + 1]
        /\ Arrived \in Packets
        /\ Arrived.kind = "end" /\ Room => Len(Waiting) = 1
        /\ Running /\ ~blockEndSeen /\ outstanding = <<>>
    BY ProcessTakes
  <1>2. KeptInv /\ packetList \in Seq(Packets)
    BY <1>1 DEF FeedInv, RunTypes
  <1>3. SpaceLeft \in Nat /\ SpaceLeft = InputSize - Len(inputToPipeline)
    BY <1>1, RunFacts
  <1>4. blockEndSeen' = (Arrived.kind = "end")
    BY ProcessDoes
  <1>5. /\ Len(packetList) <= 1 /\ Len(packetList) \in Nat
        /\ isFirstPacket <=> packetList = <<>>
    BY <1>1, <1>2 DEF KeptInv
  <1>6. Append(packetList, Arrived) # <<>> /\ Len(Append(packetList, Arrived)) = Len(packetList) + 1
    BY <1>1, <1>2, AppendProperties
  <1>7. CASE /\ Arrived.kind = "end" /\ SpaceLeft # 0
             /\ packetList' = Append(packetList, Arrived) /\ isFirstPacket' = FALSE
             /\ UNCHANGED <<outstanding, pc>>
    <2>1. Len(Waiting') = 0
      BY <1>1, <1>3, <1>7 DEF Room
    <2>2. TheStream'[Taken'].kind = "end" /\ Taken' > 0
      BY <1>1, <1>7
    <2>3. QED
      BY <1>1, <1>4, <1>6, <1>7, <2>1, <2>2 DEF KeptInv
  <1>8. CASE /\ Arrived.kind # "end" /\ isFirstPacket
             /\ packetList' = Append(packetList, Arrived) /\ isFirstPacket' = FALSE
             /\ UNCHANGED <<inputToPipeline, outstanding, pc>>
    <2>1. packetList = <<>>
      BY <1>5, <1>8
    <2>2. packetList' = <<Arrived>> /\ Len(packetList') = 1 /\ packetList'[1] = Arrived
      BY <1>8, <2>1
    <2>3. packetList'[1].at = Taken' /\ Taken' > 0 /\ packetList' # <<>>
      BY <1>1, <2>2
    <2>4. ~blockEndSeen' /\ ~isFirstPacket' /\ outstanding' = <<>>
      BY <1>1, <1>4, <1>8
    <2>5. Len(packetList') <= 1
      BY <2>2
    <2>6. QED
      BY <2>3, <2>4, <2>5 DEF KeptInv
  <1>9. ASSUME Arrived.kind # "end", ~isFirstPacket', packetList' = <<Arrived>>,
               \/ outstanding' = <<>>
               \/ outstanding' = Fused(Arrived) /\ pc' = "pipelines" /\ UNCHANGED inputToPipeline
                  /\ ~(Len(Fused(Arrived)) < SpaceLeft) /\ ~isFirstPacket
        PROVE  KeptInv'
    <2>1. Len(packetList') = 1 /\ packetList'[1] = Arrived /\ packetList' # <<>>
      BY <1>9
    <2>2. packetList'[1].at = Taken' /\ Taken' > 0
      BY <1>1, <2>1
    <2>3. outstanding' # <<>> => pc' \in {"pipelines", "block"} /\ Len(outstanding') >= SpaceLeft'
      <3>1. ASSUME outstanding' # <<>> PROVE pc' = "pipelines" /\ Len(outstanding') >= SpaceLeft'
        <4>1. /\ outstanding' = Fused(Arrived) /\ pc' = "pipelines" /\ UNCHANGED inputToPipeline
              /\ ~(Len(Fused(Arrived)) < SpaceLeft) /\ ~isFirstPacket
          BY <1>9, <3>1
        <4>2. Len(Fused(Arrived)) \in Nat
          BY <4>1, FusedFacts
        <4>3. SpaceLeft' = SpaceLeft
          BY <4>1 DEF SpaceLeft
        <4>4. QED
          BY <1>3, <4>1, <4>2, <4>3
      <3>2. QED
        BY <3>1
    <2>4. ~blockEndSeen' /\ ~isFirstPacket'
      BY <1>4, <1>9
    <2>5. Len(packetList') <= 1
      BY <2>1
    <2>6. QED
      BY <2>1, <2>2, <2>3, <2>4, <2>5 DEF KeptInv
  <1>10. QED
    BY <1>7, <1>8, <1>9, ProcessDoes

(* A packet is processed.                                                  *)
LEMMA FeedInvProcess ==
  ASSUME FeedInv, ProcessPacket
  PROVE  FeedInv'
  <1>1. TraceTypes' /\ QueueInv' /\ RunTypes' /\ FedInOrder' /\ OrderInv'
    BY ProcessTakes, ProcessTypes, ProcessOrder
  <1>2. pc' \in {"process", "exited", "pipelines"}
    BY ProcessTakes, ProcessDoes
  <1>3. Running' => pc' # "exited"
    BY DEF Running
  <1>4. QED
    BY <1>1, <1>2, <1>3, ProcessRead, ProcessKept DEF FeedInv

(* The invariant holds throughout.                                         *)
LEMMA FeedInvCorrect == Spec => []FeedInv
  <1>1. Init => FeedInv
    BY FeedInvInit
  <1>2. FeedInv /\ [Next]_vars => FeedInv'
    BY FeedInvTrace, FeedInvStart, FeedInvBegin, FeedInvEnds, FeedInvEndBlock, FeedInvFetch,
       FeedInvProcess DEF Next
  <1>3. QED
    BY <1>1, <1>2, PTL DEF Spec

(* Every variable keeps its range: outstandingMicroOps never has more than *)
(* its 50 places, no block state holds more than two packets, and nothing  *)
(* is put into inputToPipeline that it has no place for.                   *)
THEOREM TypeCorrect == Spec => []TypeOK
  <1>1. FeedInv => TypeOK
    <2> SUFFICES ASSUME FeedInv PROVE TypeOK
      OBVIOUS
    <2>1. TraceTypes /\ QueueInv /\ RunTypes
      BY DEF FeedInv
    <2>2. fromEmulator \in Q!Buffers
      BY <2>1, RingType DEF QueueInv, RunTypes
    <2>3. block \in 0 .. NoBlocks
      BY <2>1, NoBlocksType DEF TraceTypes
    <2>4. Len(packetList) <= 5
      BY <2>1 DEF RunTypes
    <2>5. QED
      BY <2>1, <2>2, <2>3, <2>4 DEF TypeOK, TraceTypes, RunTypes
  <1>2. QED
    BY <1>1, FeedInvCorrect, PTL

(* Whatever the sizes of the queue and of inputToPipeline, the micro-      *)
(* operations of a kernel reach the pipeline in the order of its stream,   *)
(* none twice: what is put aside goes in before anything that follows.     *)
THEOREM FedInOrderCorrect == Spec => []FedInOrder
  <1>1. FeedInv => FedInOrder
    BY DEF FeedInv
  <1>2. QED
    BY <1>1, FeedInvCorrect, PTL

-----------------------------------------------------------------------------
(* The blocks of a core.  The file of core c is given the blocks with the  *)
(* remainder c, of those below m that the tracer has written.              *)

Own(c, m) == {b \in 0 .. m - 1 : b % MAX_THREADS = c}

(* Quotient and remainder.                                                 *)
LEMMA DivMod ==
  ASSUME NEW n \in Nat \ {0}, NEW x \in Int
  PROVE  x \div n \in Int /\ x % n \in 0 .. n - 1 /\ x = n * (x \div n) + (x % n)
  OBVIOUS

(* A multiple of the divisor changes no remainder.                         *)
LEMMA ModMultiple ==
  ASSUME NEW n \in Nat \ {0}, NEW q \in Int, NEW r \in 0 .. n - 1
  PROVE  (n * q + r) % n = r /\ (n * q + r) \div n = q
  OBVIOUS

(* The number of numbers with a remainder.                                 *)
LEMMA BelowCount ==
  ASSUME NEW n \in Nat \ {0}, NEW q \in Nat, NEW r \in 0 .. n - 1,
         NEW p \in Nat, NEW c \in 0 .. n - 1
  PROVE  n * p + c < n * q + r <=> p < q + (IF c < r THEN 1 ELSE 0)
  <1>1. n * p \in Nat /\ n * q \in Nat
    OBVIOUS
  <1>2. CASE p < q
    <2>1. n * (p + 1) <= n * q /\ n * (p + 1) = n * p + n
      BY <1>2
    <2>2. QED
      BY <1>1, <1>2, <2>1
  <1>3. CASE p = q
    BY <1>1, <1>3
  <1>4. CASE p > q
    <2>1. n * (q + 1) <= n * p /\ n * (q + 1) = n * q + n
      BY <1>4
    <2>2. QED
      BY <1>1, <1>4, <2>1
  <1>5. QED
    BY <1>2, <1>3, <1>4

(* The share that initialize() computes for a core is the number of its    *)
(* blocks.                                                                 *)
LEMMA ShareCounts ==
  ASSUME NEW c \in Cores, NEW k, totalBlocks(k) \in Nat
  PROVE  IsFiniteSet(Own(c, totalBlocks(k))) /\ Cardinality(Own(c, totalBlocks(k))) = Share(c, k)
  <1> DEFINE n == MAX_THREADS
             t == totalBlocks(k)
             q == t \div n
             r == t % n
             s == q + (IF c < r THEN 1 ELSE 0)
             f == [j \in 1 .. s |-> n * (j - 1) + c]
             B == Own(c, totalBlocks(k))
  <1>1. n \in Nat \ {0} /\ t \in Nat /\ c \in 0 .. n - 1
    BY TraceAssumption DEF Cores
  <1>2. q \in Int /\ r \in 0 .. n - 1 /\ t = n * q + r
    <2> HIDE DEF t, n
    <2>1. QED
      BY <1>1, DivMod
  <1> HIDE DEF q, r
  <1>3. q \in Nat
    <2>1. CASE q < 0
      <3>1. n * q <= n * (-1) /\ n * (-1) = -n
        BY <1>1, <1>2, <2>1
      <3>2. n * q \in Int
        BY <1>1, <1>2
      <3> HIDE DEF t, n
      <3>3. QED
        BY <1>1, <1>2, <3>1, <3>2
    <2>2. QED
      BY <1>2, <2>1
  <1>4. s \in Nat
    BY <1>2, <1>3
  <1>5. s = Share(c, k)
    BY DEF Share, q, r
  <1> HIDE DEF t, n, s
  <1>6. \A p \in Nat : n * p + c < t <=> p < s
    BY <1>1, <1>2, <1>3, BelowCount DEF s
  <1>7. \A p \in Nat : n * p + c \in Nat /\ (n * p + c) % n = c /\ (n * p + c) \div n = p
    BY <1>1, ModMultiple
  <1>8. \A b : b \in B <=> b \in Nat /\ b < t /\ b % n = c
    BY <1>1 DEF Own, t, n
  <1> HIDE DEF B
  <1>9. ASSUME NEW j \in 1 .. s
        PROVE  j - 1 \in Nat /\ f[j] = n * (j - 1) + c /\ f[j] \in B /\ f[j] \div n = j - 1
    <2>1. j - 1 \in Nat /\ j - 1 < s /\ f[j] = n * (j - 1) + c
      BY <1>4
    <2> DEFINE p == j - 1
    <2> HIDE DEF p, f
    <2>2. p \in Nat /\ p < s /\ f[j] = n * p + c
      BY <2>1 DEF p
    <2>3. f[j] \in B /\ f[j] \div n = p
      BY <1>6, <1>7, <1>8, <2>2
    <2>4. QED
      BY <2>1, <2>3 DEF p
  <1>10. f \in [1 .. s -> B]
    BY <1>9
  <1>11. \A i, j \in 1 .. s : f[i] = f[j] => i = j
    <2> HIDE DEF f
    <2>1. QED
      BY <1>4, <1>9
  <1>12. ASSUME NEW b \in B PROVE \E j \in 1 .. s : f[j] = b
    <2> DEFINE p == b \div n
    <2>1. b \in Nat /\ p \in Int /\ b = n * p + c /\ b < t
      <3>1. b \in Nat /\ b < t /\ b % n = c
        BY <1>8
      <3>2. p \in Int /\ b = n * p + (b % n)
        BY <1>1, <3>1, DivMod
      <3>3. QED
        BY <3>1, <3>2
    <2> HIDE DEF p
    <2>2. p \in Nat
      <3>1. CASE p < 0
        <4>1. n * p <= n * (-1) /\ n * (-1) = -n
          BY <1>1, <2>1, <3>1
        <4>2. n * p \in Int
          BY <1>1, <2>1
        <4>3. QED
          BY <1>1, <2>1, <4>1, <4>2
      <3>2. QED
        BY <2>1, <3>1
    <2>3. p < s /\ p + 1 \in 1 .. s
      BY <1>4, <1>6, <2>1, <2>2
    <2>4. f[p + 1] = n * ((p + 1) - 1) + c /\ (p + 1) - 1 = p
      BY <2>2, <2>3
    <2>5. QED
      BY <2>1, <2>3, <2>4
  <1>13. f \in Bijection(1 .. s, B)
    <2> HIDE DEF f
    <2>1. QED
      BY <1>10, <1>11, <1>12 DEF Bijection, Injection, Surjection, IsInjective
  <1>14. IsFiniteSet(1 .. s) /\ Cardinality(1 .. s) = s
    BY <1>4, FS_Interval, SMTT(60)
  <1>15. QED
    BY <1>5, <1>13, <1>14, FS_Bijection DEF ExistsBijection, B

(* A block more: it is the next file's, and no other's.                    *)
LEMMA OwnNext ==
  ASSUME NEW c \in Cores, NEW m \in Nat
  PROVE  /\ IsFiniteSet(Own(c, m)) /\ Cardinality(Own(c, m)) \in Nat
         /\ m % MAX_THREADS = c => /\ Own(c, m + 1) = Own(c, m) \cup {m}
                                   /\ Cardinality(Own(c, m + 1)) = Cardinality(Own(c, m)) + 1
         /\ m % MAX_THREADS # c => Own(c, m + 1) = Own(c, m)
  <1>1. IsFiniteSet(Own(c, m)) /\ Cardinality(Own(c, m)) \in Nat
    <2>1. IsFiniteSet(0 .. m - 1)
      <3>1. 0 \in Int /\ m - 1 \in Int
        OBVIOUS
      <3>2. QED
        BY <3>1, FS_Interval
    <2>2. Own(c, m) \subseteq 0 .. m - 1
      BY DEF Own
    <2>3. QED
      BY <2>1, <2>2, FS_Subset, FS_CardinalityType
  <1>2. \A b : b \in 0 .. (m + 1) - 1 <=> b \in 0 .. m - 1 \/ b = m
    OBVIOUS
  <1>3. m \notin Own(c, m)
    BY DEF Own
  <1>4. m % MAX_THREADS = c => Own(c, m + 1) = Own(c, m) \cup {m}
    <2>1. \A b : b \in Own(c, m + 1) <=> b \in 0 .. (m + 1) - 1 /\ b % MAX_THREADS = c
      BY DEF Own
    <2>2. \A b : b \in Own(c, m) <=> b \in 0 .. m - 1 /\ b % MAX_THREADS = c
      BY DEF Own
    <2>3. QED
      BY <1>2, <2>1, <2>2
  <1>5. m % MAX_THREADS # c => Own(c, m + 1) = Own(c, m)
    <2>1. \A b : b \in Own(c, m + 1) <=> b \in 0 .. (m + 1) - 1 /\ b % MAX_THREADS = c
      BY DEF Own
    <2>2. \A b : b \in Own(c, m) <=> b \in 0 .. m - 1 /\ b % MAX_THREADS = c
      BY DEF Own
    <2>3. QED
      BY <1>2, <2>1, <2>2
  <1>6. Cardinality(Own(c, m) \cup {m}) = Cardinality(Own(c, m)) + 1
    BY <1>1, <1>3, FS_AddElement
  <1>7. QED
    BY <1>1, <1>4, <1>5, <1>6

(* The ends of blocks among the first n lines of s.                        *)
Ends(s, n) == {l \in 1 .. n : s[l].kind = "end"}

(* A line more.                                                            *)
LEMMA EndsNext ==
  ASSUME NEW s, NEW n \in Nat
  PROVE  /\ IsFiniteSet(Ends(s, n)) /\ Cardinality(Ends(s, n)) \in Nat
         /\ s[n + 1].kind = "end" => Cardinality(Ends(s, n + 1)) = Cardinality(Ends(s, n)) + 1
         /\ s[n + 1].kind # "end" => Ends(s, n + 1) = Ends(s, n)
  <1>1. IsFiniteSet(Ends(s, n)) /\ Cardinality(Ends(s, n)) \in Nat
    <2>1. IsFiniteSet(1 .. n)
      BY FS_Interval
    <2>2. Ends(s, n) \subseteq 1 .. n
      BY DEF Ends
    <2>3. QED
      BY <2>1, <2>2, FS_Subset, FS_CardinalityType
  <1>2. \A l : l \in 1 .. n + 1 <=> l \in 1 .. n \/ l = n + 1
    OBVIOUS
  <1>3. n + 1 \notin Ends(s, n)
    BY DEF Ends
  <1>4. /\ \A l : l \in Ends(s, n + 1) <=> l \in 1 .. n + 1 /\ s[l].kind = "end"
        /\ \A l : l \in Ends(s, n) <=> l \in 1 .. n /\ s[l].kind = "end"
    BY DEF Ends
  <1>5. s[n + 1].kind = "end" => Ends(s, n + 1) = Ends(s, n) \cup {n + 1}
    BY <1>2, <1>4
  <1>6. s[n + 1].kind # "end" => Ends(s, n + 1) = Ends(s, n)
    BY <1>2, <1>4
  <1>7. Cardinality(Ends(s, n) \cup {n + 1}) = Cardinality(Ends(s, n)) + 1
    BY <1>1, <1>3, FS_AddElement
  <1>8. QED
    BY <1>1, <1>5, <1>6, <1>7

(* The stream s of core c has the blocks below m that are its own, each    *)
(* whole and followed by its end.                                          *)
Dealt(s, c, m) ==
  /\ Len(s) > 1 => s[Len(s)].kind = "end"
  /\ \A l \in 1 .. Len(s) : s[l].kind = "ins" => s[l].block \in Own(c, m)
  /\ \A b \in Own(c, m) : \E l \in 1 .. Len(s) : s[l].kind = "ins" /\ s[l].block = b
  /\ Cardinality(Ends(s, Len(s))) = Cardinality(Own(c, m))
  /\ \A l \in 1 .. Len(s) - 1 :
       s[l].kind = "ins" /\ s[l + 1].kind = "ins" => s[l].block = s[l + 1].block

(* The start of a kernel alone.                                            *)
LEMMA DealtStart ==
  ASSUME NEW c, NEW e, e.kind = "kernel"
  PROVE  Dealt(<<e>>, c, 0)
  <1>1. Own(c, 0) = {}
    <2>1. 0 .. 0 - 1 = {}
      OBVIOUS
    <2>2. QED
      BY <2>1 DEF Own
  <1> DEFINE s == <<e>>
  <1>2. Len(s) = 1 /\ s[1] = e
    OBVIOUS
  <1> HIDE DEF s
  <1>3. Ends(s, Len(s)) = {}
    <2>1. \A l \in 1 .. 1 : l = 1
      OBVIOUS
    <2>2. QED
      BY <1>2, <2>1 DEF Ends
  <1>4. \A l \in 1 .. Len(s) : s[l].kind # "ins"
    BY <1>2
  <1>5. ~(Len(s) > 1) /\ \A l \in 1 .. Len(s) - 1 : l \in 1 .. Len(s)
    BY <1>2
  <1>6. Dealt(s, c, 0)
    BY <1>1, <1>3, <1>4, <1>5 DEF Dealt
  <1>7. QED
    BY <1>6 DEF s

(* The next block is written to the stream of its core.                    *)
LEMMA DealtConcat ==
  ASSUME NEW c \in Cores, NEW m \in Nat, m % MAX_THREADS = c,
         NEW s \in Seq(Lines), Len(s) > 0, s[1].kind = "kernel", Dealt(s, c, m),
         NEW u \in Seq(Lines), Len(u) > 0,
         \A l \in 1 .. Len(u) : u[l].kind = "ins" /\ u[l].block = m
  PROVE  Dealt(s \o Append(u, BlockEnd), c, m + 1)
  <1> DEFINE t == Append(u, BlockEnd)
             r == s \o t
             n == Len(s)
             k == Len(u)
  <1>1. n \in Nat \ {0} /\ k \in Nat \ {0}
    OBVIOUS
  <1>2. /\ t \in Seq(Lines) /\ Len(t) = k + 1 /\ t[k + 1] = BlockEnd
        /\ \A l \in 1 .. k : t[l] = u[l]
    BY LineTypes, AppendProperties
  <1> HIDE DEF t
  <1>3. /\ Len(r) = n + Len(t)
        /\ \A l \in 1 .. n + Len(t) : r[l] = IF l <= n THEN s[l] ELSE t[l - n]
    <2>1. t \in Seq(Lines)
      BY <1>2
    <2>2. /\ Len(s \o t) = Len(s) + Len(t)
          /\ \A l \in 1 .. Len(s) + Len(t) : (s \o t)[l] = IF l <= Len(s) THEN s[l] ELSE t[l - Len(s)]
      BY <2>1, ConcatProperties
    <2>3. QED
      BY <2>2
  <1>4. /\ Len(s) > 1 => s[Len(s)].kind = "end"
        /\ \A l \in 1 .. n : s[l].kind = "ins" => s[l].block \in Own(c, m)
        /\ \A b \in Own(c, m) : \E l \in 1 .. n : s[l].kind = "ins" /\ s[l].block = b
        /\ Cardinality(Ends(s, n)) = Cardinality(Own(c, m))
        /\ \A l \in 1 .. n - 1 :
             s[l].kind = "ins" /\ s[l + 1].kind = "ins" => s[l].block = s[l + 1].block
    BY DEF Dealt
  <1>5. s[n].kind # "ins"
    <2>1. CASE n = 1
      BY <2>1
    <2>2. CASE n # 1
      BY <1>1, <1>4, <2>2
    <2>3. QED
      BY <2>1, <2>2
  <1>6. \A l \in 1 .. k : u[l].kind = "ins" /\ u[l].block = m
    OBVIOUS
  <1> HIDE DEF n, k, r
  <1>7. \A l \in 1 .. n : l \in 1 .. n + Len(t) /\ l <= n
    BY <1>1, <1>2
  <1>8. \A l \in 1 .. n : r[l] = s[l]
    BY <1>3, <1>7
  <1>9. \A i \in 1 .. k + 1 : n + i \in 1 .. n + Len(t) /\ ~(n + i <= n) /\ (n + i) - n = i
    BY <1>1, <1>2
  <1>10. \A i \in 1 .. k + 1 : r[n + i] = t[i]
    BY <1>3, <1>9
  <1>11. /\ \A i \in 1 .. k : r[n + i].kind = "ins" /\ r[n + i].block = m
         /\ r[n + (k + 1)].kind = "end"
    <2>1. \A i \in 1 .. k : i \in 1 .. k + 1
      BY <1>1
    <2>2. k + 1 \in 1 .. k + 1
      BY <1>1
    <2>3. ASSUME NEW i \in 1 .. k PROVE r[n + i].kind = "ins" /\ r[n + i].block = m
      <3>1. r[n + i] = t[i] /\ t[i] = u[i]
        BY <1>2, <1>10, <2>1
      <3>2. QED
        BY <1>6, <3>1
    <2>4. r[n + (k + 1)].kind = "end"
      <3>1. r[n + (k + 1)] = t[k + 1]
        BY <1>10, <2>2
      <3>2. QED
        BY <1>2, <3>1, LineTypes
    <2>5. QED
      BY <2>3, <2>4
  <1>12. Len(r) = n + (k + 1)
    BY <1>2, <1>3
  <1>13. \A l \in 1 .. n + (k + 1) : l \in 1 .. n \/ (\E i \in 1 .. k + 1 : l = n + i)
    <2> SUFFICES ASSUME NEW l \in 1 .. n + (k + 1), l \notin 1 .. n
                 PROVE  \E i \in 1 .. k + 1 : l = n + i
      OBVIOUS
    <2>1. l - n \in 1 .. k + 1 /\ l = n + (l - n)
      BY <1>1
    <2>2. QED
      BY <2>1
  <1>14. \A i \in 1 .. k + 1 : i \in 1 .. k \/ i = k + 1
    BY <1>1
  <1>15. /\ Own(c, m + 1) = Own(c, m) \cup {m} /\ Cardinality(Own(c, m)) \in Nat
         /\ Cardinality(Own(c, m + 1)) = Cardinality(Own(c, m)) + 1
    BY OwnNext
  <1>16. Len(r) > 1 => r[Len(r)].kind = "end"
    BY <1>11, <1>12
  <1>17. ASSUME NEW l \in 1 .. Len(r), r[l].kind = "ins" PROVE r[l].block \in Own(c, m + 1)
    <2>1. CASE l \in 1 .. n
      BY <1>4, <1>8, <1>15, <1>17, <2>1
    <2>2. ASSUME NEW i \in 1 .. k + 1, l = n + i PROVE r[l].block \in Own(c, m + 1)
      <3>1. i \in 1 .. k
        BY <1>11, <1>14, <1>17, <2>2
      <3>2. QED
        BY <1>11, <1>15, <2>2, <3>1
    <2>3. QED
      BY <1>12, <1>13, <2>1, <2>2
  <1>18. ASSUME NEW b \in Own(c, m + 1)
         PROVE  \E l \in 1 .. Len(r) : r[l].kind = "ins" /\ r[l].block = b
    <2>1. CASE b = m
      <3>1. 1 \in 1 .. k /\ n + 1 \in 1 .. Len(r)
        BY <1>1, <1>12
      <3>2. QED
        BY <1>11, <2>1, <3>1
    <2>2. CASE b \in Own(c, m)
      <3>1. PICK l \in 1 .. n : s[l].kind = "ins" /\ s[l].block = b
        BY <1>4, <2>2
      <3>2. l \in 1 .. Len(r)
        BY <1>1, <1>12
      <3>3. QED
        BY <1>8, <3>1, <3>2
    <2>3. QED
      BY <1>15, <2>1, <2>2
  <1>19. Cardinality(Ends(r, Len(r))) = Cardinality(Own(c, m + 1))
    <2>1. Ends(r, n + k) = Ends(s, n)
      <3>1. \A l \in 1 .. n + k : l \in 1 .. n \/ (\E i \in 1 .. k : l = n + i)
        <4> SUFFICES ASSUME NEW l \in 1 .. n + k, l \notin 1 .. n
                     PROVE  \E i \in 1 .. k : l = n + i
          OBVIOUS
        <4>1. l - n \in 1 .. k /\ l = n + (l - n)
          BY <1>1
        <4>2. QED
          BY <4>1
      <3>2. \A l \in 1 .. n : l \in 1 .. n + k
        BY <1>1
      <3>3. \A l \in 1 .. n + k : r[l].kind = "end" => l \in 1 .. n
        BY <1>11, <3>1
      <3>4. \A l : l \in Ends(r, n + k) <=> l \in 1 .. n + k /\ r[l].kind = "end"
        BY DEF Ends
      <3>5. \A l : l \in Ends(s, n) <=> l \in 1 .. n /\ s[l].kind = "end"
        BY DEF Ends
      <3>6. \A l : l \in Ends(r, n + k) <=> l \in Ends(s, n)
        BY <1>8, <3>2, <3>3, <3>4, <3>5
      <3>7. QED
        BY <3>6
    <2> DEFINE z == n + k
    <2>2. z \in Nat /\ z + 1 = Len(r) /\ n + (k + 1) = z + 1
      BY <1>1, <1>12
    <2>3. r[z + 1].kind = "end"
      BY <1>11, <2>2
    <2>4. Cardinality(Ends(r, z)) = Cardinality(Own(c, m))
      BY <1>4, <2>1
    <2> HIDE DEF z
    <2>5. Cardinality(Ends(r, z + 1)) = Cardinality(Ends(r, z)) + 1
      BY <2>2, <2>3, EndsNext
    <2>6. QED
      BY <1>15, <2>2, <2>4, <2>5
  <1>20. ASSUME NEW l \in 1 .. Len(r) - 1, r[l].kind = "ins", r[l + 1].kind = "ins"
         PROVE  r[l].block = r[l + 1].block
    <2>1. l \in 1 .. n + (k + 1) /\ l + 1 \in 1 .. n + (k + 1) /\ l \in Nat
      BY <1>1, <1>12
    <2>2. CASE l + 1 \in 1 .. n
      <3>1. l \in 1 .. n - 1 /\ l \in 1 .. n
        BY <1>1, <2>1, <2>2
      <3>2. QED
        BY <1>4, <1>8, <1>20, <2>2, <3>1
    <2>3. CASE l \notin 1 .. n
      <3>1. l - n \in 1 .. k + 1 /\ (l - n) + 1 \in 1 .. k + 1 /\ l = n + (l - n) /\ l + 1 = n + ((l - n) + 1)
        BY <1>1, <2>1, <2>3
      <3> DEFINE i == l - n
      <3>2. i \in 1 .. k + 1 /\ i + 1 \in 1 .. k + 1 /\ l = n + i /\ l + 1 = n + (i + 1)
        BY <3>1
      <3> HIDE DEF i
      <3>3. i \in 1 .. k /\ i + 1 \in 1 .. k
        BY <1>11, <1>14, <1>20, <3>2
      <3>4. QED
        BY <1>11, <3>2, <3>3
    <2>4. CASE l \in 1 .. n /\ l + 1 \notin 1 .. n
      <3>1. l = n
        BY <1>1, <2>1, <2>4
      <3>2. QED
        BY <1>5, <1>8, <1>20, <2>4, <3>1
    <2>5. QED
      BY <2>2, <2>3, <2>4
  <1>21. Dealt(r, c, m + 1)
    BY <1>16, <1>17, <1>18, <1>19, <1>20 DEF Dealt
  <1>22. QED
    BY <1>21 DEF r, t

(* The block the tracer is at: the one in temp.txt, or the next one.       *)
Now == IF length > 0 \/ temp = <<>> THEN block ELSE block - 1

(* The streams have the number of their kernel's blocks at the start; the  *)
(* blocks of the earlier kernels, and those below m of the last one, have  *)
(* been dealt out.                                                         *)
StreamsDealt(m) ==
  \A k \in 0 .. launched - 1 : \A c \in Cores :
    /\ Stream(c, k)[1].block = totalBlocks(k)
    /\ k = launched - 1 => totalBlocks(k) = NoBlocks
    /\ Dealt(Stream(c, k), c, IF k = launched - 1 THEN m ELSE totalBlocks(k))

(* temp.txt holds one block, and the blocks before it are in their files.  *)
DealtInv ==
  /\ temp = <<>> => length = 0 /\ ((last_block_id = -1 /\ block = 0) \/ block = NoBlocks)
  /\ temp # <<>> => /\ launched > 0 /\ Now \in 0 .. NoBlocks - 1 /\ last_block_id = CurBlock(Now)
                    /\ \A l \in 1 .. Len(temp) : temp[l].block = Now
  /\ next_file = Now % MAX_THREADS
  /\ StreamsDealt(Now)

(* The streams while the tracer is at work.                                *)
LEMMA StreamShape ==
  ASSUME TraceTypes, NEW c \in Cores, NEW k \in 0 .. launched - 1
  PROVE  Stream(c, k) \in Seq(Lines) /\ Len(Stream(c, k)) > 0 /\ Stream(c, k)[1].kind = "kernel"
  <1> DEFINE f == files[c]
             n == launched
  <1>1. HasKernels(f, n) /\ n \in Nat /\ k \in 0 .. n - 1 /\ Stream(c, k) = Part(f, k)
    BY StreamIsPart, TraceAssumption DEF TraceTypes
  <1> HIDE DEF f, n
  <1>2. /\ Part(f, k) \in Seq(Lines) /\ Len(Part(f, k)) \in Nat \ {0}
        /\ Part(f, k)[1].kind = "kernel"
    BY <1>1, PartShape
  <1>3. Len(Part(f, k)) > 0
    BY <1>2
  <1>4. QED
    BY <1>1, <1>2, <1>3

(* The remainder of the next number.                                       *)
LEMMA NextMod ==
  ASSUME NEW n \in Nat \ {0}, NEW x \in Nat
  PROVE  ((x % n) + 1) % n = (x + 1) % n
  <1> DEFINE q == x \div n
             r == x % n
  <1>1. q \in Int /\ r \in 0 .. n - 1 /\ x = n * q + r
    BY DivMod
  <1> HIDE DEF q, r
  <1>2. CASE r + 1 \in 0 .. n - 1
    <2>1. x + 1 = n * q + (r + 1)
      <3>1. n * q \in Int
        BY <1>1
      <3>2. QED
        BY <1>1, <3>1
    <2>2. (x + 1) % n = r + 1
      BY <1>1, <1>2, <2>1, ModMultiple
    <2>3. (r + 1) % n = r + 1
      BY <1>2
    <2>4. QED
      BY <2>2, <2>3 DEF r
  <1>3. CASE r + 1 = n
    <2>1. x + 1 = n * (q + 1) + 0 /\ q + 1 \in Int /\ 0 \in 0 .. n - 1
      <3>1. n * q \in Int /\ n * (q + 1) = n * q + n
        BY <1>1
      <3>2. QED
        BY <1>1, <1>3, <3>1
    <2>2. (x + 1) % n = 0
      <3> DEFINE p == q + 1
                 z == 0
      <3>1. p \in Int /\ z \in 0 .. n - 1 /\ x + 1 = n * p + z
        BY <2>1
      <3> HIDE DEF p, z
      <3>2. (x + 1) % n = z
        BY <3>1, ModMultiple
      <3>3. QED
        BY <3>2 DEF z
    <2>3. n % n = 0
      OBVIOUS
    <2>4. QED
      BY <1>3, <2>2, <2>3 DEF r
  <1>4. QED
    BY <1>1, <1>2, <1>3

(* The block in temp.txt is given to the next file: it is dealt out.       *)
LEMMA FlushDealt ==
  ASSUME TraceTypes, DealtInv, temp # <<>>, files' = Flushed, NEW CONSTANT m, m = Now
  PROVE  /\ m \in Nat /\ m < NoBlocks /\ NextFile = (m + 1) % MAX_THREADS
         /\ \A k \in 0 .. launched - 1 : \A c \in Cores :
              /\ Stream(c, k)'[1] = Stream(c, k)[1]
              /\ Dealt(Stream(c, k)', c, IF k = launched - 1 THEN m + 1 ELSE totalBlocks(k))
  <1>1. /\ m \in 0 .. NoBlocks - 1 /\ \A l \in 1 .. Len(temp) : temp[l].block = m
        /\ next_file = m % MAX_THREADS /\ StreamsDealt(m)
    BY DEF DealtInv
  <1>2. m \in Nat /\ m < NoBlocks
    BY <1>1, NoBlocksType
  <1>3. NextFile = (m + 1) % MAX_THREADS
    BY <1>1, <1>2, NextMod, TraceAssumption DEF NextFile
  <1>4. temp \in Seq(Lines) /\ Len(temp) > 0 /\ \A l \in 1 .. Len(temp) : temp[l].kind = "ins"
    BY DEF TraceTypes
  <1>5. ASSUME NEW k \in 0 .. launched - 1, NEW c \in Cores
        PROVE  /\ Stream(c, k)'[1] = Stream(c, k)[1]
               /\ Dealt(Stream(c, k)', c, IF k = launched - 1 THEN m + 1 ELSE totalBlocks(k))
    <2> DEFINE s == Stream(c, k)
               t == Append(temp, BlockEnd)
    <2>1. /\ s \in Seq(Lines) /\ Len(s) > 0 /\ s[1].kind = "kernel"
          /\ Dealt(s, c, IF k = launched - 1 THEN m ELSE totalBlocks(k))
      BY <1>1, StreamShape DEF StreamsDealt
    <2>2. Stream(c, k)' = IF c = next_file /\ k = launched - 1 THEN s \o t ELSE s
      BY FlushStreams
    <2> HIDE DEF s
    <2>3. CASE c = next_file /\ k = launched - 1
      <3>1. Dealt(s \o t, c, m + 1)
        BY <1>1, <1>2, <1>4, <2>1, <2>3, DealtConcat
      <3>2. (s \o t)[1] = s[1]
        <4>1. t \in Seq(Lines)
          BY <1>4, LineTypes, AppendProperties
        <4> HIDE DEF t
        <4>2. QED
          BY <2>1, <4>1, ConcatProperties
      <3>3. QED
        BY <2>2, <2>3, <3>1, <3>2 DEF s
    <2>4. CASE c # next_file /\ k = launched - 1
      <3>1. Own(c, m + 1) = Own(c, m)
        BY <1>1, <1>2, <2>4, OwnNext
      <3>2. Dealt(s, c, m + 1)
        BY <2>1, <2>4, <3>1 DEF Dealt
      <3>3. QED
        BY <2>2, <2>4, <3>2 DEF s
    <2>5. CASE k # launched - 1
      BY <2>1, <2>2, <2>5 DEF s
    <2>6. QED
      BY <2>3, <2>4, <2>5
  <1>6. QED
    BY <1>2, <1>3, <1>5

(* A grid whose consecutive blocks have different numbers, or which has    *)
(* one block only: the tracer does not see the blocks of a column of       *)
(* layers change.                                                          *)
BlocksDiffer == \A g \in Grids : g.x * g.y > 1 \/ g.z = 1

(* Consecutive numbers have different remainders.                          *)
LEMMA ModDiffers ==
  ASSUME NEW n \in Nat, n > 1, NEW x \in Nat
  PROVE  x % n # (x + 1) % n
  <1> DEFINE r == x % n
  <1>1. r \in 0 .. n - 1 /\ (r + 1) % n = (x + 1) % n
    <2>1. r \in 0 .. n - 1 /\ n \in Nat \ {0}
      OBVIOUS
    <2>2. ((x % n) + 1) % n = (x + 1) % n
      BY <2>1, NextMod
    <2>3. QED
      BY <2>1, <2>2
  <1> HIDE DEF r
  <1>2. CASE r + 1 \in 0 .. n - 1
    <2>1. (r + 1) % n = r + 1
      BY <1>2
    <2>2. QED
      BY <1>1, <2>1 DEF r
  <1>3. CASE r + 1 = n
    <2>1. n % n = 0
      OBVIOUS
    <2>2. QED
      BY <1>1, <1>3, <2>1 DEF r
  <1>4. QED
    BY <1>1, <1>2, <1>3

(* The tracer has dealt out nothing when it begins.                        *)
LEMMA DealtInit == Init => DealtInv
  <1> SUFFICES ASSUME Init PROVE DealtInv
    OBVIOUS
  <1>1. /\ temp = <<>> /\ length = 0 /\ last_block_id = -1 /\ block = 0 /\ launched = 0 /\ next_file = 0
    BY DEF Init, TraceInit
  <1>2. Now = 0 /\ 0 % MAX_THREADS = 0
    BY <1>1, TraceAssumption DEF Now
  <1>3. 0 .. launched - 1 = {}
    BY <1>1
  <1>4. StreamsDealt(Now)
    BY <1>3 DEF StreamsDealt
  <1>5. QED
    BY <1>1, <1>2, <1>4 DEF DealtInv

(* A kernel is launched.                                                   *)
LEMMA DealtLaunch ==
  ASSUME TraceTypes, DealtInv, NEW g \in Grids, Initialize(g), temp = <<>>
  PROVE  DealtInv'
  <1> DEFINE e == KernelStart(g.x * g.y * g.z)
  <1>1. /\ block = NoBlocks /\ grid' = g /\ launched' = launched + 1 /\ block' = 0 /\ length' = 0
        /\ last_block_id' = -1 /\ next_file' = 0 /\ temp' = <<>>
    BY DEF Initialize
  <1>2. Now' = 0 /\ 0 % MAX_THREADS = 0 /\ Now = block
    BY <1>1, TraceAssumption DEF Now
  <1>3. e.kind = "kernel" /\ e.block = g.x * g.y * g.z /\ NoBlocks' = e.block
    BY <1>1 DEF KernelStart, NoBlocks
  <1>4. launched \in Nat /\ 0 \in Cores
    BY TraceAssumption DEF TraceTypes, Cores
  <1> HIDE DEF e
  <1>5. \A c \in Cores : \A k \in 0 .. launched :
          Stream(c, k)' = IF k = launched THEN <<e>> ELSE Stream(c, k)
    BY LaunchStreams DEF e
  <1>6. ASSUME NEW k \in 0 .. launched, NEW c \in Cores
        PROVE  /\ Stream(c, k)'[1].block = totalBlocks(k)'
               /\ k = launched => totalBlocks(k)' = NoBlocks'
               /\ Dealt(Stream(c, k)', c, IF k = launched THEN 0 ELSE totalBlocks(k)')
    <2>1. totalBlocks(k)' = Stream(0, k)'[1].block
      BY DEF totalBlocks
    <2>2. CASE k = launched
      <3>1. Stream(c, k)' = <<e>> /\ Stream(0, k)' = <<e>> /\ <<e>>[1] = e
        BY <1>4, <1>5, <2>2
      <3>2. Dealt(<<e>>, c, 0)
        BY <1>3, DealtStart
      <3>3. QED
        BY <1>3, <2>1, <2>2, <3>1, <3>2
    <2>3. CASE k # launched
      <3>1. k \in 0 .. launched - 1 /\ Stream(c, k)' = Stream(c, k) /\ Stream(0, k)' = Stream(0, k)
        BY <1>4, <1>5, <2>3
      <3>2. totalBlocks(k)' = totalBlocks(k)
        BY <2>1, <3>1 DEF totalBlocks
      <3>3. /\ Stream(c, k)[1].block = totalBlocks(k)
            /\ k = launched - 1 => totalBlocks(k) = NoBlocks
            /\ Dealt(Stream(c, k), c, IF k = launched - 1 THEN Now ELSE totalBlocks(k))
        BY <3>1 DEF DealtInv, StreamsDealt
      <3>4. Dealt(Stream(c, k), c, totalBlocks(k))
        BY <1>1, <1>2, <3>3
      <3>5. QED
        BY <2>3, <3>1, <3>2, <3>3, <3>4
    <2>4. QED
      BY <2>2, <2>3
  <1>7. StreamsDealt(Now)'
    <2>1. launched' - 1 = launched
      BY <1>1, <1>4
    <2>2. QED
      BY <1>2, <1>6, <2>1 DEF StreamsDealt
  <1>8. QED
    BY <1>1, <1>2, <1>7 DEF DealtInv

(* The streams after a step that writes a block to its file, or nothing.   *)
LEMMA DealtOn ==
  ASSUME TraceTypes, DealtInv, UNCHANGED <<grid, launched>>,
         \/ UNCHANGED <<files, next_file>> /\ Now' = Now
         \/ temp # <<>> /\ files' = Flushed /\ next_file' = NextFile /\ Now' = Now + 1
  PROVE  StreamsDealt(Now)' /\ next_file' = Now' % MAX_THREADS
  <1>1. NoBlocks' = NoBlocks
    BY DEF NoBlocks
  <1>2. next_file = Now % MAX_THREADS /\ StreamsDealt(Now)
    BY DEF DealtInv
  <1>3. CASE UNCHANGED <<files, next_file>> /\ Now' = Now
    <2>1. \A c, k : Stream(c, k)' = Stream(c, k)
      BY <1>3, SameStreams
    <2>2. \A k : totalBlocks(k)' = totalBlocks(k)
      BY <2>1 DEF totalBlocks
    <2>3. QED
      BY <1>1, <1>2, <1>3, <2>1, <2>2 DEF StreamsDealt
  <1>4. CASE temp # <<>> /\ files' = Flushed /\ next_file' = NextFile /\ Now' = Now + 1
    <2>1. PICK m : m = Now
      OBVIOUS
    <2>2. /\ NextFile = (m + 1) % MAX_THREADS
          /\ \A k \in 0 .. launched - 1 : \A c \in Cores :
               /\ Stream(c, k)'[1] = Stream(c, k)[1]
               /\ Dealt(Stream(c, k)', c, IF k = launched - 1 THEN m + 1 ELSE totalBlocks(k))
      BY <1>4, <2>1, FlushDealt
    <2>3. 0 \in Cores
      BY TraceAssumption DEF Cores
    <2>4. \A k \in 0 .. launched - 1 : totalBlocks(k)' = totalBlocks(k)
      BY <2>2, <2>3 DEF totalBlocks
    <2>5. Now' = m + 1
      BY <1>4, <2>1
    <2>6. QED
      BY <1>1, <1>2, <1>4, <2>2, <2>4, <2>5 DEF StreamsDealt
  <1>5. QED
    BY <1>3, <1>4

(* An instruction: of the block in temp.txt, or of the next one.           *)
LEMMA DealtEvent ==
  ASSUME BlocksDiffer, TraceTypes, DealtInv, NEW n, NEW exit \in BOOLEAN, Event(n, exit)
  PROVE  DealtInv'
  <1> DEFINE new == CurBlock(block) # last_block_id
             e == Ins(block, n)
  <1>1. /\ block < NoBlocks /\ UNCHANGED <<grid, launched>> /\ last_block_id' = CurBlock(block)
        /\ IF new /\ last_block_id # -1
           THEN files' = Flushed /\ next_file' = NextFile
           ELSE UNCHANGED <<files, next_file>>
        /\ temp' = IF new THEN <<e>> ELSE Append(temp, e)
        /\ IF exit
           THEN block' = block + 1 /\ length' = 0
           ELSE length' = length + 1 /\ block' = block
    BY DEF Event
  <1>2. /\ block \in Nat /\ NoBlocks \in Nat /\ length \in Nat /\ NoBlocks' = NoBlocks
        /\ launched > 0 /\ launched' > 0 /\ grid \in Grids
        /\ temp \in Seq(Lines)
    <2>1. block \in Nat /\ NoBlocks \in Nat /\ length \in Nat /\ NoBlocks' = NoBlocks
      BY <1>1, NoBlocksType, TraceAssumption DEF TraceTypes, NoBlocks
    <2>2. launched # 0 /\ launched \in Nat
      BY <1>1, <2>1, TraceAssumption DEF TraceTypes
    <2>3. QED
      BY <1>1, <2>1, <2>2 DEF TraceTypes
  <1>3. e.kind = "ins" /\ e.block = block
    BY DEF Ins
  <1>4. CurBlock(block) \in Nat /\ \A b \in Nat : CurBlock(b) \in Nat
    <2>1. grid.x * grid.y \in Nat \ {0}
      BY <1>2, NoBlocksType
    <2>2. \A x \in Nat, m \in Nat \ {0} : x % m \in Nat
      OBVIOUS
    <2>3. QED
      BY <1>2, <2>1, <2>2 DEF CurBlock
  <1>5. \A b : CurBlock(b)' = CurBlock(b)
    BY <1>1 DEF CurBlock
  <1> HIDE DEF e
  <1>6. ASSUME temp' # <<>> PROVE Now' = block
    <2>1. CASE exit
      BY <1>1, <1>2, <1>6, <2>1 DEF Now
    <2>2. CASE ~exit
      <3>1. length' = length + 1 /\ block' = block
        BY <1>1, <2>2
      <3>2. length' > 0
        BY <1>2, <3>1
      <3>3. QED
        BY <3>1, <3>2 DEF Now
    <2>3. QED
      BY <2>1, <2>2
  <1>7. Len(<<e>>) = 1 /\ <<e>>[1] = e /\ <<e>> # <<>> /\ \A l \in 1 .. 1 : l = 1
    OBVIOUS
  <1>8. ASSUME temp' # <<>>, \A l \in 1 .. Len(temp') : temp'[l].block = block,
               \/ UNCHANGED <<files, next_file>> /\ block = Now
               \/ temp # <<>> /\ files' = Flushed /\ next_file' = NextFile /\ block = Now + 1
        PROVE  DealtInv'
    <2>1. Now' = block
      BY <1>6, <1>8
    <2>2. StreamsDealt(Now)' /\ next_file' = Now' % MAX_THREADS
      BY <1>1, <1>8, <2>1, DealtOn
    <2>3. block \in 0 .. NoBlocks - 1
      BY <1>1, <1>2
    <2>4. last_block_id' = CurBlock(Now)'
      BY <1>1, <1>5, <2>1 DEF CurBlock
    <2>5. QED
      BY <1>2, <1>8, <2>1, <2>2, <2>3, <2>4 DEF DealtInv
  <1>9. CASE temp = <<>>
    <2>1. last_block_id = -1 /\ block = 0 /\ Now = block
      BY <1>1, <1>2, <1>9 DEF DealtInv, Now
    <2>2. new /\ temp' = <<e>> /\ UNCHANGED <<files, next_file>>
      BY <1>1, <1>4, <2>1
    <2>3. QED
      BY <1>3, <1>7, <1>8, <2>1, <2>2
  <1>10. CASE temp # <<>> /\ length > 0
    <2>1. Now = block /\ last_block_id = CurBlock(block) /\ \A l \in 1 .. Len(temp) : temp[l].block = block
      BY <1>10 DEF DealtInv, Now
    <2>2. temp' = Append(temp, e) /\ UNCHANGED <<files, next_file>>
      BY <1>1, <2>1
    <2>3. temp' # <<>> /\ \A l \in 1 .. Len(temp') : temp'[l].block = block
      <3>1. /\ Len(temp') = Len(temp) + 1 /\ Len(temp) \in Nat /\ temp'[Len(temp) + 1] = e
            /\ \A l \in 1 .. Len(temp) : temp'[l] = temp[l]
        BY <1>2, <2>2, AppendProperties
      <3>2. \A l \in 1 .. Len(temp') : l = Len(temp) + 1 \/ l \in 1 .. Len(temp)
        BY <3>1
      <3>3. temp' # <<>>
        BY <3>1
      <3>4. QED
        BY <1>3, <2>1, <3>1, <3>2, <3>3
    <2>4. QED
      BY <1>8, <2>1, <2>2, <2>3
  <1>11. CASE temp # <<>> /\ ~(length > 0)
    <2>1. Now = block - 1 /\ last_block_id = CurBlock(block - 1) /\ block - 1 \in Nat
      <3>1. Now = block - 1
        BY <1>11 DEF Now
      <3>2. QED
        BY <1>2, <1>11, <3>1 DEF DealtInv
    <2>2. CurBlock(block) # CurBlock(block - 1)
      <3>1. grid.x * grid.y \in Nat \ {0} /\ grid.z \in Nat
        BY <1>2, NoBlocksType DEF TraceTypes
      <3> DEFINE xy == grid.x * grid.y
                 b == block - 1
      <3>2. xy > 1
        <4>1. CASE grid.z = 1
          <5>1. NoBlocks = xy
            BY <3>1, <4>1 DEF NoBlocks
          <5>2. QED
            BY <1>1, <1>2, <2>1, <3>1, <5>1
        <4>2. QED
          BY <1>2, <4>1 DEF BlocksDiffer
      <3>3. b \in Nat /\ block = b + 1 /\ xy \in Nat
        BY <1>2, <2>1, <3>1
      <3>4. CurBlock(block) = (b + 1) % xy /\ CurBlock(block - 1) = b % xy
        BY <3>3 DEF CurBlock
      <3> HIDE DEF b, xy
      <3>5. QED
        BY <3>2, <3>3, <3>4, ModDiffers
    <2>3. last_block_id # -1
      BY <1>4, <2>1
    <2>4. temp' = <<e>> /\ files' = Flushed /\ next_file' = NextFile
      BY <1>1, <2>1, <2>2, <2>3
    <2>5. block = Now + 1
      BY <1>2, <2>1
    <2>6. QED
      BY <1>3, <1>7, <1>8, <1>11, <2>4, <2>5
  <1>12. QED
    BY <1>9, <1>10, <1>11

(* The last block of a kernel is written.                                  *)
LEMMA DealtFinish ==
  ASSUME TraceTypes, DealtInv, Finish
  PROVE  DealtInv'
  <1>1. /\ launched > 0 /\ block = NoBlocks /\ temp # <<>> /\ files' = Flushed /\ next_file' = NextFile
        /\ temp' = <<>> /\ UNCHANGED <<grid, launched, block, length, last_block_id>>
    BY DEF Finish
  <1>2. block \in Nat /\ length \in Nat /\ NoBlocks' = NoBlocks
    BY <1>1, TraceAssumption DEF TraceTypes, NoBlocks
  <1>3. Now \in 0 .. NoBlocks - 1
    BY <1>1 DEF DealtInv
  <1>4. length = 0 /\ Now = block - 1 /\ Now' = block
    <2>1. length > 0 => Now = block
      BY DEF Now
    <2>2. length = 0
      BY <1>1, <1>2, <1>3, <2>1
    <2>3. QED
      BY <1>1, <2>2 DEF Now
  <1>5. Now' = Now + 1
    BY <1>2, <1>4
  <1>6. StreamsDealt(Now)' /\ next_file' = Now' % MAX_THREADS
    BY <1>1, <1>5, DealtOn
  <1>7. QED
    BY <1>1, <1>2, <1>4, <1>6 DEF DealtInv

(* Nothing is written once the trace is made.                              *)
LEMMA DealtStays ==
  ASSUME TraceTypes, DealtInv, UNCHANGED tracevars
  PROVE  DealtInv'
  <1>1. /\ UNCHANGED <<grid, launched, block, length>> /\ UNCHANGED <<last_block_id, next_file, temp, files>>
    BY DEF tracevars
  <1>2. Now' = Now /\ NoBlocks' = NoBlocks /\ CurBlock(Now)' = CurBlock(Now)
    BY <1>1 DEF Now, NoBlocks, CurBlock
  <1>3. StreamsDealt(Now)' /\ next_file' = Now' % MAX_THREADS
    BY <1>1, <1>2, DealtOn
  <1>4. QED
    BY <1>1, <1>2, <1>3 DEF DealtInv

(* The invariant of the tracer.                                            *)
LEMMA DealtCorrect == Spec => [](BlocksDiffer => DealtInv)
  <1>1. Init => (BlocksDiffer => DealtInv)
    BY DealtInit
  <1>2. FeedInv /\ (BlocksDiffer => DealtInv) /\ [Next]_vars => (BlocksDiffer => DealtInv)'
    <2> SUFFICES ASSUME FeedInv, BlocksDiffer, DealtInv, [Next]_vars
                 PROVE  DealtInv'
      BY DEF BlocksDiffer
    <2>1. TraceTypes
      BY DEF FeedInv
    <2>2. CASE TraceNext
      BY <2>1, <2>2, DealtLaunch, DealtEvent, DealtFinish DEF TraceNext
    <2>3. CASE UNCHANGED tracevars
      BY <2>1, <2>3, DealtStays
    <2>4. TraceNext \/ UNCHANGED tracevars
      BY DEF Next, Trace, Simulate, StartKernel, BeginFetch, FetchPacket, EndFetch, ProcessPacket,
             EndProcess, EndBlock, vars
    <2>5. QED
      BY <2>2, <2>3, <2>4
  <1>3. QED
    BY <1>1, <1>2, FeedInvCorrect, PTL DEF Spec

(* When the trace is made the streams are those run() will look for.       *)
LEMMA StreamsComplete ==
  ASSUME FeedInv, DealtInv, pc # "trace", NEW k \in 0 .. NumKernels - 1, NEW c \in Cores
  PROVE  /\ Dealt(Stream(c, k), c, totalBlocks(k))
         /\ IsFiniteSet(Own(c, totalBlocks(k)))
         /\ Cardinality(Own(c, totalBlocks(k))) = Share(c, k)
  <1>1. TraceTypes /\ TraceDone
    BY DEF FeedInv, RunTypes
  <1>2. launched = NumKernels /\ Now = NoBlocks
    BY <1>1 DEF TraceDone, Now
  <1>3. /\ k = launched - 1 => totalBlocks(k) = NoBlocks
        /\ Dealt(Stream(c, k), c, IF k = launched - 1 THEN Now ELSE totalBlocks(k))
    BY <1>2 DEF DealtInv, StreamsDealt
  <1>4. Dealt(Stream(c, k), c, totalBlocks(k))
    BY <1>2, <1>3
  <1>5. totalBlocks(k) \in Nat
    BY <1>1, StreamTypes
  <1>6. QED
    BY <1>4, <1>5, ShareCounts

(* The tracer and the simulator agree: the stream of every core has as     *)
(* many blocks as run() will look for, and every block of the kernel is    *)
(* whole, in the stream of one core and of no other.                       *)
THEOREM TraceMatchesSharesCorrect ==
  ASSUME BlocksDiffer
  PROVE  Spec => []TraceMatchesShares
  <1>1. FeedInv /\ (BlocksDiffer => DealtInv) => TraceMatchesShares
    <2> SUFFICES ASSUME FeedInv, DealtInv, pc = "kernel", NEW k \in 0 .. NumKernels - 1
                 PROVE  /\ \A c \in Cores :
                             Cardinality({l \in DOMAIN Stream(c, k) : Stream(c, k)[l].kind = "end"}) = Share(c, k)
                        /\ \A b \in 0 .. totalBlocks(k) - 1 :
                             Cardinality({c \in Cores : \E l \in DOMAIN Stream(c, k) :
                                            Stream(c, k)[l].kind = "ins" /\ Stream(c, k)[l].block = b}) = 1
                        /\ \A c \in Cores : \A l \in 2 .. Len(Stream(c, k)) - 1 :
                             Stream(c, k)[l].kind = "ins" /\ Stream(c, k)[l + 1].kind = "ins"
                               => Stream(c, k)[l].block = Stream(c, k)[l + 1].block
      BY DEF TraceMatchesShares
    <2>1. \A c \in Cores :
            /\ Dealt(Stream(c, k), c, totalBlocks(k))
            /\ Cardinality(Own(c, totalBlocks(k))) = Share(c, k)
      BY StreamsComplete
    <2>2. /\ totalBlocks(k) \in Nat
          /\ \A c \in Cores : Stream(c, k) \in Seq(Lines) /\ DOMAIN Stream(c, k) = 1 .. Len(Stream(c, k))
      <3>1. TraceTypes /\ TraceDone
        BY DEF FeedInv, RunTypes
      <3>2. 0 \in Cores
        BY TraceAssumption DEF Cores
      <3>3. \A c \in Cores : Stream(c, k) \in Seq(Lines) /\ totalBlocks(k) \in Nat
        BY <3>1, StreamTypes
      <3>4. QED
        BY <3>2, <3>3
    <2>3. ASSUME NEW c \in Cores
          PROVE  Cardinality({l \in DOMAIN Stream(c, k) : Stream(c, k)[l].kind = "end"}) = Share(c, k)
      <3>1. {l \in DOMAIN Stream(c, k) : Stream(c, k)[l].kind = "end"} = Ends(Stream(c, k), Len(Stream(c, k)))
        BY <2>2 DEF Ends
      <3>2. QED
        BY <2>1, <3>1 DEF Dealt
    <2>4. ASSUME NEW b \in 0 .. totalBlocks(k) - 1
          PROVE  Cardinality({c \in Cores : \E l \in DOMAIN Stream(c, k) :
                                Stream(c, k)[l].kind = "ins" /\ Stream(c, k)[l].block = b}) = 1
      <3> DEFINE Has(c) == \E l \in DOMAIN Stream(c, k) :
                             Stream(c, k)[l].kind = "ins" /\ Stream(c, k)[l].block = b
                 d == b % MAX_THREADS
      <3>1. d \in Cores
        <4>1. \A x \in Int, m \in Nat \ {0} : x % m \in 0 .. m - 1
          OBVIOUS
        <4>2. b \in Int /\ MAX_THREADS \in Nat \ {0}
          BY TraceAssumption
        <4>3. QED
          BY <4>1, <4>2 DEF Cores
      <3>2. \A c \in Cores : b \in Own(c, totalBlocks(k)) <=> c = d
        BY DEF Own
      <3>3. ASSUME NEW c \in Cores PROVE Has(c) <=> c = d
        <4>1. Has(c) => b \in Own(c, totalBlocks(k))
          BY <2>1, <2>2 DEF Dealt
        <4>2. b \in Own(c, totalBlocks(k)) => Has(c)
          BY <2>1, <2>2 DEF Dealt
        <4>3. QED
          BY <3>2, <4>1, <4>2
      <3> HIDE DEF Has, d
      <3>4. {c \in Cores : Has(c)} = {d}
        BY <3>1, <3>3
      <3>5. Cardinality({d}) = 1
        BY FS_Singleton
      <3>6. QED
        BY <3>4, <3>5 DEF Has
    <2>5. ASSUME NEW c \in Cores, NEW l \in 2 .. Len(Stream(c, k)) - 1,
                 Stream(c, k)[l].kind = "ins", Stream(c, k)[l + 1].kind = "ins"
          PROVE  Stream(c, k)[l].block = Stream(c, k)[l + 1].block
      <3>1. l \in 1 .. Len(Stream(c, k)) - 1
        <4>1. Len(Stream(c, k)) \in Nat
          BY <2>2
        <4>2. QED
          BY <4>1
      <3>2. QED
        BY <2>1, <2>5, <3>1 DEF Dealt
    <2>6. QED
      BY <2>3, <2>4, <2>5
  <1>2. QED
    BY <1>1, FeedInvCorrect, DealtCorrect, PTL

-----------------------------------------------------------------------------
(* What a kernel has fed.                                                  *)

(* The micro-operations of item l are in inputToPipeline.                  *)
Fed(l) ==
  \A i \in 1 .. TheStream[l].ops :
    \E j \in 1 .. Len(inputToPipeline) : inputToPipeline[j] = <<l, i>>

(* Every item taken is fed, but the one that waits for the next and the    *)
(* last of each block; the ends of blocks taken are those of the blocks    *)
(* before this one.                                                        *)
WholeInv ==
  /\ Room /\ outstanding = <<>> =>
       \A l \in 1 .. Taken - 1 : TheStream[l + 1].kind # "end" => Fed(l)
  /\ isFirstPacket => Taken = 0 \/ TheStream[Taken].ops = 0
  /\ Cardinality(Ends(TheStream, Taken)) = currBlock + (IF blockEndSeen THEN 1 ELSE 0)

(* Nothing is taken from the queue or fed.                                 *)
LEMMA WholeStays ==
  ASSUME WholeInv, Taken' = Taken, TheStream' = TheStream, Room' = Room,
         UNCHANGED <<isFirstPacket, currBlock, blockEndSeen, inputToPipeline>>,
         outstanding' = outstanding \/ outstanding = <<>>
  PROVE  WholeInv'
  BY DEF WholeInv, Fed

(* A kernel starts.                                                        *)
LEMMA WholeStart ==
  ASSUME FeedInv, StartKernel, Running'
  PROVE  WholeInv'
  <1>1. pc = "kernel" /\ UNCHANGED blockEndSeen
    BY DEF StartKernel
  <1>2. TOTALBLOCKS' # 0
    BY <1>1 DEF StartKernel, Running
  <1>3. pos' = 0 /\ fromEmulator' = NoPackets /\ currBlock' = 0
    BY <1>2 DEF StartKernel
  <1>4. ~blockEndSeen'
    BY <1>1 DEF FeedInv
  <1>5. Waiting' = <<>> /\ Len(<<>>) = 0
    BY <1>3, NewRing DEF Waiting
  <1>6. Len(Waiting)' = 0
    BY <1>5
  <1>7. Taken' = 0
    BY <1>3, <1>6 DEF Taken
  <1>8. Ends(TheStream', 0) = {} /\ Cardinality({}) = 0
    <2>1. 1 .. 0 = {}
      OBVIOUS
    <2>2. Ends(TheStream', 0) = {}
      BY <2>1 DEF Ends
    <2>3. QED
      BY <2>2, FS_EmptySet
  <1>9. 1 .. 0 - 1 = {}
    OBVIOUS
  <1>10. QED
    BY <1>3, <1>4, <1>7, <1>8, <1>9 DEF WholeInv

(* A block ends.                                                           *)
LEMMA WholeEndBlock ==
  ASSUME FeedInv, WholeInv, EndBlock, Running'
  PROVE  WholeInv'
  <1>1. /\ pc = "pipelines" /\ blockEndSeen' = FALSE
        /\ UNCHANGED <<tracevars, coreid, pos, fromEmulator, inputToPipeline>>
    BY DEF EndBlock, reader
  <1>2. Running /\ KeptInv /\ RunTypes
    BY <1>1 DEF Running, FeedInv
  <1>3. Taken' = Taken /\ SpaceLeft' = SpaceLeft /\ Taken \in Nat /\ Taken <= Len(TheStream)
        /\ Len(TheStream) \in Nat
        /\ \A l \in 1 .. Len(TheStream) : TheStream[l] \in Lines
    BY <1>1, <1>2, RunFacts DEF Taken, Waiting, SpaceLeft
  <1>4. UNCHANGED kernelExecuted
    BY DEF EndBlock, Running
  <1>5. TheStream' = TheStream
    <2>1. UNCHANGED <<tracevars, coreid, kernelExecuted>>
      BY <1>1, <1>4
    <2>2. QED
      BY <2>1, StreamStays
  <1>6. CASE ~blockEndSeen
    <2>1. UNCHANGED <<currBlock, isFirstPacket, outstanding>> /\ blockEndSeen' = blockEndSeen
      BY <1>1, <1>2, <1>6 DEF EndBlock, blockState, RunTypes
    <2>2. Room' = Room
      BY <1>3, <2>1 DEF Room
    <2>3. QED
      BY <1>1, <1>3, <1>5, <2>1, <2>2, WholeStays
  <1>7. CASE blockEndSeen
    <2>1. currBlock' = currBlock + 1 /\ currBlock \in Nat
      BY <1>2, <1>7 DEF EndBlock, Running, RunTypes
    <2>2. outstanding = <<>> /\ Room /\ Taken > 0 /\ TheStream[Taken].kind = "end"
      BY <1>2, <1>7 DEF KeptInv, Room
    <2>3. TheStream[Taken].ops = 0
      <3>1. Taken \in 1 .. Len(TheStream)
        BY <1>3, <2>2
      <3>2. QED
        BY <1>3, <2>2, <3>1 DEF Lines
    <2>4. \A l \in 1 .. Taken - 1 : TheStream[l + 1].kind # "end" => Fed(l)
      BY <2>2 DEF WholeInv
    <2>5. \A l : Fed(l)' <=> Fed(l)
      BY <1>1, <1>5 DEF Fed
    <2>6. Cardinality(Ends(TheStream, Taken)) = currBlock + 1
      BY <1>7 DEF WholeInv
    <2>7. Cardinality(Ends(TheStream', Taken')) = currBlock' + (IF blockEndSeen' THEN 1 ELSE 0)
      BY <1>1, <1>3, <1>5, <2>1, <2>6
    <2>8. QED
      BY <1>3, <1>5, <2>3, <2>4, <2>5, <2>7 DEF WholeInv
  <1>8. QED
    BY <1>6, <1>7

(* A turn of fetchManyPackets().                                           *)
LEMMA WholeFetch ==
  ASSUME FeedInv, WholeInv, FetchPacket, Running'
  PROVE  WholeInv'
  <1>1. /\ Running /\ TheStream' = TheStream /\ Room' = Room /\ ~blockEndSeen
        /\ UNCHANGED <<isFirstPacket, currBlock, blockEndSeen, inputToPipeline, outstanding>>
    BY FetchFacts
  <1>2. pc' # "exited"
    BY DEF Running
  <1>3. CASE Taken' = Taken
    BY <1>1, <1>3, WholeStays
  <1>4. CASE Taken = 0 /\ Taken' = 1 /\ TheStream[1].kind = "kernel"
    <2>1. TheStream[1].ops = 0
      <3>1. TheStream[1] \in Lines
        BY <1>1, RunFacts
      <3>2. QED
        BY <1>4, <3>1 DEF Lines
    <2>2. Ends(TheStream, 0 + 1) = Ends(TheStream, 0) /\ 0 + 1 = 1
      BY <1>4, EndsNext
    <2>3. 1 .. 1 - 1 = {}
      OBVIOUS
    <2>4. Cardinality(Ends(TheStream', Taken')) = currBlock' + (IF blockEndSeen' THEN 1 ELSE 0)
      BY <1>1, <1>4, <2>2 DEF WholeInv
    <2>5. QED
      BY <1>1, <1>4, <2>1, <2>3, <2>4 DEF WholeInv
  <1>5. QED
    BY <1>2, <1>3, <1>4, FetchTakes

(* A packet is processed: the packet that was kept is fed.                 *)
LEMMA WholeProcess ==
  ASSUME FeedInv, WholeInv, ProcessPacket, Running'
  PROVE  WholeInv'
  <1> DEFINE d == Taken
             s == inputToPipeline
  <1>1. /\ Running /\ outstanding = <<>> /\ ~blockEndSeen /\ UNCHANGED currBlock
        /\ TheStream' = TheStream /\ Taken' = d + 1 /\ d \in Nat
        /\ d + 1 \in 1 .. Len(TheStream) /\ Arrived.kind = TheStream[d + 1].kind
    BY ProcessTakes
  <1>2. /\ Len(s) \in Nat /\ Len(s') \in Nat /\ Len(s') >= Len(s)
        /\ \A i \in 1 .. Len(s) : s'[i] = s[i]
    <2>1. s' \in Seq(Nat \X Nat) /\ Len(s') >= Len(s) /\ \A i \in 1 .. Len(s) : s'[i] = s[i]
      BY ProcessOrder
    <2>2. Len(s) \in Nat
      BY FedBefore
    <2>3. QED
      BY <2>1, <2>2
  <1>3. SpaceLeft \in Nat /\ SpaceLeft = InputSize - Len(s)
    BY <1>1, RunFacts
  <1>4. pc' # "exited"
    BY DEF Running
  <1>5. blockEndSeen' = (Arrived.kind = "end") /\ isFirstPacket' = FALSE
    <2>1. ~isFirstPacket' => isFirstPacket' = FALSE
      BY <1>4, ProcessTypes DEF RunTypes
    <2>2. QED
      BY <1>4, <2>1, ProcessDoes
  <1>6. Cardinality(Ends(TheStream', Taken')) = currBlock' + (IF blockEndSeen' THEN 1 ELSE 0)
    <2>1. Cardinality(Ends(TheStream, d)) = currBlock /\ currBlock \in Nat
      <3>1. currBlock \in Nat
        BY DEF FeedInv, RunTypes
      <3>2. QED
        BY <1>1, <3>1 DEF WholeInv
    <2>2. /\ TheStream[d + 1].kind = "end" => Cardinality(Ends(TheStream, d + 1)) = currBlock + 1
          /\ TheStream[d + 1].kind # "end" => Cardinality(Ends(TheStream, d + 1)) = currBlock
      BY <1>1, <2>1, EndsNext
    <2> HIDE DEF d
    <2>3. CASE TheStream[d + 1].kind = "end"
      <3>1. blockEndSeen'
        BY <1>1, <1>5, <2>3
      <3>2. QED
        BY <1>1, <2>2, <2>3, <3>1
    <2>4. CASE TheStream[d + 1].kind # "end"
      <3>1. ~blockEndSeen'
        BY <1>1, <1>5, <2>4
      <3>2. QED
        BY <1>1, <2>1, <2>2, <2>4, <3>1
    <2>5. QED
      BY <2>3, <2>4
  <1>7. ASSUME NEW l, Fed(l) PROVE Fed(l)'
    <2> SUFFICES ASSUME NEW i \in 1 .. TheStream[l].ops
                 PROVE  \E j \in 1 .. Len(s') : s'[j] = <<l, i>>
      BY <1>1 DEF Fed
    <2>1. PICK j \in 1 .. Len(s) : s[j] = <<l, i>>
      BY <1>7 DEF Fed
    <2>2. j \in 1 .. Len(s') /\ s'[j] = <<l, i>>
      BY <1>2, <2>1
    <2>3. QED
      BY <2>2
  <1>8. ASSUME ~(Len(Fused(Arrived)) < SpaceLeft), ~isFirstPacket, Arrived.kind # "end",
               outstanding' = Fused(Arrived), UNCHANGED inputToPipeline
        PROVE  ~(Room' /\ outstanding' = <<>>)
    <2>1. outstanding' = <<>> => Len(Fused(Arrived)) = 0
      BY <1>8
    <2>2. SpaceLeft' = SpaceLeft
      BY <1>8 DEF SpaceLeft
    <2>3. ~blockEndSeen'
      BY <1>5, <1>8
    <2>4. QED
      BY <1>3, <1>8, <2>1, <2>2, <2>3 DEF Room
  <1>9. ASSUME Room', outstanding' = <<>>, TheStream[d + 1].kind # "end", NEW l, l = d, l > 0
        PROVE  Fed(l)'
    <2> SUFFICES ASSUME NEW i \in 1 .. TheStream[l].ops
                 PROVE  \E j \in 1 .. Len(s') : s'[j] = <<l, i>>
      BY <1>1 DEF Fed
    <2>1. CASE isFirstPacket
      <3>1. TheStream[l].ops = 0
        BY <1>1, <1>9, <2>1 DEF WholeInv
      <3>2. QED
        BY <3>1
    <2>2. CASE ~isFirstPacket
      <3> DEFINE t == Fused(Arrived)
      <3>1. s' = s \o t
        BY <1>1, <1>4, <1>8, <1>9, <2>2, ProcessDoes
      <3>2. /\ t \in Seq(Nat \X Nat) /\ Len(t) \in Nat /\ i \in 1 .. Len(t)
            /\ t[i] = <<l, i>>
        BY <1>9, <2>2, FusedFacts, SMTT(30)
      <3>3. s \in Seq(Nat \X Nat)
        BY FedBefore
      <3> HIDE DEF t, s, d
      <3> DEFINE n == Len(s)
                 m == Len(t)
      <3>4. /\ Len(s \o t) = n + m
            /\ \A j \in 1 .. n + m : (s \o t)[j] = IF j <= n THEN s[j] ELSE t[j - n]
        BY <3>2, <3>3, ConcatProperties
      <3>5. n \in Nat /\ m \in Nat /\ i \in 1 .. m
        BY <1>2, <3>2
      <3>6. Len(s') = n + m
        BY <3>1, <3>4
      <3> HIDE DEF n, m
      <3>7. n + i \in 1 .. n + m /\ ~(n + i <= n) /\ (n + i) - n = i
        BY <3>5
      <3>8. (s \o t)[n + i] = t[i]
        BY <3>4, <3>7
      <3>9. QED
        BY <3>1, <3>2, <3>6, <3>7, <3>8
    <2>3. QED
      BY <2>1, <2>2
  <1>10. ASSUME Room', outstanding' = <<>> PROVE Room
    <2>1. CASE Arrived.kind = "end"
      <3>1. SpaceLeft # 0
        BY <1>4, <2>1, ProcessDoes
      <3>2. QED
        BY <1>3, <3>1 DEF Room
    <2>2. CASE Arrived.kind # "end"
      <3>1. SpaceLeft' > 0 /\ SpaceLeft' = InputSize - Len(s') /\ InputSize \in Nat
        BY <1>5, <1>10, <2>2, FeedAssumption DEF Room, SpaceLeft
      <3>2. SpaceLeft > 0
        BY <1>2, <1>3, <3>1
      <3>3. QED
        BY <3>2 DEF Room
    <2>3. QED
      BY <2>1, <2>2
  <1>11. ASSUME Room', outstanding' = <<>>, NEW l \in 1 .. Taken' - 1, TheStream'[l + 1].kind # "end"
         PROVE  Fed(l)'
    <2>1. l \in 1 .. d - 1 \/ (l = d /\ d > 0)
      BY <1>1
    <2>2. CASE l \in 1 .. d - 1
      <3>1. Fed(l)
        BY <1>1, <1>10, <1>11, <2>2 DEF WholeInv
      <3>2. QED
        BY <1>7, <3>1
    <2>3. CASE l = d /\ d > 0
      <3>1. TheStream[d + 1].kind # "end"
        BY <1>1, <1>11, <2>3
      <3>2. QED
        BY <1>9, <1>11, <2>3, <3>1
    <2>4. QED
      BY <2>1, <2>2, <2>3
  <1>12. QED
    BY <1>5, <1>6, <1>11 DEF WholeInv

(* The ends of the loops, and the head of one.                             *)
LEMMA WholeLoop ==
  ASSUME FeedInv, WholeInv, BeginFetch \/ EndFetch \/ EndProcess \/ UNCHANGED vars
  PROVE  WholeInv'
  <1>1. CASE BeginFetch
    <2>1. /\ pc = "block" /\ (outstanding # <<>> => Len(outstanding) < SpaceLeft)
          /\ inputToPipeline' = inputToPipeline \o outstanding
          /\ UNCHANGED <<tracevars, feed, pos, fromEmulator, currBlock, isFirstPacket, packetList,
                         blockEndSeen>>
      BY <1>1 DEF BeginFetch
    <2>2. Running /\ KeptInv /\ RunTypes
      BY <2>1 DEF Running, FeedInv
    <2>3. SpaceLeft \in Nat /\ Len(outstanding) \in Nat
      BY <2>2, RunFacts DEF RunTypes
    <2>4. outstanding = <<>>
      BY <2>1, <2>2, <2>3 DEF KeptInv
    <2>5. inputToPipeline' = inputToPipeline
      BY <2>1, <2>2, <2>4 DEF RunTypes
    <2>6. Taken' = Taken /\ TheStream' = TheStream /\ Room' = Room
      BY <2>1, <2>5, LoopSteps
    <2>7. QED
      BY <2>1, <2>4, <2>5, <2>6, WholeStays
  <1>2. CASE EndFetch \/ EndProcess \/ UNCHANGED vars
    <2>1. UNCHANGED <<tracevars, feed, reader, blockState, blockEndSeen, inputToPipeline>>
      BY <1>2 DEF EndFetch, EndProcess, vars
    <2>2. UNCHANGED <<pos, fromEmulator, currBlock, isFirstPacket, packetList, outstanding>>
      BY <2>1 DEF reader, blockState
    <2>3. Taken' = Taken /\ TheStream' = TheStream /\ Room' = Room
      BY <2>1, <2>2, LoopSteps
    <2>4. QED
      BY <2>1, <2>2, <2>3, WholeStays
  <1>3. QED
    BY <1>1, <1>2

(* The invariant holds while run() is at work.                             *)
LEMMA WholeCorrect == Spec => [](Running => WholeInv)
  <1>1. Init => (Running => WholeInv)
    BY DEF Init, Running
  <1>2. FeedInv /\ (Running => WholeInv) /\ [Next]_vars => (Running => WholeInv)'
    <2> SUFFICES ASSUME FeedInv, Running => WholeInv, [Next]_vars, Running'
                 PROVE  WholeInv'
      OBVIOUS
    <2>1. ~Trace /\ \A c \in Cores : ~Simulate(c)
      BY DEF Trace, Simulate, Running
    <2>2. CASE StartKernel
      BY <2>2, WholeStart
    <2>3. CASE BeginFetch \/ FetchPacket \/ EndFetch \/ ProcessPacket \/ EndProcess \/ EndBlock
      <3>1. Running
        BY <2>3 DEF BeginFetch, FetchPacket, EndFetch, ProcessPacket, EndProcess, EndBlock, Running
      <3>2. WholeInv
        BY <3>1
      <3>3. QED
        BY <2>3, <3>2, WholeLoop, WholeFetch, WholeProcess, WholeEndBlock
    <2>4. CASE UNCHANGED vars
      <3>1. Running
        BY <2>4 DEF vars, Running
      <3>2. WholeInv
        BY <3>1
      <3>3. QED
        BY <2>4, <3>2, WholeLoop
    <2>5. QED
      BY <2>1, <2>2, <2>3, <2>4 DEF Next
  <1>3. QED
    BY <1>1, <1>2, FeedInvCorrect, PTL DEF Spec

(* When the last block of a kernel ends the stream has been read to its    *)
(* end, and of every block all instructions but the last, the exit, have   *)
(* reached the pipeline with all their micro-operations; whatever the      *)
(* sizes of the queue and of inputToPipeline.                              *)
THEOREM KernelFedCorrect ==
  ASSUME BlocksDiffer
  PROVE  Spec => []KernelFed
  <1>1. FeedInv /\ (Running => WholeInv) /\ (BlocksDiffer => DealtInv) => KernelFed
    <2> DEFINE S == TheStream
               n == Len(TheStream)
    <2> SUFFICES ASSUME FeedInv, Running => WholeInv, DealtInv, pc = "pipelines", blockEndSeen,
                        currBlock + 1 = TOTALBLOCKS, NEW l \in 1 .. n - 1, S[l + 1].kind # "end",
                        NEW i \in 1 .. S[l].ops
                 PROVE  \E j \in DOMAIN inputToPipeline : inputToPipeline[j] = <<l, i>>
      BY DEF KernelFed, TheStream
    <2>1. Running /\ WholeInv /\ KeptInv /\ ReadInv /\ RunTypes
      BY DEF Running, FeedInv
    <2>2. /\ n \in Nat /\ Taken \in Nat /\ Taken <= n
          /\ \A k \in 1 .. n : S[k].kind = "kernel" <=> k = 1
      BY <2>1, RunFacts
    <2>3. Taken > 0 /\ S[Taken].kind = "end" /\ outstanding = <<>> /\ Room
      BY <2>1 DEF KeptInv, Room
    <2>4. n > 1 /\ n \in 1 .. n
      <3>1. Taken \in 1 .. n /\ S[Taken].kind # "kernel"
        BY <2>2, <2>3
      <3>2. Taken # 1
        BY <2>2, <3>1
      <3> HIDE DEF n
      <3>3. QED
        BY <2>2, <3>1, <3>2
    <2>5. kernelExecuted \in 0 .. NumKernels - 1 /\ coreid \in Cores
      <3>1. kernelExecuted \in Nat /\ kernelExecuted < NumKernels /\ NumKernels \in Nat /\ coreid \in Cores
        BY <2>1, TraceAssumption DEF RunTypes, ReadInv
      <3>2. QED
        BY <3>1
    <2>6. /\ Dealt(S, coreid, totalBlocks(kernelExecuted))
          /\ Cardinality(Own(coreid, totalBlocks(kernelExecuted))) = TOTALBLOCKS
      <3>1. pc # "trace"
        OBVIOUS
      <3>2. /\ Dealt(Stream(coreid, kernelExecuted), coreid, totalBlocks(kernelExecuted))
            /\ Cardinality(Own(coreid, totalBlocks(kernelExecuted))) = Share(coreid, kernelExecuted)
        BY <2>5, <3>1, StreamsComplete
      <3>3. QED
        BY <2>1, <3>2 DEF ReadInv, TheStream
    <2>7. Cardinality(Ends(S, n)) = TOTALBLOCKS /\ n \in Ends(S, n)
      BY <2>4, <2>6 DEF Dealt, Ends
    <2>8. Cardinality(Ends(S, Taken)) = TOTALBLOCKS
      BY <2>1 DEF WholeInv
    <2>9. Ends(S, Taken) \subseteq Ends(S, n)
      <3> HIDE DEF n
      <3>1. \A k \in 1 .. Taken : k \in 1 .. n
        BY <2>2
      <3>2. QED
        BY <3>1 DEF Ends
    <2>10. Ends(S, Taken) = Ends(S, n)
      <3>1. IsFiniteSet(Ends(S, n))
        BY <2>2, EndsNext
      <3>2. QED
        BY <2>7, <2>8, <2>9, <3>1, FS_Subset
    <2>11. Taken = n
      <3>1. n \in 1 .. Taken
        BY <2>7, <2>10 DEF Ends
      <3> HIDE DEF n
      <3>2. QED
        BY <2>2, <3>1
    <2>12. Fed(l)
      BY <2>1, <2>3, <2>11 DEF WholeInv
    <2>13. PICK j \in 1 .. Len(inputToPipeline) : inputToPipeline[j] = <<l, i>>
      BY <2>12 DEF Fed
    <2>14. DOMAIN inputToPipeline = 1 .. Len(inputToPipeline)
      BY <2>1 DEF RunTypes
    <2>15. QED
      BY <2>13, <2>14
  <1>2. QED
    BY <1>1, FeedInvCorrect, WholeCorrect, DealtCorrect, PTL

-----------------------------------------------------------------------------
(* How the program can end in the middle of a kernel.                      *)

(* The program exits where fetchManyPackets() finds no more, or where the  *)
(* marker of a block does not fit; then inputToPipeline is full.           *)
ExitsOnlyWhenFull == pc = "exited" => SpaceLeft = 0

(* While there is space the stream has more for every turn: the last item  *)
(* of it is the end of the last block, and that ends the turns.            *)
LEMMA StreamGoesOn ==
  ASSUME FeedInv, WholeInv, DealtInv, FetchPacket, SpaceLeft > 0
  PROVE  pos < Len(TheStream)
  <1> DEFINE S == TheStream
             n == Len(TheStream)
  <1>1. Running /\ turns # 0 /\ ~blockEndSeen /\ pc # "trace"
    BY FetchFacts
  <1>2. ReadInv /\ RunTypes
    BY <1>1 DEF FeedInv
  <1>3. /\ n \in Nat /\ Taken \in Nat /\ pos = Taken + Len(Waiting) /\ Len(Waiting) \in Nat
        /\ pos <= n
    BY <1>1, <1>2, RunFacts DEF ReadInv
  <1>4. kernelExecuted \in 0 .. NumKernels - 1 /\ coreid \in Cores
    <2>1. kernelExecuted \in Nat /\ kernelExecuted < NumKernels /\ NumKernels \in Nat /\ coreid \in Cores
      BY <1>2, TraceAssumption DEF RunTypes, ReadInv
    <2>2. QED
      BY <2>1
  <1>5. Cardinality(Ends(S, n)) = TOTALBLOCKS
    <2>1. /\ Dealt(Stream(coreid, kernelExecuted), coreid, totalBlocks(kernelExecuted))
          /\ Cardinality(Own(coreid, totalBlocks(kernelExecuted))) = Share(coreid, kernelExecuted)
      BY <1>1, <1>4, StreamsComplete
    <2>2. QED
      BY <1>2, <2>1 DEF ReadInv, TheStream, Dealt
  <1>6. Cardinality(Ends(S, Taken)) = currBlock /\ currBlock \in Nat /\ currBlock < TOTALBLOCKS
    BY <1>1, <1>2 DEF WholeInv, RunTypes, ReadInv
  <1>7. SUFFICES ASSUME pos = n PROVE FALSE
    BY <1>2, <1>3 DEF RunTypes
  <1>8. Ends(S, n) # Ends(S, Taken)
    BY <1>5, <1>6
  <1> HIDE DEF n
  <1>9. PICK l \in 1 .. n : S[l].kind = "end" /\ l \notin 1 .. Taken
    <2>1. \A l \in 1 .. Taken : l \in 1 .. n
      BY <1>3, <1>7
    <2>2. QED
      BY <1>8, <2>1 DEF Ends
  <1> DEFINE j == l - Taken
  <1>10. j \in 1 .. Len(Waiting) /\ l = Taken + j
    BY <1>3, <1>7, <1>9
  <1> HIDE DEF j
  <1>11. Waiting[j].kind = "end"
    <2>1. Waiting[j] = [kind |-> S[Taken + j].kind, at |-> Taken + j]
      BY <1>2, <1>10 DEF ReadInv
    <2>2. S[Taken + j].kind = "end"
      BY <1>9, <1>10
    <2>3. QED
      BY <2>1, <2>2
  <1>12. Room
    BY DEF Room
  <1>13. QED
    BY <1>1, <1>2, <1>10, <1>11, <1>12 DEF ReadInv

(* run() never looks for a block the tracer has not given it: when the     *)
(* program exits in the middle of a kernel, inputToPipeline had no place   *)
(* left.                                                                   *)
THEOREM ExitsOnlyWhenFullCorrect ==
  ASSUME BlocksDiffer
  PROVE  Spec => []ExitsOnlyWhenFull
  <1>1. Init => ExitsOnlyWhenFull
    BY DEF Init, ExitsOnlyWhenFull
  <1>2. FeedInv /\ (Running => WholeInv) /\ (BlocksDiffer => DealtInv) /\ ExitsOnlyWhenFull /\ [Next]_vars
          => ExitsOnlyWhenFull'
    <2> SUFFICES ASSUME FeedInv, Running => WholeInv, DealtInv, ExitsOnlyWhenFull, [Next]_vars,
                        pc' = "exited"
                 PROVE  SpaceLeft' = 0
      BY DEF ExitsOnlyWhenFull
    <2>1. CASE FetchPacket
      <3>1. Running /\ SpaceLeft' = SpaceLeft /\ pc = "fetch"
        BY <2>1, FetchFacts
      <3>2. pos = Len(TheStream)
        BY <2>1, <3>1, FetchFacts
      <3>3. pos \in Nat /\ SpaceLeft \in Nat
        BY <3>1, RunFacts
      <3>4. ~(SpaceLeft > 0)
        BY <2>1, <3>1, <3>2, <3>3, StreamGoesOn
      <3>5. QED
        BY <3>1, <3>3, <3>4
    <2>2. CASE ProcessPacket
      <3>1. pc = "process"
        BY <2>2, ProcessTakes
      <3>2. SpaceLeft = 0 /\ UNCHANGED inputToPipeline
        BY <2>2, <3>1, ProcessDoes
      <3>3. QED
        BY <3>2 DEF SpaceLeft
    <2>3. CASE UNCHANGED vars
      BY <2>3 DEF vars, SpaceLeft, ExitsOnlyWhenFull
    <2>4. CASE Trace
      BY <2>4 DEF Trace, SpaceLeft, ExitsOnlyWhenFull
    <2>5. ~StartKernel /\ ~BeginFetch /\ ~EndFetch /\ ~EndProcess /\ ~EndBlock /\ \A c \in Cores : ~Simulate(c)
      BY DEF StartKernel, BeginFetch, EndFetch, EndProcess, EndBlock, Simulate
    <2>6. QED
      BY <2>1, <2>2, <2>3, <2>4, <2>5 DEF Next
  <1>3. QED
    BY <1>1, <1>2, FeedInvCorrect, WholeCorrect, DealtCorrect, PTL DEF Spec
=============================================================================
