-------------------------- MODULE InstructionFeed ---------------------------
(***************************************************************************)
(* From the tracer's files to inputToPipeline: TraceSimplifier makes a     *)
(* stream for each core and kernel, SimplerFilePacket reads it into the    *)
(* packet queue, run() makes micro-operations of the packets.  One core is *)
(* simulated here; the cores do not depend on each other.  No cycle of the *)
(* pipeline runs while a kernel is fed (FeedRunsNoCycle of SPPipeline).    *)
(***************************************************************************)
EXTENDS Tracegen

CONSTANTS
  ipcCount,   \* size of the packet queue
  InputSize   \* size of inputToPipeline

(* The handler of an instruction adds one micro-operation, and the array   *)
(* outstandingMicroOps has place for 50.                                   *)
ASSUME FeedAssumption ==
  ipcCount \in Nat \ {0} /\ InputSize \in Nat /\ MicroOpCounts \subseteq 0 .. 50

(* Packets and what the stream of a kernel holds: the count of blocks that *)
(* follows TYPE_KERNEL_END is read with it.  at is the place in the stream.*)
Packets == [kind : {"ins", "end"}, at : Nat]
NoPacket == [kind |-> "end", at |-> 0]

VARIABLES
  pc,               \* where run() is
  coreid,
  kernelExecuted,
  TOTALBLOCKS,      \* blocks of the kernel on this core
  pos,              \* items of the stream read
  turns,            \* turns fetchManyPackets() still has
  fromEmulator,     \* the packet queue
  currBlock,
  isFirstPacket,    \* of blockState[currBlock]
  packetList,       \* of blockState[currBlock]
  outstanding,      \* outstandingMicroOps of blockState[currBlock]
  blockEndSeen,
  inputToPipeline   \* micro-operations <<place of the instruction, number>>

blockState == <<currBlock, isFirstPacket, packetList, outstanding>>
reader == <<pos, turns, fromEmulator>>
feed == <<coreid, kernelExecuted, TOTALBLOCKS>>
vars == <<tracevars, pc, feed, reader, blockState, blockEndSeen, inputToPipeline>>

Q == INSTANCE CircularQueue WITH bufferSize <- ipcCount, Elements <- Packets \cup {NoPacket}

NoPackets == [head |-> -1, tail |-> -1, buffer |-> [i \in 0 .. ipcCount - 1 |-> NoPacket]]

Init ==
  /\ TraceInit
  /\ pc = "trace" /\ coreid = 0
  /\ kernelExecuted = 0 /\ TOTALBLOCKS = 0
  /\ pos = 0 /\ turns = 0 /\ fromEmulator = NoPackets
  /\ currBlock = 0 /\ isFirstPacket = TRUE /\ packetList = <<>> /\ outstanding = <<>>
  /\ blockEndSeen = FALSE /\ inputToPipeline = <<>>

-----------------------------------------------------------------------------
(* TraceSimplifier                                                         *)

(* The lines of c.txt that start a kernel. *)
Starts(c) == {l \in DOMAIN files[c] : files[c][l].kind = "kernel"}

(* c_k.txt: the lines from the start of the k-th kernel, counted from 0, to *)
(* the start of the next.                                                   *)
Stream(c, k) ==
  LET first == CHOOSE l \in Starts(c) : Cardinality({m \in Starts(c) : m < l}) = k
      later == {m \in Starts(c) : m > first}
      last  == IF later = {} THEN Len(files[c])
               ELSE (CHOOSE m \in later : \A n \in later : m <= n) - 1
  IN  SubSeq(files[c], first, last)

(* initializeBlocksPerKernel(): the count is taken from core 0's stream. *)
totalBlocks(k) == Stream(0, k)[1].block

(* Slip: the rest of the division goes to nobody. *)
ShareRoundedDown(c, k) == totalBlocks(k) \div MAX_THREADS

(* initialize(): the blocks of kernel k core c will read. *)
Share(c, k) ==
  totalBlocks(k) \div MAX_THREADS + (IF c < totalBlocks(k) % MAX_THREADS THEN 1 ELSE 0)

-----------------------------------------------------------------------------
(* The trace is made first; then a core is simulated. *)
Trace == pc = "trace" /\ TraceNext /\ UNCHANGED <<pc, feed, reader, blockState, blockEndSeen,
                                                  inputToPipeline>>

Simulate(c) ==
  /\ pc = "trace" /\ TraceDone
  /\ coreid' = c
  /\ pc' = "kernel"
  /\ UNCHANGED <<tracevars, kernelExecuted, TOTALBLOCKS, reader, blockState, blockEndSeen,
                 inputToPipeline>>

(* initialize() and the start of run()'s loop: a kernel without blocks for *)
(* this core is skipped, otherwise its stream is opened.                   *)
StartKernel ==
  /\ pc = "kernel" /\ kernelExecuted < NumKernels
  /\ TOTALBLOCKS' = Share(coreid, kernelExecuted)
  /\ inputToPipeline' = <<>>
  /\ IF TOTALBLOCKS' = 0
     THEN /\ kernelExecuted' = kernelExecuted + 1
          /\ UNCHANGED <<pc, reader, blockState>>
     ELSE /\ pc' = "block"
          /\ pos' = 0 /\ fromEmulator' = NoPackets
          /\ currBlock' = 0 /\ isFirstPacket' = TRUE /\ packetList' = <<>> /\ outstanding' = <<>>
          /\ UNCHANGED <<kernelExecuted, turns>>
  /\ UNCHANGED <<tracevars, coreid, blockEndSeen>>

SpaceLeft == InputSize - Len(inputToPipeline)

(* The head of the inner loop: outstanding micro-operations go first; when *)
(* there is no space for them the loop goes round for ever.                *)
BeginFetch ==
  /\ pc = "block"
  /\ outstanding # <<>> => Len(outstanding) < SpaceLeft
  /\ inputToPipeline' = inputToPipeline \o outstanding
  /\ outstanding' = <<>>
  /\ turns' = Q!spaceLeft(fromEmulator)
  /\ pc' = "fetch"
  /\ UNCHANGED <<tracevars, feed, pos, fromEmulator, currBlock, isFirstPacket, packetList,
                 blockEndSeen>>

(* Slip: the loop goes on after the end of a block. *)
TurnsLeftAfterEnd(item) == turns - 1

(* The turns left after an item: the end of a block ends the loop. *)
TurnsLeft(item) == IF item.kind = "end" THEN 0 ELSE turns - 1

(* A turn of fetchManyPackets(): the start of the kernel uses up a turn,   *)
(* an instruction or the end of a block is enqueued.  At the end of the    *)
(* stream the program exits.                                               *)
FetchPacket ==
  /\ pc = "fetch" /\ turns > 0
  /\ LET stream == Stream(coreid, kernelExecuted)
         item   == stream[pos + 1]
     IN  IF pos = Len(stream)
         THEN pc' = "exited" /\ UNCHANGED reader
         ELSE /\ pos' = pos + 1
              /\ turns' = TurnsLeft(item)
              /\ fromEmulator' = IF item.kind = "kernel" THEN fromEmulator
                                 ELSE Q!enqueue(fromEmulator, [kind |-> item.kind, at |-> pos + 1])
              /\ UNCHANGED pc
  /\ UNCHANGED <<tracevars, feed, blockState, blockEndSeen, inputToPipeline>>

(* fetchManyPackets() returns. *)
EndFetch ==
  /\ pc = "fetch" /\ turns = 0
  /\ pc' = IF Q!IsEmpty(fromEmulator) THEN "block" ELSE "process"
  /\ UNCHANGED <<tracevars, feed, reader, blockState, blockEndSeen, inputToPipeline>>

(* The micro-operations of a packet. *)
MicroOps(p) ==
  [i \in 1 .. Stream(coreid, kernelExecuted)[p.at].ops |-> <<p.at, i>>]

(* Slip: the micro-operations are those of the packet that arrives. *)
FusedArrived(p) == outstanding \o (IF p.kind = "ins" THEN MicroOps(p) ELSE <<>>)

(* fuseInstruction(): the micro-operations of the packet kept so far. *)
Fused(p) == outstanding \o MicroOps(packetList[1])

(* Slip: the packets turned into micro-operations stay in the list. *)
KeptAll(p) == Append(packetList, p)

(* The packets of the block that wait for the next one. *)
Kept(p) == <<p>>

(* A packet of the queue, and processPacket(): the end of a block puts its *)
(* marker into the pipeline and makes the block's state that of a new one. *)
(* A packet is kept and turned into micro-operations when the next one     *)
(* comes, so the last of a block never is.                                 *)
ProcessPacket ==
  /\ pc = "process" /\ ~Q!IsEmpty(fromEmulator)
  /\ LET p     == Q!First(fromEmulator)
         ended == p.kind = "end"
         input == IF ended THEN Append(inputToPipeline, <<p.at, 0>>) ELSE inputToPipeline
     IN  /\ fromEmulator' = Q!dequeue(fromEmulator)
         /\ blockEndSeen' = (blockEndSeen \/ ended)
         /\ IF ended /\ SpaceLeft = 0
            THEN pc' = "exited" /\ UNCHANGED <<inputToPipeline, outstanding, packetList, isFirstPacket>>
            ELSE IF isFirstPacket \/ ended
            THEN /\ packetList' = Append(packetList, p)
                 /\ isFirstPacket' = FALSE
                 /\ inputToPipeline' = input
                 /\ UNCHANGED <<outstanding, pc>>
            ELSE LET ops == Fused(p) IN
                 /\ packetList' = Kept(p)
                 /\ IF Len(ops) < SpaceLeft
                    THEN inputToPipeline' = input \o ops /\ outstanding' = <<>> /\ UNCHANGED pc
                    ELSE outstanding' = ops /\ pc' = "pipelines" /\ UNCHANGED inputToPipeline
                 /\ UNCHANGED isFirstPacket
  /\ UNCHANGED <<tracevars, feed, pos, turns, currBlock>>

EndProcess ==
  /\ pc = "process" /\ Q!IsEmpty(fromEmulator)
  /\ pc' = "pipelines"
  /\ UNCHANGED <<tracevars, feed, reader, blockState, blockEndSeen, inputToPipeline>>

(* runPipelines() runs no cycle.  After the end of a block the next one    *)
(* begins; after the last one finishAllPipelines() ends the kernel.        *)
EndBlock ==
  /\ pc = "pipelines"
  /\ blockEndSeen' = FALSE
  /\ IF ~blockEndSeen
     THEN pc' = "block" /\ UNCHANGED <<kernelExecuted, blockState>>
     ELSE IF currBlock + 1 = TOTALBLOCKS
     THEN pc' = "kernel" /\ kernelExecuted' = kernelExecuted + 1 /\ UNCHANGED blockState
     ELSE /\ pc' = "block"
          /\ currBlock' = currBlock + 1
          /\ isFirstPacket' = TRUE /\ packetList' = <<>> /\ outstanding' = <<>>
          /\ UNCHANGED kernelExecuted
  /\ UNCHANGED <<tracevars, coreid, TOTALBLOCKS, reader, inputToPipeline>>

Next ==
  \/ Trace
  \/ \E c \in Cores : Simulate(c)
  \/ StartKernel \/ BeginFetch \/ FetchPacket \/ EndFetch
  \/ ProcessPacket \/ EndProcess \/ EndBlock

Spec == Init /\ [][Next]_vars

(* The program being traced ends, and the runner thread is scheduled. *)
FairSpec == Spec /\ WF_vars(Next)

-----------------------------------------------------------------------------
(* Properties                                                              *)

(* Every variable keeps its range. *)
TypeOK ==
  /\ grid \in [x : Nat, y : Nat, z : Nat] /\ launched \in 0 .. NumKernels
  /\ block \in 0 .. NoBlocks /\ length \in 0 .. MaxLength
  /\ last_block_id \in Nat \cup {-1} /\ next_file \in Cores
  /\ pc \in {"trace", "kernel", "block", "fetch", "process", "pipelines", "exited"}
  /\ coreid \in Cores /\ kernelExecuted \in 0 .. NumKernels /\ TOTALBLOCKS \in Nat
  /\ pos \in Nat /\ turns \in 0 .. ipcCount /\ fromEmulator \in Q!Buffers
  /\ currBlock \in Nat /\ isFirstPacket \in BOOLEAN /\ blockEndSeen \in BOOLEAN
  /\ packetList \in Seq(Packets) /\ Len(packetList) <= 5
  /\ outstanding \in Seq(Nat \X Nat) /\ Len(outstanding) <= 50
  /\ inputToPipeline \in Seq(Nat \X Nat) /\ Len(inputToPipeline) <= InputSize

(* When the trace is complete each file has the blocks run() will look for *)
(* there, and each block is whole, in one file and nowhere else.           *)
TraceMatchesShares ==
  pc = "kernel" /\ kernelExecuted = 0 =>
    \A k \in 0 .. NumKernels - 1 :
      /\ \A c \in Cores :
           Cardinality({l \in DOMAIN Stream(c, k) : Stream(c, k)[l].kind = "end"}) = Share(c, k)
      /\ \A b \in 0 .. totalBlocks(k) - 1 :
           Cardinality({c \in Cores : \E l \in DOMAIN Stream(c, k) :
                          Stream(c, k)[l].kind = "ins" /\ Stream(c, k)[l].block = b}) = 1
      /\ \A c \in Cores : \A l \in 2 .. Len(Stream(c, k)) - 1 :
           Stream(c, k)[l].kind = "ins" /\ Stream(c, k)[l + 1].kind = "ins"
             => Stream(c, k)[l].block = Stream(c, k)[l + 1].block

(* Micro-operations are fed in the order of the trace, none twice. *)
FedInOrder ==
  \A i \in 1 .. Len(inputToPipeline) - 1 :
    \/ inputToPipeline[i][1] < inputToPipeline[i + 1][1]
    \/ /\ inputToPipeline[i][1] = inputToPipeline[i + 1][1]
       /\ inputToPipeline[i + 1][2] = inputToPipeline[i][2] + 1

(* A kernel ends with the micro-operations of all its instructions fed,    *)
(* but for the last of each block, the exit.                               *)
KernelFed ==
  pc = "pipelines" /\ blockEndSeen /\ currBlock + 1 = TOTALBLOCKS =>
    LET stream == Stream(coreid, kernelExecuted) IN
      \A l \in 1 .. Len(stream) - 1 :
        stream[l + 1].kind # "end" =>
          \A i \in 1 .. stream[l].ops : \E j \in DOMAIN inputToPipeline : inputToPipeline[j] = <<l, i>>

(* The packet queue is a bounded sequence: no packet is overwritten. *)
PacketQueue == INSTANCE BoundedQueue
                 WITH queue <- Q!Contents(fromEmulator), Size <- ipcCount
PacketsKept == PacketQueue!Spec

(* The core gets through all kernels, and never reaches the end of a stream. *)
FeedEnds == <>(pc = "kernel" /\ kernelExecuted = NumKernels)
=============================================================================
