------------------------------ MODULE Tracegen ------------------------------
(***************************************************************************)
(* The tracer: Ocelot runs the blocks of a kernel one after the other and  *)
(* calls event() for each instruction; the tracer deals the blocks out to  *)
(* one file for each core.  Of a block's instructions only their number of *)
(* micro-operations matters; the last one is the exit, which has one.      *)
(***************************************************************************)
EXTENDS Integers, Sequences, FiniteSets

CONSTANTS
  MAX_THREADS,    \* files, one for each core
  NumKernels,     \* kernels of the program
  Grids,          \* [x, y, z]: grids of the kernels
  MaxLength,      \* instructions of a block but the exit
  MicroOpCounts   \* numbers of micro-operations of an instruction but the exit

ASSUME TraceAssumption ==
  /\ MAX_THREADS \in Nat \ {0} /\ NumKernels \in Nat
  /\ Grids \subseteq [x : Nat \ {0}, y : Nat \ {0}, z : Nat \ {0}]
  /\ MaxLength \in Nat /\ MicroOpCounts \subseteq Nat

Cores == 0 .. MAX_THREADS - 1
NoBlock == -1

(* Lines of a file: the start of a kernel with its number of blocks, an    *)
(* instruction of a block, the end of a block.                             *)
KernelStart(n) == [kind |-> "kernel", block |-> n, ops |-> 0]
Ins(b, n) == [kind |-> "ins", block |-> b, ops |-> n]
BlockEnd == [kind |-> "end", block |-> NoBlock, ops |-> 0]

VARIABLES
  grid,           \* grid of the kernel that runs
  launched,       \* kernels launched
  block,          \* block that runs, counted through the grid
  length,         \* its instructions so far
  last_block_id,
  next_file,
  temp,           \* temp.txt
  files           \* files[c]: lines of c.txt

tracevars == <<grid, launched, block, length, last_block_id, next_file, temp, files>>

NoBlocks == grid.x * grid.y * grid.z

TraceInit ==
  /\ grid = [x |-> 0, y |-> 0, z |-> 0] /\ launched = 0
  /\ block = 0 /\ length = 0
  /\ last_block_id = -1 /\ next_file = 0
  /\ temp = <<>>
  /\ files = [c \in Cores |-> <<>>]

(* blockId.y * gridDimX + blockId.x: the layers of z have the same numbers. *)
CurBlock(b) == b % (grid.x * grid.y)

(* Slip: a kernel goes on with the file after the last kernel's.           *)
InitializeKeepsFile(g) ==
  /\ launched < NumKernels /\ block = NoBlocks
  /\ grid' = g /\ launched' = launched + 1
  /\ block' = 0 /\ length' = 0
  /\ last_block_id' = -1
  /\ files' = [c \in Cores |-> Append(files[c], KernelStart(g.x * g.y * g.z))]
  /\ UNCHANGED <<next_file, temp>>

(* initialize(): a kernel is launched.                                     *)
Initialize(g) ==
  /\ launched < NumKernels /\ block = NoBlocks
  /\ grid' = g /\ launched' = launched + 1
  /\ block' = 0 /\ length' = 0
  /\ last_block_id' = -1
  /\ next_file' = 0
  /\ files' = [c \in Cores |-> Append(files[c], KernelStart(g.x * g.y * g.z))]
  /\ UNCHANGED temp

(* BlockFini(), and finish(): the block goes to the next file.             *)
Flushed == [files EXCEPT ![next_file] = @ \o Append(temp, BlockEnd)]

(* Slip: the files are not taken round. *)
NextFileOn == next_file + 1

NextFile == (next_file + 1) % MAX_THREADS

(* event() for an instruction of n micro-operations, or for the exit.      *)
(* When the block is another one, BlockFini() and BlockStart(), which      *)
(* truncates temp.txt.                                                     *)
Event(n, exit) ==
  LET new == CurBlock(block) # last_block_id IN
    /\ block < NoBlocks
    /\ exit \/ length < MaxLength
    /\ IF new /\ last_block_id # -1
       THEN files' = Flushed /\ next_file' = NextFile
       ELSE UNCHANGED <<files, next_file>>
    /\ temp' = IF new THEN <<Ins(block, n)>> ELSE Append(temp, Ins(block, n))
    /\ last_block_id' = CurBlock(block)
    /\ IF exit
       THEN block' = block + 1 /\ length' = 0
       ELSE length' = length + 1 /\ UNCHANGED block
    /\ UNCHANGED <<grid, launched>>

(* finish(): the kernel has ended; temp.txt goes to the next file.         *)
Finish ==
  /\ launched > 0 /\ block = NoBlocks /\ temp # <<>>
  /\ files' = Flushed /\ next_file' = NextFile
  /\ temp' = <<>>
  /\ UNCHANGED <<grid, launched, block, length, last_block_id>>

TraceNext ==
  \/ temp = <<>> /\ \E g \in Grids : Initialize(g)
  \/ \E n \in MicroOpCounts : Event(n, FALSE)
  \/ Event(1, TRUE)
  \/ Finish

TraceDone == launched = NumKernels /\ block = NoBlocks /\ temp = <<>>
=============================================================================
