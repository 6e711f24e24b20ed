-------------------------------- MODULE Fifo --------------------------------
(* fifo/Fifo.sv: a synchronous queue in a two-port memory.  Pointers into   *)
(* the memory (rds, wrs) are kept apart from pointers that run through the  *)
(* memory twice (rd, wrm); the difference of the latter is the number of    *)
(* free slots.  wrm is always in the opposite half as the write pointer.    *)
EXTENDS Naturals, Sequences

CONSTANTS
    LENGTH,     \* number of slots of the memory
    Data,       \* the items
    NoData      \* what the memory and its output hold before the first write

ASSUME FifoAssumption ==
    /\ LENGTH \in Nat \ {0, 1}
    /\ NoData \notin Data

VARIABLES
    rd,         \* read pointer, runs through real and virtual part
    rds,        \* its shadow, stays in the real part
    wrs,        \* shadow of the write pointer, stays in the real part
    wrm,        \* mirror of the write pointer
    space,      \* number of free slots
    avail,      \* number of occupied slots
    mem,        \* the memory of the BiMemTp instance
    readData    \* its output register

pointers == <<rd, rds, wrs, wrm, space, avail>>
fifoVars == <<pointers, mem, readData>>

(* Pointers and counts have one bit more than the address of LENGTH slots.  *)
DEPTH == CHOOSE d \in 0 .. LENGTH :
             2^d >= LENGTH /\ \A e \in 0 .. LENGTH : 2^e >= LENGTH => d <= e
Modulus == 2^(DEPTH + 1)

(* Subtraction of two numbers below Modulus, in DEPTH + 1 bits.             *)
Minus(a, b) == IF a >= b THEN a - b ELSE (a + Modulus) - b

full  == space = 0
empty == avail = 0

(* Mutants: busy is not looked at.                                          *)
readingAlways(readEnable) == readEnable
writingAlways(writeEnable) == writeEnable

(* "If Busy is set write will be ignored"; likewise for reads.              *)
reading(readEnable)  == readEnable /\ ~empty
writing(writeEnable) == writeEnable /\ ~full

(* The next value of a pointer that runs from 0 to last.                    *)
Moved(pointer, last, move) ==
    IF ~move THEN pointer ELSE IF pointer = last THEN 0 ELSE pointer + 1

rdN(read)   == Moved(rd, 2 * LENGTH - 1, read)
wrmN(write) == Moved(wrm, 2 * LENGTH - 1, write)

FifoInit ==
    /\ rd = 0 /\ rds = 0 /\ wrs = 0 /\ wrm = LENGTH
    /\ space = LENGTH /\ avail = 0
    /\ mem = [i \in 0 .. LENGTH - 1 |-> NoData]
    /\ readData = NoData

(* The memory (memory/register/RegMemTp.sv): a registered read of the old   *)
(* contents.                                                                *)
Memory(read, write, d) ==
    /\ readData' = IF read THEN mem[rds] ELSE readData
    /\ mem' = IF write THEN [mem EXCEPT ![wrs] = d] ELSE mem

(* One clock edge, with the given inputs.                                   *)
FifoEdge(writeEnable, d, readEnable) ==
    LET read  == reading(readEnable)
        write == writing(writeEnable)
    IN  /\ rd'  = rdN(read)
        /\ rds' = Moved(rds, LENGTH - 1, read)
        /\ wrs' = Moved(wrs, LENGTH - 1, write)
        /\ wrm' = wrmN(write)
        /\ space' = Minus(rdN(read), wrmN(write))
        /\ avail' = Minus(LENGTH, Minus(rdN(read), wrmN(write)))
        /\ Memory(read, write, d)

(* rst_i; neither the memory nor its output register has a reset.           *)
FifoReset ==
    /\ rd' = 0 /\ rds' = 0 /\ wrs' = 0 /\ wrm' = LENGTH
    /\ space' = LENGTH /\ avail' = 0
    /\ UNCHANGED <<mem, readData>>

FifoNext ==
    \/ \E writeEnable, readEnable \in BOOLEAN, d \in Data :
           FifoEdge(writeEnable, d, readEnable)
    \/ FifoReset

FifoSpec == FifoInit /\ [][FifoNext]_fifoVars

----------------------------------------------------------------------------

FifoTypeOK ==
    /\ rd \in 0 .. 2 * LENGTH - 1
    /\ rds \in 0 .. LENGTH - 1
    /\ wrs \in 0 .. LENGTH - 1
    /\ wrm \in 0 .. 2 * LENGTH - 1
    /\ space \in 0 .. Modulus - 1
    /\ avail \in 0 .. Modulus - 1
    /\ mem \in [0 .. LENGTH - 1 -> Data \cup {NoData}]
    /\ readData \in Data \cup {NoData}

(* The slots between the mirrored write pointer and the read pointer, on    *)
(* the circle of twice LENGTH positions the pointers run on.                *)
Free == IF rd >= wrm THEN rd - wrm ELSE (rd + 2 * LENGTH) - wrm

(* space_o and avail_o count the free and the occupied slots, so that the   *)
(* queue holds LENGTH items, "number of items that can be stored"           *)
(* (Fifo.sv:23), and neither overwrites nor invents one.                    *)
CountsAreExact ==
    /\ Free <= LENGTH
    /\ space = Free
    /\ avail = LENGTH - Free

(* A pointer and its shadow address the same slot.                          *)
ShadowsAgree ==
    /\ rd = rds \/ rd = rds + LENGTH
    /\ wrm = wrs \/ wrm = wrs + LENGTH

(* The inductive invariant of the queue.                                    *)
FifoInv == FifoTypeOK /\ CountsAreExact /\ ShadowsAgree

(* The queue's contents, oldest first.                                      *)
Slot(i) == IF rds + i > LENGTH THEN (rds + i - 1) - LENGTH ELSE rds + i - 1
Contents == [i \in 1 .. avail |-> mem[Slot(i)]]

(* Every item written while not full comes out once, in order, in the cycle *)
(* after its read.                                                          *)
FifoQueue == INSTANCE BoundedQueue WITH
    Item <- Data,
    Capacity <- LENGTH,
    NoItem <- NoData,
    queue <- Contents,
    delivered <- readData
FifoQueueSpec == FifoQueue!Spec
=============================================================================
