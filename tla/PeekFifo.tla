------------------------------ MODULE PeekFifo ------------------------------
(* fifo/PeekBuffer.sv in front of a Fifo: polls items from the Fifo's read  *)
(* interface, keeps the oldest one on show, and one more behind it to cover *)
(* the cycle the Fifo needs to answer.                                      *)
EXTENDS Fifo

VARIABLES
    peekMem,    \* the item on show (register mem of the PeekBuffer)
    back,       \* the item behind it
    valid,      \* peekMem holds an item
    backed,     \* back holds an item
    polled,     \* an item arrives on pollData this cycle (register writing)
    popped      \* history: the item the last pop took

peekVars == <<peekMem, back, valid, backed, polled, popped>>
vars == <<fifoVars, peekVars>>

pop(readPop) == readPop /\ valid
move(readPop) == (~valid \/ pop(readPop)) /\ backed

(* Mutants: polls while an item is on its way, and only to replace one.     *)
pollGreedy(readPop) == ~valid \/ pop(readPop) \/ ~backed
pollOnPop(readPop) == pop(readPop)
poll(readPop) == ~valid \/ pop(readPop) \/ (~backed /\ ~polled)

readPeek == valid

Init ==
    /\ FifoInit
    /\ peekMem = NoData /\ back = NoData
    /\ valid = FALSE /\ backed = FALSE /\ polled = FALSE
    /\ popped = NoData

(* The registers of the PeekBuffer at a clock edge.  pollData_i is the      *)
(* Fifo's output, pollBusy_i its empty signal.                              *)
PeekEdge(readPop) ==
    /\ peekMem' = IF move(readPop) THEN back
                  ELSE IF polled /\ (~valid \/ pop(readPop)) THEN readData
                  ELSE peekMem
    /\ back'   = IF polled THEN readData ELSE back
    /\ valid'  = (move(readPop) \/ polled \/ (valid /\ ~pop(readPop)))
    /\ backed' = IF move(readPop) /\ ~polled THEN FALSE
                 ELSE IF polled /\ valid /\ ~pop(readPop) THEN TRUE
                 ELSE backed
    /\ polled' = (poll(readPop) /\ ~empty)
    /\ popped' = IF pop(readPop) THEN peekMem ELSE popped

(* One clock edge of both blocks.                                           *)
Edge(readPop) == \E writeEnable \in BOOLEAN, d \in Data :
    /\ FifoEdge(writeEnable, d, poll(readPop))
    /\ PeekEdge(readPop)

(* rst_i, held for at least one clock edge: polled has no reset, but the    *)
(* Fifo is empty while in reset and the next edge clears it.                *)
Reset ==
    /\ FifoReset
    /\ peekMem' = NoData /\ back' = NoData
    /\ valid' = FALSE /\ backed' = FALSE /\ polled' = FALSE
    /\ UNCHANGED popped

Next == (\E readPop \in BOOLEAN : Edge(readPop)) \/ Reset

(* The clock keeps running.                                                 *)
Fairness == WF_vars(\E readPop \in BOOLEAN : Edge(readPop))

Spec == Init /\ [][Next]_vars
FairSpec == Spec /\ Fairness

----------------------------------------------------------------------------

(* Items leave in the order they entered, none lost, none doubled: the ones *)
(* on show, behind it, on the way and still in the Fifo.                    *)
One(present, item) == IF present THEN <<item>> ELSE <<>>
Whole == One(valid, peekMem) \o One(backed, back) \o One(polled, readData) \o Contents

PeekQueue == INSTANCE BoundedQueue WITH
    Item <- Data,
    Capacity <- LENGTH + 2,
    NoItem <- NoData,
    queue <- Whole,
    delivered <- popped
PeekQueueSpec == PeekQueue!Spec

(* A stored item shows up for the reader, unless a reset removes it.        *)
ItemsShowUp == Whole # <<>> ~> readPeek \/ Whole = <<>>
=============================================================================
