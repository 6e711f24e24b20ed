------------------------------ MODULE CdcStream ------------------------------
(* cdc/CdcStream.sv: a stream of items between two clock domains through a  *)
(* ring of six slots.  Each side owns a position; the positions cross in    *)
(* Gray code through a three bit wide CdcBuffer, the slots cross unguarded  *)
(* through one plain register each.                                         *)
(*                                                                          *)
(* Items are numbers, counted up by the source modulo Items, so that an     *)
(* item taken from the wrong slot is told from the right one: a stale slot  *)
(* holds the item six places earlier, and six is not a multiple of Items.   *)
(*                                                                          *)
(* The ring has six slots, so the code of the position changes in all three *)
(* bits where it wraps (111 to 000), and a position sampled at that moment  *)
(* can be anything from 0 to 7.                                             *)
EXTENDS GreyCode, Sequences

CONSTANTS
    Items,          \* the source numbers its items modulo Items
    Mixed,          \* an item sampled while some of its bits were changing
    Unset           \* what a slot holds before it is first written

ASSUME StreamAssumption ==
    /\ Items \in Nat \ {0}
    /\ 6 % Items # 0
    /\ Mixed \notin 0 .. Items - 1
    /\ Unset \notin 0 .. Items - 1

VARIABLES
    srcWritePos,    \* next slot to write
    writePosPipe,   \* its code on the way to the destination
    dstReadPos,     \* next slot to read
    readPosPipe,    \* its code on the way to the source
    srcBuffer,      \* the slots in the source domain
    dstBuffer,      \* their copies in the destination domain
    nextItem,       \* the item the source has on srcData_i
    delivered       \* history: the item the last destination cycle delivered

vars == <<srcWritePos, writePosPipe, dstReadPos, readPosPipe,
          srcBuffer, dstBuffer, nextItem, delivered>>

Slots == 6
Pos == 0 .. Slots - 1

PlusOne(pos) == IF pos = 5 THEN 0 ELSE pos + 1

srcReadPos  == Decode(readPosPipe.dst)

dstWritePos == Decode(writePosPipe.dst)

(* Mutant: the source does not check for a full ring.                       *)
srcActiveUnchecked(valid) == valid

srcActive(valid) == valid /\ PlusOne(srcWritePos) # srcReadPos
dstActive(stall) == ~stall /\ dstReadPos # dstWritePos

dstData == dstBuffer[dstReadPos]

Init ==
    /\ srcWritePos = 0
    /\ writePosPipe = Cleared(Encode(0))
    /\ dstReadPos = 0
    /\ readPosPipe = Cleared(Encode(0))
    /\ srcBuffer = [i \in Pos |-> Unset]
    /\ dstBuffer = [i \in Pos |-> Unset]
    /\ nextItem = 0
    /\ delivered = Unset

(* What the other domain may sample of a position around the edge that      *)
(* changes it.                                                              *)
Sampled(old, new) == Settled(Encode(old), Encode(new))

(* Mutant: the position of the destination does not come back.              *)
SrcFlopsStuck(active, seenReadPos) ==
    /\ srcWritePos' = IF active THEN PlusOne(srcWritePos) ELSE srcWritePos
    /\ readPosPipe' = readPosPipe
    /\ srcBuffer' = IF active THEN [srcBuffer EXCEPT ![srcWritePos] = nextItem]
                              ELSE srcBuffer
    /\ nextItem' = IF active THEN (nextItem + 1) % Items ELSE nextItem

(* The flipflops clocked by srcClk_i.                                       *)
SrcFlops(active, seenReadPos) ==
    /\ srcWritePos' = IF active THEN PlusOne(srcWritePos) ELSE srcWritePos
    /\ readPosPipe' = Shift(readPosPipe, seenReadPos)
    /\ srcBuffer' = IF active THEN [srcBuffer EXCEPT ![srcWritePos] = nextItem]
                              ELSE srcBuffer
    /\ nextItem' = IF active THEN (nextItem + 1) % Items ELSE nextItem

(* The flipflops clocked by dstClk_i.                                       *)
DstFlops(active, seenWritePos, seenBuffer) ==
    /\ dstReadPos' = IF active THEN PlusOne(dstReadPos) ELSE dstReadPos
    /\ writePosPipe' = Shift(writePosPipe, seenWritePos)
    /\ dstBuffer' = seenBuffer
    /\ delivered' = IF active THEN dstData ELSE delivered

SrcEdge == \E valid \in BOOLEAN :
    /\ SrcFlops(srcActive(valid), Encode(dstReadPos))
    /\ UNCHANGED <<dstReadPos, writePosPipe, dstBuffer, delivered>>

DstEdge(stall) ==
    /\ DstFlops(dstActive(stall), Encode(srcWritePos), srcBuffer)
    /\ UNCHANGED <<srcWritePos, readPosPipe, srcBuffer, nextItem>>

(* Coinciding edges: positions and the slot written change while the other  *)
(* domain samples them.                                                     *)
BothEdges(stall) == \E valid \in BOOLEAN :
    LET write == srcActive(valid)
        read  == dstActive(stall)
        seenSlots == IF write THEN {srcBuffer[srcWritePos], nextItem, Mixed}
                              ELSE {srcBuffer[srcWritePos]}
    IN  \E seenReadPos  \in (IF read  THEN Sampled(dstReadPos, PlusOne(dstReadPos))
                                      ELSE {Encode(dstReadPos)}),
           seenWritePos \in (IF write THEN Sampled(srcWritePos, PlusOne(srcWritePos))
                                      ELSE {Encode(srcWritePos)}),
           seenSlot \in seenSlots :
            /\ SrcFlops(write, seenReadPos)
            /\ DstFlops(read, seenWritePos, [srcBuffer EXCEPT ![srcWritePos] = seenSlot])

(* Both resets together.  The slots have no reset and keep their items; the *)
(* source starts to count again.                                            *)
Reset ==
    /\ srcWritePos' = 0
    /\ writePosPipe' = Cleared(Encode(0))
    /\ dstReadPos' = 0
    /\ readPosPipe' = Cleared(Encode(0))
    /\ nextItem' = 0
    /\ UNCHANGED <<srcBuffer, dstBuffer, delivered>>

Next ==
    \/ SrcEdge
    \/ \E stall \in BOOLEAN : DstEdge(stall) \/ BothEdges(stall)
    \/ Reset

(* Both clocks keep running and the reader does not stall for ever.         *)
Fairness ==
    /\ WF_vars(SrcEdge \/ \E stall \in BOOLEAN : BothEdges(stall))
    /\ WF_vars(DstEdge(FALSE) \/ BothEdges(FALSE))

Spec == Init /\ [][Next]_vars
FairSpec == Spec /\ Fairness

----------------------------------------------------------------------------

(* Slots written by the source and not yet read.                            *)
Fill == (srcWritePos + Slots - dstReadPos) % Slots

(* The ring is a queue of five items: one slot stays free.                  *)
Queue == INSTANCE BoundedQueue WITH
    Item <- 0 .. Items - 1,
    Capacity <- 5,
    NoItem <- Unset,
    queue <- [i \in 1 .. Fill |-> srcBuffer[(dstReadPos + i - 1) % Slots]]
QueueSpec == Queue!Spec

(* A source that finds the ring full gets room again: it takes the          *)
(* destination's read and the way back of the position, and a position      *)
(* sampled while it wraps does not block the stream for good.               *)
SourceGoesOn ==
    PlusOne(srcWritePos) = srcReadPos ~> PlusOne(srcWritePos) # srcReadPos
=============================================================================
