------------------------------ MODULE CdcGate ------------------------------
(* cdc/CdcGate.sv: hands a data vector from the source to the destination   *)
(* domain under the protection of a CdcMutex.  The vector itself is not     *)
(* synchronised: the destination simply samples the source's register while *)
(* it holds the lock.                                                       *)
EXTENDS CdcMutex

CONSTANTS
    Data,       \* the values a data vector can take
    Zero,       \* the all-zero vector the reset loads
    Mixed,      \* a vector sampled while some of its bits were changing
    Empty       \* stands for "no vector" in the history variable

ASSUME GateAssumption ==
    /\ Zero \in Data
    /\ Mixed \notin Data
    /\ Empty \notin Data
    /\ Empty # Mixed

VARIABLES
    srcTransfer,    \* vector register of the source domain
    dstTransfer,    \* vector register of the destination domain
    dstLocked_r,    \* dstLocked one destination cycle ago; has no reset
    received        \* history: the vector the last read returned

gateVars == <<srcTransfer, dstTransfer, dstLocked_r, received>>
vars == <<mutexVars, gateVars>>

srcOpen == srcLocked
(* Mutant: open in the cycle that still samples the vector.                 *)
dstOpenAtOnce == dstLocked
dstOpen == dstLocked_r /\ dstLocked

Init ==
    /\ MutexInit
    /\ srcTransfer = Zero
    /\ dstTransfer = Zero
    /\ dstLocked_r \in BOOLEAN
    /\ received = Empty

(* The vector register of the source: loaded with srcData_i on a write.     *)
SrcFlops(write, d) == srcTransfer' = IF write THEN d ELSE srcTransfer

(* The registers of the destination; seen is what srcTransfer looks like    *)
(* to it at this edge.  A read hands over the vector shown in this cycle.   *)
DstFlops(read, seen) ==
    /\ dstTransfer' = IF dstLocked THEN seen ELSE dstTransfer
    /\ dstLocked_r' = dstLocked
    /\ received' = IF read THEN dstTransfer ELSE received

(* "When the gate is Open each side can Read/Write a data vector."          *)
SrcEdgeOfGate == \E write \in BOOLEAN, d \in Data :
    /\ write => srcOpen
    /\ MutexSrcEdge(write)
    /\ SrcFlops(write, d)
    /\ UNCHANGED <<dstTransfer, dstLocked_r, received>>

DstEdgeOfGate(read) ==
    /\ read => dstOpen
    /\ MutexDstEdge(read)
    /\ DstFlops(read, srcTransfer)
    /\ UNCHANGED srcTransfer

(* A write that coincides with the destination's edge changes the vector    *)
(* while the destination may be sampling it.                                *)
BothEdgesOfGate(read) == \E write \in BOOLEAN, d \in Data :
    /\ write => srcOpen
    /\ read => dstOpen
    /\ MutexBothEdges(write, read)
    /\ SrcFlops(write, d)
    /\ \E seen \in (IF write THEN {srcTransfer, d, Mixed} ELSE {srcTransfer}) :
           DstFlops(read, seen)

(* Both resets together; dstLocked_r is not reset.                          *)
ResetOfGate ==
    /\ MutexReset
    /\ srcTransfer' = Zero
    /\ dstTransfer' = Zero
    /\ received' = Empty
    /\ UNCHANGED dstLocked_r

Next ==
    \/ SrcEdgeOfGate
    \/ \E read \in BOOLEAN : DstEdgeOfGate(read) \/ BothEdgesOfGate(read)
    \/ ResetOfGate

(* Both clocks keep running, and the reader does not leave an open gate     *)
(* unread for ever.                                                         *)
Fairness ==
    /\ WF_vars(SrcEdgeOfGate \/ \E read \in BOOLEAN : BothEdgesOfGate(read))
    /\ WF_vars(\E read \in BOOLEAN : DstEdgeOfGate(read) \/ BothEdgesOfGate(read))
    /\ WF_vars(DstEdgeOfGate(TRUE) \/ BothEdgesOfGate(TRUE))

Spec == Init /\ [][Next]_vars
FairSpec == Spec /\ Fairness

----------------------------------------------------------------------------

TypeOK ==
    /\ MutexTypeOK
    /\ srcTransfer \in Data
    /\ dstTransfer \in Data
    /\ dstLocked_r \in BOOLEAN
    /\ received \in Data \cup {Empty}

(* A vector is in the gate from its write to its read.                      *)
Full == srcForwardSwitch # dstBackwardSwitch

(* An open gate shows exactly the vector that was written, although it was  *)
(* sampled across the domains without a synchroniser: it was stable.        *)
OpenShowsWritten == dstOpen => dstTransfer = srcTransfer

(* Inductive invariant: the lock is held over the sampled vector, so the    *)
(* register follows it one destination cycle later.                         *)
GateInv == MutexInv /\ TypeOK /\ OpenShowsWritten

(* The gate is a FIFO of size one.                                          *)
Slot == INSTANCE OneSlot WITH slot <- IF Full THEN srcTransfer ELSE Empty
OneSlotSpec == Slot!Spec

(* Whatever is written comes out, and the gate opens to the writer again.   *)
GateOpensAgain == ~srcOpen ~> srcOpen
=============================================================================
