------------------------------ MODULE OneSlot ------------------------------
(* What cdc/CdcGate.sv promises: "Safely transfers a data vector through a  *)
(* gate. Works like a FIFO of size one."                                    *)
CONSTANTS
    Data,       \* the values a data vector can take
    Empty       \* no data vector

VARIABLES
    slot,       \* the vector in the gate, or Empty
    received    \* the vector the last read returned, or Empty

vars == <<slot, received>>

Init == slot = Empty /\ received = Empty

Write(d) ==
    /\ slot = Empty
    /\ slot' = d
    /\ UNCHANGED received

Read ==
    /\ slot # Empty
    /\ received' = slot
    /\ slot' = Empty

Reset ==
    /\ slot' = Empty
    /\ received' = Empty

Next == (\E d \in Data : Write(d)) \/ Read \/ Reset

Spec == Init /\ [][Next]_vars
=============================================================================
