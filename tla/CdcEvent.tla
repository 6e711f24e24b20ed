------------------------------ MODULE CdcEvent ------------------------------
(* cdc/CdcEvent.sv: a CdcMutex whose destination releases the lock in the   *)
(* cycle it gets it, so that one Request in the source domain becomes one   *)
(* single-cycle Event in the destination domain.                            *)
EXTENDS CdcMutex, Integers

VARIABLE pending    \* history: requests since the last reset, less the
                    \* destination cycles with Event set since then

eventVars == <<mutexVars, pending>>

srcReady == srcLocked
dstEvent == dstLocked

Init ==
    /\ MutexInit
    /\ pending = 0

(* "Behavior is only defined if Ready is high during the Request."          *)
MayRequest(request) == request => srcReady

Counted(request, event) ==
    pending' = pending + (IF request THEN 1 ELSE 0) - (IF event THEN 1 ELSE 0)

SrcCycle == \E request \in BOOLEAN :
    /\ MayRequest(request)
    /\ MutexSrcEdge(request)
    /\ Counted(request, FALSE)

(* Mutant: the destination does not release the lock.                       *)
DstCycleKeeps ==
    /\ MutexDstEdge(FALSE)
    /\ Counted(FALSE, dstEvent)

(* dstRelease_i and dstLocked_o are both wired to dstEvent_o.               *)
DstCycle ==
    /\ MutexDstEdge(dstEvent)
    /\ Counted(FALSE, dstEvent)

BothCycles == \E request \in BOOLEAN :
    /\ MayRequest(request)
    /\ MutexBothEdges(request, dstEvent)
    /\ Counted(request, dstEvent)

Reset ==
    /\ MutexReset
    /\ pending' = 0

Next == SrcCycle \/ DstCycle \/ BothCycles \/ Reset

(* Both clocks keep running, and resets come to an end.                     *)
Fairness ==
    /\ WF_eventVars(SrcCycle \/ BothCycles)
    /\ WF_eventVars(DstCycle \/ BothCycles)

Spec == Init /\ [][Next]_eventVars
FairSpec == Spec /\ Fairness

----------------------------------------------------------------------------

TypeOK == MutexTypeOK /\ pending \in Int

InFlight == srcForwardSwitch # dstBackwardSwitch

(* No event is lost, doubled or longer than a cycle: the cycles with an     *)
(* event are as many as the requests, less the one still on its way.        *)
OneEventPerRequest == pending = IF InFlight THEN 1 ELSE 0

(* The inductive invariant of the event.                                    *)
EventInv == MutexInv /\ TypeOK /\ OneEventPerRequest

(* Every request fires, whatever the ratio of the clocks (unless a reset    *)
(* takes it back), ...                                                      *)
RequestFires == pending > 0 ~> pending = 0

(* ... and the source becomes ready for the next one.                       *)
ReadyAgain == ~srcReady ~> srcReady
=============================================================================
