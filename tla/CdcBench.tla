------------------------------ MODULE CdcBench ------------------------------
(* cdc/test/SimpleBench.sv: a CdcGate (EXTENDS) and a CdcEvent (Event), each *)
(* with a mutex of its own, between the same two clock domains, that is with *)
(* the same edges and the same reset.                                        *)
EXTENDS CdcGate, TLC

CONSTANTS zero, d1, d2

BenchData == {zero, d1, d2}

VARIABLES evtForwardSwitch, evtForwardPipe, evtBackwardSwitch, evtBackwardPipe, pending

Event == INSTANCE CdcEvent WITH
    srcForwardSwitch <- evtForwardSwitch, forwardPipe <- evtForwardPipe,
    dstBackwardSwitch <- evtBackwardSwitch, backwardPipe <- evtBackwardPipe

benchVars == <<vars, Event!eventVars>>

BenchInit == Init /\ Event!Init

SrcClock == SrcEdgeOfGate /\ Event!SrcCycle
DstClock(read) == DstEdgeOfGate(read) /\ Event!DstCycle
BothClocks(read) == BothEdgesOfGate(read) /\ Event!BothCycles
BenchReset == ResetOfGate /\ Event!Reset

BenchNext ==
    \/ SrcClock
    \/ \E read \in BOOLEAN : DstClock(read) \/ BothClocks(read)
    \/ BenchReset

(* Both clocks keep running, resets come to an end, and the reader does not  *)
(* leave an open gate unread for ever.                                       *)
BenchFairness ==
    /\ WF_benchVars(SrcClock \/ \E read \in BOOLEAN : BothClocks(read))
    /\ WF_benchVars(\E read \in BOOLEAN : DstClock(read) \/ BothClocks(read))
    /\ WF_benchVars(DstClock(TRUE) \/ BothClocks(TRUE))

BenchSpec == BenchInit /\ [][BenchNext]_benchVars /\ BenchFairness

----------------------------------------------------------------------------
(* Whatever the ratio and the phase of the clocks, each request is one event *)
(* (CdcEvent!OneEventPerRequest).                                            *)
OneEventPerRequest == Event!OneEventPerRequest

(* A request fires unless a reset takes it back, its source gets ready for   *)
(* the next one, and so does the gate once its vector is read.               *)
CrossingsGoOn == Event!RequestFires /\ Event!ReadyAgain /\ GateOpensAgain
=============================================================================
