------------------------------ MODULE CdcMutex ------------------------------
(* cdc/CdcMutex.sv: a lock that is handed back and forth between two clock  *)
(* domains.  Each side owns a toggle flipflop; each toggle crosses to the   *)
(* other side through a CdcBuffer, and a side holds the lock according to   *)
(* whether the two toggles, as it sees them, are equal (src) or differ      *)
(* (dst).                                                                   *)
(*                                                                          *)
(* The two clocks are unrelated.  A step is an edge of the source clock, an *)
(* edge of the destination clock, or an edge of both so close together that *)
(* a signal changing on one is sampled by the other while it settles.       *)
EXTENDS CdcBuffer

VARIABLES
    srcForwardSwitch,    \* toggle of the source domain
    forwardPipe,         \* its synchroniser, in the destination domain
    dstBackwardSwitch,   \* toggle of the destination domain
    backwardPipe         \* its synchroniser, in the source domain

mutexVars == <<srcForwardSwitch, forwardPipe, dstBackwardSwitch, backwardPipe>>

dstForwardSwitch  == forwardPipe.dst
srcBackwardSwitch == backwardPipe.dst

srcLocked == srcForwardSwitch = srcBackwardSwitch
(* Mutant: the comparison of the destination is inverted.                   *)
dstLockedInverted == dstBackwardSwitch = dstForwardSwitch

dstLocked == dstBackwardSwitch # dstForwardSwitch

MutexInit ==
    /\ srcForwardSwitch = 0
    /\ forwardPipe = Cleared(0)
    /\ dstBackwardSwitch = 0
    /\ backwardPipe = Cleared(0)

Toggled(switch, release) == IF release THEN 1 - switch ELSE switch

(* Mutant: the backward synchroniser is not clocked.                         *)
MutexSrcFlopsStuck(release, seen) ==
    /\ srcForwardSwitch' = Toggled(srcForwardSwitch, release)
    /\ backwardPipe' = backwardPipe

(* The flipflops clocked by srcClk_i; seen is what the backward synchroniser *)
(* samples at this edge.                                                     *)
MutexSrcFlops(release, seen) ==
    /\ srcForwardSwitch' = Toggled(srcForwardSwitch, release)
    /\ backwardPipe' = Shift(backwardPipe, seen)

(* The flipflops clocked by dstClk_i.                                        *)
MutexDstFlops(release, seen) ==
    /\ dstBackwardSwitch' = Toggled(dstBackwardSwitch, release)
    /\ forwardPipe' = Shift(forwardPipe, seen)

MutexSrcEdge(release) ==
    /\ MutexSrcFlops(release, dstBackwardSwitch)
    /\ UNCHANGED <<dstBackwardSwitch, forwardPipe>>

MutexDstEdge(release) ==
    /\ MutexDstFlops(release, srcForwardSwitch)
    /\ UNCHANGED <<srcForwardSwitch, backwardPipe>>

(* Coinciding edges: a synchroniser catches the other side's toggle before   *)
(* or after the change this very edge makes to it.                           *)
MutexBothEdges(srcRelease, dstRelease) ==
    \E seenForward  \in {srcForwardSwitch, Toggled(srcForwardSwitch, srcRelease)},
       seenBackward \in {dstBackwardSwitch, Toggled(dstBackwardSwitch, dstRelease)} :
        /\ MutexSrcFlops(srcRelease, seenBackward)
        /\ MutexDstFlops(dstRelease, seenForward)

(* srcRst_i and dstRst_i asserted together.  They have to be: the backward   *)
(* synchroniser is clocked by srcClk_i but cleared by dstRst_i.              *)
MutexReset ==
    /\ srcForwardSwitch' = 0
    /\ forwardPipe' = Cleared(0)
    /\ dstBackwardSwitch' = 0
    /\ backwardPipe' = Cleared(0)

----------------------------------------------------------------------------
(* The mutex on its own, with users on both sides that set Release only      *)
(* while they are Locked, as the header of the file asks of them.            *)

SrcEdge == \E release \in BOOLEAN :
    /\ release => srcLocked
    /\ MutexSrcEdge(release)

DstEdge == \E release \in BOOLEAN :
    /\ release => dstLocked
    /\ MutexDstEdge(release)

BothEdges == \E srcRelease, dstRelease \in BOOLEAN :
    /\ srcRelease => srcLocked
    /\ dstRelease => dstLocked
    /\ MutexBothEdges(srcRelease, dstRelease)

MutexNext == SrcEdge \/ DstEdge \/ BothEdges \/ MutexReset

MutexSpec == MutexInit /\ [][MutexNext]_mutexVars

----------------------------------------------------------------------------

(* Every flipflop of the mutex holds a bit.                                  *)
MutexTypeOK ==
    /\ srcForwardSwitch \in Bit
    /\ forwardPipe \in Pipe(Bit)
    /\ dstBackwardSwitch \in Bit
    /\ backwardPipe \in Pipe(Bit)

(* "Locked" is never set in both domains at once, whatever the ratio and the *)
(* phase of the two clocks.  It is not always set in one, as CdcMutex.sv:17  *)
(* has it: after a release the lock is on its way for some edges.            *)
MutualExclusion == ~(srcLocked /\ dstLocked)

(* The six flipflops form a ring, and at most one change of value travels    *)
(* along it: from the source toggle to the destination (the lock is on its   *)
(* way there), or from the destination toggle back.                          *)
OneFront ==
    /\ srcForwardSwitch # forwardPipe.xxx =>
           /\ forwardPipe.xxx = forwardPipe.dst
           /\ forwardPipe.dst = dstBackwardSwitch
           /\ dstBackwardSwitch = backwardPipe.xxx
           /\ backwardPipe.xxx = backwardPipe.dst
    /\ forwardPipe.xxx # forwardPipe.dst =>
           /\ forwardPipe.dst = dstBackwardSwitch
           /\ dstBackwardSwitch = backwardPipe.xxx
           /\ backwardPipe.xxx = backwardPipe.dst
    /\ forwardPipe.dst # dstBackwardSwitch =>
           /\ dstBackwardSwitch = backwardPipe.xxx
           /\ backwardPipe.xxx = backwardPipe.dst
    /\ dstBackwardSwitch # backwardPipe.xxx => backwardPipe.xxx = backwardPipe.dst

(* The inductive invariant of the mutex.                                     *)
MutexInv == MutexTypeOK /\ OneFront
=============================================================================
