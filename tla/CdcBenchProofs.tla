--------------------------- MODULE CdcBenchProofs --------------------------
(* cdc/CdcMutex.sv: the lock is never held in both clock domains.           *)
(* cdc/CdcGate.sv: what an open gate shows is what was written, and the     *)
(* gate implements a FIFO of size one, for every set of data vectors.       *)
(* cdc/CdcEvent.sv: each request is one event.  The bench of a gate and an  *)
(* event keeps what each of the two promises.                               *)
EXTENDS CdcBench, Integers, TLAPS

(* The mutex.  The inductive invariant is MutexInv: at most one change of   *)
(* value travels around the ring of the six flipflops.  The step lemmas are *)
(* stated for an arbitrary user, so the gate cites them too.                *)
(* The reset state satisfies the invariant.                                 *)
LEMMA MutexInitInv == MutexInit => MutexInv
  BY SMT DEF MutexInit, MutexInv, MutexTypeOK, OneFront, Cleared, Pipe, Bit

(* So does the state after an edge of the source clock, ...                 *)
LEMMA MutexSrcEdgeInv ==
  ASSUME NEW release \in BOOLEAN, release => srcLocked,
         MutexInv, MutexSrcEdge(release)
  PROVE  MutexInv'
<1> USE DEF MutexSrcEdge, MutexSrcFlops, Toggled, Shift, Pipe, Bit, srcLocked,
            srcBackwardSwitch
<1>1. MutexTypeOK'
  BY SMT DEF MutexInv, MutexTypeOK
<1>2. OneFront'
  BY SMT DEF MutexInv, MutexTypeOK, OneFront
<1> QED BY <1>1, <1>2 DEF MutexInv

(* ... after an edge of the destination clock, ...                          *)
LEMMA MutexDstEdgeInv ==
  ASSUME NEW release \in BOOLEAN, release => dstLocked,
         MutexInv, MutexDstEdge(release)
  PROVE  MutexInv'
<1> USE DEF MutexDstEdge, MutexDstFlops, Toggled, Shift, Pipe, Bit, dstLocked,
            dstForwardSwitch
<1>1. MutexTypeOK'
  BY SMT DEF MutexInv, MutexTypeOK
<1>2. OneFront'
  BY SMT DEF MutexInv, MutexTypeOK, OneFront
<1> QED BY <1>1, <1>2 DEF MutexInv

(* ... and after coinciding edges: a toggle that changes is sampled late by *)
(* one cycle at worst.                                                      *)
LEMMA MutexBothEdgesInv ==
  ASSUME NEW srcRelease \in BOOLEAN, srcRelease => srcLocked,
         NEW dstRelease \in BOOLEAN, dstRelease => dstLocked,
         MutexInv, MutexBothEdges(srcRelease, dstRelease)
  PROVE  MutexInv'
<1> PICK seenForward \in {srcForwardSwitch, Toggled(srcForwardSwitch, srcRelease)},
         seenBackward \in {dstBackwardSwitch, Toggled(dstBackwardSwitch, dstRelease)} :
        /\ MutexSrcFlops(srcRelease, seenBackward)
        /\ MutexDstFlops(dstRelease, seenForward)
  BY DEF MutexBothEdges
<1> USE DEF MutexSrcFlops, MutexDstFlops, Toggled, Shift, Pipe, Bit,
            srcLocked, dstLocked, srcBackwardSwitch, dstForwardSwitch
<1>1. MutexTypeOK'
  BY SMT DEF MutexInv, MutexTypeOK
<1>2. OneFront'
  BY SMT DEF MutexInv, MutexTypeOK, OneFront
<1> QED BY <1>1, <1>2 DEF MutexInv

(* The joint reset brings the reset state back.                             *)
LEMMA MutexResetInv == MutexReset => MutexInv'
  BY SMT DEF MutexReset, MutexInv, MutexTypeOK, OneFront, Cleared, Pipe, Bit

(* The invariant speaks of the four flipflop variables only.                *)
LEMMA MutexStutterInv == MutexInv /\ UNCHANGED mutexVars => MutexInv'
  BY DEF MutexInv, MutexTypeOK, OneFront, mutexVars

(* One front excludes that both sides see themselves in possession.         *)
LEMMA InvExcludes == MutexInv => MutualExclusion
  BY SMT DEF MutexInv, MutexTypeOK, OneFront, MutualExclusion, srcLocked,
             dstLocked, srcBackwardSwitch, dstForwardSwitch, Pipe, Bit

(* MutexInv is an invariant of the mutex under users that release only what *)
(* they hold (CdcMutex.sv:18).                                              *)
THEOREM MutexInvariant == MutexSpec => []MutexInv
<1>1. MutexInv /\ [MutexNext]_mutexVars => MutexInv'
  <2> SUFFICES ASSUME MutexInv, [MutexNext]_mutexVars PROVE MutexInv'
    OBVIOUS
  <2>1. CASE SrcEdge
    BY <2>1, MutexSrcEdgeInv DEF SrcEdge
  <2>2. CASE DstEdge
    BY <2>2, MutexDstEdgeInv DEF DstEdge
  <2>3. CASE BothEdges
    BY <2>3, MutexBothEdgesInv DEF BothEdges
  <2>4. CASE MutexReset
    BY <2>4, MutexResetInv
  <2>5. CASE UNCHANGED mutexVars
    BY <2>5, MutexStutterInv
  <2> QED BY <2>1, <2>2, <2>3, <2>4, <2>5 DEF MutexNext
<1> QED BY <1>1, MutexInitInv, PTL DEF MutexSpec

(* No two clock domains hold the lock at once, for any interleaving and any *)
(* coincidence of the two clocks.                                           *)
THEOREM MutexExclusion == MutexSpec => []MutualExclusion
  BY MutexInvariant, InvExcludes, PTL

----------------------------------------------------------------------------
(* The gate.                                                                *)
(* While a vector is in the hands of the destination it has left the source *)
(* side of the ring: the source holds nothing and the gate is full.         *)
LEMMA DstLockedFull ==
  ASSUME MutexInv, dstLocked
  PROVE  ~srcLocked /\ Full
  BY SMT DEF MutexInv, MutexTypeOK, OneFront, srcLocked, dstLocked, Full,
             srcBackwardSwitch, dstForwardSwitch, Pipe, Bit

(* While the source holds the lock the gate is empty.                       *)
LEMMA SrcLockedEmpty ==
  ASSUME MutexInv, srcLocked
  PROVE  ~Full
  BY SMT DEF MutexInv, MutexTypeOK, OneFront, srcLocked, Full,
             srcBackwardSwitch, Pipe, Bit

(* Reset state.                                                             *)
LEMMA GateInitInv == Init => GateInv
<1> SUFFICES ASSUME Init PROVE GateInv
  OBVIOUS
<1>1. MutexInv
  BY MutexInitInv DEF Init
<1>2. TypeOK
  BY <1>1, GateAssumption DEF Init, TypeOK, MutexInv
<1>3. ~dstLocked
  BY SMT DEF Init, MutexInit, Cleared, dstLocked, dstForwardSwitch
<1> QED BY <1>1, <1>2, <1>3 DEF GateInv, OpenShowsWritten, dstOpen

(* An edge of the source clock writes only into a gate that is not sampled. *)
LEMMA GateSrcInv ==
  ASSUME GateInv, SrcEdgeOfGate
  PROVE  GateInv'
<1> PICK write \in BOOLEAN, d \in Data :
        /\ write => srcOpen
        /\ MutexSrcEdge(write)
        /\ SrcFlops(write, d)
        /\ UNCHANGED <<dstTransfer, dstLocked_r, received>>
  BY DEF SrcEdgeOfGate
<1>1. MutexInv'
  BY MutexSrcEdgeInv DEF srcOpen, GateInv
<1>2. TypeOK'
  BY <1>1 DEF GateInv, TypeOK, MutexInv, SrcFlops
<1>3. dstLocked' = dstLocked
  BY DEF MutexSrcEdge, dstLocked, dstForwardSwitch
<1>4. dstLocked => ~write
  BY DstLockedFull DEF GateInv, srcOpen
<1>5. OpenShowsWritten'
  BY <1>3, <1>4 DEF GateInv, OpenShowsWritten, dstOpen, SrcFlops
<1> QED BY <1>1, <1>2, <1>5 DEF GateInv

(* The registers of the destination after an edge, when what it samples is  *)
(* either clean or not taken over.                                          *)
LEMMA GateDstFlops ==
  ASSUME NEW read \in BOOLEAN, NEW seen,
         GateInv, DstFlops(read, seen), MutexInv',
         srcTransfer' \in Data,
         dstLocked => seen = srcTransfer /\ srcTransfer' = srcTransfer
  PROVE  GateInv'
<1>1. dstTransfer' \in Data /\ dstLocked_r' \in BOOLEAN /\ received' \in Data \cup {Empty}
  BY DEF DstFlops, GateInv, TypeOK, dstLocked
<1>2. TypeOK'
  BY <1>1 DEF TypeOK, MutexInv
<1>3. OpenShowsWritten'
  BY DEF OpenShowsWritten, dstOpen, DstFlops
<1> QED BY <1>2, <1>3 DEF GateInv

(* An edge of the destination clock, alone ...                              *)
LEMMA GateDstInv ==
  ASSUME NEW read \in BOOLEAN, GateInv, DstEdgeOfGate(read)
  PROVE  GateInv'
<1>1. MutexInv'
  BY MutexDstEdgeInv DEF DstEdgeOfGate, dstOpen, GateInv
<1>2. srcTransfer' = srcTransfer /\ srcTransfer \in Data
  BY DEF DstEdgeOfGate, GateInv, TypeOK
<1> QED BY <1>1, <1>2, GateDstFlops DEF DstEdgeOfGate

(* ... or together with one of the source clock.                            *)
LEMMA GateBothInv ==
  ASSUME NEW read \in BOOLEAN, GateInv, BothEdgesOfGate(read)
  PROVE  GateInv'
<1> PICK write \in BOOLEAN, d \in Data :
        /\ write => srcOpen
        /\ read => dstOpen
        /\ MutexBothEdges(write, read)
        /\ SrcFlops(write, d)
        /\ \E seen \in (IF write THEN {srcTransfer, d, Mixed} ELSE {srcTransfer}) :
               DstFlops(read, seen)
  BY DEF BothEdgesOfGate
<1> PICK seen \in (IF write THEN {srcTransfer, d, Mixed} ELSE {srcTransfer}) :
        DstFlops(read, seen)
  OBVIOUS
<1>1. MutexInv'
  BY MutexBothEdgesInv DEF srcOpen, dstOpen, GateInv
<1>2. srcTransfer' \in Data
  BY DEF SrcFlops, GateInv, TypeOK
<1>3. dstLocked => ~write
  BY DstLockedFull DEF GateInv, srcOpen
<1>4. dstLocked => seen = srcTransfer /\ srcTransfer' = srcTransfer
  BY <1>3 DEF SrcFlops
<1> QED BY <1>1, <1>2, <1>4, GateDstFlops

(* The joint reset takes the lock from the destination at once, so the      *)
(* unreset dstLocked_r cannot open the gate.                                *)
LEMMA GateResetInv ==
  ASSUME GateInv, ResetOfGate
  PROVE  GateInv'
<1>1. MutexInv'
  BY MutexResetInv DEF ResetOfGate
<1>2. TypeOK'
  BY <1>1, GateAssumption DEF GateInv, TypeOK, MutexInv, ResetOfGate
<1>3. ~dstLocked'
  BY SMT DEF ResetOfGate, MutexReset, Cleared, dstLocked, dstForwardSwitch
<1> QED BY <1>1, <1>2, <1>3 DEF GateInv, OpenShowsWritten, dstOpen

(* GateInv is an invariant of the gate.                                     *)
THEOREM GateInvariant == Spec => []GateInv
<1>1. GateInv /\ [Next]_vars => GateInv'
  <2> SUFFICES ASSUME GateInv, [Next]_vars PROVE GateInv'
    OBVIOUS
  <2>1. CASE SrcEdgeOfGate
    BY <2>1, GateSrcInv
  <2>2. ASSUME NEW read \in BOOLEAN, DstEdgeOfGate(read) PROVE GateInv'
    BY <2>2, GateDstInv
  <2>3. ASSUME NEW read \in BOOLEAN, BothEdgesOfGate(read) PROVE GateInv'
    BY <2>3, GateBothInv
  <2>4. CASE ResetOfGate
    BY <2>4, GateResetInv
  <2>5. CASE UNCHANGED vars
    <3>1. MutexInv'
      BY <2>5, MutexStutterInv DEF vars, GateInv
    <3>2. UNCHANGED gateVars /\ dstLocked' = dstLocked
      BY <2>5 DEF vars, mutexVars, dstLocked, dstForwardSwitch
    <3> QED BY <3>1, <3>2 DEF GateInv, TypeOK, MutexInv, OpenShowsWritten, gateVars, dstOpen
  <2> QED BY <2>1, <2>2, <2>3, <2>4, <2>5 DEF Next
<1> QED BY <1>1, GateInitInv, PTL DEF Spec

(* An open gate shows the vector that was written, although no synchroniser *)
(* protects it.                                                             *)
THEOREM GateShowsWritten == Spec => []OpenShowsWritten
  BY GateInvariant, PTL DEF GateInv

----------------------------------------------------------------------------
(* The refinement: a toggle of the source fills the slot, a toggle of the   *)
(* destination empties it, every other edge leaves it alone.                *)

(* An edge of the source clock is a Write or a stutter.                     *)
LEMMA SrcEdgeRefines ==
  ASSUME GateInv, SrcEdgeOfGate
  PROVE  [Slot!Next]_Slot!vars
<1> PICK write \in BOOLEAN, d \in Data :
        /\ write => srcOpen
        /\ MutexSrcEdge(write)
        /\ SrcFlops(write, d)
        /\ UNCHANGED <<dstTransfer, dstLocked_r, received>>
  BY DEF SrcEdgeOfGate
<1>1. CASE write
  <2>1. ~Full
    BY <1>1, SrcLockedEmpty DEF srcOpen, GateInv
  <2>2. Full'
    BY <1>1, <2>1, SMT DEF Full, MutexSrcEdge, MutexSrcFlops, Toggled, GateInv,
                           MutexInv, MutexTypeOK, Bit
  <2>3. srcTransfer' = d /\ UNCHANGED received
    BY <1>1 DEF SrcFlops
  <2>4. Slot!Write(d)
    BY <2>1, <2>2, <2>3 DEF Slot!Write
  <2> QED BY <2>4 DEF Slot!Next
<1>2. CASE ~write
  <2>1. Full' = Full /\ srcTransfer' = srcTransfer
    BY <1>2 DEF Full, MutexSrcEdge, MutexSrcFlops, Toggled, SrcFlops
  <2> QED BY <2>1 DEF Slot!vars
<1> QED BY <1>1, <1>2

(* Whatever the destination samples, its edge is a Read or a stutter as     *)
(* long as the source does not write.                                       *)
LEMMA DstFlopsRefine ==
  ASSUME NEW read \in BOOLEAN, NEW seen, NEW seenForward, GateInv,
         read => dstOpen,
         MutexDstFlops(read, seenForward), UNCHANGED srcForwardSwitch,
         UNCHANGED srcTransfer, DstFlops(read, seen)
  PROVE  [Slot!Next]_Slot!vars
<1>1. CASE read
  <2>1. Full /\ dstTransfer = srcTransfer
    BY <1>1, DstLockedFull DEF dstOpen, GateInv, OpenShowsWritten
  <2>2. ~Full'
    BY <1>1, <2>1, SMT DEF Full, MutexDstFlops, Toggled, GateInv, MutexInv, MutexTypeOK, Bit
  <2>3. srcTransfer # Empty
    BY GateAssumption DEF GateInv, TypeOK
  <2>4. Slot!Read
    BY <1>1, <2>1, <2>2, <2>3 DEF Slot!Read, DstFlops
  <2> QED BY <2>4 DEF Slot!Next
<1>2. CASE ~read
  <2>1. Full' = Full /\ UNCHANGED received
    BY <1>2 DEF Full, MutexDstFlops, Toggled, DstFlops
  <2> QED BY <2>1 DEF Slot!vars
<1> QED BY <1>1, <1>2

(* A write coinciding with an edge of the destination is still a Write: an  *)
(* empty gate is not open to the reader.                                    *)
LEMMA BothEdgesRefine ==
  ASSUME NEW read \in BOOLEAN, GateInv, BothEdgesOfGate(read)
  PROVE  [Slot!Next]_Slot!vars
<1> PICK write \in BOOLEAN, d \in Data :
        /\ write => srcOpen
        /\ read => dstOpen
        /\ MutexBothEdges(write, read)
        /\ SrcFlops(write, d)
        /\ \E seen \in (IF write THEN {srcTransfer, d, Mixed} ELSE {srcTransfer}) :
               DstFlops(read, seen)
  BY DEF BothEdgesOfGate
<1> PICK seen : DstFlops(read, seen)
  OBVIOUS
<1> PICK seenForward, seenBackward :
        /\ MutexSrcFlops(write, seenBackward)
        /\ MutexDstFlops(read, seenForward)
  BY DEF MutexBothEdges
<1>1. CASE write
  <2>1. ~Full /\ ~read
    BY <1>1, SrcLockedEmpty, DstLockedFull DEF srcOpen, dstOpen, GateInv
  <2>2. Full'
    BY <1>1, <2>1, SMT DEF Full, MutexSrcFlops, MutexDstFlops, Toggled, GateInv,
                           MutexInv, MutexTypeOK, Bit
  <2>3. srcTransfer' = d /\ UNCHANGED received
    BY <1>1, <2>1 DEF SrcFlops, DstFlops
  <2>4. Slot!Write(d)
    BY <2>1, <2>2, <2>3 DEF Slot!Write
  <2> QED BY <2>4 DEF Slot!Next
<1>2. CASE ~write
  <2>1. UNCHANGED srcForwardSwitch /\ UNCHANGED srcTransfer
    BY <1>2 DEF MutexSrcFlops, Toggled, SrcFlops
  <2> QED BY <2>1, DstFlopsRefine
<1> QED BY <1>1, <1>2

(* The gate implements a FIFO of size one (CdcGate.sv:17): every vector     *)
(* written is read once, whole and in order.                                *)
THEOREM GateIsOneSlot == Spec => OneSlotSpec
<1>1. Init => Slot!Init
  BY DEF Init, MutexInit, Slot!Init, Full
<1>2. GateInv /\ [Next]_vars => [Slot!Next]_Slot!vars
  <2> SUFFICES ASSUME GateInv, [Next]_vars PROVE [Slot!Next]_Slot!vars
    OBVIOUS
  <2>1. CASE SrcEdgeOfGate
    BY <2>1, SrcEdgeRefines
  <2>2. ASSUME NEW read \in BOOLEAN, DstEdgeOfGate(read) PROVE [Slot!Next]_Slot!vars
    BY <2>2, DstFlopsRefine DEF DstEdgeOfGate, MutexDstEdge
  <2>3. ASSUME NEW read \in BOOLEAN, BothEdgesOfGate(read) PROVE [Slot!Next]_Slot!vars
    BY <2>3, BothEdgesRefine
  <2>4. CASE ResetOfGate
    <3>1. ~Full' /\ received' = Empty
      BY <2>4 DEF ResetOfGate, MutexReset, Full
    <3>2. Slot!Reset
      BY <3>1 DEF Slot!Reset
    <3> QED BY <3>2 DEF Slot!Next
  <2>5. CASE UNCHANGED vars
    BY <2>5 DEF vars, gateVars, mutexVars, Slot!vars, Full
  <2> QED BY <2>1, <2>2, <2>3, <2>4, <2>5 DEF Next
<1> QED BY <1>1, <1>2, GateInvariant, PTL DEF Spec, OneSlotSpec, Slot!Spec

----------------------------------------------------------------------------
(* The event.  Its lock is a CdcMutex of its own; the invariant is that of  *)
(* the mutex above: in its reset state, ...                                 *)
LEMMA EventMutexInit == Event!MutexInit => Event!MutexInv
  BY SMT DEF Event!MutexInit, Event!MutexInv, Event!MutexTypeOK, Event!OneFront, Event!Cleared,
             Event!Pipe, Event!Bit

(* ... after its edges and after the reset.                                 *)
LEMMA EventMutexSteps ==
  ASSUME Event!MutexInv, NEW request \in BOOLEAN, request => Event!srcLocked,
         NEW event \in BOOLEAN, event => Event!dstLocked,
         \/ Event!MutexSrcEdge(request) \/ Event!MutexDstEdge(event)
         \/ Event!MutexBothEdges(request, event) \/ Event!MutexReset
  PROVE  Event!MutexInv'
<1> USE DEF Event!MutexSrcFlops, Event!MutexDstFlops, Event!Toggled, Event!Shift, Event!Pipe,
            Event!Bit, Event!srcLocked, Event!dstLocked, Event!srcBackwardSwitch,
            Event!dstForwardSwitch, Event!MutexInv, Event!MutexTypeOK
<1>1. CASE Event!MutexSrcEdge(request)
  <2>1. Event!MutexTypeOK'
    BY <1>1, SMT DEF Event!MutexSrcEdge
  <2>2. Event!OneFront'
    BY <1>1, SMT DEF Event!MutexSrcEdge, Event!OneFront
  <2> QED BY <2>1, <2>2
<1>2. CASE Event!MutexDstEdge(event)
  <2>1. Event!MutexTypeOK'
    BY <1>2, SMT DEF Event!MutexDstEdge
  <2>2. Event!OneFront'
    BY <1>2, SMT DEF Event!MutexDstEdge, Event!OneFront
  <2> QED BY <2>1, <2>2
<1>3. CASE Event!MutexBothEdges(request, event)
  <2> PICK seenForward \in {evtForwardSwitch, Event!Toggled(evtForwardSwitch, request)},
           seenBackward \in {evtBackwardSwitch, Event!Toggled(evtBackwardSwitch, event)} :
          /\ Event!MutexSrcFlops(request, seenBackward)
          /\ Event!MutexDstFlops(event, seenForward)
    BY <1>3 DEF Event!MutexBothEdges
  <2>1. Event!MutexTypeOK'
    BY SMT
  <2>2. Event!OneFront'
    BY SMT DEF Event!OneFront
  <2> QED BY <2>1, <2>2
<1>4. CASE Event!MutexReset
  BY <1>4, SMT DEF Event!MutexReset, Event!OneFront, Event!Cleared
<1> QED BY <1>1, <1>2, <1>3, <1>4

(* A domain that holds the lock knows where the request is: the source that *)
(* none is in flight, the destination that one is.                          *)
LEMMA LockedTellsFlight ==
  ASSUME Event!MutexInv
  PROVE  (Event!srcLocked => ~Event!InFlight) /\ (Event!dstLocked => Event!InFlight)
  BY SMT DEF Event!MutexInv, Event!MutexTypeOK, Event!OneFront, Event!srcLocked, Event!dstLocked,
             Event!InFlight, Event!srcBackwardSwitch, Event!dstForwardSwitch, Event!Pipe, Event!Bit

(* The counter follows the toggles: a request starts a flight, an event     *)
(* ends one, and both cannot happen at one time.                            *)
LEMMA CounterFollows ==
  ASSUME Event!EventInv, NEW request \in BOOLEAN, NEW event \in BOOLEAN,
         request => Event!srcReady, event => Event!dstEvent,
         evtForwardSwitch' = Event!Toggled(evtForwardSwitch, request),
         evtBackwardSwitch' = Event!Toggled(evtBackwardSwitch, event),
         Event!Counted(request, event),
         Event!MutexInv'
  PROVE  Event!EventInv'
<1> USE DEF Event!EventInv
<1>1. (request => ~Event!InFlight) /\ (event => Event!InFlight)
  BY LockedTellsFlight DEF Event!srcReady, Event!dstEvent
<1>2. evtForwardSwitch \in {0, 1} /\ evtBackwardSwitch \in {0, 1}
  BY DEF Event!MutexInv, Event!MutexTypeOK, Event!Bit
<1>3. Event!InFlight' <=> IF request \/ event THEN ~Event!InFlight ELSE Event!InFlight
  <2>1. ~(request /\ event)
    BY <1>1
  <2> QED BY <1>2, <2>1 DEF Event!InFlight, Event!Toggled
<1>4. pending' \in Int /\ pending' = IF Event!InFlight' THEN 1 ELSE 0
  BY <1>1, <1>3 DEF Event!TypeOK, Event!OneEventPerRequest, Event!Counted
<1> QED BY <1>4 DEF Event!MutexInv, Event!TypeOK, Event!OneEventPerRequest

(* EventInv is an invariant of the event.                                   *)
THEOREM EventInvariant == Event!Spec => []Event!EventInv
<1>1. Event!Init => Event!EventInv
  <2> SUFFICES ASSUME Event!Init PROVE Event!EventInv
    OBVIOUS
  <2>1. Event!MutexInv /\ ~Event!InFlight /\ pending = 0
    BY EventMutexInit DEF Event!Init, Event!MutexInit, Event!InFlight
  <2> QED BY <2>1 DEF Event!EventInv, Event!TypeOK, Event!MutexInv, Event!OneEventPerRequest
<1>2. Event!EventInv /\ [Event!Next]_(Event!eventVars) => Event!EventInv'
  <2> SUFFICES ASSUME Event!EventInv, [Event!Next]_(Event!eventVars) PROVE Event!EventInv'
    OBVIOUS
  <2>1. Event!MutexInv /\ Event!dstEvent \in BOOLEAN
    BY DEF Event!EventInv, Event!dstEvent, Event!dstLocked
  <2>2. CASE Event!SrcCycle
    <3> PICK request \in BOOLEAN :
          /\ Event!MayRequest(request)
          /\ Event!MutexSrcEdge(request)
          /\ Event!Counted(request, FALSE)
      BY <2>2 DEF Event!SrcCycle
    <3>1. Event!MutexInv'
      BY <2>1, EventMutexSteps DEF Event!MayRequest, Event!srcReady
    <3>2. /\ evtForwardSwitch' = Event!Toggled(evtForwardSwitch, request)
          /\ evtBackwardSwitch' = Event!Toggled(evtBackwardSwitch, FALSE)
      BY DEF Event!MutexSrcEdge, Event!MutexSrcFlops, Event!Toggled
    <3> QED BY <3>1, <3>2, CounterFollows DEF Event!MayRequest
  <2>3. CASE Event!DstCycle
    <3>1. Event!MutexInv'
      BY <2>1, <2>3, EventMutexSteps DEF Event!DstCycle, Event!dstEvent
    <3>2. /\ evtForwardSwitch' = Event!Toggled(evtForwardSwitch, FALSE)
          /\ evtBackwardSwitch' = Event!Toggled(evtBackwardSwitch, Event!dstEvent)
      BY <2>3 DEF Event!DstCycle, Event!MutexDstEdge, Event!MutexDstFlops, Event!Toggled
    <3> QED BY <2>1, <2>3, <3>1, <3>2, CounterFollows DEF Event!DstCycle
  <2>4. CASE Event!BothCycles
    <3> PICK request \in BOOLEAN :
          /\ Event!MayRequest(request)
          /\ Event!MutexBothEdges(request, Event!dstEvent)
          /\ Event!Counted(request, Event!dstEvent)
      BY <2>4 DEF Event!BothCycles
    <3>1. Event!MutexInv'
      BY <2>1, EventMutexSteps DEF Event!MayRequest, Event!srcReady, Event!dstEvent
    <3>2. /\ evtForwardSwitch' = Event!Toggled(evtForwardSwitch, request)
          /\ evtBackwardSwitch' = Event!Toggled(evtBackwardSwitch, Event!dstEvent)
      BY DEF Event!MutexBothEdges, Event!MutexSrcFlops, Event!MutexDstFlops
    <3> QED BY <2>1, <3>1, <3>2, CounterFollows DEF Event!MayRequest
  <2>5. CASE Event!Reset
    <3>1. Event!MutexInv' /\ ~Event!InFlight' /\ pending' = 0
      BY <2>1, <2>5, EventMutexSteps DEF Event!Reset, Event!MutexReset, Event!InFlight
    <3> QED BY <3>1 DEF Event!EventInv, Event!TypeOK, Event!MutexInv, Event!OneEventPerRequest
  <2>6. CASE UNCHANGED Event!eventVars
    <3>1. UNCHANGED <<evtForwardSwitch, evtForwardPipe, evtBackwardSwitch, evtBackwardPipe, pending>>
      BY <2>6 DEF Event!eventVars, Event!mutexVars
    <3> QED BY <3>1 DEF Event!EventInv, Event!TypeOK, Event!MutexInv, Event!MutexTypeOK, Event!OneFront,
                        Event!OneEventPerRequest, Event!InFlight
  <2> QED BY <2>2, <2>3, <2>4, <2>5, <2>6 DEF Event!Next
<1> QED BY <1>1, <1>2, PTL DEF Event!Spec

(* Requests and events match one to one (CdcEvent.sv:17).                   *)
THEOREM EventPerRequest == Event!Spec => []Event!OneEventPerRequest
  BY EventInvariant, PTL DEF Event!EventInv

----------------------------------------------------------------------------
(* The bench: the gate and the event run side by side.                      *)

(* Every step of the bench is a step of the gate and one of the event.      *)
LEMMA BenchStep ==
  [BenchNext]_benchVars => [Next]_vars /\ [Event!Next]_(Event!eventVars)
<1> SUFFICES ASSUME [BenchNext]_benchVars
             PROVE  [Next]_vars /\ [Event!Next]_(Event!eventVars)
  OBVIOUS
<1>1. CASE SrcClock
  BY <1>1 DEF SrcClock, Next, Event!Next
<1>2. ASSUME NEW read \in BOOLEAN, DstClock(read) \/ BothClocks(read)
      PROVE  [Next]_vars /\ [Event!Next]_(Event!eventVars)
  BY <1>2 DEF DstClock, BothClocks, Next, Event!Next
<1>3. CASE BenchReset
  BY <1>3 DEF BenchReset, Next, Event!Next
<1>4. CASE UNCHANGED benchVars
  BY <1>4 DEF benchVars
<1> QED BY <1>1, <1>2, <1>3, <1>4 DEF BenchNext

(* So the bench runs the gate ...                                           *)
LEMMA BenchRunsGate == BenchSpec => Spec
  BY BenchStep, PTL DEF BenchSpec, BenchInit, Spec

(* ... and the event.                                                       *)
LEMMA BenchRunsEvent == BenchSpec => Event!Spec
  BY BenchStep, PTL DEF BenchSpec, BenchInit, Event!Spec

(* Next to a gate between the same domains each request is one event.       *)
THEOREM BenchEventPerRequest == BenchSpec => []OneEventPerRequest
  BY BenchRunsEvent, EventPerRequest, PTL DEF OneEventPerRequest

(* Next to an event the gate shows what was written.                        *)
THEOREM BenchShowsWritten == BenchSpec => []OpenShowsWritten
  BY BenchRunsGate, GateShowsWritten, PTL

(* ... is a FIFO of size one ...                                            *)
THEOREM BenchIsOneSlot == BenchSpec => OneSlotSpec
  BY BenchRunsGate, GateIsOneSlot, PTL

(* ... and neither its mutex nor the one of the event is ever locked in both *)
(* domains at once (CdcMutex.sv:62, 63).                                    *)
THEOREM BenchExclusion == BenchSpec => [](MutualExclusion /\ Event!MutualExclusion)
<1>1. GateInv => MutualExclusion
  BY InvExcludes DEF GateInv
<1>2. Event!EventInv => Event!MutualExclusion
  BY SMT DEF Event!EventInv, Event!MutexInv, Event!MutexTypeOK, Event!OneFront,
             Event!MutualExclusion, Event!srcLocked, Event!dstLocked,
             Event!srcBackwardSwitch, Event!dstForwardSwitch, Event!Pipe, Event!Bit
<1> QED BY <1>1, <1>2, BenchRunsGate, GateInvariant, BenchRunsEvent, EventInvariant, PTL
=============================================================================
