---------------------------- MODULE SiCoChannel ----------------------------
(* A Channel of the Python side (sico/python/sico/comm.py) beside the user  *)
(* of Breaks: its task ccRunSend takes what comes over the socket "outgo"   *)
(* and holds the simulation for the length of a frame, whose items it moves *)
(* to a time the simulation has not reached.                                *)
EXTENDS SiCoControl

CONSTANTS
    Margin,         \* Channel.breakMargin
    MaxItems        \* bound on the items sent, each at most one tick after another

ASSUME ChannelAssumption == Margin \in Nat /\ MaxItems \in Nat

VARIABLES
    breakPoint,     \* Channel.breakPoint
    offset,         \* Channel.offset
    pos,            \* Channel.pos
    items,          \* how many items were sent
    last,           \* the time of the last one in its frame
    late            \* an item of a frame reached the simulation after its time

channelVars == <<breakPoint, offset, pos, items, last>>
allVars == <<vars, channelVars, late>>

ChannelInit ==
    /\ Init
    /\ breakPoint = None /\ offset = None /\ pos = 0 /\ items = 0 /\ last = 0 /\ late = FALSE

(* ccRunSend, up to the promise it waits for.                               *)
FrameStart ==
    /\ breakPoint = None
    /\ \E b \in Breaks : Request(b, "hold", 0, TRUE) /\ breakPoint' = b
    /\ UNCHANGED <<offset, pos, items, last, late>>

(* Mutant: the frame starts at the time promised.                           *)
PromisedNoMargin ==
    /\ breakPoint # None /\ offset = None /\ thresh[breakPoint] # None
    /\ offset' = Later(thresh[breakPoint], pos)
    /\ UNCHANGED <<vars, breakPoint, pos, items, last, late>>

(* Mutant: a frame starts wherever the last one ended.                      *)
PromisedAnew ==
    /\ breakPoint # None /\ offset = None /\ thresh[breakPoint] # None
    /\ offset' = thresh[breakPoint] + Margin
    /\ UNCHANGED <<vars, breakPoint, pos, items, last, late>>

Promised ==
    /\ breakPoint # None /\ offset = None /\ thresh[breakPoint] # None
    /\ offset' = Later(thresh[breakPoint] + Margin, pos)
    /\ UNCHANGED <<vars, breakPoint, pos, items, last, late>>

(* An item, which in a frame comes after the last one; one outside of a     *)
(* frame goes out as it is.                                                 *)
SendItem(time) ==
    /\ breakPoint # None => offset # None
    /\ items < MaxItems /\ items' = items + 1
    /\ last <= time /\ last' = IF offset # None THEN time ELSE 0
    /\ IF offset # None
       THEN /\ pos' = offset + time
            /\ toSim' = Append(toSim, [cmd |-> "item", framed |-> TRUE, time |-> pos'])
       ELSE /\ toSim' = Append(toSim, [cmd |-> "item", framed |-> FALSE, time |-> time])
            /\ UNCHANGED pos
    /\ UNCHANGED <<pyVars, toPy, simVars, breakPoint, offset, late>>

(* The end of the frame does not wait for the hold to be hit.               *)
FrameEnd ==
    /\ offset # None
    /\ Release(breakPoint)
    /\ breakPoint' = None /\ offset' = None /\ last' = 0
    /\ UNCHANGED <<pos, items, late>>

(* The user of the simulation leaves the Break of the Channel alone; a Wait *)
(* has no part in a frame.                                                  *)
User ==
    /\ \/ \E b \in Breaks, type \in BreakType, time \in 0 .. MaxRequest, rel \in Relative :
              Request(b, type, time, rel)
       \/ \E b \in Breaks \ {breakPoint} : UserRelease(b)
    /\ UNCHANGED <<channelVars, late>>

(* The simulator: an item reaches the queue of its channel.                 *)
Dispatch ==
    /\ Running
    /\ toSim # <<>> /\ Head(toSim).cmd = "item"
    /\ toSim' = Tail(toSim)
    /\ late' = (late \/ (Head(toSim).framed /\ Head(toSim).time < nowAt))
    /\ UNCHANGED <<pyVars, toPy, simVars, channelVars>>

Channel ==
    \/ FrameStart \/ Promised \/ FrameEnd
    \/ \E time \in 0 .. MaxRequest : SendItem(time)

ChannelNext ==
    \/ User \/ Channel \/ Dispatch
    \/ (RunCtrl \/ CtrlRun \/ SimStep) /\ UNCHANGED <<channelVars, late>>

ChannelSpec == ChannelInit /\ [][ChannelNext]_allVars

----------------------------------------------------------------------------
(* An item of a frame is in the simulator before the simulation is past its *)
(* time, although the hold the frame asks for is met up to a tick after the *)
(* time promised for it.                                                    *)
ItemsOnTime == ~late

(* Over all frames the times of the items never decrease.                   *)
ItemsInOrder == [][pos' >= pos]_allVars
=============================================================================
