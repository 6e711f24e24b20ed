---------------------------- MODULE SiCoControl ----------------------------
(* The control protocol between a Python program (sico/python/sico/comm.py) *)
(* and a simulator that loads the C++ library (sico/cpp/SiCo.cc) through    *)
(* VPI (sico/vpi/SiCoVpi.cc): breaks, the tick-tock that reports the        *)
(* simulation time, and the shutdown.                                       *)
(*                                                                          *)
(* Four threads of control: the user of Breaks and Waits, the task ccRunCtrl*)
(* of the Python Control, ctrlThread of the C++ Control, and the simulator, *)
(* which calls $SiCoVpiTick.  The two directions of the connection are      *)
(* queues; loss of the connection is the business of SiCoConnections.       *)
EXTENDS Integers, Sequences, SequencesExt

CONSTANTS
    Breaks,         \* uids of the Breaks the user makes, all above 1
    TickPeriod,     \* simulation time between two ticks
    Waits,          \* the Waits the user makes
    MaxTime,        \* bound: simulation time is not counted beyond it
    MaxRequest,     \* bound on the times the user asks a Break for
    Relative,       \* may times be relative to now, absolute, or either?
    None            \* no time yet

ASSUME ControlAssumption ==
    /\ \A b \in Breaks : b \in Nat /\ b > 1
    /\ TickPeriod \in Nat \ {0} /\ MaxTime \in Nat /\ MaxRequest \in Nat
    /\ Relative \subseteq BOOLEAN
    /\ None \notin Nat

VARIABLES
    \* Python
    requests,       \* the Breaks made so far, released or not
    breaks,         \* keys of Control.breaks
    thresh,         \* Break.thresh: time it is promised to stop at
    stopped,        \* Break.stopped: time it did stop at
    now,            \* Control.now
    waitThresh,     \* Wait.thresh
    waits,          \* Control.waits
    waitHit,        \* Wait.hitTime
    ctrlRuns,       \* task ccRunCtrl has not ended by an exception
    shutdownRequest,
    \* connection
    toSim, toPy,
    \* simulator
    nowAt,          \* Control::nowAt
    breakList,      \* Control::breakList
    phase           \* where the simulator stands in $SiCoVpiTick

breakVars == <<requests, breaks, thresh, stopped>>
waitVars == <<waitThresh, waits, waitHit>>
pyVars == <<breakVars, waitVars, now, ctrlRuns, shutdownRequest>>
simVars == <<nowAt, breakList, phase>>
vars == <<pyVars, toSim, toPy, simVars>>

BreakType == {"hold", "stop", "finish"}

NewBreak(id, type, time, rel) ==
    [id |-> id, type |-> type, thresh |-> time, rel |-> rel, ack |-> FALSE, hit |-> FALSE]

Init ==
    /\ requests = {} /\ breaks = {}
    /\ thresh = [b \in Breaks |-> None]
    /\ stopped = [b \in Breaks |-> None]
    /\ waitThresh = [w \in Waits |-> None]
    /\ waits = {}
    /\ waitHit = [w \in Waits |-> None]
    /\ now = 0 /\ ctrlRuns = TRUE /\ shutdownRequest = FALSE
    /\ toSim = <<[cmd |-> "tick"]>>
    /\ toPy = <<>>
    /\ nowAt = 0
    /\ breakList = <<>>
    /\ phase = "hold"       \* the first tick reports time 0

----------------------------------------------------------------------------
(* The user.                                                                *)

(* setBreak: ccRequest enters the Break and sends addBreak.  Breaks are     *)
(* numbered in the order they are made.                                     *)
Request(b, type, time, rel) ==
    /\ b \notin requests /\ \A c \in Breaks : c < b => c \in requests
    /\ requests' = requests \cup {b}
    /\ breaks' = breaks \cup {b}
    /\ toSim' = Append(toSim, [cmd |-> "addBreak", id |-> b, type |-> type,
                               time |-> time, rel |-> rel])
    /\ UNCHANGED <<waitVars, thresh, stopped, now, ctrlRuns, shutdownRequest, toPy, simVars>>

(* ccRelease deletes the Break and sends remBreak, whatever is known of it. *)
Release(b) ==
    /\ b \in breaks
    /\ breaks' = breaks \ {b}
    /\ toSim' = Append(toSim, [cmd |-> "remBreak", id |-> b])
    /\ UNCHANGED <<waitVars, requests, thresh, stopped, now, ctrlRuns, shutdownRequest, toPy, simVars>>

(* The user releases a Break he has seen stop (test_hold.py:28-38).         *)
UserRelease(b) == stopped[b] # None /\ Release(b)

(* Wait.__init__ reads the time in the user's thread; ccRegister runs later *)
(* in the event loop, when that time may be past.                           *)
MakeWait(w, time, rel) ==
    /\ waitThresh[w] = None
    /\ waitThresh' = [waitThresh EXCEPT ![w] = IF rel THEN now + time ELSE time]
    /\ UNCHANGED <<breakVars, waits, waitHit, now, ctrlRuns, shutdownRequest, toSim, toPy, simVars>>

Register(w) ==
    /\ waitThresh[w] # None /\ w \notin waits /\ waitHit[w] = None
    /\ waits' = waits \cup {w}
    /\ UNCHANGED <<breakVars, waitThresh, waitHit, now, ctrlRuns, shutdownRequest, toSim, toPy, simVars>>

(* Mutant: a Wait is over only after its time.                              *)
CheckWaitsLate(time) ==
    LET over == {w \in waits : waitThresh[w] < time}
    IN  /\ waits' = waits \ over
        /\ waitHit' = [w \in Waits |-> IF w \in over THEN time ELSE waitHit[w]]

CheckWaits(time) ==
    LET over == {w \in waits : waitThresh[w] <= time}
    IN  /\ waits' = waits \ over
        /\ waitHit' = [w \in Waits |-> IF w \in over THEN time ELSE waitHit[w]]

(* Task ccRunCtrl: one turn of its loop, ccProcess.  An ack or hit of a     *)
(* break that is not (or no longer) in self.breaks raises KeyError and ends *)
(* the task.                                                                *)
ProcessTock(msg) ==
    /\ msg.cmd = "tock"
    /\ now' = msg.time
    /\ CheckWaits(msg.time)
    /\ toSim' = Append(toSim, [cmd |-> "tick"])
    /\ UNCHANGED <<thresh, stopped, ctrlRuns, shutdownRequest>>

ProcessAck(msg) ==
    /\ msg.cmd = "ackBreak"
    /\ IF msg.id \in breaks
       THEN thresh' = [thresh EXCEPT ![msg.id] = msg.time] /\ UNCHANGED ctrlRuns
       ELSE ctrlRuns' = FALSE /\ UNCHANGED thresh
    /\ UNCHANGED <<waits, waitHit, stopped, now, shutdownRequest, toSim>>

ProcessHit(msg) ==
    /\ msg.cmd = "hitBreak"
    /\ IF msg.id \in breaks
       THEN stopped' = [stopped EXCEPT ![msg.id] = msg.time] /\ UNCHANGED ctrlRuns
       ELSE ctrlRuns' = FALSE /\ UNCHANGED stopped
    /\ UNCHANGED <<waits, waitHit, thresh, now, shutdownRequest, toSim>>

ProcessShutdown(msg) ==
    /\ msg.cmd = "shutdown"
    /\ shutdownRequest' = TRUE
    /\ UNCHANGED <<waits, waitHit, thresh, stopped, now, ctrlRuns, toSim>>

RunCtrl ==
    /\ ctrlRuns
    /\ toPy # <<>>
    /\ LET msg == Head(toPy)
       IN  ProcessTock(msg) \/ ProcessAck(msg) \/ ProcessHit(msg) \/ ProcessShutdown(msg)
    /\ toPy' = Tail(toPy)
    /\ UNCHANGED <<requests, breaks, waitThresh, simVars>>

----------------------------------------------------------------------------
(* ctrlThread of the simulator: one turn of ctrlRun, ctrlProcess.           *)

Running == phase \notin {"exited", "crashed"}

Index(id) == {i \in 1 .. Len(breakList) : breakList[i].id = id}

ReceiveTick(msg) ==
    /\ msg.cmd = "tick"
    /\ toPy' = Append(toPy, [cmd |-> "tock", time |-> nowAt])
    /\ UNCHANGED <<breakList, phase>>

ReceiveAddBreak(msg) ==
    /\ msg.cmd = "addBreak"
    /\ breakList' = Append(breakList, NewBreak(msg.id, msg.type, msg.time, msg.rel))
    /\ UNCHANGED <<toPy, phase>>

(* An unknown id throws out of the thread, which terminates the simulator.  *)
ReceiveRemBreak(msg) ==
    /\ msg.cmd = "remBreak"
    /\ IF Index(msg.id) = {}
       THEN phase' = "crashed" /\ UNCHANGED breakList
       ELSE LET first == CHOOSE i \in Index(msg.id) : \A j \in Index(msg.id) : i <= j
            IN  breakList' = RemoveAt(breakList, first) /\ UNCHANGED phase
    /\ UNCHANGED toPy

CtrlRun ==
    /\ Running
    /\ toSim # <<>>
    /\ LET msg == Head(toSim)
       IN  ReceiveTick(msg) \/ ReceiveAddBreak(msg) \/ ReceiveRemBreak(msg)
    /\ toSim' = Tail(toSim)
    /\ UNCHANGED <<pyVars, nowAt>>

----------------------------------------------------------------------------
(* The simulator thread.  checkBreak walks breakList under breakMutex:      *)
(* every new break is acknowledged, every break of the given type that is   *)
(* due is hit.                                                              *)

Later(s, t) == IF s < t THEN t ELSE s

(* Mutant: the time acknowledged may be in the past.                        *)
AckedPast(b) ==
    IF b.ack THEN b
    ELSE [b EXCEPT !.ack = TRUE, !.thresh = IF b.rel THEN b.thresh + nowAt ELSE b.thresh]

Acked(b) ==
    IF b.ack THEN b
    ELSE [b EXCEPT !.ack = TRUE,
                   !.thresh = Later(IF b.rel THEN b.thresh + nowAt ELSE b.thresh, nowAt)]

Due(b, type) == b.type = type /\ Acked(b).thresh <= nowAt

Checked(b, type) == IF Due(b, type) THEN [Acked(b) EXCEPT !.hit = TRUE] ELSE Acked(b)

(* Mutant: a break is announced at every look while it is due.              *)
AnnouncedAgain(b, type) ==
    (IF b.ack THEN <<>> ELSE <<[cmd |-> "ackBreak", id |-> b.id, time |-> Acked(b).thresh]>>)
    \o (IF Due(b, type) THEN <<[cmd |-> "hitBreak", id |-> b.id, time |-> nowAt]>> ELSE <<>>)

Announced(b, type) ==
    (IF b.ack THEN <<>> ELSE <<[cmd |-> "ackBreak", id |-> b.id, time |-> Acked(b).thresh]>>)
    \o (IF Due(b, type) /\ ~b.hit
        THEN <<[cmd |-> "hitBreak", id |-> b.id, time |-> nowAt]>> ELSE <<>>)

AnyDue(type) == \E i \in 1 .. Len(breakList) : Due(breakList[i], type)

(* Mutant: only breaks of the type asked for are looked at.                 *)
CheckBreakOfType(type, last) ==
    /\ breakList' = [i \in 1 .. Len(breakList) |->
           IF breakList[i].type = type THEN Checked(breakList[i], type) ELSE breakList[i]]
    /\ toPy' = toPy \o FlattenSeq([i \in 1 .. Len(breakList) |->
           IF breakList[i].type = type THEN Announced(breakList[i], type) ELSE <<>>]) \o last

(* last is what the caller sends after checkBreak.                          *)
CheckBreak(type, last) ==
    /\ breakList' = [i \in 1 .. Len(breakList) |-> Checked(breakList[i], type)]
    /\ toPy' = toPy \o FlattenSeq([i \in 1 .. Len(breakList) |-> Announced(breakList[i], type)])
                    \o last

(* reportTime at the next tick; simulation time is not told apart beyond    *)
(* MaxTime.                                                                 *)
Tick ==
    /\ phase = "idle"
    /\ nowAt' = IF nowAt + TickPeriod > MaxTime THEN nowAt ELSE nowAt + TickPeriod
    /\ phase' = "hold"
    /\ UNCHANGED <<pyVars, toSim, toPy, breakList>>

(* Mutant: the hold is checked but does not hold.                           *)
WaitHoldNot ==
    /\ phase = "hold"
    /\ CheckBreak("hold", <<>>)
    /\ phase' = "stop"
    /\ UNCHANGED <<pyVars, toSim, nowAt>>

(* waitHold: one check of its loop, the first one or one after a wake-up by *)
(* breakCond or its timeout.                                                *)
WaitHold ==
    /\ phase = "hold"
    /\ CheckBreak("hold", <<>>)
    /\ phase' = IF AnyDue("hold") THEN "hold" ELSE "stop"
    /\ UNCHANGED <<pyVars, toSim, nowAt>>

(* vpiStop hands control to the simulator's own prompt; the user of the     *)
(* simulator lets it continue.                                              *)
CheckStop ==
    /\ phase = "stop"
    /\ CheckBreak("stop", <<>>)
    /\ phase' = "finish"
    /\ UNCHANGED <<pyVars, toSim, nowAt>>

CheckFinish ==
    /\ phase = "finish"
    /\ CheckBreak("finish", IF AnyDue("finish") THEN <<[cmd |-> "shutdown"]>> ELSE <<>>)
    /\ phase' = IF AnyDue("finish") THEN "finished" ELSE "idle"
    /\ UNCHANGED <<pyVars, toSim, nowAt>>

(* vpiFinish: the process ends, with whatever sendThread has not sent yet;  *)
(* nothing sets draining, so nothing waits for it.                          *)
Exit ==
    /\ phase = "finished"
    /\ phase' = "exited"
    /\ \E sent \in 0 .. Len(toPy) : toPy' = SubSeq(toPy, 1, sent)
    /\ UNCHANGED <<pyVars, toSim, nowAt, breakList>>

SimStep == Tick \/ WaitHold \/ CheckStop \/ CheckFinish \/ Exit

Next ==
    \/ \E b \in Breaks, type \in BreakType, time \in 0 .. MaxRequest, rel \in Relative :
           Request(b, type, time, rel)
    \/ \E b \in Breaks : UserRelease(b)
    \/ \E w \in Waits, time \in 0 .. MaxTime, rel \in Relative : MakeWait(w, time, rel)
    \/ \E w \in Waits : Register(w)
    \/ RunCtrl \/ CtrlRun \/ SimStep

Spec == Init /\ [][Next]_vars
Fairness ==
    /\ WF_vars(RunCtrl) /\ WF_vars(CtrlRun) /\ WF_vars(SimStep)
    /\ \A w \in Waits : WF_vars(Register(w))
FairSpec == Spec /\ Fairness

----------------------------------------------------------------------------

(* The command processor of the Python side lives: "TickTock - (continuous  *)
(* back and forth)" (SiCo.h:196) depends on it, as do acks and hits.        *)
CtrlRuns == ctrlRuns

(* A remBreak always finds its break, so ctrlThread never throws.           *)
RemBreakFinds == phase # "crashed"

(* Breaks released before Python knew of their hit, as a Channel may do.    *)
ReleasedUnhit == {b \in requests \ breaks : stopped[b] = None}

(* Neither command processor is ended by a message about a break that only  *)
(* the other side has, unless one was released before its hit was known:    *)
(* acks, hits and removals that cross on the way find their break.          *)
ControlsRun == RemBreakFinds /\ (ReleasedUnhit = {} => CtrlRuns)

(* A hold that Python knows to be hit holds: until it is released the       *)
(* simulation time stays where Python was told it stopped.                  *)
HoldHolds == \A b \in breaks :
    stopped[b] # None /\ (\E i \in Index(b) : breakList[i].type = "hold") =>
        nowAt = stopped[b] /\ phase = "hold"

(* "get the time the break is promised to Stop" (comm.py:248): no break     *)
(* stops before the time promised, and none later than the tick after it.   *)
PromiseKept == \A b \in Breaks : stopped[b] # None =>
    /\ thresh[b] # None
    /\ thresh[b] <= stopped[b] /\ stopped[b] <= thresh[b] + TickPeriod

(* Every break asked for is acknowledged, even while another one holds the  *)
(* simulation, unless it is released or the simulator finishes first.       *)
BreakAcked == \A b \in Breaks :
    b \in breaks ~> thresh[b] # None \/ b \notin breaks \/ phase \in {"finished", "exited"}

(* A Wait is over as soon as Python knows its time, even one registered     *)
(* after that time in a simulation that holds.                              *)
WaitEnds == \A w \in Waits :
    waitThresh[w] # None /\ waitThresh[w] <= now ~> waitHit[w] # None \/ phase \in {"finished", "exited"}

(* The tick-tock brings every time the simulator reached to Python.         *)
TickTock == \A t \in 1 .. MaxTime :
    nowAt >= t ~> now >= t \/ phase \in {"finished", "exited"}

(* Whatever holds the simulation, the two sides keep talking.               *)
TalkGoesOn == BreakAcked /\ TickTock
=============================================================================
