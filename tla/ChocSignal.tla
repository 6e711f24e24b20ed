----------------------------- MODULE ChocSignal -----------------------------
(* A signal made of values and times and looked at by a user's thread: an    *)
(* Input, or a Range with an IntToBits, and a Clock feed a TimedSignal, the  *)
(* changes of which a Probe receives (choc/items.py).  Each item runs in a   *)
(* task of its own; its sockets are gates, where what is sent stays on offer *)
(* until it is received (ChocGate), so that a gate holds one value or None.  *)
EXTENDS ChocTypes, TLC

CONSTANTS
    Values,     \* the vectors that are fed to an Input
    Ranges,     \* the start, stop and step of a Range, and a width
    Clocks,     \* the typ, start, period and stop of a Clock
    MaxFeeds,   \* bound: how many values are fed
    Limits,     \* which times nextEdge is limited to, counted in periods
    PipeEnd     \* PipeOffband.PipeEnd

(* Range.run and IntToBits.convert.                                          *)
Ranged(r) ==
    [i \in 1 .. (r.stop - r.start + r.step - 1) \div r.step |->
        Bits(r.start + (i - 1) * r.step, r.width)]

Vectors == Values \cup UNION {{Ranged(r)[i] : i \in DOMAIN Ranged(r)} : r \in Ranges}
Times == [typ : {"period", "cycle"}, val : Int]
AnyChange == [value : Vectors, time : Times, sync : BOOLEAN]

ASSUME SignalAssumption ==
    /\ \A val \in Values : Len(val) > 0 /\ \A i \in DOMAIN val : val[i] \in L9
    /\ Ranges \subseteq [start : Nat, stop : Nat, step : Nat \ {0}, width : Nat \ {0}]
    /\ Clocks \subseteq [typ : {"period", "cycle"}, start : Times, period : Times,
                         stop : Times \cup {None}]
    /\ \A c \in Clocks : c.period.val > 0 /\ c.period.typ = c.typ /\ c.start.typ = c.typ
    /\ MaxFeeds \in Nat /\ Limits \subseteq Nat
    /\ None # PipeEnd
    /\ \A offband \in {None, PipeEnd} :
           offband \notin Vectors \cup Times \cup AnyChange

VARIABLES
    fed,        \* the values of Input.queue or of the Range
    closed,     \* a PipeEnd follows them
    source,     \* how many of them were sent, that PipeEnd included
    clock,      \* the Clock, the next time it sends, and whether it has ended
    gates,      \* what is on offer to TimedSignal, and by it
    signal,     \* TimedSignal: what it waits for, its val and chg
    probe,      \* Probe: pos and the two values
    call        \* the user's call of Probe, its begin and its answer

signalVars == <<fed, closed, source, clock, gates, signal, probe, call>>

SignalInit ==
    /\ \/ fed = <<>> /\ closed = FALSE
       \/ fed \in {Ranged(r) : r \in Ranges} /\ closed = TRUE
    /\ source = 0
    /\ \E c \in Clocks : clock = [made |-> c, now |-> c.start, ended |-> FALSE]
    /\ gates = [in |-> None, clk |-> None, out |-> None]
    /\ signal = [at |-> "in", val |-> None, chg |-> None]
    /\ probe = [pos |-> zero("period"), first |-> None, second |-> None]
    /\ call = [at |-> "none"]

----------------------------------------------------------------------------
(* Input.feed and Input.close, of a user's thread.                           *)
Feed(val) ==
    /\ ~closed /\ Len(fed) < MaxFeeds
    /\ fed' = Append(fed, val)
    /\ UNCHANGED <<closed, source, clock, gates, signal, probe, call>>

Close ==
    /\ ~closed /\ closed' = TRUE
    /\ UNCHANGED <<fed, source, clock, gates, signal, probe, call>>

(* Input.run and Range.run.                                                  *)
SourceSends ==
    /\ gates.in = None
    /\ source < Len(fed) + IF closed THEN 1 ELSE 0
    /\ source' = source + 1
    /\ gates' = [gates EXCEPT !.in = IF source < Len(fed) THEN fed[source'] ELSE PipeEnd]
    /\ UNCHANGED <<fed, closed, clock, signal, probe, call>>

(* Clock.run.                                                                *)
ClockSends ==
    /\ gates.clk = None /\ ~clock.ended
    /\ IF clock.made.stop = None \/ comp(clock.now, clock.made.stop) < 0
       THEN /\ gates' = [gates EXCEPT !.clk = clock.now]
            /\ clock' = [clock EXCEPT !.now = plus(@, clock.made.period)]
       ELSE /\ gates' = [gates EXCEPT !.clk = PipeEnd]
            /\ clock' = [clock EXCEPT !.ended = TRUE]
    /\ UNCHANGED <<fed, closed, source, signal, probe, call>>

(* TimedSignal.run.  At a PipeEnd the last change is repeated as one that is *)
(* not sync; without a last change the task ends with an AttributeError.     *)
Ends(gate) ==
    IF signal.chg = None
    THEN /\ signal' = [signal EXCEPT !.at = "failed"]
         /\ gates' = [gates EXCEPT ![gate] = None]
    ELSE /\ signal' = [signal EXCEPT !.at = "end"]
         /\ gates' = [gates EXCEPT ![gate] = None, !.out = [signal.chg EXCEPT !.sync = FALSE]]

TakesValue ==
    /\ signal.at = "in" /\ gates.out = None /\ gates.in # None
    /\ IF gates.in = PipeEnd THEN Ends("in")
       ELSE /\ signal' = [signal EXCEPT !.at = "clk", !.val = gates.in]
            /\ gates' = [gates EXCEPT !.in = None]
    /\ UNCHANGED <<fed, closed, source, clock, probe, call>>

TakesTime ==
    /\ signal.at = "clk" /\ gates.clk # None
    /\ IF gates.clk = PipeEnd THEN Ends("clk")
       ELSE LET chg == Change(signal.val, gates.clk, TRUE) IN
            /\ signal' = [signal EXCEPT !.at = "in", !.chg = chg]
            /\ gates' = [gates EXCEPT !.clk = None, !.out = chg]
    /\ UNCHANGED <<fed, closed, source, clock, probe, call>>

SendsEnd ==
    /\ signal.at = "end" /\ gates.out = None
    /\ signal' = [signal EXCEPT !.at = "ended"]
    /\ gates' = [gates EXCEPT !.out = PipeEnd]
    /\ UNCHANGED <<fed, closed, source, clock, probe, call>>

----------------------------------------------------------------------------
(* Probe.                                                                    *)
Busy == call.at \in {"begin", "align"}

(* Times a user asks for: those of the changes, and between them.            *)
Positions ==
    {Tme("period", clock.made.start.val + k * clock.made.period.val - d) :
        k \in 0 .. MaxFeeds, d \in {0, 1}}

EdgeLimits ==
    {Tme("period", clock.made.start.val + k * clock.made.period.val) : k \in Limits}

(* The times of a Clock of cycles cannot be compared with those of a Probe.  *)
MayCall == ~Busy /\ comparable(clock.now, probe.pos)

(* Probe.seek asserts that it does not go back.                              *)
Seek(pos) ==
    /\ MayCall /\ comp(pos, probe.pos) > 0
    /\ probe' = [probe EXCEPT !.pos = pos]
    /\ call' = [at |-> "none"]
    /\ UNCHANGED <<fed, closed, source, clock, gates, signal>>

(* Probe.read and Probe.nextEdge.  A maxTime before pos would bring pos back.*)
Called(op, edge, maxTime) ==
    [at |-> "begin", op |-> op, from |-> probe.pos, edge |-> edge, maxTime |-> maxTime,
     raised |-> FALSE, value |-> None]

Read ==
    /\ MayCall
    /\ call' = Called("read", None, None)
    /\ UNCHANGED <<fed, closed, source, clock, gates, signal, probe>>

NextEdge(edge, maxTime) ==
    /\ MayCall /\ (maxTime # None => comp(maxTime, probe.pos) >= 0)
    /\ call' = Called("edge", edge, maxTime)
    /\ UNCHANGED <<fed, closed, source, clock, gates, signal, probe>>

(* Probe._align: what it has yet to receive for pos to be between the values.*)
(* The end of the pipe is a value without a time.                            *)
Missing ==
    IF probe.first = None THEN "first"
    ELSE IF call.at = "begin" /\ call.op = "read" /\ probe.pos = probe.first.time THEN "none"
    ELSE IF probe.second = None THEN "second"
    ELSE IF probe.second = PipeEnd THEN "none"
    ELSE IF comp(probe.pos, probe.second.time) >= 0 THEN "next" ELSE "none"

(* Mutant: the first of the values stays.                                    *)
ReceivedKeeps(chg) ==
    IF Missing = "first" THEN [probe EXCEPT !.first = chg] ELSE [probe EXCEPT !.second = chg]

Received(chg) ==
    CASE Missing = "first"  -> [probe EXCEPT !.first = chg]
      [] Missing = "second" -> [probe EXCEPT !.second = chg]
      [] Missing = "next"   -> [probe EXCEPT !.first = probe.second, !.second = chg]

Receives ==
    /\ Busy /\ Missing # "none" /\ gates.out # None
    /\ probe' = Received(gates.out)
    /\ call' = [call EXCEPT !.at = IF Missing = "first" THEN @ ELSE "align"]
    /\ gates' = [gates EXCEPT !.out = None]
    /\ UNCHANGED <<fed, closed, source, clock, signal>>

(* What a call ends with: a value, or an AttributeError.                     *)
Answer(value) == [call EXCEPT !.at = "answered", !.value = value]
Raised == [call EXCEPT !.at = "answered", !.raised = TRUE]

(* Probe.ccRead.                                                             *)
ReadEnds ==
    /\ Busy /\ call.op = "read" /\ Missing = "none"
    /\ call' = IF probe.second \in {None, PipeEnd} THEN Raised
               ELSE Answer(IF probe.pos = probe.second.time THEN probe.second.value
                           ELSE probe.first.value)
    /\ UNCHANGED <<fed, closed, source, clock, gates, signal, probe>>

(* Mutant: a falling edge is any change to 0.                                *)
IsEdgeToZero(before, after, edge) ==
    /\ before # after
    /\ CASE edge = "pos" -> before[1] = 0 /\ after[1] = 1
         [] edge = "neg" -> after[1] = 0
         [] edge = "any" -> TRUE

(* The edges of vectors are those of their bit 0.                            *)
IsEdge(before, after, edge) ==
    /\ before # after
    /\ CASE edge = "pos" -> before[1] = 0 /\ after[1] = 1
         [] edge = "neg" -> before[1] = 1 /\ after[1] = 0
         [] edge = "any" -> TRUE

(* Probe.ccNextEdge, between two calls of _align.                            *)
EdgeEnds ==
    LET first  == probe.first
        second == probe.second
    IN  /\ Busy /\ call.op = "edge" /\ Missing = "none"
        /\ IF second = PipeEnd THEN call' = Raised /\ UNCHANGED probe
           ELSE IF call.maxTime # None /\ comp(second.time, call.maxTime) >= 0
           THEN /\ probe' = [probe EXCEPT !.pos = call.maxTime]
                /\ call' = Answer(None)
           ELSE /\ probe' = [probe EXCEPT !.pos = second.time]
                /\ call' = IF IsEdge(first.value, second.value, call.edge)
                           THEN Answer(second) ELSE call
        /\ UNCHANGED <<fed, closed, source, clock, gates, signal>>

----------------------------------------------------------------------------
UserCalls ==
    \/ \E pos \in Positions : Seek(pos)
    \/ Read
    \/ \E edge \in {"pos", "neg", "any"}, maxTime \in EdgeLimits \cup {None} :
           NextEdge(edge, maxTime)

SignalNext ==
    \/ \E val \in Values : Feed(val)
    \/ Close
    \/ SourceSends \/ ClockSends
    \/ TakesValue \/ TakesTime \/ SendsEnd
    \/ UserCalls \/ Receives \/ ReadEnds \/ EdgeEnds

SignalSpec == SignalInit /\ [][SignalNext]_signalVars

----------------------------------------------------------------------------
(* The signal the user means: the k-th value fed holds from the k-th time of *)
(* the clock on, as long as there are both.                                  *)
Begins(k) == clock.made.start.val + (k - 1) * clock.made.period.val

Changes ==
    {k \in 1 .. Len(fed) : clock.made.stop # None => Begins(k) < clock.made.stop.val}

IsOver == closed \/ clock.made.stop # None

Answered(op) == call.at = "answered" /\ call.op = op

(* A read returns the value that holds at pos, or the first one before it,   *)
(* whatever the items have sent by then.  It raises an error at the time of  *)
(* the first change and, once the signal is over, from the last one on only. *)
ReadsSignal ==
    Answered("read") =>
        LET pos == call.from.val
            old == {k \in Changes : Begins(k) <= pos}
        IN  IF call.raised THEN pos = Begins(1) \/ (IsOver /\ old = Changes)
            ELSE call.value = fed[IF old = {} THEN 1 ELSE Cardinality(old)]

(* nextEdge finds the first edge after pos and before maxTime; it does not   *)
(* jump over one that comes while it waits, and finds none that is not there.*)
EdgesFound ==
    Answered("edge") =>
        LET turn(k) == <<fed[k - 1][1], fed[k][1]>>
            wanted(k) == CASE call.edge = "any" -> fed[k - 1] # fed[k]
                           [] call.edge = "pos" -> turn(k) = <<0, 1>>
                           [] call.edge = "neg" -> turn(k) = <<1, 0>>
            edges == {k \in Changes \ {1} : Begins(k) > call.from.val /\ wanted(k)}
            early == {k \in edges : call.maxTime # None => Begins(k) < call.maxTime.val}
        IN  IF call.raised THEN edges = {} /\ IsOver
            ELSE IF call.value = None THEN early = {}
            ELSE early # {} /\ LET k == Min(early) IN
                     call.value = Change(fed[k], Tme("period", Begins(k)), TRUE)

(* A change survives the way through a channel, where it is bytes.  Its time *)
(* survives as a text, which has no digits for zero, and its value does, but *)
(* that a vector with other bits than 0 and 1 is read in the reverse order.  *)
ReadBack ==
    LET chg == signal.chg IN
    chg # None =>
        /\ changeFromBytes(changeToBytes(chg)) = chg
        /\ parseStr(tmeToStr(chg.time)) = IF chg.time = zero("period") THEN Tme("period", None)
                                          ELSE chg.time
        /\ _strRead(toStr(chg.value)) = IF isPure(chg.value) THEN chg.value
                                        ELSE Reverse(chg.value)
=============================================================================
