------------------------------ MODULE ChocItems ------------------------------
(* Three systems of choc items side by side, one in each behaviour: pushing  *)
(* and pulling coroutines at one gate, the 8b10b link, and a signal under a  *)
(* probe.  They share no state.                                              *)
EXTENDS ChocGate, Link8b10b, ChocSignal

VARIABLE system

itemVars == <<vars, linkVars, signalVars, system>>

InGate(step) == system = "gate" /\ step /\ UNCHANGED <<linkVars, signalVars, system>>
InLink(step) == system = "link" /\ step /\ UNCHANGED <<vars, signalVars, system>>
InSignal(step) == system = "signal" /\ step /\ UNCHANGED <<vars, linkVars, system>>

(* Only the system of the behaviour starts in more than one state.           *)
ItemsInit ==
    /\ Init /\ LinkInit /\ SignalInit
    /\ system \in {"gate", "link", "signal"}
    /\ system # "link" => /\ symbols = <<K28(5), K28(5)>>
                          /\ missed = Min(Missed)
    /\ system # "signal" => /\ clock.made = CHOOSE c \in Clocks : TRUE
                            /\ ~closed

ItemsNext == InGate(Next) \/ InLink(LinkNext) \/ InSignal(SignalNext)

(* The event loop runs every coroutine that is ready.                        *)
ItemsSpec ==
    /\ ItemsInit /\ [][ItemsNext]_itemVars
    /\ \A c \in Pushers : WF_itemVars(InGate(Pushing(c)))
    /\ \A c \in Pullers : WF_itemVars(InGate(PullTake(c)))
=============================================================================
