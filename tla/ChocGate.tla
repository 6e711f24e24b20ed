------------------------------ MODULE ChocGate ------------------------------
(* Class Gate (choc/python/choc/pipe.py): hands a value from a pushing to a *)
(* pulling coroutine, and lets the pusher go only when its value is taken.  *)
(* Coroutines of one event loop interleave at their awaits only.  The locks *)
(* of asyncio are first come, first served, and the lock of the condition   *)
(* is never kept over an await other than the condition's own wait.         *)
EXTENDS Integers, Sequences, SequencesExt

CONSTANTS
    Pushers, Pullers,   \* coroutines that call push and pull, over and over
    MaxValue,           \* bound: how many values are pushed
    NoValue

ASSUME GateAssumption == Pushers \cap Pullers = {} /\ MaxValue \in Nat /\ NoValue \notin Nat

VARIABLES
    state,      \* Gate.state
    store,      \* Gate.store
    pushLock,   \* coroutines in push, the one that holds pushLock first
    pullLock,   \* coroutines in pull, the one that holds pullLock first
    waiters,    \* coroutines that wait on the condition
    at,         \* where a coroutine stands
    pushed,     \* how many pushes began
    value,      \* the value of a push
    pulled      \* the values pull returned

vars == <<state, store, pushLock, pullLock, waiters, at, pushed, value, pulled>>

Coroutines == Pushers \cup Pullers

Init ==
    /\ state = "idle" /\ store = NoValue
    /\ pushLock = <<>> /\ pullLock = <<>> /\ waiters = <<>>
    /\ at = [c \in Coroutines |-> "out"]
    /\ pushed = 0 /\ value = [c \in Pushers |-> NoValue] /\ pulled = <<>>

Holds(c, lock) == lock # <<>> /\ Head(lock) = c
Awake(c) == \A i \in 1 .. Len(waiters) : waiters[i] # c

(* Condition.notify wakes the coroutine that waits longest.                 *)
Notified == IF waiters = <<>> THEN <<>> ELSE Tail(waiters)

----------------------------------------------------------------------------
Push(c) ==
    /\ at[c] = "out" /\ pushed < MaxValue
    /\ pushed' = pushed + 1
    /\ value' = [value EXCEPT ![c] = pushed']
    /\ pushLock' = Append(pushLock, c)
    /\ at' = [at EXCEPT ![c] = "enter"]
    /\ UNCHANGED <<state, store, pullLock, waiters, pulled>>

(* The first loop of push, and the store when the gate is idle.             *)
PushStore(c) ==
    /\ at[c] = "enter" /\ Holds(c, pushLock) /\ Awake(c)
    /\ IF state # "idle"
       THEN /\ waiters' = Append(waiters, c)
            /\ UNCHANGED <<state, store, at>>
       ELSE /\ store' = value[c] /\ state' = "pushing"
            /\ waiters' = Append(Notified, c)
            /\ at' = [at EXCEPT ![c] = "stored"]
    /\ UNCHANGED <<pushLock, pullLock, pushed, value, pulled>>

(* Mutant: returns without waiting for the pull.                            *)
PushLeaveAtOnce(c) ==
    /\ at[c] = "stored"
    /\ waiters' = SelectSeq(waiters, LAMBDA w : w # c)
    /\ pushLock' = Tail(pushLock)
    /\ at' = [at EXCEPT ![c] = "out"]
    /\ value' = [value EXCEPT ![c] = NoValue]
    /\ UNCHANGED <<state, store, pullLock, pushed, pulled>>

(* The second loop, and the return from push.                               *)
PushLeave(c) ==
    /\ at[c] = "stored" /\ Awake(c)
    /\ IF state # "pulled"
       THEN /\ waiters' = Append(waiters, c)
            /\ UNCHANGED <<state, pushLock, at, value>>
       ELSE /\ state' = "idle"
            /\ waiters' = Notified
            /\ pushLock' = Tail(pushLock)
            /\ at' = [at EXCEPT ![c] = "out"]
            /\ value' = [value EXCEPT ![c] = NoValue]
    /\ UNCHANGED <<store, pullLock, pushed, pulled>>

Pull(c) ==
    /\ at[c] = "out"
    /\ pullLock' = Append(pullLock, c)
    /\ at' = [at EXCEPT ![c] = "enter"]
    /\ UNCHANGED <<state, store, pushLock, waiters, pushed, value, pulled>>

(* Mutants: takes whatever is in the store; does not notify the pusher.     *)
PullTakeUnchecked(c) ==
    /\ at[c] = "enter" /\ Holds(c, pullLock)
    /\ pulled' = Append(pulled, store)
    /\ state' = "pulled"
    /\ waiters' = Notified
    /\ pullLock' = Tail(pullLock)
    /\ at' = [at EXCEPT ![c] = "out"]
    /\ UNCHANGED <<store, pushLock, pushed, value>>

PullTakeSilent(c) ==
    /\ at[c] = "enter" /\ Holds(c, pullLock) /\ Awake(c)
    /\ IF state # "pushing"
       THEN /\ waiters' = Append(waiters, c)
            /\ UNCHANGED <<state, pullLock, at, pulled>>
       ELSE /\ pulled' = Append(pulled, store)
            /\ state' = "pulled"
            /\ pullLock' = Tail(pullLock)
            /\ at' = [at EXCEPT ![c] = "out"]
            /\ UNCHANGED waiters
    /\ UNCHANGED <<store, pushLock, pushed, value>>

PullTake(c) ==
    /\ at[c] = "enter" /\ Holds(c, pullLock) /\ Awake(c)
    /\ IF state # "pushing"
       THEN /\ waiters' = Append(waiters, c)
            /\ UNCHANGED <<state, pullLock, at, pulled>>
       ELSE /\ pulled' = Append(pulled, store)
            /\ state' = "pulled"
            /\ waiters' = Notified
            /\ pullLock' = Tail(pullLock)
            /\ at' = [at EXCEPT ![c] = "out"]
    /\ UNCHANGED <<store, pushLock, pushed, value>>

Pushing(c) == PushStore(c) \/ PushLeave(c)

Next ==
    \/ \E c \in Pushers : Push(c) \/ Pushing(c)
    \/ \E c \in Pullers : Pull(c) \/ PullTake(c)

Spec == Init /\ [][Next]_vars

(* The event loop runs every coroutine that is ready.                       *)
FairSpec ==
    /\ Spec
    /\ \A c \in Pushers : WF_vars(Pushing(c))
    /\ \A c \in Pullers : WF_vars(PullTake(c))

----------------------------------------------------------------------------

(* Values are pulled once each, in the order their pushes took the lock.    *)
InPushOrder == \A i \in 1 .. Len(pulled) : pulled[i] = i

(* "we cannot leave before the gate has been pulled" (pipe.py:344): when a  *)
(* push returns, its own value has been taken.                              *)
PushWaits == [][\A c \in Pushers :
    at[c] = "stored" /\ at'[c] = "out" => Contains(pulled, value[c])]_vars

(* Two that wait for each other meet, although notify wakes a single        *)
(* coroutine and that one may have to wait on: no wake-up is lost.          *)
Meets == \A n \in 0 .. MaxValue :
    Len(pulled) = n /\ pushLock # <<>> /\ pullLock # <<>> ~>
        Len(pulled) > n \/ pushLock = <<>>
=============================================================================
