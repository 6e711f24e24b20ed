--------------------------- MODULE ChocItemsProofs ---------------------------
(* Pipes and items of choc.  Class Gate (choc/python/choc/pipe.py): for any  *)
(* number of coroutines and of values, every value is handed over once, in   *)
(* the order of the pushes, and a push returns only after its own value was  *)
(* taken.  A signal under a Probe (choc/python/choc/items.py): for any       *)
(* values, clocks and calls, what read and nextEdge return is what the       *)
(* signal says.                                                              *)
EXTENDS ChocItems, SequenceTheorems, FiniteSetTheorems, TLAPS

----------------------------------------------------------------------------
(* The gate.                                                                 *)

GateTypeOK ==
    /\ state \in {"idle", "pushing", "pulled"}
    /\ pushLock \in Seq(Pushers)
    /\ at \in [Coroutines -> {"out", "enter", "stored"}]
    /\ pushed \in Nat
    /\ value \in [Pushers -> Nat \cup {NoValue}]
    /\ pulled \in Seq(Nat)

(* The values of the pushes under way are the last ones, in the order of    *)
(* the lock; all but the first of these pushes have yet to store theirs.    *)
InLine ==
    \A i \in 1 .. Len(pushLock) :
        /\ value[pushLock[i]] = (pushed - Len(pushLock)) + i
        /\ at[pushLock[i]] = IF i = 1 /\ state # "idle" THEN "stored" ELSE "enter"

(* A push is under way while its coroutine is in the lock, ...              *)
AllInLine == \A c \in Pushers : at[c] # "out" => \E i \in 1 .. Len(pushLock) : pushLock[i] = c

(* ... and the state of the gate is that of the first of them.              *)
StateOfFirst ==
    /\ state # "idle" => pushLock # <<>>
    /\ state = "pushing" => store = value[Head(pushLock)]
    /\ Len(pulled) = (pushed - Len(pushLock)) + (IF state = "pulled" THEN 1 ELSE 0)
    /\ Len(pushLock) <= pushed

(* The inductive invariant of the gate.                                     *)
GateInv == GateTypeOK /\ InLine /\ AllInLine /\ StateOfFirst /\ InPushOrder

LEMMA InitGateInv == Init => GateInv
<1> SUFFICES ASSUME Init PROVE GateInv
  OBVIOUS
<1>1. Len(pushLock) = 0 /\ Len(pulled) = 0 /\ pushLock \in Seq(Pushers) /\ pulled \in Seq(Nat)
  BY EmptySeq DEF Init
<1>2. GateTypeOK
  BY <1>1 DEF Init, GateTypeOK
<1>3. InLine /\ InPushOrder
  BY <1>1 DEF InLine, InPushOrder
<1>4. AllInLine
  BY DEF Init, AllInLine, Coroutines
<1>5. StateOfFirst
  <2>1. state = "idle" /\ pushed = 0
    BY DEF Init
  <2> QED BY <1>1, <2>1 DEF StateOfFirst
<1> QED BY <1>2, <1>3, <1>4, <1>5 DEF GateInv

(* Pushers and pullers are different coroutines.                            *)
LEMMA Apart == \A c \in Pullers : c \in Coroutines /\ c \notin Pushers
  BY GateAssumption DEF Coroutines

(* The coroutine that holds the lock is the first in it.                    *)
LEMMA FirstInLine ==
  ASSUME GateInv, NEW c \in Pushers, Holds(c, pushLock)
  PROVE  /\ Len(pushLock) \in Nat \ {0} /\ pushLock[1] = c
         /\ value[c] = (pushed - Len(pushLock)) + 1
         /\ at[c] = IF state # "idle" THEN "stored" ELSE "enter"
  BY EmptySeq, LenProperties DEF Holds, GateInv, GateTypeOK, InLine

(* A coroutine is in the lock once, as every place has a value of its own.  *)
LEMMA OncePerLine ==
  ASSUME GateInv, NEW i \in 1 .. Len(pushLock), NEW j \in 1 .. Len(pushLock),
         pushLock[i] = pushLock[j]
  PROVE  i = j
  BY LenProperties, SMT DEF GateInv, GateTypeOK, InLine

(* A push takes the last place and the next value.                          *)
LEMMA PushInv ==
  ASSUME GateInv, NEW c \in Pushers, Push(c)
  PROVE  GateInv'
<1>1. /\ Len(pushLock) \in Nat /\ pushLock' \in Seq(Pushers)
      /\ Len(pushLock') = Len(pushLock) + 1
      /\ \A i \in 1 .. Len(pushLock) : pushLock'[i] = pushLock[i]
      /\ pushLock'[Len(pushLock) + 1] = c
  BY AppendProperties, LenProperties DEF Push, GateInv, GateTypeOK
<1>2. c \in Coroutines /\ at[c] = "out" /\ pushed' = pushed + 1 /\ pushed \in Nat
  BY DEF Push, Coroutines, GateInv, GateTypeOK
<1>3. GateTypeOK'
  BY <1>1, <1>2 DEF Push, GateInv, GateTypeOK
<1>4. \A i \in 1 .. Len(pushLock) : pushLock[i] # c /\ pushLock[i] \in Pushers
  BY <1>2, ElementOfSeq DEF GateInv, GateTypeOK, InLine
<1>5. InLine'
  <2> SUFFICES ASSUME NEW i \in 1 .. Len(pushLock)'
               PROVE  /\ value'[pushLock'[i]] = (pushed' - Len(pushLock)') + i
                      /\ at'[pushLock'[i]] = IF i = 1 /\ state' # "idle" THEN "stored" ELSE "enter"
    BY DEF InLine
  <2>1. CASE i = Len(pushLock) + 1
    <3>1. Len(pushLock) = 0 => state = "idle"
      BY EmptySeq DEF GateInv, GateTypeOK, StateOfFirst
    <3> QED BY <1>1, <1>2, <2>1, <3>1 DEF Push, GateInv, GateTypeOK
  <2>2. CASE i \in 1 .. Len(pushLock)
    BY <1>1, <1>2, <1>4, <2>2 DEF Push, GateInv, GateTypeOK, InLine
  <2> QED BY <1>1, <2>1, <2>2
<1>6. AllInLine'
  <2> SUFFICES ASSUME NEW d \in Pushers, at'[d] # "out"
               PROVE  \E i \in 1 .. Len(pushLock)' : pushLock'[i] = d
    BY DEF AllInLine
  <2>1. CASE d = c
    BY <1>1, <2>1
  <2>2. CASE d # c
    <3>1. at[d] # "out"
      BY <1>2, <2>2 DEF Push, GateInv, GateTypeOK
    <3>2. PICK i \in 1 .. Len(pushLock) : pushLock[i] = d
      BY <3>1 DEF GateInv, AllInLine
    <3> QED BY <1>1, <3>2
  <2> QED BY <2>1, <2>2
<1>7. StateOfFirst'
  <2>1. state' = state /\ store' = store /\ pulled' = pulled
    BY DEF Push
  <2>2. state' # "idle" => pushLock' # <<>>
    BY AppendProperties DEF Push, GateInv, GateTypeOK
  <2>3. ASSUME state = "pushing" PROVE store' = value'[Head(pushLock')]
    <3>1. pushLock # <<>> /\ store = value[Head(pushLock)]
      BY <2>3 DEF GateInv, StateOfFirst
    <3>2. Head(pushLock') = Head(pushLock) /\ Head(pushLock) = pushLock[1] /\ 1 \in 1 .. Len(pushLock)
      BY <3>1, HeadTailAppend, EmptySeq DEF Push, GateInv, GateTypeOK
    <3> QED BY <1>4, <2>1, <3>1, <3>2 DEF Push, GateInv, GateTypeOK
  <2>4. Len(pulled') = (pushed' - Len(pushLock')) + (IF state' = "pulled" THEN 1 ELSE 0)
    BY <1>1, <1>2, <2>1 DEF GateInv, StateOfFirst
  <2>5. Len(pushLock') <= pushed'
    BY <1>1, <1>2 DEF GateInv, StateOfFirst
  <2> QED BY <2>1, <2>2, <2>3, <2>4, <2>5 DEF StateOfFirst
<1>8. InPushOrder'
  BY DEF Push, GateInv, InPushOrder
<1> QED BY <1>3, <1>5, <1>6, <1>7, <1>8 DEF GateInv

(* The first push of the line stores its value, once the gate is idle.      *)
LEMMA PushStoreInv ==
  ASSUME GateInv, NEW c \in Pushers, PushStore(c)
  PROVE  GateInv'
<1>1. /\ Len(pushLock) \in Nat \ {0} /\ pushLock[1] = c /\ Head(pushLock) = c
      /\ pushLock \in Seq(Pushers) /\ pushLock # <<>>
  BY FirstInLine DEF PushStore, Holds, GateInv, GateTypeOK
<1>2. /\ pushLock' = pushLock /\ pushed' = pushed /\ value' = value /\ pulled' = pulled
      /\ at \in [Coroutines -> {"out", "enter", "stored"}] /\ c \in Coroutines
  BY DEF PushStore, Coroutines, GateInv, GateTypeOK
<1>3. CASE state # "idle"
  <2>1. state' = state /\ store' = store /\ at' = at
    BY <1>3 DEF PushStore
  <2> QED
    BY <1>2, <2>1 DEF GateInv, GateTypeOK, InLine, AllInLine, StateOfFirst, InPushOrder
<1>4. CASE state = "idle"
  <2>1. state' = "pushing" /\ store' = value[c] /\ at' = [at EXCEPT ![c] = "stored"]
    BY <1>4 DEF PushStore
  <2>2. GateTypeOK'
    BY <1>2, <2>1 DEF GateInv, GateTypeOK
  <2>3. InLine'
    <3>1. \A i \in 1 .. Len(pushLock) : pushLock[i] \in Coroutines /\ (pushLock[i] = c => i = 1)
      BY <1>1, OncePerLine, ElementOfSeq DEF Coroutines
    <3> QED BY <1>1, <1>2, <1>4, <2>1, <3>1 DEF GateInv, InLine
  <2>4. AllInLine'
    <3> SUFFICES ASSUME NEW d \in Pushers, at'[d] # "out"
                 PROVE  \E i \in 1 .. Len(pushLock) : pushLock[i] = d
      BY <1>2 DEF AllInLine
    <3>1. CASE d = c
      BY <1>1, <3>1
    <3>2. CASE d # c
      BY <1>2, <2>1, <3>2 DEF GateInv, AllInLine, Coroutines
    <3> QED BY <3>1, <3>2
  <2>5. StateOfFirst'
    BY <1>1, <1>2, <1>4, <2>1 DEF GateInv, StateOfFirst
  <2>6. InPushOrder'
    BY <1>2 DEF GateInv, InPushOrder
  <2> QED BY <2>2, <2>3, <2>4, <2>5, <2>6 DEF GateInv
<1> QED BY <1>3, <1>4

(* The only push that has stored its value is the first of the line.        *)
LEMMA StoredIsFirst ==
  ASSUME GateInv, NEW c \in Pushers, at[c] = "stored"
  PROVE  /\ Len(pushLock) \in Nat \ {0} /\ pushLock[1] = c
         /\ pushLock \in Seq(Pushers) /\ pushLock # <<>>
         /\ value[c] = (pushed - Len(pushLock)) + 1
<1>1. PICK i \in 1 .. Len(pushLock) : pushLock[i] = c
  BY DEF GateInv, AllInLine
<1>2. i = 1
  BY <1>1 DEF GateInv, InLine
<1>3. pushLock \in Seq(Pushers) /\ Len(pushLock) \in Nat
  BY LenProperties DEF GateInv, GateTypeOK
<1> QED BY <1>1, <1>2, <1>3, EmptySeq DEF GateInv, InLine

(* It leaves once its value is taken; those behind it move up.              *)
LEMMA PushLeaveInv ==
  ASSUME GateInv, NEW c \in Pushers, PushLeave(c)
  PROVE  GateInv'
<1>1. /\ Len(pushLock) \in Nat \ {0} /\ pushLock[1] = c
      /\ pushLock \in Seq(Pushers) /\ pushLock # <<>>
  BY StoredIsFirst DEF PushLeave
<1>2. /\ store' = store /\ pushed' = pushed /\ pulled' = pulled /\ pushed \in Nat
      /\ at \in [Coroutines -> {"out", "enter", "stored"}] /\ c \in Coroutines
      /\ value \in [Pushers -> Nat \cup {NoValue}]
  BY DEF PushLeave, Coroutines, GateInv, GateTypeOK
<1>3. CASE state # "pulled"
  <2>1. state' = state /\ pushLock' = pushLock /\ at' = at /\ value' = value
    BY <1>3 DEF PushLeave
  <2> QED
    BY <1>2, <2>1 DEF GateInv, GateTypeOK, InLine, AllInLine, StateOfFirst, InPushOrder
<1>4. CASE state = "pulled"
  <2>1. /\ state' = "idle" /\ pushLock' = Tail(pushLock)
        /\ at' = [at EXCEPT ![c] = "out"] /\ value' = [value EXCEPT ![c] = NoValue]
    BY <1>4 DEF PushLeave
  <2>2. /\ pushLock' \in Seq(Pushers) /\ Len(pushLock') = Len(pushLock) - 1
        /\ \A i \in 1 .. Len(pushLock') : pushLock'[i] = pushLock[i + 1]
    BY <1>1, <2>1, HeadTailProperties
  <2>3. GateTypeOK'
    BY <1>2, <2>1, <2>2 DEF GateInv, GateTypeOK
  <2>4. InLine'
    <3> SUFFICES ASSUME NEW i \in 1 .. Len(pushLock')
                 PROVE  /\ value'[pushLock'[i]] = (pushed' - Len(pushLock')) + i
                        /\ at'[pushLock'[i]] = "enter"
      BY <2>1 DEF InLine
    <3>1. i + 1 \in 1 .. Len(pushLock) /\ i + 1 # 1 /\ 1 \in 1 .. Len(pushLock)
      BY <1>1, <2>2
    <3>2. pushLock[i + 1] # c /\ pushLock[i + 1] \in Pushers /\ pushLock[i + 1] \in Coroutines
      BY <1>1, <3>1, OncePerLine, ElementOfSeq DEF Coroutines
    <3>3. value[pushLock[i + 1]] = (pushed - Len(pushLock)) + (i + 1) /\ at[pushLock[i + 1]] = "enter"
      BY <3>1 DEF GateInv, InLine
    <3> QED BY <1>1, <1>2, <2>1, <2>2, <3>2, <3>3
  <2>5. AllInLine'
    <3> SUFFICES ASSUME NEW d \in Pushers, at'[d] # "out"
                 PROVE  \E i \in 1 .. Len(pushLock') : pushLock'[i] = d
      BY DEF AllInLine
    <3>1. d # c /\ at[d] # "out"
      BY <1>2, <2>1 DEF Coroutines
    <3>2. PICK j \in 1 .. Len(pushLock) : pushLock[j] = d
      BY <3>1 DEF GateInv, AllInLine
    <3>3. j # 1
      BY <1>1, <3>1, <3>2
    <3>4. j - 1 \in 1 .. Len(pushLock') /\ pushLock'[j - 1] = pushLock[(j - 1) + 1] /\ (j - 1) + 1 = j
      BY <1>1, <2>2, <3>3
    <3> QED BY <3>2, <3>4
  <2>6. StateOfFirst'
    BY <1>1, <1>2, <1>4, <2>1, <2>2 DEF GateInv, StateOfFirst
  <2>7. InPushOrder'
    BY <1>2 DEF GateInv, InPushOrder
  <2> QED BY <2>3, <2>4, <2>5, <2>6, <2>7 DEF GateInv
<1> QED BY <1>3, <1>4

(* A call of pull, or a pull that waits on, disturbs no push.               *)
LEMMA PullerInv ==
  ASSUME GateInv, NEW c \in Pullers, NEW w \in {"out", "enter"},
         at' = [at EXCEPT ![c] = w],
         UNCHANGED <<state, store, pushLock, pushed, value, pulled>>
  PROVE  GateInv'
<1>1. at' \in [Coroutines -> {"out", "enter", "stored"}] /\ \A d \in Pushers : at'[d] = at[d]
  BY Apart DEF GateInv, GateTypeOK, Coroutines
<1>2. \A i \in 1 .. Len(pushLock) : pushLock[i] \in Pushers
  BY ElementOfSeq DEF GateInv, GateTypeOK
<1> QED
  BY <1>1, <1>2 DEF GateInv, GateTypeOK, InLine, AllInLine, StateOfFirst, InPushOrder

(* A pull takes the value of the first push, which is the next one.         *)
LEMMA PullTakeInv ==
  ASSUME GateInv, NEW c \in Pullers, PullTake(c)
  PROVE  GateInv'
<1>1. UNCHANGED <<store, pushLock, pushed, value>>
  BY DEF PullTake
<1>2. CASE state # "pushing"
  <2>1. UNCHANGED <<state, at, pulled>> /\ at \in [Coroutines -> {"out", "enter", "stored"}]
    BY <1>2 DEF PullTake, GateInv, GateTypeOK
  <2>2. at' = [at EXCEPT ![c] = "enter"]
    BY <2>1, Apart DEF PullTake
  <2> QED BY <1>1, <2>1, <2>2, PullerInv
<1>3. CASE state = "pushing"
  <2>1. state' = "pulled" /\ at' = [at EXCEPT ![c] = "out"] /\ pulled' = Append(pulled, store)
    BY <1>3 DEF PullTake
  <2>2. /\ pushLock # <<>> /\ store = value[Head(pushLock)] /\ pulled \in Seq(Nat)
        /\ Len(pulled) = pushed - Len(pushLock) /\ Len(pulled) \in Nat /\ pushed \in Nat
    BY <1>3, LenProperties DEF GateInv, GateTypeOK, StateOfFirst
  <2>3. Head(pushLock) = pushLock[1] /\ 1 \in 1 .. Len(pushLock) /\ Len(pushLock) \in Nat
    BY <2>2, EmptySeq DEF GateInv, GateTypeOK
  <2>4. store = Len(pulled) + 1 /\ store \in Nat
    BY <2>2, <2>3 DEF GateInv, InLine
  <2>5. /\ pulled' \in Seq(Nat) /\ Len(pulled') = Len(pulled) + 1
        /\ \A i \in 1 .. Len(pulled) : pulled'[i] = pulled[i]
        /\ pulled'[Len(pulled) + 1] = store
    BY <2>1, <2>2, <2>4, AppendProperties, ZenonT(40)
  <2>6. at' \in [Coroutines -> {"out", "enter", "stored"}] /\ \A d \in Pushers : at'[d] = at[d]
    BY <2>1, Apart DEF GateInv, GateTypeOK, Coroutines
  <2>7. GateTypeOK'
    BY <1>1, <2>1, <2>5, <2>6 DEF GateInv, GateTypeOK
  <2>8. InLine'
    <3>1. \A i \in 1 .. Len(pushLock) : pushLock[i] \in Pushers
      BY ElementOfSeq DEF GateInv, GateTypeOK
    <3> QED BY <1>1, <1>3, <2>1, <2>6, <3>1 DEF GateInv, InLine
  <2>9. AllInLine'
    BY <1>1, <2>6 DEF GateInv, AllInLine
  <2>10. StateOfFirst'
    BY <1>1, <2>1, <2>2, <2>3, <2>5 DEF GateInv, StateOfFirst
  <2>11. InPushOrder'
    <3>1. \A i \in 1 .. Len(pulled') : i \in 1 .. Len(pulled) \/ i = Len(pulled) + 1
      <4>1. Len(pulled') = Len(pulled) + 1 /\ Len(pulled) \in Nat
        BY <2>2, <2>5
      <4> QED BY <4>1, SMT
    <3>2. \A i \in 1 .. Len(pulled) : pulled'[i] = i
      BY <2>5 DEF GateInv, InPushOrder
    <3> QED BY <2>4, <2>5, <3>1, <3>2 DEF InPushOrder
  <2> QED BY <2>7, <2>8, <2>9, <2>10, <2>11 DEF GateInv
<1> QED BY <1>2, <1>3

LEMMA StepGateInv == GateInv /\ [Next]_vars => GateInv'
<1> SUFFICES ASSUME GateInv, [Next]_vars PROVE GateInv'
  OBVIOUS
<1>1. CASE UNCHANGED vars
  BY <1>1 DEF vars, GateInv, GateTypeOK, InLine, AllInLine, StateOfFirst, InPushOrder
<1>2. ASSUME NEW c \in Pushers, Push(c) PROVE GateInv'
  BY <1>2, PushInv
<1>3. ASSUME NEW c \in Pushers, PushStore(c) PROVE GateInv'
  BY <1>3, PushStoreInv
<1>4. ASSUME NEW c \in Pushers, PushLeave(c) PROVE GateInv'
  BY <1>4, PushLeaveInv
<1>5. ASSUME NEW c \in Pullers, Pull(c) PROVE GateInv'
  BY <1>5, PullerInv DEF Pull
<1>6. ASSUME NEW c \in Pullers, PullTake(c) PROVE GateInv'
  BY <1>6, PullTakeInv
<1> QED BY <1>1, <1>2, <1>3, <1>4, <1>5, <1>6 DEF Next, Pushing

(* The inductive invariant of the gate holds in every behaviour.            *)
THEOREM GateInvariant == Spec => []GateInv
  BY InitGateInv, StepGateInv, PTL DEF Spec

(* Values are pulled once each, in the order their pushes took the lock.    *)
THEOREM GateInPushOrder == Spec => []InPushOrder
<1>1. GateInv => InPushOrder
  BY DEF GateInv
<1> QED BY <1>1, GateInvariant, PTL

(* "we cannot leave before the gate has been pulled" (pipe.py:344): a push  *)
(* that returns finds its own value among those that were pulled.           *)
THEOREM GatePushWaits == Spec => PushWaits
<1>1. ASSUME GateInv, Next, NEW c \in Pushers, at[c] = "stored", at'[c] = "out"
      PROVE  Contains(pulled, value[c])
  <2>1. at \in [Coroutines -> {"out", "enter", "stored"}] /\ c \in Coroutines
    BY <1>1 DEF GateInv, GateTypeOK, Coroutines
  <2>2. PushLeave(c) /\ state = "pulled"
    BY <1>1, <2>1, Apart DEF Next, Pushing, Push, PushStore, PushLeave, Pull, PullTake
  <2>3. /\ Len(pushLock) \in Nat \ {0} /\ value[c] = (pushed - Len(pushLock)) + 1
        /\ Len(pulled) = (pushed - Len(pushLock)) + 1 /\ Len(pushLock) <= pushed
    BY <1>1, <2>2, StoredIsFirst DEF GateInv, StateOfFirst
  <2>4. Len(pulled) \in Nat /\ pushed \in Nat
    BY <1>1, LenProperties DEF GateInv, GateTypeOK
  <2>5. Len(pulled) \in 1 .. Len(pulled)
    BY <2>3, <2>4
  <2>6. pulled[Len(pulled)] = value[c]
    BY <1>1, <2>3, <2>5 DEF GateInv, InPushOrder
  <2> QED BY <2>5, <2>6 DEF Contains
<1>2. GateInv /\ [Next]_vars =>
        [\A c \in Pushers : at[c] = "stored" /\ at'[c] = "out" => Contains(pulled, value[c])]_vars
  BY <1>1
<1> QED BY <1>2, GateInvariant, PTL DEF Spec, PushWaits

----------------------------------------------------------------------------
(* The signal.                                                               *)
(* The times of a clock, and the changes made of them and of values.        *)
At(c, k) == c.start.val + (k - 1) * c.period.val
TimeOf(c, k) == Tme(c.typ, At(c, k))
ChangeNo(c, vals, k) == Change(vals[k], TimeOf(c, k), TRUE)
StopsBy(c, time) == c.stop # None /\ c.stop.val <= time

(* What a Probe is sent while there are n changes: these, and in the end    *)
(* the last one again and a PipeEnd.                                        *)
IsItem(c, vals, x, n, k) ==
    /\ k <= n => x = ChangeNo(c, vals, k)
    /\ k = n + 1 => x \in AnyChange /\ x.value = vals[n] /\ x.time = TimeOf(c, n)
    /\ k = n + 2 => x = PipeEnd

(* The edges a user wants.                                                  *)
Wanted(edge, vals, k) ==
    CASE edge = "any" -> vals[k - 1] # vals[k]
      [] edge = "pos" -> <<vals[k - 1][1], vals[k][1]>> = <<0, 1>>
      [] edge = "neg" -> <<vals[k - 1][1], vals[k][1]>> = <<1, 0>>
NoneWanted(c, vals, edge, last, from, to) ==
    \A k \in 2 .. last : from < At(c, k) /\ At(c, k) <= to => ~Wanted(edge, vals, k)

Emitted(n) == n + (IF signal.at = "end" THEN 1 ELSE IF signal.at = "ended" THEN 2 ELSE 0)

Calls ==
    [at : {"begin", "align"}, op : {"read", "edge"}, from : Times,
     edge : {"pos", "neg", "any", None}, maxTime : Times \cup {None},
     raised : {FALSE}, value : {None}]

SignalTypeOK ==
    /\ fed \in Seq(Vectors) /\ closed \in BOOLEAN /\ source \in Nat
    /\ clock \in [made : Clocks, now : Times, ended : BOOLEAN]
    /\ gates \in [in : Vectors \cup {None, PipeEnd}, clk : Times \cup {None, PipeEnd},
                  out : AnyChange \cup {None, PipeEnd}]
    /\ signal \in [at : {"in", "clk", "end", "ended", "failed"},
                   val : Vectors \cup {None}, chg : AnyChange \cup {None}]
    /\ probe \in [pos : Times, first : AnyChange \cup {None},
                  second : AnyChange \cup {None, PipeEnd}]
    /\ Busy => call \in Calls

(* The source: n values were made changes of, the next may be on its way.   *)
OnOffer == IF gates.in = None THEN 0 ELSE 1
Feeding(n) ==
    /\ n <= Len(fed)
    /\ signal.at = "in" => source = n + OnOffer
    /\ signal.at = "clk" => /\ n < Len(fed) /\ signal.val = fed[n + 1]
                            /\ source = n + 1 + OnOffer /\ gates.out = None
    /\ signal.at \in {"in", "clk"} /\ gates.in # None =>
           IF source <= Len(fed) THEN gates.in = fed[source]
           ELSE gates.in = PipeEnd /\ closed /\ source = Len(fed) + 1

(* The clock: t times were sent, all of before its stop.                    *)
Clocking(n, t) ==
    /\ n <= t /\ clock.now = TimeOf(clock.made, t + 1)
    /\ clock.ended => StopsBy(clock.made, At(clock.made, t + 1))
    /\ \A k \in 1 .. t : ~StopsBy(clock.made, At(clock.made, k))
    /\ signal.at \in {"in", "clk"} =>
           /\ gates.clk = None => t = n /\ ~clock.ended
           /\ gates.clk = PipeEnd => t = n /\ clock.ended
           /\ gates.clk \notin {None, PipeEnd} =>
                  t = n + 1 /\ gates.clk = TimeOf(clock.made, n + 1) /\ ~clock.ended

(* The signal: it ends where there are no more values or no more times.     *)
EndsAt(n) == (closed /\ Len(fed) = n) \/ StopsBy(clock.made, At(clock.made, n + 1))
Signalling(n) ==
    /\ signal.chg = IF n = 0 THEN None ELSE ChangeNo(clock.made, fed, n)
    /\ signal.at = "failed" => n = 0
    /\ signal.at \in {"end", "ended"} => n > 0 /\ EndsAt(n)

(* The probe: it has received p items, the last two of which it keeps, and  *)
(* received the third and later ones because they were due.                 *)
Due(n, p) == At(clock.made, IF p <= n THEN p - 1 ELSE n)
Receiving(n, p) ==
    /\ p = Emitted(n) - (IF gates.out = None THEN 0 ELSE 1)
    /\ gates.out # None => IsItem(clock.made, fed, gates.out, n, p + 1)
    /\ IF p = 0 THEN probe.first = None
       ELSE IsItem(clock.made, fed, probe.first, n, IF p = 1 THEN 1 ELSE p - 1)
    /\ IF p <= 1 THEN probe.second = None ELSE IsItem(clock.made, fed, probe.second, n, p)
    /\ p > 2 => Due(n, p) <= probe.pos.val
    /\ probe.pos.typ = "period"

(* A call under way: no wanted edge was passed since it began.              *)
Asking(n) ==
    /\ call.at # "none" => clock.made.typ = "period"
    /\ Busy /\ call.op = "read" => call.from = probe.pos
    /\ Busy /\ call.op = "edge" =>
           /\ call.edge \in {"pos", "neg", "any"} /\ call.from.val <= probe.pos.val
           /\ call.maxTime # None =>
                  call.maxTime.typ = "period" /\ probe.pos.val <= call.maxTime.val
           /\ \/ probe.pos.val = call.from.val
              \/ \E m \in 1 .. n : probe.pos.val = At(clock.made, m)
           /\ NoneWanted(clock.made, fed, call.edge, n, call.from.val, probe.pos.val)

(* What was answered, in terms that later values do not change.             *)
ReadAnswer(n) ==
    Answered("read") =>
        /\ call.from \in Times
        /\ IF call.raised
           THEN \/ call.from.val = At(clock.made, 1)
                \/ signal.at = "ended" /\ At(clock.made, n) <= call.from.val
           ELSE \E m \in 1 .. n :
                    /\ call.value = fed[m] /\ call.from.val < At(clock.made, m + 1)
                    /\ m > 1 => At(clock.made, m) <= call.from.val

Before(n) ==
    NoneWanted(clock.made, fed, call.edge, n - 1, call.from.val, At(clock.made, n - 1))
EdgeAnswer(n) ==
    Answered("edge") =>
        /\ call.edge \in {"pos", "neg", "any"} /\ call.from \in Times
        /\ call.maxTime \in Times \cup {None}
        /\ IF call.raised THEN signal.at = "ended" /\ Before(n + 1)
           ELSE IF call.value = None
           THEN /\ call.maxTime # None
                /\ \E m \in 1 .. n : call.maxTime.val <= At(clock.made, m) /\ Before(m)
           ELSE \E m \in 2 .. n :
                    /\ call.value = ChangeNo(clock.made, fed, m) /\ Wanted(call.edge, fed, m)
                    /\ call.from.val < At(clock.made, m) /\ Before(m)
                    /\ call.maxTime # None => At(clock.made, m) < call.maxTime.val

(* The inductive invariant of the signal.                                   *)
SignalParts(n, t, p) ==
    /\ Feeding(n) /\ Clocking(n, t) /\ Signalling(n) /\ Receiving(n, p)
    /\ Asking(n) /\ ReadAnswer(n) /\ EdgeAnswer(n)
SignalInv == SignalTypeOK /\ \E n, t, p \in Nat : SignalParts(n, t, p)

LEMMA ClockFacts ==
    ASSUME NEW c \in Clocks
    PROVE  /\ c.start.val \in Int /\ c.period.val \in Int /\ c.period.val > 0
           /\ c.typ \in {"period", "cycle"} /\ c.start = Tme(c.typ, c.start.val)
           /\ c.stop # None => c.stop \in Times /\ c.stop.val \in Int
           /\ c.period.typ = c.typ
  <1>1. c \in [typ : {"period", "cycle"}, start : Times, period : Times, stop : Times \cup {None}]
    BY SignalAssumption
  <1>2. c.start \in Times /\ c.start.typ = c.typ /\ c.period.val > 0 /\ c.period.typ = c.typ
    BY <1>1, SignalAssumption
  <1>3. c.start = [typ |-> c.start.typ, val |-> c.start.val]
    BY <1>2 DEF Times
  <1> QED BY <1>1, <1>2, <1>3 DEF Times, Tme

LEMMA Multiples ==
    ASSUME NEW a \in Int, NEW b \in Int, NEW p \in Int, p > 0
    PROVE  a * p \in Int /\ (a + 1) * p = a * p + p /\ (a < b => a * p < b * p)
  <1>1. a * p \in Int /\ b * p \in Int /\ (a + 1) * p = a * p + p
    OBVIOUS
  <1>2. ASSUME a < b PROVE a * p < b * p
    <2> DEFINE d == b - a
    <2>1. d \in Int /\ d > 0 /\ b = a + d
      BY <1>2
    <2> HIDE DEF d
    <2>2. d * p > 0 /\ (a + d) * p = a * p + d * p
      BY <2>1
    <2> QED BY <2>1, <2>2
  <1> QED BY <1>1, <1>2

(* The times of a clock are a period apart.                                 *)
LEMMA TimesApart ==
    ASSUME NEW c \in Clocks, NEW k \in Int
    PROVE  /\ At(c, k) \in Int /\ At(c, k + 1) = At(c, k) + c.period.val
           /\ At(c, k) < At(c, k + 1) /\ At(c, 1) = c.start.val
           /\ \A j \in Int : j < k => At(c, j) < At(c, k)
           /\ TimeOf(c, k) \in Times /\ TimeOf(c, k).val = At(c, k) /\ TimeOf(c, k).typ = c.typ
  <1>1. PICK start \in Int, p \in Int : start = c.start.val /\ p = c.period.val /\ p > 0
    BY ClockFacts
  <1>2. \A j \in Int : At(c, j) = start + (j - 1) * p
    BY <1>1 DEF At
  <1>3. \A a, b \in Int : a * p \in Int /\ (a + 1) * p = a * p + p /\ (a < b => a * p < b * p)
    BY <1>1, Multiples
  <1>4. At(c, k) \in Int /\ At(c, k + 1) = At(c, k) + p /\ At(c, k) < At(c, k + 1)
    <2>1. k - 1 \in Int /\ (k + 1) - 1 = (k - 1) + 1
      OBVIOUS
    <2>2. (k - 1) * p \in Int /\ ((k - 1) + 1) * p = (k - 1) * p + p
      BY <1>3, <2>1
    <2>3. PICK q \in Int : q = (k - 1) * p /\ ((k - 1) + 1) * p = q + p
      BY <2>2
    <2>4. At(c, k) = start + q
      BY <1>2, <2>3
    <2>5. At(c, k + 1) = start + (q + p)
      <3>1. k + 1 \in Int
        OBVIOUS
      <3>2. At(c, k + 1) = start + ((k + 1) - 1) * p
        BY <1>2, <3>1
      <3> QED BY <2>1, <2>3, <3>2
    <2> QED BY <1>1, <2>4, <2>5
  <1>5. At(c, 1) = start
    BY <1>2
  <1>6. ASSUME NEW j \in Int, j < k PROVE At(c, j) < At(c, k)
    <2>1. (j - 1) * p < (k - 1) * p /\ (j - 1) * p \in Int /\ (k - 1) * p \in Int
      BY <1>3, <1>6
    <2> QED BY <1>2, <2>1
  <1>7. c.typ \in {"period", "cycle"}
    BY ClockFacts
  <1> QED BY <1>1, <1>4, <1>5, <1>6, <1>7 DEF TimeOf, Tme, Times

(* What is off-band is no value, no time and no change.                     *)
LEMMA Offband ==
    /\ None # PipeEnd
    /\ None \notin Vectors /\ None \notin Times /\ None \notin AnyChange
    /\ PipeEnd \notin Vectors /\ PipeEnd \notin Times /\ PipeEnd \notin AnyChange
  BY SignalAssumption

LEMMA ChangeFacts ==
    ASSUME NEW c \in Clocks, NEW vals \in Seq(Vectors), NEW k \in 1 .. Len(vals)
    PROVE  /\ ChangeNo(c, vals, k) \in AnyChange /\ ChangeNo(c, vals, k) # None
           /\ ChangeNo(c, vals, k) # PipeEnd
           /\ ChangeNo(c, vals, k).value = vals[k] /\ ChangeNo(c, vals, k).time = TimeOf(c, k)
           /\ ChangeNo(c, vals, k).time.val = At(c, k)
  <1>1. vals[k] \in Vectors
    BY ElementOfSeq
  <1>2. k \in Int
    BY LenProperties
  <1>3. TimeOf(c, k) \in Times /\ TimeOf(c, k).val = At(c, k)
    BY <1>2, TimesApart
  <1>4. ChangeNo(c, vals, k) \in AnyChange
    BY <1>1, <1>3 DEF ChangeNo, Change, AnyChange
  <1> QED BY <1>3, <1>4, Offband DEF ChangeNo, Change

(* The items a probe is sent: n changes, the last again, the end.           *)
LEMMA ItemFacts ==
    ASSUME NEW c \in Clocks, NEW vals \in Seq(Vectors), NEW n \in 1 .. Len(vals),
           NEW k \in 1 .. n + 2, NEW x, IsItem(c, vals, x, n, k)
    PROVE  /\ x # None
           /\ k <= n + 1 =>
                  /\ x # PipeEnd /\ x \in AnyChange
                  /\ x.value = vals[IF k <= n THEN k ELSE n]
                  /\ x.time = TimeOf(c, IF k <= n THEN k ELSE n)
                  /\ x.time.val = At(c, IF k <= n THEN k ELSE n)
           /\ k <= n => x = ChangeNo(c, vals, k)
           /\ k = n + 2 => x = PipeEnd
  <1>1. Len(vals) \in Nat /\ n \in Int /\ k \in Int
    BY LenProperties
  <1>2. CASE k <= n
    BY <1>1, <1>2, ChangeFacts DEF IsItem
  <1>3. CASE k = n + 1
    <2>1. TimeOf(c, n).val = At(c, n)
      BY <1>1, TimesApart
    <2>2. x \in AnyChange /\ x.value = vals[n] /\ x.time = TimeOf(c, n)
      BY <1>1, <1>3 DEF IsItem
    <2> QED BY <1>1, <1>3, <2>1, <2>2, Offband
  <1>4. CASE k = n + 2
    <2>1. x = PipeEnd
      BY <1>1, <1>4 DEF IsItem
    <2> QED BY <1>1, <1>4, <2>1, Offband
  <1> QED BY <1>1, <1>2, <1>3, <1>4

(* They stay what they are when values are added behind these.              *)
LEMMA ItemsKept ==
    ASSUME NEW c, NEW vals, NEW more, NEW n \in Nat, NEW m \in Nat,
           \A i \in 1 .. n : more[i] = vals[i],
           NEW k \in 1 .. n + 2, NEW x, IsItem(c, vals, x, n, k),
           k <= n \/ m = n, k = n + 1 => n > 0, m >= n
    PROVE  IsItem(c, more, x, m, k)
  <1>1. CASE k <= n
    <2>1. more[k] = vals[k] /\ k <= m /\ k # m + 1 /\ k # m + 2
      BY <1>1
    <2>2. x = ChangeNo(c, vals, k)
      BY <1>1 DEF IsItem
    <2> QED BY <2>1, <2>2 DEF IsItem, ChangeNo
  <1>2. CASE k = n + 1
    <2>1. m = n /\ more[n] = vals[n] /\ ~(k <= n) /\ k # n + 2
      BY <1>2
    <2>2. x \in AnyChange /\ x.value = vals[n] /\ x.time = TimeOf(c, n)
      BY <1>2 DEF IsItem
    <2> QED BY <2>1, <2>2 DEF IsItem
  <1>3. CASE k = n + 2
    <2>1. m = n /\ ~(k <= n) /\ k # n + 1
      BY <1>3
    <2> QED BY <1>3, <2>1 DEF IsItem
  <1> QED BY <1>1, <1>2, <1>3

LEMMA Known ==
    ASSUME SignalTypeOK, NEW n \in Nat, NEW t \in Nat, NEW p \in Nat, SignalParts(n, t, p)
    PROVE  /\ clock.made \in Clocks /\ fed \in Seq(Vectors) /\ Len(fed) \in Nat
           /\ n \in 0 .. Len(fed) /\ p \in 0 .. n + 2 /\ Emitted(n) \in n .. n + 2
           /\ signal.at \in {"in", "clk", "end", "ended", "failed"}
           /\ probe.pos \in Times /\ probe.pos.val \in Int
           /\ signal.at \in {"in", "clk", "failed"} => p <= n
           /\ signal.at = "failed" => p = 0 /\ n = 0
           /\ n = 0 => p = 0
           /\ gates.out # None => n > 0 /\ p + 1 \in 1 .. n + 2 /\ p + 1 = Emitted(n)
  <1>1. Len(fed) \in Nat /\ clock.made \in Clocks /\ probe.pos \in Times
        /\ signal.at \in {"in", "clk", "end", "ended", "failed"}
    BY LenProperties DEF SignalTypeOK
  <1>2. probe.pos.val \in Int
    BY <1>1 DEF Times
  <1>3. Emitted(n) \in n .. n + 2 /\ (signal.at \in {"in", "clk", "failed"} => Emitted(n) = n)
    BY <1>1 DEF Emitted
  <1>4. p = Emitted(n) - (IF gates.out = None THEN 0 ELSE 1)
    BY DEF SignalParts, Receiving
  <1>5. n <= Len(fed) /\ (signal.at = "failed" => n = 0) /\ (signal.at \in {"end", "ended"} => n > 0)
    BY DEF SignalParts, Feeding, Signalling
  <1>6. p \in 0 .. n + 2 /\ (signal.at \in {"in", "clk", "failed"} => p <= n)
    BY <1>3, <1>4
  <1>7. n = 0 => p = 0
    BY <1>1, <1>5, <1>6
  <1>8. gates.out # None => n > 0 /\ p + 1 \in 1 .. n + 2 /\ p + 1 = Emitted(n)
    <2> SUFFICES ASSUME gates.out # None
                 PROVE  n > 0 /\ p + 1 \in 1 .. n + 2 /\ p + 1 = Emitted(n)
      OBVIOUS
    <2>1. p + 1 = Emitted(n)
      BY <1>3, <1>4
    <2>2. n > 0
      BY <1>1, <1>3, <1>5, <2>1
    <2> QED BY <1>3, <2>1, <2>2
  <1> QED BY <1>1, <1>2, <1>3, <1>5, <1>6, <1>7, <1>8 DEF SignalTypeOK

(* An edge is one of two values that follow each other.                     *)
LEMMA WantedKept ==
    ASSUME NEW vals, NEW more, NEW edge, NEW k, more[k - 1] = vals[k - 1], more[k] = vals[k]
    PROVE  Wanted(edge, more, k) <=> Wanted(edge, vals, k)
  BY Zenon DEF Wanted

(* Parts that are about what is left alone.                                 *)
LEMMA CallKept ==
    ASSUME NEW n, UNCHANGED <<fed, clock, call>>, probe'.pos = probe.pos, signal'.at = signal.at
    PROVE  /\ Asking(n) => Asking(n)' /\ (ReadAnswer(n) => ReadAnswer(n)')
           /\ EdgeAnswer(n) => EdgeAnswer(n)'
  BY DEF Asking, ReadAnswer, EdgeAnswer, Busy, Answered, Before

LEMMA ProbeKept ==
    ASSUME NEW n, NEW p, UNCHANGED <<fed, clock, probe>>, gates'.out = gates.out,
           signal'.at = signal.at, Receiving(n, p)
    PROVE  Receiving(n, p)'
  BY DEF Receiving, Emitted, Due

(* Values come behind those there are changes of.                           *)
LEMMA MoreValues ==
    ASSUME SignalTypeOK, NEW n \in Nat, NEW t \in Nat, NEW p \in Nat, SignalParts(n, t, p),
           fed' \in Seq(Vectors), \A i \in 1 .. n : fed'[i] = fed[i],
           UNCHANGED <<clock, probe, call>>, gates'.out = gates.out, signal'.at = signal.at
    PROVE  Receiving(n, p)' /\ Asking(n)' /\ ReadAnswer(n)' /\ EdgeAnswer(n)'
  <1> DEFINE c == clock.made
  <1>1. /\ p \in 0 .. n + 2 /\ Receiving(n, p) /\ Asking(n) /\ ReadAnswer(n) /\ EdgeAnswer(n)
        /\ n = 0 => p = 0
    BY Known DEF SignalParts
  <1>2. ASSUME NEW x, NEW k \in 1 .. n + 2, IsItem(c, fed, x, n, k), n > 0
        PROVE  IsItem(c, fed', x, n, k)
    BY <1>2, ItemsKept
  <1>3. Receiving(n, p)'
    <2>1. UNCHANGED c /\ Emitted(n)' = Emitted(n) /\ Due(n, p)' = Due(n, p)
      BY DEF Emitted, Due
    <2>2. gates.out # None => n > 0 /\ p + 1 \in 1 .. n + 2
      BY <1>1, Known
    <2>3. gates'.out # None => IsItem(c, fed', gates'.out, n, p + 1)
      BY <1>1, <1>2, <2>2 DEF Receiving
    <2>4. p > 0 => IsItem(c, fed', probe'.first, n, IF p = 1 THEN 1 ELSE p - 1)
      <3> SUFFICES ASSUME p > 0
                   PROVE  IsItem(c, fed', probe'.first, n, IF p = 1 THEN 1 ELSE p - 1)
        OBVIOUS
      <3>1. PICK k \in 1 .. n + 2 : k = IF p = 1 THEN 1 ELSE p - 1
        BY <1>1
      <3>2. IsItem(c, fed, probe.first, n, k)
        BY <1>1, <3>1 DEF Receiving
      <3>3. n > 0 /\ probe'.first = probe.first
        BY <1>1
      <3>4. IsItem(c, fed', probe.first, n, k)
        BY <1>2, <3>2, <3>3
      <3> QED BY <3>1, <3>3, <3>4
    <2>5. p > 1 => IsItem(c, fed', probe'.second, n, p)
      <3> SUFFICES ASSUME p > 1 PROVE IsItem(c, fed', probe'.second, n, p)
        OBVIOUS
      <3>1. IsItem(c, fed, probe.second, n, p) /\ p \in 1 .. n + 2 /\ n > 0
        BY <1>1 DEF Receiving
      <3>2. IsItem(c, fed', probe.second, n, p)
        BY <1>2, <3>1
      <3> QED BY <3>2
    <2>6. /\ p = Emitted(n)' - (IF gates'.out = None THEN 0 ELSE 1)
          /\ p > 2 => Due(n, p)' <= probe'.pos.val
          /\ probe'.pos.typ = "period"
      BY <1>1, <2>1 DEF Receiving
    <2>7. IF p = 0 THEN probe'.first = None
          ELSE IsItem(clock'.made, fed', probe'.first, n, IF p = 1 THEN 1 ELSE p - 1)
      <3>1. CASE p = 0
        BY <1>1, <3>1 DEF Receiving
      <3>2. CASE p # 0
        BY <2>1, <2>4, <3>2
      <3> QED BY <3>1, <3>2
    <2>8. IF p <= 1 THEN probe'.second = None ELSE IsItem(clock'.made, fed', probe'.second, n, p)
      BY <1>1, <2>5 DEF Receiving
    <2> QED BY <2>1, <2>3, <2>6, <2>7, <2>8 DEF Receiving
  <1>4. \A edge, last, from, to : last \in Int /\ last <= n =>
            (NoneWanted(c, fed, edge, last, from, to) <=> NoneWanted(c, fed', edge, last, from, to))
    <2>1. \A k \in 2 .. n : k - 1 \in 1 .. n /\ k \in 1 .. n
      OBVIOUS
    <2>2. \A edge : \A k \in 2 .. n : Wanted(edge, fed', k) <=> Wanted(edge, fed, k)
      BY <2>1, WantedKept
    <2>3. \A last \in Int : last <= n => \A k \in 2 .. last : k \in 2 .. n
      OBVIOUS
    <2> QED BY <2>2, <2>3 DEF NoneWanted
  <1>5. Asking(n)'
    <2>1. \A edge, from, to :
              NoneWanted(c, fed, edge, n, from, to) => NoneWanted(c, fed', edge, n, from, to)
      BY <1>4
    <2> QED BY <1>1, <2>1 DEF Asking, Busy
  <1>6. ReadAnswer(n)'
    BY <1>1 DEF ReadAnswer, Answered
  <1>7. EdgeAnswer(n)'
    <2> SUFFICES ASSUME Answered("edge") PROVE EdgeAnswer(n)'
      BY DEF EdgeAnswer, Answered
    <2>1. \A m \in 1 .. n + 1 : Before(m) => Before(m)'
      BY <1>4 DEF Before
    <2>2. \A m \in 2 .. n : /\ ChangeNo(c, fed', m) = ChangeNo(c, fed, m)
                            /\ Wanted(call.edge, fed', m) <=> Wanted(call.edge, fed, m)
      <3>1. \A m \in 2 .. n : m - 1 \in 1 .. n /\ m \in 1 .. n
        OBVIOUS
      <3> QED BY <3>1, WantedKept DEF ChangeNo
    <2>3. CASE call.raised
      BY <1>1, <2>1, <2>3 DEF EdgeAnswer, Answered
    <2>4. CASE ~call.raised /\ call.value = None
      <3>1. PICK m \in 1 .. n : call.maxTime.val <= At(c, m) /\ Before(m)
        BY <1>1, <2>4 DEF EdgeAnswer
      <3> QED BY <1>1, <2>1, <2>4, <3>1 DEF EdgeAnswer, Answered
    <2>5. CASE ~call.raised /\ call.value # None
      <3>1. PICK m \in 2 .. n :
                /\ call.value = ChangeNo(c, fed, m) /\ Wanted(call.edge, fed, m)
                /\ call.from.val < At(c, m) /\ Before(m)
                /\ call.maxTime # None => At(c, m) < call.maxTime.val
        BY <1>1, <2>5 DEF EdgeAnswer
      <3> QED BY <1>1, <2>1, <2>2, <2>5, <3>1 DEF EdgeAnswer, Answered
    <2> QED BY <2>3, <2>4, <2>5
  <1> QED BY <1>3, <1>5, <1>6, <1>7

LEMMA FeedStep ==
    ASSUME SignalTypeOK, NEW n \in Nat, NEW t \in Nat, NEW p \in Nat, SignalParts(n, t, p),
           NEW val \in Values, Feed(val)
    PROVE  SignalInv'
  <1>1. /\ UNCHANGED <<closed, source, clock, gates, signal, probe, call>> /\ ~closed
        /\ fed' = Append(fed, val) /\ val \in Vectors /\ Len(fed) \in Nat /\ n <= Len(fed)
    <2>1. val \in Vectors
      BY DEF Vectors
    <2>2. Len(fed) \in Nat /\ n <= Len(fed)
      BY Known
    <2> QED BY <2>1, <2>2 DEF Feed
  <1>2. /\ fed' \in Seq(Vectors) /\ Len(fed') = Len(fed) + 1
        /\ \A i \in 1 .. Len(fed) : fed'[i] = fed[i]
    BY <1>1, AppendProperties DEF SignalTypeOK
  <1>3. SignalTypeOK'
    BY <1>1, <1>2 DEF SignalTypeOK, Busy
  <1>4. Receiving(n, p)' /\ Asking(n)' /\ ReadAnswer(n)' /\ EdgeAnswer(n)'
    <2>1. \A i \in 1 .. n : fed'[i] = fed[i]
      BY <1>1, <1>2
    <2> QED BY <1>1, <1>2, <2>1, MoreValues
  <1>5. Feeding(n)'
    <2>1. source \in Nat /\ Feeding(n)
      BY DEF SignalTypeOK, SignalParts
    <2>2. OnOffer' = OnOffer /\ OnOffer \in {0, 1}
      BY <1>1 DEF OnOffer
    <2>3. signal.at \in {"in", "clk"} /\ gates.in # None => source \in 1 .. Len(fed)
      BY <1>1, <2>1 DEF Feeding, OnOffer
    <2> QED BY <1>1, <1>2, <2>1, <2>2, <2>3 DEF Feeding
  <1>6. Clocking(n, t)'
    BY <1>1 DEF SignalParts, Clocking
  <1>7. Signalling(n)'
    <2>1. Signalling(n) /\ (n > 0 => fed'[n] = fed[n])
      BY <1>1, <1>2 DEF SignalParts
    <2>2. n > 0 => ChangeNo(clock'.made, fed', n) = ChangeNo(clock.made, fed, n)
      BY <1>1, <2>1 DEF ChangeNo
    <2>3. EndsAt(n) => EndsAt(n)'
      BY <1>1 DEF EndsAt
    <2> QED BY <1>1, <2>1, <2>2, <2>3 DEF Signalling
  <1> QED BY <1>3, <1>4, <1>5, <1>6, <1>7 DEF SignalInv, SignalParts

LEMMA CloseStep ==
    ASSUME SignalTypeOK, NEW n \in Nat, NEW t \in Nat, NEW p \in Nat, SignalParts(n, t, p), Close
    PROVE  SignalInv'
  <1>1. UNCHANGED <<fed, source, clock, gates, signal, probe, call>> /\ closed' = TRUE
    BY DEF Close
  <1>2. SignalTypeOK'
    BY <1>1 DEF SignalTypeOK, Busy
  <1>3. Feeding(n)' /\ Signalling(n)'
    BY <1>1 DEF SignalParts, Feeding, Signalling, EndsAt, OnOffer
  <1>4. Clocking(n, t)' /\ Receiving(n, p)'
    BY <1>1, ProbeKept DEF SignalParts, Clocking
  <1> QED BY <1>1, <1>2, <1>3, <1>4, CallKept DEF SignalInv, SignalParts

(* The last change again, as one that does not stay.                        *)
LEMMA LastAgain ==
    ASSUME NEW c \in Clocks, NEW vals \in Seq(Vectors), NEW n \in 1 .. Len(vals), NEW x,
           x = [ChangeNo(c, vals, n) EXCEPT !.sync = FALSE]
    PROVE  x \in AnyChange /\ IsItem(c, vals, x, n, n + 1)
  <1> DEFINE chg == ChangeNo(c, vals, n)
  <1>1. /\ chg \in AnyChange /\ chg.value = vals[n] /\ chg.time = TimeOf(c, n)
        /\ n \in Int
    BY ChangeFacts
  <1> HIDE DEF chg
  <1>2. PICK y \in AnyChange : y = chg /\ x = [y EXCEPT !.sync = FALSE]
    BY <1>1 DEF chg
  <1>3. x \in AnyChange /\ x.value = y.value /\ x.time = y.time
    BY <1>2 DEF AnyChange
  <1>4. ~(n + 1 <= n) /\ n + 1 # n + 2
    BY <1>1
  <1> QED BY <1>1, <1>2, <1>3, <1>4 DEF IsItem

LEMMA SourceSendsStep ==
    ASSUME SignalTypeOK, NEW n \in Nat, NEW t \in Nat, NEW p \in Nat, SignalParts(n, t, p),
           SourceSends
    PROVE  SignalInv'
  <1>1. /\ UNCHANGED <<fed, closed, clock, signal, probe, call>>
        /\ gates.in = None /\ source' = source + 1 /\ source \in Nat
        /\ gates' = [gates EXCEPT !.in = IF source < Len(fed) THEN fed[source'] ELSE PipeEnd]
        /\ source < Len(fed) + IF closed THEN 1 ELSE 0
    BY DEF SourceSends, SignalTypeOK
  <1>2. Len(fed) \in Nat /\ fed \in Seq(Vectors) /\ Feeding(n)
    BY Known DEF SignalParts
  <1>3. /\ gates'.clk = gates.clk /\ gates'.out = gates.out
        /\ gates'.in = IF source < Len(fed) THEN fed[source'] ELSE PipeEnd
    BY <1>1 DEF SignalTypeOK
  <1>4. source < Len(fed) => source' \in 1 .. Len(fed) /\ fed[source'] \in Vectors
    BY <1>1, <1>2, ElementOfSeq
  <1>5. gates'.in \in Vectors \cup {PipeEnd} /\ gates'.in # None
    BY <1>3, <1>4, Offband
  <1>6. SignalTypeOK'
    BY <1>1, <1>5 DEF SignalTypeOK, Busy
  <1>7. Feeding(n)'
    <2>1. OnOffer = 0 /\ OnOffer' = 1
      BY <1>1, <1>5 DEF OnOffer
    <2>2. CASE source < Len(fed)
      BY <1>1, <1>2, <1>3, <1>4, <2>1, <2>2 DEF Feeding
    <2>3. CASE ~(source < Len(fed))
      <3>1. closed /\ source' = Len(fed) + 1
        BY <1>1, <1>2, <2>3
      <3> QED BY <1>1, <1>2, <1>3, <2>1, <2>3, <3>1 DEF Feeding
    <2> QED BY <2>2, <2>3
  <1>8. Clocking(n, t)' /\ Signalling(n)'
    BY <1>1, <1>3 DEF SignalParts, Clocking, Signalling, EndsAt
  <1>9. Receiving(n, p)'
    BY <1>1, <1>3, ProbeKept DEF SignalParts
  <1> QED BY <1>1, <1>6, <1>7, <1>8, <1>9, CallKept DEF SignalInv, SignalParts

LEMMA ClockSendsStep ==
    ASSUME SignalTypeOK, NEW n \in Nat, NEW t \in Nat, NEW p \in Nat, SignalParts(n, t, p),
           ClockSends
    PROVE  SignalInv'
  <1> DEFINE c == clock.made
  <1>1. /\ UNCHANGED <<fed, closed, source, signal, probe, call>>
        /\ gates.clk = None /\ ~clock.ended
    BY DEF ClockSends
  <1>2. /\ c \in Clocks /\ clock.now = TimeOf(c, t + 1) /\ n <= t
        /\ \A k \in 1 .. t : ~StopsBy(c, At(c, k))
        /\ signal.at \in {"in", "clk"} => t = n
    BY <1>1, Known DEF SignalParts, Clocking
  <1>3. /\ clock.now \in Times /\ clock.now.val = At(c, t + 1) /\ clock.now.typ = c.typ
        /\ At(c, t + 1) \in Int /\ At(c, t + 2) = At(c, t + 1) + c.period.val
        /\ c.period.val \in Int /\ (c.stop # None => c.stop.val \in Int)
    <2>1. t + 1 \in Int /\ (t + 1) + 1 = t + 2
      OBVIOUS
    <2>2. /\ At(c, t + 1) \in Int /\ At(c, (t + 1) + 1) = At(c, t + 1) + c.period.val
          /\ TimeOf(c, t + 1) \in Times /\ TimeOf(c, t + 1).val = At(c, t + 1)
          /\ TimeOf(c, t + 1).typ = c.typ
      BY <1>2, <2>1, TimesApart
    <2>3. c.period.val \in Int /\ (c.stop # None => c.stop.val \in Int)
      BY <1>2, ClockFacts
    <2> QED BY <1>2, <2>1, <2>2, <2>3
  <1>4. CASE c.stop = None \/ comp(clock.now, c.stop) < 0
    <2>1. /\ gates' = [gates EXCEPT !.clk = clock.now]
          /\ clock' = [clock EXCEPT !.now = plus(clock.now, c.period)]
      BY <1>4 DEF ClockSends
    <2>2. gates'.in = gates.in /\ gates'.out = gates.out /\ gates'.clk = clock.now
      BY <2>1 DEF SignalTypeOK
    <2>3. /\ clock'.made = c /\ clock'.ended = clock.ended
          /\ clock'.now = plus(clock.now, c.period)
      BY <2>1 DEF SignalTypeOK
    <2>4. clock'.now = TimeOf(c, t + 2) /\ clock'.now \in Times
      <3>1. plus(clock.now, c.period) = Tme(c.typ, At(c, t + 2))
        BY <1>3 DEF plus
      <3>2. t + 2 \in Int
        OBVIOUS
      <3> QED BY <1>2, <2>3, <3>1, <3>2, TimesApart DEF TimeOf
    <2>5. ~StopsBy(c, At(c, t + 1))
      BY <1>3, <1>4 DEF StopsBy, comp
    <2>6. SignalTypeOK'
      BY <1>1, <1>3, <2>1, <2>2, <2>3, <2>4 DEF SignalTypeOK, Busy
    <2>7. Feeding(n)' /\ Signalling(n)'
      BY <1>1, <2>2, <2>3 DEF SignalParts, Feeding, Signalling, EndsAt, OnOffer
    <2>8. Clocking(n, t + 1)'
      <3>1. gates'.clk \notin {None, PipeEnd}
        BY <1>3, <2>2, Offband
      <3>2. \A k \in 1 .. t + 1 : ~StopsBy(c, At(c, k))
        <4>1. \A k \in 1 .. t + 1 : k \in 1 .. t \/ k = t + 1
          OBVIOUS
        <4> QED BY <1>2, <2>5, <4>1
      <3>3. n <= t + 1 /\ (t + 1) + 1 = t + 2
        BY <1>2
      <3> QED BY <1>1, <1>2, <2>2, <2>3, <2>4, <3>1, <3>2, <3>3 DEF Clocking
    <2>9. Receiving(n, p)' /\ Asking(n)' /\ ReadAnswer(n)' /\ EdgeAnswer(n)'
      <3>1. Receiving(n, p) /\ Asking(n) /\ ReadAnswer(n) /\ EdgeAnswer(n)
        BY DEF SignalParts
      <3> QED
        BY <1>1, <2>2, <2>3, <3>1
           DEF Receiving, Emitted, Due, Asking, ReadAnswer, EdgeAnswer, Busy, Answered, Before
    <2>10. t + 1 \in Nat
      OBVIOUS
    <2> QED BY <2>6, <2>7, <2>8, <2>9, <2>10 DEF SignalInv, SignalParts
  <1>5. CASE ~(c.stop = None \/ comp(clock.now, c.stop) < 0)
    <2>1. /\ gates' = [gates EXCEPT !.clk = PipeEnd]
          /\ clock' = [clock EXCEPT !.ended = TRUE]
      BY <1>5 DEF ClockSends
    <2>2. gates'.in = gates.in /\ gates'.out = gates.out /\ gates'.clk = PipeEnd
      BY <2>1 DEF SignalTypeOK
    <2>3. clock'.made = c /\ clock'.ended /\ clock'.now = clock.now
      BY <2>1 DEF SignalTypeOK
    <2>4. StopsBy(c, At(c, t + 1))
      BY <1>3, <1>5 DEF StopsBy, comp
    <2>5. SignalTypeOK'
      BY <1>1, <2>1, <2>2, <2>3 DEF SignalTypeOK, Busy
    <2>6. Feeding(n)' /\ Signalling(n)'
      BY <1>1, <2>2, <2>3 DEF SignalParts, Feeding, Signalling, EndsAt, OnOffer
    <2>7. Clocking(n, t)'
      BY <1>1, <1>2, <2>2, <2>3, <2>4, Offband DEF Clocking
    <2>8. Receiving(n, p)' /\ Asking(n)' /\ ReadAnswer(n)' /\ EdgeAnswer(n)'
      <3>1. Receiving(n, p) /\ Asking(n) /\ ReadAnswer(n) /\ EdgeAnswer(n)
        BY DEF SignalParts
      <3> QED
        BY <1>1, <2>2, <2>3, <3>1
           DEF Receiving, Emitted, Due, Asking, ReadAnswer, EdgeAnswer, Busy, Answered, Before
    <2> QED BY <2>5, <2>6, <2>7, <2>8 DEF SignalInv, SignalParts
  <1> QED BY <1>4, <1>5

(* The last value or the last time is past: the last change again, if any.  *)
LEMMA EndsStep ==
    ASSUME SignalTypeOK, NEW n \in Nat, NEW t \in Nat, NEW p \in Nat, SignalParts(n, t, p),
           UNCHANGED <<fed, closed, source, clock, probe, call>>,
           signal.at \in {"in", "clk"}, gates.out = None, EndsAt(n),
           NEW gate \in {"in", "clk"}, Ends(gate)
    PROVE  SignalInv'
  <1>1. /\ clock.made \in Clocks /\ fed \in Seq(Vectors) /\ Len(fed) \in Nat /\ n \in 0 .. Len(fed)
        /\ Receiving(n, p) /\ Signalling(n) /\ Feeding(n) /\ Clocking(n, t)
    BY Known DEF SignalParts
  <1>2. p = n
    BY <1>1 DEF Receiving, Emitted
  <1>3. signal.chg = None <=> n = 0
    BY <1>1, ChangeFacts DEF Signalling
  <1>4. CASE n = 0
    <2>1. signal' = [signal EXCEPT !.at = "failed"] /\ gates' = [gates EXCEPT ![gate] = None]
      BY <1>3, <1>4 DEF Ends
    <2>2. signal'.at = "failed" /\ signal'.chg = signal.chg /\ gates'.out = gates.out
      BY <2>1 DEF SignalTypeOK
    <2>3. SignalTypeOK'
      BY <2>1 DEF SignalTypeOK, Busy
    <2>4. Feeding(n)' /\ Clocking(n, t)' /\ Signalling(n)'
      BY <1>1, <1>4, <2>2 DEF Feeding, Clocking, Signalling
    <2>5. Receiving(n, p)' /\ Asking(n)' /\ ReadAnswer(n)' /\ EdgeAnswer(n)'
      BY <1>1, <1>2, <1>4, <2>2
         DEF SignalParts, Receiving, Emitted, Due, Asking, ReadAnswer, EdgeAnswer, Busy, Answered,
             Before
    <2> QED BY <2>3, <2>4, <2>5 DEF SignalInv, SignalParts
  <1>5. CASE n # 0
    <2> DEFINE again == [signal.chg EXCEPT !.sync = FALSE]
    <2>1. signal' = [signal EXCEPT !.at = "end"] /\ gates' = [gates EXCEPT ![gate] = None, !.out = again]
      BY <1>3, <1>5 DEF Ends
    <2>2. again \in AnyChange /\ IsItem(clock.made, fed, again, n, n + 1)
      <3>1. again = [ChangeNo(clock.made, fed, n) EXCEPT !.sync = FALSE] /\ n \in 1 .. Len(fed)
        BY <1>1, <1>5 DEF Signalling
      <3> QED BY <1>1, <3>1, LastAgain
    <2> HIDE DEF again
    <2>3. signal'.at = "end" /\ signal'.chg = signal.chg /\ gates'.out = again
      BY <2>1 DEF SignalTypeOK
    <2>4. SignalTypeOK'
      BY <2>1, <2>2 DEF SignalTypeOK, Busy
    <2>5. Feeding(n)' /\ Clocking(n, t)' /\ Signalling(n)'
      BY <1>1, <1>5, <2>3 DEF Feeding, Clocking, Signalling, EndsAt
    <2>6. Receiving(n, p)'
      <3>1. Emitted(n)' = n + 1 /\ gates'.out # None /\ p + 1 = n + 1
        BY <1>2, <2>2, <2>3, Offband DEF Emitted
      <3> QED BY <1>1, <1>2, <2>2, <2>3, <3>1 DEF Receiving, Due
    <2>7. Asking(n)' /\ ReadAnswer(n)' /\ EdgeAnswer(n)'
      BY <2>3 DEF SignalParts, Asking, ReadAnswer, EdgeAnswer, Busy, Answered, Before
    <2> QED BY <2>4, <2>5, <2>6, <2>7 DEF SignalInv, SignalParts
  <1> QED BY <1>4, <1>5

LEMMA TakesValueStep ==
    ASSUME SignalTypeOK, NEW n \in Nat, NEW t \in Nat, NEW p \in Nat, SignalParts(n, t, p),
           TakesValue
    PROVE  SignalInv'
  <1>1. /\ UNCHANGED <<fed, closed, source, clock, probe, call>>
        /\ signal.at = "in" /\ gates.out = None /\ gates.in # None
    BY DEF TakesValue
  <1>2. Len(fed) \in Nat /\ fed \in Seq(Vectors) /\ Feeding(n) /\ source = n + 1
    BY <1>1, Known DEF SignalParts, Feeding, OnOffer
  <1>3. CASE gates.in = PipeEnd
    <2>1. EndsAt(n)
      <3>1. source <= Len(fed) => source \in 1 .. Len(fed) /\ fed[source] # PipeEnd
        BY <1>2, ElementOfSeq, Offband
      <3>2. closed /\ source = Len(fed) + 1
        BY <1>1, <1>2, <1>3, <3>1 DEF Feeding
      <3> QED BY <1>2, <3>2 DEF EndsAt
    <2>2. Ends("in")
      BY <1>3 DEF TakesValue
    <2> QED BY <1>1, <2>1, <2>2, EndsStep
  <1>4. CASE gates.in # PipeEnd
    <2>1. /\ signal' = [signal EXCEPT !.at = "clk", !.val = gates.in]
          /\ gates' = [gates EXCEPT !.in = None]
      BY <1>4 DEF TakesValue
    <2>2. /\ signal'.at = "clk" /\ signal'.val = gates.in /\ signal'.chg = signal.chg
          /\ gates'.in = None /\ gates'.clk = gates.clk /\ gates'.out = gates.out
      BY <2>1 DEF SignalTypeOK
    <2>3. SignalTypeOK'
      BY <1>1, <1>4, <2>1 DEF SignalTypeOK, Busy
    <2>4. Feeding(n)'
      <3>1. source <= Len(fed) /\ gates.in = fed[source]
        BY <1>1, <1>2, <1>4 DEF Feeding
      <3>2. OnOffer' = 0
        BY <2>2 DEF OnOffer
      <3> QED BY <1>1, <1>2, <2>2, <3>1, <3>2 DEF Feeding
    <2>5. Clocking(n, t)' /\ Signalling(n)'
      BY <1>1, <2>2 DEF SignalParts, Clocking, Signalling
    <2>6. Receiving(n, p)' /\ Asking(n)' /\ ReadAnswer(n)' /\ EdgeAnswer(n)'
      <3>1. Receiving(n, p) /\ Asking(n) /\ ReadAnswer(n) /\ EdgeAnswer(n)
        BY DEF SignalParts
      <3> QED
        BY <1>1, <2>2, <3>1
           DEF Receiving, Emitted, Due, Asking, ReadAnswer, EdgeAnswer, Busy, Answered, Before
    <2> QED BY <2>3, <2>4, <2>5, <2>6 DEF SignalInv, SignalParts
  <1> QED BY <1>3, <1>4

(* The next change is later than any the probe was brought to.              *)
LEMMA NextChangeLater ==
    ASSUME NEW c \in Clocks, NEW vals, NEW edge, NEW n \in Nat, NEW from \in Int, NEW pos \in Int,
           pos = from \/ \E m \in 1 .. n : pos = At(c, m),
           NoneWanted(c, vals, edge, n, from, pos)
    PROVE  NoneWanted(c, vals, edge, n + 1, from, pos)
  <1> SUFFICES ASSUME NEW k \in 2 .. n + 1, from < At(c, k), At(c, k) <= pos
               PROVE  ~Wanted(edge, vals, k)
    BY DEF NoneWanted
  <1>1. k \in Int /\ At(c, k) \in Int
    BY TimesApart
  <1>2. PICK m \in 1 .. n : pos = At(c, m)
    BY <1>1
  <1>3. ~(m < k)
    BY <1>1, <1>2, TimesApart
  <1>4. k \in 2 .. n
    BY <1>1, <1>3
  <1> QED BY <1>4 DEF NoneWanted

LEMMA TakesTimeStep ==
    ASSUME SignalTypeOK, NEW n \in Nat, NEW t \in Nat, NEW p \in Nat, SignalParts(n, t, p),
           TakesTime
    PROVE  SignalInv'
  <1> DEFINE c == clock.made
  <1>1. /\ UNCHANGED <<fed, closed, source, clock, probe, call>>
        /\ signal.at = "clk" /\ gates.clk # None
    BY DEF TakesTime
  <1>2. /\ c \in Clocks /\ fed \in Seq(Vectors) /\ Len(fed) \in Nat /\ n \in 0 .. Len(fed)
        /\ Feeding(n) /\ Clocking(n, t) /\ Receiving(n, p) /\ Asking(n)
        /\ ReadAnswer(n) /\ EdgeAnswer(n)
    BY Known DEF SignalParts
  <1>3. n < Len(fed) /\ signal.val = fed[n + 1] /\ source = n + 1 + OnOffer /\ gates.out = None
    BY <1>1, <1>2 DEF Feeding
  <1>4. CASE gates.clk = PipeEnd
    <2>1. EndsAt(n)
      BY <1>1, <1>2, <1>4 DEF Clocking, EndsAt
    <2>2. Ends("clk")
      BY <1>4 DEF TakesTime
    <2> QED BY <1>1, <1>3, <2>1, <2>2, EndsStep
  <1>5. CASE gates.clk # PipeEnd
    <2> DEFINE chg == Change(signal.val, gates.clk, TRUE)
    <2>1. /\ signal' = [signal EXCEPT !.at = "in", !.chg = chg]
          /\ gates' = [gates EXCEPT !.clk = None, !.out = chg]
      BY <1>5 DEF TakesTime
    <2>2. t = n + 1 /\ gates.clk = TimeOf(c, n + 1) /\ ~clock.ended
      BY <1>1, <1>2, <1>5 DEF Clocking
    <2>3. chg = ChangeNo(c, fed, n + 1)
      BY <1>3, <2>2 DEF ChangeNo
    <2>4. n + 1 \in 1 .. Len(fed) /\ chg \in AnyChange /\ chg # None
      <3>1. n + 1 \in 1 .. Len(fed)
        BY <1>2, <1>3
      <3>2. ChangeNo(c, fed, n + 1) \in AnyChange /\ ChangeNo(c, fed, n + 1) # None
        BY <1>2, <3>1, ChangeFacts
      <3> QED BY <2>3, <3>1, <3>2
    <2> HIDE DEF chg
    <2>5. /\ signal'.at = "in" /\ signal'.chg = chg
          /\ gates'.in = gates.in /\ gates'.clk = None /\ gates'.out = chg
      BY <2>1 DEF SignalTypeOK
    <2>6. SignalTypeOK'
      BY <1>1, <2>1, <2>4 DEF SignalTypeOK, Busy
    <2>7. Feeding(n + 1)'
      BY <1>1, <1>2, <1>3, <2>4, <2>5 DEF Feeding, OnOffer
    <2>8. Clocking(n + 1, t)'
      <3>1. n + 1 <= t /\ clock'.now = TimeOf(clock'.made, t + 1) /\ UNCHANGED clock
        BY <1>1, <1>2, <2>2 DEF Clocking
      <3>2. \A k \in 1 .. t : ~StopsBy(clock'.made, At(clock'.made, k))
        BY <1>1, <1>2 DEF Clocking
      <3>3. gates'.clk = None /\ None # PipeEnd /\ t = n + 1 /\ ~clock'.ended
        BY <1>1, <2>2, <2>5, Offband
      <3> QED BY <3>1, <3>2, <3>3 DEF Clocking
    <2>9. Signalling(n + 1)'
      BY <1>1, <2>3, <2>5 DEF Signalling
    <2>10. p = n
      BY <1>1, <1>2, <1>3 DEF Receiving, Emitted
    <2>11. ASSUME NEW x, NEW k \in 1 .. n, IsItem(c, fed, x, n, k)
           PROVE  IsItem(c, fed, x, n + 1, k)
      BY <2>11, ItemsKept
    <2>12. Receiving(n + 1, p)'
      <3>1. Emitted(n + 1)' = n + 1 /\ p = (n + 1) - 1 /\ p + 1 = n + 1
        BY <2>5, <2>10 DEF Emitted
      <3>2. IsItem(c, fed, gates'.out, n + 1, p + 1)
        <4>1. n + 1 <= n + 1 /\ ~(n + 1 = (n + 1) + 1) /\ ~(n + 1 = (n + 1) + 2)
          OBVIOUS
        <4> QED BY <2>3, <2>5, <3>1, <4>1 DEF IsItem
      <3>3. /\ p = Emitted(n + 1)' - (IF gates'.out = None THEN 0 ELSE 1)
            /\ gates'.out # None => IsItem(clock'.made, fed', gates'.out, n + 1, p + 1)
            /\ probe'.pos.typ = "period"
        BY <1>1, <1>2, <2>4, <2>5, <3>1, <3>2 DEF Receiving
      <3>4. IF p = 0 THEN probe'.first = None
            ELSE IsItem(clock'.made, fed', probe'.first, n + 1, IF p = 1 THEN 1 ELSE p - 1)
        <4>1. CASE p = 0
          BY <1>1, <1>2, <4>1 DEF Receiving
        <4>2. CASE p # 0
          <5>1. PICK k \in 1 .. n : k = IF p = 1 THEN 1 ELSE p - 1
            BY <2>10, <4>2
          <5>2. IsItem(c, fed, probe.first, n, k)
            BY <1>2, <4>2, <5>1 DEF Receiving
          <5>3. IsItem(c, fed, probe.first, n + 1, k)
            BY <2>11, <5>2
          <5> QED BY <1>1, <4>2, <5>1, <5>3
        <4> QED BY <4>1, <4>2
      <3>5. IF p <= 1 THEN probe'.second = None
            ELSE IsItem(clock'.made, fed', probe'.second, n + 1, p)
        <4>1. CASE p <= 1
          BY <1>1, <1>2, <4>1 DEF Receiving
        <4>2. CASE ~(p <= 1)
          <5>1. p \in 1 .. n /\ IsItem(c, fed, probe.second, n, p)
            BY <1>2, <2>10, <4>2 DEF Receiving
          <5> QED BY <1>1, <2>11, <4>2, <5>1
        <4> QED BY <4>1, <4>2
      <3>6. p > 2 => Due(n + 1, p)' <= probe'.pos.val
        <4>1. p <= n /\ p <= n + 1
          BY <2>10
        <4>2. p > 2 => Due(n, p) <= probe.pos.val
          BY <1>2 DEF Receiving
        <4> QED BY <1>1, <4>1, <4>2 DEF Due
      <3> QED BY <3>3, <3>4, <3>5, <3>6 DEF Receiving
    <2>13. Asking(n + 1)'
      <3> SUFFICES ASSUME Busy, call.op = "edge"
                   PROVE  /\ \/ probe.pos.val = call.from.val
                             \/ \E m \in 1 .. n + 1 : probe.pos.val = At(c, m)
                          /\ NoneWanted(c, fed, call.edge, n + 1, call.from.val, probe.pos.val)
        BY <1>1, <1>2 DEF Asking, Busy
      <3>1. call.from.val \in Int /\ probe.pos.val \in Int
        BY DEF SignalTypeOK, Calls, Times
      <3>2. \/ probe.pos.val = call.from.val
            \/ \E m \in 1 .. n : probe.pos.val = At(c, m)
        BY <1>2 DEF Asking
      <3>3. NoneWanted(c, fed, call.edge, n, call.from.val, probe.pos.val)
        BY <1>2 DEF Asking
      <3>4. NoneWanted(c, fed, call.edge, n + 1, call.from.val, probe.pos.val)
        BY <1>2, <3>1, <3>2, <3>3, NextChangeLater
      <3> QED BY <3>2, <3>4
    <2>14. ReadAnswer(n + 1)'
      BY <1>1, <1>2 DEF ReadAnswer, Answered
    <2>15. EdgeAnswer(n + 1)'
      BY <1>1, <1>2 DEF EdgeAnswer, Answered, Before
    <2> QED BY <2>6, <2>7, <2>8, <2>9, <2>12, <2>13, <2>14, <2>15 DEF SignalInv, SignalParts
  <1> QED BY <1>4, <1>5

LEMMA SendsEndStep ==
    ASSUME SignalTypeOK, NEW n \in Nat, NEW t \in Nat, NEW p \in Nat, SignalParts(n, t, p),
           SendsEnd
    PROVE  SignalInv'
  <1>1. /\ UNCHANGED <<fed, closed, source, clock, probe, call>>
        /\ signal.at = "end" /\ gates.out = None
        /\ signal' = [signal EXCEPT !.at = "ended"] /\ gates' = [gates EXCEPT !.out = PipeEnd]
    BY DEF SendsEnd
  <1>2. signal'.at = "ended" /\ signal'.chg = signal.chg /\ gates'.out = PipeEnd
    BY <1>1 DEF SignalTypeOK
  <1>3. SignalTypeOK'
    BY <1>1 DEF SignalTypeOK, Busy
  <1>4. Feeding(n)' /\ Clocking(n, t)' /\ Signalling(n)'
    BY <1>1, <1>2 DEF SignalParts, Feeding, Clocking, Signalling, EndsAt
  <1>5. Receiving(n, p)'
    <2>1. Receiving(n, p) /\ p = n + 1
      BY <1>1 DEF SignalParts, Receiving, Emitted
    <2>2. Emitted(n)' = n + 2 /\ p = (n + 2) - 1
      BY <1>2, <2>1 DEF Emitted
    <2>3. IsItem(clock.made, fed, gates'.out, n, p + 1)
      <3>1. p + 1 = n + 2 /\ ~(p + 1 <= n) /\ ~(p + 1 = n + 1)
        BY <2>1
      <3> QED BY <1>2, <3>1 DEF IsItem
    <2> QED BY <1>1, <1>2, <2>1, <2>2, <2>3, Offband DEF Receiving, Due
  <1>6. Asking(n)' /\ ReadAnswer(n)' /\ EdgeAnswer(n)'
    BY <1>1, <1>2 DEF SignalParts, Asking, ReadAnswer, EdgeAnswer, Busy, Answered, Before
  <1> QED BY <1>3, <1>4, <1>5, <1>6 DEF SignalInv, SignalParts

(* What the two values of a probe are.                                      *)
LEMMA TwoItems ==
    ASSUME SignalTypeOK, NEW n \in Nat, NEW t \in Nat, NEW p \in Nat, SignalParts(n, t, p)
    PROVE  /\ (probe.first = None <=> p = 0) /\ (probe.second = None <=> p <= 1)
           /\ p > 1 => (probe.second = PipeEnd <=> p = n + 2)
           /\ p = 1 => probe.first.time = TimeOf(clock.made, 1) /\ n > 0
           /\ p \in 2 .. n + 1 =>
                  /\ probe.first = ChangeNo(clock.made, fed, p - 1)
                  /\ probe.first.value = fed[p - 1]
                  /\ probe.first.time = TimeOf(clock.made, p - 1)
                  /\ probe.second \in AnyChange
                  /\ p <= n => /\ probe.second = ChangeNo(clock.made, fed, p)
                               /\ probe.second.value = fed[p]
                               /\ probe.second.time = TimeOf(clock.made, p)
                  /\ p > n => /\ probe.second.value = fed[n]
                              /\ probe.second.time = TimeOf(clock.made, n)
  <1>1. /\ clock.made \in Clocks /\ fed \in Seq(Vectors) /\ Len(fed) \in Nat /\ n \in 0 .. Len(fed)
        /\ p \in 0 .. n + 2 /\ Receiving(n, p) /\ (n = 0 => p = 0)
    BY Known DEF SignalParts
  <1>2. CASE p = 0
    BY <1>1, <1>2 DEF Receiving
  <1>3. CASE p = 1
    <2>1. n \in 1 .. Len(fed) /\ 1 \in 1 .. n + 2 /\ 1 <= n
      BY <1>1, <1>3
    <2>2. IsItem(clock.made, fed, probe.first, n, 1) /\ probe.second = None
      BY <1>1, <1>3 DEF Receiving
    <2>3. probe.first # None /\ probe.first.time = TimeOf(clock.made, 1)
      BY <1>1, <2>1, <2>2, ItemFacts
    <2> QED BY <1>3, <2>1, <2>2, <2>3
  <1>4. CASE p > 1
    <2>1. n \in 1 .. Len(fed) /\ p \in 1 .. n + 2 /\ p - 1 \in 1 .. n + 2 /\ p - 1 <= n + 1
      BY <1>1, <1>4
    <2>2. IsItem(clock.made, fed, probe.first, n, p - 1) /\ IsItem(clock.made, fed, probe.second, n, p)
      BY <1>1, <1>4 DEF Receiving
    <2>3. /\ probe.first # None
          /\ p - 1 <= n => /\ probe.first = ChangeNo(clock.made, fed, p - 1)
                           /\ probe.first.value = fed[p - 1]
                           /\ probe.first.time = TimeOf(clock.made, p - 1)
      <3>1. PICK k \in 1 .. n + 2 : k = p - 1
        BY <2>1
      <3>2. /\ probe.first # None
            /\ k <= n => /\ probe.first = ChangeNo(clock.made, fed, k)
                         /\ probe.first.value = fed[k]
                         /\ probe.first.time = TimeOf(clock.made, k)
        <4>1. IsItem(clock.made, fed, probe.first, n, k)
          BY <2>2, <3>1
        <4>2. /\ probe.first # None
              /\ k <= n => probe.first = ChangeNo(clock.made, fed, k)
          BY <1>1, <2>1, <4>1, ItemFacts
        <4>3. k <= n => k \in 1 .. Len(fed)
          BY <1>1
        <4> QED BY <1>1, <4>2, <4>3, ChangeFacts
      <3> QED BY <3>1, <3>2
    <2>4. /\ probe.second # None /\ (p = n + 2 => probe.second = PipeEnd)
          /\ p <= n + 1 => probe.second # PipeEnd /\ probe.second \in AnyChange
          /\ p <= n => /\ probe.second = ChangeNo(clock.made, fed, p)
                       /\ probe.second.value = fed[p] /\ probe.second.time = TimeOf(clock.made, p)
          /\ p = n + 1 => probe.second.value = fed[n] /\ probe.second.time = TimeOf(clock.made, n)
      <3>1. /\ probe.second # None /\ (p = n + 2 => probe.second = PipeEnd)
            /\ p <= n + 1 => probe.second # PipeEnd /\ probe.second \in AnyChange
            /\ p <= n => probe.second = ChangeNo(clock.made, fed, p)
        BY <1>1, <2>1, <2>2, ItemFacts
      <3>2. p <= n => p \in 1 .. Len(fed)
        BY <1>1, <2>1
      <3>3. p = n + 1 => probe.second.value = fed[n] /\ probe.second.time = TimeOf(clock.made, n)
        BY <2>2 DEF IsItem
      <3> QED BY <1>1, <3>1, <3>2, <3>3, ChangeFacts
    <2> QED BY <1>1, <1>4, <2>1, <2>3, <2>4
  <1> QED BY <1>1, <1>2, <1>3, <1>4

LEMMA SeekStep ==
    ASSUME SignalTypeOK, NEW n \in Nat, NEW t \in Nat, NEW p \in Nat, SignalParts(n, t, p),
           NEW pos \in Positions, Seek(pos)
    PROVE  SignalInv'
  <1>1. /\ UNCHANGED <<fed, closed, source, clock, gates, signal>>
        /\ probe' = [probe EXCEPT !.pos = pos] /\ call' = [at |-> "none"]
        /\ comp(pos, probe.pos) > 0
    BY DEF Seek
  <1>2. clock.made \in Clocks /\ probe.pos.val \in Int /\ p \in 0 .. n + 2 /\ n \in Nat
    BY Known
  <1>3. pos \in Times /\ pos.typ = "period" /\ pos.val \in Int
    <2>1. clock.made.start.val \in Int /\ clock.made.period.val \in Int
      BY <1>2, ClockFacts
    <2>2. PICK k \in 0 .. MaxFeeds, d \in {0, 1} :
              pos = Tme("period", clock.made.start.val + k * clock.made.period.val - d)
      BY DEF Positions
    <2>3. k * clock.made.period.val \in Int
      BY <2>1
    <2>4. clock.made.start.val + k * clock.made.period.val - d \in Int
      BY <2>1, <2>3
    <2> QED BY <2>2, <2>4 DEF Tme, Times
  <1>4. probe.pos.val < pos.val
    BY <1>1, <1>2, <1>3 DEF comp
  <1>5. probe'.pos = pos /\ probe'.first = probe.first /\ probe'.second = probe.second
    BY <1>1 DEF SignalTypeOK
  <1>6. SignalTypeOK'
    <2>1. probe' \in [pos : Times, first : AnyChange \cup {None},
                      second : AnyChange \cup {None, PipeEnd}]
      BY <1>1, <1>3 DEF SignalTypeOK
    <2>2. ~Busy'
      BY <1>1 DEF Busy
    <2> QED BY <1>1, <2>1, <2>2 DEF SignalTypeOK
  <1>7. Feeding(n)' /\ Clocking(n, t)' /\ Signalling(n)'
    BY <1>1 DEF SignalParts, Feeding, OnOffer, Clocking, Signalling, EndsAt
  <1>8. Receiving(n, p)'
    <2>1. Receiving(n, p) /\ Due(n, p)' = Due(n, p) /\ Emitted(n)' = Emitted(n)
      BY <1>1 DEF SignalParts, Due, Emitted
    <2>2. Due(n, p) \in Int
      <3>1. PICK k \in Int : k = IF p <= n THEN p - 1 ELSE n
        OBVIOUS
      <3> QED BY <1>2, <3>1, TimesApart DEF Due
    <2>3. p > 2 => Due(n, p) <= pos.val
      BY <1>2, <1>3, <1>4, <2>1, <2>2 DEF Receiving
    <2> QED BY <1>1, <1>3, <1>5, <2>1, <2>3 DEF Receiving
  <1>9. Asking(n)' /\ ReadAnswer(n)' /\ EdgeAnswer(n)'
    BY <1>1 DEF Asking, ReadAnswer, EdgeAnswer, Busy, Answered
  <1> QED BY <1>6, <1>7, <1>8, <1>9 DEF SignalInv, SignalParts

LEMMA CallingStep ==
    ASSUME SignalTypeOK, NEW n \in Nat, NEW t \in Nat, NEW p \in Nat, SignalParts(n, t, p),
           MayCall, UNCHANGED <<fed, closed, source, clock, gates, signal, probe>>,
           NEW op \in {"read", "edge"}, NEW edge \in {"pos", "neg", "any", None},
           NEW maxTime \in Times \cup {None},
           op = "edge" => edge \in {"pos", "neg", "any"},
           maxTime # None => maxTime.typ = "period" /\ comp(maxTime, probe.pos) >= 0,
           call' = Called(op, edge, maxTime)
    PROVE  SignalInv'
  <1>1. /\ clock.made \in Clocks /\ probe.pos \in Times /\ probe.pos.val \in Int
        /\ clock.made.typ = "period"
    <2>1. clock.made \in Clocks /\ probe.pos \in Times /\ probe.pos.val \in Int
      BY Known
    <2>2. clock.now.typ = clock.made.typ
      BY DEF SignalParts, Clocking, TimeOf, Tme
    <2>3. probe.pos.typ = "period"
      BY DEF SignalParts, Receiving
    <2> QED BY <2>1, <2>2, <2>3 DEF MayCall, comparable
  <1>2. /\ call'.at = "begin" /\ call'.op = op /\ call'.from = probe.pos /\ call'.edge = edge
        /\ call'.maxTime = maxTime
        /\ call' \in Calls
    BY <1>1 DEF Called, Calls
  <1>3. SignalTypeOK'
    BY <1>2 DEF SignalTypeOK
  <1>4. Feeding(n)' /\ Clocking(n, t)' /\ Signalling(n)'
    BY DEF SignalParts, Feeding, OnOffer, Clocking, Signalling, EndsAt
  <1>5. Receiving(n, p)'
    BY ProbeKept DEF SignalParts
  <1>6. Asking(n)'
    <2>1. maxTime # None => probe.pos.val <= maxTime.val
      <3> SUFFICES ASSUME maxTime # None PROVE probe.pos.val <= maxTime.val
        OBVIOUS
      <3>1. maxTime.val \in Int
        BY DEF Times
      <3> QED BY <1>1, <3>1 DEF comp
    <2>2. NoneWanted(clock.made, fed, edge, n, probe.pos.val, probe.pos.val)
      <3>1. \A k \in 2 .. n : At(clock.made, k) \in Int
        BY <1>1, TimesApart
      <3> QED BY <1>1, <3>1 DEF NoneWanted
    <2>3. probe.pos.val <= probe.pos.val
      BY <1>1
    <2> QED BY <1>1, <1>2, <2>1, <2>2, <2>3 DEF Asking
  <1>7. ReadAnswer(n)' /\ EdgeAnswer(n)'
    BY <1>2 DEF ReadAnswer, EdgeAnswer, Answered
  <1> QED BY <1>3, <1>4, <1>5, <1>6, <1>7 DEF SignalInv, SignalParts

LEMMA NextEdgeStep ==
    ASSUME SignalTypeOK, NEW n \in Nat, NEW t \in Nat, NEW p \in Nat, SignalParts(n, t, p),
           NEW edge \in {"pos", "neg", "any"}, NEW maxTime \in EdgeLimits \cup {None},
           NextEdge(edge, maxTime)
    PROVE  SignalInv'
  <1>1. clock.made \in Clocks
    BY Known
  <1>2. maxTime # None => maxTime \in Times /\ maxTime.typ = "period"
    <2> SUFFICES ASSUME maxTime # None PROVE maxTime \in Times /\ maxTime.typ = "period"
      OBVIOUS
    <2>1. clock.made.start.val \in Int /\ clock.made.period.val \in Int
      BY <1>1, ClockFacts
    <2>2. PICK k \in Limits :
              maxTime = Tme("period", clock.made.start.val + k * clock.made.period.val)
      BY DEF EdgeLimits
    <2>3. k \in Int
      BY SignalAssumption
    <2>4. clock.made.start.val + k * clock.made.period.val \in Int
      BY <2>1, <2>3
    <2> QED BY <2>2, <2>4 DEF Tme, Times
  <1> QED BY <1>2, CallingStep DEF NextEdge

LEMMA ReceivesStep ==
    ASSUME SignalTypeOK, NEW n \in Nat, NEW t \in Nat, NEW p \in Nat, SignalParts(n, t, p),
           Receives
    PROVE  SignalInv'
  <1> DEFINE c == clock.made
             x == gates.out
  <1>1. /\ UNCHANGED <<fed, closed, source, clock, signal>>
        /\ Busy /\ Missing # "none" /\ gates.out # None
        /\ probe' = Received(x) /\ gates' = [gates EXCEPT !.out = None]
        /\ call' = [call EXCEPT !.at = IF Missing = "first" THEN @ ELSE "align"]
    BY DEF Receives
  <1>2. /\ c \in Clocks /\ fed \in Seq(Vectors) /\ n \in 1 .. Len(fed) /\ p \in 0 .. n + 2
        /\ p + 1 \in 1 .. n + 2 /\ p + 1 = Emitted(n) /\ Receiving(n, p)
        /\ probe.pos \in Times /\ probe.pos.val \in Int
    BY <1>1, Known DEF SignalParts
  <1>3. IsItem(c, fed, x, n, p + 1)
    BY <1>1, <1>2 DEF Receiving
  <1>4. x \in AnyChange \cup {PipeEnd} /\ (p = 0 => x \in AnyChange)
    <2>1. PICK k \in 1 .. n + 2 : k = p + 1 /\ (p = 0 => k <= n + 1) /\ (k <= n + 1 \/ k = n + 2)
      BY <1>2
    <2>2. (k <= n + 1 => x \in AnyChange) /\ (k = n + 2 => x = PipeEnd)
      <3>1. IsItem(c, fed, x, n, k)
        BY <1>3, <2>1
      <3>2. c \in Clocks /\ fed \in Seq(Vectors) /\ n \in 1 .. Len(fed)
        BY <1>2
      <3> HIDE DEF x, c
      <3>3. k <= n + 1 => x \in AnyChange
        BY <3>1, <3>2, ItemFacts
      <3>4. k = n + 2 => x = PipeEnd
        BY <3>1, <3>2, ItemFacts
      <3> QED BY <3>3, <3>4
    <2> QED BY <2>1, <2>2
  <1>5. /\ call' \in Calls /\ call'.op = call.op /\ call'.from = call.from
        /\ call'.edge = call.edge /\ call'.maxTime = call.maxTime
        /\ call'.at \in {"begin", "align"} /\ call.at \in {"begin", "align"}
    BY <1>1 DEF SignalTypeOK, Calls, Busy
  <1>6. gates'.in = gates.in /\ gates'.clk = gates.clk /\ gates'.out = None
    BY <1>1 DEF SignalTypeOK
  <1>7. /\ probe' \in [pos : Times, first : AnyChange \cup {None},
                       second : AnyChange \cup {None, PipeEnd}]
        /\ probe'.pos = probe.pos
        /\ IsItem(c, fed, probe'.first, n, IF p = 0 THEN 1 ELSE p)
        /\ IF p = 0 THEN probe'.second = None ELSE IsItem(c, fed, probe'.second, n, p + 1)
        /\ p > 1 => Due(n, p + 1) <= probe.pos.val
    <2>1. CASE Missing = "first"
      <3>1. p = 0 /\ probe.second = None
        <4>1. probe.first = None
          BY <2>1 DEF Missing
        <4> QED BY <4>1, TwoItems
      <3>2. probe' = [probe EXCEPT !.first = x]
        BY <1>1, <2>1 DEF Received
      <3>3. probe'.first = x /\ probe'.second = None /\ probe'.pos = probe.pos
        BY <3>1, <3>2 DEF SignalTypeOK
      <3> QED BY <1>3, <1>4, <3>1, <3>2, <3>3 DEF SignalTypeOK
    <2>2. CASE Missing = "second"
      <3>1. p = 1
        <4>1. probe.first # None /\ probe.second = None
          BY <2>2 DEF Missing
        <4> QED BY <1>2, <4>1, TwoItems
      <3>2. probe' = [probe EXCEPT !.second = x]
        BY <1>1, <2>2 DEF Received
      <3>3. probe'.first = probe.first /\ probe'.second = x /\ probe'.pos = probe.pos
        BY <3>2 DEF SignalTypeOK
      <3>4. IsItem(c, fed, probe.first, n, 1)
        BY <1>2, <3>1 DEF Receiving
      <3>5. probe' \in [pos : Times, first : AnyChange \cup {None},
                        second : AnyChange \cup {None, PipeEnd}]
        BY <1>4, <3>2 DEF SignalTypeOK
      <3>6. p # 0 /\ ~(p > 1) /\ (IF p = 0 THEN 1 ELSE p) = 1
        BY <3>1
      <3> QED BY <1>3, <3>3, <3>4, <3>5, <3>6
    <2>3. CASE Missing = "next"
      <3>1. /\ probe.first # None /\ probe.second # None /\ probe.second # PipeEnd
            /\ comp(probe.pos, probe.second.time) >= 0
        BY <2>3 DEF Missing
      <3>2. p \in 2 .. n + 1 /\ p > 1
        BY <1>2, <3>1, TwoItems
      <3>3. /\ probe' = [probe EXCEPT !.first = probe.second, !.second = x]
            /\ probe.second \in AnyChange
        BY <1>1, <2>3, <3>2, TwoItems DEF Received
      <3>4. probe'.first = probe.second /\ probe'.second = x /\ probe'.pos = probe.pos
        BY <3>3 DEF SignalTypeOK
      <3>5. IsItem(c, fed, probe.second, n, p)
        BY <1>2, <3>2 DEF Receiving
      <3>6. Due(n, p + 1) <= probe.pos.val
        <4>1. PICK k \in 1 .. n : /\ k = (IF p <= n THEN p ELSE n)
                                  /\ k = (IF p + 1 <= n THEN (p + 1) - 1 ELSE n)
          BY <1>2, <3>2
        <4>2. probe.second.time = TimeOf(c, k)
          <5>1. /\ p <= n => probe.second.time = TimeOf(c, p)
                /\ p > n => probe.second.time = TimeOf(c, n)
            BY <3>2, TwoItems
          <5>2. (p <= n => k = p) /\ (~(p <= n) => k = n /\ p > n)
            BY <3>2, <4>1
          <5> QED BY <5>1, <5>2
        <4>3. probe.second.time.val = At(c, k) /\ At(c, k) \in Int
          <5>1. k \in Int
            BY <4>1
          <5> QED BY <1>2, <4>2, <5>1, TimesApart
        <4>4. At(c, k) <= probe.pos.val
          BY <1>2, <3>1, <4>3 DEF comp
        <4> QED BY <4>1, <4>4 DEF Due
      <3>7. p # 0
        BY <3>2
      <3> QED BY <1>3, <1>4, <3>3, <3>4, <3>5, <3>6, <3>7 DEF SignalTypeOK
    <2> QED BY <1>1, <2>1, <2>2, <2>3 DEF Missing
  <1>8. SignalTypeOK'
    BY <1>1, <1>5, <1>7 DEF SignalTypeOK
  <1>9. Feeding(n)' /\ Clocking(n, t)' /\ Signalling(n)'
    BY <1>1, <1>6 DEF SignalParts, Feeding, OnOffer, Clocking, Signalling, EndsAt
  <1>10. Receiving(n, p + 1)'
    <2>1. p + 1 = Emitted(n)' /\ Due(n, p + 1)' = Due(n, p + 1)
      BY <1>1, <1>2 DEF Emitted, Due
    <2>2. /\ p + 1 = Emitted(n)' - (IF gates'.out = None THEN 0 ELSE 1)
          /\ probe'.pos.typ = "period"
      BY <1>2, <1>6, <1>7, <2>1 DEF Receiving
    <2>3. IF p + 1 = 0 THEN probe'.first = None
          ELSE IsItem(clock'.made, fed', probe'.first, n, IF p + 1 = 1 THEN 1 ELSE (p + 1) - 1)
      <3>1. p + 1 # 0 /\ (IF p + 1 = 1 THEN 1 ELSE (p + 1) - 1) = (IF p = 0 THEN 1 ELSE p)
        BY <1>2
      <3> QED BY <1>1, <1>7, <3>1
    <2>4. IF p + 1 <= 1 THEN probe'.second = None
          ELSE IsItem(clock'.made, fed', probe'.second, n, p + 1)
      <3>1. p + 1 <= 1 <=> p = 0
        BY <1>2
      <3> QED BY <1>1, <1>7, <3>1
    <2>5. p + 1 > 2 => Due(n, p + 1)' <= probe'.pos.val
      <3>1. p + 1 > 2 => p > 1
        BY <1>2
      <3> QED BY <1>7, <2>1, <3>1
    <2> QED BY <1>6, <2>2, <2>3, <2>4, <2>5 DEF Receiving
  <1>11. Asking(n)'
    <2>1. Asking(n)
      BY DEF SignalParts
    <2> QED BY <1>1, <1>5, <1>7, <2>1 DEF Asking, Busy
  <1>12. ReadAnswer(n)' /\ EdgeAnswer(n)'
    BY <1>5 DEF ReadAnswer, EdgeAnswer, Answered
  <1>13. p + 1 \in Nat
    OBVIOUS
  <1> QED BY <1>8, <1>9, <1>10, <1>11, <1>12, <1>13 DEF SignalInv, SignalParts

LEMMA ReadEndsStep ==
    ASSUME SignalTypeOK, NEW n \in Nat, NEW t \in Nat, NEW p \in Nat, SignalParts(n, t, p),
           ReadEnds
    PROVE  SignalInv'
  <1> DEFINE c == clock.made
  <1>1. /\ UNCHANGED <<fed, closed, source, clock, gates, signal, probe>>
        /\ Busy /\ call.op = "read" /\ Missing = "none"
        /\ call' = IF probe.second \in {None, PipeEnd} THEN Raised
                   ELSE Answer(IF probe.pos = probe.second.time THEN probe.second.value
                               ELSE probe.first.value)
    BY DEF ReadEnds
  <1>2. /\ c \in Clocks /\ fed \in Seq(Vectors) /\ n \in 0 .. Len(fed) /\ p \in 0 .. n + 2
        /\ Receiving(n, p) /\ Asking(n) /\ Emitted(n) \in n .. n + 2 /\ (n = 0 => p = 0)
        /\ probe.pos \in Times /\ probe.pos.val \in Int
    BY Known DEF SignalParts
  <1>3. call \in Calls /\ call.from = probe.pos /\ call.raised = FALSE
    BY <1>1, <1>2 DEF SignalTypeOK, Calls, Asking
  <1>4. /\ call'.at = "answered" /\ call'.op = "read" /\ call'.from = probe.pos
        /\ IF probe.second \in {None, PipeEnd} THEN call'.raised = TRUE
           ELSE /\ call'.raised = FALSE
                /\ call'.value = IF probe.pos = probe.second.time THEN probe.second.value
                                 ELSE probe.first.value
    BY <1>1, <1>3 DEF Calls, Raised, Answer
  <1>5. /\ probe.first # None
        /\ \/ probe.pos = probe.first.time
           \/ probe.second = PipeEnd
           \/ /\ probe.second \notin {None, PipeEnd}
              /\ comp(probe.pos, probe.second.time) < 0
    <2>1. probe.first # None
      BY <1>1 DEF Missing
    <2>2. \A s : comp(probe.pos, s) >= 0 \/ comp(probe.pos, s) < 0
      BY DEF comp
    <2> QED BY <1>1, <2>1, <2>2 DEF Missing
  <1>6. p > 0 /\ n > 0 /\ (probe.second = None <=> p <= 1) /\ p \in Nat
    <2>1. (probe.first = None <=> p = 0) /\ (probe.second = None <=> p <= 1)
      BY TwoItems
    <2>2. p # 0
      BY <1>5, <2>1
    <2> QED BY <1>2, <2>1, <2>2
  <1>7. ReadAnswer(n)'
    <2>1. CASE probe.second = None
      <3>1. p = 1
        BY <1>2, <1>6, <2>1, TwoItems
      <3>2. probe.pos = TimeOf(c, 1)
        BY <1>5, <2>1, <3>1, TwoItems, Offband
      <3>3. probe.pos.val = At(c, 1)
        BY <3>2 DEF TimeOf, Tme
      <3> QED BY <1>1, <1>2, <1>4, <2>1, <3>3 DEF ReadAnswer
    <2>2. CASE probe.second = PipeEnd
      <3>1. p = n + 2 /\ p > 2 /\ ~(p <= n)
        <4>1. p > 1
          BY <1>6, <2>2, Offband
        <4>2. p = n + 2
          BY <2>2, <4>1, TwoItems
        <4> QED BY <1>6, <4>2
      <3>2. signal.at = "ended"
        <4>1. p <= Emitted(n)
          BY <1>2 DEF Receiving
        <4> QED BY <1>2, <3>1, <4>1 DEF Emitted
      <3>3. At(c, n) <= probe.pos.val
        BY <1>2, <3>1 DEF Receiving, Due
      <3> QED BY <1>1, <1>2, <1>4, <2>2, <3>2, <3>3 DEF ReadAnswer
    <2>3. CASE probe.second \notin {None, PipeEnd}
      <3>1. p \in 2 .. n + 1 /\ p > 1 /\ p - 1 \in 1 .. n /\ p - 1 \in Int /\ p \in Int /\ n \in Int
        BY <1>2, <2>3, TwoItems
      <3>2. /\ probe.first.value = fed[p - 1] /\ probe.first.time = TimeOf(c, p - 1)
            /\ probe.first.time.val = At(c, p - 1)
            /\ p <= n => probe.second.time = TimeOf(c, p)
            /\ p > n => probe.second.value = fed[n] /\ probe.second.time = TimeOf(c, n)
        <4>1. /\ probe.first.value = fed[p - 1] /\ probe.first.time = TimeOf(c, p - 1)
              /\ p <= n => probe.second.time = TimeOf(c, p)
              /\ p > n => probe.second.value = fed[n] /\ probe.second.time = TimeOf(c, n)
          BY <3>1, TwoItems
        <4>2. TimeOf(c, p - 1).val = At(c, p - 1)
          BY DEF TimeOf, Tme
        <4> QED BY <4>1, <4>2
      <3>3. At(c, p - 1) \in Int /\ At(c, p) \in Int /\ At(c, p - 1) < At(c, p)
            /\ TimeOf(c, p).val = At(c, p) /\ TimeOf(c, n).val = At(c, n) /\ At(c, n) \in Int
        <4>1. PICK k \in Int : k = p - 1 /\ k < p
          BY <3>1
        <4>2. At(c, k) \in Int /\ At(c, p) \in Int /\ At(c, k) < At(c, p)
              /\ TimeOf(c, p).val = At(c, p)
          BY <1>2, <3>1, <4>1, TimesApart
        <4>3. TimeOf(c, n).val = At(c, n) /\ At(c, n) \in Int
          BY <1>2, <3>1, TimesApart
        <4> QED BY <4>1, <4>2, <4>3
      <3>4. p > n => p - 1 = n
        BY <3>1
      <3>5. p > 2 => At(c, p - 1) <= probe.pos.val
        <4>1. p > 2 => Due(n, p) <= probe.pos.val
          BY <1>2 DEF Receiving
        <4>2. Due(n, p) = At(c, p - 1)
          BY <3>1, <3>4 DEF Due
        <4> QED BY <4>1, <4>2
      <3>6. \/ probe.pos = probe.first.time
            \/ probe.pos.val < probe.second.time.val
        BY <1>2, <1>5, <2>3 DEF comp
      <3>7. probe.pos.val < At(c, p)
        <4>1. CASE probe.pos = probe.first.time
          BY <3>2, <3>3, <4>1
        <4>2. CASE probe.pos.val < probe.second.time.val /\ p <= n
          BY <3>2, <3>3, <4>2
        <4>3. CASE probe.pos.val < probe.second.time.val /\ p > n
          BY <1>2, <3>2, <3>3, <3>4, <4>3
        <4> QED BY <3>1, <3>6, <4>1, <4>2, <4>3
      <3>8. p > 2 => At(c, p - 1) <= probe.pos.val
        BY <3>5
      <3>9. call'.value = fed[p - 1]
        <4>1. CASE probe.pos # probe.second.time
          BY <1>4, <2>3, <3>2, <4>1
        <4>2. CASE probe.pos = probe.second.time
          <5>1. p > n
            BY <3>1, <3>2, <3>3, <3>7, <4>2
          <5> QED BY <1>4, <2>3, <3>2, <3>4, <4>2, <5>1
        <4> QED BY <4>1, <4>2
      <3>10. PICK m \in 1 .. n : m = p - 1 /\ m + 1 = p
        BY <3>1
      <3>11. /\ call'.value = fed'[m] /\ call'.from.val < At(clock'.made, m + 1)
             /\ m > 1 => At(clock'.made, m) <= call'.from.val
        <4>1. m > 1 => p > 2
          BY <3>10
        <4> QED BY <1>1, <1>4, <3>7, <3>8, <3>9, <3>10, <4>1
      <3> QED BY <1>2, <1>4, <2>3, <3>11 DEF ReadAnswer
    <2> QED BY <2>1, <2>2, <2>3
  <1>8. SignalTypeOK'
    BY <1>1, <1>4 DEF SignalTypeOK, Busy
  <1>9. Feeding(n)' /\ Clocking(n, t)' /\ Signalling(n)'
    BY <1>1 DEF SignalParts, Feeding, OnOffer, Clocking, Signalling, EndsAt
  <1>10. Receiving(n, p)'
    BY <1>1, <1>2, ProbeKept
  <1>11. Asking(n)' /\ EdgeAnswer(n)'
    BY <1>1, <1>2, <1>4 DEF Asking, EdgeAnswer, Busy, Answered
  <1> QED BY <1>7, <1>8, <1>9, <1>10, <1>11 DEF SignalInv, SignalParts

(* Two values that follow each other are an edge to a Probe when they are   *)
(* one to its user.                                                         *)
LEMMA EdgesWanted ==
    ASSUME NEW vals, NEW k, NEW edge \in {"pos", "neg", "any"}
    PROVE  IsEdge(vals[k - 1], vals[k], edge) <=> Wanted(edge, vals, k)
  <1> DEFINE a == vals[k - 1]
             b == vals[k]
  <1>1. a # b \/ (a[1] = b[1])
    OBVIOUS
  <1>2. \A x, y, u, v : <<x, y>> = <<u, v>> <=> x = u /\ y = v
    OBVIOUS
  <1>3. CASE edge = "any"
    BY <1>3 DEF IsEdge, Wanted
  <1>4. CASE edge = "pos"
    BY <1>1, <1>2, <1>4 DEF IsEdge, Wanted
  <1>5. CASE edge = "neg"
    BY <1>1, <1>2, <1>5 DEF IsEdge, Wanted
  <1> QED BY <1>3, <1>4, <1>5

(* A probe that waits at the k-th time has passed those of before.          *)
LEMMA PassedBefore ==
    ASSUME NEW c \in Clocks, NEW vals, NEW edge, NEW n \in Nat, NEW from, NEW pos \in Int,
           NEW m \in 1 .. n + 1, m > 2 => At(c, m - 1) <= pos,
           NoneWanted(c, vals, edge, n, from, pos)
    PROVE  NoneWanted(c, vals, edge, m - 1, from, At(c, m - 1))
  <1> SUFFICES ASSUME NEW k \in 2 .. m - 1, from < At(c, k)
               PROVE  ~Wanted(edge, vals, k)
    BY DEF NoneWanted
  <1>1. k \in 2 .. n /\ k \in Int /\ m - 1 \in Int /\ m > 2 /\ k <= m - 1
    OBVIOUS
  <1>2. At(c, k) \in Int /\ At(c, m - 1) \in Int /\ At(c, k) <= At(c, m - 1)
    <2>1. PICK j \in Int : j = m - 1 /\ k <= j
      BY <1>1
    <2>2. At(c, k) \in Int /\ At(c, j) \in Int
      BY <1>1, TimesApart
    <2>3. k < j => At(c, k) < At(c, j)
      BY <1>1, TimesApart
    <2> QED BY <1>1, <2>1, <2>2, <2>3
  <1> QED BY <1>1, <1>2 DEF NoneWanted

LEMMA EdgeEndsStep ==
    ASSUME SignalTypeOK, NEW n \in Nat, NEW t \in Nat, NEW p \in Nat, SignalParts(n, t, p),
           EdgeEnds
    PROVE  SignalInv'
  <1> DEFINE c == clock.made
             second == probe.second
             from == call.from.val
             pos == probe.pos.val
  <1>1. /\ UNCHANGED <<fed, closed, source, clock, gates, signal>>
        /\ Busy /\ call.op = "edge" /\ Missing = "none"
    BY DEF EdgeEnds
  <1>2. /\ c \in Clocks /\ fed \in Seq(Vectors) /\ n \in 0 .. Len(fed) /\ p \in 0 .. n + 2
        /\ Receiving(n, p) /\ Asking(n) /\ Emitted(n) \in n .. n + 2 /\ (n = 0 => p = 0)
        /\ probe.pos \in Times /\ pos \in Int
    BY Known DEF SignalParts
  <1>3. /\ call \in Calls /\ call.raised = FALSE /\ call.edge \in {"pos", "neg", "any"}
        /\ call.from \in Times /\ from \in Int /\ call.maxTime \in Times \cup {None}
        /\ call.maxTime # None => /\ call.maxTime.val \in Int /\ call.maxTime.typ = "period"
                                  /\ pos <= call.maxTime.val
        /\ from <= pos /\ NoneWanted(c, fed, call.edge, n, from, pos) /\ c.typ = "period"
    <2>1. call \in Calls /\ call.raised = FALSE /\ call.from \in Times
          /\ call.maxTime \in Times \cup {None}
      BY <1>1 DEF SignalTypeOK, Calls
    <2>2. from \in Int /\ (call.maxTime # None => call.maxTime.val \in Int)
      BY <2>1 DEF Times
    <2>3. call.at # "none"
      BY <1>1 DEF Busy
    <2> QED BY <1>1, <1>2, <2>1, <2>2, <2>3 DEF Asking
  <1>4. /\ probe.first # None /\ second # None
        /\ second # PipeEnd => comp(probe.pos, second.time) < 0
    <2>1. \A s : comp(probe.pos, s) >= 0 \/ comp(probe.pos, s) < 0
      BY DEF comp
    <2> QED BY <1>1, <2>1 DEF Missing
  <1>5. p > 1 /\ n > 0
    <2>1. second = None <=> p <= 1
      BY TwoItems
    <2> QED BY <1>2, <1>4, <2>1
  <1>6. p > 2 => Due(n, p) <= pos
    BY <1>2 DEF Receiving
  <1>7. Feeding(n)' /\ Clocking(n, t)' /\ Signalling(n)'
    BY <1>1 DEF SignalParts, Feeding, OnOffer, Clocking, Signalling, EndsAt
  <1>8. ASSUME probe'.pos \in Times, probe'.pos.typ = "period", pos <= probe'.pos.val,
               probe' = [probe EXCEPT !.pos = probe'.pos] \/ UNCHANGED probe
        PROVE  /\ probe' \in [pos : Times, first : AnyChange \cup {None},
                              second : AnyChange \cup {None, PipeEnd}]
               /\ Receiving(n, p)'
    <2>1. /\ probe' \in [pos : Times, first : AnyChange \cup {None},
                         second : AnyChange \cup {None, PipeEnd}]
          /\ probe'.first = probe.first /\ probe'.second = probe.second
          /\ probe'.pos.val \in Int
      BY <1>8 DEF SignalTypeOK, Times
    <2>2. p > 2 => Due(n, p) <= probe'.pos.val
      <3>1. Due(n, p) \in Int
        <4>1. PICK k \in Int : k = IF p <= n THEN p - 1 ELSE n
          OBVIOUS
        <4> QED BY <1>2, <4>1, TimesApart DEF Due
      <3> QED BY <1>2, <1>6, <1>8, <2>1, <3>1
    <2>3. Due(n, p)' = Due(n, p) /\ Emitted(n)' = Emitted(n)
      BY <1>1 DEF Due, Emitted
    <2> QED BY <1>1, <1>2, <1>8, <2>1, <2>2, <2>3 DEF Receiving
  <1>9. ASSUME call'.at = "answered", call'.op = "edge", call'.from = call.from,
               call'.edge = call.edge, call'.maxTime = call.maxTime
        PROVE  /\ SignalTypeOK' \/ ~(probe' \in [pos : Times, first : AnyChange \cup {None},
                                                 second : AnyChange \cup {None, PipeEnd}])
               /\ Asking(n)' /\ ReadAnswer(n)'
    BY <1>1, <1>2, <1>3, <1>9 DEF SignalTypeOK, Asking, ReadAnswer, Busy, Answered
  <1>10. CASE second = PipeEnd
    <2>1. call' = Raised /\ UNCHANGED probe
      BY <1>10 DEF EdgeEnds
    <2>2. /\ call'.at = "answered" /\ call'.op = "edge" /\ call'.from = call.from
          /\ call'.edge = call.edge /\ call'.maxTime = call.maxTime /\ call'.raised = TRUE
      BY <1>1, <1>3, <2>1 DEF Raised, Calls
    <2>3. p = n + 2 /\ p > 2 /\ ~(p <= n)
      <3>1. p = n + 2
        BY <1>5, <1>10, TwoItems
      <3> QED BY <1>5, <3>1
    <2>4. signal.at = "ended"
      <3>1. p <= Emitted(n)
        BY <1>2 DEF Receiving
      <3> QED BY <1>2, <2>3, <3>1 DEF Emitted
    <2>5. At(c, n) <= pos
      BY <1>6, <2>3 DEF Due
    <2>6. NoneWanted(c, fed, call.edge, (n + 1) - 1, from, At(c, (n + 1) - 1))
      <3>1. n + 1 \in 1 .. n + 1 /\ (n + 1) - 1 = n
        OBVIOUS
      <3> QED BY <1>2, <1>3, <2>5, <3>1, PassedBefore
    <2>7. EdgeAnswer(n)'
      <3>1. Before(n + 1)'
        BY <1>1, <2>2, <2>6 DEF Before
      <3> QED BY <1>1, <1>3, <2>2, <2>4, <3>1 DEF EdgeAnswer
    <2>8. pos <= probe'.pos.val /\ probe'.pos \in Times /\ probe'.pos.typ = "period"
      BY <1>2, <2>1 DEF Receiving
    <2>9. SignalTypeOK' /\ Receiving(n, p)' /\ Asking(n)' /\ ReadAnswer(n)'
      BY <1>8, <1>9, <2>1, <2>2, <2>8
    <2> QED BY <1>7, <2>7, <2>9 DEF SignalInv, SignalParts
  <1>11. CASE second # PipeEnd
    <2>1. /\ p \in 2 .. n + 1 /\ p \in Int /\ second \in AnyChange /\ second # None
          /\ probe.first.value = fed[p - 1]
          /\ p <= n => /\ second = ChangeNo(c, fed, p) /\ second.value = fed[p]
                       /\ second.time = TimeOf(c, p)
          /\ p > n => second.value = fed[n] /\ second.time = TimeOf(c, n)
      <3>1. p \in 2 .. n + 1
        <4>1. p # n + 2
          BY <1>5, <1>11, TwoItems
        <4> QED BY <1>2, <1>5, <4>1
      <3> QED BY <1>4, <3>1, TwoItems
    <2>2. PICK m \in 1 .. n : /\ m = (IF p <= n THEN p ELSE n) /\ m \in Int
                              /\ m < n + 1 /\ (p > n => p = m + 1 /\ m = n) /\ (p <= n => m = p)
      BY <1>5, <2>1
    <2>3. /\ second.time = TimeOf(c, m) /\ second.time \in Times
          /\ second.time.val = At(c, m) /\ second.time.typ = "period" /\ At(c, m) \in Int
      <3>1. second.time = TimeOf(c, m)
        BY <2>1, <2>2
      <3>2. /\ TimeOf(c, m) \in Times /\ TimeOf(c, m).val = At(c, m) /\ TimeOf(c, m).typ = c.typ
            /\ At(c, m) \in Int
        BY <1>2, <2>2, TimesApart
      <3> QED BY <1>3, <3>1, <3>2
    <2>4. pos < At(c, m)
      BY <1>2, <1>4, <1>11, <2>3 DEF comp
    <2>5. p > n => m = 1
      <3>1. p > n /\ p > 2 => Due(n, p) = At(c, m)
        BY <2>1, <2>2 DEF Due
      <3> QED BY <1>2, <1>6, <2>1, <2>2, <2>3, <2>4, <3>1
    <2>6. m > 2 => At(c, m - 1) <= pos
      <3>1. m > 2 => p <= n /\ p = m
        BY <2>1, <2>2, <2>5
      <3> QED BY <1>6, <2>1, <3>1 DEF Due
    <2>7. NoneWanted(c, fed, call.edge, m - 1, from, At(c, m - 1))
      <3>1. m \in 1 .. n + 1
        BY <2>2
      <3> QED BY <1>2, <1>3, <2>6, <3>1, PassedBefore
    <2>8. CASE call.maxTime # None /\ comp(second.time, call.maxTime) >= 0
      <3>1. probe' = [probe EXCEPT !.pos = call.maxTime] /\ call' = Answer(None)
        BY <1>11, <2>8 DEF EdgeEnds
      <3>2. /\ call'.at = "answered" /\ call'.op = "edge" /\ call'.from = call.from
            /\ call'.edge = call.edge /\ call'.maxTime = call.maxTime /\ call'.raised = FALSE
            /\ call'.value = None
        BY <1>1, <1>3, <3>1 DEF Answer, Calls
      <3>3. probe'.pos = call.maxTime /\ call.maxTime \in Times
        BY <1>3, <2>8, <3>1 DEF SignalTypeOK
      <3>4. call.maxTime.val <= At(c, m)
        BY <1>3, <2>3, <2>8 DEF comp
      <3>5. EdgeAnswer(n)'
        <4>1. Before(m)'
          BY <1>1, <2>7, <3>2 DEF Before
        <4>2. call'.maxTime.val <= At(clock'.made, m) /\ call'.maxTime # None
          BY <1>1, <2>8, <3>2, <3>4
        <4> QED BY <1>1, <1>3, <3>2, <4>1, <4>2 DEF EdgeAnswer
      <3>6. SignalTypeOK' /\ Receiving(n, p)' /\ Asking(n)' /\ ReadAnswer(n)'
        BY <1>3, <1>8, <1>9, <2>8, <3>1, <3>2, <3>3
      <3> QED BY <1>7, <3>5, <3>6 DEF SignalInv, SignalParts
    <2>9. CASE ~(call.maxTime # None /\ comp(second.time, call.maxTime) >= 0)
      <3>1. /\ probe' = [probe EXCEPT !.pos = second.time]
            /\ call' = IF IsEdge(probe.first.value, second.value, call.edge)
                       THEN Answer(second) ELSE call
        BY <1>11, <2>9 DEF EdgeEnds
      <3>2. probe'.pos = second.time
        BY <3>1 DEF SignalTypeOK
      <3>3. call.maxTime # None => At(c, m) < call.maxTime.val
        BY <1>3, <2>3, <2>9 DEF comp
      <3>4. /\ probe' \in [pos : Times, first : AnyChange \cup {None},
                           second : AnyChange \cup {None, PipeEnd}]
            /\ Receiving(n, p)'
        <4>1. pos <= probe'.pos.val
          BY <1>2, <2>3, <2>4, <3>2
        <4> QED BY <1>8, <2>3, <3>1, <3>2, <4>1
      <3>5. CASE IsEdge(probe.first.value, second.value, call.edge)
        <4>1. call' = Answer(second)
          BY <3>1, <3>5
        <4>2. /\ call'.at = "answered" /\ call'.op = "edge" /\ call'.from = call.from
              /\ call'.edge = call.edge /\ call'.maxTime = call.maxTime /\ call'.raised = FALSE
              /\ call'.value = second
          BY <1>1, <1>3, <4>1 DEF Answer, Calls
        <4>3. p <= n
          <5>1. p > n => probe.first.value = second.value
            BY <2>1, <2>2
          <5> QED BY <2>1, <3>5, <5>1 DEF IsEdge
        <4>4. m = p /\ m \in 2 .. n /\ second = ChangeNo(c, fed, m) /\ Wanted(call.edge, fed, m)
          <5>1. m = p /\ m \in 2 .. n /\ second = ChangeNo(c, fed, m)
            BY <2>1, <2>2, <4>3
          <5>2. IsEdge(fed[m - 1], fed[m], call.edge)
            BY <2>1, <3>5, <4>3, <5>1
          <5> QED BY <1>3, <5>1, <5>2, EdgesWanted
        <4>5. EdgeAnswer(n)'
          <5>1. Before(m)'
            BY <1>1, <2>7, <4>2 DEF Before
          <5>2. /\ call'.value = ChangeNo(clock'.made, fed', m) /\ Wanted(call'.edge, fed', m)
                /\ call'.from.val < At(clock'.made, m)
                /\ call'.maxTime # None => At(clock'.made, m) < call'.maxTime.val
            BY <1>1, <1>2, <1>3, <2>3, <2>4, <3>3, <4>2, <4>4
          <5>3. call'.value # None
            BY <2>1, <4>2
          <5> QED BY <1>1, <1>3, <4>2, <4>4, <5>1, <5>2, <5>3 DEF EdgeAnswer
        <4>6. SignalTypeOK' /\ Asking(n)' /\ ReadAnswer(n)'
          BY <1>9, <3>4, <4>2
        <4> QED BY <1>7, <3>4, <4>5, <4>6 DEF SignalInv, SignalParts
      <3>6. CASE ~IsEdge(probe.first.value, second.value, call.edge)
        <4>1. UNCHANGED call
          BY <3>1, <3>6
        <4>2. SignalTypeOK'
          BY <1>1, <3>4, <4>1 DEF SignalTypeOK, Busy
        <4>3. ReadAnswer(n)' /\ EdgeAnswer(n)'
          BY <1>1, <4>1 DEF ReadAnswer, EdgeAnswer, Answered, Busy
        <4>4. NoneWanted(c, fed, call.edge, n, from, At(c, m))
          <5> SUFFICES ASSUME NEW k \in 2 .. n, from < At(c, k), At(c, k) <= At(c, m)
                       PROVE  ~Wanted(call.edge, fed, k)
            BY DEF NoneWanted
          <5>1. k \in Int /\ At(c, k) \in Int
            BY <1>2, TimesApart
          <5>2. ~(m < k)
            <6>1. m < k => At(c, m) < At(c, k)
              BY <1>2, <2>2, <5>1, TimesApart
            <6> QED BY <2>3, <5>1, <6>1
          <5>3. CASE k = m
            <6>1. p <= n /\ p = m
              BY <2>1, <2>2, <2>5, <5>3
            <6>2. ~IsEdge(fed[m - 1], fed[m], call.edge)
              BY <2>1, <3>6, <6>1
            <6> QED BY <1>3, <5>3, <6>2, EdgesWanted
          <5>4. CASE k # m
            <6>1. k \in 2 .. m - 1 /\ m - 1 \in Int
              BY <2>2, <5>1, <5>2, <5>4
            <6>2. At(c, k) <= At(c, m - 1)
              <7>1. PICK j \in Int : j = m - 1 /\ k <= j
                BY <6>1
              <7>2. At(c, j) \in Int /\ (k < j => At(c, k) < At(c, j))
                BY <1>2, <5>1, TimesApart
              <7> QED BY <5>1, <7>1, <7>2
            <6> QED BY <2>7, <6>1, <6>2 DEF NoneWanted
          <5> QED BY <5>3, <5>4
        <4>5. Asking(n)'
          <5>1. probe'.pos.val = At(c, m) /\ from <= probe'.pos.val
            BY <1>2, <1>3, <2>3, <2>4, <3>2
          <5>2. call.maxTime # None => call.maxTime.typ = "period" /\ probe'.pos.val <= call.maxTime.val
            BY <1>3, <2>3, <3>3, <5>1
          <5>3. \E k \in 1 .. n : probe'.pos.val = At(clock'.made, k)
            BY <1>1, <5>1
          <5>4. NoneWanted(clock'.made, fed', call'.edge, n, call'.from.val, probe'.pos.val)
            BY <1>1, <4>1, <4>4, <5>1
          <5> QED BY <1>1, <1>3, <4>1, <5>1, <5>2, <5>3, <5>4 DEF Asking, Busy
        <4> QED BY <1>7, <3>4, <4>2, <4>3, <4>5 DEF SignalInv, SignalParts
      <3> QED BY <3>5, <3>6
    <2> QED BY <2>8, <2>9
  <1> QED BY <1>10, <1>11

LEMMA RangedVectors == ASSUME NEW r \in Ranges PROVE Ranged(r) \in Seq(Vectors)
  <1>1. r.start \in Nat /\ r.stop \in Nat /\ r.step \in Nat \ {0}
    BY SignalAssumption
  <1>2. PICK m \in Int : m = (r.stop - r.start + r.step - 1) \div r.step
    <2>1. \A a \in Int, b \in Nat \ {0} : a \div b \in Int
      OBVIOUS
    <2> QED BY <1>1, <2>1
  <1>3. DOMAIN Ranged(r) = 1 .. m
    BY <1>2 DEF Ranged
  <1>4. \A i \in 1 .. m : Ranged(r)[i] \in Vectors
    BY <1>3 DEF Vectors
  <1>5. PICK len \in Nat : 1 .. m = 1 .. len
    <2>1. CASE m >= 0
      BY <2>1
    <2>2. CASE m < 0
      <3>1. 1 .. m = 1 .. 0
        BY <2>2
      <3> QED BY <3>1
    <2> QED BY <2>1, <2>2
  <1>6. Ranged(r) = [i \in 1 .. len |-> Ranged(r)[i]]
    BY <1>2, <1>5 DEF Ranged
  <1>7. Ranged(r) \in [1 .. len -> Vectors]
    BY <1>4, <1>5, <1>6
  <1> QED BY <1>5, <1>7, SeqDef

LEMMA InitSignalInv == SignalInit => SignalInv
  <1> SUFFICES ASSUME SignalInit PROVE SignalInv
    OBVIOUS
  <1>1. PICK c \in Clocks : clock = [made |-> c, now |-> c.start, ended |-> FALSE]
    BY DEF SignalInit
  <1>2. fed \in Seq(Vectors) /\ closed \in BOOLEAN /\ Len(fed) \in Nat
    <2>1. fed \in Seq(Vectors) /\ closed \in BOOLEAN
      <3>1. <<>> \in Seq(Vectors) /\ \A r \in Ranges : Ranged(r) \in Seq(Vectors)
        BY RangedVectors
      <3> QED BY <3>1 DEF SignalInit
    <2> QED BY <2>1, LenProperties
  <1>3. c.start \in Times /\ c.start = TimeOf(c, 1)
    <2>1. At(c, 1) = c.start.val /\ TimeOf(c, 1) \in Times
      BY TimesApart
    <2> QED BY <2>1, ClockFacts DEF TimeOf
  <1>4. /\ gates.in = None /\ gates.clk = None /\ gates.out = None /\ source = 0
        /\ signal.at = "in" /\ signal.chg = None /\ probe.first = None /\ probe.second = None
        /\ probe.pos = Tme("period", 0) /\ call.at = "none"
    BY DEF SignalInit, zero
  <1>5. SignalTypeOK
    <2>1. probe.pos \in Times
      BY <1>4 DEF Tme, Times
    <2>2. clock \in [made : Clocks, now : Times, ended : BOOLEAN] /\ ~Busy
      BY <1>1, <1>3, <1>4 DEF Busy
    <2> QED BY <1>2, <1>4, <2>1, <2>2 DEF SignalInit, SignalTypeOK
  <1>6. Feeding(0)
    BY <1>2, <1>4 DEF Feeding, OnOffer
  <1>7. Clocking(0, 0)
    <2>1. 0 + 1 = 1
      OBVIOUS
    <2> QED BY <1>1, <1>3, <1>4, <2>1, Offband DEF Clocking
  <1>8. Signalling(0)
    BY <1>4 DEF Signalling
  <1>9. Receiving(0, 0)
    BY <1>4 DEF Receiving, Emitted, Tme
  <1>10. Asking(0) /\ ReadAnswer(0) /\ EdgeAnswer(0)
    BY <1>4 DEF Asking, ReadAnswer, EdgeAnswer, Busy, Answered
  <1> QED BY <1>5, <1>6, <1>7, <1>8, <1>9, <1>10 DEF SignalInv, SignalParts

LEMMA StepSignalInv == SignalInv /\ [SignalNext]_signalVars => SignalInv'
  <1> SUFFICES ASSUME SignalInv, [SignalNext]_signalVars PROVE SignalInv'
    OBVIOUS
  <1> PICK n \in Nat, t \in Nat, p \in Nat : SignalParts(n, t, p)
    BY DEF SignalInv
  <1> SignalTypeOK
    BY DEF SignalInv
  <1>1. ASSUME NEW val \in Values, Feed(val) PROVE SignalInv'
    BY <1>1, FeedStep
  <1>2. CASE Close
    BY <1>2, CloseStep
  <1>3. CASE SourceSends
    BY <1>3, SourceSendsStep
  <1>4. CASE ClockSends
    BY <1>4, ClockSendsStep
  <1>5. CASE TakesValue
    BY <1>5, TakesValueStep
  <1>6. CASE TakesTime
    BY <1>6, TakesTimeStep
  <1>7. CASE SendsEnd
    BY <1>7, SendsEndStep
  <1>8. ASSUME NEW pos \in Positions, Seek(pos) PROVE SignalInv'
    BY <1>8, SeekStep
  <1>9. CASE Read
    <2>1. /\ UNCHANGED <<fed, closed, source, clock, gates, signal, probe>>
          /\ MayCall /\ call' = Called("read", None, None)
      BY <1>9 DEF Read
    <2> QED BY <2>1, CallingStep
  <1>10. ASSUME NEW edge \in {"pos", "neg", "any"}, NEW maxTime \in EdgeLimits \cup {None},
                NextEdge(edge, maxTime)
         PROVE  SignalInv'
    BY <1>10, NextEdgeStep
  <1>11. CASE Receives
    BY <1>11, ReceivesStep
  <1>12. CASE ReadEnds
    BY <1>12, ReadEndsStep
  <1>13. CASE EdgeEnds
    BY <1>13, EdgeEndsStep
  <1>14. CASE UNCHANGED signalVars
    <2>1. UNCHANGED <<fed, closed, source, clock, gates, signal, probe, call>>
      BY <1>14 DEF signalVars
    <2>2. SignalTypeOK'
      BY <2>1 DEF SignalTypeOK, Busy
    <2>3. Feeding(n)' /\ Clocking(n, t)' /\ Signalling(n)' /\ Receiving(n, p)'
      BY <2>1 DEF SignalParts, Feeding, OnOffer, Clocking, Signalling, EndsAt, Receiving, Emitted,
                  Due
    <2>4. Asking(n)' /\ ReadAnswer(n)' /\ EdgeAnswer(n)'
      BY <2>1, CallKept DEF SignalParts
    <2> QED BY <2>2, <2>3, <2>4 DEF SignalInv, SignalParts
  <1> QED
    BY <1>1, <1>2, <1>3, <1>4, <1>5, <1>6, <1>7, <1>8, <1>9, <1>10, <1>11, <1>12, <1>13, <1>14
       DEF SignalNext, UserCalls

(* The items of a signal keep to their places, in every state.              *)
THEOREM SignalInvariant == SignalSpec => []SignalInv
  BY InitSignalInv, StepSignalInv, PTL DEF SignalSpec

(* The values a user counts on are those of the times before the stop.      *)
LEMMA MadeChanges ==
    ASSUME SignalTypeOK, NEW n \in Nat, NEW t \in Nat, NEW p \in Nat, SignalParts(n, t, p)
    PROVE  /\ \A k \in Int : Begins(k) = At(clock.made, k) /\ At(clock.made, k) \in Int
           /\ Changes \subseteq 1 .. Len(fed) /\ 1 .. n \subseteq Changes
           /\ signal.at = "ended" => Changes \subseteq 1 .. n /\ IsOver /\ n > 0
  <1> DEFINE c == clock.made
  <1>1. /\ c \in Clocks /\ Len(fed) \in Nat /\ n \in 0 .. Len(fed) /\ n <= t
        /\ Clocking(n, t) /\ Signalling(n)
    BY Known DEF SignalParts, Clocking
  <1>2. \A k \in Int : Begins(k) = At(c, k) /\ At(c, k) \in Int
    BY <1>1, TimesApart DEF Begins, At
  <1>3. c.stop # None => c.stop.val \in Int
    BY <1>1, ClockFacts
  <1>4. \A k \in 1 .. Len(fed) : k \in Changes <=> ~StopsBy(c, At(c, k))
    <2> SUFFICES ASSUME NEW k \in 1 .. Len(fed)
                 PROVE  k \in Changes <=> ~StopsBy(c, At(c, k))
      OBVIOUS
    <2>1. k \in Int
      BY <1>1
    <2>2. Begins(k) = At(c, k) /\ At(c, k) \in Int
      BY <1>2, <2>1
    <2>3. k \in Changes <=> (c.stop # None => At(c, k) < c.stop.val)
      BY <2>2 DEF Changes
    <2> QED BY <1>3, <2>2, <2>3 DEF StopsBy
  <1>5. Changes \subseteq 1 .. Len(fed)
    BY DEF Changes
  <1>6. 1 .. n \subseteq Changes
    <2>1. \A k \in 1 .. n : k \in 1 .. Len(fed) /\ k \in 1 .. t
      BY <1>1
    <2> QED BY <1>1, <1>4, <2>1 DEF Clocking
  <1>7. ASSUME signal.at = "ended" PROVE Changes \subseteq 1 .. n /\ IsOver /\ n > 0
    <2>1. EndsAt(n) /\ n > 0
      BY <1>1, <1>7 DEF Signalling
    <2>2. CASE closed /\ Len(fed) = n
      BY <1>5, <2>1, <2>2 DEF IsOver
    <2>3. CASE StopsBy(c, At(c, n + 1))
      <3>1. ASSUME NEW k \in Changes PROVE k \in 1 .. n
        <4>1. k \in 1 .. Len(fed) /\ k \in Int /\ n + 1 \in Int /\ ~StopsBy(c, At(c, k))
          BY <1>1, <1>4, <1>5
        <4>2. ~(k = n + 1)
          BY <2>3, <4>1
        <4>3. ~(n + 1 < k)
          <5>1. n + 1 < k => At(c, n + 1) < At(c, k)
            BY <1>1, <4>1, TimesApart
          <5>2. At(c, n + 1) \in Int /\ At(c, k) \in Int
            BY <1>2, <4>1
          <5> QED BY <1>3, <2>3, <4>1, <5>1, <5>2 DEF StopsBy
        <4> QED BY <1>1, <4>1, <4>2, <4>3
      <3> QED BY <2>1, <2>3, <3>1 DEF IsOver, StopsBy
    <2> QED BY <2>1, <2>2, <2>3 DEF EndsAt
  <1> QED BY <1>2, <1>5, <1>6, <1>7

LEMMA Counted == ASSUME NEW m \in Nat \ {0} PROVE Cardinality(1 .. m) = m /\ 1 .. m # {}
  <1>1. Cardinality(1 .. m) = IF 1 > m THEN 0 ELSE m - 1 + 1
    BY FS_Interval
  <1>2. 1 \in 1 .. m /\ ~(1 > m) /\ m - 1 + 1 = m
    OBVIOUS
  <1> QED BY <1>1, <1>2

(* An answer to a read is the value of its time.                            *)
LEMMA InvReads == SignalInv => ReadsSignal
  <1> SUFFICES ASSUME SignalInv, Answered("read") PROVE ReadsSignal
    BY DEF ReadsSignal
  <1> DEFINE c == clock.made
             pos == call.from.val
             old == {k \in Changes : Begins(k) <= pos}
  <1>1. PICK n \in Nat, t \in Nat, p \in Nat : SignalParts(n, t, p)
    BY DEF SignalInv
  <1>2. SignalTypeOK
    BY DEF SignalInv
  <1>3. /\ c \in Clocks /\ Len(fed) \in Nat /\ n \in 0 .. Len(fed) /\ ReadAnswer(n)
    BY <1>1, <1>2, Known DEF SignalParts
  <1>4. /\ \A k \in Int : Begins(k) = At(c, k) /\ At(c, k) \in Int
        /\ Changes \subseteq 1 .. Len(fed) /\ 1 .. n \subseteq Changes
        /\ signal.at = "ended" => Changes \subseteq 1 .. n /\ IsOver /\ n > 0
    BY <1>1, <1>2, MadeChanges
  <1>5. pos \in Int
    BY <1>3 DEF ReadAnswer, Times
  <1>6. IF call.raised THEN pos = Begins(1) \/ (IsOver /\ old = Changes)
        ELSE call.value = fed[IF old = {} THEN 1 ELSE Cardinality(old)]
    <2>1. CASE call.raised
      <3>1. CASE pos = At(c, 1)
        BY <1>4, <2>1, <3>1
      <3>2. CASE signal.at = "ended" /\ At(c, n) <= pos
        <4>1. ASSUME NEW k \in Changes PROVE Begins(k) <= pos
          <5>1. k \in Int /\ n \in Int /\ k <= n
            BY <1>4, <3>2
          <5>2. k < n => At(c, k) < At(c, n)
            BY <1>3, <5>1, TimesApart
          <5>3. At(c, k) \in Int /\ At(c, n) \in Int /\ Begins(k) = At(c, k)
            BY <1>4, <5>1
          <5>4. k = n \/ k < n
            BY <5>1
          <5> QED BY <1>5, <3>2, <5>2, <5>3, <5>4
        <4> QED BY <1>4, <2>1, <3>2, <4>1
      <3> QED BY <1>3, <2>1, <3>1, <3>2 DEF ReadAnswer
    <2>2. CASE ~call.raised
      <3>1. PICK m \in 1 .. n : /\ call.value = fed[m] /\ pos < At(c, m + 1)
                                /\ m > 1 => At(c, m) <= pos
        BY <1>3, <2>2 DEF ReadAnswer
      <3>2. m \in Int /\ m + 1 \in Int /\ m \in Nat
        OBVIOUS
      <3>3. ASSUME NEW k \in Changes, Begins(k) <= pos PROVE k <= m
        <4>1. k \in Int /\ At(c, k) <= pos /\ At(c, k) \in Int /\ At(c, m + 1) \in Int
          BY <1>4, <3>2, <3>3
        <4>2. m + 1 < k => At(c, m + 1) < At(c, k)
          BY <1>3, <3>2, <4>1, TimesApart
        <4>3. k # m + 1
          BY <1>5, <3>1, <4>1
        <4>4. ~(m + 1 < k)
          BY <1>5, <3>1, <4>1, <4>2
        <4> QED BY <3>2, <4>1, <4>3, <4>4
      <3>4. CASE At(c, m) <= pos
        <4>1. ASSUME NEW k \in 1 .. m PROVE k \in old
          <5>1. k \in Int /\ k \in Changes
            BY <1>4, <3>2
          <5>2. k < m => At(c, k) < At(c, m)
            BY <1>3, <3>2, <5>1, TimesApart
          <5>3. At(c, k) \in Int /\ At(c, m) \in Int /\ Begins(k) = At(c, k)
            BY <1>4, <3>2, <5>1
          <5>4. k = m \/ k < m
            BY <3>2, <5>1
          <5>5. Begins(k) <= pos
            BY <1>5, <3>4, <5>2, <5>3, <5>4
          <5> QED BY <5>1, <5>5
        <4>2. old = 1 .. m
          <5>1. ASSUME NEW k \in old PROVE k \in 1 .. m
            <6>1. k \in Changes /\ k \in Int /\ k >= 1 /\ k <= m
              BY <1>4, <3>3
            <6> QED BY <6>1
          <5> QED BY <4>1, <5>1
        <4>3. Cardinality(1 .. m) = m /\ 1 .. m # {}
          BY <3>1, Counted
        <4> QED BY <2>2, <3>1, <4>2, <4>3
      <3>5. CASE ~(At(c, m) <= pos)
        <4>1. m = 1
          BY <3>1, <3>2, <3>5
        <4>2. old = {}
          <5> SUFFICES ASSUME NEW k \in old PROVE FALSE
            OBVIOUS
          <5>1. k \in Changes /\ k = 1
            BY <1>4, <3>3, <4>1
          <5> QED BY <1>4, <3>5, <4>1, <5>1
        <4> QED BY <2>2, <3>1, <4>1, <4>2
      <3> QED BY <3>4, <3>5
    <2> QED BY <2>1, <2>2
  <1> QED BY <1>6 DEF ReadsSignal

(* An answer to a nextEdge is the first edge.                               *)
LEMMA InvEdges == SignalInv => EdgesFound
  <1> SUFFICES ASSUME SignalInv, Answered("edge") PROVE EdgesFound
    BY DEF EdgesFound
  <1> DEFINE c == clock.made
             from == call.from.val
             limit == call.maxTime.val
             edges == {k \in Changes \ {1} : Begins(k) > from /\ Wanted(call.edge, fed, k)}
             early == {k \in edges : call.maxTime # None => Begins(k) < limit}
  <1>1. PICK n \in Nat, t \in Nat, p \in Nat : SignalParts(n, t, p)
    BY DEF SignalInv
  <1>2. SignalTypeOK
    BY DEF SignalInv
  <1>3. /\ c \in Clocks /\ Len(fed) \in Nat /\ n \in 0 .. Len(fed) /\ n \in Int
        /\ EdgeAnswer(n) /\ Asking(n)
    BY <1>1, <1>2, Known DEF SignalParts
  <1>4. /\ \A k \in Int : Begins(k) = At(c, k) /\ At(c, k) \in Int
        /\ Changes \subseteq 1 .. Len(fed) /\ 1 .. n \subseteq Changes
        /\ signal.at = "ended" => Changes \subseteq 1 .. n /\ IsOver /\ n > 0
    BY <1>1, <1>2, MadeChanges
  <1>5. from \in Int /\ (call.maxTime # None => limit \in Int)
    BY <1>3 DEF EdgeAnswer, Times
  <1>6. ASSUME NEW k \in edges, NEW m \in Int, m <= n + 1, Before(m) PROVE ~(k < m)
    <2> SUFFICES ASSUME k < m PROVE FALSE
      OBVIOUS
    <2>1. k \in Changes /\ k # 1 /\ k \in Int /\ k >= 1 /\ m - 1 \in Int /\ k <= m - 1
      BY <1>3, <1>4
    <2>2. k \in 2 .. m - 1 /\ from < At(c, k) /\ Wanted(call.edge, fed, k)
      BY <1>4, <1>5, <2>1
    <2>3. At(c, k) <= At(c, m - 1)
      <3>1. PICK j \in Int : j = m - 1 /\ k <= j
        BY <2>1
      <3>2. k < j => At(c, k) < At(c, j)
        BY <1>3, <2>1, <3>1, TimesApart
      <3>3. At(c, k) \in Int /\ At(c, j) \in Int
        BY <1>4, <2>1, <3>1
      <3> QED BY <2>1, <3>1, <3>2, <3>3
    <2> QED BY <1>6, <2>2, <2>3 DEF Before, NoneWanted
  <1>7. CASE call.raised
    <2>1. signal.at = "ended" /\ Before(n + 1)
      BY <1>3, <1>7 DEF EdgeAnswer
    <2>2. ASSUME NEW k \in edges PROVE FALSE
      <3>1. k \in Int /\ k <= n
        BY <1>4, <2>1
      <3>2. n + 1 \in Int /\ n + 1 <= n + 1 /\ k < n + 1
        BY <1>3, <3>1
      <3> QED BY <1>6, <2>1, <3>2
    <2> HIDE DEF edges
    <2>3. edges = {} /\ IsOver
      BY <1>4, <2>1, <2>2
    <2> USE DEF edges
    <2> QED BY <1>7, <2>3 DEF EdgesFound, Wanted
  <1>8. CASE ~call.raised /\ call.value = None
    <2>1. PICK m \in 1 .. n : call.maxTime # None /\ limit <= At(c, m) /\ Before(m)
      BY <1>3, <1>8 DEF EdgeAnswer
    <2>2. ASSUME NEW k \in early PROVE FALSE
      <3>1. k \in edges /\ k \in Changes /\ k \in Int /\ m \in Int /\ m <= n + 1
        BY <1>3, <1>4
      <3>2. At(c, k) < limit /\ At(c, k) \in Int /\ At(c, m) \in Int
        BY <1>4, <2>1, <3>1
      <3>3. ~(k < m)
        BY <1>6, <2>1, <3>1
      <3>4. m < k => At(c, m) < At(c, k)
        BY <1>3, <3>1, TimesApart
      <3> QED BY <1>5, <2>1, <3>1, <3>2, <3>3, <3>4
    <2> HIDE DEF early, edges
    <2>3. early = {}
      BY <2>2
    <2> USE DEF early, edges
    <2> QED BY <1>8, <2>3 DEF EdgesFound, Wanted
  <1>9. CASE ~call.raised /\ call.value # None
    <2>1. PICK m \in 2 .. n :
              /\ call.value = ChangeNo(c, fed, m) /\ Wanted(call.edge, fed, m)
              /\ from < At(c, m) /\ Before(m)
              /\ call.maxTime # None => At(c, m) < limit
      <3>1. Answered("edge") /\ EdgeAnswer(n)
        BY <1>3
      <3> QED BY <1>9, <3>1 DEF EdgeAnswer
    <2>2. m \in Int /\ m # 1 /\ m \in Changes /\ m <= n + 1 /\ Begins(m) = At(c, m) /\ At(c, m) \in Int
      <3>1. m \in Int /\ m # 1 /\ m \in 1 .. n /\ m <= n + 1
        BY <1>3
      <3> QED BY <1>4, <3>1
    <2>3. m \in early
      BY <1>5, <2>1, <2>2
    <2>4. ASSUME NEW k \in early PROVE k \in Int /\ m <= k
      <3>1. k \in edges /\ k \in Int
        BY <1>4
      <3>2. ~(k < m)
        BY <1>6, <2>1, <2>2, <3>1
      <3> QED BY <2>2, <3>1, <3>2
    <2> HIDE DEF early, edges
    <2>5. Min(early) = m
      <3>1. \A k \in early : (\A y \in early : k <= y) => k = m
        <4> SUFFICES ASSUME NEW k \in early, \A y \in early : k <= y PROVE k = m
          OBVIOUS
        <4>1. k <= m /\ m <= k /\ k \in Int
          BY <2>3, <2>4
        <4> QED BY <2>2, <4>1
      <3>2. \A y \in early : m <= y
        BY <2>4
      <3> QED BY <2>3, <3>1, <3>2 DEF Min
    <2>6. call.value = Change(fed[m], Tme("period", Begins(m)), TRUE)
      <3>1. c.typ = "period"
        BY <1>3 DEF Asking, Answered
      <3> QED BY <2>1, <2>2, <3>1 DEF ChangeNo, TimeOf
    <2>7. early # {} /\ call.value = Change(fed[Min(early)], Tme("period", Begins(Min(early))), TRUE)
      BY <2>3, <2>5, <2>6
    <2> USE DEF early, edges
    <2> QED BY <1>9, <2>7 DEF EdgesFound, Wanted
  <1> QED BY <1>7, <1>8, <1>9

(* A read returns the value that holds at pos.                              *)
THEOREM SignalReads == SignalSpec => []ReadsSignal
  BY SignalInvariant, InvReads, PTL

(* nextEdge returns the first edge.                                         *)
THEOREM SignalEdges == SignalSpec => []EdgesFound
  BY SignalInvariant, InvEdges, PTL

----------------------------------------------------------------------------
(* Bits of any width are read back from their bytes, where two of them share *)
(* one and the last byte has the first ones.                                 *)
LEMMA PackedBits ==
    ASSUME NEW bits \in Seq(L9)
    PROVE  LET n == (Len(bits) - 1) \div 2 + 1 IN
           /\ n \in Nat /\ pack(bits) \in Seq(Nat) /\ Len(pack(bits)) = n
           /\ \A q \in 0 .. n - 1 :
                  /\ 2 * q + 1 \in 1 .. Len(bits)
                  /\ pack(bits)[n - q] =
                         bits[2 * q + 1] +
                         (IF 2 * q + 1 < Len(bits) THEN 16 * bits[2 * q + 2] ELSE 0)
  <1> DEFINE s == Len(bits)
             n == (s - 1) \div 2 + 1
             two(q) == bits[2 * q + 1] + (IF 2 * q + 1 < s THEN 16 * bits[2 * q + 2] ELSE 0)
  <1>1. s \in Nat /\ \A i \in 1 .. s : bits[i] \in L9 /\ bits[i] \in Nat
    BY LenProperties, ElementOfSeq DEF L9
  <1>2. n \in Nat /\ 2 * n <= s + 1 /\ s <= 2 * n
    BY <1>1
  <1>3. ASSUME NEW q \in 0 .. n - 1
        PROVE  /\ 2 * q + 1 \in 1 .. s /\ (2 * q + 1 < s => 2 * q + 2 \in 1 .. s)
               /\ two(q) \in Nat
    <2>1. 2 * q + 1 \in 1 .. s /\ (2 * q + 1 < s => 2 * q + 2 \in 1 .. s)
      BY <1>1, <1>2
    <2> QED BY <1>1, <2>1
  <1>4. pack(bits) = [byt \in 1 .. n |-> two(n - byt)]
    BY DEF pack
  <1>5. \A q \in 0 .. n - 1 : n - q \in 1 .. n /\ n - (n - q) = q
    BY <1>2
  <1>6. \A byt \in 1 .. n : n - byt \in 0 .. n - 1
    BY <1>2
  <1> HIDE DEF two, n
  <1>7. \A q \in 0 .. n - 1 : pack(bits)[n - q] = two(q)
    BY <1>4, <1>5
  <1>8. pack(bits) \in [1 .. n -> Nat]
    BY <1>3, <1>4, <1>6
  <1>9. pack(bits) \in Seq(Nat) /\ Len(pack(bits)) = n
    BY <1>2, <1>8, SeqDef, LenProperties
  <1> QED BY <1>2, <1>3, <1>7, <1>9 DEF two, n

(* What was written to bytes is read back, whatever the width and the bits.  *)
THEOREM BitsReadBack ==
    ASSUME NEW bits \in Seq(L9)
    PROVE  bitsFromBytes(bitsToBytes(bits)) = bits
  <1> DEFINE s == Len(bits)
             n == (s - 1) \div 2 + 1
             head == <<s \div 256, s % 256>>
             raw == bitsToBytes(bits)
             read(bit) == LET b == raw[3 + (s - 1) \div 2 - (bit - 1) \div 2] IN
                          IF bit % 2 = 0 THEN b \div 16 ELSE b % 16
  <1>1. s \in Nat /\ \A i \in 1 .. s : bits[i] \in 0 .. 15
    BY LenProperties, ElementOfSeq DEF L9
  <1>2. /\ n \in Nat /\ pack(bits) \in Seq(Nat) /\ Len(pack(bits)) = n
        /\ \A q \in 0 .. n - 1 :
               /\ 2 * q + 1 \in 1 .. s
               /\ pack(bits)[n - q] =
                      bits[2 * q + 1] + (IF 2 * q + 1 < s THEN 16 * bits[2 * q + 2] ELSE 0)
    BY PackedBits
  <1>3. head \in Seq(Nat) /\ Len(head) = 2 /\ head[1] = s \div 256 /\ head[2] = s % 256
    BY <1>1
  <1>4. /\ raw[1] = head[1] /\ raw[2] = head[2]
        /\ \A i \in 1 .. n : raw[2 + i] = pack(bits)[i]
    <2>1. raw = head \o pack(bits)
      BY DEF bitsToBytes
    <2> HIDE DEF head, raw, n
    <2>2. \A i \in 1 .. n + 2 : raw[i] = IF i <= 2 THEN head[i] ELSE pack(bits)[i - 2]
      <3>1. \A i \in 1 .. Len(head) + Len(pack(bits)) :
                (head \o pack(bits))[i] =
                    IF i <= Len(head) THEN head[i] ELSE pack(bits)[i - Len(head)]
        <4>1. head \in Seq(Nat) /\ pack(bits) \in Seq(Nat)
          BY <1>2, <1>3
        <4> QED BY ONLY <4>1, ConcatProperties
      <3>2. Len(head) = 2 /\ Len(head) + Len(pack(bits)) = n + 2
        BY <1>2, <1>3
      <3>3. \A i \in 1 .. n + 2 : (head \o pack(bits))[i] =
                    IF i <= 2 THEN head[i] ELSE pack(bits)[i - 2]
        BY <3>1, <3>2
      <3> QED BY <2>1, <3>3
    <2>3. \A i \in 1 .. n : 2 + i \in 1 .. n + 2 /\ ~(2 + i <= 2) /\ (2 + i) - 2 = i
      BY <1>2
    <2>4. 1 \in 1 .. n + 2 /\ 2 \in 1 .. n + 2
      BY <1>2
    <2> QED BY <2>2, <2>3, <2>4
  <1>5. 256 * raw[1] + raw[2] = s
    BY <1>1, <1>3, <1>4
  <1>6. ASSUME NEW bit \in 1 .. s
        PROVE  read(bit) = bits[bit]
    <2>1. PICK q \in 0 .. n - 1 :
              /\ q = (bit - 1) \div 2
              /\ bit % 2 = 0 => bit = 2 * q + 2
              /\ bit % 2 # 0 => bit = 2 * q + 1
      <3>1. bit \in Int /\ 1 <= bit /\ bit <= s
        BY <1>1
      <3>2. PICK q \in Int : q = (bit - 1) \div 2
        BY <3>1
      <3>3. (bit % 2 = 0 => bit = 2 * q + 2) /\ (bit % 2 # 0 => bit = 2 * q + 1)
        BY <3>1, <3>2
      <3>4. q >= 0 /\ q <= (s - 1) \div 2
        BY <1>1, <3>1, <3>2
      <3>5. (s - 1) \div 2 \in Int /\ n = (s - 1) \div 2 + 1
        BY <1>1
      <3>6. q \in 0 .. n - 1
        BY <3>4, <3>5
      <3> QED BY <3>2, <3>3, <3>6
    <2>2. n - q \in 1 .. n /\ 3 + (s - 1) \div 2 - q = 2 + (n - q)
      BY <1>2
    <2>3. PICK b : /\ b = raw[3 + (s - 1) \div 2 - (bit - 1) \div 2]
                   /\ b = bits[2 * q + 1] +
                          (IF 2 * q + 1 < s THEN 16 * bits[2 * q + 2] ELSE 0)
      <3>1. pack(bits)[n - q] =
                bits[2 * q + 1] + (IF 2 * q + 1 < s THEN 16 * bits[2 * q + 2] ELSE 0)
        BY <1>2
      <3>2. raw[2 + (n - q)] = pack(bits)[n - q]
        BY <1>4, <2>2
      <3> HIDE DEF raw, n
      <3> QED BY <2>1, <2>2, <3>1, <3>2
    <2>4. bits[2 * q + 1] \in 0 .. 15 /\ (2 * q + 1 < s => bits[2 * q + 2] \in 0 .. 15)
      <3>1. 2 * q + 1 \in 1 .. s /\ (2 * q + 1 < s => 2 * q + 2 \in 1 .. s)
        BY <1>1, <1>2
      <3> QED BY <1>1, <3>1
    <2>5. CASE bit % 2 = 0
      <3>1. bit = 2 * q + 2 /\ 2 * q + 1 < s
        <4>1. bit = 2 * q + 2
          BY <2>1, <2>5
        <4> HIDE DEF n
        <4>2. q \in Int /\ bit <= s
          BY <1>1
        <4> QED BY <1>1, <4>1, <4>2
      <3>2. \A x, y \in 0 .. 15 : (x + 16 * y) \div 16 = y
        OBVIOUS
      <3> QED BY <2>3, <2>4, <2>5, <3>1, <3>2
    <2>6. CASE bit % 2 # 0
      <3>1. bit = 2 * q + 1
        BY <2>1, <2>6
      <3>2. \A x, y \in 0 .. 15 : (x + 16 * y) % 16 = x /\ (x + 0) % 16 = x
        OBVIOUS
      <3>3. b % 16 = bits[2 * q + 1]
        <4>1. CASE 2 * q + 1 < s
          BY <2>3, <2>4, <3>2, <4>1
        <4>2. CASE ~(2 * q + 1 < s)
          BY <2>3, <2>4, <3>2, <4>2
        <4> QED BY <4>1, <4>2
      <3> QED BY <2>3, <2>6, <3>1, <3>3
    <2> QED BY <2>5, <2>6
  <1> HIDE DEF raw, head, n
  <1>7. bitsFromBytes(raw) = [bit \in 1 .. s |-> bits[bit]]
    <2>1. bitsFromBytes(raw) = [bit \in 1 .. s |-> read(bit)]
      BY <1>5, ZenonT(40) DEF bitsFromBytes
    <2> HIDE DEF read, s
    <2> QED BY <1>6, <2>1, Zenon
  <1>8. bits = [bit \in 1 .. s |-> bits[bit]]
    BY LenProperties
  <1> QED BY <1>7, <1>8 DEF raw

----------------------------------------------------------------------------
(* Each of the systems side by side is one of its own.                       *)
LEMMA OnesOwn ==
    [ItemsNext]_itemVars => [Next]_vars /\ [LinkNext]_linkVars /\ [SignalNext]_signalVars
  <1> SUFFICES ASSUME [ItemsNext]_itemVars
               PROVE  [Next]_vars /\ [LinkNext]_linkVars /\ [SignalNext]_signalVars
    OBVIOUS
  <1>1. CASE InGate(Next)
    BY <1>1 DEF InGate
  <1>2. CASE InLink(LinkNext)
    BY <1>2 DEF InLink
  <1>3. CASE InSignal(SignalNext)
    BY <1>3 DEF InSignal
  <1>4. CASE UNCHANGED itemVars
    BY <1>4 DEF itemVars
  <1> QED BY <1>1, <1>2, <1>3, <1>4 DEF ItemsNext

(* A gate, a link and a signal side by side behave as each does alone.       *)
THEOREM ItemsSideBySide ==
    ItemsSpec => Spec /\ LinkSpec /\ SignalSpec
  <1>1. ItemsInit => Init /\ LinkInit /\ SignalInit
    BY DEF ItemsInit
  <1> QED BY <1>1, OnesOwn, PTL DEF ItemsSpec, Spec, LinkSpec, SignalSpec

(* The items hand over values in order.                                      *)
THEOREM ItemsInPushOrder == ItemsSpec => []InPushOrder
  BY ItemsSideBySide, GateInPushOrder, PTL

(* A push returns only after its own value was taken.                        *)
THEOREM ItemsPushWaits == ItemsSpec => PushWaits
  BY ItemsSideBySide, GatePushWaits, PTL

(* A read returns the value that holds at pos.                               *)
THEOREM ItemsReadSignal == ItemsSpec => []ReadsSignal
  BY ItemsSideBySide, SignalReads, PTL

(* nextEdge finds the first edge.                                            *)
THEOREM ItemsFindEdges == ItemsSpec => []EdgesFound
  BY ItemsSideBySide, SignalEdges, PTL
=============================================================================
