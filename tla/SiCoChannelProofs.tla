-------------------------- MODULE SiCoChannelProofs --------------------------
(* SiCoChannel, for any set of Breaks, any times and any number of items:   *)
(* the command processors of both sides live, holds hold, promises are kept *)
(* and the items of a frame are in the simulator on time.  A message about  *)
(* a Break is at each moment in one place: on the way to the simulator, in  *)
(* its list, or on the way back; the invariant says in which, and what the  *)
(* other places know of the Break then.                                     *)
EXTENDS SiCoChannel, SequenceTheorems, WellFoundedInduction, TLAPS

(* Induction over the natural numbers, in the form of a set.                *)
LEMMA NatInSet ==
  ASSUME NEW T, 0 \in T, \A n \in Nat : n \in T => n + 1 \in T
  PROVE  Nat \subseteq T
<1> DEFINE R == OpToRel(<, Nat)
<1> SUFFICES ASSUME Nat \ T # {} PROVE FALSE
  OBVIOUS
<1>1. \A x, y \in Nat : <<x, y>> \in R <=> x < y
  BY DEF OpToRel
<1>2. PICK x \in Nat \ T : \A y \in Nat \ T : ~(<<y, x>> \in R)
  BY NatLessThanWellFounded, WFMin
<1>3. \A y \in Nat \ T : ~(y < x)
  BY <1>1, <1>2
<1>4. x \in Nat /\ x \notin T /\ x # 0
  BY <1>2
<1>5. x - 1 \in Nat /\ (x - 1) + 1 = x /\ x - 1 < x
  BY <1>4
<1>6. x - 1 \in T
  BY <1>3, <1>5
<1> QED BY <1>4, <1>5, <1>6

----------------------------------------------------------------------------
(* The recursive function in FlattenSeq exists ...                          *)
Flattens(f, ss, n) == f = [i \in 1 .. n |-> IF i = 1 THEN ss[i] ELSE f[i - 1] \o ss[i]]

LEMMA FlattenExists ==
  ASSUME NEW ss, NEW n \in Nat
  PROVE  \E f : Flattens(f, ss, n)
<1> DEFINE T == {m \in Nat : \E f : Flattens(f, ss, m)}
<1>1. 0 \in T
  <2> DEFINE f == [i \in 1 .. 0 |-> IF i = 1 THEN ss[i] ELSE {}]
  <2>1. Flattens(f, ss, 0)
    BY DEF Flattens
  <2> QED BY <2>1
<1>2. ASSUME NEW m \in Nat, m \in T PROVE m + 1 \in T
  <2>1. PICK f : Flattens(f, ss, m)
    BY <1>2
  <2> DEFINE g == [i \in 1 .. m + 1 |-> IF i = 1 THEN ss[i] ELSE f[i - 1] \o ss[i]]
  <2>2. \A i \in 1 .. m : f[i] = IF i = 1 THEN ss[i] ELSE f[i - 1] \o ss[i]
    BY <2>1, Zenon DEF Flattens
  <2>3. \A i \in 1 .. m + 1 : i # 1 => g[i - 1] = f[i - 1]
    <3>1. \A i \in 1 .. m + 1 : i # 1 => i - 1 \in 1 .. m /\ i - 1 \in 1 .. m + 1
      OBVIOUS
    <3> QED BY <2>2, <3>1, Zenon
  <2>4. g = [i \in 1 .. m + 1 |-> IF i = 1 THEN ss[i] ELSE g[i - 1] \o ss[i]]
    BY <2>3, Zenon
  <2>5. Flattens(g, ss, m + 1)
    BY <2>4 DEF Flattens
  <2> QED BY <2>5
<1> HIDE DEF T
<1>3. Nat \subseteq T
  BY <1>1, <1>2, NatInSet
<1> QED BY <1>3 DEF T

(* ... so that FlattenSeq is its last value.                                *)
LEMMA FlattenIs ==
  ASSUME NEW ss, Len(ss) \in Nat \ {0}
  PROVE  \E f : Flattens(f, ss, Len(ss)) /\ FlattenSeq(ss) = f[Len(ss)]
<1> DEFINE flatten[i \in 1 .. Len(ss)] == IF i = 1 THEN ss[i] ELSE flatten[i - 1] \o ss[i]
<1>1. FlattenSeq(ss) = flatten[Len(ss)]
  BY DEF FlattenSeq
<1>2. Flattens(flatten, ss, Len(ss))
  <2>1. \E f : f = [i \in 1 .. Len(ss) |-> IF i = 1 THEN ss[i] ELSE f[i - 1] \o ss[i]]
    BY FlattenExists DEF Flattens
  <2>2. flatten = [i \in 1 .. Len(ss) |-> IF i = 1 THEN ss[i] ELSE flatten[i - 1] \o ss[i]]
    BY <2>1
  <2> QED BY <2>2 DEF Flattens
<1> QED BY <1>1, <1>2

(* all lists, without another, the elements of the first n sequences in ss, *)
(* those of one before those of the next.                                   *)
ListsBy(all, ss, n, which, place) ==
    /\ \A k \in 1 .. Len(all) :
         place[k] \in 1 .. Len(ss[which[k]]) /\ all[k] = ss[which[k]][place[k]]
    /\ \A k, l \in 1 .. Len(all) : k < l =>
         which[k] < which[l] \/ (which[k] = which[l] /\ place[k] < place[l])
    /\ \A i \in 1 .. n : \A j \in 1 .. Len(ss[i]) :
         \E k \in 1 .. Len(all) : which[k] = i /\ place[k] = j

Lists(all, ss, n) ==
  \E which \in [1 .. Len(all) -> 1 .. n], place \in [1 .. Len(all) -> Nat] :
    ListsBy(all, ss, n, which, place)

LEMMA ListsOne ==
  ASSUME NEW S, NEW ss \in Seq(Seq(S)), Len(ss) >= 1
  PROVE  Lists(ss[1], ss, 1)
<1>1. ss[1] \in Seq(S) /\ Len(ss[1]) \in Nat
  BY ElementOfSeq, LenProperties
<1> DEFINE which == [k \in 1 .. Len(ss[1]) |-> 1]
           place == [k \in 1 .. Len(ss[1]) |-> k]
<1>2. which \in [1 .. Len(ss[1]) -> 1 .. 1] /\ place \in [1 .. Len(ss[1]) -> Nat]
  BY <1>1
<1>3. \A k \in 1 .. Len(ss[1]) : which[k] = 1 /\ place[k] = k
  OBVIOUS
<1> HIDE DEF which, place
<1>4. /\ \A k \in 1 .. Len(ss[1]) : place[k] \in 1 .. Len(ss[which[k]]) /\ ss[1][k] = ss[which[k]][place[k]]
      /\ \A k, l \in 1 .. Len(ss[1]) : k < l =>
           which[k] < which[l] \/ (which[k] = which[l] /\ place[k] < place[l])
  BY <1>3
<1>5. \A i \in 1 .. 1 : \A j \in 1 .. Len(ss[i]) :
           \E k \in 1 .. Len(ss[1]) : which[k] = i /\ place[k] = j
  <2>1. \A i \in 1 .. 1 : i = 1
    OBVIOUS
  <2> QED BY <1>3, <2>1
<1>6. ListsBy(ss[1], ss, 1, which, place)
  BY <1>4, <1>5 DEF ListsBy
<1> QED BY <1>2, <1>6 DEF Lists

LEMMA ListsNext ==
  ASSUME NEW S, NEW ss \in Seq(Seq(S)), NEW n \in 1 .. Len(ss), n + 1 \in 1 .. Len(ss),
         NEW all \in Seq(S), Lists(all, ss, n)
  PROVE  Lists(all \o ss[n + 1], ss, n + 1)
<1> DEFINE more == all \o ss[n + 1]
<1>1. /\ ss[n + 1] \in Seq(S) /\ Len(ss[n + 1]) \in Nat /\ Len(all) \in Nat
      /\ Len(more) = Len(all) + Len(ss[n + 1])
      /\ \A k \in 1 .. Len(more) : more[k] = IF k <= Len(all) THEN all[k] ELSE ss[n + 1][k - Len(all)]
  BY ElementOfSeq, ConcatProperties, LenProperties
<1>2. PICK which \in [1 .. Len(all) -> 1 .. n], place \in [1 .. Len(all) -> Nat] :
        /\ \A k \in 1 .. Len(all) :
             place[k] \in 1 .. Len(ss[which[k]]) /\ all[k] = ss[which[k]][place[k]]
        /\ \A k, l \in 1 .. Len(all) : k < l =>
             which[k] < which[l] \/ (which[k] = which[l] /\ place[k] < place[l])
        /\ \A i \in 1 .. n : \A j \in 1 .. Len(ss[i]) :
             \E k \in 1 .. Len(all) : which[k] = i /\ place[k] = j
  BY DEF Lists, ListsBy
<1> HIDE DEF more
<1> DEFINE w == [k \in 1 .. Len(more) |-> IF k <= Len(all) THEN which[k] ELSE n + 1]
           p == [k \in 1 .. Len(more) |-> IF k <= Len(all) THEN place[k] ELSE k - Len(all)]
<1>3. w \in [1 .. Len(more) -> 1 .. n + 1] /\ p \in [1 .. Len(more) -> Nat]
  BY <1>1, <1>2
<1>4. \A k \in 1 .. Len(more) :
        /\ w[k] = IF k <= Len(all) THEN which[k] ELSE n + 1
        /\ p[k] = IF k <= Len(all) THEN place[k] ELSE k - Len(all)
  OBVIOUS
<1> HIDE DEF w, p
<1>5. ASSUME NEW k \in 1 .. Len(more) PROVE p[k] \in 1 .. Len(ss[w[k]]) /\ more[k] = ss[w[k]][p[k]]
  <2>1. CASE k <= Len(all)
    <3>1. k \in 1 .. Len(all) /\ w[k] = which[k] /\ p[k] = place[k] /\ more[k] = all[k]
      BY <1>1, <1>4, <2>1
    <3> QED BY <1>2, <3>1
  <2>2. CASE ~(k <= Len(all))
    <3>1. w[k] = n + 1 /\ p[k] = k - Len(all) /\ more[k] = ss[n + 1][k - Len(all)]
      BY <1>1, <1>4, <2>2
    <3>2. k - Len(all) \in 1 .. Len(ss[n + 1])
      BY <1>1, <2>2
    <3> QED BY <3>1, <3>2
  <2> QED BY <2>1, <2>2
<1>6. ASSUME NEW k \in 1 .. Len(more), NEW l \in 1 .. Len(more), k < l
      PROVE  w[k] < w[l] \/ (w[k] = w[l] /\ p[k] < p[l])
  <2>1. CASE l <= Len(all)
    <3>1. k \in 1 .. Len(all) /\ l \in 1 .. Len(all) /\ k <= Len(all)
      BY <1>1, <1>6, <2>1
    <3> QED BY <1>2, <1>4, <1>6, <2>1, <3>1
  <2>2. CASE k <= Len(all) /\ ~(l <= Len(all))
    <3>1. k \in 1 .. Len(all)
      BY <1>1, <2>2
    <3>2. which[k] \in 1 .. n
      BY <1>2, <3>1
    <3>3. which[k] < n + 1
      BY <3>2
    <3> QED BY <1>4, <2>2, <3>3
  <2>3. CASE ~(k <= Len(all)) /\ ~(l <= Len(all))
    <3>1. k - Len(all) < l - Len(all)
      BY <1>1, <1>6
    <3> QED BY <1>4, <2>3, <3>1
  <2>4. l <= Len(all) => k <= Len(all)
    BY <1>1, <1>6
  <2> QED BY <2>1, <2>2, <2>3, <2>4
<1>7. ASSUME NEW i \in 1 .. n + 1, NEW j \in 1 .. Len(ss[i])
      PROVE  \E k \in 1 .. Len(more) : w[k] = i /\ p[k] = j
  <2>1. CASE i = n + 1
    <3>1. Len(all) + j \in 1 .. Len(more) /\ ~(Len(all) + j <= Len(all)) /\ (Len(all) + j) - Len(all) = j
      BY <1>1, <2>1
    <3> QED BY <1>4, <2>1, <3>1
  <2>2. CASE i \in 1 .. n
    <3>1. PICK k \in 1 .. Len(all) : which[k] = i /\ place[k] = j
      BY <1>2, <2>2
    <3>2. k \in 1 .. Len(more) /\ k <= Len(all)
      BY <1>1
    <3> QED BY <1>4, <3>1, <3>2
  <2> QED BY <2>1, <2>2
<1>8. Lists(more, ss, n + 1)
  <2>1. \A k \in 1 .. Len(more) : p[k] \in 1 .. Len(ss[w[k]]) /\ more[k] = ss[w[k]][p[k]]
    BY <1>5
  <2>2. \A k, l \in 1 .. Len(more) : k < l => w[k] < w[l] \/ (w[k] = w[l] /\ p[k] < p[l])
    BY <1>6
  <2>3. \A i \in 1 .. n + 1 : \A j \in 1 .. Len(ss[i]) :
          \E k \in 1 .. Len(more) : w[k] = i /\ p[k] = j
    BY <1>7
  <2>4. w \in [1 .. Len(more) -> 1 .. n + 1] /\ p \in [1 .. Len(more) -> Nat]
    BY <1>3
  <2>5. ListsBy(more, ss, n + 1, w, p)
    BY <2>1, <2>2, <2>3 DEF ListsBy
  <2> QED BY <2>4, <2>5 DEF Lists
<1> QED BY <1>8 DEF more

LEMMA FlattenLists ==
  ASSUME NEW S, NEW ss \in Seq(Seq(S)), Len(ss) >= 1
  PROVE  FlattenSeq(ss) \in Seq(S) /\ Lists(FlattenSeq(ss), ss, Len(ss))
<1>1. Len(ss) \in Nat \ {0}
  BY LenProperties
<1>2. PICK f : Flattens(f, ss, Len(ss)) /\ FlattenSeq(ss) = f[Len(ss)]
  BY <1>1, FlattenIs
<1>3. \A i \in 1 .. Len(ss) : f[i] = IF i = 1 THEN ss[i] ELSE f[i - 1] \o ss[i]
  BY <1>2, Zenon DEF Flattens
<1> DEFINE T == {m \in Nat : m + 1 \in 1 .. Len(ss) => f[m + 1] \in Seq(S) /\ Lists(f[m + 1], ss, m + 1)}
<1>4. 0 \in T
  BY <1>1, <1>3, ListsOne, ElementOfSeq
<1>5. ASSUME NEW m \in Nat, m \in T PROVE m + 1 \in T
  <2> SUFFICES ASSUME (m + 1) + 1 \in 1 .. Len(ss)
               PROVE  f[(m + 1) + 1] \in Seq(S) /\ Lists(f[(m + 1) + 1], ss, (m + 1) + 1)
    OBVIOUS
  <2>1. m + 1 \in 1 .. Len(ss) /\ (m + 1) + 1 # 1 /\ ((m + 1) + 1) - 1 = m + 1
    BY <1>1
  <2>2. f[m + 1] \in Seq(S) /\ Lists(f[m + 1], ss, m + 1)
    BY <1>5, <2>1
  <2>3. f[(m + 1) + 1] = f[m + 1] \o ss[(m + 1) + 1]
    BY <1>3, <2>1
  <2>4. f[m + 1] \o ss[(m + 1) + 1] \in Seq(S)
    BY <2>2, ElementOfSeq, ConcatProperties
  <2> QED BY <2>1, <2>2, <2>3, <2>4, ListsNext
<1> HIDE DEF T
<1>6. Len(ss) - 1 \in T
  <2>1. Nat \subseteq T
    BY <1>4, <1>5, NatInSet
  <2> QED BY <1>1, <2>1
<1>7. (Len(ss) - 1) + 1 = Len(ss)
  BY <1>1
<1> QED BY <1>1, <1>2, <1>6, <1>7 DEF T

----------------------------------------------------------------------------
(* The messages in a queue, the records in a list.                          *)
Msgs(q) == {q[i] : i \in 1 .. Len(q)}

LEMMA MsgsAppend ==
  ASSUME NEW S, NEW q \in Seq(S), NEW m \in S
  PROVE  /\ Append(q, m) \in Seq(S) /\ Len(Append(q, m)) = Len(q) + 1 /\ Len(q) \in Nat
         /\ \A i \in 1 .. Len(q) : Append(q, m)[i] = q[i]
         /\ Append(q, m)[Len(q) + 1] = m
         /\ Msgs(Append(q, m)) = Msgs(q) \cup {m}
<1>1. /\ Append(q, m) \in Seq(S) /\ Len(Append(q, m)) = Len(q) + 1 /\ Len(q) \in Nat
      /\ \A i \in 1 .. Len(q) : Append(q, m)[i] = q[i]
      /\ Append(q, m)[Len(q) + 1] = m
  BY AppendProperties, LenProperties
<1>2. \A i \in 1 .. Len(q) + 1 : i \in 1 .. Len(q) \/ i = Len(q) + 1
  BY <1>1
<1>3. 1 .. Len(q) \subseteq 1 .. Len(q) + 1 /\ Len(q) + 1 \in 1 .. Len(q) + 1
  BY <1>1
<1>4. Msgs(Append(q, m)) = Msgs(q) \cup {m}
  BY <1>1, <1>2, <1>3 DEF Msgs
<1> QED BY <1>1, <1>4

LEMMA MsgsTail ==
  ASSUME NEW S, NEW q \in Seq(S), q # <<>>
  PROVE  /\ Tail(q) \in Seq(S) /\ Len(q) \in Nat \ {0} /\ Len(Tail(q)) = Len(q) - 1
         /\ Head(q) = q[1] /\ Head(q) \in S /\ Head(q) \in Msgs(q)
         /\ \A i \in 1 .. Len(Tail(q)) : i + 1 \in 1 .. Len(q) /\ Tail(q)[i] = q[i + 1]
         /\ Msgs(Tail(q)) \subseteq Msgs(q) /\ Msgs(q) \subseteq Msgs(Tail(q)) \cup {Head(q)}
<1>1. /\ Tail(q) \in Seq(S) /\ Len(q) \in Nat \ {0} /\ Len(Tail(q)) = Len(q) - 1
      /\ Head(q) = q[1] /\ Head(q) \in S
      /\ \A i \in 1 .. Len(Tail(q)) : Tail(q)[i] = q[i + 1]
  BY HeadTailProperties, EmptySeq
<1>2. 1 \in 1 .. Len(q) /\ \A i \in 1 .. Len(Tail(q)) : i + 1 \in 1 .. Len(q)
  BY <1>1
<1>3. \A i \in 1 .. Len(q) : i = 1 \/ (i - 1 \in 1 .. Len(Tail(q)) /\ (i - 1) + 1 = i)
  BY <1>1
<1>4. Msgs(Tail(q)) \subseteq Msgs(q) /\ Head(q) \in Msgs(q)
  BY <1>1, <1>2 DEF Msgs
<1>5. Msgs(q) \subseteq Msgs(Tail(q)) \cup {Head(q)}
  <2> SUFFICES ASSUME NEW i \in 1 .. Len(q) PROVE q[i] = q[1] \/ q[i] \in Msgs(Tail(q))
    BY <1>1 DEF Msgs
  <2>1. CASE i = 1
    BY <2>1
  <2>2. CASE i # 1
    <3>1. i - 1 \in 1 .. Len(Tail(q)) /\ Tail(q)[i - 1] = q[i]
      BY <1>1, <1>3, <2>2
    <3> QED BY <3>1 DEF Msgs
  <2> QED BY <2>1, <2>2
<1> QED BY <1>1, <1>2, <1>4, <1>5

LEMMA MsgsTyped ==
  ASSUME NEW S, NEW q \in Seq(S), NEW m \in Msgs(q)
  PROVE  m \in S
  BY ElementOfSeq DEF Msgs

(* A list without the record at position k.                                 *)
LEMMA RemoveAtProperties ==
  ASSUME NEW S, NEW q \in Seq(S), NEW k \in 1 .. Len(q)
  PROVE  /\ RemoveAt(q, k) \in Seq(S) /\ Len(RemoveAt(q, k)) = Len(q) - 1 /\ Len(q) \in Nat \ {0}
         /\ \A i \in 1 .. Len(q) - 1 : RemoveAt(q, k)[i] = IF i < k THEN q[i] ELSE q[i + 1]
<1> DEFINE front == SubSeq(q, 1, k - 1)
           back  == SubSeq(q, k + 1, Len(q))
<1>1. Len(q) \in Nat \ {0} /\ k \in Nat \ {0} /\ k <= Len(q)
  BY LenProperties
<1>2. \A i \in 1 .. k - 1 : q[i] \in S
  BY <1>1, ElementOfSeq
<1>3. \A i \in k + 1 .. Len(q) : q[i] \in S
  BY <1>1, ElementOfSeq
<1>4. /\ front \in Seq(S) /\ Len(front) = k - 1
      /\ \A i \in 1 .. k - 1 : front[i] = q[i]
  <2>1. /\ front \in Seq(S) /\ Len(front) = IF 1 <= k - 1 THEN (k - 1) - 1 + 1 ELSE 0
        /\ \A i \in 1 .. (k - 1) - 1 + 1 : front[i] = q[1 + i - 1]
    BY <1>1, <1>2, SubSeqProperties
  <2> QED BY <1>1, <2>1
<1>5. /\ back \in Seq(S) /\ Len(back) = Len(q) - k
      /\ \A i \in 1 .. Len(q) - k : back[i] = q[k + i]
  <2>1. /\ back \in Seq(S) /\ Len(back) = IF k + 1 <= Len(q) THEN Len(q) - (k + 1) + 1 ELSE 0
        /\ \A i \in 1 .. Len(q) - (k + 1) + 1 : back[i] = q[(k + 1) + i - 1]
    BY <1>1, <1>3, SubSeqProperties
  <2> QED BY <1>1, <2>1
<1> HIDE DEF front, back
<1>6. /\ front \o back \in Seq(S) /\ Len(front \o back) = Len(q) - 1
      /\ \A i \in 1 .. Len(q) - 1 : (front \o back)[i] = IF i <= k - 1 THEN front[i] ELSE back[i - (k - 1)]
  <2>1. /\ front \o back \in Seq(S) /\ Len(front \o back) = Len(front) + Len(back)
        /\ \A i \in 1 .. Len(front) + Len(back) :
             (front \o back)[i] = IF i <= Len(front) THEN front[i] ELSE back[i - Len(front)]
    BY <1>4, <1>5, ConcatProperties
  <2>2. Len(front) + Len(back) = Len(q) - 1
    BY <1>1, <1>4, <1>5
  <2> QED BY <1>4, <2>1, <2>2
<1>7. ASSUME NEW i \in 1 .. Len(q) - 1
      PROVE  (front \o back)[i] = IF i < k THEN q[i] ELSE q[i + 1]
  <2>1. CASE i < k
    BY <1>1, <1>4, <1>6, <2>1
  <2>2. CASE ~(i < k)
    <3>1. i - (k - 1) \in 1 .. Len(q) - k /\ k + (i - (k - 1)) = i + 1
      BY <1>1, <2>2
    <3> QED BY <1>1, <1>5, <1>6, <2>2, <3>1
  <2> QED BY <2>1, <2>2
<1> QED BY <1>1, <1>6, <1>7 DEF RemoveAt, front, back

----------------------------------------------------------------------------
(* The invariant.                                                           *)
SimMsg ==
    [cmd : {"tick"}] \cup [cmd : {"remBreak"}, id : Breaks]
    \cup [cmd : {"addBreak"}, id : Breaks, type : BreakType, time : Nat, rel : BOOLEAN]
    \cup [cmd : {"item"}, framed : BOOLEAN, time : Nat]
PyMsg ==
    [cmd : {"tock"}, time : Nat] \cup [cmd : {"shutdown"}]
    \cup [cmd : {"ackBreak", "hitBreak"}, id : Breaks, time : Nat]
BreakRec == [id : Breaks, type : BreakType, thresh : Nat, rel : BOOLEAN, ack : BOOLEAN, hit : BOOLEAN]

BreakSim == {"addBreak", "remBreak"}
BreakPy == {"ackBreak", "hitBreak"}

ChannelTypeOK ==
    /\ requests \subseteq Breaks /\ breaks \subseteq requests
    /\ thresh \in [Breaks -> Nat \cup {None}] /\ stopped \in [Breaks -> Nat \cup {None}]
    /\ toSim \in Seq(SimMsg) /\ toPy \in Seq(PyMsg) /\ breakList \in Seq(BreakRec)
    /\ nowAt \in Nat
    /\ phase \in {"hold", "stop", "finish", "idle", "finished", "exited"}
    /\ breakPoint \in Breaks \cup {None} /\ offset \in Nat \cup {None}
    /\ pos \in Nat /\ last \in Nat /\ now \in Nat

(* A Break is on its way to the list or in it; Python has let it go when it *)
(* is on its way out.  No queue holds more than one message to this end.    *)
AskedOnce == \A i, j \in 1 .. Len(toSim) :
    toSim[i].cmd \in BreakSim /\ toSim[j].cmd \in BreakSim /\ toSim[i].id = toSim[j].id => i = j
Asked == \A m \in Msgs(toSim) : m.cmd = "addBreak" =>
    /\ m.id \in breaks /\ thresh[m.id] = None /\ stopped[m.id] = None
    /\ \A x \in Msgs(breakList) : x.id # m.id
Dropped == \A m \in Msgs(toSim) : m.cmd = "remBreak" =>
    m.id \in requests \ breaks /\ \E x \in Msgs(breakList) : x.id = m.id
Present == \A b \in breaks :
    \/ \E m \in Msgs(toSim) : m.cmd = "addBreak" /\ m.id = b
    \/ \E x \in Msgs(breakList) : x.id = b

(* The Break of a frame holds, and what belongs to the frame is on its way  *)
(* before the end of that Break.                                            *)
FrameHeld == breakPoint # None =>
    /\ breakPoint \in breaks
    /\ \A m \in Msgs(toSim) : m.cmd = "addBreak" /\ m.id = breakPoint => m.type = "hold"
    /\ \A x \in Msgs(breakList) : x.id = breakPoint => x.type = "hold"
ItemAhead == \A i \in 1 .. Len(toSim) : toSim[i].cmd = "item" /\ toSim[i].framed =>
    \E x \in Msgs(breakList) :
        /\ x.type = "hold" /\ x.ack /\ x.thresh + Margin <= toSim[i].time
        /\ \A k \in 1 .. i - 1 : ~(toSim[k].cmd = "remBreak" /\ toSim[k].id = x.id)

ToSimInv == AskedOnce /\ Asked /\ Dropped /\ Present /\ FrameHeld /\ ItemAhead

(* An acknowledgement comes first, a hit after it, each once, and they say  *)
(* what the record in the list says.  Python waits for the first only.      *)
AckThenHit == \A i, j \in 1 .. Len(toPy) :
    i < j /\ toPy[i].cmd \in BreakPy /\ toPy[j].cmd \in BreakPy /\ toPy[i].id = toPy[j].id
    => toPy[i].cmd = "ackBreak" /\ toPy[j].cmd = "hitBreak"
AckOnWay == \A m \in Msgs(toPy) : m.cmd = "ackBreak" =>
    /\ m.id \in breaks /\ thresh[m.id] = None /\ stopped[m.id] = None
    /\ \E x \in Msgs(breakList) : x.id = m.id /\ x.ack /\ x.thresh = m.time
HitOnWay == \A m \in Msgs(toPy) : m.cmd = "hitBreak" =>
    /\ m.id \in requests /\ stopped[m.id] = None
    /\ m.id \in breaks => \E x \in Msgs(breakList) : x.id = m.id
    /\ \A x \in Msgs(breakList) : x.id = m.id =>
        /\ x.ack /\ x.hit
        /\ x.thresh <= m.time /\ m.time <= x.thresh + TickPeriod
        /\ x.type = "hold" => m.time = nowAt
HitAfterAck == \A i \in 1 .. Len(toPy) : toPy[i].cmd = "hitBreak" =>
    \/ thresh[toPy[i].id] # None
    \/ \E j \in 1 .. i - 1 : toPy[j].cmd = "ackBreak" /\ toPy[j].id = toPy[i].id

ToPyInv == AckThenHit /\ AckOnWay /\ HitOnWay /\ HitAfterAck

(* A record in the list: a promise is kept from the time it is given.       *)
Unchecked(type) ==
    \/ phase = "hold"
    \/ phase = "stop" /\ type \in {"stop", "finish"}
    \/ phase = "finish" /\ type = "finish"
RecordOK(x) ==
    /\ thresh[x.id] # None => x.ack /\ thresh[x.id] = x.thresh
    /\ stopped[x.id] # None => x.ack /\ x.hit /\ (x.type = "hold" => stopped[x.id] = nowAt)
    /\ x.hit => x.ack /\ (x.type = "hold" => phase = "hold" /\ x.thresh <= nowAt)
    /\ x.ack /\ (~x.hit \/ x.type = "hold") => nowAt <= x.thresh + TickPeriod
    /\ x.ack /\ ~x.hit /\ x.thresh < nowAt => Unchecked(x.type)
    /\ x.ack /\ phase # "exited" =>
         thresh[x.id] # None \/ \E m \in Msgs(toPy) : m.cmd = "ackBreak" /\ m.id = x.id

ListInv ==
    /\ \A i, j \in 1 .. Len(breakList) : breakList[i].id = breakList[j].id => i = j
    /\ \A x \in Msgs(breakList) : x.id \in requests /\ RecordOK(x)

(* What Python knows of its Breaks.                                         *)
KnownInv ==
    /\ \A b \in requests \ breaks : thresh[b] # None
    /\ \A b \in Breaks \ requests : thresh[b] = None /\ stopped[b] = None
    /\ PromiseKept

FrameOffset == offset # None =>
    /\ breakPoint # None /\ thresh[breakPoint] # None
    /\ thresh[breakPoint] + Margin <= offset /\ pos <= offset + last

(* The task ccRunCtrl runs, or has met the hit of a Break that was let go.  *)
Lives == ctrlRuns \/ ReleasedUnhit # {}

(* The inductive invariant.                                                 *)
ChannelInv ==
    /\ ChannelTypeOK
    /\ ToSimInv /\ ToPyInv /\ ListInv /\ KnownInv /\ FrameOffset
    /\ Lives
    /\ Margin >= TickPeriod => ItemsOnTime

LEMMA MsgFields ==
  /\ \A m \in SimMsg :
       /\ m.cmd \in {"tick", "addBreak", "remBreak", "item"}
       /\ m.cmd \in BreakSim => m.id \in Breaks
       /\ m.cmd = "addBreak" => m.type \in BreakType /\ m.time \in Nat /\ m.rel \in BOOLEAN
       /\ m.cmd = "item" => m.framed \in BOOLEAN /\ m.time \in Nat
  /\ \A m \in PyMsg :
       /\ m.cmd \in {"tock", "shutdown", "ackBreak", "hitBreak"}
       /\ m.cmd \in BreakPy => m.id \in Breaks /\ m.time \in Nat
       /\ m.cmd = "tock" => m.time \in Nat
<1>1. \A m \in SimMsg :
       /\ m.cmd \in {"tick", "addBreak", "remBreak", "item"}
       /\ m.cmd \in BreakSim => m.id \in Breaks
       /\ m.cmd = "addBreak" => m.type \in BreakType /\ m.time \in Nat /\ m.rel \in BOOLEAN
       /\ m.cmd = "item" => m.framed \in BOOLEAN /\ m.time \in Nat
  BY DEF SimMsg, BreakSim
<1>2. \A m \in PyMsg :
       /\ m.cmd \in {"tock", "shutdown", "ackBreak", "hitBreak"}
       /\ m.cmd \in BreakPy => m.id \in Breaks /\ m.time \in Nat
       /\ m.cmd = "tock" => m.time \in Nat
  BY DEF PyMsg, BreakPy
<1> QED BY <1>1, <1>2

LEMMA NoneApart == None \notin Nat /\ None \notin Breaks /\ TickPeriod \in Nat \ {0} /\ Margin \in Nat
  BY ControlAssumption, ChannelAssumption

LEMMA InitChannelInv == ChannelInit => ChannelInv
<1> SUFFICES ASSUME ChannelInit PROVE ChannelInv
  OBVIOUS
<1>1. /\ requests = {} /\ breaks = {} /\ breakList = <<>> /\ toPy = <<>> /\ toSim = <<[cmd |-> "tick"]>>
      /\ breakPoint = None /\ offset = None /\ ctrlRuns = TRUE /\ late = FALSE
      /\ thresh = [b \in Breaks |-> None] /\ stopped = [b \in Breaks |-> None]
  BY DEF ChannelInit, Init
<1>2. [cmd |-> "tick"] \in SimMsg
  BY DEF SimMsg
<1>3. toSim \in Seq(SimMsg) /\ Len(toSim) = 1 /\ toSim[1].cmd = "tick"
  BY <1>1, <1>2
<1>4. /\ toPy \in Seq(PyMsg) /\ Len(toPy) = 0 /\ Msgs(toPy) = {}
      /\ breakList \in Seq(BreakRec) /\ Len(breakList) = 0 /\ Msgs(breakList) = {}
  BY <1>1, EmptySeq DEF Msgs
<1>5. (\A i \in 1 .. Len(toSim) : toSim[i].cmd = "tick") /\ \A m \in Msgs(toSim) : m.cmd = "tick"
  BY <1>3 DEF Msgs
<1>6. ChannelTypeOK
  BY <1>1, <1>3, <1>4 DEF ChannelInit, Init, ChannelTypeOK
<1>7. ToSimInv
  BY <1>1, <1>5 DEF ToSimInv, AskedOnce, Asked, Dropped, Present, FrameHeld, ItemAhead, BreakSim
<1>8. ToPyInv /\ ListInv
  BY <1>4 DEF ToPyInv, AckThenHit, AckOnWay, HitOnWay, HitAfterAck, ListInv
<1>9. KnownInv /\ FrameOffset /\ Lives /\ ItemsOnTime
  BY <1>1 DEF KnownInv, PromiseKept, FrameOffset, Lives, ItemsOnTime
<1> QED BY <1>6, <1>7, <1>8, <1>9 DEF ChannelInv

----------------------------------------------------------------------------
(* A message that is about no Break comes or goes.                          *)
LEMMA ToSimTail ==
  ASSUME ChannelTypeOK, ToSimInv, toSim # <<>>, toSim' = Tail(toSim),
         Head(toSim).cmd \notin BreakSim,
         UNCHANGED <<requests, breaks, thresh, stopped, breakList, breakPoint>>
  PROVE  ToSimInv'
<1>1. toSim \in Seq(SimMsg)
  BY DEF ChannelTypeOK
<1>2. /\ Len(toSim) \in Nat \ {0} /\ Len(toSim') = Len(toSim) - 1
      /\ \A i \in 1 .. Len(toSim') : i + 1 \in 1 .. Len(toSim) /\ toSim'[i] = toSim[i + 1]
      /\ Msgs(toSim') \subseteq Msgs(toSim) /\ Msgs(toSim) \subseteq Msgs(toSim') \cup {Head(toSim)}
  BY <1>1, MsgsTail
<1>3. AskedOnce'
  <2> SUFFICES ASSUME NEW i \in 1 .. Len(toSim'), NEW j \in 1 .. Len(toSim'),
                      toSim'[i].cmd \in BreakSim, toSim'[j].cmd \in BreakSim, toSim'[i].id = toSim'[j].id
               PROVE  i = j
    BY DEF AskedOnce
  <2>1. i + 1 = j + 1
    BY <1>2 DEF ToSimInv, AskedOnce
  <2> QED BY <2>1
<1>4. Asked' /\ Dropped'
  BY <1>2 DEF ToSimInv, Asked, Dropped
<1>5. Present'
  <2>1. \A b \in breaks : (\E m \in Msgs(toSim) : m.cmd = "addBreak" /\ m.id = b)
                          => \E m \in Msgs(toSim') : m.cmd = "addBreak" /\ m.id = b
    BY <1>2 DEF BreakSim
  <2> QED BY <2>1 DEF ToSimInv, Present
<1>6. FrameHeld'
  BY <1>2 DEF ToSimInv, FrameHeld
<1>7. ItemAhead'
  <2> SUFFICES ASSUME NEW i \in 1 .. Len(toSim'), toSim'[i].cmd = "item", toSim'[i].framed
               PROVE  \E x \in Msgs(breakList') :
                        /\ x.type = "hold" /\ x.ack /\ x.thresh + Margin <= toSim'[i].time
                        /\ \A k \in 1 .. i - 1 : ~(toSim'[k].cmd = "remBreak" /\ toSim'[k].id = x.id)
    BY DEF ItemAhead
  <2>1. PICK x \in Msgs(breakList) :
          /\ x.type = "hold" /\ x.ack /\ x.thresh + Margin <= toSim[i + 1].time
          /\ \A k \in 1 .. (i + 1) - 1 : ~(toSim[k].cmd = "remBreak" /\ toSim[k].id = x.id)
    BY <1>2 DEF ToSimInv, ItemAhead
  <2>2. \A k \in 1 .. i - 1 : k \in 1 .. Len(toSim') /\ k + 1 \in 1 .. (i + 1) - 1
    BY <1>2
  <2>3. \A k \in 1 .. i - 1 : ~(toSim'[k].cmd = "remBreak" /\ toSim'[k].id = x.id)
    BY <1>2, <2>1, <2>2
  <2> QED BY <1>2, <2>1, <2>3
<1> QED BY <1>3, <1>4, <1>5, <1>6, <1>7 DEF ToSimInv

LEMMA ToSimAppend ==
  ASSUME ChannelTypeOK, ToSimInv, NEW m \in SimMsg, toSim' = Append(toSim, m),
         m.cmd \notin BreakSim,
         m.cmd = "item" /\ m.framed =>
           \E x \in Msgs(breakList) :
             /\ x.type = "hold" /\ x.ack /\ x.thresh + Margin <= m.time
             /\ \A k \in 1 .. Len(toSim) : ~(toSim[k].cmd = "remBreak" /\ toSim[k].id = x.id),
         UNCHANGED <<requests, breaks, thresh, stopped, breakList, breakPoint>>
  PROVE  ToSimInv'
<1>1. toSim \in Seq(SimMsg)
  BY DEF ChannelTypeOK
<1>2. /\ Len(toSim) \in Nat /\ Len(toSim') = Len(toSim) + 1
      /\ \A i \in 1 .. Len(toSim) : toSim'[i] = toSim[i]
      /\ toSim'[Len(toSim) + 1] = m /\ Msgs(toSim') = Msgs(toSim) \cup {m}
      /\ \A i \in 1 .. Len(toSim') : i \in 1 .. Len(toSim) \/ i = Len(toSim) + 1
  BY <1>1, MsgsAppend
<1>3. AskedOnce'
  BY <1>2 DEF ToSimInv, AskedOnce
<1>4. Asked' /\ Dropped' /\ Present' /\ FrameHeld'
  BY <1>2 DEF ToSimInv, Asked, Dropped, Present, FrameHeld, BreakSim
<1>5. ItemAhead'
  <2> SUFFICES ASSUME NEW i \in 1 .. Len(toSim'), toSim'[i].cmd = "item", toSim'[i].framed
               PROVE  \E x \in Msgs(breakList) :
                        /\ x.type = "hold" /\ x.ack /\ x.thresh + Margin <= toSim'[i].time
                        /\ \A k \in 1 .. i - 1 : ~(toSim'[k].cmd = "remBreak" /\ toSim'[k].id = x.id)
    BY DEF ItemAhead
  <2>1. PICK x \in Msgs(breakList) :
          /\ x.type = "hold" /\ x.ack /\ x.thresh + Margin <= toSim'[i].time
          /\ \A k \in 1 .. i - 1 : ~(toSim[k].cmd = "remBreak" /\ toSim[k].id = x.id)
    <3>1. CASE i \in 1 .. Len(toSim)
      BY <1>2, <3>1 DEF ToSimInv, ItemAhead
    <3>2. CASE i = Len(toSim) + 1
      <4>1. i - 1 = Len(toSim) /\ toSim'[i] = m
        BY <1>2, <3>2
      <4> QED BY <4>1
    <3> QED BY <1>2, <3>1, <3>2
  <2>2. \A k \in 1 .. i - 1 : k \in 1 .. Len(toSim)
    BY <1>2
  <2> QED BY <1>2, <2>1, <2>2
<1> QED BY <1>3, <1>4, <1>5 DEF ToSimInv

(* Nothing is known, and nothing under way, of a Break not asked for yet.   *)
LEMMA NotAskedFor ==
  ASSUME ChannelInv, NEW b \in Breaks, b \notin requests
  PROVE  /\ b \notin breaks /\ thresh[b] = None /\ stopped[b] = None
         /\ \A m \in Msgs(toSim) : m.cmd \in BreakSim => m.id # b
         /\ \A m \in Msgs(toPy) : m.cmd \in BreakPy => m.id # b
         /\ \A x \in Msgs(breakList) : x.id # b
<1>1. breaks \subseteq requests
  BY DEF ChannelInv, ChannelTypeOK
<1>2. thresh[b] = None /\ stopped[b] = None
  BY DEF ChannelInv, KnownInv
<1>3. \A m \in Msgs(toSim) : m.cmd \in BreakSim => m.id # b
  BY <1>1 DEF ChannelInv, ToSimInv, Asked, Dropped, BreakSim
<1>4. \A m \in Msgs(toPy) : m.cmd \in BreakPy => m.id # b
  BY <1>1 DEF ChannelInv, ToPyInv, AckOnWay, HitOnWay, BreakPy
<1>5. \A x \in Msgs(breakList) : x.id # b
  BY DEF ChannelInv, ListInv
<1> QED BY <1>1, <1>2, <1>3, <1>4, <1>5

(* Request, by the user or as the start of a frame.                         *)
LEMMA RequestStep ==
  ASSUME ChannelInv, NEW b \in Breaks, NEW type \in BreakType, NEW time \in Nat, NEW rel \in BOOLEAN,
         Request(b, type, time, rel), UNCHANGED <<offset, pos, items, last, late>>,
         \/ breakPoint' = breakPoint
         \/ breakPoint = None /\ breakPoint' = b /\ type = "hold"
  PROVE  ChannelInv'
<1> DEFINE m == [cmd |-> "addBreak", id |-> b, type |-> type, time |-> time, rel |-> rel]
<1>1. /\ b \notin requests /\ requests' = requests \cup {b} /\ breaks' = breaks \cup {b}
      /\ toSim' = Append(toSim, m)
      /\ UNCHANGED <<thresh, stopped, now, ctrlRuns, toPy, nowAt, breakList, phase>>
  BY DEF Request, simVars
<1>2. m \in SimMsg
  BY DEF SimMsg
<1>3. m.cmd = "addBreak" /\ m.id = b /\ m.type = type
  OBVIOUS
<1> HIDE DEF m
<1>4. /\ toSim' \in Seq(SimMsg) /\ Len(toSim) \in Nat /\ Len(toSim') = Len(toSim) + 1
      /\ \A i \in 1 .. Len(toSim) : toSim'[i] = toSim[i] /\ toSim[i] \in Msgs(toSim)
      /\ toSim'[Len(toSim) + 1] = m /\ Msgs(toSim') = Msgs(toSim) \cup {m}
      /\ \A i \in 1 .. Len(toSim') : i \in 1 .. Len(toSim) \/ i = Len(toSim) + 1
  <2>1. toSim \in Seq(SimMsg)
    BY DEF ChannelInv, ChannelTypeOK
  <2>2. \A i \in 1 .. Len(toSim) : toSim[i] \in Msgs(toSim)
    BY DEF Msgs
  <2> QED BY <1>1, <1>2, <2>1, <2>2, MsgsAppend
<1>5. /\ b \notin breaks /\ thresh[b] = None /\ stopped[b] = None
      /\ \A n \in Msgs(toSim) : n.cmd \in BreakSim => n.id # b
      /\ \A n \in Msgs(toPy) : n.cmd \in BreakPy => n.id # b
      /\ \A x \in Msgs(breakList) : x.id # b
  BY <1>1, NotAskedFor
<1>6. ChannelTypeOK'
  BY <1>1, <1>4 DEF ChannelInv, ChannelTypeOK
<1>7. AskedOnce'
  <2>1. \A i \in 1 .. Len(toSim) : toSim[i].cmd \in BreakSim => toSim[i].id # b
    BY <1>4, <1>5
  <2> QED BY <1>3, <1>4, <2>1 DEF ChannelInv, ToSimInv, AskedOnce
<1>8. Asked' /\ Dropped'
  BY <1>1, <1>3, <1>4, <1>5 DEF ChannelInv, ToSimInv, Asked, Dropped, BreakSim
<1>9. Present'
  BY <1>1, <1>3, <1>4 DEF ChannelInv, ToSimInv, Present
<1>10. FrameHeld'
  <2>1. CASE breakPoint' = breakPoint
    <3>1. breakPoint # None => breakPoint # b
      BY <1>5 DEF ChannelInv, ToSimInv, FrameHeld
    <3> QED BY <1>1, <1>3, <1>4, <2>1, <3>1 DEF ChannelInv, ToSimInv, FrameHeld
  <2>2. CASE breakPoint' = b /\ type = "hold"
    BY <1>1, <1>3, <1>4, <1>5, <2>2 DEF FrameHeld, BreakSim
  <2> QED BY <2>1, <2>2
<1>11. ItemAhead'
  <2> SUFFICES ASSUME NEW i \in 1 .. Len(toSim'), toSim'[i].cmd = "item", toSim'[i].framed
               PROVE  \E x \in Msgs(breakList) :
                        /\ x.type = "hold" /\ x.ack /\ x.thresh + Margin <= toSim'[i].time
                        /\ \A k \in 1 .. i - 1 : ~(toSim'[k].cmd = "remBreak" /\ toSim'[k].id = x.id)
    BY <1>1 DEF ItemAhead
  <2>1. i \in 1 .. Len(toSim) /\ toSim'[i] = toSim[i]
    BY <1>3, <1>4
  <2>2. PICK x \in Msgs(breakList) :
          /\ x.type = "hold" /\ x.ack /\ x.thresh + Margin <= toSim'[i].time
          /\ \A k \in 1 .. i - 1 : ~(toSim[k].cmd = "remBreak" /\ toSim[k].id = x.id)
    BY <2>1 DEF ChannelInv, ToSimInv, ItemAhead
  <2>3. \A k \in 1 .. i - 1 : k \in 1 .. Len(toSim)
    BY <1>4, <2>1
  <2> QED BY <1>4, <2>2, <2>3
<1>12. ToPyInv'
  BY <1>1, <1>5 DEF ChannelInv, ToPyInv, AckThenHit, AckOnWay, HitOnWay, HitAfterAck, BreakPy
<1>13. ListInv'
  BY <1>1 DEF ChannelInv, ListInv, RecordOK, Unchecked
<1>14. KnownInv'
  BY <1>1 DEF ChannelInv, KnownInv, PromiseKept
<1>15. FrameOffset' /\ Lives' /\ (Margin >= TickPeriod => ItemsOnTime')
  BY <1>1 DEF ChannelInv, FrameOffset, ItemsOnTime, Lives, ReleasedUnhit
<1> QED BY <1>6, <1>7, <1>8, <1>9, <1>10, <1>11, <1>12, <1>13, <1>14, <1>15 DEF ChannelInv, ToSimInv

(* Release, by the user or at the end of a frame: only a Break that was     *)
(* promised its time, so that the simulator has a record of it.             *)
LEMMA ReleaseStep ==
  ASSUME ChannelInv, NEW b \in Breaks, Release(b), thresh[b] # None, UNCHANGED <<pos, items, late>>,
         \/ breakPoint' = breakPoint /\ b # breakPoint /\ UNCHANGED <<offset, last>>
         \/ breakPoint' = None /\ offset' = None /\ last' = 0
  PROVE  ChannelInv'
<1> DEFINE m == [cmd |-> "remBreak", id |-> b]
<1>1. /\ b \in breaks /\ breaks' = breaks \ {b} /\ toSim' = Append(toSim, m)
      /\ UNCHANGED <<requests, thresh, stopped, now, ctrlRuns, toPy, nowAt, breakList, phase>>
  BY DEF Release, simVars
<1>2. m \in SimMsg
  BY DEF SimMsg
<1>3. m.cmd = "remBreak" /\ m.id = b
  OBVIOUS
<1> HIDE DEF m
<1>4. /\ toSim' \in Seq(SimMsg) /\ Len(toSim) \in Nat /\ Len(toSim') = Len(toSim) + 1
      /\ \A i \in 1 .. Len(toSim) : toSim'[i] = toSim[i] /\ toSim[i] \in Msgs(toSim)
      /\ toSim'[Len(toSim) + 1] = m /\ Msgs(toSim') = Msgs(toSim) \cup {m}
      /\ \A i \in 1 .. Len(toSim') : i \in 1 .. Len(toSim) \/ i = Len(toSim) + 1
  <2>1. toSim \in Seq(SimMsg)
    BY DEF ChannelInv, ChannelTypeOK
  <2>2. \A i \in 1 .. Len(toSim) : toSim[i] \in Msgs(toSim)
    BY DEF Msgs
  <2> QED BY <1>1, <1>2, <2>1, <2>2, MsgsAppend
<1>5. /\ \A n \in Msgs(toSim) : n.cmd \in BreakSim => n.id # b
      /\ \A n \in Msgs(toPy) : n.cmd = "ackBreak" => n.id # b
      /\ \E x \in Msgs(breakList) : x.id = b
  <2>1. \A n \in Msgs(toSim) : n.cmd \in BreakSim => n.id # b
    BY <1>1 DEF ChannelInv, ToSimInv, Asked, Dropped, BreakSim
  <2>2. \A n \in Msgs(toPy) : n.cmd = "ackBreak" => n.id # b
    BY DEF ChannelInv, ToPyInv, AckOnWay
  <2>3. \E x \in Msgs(breakList) : x.id = b
    BY <1>1, <2>1 DEF ChannelInv, ToSimInv, Present, BreakSim
  <2> QED BY <2>1, <2>2, <2>3
<1>6. ChannelTypeOK'
  BY <1>1, <1>4 DEF ChannelInv, ChannelTypeOK
<1>7. AskedOnce'
  <2>1. \A i \in 1 .. Len(toSim) : toSim[i].cmd \in BreakSim => toSim[i].id # b
    BY <1>4, <1>5
  <2> QED BY <1>3, <1>4, <2>1 DEF ChannelInv, ToSimInv, AskedOnce
<1>8. Asked' /\ Dropped'
  <2>1. b \in requests
    BY <1>1 DEF ChannelInv, ChannelTypeOK
  <2> QED BY <1>1, <1>3, <1>4, <1>5, <2>1 DEF ChannelInv, ToSimInv, Asked, Dropped, BreakSim
<1>9. Present'
  BY <1>1, <1>3, <1>4 DEF ChannelInv, ToSimInv, Present
<1>10. FrameHeld'
  BY <1>1, <1>3, <1>4 DEF ChannelInv, ToSimInv, FrameHeld
<1>11. ItemAhead'
  <2> SUFFICES ASSUME NEW i \in 1 .. Len(toSim'), toSim'[i].cmd = "item", toSim'[i].framed
               PROVE  \E x \in Msgs(breakList) :
                        /\ x.type = "hold" /\ x.ack /\ x.thresh + Margin <= toSim'[i].time
                        /\ \A k \in 1 .. i - 1 : ~(toSim'[k].cmd = "remBreak" /\ toSim'[k].id = x.id)
    BY <1>1 DEF ItemAhead
  <2>1. i \in 1 .. Len(toSim) /\ toSim'[i] = toSim[i]
    BY <1>3, <1>4
  <2>2. PICK x \in Msgs(breakList) :
          /\ x.type = "hold" /\ x.ack /\ x.thresh + Margin <= toSim'[i].time
          /\ \A k \in 1 .. i - 1 : ~(toSim[k].cmd = "remBreak" /\ toSim[k].id = x.id)
    BY <2>1 DEF ChannelInv, ToSimInv, ItemAhead
  <2>3. \A k \in 1 .. i - 1 : k \in 1 .. Len(toSim)
    BY <1>4, <2>1
  <2> QED BY <1>4, <2>2, <2>3
<1>12. ToPyInv'
  BY <1>1, <1>5 DEF ChannelInv, ToPyInv, AckThenHit, AckOnWay, HitOnWay, HitAfterAck
<1>13. ListInv'
  BY <1>1 DEF ChannelInv, ListInv, RecordOK, Unchecked
<1>14. KnownInv'
  BY <1>1 DEF ChannelInv, KnownInv, PromiseKept
<1>15. FrameOffset' /\ Lives' /\ (Margin >= TickPeriod => ItemsOnTime')
  BY <1>1 DEF ChannelInv, FrameOffset, ItemsOnTime, Lives, ReleasedUnhit
<1> QED BY <1>6, <1>7, <1>8, <1>9, <1>10, <1>11, <1>12, <1>13, <1>14, <1>15 DEF ChannelInv, ToSimInv

LEMMA OneRecord ==
  ASSUME ListInv, NEW x \in Msgs(breakList), NEW y \in Msgs(breakList), x.id = y.id
  PROVE  x = y
  BY DEF ListInv, Msgs

LEMMA ToPyTail ==
  ASSUME ChannelTypeOK, ToPyInv, ListInv, toPy # <<>>, toPy' = Tail(toPy),
         Head(toPy).cmd \notin BreakPy,
         UNCHANGED <<requests, breaks, thresh, stopped, breakList, nowAt, phase>>
  PROVE  ToPyInv' /\ ListInv'
<1>1. toPy \in Seq(PyMsg)
  BY DEF ChannelTypeOK
<1>2. /\ Len(toPy) \in Nat \ {0} /\ Len(toPy') = Len(toPy) - 1 /\ Head(toPy) = toPy[1]
      /\ \A i \in 1 .. Len(toPy') : i + 1 \in 1 .. Len(toPy) /\ toPy'[i] = toPy[i + 1]
      /\ Msgs(toPy') \subseteq Msgs(toPy) /\ Msgs(toPy) \subseteq Msgs(toPy') \cup {Head(toPy)}
  BY <1>1, MsgsTail
<1>3. AckThenHit'
  <2> SUFFICES ASSUME NEW i \in 1 .. Len(toPy'), NEW j \in 1 .. Len(toPy'), i < j,
                      toPy'[i].cmd \in BreakPy, toPy'[j].cmd \in BreakPy, toPy'[i].id = toPy'[j].id
               PROVE  toPy'[i].cmd = "ackBreak" /\ toPy'[j].cmd = "hitBreak"
    BY DEF AckThenHit
  <2>1. i + 1 \in 1 .. Len(toPy) /\ j + 1 \in 1 .. Len(toPy) /\ i + 1 < j + 1
    BY <1>2
  <2> QED BY <1>2, <2>1 DEF ToPyInv, AckThenHit
<1>4. AckOnWay' /\ HitOnWay'
  BY <1>2 DEF ToPyInv, AckOnWay, HitOnWay
<1>5. HitAfterAck'
  <2> SUFFICES ASSUME NEW i \in 1 .. Len(toPy'), toPy'[i].cmd = "hitBreak", thresh[toPy'[i].id] = None
               PROVE  \E j \in 1 .. i - 1 : toPy'[j].cmd = "ackBreak" /\ toPy'[j].id = toPy'[i].id
    BY DEF HitAfterAck
  <2>1. i + 1 \in 1 .. Len(toPy) /\ toPy'[i] = toPy[i + 1]
    BY <1>2
  <2>2. PICK j \in 1 .. (i + 1) - 1 : toPy[j].cmd = "ackBreak" /\ toPy[j].id = toPy[i + 1].id
    BY <2>1 DEF ToPyInv, HitAfterAck
  <2>3. j # 1
    BY <1>2, <2>2 DEF BreakPy
  <2>4. j - 1 \in 1 .. i - 1 /\ j - 1 \in 1 .. Len(toPy') /\ (j - 1) + 1 = j
    BY <1>2, <2>3
  <2>5. toPy'[j - 1] = toPy[j]
    BY <1>2, <2>4
  <2> QED BY <2>1, <2>2, <2>4, <2>5
<1>6. ListInv'
  <2>1. \A b \in Breaks : (\E m \in Msgs(toPy) : m.cmd = "ackBreak" /\ m.id = b)
                          => \E m \in Msgs(toPy') : m.cmd = "ackBreak" /\ m.id = b
    BY <1>2 DEF BreakPy
  <2>2. \A x \in Msgs(breakList) : x.id \in Breaks
    BY DEF ListInv, ChannelTypeOK
  <2>3. ASSUME NEW x \in Msgs(breakList) PROVE RecordOK(x)'
    <3>1. RecordOK(x)
      BY DEF ListInv
    <3> QED BY <2>1, <2>2, <3>1 DEF RecordOK, Unchecked
  <2> QED BY <2>3 DEF ListInv
<1> QED BY <1>3, <1>4, <1>5, <1>6 DEF ToPyInv

LEMMA ToPyAppend ==
  ASSUME ChannelTypeOK, ToPyInv, ListInv, NEW m \in PyMsg, toPy' = Append(toPy, m),
         m.cmd \notin BreakPy,
         UNCHANGED <<requests, breaks, thresh, stopped, breakList, nowAt, phase>>
  PROVE  ToPyInv' /\ ListInv'
<1>1. toPy \in Seq(PyMsg)
  BY DEF ChannelTypeOK
<1>2. /\ Len(toPy) \in Nat /\ Len(toPy') = Len(toPy) + 1
      /\ \A i \in 1 .. Len(toPy) : toPy'[i] = toPy[i]
      /\ toPy'[Len(toPy) + 1] = m /\ Msgs(toPy') = Msgs(toPy) \cup {m}
      /\ \A i \in 1 .. Len(toPy') : i \in 1 .. Len(toPy) \/ i = Len(toPy) + 1
  BY <1>1, MsgsAppend
<1>3. AckThenHit'
  BY <1>2 DEF ToPyInv, AckThenHit
<1>4. AckOnWay' /\ HitOnWay'
  BY <1>2 DEF ToPyInv, AckOnWay, HitOnWay, BreakPy
<1>5. HitAfterAck'
  <2> SUFFICES ASSUME NEW i \in 1 .. Len(toPy'), toPy'[i].cmd = "hitBreak", thresh[toPy'[i].id] = None
               PROVE  \E j \in 1 .. i - 1 : toPy'[j].cmd = "ackBreak" /\ toPy'[j].id = toPy'[i].id
    BY DEF HitAfterAck
  <2>1. i \in 1 .. Len(toPy) /\ toPy'[i] = toPy[i]
    BY <1>2 DEF BreakPy
  <2>2. PICK j \in 1 .. i - 1 : toPy[j].cmd = "ackBreak" /\ toPy[j].id = toPy[i].id
    BY <2>1 DEF ToPyInv, HitAfterAck
  <2>3. j \in 1 .. Len(toPy)
    BY <1>2, <2>1
  <2> QED BY <1>2, <2>1, <2>2, <2>3
<1>6. ListInv'
  <2>1. ASSUME NEW x \in Msgs(breakList) PROVE RecordOK(x)'
    <3>1. RecordOK(x)
      BY DEF ListInv
    <3> QED BY <1>2, <3>1 DEF RecordOK, Unchecked
  <2> QED BY <2>1 DEF ListInv
<1> QED BY <1>3, <1>4, <1>5, <1>6 DEF ToPyInv

----------------------------------------------------------------------------
(* The task of the Channel.                                                 *)
LEMMA PromisedStep ==
  ASSUME ChannelInv, Promised
  PROVE  ChannelInv'
<1>1. /\ breakPoint # None /\ thresh[breakPoint] # None
      /\ offset' = Later(thresh[breakPoint] + Margin, pos)
      /\ UNCHANGED <<vars, breakPoint, pos, items, last, late>>
  BY DEF Promised
<1>2. /\ UNCHANGED <<requests, breaks, thresh, stopped, now, ctrlRuns, toSim, toPy, nowAt, breakList, phase>>
      /\ UNCHANGED <<breakPoint, pos, last, late>>
  BY <1>1 DEF vars, pyVars, breakVars, simVars
<1>3. thresh[breakPoint] \in Nat /\ pos \in Nat /\ last \in Nat /\ Margin \in Nat
  BY <1>1, NoneApart DEF ChannelInv, ChannelTypeOK
<1>4. offset' \in Nat /\ thresh[breakPoint] + Margin <= offset' /\ pos <= offset' + last
  BY <1>1, <1>3 DEF Later
<1>5. ChannelTypeOK'
  BY <1>2, <1>4 DEF ChannelInv, ChannelTypeOK
<1>6. ToSimInv'
  BY <1>2 DEF ChannelInv, ToSimInv, AskedOnce, Asked, Dropped, Present, FrameHeld, ItemAhead
<1>7. ToPyInv'
  BY <1>2 DEF ChannelInv, ToPyInv, AckThenHit, AckOnWay, HitOnWay, HitAfterAck
<1>8. ListInv'
  BY <1>2 DEF ChannelInv, ListInv, RecordOK, Unchecked
<1>9. KnownInv' /\ Lives' /\ (Margin >= TickPeriod => ItemsOnTime')
  BY <1>2 DEF ChannelInv, KnownInv, PromiseKept, ItemsOnTime, Lives, ReleasedUnhit
<1>10. FrameOffset'
  BY <1>1, <1>2, <1>4 DEF FrameOffset
<1> QED BY <1>5, <1>6, <1>7, <1>8, <1>9, <1>10 DEF ChannelInv

LEMMA SendItemStep ==
  ASSUME ChannelInv, NEW time \in Nat, SendItem(time)
  PROVE  ChannelInv' /\ pos' >= pos
<1>1. /\ UNCHANGED <<requests, breaks, thresh, stopped, now, ctrlRuns, toPy, nowAt, breakList, phase>>
      /\ UNCHANGED <<breakPoint, offset, late>>
      /\ last <= time /\ last' = IF offset # None THEN time ELSE 0
  BY DEF SendItem, pyVars, breakVars, simVars
<1>2. /\ pos \in Nat /\ last \in Nat /\ Margin \in Nat /\ (offset # None => offset \in Nat)
      /\ toSim \in Seq(SimMsg)
  BY NoneApart DEF ChannelInv, ChannelTypeOK
<1>3. \E m \in SimMsg :
        /\ toSim' = Append(toSim, m) /\ m.cmd = "item" /\ (m.framed => offset # None /\ m.time = offset + time)
  <2>1. CASE offset # None
    <3> DEFINE m == [cmd |-> "item", framed |-> TRUE, time |-> offset + time]
    <3>1. m \in SimMsg
      BY <1>2, <2>1 DEF SimMsg
    <3>2. toSim' = Append(toSim, m)
      BY <2>1 DEF SendItem
    <3> QED BY <2>1, <3>1, <3>2
  <2>2. CASE offset = None
    <3> DEFINE m == [cmd |-> "item", framed |-> FALSE, time |-> time]
    <3>1. m \in SimMsg
      BY DEF SimMsg
    <3>2. toSim' = Append(toSim, m)
      BY <2>2 DEF SendItem
    <3> QED BY <3>1, <3>2
  <2> QED BY <2>1, <2>2
<1>4. PICK m \in SimMsg :
        toSim' = Append(toSim, m) /\ m.cmd = "item" /\ (m.framed => offset # None /\ m.time = offset + time)
  BY <1>3
<1>5. offset # None =>
        \E x \in Msgs(breakList) :
          /\ x.type = "hold" /\ x.ack /\ x.thresh + Margin <= offset + time
          /\ \A k \in 1 .. Len(toSim) : ~(toSim[k].cmd = "remBreak" /\ toSim[k].id = x.id)
  <2> SUFFICES ASSUME offset # None
               PROVE  \E x \in Msgs(breakList) :
                        /\ x.type = "hold" /\ x.ack /\ x.thresh + Margin <= offset + time
                        /\ \A k \in 1 .. Len(toSim) : ~(toSim[k].cmd = "remBreak" /\ toSim[k].id = x.id)
    OBVIOUS
  <2>1. /\ breakPoint # None /\ thresh[breakPoint] # None /\ thresh[breakPoint] + Margin <= offset
        /\ breakPoint \in breaks
    BY DEF ChannelInv, FrameOffset, ToSimInv, FrameHeld
  <2>2. PICK x \in Msgs(breakList) : x.id = breakPoint
    BY <2>1 DEF ChannelInv, ToSimInv, Present, Asked
  <2>3. x.type = "hold" /\ x.ack /\ thresh[breakPoint] = x.thresh
    BY <2>1, <2>2 DEF ChannelInv, ToSimInv, FrameHeld, ListInv, RecordOK
  <2>4. x.thresh \in Nat
    BY <2>1, <2>3, NoneApart DEF ChannelInv, ChannelTypeOK
  <2>5. x.thresh + Margin <= offset + time
    BY <1>2, <2>1, <2>3, <2>4
  <2>6. \A k \in 1 .. Len(toSim) : ~(toSim[k].cmd = "remBreak" /\ toSim[k].id = x.id)
    BY <2>1, <2>2 DEF ChannelInv, ToSimInv, Dropped, Msgs
  <2> QED BY <2>3, <2>5, <2>6
<1>6. ToSimInv'
  <2>1. m.cmd \notin BreakSim
    BY <1>4 DEF BreakSim
  <2> QED BY <1>1, <1>4, <1>5, <2>1, ToSimAppend DEF ChannelInv
<1>7. pos' \in Nat /\ pos' >= pos /\ (offset # None => pos' = offset + time)
  <2>1. CASE offset # None
    <3>1. pos' = offset + time /\ pos <= offset + last
      BY <2>1 DEF SendItem, ChannelInv, FrameOffset
    <3> QED BY <1>1, <1>2, <2>1, <3>1
  <2>2. CASE offset = None
    <3>1. pos' = pos
      BY <2>2 DEF SendItem
    <3> QED BY <1>2, <2>2, <3>1
  <2> QED BY <2>1, <2>2
<1>8. toSim' \in Seq(SimMsg) /\ last' \in Nat
  BY <1>1, <1>2, <1>4, AppendProperties
<1>9. ChannelTypeOK'
  BY <1>1, <1>7, <1>8 DEF ChannelInv, ChannelTypeOK
<1>10. ToPyInv'
  BY <1>1 DEF ChannelInv, ToPyInv, AckThenHit, AckOnWay, HitOnWay, HitAfterAck
<1>11. ListInv'
  BY <1>1 DEF ChannelInv, ListInv, RecordOK, Unchecked
<1>12. KnownInv' /\ Lives' /\ (Margin >= TickPeriod => ItemsOnTime')
  BY <1>1 DEF ChannelInv, KnownInv, PromiseKept, ItemsOnTime, Lives, ReleasedUnhit
<1>13. FrameOffset'
  BY <1>1, <1>2, <1>7 DEF ChannelInv, FrameOffset
<1> QED BY <1>6, <1>7, <1>9, <1>10, <1>11, <1>12, <1>13 DEF ChannelInv

----------------------------------------------------------------------------
(* An item reaches its channel: the hold of its frame is still in the list, *)
(* so that the simulation is at most a tick after the time promised.        *)
LEMMA DispatchStep ==
  ASSUME ChannelInv, Dispatch
  PROVE  ChannelInv'
<1>1. /\ toSim # <<>> /\ Head(toSim).cmd = "item" /\ toSim' = Tail(toSim)
      /\ late' = (late \/ (Head(toSim).framed /\ Head(toSim).time < nowAt))
      /\ UNCHANGED <<requests, breaks, thresh, stopped, now, ctrlRuns, toPy, nowAt, breakList, phase>>
      /\ UNCHANGED <<breakPoint, offset, pos, last>>
  BY DEF Dispatch, pyVars, breakVars, simVars, channelVars
<1>2. /\ toSim \in Seq(SimMsg) /\ nowAt \in Nat /\ breakList \in Seq(BreakRec)
  BY DEF ChannelInv, ChannelTypeOK
<1>3. Head(toSim) = toSim[1] /\ Len(toSim) \in Nat \ {0} /\ Head(toSim) \in SimMsg /\ toSim' \in Seq(SimMsg)
  BY <1>1, <1>2, MsgsTail
<1>4. Margin >= TickPeriod => ~(Head(toSim).framed /\ Head(toSim).time < nowAt)
  <2> SUFFICES ASSUME Margin >= TickPeriod, Head(toSim).framed PROVE ~(Head(toSim).time < nowAt)
    OBVIOUS
  <2>1. PICK x \in Msgs(breakList) : x.type = "hold" /\ x.ack /\ x.thresh + Margin <= toSim[1].time
    BY <1>1, <1>3 DEF ChannelInv, ToSimInv, ItemAhead
  <2>2. nowAt <= x.thresh + TickPeriod
    BY <2>1 DEF ChannelInv, ListInv, RecordOK
  <2>3. x \in BreakRec
    BY <1>2, MsgsTyped
  <2>4. x.thresh \in Nat
    BY <2>3 DEF BreakRec
  <2>5. Head(toSim).time \in Nat
    BY <1>1, <1>3, MsgFields
  <2> QED BY <1>2, <1>3, <2>1, <2>2, <2>4, <2>5, NoneApart
<1>5. ToSimInv'
  <2>1. Head(toSim).cmd \notin BreakSim
    BY <1>1 DEF BreakSim
  <2> QED BY <1>1, <2>1, ToSimTail DEF ChannelInv
<1>6. ChannelTypeOK'
  BY <1>1, <1>3 DEF ChannelInv, ChannelTypeOK
<1>7. ToPyInv'
  BY <1>1 DEF ChannelInv, ToPyInv, AckThenHit, AckOnWay, HitOnWay, HitAfterAck
<1>8. ListInv'
  BY <1>1 DEF ChannelInv, ListInv, RecordOK, Unchecked
<1>9. KnownInv' /\ Lives' /\ FrameOffset'
  BY <1>1 DEF ChannelInv, KnownInv, PromiseKept, FrameOffset, Lives, ReleasedUnhit
<1>10. (Margin >= TickPeriod => ItemsOnTime')
  BY <1>1, <1>4 DEF ChannelInv, ItemsOnTime
<1> QED BY <1>5, <1>6, <1>7, <1>8, <1>9, <1>10 DEF ChannelInv

----------------------------------------------------------------------------
(* The command processor of Python.                                         *)
LEMMA TockStep ==
  ASSUME ChannelInv, toPy # <<>>, toPy' = Tail(toPy), ProcessTock(Head(toPy)),
         UNCHANGED <<requests, breaks, waitThresh, simVars>>, UNCHANGED <<channelVars, late>>
  PROVE  ChannelInv'
<1>1. /\ Head(toPy).cmd = "tock" /\ now' = Head(toPy).time /\ toSim' = Append(toSim, [cmd |-> "tick"])
      /\ UNCHANGED <<requests, breaks, thresh, stopped, ctrlRuns, nowAt, breakList, phase>>
      /\ UNCHANGED <<breakPoint, offset, pos, last, late>>
  BY DEF ProcessTock, simVars, channelVars
<1>2. toPy \in Seq(PyMsg) /\ toSim \in Seq(SimMsg)
  BY DEF ChannelInv, ChannelTypeOK
<1>3. toPy' \in Seq(PyMsg) /\ Head(toPy) \in PyMsg
  BY <1>2, MsgsTail
<1>4. [cmd |-> "tick"] \in SimMsg /\ [cmd |-> "tick"].cmd = "tick"
  BY DEF SimMsg
<1>5. toSim' \in Seq(SimMsg)
  BY <1>1, <1>2, <1>4, AppendProperties
<1>6. now' \in Nat
  BY <1>1, <1>3, MsgFields
<1>7. ChannelTypeOK'
  BY <1>1, <1>3, <1>5, <1>6 DEF ChannelInv, ChannelTypeOK
<1>8. ToSimInv'
  <2>1. \A m \in SimMsg : m.cmd = "tick" => m.cmd \notin BreakSim /\ m.cmd # "item"
    BY DEF BreakSim
  <2> QED BY <1>1, <1>4, <2>1, ToSimAppend DEF ChannelInv
<1>9. ToPyInv' /\ ListInv'
  <2>1. Head(toPy).cmd \notin BreakPy
    BY <1>1 DEF BreakPy
  <2> QED BY <1>1, <2>1, ToPyTail DEF ChannelInv
<1>10. KnownInv' /\ Lives' /\ FrameOffset' /\ (Margin >= TickPeriod => ItemsOnTime')
  BY <1>1 DEF ChannelInv, KnownInv, PromiseKept, FrameOffset, ItemsOnTime, Lives, ReleasedUnhit
<1> QED BY <1>7, <1>8, <1>9, <1>10 DEF ChannelInv

LEMMA ShutdownStep ==
  ASSUME ChannelInv, toPy # <<>>, toPy' = Tail(toPy), ProcessShutdown(Head(toPy)),
         UNCHANGED <<requests, breaks, waitThresh, simVars>>, UNCHANGED <<channelVars, late>>
  PROVE  ChannelInv'
<1>1. /\ Head(toPy).cmd = "shutdown"
      /\ UNCHANGED <<requests, breaks, thresh, stopped, ctrlRuns, now, toSim, nowAt, breakList, phase>>
      /\ UNCHANGED <<breakPoint, offset, pos, last, late>>
  BY DEF ProcessShutdown, simVars, channelVars
<1>2. toPy' \in Seq(PyMsg)
  BY MsgsTail DEF ChannelInv, ChannelTypeOK
<1>3. ChannelTypeOK'
  BY <1>1, <1>2 DEF ChannelInv, ChannelTypeOK
<1>4. ToSimInv'
  BY <1>1 DEF ChannelInv, ToSimInv, AskedOnce, Asked, Dropped, Present, FrameHeld, ItemAhead
<1>5. ToPyInv' /\ ListInv'
  <2>1. Head(toPy).cmd \notin BreakPy
    BY <1>1 DEF BreakPy
  <2> QED BY <1>1, <2>1, ToPyTail DEF ChannelInv
<1>6. KnownInv' /\ Lives' /\ FrameOffset' /\ (Margin >= TickPeriod => ItemsOnTime')
  BY <1>1 DEF ChannelInv, KnownInv, PromiseKept, FrameOffset, ItemsOnTime, Lives, ReleasedUnhit
<1> QED BY <1>3, <1>4, <1>5, <1>6 DEF ChannelInv

(* The acknowledgement is the last one of its Break, which is known.        *)
LEMMA AckStep ==
  ASSUME ChannelInv, toPy # <<>>, toPy' = Tail(toPy), ProcessAck(Head(toPy)),
         UNCHANGED <<requests, breaks, waitThresh, simVars>>, UNCHANGED <<channelVars, late>>
  PROVE  ChannelInv'
<1> DEFINE m == Head(toPy)
           b == m.id
<1>1. /\ m.cmd = "ackBreak"
      /\ UNCHANGED <<requests, breaks, stopped, now, toSim, nowAt, breakList, phase>>
      /\ UNCHANGED <<breakPoint, offset, pos, last, late>>
  BY DEF ProcessAck, simVars, channelVars
<1>2. /\ toPy \in Seq(PyMsg) /\ thresh \in [Breaks -> Nat \cup {None}] /\ breakList \in Seq(BreakRec)
      /\ breaks \subseteq requests
  BY DEF ChannelInv, ChannelTypeOK
<1>3. /\ toPy' \in Seq(PyMsg) /\ Len(toPy) \in Nat \ {0} /\ Len(toPy') = Len(toPy) - 1
      /\ m = toPy[1] /\ m \in PyMsg /\ m \in Msgs(toPy)
      /\ \A i \in 1 .. Len(toPy') : i + 1 \in 1 .. Len(toPy) /\ toPy'[i] = toPy[i + 1]
      /\ Msgs(toPy') \subseteq Msgs(toPy) /\ Msgs(toPy) \subseteq Msgs(toPy') \cup {m}
  BY <1>2, MsgsTail
<1>4. b \in Breaks /\ m.time \in Nat /\ m.time # None
  BY <1>1, <1>3, MsgFields, NoneApart DEF BreakPy
<1>5. /\ b \in breaks /\ thresh[b] = None /\ stopped[b] = None
      /\ \E x \in Msgs(breakList) : x.id = b /\ x.ack /\ x.thresh = m.time
  BY <1>1, <1>3 DEF ChannelInv, ToPyInv, AckOnWay
<1>6. /\ thresh' = [thresh EXCEPT ![b] = m.time] /\ ctrlRuns' = ctrlRuns
  BY <1>5 DEF ProcessAck
<1> HIDE DEF m
<1> HIDE DEF b
<1>7. thresh' \in [Breaks -> Nat \cup {None}] /\ thresh'[b] = m.time
      /\ \A c \in Breaks : c # b => thresh'[c] = thresh[c]
  BY <1>2, <1>4, <1>6
<1>8. \A i \in 1 .. Len(toPy') : toPy'[i].cmd \in BreakPy /\ toPy'[i].id = b => toPy'[i].cmd = "hitBreak"
  <2> SUFFICES ASSUME NEW i \in 1 .. Len(toPy'), toPy'[i].cmd \in BreakPy, toPy'[i].id = b
               PROVE  toPy'[i].cmd = "hitBreak"
    OBVIOUS
  <2>1. 1 \in 1 .. Len(toPy) /\ i + 1 \in 1 .. Len(toPy) /\ 1 < i + 1 /\ toPy'[i] = toPy[i + 1]
    BY <1>3
  <2> QED BY <1>1, <1>3, <2>1 DEF ChannelInv, ToPyInv, AckThenHit, BreakPy, b
<1>9. \A n \in Msgs(toPy') : n.cmd = "ackBreak" => n.id # b
  BY <1>8 DEF Msgs, BreakPy
<1>10. \A n \in Msgs(toSim) : n.cmd = "addBreak" => n.id # b
  BY <1>5 DEF ChannelInv, ToSimInv, Asked
<1>11. \A x \in Msgs(breakList) : x.id \in Breaks
  <2>1. \A x \in Msgs(breakList) : x \in BreakRec
    BY <1>2, MsgsTyped
  <2> QED BY <2>1 DEF BreakRec
<1>12. ChannelTypeOK'
  BY <1>1, <1>3, <1>7 DEF ChannelInv, ChannelTypeOK
<1>13. ToSimInv'
  <2>1. Asked'
    <3>1. \A n \in Msgs(toSim) : n.cmd = "addBreak" => n.id \in Breaks
      BY DEF ChannelInv, ToSimInv, Asked, ChannelTypeOK
    <3> QED BY <1>1, <1>7, <1>10, <3>1 DEF ChannelInv, ToSimInv, Asked
  <2> QED BY <1>1, <2>1 DEF ChannelInv, ToSimInv, AskedOnce, Dropped, Present, FrameHeld, ItemAhead
<1>14. AckThenHit'
  <2> SUFFICES ASSUME NEW i \in 1 .. Len(toPy'), NEW j \in 1 .. Len(toPy'), i < j,
                      toPy'[i].cmd \in BreakPy, toPy'[j].cmd \in BreakPy, toPy'[i].id = toPy'[j].id
               PROVE  toPy'[i].cmd = "ackBreak" /\ toPy'[j].cmd = "hitBreak"
    BY DEF AckThenHit
  <2>1. i + 1 \in 1 .. Len(toPy) /\ j + 1 \in 1 .. Len(toPy) /\ i + 1 < j + 1
    BY <1>3
  <2> QED BY <1>3, <2>1 DEF ChannelInv, ToPyInv, AckThenHit
<1>15. AckOnWay'
  <2>1. \A n \in Msgs(toPy') : n.cmd = "ackBreak" => n.id \in Breaks
    BY <1>3, MsgsTyped, MsgFields DEF BreakPy
  <2> QED BY <1>1, <1>3, <1>7, <1>9, <2>1 DEF ChannelInv, ToPyInv, AckOnWay
<1>16. HitOnWay'
  BY <1>1, <1>3 DEF ChannelInv, ToPyInv, HitOnWay
<1>17. HitAfterAck'
  <2> SUFFICES ASSUME NEW i \in 1 .. Len(toPy'), toPy'[i].cmd = "hitBreak", thresh'[toPy'[i].id] = None
               PROVE  \E j \in 1 .. i - 1 : toPy'[j].cmd = "ackBreak" /\ toPy'[j].id = toPy'[i].id
    BY DEF HitAfterAck
  <2>1. i + 1 \in 1 .. Len(toPy) /\ toPy'[i] = toPy[i + 1] /\ toPy'[i] \in PyMsg
    BY <1>3, ElementOfSeq
  <2>2. toPy'[i].id \in Breaks /\ toPy'[i].id # b
    BY <1>4, <1>7, <2>1, MsgFields DEF BreakPy
  <2>3. thresh[toPy[i + 1].id] = None
    BY <1>7, <2>1, <2>2
  <2>4. PICK j \in 1 .. (i + 1) - 1 : toPy[j].cmd = "ackBreak" /\ toPy[j].id = toPy[i + 1].id
    BY <2>1, <2>3 DEF ChannelInv, ToPyInv, HitAfterAck
  <2>5. j # 1
    BY <1>3, <2>1, <2>2, <2>4 DEF b
  <2>6. j - 1 \in 1 .. i - 1 /\ j - 1 \in 1 .. Len(toPy') /\ (j - 1) + 1 = j
    BY <1>3, <2>5
  <2>7. toPy'[j - 1] = toPy[j]
    BY <1>3, <2>6
  <2> QED BY <2>1, <2>4, <2>6, <2>7
<1>18. ListInv'
  <2>1. ASSUME NEW x \in Msgs(breakList) PROVE RecordOK(x)'
    <3>1. RecordOK(x) /\ x.id \in Breaks
      BY <1>11 DEF ChannelInv, ListInv
    <3>2. CASE x.id = b
      <4>1. x.ack /\ x.thresh = m.time
        BY <1>5, <3>2, OneRecord DEF ChannelInv
      <4> QED BY <1>1, <1>4, <1>5, <1>7, <3>1, <3>2, <4>1 DEF RecordOK, Unchecked
    <3>3. CASE x.id # b
      <4>1. (\E n \in Msgs(toPy) : n.cmd = "ackBreak" /\ n.id = x.id)
            => \E n \in Msgs(toPy') : n.cmd = "ackBreak" /\ n.id = x.id
        BY <1>3, <3>3 DEF b
      <4> QED BY <1>1, <1>7, <3>1, <3>3, <4>1 DEF RecordOK, Unchecked
    <3> QED BY <3>2, <3>3
  <2> QED BY <1>1, <2>1 DEF ChannelInv, ListInv
<1>19. KnownInv'
  <2>1. \A c \in Breaks \ requests : thresh'[c] = None /\ stopped[c] = None
    BY <1>2, <1>5, <1>7 DEF ChannelInv, KnownInv
  <2>2. PromiseKept'
    BY <1>1, <1>5, <1>7 DEF ChannelInv, KnownInv, PromiseKept
  <2>3. \A c \in requests \ breaks : thresh'[c] # None
    BY <1>5, <1>7 DEF ChannelInv, KnownInv, ChannelTypeOK
  <2> QED BY <1>1, <2>1, <2>2, <2>3 DEF KnownInv
<1>20. FrameOffset'
  <2> SUFFICES ASSUME offset # None
               PROVE  /\ breakPoint # None /\ thresh'[breakPoint] # None
                      /\ thresh'[breakPoint] + Margin <= offset /\ pos <= offset + last
    BY <1>1 DEF FrameOffset
  <2>1. /\ breakPoint # None /\ thresh[breakPoint] # None
        /\ thresh[breakPoint] + Margin <= offset /\ pos <= offset + last
    BY DEF ChannelInv, FrameOffset
  <2>2. breakPoint \in Breaks /\ breakPoint # b
    BY <1>5, <2>1 DEF ChannelInv, ChannelTypeOK
  <2> QED BY <1>7, <2>1, <2>2
<1>21. Lives' /\ (Margin >= TickPeriod => ItemsOnTime')
  BY <1>1, <1>6 DEF ChannelInv, ItemsOnTime, Lives, ReleasedUnhit
<1> QED BY <1>12, <1>13, <1>14, <1>15, <1>16, <1>17, <1>18, <1>19, <1>20, <1>21 DEF ChannelInv, ToPyInv

(* The hit is the last message of its Break, which was acknowledged.        *)
LEMMA HitKnown ==
  ASSUME ChannelInv, toPy # <<>>, toPy' = Tail(toPy), ProcessHit(Head(toPy)),
         UNCHANGED <<requests, breaks, waitThresh, simVars>>, UNCHANGED <<channelVars, late>>,
         Head(toPy).id \in breaks
  PROVE  ChannelInv'
<1> DEFINE m == Head(toPy)
           b == m.id
<1>1. /\ m.cmd = "hitBreak"
      /\ UNCHANGED <<requests, breaks, thresh, now, toSim, nowAt, breakList, phase>>
      /\ UNCHANGED <<breakPoint, offset, pos, last, late>>
  BY DEF ProcessHit, simVars, channelVars
<1>2. /\ toPy \in Seq(PyMsg) /\ stopped \in [Breaks -> Nat \cup {None}] /\ breakList \in Seq(BreakRec)
      /\ breaks \subseteq requests
  BY DEF ChannelInv, ChannelTypeOK
<1>3. /\ toPy' \in Seq(PyMsg) /\ Len(toPy) \in Nat \ {0} /\ Len(toPy') = Len(toPy) - 1
      /\ m = toPy[1] /\ m \in PyMsg /\ m \in Msgs(toPy)
      /\ \A i \in 1 .. Len(toPy') : i + 1 \in 1 .. Len(toPy) /\ toPy'[i] = toPy[i + 1]
      /\ Msgs(toPy') \subseteq Msgs(toPy) /\ Msgs(toPy) \subseteq Msgs(toPy') \cup {m}
  BY <1>2, MsgsTail
<1>4. b \in Breaks /\ m.time \in Nat /\ m.time # None
  BY <1>1, <1>3, MsgFields, NoneApart DEF BreakPy
<1>5. b \in breaks /\ stopped[b] = None
  BY <1>1, <1>3 DEF ChannelInv, ToPyInv, HitOnWay
<1>6. PICK r \in Msgs(breakList) :
        /\ r.id = b /\ r.ack /\ r.hit
        /\ r.thresh <= m.time /\ m.time <= r.thresh + TickPeriod
        /\ r.type = "hold" => m.time = nowAt
  BY <1>1, <1>3, <1>5 DEF ChannelInv, ToPyInv, HitOnWay
<1>7. stopped' = [stopped EXCEPT ![b] = m.time] /\ ctrlRuns' = ctrlRuns
  BY <1>5 DEF ProcessHit
<1>8. thresh[b] # None /\ thresh[b] = r.thresh
  <2>1. thresh[b] # None
    <3>1. 1 \in 1 .. Len(toPy) /\ \A j \in 1 .. 1 - 1 : FALSE
      BY <1>3
    <3> QED BY <1>1, <1>3, <3>1 DEF ChannelInv, ToPyInv, HitAfterAck
  <2> QED BY <1>6, <2>1 DEF ChannelInv, ListInv, RecordOK
<1> HIDE DEF m
<1> HIDE DEF b
<1>9. stopped' \in [Breaks -> Nat \cup {None}] /\ stopped'[b] = m.time
      /\ \A c \in Breaks : c # b => stopped'[c] = stopped[c]
  BY <1>2, <1>4, <1>7
<1>10. \A i \in 1 .. Len(toPy') : toPy'[i].cmd \in BreakPy => toPy'[i].id # b
  <2> SUFFICES ASSUME NEW i \in 1 .. Len(toPy'), toPy'[i].cmd \in BreakPy, toPy'[i].id = b
               PROVE  FALSE
    OBVIOUS
  <2>1. 1 \in 1 .. Len(toPy) /\ i + 1 \in 1 .. Len(toPy) /\ 1 < i + 1 /\ toPy'[i] = toPy[i + 1]
    BY <1>3
  <2> QED BY <1>1, <1>3, <2>1 DEF ChannelInv, ToPyInv, AckThenHit, BreakPy, b
<1>11. \A n \in Msgs(toPy') : n.cmd \in BreakPy => n.id # b /\ n.id \in Breaks
  BY <1>3, <1>10, MsgsTyped, MsgFields DEF Msgs
<1>12. \A n \in Msgs(toSim) : n.cmd = "addBreak" => n.id # b
  BY <1>6 DEF ChannelInv, ToSimInv, Asked
<1>13. \A x \in Msgs(breakList) : x.id \in Breaks
  <2>1. \A x \in Msgs(breakList) : x \in BreakRec
    BY <1>2, MsgsTyped
  <2> QED BY <2>1 DEF BreakRec
<1>14. ChannelTypeOK'
  BY <1>1, <1>3, <1>9 DEF ChannelInv, ChannelTypeOK
<1>15. ToSimInv'
  <2>1. Asked'
    <3>1. \A n \in Msgs(toSim) : n.cmd = "addBreak" => n.id \in Breaks
      BY DEF ChannelInv, ToSimInv, Asked, ChannelTypeOK
    <3> QED BY <1>1, <1>9, <1>12, <3>1 DEF ChannelInv, ToSimInv, Asked
  <2> QED BY <1>1, <2>1 DEF ChannelInv, ToSimInv, AskedOnce, Dropped, Present, FrameHeld, ItemAhead
<1>16. AckThenHit'
  <2> SUFFICES ASSUME NEW i \in 1 .. Len(toPy'), NEW j \in 1 .. Len(toPy'), i < j,
                      toPy'[i].cmd \in BreakPy, toPy'[j].cmd \in BreakPy, toPy'[i].id = toPy'[j].id
               PROVE  toPy'[i].cmd = "ackBreak" /\ toPy'[j].cmd = "hitBreak"
    BY DEF AckThenHit
  <2>1. i + 1 \in 1 .. Len(toPy) /\ j + 1 \in 1 .. Len(toPy) /\ i + 1 < j + 1
    BY <1>3
  <2> QED BY <1>3, <2>1 DEF ChannelInv, ToPyInv, AckThenHit
<1>17. AckOnWay' /\ HitOnWay'
  BY <1>1, <1>3, <1>9, <1>11 DEF ChannelInv, ToPyInv, AckOnWay, HitOnWay, BreakPy
<1>18. HitAfterAck'
  <2> SUFFICES ASSUME NEW i \in 1 .. Len(toPy'), toPy'[i].cmd = "hitBreak", thresh[toPy'[i].id] = None
               PROVE  \E j \in 1 .. i - 1 : toPy'[j].cmd = "ackBreak" /\ toPy'[j].id = toPy'[i].id
    BY <1>1 DEF HitAfterAck
  <2>1. i + 1 \in 1 .. Len(toPy) /\ toPy'[i] = toPy[i + 1]
    BY <1>3
  <2>2. PICK j \in 1 .. (i + 1) - 1 : toPy[j].cmd = "ackBreak" /\ toPy[j].id = toPy[i + 1].id
    BY <2>1 DEF ChannelInv, ToPyInv, HitAfterAck
  <2>3. j # 1
    BY <1>1, <1>3, <2>2
  <2>4. j - 1 \in 1 .. i - 1 /\ j - 1 \in 1 .. Len(toPy') /\ (j - 1) + 1 = j
    BY <1>3, <2>3
  <2>5. toPy'[j - 1] = toPy[j]
    BY <1>3, <2>4
  <2> QED BY <2>1, <2>2, <2>4, <2>5
<1>19. ListInv'
  <2>1. ASSUME NEW x \in Msgs(breakList) PROVE RecordOK(x)'
    <3>1. RecordOK(x) /\ x.id \in Breaks
      BY <1>13 DEF ChannelInv, ListInv
    <3>2. (\E n \in Msgs(toPy) : n.cmd = "ackBreak" /\ n.id = x.id)
            => \E n \in Msgs(toPy') : n.cmd = "ackBreak" /\ n.id = x.id
      BY <1>1, <1>3
    <3>3. CASE x.id = b
      <4>1. x = r
        BY <1>6, <3>3, OneRecord DEF ChannelInv
      <4> QED BY <1>1, <1>6, <1>9, <3>1, <3>2, <3>3, <4>1 DEF RecordOK, Unchecked
    <3>4. CASE x.id # b
      BY <1>1, <1>9, <3>1, <3>2, <3>4 DEF RecordOK, Unchecked
    <3> QED BY <3>3, <3>4
  <2> QED BY <1>1, <2>1 DEF ChannelInv, ListInv
<1>20. KnownInv'
  <2>1. \A c \in requests \ breaks : thresh[c] # None
    BY <1>4, <1>9 DEF ChannelInv, KnownInv, ChannelTypeOK
  <2>2. \A c \in Breaks \ requests : thresh[c] = None /\ stopped'[c] = None
    BY <1>2, <1>5, <1>9 DEF ChannelInv, KnownInv
  <2>3. PromiseKept'
    BY <1>1, <1>6, <1>8, <1>9 DEF ChannelInv, KnownInv, PromiseKept
  <2> QED BY <1>1, <2>1, <2>2, <2>3 DEF KnownInv
<1>21. FrameOffset' /\ Lives' /\ (Margin >= TickPeriod => ItemsOnTime')
  <2>1. \A c \in requests \ breaks : stopped'[c] = stopped[c]
    BY <1>5, <1>9 DEF ChannelInv, ChannelTypeOK
  <2>2. Lives'
    BY <1>1, <1>7, <2>1 DEF ChannelInv, Lives, ReleasedUnhit
  <2> QED BY <1>1, <2>2 DEF ChannelInv, FrameOffset, ItemsOnTime
<1> QED BY <1>14, <1>15, <1>16, <1>17, <1>18, <1>19, <1>20, <1>21 DEF ChannelInv, ToPyInv

(* The hit of a Break that was released early ends the task; the Break is   *)
(* as it was.                                                               *)
LEMMA HitUnknown ==
  ASSUME ChannelInv, toPy # <<>>, toPy' = Tail(toPy), ProcessHit(Head(toPy)),
         UNCHANGED <<requests, breaks, waitThresh, simVars>>, UNCHANGED <<channelVars, late>>,
         Head(toPy).id \notin breaks
  PROVE  ChannelInv'
<1> DEFINE m == Head(toPy)
<1>1. /\ m.cmd = "hitBreak"
      /\ UNCHANGED <<requests, breaks, thresh, stopped, now, toSim, nowAt, breakList, phase>>
      /\ UNCHANGED <<breakPoint, offset, pos, last, late>>
  BY DEF ProcessHit, simVars, channelVars
<1>2. toPy \in Seq(PyMsg)
  BY DEF ChannelInv, ChannelTypeOK
<1>3. /\ toPy' \in Seq(PyMsg) /\ Len(toPy) \in Nat \ {0} /\ Len(toPy') = Len(toPy) - 1
      /\ m = toPy[1] /\ m \in Msgs(toPy)
      /\ \A i \in 1 .. Len(toPy') : i + 1 \in 1 .. Len(toPy) /\ toPy'[i] = toPy[i + 1]
      /\ Msgs(toPy') \subseteq Msgs(toPy) /\ Msgs(toPy) \subseteq Msgs(toPy') \cup {m}
  BY <1>2, MsgsTail
<1>4. Lives'
  <2>1. m.id \in requests \ breaks /\ stopped[m.id] = None
    BY <1>1, <1>3 DEF ChannelInv, ToPyInv, HitOnWay
  <2> HIDE DEF m
  <2> QED BY <1>1, <2>1 DEF Lives, ReleasedUnhit
<1> HIDE DEF m
<1>5. ChannelTypeOK'
  BY <1>1, <1>3 DEF ChannelInv, ChannelTypeOK
<1>6. ToSimInv'
  BY <1>1 DEF ChannelInv, ToSimInv, AskedOnce, Asked, Dropped, Present, FrameHeld, ItemAhead
<1>7. AckThenHit'
  <2> SUFFICES ASSUME NEW i \in 1 .. Len(toPy'), NEW j \in 1 .. Len(toPy'), i < j,
                      toPy'[i].cmd \in BreakPy, toPy'[j].cmd \in BreakPy, toPy'[i].id = toPy'[j].id
               PROVE  toPy'[i].cmd = "ackBreak" /\ toPy'[j].cmd = "hitBreak"
    BY DEF AckThenHit
  <2>1. i + 1 \in 1 .. Len(toPy) /\ j + 1 \in 1 .. Len(toPy) /\ i + 1 < j + 1
    BY <1>3
  <2> QED BY <1>3, <2>1 DEF ChannelInv, ToPyInv, AckThenHit
<1>8. AckOnWay' /\ HitOnWay'
  BY <1>1, <1>3 DEF ChannelInv, ToPyInv, AckOnWay, HitOnWay
<1>9. HitAfterAck'
  <2> SUFFICES ASSUME NEW i \in 1 .. Len(toPy'), toPy'[i].cmd = "hitBreak", thresh[toPy'[i].id] = None
               PROVE  \E j \in 1 .. i - 1 : toPy'[j].cmd = "ackBreak" /\ toPy'[j].id = toPy'[i].id
    BY <1>1 DEF HitAfterAck
  <2>1. i + 1 \in 1 .. Len(toPy) /\ toPy'[i] = toPy[i + 1]
    BY <1>3
  <2>2. PICK j \in 1 .. (i + 1) - 1 : toPy[j].cmd = "ackBreak" /\ toPy[j].id = toPy[i + 1].id
    BY <2>1 DEF ChannelInv, ToPyInv, HitAfterAck
  <2>3. j # 1
    BY <1>1, <1>3, <2>2
  <2>4. j - 1 \in 1 .. i - 1 /\ j - 1 \in 1 .. Len(toPy') /\ (j - 1) + 1 = j
    BY <1>3, <2>3
  <2>5. toPy'[j - 1] = toPy[j]
    BY <1>3, <2>4
  <2> QED BY <2>1, <2>2, <2>4, <2>5
<1>10. ListInv'
  <2>1. ASSUME NEW x \in Msgs(breakList) PROVE RecordOK(x)'
    <3>1. RecordOK(x)
      BY DEF ChannelInv, ListInv
    <3>2. (\E n \in Msgs(toPy) : n.cmd = "ackBreak" /\ n.id = x.id)
            => \E n \in Msgs(toPy') : n.cmd = "ackBreak" /\ n.id = x.id
      BY <1>1, <1>3
    <3> QED BY <1>1, <3>1, <3>2 DEF RecordOK, Unchecked
  <2> QED BY <1>1, <2>1 DEF ChannelInv, ListInv
<1>11. KnownInv' /\ FrameOffset' /\ (Margin >= TickPeriod => ItemsOnTime')
  BY <1>1 DEF ChannelInv, KnownInv, PromiseKept, FrameOffset, ItemsOnTime
<1> QED BY <1>4, <1>5, <1>6, <1>7, <1>8, <1>9, <1>10, <1>11 DEF ChannelInv, ToPyInv

----------------------------------------------------------------------------
(* The command processor of the simulator.                                  *)
LEMMA TickReceived ==
  ASSUME ChannelInv, toSim # <<>>, toSim' = Tail(toSim), ReceiveTick(Head(toSim)),
         UNCHANGED <<pyVars, nowAt>>, UNCHANGED <<channelVars, late>>
  PROVE  ChannelInv'
<1>1. /\ Head(toSim).cmd = "tick" /\ toPy' = Append(toPy, [cmd |-> "tock", time |-> nowAt])
      /\ UNCHANGED <<requests, breaks, thresh, stopped, now, ctrlRuns, nowAt, breakList, phase>>
      /\ UNCHANGED <<breakPoint, offset, pos, last, late>>
  BY DEF ReceiveTick, pyVars, breakVars, channelVars
<1>2. toSim' \in Seq(SimMsg) /\ toPy \in Seq(PyMsg) /\ nowAt \in Nat
  BY MsgsTail DEF ChannelInv, ChannelTypeOK
<1> DEFINE m == [cmd |-> "tock", time |-> nowAt]
<1>3. m \in PyMsg /\ m.cmd = "tock"
  BY <1>2 DEF PyMsg
<1> HIDE DEF m
<1>4. toPy' = Append(toPy, m)
  BY <1>1 DEF m
<1>5. ChannelTypeOK'
  BY <1>1, <1>2, <1>3, <1>4, AppendProperties DEF ChannelInv, ChannelTypeOK
<1>6. ToSimInv'
  <2>1. Head(toSim).cmd \notin BreakSim
    BY <1>1 DEF BreakSim
  <2> QED BY <1>1, <2>1, ToSimTail DEF ChannelInv
<1>7. ToPyInv' /\ ListInv'
  <2>1. m.cmd \notin BreakPy
    BY <1>3 DEF BreakPy
  <2> QED BY <1>1, <1>3, <1>4, <2>1, ToPyAppend DEF ChannelInv
<1>8. KnownInv' /\ Lives' /\ FrameOffset' /\ (Margin >= TickPeriod => ItemsOnTime')
  BY <1>1 DEF ChannelInv, KnownInv, PromiseKept, FrameOffset, ItemsOnTime, Lives, ReleasedUnhit
<1> QED BY <1>5, <1>6, <1>7, <1>8 DEF ChannelInv

LEMMA AddBreakReceived ==
  ASSUME ChannelInv, toSim # <<>>, toSim' = Tail(toSim), ReceiveAddBreak(Head(toSim)),
         UNCHANGED <<pyVars, nowAt>>, UNCHANGED <<channelVars, late>>
  PROVE  ChannelInv'
<1> DEFINE m == Head(toSim)
           b == m.id
           r == NewBreak(m.id, m.type, m.time, m.rel)
<1>1. /\ m.cmd = "addBreak" /\ breakList' = Append(breakList, r)
      /\ UNCHANGED <<requests, breaks, thresh, stopped, now, ctrlRuns, toPy, nowAt, phase>>
      /\ UNCHANGED <<breakPoint, offset, pos, last, late>>
  BY DEF ReceiveAddBreak, pyVars, breakVars, channelVars
<1>2. toSim \in Seq(SimMsg) /\ breakList \in Seq(BreakRec) /\ breaks \subseteq requests
  BY DEF ChannelInv, ChannelTypeOK
<1>3. /\ toSim' \in Seq(SimMsg) /\ Len(toSim) \in Nat \ {0} /\ Len(toSim') = Len(toSim) - 1
      /\ m = toSim[1] /\ m \in SimMsg /\ m \in Msgs(toSim)
      /\ \A i \in 1 .. Len(toSim') : i + 1 \in 1 .. Len(toSim) /\ toSim'[i] = toSim[i + 1]
      /\ Msgs(toSim') \subseteq Msgs(toSim) /\ Msgs(toSim) \subseteq Msgs(toSim') \cup {m}
  BY <1>2, MsgsTail
<1>4. b \in Breaks /\ m.type \in BreakType /\ m.time \in Nat /\ m.rel \in BOOLEAN
  BY <1>1, <1>3, MsgFields DEF BreakSim
<1>5. r \in BreakRec /\ r.id = b /\ r.type = m.type /\ r.ack = FALSE /\ r.hit = FALSE
  BY <1>4 DEF NewBreak, BreakRec
<1>6. /\ b \in breaks /\ thresh[b] = None /\ stopped[b] = None
      /\ \A x \in Msgs(breakList) : x.id # b
  BY <1>1, <1>3 DEF ChannelInv, ToSimInv, Asked
<1> HIDE DEF m, r
<1> HIDE DEF b
<1>7. /\ breakList' \in Seq(BreakRec) /\ Len(breakList') = Len(breakList) + 1 /\ Len(breakList) \in Nat
      /\ \A i \in 1 .. Len(breakList) : breakList'[i] = breakList[i] /\ breakList[i] \in Msgs(breakList)
      /\ breakList'[Len(breakList) + 1] = r /\ Msgs(breakList') = Msgs(breakList) \cup {r}
      /\ \A i \in 1 .. Len(breakList') : i \in 1 .. Len(breakList) \/ i = Len(breakList) + 1
  <2>1. \A i \in 1 .. Len(breakList) : breakList[i] \in Msgs(breakList)
    BY DEF Msgs
  <2> QED BY <1>1, <1>2, <1>5, <2>1, MsgsAppend
<1>8. \A n \in Msgs(toSim') : n.cmd \in BreakSim => n.id # b
  <2>1. \A i \in 1 .. Len(toSim') : toSim'[i].cmd \in BreakSim => toSim'[i].id # b
    <3> SUFFICES ASSUME NEW i \in 1 .. Len(toSim'), toSim'[i].cmd \in BreakSim, toSim'[i].id = b
                 PROVE  FALSE
      OBVIOUS
    <3>1. 1 \in 1 .. Len(toSim) /\ i + 1 \in 1 .. Len(toSim) /\ 1 # i + 1 /\ toSim'[i] = toSim[i + 1]
      BY <1>3
    <3> QED BY <1>1, <1>3, <3>1 DEF ChannelInv, ToSimInv, AskedOnce, BreakSim, b
  <2> QED BY <2>1 DEF Msgs
<1>9. ChannelTypeOK'
  BY <1>1, <1>3, <1>7 DEF ChannelInv, ChannelTypeOK
<1>10. AskedOnce'
  <2> SUFFICES ASSUME NEW i \in 1 .. Len(toSim'), NEW j \in 1 .. Len(toSim'),
                      toSim'[i].cmd \in BreakSim, toSim'[j].cmd \in BreakSim, toSim'[i].id = toSim'[j].id
               PROVE  i = j
    BY DEF AskedOnce
  <2>1. i + 1 = j + 1
    BY <1>3 DEF ChannelInv, ToSimInv, AskedOnce
  <2> QED BY <2>1
<1>11. Asked' /\ Dropped'
  BY <1>1, <1>3, <1>5, <1>7, <1>8 DEF ChannelInv, ToSimInv, Asked, Dropped, BreakSim
<1>12. Present'
  <2> SUFFICES ASSUME NEW c \in breaks
               PROVE  \/ \E n \in Msgs(toSim') : n.cmd = "addBreak" /\ n.id = c
                      \/ \E x \in Msgs(breakList') : x.id = c
    BY <1>1 DEF Present
  <2>1. CASE c = b
    BY <1>5, <1>7, <2>1
  <2>2. CASE c # b
    <3>1. \A n \in Msgs(toSim) : n.id = c => n \in Msgs(toSim')
      BY <1>3, <2>2 DEF b
    <3> QED BY <1>7, <3>1 DEF ChannelInv, ToSimInv, Present
  <2> QED BY <2>1, <2>2
<1>13. FrameHeld'
  <2>1. b = breakPoint => m.type = "hold"
    BY <1>1, <1>3, <1>4, NoneApart DEF ChannelInv, ToSimInv, FrameHeld, b
  <2> QED BY <1>1, <1>3, <1>5, <1>7, <2>1 DEF ChannelInv, ToSimInv, FrameHeld
<1>14. ItemAhead'
  <2> SUFFICES ASSUME NEW i \in 1 .. Len(toSim'), toSim'[i].cmd = "item", toSim'[i].framed
               PROVE  \E x \in Msgs(breakList') :
                        /\ x.type = "hold" /\ x.ack /\ x.thresh + Margin <= toSim'[i].time
                        /\ \A k \in 1 .. i - 1 : ~(toSim'[k].cmd = "remBreak" /\ toSim'[k].id = x.id)
    BY DEF ItemAhead
  <2>1. PICK x \in Msgs(breakList) :
          /\ x.type = "hold" /\ x.ack /\ x.thresh + Margin <= toSim[i + 1].time
          /\ \A k \in 1 .. (i + 1) - 1 : ~(toSim[k].cmd = "remBreak" /\ toSim[k].id = x.id)
    BY <1>3 DEF ChannelInv, ToSimInv, ItemAhead
  <2>2. \A k \in 1 .. i - 1 : k \in 1 .. Len(toSim') /\ k + 1 \in 1 .. (i + 1) - 1
    BY <1>3
  <2>3. \A k \in 1 .. i - 1 : ~(toSim'[k].cmd = "remBreak" /\ toSim'[k].id = x.id)
    BY <1>3, <2>1, <2>2
  <2> QED BY <1>3, <1>7, <2>1, <2>3
<1>15. ToPyInv'
  <2>1. \A n \in Msgs(toPy) : n.cmd = "hitBreak" => n.id # b
    BY <1>6 DEF ChannelInv, ToPyInv, HitOnWay
  <2> QED BY <1>1, <1>5, <1>7, <2>1 DEF ChannelInv, ToPyInv, AckThenHit, AckOnWay, HitOnWay, HitAfterAck
<1>16. ListInv'
  <2>1. \A i, j \in 1 .. Len(breakList') : breakList'[i].id = breakList'[j].id => i = j
    BY <1>5, <1>6, <1>7 DEF ChannelInv, ListInv
  <2>2. ASSUME NEW x, x = r PROVE RecordOK(x)'
    BY <1>1, <1>5, <1>6, <2>2 DEF RecordOK
  <2>3. \A x \in Msgs(breakList) : RecordOK(x)'
    BY <1>1 DEF ChannelInv, ListInv, RecordOK, Unchecked
  <2>4. r.id \in requests
    BY <1>2, <1>5, <1>6
  <2>5. \A x \in Msgs(breakList) : x.id \in requests
    BY DEF ChannelInv, ListInv
  <2>6. \A x \in Msgs(breakList') : x.id \in requests' /\ RecordOK(x)'
    <3> SUFFICES ASSUME NEW x \in Msgs(breakList') PROVE x.id \in requests' /\ RecordOK(x)'
      OBVIOUS
    <3>1. x \in Msgs(breakList) \/ x = r
      BY <1>7
    <3>2. x.id \in requests'
      BY <1>1, <2>4, <2>5, <3>1
    <3>3. RecordOK(x)'
      BY <2>2, <2>3, <3>1
    <3> QED BY <3>2, <3>3
  <2> QED BY <2>1, <2>6 DEF ListInv
<1>17. KnownInv' /\ Lives' /\ FrameOffset' /\ (Margin >= TickPeriod => ItemsOnTime')
  BY <1>1 DEF ChannelInv, KnownInv, PromiseKept, FrameOffset, ItemsOnTime, Lives, ReleasedUnhit
<1> QED BY <1>9, <1>10, <1>11, <1>12, <1>13, <1>14, <1>15, <1>16, <1>17 DEF ChannelInv, ToSimInv

(* A remBreak finds the one record of its Break.                            *)
LEMMA RemBreakFound ==
  ASSUME ListInv, breakList \in Seq(BreakRec), NEW b, \E x \in Msgs(breakList) : x.id = b
  PROVE  /\ Index(b) # {}
         /\ LET first == CHOOSE i \in Index(b) : \A j \in Index(b) : i <= j
                list  == RemoveAt(breakList, first)
            IN  /\ list \in Seq(BreakRec)
                /\ \A i, j \in 1 .. Len(list) : list[i].id = list[j].id => i = j
                /\ Msgs(list) \subseteq Msgs(breakList)
                /\ \A x \in Msgs(list) : x.id # b
                /\ \A x \in Msgs(breakList) : x.id # b => x \in Msgs(list)
<1>1. PICK k \in 1 .. Len(breakList) : breakList[k].id = b
  BY DEF Msgs
<1>2. Index(b) = {k}
  BY <1>1 DEF Index, ListInv
<1>3. Len(breakList) \in Nat
  BY LenProperties
<1> DEFINE first == CHOOSE i \in Index(b) : \A j \in Index(b) : i <= j
           list  == RemoveAt(breakList, first)
<1>4. first = k
  <2>1. k \in Index(b) /\ \A j \in Index(b) : k <= j
    BY <1>2, <1>3
  <2>2. first \in Index(b)
    BY <2>1
  <2> QED BY <1>2, <2>2
<1>5. /\ list \in Seq(BreakRec) /\ Len(list) = Len(breakList) - 1 /\ Len(breakList) \in Nat \ {0}
      /\ \A i \in 1 .. Len(breakList) - 1 : list[i] = IF i < k THEN breakList[i] ELSE breakList[i + 1]
  BY <1>4, RemoveAtProperties
<1> HIDE DEF list, first
<1> DEFINE p(i) == IF i < k THEN i ELSE i + 1
<1>6. \A i \in 1 .. Len(list) : p(i) \in 1 .. Len(breakList) /\ p(i) # k /\ list[i] = breakList[p(i)]
  BY <1>3, <1>5
<1>7. \A i, j \in 1 .. Len(list) : p(i) = p(j) => i = j
  BY <1>5
<1>8. \A l \in 1 .. Len(breakList) : l # k => \E i \in 1 .. Len(list) : p(i) = l
  <2> SUFFICES ASSUME NEW l \in 1 .. Len(breakList), l # k PROVE \E i \in 1 .. Len(list) : p(i) = l
    OBVIOUS
  <2>1. CASE l < k
    <3>1. l \in 1 .. Len(list) /\ p(l) = l
      BY <1>3, <1>5, <2>1
    <3> QED BY <3>1
  <2>2. CASE ~(l < k)
    <3>1. l - 1 \in 1 .. Len(list) /\ p(l - 1) = l
      BY <1>3, <1>5, <2>2
    <3> QED BY <3>1
  <2> QED BY <2>1, <2>2
<1> HIDE DEF p
<1>9. \A i, j \in 1 .. Len(list) : list[i].id = list[j].id => i = j
  BY <1>6, <1>7 DEF ListInv
<1>10. Msgs(list) \subseteq Msgs(breakList)
  BY <1>6 DEF Msgs
<1>11. \A x \in Msgs(list) : x.id # b
  BY <1>1, <1>6 DEF Msgs, ListInv
<1>12. \A x \in Msgs(breakList) : x.id # b => x \in Msgs(list)
  <2> SUFFICES ASSUME NEW l \in 1 .. Len(breakList), breakList[l].id # b PROVE breakList[l] \in Msgs(list)
    BY DEF Msgs
  <2>1. PICK i \in 1 .. Len(list) : p(i) = l
    BY <1>1, <1>8
  <2>2. list[i] = breakList[l]
    BY <1>6, <2>1
  <2> QED BY <2>2 DEF Msgs
<1> QED BY <1>2, <1>5, <1>9, <1>10, <1>11, <1>12 DEF list, first

LEMMA RemBreakReceived ==
  ASSUME ChannelInv, toSim # <<>>, toSim' = Tail(toSim), ReceiveRemBreak(Head(toSim)),
         UNCHANGED <<pyVars, nowAt>>, UNCHANGED <<channelVars, late>>
  PROVE  ChannelInv'
<1> DEFINE m == Head(toSim)
           b == m.id
<1>1. /\ m.cmd = "remBreak"
      /\ UNCHANGED <<requests, breaks, thresh, stopped, now, ctrlRuns, toPy, nowAt>>
      /\ UNCHANGED <<breakPoint, offset, pos, last, late>>
  BY DEF ReceiveRemBreak, pyVars, breakVars, channelVars
<1>2. toSim \in Seq(SimMsg) /\ breakList \in Seq(BreakRec)
  BY DEF ChannelInv, ChannelTypeOK
<1>3. /\ toSim' \in Seq(SimMsg) /\ Len(toSim) \in Nat \ {0} /\ Len(toSim') = Len(toSim) - 1
      /\ m = toSim[1] /\ m \in SimMsg /\ m \in Msgs(toSim)
      /\ \A i \in 1 .. Len(toSim') : i + 1 \in 1 .. Len(toSim) /\ toSim'[i] = toSim[i + 1]
      /\ Msgs(toSim') \subseteq Msgs(toSim) /\ Msgs(toSim) \subseteq Msgs(toSim') \cup {m}
  BY <1>2, MsgsTail
<1>4. b \in requests \ breaks /\ \E x \in Msgs(breakList) : x.id = b
  BY <1>1, <1>3 DEF ChannelInv, ToSimInv, Dropped
<1>5. /\ phase' = phase /\ breakList' \in Seq(BreakRec)
      /\ \A i, j \in 1 .. Len(breakList') : breakList'[i].id = breakList'[j].id => i = j
      /\ Msgs(breakList') \subseteq Msgs(breakList)
      /\ \A x \in Msgs(breakList') : x.id # b
      /\ \A x \in Msgs(breakList) : x.id # b => x \in Msgs(breakList')
  <2> DEFINE first == CHOOSE i \in Index(b) : \A j \in Index(b) : i <= j
             list  == RemoveAt(breakList, first)
  <2>1. /\ Index(b) # {}
        /\ list \in Seq(BreakRec)
        /\ \A i, j \in 1 .. Len(list) : list[i].id = list[j].id => i = j
        /\ Msgs(list) \subseteq Msgs(breakList)
        /\ \A x \in Msgs(list) : x.id # b
        /\ \A x \in Msgs(breakList) : x.id # b => x \in Msgs(list)
    BY <1>2, <1>4, RemBreakFound DEF ChannelInv
  <2>2. breakList' = list /\ phase' = phase
    BY <2>1 DEF ReceiveRemBreak
  <2> QED BY <2>1, <2>2
<1> HIDE DEF m
<1> HIDE DEF b
<1>6. \A n \in Msgs(toSim') : n.cmd \in BreakSim => n.id # b
  <2>1. \A i \in 1 .. Len(toSim') : toSim'[i].cmd \in BreakSim => toSim'[i].id # b
    <3> SUFFICES ASSUME NEW i \in 1 .. Len(toSim'), toSim'[i].cmd \in BreakSim, toSim'[i].id = b
                 PROVE  FALSE
      OBVIOUS
    <3>1. 1 \in 1 .. Len(toSim) /\ i + 1 \in 1 .. Len(toSim) /\ 1 # i + 1 /\ toSim'[i] = toSim[i + 1]
      BY <1>3
    <3> QED BY <1>1, <1>3, <3>1 DEF ChannelInv, ToSimInv, AskedOnce, BreakSim, b
  <2> QED BY <2>1 DEF Msgs
<1>7. ChannelTypeOK'
  BY <1>1, <1>3, <1>5 DEF ChannelInv, ChannelTypeOK
<1>8. AskedOnce'
  <2> SUFFICES ASSUME NEW i \in 1 .. Len(toSim'), NEW j \in 1 .. Len(toSim'),
                      toSim'[i].cmd \in BreakSim, toSim'[j].cmd \in BreakSim, toSim'[i].id = toSim'[j].id
               PROVE  i = j
    BY DEF AskedOnce
  <2>1. i + 1 = j + 1
    BY <1>3 DEF ChannelInv, ToSimInv, AskedOnce
  <2> QED BY <2>1
<1>9. Asked' /\ FrameHeld'
  BY <1>1, <1>3, <1>5 DEF ChannelInv, ToSimInv, Asked, FrameHeld
<1>10. Dropped'
  BY <1>1, <1>3, <1>5, <1>6 DEF ChannelInv, ToSimInv, Dropped, BreakSim
<1>11. Present'
  <2> SUFFICES ASSUME NEW c \in breaks
               PROVE  \/ \E n \in Msgs(toSim') : n.cmd = "addBreak" /\ n.id = c
                      \/ \E x \in Msgs(breakList') : x.id = c
    BY <1>1 DEF Present
  <2>1. c # b
    BY <1>4
  <2>2. \A n \in Msgs(toSim) : n.id = c => n \in Msgs(toSim')
    BY <1>3, <2>1 DEF b
  <2> QED BY <1>5, <2>1, <2>2 DEF ChannelInv, ToSimInv, Present
<1>12. ItemAhead'
  <2> SUFFICES ASSUME NEW i \in 1 .. Len(toSim'), toSim'[i].cmd = "item", toSim'[i].framed
               PROVE  \E x \in Msgs(breakList') :
                        /\ x.type = "hold" /\ x.ack /\ x.thresh + Margin <= toSim'[i].time
                        /\ \A k \in 1 .. i - 1 : ~(toSim'[k].cmd = "remBreak" /\ toSim'[k].id = x.id)
    BY DEF ItemAhead
  <2>1. PICK x \in Msgs(breakList) :
          /\ x.type = "hold" /\ x.ack /\ x.thresh + Margin <= toSim[i + 1].time
          /\ \A k \in 1 .. (i + 1) - 1 : ~(toSim[k].cmd = "remBreak" /\ toSim[k].id = x.id)
    BY <1>3 DEF ChannelInv, ToSimInv, ItemAhead
  <2>2. \A k \in 1 .. i - 1 : k \in 1 .. Len(toSim') /\ k + 1 \in 1 .. (i + 1) - 1
    BY <1>3
  <2>3. \A k \in 1 .. i - 1 : ~(toSim'[k].cmd = "remBreak" /\ toSim'[k].id = x.id)
    BY <1>3, <2>1, <2>2
  <2>4. x.id # b
    <3>1. 1 \in 1 .. (i + 1) - 1
      BY <1>3
    <3> QED BY <1>1, <1>3, <2>1, <3>1 DEF b
  <2> QED BY <1>3, <1>5, <2>1, <2>3, <2>4
<1>13. ToPyInv'
  BY <1>1, <1>4, <1>5 DEF ChannelInv, ToPyInv, AckThenHit, AckOnWay, HitOnWay, HitAfterAck
<1>14. ListInv'
  <2>1. \A x \in Msgs(breakList) : RecordOK(x)'
    BY <1>1, <1>5 DEF ChannelInv, ListInv, RecordOK, Unchecked
  <2> QED BY <1>1, <1>5, <2>1 DEF ChannelInv, ListInv
<1>15. KnownInv' /\ Lives' /\ FrameOffset' /\ (Margin >= TickPeriod => ItemsOnTime')
  BY <1>1 DEF ChannelInv, KnownInv, PromiseKept, FrameOffset, ItemsOnTime, Lives, ReleasedUnhit
<1> QED BY <1>7, <1>8, <1>9, <1>10, <1>11, <1>12, <1>13, <1>14, <1>15 DEF ChannelInv, ToSimInv

----------------------------------------------------------------------------
(* The simulator thread.                                                    *)
LEMMA TickStep ==
  ASSUME ChannelInv, Tick, UNCHANGED <<channelVars, late>>
  PROVE  ChannelInv'
<1>1. /\ phase = "idle" /\ phase' = "hold" /\ nowAt' \in {nowAt, nowAt + TickPeriod}
      /\ UNCHANGED <<requests, breaks, thresh, stopped, now, ctrlRuns, toSim, toPy, breakList>>
      /\ UNCHANGED <<breakPoint, offset, pos, last, late>>
  BY DEF Tick, pyVars, breakVars, channelVars
<1>2. nowAt \in Nat /\ breakList \in Seq(BreakRec)
  BY DEF ChannelInv, ChannelTypeOK
<1>3. nowAt' \in Nat
  BY <1>1, <1>2, NoneApart
<1>4. \A x \in Msgs(breakList) : x.hit => x.type # "hold"
  BY <1>1 DEF ChannelInv, ListInv, RecordOK
<1>5. ChannelTypeOK'
  BY <1>1, <1>3 DEF ChannelInv, ChannelTypeOK
<1>6. ToSimInv'
  BY <1>1 DEF ChannelInv, ToSimInv, AskedOnce, Asked, Dropped, Present, FrameHeld, ItemAhead
<1>7. ToPyInv'
  BY <1>1, <1>4 DEF ChannelInv, ToPyInv, AckThenHit, AckOnWay, HitOnWay, HitAfterAck
<1>8. ListInv'
  <2>1. ASSUME NEW x \in Msgs(breakList) PROVE RecordOK(x)'
    <3>1. RecordOK(x) /\ x \in BreakRec
      BY <1>2, MsgsTyped DEF ChannelInv, ListInv
    <3>2. x.thresh \in Nat
      BY <3>1 DEF BreakRec
    <3>3. x.ack /\ ~x.hit => nowAt <= x.thresh
      BY <1>1, <1>2, <3>1, <3>2 DEF RecordOK, Unchecked
    <3>4. x.ack /\ ~x.hit => nowAt' <= x.thresh + TickPeriod
      BY <1>1, <1>2, <3>2, <3>3, NoneApart
    <3>5. Unchecked(x.type)'
      BY <1>1 DEF Unchecked
    <3> QED BY <1>1, <1>4, <3>1, <3>4, <3>5 DEF RecordOK
  <2> QED BY <1>1, <2>1 DEF ChannelInv, ListInv
<1>9. KnownInv' /\ Lives' /\ FrameOffset' /\ (Margin >= TickPeriod => ItemsOnTime')
  BY <1>1 DEF ChannelInv, KnownInv, PromiseKept, FrameOffset, ItemsOnTime, Lives, ReleasedUnhit
<1> QED BY <1>5, <1>6, <1>7, <1>8, <1>9 DEF ChannelInv

LEMMA ExitStep ==
  ASSUME ChannelInv, Exit, UNCHANGED <<channelVars, late>>
  PROVE  ChannelInv'
<1>1. /\ phase = "finished" /\ phase' = "exited"
      /\ UNCHANGED <<requests, breaks, thresh, stopped, now, ctrlRuns, toSim, nowAt, breakList>>
      /\ UNCHANGED <<breakPoint, offset, pos, last, late>>
  BY DEF Exit, pyVars, breakVars, channelVars
<1>2. PICK sent \in 0 .. Len(toPy) : toPy' = SubSeq(toPy, 1, sent)
  BY DEF Exit
<1>3. toPy \in Seq(PyMsg) /\ Len(toPy) \in Nat
  BY LenProperties DEF ChannelInv, ChannelTypeOK
<1>4. /\ toPy' \in Seq(PyMsg) /\ Len(toPy') = sent
      /\ \A i \in 1 .. sent : toPy'[i] = toPy[i]
  <2>1. \A i \in 1 .. sent : toPy[i] \in PyMsg
    BY <1>3, ElementOfSeq
  <2>2. /\ toPy' \in Seq(PyMsg) /\ Len(toPy') = IF 1 <= sent THEN sent - 1 + 1 ELSE 0
        /\ \A i \in 1 .. sent - 1 + 1 : toPy'[i] = toPy[1 + i - 1]
    BY <1>2, <1>3, <2>1, SubSeqProperties
  <2> QED BY <1>3, <2>2
<1>5. (\A i \in 1 .. Len(toPy') : i \in 1 .. Len(toPy) /\ toPy'[i] = toPy[i]) /\ Msgs(toPy') \subseteq Msgs(toPy)
  <2>1. \A i \in 1 .. Len(toPy') : i \in 1 .. Len(toPy) /\ toPy'[i] = toPy[i]
    BY <1>3, <1>4
  <2> QED BY <2>1 DEF Msgs
<1>6. ChannelTypeOK'
  BY <1>1, <1>4 DEF ChannelInv, ChannelTypeOK
<1>7. ToSimInv'
  BY <1>1 DEF ChannelInv, ToSimInv, AskedOnce, Asked, Dropped, Present, FrameHeld, ItemAhead
<1>8. AckThenHit'
  BY <1>5 DEF ChannelInv, ToPyInv, AckThenHit
<1>9. AckOnWay' /\ HitOnWay'
  BY <1>1, <1>5 DEF ChannelInv, ToPyInv, AckOnWay, HitOnWay
<1>10. HitAfterAck'
  <2> SUFFICES ASSUME NEW i \in 1 .. Len(toPy'), toPy'[i].cmd = "hitBreak", thresh[toPy'[i].id] = None
               PROVE  \E j \in 1 .. i - 1 : toPy'[j].cmd = "ackBreak" /\ toPy'[j].id = toPy'[i].id
    BY <1>1 DEF HitAfterAck
  <2>1. PICK j \in 1 .. i - 1 : toPy[j].cmd = "ackBreak" /\ toPy[j].id = toPy[i].id
    BY <1>5 DEF ChannelInv, ToPyInv, HitAfterAck
  <2>2. j \in 1 .. Len(toPy')
    BY <1>4
  <2> QED BY <1>5, <2>1, <2>2
<1>11. ListInv'
  <2>1. ASSUME NEW x \in Msgs(breakList) PROVE RecordOK(x)'
    <3>1. RecordOK(x)
      BY DEF ChannelInv, ListInv
    <3> QED BY <1>1, <3>1 DEF RecordOK, Unchecked
  <2> QED BY <1>1, <2>1 DEF ChannelInv, ListInv
<1>12. KnownInv' /\ Lives' /\ FrameOffset' /\ (Margin >= TickPeriod => ItemsOnTime')
  BY <1>1 DEF ChannelInv, KnownInv, PromiseKept, FrameOffset, ItemsOnTime, Lives, ReleasedUnhit
<1> QED BY <1>6, <1>7, <1>8, <1>9, <1>10, <1>11, <1>12 DEF ChannelInv, ToPyInv

(* What checkBreak makes of a record ...                                    *)
LEMMA CheckedRecord ==
  ASSUME nowAt \in Nat, NEW x \in BreakRec, NEW type
  PROVE  LET y == Checked(x, type)
         IN  /\ y \in BreakRec /\ y.id = x.id /\ y.type = x.type /\ y.ack
             /\ IF x.ack THEN y.thresh = x.thresh ELSE y.thresh >= nowAt
             /\ y.thresh = Acked(x).thresh
             /\ Due(x, type) <=> x.type = type /\ y.thresh <= nowAt
             /\ y.hit <=> x.hit \/ Due(x, type)
<1>1. /\ x.id \in Breaks /\ x.type \in BreakType /\ x.thresh \in Nat
      /\ x.rel \in BOOLEAN /\ x.ack \in BOOLEAN /\ x.hit \in BOOLEAN
      /\ x = [id |-> x.id, type |-> x.type, thresh |-> x.thresh, rel |-> x.rel, ack |-> x.ack, hit |-> x.hit]
  BY DEF BreakRec
<1> DEFINE a == Acked(x)
<1>2. /\ a \in BreakRec /\ a.id = x.id /\ a.type = x.type /\ a.hit = x.hit /\ a.ack
      /\ IF x.ack THEN a.thresh = x.thresh ELSE a.thresh >= nowAt
  <2>1. CASE x.ack
    BY <2>1 DEF Acked
  <2>2. CASE ~x.ack
    <3> DEFINE t == Later(IF x.rel THEN x.thresh + nowAt ELSE x.thresh, nowAt)
    <3>1. a = [x EXCEPT !.ack = TRUE, !.thresh = t]
      BY <2>2 DEF Acked
    <3>2. t \in Nat /\ t >= nowAt
      BY <1>1 DEF Later
    <3> HIDE DEF t, a
    <3>3. a = [id |-> x.id, type |-> x.type, thresh |-> t, rel |-> x.rel, ack |-> TRUE, hit |-> x.hit]
      BY <1>1, <3>1
    <3>4. a \in BreakRec
      BY <1>1, <3>2, <3>3 DEF BreakRec
    <3> QED BY <2>2, <3>2, <3>3, <3>4
  <2> QED BY <2>1, <2>2
<1> HIDE DEF a
<1>3. Due(x, type) <=> x.type = type /\ a.thresh <= nowAt
  BY DEF Due, a
<1> DEFINE y == Checked(x, type)
<1>4. /\ y \in BreakRec /\ y.id = a.id /\ y.type = a.type /\ y.thresh = a.thresh /\ y.ack = a.ack
      /\ y.hit <=> a.hit \/ Due(x, type)
  <2>1. CASE Due(x, type)
    <3>1. y = [a EXCEPT !.hit = TRUE]
      BY <2>1 DEF Checked, a
    <3> HIDE DEF y
    <3> QED BY <1>2, <2>1, <3>1 DEF BreakRec
  <2>2. CASE ~Due(x, type)
    <3>1. y = a
      BY <2>2 DEF Checked, a
    <3> QED BY <1>2, <2>2, <3>1
  <2> QED BY <2>1, <2>2
<1> HIDE DEF y
<1>5. /\ y \in BreakRec /\ y.id = x.id /\ y.type = x.type /\ y.ack
      /\ IF x.ack THEN y.thresh = x.thresh ELSE y.thresh >= nowAt
      /\ y.thresh = Acked(x).thresh
      /\ Due(x, type) <=> x.type = type /\ y.thresh <= nowAt
      /\ y.hit <=> x.hit \/ Due(x, type)
  BY <1>2, <1>3, <1>4 DEF a
<1> QED BY <1>5 DEF y

(* ... and says of it: the acknowledgement, if it was not given yet, before *)
(* the hit, if it was not yet hit.                                          *)
AckOf(x) == [cmd |-> "ackBreak", id |-> x.id, time |-> Acked(x).thresh]
HitOf(x) == [cmd |-> "hitBreak", id |-> x.id, time |-> nowAt]

LEMMA AnnouncedBreak ==
  ASSUME nowAt \in Nat, NEW x \in BreakRec, NEW type
  PROVE  /\ Announced(x, type) \in Seq(PyMsg)
         /\ \A i \in 1 .. Len(Announced(x, type)) :
              \/ Announced(x, type)[i] = AckOf(x) /\ ~x.ack
              \/ Announced(x, type)[i] = HitOf(x) /\ Due(x, type) /\ ~x.hit
         /\ \A i, j \in 1 .. Len(Announced(x, type)) : i < j =>
              Announced(x, type)[i] = AckOf(x) /\ Announced(x, type)[j] = HitOf(x)
         /\ ~x.ack => \E i \in 1 .. Len(Announced(x, type)) : Announced(x, type)[i] = AckOf(x)
<1>1. AckOf(x) \in PyMsg /\ HitOf(x) \in PyMsg
  <2>1. x.id \in Breaks
    BY DEF BreakRec
  <2>2. Acked(x).thresh \in Nat
    <3>1. Checked(x, type) \in BreakRec /\ Checked(x, type).thresh = Acked(x).thresh
      BY CheckedRecord
    <3> QED BY <3>1 DEF BreakRec
  <2> QED BY <2>1, <2>2 DEF AckOf, HitOf, PyMsg
<1> DEFINE ack == IF x.ack THEN <<>> ELSE <<AckOf(x)>>
           hit == IF Due(x, type) /\ ~x.hit THEN <<HitOf(x)>> ELSE <<>>
<1>2. Announced(x, type) = ack \o hit
  BY DEF Announced, AckOf, HitOf
<1>3. /\ ack \in Seq(PyMsg) /\ hit \in Seq(PyMsg)
      /\ Len(ack) = IF x.ack THEN 0 ELSE 1
      /\ Len(hit) = IF Due(x, type) /\ ~x.hit THEN 1 ELSE 0
      /\ ~x.ack => ack[1] = AckOf(x)
      /\ Due(x, type) /\ ~x.hit => hit[1] = HitOf(x)
  BY <1>1
<1> HIDE DEF ack, hit
<1>4. /\ ack \o hit \in Seq(PyMsg) /\ Len(ack \o hit) = Len(ack) + Len(hit)
      /\ \A i \in 1 .. Len(ack) + Len(hit) :
           (ack \o hit)[i] = IF i <= Len(ack) THEN ack[i] ELSE hit[i - Len(ack)]
  BY <1>3, ConcatProperties
<1> QED BY <1>2, <1>3, <1>4

(* All that checkBreak says.                                                *)
News(type) == FlattenSeq([i \in 1 .. Len(breakList) |-> Announced(breakList[i], type)])

LEMMA NewsOfBreaks ==
  ASSUME nowAt \in Nat, breakList \in Seq(BreakRec), ListInv, NEW type
  PROVE  /\ News(type) \in Seq(PyMsg)
         /\ \A k \in 1 .. Len(News(type)) : \E x \in Msgs(breakList) :
              \/ News(type)[k] = AckOf(x) /\ ~x.ack
              \/ News(type)[k] = HitOf(x) /\ Due(x, type) /\ ~x.hit
         /\ \A k, l \in 1 .. Len(News(type)) : k < l /\ News(type)[k].id = News(type)[l].id =>
              News(type)[k].cmd = "ackBreak" /\ News(type)[l].cmd = "hitBreak"
         /\ \A x \in Msgs(breakList) : ~x.ack =>
              \E k \in 1 .. Len(News(type)) : News(type)[k] = AckOf(x)
<1> DEFINE ss == [i \in 1 .. Len(breakList) |-> Announced(breakList[i], type)]
<1>1. Len(breakList) \in Nat /\ \A i \in 1 .. Len(breakList) : breakList[i] \in BreakRec /\ breakList[i] \in Msgs(breakList)
  BY LenProperties, ElementOfSeq DEF Msgs
<1>2. \A x : AckOf(x).cmd = "ackBreak" /\ AckOf(x).id = x.id /\ HitOf(x).cmd = "hitBreak" /\ HitOf(x).id = x.id
  BY DEF AckOf, HitOf
<1>3. /\ \A i \in 1 .. Len(breakList) : ss[i] = Announced(breakList[i], type) /\ ss[i] \in Seq(PyMsg)
      /\ ss \in Seq(Seq(PyMsg)) /\ Len(ss) = Len(breakList)
  <2>1. \A i \in 1 .. Len(breakList) : ss[i] = Announced(breakList[i], type)
    OBVIOUS
  <2>2. \A i \in 1 .. Len(breakList) : Announced(breakList[i], type) \in Seq(PyMsg)
    BY <1>1, AnnouncedBreak
  <2>3. ss \in [1 .. Len(breakList) -> Seq(PyMsg)]
    BY <2>2
  <2> QED BY <1>1, <2>1, <2>2, <2>3
<1>4. \A i \in 1 .. Len(breakList) :
        /\ \A j \in 1 .. Len(ss[i]) :
              \/ ss[i][j] = AckOf(breakList[i]) /\ ~breakList[i].ack
              \/ ss[i][j] = HitOf(breakList[i]) /\ Due(breakList[i], type) /\ ~breakList[i].hit
        /\ \A j, l \in 1 .. Len(ss[i]) : j < l =>
              ss[i][j] = AckOf(breakList[i]) /\ ss[i][l] = HitOf(breakList[i])
        /\ ~breakList[i].ack => \E j \in 1 .. Len(ss[i]) : ss[i][j] = AckOf(breakList[i])
  <2> SUFFICES ASSUME NEW i \in 1 .. Len(breakList)
               PROVE  /\ \A j \in 1 .. Len(ss[i]) :
                            \/ ss[i][j] = AckOf(breakList[i]) /\ ~breakList[i].ack
                            \/ ss[i][j] = HitOf(breakList[i]) /\ Due(breakList[i], type) /\ ~breakList[i].hit
                      /\ \A j, l \in 1 .. Len(ss[i]) : j < l =>
                            ss[i][j] = AckOf(breakList[i]) /\ ss[i][l] = HitOf(breakList[i])
                      /\ ~breakList[i].ack => \E j \in 1 .. Len(ss[i]) : ss[i][j] = AckOf(breakList[i])
    OBVIOUS
  <2> DEFINE x == breakList[i]
  <2>1. x \in BreakRec
    BY <1>1
  <2>2. ss[i] = Announced(x, type)
    BY <1>3
  <2> HIDE DEF x
  <2>3. /\ \A j \in 1 .. Len(Announced(x, type)) :
              \/ Announced(x, type)[j] = AckOf(x) /\ ~x.ack
              \/ Announced(x, type)[j] = HitOf(x) /\ Due(x, type) /\ ~x.hit
        /\ \A j, l \in 1 .. Len(Announced(x, type)) : j < l =>
              Announced(x, type)[j] = AckOf(x) /\ Announced(x, type)[l] = HitOf(x)
        /\ ~x.ack => \E j \in 1 .. Len(Announced(x, type)) : Announced(x, type)[j] = AckOf(x)
    BY <2>1, AnnouncedBreak
  <2> HIDE DEF ss
  <2> QED BY <2>2, <2>3 DEF x
<1> DEFINE news == FlattenSeq(ss)
<1>5. news = News(type)
  BY DEF News
<1> HIDE DEF ss, news
<1>6. CASE Len(breakList) = 0
  <2>1. news = ss
    BY <1>3, <1>6 DEF FlattenSeq, news
  <2>2. news = <<>> /\ Len(news) = 0
    BY <1>3, <1>6, <2>1, EmptySeq
  <2>3. news \in Seq(PyMsg) /\ Msgs(breakList) = {} /\ \A k \in 1 .. Len(news) : FALSE
    BY <1>6, <2>2 DEF Msgs
  <2> QED BY <1>5, <2>3
<1>7. CASE Len(breakList) # 0
  <2>1. news \in Seq(PyMsg) /\ Lists(news, ss, Len(ss))
    BY <1>1, <1>3, <1>7, FlattenLists DEF news
  <2>2. PICK which \in [1 .. Len(news) -> 1 .. Len(breakList)], place \in [1 .. Len(news) -> Nat] :
          /\ \A k \in 1 .. Len(news) :
               place[k] \in 1 .. Len(ss[which[k]]) /\ news[k] = ss[which[k]][place[k]]
          /\ \A k, l \in 1 .. Len(news) : k < l =>
               which[k] < which[l] \/ (which[k] = which[l] /\ place[k] < place[l])
          /\ \A i \in 1 .. Len(breakList) : \A j \in 1 .. Len(ss[i]) :
               \E k \in 1 .. Len(news) : which[k] = i /\ place[k] = j
    <3>1. Lists(news, ss, Len(breakList))
      BY <1>3, <2>1
    <3> QED BY <3>1, ZenonT(40) DEF Lists, ListsBy
  <2>a. \A k \in 1 .. Len(news) :
               place[k] \in 1 .. Len(ss[which[k]]) /\ news[k] = ss[which[k]][place[k]]
    BY <2>2, Zenon
  <2>b. \A k, l \in 1 .. Len(news) : k < l =>
               which[k] < which[l] \/ (which[k] = which[l] /\ place[k] < place[l])
    BY <2>2, Zenon
  <2>c. \A i \in 1 .. Len(breakList) : \A j \in 1 .. Len(ss[i]) :
               \E k \in 1 .. Len(news) : which[k] = i /\ place[k] = j
    BY <2>2, Zenon
  <2>d. \A i \in 1 .. Len(breakList) : \A j \in 1 .. Len(ss[i]) :
              \/ ss[i][j] = AckOf(breakList[i]) /\ ~breakList[i].ack
              \/ ss[i][j] = HitOf(breakList[i]) /\ Due(breakList[i], type) /\ ~breakList[i].hit
    BY <1>4, Zenon
  <2>3. \A k \in 1 .. Len(news) : which[k] \in 1 .. Len(breakList)
    OBVIOUS
  <2>4. \A k \in 1 .. Len(news) :
          \/ news[k] = AckOf(breakList[which[k]]) /\ ~breakList[which[k]].ack
          \/ news[k] = HitOf(breakList[which[k]]) /\ Due(breakList[which[k]], type) /\ ~breakList[which[k]].hit
    BY <2>a, <2>d, <2>3, Zenon
  <2>5. \A k \in 1 .. Len(news) : \E x \in Msgs(breakList) :
              \/ news[k] = AckOf(x) /\ ~x.ack
              \/ news[k] = HitOf(x) /\ Due(x, type) /\ ~x.hit
    BY <1>1, <2>3, <2>4, Zenon
  <2>6. \A k \in 1 .. Len(news) : news[k].id = breakList[which[k]].id
    BY <1>2, <2>4, Zenon
  <2>7. ASSUME NEW k \in 1 .. Len(news), NEW l \in 1 .. Len(news), k < l, news[k].id = news[l].id
        PROVE  news[k].cmd = "ackBreak" /\ news[l].cmd = "hitBreak"
    <3>1. which[k] = which[l]
      <4>1. breakList[which[k]].id = breakList[which[l]].id
        BY <2>6, <2>7, Zenon
      <4> QED BY <2>3, <4>1, Zenon DEF ListInv
    <3>2. which[k] \in Nat
      BY <2>3
    <3>3. place[k] < place[l]
      <4>1. which[k] < which[l] \/ place[k] < place[l]
        BY <2>b, <2>7, Zenon
      <4> QED BY <3>1, <3>2, <4>1
    <3>4. place[k] \in 1 .. Len(ss[which[k]]) /\ place[l] \in 1 .. Len(ss[which[k]])
          /\ news[k] = ss[which[k]][place[k]] /\ news[l] = ss[which[k]][place[l]]
      BY <2>a, <3>1, Zenon
    <3>5. news[k] = AckOf(breakList[which[k]]) /\ news[l] = HitOf(breakList[which[k]])
      BY <1>4, <2>3, <3>3, <3>4, Zenon
    <3> QED BY <1>2, <3>5, Zenon
  <2>8. ASSUME NEW x \in Msgs(breakList), ~x.ack
        PROVE  \E k \in 1 .. Len(news) : news[k] = AckOf(x)
    <3>1. PICK i \in 1 .. Len(breakList) : x = breakList[i]
      BY DEF Msgs
    <3>2. PICK j \in 1 .. Len(ss[i]) : ss[i][j] = AckOf(x)
      BY <1>4, <2>8, <3>1, Zenon
    <3>3. PICK k \in 1 .. Len(news) : which[k] = i /\ place[k] = j
      BY <2>c, Zenon
    <3> QED BY <2>a, <3>2, <3>3, Zenon
  <2>9. /\ \A k, l \in 1 .. Len(news) : k < l /\ news[k].id = news[l].id =>
              news[k].cmd = "ackBreak" /\ news[l].cmd = "hitBreak"
        /\ \A x \in Msgs(breakList) : ~x.ack =>
              \E k \in 1 .. Len(news) : news[k] = AckOf(x)
    BY <2>7, <2>8
  <2> QED BY <1>5, <2>1, <2>5, <2>9
<1> QED BY <1>6, <1>7

(* One walk of checkBreak, in the phase of the type it is called with.      *)
LEMMA CheckStep ==
  ASSUME ChannelInv, NEW type \in BreakType, phase = type,
         NEW tail \in Seq(PyMsg), \A m \in Msgs(tail) : m.cmd \notin BreakPy,
         CheckBreak(type, tail), UNCHANGED <<pyVars, toSim, nowAt>>, UNCHANGED <<channelVars, late>>,
         phase' = CASE type = "hold"   -> IF AnyDue("hold") THEN "hold" ELSE "stop"
                    [] type = "stop"   -> "finish"
                    [] type = "finish" -> IF AnyDue("finish") THEN "finished" ELSE "idle"
  PROVE  ChannelInv'
<1>1. /\ UNCHANGED <<requests, breaks, thresh, stopped, now, ctrlRuns, toSim, nowAt>>
      /\ UNCHANGED <<breakPoint, offset, pos, last, late>>
  BY DEF pyVars, breakVars, channelVars
<1>2. nowAt \in Nat /\ breakList \in Seq(BreakRec) /\ toPy \in Seq(PyMsg) /\ breaks \subseteq requests /\ ListInv
  BY DEF ChannelInv, ChannelTypeOK
<1>3. Len(breakList) \in Nat /\ Len(toPy) \in Nat /\ Len(tail) \in Nat
  BY <1>2, LenProperties
<1>4. /\ \A i \in 1 .. Len(breakList) : breakList[i] \in BreakRec /\ breakList[i] \in Msgs(breakList)
      /\ \A x \in Msgs(breakList) : x \in BreakRec /\ x.id \in Breaks /\ x.thresh \in Nat
  <2>1. \A x \in Msgs(breakList) : x \in BreakRec
    BY <1>2, MsgsTyped
  <2> QED BY <2>1 DEF Msgs, BreakRec
(* The records.                                                             *)
<1> DEFINE y(x) == Checked(x, type)
<1>5. \A x \in Msgs(breakList) :
        /\ y(x) \in BreakRec /\ y(x).id = x.id /\ y(x).type = x.type /\ y(x).ack
        /\ IF x.ack THEN y(x).thresh = x.thresh ELSE y(x).thresh >= nowAt
        /\ y(x).thresh = Acked(x).thresh
        /\ Due(x, type) <=> x.type = type /\ y(x).thresh <= nowAt
        /\ y(x).hit <=> x.hit \/ Due(x, type)
  BY <1>2, <1>4, CheckedRecord
<1>6. breakList' = [i \in 1 .. Len(breakList) |-> y(breakList[i])]
  BY DEF CheckBreak
<1> HIDE DEF y
<1>7. /\ Len(breakList') = Len(breakList) /\ breakList' \in Seq(BreakRec)
      /\ \A i \in 1 .. Len(breakList) : breakList'[i] = y(breakList[i])
  <2>1. \A i \in 1 .. Len(breakList) : y(breakList[i]) \in BreakRec
    BY <1>4, <1>5
  <2> QED BY <1>3, <1>6, <2>1
<1>8. /\ \A x \in Msgs(breakList) : y(x) \in Msgs(breakList')
      /\ \A z \in Msgs(breakList') : \E x \in Msgs(breakList) : z = y(x)
  BY <1>7 DEF Msgs
<1>9. \A x \in Msgs(breakList) : \A t : Due(x, t) => AnyDue(t)
  BY DEF Msgs, AnyDue
<1>10. \A x \in Msgs(breakList) : x.id \in requests /\ RecordOK(x)
  BY <1>2 DEF ListInv
<1>11. \A x \in Msgs(breakList) :
         /\ ~x.ack => x.id \in breaks /\ thresh[x.id] = None /\ stopped[x.id] = None
         /\ ~x.hit => stopped[x.id] = None
  BY <1>4, <1>10 DEF ChannelInv, KnownInv, RecordOK
(* The messages.                                                            *)
<1> DEFINE news == News(type)
<1>12. /\ news \in Seq(PyMsg) /\ Len(news) \in Nat
       /\ \A k \in 1 .. Len(news) : \E x \in Msgs(breakList) :
            \/ news[k] = AckOf(x) /\ ~x.ack
            \/ news[k] = HitOf(x) /\ Due(x, type) /\ ~x.hit
       /\ \A k, l \in 1 .. Len(news) : k < l /\ news[k].id = news[l].id =>
            news[k].cmd = "ackBreak" /\ news[l].cmd = "hitBreak"
       /\ \A x \in Msgs(breakList) : ~x.ack => \E k \in 1 .. Len(news) : news[k] = AckOf(x)
  BY <1>2, NewsOfBreaks, LenProperties
<1>13. toPy' = (toPy \o news) \o tail
  <2>1. toPy' = toPy \o news \o tail
    BY DEF CheckBreak, News
  <2> QED BY <2>1
<1> HIDE DEF news
<1>14. /\ \A x \in Msgs(breakList) :
            /\ AckOf(x).cmd = "ackBreak" /\ AckOf(x).id = x.id /\ AckOf(x).time = y(x).thresh
            /\ HitOf(x).cmd = "hitBreak" /\ HitOf(x).id = x.id /\ HitOf(x).time = nowAt
  BY <1>5 DEF AckOf, HitOf
<1>15. /\ toPy' \in Seq(PyMsg) /\ Len(toPy') = (Len(toPy) + Len(news)) + Len(tail)
       /\ \A i \in 1 .. Len(toPy) : i \in 1 .. Len(toPy') /\ toPy'[i] = toPy[i]
       /\ \A k \in 1 .. Len(news) : Len(toPy) + k \in 1 .. Len(toPy') /\ toPy'[Len(toPy) + k] = news[k]
       /\ \A i \in 1 .. Len(toPy') : i > Len(toPy) + Len(news) => toPy'[i].cmd \notin BreakPy
  <2> DEFINE both == toPy \o news
  <2>1. /\ both \in Seq(PyMsg) /\ Len(both) = Len(toPy) + Len(news)
        /\ \A i \in 1 .. Len(toPy) + Len(news) :
             both[i] = IF i <= Len(toPy) THEN toPy[i] ELSE news[i - Len(toPy)]
    BY <1>2, <1>12, ConcatProperties
  <2> HIDE DEF both
  <2>2. /\ both \o tail \in Seq(PyMsg) /\ Len(both \o tail) = Len(both) + Len(tail)
        /\ \A i \in 1 .. Len(both) + Len(tail) :
             (both \o tail)[i] = IF i <= Len(both) THEN both[i] ELSE tail[i - Len(both)]
    BY <2>1, ConcatProperties
  <2>3. toPy' = both \o tail
    BY <1>13 DEF both
  <2>4. \A i \in 1 .. Len(toPy) : i \in 1 .. Len(toPy') /\ toPy'[i] = toPy[i]
    BY <1>3, <1>12, <2>1, <2>2, <2>3
  <2>5. \A k \in 1 .. Len(news) : Len(toPy) + k \in 1 .. Len(toPy') /\ toPy'[Len(toPy) + k] = news[k]
    <3> SUFFICES ASSUME NEW k \in 1 .. Len(news)
                 PROVE  Len(toPy) + k \in 1 .. Len(toPy') /\ toPy'[Len(toPy) + k] = news[k]
      OBVIOUS
    <3>1. /\ Len(toPy) + k \in 1 .. Len(toPy) + Len(news) /\ ~(Len(toPy) + k <= Len(toPy))
          /\ (Len(toPy) + k) - Len(toPy) = k
      BY <1>3, <1>12
    <3>2. both[Len(toPy) + k] = news[k]
      BY <2>1, <3>1
    <3>3. Len(toPy) + k \in 1 .. Len(both) + Len(tail) /\ Len(toPy) + k <= Len(both)
      BY <1>3, <1>12, <2>1
    <3> QED BY <2>2, <2>3, <3>2, <3>3
  <2>6. \A i \in 1 .. Len(toPy') : i > Len(toPy) + Len(news) => toPy'[i].cmd \notin BreakPy
    <3> SUFFICES ASSUME NEW i \in 1 .. Len(toPy'), i > Len(toPy) + Len(news)
                 PROVE  toPy'[i].cmd \notin BreakPy
      OBVIOUS
    <3>1. i \in 1 .. Len(both) + Len(tail) /\ ~(i <= Len(both)) /\ i - Len(both) \in 1 .. Len(tail)
      BY <1>3, <1>12, <2>1, <2>2, <2>3
    <3>2. toPy'[i] = tail[i - Len(both)]
      BY <2>2, <2>3, <3>1
    <3> QED BY <3>1, <3>2 DEF Msgs
  <2> QED BY <2>1, <2>2, <2>3, <2>4, <2>5, <2>6
<1>16. \A i \in 1 .. Len(toPy') : toPy'[i].cmd \in BreakPy =>
         i \in 1 .. Len(toPy) \/ i - Len(toPy) \in 1 .. Len(news)
  BY <1>3, <1>12, <1>15
<1>17. /\ Msgs(toPy) \subseteq Msgs(toPy')
       /\ \A m \in Msgs(toPy') : m.cmd \in BreakPy =>
            \/ m \in Msgs(toPy)
            \/ \E x \in Msgs(breakList) :
                 \/ m = AckOf(x) /\ ~x.ack
                 \/ m = HitOf(x) /\ Due(x, type) /\ ~x.hit
  <2>1. Msgs(toPy) \subseteq Msgs(toPy')
    BY <1>15 DEF Msgs
  <2>2. ASSUME NEW i \in 1 .. Len(toPy'), toPy'[i].cmd \in BreakPy
        PROVE  \/ toPy'[i] \in Msgs(toPy)
               \/ \E x \in Msgs(breakList) :
                    \/ toPy'[i] = AckOf(x) /\ ~x.ack
                    \/ toPy'[i] = HitOf(x) /\ Due(x, type) /\ ~x.hit
    <3>1. CASE i \in 1 .. Len(toPy)
      BY <1>15, <3>1 DEF Msgs
    <3>2. CASE i - Len(toPy) \in 1 .. Len(news)
      <4>1. Len(toPy) + (i - Len(toPy)) = i
        BY <1>3, <3>2
      <4>2. toPy'[i] = news[i - Len(toPy)]
        BY <1>15, <3>2, <4>1
      <4> QED BY <1>12, <3>2, <4>2
    <3> QED BY <1>16, <2>2, <3>1, <3>2
  <2> QED BY <2>1, <2>2 DEF Msgs
(* The invariant.                                                           *)
<1>18. ChannelTypeOK'
  <2>1. phase' \in {"hold", "stop", "finish", "idle", "finished", "exited"}
    BY DEF BreakType
  <2> QED BY <1>1, <1>7, <1>15, <2>1 DEF ChannelInv, ChannelTypeOK
<1>19. ToSimInv'
  <2>1. AskedOnce'
    BY <1>1 DEF ChannelInv, ToSimInv, AskedOnce
  <2>2. Asked'
    BY <1>1, <1>5, <1>8 DEF ChannelInv, ToSimInv, Asked
  <2>3. Dropped'
    BY <1>1, <1>5, <1>8 DEF ChannelInv, ToSimInv, Dropped
  <2>4. Present'
    BY <1>1, <1>5, <1>8 DEF ChannelInv, ToSimInv, Present
  <2>5. FrameHeld'
    BY <1>1, <1>5, <1>8 DEF ChannelInv, ToSimInv, FrameHeld
  <2>6. ItemAhead'
    BY <1>1, <1>5, <1>8 DEF ChannelInv, ToSimInv, ItemAhead
  <2> QED BY <2>1, <2>2, <2>3, <2>4, <2>5, <2>6 DEF ToSimInv
<1>20. AckThenHit'
  <2> SUFFICES ASSUME NEW i \in 1 .. Len(toPy'), NEW j \in 1 .. Len(toPy'), i < j,
                      toPy'[i].cmd \in BreakPy, toPy'[j].cmd \in BreakPy, toPy'[i].id = toPy'[j].id
               PROVE  toPy'[i].cmd = "ackBreak" /\ toPy'[j].cmd = "hitBreak"
    BY DEF AckThenHit
  <2>1. CASE j \in 1 .. Len(toPy)
    <3>1. i \in 1 .. Len(toPy)
      BY <1>3, <2>1
    <3> QED BY <1>15, <2>1, <3>1 DEF ChannelInv, ToPyInv, AckThenHit
  <2>2. CASE i \in 1 .. Len(toPy) /\ j - Len(toPy) \in 1 .. Len(news)
    <3>1. Len(toPy) + (j - Len(toPy)) = j
      BY <1>3, <2>2
    <3>2. toPy'[i] = toPy[i] /\ toPy[i] \in Msgs(toPy) /\ toPy'[j] = news[j - Len(toPy)]
      BY <1>15, <2>2, <3>1 DEF Msgs
    <3>3. PICK x \in Msgs(breakList) :
            \/ toPy'[j] = AckOf(x) /\ ~x.ack
            \/ toPy'[j] = HitOf(x) /\ Due(x, type) /\ ~x.hit
      BY <1>12, <2>2, <3>2
    <3>4. toPy[i].id = x.id
      BY <1>14, <3>2, <3>3
    <3>5. CASE toPy[i].cmd = "ackBreak"
      <4>1. x.ack
        BY <1>2, <3>2, <3>4, <3>5, OneRecord DEF ChannelInv, ToPyInv, AckOnWay
      <4> QED BY <1>14, <3>2, <3>3, <3>5, <4>1
    <3>6. CASE toPy[i].cmd = "hitBreak"
      <4>1. x.ack /\ x.hit
        BY <1>2, <3>2, <3>4, <3>6, OneRecord DEF ChannelInv, ToPyInv, HitOnWay
      <4> QED BY <3>3, <4>1
    <3> QED BY <3>2, <3>5, <3>6 DEF BreakPy
  <2>3. CASE i - Len(toPy) \in 1 .. Len(news) /\ j - Len(toPy) \in 1 .. Len(news)
    <3>1. /\ Len(toPy) + (i - Len(toPy)) = i /\ Len(toPy) + (j - Len(toPy)) = j
          /\ i - Len(toPy) < j - Len(toPy)
      BY <1>3, <2>3
    <3>2. toPy'[i] = news[i - Len(toPy)] /\ toPy'[j] = news[j - Len(toPy)]
      BY <1>15, <2>3, <3>1
    <3> QED BY <1>12, <2>3, <3>1, <3>2
  <2>4. j \in 1 .. Len(toPy) \/ (j - Len(toPy) \in 1 .. Len(news)
          /\ (i \in 1 .. Len(toPy) \/ i - Len(toPy) \in 1 .. Len(news)))
    BY <1>16
  <2> QED BY <2>1, <2>2, <2>3, <2>4
<1>21. AckOnWay'
  <2> SUFFICES ASSUME NEW m \in Msgs(toPy'), m.cmd = "ackBreak"
               PROVE  /\ m.id \in breaks /\ thresh[m.id] = None /\ stopped[m.id] = None
                      /\ \E z \in Msgs(breakList') : z.id = m.id /\ z.ack /\ z.thresh = m.time
    BY <1>1 DEF AckOnWay
  <2>1. CASE m \in Msgs(toPy)
    <3>1. /\ m.id \in breaks /\ thresh[m.id] = None /\ stopped[m.id] = None
          /\ \E x \in Msgs(breakList) : x.id = m.id /\ x.ack /\ x.thresh = m.time
      BY <2>1 DEF ChannelInv, ToPyInv, AckOnWay
    <3>2. PICK x \in Msgs(breakList) : x.id = m.id /\ x.ack /\ x.thresh = m.time
      BY <3>1
    <3>3. y(x).id = m.id /\ y(x).ack /\ y(x).thresh = m.time /\ y(x) \in Msgs(breakList')
      BY <1>5, <1>8, <3>2
    <3> QED BY <3>1, <3>3
  <2>2. CASE m \notin Msgs(toPy)
    <3>1. PICK x \in Msgs(breakList) : m = AckOf(x) /\ ~x.ack
      BY <1>14, <1>17, <2>2 DEF BreakPy
    <3>2. y(x).id = m.id /\ y(x).ack /\ y(x).thresh = m.time /\ y(x) \in Msgs(breakList')
      BY <1>5, <1>8, <1>14, <3>1
    <3>3. m.id = x.id
      BY <1>14, <3>1
    <3> QED BY <1>11, <3>1, <3>2, <3>3
  <2> QED BY <2>1, <2>2
<1>22. HitOnWay'
  <2> SUFFICES ASSUME NEW m \in Msgs(toPy'), m.cmd = "hitBreak"
               PROVE  /\ m.id \in requests /\ stopped[m.id] = None
                      /\ m.id \in breaks => \E z \in Msgs(breakList') : z.id = m.id
                      /\ \A z \in Msgs(breakList') : z.id = m.id =>
                           /\ z.ack /\ z.hit
                           /\ z.thresh <= m.time /\ m.time <= z.thresh + TickPeriod
                           /\ z.type = "hold" => m.time = nowAt
    BY <1>1 DEF HitOnWay
  <2>1. CASE m \in Msgs(toPy)
    <3>1. /\ m.id \in requests /\ stopped[m.id] = None
          /\ m.id \in breaks => \E x \in Msgs(breakList) : x.id = m.id
      BY <2>1 DEF ChannelInv, ToPyInv, HitOnWay
    <3>2. m.id \in breaks => \E z \in Msgs(breakList') : z.id = m.id
      BY <1>5, <1>8, <3>1
    <3>3. ASSUME NEW z \in Msgs(breakList'), z.id = m.id
          PROVE  /\ z.ack /\ z.hit
                 /\ z.thresh <= m.time /\ m.time <= z.thresh + TickPeriod
                 /\ z.type = "hold" => m.time = nowAt
      <4>1. PICK x \in Msgs(breakList) : z = y(x)
        BY <1>8
      <4>2. x.id = m.id
        BY <1>5, <3>3, <4>1
      <4>3. /\ x.ack /\ x.hit
            /\ x.thresh <= m.time /\ m.time <= x.thresh + TickPeriod
            /\ x.type = "hold" => m.time = nowAt
        BY <2>1, <4>2 DEF ChannelInv, ToPyInv, HitOnWay
      <4>4. z.ack /\ z.hit /\ z.thresh = x.thresh /\ z.type = x.type
        BY <1>5, <4>1, <4>3
      <4> QED BY <4>3, <4>4
    <3> QED BY <3>1, <3>2, <3>3
  <2>2. CASE m \notin Msgs(toPy)
    <3>1. PICK x \in Msgs(breakList) : m = HitOf(x) /\ Due(x, type) /\ ~x.hit
      BY <1>14, <1>17, <2>2 DEF BreakPy
    <3>2. m.id = x.id /\ m.time = nowAt
      BY <1>14, <3>1
    <3>3. y(x) \in Msgs(breakList') /\ y(x).id = m.id /\ y(x).ack /\ y(x).hit /\ y(x).thresh <= m.time
      BY <1>5, <1>8, <3>1, <3>2
    <3>4. m.time <= y(x).thresh + TickPeriod
      <4>1. y(x).thresh \in Nat
        BY <1>5 DEF BreakRec
      <4>2. CASE x.ack
        <5>1. nowAt <= x.thresh + TickPeriod /\ y(x).thresh = x.thresh
          BY <1>5, <1>10, <3>1, <4>2 DEF RecordOK
        <5> QED BY <3>2, <5>1
      <4>3. CASE ~x.ack
        <5>1. nowAt <= y(x).thresh
          BY <1>2, <1>5, <4>1, <4>3
        <5> QED BY <1>2, <3>2, <4>1, <5>1, NoneApart
      <4> QED BY <4>2, <4>3
    <3>5. ASSUME NEW z \in Msgs(breakList'), z.id = m.id PROVE z = y(x)
      <4>1. PICK w \in Msgs(breakList) : z = y(w)
        BY <1>8
      <4>2. w.id = x.id
        BY <1>5, <3>2, <3>5, <4>1
      <4>3. w = x
        BY <1>2, <4>2, OneRecord
      <4> QED BY <4>1, <4>3
    <3> QED BY <1>10, <1>11, <3>1, <3>2, <3>3, <3>4, <3>5
  <2> QED BY <2>1, <2>2
<1>23. HitAfterAck'
  <2> SUFFICES ASSUME NEW i \in 1 .. Len(toPy'), toPy'[i].cmd = "hitBreak", thresh[toPy'[i].id] = None
               PROVE  \E j \in 1 .. i - 1 : toPy'[j].cmd = "ackBreak" /\ toPy'[j].id = toPy'[i].id
    BY <1>1 DEF HitAfterAck
  <2>1. CASE i \in 1 .. Len(toPy)
    <3>1. PICK j \in 1 .. i - 1 : toPy[j].cmd = "ackBreak" /\ toPy[j].id = toPy[i].id
      BY <1>15, <2>1 DEF ChannelInv, ToPyInv, HitAfterAck
    <3>2. j \in 1 .. Len(toPy)
      BY <1>3, <2>1
    <3> QED BY <1>15, <2>1, <3>1, <3>2
  <2>2. CASE i - Len(toPy) \in 1 .. Len(news)
    <3>1. Len(toPy) + (i - Len(toPy)) = i
      BY <1>3, <2>2
    <3>2. toPy'[i] = news[i - Len(toPy)]
      BY <1>15, <2>2, <3>1
    <3>3. PICK x \in Msgs(breakList) : toPy'[i] = HitOf(x) /\ Due(x, type) /\ ~x.hit
      BY <1>12, <1>14, <2>2, <3>2
    <3>4. toPy'[i].id = x.id /\ thresh[x.id] = None
      BY <1>14, <3>3
    <3>5. CASE x.ack
      <4>1. phase # "exited"
        BY DEF BreakType
      <4>2. PICK m \in Msgs(toPy) : m.cmd = "ackBreak" /\ m.id = x.id
        BY <1>10, <3>4, <3>5, <4>1 DEF RecordOK
      <4>3. PICK j \in 1 .. Len(toPy) : toPy[j] = m
        BY DEF Msgs
      <4>4. j \in 1 .. i - 1
        BY <1>3, <2>2
      <4> QED BY <1>15, <3>4, <4>2, <4>3, <4>4
    <3>6. CASE ~x.ack
      <4>1. PICK k \in 1 .. Len(news) : news[k] = AckOf(x)
        BY <1>12, <3>6
      <4>2. k # i - Len(toPy) /\ ~(i - Len(toPy) < k)
        <5>1. news[k].cmd = "ackBreak" /\ news[k].id = x.id /\ news[i - Len(toPy)].cmd = "hitBreak"
              /\ news[i - Len(toPy)].id = x.id
          BY <1>14, <3>2, <3>3, <4>1
        <5>2. k # i - Len(toPy)
          BY <5>1
        <5>3. ~(i - Len(toPy) < k)
          BY <1>12, <2>2, <5>1
        <5> QED BY <5>2, <5>3
      <4>3. Len(toPy) + k \in 1 .. i - 1
        BY <1>3, <1>12, <2>2, <4>2
      <4>4. toPy'[Len(toPy) + k] = AckOf(x)
        BY <1>15, <4>1
      <4> QED BY <1>14, <3>4, <4>3, <4>4
    <3> QED BY <3>5, <3>6
  <2> QED BY <1>16, <2>1, <2>2 DEF BreakPy
<1>24. ListInv'
  <2>1. \A i, j \in 1 .. Len(breakList') : breakList'[i].id = breakList'[j].id => i = j
    <3>1. \A i \in 1 .. Len(breakList) : breakList'[i].id = breakList[i].id
      BY <1>4, <1>5, <1>7
    <3> QED BY <1>2, <1>7, <3>1 DEF ListInv
  <2>2. ASSUME NEW x \in Msgs(breakList), NEW z, z = y(x)
        PROVE  RecordOK(z)'
    <3>1. /\ z.id = x.id /\ z.type = x.type /\ z.ack
          /\ IF x.ack THEN z.thresh = x.thresh ELSE z.thresh >= nowAt
          /\ Due(x, type) <=> x.type = type /\ z.thresh <= nowAt
          /\ z.hit <=> x.hit \/ Due(x, type)
      BY <1>5, <2>2
    <3>2. z.thresh \in Nat /\ x.thresh \in Nat /\ x.id \in Breaks /\ x.type \in BreakType
      BY <1>4, <1>5, <2>2 DEF BreakRec
    <3>3. thresh[z.id] # None => z.ack /\ thresh[z.id] = z.thresh
      BY <1>10, <3>1 DEF RecordOK
    <3>4. stopped[z.id] # None => z.ack /\ z.hit /\ (z.type = "hold" => stopped[z.id] = nowAt)
      BY <1>10, <3>1 DEF RecordOK
    <3>5. z.hit => z.ack /\ (z.type = "hold" => phase' = "hold" /\ z.thresh <= nowAt)
      <4> SUFFICES ASSUME z.hit, z.type = "hold" PROVE phase' = "hold" /\ z.thresh <= nowAt
        BY <3>1
      <4>1. type = "hold" /\ z.thresh <= nowAt
        BY <1>10, <3>1 DEF RecordOK
      <4>2. AnyDue("hold")
        BY <1>9, <3>1, <4>1
      <4> QED BY <4>1, <4>2
    <3>6. ~z.hit \/ z.type = "hold" => nowAt <= z.thresh + TickPeriod
      <4>1. CASE x.ack
        BY <1>10, <3>1, <4>1 DEF RecordOK
      <4>2. CASE ~x.ack
        BY <1>2, <3>1, <3>2, <4>2, NoneApart
      <4> QED BY <4>1, <4>2
    <3>7. ~z.hit /\ z.thresh < nowAt => Unchecked(z.type)'
      <4> SUFFICES ASSUME ~z.hit, z.thresh < nowAt PROVE Unchecked(z.type)'
        OBVIOUS
      <4>1. z.thresh <= nowAt /\ ~(z.thresh >= nowAt)
        BY <1>2, <3>2
      <4>2. x.type # type /\ x.ack /\ ~x.hit /\ x.thresh < nowAt
        BY <3>1, <4>1
      <4>3. Unchecked(x.type)
        BY <1>10, <4>2 DEF RecordOK
      <4>4. CASE type = "hold"
        <5>1. phase' \in {"hold", "stop"} /\ x.type \in {"stop", "finish"}
          BY <3>2, <4>2, <4>4 DEF BreakType
        <5> QED BY <3>1, <5>1 DEF Unchecked
      <4>5. CASE type = "stop"
        <5>1. phase' = "finish" /\ x.type = "finish"
          BY <4>2, <4>3, <4>5 DEF Unchecked
        <5> QED BY <3>1, <5>1 DEF Unchecked
      <4>6. CASE type = "finish"
        BY <4>2, <4>3, <4>6 DEF Unchecked
      <4> QED BY <4>4, <4>5, <4>6 DEF BreakType
    <3>8. thresh[z.id] # None \/ \E m \in Msgs(toPy') : m.cmd = "ackBreak" /\ m.id = z.id
      <4>1. CASE x.ack
        <5>1. phase # "exited"
          BY DEF BreakType
        <5> QED BY <1>10, <1>17, <3>1, <4>1, <5>1 DEF RecordOK
      <4>2. CASE ~x.ack
        <5>1. PICK k \in 1 .. Len(news) : news[k] = AckOf(x)
          BY <1>12, <4>2
        <5>2. AckOf(x) \in Msgs(toPy')
          BY <1>15, <5>1 DEF Msgs
        <5> QED BY <1>14, <3>1, <5>2
      <4> QED BY <4>1, <4>2
    <3> QED BY <1>1, <3>3, <3>4, <3>5, <3>6, <3>7, <3>8 DEF RecordOK
  <2>3. ASSUME NEW z \in Msgs(breakList') PROVE z.id \in requests' /\ RecordOK(z)'
    <3>1. PICK x \in Msgs(breakList) : z = y(x)
      BY <1>8
    <3>2. z.id \in requests'
      BY <1>1, <1>5, <1>10, <3>1
    <3> QED BY <2>2, <3>1, <3>2
  <2> QED BY <2>1, <2>3 DEF ListInv
<1>25. KnownInv' /\ Lives' /\ FrameOffset' /\ (Margin >= TickPeriod => ItemsOnTime')
  BY <1>1 DEF ChannelInv, KnownInv, PromiseKept, FrameOffset, ItemsOnTime, Lives, ReleasedUnhit
<1> QED BY <1>18, <1>19, <1>20, <1>21, <1>22, <1>23, <1>24, <1>25 DEF ChannelInv, ToPyInv

----------------------------------------------------------------------------
LEMMA RunCtrlStep ==
  ASSUME ChannelInv, RunCtrl, UNCHANGED <<channelVars, late>>
  PROVE  ChannelInv'
<1>1. /\ toPy # <<>> /\ toPy' = Tail(toPy) /\ UNCHANGED <<requests, breaks, waitThresh, simVars>>
      /\ \/ ProcessTock(Head(toPy)) \/ ProcessAck(Head(toPy))
         \/ ProcessHit(Head(toPy)) \/ ProcessShutdown(Head(toPy))
  BY DEF RunCtrl
<1> QED BY <1>1, TockStep, AckStep, HitKnown, HitUnknown, ShutdownStep

LEMMA CtrlRunStep ==
  ASSUME ChannelInv, CtrlRun, UNCHANGED <<channelVars, late>>
  PROVE  ChannelInv'
<1>1. /\ toSim # <<>> /\ toSim' = Tail(toSim) /\ UNCHANGED <<pyVars, nowAt>>
      /\ \/ ReceiveTick(Head(toSim)) \/ ReceiveAddBreak(Head(toSim)) \/ ReceiveRemBreak(Head(toSim))
  BY DEF CtrlRun
<1> QED BY <1>1, TickReceived, AddBreakReceived, RemBreakReceived

LEMMA SimStepStep ==
  ASSUME ChannelInv, SimStep, UNCHANGED <<channelVars, late>>
  PROVE  ChannelInv'
<1>1. CASE Tick
  BY <1>1, TickStep
<1>2. <<>> \in Seq(PyMsg) /\ Msgs(<<>>) = {}
  <2>1. Len(<<>>) = 0
    BY EmptySeq
  <2> QED BY <2>1 DEF Msgs
<1>3. CASE WaitHold
  <2>1. /\ phase = "hold" /\ CheckBreak("hold", <<>>) /\ UNCHANGED <<pyVars, toSim, nowAt>>
        /\ phase' = IF AnyDue("hold") THEN "hold" ELSE "stop"
    BY <1>3 DEF WaitHold
  <2> QED BY <1>2, <2>1, CheckStep DEF BreakType
<1>4. CASE CheckStop
  <2>1. phase = "stop" /\ CheckBreak("stop", <<>>) /\ UNCHANGED <<pyVars, toSim, nowAt>> /\ phase' = "finish"
    BY <1>4 DEF CheckStop
  <2> QED BY <1>2, <2>1, CheckStep DEF BreakType
<1>5. CASE CheckFinish
  <2> DEFINE tail == IF AnyDue("finish") THEN <<[cmd |-> "shutdown"]>> ELSE <<>>
  <2>1. /\ phase = "finish" /\ CheckBreak("finish", tail) /\ UNCHANGED <<pyVars, toSim, nowAt>>
        /\ phase' = IF AnyDue("finish") THEN "finished" ELSE "idle"
    BY <1>5 DEF CheckFinish
  <2>2. tail \in Seq(PyMsg) /\ \A m \in Msgs(tail) : m.cmd \notin BreakPy
    <3>1. CASE AnyDue("finish")
      <4>1. [cmd |-> "shutdown"] \in PyMsg
        BY DEF PyMsg
      <4>2. tail \in Seq(PyMsg) /\ Len(tail) = 1 /\ tail[1].cmd = "shutdown"
        BY <3>1, <4>1
      <4> HIDE DEF tail
      <4> QED BY <4>2 DEF Msgs, BreakPy
    <3>2. CASE ~AnyDue("finish")
      BY <1>2, <3>2
    <3> QED BY <3>1, <3>2
  <2> HIDE DEF tail
  <2> QED BY <2>1, <2>2, CheckStep DEF BreakType
<1>6. CASE Exit
  BY <1>6, ExitStep
<1> QED BY <1>1, <1>3, <1>4, <1>5, <1>6 DEF SimStep

(* Each step keeps the invariant, and moves the Channel only forward.       *)
LEMMA NextChannelInv ==
  ASSUME ChannelInv, [ChannelNext]_allVars
  PROVE  ChannelInv' /\ pos' >= pos
<1>1. \A time \in 0 .. MaxRequest : time \in Nat
  OBVIOUS
<1>2. Relative \subseteq BOOLEAN /\ pos \in Nat
  BY ControlAssumption DEF ChannelInv, ChannelTypeOK
<1>3. UNCHANGED pos => pos' >= pos
  BY <1>2
<1>4. CASE User
  <2>1. UNCHANGED <<breakPoint, offset, pos, items, last, late>>
    BY <1>4 DEF User, channelVars
  <2>2. ASSUME NEW b \in Breaks, NEW type \in BreakType, NEW time \in 0 .. MaxRequest, NEW rel \in Relative,
               Request(b, type, time, rel)
        PROVE  ChannelInv'
    BY <1>1, <1>2, <2>1, <2>2, RequestStep
  <2>3. ASSUME NEW b \in Breaks \ {breakPoint}, UserRelease(b)
        PROVE  ChannelInv'
    <3>1. thresh[b] # None /\ Release(b)
      BY <2>3 DEF UserRelease, ChannelInv, KnownInv, PromiseKept
    <3> QED BY <2>1, <3>1, ReleaseStep
  <2> QED BY <1>3, <1>4, <2>1, <2>2, <2>3 DEF User
<1>5. CASE FrameStart
  <2>1. breakPoint = None /\ UNCHANGED <<offset, pos, items, last, late>>
    BY <1>5 DEF FrameStart
  <2>2. PICK b \in Breaks : Request(b, "hold", 0, TRUE) /\ breakPoint' = b
    BY <1>5 DEF FrameStart
  <2>3. "hold" \in BreakType /\ 0 \in Nat /\ TRUE \in BOOLEAN
    BY DEF BreakType
  <2> QED BY <1>3, <2>1, <2>2, <2>3, RequestStep
<1>6. CASE Promised
  BY <1>3, <1>6, PromisedStep DEF Promised
<1>7. CASE FrameEnd
  <2>1. /\ offset # None /\ Release(breakPoint) /\ UNCHANGED <<pos, items, late>>
        /\ breakPoint' = None /\ offset' = None /\ last' = 0
    BY <1>7 DEF FrameEnd
  <2>2. breakPoint \in Breaks /\ thresh[breakPoint] # None
    BY <2>1 DEF ChannelInv, ChannelTypeOK, FrameOffset
  <2> QED BY <1>3, <2>1, <2>2, ReleaseStep
<1>8. CASE \E time \in 0 .. MaxRequest : SendItem(time)
  BY <1>1, <1>8, SendItemStep
<1>9. CASE Dispatch
  BY <1>3, <1>9, DispatchStep DEF Dispatch, channelVars
<1>10. CASE (RunCtrl \/ CtrlRun \/ SimStep) /\ UNCHANGED <<channelVars, late>>
  BY <1>3, <1>10, RunCtrlStep, CtrlRunStep, SimStepStep DEF channelVars
<1>11. CASE UNCHANGED allVars
  <2>1. /\ UNCHANGED <<requests, breaks, thresh, stopped, now, ctrlRuns, toSim, toPy, nowAt, breakList, phase>>
        /\ UNCHANGED <<breakPoint, offset, pos, last, late>>
    BY <1>11 DEF allVars, vars, pyVars, breakVars, simVars, channelVars
  <2>2. ChannelTypeOK' /\ ToSimInv'
    BY <2>1 DEF ChannelInv, ChannelTypeOK, ToSimInv, AskedOnce, Asked, Dropped, Present, FrameHeld, ItemAhead
  <2>3. ToPyInv'
    BY <2>1 DEF ChannelInv, ToPyInv, AckThenHit, AckOnWay, HitOnWay, HitAfterAck
  <2>4. ListInv'
    BY <2>1 DEF ChannelInv, ListInv, RecordOK, Unchecked
  <2>5. KnownInv' /\ Lives' /\ FrameOffset' /\ (Margin >= TickPeriod => ItemsOnTime')
    BY <2>1 DEF ChannelInv, KnownInv, PromiseKept, FrameOffset, ItemsOnTime, Lives, ReleasedUnhit
  <2> QED BY <1>3, <2>1, <2>2, <2>3, <2>4, <2>5 DEF ChannelInv
<1> QED BY <1>4, <1>5, <1>6, <1>7, <1>8, <1>9, <1>10, <1>11 DEF ChannelNext, Channel

----------------------------------------------------------------------------
(* The invariant holds for every number of Breaks, whatever the margin.     *)
THEOREM ChannelInvariant == ChannelSpec => []ChannelInv
<1>1. ChannelInit => ChannelInv
  BY InitChannelInv
<1>2. ChannelInv /\ [ChannelNext]_allVars => ChannelInv'
  BY NextChannelInv
<1> QED BY <1>1, <1>2, PTL DEF ChannelSpec

(* ctrlProcess throws no "unknown break", and ccProcess raises a KeyError   *)
(* only after a Break was released before its hit was known, as a Channel   *)
(* does that ends a frame (comm.py:465).                                    *)
THEOREM ChannelControlsRun == ChannelSpec => []ControlsRun
<1>1. ChannelInv => ControlsRun
  BY DEF ChannelInv, ChannelTypeOK, ControlsRun, CtrlRuns, RemBreakFinds, Lives
<1> QED BY <1>1, ChannelInvariant, PTL

(* Whenever Breaks are released, ctrlProcess of the simulator finds the     *)
(* break of each remBreak.                                                  *)
THEOREM ChannelBreaksFound == ChannelSpec => []RemBreakFinds
<1>1. ChannelInv => RemBreakFinds
  BY DEF ChannelInv, ChannelTypeOK, RemBreakFinds
<1> QED BY <1>1, ChannelInvariant, PTL

(* While Python holds on to a hold it knows to be hit, simulation time does *)
(* not move.                                                                *)
THEOREM ChannelHolds == ChannelSpec => []HoldHolds
<1>1. ChannelInv => HoldHolds
  <2> SUFFICES ASSUME ChannelInv, NEW b \in breaks, stopped[b] # None,
                      NEW i \in Index(b), breakList[i].type = "hold"
               PROVE  nowAt = stopped[b] /\ phase = "hold"
    BY DEF HoldHolds
  <2>1. breakList[i] \in Msgs(breakList) /\ breakList[i].id = b
    BY DEF Index, Msgs
  <2>2. RecordOK(breakList[i])
    BY <2>1 DEF ChannelInv, ListInv
  <2> QED BY <2>1, <2>2 DEF RecordOK
<1> QED BY <1>1, ChannelInvariant, PTL

(* A break stops no earlier than promised, and no later than the tick after.*)
THEOREM ChannelPromises == ChannelSpec => []PromiseKept
<1>1. ChannelInv => PromiseKept
  BY DEF ChannelInv, KnownInv
<1> QED BY <1>1, ChannelInvariant, PTL

(* The items of a frame reach the simulator before their time is past, if   *)
(* the margin of the Channel is no less than the time between two ticks.    *)
THEOREM ChannelOnTime ==
  ASSUME Margin >= TickPeriod
  PROVE  ChannelSpec => []ItemsOnTime
<1>1. ChannelInv => ItemsOnTime
  BY DEF ChannelInv
<1> QED BY <1>1, ChannelInvariant, PTL

(* Over all frames the times of the items never decrease.                   *)
THEOREM ChannelInOrder == ChannelSpec => ItemsInOrder
<1>1. ChannelInv /\ [ChannelNext]_allVars => [pos' >= pos]_allVars
  BY NextChannelInv
<1> QED BY <1>1, ChannelInvariant, PTL DEF ChannelSpec, ItemsInOrder
=============================================================================
