--------------------------- MODULE BiSetRegfileProofs ---------------------------
(* The register file (biset/py/biset/register.py) over the bus: a user reads  *)
(* what it wrote, what it wrote reaches the device, a hold holds, a volatile  *)
(* register is read afresh, and answers find their requests - for any number  *)
(* of users, tasks of MemoryAccess and registers, and words of any width.     *)
EXTENDS BiSetRegfile, TLAPS

----------------------------------------------------------------------------
(* The bus: where a request is.                                               *)
Waits(t) ==
    /\ flight[t] # None
    /\ flight[t].at \in Items
    /\ \E k \in DOMAIN line[flight[t].at] : line[flight[t].at][k] = t

Request(a, w, d) == [addr |-> a, write |-> w, data |-> d]

(* Wherever it is, the request of t is one to read or to write at a.          *)
Is(t, a, w, d) ==
    \/ flight[t] = [at |-> "regfile", addr |-> a - Offset, write |-> w, data |-> d]
    \/ \E i \in {"access", "memory"} : flight[t] = [at |-> i, addr |-> a, write |-> w, data |-> d]
    \/ \E i \in {"interface", "device"} :
         flight[t] = [at |-> i, data |-> Packed(Request(a, w, d))]

Asks(t, a, w, d) == Waits(t) /\ Is(t, a, w, d)

(* The answer is on its way, or has come.                                     *)
OnWay(t, v) ==
    \/ \E k \in DOMAIN replies : queue[k] = t /\ replies[k] = v
    \/ flight[t] = [at |-> "back", result |-> v]
Got(t, v) == flight[t] = [at |-> "done", result |-> v]

(* Every request is in one line, once.                                        *)
LinesHold == \A i \in Items :
    /\ \A k \in DOMAIN line[i] : flight[line[i][k]] # None /\ flight[line[i][k]].at = i
    /\ \A j, k \in DOMAIN line[i] : line[i][j] = line[i][k] => j = k

QueueHolds ==
    /\ \A k \in DOMAIN queue : flight[queue[k]] # None /\ flight[queue[k]].at = "device"
    /\ \A j, k \in DOMAIN queue : queue[j] = queue[k] => j = k
    /\ Len(queue) = Len(replies) + Len(line["device"])
    /\ \A k \in DOMAIN line["device"] : line["device"][k] = queue[Len(replies) + k]

(* A request takes one of the two ways.                                       *)
OneWay ==
    /\ target = "memory" => line["interface"] = <<>> /\ line["device"] = <<>> /\ queue = <<>>
    /\ target = "device" => line["memory"] = <<>>

BusTypeOK ==
    /\ target \in {"memory", "device"}
    /\ flight = [t \in Tasks |-> flight[t]]
    /\ line \in [Items -> Seq(Tasks)]
    /\ queue \in Seq(Tasks)
    /\ replies \in Seq(Word \cup {X})
    /\ mem \in [Address -> Word \cup {X}]
    /\ target = "memory" => mem \in [Address -> Word]

BusInv == BusTypeOK /\ LinesHold /\ QueueHolds /\ OneWay

----------------------------------------------------------------------------
(* The users: what a fetch brings, ...                                        *)
Fresh(u, r, v) == v \in window[u] /\ (r \notin Volatile => v = mem[r + Offset])

Fetches(u) == \E r \in Register \ Opaque : \E use \in Uses(r), keep \in BOOLEAN :
    /\ Owner[r] = u /\ (keep => r \notin Volatile)
    /\ r \notin Volatile => volatile[r] = None
    /\ user[u] = [pc |-> "fetch", reg |-> r, use |-> use, keep |-> keep]
    /\ \/ Asks(u, r + Offset, FALSE, None)
       \/ \E v \in Word \cup {X} : OnWay(u, v) /\ Fresh(u, r, v)
       \/ \E v \in Word \cup {None} : Got(u, v) /\ (v = None \/ Fresh(u, r, v))

(* ... and what is written to the device.                                     *)
Writes(u) ==
    \/ \E r \in Register, d \in Word :
         /\ Owner[r] = u /\ Writable(r) /\ (r \notin Volatile => d = written[r])
         /\ Asks(u, r + Offset, TRUE, d)
    \/ \E v \in Word \cup {X} : OnWay(u, v)
    \/ \E v \in Word \cup {None} : Got(u, v)

Releases(u) == \E todo \in SUBSET dirty :
    user[u] = [pc |-> "release", todo |-> todo] /\ holder = u /\ ~locked

UserOK(u) ==
    \/ user[u] = Idle /\ flight[u] = None
    \/ Fetches(u)
    \/ user[u] = [pc |-> "push"] /\ Writes(u)
    \/ Releases(u) /\ Writes(u)

(* A hold is for one user, and keeps its writes back.                         *)
HoldInv ==
    /\ holder \in Users \cup {None} /\ locked \in BOOLEAN /\ (lockedRead => locked)
    /\ holder = None => ~locked /\ dirty = {} /\ \A r \in Register : volatile[r] = None
    /\ holder # None =>
         /\ \A w \in Users \ {holder} : user[w] = Idle
         /\ IF locked THEN user[holder].pc \in {"idle", "fetch"} ELSE user[holder].pc = "release"
    /\ \A r \in dirty : r \in Register /\ Owner[r] = holder /\ Writable(r) /\ volatile[r] # None

(* A write that is kept back, to be released.                                 *)
Kept(r) == r \in dirty /\ (locked \/ (user[holder].pc = "release" /\ r \in user[holder].todo))

(* What the file knows of a register is what was written, and so is what the  *)
(* device has, unless the write is kept back or on its way.                   *)
RegOK(r) ==
    /\ cache[r] \in Word \cup {None} /\ volatile[r] \in Word \cup {None}
    /\ r \notin Stable => cache[r] = None
    /\ r \notin Volatile =>
         /\ written[r] \in Word \cup {X}
         /\ cache[r] # None => cache[r] = written[r]
         /\ volatile[r] # None => volatile[r] = written[r]
         /\ \/ mem[r + Offset] = written[r]
            \/ Kept(r)
            \/ \E d \in Word : d = written[r] /\ Asks(Owner[r], r + Offset, TRUE, d)

RegTypeOK ==
    /\ cache = [r \in Register |-> cache[r]]
    /\ volatile = [r \in Register |-> volatile[r]]
    /\ written = [r \in Register |-> written[r]]
    /\ user = [u \in Users |-> user[u]]
    /\ window \in [Users -> SUBSET (Word \cup {X})]

(* The tasks of MemoryAccess.                                                 *)
PostOK(t) ==
    \/ flight[t] = None
    \/ \E a \in PostAddress, w \in BOOLEAN, d \in Word \cup {None} :
         (w => d \in Word) /\ Asks(t, a, w, d)
    \/ \E v \in Word \cup {X} : OnWay(t, v)
    \/ \E v \in Word \cup {None} : Got(t, v)

(* The inductive invariant.                                                   *)
RegfileInv ==
    /\ BusInv /\ RegTypeOK /\ HoldInv
    /\ \A u \in Users : UserOK(u)
    /\ \A t \in Posts : PostOK(t)
    /\ \A r \in Register : RegOK(r)

----------------------------------------------------------------------------
(* Fields of words.                                                           *)
LEMMA PowerFacts ==
  ASSUME Powers, NEW m \in 0 .. Width + AddrWidth, NEW n \in 0 .. Width + AddrWidth
  PROVE  /\ 2 ^ m \in Nat \ {0} /\ 2 ^ n \in Nat \ {0} /\ 2 ^ (m + n) \in Nat \ {0}
         /\ 2 ^ (m + n) = 2 ^ m * 2 ^ n /\ 2 ^ (n + m) = 2 ^ m * 2 ^ n
<1>1. 2 ^ m \in Nat \ {0} /\ 2 ^ n \in Nat \ {0} /\ 2 ^ (m + n) = 2 ^ m * 2 ^ n
  BY DEF Powers
<1>2. m + n = n + m
  OBVIOUS
<1>3. 2 ^ m * 2 ^ n \in Nat \ {0}
  BY <1>1
<1> QED BY <1>1, <1>2, <1>3

LEMMA LowPart ==
  ASSUME NEW P \in Nat \ {0}, NEW d \in 0 .. P - 1, NEW k \in Nat
  PROVE  (d + k * P) % P = d /\ (d + k * P) \div P = k
<1>1. (d + k * P) % P = d
  BY SMT
<1>2. (d + k * P) \div P = k
  BY SMT
<1> QED BY <1>1, <1>2

LEMMA Parts ==
  ASSUME NEW P \in Nat \ {0}, NEW w \in Nat
  PROVE  /\ w % P \in 0 .. P - 1 /\ w \div P \in Nat
         /\ w = (w % P) + (w \div P) * P
<1>1. w % P \in 0 .. P - 1 /\ w \div P \in Nat
  BY SMT
<1>2. w = (w % P) + (w \div P) * P
  BY SMT
<1> QED BY <1>1, <1>2

(* What the device unpacks is what MemoryToBitsReq packed.                    *)
LEMMA Unpacked ==
  ASSUME Powers, Width # 0, NEW a \in Address, NEW w \in BOOLEAN, NEW d, w => d \in Word,
         NEW bits, bits = Packer(Packed(Request(a, w, d)))
  PROVE  /\ w => get(bits, Width) = d
         /\ get(after(bits, Width), AddrWidth) = a
         /\ (get(after(after(bits, Width), AddrWidth), 1) = 1) <=> w
         /\ Packed(Request(a, w, d)) \in Int
<1> DEFINE P == 2 ^ Width
           Q == 2 ^ AddrWidth
           data == IF w THEN d ELSE 0
           dir == IF w THEN 1 ELSE 0
<1>1. P \in Nat \ {0} /\ Q \in Nat \ {0} /\ 2 ^ (Width + AddrWidth) = P * Q /\ 2 ^ 0 = 1 /\ 2 ^ 1 = 2
  BY PowerFacts, BusAssumption
<1>2. data \in 0 .. P - 1 /\ a \in 0 .. Q - 1 /\ dir \in 0 .. 1
  BY <1>1, BusAssumption DEF Word
<1>3. Width \in Nat /\ AddrWidth \in Nat
  BY BusAssumption
<1> HIDE DEF P, Q, data, dir
<1>4. data % P = data /\ a % Q = a /\ dir % 2 = dir
  BY <1>1, <1>2
<1> DEFINE val == data + a * P + dir * (P * Q)
<1>5. /\ Request(a, w, d).addr = a
      /\ (IF Request(a, w, d).write THEN Request(a, w, d).data ELSE 0) = data
      /\ (IF Request(a, w, d).write THEN 1 ELSE 0) = dir
  BY DEF Request, data, dir
<1>6. Packed(Request(a, w, d)) = val
  <2>1. add(Packer(0), data, Width) = [val |-> data, pos |-> Width]
    <3>1. 0 + (data % 2 ^ Width) * 2 ^ 0 = data /\ 0 + Width = Width
      BY <1>1, <1>2, <1>3, <1>4 DEF P
    <3> QED BY <3>1 DEF add, Packer
  <2>2. add([val |-> data, pos |-> Width], a, AddrWidth)
          = [val |-> data + a * P, pos |-> Width + AddrWidth]
    BY <1>4 DEF add, P, Q
  <2>3. add([val |-> data + a * P, pos |-> Width + AddrWidth], dir, 1).val = val
    BY <1>1, <1>4 DEF add
  <2> QED BY <1>5, <2>1, <2>2, <2>3 DEF Packed
<1>7. bits = [val |-> val, pos |-> 0]
  BY <1>6 DEF Packer
<1>8. val \in Nat /\ val = data + (a + dir * Q) * P /\ a + dir * Q \in Nat
  BY <1>1, <1>2
<1> HIDE DEF val
<1>9. val % P = data /\ val \div P = a + dir * Q
  BY <1>1, <1>2, <1>8, LowPart
<1>10. (a + dir * Q) % Q = a /\ (a + dir * Q) \div Q = dir
  BY <1>1, <1>2, LowPart
<1>11. val \div (P * Q) = dir
  <2>1. P * Q \in Nat \ {0} /\ data + a * P \in 0 .. P * Q - 1
    <3>1. a <= Q - 1 /\ P * a <= P * (Q - 1)
      BY <1>1, <1>2
    <3> QED BY <1>1, <1>2, <3>1
  <2>2. val = (data + a * P) + dir * (P * Q)
    BY <1>1, <1>2 DEF val
  <2> QED BY <1>2, <2>1, <2>2, LowPart
<1>12. get(bits, Width) = data
  BY <1>1, <1>7, <1>8, <1>9 DEF get, P
<1>13. get(after(bits, Width), AddrWidth) = a
  BY <1>3, <1>7, <1>8, <1>9, <1>10 DEF get, after, P, Q
<1>14. get(after(after(bits, Width), AddrWidth), 1) = dir
  <2>1. after(after(bits, Width), AddrWidth) = [val |-> val, pos |-> Width + AddrWidth]
    <3>1. after(bits, Width) = [val |-> val, pos |-> Width]
      <4>1. 0 + Width = Width
        BY <1>3
      <4> QED BY <1>7, <4>1 DEF after
    <3>2. \A n, m \in Nat : after([val |-> val, pos |-> n], m) = [val |-> val, pos |-> n + m]
      BY DEF after
    <3> QED BY <1>3, <3>1, <3>2
  <2>2. dir % 2 ^ 1 = dir
    BY <1>1, <1>4
  <2> QED BY <1>1, <1>11, <2>1, <2>2 DEF get
<1> QED BY <1>6, <1>8, <1>12, <1>13, <1>14 DEF data, dir

(* A field in place of another is still a word.                               *)
LEMMA ReplacedWord ==
  ASSUME Powers, NEW low \in Nat, NEW hi \in Nat, low <= hi, hi < Width,
         NEW var \in Word, NEW val \in Nat,
         NEW itvl, itvl = [low |-> low, hi |-> hi]
  PROVE  replaced(var, itvl, val) \in Word
<1> DEFINE size == hi - low + 1
           rest == Width - (hi + 1)
           L == 2 ^ low
           S == 2 ^ size
           R == 2 ^ rest
           q == var \div L
           p == val % S
<1>0. Width \in Nat
  BY BusAssumption
<1>1. size \in Nat /\ rest \in Nat /\ low + size = hi + 1 /\ (hi + 1) + rest = Width
  BY <1>0
<1> HIDE DEF size, rest
<1>e. /\ low \in 0 .. Width + AddrWidth /\ size \in 0 .. Width + AddrWidth
      /\ hi + 1 \in 0 .. Width + AddrWidth /\ rest \in 0 .. Width + AddrWidth
  BY <1>0, <1>1, BusAssumption
<1>2. L \in Nat \ {0} /\ S \in Nat \ {0} /\ R \in Nat \ {0}
  BY <1>1, <1>e, PowerFacts
<1>3. 2 ^ Width = (L * S) * R
  <2>1. 2 ^ (hi + 1) = L * S
    BY <1>1, <1>e, PowerFacts
  <2>2. 2 ^ ((hi + 1) + rest) = 2 ^ (hi + 1) * 2 ^ rest
    BY <1>1, <1>e, PowerFacts
  <2> QED BY <1>1, <2>1, <2>2
<1> HIDE DEF L, S, R
<1>4. var \in Nat /\ var < (L * S) * R
  BY <1>2, <1>3 DEF Word
<1>5. var % L \in 0 .. L - 1 /\ q \in Nat /\ var = (var % L) + q * L
  BY <1>2, <1>4, Parts
<1> DEFINE m == var % L
           b == q % S
           h == q \div S
<1> HIDE DEF q, m
<1>6. m \in 0 .. L - 1 /\ q \in Nat /\ var = m + q * L
  BY <1>5 DEF m
<1>7. b \in 0 .. S - 1 /\ h \in Nat /\ q = b + h * S
  BY <1>2, <1>6, Parts
<1>8. p \in 0 .. S - 1
  BY <1>2, Parts
<1> HIDE DEF b, h, p
<1>9. (val * L) \div L = val
  BY <1>2, LowPart
<1>10. bitsel(var, itvl) = b
  BY DEF bitsel, Size, b, q, S, L, size
<1>11. bitsel(val * L, itvl) = p
  BY <1>9 DEF bitsel, Size, p, S, L, size
<1>12. replaced(var, itvl, val) = (var - b * L) + p * L
  BY <1>10, <1>11 DEF replaced, stripped, masked, L
<1>13. q * L = b * L + h * (L * S)
  BY <1>2, <1>7
<1>14. replaced(var, itvl, val) = m + p * L + h * (L * S)
  <2>1. p * L \in Nat /\ b * L \in Nat /\ h * (L * S) \in Nat
    BY <1>2, <1>7, <1>8
  <2> QED BY <1>6, <1>12, <1>13, <2>1
<1>15. h < R
  <2>1. h * (L * S) <= q * L /\ q * L <= var
    <3>1. b * L \in Nat /\ h * (L * S) \in Nat
      BY <1>2, <1>7
    <3> QED BY <1>2, <1>6, <1>13, <3>1
  <2>2. h * (L * S) < R * (L * S)
    <3>1. (L * S) * R = R * (L * S)
      BY <1>2
    <3>2. h * (L * S) \in Nat /\ q * L \in Nat /\ R * (L * S) \in Nat
      BY <1>2, <1>6, <1>7
    <3> QED BY <1>4, <2>1, <3>1, <3>2
  <2> DEFINE LS == L * S
  <2>3. LS \in Nat \ {0}
    BY <1>2
  <2>4. h * LS < R * LS
    BY <2>2
  <2> HIDE DEF LS
  <2>5. CASE h >= R
    <3>1. R * LS <= h * LS
      BY <1>2, <1>7, <2>3, <2>5
    <3>2. h * LS \in Int /\ R * LS \in Int
      BY <1>2, <1>7, <2>3
    <3> QED BY <2>4, <3>1, <3>2
  <2> QED BY <1>2, <1>7, <2>5
<1>16. m + p * L \in 0 .. L * S - 1
  <2>1. p * L <= (S - 1) * L
    BY <1>2, <1>8
  <2>2. (S - 1) * L = L * S - L /\ L * S \in Nat /\ p * L \in Nat
    BY <1>2, <1>8
  <2> QED BY <1>2, <1>6, <2>1, <2>2
<1> DEFINE LS == L * S
<1>17. LS \in Nat \ {0} /\ m + p * L \in 0 .. LS - 1
  BY <1>2, <1>16
<1>18. h * LS <= (R - 1) * LS /\ (R - 1) * LS = R * LS - LS /\ h * LS \in Nat /\ R * LS \in Nat
  <2>1. h <= R - 1
    BY <1>2, <1>7, <1>15
  <2> HIDE DEF LS
  <2> QED BY <1>2, <1>7, <1>17, <2>1
<1>19. replaced(var, itvl, val) \in 0 .. R * LS - 1
  <2>1. replaced(var, itvl, val) = (m + p * L) + h * LS
    BY <1>14
  <2> HIDE DEF LS
  <2> DEFINE mp == m + p * L
  <2>2. mp \in 0 .. LS - 1 /\ replaced(var, itvl, val) = mp + h * LS
    BY <1>17, <2>1
  <2> HIDE DEF mp
  <2> QED BY <1>17, <1>18, <2>2
<1>20. R * LS = 2 ^ Width
  BY <1>2, <1>3
<1> QED BY <1>19, <1>20 DEF Word

----------------------------------------------------------------------------
(* What a step of the bus does to the request of a task.                      *)
Keeps(s) ==
    /\ \A a \in Int : \A w, d : Asks(s, a, w, d) => Asks(s, a, w, d)'
    /\ \A v : OnWay(s, v) => OnWay(s, v)'
    /\ \A v : Got(s, v) => Got(s, v)'
    /\ flight[s] = None => flight'[s] = None

(* It serves the request of t, ...                                            *)
Valid(a, w, d) ==
    a \in Address /\ w \in BOOLEAN /\ d \in Word \cup {None} /\ (w => d \in Word)
Serves(t) ==
    /\ Waits(t)
    /\ \A s \in Tasks \ {t} : Keeps(s)
    /\ \A a, w, d : Valid(a, w, d) /\ Is(t, a, w, d) =>
         /\ mem' = IF w THEN [mem EXCEPT ![a] = d] ELSE mem
         /\ \/ OnWay(t, IF w THEN 0 ELSE mem[a])'
            \/ t \in Posts /\ target = "memory" /\ Got(t, IF w THEN 0 ELSE mem[a])'

(* ... brings its answer to it, ...                                           *)
Answers(t) ==
    /\ ~Waits(t) /\ UNCHANGED mem
    /\ \A s \in Tasks \ {t} : Keeps(s)
    /\ \A v : OnWay(t, v) => Got(t, IF v = X THEN None ELSE v)'
    /\ \A v : ~Got(t, v)
    /\ flight[t] # None

(* ... or moves one on.                                                       *)
Moves == UNCHANGED mem /\ \A s \in Tasks : Keeps(s)

Sound == \A t \in Tasks : Waits(t) => \E a, w, d : Valid(a, w, d) /\ Is(t, a, w, d)

LEMMA Lists ==
  ASSUME NEW S, NEW q \in Seq(S)
  PROVE  /\ Len(q) \in Nat /\ DOMAIN q = 1 .. Len(q)
         /\ \A k \in 1 .. Len(q) : q[k] \in S
         /\ q # <<>> =>
              /\ Len(q) >= 1 /\ Head(q) = q[1] /\ Head(q) \in S
              /\ Tail(q) \in Seq(S) /\ Len(Tail(q)) = Len(q) - 1
              /\ DOMAIN Tail(q) = 1 .. Len(q) - 1
              /\ \A k \in 1 .. Len(q) - 1 : Tail(q)[k] = q[k + 1]
         /\ \A x \in S :
              /\ Append(q, x) \in Seq(S) /\ Len(Append(q, x)) = Len(q) + 1
              /\ DOMAIN Append(q, x) = 1 .. Len(q) + 1
              /\ Append(q, x)[Len(q) + 1] = x
              /\ \A k \in 1 .. Len(q) : Append(q, x)[k] = q[k]
<1>1. Len(q) \in Nat /\ DOMAIN q = 1 .. Len(q) /\ \A k \in 1 .. Len(q) : q[k] \in S
  OBVIOUS
<1>2. ASSUME q # <<>>
      PROVE  /\ Len(q) >= 1 /\ Head(q) = q[1] /\ Head(q) \in S
             /\ Tail(q) \in Seq(S) /\ Len(Tail(q)) = Len(q) - 1
             /\ DOMAIN Tail(q) = 1 .. Len(q) - 1
             /\ \A k \in 1 .. Len(q) - 1 : Tail(q)[k] = q[k + 1]
  BY <1>2
<1>3. ASSUME NEW x \in S
      PROVE  /\ Append(q, x) \in Seq(S) /\ Len(Append(q, x)) = Len(q) + 1
             /\ DOMAIN Append(q, x) = 1 .. Len(q) + 1
             /\ Append(q, x)[Len(q) + 1] = x
             /\ \A k \in 1 .. Len(q) : Append(q, x)[k] = q[k]
  OBVIOUS
<1> QED BY <1>1, <1>2, <1>3

(* The first of a line leaves it for another.                                 *)
LEMMA Advance ==
  ASSUME BusTypeOK, LinesHold,
         NEW item \in Items, NEW next \in Items, item # next,
         line[item] # <<>>,
         NEW t, t = Head(line[item]), NEW f, [f EXCEPT !.at = next].at = next,
         [f EXCEPT !.at = next] # None,
         Handed(t, item, next, f)
  PROVE  /\ t \in Tasks /\ flight[t] # None /\ flight[t].at = item /\ Waits(t)
         /\ LinesHold'
         /\ line' \in [Items -> Seq(Tasks)] /\ flight' = [s \in Tasks |-> flight'[s]]
         /\ flight'[t] = [f EXCEPT !.at = next] /\ Waits(t)'
         /\ line'[item] = Tail(line[item]) /\ line'[next] = Append(line[next], t)
         /\ \A i \in Items \ {item, next} : line'[i] = line[i]
         /\ \A s \in Tasks \ {t} : flight'[s] = flight[s] /\ (Waits(s) => Waits(s)')
<1> DEFINE q == line[item]
           p == line[next]
<1>1. q \in Seq(Tasks) /\ p \in Seq(Tasks)
  BY DEF BusTypeOK
<1>2. /\ t \in Tasks /\ t = q[1] /\ Len(q) >= 1
      /\ Len(q) \in Nat /\ DOMAIN q = 1 .. Len(q) /\ \A k \in 1 .. Len(q) : q[k] \in Tasks
      /\ Tail(q) \in Seq(Tasks) /\ DOMAIN Tail(q) = 1 .. Len(q) - 1
      /\ \A k \in 1 .. Len(q) - 1 : Tail(q)[k] = q[k + 1]
  BY <1>1, Lists
<1>3. /\ Len(p) \in Nat /\ DOMAIN p = 1 .. Len(p)
      /\ Append(p, t) \in Seq(Tasks) /\ DOMAIN Append(p, t) = 1 .. Len(p) + 1
      /\ Append(p, t)[Len(p) + 1] = t
      /\ \A k \in 1 .. Len(p) : Append(p, t)[k] = p[k]
  BY <1>1, <1>2, Lists
<1>4. /\ line'[item] = Tail(q) /\ line'[next] = Append(p, t)
      /\ \A i \in Items \ {item, next} : line'[i] = line[i]
      /\ line' \in [Items -> Seq(Tasks)]
  <2>1. line \in [Items -> Seq(Tasks)]
    BY DEF BusTypeOK
  <2>2. line' = [line EXCEPT ![item] = Tail(q), ![next] = Append(p, t)]
    BY DEF Handed
  <2> QED BY <1>2, <1>3, <2>1, <2>2
<1>5. /\ flight'[t] = [f EXCEPT !.at = next] /\ flight'[t].at = next /\ flight'[t] # None
      /\ \A s \in Tasks \ {t} : flight'[s] = flight[s]
      /\ flight' = [s \in Tasks |-> flight'[s]]
  <2>1. flight = [s \in Tasks |-> flight[s]]
    BY DEF BusTypeOK
  <2>2. flight' = [flight EXCEPT ![t] = [f EXCEPT !.at = next]]
    BY DEF Handed
  <2>3. flight' = [s \in Tasks |-> IF s = t THEN [f EXCEPT !.at = next] ELSE flight[s]]
    BY <1>2, <2>1, <2>2
  <2> QED BY <1>2, <2>3
<1>6. flight[t] # None /\ flight[t].at = item
  BY <1>2 DEF LinesHold
<1>7. \A i \in Items : \A k \in DOMAIN line[i] :
        /\ line[i][k] \in Tasks
        /\ line[i][k] = t => i = item /\ k = 1
  <2> TAKE i \in Items
  <2> TAKE k \in DOMAIN line[i]
  <2>1. line[i] \in Seq(Tasks)
    BY DEF BusTypeOK
  <2>2. line[i][k] \in Tasks
    BY <2>1, Lists
  <2>3. ASSUME line[i][k] = t PROVE i = item /\ k = 1
    <3>1. i = item
      BY <1>6, <2>3 DEF LinesHold
    <3>2. q[k] = q[1] /\ k \in DOMAIN q /\ 1 \in DOMAIN q
      BY <1>2, <2>3, <3>1
    <3> QED BY <3>1, <3>2 DEF LinesHold
  <2> QED BY <2>2, <2>3
<1>8. LinesHold'
  <2> SUFFICES ASSUME NEW i \in Items
               PROVE  /\ \A k \in DOMAIN line'[i] : flight'[line'[i][k]] # None /\ flight'[line'[i][k]].at = i
                      /\ \A j, k \in DOMAIN line'[i] : line'[i][j] = line'[i][k] => j = k
    BY DEF LinesHold
  <2>1. CASE i = item
    <3>1. ASSUME NEW k \in DOMAIN line'[i]
          PROVE  k + 1 \in DOMAIN q /\ line'[i][k] = q[k + 1] /\ k \in Nat /\ k >= 1
      <4>1. line'[i] = Tail(q)
        BY <1>4, <2>1
      <4>2. k \in 1 .. Len(q) - 1
        BY <1>2, <4>1
      <4>3. k \in Nat /\ k >= 1 /\ k + 1 \in 1 .. Len(q)
        BY <1>2, <4>2
      <4> QED BY <1>2, <4>1, <4>2, <4>3
    <3>2. ASSUME NEW k \in DOMAIN line'[i]
          PROVE  flight'[line'[i][k]] # None /\ flight'[line'[i][k]].at = i
      <4>1. q[k + 1] \in Tasks \ {t}
        BY <1>7, <2>1, <3>1
      <4>2. flight[q[k + 1]] # None /\ flight[q[k + 1]].at = i
        BY <2>1, <3>1 DEF LinesHold
      <4> QED BY <1>5, <3>1, <4>1, <4>2
    <3>3. ASSUME NEW j \in DOMAIN line'[i], NEW k \in DOMAIN line'[i], line'[i][j] = line'[i][k]
          PROVE  j = k
      <4>1. j + 1 \in DOMAIN q /\ k + 1 \in DOMAIN q /\ q[j + 1] = q[k + 1]
        BY <3>1, <3>3
      <4>2. j + 1 = k + 1
        BY <4>1 DEF LinesHold
      <4> QED BY <3>1, <4>2
    <3> QED BY <3>2, <3>3
  <2>2. CASE i = next
    <3>1. ASSUME NEW k \in DOMAIN line'[i]
          PROVE  \/ k \in DOMAIN p /\ line'[i][k] = p[k] /\ p[k] \in Tasks \ {t}
                 \/ k = Len(p) + 1 /\ line'[i][k] = t
      <4>1. k \in 1 .. Len(p) \/ k = Len(p) + 1
        BY <1>3, <1>4, <2>2
      <4> QED BY <1>3, <1>4, <1>7, <2>2, <4>1
    <3>2. ASSUME NEW k \in DOMAIN line'[i]
          PROVE  flight'[line'[i][k]] # None /\ flight'[line'[i][k]].at = i
      <4>1. CASE k \in DOMAIN p /\ line'[i][k] = p[k] /\ p[k] \in Tasks \ {t}
        <5>1. flight[p[k]] # None /\ flight[p[k]].at = i
          BY <2>2, <4>1 DEF LinesHold
        <5> QED BY <1>5, <4>1, <5>1
      <4>2. CASE line'[i][k] = t
        BY <1>5, <2>2, <4>2
      <4> QED BY <3>1, <4>1, <4>2
    <3>3. ASSUME NEW j \in DOMAIN line'[i], NEW k \in DOMAIN line'[i], line'[i][j] = line'[i][k]
          PROVE  j = k
      <4>1. \A x, y \in DOMAIN p : p[x] = p[y] => x = y
        BY DEF LinesHold
      <4> QED BY <3>1, <3>3, <4>1
    <3> QED BY <3>2, <3>3
  <2>3. CASE i \notin {item, next}
    <3>1. line'[i] = line[i]
      BY <1>4, <2>3
    <3>2. \A k \in DOMAIN line[i] : line[i][k] \in Tasks \ {t}
      BY <1>7, <2>3
    <3>3. \A k \in DOMAIN line[i] : flight'[line[i][k]] = flight[line[i][k]]
      BY <1>5, <3>2
    <3> QED BY <3>1, <3>3 DEF LinesHold
  <2> QED BY <2>1, <2>2, <2>3
<1>9. Waits(t) /\ Waits(t)'
  <2>1. 1 \in DOMAIN line[flight[t].at] /\ line[flight[t].at][1] = t
    BY <1>2, <1>6
  <2>2. Len(p) + 1 \in DOMAIN line'[flight'[t].at] /\ line'[flight'[t].at][Len(p) + 1] = t
    BY <1>3, <1>4, <1>5
  <2>3. flight[t].at \in Items /\ flight'[t].at \in Items
    BY <1>5, <1>6
  <2> QED BY <1>5, <1>6, <2>1, <2>2, <2>3 DEF Waits
<1>10. ASSUME NEW s \in Tasks \ {t}, Waits(s) PROVE Waits(s)'
  <2>1. flight'[s] = flight[s] /\ flight[s] # None /\ flight[s].at \in Items
    BY <1>5, <1>10 DEF Waits
  <2> DEFINE i == flight[s].at
  <2>2. PICK k \in DOMAIN line[i] : line[i][k] = s
    BY <1>10 DEF Waits
  <2>3. \E l \in DOMAIN line'[i] : line'[i][l] = s
    <3>1. CASE i = item
      <4>1. k \in 1 .. Len(q) /\ k # 1 /\ q[k] = s
        BY <1>2, <2>2, <3>1
      <4>2. k - 1 \in 1 .. Len(q) - 1 /\ (k - 1) + 1 = k
        BY <1>2, <4>1
      <4>3. Tail(q)[k - 1] = s /\ k - 1 \in DOMAIN Tail(q)
        BY <1>2, <4>1, <4>2
      <4> QED BY <1>4, <3>1, <4>3
    <3>2. CASE i = next
      <4>1. k \in DOMAIN Append(p, t) /\ Append(p, t)[k] = s
        BY <1>3, <2>2, <3>2
      <4> QED BY <1>4, <3>2, <4>1
    <3>3. CASE i \notin {item, next}
      BY <1>4, <2>1, <2>2, <3>3
    <3> QED BY <3>1, <3>2, <3>3
  <2>4. flight'[s] # None /\ flight'[s].at \in Items /\ \E l \in DOMAIN line'[flight'[s].at] : line'[flight'[s].at][l] = s
    BY <2>1, <2>3
  <2> QED BY <2>4 DEF Waits
<1> QED BY <1>2, <1>4, <1>5, <1>6, <1>8, <1>9, <1>10

(* The first of a line leaves it.                                             *)
Left(t, item, g) ==
    /\ line' = [line EXCEPT ![item] = Tail(@)]
    /\ flight' = [flight EXCEPT ![t] = g]

LEMMA Leave ==
  ASSUME BusTypeOK, LinesHold,
         NEW item \in Items, line[item] # <<>>,
         NEW t, t = Head(line[item]), NEW g,
         Left(t, item, g)
  PROVE  /\ t \in Tasks /\ flight[t] # None /\ flight[t].at = item /\ Waits(t)
         /\ LinesHold'
         /\ line' \in [Items -> Seq(Tasks)] /\ flight' = [s \in Tasks |-> flight'[s]]
         /\ flight'[t] = g
         /\ line'[item] = Tail(line[item])
         /\ \A i \in Items \ {item} : line'[i] = line[i]
         /\ \A i \in Items : \A k \in DOMAIN line'[i] : line'[i][k] # t
         /\ \A s \in Tasks \ {t} : flight'[s] = flight[s] /\ (Waits(s) => Waits(s)')
<1> DEFINE q == line[item]
<1>1. q \in Seq(Tasks)
  BY DEF BusTypeOK
<1>2. /\ t \in Tasks /\ t = q[1] /\ Len(q) >= 1
      /\ Len(q) \in Nat /\ DOMAIN q = 1 .. Len(q) /\ \A k \in 1 .. Len(q) : q[k] \in Tasks
      /\ Tail(q) \in Seq(Tasks) /\ DOMAIN Tail(q) = 1 .. Len(q) - 1
      /\ \A k \in 1 .. Len(q) - 1 : Tail(q)[k] = q[k + 1]
  BY <1>1, Lists
<1>4. /\ line'[item] = Tail(q)
      /\ \A i \in Items \ {item} : line'[i] = line[i]
      /\ line' \in [Items -> Seq(Tasks)]
  <2>1. line \in [Items -> Seq(Tasks)]
    BY DEF BusTypeOK
  <2> QED BY <1>2, <2>1 DEF Left
<1>5. /\ flight'[t] = g
      /\ \A s \in Tasks \ {t} : flight'[s] = flight[s]
      /\ flight' = [s \in Tasks |-> flight'[s]]
  <2>1. flight = [s \in Tasks |-> flight[s]]
    BY DEF BusTypeOK
  <2>3. flight' = [s \in Tasks |-> IF s = t THEN g ELSE flight[s]]
    BY <1>2, <2>1 DEF Left
  <2> QED BY <1>2, <2>3
<1>6. flight[t] # None /\ flight[t].at = item
  BY <1>2 DEF LinesHold
<1>7. \A i \in Items : \A k \in DOMAIN line[i] :
        /\ line[i][k] \in Tasks
        /\ line[i][k] = t => i = item /\ k = 1
  <2> TAKE i \in Items
  <2> TAKE k \in DOMAIN line[i]
  <2>1. line[i] \in Seq(Tasks)
    BY DEF BusTypeOK
  <2>2. line[i][k] \in Tasks
    BY <2>1, Lists
  <2>3. ASSUME line[i][k] = t PROVE i = item /\ k = 1
    <3>1. i = item
      BY <1>6, <2>3 DEF LinesHold
    <3>2. q[k] = q[1] /\ k \in DOMAIN q /\ 1 \in DOMAIN q
      BY <1>2, <2>3, <3>1
    <3> QED BY <3>1, <3>2 DEF LinesHold
  <2> QED BY <2>2, <2>3
<1>8. ASSUME NEW i \in Items
      PROVE  /\ \A k \in DOMAIN line'[i] : flight'[line'[i][k]] # None /\ flight'[line'[i][k]].at = i
             /\ \A j, k \in DOMAIN line'[i] : line'[i][j] = line'[i][k] => j = k
             /\ \A k \in DOMAIN line'[i] : line'[i][k] # t
  <2>1. CASE i = item
    <3>1. ASSUME NEW k \in DOMAIN line'[i]
          PROVE  /\ k + 1 \in DOMAIN q /\ line'[i][k] = q[k + 1] /\ k \in Nat /\ k >= 1
                 /\ q[k + 1] \in Tasks \ {t}
      <4>1. line'[i] = Tail(q)
        BY <1>4, <2>1
      <4>2. k \in 1 .. Len(q) - 1
        BY <1>2, <4>1
      <4>3. k \in Nat /\ k >= 1 /\ k + 1 \in 1 .. Len(q) /\ k + 1 # 1
        BY <1>2, <4>2
      <4> QED BY <1>2, <1>7, <4>1, <4>2, <4>3
    <3>2. ASSUME NEW k \in DOMAIN line'[i]
          PROVE  flight'[line'[i][k]] # None /\ flight'[line'[i][k]].at = i
      <4>1. flight[q[k + 1]] # None /\ flight[q[k + 1]].at = i
        BY <2>1, <3>1 DEF LinesHold
      <4> QED BY <1>5, <3>1, <4>1
    <3>3. ASSUME NEW j \in DOMAIN line'[i], NEW k \in DOMAIN line'[i], line'[i][j] = line'[i][k]
          PROVE  j = k
      <4>1. j + 1 \in DOMAIN q /\ k + 1 \in DOMAIN q /\ q[j + 1] = q[k + 1]
        BY <3>1, <3>3
      <4>2. j + 1 = k + 1
        BY <4>1 DEF LinesHold
      <4> QED BY <3>1, <4>2
    <3>4. \A k \in DOMAIN line'[i] : line'[i][k] # t
      BY <3>1
    <3> QED BY <3>2, <3>3, <3>4
  <2>2. CASE i # item
    <3>1. line'[i] = line[i]
      BY <1>4, <2>2
    <3>2. \A k \in DOMAIN line[i] : line[i][k] \in Tasks \ {t}
      BY <1>7, <2>2
    <3>3. \A k \in DOMAIN line[i] : flight'[line[i][k]] = flight[line[i][k]]
      BY <1>5, <3>2
    <3>4. \A k \in DOMAIN line[i] : flight[line[i][k]] # None /\ flight[line[i][k]].at = i
      BY DEF LinesHold
    <3>5. \A j, k \in DOMAIN line[i] : line[i][j] = line[i][k] => j = k
      BY DEF LinesHold
    <3>6. \A k \in DOMAIN line[i] : flight'[line[i][k]] # None /\ flight'[line[i][k]].at = i
      BY <3>3, <3>4
    <3>7. \A k \in DOMAIN line[i] : line[i][k] # t
      BY <3>2
    <3> QED BY <3>1, <3>5, <3>6, <3>7
  <2> QED BY <2>1, <2>2
<1>9. Waits(t)
  BY <1>2, <1>6 DEF Waits
<1>10. ASSUME NEW s \in Tasks \ {t}, Waits(s) PROVE Waits(s)'
  <2>1. flight'[s] = flight[s] /\ flight[s] # None /\ flight[s].at \in Items
    BY <1>5, <1>10 DEF Waits
  <2> DEFINE i == flight[s].at
  <2>2. PICK k \in DOMAIN line[i] : line[i][k] = s
    BY <1>10 DEF Waits
  <2>3. \E l \in DOMAIN line'[i] : line'[i][l] = s
    <3>1. CASE i = item
      <4>1. k \in 1 .. Len(q) /\ k # 1 /\ q[k] = s
        BY <1>2, <2>2, <3>1
      <4>2. k - 1 \in 1 .. Len(q) - 1 /\ (k - 1) + 1 = k
        BY <1>2, <4>1
      <4>3. Tail(q)[k - 1] = s /\ k - 1 \in DOMAIN Tail(q)
        BY <1>2, <4>1, <4>2
      <4> QED BY <1>4, <3>1, <4>3
    <3>2. CASE i # item
      BY <1>4, <2>1, <2>2, <3>2
    <3> QED BY <3>1, <3>2
  <2>4. flight'[s] # None /\ flight'[s].at \in Items /\ \E l \in DOMAIN line'[flight'[s].at] : line'[flight'[s].at][l] = s
    BY <2>1, <2>3
  <2> QED BY <2>4 DEF Waits
<1>11. LinesHold'
  BY <1>8 DEF LinesHold
<1>12. \A i \in Items : \A k \in DOMAIN line'[i] : line'[i][k] # t
  BY <1>8
<1> QED BY <1>2, <1>4, <1>5, <1>6, <1>9, <1>10, <1>11, <1>12

(* A task that stands in no line: its request changes, and nothing else.      *)
Away(t) == \A i \in Items : \A k \in DOMAIN line[i] : line[i][k] # t

LEMMA AwayIs ==
  ASSUME BusInv, NEW t \in Tasks,
         flight[t] = None \/ flight[t].at \notin Items
  PROVE  Away(t) /\ ~Waits(t) /\ \A k \in DOMAIN queue : queue[k] # t
<1>1. Away(t)
  BY DEF Away, BusInv, LinesHold
<1>2. \A k \in DOMAIN queue : queue[k] # t
  BY DEF BusInv, QueueHolds, Items
<1> QED BY <1>1, <1>2 DEF Waits

LEMMA Stay ==
  ASSUME BusTypeOK, LinesHold, NEW t \in Tasks, Away(t), NEW g,
         line' = line, flight' = [flight EXCEPT ![t] = g]
  PROVE  /\ LinesHold' /\ flight' = [s \in Tasks |-> flight'[s]] /\ flight'[t] = g
         /\ \A s \in Tasks \ {t} : flight'[s] = flight[s] /\ (Waits(s) => Waits(s)')
<1>1. /\ flight'[t] = g
      /\ \A s \in Tasks \ {t} : flight'[s] = flight[s]
      /\ flight' = [s \in Tasks |-> flight'[s]]
  <2>1. flight = [s \in Tasks |-> flight[s]]
    BY DEF BusTypeOK
  <2>2. flight' = [s \in Tasks |-> IF s = t THEN g ELSE flight[s]]
    BY <2>1
  <2> QED BY <2>2
<1>2. \A i \in Items : \A k \in DOMAIN line[i] : line[i][k] \in Tasks \ {t}
  BY Lists DEF BusTypeOK, Away
<1>3. \A i \in Items : \A k \in DOMAIN line[i] : flight'[line[i][k]] = flight[line[i][k]]
  BY <1>1, <1>2
<1>4. LinesHold'
  BY <1>3 DEF LinesHold
<1>5. \A s \in Tasks \ {t} : Waits(s) => Waits(s)'
  BY <1>1 DEF Waits
<1> QED BY <1>1, <1>4, <1>5

(* A request enters a line.                                                   *)
LEMMA Enter ==
  ASSUME BusTypeOK, LinesHold, NEW t \in Tasks, Away(t),
         NEW item \in Items, NEW addr, NEW write, NEW data,
         Sent(t, item, addr, write, data),
         [at |-> item, addr |-> addr, write |-> write, data |-> data] # None
  PROVE  /\ LinesHold' /\ flight' = [s \in Tasks |-> flight'[s]]
         /\ line' \in [Items -> Seq(Tasks)]
         /\ flight'[t] = [at |-> item, addr |-> addr, write |-> write, data |-> data]
         /\ Waits(t)'
         /\ line'[item] = Append(line[item], t)
         /\ \A i \in Items \ {item} : line'[i] = line[i]
         /\ \A s \in Tasks \ {t} : flight'[s] = flight[s] /\ (Waits(s) => Waits(s)')
<1> DEFINE p == line[item]
           g == [at |-> item, addr |-> addr, write |-> write, data |-> data]
<1>1. /\ Len(p) \in Nat /\ DOMAIN p = 1 .. Len(p)
      /\ Append(p, t) \in Seq(Tasks) /\ DOMAIN Append(p, t) = 1 .. Len(p) + 1
      /\ Append(p, t)[Len(p) + 1] = t
      /\ \A k \in 1 .. Len(p) : Append(p, t)[k] = p[k]
  BY Lists DEF BusTypeOK
<1>2. /\ line'[item] = Append(p, t)
      /\ \A i \in Items \ {item} : line'[i] = line[i]
      /\ line' \in [Items -> Seq(Tasks)]
  <2>1. line \in [Items -> Seq(Tasks)] /\ line' = [line EXCEPT ![item] = Append(p, t)]
    BY DEF BusTypeOK, Sent
  <2> QED BY <1>1, <2>1
<1>3. g # None /\ g.at = item
  OBVIOUS
<1>4. /\ flight'[t] = g
      /\ \A s \in Tasks \ {t} : flight'[s] = flight[s]
      /\ flight' = [s \in Tasks |-> flight'[s]]
  <2>1. flight = [s \in Tasks |-> flight[s]]
    BY DEF BusTypeOK
  <2>2. flight' = [s \in Tasks |-> IF s = t THEN g ELSE flight[s]]
    BY <2>1 DEF Sent
  <2> QED BY <2>2
<1>5. \A i \in Items : \A k \in DOMAIN line[i] : line[i][k] \in Tasks \ {t}
  BY Lists DEF BusTypeOK, Away
<1>6. LinesHold'
  <2> SUFFICES ASSUME NEW i \in Items
               PROVE  /\ \A k \in DOMAIN line'[i] : flight'[line'[i][k]] # None /\ flight'[line'[i][k]].at = i
                      /\ \A j, k \in DOMAIN line'[i] : line'[i][j] = line'[i][k] => j = k
    BY DEF LinesHold
  <2>1. CASE i = item
    <3>1. ASSUME NEW k \in DOMAIN line'[i]
          PROVE  \/ k \in DOMAIN p /\ line'[i][k] = p[k] /\ p[k] \in Tasks \ {t}
                 \/ k = Len(p) + 1 /\ line'[i][k] = t
      <4>1. k \in 1 .. Len(p) \/ k = Len(p) + 1
        BY <1>1, <1>2, <2>1
      <4> QED BY <1>1, <1>2, <1>5, <2>1, <4>1
    <3>2. ASSUME NEW k \in DOMAIN line'[i]
          PROVE  flight'[line'[i][k]] # None /\ flight'[line'[i][k]].at = i
      <4>1. CASE k \in DOMAIN p /\ line'[i][k] = p[k] /\ p[k] \in Tasks \ {t}
        <5>1. flight[p[k]] # None /\ flight[p[k]].at = i
          BY <2>1, <4>1 DEF LinesHold
        <5> QED BY <1>4, <4>1, <5>1
      <4>2. CASE line'[i][k] = t
        BY <1>3, <1>4, <2>1, <4>2
      <4> QED BY <3>1, <4>1, <4>2
    <3>3. ASSUME NEW j \in DOMAIN line'[i], NEW k \in DOMAIN line'[i], line'[i][j] = line'[i][k]
          PROVE  j = k
      <4>1. \A x, y \in DOMAIN p : p[x] = p[y] => x = y
        BY DEF LinesHold
      <4> QED BY <3>1, <3>3, <4>1
    <3> QED BY <3>2, <3>3
  <2>2. CASE i # item
    <3>1. line'[i] = line[i]
      BY <1>2, <2>2
    <3>2. \A k \in DOMAIN line[i] : flight'[line[i][k]] = flight[line[i][k]]
      BY <1>4, <1>5
    <3> QED BY <3>1, <3>2 DEF LinesHold
  <2> QED BY <2>1, <2>2
<1>7. Waits(t)'
  <2>1. Len(p) + 1 \in DOMAIN line'[item] /\ line'[item][Len(p) + 1] = t
    BY <1>1, <1>2
  <2>2. flight'[t] # None /\ flight'[t].at = item
    BY <1>3, <1>4
  <2> QED BY <2>1, <2>2 DEF Waits
<1>8. ASSUME NEW s \in Tasks \ {t}, Waits(s) PROVE Waits(s)'
  <2>1. flight'[s] = flight[s] /\ flight[s] # None /\ flight[s].at \in Items
    BY <1>4, <1>8 DEF Waits
  <2> DEFINE i == flight[s].at
  <2>2. PICK k \in DOMAIN line[i] : line[i][k] = s
    BY <1>8 DEF Waits
  <2>3. \E l \in DOMAIN line'[i] : line'[i][l] = s
    <3>1. CASE i = item
      <4>1. k \in DOMAIN Append(p, t) /\ Append(p, t)[k] = s
        BY <1>1, <2>2, <3>1
      <4> QED BY <1>2, <3>1, <4>1
    <3>2. CASE i # item
      BY <1>2, <2>1, <2>2, <3>2
    <3> QED BY <3>1, <3>2
  <2>4. flight'[s] # None /\ flight'[s].at \in Items /\ \E l \in DOMAIN line'[flight'[s].at] : line'[flight'[s].at][l] = s
    BY <2>1, <2>3
  <2> QED BY <2>4 DEF Waits
<1> QED BY <1>2, <1>4, <1>6, <1>7, <1>8

----------------------------------------------------------------------------
(* The steps of the bus.                                                      *)
LEMMA QueueStays ==
  ASSUME BusTypeOK, QueueHolds, UNCHANGED <<queue, replies>>,
         line'["device"] = line["device"], NEW t,
         \A k \in DOMAIN queue : queue[k] # t,
         \A s \in Tasks \ {t} : flight'[s] = flight[s]
  PROVE  /\ QueueHolds'
         /\ \A s \in Tasks \ {t} : \A v : OnWay(s, v) => OnWay(s, v)'
<1>1. \A k \in DOMAIN queue : queue[k] \in Tasks \ {t}
  BY Lists DEF BusTypeOK
<1>2. \A k \in DOMAIN queue : flight'[queue[k]] = flight[queue[k]]
  BY <1>1
<1>3. \A k \in DOMAIN queue : flight'[queue[k]] # None /\ flight'[queue[k]].at = "device"
  BY <1>2 DEF QueueHolds
<1>4. QueueHolds'
  BY <1>3 DEF QueueHolds
<1>5. \A s \in Tasks \ {t} : \A v : OnWay(s, v) => OnWay(s, v)'
  BY DEF OnWay
<1> QED BY <1>4, <1>5

LEMMA OthersKeep ==
  ASSUME NEW s, flight'[s] = flight[s], Waits(s) => Waits(s)',
         \A v : OnWay(s, v) => OnWay(s, v)'
  PROVE  Keeps(s)
<1>1. \A a \in Int : \A w, d : Asks(s, a, w, d) => Asks(s, a, w, d)'
  BY DEF Asks, Is
<1>2. \A v : Got(s, v) => Got(s, v)'
  BY DEF Got
<1> QED BY <1>1, <1>2 DEF Keeps

(* A request that waits has no answer yet.                                    *)
LEMMA WaitsOnly ==
  ASSUME BusInv, NEW t \in Tasks, Waits(t), flight[t].at # "device"
  PROVE  \A v : ~OnWay(t, v) /\ ~Got(t, v)
<1>1. ASSUME NEW v, Got(t, v) PROVE FALSE
  BY <1>1 DEF Got, Waits, Items
<1>2. ASSUME NEW v, flight[t] = [at |-> "back", result |-> v] PROVE FALSE
  BY <1>2 DEF Waits, Items
<1>3. ASSUME NEW k \in DOMAIN replies, queue[k] = t PROVE FALSE
  <2>1. k \in DOMAIN queue
    <3>1. Len(queue) = Len(replies) + Len(line["device"]) /\ Len(line["device"]) \in Nat
      BY Lists DEF BusInv, QueueHolds, BusTypeOK, Items
    <3>2. DOMAIN queue = 1 .. Len(queue) /\ DOMAIN replies = 1 .. Len(replies) /\ Len(replies) \in Nat
      BY Lists DEF BusInv, BusTypeOK
    <3> QED BY <3>1, <3>2
  <2> QED BY <1>3, <2>1 DEF BusInv, QueueHolds
<1> QED BY <1>1, <1>2, <1>3 DEF OnWay

(* What a task asks for, by where its request is.                             *)
LEMMA IsAtRegfile ==
  ASSUME NEW t, NEW a, NEW w, NEW d, flight[t].at = "regfile", Is(t, a, w, d)
  PROVE  flight[t] = [at |-> "regfile", addr |-> a - Offset, write |-> w, data |-> d]
<1>1. \A i : [at |-> i, addr |-> a, write |-> w, data |-> d].at = i
  OBVIOUS
<1>2. \A i : [at |-> i, data |-> Packed(Request(a, w, d))].at = i
  OBVIOUS
<1> QED BY <1>1, <1>2 DEF Is

LEMMA IsAtMemory ==
  ASSUME NEW t, NEW a, NEW w, NEW d, flight[t].at \in {"access", "memory"}, Is(t, a, w, d)
  PROVE  flight[t] = [at |-> flight[t].at, addr |-> a, write |-> w, data |-> d]
<1>1. [at |-> "regfile", addr |-> a - Offset, write |-> w, data |-> d].at = "regfile"
  OBVIOUS
<1>2. \A k : [at |-> k, addr |-> a, write |-> w, data |-> d].at = k
  OBVIOUS
<1>3. \A k : [at |-> k, data |-> Packed(Request(a, w, d))].at = k
  OBVIOUS
<1> QED BY <1>1, <1>2, <1>3 DEF Is

LEMMA IsAtDevice ==
  ASSUME NEW t, NEW a, NEW w, NEW d, flight[t].at \in {"interface", "device"}, Is(t, a, w, d)
  PROVE  flight[t] = [at |-> flight[t].at, data |-> Packed(Request(a, w, d))]
<1>1. [at |-> "regfile", addr |-> a - Offset, write |-> w, data |-> d].at = "regfile"
  OBVIOUS
<1>2. \A k : [at |-> k, addr |-> a, write |-> w, data |-> d].at = k
  OBVIOUS
<1>3. \A k : [at |-> k, data |-> Packed(Request(a, w, d))].at = k
  OBVIOUS
<1> QED BY <1>1, <1>2, <1>3 DEF Is

(* A request that moves on to g is still the one it was.                      *)
LEMMA MovedKeeps ==
  ASSUME BusInv, NEW t \in Tasks, Waits(t), flight[t].at # "device", Waits(t)',
         \A a \in Int : \A w, d : Is(t, a, w, d) => Is(t, a, w, d)'
  PROVE  Keeps(t)
<1>1. \A v : ~OnWay(t, v) /\ ~Got(t, v)
  BY WaitsOnly
<1>2. flight[t] # None
  BY DEF Waits
<1>3. \A a \in Int : \A w, d : Asks(t, a, w, d) => Asks(t, a, w, d)'
  BY DEF Asks
<1> QED BY <1>1, <1>2, <1>3 DEF Keeps

LEMMA RequestsApart ==
  ASSUME Powers, Width # 0, NEW a, NEW w, NEW d, Valid(a, w, d), NEW i \in Items
  PROVE  /\ [at |-> i, addr |-> a, write |-> w, data |-> d] # None
         /\ [at |-> i, addr |-> a - Offset, write |-> w, data |-> d] # None
         /\ [at |-> i, data |-> Packed(Request(a, w, d))] # None
<1>1. a \in Int /\ a - Offset \in Int /\ w \in BOOLEAN /\ d \in Int \cup {None}
  BY BusAssumption DEF Valid, Word
<1>2. Packed(Request(a, w, d)) \in Int
  BY Unpacked DEF Valid
<1>3. /\ [at |-> i, addr |-> a, write |-> w, data |-> d] \in Requests
      /\ [at |-> i, addr |-> a - Offset, write |-> w, data |-> d] \in Requests
      /\ [at |-> i, data |-> Packed(Request(a, w, d))] \in Requests
  BY <1>1, <1>2 DEF Requests
<1> QED BY <1>3, BusAssumption

LEMMA FirstOf ==
  ASSUME BusInv, NEW item \in Items, line[item] # <<>>, NEW t, t = Head(line[item])
  PROVE  t \in Tasks /\ flight[t] # None /\ flight[t].at = item /\ Waits(t)
<1>1. line[item] \in Seq(Tasks)
  BY DEF BusInv, BusTypeOK
<1>2. t \in Tasks /\ 1 \in DOMAIN line[item] /\ t = line[item][1]
  BY <1>1, Lists
<1>3. flight[t] # None /\ flight[t].at = item
  BY <1>2 DEF BusInv, LinesHold
<1> QED BY <1>2, <1>3 DEF Waits

LEMMA MultiplexStep ==
  ASSUME Powers, Width # 0, BusInv, Sound, NEW item \in {"regfile", "access"}, Multiplex(item)
  PROVE  BusInv' /\ Moves
<1> PICK t : t = Head(line[item])
  OBVIOUS
<1> PICK next : next = IF target = "memory" THEN "memory" ELSE "interface"
  OBVIOUS
<1> PICK f : f = IF item = "regfile" THEN AddOffset(flight[t]) ELSE flight[t]
  OBVIOUS
<1> PICK g : g = IF target = "memory" THEN f ELSE [at |-> item, data |-> Packed(f)]
  OBVIOUS
<1>1. item \in Items /\ next \in Items /\ item # next /\ next # "device" /\ item # "device"
  BY DEF Items
<1>2. line[item] # <<>> /\ Handed(t, item, next, g) /\ UNCHANGED <<target, queue, replies, mem>>
  BY DEF Multiplex
<1>3. t \in Tasks /\ flight[t] # None /\ flight[t].at = item /\ Waits(t)
  BY <1>1, <1>2, FirstOf
<1>5. ASSUME NEW a \in Int, NEW w, NEW d, Is(t, a, w, d)
      PROVE  \/ /\ target = "memory"
                /\ [g EXCEPT !.at = next] = [at |-> "memory", addr |-> a, write |-> w, data |-> d]
             \/ /\ target # "memory"
                /\ [g EXCEPT !.at = next] = [at |-> "interface", data |-> Packed(Request(a, w, d))]
  <2>1. Offset \in Int
    BY BusAssumption
  <2>2. f = [at |-> item, addr |-> a, write |-> w, data |-> d]
    <3>1. CASE item = "regfile"
      <4>1. flight[t].at = "regfile"
        BY <1>3, <3>1
      <4>2. flight[t] = [at |-> "regfile", addr |-> a - Offset, write |-> w, data |-> d]
        BY <1>5, <4>1, IsAtRegfile
      <4>3. AddOffset(flight[t]) = [at |-> "regfile", addr |-> (a - Offset) + Offset, write |-> w, data |-> d]
        BY <4>2 DEF AddOffset
      <4>4. (a - Offset) + Offset = a
        BY <2>1
      <4> QED BY <3>1, <4>3, <4>4
    <3>2. CASE item = "access"
      <4>1. flight[t].at = "access"
        BY <1>3, <3>2
      <4>2. flight[t] = [at |-> "access", addr |-> a, write |-> w, data |-> d]
        <5>1. flight[t].at \in {"access", "memory"}
          BY <4>1
        <5>2. flight[t] = [at |-> flight[t].at, addr |-> a, write |-> w, data |-> d]
          BY <1>5, <5>1, IsAtMemory
        <5> QED BY <4>1, <5>2
      <4>3. f = flight[t]
        BY <3>2
      <4> QED BY <3>2, <4>2, <4>3
    <3> QED BY <3>1, <3>2
  <2>3. Packed(f) = Packed(Request(a, w, d))
    <3>1. f.write = Request(a, w, d).write /\ f.addr = Request(a, w, d).addr /\ f.data = Request(a, w, d).data
      BY <2>2 DEF Request
    <3> QED BY <3>1 DEF Packed
  <2>4. CASE target = "memory"
    <3>1. next = "memory" /\ g = f
      BY <2>4
    <3> QED BY <2>2, <2>4, <3>1
  <2>5. CASE target # "memory"
    <3>1. next = "interface" /\ g = [at |-> item, data |-> Packed(Request(a, w, d))]
      BY <2>3, <2>5
    <3> QED BY <2>5, <3>1
  <2> QED BY <2>4, <2>5
<1>6. PICK a, w, d : Valid(a, w, d) /\ Is(t, a, w, d)
  BY <1>3 DEF Sound
<1>7. a \in Int
  BY <1>6, BusAssumption DEF Valid
<1>8. [g EXCEPT !.at = next].at = next /\ [g EXCEPT !.at = next] # None
  <2>1. /\ [at |-> "memory", addr |-> a, write |-> w, data |-> d] # None
        /\ [at |-> "interface", data |-> Packed(Request(a, w, d))] # None
    BY <1>6, RequestsApart DEF Items
  <2>2. \/ /\ target = "memory"
           /\ [g EXCEPT !.at = next] = [at |-> "memory", addr |-> a, write |-> w, data |-> d]
        \/ /\ target # "memory"
           /\ [g EXCEPT !.at = next] = [at |-> "interface", data |-> Packed(Request(a, w, d))]
    BY <1>5, <1>6, <1>7
  <2> QED BY <2>1, <2>2
<1>10. /\ LinesHold'
       /\ line' \in [Items -> Seq(Tasks)] /\ flight' = [s \in Tasks |-> flight'[s]]
       /\ flight'[t] = [g EXCEPT !.at = next] /\ Waits(t)'
       /\ line'[item] = Tail(line[item]) /\ line'[next] = Append(line[next], t)
       /\ \A i \in Items \ {item, next} : line'[i] = line[i]
       /\ \A s \in Tasks \ {t} : flight'[s] = flight[s] /\ (Waits(s) => Waits(s)')
  BY <1>1, <1>2, <1>8, Advance DEF BusInv
<1>11. QueueHolds' /\ \A s \in Tasks \ {t} : \A v : OnWay(s, v) => OnWay(s, v)'
  <2>1. \A k \in DOMAIN queue : queue[k] # t
    BY <1>1, <1>3 DEF BusInv, QueueHolds
  <2>2. line'["device"] = line["device"] /\ UNCHANGED <<queue, replies>>
    BY <1>1, <1>2, <1>10 DEF Items
  <2> QED BY <1>10, <2>1, <2>2, QueueStays DEF BusInv
<1>12. OneWay'
  BY <1>1, <1>2, <1>10 DEF BusInv, OneWay, Items
<1>13. BusTypeOK'
  BY <1>2, <1>10 DEF BusInv, BusTypeOK
<1>14. \A s \in Tasks \ {t} : Keeps(s)
  BY <1>10, <1>11, OthersKeep
<1>15. Keeps(t)
  <2>1. \A x \in Int : \A y, z : Is(t, x, y, z) => Is(t, x, y, z)'
    <3> SUFFICES ASSUME NEW x \in Int, NEW y, NEW z, Is(t, x, y, z) PROVE Is(t, x, y, z)'
      OBVIOUS
    <3>1. flight'[t] = [at |-> "memory", addr |-> x, write |-> y, data |-> z]
          \/ flight'[t] = [at |-> "interface", data |-> Packed(Request(x, y, z))]
      BY <1>5, <1>10
    <3> QED BY <3>1 DEF Is
  <2>2. flight[t].at # "device" /\ Waits(t) /\ Waits(t)' /\ t \in Tasks
    BY <1>1, <1>3, <1>10
  <2> QED BY <2>1, <2>2, MovedKeeps
<1>16. mem' = mem
  BY <1>2
<1> QED BY <1>10, <1>11, <1>12, <1>13, <1>14, <1>15, <1>16 DEF BusInv, Moves

LEMMA WordZero ==
  ASSUME Powers PROVE 0 \in Word
  BY BusAssumption DEF Powers, Word

(* The same, of the bus as it is.                                             *)
LEMMA FirstLeaves ==
  ASSUME BusInv, NEW item \in Items, line[item] # <<>>,
         NEW t, t = Head(line[item]), NEW g, Left(t, item, g)
  PROVE  /\ LinesHold'
         /\ line' \in [Items -> Seq(Tasks)] /\ flight' = [s \in Tasks |-> flight'[s]]
         /\ flight'[t] = g
         /\ line'[item] = Tail(line[item])
         /\ \A i \in Items \ {item} : line'[i] = line[i]
         /\ \A s \in Tasks \ {t} : flight'[s] = flight[s] /\ (Waits(s) => Waits(s)')
<1>1. BusTypeOK /\ LinesHold
  BY DEF BusInv
<1>2. t = Head(line[item])
  OBVIOUS
<1>3. item \in Items /\ line[item] # <<>>
  OBVIOUS
<1>4. Left(t, item, g)
  OBVIOUS
<1>5. flight'[t] = g
  <2>1. t \in Tasks
    BY <1>3, FirstOf
  <2>2. flight = [s \in Tasks |-> flight[s]]
    BY <1>1 DEF BusTypeOK
  <2> QED BY <2>1, <2>2 DEF Left
<1>6. /\ LinesHold'
      /\ line' \in [Items -> Seq(Tasks)] /\ flight' = [s \in Tasks |-> flight'[s]]
      /\ line'[item] = Tail(line[item])
      /\ \A i \in Items \ {item} : line'[i] = line[i]
      /\ \A s \in Tasks \ {t} : flight'[s] = flight[s] /\ (Waits(s) => Waits(s)')
  BY <1>1, <1>2, <1>3, <1>4, Leave, Zenon
<1> QED BY <1>5, <1>6

LEMMA MemoryRunStep ==
  ASSUME Powers, BusInv, Sound, MemoryRun
  PROVE  BusInv' /\ \E t \in Tasks : Serves(t)
<1> PICK item : item = "memory"
  OBVIOUS
<1> PICK t : t = Head(line[item])
  OBVIOUS
<1> PICK result : result = IF flight[t].write THEN 0 ELSE mem[flight[t].addr]
  OBVIOUS
<1> PICK g : g = [at |-> IF t \in Users THEN "back" ELSE "done", result |-> result]
  OBVIOUS
<1>1. /\ "memory" \in Items /\ line["memory"] # <<>>
      /\ mem' = IF flight[t].write THEN [mem EXCEPT ![flight[t].addr] = flight[t].data] ELSE mem
      /\ flight' = [flight EXCEPT ![t] = g]
      /\ line' = [line EXCEPT !["memory"] = Tail(@)]
      /\ UNCHANGED <<target, queue, replies>>
  BY DEF MemoryRun, Committed, Items
<1>2. t \in Tasks /\ flight[t] # None /\ flight[t].at = "memory" /\ Waits(t)
  BY <1>1, FirstOf
<1>3. /\ LinesHold'
      /\ line' \in [Items -> Seq(Tasks)] /\ flight' = [s \in Tasks |-> flight'[s]]
      /\ flight'[t] = g
      /\ line'["memory"] = Tail(line["memory"])
      /\ \A i \in Items \ {"memory"} : line'[i] = line[i]
      /\ \A s \in Tasks \ {t} : flight'[s] = flight[s] /\ (Waits(s) => Waits(s)')
  <2>1. Left(t, item, g) /\ item \in Items /\ line[item] # <<>>
    BY <1>1 DEF Left
  <2>2. t = Head(line[item])
    OBVIOUS
  <2>3. BusInv
    OBVIOUS
  <2>4. /\ LinesHold'
        /\ line' \in [Items -> Seq(Tasks)] /\ flight' = [s \in Tasks |-> flight'[s]]
        /\ line'[item] = Tail(line[item])
        /\ \A i \in Items \ {item} : line'[i] = line[i]
        /\ \A s \in Tasks \ {t} : flight'[s] = flight[s] /\ (Waits(s) => Waits(s)')
    BY <2>1, <2>2, <2>3, FirstLeaves, Zenon
  <2>5. flight'[t] = g
    <3>1. t \in Tasks
      BY <1>2
    <3>2. flight = [s \in Tasks |-> flight[s]]
      BY DEF BusInv, BusTypeOK
    <3> QED BY <1>1, <3>1, <3>2
  <2> QED BY <2>4, <2>5
<1>4. ASSUME NEW a, NEW w, NEW d, Is(t, a, w, d)
      PROVE  flight[t].addr = a /\ flight[t].write = w /\ flight[t].data = d
  <2>1. flight[t] = [at |-> flight[t].at, addr |-> a, write |-> w, data |-> d]
    BY <1>2, <1>4, IsAtMemory
  <2> QED BY <2>1
<1>5. target = "memory"
  BY <1>1 DEF BusInv, OneWay, BusTypeOK
<1>6. BusTypeOK'
  <2>1. PICK a, w, d : Valid(a, w, d) /\ Is(t, a, w, d)
    BY <1>2 DEF Sound
  <2>2. mem' = IF w THEN [mem EXCEPT ![a] = d] ELSE mem
    <3>1. flight[t].addr = a /\ flight[t].write = w /\ flight[t].data = d
      BY <1>4, <2>1
    <3> QED BY <1>1, <3>1
  <2>3. mem \in [Address -> Word]
    BY <1>5 DEF BusInv, BusTypeOK
  <2>4. mem' \in [Address -> Word] /\ mem' \in [Address -> Word \cup {X}]
    BY <2>1, <2>2, <2>3 DEF Valid
  <2> QED BY <1>1, <1>3, <2>4 DEF BusInv, BusTypeOK
<1>7. QueueHolds' /\ \A s \in Tasks \ {t} : \A v : OnWay(s, v) => OnWay(s, v)'
  <2>1. \A k \in DOMAIN queue : queue[k] # t
    BY <1>2 DEF BusInv, QueueHolds
  <2>2. line'["device"] = line["device"]
    BY <1>3 DEF Items
  <2> QED BY <1>1, <1>3, <2>1, <2>2, QueueStays DEF BusInv
<1>8. OneWay'
  BY <1>1, <1>3, <1>5 DEF BusInv, OneWay, Items
<1>9. \A s \in Tasks \ {t} : Keeps(s)
  BY <1>3, <1>7, OthersKeep
<1>10. Serves(t)
  <2> SUFFICES ASSUME NEW a, NEW w, NEW d, Valid(a, w, d) /\ Is(t, a, w, d)
               PROVE  /\ mem' = IF w THEN [mem EXCEPT ![a] = d] ELSE mem
                      /\ \/ OnWay(t, IF w THEN 0 ELSE mem[a])'
                         \/ t \in Posts /\ target = "memory" /\ Got(t, IF w THEN 0 ELSE mem[a])'
    BY <1>2, <1>9 DEF Serves
  <2>1. flight[t].addr = a /\ flight[t].write = w /\ flight[t].data = d
    BY <1>4
  <2>2. result = IF w THEN 0 ELSE mem[a]
    BY <2>1
  <2>3. mem' = IF w THEN [mem EXCEPT ![a] = d] ELSE mem
    BY <1>1, <2>1
  <2>4. CASE t \in Users
    <3>1. flight'[t] = [at |-> "back", result |-> result]
      BY <1>3, <2>4
    <3>2. OnWay(t, result)'
      BY <3>1 DEF OnWay
    <3> QED BY <2>2, <2>3, <3>2
  <2>5. CASE t \notin Users
    <3>1. flight'[t] = [at |-> "done", result |-> result]
      BY <1>3, <2>5
    <3>2. Got(t, result)'
      BY <3>1 DEF Got
    <3>3. t \in Posts
      BY <1>2, <2>5 DEF Tasks
    <3> QED BY <1>5, <2>2, <2>3, <3>2, <3>3
  <2> QED BY <2>4, <2>5
<1> QED BY <1>2, <1>3, <1>6, <1>7, <1>8, <1>10 DEF BusInv

LEMMA InterfaceSendStep ==
  ASSUME Powers, Width # 0, BusInv, Sound, InterfaceSend
  PROVE  BusInv' /\ Moves
<1> PICK t : t = Head(line["interface"])
  OBVIOUS
<1> PICK g : g = flight[t]
  OBVIOUS
<1> PICK item : item = "interface"
  OBVIOUS
<1> PICK next : next = "device"
  OBVIOUS
<1>1. /\ item \in Items /\ next \in Items /\ item # next /\ line[item] # <<>> /\ t = Head(line[item])
      /\ queue' = Append(queue, t)
      /\ Handed(t, item, next, g)
      /\ UNCHANGED <<target, replies, mem>>
  BY DEF InterfaceSend, Items
<1>2. t \in Tasks /\ flight[t] # None /\ flight[t].at = "interface" /\ Waits(t)
  BY <1>1, FirstOf
<1>3. ASSUME NEW a, NEW w, NEW d, Is(t, a, w, d)
      PROVE  [g EXCEPT !.at = next] = [at |-> "device", data |-> Packed(Request(a, w, d))]
  <2>1. g = [at |-> g.at, data |-> Packed(Request(a, w, d))]
    BY <1>2, <1>3, IsAtDevice
  <2> QED BY <2>1
<1>4. [g EXCEPT !.at = next].at = next /\ [g EXCEPT !.at = next] # None
  <2>1. PICK a, w, d : Valid(a, w, d) /\ Is(t, a, w, d)
    BY <1>2 DEF Sound
  <2>2. [g EXCEPT !.at = next] = [at |-> "device", data |-> Packed(Request(a, w, d))]
    BY <1>3, <2>1
  <2>3. [at |-> "device", data |-> Packed(Request(a, w, d))] # None
    BY <2>1, RequestsApart DEF Items
  <2> QED BY <2>2, <2>3
<1>5. /\ LinesHold'
      /\ line' \in [Items -> Seq(Tasks)] /\ flight' = [s \in Tasks |-> flight'[s]]
      /\ flight'[t] = [g EXCEPT !.at = next] /\ Waits(t)'
      /\ line'[item] = Tail(line[item]) /\ line'[next] = Append(line[next], t)
      /\ \A i \in Items \ {item, next} : line'[i] = line[i]
      /\ \A s \in Tasks \ {t} : flight'[s] = flight[s] /\ (Waits(s) => Waits(s)')
  BY <1>1, <1>4, Advance DEF BusInv
<1> DEFINE d == line["device"]
           n == Len(replies)
<1>6. /\ Len(queue) = n + Len(d) /\ Len(d) \in Nat /\ n \in Nat
      /\ DOMAIN queue = 1 .. n + Len(d) /\ DOMAIN d = 1 .. Len(d) /\ DOMAIN replies = 1 .. n
      /\ \A k \in 1 .. Len(d) : d[k] = queue[n + k]
      /\ \A k \in 1 .. n + Len(d) : queue[k] \in Tasks /\ flight[queue[k]] # None /\ flight[queue[k]].at = "device"
      /\ \A j, k \in 1 .. n + Len(d) : queue[j] = queue[k] => j = k
  <2>1. d \in Seq(Tasks) /\ queue \in Seq(Tasks) /\ replies \in Seq(Word \cup {X})
    BY DEF BusInv, BusTypeOK, Items
  <2>2. /\ DOMAIN queue = 1 .. Len(queue) /\ DOMAIN d = 1 .. Len(d) /\ DOMAIN replies = 1 .. n
        /\ Len(d) \in Nat /\ n \in Nat /\ \A k \in 1 .. Len(queue) : queue[k] \in Tasks
    BY <2>1, Lists
  <2> QED BY <2>2 DEF BusInv, QueueHolds
<1>7. /\ queue' \in Seq(Tasks) /\ Len(queue') = n + Len(d) + 1
      /\ DOMAIN queue' = 1 .. n + Len(d) + 1 /\ queue'[n + Len(d) + 1] = t
      /\ \A k \in 1 .. n + Len(d) : queue'[k] = queue[k]
  BY <1>1, <1>2, <1>6, Lists DEF BusInv, BusTypeOK
<1>8. /\ Len(line'["device"]) = Len(d) + 1
      /\ DOMAIN line'["device"] = 1 .. Len(d) + 1 /\ line'["device"][Len(d) + 1] = t
      /\ \A k \in 1 .. Len(d) : line'["device"][k] = d[k]
  <2>1. line'["device"] = Append(d, t) /\ d \in Seq(Tasks)
    BY <1>5 DEF BusInv, BusTypeOK, Items
  <2> QED BY <1>2, <2>1, Lists
<1>9. \A k \in 1 .. n + Len(d) : queue[k] # t /\ flight'[queue[k]] = flight[queue[k]]
  BY <1>2, <1>5, <1>6
<1> HIDE DEF d, n
<1>10. QueueHolds'
  <2>0. \A k \in 1 .. n + Len(d) + 1 : k \in 1 .. n + Len(d) \/ k = n + Len(d) + 1
    BY <1>6
  <2>1. ASSUME NEW k \in DOMAIN queue' PROVE flight'[queue'[k]] # None /\ flight'[queue'[k]].at = "device"
    <3>1. CASE k \in 1 .. n + Len(d)
      BY <1>6, <1>7, <1>9, <3>1
    <3>2. CASE k = n + Len(d) + 1
      BY <1>1, <1>4, <1>5, <1>7, <3>2
    <3> QED BY <1>6, <1>7, <3>1, <3>2
  <2>2. ASSUME NEW j \in DOMAIN queue', NEW k \in DOMAIN queue', queue'[j] = queue'[k] PROVE j = k
    <3>1. j \in 1 .. n + Len(d) \/ j = n + Len(d) + 1
      BY <1>7, <2>0
    <3>2. k \in 1 .. n + Len(d) \/ k = n + Len(d) + 1
      BY <1>7, <2>0
    <3>3. CASE j \in 1 .. n + Len(d) /\ k \in 1 .. n + Len(d)
      <4>1. queue[j] = queue[k]
        BY <1>7, <2>2, <3>3
      <4> QED BY <1>6, <3>3, <4>1
    <3> QED BY <1>7, <1>9, <2>2, <3>1, <3>2, <3>3
  <2>3. Len(queue') = Len(replies') + Len(line'["device"])
    BY <1>1, <1>6, <1>7, <1>8 DEF n
  <2>4. ASSUME NEW k \in DOMAIN line'["device"] PROVE line'["device"][k] = queue'[Len(replies') + k]
    <3>0. Len(replies') = n
      BY <1>1 DEF n
    <3>1. CASE k \in 1 .. Len(d)
      <4>1. n + k \in 1 .. n + Len(d)
        BY <1>6, <3>1
      <4> QED BY <1>6, <1>7, <1>8, <3>0, <3>1, <4>1
    <3>2. CASE k = Len(d) + 1
      <4>1. n + k = n + Len(d) + 1
        BY <1>6, <3>2
      <4> QED BY <1>7, <1>8, <3>0, <3>2, <4>1
    <3> QED BY <1>6, <1>8, <3>1, <3>2
  <2> QED BY <2>1, <2>2, <2>3, <2>4 DEF QueueHolds
<1>11. OneWay'
  <2>1. target = "device"
    BY <1>1 DEF BusInv, OneWay, BusTypeOK
  <2>2. line'["memory"] = line["memory"]
    BY <1>5 DEF Items
  <2> QED BY <1>1, <2>1, <2>2 DEF BusInv, OneWay
<1>12. BusTypeOK'
  BY <1>1, <1>5, <1>7 DEF BusInv, BusTypeOK
<1>13. ASSUME NEW s \in Tasks \ {t}, NEW v, OnWay(s, v) PROVE OnWay(s, v)'
  <2>1. ASSUME NEW k \in DOMAIN replies, queue[k] = s, replies[k] = v PROVE OnWay(s, v)'
    <3>1. k \in 1 .. n + Len(d)
      BY <1>6, <2>1
    <3>2. queue'[k] = s /\ replies'[k] = v /\ k \in DOMAIN replies'
      BY <1>1, <1>7, <2>1, <3>1
    <3> QED BY <3>2 DEF OnWay
  <2>2. CASE flight[s] = [at |-> "back", result |-> v]
    BY <1>5, <2>2 DEF OnWay
  <2> QED BY <1>13, <2>1, <2>2 DEF OnWay
<1>14. \A s \in Tasks \ {t} : Keeps(s)
  <2>1. \A s \in Tasks \ {t} : \A v : OnWay(s, v) => OnWay(s, v)'
    BY <1>13
  <2> QED BY <1>5, <2>1, OthersKeep
<1>15. Keeps(t)
  <2>1. \A x \in Int : \A y, z : Is(t, x, y, z) => Is(t, x, y, z)'
    <3> SUFFICES ASSUME NEW x \in Int, NEW y, NEW z, Is(t, x, y, z) PROVE Is(t, x, y, z)'
      OBVIOUS
    <3>1. flight'[t] = [at |-> "device", data |-> Packed(Request(x, y, z))]
      BY <1>3, <1>5
    <3> QED BY <3>1 DEF Is
  <2>2. flight[t].at # "device" /\ Waits(t) /\ Waits(t)' /\ t \in Tasks
    BY <1>2, <1>5
  <2> QED BY <2>1, <2>2, MovedKeeps
<1>16. mem' = mem
  BY <1>1
<1> QED BY <1>5, <1>10, <1>11, <1>12, <1>14, <1>15, <1>16 DEF BusInv, Moves

LEMMA QueueFacts ==
  ASSUME BusInv
  PROVE  /\ Len(queue) = Len(replies) + Len(line["device"])
         /\ Len(line["device"]) \in Nat /\ Len(replies) \in Nat
         /\ DOMAIN queue = 1 .. Len(replies) + Len(line["device"])
         /\ DOMAIN line["device"] = 1 .. Len(line["device"]) /\ DOMAIN replies = 1 .. Len(replies)
         /\ \A k \in 1 .. Len(line["device"]) : line["device"][k] = queue[Len(replies) + k]
         /\ \A k \in DOMAIN queue : queue[k] \in Tasks /\ flight[queue[k]] # None /\ flight[queue[k]].at = "device"
         /\ \A j, k \in DOMAIN queue : queue[j] = queue[k] => j = k
<1> DEFINE d == line["device"]
           n == Len(replies)
<1>1. d \in Seq(Tasks) /\ queue \in Seq(Tasks) /\ replies \in Seq(Word \cup {X})
  BY DEF BusInv, BusTypeOK, Items
<1>2. /\ DOMAIN queue = 1 .. Len(queue) /\ DOMAIN d = 1 .. Len(d) /\ DOMAIN replies = 1 .. n
      /\ Len(d) \in Nat /\ n \in Nat /\ \A k \in 1 .. Len(queue) : queue[k] \in Tasks
  BY <1>1, Lists
<1> QED BY <1>2 DEF BusInv, QueueHolds

LEMMA DeviceStep ==
  ASSUME Powers, Width # 0, BusInv, Sound, Device
  PROVE  BusInv' /\ \E t \in Tasks : Serves(t)
<1> PICK item : item = "device"
  OBVIOUS
<1> PICK t : t = Head(line[item])
  OBVIOUS
<1> PICK bits : bits = Packer(flight[t].data)
  OBVIOUS
<1> PICK data, addr, write : 
       /\ data = get(bits, Width) /\ addr = get(after(bits, Width), AddrWidth)
       /\ write = (get(after(after(bits, Width), AddrWidth), 1) = 1)
  OBVIOUS
<1>1. /\ line[item] # <<>>
      /\ mem' = IF write /\ addr \in Address THEN [mem EXCEPT ![addr] = data] ELSE mem
      /\ replies' = Append(replies, IF write \/ addr \notin Address THEN 0 ELSE mem[addr])
      /\ line' = [line EXCEPT ![item] = Tail(@)]
      /\ UNCHANGED <<target, flight, queue>>
  BY DEF Device
<1>2. item \in Items /\ t \in Tasks /\ flight[t] # None /\ flight[t].at = "device" /\ Waits(t)
  <2>1. item \in Items
    BY DEF Items
  <2>2. t \in Tasks /\ flight[t] # None /\ flight[t].at = item /\ Waits(t)
    BY <1>1, <2>1, FirstOf, Zenon
  <2> QED BY <2>1, <2>2
<1>3. /\ LinesHold'
      /\ line' \in [Items -> Seq(Tasks)]
      /\ line'[item] = Tail(line[item])
      /\ \A i \in Items \ {item} : line'[i] = line[i]
      /\ \A s \in Tasks \ {t} : flight'[s] = flight[s] /\ (Waits(s) => Waits(s)')
  <2> PICK g : g = flight[t]
    OBVIOUS
  <2>1. flight' = [flight EXCEPT ![t] = g]
    BY <1>1 DEF BusInv, BusTypeOK
  <2>2. Left(t, item, g)
    BY <1>1, <2>1 DEF Left
  <2>3. BusTypeOK /\ LinesHold
    BY DEF BusInv
  <2>4. t = Head(line[item])
    OBVIOUS
  <2> QED BY <1>1, <1>2, <2>2, <2>3, <2>4, Leave, Zenon
<1>4. \A a, w, d : Valid(a, w, d) /\ Is(t, a, w, d) => (w => data = d) /\ addr = a /\ (write <=> w) /\ a \in Address
  <2> SUFFICES ASSUME NEW a, NEW w, NEW d, Valid(a, w, d), Is(t, a, w, d)
               PROVE  (w => data = d) /\ addr = a /\ (write <=> w) /\ a \in Address
    OBVIOUS
  <2>1. flight[t] = [at |-> flight[t].at, data |-> Packed(Request(a, w, d))]
    BY <1>2, IsAtDevice
  <2>2. bits = Packer(Packed(Request(a, w, d)))
    BY <2>1
  <2>3. a \in Address /\ w \in BOOLEAN /\ (w => d \in Word)
    BY DEF Valid
  <2>4. /\ w => get(bits, Width) = d
        /\ get(after(bits, Width), AddrWidth) = a
        /\ (get(after(after(bits, Width), AddrWidth), 1) = 1) <=> w
    BY <2>2, <2>3, Unpacked
  <2> QED BY <2>3, <2>4
<1>5. \A a, w, d : Valid(a, w, d) /\ Is(t, a, w, d) =>
        /\ mem' = IF w THEN [mem EXCEPT ![a] = d] ELSE mem
        /\ replies' = Append(replies, IF w THEN 0 ELSE mem[a])
  <2> SUFFICES ASSUME NEW a, NEW w, NEW d, Valid(a, w, d), Is(t, a, w, d)
               PROVE  /\ mem' = IF w THEN [mem EXCEPT ![a] = d] ELSE mem
                      /\ replies' = Append(replies, IF w THEN 0 ELSE mem[a])
    OBVIOUS
  <2>1. (w => data = d) /\ addr = a /\ (write <=> w) /\ a \in Address
    BY <1>4
  <2>2. CASE w
    BY <1>1, <2>1, <2>2
  <2>3. CASE ~w
    BY <1>1, <2>1, <2>3
  <2> QED BY <2>2, <2>3
<1>6. PICK a, w, d : Valid(a, w, d) /\ Is(t, a, w, d)
  BY <1>2 DEF Sound
<1>7. /\ mem' = IF w THEN [mem EXCEPT ![a] = d] ELSE mem
      /\ replies' = Append(replies, IF w THEN 0 ELSE mem[a])
  BY <1>5, <1>6
<1>8. target = "device"
  <2>1. line["device"] # <<>>
    BY <1>1
  <2> QED BY <2>1 DEF BusInv, OneWay, BusTypeOK
<1>9. BusTypeOK' /\ (IF w THEN 0 ELSE mem[a]) \in Word \cup {X}
  <2>1. mem \in [Address -> Word \cup {X}] /\ replies \in Seq(Word \cup {X})
    BY DEF BusInv, BusTypeOK
  <2>2. a \in Address /\ (w => d \in Word)
    BY <1>6 DEF Valid
  <2>3. (IF w THEN 0 ELSE mem[a]) \in Word \cup {X}
    BY <2>1, <2>2, WordZero
  <2>4. replies' \in Seq(Word \cup {X})
    BY <1>7, <2>1, <2>3, Lists
  <2>5. mem' \in [Address -> Word \cup {X}]
    BY <1>7, <2>1, <2>2
  <2> QED BY <1>1, <1>3, <1>8, <2>3, <2>4, <2>5 DEF BusInv, BusTypeOK
<1> DEFINE dl == line["device"]
           n == Len(replies)
<1>10. /\ Len(queue) = n + Len(dl) /\ Len(dl) \in Nat /\ n \in Nat
       /\ DOMAIN queue = 1 .. n + Len(dl) /\ DOMAIN dl = 1 .. Len(dl) /\ DOMAIN replies = 1 .. n
       /\ \A k \in 1 .. Len(dl) : dl[k] = queue[n + k]
  BY QueueFacts
<1>11. /\ Len(replies') = n + 1 /\ DOMAIN replies' = 1 .. n + 1
       /\ \A k \in 1 .. n : replies'[k] = replies[k]
       /\ replies'[n + 1] = (IF w THEN 0 ELSE mem[a])
  <2> PICK result : result = (IF w THEN 0 ELSE mem[a])
    OBVIOUS
  <2>1. replies \in Seq(Word \cup {X}) /\ result \in Word \cup {X}
    BY <1>9 DEF BusInv, BusTypeOK
  <2>2. replies' = Append(replies, result)
    BY <1>7
  <2> QED BY <2>1, <2>2, Lists
<1>12. /\ Len(dl) >= 1 /\ t = dl[1] /\ Len(line'["device"]) = Len(dl) - 1
       /\ DOMAIN line'["device"] = 1 .. Len(dl) - 1
       /\ \A k \in 1 .. Len(dl) - 1 : line'["device"][k] = dl[k + 1]
  <2>1. dl \in Seq(Tasks) /\ dl # <<>> /\ line'["device"] = Tail(dl) /\ t = Head(dl)
    BY <1>1, <1>3 DEF BusInv, BusTypeOK, Items
  <2> QED BY <2>1, Lists
<1> HIDE DEF dl, n
<1>13. QueueHolds'
  <2>1. Len(queue') = Len(replies') + Len(line'["device"])
    <3>1. \A x \in Nat : n + x = (n + 1) + (x - 1)
      BY <1>10
    <3>2. n + Len(dl) = (n + 1) + (Len(dl) - 1)
      BY <1>10, <3>1
    <3>3. Len(queue') = n + Len(dl)
      BY <1>1, <1>10
    <3>4. Len(replies') = n + 1
      BY <1>11
    <3>5. Len(line'["device"]) = Len(dl) - 1
      BY <1>12
    <3> QED BY <3>2, <3>3, <3>4, <3>5
  <2>2. ASSUME NEW k \in DOMAIN line'["device"] PROVE line'["device"][k] = queue'[Len(replies') + k]
    <3>1. k \in 1 .. Len(dl) - 1
      BY <1>12
    <3>2. k + 1 \in 1 .. Len(dl) /\ n + (k + 1) = (n + 1) + k
      BY <1>10, <3>1
    <3>3. line'["device"][k] = queue[n + (k + 1)]
      BY <1>10, <1>12, <3>1, <3>2
    <3> QED BY <1>1, <1>11, <3>2, <3>3
  <2>3. \A k \in DOMAIN queue' : flight'[queue'[k]] # None /\ flight'[queue'[k]].at = "device"
    BY <1>1 DEF BusInv, QueueHolds
  <2>4. \A j, k \in DOMAIN queue' : queue'[j] = queue'[k] => j = k
    BY <1>1 DEF BusInv, QueueHolds
  <2> QED BY <2>1, <2>2, <2>3, <2>4 DEF QueueHolds
<1>14. OneWay'
  BY <1>1, <1>2, <1>3, <1>8 DEF BusInv, OneWay, Items
<1>15. ASSUME NEW s \in Tasks \ {t}, NEW v, OnWay(s, v) PROVE OnWay(s, v)'
  <2>1. ASSUME NEW k \in DOMAIN replies, queue[k] = s, replies[k] = v PROVE OnWay(s, v)'
    <3>1. queue'[k] = s /\ replies'[k] = v /\ k \in DOMAIN replies'
      <4>1. k \in 1 .. n /\ k \in 1 .. n + 1
        BY <1>10, <2>1
      <4> QED BY <1>1, <1>11, <2>1, <4>1
    <3> QED BY <3>1 DEF OnWay
  <2>2. CASE flight[s] = [at |-> "back", result |-> v]
    BY <1>1, <2>2 DEF OnWay
  <2> QED BY <1>15, <2>1, <2>2 DEF OnWay
<1>16. \A s \in Tasks \ {t} : Keeps(s)
  <2>1. \A s \in Tasks \ {t} : \A v : OnWay(s, v) => OnWay(s, v)'
    BY <1>15
  <2> QED BY <1>3, <2>1, OthersKeep
<1>17. queue'[n + 1] = t /\ n + 1 \in DOMAIN replies'
  <2>1. 1 \in 1 .. Len(dl)
    <3>1. Len(dl) \in Nat
      BY <1>10
    <3>2. Len(dl) >= 1
      BY <1>12
    <3>3. \A x \in Nat : x >= 1 => 1 \in 1 .. x
      OBVIOUS
    <3> QED BY <3>1, <3>2, <3>3
  <2>2. dl[1] = queue[n + 1]
    BY <1>10, <2>1
  <2>3. t = dl[1]
    BY <1>12
  <2>4. queue' = queue
    BY <1>1
  <2>5. n \in Nat /\ n + 1 \in 1 .. n + 1
    BY <1>10
  <2>6. DOMAIN replies' = 1 .. n + 1
    BY <1>11
  <2> QED BY <2>2, <2>3, <2>4, <2>5, <2>6
<1>18. Serves(t)
  <2> SUFFICES ASSUME NEW x, NEW y, NEW z, Valid(x, y, z) /\ Is(t, x, y, z)
               PROVE  /\ mem' = IF y THEN [mem EXCEPT ![x] = z] ELSE mem
                      /\ OnWay(t, IF y THEN 0 ELSE mem[x])'
    BY <1>2, <1>16 DEF Serves
  <2>1. /\ mem' = IF y THEN [mem EXCEPT ![x] = z] ELSE mem
        /\ replies' = Append(replies, IF y THEN 0 ELSE mem[x])
    BY <1>5
  <2> PICK result : result = (IF y THEN 0 ELSE mem[x])
    OBVIOUS
  <2>2. replies'[n + 1] = result
    <3>1. replies \in Seq(Word \cup {X}) /\ result \in Word \cup {X}
      <4>1. x \in Address
        BY DEF Valid
      <4> QED BY <4>1, WordZero DEF BusInv, BusTypeOK
    <3>2. replies' = Append(replies, result)
      BY <2>1
    <3> QED BY <3>1, <3>2, Lists DEF n
  <2>3. OnWay(t, result)'
    BY <1>17, <2>2 DEF OnWay
  <2> QED BY <2>1, <2>3
<1> QED BY <1>2, <1>3, <1>9, <1>13, <1>14, <1>18 DEF BusInv


LEMMA InterfaceReceiveStep ==
  ASSUME BusInv, InterfaceReceive
  PROVE  BusInv' /\ Moves
<1> PICK t : t = Head(queue)
  OBVIOUS
<1> PICK v : v = Head(replies)
  OBVIOUS
<1> PICK g : g = [at |-> "back", result |-> v]
  OBVIOUS
<1> DEFINE d == line["device"]
           n == Len(replies)
<1>1. /\ replies # <<>> /\ queue # <<>>
      /\ flight' = [flight EXCEPT ![t] = g]
      /\ queue' = Tail(queue) /\ replies' = Tail(replies)
      /\ UNCHANGED <<target, line, mem>>
  BY DEF InterfaceReceive, Committed
<1>2. queue \in Seq(Tasks) /\ replies \in Seq(Word \cup {X})
  BY DEF BusInv, BusTypeOK
<1>3. /\ n >= 1 /\ v = replies[1] /\ t = queue[1] /\ t \in Tasks
      /\ queue' \in Seq(Tasks) /\ replies' \in Seq(Word \cup {X})
      /\ Len(replies') = n - 1 /\ DOMAIN replies' = 1 .. n - 1
      /\ \A k \in 1 .. n - 1 : replies'[k] = replies[k + 1]
      /\ Len(queue') = Len(queue) - 1 /\ DOMAIN queue' = 1 .. Len(queue) - 1
      /\ \A k \in 1 .. Len(queue) - 1 : queue'[k] = queue[k + 1]
  BY <1>1, <1>2, Lists
<1>4. /\ Len(queue) = n + Len(d) /\ Len(d) \in Nat /\ n \in Nat
      /\ DOMAIN queue = 1 .. n + Len(d) /\ DOMAIN d = 1 .. Len(d) /\ DOMAIN replies = 1 .. n
      /\ \A k \in 1 .. Len(d) : d[k] = queue[n + k]
      /\ \A k \in DOMAIN queue : queue[k] \in Tasks /\ flight[queue[k]] # None /\ flight[queue[k]].at = "device"
      /\ \A j, k \in DOMAIN queue : queue[j] = queue[k] => j = k
  BY QueueFacts
<1> HIDE DEF n, d
<1>5. 1 \in DOMAIN queue
  <2>1. n + Len(d) \in Nat /\ n + Len(d) >= 1
    BY <1>3, <1>4
  <2> QED BY <1>4, <2>1
<1>6. flight[t] # None /\ flight[t].at = "device"
  BY <1>3, <1>4, <1>5
<1>7. Away(t) /\ ~Waits(t)
  <2>1. ASSUME NEW k \in 1 .. Len(d), d[k] = t PROVE FALSE
    <3>1. n + k \in 1 .. n + Len(d) /\ n + k # 1
      BY <1>3, <1>4
    <3>2. queue[n + k] = queue[1]
      BY <1>3, <1>4, <2>1
    <3> QED BY <1>4, <1>5, <3>1, <3>2
  <2>2. \A k \in DOMAIN line["device"] : line["device"][k] # t
    BY <1>4, <2>1 DEF d
  <2>3. ASSUME NEW i \in Items, NEW k \in DOMAIN line[i], line[i][k] = t PROVE FALSE
    <3>1. flight[t].at = i
      BY <2>3 DEF BusInv, LinesHold
    <3> QED BY <1>6, <2>2, <2>3, <3>1
  <2>4. Away(t)
    BY <2>3 DEF Away
  <2> QED BY <2>4 DEF Away, Waits
<1>8. g # None
  <2>1. v \in Word \cup {X}
    BY <1>1, <1>2, Lists
  <2>2. g \in Requests
    BY <2>1 DEF Requests, Word
  <2> QED BY <2>2, BusAssumption
<1>9. /\ LinesHold' /\ flight' = [s \in Tasks |-> flight'[s]] /\ flight'[t] = g
      /\ \A s \in Tasks \ {t} : flight'[s] = flight[s] /\ (Waits(s) => Waits(s)')
  <2>1. BusTypeOK /\ LinesHold /\ line' = line
    BY <1>1 DEF BusInv
  <2> QED BY <1>1, <1>3, <1>7, <2>1, Stay
<1>10. QueueHolds'
  <2>0. \A k \in 1 .. Len(queue) - 1 : k \in Nat /\ k >= 1 /\ k + 1 \in DOMAIN queue /\ k + 1 # 1
    BY <1>4
  <2>1. ASSUME NEW k \in DOMAIN queue' PROVE flight'[queue'[k]] # None /\ flight'[queue'[k]].at = "device"
    <3>1. k \in 1 .. Len(queue) - 1
      BY <1>3
    <3>2. k + 1 \in DOMAIN queue /\ k + 1 # 1
      BY <2>0, <3>1
    <3>3. queue[k + 1] # t
      BY <1>3, <1>4, <1>5, <3>2
    <3>4. queue[k + 1] \in Tasks \ {t} /\ flight[queue[k + 1]] # None /\ flight[queue[k + 1]].at = "device"
      BY <1>4, <3>2, <3>3
    <3>5. flight'[queue[k + 1]] = flight[queue[k + 1]]
      BY <1>9, <3>4
    <3> QED BY <1>3, <3>1, <3>4, <3>5
  <2>2. ASSUME NEW j \in DOMAIN queue', NEW k \in DOMAIN queue', queue'[j] = queue'[k] PROVE j = k
    <3>1. j \in 1 .. Len(queue) - 1 /\ k \in 1 .. Len(queue) - 1
      BY <1>3
    <3>2. queue[j + 1] = queue[k + 1]
      BY <1>3, <2>2, <3>1
    <3>3. j + 1 = k + 1
      BY <1>4, <2>0, <3>1, <3>2
    <3> QED BY <2>0, <3>1, <3>3
  <2>3. Len(queue') = Len(replies') + Len(line'["device"])
    <3>1. (n + Len(d)) - 1 = (n - 1) + Len(d)
      BY <1>4
    <3>2. line'["device"] = d
      BY <1>1 DEF d
    <3>3. Len(queue') = (n + Len(d)) - 1
      BY <1>3, <1>4
    <3>4. Len(replies') = n - 1
      BY <1>3
    <3> QED BY <3>1, <3>2, <3>3, <3>4
  <2>4. ASSUME NEW k \in DOMAIN line'["device"] PROVE line'["device"][k] = queue'[Len(replies') + k]
    <3>1. line'["device"] = d
      BY <1>1 DEF d
    <3>2. k \in 1 .. Len(d)
      BY <1>4, <3>1
    <3>3. (n - 1) + k \in 1 .. Len(queue) - 1 /\ ((n - 1) + k) + 1 = n + k
      BY <1>3, <1>4, <3>2
    <3>4. d[k] = queue[n + k]
      BY <1>4, <3>2
    <3>5. queue'[(n - 1) + k] = queue[n + k]
      BY <1>3, <3>3
    <3>6. Len(replies') = n - 1
      BY <1>3
    <3> QED BY <3>1, <3>4, <3>5, <3>6
  <2> QED BY <2>1, <2>2, <2>3, <2>4 DEF QueueHolds
<1>11. OneWay'
  BY <1>1 DEF BusInv, OneWay
<1>12. BusTypeOK'
  BY <1>1, <1>3, <1>9 DEF BusInv, BusTypeOK
<1>13. ASSUME NEW s \in Tasks, NEW x, OnWay(s, x) PROVE OnWay(s, x)'
  <2>1. ASSUME NEW k \in DOMAIN replies, queue[k] = s, replies[k] = x, k # 1 PROVE OnWay(s, x)'
    <3>1. k - 1 \in 1 .. n - 1 /\ k - 1 \in 1 .. Len(queue) - 1 /\ (k - 1) + 1 = k
      BY <1>4, <2>1
    <3>2. queue'[k - 1] = s /\ replies'[k - 1] = x /\ k - 1 \in DOMAIN replies'
      BY <1>3, <2>1, <3>1
    <3> QED BY <3>2 DEF OnWay
  <2>2. ASSUME queue[1] = s, replies[1] = x PROVE OnWay(s, x)'
    <3>1. flight'[s] = [at |-> "back", result |-> x]
      BY <1>3, <1>9, <2>2
    <3> QED BY <3>1 DEF OnWay
  <2>3. CASE flight[s] = [at |-> "back", result |-> x]
    <3>1. s # t
      BY <1>6, <2>3
    <3>2. flight'[s] = flight[s]
      BY <1>9, <3>1
    <3> QED BY <2>3, <3>2 DEF OnWay
  <2> QED BY <1>13, <2>1, <2>2, <2>3 DEF OnWay
<1>14. \A s \in Tasks \ {t} : Keeps(s)
  <2>1. \A s \in Tasks \ {t} : \A x : OnWay(s, x) => OnWay(s, x)'
    BY <1>13
  <2> QED BY <1>9, <2>1, OthersKeep
<1>15. Keeps(t)
  <2>1. \A a \in Int : \A w, x : ~Asks(t, a, w, x)
    BY <1>7 DEF Asks
  <2>2. \A x : ~Got(t, x)
    BY <1>6 DEF Got
  <2>3. \A x : OnWay(t, x) => OnWay(t, x)'
    BY <1>3, <1>13
  <2> QED BY <1>6, <2>1, <2>2, <2>3 DEF Keeps
<1>16. mem' = mem
  BY <1>1
<1> QED BY <1>9, <1>10, <1>11, <1>12, <1>14, <1>15, <1>16 DEF BusInv, Moves

LEMMA CallBackStep ==
  ASSUME BusInv, NEW t \in Tasks, CallBack(t)
  PROVE  BusInv' /\ Answers(t)
<1> PICK v : v = IF flight[t].result = X THEN None ELSE flight[t].result
  OBVIOUS
<1> PICK g : g = [at |-> "done", result |-> v]
  OBVIOUS
<1>1. /\ flight[t] # None /\ flight[t].at = "back"
      /\ flight' = [flight EXCEPT ![t] = g]
      /\ UNCHANGED <<target, line, queue, replies, mem>>
  BY DEF CallBack, Committed
<1>2. Away(t) /\ ~Waits(t) /\ \A k \in DOMAIN queue : queue[k] # t
  <2>1. flight[t].at \notin Items
    BY <1>1 DEF Items
  <2> QED BY <2>1, AwayIs
<1>3. /\ LinesHold' /\ flight' = [s \in Tasks |-> flight'[s]] /\ flight'[t] = g
      /\ \A s \in Tasks \ {t} : flight'[s] = flight[s] /\ (Waits(s) => Waits(s)')
  <2>1. BusTypeOK /\ LinesHold /\ line' = line
    BY <1>1 DEF BusInv
  <2> QED BY <1>1, <1>2, <2>1, Stay
<1>4. QueueHolds' /\ \A s \in Tasks \ {t} : \A x : OnWay(s, x) => OnWay(s, x)'
  <2>1. line'["device"] = line["device"] /\ UNCHANGED <<queue, replies>>
    BY <1>1
  <2> QED BY <1>2, <1>3, <2>1, QueueStays DEF BusInv
<1>5. OneWay' /\ BusTypeOK'
  BY <1>1, <1>3 DEF BusInv, OneWay, BusTypeOK
<1>6. \A s \in Tasks \ {t} : Keeps(s)
  BY <1>3, <1>4, OthersKeep
<1>7. ASSUME NEW x, OnWay(t, x) PROVE Got(t, IF x = X THEN None ELSE x)'
  <2>1. \A k \in DOMAIN replies : queue[k] # t
    <3>1. \A k \in DOMAIN replies : k \in DOMAIN queue
      BY QueueFacts
    <3> QED BY <1>2, <3>1
  <2>2. flight[t] = [at |-> "back", result |-> x]
    BY <1>7, <2>1 DEF OnWay
  <2>3. flight[t].result = x
    BY <2>2
  <2>4. flight'[t] = [at |-> "done", result |-> IF x = X THEN None ELSE x]
    BY <1>3, <2>3
  <2> QED BY <2>4 DEF Got
<1>8. \A x : ~Got(t, x)
  BY <1>1 DEF Got
<1>9. mem' = mem
  BY <1>1
<1> QED BY <1>1, <1>2, <1>3, <1>4, <1>5, <1>6, <1>7, <1>8, <1>9 DEF BusInv, Answers

(* What a step of the bus does.                                               *)
LEMMA BusEffect ==
  ASSUME Powers, Width # 0, BusInv, Sound, BusStep
  PROVE  BusInv' /\ (Moves \/ \E t \in Tasks : Serves(t) \/ Answers(t))
<1>1. CASE \E item \in {"regfile", "access"} : Multiplex(item)
  BY <1>1, MultiplexStep
<1>2. CASE MemoryRun
  BY <1>2, MemoryRunStep
<1>3. CASE InterfaceSend
  BY <1>3, InterfaceSendStep
<1>4. CASE Device
  BY <1>4, DeviceStep
<1>5. CASE InterfaceReceive
  BY <1>5, InterfaceReceiveStep
<1>6. CASE \E t \in Tasks : CallBack(t)
  BY <1>6, CallBackStep
<1> QED BY <1>1, <1>2, <1>3, <1>4, <1>5, <1>6 DEF BusStep

(* The request of a task that is done with it goes.                           *)
LEMMA Cleared ==
  ASSUME BusInv, NEW t \in Tasks, flight[t] = None \/ flight[t].at \notin Items,
         flight' = [flight EXCEPT ![t] = None],
         UNCHANGED <<target, line, queue, replies, mem>>
  PROVE  BusInv' /\ flight'[t] = None /\ \A s \in Tasks \ {t} : Keeps(s)
<1>1. Away(t) /\ ~Waits(t) /\ \A k \in DOMAIN queue : queue[k] # t
  BY AwayIs
<1>2. /\ LinesHold' /\ flight' = [s \in Tasks |-> flight'[s]] /\ flight'[t] = None
      /\ \A s \in Tasks \ {t} : flight'[s] = flight[s] /\ (Waits(s) => Waits(s)')
  <2>1. BusTypeOK /\ LinesHold /\ line' = line
    BY DEF BusInv
  <2> QED BY <1>1, <2>1, Stay
<1>3. QueueHolds' /\ \A s \in Tasks \ {t} : \A x : OnWay(s, x) => OnWay(s, x)'
  <2>1. line'["device"] = line["device"] /\ UNCHANGED <<queue, replies>>
    OBVIOUS
  <2> QED BY <1>1, <1>2, <2>1, QueueStays DEF BusInv
<1>4. OneWay' /\ BusTypeOK'
  BY <1>2 DEF BusInv, OneWay, BusTypeOK
<1>5. \A s \in Tasks \ {t} : Keeps(s)
  BY <1>2, <1>3, OthersKeep
<1> QED BY <1>2, <1>3, <1>4, <1>5 DEF BusInv

(* A request is sent.                                                         *)
LEMMA SentStep ==
  ASSUME Powers, Width # 0, BusInv,
         NEW t \in Tasks, flight[t] = None \/ flight[t].at \notin Items,
         NEW a, NEW w, NEW d, Valid(a, w, d),
         \/ Sent(t, "regfile", a - Offset, w, d)
         \/ Sent(t, "access", a, w, d),
         UNCHANGED <<target, queue, replies, mem>>
  PROVE  BusInv' /\ Asks(t, a, w, d)' /\ \A s \in Tasks \ {t} : Keeps(s)
<1> PICK item, addr : /\ item \in {"regfile", "access"}
                      /\ addr = IF item = "regfile" THEN a - Offset ELSE a
                      /\ Sent(t, item, addr, w, d)
  OBVIOUS
<1>1. Away(t) /\ ~Waits(t) /\ \A k \in DOMAIN queue : queue[k] # t
  BY AwayIs
<1>2. item \in Items /\ item # "device" /\ item # "memory" /\ item # "interface"
  BY DEF Items
<1>3. [at |-> item, addr |-> addr, write |-> w, data |-> d] # None
  BY <1>2, RequestsApart
<1>4. /\ LinesHold' /\ flight' = [s \in Tasks |-> flight'[s]]
      /\ line' \in [Items -> Seq(Tasks)]
      /\ flight'[t] = [at |-> item, addr |-> addr, write |-> w, data |-> d]
      /\ Waits(t)'
      /\ \A i \in Items \ {item} : line'[i] = line[i]
      /\ \A s \in Tasks \ {t} : flight'[s] = flight[s] /\ (Waits(s) => Waits(s)')
  BY <1>1, <1>2, <1>3, Enter DEF BusInv
<1>5. QueueHolds' /\ \A s \in Tasks \ {t} : \A x : OnWay(s, x) => OnWay(s, x)'
  <2>1. line'["device"] = line["device"] /\ UNCHANGED <<queue, replies>>
    BY <1>2, <1>4 DEF Items
  <2> QED BY <1>1, <1>4, <2>1, QueueStays DEF BusInv
<1>6. OneWay'
  BY <1>2, <1>4 DEF BusInv, OneWay, Items
<1>7. BusTypeOK'
  BY <1>4 DEF BusInv, BusTypeOK
<1>8. \A s \in Tasks \ {t} : Keeps(s)
  BY <1>4, <1>5, OthersKeep
<1>9. Is(t, a, w, d)'
  BY <1>4 DEF Is
<1> QED BY <1>4, <1>5, <1>6, <1>7, <1>8, <1>9 DEF BusInv, Asks

----------------------------------------------------------------------------
(* The users.  One who is about to do something awaits nothing.               *)
Quiet(u) ==
    /\ flight[u] = None \/ flight[u].at \notin Items
    /\ holder \in {None, u} /\ (holder = u => locked)

(* What the file knows, with a word that u has just fetched.                  *)
Caches(u, c, v) ==
    /\ c = [x \in Register |-> c[x]] /\ v = [x \in Register |-> v[x]]
    /\ \A x \in Register :
         /\ c[x] \in Word \cup {None} /\ v[x] \in Word \cup {None}
         /\ x \notin Stable => c[x] = None
         /\ x \notin Volatile => /\ c[x] # None => c[x] = written[x]
                                 /\ v[x] # None => v[x] = written[x]
         /\ Owner[x] # u => c[x] = cache[x] /\ v[x] = volatile[x]
         /\ holder = None => v[x] = None
    /\ \A x \in dirty : v[x] # None

(* What a step of a user leaves, and what of its own it has to keep.          *)
Shapes ==
    /\ cache = [r \in Register |-> cache[r]]
    /\ volatile = [r \in Register |-> volatile[r]]
    /\ written = [r \in Register |-> written[r]]
    /\ user = [w \in Users |-> user[w]]

StepOK(u) ==
    /\ BusInv' /\ mem' = mem /\ (\A s \in Tasks \ {u} : Keeps(s))
    /\ HoldInv' /\ Shapes' /\ UserOK(u)'
    /\ \A w \in Users \ {u} : user'[w] = user[w]
    /\ \A r \in Register : Owner[r] = u => RegOK(r)'
    /\ \A r \in Register : Owner[r] # u =>
         /\ cache'[r] = cache[r] /\ written'[r] = written[r]
         /\ volatile'[r] \in {volatile[r], None}

LEMMA RegisterFacts ==
  /\ \A r \in Register : r \in Int /\ r + Offset \in Address /\ r + Offset \in Int
  /\ \A r \in Register : (r + Offset) - Offset = r
  /\ \A r, x \in Register : r + Offset = x + Offset => r = x
  /\ \A r \in Register : Owner[r] \in Users
  /\ Users \subseteq Tasks /\ Posts \subseteq Tasks /\ None \notin Users
  /\ \A a \in Address : a \in Int
<1>1. Offset \in Nat /\ Register \subseteq Nat /\ \A r \in Register : r + Offset \in Address
  BY BusAssumption, RegfileAssumption
<1>2. \A r \in Register : Owner[r] \in Users
  BY RegfileAssumption
<1>3. \A a \in Address : a \in Int
  BY BusAssumption
<1> QED BY <1>1, <1>2, <1>3, BusAssumption DEF Tasks

(* What is on its way or has come does not wait any more.                     *)
LEMMA AnsweredNotWaiting ==
  ASSUME BusInv, NEW t, NEW v, OnWay(t, v) \/ Got(t, v)
  PROVE  ~Waits(t)
<1>1. CASE Got(t, v)
  BY <1>1 DEF Got, Waits, Items
<1>2. CASE flight[t] = [at |-> "back", result |-> v]
  BY <1>2 DEF Waits, Items
<1>3. ASSUME NEW k \in DOMAIN replies, queue[k] = t, Waits(t) PROVE FALSE
  <2> DEFINE d == line["device"]
             n == Len(replies)
  <2>1. /\ Len(d) \in Nat /\ n \in Nat
        /\ DOMAIN queue = 1 .. n + Len(d) /\ DOMAIN d = 1 .. Len(d) /\ DOMAIN replies = 1 .. n
        /\ \A j \in 1 .. Len(d) : d[j] = queue[n + j]
        /\ \A j \in DOMAIN queue : flight[queue[j]].at = "device"
        /\ \A i, j \in DOMAIN queue : queue[i] = queue[j] => i = j
    BY QueueFacts
  <2> HIDE DEF n, d
  <2>2. k \in DOMAIN queue
    BY <1>3, <2>1
  <2>3. flight[t].at = "device"
    BY <1>3, <2>1, <2>2
  <2>4. PICK j \in DOMAIN d : d[j] = t
    BY <1>3, <2>3 DEF Waits, d
  <2>5. n + j \in DOMAIN queue /\ n + j # k /\ queue[n + j] = t
    BY <1>3, <2>1, <2>4
  <2> QED BY <1>3, <2>1, <2>2, <2>5
<1> QED BY <1>1, <1>2, <1>3 DEF OnWay

(* Every request is one the items understand.                                 *)
LEMMA RequestsAreSound ==
  ASSUME RegfileInv, WordsFit
  PROVE  Sound
<1> SUFFICES ASSUME NEW t \in Tasks, Waits(t)
             PROVE  \E a, w, d : Valid(a, w, d) /\ Is(t, a, w, d)
  BY DEF Sound
<1>0. BusInv
  BY DEF RegfileInv
<1>1. \A v : ~OnWay(t, v) /\ ~Got(t, v)
  BY <1>0, AnsweredNotWaiting
<1>2. \A a \in Address, d \in Word : Valid(a, TRUE, d)
  BY DEF Valid
<1>3. \A a \in Address : Valid(a, FALSE, None)
  BY DEF Valid
<1>4. flight[t] # None
  BY DEF Waits
<1>5. CASE t \in Users
  <2>1. UserOK(t)
    BY <1>5 DEF RegfileInv
  <2>2. CASE Fetches(t)
    <3>1. PICK r \in Register : Asks(t, r + Offset, FALSE, None)
      BY <1>1, <2>2 DEF Fetches
    <3> QED BY <1>3, <3>1, RegisterFacts DEF Asks
  <2>3. CASE Writes(t)
    <3>1. PICK r \in Register, d \in Word : Asks(t, r + Offset, TRUE, d)
      BY <1>1, <2>3 DEF Writes
    <3> QED BY <1>2, <3>1, RegisterFacts DEF Asks
  <2> QED BY <1>4, <2>1, <2>2, <2>3 DEF UserOK
<1>6. CASE t \in Posts
  <2>1. PostOK(t)
    BY <1>6 DEF RegfileInv
  <2>2. PICK a \in PostAddress, w \in BOOLEAN, d \in Word \cup {None} : (w => d \in Word) /\ Asks(t, a, w, d)
    BY <1>1, <1>4, <2>1 DEF PostOK
  <2>3. Valid(a, w, d)
    BY <2>2, RegfileAssumption DEF Valid
  <2> QED BY <2>2, <2>3 DEF Asks
<1> QED BY <1>5, <1>6 DEF Tasks

(* A step that a user may make leaves the others what they had.               *)
LEMMA PostsKept ==
  ASSUME NEW t, Keeps(t), PostOK(t)
  PROVE  PostOK(t)'
<1>1. CASE flight[t] = None
  BY <1>1 DEF PostOK, Keeps
<1>2. ASSUME NEW a \in PostAddress, NEW w \in BOOLEAN, NEW d \in Word \cup {None},
             w => d \in Word, Asks(t, a, w, d)
      PROVE  PostOK(t)'
  <2>1. a \in Int
    BY RegfileAssumption, RegisterFacts
  <2>2. Asks(t, a, w, d)'
    BY <1>2, <2>1 DEF Keeps
  <2> QED BY <1>2, <2>2 DEF PostOK
<1>3. ASSUME NEW v \in Word \cup {X}, OnWay(t, v) PROVE PostOK(t)'
  <2>1. OnWay(t, v)'
    BY <1>3 DEF Keeps
  <2> QED BY <2>1 DEF PostOK
<1>4. ASSUME NEW v \in Word \cup {None}, Got(t, v) PROVE PostOK(t)'
  <2>1. Got(t, v)'
    BY <1>4 DEF Keeps
  <2> QED BY <2>1 DEF PostOK
<1> QED BY <1>1, <1>2, <1>3, <1>4 DEF PostOK

LEMMA WritesKept ==
  ASSUME NEW u, Keeps(u), Writes(u),
         \A r \in Register : Owner[r] = u => written'[r] = written[r]
  PROVE  Writes(u)'
<1>1. ASSUME NEW r \in Register, NEW d \in Word,
             Owner[r] = u, Writable(r), r \notin Volatile => d = written[r],
             Asks(u, r + Offset, TRUE, d)
      PROVE  Writes(u)'
  <2>1. Asks(u, r + Offset, TRUE, d)'
    BY <1>1, RegisterFacts DEF Keeps
  <2>2. r \notin Volatile => d = written'[r]
    BY <1>1
  <2> QED BY <1>1, <2>1, <2>2 DEF Writes, Writable
<1>2. ASSUME NEW v \in Word \cup {X}, OnWay(u, v) PROVE Writes(u)'
  <2>1. OnWay(u, v)'
    BY <1>2 DEF Keeps
  <2> QED BY <2>1 DEF Writes
<1>3. ASSUME NEW v \in Word \cup {None}, Got(u, v) PROVE Writes(u)'
  <2>1. Got(u, v)'
    BY <1>3 DEF Keeps
  <2> QED BY <2>1 DEF Writes
<1> QED BY <1>1, <1>2, <1>3 DEF Writes

(* A fetch goes on, while the words of its user's registers stay.             *)
LEMMA FetchKept ==
  ASSUME NEW u \in Users, Keeps(u), Fetches(u), user'[u] = user[u],
         Watched \/ window' = window,
         \A r \in Register : Owner[r] = u =>
           /\ volatile'[r] \in {volatile[r], None}
           /\ r \notin Volatile => mem'[r + Offset] = mem[r + Offset]
  PROVE  Fetches(u)'
<1>0. PICK r \in Register \ Opaque : \E use \in Uses(r), keep \in BOOLEAN :
        /\ Owner[r] = u /\ (keep => r \notin Volatile)
        /\ r \notin Volatile => volatile[r] = None
        /\ user[u] = [pc |-> "fetch", reg |-> r, use |-> use, keep |-> keep]
        /\ \/ Asks(u, r + Offset, FALSE, None)
           \/ \E v \in Word \cup {X} : OnWay(u, v) /\ Fresh(u, r, v)
           \/ \E v \in Word \cup {None} : Got(u, v) /\ (v = None \/ Fresh(u, r, v))
  BY DEF Fetches
<1>1. PICK use \in Uses(r), keep \in BOOLEAN :
        /\ Owner[r] = u /\ (keep => r \notin Volatile)
        /\ r \notin Volatile => volatile[r] = None
        /\ user[u] = [pc |-> "fetch", reg |-> r, use |-> use, keep |-> keep]
        /\ \/ Asks(u, r + Offset, FALSE, None)
           \/ \E v \in Word \cup {X} : OnWay(u, v) /\ Fresh(u, r, v)
           \/ \E v \in Word \cup {None} : Got(u, v) /\ (v = None \/ Fresh(u, r, v))
  BY <1>0
<1>2. user'[u].pc = "fetch" /\ user[u].pc = "fetch"
  BY <1>1
<1>3. window[u] \subseteq window'[u]
  BY <1>2 DEF Watched
<1>4. /\ r \notin Volatile => volatile'[r] = None
      /\ r \notin Volatile => mem'[r + Offset] = mem[r + Offset]
  BY <1>1
<1>5. \A v : Fresh(u, r, v) => Fresh(u, r, v)'
  BY <1>3, <1>4 DEF Fresh
<1>6. \/ Asks(u, r + Offset, FALSE, None)'
      \/ \E v \in Word \cup {X} : OnWay(u, v)' /\ Fresh(u, r, v)'
      \/ \E v \in Word \cup {None} : Got(u, v)' /\ (v = None \/ Fresh(u, r, v)')
  BY <1>1, <1>5, RegisterFacts DEF Keeps
<1> QED BY <1>1, <1>4, <1>6 DEF Fetches

(* The words watched are words.                                               *)
LEMMA WindowOK ==
  ASSUME RegTypeOK, BusInv', \A u \in Users : UserOK(u)', Watched
  PROVE  window' \in [Users -> SUBSET (Word \cup {X})]
<1>1. ASSUME NEW u \in Users, user'[u].pc = "fetch"
      PROVE  mem'[user'[u].reg + Offset] \in Word \cup {X}
  <2>1. Fetches(u)'
    <3>1. UserOK(u)'
      OBVIOUS
    <3>2. user'[u] # Idle /\ user'[u] # [pc |-> "push"]
      BY <1>1 DEF Idle
    <3>3. \A todo : user'[u] # [pc |-> "release", todo |-> todo]
      BY <1>1
    <3>4. ~Releases(u)'
      BY <3>3, Zenon DEF Releases
    <3> QED BY <3>1, <3>2, <3>4 DEF UserOK
  <2>2. PICK r \in Register : user'[u].reg = r
    BY <2>1 DEF Fetches
  <2>3. r + Offset \in Address
    BY RegisterFacts
  <2> QED BY <2>2, <2>3 DEF BusInv, BusTypeOK
<1>2. ASSUME NEW u \in Users
      PROVE  /\ window[u] \subseteq Word \cup {X}
             /\ window'[u] \subseteq Word \cup {X}
  <2>1. window[u] \subseteq Word \cup {X}
    BY DEF RegTypeOK
  <2>2. CASE user'[u].pc = "fetch"
    <3>1. window'[u] = (IF user[u].pc = "fetch" THEN window[u] ELSE {}) \cup {mem'[user'[u].reg + Offset]}
      BY <2>2 DEF Watched
    <3> QED BY <1>1, <2>1, <2>2, <3>1
  <2>3. CASE user'[u].pc # "fetch"
    <3>1. window'[u] = IF ret' # None /\ Owner[ret'.reg] = u THEN window[u] ELSE {}
      BY <2>3 DEF Watched
    <3> QED BY <2>1, <3>1
  <2> QED BY <2>1, <2>2, <2>3
<1>3. window' = [u \in Users |-> window'[u]]
  BY DEF Watched
<1> QED BY <1>2, <1>3

(* What a user does keeps the invariant.                                      *)
LEMMA StepKeeps ==
  ASSUME RegfileInv, NEW u \in Users, holder \in {None, u}, StepOK(u), Watched
  PROVE  RegfileInv'
<1>1. \A t \in Posts : PostOK(t)'
  <2> TAKE t \in Posts
  <2>1. t \in Tasks \ {u}
    BY BusAssumption DEF Tasks
  <2> QED BY <2>1, PostsKept DEF StepOK, RegfileInv
<1>2. ASSUME NEW w \in Users \ {u} PROVE UserOK(w)'
  <2>1. /\ w \in Tasks \ {u} /\ Keeps(w) /\ user'[w] = user[w] /\ UserOK(w)
    BY RegisterFacts DEF StepOK, RegfileInv
  <2>2. \A r \in Register : Owner[r] = w =>
          /\ volatile'[r] \in {volatile[r], None} /\ written'[r] = written[r]
          /\ r \notin Volatile => mem'[r + Offset] = mem[r + Offset]
    BY DEF StepOK
  <2>3. CASE user[w] = Idle /\ flight[w] = None
    BY <2>1, <2>3 DEF Keeps, UserOK
  <2>4. CASE Fetches(w)
    <3>1. Fetches(w)'
      BY <2>1, <2>2, <2>4, FetchKept
    <3> QED BY <3>1 DEF UserOK
  <2>5. CASE user[w] = [pc |-> "push"] /\ Writes(w)
    <3>1. Writes(w)'
      BY <2>1, <2>2, <2>5, WritesKept
    <3> QED BY <2>1, <2>5, <3>1 DEF UserOK
  <2>6. ~Releases(w)
    BY RegisterFacts DEF Releases
  <2> QED BY <2>1, <2>3, <2>4, <2>5, <2>6 DEF UserOK
<1>3. \A w \in Users : UserOK(w)'
  BY <1>2 DEF StepOK
<1>4. ASSUME NEW r \in Register, Owner[r] # u PROVE RegOK(r)'
  <2>1. /\ cache'[r] = cache[r] /\ written'[r] = written[r] /\ volatile'[r] \in {volatile[r], None}
        /\ mem' = mem
    BY <1>4 DEF StepOK
  <2>2. RegOK(r)
    BY DEF RegfileInv
  <2>3. ~Kept(r)
    <3>1. r \in dirty => Owner[r] = holder /\ holder # None
      BY DEF RegfileInv, HoldInv
    <3> QED BY <1>4, <3>1 DEF Kept
  <2>4. ASSUME NEW d \in Word, d = written[r], Asks(Owner[r], r + Offset, TRUE, d)
        PROVE  d = written'[r] /\ Asks(Owner[r], r + Offset, TRUE, d)'
    <3> PICK o : o = Owner[r]
      OBVIOUS
    <3>1. o \in Tasks \ {u} /\ r + Offset \in Int
      BY <1>4, RegisterFacts
    <3>2. Keeps(o)
      BY <3>1 DEF StepOK
    <3>3. Asks(o, r + Offset, TRUE, d)'
      BY <2>4, <3>1, <3>2 DEF Keeps
    <3> QED BY <2>1, <2>4, <3>3
  <2> QED BY <2>1, <2>2, <2>3, <2>4 DEF RegOK
<1>5. \A r \in Register : RegOK(r)'
  BY <1>4 DEF StepOK
<1>6. RegTypeOK'
  <2>1. window' \in [Users -> SUBSET (Word \cup {X})]
    BY <1>3, WindowOK DEF RegfileInv, StepOK
  <2> QED BY <2>1 DEF StepOK, Shapes, RegTypeOK
<1> QED BY <1>1, <1>3, <1>5, <1>6 DEF RegfileInv, StepOK

(* What the file knows now is such a word.                                    *)
LEMMA KnownCaches ==
  ASSUME RegfileInv, NEW u
  PROVE  Caches(u, cache, volatile)
<1>1. \A x \in Register : RegOK(x)
  BY DEF RegfileInv
<1>2. /\ cache = [x \in Register |-> cache[x]] /\ volatile = [x \in Register |-> volatile[x]]
  BY DEF RegfileInv, RegTypeOK
<1>3. /\ holder = None => \A x \in Register : volatile[x] = None
      /\ \A x \in dirty : volatile[x] # None
  BY DEF RegfileInv, HoldInv
<1> QED BY <1>1, <1>2, <1>3 DEF Caches, RegOK

(* A user who awaits nothing has no write on its way.                         *)
LEMMA QuietHasArrived ==
  ASSUME RegfileInv, NEW u \in Users, Quiet(u), NEW r \in Register, Owner[r] = u
  PROVE  /\ ~Waits(u)
         /\ r \notin Volatile => mem[r + Offset] = written[r] \/ (r \in dirty /\ locked)
         /\ r \notin Volatile => written[r] \in Word \cup {X}
<1>1. ~Waits(u)
  BY DEF Quiet, Waits
<1>2. RegOK(r)
  BY DEF RegfileInv
<1>3. Kept(r) => r \in dirty /\ locked
  BY RegisterFacts DEF Kept, Quiet, RegfileInv, HoldInv
<1> QED BY <1>1, <1>2, <1>3 DEF RegOK, Asks

(* The user has no request.                                                   *)
LEMMA RestsStep ==
  ASSUME RegfileInv, NEW u \in Users, Quiet(u), NEW c, NEW v, Caches(u, c, v),
         Rests(u, c, v), UNCHANGED <<dirty, locked, lockedRead, holder>>,
         written' = [r \in Register |-> written'[r]],
         \A r \in Register : (r \notin Volatile \/ Owner[r] # u) => written'[r] = written[r]
  PROVE  StepOK(u)
<1>0. BusInv /\ HoldInv /\ Shapes /\ u \in Tasks
  BY RegisterFacts DEF RegfileInv, RegTypeOK, Shapes
<1>1. BusInv' /\ flight'[u] = None /\ mem' = mem /\ \A s \in Tasks \ {u} : Keeps(s)
  <2>1. flight' = [flight EXCEPT ![u] = None] /\ UNCHANGED <<target, line, queue, replies, mem>>
    BY DEF Rests
  <2>2. flight[u] = None \/ flight[u].at \notin Items
    BY DEF Quiet
  <2> QED BY <1>0, <2>1, <2>2, Cleared
<1>2. user'[u] = Idle /\ (\A w \in Users \ {u} : user'[w] = user[w]) /\ user' = [w \in Users |-> user'[w]]
  BY <1>0 DEF Rests, Shapes
<1>3. cache' = c /\ volatile' = v
  BY DEF Rests
<1>4. Shapes'
  BY <1>0, <1>2, <1>3 DEF Shapes, Caches
<1>5. UserOK(u)'
  BY <1>1, <1>2 DEF UserOK
<1>6. HoldInv'
  <2>1. \A x \in Register : holder = None => v[x] = None
    BY DEF Caches
  <2>2. \A x \in dirty : v[x] # None
    BY DEF Caches
  <2>3. holder # None => holder = u /\ locked
    BY DEF Quiet
  <2>4. Idle.pc = "idle"
    BY DEF Idle
  <2> QED BY <1>0, <1>2, <1>3, <2>1, <2>2, <2>3, <2>4 DEF HoldInv
<1>7. ASSUME NEW r \in Register, Owner[r] = u PROVE RegOK(r)'
  <2>1. r \notin Volatile => mem'[r + Offset] = written'[r] \/ Kept(r)'
    BY <1>1, <1>7, QuietHasArrived DEF Kept
  <2>2. r \notin Volatile => written'[r] = written[r] /\ written[r] \in Word \cup {X}
    BY <1>7, QuietHasArrived
  <2> QED BY <1>3, <2>1, <2>2 DEF Caches, RegOK
<1>8. \A r \in Register : Owner[r] # u =>
         /\ cache'[r] = cache[r] /\ written'[r] = written[r]
         /\ volatile'[r] \in {volatile[r], None}
  BY <1>3 DEF Caches
<1> QED BY <1>1, <1>2, <1>4, <1>5, <1>6, <1>7, <1>8 DEF StepOK

(* A user sends a request.                                                    *)
LEMMA AwaitsStep ==
  ASSUME Powers, Width # 0, RegfileInv, NEW u \in Users,
         flight[u] = None \/ flight[u].at \notin Items,
         NEW r \in Register, NEW w, NEW d, Valid(r + Offset, w, d), NEW step,
         Awaits(u, r, w, d, step)
  PROVE  /\ BusInv' /\ mem' = mem /\ Asks(u, r + Offset, w, d)'
         /\ \A s \in Tasks \ {u} : Keeps(s)
         /\ user'[u] = step /\ user' = [x \in Users |-> user'[x]]
         /\ \A x \in Users \ {u} : user'[x] = user[x]
<1>1. Sent(u, "regfile", r, w, d) /\ UNCHANGED <<target, queue, replies, mem>>
  BY DEF Awaits
<1> PICK a : a = r + Offset
  OBVIOUS
<1>2. Sent(u, "regfile", a - Offset, w, d)
  BY <1>1, RegisterFacts
<1>3. BusInv /\ u \in Tasks /\ Valid(a, w, d)
  BY RegisterFacts DEF RegfileInv
<1>4. BusInv' /\ Asks(u, a, w, d)' /\ \A s \in Tasks \ {u} : Keeps(s)
  BY <1>1, <1>2, <1>3, SentStep
<1>5. /\ user'[u] = step /\ user' = [x \in Users |-> user'[x]]
      /\ \A x \in Users \ {u} : user'[x] = user[x]
  BY DEF Awaits, RegfileInv, RegTypeOK
<1> QED BY <1>1, <1>4, <1>5

(* A user writes a register while nothing is held.                            *)
LEMMA PushesStep ==
  ASSUME Powers, Width # 0, RegfileInv, NEW u \in Users, Quiet(u), holder = None,
         NEW r \in Register, Owner[r] = u, Writable(r),
         NEW value \in Word, NEW goal, r \notin Volatile => goal = value,
         NEW c, NEW v, Caches(u, c, v),
         NEW cached, cached = IF r \in Stable THEN [c EXCEPT ![r] = value] ELSE c,
         Pushes(u, r, value, cached, v),
         written' = [written EXCEPT ![r] = goal],
         UNCHANGED <<dirty, locked, lockedRead, holder>>
  PROVE  StepOK(u)
<1>0. HoldInv /\ Shapes
  BY DEF RegfileInv, RegTypeOK, Shapes
<1>1. /\ BusInv' /\ mem' = mem /\ Asks(u, r + Offset, TRUE, value)'
      /\ \A s \in Tasks \ {u} : Keeps(s)
      /\ user'[u] = [pc |-> "push"] /\ user' = [x \in Users |-> user'[x]]
      /\ \A x \in Users \ {u} : user'[x] = user[x]
  <2>1. Awaits(u, r, TRUE, value, [pc |-> "push"])
    BY DEF Pushes
  <2>2. Valid(r + Offset, TRUE, value)
    BY RegisterFacts DEF Valid
  <2>3. flight[u] = None \/ flight[u].at \notin Items
    BY DEF Quiet
  <2>4. ASSUME NEW w, NEW step, w = TRUE, step = [pc |-> "push"]
        PROVE  /\ BusInv' /\ mem' = mem /\ Asks(u, r + Offset, w, value)'
               /\ \A s \in Tasks \ {u} : Keeps(s)
               /\ user'[u] = step /\ user' = [x \in Users |-> user'[x]]
               /\ \A x \in Users \ {u} : user'[x] = user[x]
    <3>1. Awaits(u, r, w, value, step)
      BY <2>1, <2>4
    <3>2. Valid(r + Offset, w, value)
      BY <2>2, <2>4
    <3> HIDE <2>4
    <3> QED BY <2>3, <3>1, <3>2, AwaitsStep
  <2> QED BY <2>4
<1>2. cache' = cached /\ volatile' = v
  BY DEF Pushes
<1>3. /\ written' = [x \in Register |-> written'[x]] /\ written'[r] = goal
      /\ \A x \in Register \ {r} : written'[x] = written[x]
  BY <1>0 DEF Shapes
<1>4. /\ cached = [x \in Register |-> cached[x]]
      /\ \A x \in Register \ {r} : cached[x] = c[x]
      /\ cached[r] = IF r \in Stable THEN value ELSE c[r]
  BY DEF Caches
<1>5. Shapes'
  BY <1>1, <1>2, <1>3, <1>4 DEF Shapes, Caches
<1>6. UserOK(u)'
  <2>1. r \notin Volatile => value = written'[r]
    BY <1>3
  <2>2. Writes(u)'
    BY <1>1, <2>1 DEF Writes, Writable
  <2> QED BY <1>1, <2>2 DEF UserOK
<1>7. HoldInv'
  <2>1. \A x \in Register : v[x] = None
    BY DEF Caches
  <2> QED BY <1>0, <1>2, <2>1 DEF HoldInv
<1>8. ASSUME NEW x \in Register, Owner[x] = u PROVE RegOK(x)'
  <2>1. /\ v[x] = None /\ c[x] \in Word \cup {None}
        /\ x \notin Stable => c[x] = None
        /\ x \notin Volatile /\ c[x] # None => c[x] = written[x]
    BY DEF Caches
  <2>2. dirty = {}
    BY <1>0 DEF HoldInv
  <2>3. x \notin Volatile => mem[x + Offset] = written[x] /\ written[x] \in Word \cup {X}
    BY <1>8, <2>2, QuietHasArrived
  <2>4. CASE x = r
    <3>1. cache'[x] \in Word \cup {None} /\ volatile'[x] = None /\ (x \notin Stable => cache'[x] = None)
      BY <1>2, <1>4, <2>1, <2>4
    <3>2. x \notin Volatile => written'[x] = value
      BY <1>3, <2>4
    <3>3. x \notin Volatile => (cache'[x] # None => cache'[x] = value)
      <4>1. Stable \cup Volatile \cup Opaque = Register
        BY RegfileAssumption DEF Stable
      <4>2. x \in Stable => cache'[x] = value
        BY <1>2, <1>4, <2>4
      <4> QED BY <3>1, <4>2
    <3>4. Asks(Owner[x], x + Offset, TRUE, value)'
      BY <1>1, <1>8, <2>4
    <3> QED BY <3>1, <3>2, <3>3, <3>4 DEF RegOK
  <2>5. CASE x # r
    <3>1. cache'[x] = c[x] /\ volatile'[x] = None /\ written'[x] = written[x] /\ mem' = mem
      BY <1>1, <1>2, <1>3, <1>4, <2>1, <2>5
    <3> QED BY <2>1, <2>3, <3>1 DEF RegOK
  <2> QED BY <2>4, <2>5
<1>9. \A x \in Register : Owner[x] # u =>
         /\ cache'[x] = cache[x] /\ written'[x] = written[x]
         /\ volatile'[x] \in {volatile[x], None}
  <2> TAKE x \in Register
  <2> HAVE Owner[x] # u
  <2>1. x # r /\ c[x] = cache[x] /\ v[x] = volatile[x]
    BY DEF Caches
  <2> QED BY <1>2, <1>3, <1>4, <2>1
<1> QED BY <1>1, <1>5, <1>6, <1>7, <1>8, <1>9 DEF StepOK

(* A user writes a register while it holds the file.                          *)
LEMMA HoldsBackStep ==
  ASSUME RegfileInv, NEW u \in Users, Quiet(u), locked,
         NEW r \in Register, Owner[r] = u, Writable(r),
         NEW value \in Word, NEW goal, r \notin Volatile => goal = value,
         NEW c, NEW v, Caches(u, c, v),
         NEW cached, cached = IF r \in Stable THEN [c EXCEPT ![r] = value] ELSE c,
         Rests(u, cached, [v EXCEPT ![r] = value]),
         written' = [written EXCEPT ![r] = goal],
         dirty' = dirty \cup {r}, UNCHANGED <<locked, lockedRead, holder>>
  PROVE  StepOK(u)
<1>0. BusInv /\ HoldInv /\ Shapes /\ u \in Tasks
  BY RegisterFacts DEF RegfileInv, RegTypeOK, Shapes
<1>1. BusInv' /\ flight'[u] = None /\ mem' = mem /\ \A s \in Tasks \ {u} : Keeps(s)
  <2>1. flight' = [flight EXCEPT ![u] = None] /\ UNCHANGED <<target, line, queue, replies, mem>>
    BY DEF Rests
  <2>2. flight[u] = None \/ flight[u].at \notin Items
    BY DEF Quiet
  <2> QED BY <1>0, <2>1, <2>2, Cleared
<1>2. user'[u] = Idle /\ (\A w \in Users \ {u} : user'[w] = user[w]) /\ user' = [w \in Users |-> user'[w]]
  BY <1>0 DEF Rests, Shapes
<1>3. /\ cache' = cached /\ volatile' = [x \in Register |-> volatile'[x]] /\ volatile'[r] = value
      /\ \A x \in Register \ {r} : volatile'[x] = v[x]
  BY DEF Rests, Caches
<1>4. /\ cached = [x \in Register |-> cached[x]]
      /\ \A x \in Register \ {r} : cached[x] = c[x]
      /\ cached[r] = IF r \in Stable THEN value ELSE c[r]
  BY DEF Caches
<1>5. /\ written' = [x \in Register |-> written'[x]] /\ written'[r] = goal
      /\ \A x \in Register \ {r} : written'[x] = written[x]
  BY <1>0 DEF Shapes
<1>6. Shapes'
  BY <1>2, <1>3, <1>4, <1>5 DEF Shapes
<1>7. UserOK(u)'
  BY <1>1, <1>2 DEF UserOK
<1>8. holder = u
  BY <1>0 DEF Quiet, HoldInv
<1>9. value # None
  BY BusAssumption DEF Word
<1>10. HoldInv'
  <2>1. \A x \in dirty : x \in Register /\ Owner[x] = u /\ Writable(x) /\ v[x] # None
    BY <1>0, <1>8 DEF HoldInv, Caches
  <2>2. \A x \in dirty' : x \in Register /\ Owner[x] = holder' /\ Writable(x) /\ volatile'[x] # None
    <3> TAKE x \in dirty'
    <3>1. CASE x = r
      BY <1>3, <1>8, <1>9, <3>1
    <3>2. CASE x # r
      BY <1>3, <1>8, <2>1, <3>2
    <3> QED BY <3>1, <3>2
  <2>3. \A w \in Users \ {u} : user[w] = Idle
    BY <1>0, <1>8 DEF HoldInv
  <2>4. user'[u].pc = "idle"
    BY <1>2 DEF Idle
  <2>5. u # None
    BY RegisterFacts
  <2>6. \A x \in dirty' : Writable(x)'
    BY <2>2 DEF Writable
  <2> QED BY <1>0, <1>2, <1>8, <2>2, <2>3, <2>4, <2>5, <2>6 DEF HoldInv
<1>11. ASSUME NEW x \in Register, Owner[x] = u PROVE RegOK(x)'
  <2>1. /\ v[x] \in Word \cup {None} /\ c[x] \in Word \cup {None}
        /\ x \notin Stable => c[x] = None
        /\ x \notin Volatile => /\ c[x] # None => c[x] = written[x]
                                /\ v[x] # None => v[x] = written[x]
    BY DEF Caches
  <2>2. x \notin Volatile =>
           /\ mem[x + Offset] = written[x] \/ (x \in dirty /\ locked)
           /\ written[x] \in Word \cup {X}
    BY <1>11, QuietHasArrived
  <2>3. x \in dirty' => Kept(x)'
    BY DEF Kept
  <2>4. CASE x = r
    <3>1. /\ cache'[x] \in Word \cup {None} /\ volatile'[x] = value
          /\ x \notin Stable => cache'[x] = None
          /\ x \in Stable => cache'[x] = value
      BY <1>3, <1>4, <2>1, <2>4
    <3>2. x \notin Volatile => written'[x] = value
      BY <1>5, <2>4
    <3> QED BY <2>3, <2>4, <3>1, <3>2 DEF RegOK
  <2>5. CASE x # r
    <3>1. cache'[x] = c[x] /\ volatile'[x] = v[x] /\ written'[x] = written[x] /\ mem' = mem
      BY <1>1, <1>3, <1>4, <1>5, <2>5
    <3> QED BY <2>1, <2>2, <2>3, <3>1 DEF RegOK
  <2> QED BY <2>4, <2>5
<1>12. \A x \in Register : Owner[x] # u =>
         /\ cache'[x] = cache[x] /\ written'[x] = written[x]
         /\ volatile'[x] \in {volatile[x], None}
  <2> TAKE x \in Register
  <2> HAVE Owner[x] # u
  <2>1. x # r /\ c[x] = cache[x] /\ v[x] = volatile[x]
    BY DEF Caches
  <2> QED BY <1>3, <1>4, <1>5, <2>1
<1> QED BY <1>1, <1>2, <1>6, <1>7, <1>10, <1>11, <1>12 DEF StepOK

LEMMA WriteStep ==
  ASSUME Powers, WordsFit, RegfileInv, NEW u \in Users, Quiet(u),
         NEW r \in Register, Owner[r] = u, Writable(r),
         NEW value \in Word, NEW goal, r \notin Volatile => goal = value,
         NEW c, NEW v, Caches(u, c, v),
         Write(u, r, value, goal, c, v), UNCHANGED <<locked, lockedRead, holder>>
  PROVE  StepOK(u) /\ ret' = None
<1> PICK cached : cached = IF r \in Stable THEN [c EXCEPT ![r] = value] ELSE c
  OBVIOUS
<1>1. written' = [written EXCEPT ![r] = goal] /\ ret' = None
  BY DEF Write, Nothing
<1>2. CASE Known(r, FALSE, c, v) = value
  <2>1. Rests(u, c, v) /\ UNCHANGED dirty
    BY <1>2 DEF Write
  <2>2. Shapes
    BY DEF RegfileInv, RegTypeOK, Shapes
  <2>3. /\ written' = [x \in Register |-> written'[x]] /\ written'[r] = goal
        /\ \A x \in Register \ {r} : written'[x] = written[x]
    BY <1>1, <2>2 DEF Shapes
  <2>4. r \notin Volatile => written[r] = value
    <3>1. value # None
      BY BusAssumption DEF Word
    <3> QED BY <1>2, <3>1 DEF Known, Caches
  <2>5. \A x \in Register : (x \notin Volatile \/ Owner[x] # u) => written'[x] = written[x]
    BY <2>3, <2>4
  <2>6. UNCHANGED <<dirty, locked, lockedRead, holder>>
    BY <2>1
  <2> QED BY <1>1, <2>1, <2>3, <2>5, <2>6, RestsStep
<1>3. CASE Known(r, FALSE, c, v) # value /\ locked
  <2>1. dirty' = dirty \cup {r} /\ Rests(u, cached, [v EXCEPT ![r] = value])
    BY <1>3 DEF Write
  <2> QED BY <1>1, <1>3, <2>1, HoldsBackStep
<1>4. CASE Known(r, FALSE, c, v) # value /\ ~locked
  <2>1. Pushes(u, r, value, cached, v) /\ UNCHANGED <<dirty, locked, lockedRead, holder>>
    BY <1>4 DEF Write
  <2>2. holder = None
    BY <1>4 DEF Quiet
  <2>3. Width # 0
    BY DEF WordsFit
  <2> QED BY <1>1, <2>1, <2>2, <2>3, PushesStep
<1>5. locked \in BOOLEAN
  BY DEF RegfileInv, HoldInv
<1> QED BY <1>2, <1>3, <1>4, <1>5

(* The bits of a field are within a word.                                     *)
LEMMA UsesFit ==
  ASSUME Powers, WordsFit, NEW r \in Register, NEW use \in Uses(r)
  PROVE  /\ use.kind \in {"word", "field", "replace"}
         /\ use.kind # "word" => Fields[r] # {}
         /\ use.kind = "replace" => \A x \in Word : replaced(x, use.itvl, use.val) \in Word
<1>1. CASE use \in {[kind |-> "word"]}
  BY <1>1
<1>2. CASE use \in [kind : {"field"}, itvl : Fields[r]]
  BY <1>2
<1>3. ASSUME NEW i \in Fields[r], use \in [kind : {"replace"}, itvl : {i}, val : 0 .. 2 ^ Size(i) - 1]
      PROVE  /\ use.kind = "replace" /\ Fields[r] # {}
             /\ \A x \in Word : replaced(x, use.itvl, use.val) \in Word
  <2>1. use.kind = "replace" /\ use.itvl = i /\ use.val \in 0 .. 2 ^ Size(i) - 1
    BY <1>3
  <2>2. PICK hi \in 0 .. Width - 1 : \E low \in 0 .. hi : i = [low |-> low, hi |-> hi]
    BY DEF WordsFit
  <2>3. PICK low \in 0 .. hi : i = [low |-> low, hi |-> hi]
    BY <2>2
  <2>4. low \in Nat /\ hi \in Nat /\ low <= hi /\ hi < Width
    BY BusAssumption
  <2> PICK val : val = use.val
    OBVIOUS
  <2>5. val \in Nat
    BY <2>1
  <2>6. \A x \in Word : replaced(x, i, val) \in Word
    BY <2>3, <2>4, <2>5, ReplacedWord
  <2> QED BY <2>1, <2>6
<1> QED BY <1>1, <1>2, <1>3 DEF Uses

(* What is done with a word that was read.                                    *)
UsedWell(r, use, val) ==
    ret' # None =>
        /\ ret'.reg = r /\ ret'.use = use
        /\ ret'.val = IF use.kind = "word" THEN val ELSE bitsel(val, use.itvl)
        /\ use.kind # "word" => val # None
        /\ UNCHANGED written /\ user'[Owner[r]] = Idle

LEMMA UseStep ==
  ASSUME Powers, WordsFit, RegfileInv, NEW u \in Users, Quiet(u),
         NEW r \in Register, Owner[r] = u, NEW use \in Uses(r), NEW val \in Word \cup {None},
         use.kind # "word" /\ val # None /\ r \notin Volatile => val = written[r],
         NEW c, NEW v, Caches(u, c, v),
         Use(u, r, use, val, c, v), UNCHANGED <<locked, lockedRead, holder>>
  PROVE  StepOK(u) /\ UsedWell(r, use, val)
<1>0. Shapes
  BY DEF RegfileInv, RegTypeOK, Shapes
<1>1. ASSUME Rests(u, c, v), UNCHANGED <<dirty, written>> PROVE StepOK(u) /\ user'[u] = Idle
  <2>1. StepOK(u)
    <3>1. UNCHANGED <<dirty, locked, lockedRead, holder>>
      BY <1>1
    <3>2. written' = [x \in Register |-> written'[x]]
      BY <1>0, <1>1 DEF Shapes
    <3>3. \A x \in Register : (x \notin Volatile \/ Owner[x] # u) => written'[x] = written[x]
      BY <1>1
    <3> QED BY <1>1, <3>1, <3>2, <3>3, RestsStep
  <2>2. user'[u] = Idle
    BY <1>0, <1>1 DEF Rests, Shapes
  <2> QED BY <2>1, <2>2
<1>2. CASE use.kind = "word" /\ Rests(u, c, v) /\ Returns(r, use, val) /\ UNCHANGED <<dirty, written>>
  BY <1>1, <1>2 DEF Returns, UsedWell
<1>3. CASE Rests(u, c, v) /\ Nothing /\ UNCHANGED <<dirty, written>>
  BY <1>1, <1>3 DEF Nothing, UsedWell
<1>4. CASE use.kind = "field" /\ val # None /\ Rests(u, c, v)
           /\ Returns(r, use, bitsel(val, use.itvl)) /\ UNCHANGED <<dirty, written>>
  BY <1>1, <1>4 DEF Returns, UsedWell
<1>5. CASE use.kind = "replace" /\ val # None
           /\ Write(u, r, replaced(val, use.itvl, use.val), replaced(written[r], use.itvl, use.val), c, v)
  <2> PICK value : value = replaced(val, use.itvl, use.val)
    OBVIOUS
  <2> PICK goal : goal = replaced(written[r], use.itvl, use.val)
    OBVIOUS
  <2>1. value \in Word /\ Writable(r)
    BY <1>5, UsesFit DEF Writable
  <2>2. r \notin Volatile => goal = value
    BY <1>5
  <2>3. Write(u, r, value, goal, c, v)
    BY <1>5
  <2>4. StepOK(u) /\ ret' = None
    BY <2>1, <2>2, <2>3, WriteStep
  <2> QED BY <2>4 DEF UsedWell
<1> QED BY <1>2, <1>3, <1>4, <1>5 DEF Use

(* What a user's step returns is what the theorems say of it.                 *)
RetOK == ReadsLastWritten /\ FreshVolatile

LEMMA NoReturn ==
  ASSUME ret' = None PROVE RetOK'
BY DEF RetOK, ReadsLastWritten, FreshVolatile

LEMMA UserIs ==
  ASSUME RegfileInv, NEW u \in Users
  PROVE  /\ user[u].pc = "idle" => user[u] = Idle
         /\ user[u] = Idle => flight[u] = None /\ MayUse(u) = (holder \in {None, u})
         /\ user[u].pc = "fetch" => Fetches(u)
         /\ user[u].pc = "push" => user[u] = [pc |-> "push"] /\ Writes(u)
         /\ user[u].pc = "release" => Releases(u) /\ Writes(u)
<1>1. UserOK(u)
  BY DEF RegfileInv
<1>2. Idle.pc = "idle" /\ [pc |-> "push"].pc = "push"
  BY DEF Idle
<1>3. Fetches(u) => user[u].pc = "fetch"
  BY DEF Fetches
<1>4. Releases(u) => user[u].pc = "release"
  BY DEF Releases
<1> QED BY <1>1, <1>2, <1>3, <1>4 DEF UserOK, MayUse

LEMMA QuietIs ==
  ASSUME RegfileInv, NEW u \in Users,
         MayUse(u) \/ (user[u].pc \in {"fetch", "push"} /\ Answered(u))
  PROVE  Quiet(u)
<1>1. user[u].pc \in {"idle", "fetch", "push"}
  BY DEF MayUse, Idle
<1>2. flight[u] = None \/ flight[u].at \notin Items
  BY UserIs DEF MayUse, Answered, Items
<1>3. holder \in {None, u}
  <2>1. user[u].pc # "idle" => user[u] # Idle
    BY DEF Idle
  <2> QED BY <2>1 DEF MayUse, RegfileInv, HoldInv
<1>4. holder = u => locked
  BY <1>1, RegisterFacts DEF RegfileInv, HoldInv
<1> QED BY <1>2, <1>3, <1>4 DEF Quiet

LEMMA ReadStep ==
  ASSUME Powers, WordsFit, ResetsApart, RegfileInv, NEW u \in Users, NEW r \in Register,
         NEW use \in Uses(r), NEW invalid \in BOOLEAN, Read(u, r, use, invalid)
  PROVE  StepOK(u) /\ RetOK'
<1> PICK known : known = Known(r, r \notin Stable \/ invalid, cache, volatile)
  OBVIOUS
<1>1. MayUse(u) /\ Owner[r] = u /\ UNCHANGED <<locked, lockedRead, holder>>
  BY DEF Read
<1>2. Quiet(u)
  BY <1>1, QuietIs
<1>3. Caches(u, cache, volatile)
  BY KnownCaches
<1>4. HoldInv
  BY DEF RegfileInv
<1>5. /\ known \in Word \cup {None}
      /\ known # None /\ r \notin Volatile => known = written[r]
      /\ known # None /\ r \in Volatile => locked
      /\ known = None => volatile[r] = None
  BY <1>2, <1>3 DEF Caches, Known, Quiet, Stable
<1>6. ASSUME NEW val \in Word \cup {None}, Use(u, r, use, val, cache, volatile),
             r \in Volatile => locked,
             r \notin Volatile /\ val # None => val = written[r] \/ (r \in Opaque /\ Fields[r] = {})
      PROVE  StepOK(u) /\ RetOK'
  <2>1. use.kind # "word" /\ val # None /\ r \notin Volatile => val = written[r]
    BY <1>6, UsesFit
  <2> PICK c, v : c = cache /\ v = volatile
    OBVIOUS
  <2>2. Caches(u, c, v) /\ Use(u, r, use, val, c, v)
    BY <1>3, <1>6
  <2>3. StepOK(u) /\ UsedWell(r, use, val)
    BY <1>1, <1>2, <2>1, <2>2, UseStep
  <2>4. ret' # None =>
          /\ ret'.reg = r /\ ret'.use = use
          /\ ret'.val = (IF use.kind = "word" THEN val ELSE bitsel(val, use.itvl))
          /\ use.kind # "word" => val # None
          /\ written' = written
    BY <2>3 DEF UsedWell
  <2>5. ReadsLastWritten'
    <3> SUFFICES ASSUME ret' # None, ret'.reg \in Stable, ret'.val # None
                 PROVE  ret'.val = IF ret'.use.kind = "word" THEN written'[ret'.reg]
                                   ELSE bitsel(written'[ret'.reg], ret'.use.itvl)
      BY DEF ReadsLastWritten, Stable
    <3>1. val # None
      BY <2>4
    <3>2. val = written[r]
      BY <1>6, <2>4, <3>1 DEF Stable
    <3> QED BY <2>4, <3>2
  <2>6. FreshVolatile'
    BY <1>1, <1>6, <2>4 DEF FreshVolatile
  <2> QED BY <2>3, <2>5, <2>6 DEF RetOK
<1>7. CASE known # None
  <2>1. Use(u, r, use, known, cache, volatile)
    BY <1>7 DEF Read
  <2> QED BY <1>5, <1>6, <1>7, <2>1
<1>8. CASE known = None /\ (lockedRead \/ r \in Opaque)
  <2>1. Use(u, r, use, ResetVal[r], cache, volatile)
    BY <1>8 DEF Read
  <2>2. ResetVal[r] \in Word \cup {None}
    BY DEF WordsFit
  <2>3. r \in Volatile => locked
    BY <1>4, <1>8, RegfileAssumption DEF HoldInv
  <2>4. r \notin Volatile /\ ResetVal[r] # None => r \in Opaque /\ Fields[r] = {}
    BY DEF ResetsApart
  <2> QED BY <1>6, <2>1, <2>2, <2>3, <2>4
<1>9. CASE known = None /\ ~(lockedRead \/ r \in Opaque)
  <2> PICK keep : keep = (r \in Stable /\ ~invalid)
    OBVIOUS
  <2> PICK step : step = [pc |-> "fetch", reg |-> r, use |-> use, keep |-> keep]
    OBVIOUS
  <2>1. Awaits(u, r, FALSE, None, step) /\ ret' = None /\ UNCHANGED <<cache, volatile, dirty, written>>
    BY <1>9 DEF Read, Nothing
  <2>2. Valid(r + Offset, FALSE, None)
    BY RegisterFacts DEF Valid
  <2>3. Width # 0 /\ (flight[u] = None \/ flight[u].at \notin Items)
    BY <1>2 DEF WordsFit, Quiet
  <2>4. /\ BusInv' /\ mem' = mem /\ Asks(u, r + Offset, FALSE, None)'
        /\ \A s \in Tasks \ {u} : Keeps(s)
        /\ user'[u] = step /\ user' = [x \in Users |-> user'[x]]
        /\ \A x \in Users \ {u} : user'[x] = user[x]
    <3>1. ASSUME NEW w, w = FALSE
          PROVE  /\ BusInv' /\ mem' = mem /\ Asks(u, r + Offset, w, None)'
                 /\ \A s \in Tasks \ {u} : Keeps(s)
                 /\ user'[u] = step /\ user' = [x \in Users |-> user'[x]]
                 /\ \A x \in Users \ {u} : user'[x] = user[x]
      <4>1. Awaits(u, r, w, None, step)
        BY <2>1, <3>1
      <4>2. Valid(r + Offset, w, None)
        BY <2>2, <3>1
      <4> HIDE <3>1
      <4> QED BY <2>3, <4>1, <4>2, AwaitsStep
    <3> QED BY <3>1
  <2>5. Shapes'
    BY <2>1, <2>4 DEF Shapes, RegfileInv, RegTypeOK
  <2>6. Fetches(u)'
    <3>1. r \in Register \ Opaque /\ keep \in BOOLEAN /\ (keep => r \notin Volatile)
      BY <1>9 DEF Stable
    <3>2. r \notin Volatile => volatile'[r] = None
      BY <1>5, <1>9, <2>1
    <3>3. user'[u] = [pc |-> "fetch", reg |-> r, use |-> use, keep |-> keep]
      BY <2>4
    <3>4. Asks(u, r + Offset, FALSE, None)'
      BY <2>4
    <3> QED BY <1>1, <3>1, <3>2, <3>3, <3>4 DEF Fetches
  <2>7. HoldInv'
    <3>1. user'[u].pc = "fetch"
      BY <2>4
    <3> QED BY <1>1, <1>2, <1>4, <2>1, <2>4, <3>1 DEF HoldInv, Quiet
  <2>8. ASSUME NEW x \in Register, Owner[x] = u PROVE RegOK(x)'
    <3>1. RegOK(x)
      BY DEF RegfileInv
    <3>2. x \notin Volatile => mem[x + Offset] = written[x] \/ Kept(x)'
      BY <1>1, <1>2, <2>1, <2>8, QuietHasArrived DEF Kept
    <3> QED BY <2>1, <2>4, <3>1, <3>2 DEF RegOK
  <2>9. \A x \in Register : Owner[x] # u =>
           /\ cache'[x] = cache[x] /\ written'[x] = written[x]
           /\ volatile'[x] \in {volatile[x], None}
    BY <2>1
  <2>10. UserOK(u)'
    BY <2>6 DEF UserOK
  <2> QED BY <2>1, <2>4, <2>5, <2>7, <2>8, <2>9, <2>10, NoReturn DEF StepOK
<1> QED BY <1>7, <1>8, <1>9

LEMMA DoneOnly ==
  ASSUME BusInv, NEW t, Answered(t)
  PROVE  ~Waits(t) /\ \A v : ~OnWay(t, v)
<1>1. flight[t].at = "done"
  BY DEF Answered
<1>2. ASSUME NEW v, OnWay(t, v) PROVE FALSE
  <2>1. CASE flight[t] = [at |-> "back", result |-> v]
    BY <1>1, <2>1
  <2>2. ASSUME NEW k \in DOMAIN replies, queue[k] = t PROVE FALSE
    <3>1. flight[queue[k]].at = "device"
      BY QueueFacts
    <3> QED BY <1>1, <2>2, <3>1
  <2> QED BY <1>2, <2>1, <2>2 DEF OnWay
<1> QED BY <1>1, <1>2 DEF Waits, Items

LEMMA FetchedStep ==
  ASSUME Powers, WordsFit, RegfileInv, NEW u \in Users, Fetched(u), Watched
  PROVE  StepOK(u) /\ RetOK'
<1>1. /\ user[u].pc = "fetch" /\ Answered(u) /\ UNCHANGED <<locked, lockedRead, holder>>
      /\ Quiet(u) /\ BusInv /\ HoldInv
  <2>1. user[u].pc = "fetch" /\ Answered(u) /\ UNCHANGED <<locked, lockedRead, holder>>
    BY DEF Fetched
  <2> QED BY <2>1, QuietIs DEF RegfileInv
<1>2. PICK r \in Register \ Opaque : \E use \in Uses(r), keep \in BOOLEAN :
        /\ Owner[r] = u /\ (keep => r \notin Volatile)
        /\ r \notin Volatile => volatile[r] = None
        /\ user[u] = [pc |-> "fetch", reg |-> r, use |-> use, keep |-> keep]
        /\ \E val \in Word \cup {None} : Got(u, val) /\ (val = None \/ Fresh(u, r, val))
  <2>1. Fetches(u)
    BY <1>1, UserIs
  <2>2. ~Waits(u) /\ \A v : ~OnWay(u, v)
    BY <1>1, DoneOnly
  <2> QED BY <2>1, <2>2 DEF Fetches, Asks
<1>3. PICK use \in Uses(r), keep \in BOOLEAN, val \in Word \cup {None} :
        /\ Owner[r] = u /\ (keep => r \notin Volatile)
        /\ r \notin Volatile => volatile[r] = None
        /\ user[u] = [pc |-> "fetch", reg |-> r, use |-> use, keep |-> keep]
        /\ Got(u, val) /\ (val = None \/ Fresh(u, r, val))
  BY <1>2
<1>4. /\ user[u].reg = r /\ user[u].use = use /\ user[u].keep = keep
      /\ flight[u].result = val
  BY <1>3 DEF Got
<1> PICK c : c = IF keep THEN [cache EXCEPT ![r] = val] ELSE cache
  OBVIOUS
<1> PICK v : v = IF locked THEN [volatile EXCEPT ![r] = val] ELSE volatile
  OBVIOUS
<1>5. IF val = None THEN Rests(u, cache, volatile) /\ UNCHANGED <<dirty, written>> /\ Nothing
      ELSE Use(u, r, use, val, c, v)
  BY <1>4 DEF Fetched
<1>6. Caches(u, cache, volatile)
  BY KnownCaches
<1>7. CASE val = None
  <2>1. Rests(u, cache, volatile) /\ UNCHANGED <<dirty, written>> /\ ret' = None
    BY <1>5, <1>7 DEF Nothing
  <2>2. UNCHANGED <<dirty, locked, lockedRead, holder>>
    BY <1>1, <2>1
  <2>3. written' = [x \in Register |-> written'[x]]
    BY <2>1 DEF RegfileInv, RegTypeOK
  <2>4. \A x \in Register : (x \notin Volatile \/ Owner[x] # u) => written'[x] = written[x]
    BY <2>1
  <2> PICK c0, v0 : c0 = cache /\ v0 = volatile
    OBVIOUS
  <2>5. Rests(u, c0, v0) /\ Caches(u, c0, v0)
    BY <1>6, <2>1
  <2> QED BY <1>1, <2>1, <2>2, <2>3, <2>4, <2>5, RestsStep, NoReturn
<1>8. CASE val # None
  <2>1. val \in Word /\ Fresh(u, r, val) /\ Use(u, r, use, val, c, v)
    BY <1>3, <1>5, <1>8
  <2>2. r \notin Volatile => val = written[r]
    <3>1. r \in dirty => volatile[r] # None
      BY <1>1 DEF HoldInv
    <3> QED BY <1>1, <1>3, <2>1, <3>1, QuietHasArrived DEF Fresh
  <2>3. Caches(u, c, v)
    <3>1. /\ c = [x \in Register |-> c[x]] /\ v = [x \in Register |-> v[x]]
          /\ \A x \in Register \ {r} : c[x] = cache[x] /\ v[x] = volatile[x]
          /\ c[r] = IF keep THEN val ELSE cache[r]
          /\ v[r] = IF locked THEN val ELSE volatile[r]
      BY <1>6 DEF Caches
    <3>2. holder = None => ~locked
      BY <1>1 DEF HoldInv
    <3>3. keep => r \in Stable
      BY <1>3 DEF Stable
    <3>4. ASSUME NEW x \in Register
          PROVE  /\ c[x] \in Word \cup {None} /\ v[x] \in Word \cup {None}
                 /\ x \notin Stable => c[x] = None
                 /\ x \notin Volatile => /\ c[x] # None => c[x] = written[x]
                                         /\ v[x] # None => v[x] = written[x]
                 /\ Owner[x] # u => c[x] = cache[x] /\ v[x] = volatile[x]
                 /\ holder = None => v[x] = None
      <4>1. CASE x = r
        BY <1>3, <1>6, <2>1, <2>2, <3>1, <3>2, <3>3, <4>1 DEF Caches
      <4>2. CASE x # r
        BY <1>6, <3>1, <4>2 DEF Caches
      <4> QED BY <4>1, <4>2
    <3>5. \A x \in dirty : x \in Register /\ v[x] # None
      BY <1>1, <1>8, <3>1 DEF HoldInv
    <3> QED BY <3>1, <3>4, <3>5 DEF Caches
  <2>4. StepOK(u) /\ UsedWell(r, use, val)
    BY <1>1, <1>3, <2>1, <2>2, <2>3, UseStep
  <2>5. ret' # None =>
          /\ ret'.reg = r /\ ret'.use = use
          /\ ret'.val = (IF use.kind = "word" THEN val ELSE bitsel(val, use.itvl))
          /\ written' = written /\ user'[u] = Idle
    BY <1>3, <2>4 DEF UsedWell
  <2>6. ReadsLastWritten'
    BY <2>2, <2>5 DEF ReadsLastWritten, Stable
  <2>7. FreshVolatile'
    <3>1. ret' # None => window'[u] = window[u]
      <4>1. Idle.pc # "fetch"
        BY DEF Idle
      <4> QED BY <1>3, <2>5, <4>1 DEF Watched
    <3>2. val \in window[u]
      BY <2>1 DEF Fresh
    <3> QED BY <1>3, <2>5, <3>1, <3>2 DEF FreshVolatile
  <2> QED BY <2>4, <2>6, <2>7 DEF RetOK
<1> QED BY <1>7, <1>8

LEMMA WriteWordStep ==
  ASSUME Powers, WordsFit, RegfileInv, NEW u \in Users, NEW r \in Register,
         NEW value \in Words[r], WriteWord(u, r, value)
  PROVE  StepOK(u) /\ RetOK'
<1> PICK c, v : c = cache /\ v = volatile
  OBVIOUS
<1>1. MayUse(u) /\ Owner[r] = u /\ Write(u, r, value, value, c, v) /\ UNCHANGED <<locked, lockedRead, holder>>
  BY DEF WriteWord
<1>2. Quiet(u) /\ Caches(u, c, v)
  BY <1>1, QuietIs, KnownCaches
<1>3. value \in Word /\ Writable(r)
  BY DEF WordsFit, Writable
<1> QED BY <1>1, <1>2, <1>3, WriteStep, NoReturn

LEMMA RestingStep ==
  ASSUME RegfileInv, NEW u \in Users, Quiet(u), NEW c, NEW v, Caches(u, c, v), Rests(u, c, v),
         UNCHANGED <<dirty, locked, lockedRead, holder, written>>
  PROVE  StepOK(u)
<1>1. UNCHANGED <<dirty, locked, lockedRead, holder>>
  OBVIOUS
<1>2. written' = [x \in Register |-> written'[x]]
  BY DEF RegfileInv, RegTypeOK
<1>3. \A x \in Register : (x \notin Volatile \/ Owner[x] # u) => written'[x] = written[x]
  OBVIOUS
<1> QED BY <1>1, <1>2, <1>3, RestsStep

LEMMA PushedStep ==
  ASSUME RegfileInv, NEW u \in Users, Pushed(u)
  PROVE  StepOK(u) /\ RetOK'
<1> PICK c, v : c = cache /\ v = volatile
  OBVIOUS
<1>1. /\ user[u].pc = "push" /\ Answered(u) /\ Rests(u, c, v) /\ ret' = None
      /\ UNCHANGED <<dirty, locked, lockedRead, holder, written>>
  BY DEF Pushed, Nothing
<1>2. Quiet(u) /\ Caches(u, c, v)
  BY <1>1, QuietIs, KnownCaches
<1> QED BY <1>1, <1>2, RestingStep, NoReturn

LEMMA InvalidateStep ==
  ASSUME RegfileInv, NEW u \in Users, NEW r \in Register, Invalidate(u, r)
  PROVE  StepOK(u) /\ RetOK'
<1> PICK c, v : c = [cache EXCEPT ![r] = None] /\ v = volatile
  OBVIOUS
<1>1. /\ MayUse(u) /\ Owner[r] = u /\ ret' = None /\ cache' = c /\ volatile' = v
      /\ UNCHANGED <<target, flight, line, queue, replies, mem>>
      /\ UNCHANGED <<dirty, locked, lockedRead, holder, written>> /\ user' = user
  BY DEF Invalidate, Nothing, busVars
<1>2. Quiet(u) /\ Caches(u, cache, volatile)
  BY <1>1, QuietIs, KnownCaches
<1>3. Caches(u, c, v)
  BY <1>1, <1>2 DEF Caches
<1>4. Rests(u, c, v)
  <2>1. user[u] = Idle /\ flight[u] = None
    BY <1>1, UserIs DEF MayUse
  <2>2. flight = [flight EXCEPT ![u] = None]
    BY <2>1, RegisterFacts DEF RegfileInv, BusInv, BusTypeOK
  <2>3. user = [user EXCEPT ![u] = Idle]
    BY <2>1 DEF RegfileInv, RegTypeOK
  <2> QED BY <1>1, <2>2, <2>3 DEF Rests
<1> QED BY <1>1, <1>2, <1>3, <1>4, RestingStep, NoReturn

LEMMA HoldStep ==
  ASSUME RegfileInv, NEW u \in Users, NEW lockRead \in BOOLEAN, Hold(u, lockRead)
  PROVE  StepOK(u) /\ RetOK'
<1>1. /\ \A w \in Users : user[w] = Idle
      /\ holder = None /\ ~locked /\ locked' = TRUE /\ lockedRead' = lockRead /\ holder' = u
      /\ ret' = None /\ UNCHANGED <<target, flight, line, queue, replies, mem>>
      /\ UNCHANGED <<cache, volatile, dirty, user, written>>
  BY DEF Hold, Nothing, busVars
<1>2. BusInv /\ HoldInv /\ Shapes /\ u \in Tasks
  BY RegisterFacts DEF RegfileInv, RegTypeOK, Shapes
<1>3. flight[u] = None
  BY <1>1, UserIs
<1>4. BusInv' /\ flight'[u] = None /\ \A s \in Tasks \ {u} : Keeps(s)
  <2>1. flight' = [flight EXCEPT ![u] = None]
    BY <1>1, <1>2, <1>3 DEF BusInv, BusTypeOK
  <2>2. UNCHANGED <<target, line, queue, replies, mem>>
    BY <1>1
  <2> QED BY <1>2, <1>3, <2>1, <2>2, Cleared
<1>5. Shapes' /\ UserOK(u)'
  BY <1>1, <1>2, <1>4 DEF Shapes, UserOK
<1>6. HoldInv'
  <2>1. Idle.pc = "idle" /\ u # None
    BY RegisterFacts DEF Idle
  <2>2. dirty' = {}
    BY <1>1, <1>2 DEF HoldInv
  <2> QED BY <1>1, <2>1, <2>2 DEF HoldInv
<1>7. ASSUME NEW x \in Register, Owner[x] = u PROVE RegOK(x)'
  <2>1. RegOK(x)
    BY DEF RegfileInv
  <2>2. ~Kept(x)
    BY <1>1, <1>2 DEF HoldInv, Kept
  <2>3. ~Waits(u)
    BY <1>3 DEF Waits
  <2> QED BY <1>1, <1>7, <2>1, <2>2, <2>3 DEF RegOK, Asks
<1> QED BY <1>1, <1>4, <1>5, <1>6, <1>7, NoReturn DEF StepOK

LEMMA ReleasingStep ==
  ASSUME Powers, Width # 0, RegfileInv, NEW u \in Users, holder = u,
         flight[u] = None \/ flight[u].at \notin Items,
         NEW todo, todo \subseteq dirty, \A x \in Register : Kept(x) => x \in todo,
         ~locked', ~lockedRead', locked' \in BOOLEAN,
         Releasing(u, todo), UNCHANGED written
  PROVE  StepOK(u)
<1>0. BusInv /\ HoldInv /\ Shapes /\ u \in Tasks /\ holder # None
  BY RegisterFacts DEF RegfileInv, RegTypeOK, Shapes
<1>1. \A w \in Users \ {u} : user[w] = Idle
  BY <1>0 DEF HoldInv
<1>2. \A x \in dirty : x \in Register /\ Owner[x] = u /\ Writable(x) /\ volatile[x] # None
  BY <1>0 DEF HoldInv
<1>3. \A x \in Register : RegOK(x)
  BY DEF RegfileInv
<1>4. \A x \in Register : x \notin Volatile => mem[x + Offset] = written[x] \/ x \in todo \/ Owner[x] # u
  <2>1. ~Waits(u)
    BY DEF Waits
  <2> QED BY <1>3, <2>1 DEF RegOK, Asks
<1>5. CASE todo = {}
  <2>1. Rests(u, cache, [r \in Register |-> None]) /\ dirty' = {} /\ holder' = None
    BY <1>5 DEF Releasing
  <2>2. /\ flight' = [flight EXCEPT ![u] = None] /\ UNCHANGED <<target, line, queue, replies, mem>>
        /\ user' = [user EXCEPT ![u] = Idle] /\ cache' = cache /\ volatile' = [r \in Register |-> None]
    BY <2>1 DEF Rests
  <2>3. BusInv' /\ flight'[u] = None /\ \A s \in Tasks \ {u} : Keeps(s)
    BY <1>0, <2>2, Cleared
  <2>4. user'[u] = Idle /\ (\A w \in Users \ {u} : user'[w] = user[w]) /\ Shapes'
    BY <1>0, <2>2 DEF Shapes
  <2>5. UserOK(u)'
    BY <2>3, <2>4 DEF UserOK
  <2>6. HoldInv'
    BY <2>1, <2>2 DEF HoldInv
  <2>7. ASSUME NEW x \in Register, Owner[x] = u PROVE RegOK(x)'
    BY <1>3, <1>4, <1>5, <2>2, <2>7 DEF RegOK
  <2>8. \A x \in Register : Owner[x] # u =>
           /\ cache'[x] = cache[x] /\ written'[x] = written[x]
           /\ volatile'[x] \in {volatile[x], None}
    BY <2>2
  <2>9. mem' = mem
    BY <2>2
  <2> QED BY <2>3, <2>4, <2>5, <2>6, <2>7, <2>8, <2>9 DEF StepOK
<1>6. CASE todo # {}
  <2>1. PICK r \in todo :
          /\ Awaits(u, r, TRUE, volatile[r], [pc |-> "release", todo |-> todo \ {r}])
          /\ UNCHANGED <<cache, volatile, dirty, holder>>
    BY <1>6 DEF Releasing
  <2> PICK d : d = volatile[r]
    OBVIOUS
  <2> PICK step : step = [pc |-> "release", todo |-> todo \ {r}]
    OBVIOUS
  <2>2. /\ r \in Register /\ Owner[r] = u /\ Writable(r) /\ d \in Word
        /\ r \notin Volatile => d = written[r]
    BY <1>2, <1>3, <2>1 DEF RegOK
  <2>3. /\ BusInv' /\ mem' = mem /\ Asks(u, r + Offset, TRUE, d)'
        /\ \A s \in Tasks \ {u} : Keeps(s)
        /\ user'[u] = step /\ user' = [x \in Users |-> user'[x]]
        /\ \A x \in Users \ {u} : user'[x] = user[x]
    <3>1. ASSUME NEW w, w = TRUE
          PROVE  /\ BusInv' /\ mem' = mem /\ Asks(u, r + Offset, w, d)'
                 /\ \A s \in Tasks \ {u} : Keeps(s)
                 /\ user'[u] = step /\ user' = [x \in Users |-> user'[x]]
                 /\ \A x \in Users \ {u} : user'[x] = user[x]
      <4>1. Awaits(u, r, w, d, step)
        BY <2>1, <3>1
      <4>2. Valid(r + Offset, w, d)
        BY <2>2, <3>1, RegisterFacts DEF Valid
      <4>3. r \in Register
        BY <2>2
      <4> HIDE <3>1
      <4> QED BY <4>1, <4>2, <4>3, AwaitsStep
    <3> QED BY <3>1
  <2>4. Shapes'
    BY <1>0, <2>1, <2>3 DEF Shapes
  <2>5. UserOK(u)'
    <3>1. r \notin Volatile => d = written'[r]
      BY <2>2
    <3>2. Writes(u)'
      BY <2>2, <2>3, <3>1 DEF Writes, Writable
    <3>3. todo \ {r} \in SUBSET dirty' /\ holder' = u /\ ~locked'
      BY <2>1
    <3>4. Releases(u)'
      BY <2>3, <3>3 DEF Releases
    <3> QED BY <3>2, <3>4 DEF UserOK
  <2>6. HoldInv'
    <3>1. user'[u].pc = "release"
      BY <2>3
    <3> QED BY <1>0, <1>1, <1>2, <2>1, <2>3, <3>1 DEF HoldInv, Writable
  <2>7. ASSUME NEW x \in Register, Owner[x] = u PROVE RegOK(x)'
    <3>1. RegOK(x)
      BY <1>3
    <3>2. CASE x = r
      <4>1. r \notin Volatile => d = written'[r]
        BY <2>2
      <4>2. Asks(Owner[x], x + Offset, TRUE, d)'
        BY <2>2, <2>3, <3>2
      <4> QED BY <2>1, <2>2, <3>1, <3>2, <4>1, <4>2 DEF RegOK
    <3>3. CASE x \in todo \ {r}
      <4>1. user'[u].pc = "release" /\ user'[u].todo = todo \ {r} /\ holder' = u /\ x \in dirty'
        BY <2>1, <2>3, <3>3
      <4>2. Kept(x)'
        BY <3>3, <4>1 DEF Kept
      <4> QED BY <2>1, <3>1, <4>2 DEF RegOK
    <3>4. CASE x \notin todo
      BY <1>4, <2>1, <2>3, <2>7, <3>1, <3>4 DEF RegOK
    <3> QED BY <3>2, <3>3, <3>4
  <2>8. \A x \in Register : Owner[x] # u =>
           /\ cache'[x] = cache[x] /\ written'[x] = written[x]
           /\ volatile'[x] \in {volatile[x], None}
    BY <2>1
  <2> QED BY <2>3, <2>4, <2>5, <2>6, <2>7, <2>8 DEF StepOK
<1> QED BY <1>5, <1>6

LEMMA ReleaseStep ==
  ASSUME Powers, Width # 0, RegfileInv, NEW u \in Users, Release(u)
  PROVE  StepOK(u) /\ RetOK'
<1> PICK todo : todo = {r \in dirty : volatile[r] # None}
  OBVIOUS
<1>1. /\ user[u] = Idle /\ holder = u /\ locked
      /\ locked' = FALSE /\ lockedRead' = FALSE
      /\ Releasing(u, todo) /\ ret' = None /\ UNCHANGED written
  BY DEF Release, Nothing
<1>2. todo \subseteq dirty /\ \A x \in Register : Kept(x) => x \in todo
  BY DEF Kept, RegfileInv, HoldInv
<1>3. flight[u] = None
  BY <1>1, UserIs
<1>4. ~locked' /\ ~lockedRead' /\ locked' \in BOOLEAN
  BY <1>1
<1> QED BY <1>1, <1>2, <1>3, <1>4, ReleasingStep, NoReturn

LEMMA ReleasedOneStep ==
  ASSUME Powers, Width # 0, RegfileInv, NEW u \in Users, ReleasedOne(u)
  PROVE  StepOK(u) /\ RetOK'
<1> PICK todo : todo = user[u].todo
  OBVIOUS
<1>1. /\ user[u].pc = "release" /\ Answered(u) /\ Releasing(u, todo) /\ ret' = None
      /\ UNCHANGED <<locked, lockedRead, written>>
  BY DEF ReleasedOne, Nothing
<1>2. Releases(u)
  BY <1>1, UserIs
<1>3. holder = u /\ ~locked /\ todo \subseteq dirty
  BY <1>2 DEF Releases
<1>4. \A x \in Register : Kept(x) => x \in todo
  BY <1>3 DEF Kept
<1>5. flight[u].at \notin Items
  BY <1>1 DEF Answered, Items
<1>6. ~locked' /\ ~lockedRead' /\ locked' \in BOOLEAN
  <2>1. (lockedRead => locked) /\ locked \in BOOLEAN
    BY DEF RegfileInv, HoldInv
  <2>2. locked' = locked /\ lockedRead' = lockedRead
    BY <1>1
  <2> QED BY <1>3, <2>1, <2>2, Zenon
<1> QED BY <1>1, <1>3, <1>4, <1>5, <1>6, ReleasingStep, NoReturn

----------------------------------------------------------------------------
(* The bus and the tasks of MemoryAccess leave the users alone.               *)
Frame == UNCHANGED <<cache, volatile, dirty, locked, lockedRead, user, holder, written>>

LEMMA UserKept ==
  ASSUME NEW u \in Users, UserOK(u), Keeps(u), Frame, Watched,
         \A r \in Register \ Volatile : Owner[r] = u => mem'[r + Offset] = mem[r + Offset]
  PROVE  UserOK(u)'
<1>1. user'[u] = user[u] /\ holder' = holder /\ locked' = locked /\ dirty' = dirty
  BY DEF Frame
<1>2. CASE user[u] = Idle /\ flight[u] = None
  BY <1>1, <1>2 DEF Keeps, UserOK
<1>3. CASE Fetches(u)
  <2>1. \A r \in Register : Owner[r] = u =>
           /\ volatile'[r] \in {volatile[r], None}
           /\ r \notin Volatile => mem'[r + Offset] = mem[r + Offset]
    BY DEF Frame
  <2>2. Fetches(u)'
    BY <1>1, <1>3, <2>1, FetchKept
  <2> QED BY <2>2 DEF UserOK
<1>4. Writes(u) => Writes(u)'
  <2>1. \A r \in Register : Owner[r] = u => written'[r] = written[r]
    BY DEF Frame
  <2> QED BY <2>1, WritesKept
<1>5. Releases(u) => Releases(u)'
  BY <1>1 DEF Releases
<1> QED BY <1>1, <1>2, <1>3, <1>4, <1>5 DEF UserOK

LEMMA RegisterKept ==
  ASSUME NEW r \in Register, RegOK(r), Frame,
         r \notin Volatile => mem'[r + Offset] \in {mem[r + Offset], written[r]},
         \A d \in Word : d = written[r] /\ r \notin Volatile /\ Asks(Owner[r], r + Offset, TRUE, d) =>
             Asks(Owner[r], r + Offset, TRUE, d)' \/ mem'[r + Offset] = d
  PROVE  RegOK(r)'
<1>1. /\ cache' = cache /\ volatile' = volatile /\ written' = written
      /\ dirty' = dirty /\ locked' = locked /\ user' = user /\ holder' = holder
  BY DEF Frame
<1>2. Kept(r) => Kept(r)'
  BY <1>1 DEF Kept
<1> QED BY <1>1, <1>2 DEF RegOK

LEMMA OthersRegister ==
  ASSUME NEW r \in Register, RegOK(r), Frame, Keeps(Owner[r]),
         r \notin Volatile => mem'[r + Offset] \in {mem[r + Offset], written[r]}
  PROVE  RegOK(r)'
<1> PICK o : o = Owner[r]
  OBVIOUS
<1>1. Keeps(o) /\ r + Offset \in Int
  BY RegisterFacts
<1>2. \A d \in Word : Asks(o, r + Offset, TRUE, d) => Asks(o, r + Offset, TRUE, d)'
  BY <1>1 DEF Keeps
<1> QED BY <1>2, RegisterKept

LEMMA FrameKeeps ==
  ASSUME RegfileInv, BusInv', Frame, Watched,
         \A u \in Users : UserOK(u)', \A t \in Posts : PostOK(t)', \A r \in Register : RegOK(r)'
  PROVE  RegfileInv'
<1>1. RegTypeOK'
  <2>1. window' \in [Users -> SUBSET (Word \cup {X})]
    BY WindowOK DEF RegfileInv
  <2> QED BY <2>1 DEF RegfileInv, RegTypeOK, Frame
<1>2. HoldInv'
  BY DEF RegfileInv, HoldInv, Frame, Writable
<1> QED BY <1>1, <1>2 DEF RegfileInv

(* A request of a user is served, ...                                         *)
LEMMA ServedUser ==
  ASSUME Powers, RegfileInv, NEW u \in Users, Serves(u), Frame, Watched, BusInv'
  PROVE  /\ UserOK(u)'
         /\ \A r \in Register : r \notin Volatile =>
              \/ mem'[r + Offset] = mem[r + Offset]
              \/ Owner[r] = u /\ ~Fetches(u) /\ mem'[r + Offset] = written[r]
         /\ \A r \in Register, d \in Word : Asks(u, r + Offset, TRUE, d) => mem'[r + Offset] = d
<1>1. Waits(u) /\ BusInv /\ mem \in [Address -> Word \cup {X}] /\ u \notin Posts
  BY BusAssumption DEF Serves, RegfileInv, BusInv, BusTypeOK
<1>2. \A v : ~OnWay(u, v) /\ ~Got(u, v)
  BY <1>1, AnsweredNotWaiting
<1>3. \A a, w, d : Valid(a, w, d) /\ Is(u, a, w, d) =>
         /\ mem' = IF w THEN [mem EXCEPT ![a] = d] ELSE mem
         /\ OnWay(u, IF w THEN 0 ELSE mem[a])'
  BY <1>1 DEF Serves
<1>4. ASSUME NEW r \in Register, NEW d \in Word, Asks(u, r + Offset, TRUE, d)
      PROVE  /\ mem' = [mem EXCEPT ![r + Offset] = d] /\ mem'[r + Offset] = d
             /\ OnWay(u, 0)'
             /\ \A x \in Register \ {r} : mem'[x + Offset] = mem[x + Offset]
  <2>1. Valid(r + Offset, TRUE, d) /\ Is(u, r + Offset, TRUE, d)
    BY <1>4, RegisterFacts DEF Valid, Asks
  <2> PICK a : a = r + Offset
    OBVIOUS
  <2>2. a \in Address /\ \A x \in Register \ {r} : x + Offset # a
    BY RegisterFacts
  <2>3. mem' = [mem EXCEPT ![a] = d] /\ OnWay(u, 0)'
    BY <1>3, <2>1
  <2> QED BY <1>1, <2>2, <2>3
<1>5. UserOK(u) /\ flight[u] # None
  BY <1>1 DEF RegfileInv, Waits
<1>6. CASE Fetches(u)
  <2>1. PICK r \in Register \ Opaque : \E use \in Uses(r), keep \in BOOLEAN :
          /\ Owner[r] = u /\ (keep => r \notin Volatile)
          /\ r \notin Volatile => volatile[r] = None
          /\ user[u] = [pc |-> "fetch", reg |-> r, use |-> use, keep |-> keep]
          /\ Asks(u, r + Offset, FALSE, None)
    BY <1>2, <1>6 DEF Fetches
  <2>2. r + Offset \in Address /\ Valid(r + Offset, FALSE, None) /\ Is(u, r + Offset, FALSE, None)
    BY <2>1, RegisterFacts DEF Valid, Asks
  <2> PICK a : a = r + Offset
    OBVIOUS
  <2> PICK v : v = mem[a]
    OBVIOUS
  <2>3. mem' = mem /\ OnWay(u, v)'
    BY <1>3, <2>2
  <2>4. v \in Word \cup {X}
    BY <1>1, <2>2
  <2>5. user'[u].pc = "fetch" /\ user'[u].reg = r
    BY <2>1 DEF Frame
  <2>6. v \in window'[u]
    BY <2>3, <2>5 DEF Watched
  <2>7. Fresh(u, r, v)'
    BY <2>3, <2>6 DEF Fresh
  <2>8. Fetches(u)'
    BY <2>1, <2>3, <2>4, <2>7 DEF Fetches, Frame
  <2>9. UserOK(u)'
    BY <2>8 DEF UserOK
  <2> QED BY <1>4, <2>3, <2>9
<1>7. CASE Writes(u) /\ ~Fetches(u)
  <2>1. PICK r \in Register, d \in Word :
          /\ Owner[r] = u /\ Writable(r) /\ (r \notin Volatile => d = written[r])
          /\ Asks(u, r + Offset, TRUE, d)
    BY <1>2, <1>7 DEF Writes
  <2>2. /\ OnWay(u, 0)' /\ mem'[r + Offset] = d
        /\ \A x \in Register \ {r} : mem'[x + Offset] = mem[x + Offset]
    BY <1>4, <2>1
  <2>3. Writes(u)'
    BY <2>2, WordZero DEF Writes
  <2>4. Releases(u) => Releases(u)'
    BY DEF Releases, Frame
  <2>5. UserOK(u)'
    BY <1>5, <1>7, <2>3, <2>4 DEF UserOK, Frame
  <2>6. \A x \in Register : x \notin Volatile =>
           \/ mem'[x + Offset] = mem[x + Offset]
           \/ Owner[x] = u /\ ~Fetches(u) /\ mem'[x + Offset] = written[x]
    BY <1>7, <2>1, <2>2
  <2> QED BY <1>4, <2>5, <2>6
<1> QED BY <1>5, <1>6, <1>7 DEF UserOK

(* ... or one of a task of MemoryAccess, ...                                  *)
LEMMA ServedPost ==
  ASSUME Powers, PostsApart, RegfileInv, NEW t \in Posts, Serves(t), BusInv'
  PROVE  /\ PostOK(t)'
         /\ \A r \in Register : r \notin Volatile => mem'[r + Offset] = mem[r + Offset]
<1>1. Waits(t) /\ BusInv /\ mem \in [Address -> Word \cup {X}]
  BY DEF Serves, RegfileInv, BusInv, BusTypeOK
<1>2. \A v : ~OnWay(t, v) /\ ~Got(t, v)
  BY <1>1, AnsweredNotWaiting
<1>3. PICK a \in PostAddress, w \in BOOLEAN, d \in Word \cup {None} :
        (w => d \in Word) /\ Asks(t, a, w, d)
  <2>1. PostOK(t) /\ flight[t] # None
    BY <1>1 DEF RegfileInv, Waits
  <2> QED BY <1>2, <2>1 DEF PostOK
<1>4. Valid(a, w, d) /\ Is(t, a, w, d) /\ a \in Address
  BY <1>3, RegfileAssumption DEF Valid, Asks
<1> PICK v : v = IF w THEN 0 ELSE mem[a]
  OBVIOUS
<1>5. /\ mem' = IF w THEN [mem EXCEPT ![a] = d] ELSE mem
      /\ OnWay(t, v)' \/ (target = "memory" /\ Got(t, v)')
  BY <1>4 DEF Serves
<1>6. v \in Word \cup {X} /\ (target = "memory" => v \in Word)
  <2>1. target = "memory" => mem \in [Address -> Word]
    BY <1>1 DEF BusInv, BusTypeOK
  <2> QED BY <1>1, <1>4, <2>1, WordZero
<1>7. PostOK(t)'
  BY <1>5, <1>6 DEF PostOK
<1>8. ASSUME NEW r \in Register, r \notin Volatile PROVE mem'[r + Offset] = mem[r + Offset]
  <2>1. r + Offset # a
    BY <1>3, <1>8 DEF PostsApart
  <2> PICK b : b = r + Offset
    OBVIOUS
  <2>2. b \in Address
    BY RegisterFacts
  <2> QED BY <1>1, <1>5, <2>1, <2>2
<1> QED BY <1>7, <1>8

(* ... or an answer comes.                                                    *)
LEMMA AnsweredUser ==
  ASSUME RegfileInv, NEW u \in Users, Answers(u), Frame, Watched
  PROVE  UserOK(u)'
<1>1. /\ ~Waits(u) /\ mem' = mem /\ flight[u] # None
      /\ \A v : OnWay(u, v) => Got(u, IF v = X THEN None ELSE v)'
      /\ \A v : ~Got(u, v)
  BY DEF Answers
<1>2. UserOK(u)
  BY DEF RegfileInv
<1>3. \A v \in Word \cup {X} : (IF v = X THEN None ELSE v) \in Word \cup {None}
  OBVIOUS
<1>4. CASE Fetches(u)
  <2>1. PICK r \in Register \ Opaque : \E use \in Uses(r), keep \in BOOLEAN :
          /\ Owner[r] = u /\ (keep => r \notin Volatile)
          /\ r \notin Volatile => volatile[r] = None
          /\ user[u] = [pc |-> "fetch", reg |-> r, use |-> use, keep |-> keep]
          /\ \E v \in Word \cup {X} : OnWay(u, v) /\ Fresh(u, r, v)
    BY <1>1, <1>4 DEF Fetches, Asks
  <2>2. PICK v \in Word \cup {X} : OnWay(u, v) /\ Fresh(u, r, v)
    BY <2>1
  <2> PICK x : x = IF v = X THEN None ELSE v
    OBVIOUS
  <2>3. x \in Word \cup {None} /\ Got(u, x)' /\ (x = None \/ x = v)
    BY <1>1, <1>3, <2>2
  <2>4. Fresh(u, r, v)'
    <3>1. user'[u].pc = "fetch" /\ user[u].pc = "fetch"
      BY <2>1 DEF Frame
    <3>2. window[u] \subseteq window'[u]
      BY <3>1 DEF Watched
    <3> QED BY <1>1, <2>2, <3>2 DEF Fresh
  <2>5. x = None \/ Fresh(u, r, x)'
    BY <2>3, <2>4
  <2>6. Fetches(u)'
    BY <2>1, <2>3, <2>5 DEF Fetches, Frame
  <2> QED BY <2>6 DEF UserOK
<1>5. CASE Writes(u)
  <2>1. PICK v \in Word \cup {X} : OnWay(u, v)
    BY <1>1, <1>5 DEF Writes, Asks
  <2> PICK x : x = IF v = X THEN None ELSE v
    OBVIOUS
  <2>2. x \in Word \cup {None} /\ Got(u, x)'
    BY <1>1, <1>3, <2>1
  <2>3. Writes(u)'
    BY <2>2 DEF Writes
  <2>4. Releases(u) => Releases(u)'
    BY DEF Releases, Frame
  <2>5. CASE Fetches(u)
    BY <1>4, <2>5
  <2>6. CASE ~Fetches(u)
    BY <1>1, <1>2, <2>3, <2>4, <2>6 DEF UserOK, Frame
  <2> QED BY <2>5, <2>6
<1> QED BY <1>1, <1>2, <1>4, <1>5 DEF UserOK

LEMMA AnsweredPost ==
  ASSUME RegfileInv, NEW t \in Posts, Answers(t)
  PROVE  PostOK(t)'
<1>1. /\ ~Waits(t) /\ flight[t] # None
      /\ \A v : OnWay(t, v) => Got(t, IF v = X THEN None ELSE v)'
      /\ \A v : ~Got(t, v)
  BY DEF Answers
<1>2. PICK v \in Word \cup {X} : OnWay(t, v)
  BY <1>1 DEF RegfileInv, PostOK, Asks
<1> PICK x : x = IF v = X THEN None ELSE v
  OBVIOUS
<1>3. x \in Word \cup {None} /\ Got(t, x)'
  BY <1>1, <1>2
<1> QED BY <1>3 DEF PostOK

LEMMA BusKeeps ==
  ASSUME Powers, WordsFit, PostsApart, RegfileInv, BusStep, Frame, Watched
  PROVE  /\ RegfileInv'
         /\ locked => \A r \in Register \ Volatile : mem'[r + Offset] = mem[r + Offset]
<1>0. /\ \A u \in Users : UserOK(u) /\ u \in Tasks
      /\ \A t \in Posts : PostOK(t) /\ t \in Tasks
      /\ \A r \in Register : RegOK(r) /\ Owner[r] \in Users /\ Owner[r] \in Tasks
      /\ Users \cap Posts = {}
  BY RegisterFacts, BusAssumption DEF RegfileInv
<1>1. BusInv' /\ (Moves \/ \E t \in Tasks : Serves(t) \/ Answers(t))
  <2>1. Width # 0 /\ BusInv
    BY DEF WordsFit, RegfileInv
  <2> QED BY <2>1, RequestsAreSound, BusEffect
<1>2. CASE Moves
  <2>1. mem' = mem /\ \A s \in Tasks : Keeps(s)
    BY <1>2 DEF Moves
  <2>2. \A u \in Users : UserOK(u)'
    BY <1>0, <2>1, UserKept
  <2>3. \A t \in Posts : PostOK(t)'
    BY <1>0, <2>1, PostsKept
  <2>4. \A r \in Register : RegOK(r)'
    BY <1>0, <2>1, OthersRegister
  <2> QED BY <1>1, <2>1, <2>2, <2>3, <2>4, FrameKeeps
<1>3. ASSUME NEW u \in Users, Serves(u)
      PROVE  /\ RegfileInv'
             /\ locked => \A r \in Register \ Volatile : mem'[r + Offset] = mem[r + Offset]
  <2>1. \A s \in Tasks \ {u} : Keeps(s)
    BY <1>3 DEF Serves
  <2>2. /\ UserOK(u)'
        /\ \A r \in Register : r \notin Volatile =>
             \/ mem'[r + Offset] = mem[r + Offset]
             \/ Owner[r] = u /\ ~Fetches(u) /\ mem'[r + Offset] = written[r]
        /\ \A r \in Register, d \in Word : Asks(u, r + Offset, TRUE, d) => mem'[r + Offset] = d
    BY <1>1, <1>3, ServedUser
  <2>3. \A w \in Users : UserOK(w)'
    <3>1. ASSUME NEW w \in Users \ {u} PROVE UserOK(w)'
      <4>1. UserOK(w) /\ Keeps(w)
        BY <1>0, <2>1
      <4>2. \A r \in Register \ Volatile : Owner[r] = w => mem'[r + Offset] = mem[r + Offset]
        BY <2>2
      <4> QED BY <4>1, <4>2, UserKept
    <3> QED BY <2>2, <3>1
  <2>4. \A t \in Posts : PostOK(t)'
    <3>1. \A t \in Posts : PostOK(t) /\ Keeps(t)
      BY <1>0, <2>1
    <3> QED BY <3>1, PostsKept
  <2>5. \A r \in Register : RegOK(r)'
    <3>1. ASSUME NEW r \in Register PROVE RegOK(r)'
      <4>1. RegOK(r) /\ (r \notin Volatile => mem'[r + Offset] \in {mem[r + Offset], written[r]})
        BY <1>0, <2>2
      <4>2. CASE Owner[r] # u
        <5>1. Keeps(Owner[r])
          BY <1>0, <2>1, <4>2
        <5> QED BY <4>1, <5>1, OthersRegister
      <4>3. CASE Owner[r] = u
        <5>1. \A d \in Word : d = written[r] /\ r \notin Volatile /\ Asks(Owner[r], r + Offset, TRUE, d) =>
                Asks(Owner[r], r + Offset, TRUE, d)' \/ mem'[r + Offset] = d
          BY <2>2, <4>3
        <5> QED BY <4>1, <5>1, RegisterKept
      <4> QED BY <4>2, <4>3
    <3> QED BY <3>1
  <2>6. locked => \A r \in Register \ Volatile : mem'[r + Offset] = mem[r + Offset]
    <3>1. SUFFICES ASSUME locked, ~Fetches(u) PROVE FALSE
      BY <2>2
    <3>2. flight[u] # None
      BY <1>3 DEF Serves, Waits
    <3>3. user[u] # Idle
      BY <3>2, UserIs
    <3>4. holder = u /\ user[u].pc \in {"idle", "fetch"}
      BY <3>1, <3>3 DEF RegfileInv, HoldInv
    <3> QED BY <3>1, <3>3, <3>4, UserIs
  <2> QED BY <1>1, <2>3, <2>4, <2>5, <2>6, FrameKeeps
<1>4. ASSUME NEW t \in Posts, Serves(t)
      PROVE  /\ RegfileInv'
             /\ locked => \A r \in Register \ Volatile : mem'[r + Offset] = mem[r + Offset]
  <2>1. \A s \in Tasks \ {t} : Keeps(s)
    BY <1>4 DEF Serves
  <2>2. PostOK(t)' /\ \A r \in Register : r \notin Volatile => mem'[r + Offset] = mem[r + Offset]
    BY <1>1, <1>4, ServedPost
  <2>3. \A w \in Users : UserOK(w)'
    <3>1. \A w \in Users : UserOK(w) /\ Keeps(w)
      BY <1>0, <2>1
    <3> QED BY <2>2, <3>1, UserKept
  <2>4. \A s \in Posts : PostOK(s)'
    <3>1. \A s \in Posts \ {t} : PostOK(s) /\ Keeps(s)
      BY <1>0, <2>1
    <3> QED BY <2>2, <3>1, PostsKept
  <2>5. \A r \in Register : RegOK(r)'
    <3>1. \A r \in Register : Keeps(Owner[r])
      BY <1>0, <2>1
    <3> QED BY <1>0, <2>2, <3>1, OthersRegister
  <2> QED BY <1>1, <2>2, <2>3, <2>4, <2>5, FrameKeeps
<1>5. ASSUME NEW t \in Tasks, Answers(t)
      PROVE  RegfileInv' /\ mem' = mem
  <2>1. mem' = mem /\ ~Waits(t) /\ \A s \in Tasks \ {t} : Keeps(s)
    BY <1>5 DEF Answers
  <2>3. ASSUME NEW w \in Users PROVE UserOK(w)'
    <3>1. CASE w = t
      BY <1>5, <3>1, AnsweredUser
    <3>2. CASE w # t
      <4>1. UserOK(w) /\ Keeps(w)
        BY <1>0, <2>1, <3>2
      <4> QED BY <2>1, <4>1, UserKept
    <3> QED BY <3>1, <3>2
  <2>4. ASSUME NEW s \in Posts PROVE PostOK(s)'
    <3>1. CASE s = t
      BY <1>5, <3>1, AnsweredPost
    <3>2. CASE s # t
      <4>1. PostOK(s) /\ Keeps(s)
        BY <1>0, <2>1, <3>2
      <4> QED BY <4>1, PostsKept
    <3> QED BY <3>1, <3>2
  <2>5. ASSUME NEW r \in Register PROVE RegOK(r)'
    <3>1. RegOK(r)
      BY <1>0
    <3>2. CASE Owner[r] # t
      <4>1. Keeps(Owner[r])
        BY <1>0, <2>1, <3>2
      <4> QED BY <2>1, <3>1, <4>1, OthersRegister
    <3>3. CASE Owner[r] = t
      <4>1. \A d \in Word : ~Asks(Owner[r], r + Offset, TRUE, d)
        BY <2>1, <3>3 DEF Asks
      <4> QED BY <2>1, <3>1, <4>1, RegisterKept
    <3> QED BY <3>2, <3>3
  <2> QED BY <1>1, <2>1, <2>3, <2>4, <2>5, FrameKeeps
<1> QED BY <1>1, <1>2, <1>3, <1>4, <1>5 DEF Tasks, Moves

LEMMA OneIsAWord ==
  ASSUME Powers, Width # 0
  PROVE  {0, 1} \subseteq Word
<1> PICK n : n = Width - 1
  OBVIOUS
<1>1. n \in Nat /\ n + 1 = Width
  BY BusAssumption
<1>2. 2 ^ (n + 1) = 2 ^ n * 2 ^ 1 /\ 2 ^ n \in Nat \ {0} /\ 2 ^ 1 = 2
  <2>1. 2 ^ 1 = 2
    OBVIOUS
  <2> PICK one : one = 1
    OBVIOUS
  <2>2. n \in 0 .. Width + AddrWidth /\ one \in 0 .. Width + AddrWidth
    BY <1>1, BusAssumption
  <2>3. 2 ^ (n + one) = 2 ^ n * 2 ^ one /\ 2 ^ n \in Nat \ {0}
    BY <2>2, PowerFacts
  <2> QED BY <2>1, <2>3
<1>3. 2 ^ Width >= 2 /\ 2 ^ Width \in Nat
  <2>1. \A x \in Nat \ {0} : x * 2 >= 2 /\ x * 2 \in Nat
    OBVIOUS
  <2> QED BY <1>1, <1>2, <2>1
<1> QED BY <1>3 DEF Word

LEMMA PostKeeps ==
  ASSUME Powers, WordsFit, RegfileInv, NEW t \in Posts, PostStep(t), Frame, Watched
  PROVE  RegfileInv' /\ mem' = mem
<1>0. /\ \A u \in Users : UserOK(u) /\ u \in Tasks \ {t}
      /\ \A s \in Posts : PostOK(s) /\ s \in Tasks
      /\ \A r \in Register : RegOK(r) /\ Owner[r] \in Tasks \ {t}
      /\ BusInv /\ Width # 0 /\ t \in Tasks
  BY RegisterFacts, BusAssumption DEF RegfileInv, WordsFit
<1>1. ASSUME BusInv', PostOK(t)', mem' = mem, \A s \in Tasks \ {t} : Keeps(s)
      PROVE  RegfileInv'
  <2>1. \A u \in Users : UserOK(u)'
    BY <1>0, <1>1, UserKept
  <2>2. \A s \in Posts : PostOK(s)'
    BY <1>0, <1>1, PostsKept
  <2>3. \A r \in Register : RegOK(r)'
    BY <1>0, <1>1, OthersRegister
  <2> QED BY <1>1, <2>1, <2>2, <2>3, FrameKeeps
<1>2. ASSUME NEW a \in PostAddress, NEW w \in BOOLEAN, NEW d \in Word \cup {None}, w => d \in Word,
             Post(t, a, w, d)
      PROVE  RegfileInv' /\ mem' = mem
  <2>1. flight[t] = None /\ Sent(t, "access", a, w, d) /\ UNCHANGED <<target, queue, replies, mem>>
    BY <1>2 DEF Post
  <2>2. Valid(a, w, d)
    BY <1>2, RegfileAssumption DEF Valid
  <2>3. BusInv' /\ Asks(t, a, w, d)' /\ \A s \in Tasks \ {t} : Keeps(s)
    BY <1>0, <2>1, <2>2, SentStep
  <2>4. PostOK(t)'
    BY <1>2, <2>3 DEF PostOK
  <2> QED BY <1>1, <2>1, <2>3, <2>4
<1>3. CASE PostEnds(t)
  <2>1. /\ Answered(t) /\ flight' = [flight EXCEPT ![t] = None]
        /\ UNCHANGED <<target, line, queue, replies, mem>>
    BY <1>3 DEF PostEnds
  <2>2. flight[t].at \notin Items
    BY <2>1 DEF Answered, Items
  <2>3. BusInv' /\ flight'[t] = None /\ \A s \in Tasks \ {t} : Keeps(s)
    BY <1>0, <2>1, <2>2, Cleared
  <2>4. PostOK(t)'
    BY <2>3 DEF PostOK
  <2> QED BY <1>1, <2>1, <2>3, <2>4
<1>4. ASSUME NEW addr \in PostAddress, Post(t, addr, FALSE, None)
      PROVE  RegfileInv' /\ mem' = mem
  <2>1. \E w \in BOOLEAN : w = FALSE /\ Post(t, addr, w, None)
    BY <1>4
  <2> QED BY <1>2, <2>1
<1>5. ASSUME NEW addr \in PostAddress, NEW data \in {0, 1}, Post(t, addr, TRUE, data)
      PROVE  RegfileInv' /\ mem' = mem
  <2>1. \E w \in BOOLEAN : w = TRUE /\ Post(t, addr, w, data)
    BY <1>5
  <2>2. data \in Word
    BY <1>0, OneIsAWord
  <2> QED BY <1>2, <2>1, <2>2
<1> QED BY <1>3, <1>4, <1>5 DEF PostStep

LEMMA UserKeeps ==
  ASSUME Powers, WordsFit, ResetsApart, RegfileInv, NEW u \in Users, UserStep(u), Watched
  PROVE  RegfileInv' /\ RetOK' /\ mem' = mem /\ \A s \in Tasks \ {u} : Keeps(s)
<1>0. Width # 0
  BY DEF WordsFit
<1>1. holder \in {None, u}
  <2>1. SUFFICES ASSUME holder # None, holder # u PROVE FALSE
    OBVIOUS
  <2>2. user[u] = Idle
    BY <2>1 DEF RegfileInv, HoldInv
  <2>3. user[u].pc = "idle" /\ ~MayUse(u)
    BY <2>1, <2>2 DEF Idle, MayUse
  <2> QED BY <2>1, <2>3 DEF UserStep, Read, WriteWord, Invalidate, Hold, Release, GoesOn,
                            Fetched, Pushed, ReleasedOne
<1>2. StepOK(u) /\ RetOK'
  <2>1. ASSUME NEW r \in Register, NEW use \in Uses(r), NEW invalid \in BOOLEAN, Read(u, r, use, invalid)
        PROVE  StepOK(u) /\ RetOK'
    BY <2>1, ReadStep
  <2>2. ASSUME NEW r \in Register, NEW value \in Words[r], WriteWord(u, r, value)
        PROVE  StepOK(u) /\ RetOK'
    BY <2>2, WriteWordStep
  <2>3. ASSUME NEW r \in Register, Invalidate(u, r) PROVE StepOK(u) /\ RetOK'
    BY <2>3, InvalidateStep
  <2>4. ASSUME NEW lockRead \in BOOLEAN, Hold(u, lockRead) PROVE StepOK(u) /\ RetOK'
    BY <2>4, HoldStep
  <2>5. CASE Release(u)
    BY <1>0, <2>5, ReleaseStep
  <2>6. CASE Fetched(u)
    BY <2>6, FetchedStep
  <2>7. CASE Pushed(u)
    BY <2>7, PushedStep
  <2>8. CASE ReleasedOne(u)
    BY <1>0, <2>8, ReleasedOneStep
  <2> QED BY <2>1, <2>2, <2>3, <2>4, <2>5, <2>6, <2>7, <2>8 DEF UserStep, GoesOn
<1>3. RegfileInv'
  BY <1>1, <1>2, StepKeeps
<1> QED BY <1>2, <1>3 DEF StepOK

----------------------------------------------------------------------------
LEMMA InitOK ==
  ASSUME Powers, WordsFit, Init
  PROVE  RegfileInv /\ RetOK
<1>1. mem \in [Address -> Word \cup {X}] /\ (target = "memory" => mem \in [Address -> Word])
  <2>1. mem = [a \in Address |-> IF Loaded[a] # None THEN Loaded[a]
                                 ELSE IF target = "memory" THEN 0 ELSE X]
    BY DEF Init, BusInit
  <2>2. \A a \in Address : Loaded[a] \in Word \cup {None}
    BY DEF WordsFit
  <2> QED BY <2>1, <2>2, WordZero
<1>2. BusInv
  <2>1. /\ target \in {"memory", "device"} /\ flight = [t \in Tasks |-> None]
        /\ line = [i \in Items |-> <<>>] /\ queue = <<>> /\ replies = <<>>
    BY DEF Init, BusInit
  <2>2. \A i \in Items : line[i] = <<>> /\ Len(line[i]) = 0
    BY <2>1
  <2>3. BusTypeOK
    BY <1>1, <2>1 DEF BusTypeOK
  <2>4. "interface" \in Items /\ "device" \in Items /\ "memory" \in Items
    BY DEF Items
  <2>5. Len(queue) = 0 /\ Len(replies) = 0 /\ DOMAIN queue = {}
    BY <2>1
  <2>6. \A i \in Items : DOMAIN line[i] = {}
    BY <2>2
  <2>7. LinesHold
    BY <2>6 DEF LinesHold
  <2>8. QueueHolds
    <3>1. Len(line["device"]) = 0 /\ DOMAIN line["device"] = {}
      BY <2>2, <2>4, <2>6
    <3> QED BY <2>5, <3>1 DEF QueueHolds
  <2>9. OneWay
    BY <2>1, <2>2, <2>4 DEF OneWay
  <2> QED BY <2>3, <2>7, <2>8, <2>9 DEF BusInv
<1>3. RegTypeOK
  BY DEF Init, RegTypeOK
<1>4. HoldInv
  BY DEF Init, HoldInv
<1>5. \A u \in Users : UserOK(u)
  BY RegisterFacts DEF Init, BusInit, UserOK
<1>6. \A t \in Posts : PostOK(t)
  BY RegisterFacts DEF Init, BusInit, PostOK
<1>7. ASSUME NEW r \in Register PROVE RegOK(r)
  <2>1. cache[r] = None /\ volatile[r] = None /\ written[r] = mem[r + Offset]
    BY DEF Init
  <2>2. mem[r + Offset] \in Word \cup {X}
    BY <1>1, RegisterFacts
  <2> QED BY <2>1, <2>2 DEF RegOK
<1>8. RetOK
  BY DEF Init, RetOK, ReadsLastWritten, FreshVolatile
<1> QED BY <1>2, <1>3, <1>4, <1>5, <1>6, <1>7, <1>8 DEF RegfileInv

LEMMA StutterOK ==
  ASSUME RegfileInv, RetOK, UNCHANGED vars
  PROVE  RegfileInv' /\ RetOK'
<1>1. /\ UNCHANGED <<target, flight, line, queue, replies, mem>>
      /\ UNCHANGED <<cache, volatile, dirty, locked, lockedRead>>
      /\ UNCHANGED <<user, holder, ret, written, window>>
  BY DEF vars, busVars, regVars
<1>2. RetOK'
  BY <1>1 DEF RetOK, ReadsLastWritten, FreshVolatile
<1>3. BusInv'
  <2>1. BusTypeOK'
    BY <1>1 DEF RegfileInv, BusInv, BusTypeOK
  <2>2. LinesHold'
    BY <1>1 DEF RegfileInv, BusInv, LinesHold
  <2>3. QueueHolds'
    BY <1>1 DEF RegfileInv, BusInv, QueueHolds
  <2>4. OneWay'
    BY <1>1 DEF RegfileInv, BusInv, OneWay
  <2> QED BY <2>1, <2>2, <2>3, <2>4 DEF BusInv
<1>4. ASSUME NEW s \in Tasks PROVE Keeps(s)
  <2>1. Waits(s) => Waits(s)'
    BY <1>1 DEF Waits
  <2>2. \A v : OnWay(s, v) => OnWay(s, v)'
    BY <1>1 DEF OnWay
  <2>3. flight'[s] = flight[s]
    BY <1>1
  <2> QED BY <2>1, <2>2, <2>3, OthersKeep
<1>5. Frame /\ mem' = mem /\ window' = window
  BY <1>1 DEF Frame
<1>6. RegTypeOK' /\ HoldInv'
  BY <1>1 DEF RegfileInv, RegTypeOK, HoldInv, Writable
<1>7. ASSUME NEW u \in Users PROVE UserOK(u)'
  <2>1. Keeps(u) /\ UserOK(u)
    BY <1>4, RegisterFacts DEF RegfileInv
  <2>2. Fetches(u) => Fetches(u)'
    BY <1>5, <2>1, FetchKept DEF Frame
  <2>3. Writes(u) => Writes(u)'
    BY <1>5, <2>1, WritesKept DEF Frame
  <2>4. Releases(u) => Releases(u)'
    BY <1>5 DEF Releases, Frame
  <2> QED BY <1>5, <2>1, <2>2, <2>3, <2>4 DEF UserOK, Keeps, Frame
<1>8. \A t \in Posts : PostOK(t)'
  BY <1>4, RegisterFacts, PostsKept DEF RegfileInv
<1>9. \A r \in Register : RegOK(r)'
  <2>1. \A r \in Register : RegOK(r) /\ Keeps(Owner[r])
    BY <1>4, RegisterFacts DEF RegfileInv
  <2> QED BY <1>5, <2>1, OthersRegister
<1> QED BY <1>2, <1>3, <1>6, <1>7, <1>8, <1>9 DEF RegfileInv

LEMMA NextOK ==
  ASSUME Powers, WordsFit, ResetsApart, PostsApart, RegfileInv, Next
  PROVE  /\ RegfileInv' /\ RetOK'
         /\ locked => \A r \in Register \ Volatile : mem'[r + Offset] = mem[r + Offset]
<1>1. ASSUME NEW u \in Users, UserAction(UserStep(u))
      PROVE  RegfileInv' /\ RetOK' /\ mem' = mem
  <2>1. UserStep(u) /\ Watched
    BY <1>1 DEF UserAction
  <2> QED BY <2>1, UserKeeps
<1>2. ASSUME NEW t \in Posts, PostAction(PostStep(t))
      PROVE  RegfileInv' /\ RetOK' /\ mem' = mem
  <2>1. PostStep(t) /\ Frame /\ Watched /\ ret' = None
    BY <1>2 DEF PostAction, Frame, regVars, Nothing
  <2> QED BY <2>1, PostKeeps, NoReturn
<1>3. CASE BusAction(BusStep)
  <2>1. BusStep /\ Frame /\ Watched /\ ret' = None
    BY <1>3 DEF BusAction, PostAction, Frame, regVars, Nothing
  <2> QED BY <2>1, BusKeeps, NoReturn
<1> QED BY <1>1, <1>2, <1>3 DEF Next

(* The invariant holds: of every register that nobody else writes, the file   *)
(* and the device know what was written last, but for what is held back or is *)
(* on its way, and each task has the request or the answer that it awaits.    *)
THEOREM RegfileInvariant ==
  ASSUME Powers, WordsFit, ResetsApart, PostsApart
  PROVE  Spec => []RegfileInv
<1>1. Init => RegfileInv /\ RetOK
  BY InitOK
<1>2. (RegfileInv /\ RetOK) /\ [Next]_vars => (RegfileInv /\ RetOK)'
  BY NextOK, StutterOK
<1> QED BY <1>1, <1>2, PTL DEF Spec

LEMMA ReturnsWell ==
  ASSUME Powers, WordsFit, ResetsApart, PostsApart
  PROVE  Spec => [](RegfileInv /\ RetOK)
<1>1. Init => RegfileInv /\ RetOK
  BY InitOK
<1>2. (RegfileInv /\ RetOK) /\ [Next]_vars => (RegfileInv /\ RetOK)'
  BY NextOK, StutterOK
<1> QED BY <1>1, <1>2, PTL DEF Spec

(* A user reads the word or the field it wrote last (Regfile.ccRead and       *)
(* ccWrite), whatever was cached, held, invalidated or released in between.   *)
THEOREM RegfileReadsLastWritten ==
  ASSUME Powers, WordsFit, ResetsApart, PostsApart
  PROVE  Spec => []ReadsLastWritten
<1>1. RegfileInv /\ RetOK => ReadsLastWritten
  BY DEF RetOK
<1> QED BY <1>1, ReturnsWell, PTL

(* A volatile register is read afresh unless it is held (Register.ccRd's      *)
(* dontCache).                                                                *)
THEOREM RegfileFreshVolatile ==
  ASSUME Powers, WordsFit, ResetsApart, PostsApart
  PROVE  Spec => []FreshVolatile
<1>1. RegfileInv /\ RetOK => FreshVolatile
  BY DEF RetOK
<1> QED BY <1>1, ReturnsWell, PTL

(* What an idle user wrote is in the device when nothing is held, what was    *)
(* written during a hold included (Regfile.ccRelease).                        *)
THEOREM RegfileWrittenArrives ==
  ASSUME Powers, WordsFit, ResetsApart, PostsApart
  PROVE  Spec => []WrittenArrives
<1>1. ASSUME RegfileInv PROVE WrittenArrives
  <2> SUFFICES ASSUME NEW r \in Register \ Volatile, user[Owner[r]] = Idle, holder = None
               PROVE  mem[r + Offset] = written[r]
    BY DEF WrittenArrives
  <2>1. flight[Owner[r]] = None
    BY <1>1, RegisterFacts, UserIs
  <2>2. ~Kept(r)
    BY <1>1 DEF RegfileInv, HoldInv, Kept
  <2>3. RegOK(r)
    BY <1>1 DEF RegfileInv
  <2> QED BY <2>1, <2>2, <2>3 DEF RegOK, Asks, Waits
<1> QED BY <1>1, RegfileInvariant, PTL

(* Nothing a holder writes reaches the device before the release              *)
(* (Regfile.hold), and nobody else writes the words the file caches.          *)
THEOREM RegfileHeldIsHeld ==
  ASSUME Powers, WordsFit, ResetsApart, PostsApart
  PROVE  Spec => HeldIsHeld
<1>1. RegfileInv /\ [Next]_vars =>
        [locked => \A r \in Register \ Volatile : mem'[r + Offset] = mem[r + Offset]]_vars
  BY NextOK
<1> QED BY <1>1, RegfileInvariant, PTL DEF Spec, HeldIsHeld

----------------------------------------------------------------------------
(* Answers find their requests.  A request of a MemoryAccess is ahead of      *)
(* another one that is further from the memory, or behind it in its line.     *)
Stage(i) == IF i \in {"memory", "device"} THEN 0 ELSE IF i = "interface" THEN 1 ELSE 2

Ahead(s, t) == \E i, j \in Items : \E k \in DOMAIN line[i], l \in DOMAIN line[j] :
    /\ line[i][k] = s /\ line[j][l] = t
    /\ Stage(i) < Stage(j) \/ (i = j /\ k < l)

PostsOutside == \A k \in DOMAIN line["regfile"] : line["regfile"][k] \notin Posts

(* Tickets in the order of the requests, and the next one.                    *)
Ticketed(f, n) ==
    /\ f \in [Posts -> Nat] /\ n \in Nat /\ \A t \in Posts : f[t] < n
    /\ \A s, t \in Posts : Ahead(s, t) => f[s] < f[t]

(* What a read at a with ticket m is going to find: the last write that is    *)
(* ahead of it, or the word in memory.                                        *)
Seen(f, m, a, v) ==
    \/ /\ v = mem[a]
       /\ \A q \in Posts, d \in Word : Asks(q, a, TRUE, d) => ~(f[q] < m)
    \/ \E q \in Posts :
         /\ v \in Word /\ Asks(q, a, TRUE, v) /\ f[q] < m
         /\ \A p \in Posts, d \in Word : Asks(p, a, TRUE, d) /\ f[p] < m => f[p] <= f[q]

Told(v) == IF v = X THEN None ELSE v

Promised(f, t) ==
    /\ \A a \in PostAddress, d \in Word \cup {None} :
         Asks(t, a, FALSE, d) => Seen(f, f[t], a, expected[t])
    /\ \A a \in PostAddress, d \in Word : Asks(t, a, TRUE, d) => expected[t] = None
    /\ expected[t] # None =>
         /\ \A v \in Word \cup {X} : OnWay(t, v) => v = expected[t]
         /\ \A v \in Word \cup {None} : Got(t, v) => v = Told(expected[t])

Tickets(f, n) ==
    /\ Ticketed(f, n)
    /\ \A a \in PostAddress : Seen(f, n, a, last[a])
    /\ \A t \in Posts : Promised(f, t)

AnswerInv ==
    /\ PostsOutside
    /\ last \in [Address -> Word \cup {X}]
    /\ expected = [t \in Posts |-> expected[t]]
    /\ \E f, n : Tickets(f, n)

(* One request has one address, one direction and, to write, one word.        *)
LEMMA RequestIsOne ==
  ASSUME Powers, Width # 0, NEW t, flight[t].at \in Items,
         NEW a, NEW w, NEW d, Valid(a, w, d), Is(t, a, w, d),
         NEW b, NEW x, NEW e, Valid(b, x, e), Is(t, b, x, e)
  PROVE  a = b /\ w = x /\ (w => d = e)
<1>1. a \in Int /\ b \in Int /\ Offset \in Int /\ w \in BOOLEAN /\ x \in BOOLEAN
  BY BusAssumption DEF Valid
<1>2. CASE flight[t].at = "regfile"
  <2>1. flight[t] = [at |-> "regfile", addr |-> a - Offset, write |-> w, data |-> d]
    BY <1>2, IsAtRegfile
  <2>2. flight[t] = [at |-> "regfile", addr |-> b - Offset, write |-> x, data |-> e]
    BY <1>2, IsAtRegfile
  <2>3. a - Offset = b - Offset /\ w = x /\ d = e
    BY <2>1, <2>2
  <2> QED BY <1>1, <2>3
<1>3. CASE flight[t].at \in {"access", "memory"}
  <2>1. flight[t] = [at |-> flight[t].at, addr |-> a, write |-> w, data |-> d]
    BY <1>3, IsAtMemory
  <2>2. flight[t] = [at |-> flight[t].at, addr |-> b, write |-> x, data |-> e]
    BY <1>3, IsAtMemory
  <2>3. flight[t].addr = a /\ flight[t].write = w /\ flight[t].data = d
    BY <2>1
  <2>4. flight[t].addr = b /\ flight[t].write = x /\ flight[t].data = e
    BY <2>2
  <2> QED BY <2>3, <2>4
<1>4. CASE flight[t].at \in {"interface", "device"}
  <2>1. flight[t] = [at |-> flight[t].at, data |-> Packed(Request(a, w, d))]
    BY <1>4, IsAtDevice
  <2>2. flight[t] = [at |-> flight[t].at, data |-> Packed(Request(b, x, e))]
    BY <1>4, IsAtDevice
  <2>3. flight[t].data = Packed(Request(a, w, d))
    BY <2>1
  <2>4. flight[t].data = Packed(Request(b, x, e))
    BY <2>2
  <2> PICK bits : bits = Packer(flight[t].data)
    OBVIOUS
  <2>5. /\ w => get(bits, Width) = d
        /\ get(after(bits, Width), AddrWidth) = a
        /\ (get(after(after(bits, Width), AddrWidth), 1) = 1) <=> w
    <3>1. bits = Packer(Packed(Request(a, w, d)))
      BY <2>3
    <3> QED BY <3>1, Unpacked DEF Valid
  <2>6. /\ x => get(bits, Width) = e
        /\ get(after(bits, Width), AddrWidth) = b
        /\ (get(after(after(bits, Width), AddrWidth), 1) = 1) <=> x
    <3>1. bits = Packer(Packed(Request(b, x, e)))
      BY <2>4
    <3> QED BY <3>1, Unpacked DEF Valid
  <2>7. a = b /\ (w <=> x) /\ (w => d = e)
    BY <2>5, <2>6
  <2> QED BY <1>1, <2>7
<1> QED BY <1>2, <1>3, <1>4 DEF Items

(* The same as a fact of every state, of the next one too.                    *)
LEMMA RequestsAreOne ==
  Powers /\ Width # 0 =>
    \A t : flight[t].at \in Items =>
      \A a, w, d, b, x, e :
        Valid(a, w, d) /\ Is(t, a, w, d) /\ Valid(b, x, e) /\ Is(t, b, x, e) =>
          a = b /\ w = x /\ (w => d = e)
<1> SUFFICES ASSUME Powers, Width # 0, NEW t, flight[t].at \in Items,
                    NEW a, NEW w, NEW d, NEW b, NEW x, NEW e,
                    Valid(a, w, d), Is(t, a, w, d), Valid(b, x, e), Is(t, b, x, e)
             PROVE  a = b /\ w = x /\ (w => d = e)
  OBVIOUS
<1> QED BY RequestIsOne

LEMMA NextRequestsAreOne ==
  (Powers /\ Width # 0 =>
    \A t : flight[t].at \in Items =>
      \A a, w, d, b, x, e :
        Valid(a, w, d) /\ Is(t, a, w, d) /\ Valid(b, x, e) /\ Is(t, b, x, e) =>
          a = b /\ w = x /\ (w => d = e))'
  BY RequestsAreOne, PTL

LEMMA AnsweredDoNotWait ==
  BusInv => \A t, v : OnWay(t, v) \/ Got(t, v) => ~Waits(t)
  BY AnsweredNotWaiting, Zenon

LEMMA NextAnsweredDoNotWait ==
  (BusInv => \A t, v : OnWay(t, v) \/ Got(t, v) => ~Waits(t))'
  BY AnsweredDoNotWait, PTL

(* A task has one answer.                                                     *)
LEMMA AnswerIsOne ==
  BusInv => \A t, v, w :
    /\ OnWay(t, v) /\ OnWay(t, w) => v = w
    /\ Got(t, v) /\ Got(t, w) => v = w
    /\ ~(OnWay(t, v) /\ Got(t, w))
<1> SUFFICES ASSUME BusInv, NEW t, NEW v, NEW w
             PROVE  /\ OnWay(t, v) /\ OnWay(t, w) => v = w
                    /\ Got(t, v) /\ Got(t, w) => v = w
                    /\ ~(OnWay(t, v) /\ Got(t, w))
  OBVIOUS
<1>1. \A x : ([at |-> "back", result |-> x]).result = x /\ ([at |-> "done", result |-> x]).result = x
             /\ ([at |-> "back", result |-> x]).at = "back" /\ ([at |-> "done", result |-> x]).at = "done"
  OBVIOUS
<1>2. \A k \in DOMAIN replies : k \in DOMAIN queue /\ flight[queue[k]].at = "device"
  <2>1. /\ Len(line["device"]) \in Nat /\ Len(replies) \in Nat
        /\ DOMAIN queue = 1 .. Len(replies) + Len(line["device"]) /\ DOMAIN replies = 1 .. Len(replies)
        /\ \A j \in DOMAIN queue : flight[queue[j]].at = "device"
    BY QueueFacts
  <2> QED BY <2>1
<1>3. \A j, k \in DOMAIN queue : queue[j] = queue[k] => j = k
  BY DEF BusInv, QueueHolds
<1>4. Got(t, v) /\ Got(t, w) => v = w
  BY <1>1 DEF Got
<1>5. ~(OnWay(t, v) /\ Got(t, w))
  BY <1>1, <1>2 DEF OnWay, Got
<1>6. OnWay(t, v) /\ OnWay(t, w) => v = w
  BY <1>1, <1>2, <1>3 DEF OnWay
<1> QED BY <1>4, <1>5, <1>6

LEMMA NextAnswerIsOne ==
  (BusInv => \A t, v, w :
    /\ OnWay(t, v) /\ OnWay(t, w) => v = w
    /\ Got(t, v) /\ Got(t, w) => v = w
    /\ ~(OnWay(t, v) /\ Got(t, w)))'
  BY AnswerIsOne, PTL

LEMMA AnsweredHasRequest ==
  BusInv => /\ \A t : \A v \in Word \cup {X} : OnWay(t, v) => flight[t] # None
            /\ \A t : \A v \in Word \cup {None} : Got(t, v) => flight[t] # None
<1> SUFFICES ASSUME BusInv, NEW t
             PROVE  /\ \A v \in Word \cup {X} : OnWay(t, v) => flight[t] # None
                    /\ \A v \in Word \cup {None} : Got(t, v) => flight[t] # None
  OBVIOUS
<1>1. Word \subseteq Int
  BY DEF Word
<1>2. ASSUME NEW v \in Word \cup {X, None}
      PROVE  [at |-> "back", result |-> v] # None /\ [at |-> "done", result |-> v] # None
  <2>1. [at |-> "back", result |-> v] \in Requests /\ [at |-> "done", result |-> v] \in Requests
    BY <1>1 DEF Requests
  <2> QED BY <2>1, BusAssumption
<1>3. \A k \in DOMAIN replies : flight[queue[k]] # None
  <2>1. \A k \in DOMAIN replies : k \in DOMAIN queue
    BY QueueFacts
  <2> QED BY <2>1, QueueFacts
<1> QED BY <1>2, <1>3 DEF OnWay, Got

LEMMA NextAnsweredHasRequest ==
  (BusInv => /\ \A t : \A v \in Word \cup {X} : OnWay(t, v) => flight[t] # None
             /\ \A t : \A v \in Word \cup {None} : Got(t, v) => flight[t] # None)'
  BY AnsweredHasRequest, PTL

(* What the task has after the step it had before.                            *)
SameAsked(s) ==
    \A a \in PostAddress, d \in Word : Asks(s, a, TRUE, d)' <=> Asks(s, a, TRUE, d)

LEMMA PostAddresses ==
  \A a \in PostAddress : /\ a \in Address /\ a \in Int
                         /\ \A d \in Word : Valid(a, TRUE, d)
                         /\ \A d \in Word \cup {None} : Valid(a, FALSE, d)
  BY RegfileAssumption, RegisterFacts DEF Valid

(* A task that waits or is answered asks for one thing, or none.              *)
LEMMA AskedNext ==
  ASSUME Powers, Width # 0, NEW s, NEW b, NEW x, NEW e, Valid(b, x, e), Asks(s, b, x, e)'
  PROVE  /\ \A a, d : Valid(a, TRUE, d) /\ Asks(s, a, TRUE, d)' => a = b /\ x = TRUE /\ d = e
         /\ \A a, d : Valid(a, FALSE, d) /\ Asks(s, a, FALSE, d)' => a = b /\ x = FALSE
<1>1. flight'[s].at \in Items /\ Is(s, b, x, e)' /\ x \in BOOLEAN
  BY DEF Asks, Waits, Valid
<1>2. \A a, w, d : Valid(a, w, d) /\ Is(s, a, w, d)' => a = b /\ w = x /\ (x = TRUE => d = e)
  BY <1>1, NextRequestsAreOne DEF Valid
<1>3. ASSUME NEW a, NEW d, Valid(a, TRUE, d), Is(s, a, TRUE, d)' PROVE a = b /\ x = TRUE /\ d = e
  <2>1. ASSUME NEW w, w = TRUE PROVE a = b /\ x = TRUE /\ d = e
    <3>1. Valid(a, w, d) /\ Is(s, a, w, d)'
      BY <1>3, <2>1, Zenon
    <3>2. a = b /\ w = x /\ (x = TRUE => d = e)
      BY <1>2, <3>1
    <3> QED BY <2>1, <3>2, Zenon
  <2> QED BY <2>1
<1>4. ASSUME NEW a, NEW d, Valid(a, FALSE, d), Is(s, a, FALSE, d)' PROVE a = b /\ x = FALSE
  <2> PICK w : w = FALSE
    OBVIOUS
  <2>1. a = b /\ w = x
    <3>1. Valid(a, w, d) /\ Is(s, a, w, d)'
      BY <1>4, Zenon
    <3> QED BY <1>2, <3>1
  <2> QED BY <2>1, Zenon
<1> QED BY <1>3, <1>4, Zenon DEF Asks

LEMMA AskedNow ==
  ASSUME Powers, Width # 0, NEW s, NEW b, NEW x, NEW e, Valid(b, x, e), Asks(s, b, x, e)
  PROVE  /\ \A a, d : Valid(a, TRUE, d) /\ Asks(s, a, TRUE, d) => a = b /\ x = TRUE /\ d = e
         /\ \A a, d : Valid(a, FALSE, d) /\ Asks(s, a, FALSE, d) => a = b /\ x = FALSE
<1>1. flight[s].at \in Items /\ Is(s, b, x, e) /\ x \in BOOLEAN
  BY DEF Asks, Waits, Valid
<1>2. \A a, w, d : Valid(a, w, d) /\ Is(s, a, w, d) => a = b /\ w = x /\ (x = TRUE => d = e)
  BY <1>1, RequestIsOne DEF Valid
<1>3. ASSUME NEW a, NEW d, Valid(a, TRUE, d), Is(s, a, TRUE, d) PROVE a = b /\ x = TRUE /\ d = e
  <2>1. ASSUME NEW w, w = TRUE PROVE a = b /\ x = TRUE /\ d = e
    <3>1. Valid(a, w, d) /\ Is(s, a, w, d)
      BY <1>3, <2>1, Zenon
    <3>2. a = b /\ w = x /\ (x = TRUE => d = e)
      BY <1>2, <3>1
    <3> QED BY <2>1, <3>2, Zenon
  <2> QED BY <2>1
<1>4. ASSUME NEW a, NEW d, Valid(a, FALSE, d), Is(s, a, FALSE, d) PROVE a = b /\ x = FALSE
  <2> PICK w : w = FALSE
    OBVIOUS
  <2>1. a = b /\ w = x
    <3>1. Valid(a, w, d) /\ Is(s, a, w, d)
      BY <1>4, Zenon
    <3> QED BY <1>2, <3>1
  <2> QED BY <2>1, Zenon
<1> QED BY <1>3, <1>4, Zenon DEF Asks

LEMMA KeptBack ==
  ASSUME Powers, Width # 0, BusInv, BusInv', NEW s, PostOK(s), Keeps(s)
  PROVE  /\ SameAsked(s)
         /\ \A a \in PostAddress, d \in Word \cup {None} : Asks(s, a, FALSE, d)' =>
              \E e \in Word \cup {None} : Asks(s, a, FALSE, e)
         /\ \A v \in Word \cup {X} : OnWay(s, v)' => OnWay(s, v)
         /\ \A v \in Word \cup {None} : Got(s, v)' => Got(s, v)
<1>0. \A a \in PostAddress : a \in Int
  BY PostAddresses
<1>1. CASE flight[s] = None
  <2>1. flight'[s] = None
    BY <1>1 DEF Keeps
  <2>2. \A a, w, d : ~Asks(s, a, w, d) /\ ~Asks(s, a, w, d)'
    BY <1>1, <2>1 DEF Asks, Waits
  <2> QED BY <2>1, <2>2, NextAnsweredHasRequest DEF SameAsked
<1>2. ASSUME NEW b \in PostAddress, NEW x \in BOOLEAN, NEW e \in Word \cup {None},
             x => e \in Word, Asks(s, b, x, e)
      PROVE  /\ SameAsked(s)
             /\ \A a \in PostAddress, d \in Word \cup {None} : Asks(s, a, FALSE, d)' =>
                  \E c \in Word \cup {None} : Asks(s, a, FALSE, c)
             /\ \A v \in Word \cup {X} : ~OnWay(s, v)'
             /\ \A v \in Word \cup {None} : ~Got(s, v)'
  <2>1. Asks(s, b, x, e)' /\ Valid(b, x, e)
    BY <1>0, <1>2, PostAddresses DEF Keeps, Valid
  <2>2. /\ \A a, d : Valid(a, TRUE, d) /\ Asks(s, a, TRUE, d)' => a = b /\ x = TRUE /\ d = e
        /\ \A a, d : Valid(a, FALSE, d) /\ Asks(s, a, FALSE, d)' => a = b /\ x = FALSE
    BY <2>1, AskedNext
  <2>3. /\ \A a, d : Valid(a, TRUE, d) /\ Asks(s, a, TRUE, d) => a = b /\ x = TRUE /\ d = e
        /\ \A a, d : Valid(a, FALSE, d) /\ Asks(s, a, FALSE, d) => a = b /\ x = FALSE
    BY <1>2, <2>1, AskedNow
  <2>4. SameAsked(s)
    <3> SUFFICES ASSUME NEW a \in PostAddress, NEW d \in Word
                 PROVE  Asks(s, a, TRUE, d)' <=> Asks(s, a, TRUE, d)
      BY DEF SameAsked
    <3>1. Valid(a, TRUE, d)
      BY PostAddresses
    <3>2. Asks(s, a, TRUE, d)' => a = b /\ x = TRUE /\ d = e
      BY <2>2, <3>1
    <3>3. Asks(s, a, TRUE, d) => a = b /\ x = TRUE /\ d = e
      BY <2>3, <3>1
    <3> QED BY <1>2, <2>1, <3>2, <3>3
  <2>5. ASSUME NEW a \in PostAddress, NEW d \in Word \cup {None}, Asks(s, a, FALSE, d)'
        PROVE  Asks(s, a, FALSE, e)
    <3>1. Valid(a, FALSE, d)
      BY PostAddresses
    <3>2. a = b /\ x = FALSE
      BY <2>2, <2>5, <3>1
    <3> QED BY <1>2, <3>2
  <2>6. Waits(s)'
    BY <2>1 DEF Asks
  <2> QED BY <2>4, <2>5, <2>6, NextAnsweredDoNotWait
<1>3. ASSUME NEW w \in Word \cup {X}, OnWay(s, w)
      PROVE  /\ ~Waits(s) /\ ~Waits(s)'
             /\ \A v \in Word \cup {X} : OnWay(s, v)' => OnWay(s, v)
             /\ \A v : ~Got(s, v)'
  <2>1. OnWay(s, w)'
    BY <1>3 DEF Keeps
  <2>2. ~Waits(s) /\ ~Waits(s)'
    BY <1>3, <2>1, AnsweredDoNotWait, NextAnsweredDoNotWait
  <2>3. \A v : OnWay(s, v)' => v = w
    BY <2>1, NextAnswerIsOne
  <2>4. \A v : ~Got(s, v)'
    BY <2>1, NextAnswerIsOne
  <2> QED BY <1>3, <2>2, <2>3, <2>4
<1>4. ASSUME NEW w \in Word \cup {None}, Got(s, w)
      PROVE  /\ ~Waits(s) /\ ~Waits(s)'
             /\ \A v \in Word \cup {None} : Got(s, v)' => Got(s, v)
             /\ \A v : ~OnWay(s, v)'
  <2>1. Got(s, w)'
    BY <1>4 DEF Keeps
  <2>2. ~Waits(s) /\ ~Waits(s)'
    BY <1>4, <2>1, AnsweredDoNotWait, NextAnsweredDoNotWait
  <2>3. \A v : Got(s, v)' => v = w
    BY <2>1, NextAnswerIsOne
  <2>4. \A v : ~OnWay(s, v)'
    BY <2>1, NextAnswerIsOne
  <2> QED BY <1>4, <2>2, <2>3, <2>4
<1>5. CASE ~Waits(s) /\ ~Waits(s)'
  <2>1. SameAsked(s) /\ \A a, d : ~Asks(s, a, FALSE, d)'
    BY <1>5 DEF SameAsked, Asks
  <2> QED BY <1>1, <1>3, <1>4, <1>5, <2>1 DEF PostOK, Asks
<1> QED BY <1>1, <1>2, <1>3, <1>4, <1>5 DEF PostOK

----------------------------------------------------------------------------
(* No step of the bus lets a request of a MemoryAccess overtake another.      *)
AheadKept == \A s, t \in Posts : Ahead(s, t)' => Ahead(s, t)

LEMMA Stages ==
  /\ \A i \in Items : Stage(i) \in {0, 1, 2}
  /\ Stage("memory") = 0 /\ Stage("device") = 0 /\ Stage("interface") = 1
  /\ Stage("regfile") = 2 /\ Stage("access") = 2
  BY DEF Stage, Items

LEMMA PostsInside ==
  ASSUME PostsOutside, NEW i \in Items, NEW k \in DOMAIN line[i], line[i][k] \in Posts
  PROVE  i # "regfile"
  BY DEF PostsOutside

LEMMA LineOf ==
  ASSUME BusTypeOK, NEW i \in Items
  PROVE  /\ Len(line[i]) \in Nat /\ DOMAIN line[i] = 1 .. Len(line[i])
         /\ line[i] # <<>> =>
              /\ 1 \in DOMAIN line[i] /\ Head(line[i]) = line[i][1] /\ Head(line[i]) \in Tasks
              /\ \A k \in DOMAIN Tail(line[i]) :
                   k \in Nat \ {0} /\ k + 1 \in DOMAIN line[i] /\ Tail(line[i])[k] = line[i][k + 1]
         /\ \A t \in Tasks : \A k \in DOMAIN Append(line[i], t) :
              \/ k \in DOMAIN line[i] /\ Append(line[i], t)[k] = line[i][k]
              \/ k = Len(line[i]) + 1 /\ Append(line[i], t)[k] = t
         /\ \A k \in DOMAIN line[i] : k \in Nat /\ k < Len(line[i]) + 1
<1> PICK q : q = line[i]
  OBVIOUS
<1>1. q \in Seq(Tasks)
  BY DEF BusTypeOK
<1>2. /\ Len(q) \in Nat /\ DOMAIN q = 1 .. Len(q)
      /\ q # <<>> =>
           /\ Len(q) >= 1 /\ Head(q) = q[1] /\ Head(q) \in Tasks
           /\ DOMAIN Tail(q) = 1 .. Len(q) - 1
           /\ \A k \in 1 .. Len(q) - 1 : Tail(q)[k] = q[k + 1]
      /\ \A x \in Tasks :
           /\ DOMAIN Append(q, x) = 1 .. Len(q) + 1
           /\ Append(q, x)[Len(q) + 1] = x
           /\ \A k \in 1 .. Len(q) : Append(q, x)[k] = q[k]
  BY <1>1, Lists
<1>3. ASSUME q # <<>>
      PROVE  /\ 1 \in DOMAIN q /\ Head(q) = q[1] /\ Head(q) \in Tasks
             /\ \A k \in DOMAIN Tail(q) :
                  k \in Nat \ {0} /\ k + 1 \in DOMAIN q /\ Tail(q)[k] = q[k + 1]
  BY <1>2, <1>3
<1>4. ASSUME NEW t \in Tasks, NEW k \in DOMAIN Append(q, t)
      PROVE  \/ k \in DOMAIN q /\ Append(q, t)[k] = q[k]
             \/ k = Len(q) + 1 /\ Append(q, t)[k] = t
  BY <1>2
<1>5. \A k \in DOMAIN q : k \in Nat /\ k < Len(q) + 1
  BY <1>2
<1> QED BY <1>2, <1>3, <1>4, <1>5

(* The first of a line goes to the end of another one, past no request of a   *)
(* MemoryAccess.                                                              *)
LEMMA MoveOrder ==
  ASSUME BusTypeOK, PostsOutside,
         NEW item \in Items, NEW next \in Items, item # next, next # "regfile",
         line[item] # <<>>, NEW t, t = Head(line[item]),
         line'[item] = Tail(line[item]), line'[next] = Append(line[next], t),
         \A i \in Items \ {item, next} : line'[i] = line[i],
         Stage(next) < Stage(item),
         \A i \in Items \ {item} :
           Stage(next) < Stage(i) /\ Stage(i) <= Stage(item) => i \in {"regfile", "access"} \/ line[i] = <<>>
  PROVE  PostsOutside' /\ AheadKept
<1>1. /\ \A i \in Items : Stage(i) \in Int
      /\ 1 \in DOMAIN line[item] /\ line[item][1] = t /\ t \in Tasks
  BY LineOf, Stages
<1>2. ASSUME NEW i \in Items, NEW k \in DOMAIN line'[i]
      PROVE  \/ i = item /\ k \in Nat \ {0} /\ k + 1 \in DOMAIN line[i] /\ line'[i][k] = line[i][k + 1]
             \/ i # item /\ k \in DOMAIN line[i] /\ line'[i][k] = line[i][k]
             \/ i = next /\ k = Len(line[i]) + 1 /\ line'[i][k] = t
  <2>1. CASE i = item
    <3>1. k \in DOMAIN Tail(line[i]) /\ line'[i][k] = Tail(line[i])[k] /\ line[i] # <<>>
      BY <2>1
    <3>2. k \in Nat \ {0} /\ k + 1 \in DOMAIN line[i] /\ Tail(line[i])[k] = line[i][k + 1]
      BY <3>1, LineOf
    <3> QED BY <2>1, <3>1, <3>2
  <2>2. CASE i = next
    <3>1. line'[i] = Append(line[i], t) /\ k \in DOMAIN Append(line[i], t)
      BY <2>2
    <3>2. \/ k \in DOMAIN line[i] /\ Append(line[i], t)[k] = line[i][k]
          \/ k = Len(line[i]) + 1 /\ Append(line[i], t)[k] = t
      BY <1>1, <3>1, LineOf
    <3> QED BY <2>2, <3>1, <3>2
  <2>3. CASE i \notin {item, next}
    BY <1>2, <2>3
  <2> QED BY <2>1, <2>2, <2>3
<1>3. \A i \in Items : \A k \in DOMAIN line[i] : k \in Nat /\ k < Len(line[i]) + 1 /\ Len(line[i]) \in Nat
  BY LineOf
<1>4. PostsOutside'
  <2>1. "regfile" \in Items
    BY DEF Items
  <2> QED BY <1>2, <2>1 DEF PostsOutside
<1>5. ASSUME NEW a \in Posts, NEW b \in Posts, Ahead(a, b)' PROVE Ahead(a, b)
  <2>1. PICK i \in Items, j \in Items : \E k \in DOMAIN line'[i], l \in DOMAIN line'[j] :
          /\ line'[i][k] = a /\ line'[j][l] = b
          /\ Stage(i) < Stage(j) \/ (i = j /\ k < l)
    BY <1>5 DEF Ahead, Stage
  <2>2. PICK k \in DOMAIN line'[i], l \in DOMAIN line'[j] :
          /\ line'[i][k] = a /\ line'[j][l] = b
          /\ Stage(i) < Stage(j) \/ (i = j /\ k < l)
    BY <2>1
  <2>3. ASSUME NEW x \in Items, NEW y \in Items, NEW m \in DOMAIN line[x], NEW n \in DOMAIN line[y],
               line[x][m] = a, line[y][n] = b, Stage(x) < Stage(y) \/ (x = y /\ m < n)
        PROVE  Ahead(a, b)
    BY <2>3 DEF Ahead
  <2>4. CASE i = next /\ k = Len(line[i]) + 1 /\ a = t
    (* a has moved: b stands behind it. *)
    <3>1. j # next
      <4>1. ASSUME j = next PROVE FALSE
        <5>1. k < l
          BY <1>1, <2>2, <2>4, <4>1
        <5>2. l \in DOMAIN line[j] \/ l = Len(line[j]) + 1
          BY <1>2, <4>1
        <5> QED BY <1>3, <2>4, <4>1, <5>1, <5>2
      <4> QED BY <4>1
    <3>2. Stage(next) < Stage(j)
      BY <2>2, <2>4, <3>1
    <3>3. CASE j = item
      <4>1. l \in Nat \ {0} /\ l + 1 \in DOMAIN line[item] /\ line[item][l + 1] = b
        BY <1>2, <2>2, <3>1, <3>3
      <4>2. 1 < l + 1
        BY <4>1
      <4> QED BY <1>1, <2>3, <2>4, <4>1, <4>2
    <3>4. CASE j # item
      <4>1. l \in DOMAIN line[j] /\ line[j][l] = b
        BY <1>2, <2>2, <3>1, <3>4
      <4>2. item # "regfile" /\ j # "regfile"
        BY <1>1, <2>4, <4>1, PostsInside
      <4>3. line[j] # <<>>
        BY <1>3, <4>1
      <4>4. ASSUME Stage(j) <= Stage(item) PROVE FALSE
        <5>1. j = "access"
          BY <3>2, <3>4, <4>2, <4>3, <4>4
        <5>2. item = "access"
          BY <4>2, <4>4, <5>1, Stages DEF Items
        <5> QED BY <3>4, <5>1, <5>2
      <4>5. Stage(item) < Stage(j)
        BY <1>1, <4>4
      <4> QED BY <1>1, <2>3, <2>4, <4>1, <4>5
    <3> QED BY <3>3, <3>4
  <2>5. CASE ~(i = next /\ k = Len(line[i]) + 1 /\ a = t)
    <3>1. PICK m \in DOMAIN line[i] : /\ line[i][m] = a
                                      /\ m = IF i = item THEN k + 1 ELSE k
                                      /\ k \in Nat
      BY <1>2, <1>3, <2>2, <2>5
    <3>2. CASE j = next /\ l = Len(line[j]) + 1 /\ b = t
      <4>1. CASE i = j
        <5>1. line[i][m] = a /\ i # item
          BY <3>1, <3>2, <4>1
        <5>2. Stage(i) < Stage(item)
          BY <3>2, <4>1
        <5> QED BY <1>1, <2>3, <3>1, <3>2, <5>2
      <4>2. CASE i # j
        <5>1. Stage(i) < Stage(item)
          BY <1>1, <2>2, <3>2, <4>2
        <5> QED BY <1>1, <2>3, <3>1, <3>2, <5>1
      <4> QED BY <4>1, <4>2
    <3>3. CASE ~(j = next /\ l = Len(line[j]) + 1 /\ b = t)
      <4>1. PICK n \in DOMAIN line[j] : /\ line[j][n] = b
                                        /\ n = IF j = item THEN l + 1 ELSE l
                                        /\ l \in Nat
        BY <1>2, <1>3, <2>2, <3>3
      <4>2. i = j /\ k < l => m < n
        BY <3>1, <4>1
      <4> QED BY <2>2, <2>3, <3>1, <4>1, <4>2
    <3> QED BY <3>2, <3>3
  <2> QED BY <2>4, <2>5
<1> QED BY <1>4, <1>5 DEF AheadKept

(* The first of a line leaves it.                                             *)
LEMMA LeaveOrder ==
  ASSUME BusTypeOK, PostsOutside, NEW item \in Items, line[item] # <<>>,
         line'[item] = Tail(line[item]),
         \A i \in Items \ {item} : line'[i] = line[i]
  PROVE  PostsOutside' /\ AheadKept
<1>1. ASSUME NEW i \in Items, NEW k \in DOMAIN line'[i]
      PROVE  \/ i = item /\ k \in Nat /\ k + 1 \in DOMAIN line[i] /\ line'[i][k] = line[i][k + 1]
             \/ i # item /\ k \in DOMAIN line[i] /\ line'[i][k] = line[i][k]
  <2>1. CASE i = item
    <3>1. k \in DOMAIN Tail(line[i]) /\ line'[i][k] = Tail(line[i])[k] /\ line[i] # <<>>
      BY <2>1
    <3>2. k \in Nat \ {0} /\ k + 1 \in DOMAIN line[i] /\ Tail(line[i])[k] = line[i][k + 1]
      BY <3>1, LineOf
    <3> QED BY <2>1, <3>1, <3>2
  <2>2. CASE i # item
    BY <2>2
  <2> QED BY <2>1, <2>2
<1>2. PostsOutside'
  <2>1. "regfile" \in Items
    BY DEF Items
  <2> QED BY <1>1, <2>1 DEF PostsOutside
<1>3. ASSUME NEW a \in Posts, NEW b \in Posts, Ahead(a, b)' PROVE Ahead(a, b)
  <2>1. PICK i \in Items, j \in Items : \E k \in DOMAIN line'[i], l \in DOMAIN line'[j] :
          /\ line'[i][k] = a /\ line'[j][l] = b
          /\ Stage(i) < Stage(j) \/ (i = j /\ k < l)
    BY <1>3 DEF Ahead, Stage
  <2>2. PICK k \in DOMAIN line'[i], l \in DOMAIN line'[j] :
          /\ line'[i][k] = a /\ line'[j][l] = b
          /\ Stage(i) < Stage(j) \/ (i = j /\ k < l)
    BY <2>1
  <2>3. PICK m \in DOMAIN line[i] : line[i][m] = a /\ (i = item => k \in Nat /\ m = k + 1) /\ (i # item => m = k)
    BY <1>1, <2>2
  <2>4. PICK n \in DOMAIN line[j] : line[j][n] = b /\ (j = item => l \in Nat /\ n = l + 1) /\ (j # item => n = l)
    BY <1>1, <2>2
  <2>5. i = j /\ k < l => m < n
    BY <2>3, <2>4
  <2> QED BY <2>2, <2>3, <2>4, <2>5 DEF Ahead
<1> QED BY <1>2, <1>3 DEF AheadKept

(* One enters a line from outside, behind the others.                         *)
LEMMA EnterOrder ==
  ASSUME BusTypeOK, PostsOutside, NEW t \in Tasks, t \in Posts => Away(t),
         NEW item \in {"regfile", "access"}, (item = "regfile" => t \notin Posts),
         line' = [line EXCEPT ![item] = Append(@, t)]
  PROVE  /\ PostsOutside'
         /\ \A a, b \in Posts : Ahead(a, b)' => a # t /\ (b = t \/ Ahead(a, b))
<1>0. item \in Items /\ "regfile" \in Items /\ \A i \in Items : Stage(i) \in Int /\ Stage(i) <= Stage(item)
  BY Stages DEF Items
<1>1. line'[item] = Append(line[item], t) /\ \A i \in Items \ {item} : line'[i] = line[i]
  <2>1. line \in [Items -> Seq(Tasks)]
    BY DEF BusTypeOK
  <2> QED BY <1>0, <2>1
<1>2. ASSUME NEW i \in Items, NEW k \in DOMAIN line'[i]
      PROVE  \/ k \in DOMAIN line[i] /\ line'[i][k] = line[i][k] /\ (t \in Posts => line'[i][k] # t)
             \/ i = item /\ k = Len(line[i]) + 1 /\ line'[i][k] = t
  BY <1>1, LineOf DEF Away
<1>3. \A i \in Items : \A k \in DOMAIN line[i] : k \in Nat /\ k < Len(line[i]) + 1 /\ Len(line[i]) \in Nat
  BY LineOf
<1>4. PostsOutside'
  BY <1>0, <1>2 DEF PostsOutside
<1>5. ASSUME NEW a \in Posts, NEW b \in Posts, Ahead(a, b)'
      PROVE  a # t /\ (b = t \/ Ahead(a, b))
  <2>1. PICK i \in Items, j \in Items : \E k \in DOMAIN line'[i], l \in DOMAIN line'[j] :
          /\ line'[i][k] = a /\ line'[j][l] = b
          /\ Stage(i) < Stage(j) \/ (i = j /\ k < l)
    BY <1>5 DEF Ahead, Stage
  <2>2. PICK k \in DOMAIN line'[i], l \in DOMAIN line'[j] :
          /\ line'[i][k] = a /\ line'[j][l] = b
          /\ Stage(i) < Stage(j) \/ (i = j /\ k < l)
    BY <2>1
  <2>3. a # t
    <3> SUFFICES ASSUME a = t PROVE FALSE
      OBVIOUS
    <3>1. i = item /\ k = Len(line[i]) + 1
      BY <1>2, <2>2
    <3>2. i = j /\ k < l
      <4>1. ~(Stage(i) < Stage(j))
        BY <1>0, <3>1
      <4> QED BY <2>2, <4>1
    <3>3. l \in DOMAIN line[j] \/ l = Len(line[j]) + 1
      BY <1>2
    <3>4. Len(line[item]) \in Nat
      BY <1>0, LineOf
    <3> QED BY <1>3, <3>1, <3>2, <3>3, <3>4
  <2>4. k \in DOMAIN line[i] /\ line[i][k] = a
    BY <1>2, <2>2, <2>3
  <2>5. ASSUME b # t PROVE Ahead(a, b)
    <3>1. l \in DOMAIN line[j] /\ line[j][l] = b
      BY <1>2, <2>2, <2>5
    <3> QED BY <2>2, <2>4, <3>1 DEF Ahead
  <2> QED BY <2>3, <2>5
<1> QED BY <1>4, <1>5

LEMMA FirstIsAhead ==
  ASSUME BusInv, NEW item \in {"memory", "device"}, line[item] # <<>>,
         NEW t, t = Head(line[item]), NEW s, s # t, Waits(s)
  PROVE  Ahead(t, s)
<1>1. item \in Items /\ "memory" \in Items /\ "device" \in Items
  BY DEF Items
<1>2. 1 \in DOMAIN line[item] /\ line[item][1] = t
  BY <1>1, LineOf DEF BusInv
<1> PICK j : j = flight[s].at
  OBVIOUS
<1>3. j \in Items
  BY DEF Waits
<1>4. PICK l \in DOMAIN line[j] : line[j][l] = s
  BY DEF Waits
<1>5. CASE j = item
  <2>1. l \in Nat /\ l # 1 /\ l >= 1
    <3>1. DOMAIN line[j] = 1 .. Len(line[j]) /\ Len(line[j]) \in Nat
      BY <1>3, LineOf DEF BusInv
    <3> QED BY <1>2, <1>4, <1>5, <3>1
  <2>2. 1 < l
    BY <2>1
  <2> QED BY <1>1, <1>2, <1>4, <1>5, <2>2 DEF Ahead
<1>6. CASE j # item
  <2>1. j \notin {"memory", "device"}
    <3>1. line[j] # <<>>
      <4>1. DOMAIN line[j] = 1 .. Len(line[j])
        BY <1>3, LineOf DEF BusInv
      <4>2. l \in 1 .. Len(line[j])
        BY <1>4, <4>1
      <4> QED BY <4>2
    <3> QED BY <1>6, <3>1 DEF BusInv, BusTypeOK, OneWay
  <2>2. Stage(item) < Stage(j)
    BY <1>3, <2>1, Stages DEF Items
  <2> QED BY <1>1, <1>2, <1>3, <1>4, <2>2 DEF Ahead
<1> QED BY <1>5, <1>6

LEMMA LinesStay ==
  ASSUME line' = line, PostsOutside
  PROVE  PostsOutside' /\ AheadKept
BY DEF PostsOutside, AheadKept, Ahead

LEMMA BusOrder ==
  ASSUME BusInv, PostsOutside, BusStep
  PROVE  PostsOutside' /\ AheadKept
<1>0. BusTypeOK /\ line \in [Items -> Seq(Tasks)]
  BY DEF BusInv, BusTypeOK
<1>2. ASSUME NEW item \in {"regfile", "access"}, Multiplex(item)
      PROVE  PostsOutside' /\ AheadKept
  <2> PICK t : t = Head(line[item])
    OBVIOUS
  <2> PICK next : next = IF target = "memory" THEN "memory" ELSE "interface"
    OBVIOUS
  <2>1. /\ item \in Items /\ next \in Items /\ item # next /\ next # "regfile"
        /\ Stage(next) < Stage(item)
    BY Stages DEF Items
  <2>2. line[item] # <<>> /\ line' = [line EXCEPT ![item] = Tail(@), ![next] = Append(@, t)]
    BY <1>2 DEF Multiplex, Handed
  <2>3. \A i \in Items \ {item} :
           Stage(next) < Stage(i) /\ Stage(i) <= Stage(item) => i \in {"regfile", "access"} \/ line[i] = <<>>
    <3>1. target = "memory" => line["interface"] = <<>>
      BY DEF BusInv, OneWay
    <3> QED BY <3>1, Stages DEF Items
  <2>4. /\ line'[item] = Tail(line[item]) /\ line'[next] = Append(line[next], t)
        /\ \A i \in Items \ {item, next} : line'[i] = line[i]
    BY <1>0, <2>1, <2>2
  <2> QED BY <1>0, <2>1, <2>2, <2>3, <2>4, MoveOrder
<1>3. CASE InterfaceSend
  <2> PICK t : t = Head(line["interface"])
    OBVIOUS
  <2> PICK item : item = "interface"
    OBVIOUS
  <2> PICK next : next = "device"
    OBVIOUS
  <2>1. /\ item \in Items /\ next \in Items /\ item # next /\ next # "regfile"
        /\ Stage(next) < Stage(item)
    BY Stages DEF Items
  <2>2. /\ line[item] # <<>> /\ line' = [line EXCEPT ![item] = Tail(@), ![next] = Append(@, t)]
        /\ t = Head(line[item])
    BY <1>3 DEF InterfaceSend, Handed
  <2>3. \A i \in Items \ {item} : ~(Stage(next) < Stage(i) /\ Stage(i) <= Stage(item))
    BY Stages DEF Items
  <2>4. /\ line'[item] = Tail(line[item]) /\ line'[next] = Append(line[next], t)
        /\ \A i \in Items \ {item, next} : line'[i] = line[i]
    BY <1>0, <2>1, <2>2
  <2> QED BY <1>0, <2>1, <2>2, <2>3, <2>4, MoveOrder
<1>4. ASSUME NEW item \in {"memory", "device"}, line[item] # <<>>, line' = [line EXCEPT ![item] = Tail(@)]
      PROVE  PostsOutside' /\ AheadKept
  <2>1. /\ item \in Items /\ line'[item] = Tail(line[item])
        /\ \A i \in Items \ {item} : line'[i] = line[i]
    BY <1>0, <1>4 DEF Items
  <2> QED BY <1>0, <1>4, <2>1, LeaveOrder
<1>5. CASE MemoryRun \/ Device
  <2>1. CASE MemoryRun
    <3>1. line["memory"] # <<>> /\ line' = [line EXCEPT !["memory"] = Tail(@)]
      BY <2>1 DEF MemoryRun
    <3> QED BY <1>4, <3>1
  <2>2. CASE Device
    <3>1. line["device"] # <<>> /\ line' = [line EXCEPT !["device"] = Tail(@)]
      BY <2>2 DEF Device
    <3> QED BY <1>4, <3>1
  <2> QED BY <1>5, <2>1, <2>2
<1>6. CASE InterfaceReceive \/ \E t \in Tasks : CallBack(t)
  <2>1. line' = line
    BY <1>6 DEF InterfaceReceive, CallBack
  <2> QED BY <2>1, LinesStay
<1> QED BY <1>2, <1>3, <1>5, <1>6 DEF BusStep

(* A task that is kept still waits, and one that is served does not.          *)
LEMMA KeptWaits ==
  ASSUME Sound, NEW s \in Tasks, Waits(s), Keeps(s)
  PROVE  Waits(s)'
<1>1. PICK a, w, d : Valid(a, w, d) /\ Is(s, a, w, d)
  BY DEF Sound
<1>2. a \in Int /\ Asks(s, a, w, d)
  BY <1>1, RegisterFacts DEF Valid, Asks
<1>3. Asks(s, a, w, d)'
  BY <1>2 DEF Keeps
<1> QED BY <1>3 DEF Asks

LEMMA ServedWaitsNot ==
  ASSUME Sound, BusInv', NEW t \in Tasks, Serves(t)
  PROVE  ~Waits(t)'
<1>1. PICK a, w, d : Valid(a, w, d) /\ Is(t, a, w, d)
  BY DEF Sound, Serves
<1>2. \E v : OnWay(t, v)' \/ Got(t, v)'
  BY <1>1 DEF Serves
<1> QED BY <1>2, NextAnsweredDoNotWait

(* The request that is served is ahead of all that wait.                      *)
LEMMA ServedFirst ==
  ASSUME Powers, Width # 0, BusInv, Sound, BusStep, BusInv', NEW t \in Tasks, Serves(t),
         NEW s \in Tasks, s # t, Waits(s)
  PROVE  Ahead(t, s)
<1>0. Waits(t) /\ ~Waits(t)'
  BY ServedWaitsNot DEF Serves
<1>1. ~Moves
  BY <1>0, KeptWaits DEF Moves
<1>2. ~(\E r \in Tasks : CallBack(r))
  <2> SUFFICES ASSUME NEW r \in Tasks, CallBack(r) PROVE FALSE
    OBVIOUS
  <2>1. Answers(r)
    BY CallBackStep
  <2>2. r # t /\ Keeps(t)
    BY <1>0, <2>1 DEF Answers
  <2> QED BY <1>0, <2>2, KeptWaits
<1>3. ASSUME NEW item \in {"memory", "device"}, NEW h, h = Head(line[item]), NEW g,
             line[item] # <<>>, Left(h, item, g)
      PROVE  h = t
  <2>1. item \in Items
    BY DEF Items
  <2>2. \A r \in Tasks \ {h} : Waits(r) => Waits(r)'
    BY <1>3, <2>1, Leave, Zenon DEF BusInv
  <2> QED BY <1>0, <2>2
<1>4. CASE MemoryRun
  <2> PICK h : h = Head(line["memory"])
    OBVIOUS
  <2>1. \E g : Left(h, "memory", g)
    BY <1>4 DEF MemoryRun, Committed, Left
  <2>2. line["memory"] # <<>>
    BY <1>4 DEF MemoryRun
  <2>3. h = t
    BY <1>3, <2>1, <2>2
  <2> QED BY <2>2, <2>3, FirstIsAhead
<1>5. CASE Device
  <2> PICK h : h = Head(line["device"])
    OBVIOUS
  <2>1. line["device"] # <<>>
    BY <1>5 DEF Device
  <2>2. Left(h, "device", flight[h])
    <3>1. flight' = [flight EXCEPT ![h] = flight[h]]
      BY <1>5 DEF Device, BusInv, BusTypeOK
    <3> QED BY <1>5, <3>1 DEF Device, Left
  <2>3. h = t
    BY <1>3, <2>1, <2>2
  <2> QED BY <2>1, <2>3, FirstIsAhead
<1>6. ASSUME NEW item \in {"regfile", "access"}, Multiplex(item) PROVE FALSE
  BY <1>1, <1>6, MultiplexStep
<1>7. ~InterfaceSend /\ ~InterfaceReceive
  BY <1>1, InterfaceSendStep, InterfaceReceiveStep
<1> QED BY <1>2, <1>4, <1>5, <1>6, <1>7 DEF BusStep

----------------------------------------------------------------------------
(* The tickets stay good from step to step.                                   *)
LEMMA SeenKept ==
  ASSUME NEW a \in PostAddress, NEW f, NEW g, NEW m, NEW v, mem'[a] = mem[a], Seen(f, m, a, v),
         \A s \in Posts, d \in Word : Asks(s, a, TRUE, d) => Asks(s, a, TRUE, d)' /\ g[s] = f[s],
         \A s \in Posts, d \in Word : Asks(s, a, TRUE, d)' => Asks(s, a, TRUE, d) \/ ~(g[s] < m)
  PROVE  Seen(g, m, a, v)'
<1>1. CASE v = mem[a] /\ \A q \in Posts, d \in Word : Asks(q, a, TRUE, d) => ~(f[q] < m)
  <2>1. \A q \in Posts, d \in Word : Asks(q, a, TRUE, d)' => ~(g[q] < m)
    BY <1>1
  <2>2. v = mem'[a]
    BY <1>1
  <2> QED BY <2>1, <2>2 DEF Seen
<1>2. ASSUME NEW q \in Posts, v \in Word, Asks(q, a, TRUE, v), f[q] < m,
             \A p \in Posts, d \in Word : Asks(p, a, TRUE, d) /\ f[p] < m => f[p] <= f[q]
      PROVE  Seen(g, m, a, v)'
  <2>1. Asks(q, a, TRUE, v)' /\ g[q] = f[q]
    BY <1>2
  <2>2. \A p \in Posts, d \in Word : Asks(p, a, TRUE, d)' /\ g[p] < m => g[p] <= g[q]
    BY <1>2, <2>1
  <2> QED BY <1>2, <2>1, <2>2 DEF Seen
<1> QED BY <1>1, <1>2 DEF Seen

LEMMA PromiseKept ==
  ASSUME Powers, Width # 0, BusInv, BusInv', NEW f, NEW g, NEW s \in Posts,
         PostOK(s), Keeps(s), expected'[s] = expected[s], g[s] = f[s], Promised(f, s),
         \A a \in PostAddress : \A v : Seen(f, f[s], a, v) => Seen(g, f[s], a, v)'
  PROVE  Promised(g, s)'
<1> PICK v : v = expected[s]
  OBVIOUS
<1>1. /\ \A a \in PostAddress, d \in Word : Asks(s, a, TRUE, d)' => Asks(s, a, TRUE, d)
      /\ \A a \in PostAddress, d \in Word \cup {None} : Asks(s, a, FALSE, d)' =>
              \E e \in Word \cup {None} : Asks(s, a, FALSE, e)
      /\ \A x \in Word \cup {X} : OnWay(s, x)' => OnWay(s, x)
      /\ \A x \in Word \cup {None} : Got(s, x)' => Got(s, x)
  BY KeptBack DEF SameAsked
<1>2. ASSUME NEW a \in PostAddress, NEW d \in Word \cup {None}, Asks(s, a, FALSE, d)'
      PROVE  Seen(g, g[s], a, v)'
  <2>1. Seen(f, f[s], a, v)
    BY <1>1, <1>2 DEF Promised
  <2> QED BY <2>1
<1>3. \A a \in PostAddress, d \in Word : Asks(s, a, TRUE, d)' => v = None
  BY <1>1 DEF Promised
<1>4. v # None => /\ \A x \in Word \cup {X} : OnWay(s, x)' => x = v
                  /\ \A x \in Word \cup {None} : Got(s, x)' => x = Told(v)
  BY <1>1 DEF Promised
<1>5. v = expected'[s]
  OBVIOUS
<1> QED BY <1>2, <1>3, <1>4, <1>5 DEF Promised, Told

(* A step that serves no task that writes.                                    *)
LEMMA TicketsKept ==
  ASSUME Powers, Width # 0, BusInv, BusInv', AheadKept, NEW f, NEW n, Tickets(f, n),
         \A a \in PostAddress : mem'[a] = mem[a],
         \A s \in Posts : SameAsked(s),
         \A s \in Posts : \/ Promised(f, s)'
                          \/ PostOK(s) /\ Keeps(s) /\ expected'[s] = expected[s],
         last' = last
  PROVE  Tickets(f, n)'
<1>1. Ticketed(f, n)'
  BY DEF Ticketed, Tickets, AheadKept
<1>2. \A m, v : \A a \in PostAddress : Seen(f, m, a, v) => Seen(f, m, a, v)'
  BY SeenKept DEF SameAsked
<1>3. \A a \in PostAddress : Seen(f, n, a, last[a])'
  <2> TAKE a \in PostAddress
  <2> PICK v : v = last[a]
    OBVIOUS
  <2>1. Seen(f, n, a, v)'
    BY <1>2 DEF Tickets
  <2> QED BY <2>1
<1>4. ASSUME NEW s \in Posts PROVE Promised(f, s)'
  <2>1. Promised(f, s)
    BY DEF Tickets
  <2>2. \A a \in PostAddress : \A v : Seen(f, f[s], a, v) => Seen(f, f[s], a, v)'
    BY <1>2
  <2> QED BY <2>1, <2>2, PromiseKept
<1> QED BY <1>1, <1>3, <1>4 DEF Tickets

(* An answer comes to a task.                                                 *)
LEMMA AnswerTickets ==
  ASSUME Powers, Width # 0, BusInv, BusInv', AheadKept, NEW f, NEW n, Tickets(f, n),
         NEW t \in Posts, Answers(t), \A s \in Posts : PostOK(s),
         last' = last, expected' = expected
  PROVE  Tickets(f, n)'
<1>1. /\ ~Waits(t) /\ mem' = mem /\ flight[t] # None
      /\ \A s \in Posts \ {t} : Keeps(s)
      /\ \A v : OnWay(t, v) => Got(t, Told(v))'
      /\ \A v : ~Got(t, v)
  BY RegisterFacts DEF Answers, Told
<1>2. PICK v \in Word \cup {X} : OnWay(t, v)
  BY <1>1 DEF PostOK, Asks
<1>3. Got(t, Told(v))'
  BY <1>1, <1>2
<1>4. ~Waits(t)' /\ \A x : ~OnWay(t, x)' /\ (Got(t, x)' => x = Told(v))
  BY <1>3, NextAnsweredDoNotWait, NextAnswerIsOne
<1>5. Promised(f, t)'
  <2>1. Promised(f, t)
    BY DEF Tickets
  <2>2. expected[t] # None => v = expected[t]
    BY <1>2, <2>1 DEF Promised
  <2> QED BY <1>4, <2>2 DEF Promised, Asks, Told
<1>6. \A s \in Posts : SameAsked(s)
  <2>1. SameAsked(t)
    BY <1>1, <1>4 DEF SameAsked, Asks
  <2> QED BY <1>1, <2>1, KeptBack
<1> QED BY <1>1, <1>5, <1>6, TicketsKept

(* A task goes on with its answer.                                            *)
LEMMA EndTickets ==
  ASSUME Powers, Width # 0, BusInv, BusInv', AheadKept, NEW f, NEW n, Tickets(f, n),
         NEW t \in Posts, ~Waits(t), flight'[t] = None, expected'[t] = None,
         \A s \in Posts : PostOK(s),
         \A s \in Posts \ {t} : Keeps(s) /\ expected'[s] = expected[s],
         mem' = mem, last' = last
  PROVE  Tickets(f, n)'
<1>1. ~Waits(t)'
  BY DEF Waits
<1>2. Promised(f, t)'
  BY <1>1 DEF Promised, Asks
<1>3. \A s \in Posts : SameAsked(s)
  <2>1. SameAsked(t)
    BY <1>1 DEF SameAsked, Asks
  <2> QED BY <2>1, KeptBack
<1> QED BY <1>2, <1>3, TicketsKept

(* The memory serves a task, which is ahead of the others.                    *)
LEMMA ServeTickets ==
  ASSUME Powers, Width # 0, BusInv, BusInv', AheadKept, NEW f, NEW n, Tickets(f, n),
         NEW t \in Posts, Serves(t), Sound,
         \A s \in Posts : PostOK(s),
         \A s \in Posts \ {t} : Waits(s) => Ahead(t, s),
         last' = last, expected' = expected
  PROVE  Tickets(f, n)'
<1>0. /\ mem \in [Address -> Word \cup {X}] /\ (target = "memory" => mem \in [Address -> Word])
      /\ Waits(t) /\ t \in Tasks /\ X \notin Word /\ None \notin Word
      /\ f \in [Posts -> Nat] /\ n \in Nat /\ (\A s \in Posts : f[s] < n)
      /\ \A s \in Posts : Promised(f, s)
  <2>1. X \notin Word /\ None \notin Word
    BY BusAssumption DEF Word
  <2> QED BY <2>1, RegisterFacts DEF BusInv, BusTypeOK, Serves, Tickets, Ticketed
<1>1. \A s \in Posts \ {t} : Keeps(s) /\ (Waits(s) => f[t] < f[s])
  BY RegisterFacts DEF Serves, Tickets, Ticketed
<1>2. PICK b \in PostAddress, w \in BOOLEAN, e \in Word \cup {None} : (w => e \in Word) /\ Asks(t, b, w, e)
  <2>1. flight[t] # None /\ \A v : ~OnWay(t, v) /\ ~Got(t, v)
    BY <1>0, AnsweredDoNotWait DEF Waits
  <2> QED BY <2>1 DEF PostOK
<1>3. Valid(b, w, e) /\ Is(t, b, w, e) /\ b \in Address
  BY <1>2, PostAddresses DEF Valid, Asks
<1>4. /\ mem' = IF w THEN [mem EXCEPT ![b] = e] ELSE mem
      /\ OnWay(t, IF w THEN 0 ELSE mem[b])' \/ (target = "memory" /\ Got(t, IF w THEN 0 ELSE mem[b])')
  BY <1>3 DEF Serves
<1>5. ~Waits(t)'
  BY <1>0, ServedWaitsNot
<1>6. \A s \in Posts \ {t} : SameAsked(s)
  BY <1>1, KeptBack
<1>7. \A a \in PostAddress, d \in Word : Asks(t, a, TRUE, d) => a = b /\ w = TRUE /\ d = e
  BY <1>2, <1>3, AskedNow, PostAddresses
<1>8. CASE ~w
  <2> PICK v : v = expected[t]
    OBVIOUS
  <2>1. mem' = mem
    BY <1>4, <1>8
  <2>2. SameAsked(t)
    BY <1>5, <1>7, <1>8 DEF SameAsked, Asks
  <2>3. v = mem[b]
    <3>1. Seen(f, f[t], b, v)
      BY <1>0, <1>2, <1>8 DEF Promised
    <3>2. \A q \in Posts, d \in Word : Asks(q, b, TRUE, d) => ~(f[q] < f[t])
      <4> SUFFICES ASSUME NEW q \in Posts, NEW d \in Word, Asks(q, b, TRUE, d), f[q] < f[t] PROVE FALSE
        OBVIOUS
      <4>1. q # t /\ Waits(q) /\ f[q] \in Nat /\ f[t] \in Nat
        BY <1>0, <1>7, <1>8 DEF Asks
      <4> QED BY <1>1, <4>1
    <3> QED BY <3>1, <3>2 DEF Seen
  <2>4. OnWay(t, v)' \/ Got(t, Told(v))'
    <3>1. target = "memory" => Told(v) = v
      BY <1>0, <1>3, <2>3 DEF Told
    <3>2. v = mem'[b]
      BY <2>1, <2>3
    <3>3. OnWay(t, mem[b])' \/ (target = "memory" /\ Got(t, mem[b])')
      BY <1>4, <1>8
    <3> QED BY <3>1, <3>2, <3>3
  <2>5. Promised(f, t)'
    <3>1. \A x : (OnWay(t, x)' => x = v) /\ (Got(t, x)' => x = Told(v))
      BY <2>4, NextAnswerIsOne
    <3> QED BY <1>5, <3>1 DEF Promised, Asks, Told
  <2> QED BY <1>1, <1>6, <2>1, <2>2, <2>5, TicketsKept
<1>9. CASE w
  <2>1. /\ e \in Word /\ expected[t] = None /\ mem'[b] = e
        /\ \A a \in PostAddress \ {b} : mem'[a] = mem[a]
    <3>1. e \in Word /\ mem' = [mem EXCEPT ![b] = e] /\ Asks(t, b, TRUE, e)
      BY <1>2, <1>4, <1>9
    <3>2. expected[t] = None
      BY <1>0, <3>1 DEF Promised
    <3>3. mem'[b] = e /\ \A a \in PostAddress \ {b} : mem'[a] = mem[a]
      BY <1>0, <1>3, <3>1, PostAddresses
    <3> QED BY <3>1, <3>2, <3>3
  <2>2. ASSUME NEW a \in PostAddress, NEW m \in Nat, f[t] < m, NEW v, Seen(f, m, a, v)
        PROVE  Seen(f, m, a, v)'
    <3>1. CASE a # b
      <4>1. \A d \in Word : ~Asks(t, a, TRUE, d) /\ ~Asks(t, a, TRUE, d)'
        BY <1>5, <1>7, <3>1 DEF Asks
      <4>2. \A s \in Posts, d \in Word : Asks(s, a, TRUE, d) <=> Asks(s, a, TRUE, d)'
        BY <1>6, <4>1 DEF SameAsked
      <4> QED BY <2>1, <2>2, <3>1, <4>2, SeenKept
    <3>2. CASE a = b
      <4>1. Asks(t, b, TRUE, e)
        BY <1>2, <1>9
      <4>2. PICK q \in Posts :
              /\ v \in Word /\ Asks(q, b, TRUE, v) /\ f[q] < m
              /\ \A p \in Posts, d \in Word : Asks(p, b, TRUE, d) /\ f[p] < m => f[p] <= f[q]
        BY <2>1, <2>2, <3>2, <4>1 DEF Seen
      <4>3. \A p \in Posts, d \in Word : Asks(p, b, TRUE, d)' => p # t /\ Asks(p, b, TRUE, d) /\ f[t] < f[p]
        BY <1>1, <1>5, <1>6 DEF SameAsked, Asks
      <4>4. CASE q = t
        <5>1. v = mem'[b]
          BY <1>7, <2>1, <4>2, <4>4
        <5>2. \A p \in Posts, d \in Word : Asks(p, b, TRUE, d)' => ~(f[p] < m)
          <6> SUFFICES ASSUME NEW p \in Posts, NEW d \in Word, Asks(p, b, TRUE, d)', f[p] < m PROVE FALSE
            OBVIOUS
          <6>1. f[p] <= f[t] /\ f[t] < f[p] /\ f[p] \in Nat /\ f[t] \in Nat
            BY <1>0, <4>2, <4>3, <4>4
          <6> QED BY <6>1
        <5> QED BY <3>2, <5>1, <5>2 DEF Seen
      <4>5. CASE q # t
        <5>1. Asks(q, b, TRUE, v)'
          BY <1>6, <4>2, <4>5 DEF SameAsked
        <5>2. \A p \in Posts, d \in Word : Asks(p, b, TRUE, d)' /\ f[p] < m => f[p] <= f[q]
          BY <4>2, <4>3
        <5> QED BY <3>2, <4>2, <5>1, <5>2 DEF Seen
      <4> QED BY <4>4, <4>5
    <3> QED BY <3>1, <3>2
  <2>3. Ticketed(f, n)'
    BY DEF Ticketed, Tickets, AheadKept
  <2>4. \A a \in PostAddress : Seen(f, n, a, last[a])'
    <3> TAKE a \in PostAddress
    <3> PICK v : v = last[a]
      OBVIOUS
    <3>1. Seen(f, n, a, v)'
      BY <1>0, <2>2 DEF Tickets
    <3> QED BY <3>1
  <2>5. ASSUME NEW s \in Posts PROVE Promised(f, s)'
    <3>1. CASE s = t
      BY <1>5, <2>1, <3>1 DEF Promised, Asks
    <3>2. CASE s # t /\ Waits(s)
      <4>1. f[s] \in Nat /\ f[t] < f[s] /\ Promised(f, s)
        BY <1>0, <1>1, <3>2
      <4>2. \A a \in PostAddress : \A v : Seen(f, f[s], a, v) => Seen(f, f[s], a, v)'
        BY <2>2, <4>1
      <4> QED BY <1>1, <3>2, <4>1, <4>2, PromiseKept
    <3>3. CASE s # t /\ ~Waits(s)
      <4>1. /\ \A a \in PostAddress, d \in Word \cup {None} : ~Asks(s, a, FALSE, d)'
            /\ \A a \in PostAddress, d \in Word : ~Asks(s, a, TRUE, d)'
            /\ \A v \in Word \cup {X} : OnWay(s, v)' => OnWay(s, v)
            /\ \A v \in Word \cup {None} : Got(s, v)' => Got(s, v)
        <5>1. Keeps(s) /\ PostOK(s) /\ SameAsked(s)
          BY <1>1, <1>6, <3>3
        <5>2. \A a, x, d : ~Asks(s, a, x, d)
          BY <3>3 DEF Asks
        <5> QED BY <5>1, <5>2, KeptBack DEF SameAsked
      <4>2. Promised(f, s)
        BY <1>0
      <4> QED BY <4>1, <4>2 DEF Promised, Told
    <3> QED BY <3>1, <3>2, <3>3
  <2> QED BY <2>3, <2>4, <2>5 DEF Tickets
<1> QED BY <1>8, <1>9

(* A task posts a request, and gets the next ticket.                          *)
LEMMA PostTickets ==
  ASSUME Powers, Width # 0, BusInv, BusInv', NEW f, NEW n, Tickets(f, n),
         NEW t \in Posts, NEW a \in PostAddress, NEW w \in BOOLEAN, NEW d, w => d \in Word, ~w => d = None,
         flight[t] = None, Asks(t, a, w, d)',
         \A s \in Posts : PostOK(s),
         \A s \in Posts \ {t} : Keeps(s) /\ expected'[s] = expected[s],
         \A s, p \in Posts : Ahead(s, p)' => s # t /\ (p = t \/ Ahead(s, p)),
         mem' = mem, last \in [Address -> Word \cup {X}],
         last' = (IF w THEN [last EXCEPT ![a] = d] ELSE last),
         expected'[t] = (IF w THEN None ELSE last[a]),
         NEW g, g = [f EXCEPT ![t] = n], NEW next, next = n + 1
  PROVE  Tickets(g, next)'
<1>0. /\ f \in [Posts -> Nat] /\ n \in Nat /\ (\A s \in Posts : f[s] < n)
      /\ \A s \in Posts : Promised(f, s)
      /\ \A x \in PostAddress : Seen(f, n, x, last[x])
  BY DEF Tickets, Ticketed
<1>1. g \in [Posts -> Nat] /\ g[t] = n /\ \A s \in Posts \ {t} : g[s] = f[s]
  BY <1>0
<1>2. Valid(a, w, d)
  BY PostAddresses DEF Valid
<1>3. \A x \in PostAddress, e \in Word : ~Asks(t, x, TRUE, e)
  BY DEF Asks, Waits
<1>4. \A x \in PostAddress, e \in Word : Asks(t, x, TRUE, e)' => x = a /\ w = TRUE /\ e = d
  BY <1>2, AskedNext, PostAddresses
<1>5. \A s \in Posts \ {t} : SameAsked(s)
  BY KeptBack
<1>6. Ticketed(g, next)'
  <2>1. \A s \in Posts : g[s] < next
    BY <1>0, <1>1
  <2>2. ASSUME NEW s \in Posts, NEW p \in Posts, Ahead(s, p)' PROVE g[s] < g[p]
    <3>1. s # t /\ (p = t \/ Ahead(s, p))
      BY <2>2
    <3>2. Ahead(s, p) => f[s] < f[p]
      BY DEF Tickets, Ticketed
    <3>3. CASE p = t
      BY <1>0, <1>1, <3>1, <3>3
    <3>4. CASE p # t
      BY <1>1, <3>1, <3>2, <3>4
    <3> QED BY <3>3, <3>4
  <2> QED BY <1>0, <1>1, <2>1, <2>2 DEF Ticketed
(* Who has a ticket before sees what was to be seen.                          *)
<1>7. \A x \in PostAddress, m \in Nat : m <= n => \A v : Seen(f, m, x, v) => Seen(g, m, x, v)'
  <2> SUFFICES ASSUME NEW x \in PostAddress, NEW m \in Nat, m <= n, NEW v, Seen(f, m, x, v)
               PROVE  Seen(g, m, x, v)'
    OBVIOUS
  <2>1. \A s \in Posts, e \in Word : Asks(s, x, TRUE, e) => Asks(s, x, TRUE, e)' /\ g[s] = f[s]
    BY <1>1, <1>3, <1>5 DEF SameAsked
  <2>2. \A s \in Posts, e \in Word : Asks(s, x, TRUE, e)' => Asks(s, x, TRUE, e) \/ ~(g[s] < m)
    <3>1. ~(g[t] < m)
      BY <1>0, <1>1
    <3> QED BY <1>5, <3>1 DEF SameAsked
  <2>3. mem'[x] = mem[x]
    OBVIOUS
  <2> QED BY <2>1, <2>2, <2>3, SeenKept
<1>8. \A x \in PostAddress : \A v : Seen(f, n, x, v) => Seen(g, n, x, v)'
  <2>1. n \in Nat /\ n <= n
    BY <1>0
  <2> QED BY <1>7, <2>1, Zenon
<1>9. ASSUME NEW x \in PostAddress PROVE Seen(g, next, x, last[x])'
  <2> PICK v : v = last'[x]
    OBVIOUS
  <2>1. x \in Address
    BY PostAddresses
  <2>2. CASE w /\ x = a
    <3>1. v = d /\ v \in Word /\ Asks(t, x, TRUE, v)'
      BY <2>1, <2>2
    <3>2. \A p \in Posts : g[p] <= g[t] /\ g[t] < next
      BY <1>0, <1>1
    <3>3. Seen(g, next, x, v)'
      BY <3>1, <3>2 DEF Seen
    <3> QED BY <3>3
  <2>3. CASE ~(w /\ x = a)
    <3>1. v = last[x]
      BY <2>1, <2>3
    <3>2. \A s \in Posts, e \in Word : Asks(s, x, TRUE, e)' => Asks(s, x, TRUE, e) /\ s # t
      BY <1>4, <1>5, <2>3 DEF SameAsked
    <3>3. Seen(g, n, x, v)'
      <4>1. Seen(f, n, x, v)
        BY <1>0, <3>1
      <4> QED BY <1>8, <4>1
    <3>4. \A s \in Posts \ {t} : g[s] < n /\ g[s] < next
      BY <1>0, <1>1
    <3>5. CASE v = mem'[x] /\ \A q \in Posts, e \in Word : Asks(q, x, TRUE, e)' => ~(g[q] < n)
      <4>1. \A q \in Posts, e \in Word : ~Asks(q, x, TRUE, e)'
        BY <3>2, <3>4, <3>5
      <4> QED BY <3>5, <4>1 DEF Seen
    <3>6. ASSUME NEW q \in Posts, v \in Word, Asks(q, x, TRUE, v)', g[q] < n,
                 \A p \in Posts, e \in Word : Asks(p, x, TRUE, e)' /\ g[p] < n => g[p] <= g[q]
          PROVE  Seen(g, next, x, v)'
      <4>1. g[q] < next /\ \A p \in Posts, e \in Word : Asks(p, x, TRUE, e)' => g[p] <= g[q]
        BY <3>2, <3>4, <3>6
      <4> QED BY <3>6, <4>1 DEF Seen
    <3>7. Seen(g, next, x, v)'
      BY <3>3, <3>5, <3>6 DEF Seen
    <3> QED BY <3>7
  <2> QED BY <2>2, <2>3
<1>10. ASSUME NEW s \in Posts PROVE Promised(g, s)'
  <2>1. CASE s # t
    <3>1. Promised(f, s) /\ g[s] = f[s] /\ f[s] \in Nat /\ f[s] <= n
      BY <1>0, <1>1, <2>1
    <3>2. \A x \in PostAddress : \A v : Seen(f, f[s], x, v) => Seen(g, f[s], x, v)'
      BY <1>7, <3>1
    <3> QED BY <2>1, <3>1, <3>2, PromiseKept
  <2>2. CASE s = t
    <3> PICK v : v = expected'[t]
      OBVIOUS
    <3>1. \A x : ~OnWay(t, x)' /\ ~Got(t, x)'
      BY NextAnsweredDoNotWait DEF Asks
    <3>2. \A x \in PostAddress, e \in Word : Asks(t, x, TRUE, e)' => v = None
      BY <1>4
    <3>3. ASSUME NEW x \in PostAddress, NEW e \in Word \cup {None}, Asks(t, x, FALSE, e)'
          PROVE  Seen(g, n, x, v)'
      <4>1. x = a /\ ~w
        BY <1>2, <3>3, AskedNext, PostAddresses
      <4>2. Seen(f, n, x, v)
        BY <1>0, <4>1
      <4> QED BY <1>8, <4>2
    <3> QED BY <1>1, <2>2, <3>1, <3>2, <3>3 DEF Promised
  <2> QED BY <2>1, <2>2
<1> QED BY <1>6, <1>9, <1>10 DEF Tickets

----------------------------------------------------------------------------
LEMMA AnswerInit ==
  ASSUME Powers, WordsFit, Init
  PROVE  AnswerInv
<1>1. BusInv /\ mem \in [Address -> Word \cup {X}]
  BY InitOK DEF RegfileInv, BusInv, BusTypeOK
<1>2. /\ \A t \in Posts : flight[t] = None
      /\ \A i \in Items : DOMAIN line[i] = {}
      /\ last = mem /\ expected = [t \in Posts |-> None]
  <2>1. /\ \A t \in Posts : flight[t] = None
        /\ \A i \in Items : line[i] = <<>>
        /\ last = mem /\ expected = [t \in Posts |-> None]
    BY RegisterFacts DEF Init, BusInit
  <2> QED BY <2>1
<1>3. PostsOutside
  BY <1>2 DEF PostsOutside, Items
<1>4. \A s, t : ~Ahead(s, t)
  BY <1>2 DEF Ahead
<1>5. \A t \in Posts : \A a, w, d : ~Asks(t, a, w, d)
  BY <1>2 DEF Asks, Waits
<1> PICK f : f = [t \in Posts |-> 0]
  OBVIOUS
<1>6. Tickets(f, 1)
  <2>1. Ticketed(f, 1)
    BY <1>4 DEF Ticketed
  <2>2. \A a \in PostAddress : Seen(f, 1, a, last[a])
    BY <1>2, <1>5 DEF Seen
  <2>3. \A t \in Posts : Promised(f, t)
    BY <1>2, <1>5 DEF Promised
  <2> QED BY <2>1, <2>2, <2>3 DEF Tickets
<1> QED BY <1>1, <1>2, <1>3, <1>6 DEF AnswerInv

(* A user sends one request, to the register file, or none.                   *)
LEMMA UserLine ==
  ASSUME NEW u \in Users, UserStep(u)
  PROVE  line' = line \/ line' = [line EXCEPT !["regfile"] = Append(@, u)]
<1> DEFINE Sends == line' = line \/ line' = [line EXCEPT !["regfile"] = Append(@, u)]
<1>1. \A c, v : Rests(u, c, v) => Sends
  BY DEF Rests
<1>2. \A r, w, d, step : Awaits(u, r, w, d, step) => Sends
  BY DEF Awaits, Sent
<1>3. \A r, value, goal, c, v : Write(u, r, value, goal, c, v) => Sends
  <2>1. \A r, value, c, v : Pushes(u, r, value, c, v) => Sends
    BY <1>2 DEF Pushes
  <2>2. ASSUME NEW r, NEW value, NEW goal, NEW c, NEW v, Write(u, r, value, goal, c, v)
        PROVE  Sends
    <3>1. (\E p, q : Rests(u, p, q)) \/ \E p, q : Pushes(u, r, value, p, q)
      BY <2>2 DEF Write
    <3> HIDE DEF Sends
    <3> QED BY <1>1, <2>1, <3>1
  <2> HIDE DEF Sends
  <2> QED BY <2>2
<1>4. \A r, use, val, c, v : Use(u, r, use, val, c, v) => Sends
  BY <1>1, <1>3 DEF Use
<1>5. \A todo : Releasing(u, todo) => Sends
  BY <1>1, <1>2 DEF Releasing
<1> HIDE DEF Sends
<1>6. \A r, use, invalid : Read(u, r, use, invalid) => Sends
  BY <1>2, <1>4 DEF Read
<1>7. \A r, value : WriteWord(u, r, value) => Sends
  BY <1>3 DEF WriteWord
<1>8. (\E r : Invalidate(u, r)) \/ (\E lockRead : Hold(u, lockRead)) => Sends
  BY DEF Invalidate, Hold, busVars, Sends
<1>9. Release(u) \/ GoesOn(u) => Sends
  BY <1>1, <1>4, <1>5 DEF Release, GoesOn, Fetched, Pushed, ReleasedOne
<1>10. Sends
  BY <1>6, <1>7, <1>8, <1>9 DEF UserStep
<1> QED BY <1>10 DEF Sends

LEMMA AnswerUser ==
  ASSUME Powers, WordsFit, ResetsApart, RegfileInv, AnswerInv, NEW u \in Users, UserAction(UserStep(u))
  PROVE  AnswerInv'
<1>1. UserStep(u) /\ Watched /\ last' = last /\ expected' = expected
  BY DEF UserAction
<1>2. BusInv /\ BusInv' /\ mem' = mem /\ Width # 0 /\ \A s \in Tasks \ {u} : Keeps(s)
  BY <1>1, UserKeeps DEF RegfileInv, WordsFit
<1>3. PostsOutside /\ BusTypeOK /\ u \in Tasks /\ u \notin Posts
  BY <1>2, RegisterFacts, BusAssumption DEF AnswerInv, BusInv
<1>4. PostsOutside' /\ AheadKept
  <2>1. CASE line' = line
    BY <1>3, <2>1, LinesStay
  <2>2. CASE line' = [line EXCEPT !["regfile"] = Append(@, u)]
    BY <1>3, <2>2, EnterOrder DEF AheadKept
  <2> QED BY <1>1, <2>1, <2>2, UserLine
<1>5. \A s \in Posts : PostOK(s) /\ Keeps(s) /\ SameAsked(s)
  <2>1. \A s \in Posts : PostOK(s) /\ Keeps(s)
    BY <1>2, <1>3, RegisterFacts DEF RegfileInv
  <2> QED BY <1>2, <2>1, KeptBack
<1>6. PICK f, n : Tickets(f, n)
  BY DEF AnswerInv
<1>7. Tickets(f, n)'
  BY <1>1, <1>2, <1>4, <1>5, <1>6, TicketsKept
<1> QED BY <1>1, <1>4, <1>7 DEF AnswerInv

LEMMA AnswerPost ==
  ASSUME Powers, WordsFit, RegfileInv, AnswerInv, NEW t \in Posts, PostAction(PostStep(t))
  PROVE  AnswerInv'
<1>1. PostStep(t) /\ Frame /\ Watched
  BY DEF PostAction, Frame, regVars
<1>2. BusInv /\ BusInv' /\ mem' = mem /\ Width # 0 /\ BusTypeOK /\ t \in Tasks
  BY <1>1, PostKeeps, RegisterFacts DEF RegfileInv, WordsFit, BusInv
<1>3. PostsOutside /\ \A s \in Posts : PostOK(s)
  BY DEF AnswerInv, RegfileInv
<1>4. last \in [Address -> Word \cup {X}] /\ expected = [s \in Posts |-> expected[s]]
  BY DEF AnswerInv
<1>5. PICK f, n : Tickets(f, n)
  BY DEF AnswerInv
<1>6. ASSUME NEW a \in PostAddress, NEW w \in BOOLEAN, NEW d, w => d \in Word, ~w => d = None,
             Post(t, a, w, d)
      PROVE  AnswerInv'
  <2>1. /\ flight[t] = None /\ Sent(t, "access", a, w, d) /\ UNCHANGED <<target, queue, replies, mem>>
        /\ last' = IF w THEN [last EXCEPT ![a] = d] ELSE last
        /\ expected' = [expected EXCEPT ![t] = IF w THEN None ELSE last[a]]
    BY <1>6 DEF Post
  <2>2. Valid(a, w, d)
    BY <1>6, PostAddresses DEF Valid
  <2>3. Asks(t, a, w, d)' /\ \A s \in Tasks \ {t} : Keeps(s)
    BY <1>2, <2>1, <2>2, SentStep
  <2>4. PostsOutside' /\ \A s, p \in Posts : Ahead(s, p)' => s # t /\ (p = t \/ Ahead(s, p))
    <3>1. Away(t)
      BY <1>2, <2>1, AwayIs
    <3>2. line' = [line EXCEPT !["access"] = Append(@, t)]
      BY <2>1 DEF Sent
    <3> QED BY <1>2, <1>3, <3>1, <3>2, EnterOrder
  <2>5. /\ expected'[t] = IF w THEN None ELSE last[a]
        /\ \A s \in Posts \ {t} : expected'[s] = expected[s]
        /\ expected' = [s \in Posts |-> expected'[s]]
    BY <1>4, <2>1
  <2>6. last' \in [Address -> Word \cup {X}]
    BY <1>4, <1>6, <2>1
  <2>7. \A s \in Posts \ {t} : Keeps(s) /\ expected'[s] = expected[s]
    BY <2>3, <2>5, RegisterFacts
  <2> PICK g, next : g = [f EXCEPT ![t] = n] /\ next = n + 1
    OBVIOUS
  <2>8. Tickets(g, next)'
    <3>1. Width # 0 /\ BusInv /\ BusInv' /\ Tickets(f, n)
      BY <1>2, <1>5
    <3>2. (w => d \in Word) /\ (~w => d = None)
      BY <1>6
    <3>3. flight[t] = None /\ Asks(t, a, w, d)' /\ mem' = mem
      BY <2>1, <2>3
    <3>4. last \in [Address -> Word \cup {X}] /\ last' = (IF w THEN [last EXCEPT ![a] = d] ELSE last)
      BY <1>4, <2>1
    <3>5. expected'[t] = (IF w THEN None ELSE last[a])
      BY <2>5
    <3> QED BY <1>3, <2>4, <2>7, <3>1, <3>2, <3>3, <3>4, <3>5, PostTickets
  <2> QED BY <2>4, <2>5, <2>6, <2>8 DEF AnswerInv
<1>7. CASE PostEnds(t)
  <2>1. /\ Answered(t) /\ flight' = [flight EXCEPT ![t] = None]
        /\ expected' = [expected EXCEPT ![t] = None] /\ last' = last
        /\ UNCHANGED <<target, line, queue, replies, mem>>
    BY <1>7 DEF PostEnds
  <2>2. flight[t].at \notin Items
    BY <2>1 DEF Answered, Items
  <2>3. flight'[t] = None /\ \A s \in Tasks \ {t} : Keeps(s)
    BY <1>2, <2>1, <2>2, Cleared
  <2>4. PostsOutside' /\ AheadKept
    BY <1>3, <2>1, LinesStay
  <2>5. /\ expected'[t] = None
        /\ \A s \in Posts \ {t} : expected'[s] = expected[s]
        /\ expected' = [s \in Posts |-> expected'[s]]
    BY <1>4, <2>1
  <2>6. ~Waits(t)
    BY <2>2 DEF Waits
  <2>7. \A s \in Posts \ {t} : Keeps(s) /\ expected'[s] = expected[s]
    BY <2>3, <2>5, RegisterFacts
  <2>8. Tickets(f, n)'
    BY <1>2, <1>3, <1>5, <2>1, <2>3, <2>4, <2>5, <2>6, <2>7, EndTickets
  <2> QED BY <1>4, <2>1, <2>4, <2>5, <2>8 DEF AnswerInv
<1>8. ASSUME NEW a \in PostAddress, Post(t, a, FALSE, None) PROVE AnswerInv'
  <2> PICK w \in BOOLEAN : w = FALSE
    OBVIOUS
  <2>1. Post(t, a, w, None)
    BY <1>8
  <2> QED BY <1>6, <2>1
<1>9. ASSUME NEW a \in PostAddress, NEW d \in {0, 1}, Post(t, a, TRUE, d) PROVE AnswerInv'
  <2> PICK w \in BOOLEAN : w = TRUE
    OBVIOUS
  <2>1. Post(t, a, w, d) /\ d \in Word
    BY <1>2, <1>9, OneIsAWord
  <2> QED BY <1>6, <2>1
<1> QED BY <1>1, <1>7, <1>8, <1>9 DEF PostStep

(* What a user has served changes no word of the tasks of MemoryAccess.       *)
LEMMA UserServed ==
  ASSUME PostsAlone, RegfileInv, NEW u \in Users, Serves(u), NEW a \in PostAddress
  PROVE  mem'[a] = mem[a]
<1>1. Waits(u) /\ BusInv /\ mem \in [Address -> Word \cup {X}] /\ a \in Address
  BY PostAddresses DEF Serves, RegfileInv, BusInv, BusTypeOK
<1>2. flight[u] # None /\ \A v : ~OnWay(u, v) /\ ~Got(u, v)
  BY <1>1, AnsweredDoNotWait DEF Waits
<1>3. \A b, w, d : Valid(b, w, d) /\ Is(u, b, w, d) => mem' = IF w THEN [mem EXCEPT ![b] = d] ELSE mem
  BY DEF Serves
<1>4. CASE Fetches(u)
  <2>1. PICK r \in Register : Asks(u, r + Offset, FALSE, None)
    BY <1>2, <1>4 DEF Fetches
  <2>2. Valid(r + Offset, FALSE, None) /\ Is(u, r + Offset, FALSE, None)
    BY <2>1, RegisterFacts DEF Valid, Asks
  <2>3. mem' = mem
    BY <1>3, <2>2
  <2> QED BY <2>3
<1>5. CASE Writes(u)
  <2>1. PICK r \in Register, d \in Word : Writable(r) /\ Asks(u, r + Offset, TRUE, d)
    BY <1>2, <1>5 DEF Writes
  <2> PICK b : b = r + Offset
    OBVIOUS
  <2>2. Valid(b, TRUE, d) /\ Is(u, b, TRUE, d) /\ b # a /\ b \in Address
    BY <2>1, RegisterFacts DEF Valid, Asks, PostsAlone
  <2>3. mem' = [mem EXCEPT ![b] = d]
    BY <1>3, <2>2
  <2> QED BY <1>1, <2>2, <2>3
<1>6. UserOK(u)
  BY DEF RegfileInv
<1> QED BY <1>2, <1>4, <1>5, <1>6 DEF UserOK

LEMMA AnswerBus ==
  ASSUME Powers, WordsFit, PostsAlone, RegfileInv, AnswerInv, BusAction(BusStep)
  PROVE  AnswerInv'
<1>1. BusStep /\ last' = last /\ expected' = expected
  BY DEF BusAction, PostAction
<1>2. BusInv /\ Sound /\ Width # 0
  BY RequestsAreSound DEF RegfileInv, WordsFit
<1>3. BusInv' /\ (Moves \/ \E t \in Tasks : Serves(t) \/ Answers(t))
  BY <1>1, <1>2, BusEffect
<1>4. PostsOutside' /\ AheadKept
  BY <1>1, <1>2, BusOrder DEF AnswerInv
<1>5. PICK f, n : Tickets(f, n)
  BY DEF AnswerInv
<1>6. \A s \in Posts : PostOK(s) /\ s \in Tasks
  BY RegisterFacts DEF RegfileInv
<1>7. (\A a \in PostAddress : mem'[a] = mem[a]) /\ (\A s \in Posts : Keeps(s)) => Tickets(f, n)'
  <2> SUFFICES ASSUME \A a \in PostAddress : mem'[a] = mem[a], \A s \in Posts : Keeps(s)
               PROVE  Tickets(f, n)'
    OBVIOUS
  <2>1. \A s \in Posts : SameAsked(s)
    BY <1>2, <1>3, <1>6, KeptBack
  <2> QED BY <1>1, <1>2, <1>3, <1>4, <1>5, <1>6, <2>1, TicketsKept
<1>8. mem' = mem => \A a \in PostAddress : mem'[a] = mem[a]
  OBVIOUS
<1>9. Moves => Tickets(f, n)'
  BY <1>6, <1>7, <1>8 DEF Moves
<1>10. ASSUME NEW t \in Tasks, Serves(t) PROVE Tickets(f, n)'
  <2>1. CASE t \in Users
    <3>1. \A a \in PostAddress : mem'[a] = mem[a]
      BY <1>10, <2>1, UserServed
    <3>2. \A s \in Posts : Keeps(s)
      BY <1>6, <1>10, <2>1, BusAssumption DEF Serves
    <3> QED BY <1>7, <3>1, <3>2
  <2>2. CASE t \in Posts
    <3>1. \A s \in Posts \ {t} : Waits(s) => Ahead(t, s)
      BY <1>1, <1>2, <1>3, <1>6, <1>10, ServedFirst
    <3> QED BY <1>1, <1>2, <1>3, <1>4, <1>5, <1>6, <1>10, <2>2, <3>1, ServeTickets
  <2> QED BY <2>1, <2>2 DEF Tasks
<1>11. ASSUME NEW t \in Tasks, Answers(t) PROVE Tickets(f, n)'
  <2>1. CASE t \in Users
    <3>1. mem' = mem /\ \A s \in Posts : Keeps(s)
      BY <1>6, <1>11, <2>1, BusAssumption DEF Answers
    <3> QED BY <1>7, <1>8, <3>1
  <2>2. CASE t \in Posts
    BY <1>1, <1>2, <1>3, <1>4, <1>5, <1>6, <1>11, <2>2, AnswerTickets
  <2> QED BY <2>1, <2>2 DEF Tasks
<1>12. Tickets(f, n)'
  BY <1>3, <1>9, <1>10, <1>11
<1> QED BY <1>1, <1>4, <1>12 DEF AnswerInv

LEMMA AnswerStutters ==
  ASSUME Powers, WordsFit, RegfileInv, RetOK, AnswerInv, UNCHANGED vars
  PROVE  AnswerInv'
<1>1. UNCHANGED <<flight, line, queue, replies, mem, last, expected>>
  BY DEF vars, busVars
<1>2. BusInv /\ BusInv' /\ Width # 0
  BY StutterOK DEF RegfileInv, WordsFit
<1>3. PostsOutside' /\ AheadKept
  BY <1>1, LinesStay DEF AnswerInv
<1>4. \A s \in Posts : PostOK(s) /\ Keeps(s) /\ SameAsked(s)
  <2>1. ASSUME NEW s \in Posts PROVE Keeps(s)
    <3>1. Waits(s) => Waits(s)'
      BY <1>1 DEF Waits
    <3>2. \A v : OnWay(s, v) => OnWay(s, v)'
      BY <1>1 DEF OnWay
    <3>3. flight'[s] = flight[s]
      BY <1>1
    <3> QED BY <3>1, <3>2, <3>3, OthersKeep
  <2> QED BY <1>2, <2>1, KeptBack DEF RegfileInv
<1>5. PICK f, n : Tickets(f, n)
  BY DEF AnswerInv
<1>6. Tickets(f, n)'
  BY <1>1, <1>2, <1>3, <1>4, <1>5, TicketsKept
<1> QED BY <1>1, <1>3, <1>6 DEF AnswerInv

(* A read of a MemoryAccess (RequestInput.process) returns what was written   *)
(* before it was posted: requests do not overtake each other on their way,    *)
(* and answers find their requests (BitsReqToInterface.receive).              *)
THEOREM RegfileAnswersInOrder ==
  ASSUME Powers, WordsFit, ResetsApart, PostsApart, PostsAlone
  PROVE  Spec => []AnswersInOrder
<1>1. Init => RegfileInv /\ RetOK /\ AnswerInv
  BY InitOK, AnswerInit
<1>2. (RegfileInv /\ RetOK /\ AnswerInv) /\ [Next]_vars => (RegfileInv /\ RetOK /\ AnswerInv)'
  <2> SUFFICES ASSUME RegfileInv, RetOK, AnswerInv, [Next]_vars
               PROVE  RegfileInv' /\ RetOK' /\ AnswerInv'
    OBVIOUS
  <2>1. CASE Next
    <3>1. AnswerInv'
      BY <2>1, AnswerUser, AnswerPost, AnswerBus DEF Next
    <3> QED BY <2>1, <3>1, NextOK
  <2>2. CASE UNCHANGED vars
    BY <2>2, StutterOK, AnswerStutters
  <2> QED BY <2>1, <2>2
<1>3. ASSUME RegfileInv, AnswerInv PROVE AnswersInOrder
  <2> SUFFICES ASSUME NEW t \in Posts, Answered(t), expected[t] # None
               PROVE  flight[t].result = Told(expected[t])
    BY DEF AnswersInOrder, Told
  <2>1. PostOK(t) /\ flight[t] # None /\ flight[t].at = "done" /\ BusInv
    BY <1>3 DEF RegfileInv, Answered
  <2>2. ~Waits(t)
    BY <2>1 DEF Waits, Items
  <2>3. \A v : ~OnWay(t, v)
    <3>1. \A k \in DOMAIN replies : queue[k] # t
      <4>1. \A k \in DOMAIN replies : k \in DOMAIN queue
        BY <2>1, QueueFacts
      <4> QED BY <2>1, <4>1, QueueFacts
    <3> QED BY <2>1, <3>1 DEF OnWay
  <2>4. PICK v \in Word \cup {None} : Got(t, v)
    BY <2>1, <2>2, <2>3 DEF PostOK, Asks
  <2>5. v = Told(expected[t])
    BY <1>3, <2>4 DEF AnswerInv, Tickets, Promised
  <2> QED BY <2>4, <2>5 DEF Got
<1> QED BY <1>1, <1>2, <1>3, PTL DEF Spec
=============
