----------------------- MODULE SiCoConnectionsProofs -----------------------
(* Both ends of the connection, for any number of connections, messages and  *)
(* channels: what comes out of a queue went in before, in that order and     *)
(* none of it twice.                                                         *)
(*                                                                           *)
(* Messages are numbered as they are sent.  On the C++ side the invariant    *)
(* says that the places a message passes, one after the other, hold rising   *)
(* numbers.  On the Python side what is on the way are bytes, and a          *)
(* connection may be cut within a message: the bytes that are unread of a    *)
(* simulator are those of messages with rising numbers, one after the other, *)
(* the last of them perhaps cut off.  What is read as a length is then the   *)
(* length of the first of them, and the rest decodes to that message.        *)
EXTENDS SiCoConnections, SequenceTheorems, TLAPS

----------------------------------------------------------------------------
(* What is numbered comes in the order of its numbers.                        *)
Rises(s) == \A i, j \in DOMAIN s : i < j => s[i] < s[j]

Below(s, t) == \A i \in DOMAIN s, j \in DOMAIN t : s[i] < t[j]

UpTo(s, n) == \A i \in DOMAIN s : s[i] <= n

(* Lists of numbers, as functions on their positions.                         *)
LEMMA Lists ==
  ASSUME NEW S, NEW q \in Seq(S)
  PROVE  /\ Len(q) \in Nat /\ DOMAIN q = 1 .. Len(q)
         /\ \A k \in 1 .. Len(q) : q[k] \in S
         /\ q # <<>> =>
              /\ Len(q) >= 1 /\ Head(q) = q[1] /\ Head(q) \in S
              /\ Tail(q) \in Seq(S) /\ Len(Tail(q)) = Len(q) - 1
              /\ \A k \in 1 .. Len(q) - 1 : Tail(q)[k] = q[k + 1]
         /\ \A x \in S :
              /\ Append(q, x) \in Seq(S) /\ Len(Append(q, x)) = Len(q) + 1
              /\ Append(q, x)[Len(q) + 1] = x
              /\ \A k \in 1 .. Len(q) : Append(q, x)[k] = q[k]
<1>1. Len(q) \in Nat /\ DOMAIN q = 1 .. Len(q) /\ \A k \in 1 .. Len(q) : q[k] \in S
  OBVIOUS
<1>2. ASSUME q # <<>>
      PROVE  /\ Len(q) >= 1 /\ Head(q) = q[1] /\ Head(q) \in S
             /\ Tail(q) \in Seq(S) /\ Len(Tail(q)) = Len(q) - 1
             /\ \A k \in 1 .. Len(q) - 1 : Tail(q)[k] = q[k + 1]
  BY <1>2
<1>3. ASSUME NEW x \in S
      PROVE  /\ Append(q, x) \in Seq(S) /\ Len(Append(q, x)) = Len(q) + 1
             /\ Append(q, x)[Len(q) + 1] = x
             /\ \A k \in 1 .. Len(q) : Append(q, x)[k] = q[k]
  OBVIOUS
<1> QED BY <1>1, <1>2, <1>3

(* A number that is greater than all before it goes to the end of a list.     *)
LEMMA Numbered ==
  ASSUME NEW q \in Seq(Nat), NEW n \in Nat, Rises(q), UpTo(q, n), NEW r, r = Append(q, n + 1)
  PROVE  /\ r \in Seq(Nat) /\ Rises(r) /\ UpTo(r, n + 1)
         /\ \A x \in Seq(Nat) : Below(x, q) /\ UpTo(x, n) => Below(x, r)
<1>1. /\ r \in Seq(Nat) /\ DOMAIN r = 1 .. Len(q) + 1 /\ r[Len(q) + 1] = n + 1
      /\ \A k \in 1 .. Len(q) : r[k] = q[k] /\ q[k] \in Nat
      /\ DOMAIN q = 1 .. Len(q) /\ Len(q) \in Nat
  <2>1. n + 1 \in Nat
    OBVIOUS
  <2>2. r \in Seq(Nat) /\ Len(r) = Len(q) + 1
    BY <2>1, Lists
  <2>3. DOMAIN r = 1 .. Len(r)
    BY <2>2, Lists
  <2> QED BY <2>1, <2>2, <2>3, Lists
<1>2. \A k \in 1 .. Len(q) : q[k] <= n
  BY <1>1 DEF UpTo
<1>3. Rises(r) /\ UpTo(r, n + 1)
  BY <1>1, <1>2 DEF Rises, UpTo
<1>4. ASSUME NEW x \in Seq(Nat), Below(x, q), UpTo(x, n) PROVE Below(x, r)
  <2>1. \A k \in DOMAIN x : x[k] \in Nat /\ x[k] < n + 1
    BY <1>4, Lists DEF UpTo
  <2> QED BY <1>1, <1>4, <2>1 DEF Below
<1> QED BY <1>1, <1>3, <1>4

(* A number goes to the end of a list, or is taken from its front.            *)
LEMMA AppendedLast ==
  ASSUME NEW x \in Seq(Nat), NEW n \in Nat
  PROVE  /\ Append(x, n) \in Seq(Nat) /\ <<n>> \in Seq(Nat)
         /\ Rises(x) /\ Below(x, <<n>>) => Rises(Append(x, n))
         /\ \A z \in Seq(Nat) : Below(x, z) /\ Below(<<n>>, z) => Below(Append(x, n), z)
         /\ \A z \in Seq(Nat) : Below(z, x) /\ Below(z, <<n>>) => Below(z, Append(x, n))
         /\ \A m \in Nat : UpTo(x, m) /\ n <= m => UpTo(Append(x, n), m)
<1>0. PICK y, o : y = Append(x, n) /\ o = <<n>>
  OBVIOUS
<1>1. PICK k : k = Len(x)
  OBVIOUS
<1>2. /\ k \in Nat /\ DOMAIN x = 1 .. k /\ \A i \in 1 .. k : x[i] \in Nat
      /\ y \in Seq(Nat) /\ Len(y) = k + 1 /\ y[k + 1] = n /\ \A i \in 1 .. k : y[i] = x[i]
  BY <1>0, <1>1, Lists
<1>3. DOMAIN y = 1 .. k + 1
  BY <1>2, Lists
<1>4. o \in Seq(Nat) /\ DOMAIN o = {1} /\ o[1] = n
  BY <1>0
<1>5. \A i \in 1 .. k + 1 : i \in 1 .. k \/ i = k + 1
  BY <1>2
<1>6. ASSUME Rises(x), Below(x, o) PROVE Rises(y)
  <2>1. \A i, j \in 1 .. k + 1 : i < j => i \in 1 .. k
    BY <1>2
  <2>2. \A i \in 1 .. k : x[i] < n
    <3>1. \A i \in DOMAIN x, j \in DOMAIN o : x[i] < o[j]
      BY <1>6 DEF Below
    <3>2. DOMAIN x = 1 .. k /\ 1 \in DOMAIN o /\ o[1] = n
      BY <1>2, <1>4
    <3> QED BY <3>1, <3>2
  <2>3. \A i, j \in 1 .. k : i < j => x[i] < x[j]
    BY <1>2, <1>6 DEF Rises
  <2> QED BY <1>2, <1>3, <1>5, <2>1, <2>2, <2>3 DEF Rises
<1>7. ASSUME NEW z \in Seq(Nat), Below(x, z), Below(o, z) PROVE Below(y, z)
  BY <1>2, <1>3, <1>4, <1>5, <1>7 DEF Below
<1>8. ASSUME NEW z \in Seq(Nat), Below(z, x), Below(z, o) PROVE Below(z, y)
  BY <1>2, <1>3, <1>4, <1>5, <1>8 DEF Below
<1>9. ASSUME NEW m \in Nat, UpTo(x, m), n <= m PROVE UpTo(y, m)
  BY <1>2, <1>3, <1>5, <1>9 DEF UpTo
<1> QED BY <1>0, <1>2, <1>4, <1>6, <1>7, <1>8, <1>9

LEMMA TakenFirst ==
  ASSUME NEW q \in Seq(Nat), q # <<>>
  PROVE  /\ Tail(q) \in Seq(Nat) /\ <<q[1]>> \in Seq(Nat) /\ q[1] \in Nat
         /\ Rises(q) => Rises(Tail(q)) /\ Below(<<q[1]>>, Tail(q))
         /\ \A z \in Seq(Nat) : Below(q, z) => Below(<<q[1]>>, z) /\ Below(Tail(q), z)
         /\ \A z \in Seq(Nat) : Below(z, q) => Below(z, <<q[1]>>) /\ Below(z, Tail(q))
         /\ \A m \in Nat : UpTo(q, m) => UpTo(<<q[1]>>, m) /\ UpTo(Tail(q), m)
<1>0. PICK t, h : t = Tail(q) /\ h = <<q[1]>>
  OBVIOUS
<1>1. PICK k : k = Len(q)
  OBVIOUS
<1>2. /\ k \in Nat \ {0} /\ DOMAIN q = 1 .. k /\ \A i \in 1 .. k : q[i] \in Nat
      /\ t \in Seq(Nat) /\ Len(t) = k - 1 /\ \A i \in 1 .. k - 1 : t[i] = q[i + 1]
  BY <1>0, <1>1, Lists
<1>3. DOMAIN t = 1 .. k - 1 /\ 1 \in 1 .. k
  BY <1>2, Lists
<1>4. h \in Seq(Nat) /\ DOMAIN h = {1} /\ h[1] = q[1]
  BY <1>0, <1>2, <1>3
<1>5. \A i \in 1 .. k - 1 : i + 1 \in 1 .. k /\ 1 < i + 1
  BY <1>2
<1>6. ASSUME Rises(q) PROVE Rises(t) /\ Below(h, t)
  <2>1. \A i, j \in 1 .. k - 1 : i < j => i + 1 < j + 1
    BY <1>2
  <2>2. \A i, j \in 1 .. k : i < j => q[i] < q[j]
    BY <1>2, <1>6 DEF Rises
  <2>3. Rises(t)
    BY <1>2, <1>3, <1>5, <2>1, <2>2 DEF Rises
  <2>4. Below(h, t)
    BY <1>2, <1>3, <1>4, <1>5, <2>2 DEF Below
  <2> QED BY <2>3, <2>4
<1>7. ASSUME NEW z \in Seq(Nat), Below(q, z) PROVE Below(h, z) /\ Below(t, z)
  BY <1>2, <1>3, <1>4, <1>5, <1>7 DEF Below
<1>8. ASSUME NEW z \in Seq(Nat), Below(z, q) PROVE Below(z, h) /\ Below(z, t)
  BY <1>2, <1>3, <1>4, <1>5, <1>8 DEF Below
<1>9. ASSUME NEW m \in Nat, UpTo(q, m) PROVE UpTo(h, m) /\ UpTo(t, m)
  BY <1>2, <1>3, <1>4, <1>5, <1>9 DEF UpTo
<1> QED BY <1>0, <1>2, <1>3, <1>4, <1>6, <1>7, <1>8, <1>9

(* The first of a list goes to the end of another one.                        *)
LEMMA Handed ==
  ASSUME NEW q \in Seq(Nat), q # <<>>, NEW x \in Seq(Nat)
  PROVE  /\ Tail(q) \in Seq(Nat) /\ Append(x, Head(q)) \in Seq(Nat)
         /\ Rises(x) /\ Rises(q) /\ Below(x, q)
              => Rises(Tail(q)) /\ Rises(Append(x, Head(q))) /\ Below(Append(x, Head(q)), Tail(q))
         /\ \A z \in Seq(Nat) : Below(x, z) /\ Below(q, z) => Below(Append(x, Head(q)), z)
         /\ \A z \in Seq(Nat) : Below(q, z) => Below(Tail(q), z)
         /\ \A z \in Seq(Nat) : Below(z, q) => Below(z, Tail(q))
         /\ \A m \in Nat : UpTo(x, m) /\ UpTo(q, m) => UpTo(Tail(q), m) /\ UpTo(Append(x, Head(q)), m)
<1>1. PICK t, n, y, h : t = Tail(q) /\ n = Head(q) /\ y = Append(x, n) /\ h = <<n>>
  OBVIOUS
<1>2. n = q[1] /\ n \in Nat /\ t \in Seq(Nat) /\ h \in Seq(Nat)
  BY <1>1, TakenFirst
<1>3. /\ Rises(q) => Rises(t) /\ Below(h, t)
      /\ \A z \in Seq(Nat) : Below(q, z) => Below(h, z) /\ Below(t, z)
      /\ \A z \in Seq(Nat) : Below(z, q) => Below(z, h) /\ Below(z, t)
      /\ \A m \in Nat : UpTo(q, m) => UpTo(h, m) /\ UpTo(t, m)
  BY <1>1, <1>2, TakenFirst
<1>4. /\ y \in Seq(Nat)
      /\ Rises(x) /\ Below(x, h) => Rises(y)
      /\ \A z \in Seq(Nat) : Below(x, z) /\ Below(h, z) => Below(y, z)
      /\ \A m \in Nat : UpTo(x, m) /\ n <= m => UpTo(y, m)
  BY <1>1, <1>2, AppendedLast
<1>5. \A m \in Nat : UpTo(h, m) => n <= m
  <2>1. DOMAIN h = {1} /\ h[1] = n
    BY <1>1
  <2> QED BY <2>1 DEF UpTo
<1>6. ASSUME Rises(x), Rises(q), Below(x, q) PROVE Rises(t) /\ Rises(y) /\ Below(y, t)
  BY <1>2, <1>3, <1>4, <1>6
<1>7. \A m \in Nat : UpTo(x, m) /\ UpTo(q, m) => UpTo(t, m) /\ UpTo(y, m)
  BY <1>3, <1>4, <1>5
<1>8. \A z \in Seq(Nat) : Below(x, z) /\ Below(q, z) => Below(y, z)
  BY <1>3, <1>4
<1> QED BY <1>1, <1>2, <1>3, <1>4, <1>6, <1>7, <1>8

----------------------------------------------------------------------------
(* The C++ side.  The messages are numbered by who sends them.                *)
ConnTypes ==
    /\ {connectedEst, connects, pushed, sentBy} \subseteq Nat
    /\ connectedEst <= connects /\ connects <= MaxConnects /\ (peerUp => connects > 0)
    /\ {sendQueue, peerGot, recvQueue} \subseteq Seq(Nat)
    /\ toSim \in [1 .. MaxConnects -> Seq(Nat)]

(* What was popped was pushed before what is still in the queue.              *)
PushedInOrder ==
    /\ Rises(sendQueue) /\ UpTo(sendQueue, pushed)
    /\ Rises(peerGot) /\ UpTo(peerGot, pushed) /\ Below(peerGot, sendQueue)

(* What was received was sent before what is under way on the connection that *)
(* is established, or on a later one.                                         *)
SentInOrder ==
    /\ Rises(recvQueue) /\ UpTo(recvQueue, sentBy)
    /\ \A c \in 1 .. MaxConnects :
         /\ Rises(toSim[c]) /\ UpTo(toSim[c], sentBy)
         /\ c > connects => toSim[c] = <<>>
         /\ c >= connectedEst => Below(recvQueue, toSim[c])
         /\ \A d \in 1 .. MaxConnects : c < d => Below(toSim[c], toSim[d])

ConnInv == ConnTypes /\ PushedInOrder /\ SentInOrder

LEMMA ConnInit == Init => ConnInv
<1> SUFFICES ASSUME Init PROVE ConnInv
  OBVIOUS
<1>1. <<>> \in Seq(Nat) /\ DOMAIN <<>> = {}
  OBVIOUS
<1>2. \A x, n : Rises(<<>>) /\ UpTo(<<>>, n) /\ Below(<<>>, x) /\ Below(x, <<>>)
  BY <1>1 DEF Rises, UpTo, Below
<1> QED BY <1>1, <1>2, ConnectionAssumption DEF Init, ConnInv, ConnTypes, PushedInOrder, SentInOrder

LEMMA PushOrder ==
  ASSUME ConnInv, Push
  PROVE  ConnInv'
<1> USE DEF ConnInv, ConnTypes
<1>1. /\ pushed' = pushed + 1 /\ sendQueue' = Append(sendQueue, pushed + 1)
      /\ UNCHANGED <<connectedEst, connects, peerUp, sentBy, peerGot, recvQueue, toSim>>
  BY DEF Push, numbers, peerVars
<1>2. SentInOrder'
  BY <1>1 DEF SentInOrder, Rises, UpTo, Below
<1>3. sendQueue' \in Seq(Nat) /\ Rises(sendQueue') /\ UpTo(sendQueue', pushed') /\ Below(peerGot', sendQueue')
  BY <1>1, Numbered DEF PushedInOrder
<1>4. UpTo(peerGot', pushed')
  <2>1. \A i \in DOMAIN peerGot : peerGot[i] \in Nat
    BY Lists
  <2> QED BY <1>1, <2>1 DEF UpTo, PushedInOrder
<1>5. Rises(peerGot')
  BY <1>1 DEF PushedInOrder
<1>6. PushedInOrder'
  BY <1>3, <1>4, <1>5 DEF PushedInOrder, Rises, UpTo, Below
<1>7. ConnTypes'
  BY <1>1, <1>3
<1> QED BY <1>2, <1>6, <1>7

LEMMA SendOrder ==
  ASSUME ConnInv, Send
  PROVE  ConnInv'
<1> USE DEF ConnInv, ConnTypes
<1>1. /\ sendQueue # <<>> /\ sendQueue' = Tail(sendQueue)
      /\ peerGot' = Append(peerGot, Head(sendQueue)) \/ peerGot' = peerGot
      /\ UNCHANGED <<connectedEst, connects, peerUp, sentBy, pushed, recvQueue, toSim>>
  BY DEF Send, numbers
<1>2. SentInOrder'
  BY <1>1 DEF SentInOrder, Rises, UpTo, Below
<1>3. /\ sendQueue' \in Seq(Nat) /\ peerGot' \in Seq(Nat)
      /\ Rises(sendQueue') /\ UpTo(sendQueue', pushed)
      /\ Rises(peerGot') /\ UpTo(peerGot', pushed) /\ Below(peerGot', sendQueue')
  <2>1. PICK q, x, n : q = sendQueue /\ x = peerGot /\ n = pushed
    OBVIOUS
  <2>2. PICK t, y : t = Tail(q) /\ y = Append(x, Head(q))
    OBVIOUS
  <2>3. /\ q \in Seq(Nat) /\ q # <<>> /\ Rises(q) /\ UpTo(q, n) /\ n \in Nat
        /\ x \in Seq(Nat) /\ Rises(x) /\ UpTo(x, n) /\ Below(x, q)
    BY <1>1, <2>1 DEF PushedInOrder
  <2>4. /\ t \in Seq(Nat) /\ y \in Seq(Nat) /\ Rises(t) /\ UpTo(t, n)
        /\ Rises(y) /\ UpTo(y, n) /\ Below(y, t) /\ Below(x, t)
    <3>1. /\ t \in Seq(Nat) /\ y \in Seq(Nat)
          /\ Rises(x) /\ Rises(q) /\ Below(x, q) => Rises(t) /\ Rises(y) /\ Below(y, t)
          /\ \A z \in Seq(Nat) : Below(z, q) => Below(z, t)
          /\ \A m \in Nat : UpTo(x, m) /\ UpTo(q, m) => UpTo(t, m) /\ UpTo(y, m)
      BY <2>2, <2>3, Handed
    <3> QED BY <2>3, <3>1
  <2> QED BY <1>1, <2>1, <2>2, <2>3, <2>4
<1>4. PushedInOrder'
  BY <1>1, <1>3 DEF PushedInOrder
<1>5. ConnTypes'
  BY <1>1, <1>3
<1> QED BY <1>2, <1>4, <1>5

LEMMA PeerSendOrder ==
  ASSUME ConnInv, PeerSend
  PROVE  ConnInv'
<1> USE DEF ConnInv, ConnTypes
<1> PICK c \in 1 .. MaxConnects : c = connects
  BY ConnectionAssumption DEF PeerSend
<1>1. /\ sentBy' = sentBy + 1
      /\ toSim' = [toSim EXCEPT ![c] = Append(@, sentBy + 1)]
      /\ UNCHANGED <<connectedEst, connects, peerUp, pushed, sendQueue, peerGot, recvQueue>>
  BY DEF PeerSend, numbers, simQueues
<1>2. /\ toSim'[c] \in Seq(Nat) /\ Rises(toSim'[c]) /\ UpTo(toSim'[c], sentBy')
      /\ \A x \in Seq(Nat) : Below(x, toSim[c]) /\ UpTo(x, sentBy) => Below(x, toSim'[c])
  BY <1>1, Numbered DEF SentInOrder
<1>3. \A x \in Seq(Nat) : UpTo(x, sentBy) => UpTo(x, sentBy')
  <2>1. \A x \in Seq(Nat) : \A i \in DOMAIN x : i \in DOMAIN x => x[i] \in Nat
    BY Lists
  <2> QED BY <1>1, <2>1 DEF UpTo
<1>4. \A d \in 1 .. MaxConnects : d # c => toSim'[d] = toSim[d]
  BY <1>1
<1>5. toSim' \in [1 .. MaxConnects -> Seq(Nat)]
  BY <1>1, <1>2
<1>6. \A d \in 1 .. MaxConnects : c < d => Below(toSim'[c], toSim'[d])
  BY <1>4 DEF SentInOrder, Below
<1>7. ASSUME NEW d \in 1 .. MaxConnects
      PROVE  /\ Rises(toSim'[d]) /\ UpTo(toSim'[d], sentBy')
             /\ d > connects => toSim'[d] = <<>>
             /\ d >= connectedEst => Below(recvQueue, toSim'[d])
             /\ \A e \in 1 .. MaxConnects : d < e => Below(toSim'[d], toSim'[e])
  <2>1. CASE d = c
    BY <1>2, <1>6, <2>1 DEF SentInOrder
  <2>2. CASE d # c
    BY <1>2, <1>3, <1>4, <2>2 DEF SentInOrder
  <2> QED BY <2>1, <2>2
<1>8. SentInOrder'
  BY <1>1, <1>3, <1>7 DEF SentInOrder, Rises, UpTo, Below
<1>9. PushedInOrder'
  BY <1>1 DEF PushedInOrder, Rises, UpTo, Below
<1>10. ConnTypes'
  BY <1>1, <1>5
<1> QED BY <1>8, <1>9, <1>10

LEMMA RecvOrder ==
  ASSUME ConnInv, Recv
  PROVE  ConnInv'
<1> USE DEF ConnInv, ConnTypes
<1> PICK c \in 1 .. MaxConnects : c = connectedEst
  BY ConnectionAssumption DEF Recv, SocketOpen
<1>1. PICK q, x, n : q = toSim[c] /\ x = recvQueue /\ n = sentBy
  OBVIOUS
<1>2. /\ q # <<>> /\ recvQueue' = Append(recvQueue, Head(q))
      /\ toSim' = [toSim EXCEPT ![c] = Tail(q)]
      /\ UNCHANGED <<connectedEst, connects, peerUp, pushed, sentBy, sendQueue, peerGot>>
  BY <1>1 DEF Recv, numbers
<1>3. /\ q \in Seq(Nat) /\ q # <<>> /\ Rises(q) /\ UpTo(q, n) /\ Below(x, q) /\ n \in Nat
      /\ x \in Seq(Nat) /\ Rises(x) /\ UpTo(x, n)
  <2>1. q \in Seq(Nat) /\ Rises(q) /\ UpTo(q, n) /\ Below(x, q)
    BY <1>1 DEF SentInOrder
  <2>2. n \in Nat /\ x \in Seq(Nat) /\ Rises(x) /\ UpTo(x, n)
    BY <1>1 DEF SentInOrder
  <2> QED BY <1>2, <2>1, <2>2
<1>4. PICK t, y : t = Tail(q) /\ y = Append(x, Head(q))
  OBVIOUS
<1>5. /\ t \in Seq(Nat) /\ Rises(t) /\ UpTo(t, n)
      /\ y \in Seq(Nat) /\ Rises(y) /\ UpTo(y, n) /\ Below(y, t)
      /\ \A z \in Seq(Nat) : Below(x, z) /\ Below(q, z) => Below(y, z)
      /\ \A z \in Seq(Nat) : Below(z, q) => Below(z, t)
      /\ \A z \in Seq(Nat) : Below(q, z) => Below(t, z)
  <2>1. /\ t \in Seq(Nat) /\ y \in Seq(Nat)
        /\ Rises(x) /\ Rises(q) /\ Below(x, q) => Rises(t) /\ Rises(y) /\ Below(y, t)
        /\ \A z \in Seq(Nat) : Below(x, z) /\ Below(q, z) => Below(y, z)
        /\ \A z \in Seq(Nat) : Below(q, z) => Below(t, z)
        /\ \A z \in Seq(Nat) : Below(z, q) => Below(z, t)
        /\ \A m \in Nat : UpTo(x, m) /\ UpTo(q, m) => UpTo(t, m) /\ UpTo(y, m)
    BY <1>3, <1>4, Handed
  <2> QED BY <1>3, <2>1
<1>6. toSim'[c] = t /\ recvQueue' = y /\ \A d \in 1 .. MaxConnects : d # c => toSim'[d] = toSim[d]
  BY <1>1, <1>2, <1>4
<1>7. toSim' \in [1 .. MaxConnects -> Seq(Nat)]
  BY <1>2, <1>5, <1>4
<1>8. ASSUME NEW d \in 1 .. MaxConnects
      PROVE  /\ Rises(toSim'[d]) /\ UpTo(toSim'[d], n)
             /\ d > connects => toSim'[d] = <<>>
             /\ d >= connectedEst => Below(y, toSim'[d])
             /\ \A e \in 1 .. MaxConnects : d < e => Below(toSim'[d], toSim'[e])
  <2>0. \A e \in 1 .. MaxConnects : d < e => Below(toSim[d], toSim[e])
    BY DEF SentInOrder
  <2>1. CASE d = c
    <3>1. \A e \in 1 .. MaxConnects : d < e => Below(t, toSim[e])
      BY <1>1, <1>5, <2>1 DEF SentInOrder
    <3>2. d <= connects /\ d >= connectedEst
      BY <2>1
    <3>3. \A e \in 1 .. MaxConnects : d < e => e # c
      BY <2>1
    <3>4. \A e \in 1 .. MaxConnects : d < e => Below(t, toSim'[e])
      BY <1>6, <3>1, <3>3
    <3>5. toSim'[d] = t /\ ~(d > connects)
      BY <1>6, <2>1, <3>2
    <3> HIDE DEF ConnInv, ConnTypes
    <3> QED BY <1>5, <3>4, <3>5
  <2>2. CASE d # c
    <3>1. d >= connectedEst => Below(x, toSim[d]) /\ Below(q, toSim[d])
      <4> HAVE d >= connectedEst
      <4>1. c < d
        BY <2>2
      <4> QED BY <1>1, <4>1 DEF SentInOrder
    <3>2. d < c => Below(toSim[d], t)
      BY <1>1, <1>5 DEF SentInOrder
    <3>3. d >= connectedEst => Below(y, toSim[d])
      BY <1>5, <3>1
    <3>4. \A e \in 1 .. MaxConnects : d < e => Below(toSim[d], toSim'[e])
      BY <1>6, <2>0, <3>2
    <3>5. Rises(toSim[d]) /\ UpTo(toSim[d], n) /\ (d > connects => toSim[d] = <<>>)
      BY <1>1 DEF SentInOrder
    <3>6. toSim'[d] = toSim[d]
      BY <1>6, <2>2
    <3> QED BY <3>3, <3>4, <3>5, <3>6
  <2> QED BY <2>1, <2>2
<1>9. SentInOrder'
  <2> HIDE DEF ConnInv, ConnTypes
  <2> QED BY <1>1, <1>2, <1>5, <1>6, <1>8 DEF SentInOrder
<1>10. PushedInOrder'
  BY <1>2 DEF PushedInOrder, Rises, UpTo, Below
<1>11. ConnTypes'
  BY <1>2, <1>5, <1>6, <1>7
<1> QED BY <1>9, <1>10, <1>11

(* The other actions move no message.                                         *)
LEMMA ConnKept ==
  ASSUME ConnInv, UNCHANGED <<pushed, sentBy, sendQueue, peerGot, recvQueue, toSim>>,
         connectedEst' \in Nat, connects' \in Nat, connectedEst <= connectedEst', connects <= connects',
         connectedEst' <= connects', connects' <= MaxConnects, peerUp' => connects' > 0
  PROVE  ConnInv'
<1>1. PushedInOrder'
  BY DEF ConnInv, PushedInOrder, Rises, UpTo, Below
<1>2. ConnTypes'
  BY DEF ConnInv, ConnTypes
<1>3. \A c \in 1 .. MaxConnects : /\ c > connects' => c > connects
                                  /\ c >= connectedEst' => c >= connectedEst
  BY DEF ConnInv, ConnTypes
<1>4. SentInOrder'
  BY <1>3 DEF ConnInv, SentInOrder, Rises, UpTo, Below
<1> QED BY <1>1, <1>2, <1>4 DEF ConnInv

LEMMA ConnNext ==
  ASSUME ConnInv, Next
  PROVE  ConnInv'
<1> DEFINE Same == UNCHANGED <<pushed, sentBy, sendQueue, peerGot, recvQueue, toSim>>
<1>0. /\ connectedEst \in Nat /\ connects \in Nat /\ connectedEst <= connects /\ connects <= MaxConnects
      /\ peerUp => connects > 0
  BY DEF ConnInv, ConnTypes
<1>1. CASE PeerConnect
  BY <1>0, <1>1, ConnKept, ConnectionAssumption DEF PeerConnect, numbers, places, simQueues
<1>2. CASE PeerEnd
  BY <1>0, <1>2, ConnKept DEF PeerEnd, numbers, places, simQueues
<1>3. CASE Accept
  BY <1>0, <1>3, ConnKept DEF Accept, simQueues, peerVars
<1>4. CASE Listen \/ AwaitTerm \/ AwaitToSend \/ AbortSend \/ AwaitToRecv \/ RecvFails \/ AbortRecv \/ SpuriousWakeup
  <2>1. Same /\ UNCHANGED <<connectedEst, connects, peerUp>>
    BY <1>4 DEF Listen, AwaitTerm, AwaitToSend, AbortSend, AwaitToRecv, RecvFails, AbortRecv,
                SpuriousWakeup, numbers, simQueues, peerVars
  <2> QED BY <1>0, <2>1, ConnKept
<1> QED BY <1>1, <1>2, <1>3, <1>4, PushOrder, SendOrder, PeerSendOrder, RecvOrder
        DEF Next, RunConn, RunSend, RunRecv

LEMMA ConnStutters == ConnInv /\ UNCHANGED vars => ConnInv'
<1> SUFFICES ASSUME ConnInv, UNCHANGED vars PROVE ConnInv'
  OBVIOUS
<1>1. UNCHANGED <<connectedEst, connects, peerUp, pushed, sentBy, sendQueue, peerGot, recvQueue, toSim>>
  BY DEF vars, numbers, simQueues, peerVars
<1> QED BY <1>1, ConnKept DEF ConnInv, ConnTypes

LEMMA ConnOrder == ConnInv => InOrder
<1>1. ASSUME NEW q \in Seq(Nat), Rises(q) PROVE Increasing(q)
  BY <1>1, Lists DEF Rises, Increasing
<1> QED BY <1>1 DEF ConnInv, ConnTypes, PushedInOrder, SentInOrder, InOrder

(* Neither direction of the C++ Connection (SiCo.cc) reorders or repeats.     *)
THEOREM ConnectionInOrder == Spec => []InOrder
<1>1. ConnInv /\ [Next]_vars => ConnInv'
  BY ConnNext, ConnStutters
<1> QED BY <1>1, ConnInit, ConnOrder, PTL DEF Spec

----------------------------------------------------------------------------
(* Bytes: two sequences in one, and a part of one.                            *)
Byte == Nat \cup UNION {Range(c) : c \in Channels}

LEMMA Joined ==
  ASSUME NEW S, NEW a \in Seq(S), NEW b \in Seq(S), NEW r, r = a \o b,
         NEW k, k = Len(a), NEW l, l = Len(b)
  PROVE  /\ k \in Nat /\ l \in Nat /\ r \in Seq(S) /\ Len(r) = k + l
         /\ \A i \in 1 .. k : r[i] = a[i]
         /\ \A i \in 1 .. l : r[k + i] = b[i]
<1>1. k \in Nat /\ l \in Nat /\ r \in Seq(S) /\ Len(r) = k + l
  BY ConcatProperties
<1>2. \A i \in 1 .. k + l : r[i] = IF i <= k THEN a[i] ELSE b[i - k]
  BY ConcatProperties
<1>3. \A i \in 1 .. l : k + i \in 1 .. k + l /\ ~(k + i <= k) /\ (k + i) - k = i
  BY <1>1
<1> QED BY <1>1, <1>2, <1>3

LEMMA Joins ==
  ASSUME NEW a \in Seq(Byte), NEW b \in Seq(Byte), NEW c \in Seq(Byte)
  PROVE  (a \o b) \o c = a \o (b \o c)
BY ConcatAssociative

LEMMA Part ==
  ASSUME NEW S, NEW s \in Seq(S), NEW m \in Nat \ {0}, NEW n \in Nat, m <= n + 1, n <= Len(s),
         NEW r, r = SubSeq(s, m, n), NEW l, l = n - m + 1
  PROVE  /\ l \in Nat /\ r \in Seq(S) /\ Len(r) = l
         /\ \A i \in 1 .. l : r[i] = s[m + i - 1]
<1>1. l \in Nat /\ Len(s) \in Nat
  OBVIOUS
<1>2. \A i \in m .. n : s[i] \in S
  BY <1>1, ElementOfSeq
<1>3. /\ SubSeq(s, m, n) \in Seq(S) /\ Len(SubSeq(s, m, n)) = IF m <= n THEN n - m + 1 ELSE 0
      /\ \A i \in 1 .. n - m + 1 : SubSeq(s, m, n)[i] = s[m + i - 1]
  BY <1>2, SubSeqProperties
<1> QED BY <1>1, <1>3

LEMMA Prefixed ==
  ASSUME NEW x \in Byte, NEW p \in Seq(Byte)
  PROVE  <<x>> \o p \in Seq(Byte) /\ <<x>> \o p # <<>> /\ (<<x>> \o p)[1] = x
<1>1. PICK h, b, k, l : h = <<x>> /\ b = h \o p /\ k = Len(h) /\ l = Len(p)
  OBVIOUS
<1>2. h \in Seq(Byte) /\ k = 1 /\ h[1] = x
  BY <1>1
<1>3. l \in Nat /\ b \in Seq(Byte) /\ Len(b) = k + l /\ \A i \in 1 .. k : b[i] = h[i]
  BY <1>1, <1>2, Joined
<1>4. Len(b) # 0 /\ b[1] = x
  BY <1>2, <1>3
<1> QED BY <1>1, <1>3, <1>4

(* A sequence that begins as another one still does after the same byte.      *)
LEMMA PrefixAfter ==
  ASSUME NEW x \in Byte, NEW b \in Seq(Byte), NEW r \in Seq(Byte),
         Len(r) <= Len(b), \A i \in 1 .. Len(r) : r[i] = b[i]
  PROVE  /\ <<x>> \o b \in Seq(Byte) /\ <<x>> \o r \in Seq(Byte) /\ Len(<<x>> \o r) <= Len(<<x>> \o b)
         /\ \A i \in 1 .. Len(<<x>> \o r) : (<<x>> \o r)[i] = (<<x>> \o b)[i]
<1>1. PICK h, u, v, k, l, m : /\ h = <<x>> /\ u = h \o b /\ v = h \o r
                              /\ k = Len(h) /\ l = Len(b) /\ m = Len(r)
  OBVIOUS
<1>2. h \in Seq(Byte) /\ k = 1 /\ h[1] = x
  BY <1>1
<1>3. /\ l \in Nat /\ u \in Seq(Byte) /\ Len(u) = k + l
      /\ \A i \in 1 .. k : u[i] = h[i]
      /\ \A i \in 1 .. l : u[k + i] = b[i]
  BY <1>1, <1>2, Joined
<1>4. /\ m \in Nat /\ v \in Seq(Byte) /\ Len(v) = k + m
      /\ \A i \in 1 .. k : v[i] = h[i]
      /\ \A i \in 1 .. m : v[k + i] = r[i]
  BY <1>1, <1>2, Joined
<1>5. m <= l /\ \A i \in 1 .. m : r[i] = b[i] /\ i \in 1 .. l
  BY <1>1, <1>3, <1>4
<1>6. \A i \in 1 .. 1 + m : i = 1 \/ (i - 1 \in 1 .. m /\ i = 1 + (i - 1))
  BY <1>4
<1>7. \A i \in 1 .. 1 + m : v[i] = u[i]
  <2>1. v[1] = u[1]
    BY <1>2, <1>3, <1>4
  <2>2. \A i \in 1 .. m : v[1 + i] = u[1 + i]
    BY <1>2, <1>3, <1>4, <1>5
  <2> QED BY <1>6, <2>1, <2>2
<1> QED BY <1>1, <1>2, <1>3, <1>4, <1>5, <1>7

----------------------------------------------------------------------------
(* The bytes of a message, and the message of the bytes.                      *)
LEMMA Names ==
  ASSUME NEW c \in Channels
  PROVE  c \in Seq(Byte) /\ Len(c) \in Nat
<1>1. c \in Seq(Range(c)) /\ Range(c) \subseteq Byte
  BY PyConnectionAssumption DEF Byte
<1>2. c \in Seq(Byte)
  BY <1>1, SeqMonotonic
<1> QED BY <1>2, LenProperties

LEMMA RoundTrip ==
  ASSUME NEW c \in Channels, NEW n \in Nat, NEW r, r = toBytes(Message(c, <<n>>))
  PROVE  /\ r \in Seq(Byte) /\ Len(r) \in Nat /\ Len(r) > 1 /\ r[1] = Len(r)
         /\ fromBytes(r) = Message(c, <<n>>)
<1>0. PICK k : k = Len(c)
  OBVIOUS
<1>1. c \in Seq(Byte) /\ k \in Nat
  BY <1>0, Names
<1>2. PICK h, d, m : h = <<2 + k + 1, k>> /\ d = <<n>> /\ m = h \o c
  OBVIOUS
<1>3. /\ h \in Seq(Byte) /\ Len(h) = 2 /\ h[1] = 3 + k /\ h[2] = k
      /\ d \in Seq(Byte) /\ Len(d) = 1 /\ d[1] = n
  BY <1>1, <1>2 DEF Byte
<1>4. r = m \o d
  BY <1>0, <1>2 DEF toBytes, Message, BASE_LENGTH
<1>5. /\ m \in Seq(Byte) /\ Len(m) = 2 + k
      /\ m[1] = 3 + k /\ m[2] = k /\ \A i \in 1 .. k : m[2 + i] = c[i]
  BY <1>0, <1>1, <1>2, <1>3, Joined
<1>6. PICK u : u = 2 + k
  OBVIOUS
<1>7. /\ r \in Seq(Byte) /\ Len(r) = u + 1 /\ u \in Nat \ {0, 1}
      /\ \A i \in 1 .. u : r[i] = m[i]
      /\ r[u + 1] = n
  <2>1. PICK v, l : v = m \o d /\ l = Len(d)
    OBVIOUS
  <2>2. u = Len(m) /\ l = 1 /\ u \in Nat \ {0, 1} /\ r = v
    <3>1. u = Len(m)
      BY <1>5, <1>6
    <3>2. l = 1 /\ r = v
      BY <1>3, <1>4, <2>1
    <3>3. u \in Nat \ {0, 1}
      BY <1>1, <1>6
    <3> QED BY <3>1, <3>2, <3>3
  <2>3. u = Len(m) /\ m \in Seq(Byte) /\ d \in Seq(Byte)
    BY <1>3, <1>5, <2>2
  <2>4. /\ v \in Seq(Byte) /\ Len(v) = u + l
        /\ \A i \in 1 .. u : v[i] = m[i]
        /\ \A i \in 1 .. l : v[u + i] = d[i]
    BY <2>1, <2>3, Joined
  <2>5. v[u + 1] = n
    <3>1. 1 \in 1 .. l /\ d[1] = n
      BY <1>3, <2>2
    <3> QED BY <2>4, <3>1
  <2> QED BY <2>2, <2>4, <2>5
<1>8. /\ r[1] = 3 + k /\ r[2] = k
      /\ \A i \in 1 .. k : r[2 + i] = c[i]
  <2>1. \A i \in 1 .. k : 2 + i \in 1 .. u
    BY <1>1, <1>6
  <2> QED BY <1>5, <1>7, <2>1
<1>9. SubSeq(r, 3, u) = c
  <2>1. PICK s : s = SubSeq(r, 3, u)
    OBVIOUS
  <2>2. s \in Seq(Byte) /\ Len(s) = k /\ \A i \in 1 .. k : s[i] = r[3 + i - 1]
    <3>1. 3 \in Nat \ {0} /\ 3 <= u + 1 /\ u <= Len(r) /\ k = u - 3 + 1
      BY <1>1, <1>6, <1>7
    <3> QED BY <1>7, <2>1, <3>1, Part
  <2>3. \A i \in 1 .. k : 3 + i - 1 = 2 + i
    BY <1>1
  <2>4. s = c
    <3>1. Len(s) = Len(c) /\ \A i \in 1 .. Len(s) : s[i] = c[i]
      BY <1>0, <1>8, <2>2, <2>3
    <3> QED BY <1>1, <2>2, <3>1, SeqEqual
  <2> QED BY <2>1, <2>4
<1>10. SubSeq(r, u + 1, u + 1) = <<n>>
  <2>1. PICK s, v : s = SubSeq(r, v, v) /\ v = u + 1
    OBVIOUS
  <2>2. s \in Seq(Byte) /\ Len(s) = 1 /\ \A i \in 1 .. 1 : s[i] = r[v + i - 1]
    <3>1. v \in Nat \ {0} /\ v \in Nat /\ v <= v + 1 /\ v <= Len(r) /\ 1 = v - v + 1
      BY <1>7, <2>1
    <3> QED BY <1>7, <2>1, <3>1, Part
  <2>3. v + 1 - 1 = v
    BY <1>7, <2>1
  <2>4. Len(s) = Len(d) /\ \A i \in 1 .. Len(s) : s[i] = d[i]
    BY <1>3, <1>7, <2>1, <2>2, <2>3
  <2>5. s = d
    BY <1>3, <2>2, <2>4, SeqEqual
  <2> QED BY <1>2, <2>1, <2>5
<1>11. Len(r) = 3 + k /\ 3 + r[2] = u + 1 /\ 2 + r[2] = u
  BY <1>1, <1>6, <1>7, <1>8
<1>12. fromBytes(r) = Message(c, <<n>>)
  BY <1>7, <1>9, <1>10, <1>11 DEF fromBytes
<1> QED BY <1>1, <1>7, <1>8, <1>11, <1>12

----------------------------------------------------------------------------
(* The bytes of messages, one after the other.                                *)
(* Bytes of which the messages are known.                                     *)
Codes(code, D) == \A n \in D : code[n] \in Seq(Byte) /\ Len(code[n]) > 1 /\ code[n][1] = Len(code[n])

(* The bytes b are those of the messages ids, one after the other, but for    *)
(* the last ones that are cut off.                                            *)
Frames(b, ids, code, cut) == \E at \in [1 .. Len(ids) + 1 -> Nat] :
    /\ at[1] = 0 /\ at[Len(ids) + 1] = Len(b) + cut
    /\ \A i, j \in 1 .. Len(ids) + 1 : i <= j => at[i] <= at[j]
    /\ \A i \in 1 .. Len(ids) : at[i + 1] = at[i] + Len(code[ids[i]])
    /\ \A i \in 1 .. Len(ids) : \A j \in 1 .. Len(code[ids[i]]) :
         at[i] + j <= Len(b) => b[at[i] + j] = code[ids[i]][j]

(* The first byte is the length of the first message.                         *)
LEMMA FramesFirst ==
  ASSUME NEW D, NEW code, Codes(code, D), NEW b \in Seq(Byte), b # <<>>, NEW ids \in Seq(D),
         NEW cut \in Nat, Frames(b, ids, code, cut)
  PROVE  ids # <<>> /\ ids[1] \in D /\ b[1] = Len(code[ids[1]])
<1>1. PICK at \in [1 .. Len(ids) + 1 -> Nat] :
        /\ at[1] = 0 /\ at[Len(ids) + 1] = Len(b) + cut
        /\ \A i \in 1 .. Len(ids) : at[i + 1] = at[i] + Len(code[ids[i]])
        /\ \A i \in 1 .. Len(ids) : \A j \in 1 .. Len(code[ids[i]]) :
             at[i] + j <= Len(b) => b[at[i] + j] = code[ids[i]][j]
  BY DEF Frames
<1>2. Len(b) \in Nat \ {0} /\ Len(ids) \in Nat
  OBVIOUS
<1>3. Len(ids) # 0
  BY <1>1, <1>2
<1>4. ids # <<>> /\ 1 \in 1 .. Len(ids) /\ ids[1] \in D
  BY <1>2, <1>3
<1>5. Len(code[ids[1]]) \in Nat \ {0} /\ code[ids[1]][1] = Len(code[ids[1]])
  BY <1>4 DEF Codes
<1>6. 1 \in 1 .. Len(code[ids[1]]) /\ at[1] + 1 <= Len(b) /\ at[1] + 1 = 1
  BY <1>1, <1>2, <1>5
<1>7. b[1] = code[ids[1]][1]
  BY <1>1, <1>4, <1>6
<1> QED BY <1>4, <1>5, <1>7

(* A sequence without its first z elements.                                   *)
Suffix(q, b, z) == Len(q) = Len(b) - z /\ \A i \in 1 .. Len(q) : q[i] = b[z + i]

(* The places of messages, without the first one.                             *)
LEMMA Places ==
  ASSUME NEW k \in Nat, NEW at \in [1 .. k + 2 -> Nat],
         \A i, j \in 1 .. k + 2 : i <= j => at[i] <= at[j]
  PROVE  \E e \in [1 .. k + 1 -> Nat] :
           /\ e[1] = 0 /\ e[k + 1] = at[k + 2] - at[2]
           /\ \A i \in 1 .. k + 1 : e[i] = at[i + 1] - at[2] /\ at[i + 1] = at[2] + e[i]
           /\ \A i, j \in 1 .. k + 1 : i <= j => e[i] <= e[j]
<1>0. PICK e : e = [i \in 1 .. k + 1 |-> at[i + 1] - at[2]]
  OBVIOUS
<1>1. \A i \in 1 .. k + 1 : i + 1 \in 1 .. k + 2 /\ 2 <= i + 1
  OBVIOUS
<1>2. 2 \in 1 .. k + 2 /\ at[2] \in Nat
  OBVIOUS
<1>3. \A i \in 1 .. k + 1 : at[i + 1] \in Nat /\ at[2] <= at[i + 1]
  BY <1>1, <1>2
<1>4. \A i \in 1 .. k + 1 : e[i] \in Nat /\ e[i] = at[i + 1] - at[2] /\ at[i + 1] = at[2] + e[i]
  BY <1>0, <1>2, <1>3
<1>5. 1 \in 1 .. k + 1 /\ k + 1 \in 1 .. k + 1 /\ 1 + 1 = 2 /\ k + 1 + 1 = k + 2
  OBVIOUS
<1>6. e[1] = 0 /\ e[k + 1] = at[k + 2] - at[2]
  BY <1>2, <1>4, <1>5
<1>7. \A i, j \in 1 .. k + 1 : i <= j => at[i + 1] <= at[j + 1]
  BY <1>1
<1>8. \A i, j \in 1 .. k + 1 : i <= j => e[i] <= e[j]
  BY <1>2, <1>3, <1>4, <1>7
<1>9. e \in [1 .. k + 1 -> Nat]
  BY <1>0, <1>4
<1> QED BY <1>4, <1>6, <1>8, <1>9

(* When it is there as a whole, messages follow it.                           *)
LEMMA FramesRest ==
  ASSUME NEW D, NEW code, Codes(code, D), NEW b \in Seq(Byte), b # <<>>, NEW ids \in Seq(D),
         NEW cut \in Nat, Frames(b, ids, code, cut), NEW z, z = b[1], z <= Len(b),
         NEW q \in Seq(Byte), Suffix(q, b, z)
  PROVE  /\ \A i \in 1 .. z : b[i] = code[ids[1]][i]
         /\ Frames(q, Tail(ids), code, cut)
<1>0. ids # <<>> /\ ids[1] \in D /\ z = Len(code[ids[1]]) /\ z \in Nat
  <2>1. ids # <<>> /\ ids[1] \in D /\ z = Len(code[ids[1]])
    BY FramesFirst
  <2> QED BY <2>1 DEF Codes
<1>1. PICK k, t : k = Len(ids) - 1 /\ t = Tail(ids)
  OBVIOUS
<1>2. /\ k \in Nat /\ Len(ids) = k + 1 /\ t \in Seq(D) /\ Len(t) = k
      /\ \A i \in 1 .. k : t[i] = ids[i + 1] /\ t[i] \in D /\ Len(code[t[i]]) \in Nat
  <2>1. Len(ids) \in Nat \ {0} /\ Len(Tail(ids)) = Len(ids) - 1 /\ Tail(ids) \in Seq(D)
    BY <1>0
  <2>2. \A i \in 1 .. Len(ids) - 1 : Tail(ids)[i] = ids[i + 1] /\ Tail(ids)[i] \in D
    BY <1>0
  <2>3. \A n \in D : Len(code[n]) \in Nat
    BY DEF Codes
  <2>4. k \in Nat /\ Len(ids) = k + 1
    BY <1>1, <2>1
  <2> QED BY <1>1, <2>1, <2>2, <2>3, <2>4
<1>15. PICK at \in [1 .. Len(ids) + 1 -> Nat] :
        /\ at[1] = 0 /\ at[Len(ids) + 1] = Len(b) + cut
        /\ \A i, j \in 1 .. Len(ids) + 1 : i <= j => at[i] <= at[j]
        /\ \A i \in 1 .. Len(ids) : at[i + 1] = at[i] + Len(code[ids[i]])
        /\ \A i \in 1 .. Len(ids) : \A j \in 1 .. Len(code[ids[i]]) :
             at[i] + j <= Len(b) => b[at[i] + j] = code[ids[i]][j]
  BY DEF Frames
<1>16. Len(ids) = k + 1 /\ Len(ids) + 1 = k + 2
  BY <1>2
<1>3. /\ at \in [1 .. k + 2 -> Nat] /\ at[1] = 0 /\ at[k + 2] = Len(b) + cut
      /\ \A i, j \in 1 .. k + 2 : i <= j => at[i] <= at[j]
      /\ \A i \in 1 .. k + 1 : at[i + 1] = at[i] + Len(code[ids[i]])
      /\ \A i \in 1 .. k + 1 : \A j \in 1 .. Len(code[ids[i]]) :
           at[i] + j <= Len(b) => b[at[i] + j] = code[ids[i]][j]
  <2>1. at \in [1 .. k + 2 -> Nat] /\ at[1] = 0 /\ at[k + 2] = Len(b) + cut
    BY <1>15, <1>16, Zenon
  <2>2. \A i, j \in 1 .. k + 2 : i <= j => at[i] <= at[j]
    BY <1>15, <1>16, Zenon
  <2>3. \A i \in 1 .. k + 1 : at[i + 1] = at[i] + Len(code[ids[i]])
    BY <1>15, <1>16, Zenon
  <2>4. \A i \in 1 .. k + 1 : \A j \in 1 .. Len(code[ids[i]]) :
           at[i] + j <= Len(b) => b[at[i] + j] = code[ids[i]][j]
    BY <1>15, <1>16, Zenon
  <2> QED BY <2>1, <2>2, <2>3, <2>4
<1>4. at[2] = z
  <2>1. 1 \in 1 .. k + 1 /\ 1 + 1 = 2
    BY <1>2
  <2>2. at[1 + 1] = at[1] + Len(code[ids[1]])
    BY <1>3, <2>1
  <2> QED BY <1>0, <1>3, <2>1, <2>2
<1>5. ASSUME NEW i \in 1 .. z PROVE b[i] = code[ids[1]][i]
  <2>1. 1 \in 1 .. k + 1 /\ i \in 1 .. Len(code[ids[1]]) /\ at[1] + i = i /\ i <= Len(b)
    BY <1>0, <1>2, <1>3, <1>5
  <2> QED BY <1>3, <2>1
<1>7. PICK e \in [1 .. k + 1 -> Nat] :
      /\ e[1] = 0 /\ e[k + 1] = at[k + 2] - at[2]
      /\ \A i \in 1 .. k + 1 : e[i] = at[i + 1] - at[2] /\ at[i + 1] = at[2] + e[i]
      /\ \A i, j \in 1 .. k + 1 : i <= j => e[i] <= e[j]
  <2>1. k \in Nat /\ at \in [1 .. k + 2 -> Nat]
    BY <1>2, <1>3
  <2>2. \A i, j \in 1 .. k + 2 : i <= j => at[i] <= at[j]
    BY <1>3
  <2> QED BY <2>1, <2>2, Places, ZenonT(30)
<1>8. PICK m, n : m = Len(q) /\ n = Len(b)
  OBVIOUS
<1>14. z \in Nat /\ m \in Nat /\ n \in Nat /\ m = n - z
  <2>1. z \in Nat
    BY <1>0
  <2> QED BY <1>8, <2>1 DEF Suffix
<1>9. e[k + 1] = Len(q) + cut
  <2>1. e[k + 1] = at[k + 2] - at[2] /\ at[k + 2] = n + cut /\ at[2] = z
    BY <1>3, <1>4, <1>7, <1>8
  <2>2. (n + cut) - z = m + cut
    BY <1>14
  <2> QED BY <1>8, <2>1, <2>2
<1>10. \A i \in 1 .. k : e[i + 1] = e[i] + Len(code[t[i]])
  <2> TAKE i \in 1 .. k
  <2>1. i \in 1 .. k + 1 /\ i + 1 \in 1 .. k + 1
    BY <1>2
  <2>2. at[(i + 1) + 1] = at[i + 1] + Len(code[t[i]])
    <3>1. t[i] = ids[i + 1]
      BY <1>2
    <3> QED BY <1>3, <2>1, <3>1
  <2>3. at[(i + 1) + 1] = at[2] + e[i + 1] /\ at[i + 1] = at[2] + e[i] /\ e[i] \in Nat /\ e[i + 1] \in Nat
    BY <1>7, <2>1
  <2>4. at[2] \in Nat /\ Len(code[t[i]]) \in Nat
    BY <1>0, <1>2, <1>4
  <2>5. PICK x, y, l : x = e[i] /\ y = e[i + 1] /\ l = Len(code[t[i]])
    OBVIOUS
  <2>6. x \in Nat /\ y \in Nat /\ l \in Nat /\ z + y = (z + x) + l
    BY <1>4, <2>2, <2>3, <2>4, <2>5
  <2>7. y = x + l
    BY <1>14, <2>6, SMTT(30)
  <2> QED BY <2>5, <2>7
<1>11. ASSUME NEW i \in 1 .. k, NEW j \in Nat \ {0}, j <= Len(code[t[i]]), e[i] + j <= Len(q)
       PROVE  q[e[i] + j] = code[t[i]][j]
  <2>1. i \in 1 .. k + 1 /\ i + 1 \in 1 .. k + 1 /\ t[i] = ids[i + 1] /\ j \in 1 .. Len(code[t[i]])
    <3>1. t[i] = ids[i + 1] /\ i \in 1 .. k + 1 /\ i + 1 \in 1 .. k + 1
      <4>1. \A x \in 1 .. k : x \in 1 .. k + 1 /\ x + 1 \in 1 .. k + 1
        BY <1>2
      <4> QED BY <1>2, <4>1
    <3>2. t[i] \in D
      BY <1>2, ElementOfSeq
    <3>3. Len(code[t[i]]) \in Nat
      BY <3>2, LenProperties DEF Codes
    <3>4. PICK l : l = Len(code[t[i]])
      OBVIOUS
    <3>5. j \in 1 .. l
      BY <1>11, <3>3, <3>4
    <3> QED BY <3>1, <3>4, <3>5
  <2>2. PICK x : x = e[i]
    OBVIOUS
  <2>3. x \in Nat /\ at[i + 1] = z + x
    BY <1>4, <1>7, <2>1, <2>2
  <2>8. x \in Nat /\ x + j <= m
    BY <1>8, <1>11, <2>2, <2>3
  <2>9. x + j \in 1 .. m /\ z + (x + j) = (z + x) + j /\ (z + x) + j <= n
    BY <1>14, <2>8
  <2>4. x + j \in 1 .. Len(q) /\ z + (x + j) = (z + x) + j /\ (z + x) + j <= Len(b)
    BY <1>8, <2>9
  <2>5. q[x + j] = b[z + (x + j)]
    BY <2>4 DEF Suffix
  <2>6. b[at[i + 1] + j] = code[ids[i + 1]][j]
    <3>1. at[i + 1] + j <= Len(b)
      BY <2>3, <2>4
    <3> QED BY <1>3, <2>1, <3>1
  <2>7. b[z + (x + j)] = b[at[i + 1] + j]
    BY <2>3, <2>4
  <2> QED BY <2>1, <2>2, <2>5, <2>6, <2>7
<1>12. \A i \in 1 .. k : \A j \in 1 .. Len(code[t[i]]) :
         e[i] + j <= Len(q) => q[e[i] + j] = code[t[i]][j]
  <2> SUFFICES ASSUME NEW i \in 1 .. k, NEW j \in 1 .. Len(code[t[i]]), e[i] + j <= Len(q)
               PROVE  q[e[i] + j] = code[t[i]][j]
    OBVIOUS
  <2>1. j \in Nat \ {0} /\ j <= Len(code[t[i]])
    BY <1>2
  <2> QED BY <1>11, <2>1
<1>13. Frames(q, t, code, cut)
  BY <1>2, <1>7, <1>9, <1>10, <1>12 DEF Frames
<1> QED BY <1>1, <1>5, <1>13

(* Of a simulator that ends the last bytes may be missing.                    *)
LEMMA FramesCut ==
  ASSUME NEW D, NEW code, Codes(code, D), NEW b \in Seq(Byte), NEW ids \in Seq(D),
         NEW cut \in Nat, Frames(b, ids, code, cut),
         NEW r \in Seq(Byte), Len(r) <= Len(b), \A i \in 1 .. Len(r) : r[i] = b[i]
  PROVE  \E more \in Nat : Frames(r, ids, code, more)
<1>1. PICK at \in [1 .. Len(ids) + 1 -> Nat] :
        /\ at[1] = 0 /\ at[Len(ids) + 1] = Len(b) + cut
        /\ \A i, j \in 1 .. Len(ids) + 1 : i <= j => at[i] <= at[j]
        /\ \A i \in 1 .. Len(ids) : at[i + 1] = at[i] + Len(code[ids[i]])
        /\ \A i \in 1 .. Len(ids) : \A j \in 1 .. Len(code[ids[i]]) :
             at[i] + j <= Len(b) => b[at[i] + j] = code[ids[i]][j]
  BY DEF Frames
<1>2. PICK m, n : m = Len(b) /\ n = Len(r)
  OBVIOUS
<1>3. m \in Nat /\ n \in Nat /\ n <= m
  BY <1>2
<1>4. PICK more \in Nat : n + more = m + cut
  <2>1. (m - n) + cut \in Nat /\ n + ((m - n) + cut) = m + cut
    BY <1>3
  <2> QED BY <2>1
<1>5. at[Len(ids) + 1] = Len(r) + more
  BY <1>1, <1>2, <1>4
<1>6. ASSUME NEW i \in 1 .. Len(ids), NEW j \in 1 .. Len(code[ids[i]]), at[i] + j <= Len(r)
      PROVE  r[at[i] + j] = code[ids[i]][j]
  <2>1. at[i] \in Nat /\ j \in Nat /\ j > 0
    <3>1. ids[i] \in D /\ Len(ids) \in Nat
      BY ElementOfSeq
    <3>2. Len(code[ids[i]]) \in Nat
      BY <3>1 DEF Codes
    <3>3. j \in Nat /\ j > 0
      BY <3>2
    <3>4. i \in 1 .. Len(ids) + 1
      BY <3>1
    <3> QED BY <3>3, <3>4
  <2>2. PICK x : x = at[i]
    OBVIOUS
  <2>3. x \in Nat /\ j \in Nat /\ j > 0 /\ x + j <= n
    BY <1>2, <1>6, <2>1, <2>2
  <2>4. x + j \in 1 .. n /\ x + j <= m
    BY <1>3, <2>3
  <2>5. r[x + j] = b[x + j]
    BY <1>2, <2>4
  <2>6. b[x + j] = code[ids[i]][j]
    BY <1>1, <1>2, <2>2, <2>4
  <2> QED BY <2>2, <2>5, <2>6
<1>7. Frames(r, ids, code, more)
  BY <1>1, <1>5, <1>6 DEF Frames
<1> QED BY <1>4, <1>7

(* More messages may be known.                                                *)
LEMMA FramesSame ==
  ASSUME NEW D, NEW code, NEW other, \A n \in D : other[n] = code[n],
         NEW b, NEW ids \in Seq(D), NEW cut, Frames(b, ids, code, cut)
  PROVE  Frames(b, ids, other, cut)
<1>1. \A i \in 1 .. Len(ids) : other[ids[i]] = code[ids[i]]
  BY ElementOfSeq
<1>2. PICK at \in [1 .. Len(ids) + 1 -> Nat] :
        /\ at[1] = 0 /\ at[Len(ids) + 1] = Len(b) + cut
        /\ \A i, j \in 1 .. Len(ids) + 1 : i <= j => at[i] <= at[j]
        /\ \A i \in 1 .. Len(ids) : at[i + 1] = at[i] + Len(code[ids[i]])
        /\ \A i \in 1 .. Len(ids) : \A j \in 1 .. Len(code[ids[i]]) :
             at[i] + j <= Len(b) => b[at[i] + j] = code[ids[i]][j]
  BY DEF Frames
<1>3. \A i \in 1 .. Len(ids) : at[i + 1] = at[i] + Len(other[ids[i]])
  BY <1>1, <1>2
<1>4. \A i \in 1 .. Len(ids) : \A j \in 1 .. Len(other[ids[i]]) :
        at[i] + j <= Len(b) => b[at[i] + j] = other[ids[i]][j]
  <2> SUFFICES ASSUME NEW i \in 1 .. Len(ids), NEW j \in 1 .. Len(other[ids[i]]), at[i] + j <= Len(b)
               PROVE  b[at[i] + j] = other[ids[i]][j]
    OBVIOUS
  <2>1. PICK w : w = other[ids[i]]
    OBVIOUS
  <2>2. w = code[ids[i]]
    BY <1>1, <2>1
  <2> QED BY <1>2, <2>1, <2>2
<1> QED BY <1>2, <1>3, <1>4 DEF Frames

LEMMA FramesNone ==
  ASSUME NEW code, NEW cut \in Nat
  PROVE  Frames(<<>>, <<>>, code, cut) <=> cut = 0
<1>1. Len(<<>>) = 0
  OBVIOUS
<1>2. ASSUME Frames(<<>>, <<>>, code, cut) PROVE cut = 0
  <2>1. PICK at : at[1] = 0 /\ at[Len(<<>>) + 1] = Len(<<>>) + cut
    BY <1>2 DEF Frames
  <2> QED BY <1>1, <2>1
<1>3. ASSUME cut = 0 PROVE Frames(<<>>, <<>>, code, cut)
  <2>1. PICK at : at = [i \in 1 .. 1 |-> 0]
    OBVIOUS
  <2>2. /\ at \in [1 .. 0 + 1 -> Nat] /\ at[1] = 0 /\ at[0 + 1] = 0 + cut
        /\ \A i, j \in 1 .. 0 + 1 : i <= j => at[i] <= at[j]
    BY <1>3, <2>1
  <2>3. \A i \in 1 .. 0 : FALSE
    OBVIOUS
  <2> QED BY <1>1, <2>2, <2>3 DEF Frames
<1> QED BY <1>2, <1>3

(* A message that is written.                                                 *)
LEMMA FramesAppend ==
  ASSUME NEW D, NEW code, Codes(code, D), NEW b \in Seq(Byte), NEW ids \in Seq(D), Frames(b, ids, code, 0),
         NEW n, NEW other, \A i \in D : other[i] = code[i], Codes(other, D \cup {n}),
         NEW x \in Seq(Byte), x = other[n], NEW r, r = b \o x, NEW more, more = Append(ids, n)
  PROVE  r \in Seq(Byte) /\ more \in Seq(D \cup {n}) /\ Frames(r, more, other, 0)
<1>1. Frames(b, ids, other, 0)
  BY FramesSame
<1>2. PICK k, m, l : k = Len(ids) /\ m = Len(b) /\ l = Len(x)
  OBVIOUS
<1>3. k \in Nat /\ m \in Nat /\ l \in Nat
  BY <1>2
<1>4. /\ r \in Seq(Byte) /\ Len(r) = m + l
      /\ \A i \in 1 .. m : r[i] = b[i]
      /\ \A i \in 1 .. l : r[m + i] = x[i]
  <2>1. b \in Seq(Byte) /\ x \in Seq(Byte) /\ r = b \o x
    OBVIOUS
  <2> QED BY <1>2, <2>1, Joined
<1>5. ids \in Seq(D \cup {n})
  BY SeqMonotonic
<1>6. /\ more \in Seq(D \cup {n}) /\ Len(more) = k + 1
      /\ \A i \in 1 .. k : more[i] = ids[i] /\ ids[i] \in D
      /\ more[k + 1] = n
  <2>1. \A i \in 1 .. Len(ids) : ids[i] \in D
    BY ElementOfSeq
  <2>2. n \in D \cup {n}
    OBVIOUS
  <2> QED BY <1>2, <1>5, <2>1, <2>2, AppendProperties
<1>14. PICK at \in [1 .. Len(ids) + 1 -> Nat] :
        /\ at[1] = 0 /\ at[Len(ids) + 1] = Len(b) + 0
        /\ \A i, j \in 1 .. Len(ids) + 1 : i <= j => at[i] <= at[j]
        /\ \A i \in 1 .. Len(ids) : at[i + 1] = at[i] + Len(other[ids[i]])
        /\ \A i \in 1 .. Len(ids) : \A j \in 1 .. Len(other[ids[i]]) :
             at[i] + j <= Len(b) => b[at[i] + j] = other[ids[i]][j]
  BY <1>1 DEF Frames
<1>7. /\ at \in [1 .. k + 1 -> Nat] /\ at[1] = 0 /\ at[k + 1] = m + 0
      /\ \A i, j \in 1 .. k + 1 : i <= j => at[i] <= at[j]
      /\ \A i \in 1 .. k : at[i + 1] = at[i] + Len(other[ids[i]])
      /\ \A i \in 1 .. k : \A j \in 1 .. Len(other[ids[i]]) :
           at[i] + j <= m => b[at[i] + j] = other[ids[i]][j]
  <2>1. Len(ids) = k /\ Len(b) = m
    BY <1>2
  <2> QED BY <1>14, <2>1, Zenon
<1>8. PICK e : e = [i \in 1 .. k + 2 |-> IF i <= k + 1 THEN at[i] ELSE m + l]
  OBVIOUS
<1>9. /\ e \in [1 .. k + 2 -> Nat] /\ e[k + 2] = m + l /\ e[1] = 0 /\ e[k + 1] = m
      /\ \A i \in 1 .. k + 1 : e[i] = at[i] /\ at[i] \in Nat /\ at[i] <= m
  <2>1. /\ \A i \in 1 .. k + 1 : i \in 1 .. k + 2 /\ i <= k + 1 /\ k + 1 \in 1 .. k + 1
        /\ k + 2 \in 1 .. k + 2 /\ ~(k + 2 <= k + 1) /\ 1 \in 1 .. k + 1 /\ k + 1 \in 1 .. k + 1
    BY <1>3
  <2>2. m + 0 = m /\ m + l \in Nat
    BY <1>3
  <2>3. \A i \in 1 .. k + 1 : e[i] = at[i]
    BY <1>8, <2>1
  <2>4. e[k + 2] = m + l
    BY <1>8, <2>1
  <2>5. \A i \in 1 .. k + 1 : at[i] \in Nat /\ at[i] <= m
    <3>1. at[k + 1] = m /\ k + 1 \in 1 .. k + 1
      BY <1>7, <2>1, <2>2
    <3>2. \A i \in 1 .. k + 1 : i <= k + 1
      BY <1>3
    <3> QED BY <1>7, <3>1, <3>2
  <2>6. e \in [1 .. k + 2 -> Nat]
    BY <1>8, <2>2, <2>5
  <2> QED BY <1>7, <2>1, <2>2, <2>3, <2>4, <2>5, <2>6
<1>10. \A i, j \in 1 .. k + 2 : i <= j => e[i] <= e[j]
  <2> SUFFICES ASSUME NEW i \in 1 .. k + 2, NEW j \in 1 .. k + 2, i <= j
               PROVE  e[i] <= e[j]
    OBVIOUS
  <2>1. (i \in 1 .. k + 1 \/ i = k + 2) /\ (j \in 1 .. k + 1 \/ j = k + 2)
    BY <1>3
  <2>2. CASE j \in 1 .. k + 1
    <3>1. i \in 1 .. k + 1
      BY <1>3, <2>2
    <3> QED BY <1>7, <1>9, <2>2, <3>1
  <2>3. CASE i \in 1 .. k + 1 /\ j = k + 2
    <3>1. e[i] \in Nat /\ e[i] <= m /\ e[j] = m + l
      BY <1>9, <2>3
    <3> QED BY <1>3, <3>1
  <2>4. CASE i = k + 2 /\ j = k + 2
    BY <1>3, <1>9, <2>4
  <2> QED BY <1>3, <2>1, <2>2, <2>3, <2>4
<1>11. \A i \in 1 .. k + 1 : e[i + 1] = e[i] + Len(other[more[i]])
  <2> SUFFICES ASSUME NEW i \in 1 .. k + 1 PROVE e[i + 1] = e[i] + Len(other[more[i]])
    OBVIOUS
  <2>1. i \in 1 .. k \/ i = k + 1
    BY <1>3
  <2>2. CASE i \in 1 .. k
    <3>1. i + 1 \in 1 .. k + 1
      BY <1>3, <2>2
    <3> QED BY <1>6, <1>7, <1>9, <2>2, <3>1
  <2>3. CASE i = k + 1
    <3>1. i + 1 = k + 2
      BY <1>3, <2>3
    <3> QED BY <1>2, <1>6, <1>9, <2>3, <3>1
  <2> QED BY <2>1, <2>2, <2>3
<1>12. \A i \in 1 .. k + 1 : \A j \in 1 .. Len(other[more[i]]) : r[e[i] + j] = other[more[i]][j]
  <2> SUFFICES ASSUME NEW i \in 1 .. k + 1, NEW j \in 1 .. Len(other[more[i]])
               PROVE  r[e[i] + j] = other[more[i]][j]
    OBVIOUS
  <2>1. i \in 1 .. k \/ i = k + 1
    BY <1>3
  <2>2. CASE i \in 1 .. k
    <3>1. PICK y, z, u : y = at[i] /\ z = at[i + 1] /\ u = Len(other[ids[i]])
      OBVIOUS
    <3>2. i + 1 \in 1 .. k + 1
      BY <1>3, <2>2
    <3>3. y \in Nat /\ z \in Nat /\ z <= m /\ z = y + u /\ u \in Nat
      <4>1. y \in Nat /\ z \in Nat /\ z <= m
        BY <1>9, <3>1, <3>2
      <4>2. z = y + u
        BY <1>7, <2>2, <3>1
      <4>3. u \in Nat
        BY <1>6, <2>2, <3>1 DEF Codes
      <4> QED BY <4>1, <4>2, <4>3
    <3>4. j \in 1 .. u
      BY <1>6, <2>2, <3>1
    <3>5. y + j \in 1 .. m /\ y + j <= m
      BY <1>3, <3>3, <3>4
    <3>6. r[y + j] = b[y + j]
      BY <1>4, <3>5
    <3>7. b[y + j] = other[ids[i]][j]
      BY <1>7, <2>2, <3>1, <3>4, <3>5
    <3>8. e[i] = y /\ more[i] = ids[i]
      BY <1>6, <1>9, <2>2, <3>1
    <3> QED BY <3>6, <3>7, <3>8
  <2>3. CASE i = k + 1
    <3>1. more[i] = n /\ e[i] = m /\ j \in 1 .. l
      BY <1>2, <1>6, <1>9, <2>3
    <3>2. r[m + j] = x[j]
      BY <1>4, <3>1
    <3> QED BY <3>1, <3>2
  <2> QED BY <2>1, <2>2, <2>3
<1>13. Frames(r, more, other, 0)
  <2>1. k + 1 + 1 = k + 2 /\ e[k + 2] = (m + l) + 0
    BY <1>3, <1>9
  <2>2. PICK p : p = k + 1
    OBVIOUS
  <2>3. Len(more) = p /\ Len(r) = m + l /\ p + 1 = k + 2 /\ p = k + 1
    BY <1>4, <1>6, <2>1, <2>2
  <2>4. /\ e \in [1 .. Len(more) + 1 -> Nat] /\ e[1] = 0 /\ e[Len(more) + 1] = Len(r) + 0
        /\ \A i, j \in 1 .. Len(more) + 1 : i <= j => e[i] <= e[j]
    BY <1>9, <1>10, <2>1, <2>3
  <2>5. \A i \in 1 .. Len(more) : e[i + 1] = e[i] + Len(other[more[i]])
    BY <1>11, <2>3
  <2>6. \A i \in 1 .. Len(more) : \A j \in 1 .. Len(other[more[i]]) :
          e[i] + j <= Len(r) => r[e[i] + j] = other[more[i]][j]
    <3>1. Len(more) = k + 1
      BY <1>6
    <3> QED BY <1>12, <3>1, Zenon
  <2> QED BY <2>4, <2>5, <2>6 DEF Frames
<1> QED BY <1>4, <1>6, <1>13

(* The bytes of a message that are read apart are those of the message.       *)
LEMMA ReadApart ==
  ASSUME NEW x \in Byte, NEW p \in Seq(Byte), NEW z \in Nat \ {0}, z <= Len(p) + 1
  PROVE  /\ z <= Len(<<x>> \o p) /\ SubSeq(p, z, Len(p)) \in Seq(Byte)
         /\ Suffix(SubSeq(p, z, Len(p)), <<x>> \o p, z)
         /\ \A w \in Seq(Byte) : Len(w) = z /\ (\A i \in 1 .. z : (<<x>> \o p)[i] = w[i])
                                 => <<x>> \o SubSeq(p, 1, z - 1) = w
<1>0. PICK b, q, v : b = <<x>> \o p /\ q = SubSeq(p, z, Len(p)) /\ v = <<x>> \o SubSeq(p, 1, z - 1)
  OBVIOUS
<1>1. PICK h, k, l, u : h = <<x>> /\ k = Len(h) /\ l = Len(p) /\ u = SubSeq(p, 1, z - 1)
  OBVIOUS
<1>2. h \in Seq(Byte) /\ k = 1 /\ h[1] = x
  BY <1>1
<1>3. /\ l \in Nat /\ b \in Seq(Byte) /\ Len(b) = k + l
      /\ \A i \in 1 .. k : b[i] = h[i]
      /\ \A i \in 1 .. l : b[k + i] = p[i]
  <2>1. b = h \o p
    BY <1>0, <1>1
  <2> QED BY <1>1, <1>2, <2>1, Joined
<1>4. l \in Nat /\ z <= l + 1 /\ Len(b) = 1 + l /\ b[1] = x /\ \A i \in 1 .. l : b[1 + i] = p[i]
  BY <1>1, <1>2, <1>3
<1>5. q \in Seq(Byte) /\ Len(q) = l - z + 1 /\ \A i \in 1 .. l - z + 1 : q[i] = p[z + i - 1]
  <2>1. PICK e : e = l - z + 1
    OBVIOUS
  <2>2. /\ l \in Nat /\ z \in Nat \ {0} /\ z <= l + 1 /\ l <= Len(p) /\ q = SubSeq(p, z, l)
    BY <1>0, <1>1, <1>4
  <2>3. q \in Seq(Byte) /\ Len(q) = e /\ \A i \in 1 .. e : q[i] = p[z + i - 1]
    BY <2>1, <2>2, Part
  <2> QED BY <2>1, <2>3
<1>6. Suffix(q, b, z)
  <2>1. Len(q) = Len(b) - z
    BY <1>4, <1>5
  <2>2. \A i \in 1 .. l - z + 1 : z + i - 1 \in 1 .. l /\ 1 + (z + i - 1) = z + i
    BY <1>4
  <2>3. \A i \in 1 .. l - z + 1 : q[i] = b[z + i]
    BY <1>4, <1>5, <2>2
  <2> QED BY <1>5, <2>1, <2>3 DEF Suffix
<1>7. u \in Seq(Byte) /\ Len(u) = z - 1 /\ \A i \in 1 .. z - 1 : u[i] = p[i]
  <2>1. PICK y, e : y = z - 1 /\ e = y - 1 + 1
    OBVIOUS
  <2>2. y \in Nat /\ 1 <= y + 1 /\ y <= Len(p) /\ u = SubSeq(p, 1, y) /\ e = y
    BY <1>1, <1>4, <2>1
  <2>3. u \in Seq(Byte) /\ Len(u) = e /\ \A i \in 1 .. e : u[i] = p[1 + i - 1]
    BY <2>1, <2>2, Part
  <2>4. \A i \in 1 .. e : 1 + i - 1 = i
    BY <2>2
  <2> QED BY <2>1, <2>2, <2>3, <2>4
<1>8. /\ v \in Seq(Byte) /\ Len(v) = k + Len(u)
      /\ \A i \in 1 .. k : v[i] = h[i]
      /\ \A i \in 1 .. Len(u) : v[k + i] = u[i]
  <2>1. v = h \o u
    BY <1>0, <1>1
  <2>2. PICK e : e = Len(u)
    OBVIOUS
  <2> QED BY <1>1, <1>2, <1>7, <2>1, <2>2, Joined
<1>9. ASSUME NEW w \in Seq(Byte), Len(w) = z, \A i \in 1 .. z : b[i] = w[i] PROVE v = w
  <2>1. Len(v) = z
    BY <1>2, <1>7, <1>8
  <2>2. \A i \in 1 .. z : i = 1 \/ (i - 1 \in 1 .. z - 1 /\ i - 1 \in 1 .. l /\ 1 + (i - 1) = i)
    BY <1>4
  <2>3. v[1] = b[1] /\ \A i \in 1 .. z - 1 : v[1 + i] = b[1 + i]
    <3>1. v[1] = b[1]
      BY <1>2, <1>4, <1>8
    <3>2. \A i \in 1 .. z - 1 : i \in 1 .. l /\ v[1 + i] = u[i]
      BY <1>2, <1>4, <1>7, <1>8
    <3> QED BY <1>4, <1>7, <3>1, <3>2
  <2>4. \A i \in 1 .. z : v[i] = b[i]
    BY <2>2, <2>3
  <2>5. \A i \in 1 .. Len(v) : v[i] = w[i]
    BY <1>9, <2>1, <2>4
  <2> QED BY <1>8, <1>9, <2>1, <2>5, SeqEqual
<1>10. z <= Len(b)
  BY <1>4
<1> QED BY <1>0, <1>5, <1>6, <1>9, <1>10

----------------------------------------------------------------------------
(* The Python side.  A message of a simulator is known by its number.         *)
Sent(n) == Message(sentOn[n].channel, <<n>>)

Code == [n \in DOMAIN sentOn |-> toBytes(Sent(n))]

(* The bytes a simulator has written, from the first one of a message on.     *)
Unread(s) == IF s = reader /\ pyRecvAt = "rest" THEN <<size>> \o toPy[s] ELSE toPy[s]

(* The numbers of the messages in a queue.                                    *)
Firsts(q) == [i \in DOMAIN q |-> q[i][1]]

Got(c) == Firsts(recvQueues[c])

PyTypes ==
    /\ {connEst, connTerm, pyRecvCurr, pyPushed} \subseteq Nat
    /\ {socket, reader, sims} \subseteq 0 .. MaxSims
    /\ simUp \in BOOLEAN /\ (simUp => sims > 0)
    /\ toPy \in [1 .. MaxSims -> Seq(Byte)] /\ size \in Byte
    /\ sentOn \in Seq([channel : Channels, sim : 1 .. MaxSims])
    /\ recvQueues \in [Channels -> Seq({<<n>> : n \in Nat})]
    /\ pyConnAt \in {"open", "await"}
    /\ pyRecvAt \in {"wait", "size", "rest", "push", "abort"}
    /\ pySendAt \in {"pull", "wait"}

(* A connection ends when its simulator has ended, and the next one leads to  *)
(* another simulator.                                                         *)
Connected ==
    /\ connTerm <= pyRecvCurr /\ pyRecvCurr <= connEst
    /\ reader <= socket /\ socket <= sims /\ (connEst > 0 => socket > 0)
    /\ pyConnAt = "open" => connEst <= connTerm
    /\ pyRecvAt # "wait" => connTerm < pyRecvCurr /\ pyRecvCurr = connEst
    /\ IF pyRecvCurr = connEst THEN reader = socket ELSE reader < socket /\ connTerm = pyRecvCurr
    /\ connTerm = connEst => ~Alive(socket)
    /\ pyRecvAt = "abort" => ~Alive(reader)
    /\ \A s \in broken : s \in 0 .. sims /\ ~Alive(s)

(* The simulators that are read, now or later.                                *)
Readable(s) ==
    \/ s > reader
    \/ s = reader /\ pyRecvAt # "abort" /\ connTerm < pyRecvCurr /\ pyRecvCurr = connEst

(* What is unread of them are whole messages, but for the last one of a       *)
(* simulator that has ended, and newer than what was received.                *)
Framed(ids) ==
    /\ ids \in [1 .. MaxSims -> Seq(DOMAIN sentOn)]
    /\ \A s \in 1 .. MaxSims :
         /\ Rises(ids[s])
         /\ \A t \in 1 .. MaxSims : s < t => Below(ids[s], ids[t])
         /\ s > sims => toPy[s] = <<>> /\ ids[s] = <<>>
         /\ Readable(s) =>
              /\ \E cut \in Nat : Frames(Unread(s), ids[s], Code, cut) /\ (Alive(s) => cut = 0)
              /\ \A c \in Channels : Below(Got(c), ids[s])

(* Between the two a message may stand in the gate.                           *)
Taken(ids, n) ==
    /\ n \in DOMAIN sentOn /\ recvPipe = Sent(n)
    /\ \A s \in 1 .. MaxSims : Readable(s) => Below(<<n>>, ids[s])
    /\ \A c \in Channels : Below(Got(c), <<n>>)

ReceivedInOrder ==
    /\ \A c \in Channels :
         /\ Rises(Got(c))
         /\ \A i \in DOMAIN Got(c) : Got(c)[i] \in DOMAIN sentOn /\ sentOn[Got(c)[i]].channel = c
    /\ pyRecvAt = "push" <=> recvPipe # None
    /\ \E ids : Framed(ids) /\ (recvPipe # None => \E n : Taken(ids, n))

(* The other way: a queue, two places for one message, the simulators.        *)
Outgoing == [channel : Channels, data : {<<n>> : n \in Nat}]

Numbers(s) == [i \in DOMAIN s |-> s[i].data[1]]

Placed(msg) == IF msg = None THEN <<>> ELSE <<msg.data[1]>>

OutInOrder ==
    /\ pySendQueue \in Seq(Outgoing) /\ {sendPipe, sendMsg} \subseteq Outgoing \cup {None}
    /\ pySendAt = "wait" => sendMsg # None
    /\ simGot \in Seq(Nat) /\ Rises(simGot) /\ Rises(Numbers(pySendQueue))
    /\ UpTo(Numbers(pySendQueue), pyPushed)
    /\ Below(simGot, Placed(sendMsg)) /\ Below(simGot, Placed(sendPipe))
    /\ Below(simGot, Numbers(pySendQueue)) /\ Below(Placed(sendMsg), Placed(sendPipe))
    /\ Below(Placed(sendMsg), Numbers(pySendQueue)) /\ Below(Placed(sendPipe), Numbers(pySendQueue))
    /\ UpTo(simGot, pyPushed) /\ UpTo(Placed(sendMsg), pyPushed) /\ UpTo(Placed(sendPipe), pyPushed)

PyInv == PyTypes /\ Connected /\ ReceivedInOrder /\ OutInOrder

----------------------------------------------------------------------------
(* What is known of the messages and queues.                                  *)
(* Each message that was sent has a code, and the code gives it back.         *)
LEMMA Coding ==
  ASSUME PyTypes
  PROVE  /\ DOMAIN sentOn = 1 .. Len(sentOn) /\ Len(sentOn) \in Nat
         /\ Codes(Code, DOMAIN sentOn)
         /\ \A n \in DOMAIN sentOn :
              n \in Nat /\ sentOn[n].channel \in Channels /\ fromBytes(Code[n]) = Sent(n) /\ Sent(n) # None
<1>1. DOMAIN sentOn = 1 .. Len(sentOn) /\ Len(sentOn) \in Nat
  BY LenProperties DEF PyTypes
<1>2. ASSUME NEW n \in DOMAIN sentOn
      PROVE  /\ n \in Nat /\ sentOn[n].channel \in Channels
             /\ Code[n] \in Seq(Byte) /\ Len(Code[n]) > 1 /\ Code[n][1] = Len(Code[n])
             /\ fromBytes(Code[n]) = Sent(n) /\ Sent(n) # None
  <2>1. PICK c : c = sentOn[n].channel
    OBVIOUS
  <2>2. n \in Nat /\ c \in Channels
    <3>1. sentOn \in Seq([channel : Channels, sim : 1 .. MaxSims]) /\ n \in 1 .. Len(sentOn)
      BY <1>1 DEF PyTypes
    <3>2. sentOn[n] \in [channel : Channels, sim : 1 .. MaxSims]
      BY <3>1, ElementOfSeq
    <3> QED BY <1>1, <2>1, <3>1, <3>2
  <2>3. PICK r : r = Code[n]
    OBVIOUS
  <2>4. r = toBytes(Message(c, <<n>>)) /\ Sent(n) = Message(c, <<n>>)
    BY <2>1, <2>3 DEF Code, Sent
  <2>5. r \in Seq(Byte) /\ Len(r) > 1 /\ r[1] = Len(r) /\ fromBytes(r) = Message(c, <<n>>)
    BY <2>2, <2>4, RoundTrip
  <2>6. Message(c, <<n>>) # None
    <3>1. <<n>> \in Seq(Nat)
      BY <2>2
    <3>2. Message(c, <<n>>) \in [channel : Channels, data : Seq(Nat)]
      BY <2>2, <3>1 DEF Message
    <3> QED BY <3>2, PyConnectionAssumption
  <2> QED BY <2>1, <2>2, <2>3, <2>4, <2>5, <2>6
<1> QED BY <1>1, <1>2 DEF Codes

LEMMA Numbering ==
  ASSUME PyTypes
  PROVE  /\ connEst \in Nat /\ connTerm \in Nat /\ pyRecvCurr \in Nat
         /\ socket \in Nat /\ reader \in Nat /\ sims \in Nat /\ sims <= MaxSims /\ MaxSims \in Nat
         /\ simUp => sims \in 1 .. MaxSims
BY PyConnectionAssumption DEF PyTypes

(* What the queues of the channels hold.                                      *)
LEMMA FirstsOf ==
  ASSUME NEW q \in Seq({<<n>> : n \in Nat})
  PROVE  /\ Firsts(q) \in Seq(Nat)
         /\ \A n \in Nat : Append(q, <<n>>) \in Seq({<<m>> : m \in Nat}) /\ Firsts(Append(q, <<n>>)) = Append(Firsts(q), n)
<1>1. ASSUME NEW s \in Seq({<<n>> : n \in Nat}), NEW t, t = Firsts(s)
      PROVE  t \in Seq(Nat) /\ Len(t) = Len(s) /\ \A i \in 1 .. Len(s) : t[i] = s[i][1]
  <2>1. PICK k : k = Len(s)
    OBVIOUS
  <2>2. k \in Nat /\ DOMAIN s = 1 .. k /\ \A i \in 1 .. k : s[i] \in {<<n>> : n \in Nat}
    BY <1>1, <2>1, ElementOfSeq
  <2>3. \A i \in 1 .. k : s[i][1] \in Nat
    BY <2>2
  <2>4. t = [i \in 1 .. k |-> s[i][1]]
    BY <1>1, <2>2 DEF Firsts
  <2>5. t \in [1 .. k -> Nat]
    BY <2>3, <2>4
  <2>6. t \in Seq(Nat)
    BY <2>2, <2>5, SeqDef
  <2>7. Len(t) = k
    BY <2>2, <2>5, <2>6
  <2> QED BY <2>1, <2>4, <2>6, <2>7
<1>2. ASSUME NEW n \in Nat
      PROVE  Append(q, <<n>>) \in Seq({<<m>> : m \in Nat}) /\ Firsts(Append(q, <<n>>)) = Append(Firsts(q), n)
  <2>1. PICK o, s, k : o = <<n>> /\ s = Append(q, o) /\ k = Len(q)
    OBVIOUS
  <2>2. o \in {<<m>> : m \in Nat} /\ o[1] = n
    BY <2>1
  <2>3. /\ k \in Nat
        /\ s \in Seq({<<m>> : m \in Nat}) /\ Len(s) = k + 1 /\ s[k + 1] = o /\ \A i \in 1 .. k : s[i] = q[i]
    BY <2>1, <2>2, AppendProperties
  <2>4. PICK g, t, u : g = Firsts(q) /\ t = Firsts(s) /\ u = Append(g, n)
    OBVIOUS
  <2>5. g \in Seq(Nat) /\ Len(g) = k /\ \A i \in 1 .. k : g[i] = q[i][1]
    BY <1>1, <2>1, <2>4
  <2>6. t \in Seq(Nat) /\ Len(t) = k + 1 /\ \A i \in 1 .. k + 1 : t[i] = s[i][1]
    <3>1. s \in Seq({<<m>> : m \in Nat}) /\ Len(s) = k + 1
      BY <2>3
    <3>2. t \in Seq(Nat) /\ Len(t) = Len(s) /\ \A i \in 1 .. Len(s) : t[i] = s[i][1]
      BY <1>1, <2>4, <3>1
    <3> QED BY <3>1, <3>2
  <2>7. u \in Seq(Nat) /\ Len(u) = k + 1 /\ u[k + 1] = n /\ \A i \in 1 .. k : u[i] = g[i]
    BY <2>4, <2>5, AppendProperties
  <2>8. \A i \in 1 .. k + 1 : t[i] = u[i]
    <3>1. \A i \in 1 .. k : t[i] = q[i][1] /\ u[i] = q[i][1]
      <4>1. \A i \in 1 .. k : i \in 1 .. k + 1
        BY <2>3
      <4> QED BY <2>3, <2>5, <2>6, <2>7, <4>1
    <3>2. t[k + 1] = n /\ u[k + 1] = n
      <4>1. k + 1 \in 1 .. k + 1
        BY <2>3
      <4> QED BY <2>2, <2>3, <2>6, <2>7, <4>1
    <3>3. \A i \in 1 .. k + 1 : i \in 1 .. k \/ i = k + 1
      BY <2>3
    <3> QED BY <3>1, <3>2, <3>3
  <2>9. t = u
    <3>1. Len(t) = Len(u) /\ \A i \in 1 .. Len(t) : t[i] = u[i]
      BY <2>6, <2>7, <2>8
    <3> QED BY <2>6, <2>7, <3>1, SeqEqual
  <2> QED BY <2>1, <2>3, <2>4, <2>9
<1> QED BY <1>1, <1>2

LEMMA GotLists ==
  ASSUME PyTypes
  PROVE  \A c \in Channels : Got(c) \in Seq(Nat) /\ recvQueues[c] \in Seq({<<n>> : n \in Nat})
<1>1. \A c \in Channels : recvQueues[c] \in Seq({<<n>> : n \in Nat})
  BY DEF PyTypes
<1> QED BY <1>1, FirstsOf DEF Got

LEMMA IdsLists ==
  ASSUME PyTypes, NEW ids, Framed(ids), NEW s \in 1 .. MaxSims
  PROVE  ids[s] \in Seq(DOMAIN sentOn) /\ ids[s] \in Seq(Nat)
<1>1. ids[s] \in Seq(DOMAIN sentOn)
  BY DEF Framed
<1>2. DOMAIN sentOn \subseteq Nat
  BY Coding
<1> QED BY <1>1, <1>2, SeqMonotonic

LEMMA Out ==
  ASSUME NEW msg \in Outgoing
  PROVE  /\ msg # None /\ msg.data[1] \in Nat /\ Placed(msg) = <<msg.data[1]>> /\ Placed(msg) \in Seq(Nat)
         /\ fromBytes(toBytes(msg)).data[1] = msg.data[1]
<1>1. PICK c, n : c = msg.channel /\ n = msg.data[1]
  OBVIOUS
<1>2. c \in Channels /\ n \in Nat /\ msg.data = <<n>>
  BY <1>1 DEF Outgoing
<1>3. msg = Message(c, <<n>>)
  BY <1>1, <1>2 DEF Message, Outgoing
<1>4. msg # None
  <2>1. <<n>> \in Seq(Nat)
    BY <1>2
  <2>2. Message(c, <<n>>) \in [channel : Channels, data : Seq(Nat)]
    BY <1>2, <2>1 DEF Message
  <2> QED BY <1>3, <2>2, PyConnectionAssumption
<1>5. fromBytes(toBytes(msg)).data[1] = n
  <2>1. PICK r : r = toBytes(Message(c, <<n>>))
    OBVIOUS
  <2>2. fromBytes(r) = Message(c, <<n>>)
    BY <1>2, <2>1, RoundTrip
  <2>3. Message(c, <<n>>).data[1] = n
    BY DEF Message
  <2> QED BY <1>3, <2>1, <2>2, <2>3
<1> QED BY <1>1, <1>2, <1>4, <1>5 DEF Placed

LEMMA NumbersOf ==
  ASSUME NEW q \in Seq(Outgoing), NEW p, p = Numbers(q)
  PROVE  /\ p \in Seq(Nat) /\ Len(p) = Len(q)
         /\ q # <<>> => p # <<>> /\ Head(q) \in Outgoing /\ p[1] = Head(q).data[1] /\ Numbers(Tail(q)) = Tail(p)
         /\ \A msg \in Outgoing : Numbers(Append(q, msg)) = Append(p, msg.data[1])
<1>1. \A x \in Outgoing : x.data[1] \in Nat
  BY Out
<1>2. ASSUME NEW s \in Seq(Outgoing), NEW t, t = Numbers(s)
      PROVE  t \in Seq(Nat) /\ Len(t) = Len(s) /\ \A i \in 1 .. Len(s) : t[i] = s[i].data[1]
  <2>1. Len(s) \in Nat /\ DOMAIN s = 1 .. Len(s) /\ \A i \in 1 .. Len(s) : s[i] \in Outgoing
    BY <1>2, ElementOfSeq
  <2>2. PICK k : k = Len(s)
    OBVIOUS
  <2>3. k \in Nat /\ t = [i \in 1 .. k |-> s[i].data[1]] /\ \A i \in 1 .. k : s[i].data[1] \in Nat
    BY <1>1, <1>2, <2>1, <2>2 DEF Numbers
  <2>4. t \in [1 .. k -> Nat]
    BY <2>3
  <2>5. t \in Seq(Nat)
    BY <2>3, <2>4, SeqDef
  <2>6. Len(t) = k
    BY <2>3, <2>4, <2>5
  <2> QED BY <2>2, <2>3, <2>5, <2>6
<1>3. p \in Seq(Nat) /\ Len(p) = Len(q) /\ \A i \in 1 .. Len(q) : p[i] = q[i].data[1]
  BY <1>2
<1>4. ASSUME q # <<>>
      PROVE  p # <<>> /\ Head(q) \in Outgoing /\ p[1] = Head(q).data[1] /\ Numbers(Tail(q)) = Tail(p)
  <2>1. PICK s, k : s = Tail(q) /\ k = Len(q) - 1
    OBVIOUS
  <2>2. /\ Head(q) = q[1] /\ Head(q) \in Outgoing /\ k \in Nat /\ Len(q) = k + 1
        /\ s \in Seq(Outgoing) /\ Len(s) = k /\ \A i \in 1 .. k : s[i] = q[i + 1]
    <3>1. Len(q) \in Nat \ {0} /\ Head(q) = q[1]
      BY <1>4
    <3>2. k \in Nat /\ Len(q) = k + 1
      BY <2>1, <3>1
    <3> QED BY <1>4, <2>1, <3>1, <3>2, HeadTailProperties
  <2>3. /\ p # <<>> /\ p[1] = Head(q).data[1]
    BY <1>3, <2>2
  <2>4. PICK t, u : t = Numbers(s) /\ u = Tail(p)
    OBVIOUS
  <2>5. t \in Seq(Nat) /\ Len(t) = k /\ \A i \in 1 .. k : t[i] = s[i].data[1]
    BY <1>2, <2>2, <2>4
  <2>6. u \in Seq(Nat) /\ Len(u) = k /\ \A i \in 1 .. k : u[i] = p[i + 1]
    <3>1. Len(p) - 1 = k
      BY <1>3, <2>2
    <3> QED BY <1>3, <2>3, <2>4, <3>1, HeadTailProperties
  <2>7. \A i \in 1 .. k : p[i + 1] = q[i + 1].data[1]
    <3>1. \A i \in 1 .. k : i + 1 \in 1 .. Len(q)
      BY <2>2
    <3> QED BY <1>3, <3>1
  <2>8. \A i \in 1 .. k : t[i] = u[i]
    BY <2>2, <2>5, <2>6, <2>7
  <2>9. t = u
    BY <2>5, <2>6, <2>8, SeqEqual
  <2> QED BY <2>1, <2>2, <2>3, <2>4, <2>9
<1>5. ASSUME NEW msg \in Outgoing PROVE Numbers(Append(q, msg)) = Append(p, msg.data[1])
  <2>1. PICK s, k, n : s = Append(q, msg) /\ k = Len(q) /\ n = msg.data[1]
    OBVIOUS
  <2>2. /\ k \in Nat /\ n \in Nat
        /\ s \in Seq(Outgoing) /\ Len(s) = k + 1 /\ s[k + 1] = msg /\ \A i \in 1 .. k : s[i] = q[i]
    BY <1>1, <2>1, AppendProperties
  <2>3. PICK t, u : t = Numbers(s) /\ u = Append(p, n)
    OBVIOUS
  <2>4. t \in Seq(Nat) /\ Len(t) = k + 1 /\ \A i \in 1 .. k + 1 : t[i] = s[i].data[1]
    <3>1. s \in Seq(Outgoing) /\ Len(s) = k + 1
      BY <2>2
    <3>2. t \in Seq(Nat) /\ Len(t) = Len(s) /\ \A i \in 1 .. Len(s) : t[i] = s[i].data[1]
      BY <1>2, <2>3, <3>1
    <3> QED BY <3>1, <3>2
  <2>5. u \in Seq(Nat) /\ Len(u) = k + 1 /\ u[k + 1] = n /\ \A i \in 1 .. k : u[i] = p[i]
    BY <1>3, <2>1, <2>2, <2>3, AppendProperties
  <2>6. \A i \in 1 .. k + 1 : i \in 1 .. k \/ i = k + 1
    BY <2>2
  <2>7. \A i \in 1 .. k + 1 : t[i] = u[i]
    <3>1. \A i \in 1 .. k : t[i] = q[i].data[1] /\ u[i] = q[i].data[1]
      <4>1. \A i \in 1 .. k : i \in 1 .. k + 1 /\ i \in 1 .. Len(q)
        BY <2>1, <2>2
      <4> QED BY <1>3, <2>2, <2>4, <2>5, <4>1
    <3>2. t[k + 1] = n /\ u[k + 1] = n
      <4>1. k + 1 \in 1 .. k + 1
        BY <2>2
      <4> QED BY <2>1, <2>2, <2>4, <2>5, <4>1
    <3> QED BY <2>6, <3>1, <3>2
  <2>8. t = u
    BY <2>4, <2>5, <2>7, SeqEqual
  <2> QED BY <2>1, <2>3, <2>8
<1> QED BY <1>3, <1>4, <1>5

LEMMA OutLists ==
  ASSUME OutInOrder
  PROVE  /\ simGot \in Seq(Nat) /\ Placed(sendMsg) \in Seq(Nat) /\ Placed(sendPipe) \in Seq(Nat)
         /\ Numbers(pySendQueue) \in Seq(Nat) /\ pySendQueue \in Seq(Outgoing)
         /\ sendPipe # None => sendPipe \in Outgoing
         /\ sendMsg # None => sendMsg \in Outgoing
<1>1. simGot \in Seq(Nat) /\ {sendPipe, sendMsg} \subseteq Outgoing \cup {None} /\ pySendQueue \in Seq(Outgoing)
  BY DEF OutInOrder
<1>2. Placed(None) \in Seq(Nat)
  BY DEF Placed
<1>3. Placed(sendMsg) \in Seq(Nat) /\ Placed(sendPipe) \in Seq(Nat)
  BY <1>1, <1>2, Out
<1>4. Numbers(pySendQueue) \in Seq(Nat)
  <2>1. PICK s, p : s = pySendQueue /\ p = Numbers(s)
    OBVIOUS
  <2> QED BY <1>1, <2>1, NumbersOf
<1> QED BY <1>1, <1>3, <1>4

----------------------------------------------------------------------------
(* What the actions that touch no message of a direction leave as it is.      *)
LEMMA PyInitially == PyInit => PyInv
<1> SUFFICES ASSUME PyInit PROVE PyInv
  OBVIOUS
<1>1. \A S : <<>> \in Seq(S) /\ DOMAIN <<>> = {}
  OBVIOUS
<1>2. \A x, n : Rises(<<>>) /\ UpTo(<<>>, n) /\ Below(<<>>, x) /\ Below(x, <<>>)
  BY <1>1 DEF Rises, UpTo, Below
<1>3. PyTypes
  <2>1. {connEst, connTerm, pyRecvCurr, pyPushed} \subseteq Nat
    BY DEF PyInit
  <2>2. {socket, reader, sims} \subseteq 0 .. MaxSims
    BY PyConnectionAssumption DEF PyInit
  <2>3. toPy \in [1 .. MaxSims -> Seq(Byte)] /\ size \in Byte /\ recvQueues \in [Channels -> Seq({<<n>> : n \in Nat})]
    BY <1>1 DEF PyInit, Byte
  <2>4. sentOn \in Seq([channel : Channels, sim : 1 .. MaxSims])
    BY <1>1 DEF PyInit
  <2> QED BY <2>1, <2>2, <2>3, <2>4 DEF PyInit, PyTypes
<1>4. Connected
  BY DEF PyInit, Connected, Alive
<1>5. Placed(None) = <<>> /\ Numbers(<<>>) = <<>>
  BY DEF Placed, Numbers
<1>6. OutInOrder
  BY <1>1, <1>2, <1>5 DEF PyInit, OutInOrder
<1>7. \A c \in Channels : Got(c) = <<>>
  BY DEF Got, Firsts, PyInit
<1>8. PICK ids : ids = [s \in 1 .. MaxSims |-> <<>>]
  OBVIOUS
<1>9. Framed(ids)
  <2>1. \A s \in 1 .. MaxSims : Unread(s) = <<>>
    BY DEF Unread, PyInit
  <2>2. \A s \in 1 .. MaxSims : Frames(<<>>, <<>>, Code, 0)
    BY FramesNone
  <2> QED BY <1>1, <1>2, <1>7, <1>8, <2>1, <2>2 DEF Framed, PyInit
<1>10. ReceivedInOrder
  BY <1>1, <1>2, <1>7, <1>9 DEF ReceivedInOrder, PyInit
<1> QED BY <1>3, <1>4, <1>6, <1>10 DEF PyInv

(* What the receiving side may do without touching a message.                 *)
LEMMA ReceivedKept ==
  ASSUME ReceivedInOrder, UNCHANGED <<sentOn, recvQueues, recvPipe, sims>>,
         pyRecvAt' = "push" <=> pyRecvAt = "push",
         \A s \in 1 .. MaxSims : s > sims => toPy'[s] = toPy[s],
         \A s \in 1 .. MaxSims : Readable(s)' => Readable(s) /\ Unread(s)' = Unread(s),
         \A s \in 1 .. MaxSims : Alive(s)' => Alive(s)
  PROVE  ReceivedInOrder'
<1>1. Code' = Code /\ (\A c \in Channels : Got(c)' = Got(c)) /\ (\A n : Sent(n)' = Sent(n))
  BY DEF Code, Got, Sent
<1>2. ASSUME NEW ids, Framed(ids) PROVE Framed(ids)'
  BY <1>1, <1>2 DEF Framed
<1>3. ASSUME NEW ids, NEW n, Taken(ids, n) PROVE Taken(ids, n)'
  BY <1>1, <1>3 DEF Taken
<1> QED BY <1>1, <1>2, <1>3 DEF ReceivedInOrder

LEMMA OutKept ==
  ASSUME OutInOrder, UNCHANGED <<sendPipe, sendMsg, pySendQueue, pyPushed, pySendAt, simGot>>
  PROVE  OutInOrder'
<1>1. /\ Placed(sendMsg)' = Placed(sendMsg) /\ Placed(sendPipe)' = Placed(sendPipe)
      /\ Numbers(pySendQueue)' = Numbers(pySendQueue)
  BY DEF Placed, Numbers
<1> QED BY <1>1 DEF OutInOrder

----------------------------------------------------------------------------
(* The way out: ccPush, ccRunSender and ccRunSend.                            *)
LEMMA PyPushOrder ==
  ASSUME OutInOrder, pyPushed \in Nat, NEW c \in Channels, PyPush(c)
  PROVE  OutInOrder'
<1>1. PICK m, q, p : m = Message(c, <<pyPushed + 1>>) /\ q = Numbers(pySendQueue) /\ p = pyPushed
  OBVIOUS
<1>2. p \in Nat /\ m \in Outgoing /\ m.data[1] = p + 1 /\ pySendQueue \in Seq(Outgoing)
  BY <1>1 DEF Message, Outgoing, OutInOrder
<1>3. /\ pyPushed' = p + 1 /\ pySendQueue' = Append(pySendQueue, m)
      /\ sendPipe' = sendPipe /\ sendMsg' = sendMsg /\ simGot' = simGot /\ pySendAt' = pySendAt
  BY <1>1 DEF PyPush, pyTasks, simSide
<1>4. q \in Seq(Nat) /\ pySendQueue' \in Seq(Outgoing) /\ Numbers(pySendQueue') = Append(q, p + 1)
  <2>1. PICK s : s = pySendQueue
    OBVIOUS
  <2>2. s \in Seq(Outgoing) /\ q = Numbers(s)
    BY <1>1, <1>2, <2>1
  <2>3. q \in Seq(Nat) /\ Numbers(Append(s, m)) = Append(q, m.data[1])
    BY <1>2, <2>2, NumbersOf
  <2>4. Append(s, m) \in Seq(Outgoing)
    BY <1>2, <2>2, AppendProperties
  <2> QED BY <1>2, <1>3, <2>1, <2>3, <2>4
<1>5. PICK x, y, z : x = simGot /\ y = Placed(sendMsg) /\ z = Placed(sendPipe)
  OBVIOUS
<1>6. /\ x \in Seq(Nat) /\ y \in Seq(Nat) /\ z \in Seq(Nat)
      /\ Rises(x) /\ Rises(q) /\ UpTo(q, p) /\ UpTo(x, p) /\ UpTo(y, p) /\ UpTo(z, p)
      /\ Below(x, y) /\ Below(x, z) /\ Below(y, z) /\ Below(x, q) /\ Below(y, q) /\ Below(z, q)
  <2>1. x \in Seq(Nat) /\ {sendPipe, sendMsg} \subseteq Outgoing \cup {None}
    BY <1>5 DEF OutInOrder
  <2>2. Placed(None) \in Seq(Nat)
    BY DEF Placed
  <2>3. y \in Seq(Nat) /\ z \in Seq(Nat)
    BY <1>5, <2>1, <2>2, Out
  <2> QED BY <1>1, <1>5, <2>1, <2>3 DEF OutInOrder
<1>7. PICK r : r = Append(q, p + 1)
  OBVIOUS
<1>8. /\ r \in Seq(Nat) /\ Rises(r) /\ UpTo(r, p + 1)
      /\ \A v \in Seq(Nat) : Below(v, q) /\ UpTo(v, p) => Below(v, r)
  BY <1>2, <1>4, <1>6, <1>7, Numbered
<1>9. Below(x, r) /\ Below(y, r) /\ Below(z, r)
  BY <1>6, <1>8
<1>10. \A v \in Seq(Nat) : UpTo(v, p) => UpTo(v, p + 1)
  <2>1. \A v \in Seq(Nat) : \A i \in DOMAIN v : v[i] \in Nat
    BY Lists
  <2> QED BY <1>2, <2>1 DEF UpTo
<1>11. UpTo(x, p + 1) /\ UpTo(y, p + 1) /\ UpTo(z, p + 1)
  BY <1>6, <1>10
<1>12. Placed(sendMsg)' = y /\ Placed(sendPipe)' = z /\ simGot' = x /\ Numbers(pySendQueue)' = r
  <2>1. Placed(sendMsg)' = y /\ Placed(sendPipe)' = z
    BY <1>3, <1>5 DEF Placed
  <2> QED BY <1>3, <1>4, <1>5, <1>7, <2>1
<1>13. ({sendPipe, sendMsg} \subseteq Outgoing \cup {None})' /\ (pySendAt = "wait" => sendMsg # None)'
  BY <1>3 DEF OutInOrder, Outgoing
<1> QED BY <1>3, <1>4, <1>6, <1>8, <1>9, <1>11, <1>12, <1>13 DEF OutInOrder

LEMMA RunSenderOrder ==
  ASSUME OutInOrder, pyPushed \in Nat, RunSender
  PROVE  OutInOrder'
<1>1. PICK s, q, p, n, h : /\ s = pySendQueue /\ q = Numbers(s) /\ p = pyPushed
                         /\ n = q[1] /\ h = <<n>>
  OBVIOUS
<1>2. /\ s # <<>> /\ sendPipe = None /\ sendPipe' = Head(s) /\ pySendQueue' = Tail(s)
      /\ pyPushed' = p /\ sendMsg' = sendMsg /\ simGot' = simGot /\ pySendAt' = pySendAt
  BY <1>1 DEF RunSender, pyTasks, simSide
<1>3. /\ s \in Seq(Outgoing) /\ p \in Nat
  BY <1>1, OutLists
<1>4. /\ q \in Seq(Nat) /\ q # <<>> /\ Head(s) \in Outgoing /\ q[1] = Head(s).data[1]
      /\ Numbers(Tail(s)) = Tail(q)
  BY <1>1, <1>2, <1>3, NumbersOf
<1>5. PICK x, y, t : x = simGot /\ y = Placed(sendMsg) /\ t = Tail(q)
  OBVIOUS
<1>6. /\ x \in Seq(Nat) /\ y \in Seq(Nat)
      /\ Rises(x) /\ Rises(q) /\ UpTo(q, p) /\ UpTo(x, p) /\ UpTo(y, p)
      /\ Below(x, y) /\ Below(x, q) /\ Below(y, q)
  BY <1>1, <1>5, OutLists DEF OutInOrder
<1>7. /\ t \in Seq(Nat) /\ h \in Seq(Nat) /\ Rises(t) /\ Below(h, t)
      /\ Below(x, h) /\ Below(x, t) /\ Below(y, h) /\ Below(y, t) /\ UpTo(h, p) /\ UpTo(t, p)
  <2>1. /\ t \in Seq(Nat) /\ h \in Seq(Nat)
        /\ Rises(q) => Rises(t) /\ Below(h, t)
        /\ \A v \in Seq(Nat) : Below(v, q) => Below(v, h) /\ Below(v, t)
        /\ \A m \in Nat : UpTo(q, m) => UpTo(h, m) /\ UpTo(t, m)
    <3>1. q \in Seq(Nat) /\ q # <<>> /\ t = Tail(q) /\ n = q[1] /\ h = <<n>>
      BY <1>1, <1>4, <1>5
    <3>2. t \in Seq(Nat) /\ h \in Seq(Nat) /\ (Rises(q) => Rises(t) /\ Below(h, t))
      BY <3>1, TakenFirst
    <3>3. \A v \in Seq(Nat) : Below(v, q) => Below(v, h) /\ Below(v, t)
      BY <3>1, TakenFirst
    <3>4. \A m \in Nat : UpTo(q, m) => UpTo(h, m) /\ UpTo(t, m)
      BY <3>1, TakenFirst
    <3> QED BY <3>2, <3>3, <3>4
  <2> QED BY <1>3, <1>6, <2>1
<1>8. Placed(sendMsg)' = y /\ Placed(sendPipe)' = h /\ simGot' = x /\ Numbers(pySendQueue)' = t
  <2>1. Placed(sendMsg)' = y
    BY <1>2, <1>5 DEF Placed
  <2>2. Placed(Head(s)) = h
    BY <1>1, <1>4, Out
  <2>3. Placed(sendPipe)' = h
    BY <1>2, <2>2 DEF Placed
  <2> QED BY <1>2, <1>4, <1>5, <2>1, <2>3
<1>9. (pySendQueue \in Seq(Outgoing))'
  <2>1. Tail(s) \in Seq(Outgoing)
    BY <1>2, <1>3, HeadTailProperties
  <2> QED BY <1>2, <2>1 DEF Outgoing
<1>10. ({sendPipe, sendMsg} \subseteq Outgoing \cup {None})' /\ (pySendAt = "wait" => sendMsg # None)'
  BY <1>2, <1>4 DEF OutInOrder, Outgoing
<1> QED BY <1>2, <1>6, <1>7, <1>8, <1>9, <1>10 DEF OutInOrder

LEMMA PullOrder ==
  ASSUME OutInOrder, Pull
  PROVE  OutInOrder'
<1>1. PICK x, z, q, p : x = simGot /\ z = Placed(sendPipe) /\ q = Numbers(pySendQueue) /\ p = pyPushed
  OBVIOUS
<1>2. /\ sendPipe # None /\ sendMsg' = sendPipe /\ sendPipe' = None
      /\ pySendQueue' = pySendQueue /\ pyPushed' = p /\ simGot' = simGot
  BY <1>1 DEF Pull, simSide
<1>3. /\ x \in Seq(Nat) /\ Rises(x) /\ Rises(q) /\ UpTo(q, p) /\ UpTo(x, p) /\ UpTo(z, p)
      /\ Below(x, z) /\ Below(x, q) /\ Below(z, q)
  BY <1>1 DEF OutInOrder
<1>4. \A v, n : UpTo(<<>>, n) /\ Below(<<>>, v) /\ Below(v, <<>>)
  <2>1. DOMAIN <<>> = {}
    OBVIOUS
  <2> QED BY <2>1 DEF UpTo, Below
<1>5. Placed(sendMsg)' = z /\ Placed(sendPipe)' = <<>> /\ simGot' = x /\ Numbers(pySendQueue)' = q
  BY <1>1, <1>2 DEF Placed, Numbers
<1>6. (pySendQueue \in Seq(Outgoing))'
  BY <1>2 DEF OutInOrder, Outgoing
<1>7. ({sendPipe, sendMsg} \subseteq Outgoing \cup {None})' /\ (pySendAt = "wait" => sendMsg # None)'
  BY <1>2 DEF OutInOrder, Outgoing
<1> QED BY <1>2, <1>3, <1>4, <1>5, <1>6, <1>7 DEF OutInOrder

LEMMA WriteOrder ==
  ASSUME OutInOrder, pyPushed \in Nat, Write
  PROVE  OutInOrder'
<1>1. sendPipe' = sendPipe /\ pySendQueue' = pySendQueue /\ pyPushed' = pyPushed /\ pySendAt = "wait"
  BY DEF Write
<1>2. CASE sendMsg' = sendMsg /\ pySendAt' = pySendAt /\ simGot' = simGot
  BY <1>1, <1>2, OutKept
<1>3. CASE sendMsg' = None /\ pySendAt' = "pull"
           /\ (simGot' = Append(simGot, fromBytes(toBytes(sendMsg)).data[1]) \/ simGot' = simGot)
  <2>1. PICK x, y, z, q, p, n : /\ x = simGot /\ y = Placed(sendMsg) /\ z = Placed(sendPipe)
                                /\ q = Numbers(pySendQueue) /\ p = pyPushed /\ n = sendMsg.data[1]
    OBVIOUS
  <2>2. sendMsg \in Outgoing
    <3>1. sendMsg # None
      BY <1>1 DEF OutInOrder
    <3> QED BY <3>1, OutLists
  <2>3. n \in Nat /\ y = <<n>> /\ fromBytes(toBytes(sendMsg)).data[1] = n
    BY <2>1, <2>2, Out
  <2>4. /\ x \in Seq(Nat) /\ y \in Seq(Nat) /\ z \in Seq(Nat) /\ q \in Seq(Nat) /\ p \in Nat
        /\ Rises(x) /\ Rises(q) /\ UpTo(q, p) /\ UpTo(x, p) /\ UpTo(y, p) /\ UpTo(z, p)
        /\ Below(x, y) /\ Below(x, z) /\ Below(y, z) /\ Below(x, q) /\ Below(y, q) /\ Below(z, q)
    BY <2>1, OutLists DEF OutInOrder
  <2>5. PICK w : w = Append(x, n)
    OBVIOUS
  <2>6. w \in Seq(Nat) /\ Rises(w) /\ Below(w, z) /\ Below(w, q) /\ UpTo(w, p)
    <3>1. /\ w \in Seq(Nat) /\ (Rises(x) /\ Below(x, y) => Rises(w))
          /\ \A v \in Seq(Nat) : Below(x, v) /\ Below(y, v) => Below(w, v)
          /\ \A m \in Nat : UpTo(x, m) /\ n <= m => UpTo(w, m)
      <4>1. x \in Seq(Nat) /\ n \in Nat /\ w = Append(x, n) /\ y = <<n>>
        BY <2>3, <2>4, <2>5
      <4> QED BY <4>1, AppendedLast
    <3>2. n <= p
      <4>1. 1 \in DOMAIN y /\ y[1] = n
        BY <2>3
      <4> QED BY <2>4, <4>1 DEF UpTo
    <3> QED BY <2>4, <3>1, <3>2
  <2>7. (simGot' = w \/ simGot' = x) /\ sendMsg' = None /\ pySendAt' = "pull"
    BY <1>3, <2>1, <2>3, <2>5
  <2>8. Placed(sendMsg)' = <<>> /\ Placed(sendPipe)' = z /\ Numbers(pySendQueue)' = q /\ pyPushed' = p
    BY <1>1, <2>1, <2>7 DEF Placed, Numbers
  <2>9. \A v, m : UpTo(<<>>, m) /\ Below(<<>>, v) /\ Below(v, <<>>)
    <3>1. DOMAIN <<>> = {}
      OBVIOUS
    <3> QED BY <3>1 DEF UpTo, Below
  <2>10. (pySendQueue \in Seq(Outgoing))' /\ ({sendPipe, sendMsg} \subseteq Outgoing \cup {None})'
    BY <1>1, <2>7 DEF OutInOrder, Outgoing
  <2>11. (simGot \in Seq(Nat) /\ Rises(simGot) /\ UpTo(simGot, p) /\ Below(simGot, z) /\ Below(simGot, q))'
    BY <2>4, <2>6, <2>7
  <2>12. (pySendAt = "wait" => sendMsg # None)'
    BY <2>7
  <2> QED BY <2>4, <2>8, <2>9, <2>10, <2>11, <2>12 DEF OutInOrder
<1> QED BY <1>1, <1>2, <1>3 DEF Write

(* These actions touch nothing of what is received.                           *)
OutSteps == (\E c \in Channels : PyPush(c)) \/ RunSender \/ Pull \/ Write

LEMMA OutSame ==
  ASSUME PyTypes, OutSteps
  PROVE  /\ UNCHANGED <<connEst, connTerm, socket, pyConnAt, pyRecvAt, pyRecvCurr, reader, size>>
         /\ UNCHANGED <<recvPipe, recvQueues, simUp, sims, toPy, sentOn>>
         /\ pyPushed' \in Nat /\ pySendAt' \in {"pull", "wait"}
         /\ broken' = broken \/ (broken' = broken \cup {socket} /\ ~Alive(socket))
<1>1. pyPushed \in Nat /\ pySendAt \in {"pull", "wait"}
  BY DEF PyTypes
<1>2. CASE \E c \in Channels : PyPush(c)
  BY <1>1, <1>2 DEF PyPush, pyTasks, simSide
<1>3. CASE RunSender
  BY <1>1, <1>3 DEF RunSender, pyTasks, simSide
<1>4. CASE Pull
  BY <1>1, <1>4 DEF Pull, simSide
<1>5. CASE Write
  BY <1>1, <1>5 DEF Write
<1> QED BY <1>2, <1>3, <1>4, <1>5 DEF OutSteps

LEMMA OutKeeps ==
  ASSUME PyInv, OutSteps
  PROVE  PyInv'
<1> USE DEF PyInv
<1>1. /\ UNCHANGED <<connEst, connTerm, socket, pyConnAt, pyRecvAt, pyRecvCurr, reader, size>>
      /\ UNCHANGED <<recvPipe, recvQueues, simUp, sims, toPy, sentOn>>
      /\ pyPushed' \in Nat /\ pySendAt' \in {"pull", "wait"}
      /\ broken' = broken \/ (broken' = broken \cup {socket} /\ ~Alive(socket))
  BY OutSame
<1>2. PyTypes'
  BY <1>1 DEF PyTypes, Byte
<1>3. \A s : Alive(s)' = Alive(s)
  BY <1>1 DEF Alive
<1>4. Connected'
  <2>1. \A s \in broken' : s \in 0 .. sims /\ ~Alive(s)
    <3>1. socket \in 0 .. sims
      BY DEF Connected, PyTypes
    <3> QED BY <1>1, <3>1 DEF Connected
  <2> QED BY <1>1, <1>3, <2>1 DEF Connected
<1>5. ReceivedInOrder'
  <2>1. \A s \in 1 .. MaxSims : Readable(s)' => Readable(s) /\ Unread(s)' = Unread(s)
    BY <1>1 DEF Readable, Unread
  <2>2. \A s \in 1 .. MaxSims : Alive(s)' => Alive(s)
    BY <1>3
  <2>3. \A s \in 1 .. MaxSims : s > sims => toPy'[s] = toPy[s]
    BY <1>1
  <2>4. pyRecvAt' = "push" <=> pyRecvAt = "push"
    BY <1>1
  <2>5. ReceivedInOrder /\ UNCHANGED <<sentOn, recvQueues, recvPipe, sims>>
    BY <1>1
  <2> QED BY <2>1, <2>2, <2>3, <2>4, <2>5, ReceivedKept
<1>6. OutInOrder'
  <2>1. OutInOrder /\ pyPushed \in Nat
    BY DEF PyTypes
  <2> QED BY <2>1, PyPushOrder, RunSenderOrder, PullOrder, WriteOrder DEF OutSteps
<1> QED BY <1>2, <1>4, <1>5, <1>6

----------------------------------------------------------------------------
(* The tasks that open the socket and read it, where they move no message.    *)
TaskSteps == Open \/ AwaitEnd \/ PyAwaitToRecv \/ ReadFails \/ PyAbort

LEMMA TasksTypes ==
  ASSUME PyInv, TaskSteps
  PROVE  PyTypes'
<1>1. /\ UNCHANGED <<pyPushed, sims, simUp, toPy, size, sentOn, recvQueues, pySendAt>>
      /\ connEst' \in {connEst, connEst + 1} /\ connTerm' \in {connTerm, pyRecvCurr}
      /\ pyRecvCurr' \in {pyRecvCurr, connEst}
      /\ socket' \in {socket, sims} /\ reader' \in {reader, socket}
      /\ pyConnAt' \in {"open", "await"} /\ pyRecvAt' \in {"wait", "size", "rest", "push", "abort"}
  BY DEF TaskSteps, Open, AwaitEnd, PyAwaitToRecv, ReadFails, PyAbort, pyQueues, simSide, PyInv, PyTypes
<1>2. {connEst, connTerm, pyRecvCurr, pyPushed} \subseteq Nat /\ {socket, reader, sims} \subseteq 0 .. MaxSims
  BY DEF PyInv, PyTypes
<1>3. {connEst', connTerm', pyRecvCurr', pyPushed'} \subseteq Nat /\ {socket', reader', sims'} \subseteq 0 .. MaxSims
  BY <1>1, <1>2
<1>4. (/\ simUp \in BOOLEAN /\ (simUp => sims > 0)
       /\ toPy \in [1 .. MaxSims -> Seq(Byte)] /\ size \in Byte
       /\ sentOn \in Seq([channel : Channels, sim : 1 .. MaxSims])
       /\ recvQueues \in [Channels -> Seq({<<n>> : n \in Nat})]
       /\ pySendAt \in {"pull", "wait"})'
  BY <1>1 DEF PyInv, PyTypes, Byte
<1> QED BY <1>1, <1>3, <1>4 DEF PyTypes

LEMMA TasksConnected ==
  ASSUME PyInv, TaskSteps
  PROVE  Connected'
<1> USE Numbering DEF PyInv
<1>0. simUp' = simUp /\ sims' = sims /\ broken' = broken /\ \A s : Alive(s)' = Alive(s)
  BY DEF TaskSteps, Open, AwaitEnd, PyAwaitToRecv, ReadFails, PyAbort, simSide, Alive
<1>1. CASE Open
  <2>1. /\ pyConnAt = "open" /\ simUp /\ connEst' = connEst + 1 /\ socket' = sims /\ pyConnAt' = "await"
        /\ UNCHANGED <<connTerm, pyRecvAt, pyRecvCurr, reader>>
    BY <1>1 DEF Open
  <2>2. connTerm = connEst /\ pyRecvCurr = connEst /\ reader = socket /\ pyRecvAt = "wait"
    BY <2>1 DEF Connected
  <2>3. socket < sims
    <3>1. socket # sims
      BY <2>1, <2>2 DEF Connected, Alive
    <3> QED BY <3>1 DEF Connected
  <2>4. \A s \in broken : s \in 0 .. sims /\ ~Alive(s)
    BY DEF Connected
  <2> QED BY <1>0, <2>1, <2>2, <2>3, <2>4 DEF Connected
<1>2. CASE AwaitEnd
  <2>1. /\ pyConnAt' = "open" => connEst <= connTerm \/ pyConnAt = "open"
        /\ UNCHANGED <<connEst, connTerm, socket, pyRecvAt, pyRecvCurr, reader>>
    BY <1>2 DEF AwaitEnd
  <2> QED BY <1>0, <2>1 DEF Connected
<1>3. CASE PyAwaitToRecv
  <2>1. pyRecvAt = "wait" /\ UNCHANGED <<connEst, connTerm, socket, pyConnAt>>
    BY <1>3 DEF PyAwaitToRecv
  <2>2. CASE connEst > connTerm
    <3>1. pyRecvAt' = "size" /\ pyRecvCurr' = connEst /\ reader' = socket
      BY <1>3, <2>2 DEF PyAwaitToRecv
    <3> QED BY <1>0, <2>1, <2>2, <3>1 DEF Connected
  <2>3. CASE ~(connEst > connTerm)
    <3>1. UNCHANGED <<pyRecvAt, pyRecvCurr, reader>>
      BY <1>3, <2>3 DEF PyAwaitToRecv
    <3> QED BY <1>0, <2>1, <3>1 DEF Connected
  <2> QED BY <2>2, <2>3
<1>4. CASE ReadFails
  <2>1. /\ UNCHANGED <<connEst, connTerm, socket, pyConnAt, pyRecvCurr, reader>>
        /\ pyRecvAt # "wait" /\ pyRecvAt' = "abort" /\ (~Alive(reader) \/ reader \in broken)
    BY <1>4 DEF ReadFails
  <2>2. ~Alive(reader)
    BY <2>1 DEF Connected
  <2> QED BY <1>0, <2>1, <2>2 DEF Connected
<1>5. CASE PyAbort
  <2>1. /\ UNCHANGED <<connEst, socket, pyConnAt, pyRecvCurr, reader>>
        /\ pyRecvAt = "abort" /\ pyRecvAt' = "wait" /\ connTerm' = pyRecvCurr
    BY <1>5 DEF PyAbort
  <2> QED BY <1>0, <2>1 DEF Connected
<1> QED BY <1>1, <1>2, <1>3, <1>4, <1>5 DEF TaskSteps

LEMMA TasksReceived ==
  ASSUME PyInv, TaskSteps
  PROVE  ReceivedInOrder'
<1> USE Numbering DEF PyInv
<1>1. /\ UNCHANGED <<sentOn, recvQueues, recvPipe, sims, toPy, simUp, size>>
      /\ pyRecvAt' = "push" <=> pyRecvAt = "push"
  BY DEF TaskSteps, Open, AwaitEnd, PyAwaitToRecv, ReadFails, PyAbort, simSide, pyQueues
<1>2. \A s \in 1 .. MaxSims : Alive(s)' => Alive(s)
  BY <1>1 DEF Alive
<1>3. \A s \in 1 .. MaxSims : Readable(s)' => Readable(s) /\ (s = reader => s = reader' \/ pyRecvAt # "rest")
                                              /\ (s = reader' /\ pyRecvAt' = "rest" => s = reader /\ pyRecvAt = "rest")
                                              /\ (s = reader /\ pyRecvAt = "rest" => s = reader' /\ pyRecvAt' = "rest")
  <2>1. CASE Open
    BY <2>1 DEF Open, Connected, Readable
  <2>2. CASE AwaitEnd
    BY <2>2 DEF AwaitEnd, Readable
  <2>3. CASE PyAwaitToRecv
    BY <2>3 DEF PyAwaitToRecv, Connected, Readable
  <2>4. CASE ReadFails
    BY <2>4 DEF ReadFails, Readable
  <2>5. CASE PyAbort
    BY <2>5 DEF PyAbort, Readable, Connected
  <2> QED BY <2>1, <2>2, <2>3, <2>4, <2>5 DEF TaskSteps
<1>4. \A s \in 1 .. MaxSims : Readable(s)' => Readable(s) /\ Unread(s)' = Unread(s)
  BY <1>1, <1>3 DEF Unread
<1>5. ReceivedInOrder /\ \A s \in 1 .. MaxSims : s > sims => toPy'[s] = toPy[s]
  BY <1>1
<1> QED BY <1>1, <1>2, <1>4, <1>5, ReceivedKept

LEMMA TasksKept ==
  ASSUME PyInv, TaskSteps
  PROVE  PyInv'
<1>1. UNCHANGED <<sendPipe, sendMsg, pySendQueue, pyPushed, pySendAt, simGot>>
  BY DEF TaskSteps, Open, AwaitEnd, PyAwaitToRecv, ReadFails, PyAbort, simSide, pyQueues
<1>2. OutInOrder'
  BY <1>1, OutKept DEF PyInv
<1> QED BY <1>2, TasksTypes, TasksConnected, TasksReceived DEF PyInv

----------------------------------------------------------------------------
(* The simulators.                                                            *)
LEMMA SimStartKeeps ==
  ASSUME PyInv, SimStart
  PROVE  PyInv'
<1> USE Numbering DEF PyInv
<1>1. /\ ~simUp /\ sims < MaxSims /\ simUp' = TRUE /\ sims' = sims + 1
      /\ UNCHANGED <<connEst, connTerm, socket, pyConnAt, pyRecvAt, pySendAt, pyRecvCurr, reader, size,
                     recvPipe, sendPipe, sendMsg, pySendQueue, recvQueues, pyPushed, toPy, broken, sentOn, simGot>>
  BY DEF SimStart, pyTasks, pyQueues
<1>2. PyTypes'
  <2>1. sims' \in 0 .. MaxSims /\ sims' > 0
    BY <1>1
  <2> QED BY <1>1, <2>1 DEF PyTypes, Byte
<1>3. \A s : Alive(s)' <=> s = sims + 1
  BY <1>1 DEF Alive
<1>4. Connected'
  <2>1. connTerm \in Nat /\ reader # sims + 1 /\ socket # sims + 1 /\ socket <= sims + 1
    BY DEF Connected
  <2>2. \A s \in broken : s \in 0 .. sims + 1 /\ s # sims + 1
    <3>1. \A s \in broken : s \in 0 .. sims
      BY DEF Connected
    <3> QED BY <3>1
  <2> QED BY <1>1, <1>3, <2>1, <2>2 DEF Connected
<1>5. OutInOrder'
  BY <1>1, OutKept
<1>6. ReceivedInOrder'
  <2>1. Code' = Code /\ (\A c \in Channels : Got(c)' = Got(c)) /\ (\A n : Sent(n)' = Sent(n))
    BY <1>1 DEF Code, Got, Sent
  <2>2. \A s : (Readable(s)' <=> Readable(s)) /\ Unread(s)' = Unread(s)
    BY <1>1 DEF Readable, Unread
  <2>3. ASSUME NEW ids, Framed(ids) PROVE Framed(ids)'
    <3>1. \A s \in 1 .. MaxSims : s > sims' => s > sims
      BY <1>1
    <3>2. ASSUME NEW s \in 1 .. MaxSims, Readable(s)
          PROVE  \E cut \in Nat : Frames(Unread(s), ids[s], Code, cut) /\ (Alive(s)' => cut = 0)
      <4>1. PICK cut \in Nat : Frames(Unread(s), ids[s], Code, cut)
        BY <2>3, <3>2 DEF Framed
      <4>2. CASE s = sims + 1
        <5>1. Unread(s) = <<>> /\ ids[s] = <<>>
          <6>1. s > sims /\ s # reader
            BY <4>2 DEF Connected
          <6> QED BY <2>3, <6>1 DEF Framed, Unread
        <5>2. cut = 0
          BY <4>1, <5>1, FramesNone
        <5> QED BY <4>1, <5>2
      <4>3. CASE s # sims + 1
        BY <1>3, <4>1, <4>3
      <4> QED BY <4>2, <4>3
    <3>3. \A s \in 1 .. MaxSims : Readable(s)' =>
            \E cut \in Nat : (Frames(Unread(s), ids[s], Code, cut) /\ (Alive(s) => cut = 0))'
      BY <2>1, <2>2, <3>2
    <3> QED BY <1>1, <2>1, <2>2, <2>3, <3>1, <3>3 DEF Framed
  <2>4. ASSUME NEW ids, NEW n, Taken(ids, n) PROVE Taken(ids, n)'
    BY <1>1, <2>1, <2>2, <2>4 DEF Taken
  <2> QED BY <1>1, <2>1, <2>3, <2>4 DEF ReceivedInOrder
<1> QED BY <1>2, <1>4, <1>5, <1>6

LEMMA SimEndKeeps ==
  ASSUME PyInv, SimEnd
  PROVE  PyInv'
<1> USE Numbering DEF PyInv
<1>1. PICK missing \in 0 .. 1 :
        /\ simUp /\ simUp' = FALSE
        /\ toPy' = [toPy EXCEPT ![sims] = SubSeq(@, 1, Len(@) - missing)]
        /\ UNCHANGED <<connEst, connTerm, socket, pyConnAt, pyRecvAt, pySendAt, pyRecvCurr, reader, size,
                     recvPipe, sendPipe, sendMsg, pySendQueue, recvQueues, pyPushed, sims, broken, sentOn, simGot>>
  BY DEF SimEnd, pyTasks, pyQueues
<1>2. PICK b, r : b = toPy[sims] /\ r = SubSeq(b, 1, Len(b) - missing)
  OBVIOUS
<1>3. sims \in 1 .. MaxSims /\ b \in Seq(Byte) /\ Len(b) \in Nat
  <2>1. sims \in 1 .. MaxSims
    BY <1>1
  <2>2. b \in Seq(Byte)
    BY <1>2, <2>1 DEF PyTypes
  <2> QED BY <2>1, <2>2, LenProperties
<1>4. r \in Seq(Byte) /\ Len(r) \in Nat /\ Len(r) <= Len(b) /\ \A i \in 1 .. Len(r) : r[i] = b[i]
  <2>1. \A i \in 1 .. Len(b) : b[i] \in Byte
    BY <1>3, ElementOfSeq
  <2>2. PICK l, k : l = Len(b) - missing /\ k = Len(b)
    OBVIOUS
  <2>3. l \in Int /\ k \in Nat /\ l <= k /\ \A i \in 1 .. l : i \in 1 .. k /\ 1 + i - 1 = i
    BY <1>3, <2>2
  <2>4. \A i \in 1 .. l : b[i] \in Byte
    BY <2>1, <2>2, <2>3
  <2>5. /\ r \in Seq(Byte) /\ Len(r) = IF 1 <= l THEN l - 1 + 1 ELSE 0
        /\ \A i \in 1 .. l - 1 + 1 : r[i] = b[1 + i - 1]
    <3>1. /\ SubSeq(b, 1, l) \in Seq(Byte) /\ Len(SubSeq(b, 1, l)) = IF 1 <= l THEN l - 1 + 1 ELSE 0
          /\ \A i \in 1 .. l - 1 + 1 : SubSeq(b, 1, l)[i] = b[1 + i - 1]
      BY <2>3, <2>4, SubSeqProperties
    <3> QED BY <1>2, <2>2, <3>1
  <2>6. Len(r) \in Nat /\ Len(r) <= k /\ \A i \in 1 .. Len(r) : i \in 1 .. l - 1 + 1 /\ i \in 1 .. l
    BY <2>3, <2>5
  <2> QED BY <2>2, <2>3, <2>5, <2>6
<1>5. toPy'[sims] = r /\ \A s \in 1 .. MaxSims : s # sims => toPy'[s] = toPy[s]
  BY <1>1, <1>2, <1>3 DEF PyTypes
<1>6. PyTypes'
  <2>1. toPy' \in [1 .. MaxSims -> Seq(Byte)]
    BY <1>1, <1>2, <1>4 DEF PyTypes
  <2> QED BY <1>1, <2>1 DEF PyTypes, Byte
<1>7. \A s : Alive(s)' = FALSE
  BY <1>1 DEF Alive
<1>8. Connected'
  <2>1. \A s \in broken : s \in 0 .. sims
    BY DEF Connected
  <2> QED BY <1>1, <1>7, <2>1 DEF Connected
<1>9. OutInOrder'
  BY <1>1, OutKept
<1>10. ReceivedInOrder'
  <2>1. Code' = Code /\ (\A c \in Channels : Got(c)' = Got(c)) /\ (\A n : Sent(n)' = Sent(n))
    BY <1>1 DEF Code, Got, Sent
  <2>2. \A s : Readable(s)' <=> Readable(s)
    BY <1>1 DEF Readable
  <2>3. ASSUME NEW ids, Framed(ids) PROVE Framed(ids)'
    <3>1. ASSUME NEW s \in 1 .. MaxSims, Readable(s)
          PROVE  \E cut \in Nat : Frames(Unread(s)', ids[s], Code, cut)
      <4>1. PICK cut \in Nat : Frames(Unread(s), ids[s], Code, cut)
        BY <2>3, <3>1 DEF Framed
      <4>2. CASE s # sims
        <5>1. Unread(s)' = Unread(s)
          BY <1>1, <1>5, <4>2 DEF Unread
        <5> QED BY <4>1, <5>1
      <4>3. CASE s = sims
        <5>1. PICK u, v, w : u = Unread(s) /\ v = Unread(s)' /\ w = ids[s]
          OBVIOUS
        <5>2. (u = b /\ v = r) \/ (size \in Byte /\ u = <<size>> \o b /\ v = <<size>> \o r)
          <6>1. size \in Byte
            BY DEF PyTypes
          <6> QED BY <1>1, <1>2, <1>5, <4>3, <5>1, <6>1 DEF Unread
        <5>3. /\ u \in Seq(Byte) /\ v \in Seq(Byte) /\ Len(v) <= Len(u)
              /\ \A i \in 1 .. Len(v) : v[i] = u[i]
          <6>1. CASE u = b /\ v = r
            BY <1>3, <1>4, <6>1
          <6>2. CASE size \in Byte /\ u = <<size>> \o b /\ v = <<size>> \o r
            BY <1>3, <1>4, <6>2, PrefixAfter
          <6> QED BY <5>2, <6>1, <6>2
        <5>4. w \in Seq(DOMAIN sentOn) /\ Codes(Code, DOMAIN sentOn) /\ Frames(u, w, Code, cut)
          BY <2>3, <4>1, <5>1, Coding DEF Framed
        <5>5. \E more \in Nat : Frames(v, w, Code, more)
          BY <5>3, <5>4, FramesCut
        <5> QED BY <5>1, <5>5
      <4> QED BY <4>2, <4>3
    <3>2. \A s \in 1 .. MaxSims : Readable(s)' =>
            \E cut \in Nat : (Frames(Unread(s), ids[s], Code, cut) /\ (Alive(s) => cut = 0))'
      BY <1>7, <2>1, <2>2, <3>1
    <3>3. \A s \in 1 .. MaxSims : s > sims => toPy'[s] = toPy[s]
      BY <1>5
    <3> QED BY <1>1, <2>1, <2>2, <2>3, <3>2, <3>3 DEF Framed
  <2>4. ASSUME NEW ids, NEW n, Taken(ids, n) PROVE Taken(ids, n)'
    BY <1>1, <2>1, <2>2, <2>4 DEF Taken
  <2> QED BY <1>1, <2>1, <2>3, <2>4 DEF ReceivedInOrder
<1> QED BY <1>6, <1>8, <1>9, <1>10

LEMMA SimSendKeeps ==
  ASSUME PyInv, NEW channel \in Channels, SimSend(channel)
  PROVE  PyInv'
<1> USE Numbering DEF PyInv
<1>1. /\ simUp
      /\ sentOn' = Append(sentOn, [channel |-> channel, sim |-> sims])
      /\ toPy' = [toPy EXCEPT ![sims] = @ \o toBytes(Message(channel, <<Len(sentOn')>>))]
      /\ UNCHANGED <<connEst, connTerm, socket, pyConnAt, pyRecvAt, pySendAt, pyRecvCurr, reader, size,
                     recvPipe, sendPipe, sendMsg, pySendQueue, recvQueues, pyPushed, simUp, sims, broken, simGot>>
  BY DEF SimSend, pyTasks, pyQueues
<1>2. PICK m, D, E : m = Len(sentOn) /\ D = DOMAIN sentOn /\ E = DOMAIN sentOn'
  OBVIOUS
<1>3. sims \in 1 .. MaxSims /\ m \in Nat /\ D = 1 .. m /\ Codes(Code, D)
  BY <1>1, <1>2, Coding
<1>4. /\ sentOn' \in Seq([channel : Channels, sim : 1 .. MaxSims]) /\ Len(sentOn') = m + 1
      /\ E = 1 .. m + 1 /\ sentOn'[m + 1].channel = channel
      /\ \A i \in D : sentOn'[i] = sentOn[i]
  <2>1. PICK x : x = [channel |-> channel, sim |-> sims]
    OBVIOUS
  <2>2. sentOn \in Seq([channel : Channels, sim : 1 .. MaxSims]) /\ x \in [channel : Channels, sim : 1 .. MaxSims]
    BY <1>3, <2>1 DEF PyTypes
  <2>3. /\ sentOn' \in Seq([channel : Channels, sim : 1 .. MaxSims]) /\ Len(sentOn') = m + 1
        /\ sentOn'[m + 1] = x /\ \A i \in 1 .. m : sentOn'[i] = sentOn[i]
    BY <1>1, <1>2, <2>1, <2>2, AppendProperties
  <2>4. E = 1 .. m + 1
    BY <1>2, <2>3, LenProperties
  <2> QED BY <1>3, <2>1, <2>3, <2>4
<1>5. E = D \cup {m + 1} /\ m + 1 \in E /\ m + 1 \notin D /\ D \subseteq Nat /\ D \subseteq E
  BY <1>3, <1>4
<1>6. PICK b, x : b = toPy[sims] /\ x = toBytes(Message(channel, <<m + 1>>))
  OBVIOUS
<1>7. b \in Seq(Byte) /\ x \in Seq(Byte) /\ b \o x \in Seq(Byte)
  <2>1. x \in Seq(Byte)
    <3>1. m + 1 \in Nat
      BY <1>3
    <3> QED BY <1>6, <3>1, RoundTrip
  <2>2. b \in Seq(Byte)
    BY <1>3, <1>6 DEF PyTypes
  <2> QED BY <2>1, <2>2, ConcatProperties
<1>8. /\ toPy' \in [1 .. MaxSims -> Seq(Byte)] /\ toPy'[sims] = b \o x
      /\ \A s \in 1 .. MaxSims : s # sims => toPy'[s] = toPy[s]
  <2>1. toPy' = [toPy EXCEPT ![sims] = b \o x]
    BY <1>1, <1>4, <1>6
  <2> QED BY <1>3, <1>7, <2>1 DEF PyTypes
<1>9. PyTypes'
  BY <1>1, <1>4, <1>8 DEF PyTypes, Byte
<1>10. \A s : Alive(s)' = Alive(s) /\ (Readable(s)' <=> Readable(s))
  BY <1>1 DEF Alive, Readable
<1>11. Connected'
  BY <1>1, <1>10 DEF Connected
<1>12. OutInOrder'
  BY <1>1, OutKept
<1>13. PICK code, other : code = Code /\ other = Code'
  OBVIOUS
<1>14. Codes(code, D) /\ Codes(other, E) /\ other[m + 1] = x /\ \A i \in D : other[i] = code[i]
  <2>2. \A i \in E : other[i] = toBytes(Message(sentOn'[i].channel, <<i>>))
    BY <1>2, <1>13 DEF Code, Sent
  <2>1. Codes(other, E)
    <3>1. \A i \in E : i \in Nat /\ sentOn'[i].channel \in Channels
      <4>1. \A i \in 1 .. Len(sentOn') : sentOn'[i] \in [channel : Channels, sim : 1 .. MaxSims]
        BY <1>4, ElementOfSeq
      <4> QED BY <1>3, <1>4, <4>1
    <3>2. ASSUME NEW i \in E
          PROVE  other[i] \in Seq(Byte) /\ Len(other[i]) > 1 /\ other[i][1] = Len(other[i])
      <4>1. PICK c, y : c = sentOn'[i].channel /\ y = toBytes(Message(c, <<i>>))
        OBVIOUS
      <4>2. y \in Seq(Byte) /\ Len(y) > 1 /\ y[1] = Len(y)
        BY <3>1, <4>1, RoundTrip
      <4> QED BY <2>2, <4>1, <4>2
    <3> QED BY <3>2 DEF Codes
  <2>3. \A i \in D : code[i] = toBytes(Message(sentOn[i].channel, <<i>>))
    BY <1>2, <1>13 DEF Code, Sent
  <2> QED BY <1>3, <1>4, <1>5, <1>6, <1>13, <2>1, <2>2, <2>3
<1>15. (\A c \in Channels : Got(c)' = Got(c)) /\ (\A n \in D : Sent(n)' = Sent(n))
  BY <1>1, <1>4 DEF Got, Sent
<1>16. (\A s \in 1 .. MaxSims : s # sims => Unread(s)' = Unread(s)) /\ Unread(sims)' = Unread(sims) \o x
       /\ Unread(sims) \in Seq(Byte)
  <2>1. ASSUME NEW s \in 1 .. MaxSims, s # sims PROVE Unread(s)' = Unread(s)
    BY <1>1, <1>8, <2>1 DEF Unread
  <2>2. CASE sims = reader /\ pyRecvAt = "rest"
    <3>1. PICK o : o = <<size>>
      OBVIOUS
    <3>2. o \in Seq(Byte)
      BY <3>1 DEF PyTypes
    <3>3. o \o (b \o x) = (o \o b) \o x /\ o \o b \in Seq(Byte)
      <4>1. o \o b \in Seq(Byte)
        BY <1>7, <3>2, ConcatProperties
      <4>2. (o \o b) \o x = o \o (b \o x)
        BY <1>7, <3>2, Joins
      <4> QED BY <4>1, <4>2
    <3>4. Unread(sims) = o \o b /\ Unread(sims)' = o \o (b \o x)
      BY <1>1, <1>6, <1>8, <2>2, <3>1 DEF Unread
    <3> QED BY <2>1, <3>3, <3>4
  <2>3. CASE ~(sims = reader /\ pyRecvAt = "rest")
    BY <1>1, <1>6, <1>7, <1>8, <2>1, <2>3 DEF Unread
  <2> QED BY <2>1, <2>2, <2>3
<1>17. PICK ids : Framed(ids) /\ (recvPipe # None => \E n : Taken(ids, n))
  BY DEF ReceivedInOrder
<1>18. PICK q, r, more : q = ids[sims] /\ r = Append(q, m + 1) /\ more = [ids EXCEPT ![sims] = r]
  OBVIOUS
<1>19. \A s \in 1 .. MaxSims : ids[s] \in Seq(D) /\ ids[s] \in Seq(Nat) /\ UpTo(ids[s], m)
  <2> SUFFICES ASSUME NEW s \in 1 .. MaxSims PROVE ids[s] \in Seq(D) /\ ids[s] \in Seq(Nat) /\ UpTo(ids[s], m)
    OBVIOUS
  <2>1. ids[s] \in Seq(D) /\ ids[s] \in Seq(Nat)
    BY <1>2, <1>17, IdsLists
  <2>2. \A i \in DOMAIN ids[s] : ids[s][i] \in D
    BY <2>1, Lists
  <2> QED BY <1>3, <2>1, <2>2 DEF UpTo
<1>20. /\ r \in Seq(E) /\ r \in Seq(Nat) /\ Rises(r)
       /\ \A y \in Seq(Nat) : Below(y, q) /\ UpTo(y, m) => Below(y, r)
       /\ more[sims] = r /\ \A s \in 1 .. MaxSims : s # sims => more[s] = ids[s]
       /\ more \in [1 .. MaxSims -> Seq(E)]
  <2>1. q \in Seq(Nat) /\ q \in Seq(D) /\ Rises(q) /\ UpTo(q, m)
    BY <1>3, <1>17, <1>18, <1>19 DEF Framed
  <2>2. q \in Seq(E)
    BY <1>5, <2>1, SeqMonotonic
  <2>3. r \in Seq(E)
    BY <1>5, <1>18, <2>2, AppendProperties
  <2>4. ids \in [1 .. MaxSims -> Seq(E)]
    <3>1. Seq(D) \subseteq Seq(E)
      BY <1>5, SeqMonotonic
    <3>2. ids \in [1 .. MaxSims -> Seq(D)]
      BY <1>2, <1>17 DEF Framed
    <3> QED BY <3>1, <3>2
  <2>5. more[sims] = r /\ (\A s \in 1 .. MaxSims : s # sims => more[s] = ids[s]) /\ more \in [1 .. MaxSims -> Seq(E)]
    BY <1>3, <1>18, <2>3, <2>4
  <2>6. r \in Seq(Nat) /\ Rises(r) /\ \A y \in Seq(Nat) : Below(y, q) /\ UpTo(y, m) => Below(y, r)
    BY <1>3, <1>18, <2>1, Numbered
  <2> QED BY <2>3, <2>5, <2>6
<1>21. ASSUME NEW s \in 1 .. MaxSims
       PROVE  /\ Rises(more[s])
              /\ \A t \in 1 .. MaxSims : s < t => Below(more[s], more[t])
              /\ s > sims => toPy'[s] = <<>> /\ more[s] = <<>>
  <2>1. s > sims => toPy[s] = <<>> /\ ids[s] = <<>>
    BY <1>17 DEF Framed
  <2>2. \A t \in 1 .. MaxSims : s < t => Below(ids[s], ids[t])
    BY <1>17 DEF Framed
  <2>3. Rises(more[s])
    BY <1>17, <1>20 DEF Framed
  <2>4. s > sims => toPy'[s] = <<>> /\ more[s] = <<>>
    <3>1. s > sims => s # sims
      BY <1>3
    <3> QED BY <1>8, <1>20, <2>1, <3>1
  <2>5. ASSUME NEW t \in 1 .. MaxSims, s < t PROVE Below(more[s], more[t])
    <3>1. CASE t = sims
      <4>1. s # sims /\ more[s] = ids[s] /\ ids[s] \in Seq(Nat) /\ UpTo(ids[s], m) /\ Below(ids[s], q)
        BY <1>18, <1>19, <1>20, <2>2, <2>5, <3>1
      <4> QED BY <1>20, <3>1, <4>1
    <3>2. CASE s = sims
      <4>1. t > sims /\ t # sims
        BY <2>5, <3>2
      <4>2. more[t] = <<>>
        BY <1>17, <1>20, <4>1 DEF Framed
      <4> QED BY <4>2 DEF Below
    <3>3. CASE s # sims /\ t # sims
      BY <1>20, <2>2, <2>5, <3>3
    <3> QED BY <3>1, <3>2, <3>3
  <2> QED BY <2>3, <2>4, <2>5
<1>22. \A c \in Channels : Got(c) \in Seq(Nat) /\ UpTo(Got(c), m)
  <2>1. \A c \in Channels : \A i \in DOMAIN Got(c) : Got(c)[i] \in D
    BY <1>2 DEF ReceivedInOrder
  <2>2. \A c \in Channels : Got(c) \in Seq(Nat)
    BY GotLists
  <2>3. ASSUME NEW c \in Channels PROVE UpTo(Got(c), m)
    <3>1. PICK g : g = Got(c)
      OBVIOUS
    <3>2. \A i \in DOMAIN g : g[i] <= m
      BY <1>3, <2>1, <3>1
    <3> QED BY <3>1, <3>2 DEF UpTo
  <2> QED BY <2>2, <2>3
<1>23. ASSUME NEW s \in 1 .. MaxSims, Readable(s), NEW y \in Seq(Nat), Below(y, ids[s]), UpTo(y, m)
       PROVE  Below(y, more[s])
  BY <1>18, <1>20, <1>23
<1>24. ASSUME NEW s \in 1 .. MaxSims, Readable(s)
       PROVE  \E cut \in Nat : Frames(Unread(s)', more[s], other, cut) /\ (Alive(s) => cut = 0)
  <2>1. PICK cut \in Nat : Frames(Unread(s), ids[s], code, cut) /\ (Alive(s) => cut = 0)
    BY <1>13, <1>17, <1>24 DEF Framed
  <2>2. CASE s # sims
    <3>1. ids[s] \in Seq(D) /\ \A i \in D : other[i] = code[i]
      BY <1>14, <1>19
    <3>2. Frames(Unread(s), ids[s], other, cut)
      BY <2>1, <3>1, FramesSame
    <3> QED BY <1>16, <1>20, <2>1, <2>2, <3>2
  <2>3. CASE s = sims
    <3>1. cut = 0
      BY <1>1, <2>1, <2>3 DEF Alive
    <3>2. PICK u : u = Unread(s)
      OBVIOUS
    <3>3. /\ Codes(code, D) /\ u \in Seq(Byte) /\ q \in Seq(D) /\ Frames(u, q, code, 0)
          /\ \A i \in D : other[i] = code[i]
          /\ Codes(other, D \cup {m + 1}) /\ x \in Seq(Byte) /\ x = other[m + 1]
      BY <1>5, <1>7, <1>14, <1>16, <1>18, <1>19, <2>1, <2>3, <3>1, <3>2
    <3>4. Frames(u \o x, r, other, 0)
      BY <1>18, <3>3, FramesAppend
    <3>5. Unread(s)' = u \o x /\ more[s] = r
      <4>1. Unread(sims)' = Unread(sims) \o x
        BY <1>16
      <4>2. (s = sims)' /\ Unread(s) = u
        BY <1>1, <2>3, <3>2
      <4>3. Unread(s)' = Unread(sims)'
        BY <1>1, <2>3 DEF Unread
      <4> QED BY <1>20, <2>3, <4>1, <4>2, <4>3
    <3> QED BY <3>4, <3>5
  <2> QED BY <2>2, <2>3
<1>25. Framed(more)'
  <2>1. more \in [1 .. MaxSims -> Seq(DOMAIN sentOn')]
    BY <1>2, <1>20
  <2>2. \A s \in 1 .. MaxSims : Readable(s)' =>
          \E cut \in Nat : Frames(Unread(s)', more[s], Code', cut) /\ (Alive(s)' => cut = 0)
    BY <1>10, <1>13, <1>24
  <2>3. \A s \in 1 .. MaxSims : Readable(s)' => \A c \in Channels : Below(Got(c)', more[s])
    <3>1. \A s \in 1 .. MaxSims : Readable(s) => \A c \in Channels : Below(Got(c), ids[s])
      BY <1>17 DEF Framed
    <3> QED BY <1>10, <1>15, <1>22, <1>23, <3>1
  <2>4. sims' = sims
    BY <1>1
  <2> QED BY <1>21, <2>1, <2>2, <2>3, <2>4 DEF Framed
<1>26. ASSUME NEW n, Taken(ids, n) PROVE Taken(more, n)'
  <2>1. /\ n \in D /\ recvPipe = Sent(n)
        /\ \A s \in 1 .. MaxSims : Readable(s) => Below(<<n>>, ids[s])
        /\ \A c \in Channels : Below(Got(c), <<n>>)
    BY <1>2, <1>26 DEF Taken
  <2>2. PICK o : o = <<n>>
    OBVIOUS
  <2>3. o \in Seq(Nat) /\ UpTo(o, m)
    BY <1>3, <2>1, <2>2 DEF UpTo
  <2>4. \A s \in 1 .. MaxSims : Readable(s)' => Below(o, more[s])
    BY <1>10, <1>23, <2>1, <2>2, <2>3
  <2>5. n \in DOMAIN sentOn' /\ recvPipe' = Sent(n)'
    BY <1>1, <1>2, <1>5, <1>15, <2>1
  <2>6. \A c \in Channels : Below(Got(c)', <<n>>)
    BY <1>15, <2>1
  <2> QED BY <2>2, <2>4, <2>5, <2>6 DEF Taken
<1>27. \A c \in Channels :
         /\ Rises(Got(c)')
         /\ \A i \in DOMAIN Got(c)' : Got(c)'[i] \in DOMAIN sentOn' /\ sentOn'[Got(c)'[i]].channel = c
  <2>1. \A c \in Channels :
         /\ Rises(Got(c))
         /\ \A i \in DOMAIN Got(c) : Got(c)[i] \in D /\ sentOn[Got(c)[i]].channel = c
    BY <1>2 DEF ReceivedInOrder
  <2> QED BY <1>2, <1>4, <1>5, <1>15, <2>1
<1>28. ReceivedInOrder'
  <2>1. recvPipe' = recvPipe /\ pyRecvAt' = pyRecvAt /\ (pyRecvAt = "push" <=> recvPipe # None)
    BY <1>1 DEF ReceivedInOrder
  <2>2. recvPipe' # None => \E n : Taken(more, n)'
    BY <1>17, <1>26, <2>1
  <2> QED BY <1>25, <1>27, <2>1, <2>2 DEF ReceivedInOrder
<1> QED BY <1>9, <1>11, <1>12, <1>28

----------------------------------------------------------------------------
(* The way in: the two reads of ccRunRecv, and ccRunDispatch.                 *)
LEMMA ReadSizeKeeps ==
  ASSUME PyInv, ReadSize
  PROVE  PyInv'
<1> USE Numbering DEF PyInv
<1>1. /\ pyRecvAt = "size" /\ toPy[reader] # <<>>
      /\ size' = Head(toPy[reader]) /\ toPy' = [toPy EXCEPT ![reader] = Tail(@)] /\ pyRecvAt' = "rest"
      /\ UNCHANGED <<connEst, connTerm, socket, pyConnAt, pySendAt, pyRecvCurr, reader,
                     recvPipe, sendPipe, sendMsg, pySendQueue, recvQueues, pyPushed, simUp, sims, broken, sentOn, simGot>>
  BY DEF ReadSize, pyQueues
<1>2. PICK b : b = toPy[reader]
  OBVIOUS
<1>3. reader \in 1 .. MaxSims /\ b \in Seq(Byte) /\ b # <<>>
  <2>1. reader > 0
    BY <1>1 DEF Connected
  <2>2. reader \in 1 .. MaxSims
    BY <2>1 DEF Connected
  <2> QED BY <1>1, <1>2, <2>2 DEF PyTypes
<1>4. /\ size' = Head(b) /\ size' \in Byte /\ toPy'[reader] = Tail(b) /\ Tail(b) \in Seq(Byte)
      /\ \A s \in 1 .. MaxSims : s # reader => toPy'[s] = toPy[s]
  <2>1. Head(b) \in Byte /\ Tail(b) \in Seq(Byte)
    BY <1>3, HeadTailProperties
  <2> QED BY <1>1, <1>2, <1>3, <2>1 DEF PyTypes
<1>5. PyTypes'
  <2>1. toPy' \in [1 .. MaxSims -> Seq(Byte)]
    BY <1>1, <1>2, <1>4 DEF PyTypes
  <2> QED BY <1>1, <1>4, <2>1 DEF PyTypes, Byte
<1>6. \A s : Alive(s)' = Alive(s)
  BY <1>1 DEF Alive
<1>7. Connected'
  BY <1>1, <1>6 DEF Connected
<1>8. OutInOrder'
  BY <1>1, OutKept
<1>9. ReceivedInOrder'
  <2>1. <<Head(b)>> \o Tail(b) = b
    BY <1>3
  <2>2. \A s \in 1 .. MaxSims : Readable(s)' => Readable(s)
    BY <1>1 DEF Readable
  <2>3. \A s \in 1 .. MaxSims : Unread(s)' = Unread(s)
    <3>1. ASSUME NEW s \in 1 .. MaxSims, s = reader PROVE Unread(s)' = Unread(s)
      BY <1>1, <1>2, <1>4, <2>1, <3>1 DEF Unread
    <3>2. ASSUME NEW s \in 1 .. MaxSims, s # reader PROVE Unread(s)' = Unread(s)
      BY <1>1, <1>4, <3>2 DEF Unread
    <3> QED BY <3>1, <3>2
  <2>4. \A s \in 1 .. MaxSims : s > sims => toPy'[s] = toPy[s]
    <3>1. reader <= sims
      BY DEF Connected
    <3> QED BY <1>4, <3>1
  <2>5. \A s \in 1 .. MaxSims : Alive(s)' => Alive(s)
    BY <1>6
  <2>6. pyRecvAt' = "push" <=> pyRecvAt = "push"
    BY <1>1
  <2>7. ReceivedInOrder /\ UNCHANGED <<sentOn, recvQueues, recvPipe, sims>>
    BY <1>1
  <2>8. \A s \in 1 .. MaxSims : Readable(s)' => Readable(s) /\ Unread(s)' = Unread(s)
    BY <2>2, <2>3
  <2> QED BY <2>4, <2>5, <2>6, <2>7, <2>8, ReceivedKept
<1> QED BY <1>5, <1>7, <1>8, <1>9

LEMMA ReadRestKeeps ==
  ASSUME PyInv, ReadRest
  PROVE  PyInv'
<1> USE Numbering DEF PyInv
<1>1. PICK p, b, z, v, r :
        /\ p = toPy[reader] /\ z = size /\ b = <<size>> \o p
        /\ v = <<size>> \o SubSeq(p, 1, size - 1) /\ r = SubSeq(p, size, Len(p))
  OBVIOUS
<1>2. /\ pyRecvAt = "rest" /\ pyRecvAt' = "push" /\ Len(p) >= z - 1 /\ recvPipe' = fromBytes(v)
      /\ toPy' = [toPy EXCEPT ![reader] = r]
      /\ UNCHANGED <<connEst, connTerm, socket, pyConnAt, pySendAt, pyRecvCurr, reader, size,
                     sendPipe, sendMsg, pySendQueue, recvQueues, pyPushed, simUp, sims, broken, sentOn, simGot>>
  BY <1>1 DEF ReadRest
<1>3. reader \in 1 .. MaxSims /\ p \in Seq(Byte) /\ Len(p) \in Nat /\ z \in Byte
  <2>1. reader > 0
    BY <1>2 DEF Connected
  <2>2. reader \in 1 .. MaxSims
    BY <2>1 DEF Connected
  <2>3. p \in Seq(Byte) /\ z \in Byte
    BY <1>1, <2>2 DEF PyTypes
  <2> QED BY <2>2, <2>3, LenProperties
<1>4. PICK ids : Framed(ids)
  BY DEF ReceivedInOrder
<1>5. PICK D, code, q, n, more :
        /\ D = DOMAIN sentOn /\ code = Code
        /\ q = ids[reader] /\ n = q[1] /\ more = [ids EXCEPT ![reader] = Tail(q)]
  OBVIOUS
<1>6. Codes(code, D) /\ q \in Seq(D) /\ q \in Seq(Nat) /\ D \subseteq Nat
  BY <1>3, <1>4, <1>5, Coding, IdsLists
<1>7. PICK cut \in Nat : Frames(b, q, code, cut) /\ (Alive(reader) => cut = 0)
  <2>1. Readable(reader)
    BY <1>2 DEF Readable, Connected
  <2>2. Unread(reader) = b
    BY <1>1, <1>2 DEF Unread
  <2> QED BY <1>3, <1>4, <1>5, <2>1, <2>2 DEF Framed
<1>8. /\ b \in Seq(Byte) /\ b # <<>> /\ b[1] = z
      /\ q # <<>> /\ n \in D /\ z = Len(code[n]) /\ z \in Nat \ {0} /\ code[n] \in Seq(Byte)
  <2>1. b = <<z>> \o p
    BY <1>1
  <2>3. b \in Seq(Byte) /\ b # <<>> /\ b[1] = z
    BY <1>3, <2>1, Prefixed
  <2>4. Codes(code, D) /\ q \in Seq(D) /\ cut \in Nat /\ Frames(b, q, code, cut) /\ q[1] = n
    BY <1>5, <1>6, <1>7
  <2>5. q # <<>> /\ n \in D /\ z = Len(code[n])
    BY <2>3, <2>4, FramesFirst
  <2>6. code[n] \in Seq(Byte) /\ Len(code[n]) \in Nat /\ Len(code[n]) > 1
    <3>1. code[n] \in Seq(Byte) /\ Len(code[n]) > 1
      BY <1>6, <2>5 DEF Codes
    <3> QED BY <3>1, LenProperties
  <2> QED BY <2>3, <2>5, <2>6
<1>9. /\ z <= Len(b) /\ r \in Seq(Byte) /\ Suffix(r, b, z)
      /\ \A w \in Seq(Byte) : Len(w) = z /\ (\A i \in 1 .. z : b[i] = w[i]) => v = w
  <2>1. b = <<z>> \o p /\ r = SubSeq(p, z, Len(p)) /\ v = <<z>> \o SubSeq(p, 1, z - 1)
    BY <1>1
  <2>2. p \in Seq(Byte) /\ z \in Byte /\ z \in Nat \ {0} /\ z <= Len(p) + 1
    BY <1>2, <1>3, <1>8
  <2>3. /\ z <= Len(<<z>> \o p) /\ SubSeq(p, z, Len(p)) \in Seq(Byte)
        /\ Suffix(SubSeq(p, z, Len(p)), <<z>> \o p, z)
        /\ \A w \in Seq(Byte) : Len(w) = z /\ (\A i \in 1 .. z : (<<z>> \o p)[i] = w[i])
                                => <<z>> \o SubSeq(p, 1, z - 1) = w
    BY <2>2, ReadApart
  <2> QED BY <2>1, <2>3
<1>10. (\A i \in 1 .. z : b[i] = code[n][i]) /\ Frames(r, Tail(q), code, cut)
  <2>1. /\ Codes(code, D) /\ b \in Seq(Byte) /\ b # <<>> /\ q \in Seq(D) /\ q[1] = n
        /\ cut \in Nat /\ Frames(b, q, code, cut) /\ z = b[1] /\ z <= Len(b)
        /\ r \in Seq(Byte) /\ Suffix(r, b, z)
    BY <1>5, <1>6, <1>7, <1>8, <1>9
  <2> QED BY <2>1, FramesRest
<1>11. recvPipe' = Sent(n) /\ Sent(n) # None
  <2>1. v = code[n]
    BY <1>8, <1>9, <1>10
  <2>2. fromBytes(Code[n]) = Sent(n) /\ Sent(n) # None
    BY <1>5, <1>8, Coding
  <2> QED BY <1>2, <1>5, <2>1, <2>2
<1>12. /\ toPy' \in [1 .. MaxSims -> Seq(Byte)] /\ toPy'[reader] = r
       /\ \A s \in 1 .. MaxSims : s # reader => toPy'[s] = toPy[s]
  BY <1>2, <1>3, <1>9 DEF PyTypes
<1>13. PyTypes'
  BY <1>2, <1>12 DEF PyTypes, Byte
<1>14. \A s : Alive(s)' = Alive(s)
  BY <1>2 DEF Alive
<1>15. Connected'
  BY <1>2, <1>14 DEF Connected
<1>16. OutInOrder'
  BY <1>2, OutKept
<1>17. /\ \A s : Readable(s)' <=> Readable(s)
       /\ \A s \in 1 .. MaxSims : s # reader => Unread(s)' = Unread(s)
       /\ Unread(reader)' = r
       /\ Code' = Code /\ (\A c \in Channels : Got(c)' = Got(c)) /\ (\A i : Sent(i)' = Sent(i))
  BY <1>2, <1>3, <1>12 DEF Readable, Unread, Code, Got, Sent
<1>18. /\ Tail(q) \in Seq(Nat) /\ Tail(q) \in Seq(D) /\ <<n>> \in Seq(Nat)
       /\ Rises(q) => Rises(Tail(q)) /\ Below(<<n>>, Tail(q))
       /\ \A y \in Seq(Nat) : Below(q, y) => Below(<<n>>, y) /\ Below(Tail(q), y)
       /\ \A y \in Seq(Nat) : Below(y, q) => Below(y, <<n>>) /\ Below(y, Tail(q))
  <2>1. Tail(q) \in Seq(D)
    BY <1>6, <1>8, HeadTailProperties
  <2> QED BY <1>5, <1>6, <1>8, <2>1, TakenFirst
<1>19. \A s \in 1 .. MaxSims :
         /\ Rises(ids[s]) /\ ids[s] \in Seq(Nat)
         /\ \A t \in 1 .. MaxSims : s < t => Below(ids[s], ids[t])
  BY <1>4, IdsLists DEF Framed
<1>20. /\ more \in [1 .. MaxSims -> Seq(D)] /\ more[reader] = Tail(q)
       /\ \A s \in 1 .. MaxSims : s # reader => more[s] = ids[s]
  <2>1. ids \in [1 .. MaxSims -> Seq(D)]
    BY <1>4, <1>5 DEF Framed
  <2> QED BY <1>3, <1>5, <1>18, <2>1
<1>21. ASSUME NEW s \in 1 .. MaxSims
       PROVE  /\ Rises(more[s])
              /\ \A t \in 1 .. MaxSims : s < t => Below(more[s], more[t])
  <2>1. Rises(more[s])
    BY <1>3, <1>5, <1>18, <1>19, <1>20
  <2>2. ASSUME NEW t \in 1 .. MaxSims, s < t PROVE Below(more[s], more[t])
    <3>1. Below(ids[s], ids[t]) /\ ids[s] \in Seq(Nat) /\ ids[t] \in Seq(Nat)
      BY <1>19, <2>2
    <3>2. CASE s = reader
      <4>1. t # reader /\ more[t] = ids[t] /\ more[s] = Tail(q) /\ Below(q, ids[t])
        BY <1>5, <1>20, <2>2, <3>1, <3>2
      <4> QED BY <1>18, <3>1, <4>1
    <3>3. CASE t = reader
      <4>1. s # reader /\ more[s] = ids[s] /\ more[t] = Tail(q) /\ Below(ids[s], q)
        BY <1>5, <1>20, <2>2, <3>1, <3>3
      <4> QED BY <1>18, <3>1, <4>1
    <3>4. CASE s # reader /\ t # reader
      BY <1>20, <3>1, <3>4
    <3> QED BY <3>2, <3>3, <3>4
  <2> QED BY <2>1, <2>2
<1>22. \A s \in 1 .. MaxSims : s > sims => toPy'[s] = <<>> /\ more[s] = <<>>
  <2>1. \A s \in 1 .. MaxSims : s > sims => s # reader
    BY DEF Connected
  <2>2. \A s \in 1 .. MaxSims : s > sims => toPy[s] = <<>> /\ ids[s] = <<>>
    BY <1>4 DEF Framed
  <2> QED BY <1>12, <1>20, <2>1, <2>2
<1>23. ASSUME NEW s \in 1 .. MaxSims, Readable(s)
       PROVE  /\ \E rest \in Nat : Frames(Unread(s)', more[s], code, rest) /\ (Alive(s) => rest = 0)
              /\ \A c \in Channels : Below(Got(c), more[s])
              /\ Below(<<n>>, more[s])
  <2>1. /\ \E rest \in Nat : Frames(Unread(s), ids[s], code, rest) /\ (Alive(s) => rest = 0)
        /\ \A c \in Channels : Below(Got(c), ids[s])
    BY <1>4, <1>5, <1>23 DEF Framed
  <2>2. CASE s = reader
    <3>1. Unread(s)' = r
      <4>1. s' = reader'
        BY <1>2, <2>2
      <4> QED BY <1>2, <1>12, <2>2 DEF Unread
    <3>2. more[s] = Tail(q) /\ Rises(q) /\ (Alive(s) => cut = 0)
      BY <1>3, <1>5, <1>7, <1>19, <1>20, <2>2
    <3>3. \A c \in Channels : Got(c) \in Seq(Nat) /\ Below(Got(c), q)
      BY <1>5, <2>1, <2>2, GotLists
    <3>4. \A c \in Channels : Below(Got(c), Tail(q))
      BY <1>18, <3>3
    <3> QED BY <1>10, <1>18, <3>1, <3>2, <3>4
  <2>3. CASE s # reader
    <3>1. Unread(s)' = Unread(s) /\ more[s] = ids[s]
      BY <1>17, <1>20, <2>3
    <3>2. s > reader
      BY <1>23, <2>3 DEF Readable
    <3>3. Below(q, ids[s]) /\ ids[s] \in Seq(Nat)
      BY <1>3, <1>5, <1>19, <3>2
    <3>4. Below(<<n>>, ids[s])
      BY <1>18, <3>3
    <3> QED BY <2>1, <3>1, <3>4
  <2> QED BY <2>2, <2>3
<1>24. Framed(more)'
  <2>1. more \in [1 .. MaxSims -> Seq(DOMAIN sentOn')]
    BY <1>2, <1>5, <1>20
  <2>2. \A s \in 1 .. MaxSims : Readable(s)' =>
          \E rest \in Nat : Frames(Unread(s)', more[s], Code', rest) /\ (Alive(s)' => rest = 0)
    BY <1>5, <1>14, <1>17, <1>23
  <2>3. \A s \in 1 .. MaxSims : Readable(s)' => \A c \in Channels : Below(Got(c)', more[s])
    BY <1>17, <1>23
  <2>4. sims' = sims
    BY <1>2
  <2> QED BY <1>21, <1>22, <2>1, <2>2, <2>3, <2>4 DEF Framed
<1>25. Taken(more, n)'
  <2>1. n \in DOMAIN sentOn' /\ recvPipe' = Sent(n)'
    BY <1>2, <1>5, <1>8, <1>11, <1>17
  <2>2. \A s \in 1 .. MaxSims : Readable(s)' => Below(<<n>>, more[s])
    BY <1>17, <1>23
  <2>3. ASSUME NEW c \in Channels PROVE Below(Got(c)', <<n>>)
    <3>1. Readable(reader)
      BY <1>2 DEF Readable, Connected
    <3>2. Below(Got(c), q) /\ Got(c) \in Seq(Nat)
      BY <1>3, <1>4, <1>5, <3>1, GotLists DEF Framed
    <3> QED BY <1>17, <1>18, <3>2
  <2> QED BY <2>1, <2>2, <2>3 DEF Taken
<1>26. ReceivedInOrder'
  <2>1. \A c \in Channels :
         /\ Rises(Got(c)')
         /\ \A i \in DOMAIN Got(c)' : Got(c)'[i] \in DOMAIN sentOn' /\ sentOn'[Got(c)'[i]].channel = c
    BY <1>2, <1>17 DEF ReceivedInOrder
  <2>2. pyRecvAt' = "push" <=> recvPipe' # None
    BY <1>2, <1>11
  <2> QED BY <1>24, <1>25, <2>1, <2>2 DEF ReceivedInOrder
<1> QED BY <1>13, <1>15, <1>16, <1>26

LEMMA RunDispatchKeeps ==
  ASSUME PyInv, RunDispatch
  PROVE  PyInv'
<1> USE Numbering DEF PyInv
<1>1. /\ recvPipe # None /\ recvPipe' = None /\ pyRecvAt' = "wait"
      /\ recvQueues' = [recvQueues EXCEPT ![recvPipe.channel] = Append(@, recvPipe.data)]
      /\ UNCHANGED <<connEst, connTerm, socket, pyConnAt, pySendAt, pyRecvCurr, reader, size,
                     sendPipe, sendMsg, pySendQueue, pyPushed, simUp, sims, toPy, broken, sentOn, simGot>>
  BY DEF RunDispatch, simSide
<1>2. PICK ids, n : Framed(ids) /\ Taken(ids, n)
  BY <1>1 DEF ReceivedInOrder
<1>3. PICK d, q, g : d = sentOn[n].channel /\ q = recvQueues[d] /\ g = Got(d)
  OBVIOUS
<1>4. n \in DOMAIN sentOn /\ n \in Nat /\ d \in Channels /\ recvPipe.channel = d /\ recvPipe.data = <<n>>
  <2>1. n \in DOMAIN sentOn /\ recvPipe = Sent(n)
    BY <1>2 DEF Taken
  <2>2. n \in Nat /\ d \in Channels
    BY <1>3, <2>1, Coding
  <2> QED BY <1>3, <2>1, <2>2 DEF Sent, Message
<1>5. q \in Seq({<<m>> : m \in Nat}) /\ g \in Seq(Nat) /\ g = Firsts(q)
  BY <1>3, <1>4, GotLists DEF Got
<1>6. PICK r : r = Append(q, <<n>>)
  OBVIOUS
<1>7. /\ recvQueues'[d] = r /\ r \in Seq({<<m>> : m \in Nat})
      /\ \A c \in Channels : c # d => recvQueues'[c] = recvQueues[c]
      /\ recvQueues' \in [Channels -> Seq({<<m>> : m \in Nat})]
  <2>1. r \in Seq({<<m>> : m \in Nat})
    BY <1>4, <1>5, <1>6, FirstsOf
  <2>2. recvQueues \in [Channels -> Seq({<<m>> : m \in Nat})]
    BY DEF PyTypes
  <2>3. recvQueues' = [recvQueues EXCEPT ![d] = r]
    BY <1>1, <1>3, <1>4, <1>6
  <2> QED BY <1>4, <2>1, <2>2, <2>3
<1>8. Got(d)' = Append(g, n) /\ \A c \in Channels : c # d => Got(c)' = Got(c)
  <2>1. Firsts(r) = Append(g, n)
    BY <1>4, <1>5, <1>6, FirstsOf
  <2> QED BY <1>7, <2>1 DEF Got
<1>9. PyTypes'
  BY <1>1, <1>7 DEF PyTypes, Byte
<1>10. \A s : Alive(s)' = Alive(s)
  BY <1>1 DEF Alive
<1>11. pyRecvAt = "push"
  BY <1>1 DEF ReceivedInOrder
<1>12. Connected'
  BY <1>1, <1>10, <1>11 DEF Connected
<1>13. OutInOrder'
  BY <1>1, OutKept
<1>14. /\ Append(g, n) \in Seq(Nat) /\ Rises(Append(g, n))
       /\ \A z \in Seq(Nat) : Below(g, z) /\ Below(<<n>>, z) => Below(Append(g, n), z)
  <2>1. Below(g, <<n>>) /\ Rises(g)
    BY <1>2, <1>3, <1>4 DEF Taken, ReceivedInOrder
  <2> QED BY <1>4, <1>5, <2>1, AppendedLast
<1>15. Code' = Code /\ \A s : (Readable(s)' <=> Readable(s)) /\ Unread(s)' = Unread(s)
  BY <1>1, <1>11 DEF Code, Sent, Readable, Unread
<1>16. \A s \in 1 .. MaxSims : Readable(s) => \A c \in Channels : Below(Got(c)', ids[s])
  <2> SUFFICES ASSUME NEW s \in 1 .. MaxSims, Readable(s), NEW c \in Channels
               PROVE  Below(Got(c)', ids[s])
    OBVIOUS
  <2>1. Below(Got(c), ids[s]) /\ Below(<<n>>, ids[s])
    BY <1>2 DEF Framed, Taken
  <2>2. ids[s] \in Seq(Nat)
    BY <1>2, IdsLists
  <2>3. CASE c = d
    <3>1. Below(g, ids[s])
      BY <1>3, <2>1, <2>3
    <3> QED BY <1>8, <1>14, <2>1, <2>2, <2>3, <3>1
  <2>4. CASE c # d
    BY <1>8, <2>1, <2>4
  <2> QED BY <2>3, <2>4
<1>17. Framed(ids)'
  BY <1>1, <1>2, <1>10, <1>15, <1>16 DEF Framed
<1>18. \A c \in Channels : /\ Rises(Got(c)')
                           /\ \A i \in DOMAIN Got(c)' : Got(c)'[i] \in DOMAIN sentOn /\ sentOn[Got(c)'[i]].channel = c
  <2> SUFFICES ASSUME NEW c \in Channels
               PROVE  /\ Rises(Got(c)')
                      /\ \A i \in DOMAIN Got(c)' : Got(c)'[i] \in DOMAIN sentOn /\ sentOn[Got(c)'[i]].channel = c
    OBVIOUS
  <2>1. /\ Rises(Got(c))
        /\ \A i \in DOMAIN Got(c) : Got(c)[i] \in DOMAIN sentOn /\ sentOn[Got(c)[i]].channel = c
    BY DEF ReceivedInOrder
  <2>2. CASE c # d
    BY <1>8, <2>1, <2>2
  <2>3. CASE c = d
    <3>1. PICK h, k : h = Append(g, n) /\ k = Len(g)
      OBVIOUS
    <3>2. /\ k \in Nat /\ DOMAIN g = 1 .. k /\ h \in Seq(Nat) /\ Len(h) = k + 1 /\ h[k + 1] = n
          /\ \A i \in 1 .. k : h[i] = g[i]
      BY <1>4, <1>5, <3>1, AppendProperties
    <3>3. DOMAIN h = 1 .. k + 1 /\ \A i \in 1 .. k + 1 : i \in 1 .. k \/ i = k + 1
      BY <3>2
    <3>4. \A i \in DOMAIN h : h[i] \in DOMAIN sentOn /\ sentOn[h[i]].channel = c
      <4>1. \A i \in 1 .. k : g[i] \in DOMAIN sentOn /\ sentOn[g[i]].channel = c
        BY <1>3, <2>1, <2>3, <3>2
      <4> QED BY <1>3, <1>4, <2>3, <3>2, <3>3, <4>1
    <3> QED BY <1>8, <1>14, <2>3, <3>1, <3>4
  <2> QED BY <2>2, <2>3
<1>19. ReceivedInOrder'
  <2>1. pyRecvAt' # "push" /\ recvPipe' = None /\ sentOn' = sentOn
    BY <1>1
  <2> QED BY <1>17, <1>18, <2>1 DEF ReceivedInOrder
<1> QED BY <1>9, <1>12, <1>13, <1>19

----------------------------------------------------------------------------
(* All actions.                                                               *)
LEMMA PyNextKeeps ==
  ASSUME PyInv, PyNext
  PROVE  PyInv'
<1>1. CASE SimStart
  BY <1>1, SimStartKeeps
<1>2. CASE SimEnd
  BY <1>2, SimEndKeeps
<1>3. CASE \E c \in Channels : SimSend(c) \/ PyPush(c)
  <2>1. CASE \E c \in Channels : SimSend(c)
    BY <2>1, SimSendKeeps
  <2>2. CASE \E c \in Channels : PyPush(c)
    BY <2>2, OutKeeps DEF OutSteps
  <2> QED BY <1>3, <2>1, <2>2
<1>4. CASE RunConnect
  BY <1>4, TasksKept DEF RunConnect, TaskSteps
<1>5. CASE PyRecv
  BY <1>5, TasksKept, ReadSizeKeeps, ReadRestKeeps DEF PyRecv, TaskSteps
<1>6. CASE RunDispatch
  BY <1>6, RunDispatchKeeps
<1>7. CASE RunSender \/ PySend
  BY <1>7, OutKeeps DEF PySend, OutSteps
<1> QED BY <1>1, <1>2, <1>3, <1>4, <1>5, <1>6, <1>7 DEF PyNext

LEMMA PyStutters ==
  ASSUME PyInv, UNCHANGED pyConnVars
  PROVE  PyInv'
<1> USE DEF PyInv
<1>1. /\ UNCHANGED <<connEst, connTerm, socket, pyConnAt, pyRecvAt, pySendAt, pyRecvCurr, reader, size>>
      /\ UNCHANGED <<recvPipe, sendPipe, sendMsg, pySendQueue, recvQueues, pyPushed>>
      /\ UNCHANGED <<simUp, sims, toPy, broken, sentOn, simGot>>
  BY DEF pyConnVars, pyTasks, pyQueues, simSide
<1>2. PyTypes'
  BY <1>1 DEF PyTypes, Byte
<1>3. Connected'
  BY <1>1 DEF Connected, Alive
<1>4. ReceivedInOrder'
  <2>1. \A s \in 1 .. MaxSims : Readable(s)' => Readable(s) /\ Unread(s)' = Unread(s)
    BY <1>1 DEF Readable, Unread
  <2>2. \A s \in 1 .. MaxSims : Alive(s)' => Alive(s)
    BY <1>1 DEF Alive
  <2>3. pyRecvAt' = "push" <=> pyRecvAt = "push"
    BY <1>1
  <2>4. \A s \in 1 .. MaxSims : s > sims => toPy'[s] = toPy[s]
    BY <1>1
  <2> QED BY <1>1, <2>1, <2>2, <2>3, <2>4, ReceivedKept
<1>5. OutInOrder'
  BY <1>1, OutKept
<1> QED BY <1>2, <1>3, <1>4, <1>5

LEMMA PyOrder == PyInv => ChannelsInOrder
<1> SUFFICES ASSUME PyInv PROVE ChannelsInOrder
  OBVIOUS
<1> USE DEF PyInv
<1>1. ASSUME NEW q \in Seq(Nat), Rises(q) PROVE Rising(q)
  <2>1. Len(q) \in Nat /\ DOMAIN q = 1 .. Len(q)
    BY Lists
  <2>2. \A i \in 1 .. Len(q) - 1 : i \in 1 .. Len(q) /\ i + 1 \in 1 .. Len(q) /\ i < i + 1
    BY <2>1
  <2> QED BY <1>1, <2>1, <2>2 DEF Rises, Rising
<1>2. ASSUME NEW c \in Channels
      PROVE  /\ \A i \in DOMAIN recvQueues[c] : sentOn[recvQueues[c][i][1]].channel = c
             /\ Rising([i \in DOMAIN recvQueues[c] |-> recvQueues[c][i][1]])
  <2>1. Got(c) = [i \in DOMAIN recvQueues[c] |-> recvQueues[c][i][1]]
    BY DEF Got, Firsts
  <2>2. Got(c) \in Seq(Nat)
    BY GotLists
  <2>3. Rises(Got(c)) /\ \A i \in DOMAIN Got(c) : sentOn[Got(c)[i]].channel = c
    BY DEF ReceivedInOrder
  <2>4. DOMAIN Got(c) = DOMAIN recvQueues[c] /\ \A i \in DOMAIN recvQueues[c] : Got(c)[i] = recvQueues[c][i][1]
    BY <2>1
  <2>5. Rising(Got(c))
    BY <1>1, <2>2, <2>3
  <2> QED BY <2>1, <2>3, <2>4, <2>5
<1>3. Rising(simGot)
  BY <1>1 DEF OutInOrder
<1> QED BY <1>2, <1>3 DEF ChannelsInOrder

(* Over however many connections, and wherever one of them is cut, Python     *)
(* puts the messages of simulators in the queues of their channels, in the    *)
(* order they were sent and none twice, and writes its own in the order they  *)
(* were pushed (class Connection and Control of comm.py).                     *)
THEOREM PyConnectionInOrder == PySpec => []ChannelsInOrder
<1>1. PyInv /\ [PyNext]_pyConnVars => PyInv'
  BY PyNextKeeps, PyStutters
<1> QED BY <1>1, PyInitially, PyOrder, PTL DEF PySpec

----------------------------------------------------------------------------
(* Both ends.                                                                 *)
BothInv == ConnInv /\ PyInv

LEMMA BothNextKeeps ==
  ASSUME BothInv, BothNext
  PROVE  BothInv'
<1>1. CASE InSimulator(Next)
  BY <1>1, ConnNext, PyStutters DEF BothInv, InSimulator
<1>2. CASE InPython(PyNext)
  BY <1>2, PyNextKeeps, ConnStutters DEF BothInv, InPython
<1> QED BY <1>1, <1>2 DEF BothNext

(* What each end passes on comes out in the order it went in, none of it      *)
(* twice, whatever the other end does: the inductive invariants of the two    *)
(* together.                                                                  *)
THEOREM BothInvariant == BothSpec => []BothInv
<1>1. BothInit => BothInv
  BY ConnInit, PyInitially DEF BothInit, BothInv
<1>2. BothInv /\ [BothNext]_bothVars => BothInv'
  <2>1. BothInv /\ UNCHANGED bothVars => BothInv'
    BY ConnStutters, PyStutters DEF BothInv, bothVars
  <2> QED BY <2>1, BothNextKeeps
<1> QED BY <1>1, <1>2, PTL DEF BothSpec

(* Neither direction of the simulator's end reorders or repeats (SiCo.cc).    *)
THEOREM SimulatorEndInOrder == BothSpec => []InOrder
<1>1. BothInv => InOrder
  BY ConnOrder DEF BothInv
<1> QED BY <1>1, BothInvariant, PTL

(* Nor does one of the Python end, and no message ends in the queue of        *)
(* another channel (comm.py).                                                 *)
THEOREM PythonEndInOrder == BothSpec => []ChannelsInOrder
<1>1. BothInv => ChannelsInOrder
  BY PyOrder DEF BothInv
<1> QED BY <1>1, BothInvariant, PTL
=============================================================================
