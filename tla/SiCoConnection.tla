--------------------------- MODULE SiCoConnection ---------------------------
(* Class Connection of the C++ library (sico/cpp/SiCo.cc): three threads    *)
(* share connectedMutex, connectedCond and the numbers of the last          *)
(* established and the last terminated connection.  The peer is a Python    *)
(* program that connects, may end, and may be started again; what it does   *)
(* with a socket is taken from sico/python/sico/comm.py.                    *)
EXTENDS Integers, Sequences, SequencesExt

CONSTANTS
    MaxConnects,    \* bound on the connections the peer makes
    MaxMessages     \* bound on the messages pushed, in each direction

ASSUME ConnectionAssumption == MaxConnects \in Nat /\ MaxMessages \in Nat

VARIABLES
    connectedEst,   \* number of the last established connection
    connectedTerm,  \* number of the last terminated connection
    connAt, sendAt, recvAt,     \* where the threads stand
    sendCurr, recvCurr,         \* curr of runSend and of runRecv
    asleep,         \* threads that wait on connectedCond
    sendQueue,      \* messages pushed and not popped by sendMessage
    pushed,         \* how many messages were pushed
    recvQueue,      \* messages received
    connects,       \* connections the peer made
    peerUp,         \* the peer has not closed the last one
    toSim,          \* bytes in flight to the simulator, per connection
    sentBy,         \* how many messages the peer sent
    peerGot         \* messages the peer received

numbers == <<connectedEst, connectedTerm, sendCurr, recvCurr>>
places == <<connAt, sendAt, recvAt, asleep>>
simQueues == <<sendQueue, pushed, recvQueue>>
peerVars == <<connects, peerUp, toSim, sentBy, peerGot>>
vars == <<numbers, places, simQueues, peerVars>>

Init ==
    /\ connectedEst = 0 /\ connectedTerm = 0
    /\ connAt = "listen" /\ sendAt = "wait" /\ recvAt = "wait"
    /\ sendCurr = 0 /\ recvCurr = 0
    /\ asleep = {}
    /\ sendQueue = <<>> /\ pushed = 0 /\ recvQueue = <<>>
    /\ connects = 0 /\ peerUp = FALSE
    /\ toSim = [c \in 1 .. MaxConnects |-> <<>>]
    /\ sentBy = 0 /\ peerGot = <<>>

----------------------------------------------------------------------------
(* The peer.  The kernel completes its connect before accept is called.     *)
PeerConnect ==
    /\ ~peerUp /\ connects < MaxConnects
    /\ connAt # "listen"
    /\ connects' = connects + 1 /\ peerUp' = TRUE
    /\ UNCHANGED <<numbers, places, simQueues, toSim, sentBy, peerGot>>

PeerSend ==
    /\ peerUp /\ sentBy < MaxMessages
    /\ sentBy' = sentBy + 1
    /\ toSim' = [toSim EXCEPT ![connects] = Append(@, sentBy')]
    /\ UNCHANGED <<numbers, places, simQueues, connects, peerUp, peerGot>>

PeerEnd ==
    /\ peerUp
    /\ peerUp' = FALSE
    /\ UNCHANGED <<numbers, places, simQueues, connects, toSim, sentBy, peerGot>>

----------------------------------------------------------------------------
(* accept runs with connectedMutex locked; nothing else keeps the mutex.    *)
MutexFree == connAt # "accept"

SocketOpen == MutexFree /\ connectedEst > 0         \* connectedSocket is not closed
PeerThere == connectedEst = connects /\ peerUp

(* Some thread of the simulator pushes a message.                           *)
Push ==
    /\ pushed < MaxMessages
    /\ pushed' = pushed + 1
    /\ sendQueue' = Append(sendQueue, pushed')
    /\ UNCHANGED <<numbers, places, recvQueue, peerVars>>

(* runConn.                                                                 *)
Listen ==
    /\ connAt = "listen"
    /\ connAt' = "accept"
    /\ UNCHANGED <<numbers, sendAt, recvAt, asleep, simQueues, peerVars>>

(* Mutant: notify_one.                                                      *)
AcceptNotifiesOne ==
    /\ connAt = "accept" /\ connects > connectedEst
    /\ connectedEst' = connectedEst + 1
    /\ connAt' = "established"
    /\ IF asleep = {} THEN UNCHANGED asleep
       ELSE \E thread \in asleep : asleep' = asleep \ {thread}
    /\ UNCHANGED <<connectedTerm, sendCurr, recvCurr, sendAt, recvAt, simQueues, peerVars>>

Accept ==
    /\ connAt = "accept" /\ connects > connectedEst
    /\ connectedEst' = connectedEst + 1
    /\ connAt' = "established"
    /\ asleep' = {}                 \* notify_all
    /\ UNCHANGED <<connectedTerm, sendCurr, recvCurr, sendAt, recvAt, simQueues, peerVars>>

AwaitTerm ==
    /\ connAt = "established" /\ "conn" \notin asleep
    /\ IF connectedTerm >= connectedEst
       THEN connAt' = "accept" /\ UNCHANGED asleep
       ELSE asleep' = asleep \cup {"conn"} /\ UNCHANGED connAt
    /\ UNCHANGED <<numbers, sendAt, recvAt, simQueues, peerVars>>

(* runSend.                                                                 *)
AwaitToSend ==
    /\ sendAt = "wait" /\ "send" \notin asleep /\ MutexFree
    /\ IF connectedEst > connectedTerm
       THEN sendAt' = "send" /\ sendCurr' = connectedEst /\ UNCHANGED asleep
       ELSE asleep' = asleep \cup {"send"} /\ UNCHANGED <<sendAt, sendCurr>>
    /\ UNCHANGED <<connectedEst, connectedTerm, recvCurr, connAt, recvAt, simQueues, peerVars>>

(* Mutant: the message is left in the queue.                                *)
SendKeeps ==
    /\ sendAt = "send" /\ sendQueue # <<>>
    /\ Len(peerGot) < MaxMessages
    /\ IF SocketOpen /\ PeerThere
       THEN peerGot' = Append(peerGot, Head(sendQueue)) /\ sendAt' = "wait"
       ELSE sendAt' = "abort" /\ UNCHANGED peerGot
    /\ UNCHANGED <<numbers, connAt, recvAt, asleep, simQueues,
                   connects, peerUp, toSim, sentBy>>

(* sendMessage: the message popped is lost when the write fails.            *)
Send ==
    /\ sendAt = "send" /\ sendQueue # <<>>
    /\ sendQueue' = Tail(sendQueue)
    /\ IF SocketOpen /\ PeerThere
       THEN peerGot' = Append(peerGot, Head(sendQueue)) /\ sendAt' = "wait"
       ELSE sendAt' = "abort" /\ UNCHANGED peerGot
    /\ UNCHANGED <<numbers, connAt, recvAt, asleep, pushed, recvQueue,
                   connects, peerUp, toSim, sentBy>>

AbortSend ==
    /\ sendAt = "abort" /\ MutexFree
    /\ connectedTerm' = sendCurr
    /\ sendAt' = "wait"
    /\ UNCHANGED <<connectedEst, sendCurr, recvCurr, connAt, recvAt, asleep, simQueues, peerVars>>

(* runRecv.                                                                 *)
AwaitToRecv ==
    /\ recvAt = "wait" /\ "recv" \notin asleep /\ MutexFree
    /\ IF connectedEst > connectedTerm
       THEN recvAt' = "recv" /\ recvCurr' = connectedEst /\ UNCHANGED asleep
       ELSE asleep' = asleep \cup {"recv"} /\ UNCHANGED <<recvAt, recvCurr>>
    /\ UNCHANGED <<connectedEst, connectedTerm, sendCurr, connAt, sendAt, simQueues, peerVars>>

Recv ==
    /\ recvAt = "recv"
    /\ SocketOpen /\ toSim[connectedEst] # <<>>
    /\ recvQueue' = Append(recvQueue, Head(toSim[connectedEst]))
    /\ toSim' = [toSim EXCEPT ![connectedEst] = Tail(@)]
    /\ recvAt' = "wait"
    /\ UNCHANGED <<numbers, connAt, sendAt, asleep, sendQueue, pushed,
                   connects, peerUp, sentBy, peerGot>>

(* End of file, or a read from a closed socket.                             *)
RecvFails ==
    /\ recvAt = "recv"
    /\ ~SocketOpen \/ (toSim[connectedEst] = <<>> /\ ~PeerThere)
    /\ recvAt' = "abort"
    /\ UNCHANGED <<numbers, connAt, sendAt, asleep, simQueues, peerVars>>

AbortRecv ==
    /\ recvAt = "abort" /\ MutexFree
    /\ connectedTerm' = recvCurr
    /\ recvAt' = "wait"
    /\ UNCHANGED <<connectedEst, sendCurr, recvCurr, connAt, sendAt, asleep, simQueues, peerVars>>

(* A condition variable may wake a thread that nobody notified.             *)
SpuriousWakeup ==
    /\ asleep # {}
    /\ \E thread \in asleep : asleep' = asleep \ {thread}
    /\ UNCHANGED <<numbers, connAt, sendAt, recvAt, simQueues, peerVars>>

----------------------------------------------------------------------------
RunConn == Listen \/ Accept \/ AwaitTerm
RunSend == AwaitToSend \/ Send \/ AbortSend
RunRecv == AwaitToRecv \/ Recv \/ RecvFails \/ AbortRecv

Next ==
    \/ PeerConnect \/ PeerSend \/ PeerEnd \/ Push
    \/ RunConn \/ RunSend \/ RunRecv \/ SpuriousWakeup

Spec == Init /\ [][Next]_vars

(* The three threads run; a spurious wake-up may or may not come.           *)
FairSpec == Spec /\ WF_vars(RunConn) /\ WF_vars(RunSend) /\ WF_vars(RunRecv)

----------------------------------------------------------------------------

(* Neither direction reorders or repeats a message, over however many       *)
(* connections: messages are numbered in the order they were sent.          *)
Increasing(s) == \A i \in 1 .. Len(s) - 1 : s[i] < s[i + 1]
InOrder == Increasing(recvQueue) /\ Increasing(peerGot)

(* While the first peer stays, what was pushed reaches it, also what was    *)
(* pushed before it connected.                                              *)
MessageArrives == \A n \in 1 .. MaxMessages :
    pushed >= n /\ connects = 1 /\ peerUp ~> Contains(peerGot, n) \/ ~peerUp

(* And what it sends is received.                                           *)
MessageReceived == \A n \in 1 .. MaxMessages :
    sentBy >= n /\ connects = 1 ~> Contains(recvQueue, n) \/ ~peerUp

(* Both directions go on while the first peer stays.                        *)
MessagesArrive == MessageArrives /\ MessageReceived

(* runConn accepts one connection after the other (SiCo.cc:372-385, "accept *)
(* connection" in "while(running)"): a peer that stays is accepted.         *)
AcceptsAgain == \A c \in 1 .. MaxConnects :
    connects = c ~> connectedEst >= c \/ ~peerUp
=============================================================================
