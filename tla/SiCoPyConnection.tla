-------------------------- MODULE SiCoPyConnection --------------------------
(* Class Connection of the Python side (sico/python/sico/comm.py) and the    *)
(* two tasks of Control around it: one task keeps the socket open, one reads *)
(* it and one writes it; ccRunDispatch sorts what came in to the queues of   *)
(* the channels, ccRunSender feeds what goes out.  The other end is a        *)
(* simulator that ends and is started again.                                 *)
(*                                                                           *)
(* Tasks interleave where they await.  connMutex is never held over an await *)
(* but the one that waits on connCond, so that each block is one action.     *)
EXTENDS Integers, Sequences, SequencesExt

CONSTANTS
    Channels,       \* names of channels, as sequences of characters
    MaxSims,        \* bound on the simulators that are started
    MaxToSim,       \* bound on the messages pushed to them
    MaxToPy,        \* bound on the messages they send
    None

(* Names are sequences; the special value is no message.                     *)
ASSUME PyConnectionAssumption ==
    /\ {MaxSims, MaxToSim, MaxToPy} \subseteq Nat
    /\ \A c \in Channels : c \in Seq(Range(c))
    /\ None \notin [channel : Channels, data : Seq(Nat)]

VARIABLES
    connEst,        \* number of the last established connection
    connTerm,       \* number of the last terminated connection
    socket,         \* the simulator socketReader and socketWriter lead to
    pyConnAt, pyRecvAt, pySendAt,     \* where the tasks stand
    waiting,        \* tasks that wait on connCond
    pyRecvCurr, reader, size,     \* connCurr, reader and size of ccRunRecv
    recvPipe, sendPipe,         \* what stands in the gates, or None
    sendMsg,        \* msg of ccRunSend
    pySendQueue, recvQueues,      \* Control.sendQueue and Control.recvQueues
    pyPushed,       \* how many messages were pushed
    simUp, sims,    \* a simulator runs; how many were started
    toPy,           \* bytes each simulator has written, not read yet
    broken,         \* sockets that failed under a write
    sentOn,         \* the messages sent by simulators: on which channel, by which
    simGot          \* the messages the simulators received

pyTasks == <<connEst, connTerm, socket, pyConnAt, pyRecvAt, pySendAt, waiting, pyRecvCurr, reader, size>>
pyQueues == <<recvPipe, sendPipe, sendMsg, pySendQueue, recvQueues, pyPushed>>
simSide == <<simUp, sims, toPy, broken, sentOn, simGot>>
pyConnVars == <<pyTasks, pyQueues, simSide>>

(* A length takes one byte here, a character and the data one each.          *)
BASE_LENGTH == 2
Message(channel, data) == [channel |-> channel, data |-> data]

toBytes(msg) ==
    <<BASE_LENGTH + Len(msg.channel) + Len(msg.data), Len(msg.channel)>> \o msg.channel \o msg.data

fromBytes(raw) ==
    LET chanLength == raw[2] IN
    Message(SubSeq(raw, 3, 2 + chanLength), SubSeq(raw, 3 + chanLength, Len(raw)))

PyInit ==
    /\ connEst = 0 /\ connTerm = 0 /\ socket = 0
    /\ pyConnAt = "open" /\ pyRecvAt = "wait" /\ pySendAt = "pull"
    /\ waiting = {}
    /\ pyRecvCurr = 0 /\ reader = 0 /\ size = 0
    /\ recvPipe = None /\ sendPipe = None /\ sendMsg = None
    /\ pySendQueue = <<>> /\ recvQueues = [c \in Channels |-> <<>>] /\ pyPushed = 0
    /\ simUp = FALSE /\ sims = 0
    /\ toPy = [s \in 1 .. MaxSims |-> <<>>]
    /\ broken = {} /\ sentOn = <<>> /\ simGot = <<>>

----------------------------------------------------------------------------
(* Simulators.  The last message of one that ends may be cut.                *)
SimStart ==
    /\ ~simUp /\ sims < MaxSims
    /\ simUp' = TRUE /\ sims' = sims + 1
    /\ UNCHANGED <<pyTasks, pyQueues, toPy, broken, sentOn, simGot>>

SimSend(channel) ==
    /\ simUp /\ socket = sims /\ Len(sentOn) < MaxToPy
    /\ sentOn' = Append(sentOn, [channel |-> channel, sim |-> sims])
    /\ toPy' = [toPy EXCEPT ![sims] = @ \o toBytes(Message(channel, <<Len(sentOn')>>))]
    /\ UNCHANGED <<pyTasks, pyQueues, simUp, sims, broken, simGot>>

SimEnd ==
    /\ simUp
    /\ simUp' = FALSE
    /\ \E cut \in 0 .. 1 : toPy' = [toPy EXCEPT ![sims] = SubSeq(@, 1, Len(@) - cut)]
    /\ UNCHANGED <<pyTasks, pyQueues, sims, broken, sentOn, simGot>>

Alive(s) == simUp /\ s = sims

----------------------------------------------------------------------------
(* Mutant: notify instead of notify_all.                                     *)
OpenNotifiesOne ==
    /\ pyConnAt = "open" /\ simUp
    /\ connEst' = connEst + 1 /\ socket' = sims
    /\ IF waiting = {} THEN UNCHANGED waiting
       ELSE \E task \in waiting : waiting' = waiting \ {task}
    /\ pyConnAt' = "await"
    /\ UNCHANGED <<connTerm, pyRecvAt, pySendAt, pyRecvCurr, reader, size, pyQueues, simSide>>

(* ccRunConnect: it tries again every second until a simulator listens.      *)
Open ==
    /\ pyConnAt = "open" /\ simUp
    /\ connEst' = connEst + 1 /\ socket' = sims
    /\ waiting' = {}
    /\ pyConnAt' = "await"
    /\ UNCHANGED <<connTerm, pyRecvAt, pySendAt, pyRecvCurr, reader, size, pyQueues, simSide>>

AwaitEnd ==
    /\ pyConnAt = "await" /\ "connect" \notin waiting
    /\ IF connEst <= connTerm
       THEN pyConnAt' = "open" /\ UNCHANGED waiting
       ELSE waiting' = waiting \cup {"connect"} /\ UNCHANGED pyConnAt
    /\ UNCHANGED <<connEst, connTerm, socket, pyRecvAt, pySendAt, pyRecvCurr, reader, size, pyQueues, simSide>>

(* ccRunRecv: the length of a message, and the rest of it, are read apart.   *)
PyAwaitToRecv ==
    /\ pyRecvAt = "wait" /\ "recv" \notin waiting
    /\ IF connEst > connTerm
       THEN pyRecvAt' = "size" /\ pyRecvCurr' = connEst /\ reader' = socket /\ UNCHANGED waiting
       ELSE waiting' = waiting \cup {"recv"} /\ UNCHANGED <<pyRecvAt, pyRecvCurr, reader>>
    /\ UNCHANGED <<connEst, connTerm, socket, pyConnAt, pySendAt, size, pyQueues, simSide>>

ReadSize ==
    /\ pyRecvAt = "size" /\ reader \notin broken /\ toPy[reader] # <<>>
    /\ size' = Head(toPy[reader])
    /\ toPy' = [toPy EXCEPT ![reader] = Tail(@)]
    /\ pyRecvAt' = "rest"
    /\ UNCHANGED <<connEst, connTerm, socket, pyConnAt, pySendAt, waiting, pyRecvCurr, reader,
                   pyQueues, simUp, sims, broken, sentOn, simGot>>

ReadRest ==
    /\ pyRecvAt = "rest" /\ reader \notin broken /\ Len(toPy[reader]) >= size - 1
    /\ recvPipe' = fromBytes(<<size>> \o SubSeq(toPy[reader], 1, size - 1))
    /\ toPy' = [toPy EXCEPT ![reader] = SubSeq(@, size, Len(@))]
    /\ pyRecvAt' = "push"
    /\ UNCHANGED <<connEst, connTerm, socket, pyConnAt, pySendAt, waiting, pyRecvCurr, reader, size,
                   sendPipe, sendMsg, pySendQueue, recvQueues, pyPushed, simUp, sims, broken, sentOn, simGot>>

(* The end of the file, before the bytes asked for; or the error of a write  *)
(* on the same socket.                                                       *)
ReadFails ==
    /\ \/ pyRecvAt = "size" /\ toPy[reader] = <<>> /\ ~Alive(reader)
       \/ pyRecvAt = "rest" /\ Len(toPy[reader]) < size - 1 /\ ~Alive(reader)
       \/ pyRecvAt \in {"size", "rest"} /\ reader \in broken
    /\ pyRecvAt' = "abort"
    /\ UNCHANGED <<connEst, connTerm, socket, pyConnAt, pySendAt, waiting, pyRecvCurr, reader, size,
                   pyQueues, simSide>>

(* Mutant: nobody is told.                                                   *)
PyAbortSilently ==
    /\ pyRecvAt = "abort"
    /\ connTerm' = pyRecvCurr
    /\ pyRecvAt' = "wait"
    /\ UNCHANGED <<connEst, socket, pyConnAt, pySendAt, waiting, pyRecvCurr, reader, size, pyQueues, simSide>>

PyAbort ==
    /\ pyRecvAt = "abort"
    /\ connTerm' = pyRecvCurr
    /\ waiting' = {}
    /\ pyRecvAt' = "wait"
    /\ UNCHANGED <<connEst, socket, pyConnAt, pySendAt, pyRecvCurr, reader, size, pyQueues, simSide>>

(* ccRunDispatch: getQueue makes the queue of a channel at its first message.*)
RunDispatch ==
    /\ recvPipe # None
    /\ recvQueues' = [recvQueues EXCEPT ![recvPipe.channel] = Append(@, recvPipe.data)]
    /\ recvPipe' = None
    /\ pyRecvAt' = "wait"             \* the push returns
    /\ UNCHANGED <<connEst, connTerm, socket, pyConnAt, pySendAt, waiting, pyRecvCurr, reader, size,
                   sendPipe, sendMsg, pySendQueue, pyPushed, simSide>>

(* ccPush.                                                                   *)
PyPush(channel) ==
    /\ pyPushed < MaxToSim
    /\ pyPushed' = pyPushed + 1
    /\ pySendQueue' = Append(pySendQueue, Message(channel, <<pyPushed'>>))
    /\ UNCHANGED <<pyTasks, recvPipe, sendPipe, sendMsg, recvQueues, simSide>>

(* Mutant: the message stays in the queue.                                   *)
RunSenderKeeps ==
    /\ pySendQueue # <<>> /\ sendPipe = None
    /\ sendPipe' = Head(pySendQueue)
    /\ UNCHANGED <<pyTasks, recvPipe, sendMsg, pySendQueue, recvQueues, pyPushed, simSide>>

RunSender ==
    /\ pySendQueue # <<>> /\ sendPipe = None
    /\ sendPipe' = Head(pySendQueue) /\ pySendQueue' = Tail(pySendQueue)
    /\ UNCHANGED <<pyTasks, recvPipe, sendMsg, recvQueues, pyPushed, simSide>>

(* ccRunSend takes a message before it waits for a connection.               *)
Pull ==
    /\ pySendAt = "pull" /\ sendPipe # None
    /\ sendMsg' = sendPipe /\ sendPipe' = None
    /\ pySendAt' = "wait"
    /\ UNCHANGED <<connEst, connTerm, socket, pyConnAt, pyRecvAt, waiting, pyRecvCurr, reader, size,
                   recvPipe, pySendQueue, recvQueues, pyPushed, simSide>>

(* writer.write raises nothing: on a dead socket the message is lost, and    *)
(* the reader of that socket gets the error.                                 *)
Write ==
    /\ pySendAt = "wait" /\ "send" \notin waiting
    /\ IF connEst > connTerm
       THEN /\ IF Alive(socket)
               THEN simGot' = Append(simGot, fromBytes(toBytes(sendMsg)).data[1]) /\ UNCHANGED broken
               ELSE broken' = broken \cup {socket} /\ UNCHANGED simGot
            /\ sendMsg' = None /\ pySendAt' = "pull"
            /\ UNCHANGED waiting
       ELSE waiting' = waiting \cup {"send"} /\ UNCHANGED <<pySendAt, sendMsg, simGot, broken>>
    /\ UNCHANGED <<connEst, connTerm, socket, pyConnAt, pyRecvAt, pyRecvCurr, reader, size,
                   recvPipe, sendPipe, pySendQueue, recvQueues, pyPushed, simUp, sims, toPy, sentOn>>

----------------------------------------------------------------------------
RunConnect == Open \/ AwaitEnd
PyRecv == PyAwaitToRecv \/ ReadSize \/ ReadRest \/ ReadFails \/ PyAbort
PySend == Pull \/ Write

PyNext ==
    \/ SimStart \/ SimEnd \/ \E c \in Channels : SimSend(c) \/ PyPush(c)
    \/ RunConnect \/ PyRecv \/ RunDispatch \/ RunSender \/ PySend

(* asyncio runs every task that can go on.                                   *)
PySpec == PyInit /\ [][PyNext]_pyConnVars
PyFairSpec ==
    /\ PySpec
    /\ WF_pyConnVars(RunConnect) /\ WF_pyConnVars(PyRecv) /\ WF_pyConnVars(RunDispatch)
    /\ WF_pyConnVars(RunSender) /\ WF_pyConnVars(PySend)

----------------------------------------------------------------------------
(* Over however many connections, and wherever one is cut, a queue gets the  *)
(* messages of its channel and no others, in their order and none twice; and *)
(* so do the simulators.                                                     *)
Rising(s) == \A i \in 1 .. Len(s) - 1 : s[i] < s[i + 1]
ChannelsInOrder ==
    /\ \A c \in Channels :
        /\ \A i \in DOMAIN recvQueues[c] : sentOn[recvQueues[c][i][1]].channel = c
        /\ Rising([i \in DOMAIN recvQueues[c] |-> recvQueues[c][i][1]])
    /\ Rising(simGot)

(* A simulator that stays is connected, however the connections before it    *)
(* ended: "connection terminated - again..." (comm.py:116).                  *)
Reconnects == simUp ~> ~simUp \/ (Alive(socket) /\ connEst > connTerm)

(* What Python has not written yet when the connection leads to a simulator  *)
(* that stays reaches it.                                                    *)
Pending(n) ==
    \/ \E i \in DOMAIN pySendQueue : pySendQueue[i].data[1] = n
    \/ \E msg \in {sendPipe, sendMsg} \ {None} : msg.data[1] = n

PushedArrives == \A n \in 1 .. MaxToSim :
    Pending(n) /\ Alive(socket) ~> ~Alive(socket) \/ Contains(simGot, n)

(* What a simulator that stays sends reaches the queue of its channel.       *)
SenderAlive(n) == \E i \in {n} \cap DOMAIN sentOn : Alive(sentOn[i].sim)

SentArrives == \A n \in 1 .. MaxToPy :
    SenderAlive(n) ~> ~SenderAlive(n) \/ \E c \in Channels : Contains(recvQueues[c], <<n>>)

(* Both directions go on while a simulator stays.                            *)
PyMessagesArrive == PushedArrives /\ SentArrives
=============================================================================
