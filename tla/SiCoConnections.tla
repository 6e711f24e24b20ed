-------------------------- MODULE SiCoConnections --------------------------
(* Both ends of the connection, one in each behaviour: the C++ Connection    *)
(* against a Python program that comes and goes, or the Python Connection    *)
(* against simulators that come and go.                                      *)
EXTENDS SiCoConnection, SiCoPyConnection

VARIABLE end

bothVars == <<vars, pyConnVars, end>>

InSimulator(step) == end = "simulator" /\ step /\ UNCHANGED <<pyConnVars, end>>
InPython(step) == end = "python" /\ step /\ UNCHANGED <<vars, end>>

BothInit == Init /\ PyInit /\ end \in {"simulator", "python"}
BothNext == InSimulator(Next) \/ InPython(PyNext)

BothSpec ==
    /\ BothInit /\ [][BothNext]_bothVars
    /\ WF_bothVars(InSimulator(RunConn)) /\ WF_bothVars(InSimulator(RunSend))
    /\ WF_bothVars(InSimulator(RunRecv))
    /\ WF_bothVars(InPython(RunConnect)) /\ WF_bothVars(InPython(PyRecv))
    /\ WF_bothVars(InPython(RunDispatch)) /\ WF_bothVars(InPython(RunSender))
    /\ WF_bothVars(InPython(PySend))

(* Names of channels of different lengths.                                   *)
ChannelNames == {<<"c">>, <<"d", "e">>}
=============================================================================
