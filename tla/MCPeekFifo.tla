----------------------------- MODULE MCPeekFifo -----------------------------
(* Model values for PeekFifo.                                               *)
EXTENDS PeekFifo
CONSTANTS a, b
MCData == {a, b}
=============================================================================
