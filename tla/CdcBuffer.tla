----------------------------- MODULE CdcBuffer -----------------------------
(* cdc/CdcBuffer.sv: the two-flipflop synchroniser every crossing of bilib  *)
(* is built from.  The module has no state of its own: a user keeps one     *)
(* Pipe per crossing and shifts it on each edge of the receiving clock.     *)
EXTENDS Naturals

Bit == {0, 1}

(* The two flipflops, xxx next to the asynchronous input, dst next to the   *)
(* receiving logic.  V is the set of values the crossing signal can take.   *)
Pipe(V) == [xxx : V, dst : V]

(* {dstPipe, xxxPipe} <= {xxxPipe, srcIn_i}.                                *)
Shift(pipe, seen) == [xxx |-> seen, dst |-> pipe.xxx]

(* The asynchronous reset of both flipflops.                                *)
Cleared(zero) == [xxx |-> zero, dst |-> zero]

(* What the first flipflop may hold after an edge at which its input is     *)
(* changing from the word old to the word new: each bit settles on its own  *)
(* to the value before or the value after the change.  Words are functions  *)
(* from bit positions to bits.                                              *)
Settled(old, new) ==
    {w \in [DOMAIN old -> Bit] : \A i \in DOMAIN old : w[i] \in {old[i], new[i]}}
=============================================================================
