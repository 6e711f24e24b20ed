-------------------------- MODULE MCAxi4MemBridge --------------------------
(* Model values for Axi4MemBridge.  The bursts leave out the longest length *)
(* there is, which a counter of the same width cannot count, and wrapping   *)
(* bursts that go beyond their boundary by more than a word or end at the   *)
(* top of the address space, which get_new_addr gets wrong.                 *)
EXTENDS Axi4MemBridge
CONSTANTS a, b
MCData == {a, b}
BurstsOf(type, addrs, lens, narrow) ==
    [addr : addrs, len : lens, burst : {type}, narrow : {narrow}]
MCRequest ==
    BurstsOf("INCR", {0, 3}, 0 .. 2, FALSE) \cup BurstsOf("FIXED", {1}, {0, 2}, FALSE)
    \cup BurstsOf("WRAP", {0, 1}, {1}, FALSE) \cup BurstsOf("INCR", {0}, {0, 1}, TRUE)
MCWaiters == {{"master"}, {"memory"}}
MCBoth == {{"master", "memory"}}
=============================================================================
