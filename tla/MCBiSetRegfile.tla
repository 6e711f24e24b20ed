---------------------------- MODULE MCBiSetRegfile ----------------------------
(* A register with a field of one user, a volatile and an opaque one of      *)
(* another, and a task of a MemoryAccess, which changes the volatile one.    *)
EXTENDS BiSetRegfile

CONSTANTS u1, u2, p1

MCUsers == {u1, u2}
MCPosts == {p1}
MCRegister == {0, 1, 2}
MCOwner == [r \in MCRegister |-> IF r = 0 THEN u1 ELSE u2]
MCResetVal == [r \in MCRegister |-> IF r = 2 THEN 2 ELSE None]
MCFields == [r \in MCRegister |-> IF r = 0 THEN {Interval(0, 0)} ELSE {}]
MCWords == [r \in MCRegister |-> IF r = 0 THEN {2} ELSE IF r = 1 THEN {} ELSE {1}]
MCAddress == 1 .. 3
MCLoaded == [a \in MCAddress |-> IF a = 1 THEN 2 ELSE None]

(* The theorems of BiSetRegfileProofs hold of these constants.              *)
ASSUME MCHypotheses == Powers /\ WordsFit /\ ResetsApart /\ PostsApart /\ PostsAlone
=============================================================================
