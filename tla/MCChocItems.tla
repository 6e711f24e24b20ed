----------------------------- MODULE MCChocItems -----------------------------
(* Every symbol of the code over the link; signals of two or three bits,     *)
(* whose clock starts late, ends early, or has times of several units.       *)
EXTENDS ChocItems

MCProbes == Plain \cup Commas
MCCompanions == {K28(5), 241, 0}
MCValues == {<<0, 1, 0>>, <<1, 1, 0>>, <<0, 0, X>>}
MCRanges == {[start |-> 1, stop |-> 7, step |-> 3, width |-> 2]}
MCClock(typ, start, period, stop) ==
    [typ |-> typ, start |-> Tme(typ, start), period |-> Tme(typ, period),
     stop |-> IF stop = None THEN None ELSE Tme(typ, stop)]
MCClocks ==
    {MCClock("period", 1, 2, 5), MCClock("period", 999, 1000001, None),
     MCClock("period", 4, 3, 4), MCClock("cycle", 0, 5, None)}
=============================================================================
