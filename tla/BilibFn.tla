------------------------------- MODULE BilibFn -------------------------------
(* Bit fields of integers (python/bilib/fn.py), by what the shifts and masks *)
(* do to a natural number.                                                   *)
EXTENDS Integers

(* Interval(b1, b2): bounds in any order.                                    *)
Interval(b1, b2) ==
    [low |-> IF b1 <= b2 THEN b1 ELSE b2, hi |-> IF b1 <= b2 THEN b2 ELSE b1]

Size(itvl) == itvl.hi - itvl.low + 1
bitsel(var, itvl) == (var \div 2 ^ itvl.low) % 2 ^ Size(itvl)

(* What mkmask(itvl) keeps of var, and what ~mkmask(itvl) does.              *)
masked(var, itvl) == bitsel(var, itvl) * 2 ^ itvl.low
stripped(var, itvl) == var - masked(var, itvl)

(* Field.ccWr: val in place of the field, cut to its width.                  *)
replaced(var, itvl, val) == stripped(var, itvl) + masked(val * 2 ^ itvl.low, itvl)

----------------------------------------------------------------------------
(* Packer: fields of a word from its low end.                                *)
Packer(data) == [val |-> data, pos |-> 0]
add(p, data, size) ==
    [val |-> p.val + (data % 2 ^ size) * 2 ^ p.pos, pos |-> p.pos + size]
get(p, size) == (p.val \div 2 ^ p.pos) % 2 ^ size
after(p, size) == [p EXCEPT !.pos = @ + size]
=============================================================================
