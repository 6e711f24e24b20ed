------------------------------ MODULE ChocTypes ------------------------------
(* Values that travel between the items of choc (choc/types.py): vectors of  *)
(* nine-valued bits, times, and changes, with their bytes and their texts.   *)
EXTENDS Integers, Sequences, SequencesExt

CONSTANT None

(* The members of L9, by their values.                                       *)
L9 == {0, 1, 2, 3, 4, 5, 6, 10, 14}
X == 3
----------------------------------------------------------------------------
(* Bits: bit 0 comes first.                                                  *)
Bits(num, width) == [i \in 1 .. width |-> (num \div 2 ^ (i - 1)) % 2]

isPure(bits) == \A i \in DOMAIN bits : bits[i] \in {0, 1}

(* NotPureSignal is raised unless every bit is pure.                         *)
toInt(bits) ==
    LET num[i \in 1 .. Len(bits) + 1] == IF i > Len(bits) THEN 0 ELSE bits[i] + 2 * num[i + 1]
    IN  IF isPure(bits) THEN num[1] ELSE None

slice(bits, from, to) == SubSeq(bits, from + 1, Min({to, Len(bits)}))

(* toStr and _strRead in base 2, as sequences of characters.  A text of 0 and*)
(* 1 is a number, its last character bit 0; any other is read from the left, *)
(* its first character bit 0, the last one repeated up to the width.         *)
toStr(bits) == [width |-> Len(bits), chars |-> Reverse(bits)]

_strRead(text) ==
    IF isPure(text.chars)
    THEN Bits(toInt(Reverse(text.chars)), text.width)
    ELSE [i \in 1 .. text.width |->
             text.chars[IF i <= Len(text.chars) THEN i ELSE Len(text.chars)]]

(* Mutant: the first bit of a byte is in its high half.                      *)
packSwapped(bits) ==
    LET s == Len(bits)
        n == (s - 1) \div 2 + 1
    IN  [byt \in 1 .. n |->
            LET bit == 2 * (n - byt) + 1 IN
            16 * bits[bit] + (IF bit < s THEN bits[bit + 1] ELSE 0)]

(* Two bits in a byte, the last byte with the first bits.                    *)
pack(bits) ==
    LET s == Len(bits)
        n == (s - 1) \div 2 + 1
    IN  [byt \in 1 .. n |->
            LET bit == 2 * (n - byt) + 1 IN
            bits[bit] + (IF bit < s THEN 16 * bits[bit + 1] ELSE 0)]

bitsToBytes(bits) == <<Len(bits) \div 256, Len(bits) % 256>> \o pack(bits)

bitsFromBytes(raw) ==
    LET s == 256 * raw[1] + raw[2] IN
    [bit \in 1 .. s |->
        LET b == raw[3 + (s - 1) \div 2 - (bit - 1) \div 2] IN
        IF bit % 2 = 0 THEN b \div 16 ELSE b % 16]

----------------------------------------------------------------------------
(* Tme: picoseconds, or cycles.  TLC counts to 2^31: the high four bytes of  *)
(* a time are 0, and its text has no seconds and milliseconds.               *)
Tme(typ, val) == [typ |-> typ, val |-> val]
zero(typ) == Tme(typ, 0)

comparable(a, b) == a.typ = b.typ
comp(a, b) == IF a.val < b.val THEN -1 ELSE IF a.val > b.val THEN 1 ELSE 0
plus(a, b) == Tme(a.typ, a.val + b.val)

tmeToBytes(t) ==
    <<0, 0, 0, 0>> \o [i \in 1 .. 4 |-> (t.val \div 256 ^ (4 - i)) % 256]
    \o <<IF t.typ = "cycle" THEN 1 ELSE 0>>

tmeFromBytes(raw) ==
    Tme(IF raw[9] = 1 THEN "cycle" ELSE "period",
        FoldLeft(LAMBDA val, b : 256 * val + b, 0, SubSeq(raw, 1, 8)))

Units == <<[unit |-> "u", mask |-> 1000000], [unit |-> "n", mask |-> 1000], [unit |-> "p", mask |-> 1]>>

(* A unit is written from the first one on that is not 0.                    *)
shown(pico, i) == pico \div Units[i].mask # 0

tmeToStr(t) ==
    IF t.typ = "cycle" THEN <<[num |-> t.val, unit |-> "c"]>>
    ELSE LET written == SelectSeq(<<1, 2, 3>>, LAMBDA i : shown(t.val, i)) IN
         [k \in DOMAIN written |->
             LET i == written[k] IN
             [num |-> (IF i = 1 THEN t.val ELSE t.val % Units[i - 1].mask) \div Units[i].mask,
              unit |-> Units[i].unit]]

(* parseStr: a text without any unit has no value.                           *)
maskOf(unit) == Units[CHOOSE i \in DOMAIN Units : Units[i].unit = unit].mask

parseStr(text) ==
    IF text = <<>> THEN Tme("period", None)
    ELSE IF text[1].unit = "c" THEN Tme("cycle", text[1].num)
    ELSE Tme("period", FoldLeft(LAMBDA sum, tok : sum + tok.num * maskOf(tok.unit), 0, text))

----------------------------------------------------------------------------
(* Change: a value, the time it is taken on, and whether it stays until the  *)
(* time of the next one is known.                                            *)
Change(value, time, sync) == [value |-> value, time |-> time, sync |-> sync]

changeToBytes(chg) ==
    tmeToBytes(chg.time) \o <<IF chg.sync THEN 1 ELSE 0>> \o bitsToBytes(chg.value)

changeFromBytes(raw) ==
    Change(bitsFromBytes(SubSeq(raw, 11, Len(raw))), tmeFromBytes(raw), raw[10] = 1)
=============================================================================
