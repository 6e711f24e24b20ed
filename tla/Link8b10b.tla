------------------------------ MODULE Link8b10b ------------------------------
(* The four signals of coding/py/_8b10b/__init__.py in a row: Encode makes a *)
(* word of 20 bits of a pair of symbols, Serialize sends it bit by bit,      *)
(* Deserialize finds the words in the bits again and Decode the symbols.     *)
(* Deserialize takes the first comma it sees for the start of a pair: that   *)
(* a sender starts pairs only with commas, and has no K.28.7, is assumed.    *)
EXTENDS Code8b10b

CONSTANTS Probes,     \* the symbols one of which is sent in a behaviour
          Companions, \* the symbols one of which is sent with it
          Missed      \* how many of the first bits the receiver may miss

VARIABLES symbols,    \* the two symbols of this behaviour
          rd,         \* Encode.rd
          des,        \* Deserialize: its buffer, counter and aligned
          missed,     \* how many bits the receiver has still to miss
          sent,       \* the last pair that was sent
          got,        \* what Decode gave while it was sent, or None
          heard,      \* a pair with a comma has come over the link
          balance     \* the ones on the line so far, less the zeros

linkVars == <<symbols, rd, des, missed, sent, got, heard, balance>>

KOMMA == Bits(\b00111110, 8)
KOMMA_N == Bits(\b11000001, 8)

(* The symbols whose code has the comma in it, and those of the assumption.  *)
K28(three) == 256 + 32 * three + 28
Commas == {K28(1), K28(5)}
Plain == Raws \ (Commas \cup {K28(7)})

Pair(first, second) == Bits(second, 9) \o Bits(first, 9)

LinkInit ==
    /\ symbols \in Probes \X Companions
    /\ missed \in Missed
    /\ rd = -1
    /\ des = [buffer |-> <<>>, counter |-> 0, aligned |-> FALSE, word |-> None]
    /\ sent = <<>> /\ got = None /\ heard = FALSE /\ balance = 0

(* Encode.next: the first symbol is in the high half of the word.            *)
Encoded(bts) ==
    LET first  == enc8b10b(toInt(slice(bts, 9, 18)), rd)
        second == enc8b10b(toInt(slice(bts, 0, 9)), first[1])
    IN  [rd |-> second[1], wrd |-> Bits(second[2], 10) \o Bits(first[2], 10)]

(* Serialize.next sends the last bit of the word first.                      *)
Serialized(wrd) == Reverse(wrd)

(* Deserialize._parse: a new bit.  word is the Change it returns.            *)
Parsed(d, bit) ==
    LET buffer == <<bit>> \o slice(d.buffer, 0, 19)
        comma  == ~d.aligned /\ slice(buffer, 0, 8) \in {KOMMA, KOMMA_N}
        count  == IF comma THEN 8 ELSE IF d.aligned THEN d.counter + 1 ELSE d.counter
    IN  [buffer |-> buffer, aligned |-> d.aligned \/ comma, counter |-> count % 20,
         word |-> IF count = 20 THEN buffer ELSE d.word]

(* Decode.next: a symbol without a code is a symbol of nine X.               *)
Decoded(word) ==
    LET symbol(code) ==
            IF dec8b10b(code) = None THEN [i \in 1 .. 9 |-> X] ELSE Bits(dec8b10b(code), 9)
    IN  symbol(toInt(slice(word, 0, 10))) \o symbol(toInt(slice(word, 10, 20)))

(* Deserialize.next and Decode.next, over the bits of one pair.              *)
Heard(bits) ==
    LET after[i \in 0 .. Len(bits)] ==
            IF i = 0 THEN [des EXCEPT !.word = None] ELSE Parsed(after[i - 1], bits[i])
    IN  after[Len(bits)]

Send(pair) ==
    LET enc  == Encoded(pair)
        bits == Serialized(enc.wrd)
        seen == SubSeq(bits, missed + 1, 20)
    IN  /\ rd' = enc.rd
        /\ des' = Heard(seen)
        /\ got' = IF des'.word = None THEN None ELSE Decoded(des'.word)
        /\ missed' = 0
        /\ sent' = pair
        /\ heard' = (heard \/ (missed = 0 /\ toInt(slice(pair, 9, 18)) \in Commas))
        /\ balance' = balance + 2 * Quantify(1 .. 20, LAMBDA i : bits[i] = 1) - 20
        /\ UNCHANGED symbols

(* A pair starts with a comma, or has none.                                  *)
Pairs ==
    LET probe == symbols[1]
        other == symbols[2]
    IN  {Pair(first, second) : first \in {probe, other}, second \in {probe, other} \ Commas}

LinkNext == \E pair \in Pairs : Send(pair)

LinkSpec == LinkInit /\ [][LinkNext]_linkVars

----------------------------------------------------------------------------
(* From the first comma on the receiver gets the pairs that are sent, each   *)
(* whole and in its place, whatever bits it missed before; and none before   *)
(* it, since no other symbols put a comma on the line.                       *)
PairsArrive == got = IF heard THEN sent ELSE None

(* The line carries as many ones as zeros but for the running disparity,     *)
(* which stays between -1 and 1 as enc8b10b asserts; and nowhere, within a   *)
(* pair or across two, do more than five bits of one value follow each other.*)
LineIsEven ==
    [][LET line == des'.buffer \o des.buffer IN
       /\ rd' \in {-1, 1} /\ balance' = rd' + 1
       /\ \A i \in 1 .. Len(line) - 5 :
              \E j \in i + 1 .. i + 5 : line[j] # line[i]]_linkVars
=============================================================================
