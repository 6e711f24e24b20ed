------------------------------ MODULE Code8b10b ------------------------------
(* The 8b/10b code (coding/py/_8b10b/code.py): a symbol is a number of nine  *)
(* bits, K HGF EDCBA, its code one of ten bits, abcdei fghj.  A table gives  *)
(* the codes of its index: one, or one for each running disparity.           *)
EXTENDS ChocTypes, TLC

Dfivesix ==
  << <<\b100111, \b011000>>, <<\b011101, \b100010>>, <<\b101101, \b010010>>,
     <<\b110001>>, <<\b110101, \b001010>>, <<\b101001>>,
     <<\b011001>>, <<\b111000, \b000111>>, <<\b111001, \b000110>>,
     <<\b100101>>, <<\b010101>>, <<\b110100>>,
     <<\b001101>>, <<\b101100>>, <<\b011100>>,
     <<\b010111, \b101000>>, <<\b011011, \b100100>>, <<\b100011>>,
     <<\b010011>>, <<\b110010>>, <<\b001011>>,
     <<\b101010>>, <<\b011010>>, <<\b111010, \b000101>>,
     <<\b110011, \b001100>>, <<\b100110>>, <<\b010110>>,
     <<\b110110, \b001001>>, <<\b001110>>, <<\b101110, \b010001>>,
     <<\b011110, \b100001>>, <<\b101011, \b010100>> >>

Kfivesix ==
    23 :> <<\b111010, \b000101>> @@ 27 :> <<\b110110, \b001001>>
    @@ 28 :> <<\b001111, \b110000>> @@ 29 :> <<\b101110, \b010001>>
    @@ 30 :> <<\b011110, \b100001>>

(* The ninth is D.x.A7.                                                      *)
Dthreefour ==
  << <<\b1011, \b0100>>, <<\b1001>>, <<\b0101>>, <<\b1100, \b0011>>,
     <<\b1101, \b0010>>, <<\b1010>>, <<\b0110>>, <<\b1110, \b0001>>,
     <<\b0111, \b1000>> >>

Kthreefour ==
  << <<\b1011, \b0100>>, <<\b0110, \b1001>>, <<\b1010, \b0101>>, <<\b1100, \b0011>>,
     <<\b1101, \b0010>>, <<\b0101, \b1010>>, <<\b1001, \b0110>>, <<\b0111, \b1000>> >>

DxA7 == {<<-1, 17>>, <<-1, 18>>, <<-1, 20>>, <<1, 11>>, <<1, 13>>, <<1, 14>>}

Ks == {\h1c, \h3c, \h5c, \h7c, \h9c, \hbc, \hdc, \hfc, \hf7, \hfb, \hfd, \hfe}

----------------------------------------------------------------------------
bitOf(num, i) == (num \div 2 ^ i) % 2

(* How many more ones than zeros.                                            *)
disparity(num, len) == 2 * Quantify(0 .. len - 1, LAMBDA i : bitOf(num, i) = 1) - len

isK(raw) == raw >= 256
Raws == 0 .. 255 \cup {256 + k : k \in Ks}

chosen(codes, RD) == IF Len(codes) = 2 /\ RD = 1 THEN codes[2] ELSE codes[1]

six(raw, RD) ==
    chosen(IF isK(raw) THEN Kfivesix[raw % 32] ELSE Dfivesix[(raw % 32) + 1], RD)

(* Mutant: D.x.7 has its plain code everywhere.                              *)
foursPlain(raw, RD) ==
    LET three == (raw \div 32) % 8 IN
    IF isK(raw) THEN Kthreefour[three + 1] ELSE Dthreefour[three + 1]

fours(raw, RD) ==
    LET three == (raw \div 32) % 8 IN
    IF isK(raw) THEN Kthreefour[three + 1]
    ELSE Dthreefour[IF three = 7 /\ <<RD, raw % 32>> \in DxA7 THEN 9 ELSE three + 1]

(* Mutant: both parts are chosen by the disparity before the symbol.         *)
enc8b10bOnce(raw, RD) ==
    LET four == chosen(fours(raw, RD), RD)
    IN  <<RD + disparity(six(raw, RD), 6) + disparity(four, 4), 16 * six(raw, RD) + four>>

(* The disparity after the symbol, and its code: the second part is chosen   *)
(* by the disparity after the first.                                         *)
enc8b10b(raw, RD) ==
    LET nd0  == RD + disparity(six(raw, RD), 6)
        four == chosen(fours(raw, RD), nd0)
    IN  <<nd0 + disparity(four, 4), 16 * six(raw, RD) + four>>

(* All codes, those below a disparity of -1 first, the symbols in their      *)
(* order, and the symbol each number is the code of.  The empty sequence     *)
(* makes TLC compute the tables once.                                        *)
Codes ==
    LET code(raw, RD) == IF raw \in Raws THEN enc8b10b(raw, RD)[2] ELSE -1
    IN  <<>> \o [i \in 1 .. 1024 |-> code((i - 1) % 512, IF i <= 512 THEN -1 ELSE 1)]

Symbols ==
    <<>> \o [i \in 1 .. 1024 |->
        LET hits == {k \in 1 .. 1024 : Codes[k] = i - 1}
        IN  IF hits = {} THEN None ELSE (Min(hits) - 1) % 512]

dec8b10b(code) == Symbols[code + 1]
=============================================================================
