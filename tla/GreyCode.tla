------------------------------ MODULE GreyCode ------------------------------
(* coding/GreyEncode.sv and coding/GreyDecode.sv at width 3: the reflected  *)
(* code in which neighbouring numbers differ in one bit.                    *)
EXTENDS CdcBuffer

(* The case table of GreyEncode, most significant bit first.                *)
EncodeTable == <<
    <<0, 0, 0>>, <<0, 0, 1>>, <<0, 1, 1>>, <<0, 1, 0>>,
    <<1, 1, 0>>, <<1, 1, 1>>, <<1, 0, 1>>, <<1, 0, 0>> >>

Encode(raw) == EncodeTable[raw + 1]

(* The case table of GreyDecode, row by row.                                *)
DecodeTable == {
    [enc |-> <<0, 0, 0>>, raw |-> 0], [enc |-> <<0, 0, 1>>, raw |-> 1],
    [enc |-> <<0, 1, 1>>, raw |-> 2], [enc |-> <<0, 1, 0>>, raw |-> 3],
    [enc |-> <<1, 1, 0>>, raw |-> 4], [enc |-> <<1, 1, 1>>, raw |-> 5],
    [enc |-> <<1, 0, 1>>, raw |-> 6], [enc |-> <<1, 0, 0>>, raw |-> 7] }

Decode(enc) == (CHOOSE row \in DecodeTable : row.enc = enc).raw
=============================================================================
