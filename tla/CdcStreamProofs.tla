--------------------------- MODULE CdcStreamProofs ---------------------------
(* cdc/CdcStream.sv: the ring of six slots is a queue of five items,        *)
(* although the position that wraps is sampled as anything from 0 to 7.     *)
(* The inductive invariant, StreamInv, says what the positions in the two   *)
(* synchronisers are worth to the side that sees them.                      *)
EXTENDS CdcStream, SequenceTheorems, TLAPS

(* Steps forward along the ring from one position to another.               *)
Ahead(from, to) == IF to >= from THEN to - from ELSE (to + Slots) - from

(* What the source (at w) sees of the position r of the destination. The    *)
(* positions p and q, which the destination had when the last two samples   *)
(* were taken, are passed in this order on the way from w to r, so that a   *)
(* source that stops short of p overwrites nothing. A sample may also be    *)
(* anything: then the destination went from 5 to 0 at that time, and the    *)
(* source, which has been held by what it saw before, is not at 5. It can   *)
(* take the one step it may take before the next sample arrives. A second   *)
(* sample like that does not follow the first: p # 0.                       *)
SeenBySource(w, r, dst, xxx) == \E p, q \in Pos :
    /\ Ahead(p, w) >= Ahead(q, w)
    /\ Ahead(q, w) >= Ahead(r, w)
    /\ dst = p \/ (p = 0 /\ w # 5)
    /\ xxx = q \/ (q = 0 /\ p # 0 /\ w # 5)

(* What the destination (at r) sees of the position w of the source, in the *)
(* same way: a destination that stops at p reads nothing that is not        *)
(* written. The slots up to p have been copied to its domain.               *)
SeenByDestination(r, w, dst, xxx, copied) == \E p, q \in Pos :
    /\ Ahead(r, p) <= Ahead(r, q)
    /\ Ahead(r, q) <= Ahead(r, w)
    /\ dst = p \/ (p = 0 /\ r # 0)
    /\ xxx = q \/ (q = 0 /\ p # 0 /\ r # 0)
    /\ \A i \in Pos : Ahead(r, i) < Ahead(r, p) => i \in copied

(* The code can be read back, ...                                           *)
LEMMA DecodeEncode == \A pos \in 0 .. 7 : Decode(Encode(pos)) = pos
<1> SUFFICES ASSUME NEW pos \in 0 .. 7 PROVE Decode(Encode(pos)) = pos
  OBVIOUS
<1>1. [enc |-> Encode(pos), raw |-> pos] \in DecodeTable
  BY SMT DEF DecodeTable, Encode, EncodeTable
<1>2. \A row \in DecodeTable : row.enc = Encode(pos) => row.raw = pos
  BY SMT DEF DecodeTable, Encode, EncodeTable
<1>3. PICK row \in DecodeTable : row = CHOOSE s \in DecodeTable : s.enc = Encode(pos)
  BY <1>1
<1>4. row.enc = Encode(pos)
  BY <1>1, <1>3
<1> QED BY <1>2, <1>3, <1>4 DEF Decode

(* ... and of a step other than the wrap one bit changes, so that a sample  *)
(* is the code before the step or the one after it.                         *)
LEMMA SampledCode ==
  ASSUME NEW old \in Pos, NEW code \in Sampled(old, PlusOne(old)), old # 5
  PROVE  code \in {Encode(old), Encode(PlusOne(old))}
<1>1. PlusOne(old) = old + 1 /\ old \in 0 .. 4
  BY DEF PlusOne, Pos, Slots
<1>2. /\ DOMAIN Encode(old) = 1 .. 3
      /\ code \in [1 .. 3 -> Bit]
      /\ \A i \in 1 .. 3 : code[i] \in {Encode(old)[i], Encode(old + 1)[i]}
  BY <1>1, SMT DEF Sampled, Settled, Encode, EncodeTable
<1>3. (\A i \in 1 .. 3 : code[i] = Encode(old)[i]) \/ (\A i \in 1 .. 3 : code[i] = Encode(old + 1)[i])
  BY <1>1, <1>2, SMT DEF Encode, EncodeTable
<1>4. Encode(old) \in [1 .. 3 -> Bit] /\ Encode(old + 1) \in [1 .. 3 -> Bit]
  BY <1>1, SMT DEF Encode, EncodeTable, Bit
<1> QED BY <1>1, <1>2, <1>3, <1>4

(* A position is sampled before or after its step, unless it wraps.         *)
LEMMA SampledPosition ==
  ASSUME NEW old \in Pos, NEW code \in Sampled(old, PlusOne(old))
  PROVE  Decode(code) \in {old, PlusOne(old)} \/ old = 5
<1>1. old \in 0 .. 7 /\ PlusOne(old) \in 0 .. 7
  BY DEF PlusOne, Pos, Slots
<1> QED BY <1>1, SampledCode, DecodeEncode

(* A position after an edge of its clock.                                   *)
Moved(pos, go) == IF go THEN PlusOne(pos) ELSE pos

(* An edge of the source clock, at which the destination may go on as well: *)
(* what was in the first flipflop is now seen, and seen is in the first one.*)
LEMMA SourceStep ==
  ASSUME NEW w \in Pos, NEW r \in Pos, NEW write \in BOOLEAN, NEW read \in BOOLEAN,
         NEW dst, NEW xxx, NEW seen,
         SeenBySource(w, r, dst, xxx), write => PlusOne(w) # dst, read => r # w,
         seen \in {r, Moved(r, read)} \/ (read /\ r = 5)
  PROVE  SeenBySource(Moved(w, write), Moved(r, read), xxx, seen)
<1> PICK p, q \in Pos :
    /\ Ahead(p, w) >= Ahead(q, w)
    /\ Ahead(q, w) >= Ahead(r, w)
    /\ dst = p \/ (p = 0 /\ w # 5)
    /\ xxx = q \/ (q = 0 /\ p # 0 /\ w # 5)
  BY DEF SeenBySource
<1> DEFINE s == IF seen = r THEN r ELSE Moved(r, read)
<1>1. s \in Pos
  BY SMT DEF Moved, PlusOne, Pos, Slots
<1>2. /\ Ahead(q, Moved(w, write)) >= Ahead(s, Moved(w, write))
      /\ Ahead(s, Moved(w, write)) >= Ahead(Moved(r, read), Moved(w, write))
  BY SMT DEF Moved, PlusOne, Pos, Slots, Ahead
<1>3. xxx = q \/ (q = 0 /\ Moved(w, write) # 5)
  BY SMT DEF Moved, PlusOne, Pos, Slots, Ahead
<1>4. seen = s \/ (s = 0 /\ q # 0 /\ Moved(w, write) # 5)
  BY SMT DEF Moved, PlusOne, Pos, Slots, Ahead
<1> QED BY <1>1, <1>2, <1>3, <1>4 DEF SeenBySource

(* An edge of the destination clock changes nothing of what the source sees.*)
LEMMA SourceStays ==
  ASSUME NEW w \in Pos, NEW r \in Pos, NEW read \in BOOLEAN, NEW dst, NEW xxx,
         SeenBySource(w, r, dst, xxx), read => r # w
  PROVE  SeenBySource(w, Moved(r, read), dst, xxx)
<1> PICK p, q \in Pos :
    /\ Ahead(p, w) >= Ahead(q, w)
    /\ Ahead(q, w) >= Ahead(r, w)
    /\ dst = p \/ (p = 0 /\ w # 5)
    /\ xxx = q \/ (q = 0 /\ p # 0 /\ w # 5)
  BY DEF SeenBySource
<1>1. Ahead(q, w) >= Ahead(Moved(r, read), w)
  BY SMT DEF Moved, PlusOne, Pos, Slots, Ahead
<1> QED BY <1>1 DEF SeenBySource

(* A source that sees room has it.                                          *)
LEMMA SourceFindsRoom ==
  ASSUME NEW w \in Pos, NEW r \in Pos, NEW dst, NEW xxx,
         SeenBySource(w, r, dst, xxx), PlusOne(w) # dst
  PROVE  PlusOne(w) # r
  BY SMT DEF SeenBySource, PlusOne, Pos, Slots, Ahead

(* An edge of the destination clock, at which the source may go on as well. *)
(* All slots but the one at w are sampled without changing.                 *)
LEMMA DestinationStep ==
  ASSUME NEW w \in Pos, NEW r \in Pos, NEW write \in BOOLEAN, NEW read \in BOOLEAN,
         NEW dst, NEW xxx, NEW seen, NEW copied,
         SeenByDestination(r, w, dst, xxx, copied), read => r # dst,
         write => PlusOne(w) # r,
         seen \in {w, Moved(w, write)} \/ (write /\ w = 5)
  PROVE  SeenByDestination(Moved(r, read), Moved(w, write), xxx, seen, Pos \ {w})
<1> PICK p, q \in Pos :
    /\ Ahead(r, p) <= Ahead(r, q)
    /\ Ahead(r, q) <= Ahead(r, w)
    /\ dst = p \/ (p = 0 /\ r # 0)
    /\ xxx = q \/ (q = 0 /\ p # 0 /\ r # 0)
  BY DEF SeenByDestination
<1> DEFINE s == IF seen = w THEN w ELSE Moved(w, write)
           r2 == Moved(r, read)
           w2 == Moved(w, write)
<1>1. s \in Pos
  BY SMT DEF Moved, PlusOne, Pos, Slots
<1>2. Ahead(r2, q) <= Ahead(r2, s) /\ Ahead(r2, s) <= Ahead(r2, w2)
  BY SMT DEF Moved, PlusOne, Pos, Slots, Ahead
<1>3. xxx = q \/ (q = 0 /\ r2 # 0)
  BY SMT DEF Moved, PlusOne, Pos, Slots, Ahead
<1>4. seen = s \/ (s = 0 /\ q # 0 /\ r2 # 0)
  BY SMT DEF Moved, PlusOne, Pos, Slots, Ahead
<1>5. \A i \in Pos : Ahead(r2, i) < Ahead(r2, q) => i # w
  BY SMT DEF Moved, PlusOne, Pos, Slots, Ahead
<1> QED BY <1>1, <1>2, <1>3, <1>4, <1>5 DEF SeenByDestination

(* An edge of the source clock overwrites no slot the destination sees.     *)
LEMMA DestinationStays ==
  ASSUME NEW w \in Pos, NEW r \in Pos, NEW write \in BOOLEAN, NEW dst, NEW xxx, NEW copied,
         SeenByDestination(r, w, dst, xxx, copied), write => PlusOne(w) # r
  PROVE  SeenByDestination(r, Moved(w, write), dst, xxx, IF write THEN copied \ {w} ELSE copied)
<1> PICK p, q \in Pos :
    /\ Ahead(r, p) <= Ahead(r, q)
    /\ Ahead(r, q) <= Ahead(r, w)
    /\ dst = p \/ (p = 0 /\ r # 0)
    /\ xxx = q \/ (q = 0 /\ p # 0 /\ r # 0)
    /\ \A i \in Pos : Ahead(r, i) < Ahead(r, p) => i \in copied
  BY DEF SeenByDestination
<1>1. Ahead(r, q) <= Ahead(r, Moved(w, write))
  BY SMT DEF Moved, PlusOne, Pos, Slots, Ahead
<1>2. \A i \in Pos : Ahead(r, i) < Ahead(r, p) => i # w
  BY SMT DEF Pos, Slots, Ahead
<1> QED BY <1>1, <1>2 DEF SeenByDestination

(* A destination that sees an item has it, in its own domain.               *)
LEMMA DestinationFindsItem ==
  ASSUME NEW w \in Pos, NEW r \in Pos, NEW dst, NEW xxx, NEW copied,
         SeenByDestination(r, w, dst, xxx, copied), r # dst
  PROVE  r # w /\ r \in copied
  BY SMT DEF SeenByDestination, Pos, Slots, Ahead

(* What has been copied besides does no harm.                               *)
LEMMA MoreCopied ==
  ASSUME NEW w, NEW r, NEW dst, NEW xxx, NEW some, NEW more,
         SeenByDestination(r, w, dst, xxx, some), some \subseteq more
  PROVE  SeenByDestination(r, w, dst, xxx, more)
  BY DEF SeenByDestination

Item == 0 .. Items - 1
(* The slots whose copies in the destination domain are up to date.         *)
Copied == {i \in Pos : dstBuffer[i] = srcBuffer[i]}

(* The inductive invariant of the stream.                                   *)
StreamInv ==
    /\ srcWritePos \in Pos /\ dstReadPos \in Pos /\ nextItem \in Item
    /\ srcBuffer \in [Pos -> Item \cup {Unset}]
    /\ SeenBySource(srcWritePos, dstReadPos, srcReadPos, Decode(readPosPipe.xxx))
    /\ SeenByDestination(dstReadPos, srcWritePos, dstWritePos, Decode(writePosPipe.xxx), Copied)

(* After a reset both positions are 0, and seen as such.                    *)
LEMMA SameStart ==
  ASSUME NEW copied
  PROVE  /\ SeenBySource(0, 0, 0, 0)
         /\ SeenByDestination(0, 0, 0, 0, copied)
  BY SMT DEF SeenBySource, SeenByDestination, Pos, Slots, Ahead

LEMMA ClearedCode ==
  Decode(Cleared(Encode(0)).xxx) = 0 /\ Decode(Cleared(Encode(0)).dst) = 0
  BY DecodeEncode, SMT DEF Cleared

(* Reset state.                                                             *)
LEMMA StreamInitInv == Init => StreamInv
<1> SUFFICES ASSUME Init PROVE StreamInv
  OBVIOUS
<1>1. 0 \in Pos /\ 0 \in Item
  BY StreamAssumption, SMT DEF Pos, Slots, Item
<1>2. SeenBySource(srcWritePos, dstReadPos, srcReadPos, Decode(readPosPipe.xxx))
  BY ClearedCode, SameStart DEF Init, srcReadPos
<1>3. SeenByDestination(dstReadPos, srcWritePos, dstWritePos, Decode(writePosPipe.xxx), Copied)
  BY ClearedCode, SameStart DEF Init, dstWritePos
<1> QED BY <1>1, <1>2, <1>3 DEF Init, StreamInv

(* The joint reset, which leaves the slots as they are.                     *)
LEMMA ResetInv ==
  ASSUME StreamInv, Reset
  PROVE  StreamInv'
<1>1. 0 \in Pos /\ 0 \in Item
  BY StreamAssumption, SMT DEF Pos, Slots, Item
<1>2. SeenBySource(srcWritePos', dstReadPos', srcReadPos', Decode(readPosPipe'.xxx))
  BY ClearedCode, SameStart DEF Reset, srcReadPos
<1>3. SeenByDestination(dstReadPos', srcWritePos', dstWritePos', Decode(writePosPipe'.xxx), Copied')
  BY ClearedCode, SameStart DEF Reset, dstWritePos
<1> QED BY <1>1, <1>2, <1>3 DEF Reset, StreamInv

(* A side that is active has room, or an item.                              *)
LEMMA ActiveSides ==
  ASSUME StreamInv
  PROVE  /\ \A valid : srcActive(valid) => PlusOne(srcWritePos) # dstReadPos
         /\ \A stall : dstActive(stall) => /\ dstReadPos # srcWritePos
                                           /\ dstBuffer[dstReadPos] = srcBuffer[dstReadPos]
<1>1. (PlusOne(srcWritePos) # srcReadPos) => PlusOne(srcWritePos) # dstReadPos
  BY SourceFindsRoom DEF StreamInv
<1>2. (dstReadPos # dstWritePos) => dstReadPos # srcWritePos /\ dstReadPos \in Copied
  BY DestinationFindsItem DEF StreamInv
<1> QED BY <1>1, <1>2 DEF srcActive, dstActive, Copied

(* What the flipflops of the source do, ...                                 *)
LEMMA SrcFlopsSteps ==
  ASSUME StreamInv, NEW valid \in BOOLEAN, NEW code, SrcFlops(srcActive(valid), code)
  PROVE  /\ srcActive(valid) \in BOOLEAN
         /\ srcWritePos' = Moved(srcWritePos, srcActive(valid))
         /\ srcWritePos' \in Pos /\ nextItem' \in Item
         /\ srcBuffer' \in [Pos -> Item \cup {Unset}]
         /\ srcBuffer' = IF srcActive(valid) THEN [srcBuffer EXCEPT ![srcWritePos] = nextItem]
                                             ELSE srcBuffer
         /\ readPosPipe'.dst = readPosPipe.xxx /\ readPosPipe'.xxx = code
<1>1. srcActive(valid) \in BOOLEAN
  BY DEF srcActive
<1>2. srcWritePos' = Moved(srcWritePos, srcActive(valid))
  BY DEF SrcFlops, Moved
<1>3. srcWritePos' \in Pos
  BY <1>1, <1>2, SMT DEF StreamInv, Moved, PlusOne, Pos, Slots
<1>4. nextItem' \in Item
  BY StreamAssumption, SMT DEF SrcFlops, StreamInv, Item
<1>5. srcBuffer' \in [Pos -> Item \cup {Unset}]
  BY DEF SrcFlops, StreamInv
<1> QED BY <1>1, <1>2, <1>3, <1>4, <1>5 DEF SrcFlops, Shift

(* ... and those of the destination.                                        *)
LEMMA DstFlopsSteps ==
  ASSUME StreamInv, NEW stall \in BOOLEAN, NEW code, NEW seen, DstFlops(dstActive(stall), code, seen)
  PROVE  /\ dstActive(stall) \in BOOLEAN
         /\ dstReadPos' = Moved(dstReadPos, dstActive(stall))
         /\ dstReadPos' \in Pos
         /\ dstBuffer' = seen
         /\ writePosPipe'.dst = writePosPipe.xxx /\ writePosPipe'.xxx = code
<1>1. dstActive(stall) \in BOOLEAN
  BY DEF dstActive
<1>2. dstReadPos' = Moved(dstReadPos, dstActive(stall))
  BY DEF DstFlops, Moved
<1>3. dstReadPos' \in Pos
  BY <1>1, <1>2, SMT DEF StreamInv, Moved, PlusOne, Pos, Slots
<1> QED BY <1>1, <1>2, <1>3 DEF DstFlops, Shift

(* An edge of the source clock keeps the invariant, ...                     *)
LEMMA SrcEdgeInv ==
  ASSUME StreamInv, SrcEdge
  PROVE  StreamInv'
<1> PICK valid \in BOOLEAN :
      /\ SrcFlops(srcActive(valid), Encode(dstReadPos))
      /\ UNCHANGED <<dstReadPos, writePosPipe, dstBuffer, delivered>>
  BY DEF SrcEdge
<1> DEFINE w == srcWritePos
           r == dstReadPos
           write == srcActive(valid)
<1>1. /\ write \in BOOLEAN
      /\ srcWritePos' = Moved(w, write)
      /\ srcWritePos' \in Pos /\ nextItem' \in Item
      /\ srcBuffer' \in [Pos -> Item \cup {Unset}]
      /\ srcBuffer' = IF write THEN [srcBuffer EXCEPT ![w] = nextItem] ELSE srcBuffer
      /\ readPosPipe'.dst = readPosPipe.xxx /\ readPosPipe'.xxx = Encode(r)
  BY SrcFlopsSteps
<1>2. write => PlusOne(w) # srcReadPos /\ PlusOne(w) # r
  BY ActiveSides DEF srcActive
<1>3. w \in Pos /\ r \in Pos /\ Decode(Encode(r)) = r
  BY DecodeEncode DEF StreamInv, Pos, Slots
<1>4. SeenBySource(srcWritePos', dstReadPos', srcReadPos', Decode(readPosPipe'.xxx))
  <2>1. SeenBySource(Moved(w, write), Moved(r, FALSE), Decode(readPosPipe.xxx), r)
    BY <1>1, <1>2, <1>3, SourceStep DEF StreamInv
  <2> QED BY <1>1, <1>3, <2>1 DEF Moved, srcReadPos
<1>5. SeenByDestination(dstReadPos', srcWritePos', dstWritePos', Decode(writePosPipe'.xxx), Copied')
  <2>1. SeenByDestination(r, Moved(w, write), dstWritePos, Decode(writePosPipe.xxx),
                          IF write THEN Copied \ {w} ELSE Copied)
    BY <1>1, <1>2, <1>3, DestinationStays DEF StreamInv
  <2>2. (IF write THEN Copied \ {w} ELSE Copied) \subseteq Copied'
    BY <1>1, <1>3 DEF Copied, StreamInv
  <2>3. dstWritePos' = dstWritePos
    BY DEF dstWritePos
  <2> QED BY <1>1, <2>1, <2>2, <2>3, MoreCopied
<1> QED BY <1>1, <1>3, <1>4, <1>5 DEF StreamInv

(* ... so does one of the destination clock, ...                            *)
LEMMA DstEdgeInv ==
  ASSUME StreamInv, NEW stall \in BOOLEAN, DstEdge(stall)
  PROVE  StreamInv'
<1> DEFINE w == srcWritePos
           r == dstReadPos
           read == dstActive(stall)
<1>1. /\ read \in BOOLEAN
      /\ dstReadPos' = Moved(r, read)
      /\ dstReadPos' \in Pos
      /\ dstBuffer' = srcBuffer
      /\ writePosPipe'.dst = writePosPipe.xxx /\ writePosPipe'.xxx = Encode(w)
      /\ UNCHANGED <<srcWritePos, readPosPipe, srcBuffer, nextItem>>
  BY DstFlopsSteps DEF DstEdge
<1>2. read => r # dstWritePos /\ r # w
  BY ActiveSides DEF dstActive
<1>3. w \in Pos /\ r \in Pos /\ Decode(Encode(w)) = w
  BY DecodeEncode DEF StreamInv, Pos, Slots
<1>4. SeenBySource(srcWritePos', dstReadPos', srcReadPos', Decode(readPosPipe'.xxx))
  <2>1. SeenBySource(w, Moved(r, read), srcReadPos, Decode(readPosPipe.xxx))
    BY <1>1, <1>2, <1>3, SourceStays DEF StreamInv
  <2> QED BY <1>1, <2>1 DEF srcReadPos
<1>5. SeenByDestination(dstReadPos', srcWritePos', dstWritePos', Decode(writePosPipe'.xxx), Copied')
  <2>1. SeenByDestination(Moved(r, read), Moved(w, FALSE), Decode(writePosPipe.xxx), w, Pos \ {w})
    BY <1>1, <1>2, <1>3, DestinationStep DEF StreamInv
  <2>2. (Pos \ {w}) \subseteq Copied' /\ Moved(w, FALSE) = w
    BY <1>1 DEF Copied, Moved
  <2> QED BY <1>1, <1>3, <2>1, <2>2, MoreCopied DEF dstWritePos
<1> QED BY <1>1, <1>3, <1>4, <1>5 DEF StreamInv

(* Coinciding edges, and what is sampled at them.                           *)
Coinciding(valid, stall, seenReadPos, seenWritePos, seenSlot) ==
    /\ seenReadPos \in (IF dstActive(stall) THEN Sampled(dstReadPos, PlusOne(dstReadPos))
                                            ELSE {Encode(dstReadPos)})
    /\ seenWritePos \in (IF srcActive(valid) THEN Sampled(srcWritePos, PlusOne(srcWritePos))
                                             ELSE {Encode(srcWritePos)})
    /\ SrcFlops(srcActive(valid), seenReadPos)
    /\ DstFlops(dstActive(stall), seenWritePos, [srcBuffer EXCEPT ![srcWritePos] = seenSlot])

LEMMA BothEdgesCoincide ==
  ASSUME NEW stall \in BOOLEAN, BothEdges(stall)
  PROVE  \E valid \in BOOLEAN : \E seenReadPos, seenWritePos, seenSlot :
             Coinciding(valid, stall, seenReadPos, seenWritePos, seenSlot)
  BY DEF BothEdges, Coinciding

(* ... and so do coinciding edges, whatever is sampled of what changes.     *)
LEMMA BothEdgesInv ==
  ASSUME StreamInv, NEW stall \in BOOLEAN, BothEdges(stall)
  PROVE  StreamInv'
<1> DEFINE w == srcWritePos
           r == dstReadPos
           read == dstActive(stall)
<1> PICK valid \in BOOLEAN : \E seenReadPos, seenWritePos, seenSlot :
      Coinciding(valid, stall, seenReadPos, seenWritePos, seenSlot)
  BY BothEdgesCoincide
<1>1. PICK seenReadPos, seenWritePos, seenSlot :
        /\ seenReadPos \in (IF read THEN Sampled(r, PlusOne(r)) ELSE {Encode(r)})
        /\ seenWritePos \in (IF srcActive(valid) THEN Sampled(w, PlusOne(w)) ELSE {Encode(w)})
        /\ SrcFlops(srcActive(valid), seenReadPos)
        /\ DstFlops(read, seenWritePos, [srcBuffer EXCEPT ![w] = seenSlot])
  BY DEF Coinciding
<1> DEFINE write == srcActive(valid)
<1>2. /\ write \in BOOLEAN
      /\ srcWritePos' = Moved(w, write)
      /\ srcWritePos' \in Pos /\ nextItem' \in Item
      /\ srcBuffer' \in [Pos -> Item \cup {Unset}]
      /\ srcBuffer' = IF write THEN [srcBuffer EXCEPT ![w] = nextItem] ELSE srcBuffer
      /\ readPosPipe'.dst = readPosPipe.xxx /\ readPosPipe'.xxx = seenReadPos
  BY <1>1, SrcFlopsSteps
<1>3. /\ read \in BOOLEAN
      /\ dstReadPos' = Moved(r, read)
      /\ dstReadPos' \in Pos
      /\ dstBuffer' = [srcBuffer EXCEPT ![w] = seenSlot]
      /\ writePosPipe'.dst = writePosPipe.xxx /\ writePosPipe'.xxx = seenWritePos
  BY <1>1, DstFlopsSteps
<1>4. write => PlusOne(w) # srcReadPos /\ PlusOne(w) # r
  BY ActiveSides DEF srcActive
<1>5. read => r # dstWritePos /\ r # w
  BY ActiveSides DEF dstActive
<1>6. w \in Pos /\ r \in Pos /\ Decode(Encode(w)) = w /\ Decode(Encode(r)) = r
  BY DecodeEncode DEF StreamInv, Pos, Slots
<1>7. /\ Decode(seenReadPos) \in {r, Moved(r, read)} \/ (read /\ r = 5)
      /\ Decode(seenWritePos) \in {w, Moved(w, write)} \/ (write /\ w = 5)
  BY <1>1, <1>6, SampledPosition DEF Moved
<1>8. SeenBySource(srcWritePos', dstReadPos', srcReadPos', Decode(readPosPipe'.xxx))
  <2>1. SeenBySource(Moved(w, write), Moved(r, read), Decode(readPosPipe.xxx), Decode(seenReadPos))
    BY <1>2, <1>3, <1>4, <1>5, <1>6, <1>7, SourceStep DEF StreamInv
  <2> QED BY <1>2, <1>3, <2>1 DEF srcReadPos
<1>9. SeenByDestination(dstReadPos', srcWritePos', dstWritePos', Decode(writePosPipe'.xxx), Copied')
  <2>1. SeenByDestination(Moved(r, read), Moved(w, write), Decode(writePosPipe.xxx),
                          Decode(seenWritePos), Pos \ {w})
    BY <1>2, <1>3, <1>4, <1>5, <1>6, <1>7, DestinationStep DEF StreamInv
  <2>2. (Pos \ {w}) \subseteq Copied'
    BY <1>2, <1>3, <1>6 DEF Copied, StreamInv
  <2> QED BY <1>2, <1>3, <2>1, <2>2, MoreCopied DEF dstWritePos
<1> QED BY <1>2, <1>3, <1>8, <1>9 DEF StreamInv

(* Every step keeps the invariant.                                          *)
LEMMA StreamStepInv == StreamInv /\ [Next]_vars => StreamInv'
<1> SUFFICES ASSUME StreamInv, [Next]_vars PROVE StreamInv'
  OBVIOUS
<1>1. CASE UNCHANGED vars
  BY <1>1 DEF vars, StreamInv, srcReadPos, dstWritePos, Copied
<1> QED BY <1>1, SrcEdgeInv, DstEdgeInv, BothEdgesInv, ResetInv DEF Next

(* StreamInv is an invariant of the stream, for every numbering of its      *)
(* items.                                                                   *)
THEOREM StreamInvariant == Spec => []StreamInv
  BY StreamInitInv, StreamStepInv, PTL DEF Spec
(* The refinement.  A sequence that goes on with one more item.             *)
LEMMA LastAdded ==
  ASSUME NEW S, NEW kept \in Seq(S), NEW next \in Seq(S), NEW d \in S,
         Len(next) = Len(kept) + 1, \A i \in 1 .. Len(kept) : next[i] = kept[i],
         next[Len(next)] = d
  PROVE  next = Append(kept, d)
<1>1. /\ Append(kept, d) \in Seq(S) /\ Len(Append(kept, d)) = Len(kept) + 1
      /\ \A i \in 1 .. Len(kept) : Append(kept, d)[i] = kept[i]
      /\ Append(kept, d)[Len(kept) + 1] = d
  BY AppendProperties
<1>2. \A i \in 1 .. Len(kept) + 1 : i \in 1 .. Len(kept) \/ i = Len(kept) + 1
  BY LenProperties, SMT
<1>3. \A i \in 1 .. Len(next) : next[i] = Append(kept, d)[i]
  BY <1>1, <1>2
<1> QED BY <1>1, <1>3, SeqEqual

----------------------------------------------------------------------------
(* The slot of the i-th item, and the items in the ring.                    *)
Slot(r, i) == (r + i - 1) % Slots
Contents == [i \in 1 .. Fill |-> srcBuffer[(dstReadPos + i - 1) % Slots]]
Stored == Item \cup {Unset}

(* A read takes one item off the fill, a write adds one.                    *)
LEMMA FillSteps ==
  ASSUME NEW w \in Pos, NEW r \in Pos, NEW write \in BOOLEAN, NEW read \in BOOLEAN,
         write => PlusOne(w) # r, read => r # w
  PROVE  LET fill == (w + Slots - r) % Slots
             next == (Moved(w, write) + Slots - Moved(r, read)) % Slots
         IN  /\ fill \in 0 .. 5 /\ next \in 0 .. 5
             /\ next = fill - (IF read THEN 1 ELSE 0) + (IF write THEN 1 ELSE 0)
             /\ write => fill < 5
             /\ read => fill > 0
  BY SMT DEF Moved, PlusOne, Pos, Slots

(* After a read the slot of an item is that of the item after it; the last  *)
(* item is in the slot just written.                                        *)
LEMMA SlotSteps ==
  ASSUME NEW w \in Pos, NEW r \in Pos, NEW write \in BOOLEAN, NEW read \in BOOLEAN,
         write => PlusOne(w) # r, read => r # w,
         NEW i \in 1 .. (Moved(w, write) + Slots - Moved(r, read)) % Slots
  PROVE  /\ Slot(r, i) \in Pos /\ Slot(Moved(r, read), i) \in Pos
         /\ Slot(Moved(r, read), i) = Slot(r, IF read THEN i + 1 ELSE i)
         /\ write => (Slot(Moved(r, read), i) = w
                        <=> i = (Moved(w, write) + Slots - Moved(r, read)) % Slots)
  BY SMT DEF Moved, PlusOne, Pos, Slots, Slot

(* The items in the ring are a sequence.                                    *)
LEMMA ContentsSeq ==
  ASSUME StreamInv
  PROVE  /\ Contents \in Seq(Stored) /\ Len(Contents) = Fill /\ Fill \in 0 .. 5
         /\ \A i \in 1 .. Fill : Contents[i] = srcBuffer[Slot(dstReadPos, i)]
<1>1. Fill \in 0 .. 5
  BY SMT DEF StreamInv, Pos, Slots, Fill
<1>2. \A i \in 1 .. Fill : Slot(dstReadPos, i) \in Pos
  BY <1>1, SMT DEF StreamInv, Pos, Slots, Slot
<1>3. Contents \in [1 .. Fill -> Stored]
  BY <1>2 DEF Contents, Slot, StreamInv, Stored
<1>4. Contents \in Seq(Stored)
  BY <1>1, <1>3, SeqDef
<1>5. Len(Contents) = Fill
  BY <1>1, <1>3, <1>4, LenProperties, SMT
<1> QED BY <1>1, <1>4, <1>5 DEF Contents, Slot

(* Whatever the two sides do at an edge is a step of the queue.             *)
LEMMA QueueStep ==
  ASSUME StreamInv, StreamInv', NEW write \in BOOLEAN, NEW read \in BOOLEAN,
         write => PlusOne(srcWritePos) # dstReadPos,
         read => /\ dstReadPos # srcWritePos
                 /\ dstBuffer[dstReadPos] = srcBuffer[dstReadPos],
         srcWritePos' = Moved(srcWritePos, write), dstReadPos' = Moved(dstReadPos, read),
         srcBuffer' = IF write THEN [srcBuffer EXCEPT ![srcWritePos] = nextItem] ELSE srcBuffer,
         delivered' = IF read THEN dstBuffer[dstReadPos] ELSE delivered
  PROVE  [Queue!Next]_Queue!vars
<1>1. /\ Contents \in Seq(Stored) /\ Len(Contents) = Fill /\ Fill \in 0 .. 5
      /\ \A i \in 1 .. Fill : Contents[i] = srcBuffer[Slot(dstReadPos, i)]
  BY ContentsSeq
<1>2. /\ Contents' \in Seq(Stored) /\ Len(Contents') = Fill' /\ Fill' \in 0 .. 5
      /\ \A i \in 1 .. Fill' : Contents'[i] = srcBuffer'[Slot(dstReadPos', i)]
  <2>1. Fill' \in 0 .. 5
    BY SMT DEF StreamInv, Pos, Slots, Fill
  <2>2. \A i \in 1 .. Fill' : Slot(dstReadPos', i) \in Pos
    BY <2>1, SMT DEF StreamInv, Pos, Slots, Slot
  <2>3. Contents' \in [1 .. Fill' -> Stored]
    BY <2>2 DEF Contents, Slot, StreamInv, Stored
  <2>4. Contents' \in Seq(Stored)
    BY <2>1, <2>3, SeqDef
  <2>5. Len(Contents') = Fill'
    BY <2>1, <2>3, <2>4, LenProperties, SMT
  <2> QED BY <2>1, <2>4, <2>5 DEF Contents, Slot
<1>3. /\ srcWritePos \in Pos /\ dstReadPos \in Pos /\ nextItem \in Item
      /\ srcBuffer \in [Pos -> Stored]
  BY DEF StreamInv, Stored
<1>4. /\ Fill' = Fill - (IF read THEN 1 ELSE 0) + (IF write THEN 1 ELSE 0)
      /\ write => Fill < 5
      /\ read => Fill > 0
  BY <1>3, FillSteps DEF Fill
<1>5. read => Contents # <<>> /\ Head(Contents) = srcBuffer[dstReadPos]
  <2> SUFFICES ASSUME read PROVE Contents # <<>> /\ Head(Contents) = srcBuffer[dstReadPos]
    OBVIOUS
  <2>1. Contents # <<>> /\ 1 \in 1 .. Fill
    BY <1>1, <1>4, EmptySeq, SMT
  <2>2. Slot(dstReadPos, 1) = dstReadPos
    BY <1>3, SMT DEF Slot, Pos, Slots
  <2> QED BY <1>1, <2>1, <2>2
<1>6. ASSUME NEW i \in 1 .. Len(Contents')
      PROVE  Contents'[i] = IF write /\ i = Len(Contents') THEN nextItem
                            ELSE IF read THEN Contents[i + 1] ELSE Contents[i]
  <2> DEFINE j == IF read THEN i + 1 ELSE i
  <2>1. i \in 1 .. Fill' /\ Fill' = (Moved(srcWritePos, write) + Slots - Moved(dstReadPos, read)) % Slots
    BY <1>2 DEF Fill
  <2>2. /\ Slot(dstReadPos, i) \in Pos /\ Slot(dstReadPos', i) \in Pos
        /\ Slot(dstReadPos', i) = Slot(dstReadPos, j)
        /\ write => (Slot(dstReadPos', i) = srcWritePos <=> i = Fill')
    BY <1>3, <2>1, SlotSteps
  <2>3. Contents'[i] = srcBuffer'[Slot(dstReadPos, j)] /\ Slot(dstReadPos, j) \in Pos
    BY <1>2, <2>2
  <2>4. CASE write /\ i = Fill'
    BY <1>2, <1>3, <2>2, <2>3, <2>4
  <2>5. CASE ~(write /\ i = Fill')
    <3>1. srcBuffer'[Slot(dstReadPos, j)] = srcBuffer[Slot(dstReadPos, j)]
      BY <1>3, <2>2, <2>3, <2>5
    <3>2. j \in 1 .. Fill
      BY <1>1, <1>2, <1>4, <2>1, <2>5, SMT
    <3>3. Contents[j] = srcBuffer[Slot(dstReadPos, j)]
      BY <1>1, <3>2
    <3> QED BY <1>2, <2>3, <2>5, <3>1, <3>3
  <2> QED BY <2>4, <2>5
<1>7. Contents' = IF write THEN Append(IF read THEN Tail(Contents) ELSE Contents, nextItem)
                           ELSE IF read THEN Tail(Contents) ELSE Contents
  <2> DEFINE kept == IF read THEN Tail(Contents) ELSE Contents
  <2>1. /\ kept \in Seq(Stored)
        /\ Len(kept) = Len(Contents) - (IF read THEN 1 ELSE 0)
        /\ \A i \in 1 .. Len(kept) : kept[i] = IF read THEN Contents[i + 1] ELSE Contents[i]
    BY <1>1, <1>5, HeadTailProperties
  <2> HIDE DEF kept
  <2>2. nextItem \in Stored
    BY <1>3 DEF Stored
  <2>3. Len(Contents') = Len(kept) + (IF write THEN 1 ELSE 0) /\ Len(kept) \in Nat
    <3>1. Fill \in Nat /\ Len(Contents) = Fill /\ Len(Contents') = Fill'
      BY <1>1, <1>2
    <3> QED BY <1>4, <2>1, <3>1, LenProperties, SMT
  <2>4. ASSUME NEW i \in 1 .. Len(kept) PROVE Contents'[i] = kept[i]
    <3>1. i \in 1 .. Len(Contents') /\ ~(write /\ i = Len(Contents'))
      BY <2>3, SMT
    <3> QED BY <1>6, <2>1, <3>1
  <2>5. write => Contents'[Len(Contents')] = nextItem
    BY <1>6, <2>3
  <2>6. write => Contents' = Append(kept, nextItem)
    BY <1>2, <2>1, <2>2, <2>3, <2>4, <2>5, LastAdded
  <2>7. ~write => Contents' = kept
    BY <1>2, <2>1, <2>3, <2>4, SeqEqual
  <2> QED BY <2>6, <2>7 DEF kept
<1>8. /\ write => Len(Contents) < 5
      /\ read => Contents # <<>> /\ delivered' = Head(Contents)
      /\ ~read => delivered' = delivered
  BY <1>1, <1>4, <1>5
<1> USE DEF Contents, Item
<1>9. CASE read /\ write
  BY <1>3, <1>7, <1>8, <1>9 DEF Queue!Next, Queue!PutGet
<1>10. CASE read /\ ~write
  BY <1>7, <1>8, <1>10 DEF Queue!Next, Queue!Get
<1>11. CASE ~read /\ write
  BY <1>3, <1>7, <1>8, <1>11 DEF Queue!Next, Queue!Put
<1>12. CASE ~read /\ ~write
  BY <1>7, <1>8, <1>12 DEF Queue!vars
<1> QED BY <1>9, <1>10, <1>11, <1>12

(* Each edge, ...                                                           *)
LEMMA SrcEdgeRefines ==
  ASSUME StreamInv, StreamInv', SrcEdge
  PROVE  [Queue!Next]_Queue!vars
<1>1. PICK valid \in BOOLEAN :
      /\ SrcFlops(srcActive(valid), Encode(dstReadPos))
      /\ UNCHANGED <<dstReadPos, writePosPipe, dstBuffer, delivered>>
  BY DEF SrcEdge
<1>2. /\ srcActive(valid) \in BOOLEAN /\ FALSE \in BOOLEAN
      /\ srcActive(valid) => PlusOne(srcWritePos) # dstReadPos
      /\ srcWritePos' = Moved(srcWritePos, srcActive(valid)) /\ dstReadPos' = Moved(dstReadPos, FALSE)
      /\ srcBuffer' = IF srcActive(valid) THEN [srcBuffer EXCEPT ![srcWritePos] = nextItem]
                                          ELSE srcBuffer
      /\ delivered' = IF FALSE THEN dstBuffer[dstReadPos] ELSE delivered
  BY <1>1, SrcFlopsSteps, ActiveSides DEF Moved
<1> QED BY <1>2, QueueStep

LEMMA DstEdgeRefines ==
  ASSUME StreamInv, StreamInv', NEW stall \in BOOLEAN, DstEdge(stall)
  PROVE  [Queue!Next]_Queue!vars
<1>2. /\ dstActive(stall) \in BOOLEAN /\ FALSE \in BOOLEAN
      /\ dstActive(stall) => /\ dstReadPos # srcWritePos
                             /\ dstBuffer[dstReadPos] = srcBuffer[dstReadPos]
      /\ srcWritePos' = Moved(srcWritePos, FALSE) /\ dstReadPos' = Moved(dstReadPos, dstActive(stall))
      /\ srcBuffer' = IF FALSE THEN [srcBuffer EXCEPT ![srcWritePos] = nextItem] ELSE srcBuffer
      /\ delivered' = IF dstActive(stall) THEN dstBuffer[dstReadPos] ELSE delivered
  BY DstFlopsSteps, ActiveSides DEF Moved, DstEdge, DstFlops, dstData
<1> QED BY <1>2, QueueStep

LEMMA BothEdgesRefines ==
  ASSUME StreamInv, StreamInv', NEW stall \in BOOLEAN, BothEdges(stall)
  PROVE  [Queue!Next]_Queue!vars
<1> PICK valid \in BOOLEAN : \E seenReadPos, seenWritePos, seenSlot :
      Coinciding(valid, stall, seenReadPos, seenWritePos, seenSlot)
  BY BothEdgesCoincide
<1>1. PICK seenReadPos, seenWritePos, seenSlot :
        /\ SrcFlops(srcActive(valid), seenReadPos)
        /\ DstFlops(dstActive(stall), seenWritePos, [srcBuffer EXCEPT ![srcWritePos] = seenSlot])
  BY DEF Coinciding
<1>2. /\ srcActive(valid) \in BOOLEAN
      /\ srcActive(valid) => PlusOne(srcWritePos) # dstReadPos
      /\ srcWritePos' = Moved(srcWritePos, srcActive(valid))
      /\ srcBuffer' = IF srcActive(valid) THEN [srcBuffer EXCEPT ![srcWritePos] = nextItem]
                                          ELSE srcBuffer
  BY <1>1, SrcFlopsSteps, ActiveSides
<1>3. /\ dstActive(stall) \in BOOLEAN
      /\ dstActive(stall) => /\ dstReadPos # srcWritePos
                             /\ dstBuffer[dstReadPos] = srcBuffer[dstReadPos]
      /\ dstReadPos' = Moved(dstReadPos, dstActive(stall))
      /\ delivered' = IF dstActive(stall) THEN dstBuffer[dstReadPos] ELSE delivered
  BY <1>1, DstFlopsSteps, ActiveSides DEF DstFlops, dstData
<1> QED BY <1>2, <1>3, QueueStep

(* ... and the reset are steps of the queue.                                *)
LEMMA ResetRefines ==
  ASSUME StreamInv', Reset
  PROVE  [Queue!Next]_Queue!vars
<1>1. Fill' = 0
  BY SMT DEF Reset, Fill, Slots
<1>2. Contents' = <<>>
  BY <1>1, SMT DEF Contents
<1> QED BY <1>2 DEF Reset, Contents, Queue!Next, Queue!Clear

(* CdcStream.sv is a first-in first-out queue of five items: nothing        *)
(* written while there is room is lost, doubled, reordered or read before   *)
(* it is whole, for every interleaving and coincidence of the two clocks,   *)
(* and every word sampled of a position that wraps.                         *)
THEOREM StreamIsQueue == Spec => QueueSpec
<1>1. Init => Queue!Init
  <2> SUFFICES ASSUME Init PROVE Queue!Init
    OBVIOUS
  <2>1. Fill = 0
    BY SMT DEF Init, Fill, Slots
  <2>2. Contents = <<>>
    BY <2>1, SMT DEF Contents
  <2> QED BY <2>2 DEF Init, Contents, Queue!Init
<1>2. StreamInv /\ StreamInv' /\ [Next]_vars => [Queue!Next]_Queue!vars
  <2> SUFFICES ASSUME StreamInv, StreamInv', [Next]_vars PROVE [Queue!Next]_Queue!vars
    OBVIOUS
  <2>1. CASE UNCHANGED vars
    BY <2>1 DEF vars, Queue!vars, Fill
  <2> QED BY <2>1, SrcEdgeRefines, DstEdgeRefines, BothEdgesRefines, ResetRefines DEF Next
<1> QED BY <1>1, <1>2, StreamInvariant, PTL DEF Spec, QueueSpec, Queue!Spec
=============================================================================
