----------------------------- MODULE FifoProofs -----------------------------
(* fifo/Fifo.sv: for every power of two LENGTH the counts are exact and the *)
(* block is a queue of LENGTH items, and one of LENGTH + 2 items together   *)
(* with fifo/PeekBuffer.sv.  "Power of two" enters as Modulus = 2 * LENGTH: *)
(* the pointers' range is the range of their bits.  Without it the counts   *)
(* are wrong: with LENGTH = 3 from the first write.                         *)
EXTENDS PeekFifo, SequenceTheorems, TLAPS

(* The distance of two positions on the circle the pointers run on.         *)
LEMMA MinusIsDistance ==
  ASSUME Modulus = 2 * LENGTH,
         NEW p \in 0 .. 2 * LENGTH - 1, NEW q \in 0 .. 2 * LENGTH - 1
  PROVE  Minus(p, q) = IF p >= q THEN p - q ELSE (p + 2 * LENGTH) - q
  BY FifoAssumption DEF Minus

(* Reset state.                                                             *)
LEMMA FifoInitInv ==
  ASSUME Modulus = 2 * LENGTH
  PROVE  FifoInit => FifoInv
  BY FifoAssumption, SMT DEF FifoInit, FifoInv, FifoTypeOK, CountsAreExact, Free, ShadowsAgree

(* One clock edge keeps pointers, shadows and counts together.              *)
LEMMA FifoEdgeInv ==
  ASSUME Modulus = 2 * LENGTH, FifoInv,
         NEW writeEnable \in BOOLEAN, NEW readEnable \in BOOLEAN, NEW d \in Data,
         FifoEdge(writeEnable, d, readEnable)
  PROVE  FifoInv'
<1> DEFINE read  == reading(readEnable)
           write == writing(writeEnable)
<1>1. read \in BOOLEAN /\ write \in BOOLEAN
  BY DEF reading, writing, empty, full
<1>2. (read => avail > 0) /\ (write => space > 0)
  BY FifoAssumption, SMT DEF reading, writing, empty, full, FifoInv, FifoTypeOK
<1>3. /\ rd'  = Moved(rd, 2 * LENGTH - 1, read)
      /\ rds' = Moved(rds, LENGTH - 1, read)
      /\ wrs' = Moved(wrs, LENGTH - 1, write)
      /\ wrm' = Moved(wrm, 2 * LENGTH - 1, write)
      /\ space' = Minus(rd', wrm')
      /\ avail' = Minus(LENGTH, space')
      /\ Memory(read, write, d)
  BY DEF FifoEdge, rdN, wrmN
<1> HIDE DEF read, write
<1>4. /\ rd' \in 0 .. 2 * LENGTH - 1 /\ rds' \in 0 .. LENGTH - 1
      /\ wrm' \in 0 .. 2 * LENGTH - 1 /\ wrs' \in 0 .. LENGTH - 1
  BY <1>1, <1>3, FifoAssumption, SMT DEF Moved, FifoInv, FifoTypeOK
<1>5. space' = Free'
  BY <1>3, <1>4, MinusIsDistance DEF Free
<1>6. Free' \in 0 .. LENGTH
  BY <1>1, <1>2, <1>3, FifoAssumption, SMT
     DEF Moved, FifoInv, FifoTypeOK, CountsAreExact, Free
<1>7. avail' = LENGTH - Free'
  BY <1>3, <1>5, <1>6, FifoAssumption, SMT DEF Minus
<1>8. ShadowsAgree'
  BY <1>1, <1>3, FifoAssumption, SMT DEF Moved, FifoInv, FifoTypeOK, ShadowsAgree
<1>9. readData' \in Data \cup {NoData} /\ mem' \in [0 .. LENGTH - 1 -> Data \cup {NoData}]
  BY <1>1, <1>3 DEF Memory, FifoInv, FifoTypeOK
<1>10. CountsAreExact'
  BY <1>5, <1>6, <1>7, FifoAssumption, SMT DEF CountsAreExact
<1>11. FifoTypeOK'
  <2>1. \A n \in 0 .. LENGTH : n \in 0 .. 2 * LENGTH - 1 /\ LENGTH - n \in 0 .. 2 * LENGTH - 1
    BY FifoAssumption, SMT
  <2>2. space' \in 0 .. Modulus - 1 /\ avail' \in 0 .. Modulus - 1
    BY <1>5, <1>6, <1>7, <2>1, Zenon
  <2> QED BY <1>4, <1>9, <2>2 DEF FifoTypeOK
<1> QED BY <1>8, <1>10, <1>11 DEF FifoInv

(* Every step of the queue keeps the invariant.                             *)
LEMMA FifoStepInv ==
  ASSUME Modulus = 2 * LENGTH
  PROVE  FifoInv /\ [FifoNext]_fifoVars => FifoInv'
<1> SUFFICES ASSUME FifoInv, [FifoNext]_fifoVars PROVE FifoInv'
  OBVIOUS
<1>1. ASSUME NEW writeEnable \in BOOLEAN, NEW readEnable \in BOOLEAN, NEW d \in Data,
             FifoEdge(writeEnable, d, readEnable)
      PROVE  FifoInv'
  BY <1>1, FifoEdgeInv
<1>2. CASE FifoReset
  BY <1>2, FifoAssumption, SMT
     DEF FifoReset, FifoInv, FifoTypeOK, CountsAreExact, Free, ShadowsAgree
<1>3. CASE UNCHANGED fifoVars
  BY <1>3 DEF fifoVars, pointers, FifoInv, FifoTypeOK, CountsAreExact, Free, ShadowsAgree
<1> QED BY <1>1, <1>2, <1>3 DEF FifoNext

(* FifoInv is an invariant of the queue.                                    *)
THEOREM FifoInvariant ==
  ASSUME Modulus = 2 * LENGTH
  PROVE  FifoSpec => []FifoInv
  BY FifoInitInv, FifoStepInv, PTL DEF FifoSpec

(* The counts are exact, so the queue stores LENGTH items (Fifo.sv:23).     *)
THEOREM FifoCounts ==
  ASSUME Modulus = 2 * LENGTH
  PROVE  FifoSpec => []CountsAreExact
  BY FifoInvariant, PTL DEF FifoInv

----------------------------------------------------------------------------
(* The refinement.  An edge drops the oldest item if it reads and adds one  *)
(* at the end if it writes; first for sequences in general ...              *)
LEMMA DropAndAdd ==
  ASSUME NEW S, NEW q \in Seq(S), NEW r \in Seq(S), NEW d \in S,
         NEW read \in BOOLEAN, NEW write \in BOOLEAN,
         read => q # <<>>,
         Len(r) = Len(q) - (IF read THEN 1 ELSE 0) + (IF write THEN 1 ELSE 0),
         \A i \in 1 .. Len(r) :
             r[i] = IF write /\ i = Len(r) THEN d ELSE IF read THEN q[i + 1] ELSE q[i]
  PROVE  r = IF write THEN Append(IF read THEN Tail(q) ELSE q, d)
                      ELSE IF read THEN Tail(q) ELSE q
<1> DEFINE kept == IF read THEN Tail(q) ELSE q
<1>1. /\ kept \in Seq(S)
      /\ Len(kept) = Len(q) - (IF read THEN 1 ELSE 0)
      /\ \A i \in 1 .. Len(kept) : kept[i] = IF read THEN q[i + 1] ELSE q[i]
  BY HeadTailProperties
<1>2. Len(kept) \in Nat
  BY <1>1, LenProperties
<1> HIDE DEF kept
<1>3. CASE write
  <2>1. /\ Append(kept, d) \in Seq(S)
        /\ Len(Append(kept, d)) = Len(r)
        /\ \A i \in 1 .. Len(r) : Append(kept, d)[i] = IF i = Len(r) THEN d ELSE kept[i]
    BY <1>1, <1>2, <1>3, AppendProperties
  <2>2. ASSUME NEW i \in 1 .. Len(r) PROVE r[i] = Append(kept, d)[i]
    <3>1. CASE i = Len(r)
      BY <1>3, <2>1, <3>1
    <3>2. CASE i # Len(r)
      <4>1. Len(r) = Len(kept) + 1
        BY <1>1, <1>2, <1>3, LenProperties, SMT
      <4>2. i \in 1 .. Len(kept)
        BY <1>2, <3>2, <4>1, SMT
      <4> QED BY <1>1, <2>1, <3>2, <4>2
    <3> QED BY <3>1, <3>2
  <2>3. r = Append(kept, d)
    BY <2>1, <2>2, SeqEqual
  <2> QED BY <1>3, <2>3 DEF kept
<1>4. CASE ~write
  <2>1. Len(r) = Len(kept) /\ \A i \in 1 .. Len(r) : r[i] = kept[i]
    BY <1>1, <1>2, <1>4
  <2>2. r = kept
    BY <1>1, <2>1, SeqEqual
  <2> QED BY <1>4, <2>2 DEF kept
<1> QED BY <1>3, <1>4

(* ... then for the contents of the memory.  A function on 1 .. n is a      *)
(* sequence of length n.                                                    *)
LEMMA FunctionIsSeq ==
  ASSUME NEW S, NEW n \in Nat, NEW f \in [1 .. n -> S]
  PROVE  f \in Seq(S) /\ Len(f) = n
<1>1. f \in Seq(S)
  BY SeqDef
<1>2. DOMAIN f = 1 .. Len(f) /\ Len(f) \in Nat
  BY <1>1, LenProperties
<1> QED BY <1>1, <1>2, SMT

(* A slot address stays in the memory.                                      *)
LEMMA SlotInRange ==
  ASSUME NEW r \in 0 .. LENGTH - 1, NEW i \in 1 .. LENGTH
  PROVE  (IF r + i > LENGTH THEN (r + i - 1) - LENGTH ELSE r + i - 1) \in 0 .. LENGTH - 1
<1>1. LENGTH \in Nat
  BY FifoAssumption
<1>2. CASE r + i > LENGTH
  BY <1>1, <1>2
<1>3. CASE ~(r + i > LENGTH)
  BY <1>1, <1>3
<1> QED BY <1>2, <1>3

(* Every item counted by avail lies in a slot of the memory.                *)
LEMMA ContentsSeq ==
  ASSUME Modulus = 2 * LENGTH, FifoInv
  PROVE  /\ avail \in 0 .. LENGTH
         /\ \A i \in 1 .. avail : mem[Slot(i)] \in Data \cup {NoData}
<1>1. avail \in 0 .. LENGTH
  BY FifoAssumption, SMT DEF FifoInv, FifoTypeOK, CountsAreExact, Free
<1>2. \A i \in 1 .. avail : Slot(i) \in 0 .. LENGTH - 1
  BY <1>1, FifoAssumption, SMT DEF FifoInv, FifoTypeOK, Slot
<1> QED BY <1>1, <1>2 DEF FifoInv, FifoTypeOK

(* The write goes to the slot after the newest item, which holds no item    *)
(* unless the queue is full.                                                *)
LEMMA WriteSlot ==
  ASSUME Modulus = 2 * LENGTH, FifoInv
  PROVE  /\ avail < LENGTH => Slot(avail + 1) = wrs
         /\ avail < LENGTH => \A i \in 1 .. avail : Slot(i) # wrs
  BY FifoAssumption, SMT DEF FifoInv, FifoTypeOK, CountsAreExact, Free, ShadowsAgree, Slot

(* What one clock edge does to the contents and to the output.              *)
LEMMA FifoEdgeContents ==
  ASSUME Modulus = 2 * LENGTH, FifoInv, FifoInv',
         NEW writeEnable \in BOOLEAN, NEW readEnable \in BOOLEAN, NEW d \in Data,
         FifoEdge(writeEnable, d, readEnable)
  PROVE  LET read  == reading(readEnable)
             write == writing(writeEnable)
         IN  /\ read \in BOOLEAN /\ write \in BOOLEAN
             /\ Contents \in Seq(Data \cup {NoData})
             /\ Contents' = IF write THEN Append(IF read THEN Tail(Contents) ELSE Contents, d)
                                     ELSE IF read THEN Tail(Contents) ELSE Contents
             /\ read => Contents # <<>> /\ readData' = Head(Contents)
             /\ ~read => readData' = readData
             /\ write => Len(Contents) < LENGTH
<1> DEFINE read  == reading(readEnable)
           write == writing(writeEnable)
<1>1. read \in BOOLEAN /\ write \in BOOLEAN
  BY DEF reading, writing, empty, full
<1>2. (read => avail > 0) /\ (write => avail < LENGTH)
  BY FifoAssumption, SMT DEF reading, writing, empty, full, FifoInv, FifoTypeOK, CountsAreExact, Free
<1>3. /\ rd'  = Moved(rd, 2 * LENGTH - 1, read)
      /\ rds' = Moved(rds, LENGTH - 1, read)
      /\ wrm' = Moved(wrm, 2 * LENGTH - 1, write)
      /\ Memory(read, write, d)
  BY DEF FifoEdge, rdN, wrmN
<1> HIDE DEF read, write
<1>4. avail' = avail - (IF read THEN 1 ELSE 0) + (IF write THEN 1 ELSE 0)
  BY <1>1, <1>2, <1>3, FifoAssumption, SMT
     DEF Moved, FifoInv, FifoTypeOK, CountsAreExact, Free
<1>5. avail \in 0 .. LENGTH /\ avail' \in 0 .. LENGTH
  <2>1. avail \in 0 .. LENGTH
    BY FifoAssumption, SMT DEF FifoInv, FifoTypeOK, CountsAreExact, Free
  <2> QED BY <1>1, <1>2, <1>4, <2>1, FifoAssumption, SMT
<1>6. \A i \in 1 .. avail' : Slot(i)' = IF read THEN Slot(i + 1) ELSE Slot(i)
  BY <1>1, <1>3, <1>5, FifoAssumption, SMT DEF Slot, Moved, FifoInv, FifoTypeOK
<1>7. ASSUME NEW i \in 1 .. avail'
      PROVE  mem'[Slot(i)'] = IF write /\ i = avail' THEN d
                              ELSE IF read THEN mem[Slot(i + 1)] ELSE mem[Slot(i)]
  <2> DEFINE j == IF read THEN i + 1 ELSE i
  <2>1. Slot(i)' = Slot(j)
    BY <1>6
  <2>2. j \in 1 .. avail + 1 /\ (~write => j \in 1 .. avail)
        /\ (write => (i = avail' <=> j = avail + 1))
    BY <1>1, <1>4, <1>5, SMT
  <2>3. wrs \in 0 .. LENGTH - 1 /\ mem \in [0 .. LENGTH - 1 -> Data \cup {NoData}]
    BY DEF FifoInv, FifoTypeOK
  <2>4. CASE write
    <3>1. i = avail' => Slot(j) = wrs
      BY <1>2, <2>2, <2>4, WriteSlot
    <3>2. i # avail' => Slot(j) # wrs
      <4>1. i # avail' => j \in 1 .. avail
        BY <1>5, <2>2, <2>4, SMT
      <4> QED BY <1>2, <2>4, <4>1, WriteSlot
    <3>3. Slot(j) \in 0 .. LENGTH - 1
      BY <1>5, <2>2, FifoAssumption, SMT DEF Slot, FifoInv, FifoTypeOK
    <3>4. mem' = [mem EXCEPT ![wrs] = d]
      BY <1>3, <2>4 DEF Memory
    <3> QED BY <2>1, <2>3, <2>4, <3>1, <3>2, <3>3, <3>4
  <2>5. CASE ~write
    BY <1>3, <2>1, <2>5 DEF Memory
  <2> QED BY <1>1, <2>4, <2>5
<1> DEFINE S == Data \cup {NoData}
<1>8. /\ Contents \in Seq(S) /\ Len(Contents) = avail
      /\ \A i \in 1 .. avail : Contents[i] = mem[Slot(i)]
  <2>1. avail \in Nat /\ Contents \in [1 .. avail -> S]
    BY <1>5, ContentsSeq, FifoAssumption DEF Contents
  <2> QED BY <2>1, FunctionIsSeq DEF Contents
<1>9. /\ Contents' \in Seq(S) /\ Len(Contents') = avail'
      /\ \A i \in 1 .. avail' : Contents'[i] = mem'[Slot(i)']
  <2>1. \A i \in 1 .. avail' : mem'[Slot(i)'] \in S
    <3>1. ASSUME NEW i \in 1 .. avail' PROVE mem'[Slot(i)'] \in S
      <4>1. Slot(i)' \in 0 .. LENGTH - 1
        <5>1. rds' \in 0 .. LENGTH - 1
          BY DEF FifoInv, FifoTypeOK
        <5>2. i \in 1 .. LENGTH
          BY <1>5, FifoAssumption, SMT
        <5> QED BY <5>1, <5>2, SlotInRange DEF Slot
      <4>2. mem' \in [0 .. LENGTH - 1 -> S]
        BY DEF FifoInv, FifoTypeOK
      <4> QED BY <4>1, <4>2
    <3> QED BY <3>1
  <2>2. avail' \in Nat /\ Contents' = [i \in 1 .. avail' |-> mem'[Slot(i)']]
    BY <1>5, FifoAssumption DEF Contents
  <2>3. Contents' \in [1 .. avail' -> S]
    BY <2>1, <2>2
  <2> QED BY <2>2, <2>3, FunctionIsSeq
<1>10. Contents' = IF write THEN Append(IF read THEN Tail(Contents) ELSE Contents, d)
                            ELSE IF read THEN Tail(Contents) ELSE Contents
  <2>1. Len(Contents') = Len(Contents) - (IF read THEN 1 ELSE 0) + (IF write THEN 1 ELSE 0)
    BY <1>4, <1>8, <1>9
  <2>2. read => Contents # <<>>
    BY <1>2, <1>5, <1>8, EmptySeq, SMT
  <2>3. ASSUME NEW i \in 1 .. Len(Contents')
        PROVE  Contents'[i] = IF write /\ i = Len(Contents') THEN d
                              ELSE IF read THEN Contents[i + 1] ELSE Contents[i]
    <3>1. ~(write /\ i = avail') => (IF read THEN i + 1 ELSE i) \in 1 .. avail
      BY <1>1, <1>4, <1>5, <1>9, SMT
    <3> QED BY <1>1, <1>7, <1>8, <1>9, <3>1
  <2>4. d \in S
    OBVIOUS
  <2> HIDE DEF S
  <2> QED BY <1>1, <1>8, <1>9, <2>1, <2>2, <2>3, <2>4, DropAndAdd
<1>11. read => Contents # <<>> /\ readData' = Head(Contents)
  <2> SUFFICES ASSUME read PROVE Contents # <<>> /\ readData' = Head(Contents)
    OBVIOUS
  <2>1. Contents # <<>> /\ Head(Contents) = Contents[1]
    BY <1>2, <1>5, <1>8, EmptySeq, SMT
  <2>2. Slot(1) = rds
    BY FifoAssumption, SMT DEF Slot, FifoInv, FifoTypeOK
  <2> QED BY <1>2, <1>3, <1>5, <1>8, <2>1, <2>2, SMT DEF Memory
<1>12. ~read => readData' = readData
  BY <1>3 DEF Memory
<1>13. write => Len(Contents) < LENGTH
  BY <1>2, <1>8
<1> QED BY <1>1, <1>8, <1>10, <1>11, <1>12, <1>13 DEF read, write

(* One clock edge takes a step of the abstract queue.                       *)
LEMMA FifoEdgeRefines ==
  ASSUME Modulus = 2 * LENGTH, FifoInv, FifoInv',
         NEW writeEnable \in BOOLEAN, NEW readEnable \in BOOLEAN, NEW d \in Data,
         FifoEdge(writeEnable, d, readEnable)
  PROVE  [FifoQueue!Next]_FifoQueue!vars
<1> DEFINE read  == reading(readEnable)
           write == writing(writeEnable)
<1>2. /\ read \in BOOLEAN /\ write \in BOOLEAN
      /\ Contents' = IF write THEN Append(IF read THEN Tail(Contents) ELSE Contents, d)
                              ELSE IF read THEN Tail(Contents) ELSE Contents
      /\ read => Contents # <<>> /\ readData' = Head(Contents)
      /\ ~read => readData' = readData
      /\ write => Len(Contents) < LENGTH
  BY FifoEdgeContents
<1> HIDE DEF read, write
<1>3. CASE read /\ write
  BY <1>2, <1>3 DEF FifoQueue!Next, FifoQueue!PutGet
<1>4. CASE read /\ ~write
  BY <1>2, <1>4 DEF FifoQueue!Next, FifoQueue!Get
<1>5. CASE ~read /\ write
  BY <1>2, <1>5 DEF FifoQueue!Next, FifoQueue!Put
<1>6. CASE ~read /\ ~write
  BY <1>2, <1>6 DEF FifoQueue!vars
<1> QED BY <1>2, <1>3, <1>4, <1>5, <1>6

(* Fifo.sv is a first-in first-out queue of LENGTH items: nothing written   *)
(* while not full is lost, doubled or reordered.                            *)
THEOREM FifoIsQueue ==
  ASSUME Modulus = 2 * LENGTH
  PROVE  FifoSpec => FifoQueueSpec
<1>1. FifoInit => FifoQueue!Init
  BY DEF FifoInit, FifoQueue!Init, Contents
<1>2. FifoInv /\ FifoInv' /\ [FifoNext]_fifoVars => [FifoQueue!Next]_FifoQueue!vars
  <2> SUFFICES ASSUME FifoInv, FifoInv', [FifoNext]_fifoVars
               PROVE  [FifoQueue!Next]_FifoQueue!vars
    OBVIOUS
  <2>1. ASSUME NEW writeEnable \in BOOLEAN, NEW readEnable \in BOOLEAN, NEW d \in Data,
               FifoEdge(writeEnable, d, readEnable)
        PROVE  [FifoQueue!Next]_FifoQueue!vars
    BY <2>1, FifoEdgeRefines
  <2>2. CASE FifoReset
    BY <2>2 DEF FifoReset, Contents, FifoQueue!Next, FifoQueue!Clear
  <2>3. CASE UNCHANGED fifoVars
    BY <2>3 DEF fifoVars, pointers, Contents, Slot, FifoQueue!vars
  <2> QED BY <2>1, <2>2, <2>3 DEF FifoNext
<1> QED BY <1>1, <1>2, FifoInvariant, PTL DEF FifoSpec, FifoQueueSpec, FifoQueue!Spec

----------------------------------------------------------------------------
(* The PeekBuffer in front of the queue.  An item is behind the one on show *)
(* or on the way to it, never both: the second would replace the first.     *)
PeekInv ==
    /\ FifoInv
    /\ peekMem \in Data \cup {NoData} /\ back \in Data \cup {NoData}
    /\ valid \in BOOLEAN /\ backed \in BOOLEAN /\ polled \in BOOLEAN
    /\ backed => valid /\ ~polled

LEMMA PeekEdgeInv ==
  ASSUME PeekInv, NEW readPop \in BOOLEAN, PeekEdge(readPop), FifoInv'
  PROVE  PeekInv'
<1>1. readData \in Data \cup {NoData} /\ empty \in BOOLEAN
  BY DEF PeekInv, FifoInv, FifoTypeOK, empty
<1>2. /\ peekMem' \in Data \cup {NoData} /\ back' \in Data \cup {NoData}
      /\ valid' \in BOOLEAN /\ backed' \in BOOLEAN /\ polled' \in BOOLEAN
  BY <1>1 DEF PeekInv, PeekEdge, move, pop, poll
<1>3. backed' => valid' /\ ~polled'
  BY <1>1 DEF PeekInv, PeekEdge, move, pop, poll
<1> QED BY <1>2, <1>3 DEF PeekInv

(* Every step of the two blocks is one of the queue alone.                  *)
LEMMA PeekStepIsFifoStep == [Next]_vars => [FifoNext]_fifoVars
<1>1. ASSUME NEW readPop \in BOOLEAN PROVE poll(readPop) \in BOOLEAN
  BY DEF poll
<1> QED BY <1>1 DEF Next, Edge, Reset, FifoNext, vars

LEMMA PeekInitInv == ASSUME Modulus = 2 * LENGTH PROVE Init => PeekInv
  BY FifoInitInv DEF Init, PeekInv

(* PeekInv is the inductive invariant of the two blocks.                    *)
THEOREM PeekInvariant ==
  ASSUME Modulus = 2 * LENGTH
  PROVE  Spec => []PeekInv
<1>1. Init => PeekInv
  BY PeekInitInv
<1>2. PeekInv /\ [Next]_vars => PeekInv'
  <2> SUFFICES ASSUME PeekInv, [Next]_vars PROVE PeekInv'
    OBVIOUS
  <2>1. FifoInv'
    BY PeekStepIsFifoStep, FifoStepInv DEF PeekInv
  <2>2. ASSUME NEW readPop \in BOOLEAN, PeekEdge(readPop) PROVE PeekInv'
    BY <2>1, <2>2, PeekEdgeInv
  <2>3. CASE Reset
    BY <2>1, <2>3 DEF Reset, PeekInv
  <2>4. CASE UNCHANGED vars
    BY <2>1, <2>4 DEF vars, peekVars, PeekInv
  <2> QED BY <2>2, <2>3, <2>4 DEF Next, Edge
<1> QED BY <1>1, <1>2, PTL DEF Spec

(* The counts are exact behind a PeekBuffer, too ...                        *)
THEOREM PeekCounts ==
  ASSUME Modulus = 2 * LENGTH
  PROVE  Spec => []CountsAreExact
<1>1. PeekInv => CountsAreExact
  BY DEF PeekInv, FifoInv
<1> QED BY <1>1, PeekInvariant, PTL

(* ... and the Fifo is the queue it is on its own.                          *)
THEOREM PeekFifoIsQueue ==
  ASSUME Modulus = 2 * LENGTH
  PROVE  Spec => FifoQueueSpec
<1>1. Init => FifoInit
  BY DEF Init
<1>2. Spec => FifoSpec
  BY <1>1, PeekStepIsFifoStep, PTL DEF Spec, FifoSpec
<1> QED BY <1>2, FifoIsQueue, PTL

----------------------------------------------------------------------------
(* Sequences of one item and of two.                                        *)
LEMMA Pairs ==
  ASSUME NEW S, NEW x \in S, NEW y \in S
  PROVE  /\ <<x>> \o <<y>> = <<x, y>>
         /\ <<x>> \in Seq(S) /\ <<x, y>> \in Seq(S) /\ <<>> \in Seq(S)
         /\ Tail(<<x>>) = <<>> /\ Tail(<<x, y>>) = <<y>>
         /\ Head(<<x>>) = x /\ Head(<<x, y>>) = x
         /\ <<x>> # <<>> /\ <<x, y>> # <<>>
         /\ Len(<<x>>) = 1 /\ Len(<<x, y>>) = 2 /\ Len(<<>>) = 0
<1>1. <<x>> \in Seq(S) /\ <<y>> \in Seq(S) /\ <<x, y>> \in Seq(S)
  OBVIOUS
<1>2. <<x>> \o <<y>> = <<x, y>>
  <2>1. Len(<<x>>) = 1 /\ Len(<<y>>) = 1 /\ Len(<<x, y>>) = 2
    OBVIOUS
  <2>2. <<x>> \o <<y>> \in Seq(S) /\ Len(<<x>> \o <<y>>) = 2
    BY <1>1, <2>1, ConcatProperties
  <2>3. (<<x>> \o <<y>>)[1] = <<x>>[1] /\ (<<x>> \o <<y>>)[2] = <<y>>[1]
    BY <1>1, <2>1, ConcatProperties
  <2>4. \A i \in 1 .. 2 : (<<x>> \o <<y>>)[i] = <<x, y>>[i]
    <3>1. \A i \in 1 .. 2 : i = 1 \/ i = 2
      OBVIOUS
    <3>2. <<x>>[1] = x /\ <<y>>[1] = y /\ <<x, y>>[1] = x /\ <<x, y>>[2] = y
      OBVIOUS
    <3> QED BY <2>3, <3>1, <3>2, Zenon
  <2>5. Len(<<x>> \o <<y>>) = Len(<<x, y>>)
    BY <2>1, <2>2
  <2> QED BY <1>1, <2>2, <2>4, <2>5, SeqEqual
<1> QED BY <1>1, <1>2

(* Dropping the first item of a sequence that goes on in another.           *)
LEMMA DropOfConcat ==
  ASSUME NEW S, NEW s \in Seq(S), NEW t \in Seq(S), s # <<>>
  PROVE  s \o t # <<>> /\ Head(s \o t) = Head(s) /\ Tail(s \o t) = Tail(s) \o t
<1>1. s \o t # <<>>
  BY ConcatEqualIffEmpty
<1>2. Tail(s \o t) \in Seq(S) /\ Tail(s) \o t \in Seq(S) /\ Len(Tail(s \o t)) = Len(Tail(s) \o t)
  BY <1>1, ConcatProperties, HeadTailProperties, LenProperties
<1>3. ASSUME NEW i \in 1 .. Len(Tail(s \o t)) PROVE Tail(s \o t)[i] = (Tail(s) \o t)[i]
  BY <1>1, <1>2, ConcatProperties, HeadTailProperties, LenProperties
<1>4. Tail(s \o t) = Tail(s) \o t
  BY <1>2, <1>3, SeqEqual
<1>5. Head(s \o t) = Head(s)
  BY <1>1, ConcatProperties, EmptySeq, LenProperties
<1> QED BY <1>1, <1>4, <1>5

(* Adding an item at the end of the second of two sequences.                *)
LEMMA AddToConcat ==
  ASSUME NEW S, NEW s \in Seq(S), NEW t \in Seq(S), NEW d \in S
  PROVE  s \o Append(t, d) = Append(s \o t, d)
<1>1. <<d>> \in Seq(S) /\ s \o t \in Seq(S)
  BY ConcatProperties
<1>2. Append(t, d) = t \o <<d>> /\ Append(s \o t, d) = (s \o t) \o <<d>>
  BY <1>1, AppendIsConcat
<1> QED BY <1>1, <1>2, ConcatAssociative

(* What the registers hold.                                                 *)
Stored == Data \cup {NoData}

(* An item that leaves the second of two sequences for the first, while     *)
(* another is added at the end.                                             *)
LEMMA MoveAndAdd ==
  \A k, c, r \in Seq(Stored), d \in Stored :
     /\ (k \o c) \o r = k \o (c \o r)
     /\ (k \o c) \o Append(r, d) = Append(k \o (c \o r), d)
<1> TAKE k, c, r \in Seq(Stored), d \in Stored
<1>1. Append(r, d) \in Seq(Stored) /\ c \o r \in Seq(Stored)
  BY AppendProperties, ConcatProperties
<1>2. (k \o c) \o Append(r, d) = k \o (c \o Append(r, d)) /\ (k \o c) \o r = k \o (c \o r)
  <2>1. \A z \in Seq(Stored) : (k \o c) \o z = k \o (c \o z)
    BY ConcatAssociative
  <2> QED BY <1>1, <2>1, Zenon
<1>3. c \o Append(r, d) = Append(c \o r, d) /\ k \o Append(c \o r, d) = Append(k \o (c \o r), d)
  BY <1>1, AddToConcat
<1> QED BY <1>2, <1>3

(* The items in the PeekBuffer, and with them the one on its way.           *)
Kept == One(valid, peekMem) \o One(backed, back)
Shown == Kept \o One(polled, readData)

(* They are two at most.                                                    *)
LEMMA ShownItems ==
  ASSUME PeekInv
  PROVE  /\ readData \in Stored /\ peekMem \in Stored /\ back \in Stored
         /\ ~valid /\ ~polled => Shown = <<>>
         /\ ~valid /\ polled => Shown = <<readData>>
         /\ valid /\ ~backed /\ ~polled => Shown = <<peekMem>>
         /\ valid /\ ~backed /\ polled => Shown = <<peekMem, readData>>
         /\ valid /\ backed => Shown = <<peekMem, back>>
<1>1. readData \in Stored /\ peekMem \in Stored /\ back \in Stored
  BY DEF PeekInv, FifoInv, FifoTypeOK, Stored
<1>2. CASE ~valid
  BY <1>1, <1>2, Pairs, ConcatEmptySeq DEF PeekInv, Kept, Shown, One
<1>3. CASE valid /\ ~backed
  <2>1. Kept = <<peekMem>> \o <<>>
    BY <1>3 DEF Kept, One
  <2>2. Kept = <<peekMem>>
    BY <1>1, <2>1, Pairs, ConcatEmptySeq
  <2>3. Shown = <<peekMem>> \o (IF polled THEN <<readData>> ELSE <<>>)
    BY <2>2 DEF Shown, One
  <2>4. CASE polled
    BY <1>1, <1>3, <2>3, <2>4, Pairs
  <2>5. CASE ~polled
    BY <1>1, <1>3, <2>3, <2>5, Pairs, ConcatEmptySeq
  <2> QED BY <2>4, <2>5
<1>4. CASE valid /\ backed
  <2>1. ~polled
    BY <1>4 DEF PeekInv
  <2>2. Kept = <<peekMem, back>>
    BY <1>1, <1>4, Pairs DEF Kept, One
  <2>3. Shown = Kept \o <<>>
    BY <2>1 DEF Shown, One
  <2> QED BY <1>1, <1>4, <2>1, <2>2, <2>3, Pairs, ConcatEmptySeq
<1> QED BY <1>1, <1>2, <1>3, <1>4

LEMMA ShownSeq ==
  ASSUME PeekInv
  PROVE  /\ Shown \in Seq(Stored) /\ Len(Shown) <= 2 /\ Len(Shown) \in Nat
         /\ valid => Shown # <<>> /\ Head(Shown) = peekMem
<1>1. CASE valid
  <2>1. PICK y \in Stored : Shown = <<peekMem>> \/ Shown = <<peekMem, y>>
    BY <1>1, ShownItems
  <2>2. peekMem \in Stored
    BY ShownItems
  <2>3. CASE Shown = <<peekMem>>
    BY <2>2, <2>3, Pairs
  <2>4. CASE Shown = <<peekMem, y>>
    BY <2>2, <2>4, Pairs
  <2> QED BY <1>1, <2>1, <2>3, <2>4
<1>2. CASE ~valid
  <2>1. (Shown = <<>> \/ Shown = <<readData>>) /\ readData \in Stored
    BY <1>2, ShownItems DEF PeekInv
  <2>2. CASE Shown = <<>>
    BY <1>2, <2>2, EmptySeq
  <2>3. CASE Shown = <<readData>>
    BY <1>2, <2>1, <2>3, Pairs
  <2> QED BY <2>1, <2>2, <2>3
<1> QED BY <1>1, <1>2

(* At a clock edge a pop drops the first of them; the others are kept.      *)
LEMMA KeptStep ==
  ASSUME PeekInv, NEW readPop \in BOOLEAN, PeekEdge(readPop)
  PROVE  Kept' = IF pop(readPop) THEN Tail(Shown) ELSE Shown
<1>1. valid \in BOOLEAN /\ backed \in BOOLEAN /\ polled \in BOOLEAN
  BY DEF PeekInv
<1>2. Kept' = One(valid', peekMem') \o One(backed', back')
  BY DEF Kept, One
<1>3. CASE ~valid /\ ~polled
  <2>1. ~valid' /\ ~backed' /\ ~pop(readPop)
    BY <1>3 DEF PeekInv, PeekEdge, move, pop
  <2> QED BY <1>2, <1>3, <2>1, ShownItems, ConcatEmptySeq, Pairs DEF One
<1>4. CASE ~valid /\ polled
  <2>1. valid' /\ ~backed' /\ ~pop(readPop) /\ peekMem' = readData
    BY <1>4 DEF PeekInv, PeekEdge, move, pop
  <2> QED BY <1>2, <1>4, <2>1, ShownItems, ConcatEmptySeq, Pairs DEF One
<1>5. CASE valid /\ ~backed /\ ~polled
  <2>1. ~backed' /\ valid' = ~pop(readPop) /\ (~pop(readPop) => peekMem' = peekMem)
    BY <1>1, <1>5 DEF PeekEdge, move, pop
  <2>2. Shown = <<peekMem>> /\ peekMem \in Stored
    BY <1>5, ShownItems
  <2>3. CASE pop(readPop)
    <3>1. Kept' = <<>> \o <<>>
      BY <1>2, <2>1, <2>3 DEF One
    <3> QED BY <2>2, <2>3, <3>1, ConcatEmptySeq, Pairs
  <2>4. CASE ~pop(readPop)
    <3>1. Kept' = <<peekMem>> \o <<>>
      BY <1>2, <2>1, <2>4 DEF One
    <3> QED BY <2>2, <2>4, <3>1, ConcatEmptySeq, Pairs
  <2> QED BY <2>3, <2>4
<1>6. CASE valid /\ ~backed /\ polled
  <2>1. CASE pop(readPop)
    <3>1. valid' /\ ~backed' /\ peekMem' = readData
      BY <1>1, <1>6, <2>1 DEF PeekEdge, move
    <3>2. Shown = <<peekMem, readData>> /\ peekMem \in Stored /\ readData \in Stored
      BY <1>6, ShownItems
    <3>3. Kept' = <<readData>> \o <<>>
      BY <1>2, <3>1 DEF One
    <3> QED BY <2>1, <3>2, <3>3, ConcatEmptySeq, Pairs
  <2>2. CASE ~pop(readPop)
    <3>1. valid' /\ backed' /\ peekMem' = peekMem /\ back' = readData
      BY <1>1, <1>6, <2>2 DEF PeekEdge, move
    <3> QED BY <1>2, <1>6, <2>2, <3>1, ShownItems, Pairs DEF One
  <2> QED BY <2>1, <2>2
<1>7. CASE valid /\ backed
  <2>1. ~polled
    BY <1>7 DEF PeekInv
  <2>2. CASE pop(readPop)
    <3>1. valid' /\ ~backed' /\ peekMem' = back
      BY <1>1, <1>7, <2>1, <2>2 DEF PeekEdge, move
    <3>2. Shown = <<peekMem, back>> /\ peekMem \in Stored /\ back \in Stored
      BY <1>7, ShownItems
    <3>3. Kept' = <<back>> \o <<>>
      BY <1>2, <3>1 DEF One
    <3> QED BY <2>2, <3>2, <3>3, ConcatEmptySeq, Pairs
  <2>3. CASE ~pop(readPop)
    <3>1. valid' /\ backed' /\ peekMem' = peekMem /\ back' = back
      BY <1>1, <1>7, <2>1, <2>3 DEF PeekEdge, move
    <3> QED BY <1>2, <1>7, <2>3, <3>1, ShownItems, Pairs DEF One
  <2> QED BY <2>2, <2>3
<1> QED BY <1>1, <1>3, <1>4, <1>5, <1>6, <1>7

(* One clock edge of both blocks is a step of the abstract queue.           *)
LEMMA PeekEdgeRefines ==
  ASSUME Modulus = 2 * LENGTH, PeekInv, PeekInv', NEW readPop \in BOOLEAN, Edge(readPop)
  PROVE  [PeekQueue!Next]_PeekQueue!vars
<1>1. PICK writeEnable \in BOOLEAN, d \in Data : FifoEdge(writeEnable, d, poll(readPop))
  BY DEF Edge
<1>2. PeekEdge(readPop) /\ poll(readPop) \in BOOLEAN /\ FifoInv /\ FifoInv'
  BY DEF Edge, poll, PeekInv
<1> DEFINE pops  == pop(readPop)
           write == writing(writeEnable)
<1>3. /\ polled' \in BOOLEAN /\ write \in BOOLEAN /\ pops \in BOOLEAN
      /\ Contents \in Seq(Stored) /\ d \in Stored
      /\ Contents' = IF write THEN Append(IF polled' THEN Tail(Contents) ELSE Contents, d)
                              ELSE IF polled' THEN Tail(Contents) ELSE Contents
      /\ polled' => Contents # <<>> /\ readData' = Head(Contents)
      /\ write => Len(Contents) < LENGTH
  <2>1. polled' = reading(poll(readPop))
    BY <1>2 DEF PeekEdge, reading
  <2>2. pops \in BOOLEAN
    BY DEF pop, PeekInv
  <2> QED BY <1>1, <1>2, <2>1, <2>2, FifoEdgeContents DEF Stored
<1>4. popped' = IF pops THEN peekMem ELSE popped
  BY <1>2 DEF PeekEdge
<1>5. pops => valid
  BY DEF pop
<1>6. Kept' = IF pops THEN Tail(Shown) ELSE Shown
  BY <1>2, KeptStep
<1> HIDE DEF pops, write
<1>7. Shown \in Seq(Stored) /\ Kept' \in Seq(Stored) /\ Len(Shown) <= 2 /\ Len(Shown) \in Nat
  BY <1>3, <1>5, <1>6, ShownSeq, HeadTailProperties
<1>8. Whole = Shown \o Contents
  BY DEF Whole, Shown, Kept
<1>9. Whole' = (Kept' \o One(polled', readData')) \o Contents'
  BY DEF Whole, Kept, One
<1> DEFINE rest == IF polled' THEN Tail(Contents) ELSE Contents
           come == One(polled', readData')
<1>10. /\ rest \in Seq(Stored) /\ come \in Seq(Stored)
       /\ come \o rest = Contents
  <2>1. CASE polled'
    <3>1. Head(Contents) \in Stored /\ rest \in Seq(Stored) /\ <<Head(Contents)>> \o Tail(Contents) = Contents
      <4>1. Contents = SubSeq(Contents, 1, Len(Contents)) /\ Len(Contents) \in Nat \ {0}
        BY <1>3, <2>1, SubSeqFull, EmptySeq
      <4>2. Head(Contents) = Contents[1] /\ Tail(Contents) = SubSeq(Contents, 2, Len(Contents))
        BY <1>3, <2>1, TailIsSubSeq
      <4>3. 1 \in 1 .. Len(Contents) /\ Len(Contents) \in 1 .. Len(Contents)
        BY <4>1
      <4>4. SubSeq(Contents, 1, Len(Contents)) = <<Contents[1]>> \o SubSeq(Contents, 1 + 1, Len(Contents))
        BY <1>3, <4>3, SubSeqRecursiveFirst
      <4> QED BY <1>3, <2>1, <4>1, <4>2, <4>4, HeadTailProperties
    <3> QED BY <1>3, <2>1, <3>1, Pairs DEF One
  <2>2. CASE ~polled'
    BY <1>3, <2>2, ConcatEmptySeq, Pairs DEF One
  <2> QED BY <2>1, <2>2
<1>11. Contents' = (IF write THEN Append(rest, d) ELSE rest) /\ Contents' \in Seq(Stored)
  BY <1>3, <1>10, AppendProperties
<1>12. /\ write => Whole' = (Kept' \o come) \o Append(rest, d)
       /\ ~write => Whole' = (Kept' \o come) \o rest
  BY <1>9, <1>11
<1> HIDE DEF rest, come
<1>13. /\ (Kept' \o come) \o rest = Kept' \o Contents
       /\ (Kept' \o come) \o Append(rest, d) = Append(Kept' \o Contents, d)
  <2>1. Kept' \in Seq(Stored) /\ come \in Seq(Stored) /\ rest \in Seq(Stored) /\ d \in Stored
    BY <1>3, <1>7, <1>10
  <2>2. come \o rest = Contents
    BY <1>10
  <2> QED BY <2>1, <2>2, MoveAndAdd, ZenonT(40)
<1>14. Whole' = IF write THEN Append(Kept' \o Contents, d) ELSE Kept' \o Contents
  BY <1>12, <1>13
<1>15. /\ ~pops => Kept' \o Contents = Whole
       /\ pops => Whole # <<>> /\ Head(Whole) = peekMem /\ Kept' \o Contents = Tail(Whole)
  BY <1>3, <1>5, <1>6, <1>7, <1>8, ShownSeq, DropOfConcat
<1>16. write => Len(Whole) < LENGTH + 2
  <2>1. Len(Whole) = Len(Shown) + Len(Contents) /\ Len(Contents) \in Nat
    BY <1>3, <1>7, <1>8, ConcatProperties, LenProperties
  <2> QED BY <1>3, <1>7, <2>1, FifoAssumption
<1>17. CASE pops /\ write
  BY <1>4, <1>14, <1>15, <1>16, <1>17 DEF PeekQueue!Next, PeekQueue!PutGet
<1>18. CASE pops /\ ~write
  BY <1>4, <1>14, <1>15, <1>18 DEF PeekQueue!Next, PeekQueue!Get
<1>19. CASE ~pops /\ write
  BY <1>4, <1>14, <1>15, <1>16, <1>19 DEF PeekQueue!Next, PeekQueue!Put
<1>20. CASE ~pops /\ ~write
  BY <1>4, <1>14, <1>15, <1>20 DEF PeekQueue!vars
<1> QED BY <1>3, <1>17, <1>18, <1>19, <1>20

(* An empty queue behind an empty buffer.                                   *)
LEMMA WholeEmpty ==
  ASSUME ~valid, ~backed, ~polled, avail = 0
  PROVE  Whole = <<>>
  BY DEF Whole, One, Contents

(* Fifo and PeekBuffer together are a first-in first-out queue of           *)
(* LENGTH + 2 items: what is popped is what was written, in that order.     *)
THEOREM PeekFifoIsLongerQueue ==
  ASSUME Modulus = 2 * LENGTH
  PROVE  Spec => PeekQueueSpec
<1>1. Init => PeekQueue!Init
  BY WholeEmpty DEF Init, FifoInit, PeekQueue!Init
<1>2. PeekInv /\ PeekInv' /\ [Next]_vars => [PeekQueue!Next]_PeekQueue!vars
  <2> SUFFICES ASSUME PeekInv, PeekInv', [Next]_vars
               PROVE  [PeekQueue!Next]_PeekQueue!vars
    OBVIOUS
  <2>1. ASSUME NEW readPop \in BOOLEAN, Edge(readPop) PROVE [PeekQueue!Next]_PeekQueue!vars
    BY <2>1, PeekEdgeRefines
  <2>2. CASE Reset
    <3>1. Whole' = <<>>
      BY <2>2 DEF Reset, FifoReset, Whole, One, Contents
    <3> QED BY <2>2, <3>1 DEF Reset, PeekQueue!Next, PeekQueue!Clear
  <2>3. CASE UNCHANGED vars
    BY <2>3 DEF vars, fifoVars, peekVars, pointers, Whole, One, Contents, Slot, PeekQueue!vars
  <2> QED BY <2>1, <2>2, <2>3 DEF Next
<1> QED BY <1>1, <1>2, PeekInvariant, PTL DEF Spec, PeekQueueSpec, PeekQueue!Spec
=============================================================================
