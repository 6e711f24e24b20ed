------------------------ MODULE Axi4MemBridgeProofs ------------------------
(* Reads deliver every beat, and a beat on offer stands, when the master    *)
(* and the memory do not both wait and no burst has the longest length.     *)
EXTENDS Axi4MemBridge, TLAPS

(* What a read keeps: the beats asked of the memory are the beats taken and *)
(* the one on offer, which is the word at tmpAddr; and a master that waits, *)
(* in front of a memory that never stalls, always has one on offer.         *)
Reading ==
    state = "READ" =>
        /\ tmpLen = beats + (IF memEn THEN 1 ELSE 0)
        /\ tmpLen <= req.len + 1
        /\ memEn => rdata = memory[tmpAddr]
        /\ "master" \in waits => memEn

Counters ==
    /\ waits \in Waiters
    /\ req.len \in Nat /\ req.len + 1 < Lengths
    /\ tmpLen \in Nat /\ beats \in Nat

ReadInv == Counters /\ Reading

(* A counter below its modulus counts on.                                   *)
LEMMA CountsOn ==
    ASSUME NEW n \in Nat, NEW m \in Nat, n + 1 < m
    PROVE  (n + 1) % m = n + 1
  OBVIOUS

(* A length is a natural number, and one more is still a length.            *)
LEMMA RequestLen ==
    ASSUME Countable, NEW request \in Request
    PROVE  request.len \in Nat /\ request.len + 1 < Lengths
  BY BridgeAssumption DEF Countable, AnyRequest

LEMMA InitReadInv == Init => ReadInv
  BY BridgeAssumption DEF Init, ReadInv, Counters, Reading

(* The steps outside a read.                                                *)
LEMMA OutsideRead ==
    ASSUME Countable, Counters,
           NoRequest \/ (\E request \in Request, stall \in BOOLEAN : Accept(request, stall))
           \/ (\E stall \in BOOLEAN, offer \in Offer : Write(stall, offer))
           \/ (\E ready \in BOOLEAN : Answer(ready)) \/ Reset,
           UNCHANGED waits
    PROVE  ReadInv'
  <1>1. Lengths \in Nat \ {0, 1}
    BY BridgeAssumption
  <1>2. CASE NoRequest
    BY <1>2 DEF NoRequest, NoAccess, Counters, ReadInv, Reading
  <1>3. CASE \E request \in Request, stall \in BOOLEAN : Accept(request, stall)
    <2>1. PICK request \in Request, stall \in BOOLEAN : Accept(request, stall)
      BY <1>3
    <2>2. request.len \in Nat /\ request.len + 1 < Lengths
      BY RequestLen
    <2>3. CASE AcceptRead(request, stall)
      BY <2>2, <2>3 DEF AcceptRead, Latch, Fetch, NoAccess, Counters, ReadInv, Reading
    <2>4. CASE \E offer \in Offer : AcceptWrite(request, stall, offer)
      BY <2>2, <2>4 DEF AcceptWrite, AfterBeat, Latch, Counters, ReadInv, Reading
    <2> QED
      BY <2>1, <2>3, <2>4 DEF Accept
  <1>4. CASE \E stall \in BOOLEAN, offer \in Offer : Write(stall, offer)
    BY <1>1, <1>4 DEF Write, FirstBeat, NextBeat, AfterBeat, Counters, ReadInv, Reading
  <1>5. CASE \E ready \in BOOLEAN : Answer(ready)
    BY <1>5 DEF Answer, Respond, Counters, ReadInv, Reading
  <1>6. CASE Reset
    BY <1>1, <1>6 DEF Reset, Counters, ReadInv, Reading
  <1> QED
    BY <1>2, <1>3, <1>4, <1>5, <1>6

(* The steps of a read.                                                     *)
LEMMA InsideRead ==
    ASSUME OneWaits, ReadInv, NEW stall \in BOOLEAN, NEW ready \in BOOLEAN,
           Read(stall, ready), UNCHANGED waits
    PROVE  ReadInv'
  <1>1. Lengths \in Nat \ {0, 1} /\ ~{"master", "memory"} \subseteq waits
    BY BridgeAssumption DEF OneWaits, ReadInv, Counters
  <1>2. CASE ready /\ ReadReady(stall)
    <2>1. state = "READ" /\ Counters /\ Reading /\ (stall => "memory" \in waits)
      BY <1>2 DEF Read, ReadReady, ReadInv
    <2>2. beats' = beats + (IF memEn THEN 1 ELSE 0) /\ beats' = tmpLen /\ beats' \in Nat
      BY <1>2, <2>1 DEF ReadReady, Taken, rValid, Reading, Counters
    <2>3. CASE rLast /\ state' = "IDLE" /\ UNCHANGED tmpLen
      BY <1>2, <2>1, <2>2, <2>3 DEF ReadReady, ReadInv, Reading, Counters
    <2>4. CASE ~rLast /\ ~stall /\ Fetch(NewAddr(req, tmpLen))
               /\ tmpLen' = (tmpLen + 1) % Lengths /\ UNCHANGED state
      <3>1. tmpLen < req.len + 1
        BY <2>1, <2>4 DEF rLast, Reading, Counters
      <3>2. tmpLen' = tmpLen + 1
        BY <1>1, <2>1, <2>4, <3>1, CountsOn DEF Counters
      <3>3. memEn' /\ rdata' = memory'[tmpAddr']
        BY <1>2, <2>4 DEF ReadReady, Fetch
      <3> QED
        BY <1>2, <2>1, <2>2, <2>4, <3>1, <3>2, <3>3 DEF ReadReady, ReadInv, Reading, Counters
    <2>5. CASE ~rLast /\ stall /\ NoAccess /\ UNCHANGED <<state, tmpLen>>
      BY <1>1, <1>2, <2>1, <2>2, <2>5
      DEF ReadReady, NoAccess, ReadInv, Reading, Counters
    <2> QED
      BY <1>2, <2>3, <2>4, <2>5 DEF ReadReady
  <1>3. CASE ~ready /\ ReadHeld(stall)
    <2>1. state = "READ" /\ memEn /\ ~stall
      BY <1>1, <1>3 DEF Read, ReadHeld, ReadInv, Reading
    <2>2. memEn' /\ rdata' = memory'[tmpAddr]
      BY <1>3, <2>1 DEF ReadHeld, Fetch
    <2> QED
      BY <1>3, <2>1, <2>2 DEF ReadHeld, registers, ReadInv, Reading, Counters
  <1> QED
    BY <1>2, <1>3 DEF Read

LEMMA NextReadInv ==
    ASSUME OneWaits, Countable, ReadInv, [Next]_vars
    PROVE  ReadInv'
  <1>1. CASE Next
    BY <1>1, OutsideRead, InsideRead DEF Next, Edge, ReadInv
  <1>2. CASE UNCHANGED vars
    BY <1>2 DEF vars, registers, memoryVars, ReadInv, Reading, Counters
  <1> QED
    BY <1>1, <1>2

(* A read delivers every beat it asks of the memory: for a memory and a     *)
(* burst of any size, as long as the two sides do not both wait.            *)
THEOREM BeatsKept ==
    ASSUME OneWaits, Countable
    PROVE  Spec => []NoBeatLost
  <1>1. ReadInv => NoBeatLost
    BY DEF ReadInv, Reading, NoBeatLost, rValid
  <1> QED
    BY <1>1, InitReadInv, NextReadInv, PTL DEF Spec

(* A step that takes no beat and stays in the read leaves the offer alone.  *)
LEMMA StepOffer ==
    ASSUME OneWaits, ReadInv, [Next]_vars,
           rValid, beats' = beats, state' = "READ"
    PROVE  rValid' /\ rdata' = rdata /\ tmpLen' = tmpLen
  <1>1. state = "READ" /\ memEn /\ rdata = memory[tmpAddr] /\ Counters
    BY DEF rValid, ReadInv, Reading
  <1>2. CASE UNCHANGED vars
    BY <1>1, <1>2 DEF vars, registers, memoryVars, rValid
  <1>3. CASE \E stall, ready \in BOOLEAN : Read(stall, ready)
    <2>1. PICK stall \in BOOLEAN, ready \in BOOLEAN : Read(stall, ready)
      BY <1>3
    <2>2. ~ReadReady(stall)
      BY <1>1 DEF ReadReady, Taken, rValid, Counters
    <2>3. ~ready /\ ReadHeld(stall) /\ ~stall
      BY <1>1, <2>1, <2>2 DEF Read, OneWaits, Counters
    <2> QED
      BY <1>1, <2>3 DEF ReadHeld, Fetch, registers, rValid
  <1>4. CASE Next /\ ~(\E stall, ready \in BOOLEAN : Read(stall, ready))
    BY <1>1, <1>4 DEF Next, Edge, NoRequest, Accept, AcceptRead, AcceptWrite,
        Write, FirstBeat, NextBeat, Answer, Respond, Reset
  <1> QED
    BY <1>2, <1>3, <1>4

(* A beat on offer stays as it is until the master takes it.                *)
THEOREM OfferHolds ==
    ASSUME OneWaits, Countable
    PROVE  Spec => OfferStands
  <1>1. ASSUME ReadInv, [Next]_vars
        PROVE  [rValid /\ beats' = beats /\ state' = "READ" =>
                    rValid' /\ rdata' = rdata /\ tmpLen' = tmpLen]_vars
    BY <1>1, StepOffer
  <1> QED
    BY <1>1, InitReadInv, NextReadInv, PTL DEF Spec, OfferStands

----------------------------------------------------------------------------
(* Wrapping bursts whose addresses get_new_addr gets right.                 *)
WrapsRight == \A request \in Request :
    request.burst = "WRAP" /\ ~Refused(request) =>
        /\ request.len \in {1, 3}
        /\ request.addr % (request.len + 1) <= 1
        /\ (request.addr \div (request.len + 1)) * (request.len + 1) + request.len + 1 < Size

Latched(request) == [addr |-> request.addr, len |-> request.len, burst |-> request.burst]

(* A wrapping burst from an address at most one word past its boundary.     *)
LEMMA WrappedAddress ==
    ASSUME NEW r, NEW beat \in Nat, NEW boundary \in Nat,
           r.burst = "WRAP", r.addr \in Nat, r.len \in Nat,
           WrapBoundary(r.addr, r.len) = boundary,
           boundary + r.len + 1 < Size, r.addr + beat <= boundary + r.len + 1
    PROVE  NewAddr(r, beat) =
               IF r.addr + beat = boundary + r.len + 1 THEN boundary ELSE r.addr + beat
  <1>1. Size \in Nat \ {0}
    BY BridgeAssumption
  <1> DEFINE cons == r.addr + beat
             upper == boundary + r.len + 1
  <1>2. cons \in Nat /\ upper \in Nat /\ cons < Size /\ upper < Size /\ cons <= upper
    BY <1>1
  <1>3. \A n \in Nat : n < Size => n % Size = n
    BY <1>1
  <1>4. cons % Size = cons /\ upper % Size = upper
    BY <1>2, <1>3
  <1> HIDE DEF cons, upper
  <1>5. NewAddr(r, beat) =
            CASE r.burst = "INCR" -> cons
              [] r.burst = "WRAP" /\ cons = upper -> boundary
              [] r.burst = "WRAP" /\ cons > upper -> (cons - r.len) % Size
              [] r.burst = "WRAP" /\ cons < upper -> cons
              [] OTHER -> r.addr
    BY <1>4 DEF NewAddr, cons, upper
  <1>6. cons = upper \/ cons < upper
    BY <1>2
  <1>7. CASE cons = upper
    BY <1>2, <1>5, <1>7 DEF cons, upper
  <1>8. CASE cons < upper
    BY <1>2, <1>5, <1>8 DEF cons, upper
  <1> QED BY <1>6, <1>7, <1>8

(* Remainders by two and by four: of at most a word past the boundary.      *)
LEMMA ByTwo ==
    ASSUME NEW a \in Nat, NEW n \in Nat, NEW boundary, boundary = (a \div 2) * 2,
           a % 2 <= 1, n <= 1
    PROVE  /\ boundary \in Nat /\ boundary + ((a + 0) % 2) = a
           /\ a + n <= boundary + 2
           /\ boundary + ((a + n) % 2) = IF a + n = boundary + 2 THEN boundary ELSE a + n
  BY SMT

LEMMA ByFour ==
    ASSUME NEW a \in Nat, NEW n \in Nat, NEW boundary, boundary = (a \div 4) * 4,
           a % 4 <= 1, n <= 3
    PROVE  /\ boundary \in Nat /\ boundary + ((a + 0) % 4) = a
           /\ a + n <= boundary + 4
           /\ boundary + ((a + n) % 4) = IF a + n = boundary + 4 THEN boundary ELSE a + n
  BY SMT

(* The address of a beat is the one the burst type asks for.                *)
LEMMA RightAddress ==
    ASSUME WrapsRight, NEW request \in Request, ~Refused(request),
           NEW beat \in 0 .. request.len
    PROVE  /\ Bursts!AddressOf(request, 0) = request.addr
           /\ Bursts!AddressOf(Latched(request), beat) = Bursts!AddressOf(request, beat)
           /\ NewAddr(Latched(request), beat) = Bursts!AddressOf(request, beat)
  <1>1. /\ Size \in Nat \ {0} /\ request.addr \in 0 .. Size - 1
        /\ request.len \in Nat /\ request.burst \in BurstType
    BY BridgeAssumption DEF AnyRequest
  <1> DEFINE addr == request.addr
             len == request.len
  <1>2. CASE request.burst = "INCR"
    BY <1>1, <1>2 DEF NewAddr, Latched, Bursts!AddressOf
  <1>3. CASE request.burst = "FIXED"
    BY <1>1, <1>3 DEF NewAddr, Latched, Bursts!AddressOf
  <1>4. CASE request.burst = "WRAP"
    <2>1. len \in {1, 3} /\ addr % (len + 1) <= 1 /\ (addr \div (len + 1)) * (len + 1) + len + 1 < Size
      BY <1>4 DEF WrapsRight
    <2>2. Bursts!AddressOf(Latched(request), beat) = Bursts!AddressOf(request, beat)
      BY DEF Latched, Bursts!AddressOf
    <2>3. CASE len = 1
      <3> DEFINE boundary == (addr \div 2) * 2
      <3>1. /\ Bursts!AddressOf(request, beat) = boundary + ((addr + beat) % 2)
            /\ Bursts!AddressOf(request, 0) = boundary + ((addr + 0) % 2)
        BY <1>4, <2>3 DEF Bursts!AddressOf
      <3>2. WrapBoundary(addr, 1) = boundary
        BY DEF WrapBoundary
      <3>3. addr \in Nat /\ beat \in Nat /\ beat <= 1 /\ addr % 2 <= 1 /\ boundary + 2 < Size
        BY <1>1, <2>1, <2>3
      <3>0. boundary = (addr \div 2) * 2
        OBVIOUS
      <3> HIDE DEF boundary
      <3>4. /\ boundary \in Nat /\ boundary + ((addr + 0) % 2) = addr
            /\ addr + beat <= boundary + 2
            /\ boundary + ((addr + beat) % 2) =
                   IF addr + beat = boundary + 2 THEN boundary ELSE addr + beat
        BY ONLY <3>3, <3>0, ByTwo
      <3>5. Latched(request).burst = "WRAP" /\ Latched(request).addr = addr /\ Latched(request).len = 1
        BY <1>4, <2>3 DEF Latched
      <3>6. boundary + 1 + 1 = boundary + 2
        BY <3>4
      <3>7. NewAddr(Latched(request), beat) =
                IF addr + beat = boundary + 2 THEN boundary ELSE addr + beat
        <4> PICK r : r = Latched(request)
          OBVIOUS
        <4>1. /\ r.burst = "WRAP" /\ r.addr \in Nat /\ r.len \in Nat
              /\ WrapBoundary(r.addr, r.len) = boundary
              /\ boundary + r.len + 1 < Size /\ r.addr + beat <= boundary + r.len + 1
          BY <3>2, <3>3, <3>4, <3>5, <3>6
        <4>2. NewAddr(r, beat) =
                  IF r.addr + beat = boundary + r.len + 1 THEN boundary ELSE r.addr + beat
          BY <3>3, <3>4, <4>1, WrappedAddress
        <4> QED BY <3>5, <3>6, <4>2
      <3> QED BY <2>2, <3>1, <3>4, <3>7
    <2>4. CASE len = 3
      <3> DEFINE boundary == (addr \div 4) * 4
      <3>1. /\ Bursts!AddressOf(request, beat) = boundary + ((addr + beat) % 4)
            /\ Bursts!AddressOf(request, 0) = boundary + ((addr + 0) % 4)
        BY <1>4, <2>4 DEF Bursts!AddressOf
      <3>2. WrapBoundary(addr, 3) = boundary
        BY DEF WrapBoundary
      <3>3. addr \in Nat /\ beat \in Nat /\ beat <= 3 /\ addr % 4 <= 1 /\ boundary + 4 < Size
        BY <1>1, <2>1, <2>4
      <3>0. boundary = (addr \div 4) * 4
        OBVIOUS
      <3> HIDE DEF boundary
      <3>4. /\ boundary \in Nat /\ boundary + ((addr + 0) % 4) = addr
            /\ addr + beat <= boundary + 4
            /\ boundary + ((addr + beat) % 4) =
                   IF addr + beat = boundary + 4 THEN boundary ELSE addr + beat
        BY ONLY <3>3, <3>0, ByFour
      <3>5. Latched(request).burst = "WRAP" /\ Latched(request).addr = addr /\ Latched(request).len = 3
        BY <1>4, <2>4 DEF Latched
      <3>6. boundary + 3 + 1 = boundary + 4
        BY <3>4
      <3>7. NewAddr(Latched(request), beat) =
                IF addr + beat = boundary + 4 THEN boundary ELSE addr + beat
        <4> PICK r : r = Latched(request)
          OBVIOUS
        <4>1. /\ r.burst = "WRAP" /\ r.addr \in Nat /\ r.len \in Nat
              /\ WrapBoundary(r.addr, r.len) = boundary
              /\ boundary + r.len + 1 < Size /\ r.addr + beat <= boundary + r.len + 1
          BY <3>2, <3>3, <3>4, <3>5, <3>6
        <4>2. NewAddr(r, beat) =
                  IF r.addr + beat = boundary + r.len + 1 THEN boundary ELSE r.addr + beat
          BY <3>3, <3>4, <4>1, WrappedAddress
        <4> QED BY <3>5, <3>6, <4>2
      <3> QED BY <2>2, <3>1, <3>4, <3>7
    <2> QED BY <2>1, <2>3, <2>4
  <1> QED BY <1>1, <1>2, <1>3, <1>4 DEF BurstType

(* What the bridge knows of the burst under way.                            *)
Asked == \E request \in Request :
    /\ req = Latched(request)
    /\ Refused(request) <=> state \in {"READ_ABORT", "WRITE_ABORT"}

(* The inductive invariant of the refinement: the burst is one that was     *)
(* asked for, the beats done are those of the state, and a beat on offer    *)
(* is that of the next address.                                             *)
BurstInv ==
    /\ ReadInv
    /\ state \in {"IDLE", "READ", "READ_ABORT", "WAIT_WVALID", "WRITE", "WRITE_ACK", "WRITE_ABORT"}
    /\ state # "IDLE" => Asked
    /\ state = "READ" =>
           /\ beats <= req.len
           /\ memEn => tmpAddr = Bursts!AddressOf(req, beats)
    /\ state \in {"READ_ABORT", "WRITE_ABORT", "WAIT_WVALID"} => beats = 0
    /\ state = "WAIT_WVALID" => tmpLen = 1
    /\ state = "WRITE" => tmpLen = beats /\ 1 <= beats /\ beats <= req.len
    /\ state = "WRITE_ACK" => beats = req.len + 1

(* The burst under way, as the abstract memory has it.                      *)
BurstOf(in, asked, n) ==
    IF in = "IDLE" THEN None ELSE
        [kind |-> IF in \in {"READ", "READ_ABORT"} THEN "read" ELSE "write",
         addr |-> asked.addr, len |-> asked.len, burst |-> asked.burst,
         refused |-> in \in {"READ_ABORT", "WRITE_ABORT"}, beats |-> n]
Burst == BurstOf(state, req, beats)

(* The same, spelt out: of a burst that is carried out and of a refused one. *)
No == FALSE

Running(kind, asked, n) ==
    [kind |-> kind, addr |-> asked.addr, len |-> asked.len, burst |-> asked.burst,
     refused |-> No, beats |-> n]

Turned(kind, asked, n) ==
    [kind |-> kind, addr |-> asked.addr, len |-> asked.len, burst |-> asked.burst,
     refused |-> TRUE, beats |-> n]

LEMMA SpeltFields ==
    \A kind, asked, n :
        /\ Running(kind, asked, n).kind = kind /\ Running(kind, asked, n).len = asked.len
        /\ ~Running(kind, asked, n).refused /\ Running(kind, asked, n).beats = n
        /\ [Running(kind, asked, n) EXCEPT !.beats = n + 1] = Running(kind, asked, n + 1)
        /\ Bursts!AddressOf(Running(kind, asked, n), n) = Bursts!AddressOf(asked, n)
        /\ Turned(kind, asked, n).refused
  <1> TAKE kind, asked, n
  <1>1. /\ Running(kind, asked, n).kind = kind /\ Running(kind, asked, n).len = asked.len
        /\ ~Running(kind, asked, n).refused /\ Running(kind, asked, n).beats = n
    BY DEF Running, No
  <1>2. [Running(kind, asked, n) EXCEPT !.beats = n + 1] = Running(kind, asked, n + 1)
    <2>1. \A addr, len, burst, m :
              [[kind |-> kind, addr |-> addr, len |-> len, burst |-> burst,
                refused |-> No, beats |-> n] EXCEPT !.beats = m] =
              [kind |-> kind, addr |-> addr, len |-> len, burst |-> burst,
               refused |-> No, beats |-> m]
      OBVIOUS
    <2> QED BY <2>1 DEF Running
  <1>3. Bursts!AddressOf(Running(kind, asked, n), n) = Bursts!AddressOf(asked, n)
    BY DEF Running, No, Bursts!AddressOf
  <1>4. Turned(kind, asked, n).refused
    BY DEF Turned
  <1> QED BY <1>1, <1>2, <1>3, <1>4

LEMMA BurstSpelt ==
    \A in, asked, n :
        /\ in = "IDLE" => BurstOf(in, asked, n) = None
        /\ in = "READ" => BurstOf(in, asked, n) = Running("read", asked, n)
        /\ in = "READ_ABORT" => BurstOf(in, asked, n) = Turned("read", asked, n)
        /\ in \in {"WAIT_WVALID", "WRITE", "WRITE_ACK"} =>
               BurstOf(in, asked, n) = Running("write", asked, n)
        /\ in = "WRITE_ABORT" => BurstOf(in, asked, n) = Turned("write", asked, n)
  <1> TAKE in, asked, n
  <1>1. in \in {"READ", "WAIT_WVALID", "WRITE", "WRITE_ACK"} =>
            (in \in {"READ_ABORT", "WRITE_ABORT"}) = FALSE
    OBVIOUS
  <1>2. in \in {"READ_ABORT", "WRITE_ABORT"} => (in \in {"READ_ABORT", "WRITE_ABORT"}) = TRUE
    OBVIOUS
  <1> QED BY <1>1, <1>2 DEF BurstOf, Running, No, Turned

(* A burst that is under way is there.                                      *)
LEMMA UnderWay ==
    ASSUME Countable, BurstInv, state # "IDLE"
    PROVE  Burst # None
  <1>1. PICK request \in Request : req = Latched(request)
    BY DEF BurstInv, Asked
  <1>2. /\ req.addr \in 0 .. Size - 1 /\ req.len \in 0 .. Lengths - 1 /\ req.burst \in BurstType
        /\ req.len + 1 < Lengths
    BY <1>1, RequestLen, BridgeAssumption DEF Latched, AnyRequest
  <1>3. beats \in 0 .. Lengths
    BY <1>2, BridgeAssumption DEF BurstInv, ReadInv, Counters
  <1>4. \E kind \in {"read", "write"} :
            Burst = Running(kind, req, beats) \/ Burst = Turned(kind, req, beats)
    BY BurstSpelt DEF Burst, BurstInv
  <1>5. ASSUME NEW kind \in {"read", "write"}
        PROVE  Running(kind, req, beats) # None /\ Turned(kind, req, beats) # None
    <2> DEFINE Known == [kind : {"read", "write"}, addr : 0 .. Size - 1, len : 0 .. Lengths - 1,
                         burst : BurstType, refused : BOOLEAN, beats : 0 .. Lengths]
    <2>1. None \notin Known
      BY BridgeAssumption
    <2>2. Running(kind, req, beats) \in Known
      BY <1>2, <1>3 DEF Running, No
    <2>3. Turned(kind, req, beats) \in Known
      BY <1>2, <1>3 DEF Turned
    <2> QED BY <2>1, <2>2, <2>3
  <1> QED BY <1>4, <1>5

(* Idle: a burst is accepted.                                               *)
LEMMA AcceptReadBurst ==
    ASSUME WrapsRight, BurstInv, ReadInv', NEW request \in Request, NEW stall \in BOOLEAN,
           AcceptRead(request, stall)
    PROVE  BurstInv' /\ [Bursts!Next]_(Bursts!vars)
  <1>1. /\ state = "IDLE" /\ req' = Latched(request) /\ beats' = 0 /\ tmpLen' = 1
        /\ tmpAddr' = request.addr /\ answer' = answer /\ memory' = memory
        /\ req'.addr = request.addr /\ req'.len = request.len /\ req'.burst = request.burst
    BY DEF AcceptRead, Latch, Latched, NoAccess, Fetch
  <1>2. Refused(request) \in BOOLEAN /\ request.len \in Nat
    BY BridgeAssumption DEF Refused, AnyRequest
  <1>3. CASE stall /\ state' = state
    BY <1>1, <1>3 DEF BurstInv, Bursts!vars
  <1>4. CASE ~stall /\ Refused(request) /\ state' = "READ_ABORT"
    <2>1. Bursts!Begin("read", request)
      BY <1>1, <1>4 DEF Bursts!Begin, Bursts!Job, Refused
    <2>2. Asked'
      BY <1>1, <1>4 DEF Asked
    <2> QED BY <1>1, <1>4, <2>1, <2>2 DEF BurstInv, Bursts!Next
  <1>5. CASE ~stall /\ ~Refused(request) /\ state' = "READ"
    <2>1. Bursts!Begin("read", request)
      BY <1>1, <1>5 DEF Bursts!Begin, Bursts!Job, Refused
    <2>2. Asked'
      BY <1>1, <1>5 DEF Asked
    <2>3. tmpAddr' = Bursts!AddressOf(Latched(request), 0)
      BY <1>1, <1>2, <1>5, RightAddress
    <2> QED BY <1>1, <1>2, <1>5, <2>1, <2>2, <2>3 DEF BurstInv, Bursts!Next
  <1> QED BY <1>3, <1>4, <1>5 DEF AcceptRead

LEMMA AcceptWriteBurst ==
    ASSUME WrapsRight, BurstInv, ReadInv', NEW request \in Request, NEW stall \in BOOLEAN,
           NEW offer \in Offer, AcceptWrite(request, stall, offer)
    PROVE  BurstInv' /\ [Bursts!Next]_(Bursts!vars)
  <1>1. /\ state = "IDLE" /\ req' = Latched(request) /\ tmpLen' = 1 /\ answer' = answer
        /\ req'.addr = request.addr /\ req'.len = request.len /\ req'.burst = request.burst
    BY DEF AcceptWrite, Latch, Latched
  <1>2. Refused(request) \in BOOLEAN /\ request.len \in Nat
    BY BridgeAssumption DEF Refused, AnyRequest
  <1>3. CASE Refused(request) /\ state' = "WRITE_ABORT" /\ beats' = 0 /\ NoAccess
    <2>1. Bursts!Begin("write", request)
      BY <1>1, <1>3 DEF Bursts!Begin, Bursts!Job, Refused, NoAccess
    <2>2. Asked'
      BY <1>1, <1>3 DEF Asked
    <2> QED BY <1>1, <1>3, <2>1, <2>2 DEF BurstInv, Bursts!Next
  <1>4. CASE ~Refused(request) /\ state' = "WAIT_WVALID" /\ beats' = 0 /\ NoAccess
    <2>1. Bursts!Begin("write", request)
      BY <1>1, <1>4 DEF Bursts!Begin, Bursts!Job, Refused, NoAccess
    <2>2. Asked'
      BY <1>1, <1>4 DEF Asked
    <2> QED BY <1>1, <1>4, <2>1, <2>2 DEF BurstInv, Bursts!Next
  <1>5. CASE ~Refused(request) /\ offer # None /\ Store(request.addr, offer)
             /\ beats' = 1 /\ state' = AfterBeat(request.len)
    <2>1. state' = IF request.len = 0 THEN "WRITE_ACK" ELSE "WRITE"
      BY <1>2, <1>5 DEF AfterBeat
    <2>2. offer.data \in Data /\ offer.strobe \in BOOLEAN
      BY <1>5 DEF Offer
    <2>3. memory' = Bursts!Written(request, 0, offer.data, offer.strobe)
      <3>1. 0 \in 0 .. request.len
        BY <1>2
      <3>2. Bursts!AddressOf(request, 0) = request.addr
        BY <1>5, <3>1, RightAddress
      <3> QED BY <1>5, <3>2 DEF Bursts!Written, Store
    <2>4. Bursts!BeginWriting(request, offer.data, offer.strobe)
      <3>1. Burst = None /\ Burst' = Running("write", req', 1)
        BY <1>1, <1>5, <2>1, BurstSpelt DEF Burst
      <3>2. Running("write", req', 1) = Bursts!Job("write", request, 1)
        BY <1>1, <1>5 DEF Running, No, Bursts!Job, Refused
      <3>3. ~Burst'.refused
        BY <3>1, SpeltFields
      <3> QED BY <1>1, <2>3, <3>1, <3>2, <3>3 DEF Bursts!BeginWriting, Burst, BurstOf
    <2>5. Asked'
      BY <1>1, <1>5, <2>1 DEF Asked
    <2>6. [Bursts!Next]_(Bursts!vars)
      BY <2>2, <2>4 DEF Bursts!Next
    <2> QED BY <1>1, <1>2, <1>5, <2>1, <2>5, <2>6 DEF BurstInv
  <1> QED BY <1>3, <1>4, <1>5 DEF AcceptWrite

(* Writing.                                                                 *)
LEMMA WriteBurst ==
    ASSUME Countable, WrapsRight, BurstInv, ReadInv', NEW stall \in BOOLEAN, NEW offer \in Offer,
           Write(stall, offer)
    PROVE  BurstInv' /\ [Bursts!Next]_(Bursts!vars)
  <1>1. /\ state \in {"WAIT_WVALID", "WRITE"} /\ req' = req /\ tmpAddr' = tmpAddr /\ answer' = answer
    BY DEF Write, FirstBeat, NextBeat
  <1>2. PICK request \in Request : req = Latched(request) /\ ~Refused(request)
    BY <1>1 DEF BurstInv, Asked
  <1>3. request.len \in Nat /\ req.len = request.len /\ req.len + 1 < Lengths
    BY <1>2, RequestLen DEF Latched
  <1>4. CASE UNCHANGED <<state, tmpLen, beats, memory>>
    <2>1. Asked'
      BY <1>1, <1>2, <1>4 DEF Asked
    <2> QED BY <1>1, <1>4, <2>1 DEF BurstInv, Bursts!vars
  <1>5. ASSUME offer # None, Store(NewAddr(req, beats), offer), beats' = beats + 1,
               state' = AfterBeat(req.len), tmpLen' = beats', beats \in 0 .. req.len
        PROVE  BurstInv' /\ [Bursts!Next]_(Bursts!vars)
    <2>1. state' = IF beats = req.len THEN "WRITE_ACK" ELSE "WRITE"
      BY <1>3, <1>5 DEF AfterBeat
    <2>2. offer.data \in Data /\ offer.strobe \in BOOLEAN
      BY <1>5 DEF Offer
    <2>3. NewAddr(req, beats) = Bursts!AddressOf(req, beats)
      BY <1>2, <1>3, <1>5, RightAddress
    <2>4. Burst = Running("write", req, beats) /\ Burst' = Running("write", req, beats + 1)
      BY <1>1, <1>5, <2>1, BurstSpelt DEF Burst
    <2>5. /\ Burst' = [Burst EXCEPT !.beats = @ + 1] /\ Burst.beats <= Burst.len
          /\ Burst.kind = "write" /\ ~Burst.refused /\ Burst.beats = beats
          /\ Bursts!AddressOf(Burst, beats) = NewAddr(req, beats)
      BY <1>3, <1>5, <2>3, <2>4, SpeltFields
    <2>6. Bursts!WriteBeat(offer.data, offer.strobe)
      <3>1. memory' = Bursts!Written(Burst, Burst.beats, offer.data, offer.strobe)
        BY <1>5, <2>5 DEF Bursts!Written, Store
      <3> QED BY <1>1, <2>5, <3>1, UnderWay DEF Bursts!WriteBeat, Burst, BurstOf
    <2>7. [Bursts!Next]_(Bursts!vars)
      BY <2>2, <2>6 DEF Bursts!Next
    <2>8. Asked'
      BY <1>1, <1>2, <2>1 DEF Asked
    <2> QED BY <1>1, <1>3, <1>5, <2>1, <2>7, <2>8 DEF BurstInv
  <1>6. CASE FirstBeat(stall, offer)
    <2>1. CASE ~stall /\ offer # None
      <3>1. NewAddr(req, 0) = req.addr
        <4>1. 0 \in 0 .. request.len
          BY <1>3
        <4> QED BY <1>2, <4>1, RightAddress DEF Latched
      <3>2. beats = 0 /\ tmpLen = 1
        BY <1>6 DEF FirstBeat, BurstInv
      <3> QED BY <1>3, <1>5, <1>6, <2>1, <3>1, <3>2 DEF FirstBeat
    <2>2. CASE ~(~stall /\ offer # None)
      BY <1>4, <1>6, <2>2 DEF FirstBeat, NoAccess
    <2> QED BY <2>1, <2>2
  <1>7. CASE NextBeat(stall, offer)
    <2>1. CASE ~stall /\ offer # None
      <3>1. tmpLen = beats /\ beats \in 1 .. req.len
        BY <1>3, <1>7 DEF NextBeat, BurstInv, ReadInv, Counters
      <3>2. (tmpLen + 1) % Lengths = beats + 1
        BY <1>3, <3>1, BridgeAssumption, CountsOn
      <3> QED BY <1>3, <1>5, <1>7, <2>1, <3>1, <3>2 DEF NextBeat
    <2>2. CASE ~(~stall /\ offer # None)
      BY <1>4, <1>7, <2>2 DEF NextBeat, NoAccess
    <2> QED BY <2>1, <2>2
  <1> QED BY <1>6, <1>7 DEF Write

(* Reading.                                                                 *)
LEMMA ReadBurst ==
    ASSUME OneWaits, Countable, WrapsRight, BurstInv, ReadInv',
           NEW stall \in BOOLEAN, NEW ready \in BOOLEAN, Read(stall, ready), UNCHANGED waits
    PROVE  BurstInv' /\ [Bursts!Next]_(Bursts!vars)
  <1>1. /\ state = "READ" /\ req' = req /\ memory' = memory
        /\ tmpLen = beats + (IF memEn THEN 1 ELSE 0) /\ tmpLen <= req.len + 1
        /\ memEn => rdata = memory[tmpAddr] /\ tmpAddr = Bursts!AddressOf(req, beats)
        /\ beats \in Nat /\ tmpLen \in Nat /\ beats <= req.len
    BY DEF Read, ReadReady, ReadHeld, registers, NoAccess, Fetch, BurstInv, ReadInv, Reading, Counters
  <1>2. PICK request \in Request : req = Latched(request) /\ ~Refused(request)
    BY <1>1 DEF BurstInv, Asked
  <1>3. request.len \in Nat /\ req.len = request.len /\ req.len + 1 < Lengths
    BY <1>2, RequestLen DEF Latched
  <1>4. CASE ready /\ ReadReady(stall)
    <2>1. CASE memEn
      <3>1. /\ beats' = beats + 1 /\ tmpLen = beats + 1 /\ tmpAddr' = NewAddr(req, tmpLen)
            /\ answer' = [resp |-> "OKAY", data |-> memory[Bursts!AddressOf(req, beats)],
                          last |-> beats = req.len]
        BY <1>1, <1>3, <1>4, <2>1 DEF ReadReady, Taken, rValid, rLast
      <3>2. IF beats = req.len THEN state' = "IDLE" ELSE state' = "READ"
        BY <1>1, <1>3, <1>4, <3>1 DEF ReadReady, rLast
      <3>3. Burst = Running("read", req, beats)
        BY <1>1, BurstSpelt DEF Burst
      <3>4. Burst' = IF beats = req.len THEN None ELSE Running("read", req, beats + 1)
        BY <1>1, <3>1, <3>2, BurstSpelt DEF Burst
      <3>5. Bursts!ReadBeat
        <4>1. /\ Burst.kind = "read" /\ ~Burst.refused /\ Burst.beats = beats /\ Burst.len = req.len
              /\ [Burst EXCEPT !.beats = @ + 1] = Running("read", req, beats + 1)
              /\ Bursts!AddressOf(Burst, beats) = Bursts!AddressOf(req, beats)
          BY <3>3, SpeltFields
        <4>2. Burst' = IF Burst.beats = Burst.len THEN None ELSE [Burst EXCEPT !.beats = @ + 1]
          BY <3>4, <4>1
        <4>3. answer' = [resp |-> "OKAY", data |-> memory[Bursts!AddressOf(Burst, Burst.beats)],
                         last |-> Burst.beats = Burst.len]
          BY <3>1, <4>1
        <4> QED BY <1>1, <4>1, <4>2, <4>3, UnderWay DEF Bursts!ReadBeat, Burst, BurstOf
      <3>6. state' = "READ" => Asked' /\ beats' <= req'.len /\ tmpAddr' = Bursts!AddressOf(req', beats')
        <4> SUFFICES ASSUME state' = "READ"
                     PROVE  Asked' /\ beats' <= req'.len /\ tmpAddr' = Bursts!AddressOf(req', beats')
          OBVIOUS
        <4>1. beats + 1 \in 0 .. request.len
          BY <1>1, <1>3, <3>2
        <4>2. NewAddr(req, beats + 1) = Bursts!AddressOf(req, beats + 1)
          BY <1>2, <4>1, RightAddress
        <4> QED BY <1>1, <1>2, <1>3, <3>1, <4>1, <4>2 DEF Asked
      <3> QED BY <1>1, <3>2, <3>5, <3>6 DEF BurstInv, Bursts!Next
    <2>2. CASE ~memEn
      <3>1. /\ beats' = beats /\ answer' = answer /\ tmpLen = beats /\ tmpAddr' = NewAddr(req, beats)
            /\ state' = "READ"
        BY <1>1, <1>3, <1>4, <2>2 DEF ReadReady, Taken, rValid, rLast
      <3>2. Asked'
        BY <1>1, <1>2, <3>1 DEF Asked
      <3>3. beats \in 0 .. request.len
        BY <1>1, <1>3
      <3>4. NewAddr(req, beats) = Bursts!AddressOf(req, beats)
        BY <1>2, <3>3, RightAddress
      <3> QED BY <1>1, <3>1, <3>2, <3>4 DEF BurstInv, Bursts!vars
    <2> QED BY <2>1, <2>2
  <1>5. CASE ~ready /\ ReadHeld(stall)
    <2>1. memEn /\ UNCHANGED <<state, tmpAddr, tmpLen, beats, answer>>
      BY <1>1, <1>5 DEF Read, ReadHeld, registers, BurstInv, ReadInv, Reading
    <2>2. Asked'
      BY <1>1, <1>2, <2>1 DEF Asked
    <2> QED BY <1>1, <2>1, <2>2 DEF BurstInv, Bursts!vars
  <1> QED BY <1>4, <1>5 DEF Read

(* The answers that are not read data.                                      *)
LEMMA AnswerBurst ==
    ASSUME Countable, BurstInv, ReadInv', NEW ready \in BOOLEAN, Answer(ready)
    PROVE  BurstInv' /\ [Bursts!Next]_(Bursts!vars)
  <1>1. /\ state \in {"WRITE_ACK", "WRITE_ABORT", "READ_ABORT"}
        /\ req' = req /\ memory' = memory /\ beats' = beats /\ tmpLen' = tmpLen
    BY DEF Answer, Respond, NoAccess
  <1>2. CASE ready
    <2>1. state' = "IDLE" /\ answer' = [resp |-> IF state = "WRITE_ACK" THEN "OKAY" ELSE "SLVERR"]
      BY <1>1, <1>2 DEF Answer, Respond
    <2>2. /\ state = "WRITE_ACK" => Burst = Running("write", req, beats)
          /\ state # "WRITE_ACK" => \E kind : Burst = Turned(kind, req, beats)
      BY <1>1, BurstSpelt DEF Burst
    <2>3. /\ state # "WRITE_ACK" => Burst.refused
          /\ state = "WRITE_ACK" => /\ ~Burst.refused /\ Burst.kind = "write"
                                    /\ Burst.beats = Burst.len + 1
      BY <2>2, SpeltFields DEF BurstInv
    <2>4. Burst # None /\ Burst' = None
      BY <1>1, <2>1, UnderWay, BurstSpelt DEF Burst
    <2>5. CASE state = "WRITE_ACK"
      <3>1. Bursts!Acknowledge
        BY <1>1, <2>1, <2>3, <2>4, <2>5 DEF Bursts!Acknowledge, Burst, BurstOf
      <3> QED BY <2>1, <3>1 DEF BurstInv, Bursts!Next
    <2>6. CASE state # "WRITE_ACK"
      <3>1. Bursts!Refuse
        BY <1>1, <2>1, <2>3, <2>4, <2>6 DEF Bursts!Refuse, Burst, BurstOf
      <3> QED BY <2>1, <3>1 DEF BurstInv, Bursts!Next
    <2> QED BY <2>5, <2>6
  <1>3. CASE ~ready
    <2>1. state' = state /\ answer' = answer
      BY <1>3 DEF Answer, Respond
    <2>2. Asked'
      BY <1>1, <2>1 DEF Asked, BurstInv
    <2> QED BY <1>1, <2>1, <2>2 DEF BurstInv, Bursts!vars
  <1> QED BY <1>2, <1>3

(* Every step keeps the invariant and is a step of the abstract memory.     *)
LEMMA BurstStep ==
    ASSUME OneWaits, Countable, WrapsRight, BurstInv, [Next]_vars
    PROVE  BurstInv' /\ [Bursts!Next]_(Bursts!vars)
  <1>1. ReadInv'
    BY NextReadInv DEF BurstInv
  <1>2. CASE NoRequest
    BY <1>1, <1>2 DEF NoRequest, NoAccess, BurstInv, Bursts!vars
  <1>3. ASSUME NEW request \in Request, NEW stall \in BOOLEAN, Accept(request, stall)
        PROVE  BurstInv' /\ [Bursts!Next]_(Bursts!vars)
    BY <1>1, <1>3, AcceptReadBurst, AcceptWriteBurst DEF Accept
  <1>4. ASSUME NEW stall \in BOOLEAN, NEW offer \in Offer, Write(stall, offer)
        PROVE  BurstInv' /\ [Bursts!Next]_(Bursts!vars)
    BY <1>1, <1>4, WriteBurst
  <1>5. ASSUME NEW stall \in BOOLEAN, NEW ready \in BOOLEAN, Read(stall, ready), UNCHANGED waits
        PROVE  BurstInv' /\ [Bursts!Next]_(Bursts!vars)
    BY <1>1, <1>5, ReadBurst
  <1>6. ASSUME NEW ready \in BOOLEAN, Answer(ready)
        PROVE  BurstInv' /\ [Bursts!Next]_(Bursts!vars)
    BY <1>1, <1>6, AnswerBurst
  <1>7. CASE Reset
    BY <1>1, <1>7 DEF Reset, BurstInv, Bursts!Next, Bursts!Reset
  <1>8. CASE UNCHANGED vars
    BY <1>1, <1>8 DEF vars, registers, memoryVars, BurstInv, Asked, Bursts!vars
  <1> QED BY <1>2, <1>3, <1>4, <1>5, <1>6, <1>7, <1>8 DEF Next, Edge

(* The bridge carries out one burst after the other, each beat at the       *)
(* address its type asks for: for a memory and bursts of any size, where    *)
(* reads lose no beat and get_new_addr is right.                            *)
THEOREM BridgeIsBurstMemory ==
    ASSUME OneWaits, Countable, WrapsRight
    PROVE  Spec => BurstSpec
  <1>1. Init => BurstInv /\ Bursts!Init
    BY InitReadInv DEF Init, BurstInv, Bursts!Init
  <1>2. BurstInv /\ [Next]_vars => BurstInv' /\ [Bursts!Next]_(Bursts!vars)
    BY BurstStep
  <1> QED BY <1>1, <1>2, PTL DEF Spec, BurstSpec, Bursts!Spec
=============================================================================
