--------------------------- MODULE Axi4MemBridge ---------------------------
(* axi/axi4_mem_bridge.sv: an AXI4 slave in front of a memory that answers  *)
(* a cycle after its address and may stall.  One action is one clock edge   *)
(* in one state of the bridge, with the inputs of that cycle as parameters. *)
(*                                                                          *)
(* Addresses count words.  Identifiers, which the bridge hands back, and    *)
(* the error counter are left out, as is r_mem_rdata, which is only driven  *)
(* while r_valid is low.                                                    *)
EXTENDS Integers

CONSTANTS
    Size,           \* number of words that can be addressed, a power of two
    Lengths,        \* values a burst length can have, 256 in AXI
    Request,        \* bursts the master asks for: [addr, len, burst, narrow]
    Data,           \* the values of a word
    Waiters,        \* who may make the other wait during a read, see waits
    None

BurstType == {"FIXED", "INCR", "WRAP"}
AnyRequest ==
    [addr : 0 .. Size - 1, len : 0 .. Lengths - 1, burst : BurstType, narrow : BOOLEAN]

ASSUME BridgeAssumption ==
    /\ Size \in Nat \ {0} /\ Lengths \in Nat \ {0, 1}
    /\ Request \subseteq AnyRequest
    /\ Waiters \subseteq SUBSET {"master", "memory"}
    /\ None \notin [data : Data, strobe : BOOLEAN]
    /\ None \notin [kind : {"read", "write"}, addr : 0 .. Size - 1, len : 0 .. Lengths - 1,
                   burst : BurstType, refused : BOOLEAN, beats : 0 .. Lengths]

(* The master and the memory do not both make the other wait in one read.   *)
OneWaits == \A who \in Waiters : ~{"master", "memory"} \subseteq who

(* A burst is shorter than the longest one, which r_tmp_len cannot count.   *)
Countable == \A request \in Request : request.len + 1 < Lengths

VARIABLES
    state,
    req,            \* r_axi_req_addr, r_axi_req_len, r_axi_req_burst
    tmpAddr,        \* address of the beat on offer
    tmpLen,         \* beats asked of the memory, modulo Lengths
    memEn,          \* the memory was enabled in the last cycle
    memory,         \* contents of the memory behind the bridge
    rdata,          \* its output register
    waits,          \* who makes the other wait during reads: a master that is
                    \* not always ready, a memory that may stall; never changes
    beats,          \* history: beats of this burst the master gave or took
    answer          \* history: the last answer the master took

registers == <<state, req, tmpAddr, tmpLen>>
memoryVars == <<memEn, memory, rdata>>
vars == <<registers, memoryVars, waits, beats, answer>>

Init ==
    /\ state = "IDLE"
    /\ req = [addr |-> 0, len |-> 0, burst |-> "FIXED"]
    /\ tmpAddr = 0 /\ tmpLen = 0
    /\ memEn = FALSE /\ memory \in [0 .. Size - 1 -> Data] /\ rdata \in Data
    /\ waits \in Waiters /\ beats = 0 /\ answer = None

----------------------------------------------------------------------------
(* Addresses.                                                               *)

(* get_wrap_boundary; the slices for lengths 7 and 15 as they are written.  *)
WrapBoundary(addr, len) ==
    CASE len = 1  -> (addr \div 2) * 2
      [] len = 3  -> (addr \div 4) * 4
      [] len = 7  -> ((addr % (Size \div 4)) \div 4) * 8
      [] len = 15 -> ((addr % (Size \div 4)) \div 16) * 16
      [] OTHER    -> 0

(* Mutant: an incrementing burst starts over at the boundary.               *)
NewAddrWraps(r, n) ==
    (r.addr \div (r.len + 1)) * (r.len + 1) + ((r.addr + n) % (r.len + 1))

(* get_new_addr.                                                            *)
NewAddr(r, n) ==
    LET cons     == (r.addr + n) % Size
        boundary == WrapBoundary(r.addr, r.len)
        upper    == (boundary + r.len + 1) % Size
    IN  CASE r.burst = "INCR" -> cons
          [] r.burst = "WRAP" /\ cons = upper -> boundary
          [] r.burst = "WRAP" /\ cons > upper -> (r.addr + n - r.len) % Size
          [] r.burst = "WRAP" /\ cons < upper -> cons
          [] OTHER -> r.addr

----------------------------------------------------------------------------
(* The memory interface.                                                    *)

NoAccess == memEn' = FALSE /\ UNCHANGED <<memory, rdata>>

(* What the master has on offer on the write data channel.                  *)
Offer == [data : Data, strobe : BOOLEAN] \cup {None}

Fetch(addr) == memEn' = TRUE /\ rdata' = memory[addr] /\ UNCHANGED memory

Store(addr, beat) ==
    /\ memEn' = TRUE
    /\ rdata' = memory[addr]
    /\ memory' = IF beat.strobe THEN [memory EXCEPT ![addr] = beat.data] ELSE memory

----------------------------------------------------------------------------
(* Idle.                                                                    *)

Latch(request) == req' = [addr |-> request.addr, len |-> request.len, burst |-> request.burst]

Refused(request) == request.narrow /\ request.len # 0

NoRequest ==
    /\ state = "IDLE"
    /\ tmpLen' = 1
    /\ NoAccess
    /\ UNCHANGED <<state, req, tmpAddr, beats, answer>>

(* A read goes before a write.                                              *)
AcceptRead(request, stall) ==
    /\ state = "IDLE"
    /\ Latch(request) /\ tmpAddr' = request.addr /\ tmpLen' = 1
    /\ \/ stall /\ UNCHANGED state /\ NoAccess
       \/ ~stall /\ Refused(request) /\ state' = "READ_ABORT" /\ NoAccess
       \/ ~stall /\ ~Refused(request) /\ state' = "READ" /\ Fetch(request.addr)
    /\ beats' = 0
    /\ UNCHANGED answer

(* A beat of write data; the master marks the last one.                     *)
AfterBeat(len) == IF beats' = len + 1 THEN "WRITE_ACK" ELSE "WRITE"

AcceptWrite(request, stall, offer) ==
    /\ state = "IDLE"
    /\ Latch(request) /\ tmpLen' = 1
    /\ \/ Refused(request) /\ state' = "WRITE_ABORT" /\ NoAccess /\ beats' = 0
       \/ /\ ~Refused(request) /\ (stall \/ offer = None)
          /\ state' = "WAIT_WVALID" /\ NoAccess /\ beats' = 0
       \/ /\ ~Refused(request) /\ ~stall /\ offer # None
          /\ Store(request.addr, offer)
          /\ beats' = 1 /\ state' = AfterBeat(request.len)
    /\ UNCHANGED <<tmpAddr, answer>>

----------------------------------------------------------------------------
(* Writing.                                                                 *)

(* Mutant: the first beat is taken while the memory stalls.                 *)
FirstBeatStalled(stall, offer) ==
    /\ state = "WAIT_WVALID"
    /\ \/ /\ stall /\ offer # None
          /\ Store(req.addr, offer)
          /\ beats' = 1 /\ state' = AfterBeat(req.len)
       \/ (~stall \/ offer = None) /\ NoAccess /\ UNCHANGED <<state, beats>>
    /\ UNCHANGED <<req, tmpAddr, tmpLen, answer>>

(* The first beat, when it could not be taken with the address.             *)
FirstBeat(stall, offer) ==
    /\ state = "WAIT_WVALID"
    /\ \/ /\ ~stall /\ offer # None
          /\ Store(req.addr, offer)
          /\ beats' = 1 /\ state' = AfterBeat(req.len)
       \/ (stall \/ offer = None) /\ NoAccess /\ UNCHANGED <<state, beats>>
    /\ UNCHANGED <<req, tmpAddr, tmpLen, answer>>

NextBeat(stall, offer) ==
    /\ state = "WRITE"
    /\ \/ /\ ~stall /\ offer # None
          /\ Store(NewAddr(req, tmpLen), offer)
          /\ tmpLen' = (tmpLen + 1) % Lengths
          /\ beats' = beats + 1 /\ state' = AfterBeat(req.len)
       \/ (stall \/ offer = None) /\ NoAccess /\ UNCHANGED <<state, tmpLen, beats>>
    /\ UNCHANGED <<req, tmpAddr, answer>>

(* An answer the master takes when ready.                                   *)
Respond(from, ready, response) ==
    /\ state = from
    /\ IF ready THEN state' = "IDLE" /\ answer' = [resp |-> response] ELSE UNCHANGED <<state, answer>>
    /\ NoAccess
    /\ UNCHANGED <<req, tmpAddr, tmpLen, beats>>

----------------------------------------------------------------------------
(* Reading.                                                                 *)

rValid == state = "READ" /\ memEn
rLast  == tmpLen = req.len + 1

(* The beat goes to the master, if there is one.                            *)
Taken ==
    IF rValid
    THEN beats' = beats + 1 /\ answer' = [resp |-> "OKAY", data |-> rdata, last |-> rLast]
    ELSE UNCHANGED <<beats, answer>>

(* Mutant: a beat is counted although the memory stalls.                    *)
ReadReadyCounts(stall) ==
    /\ state = "READ"
    /\ tmpAddr' = NewAddr(req, tmpLen)
    /\ \/ rLast /\ state' = "IDLE" /\ NoAccess /\ UNCHANGED tmpLen
       \/ /\ ~rLast /\ (IF stall THEN NoAccess ELSE Fetch(NewAddr(req, tmpLen)))
          /\ tmpLen' = (tmpLen + 1) % Lengths
          /\ UNCHANGED state
    /\ Taken
    /\ UNCHANGED req

(* The master is ready: it takes the beat on offer, and the bridge goes on  *)
(* to the next address, whether there was a beat or not.                    *)
ReadReady(stall) ==
    /\ state = "READ"
    /\ tmpAddr' = NewAddr(req, tmpLen)
    /\ \/ rLast /\ state' = "IDLE" /\ NoAccess /\ UNCHANGED tmpLen
       \/ /\ ~rLast /\ ~stall
          /\ Fetch(NewAddr(req, tmpLen)) /\ tmpLen' = (tmpLen + 1) % Lengths
          /\ UNCHANGED state
       \/ ~rLast /\ stall /\ NoAccess /\ UNCHANGED <<state, tmpLen>>
    /\ Taken
    /\ UNCHANGED req

(* Mutant: a beat that waits is not fetched again.                          *)
ReadHeldIdle(stall) ==
    /\ state = "READ"
    /\ NoAccess
    /\ UNCHANGED <<registers, beats, answer>>

(* The master is not ready: the same word is fetched again.                 *)
ReadHeld(stall) ==
    /\ state = "READ"
    /\ IF stall THEN NoAccess ELSE Fetch(tmpAddr)
    /\ UNCHANGED <<registers, beats, answer>>

----------------------------------------------------------------------------

Reset ==
    /\ state' = "IDLE"
    /\ req' = [addr |-> 0, len |-> 0, burst |-> "FIXED"]
    /\ tmpAddr' = 0 /\ tmpLen' = 0 /\ memEn' = FALSE /\ beats' = 0
    /\ UNCHANGED <<memory, rdata, answer>>

Accept(request, stall) ==
    AcceptRead(request, stall) \/ \E offer \in Offer : AcceptWrite(request, stall, offer)

Write(stall, offer) == FirstBeat(stall, offer) \/ NextBeat(stall, offer)

Read(stall, ready) ==
    /\ stall => "memory" \in waits
    /\ ~ready => "master" \in waits
    /\ (ready /\ ReadReady(stall)) \/ (~ready /\ ReadHeld(stall))

Answer(ready) ==
    \/ Respond("WRITE_ACK", ready, "OKAY")
    \/ Respond("WRITE_ABORT", ready, "SLVERR")
    \/ Respond("READ_ABORT", ready, "SLVERR")

Edge ==
    \/ NoRequest
    \/ \E request \in Request, stall \in BOOLEAN : Accept(request, stall)
    \/ \E stall \in BOOLEAN, offer \in Offer : Write(stall, offer)
    \/ \E stall, ready \in BOOLEAN : Read(stall, ready)
    \/ \E ready \in BOOLEAN : Answer(ready)

Next == (Edge \/ Reset) /\ UNCHANGED waits

Spec == Init /\ [][Next]_vars

(* The clock runs, and now and then neither the memory nor the master       *)
(* makes the bridge wait.                                                   *)
Unhindered ==
    /\ (\E offer \in Offer \ {None} : Write(FALSE, offer)) \/ Read(FALSE, TRUE) \/ Answer(TRUE)
    /\ UNCHANGED waits
FairSpec == Spec /\ WF_vars(Unhindered)

----------------------------------------------------------------------------

(* Every beat asked of the memory was taken by the master or is on offer:   *)
(* "send data only when rdata is available, otherwise take registered data" *)
(* (axi4_mem_bridge.sv:360).                                                *)
NoBeatLost == state = "READ" => tmpLen = beats + (IF rValid THEN 1 ELSE 0)

(* A beat on offer stays as it is until the master takes it.                *)
OfferStands == [][
    rValid /\ beats' = beats /\ state' = "READ" =>
        rValid' /\ rdata' = rdata /\ tmpLen' = tmpLen]_vars

(* The bridge implements the memory that carries out bursts.                *)
Bursts == INSTANCE BurstMemory WITH
    job <- IF state = "IDLE" THEN None ELSE
        [kind |-> IF state \in {"READ", "READ_ABORT"} THEN "read" ELSE "write",
         addr |-> req.addr, len |-> req.len, burst |-> req.burst,
         refused |-> state \in {"READ_ABORT", "WRITE_ABORT"}, beats |-> beats]
BurstSpec == Bursts!Spec

(* Every burst ends.                                                        *)
BurstEnds == state # "IDLE" ~> state = "IDLE"
=============================================================================
