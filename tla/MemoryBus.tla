------------------------------ MODULE MemoryBus ------------------------------
(* The way of a request of a register file or of a MemoryAccess to a memory  *)
(* and of its answer back (biset/__init__.py, bimem.py, choc/items.py):      *)
(*                                                                           *)
(*   Regfile >> BiSetOffset >> BiSetToMemory >> Multiplexer >> target        *)
(*   MemoryAccess (RequestInput >> OutPort) >> Multiplexer                   *)
(*                                                                           *)
(* The target is a Memory, or a device behind MemoryToBitsReq and            *)
(* BitsReqToInterface.  Every item is a task that takes a request, makes     *)
(* another of it, and hands that on; a gate lets pushers in first come, first*)
(* served.  So the converters of a row are one queue, and what they do to a  *)
(* request is one step, as are the callbacks that bring its answer back.     *)
(* A task waits for its request: the request is named by the task.           *)
EXTENDS BilibFn, Sequences, SequencesExt

CONSTANTS
    Users,      \* tasks that use the register file
    Posts,      \* tasks of MemoryAccess (RequestInput.process)
    Offset,     \* BiSetOffset.offset
    Address,    \* addresses of the memory
    Width,      \* bits of a word (dataWidth)
    AddrWidth,  \* bits of an address (addrWith)
    Loaded,     \* the words written before the run (Memory.write), None for the rest
    X,          \* a word with a bit that is neither 0 nor 1
    None

Tasks == Users \cup Posts
Items == {"regfile", "access", "memory", "interface", "device"}

(* A request: as it was made, as bits, and with its result.                  *)
Requests ==
    [at : Items, addr : Int, write : BOOLEAN, data : Int \cup {None}]
    \cup [at : Items, data : Int]
    \cup [at : {"back", "done"}, result : Int \cup {X, None}]

ASSUME BusAssumption ==
    /\ Users \cap Posts = {}
    /\ Offset \in Nat /\ Width \in Nat /\ AddrWidth \in Nat
    /\ Address \subseteq 0 .. 2 ^ AddrWidth - 1
    /\ X \notin Int /\ None \notin Int
    /\ None \notin Users /\ None \notin Requests
    /\ Loaded \in [Address -> Nat \cup {None}]

VARIABLES
    target,     \* "memory" or "device"
    flight,     \* the request of a task, None when it has none
    line,       \* the requests that wait for an item, by their tasks
    queue,      \* BitsReqToInterface.queue
    replies,    \* what the device answered and was not received yet
    mem         \* Memory.mem, or the words of the device

busVars == <<target, flight, line, queue, replies, mem>>

BusInit ==
    /\ target \in {"memory", "device"}
    /\ flight = [t \in Tasks |-> None]
    /\ line = [i \in Items |-> <<>>]
    /\ queue = <<>> /\ replies = <<>>
    /\ mem = [a \in Address |->
          IF Loaded[a] # None THEN Loaded[a] ELSE IF target = "memory" THEN 0 ELSE X]

(* BiSetRequest or MemoryRequest: made, and sent to the first item.          *)
Sent(t, item, addr, write, data) ==
    /\ flight' = [flight EXCEPT ![t] = [at |-> item, addr |-> addr, write |-> write, data |-> data]]
    /\ line' = [line EXCEPT ![item] = Append(@, t)]

(* The request t of an item goes to the next one, and becomes f.             *)
Handed(t, item, next, f) ==
    /\ flight' = [flight EXCEPT ![t] = [f EXCEPT !.at = next]]
    /\ line' = [line EXCEPT ![item] = Tail(@), ![next] = Append(@, t)]

(* Request.commit: sets the result, and submits the callback of the converter*)
(* that made the request as a task of its own; a request no converter made   *)
(* is done.                                                                  *)
Committed(t, result, converted) ==
    flight' = [flight EXCEPT ![t] =
        [at |-> IF converted THEN "back" ELSE "done", result |-> result]]

----------------------------------------------------------------------------
(* BiSetOffset.convert.                                                      *)
AddOffset(f) == [f EXCEPT !.addr = @ + Offset]

(* Mutant: the address before the data.                                      *)
PackedAddrFirst(f) ==
    LET addr == add(Packer(0), f.addr, AddrWidth)
        data == add(addr, IF f.write THEN f.data ELSE 0, Width) IN
    add(data, IF f.write THEN 1 ELSE 0, 1).val

(* MemoryToBitsReq.convert without a mask: data, address and direction from  *)
(* the low end.                                                              *)
Packed(f) ==
    LET data == add(Packer(0), IF f.write THEN f.data ELSE 0, Width)
        addr == add(data, f.addr, AddrWidth) IN
    add(addr, IF f.write THEN 1 ELSE 0, 1).val

(* BiSetOffset, BiSetToMemory and OutPort up to the Multiplexer, which takes *)
(* from either side, and the converter to bits.                              *)
Multiplex(item) ==
    /\ line[item] # <<>>
    /\ LET t == Head(line[item])
           f == IF item = "regfile" THEN AddOffset(flight[t]) ELSE flight[t] IN
       IF target = "memory"
       THEN Handed(t, item, "memory", f)
       ELSE Handed(t, item, "interface", [at |-> item, data |-> Packed(f)])
    /\ UNCHANGED <<target, queue, replies, mem>>

(* Memory.run.                                                               *)
MemoryRun ==
    /\ line["memory"] # <<>>
    /\ LET t == Head(line["memory"])
           f == flight[t] IN
       /\ mem' = IF f.write THEN [mem EXCEPT ![f.addr] = f.data] ELSE mem
       /\ Committed(t, IF f.write THEN 0 ELSE mem[f.addr], t \in Users)
       /\ line' = [line EXCEPT !["memory"] = Tail(@)]
    /\ UNCHANGED <<target, queue, replies>>

(* BitsReqToInterface.send: the request is queued before its bits leave.     *)
InterfaceSend ==
    /\ line["interface"] # <<>>
    /\ LET t == Head(line["interface"]) IN
       /\ queue' = Append(queue, t)
       /\ Handed(t, "interface", "device", flight[t])
    /\ UNCHANGED <<target, replies, mem>>

(* The device behind the interface: unpacks the bits, and answers every      *)
(* request, in order.                                                        *)
Device ==
    /\ line["device"] # <<>>
    /\ LET bits == Packer(flight[Head(line["device"])].data)
           data == get(bits, Width)
           addr == get(after(bits, Width), AddrWidth)
           write == get(after(after(bits, Width), AddrWidth), 1) = 1 IN
       /\ mem' = IF write /\ addr \in Address THEN [mem EXCEPT ![addr] = data] ELSE mem
       /\ replies' = Append(replies, IF write \/ addr \notin Address THEN 0 ELSE mem[addr])
       /\ line' = [line EXCEPT !["device"] = Tail(@)]
    /\ UNCHANGED <<target, flight, queue>>

(* BitsReqToInterface.receive: an answer is that of the oldest request.      *)
InterfaceReceive ==
    /\ replies # <<>> /\ queue # <<>>
    /\ Committed(Head(queue), Head(replies), TRUE)
    /\ queue' = Tail(queue) /\ replies' = Tail(replies)
    /\ UNCHANGED <<target, line, mem>>

(* The commits of MemoryToBitsReq, for which a word that is not pure becomes *)
(* None, of BiSetToMemory and of BiSetOffset.                                *)
CallBack(t) ==
    /\ flight[t] # None /\ flight[t].at = "back"
    /\ Committed(t, IF flight[t].result = X THEN None ELSE flight[t].result, FALSE)
    /\ UNCHANGED <<target, line, queue, replies, mem>>

BusStep ==
    \/ Multiplex("regfile") \/ Multiplex("access")
    \/ MemoryRun
    \/ InterfaceSend \/ Device \/ InterfaceReceive
    \/ \E t \in Tasks : CallBack(t)

(* Request.wait returns: the task goes on with the result.                   *)
Answered(t) == flight[t] # None /\ flight[t].at = "done"
=============================================================================
