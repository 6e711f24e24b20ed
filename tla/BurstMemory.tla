---------------------------- MODULE BurstMemory ----------------------------
(* What axi/axi4_mem_bridge.sv promises to an AXI master: a memory that     *)
(* carries out one burst after the other, every beat at the address the     *)
(* burst type asks for.                                                     *)
EXTENDS Integers

CONSTANTS
    Size,       \* number of words of the memory
    Request,    \* the bursts a master asks for: [addr, len, burst, narrow]
    Data,       \* the values of a word
    None        \* no burst under way; no answer yet

VARIABLES
    memory,     \* the words
    job,        \* the burst under way
    answer      \* the last answer to the master

vars == <<memory, job, answer>>

(* The address of a beat; all beats are as wide as a word.                  *)
AddressOf(burst, beat) ==
    CASE burst.burst = "INCR" -> (burst.addr + beat) % Size
      [] burst.burst = "WRAP" ->
            (burst.addr \div (burst.len + 1)) * (burst.len + 1)
                + ((burst.addr + beat) % (burst.len + 1))
      [] OTHER -> burst.addr

Job(kind, request, beats) ==
    [kind |-> kind, addr |-> request.addr, len |-> request.len, burst |-> request.burst,
     refused |-> request.narrow /\ request.len # 0, beats |-> beats]

Written(burst, beat, d, strobe) ==
    IF strobe THEN [memory EXCEPT ![AddressOf(burst, beat)] = d] ELSE memory

Init == memory \in [0 .. Size - 1 -> Data] /\ job = None /\ answer = None

Begin(kind, request) ==
    /\ job = None
    /\ job' = Job(kind, request, 0)
    /\ UNCHANGED <<memory, answer>>

(* Data may come together with the address.                                 *)
BeginWriting(request, d, strobe) ==
    /\ job = None
    /\ job' = Job("write", request, 1)
    /\ ~job'.refused
    /\ memory' = Written(request, 0, d, strobe)
    /\ UNCHANGED answer

ReadBeat ==
    /\ job # None /\ job.kind = "read" /\ ~job.refused
    /\ answer' = [resp |-> "OKAY", data |-> memory[AddressOf(job, job.beats)],
                  last |-> job.beats = job.len]
    /\ job' = IF job.beats = job.len THEN None ELSE [job EXCEPT !.beats = @ + 1]
    /\ UNCHANGED memory

WriteBeat(d, strobe) ==
    /\ job # None /\ job.kind = "write" /\ ~job.refused
    /\ job.beats <= job.len
    /\ memory' = Written(job, job.beats, d, strobe)
    /\ job' = [job EXCEPT !.beats = @ + 1]
    /\ UNCHANGED answer

Acknowledge ==
    /\ job # None /\ job.kind = "write" /\ ~job.refused
    /\ job.beats = job.len + 1
    /\ answer' = [resp |-> "OKAY"] /\ job' = None
    /\ UNCHANGED memory

Refuse ==
    /\ job # None /\ job.refused
    /\ answer' = [resp |-> "SLVERR"] /\ job' = None
    /\ UNCHANGED memory

Reset == job' = None /\ UNCHANGED <<memory, answer>>

Next ==
    \/ \E kind \in {"read", "write"}, request \in Request : Begin(kind, request)
    \/ \E d \in Data, strobe \in BOOLEAN :
           WriteBeat(d, strobe) \/ \E request \in Request : BeginWriting(request, d, strobe)
    \/ ReadBeat \/ Acknowledge \/ Refuse \/ Reset

Spec == Init /\ [][Next]_vars
=============================================================================
