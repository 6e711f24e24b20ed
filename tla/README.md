# Specifications of bilib

bilib is a library of small hardware blocks (SystemVerilog) and of the tools
that drive simulations of them (C++, Python). This directory keeps TLA+
specifications of the parts whose correctness depends on interleavings: clock
domain crossings, queues, a bus bridge, the co-simulation protocol SiCo, the
pipes and items of ChOC, the 8b10b link and the register files. Modules are read with the source beside them; `PROJECT.json` maps every
definition that models code to its lines, and lists hazards, runs, findings and
theorems.

    tlc -config MCPeekFifo.cfg MCPeekFifo     # model-check
    tlapm FifoProofs.tla                      # check proofs

Contents: [system](#the-system) - [modules](#the-modules) - [runs](#the-runs) -
[fairness](#fairness) - [proofs](#proofs) - [disagreements](#where-code-and-text-disagree) -
[not modelled](#not-modelled) - [plan](#plan)

## The system

### Hardware

| Part | State | Operations | What is hard | What makes it correct |
|---|---|---|---|---|
| `cdc/CdcBuffer` | two flipflops per bit | sample | a sample at the moment of a change is either value, per bit | the output settles to a value the input had |
| `cdc/CdcMutex` | two toggle bits, each synchronised to the other domain | release on either side | two clocks without any relation | never locked on both sides |
| `cdc/CdcEvent` | a mutex; the destination releases at once | request, event | ratio and phase of the clocks | one event of one cycle per request |
| `cdc/CdcGate` | a mutex, a vector register on each side | write, read | the vector crosses without synchroniser | a one-place buffer |
| `cdc/CdcStream` | six slots, a Gray coded position per side | write, read | six positions in a code of eight; late positions | a queue of five items |
| `fifo/Fifo` | four pointers, two counts, memory | write, read | pointers wrap at LENGTH and 2 LENGTH, counts modulo a power of two | a queue of LENGTH items |
| `fifo/PeekBuffer` | two registers, one item under way | poll, pop | the queue answers a cycle late | no item lost, none doubled |
| `legacy/sync_fifo` | older asynchronous queue | write, read | as `CdcStream` | a bounded queue |
| `axi/axi4_mem_bridge` | state machine, request registers, a beat counter | accept, read, write, refuse, answer | master and memory stall independently, the memory answers a cycle late | a memory that carries out bursts |
| `axi/mem_*_bridge` | state machine, request registers | accept, forward, answer | backpressure on independent channels | every request forwarded and answered once, in order |
| `biset` (`.sv`) | registers on a shared bus, reply multiplexer | read, write, count, clear | events during a read | no event lost or counted twice |
| `memory`, `memory/byte` | arrays; width converters | read, write with masks | an answer a cycle after its address | the answer belongs to the address |
| `clock` | dividers, multiplexer, reset synchroniser | switch, divide | no glitch while switching | at most one clock selected |
| `cdr`, `coding`, `generator`, `hash` | shift registers | per cycle | pure functions of a history | agree with their definitions |

Blocks are composed by wires: `CdcEvent` and `CdcGate` contain a `CdcMutex`,
which contains two `CdcBuffer`; `CdcStream` contains two `CdcBuffer` and Gray
coders; a `PeekBuffer` reads a `Fifo`, which contains a memory.

### SiCo, the co-simulation

A Python program (`sico/python/sico/comm.py`) talks over a socket to a
simulator that loads a C++ library (`sico/cpp/SiCo.cc`) through VPI or DPI.

* *Python*, one event loop: `Connection` (three tasks, a gate in each
  direction), `Control` (a task that processes commands, the tables of breaks
  and waits, a task that sorts messages to the queues of the channels and one
  that feeds what goes out), `Channel` (one per player or recorder; in a *frame*
  it holds the simulation and moves the items to a time it has not reached),
  and the user's code, in a thread of its own.
* *Simulator*: `Connection` with the threads `runConn`, `runSend`, `runRecv`,
  which share `connectedMutex` and `connectedCond`; `Control` with
  `ctrlThread`; and the simulator's own thread, which calls `$SiCoVpiTick`,
  `PlayerGet`, `RecorderPut`.
* Python starts the *tick-tock*: it sends `tick`, is answered by `tock` with the
  time, and sends the next `tick`. A *break* (hold, stop, finish) is added,
  acknowledged at the next look with the time promised, announced when hit, and
  removed. A *wait* is kept in Python and compared with every tock.

What is hard: five threads on the simulator's side, a time that moves on while
requests are under way, releases that cross announcements, connections that
end. What makes it correct: both sides agree on the breaks, times promised are
kept, a hold holds, the tick-tock never ends, the connection comes back.

### ChOC, and what is built of it

`choc/pipe.py` has the pipes between coroutines; its `Gate` is a rendezvous
built from an asyncio condition and two locks. Items of `choc/items.py` run one
task or a few and are plugged together by gates; `choc/types.py` has the values
that travel, with their bytes and texts; `choc/__init__.py` runs the event loop
in a thread.

| Part | State | Operations | What is hard | What makes it correct |
|---|---|---|---|---|
| `Gate` | state, store, locks, waiters | push, pull | `notify` wakes one coroutine, maybe the wrong one | every value is handed over once, and a push returns after its own was taken |
| `Input`, `Range`, `Clock`, `TimedSignal` | what each has on offer | feed, close, send | each is a task and lags behind; either source may end first | the k-th value holds from the k-th time on |
| `Probe` | a position, two changes | seek, read, nextEdge | it receives only what it needs, across calls | what it returns is what the signal says |
| `Bits`, `Tme`, `Change` | - | to and from bytes and text | odd widths, zero, other bits than 0 and 1 | what is written is read again |
| `biset/py` `Regfile` | cache, entries of a hold, dirty set | read, write, replace a field, invalidate, hold, release | tasks interleave at every request; three places for a word | a user reads what it wrote, and it gets to the device |
| `bimem`, converters, `BitsReqToInterface` | queues of requests | send, convert, answer | answers carry no name | every request gets its own answer |
| `coding/py/_8b10b` | running disparity; shift register, counter, alignment | encode, serialise, align, decode | the receiver starts anywhere in the bits | the pairs arrive, the line is even |

## The modules

    BoundedQueue <......... implemented by ......... CdcStream, Fifo, PeekFifo
    OneSlot      <......... implemented by ......... CdcGate
    BurstMemory  <......... implemented by ......... Axi4MemBridge

    CdcBuffer <- CdcMutex <- CdcGate <- CdcBench     GreyCode <- CdcStream
                          <- CdcEvent (instance of CdcBench)
    Fifo <- PeekFifo
    SiCoControl <- SiCoChannel
    SiCoConnection, SiCoPyConnection <- SiCoConnections
    ChocTypes <- Code8b10b <- Link8b10b
              <- ChocSignal
    ChocGate, Link8b10b, ChocSignal <- ChocItems
    BilibFn <- MemoryBus <- BiSetRegfile

An arrow reads "is extended by". `MC*` modules only give model values;
`*Proofs` modules hold theorems. An operator under a comment `Mutant` is not
part of any specification: it is a plausible error in the definition below it,
which the property named in `PROJECT.json` has to notice. 

**CdcBuffer, CdcMutex, CdcEvent, CdcGate, CdcBench.** A variable is a register, an action
an edge of the source clock, of the destination clock, or of both at once. The
first flipflop of a synchroniser samples the old value or, at a coincident
edge, either the old or the new one (`Settled`), so every ratio and phase of the
clocks, jitter included, is an interleaving. In `CdcGate` the vector is sampled
without a synchroniser: sampled while it changes it becomes `Mixed`, which is
none of the vectors. The users of mutex and event are arbitrary as far as the
headers allow: they release only when locked and request only when ready. Both
resets act together: `CdcMutex.sv:45` clears a pipe of one domain by the
reset of the other, so a reset of one domain alone is outside its use. `CdcBench`
is the repository's bench (`cdc/test/SimpleBench.sv`): a gate and an event, each
with its mutex, between the same two clocks.

**CdcStream.** The same clocks, six slots, positions in Gray code of three bits
(`GreyCode` has the tables of `GreyEncode` and `GreyDecode` at that width). Bits
of a position are sampled one by one; where the ring wraps, all three change and
any of eight positions may be read. An item is `Mixed` when a slot is sampled
while written. Items are numbered so that a stale slot is told from a fresh one. The position that
crosses is the output of a Gray encoder without a register behind it: its bits are taken to
change at most once per edge, and glitches of its gates are not modelled.

**Fifo, PeekFifo.** One action is one clock edge with any inputs, another the
reset. Counts are differences in `DEPTH + 1` bits as in the code, so `LENGTH`
need not be a power of two. `Contents` is the refinement mapping: the slots
from the read pointer on; in `PeekFifo` the two registers and the item under way
come before them.

**Axi4MemBridge.** One action is one clock edge in one state of the bridge, with
the requests, the write data, the stall and the ready of that cycle as
parameters; the registers of the source are its variables, with the memory
behind the bridge (as in `memory/register/RegMem.sv`) and two history variables:
the beats of the burst and the last answer. Addresses count words. `waits` says who may make the other wait
during a read, and never changes. `BurstMemory` is the promise: it has the
address of every beat by the definition of the burst types, carries out one burst after the other
and refuses narrow ones.

**SiCoControl.** The user (`Request`, `Release`, `MakeWait`), the Python tasks
(`Register`, `RunCtrl`), `ctrlThread` (`CtrlRun`) and the simulator
(`Tick`, `WaitHold`, `CheckStop`, `CheckFinish`, `Exit`) over two queues of
messages. `CheckBreak` is one walk of `checkBreak` under its mutex. An
exception that ends a task or a thread is a state, not an omission
(`ctrlRuns`, `phase = "crashed"`). `Release` is `ccRelease`, which asks for
nothing but the break's entry; when to call it is up to the caller. The user waits for
the hit first (`UserRelease`), as `test_hold.py` does.

**SiCoChannel** adds the task `ccRunSend` of a `Channel`: a frame asks for a hold,
waits for its promise, sends its items from the promise plus `breakMargin`
or from the end of the last frame on, and releases. Items travel in the queue of
the commands, in which the code puts both. The end of a frame releases the hold at once
(`FrameEnd`), whether or not Python knows by then that it was hit: the task has waited for the
promise only. `late` is a history variable.

**SiCoConnection.** The three threads at their waits and the peer that connects,
sends, ends and comes back. A thread that waits on `connectedCond` is in `asleep`
and leaves it when notified or by a spurious wake-up. `accept` is called with the mutex locked. A message is read or written whole.

**SiCoPyConnection.** The three tasks of the Python `Connection`, the two gates and
the two tasks of `Control` around it, against simulators that end and are started
again. A message is bytes: its length is read apart from the rest, and a
simulator that ends may cut its last one. A write to a dead socket raises
nothing; the message is gone and the reader of that socket fails.
`SiCoConnections` has either end in a behaviour of its own, not both at once: each
side's peer is already every program that connects, sends and ends.

**ChocGate.** Coroutines interleave at awaits only, so an action runs from one
await to the next. Locks are first come first served (asyncio), the condition's
waiters a queue of which `notify` takes the first.

**ChocTypes.** `Bits`, `Tme` and `Change` as operators. A text is a sequence of digits or
of numbers with units. TLC counts to 2^31: times have no seconds.

**ChocSignal.** An `Input` that a user feeds and closes, or a `Range` with an `IntToBits`,
and a `Clock` feed a `TimedSignal`; a user's thread seeks, reads and looks for
edges with a `Probe`. A gate is a place for one value here: that a push
stays until it is taken, and that order is kept, is what `ChocGate` is checked
for. A step of `Probe` is one reception, or the end of a call. An exception that ends
the task or reaches the caller is a state (`signal.at = "failed"`, `raised`).
A user that gives `nextEdge` a `maxTime` before the position is left out.

**Code8b10b, Link8b10b.** The code's tables and functions, and the four signals in a
row; one action sends a pair and has every bit of it pass the receiver, which
missed some of the first bits. Pairs start with a comma or have none, and K.28.7 is
not sent: the receiver takes the first comma for the start of a pair, and K.28.7
next to another symbol makes one across their border. `coding/py/_8b10b/__init__.py` (12, 13)
imports `SiCo.fn` and `SiCo.types`, which this revision of the repository does not have. The model
takes `choc.types` for the latter, which has its `Bits`, `Change`, `L9` and `Tme`; what is left of
`Signal` is a `next` that gives one item, and of `TimeOut` nothing: there are no timeouts.

**ChocItems** has the gate, the link and the signal as three systems, one of which runs in
a behaviour.

**MemoryBus.** The way of a request from a `Regfile` or a `MemoryAccess` through its
converters to a `Memory`, or to a device behind `MemoryToBitsReq` and
`BitsReqToInterface`, and of the answer back through the callbacks. The
converters of a row keep the order, so they are one queue; the bits a
device gets are packed and unpacked (`BilibFn`). The device is external.

**BiSetRegfile.** Users read and write words and fields, invalidate, hold and release; an
action runs from one await to the next. A register has one owner and a hold is
for a user that is alone: the code has no lock, and loses writes otherwise. A
task of a `MemoryAccess` shares the bus, and changes the volatile register.
`written`, `window`, `last`, `expected` and `ret` are history variables.

## The runs

| Run | Expect | Bounds | What it shows |
|---|---|---|---|
| `cdc_bench` | pass | a reset value and two vectors | `MutualExclusion`; `OneEventPerRequest`, one cycle long; an open gate shows what was written and implements `OneSlot`; requests fire, both sources get ready again (`CrossingsGoOn`). Two vectors suffice to tell old from new. The requests need no bound: what counts them, `pending`, never leaves 0 and 1 |
| `cdc_stream` | pass | items counted modulo 12 | `QueueSpec`; the source goes on. All 6 x 6 positions occur; a slot's former item is 6 behind and so differs |
| `peek_fifo` | pass | LENGTH 4, two items | counts exact, queue and queue with peek buffer implement `BoundedQueue`, items show up. Four slots wrap both kinds of pointers at different times |
| `axi4_mem_bridge` | pass | four words, two data, bursts of one to three beats and wrapping ones of two, either the master or the memory waits in a read, both in a write | `NoBeatLost`, `OfferStands`, the bridge implements `BurstMemory`, `BurstEnds`. Three beats are a first, a middle and a last one; a burst from word 3 runs over the top |
| `axi4_beat_lost` | violation | the same, both wait | see below |
| `sico_control` | pass | two breaks of any kind or frames, two items, ticks every 2, a margin of 2, times to 4, those of the user absolute | `ControlsRun` (no command processor ends, but by a break released before its hit was known), `HoldHolds`, `PromiseKept`; `ItemsOnTime` and `ItemsInOrder` over two frames. Frames end before and after the hit of their hold. Two breaks can hold, cross and be removed out of order; a break may fall between ticks. The margin is a tick: with less, items come late (`breakMargin` is 1 us, so ticks have to be as close) |
| `sico_control_live` | pass | two breaks, one wait, times 0 and 1, relative and absolute | `TalkGoesOn` (acknowledgements and the tick-tock), `WaitEnds`, also while another break holds |
| `sico_early_release` | violation | one break, of a frame or of a user who waits for its hit | see below |
| `sico_connection` | pass | on either side two peers in a row, two messages each way, two channels with names of different lengths | `InOrder`, `ChannelsInOrder` over connections; what is sent arrives while the peer stays (`MessagesArrive`, first peer of C++; `PyMessagesArrive`, any of Python); Python connects again (`Reconnects`) |
| `sico_reconnect` | violation | C++ side | see below |
| `choc_items` | pass | gate: two pushers, two pullers, four values. Link: every symbol but K.28.7, each with K.28.5, D.17.7 and D.0.0, a receiver that misses 0, 3 or 12 bits. Signal: three values of three bits or a range of two bits, four clocks | `InPushOrder`, `PushWaits`, `Meets`; `PairsArrive`, `LineIsEven`; `ReadsSignal`, `EdgesFound`, `ReadBack`. Two pushers and pullers are what it takes for a wake-up to reach the wrong one; sequences of pairs have no bound (the states of the link are finite). Three values make two edges; the clocks start late, end early, have times of several units, or count cycles |
| `biset_regfile` | pass | two users, a register with a field, a volatile and an opaque one, words of two bits, one task of a `MemoryAccess` | `ReadsLastWritten`, `WrittenArrives`, `HeldIsHeld`, `FreshVolatile`, `AnswersInOrder`, with a memory and with a device. A register of each kind is enough, since no operation looks at two but the release, which has two dirty ones |

Deadlock is not checked where the system really may stop: a simulator that
finished, a user that asks for nothing more, a peer that never returns, a value
bound that is reached. Times above `MaxTime` are not told apart: the simulation goes on at the
last one. No symmetry is used.

## Fairness

* Clocks keep running: weak fairness of the edges of each clock (`CdcBench`,
  `CdcStream`) and of the clock in `PeekFifo`; the reader of the gate does not
  leave it open for ever.
* `Axi4MemBridge`: now and then, while the bridge waits for it, the memory does
  not stall and the master is ready or has data (`Unhindered`); AXI asks as much of a master.
  That a new burst is asked for is not assumed.
* `SiCoControl`: the event loop runs `RunCtrl` and `Register`, the operating
  system runs `ctrlThread` and the simulator's thread. The user is not fair.
  The simulator continues after `vpiStop` (its user says so).
* `SiCoConnections`: each thread and each task runs when it can. Spurious wake-ups
  are allowed and not fair: nobody promises one. That a peer connects or ends is
  not assumed.
* `ChocItems`: a coroutine of the gate that is ready runs. That anybody pushes or pulls is not
  assumed. Link and signal have safety properties only, as has `BiSetRegfile`.

## Proofs

Assumptions are the named ones of the modules: the constants have the obvious
types and the special values are not data. Every further hypothesis stands in
the theorem that needs it. An invariant that ends in `Inv` is inductive: the
initial states have it and each action keeps it, one lemma per action; TLC
checked it on the run of the component before it was proved.

* `CdcBenchProofs` - the mutex, the gate and the event, and the bench of the two.
  `MutexExclusion`: `MutualExclusion` is not inductive, as the
  two sides see different ends of the ring of six flipflops. `MutexInv` adds
  `OneFront`: at most one change of value travels around the ring. The step
  lemmas hold for every user, so the gate cites them. `GateShowsWritten` and
  `GateIsOneSlot`, for every set of vectors, from `GateInv`: while the lock is
  with the destination or on its way there the source vector is still, and the
  destination has sampled it when the front arrives, as the pipe is two edges
  long. `EventPerRequest`, from `EventInv`, for any number of requests: these
  exceed the events by one exactly while the front is on its way to the
  destination. The bench then has what its two parts have (`Bench...`): each of
  its steps is one of the gate and one of the event (`BenchStep`); `BenchExclusion` is about
  both mutexes.
* `CdcStreamProofs` - `StreamIsQueue`, for every numbering of the items, from
  `StreamInv`. What a side sees of the other's position is worth a position that
  the other has left behind (`SeenBySource`, `SeenByDestination`), or it is a
  word sampled while the position wrapped, which may read as any. Such a word
  does no harm: the side that sees it was held short of the wrap by what
  it saw before, has one step to make until the next sample arrives, and
  the wrap has made room for that one; a second such word cannot follow at once.
  What the destination may read has been copied since it was written (`Copied`).
* `FifoProofs` - `FifoCounts` and `FifoIsQueue`, from `FifoInv`, for every
  LENGTH with `Modulus = 2 * LENGTH`, that is where the modulus of the
  counters is that of the pointers (every power of two). The hypothesis is in
  the theorems; with LENGTH = 3 the counts are wrong from the first write.
  `PeekCounts`, `PeekFifoIsQueue` and `PeekFifoIsLongerQueue` say the same
  of the queue behind its peek buffer, and that both are one queue of two items
  more. `PeekInv` adds that the second register is full only behind a full first
  one and with no item under way, so that an item that was polled has a place
  when it arrives, a cycle late.
* `Axi4MemBridgeProofs` - `BeatsKept`, `OfferHolds` and `BridgeIsBurstMemory`, for
  memories and bursts of any size under two hypotheses, each needed:
  `OneWaits` (else `axi4_beat_lost`) and `Countable` (a burst is shorter than
  the longest one, whose beats `r_tmp_len` cannot count). `NoBeatLost` is not
  inductive: a beat held for a waiting master is fetched again, so `ReadInv` adds that
  such a master always has one on offer, and that it is the word at `tmpAddr`. For
  the refinement `BurstInv` adds that the burst under way is one that was asked for,
  how many of its beats each state stands for, and that the beat on offer is the one of
  the next address. Third hypothesis: `WrapsRight`, the wrapping bursts whose addresses
  `get_new_addr` gets right - two or four beats, from at most a word past their boundary,
  not up to the top of memory. The bursts of `axi4_mem_bridge` are such.
* `SiCoChannelProofs` - about the break protocol with a channel, for any number
  of breaks, waits, frames and items and any times, all from `ChannelInv`.
  It tells for each break which messages about it are under way, in
  which order, and what either side knows (`ToSimInv`, `ToPyInv`, `ListInv`, `KnownInv`): an
  `addBreak` is sent once and before its `remBreak`, which finds the break ahead of it or in
  the list; the acknowledgement goes ahead of the hit, and both say what the record in the list says; a
  frame's items go behind its hold and ahead of its release, from the promise plus the margin
  on (`FrameOffset`). What follows: `ChannelBreaksFound`,
  `ChannelHolds`, `ChannelPromises` and `ChannelInOrder` always; so does
  `ChannelControlsRun`: a hit that finds no entry in `breaks` is that of a break released
  before its hit was known (`Lives`), which `sico_early_release` shows to happen; `ChannelOnTime` where
  `Margin >= TickPeriod` (an item may otherwise fall into the tick by
  which a hold is late). What a walk of the list announces is a `FlattenSeq`; that it holds the announcements of
  every record, in order, is
  proved by induction over the length of the list, as a statement about the set of lengths for which it
  holds (`NatInSet`): no operator is passed to a library theorem.
* `SiCoConnectionsProofs` - `SimulatorEndInOrder` and `PythonEndInOrder`, for any number of
  connections, messages and channels of any names, from `BothInvariant`. Messages are numbered as
  they are sent. For C++ (`ConnInv`) the places a message passes hold rising numbers, one place
  after the other, and so do the connections, one after the other. For Python the order of the
  queues rests on what the bytes mean: `Framed` says that the bytes unread of a simulator that
  is or will be read are those of messages with rising numbers, one after the other, and that only the last may be
  cut, if its simulator has ended (`Frames`); they are newer than what stands in
  the gate (`Taken`) and in the queues. A size and a rest, read apart, are
  then the first message (`ReadApart`), and its bytes give back its channel and number
  (`RoundTrip`). `Connected` is why a cut message harms nobody: the next connection leads to
  another simulator, and a reader that gave up on one never reads it again (`Readable`).
* `ChocItemsProofs` - the gate, the signal, and the two side by side with the link, as in the
  run (`ItemsSideBySide`: every step of the whole is a step or a stutter of each).
  `GateInPushOrder` and `GatePushWaits`, for any
  number of coroutines and values, from `GateInv`: the values of the pushes under way are the last
  ones, in the order of the lock (`InLine`); only the first of them may have
  stored its own, and the state of the gate and the number of values pulled are those of that first push
  (`StateOfFirst`).
  `SignalReads` and `SignalEdges`, for any vectors, ranges, clocks and calls, from `SignalInv`.
  `ReadsSignal` and `EdgesFound` speak of the values fed and the times of the clock only; `SignalInv`
  says what became of these: there are numbers n of changes made, t of times sent and p of items
  received (`\E n, t, p`; the model has no counters), the next value is the one of n (`Feeding`), the
  next time is the one of n or of t (`Clocking`), a signal ends only where values or times
  do (`Signalling`), the probe has the items p - 1 and p of what it is sent, and the third and later
  ones it received because they were due (`Receiving`). Of a call of `nextEdge` under way it
  says that no wanted edge lies between its begin and the position, which is that begin or the time
  of a change (`Asking`): a change made while it waits is later. An answer is kept in terms that later values
  and times do not change (`ReadAnswer`, `EdgeAnswer`). The assumption `SignalAssumption` has the
  types of the constants, periods above zero, and `None` and `PipeEnd` that are no data.
  `BitsReadBack` is the part of `ReadBack` about bytes of `Bits`, for every width.
* `BiSetRegfileProofs` - `RegfileReadsLastWritten`, `RegfileFreshVolatile`,
  `RegfileWrittenArrives`, `RegfileHeldIsHeld`, from `RegfileInv`, and
  `RegfileAnswersInOrder`, for any
  number of users, tasks of `MemoryAccess` and registers, words and addresses of any width, with a memory
  and with a device. The bus: a task's request is in one line, once, and
  the queue for the answers of the device is the requests it has, in order
  (`LinesHold`, `QueueHolds`); so an answer goes to who asked. The users:
  where the request or the answer of each is, and what it brings (`UserOK`). The registers
  (`RegOK`): what cache and `volatile` have is what was written, and so is what
  the device has, unless the write is kept back (`Kept`) or on its way. What the
  device unpacks is what was packed (`Unpacked`), and a word with a field
  replaced is a word (`ReplacedWord`). For the order of the answers (`AnswerInv`):
  requests have tickets in the order of posting, those of a `MemoryAccess` that are ahead on
  the way have smaller ones, and a read is promised (`Promised`) the last
  write with a smaller ticket, or else the word in memory (`Seen`). That the
  tickets exist is the invariant (`\E f, n`); the model has no counter. Hypotheses, of which TLC finds that the constants of the run
  satisfy them (`MCHypotheses`): `WordsFit` (values and fields fit into a word);
  `ResetsApart` (a register with a reset value, which a
  read of an opaque register returns, cannot be read and has no
  fields: else a field would be put into a word nobody wrote); `PostsApart`
  (nobody else writes what the file caches) and, for the order of the answers, `PostsAlone` (the
  file writes no word of a `MemoryAccess`, whose ghost `last` would not know of it); `Powers`, arithmetic of `^` that
  the provers have no axioms for.

Only model-checked: every liveness property (liveness under fairness is out of
the prover's reach); `ReadBack` and the 8b10b link (`PairsArrive`, `LineIsEven`).
`ReadBack` rests on folds and recursive functions (`tmeFromBytes`, `parseStr`, `toInt`): what these return for every
input would take induction over data with an operator as parameter, which the provers cannot instantiate.
What the link promises is a fact about the entries of its tables, for which there is no shorter argument
than to go through them: the run has every symbol but K.28.7.

## Where code and text disagree

* `axi4_beat_lost`: "send data only when rdata is available, otherwise take
  registered data" (`axi4_mem_bridge.sv:360`), but valid drops with the
  memory's enable (361). When the memory stalls while the master is not ready
  the beat is withdrawn, and the next ready skips it (365-377).
* `sico_early_release`: `Channel.ccRunSend` waits for the promise of a frame's hold
  only (`comm.py:458`) and releases it when the frame ends (465). A `hitBreak` already on its way then raises
  `KeyError` in `ccRunCtrl` and the tick-tock, "continuous back and forth"
  (`SiCo.h:196`), stops for good. The acknowledgement of the break that
  `SiCoVpiConfig` adds for a configured hold time (id 1, `SiCoVpi.cc:534`), which
  Python never numbers, ends in the same place; it is not modelled.
* `sico_reconnect`: `runConn` is a loop around accept (`SiCo.cc:373`), but
  nobody notifies it that a connection ended.
* `CdcMutex.sv:17` says that exactly one domain is locked; while the lock
  travels it is none. At most one is what the block needs and what is proved.

Read in the code and not the subject of a run:

* `Probe.read` at the time of the first change raises an `AttributeError`
  (`items.py:442`): `_align` returns before it has a second value. `ReadsSignal` says when
  it does, and that it does at no other time while the signal goes on.
* A text of `Bits` with other digits than 0 and 1 is written from the last bit on and
  read from the first one on (`types.py:376-385`, 419-423), and the text of a zero time
  is empty and is read as a time without a value; `ReadBack` says so.
* A signal that ends before its first change ends its task by an exception
  (`items.py:260`).
* `Fifo.sv:23` lets LENGTH be any number and lines 99-116 wrap pointers
  explicitly, but the counts (131, 132) are taken modulo a power of two: with `LENGTH = 3` in
  `MCPeekFifo.cfg` TLC finds `CountsAreExact` violated by the first edge.
* Shutdown is the "last message on a socket" (`SiCo.h:203`), but the process
  finishes without waiting for the send thread: it may never be sent
  (`Exit` in `SiCoControl`).
* In `axi4_mem_bridge.sv` a read of 256 beats does not end (369: eight bits);
  a wrapping burst goes wrong one word past its boundary (137) and, for 8 and 16
  beats, by its boundary (94, 96) - `MCAxi4MemBridge` leaves these out.

## Not modelled

* Pure conversion and formatting, logging, statistics (`profile`), argument
  checks, build scripts, simulation sources (`sim`), library cells: nothing to
  interleave.
* Commands `set` and `shutdown` towards the simulator: Python never sends them.
* Resets of one domain alone, and resets shorter than a clock cycle.
* Half-read messages and signals on a broken socket in `SiCoConnection` (the C++
  side); `SiCoPyConnection` has them.
* `Channel.ccRunRecv` and `ccRunSampler`, players and recorders.
* Two users on one register, a hold beside other users, masks of a write, and the
  converters with a function in `BiSetRegfile` and `MemoryBus`.
* `Daemon` and `Task` of `choc/__init__.py`: what a stop does depends on how many turns
  of its loop asyncio takes; plugging of items (`connect`), which is over before any data.
* Loss of the connection under `SiCoControl`: its two queues are reliable.
* The DPI binding: it calls the same C++ `Control`; its tick never waits for a
  hold, so `HoldHolds` is about VPI only.
* Data of a refused write in `Axi4MemBridge`: the master is taken to withdraw it.
* Components under [Plan](#plan).

## Plan

In this order; the modules above are done.

1. The rest of `SiCoChannel`: `ccRunRecv` and `ccRunSampler`, `Player::get` and `getNext`,
   `Recorder::put`; a synchronous player never misses the item of its time;
   abstract: a timed queue.
2. `SiCoControl` over a connection that fails: whether the tick-tock survives.
3. `ApbBridge`, then `mem_axi4_bridge`, against an abstract memory: every request is
   answered once, an APB transfer keeps its signals through both phases; then
   `mem_axi4_bridge` in front of `Axi4MemBridge`.
4. `SyncFifo` as another implementation of `BoundedQueue`; `BiSet` counter and
   status in hardware: no event is lost between a read and its clear.
5. Proofs: the whole of `ReadBack`, once times and texts are written without folds.
