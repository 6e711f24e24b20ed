----------------------------- MODULE BiSetRegfile -----------------------------
(* Regfile, Register and Field (biset/py/biset/register.py): registers of a   *)
(* device, read and written over a MemoryBus, with a cache, and with a hold   *)
(* that keeps writes back until it is released.                               *)
(*                                                                            *)
(* Users are tasks of the event loop, which interleave where they await a     *)
(* request.  A register belongs to one user, and a hold to a user that is     *)
(* alone: the code has no lock for either, and two users that fetch and write *)
(* one register, or use the file while another releases it, lose writes.      *)
EXTENDS MemoryBus

CONSTANTS
    Register,   \* addresses within the register file
    Owner,      \* the user of a register
    Volatile,   \* "value may change spontaneously": registers never cached
    Opaque,     \* "value cannot be read"
    ResetVal,   \* Register.resetVal
    Fields,     \* the intervals of a register's fields
    Words,      \* bound: the words written to a register
    PostAddress \* where the tasks of MemoryAccess read and write

ASSUME RegfileAssumption ==
    /\ Register \subseteq Nat /\ Owner \in [Register -> Users]
    /\ \A r \in Register : r + Offset \in Address
    /\ Volatile \subseteq Register /\ Opaque \subseteq Register \ Volatile
    /\ PostAddress \subseteq Address

(* What a word can hold.                                                      *)
Word == 0 .. 2 ^ Width - 1

(* The register file writes this register.                                    *)
Writable(r) == Words[r] # {} \/ Fields[r] # {}

(* What the theorems ask of the constants: words have a bit, and words and    *)
(* fields fit; a register with a reset value, which is what a read that may   *)
(* not ask returns, is one that cannot be read and has no fields; and nobody  *)
(* else writes a word the register file caches.                               *)
WordsFit ==
    /\ Width # 0
    /\ \A a \in Address : Loaded[a] \in Word \cup {None}
    /\ \A r \in Register :
         /\ Words[r] \subseteq Word /\ ResetVal[r] \in Word \cup {None}
         /\ \A i \in Fields[r] : \E hi \in 0 .. Width - 1 : \E low \in 0 .. hi :
              i = [low |-> low, hi |-> hi]

ResetsApart == \A r \in Register \ Volatile :
    ResetVal[r] # None => r \in Opaque /\ Fields[r] = {}

PostsApart == \A r \in Register : r + Offset \in PostAddress => r \in Volatile

(* ... nor the register file a word that the tasks of MemoryAccess use.       *)
PostsAlone == \A r \in Register : r + Offset \in PostAddress => ~Writable(r)

(* Arithmetic of the shifts, of which the provers know nothing.               *)
Powers == \A m, n \in 0 .. Width + AddrWidth :
    2 ^ m \in Nat \ {0} /\ 2 ^ (m + n) = 2 ^ m * 2 ^ n

VARIABLES
    cache,      \* Regfile.cache: None where it has no entry
    volatile,   \* Regfile.volatile, likewise
    dirty,      \* Regfile.dirty
    locked, lockedRead,
    user,       \* what a user awaits
    holder,     \* the user that holds the file or releases it
    ret,        \* what an operation returns in this step
    written,    \* the last value a register's owner wrote
    window,     \* the words in memory while a user fetched one
    last,       \* the value posted last to an address
    expected    \* the value posted last when a read was posted

regVars == <<cache, volatile, dirty, locked, lockedRead>>
vars == <<busVars, regVars, user, holder, ret, written, window, last, expected>>

(* Mutant: caches a volatile register.                                       *)
StableAll == Register \ Opaque

(* Registers that are cached: Register.ccRd and ccWr set dontCache for others.*)
Stable == Register \ (Volatile \cup Opaque)
Idle == [pc |-> "idle"]

(* What is done with a word that was read: Register.ccRd returns it,         *)
(* Field.ccRd the bits of a field, Field.ccWr writes the field into it.      *)
Uses(r) ==
    {[kind |-> "word"]}
    \cup [kind : {"field"}, itvl : Fields[r]]
    \cup UNION {[kind : {"replace"}, itvl : {i}, val : 0 .. 2 ^ Size(i) - 1] : i \in Fields[r]}

Init ==
    /\ BusInit
    /\ cache = [r \in Register |-> None] /\ volatile = [r \in Register |-> None]
    /\ dirty = {} /\ locked = FALSE /\ lockedRead = FALSE
    /\ user = [u \in Users |-> Idle] /\ holder = None /\ ret = None
    /\ written = [r \in Register |-> mem[r + Offset]]
    /\ window = [u \in Users |-> {}]
    /\ last = mem /\ expected = [t \in Posts |-> None]

----------------------------------------------------------------------------
(* Mutant: the held value is forgotten when the cache is not to be used.     *)
KnownOfCache(r, dontCache, c, v) == IF dontCache THEN None ELSE c[r]

(* Regfile.ccRead without a request: the entry of volatile goes before that  *)
(* of the cache.                                                             *)
Known(r, dontCache, c, v) ==
    IF v[r] # None THEN v[r] ELSE IF dontCache THEN None ELSE c[r]

(* The user has no request, or is done with it.                              *)
Rests(u, c, v) ==
    /\ flight' = [flight EXCEPT ![u] = None]
    /\ user' = [user EXCEPT ![u] = Idle]
    /\ cache' = c /\ volatile' = v
    /\ UNCHANGED <<target, line, queue, replies, mem>>

(* Sends a request and awaits it.                                            *)
Awaits(u, r, write, value, step) ==
    /\ user' = [user EXCEPT ![u] = step]
    /\ Sent(u, "regfile", r, write, value)
    /\ UNCHANGED <<target, queue, replies, mem>>

Nothing == ret' = None
Returns(r, use, val) == ret' = [reg |-> r, use |-> use, val |-> val]

Pushes(u, r, value, c, v) ==
    /\ Awaits(u, r, TRUE, value, [pc |-> "push"])
    /\ cache' = c /\ volatile' = v

(* Regfile.ccWrite, given cache and volatile as they are when it begins.     *)
Write(u, r, value, goal, c, v) ==
    LET cached == IF r \in Stable THEN [c EXCEPT ![r] = value] ELSE c IN
    /\ written' = [written EXCEPT ![r] = goal]
    /\ Nothing
    /\ IF Known(r, FALSE, c, v) = value
       THEN Rests(u, c, v) /\ UNCHANGED dirty
       ELSE IF locked
       THEN dirty' = dirty \cup {r} /\ Rests(u, cached, [v EXCEPT ![r] = value])
       ELSE UNCHANGED dirty /\ Pushes(u, r, value, cached, v)

(* The rest of Register.ccRd, Field.ccRd or Field.ccWr with the word read;   *)
(* bits of None raise an exception, which the caller gets.                   *)
Use(u, r, use, val, c, v) ==
    \/ /\ use.kind = "word"
       /\ Rests(u, c, v) /\ Returns(r, use, val)
       /\ UNCHANGED <<dirty, written>>
    \/ /\ use.kind # "word" /\ val = None
       /\ Rests(u, c, v) /\ Nothing
       /\ UNCHANGED <<dirty, written>>
    \/ /\ use.kind = "field" /\ val # None
       /\ Rests(u, c, v) /\ Returns(r, use, bitsel(val, use.itvl))
       /\ UNCHANGED <<dirty, written>>
    \/ /\ use.kind = "replace" /\ val # None
       /\ Write(u, r, replaced(val, use.itvl, use.val),
                replaced(written[r], use.itvl, use.val), c, v)

----------------------------------------------------------------------------
(* A hold is for a user that is alone, until the release is done.            *)
MayUse(u) == user[u] = Idle /\ holder \in {None, u}

(* Regfile.ccRead: answers from what is known, or None where it may not ask, *)
(* for which Register.ccRd returns the reset value; else asks.               *)
Read(u, r, use, invalid) ==
    LET known == Known(r, r \notin Stable \/ invalid, cache, volatile) IN
    /\ MayUse(u) /\ Owner[r] = u
    /\ IF known # None
       THEN Use(u, r, use, known, cache, volatile)
       ELSE IF lockedRead \/ r \in Opaque
       THEN Use(u, r, use, ResetVal[r], cache, volatile)
       ELSE /\ Awaits(u, r, FALSE, None,
                      [pc |-> "fetch", reg |-> r, use |-> use, keep |-> r \in Stable /\ ~invalid])
            /\ Nothing
            /\ UNCHANGED <<cache, volatile, dirty, written>>
    /\ UNCHANGED <<locked, lockedRead, holder>>

(* The answer: entered in the cache and, while held, in volatile.  The debug *)
(* message formats the word as a number: None raises before either.          *)
Fetched(u) ==
    LET r == user[u].reg
        val == flight[u].result
        c == IF user[u].keep THEN [cache EXCEPT ![r] = val] ELSE cache
        v == IF locked THEN [volatile EXCEPT ![r] = val] ELSE volatile IN
    /\ user[u].pc = "fetch" /\ Answered(u)
    /\ IF val = None
       THEN Rests(u, cache, volatile) /\ UNCHANGED <<dirty, written>> /\ Nothing
       ELSE Use(u, r, user[u].use, val, c, v)
    /\ UNCHANGED <<locked, lockedRead, holder>>

(* Register.ccWr.                                                            *)
WriteWord(u, r, value) ==
    /\ MayUse(u) /\ Owner[r] = u
    /\ Write(u, r, value, value, cache, volatile)
    /\ UNCHANGED <<locked, lockedRead, holder>>

Pushed(u) ==
    /\ user[u].pc = "push" /\ Answered(u)
    /\ Rests(u, cache, volatile)
    /\ Nothing
    /\ UNCHANGED <<dirty, locked, lockedRead, holder, written>>

(* Register.invalidate.                                                      *)
Invalidate(u, r) ==
    /\ MayUse(u) /\ Owner[r] = u /\ cache[r] # None
    /\ cache' = [cache EXCEPT ![r] = None]
    /\ Nothing
    /\ UNCHANGED <<busVars, volatile, dirty, locked, lockedRead, user, holder, written>>

(* Regfile.hold, with lockRead or without.                                   *)
Hold(u, lockRead) ==
    /\ \A w \in Users : user[w] = Idle
    /\ holder = None /\ ~locked
    /\ locked' = TRUE /\ lockedRead' = lockRead /\ holder' = u
    /\ Nothing
    /\ UNCHANGED <<busVars, cache, volatile, dirty, user, written>>

(* Regfile.ccRelease: unlocks, and then pushes the dirty entries, each when  *)
(* the one before is answered.  Any order stands for that of their insertion.*)
Releasing(u, todo) ==
    IF todo = {}
    THEN /\ Rests(u, cache, [r \in Register |-> None])
         /\ dirty' = {} /\ holder' = None
    ELSE \E r \in todo :
         /\ Awaits(u, r, TRUE, volatile[r], [pc |-> "release", todo |-> todo \ {r}])
         /\ UNCHANGED <<cache, volatile, dirty, holder>>

(* Mutants: unlocks too late, or clears the dirty set too early.             *)
ReleaseLocked(u) ==
    /\ user[u] = Idle /\ holder = u /\ locked
    /\ Releasing(u, {r \in dirty : volatile[r] # None})
    /\ Nothing
    /\ UNCHANGED <<locked, lockedRead, written>>

ReleaseClears(u) ==
    /\ user[u] = Idle /\ holder = u /\ locked
    /\ locked' = FALSE /\ lockedRead' = FALSE
    /\ Releasing(u, {})
    /\ Nothing
    /\ UNCHANGED written

Release(u) ==
    /\ user[u] = Idle /\ holder = u /\ locked
    /\ locked' = FALSE /\ lockedRead' = FALSE
    /\ Releasing(u, {r \in dirty : volatile[r] # None})
    /\ Nothing
    /\ UNCHANGED written

ReleasedOne(u) ==
    /\ user[u].pc = "release" /\ Answered(u)
    /\ Releasing(u, user[u].todo)
    /\ Nothing
    /\ UNCHANGED <<locked, lockedRead, written>>

GoesOn(u) == Fetched(u) \/ Pushed(u) \/ ReleasedOne(u)

UserStep(u) ==
    \/ \E r \in Register :
          \/ \E use \in Uses(r), invalid \in BOOLEAN : Read(u, r, use, invalid)
          \/ \E value \in Words[r] : WriteWord(u, r, value)
          \/ Invalidate(u, r)
    \/ \E lockRead \in BOOLEAN : Hold(u, lockRead)
    \/ Release(u)
    \/ GoesOn(u)

----------------------------------------------------------------------------
(* MemoryAccess.read and write: the tasks queue their requests in the order  *)
(* they were posted, and wait.                                               *)
Post(t, addr, write, data) ==
    /\ flight[t] = None
    /\ Sent(t, "access", addr, write, data)
    /\ last' = IF write THEN [last EXCEPT ![addr] = data] ELSE last
    /\ expected' = [expected EXCEPT ![t] =
          IF write THEN None ELSE last[addr]]
    /\ UNCHANGED <<target, queue, replies, mem>>

PostEnds(t) ==
    /\ Answered(t)
    /\ flight' = [flight EXCEPT ![t] = None] /\ expected' = [expected EXCEPT ![t] = None]
    /\ UNCHANGED <<target, line, queue, replies, mem, last>>

PostStep(t) ==
    \/ \E addr \in PostAddress :
          \/ Post(t, addr, FALSE, None)
          \/ \E data \in {0, 1} : Post(t, addr, TRUE, data)
    \/ PostEnds(t)

(* The words a fetch may see: those in memory from its request to its answer.*)
Watched ==
    window' = [u \in Users |->
        IF user'[u].pc = "fetch"
        THEN (IF user[u].pc = "fetch" THEN window[u] ELSE {}) \cup {mem'[user'[u].reg + Offset]}
        ELSE IF ret' # None /\ Owner[ret'.reg] = u THEN window[u] ELSE {}]

UserAction(A) == A /\ UNCHANGED <<last, expected>> /\ Watched
PostAction(A) == A /\ Nothing /\ UNCHANGED <<regVars, user, holder, written>> /\ Watched
BusAction(A) == PostAction(A /\ UNCHANGED <<last, expected>>)

Next ==
    \/ \E u \in Users : UserAction(UserStep(u))
    \/ \E t \in Posts : PostAction(PostStep(t))
    \/ BusAction(BusStep)

Spec == Init /\ [][Next]_vars

----------------------------------------------------------------------------
(* A user reads what it wrote: a word or field of a register that is neither *)
(* volatile nor opaque is what its owner wrote last, through cache, hold,    *)
(* invalidation, release and the requests of others.                         *)
ReadsLastWritten ==
    ret # None /\ ret.reg \in Stable /\ ret.val # None =>
        ret.val = IF ret.use.kind = "word" THEN written[ret.reg]
                  ELSE bitsel(written[ret.reg], ret.use.itvl)

(* When a user is idle and nothing is held, every word it wrote is in the    *)
(* device, those written during a hold included.                             *)
WrittenArrives == \A r \in Register \ Volatile :
    user[Owner[r]] = Idle /\ holder = None => mem[r + Offset] = written[r]

(* "stuff that is read/written while locked": nothing the holder writes      *)
(* reaches the device before the release.                                    *)
HeldIsHeld == [][locked => \A r \in Register \ Volatile : mem'[r + Offset] = mem[r + Offset]]_vars

(* A register whose "value may change spontaneously" is never answered from  *)
(* a cache when it is not held: the word, or the field of a word, that is    *)
(* returned was in the device during the read.                               *)
FreshVolatile ==
    ret # None /\ ret.reg \in Volatile /\ ~locked =>
        IF ret.use.kind = "word" THEN ret.val \in window[Owner[ret.reg]]
        ELSE \E w \in window[Owner[ret.reg]] : ret.val = bitsel(w, ret.use.itvl)

(* Answers find their requests: a read posted after a write returns what was *)
(* written, though the answers of the register file's users are on their way *)
(* with its own.                                                             *)
AnswersInOrder == \A t \in Posts :
    Answered(t) /\ expected[t] # None =>
        flight[t].result = IF expected[t] = X THEN None ELSE expected[t]

=============================================================================
