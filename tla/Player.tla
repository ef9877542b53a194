-------------------------------- MODULE Player --------------------------------
(***************************************************************************)
(* h264::Player (common/video/Player.h): the assembler the packet          *)
(* processor feeds through AddBlock, the playback thread (Run) and the     *)
(* owner's Start and Stop.                                                 *)
(*                                                                         *)
(* Everything the code does under _assemblyMutex is one action, but for    *)
(* wait_for: the thread has read _stop and not given up the mutex yet      *)
(* ("blocking"), or sleeps without it ("waiting").  What happens outside   *)
(* the mutex (the tests of _stop, SDL events, decoding, the steps of Stop) *)
(* is a separate action, so every interleaving with AddBlock is explored.  *)
(*                                                                         *)
(* An operator introduced by "Mistake:" is no part of the specification:   *)
(* it is the definition after it, got wrong, and some property fails when  *)
(* it takes that definition's place.                                       *)
(***************************************************************************)
EXTENDS Naturals, Sequences

CONSTANTS
    Nalus,      \* indices of NAL units (uint32_t; the bound is far from 2^32)
    Streams,    \* runs of a client against this server: each numbers from 0
    Size,       \* Size[s][n]: the blocks of unit n in the stream of run s
    NoBlock,    \* std::nullopt: a block position not filled yet
    MaxBlocks   \* bound: calls of AddBlock in one behaviour

\* The data of a block is abstracted to its origin.
BlocksOf(s, n) == [stream : {s}, nalu : {n}, block : 0..(Size[s][n] - 1)]

Block == UNION {UNION {BlocksOf(s, n) : n \in Nalus} : s \in Streams}

ASSUME NalusAssumption == Nalus \subseteq Nat
ASSUME SizeAssumption == Size \in [Streams -> [Nalus -> Nat \ {0}]]
ASSUME NoBlockAssumption == NoBlock \notin Block
ASSUME MaxBlocksAssumption == MaxBlocks \in Nat

VARIABLES
    assembling,  \* _assembling: unit -> its block positions; <<>> is no entry
    ready,       \* _readyNalus: unit -> its blocks in order; <<>> is no entry
    next,        \* _nextNaluIndex
    stop,        \* _stop
    run,         \* where the playback thread is in Run; "none": not joinable
    taken,       \* the unit Run moved out of _readyNalus and has not decoded
    owner,       \* where the owner is in Start or Stop
    token,       \* has the stop token of _playerThread been asked to stop?
    stats,       \* the counters of Statistics that Player increments
    displayed    \* history: the units given to the decoder

assemblyVars == <<assembling, ready, stats>>
vars == <<assembling, ready, next, stop, run, taken, owner, token, stats, displayed>>

Slots == Block \cup {NoBlock}

\* The keys of one of the two maps.
Keys(map) == {n \in Nalus : map[n] # <<>>}

\* Mistake: rbegin() for begin().
IsLast(n, map) == n \in Keys(map) /\ \A m \in Keys(map) : m <= n

\* n is the key of map.begin().
IsFirst(n, map) == n \in Keys(map) /\ \A m \in Keys(map) : n <= m

Init ==
    /\ assembling = [n \in Nalus |-> <<>>]
    /\ ready = [n \in Nalus |-> <<>>]
    /\ next = 0
    /\ stop = FALSE
    /\ run = "none"
    /\ taken = [nalu |-> 0, content |-> <<>>]
    /\ owner = "idle"
    /\ token = FALSE
    /\ stats = [acceptedBlocks |-> 0, expectedBlocks |-> 0,
                assembledNalu |-> 0, skippedNalu |-> 0]
    /\ displayed = <<>>

-------------------------------------------------------------------------------
(* The packet processor's side. *)

\* The entry AddBlock works on: the one found, or a new one with total positions.
Entry(nalu, total) ==
    IF assembling[nalu] = <<>> THEN [i \in 1..total |-> NoBlock] ELSE assembling[nalu]

\* The counters after the call, when it completes `completed` units (0 or 1).
Counted(nalu, total, completed) ==
    [acceptedBlocks |-> stats.acceptedBlocks + 1,
     expectedBlocks |-> stats.expectedBlocks + (IF assembling[nalu] = <<>> THEN total ELSE 0),
     assembledNalu |-> stats.assembledNalu + completed,
     skippedNalu |-> stats.skippedNalu]

\* Mistake: one block is enough.
AnyFilled(slots) == \E i \in 1..Len(slots) : slots[i] # NoBlock

Filled(slots) == \A i \in 1..Len(slots) : slots[i] # NoBlock

\* notify_one and notify_all: the playback thread is the only one that waits.
Notify == run' = IF run = "waiting" THEN "woken" ELSE run

\* blockIndex >= blocks.size(): logged and dropped, the entry stays.
RejectBlock(block, nalu, total) ==
    /\ block >= Len(Entry(nalu, total))
    /\ assembling' = [assembling EXCEPT ![nalu] = Entry(nalu, total)]
    /\ stats' = Counted(nalu, total, 0)
    /\ UNCHANGED <<ready, run>>

StoreBlock(block, nalu, total, data) ==
    LET slots == [Entry(nalu, total) EXCEPT ![block + 1] = data] IN
    /\ block < Len(Entry(nalu, total))
    /\ ~Filled(slots)
    /\ assembling' = [assembling EXCEPT ![nalu] = slots]
    /\ stats' = Counted(nalu, total, 0)
    /\ UNCHANGED <<ready, run>>

\* The last block: the unit moves to _readyNalus, over an entry already there.
CompleteNalu(block, nalu, total, data) ==
    LET slots == [Entry(nalu, total) EXCEPT ![block + 1] = data] IN
    /\ block < Len(Entry(nalu, total))
    /\ Filled(slots)
    /\ assembling' = [assembling EXCEPT ![nalu] = <<>>]
    /\ ready' = [ready EXCEPT ![nalu] = slots]
    /\ stats' = Counted(nalu, total, 1)
    /\ Notify

\* Under _assemblyMutex: not while the playback thread goes to sleep.
AddBlock(block, nalu, total, data) ==
    /\ run # "blocking"
    /\ \/ RejectBlock(block, nalu, total)
       \/ StoreBlock(block, nalu, total, data)
       \/ CompleteNalu(block, nalu, total, data)
    /\ UNCHANGED <<next, stop, taken, owner, token, displayed>>

-------------------------------------------------------------------------------
(* The playback thread. *)

\* SDL may have no window or renderer to give: Run then returns at once.
CreateWindowAndRenderer ==
    /\ run = "create"
    /\ run' \in {"test", "returned"}
    /\ UNCHANGED <<assemblyVars, next, stop, taken, owner, token, displayed>>

\* The condition of the loop.
TestStop ==
    /\ run = "test"
    /\ run' = IF stop \/ token THEN "returned" ELSE "poll"
    /\ UNCHANGED <<assemblyVars, next, stop, taken, owner, token, displayed>>

\* SDL_PollEvent until the queue is empty, or SDL_QUIT is found in it.
PollEvents ==
    /\ run = "poll"
    /\ run' = "lock"
    /\ stop' \in {stop, TRUE}
    /\ UNCHANGED <<assemblyVars, next, taken, owner, token, displayed>>

\* Mistake: any ready unit will do.
AnythingReady == stop \/ Keys(ready) # {}

\* The predicate of wait_for.
MayGoOn == stop \/ IsFirst(next, ready)

\* wait_for returned true: leave the loop, or take the expected unit and unlock.
\* (The branch that logs "condition true but nalu not found" cannot be reached:
\* without _stop the predicate says that the unit is there.)
GoOn ==
    /\ MayGoOn
    /\ IF stop
       THEN run' = "returned" /\ UNCHANGED <<ready, next, taken>>
       ELSE /\ taken' = [nalu |-> next, content |-> ready[next]]
            /\ ready' = [ready EXCEPT ![next] = <<>>]
            /\ next' = next + 1
            /\ run' = "decode"
    /\ UNCHANGED <<assembling, stop, owner, token, stats, displayed>>

\* wait_for finds the predicate false ...
Wait ==
    /\ ~MayGoOn
    /\ run' = "blocking"
    /\ UNCHANGED <<assemblyVars, next, stop, taken, owner, token, displayed>>

\* ... and lets the mutex go.  Stop does not need the mutex: it may come between.
FallAsleep ==
    /\ run = "blocking"
    /\ run' = "waiting"
    /\ UNCHANGED <<assemblyVars, next, stop, taken, owner, token, displayed>>

EnterWait == run = "lock" /\ (GoOn \/ Wait)

\* Notified, and the mutex taken again: the predicate decides.
WakeUp == run = "woken" /\ (GoOn \/ Wait)

\* Mistake: wait in the place of wait_for.
NoTimeout == FALSE

\* assemblyTimeout is over.  The thread has yet to take the mutex again.
Expire ==
    /\ run = "waiting"
    /\ run' = "expired"
    /\ UNCHANGED <<assemblyVars, next, stop, taken, owner, token, displayed>>

\* Mistake: the missing unit is given up with none to go on to.
SkipAnyway ==
    /\ ~MayGoOn
    /\ next' = next + 1
    /\ stats' = [stats EXCEPT !.skippedNalu = @ + 1]
    /\ run' = "test"
    /\ UNCHANGED <<assembling, ready, stop, taken, owner, token, displayed>>

\* wait_for returned false: give up the missing unit if a later one is ready.
SkipMissing ==
    /\ ~MayGoOn
    /\ IF \E f \in Nalus : IsFirst(f, ready) /\ f > next
       THEN /\ \E f \in Nalus : IsFirst(f, ready) /\ next' = f
            /\ stats' = [stats EXCEPT !.skippedNalu = @ + 1]
       ELSE UNCHANGED <<next, stats>>
    /\ run' = "test"
    /\ UNCHANGED <<assembling, ready, stop, taken, owner, token, displayed>>

TimedOut == run = "expired" /\ (GoOn \/ SkipMissing)

\* Outside the mutex, on the moved unit.  The index passed along (it->first, read
\* after the erase of it) only reaches log messages and is left out.
DecodeAndDisplayNalu ==
    /\ run = "decode"
    /\ displayed' = Append(displayed, taken)
    /\ taken' = [nalu |-> 0, content |-> <<>>]
    /\ run' = "test"
    /\ UNCHANGED <<assemblyVars, next, stop, owner, token>>

Run == \/ CreateWindowAndRenderer \/ TestStop \/ PollEvents \/ EnterWait
       \/ FallAsleep \/ WakeUp \/ Expire \/ TimedOut \/ DecodeAndDisplayNalu

-------------------------------------------------------------------------------
(* The owner of the player. *)

\* A thread that returned by itself is still joinable: Start then does nothing.
\* The thread runs as soon as it is made, before it is assigned to _playerThread.
Start ==
    /\ owner = "idle"
    /\ run = "none"
    /\ stop' = FALSE
    /\ run' = "create"
    /\ owner' = "assign"
    /\ UNCHANGED <<assemblyVars, next, taken, token, displayed>>

\* Mistake: the thread goes on with the stop token of the thread before.
AssignOldToken ==
    /\ owner = "assign"
    /\ owner' = "idle"
    /\ UNCHANGED <<assemblyVars, next, stop, run, taken, token, displayed>>

\* Until then _playerThread, and the token Run reads from it without a lock, are the
\* ones of the thread before.
AssignThread ==
    /\ owner = "assign"
    /\ owner' = "idle"
    /\ token' = FALSE
    /\ UNCHANGED <<assemblyVars, next, stop, run, taken, displayed>>

\* Stop raises the flag without the mutex, then notifies, then joins.
RaiseStop ==
    /\ owner = "idle"
    /\ run # "none"
    /\ stop' = TRUE
    /\ owner' = "notify"
    /\ UNCHANGED <<assemblyVars, next, run, taken, token, displayed>>

NotifyAll ==
    /\ owner = "notify"
    /\ Notify
    /\ owner' = "join"
    /\ UNCHANGED <<assemblyVars, next, stop, taken, token, displayed>>

\* request_stop comes before join; with _stop up its moment makes no difference.
Join ==
    /\ owner = "join"
    /\ run = "returned"
    /\ run' = "none"
    /\ owner' = "idle"
    /\ token' = TRUE
    /\ UNCHANGED <<assemblyVars, next, stop, taken, displayed>>

Stop == RaiseStop \/ NotifyAll \/ Join

-------------------------------------------------------------------------------
\* Any block of any stream, at any time, in any order and any number of times.
ReceiveBlock ==
    /\ stats.acceptedBlocks < MaxBlocks
    /\ \E b \in Block : AddBlock(b.block, b.nalu, Size[b.stream][b.nalu], b)

Next == ReceiveBlock \/ Run \/ Start \/ AssignThread \/ Stop

Spec == Init /\ [][Next]_vars

\* The playback thread is scheduled and its timeout runs out; Stop runs to its end.
PlayerFairness == WF_vars(Run) /\ WF_vars(NotifyAll) /\ WF_vars(Join)

FairSpec == Spec /\ PlayerFairness

-------------------------------------------------------------------------------
(* Properties. *)

TypeOK ==
    /\ assembling \in [Nalus -> Seq(Slots)]
    /\ ready \in [Nalus -> Seq(Block)]
    /\ next \in Nat
    /\ stop \in BOOLEAN
    /\ run \in {"none", "create", "test", "poll", "lock", "blocking", "waiting",
                "woken", "expired", "decode", "returned"}
    /\ taken \in [nalu : Nat, content : Seq(Block)]
    /\ owner \in {"idle", "assign", "notify", "join"}
    /\ token \in BOOLEAN
    /\ stats \in [acceptedBlocks : Nat, expectedBlocks : Nat,
                  assembledNalu : Nat, skippedNalu : Nat]
    /\ displayed \in Seq([nalu : Nalus, content : Seq(Block)])

\* A unit as a client cut it: all its positions, each with the block that belongs
\* there.  (After a client restart the blocks of one unit may be of both runs.)
Contents(s, n) ==
    {c \in [1..Size[s][n] -> {b \in Block : b.nalu = n}] :
        \A i \in 1..Size[s][n] : c[i].block = i - 1}

WholeUnitsOf(s, n) == {[nalu |-> n, content |-> c] : c \in Contents(s, n)}

WholeUnits == UNION {UNION {WholeUnitsOf(s, n) : n \in Nalus} : s \in Streams}

\* Whatever the network loses, repeats or reorders, the decoder is given whole units
\* only, each once, by increasing index (AddBlock, Run, DecodeAndDisplayNalu).
PlaybackPromise == INSTANCE Playback WITH Units <- WholeUnits
ImplementsPlayback == PlaybackPromise!Spec

\* A complete unit that playback has not passed waits in _readyNalus, as it is, until
\* Run takes it: no skip jumps over it and nothing of another unit touches it.  Only
\* the same unit assembled whole once more, from late, repeated or another run's
\* blocks, may come in its place: AddBlock assigns to _readyNalus[naluIndex].
Awaited(n) == ready[n] # <<>> /\ n >= next

ReplacedWhole(n) ==
    /\ stats'.assembledNalu = stats.assembledNalu + 1
    /\ [nalu |-> n, content |-> ready'[n]] \in WholeUnits
    /\ \A m \in Nalus \ {n} : ready'[m] = ready[m]

AwaitedUnitIsKept ==
    [][\A n \in Nalus : Awaited(n) =>
           \/ Awaited(n)' /\ (ready'[n] = ready[n] \/ ReplacedWhole(n))
           \/ taken'.nalu = n /\ taken'.content = ready[n]]_vars

\* Every skip is paid for by an assembled unit of its own (SkipMissing against
\* CompleteNalu): at no instant have more units been skipped than assembled.  (The
\* property is about the counters, under _assemblyMutex.  A line of the statistics
\* file reads assembledNalu before skippedNalu, so the ratio plotted from it may be
\* above 1: a unit may be completed and a skip follow between the two reads.)
SkipsArePaidFor == stats.skippedNalu <= stats.assembledNalu

\* The thread ends playback only when it was told to (_stop), when SDL gave it no
\* window, or when a restart let it read the stop token of the thread before it,
\* in the moment between the making of the thread and its assignment in Start.
ReturnsForAReason ==
    [][run # "returned" /\ run' = "returned" =>
           \/ stop
           \/ run = "create"
           \/ owner = "assign" /\ token]_vars

\* Stop returns.  Its notify_all may come when the playback thread has read _stop but
\* does not sleep yet, and is lost then: the timeout of wait_for makes up for it.
StopReturns == owner = "notify" ~> owner = "idle"
===============================================================================
