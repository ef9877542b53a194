------------------------------ MODULE Statistics ------------------------------
(***************************************************************************)
(* server::Statistics (common/statistics/Statistics.h): counters that      *)
(* several threads increment, a thread that writes them to a file as one   *)
(* line per second, and the main thread that configures, starts and, on    *)
(* its way out of the process, stops it.                                   *)
(*                                                                         *)
(* _mutex is a reader-writer lock.  Increment holds it shared for one      *)
(* fetch_add, writeStatisticsLine holds it shared while it reads all the   *)
(* counters one after the other, Stop holds it alone while it joins the    *)
(* write thread.  lock says which of the long holders has it.              *)
(*                                                                         *)
(* Operators introduced by "Mistake:" are explained in module Player.      *)
(***************************************************************************)
EXTENDS Naturals, Sequences

CONSTANTS
    Default,      \* the counters of config::server::Config, in their order
    Configured,   \* what statistics.counters of server.json adds to them
    Nalus,        \* indices of NAL units
    Totals,       \* Totals[n]: the block counts unit n has in the clients' runs
    MaxPackets    \* bound: packets counted in one behaviour

Counters == Default \o Configured
Names == {Counters[i] : i \in 1..Len(Counters)}

ASSUME NamesAssumption == Default \in Seq(STRING) /\ Configured \in Seq(STRING)
ASSUME DefaultAssumption ==
    {"acceptedPackets", "acceptedBlocks", "expectedBlocks",
     "assembledNalu", "skippedNalu"} \subseteq Names
\* The default list of config::server::Config names acceptedBlocks before expectedBlocks.
ASSUME OrderAssumption ==
    \A j \in 1..Len(Counters) : Counters[j] = "expectedBlocks" =>
        \E i \in 1..(j - 1) : Counters[i] = "acceptedBlocks"
ASSUME TotalsAssumption == Totals \in [Nalus -> SUBSET (Nat \ {0})]

\* What Player::AddBlock is called with: a client numbers the blocks of a unit from 0.
CallsOf(n, total) == [nalu : {n}, block : 0..(total - 1), total : {total}]

Calls == UNION {UNION {CallsOf(n, total) : total \in Totals[n]} : n \in Nalus}

ASSUME MaxPacketsAssumption == MaxPackets \in Nat

VARIABLES
    main,        \* where the main thread is
    todo,        \* the names RegisterCounters has still to register
    columns,     \* _counters: the registered names in order
    value,       \* the counters' values, 0 before registration
    file,        \* _file: "closed" or "open"
    started,     \* _started
    lock,        \* the long holder of _mutex: "free", "main" or "writer"
    writer,      \* where the write thread is; "none": not joinable
    stopAsked,   \* the stop token of the write thread
    line,        \* the values read for the line being written
    last,        \* the last line of the file; <<>> while it has the header only
    processor,   \* where the processor thread is in Player::AddBlock
    missing,     \* Player's _assembling: the empty positions <<unit, block>> of its entries
    surplus      \* history: accepted blocks that filled no empty position

configVars == <<todo, columns, file, started>>
writerVars == <<writer, line, last>>
assemblyVars == <<processor, missing, surplus>>
workVars == <<value, assemblyVars>>
vars == <<main, configVars, lock, stopAsked, writerVars, workVars>>

Init ==
    /\ main = "configure"
    /\ todo = Counters
    /\ columns = <<>>
    /\ value = [name \in Names |-> 0]
    /\ file = "closed"
    /\ started = FALSE
    /\ lock = "free"
    /\ writer = "none"
    /\ stopAsked = FALSE
    /\ line = <<>>
    /\ last = <<>>
    /\ processor = "idle"
    /\ missing = {}
    /\ surplus = 0

-------------------------------------------------------------------------------
(* The main thread. *)

\* The path is configured or not; a file that cannot be opened ends the process.
SetFilePath ==
    /\ main = "configure"
    /\ \/ main' = "register" /\ file' \in {"open", "closed"}
       \/ main' = "exit" /\ UNCHANGED file
    /\ UNCHANGED <<todo, columns, started, lock, stopAsked, writerVars, workVars>>

\* Mistake: a name the configuration repeats is registered once more.
RegisterAgain ==
    /\ main = "register"
    /\ todo # <<>>
    /\ columns' = Append(columns, Head(todo))
    /\ todo' = Tail(todo)
    /\ UNCHANGED <<main, file, started, lock, stopAsked, writerVars, workVars>>

\* RegisterCounters, one RegisterCounter at a time: a name is registered once.
RegisterCounter ==
    /\ main = "register"
    /\ todo # <<>>
    /\ columns' = IF \E i \in 1..Len(columns) : columns[i] = Head(todo)
                  THEN columns ELSE Append(columns, Head(todo))
    /\ todo' = Tail(todo)
    /\ UNCHANGED <<main, file, started, lock, stopAsked, writerVars, workVars>>

\* Start, under the lock: open the file if that is still to do, write the header,
\* make the write thread.  exit(1) is called with the lock held.
Start ==
    /\ main = "register"
    /\ todo = <<>>
    /\ \/ /\ file' = "open"
          /\ started' = TRUE
          /\ writer' = "test"
          /\ main' = "serve"
          /\ UNCHANGED lock
       \/ /\ file = "closed"
          /\ main' = "exit"
          /\ lock' = "main"
          /\ UNCHANGED <<file, started, writer>>
    /\ UNCHANGED <<todo, columns, stopAsked, line, last, workVars>>

\* main returns: it has joined the worker threads and the destructors follow.
ReturnFromMain ==
    /\ main = "serve"
    /\ processor = "idle"
    /\ main' = "exit"
    /\ UNCHANGED <<configVars, lock, stopAsked, writerVars, workVars>>

\* Stop, from the destructor, takes the lock and asks the write thread to stop.
\* When its own thread holds the lock already it never gets it.
AskToStop ==
    /\ main = "exit"
    /\ \/ lock = "main" /\ main' = "hung" /\ UNCHANGED <<file, lock, stopAsked>>
       \/ /\ lock = "free"
          /\ writer # "none"
          /\ lock' = "main"
          /\ stopAsked' = TRUE
          /\ main' = "join"
          /\ UNCHANGED file
       \/ /\ lock = "free"
          /\ writer = "none"
          /\ file' = "closed"
          /\ main' = "ended"
          /\ UNCHANGED <<lock, stopAsked>>
    /\ UNCHANGED <<todo, columns, started, writerVars, workVars>>

\* join returns, with the lock still held; the file is closed and the lock released.
Join ==
    /\ main = "join"
    /\ writer = "done"
    /\ file' = "closed"
    /\ lock' = "free"
    /\ main' = "ended"
    /\ UNCHANGED <<todo, columns, started, stopAsked, writerVars, workVars>>

Stop == AskToStop \/ Join

-------------------------------------------------------------------------------
(* The write thread. *)

\* The condition of WriteLoop.
TestStop ==
    /\ writer = "test"
    /\ writer' = IF stopAsked THEN "done" ELSE "sleep"
    /\ UNCHANGED <<main, configVars, lock, stopAsked, line, last, workVars>>

\* A second later the stop token is tested again.
WakeUp ==
    /\ writer = "sleep"
    /\ writer' = IF stopAsked THEN "done" ELSE "write"
    /\ UNCHANGED <<main, configVars, lock, stopAsked, line, last, workVars>>

\* writeStatisticsLine: the lock, the counters in order, the line.
LockForLine ==
    /\ writer = "write"
    /\ lock = "free"
    /\ lock' = "writer"
    /\ line' = <<>>
    /\ writer' = "read"
    /\ UNCHANGED <<main, configVars, stopAsked, last, workVars>>

\* Mistake: the counters are read from the last to the first.
ReadCounterBackwards ==
    /\ writer = "read"
    /\ Len(line) < Len(columns)
    /\ line' = <<value[columns[Len(columns) - Len(line)]]>> \o line
    /\ UNCHANGED <<main, configVars, lock, stopAsked, writer, last, workVars>>

\* Mistake: a counter starts again from 0 when it has been read.
ReadAndReset ==
    /\ writer = "read"
    /\ Len(line) < Len(columns)
    /\ line' = Append(line, value[columns[Len(line) + 1]])
    /\ value' = [value EXCEPT ![columns[Len(line) + 1]] = 0]
    /\ UNCHANGED <<main, configVars, lock, stopAsked, writer, last, assemblyVars>>

ReadCounter ==
    /\ writer = "read"
    /\ Len(line) < Len(columns)
    /\ line' = Append(line, value[columns[Len(line) + 1]])
    /\ UNCHANGED <<main, configVars, lock, stopAsked, writer, last, workVars>>

\* Mistake: the lock is not given back.
WriteLineAndKeepLock ==
    /\ writer = "read"
    /\ Len(line) = Len(columns)
    /\ last' = line
    /\ line' = <<>>
    /\ writer' = "test"
    /\ UNCHANGED <<main, configVars, lock, stopAsked, workVars>>

WriteLine ==
    /\ writer = "read"
    /\ Len(line) = Len(columns)
    /\ last' = line
    /\ line' = <<>>
    /\ lock' = "free"
    /\ writer' = "test"
    /\ UNCHANGED <<main, configVars, stopAsked, workVars>>

WriteLoop == TestStop \/ WakeUp \/ LockForLine \/ ReadCounter \/ WriteLine

-------------------------------------------------------------------------------
(* The threads that count, between Start and the end of main. *)

Increment(name, delta) ==
    /\ lock # "main"
    /\ value' = [value EXCEPT ![name] = @ + delta]

CountPacket ==
    /\ main = "serve"
    /\ value["acceptedPackets"] < MaxPackets
    /\ Increment("acceptedPackets", 1)
    /\ UNCHANGED <<main, configVars, lock, stopAsked, writerVars, assemblyVars>>

\* The counting steps of Player::AddBlock, in its order; each Increment is a step of
\* its own.  First the block is counted, whatever becomes of it.
CountBlock ==
    /\ main = "serve"
    /\ processor = "idle"
    /\ value["acceptedBlocks"] < value["acceptedPackets"]
    /\ Increment("acceptedBlocks", 1)
    /\ processor' = "entry"
    /\ UNCHANGED <<main, configVars, lock, stopAsked, writerVars, missing, surplus>>

\* A unit has an entry in _assembling as long as it has an empty position.
Open(nalu, positions) == \E p \in positions : p[1] = nalu

\* The empty positions once the unit's entry is found, or made.
WithEntry(call) ==
    IF Open(call.nalu, missing) THEN missing
    ELSE missing \cup ({call.nalu} \X (0..(call.total - 1)))

\* An entry that is made has its blocks expected.
CountExpected(call) ==
    IF Open(call.nalu, missing) THEN UNCHANGED value
    ELSE Increment("expectedBlocks", call.total)

\* The block fills an empty position, perhaps the last one of its unit; or it repeats a
\* block and overwrites it; or its index is past the entry's size and it is dropped.
CountEntry ==
    /\ processor = "entry"
    /\ \E call \in Calls :
           LET position == <<call.nalu, call.block>>
               fills == position \in WithEntry(call) IN
           /\ CountExpected(call)
           /\ missing' = WithEntry(call) \ {position}
           /\ surplus' = surplus + IF fills THEN 0 ELSE 1
           /\ processor' = IF fills /\ ~Open(call.nalu, missing') THEN "complete" ELSE "idle"
    /\ UNCHANGED <<main, configVars, lock, stopAsked, writerVars>>

CountNalu ==
    /\ processor = "complete"
    /\ Increment("assembledNalu", 1)
    /\ processor' = "idle"
    /\ UNCHANGED <<main, configVars, lock, stopAsked, writerVars, missing, surplus>>

\* Player::Run counts a skip under _assemblyMutex; module Player bounds the skips.
CountSkip ==
    /\ main = "serve"
    /\ processor = "idle"
    /\ value["skippedNalu"] < value["assembledNalu"]
    /\ Increment("skippedNalu", 1)
    /\ UNCHANGED <<main, configVars, lock, stopAsked, writerVars, assemblyVars>>

Processor == CountBlock \/ CountEntry \/ CountNalu

Next ==
    \/ SetFilePath \/ RegisterCounter \/ Start \/ ReturnFromMain \/ Stop
    \/ WriteLoop
    \/ CountPacket \/ Processor \/ CountSkip

\* Every thread is scheduled.  Stop, waiting for the lock, gets it in the end: the
\* write thread leaves it free for a second between two lines.
Spec ==
    /\ Init /\ [][Next]_vars
    /\ WF_vars(WriteLoop)
    /\ SF_vars(Stop)

-------------------------------------------------------------------------------
(* Properties. *)

TypeOK ==
    /\ main \in {"configure", "register", "serve", "exit", "join", "hung", "ended"}
    /\ todo \in Seq(Names)
    /\ columns \in Seq(Names)
    /\ \A i, j \in 1..Len(columns) : columns[i] = columns[j] => i = j
    /\ value \in [Names -> Nat]
    /\ file \in {"open", "closed"}
    /\ started \in BOOLEAN
    /\ lock \in {"free", "main", "writer"}
    /\ writer \in {"none", "test", "sleep", "write", "read", "done"}
    /\ stopAsked \in BOOLEAN
    /\ line \in Seq(Nat)
    /\ last \in Seq(Nat)
    /\ processor \in {"idle", "entry", "complete"}
    /\ missing \in SUBSET (Nalus \X Nat)
    /\ surplus \in Nat

Column(written, name) == written[CHOOSE i \in 1..Len(columns) : columns[i] = name]

\* A line is no snapshot, its counters are read one after the other while the threads
\* count on; and AddBlock counts a block that repeats another, or that it drops, as
\* accepted and expects no block for it.  All the same, but for such blocks, the blocks
\* of a line run ahead of the expected ones by no more than the one that is in AddBlock:
\* acceptedBlocks is read before expectedBlocks.  So the plotted ratio is above 1 only by
\* that block and by repeated or dropped ones.
AcceptedWithinExpected ==
    last # <<>> =>
        Column(last, "acceptedBlocks") <= Column(last, "expectedBlocks") + surplus + 1

\* Counters only grow, and so does every column of the file, line by line.
ColumnsGrow ==
    [][last # <<>> => Len(last') = Len(last) /\ \A i \in 1..Len(last) : last[i] <= last'[i]]_last

\* What has been counted shows in the file, while the server serves (WriteLoop): the
\* first packet, though others may follow at once, and the last.
CountShows ==
    \A n \in {1, MaxPackets} :
        value["acceptedPackets"] = n /\ main = "serve"
            ~> main # "serve" \/ (last # <<>> /\ Column(last, "acceptedPackets") >= n)

\* The destructor's Stop ends unless it asks for the lock inside Start, or asks the
\* write thread to stop after that thread's last look at its stop token: Stop then
\* holds the lock the thread needs to finish, and each waits for the other.
Hung == main = "hung" \/ (main = "join" /\ writer = "write")

StopEndsOrHangs == main = "exit" ~> main = "ended" \/ Hung
===============================================================================
