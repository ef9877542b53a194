-------------------------------- MODULE Testbed --------------------------------
(***************************************************************************)
(* The whole test bed of README.md: one client run streams its datagrams   *)
(* in order, the network between (impaired by tcconfig) loses or delays    *)
(* some of them, the server receives, decodes, assembles and plays.        *)
(* A corrupted datagram fails the UDP checksum and counts as lost.         *)
(***************************************************************************)
EXTENDS Server

CONSTANTS
    Sent,       \* Sent[s]: the datagrams of run s, in the order it sends them
    Delayed     \* the runs whose datagrams the network may delay past later ones

ASSUME SentAssumption ==
    /\ Sent \in [Streams -> Seq(Packet)]
    /\ \A s \in Streams : \A i \in 1..Len(Sent[s]) : Sent[s][i].block.stream = s

\* By unit, by block, by share: the order of the client's three loops (module Client,
\* SentInOrder).
SentBefore(p, q) ==
    \/ p.block.nalu < q.block.nalu
    \/ p.block.nalu = q.block.nalu /\ p.block.block < q.block.block
    \/ p.block = q.block /\ p.share < q.share

ASSUME SentInOrderAssumption ==
    \A s \in Streams : \A i, j \in 1..Len(Sent[s]) :
        i < j => SentBefore(Sent[s][i], Sent[s][j])
ASSUME DelayedAssumption == Delayed \subseteq Streams

VARIABLES
    client,     \* the client run that streams
    sent,       \* how many of its datagrams it has sent
    delayed,    \* positions in Sent of the datagrams still in the network
    arrived     \* history: positions of the datagrams the socket accepted

netVars == <<client, sent, delayed, arrived>>
bedVars == <<allVars, netVars>>

BedInit ==
    /\ ServerInit
    /\ client \in Streams
    /\ sent = 0
    /\ delayed = {}
    /\ arrived = {}

\* Datagram i reaches the server's socket; a full receive buffer drops it.
Reach(i) ==
    /\ Arrive(Sent[client][i])
    /\ arrived' = IF Len(rx) < RxCapacity THEN arrived \cup {i} ELSE arrived

\* The reader thread's next Send, and what the network makes of it.
SendDatagram ==
    /\ sent < Len(Sent[client])
    /\ sent' = sent + 1
    /\ \/ Reach(sent + 1) /\ UNCHANGED delayed
       \/ UNCHANGED <<allVars, delayed, arrived>>
       \/ /\ client \in Delayed
          /\ delayed' = delayed \cup {sent + 1}
          /\ UNCHANGED <<allVars, arrived>>
    /\ UNCHANGED client

ArriveLate ==
    \E i \in delayed :
        /\ Reach(i)
        /\ delayed' = delayed \ {i}
        /\ UNCHANGED <<client, sent>>

BedNext ==
    \/ SendDatagram
    \/ ArriveLate
    \/ ServerThreads /\ UNCHANGED netVars

\* The client runs to its end; nothing is promised of a delayed datagram.
BedSpec ==
    /\ BedInit
    /\ [][BedNext]_bedVars
    /\ ThreadFairness
    /\ WF_bedVars(SendDatagram)

-------------------------------------------------------------------------------
(* Properties. *)

Displayed(n) == \E i \in 1..Len(displayed) : displayed[i].nalu = n

\* The window was closed, or never opened: nothing is played any more.
PlaybackEnded == stop \/ run = "returned"

\* A complete unit that playback has not passed is played.
AwaitedUnitIsPlayed ==
    \A n \in Nalus : Awaited(n) ~> (Displayed(n) \/ PlaybackEnded)

\* No unit becomes ready after playback has gone past it.  Run only ever looks at
\* the first key of _readyNalus, so such a unit would hide every later one.
NoStaleUnit == \A n \in Keys(ready) : n >= next

\* Delay alone hides nothing: as long as Run has skipped no unit and no datagram was
\* repeated, every unit that becomes ready still has its turn before it.
StaleUnitsComeOfSkips == stats.skippedNalu = 0 => NoStaleUnit

\* Every block counted as expected has been accepted or is missing from a unit being
\* assembled.  So accepted / expected is the share of blocks that made it of the units
\* that had at least one: the blocks of a unit lost as a whole are never expected.
BlocksAddUp ==
    stats.expectedBlocks = stats.acceptedBlocks +
        Cardinality(UNION {{<<n, i>> : i \in {i \in 1..Len(assembling[n]) :
                                                assembling[n][i] = NoBlock}} : n \in Nalus})

\* Enough datagrams of b arrived: one when raw, Needed shares when encoded.
Recoverable(b) ==
    Cardinality({i \in arrived : Sent[client][i].block = b}) >=
        (IF client \in Encoded THEN Needed ELSE 1)

\* Ids that repeat, with unit n + 2^16 under the id of unit n, do no harm by themselves:
\* in order, the decoder meets a share under an id that still holds shares of another
\* block only when too few of that other block's datagrams ever arrived.
MixedOnlyAfterLoss ==
    client \notin Delayed =>
        \A p \in {packet[i] : i \in 1..Len(packet)} :
            p.encodeMode = 1 /\ Id(p.block) \notin done =>
                \A c \in shares[Id(p.block)] : c.block # p.block => ~Recoverable(c.block)

\* The loss the code is built to survive costs nothing: when enough of every block
\* arrives, the whole video is played.
RecoverableVideoIsPlayed ==
    (\A b \in Block : b.stream = client => Recoverable(b))
        ~> ((\A n \in Nalus : Displayed(n)) \/ PlaybackEnded)
================================================================================
