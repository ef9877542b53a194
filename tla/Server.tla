-------------------------------- MODULE Server --------------------------------
(***************************************************************************)
(* The server process (server/server.cpp): the receiver thread moves       *)
(* datagrams from the UDP socket to packetQueue, the processor thread      *)
(* moves them on, through the Reed-Solomon decoder when they are encoded,  *)
(* to Player.AddBlock, and the playback thread of Player runs beside them. *)
(*                                                                         *)
(* running is never set to false, so main stays in the first join and      *)
(* neither thread leaves its loop: the exits are not modelled.             *)
(*                                                                         *)
(* Operators introduced by "Mistake:" are explained in module Player.      *)
(***************************************************************************)
EXTENDS Player, FiniteSets

CONSTANTS
    Encoded,         \* the client runs that send Reed-Solomon packets
    Shares,          \* packet indices a block is sent under when encoded
    Needed,          \* how many different ones rscoder decodes a block from
    Forgets,         \* may rscoder drop a block it has returned, and start over?
    IdUnits,         \* how many unit indices a decoder id tells apart: 2^16
    RxCapacity,      \* the socket's receive buffer, in datagrams
    MaxPackets       \* bound: datagrams accepted in one behaviour

ASSUME EncodedAssumption == Encoded \subseteq Streams
ASSUME DecoderAssumption ==
    /\ Needed \in Nat \ {0}
    /\ Shares \subseteq Nat /\ IsFiniteSet(Shares)
    /\ Forgets \subseteq BOOLEAN /\ Forgets # {}
    /\ IdUnits \in Nat \ {0}
ASSUME BoundsAssumption == RxCapacity \in Nat \ {0} /\ MaxPackets \in Nat

\* The datagrams a client sends for a block: packet_t, or one rs_packet_t per share.
\* A header gives the unit, its number of blocks and the block index: all of them
\* follow from the block.  share is packetIndex, 0 in a packet_t.
Raw == [encodeMode : {0}, share : {0}, block : {b \in Block : b.stream \notin Encoded}]
Rs == [encodeMode : {1}, share : Shares, block : {b \in Block : b.stream \in Encoded}]
Packet == Raw \cup Rs

VARIABLES
    rx,               \* the receive buffer of the socket
    receiver,         \* where the receiver thread is
    received,         \* the packet it holds, as a sequence of at most one
    packetQueue,      \* packetQueue
    processor,        \* where the processor thread is
    packet,           \* the packet it holds, as a sequence of at most one
    shares,           \* rscoder: id -> the shares collected for it
    done,             \* rscoder: ids whose block was returned and is remembered
    acceptedPackets   \* the counter of that name

decoderVars == <<shares, done>>
receiverVars == <<receiver, received, acceptedPackets>>
processorVars == <<processor, packet>>
serverVars == <<rx, receiverVars, packetQueue, processorVars, decoderVars>>
allVars == <<vars, serverVars>>

\* Mistake: naluIndex << 32 leaves nothing of it.
IdWithoutUnit(block) == block.block

\* (naluIndex << 16) | blockIndex in a uint32_t: the unit index loses its high half.
\* Units of more than 2^16 blocks (64 MiB) are out of scope.
Id(block) == <<block.nalu % IdUnits, block.block>>

Ids == {Id(b) : b \in Block}

ServerInit ==
    /\ Init
    /\ rx = <<>>
    /\ receiver = "receive"
    /\ received = <<>>
    /\ packetQueue = <<>>
    /\ processor = "lock"
    /\ packet = <<>>
    /\ shares = [id \in Ids |-> {}]
    /\ done = {}
    /\ acceptedPackets = 0

-------------------------------------------------------------------------------
(* The kernel and the receiver thread. *)

\* main has come back from player.Start; the two threads are made after that.
Started == run # "none" /\ owner = "idle"

\* A datagram reaches the socket; one that finds the buffer full is dropped.
Arrive(datagram) ==
    /\ rx' = IF Len(rx) < RxCapacity THEN Append(rx, datagram) ELSE rx
    /\ UNCHANGED <<vars, receiverVars, packetQueue, processorVars, decoderVars>>

\* ReceiveNonBlocking.  On an empty buffer the thread spins, which changes nothing;
\* decomposePacket accepts every datagram composePacket made.
Receive ==
    /\ Started
    /\ receiver = "receive"
    /\ rx # <<>>
    /\ rx' = Tail(rx)
    /\ received' = <<Head(rx)>>
    /\ acceptedPackets' = acceptedPackets + 1
    /\ receiver' = "push"
    /\ UNCHANGED <<vars, packetQueue, processorVars, decoderVars>>

\* push_back under packetQueueMutex.
PushPacket ==
    /\ receiver = "push"
    /\ packetQueue' = packetQueue \o received
    /\ received' = <<>>
    /\ receiver' = "notify"
    /\ UNCHANGED <<vars, rx, acceptedPackets, processorVars, decoderVars>>

\* Mistake: nobody is notified.
NotifyNobody ==
    /\ receiver = "notify"
    /\ receiver' = "receive"
    /\ UNCHANGED <<vars, rx, received, acceptedPackets, packetQueue, processorVars, decoderVars>>

\* notify_one, after the mutex is released.
NotifyProcessor ==
    /\ receiver = "notify"
    /\ processor' = IF processor = "waiting" THEN "woken" ELSE processor
    /\ receiver' = "receive"
    /\ UNCHANGED <<vars, rx, received, acceptedPackets, packetQueue, packet, decoderVars>>

ReceiverThread == Receive \/ PushPacket \/ NotifyProcessor

-------------------------------------------------------------------------------
(* The processor thread. *)

\* Mistake: the front is read and not popped.
PeekPacket ==
    /\ Started
    /\ processor \in {"lock", "woken"}
    /\ packetQueue # <<>>
    /\ packet' = <<Head(packetQueue)>>
    /\ processor' = "visit"
    /\ UNCHANGED <<vars, rx, receiverVars, packetQueue, decoderVars>>

\* Mistake: a wait without its predicate, so that a spurious wake pops an empty queue.
PopUnchecked ==
    /\ Started
    /\ processor \in {"lock", "woken"}
    /\ IF packetQueue = <<>>
       THEN UNCHANGED <<packet, packetQueue>>
       ELSE packet' = <<Head(packetQueue)>> /\ packetQueue' = Tail(packetQueue)
    /\ processor' = "visit"
    /\ UNCHANGED <<vars, rx, receiverVars, decoderVars>>

\* Mistake: the back is popped instead of the front.
PopBack ==
    /\ Started
    /\ processor \in {"lock", "woken"}
    /\ IF packetQueue = <<>>
       THEN processor' = "waiting" /\ UNCHANGED <<packetQueue, packet>>
       ELSE /\ packet' = <<packetQueue[Len(packetQueue)]>>
            /\ packetQueue' = SubSeq(packetQueue, 1, Len(packetQueue) - 1)
            /\ processor' = "visit"
    /\ UNCHANGED <<vars, rx, receiverVars, decoderVars>>

\* wait on packetQueueCondVar: pop the front under the mutex, or sleep (no timeout).
WaitForPacket ==
    /\ Started
    /\ processor \in {"lock", "woken"}
    /\ IF packetQueue = <<>>
       THEN processor' = "waiting" /\ UNCHANGED <<packetQueue, packet>>
       ELSE /\ packet' = <<Head(packetQueue)>>
            /\ packetQueue' = Tail(packetQueue)
            /\ processor' = "visit"
    /\ UNCHANGED <<vars, rx, receiverVars, decoderVars>>

\* rscoder's Decode, an external library, as the server uses it: it collects the
\* shares of an id and returns the block when it has Needed different ones.  It may
\* then remember the id and ignore what follows, or forget it and start over.
Collected(p) == shares[Id(p.block)] \cup {[share |-> p.share, block |-> p.block]}

DifferentShares(collected) == Cardinality({c.share : c \in collected})

Decode(p) ==
    IF Id(p.block) \notin done /\ DifferentShares(Collected(p)) >= Needed
    THEN /\ shares' = [shares EXCEPT ![Id(p.block)] = {}]
         /\ \E forgets \in Forgets :
                done' = IF forgets THEN done ELSE done \cup {Id(p.block)}
    ELSE /\ shares' = IF Id(p.block) \in done THEN shares
                      ELSE [shares EXCEPT ![Id(p.block)] = Collected(p)]
         /\ UNCHANGED done

\* The block Decode returns.  Shares of different blocks give bytes of neither:
\* some block that is not the one the header of p speaks of.
Decoded(p) ==
    IF \A c \in Collected(p) : c.block = p.block
    THEN {p.block} ELSE Block \ {p.block}

HandOver(p, data) ==
    AddBlock(p.block.block, p.block.nalu, Size[p.block.stream][p.block.nalu], data)

\* std::visit on a packet_t.
ProcessRaw(p) == p.encodeMode = 0 /\ HandOver(p, p.block) /\ UNCHANGED decoderVars

\* std::visit on an rs_packet_t that completes its block, and on one that does not.
ProcessRs(p) ==
    /\ p.encodeMode = 1
    /\ Decode(p)
    /\ IF Id(p.block) \notin done /\ DifferentShares(Collected(p)) >= Needed
       THEN \E data \in Decoded(p) : HandOver(p, data)
       ELSE UNCHANGED vars

ProcessPacket ==
    /\ processor = "visit"
    /\ ProcessRaw(packet[1]) \/ ProcessRs(packet[1])
    /\ packet' = <<>>
    /\ processor' = "lock"
    /\ UNCHANGED <<rx, receiverVars, packetQueue>>

ProcessorThread == WaitForPacket \/ ProcessPacket

-------------------------------------------------------------------------------
\* main starts the player and never gets as far as stopping it.
PlayerThread == (Start \/ AssignThread \/ Run) /\ UNCHANGED serverVars

\* Any datagram of any client, in any order and any number of times.
AnyArrival ==
    /\ acceptedPackets + Len(rx) < MaxPackets
    /\ \E datagram \in Packet : Arrive(datagram)

ServerThreads == ReceiverThread \/ ProcessorThread \/ PlayerThread

ServerNext == AnyArrival \/ ServerThreads

\* Every thread of the process is scheduled.  The processor thread, in AddBlock, gets
\* _assemblyMutex in the end: the playback thread sleeps without it, tick by tick.
ThreadFairness ==
    /\ WF_allVars(ReceiverThread)
    /\ SF_allVars(ProcessorThread)
    /\ WF_allVars(PlayerThread)

ServerSpec == ServerInit /\ [][ServerNext]_allVars /\ ThreadFairness

-------------------------------------------------------------------------------
(* Properties. *)

\* The types.  A thread holds a packet exactly between taking it and passing it on:
\* each thread has left its loop's wait with one, never with none.
ServerTypeOK ==
    /\ TypeOK
    /\ rx \in Seq(Packet) /\ Len(rx) <= RxCapacity
    /\ receiver \in {"receive", "push", "notify"}
    /\ received \in Seq(Packet) /\ Len(received) = IF receiver = "push" THEN 1 ELSE 0
    /\ packetQueue \in Seq(Packet)
    /\ processor \in {"lock", "waiting", "woken", "visit"}
    /\ packet \in Seq(Packet) /\ Len(packet) = IF processor = "visit" THEN 1 ELSE 0
    /\ shares \in [Ids -> SUBSET [share : Shares, block : Block]]
    /\ done \subseteq Ids
    /\ acceptedPackets \in Nat

\* Through both threads and the decoder, AddBlock is only ever called with a block's
\* own data under its own indices: the server's steps are steps of Player.
ImplementsPlayer == Spec

\* The processor never sleeps on a filled queue with nobody about to wake it: the
\* wait has no timeout, and the notification comes after the mutex is released.
NoLostWakeup ==
    processor = "waiting" /\ packetQueue # <<>> => receiver = "notify"

\* No datagram makes two blocks and none is processed twice on its way through.
EveryBlockHasItsPacket ==
    stats.acceptedBlocks + Len(received) + Len(packetQueue) + Len(packet) <= acceptedPackets

\* What has been received is processed, whatever playback does meanwhile.
QueueDrains == packetQueue # <<>> ~> packetQueue = <<>>
===============================================================================
