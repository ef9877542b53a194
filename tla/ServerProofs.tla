----------------------------- MODULE ServerProofs -----------------------------
(***************************************************************************)
(* Proofs about the threads of Server, for every stream, encoding, decoder *)
(* and buffer size.                                                        *)
(***************************************************************************)
EXTENDS Server, PlayerProofs

Counters == [acceptedBlocks : Nat, expectedBlocks : Nat, assembledNalu : Nat, skippedNalu : Nat]

\* Each of the two threads holds a packet exactly while it has one to pass on.
Hands ==
    /\ received \in Seq(Packet) /\ Len(received) = IF receiver = "push" THEN 1 ELSE 0
    /\ packet \in Seq(Packet) /\ Len(packet) = IF processor = "visit" THEN 1 ELSE 0

Queues ==
    /\ rx \in Seq(Packet)
    /\ packetQueue \in Seq(Packet)
    /\ acceptedPackets \in Nat
    /\ stats \in Counters

\* The invariant the server's threads keep between them.
ThreadInv == Hands /\ Queues /\ NoLostWakeup /\ EveryBlockHasItsPacket

LEMMA PacketBlock ==
    ASSUME NEW p \in Packet
    PROVE  /\ p.block \in Block /\ p.block.nalu \in Nalus
           /\ Size[p.block.stream][p.block.nalu] \in Nat
<1>1. p.block \in Block
  BY DEF Packet, Raw, Rs
<1>2. PICK s \in Streams, n \in Nalus : p.block \in BlocksOf(s, n)
  BY <1>1 DEF Block
<1>3. QED  BY <1>1, <1>2, SizeAssumption DEF BlocksOf

\* The counters in a call of AddBlock and in a step of the playback thread.
LEMMA AddBlockCount ==
    ASSUME stats \in Counters, NEW nalu, NEW total \in Nat, NEW block, NEW data,
           AddBlock(block, nalu, total, data)
    PROVE  stats' \in Counters /\ stats'.acceptedBlocks = stats.acceptedBlocks + 1
<1>1. stats' = Counted(nalu, total, 0) \/ stats' = Counted(nalu, total, 1)
  BY DEF AddBlock, RejectBlock, StoreBlock, CompleteNalu
<1>2. QED  BY <1>1 DEF Counted, Counters

LEMMA PlaybackCount ==
    ASSUME stats \in Counters, Start \/ AssignThread \/ Run
    PROVE  stats' \in Counters /\ stats'.acceptedBlocks = stats.acceptedBlocks
<1>1. stats' = stats \/ stats' = [stats EXCEPT !.skippedNalu = @ + 1]
  BY DEF Start, AssignThread, Run, CreateWindowAndRenderer, TestStop, PollEvents, EnterWait, FallAsleep,
         WakeUp, Expire, TimedOut, GoOn, Wait, SkipMissing, DecodeAndDisplayNalu, assemblyVars
<1>2. QED  BY <1>1 DEF Counters

LEMMA ThreadInvInit == ServerInit => ThreadInv
<1> SUFFICES ASSUME ServerInit PROVE ThreadInv
  OBVIOUS
<1>1. Hands /\ Queues
  BY EmptySeq DEF ServerInit, Init, Hands, Queues, Counters
<1>2. NoLostWakeup /\ EveryBlockHasItsPacket
  BY EmptySeq DEF ServerInit, Init, NoLostWakeup, EveryBlockHasItsPacket
<1>3. QED  BY <1>1, <1>2 DEF ThreadInv

LEMMA Lengths ==
    ASSUME ThreadInv
    PROVE  /\ Len(received) \in Nat /\ Len(packetQueue) \in Nat /\ Len(packet) \in Nat
           /\ acceptedPackets \in Nat /\ stats.acceptedBlocks \in Nat
           /\ stats.acceptedBlocks + Len(received) + Len(packetQueue) + Len(packet)
                <= acceptedPackets
<1>1. received \in Seq(Packet) /\ packetQueue \in Seq(Packet) /\ packet \in Seq(Packet)
  BY DEF ThreadInv, Hands, Queues
<1>2. Len(received) \in Nat /\ Len(packetQueue) \in Nat /\ Len(packet) \in Nat
  BY <1>1, LenProperties
<1>3. QED  BY <1>2 DEF ThreadInv, Queues, Counters, EveryBlockHasItsPacket

LEMMA OnePacket ==
    ASSUME NEW p \in Packet
    PROVE  <<p>> \in Seq(Packet) /\ Len(<<p>>) = 1
OBVIOUS

LEMMA ArriveKeeps ==
    ASSUME ThreadInv, NEW datagram \in Packet, Arrive(datagram)
    PROVE  ThreadInv'
<1>1. rx' \in Seq(Packet)
  BY AppendProperties DEF ThreadInv, Queues, Arrive
<1>2. QED
  BY <1>1 DEF ThreadInv, Hands, Queues, NoLostWakeup, EveryBlockHasItsPacket, Arrive,
              vars, receiverVars, processorVars, decoderVars

LEMMA ReceiverKeeps ==
    ASSUME ThreadInv, ReceiverThread
    PROVE  ThreadInv'
<1>1. CASE Receive
  <2>1. rx' \in Seq(Packet) /\ received' \in Seq(Packet) /\ Len(received') = 1 /\ Len(received) = 0
    BY <1>1, HeadTailProperties DEF Receive, ThreadInv, Queues, Hands
  <2>2. acceptedPackets' = acceptedPackets + 1
    BY <1>1 DEF Receive
  <2>3. Hands' /\ Queues' /\ NoLostWakeup'
    BY <1>1, <2>1, <2>2 DEF Receive, ThreadInv, Hands, Queues, NoLostWakeup, vars,
                            processorVars, decoderVars
  <2>4. UNCHANGED <<stats, packetQueue, packet>>
    BY <1>1 DEF Receive, vars, processorVars
  <2>5. EveryBlockHasItsPacket'
    BY <2>1, <2>2, <2>4, Lengths DEF EveryBlockHasItsPacket
  <2>6. QED  BY <2>3, <2>5 DEF ThreadInv
<1>2. CASE PushPacket
  <2>1. /\ packetQueue' \in Seq(Packet) /\ Len(packetQueue') = Len(packetQueue) + 1
        /\ received' = <<>> /\ Len(received) = 1 /\ receiver' = "notify"
    <3>1. /\ packetQueue \in Seq(Packet) /\ received \in Seq(Packet) /\ Len(received) = 1
          /\ packetQueue' = packetQueue \o received /\ received' = <<>> /\ receiver' = "notify"
      BY <1>2 DEF PushPacket, ThreadInv, Hands, Queues
    <3>2. /\ packetQueue \o received \in Seq(Packet)
          /\ Len(packetQueue \o received) = Len(packetQueue) + Len(received)
      BY <3>1, ConcatProperties
    <3>3. Len(packetQueue) \in Nat
      BY Lengths
    <3>4. QED  BY <3>1, <3>2, <3>3
  <2>2. Hands' /\ Queues' /\ NoLostWakeup'
    BY <1>2, <2>1, EmptySeq DEF PushPacket, ThreadInv, Hands, Queues, NoLostWakeup, vars,
                                processorVars, decoderVars
  <2>3. UNCHANGED <<stats, acceptedPackets, packet>>
    BY <1>2 DEF PushPacket, vars, processorVars
  <2>4. EveryBlockHasItsPacket'
    BY <2>1, <2>3, EmptySeq, Lengths DEF EveryBlockHasItsPacket
  <2>5. QED  BY <2>2, <2>4 DEF ThreadInv
<1>3. CASE NotifyProcessor
  BY <1>3 DEF NotifyProcessor, ThreadInv, Hands, Queues, NoLostWakeup, EveryBlockHasItsPacket,
              vars, decoderVars
<1>4. QED  BY <1>1, <1>2, <1>3 DEF ReceiverThread

LEMMA ProcessorKeeps ==
    ASSUME ThreadInv, ProcessorThread
    PROVE  ThreadInv'
<1>1. CASE WaitForPacket /\ packetQueue = <<>>
  BY <1>1 DEF WaitForPacket, ThreadInv, Hands, Queues, NoLostWakeup, EveryBlockHasItsPacket,
              vars, receiverVars, decoderVars
<1>2. CASE WaitForPacket /\ packetQueue # <<>>
  <2>1. /\ packetQueue' \in Seq(Packet) /\ Len(packetQueue') = Len(packetQueue) - 1
        /\ packet' \in Seq(Packet) /\ Len(packet') = 1 /\ Len(packet) = 0
    <3>1. /\ packetQueue \in Seq(Packet) /\ packetQueue # <<>> /\ Len(packet) = 0
          /\ packet' = <<Head(packetQueue)>> /\ packetQueue' = Tail(packetQueue)
      BY <1>2 DEF WaitForPacket, ThreadInv, Hands, Queues
    <3>2. /\ Head(packetQueue) \in Packet /\ Tail(packetQueue) \in Seq(Packet)
          /\ Len(Tail(packetQueue)) = Len(packetQueue) - 1
      BY <3>1, HeadTailProperties
    <3>3. QED  BY <3>1, <3>2, OnePacket
  <2>2. Hands' /\ Queues' /\ NoLostWakeup'
    BY <1>2, <2>1 DEF WaitForPacket, ThreadInv, Hands, Queues, NoLostWakeup, vars,
                      receiverVars, decoderVars
  <2>3. UNCHANGED <<stats, acceptedPackets, received>>
    BY <1>2 DEF WaitForPacket, vars, receiverVars
  <2>4. EveryBlockHasItsPacket'
    BY <2>1, <2>3, Lengths DEF EveryBlockHasItsPacket
  <2>5. QED  BY <2>2, <2>4 DEF ThreadInv
<1>3. CASE ProcessPacket
  <2>1. packet[1] \in Packet /\ Len(packet) = 1
    BY <1>3, ElementOfSeq DEF ProcessPacket, ThreadInv, Hands
  <2>2. /\ stats' \in Counters
        /\ stats'.acceptedBlocks \in {stats.acceptedBlocks, stats.acceptedBlocks + 1}
    <3>1. ASSUME NEW data, HandOver(packet[1], data)
          PROVE  stats' \in Counters /\ stats'.acceptedBlocks = stats.acceptedBlocks + 1
      BY <2>1, <3>1, PacketBlock, AddBlockCount DEF HandOver, ThreadInv, Queues
    <3>2. (\E data : HandOver(packet[1], data)) \/ UNCHANGED stats
      BY <1>3 DEF ProcessPacket, ProcessRaw, ProcessRs, vars
    <3>3. QED  BY <3>1, <3>2 DEF ThreadInv, Queues
  <2>3. Hands' /\ Queues' /\ NoLostWakeup'
    BY <1>3, <2>2, EmptySeq DEF ProcessPacket, ThreadInv, Hands, Queues, NoLostWakeup, receiverVars
  <2>4. UNCHANGED <<acceptedPackets, received, packetQueue>> /\ Len(packet') = 0
    BY <1>3, EmptySeq DEF ProcessPacket, receiverVars
  <2>5. EveryBlockHasItsPacket'
    BY <2>1, <2>2, <2>4, Lengths DEF EveryBlockHasItsPacket
  <2>6. QED  BY <2>3, <2>5 DEF ThreadInv
<1>4. QED  BY <1>1, <1>2, <1>3 DEF ProcessorThread

LEMMA PlayerKeeps ==
    ASSUME ThreadInv, PlayerThread
    PROVE  ThreadInv'
<1>1. stats' \in Counters /\ stats'.acceptedBlocks = stats.acceptedBlocks
  BY PlaybackCount DEF PlayerThread, ThreadInv, Queues
<1>2. QED
  BY <1>1 DEF PlayerThread, ThreadInv, Hands, Queues, NoLostWakeup, EveryBlockHasItsPacket,
              serverVars, receiverVars, processorVars

LEMMA ThreadInvNext == ThreadInv /\ [ServerNext]_allVars => ThreadInv'
<1> SUFFICES ASSUME ThreadInv, [ServerNext]_allVars PROVE ThreadInv'
  OBVIOUS
<1>1. CASE UNCHANGED allVars
  BY <1>1 DEF allVars, vars, serverVars, receiverVars, processorVars, ThreadInv, Hands, Queues,
              NoLostWakeup, EveryBlockHasItsPacket
<1>2. CASE AnyArrival
  BY <1>2, ArriveKeeps DEF AnyArrival
<1>3. QED
  BY <1>1, <1>2, ReceiverKeeps, ProcessorKeeps, PlayerKeeps DEF ServerNext, ServerThreads

THEOREM ThreadInvariance == ServerSpec => []ThreadInv
<1>1. QED  BY ThreadInvInit, ThreadInvNext, PTL DEF ServerSpec

\* The processor thread, whose wait has no timeout, never sleeps on a filled queue
\* unless the receiver is about to notify it, although that notification comes after
\* packetQueueMutex is released.
THEOREM NoWakeupIsLost == ServerSpec => []NoLostWakeup
<1>1. ThreadInv => NoLostWakeup
  BY DEF ThreadInv
<1>2. QED  BY <1>1, ThreadInvariance, PTL

\* No datagram is processed twice on its way through socket, queue and decoder, so
\* accepted blocks never outnumber accepted packets.
THEOREM BlocksHavePackets == ServerSpec => []EveryBlockHasItsPacket
<1>1. ThreadInv => EveryBlockHasItsPacket
  BY DEF ThreadInv
<1>2. QED  BY <1>1, ThreadInvariance, PTL

-------------------------------------------------------------------------------
(* The types.  The decoder may return any block when ids collide, so Player's     *)
(* invariant does not hold of the server in general; a weaker one does.           *)

PlayerTypes == TypeOK /\ (run = "decode" => taken.nalu \in Nalus)

LEMMA AddBlockTypes ==
    ASSUME PlayerTypes, NEW nalu \in Nalus, NEW total \in Nat, NEW block \in Nat,
           NEW data \in Block, AddBlock(block, nalu, total, data)
    PROVE  PlayerTypes'
<1> DEFINE entry == Entry(nalu, total)
           slots == [entry EXCEPT ![block + 1] = data]
<1>1. TypeOK /\ NoBlock \in Slots /\ data \in Slots
  BY DEF PlayerTypes, Slots
<1>2. entry \in Seq(Slots)
  <2>1. [i \in 1..total |-> NoBlock] \in Seq(Slots)
    BY <1>1
  <2>2. QED  BY <1>1, <2>1 DEF Entry, TypeOK
<1> HIDE DEF entry
<1>3. block < Len(entry) => slots \in Seq(Slots)
  <2>1. ASSUME block < Len(entry) PROVE block + 1 \in 1..Len(entry)
    BY <1>2, <2>1, LenProperties
  <2>2. QED  BY <1>1, <1>2, <2>1, ExceptSeq
<1>4. block < Len(entry) /\ Filled(slots) => slots \in Seq(Block)
  <2> SUFFICES ASSUME block < Len(entry), Filled(slots) PROVE slots \in Seq(Block)
    OBVIOUS
  <2>1. slots \in Seq(Slots)
    BY <1>3
  <2> HIDE DEF slots
  <2>2. \A i \in 1..Len(slots) : slots[i] \in Block
    BY <2>1, ElementOfSeq DEF Filled, Slots
  <2>3. QED  BY <2>1, <2>2
<1> HIDE DEF slots
<1>5. <<>> \in Seq(Slots)
  BY EmptySeq
<1>6. /\ assembling' \in [Nalus -> Seq(Slots)]
      /\ ready' \in [Nalus -> Seq(Block)]
  <2>1. CASE RejectBlock(block, nalu, total)
    BY <1>1, <1>2, <2>1 DEF RejectBlock, TypeOK, entry
  <2>2. CASE StoreBlock(block, nalu, total, data)
    BY <1>1, <1>3, <2>2 DEF StoreBlock, TypeOK, entry, slots
  <2>3. CASE CompleteNalu(block, nalu, total, data)
    BY <1>1, <1>4, <1>5, <2>3 DEF CompleteNalu, TypeOK, entry, slots
  <2>4. QED  BY <2>1, <2>2, <2>3 DEF AddBlock
<1>7. stats' \in Counters
  BY <1>1, AddBlockCount DEF Counters, TypeOK
<1>8. run' \in RunStates /\ (run' = "decode") = (run = "decode")
  <2>1. UNCHANGED run \/ Notify
    BY DEF AddBlock, RejectBlock, StoreBlock, CompleteNalu
  <2>2. QED  BY <1>1, <2>1, NotifyKind DEF RunStates, TypeOK
<1>9. UNCHANGED <<next, stop, taken, owner, token, displayed>>
  BY DEF AddBlock
<1>10. QED  BY <1>1, <1>6, <1>7, <1>8, <1>9 DEF PlayerTypes, TypeOK, RunStates, Counters

LEMMA PlayerStepTypes ==
    ASSUME PlayerTypes, TakeStep \/ SkipStep \/ DecodeAndDisplayNalu \/ ControlStep
    PROVE  PlayerTypes'
<1>1. TypeOK
  BY DEF PlayerTypes
<1>2. CASE TakeStep
  <2>1. ready[next] \in Seq(Block) /\ ready' \in [Nalus -> Seq(Block)]
    BY <1>1, <1>2, EmptySeq DEF TakeStep, TypeOK
  <2>2. QED  BY <1>1, <1>2, <2>1, NalusAssumption DEF TakeStep, PlayerTypes, TypeOK
<1>3. CASE SkipStep
  <2>1. next' \in Nat /\ stats' \in Counters
    <3>1. stats \in Counters
      BY <1>1 DEF TypeOK, Counters
    <3>2. stats' = [stats EXCEPT !.skippedNalu = @ + 1] /\ next' \in Nalus
      BY <1>3 DEF SkipStep
    <3>3. stats' \in Counters
      BY <3>1, <3>2 DEF Counters
    <3>4. QED  BY <3>2, <3>3, NalusAssumption
  <2>2. QED  BY <1>1, <1>3, <2>1 DEF SkipStep, PlayerTypes, TypeOK, Counters
<1>4. CASE DecodeAndDisplayNalu
  <2>1. taken \in [nalu : Nalus, content : Seq(Block)]
    BY <1>1, <1>4 DEF DecodeAndDisplayNalu, PlayerTypes, TypeOK
  <2>2. displayed' \in Seq([nalu : Nalus, content : Seq(Block)])
    BY <1>1, <1>4, <2>1, AppendProperties DEF DecodeAndDisplayNalu, TypeOK
  <2>3. QED
    BY <1>1, <1>4, <2>2, EmptySeq DEF DecodeAndDisplayNalu, PlayerTypes, TypeOK, assemblyVars
<1>5. CASE ControlStep
  BY <1>1, <1>5 DEF ControlStep, PlayerTypes, TypeOK, RunStates
<1>6. QED  BY <1>2, <1>3, <1>4, <1>5

\* What the server's threads do to the player is what the player does by itself,
\* but for the data the decoder returns.
LEMMA PlayerThreadKind ==
    ASSUME TypeOK, PlayerThread
    PROVE  StepKind /\ [Next]_vars
<1>1. Next
  BY DEF PlayerThread, Next
<1>2. QED  BY <1>1, StepKinds

LEMMA PlayerThreadTypes ==
    ASSUME PlayerTypes, PlayerThread
    PROVE  PlayerTypes'
<1>1. CASE ReceiveBlock
  <2>1. PICK b \in Block : AddBlock(b.block, b.nalu, Size[b.stream][b.nalu], b)
    BY <1>1 DEF ReceiveBlock
  <2>2. QED  BY <2>1, BlockFields, AddBlockTypes
<1>2. QED  BY <1>1, PlayerThreadKind, PlayerStepTypes DEF StepKind, PlayerTypes

LEMMA PlayerTypesKept ==
    ASSUME PlayerTypes, UNCHANGED vars
    PROVE  PlayerTypes'
BY DEF PlayerTypes, TypeOK, vars

-------------------------------------------------------------------------------
(* The decoder. *)

Share == [share : Shares, block : Block]

\* A collected share belongs to the id it is collected for, and to an encoded run.
SharesUnderTheirId ==
    /\ shares \in [Ids -> SUBSET Share]
    /\ done \subseteq Ids
    /\ \A id \in Ids : \A c \in shares[id] : c.block.stream \in Encoded /\ Id(c.block) = id

ServerInv ==
    /\ ThreadInv
    /\ PlayerTypes
    /\ SharesUnderTheirId
    /\ Len(rx) <= RxCapacity
    /\ receiver \in {"receive", "push", "notify"}
    /\ processor \in {"lock", "waiting", "woken", "visit"}

\* The bound of AnyArrival.
Bounded == acceptedPackets + Len(rx) <= MaxPackets

LEMMA BlockId ==
    ASSUME NEW b \in Block PROVE Id(b) \in Ids
BY DEF Ids

LEMMA CollectedShares ==
    ASSUME SharesUnderTheirId, NEW p \in Rs
    PROVE  /\ p.block \in Block /\ Id(p.block) \in Ids
           /\ Collected(p) \in SUBSET Share
           /\ \A c \in Collected(p) : c.block.stream \in Encoded /\ Id(c.block) = Id(p.block)
<1>1. p.block \in Block /\ p.block.stream \in Encoded /\ p.share \in Shares
  BY DEF Rs
<1>2. Id(p.block) \in Ids
  BY <1>1, BlockId
<1>3. [share |-> p.share, block |-> p.block] \in Share
  BY <1>1 DEF Share
<1>4. QED  BY <1>1, <1>2, <1>3 DEF Collected, SharesUnderTheirId

LEMMA DecodeKeepsIds ==
    ASSUME SharesUnderTheirId, NEW p \in Rs, Decode(p)
    PROVE  SharesUnderTheirId'
<1> DEFINE id == Id(p.block)
<1>1. /\ id \in Ids /\ Collected(p) \in SUBSET Share
      /\ \A c \in Collected(p) : c.block.stream \in Encoded /\ Id(c.block) = id
  BY CollectedShares
<1>2. done' = done \/ done' = done \cup {id}
  BY DEF Decode
<1>3. \/ shares' = shares
      \/ shares' = [shares EXCEPT ![id] = {}]
      \/ shares' = [shares EXCEPT ![id] = Collected(p)]
  BY DEF Decode
<1> HIDE DEF id
<1>4. shares' \in [Ids -> SUBSET Share]
  BY <1>1, <1>3 DEF SharesUnderTheirId
<1>5. \A i \in Ids : \A c \in shares'[i] : c.block.stream \in Encoded /\ Id(c.block) = i
  BY <1>1, <1>3 DEF SharesUnderTheirId
<1>6. QED  BY <1>1, <1>2, <1>4, <1>5 DEF SharesUnderTheirId

LEMMA PacketKinds ==
    ASSUME NEW p \in Packet
    PROVE  (p.encodeMode = 0 => p \in Raw) /\ (p.encodeMode = 1 => p \in Rs)
BY DEF Packet, Raw, Rs

\* What ProcessPacket does with the packet in hand.
LEMMA Processed ==
    ASSUME ServerInv, ProcessPacket
    PROVE  /\ packet[1] \in Packet /\ Len(packet) = 1 /\ UNCHANGED <<rx, receiverVars, packetQueue>>
           /\ packet' = <<>> /\ processor' = "lock"
           /\ \/ UNCHANGED vars
              \/ \E data \in Block : HandOver(packet[1], data)
           /\ \/ UNCHANGED decoderVars
              \/ packet[1] \in Rs /\ Decode(packet[1])
<1>1. packet[1] \in Packet /\ Len(packet) = 1
  BY ElementOfSeq DEF ServerInv, ThreadInv, Hands, ProcessPacket
<1>2. CASE ProcessRaw(packet[1])
  BY <1>1, <1>2, PacketBlock DEF ProcessRaw, ProcessPacket
<1>3. CASE ProcessRs(packet[1])
  <2>1. packet[1] \in Rs /\ Decode(packet[1]) /\ packet[1].block \in Block
    BY <1>1, <1>3, PacketKinds, PacketBlock DEF ProcessRs
  <2>2. Decoded(packet[1]) \subseteq Block
    BY <2>1 DEF Decoded
  <2>3. UNCHANGED vars \/ \E data \in Block : HandOver(packet[1], data)
    BY <1>3, <2>2 DEF ProcessRs
  <2>4. QED  BY <1>1, <2>1, <2>3 DEF ProcessPacket
<1>4. QED  BY <1>2, <1>3 DEF ProcessPacket

LEMMA HandOverTypes ==
    ASSUME PlayerTypes, NEW p \in Packet, NEW data \in Block, HandOver(p, data)
    PROVE  PlayerTypes'
<1>1. /\ p.block \in Block /\ p.block.nalu \in Nalus /\ p.block.block \in Nat
      /\ Size[p.block.stream][p.block.nalu] \in Nat
  BY PacketBlock, BlockFields
<1>2. QED  BY <1>1, AddBlockTypes DEF HandOver

LEMMA ServerInvInit == ServerInit => ServerInv
<1> SUFFICES ASSUME ServerInit PROVE ServerInv
  OBVIOUS
<1>1. ThreadInv
  BY ThreadInvInit
<1>2. Init => Inv
  BY InvInit
<1>3. PlayerTypes
  BY <1>2 DEF ServerInit, Init, Inv, PlayerTypes
<1>4. SharesUnderTheirId
  BY DEF ServerInit, SharesUnderTheirId
<1>5. Len(rx) = 0 /\ RxCapacity \in Nat
  BY BoundsAssumption DEF ServerInit
<1>6. QED  BY <1>1, <1>3, <1>4, <1>5 DEF ServerInit, ServerInv

\* A step of the server, but for the arrival of a datagram.
LEMMA ServerInvThreads == ServerInv /\ ServerThreads => ServerInv'
<1> SUFFICES ASSUME ServerInv, ServerThreads PROVE ServerInv'
  OBVIOUS
<1>1. ThreadInv'
  BY ReceiverKeeps, ProcessorKeeps, PlayerKeeps DEF ServerThreads, ServerInv
<1>2. /\ Len(rx) \in Nat /\ acceptedPackets \in Nat /\ rx \in Seq(Packet)
      /\ RxCapacity \in Nat /\ MaxPackets \in Nat
  BY LenProperties, BoundsAssumption DEF ServerInv, ThreadInv, Queues
<1>3. PlayerTypes'
  <2>1. CASE ReceiverThread \/ WaitForPacket
    <3>1. UNCHANGED vars
      BY <2>1 DEF ReceiverThread, Receive, PushPacket, NotifyProcessor, WaitForPacket
    <3>2. QED  BY <3>1, PlayerTypesKept DEF ServerInv
  <2>2. CASE ProcessPacket
    BY <2>2, Processed, HandOverTypes, PlayerTypesKept DEF ServerInv
  <2>3. CASE PlayerThread
    BY <2>3, PlayerThreadTypes DEF ServerInv
  <2>4. QED  BY <2>1, <2>2, <2>3 DEF ServerThreads, ProcessorThread
<1>4. SharesUnderTheirId'
  <2>1. CASE UNCHANGED decoderVars
    BY <2>1 DEF ServerInv, SharesUnderTheirId, decoderVars
  <2>2. CASE ProcessPacket
    BY <2>1, <2>2, Processed, DecodeKeepsIds DEF ServerInv
  <2>3. CASE ReceiverThread \/ WaitForPacket \/ PlayerThread
    BY <2>1, <2>3 DEF ReceiverThread, Receive, PushPacket, NotifyProcessor, WaitForPacket,
                      PlayerThread, serverVars
  <2>4. QED  BY <2>2, <2>3 DEF ServerThreads, ProcessorThread
<1>5. /\ Len(rx') <= RxCapacity
      /\ receiver' \in {"receive", "push", "notify"}
      /\ processor' \in {"lock", "waiting", "woken", "visit"}
  <2>1. CASE Receive
    <3>1. Len(rx') = Len(rx) - 1 /\ acceptedPackets' = acceptedPackets + 1
      BY <1>2, <2>1, HeadTailProperties DEF Receive
    <3>2. QED  BY <1>2, <2>1, <3>1 DEF Receive, ServerInv, processorVars
  <2>2. CASE PushPacket \/ NotifyProcessor
    BY <2>2 DEF PushPacket, NotifyProcessor, ServerInv, processorVars
  <2>3. CASE WaitForPacket
    BY <2>3 DEF WaitForPacket, ServerInv, receiverVars
  <2>4. CASE ProcessPacket
    BY <2>4 DEF ProcessPacket, ServerInv, receiverVars
  <2>5. CASE PlayerThread
    BY <2>5 DEF PlayerThread, ServerInv, serverVars, receiverVars, processorVars
  <2>6. QED
    BY <2>1, <2>2, <2>3, <2>4, <2>5 DEF ServerThreads, ReceiverThread, ProcessorThread
<1>6. QED  BY <1>1, <1>3, <1>4, <1>5 DEF ServerInv

LEMMA ServerInvArrive ==
    ASSUME ServerInv, NEW datagram \in Packet, Arrive(datagram)
    PROVE  ServerInv'
<1>1. ThreadInv'
  BY ArriveKeeps DEF ServerInv
<1>2. rx \in Seq(Packet) /\ Len(rx) \in Nat /\ RxCapacity \in Nat
  BY LenProperties, BoundsAssumption DEF ServerInv, ThreadInv, Queues
<1>3. rx' = rx \/ (Len(rx) < RxCapacity /\ Len(rx') = Len(rx) + 1)
  BY <1>2, AppendProperties DEF Arrive
<1>4. Len(rx') <= RxCapacity
  BY <1>2, <1>3 DEF ServerInv
<1>5. PlayerTypes' /\ SharesUnderTheirId'
  BY PlayerTypesKept DEF Arrive, ServerInv, SharesUnderTheirId, decoderVars
<1>6. QED
  BY <1>1, <1>4, <1>5 DEF ServerInv, Arrive, receiverVars, processorVars

LEMMA ServerInvStutter ==
    ASSUME ServerInv, UNCHANGED allVars
    PROVE  ServerInv'
<1>1. ThreadInv'
  BY ThreadInvNext DEF ServerInv
<1>2. QED
  BY <1>1, PlayerTypesKept
     DEF ServerInv, allVars, serverVars, receiverVars, processorVars, decoderVars, SharesUnderTheirId

LEMMA ServerInvNext == ServerInv /\ [ServerNext]_allVars => ServerInv'
BY ServerInvArrive, ServerInvStutter, ServerInvThreads DEF ServerNext, AnyArrival

LEMMA BoundedNext == ServerInv /\ Bounded /\ [ServerNext]_allVars => Bounded'
<1> SUFFICES ASSUME ServerInv, Bounded, [ServerNext]_allVars PROVE Bounded'
  OBVIOUS
<1>1. /\ rx \in Seq(Packet) /\ Len(rx) \in Nat /\ acceptedPackets \in Nat /\ MaxPackets \in Nat
  BY LenProperties, BoundsAssumption DEF ServerInv, ThreadInv, Queues
<1>2. CASE AnyArrival
  <2>1. PICK datagram \in Packet : Arrive(datagram)
    BY <1>2 DEF AnyArrival
  <2>2. rx' = rx \/ Len(rx') = Len(rx) + 1
    BY <1>1, <2>1, AppendProperties DEF Arrive
  <2>3. acceptedPackets' = acceptedPackets /\ acceptedPackets + Len(rx) < MaxPackets
    BY <1>2, <2>1 DEF AnyArrival, Arrive, receiverVars
  <2>4. QED  BY <1>1, <2>2, <2>3 DEF Bounded
<1>3. CASE Receive
  <2>1. Len(rx') = Len(rx) - 1 /\ acceptedPackets' = acceptedPackets + 1
    BY <1>1, <1>3, HeadTailProperties DEF Receive
  <2>2. QED  BY <1>1, <2>1 DEF Bounded
<1>4. CASE ~AnyArrival /\ ~Receive
  <2>1. UNCHANGED <<rx, acceptedPackets>>
    BY <1>4 DEF ServerNext, ServerThreads, ReceiverThread, ProcessorThread, PushPacket,
                NotifyProcessor, WaitForPacket, ProcessPacket, PlayerThread, allVars, serverVars,
                receiverVars
  <2>2. QED  BY <2>1 DEF Bounded
<1>5. QED  BY <1>2, <1>3, <1>4

\* ServerInv, the strengthening of the server's safety properties, always holds.
THEOREM ServerInvariance == ServerSpec => [](ServerInv /\ Bounded)
<1>1. ServerInit => Bounded
  BY BoundsAssumption DEF ServerInit, Bounded
<1>2. QED  BY <1>1, ServerInvInit, ServerInvNext, BoundedNext, PTL DEF ServerSpec

\* Every variable of the server keeps its type, whatever ids the decoder mixes up; in
\* particular the receive buffer keeps its limit, Player is handed nothing but blocks
\* (Decode, AddBlock), and each thread goes on from its wait with a packet, the
\* processor never from an empty queue (server.cpp's wait predicate).
THEOREM ServerTypeCorrect == ServerSpec => []ServerTypeOK
<1>1. ServerInv => ServerTypeOK
  <2> SUFFICES ASSUME ServerInv PROVE ServerTypeOK
    OBVIOUS
  <2>1. TypeOK /\ shares \in [Ids -> SUBSET Share] /\ done \subseteq Ids
    BY DEF ServerInv, PlayerTypes, SharesUnderTheirId
  <2>2. /\ rx \in Seq(Packet) /\ received \in Seq(Packet) /\ packetQueue \in Seq(Packet)
        /\ packet \in Seq(Packet) /\ acceptedPackets \in Nat
    BY DEF ServerInv, ThreadInv, Hands, Queues
  <2>3. /\ Len(received) = IF receiver = "push" THEN 1 ELSE 0
        /\ Len(packet) = IF processor = "visit" THEN 1 ELSE 0
    BY DEF ServerInv, ThreadInv, Hands
  <2>4. QED  BY <2>1, <2>2, <2>3 DEF ServerTypeOK, ServerInv, Share
<1>2. QED  BY <1>1, ServerInvariance, PTL

-------------------------------------------------------------------------------
(* One client run with encoded packets, of no more units than the upper half of a   *)
(* decoder id numbers: what the ids of server.cpp are made for.                     *)

OneShortRun == (\A s, t \in Encoded : s = t) /\ \A n \in Nalus : n < IdUnits

LEMMA SmallRemainder ==
    ASSUME NEW n \in Nat, NEW m \in Nat \ {0}, n < m
    PROVE  n % m = n
OBVIOUS

LEMMA IdsTellBlocksApart ==
    ASSUME OneShortRun, NEW b \in Block, NEW c \in Block,
           b.stream \in Encoded, c.stream \in Encoded, Id(b) = Id(c)
    PROVE  b = c
<1>1. PICK s \in Streams, n \in Nalus : b \in BlocksOf(s, n)
  BY DEF Block
<1>2. PICK t \in Streams, m \in Nalus : c \in BlocksOf(t, m)
  BY DEF Block
<1>3. s = t
  BY <1>1, <1>2 DEF BlocksOf, OneShortRun
<1>4. b.nalu % IdUnits = c.nalu % IdUnits /\ b.block = c.block
  BY DEF Id
<1>5. n \in Nat /\ m \in Nat /\ n < IdUnits /\ m < IdUnits /\ IdUnits \in Nat \ {0}
  BY NalusAssumption, DecoderAssumption DEF OneShortRun
<1>6. n % IdUnits = n /\ m % IdUnits = m
  BY <1>5, SmallRemainder
<1>7. n = m
  BY <1>1, <1>2, <1>4, <1>6 DEF BlocksOf
<1>8. QED  BY <1>1, <1>2, <1>3, <1>4, <1>7 DEF BlocksOf

\* Then the block the decoder returns is the one the packet's header speaks of ...
LEMMA DecodedIsTheBlock ==
    ASSUME OneShortRun, SharesUnderTheirId, NEW p \in Rs
    PROVE  Decoded(p) = {p.block}
<1>1. /\ p.block \in Block /\ p.block.stream \in Encoded /\ Collected(p) \in SUBSET Share
      /\ \A c \in Collected(p) : c.block.stream \in Encoded /\ Id(c.block) = Id(p.block)
  BY CollectedShares DEF Rs
<1>2. \A c \in Collected(p) : c.block \in Block
  BY <1>1 DEF Share
<1>3. \A c \in Collected(p) : c.block = p.block
  BY <1>1, <1>2, IdsTellBlocksApart
<1>4. QED  BY <1>3 DEF Decoded

\* ... and the processor's step is a step of Player, within Player's bound.
LEMMA ProcessIsReceive ==
    ASSUME OneShortRun, MaxPackets <= MaxBlocks, ServerInv, Bounded, ProcessPacket
    PROVE  ReceiveBlock \/ UNCHANGED vars
<1>1. packet[1] \in Packet /\ Len(packet) = 1 /\ packet[1].block \in Block
  BY Processed, PacketBlock
<1>2. CASE ~UNCHANGED vars
  <2>1. HandOver(packet[1], packet[1].block)
    <3>1. CASE ProcessRaw(packet[1])
      BY <3>1 DEF ProcessRaw
    <3>2. CASE ProcessRs(packet[1])
      <4>1. packet[1] \in Rs
        BY <1>1, <3>2, PacketKinds DEF ProcessRs
      <4>2. Decoded(packet[1]) = {packet[1].block}
        BY <4>1, DecodedIsTheBlock DEF ServerInv
      <4>3. QED  BY <1>2, <3>2, <4>2 DEF ProcessRs
    <3>3. QED  BY <3>1, <3>2 DEF ProcessPacket
  <2>2. stats.acceptedBlocks < MaxBlocks
    <3>1. /\ Len(received) \in Nat /\ Len(packetQueue) \in Nat
          /\ acceptedPackets \in Nat /\ stats.acceptedBlocks \in Nat
          /\ stats.acceptedBlocks + Len(received) + Len(packetQueue) + 1 <= acceptedPackets
      BY <1>1, Lengths DEF ServerInv
    <3>2. Len(rx) \in Nat /\ acceptedPackets + Len(rx) <= MaxPackets
      BY LenProperties DEF Bounded, ServerInv, ThreadInv, Queues
    <3>3. MaxPackets \in Nat /\ MaxBlocks \in Nat
      BY BoundsAssumption, MaxBlocksAssumption
    <3>4. QED  BY <3>1, <3>2, <3>3
  <2>3. QED  BY <1>1, <2>1, <2>2 DEF ReceiveBlock, HandOver
<1>3. QED  BY <1>2

\* Through socket, queue, both threads and the decoder, Player is only ever given a
\* block's own data under its own indices: the server's steps are Player's.  (The bound
\* on packets is the model's, and must not exceed Player's bound on blocks.)
THEOREM ServerImplementsPlayer ==
    ASSUME OneShortRun, MaxPackets <= MaxBlocks
    PROVE  ServerSpec => ImplementsPlayer
<1>1. ServerInit => Init
  BY DEF ServerInit
<1>2. ServerInv /\ Bounded /\ [ServerNext]_allVars => [Next]_vars
  <2> SUFFICES ASSUME ServerInv, Bounded, [ServerNext]_allVars PROVE [Next]_vars
    OBVIOUS
  <2>1. CASE AnyArrival
    BY <2>1 DEF AnyArrival, Arrive
  <2>2. CASE ReceiverThread \/ WaitForPacket
    BY <2>2 DEF ReceiverThread, Receive, PushPacket, NotifyProcessor, WaitForPacket
  <2>3. CASE ProcessPacket
    BY <2>3, ProcessIsReceive DEF Next
  <2>4. CASE PlayerThread
    BY <2>4 DEF PlayerThread, Next
  <2>5. CASE UNCHANGED allVars
    BY <2>5 DEF allVars
  <2>6. QED
    BY <2>1, <2>2, <2>3, <2>4, <2>5 DEF ServerNext, ServerThreads, ProcessorThread
<1>3. QED  BY <1>1, <1>2, ServerInvariance, PTL DEF ServerSpec, Spec, ImplementsPlayer

\* So the whole server keeps the promise of Playback: whatever the network does, and
\* raw or decoded, the H.264 decoder is given whole units, each once and in order.
THEOREM ServerImplementsPlayback ==
    ASSUME OneShortRun, MaxPackets <= MaxBlocks
    PROVE  ServerSpec => ImplementsPlayback
<1>1. ServerSpec => Spec
  BY ServerImplementsPlayer DEF ImplementsPlayer
<1>2. QED  BY <1>1, PlayerImplementsPlayback
===============================================================================
