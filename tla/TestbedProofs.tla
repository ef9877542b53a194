----------------------------- MODULE TestbedProofs -----------------------------
(***************************************************************************)
(* Proofs about Testbed, for every video, encoding and buffer size, and    *)
(* whatever the network loses or delays: what the server does depends on   *)
(* the order in which datagrams come through.                              *)
(***************************************************************************)
EXTENDS Testbed, ServerProofs

\* The datagrams on their way through the server, in the order they are processed.
Pipe == packet \o (packetQueue \o (received \o rx))

\* The datagrams that may still reach it.
Away == delayed \cup (sent + 1)..Len(Sent[client])

Coming ==
    {p \in Packet : (\E i \in 1..Len(Pipe) : Pipe[i] = p) \/ (\E k \in Away : Sent[client][k] = p)}

\* The datagrams whose block the decoder does not remember.
Fresh == {p \in Coming : p.encodeMode = 0 \/ Id(p.block) \notin done}

Network ==
    /\ client \in Streams
    /\ sent \in 0..Len(Sent[client])
    /\ delayed \subseteq 1..sent
    /\ client \notin Delayed => delayed = {}

\* No datagram is twice in the server, or in the server and still to come.
EachOnce ==
    /\ Pipe \in Seq(Packet)
    /\ \A i \in 1..Len(Pipe) : Pipe[i].block.stream = client
    /\ \A i, j \in 1..Len(Pipe) : Pipe[i] = Pipe[j] => i = j
    /\ \A i \in 1..Len(Pipe) : \A k \in Away : Pipe[i] # Sent[client][k]

\* Without delay the units come in order ...
UnitsInOrder ==
    client \notin Delayed =>
        /\ \A i, j \in 1..Len(Pipe) : i < j => Pipe[i].block.nalu <= Pipe[j].block.nalu
        /\ \A i \in 1..Len(Pipe) : \A k \in Away :
               Pipe[i].block.nalu <= Sent[client][k].block.nalu

\* ... and none comes before one that is ready.
ReadyIsPast ==
    client \notin Delayed => \A p \in Coming : \A n \in Keys(ready) : n <= p.block.nalu

\* The position of a fresh datagram is still free and its unit not complete.
FreshIsMissing ==
    \A p \in Fresh :
        /\ ready[p.block.nalu] = <<>>
        /\ assembling[p.block.nalu] # <<>> =>
               assembling[p.block.nalu][p.block.block + 1] = NoBlock

Sizes == \A n \in Nalus : assembling[n] # <<>> => Len(assembling[n]) = Size[client][n]

\* As long as nothing was skipped over a delayed unit, playback has passed no unit
\* that is ready or that fresh datagrams are to come of.
Kept == client \notin Delayed \/ stats.skippedNalu = 0

NothingPassed ==
    Kept => NoStaleUnit /\ \A p \in Fresh : next <= p.block.nalu

MissingIn(map) ==
    UNION {{<<n, i>> : i \in {i \in 1..Len(map[n]) : map[n][i] = NoBlock}} : n \in Nalus}

Missing == MissingIn(assembling)

Sum == IsFiniteSet(Missing) /\ BlocksAddUp

BedInv ==
    /\ ServerInv
    /\ Network /\ EachOnce /\ UnitsInOrder
    /\ ReadyIsPast /\ FreshIsMissing /\ Sizes /\ NothingPassed /\ Sum

-------------------------------------------------------------------------------
(* The pipe: what each step does to the datagrams in the server. *)

LEMMA HeadAndTail ==
    ASSUME NEW S, NEW s \in Seq(S), s # <<>>
    PROVE  /\ Head(s) \in S /\ Tail(s) \in Seq(S) /\ <<Head(s)>> \in Seq(S)
           /\ <<Head(s)>> \o Tail(s) = s
<1>1. Head(s) \in S /\ Tail(s) \in Seq(S) /\ Len(s) \in Nat \ {0}
      /\ Len(Tail(s)) = Len(s) - 1 /\ Head(s) = s[1]
      /\ \A i \in 1..Len(Tail(s)) : Tail(s)[i] = s[i + 1]
  BY HeadTailProperties, LenProperties
<1>2. <<Head(s)>> \in Seq(S)
  BY <1>1
<1>3. <<Head(s)>> \o Tail(s) \in Seq(S) /\ Len(<<Head(s)>> \o Tail(s)) = Len(s)
  BY <1>1, <1>2
<1>4. ASSUME NEW i \in 1..Len(s)
      PROVE  (<<Head(s)>> \o Tail(s))[i] = s[i]
  <2>1. CASE i = 1
    BY <1>1, <1>2, <2>1
  <2>2. CASE i # 1
    <3>1. i - 1 \in 1..Len(Tail(s)) /\ (i - 1) + 1 = i
      BY <1>1, <2>2
    <3>2. (<<Head(s)>> \o Tail(s))[i] = Tail(s)[i - 1]
      BY <1>1, <1>2, <2>2, <3>1
    <3>3. QED  BY <1>1, <3>1, <3>2
  <2>3. QED  BY <2>1, <2>2
<1>5. QED  BY <1>1, <1>2, <1>3, <1>4, SeqEqual

LEMMA OneElement ==
    ASSUME NEW S, NEW s \in Seq(S), Len(s) = 1
    PROVE  s[1] \in S /\ s = <<s[1]>>
<1>1. s[1] \in S
  BY ElementOfSeq
<1>2. <<s[1]>> \in Seq(S) /\ Len(<<s[1]>>) = 1
  BY <1>1
<1>3. QED  BY <1>2, SeqEqual

LEMMA NoElement ==
    ASSUME NEW S, NEW s \in Seq(S), Len(s) = 0
    PROVE  s = <<>>
BY EmptySeq, SeqEqual

LEMMA OneBefore ==
    ASSUME NEW S, NEW s \in Seq(S), NEW t \in Seq(S), Len(s) = 1
    PROVE  /\ Len(s \o t) = Len(t) + 1 /\ (s \o t)[1] = s[1] /\ Len(t) \in Nat
           /\ \A i \in 1..Len(t) : (s \o t)[i + 1] = t[i]
<1>1. /\ Len(t) \in Nat /\ Len(s \o t) = Len(s) + Len(t)
      /\ \A i \in 1..(Len(s) + Len(t)) :
             (s \o t)[i] = IF i <= Len(s) THEN s[i] ELSE t[i - Len(s)]
  BY LenProperties, ConcatProperties
<1>2. Len(s \o t) = Len(t) + 1 /\ (s \o t)[1] = s[1]
  BY <1>1
<1>3. ASSUME NEW i \in 1..Len(t)
      PROVE  (s \o t)[i + 1] = t[i]
  <2>1. i + 1 \in 1..(Len(s) + Len(t)) /\ ~(i + 1 <= Len(s)) /\ (i + 1) - Len(s) = i
    BY <1>1
  <2>2. QED  BY <1>1, <2>1
<1>4. QED  BY <1>1, <1>2, <1>3

LEMMA AppendedBehind ==
    ASSUME NEW S, NEW s \in Seq(S), NEW t \in Seq(S), NEW e \in S
    PROVE  s \o Append(t, e) = Append(s \o t, e) /\ s \o t \in Seq(S)
<1> DEFINE one == <<e>>
<1>1. one \in Seq(S)
  OBVIOUS
<1>2. s \o t \in Seq(S)
  BY ConcatProperties
<1>3. Append(t, e) = t \o one /\ Append(s \o t, e) = (s \o t) \o one
  BY <1>2, AppendIsConcat
<1> HIDE DEF one
<1>4. (s \o t) \o one = s \o (t \o one)
  BY <1>1, ConcatAssociative
<1>5. QED  BY <1>2, <1>3, <1>4

\* The parts of the pipe.
LEMMA PipeParts ==
    ASSUME ServerInv
    PROVE  /\ packet \in Seq(Packet) /\ packetQueue \in Seq(Packet)
           /\ received \in Seq(Packet) /\ rx \in Seq(Packet)
           /\ received \o rx \in Seq(Packet)
           /\ packetQueue \o (received \o rx) \in Seq(Packet)
           /\ Pipe \in Seq(Packet)
           /\ receiver # "push" => received = <<>>
           /\ processor # "visit" => packet = <<>>
<1>1. /\ packet \in Seq(Packet) /\ packetQueue \in Seq(Packet)
      /\ received \in Seq(Packet) /\ rx \in Seq(Packet)
  BY DEF ServerInv, ThreadInv, Hands, Queues
<1>2. received \o rx \in Seq(Packet)
  BY <1>1, ConcatProperties
<1>3. packetQueue \o (received \o rx) \in Seq(Packet)
  BY <1>1, <1>2, ConcatProperties
<1>4. Pipe \in Seq(Packet)
  BY <1>1, <1>3, ConcatProperties DEF Pipe
<1>5. /\ receiver # "push" => received = <<>>
      /\ processor # "visit" => packet = <<>>
  BY <1>1, NoElement DEF ServerInv, ThreadInv, Hands
<1>6. QED  BY <1>1, <1>2, <1>3, <1>4, <1>5

\* Threads pass datagrams on without changing their order or number.
LEMMA PipeMoves ==
    ASSUME ServerInv, ReceiverThread \/ WaitForPacket
    PROVE  Pipe' = Pipe /\ UNCHANGED <<vars, decoderVars>>
<1>1. UNCHANGED <<vars, decoderVars>>
  BY DEF ReceiverThread, Receive, PushPacket, NotifyProcessor, WaitForPacket
<1>2. CASE Receive
  <2>1. received = <<>> /\ rx # <<>> /\ rx' = Tail(rx) /\ received' = <<Head(rx)>>
        /\ UNCHANGED <<packet, packetQueue>>
    BY <1>2, PipeParts DEF Receive, processorVars
  <2>2. received' \o rx' = rx /\ received \o rx = rx
    BY <2>1, PipeParts, HeadAndTail, ConcatEmptySeq
  <2>3. QED  BY <1>1, <2>1, <2>2 DEF Pipe
<1>3. CASE PushPacket
  <2>1. packetQueue' = packetQueue \o received /\ received' = <<>> /\ UNCHANGED <<rx, packet>>
    BY <1>3 DEF PushPacket, processorVars
  <2>2. packetQueue' \o (received' \o rx') = packetQueue \o (received \o rx)
    <3>1. received' \o rx' = rx
      BY <2>1, PipeParts, ConcatEmptySeq
    <3>2. (packetQueue \o received) \o rx = packetQueue \o (received \o rx)
      BY PipeParts, ConcatAssociative
    <3>3. QED  BY <2>1, <3>1, <3>2
  <2>3. QED  BY <1>1, <2>1, <2>2 DEF Pipe
<1>4. CASE NotifyProcessor
  BY <1>1, <1>4 DEF NotifyProcessor, Pipe
<1>5. CASE WaitForPacket
  <2>1. UNCHANGED <<received, rx>> /\ packet = <<>>
    <3>1. processor # "visit"
      BY <1>5 DEF WaitForPacket
    <3>2. QED  BY <1>5, <3>1, PipeParts DEF WaitForPacket, receiverVars
  <2>2. CASE packetQueue = <<>>
    BY <1>1, <1>5, <2>1, <2>2 DEF WaitForPacket, Pipe
  <2>3. CASE packetQueue # <<>>
    <3> DEFINE behind == received \o rx
    <3>1. packet' = <<Head(packetQueue)>> /\ packetQueue' = Tail(packetQueue)
      BY <1>5, <2>3 DEF WaitForPacket
    <3>2. /\ behind \in Seq(Packet) /\ packetQueue \in Seq(Packet)
          /\ Tail(packetQueue) \in Seq(Packet) /\ <<Head(packetQueue)>> \in Seq(Packet)
          /\ <<Head(packetQueue)>> \o Tail(packetQueue) = packetQueue
      BY <2>3, PipeParts, HeadAndTail
    <3>3. behind' = behind
      BY <2>1
    <3> HIDE DEF behind
    <3>4. packet' \o (packetQueue' \o behind) = packetQueue \o behind
      <4>1. (<<Head(packetQueue)>> \o Tail(packetQueue)) \o behind
              = <<Head(packetQueue)>> \o (Tail(packetQueue) \o behind)
        BY <3>2, ConcatAssociative
      <4>2. QED  BY <3>1, <3>2, <4>1
    <3>5. packetQueue \o behind \in Seq(Packet)
      BY <3>2, ConcatProperties
    <3>6. packet \o (packetQueue \o behind) = packetQueue \o behind
      BY <2>1, <3>5, ConcatEmptySeq
    <3>7. Pipe = packet \o (packetQueue \o behind) /\ Pipe' = packet' \o (packetQueue' \o behind)
      BY <3>3 DEF Pipe, behind
    <3>8. QED  BY <1>1, <3>4, <3>6, <3>7
  <2>4. QED  BY <2>2, <2>3
<1>6. QED  BY <1>2, <1>3, <1>4, <1>5 DEF ReceiverThread

\* The processor takes the first datagram out of the pipe.
LEMMA PipeProcessed ==
    ASSUME ServerInv, ProcessPacket
    PROVE  /\ Pipe' \in Seq(Packet) /\ Len(Pipe') \in Nat
           /\ Len(Pipe) = Len(Pipe') + 1
           /\ packet[1] \in Packet /\ Pipe[1] = packet[1]
           /\ \A i \in 1..Len(Pipe') : Pipe'[i] = Pipe[i + 1]
<1> DEFINE behind == packetQueue \o (received \o rx)
<1>1. packet[1] \in Packet /\ Len(packet) = 1 /\ packet' = <<>>
      /\ UNCHANGED <<packetQueue, received, rx>>
  BY Processed DEF receiverVars
<1>2. packet = <<packet[1]>> /\ behind \in Seq(Packet)
  BY <1>1, PipeParts, OneElement
<1>3. behind' = behind
  BY <1>1
<1>4. Pipe = packet \o behind /\ Pipe' = packet' \o behind'
  BY DEF Pipe
<1> HIDE DEF behind
<1>5. Pipe' = behind
  BY <1>1, <1>2, <1>3, <1>4, ConcatEmptySeq
<1>6. Len(behind) \in Nat
  BY <1>2, LenProperties
<1>7. packet \in Seq(Packet)
  BY PipeParts
<1>8. /\ Len(Pipe) = 1 + Len(behind) /\ Pipe[1] = packet[1]
      /\ \A i \in 1..Len(behind) : Pipe[i + 1] = behind[i]
  <2>1. packet \in Seq(Packet) /\ Len(packet) = 1 /\ behind \in Seq(Packet)
    BY <1>1, <1>2, <1>7
  <2>2. /\ Len(packet \o behind) = Len(behind) + 1 /\ (packet \o behind)[1] = packet[1]
        /\ \A i \in 1..Len(behind) : (packet \o behind)[i + 1] = behind[i]
    BY <2>1, OneBefore
  <2>3. QED  BY <1>4, <1>6, <2>2
<1>9. QED  BY <1>1, <1>2, <1>5, <1>6, <1>8

\* A datagram that is not dropped joins the pipe at its end.
LEMMA PipeArrival ==
    ASSUME ServerInv, NEW p \in Packet, Arrive(p)
    PROVE  /\ Pipe' \in Seq(Packet) /\ Len(Pipe) \in Nat
           /\ \/ Pipe' = Pipe /\ ~(Len(rx) < RxCapacity)
              \/ /\ Len(Pipe') = Len(Pipe) + 1 /\ Pipe'[Len(Pipe) + 1] = p
                 /\ \A i \in 1..Len(Pipe) : Pipe'[i] = Pipe[i]
           /\ UNCHANGED <<vars, decoderVars>>
<1>1. UNCHANGED <<packet, packetQueue, received>> /\ UNCHANGED <<vars, decoderVars>>
  BY DEF Arrive, processorVars, receiverVars
<1>2. Pipe \in Seq(Packet) /\ Len(Pipe) \in Nat
  BY PipeParts, LenProperties
<1>3. CASE ~(Len(rx) < RxCapacity)
  BY <1>1, <1>2, <1>3 DEF Pipe, Arrive
<1>4. CASE Len(rx) < RxCapacity
  <2> DEFINE last == received \o rx
             behind == packetQueue \o last
  <2>1. Pipe = packet \o behind /\ Pipe' = packet' \o (packetQueue' \o (received' \o rx'))
    BY DEF Pipe
  <2>2. received \o rx' = Append(last, p) /\ last \in Seq(Packet)
    BY <1>4, PipeParts, AppendedBehind DEF Arrive
  <2> HIDE DEF last
  <2>3. packetQueue \o Append(last, p) = Append(behind, p) /\ behind \in Seq(Packet)
    BY <2>2, PipeParts, AppendedBehind
  <2> HIDE DEF behind
  <2>4. packet \o Append(behind, p) = Append(packet \o behind, p)
    BY <2>3, PipeParts, AppendedBehind
  <2>5. Pipe' = Append(Pipe, p)
    BY <1>1, <2>1, <2>2, <2>3, <2>4
  <2>6. QED  BY <1>1, <1>2, <2>5, AppendProperties
<1>5. QED  BY <1>3, <1>4

-------------------------------------------------------------------------------
(* The order of the datagrams: what is in the pipe or away only gets less. *)

Transit == Network /\ EachOnce /\ UnitsInOrder

LEMMA PacketShare ==
    ASSUME NEW p \in Packet
    PROVE  p.share \in Nat
<1>1. Shares \subseteq Nat
  BY DecoderAssumption
<1>2. CASE p \in Raw
  BY <1>2 DEF Raw
<1>3. CASE p \in Rs
  BY <1>1, <1>3 DEF Rs
<1>4. QED  BY <1>2, <1>3 DEF Packet

LEMMA SentBeforeStrict ==
    ASSUME NEW p \in Packet, NEW q \in Packet, SentBefore(p, q)
    PROVE  p # q /\ p.block.nalu <= q.block.nalu
<1>1. p.block \in Block /\ q.block \in Block /\ p.share \in Nat /\ q.share \in Nat
  BY PacketShare, PacketBlock
<1>2. /\ p.block.nalu \in Nat /\ q.block.nalu \in Nat
      /\ p.block.block \in Nat /\ q.block.block \in Nat
  BY <1>1, BlockFields, NalusAssumption
<1>3. QED  BY <1>1, <1>2 DEF SentBefore

LEMMA AwayTypes ==
    ASSUME Network
    PROVE  /\ Len(Sent[client]) \in Nat /\ sent \in Nat
           /\ Away \subseteq 1..Len(Sent[client])
           /\ \A k \in Away : Sent[client][k] \in Packet /\ Sent[client][k].block.stream = client
           /\ \A k, l \in Away : k < l => /\ Sent[client][k] # Sent[client][l]
                                        /\ Sent[client][k].block.nalu <= Sent[client][l].block.nalu
<1>1. Sent[client] \in Seq(Packet) /\ Len(Sent[client]) \in Nat /\ sent \in Nat
  BY SentAssumption, LenProperties DEF Network
<1>2. Away \subseteq 1..Len(Sent[client])
  <2> DEFINE all == Len(Sent[client])
  <2>1. all \in Nat /\ sent \in 0..all /\ delayed \subseteq 1..sent
    BY <1>1 DEF Network
  <2>2. Away = delayed \cup (sent + 1)..all
    BY DEF Away
  <2> HIDE DEF all
  <2>3. Away \subseteq 1..all
    BY <2>1, <2>2
  <2>4. QED  BY <2>3 DEF all
<1>3. \A k \in 1..Len(Sent[client]) :
          Sent[client][k] \in Packet /\ Sent[client][k].block.stream = client
  BY <1>1, ElementOfSeq, SentAssumption DEF Network
<1>4. ASSUME NEW k \in Away, NEW l \in Away, k < l
      PROVE  /\ Sent[client][k] # Sent[client][l]
             /\ Sent[client][k].block.nalu <= Sent[client][l].block.nalu
  <2>1. SentBefore(Sent[client][k], Sent[client][l])
    BY <1>2, <1>4, SentInOrderAssumption DEF Network
  <2>2. QED  BY <1>2, <1>3, <2>1, SentBeforeStrict
<1>5. QED  BY <1>1, <1>2, <1>3, <1>4

\* Nothing joins the pipe.
LEMMA TransitQuiet ==
    ASSUME Transit, Network', Pipe' = Pipe, Away' \subseteq Away, client' = client
    PROVE  Transit' /\ Coming' \subseteq Coming
<1>1. EachOnce'
  BY DEF Transit, EachOnce
<1>2. UnitsInOrder'
  BY DEF Transit, UnitsInOrder
<1>3. Coming' \subseteq Coming
  BY DEF Coming
<1>4. QED  BY <1>1, <1>2, <1>3 DEF Transit

\* The first datagram leaves it.
LEMMA TransitProcess ==
    ASSUME Transit, ServerInv, ProcessPacket, UNCHANGED netVars
    PROVE  /\ Transit' /\ Coming' \subseteq Coming
           /\ packet[1] \in Coming /\ packet[1] \notin Coming'
           /\ packet[1].block.stream = client
           /\ client \notin Delayed => \A q \in Coming' : packet[1].block.nalu <= q.block.nalu
<1> DEFINE p == packet[1]
<1>1. /\ Pipe' \in Seq(Packet) /\ Len(Pipe') \in Nat /\ Len(Pipe) = Len(Pipe') + 1
      /\ p \in Packet /\ Pipe[1] = p
      /\ \A i \in 1..Len(Pipe') : Pipe'[i] = Pipe[i + 1]
  BY PipeProcessed
<1> HIDE DEF p
<1>2. /\ UNCHANGED <<client, sent, delayed>> /\ Away' = Away
  BY DEF netVars, Away
<1>3. Network'
  BY <1>2 DEF Transit, Network
<1>4. 1 \in 1..Len(Pipe) /\ \A i \in 1..Len(Pipe') : i + 1 \in 1..Len(Pipe) /\ 1 < i + 1
  BY <1>1
<1>5. EachOnce'
  <2>1. \A i \in 1..Len(Pipe') : Pipe'[i].block.stream = client
    BY <1>1, <1>4 DEF Transit, EachOnce
  <2>2. ASSUME NEW i \in 1..Len(Pipe'), NEW j \in 1..Len(Pipe'), Pipe'[i] = Pipe'[j]
        PROVE  i = j
    <3>1. i + 1 = j + 1
      BY <1>1, <1>4, <2>2 DEF Transit, EachOnce
    <3>2. QED  BY <1>1, <3>1
  <2>3. \A i \in 1..Len(Pipe') : \A k \in Away : Pipe'[i] # Sent[client][k]
    BY <1>1, <1>4 DEF Transit, EachOnce
  <2>4. QED  BY <1>1, <1>2, <2>1, <2>2, <2>3 DEF EachOnce
<1>6. UnitsInOrder'
  <2> SUFFICES ASSUME client \notin Delayed PROVE UnitsInOrder'
    BY <1>2 DEF UnitsInOrder
  <2>1. ASSUME NEW i \in 1..Len(Pipe'), NEW j \in 1..Len(Pipe'), i < j
        PROVE  Pipe'[i].block.nalu <= Pipe'[j].block.nalu
    <3>1. i + 1 < j + 1
      BY <1>1, <2>1
    <3>2. QED  BY <1>1, <1>4, <3>1 DEF Transit, UnitsInOrder
  <2>2. \A i \in 1..Len(Pipe') : \A k \in Away :
            Pipe'[i].block.nalu <= Sent[client][k].block.nalu
    BY <1>1, <1>4 DEF Transit, UnitsInOrder
  <2>3. QED  BY <1>2, <2>1, <2>2 DEF UnitsInOrder
<1>7. Coming' \subseteq Coming
  BY <1>1, <1>2, <1>4 DEF Coming
<1>8. p \in Coming /\ p.block.stream = client
  BY <1>1, <1>4 DEF Coming, Transit, EachOnce
<1>9. p \notin Coming'
  BY <1>1, <1>2, <1>4 DEF Coming, Transit, EachOnce
<1>10. client \notin Delayed => \A q \in Coming' : p.block.nalu <= q.block.nalu
  BY <1>1, <1>2, <1>4 DEF Coming, Transit, UnitsInOrder
<1>11. QED  BY <1>3, <1>5, <1>6, <1>7, <1>8, <1>9, <1>10 DEF Transit, p

\* A datagram joins it that was away.
LEMMA TransitJoin ==
    ASSUME Transit, Network', client' = client, NEW k \in Away, Away' = Away \ {k},
           client \notin Delayed => \A l \in Away' : k < l,
           Pipe' \in Seq(Packet), Len(Pipe) \in Nat, Len(Pipe') = Len(Pipe) + 1,
           Pipe'[Len(Pipe) + 1] = Sent[client][k],
           \A i \in 1..Len(Pipe) : Pipe'[i] = Pipe[i]
    PROVE  Transit' /\ Coming' \subseteq Coming
<1> DEFINE p == Sent[client][k]
           n == Len(Pipe) + 1
<1>1. /\ p \in Packet /\ p.block.stream = client
      /\ \A l \in Away' : l # k /\ l \in Away /\ l \in Nat
      /\ k \in Nat
      /\ \A i, j \in Away : i < j => /\ Sent[client][i] # Sent[client][j]
                                    /\ Sent[client][i].block.nalu <= Sent[client][j].block.nalu
  BY AwayTypes DEF Transit
<1>2. \A l \in Away' : p # Sent[client][l]
  BY <1>1
<1>3. client \notin Delayed => \A l \in Away' : p.block.nalu <= Sent[client][l].block.nalu
  BY <1>1
<1>4. Pipe'[n] = p /\ \A i \in 1..Len(Pipe') : i = n \/ (i \in 1..Len(Pipe) /\ i < n)
  OBVIOUS
<1> HIDE DEF p, n
<1>5. EachOnce'
  <2>1. \A i \in 1..Len(Pipe') : Pipe'[i].block.stream = client
    BY <1>1, <1>4 DEF Transit, EachOnce
  <2>2. \A i \in 1..Len(Pipe) : Pipe[i] # p
    BY DEF Transit, EachOnce, p
  <2>3. \A i, j \in 1..Len(Pipe') : Pipe'[i] = Pipe'[j] => i = j
    BY <1>4, <2>2 DEF Transit, EachOnce
  <2>4. \A i \in 1..Len(Pipe') : \A l \in Away' : Pipe'[i] # Sent[client][l]
    BY <1>1, <1>2, <1>4 DEF Transit, EachOnce
  <2>5. QED  BY <2>1, <2>3, <2>4 DEF EachOnce
<1>6. UnitsInOrder'
  <2> SUFFICES ASSUME client \notin Delayed PROVE UnitsInOrder'
    BY DEF UnitsInOrder
  <2>1. \A i \in 1..Len(Pipe) : Pipe[i].block.nalu <= p.block.nalu
    BY DEF Transit, UnitsInOrder, p
  <2>2. ASSUME NEW i \in 1..Len(Pipe'), NEW j \in 1..Len(Pipe'), i < j
        PROVE  Pipe'[i].block.nalu <= Pipe'[j].block.nalu
    <3>1. i \in 1..Len(Pipe) /\ i < n
      BY <2>2 DEF n
    <3>2. QED  BY <1>4, <2>1, <2>2, <3>1 DEF Transit, UnitsInOrder
  <2>3. \A i \in 1..Len(Pipe') : \A l \in Away' :
            Pipe'[i].block.nalu <= Sent[client][l].block.nalu
    BY <1>1, <1>3, <1>4 DEF Transit, UnitsInOrder
  <2>4. QED  BY <2>2, <2>3 DEF UnitsInOrder
<1>7. Coming' \subseteq Coming
  BY <1>1, <1>4 DEF Coming, p
<1>8. QED  BY <1>5, <1>6, <1>7 DEF Transit

\* The steps of the network: a datagram is sent, and dropped, delayed or let through.
LEMMA TransitSend ==
    ASSUME Transit, ServerInv, SendDatagram \/ ArriveLate
    PROVE  /\ Transit' /\ Coming' \subseteq Coming /\ ServerInv'
           /\ UNCHANGED <<vars, decoderVars, client>>
<1>1. /\ Len(Sent[client]) \in Nat /\ sent \in Nat
      /\ Away \subseteq 1..Len(Sent[client])
      /\ \A k \in Away : Sent[client][k] \in Packet
      /\ Pipe \in Seq(Packet) /\ delayed \subseteq 1..sent
  BY AwayTypes, PipeParts DEF Transit, Network
<1>2. ASSUME NEW k \in Away, Reach(k), client' = client, Network', Away' = Away \ {k},
             client \notin Delayed => \A l \in Away' : k < l
      PROVE  /\ Transit' /\ Coming' \subseteq Coming /\ ServerInv'
             /\ UNCHANGED <<vars, decoderVars, client>>
  <2>1. Arrive(Sent[client][k]) /\ Sent[client][k] \in Packet
    BY <1>1, <1>2 DEF Reach
  <2>2. ServerInv'
    BY <2>1, ServerInvArrive
  <2>3. /\ Pipe' \in Seq(Packet) /\ Len(Pipe) \in Nat
        /\ \/ Pipe' = Pipe
           \/ /\ Len(Pipe') = Len(Pipe) + 1 /\ Pipe'[Len(Pipe) + 1] = Sent[client][k]
              /\ \A i \in 1..Len(Pipe) : Pipe'[i] = Pipe[i]
        /\ UNCHANGED <<vars, decoderVars>>
    BY <2>1, PipeArrival
  <2>4. CASE Pipe' = Pipe
    BY <1>2, <2>2, <2>3, <2>4, TransitQuiet
  <2>5. CASE Pipe' # Pipe
    BY <1>2, <2>2, <2>3, <2>5, TransitJoin
  <2>6. QED  BY <2>4, <2>5
<1>3. CASE SendDatagram
  <2>1. /\ sent < Len(Sent[client]) /\ sent' = sent + 1 /\ client' = client
        /\ sent + 1 \in Away
    BY <1>1, <1>3 DEF SendDatagram, Away
  <2>2. CASE Reach(sent + 1) /\ UNCHANGED delayed
    <3>1. Network'
      BY <1>1, <2>1, <2>2 DEF Transit, Network
    <3>2. Away' = Away \ {sent + 1}
      BY <1>1, <2>1, <2>2 DEF Away
    <3>3. client \notin Delayed => \A l \in Away' : sent + 1 < l
      BY <1>1, <2>1, <2>2 DEF Away, Transit, Network
    <3>4. QED  BY <1>2, <2>1, <2>2, <3>1, <3>2, <3>3
  <2>3. CASE UNCHANGED <<allVars, delayed, arrived>>
    <3>1. Network' /\ Away' \subseteq Away
      BY <1>1, <2>1, <2>3 DEF Transit, Network, Away
    <3>2. Pipe' = Pipe /\ UNCHANGED <<vars, decoderVars>>
      BY <2>3 DEF Pipe, allVars, serverVars, receiverVars, processorVars
    <3>3. QED  BY <2>1, <2>3, <3>1, <3>2, ServerInvStutter, TransitQuiet
  <2>4. CASE client \in Delayed /\ delayed' = delayed \cup {sent + 1} /\ UNCHANGED <<allVars, arrived>>
    <3>1. Network' /\ Away' \subseteq Away
      BY <1>1, <2>1, <2>4 DEF Transit, Network, Away
    <3>2. Pipe' = Pipe /\ UNCHANGED <<vars, decoderVars>>
      BY <2>4 DEF Pipe, allVars, serverVars, receiverVars, processorVars
    <3>3. QED  BY <2>1, <2>4, <3>1, <3>2, ServerInvStutter, TransitQuiet
  <2>5. QED  BY <1>3, <2>2, <2>3, <2>4 DEF SendDatagram
<1>4. CASE ArriveLate
  <2>1. PICK k \in delayed : Reach(k) /\ delayed' = delayed \ {k} /\ UNCHANGED <<client, sent>>
    BY <1>4 DEF ArriveLate
  <2>2. k \in Away /\ k <= sent /\ k \in Nat
    BY <1>1, <2>1 DEF Away
  <2>3. Network' /\ Away' = Away \ {k}
    BY <1>1, <2>1, <2>2 DEF Transit, Network, Away
  <2>4. client \in Delayed
    BY <2>1 DEF Transit, Network
  <2>5. QED  BY <1>2, <2>1, <2>2, <2>3, <2>4
<1>5. QED  BY <1>3, <1>4

\* The threads but for the processor's handling of a datagram.
LEMMA TransitThreads ==
    ASSUME Transit, ServerInv, UNCHANGED netVars,
           ReceiverThread \/ WaitForPacket \/ PlayerThread \/ UNCHANGED allVars
    PROVE  Transit' /\ Coming' \subseteq Coming /\ UNCHANGED <<decoderVars, client>>
<1>1. client' = client /\ Away' = Away /\ Network'
  BY DEF netVars, Away, Transit, Network
<1>2. CASE PlayerThread \/ UNCHANGED allVars
  <2>1. Pipe' = Pipe /\ UNCHANGED decoderVars
    BY <1>2 DEF Pipe, PlayerThread, allVars, serverVars, receiverVars, processorVars
  <2>2. QED  BY <1>1, <2>1, TransitQuiet
<1>3. CASE ReceiverThread \/ WaitForPacket
  BY <1>1, <1>3, PipeMoves, TransitQuiet
<1>4. QED  BY <1>2, <1>3

-------------------------------------------------------------------------------
(* What a datagram does to the assembler when the decoder forgets no block. *)

Remembers == Encoded = {} \/ Forgets = {FALSE}

LEMMA SamePacketKind ==
    ASSUME NEW p \in Packet, NEW q \in Packet, p.block.stream = q.block.stream
    PROVE  (p \in Raw /\ q \in Raw) \/ (p \in Rs /\ q \in Rs)
BY DEF Packet, Raw, Rs

LEMMA RawsAreBlocks ==
    ASSUME NEW p \in Raw, NEW q \in Raw, p.block = q.block
    PROVE  p = q
BY DEF Raw

LEMMA BlocksByIndices ==
    ASSUME NEW b \in Block, NEW c \in Block,
           b.stream = c.stream, b.nalu = c.nalu, b.block = c.block
    PROVE  b = c
<1>1. PICK s \in Streams, n \in Nalus : b \in BlocksOf(s, n)
  BY DEF Block
<1>2. PICK t \in Streams, m \in Nalus : c \in BlocksOf(t, m)
  BY DEF Block
<1>3. QED  BY <1>1, <1>2 DEF BlocksOf

LEMMA DoneGrows ==
    ASSUME NEW p, Decode(p)
    PROVE  done \subseteq done'
BY DEF Decode

\* Either the processor hands nothing over, or the datagram was fresh, and none of the
\* same block stays fresh.
LEMMA ProcessKinds ==
    ASSUME Remembers, Transit, ServerInv, ProcessPacket, UNCHANGED netVars
    PROVE  /\ Fresh' \subseteq Fresh
           /\ \/ UNCHANGED vars
              \/ /\ packet[1] \in Fresh
                 /\ \E data \in Block : HandOver(packet[1], data)
                 /\ \A q \in Fresh' : q.block.nalu = packet[1].block.nalu
                                       => q.block.block # packet[1].block.block
<1> DEFINE p == packet[1]
<1>1. /\ Coming' \subseteq Coming /\ p \in Coming /\ p \notin Coming'
      /\ p.block.stream = client
  BY TransitProcess
<1>2. p \in Packet /\ p.block \in Block
  BY Processed, PacketBlock
<1>3. \A q \in Coming : q \in Packet /\ q.block \in Block /\ q.block.stream = client
  <2>1. ASSUME NEW q \in Coming PROVE q.block.stream = client
    BY AwayTypes DEF Coming, Transit, EachOnce
  <2>2. QED  BY <2>1, PacketBlock DEF Coming
<1>4. done \subseteq done'
  BY Processed, DoneGrows DEF decoderVars
<1>5. Fresh' \subseteq Fresh
  BY <1>1, <1>4 DEF Fresh
<1>6. CASE ProcessRaw(p)
  <2>1. p \in Fresh /\ p \in Raw
    BY <1>1, <1>2, <1>6, PacketKinds DEF ProcessRaw, Fresh
  <2>2. HandOver(p, p.block)
    BY <1>6 DEF ProcessRaw
  <2>3. ASSUME NEW q \in Fresh', q.block.nalu = p.block.nalu, q.block.block = p.block.block
        PROVE  FALSE
    <3>1. q \in Coming' /\ q \in Coming
      BY <1>1 DEF Fresh
    <3>2. q.block = p.block
      BY <1>1, <1>2, <1>3, <2>3, <3>1, BlocksByIndices
    <3>3. p \notin Rs
      BY <2>1 DEF Raw, Rs
    <3>4. q \in Raw
      BY <1>2, <1>3, <3>1, <3>2, <3>3, SamePacketKind
    <3>5. QED  BY <1>1, <2>1, <3>1, <3>2, <3>4, RawsAreBlocks
  <2>4. QED  BY <1>2, <1>5, <2>1, <2>2, <2>3
<1>7. CASE ProcessRs(p)
  <2>1. p \in Rs /\ Encoded # {}
    BY <1>2, <1>7, PacketKinds DEF ProcessRs, Rs
  <2>2. Forgets = {FALSE}
    BY <2>1 DEF Remembers
  <2>3. CASE Id(p.block) \notin done /\ DifferentShares(Collected(p)) >= Needed
    <3>1. PICK data \in Decoded(p) : HandOver(p, data)
      BY <1>7, <2>3 DEF ProcessRs
    <3>2. data \in Block
      BY <1>2 DEF Decoded
    <3>3. Id(p.block) \in done'
      BY <1>7, <2>2, <2>3 DEF ProcessRs, Decode
    <3>4. p \in Fresh
      BY <1>1, <2>3 DEF Fresh
    <3>5. ASSUME NEW q \in Fresh', q.block.nalu = p.block.nalu, q.block.block = p.block.block
          PROVE  FALSE
      <4>1. q \in Coming' /\ q \in Coming /\ (q.encodeMode = 0 \/ Id(q.block) \notin done')
        BY <1>1 DEF Fresh
      <4>2. Id(q.block) = Id(p.block)
        BY <3>5 DEF Id
      <4>3. q.encodeMode = 1
        <5>1. p \notin Raw
          BY <2>1 DEF Raw, Rs
        <5>2. q \in Rs
          BY <1>1, <1>2, <1>3, <4>1, <5>1, SamePacketKind
        <5>3. QED  BY <5>2 DEF Rs
      <4>4. QED  BY <3>3, <4>1, <4>2, <4>3
    <3>6. QED  BY <1>5, <3>1, <3>2, <3>4, <3>5
  <2>4. CASE ~(Id(p.block) \notin done /\ DifferentShares(Collected(p)) >= Needed)
    BY <1>5, <1>7, <2>4 DEF ProcessRs
  <2>5. QED  BY <2>3, <2>4
<1>8. QED  BY <1>6, <1>7 DEF ProcessPacket

PlayInv == ReadyIsPast /\ FreshIsMissing /\ Sizes /\ NothingPassed /\ Sum

\* The block of p goes to the free position pos of unit n, whose entry has become slots.
Stored(p, n, total, pos, entry, slots) ==
    /\ n = p.block.nalu /\ total = Size[client][n] /\ pos = p.block.block + 1
    /\ Len(entry) = total /\ Len(slots) = total /\ pos <= total
    /\ entry[pos] = NoBlock /\ slots[pos] # NoBlock
    /\ \A i \in 1..total : i # pos => slots[i] = entry[i]
    /\ assembling[n] = <<>> => \A i \in 1..total : entry[i] = NoBlock
    /\ assembling[n] # <<>> => entry = assembling[n]
    /\ ready[n] = <<>>
    /\ stats' = Counted(n, total, 0) \/ stats' = Counted(n, total, 1)
    /\ next' = next
    /\ \/ /\ ~Filled(slots) /\ ready' = ready
          /\ assembling' = [assembling EXCEPT ![n] = slots]
       \/ /\ Filled(slots) /\ ready' = [ready EXCEPT ![n] = slots]
          /\ assembling' = [assembling EXCEPT ![n] = <<>>]

LEMMA FreshHandOver ==
    ASSUME PlayerTypes, Transit, FreshIsMissing, Sizes,
           NEW p \in Fresh, p.block.stream = client, NEW data \in Block, HandOver(p, data)
    PROVE  \E n \in Nalus, total \in Nat \ {0}, pos \in Nat \ {0},
              entry \in Seq(Slots), slots \in Seq(Slots) :
                  Stored(p, n, total, pos, entry, slots)
<1> DEFINE n == p.block.nalu
           block == p.block.block
           total == Size[client][n]
           entry == Entry(n, total)
           slots == [entry EXCEPT ![block + 1] = data]
<1>1. /\ n \in Nalus /\ total \in Nat \ {0} /\ block \in Nat /\ block < total
  BY PacketBlock, BlockFields DEF Fresh, Coming
<1>2. /\ NoBlock \in Slots /\ data \in Slots /\ data # NoBlock /\ assembling[n] \in Seq(Slots)
  BY <1>1, NoBlockAssumption DEF Slots, PlayerTypes, TypeOK
<1>3. AddBlock(block, n, total, data)
  BY DEF HandOver
<1>4. ready[n] = <<>> /\ (assembling[n] # <<>> => assembling[n][block + 1] = NoBlock)
  BY DEF FreshIsMissing
<1>5. assembling[n] # <<>> => Len(assembling[n]) = total
  BY <1>1 DEF Sizes
<1> HIDE DEF n, block, total
<1>6. /\ entry \in Seq(Slots) /\ Len(entry) = total /\ entry[block + 1] = NoBlock
      /\ assembling[n] = <<>> => \A i \in 1..total : entry[i] = NoBlock
      /\ assembling[n] # <<>> => entry = assembling[n]
  <2>1. CASE assembling[n] = <<>>
    <3>1. entry = [i \in 1..total |-> NoBlock]
      BY <2>1 DEF Entry
    <3>2. [i \in 1..total |-> NoBlock] \in Seq(Slots) /\ Len([i \in 1..total |-> NoBlock]) = total
      BY <1>1, <1>2
    <3>3. QED  BY <1>1, <2>1, <3>1, <3>2
  <2>2. CASE assembling[n] # <<>>
    BY <1>2, <1>4, <1>5, <2>2 DEF Entry
  <2>3. QED  BY <2>1, <2>2
<1>7. block < Len(entry)
  BY <1>1, <1>6
<1>8. /\ next' = next /\ (StoreBlock(block, n, total, data) \/ CompleteNalu(block, n, total, data))
  BY <1>1, <1>3, <1>6 DEF AddBlock, RejectBlock, entry
<1>9. /\ stats' = Counted(n, total, 0) \/ stats' = Counted(n, total, 1)
      /\ \/ /\ ~Filled(slots) /\ ready' = ready
            /\ assembling' = [assembling EXCEPT ![n] = slots]
         \/ /\ Filled(slots) /\ ready' = [ready EXCEPT ![n] = slots]
            /\ assembling' = [assembling EXCEPT ![n] = <<>>]
  BY <1>8 DEF StoreBlock, CompleteNalu, entry, slots
<1> HIDE DEF entry
<1>10. block + 1 \in 1..Len(entry)
  BY <1>1, <1>6
<1>11. /\ slots \in Seq(Slots) /\ Len(slots) = total /\ slots[block + 1] = data
       /\ \A i \in 1..total : i # block + 1 => slots[i] = entry[i]
  BY <1>2, <1>6, <1>10, ExceptSeq
<1> HIDE DEF slots
<1> DEFINE pos == block + 1
<1>12. pos \in Nat \ {0} /\ pos <= total
  BY <1>1
<1>13. entry[pos] = NoBlock /\ slots[pos] # NoBlock
       /\ \A i \in 1..total : i # pos => slots[i] = entry[i]
  BY <1>2, <1>6, <1>11
<1>14. n = p.block.nalu /\ total = Size[client][n] /\ pos = p.block.block + 1
  BY DEF n, total, block
<1> HIDE DEF pos
<1>15. Stored(p, n, total, pos, entry, slots)
  BY <1>4, <1>6, <1>8, <1>9, <1>11, <1>12, <1>13, <1>14 DEF Stored
<1>16. QED
  BY <1>1, <1>6, <1>11, <1>12, <1>15

LEMMA FreshTypes ==
    ASSUME NEW p \in Fresh
    PROVE  p \in Coming /\ p.block.nalu \in Nalus /\ p.block.nalu \in Nat
           /\ p.block.block \in Nat
BY PacketBlock, BlockFields, NalusAssumption DEF Fresh, Coming

\* A step that leaves the player's units alone.
LEMMA PlayQuiet ==
    ASSUME PlayInv, UNCHANGED <<assembling, ready, next, stats, client>>,
           Fresh' \subseteq Fresh, Coming' \subseteq Coming
    PROVE  PlayInv'
<1>1. ReadyIsPast' /\ FreshIsMissing' /\ Sizes'
  BY DEF PlayInv, ReadyIsPast, Keys, FreshIsMissing, Sizes
<1>2. NothingPassed'
  BY DEF PlayInv, NothingPassed, Kept, NoStaleUnit, Keys
<1>3. Sum'
  BY DEF PlayInv, Sum, BlocksAddUp, Missing, MissingIn
<1>4. QED  BY <1>1, <1>2, <1>3 DEF PlayInv

\* Run takes the next unit: nothing fresh is to come of it.
LEMMA PlayTake ==
    ASSUME PlayInv, PlayerTypes, TakeStep, client' = client,
           Fresh' \subseteq Fresh, Coming' \subseteq Coming
    PROVE  PlayInv'
<1>1. next \in Nat /\ ready \in [Nalus -> Seq(Block)] /\ Nalus \subseteq Nat
  BY NalusAssumption DEF PlayerTypes, TypeOK
<1>2. Keys(ready') = Keys(ready) \ {next} /\ next \in Nalus
      /\ next' = next + 1 /\ ready[next] # <<>>
      /\ \A n \in Nalus : ready[n] = <<>> => ready'[n] = <<>>
  BY <1>1 DEF TakeStep, Keys
<1>3. UNCHANGED <<assembling, stats>>
  BY DEF TakeStep
<1>4. ReadyIsPast'
  BY <1>2 DEF PlayInv, ReadyIsPast
<1>5. FreshIsMissing' /\ Sizes' /\ Sum'
  BY <1>2, <1>3, FreshTypes DEF PlayInv, FreshIsMissing, Sizes, Sum, BlocksAddUp, Missing, MissingIn
<1>6. NothingPassed'
  <2> SUFFICES ASSUME Kept PROVE NoStaleUnit' /\ \A p \in Fresh' : next' <= p.block.nalu
    BY <1>3 DEF NothingPassed, Kept
  <2>1. NoStaleUnit /\ \A p \in Fresh : next <= p.block.nalu
    BY DEF PlayInv, NothingPassed
  <2>2. NoStaleUnit'
    <3>1. \A n \in Keys(ready) : n \in Nat /\ n >= next
      BY <1>1, <2>1 DEF NoStaleUnit, Keys
    <3>2. \A n \in Keys(ready) \ {next} : n >= next + 1
      BY <1>1, <3>1
    <3>3. \A n \in Keys(ready') : n >= next'
      BY <1>2, <3>2
    <3>4. QED  BY <3>3 DEF NoStaleUnit, Keys
  <2>3. ASSUME NEW p \in Fresh'
        PROVE  next' <= p.block.nalu
    <3>1. p \in Fresh /\ p.block.nalu \in Nat
      BY FreshTypes
    <3>2. ready[p.block.nalu] = <<>>
      BY <3>1 DEF PlayInv, FreshIsMissing
    <3>3. p.block.nalu # next
      BY <1>2, <3>2
    <3>4. QED  BY <1>1, <1>2, <2>1, <3>1, <3>3
  <2>4. QED  BY <2>2, <2>3
<1>7. QED  BY <1>4, <1>5, <1>6 DEF PlayInv

\* Run skips to a ready unit: without delay, nothing fresh is to come before it.
LEMMA PlaySkip ==
    ASSUME PlayInv, PlayerTypes, SkipStep, client' = client,
           Fresh' \subseteq Fresh, Coming' \subseteq Coming
    PROVE  PlayInv'
<1>1. UNCHANGED <<assembling, ready>> /\ IsFirst(next', ready)
  BY DEF SkipStep
<1>2. stats'.skippedNalu \in Nat \ {0}
      /\ UNCHANGED <<stats.expectedBlocks, stats.acceptedBlocks>>
  BY DEF SkipStep, PlayerTypes, TypeOK
<1>3. ReadyIsPast' /\ FreshIsMissing' /\ Sizes'
  BY <1>1 DEF PlayInv, ReadyIsPast, FreshIsMissing, Sizes, Keys
<1>4. Sum'
  BY <1>1, <1>2 DEF PlayInv, Sum, BlocksAddUp, Missing, MissingIn
<1>5. NothingPassed'
  <2> SUFFICES ASSUME client \notin Delayed PROVE NoStaleUnit' /\ \A p \in Fresh' : next' <= p.block.nalu
    BY <1>2 DEF NothingPassed, Kept
  <2>1. NoStaleUnit'
    BY <1>1, NalusAssumption DEF NoStaleUnit, IsFirst, Keys
  <2>2. next' \in Keys(ready)
    BY <1>1 DEF IsFirst
  <2>3. \A p \in Fresh' : next' <= p.block.nalu
    BY <2>2, FreshTypes DEF PlayInv, ReadyIsPast
  <2>4. QED  BY <2>1, <2>3
<1>6. QED  BY <1>3, <1>4, <1>5 DEF PlayInv

LEMMA Successors ==
    ASSUME NEW i \in Nat, NEW j \in Nat, i # j
    PROVE  i + 1 # j + 1
OBVIOUS

\* A fresh block is stored.
LEMMA StoredUnits ==
    ASSUME PlayInv, PlayerTypes, Transit, client' = client,
           Fresh' \subseteq Fresh, Coming' \subseteq Coming,
           NEW p \in Fresh, client \notin Delayed => \A q \in Coming' : p.block.nalu <= q.block.nalu,
           \A q \in Fresh' : q.block.nalu = p.block.nalu => q.block.block # p.block.block,
           NEW n \in Nalus, NEW total \in Nat \ {0}, NEW pos \in Nat \ {0},
           NEW entry \in Seq(Slots), NEW slots \in Seq(Slots),
           Stored(p, n, total, pos, entry, slots)
    PROVE  ReadyIsPast' /\ FreshIsMissing' /\ Sizes' /\ NothingPassed'
<1>1. /\ n = p.block.nalu /\ total = Size[client][n] /\ pos = p.block.block + 1
      /\ Len(entry) = total /\ Len(slots) = total /\ pos <= total
      /\ \A i \in 1..total : i # pos => slots[i] = entry[i]
      /\ assembling[n] = <<>> => \A i \in 1..total : entry[i] = NoBlock
      /\ assembling[n] # <<>> => entry = assembling[n]
      /\ ready[n] = <<>> /\ next' = next
  BY DEF Stored
<1>2. /\ n \in Nat /\ next \in Nat /\ p.block.block \in Nat /\ slots # <<>>
      /\ assembling \in [Nalus -> Seq(Slots)] /\ ready \in [Nalus -> Seq(Block)]
  BY <1>1, NalusAssumption, FreshTypes, EmptySeq DEF PlayerTypes, TypeOK
<1>3. \/ /\ ~Filled(slots) /\ ready' = ready
         /\ assembling' = [assembling EXCEPT ![n] = slots]
      \/ /\ Filled(slots) /\ ready' = [ready EXCEPT ![n] = slots]
         /\ assembling' = [assembling EXCEPT ![n] = <<>>]
  BY DEF Stored
<1>4. stats'.skippedNalu = stats.skippedNalu
  BY DEF Stored, Counted
<1>5. Keys(ready') \subseteq Keys(ready) \cup {n}
  BY <1>2, <1>3 DEF Keys
<1>6. Sizes'
  BY <1>1, <1>2, <1>3 DEF PlayInv, Sizes
<1>7. ReadyIsPast'
  <2>1. ASSUME client \notin Delayed, NEW q \in Coming', NEW m \in Keys(ready')
        PROVE  m <= q.block.nalu
    BY <1>1, <1>5, <2>1 DEF PlayInv, ReadyIsPast
  <2>2. QED  BY <2>1 DEF ReadyIsPast
<1>8. NothingPassed'
  <2> SUFFICES ASSUME Kept PROVE NoStaleUnit' /\ \A q \in Fresh' : next' <= q.block.nalu
    BY <1>4 DEF NothingPassed, Kept
  <2>1. NoStaleUnit /\ \A q \in Fresh : next <= q.block.nalu
    BY DEF PlayInv, NothingPassed
  <2>2. \A m \in Keys(ready') : m >= next'
    BY <1>1, <1>2, <1>5, <2>1 DEF NoStaleUnit
  <2>3. QED  BY <1>1, <2>1, <2>2 DEF NoStaleUnit
<1>9. FreshIsMissing'
  <2> SUFFICES ASSUME NEW q \in Fresh'
               PROVE  /\ ready'[q.block.nalu] = <<>>
                      /\ assembling'[q.block.nalu] # <<>> =>
                             assembling'[q.block.nalu][q.block.block + 1] = NoBlock
    BY DEF FreshIsMissing
  <2> DEFINE m == q.block.nalu
             at == q.block.block + 1
  <2>1. /\ q \in Fresh /\ m \in Nalus /\ at \in Nat \ {0} /\ q.block.block \in Nat
        /\ q.block.block < Size[q.block.stream][m] /\ Size[q.block.stream][m] \in Nat
    BY FreshTypes, PacketBlock, BlockFields DEF Coming
  <2>2. q.block.stream = client
    <3>1. \/ \E i \in 1..Len(Pipe) : Pipe[i] = q
          \/ \E k \in Away : Sent[client][k] = q
      BY <2>1 DEF Fresh, Coming
    <3>2. \A i \in 1..Len(Pipe) : Pipe[i].block.stream = client
      BY DEF Transit, EachOnce
    <3>3. \A k \in Away : Sent[client][k].block.stream = client
      BY AwayTypes DEF Transit
    <3>4. QED  BY <3>1, <3>2, <3>3
  <2>3. ready[m] = <<>> /\ (assembling[m] # <<>> => assembling[m][at] = NoBlock)
    BY <2>1 DEF PlayInv, FreshIsMissing
  <2>4. m = n => at # pos
    <3>1. m = n => q.block.block # p.block.block
      BY <1>1
    <3>2. q.block.block # p.block.block => at # p.block.block + 1
      BY <1>2, <2>1, Successors
    <3>3. QED  BY <1>1, <3>1, <3>2
  <2> HIDE DEF at
  <2>5. CASE m # n
    BY <1>2, <1>3, <2>1, <2>3, <2>5 DEF at
  <2>6. CASE m = n
    <3>1. at \in 1..total
      BY <1>1, <2>1, <2>2, <2>6 DEF at
    <3>2. slots[at] = NoBlock
      BY <1>1, <2>3, <2>4, <2>6, <3>1
    <3>3. ~Filled(slots)
      BY <1>1, <3>1, <3>2 DEF Filled
    <3>4. ready' = ready /\ assembling'[n] = slots
      BY <1>2, <1>3, <3>3
    <3>5. QED  BY <2>3, <2>6, <3>2, <3>4 DEF at
  <2>7. QED  BY <2>5, <2>6
<1>10. QED  BY <1>6, <1>7, <1>8, <1>9

LEMMA Row ==
    ASSUME NEW n, NEW total \in Nat
    PROVE  LET row == {<<n, i>> : i \in 1..total} IN
           IsFiniteSet(row) /\ Cardinality(row) = total
<1> DEFINE row == {<<n, i>> : i \in 1..total}
           f == [i \in 1..total |-> <<n, i>>]
<1>1. IsFiniteSet(1..total) /\ Cardinality(1..total) = total
  BY FS_Interval
<1>2. f \in Bijection(1..total, row)
  BY DEF Bijection, Injection, IsInjective, Surjection
<1>3. ExistsBijection(1..total, row)
  BY <1>2 DEF ExistsBijection
<1>4. QED  BY <1>1, <1>3, FS_Bijection

LEMMA DisjointUnion ==
    ASSUME NEW S, NEW T, IsFiniteSet(S), IsFiniteSet(T), S \cap T = {}
    PROVE  IsFiniteSet(S \cup T) /\ Cardinality(S \cup T) = Cardinality(S) + Cardinality(T)
<1>1. Cardinality(S \cap T) = 0
  <2>1. Cardinality({}) = 0
    BY FS_EmptySet
  <2>2. QED  BY <2>1, Zenon
<1>2. Cardinality(S) \in Nat /\ Cardinality(T) \in Nat
  BY FS_CardinalityType
<1>3. /\ IsFiniteSet(S \cup T)
      /\ Cardinality(S \cup T) = Cardinality(S) + Cardinality(T) - Cardinality(S \cap T)
  BY FS_Union
<1>4. QED  BY <1>1, <1>2, <1>3

LEMMA MissingPositions ==
    ASSUME NEW map
    PROVE  /\ MissingIn(map) \subseteq Nalus \X Nat
           /\ \A m \in Nalus, i \in Nat :
                  <<m, i>> \in MissingIn(map) <=> i \in 1..Len(map[m]) /\ map[m][i] = NoBlock
<1>1. ASSUME NEW x \in MissingIn(map) PROVE x \in Nalus \X Nat
  <2>1. PICK m \in Nalus : x \in {<<m, i>> : i \in {i \in 1..Len(map[m]) : map[m][i] = NoBlock}}
    BY DEF MissingIn
  <2>2. QED  BY <2>1
<1>2. ASSUME NEW m \in Nalus, NEW i \in Nat
      PROVE  <<m, i>> \in MissingIn(map) <=> i \in 1..Len(map[m]) /\ map[m][i] = NoBlock
  BY DEF MissingIn
<1>3. QED  BY <1>1, <1>2

\* The positions of a new entry are missing, and the one the block goes to no longer is.
LEMMA StoredSum ==
    ASSUME PlayInv, PlayerTypes, NEW p,
           NEW n \in Nalus, NEW total \in Nat \ {0}, NEW pos \in Nat \ {0},
           NEW entry \in Seq(Slots), NEW slots \in Seq(Slots),
           Stored(p, n, total, pos, entry, slots)
    PROVE  Sum'
<1>1. /\ Len(entry) = total /\ Len(slots) = total /\ pos <= total
      /\ entry[pos] = NoBlock /\ slots[pos] # NoBlock
      /\ \A i \in 1..total : i # pos => slots[i] = entry[i]
      /\ assembling[n] = <<>> => \A i \in 1..total : entry[i] = NoBlock
      /\ assembling[n] # <<>> => entry = assembling[n]
      /\ assembling \in [Nalus -> Seq(Slots)]
      /\ Len(<<>>) = 0
  BY DEF Stored, PlayerTypes, TypeOK
<1>2. \/ ~Filled(slots) /\ assembling' = [assembling EXCEPT ![n] = slots]
      \/ Filled(slots) /\ assembling' = [assembling EXCEPT ![n] = <<>>]
  BY DEF Stored
<1>3. IsFiniteSet(Missing) /\ stats.expectedBlocks = stats.acceptedBlocks + Cardinality(Missing)
      /\ stats.expectedBlocks \in Nat /\ stats.acceptedBlocks \in Nat
      /\ Cardinality(Missing) \in Nat
  BY FS_CardinalityType DEF PlayInv, Sum, BlocksAddUp, Missing, MissingIn, PlayerTypes, TypeOK
<1> DEFINE row == {<<n, i>> : i \in 1..total}
           new == IF assembling[n] = <<>> THEN row ELSE {}
           free == Missing \cup new
<1>4. IsFiniteSet(new) /\ Cardinality(new) = IF assembling[n] = <<>> THEN total ELSE 0
  <2>1. IsFiniteSet(row) /\ Cardinality(row) = total
    BY Row
  <2> HIDE DEF row
  <2>2. QED  BY <2>1, FS_EmptySet
<1>5. new \subseteq Nalus \X Nat /\ \A m \in Nalus, i \in Nat :
          <<m, i>> \in new <=> assembling[n] = <<>> /\ m = n /\ i \in 1..total
  OBVIOUS
<1> HIDE DEF new
<1>6. /\ Missing \subseteq Nalus \X Nat
      /\ \A m \in Nalus, i \in Nat :
             <<m, i>> \in Missing <=> i \in 1..Len(assembling[m]) /\ assembling[m][i] = NoBlock
      /\ Missing' \subseteq Nalus \X Nat
      /\ \A m \in Nalus, i \in Nat :
             <<m, i>> \in Missing' <=> i \in 1..Len(assembling'[m]) /\ assembling'[m][i] = NoBlock
  BY MissingPositions DEF Missing
<1>7. IsFiniteSet(free) /\ Cardinality(free) = Cardinality(Missing) + Cardinality(new)
  <2>1. Missing \cap new = {}
    BY <1>1, <1>5, <1>6
  <2>2. /\ IsFiniteSet(Missing \cup new)
        /\ Cardinality(Missing \cup new) = Cardinality(Missing) + Cardinality(new)
    BY <1>3, <1>4, <2>1, DisjointUnion
  <2>3. Cardinality(new) \in Nat
    BY <1>4
  <2>4. QED  BY <1>3, <2>2, <2>3
<1>8. free \subseteq Nalus \X Nat /\ \A m \in Nalus, i \in Nat :
          <<m, i>> \in free <=> IF m = n THEN i \in 1..total /\ entry[i] = NoBlock
                                      ELSE <<m, i>> \in Missing
  <2>1. free \subseteq Nalus \X Nat
    BY <1>5, <1>6
  <2>2. ASSUME NEW m \in Nalus, NEW i \in Nat
        PROVE  <<m, i>> \in free <=> IF m = n THEN i \in 1..total /\ entry[i] = NoBlock
                                            ELSE <<m, i>> \in Missing
    <3>1. <<m, i>> \in free <=> <<m, i>> \in Missing \/ <<m, i>> \in new
      OBVIOUS
    <3>2. QED  BY <1>1, <1>5, <1>6, <3>1
  <2>3. QED  BY <2>1, <2>2
<1> HIDE DEF free
<1>9. <<n, pos>> \in free
  BY <1>1, <1>8
<1>10. Missing' \subseteq Nalus \X Nat /\ \A m \in Nalus, i \in Nat :
           <<m, i>> \in Missing' <=> IF m = n THEN i \in 1..total /\ slots[i] = NoBlock
                                          ELSE <<m, i>> \in Missing
  <2>1. ASSUME NEW i \in Nat
        PROVE  <<n, i>> \in Missing' <=> i \in 1..total /\ slots[i] = NoBlock
    <3>1. CASE Filled(slots)
      <4>1. assembling'[n] = <<>> /\ \A j \in 1..total : slots[j] # NoBlock
        BY <1>1, <1>2, <3>1 DEF Filled
      <4>2. QED  BY <1>1, <1>6, <4>1
    <3>2. CASE ~Filled(slots)
      <4>1. assembling'[n] = slots
        BY <1>1, <1>2, <3>2
      <4>2. QED  BY <1>1, <1>6, <4>1
    <3>3. QED  BY <3>1, <3>2
  <2>2. ASSUME NEW m \in Nalus, NEW i \in Nat, m # n
        PROVE  <<m, i>> \in Missing' <=> <<m, i>> \in Missing
    <3>1. assembling'[m] = assembling[m]
      BY <1>1, <1>2, <2>2
    <3>2. QED  BY <1>6, <3>1
  <2>3. QED  BY <1>6, <2>1, <2>2
<1>11. Missing' = free \ {<<n, pos>>}
  <2>1. \A m \in Nalus, i \in Nat :
            <<m, i>> \in Missing' <=> <<m, i>> \in free /\ <<m, i>> # <<n, pos>>
    BY <1>1, <1>8, <1>10
  <2>2. QED  BY <1>8, <1>10, <2>1
<1>12. /\ IsFiniteSet(Missing') /\ Cardinality(Missing') = Cardinality(free) - 1
  BY <1>7, <1>9, <1>11, FS_RemoveElement
<1>13. /\ stats'.acceptedBlocks = stats.acceptedBlocks + 1
       /\ stats'.expectedBlocks = stats.expectedBlocks + Cardinality(new)
  BY <1>4 DEF Stored, Counted
<1>14. Cardinality(new) \in Nat
  BY <1>4
<1>15. stats'.expectedBlocks = stats'.acceptedBlocks + Cardinality(Missing')
  BY <1>3, <1>7, <1>12, <1>13, <1>14
<1>16. QED  BY <1>12, <1>15 DEF Sum, BlocksAddUp, Missing, MissingIn

-------------------------------------------------------------------------------
(* The whole test bed. *)

LEMMA BedParts == BedInv <=> ServerInv /\ Transit /\ PlayInv
BY DEF BedInv, Transit, PlayInv

LEMMA BedInvInit == BedInit => BedInv
<1> SUFFICES ASSUME BedInit PROVE BedInv
  OBVIOUS
<1>1. ServerInv /\ Init
  BY ServerInvInit DEF BedInit, ServerInit
<1>2. Network
  BY SentAssumption, LenProperties DEF BedInit, Network
<1>3. Pipe = <<>> /\ Len(<<>>) = 0 /\ Pipe \in Seq(Packet)
  <2>1. packet = <<>> /\ packetQueue = <<>> /\ received = <<>> /\ rx = <<>>
    BY DEF BedInit, ServerInit
  <2>2. <<>> \in Seq(Packet)
    BY EmptySeq
  <2>3. <<>> \o <<>> = <<>>
    BY <2>2, ConcatEmptySeq
  <2>4. QED  BY <2>1, <2>2, <2>3 DEF Pipe
<1>4. EachOnce /\ UnitsInOrder
  BY <1>3 DEF EachOnce, UnitsInOrder
<1>5. /\ assembling = [n \in Nalus |-> <<>>] /\ ready = [n \in Nalus |-> <<>>] /\ next = 0
      /\ stats.acceptedBlocks = 0 /\ stats.expectedBlocks = 0
  BY <1>1 DEF Init
<1>6. Keys(ready) = {}
  BY <1>5 DEF Keys
<1>7. ReadyIsPast /\ FreshIsMissing /\ Sizes
  BY <1>5, <1>6, FreshTypes DEF ReadyIsPast, FreshIsMissing, Sizes
<1>8. NothingPassed
  BY <1>5, <1>6, FreshTypes DEF NothingPassed, NoStaleUnit
<1>9. Sum
  <2>1. Missing = {}
    BY <1>3, <1>5, MissingPositions DEF Missing
  <2>2. IsFiniteSet({}) /\ Cardinality({}) = 0
    BY FS_EmptySet
  <2>3. IsFiniteSet(Missing) /\ Cardinality(Missing) = 0
    BY <2>1, <2>2, Zenon
  <2>4. QED  BY <1>5, <2>3 DEF Sum, BlocksAddUp, Missing, MissingIn
<1>10. QED  BY <1>1, <1>2, <1>4, <1>7, <1>8, <1>9 DEF BedInv

LEMMA FreshShrinks ==
    ASSUME Coming' \subseteq Coming, UNCHANGED decoderVars
    PROVE  Fresh' \subseteq Fresh
BY DEF Fresh, decoderVars

LEMMA PlayProcess ==
    ASSUME Remembers, BedInv, ProcessPacket, UNCHANGED netVars
    PROVE  Transit' /\ PlayInv'
<1>1. ServerInv /\ Transit /\ PlayInv /\ PlayerTypes /\ client' = client
  BY BedParts DEF ServerInv, netVars
<1>2. /\ Transit' /\ Coming' \subseteq Coming
      /\ packet[1].block.stream = client
      /\ client \notin Delayed => \A q \in Coming' : packet[1].block.nalu <= q.block.nalu
  BY <1>1, TransitProcess
<1>3. Fresh' \subseteq Fresh
  BY <1>1, ProcessKinds
<1>4. CASE UNCHANGED vars
  BY <1>1, <1>2, <1>3, <1>4, PlayQuiet DEF vars
<1>5. CASE ~UNCHANGED vars
  <2>1. /\ packet[1] \in Fresh
        /\ \E data \in Block : HandOver(packet[1], data)
        /\ \A q \in Fresh' : q.block.nalu = packet[1].block.nalu
                              => q.block.block # packet[1].block.block
    BY <1>1, <1>5, ProcessKinds
  <2>2. PICK n \in Nalus, total \in Nat \ {0}, pos \in Nat \ {0},
            entry \in Seq(Slots), slots \in Seq(Slots) :
                Stored(packet[1], n, total, pos, entry, slots)
    BY <1>1, <1>2, <2>1, FreshHandOver DEF PlayInv
  <2>3. Sum'
    BY <1>1, <2>2, StoredSum
  <2>4. ReadyIsPast' /\ FreshIsMissing' /\ Sizes' /\ NothingPassed'
    BY <1>1, <1>2, <1>3, <2>1, <2>2, StoredUnits
  <2>5. QED  BY <1>2, <2>3, <2>4 DEF PlayInv
<1>6. QED  BY <1>4, <1>5

LEMMA PlayPlayer ==
    ASSUME BedInv, PlayerThread, client' = client,
           Fresh' \subseteq Fresh, Coming' \subseteq Coming
    PROVE  PlayInv'
<1>1. PlayInv /\ PlayerTypes /\ TypeOK /\ stats \in Counters
  BY BedParts DEF ServerInv, PlayerTypes, TypeOK, Counters
<1>2. ~ReceiveBlock
  <2>1. SUFFICES ASSUME ReceiveBlock PROVE FALSE
    OBVIOUS
  <2>2. PICK b \in Block : AddBlock(b.block, b.nalu, Size[b.stream][b.nalu], b)
    BY <2>1 DEF ReceiveBlock
  <2>3. stats'.acceptedBlocks = stats.acceptedBlocks + 1
    BY <1>1, <2>2, BlockFields, AddBlockCount
  <2>4. stats'.acceptedBlocks = stats.acceptedBlocks
    BY <1>1, PlaybackCount DEF PlayerThread
  <2>5. stats.acceptedBlocks \in Nat
    BY <1>1 DEF Counters
  <2>6. QED  BY <2>3, <2>4, <2>5
<1>3. TakeStep \/ SkipStep \/ DecodeAndDisplayNalu \/ ControlStep
  BY <1>1, <1>2, PlayerThreadKind DEF StepKind
<1>4. CASE DecodeAndDisplayNalu \/ ControlStep
  <2>1. UNCHANGED <<assembling, ready, next, stats>>
    BY <1>4 DEF DecodeAndDisplayNalu, ControlStep, assemblyVars
  <2>2. QED  BY <1>1, <2>1, PlayQuiet
<1>5. QED  BY <1>1, <1>3, <1>4, PlayTake, PlaySkip

LEMMA BedInvNext == Remembers /\ BedInv /\ [BedNext]_bedVars => BedInv'
<1> SUFFICES ASSUME Remembers, BedInv, [BedNext]_bedVars PROVE BedInv'
  OBVIOUS
<1> USE BedParts
<1>1. ServerInv /\ Transit /\ PlayInv
  OBVIOUS
<1>2. CASE SendDatagram \/ ArriveLate
  <2>1. /\ Transit' /\ Coming' \subseteq Coming /\ ServerInv'
        /\ UNCHANGED <<vars, decoderVars, client>>
    BY <1>1, <1>2, TransitSend
  <2>2. PlayInv'
    BY <1>1, <2>1, FreshShrinks, PlayQuiet DEF vars
  <2>3. QED  BY <2>1, <2>2 DEF BedInv, Transit, PlayInv
<1>3. CASE ProcessPacket /\ UNCHANGED netVars
  <2>1. ServerInv'
    BY <1>1, <1>3, ServerInvThreads DEF ServerThreads, ProcessorThread
  <2>2. Transit' /\ PlayInv'
    BY <1>3, PlayProcess
  <2>3. QED  BY <2>1, <2>2 DEF BedInv, Transit, PlayInv
<1>4. CASE (ReceiverThread \/ WaitForPacket \/ PlayerThread \/ UNCHANGED allVars)
           /\ UNCHANGED netVars
  <2>1. ServerInv'
    BY <1>1, <1>4, ServerInvThreads, ServerInvStutter DEF ServerThreads, ProcessorThread
  <2>2. Transit' /\ Coming' \subseteq Coming /\ UNCHANGED <<decoderVars, client>>
    BY <1>1, <1>4, TransitThreads
  <2>3. Fresh' \subseteq Fresh
    BY <2>2, FreshShrinks
  <2>4. PlayInv'
    <3>1. CASE PlayerThread
      BY <2>2, <2>3, <3>1, PlayPlayer
    <3>2. CASE ReceiverThread \/ WaitForPacket \/ UNCHANGED allVars
      <4>1. UNCHANGED vars
        BY <1>1, <3>2, PipeMoves DEF allVars
      <4>2. QED  BY <1>1, <2>2, <2>3, <4>1, PlayQuiet DEF vars
    <3>3. QED  BY <1>4, <3>1, <3>2
  <2>5. QED  BY <2>1, <2>2, <2>4 DEF BedInv, Transit, PlayInv
<1>5. QED
  BY <1>2, <1>3, <1>4 DEF BedNext, bedVars, ServerThreads, ProcessorThread

-------------------------------------------------------------------------------
(* What the decoder holds.  Nothing here needs ids that tell blocks apart.        *)

\* The decoder never keeps enough shares under one id.
TooFew == \A id \in Ids : ~(DifferentShares(shares[id]) >= Needed)

\* What it keeps is of the streaming run and, without delay, of units that come before
\* those of the datagrams still to come.
OfEarlierUnits ==
    \A id \in Ids : \A c \in shares[id] :
        /\ c.block.stream = client
        /\ client \notin Delayed => \A q \in Coming : c.block.nalu <= q.block.nalu

ShareOf(p) == [share |-> p.share, block |-> p.block]

\* A datagram that arrived is in the pipe, or collected, or of an id that is done with.
Accounted(p) ==
    \/ Id(p.block) \in done
    \/ \E k \in 1..Len(Pipe) : Pipe[k] = p
    \/ ShareOf(p) \in shares[Id(p.block)]

AllAccounted ==
    /\ arrived \subseteq 1..sent
    /\ \A i \in arrived : Sent[client][i].encodeMode = 1 => Accounted(Sent[client][i])

DecoderInv == TooFew /\ OfEarlierUnits /\ AllAccounted

LEMMA DecoderInvInit == BedInit => DecoderInv
<1> SUFFICES ASSUME BedInit PROVE DecoderInv
  OBVIOUS
<1>1. shares = [id \in Ids |-> {}] /\ arrived = {}
  BY DEF BedInit, ServerInit
<1>2. TooFew
  <2> SUFFICES ASSUME NEW id \in Ids PROVE ~(DifferentShares({}) >= Needed)
    BY <1>1 DEF TooFew
  <2>1. {c.share : c \in {}} = {}
    OBVIOUS
  <2>2. DifferentShares({}) = 0
    BY <2>1, FS_EmptySet DEF DifferentShares
  <2>3. QED  BY <2>2, DecoderAssumption
<1>3. QED  BY <1>1, <1>2 DEF DecoderInv, OfEarlierUnits, AllAccounted

\* The decoder does nothing, and what joins the pipe is all that arrives.
LEMMA DecoderQuiet ==
    ASSUME DecoderInv, UNCHANGED decoderVars, client' = client, Coming' \subseteq Coming,
           arrived' \subseteq 1..sent',
           \A i \in arrived' : i \in arrived \/ \E k \in 1..Len(Pipe') : Pipe'[k] = Sent[client][i],
           \A k \in 1..Len(Pipe) : \E l \in 1..Len(Pipe') : Pipe'[l] = Pipe[k]
    PROVE  DecoderInv'
<1>1. shares' = shares /\ done' = done
  BY DEF decoderVars
<1>2. TooFew'
  BY <1>1 DEF DecoderInv, TooFew
<1>3. OfEarlierUnits'
  BY <1>1 DEF DecoderInv, OfEarlierUnits
<1>4. ASSUME NEW i \in arrived', Sent[client][i].encodeMode = 1
      PROVE  Accounted(Sent[client][i])'
  <2>1. CASE i \in arrived
    <3>1. Accounted(Sent[client][i])
      BY <1>4, <2>1 DEF DecoderInv, AllAccounted
    <3>2. QED  BY <1>1, <3>1 DEF Accounted
  <2>2. CASE \E k \in 1..Len(Pipe') : Pipe'[k] = Sent[client][i]
    BY <2>2 DEF Accounted
  <2>3. QED  BY <2>1, <2>2
<1>5. AllAccounted'
  BY <1>4 DEF AllAccounted
<1>6. QED  BY <1>2, <1>3, <1>5 DEF DecoderInv

LEMMA DecoderSend ==
    ASSUME Transit, ServerInv, DecoderInv, SendDatagram \/ ArriveLate
    PROVE  DecoderInv'
<1>1. Coming' \subseteq Coming /\ UNCHANGED <<decoderVars, client>> /\ Network'
  BY TransitSend DEF Transit
<1>2. /\ arrived \subseteq 1..sent /\ sent \in Nat /\ Len(Sent[client]) \in Nat
      /\ delayed \subseteq 1..sent /\ \A k \in Away : Sent[client][k] \in Packet
      /\ sent' \in Nat
  BY <1>1, AwayTypes, SentAssumption, LenProperties DEF DecoderInv, AllAccounted, Transit, Network
<1>3. ASSUME NEW k \in Away, Reach(k), k \in 1..sent', sent <= sent' PROVE DecoderInv'
  <2>1. Arrive(Sent[client][k]) /\ Sent[client][k] \in Packet
    BY <1>2, <1>3 DEF Reach
  <2>2. /\ Pipe' \in Seq(Packet) /\ Len(Pipe) \in Nat
        /\ \/ Pipe' = Pipe /\ ~(Len(rx) < RxCapacity)
           \/ /\ Len(Pipe') = Len(Pipe) + 1 /\ Pipe'[Len(Pipe) + 1] = Sent[client][k]
              /\ \A i \in 1..Len(Pipe) : Pipe'[i] = Pipe[i]
    BY <2>1, PipeArrival
  <2>3. arrived' \subseteq 1..sent'
    BY <1>2, <1>3 DEF Reach
  <2>4. \A i \in 1..Len(Pipe) : \E l \in 1..Len(Pipe') : Pipe'[l] = Pipe[i]
    BY <2>2
  <2>5. \A i \in arrived' : i \in arrived \/ \E l \in 1..Len(Pipe') : Pipe'[l] = Sent[client][i]
    <3>1. CASE ~(Len(rx) < RxCapacity)
      BY <1>3, <3>1 DEF Reach
    <3>2. CASE Len(rx) < RxCapacity
      <4>1. arrived' = arrived \cup {k}
        BY <1>3, <3>2 DEF Reach
      <4>2. Len(Pipe) + 1 \in 1..Len(Pipe') /\ Pipe'[Len(Pipe) + 1] = Sent[client][k]
        BY <2>2, <3>2
      <4>3. QED  BY <4>1, <4>2
    <3>3. QED  BY <3>1, <3>2
  <2>6. QED  BY <1>1, <2>3, <2>4, <2>5, DecoderQuiet
<1>4. ASSUME UNCHANGED <<allVars, arrived>>, sent <= sent' PROVE DecoderInv'
  <2>1. Pipe' = Pipe
    BY <1>4 DEF Pipe, allVars, serverVars, receiverVars, processorVars
  <2>2. arrived' \subseteq 1..sent'
    BY <1>2, <1>4
  <2>3. QED  BY <1>1, <1>4, <2>1, <2>2, DecoderQuiet
<1>5. CASE SendDatagram
  <2>1. sent' = sent + 1 /\ sent + 1 \in Away /\ sent <= sent'
    BY <1>2, <1>5 DEF SendDatagram, Away
  <2>2. QED  BY <1>2, <1>3, <1>4, <1>5, <2>1 DEF SendDatagram
<1>6. CASE ArriveLate
  <2>1. PICK k \in delayed : Reach(k) /\ sent' = sent
    BY <1>6 DEF ArriveLate
  <2>2. k \in Away /\ k \in 1..sent'
    BY <1>2, <2>1 DEF Away
  <2>3. QED  BY <1>2, <1>3, <2>1, <2>2
<1>7. QED  BY <1>5, <1>6

\* The processor hands the first datagram of the pipe to the decoder, or past it.
LEMMA DecoderProcess ==
    ASSUME Remembers, Transit, ServerInv, DecoderInv, ProcessPacket, UNCHANGED netVars
    PROVE  DecoderInv'
<1> DEFINE p == packet[1]
           id == Id(p.block)
<1>1. /\ Coming' \subseteq Coming /\ p.block.stream = client
      /\ client \notin Delayed => \A q \in Coming' : p.block.nalu <= q.block.nalu
  BY TransitProcess
<1>2. /\ Len(Pipe') \in Nat /\ Len(Pipe) = Len(Pipe') + 1 /\ p \in Packet /\ Pipe[1] = p
      /\ \A i \in 1..Len(Pipe') : Pipe'[i] = Pipe[i + 1]
  BY PipeProcessed
<1>3. UNCHANGED <<client, sent, arrived>>
  BY DEF netVars
<1>4. \A k \in 1..Len(Pipe) : Pipe[k] = p \/ \E l \in 1..Len(Pipe') : Pipe'[l] = Pipe[k]
  <2> SUFFICES ASSUME NEW k \in 1..Len(Pipe), k # 1
               PROVE  \E l \in 1..Len(Pipe') : Pipe'[l] = Pipe[k]
    BY <1>2
  <2>1. k - 1 \in 1..Len(Pipe') /\ (k - 1) + 1 = k
    BY <1>2
  <2>2. QED  BY <1>2, <2>1
<1>5. shares \in [Ids -> SUBSET Share]
  BY DEF ServerInv, SharesUnderTheirId
<1> HIDE DEF p
\* What each case has to show.
<1>6. ASSUME done \subseteq done',
             \A i \in Ids : shares'[i] = shares[i] \/ ~(DifferentShares(shares'[i]) >= Needed),
             \A i \in Ids : \A c \in shares'[i] : c \in shares[i] \/ c = ShareOf(p),
             \A i \in Ids : \A c \in shares[i] : c \in shares'[i] \/ i \in done',
             p.encodeMode = 1 => id \in done' \/ ShareOf(p) \in shares'[id]
      PROVE  DecoderInv'
  <2>1. TooFew'
    BY <1>6 DEF DecoderInv, TooFew
  <2>2. OfEarlierUnits'
    <3> SUFFICES ASSUME NEW i \in Ids, NEW c \in shares'[i]
                 PROVE  /\ c.block.stream = client
                        /\ client \notin Delayed =>
                              \A q \in Coming' : c.block.nalu <= q.block.nalu
      BY <1>3 DEF OfEarlierUnits
    <3>1. CASE c \in shares[i]
      BY <1>1, <3>1 DEF DecoderInv, OfEarlierUnits
    <3>2. CASE c = ShareOf(p)
      BY <1>1, <3>2 DEF ShareOf
    <3>3. QED  BY <1>6, <3>1, <3>2
  <2>3. AllAccounted'
    <3> DEFINE StillAccounted(q) ==
                   \/ Id(q.block) \in done'
                   \/ \E l \in 1..Len(Pipe') : Pipe'[l] = q
                   \/ ShareOf(q) \in shares'[Id(q.block)]
    <3> SUFFICES ASSUME NEW i \in arrived, Sent[client][i].encodeMode = 1
                 PROVE  StillAccounted(Sent[client][i])
      BY <1>3 DEF DecoderInv, AllAccounted, Accounted
    <3> DEFINE d == Sent[client][i]
    <3> SUFFICES StillAccounted(d)
      OBVIOUS
    <3>1. d \in Packet
      BY <1>3, AwayTypes, SentAssumption, ElementOfSeq DEF DecoderInv, AllAccounted, Transit, Network
    <3>2. Id(d.block) \in Ids
      BY <3>1, PacketBlock, BlockId
    <3>3. Accounted(d) /\ d.encodeMode = 1
      BY DEF DecoderInv, AllAccounted
    <3> HIDE DEF d
    <3>4. CASE Id(d.block) \in done
      BY <1>6, <3>3, <3>4
    <3>5. CASE \E k \in 1..Len(Pipe) : Pipe[k] = d
      <4>1. CASE d = p
        BY <1>6, <3>3, <4>1
      <4>2. CASE \E l \in 1..Len(Pipe') : Pipe'[l] = d
        BY <3>3, <4>2
      <4>3. QED  BY <1>4, <3>5, <4>1, <4>2
    <3>6. CASE ShareOf(d) \in shares[Id(d.block)]
      BY <1>6, <3>2, <3>3, <3>6 DEF ShareOf
    <3>7. QED  BY <3>3, <3>4, <3>5, <3>6 DEF Accounted
  <2>4. QED  BY <2>1, <2>2, <2>3 DEF DecoderInv
<1>7. CASE ProcessRaw(p)
  <2>1. shares' = shares /\ done' = done /\ p.encodeMode = 0
    BY <1>7 DEF ProcessRaw, decoderVars
  <2>2. QED  BY <1>6, <2>1
<1>8. CASE ProcessRs(p)
  <2>1. p \in Rs /\ Decode(p) /\ id \in Ids /\ Encoded # {}
    BY <1>2, <1>8, PacketKinds, PacketBlock, BlockId DEF ProcessRs, Rs
  <2>2. Forgets = {FALSE}
    BY <2>1 DEF Remembers
  <2> HIDE DEF id
  <2> DEFINE collected == Collected(p)
  <2>3. /\ collected = shares[id] \cup {ShareOf(p)}
        /\ \/ id \notin done /\ DifferentShares(collected) >= Needed
              /\ shares' = [shares EXCEPT ![id] = {}] /\ done' = done \cup {id}
           \/ id \in done /\ shares' = shares /\ done' = done
           \/ id \notin done /\ ~(DifferentShares(collected) >= Needed)
              /\ shares' = [shares EXCEPT ![id] = collected] /\ done' = done
    BY <2>1, <2>2 DEF Decode, Collected, ShareOf, id
  <2> HIDE DEF collected
  <2>4. CASE id \notin done /\ DifferentShares(collected) >= Needed
    <3>1. shares' = [shares EXCEPT ![id] = {}] /\ done' = done \cup {id}
      BY <2>3, <2>4
    <3>2. \A i \in Ids : shares'[i] = shares[i] \/ (i = id /\ shares'[i] = {})
      BY <1>5, <3>1
    <3>3. ~(DifferentShares({}) >= Needed)
      <4>1. {c.share : c \in {}} = {}
        OBVIOUS
      <4>2. DifferentShares({}) = 0
        BY <4>1, FS_EmptySet DEF DifferentShares
      <4>3. QED  BY <4>2, DecoderAssumption
    <3>4. id \in done'
      BY <3>1
    <3>5. \A i \in Ids : shares'[i] = shares[i] \/ ~(DifferentShares(shares'[i]) >= Needed)
      BY <3>2, <3>3
    <3>6. QED  BY <1>6, <3>1, <3>2, <3>4, <3>5 DEF id
  <2>5. CASE id \in done
    BY <1>6, <2>3, <2>5 DEF id
  <2>6. CASE id \notin done /\ ~(DifferentShares(collected) >= Needed)
    <3>1. shares' = [shares EXCEPT ![id] = collected] /\ done' = done
      BY <2>3, <2>6
    <3>2. \A i \in Ids : shares'[i] = shares[i] \/ (i = id /\ shares'[i] = collected)
      BY <1>5, <3>1
    <3>3. shares'[id] = collected
      BY <1>5, <2>1, <3>1
    <3>4. QED  BY <1>6, <2>3, <2>6, <3>1, <3>2, <3>3 DEF id
  <2>7. QED  BY <2>4, <2>5, <2>6
<1>9. QED  BY <1>7, <1>8 DEF ProcessPacket, p

LEMMA DecoderInvNext ==
    ASSUME Remembers, BedInv, DecoderInv, [BedNext]_bedVars
    PROVE  DecoderInv'
<1>1. ServerInv /\ Transit
  BY BedParts
<1>2. CASE SendDatagram \/ ArriveLate
  BY <1>1, <1>2, DecoderSend
<1>3. CASE ProcessPacket /\ UNCHANGED netVars
  BY <1>1, <1>3, DecoderProcess
<1>4. CASE (ReceiverThread \/ WaitForPacket \/ PlayerThread \/ UNCHANGED allVars)
           /\ UNCHANGED netVars
  <2>1. Coming' \subseteq Coming /\ UNCHANGED <<decoderVars, client>>
    BY <1>1, <1>4, TransitThreads
  <2>2. Pipe' = Pipe
    BY <1>1, <1>4, PipeMoves
       DEF Pipe, PlayerThread, allVars, serverVars, receiverVars, processorVars
  <2>3. arrived' = arrived /\ sent' = sent
    BY <1>4 DEF netVars
  <2>4. arrived' \subseteq 1..sent'
    BY <2>3 DEF DecoderInv, AllAccounted
  <2>5. QED  BY <2>1, <2>2, <2>3, <2>4, DecoderQuiet
<1>5. QED
  BY <1>2, <1>3, <1>4 DEF BedNext, bedVars, ServerThreads, ProcessorThread

\* Shares of two blocks meet under one id: of the earlier block none are in the pipe, so
\* all that arrived are collected, and those are too few.
LEMMA MixedBlockIsLost ==
    ASSUME BedInv, DecoderInv
    PROVE  MixedOnlyAfterLoss
<1> SUFFICES ASSUME client \notin Delayed, NEW i \in 1..Len(packet),
                    packet[i].encodeMode = 1, Id(packet[i].block) \notin done,
                    NEW c \in shares[Id(packet[i].block)], c.block # packet[i].block,
                    Recoverable(c.block)
             PROVE  FALSE
  BY DEF MixedOnlyAfterLoss
<1> DEFINE p == packet[i]
           b == c.block
           id == Id(p.block)
           A == {k \in arrived : Sent[client][k].block = b}
           S == {d.share : d \in shares[id]}
<1>1. /\ ServerInv /\ Transit /\ SharesUnderTheirId /\ packet \in Seq(Packet)
      /\ Len(packet) = IF processor = "visit" THEN 1 ELSE 0
  BY BedParts DEF ServerInv, ThreadInv, Hands
<1>2. i = 1 /\ Len(packet) = 1
  BY <1>1
<1>3. /\ Len(Pipe) \in Nat /\ 1 \in 1..Len(Pipe) /\ Pipe[1] = p
  <2> DEFINE behind == packetQueue \o (received \o rx)
  <2>1. behind \in Seq(Packet) /\ Pipe = packet \o behind
    BY <1>1, PipeParts DEF Pipe
  <2> HIDE DEF behind
  <2>2. Len(packet \o behind) = Len(behind) + 1 /\ (packet \o behind)[1] = packet[1]
    BY <1>1, <1>2, <2>1, OneBefore
  <2>3. Len(behind) \in Nat
    BY <2>1, LenProperties
  <2>4. QED  BY <1>2, <2>1, <2>2, <2>3
<1>4. p \in Packet /\ p.block \in Block /\ id \in Ids /\ p.block.stream = client
  BY <1>1, <1>2, <1>3, ElementOfSeq, PacketBlock, BlockId DEF Transit, EachOnce
<1>5. /\ c \in Share /\ b \in Block /\ b.stream \in Encoded /\ b.stream = client /\ Id(b) = id
      /\ b.nalu <= p.block.nalu
  <2>1. p \in Coming
    BY <1>3, <1>4 DEF Coming
  <2>2. c \in Share
    BY <1>1, <1>4 DEF SharesUnderTheirId
  <2>3. QED  BY <1>1, <1>4, <2>1, <2>2 DEF SharesUnderTheirId, DecoderInv, OfEarlierUnits, Share
<1> HIDE DEF p
<1>6. b.nalu < p.block.nalu
  <2>1. b.nalu \in Nat /\ p.block.nalu \in Nat
    BY <1>4, <1>5, BlockFields, NalusAssumption
  <2>2. b.nalu # p.block.nalu
    <3>1. b.block = p.block.block
      BY <1>5 DEF Id
    <3>2. b # p.block
      BY DEF p
    <3>3. QED  BY <1>4, <1>5, <3>1, <3>2, BlocksByIndices
  <2>3. QED  BY <1>5, <2>1, <2>2
<1> DEFINE all == Len(Sent[client])
<1>7. \A k \in arrived : k \in 1..all /\ k \in Nat /\ Sent[client][k] \in Packet
  <2>1. /\ Sent[client] \in Seq(Packet) /\ all \in Nat
        /\ arrived \subseteq 1..sent /\ sent \in 0..all
    BY <1>1, SentAssumption, LenProperties DEF DecoderInv, AllAccounted, Transit, Network
  <2> HIDE DEF all
  <2>2. arrived \subseteq 1..all /\ \A k \in 1..all : k \in Nat
    BY <2>1
  <2>3. \A k \in 1..all : Sent[client][k] \in Packet
    BY <2>1, ElementOfSeq DEF all
  <2>4. QED  BY <2>2, <2>3
<1>8. ASSUME NEW k \in A
      PROVE  /\ Sent[client][k] \in Rs /\ Sent[client][k].block = b
             /\ ShareOf(Sent[client][k]) \in shares[id]
  <2> DEFINE d == Sent[client][k]
  <2>1. d \in Packet /\ d.block = b
    BY <1>7, <1>8
  <2>2. d \in Rs /\ d.encodeMode = 1
    BY <1>5, <2>1 DEF Packet, Raw, Rs
  <2>3. Accounted(d)
    BY <1>8, <2>2 DEF DecoderInv, AllAccounted
  <2> HIDE DEF d
  <2>4. ~\E l \in 1..Len(Pipe) : Pipe[l] = d
    <3> SUFFICES ASSUME NEW l \in 1..Len(Pipe), Pipe[l] = d PROVE FALSE
      OBVIOUS
    <3>1. l = 1 \/ 1 < l
      BY <1>3
    <3>2. b.nalu \in Nat /\ p.block.nalu \in Nat
      BY <1>4, <1>5, BlockFields, NalusAssumption
    <3>3. p.block.nalu <= d.block.nalu
      BY <1>1, <1>3, <3>1, <3>2 DEF Transit, UnitsInOrder
    <3>4. QED  BY <1>6, <2>1, <3>2, <3>3
  <2>5. Id(d.block) \notin done
    BY <1>5, <2>1 DEF p
  <2>6. ShareOf(d) \in shares[id]
    BY <1>5, <2>1, <2>3, <2>4, <2>5 DEF Accounted
  <2>7. QED  BY <2>1, <2>2, <2>6 DEF d
<1> HIDE DEF b, id
<1>9. [k \in A |-> Sent[client][k].share] \in Injection(A, S)
  <2> DEFINE f == [k \in A |-> Sent[client][k].share]
  <2>1. ASSUME NEW k \in A PROVE Sent[client][k].share \in S
    <3>1. ShareOf(Sent[client][k]) \in shares[id]
      BY <1>8, <2>1
    <3>2. ShareOf(Sent[client][k]).share = Sent[client][k].share
      BY DEF ShareOf
    <3>3. QED  BY <3>1, <3>2
  <2>2. ASSUME NEW k \in A, NEW l \in A, Sent[client][k].share = Sent[client][l].share
        PROVE  k = l
    <3>1. Sent[client][k] = Sent[client][l]
      BY <1>8, <2>2 DEF Rs
    <3>2. k \in 1..Len(Sent[client]) /\ l \in 1..Len(Sent[client]) /\ client \in Streams
          /\ k \in Nat /\ l \in Nat
      BY <1>7, <1>1 DEF Transit, Network
    <3>3. ~SentBefore(Sent[client][k], Sent[client][l])
      BY <1>8, <3>1, SentBeforeStrict DEF Packet
    <3>4. ~(k < l) /\ ~(l < k)
      BY <3>1, <3>2, <3>3, SentInOrderAssumption
    <3>5. QED  BY <3>2, <3>4
  <2> HIDE DEF A, S
  <2>3. f \in [A -> S] /\ \A k, l \in A : f[k] = f[l] => k = l
    BY <2>1, <2>2
  <2>4. DOMAIN f = A
    OBVIOUS
  <2> HIDE DEF f
  <2>5. f \in Injection(A, S)
    BY <2>3, <2>4 DEF Injection, IsInjective
  <2>6. QED  BY <2>5 DEF f
<1>10. IsFiniteSet(S)
  <2>1. \A d \in shares[id] : d \in Share
    BY <1>1, <1>4 DEF SharesUnderTheirId
  <2>2. S \in SUBSET Shares
    BY <2>1 DEF Share
  <2>3. QED  BY <2>2, FS_Subset, DecoderAssumption
<1>11. Cardinality(A) <= Cardinality(S) /\ Cardinality(A) \in Nat /\ Cardinality(S) \in Nat
  <2> HIDE DEF A, S
  <2>1. IsFiniteSet(A) /\ Cardinality(A) <= Cardinality(S)
    BY <1>9, <1>10, FS_Injection
  <2>2. QED  BY <1>10, <2>1, FS_CardinalityType
<1>12. Cardinality(A) >= Needed
  BY <1>5 DEF Recoverable, b
<1>13. ~(Cardinality(S) >= Needed)
  BY <1>4 DEF DecoderInv, TooFew, DifferentShares
<1>14. QED
  <2> HIDE DEF A, S
  <2>1. Needed \in Nat
    BY DecoderAssumption
  <2>2. QED  BY <1>11, <1>12, <1>13, <2>1

-------------------------------------------------------------------------------
(* The theorems. *)

\* BedInv, the strengthening of the test bed's safety properties, always holds when the
\* decoder, if there is one, forgets no block it has returned.
THEOREM BedInvariance ==
    ASSUME Remembers
    PROVE  BedSpec => []BedInv
<1>1. BedInv /\ [BedNext]_bedVars => BedInv'
  BY BedInvNext
<1>2. QED  BY <1>1, BedInvInit, PTL DEF BedSpec

\* When the network delays nothing, no unit becomes ready after playback has passed it
\* (Run looks at the first key of _readyNalus only: such a unit would hide every later
\* one), for any loss, full receive buffer, encoding, timeout and interleaving.
THEOREM NoUnitIsStale ==
    ASSUME Remembers, Delayed = {}
    PROVE  BedSpec => []NoStaleUnit
<1>1. BedInv => NoStaleUnit
  BY DEF BedInv, NothingPassed, Kept
<1>2. QED  BY <1>1, BedInvariance, PTL

\* With delay too, units are hidden only once Run has skipped one: reordering alone,
\* with no timeout of wait_for over a unit still on its way, hides nothing.
THEOREM SkipsMakeUnitsStale ==
    ASSUME Remembers
    PROVE  BedSpec => []StaleUnitsComeOfSkips
<1>1. BedInv => StaleUnitsComeOfSkips
  BY DEF BedInv, NothingPassed, Kept, StaleUnitsComeOfSkips
<1>2. QED  BY <1>1, BedInvariance, PTL

\* Every block AddBlock counts as expected has been accepted or is an empty position of
\* a unit in _assembling: no block of a unit that had one arrive is lost from the count.
THEOREM EveryBlockAddsUp ==
    ASSUME Remembers
    PROVE  BedSpec => []BlocksAddUp
<1>1. BedInv => BlocksAddUp
  BY DEF BedInv, Sum
<1>2. QED  BY <1>1, BedInvariance, PTL

\* Ids that come round again, as naluIndex << 16 makes them do after 65536 units, mix
\* blocks only after a loss the code could not have survived anyway: with datagrams in
\* order, of a block whose shares are still there when one of another block comes under
\* the same id, fewer datagrams than the decoder needs have ever arrived.
THEOREM MixingNeedsLoss ==
    ASSUME Remembers
    PROVE  BedSpec => []MixedOnlyAfterLoss
<1>1. BedInv /\ DecoderInv /\ [BedNext]_bedVars => DecoderInv'
  BY DecoderInvNext
<1>2. BedInv /\ DecoderInv => MixedOnlyAfterLoss
  BY MixedBlockIsLost
<1>3. BedSpec => []BedInv
  BY BedInvariance
<1>4. QED  BY <1>1, <1>2, <1>3, DecoderInvInit, PTL DEF BedSpec
================================================================================
