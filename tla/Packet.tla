-------------------------------- MODULE Packet --------------------------------
(***************************************************************************)
(* The datagrams in bytes (common/socket/Packet.h): composePacket in the   *)
(* client, decomposePacket in the server on the receive buffer of          *)
(* ReceiveNonBlocking (Interface.h), and what the processor thread takes   *)
(* out of the packet.  The threads are in module Server: here a packet     *)
(* that was received is processed before the next one.                     *)
(*                                                                         *)
(* Operators introduced by "Mistake:" are explained in module Player.      *)
(***************************************************************************)
EXTENDS Naturals, Sequences, SequencesExt

CONSTANTS
    BlockSize,   \* blockSize: 1024 in the program
    Blocks,      \* what ReadTo may give: [blockIndex, naluIndex, naluSize, data]
    Oversize,    \* external: by how much payloads of rscoder may exceed fieldSize
    Strays,      \* external: datagrams of other programs
    RxCapacity,  \* the socket's receive buffer, in datagrams
    MaxBlocks,   \* bound: blocks read in one behaviour
    MaxLost,     \* bound: datagrams lost in one behaviour
    MaxStrays    \* bound: stray datagrams in one behaviour

Cells == 8
FieldSize == BlockSize \div Cells
HeaderSize == 16
Byte == 0..255

\* The size of a block is a number of 16 bits, the indices have 32.
ASSUME SizeAssumption ==
    BlockSize \in Nat \ {0} /\ BlockSize % Cells = 0 /\ BlockSize < 65536
ASSUME BlocksAssumption ==
    \A b \in Blocks :
        /\ b \in [blockIndex : Nat, naluIndex : Nat, naluSize : Nat, data : Seq(Byte)]
        /\ \A n \in {b.blockIndex, b.naluIndex, b.naluSize} : n \div 65536 < 65536
        /\ Len(b.data) \in 1..BlockSize
ASSUME ExternalAssumption == Oversize \subseteq Nat /\ Strays \subseteq Seq(Byte)
ASSUME BoundsAssumption == {RxCapacity, MaxBlocks, MaxLost, MaxStrays} \subseteq Nat

VARIABLES
    encodingMode,  \* of the client: 0 or 1
    given,         \* the block in the client's hands, as a sequence of at most one
    payloads,      \* what the encoder made of it and is not sent yet
    rx,            \* the receive buffer of the socket
    message,       \* receivedMessage: what earlier calls left in it stays
    packet,        \* the packet received, as a sequence of at most one
    collected,     \* rscoder: the payloads under each id
    read,          \* history: the blocks ReadTo gave
    added,         \* history: the blocks given to AddBlock
    lost,          \* history: how many datagrams were lost or not composed
    strays         \* history: how many stray datagrams came

clientVars == <<encodingMode, given, payloads, read>>
serverVars == <<message, packet, collected, added>>
vars == <<clientVars, rx, serverVars, lost, strays>>

Zeros(n) == [i \in 1..n |-> 0]
Padded(s, n) == SubSeq(s \o Zeros(n), 1, n)

\* receivedMessage is not initialised; 0 and 1 both look like an encodeMode.
Init ==
    /\ encodingMode \in {0, 1}
    /\ given = <<>> /\ payloads = <<>>
    /\ rx = <<>>
    /\ \E old \in {0, 1} : message = [i \in 1..(HeaderSize + BlockSize) |-> old]
    /\ packet = <<>>
    /\ collected = {}
    /\ read = <<>> /\ added = <<>>
    /\ lost = 0 /\ strays = 0

-------------------------------------------------------------------------------
(* Composing and decomposing. *)

\* htons and htonl, ntohs and ntohl, and the bytes in memory.
Weight == <<1, 256, 65536, 16777216>>
ToBytes(n, width) == [i \in 1..width |-> (n \div Weight[width + 1 - i]) % 256]
FromBytes(s) ==
    LET Digit(i) == IF i <= Len(s) THEN s[Len(s) + 1 - i] ELSE 0
    IN  Digit(1) + 256 * Digit(2) + 65536 * Digit(3) + 16777216 * Digit(4)

\* header_t, packed: the order of the fields and how wide they are ...
Serialised(header) ==
    ToBytes(header.encodeMode, 1) \o ToBytes(header.packetIndex, 1) \o
    ToBytes(header.payloadSize, 2) \o ToBytes(header.blockIndex, 4) \o
    ToBytes(header.naluIndex, 4) \o ToBytes(header.naluSize, 4)

\* ... and where they start.
HeaderIn(buffer) ==
    LET Field(offset, width) == FromBytes(SubSeq(buffer, offset + 1, offset + width))
    IN  [encodeMode |-> Field(0, 1), packetIndex |-> Field(1, 1),
         payloadSize |-> Field(2, 2), blockIndex |-> Field(4, 4),
         naluIndex |-> Field(8, 4), naluSize |-> Field(12, 4)]

Header(mode, index, size, block) ==
    [encodeMode |-> mode, packetIndex |-> index, payloadSize |-> size,
     blockIndex |-> block.blockIndex, naluIndex |-> block.naluIndex,
     naluSize |-> block.naluSize]

\* Mistake: a full payload is one too many.
Fills(length, limit) == length >= limit

\* The tests against blockSize and fieldSize.
Exceeds(length, limit) == length > limit

\* composePacket and the datagram it becomes: none, or one that is as long as the
\* struct, whatever the payload.
ComposeRaw(block) ==
    IF Exceeds(Len(block.data), BlockSize)
    THEN <<>>
    ELSE << Serialised(Header(0, 0, Len(block.data), block)) \o Padded(block.data, BlockSize) >>

ComposeRs(block, index, payload) ==
    IF Exceeds(Len(payload), FieldSize)
    THEN <<>>
    ELSE << Serialised(Header(1, index, Len(block.data), block)) \o
            SubSeq(payload, 1, FieldSize) >>

Room(mode) == IF mode = 0 THEN BlockSize ELSE FieldSize

Decompose(buffer, length) ==
    LET header == HeaderIn(buffer)
        room == Room(header.encodeMode)
    IN  IF \/ length < HeaderSize
           \/ header.encodeMode \notin {0, 1}
           \/ Exceeds(length - HeaderSize, room)
           \/ header.encodeMode = 0 /\ Exceeds(header.payloadSize, BlockSize)
        THEN <<>>
        ELSE << [header |-> header,
                 payload |-> Padded(SubSeq(buffer, HeaderSize + 1, length), room)] >>

\* recv cuts off what does not fit and leaves the rest of the buffer as it was.
Received(datagram) ==
    IF Len(datagram) < HeaderSize + BlockSize THEN Len(datagram) ELSE HeaderSize + BlockSize
Buffered(datagram, old) ==
    [i \in 1..(HeaderSize + BlockSize) |-> IF i <= Received(datagram) THEN datagram[i] ELSE old[i]]

\* A well formed packet of another program would be a block like any other.
ASSUME StraysAssumption ==
    \A d \in Strays :
        Decompose(Buffered(d, Zeros(HeaderSize + BlockSize)), Received(d)) = <<>>

-------------------------------------------------------------------------------
(* The client. *)

\* A datagram reaches the socket, or is lost on the way or at a full buffer.
Send(datagram) ==
    \/ Len(rx) < RxCapacity /\ rx' = Append(rx, datagram) /\ UNCHANGED lost
    \/ lost < MaxLost /\ lost' = lost + 1 /\ UNCHANGED rx

\* external: the payloads begin with the block itself, filled up with zeros and cut in
\* eight.  The parity after them says nothing about bytes and is in module Server.
Encoded(data, size) ==
    [k \in 1..Cells |->
        Padded(SubSeq(Padded(data, BlockSize), (k - 1) * FieldSize + 1, k * FieldSize), size)]

\* A stream gives no block twice.
ReadBlock ==
    /\ given = <<>>
    /\ Len(read) < MaxBlocks
    /\ \E b \in Blocks \ Range(read), o \in Oversize :
        /\ given' = <<b>>
        /\ read' = Append(read, b)
        /\ payloads' = IF encodingMode = 0 THEN <<>> ELSE Encoded(b.data, FieldSize + o)
    /\ UNCHANGED <<encodingMode, rx, serverVars, lost, strays>>

SendRaw ==
    /\ given # <<>>
    /\ encodingMode = 0
    /\ LET composed == ComposeRaw(given[1]) IN
        IF composed # <<>> THEN Send(composed[1]) ELSE lost' = lost + 1 /\ UNCHANGED rx
    /\ given' = <<>>
    /\ UNCHANGED <<encodingMode, payloads, read, serverVars, strays>>

\* One round of the loop over the payloads.  All have one size, so packetIndex counts
\* those before this one whenever a datagram is made.
SendRs ==
    /\ payloads # <<>>
    /\ LET composed == ComposeRs(given[1], Cells - Len(payloads), Head(payloads)) IN
        IF composed # <<>> THEN Send(composed[1]) ELSE lost' = lost + 1 /\ UNCHANGED rx
    /\ payloads' = Tail(payloads)
    /\ given' = IF Len(payloads) = 1 THEN <<>> ELSE given
    /\ UNCHANGED <<encodingMode, read, serverVars, strays>>

Stray ==
    /\ strays < MaxStrays
    /\ Len(rx) < RxCapacity
    /\ \E d \in Strays : rx' = Append(rx, d)
    /\ strays' = strays + 1
    /\ UNCHANGED <<clientVars, serverVars, lost>>

-------------------------------------------------------------------------------
(* The server. *)

ReceiveNonBlocking ==
    /\ rx # <<>>
    /\ packet = <<>>
    /\ message' = Buffered(Head(rx), message)
    /\ packet' = Decompose(Buffered(Head(rx), message), Received(Head(rx)))
    /\ rx' = Tail(rx)
    /\ UNCHANGED <<clientVars, collected, added, lost, strays>>

AddBlock(header, data) ==
    added' = Append(added, [blockIndex |-> header.blockIndex, naluIndex |-> header.naluIndex,
                            naluSize |-> header.naluSize, data |-> data])

ProcessRaw ==
    /\ packet # <<>>
    /\ packet[1].header.encodeMode = 0
    /\ AddBlock(packet[1].header, SubSeq(packet[1].payload, 1, packet[1].header.payloadSize))
    /\ packet' = <<>>
    /\ UNCHANGED <<clientVars, rx, message, collected, lost, strays>>

\* external: the block is decoded when all eight of its payloads are there.
Decodable(payloadsOfId) == {p.index : p \in payloadsOfId} = 0..(Cells - 1)
Decoded(payloadsOfId) ==
    LET Payload(k) == (CHOOSE p \in payloadsOfId : p.index = k).payload
    IN  [i \in 1..BlockSize |-> Payload((i - 1) \div FieldSize)[((i - 1) % FieldSize) + 1]]

\* (naluIndex << 16) | blockIndex: the bits of the upper half, and the lower half.
Id(block) ==
    << {k \in 0..15 : \/ (block.naluIndex \div 2^k) % 2 = 1
                     \/ ((block.blockIndex \div 65536) \div 2^k) % 2 = 1},
       block.blockIndex % 65536 >>

\* Mistake: the decoded block is handed over as it is.
NotResized(block, size) == block

\* resize(payloadLength): the zeros the encoder added are cut off.
Resized(block, size) == Padded(block, size)

ProcessRs ==
    /\ packet # <<>>
    /\ packet[1].header.encodeMode = 1
    /\ LET header == packet[1].header
           id == Id(header)
           share == [id |-> id, index |-> header.packetIndex, payload |-> packet[1].payload]
           ofId == {s \in collected \cup {share} : s.id = id}
       IN  IF Decodable(ofId)
           THEN /\ AddBlock(header, Resized(Decoded(ofId), header.payloadSize))
                /\ collected' = collected \ ofId
           ELSE collected' = collected \cup ofId /\ UNCHANGED added
    /\ packet' = <<>>
    /\ UNCHANGED <<clientVars, rx, message, lost, strays>>

Next ==
    \/ ReadBlock \/ SendRaw \/ SendRs \/ Stray
    \/ ReceiveNonBlocking \/ ProcessRaw \/ ProcessRs

Spec == Init /\ [][Next]_vars

-------------------------------------------------------------------------------
(* Properties. *)

\* What is given to AddBlock are blocks the client read, in the order it read them, to
\* the byte: no index or size is taken from another field's bytes, no padding stays, a
\* stray datagram adds nothing, and bytes an earlier datagram left in receivedMessage
\* never count as those of a shorter one (composePacket, decomposePacket, resize).
BlocksArriveUnchanged ==
    /\ \A x \in 1..Len(added) : \E i \in 1..Len(read) : added[x] = read[i]
    /\ \A x, y \in 1..Len(added) : \A i, j \in 1..Len(read) :
           x < y /\ added[x] = read[i] /\ added[y] = read[j] => i < j

\* When no datagram was lost, every block read is added once nothing is under way:
\* neither side's tests of sizes refuse a block or a payload that is just full.
EveryBlockArrives ==
    given = <<>> /\ rx = <<>> /\ packet = <<>> /\ lost = 0 => added = read
===============================================================================
