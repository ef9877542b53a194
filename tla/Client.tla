-------------------------------- MODULE Client --------------------------------
(***************************************************************************)
(* The client process (client/client.cpp): its reader thread takes blocks  *)
(* from StreamReader and sends each one, raw in one datagram or encoded in *)
(* one datagram per packet of the Reed-Solomon encoder.  The main thread   *)
(* only makes the socket and joins.                                        *)
(*                                                                         *)
(* running would be set to false when ReadTo returned a negative number,   *)
(* which it never does: the flag is left out.                              *)
(*                                                                         *)
(* Operators introduced by "Mistake:" are explained in module Player.      *)
(***************************************************************************)
EXTENDS StreamReader

CONSTANTS
    Modes,       \* the values of packet.encoded in client.json
    Amount,      \* packet.amount: 8 to 255 in the program
    Payloads     \* how many payloads rscoder's encoder makes of a block

ASSUME ModesAssumption == Modes \subseteq BOOLEAN
ASSUME AmountAssumption == Amount \in Nat /\ Payloads \in Nat

VARIABLES
    encodingMode,  \* encodingMode
    client,        \* where the client is
    packetIndex,   \* packetIndex
    encoded,       \* how many of encodedPackets are still to be sent
    fits,          \* are the payloads of encodedPackets of fieldSize at most?
    sent,          \* history: the datagrams the kernel accepted
    dropped        \* history: has a datagram not been composed or accepted?

encoderVars == <<packetIndex, encoded, fits>>
sentVars == <<sent, dropped>>
clientVars == <<encodingMode, client, encoderVars, sentVars>>
clientAllVars == <<readerVars, clientVars>>

ClientInit ==
    /\ Init
    /\ encodingMode \in Modes
    /\ client = "connect"
    /\ packetIndex = 0 /\ encoded = 0 /\ fits = TRUE
    /\ sent = <<>> /\ dropped = FALSE

\* The socket: an address that is not one, or a port that is taken, ends the process.
Connect ==
    /\ client = "connect"
    /\ client' \in {"open", "exited"}
    /\ UNCHANGED <<readerVars, encodingMode, encoderVars, sentVars>>

OpenReader ==
    /\ client = "open"
    /\ Open
    /\ client' = IF reader' = "exited" THEN "exited" ELSE "read"
    /\ UNCHANGED <<encodingMode, encoderVars, sentVars>>

ReadBlock == client = "read" /\ ReadTo /\ UNCHANGED clientVars

\* composePacket and Send for the block in `given`.  A send that fails returns -1,
\* which the unsigned comparison in Send takes for a success: nobody is told.
Send(index) ==
    \/ /\ sent' = Append(sent, [nalu |-> given[1].nalu, block |-> given[1].block,
                                total |-> given[1].total, share |-> index,
                                size |-> Len(given[1].data)])
       /\ UNCHANGED dropped
    \/ dropped' = TRUE /\ UNCHANGED sent

\* composePacket cannot fail here: ReadTo never gives more than blockSize bytes.
SendRaw ==
    /\ client = "read"
    /\ given # <<>>
    /\ ~encodingMode
    /\ TakeBlock
    /\ Send(0)
    /\ UNCHANGED <<encodingMode, client, encoderVars>>

\* The payloads of a block are segments of one encoding, so all have the same size.
Encode ==
    /\ client = "read"
    /\ given # <<>>
    /\ encodingMode
    /\ packetIndex' = 0
    /\ encoded' = Payloads
    /\ fits' \in BOOLEAN
    /\ client' = "send"
    /\ UNCHANGED <<readerVars, encodingMode, sentVars>>

\* composePacket refuses the payload; packetIndex stays as it is.
SkipPayload ==
    /\ client = "send"
    /\ encoded > 0
    /\ ~fits
    /\ encoded' = encoded - 1
    /\ dropped' = TRUE
    /\ UNCHANGED <<readerVars, encodingMode, client, packetIndex, fits, sent>>

\* Mistake: packetIndex is not counted on.
SendUncounted ==
    /\ client = "send"
    /\ encoded > 0
    /\ fits
    /\ Send(packetIndex)
    /\ encoded' = encoded - 1
    /\ UNCHANGED <<readerVars, encodingMode, client, packetIndex, fits>>

\* The loop breaks after the packet with index packetAmount, and counts on otherwise.
SendPayload ==
    /\ client = "send"
    /\ encoded > 0
    /\ fits
    /\ Send(packetIndex)
    /\ IF packetIndex = Amount
       THEN encoded' = 0 /\ UNCHANGED packetIndex
       ELSE encoded' = encoded - 1 /\ packetIndex' = packetIndex + 1
    /\ UNCHANGED <<readerVars, encodingMode, client, fits>>

NextBlock ==
    /\ client = "send"
    /\ encoded = 0
    /\ TakeBlock
    /\ client' = "read"
    /\ UNCHANGED <<encodingMode, encoderVars, sentVars>>

\* ReadTo returned 0: the reader is closed, the thread joined, the process ends.
ShutDown ==
    /\ client = "read"
    /\ given = <<>>
    /\ Close
    /\ client' = "ended"
    /\ UNCHANGED <<encodingMode, encoderVars, sentVars>>

ClientNext ==
    \/ Connect \/ OpenReader \/ ReadBlock \/ SendRaw
    \/ Encode \/ SkipPayload \/ SendPayload \/ NextBlock \/ ShutDown

\* The client is one thread that never waits for anybody.
ClientSpec ==
    ClientInit /\ [][ClientNext]_clientAllVars /\ WF_clientAllVars(ClientNext)

-------------------------------------------------------------------------------
(* Properties. *)

ClientTypeOK ==
    /\ TypeOK
    /\ encodingMode \in BOOLEAN
    /\ client \in {"connect", "open", "read", "send", "ended", "exited"}
    /\ packetIndex \in 0..Amount
    /\ encoded \in 0..Payloads
    /\ fits \in BOOLEAN
    /\ sent \in Seq([nalu : Nat, block : Nat, total : Nat, share : 0..Amount, size : 1..BlockSize])
    /\ dropped \in BOOLEAN

Before(c, d) ==
    \/ c.nalu < d.nalu
    \/ c.nalu = d.nalu /\ c.block < d.block
    \/ c.nalu = d.nalu /\ c.block = d.block /\ c.share < d.share

\* No datagram is sent twice or before an earlier one: by unit, by block, by share.
\* (The order Testbed assumes of a client; naluIndex, blockIndex and packetIndex are
\* kept in three different loops.)
SentInOrder == \A i, j \in 1..Len(sent) : i < j => Before(sent[i], sent[j])

\* The shares of a block: one when raw, else as many as there are, packetAmount + 1
\* at the most.
SharesOfBlock ==
    IF ~encodingMode THEN {0} ELSE {k \in 0..Amount : k < Payloads}

DatagramsOf(n) ==
    LET size == Len(video[n + 1]) IN
    {[nalu |-> n, block |-> b, total |-> BlockCount(size), share |-> k,
      size |-> IF b = BlockCount(size) - 1 THEN size - b * BlockSize ELSE BlockSize] :
        b \in 0..(BlockCount(size) - 1), k \in SharesOfBlock}

\* A client that ends has sent the whole stream, every block under all its shares,
\* with the sizes and counts the server needs to put the units together again.
EverythingIsSent ==
    client = "ended" /\ ~failed /\ ~dropped =>
        Range(sent) = UNION {DatagramsOf(n) : n \in 0..(Len(video) - 1)}

\* A client that has opened its stream comes to its end and shuts down: the search
\* for start codes always moves on and the loops over packets and payloads end.
ClientShutsDown == client = "read" ~> client = "ended"

\* json-schema/client.json describes amount as "Number of encoded packets per block".
AtMostAmountPerBlock ==
    \A d \in Range(sent) :
        Cardinality({k \in 0..Amount : [d EXCEPT !.share = k] \in Range(sent)}) <= Amount
===============================================================================
