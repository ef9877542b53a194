------------------------------- MODULE MCTestbed -------------------------------
(* Testbed with a client run of raw packets or one of encoded ones.  Encoded     *)
(* blocks are sent under three shares, any two of which decode.                  *)
EXTENDS Testbed, TLC

CONSTANTS rawRun, rsRun

MCNalus == 0..1
MCSize == [s \in Streams |-> IF s \in Encoded THEN 0 :> 1 @@ 1 :> 1 ELSE 0 :> 2 @@ 1 :> 1]

Of(s, n, b) == [stream |-> s, nalu |-> n, block |-> b]
RawPacket(n, b) == [encodeMode |-> 0, share |-> 0, block |-> Of(rawRun, n, b)]
RsPacket(n, i) == [encodeMode |-> 1, share |-> i, block |-> Of(rsRun, n, 0)]

MCSent ==
    [s \in Streams |->
        IF s \in Encoded
        THEN <<RsPacket(0, 0), RsPacket(0, 1), RsPacket(0, 2),
               RsPacket(1, 0), RsPacket(1, 1), RsPacket(1, 2)>>
        ELSE <<RawPacket(0, 0), RawPacket(0, 1), RawPacket(1, 0)>>]

\* Three encoded units of one block, each under two shares that are both needed: with
\* IdUnits = 2 the last unit has the decoder id of the first.
MCWrapNalus == 0..2
MCWrapSize ==
    [s \in Streams |-> IF s \in Encoded THEN [n \in 0..2 |-> 1] ELSE 0 :> 2 @@ 1 :> 1 @@ 2 :> 1]
MCWrapSent ==
    [s \in Streams |->
        IF s \in Encoded
        THEN <<RsPacket(0, 0), RsPacket(0, 1), RsPacket(1, 0), RsPacket(1, 1),
               RsPacket(2, 0), RsPacket(2, 1)>>
        ELSE <<RawPacket(0, 0), RawPacket(0, 1), RawPacket(1, 0), RawPacket(2, 0)>>]
================================================================================
