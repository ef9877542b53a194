---------------------------- MODULE MCStreamReader ----------------------------
(* StreamReader over every stream of at most two packets of one or two units,   *)
(* and between them a packet of another stream.                                  *)
EXTENDS StreamReader, TLC

\* Payloads of 1 to 3 bytes: with the start code, units of 4 to 7 bytes.
MCPayloads == {<<1>>, <<0, 2>>, <<0, 0, 2>>}
MCUnits == {<<0, 0, 1>> \o p : p \in MCPayloads} \cup {<<0, 0, 0, 1>> \o p : p \in MCPayloads}

Frames == {[video |-> TRUE, nalus |-> u] : u \in {<<n>> : n \in MCUnits} \cup MCUnits \X MCUnits}
Audio == [video |-> FALSE, nalus |-> <<<<0, 0, 1, 2>>>>]
Empty == [video |-> TRUE, nalus |-> <<>>]

MCSources ==
    {<<f>> : f \in Frames} \cup
    {<<f, Audio, Empty, [video |-> TRUE, nalus |-> <<n>>]>> : f \in Frames, n \in MCUnits}
===============================================================================
