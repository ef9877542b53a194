------------------------------- MODULE MCClient -------------------------------
(* Client over streams of one unit, of two in one packet, and of two with a      *)
(* packet of another stream between them; units of one block and of two.         *)
EXTENDS Client, TLC

MCUnits == {<<0, 0, 1, 1>>, <<0, 0, 0, 1, 0, 2>>, <<0, 0, 1, 0, 0, 2, 0, 2>>}

Packet(units) == [video |-> TRUE, nalus |-> units]
Audio == [video |-> FALSE, nalus |-> <<<<0, 0, 1, 2>>>>]

MCSources ==
    {<<Packet(<<u>>)>> : u \in MCUnits} \cup
    {<<Packet(<<u, v>>)>> : u \in MCUnits, v \in MCUnits} \cup
    {<<Packet(<<u>>), Audio, Packet(<<v>>)>> : u \in MCUnits, v \in MCUnits}
===============================================================================
