------------------------------- MODULE MCPacket -------------------------------
(* Packet with blocks of 16 bytes: a full one, one a byte short, one of a byte,    *)
(* with different indices in every field of the header.                            *)
EXTENDS Packet

Data(n) == [i \in 1..n |-> 240 + i - 1]

MCBlocks ==
    {[blockIndex |-> 0, naluIndex |-> 258, naluSize |-> 70000, data |-> Data(16)],
     [blockIndex |-> 66051, naluIndex |-> 7, naluSize |-> 66052, data |-> Data(15)],
     [blockIndex |-> 1, naluIndex |-> 16909060, naluSize |-> 2, data |-> Data(1)]}

\* Nothing, a header cut short, an encoded packet of too many bytes, another mode, and
\* a raw packet that claims more than a block.
MCStrays ==
    {<<>>, [i \in 1..15 |-> 0], [i \in 1..32 |-> 1], [i \in 1..32 |-> 2],
     [i \in 1..32 |-> IF i \in {3, 4} THEN 255 ELSE 0]}
===============================================================================
