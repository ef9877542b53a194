------------------------------- MODULE Playback -------------------------------
(***************************************************************************)
(* What the server promises its viewer, with nothing said about how: NAL   *)
(* units reach the H.264 decoder whole, each at most once and in the order *)
(* of their indices.  Units may be missing; none is incomplete, repeated   *)
(* or out of place.  Player implements this module.                        *)
(***************************************************************************)
EXTENDS Naturals, Sequences

CONSTANT Units       \* the whole units there can be: [nalu, content]

VARIABLE displayed   \* the units given to the decoder so far

vars == <<displayed>>

Init == displayed = <<>>

Display(unit) ==
    /\ \A i \in 1..Len(displayed) : displayed[i].nalu < unit.nalu
    /\ displayed' = Append(displayed, unit)

Next == \E unit \in Units : Display(unit)

Spec == Init /\ [][Next]_vars
===============================================================================
