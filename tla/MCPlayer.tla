------------------------------- MODULE MCPlayer -------------------------------
(* Player with two runs of a client whose units 0 and 1 differ in length. *)
EXTENDS Player, TLC

CONSTANTS s1, s2

MCNalus == 0..2
MCSize == s1 :> (0 :> 1 @@ 1 :> 2 @@ 2 :> 1) @@ s2 :> (0 :> 2 @@ 1 :> 1 @@ 2 :> 1)
===============================================================================
