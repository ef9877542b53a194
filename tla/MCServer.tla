------------------------------- MODULE MCServer -------------------------------
(* Server with two encoded units of one block: two shares of a block decode it. *)
EXTENDS Server, TLC

CONSTANTS run1

MCNalus == 0..1
MCSize == run1 :> (0 :> 1 @@ 1 :> 1)
===============================================================================
