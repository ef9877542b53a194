------------------------------- MODULE MCDisplay ------------------------------
(* Display with two frame sizes and two pixel formats. *)
EXTENDS Display
===============================================================================
