------------------------------- MODULE MCBoard -------------------------------
(***************************************************************************)
(* Board with a factory image and its successors, which lay their settings *)
(* out in another way.                                                     *)
(***************************************************************************)
EXTENDS Board

CONSTANTS FirstLayout, SecondLayout

MCLayout == [i \in Images |-> IF i = 1 THEN FirstLayout ELSE SecondLayout]
=============================================================================
