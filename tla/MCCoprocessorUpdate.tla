------------------------ MODULE MCCoprocessorUpdate ------------------------
(***************************************************************************)
(* CoprocessorUpdate with queues of two or three places, so that a queue   *)
(* can be full, hold more than one read brings, and change between a read  *)
(* and its roll.                                                           *)
(***************************************************************************)
EXTENDS CoprocessorUpdate
=============================================================================
