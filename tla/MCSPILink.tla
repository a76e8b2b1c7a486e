----------------------------- MODULE MCSPILink -----------------------------
(***************************************************************************)
(* SPILink with a write and two reads, of which two look alike.            *)
(***************************************************************************)
EXTENDS SPILink

CONSTANTS Roll, Status, Scratch

MCRequests == {Roll, Status, Scratch}
MCWrites == {Roll}
MCRefusable == {Roll, Scratch}
MCShape == [r \in MCRequests |-> IF r = Roll THEN "ack" ELSE "data"]
=============================================================================
