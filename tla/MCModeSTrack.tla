---------------------------- MODULE MCModeSTrack ----------------------------
(***************************************************************************)
(* One tick stands for 10 s in the CPR intervals.                          *)
(***************************************************************************)
EXTENDS ModeSTrack

\* The RP2040 starts its MLAT counter well within a tick of its own clock, and
\* the ESP32 boots after that.
MCOnRP2040 == 0
MCOnESP32 == -2
=============================================================================
