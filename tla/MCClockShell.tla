--------------------------- MODULE MCClockShell ---------------------------
(* Two generations of the ONLINE shell for TLC. *)
EXTENDS ClockShell
=============================================================================
