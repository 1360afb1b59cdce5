----------------------------- MODULE MCUsbQueue -----------------------------
(* UsbQueue for TLC: three slots, counters that wrap after two laps. *)
EXTENDS UsbQueue

MCSize == 3
MCLaps == 2
=============================================================================
