----------------------------- MODULE MCWatchdog -----------------------------
(* Watchdog for TLC; the timings are in MCWatchdog.cfg. *)
EXTENDS Watchdog
=============================================================================
