--------------------------- MODULE MCEventSource ---------------------------
(* The event source without a watchdog deadline: only wakeups drive it.    *)
EXTENDS EventSource

=============================================================================
