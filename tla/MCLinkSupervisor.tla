-------------------------- MODULE MCLinkSupervisor --------------------------
(* LinkSupervisor for TLC: timers of a few ticks instead of 3000 and 600.  *)
EXTENDS LinkSupervisor
=============================================================================
