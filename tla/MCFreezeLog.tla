---------------------------- MODULE MCFreezeLog ----------------------------
(* FreezeLog for TLC: days of two to four hours and months of five or six  *)
(* days, so that the four blocks are reused and days of month recur.       *)
EXTENDS FreezeLog
=============================================================================
