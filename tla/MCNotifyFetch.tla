--------------------------- MODULE MCNotifyFetch ---------------------------
(* NotifyFetch for TLC: the bounds are given by the configuration.         *)
EXTENDS NotifyFetch
=============================================================================
