--------------------------- MODULE MCModemChannel ---------------------------
(* ModemChannel for TLC: the bounds are given by the configurations.       *)
EXTENDS ModemChannel
=============================================================================
