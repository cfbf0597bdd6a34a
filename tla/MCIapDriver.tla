---------------------------- MODULE MCIapDriver -----------------------------
(* IapDriver for TLC: the geometry is given by the configuration.          *)
EXTENDS IapDriver
=============================================================================
