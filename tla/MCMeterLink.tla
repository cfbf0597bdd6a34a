---------------------------- MODULE MCMeterLink ----------------------------
(* MeterLink for TLC: two codes to read and two to write.                  *)
EXTENDS MeterLink

MCReadings == <<"r1", "r2">>
MCWrites == <<"w1", "w2">>
=============================================================================
