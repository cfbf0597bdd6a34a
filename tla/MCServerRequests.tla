-------------------------- MODULE MCServerRequests --------------------------
(* ServerRequests for TLC: a clock of few values, bytes of six bits. *)
EXTENDS ServerRequests

MCIdentity == <<1, 2, 40, 22>>
MCGreatest == <<3, 2, 1, 2, 1, 1>>
MCPayloads == {<<>>, <<22>>, <<40, 22>>, <<1, 2, 3>>}
=============================================================================
