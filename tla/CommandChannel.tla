--------------------------- MODULE CommandChannel ---------------------------
(***************************************************************************)
(* What the rest of the firmware may rely on when it talks to the modem:   *)
(* commands are issued one at a time, and every command that is reported   *)
(* successful uses up one acceptance the modem has really given.  Whose    *)
(* acceptance it is, is not promised: an answer that comes late may serve  *)
(* the next command, and then the answer to that one is left over.         *)
(***************************************************************************)
EXTENDS Naturals

VARIABLES
    busy,    \* a command has been sent and has no verdict yet
    asked,   \* commands the modem has still to answer
    credit   \* acceptances given by the modem that no verdict has used

vars == <<busy, asked, credit>>

Init == busy = FALSE /\ asked = 0 /\ credit = 0

(* A command leaves; acceptances that were half received may be dropped.   *)
Issue ==
    /\ ~busy
    /\ busy' = TRUE
    /\ asked' = asked + 1
    /\ credit' \in 0 .. credit

(* The modem is switched off and on: whatever it owed is gone.             *)
Restart ==
    /\ ~busy
    /\ busy' = TRUE
    /\ asked' = 1
    /\ credit' = 0

Accept ==
    /\ asked > 0
    /\ asked' = asked - 1
    /\ credit' = credit + 1
    /\ UNCHANGED busy

(* Refusals, commands the modem ignores, answers spoilt on the line.       *)
Forget ==
    /\ asked' \in 0 .. asked
    /\ credit' \in 0 .. credit
    /\ UNCHANGED busy

Succeed ==
    /\ busy
    /\ credit > 0
    /\ busy' = FALSE
    /\ credit' \in 0 .. (credit - 1)
    /\ UNCHANGED asked

Fail ==
    /\ busy
    /\ busy' = FALSE
    /\ credit' \in 0 .. credit
    /\ UNCHANGED asked

Next == Issue \/ Restart \/ Accept \/ Forget \/ Succeed \/ Fail

Spec == Init /\ [][Next]_vars
=============================================================================
