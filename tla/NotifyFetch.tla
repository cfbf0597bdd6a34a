---------------------------- MODULE NotifyFetch ----------------------------
(***************************************************************************)
(* How frames of the server are fetched from the modem: the modem          *)
(* announces each with a line that starts "%IPDATA", the UART1 interrupt   *)
(* counts the announcements in the eight bits of unread, and               *)
(* get_command_from_server() reads one frame with AT%IPDR per count.       *)
(*                                                                         *)
(* Loads and stores of unread and of the flag word are separate steps, so  *)
(* the interrupt may fall between them.  The modem hands a frame out once. *)
(* What a frame asks for is LinkSupervisor's and ServerFrame's business.   *)
(***************************************************************************)
EXTENDS Integers, Sequences, FiniteSets

CONSTANTS
    Frames,     \* how many frames the server sends
    Width,      \* values of unread (256 in the code)
    Faults      \* late or spoilt answers, lost or false announcements, closes

ASSUME WidthAssumption == Width \in Nat /\ Width >= 2
ASSUME BoundsAssumption == Frames \in Nat /\ Faults \in Nat

VARIABLES
    pc,         \* the main loop
    reg,        \* unread, loaded and not yet stored back
    copy,       \* CHECKING_NEW_COMMAND in a flag word that is being rewritten
    got,        \* what the receiver has collected since AT%IPDR left
    unread,     \* announcements counted and not served
    checking,   \* CHECKING_NEW_COMMAND: a '%' came, its 'A' did not
    notes,      \* announcements on their way
    half,       \* of the first of them the '%' was received
    answers,    \* answers to AT%IPDR on their way
    held,       \* frames in the modem, oldest first
    sent, faults,   \* how many so far
    late,       \* history: announcements counted since the modem had no frame
    lost        \* history: announcements lost, one by one (the causes are below)

main == <<pc, reg, copy, got>>
line == <<notes, half, answers, held>>
tally == <<late, lost>>
vars == <<main, unread, checking, line, sent, faults, tally>>

\* A frame is served or dropped, or it is a SYN_TIME whose digits
\* process_server_syntime_module() rejects.
Kinds == {"plain", "refused"}
Answers == Kinds \cup {"error"}

TypeOK ==
    /\ pc \in {"poll", "load", "store", "issue", "wait", "zero", "again",
               "bump", "serve", "rewrite"}
    /\ reg \in 0..(Width - 1)
    /\ copy \in BOOLEAN
    /\ got \in Answers \cup {"none", "spoilt"}
    /\ unread \in 0..(Width - 1)
    /\ checking \in BOOLEAN
    /\ notes \in Nat
    /\ half \in BOOLEAN
    /\ answers \in Seq(Answers)
    /\ held \in Seq(Kinds)
    /\ sent \in 0..Frames
    /\ faults \in 0..Faults
    /\ late \in Nat /\ lost \in Nat

Init ==
    /\ pc = "poll" /\ reg = 0 /\ copy = FALSE /\ got = "none"
    /\ unread = 0 /\ checking = FALSE
    /\ notes = 0 /\ half = FALSE /\ answers = <<>> /\ held = <<>>
    /\ sent = 0 /\ faults = 0 /\ late = 0 /\ lost = 0

\* Mutant: unread is wide enough never to wrap.
Up_Wide(n) == n + 1

\* The eight bits wrap both ways.
Up(n) == IF n = Width - 1 THEN 0 ELSE n + 1

Down(n) == IF n = 0 THEN Width - 1 ELSE n - 1

Fault == faults < Faults /\ faults' = faults + 1

\* What the interrupt counts while the main loop holds reg is overwritten.
Overtaken == IF unread > reg THEN unread - reg ELSE 0

(***************************************************************************)
(* get_command_from_server()                                               *)
(***************************************************************************)
\* Mutant: the last announcement waits for another one.
Poll_TwoUnread ==
    /\ pc = "poll"
    /\ pc' = IF unread > 1 THEN "load" ELSE "serve"
    /\ UNCHANGED <<reg, copy, got, unread, checking, line, sent, faults, tally>>

Poll ==
    /\ pc = "poll"
    /\ pc' = IF unread > 0 THEN "load" ELSE "serve"
    /\ UNCHANGED <<reg, copy, got, unread, checking, line, sent, faults, tally>>

\* unread--
Load ==
    /\ pc = "load" /\ pc' = "store"
    /\ reg' = unread
    /\ UNCHANGED <<copy, got, unread, checking, line, sent, faults, tally>>

Store ==
    /\ pc = "store" /\ pc' = "issue"
    /\ unread' = Down(reg) /\ reg' = 0
    /\ lost' = lost + Overtaken
    /\ UNCHANGED <<copy, got, checking, line, sent, faults, late>>

\* AT%IPDR: the modem answers with its oldest frame, or with an error.
Issue ==
    /\ pc = "issue" /\ pc' = "wait"
    /\ got' = "none"
    /\ IF held = <<>>
       THEN answers' = Append(answers, "error") /\ late' = 0 /\ UNCHANGED held
       ELSE answers' = Append(answers, Head(held)) /\ held' = Tail(held) /\ UNCHANGED late
    /\ UNCHANGED <<reg, copy, unread, checking, notes, half, sent, faults, lost>>

\* Mutant: an error is asked for again.
After_ErrorAgain(answer) ==
    CASE answer \in {"error", "spoilt", "refused"} -> "again"
      [] answer = "plain"                          -> "serve"

\* The tests of the buffer in their order, and process_data_rx_from_server(),
\* of which only a rejected SYN_TIME touches unread.
After(answer) ==
    CASE answer = "error"                 -> "zero"
      [] answer \in {"spoilt", "refused"} -> "again"
      [] answer = "plain"                 -> "serve"

Take ==
    /\ pc = "wait" /\ got # "none"
    /\ pc' = After(got) /\ got' = "none"
    /\ UNCHANGED <<reg, copy, unread, checking, line, sent, faults, tally>>

\* No complete answer within 1.25 s.
TimeOut ==
    /\ pc = "wait" /\ got = "none" /\ Fault
    /\ pc' = "again"
    /\ UNCHANGED <<reg, copy, got, unread, checking, line, sent, tally>>

\* unread = 0: announcements that came after the error are lost with the rest.
Zero ==
    /\ pc = "zero" /\ pc' = "serve"
    /\ unread' = 0
    /\ lost' = lost + (IF late < unread THEN late ELSE unread) /\ late' = 0
    /\ UNCHANGED <<reg, copy, got, checking, line, sent, faults>>

\* unread++
Again ==
    /\ pc = "again" /\ pc' = "bump"
    /\ reg' = unread
    /\ UNCHANGED <<copy, got, unread, checking, line, sent, faults, tally>>

Bump ==
    /\ pc = "bump" /\ pc' = "serve"
    /\ unread' = Up(reg) /\ reg' = 0
    /\ lost' = lost + Overtaken + (IF reg = Width - 1 THEN reg ELSE 0)
    /\ UNCHANGED <<copy, got, checking, line, sent, faults, late>>

\* The rest of the loop, which may set or clear a bit of the flag word.
Serve ==
    /\ pc = "serve" /\ pc' = "poll"
    /\ UNCHANGED <<reg, copy, got, unread, checking, line, sent, faults, tally>>

Rewrite ==
    /\ pc = "serve" /\ pc' = "rewrite"
    /\ copy' = checking
    /\ UNCHANGED <<reg, got, unread, checking, line, sent, faults, tally>>

Rewritten ==
    /\ pc = "rewrite" /\ pc' = "poll"
    /\ checking' = copy /\ copy' = FALSE
    /\ UNCHANGED <<reg, got, unread, line, sent, faults, tally>>

(***************************************************************************)
(* myUart1_ISR()                                                           *)
(***************************************************************************)
\* The '%' of an announcement.
NoticeBegins ==
    /\ notes > 0 /\ ~half
    /\ half' = TRUE /\ checking' = TRUE
    /\ UNCHANGED <<main, unread, notes, answers, held, sent, faults, tally>>

\* Mutant: announcements are counted while the receiver rests only.
NoticeEnds_NotWaiting ==
    /\ half /\ half' = FALSE /\ notes' = notes - 1
    /\ checking' = FALSE
    /\ unread' = IF checking /\ pc # "wait" THEN Up(unread) ELSE unread
    /\ late' = IF checking THEN late + 1 ELSE late
    /\ lost' = lost + (CASE ~checking -> 1
                         [] checking /\ unread = Width - 1 -> Width
                         [] OTHER -> 0)
    /\ got' = IF pc = "wait" /\ got = "none" THEN "spoilt" ELSE got
    /\ UNCHANGED <<pc, reg, copy, answers, held, sent, faults>>

\* Its 'A' and its end. The line feeds around it end the reception of a frame
\* that is being waited for. The announcement is lost when the main loop has
\* overwritten the flag, and with all that were counted when unread wraps.
NoticeEnds ==
    /\ half /\ half' = FALSE /\ notes' = notes - 1
    /\ checking' = FALSE
    /\ unread' = IF checking THEN Up(unread) ELSE unread
    /\ late' = IF checking THEN late + 1 ELSE late
    /\ lost' = lost + (CASE ~checking -> 1
                         [] checking /\ unread = Width - 1 -> Width
                         [] OTHER -> 0)
    /\ got' = IF pc = "wait" /\ got = "none" THEN "spoilt" ELSE got
    /\ UNCHANGED <<pc, reg, copy, answers, held, sent, faults>>

\* An 'A' of some other text, after a '%' and less than ten characters later by
\* the eight bits of counter_rx, which wrap inside a frame.
FalseNotice ==
    /\ checking /\ ~half /\ Fault
    /\ checking' = FALSE
    /\ unread' = Up(unread)
    /\ lost' = lost + (IF unread = Width - 1 THEN unread ELSE 0)
    /\ UNCHANGED <<main, line, sent, late>>

\* A line error, or interrupts masked by a flash operation: an announcement is
\* not understood.
NoticeLost ==
    /\ notes > 0 /\ Fault
    /\ notes' = notes - 1 /\ half' = FALSE
    /\ lost' = lost + 1
    /\ UNCHANGED <<main, unread, checking, answers, held, sent, late>>

\* An answer arrives, whole or not. Nobody collects it outside of the wait. A
\* '%' in it may leave the flag set.
Deliver ==
    /\ answers # <<>> /\ answers' = Tail(answers)
    /\ got' = IF pc = "wait" /\ got = "none" THEN Head(answers) ELSE got
    /\ checking' \in {checking, TRUE}
    /\ UNCHANGED <<pc, reg, copy, unread, notes, half, held, sent, faults, tally>>

Spoil ==
    /\ answers # <<>> /\ answers' = Tail(answers)
    /\ pc = "wait" /\ got = "none" /\ Fault
    /\ got' = "spoilt"
    /\ UNCHANGED <<pc, reg, copy, unread, checking, notes, half, held, sent, tally>>

(***************************************************************************)
(* The server and the modem                                                *)
(***************************************************************************)
Arrive ==
    /\ sent < Frames /\ sent' = sent + 1
    /\ \E k \in Kinds : held' = Append(held, k)
    /\ notes' = notes + 1
    /\ UNCHANGED <<main, unread, checking, half, answers, faults, tally>>

\* A socket that is set up again: what the modem held is gone.
Close ==
    /\ held # <<>> /\ Fault
    /\ held' = <<>>
    /\ UNCHANGED <<main, unread, checking, notes, half, answers, sent, tally>>

Main == Poll \/ Load \/ Store \/ Issue \/ Take \/ TimeOut \/ Zero \/ Again
        \/ Bump \/ Serve \/ Rewrite \/ Rewritten

Next == \/ Main
        \/ NoticeBegins \/ NoticeEnds \/ FalseNotice \/ NoticeLost
        \/ Deliver \/ Spoil
        \/ Arrive \/ Close

Spec == Init /\ [][Next]_vars

\* The main loop runs, and what is on the line arrives.
Fairness == /\ WF_vars(Main)
            /\ WF_vars(NoticeBegins \/ NoticeEnds)
            /\ WF_vars(Deliver)

FairSpec == Spec /\ Fairness

(***************************************************************************)
(* Properties.                                                             *)
(***************************************************************************)
\* The modem holds no more frames than are announced, counted or coming, and
\* announcements that were lost. These are only: one for each that the line or
\* an overwritten flag took, those counted between a load and a store of unread,
\* those that unread held when it wrapped, and those counted between an error
\* and the reset of unread it leads to. Late and spoilt answers, rejected frames,
\* false announcements, closed sockets and what the reset takes besides cost none.
Covered == notes + unread + (IF pc = "issue" THEN 1 ELSE 0) + lost >= Len(held)

\* All frames in the modem are fetched but as many as announcements were lost.
Drained == Len(held) > lost ~> Len(held) <= lost

\* The main loop does not ask the modem for ever: however many counts are false
\* and whatever was lost, unread returns to 0 (gprs_com.c:300 sees to it).
Quiesces == <>[](unread = 0)

\* What can still make the loop ask: a frame of the server, by itself and by its
\* announcement, and a disturbance.
Causes == 2 * (Frames - sent) + notes + Len(held) + (Faults - faults)

\* The counts, as the step of the main loop in progress will leave them; one that
\* is taken from 0 leaves all ones.
Counted ==
    CASE pc = "load"  -> IF unread = 0 THEN Width ELSE unread
      [] pc = "store" -> IF reg = 0 THEN Width ELSE reg
      [] pc = "bump"  -> reg
      [] OTHER        -> unread

\* An answer that is no error may be rejected and counted once more.
Weight(s) == Len(s) + 2 * Cardinality({i \in 1..Len(s) : s[i] # "error"})

Collected == CASE got = "none" -> 0 [] got = "error" -> 1 [] OTHER -> 3

Unfinished == CASE pc = "issue" -> 2 [] pc \in {"again", "bump"} -> 3 [] OTHER -> 0

Patience == 6 * Causes + 3 * Counted + Weight(answers) + Collected + Unfinished

\* Every AT%IPDR uses up some of this patience, and nothing restores it: neither
\* the counts that an error, a late answer or a rejected frame leads to, nor a
\* counter that wraps or an update that is lost. So there is no order of events
\* in which the loop asks the modem for ever.
AskingEnds == [][Patience' \in 0..Patience /\ (Issue => Patience' # Patience)]_vars
=============================================================================
