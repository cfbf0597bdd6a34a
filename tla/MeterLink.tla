----------------------------- MODULE MeterLink -----------------------------
(***************************************************************************)
(* The optical-port protocol with the meter (read_para.c, the receiver     *)
(* myUart0_ISR in LPC213x_isr.c, save_flash.c 106-131) and the watchdog.   *)
(* A session is a dialogue of requests: three to sign in, then one per     *)
(* code.  Each request resets the receiver and polls check_frame up to a   *)
(* time-out; an answer may be late, lost or damaged, and what the receiver *)
(* has begun survives the reset.                                           *)
(*                                                                         *)
(* The line carries the framing characters one by one and the text of an   *)
(* answer, "code(value)", as one word.  The 1000 bytes of the buffer and   *)
(* the break command, which has no answer, are left out.                   *)
(***************************************************************************)
EXTENDS Integers, Sequences, FiniteSets

CONSTANTS
    Readings,    \* codes of a freeze and of a direct reading, in order
    Writes,      \* codes the server writes, in order
    Tasks,       \* kinds of session besides the two of the start-up
    Sessions,    \* how many sessions are run
    Delays,      \* how many requests time out
    Damages,     \* how many times the line is disturbed
    Pending,     \* requests the meter can hold
    DogSeconds   \* seconds until the watchdog resets (310 in the code)

(* What read_para() and set_time_from_rtc() ask for.                       *)
Para == <<"C100", "C105", "C106", "C107", "C108">>
Clock == <<"C100", "C001">>

Elements(s) == {s[i] : i \in 1 .. Len(s)}

Fields == Elements(Para) \cup Elements(Clock)

(* Mutant: sign_in() sends no password.                                    *)
Handshake_NoPassword == <<"ident", "option">>

Handshake == <<"ident", "option", "password">>

Marks == {"/", "LF", "SOH", "STX", "ETX", "ACK", "BCC"}

ASSUME CodesAssumption ==
    /\ Readings \in Seq(STRING) /\ Writes \in Seq(STRING)
    /\ Readings # <<>> /\ Writes # <<>>
    /\ LET taken == Fields \cup Elements(Handshake) \cup Marks
                    \cup {"NUL", "P0", "bad", "open", "none", "junk"}
       IN  /\ Elements(Readings) \cap taken = {}
           /\ Elements(Writes) \cap (taken \cup Elements(Readings)) = {}

ASSUME LimitsAssumption ==
    /\ Tasks \subseteq {"para", "freeze", "direct", "write"}
    /\ Sessions \in Nat /\ Delays \in Nat /\ Damages \in Nat
    /\ Pending \in Nat \ {0} /\ DogSeconds \in Nat \ {0}

VARIABLES
    task,      \* the present or last session
    at,        \* the request whose answer is awaited, 0 between two sessions
    boot,      \* sessions since the last reset, up to 2
    rx,        \* check_frame, start_frame, start_OK, index, buffer_PLC
    data_PLC,  \* the scratch string of read_para()
    para,      \* configuration and clock, under the codes they are read with
    reply,     \* buf_send_server: what a freeze, reading or writing collects
    wdt,       \* seconds since the watchdog was fed
    todo,      \* requests the meter has not answered
    wire,      \* what remains of the answer that is being received
    count,     \* sessions begun, time-outs and disturbances so far
    signed,    \* history: the last sign_in() succeeded
    mistaken,  \* history: a check character passed for an acknowledgement
    clean,     \* history: the session found an idle line and every answer came
    prompt,    \* history: like clean, but answers may be lost or damaged
    old        \* history: answers of earlier sessions still to come

loop == <<task, at, boot, data_PLC, para, reply, wdt, signed>>
vars == <<task, at, boot, rx, data_PLC, para, reply, wdt, todo, wire, count,
          signed, mistaken, clean, prompt, old>>

-----------------------------------------------------------------------------
Script(t) ==
    CASE t = "para"                -> Para
      [] t = "clock"               -> Clock
      [] t \in {"freeze", "direct"} -> Readings
      [] t = "write"               -> Writes

Dialogue(t) == Handshake \o Script(t)

(* The receiver waits for one of four kinds of answer: the arguments of    *)
(* clear_para().                                                           *)
AnswerKind(request) ==
    CASE request = "ident"    -> "ident"
      [] request = "option"   -> "option"
      [] request \in {"password"} \cup Elements(Writes) -> "ack"
      [] OTHER                -> "data"

StartFrame(kind) ==
    CASE kind = "ident" -> "/" [] kind = "option" -> "SOH"
      [] kind = "ack" -> "ACK" [] kind = "data" -> "STX"

StopFrame(kind) ==
    CASE kind = "ident" -> "LF" [] kind \in {"option", "data"} -> "ETX"
      [] kind = "ack" -> "NUL"

(* Mutant: the receiver's last result is not cleared.                      *)
ClearPara_KeepsCheckFrame(kind) ==
    [rx EXCEPT !.kind = kind, !.head = FALSE, !.text = "none"]

(* Mutant: the buffer is not cleared.                                      *)
ClearPara_KeepsBuffer(kind) ==
    [rx EXCEPT !.kind = kind, !.done = FALSE]

(* clear_para(): start_OK and index belong to the interrupt and stay.      *)
ClearPara(kind) ==
    [rx EXCEPT !.kind = kind, !.head = FALSE, !.text = "none", !.done = FALSE]

Init ==
    /\ task = "para" /\ at = 0 /\ boot = 0
    /\ rx = [kind |-> "ident", started |-> FALSE, beyond |-> FALSE,
             head |-> FALSE, text |-> "none", done |-> FALSE]
    /\ data_PLC = "none"
    /\ para = [c \in Fields |-> "none"]
    /\ reply = <<>>
    /\ wdt = 0
    /\ todo = <<>> /\ wire = <<>>
    /\ count = [sessions |-> 0, delays |-> 0, damages |-> 0]
    /\ signed = FALSE /\ mistaken = FALSE /\ clean = FALSE /\ prompt = FALSE
    /\ old = 0

-----------------------------------------------------------------------------
(* The main loop                                                           *)

(* Reset the receiver and send the i-th request of session t; the meter    *)
(* loses a request it has no room for.                                     *)
Request(t, i) ==
    /\ at' = i
    /\ rx' = ClearPara(AnswerKind(Dialogue(t)[i]))
    /\ todo' = IF Len(todo) < Pending THEN Append(todo, Dialogue(t)[i]) ELSE todo

(* The next request, or the break command and the end.                     *)
Advance ==
    IF at < Len(Dialogue(task))
    THEN Request(task, at + 1)
    ELSE at' = 0 /\ UNCHANGED <<rx, todo>>

Leave == at' = 0 /\ UNCHANGED <<rx, todo>>

(* Nothing of an earlier answer is left but perhaps its check character.   *)
LineIdle == todo = <<>> /\ wire \in {<<>>, <<"BCC">>}

(* main() reads the parameters and the clock once, then serves its loop;   *)
(* every pass of it feeds the watchdog.                                    *)
Begin(t) ==
    /\ at = 0
    /\ count.sessions < Sessions
    /\ t \in (CASE boot = 0 -> {"para"} [] boot = 1 -> {"clock"} [] OTHER -> Tasks)
    /\ boot' = IF boot < 2 THEN boot + 1 ELSE boot
    /\ task' = t
    /\ wdt' = 0
    /\ reply' = <<>>
    /\ Request(t, 1)
    /\ count' = [count EXCEPT !.sessions = @ + 1]
    /\ signed' = FALSE /\ mistaken' = FALSE
    /\ clean' = LineIdle
    /\ prompt' = LineIdle
    /\ old' = Len(todo) + (IF wire = <<>> THEN 0 ELSE 1)
    /\ UNCHANGED <<data_PLC, para, wire>>

(* check_buffer(): the text between the last parenthesis opened before the *)
(* first one closed; a buffer that begins with 0 is empty.                 *)
Parsed == rx.head /\ rx.text # "none"

(* What the caller does with the answer to the code c: got is FALSE when   *)
(* return_data() reports an error.                                         *)
Store(c, got) ==
    CASE task = "para" ->
           /\ IF c = "C100"
              THEN /\ para' = IF got THEN [para EXCEPT ![c] = rx.text] ELSE para
                   /\ UNCHANGED data_PLC
              ELSE /\ data_PLC' = IF got THEN rx.text ELSE data_PLC
                   /\ para' = [para EXCEPT ![c] = data_PLC']
           /\ UNCHANGED reply
      [] task = "clock" ->
           /\ para' = IF got THEN [para EXCEPT ![c] = rx.text]
                      ELSE IF c = "C001" THEN [para EXCEPT ![c] = "junk"] ELSE para
           /\ UNCHANGED <<data_PLC, reply>>
      [] task \in {"freeze", "direct"} ->
           /\ reply' = IF got THEN Append(reply, [code |-> c, value |-> rx.text])
                       ELSE reply
           /\ UNCHANGED <<data_PLC, para>>
      [] task = "write" ->
           /\ reply' = IF got THEN Append(reply, [code |-> c, value |-> c]) ELSE reply
           /\ UNCHANGED <<data_PLC, para>>

(* A poll finds check_frame.                                               *)
Seen ==
    /\ at > 0 /\ rx.done /\ wdt < DogSeconds
    /\ IF at <= Len(Handshake)
       THEN UNCHANGED <<data_PLC, para, reply>>
       ELSE Store(Dialogue(task)[at], task = "write" \/ Parsed)
    /\ Advance
    /\ signed' = (signed \/ at = Len(Handshake))
    /\ UNCHANGED <<task, boot, wdt, wire, count, mistaken, clean, prompt, old>>

(* Mutant: the retry of sign_in() waits with delay_nsecond(), which feeds   *)
(* the watchdog.                                                           *)
Waited_FedByRetry ==
    IF at = 1 THEN 0 ELSE (IF wdt + 1 < DogSeconds THEN wdt + 1 ELSE DogSeconds)

(* The watchdog counts on: three seconds for a code that is written.       *)
Waited ==
    LET elapsed == IF at > Len(Handshake) /\ task = "write" THEN 3 ELSE 1
    IN  IF wdt + elapsed < DogSeconds THEN wdt + elapsed ELSE DogSeconds

(* The polls are over; the answer may have come in the last millisecond.   *)
(* sign_in() repeats its first request for ever; of its callers only those *)
(* that serve the server look at its result.                               *)
TimeOut ==
    /\ at > 0 /\ wdt < DogSeconds
    /\ count.delays < Delays
    /\ count' = [count EXCEPT !.delays = @ + 1]
    /\ \/ /\ at = 1
          /\ Request(task, 1)
          /\ UNCHANGED <<data_PLC, para, reply>>
       \/ /\ at \in 2 .. Len(Handshake)
          /\ IF task \in {"direct", "write"}
             THEN Leave
             ELSE Request(task, Len(Handshake) + 1)
          /\ UNCHANGED <<data_PLC, para, reply>>
       \/ /\ at > Len(Handshake)
          /\ IF task = "clock"
             THEN Leave /\ UNCHANGED <<data_PLC, para, reply>>
             ELSE Advance /\ Store(Dialogue(task)[at], FALSE)
    /\ wdt' = Waited
    /\ clean' = FALSE
    /\ prompt' = (prompt /\ LineIdle)
    /\ UNCHANGED <<task, boot, wire, signed, mistaken, old>>

(* Nothing below sign_in() feeds the watchdog.  The reset clears the       *)
(* program's state; the meter goes on.                                     *)
Reset ==
    /\ at > 0 /\ wdt = DogSeconds
    /\ at' = 0 /\ boot' = 0 /\ wdt' = 0 /\ task' = "para"
    /\ rx' = [kind |-> "ident", started |-> FALSE, beyond |-> FALSE,
              head |-> FALSE, text |-> "none", done |-> FALSE]
    /\ data_PLC' = "none"
    /\ para' = [c \in Fields |-> "none"]
    /\ reply' = <<>>
    /\ signed' = FALSE /\ mistaken' = FALSE /\ clean' = FALSE /\ prompt' = FALSE
    /\ UNCHANGED <<todo, wire, count, old>>

-----------------------------------------------------------------------------
(* The interrupt: a character is received                                  *)

(* start_frame is seen: an acknowledgement is complete, a frame begins.    *)
Opened ==
    IF rx.kind = "ack"
    THEN [rx EXCEPT !.done = TRUE]
    ELSE [rx EXCEPT !.started = TRUE, !.beyond = FALSE]

(* Mutant: check_buffer() does not look for the closing parenthesis.       *)
Stored_Unclosed(c) ==
    [rx EXCEPT !.head = @ \/ ~rx.beyond, !.beyond = TRUE,
               !.text = IF @ = "none" /\ c \notin Marks THEN c ELSE @]

(* A character of the frame: its first text in parentheses is the one      *)
(* check_buffer() will find.                                               *)
Stored(c) ==
    [rx EXCEPT !.head = @ \/ ~rx.beyond, !.beyond = TRUE,
               !.text = IF @ = "none" /\ c \notin Marks \cup {"open"} THEN c ELSE @]

Closed == [rx EXCEPT !.done = TRUE, !.started = FALSE]

(* One after the other: the loop polls every millisecond and a character   *)
(* takes eight, so a result is seen before the next character.  The check  *)
(* character may look like any start_frame.                                *)
Receive ==
    /\ wire # <<>>
    /\ ~(at > 0 /\ rx.done)
    /\ LET c == Head(wire)
       IN  \/ /\ ~rx.started
              /\ c \in {StartFrame(rx.kind), "BCC"}
              /\ rx' = Opened
              /\ mistaken' = (mistaken \/ (c = "BCC" /\ rx.kind = "ack"))
           \/ /\ ~rx.started
              /\ c # StartFrame(rx.kind)
              /\ UNCHANGED <<rx, mistaken>>
           \/ /\ rx.started
              /\ rx' = IF c = StopFrame(rx.kind) THEN Closed ELSE Stored(c)
              /\ UNCHANGED mistaken
    /\ wire' = Tail(wire)
    /\ old' = IF wire' = <<>> /\ old > 0 THEN old - 1 ELSE old
    /\ UNCHANGED <<loop, todo, count, clean, prompt>>

-----------------------------------------------------------------------------
(* The meter and the line                                                  *)

Frame(request) ==
    CASE AnswerKind(request) = "ident"  -> <<"/", "LF">>
      [] AnswerKind(request) = "option" -> <<"SOH", "STX", "P0", "ETX", "BCC">>
      [] AnswerKind(request) = "ack"    -> <<"ACK">>
      [] AnswerKind(request) = "data"   -> <<"STX", request, "ETX", "BCC">>

(* The meter answers in order, however late.                               *)
Answer ==
    /\ todo # <<>> /\ wire = <<>>
    /\ wire' = Frame(Head(todo))
    /\ todo' = Tail(todo)
    /\ UNCHANGED <<loop, mistaken, rx, count, clean, prompt, old>>

(* A request the meter does not answer or does not understand:             *)
(* return_data() and load_data_meter() append a check character that no 0  *)
(* follows, and send what lies behind it too.                              *)
Ignore ==
    /\ todo # <<>>
    /\ todo' = Tail(todo)
    /\ old' = IF old > (IF wire = <<>> THEN 0 ELSE 1) THEN old - 1 ELSE old
    /\ clean' = FALSE
    /\ UNCHANGED <<loop, mistaken, rx, wire, count, prompt>>

(* The line is disturbed: characters fail their parity and are dropped by  *)
(* the interrupt, one alone, in the middle of a text or up to the end.     *)
Disturb ==
    /\ wire # <<>>
    /\ count.damages < Damages
    /\ \/ wire' = Tail(wire)
       \/ wire' = <<>>
       \/ /\ Head(wire) \notin Marks
          /\ \E spoilt \in {"bad", "open"} : wire' = [wire EXCEPT ![1] = spoilt]
    /\ count' = [count EXCEPT !.damages = @ + 1]
    /\ old' = IF wire' = <<>> /\ old > 0 THEN old - 1 ELSE old
    /\ clean' = FALSE
    /\ UNCHANGED <<loop, mistaken, rx, todo, prompt>>

-----------------------------------------------------------------------------
Main == (\E t \in Tasks \cup {"para", "clock"} : Begin(t)) \/ Seen \/ TimeOut

Next == Main \/ Reset \/ Receive \/ Answer \/ Ignore \/ Disturb

Spec == Init /\ [][Next]_vars

(* The processor runs and the watchdog counts; nothing is asked of the     *)
(* meter.                                                                  *)
BoardSpec == Spec /\ WF_vars(Main) /\ WF_vars(Reset)

-----------------------------------------------------------------------------
(* Properties                                                              *)

Values == Fields \cup Elements(Readings) \cup {"P0", "bad"}

Receivers == [kind : {"ident", "option", "ack", "data"}, started : BOOLEAN,
              beyond : BOOLEAN, head : BOOLEAN, text : Values \cup {"none"},
              done : BOOLEAN]

TypeOK ==
    /\ task \in Tasks \cup {"para", "clock"}
    /\ at \in 0 .. Len(Dialogue(task))
    /\ boot \in 0 .. 2
    /\ rx \in Receivers
    /\ data_PLC \in Values \cup {"none"}
    /\ para \in [Fields -> Values \cup {"none", "junk"}]
    /\ reply \in Seq([code : Elements(Readings) \cup Elements(Writes),
                      value : Values \cup Elements(Writes)])
    /\ wdt \in 0 .. DogSeconds
    /\ todo \in Seq(Elements(Handshake) \cup Fields
                    \cup Elements(Readings) \cup Elements(Writes))
    /\ Len(todo) <= Pending
    /\ wire \in Seq(Marks \cup Values \cup {"open"})
    /\ count \in [sessions : 0 .. Sessions, delays : 0 .. Delays, damages : 0 .. Damages]
    /\ {signed, mistaken, clean, prompt} \subseteq BOOLEAN
    /\ old \in 0 .. Pending + 1

(* A session in which every answer came in time and undamaged stores every *)
(* value under its own name, whatever the sessions before have left in the *)
(* receiver, in buffer_PLC or in data_PLC.                                 *)
OwnValues ==
    at = 0 /\ clean /\ boot > 0 =>
        CASE task \in {"para", "clock"} ->
               \A c \in Elements(Script(task)) : para[c] = c
          [] OTHER ->
               reply = [i \in 1 .. Len(Script(task)) |->
                          [code |-> Script(task)[i], value |-> Script(task)[i]]]

(* Answers that are lost or cut off anywhere may leave gaps, but no value  *)
(* is taken in the turn of another code, neither for a reply, which names  *)
(* the codes, nor for a freeze, which only lists the values.               *)
LossesNeverMislabel ==
    prompt => \A i \in 1 .. Len(reply) : reply[i].value \in {reply[i].code, "bad"}

(* The handshake resynchronises: it uses up three answers, so that once it *)
(* has succeeded no answer to an earlier session can arrive, however late, *)
(* if the meter holds two requests, and Pending - 2 of them if it holds    *)
(* more.                                                                   *)
FreshSession ==
    at > Len(Handshake) /\ signed /\ ~mistaken => old = 0 \/ old <= Pending - 2

(* Within a session without such answers the late ones may be shifted, but *)
(* each is used at most once and in order: what is taken are answers to    *)
(* some of the requests, one turn after another.  What is left of this     *)
(* session's own handshake may be taken for a value.                       *)
UsedInOrder ==
    signed /\ ~mistaken /\ task \in {"freeze", "direct"} /\ Pending <= 2 =>
        LET used == {i \in 1 .. Len(reply) : reply[i].value \notin {"bad", "P0"}}
        IN  \E turn \in [1 .. Len(reply) -> 1 .. Len(Readings)] :
                /\ \A i \in used : reply[i].value = Readings[turn[i]]
                /\ \A i, j \in used : i < j => turn[i] < turn[j]

(* What read_para() says it reads with C108: "read IP2" (read_para.c:139), *)
(* and never what it has read with C107, the access point name.            *)
IP2IsNotAPN == para["C108"] \in {"none", "bad", "C108"}

(* Whatever the meter does, a session ends or the watchdog ends it.        *)
SessionEnds == at > 0 ~> at = 0

(* The turns a session has before it at most: one for each request it has  *)
(* still to send and one for each second the watchdog still allows.        *)
TurnsLeft == (Len(Dialogue(task)) - at) + (DogSeconds - wdt)

(* Every turn of a session uses one of these up, and nothing that arrives  *)
(* meanwhile gives one back: there is no way round sign_in(), read_para()  *)
(* or the commands of the server that neither goes on to another request   *)
(* nor brings the watchdog nearer, whatever is answered late, ignored or   *)
(* damaged and in whatever order.                                          *)
EveryTurnCounts ==
    [][at > 0 /\ at' > 0 => /\ TurnsLeft' \in 0 .. TurnsLeft
                           /\ (Main => TurnsLeft' # TurnsLeft)]_vars
=============================================================================
