---------------------------- MODULE ModemChannel ----------------------------
(***************************************************************************)
(* The command channel to the GSM modem (gprs_com.c 12-98, the receiving   *)
(* state machine of myUart1_ISR in LPC213x_isr.c 144-247).  The main loop  *)
(* prepares the receiver, sends one command and polls the flags the        *)
(* interrupt sets, up to a time-out.  The answer of a command that timed   *)
(* out still arrives, unsolicited lines arrive at any moment, and a        *)
(* receiver state may outlive its command.                                 *)
(*                                                                         *)
(* The line carries words framed by line feeds; letters are not told       *)
(* apart.  The readings of a data frame, the 70 and the MAX_BUFFER_RX      *)
(* bytes of the buffers and the state UART_CHECK_PARA, which no caller     *)
(* uses, are left out.                                                     *)
(***************************************************************************)
EXTENDS Integers, Sequences, FiniteSets

CONSTANTS
    Commands,   \* how many commands are issued
    Notes,      \* how many unsolicited lines the modem sends
    Losses      \* how many words the receiver drops for a line error

ASSUME BoundsAssumption ==
    Commands \in Nat /\ Notes \in Nat /\ Losses \in Nat

(* The commands, by what their caller waits for: the modem's start-up      *)
(* message (ON_OFF_mudule_GPRS), the OK of a configuration command, the    *)
(* answer to AT%IPOPEN, to AT%IPSEND and to AT%IPDR.                       *)
Kinds == {"start", "config", "open", "send", "fetch"}

(* The kinds whose caller polls with wait_response_command_gprs().         *)
Awaited == {"config", "open", "send"}

States == {"IDLE", "WAIT", "DATA", "SEND", "START"}

Flags == {"RECEIVING", "OK", "ERROR", "CONNECT", "WAIT_SENDING", "SEND_OK",
          "SEND_ERROR", "DATA_RECEIVING", "DATA_FINISH"}

Words == {"LF", "OK", "ERROR", "CONNECT", "DATA", "READY", "NOTE"}

(* The words by which the modem says that it has done what it was asked.   *)
Affirmative == {"OK", "CONNECT", "DATA", "READY"}

VARIABLES
    pc,       \* "idle", "prepared" (flags cleared), "waiting" (command sent)
    cmd,      \* the present or last command: number, kind, reported success
    uart,     \* uart1_rx: state_uart, flag, buf_response_command, buf_rx_server
    todo,     \* commands the modem has received and not answered
    wire,     \* words on their way to the receiver
    noise,    \* unsolicited lines and losses so far
    granted,  \* history: the modem accepted the present or last command
    owing,    \* history: when it was issued an earlier acceptance could come
    quiet     \* history: nothing but its own answer came since it was issued

line == <<todo, wire, noise>>
vars == <<pc, cmd, uart, todo, wire, noise, granted, owing, quiet>>

Init ==
    /\ pc = "idle"
    /\ cmd = [number |-> 0, kind |-> "config", ok |-> FALSE]
    /\ uart = [state |-> "IDLE", flag |-> {}, line |-> {}, data |-> {}]
    /\ todo = <<>>
    /\ wire = <<>>
    /\ noise = [notes |-> 0, losses |-> 0]
    /\ granted = FALSE
    /\ owing = FALSE
    /\ quiet = TRUE

-----------------------------------------------------------------------------
(* The main loop                                                           *)

(* Which command may follow the last one: the order of main(), of          *)
(* prepare_config_mudule() and of the service loop.                        *)
Following(kind, ok) ==
    CASE kind = "start"  -> IF ok THEN {"config"} ELSE {"start", "config"}
      [] kind = "config" -> {"config", "open"}
      [] kind = "open"   -> IF ok THEN {"config", "send", "fetch"}
                                  ELSE {"config", "open", "start"}
      [] kind = "send"   -> IF ok THEN {"config", "send", "fetch"}
                                  ELSE {"config", "send", "start"}
      [] kind = "fetch"  -> {"fetch", "send"}

Following0 == IF cmd.number = 0 THEN {"start"} ELSE Following(cmd.kind, cmd.ok)

(* An acceptance of an earlier command may still come.                     *)
Owed ==
    \/ todo # <<>>
    \/ \E i \in 1 .. Len(wire) : wire[i] \in Affirmative

(* Mutant: the flags of the last command survive.                          *)
Prepare_KeepsFlags(kind) ==
    /\ pc = "idle"
    /\ cmd.number < Commands
    /\ kind \in Following0
    /\ pc' = "prepared"
    /\ cmd' = [number |-> cmd.number + 1, kind |-> kind, ok |-> FALSE]
    /\ granted' = FALSE
    /\ owing' = (kind # "start" /\ Owed)
    /\ quiet' = (kind = "start" \/ (todo = <<>> /\ wire = <<>>))
    /\ UNCHANGED <<uart, todo, wire, noise>>

(* Mutant: only the flags that give a verdict are cleared.                 *)
Prepare_KeepsReceiving(kind) ==
    /\ pc = "idle"
    /\ cmd.number < Commands
    /\ kind \in Following0
    /\ pc' = "prepared"
    /\ cmd' = [number |-> cmd.number + 1, kind |-> kind, ok |-> FALSE]
    /\ uart' = [uart EXCEPT !.flag = @ \cap {"RECEIVING", "DATA_RECEIVING"}]
    /\ granted' = FALSE
    /\ owing' = (kind # "start" /\ Owed)
    /\ quiet' = (kind = "start" \/ (todo = <<>> /\ wire = <<>>))
    /\ UNCHANGED line

(* prepare_command_gprs() up to data_bits = 0; ON_OFF_mudule_GPRS() leaves *)
(* the flags alone.                                                        *)
Prepare(kind) ==
    /\ pc = "idle"
    /\ cmd.number < Commands
    /\ kind \in Following0
    /\ pc' = "prepared"
    /\ cmd' = [number |-> cmd.number + 1, kind |-> kind, ok |-> FALSE]
    /\ uart' = IF kind = "start" THEN uart ELSE [uart EXCEPT !.flag = {}]
    /\ granted' = FALSE
    /\ owing' = (kind # "start" /\ Owed)
    /\ quiet' = (kind = "start" \/ (todo = <<>> /\ wire = <<>>))
    /\ UNCHANGED line

(* Mutant: a configuration command is awaited in UART_CHECK_PARA.          *)
StateFor_CheckPara(kind) ==
    CASE kind = "send"  -> "SEND"
      [] kind = "fetch" -> "DATA"
      [] kind = "start" -> "START"
      [] OTHER          -> "CHECK_PARA"

StateFor(kind) ==
    CASE kind = "send"  -> "SEND"
      [] kind = "fetch" -> "DATA"
      [] kind = "start" -> "START"
      [] OTHER          -> "WAIT"

(* The buffer is cleared, state_uart is set and the command is printed.    *)
(* The pulse on the modem's power key cuts off what it was saying.         *)
Send ==
    /\ pc = "prepared"
    /\ pc' = "waiting"
    /\ uart' = [uart EXCEPT
           !.state = StateFor(cmd.kind),
           !.line = IF cmd.kind \in {"start", "config", "open"} THEN {} ELSE @,
           !.data = IF cmd.kind = "fetch" THEN {} ELSE @]
    /\ IF cmd.kind = "start"
       THEN todo' = <<"start">> /\ wire' = <<>>
       ELSE todo' = Append(todo, cmd.kind) /\ UNCHANGED wire
    /\ UNCHANGED <<cmd, noise, granted, owing, quiet>>

(* wait_response_command_gprs(): the flags in the order they are tested.   *)
Response ==
    CASE "OK" \in uart.flag      -> "OK"
      [] "OK" \notin uart.flag /\ "ERROR" \in uart.flag -> "ERROR"
      [] uart.flag \cap {"OK", "ERROR"} = {} /\ "CONNECT" \in uart.flag -> "CONNECT"
      [] uart.flag \cap {"OK", "ERROR", "CONNECT"} = {} /\ "SEND_OK" \in uart.flag
                                 -> "SEND_OK"
      [] OTHER                   -> "NO_RESPONSE"

(* What the caller of each kind takes for success.                         *)
Satisfied ==
    \/ cmd.kind = "config" /\ Response = "OK"
    \/ cmd.kind = "open" /\ Response \in {"OK", "CONNECT"}
    \/ cmd.kind = "send" /\ Response = "SEND_OK"
    \/ /\ cmd.kind = "fetch"
       /\ "DATA_FINISH" \in uart.flag
       /\ "DATA" \in uart.data
       /\ "ERROR" \notin uart.data
    \/ cmd.kind = "start" /\ "READY" \in uart.line

(* Only a send ends by putting the receiver back to rest: what another     *)
(* command that timed out has left in state_uart stays there until the     *)
(* next one, or until Rest.                                                *)
Finish(ok) ==
    /\ pc' = "idle"
    /\ cmd' = [cmd EXCEPT !.ok = ok]
    /\ uart' = IF cmd.kind = "send"
               THEN [uart EXCEPT !.state = "IDLE", !.flag = {}]
               ELSE uart
    /\ UNCHANGED <<todo, wire, noise, granted, owing, quiet>>

(* A poll finds a flag; the callers of start and fetch look at the buffer  *)
(* when their time is over.                                                *)
Return ==
    /\ pc = "waiting"
    /\ cmd.kind \in Awaited => Response # "NO_RESPONSE"
    /\ Finish(Satisfied)

(* The polls are over; a flag raised after the last of them is not seen.   *)
TimeOut ==
    /\ pc = "waiting"
    /\ cmd.kind \in Awaited
    /\ Finish(FALSE)

(* get_command_from_server() with nothing to fetch, or with a frame served. *)
Rest ==
    /\ pc = "idle"
    /\ "fetch" \in Following0
    /\ uart.state # "IDLE"
    /\ uart' = [uart EXCEPT !.state = "IDLE"]
    /\ UNCHANGED <<pc, cmd, line, granted, owing, quiet>>

-----------------------------------------------------------------------------
(* The interrupt: one word is received                                     *)

Raise(flags) == [uart EXCEPT !.flag = @ \cup flags]

RxWait(w) ==
    /\ uart.state = "WAIT"
    /\ \/ /\ w = "LF"
          /\ "RECEIVING" \notin uart.flag
          /\ uart' = [Raise({"RECEIVING"}) EXCEPT !.line = {}]
       \/ /\ w # "LF"
          /\ uart' = IF "RECEIVING" \in uart.flag
                     THEN [uart EXCEPT !.line = @ \cup {w}]
                     ELSE uart
       \/ /\ w = "LF"
          /\ "RECEIVING" \in uart.flag
          /\ LET answer == CASE "OK" \in uart.line -> {"OK"}
                             [] "OK" \notin uart.line /\ "ERROR" \in uart.line -> {"ERROR"}
                             [] OTHER -> uart.flag \cap {"OK", "ERROR"}
             IN  uart' = [uart EXCEPT
                    !.state = "IDLE",
                    !.flag = (@ \ {"OK", "ERROR"}) \cup answer
                             \cup (uart.line \cap {"CONNECT"})]

RxData(w) ==
    /\ uart.state = "DATA"
    /\ \/ /\ w = "LF"
          /\ "DATA_RECEIVING" \notin uart.flag
          /\ uart' = [Raise({"DATA_RECEIVING"}) EXCEPT !.data = {}]
       \/ /\ w # "LF"
          /\ uart' = IF "DATA_RECEIVING" \in uart.flag
                     THEN [uart EXCEPT !.data = @ \cup {w}]
                     ELSE uart
       \/ /\ w = "LF"
          /\ "DATA_RECEIVING" \in uart.flag
          /\ uart' = [Raise({"DATA_FINISH"}) EXCEPT !.state = "IDLE"]

(* Mutant: the letter O is enough.                                         *)
RxSend_AtTheO(w) ==
    /\ uart.state = "SEND"
    /\ uart' = IF w \in {"OK", "ERROR", "CONNECT"}
               THEN [Raise({"SEND_OK"}) EXCEPT !.state = "IDLE"]
               ELSE uart

(* Single letters decide here: the O of OK and of CONNECT arms, a K after  *)
(* it means sent, an R after it refused; ERROR holds R, O, R in this       *)
(* order.  Of the other words only this is known: that they hold no K.     *)
Unspelled == {"DATA", "READY", "NOTE"}

RxSend(w) ==
    /\ uart.state = "SEND"
    /\ \/ /\ w = "OK"
          /\ uart' = [Raise({"WAIT_SENDING", "SEND_OK"}) EXCEPT !.state = "IDLE"]
       \/ /\ w \in {"ERROR"} \cup Unspelled
          /\ uart' = [Raise({"WAIT_SENDING", "SEND_ERROR"}) EXCEPT !.state = "IDLE"]
       \/ /\ w \in {"CONNECT"} \cup Unspelled
          /\ uart' = Raise({"WAIT_SENDING"})
       \/ /\ w \in {"LF"} \cup Unspelled
          /\ UNCHANGED uart

RxStart(w) ==
    /\ uart.state = "START"
    /\ uart' = [uart EXCEPT !.line = @ \cup {w}]

RxIdle(w) == uart.state = "IDLE" /\ UNCHANGED uart

Receive ==
    /\ wire # <<>>
    /\ LET w == Head(wire)
       IN  RxWait(w) \/ RxData(w) \/ RxSend(w) \/ RxStart(w) \/ RxIdle(w)
    /\ wire' = Tail(wire)
    /\ UNCHANGED <<pc, cmd, todo, noise, granted, owing, quiet>>

(* Overrun, parity or framing error: the interrupt drops the word.         *)
Lose ==
    /\ wire # <<>>
    /\ noise.losses < Losses
    /\ wire' = Tail(wire)
    /\ noise' = [noise EXCEPT !.losses = @ + 1]
    /\ quiet' = FALSE
    /\ UNCHANGED <<pc, cmd, uart, todo, granted, owing>>

-----------------------------------------------------------------------------
(* The modem                                                               *)

Answers(kind) ==
    CASE kind = "start"  -> {"READY"}
      [] kind = "config" -> {"OK", "ERROR"}
      [] kind = "open"   -> {"OK", "CONNECT", "ERROR"}
      [] kind = "send"   -> {"OK", "ERROR"}
      [] kind = "fetch"  -> {"DATA", "ERROR"}

(* The modem answers the commands in the order it received them; the       *)
(* present one is the last.                                                *)
Answer ==
    /\ todo # <<>>
    /\ \E w \in Answers(Head(todo)) :
          /\ wire' = wire \o <<"LF", w, "LF">>
          /\ granted' = IF Len(todo) = 1 /\ pc # "prepared"
                        THEN w \in Affirmative
                        ELSE granted
    /\ todo' = Tail(todo)
    /\ UNCHANGED <<pc, cmd, uart, noise, owing, quiet>>

(* A command the modem never answers.                                      *)
Ignore ==
    /\ todo # <<>>
    /\ todo' = Tail(todo)
    /\ UNCHANGED <<pc, cmd, uart, wire, noise, granted, owing, quiet>>

(* The modem announces something by itself.                                *)
Note ==
    /\ noise.notes < Notes
    /\ noise' = [noise EXCEPT !.notes = @ + 1]
    /\ wire' = wire \o <<"LF", "NOTE", "LF">>
    /\ quiet' = FALSE
    /\ UNCHANGED <<pc, cmd, uart, todo, granted, owing>>

-----------------------------------------------------------------------------
Next ==
    \/ \E kind \in Kinds : Prepare(kind)
    \/ Send \/ Return \/ TimeOut \/ Rest
    \/ Receive \/ Lose
    \/ Answer \/ Ignore \/ Note

Spec == Init /\ [][Next]_vars

-----------------------------------------------------------------------------
(* Properties                                                              *)

Issued == [number : Nat, kind : Kinds, ok : BOOLEAN]

Receivers == [state : States, flag : SUBSET Flags,
              line : SUBSET Words, data : SUBSET Words]

(* Types: wait and send flags, buffers and the line hold what they may.    *)
TypeOK ==
    /\ pc \in {"idle", "prepared", "waiting"}
    /\ cmd \in Issued
    /\ uart \in Receivers
    /\ todo \in Seq(Kinds)
    /\ wire \in Seq(Words)
    /\ noise \in [notes : 0 .. Notes, losses : 0 .. Losses]
    /\ granted \in BOOLEAN
    /\ owing \in BOOLEAN
    /\ quiet \in BOOLEAN

(* A command that wait_response_command_gprs() and its caller take for     *)
(* successful was accepted by the modem, unless an answer to an earlier    *)
(* command was still to come when it was issued: no flag, buffer or        *)
(* receiver state left behind by earlier commands, by unsolicited lines or *)
(* by lost characters makes a success by itself.                           *)
SoundVerdict ==
    pc = "idle" /\ cmd.ok /\ ~owing => granted

(* Conversely an acceptance that arrived completely, with nothing else on  *)
(* the line, is seen by the next poll, whatever state the commands before  *)
(* left the receiver in.                                                   *)
PromptAnswerSeen ==
    pc = "waiting" /\ quiet /\ granted /\ wire = <<>> => Satisfied

(* What send_command_to_server() says where it clears the alarm: "send     *)
(* Data to sever ok" (gprs_com.c:274).                                     *)
SendOkMeansSent ==
    pc = "idle" /\ cmd.kind = "send" /\ cmd.ok => granted

(* The acceptances on their way or received and not yet used.              *)
Carried == Cardinality({i \in 1 .. Len(wire) : wire[i] \in Affirmative})

Promised ==
    \/ pc = "waiting" /\ Satisfied
    \/ pc = "prepared" /\ cmd.kind \in {"config", "open"} /\ Satisfied
    \/ /\ pc # "idle"
       /\ cmd.kind # "start"
       /\ \/ /\ uart.state = "WAIT"
             /\ "RECEIVING" \in uart.flag
             /\ uart.line \cap Affirmative # {}
          \/ /\ uart.state = "DATA"
             /\ "DATA_RECEIVING" \in uart.flag
             /\ "DATA" \in uart.data

Credit == Carried + (IF Promised THEN 1 ELSE 0)

Channel == INSTANCE CommandChannel WITH
    busy   <- pc = "waiting",
    asked  <- Len(todo),
    credit <- Credit

(* Every success uses up an acceptance of its own: one answer of the modem *)
(* is never taken for the success of two commands.                         *)
EverySuccessEarned == Channel!Spec
=============================================================================
