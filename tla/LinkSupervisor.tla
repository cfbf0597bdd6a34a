--------------------------- MODULE LinkSupervisor ---------------------------
(***************************************************************************)
(* The connection supervisor of the GPRS module: main()'s loop, the part   *)
(* of gprs_com.c that opens the socket, logs in and sends the heartbeat,   *)
(* and the Timer0 interrupt that drives both through system_flag.          *)
(*                                                                         *)
(* One step is one statement (or one blocking call) of the main loop, or   *)
(* one interrupt, or one move of the modem, the network or the server.     *)
(***************************************************************************)
EXTENDS Integers

CONSTANTS
    SocketTicks,    \* 20 * TIME_SEND_SOCKET, the heartbeat period in ticks
    LoginTicks,     \* 20 * TIME_WAIT_RESPONSE_LOGIN, the login retry period
    Servers,        \* the configured addresses that may answer, of 1 and 2
    Lates           \* how many answers may come too late for their command

\* The code has 3000 and 600 (gprs_com.h:39-40).
ASSUME TicksAssumption == /\ SocketTicks \in Nat
                          /\ LoginTicks \in Nat
                          /\ 2 <= LoginTicks
                          /\ LoginTicks < SocketTicks
ASSUME ServersAssumption == Servers \subseteq {1, 2}
ASSUME LatesAssumption == Lates \in Nat

VARIABLES
    \* --- the processor running main()
    pc,                   \* the next statement of the main loop
    ret,                  \* where the call in progress returns to
    cmd,                  \* the frame being sent: "A1", "A4" or "answer"
    reply,                \* wait_response_command_gprs() == MODULE_SEND_OK
    try,                  \* i of the AT%IPOPEN loop
    temp_var,             \* main(): failed reconnects in a row
    counter_reset_gprs,   \* main(): power cycles of the module in a row
    \* --- shared with the Timer0 interrupt
    system_flag,
    program_counter,
    \* --- the modem, the network and the server
    link,                 \* the modem holds a live socket
    reach,                \* the addresses that answer a connect now
    accept,               \* the server's answer to A1: "none", "asked", "ready"
    late,                 \* answers of timed-out commands that may still come
    \* --- history, read by no statement of the program
    accepted,             \* an accept was processed since the socket was set up
    lost,                 \* a raise of TIMEOUT_WAIT_LOGIN was overwritten
    ticked                \* a tick fell between two adjacent statements

main  == <<pc, ret, cmd, reply, try, temp_var, counter_reset_gprs>>
env   == <<link, reach, accept, late>>
ghost == <<accepted, lost, ticked>>
vars  == <<main, system_flag, program_counter, env, ghost>>

Flags == {"SEND_ERROR", "RESET_CONFIG", "CONNECT_OK", "LOGIN_OK",
          "SEND_SOCKET", "TIMEOUT_WAIT_LOGIN", "IP_CONNECT"}

\* prepare_config_mudule(): from its first command to its return.
Opening  == {"setup", "clear", "opening", "opened", "openfailed"}
\* The five stores of case COMMAND_LOGIN.
Login    == {"login1", "login2", "login3", "login4", "login5"}
Sending  == {"await", "report"}
\* get_command_from_server() and send_data_to_server().
Service  == {"fetch", "gotLogin", "gotSocket", "gotConfig",
             "send", "sendSocket", "socket"}
Recovery == {"check", "clearReset", "para", "decide", "escalate"}

\* Statements that run back to back, microseconds apart, between two ticks
\* that are 50 ms apart.
Adjacent == {"login2", "login3", "login4", "login5", "sendSocket"}

\* Statements that load the flag word, change bits of it and store it back.
Rewrites == {"clear", "opened", "openfailed", "clearReset", "login3", "login4",
             "login5", "report", "escalate", "gotLogin", "gotSocket",
             "gotConfig", "socket"}

TypeOK ==
    /\ pc \in {"loop"} \cup Opening \cup Login \cup Sending \cup Service \cup Recovery
    /\ ret \in {"loop", "decide", "escalate", "send"}
    /\ cmd \in {"A1", "A4", "answer"}
    /\ reply \in BOOLEAN
    /\ try \in 0..1
    /\ temp_var \in 0..2
    /\ counter_reset_gprs \in 0..4
    /\ system_flag \in [Flags -> BOOLEAN]
    /\ program_counter \in [timer_send_socket : 0..(SocketTicks - 1),
                            timer_wait_response_login : 0..(LoginTicks - 1)]
    /\ link \in BOOLEAN
    /\ reach \in SUBSET Servers
    /\ accept \in {"none", "asked", "ready"}
    /\ late \in 0..Lates
    /\ accepted \in BOOLEAN
    /\ lost \in BOOLEAN
    /\ ticked \in BOOLEAN

\* After var_start() and ON_OFF_mudule_GPRS(): read_para() is next.
Init ==
    /\ pc = "para" /\ ret = "loop"
    /\ cmd = "A1" /\ reply = FALSE /\ try = 0
    /\ temp_var = 0 /\ counter_reset_gprs = 0
    /\ system_flag = [f \in Flags |-> f = "TIMEOUT_WAIT_LOGIN"]
    /\ program_counter = [timer_send_socket |-> 0, timer_wait_response_login |-> 0]
    /\ link = FALSE
    /\ reach \in SUBSET Servers
    /\ accept = "none"
    /\ late = Lates
    /\ accepted = FALSE /\ lost = FALSE /\ ticked = FALSE

(***************************************************************************)
(* Helpers.                                                                *)
(***************************************************************************)
Goto(from, to) == pc = from /\ pc' = to

\* A call returns; its locals are gone.
Return == pc' = ret /\ ret' = "loop" /\ cmd' = "A1" /\ reply' = FALSE /\ try' = 0

Set(f)   == system_flag' = [system_flag EXCEPT ![f] = TRUE]
Clear(f) == system_flag' = [system_flag EXCEPT ![f] = FALSE]

\* What almost every statement leaves alone.
SameFlags  == UNCHANGED system_flag
SameTimers == UNCHANGED program_counter
SameCalls  == UNCHANGED <<ret, cmd, reply, try>>
SameCounts == UNCHANGED <<temp_var, counter_reset_gprs>>

\* ip_server: IP1 while IP_CONNECT is 0, IP2 while it is 1.
Address == IF system_flag["IP_CONNECT"] THEN 2 ELSE 1

(***************************************************************************)
(* main()                                                                  *)
(***************************************************************************)
\* The top of while (1): both counters start again.
Loop ==
    /\ Goto("loop", "check")
    /\ temp_var' = 0 /\ counter_reset_gprs' = 0
    /\ SameCalls /\ SameFlags /\ SameTimers /\ UNCHANGED <<env, ghost>>

\* The condition of the recovery loop and the test of RESET_CONFIG in it.
Check ==
    /\ pc = "check"
    /\ \/ /\ system_flag["RESET_CONFIG"]
          /\ pc' = "clearReset"
       \/ /\ ~system_flag["RESET_CONFIG"] /\ system_flag["SEND_ERROR"]
          /\ pc' = "para"
       \/ /\ ~system_flag["RESET_CONFIG"] /\ ~system_flag["SEND_ERROR"]
          /\ pc' = "fetch"
    /\ ret' = IF pc' = "fetch" THEN "loop" ELSE "decide"
    /\ UNCHANGED <<cmd, reply, try>> /\ SameCounts
    /\ SameFlags /\ SameTimers /\ UNCHANGED <<env, ghost>>

ClearReset ==
    /\ Goto("clearReset", "para")
    /\ Clear("RESET_CONFIG")
    /\ SameCalls /\ SameCounts /\ SameTimers /\ UNCHANGED <<env, ghost>>

\* read_para() returns, having read the configuration from the meter.
Para ==
    /\ Goto("para", "setup")
    /\ SameCalls /\ SameCounts /\ SameFlags /\ SameTimers /\ UNCHANGED <<env, ghost>>

\* Mutant: a failed reconnect is not counted.
Decide_NoCount ==
    /\ pc = "decide"
    /\ \/ /\ system_flag["CONNECT_OK"]
          /\ pc' = "login1" /\ ret' = "escalate" /\ cmd' = "A1"
       \/ /\ ~system_flag["CONNECT_OK"]
          /\ pc' = "escalate" /\ UNCHANGED <<ret, cmd>>
    /\ UNCHANGED <<reply, try>> /\ SameCounts
    /\ SameFlags /\ SameTimers /\ UNCHANGED <<env, ghost>>

\* if (CONNECT_OK) log in, else count one more failed reconnect.
Decide ==
    /\ pc = "decide"
    /\ \/ /\ system_flag["CONNECT_OK"]
          /\ pc' = "login1" /\ ret' = "escalate" /\ cmd' = "A1"
          /\ UNCHANGED temp_var
       \/ /\ ~system_flag["CONNECT_OK"]
          /\ pc' = "escalate" /\ UNCHANGED <<ret, cmd>>
          /\ temp_var' = temp_var + 1
    /\ UNCHANGED <<reply, try, counter_reset_gprs>>
    /\ SameFlags /\ SameTimers /\ UNCHANGED <<env, ghost>>

\* Mutant: the counter wraps one power cycle late.
NextReset_Late(n) == IF n + 1 > 5 THEN 0 ELSE n + 1

\* counter_reset_gprs after the increment, the tests of 3 and 4 and the wrap.
NextReset(n) == IF n + 1 >= 5 THEN 0 ELSE n + 1

\* if (SEND_ERROR && temp_var >= 2): power-cycle the module, choose the address.
Escalate ==
    /\ Goto("escalate", "check")
    /\ \/ /\ system_flag["SEND_ERROR"] /\ temp_var >= 2
          /\ temp_var' = 0
          /\ link' = FALSE /\ accept' = "none"
          /\ counter_reset_gprs' = NextReset(counter_reset_gprs)
          /\ system_flag' = [system_flag EXCEPT
                                !["IP_CONNECT"] = (counter_reset_gprs + 1 = 3)]
       \/ /\ ~(system_flag["SEND_ERROR"] /\ temp_var >= 2)
          /\ SameCounts /\ SameFlags /\ UNCHANGED <<link, accept>>
    /\ SameCalls /\ SameTimers /\ UNCHANGED <<reach, late, ghost>>

(***************************************************************************)
(* prepare_config_mudule()                                                 *)
(***************************************************************************)
\* The commands before AT%IPOPEN. AT%IPCLOSE drops the socket when the modem
\* takes the command, and with it, maybe, what was waiting to be read.
Setup ==
    /\ Goto("setup", "clear")
    /\ \/ UNCHANGED <<link, accept>>
       \/ link' = FALSE /\ accept' \in {accept, "none"}
    /\ accepted' = FALSE
    /\ UNCHANGED <<reach, late, lost, ticked>>
    /\ SameCalls /\ SameCounts /\ SameFlags /\ SameTimers

ClearConnect ==
    /\ Goto("clear", "opening")
    /\ Clear("CONNECT_OK")
    /\ SameCalls /\ SameCounts /\ SameTimers /\ UNCHANGED <<env, ghost>>

\* AT%IPOPEN and the wait for its answer: the modem connects ...
OpenOk ==
    /\ Goto("opening", "opened")
    /\ Address \in reach
    /\ link' = TRUE
    /\ UNCHANGED <<reach, accept, late>>
    /\ SameCalls /\ SameCounts /\ SameFlags /\ SameTimers /\ UNCHANGED ghost

\* ... or answers an error, or does not answer within 20 s.
OpenFail ==
    /\ Goto("opening", "openfailed")
    /\ SameCalls /\ SameCounts /\ SameFlags /\ SameTimers /\ UNCHANGED <<env, ghost>>

\* An OK to an earlier command that timed out is taken for the answer; the modem
\* did not connect. (MODULE_RESPONSE_OK is as good as MODULE_CONNECT_OK.)
OpenLate ==
    /\ Goto("opening", "opened")
    /\ late > 0 /\ late' = late - 1
    /\ UNCHANGED <<link, reach, accept, ghost>>
    /\ SameCalls /\ SameCounts /\ SameFlags /\ SameTimers

Opened ==
    /\ pc = "opened" /\ Return
    /\ Set("CONNECT_OK")
    /\ SameCounts /\ SameTimers /\ UNCHANGED <<env, ghost>>

\* Mutant: a failed open raises no alarm.
OpenFailed_Silent ==
    /\ pc = "openfailed"
    /\ \/ try = 0 /\ try' = 1 /\ pc' = "clear" /\ UNCHANGED <<ret, cmd, reply>>
       \/ try = 1 /\ Return
    /\ SameFlags /\ SameCounts /\ SameTimers /\ UNCHANGED <<env, ghost>>

OpenFailed ==
    /\ pc = "openfailed"
    /\ Set("SEND_ERROR")
    /\ \/ try = 0 /\ try' = 1 /\ pc' = "clear" /\ UNCHANGED <<ret, cmd, reply>>
       \/ try = 1 /\ Return
    /\ SameCounts /\ SameTimers /\ UNCHANGED <<env, ghost>>

(***************************************************************************)
(* send_command_to_server(COMMAND_LOGIN): five stores, in this order.      *)
(***************************************************************************)
ClearWait ==
    /\ Goto("login1", "login2")
    /\ program_counter' = [program_counter EXCEPT !.timer_wait_response_login = 0]
    /\ lost' = FALSE /\ ticked' = FALSE
    /\ SameCalls /\ SameCounts /\ SameFlags /\ UNCHANGED <<env, accepted>>

\* Mutant: a login does not restart the heartbeat timer.
ClearSocketTimer_Missing ==
    /\ Goto("login2", "login3")
    /\ SameTimers /\ SameCalls /\ SameCounts /\ SameFlags /\ UNCHANGED <<env, ghost>>

ClearSocketTimer ==
    /\ Goto("login2", "login3")
    /\ program_counter' = [program_counter EXCEPT !.timer_send_socket = 0]
    /\ SameCalls /\ SameCounts /\ SameFlags /\ UNCHANGED <<env, ghost>>

ClearTimeout ==
    /\ Goto("login3", "login4")
    /\ Clear("TIMEOUT_WAIT_LOGIN")
    /\ SameCalls /\ SameCounts /\ SameTimers /\ UNCHANGED <<env, ghost>>

\* Mutant: a new login keeps the old session's LOGIN_OK.
ClearLogin_Missing ==
    /\ Goto("login4", "login5")
    /\ SameFlags /\ SameCalls /\ SameCounts /\ SameTimers /\ UNCHANGED <<env, ghost>>

ClearLogin ==
    /\ Goto("login4", "login5")
    /\ Clear("LOGIN_OK")
    /\ SameCalls /\ SameCounts /\ SameTimers /\ UNCHANGED <<env, ghost>>

ClearSendSocket ==
    /\ Goto("login5", "await")
    /\ Clear("SEND_SOCKET")
    /\ ticked' = FALSE
    /\ SameCalls /\ SameCounts /\ SameTimers /\ UNCHANGED <<env, accepted, lost>>

\* AT%IPSEND and the wait for its answer. The modem takes a frame only while
\* it holds a socket; an error, or no answer in time, counts as a failure.
SendOk ==
    /\ Goto("await", "report")
    /\ link
    /\ reply' = TRUE
    /\ accept' = IF cmd = "A1" /\ accept = "none" THEN "asked" ELSE accept
    /\ UNCHANGED <<ret, cmd, try, link, reach, late>>
    /\ SameCounts /\ SameFlags /\ SameTimers /\ UNCHANGED ghost

SendFail ==
    /\ Goto("await", "report")
    /\ reply' = FALSE
    /\ UNCHANGED <<ret, cmd, try>>
    /\ SameCounts /\ SameFlags /\ SameTimers /\ UNCHANGED <<env, ghost>>

\* An O and a K of some other message are taken for the answer.
SendLate ==
    /\ Goto("await", "report")
    /\ late > 0 /\ late' = late - 1
    /\ reply' = TRUE
    /\ UNCHANGED <<ret, cmd, try, link, reach, accept>>
    /\ SameCounts /\ SameFlags /\ SameTimers /\ UNCHANGED ghost

\* Mutant: a failed send only forgets the login.
Report_NoAlarm ==
    /\ pc = "report" /\ Return
    /\ system_flag' =
         IF reply THEN [system_flag EXCEPT !["SEND_ERROR"] = FALSE]
         ELSE [system_flag EXCEPT !["LOGIN_OK"] = FALSE]
    /\ SameCounts /\ SameTimers /\ UNCHANGED <<env, ghost>>

Report ==
    /\ pc = "report" /\ Return
    /\ system_flag' =
         IF reply THEN [system_flag EXCEPT !["SEND_ERROR"] = FALSE]
         ELSE [system_flag EXCEPT !["SEND_ERROR"] = TRUE, !["LOGIN_OK"] = FALSE]
    /\ SameCounts /\ SameTimers /\ UNCHANGED <<env, ghost>>

(***************************************************************************)
(* get_command_from_server() and process_data_rx_from_server(): what a     *)
(* pass finds. How frames are fetched and checked is not told apart here.  *)
(***************************************************************************)
\* Nothing unread, or a frame that is not processed; a waiting accept may be
\* among the frames that are dropped.
FetchNothing ==
    /\ Goto("fetch", "send")
    /\ \/ UNCHANGED accept
       \/ accept = "ready" /\ accept' = "none"
    /\ SameCalls /\ SameCounts /\ SameFlags /\ SameTimers
    /\ UNCHANGED <<link, reach, late, ghost>>

FetchLogin ==
    /\ Goto("fetch", "gotLogin")
    /\ accept = "ready" /\ accept' = "none"
    /\ SameCalls /\ SameCounts /\ SameFlags /\ SameTimers
    /\ UNCHANGED <<link, reach, late, ghost>>

FetchSocket ==
    /\ Goto("fetch", "gotSocket")
    /\ SameCalls /\ SameCounts /\ SameFlags /\ SameTimers /\ UNCHANGED <<env, ghost>>

\* A request that is answered; one that writes the APN sets RESET_CONFIG first.
FetchRequest ==
    /\ pc = "fetch" /\ pc' \in {"await", "gotConfig"}
    /\ cmd' = "answer" /\ ret' = "send"
    /\ UNCHANGED <<reply, try>>
    /\ SameCounts /\ SameFlags /\ SameTimers /\ UNCHANGED <<env, ghost>>

GotLogin ==
    /\ Goto("gotLogin", "send")
    /\ Set("LOGIN_OK")
    /\ accepted' = TRUE
    /\ SameCalls /\ SameCounts /\ SameTimers /\ UNCHANGED <<env, lost, ticked>>

\* SOCKET_OK, which no statement reads, is written; the other bits stay.
GotSocket ==
    /\ Goto("gotSocket", "send")
    /\ SameCalls /\ SameCounts /\ SameFlags /\ SameTimers /\ UNCHANGED <<env, ghost>>

GotConfig ==
    /\ Goto("gotConfig", "await")
    /\ Set("RESET_CONFIG")
    /\ SameCalls /\ SameCounts /\ SameTimers /\ UNCHANGED <<env, ghost>>

(***************************************************************************)
(* send_data_to_server()                                                   *)
(***************************************************************************)
Send ==
    /\ pc = "send"
    /\ \/ /\ ~system_flag["LOGIN_OK"] /\ system_flag["TIMEOUT_WAIT_LOGIN"]
          /\ pc' = "login1" /\ ret' = "loop" /\ cmd' = "A1"
       \/ /\ ~(~system_flag["LOGIN_OK"] /\ system_flag["TIMEOUT_WAIT_LOGIN"])
          /\ pc' = "sendSocket" /\ UNCHANGED <<ret, cmd>>
    /\ ticked' = FALSE
    /\ UNCHANGED <<reply, try, accepted, lost>>
    /\ SameCounts /\ SameFlags /\ SameTimers /\ UNCHANGED env

SendSocket ==
    /\ pc = "sendSocket"
    /\ \/ /\ system_flag["SEND_SOCKET"]
          /\ pc' = "socket" /\ ret' = "loop" /\ cmd' = "A4"
       \/ /\ ~system_flag["SEND_SOCKET"]
          /\ pc' = "loop" /\ UNCHANGED <<ret, cmd>>
    /\ ticked' = FALSE
    /\ UNCHANGED <<reply, try, accepted, lost>>
    /\ SameCounts /\ SameFlags /\ SameTimers /\ UNCHANGED env

\* SEND_SOCKET = 0, then SOCKET_OK = 0 in case COMMAND_SOCKET.
Socket ==
    /\ Goto("socket", "await")
    /\ Clear("SEND_SOCKET")
    /\ SameCalls /\ SameCounts /\ SameTimers /\ UNCHANGED <<env, ghost>>

(***************************************************************************)
(* myTimer0_ISR(). A tick that interrupts a statement between the load and *)
(* the store of the flag word keeps its effect on the timers and loses its *)
(* effect on the flags: kept is FALSE.                                     *)
(***************************************************************************)
SocketDue == program_counter.timer_send_socket + 1 >= SocketTicks
LoginDue  == program_counter.timer_wait_response_login + 1 >= LoginTicks

\* Mutant: the login is never retried.
RaiseDue_NoRetry == [system_flag EXCEPT !["SEND_SOCKET"] = @ \/ SocketDue]

RaiseDue == [system_flag EXCEPT !["SEND_SOCKET"] = @ \/ SocketDue,
                                !["TIMEOUT_WAIT_LOGIN"] = @ \/ LoginDue]

Tick(kept) ==
    /\ kept \/ pc \in Rewrites
    /\ pc \in Adjacent => ~ticked
    /\ ticked' = (pc \in Adjacent)
    /\ program_counter' =
         [timer_send_socket |->
             IF SocketDue THEN 0 ELSE program_counter.timer_send_socket + 1,
          timer_wait_response_login |->
             IF LoginDue THEN 0 ELSE program_counter.timer_wait_response_login + 1]
    /\ system_flag' = IF kept THEN RaiseDue ELSE system_flag
    /\ lost' = (lost \/ (LoginDue /\ ~kept))
    /\ UNCHANGED <<main, env, accepted>>

(***************************************************************************)
(* The modem, the network and the server.                                  *)
(***************************************************************************)
\* The socket dies; a login the server has not answered dies with it.
Drop ==
    /\ link /\ link' = FALSE
    /\ accept' = IF accept = "asked" THEN "none" ELSE accept
    /\ UNCHANGED <<main, system_flag, program_counter, reach, late, ghost>>

Reach ==
    /\ reach' \in SUBSET Servers /\ reach' # reach
    /\ UNCHANGED <<main, system_flag, program_counter, link, accept, late, ghost>>

\* The server accepts the login and the frame reaches the modem.
ServerAccept ==
    /\ accept = "asked" /\ link /\ accept' = "ready"
    /\ UNCHANGED <<main, system_flag, program_counter, link, reach, late, ghost>>

(***************************************************************************)
(* The specification.                                                      *)
(***************************************************************************)
Main == \/ Loop \/ Check \/ ClearReset \/ Para \/ Decide \/ Escalate
        \/ Setup \/ ClearConnect \/ OpenOk \/ OpenLate \/ OpenFail
        \/ Opened \/ OpenFailed
        \/ ClearWait \/ ClearSocketTimer \/ ClearTimeout \/ ClearLogin
        \/ ClearSendSocket \/ SendOk \/ SendLate \/ SendFail \/ Report
        \/ FetchNothing \/ FetchLogin \/ FetchSocket \/ FetchRequest
        \/ GotLogin \/ GotSocket \/ GotConfig
        \/ Send \/ SendSocket \/ Socket

Next == \/ Main
        \/ \E kept \in BOOLEAN : Tick(kept)
        \/ Drop \/ Reach \/ ServerAccept

Spec == Init /\ [][Next]_vars

\* The processor keeps running and so does the timer interrupt, which does not
\* fall inside a rewrite of the flag word every time it has a flag to raise.
BoardFairness == /\ WF_vars(Main)
                 /\ WF_vars(\E kept \in BOOLEAN : Tick(kept))
                 /\ SF_vars(SocketDue /\ Tick(TRUE))
                 /\ SF_vars(LoginDue /\ Tick(TRUE))

\* A modem that is offered a reachable address, a frame on a live socket, or an
\* accept to read again and again does what it is asked now and then.
NetworkFairness == /\ SF_vars(OpenOk) /\ SF_vars(SendOk) /\ SF_vars(FetchLogin)
                   /\ WF_vars(ServerAccept)

BoardSpec == Spec /\ BoardFairness
LiveSpec == BoardSpec /\ NetworkFairness

(***************************************************************************)
(* Properties.                                                             *)
(***************************************************************************)
\* The main loop serves the server, and any frame leaves, only after the last
\* AT%IPOPEN succeeded: neither a failed open during boot nor one during
\* recovery lets main() past the recovery loop (main.c:80-123).
SendsOnOpenedSocket == pc \in Service \cup Sending => system_flag["CONNECT_OK"]

\* LOGIN_OK does not outlive a reconnect: when the main loop serves the server
\* with LOGIN_OK set, an accept was processed since the socket was set up
\* (the flag survives prepare_config_mudule() and a failed send must clear it).
AcceptedSession ==
    pc \in Service /\ system_flag["LOGIN_OK"] => accepted

\* A heartbeat is sent only while logged in: the two timers, reset together at
\* each login, keep the login retry ahead of the heartbeat, unless the main
\* loop's rewrite of the flag word overwrote the interrupt's TIMEOUT_WAIT_LOGIN.
HeartbeatNeedsLogin ==
    pc = "await" /\ cmd = "A4" => system_flag["LOGIN_OK"] \/ lost

\* A dead socket is noticed although nothing tells the program: unless it is
\* being reopened already, a heartbeat or a login retry fails and the recovery
\* starts over, from the meter's configuration. Nothing is asked of the network.
DeadLinkDetected == ~link ~> (link \/ pc = "para")

\* Recovery reaches every configured server: as long as either address keeps
\* answering, the module is connected again and again, whatever the other does.
Failover == \A k \in Servers : <>[](k \in reach) => []<>link

\* On a socket that stays up the module gets logged in, also when accepts are
\* dropped: the retry timer asks again.
EventuallyLoggedIn == <>[]link => []<>(system_flag["LOGIN_OK"])
=============================================================================
