------------------------ MODULE LinkSupervisorProofs ------------------------
(***************************************************************************)
(* Proofs about LinkSupervisor for every heartbeat and login period with   *)
(* 2 <= LoginTicks < SocketTicks and every set of reachable servers.       *)
(***************************************************************************)
EXTENDS LinkSupervisor, TLAPS

(***************************************************************************)
(* The inductive invariant.                                                *)
(***************************************************************************)
\* Who called: the locals that tell one call of a function from another.
Calls ==
    /\ pc \in Opening \cup {"para"} => ret \in {"loop", "decide"}
    /\ pc = "clearReset" => ret = "decide"
    /\ pc \in Login => cmd = "A1"
    /\ pc = "gotConfig" => cmd = "answer"

\* A socket that did not open leaves SEND_ERROR behind, which keeps main() in
\* the recovery loop.
Sockets ==
    /\ pc \in Service \cup Sending \cup Login => system_flag["CONNECT_OK"]
    /\ pc \in {"loop", "check", "decide", "escalate"} =>
         system_flag["CONNECT_OK"] \/ system_flag["SEND_ERROR"]

\* Where a stale LOGIN_OK may be found: while the socket is reopened, or with
\* SEND_ERROR set.
Sessions ==
    /\ pc \in Service \cup Sending \cup {"login5"} =>
         (system_flag["LOGIN_OK"] => accepted)
    /\ pc \in {"loop", "check", "escalate"} =>
         (system_flag["LOGIN_OK"] => accepted \/ system_flag["SEND_ERROR"])
    /\ pc \in Opening \cup {"para"} /\ ret = "loop" => ~system_flag["LOGIN_OK"]

Wait == program_counter.timer_wait_response_login
Held == program_counter.timer_send_socket

\* Until the retry timer fires, the heartbeat timer is behind it.
Quiet == ~lost /\ ~system_flag["TIMEOUT_WAIT_LOGIN"] =>
            ~system_flag["SEND_SOCKET"] /\ Held <= Wait

Heartbeats ==
    /\ pc \notin {"login2", "login3", "login4", "login5"} => Quiet
    /\ pc \in {"login2", "login3", "login4", "login5"} =>
         Wait <= (IF ticked THEN 1 ELSE 0)
    /\ pc \in {"login3", "login4", "login5"} => Held <= Wait
    /\ pc = "sendSocket" =>
         \/ system_flag["LOGIN_OK"] \/ lost
         \/ /\ ~system_flag["SEND_SOCKET"]
            /\ ~ticked => Held + 1 < SocketTicks
    /\ pc = "socket" \/ (pc = "await" /\ cmd = "A4") =>
         system_flag["LOGIN_OK"] \/ lost

\* Two failed reconnects are still outstanding only where they are acted upon.
Counts ==
    /\ pc # "escalate" => temp_var <= 1
    /\ pc = "escalate" /\ temp_var = 2 => system_flag["SEND_ERROR"]

IInv == TypeOK /\ Calls /\ Counts /\ Sockets /\ Sessions /\ Heartbeats

\* Every step keeps the types; Counts bounds temp_var before it is incremented.
LEMMA TypeStep ==
    ASSUME TypeOK, Counts, [Next]_vars
    PROVE  TypeOK'
<1>1. CASE Loop
  BY <1>1 DEF Loop, Goto, SameFlags, SameTimers, SameCalls, env, ghost,
          TypeOK, Recovery
<1>2. CASE Check
  BY <1>2 DEF Check, SameFlags, SameTimers, SameCounts, env, ghost, TypeOK,
          Service, Recovery
<1>3. CASE ClearReset
  BY <1>3 DEF ClearReset, Goto, Clear, SameTimers, SameCalls, SameCounts, env,
          ghost, TypeOK, Recovery
<1>4. CASE Para
  BY <1>4 DEF Para, Goto, SameFlags, SameTimers, SameCalls, SameCounts, env,
          ghost, TypeOK, Opening
<1>5. CASE Decide
  <2>1. pc' \in {"loop"} \cup Opening \cup Login \cup Sending \cup Service \cup Recovery
    BY <1>5 DEF Decide, Recovery, Login
  <2>2. temp_var' \in 0..2
    BY <1>5 DEF Decide, TypeOK, Counts
  <2>3. QED
    BY <1>5, <2>1, <2>2
    DEF Decide, TypeOK, SameFlags, SameTimers, env, ghost
<1>6. CASE Escalate
  <2>1. pc' \in {"loop"} \cup Opening \cup Login \cup Sending \cup Service \cup Recovery
    BY <1>6 DEF Escalate, Goto, Recovery
  <2>2. temp_var' \in 0..2
    BY <1>6 DEF Escalate, TypeOK, SameCounts
  <2>3. counter_reset_gprs' \in 0..4
    BY <1>6 DEF Escalate, TypeOK, SameCounts, NextReset
  <2>4. system_flag' \in [Flags -> BOOLEAN]
    BY <1>6 DEF Escalate, TypeOK, SameFlags
  <2>5. link' \in BOOLEAN /\ accept' \in {"none", "asked", "ready"}
    BY <1>6 DEF Escalate, TypeOK
  <2>6. QED
    BY <1>6, <2>1, <2>2, <2>3, <2>4, <2>5
    DEF Escalate, TypeOK, SameCalls, SameTimers, ghost
<1>7. CASE Setup
  BY <1>7 DEF Setup, Goto, SameFlags, SameTimers, SameCalls, SameCounts,
          TypeOK, Opening
<1>8. CASE ClearConnect
  BY <1>8 DEF ClearConnect, Goto, Clear, SameTimers, SameCalls, SameCounts,
          env, ghost, TypeOK, Opening
<1>9. CASE OpenOk
  BY <1>9 DEF OpenOk, Goto, SameFlags, SameTimers, SameCalls, SameCounts,
          Address, ghost, TypeOK, Opening
<1>9a. CASE OpenLate
  BY <1>9a, LatesAssumption
  DEF OpenLate, Goto, SameFlags, SameTimers, SameCalls, SameCounts,
      ghost, TypeOK, Opening
<1>10. CASE OpenFail
  BY <1>10 DEF OpenFail, Goto, SameFlags, SameTimers, SameCalls, SameCounts,
          env, ghost, TypeOK, Opening
<1>11. CASE Opened
  <2>1. pc' \in {"loop"} \cup Opening \cup Login \cup Sending \cup Service \cup Recovery
    BY <1>11 DEF Opened, Return, TypeOK, Recovery, Service
  <2>2. reply' \in BOOLEAN
    BY <1>11 DEF Opened, Return
  <2>3. ret' \in {"loop", "decide", "escalate", "send"} /\ cmd' \in {"A1", "A4", "answer"}
    BY <1>11 DEF Opened, Return
  <2>4. try' \in 0..1
    BY <1>11 DEF Opened, Return
  <2>5. system_flag' \in [Flags -> BOOLEAN]
    BY <1>11 DEF Opened, Set, TypeOK
  <2>6. QED
    BY <1>11, <2>1, <2>2, <2>3, <2>4, <2>5
    DEF Opened, TypeOK, SameCounts, SameTimers, env, ghost
<1>12. CASE OpenFailed
  <2>1. pc' \in {"loop"} \cup Opening \cup Login \cup Sending \cup Service \cup Recovery
    BY <1>12 DEF OpenFailed, Return, TypeOK, Recovery, Service, Opening
  <2>2. reply' \in BOOLEAN
    BY <1>12 DEF OpenFailed, Return, TypeOK
  <2>3. ret' \in {"loop", "decide", "escalate", "send"} /\ cmd' \in {"A1", "A4", "answer"}
    BY <1>12 DEF OpenFailed, Return, TypeOK
  <2>4. try' \in 0..1
    BY <1>12 DEF OpenFailed, Return
  <2>5. system_flag' \in [Flags -> BOOLEAN]
    BY <1>12 DEF OpenFailed, Set, TypeOK
  <2>6. QED
    BY <1>12, <2>1, <2>2, <2>3, <2>4, <2>5
    DEF OpenFailed, TypeOK, SameCounts, SameTimers, env, ghost
<1>13. CASE ClearWait
  <2>1. pc' \in {"loop"} \cup Opening \cup Login \cup Sending \cup Service \cup Recovery
    BY <1>13 DEF ClearWait, Goto, Login
  <2>2. program_counter' \in [timer_send_socket : 0..(SocketTicks - 1),
                               timer_wait_response_login : 0..(LoginTicks - 1)]
    BY <1>13, TicksAssumption DEF ClearWait, TypeOK
  <2>3. QED
    BY <1>13, <2>1, <2>2
    DEF ClearWait, TypeOK, SameCounts, SameCalls, SameFlags, env
<1>14. CASE ClearSocketTimer
  BY <1>14, TicksAssumption DEF ClearSocketTimer, Goto, SameFlags, SameCalls,
          SameCounts, env, ghost, TypeOK, Login
<1>15. CASE ClearTimeout
  BY <1>15 DEF ClearTimeout, Goto, Clear, SameTimers, SameCalls, SameCounts,
          env, ghost, TypeOK, Login
<1>16. CASE ClearLogin
  BY <1>16 DEF ClearLogin, Goto, Clear, SameTimers, SameCalls, SameCounts, env,
          ghost, TypeOK, Login
<1>17. CASE ClearSendSocket
  BY <1>17 DEF ClearSendSocket, Goto, Clear, SameTimers, SameCalls, SameCounts,
          env, TypeOK, Sending
<1>18. CASE SendOk
  BY <1>18 DEF SendOk, Goto, SameFlags, SameTimers, SameCounts, ghost, TypeOK,
          Sending
<1>18a. CASE SendLate
  BY <1>18a, LatesAssumption
  DEF SendLate, Goto, SameFlags, SameTimers, SameCounts, ghost, TypeOK,
          Sending
<1>19. CASE SendFail
  BY <1>19 DEF SendFail, Goto, SameFlags, SameTimers, SameCounts, env, ghost,
          TypeOK, Sending
<1>20. CASE Report
  <2>1. pc' \in {"loop"} \cup Opening \cup Login \cup Sending \cup Service \cup Recovery
    BY <1>20 DEF Report, Return, TypeOK, Recovery, Service
  <2>2. reply' \in BOOLEAN
    BY <1>20 DEF Report, Return
  <2>3. ret' \in {"loop", "decide", "escalate", "send"} /\ cmd' \in {"A1", "A4", "answer"}
    BY <1>20 DEF Report, Return
  <2>4. try' \in 0..1
    BY <1>20 DEF Report, Return
  <2>5. system_flag' \in [Flags -> BOOLEAN]
    BY <1>20 DEF Report, TypeOK
  <2>6. QED
    BY <1>20, <2>1, <2>2, <2>3, <2>4, <2>5
    DEF Report, TypeOK, SameCounts, SameTimers, env, ghost
<1>21. CASE FetchNothing
  BY <1>21 DEF FetchNothing, Goto, SameFlags, SameTimers, SameCalls,
          SameCounts, ghost, TypeOK, Service
<1>22. CASE FetchLogin
  BY <1>22 DEF FetchLogin, Goto, SameFlags, SameTimers, SameCalls, SameCounts,
          ghost, TypeOK, Service
<1>23. CASE FetchSocket
  BY <1>23 DEF FetchSocket, Goto, SameFlags, SameTimers, SameCalls, SameCounts,
          env, ghost, TypeOK, Service
<1>24. CASE FetchRequest
  BY <1>24 DEF FetchRequest, SameFlags, SameTimers, SameCounts, env, ghost,
          TypeOK, Sending, Service
<1>25. CASE GotLogin
  BY <1>25 DEF GotLogin, Goto, Set, SameTimers, SameCalls, SameCounts, env,
          TypeOK, Service
<1>26. CASE GotSocket
  BY <1>26 DEF GotSocket, Goto, SameFlags, SameTimers, SameCalls, SameCounts,
          env, ghost, TypeOK, Service
<1>27. CASE GotConfig
  BY <1>27 DEF GotConfig, Goto, Set, SameTimers, SameCalls, SameCounts, env,
          ghost, TypeOK, Sending
<1>28. CASE Send
  BY <1>28 DEF Send, SameFlags, SameTimers, SameCounts, env, TypeOK, Login,
          Service
<1>29. CASE SendSocket
  BY <1>29 DEF SendSocket, SameFlags, SameTimers, SameCounts, env, TypeOK,
          Service
<1>30. CASE Socket
  BY <1>30 DEF Socket, Goto, Clear, SameTimers, SameCalls, SameCounts, env,
          ghost, TypeOK, Sending
<1>31. CASE Drop
  BY <1>31 DEF Drop, main, ghost, TypeOK
<1>32. CASE Reach
  BY <1>32 DEF Reach, main, ghost, TypeOK
<1>33. CASE ServerAccept
  BY <1>33 DEF ServerAccept, main, ghost, TypeOK
<1>34. ASSUME NEW kept \in BOOLEAN, Tick(kept) PROVE TypeOK'
  BY <1>34, TicksAssumption DEF Tick, RaiseDue, SocketDue, LoginDue,
         TypeOK, Flags, main, env
<1>35. CASE UNCHANGED vars
  BY <1>35 DEF TypeOK, vars, main, env, ghost
<1>36. QED
  BY <1>1, <1>2, <1>3, <1>4, <1>5, <1>6, <1>7, <1>8,
     <1>9, <1>9a, <1>10, <1>11, <1>12, <1>13, <1>14, <1>15, <1>16,
     <1>17, <1>18, <1>18a, <1>19, <1>20, <1>21, <1>22, <1>23, <1>24,
     <1>25, <1>26, <1>27, <1>28, <1>29, <1>30, <1>31, <1>32,
     <1>33, <1>34, <1>35
  DEF Next, Main

\* The calls return where they came from, and a socket that did not open keeps
\* SEND_ERROR set.
LEMMA ControlStep ==
    ASSUME TypeOK, Calls, Counts, Sockets, [Next]_vars
    PROVE  (Calls /\ Counts /\ Sockets)'
<1> USE DEF Calls, Counts, Sockets, Opening, Login, Sending, Service, Recovery
<1>1. CASE Loop
  BY <1>1 DEF Loop, Goto, SameFlags, SameTimers, SameCalls, env, ghost
<1>2. CASE Check
  BY <1>2 DEF Check, SameFlags, SameTimers, SameCounts, env, ghost
<1>3. CASE ClearReset
  <2>1. ret' \in {"loop", "decide"} /\ pc' = "para" /\ temp_var' <= 1
    BY <1>3 DEF ClearReset, Goto, SameCalls, SameCounts
  <2>2. QED
    BY <2>1
<1>4. CASE Para
  BY <1>4 DEF Para, Goto, SameFlags, SameTimers, SameCalls, SameCounts, env,
          ghost
<1>5. CASE Decide
  BY <1>5 DEF Decide, SameFlags, SameTimers, env, ghost
<1>6. CASE Escalate
  BY <1>6 DEF Escalate, Goto, SameFlags, SameTimers, SameCalls, SameCounts,
          NextReset, ghost, Flags, TypeOK
<1>7. CASE Setup
  BY <1>7 DEF Setup, Goto, SameFlags, SameTimers, SameCalls, SameCounts
<1>8. CASE ClearConnect
  BY <1>8 DEF ClearConnect, Goto, Clear, SameTimers, SameCalls, SameCounts,
          env, ghost, Flags, TypeOK
<1>9. CASE OpenOk
  BY <1>9 DEF OpenOk, Goto, SameFlags, SameTimers, SameCalls, SameCounts,
          Address, ghost
<1>9a. CASE OpenLate
  BY <1>9a DEF OpenLate, Goto, SameFlags, SameTimers, SameCalls, SameCounts, env,
          ghost
<1>10. CASE OpenFail
  BY <1>10 DEF OpenFail, Goto, SameFlags, SameTimers, SameCalls, SameCounts,
          env, ghost
<1>11. CASE Opened
  BY <1>11 DEF Opened, Return, Set, SameTimers, SameCounts, env, ghost, Flags,
          TypeOK
<1>12. CASE OpenFailed
  BY <1>12 DEF OpenFailed, Return, Set, SameTimers, SameCounts, env, ghost,
          Flags, TypeOK
<1>13. CASE ClearWait
  BY <1>13 DEF ClearWait, Goto, SameFlags, SameCalls, SameCounts, env
<1>14. CASE ClearSocketTimer
  BY <1>14 DEF ClearSocketTimer, Goto, SameFlags, SameCalls, SameCounts, env,
          ghost
<1>15. CASE ClearTimeout
  BY <1>15 DEF ClearTimeout, Goto, Clear, SameTimers, SameCalls, SameCounts,
          env, ghost, Flags, TypeOK
<1>16. CASE ClearLogin
  BY <1>16 DEF ClearLogin, Goto, Clear, SameTimers, SameCalls, SameCounts,
          env, ghost, Flags, TypeOK
<1>17. CASE ClearSendSocket
  BY <1>17 DEF ClearSendSocket, Goto, Clear, SameTimers, SameCalls,
          SameCounts, env, Flags, TypeOK
<1>18. CASE SendOk
  BY <1>18 DEF SendOk, Goto, SameFlags, SameTimers, SameCounts, ghost
<1>18a. CASE SendLate
  BY <1>18a DEF SendLate, Goto, SameFlags, SameTimers, SameCounts, env, ghost
<1>19. CASE SendFail
  BY <1>19 DEF SendFail, Goto, SameFlags, SameTimers, SameCounts, env, ghost
<1>20. CASE Report
  BY <1>20 DEF Report, Return, SameTimers, SameCounts, env, ghost, Flags,
          TypeOK
<1>21. CASE FetchNothing
  BY <1>21 DEF FetchNothing, Goto, SameFlags, SameTimers, SameCalls,
          SameCounts, ghost
<1>22. CASE FetchLogin
  BY <1>22 DEF FetchLogin, Goto, SameFlags, SameTimers, SameCalls, SameCounts,
          ghost
<1>23. CASE FetchSocket
  BY <1>23 DEF FetchSocket, Goto, SameFlags, SameTimers, SameCalls,
          SameCounts, env, ghost
<1>24. CASE FetchRequest
  BY <1>24 DEF FetchRequest, SameFlags, SameTimers, SameCounts, env, ghost
<1>25. CASE GotLogin
  BY <1>25 DEF GotLogin, Goto, Set, SameTimers, SameCalls, SameCounts, env,
          Flags, TypeOK
<1>26. CASE GotSocket
  BY <1>26 DEF GotSocket, Goto, SameFlags, SameTimers, SameCalls, SameCounts,
          env, ghost
<1>27. CASE GotConfig
  BY <1>27 DEF GotConfig, Goto, Set, SameTimers, SameCalls, SameCounts, env,
          ghost, Flags, TypeOK
<1>28. CASE Send
  BY <1>28 DEF Send, SameFlags, SameTimers, SameCounts, env
<1>29. CASE SendSocket
  BY <1>29 DEF SendSocket, SameFlags, SameTimers, SameCounts, env
<1>30. CASE Socket
  BY <1>30 DEF Socket, Goto, Clear, SameTimers, SameCalls, SameCounts, env,
          ghost, Flags, TypeOK
<1>31. CASE Drop
  BY <1>31 DEF Drop, main, ghost
<1>32. CASE Reach
  BY <1>32 DEF Reach, main, ghost
<1>33. CASE ServerAccept
  BY <1>33 DEF ServerAccept, main, ghost
<1>34. ASSUME NEW kept \in BOOLEAN, Tick(kept) PROVE (Calls /\ Counts /\ Sockets)'
  BY <1>34, TicksAssumption DEF Tick, RaiseDue, SocketDue, LoginDue,
         TypeOK, Flags, main, env
<1>35. CASE UNCHANGED vars
  BY <1>35 DEF vars, main, env, ghost
<1>36. QED
  BY <1>1, <1>2, <1>3, <1>4, <1>5, <1>6, <1>7, <1>8,
     <1>9, <1>9a, <1>10, <1>11, <1>12, <1>13, <1>14, <1>15, <1>16,
     <1>17, <1>18, <1>18a, <1>19, <1>20, <1>21, <1>22, <1>23, <1>24,
     <1>25, <1>26, <1>27, <1>28, <1>29, <1>30, <1>31, <1>32,
     <1>33, <1>34, <1>35
  DEF Next, Main

\* A stale LOGIN_OK never reaches the service statements.
LEMMA SessionsStep ==
    ASSUME TypeOK, Calls, Sockets, Sessions, [Next]_vars
    PROVE  Sessions'
<1> USE DEF Calls, Sockets, Sessions, Opening, Login, Sending, Service, Recovery
<1>1. CASE Loop
  BY <1>1 DEF Loop, Goto, SameFlags, SameTimers, SameCalls, env, ghost
<1>2. CASE Check
  BY <1>2 DEF Check, SameFlags, SameTimers, SameCounts, env, ghost
<1>3. CASE ClearReset
  BY <1>3 DEF ClearReset, Goto, Clear, SameTimers, SameCalls, SameCounts, env,
          ghost, Flags, TypeOK
<1>4. CASE Para
  BY <1>4 DEF Para, Goto, SameFlags, SameTimers, SameCalls, SameCounts, env,
          ghost
<1>5. CASE Decide
  BY <1>5 DEF Decide, SameFlags, SameTimers, env, ghost
<1>6. CASE Escalate
  BY <1>6 DEF Escalate, Goto, SameFlags, SameTimers, SameCalls, SameCounts,
          NextReset, ghost, Flags, TypeOK
<1>7. CASE Setup
  BY <1>7 DEF Setup, Goto, SameFlags, SameTimers, SameCalls, SameCounts
<1>8. CASE ClearConnect
  BY <1>8 DEF ClearConnect, Goto, Clear, SameTimers, SameCalls, SameCounts,
          env, ghost, Flags, TypeOK
<1>9. CASE OpenOk
  BY <1>9 DEF OpenOk, Goto, SameFlags, SameTimers, SameCalls, SameCounts,
          Address, ghost
<1>9a. CASE OpenLate
  BY <1>9a DEF OpenLate, Goto, SameFlags, SameTimers, SameCalls, SameCounts, env,
          ghost
<1>10. CASE OpenFail
  BY <1>10 DEF OpenFail, Goto, SameFlags, SameTimers, SameCalls, SameCounts,
          env, ghost
<1>11. CASE Opened
  BY <1>11 DEF Opened, Return, Set, SameTimers, SameCounts, env, ghost, Flags,
          TypeOK
<1>12. CASE OpenFailed
  BY <1>12 DEF OpenFailed, Return, Set, SameTimers, SameCounts, env, ghost,
          Flags, TypeOK
<1>13. CASE ClearWait
  BY <1>13 DEF ClearWait, Goto, SameFlags, SameCalls, SameCounts, env
<1>14. CASE ClearSocketTimer
  BY <1>14 DEF ClearSocketTimer, Goto, SameFlags, SameCalls, SameCounts, env,
          ghost
<1>15. CASE ClearTimeout
  BY <1>15 DEF ClearTimeout, Goto, Clear, SameTimers, SameCalls, SameCounts,
          env, ghost, Flags, TypeOK
<1>16. CASE ClearLogin
  BY <1>16 DEF ClearLogin, Goto, Clear, SameTimers, SameCalls, SameCounts,
          env, ghost, Flags, TypeOK
<1>17. CASE ClearSendSocket
  BY <1>17 DEF ClearSendSocket, Goto, Clear, SameTimers, SameCalls,
          SameCounts, env, Flags, TypeOK
<1>18. CASE SendOk
  BY <1>18 DEF SendOk, Goto, SameFlags, SameTimers, SameCounts, ghost
<1>18a. CASE SendLate
  BY <1>18a DEF SendLate, Goto, SameFlags, SameTimers, SameCounts, env, ghost
<1>19. CASE SendFail
  BY <1>19 DEF SendFail, Goto, SameFlags, SameTimers, SameCounts, env, ghost
<1>20. CASE Report
  BY <1>20 DEF Report, Return, SameTimers, SameCounts, env, ghost, Flags,
          TypeOK
<1>21. CASE FetchNothing
  BY <1>21 DEF FetchNothing, Goto, SameFlags, SameTimers, SameCalls,
          SameCounts, ghost
<1>22. CASE FetchLogin
  BY <1>22 DEF FetchLogin, Goto, SameFlags, SameTimers, SameCalls, SameCounts,
          ghost
<1>23. CASE FetchSocket
  BY <1>23 DEF FetchSocket, Goto, SameFlags, SameTimers, SameCalls,
          SameCounts, env, ghost
<1>24. CASE FetchRequest
  BY <1>24 DEF FetchRequest, SameFlags, SameTimers, SameCounts, env, ghost
<1>25. CASE GotLogin
  BY <1>25 DEF GotLogin, Goto, Set, SameTimers, SameCalls, SameCounts, env,
          Flags, TypeOK
<1>26. CASE GotSocket
  BY <1>26 DEF GotSocket, Goto, SameFlags, SameTimers, SameCalls, SameCounts,
          env, ghost
<1>27. CASE GotConfig
  BY <1>27 DEF GotConfig, Goto, Set, SameTimers, SameCalls, SameCounts, env,
          ghost, Flags, TypeOK
<1>28. CASE Send
  BY <1>28 DEF Send, SameFlags, SameTimers, SameCounts, env
<1>29. CASE SendSocket
  BY <1>29 DEF SendSocket, SameFlags, SameTimers, SameCounts, env
<1>30. CASE Socket
  BY <1>30 DEF Socket, Goto, Clear, SameTimers, SameCalls, SameCounts, env,
          ghost, Flags, TypeOK
<1>31. CASE Drop
  BY <1>31 DEF Drop, main, ghost
<1>32. CASE Reach
  BY <1>32 DEF Reach, main, ghost
<1>33. CASE ServerAccept
  BY <1>33 DEF ServerAccept, main, ghost
<1>34. ASSUME NEW kept \in BOOLEAN, Tick(kept) PROVE Sessions'
  BY <1>34, TicksAssumption DEF Tick, RaiseDue, SocketDue, LoginDue,
         TypeOK, Flags, main, env
<1>35. CASE UNCHANGED vars
  BY <1>35 DEF vars, main, env, ghost
<1>36. QED
  BY <1>1, <1>2, <1>3, <1>4, <1>5, <1>6, <1>7, <1>8,
     <1>9, <1>9a, <1>10, <1>11, <1>12, <1>13, <1>14, <1>15, <1>16,
     <1>17, <1>18, <1>18a, <1>19, <1>20, <1>21, <1>22, <1>23, <1>24,
     <1>25, <1>26, <1>27, <1>28, <1>29, <1>30, <1>31, <1>32,
     <1>33, <1>34, <1>35
  DEF Next, Main

\* The heartbeat timer stays behind the retry timer until the latter fires.
LEMMA HeartbeatsStep ==
    ASSUME TypeOK, Calls, Heartbeats, [Next]_vars
    PROVE  Heartbeats'
<1> USE DEF Heartbeats, Quiet, Wait, Held, Opening, Login, Sending, Service, Recovery
<1>1. CASE Loop
  BY <1>1 DEF Loop, Goto, SameFlags, SameTimers, SameCalls, env, ghost
<1>2. CASE Check
  BY <1>2 DEF Check, SameFlags, SameTimers, SameCounts, env, ghost
<1>3. CASE ClearReset
  BY <1>3 DEF ClearReset, Goto, Clear, SameTimers, SameCalls, SameCounts, env,
          ghost, Flags, TypeOK
<1>4. CASE Para
  BY <1>4 DEF Para, Goto, SameFlags, SameTimers, SameCalls, SameCounts, env,
          ghost
<1>5. CASE Decide
  BY <1>5 DEF Decide, SameFlags, SameTimers, env, ghost
<1>6. CASE Escalate
  BY <1>6 DEF Escalate, Goto, SameFlags, SameTimers, SameCalls, SameCounts,
          NextReset, ghost, Flags, TypeOK
<1>7. CASE Setup
  BY <1>7 DEF Setup, Goto, SameFlags, SameTimers, SameCalls, SameCounts
<1>8. CASE ClearConnect
  BY <1>8 DEF ClearConnect, Goto, Clear, SameTimers, SameCalls, SameCounts,
          env, ghost, Flags, TypeOK
<1>9. CASE OpenOk
  BY <1>9 DEF OpenOk, Goto, SameFlags, SameTimers, SameCalls, SameCounts,
          Address, ghost
<1>9a. CASE OpenLate
  BY <1>9a DEF OpenLate, Goto, SameFlags, SameTimers, SameCalls, SameCounts, env,
          ghost
<1>10. CASE OpenFail
  BY <1>10 DEF OpenFail, Goto, SameFlags, SameTimers, SameCalls, SameCounts,
          env, ghost
<1>11. CASE Opened
  BY <1>11 DEF Opened, Return, Set, SameTimers, SameCounts, env, ghost, Flags,
          TypeOK
<1>12. CASE OpenFailed
  BY <1>12 DEF OpenFailed, Return, Set, SameTimers, SameCounts, env, ghost,
          Flags, TypeOK
<1>13. CASE ClearWait
  BY <1>13 DEF ClearWait, Goto, SameFlags, SameCalls, SameCounts, env
<1>14. CASE ClearSocketTimer
  BY <1>14 DEF ClearSocketTimer, Goto, SameFlags, TypeOK, ghost
<1>15. CASE ClearTimeout
  BY <1>15 DEF ClearTimeout, Goto, Clear, SameTimers, SameCalls, SameCounts,
          env, ghost, Flags, TypeOK
<1>16. CASE ClearLogin
  BY <1>16 DEF ClearLogin, Goto, Clear, SameTimers, SameCalls, SameCounts,
          env, ghost, Flags, TypeOK
<1>17. CASE ClearSendSocket
  BY <1>17 DEF ClearSendSocket, Goto, Clear, SameTimers, SameCalls, Calls, Flags,
         TypeOK
<1>18. CASE SendOk
  BY <1>18 DEF SendOk, Goto, SameFlags, SameTimers, SameCounts, ghost
<1>18a. CASE SendLate
  BY <1>18a DEF SendLate, Goto, SameFlags, SameTimers, SameCounts, env, ghost
<1>19. CASE SendFail
  BY <1>19 DEF SendFail, Goto, SameFlags, SameTimers, SameCounts, env, ghost
<1>20. CASE Report
  BY <1>20 DEF Report, Return, SameTimers, SameCounts, env, ghost, Flags,
          TypeOK
<1>21. CASE FetchNothing
  BY <1>21 DEF FetchNothing, Goto, SameFlags, SameTimers, SameCalls,
          SameCounts, ghost
<1>22. CASE FetchLogin
  BY <1>22 DEF FetchLogin, Goto, SameFlags, SameTimers, SameCalls, SameCounts,
          ghost
<1>23. CASE FetchSocket
  BY <1>23 DEF FetchSocket, Goto, SameFlags, SameTimers, SameCalls,
          SameCounts, env, ghost
<1>24. CASE FetchRequest
  BY <1>24 DEF FetchRequest, SameFlags, SameTimers, SameCounts, env, ghost
<1>25. CASE GotLogin
  BY <1>25 DEF GotLogin, Goto, Set, SameTimers, SameCalls, SameCounts, env,
          Flags, TypeOK
<1>26. CASE GotSocket
  BY <1>26 DEF GotSocket, Goto, SameFlags, SameTimers, SameCalls, SameCounts,
          env, ghost
<1>27. CASE GotConfig
  BY <1>27 DEF GotConfig, Goto, Set, SameTimers, SameCalls, ghost, Calls, Flags, TypeOK
<1>28. CASE Send
  <2>1. Quiet'
    BY <1>28 DEF Send, SameFlags, SameTimers
  <2>2. ASSUME pc' = "sendSocket", ~system_flag["LOGIN_OK"], ~lost
        PROVE  ~system_flag["SEND_SOCKET"] /\ Held + 1 < SocketTicks
    BY <1>28, <2>2, TicksAssumption DEF Send, TypeOK
  <2>3. QED
    BY <1>28, <2>1, <2>2 DEF Send, SameFlags, SameTimers
<1>29. CASE SendSocket
  BY <1>29 DEF SendSocket, SameFlags, SameTimers, SameCounts, env
<1>30. CASE Socket
  BY <1>30 DEF Socket, Goto, Clear, SameTimers, SameCalls, SameCounts, env,
          ghost, Flags, TypeOK
<1>31. CASE Drop
  BY <1>31 DEF Drop, main, ghost
<1>32. CASE Reach
  BY <1>32 DEF Reach, main, ghost
<1>33. CASE ServerAccept
  BY <1>33 DEF ServerAccept, main, ghost
<1>34. ASSUME NEW kept \in BOOLEAN, Tick(kept) PROVE Heartbeats'
  <2> USE <1>34 DEF Tick
  <2> HIDE DEF Opening, Login, Sending, Service, Recovery, Heartbeats
  <2>1. /\ pc' = pc /\ cmd' = cmd /\ (ticked' <=> pc \in Adjacent)
        /\ pc \in Adjacent => ~ticked
        /\ (lost' <=> lost \/ (LoginDue /\ ~kept))
    BY DEF main
  <2>2. /\ system_flag'["LOGIN_OK"] = system_flag["LOGIN_OK"]
        /\ system_flag'["SEND_SOCKET"] <=> system_flag["SEND_SOCKET"] \/ (kept /\ SocketDue)
        /\ system_flag'["TIMEOUT_WAIT_LOGIN"] <=>
              system_flag["TIMEOUT_WAIT_LOGIN"] \/ (kept /\ LoginDue)
    BY DEF RaiseDue, Flags, TypeOK
  <2>3. /\ Held \in Nat /\ Wait \in Nat
        /\ Held + 1 < SocketTicks => ~SocketDue /\ Held' = Held + 1
        /\ Wait + 1 < LoginTicks => ~LoginDue /\ Wait' = Wait + 1
        /\ ~LoginDue => Wait + 1 < LoginTicks
    BY TicksAssumption DEF SocketDue, LoginDue, TypeOK
  <2> HIDE DEF Tick, Held, Wait
  <2>4. Quiet => Quiet'
    <3>1. ~lost' /\ ~system_flag'["TIMEOUT_WAIT_LOGIN"] =>
            ~lost /\ ~system_flag["TIMEOUT_WAIT_LOGIN"] /\ ~LoginDue
      BY <2>1, <2>2, Zenon
    <3>2. ~LoginDue /\ Held <= Wait => ~SocketDue /\ Held' <= Wait'
      BY <2>3, TicksAssumption
    <3>3. QED
      BY <2>2, <3>1, <3>2, Zenon
  <2>5. ASSUME pc \in {"login2", "login3", "login4", "login5"}
        PROVE  ticked' /\ Wait' <= 1 /\ (pc # "login2" => Held' <= Wait')
    <3>1. ticked' /\ ~ticked
      BY <2>1, <2>5 DEF Heartbeats, Adjacent
    <3>2. Wait <= 0 /\ (pc # "login2" => Held <= Wait)
      BY <2>5, <3>1 DEF Heartbeats
    <3>3. QED
      BY <2>3, <3>1, <3>2, TicksAssumption
  <2>6. ASSUME pc = "sendSocket", ~system_flag["LOGIN_OK"], ~lost
        PROVE  ticked' /\ ~system_flag'["SEND_SOCKET"]
    BY <2>1, <2>2, <2>3, <2>6 DEF Heartbeats, Adjacent
  <2>7. QED
    BY <2>1, <2>2, <2>4, <2>5, <2>6 DEF Heartbeats
<1>35. CASE UNCHANGED vars
  BY <1>35 DEF vars, main, env, ghost
<1>36. QED
  BY <1>1, <1>2, <1>3, <1>4, <1>5, <1>6, <1>7, <1>8,
     <1>9, <1>9a, <1>10, <1>11, <1>12, <1>13, <1>14, <1>15, <1>16,
     <1>17, <1>18, <1>18a, <1>19, <1>20, <1>21, <1>22, <1>23, <1>24,
     <1>25, <1>26, <1>27, <1>28, <1>29, <1>30, <1>31, <1>32,
     <1>33, <1>34, <1>35
  DEF Next, Main

\* The state after ON_OFF_mudule_GPRS() satisfies the invariant.
LEMMA InitIInv == Init => IInv
<1> SUFFICES ASSUME Init PROVE IInv
  OBVIOUS
<1> USE DEF Init
<1>1. TypeOK
  <2>1. /\ reply \in BOOLEAN /\ link \in BOOLEAN
        /\ accepted \in BOOLEAN /\ lost \in BOOLEAN /\ ticked \in BOOLEAN
    OBVIOUS
  <2>2. system_flag \in [Flags -> BOOLEAN]
    OBVIOUS
  <2>3. program_counter \in [timer_send_socket : 0..(SocketTicks - 1),
                             timer_wait_response_login : 0..(LoginTicks - 1)]
    BY TicksAssumption
  <2>4. QED
    BY <2>1, <2>2, <2>3, LatesAssumption DEF TypeOK, Recovery
<1>2. Calls /\ Counts /\ Sockets
  BY DEF Calls, Counts, Sockets, Login, Service, Sending
<1>3. Sessions
  BY DEF Sessions, Flags, Service, Sending
<1>4. Heartbeats
  BY DEF Heartbeats, Quiet, Flags
<1>5. QED
  BY <1>1, <1>2, <1>3, <1>4 DEF IInv

\* Every step keeps the invariant: the four lemmas together.
LEMMA StepIInv == IInv /\ [Next]_vars => IInv'
<1> SUFFICES ASSUME IInv, [Next]_vars PROVE IInv'
  OBVIOUS
<1>1. TypeOK /\ Calls /\ Counts /\ Sockets /\ Sessions /\ Heartbeats
  BY DEF IInv
<1>2. TypeOK'
  BY <1>1, TypeStep
<1>3. (Calls /\ Counts /\ Sockets)'
  BY <1>1, ControlStep
<1>4. Sessions'
  BY <1>1, SessionsStep
<1>5. Heartbeats'
  BY <1>1, HeartbeatsStep
<1>6. QED
  BY <1>2, <1>3, <1>4, <1>5 DEF IInv

\* The invariant holds in every reachable state.
THEOREM Invariance == Spec => []IInv
  BY InitIInv, StepIInv, PTL DEF Spec

(***************************************************************************)
(* What it gives.                                                          *)
(***************************************************************************)
\* The control state, the flags and the timers keep their ranges: temp_var
\* never passes 2 and counter_reset_gprs never passes 4 (main.c:95-113).
THEOREM TypeCorrect == Spec => []TypeOK
<1>1. IInv => TypeOK
  BY DEF IInv
<1>2. QED
  BY Invariance, <1>1, PTL

\* Whatever fails, and in whatever order, main() serves the server and sends
\* frames only on a socket whose last AT%IPOPEN succeeded.
THEOREM OpenedSocket == Spec => []SendsOnOpenedSocket
<1>1. IInv => SendsOnOpenedSocket
  BY DEF IInv, Sockets, SendsOnOpenedSocket
<1>2. QED
  BY Invariance, <1>1, PTL

\* No LOGIN_OK of an earlier socket is trusted on the present one.
THEOREM SessionAccepted == Spec => []AcceptedSession
<1>1. IInv => AcceptedSession
  BY DEF IInv, Sessions, AcceptedSession
<1>2. QED
  BY Invariance, <1>1, PTL

\* For every pair of periods with LoginTicks < SocketTicks the heartbeat waits
\* for the login, except after an overwritten TIMEOUT_WAIT_LOGIN.
THEOREM HeartbeatAfterLogin == Spec => []HeartbeatNeedsLogin
<1>1. IInv => HeartbeatNeedsLogin
  BY DEF IInv, Heartbeats, HeartbeatNeedsLogin
<1>2. QED
  BY Invariance, <1>1, PTL
=============================================================================
