------------------------ MODULE ServerRequestsProofs ------------------------
(***************************************************************************)
(* Proofs about ServerRequests: the judgement of frames, the clock, the    *)
(* answers, the lists of commands and the hourly record, for every         *)
(* calendar, every base of the digits, all payloads and lists of any       *)
(* length.                                                                 *)
(***************************************************************************)
EXTENDS ServerRequests, ServerFrameProofs, FiniteSetTheorems

Times == [Registers -> Nat]

(***************************************************************************)
(* The clock.                                                              *)
(***************************************************************************)
\* The greatest of the greatest values.
LEMMA Bounded ==
    /\ Max(Range(Greatest)) \in Nat
    /\ \A r \in Registers : Greatest[r] \in 0..Max(Range(Greatest))
<1> DEFINE g(r) == Greatest[r]
           G == Range(Greatest)
<1>1. Greatest \in [1..6 -> Nat]
  BY ClockAssumption
<1>2. G = {g(1), g(2), g(3), g(4), g(5), g(6)}
  <2>1. 1..6 = {1, 2, 3, 4, 5, 6}
    OBVIOUS
  <2>2. QED
    BY <1>1, <2>1 DEF Range
<1>3. \A r \in 1..6 : g(r) \in Nat
  BY <1>1
<1> HIDE DEF g, G
<1>4. \A a, b \in G : \E m \in G : m >= a /\ m >= b
  <2>1. \A a \in G : a \in Nat
    BY <1>2, <1>3
  <2>2. \A a, b \in G : a >= b \/ b >= a
    BY <2>1
  <2>3. QED
    BY <2>1, <2>2
<1>5. \E m \in G : \A y \in G : m >= y
  <2>1. \A a \in G : a \in Nat
    BY <1>2, <1>3
  <2>2. PICK m1 \in G : m1 >= g(1) /\ m1 >= g(2)
    BY <1>2, <1>4
  <2>3. PICK m2 \in G : m2 >= m1 /\ m2 >= g(3)
    BY <1>2, <1>4
  <2>4. PICK m3 \in G : m3 >= m2 /\ m3 >= g(4)
    BY <1>2, <1>4
  <2>5. PICK m4 \in G : m4 >= m3 /\ m4 >= g(5)
    BY <1>2, <1>4
  <2>6. PICK m5 \in G : m5 >= m4 /\ m5 >= g(6)
    BY <1>2, <1>4
  <2>7. \A y \in G : m5 >= y
    BY <1>2, <1>3, <2>1, <2>2, <2>3, <2>4, <2>5, <2>6
  <2>8. QED
    BY <2>7
<1>6. Max(G) \in G /\ \A y \in G : Max(G) >= y
  BY <1>5 DEF Max
<1>7. Max(G) \in Nat
  BY <1>2, <1>3, <1>6
<1>8. ASSUME NEW r \in Registers PROVE g(r) \in 0..Max(G)
  <2>1. g(r) \in G /\ g(r) \in Nat
    BY <1>2, <1>3 DEF Registers
  <2>2. QED
    BY <1>6, <1>7, <2>1
<1>9. QED
  BY <1>7, <1>8 DEF G, g

\* What the clock shows and what it is set to.
LEMMA ClocksAreTimes ==
    /\ Clocks \subseteq Times /\ Within(1) \subseteq Times /\ Greatest \in Times
    /\ \A t \in Times : Succ(t) \in Times
<1>1. \A n \in {0, 1} : Within(n) \subseteq Times
  <2> TAKE n \in {0, 1}
  <2>1. Max(Range(Greatest)) + n \in Nat
    BY Bounded
  <2> DEFINE top == Max(Range(Greatest)) + n
  <2>2. Within(n) \subseteq [Registers -> 0..top]
    BY DEF Within
  <2> HIDE DEF top
  <2>3. top \in Nat
    BY <2>1 DEF top
  <2>4. QED
    BY <2>2, <2>3 DEF Times
<1>2. Greatest \in Times
  BY ClockAssumption DEF Times, Registers
<1>3. ASSUME NEW t \in Times PROVE Succ(t) \in Times
  <2>1. \A r \in Registers : First(r) \in Nat /\ t[r] \in Nat /\ t[r] + 1 \in Nat
    BY DEF First, Times
  <2>2. QED
    BY <2>1 DEF Succ, Times
<1>4. QED
  BY <1>1, <1>2, <1>3 DEF Clocks

\* A tick that carries nothing changes the second only.
LEMMA NoCarry ==
    ASSUME NEW t \in Times, t[1] # Greatest[1]
    PROVE  /\ Succ(t)[1] = t[1] + 1
           /\ \A r \in 2..6 : Succ(t)[r] = t[r]
<1>1. Succ(t)[1] = t[1] + 1
  BY DEF Succ, Registers
<1>2. ASSUME NEW r \in 2..6 PROVE Succ(t)[r] = t[r]
  <2>1. 1 \in 1..(r - 1) /\ r \in Registers
    BY DEF Registers
  <2>2. QED
    BY <2>1 DEF Succ
<1>3. QED
  BY <1>1, <1>2

\* What the digits of a clock may be.
Figures == {Digit(t, d) : t \in Times, d \in 1..12}

\* While the registers are set, those that are done show the time that is due, and
\* a tick is due to both, unless it carries out of the second.
Setting ==
    /\ at \in 1..6 /\ time \in Times
    /\ ~ticked => due = time /\ \A r \in 1..(at - 1) : clock[r] = time[r]
    /\ ticked => \/ time[1] = Greatest[1]
                 \/ /\ \A r \in 1..(at - 1) : clock[r] = due[r]
                    /\ \A r \in at..6 : due[r] = time[r]

\* While the digits are read, those before the tick are of the old time, the
\* others of the new.
Loaded(n) == \E k \in 1..(n + 1) : \A d \in 1..n :
                 time[d] = IF d < k THEN Digit(due, d) ELSE Digit(clock, d)

Reading ==
    /\ at \in 1..12 /\ time \in Seq(Figures) /\ Len(time) = at - 1
    /\ ~ticked => clock = due
    /\ Loaded(at - 1)

ClockInv ==
    /\ clock \in Times /\ due \in Times /\ ticked \in BOOLEAN
    /\ pc \in {"idle", "check", "syn_time", "read_time"} => at = 1
    /\ pc \notin {"set", "read", "answer"} => time = <<>> /\ ~ticked
    /\ pc = "set" => Setting
    /\ pc = "read" => Reading
    /\ pc = "answer" =>
          \/ time = <<>>
          \/ time \in Times /\ SetRight
          \/ time \in Seq(Figures) /\ Len(time) = 12 /\ Loaded(12)

\* Nothing is under way.
LEMMA Resting == ASSUME Rest PROVE ClockInv'
BY ClocksAreTimes DEF Rest, ClockInv

\* Where nothing happens to the clock.
LEMMA ClockRest ==
    ASSUME ClockInv, UNCHANGED <<clock, due, time, ticked>>, time = <<>>, ~ticked,
           pc' \notin {"set", "read"},
           pc' \in {"idle", "check", "syn_time", "read_time"} => at' = 1
    PROVE  ClockInv'
BY DEF ClockInv

\* A frame is received and handed to its handler.
LEMMA ClockFrames == ASSUME ClockInv, Receive \/ Check PROVE ClockInv'
<1>1. CASE Receive
  <2>1. /\ pc = "idle" /\ pc' = "check" /\ at' = at
        /\ UNCHANGED <<clock, due, time, ticked>>
    BY <1>1 DEF Receive, text
  <2>2. QED
    BY <2>1, ClockRest DEF ClockInv
<1>2. CASE Check
  <2>1. CASE Rest
    BY <2>1, Resting
  <2>2. CASE /\ pc' = Handler(At(line, ControlAt)) /\ pc' # "idle"
             /\ clock' \in (IF pc' \in {"syn_time", "read_time"} THEN Clocks ELSE {clock})
             /\ UNCHANGED <<time, text, answer, due, ticked>>
    <3>1. pc' \in {"direct", "write", "saved", "syn_time", "read_time"}
      BY <2>2 DEF Handler
    <3>2. at = 1 /\ at' = at /\ time = <<>> /\ ~ticked
      BY <1>2, <2>2 DEF Check, ClockInv, text
    <3>3. clock' \in Times
      BY <2>2, ClocksAreTimes DEF ClockInv
    <3>4. QED
      BY <2>2, <3>1, <3>2, <3>3 DEF ClockInv
  <2>3. QED
    BY <1>2, <2>1, <2>2 DEF Check
<1>3. QED
  BY <1>1, <1>2

\* The registers are set.
LEMMA ClockSet == ASSUME ClockInv, SynTime \/ SetRegister PROVE ClockInv'
<1>1. CASE SynTime
  <2>1. CASE Rest
    BY <2>1, Resting
  <2>2. ASSUME NEW t \in Within(1), pc' = "set", time' = t, due' = t,
               UNCHANGED <<frame, clock, text, answer, ticked>>
        PROVE  ClockInv'
    <3>1. at' = 1 /\ ~ticked' /\ t \in Times /\ clock' \in Times
      BY <1>1, <2>2, ClocksAreTimes DEF SynTime, ClockInv, text
    <3>2. \A r \in 1..(1 - 1) : FALSE
      OBVIOUS
    <3>3. Setting'
      BY <2>2, <3>1, <3>2 DEF Setting
    <3>4. QED
      BY <2>2, <3>1, <3>3 DEF ClockInv
  <2>3. QED
    BY <1>1, <2>1, <2>2 DEF SynTime
<1>2. CASE SetRegister
  <2>1. /\ pc = "set" /\ Setting /\ clock \in Times /\ due \in Times /\ ticked \in BOOLEAN
        /\ clock' = [clock EXCEPT ![at] = time[at]]
        /\ UNCHANGED <<time, due, ticked>>
    BY <1>2 DEF SetRegister, ClockInv
  <2>2. at \in 1..6 /\ time \in Times /\ at \in Registers
    BY <2>1 DEF Setting, Registers
  <2>3. /\ clock' \in Times /\ clock'[at] = time[at]
        /\ \A r \in Registers \ {at} : clock'[r] = clock[r]
    BY <2>1, <2>2 DEF Times
  <2>4. \A r \in 1..at : r \in Registers /\ (r = at \/ r \in 1..(at - 1))
    BY <2>2 DEF Registers
  <2>5. /\ ~ticked => due = time /\ \A r \in 1..at : clock'[r] = time[r]
        /\ ticked => \/ time[1] = Greatest[1]
                     \/ /\ \A r \in 1..at : clock'[r] = due[r]
                        /\ \A r \in at..6 : due[r] = time[r]
    <3>1. CASE ~ticked
      BY <2>1, <2>3, <2>4, <3>1 DEF Setting
    <3>2. CASE ticked /\ time[1] # Greatest[1]
      <4>1. /\ \A r \in 1..(at - 1) : clock[r] = due[r]
            /\ \A r \in at..6 : due[r] = time[r]
        BY <2>1, <3>2 DEF Setting
      <4>2. due[at] = time[at]
        BY <2>2, <4>1
      <4>3. \A r \in 1..at : clock'[r] = due[r]
        BY <2>3, <2>4, <4>1, <4>2
      <4>4. QED
        BY <3>2, <4>1, <4>3
    <3>3. QED
      BY <2>1, <3>1, <3>2
  <2>6. CASE at < 6
    <3>1. at' = at + 1 /\ pc' = "set"
      BY <1>2, <2>1, <2>6 DEF SetRegister
    <3>2. at' - 1 = at /\ at' \in 1..6 /\ at'..6 \subseteq at..6
      BY <2>2, <2>6, <3>1
    <3>3. Setting'
      BY <2>1, <2>2, <2>5, <3>2 DEF Setting
    <3>4. QED
      BY <2>1, <2>3, <3>1, <3>3 DEF ClockInv
  <2>7. CASE ~(at < 6)
    <3>1. pc' = "answer" /\ at = 6
      BY <1>2, <2>2, <2>7 DEF SetRegister, Reply
    <3>2. (\A r \in 1..at : clock'[r] = due[r]) => clock' = due
      BY <2>1, <2>3, <3>1 DEF Times, Registers
    <3>3. clock' = due \/ (ticked /\ time[1] = Greatest[1])
      BY <2>1, <2>5, <3>2
    <3>4. SetRight'
      BY <2>1, <3>3 DEF SetRight
    <3>5. QED
      BY <2>1, <2>2, <2>3, <3>1, <3>4 DEF ClockInv
  <2>8. QED
    BY <2>6, <2>7
<1>3. QED
  BY <1>1, <1>2

\* The digits are read.
LEMMA ClockRead == ASSUME ClockInv, ReadTime \/ LoadDigit PROVE ClockInv'
<1>1. CASE ReadTime
  <2>1. /\ pc' = "read" /\ due' = clock /\ at' = 1 /\ time' = <<>> /\ ~ticked'
        /\ clock' = clock /\ clock \in Times /\ ticked' \in BOOLEAN
    BY <1>1 DEF ReadTime, ClockInv, text
  <2>2. time' \in Seq(Figures) /\ Len(time') = at' - 1
    BY <2>1
  <2>3. Loaded(at - 1)'
    <3>1. \A d \in 1..(1 - 1) : FALSE
      OBVIOUS
    <3>2. 1 \in 1..((1 - 1) + 1)
      OBVIOUS
    <3>3. QED
      BY <2>1, <3>1, <3>2 DEF Loaded
  <2>4. Reading'
    BY <2>1, <2>2, <2>3 DEF Reading
  <2>5. QED
    BY <2>1, <2>4 DEF ClockInv
<1>2. CASE LoadDigit
  <2>1. /\ pc = "read" /\ Reading /\ clock \in Times /\ due \in Times /\ ticked \in BOOLEAN
        /\ time' = Append(time, Digit(clock, at))
        /\ UNCHANGED <<clock, due, ticked>>
    BY <1>2 DEF LoadDigit, ClockInv
  <2>2. /\ at \in 1..12 /\ time \in Seq(Figures) /\ Len(time) = at - 1
        /\ ~ticked => clock = due
    BY <2>1 DEF Reading
  <2>3. Digit(clock, at) \in Figures
    BY <2>1, <2>2 DEF Figures
  <2>4. /\ time' \in Seq(Figures) /\ Len(time') = at /\ time'[at] = Digit(clock, at)
        /\ \A d \in 1..(at - 1) : time'[d] = time[d]
    BY <2>1, <2>2, <2>3, AppendProperties
  <2>5. PICK k \in 1..at : \A d \in 1..(at - 1) :
            time[d] = IF d < k THEN Digit(due, d) ELSE Digit(clock, d)
    <3>1. (at - 1) + 1 = at /\ Loaded(at - 1)
      BY <2>1, <2>2 DEF Reading
    <3>2. QED
      BY <3>1 DEF Loaded
  <2>6. \A d \in 1..at : time'[d] = IF d < k THEN Digit(due, d) ELSE Digit(clock, d)
    <3>1. \A d \in 1..at : d \in 1..(at - 1) \/ d = at
      BY <2>2
    <3>2. ~(at < k)
      BY <2>2, <2>5
    <3>3. QED
      BY <2>4, <2>5, <3>1, <3>2
  <2>7. k \in 1..(at + 1)
    BY <2>2, <2>5
  <2>8. CASE at < 12
    <3>1. at' = at + 1 /\ pc' = "read"
      BY <1>2, <2>1, <2>8 DEF LoadDigit
    <3>2. at' - 1 = at /\ at' \in 1..12
      BY <2>2, <2>8, <3>1
    <3>3. Loaded(at - 1)'
      BY <2>1, <2>6, <2>7, <3>2 DEF Loaded
    <3>4. Reading'
      BY <2>1, <2>2, <2>4, <3>2, <3>3 DEF Reading
    <3>5. QED
      BY <2>1, <3>1, <3>4 DEF ClockInv
  <2>9. CASE ~(at < 12)
    <3>1. pc' = "answer" /\ at = 12
      BY <1>2, <2>2, <2>9 DEF LoadDigit, Reply
    <3>2. Loaded(12)'
      BY <2>1, <2>6, <2>7, <3>1 DEF Loaded
    <3>3. QED
      BY <2>1, <2>4, <3>1, <3>2 DEF ClockInv
  <2>10. QED
    BY <2>8, <2>9
<1>3. QED
  BY <1>1, <1>2

\* The clock ticks, once in a handler.
LEMMA ClockTick == ASSUME ClockInv, Tick PROVE ClockInv'
<1>1. /\ clock \in Times /\ due \in Times /\ ticked' = TRUE /\ ~ticked
      /\ clock' = Succ(clock) /\ clock' \in Times
      /\ UNCHANGED <<pc, time, at>>
  BY ClocksAreTimes DEF Tick, ClockInv, text
<1>2. CASE pc = "set"
  <2>1. /\ at \in 1..6 /\ time \in Times
        /\ due = time /\ \A r \in 1..(at - 1) : clock[r] = time[r]
    BY <1>1, <1>2 DEF ClockInv, Setting
  <2>2. due' \in Times
    BY <1>1, <1>2, <2>1, ClocksAreTimes DEF Tick
  <2>3. CASE at = 1
    <3>1. due' = due /\ (\A r \in 1..(at - 1) : clock'[r] = due'[r])
      BY <1>2, <2>3 DEF Tick
    <3>2. Setting'
      BY <1>1, <2>1, <3>1 DEF Setting
    <3>3. QED
      BY <1>1, <1>2, <2>2, <3>2 DEF ClockInv
  <2>4. CASE at > 1 /\ time[1] # Greatest[1]
    <3>1. due' = Succ(due) /\ due[1] # Greatest[1] /\ clock[1] = due[1]
      BY <1>2, <2>1, <2>4 DEF Tick
    <3>2. /\ clock'[1] = clock[1] + 1 /\ due'[1] = due[1] + 1
          /\ \A r \in 2..6 : clock'[r] = clock[r] /\ due'[r] = due[r]
      BY <1>1, <3>1, NoCarry
    <3>3. \A r \in 1..(at - 1) : (r = 1 \/ r \in 2..6) /\ clock[r] = due[r]
      BY <2>1
    <3>4. \A r \in 1..(at - 1) : clock'[r] = due'[r]
      BY <3>2, <3>3
    <3>5. \A r \in at..6 : r \in 2..6
      BY <2>1, <2>4
    <3>6. \A r \in at..6 : due'[r] = time[r]
      BY <2>1, <3>2, <3>5
    <3>7. Setting'
      BY <1>1, <2>1, <3>4, <3>6 DEF Setting
    <3>8. QED
      BY <1>1, <1>2, <2>2, <3>7 DEF ClockInv
  <2>5. CASE time[1] = Greatest[1]
    <3>1. Setting'
      BY <1>1, <2>1, <2>5 DEF Setting
    <3>2. QED
      BY <1>1, <1>2, <2>2, <3>1 DEF ClockInv
  <2>6. QED
    BY <2>1, <2>3, <2>4, <2>5
<1>3. CASE pc = "read"
  <2>1. due' = due
    BY <1>3 DEF Tick
  <2>2. /\ at \in 1..12 /\ time \in Seq(Figures) /\ Len(time) = at - 1 /\ clock = due
    BY <1>1, <1>3 DEF ClockInv, Reading
  <2>3. \A d \in 1..(at - 1) : time[d] = Digit(due, d)
    BY <1>1, <1>3, <2>2 DEF ClockInv, Reading, Loaded
  <2>4. \A d \in 1..(at - 1) : d < at
    BY <2>2
  <2>5. at \in 1..((at - 1) + 1)
    BY <2>2
  <2>6. Loaded(at - 1)'
    BY <1>1, <2>1, <2>3, <2>4, <2>5 DEF Loaded
  <2>7. Reading'
    BY <1>1, <2>2, <2>6 DEF Reading
  <2>8. QED
    BY <1>1, <1>3, <2>1, <2>7 DEF ClockInv
<1>4. QED
  BY <1>2, <1>3 DEF Tick

\* The other handlers leave the clock alone.
LEMMA ClockOther ==
    ASSUME ClockInv,
           \/ Send \/ WriteMode \/ WriteData \/ ApnOverrun \/ ReadingDirect \/ Collect
           \/ FinishList \/ ReadingDataSave \/ FreezeBegins \/ FreezeReads \/ FreezeEnds
    PROVE  ClockInv'
<1>1. CASE Rest
  BY <1>1, Resting
<1>2. CASE ~Rest
  <2>1. /\ pc \notin {"set", "read", "answer"}
        /\ UNCHANGED <<clock, due, time, ticked>>
        /\ pc' \in {"scan", "collect", "answer", "freeze", "stamp"}
    BY <1>2 DEF Send, WriteMode, WriteData, ApnOverrun, ReadingDirect, Collect, FinishList,
                ReadingDataSave, FreezeBegins, FreezeReads, FreezeEnds, BeginList, Reply, text
  <2>2. QED
    BY <2>1, ClockRest DEF ClockInv
<1>3. QED
  BY <1>1, <1>2

LEMMA ClockAlways == Spec => []ClockInv
<1>1. Init => ClockInv
  BY ClocksAreTimes DEF Init, ClockInv
<1>2. ClockInv /\ [Next]_vars => ClockInv'
  <2> SUFFICES ASSUME ClockInv, [Next]_vars PROVE ClockInv'
    OBVIOUS
  <2>1. CASE UNCHANGED vars
    BY <2>1 DEF vars, text, ClockInv, Setting, Reading, Loaded, SetRight
  <2>2. QED
    BY <2>1, ClockFrames, ClockSet, ClockRead, ClockTick, ClockOther DEF Next
<1>3. QED
  BY <1>1, <1>2, PTL DEF Spec

\* When the registers have been set, the clock is as it was commanded, or a second
\* later, unless the second that was commanded is the last of its minute and the
\* clock ticked meanwhile.
THEOREM ClockSetRight == Spec => []SetRight
<1>1. ClockInv => SetRight
  <2> SUFFICES ASSUME ClockInv, pc = "answer", Len(time) = 6 PROVE SetRight
    BY DEF SetRight
  <2>1. time # <<>>
    OBVIOUS
  <2>2. Len(time) # 12
    OBVIOUS
  <2>3. QED
    BY <2>1, <2>2 DEF ClockInv
<1>2. QED
  BY <1>1, ClockAlways, PTL

\* The time that is answered is that of the start or that of the end of the
\* reading, unless a tick meanwhile changed more than one digit.
THEOREM ClockReadRight == Spec => []ReadRight
<1>1. ClockInv => ReadRight
  <2> SUFFICES ASSUME ClockInv, pc = "answer", Len(time) = 12 PROVE ReadRight
    BY DEF ReadRight
  <2> DEFINE D == {d \in 1..12 : Digit(due, d) # Digit(clock, d)}
  <2>1. time \in Seq(Figures) /\ Loaded(12)
    <3>1. time # <<>>
      OBVIOUS
    <3>2. time \notin Times
      <4>1. ASSUME time \in Times PROVE FALSE
        <5>1. time \in [1..6 -> Nat] /\ 6 \in Nat
          BY <4>1 DEF Times, Registers
        <5>2. time \in Seq(Nat)
          BY <5>1, SeqDef
        <5>3. 1..6 = 1..Len(time) /\ Len(time) \in Nat
          BY <5>1, <5>2, LenProperties
        <5>4. QED
          <6>1. 12 \in 1..Len(time) /\ 12 \notin 1..6
            OBVIOUS
          <6>2. QED
            BY <5>3, <6>1, Zenon
      <4>2. QED
        BY <4>1
    <3>3. QED
      BY <3>1, <3>2 DEF ClockInv
  <2>2. PICK k \in 1..13 : \A d \in 1..12 :
            time[d] = IF d < k THEN Digit(due, d) ELSE Digit(clock, d)
    BY <2>1 DEF Loaded
  <2>3. time = [d \in 1..12 |-> time[d]]
    BY <2>1
  <2>4. CASE \A d \in D : d >= k
    <3>1. \A d \in 1..12 : time[d] = Digit(clock, d)
      BY <2>2, <2>4
    <3>2. time = Digits(clock)
      BY <2>3, <3>1 DEF Digits
    <3>3. QED
      BY <3>2 DEF ReadRight
  <2>5. CASE \A d \in D : d < k
    <3>1. \A d \in 1..12 : time[d] = Digit(due, d)
      BY <2>2, <2>5
    <3>2. time = Digits(due)
      BY <2>3, <3>1 DEF Digits
    <3>3. QED
      BY <3>2 DEF ReadRight
  <2>6. CASE \E c, d \in D : c < k /\ ~(d < k)
    <3>1. PICK c \in D, d \in D : c # d
      BY <2>2, <2>6
    <3>2. IsFiniteSet(D)
      <4>1. IsFiniteSet(1..12)
        <5>1. 1 \in Int /\ 12 \in Int
          OBVIOUS
        <5>2. QED
          BY <5>1, FS_Interval, Zenon
      <4>2. D \subseteq 1..12
        OBVIOUS
      <4>3. QED
        BY <4>1, <4>2, FS_Subset
    <3>3. Cardinality({c, d}) = 2
      <4>1. IsFiniteSet({d}) /\ Cardinality({d}) = 1
        BY FS_Singleton
      <4>2. Cardinality({d} \cup {c}) = 2
        BY <3>1, <4>1, FS_AddElement
      <4>3. {d} \cup {c} = {c, d}
        OBVIOUS
      <4>4. QED
        BY <4>2, <4>3
    <3>4. Cardinality({c, d}) <= Cardinality(D)
      BY <3>1, <3>2, FS_Subset
    <3>5. Cardinality(D) \in Nat
      BY <3>2, FS_CardinalityType
    <3>6. Cardinality(D) > 1
      BY <3>3, <3>4, <3>5
    <3>7. QED
      BY <3>6 DEF ReadRight
  <2>7. QED
    BY <2>2, <2>4, <2>5, <2>6
<1>2. QED
  BY <1>1, ClockAlways, PTL

(***************************************************************************)
(* The answers.                                                            *)
(***************************************************************************)
\* What is acknowledged comes in whole bytes, and so does what is read, unless a
\* reading came short.
Whole == chars \in Nat /\ chars % 2 = 0

AnswerInv ==
    /\ pc \notin {"scan", "answer", "freeze", "stamp"} => at \in Nat \ {0}
    /\ pc = "scan" => Whole
    /\ pc = "collect" => list \in Seq(Readings) /\ chars \in Nat /\ (gap \/ Whole)
    /\ pc = "answer" => /\ 2 * answer.announced = answer.chars \/ gap
                        /\ answer.right \/ gap \/ foreign

\* A list of readings is begun.
LEMMA ReadingLists == Lists(Readings) \subseteq Seq(Readings)
<1> SUFFICES ASSUME NEW l \in Lists(Readings) PROVE l \in Seq(Readings)
  OBVIOUS
<1>1. PICK n \in 0..ListLength : l \in [1..n -> Readings]
  BY DEF Lists
<1>2. n \in Nat
  BY <1>1, ListAssumption
<1>3. QED
  BY <1>1, <1>2, SeqDef

\* The next command of a list.
LEMMA AnswerCollect == ASSUME AnswerInv, Collect PROVE AnswerInv'
<1>1. /\ pc = "collect" /\ pc' = pc /\ list' = list /\ list \in Seq(Readings)
      /\ chars \in Nat /\ (gap \/ Whole)
      /\ at \in Nat \ {0} /\ at <= Len(list) /\ at' = at + 1
      /\ ReadDataMeter(list[at], 4)
  BY DEF Collect, AnswerInv
<1> DEFINE width == list[at]
<1>2. width \in {0, 4, 8}
  <2>1. Len(list) \in Nat /\ list \in [1..Len(list) -> Readings]
    BY <1>1, LenProperties
  <2>2. at \in 1..Len(list)
    BY <1>1, <2>1
  <2>3. QED
    BY <2>1, <2>2 DEF Readings
<1> HIDE DEF width
<1>3. chars' \in Nat /\ (gap' \/ Whole')
  <2>1. CASE (gap' <=> gap \/ width > 0) /\ chars' = chars
    BY <1>1, <2>1 DEF Whole
  <2>2. ASSUME NEW n \in (width - 2)..width, width > 0,
               chars' = chars + 4 + n, gap' <=> gap \/ n # width
        PROVE  chars' \in Nat /\ (gap' \/ Whole')
    <3>1. n \in Nat
      BY <1>2, <2>2
    <3>2. width = 4 \/ width = 8
      BY <1>2, <2>2
    <3>3. chars' \in Nat
      BY <1>1, <2>2, <3>1
    <3>4. CASE gap \/ n # width
      BY <2>2, <3>3, <3>4
    <3>5. CASE ~gap /\ n = width
      BY <1>1, <2>2, <3>2, <3>3, <3>5 DEF Whole
    <3>6. QED
      BY <3>3, <3>4, <3>5
  <2>3. \/ (gap' <=> gap \/ width > 0) /\ chars' = chars
        \/ /\ width > 0
           /\ \E n \in (width - 2)..width :
                 chars' = chars + 4 + n /\ (gap' <=> gap \/ n # width)
    BY <1>1 DEF ReadDataMeter, width
  <2>4. QED
    BY <2>1, <2>2, <2>3
<1>4. QED
  BY <1>1, <1>3 DEF AnswerInv

\* An answer of fixed length.
LEMMA Replied ==
    ASSUME NEW n \in Nat, Reply(n, 2 * n, TRUE)
    PROVE  AnswerInv'
<1>1. /\ pc' = "answer" /\ answer'.announced = n /\ answer'.chars = 2 * n
      /\ answer'.right
  BY DEF Reply
<1>2. QED
  BY <1>1 DEF AnswerInv

\* An answer is made.
LEMMA AnswerMade ==
    ASSUME AnswerInv, SetRegister \/ LoadDigit \/ FinishList \/ ReadingDataSave
    PROVE  AnswerInv'
<1>1. /\ 10 = 2 * 5 /\ 20 + 12 = 2 * 16 /\ 36 + 2 * 179 = 2 * 197 /\ 36 = 2 * 18
      /\ {5, 16, 18, 197} \subseteq Nat
  OBVIOUS
<1>2. CASE SetRegister \/ LoadDigit
  <2>1. \/ pc' = pc /\ pc \in {"set", "read"} /\ at' = at + 1
        \/ Reply(5, 10, TRUE) \/ Reply(16, 20 + 12, TRUE)
    BY <1>2 DEF SetRegister, LoadDigit
  <2>2. CASE pc' = pc /\ pc \in {"set", "read"} /\ at' = at + 1
    BY <2>2 DEF AnswerInv
  <2>3. CASE Reply(5, 10, TRUE)
    BY <1>1, <2>3, Replied
  <2>4. CASE Reply(16, 20 + 12, TRUE)
    BY <1>1, <2>4, Replied
  <2>5. QED
    BY <2>1, <2>2, <2>3, <2>4
<1>3. CASE ReadingDataSave
  <2>1. Reply(197, 36 + 2 * 179, TRUE) \/ Reply(18, 36, TRUE)
    BY <1>3 DEF ReadingDataSave, RecordBytes
  <2>2. CASE Reply(197, 36 + 2 * 179, TRUE)
    BY <1>1, <2>2, Replied
  <2>3. CASE Reply(18, 36, TRUE)
    BY <1>1, <2>3, Replied
  <2>4. QED
    BY <2>1, <2>2, <2>3
<1>4. CASE FinishList
  <2>1. /\ Reply(chars \div 2, chars, chars % 2 = 0 /\ ~foreign)
        /\ gap' = gap /\ foreign' = foreign
        /\ pc = "scan" \/ pc = "collect"
    BY <1>4 DEF FinishList, text
  <2>2. gap \/ Whole
    BY <2>1 DEF AnswerInv
  <2>3. /\ pc' = "answer" /\ answer'.announced = chars \div 2 /\ answer'.chars = chars
        /\ answer'.right <=> chars % 2 = 0 /\ ~foreign
    BY <2>1 DEF Reply
  <2>4. Whole => 2 * (chars \div 2) = chars
    BY DEF Whole
  <2>5. 2 * answer'.announced = answer'.chars \/ gap'
    BY <2>1, <2>2, <2>3, <2>4
  <2>6. answer'.right \/ gap' \/ foreign'
    BY <2>1, <2>2, <2>3 DEF Whole
  <2>7. QED
    BY <2>3, <2>5, <2>6 DEF AnswerInv
<1>5. QED
  BY <1>2, <1>3, <1>4

\* The other steps.
LEMMA AnswerOther ==
    ASSUME AnswerInv,
           \/ Receive \/ Check \/ Send \/ Tick \/ SynTime \/ ReadTime
           \/ WriteMode \/ WriteData \/ ApnOverrun \/ ReadingDirect
           \/ FreezeBegins \/ FreezeReads \/ FreezeEnds
    PROVE  AnswerInv'
<1>1. CASE Rest
  BY <1>1 DEF Rest, AnswerInv
<1>2. CASE Receive \/ SynTime \/ ReadTime \/ Tick
  <2>1. CASE Rest
    BY <1>1, <2>1
  <2>2. CASE ~Rest
    <3>1. /\ pc \in {"idle", "syn_time", "read_time", "set", "read"}
          /\ pc' \in {"check", "set", "read"} /\ at' = at
      BY <1>2, <2>2 DEF Receive, SynTime, ReadTime, Tick, text
    <3>2. QED
      BY <3>1 DEF AnswerInv
  <2>3. QED
    BY <2>1, <2>2
<1>3. CASE Check
  <2>1. \/ Rest
        \/ pc = "check" /\ pc' = Handler(At(line, ControlAt)) /\ at' = at
    BY <1>3 DEF Check, text
  <2>2. Handler(At(line, ControlAt)) \in {"direct", "write", "saved", "syn_time", "read_time", "idle"}
    BY DEF Handler
  <2>3. QED
    BY <1>1, <2>1, <2>2 DEF AnswerInv
<1>4. CASE WriteMode \/ ReadingDirect
  <2>1. /\ pc \in {"write", "direct"} /\ at \in Nat \ {0}
        /\ \/ Rest \/ BeginList("scan", WriteCodes, 4) \/ BeginList("collect", Readings, 12)
    BY <1>4 DEF WriteMode, ReadingDirect, AnswerInv
  <2>2. CASE BeginList("scan", WriteCodes, 4)
    BY <2>1, <2>2 DEF BeginList, AnswerInv, Whole
  <2>3. CASE BeginList("collect", Readings, 12)
    BY <2>1, <2>3, ReadingLists DEF BeginList, AnswerInv, Whole
  <2>4. QED
    BY <1>1, <2>1, <2>2, <2>3
<1>5. CASE WriteData
  <2>1. /\ pc = "scan" /\ pc' = "scan" /\ chars' \in {chars, chars + 6}
    BY <1>5 DEF WriteData
  <2>2. Whole
    BY <2>1 DEF AnswerInv
  <2>3. Whole'
    <3>1. CASE chars' = chars
      BY <2>2, <3>1 DEF Whole
    <3>2. CASE chars' = chars + 6
      <4>1. chars + 6 \in Nat /\ (chars + 6) % 2 = 0
        BY <2>2 DEF Whole
      <4>2. QED
        BY <3>2, <4>1 DEF Whole
    <3>3. QED
      BY <2>1, <3>1, <3>2
  <2>4. QED
    BY <2>1, <2>3 DEF AnswerInv
<1>6. CASE ApnOverrun \/ Send \/ FreezeEnds
  BY <1>1, <1>6 DEF ApnOverrun, Send, FreezeEnds
<1>7. CASE FreezeBegins \/ FreezeReads
  <2>1. pc' \in {"freeze", "stamp"}
    BY <1>7 DEF FreezeBegins, FreezeReads
  <2>2. QED
    BY <2>1 DEF AnswerInv
<1>8. QED
  BY <1>2, <1>3, <1>4, <1>5, <1>6, <1>7

\* An answer has the length it announces and a right checksum, unless a reading
\* came short, or (the checksum) was not in hexadecimal digits.
THEOREM AnswersSound == Spec => []AnswerSound
<1>1. Init => AnswerInv
  BY DEF Init, AnswerInv
<1>2. AnswerInv /\ [Next]_vars => AnswerInv'
  <2> SUFFICES ASSUME AnswerInv, [Next]_vars PROVE AnswerInv'
    OBVIOUS
  <2>1. CASE UNCHANGED vars
    BY <2>1 DEF vars, text, AnswerInv, Whole
  <2>2. QED
    BY <2>1, AnswerCollect, AnswerMade, AnswerOther DEF Next
<1>3. AnswerInv => AnswerSound
  BY DEF AnswerInv, AnswerSound
<1>4. QED
  BY <1>1, <1>2, <1>3, PTL DEF Spec

(***************************************************************************)
(* Frames.                                                                 *)
(***************************************************************************)
Controls == {1, 6, 8, 17, 33, 36, 53}

LineInv ==
    /\ line \in Seq(Bytes) /\ damaged \in 0..Len(line)
    /\ FrameJudged

LEMMA LineReceived == ASSUME Receive PROVE LineInv'
<1>1. PICK control \in Controls, data \in Payloads :
          \/ line' = Frame(control, data) /\ damaged' = 0
          \/ \E k \in 1..Len(Frame(control, data)) :
                \E b \in Bytes \ {Frame(control, data)[k]} :
                    line' = [Frame(control, data) EXCEPT ![k] = b] /\ damaged' = k
  BY Zenon DEF Receive, Controls
<1> DEFINE sent == Frame(control, data)
<1>2. control \in Bytes
  BY ListAssumption, BytesAssumption DEF Bytes, Controls
<1>3. data \in Seq(Bytes) /\ Len(data) < ByteValues * ByteValues
  BY ListAssumption
<1>4. sent \in Seq(Bytes) /\ Len(sent) \in Nat
  <2> DEFINE n == HeaderLength + Len(data)
  <2>1. sent \in [1..(n + 2) -> Bytes] /\ n + 2 \in Nat
    <3>1. Built(sent, n, control)
      BY <1>2, <1>3, FrameShape
    <3>2. QED
      BY <3>1 DEF Built
  <2>2. \A j \in Nat : [1..j -> Bytes] \subseteq Seq(Bytes)
    BY SeqDef
  <2>3. sent \in Seq(Bytes)
    BY <2>1, <2>2
  <2>4. QED
    BY <2>3, LenProperties
<1>5. CASE line' = sent /\ damaged' = 0
  <2>1. Accepted(sent) <=> Announced(sent) <= MaxLength
    BY <1>2, <1>3, IntactFrame, Zenon
  <2>2. FrameJudged'
    BY <1>5, <2>1 DEF FrameJudged
  <2>3. QED
    BY <1>4, <1>5, <2>2 DEF LineInv
<1>6. ASSUME NEW k \in 1..Len(sent), NEW b \in Bytes \ {sent[k]},
             line' = [sent EXCEPT ![k] = b], damaged' = k
      PROVE  LineInv'
  <2>1. line' \in Seq(Bytes) /\ Len(line') = Len(sent)
    BY <1>4, <1>6, ExceptSeq
  <2>2. k \notin {LengthAt, LengthAt + 1} => ~Accepted(line')
    BY <1>2, <1>3, <1>6, DamageNoticed
  <2>3. FrameJudged'
    BY <1>4, <1>6, <2>2 DEF FrameJudged
  <2>4. QED
    BY <1>4, <1>6, <2>1, <2>3 DEF LineInv
<1>7. QED
  BY <1>1, <1>5, <1>6

LEMMA LineKept ==
    ASSUME LineInv, Next, ~Receive
    PROVE  LineInv'
<1>1. \/ line' = <<>> /\ damaged' = 0
      \/ line' = line /\ damaged' = damaged
  BY DEF Next, Check, Send, Tick, SynTime, SetRegister, ReadTime, LoadDigit, WriteMode, WriteData,
         ApnOverrun, ReadingDirect, Collect, FinishList, ReadingDataSave, FreezeBegins,
         FreezeReads, FreezeEnds, BeginList, Reply, Rest, frame
<1>2. pc' # "check"
  <2>1. CASE Check
    BY <2>1 DEF Check, Handler, Rest
  <2>2. CASE ~Check
    BY <2>2 DEF Next, Send, Tick, SynTime, SetRegister, ReadTime, LoadDigit, WriteMode,
         WriteData, ApnOverrun, ReadingDirect, Collect, FinishList, ReadingDataSave,
         FreezeBegins, FreezeReads, FreezeEnds, BeginList, Reply, Rest
  <2>3. QED
    BY <2>1, <2>2
<1>3. line' \in Seq(Bytes) /\ damaged' \in 0..Len(line')
  <2>1. <<>> \in Seq(Bytes) /\ 0 \in 0..Len(<<>>)
    OBVIOUS
  <2>2. CASE line' = <<>> /\ damaged' = 0
    BY <2>1, <2>2
  <2>3. CASE line' = line /\ damaged' = damaged
    BY <2>3 DEF LineInv
  <2>4. QED
    BY <1>1, <2>2, <2>3
<1>4. QED
  BY <1>2, <1>3 DEF LineInv, FrameJudged

LEMMA LineAlways == Spec => []LineInv
<1>1. Init => LineInv
  BY DEF Init, LineInv, FrameJudged
<1>2. LineInv /\ [Next]_vars => LineInv'
  <2> SUFFICES ASSUME LineInv, [Next]_vars PROVE LineInv'
    OBVIOUS
  <2>1. CASE UNCHANGED vars
    BY <2>1 DEF vars, frame, LineInv, FrameJudged
  <2>2. QED
    BY <2>1, LineReceived, LineKept
<1>3. QED
  BY <1>1, <1>2, PTL DEF Spec

\* A frame is accepted if it arrives as it was built and is not too long, and one
\* damaged byte is always noticed, unless it is the length that is damaged.
THEOREM FramesJudged == Spec => []FrameJudged
<1>1. LineInv => FrameJudged
  BY DEF LineInv
<1>2. QED
  BY <1>1, LineAlways, PTL

(***************************************************************************)
(* The hourly record.                                                      *)
(***************************************************************************)
\* The characters of the readings before each.
Before == <<0, 4, 12, 20, 28, 36, 44, 52, 68, 72, 76, 80, 84, 88, 92, 98, 104, 110, 116,
    120, 124, 128, 132, 136, 140, 144, 148, 154, 162, 266, 274, 282, 290, 296, 304, 310,
    318, 324, 332, 338, 346>>

LEMMA Widths ==
    /\ Len(FreezeWidths) = 40
    /\ \A i \in 1..40 : FreezeWidths[i] \in Nat /\ FreezeWidths[i] >= 2
    /\ \A i \in 1..41 : Before[i] \in Nat
    /\ \A i \in 1..40 : Before[i + 1] = Before[i] + FreezeWidths[i]
BY DEF FreezeWidths, Before

(***************************************************************************)
(* Where the commands of a list of writes start.                           *)
(***************************************************************************)
StartOf(codes, k) ==
    1 + FoldLeft(LAMBDA n, c : n + 4 + Field(c), 0, SubSeq(codes, 1, k - 1))

\* The lengths of the first commands, from none to all of them.
Lengths(codes, m, sums) ==
    /\ sums \in [0..m -> Nat]
    /\ sums[0] = 0
    /\ \A k \in 1..m : sums[k] = sums[k - 1] + 4 + Field(codes[k])

LEMMA FieldsAreNumbers == \A c \in WriteCodes : Field(c) \in Nat
BY DEF WriteCodes, Field, Written

LEMMA CommandByCommand ==
    ASSUME NEW m \in Nat, NEW codes \in [1..m -> WriteCodes]
    PROVE  \E sums : /\ Lengths(codes, m, sums)
                     /\ FoldLeft(LAMBDA n, c : n + 4 + Field(c), 0, codes) = sums[m]
<1> DEFINE step == [a \in Nat |-> [k \in 1..m |-> a + 4 + Field(codes[k])]]
<1>1. step \in [Nat -> [1..m -> Nat]]
  <2>1. \A a \in Nat, k \in 1..m : a + 4 + Field(codes[k]) \in Nat
    BY FieldsAreNumbers
  <2>2. QED
    BY <2>1
<1>2. \A a \in Nat, k \in 1..m : step[a][k] = a + 4 + Field(codes[k])
  OBVIOUS
<1> HIDE DEF step
<1>3. PICK f \in [SUBSET (1..m) -> Nat] : Iterates(f, 0, step, m)
  <2>1. 0 \in Nat
    OBVIOUS
  <2>2. QED
    BY <1>1, <2>1, FoldExists, Zenon
<1> DEFINE IsFold(it) == it = [s \in SUBSET (DOMAIN codes) |->
               IF s = {} THEN 0 ELSE it[s \ {Max(s)}] + 4 + Field(codes[Max(s)])]
           it == CHOOSE g : IsFold(g)
<1>4. IsFold(f)
  <2>1. DOMAIN codes = 1..m
    OBVIOUS
  <2>2. \A s \in SUBSET (1..m) :
            f[s] = IF s = {} THEN 0 ELSE f[s \ {Max(s)}] + 4 + Field(codes[Max(s)])
    <3> SUFFICES ASSUME NEW s \in SUBSET (1..m)
                 PROVE  f[s] = IF s = {} THEN 0
                               ELSE f[s \ {Max(s)}] + 4 + Field(codes[Max(s)])
      OBVIOUS
    <3>1. f[s] = IF s = {} THEN 0 ELSE step[f[s \ {Max(s)}]][Max(s)]
      BY <1>3 DEF Iterates
    <3>2. s # {} => Max(s) \in 1..m /\ f[s \ {Max(s)}] \in Nat
      BY GreatestPosition
    <3>3. QED
      BY <1>2, <3>1, <3>2
  <2>3. QED
    BY <2>1, <2>2
<1>5. IsFold(it)
  BY <1>4, Zenon
<1>6. FoldLeft(LAMBDA n, c : n + 4 + Field(c), 0, codes) = it[DOMAIN codes]
  BY Zenon DEF FoldLeft, MapThenFoldSet
<1> HIDE DEF it
<1>7. it = [s \in SUBSET (1..m) |->
                IF s = {} THEN 0 ELSE it[s \ {Max(s)}] + 4 + Field(codes[Max(s)])]
  BY <1>5
<1>8. it[DOMAIN codes] = it[1..m]
  OBVIOUS
<1> HIDE DEF IsFold
<1> DEFINE sums == [k \in 0..m |-> it[1..k]]
<1>9. sums[0] = 0
  <2>1. 1..0 = {} /\ 0 \in 0..m
    OBVIOUS
  <2>2. it[{}] = 0
    BY <1>7
  <2>3. QED
    BY <2>1, <2>2
<1>10. ASSUME NEW k \in 1..m PROVE sums[k] = sums[k - 1] + 4 + Field(codes[k])
  <2>1. 1..k \in SUBSET (1..m) /\ k \in 1..k /\ k - 1 \in 0..m /\ k \in 0..m
    OBVIOUS
  <2>2. Max(1..k) = k
    <3>1. k \in Nat /\ 1..k \in SUBSET (1..k)
      OBVIOUS
    <3>2. QED
      BY <2>1, <3>1, GreatestPosition, Zenon
  <2>3. (1..k) \ {k} = 1..(k - 1)
    OBVIOUS
  <2>4. it[1..k] = it[1..(k - 1)] + 4 + Field(codes[k])
    BY <1>7, <2>1, <2>2, <2>3
  <2>5. QED
    BY <2>1, <2>4
<1>11. DOMAIN sums = 0..m /\ sums = [k \in 0..m |-> sums[k]] /\ sums[m] = it[1..m]
  OBVIOUS
<1> HIDE DEF sums
<1> DEFINE Wrong == {k \in 0..m : sums[k] \notin Nat}
<1>12. Wrong = {}
  <2> SUFFICES ASSUME Wrong # {} PROVE FALSE
    OBVIOUS
  <2>1. PICK k \in Wrong : \A j \in Wrong : j >= k
    BY LeastNumber, Wrong \in SUBSET Nat, Zenon
  <2>2. k # 0
    BY <1>9
  <2>3. k \in 1..m /\ k - 1 \in 0..m /\ k - 1 \notin Wrong
    BY <2>1, <2>2
  <2>4. Field(codes[k]) \in Nat
    BY <2>3, FieldsAreNumbers
  <2>5. sums[k] \in Nat
    BY <1>10, <2>3, <2>4
  <2>6. QED
    BY <2>5
<1>13. Lengths(codes, m, sums)
  BY <1>9, <1>10, <1>11, <1>12 DEF Lengths
<1>14. FoldLeft(LAMBDA n, c : n + 4 + Field(c), 0, codes) = sums[m]
  BY <1>6, <1>8, <1>11, Zenon
<1>15. QED
  BY <1>13, <1>14, Zenon

\* Each command begins behind the one before it.
LEMMA Starts ==
    ASSUME NEW codes \in Seq(WriteCodes)
    PROVE  \A k \in 1..Len(codes) :
               /\ StartOf(codes, k) \in Nat \ {0}
               /\ \A i \in 1..(k - 1) : StartOf(codes, k) >= StartOf(codes, i) + 4 + Field(codes[i])
<1> DEFINE m == Len(codes)
<1>1. m \in Nat /\ codes \in [1..m -> WriteCodes]
  BY LenProperties
<1>2. PICK S : Lengths(codes, m, S)
  BY <1>1, CommandByCommand, Zenon
<1> HIDE DEF m
<1>3. ASSUME NEW k \in 1..m PROVE StartOf(codes, k) = 1 + S[k - 1]
  <2> DEFINE part == SubSeq(codes, 1, k - 1)
             p == k - 1
  <2>1. p \in Nat /\ p \in 0..m
    BY <1>1
  <2>2. part \in [1..p -> WriteCodes] /\ \A i \in 1..p : part[i] = codes[i]
    <3>1. part = [i \in 1..p |-> codes[i]]
      BY <1>1, <2>1
    <3>2. \A i \in 1..p : codes[i] \in WriteCodes
      BY <1>1, <2>1
    <3> HIDE DEF part, p
    <3>3. QED
      BY <3>1, <3>2
  <2> HIDE DEF part, p
  <2>3. PICK P : /\ Lengths(part, p, P)
                 /\ FoldLeft(LAMBDA n, c : n + 4 + Field(c), 0, part) = P[p]
    BY <2>1, <2>2, CommandByCommand, Zenon
  <2> DEFINE Wrong == {i \in 0..p : P[i] # S[i]}
  <2>4. Wrong = {}
    <3> SUFFICES ASSUME Wrong # {} PROVE FALSE
      OBVIOUS
    <3>1. PICK i \in Wrong : \A j \in Wrong : j >= i
      BY LeastNumber, Wrong \in SUBSET Nat, Zenon
    <3>2. i # 0
      BY <1>2, <2>3, <3>1 DEF Lengths
    <3>3. i \in 1..p /\ i - 1 \in 0..p /\ i - 1 \notin Wrong
      BY <2>1, <3>1, <3>2
    <3>4. P[i] = P[i - 1] + 4 + Field(part[i])
      BY <2>3, <3>3 DEF Lengths
    <3>5. S[i] = S[i - 1] + 4 + Field(codes[i])
      BY <1>1, <1>2, <2>1, <3>3 DEF Lengths
    <3>6. QED
      BY <2>2, <3>3, <3>4, <3>5
  <2>5. P[p] = S[p]
    BY <2>1, <2>4
  <2>6. StartOf(codes, k) = 1 + FoldLeft(LAMBDA n, c : n + 4 + Field(c), 0, part)
    BY Zenon DEF StartOf, part
  <2>7. StartOf(codes, k) = 1 + P[p]
    BY <2>3, <2>6, Zenon
  <2>8. QED
    BY <2>5, <2>7 DEF p
<1>4. \A k \in 1..m : Field(codes[k]) \in Nat
  BY <1>1, FieldsAreNumbers
<1>5. ASSUME NEW i \in 1..m PROVE \A k \in i..m : S[k] >= S[i - 1] + 4 + Field(codes[i])
  <2> DEFINE Wrong == {k \in i..m : ~(S[k] >= S[i - 1] + 4 + Field(codes[i]))}
  <2> SUFFICES ASSUME Wrong # {} PROVE FALSE
    OBVIOUS
  <2>1. PICK k \in Wrong : \A j \in Wrong : j >= k
    BY LeastNumber, Wrong \in SUBSET Nat, Zenon
  <2>2. S[i] = S[i - 1] + 4 + Field(codes[i]) /\ S[i] \in Nat
    BY <1>1, <1>2 DEF Lengths
  <2>3. k # i
    BY <2>1, <2>2
  <2>4. k - 1 \in i..m /\ k - 1 \notin Wrong /\ k \in 1..m
    <3>1. k \in i..m /\ k \in Int
      BY <2>1
    <3>2. k - 1 \in i..m /\ k \in 1..m
      BY <1>1, <2>3, <3>1
    <3>3. ~(k - 1 >= k)
      BY <3>1
    <3>4. QED
      BY <2>1, <3>2, <3>3, Zenon
  <2>5. S[k] = S[k - 1] + 4 + Field(codes[k]) /\ S[k - 1] \in Nat /\ S[i - 1] \in Nat
    <3>1. k - 1 \in 0..m /\ i - 1 \in 0..m
      BY <1>1, <2>4
    <3>2. QED
      BY <1>2, <2>4, <3>1 DEF Lengths
  <2>6. QED
    BY <1>4, <2>1, <2>4, <2>5
<1>6. ASSUME NEW k \in 1..m
      PROVE  /\ StartOf(codes, k) \in Nat \ {0}
             /\ \A i \in 1..(k - 1) :
                    StartOf(codes, k) >= StartOf(codes, i) + 4 + Field(codes[i])
  <2>1. k - 1 \in 0..m /\ S[k - 1] \in Nat
    BY <1>1, <1>2 DEF Lengths
  <2>2. StartOf(codes, k) \in Nat \ {0}
    BY <1>3, <2>1
  <2>3. ASSUME NEW i \in 1..(k - 1)
        PROVE  StartOf(codes, k) >= StartOf(codes, i) + 4 + Field(codes[i])
    <3>1. i \in 1..m /\ k - 1 \in i..m /\ i - 1 \in 0..m
      BY <1>1
    <3>2. S[k - 1] >= S[i - 1] + 4 + Field(codes[i])
      BY <1>5, <3>1
    <3>3. S[i - 1] \in Nat /\ Field(codes[i]) \in Nat
      BY <1>2, <1>4, <3>1 DEF Lengths
    <3>4. QED
      BY <1>3, <2>1, <3>1, <3>2, <3>3
  <2>4. QED
    BY <2>2, <2>3
<1>7. QED
  BY <1>6 DEF m

(***************************************************************************)
(* The text that is collected.                                             *)
(***************************************************************************)
\* The first commands, in order.
Upto(n) == [k \in 1..n |-> k]

Quiet == list = <<>> /\ at = 1 /\ chars = 0 /\ tried = <<>>

\* The loop has tried the first j commands, and stands before the next.
Scanning ==
    /\ list \in Seq(WriteCodes) /\ Len(list) <= ListLength
    /\ \E j \in 0..Len(list) :
          /\ tried = Upto(j) /\ chars \in 0..(4 + 6 * j)
          /\ \A k \in 1..Len(list) : StartOf(list, k) >= at <=> k > j

Collecting ==
    /\ list \in Seq(Readings) /\ Len(list) <= ListLength
    /\ at \in 1..(Len(list) + 1)
    /\ tried = Upto(at - 1) /\ chars \in 0..(12 * at)

Recording ==
    /\ list = <<>> /\ tried = <<>>
    /\ at \in 1..41 /\ chars \in 0..Before[at]
    /\ gap \/ chars = Before[at]

Lengthy == 0..(ByteValues * ByteValues - 1)

TextInv ==
    /\ at \in Nat /\ chars \in Nat /\ foreign \in BOOLEAN /\ gap \in BOOLEAN
    /\ answer \in [announced : Lengthy, chars : Nat, right : BOOLEAN]
    /\ pc \in {"idle", "check", "direct", "write", "saved", "syn_time", "read_time"} => Quiet
    /\ pc \in {"set", "read"} => list = <<>> /\ tried = <<>>
    /\ pc = "scan" => Scanning
    /\ pc = "collect" => Collecting
    /\ pc = "freeze" => Recording /\ at \in 1..40
    /\ pc = "stamp" => Recording /\ at = 41
    /\ pc = "answer" => DOMAIN list \in {1..n : n \in Nat} /\ tried = [k \in DOMAIN list |-> k]

LEMMA NoCommands ==
    /\ DOMAIN <<>> = 1..0 /\ <<>> = Upto(0) /\ <<>> = [k \in DOMAIN <<>> |-> k]
    /\ \A S : <<>> \in Seq(S)
    /\ Len(<<>>) = 0
  BY DEF Upto

\* Lengths that are announced.
LEMMA Announceable ==
    /\ {0, 5, 16, 18, 197} \subseteq Lengthy
    /\ \A n \in 0..(12 + 12 * ListLength) : n \div 2 \in Lengthy
<1> DEFINE q == ByteValues * ByteValues
<1>1. q \in Nat /\ q > 197 /\ 6 + 6 * ListLength < q /\ ListLength \in Nat
  <2>1. ByteValues \in Nat /\ ByteValues > 53 /\ 6 + 6 * ListLength < q /\ ListLength \in Nat
    BY BytesAssumption, ListAssumption
  <2>2. q > 197
    BY <2>1
  <2>3. QED
    BY <2>1, <2>2
<1> HIDE DEF q
<1>2. \A n \in 0..(12 + 12 * ListLength) : n \div 2 \in 0..(q - 1)
  BY <1>1
<1>3. QED
  BY <1>1, <1>2 DEF Lengthy, q

\* Nothing is under way.
LEMMA TextResting == ASSUME Rest PROVE TextInv'
BY Announceable DEF Rest, NoAnswer, TextInv, Quiet

\* Steps that leave the text alone.
LEMMA TextUnchanged ==
    ASSUME TextInv, UNCHANGED <<text, answer>>,
           \/ pc' = pc
           \/ pc' \in {"check", "direct", "write", "saved", "syn_time", "read_time",
                       "set", "read", "freeze"}
              /\ pc \in {"idle", "check", "syn_time", "read_time"}
    PROVE  TextInv'
<1>1. UNCHANGED <<list, at, chars, foreign, gap, tried, answer>>
  BY DEF text
<1>2. Quiet => Recording /\ at \in 1..40
  BY DEF Quiet, Recording, Before
<1>3. /\ Quiet' <=> Quiet
      /\ Scanning' <=> Scanning
      /\ Collecting' <=> Collecting
      /\ Recording' <=> Recording
  BY <1>1 DEF Quiet, Scanning, Collecting, Recording
<1>4. CASE pc' = pc
  BY <1>1, <1>3, <1>4 DEF TextInv
<1>5. CASE pc' # pc
  BY <1>1, <1>2, <1>3, <1>5 DEF TextInv, Quiet
<1>6. QED
  BY <1>4, <1>5

LEMMA TextFrames ==
    ASSUME TextInv, Receive \/ Check \/ Tick \/ SynTime \/ ReadTime \/ FreezeBegins
    PROVE  TextInv'
<1>1. CASE Rest
  BY <1>1, TextResting
<1>2. CASE ~Rest /\ ~Check
  <2>1. /\ UNCHANGED <<text, answer>>
        /\ pc' = pc \/ /\ pc' \in {"check", "set", "read", "freeze"}
                       /\ pc \in {"idle", "syn_time", "read_time"}
    BY <1>2 DEF Receive, Tick, SynTime, ReadTime, FreezeBegins
  <2>2. QED
    BY <2>1, TextUnchanged
<1>3. CASE ~Rest /\ Check
  <2>1. /\ UNCHANGED <<text, answer>> /\ pc = "check" /\ pc' # "idle"
        /\ pc' = Handler(At(line, ControlAt))
    BY <1>3 DEF Check
  <2>2. pc' \in {"direct", "write", "saved", "syn_time", "read_time"}
    BY <2>1 DEF Handler
  <2>3. QED
    BY <2>1, <2>2, TextUnchanged
<1>4. QED
  BY <1>1, <1>2, <1>3

\* An answer is made.
LEMMA TextReplied ==
    ASSUME TextInv, NEW a \in Lengthy, NEW c \in Nat, NEW r \in BOOLEAN, Reply(a, c, r),
           UNCHANGED <<list, at, chars, foreign, gap, tried>>,
           DOMAIN list \in {1..n : n \in Nat}, tried = [k \in DOMAIN list |-> k]
    PROVE  TextInv'
BY DEF Reply, TextInv

LEMMA TextClock == ASSUME TextInv, SetRegister \/ LoadDigit PROVE TextInv'
<1>1. /\ at \in Nat /\ list = <<>> /\ tried = <<>> /\ pc \in {"set", "read"}
      /\ UNCHANGED <<list, chars, foreign, gap, tried>>
  BY DEF SetRegister, LoadDigit, TextInv
<1>2. CASE pc' = pc
  <2>1. at' = at + 1 /\ answer' = answer
    BY <1>1, <1>2 DEF SetRegister, LoadDigit, Reply
  <2>2. QED
    BY <1>1, <1>2, <2>1 DEF TextInv
<1>3. CASE pc' # pc
  <2>1. at' = at /\ (Reply(5, 10, TRUE) \/ Reply(16, 20 + 12, TRUE))
    BY <1>3 DEF SetRegister, LoadDigit
  <2>2. DOMAIN list \in {1..n : n \in Nat} /\ tried = [k \in DOMAIN list |-> k]
    BY <1>1, NoCommands
  <2>3. /\ 5 \in Lengthy /\ 16 \in Lengthy /\ 10 \in Nat /\ 20 + 12 \in Nat
        /\ TRUE \in BOOLEAN
    BY Announceable
  <2>4. UNCHANGED <<list, at, chars, foreign, gap, tried>>
    BY <1>1, <2>1
  <2>5. CASE Reply(5, 10, TRUE)
    BY <2>2, <2>3, <2>4, <2>5, TextReplied, Zenon
  <2>6. CASE Reply(16, 20 + 12, TRUE)
    BY <2>2, <2>3, <2>4, <2>6, TextReplied, Zenon
  <2>7. QED
    BY <2>1, <2>5, <2>6
<1>4. QED
  BY <1>2, <1>3

LEMMA TextSaved == ASSUME TextInv, ReadingDataSave PROVE TextInv'
<1>1. /\ list = <<>> /\ tried = <<>>
      /\ UNCHANGED <<list, at, chars, foreign, gap, tried>>
      /\ Reply(197, 36 + 2 * 179, TRUE) \/ Reply(18, 36, TRUE)
  BY DEF ReadingDataSave, TextInv, Quiet, text, RecordBytes
<1>2. DOMAIN list \in {1..n : n \in Nat} /\ tried = [k \in DOMAIN list |-> k]
  BY <1>1, NoCommands
<1>3. /\ 197 \in Lengthy /\ 18 \in Lengthy /\ 36 + 2 * 179 \in Nat /\ 36 \in Nat
      /\ TRUE \in BOOLEAN
  BY Announceable
<1>4. CASE Reply(197, 36 + 2 * 179, TRUE)
  BY <1>1, <1>2, <1>3, <1>4, TextReplied, Zenon
<1>5. CASE Reply(18, 36, TRUE)
  BY <1>1, <1>2, <1>3, <1>5, TextReplied, Zenon
<1>6. QED
  BY <1>1, <1>4, <1>5

\* A list of commands.
LEMMA ListsAreSequences ==
    \A S : \A l \in Lists(S) : l \in Seq(S) /\ Len(l) <= ListLength
<1> TAKE S
<1> TAKE l \in Lists(S)
<1>1. PICK n \in 0..ListLength : l \in [1..n -> S]
  BY DEF Lists
<1>2. n \in Nat
  BY <1>1, ListAssumption
<1>3. l \in Seq(S)
  BY <1>1, <1>2, SeqDef
<1>4. Len(l) = n
  BY <1>1, <1>2, <1>3, LenProperties
<1>5. QED
  BY <1>1, <1>3, <1>4, ListAssumption

LEMMA TextLists == ASSUME TextInv, WriteMode \/ ReadingDirect PROVE TextInv'
<1>1. CASE Rest
  BY <1>1, TextResting
<1>2. CASE BeginList("scan", WriteCodes, 4)
  <2>1. /\ pc' = "scan" /\ list' \in Lists(WriteCodes) /\ chars' = 4
        /\ at' = 1 /\ tried' = Upto(0) /\ UNCHANGED <<foreign, gap, answer>>
    BY <1>2, NoCommands DEF BeginList, TextInv, Quiet, WriteMode, ReadingDirect
  <2>2. list' \in Seq(WriteCodes) /\ Len(list') <= ListLength /\ Len(list') \in Nat
    BY <2>1, ListsAreSequences
  <2>3. \A k \in 1..Len(list') : StartOf(list', k) >= 1
    <3> DEFINE codes == list'
    <3>1. \A k \in 1..Len(codes) :
              /\ StartOf(codes, k) \in Nat \ {0}
              /\ \A i \in 1..(k - 1) :
                    StartOf(codes, k) >= StartOf(codes, i) + 4 + Field(codes[i])
      BY <2>2, Starts, Zenon
    <3>2. QED
      BY <3>1
  <2>4. Scanning'
    BY <2>1, <2>2, <2>3 DEF Scanning
  <2>5. QED
    BY <2>1, <2>4 DEF TextInv
<1>3. CASE BeginList("collect", Readings, 12)
  <2>1. /\ pc' = "collect" /\ list' \in Lists(Readings) /\ chars' = 12
        /\ at' = 1 /\ tried' = Upto(at' - 1) /\ UNCHANGED <<foreign, gap, answer>>
    BY <1>3, NoCommands DEF BeginList, TextInv, Quiet, WriteMode, ReadingDirect
  <2>2. list' \in Seq(Readings) /\ Len(list') <= ListLength /\ Len(list') \in Nat
    BY <2>1, ListsAreSequences
  <2>3. Collecting'
    BY <2>1, <2>2 DEF Collecting
  <2>4. QED
    BY <2>1, <2>3 DEF TextInv
<1>4. QED
  BY <1>1, <1>2, <1>3 DEF WriteMode, ReadingDirect

\* The loop of writes takes the next command, or ends.
LEMMA TextWrite == ASSUME TextInv, WriteData PROVE TextInv'
<1> DEFINE coming == {k \in DOMAIN list : Start(k) >= at}
           n == Len(list)
           next == Min(coming)
<1>1. /\ pc = "scan" /\ Scanning /\ coming # {}
      /\ at' = Start(next) + Field(list[next]) + 1
      /\ tried' = Append(tried, next)
      /\ chars' \in {chars, chars + 6}
      /\ UNCHANGED <<pc, list, foreign, gap, answer>>
  BY DEF WriteData, TextInv
<1>2. PICK j \in 0..n :
          /\ tried = Upto(j) /\ chars \in 0..(4 + 6 * j)
          /\ \A k \in 1..n : StartOf(list, k) >= at <=> k > j
  BY <1>1 DEF Scanning
<1>3. list \in Seq(WriteCodes) /\ n \in Nat /\ DOMAIN list = 1..n /\ n <= ListLength
      /\ list \in [1..n -> WriteCodes]
  BY <1>1, LenProperties DEF Scanning
<1>4. \A k : Start(k) = StartOf(list, k)
  BY Zenon DEF Start, StartOf
<1> HIDE DEF n
<1>5. coming = {k \in 1..n : k > j}
  BY <1>2, <1>3, <1>4
<1>6. j + 1 \in 1..n /\ next = j + 1
  <2>1. j + 1 \in 1..n
    BY <1>1, <1>2, <1>3, <1>5
  <2>2. j + 1 \in coming /\ \A k \in coming : j + 1 <= k
    BY <1>2, <1>3, <1>5, <2>1
  <2>3. coming \subseteq Int
    BY <1>5
  <2> HIDE DEF coming
  <2>4. next \in coming /\ \A k \in coming : next <= k
    BY <2>2, Zenon DEF Min
  <2>5. next <= j + 1 /\ j + 1 <= next /\ next \in Int /\ j + 1 \in Int
    BY <2>2, <2>3, <2>4
  <2>6. QED
    BY <2>1, <2>5
<1> HIDE DEF coming, next
<1> DEFINE S(k) == StartOf(list, k)
<1>7. /\ \A k \in 1..n : /\ S(k) \in Nat \ {0}
                         /\ \A i \in 1..(k - 1) : S(k) >= S(i) + 4 + Field(list[i])
      /\ \A k \in 1..n : Field(list[k]) \in Nat
  BY <1>3, Starts, FieldsAreNumbers DEF n
<1>8. at' = S(j + 1) + Field(list[j + 1]) + 1
  BY <1>1, <1>4, <1>6
<1> HIDE DEF S
<1>9. at' \in Nat
  BY <1>6, <1>7, <1>8
<1>10. ASSUME NEW k \in 1..n PROVE S(k) >= at' <=> k > j + 1
  <2>1. CASE k > j + 1
    <3>1. S(k) >= S(j + 1) + 4 + Field(list[j + 1])
      BY <1>2, <1>6, <1>7, <2>1
    <3>2. QED
      BY <1>6, <1>7, <1>8, <2>1, <3>1
  <2>2. CASE k = j + 1
    BY <1>6, <1>7, <1>8, <2>2
  <2>3. CASE k < j + 1
    <3>1. S(j + 1) >= S(k) + 4 + Field(list[k])
      BY <1>6, <1>7, <2>3
    <3>2. QED
      BY <1>2, <1>6, <1>7, <1>8, <2>3, <3>1
  <2>4. QED
    BY <1>2, <2>1, <2>2, <2>3
<1>11. tried' = Upto(j + 1)
  BY <1>1, <1>2, <1>6 DEF Upto
<1>12. chars' \in 0..(4 + 6 * (j + 1))
  BY <1>1, <1>2
<1>13. Scanning'
  <2>1. list' = list /\ Len(list') = n /\ j + 1 \in 0..n
    BY <1>1, <1>2, <1>6 DEF n
  <2>2. \A k \in 1..n : StartOf(list', k) >= at' <=> k > j + 1
    BY <1>10, <2>1 DEF S
  <2>3. QED
    BY <1>3, <1>11, <1>12, <2>1, <2>2 DEF Scanning
<1>14. QED
  BY <1>1, <1>9, <1>12, <1>13 DEF TextInv

\* The next reading of a list.
LEMMA TextCollect == ASSUME TextInv, Collect PROVE TextInv'
<1> DEFINE width == list[at]
           n == Len(list)
<1>1. /\ pc = "collect" /\ pc' = pc /\ at <= n /\ at' = at + 1
      /\ Collecting /\ ReadDataMeter(width, 4) /\ tried' = Append(tried, at)
      /\ UNCHANGED <<list, answer>> /\ foreign \in BOOLEAN /\ gap \in BOOLEAN
  BY DEF Collect, TextInv
<1>2. /\ list \in [1..n -> Readings] /\ n \in Nat /\ at \in 1..n
      /\ tried = Upto(at - 1) /\ chars \in 0..(12 * at) /\ n <= ListLength
      /\ list \in Seq(Readings)
  BY <1>1, LenProperties DEF Collecting
<1>3. width \in {0, 4, 8}
  BY <1>2 DEF Readings
<1>4. /\ chars' = chars \/ \E k \in (width - 2)..width : width > 0 /\ chars' = chars + 4 + k
      /\ gap' \in BOOLEAN /\ foreign' \in BOOLEAN
  BY <1>1 DEF ReadDataMeter
<1> HIDE DEF width, n
<1>5. chars' \in 0..(12 * at')
  BY <1>1, <1>2, <1>3, <1>4
<1>6. tried' = Upto(at' - 1)
  BY <1>1, <1>2 DEF Upto
<1>7. at' \in 1..(n + 1)
  BY <1>1, <1>2
<1>8. Collecting'
  BY <1>1, <1>2, <1>5, <1>6, <1>7 DEF Collecting, n
<1>9. QED
  BY <1>1, <1>4, <1>5, <1>7, <1>8 DEF TextInv

LEMMA TextFinish == ASSUME TextInv, FinishList PROVE TextInv'
<1> DEFINE r == chars % 2 = 0 /\ ~foreign
           n == Len(list)
<1>1. /\ Reply(chars \div 2, chars, r) /\ chars \in Nat
      /\ UNCHANGED <<list, at, chars, foreign, gap, tried>>
      /\ r \in BOOLEAN
  BY DEF FinishList, TextInv, text
<1>2. n \in Nat /\ DOMAIN list = 1..n /\ tried = Upto(n) /\ chars \in 0..(12 + 12 * ListLength)
  <2>1. CASE pc = "scan" /\ \A k \in DOMAIN list : Start(k) < at
    <3>1. Scanning /\ list \in Seq(WriteCodes) /\ at \in Nat
      BY <2>1 DEF TextInv, Scanning
    <3>2. n \in Nat /\ DOMAIN list = 1..n /\ n <= ListLength
      BY <3>1, LenProperties DEF Scanning
    <3>3. PICK j \in 0..n :
              /\ tried = Upto(j) /\ chars \in 0..(4 + 6 * j)
              /\ \A k \in 1..n : StartOf(list, k) >= at <=> k > j
      BY <3>1 DEF Scanning
    <3>4. \A k : Start(k) = StartOf(list, k)
      BY Zenon DEF Start, StartOf
    <3>5. \A k \in 1..n : StartOf(list, k) \in Nat
      BY <3>1, Starts
    <3> HIDE DEF n
    <3>6. j = n
      <4>1. ASSUME n > j PROVE FALSE
        <5>1. n \in 1..n
          BY <3>2, <3>3, <4>1
        <5>2. StartOf(list, n) >= at /\ StartOf(list, n) < at /\ StartOf(list, n) \in Nat
          BY <2>1, <3>2, <3>3, <3>4, <3>5, <4>1, <5>1
        <5>3. QED
          BY <3>1, <5>2
      <4>2. QED
        BY <3>2, <3>3, <4>1
    <3>7. chars \in 0..(12 + 12 * ListLength)
      BY <3>2, <3>3, <3>6, ListAssumption
    <3>8. QED
      BY <3>2, <3>3, <3>6, <3>7
  <2>2. CASE pc = "collect" /\ at > n
    <3>1. Collecting /\ list \in Seq(Readings)
      BY <2>2 DEF TextInv, Collecting
    <3>2. n \in Nat /\ DOMAIN list = 1..n /\ n <= ListLength
      BY <3>1, LenProperties DEF Collecting
    <3>3. at \in 1..(n + 1) /\ tried = Upto(at - 1) /\ chars \in 0..(12 * at)
      BY <3>1 DEF Collecting
    <3> HIDE DEF n
    <3>4. at - 1 = n /\ chars \in 0..(12 + 12 * ListLength)
      BY <2>2, <3>2, <3>3, ListAssumption DEF n
    <3>5. QED
      BY <3>2, <3>3, <3>4
  <2>3. QED
    BY <2>1, <2>2 DEF FinishList
<1> HIDE DEF r, n
<1>3. chars \div 2 \in Lengthy
  BY <1>2, Announceable
<1>4. DOMAIN list \in {1..k : k \in Nat} /\ tried = [k \in DOMAIN list |-> k]
  BY <1>2 DEF Upto
<1>5. QED
  BY <1>1, <1>3, <1>4, TextReplied, Zenon

\* The next reading of the record.
LEMMA TextFreeze == ASSUME TextInv, FreezeReads PROVE TextInv'
<1> DEFINE width == FreezeWidths[at]
<1>1. /\ pc = "freeze" /\ at' = at + 1 /\ Recording /\ at \in 1..40
      /\ ReadDataMeter(width, 0) /\ UNCHANGED <<list, tried, answer>>
      /\ foreign \in BOOLEAN /\ gap \in BOOLEAN
      /\ pc' = IF at < 40 THEN "freeze" ELSE "stamp"
  BY Widths DEF FreezeReads, TextInv
<1>2. /\ width \in Nat /\ width >= 2 /\ Before[at] \in Nat
      /\ Before[at'] = Before[at] + width
      /\ chars \in 0..Before[at] /\ (gap \/ chars = Before[at])
  <2>1. /\ width \in Nat /\ width >= 2 /\ Before[at + 1] = Before[at] + width
        /\ Before[at] \in Nat
    BY <1>1, Widths
  <2>2. QED
    BY <1>1, <2>1 DEF Recording
<1>3. \/ /\ gap' = (gap \/ width > 0) /\ chars' = chars /\ foreign' = foreign
      \/ /\ \E n \in (width - 2)..width :
               chars' = chars + 0 + n /\ gap' = (gap \/ n # width)
         /\ foreign' \in {foreign, TRUE}
  BY <1>1 DEF ReadDataMeter
<1> HIDE DEF width
<1>4. gap' \in BOOLEAN /\ foreign' \in BOOLEAN
  BY <1>1, <1>3
<1>5. chars' \in 0..Before[at'] /\ (gap' \/ chars' = Before[at'])
  <2>1. CASE gap' = (gap \/ width > 0) /\ chars' = chars
    <3>1. width > 0
      BY <1>2
    <3>2. gap'
      BY <2>1, <3>1, Zenon
    <3>3. chars' \in 0..Before[at']
      BY <1>2, <2>1
    <3>4. QED
      BY <3>2, <3>3
  <2>2. ASSUME NEW n \in (width - 2)..width, chars' = chars + 0 + n, gap' = (gap \/ n # width)
        PROVE  chars' \in 0..Before[at'] /\ (gap' \/ chars' = Before[at'])
    <3>1. n \in Nat
      BY <1>2, <2>2
    <3>2. chars' = chars + n
      BY <1>2, <2>2, <3>1
    <3>3. chars' \in 0..Before[at']
      BY <1>2, <2>2, <3>1, <3>2
    <3>4. CASE gap
      BY <2>2, <3>3, <3>4
    <3>5. CASE ~gap /\ n # width
      BY <2>2, <3>3, <3>5
    <3>6. CASE ~gap /\ n = width
      BY <1>2, <3>2, <3>3, <3>6
    <3>7. QED
      BY <3>4, <3>5, <3>6
  <2>3. QED
    BY <1>3, <2>1, <2>2
<1>6. at' \in 2..41 /\ (at < 40 => at' \in 1..40) /\ (~(at < 40) => at' = 41)
  BY <1>1
<1>7. Recording'
  BY <1>1, <1>5, <1>6 DEF Recording
<1>8. chars' \in Nat /\ at' \in Nat
  <2>1. \A i \in 1..41 : Before[i] \in Nat
    BY DEF Before
  <2>2. QED
    BY <1>5, <1>6, <2>1
<1>9. QED
  BY <1>1, <1>4, <1>6, <1>7, <1>8 DEF TextInv

LEMMA TextAlways == Spec => []TextInv
<1>1. Init => TextInv
  <2> SUFFICES ASSUME Init PROVE TextInv
    OBVIOUS
  <2>1. answer \in [announced : Lengthy, chars : Nat, right : BOOLEAN]
    BY Announceable DEF Init, NoAnswer
  <2>2. QED
    BY <2>1 DEF Init, TextInv, Quiet
<1>2. TextInv /\ [Next]_vars => TextInv'
  <2> SUFFICES ASSUME TextInv, [Next]_vars PROVE TextInv'
    OBVIOUS
  <2>1. CASE UNCHANGED vars
    <3>1. UNCHANGED <<text, answer>> /\ pc' = pc
      BY <2>1 DEF vars
    <3>2. QED
      BY <3>1, TextUnchanged
  <2>2. CASE Send \/ ApnOverrun \/ FreezeEnds
    BY <2>2, TextResting DEF Send, ApnOverrun, FreezeEnds
  <2>3. QED
    BY <2>1, <2>2, TextFrames, TextClock, TextSaved, TextLists, TextWrite, TextCollect,
       TextFinish, TextFreeze DEF Next
<1>3. QED
  BY <1>1, <1>2, PTL DEF Spec

\* Every command of a frame is sent to the meter once and in order, whatever the
\* length of the fields before it.
THEOREM CommandsTried == Spec => []EveryCommandTried
<1>1. TextInv => EveryCommandTried
  BY DEF TextInv, EveryCommandTried
<1>2. QED
  BY <1>1, TextAlways, PTL

\* The readings of an hour fit the text and the page they are put into, and when
\* none is missing the record has just the length that read_freeze_frame() returns.
THEOREM RecordsFit == Spec => []RecordFits
<1>1. TextInv => RecordFits
  <2> SUFFICES ASSUME TextInv, pc = "stamp" PROVE RecordFits
    BY DEF RecordFits
  <2>1. at = 41 /\ Recording /\ Before[41] = 346
    BY DEF TextInv, Before
  <2>2. chars \in 0..346 /\ (gap \/ chars = 346)
    BY <2>1 DEF Recording
  <2>3. QED
    BY <2>2 DEF RecordFits, RecordBytes
<1>2. QED
  BY <1>1, TextAlways, PTL

(***************************************************************************)
(* Types.                                                                  *)
(***************************************************************************)
Steps == {"idle", "check", "direct", "write", "saved", "syn_time", "read_time", "set",
          "read", "scan", "collect", "freeze", "stamp", "answer"}

Top == Max(Range(Greatest))

ClockTypes ==
    /\ pc \in Steps
    /\ clock \in Clocks /\ due \in Clocks
    /\ time \in Seq(0..Top)
    /\ pc = "set" => time \in Clocks

\* What it takes to be shown by the clock.
LEMMA ClockRange ==
    /\ Top \in Nat
    /\ \A t : t \in Clocks <=> /\ t \in [Registers -> Nat]
                               /\ \A r \in Registers : t[r] <= Greatest[r]
    /\ \A t \in Clocks : \A r \in Registers : t[r] \in 0..Top
    /\ Greatest \in Clocks
<1>1. Top \in Nat /\ \A r \in Registers : Greatest[r] \in 0..Top
  BY Bounded DEF Top
<1>2. Clocks = {t \in [Registers -> 0..(Top + 0)] : \A r \in Registers : t[r] <= Greatest[r] + 0}
  BY DEF Clocks, Within, Top
<1> HIDE DEF Top
<1>3. Clocks = {t \in [Registers -> 0..Top] : \A r \in Registers : t[r] <= Greatest[r]}
  <2>1. Top + 0 = Top /\ \A r \in Registers : Greatest[r] + 0 = Greatest[r]
    BY <1>1
  <2>2. QED
    BY <1>2, <2>1
<1>4. ASSUME NEW t \in [Registers -> Nat], \A r \in Registers : t[r] <= Greatest[r]
      PROVE  t \in Clocks
  <2>1. \A r \in Registers : t[r] \in 0..Top
    BY <1>1, <1>4
  <2>2. t \in [Registers -> 0..Top]
    BY <2>1
  <2>3. QED
    BY <1>3, <1>4, <2>2
<1>5. ASSUME NEW t \in Clocks
      PROVE  /\ t \in [Registers -> Nat]
             /\ \A r \in Registers : t[r] <= Greatest[r] /\ t[r] \in 0..Top
  BY <1>1, <1>3
<1>6. Greatest \in Clocks
  <2>1. Greatest \in [Registers -> Nat]
    BY ClockAssumption DEF Registers
  <2>2. \A r \in Registers : Greatest[r] <= Greatest[r]
    BY <1>1
  <2>3. QED
    BY <1>4, <2>1, <2>2
<1>7. QED
  BY <1>1, <1>4, <1>5, <1>6

LEMMA SuccOfClock == \A t \in Clocks : Succ(t) \in Clocks
<1> SUFFICES ASSUME NEW t \in Clocks PROVE Succ(t) \in Clocks
  OBVIOUS
<1>1. \A r \in Registers : t[r] \in Nat /\ t[r] <= Greatest[r] /\ Greatest[r] \in Nat \ {0}
  BY ClockRange, ClockAssumption DEF Registers
<1>2. \A r \in Registers : First(r) \in Nat /\ First(r) <= Greatest[r]
  BY <1>1 DEF First
<1> DEFINE s(r) == IF \E q \in 1..(r - 1) : t[q] # Greatest[q] THEN t[r]
                   ELSE IF t[r] = Greatest[r] THEN First(r) ELSE t[r] + 1
<1>3. Succ(t) = [r \in Registers |-> s(r)]
  BY DEF Succ
<1>4. ASSUME NEW r \in Registers PROVE s(r) \in Nat /\ s(r) <= Greatest[r]
  <2>1. \/ s(r) = t[r]
        \/ s(r) = First(r)
        \/ s(r) = t[r] + 1 /\ t[r] # Greatest[r]
    OBVIOUS
  <2> HIDE DEF s
  <2>2. QED
    BY <1>1, <1>2, <2>1
<1> HIDE DEF s
<1>5. QED
  BY <1>3, <1>4, ClockRange

\* A text of six or fewer is no longer than its clock.
LEMMA ClockIsText == Clocks \subseteq Seq(0..Top)
<1> SUFFICES ASSUME NEW t \in Clocks PROVE t \in Seq(0..Top)
  OBVIOUS
<1>1. t \in [1..6 -> 0..Top] /\ 6 \in Nat
  BY ClockRange DEF Registers
<1>2. \A j \in Nat : [1..j -> 0..Top] \subseteq Seq(0..Top)
  BY SeqDef
<1>3. QED
  BY <1>1, <1>2

LEMMA FiguresAreSmall ==
    ASSUME NEW t \in Clocks, NEW d \in 1..12
    PROVE  Digit(t, d) \in 0..Top
<1> DEFINE r == (d + 1) \div 2
           v == t[r]
<1>1. r \in Registers
  BY DEF Registers
<1>2. v \in 0..Top /\ Top \in Nat /\ Ten \in Nat \ {0}
  BY <1>1, ClockRange, ClockAssumption
<1> HIDE DEF v
<1>3. v \div Ten \in 0..v /\ v % Ten \in 0..v
  <2>1. ASSUME NEW a \in Nat, NEW b \in Nat \ {0} PROVE a \div b \in 0..a /\ a % b \in 0..a
    <3>1. a \div b \in Nat /\ b * (a \div b) <= a
      OBVIOUS
    <3>2. a \div b <= b * (a \div b)
      BY <3>1
    <3>3. a % b \in 0..(b - 1)
      OBVIOUS
    <3>4. a < b => a % b = a
      OBVIOUS
    <3>5. QED
      BY <3>1, <3>2, <3>3, <3>4
  <2>2. QED
    BY <1>2, <2>1
<1>4. Digit(t, d) \in {v \div Ten, v % Ten}
  BY DEF Digit, v
<1>5. QED
  BY <1>2, <1>3, <1>4

LEMMA TypesRest == ASSUME Rest PROVE ClockTypes'
<1>1. <<>> \in Seq(0..Top)
  OBVIOUS
<1>2. QED
  BY <1>1, ClockRange DEF Rest, ClockTypes, Steps

LEMMA TypesKept ==
    ASSUME ClockTypes, pc' \in Steps, UNCHANGED <<clock, due, time>>, pc' = "set" => pc = "set"
    PROVE  ClockTypes'
BY DEF ClockTypes

LEMMA TypesStep == ASSUME ClockTypes, ClockInv, Next PROVE ClockTypes'
<1>1. CASE Rest
  BY <1>1, TypesRest
<1>2. CASE ~Rest /\ Check
  <2>1. /\ pc' = Handler(At(line, ControlAt)) /\ pc' # "idle" /\ UNCHANGED <<time, due>>
        /\ clock' \in (IF pc' \in {"syn_time", "read_time"} THEN Clocks ELSE {clock})
    BY <1>2 DEF Check
  <2>2. pc' \in {"direct", "write", "saved", "syn_time", "read_time"}
    BY <2>1 DEF Handler
  <2>3. QED
    BY <2>1, <2>2 DEF ClockTypes, Steps
<1>3. CASE ~Rest /\ SynTime
  <2>1. PICK t \in Within(1) : InRange(t) /\ pc' = "set" /\ time' = t /\ due' = t /\ clock' = clock
    BY <1>3 DEF SynTime
  <2>2. t \in Clocks
    BY <2>1, ClocksAreTimes, ClockRange DEF InRange, Times
  <2>3. QED
    BY <2>1, <2>2, ClockIsText DEF ClockTypes, Steps
<1>4. CASE SetRegister
  <2>1. /\ pc = "set" /\ pc' \in {"set", "answer"} /\ UNCHANGED <<time, due>>
        /\ clock' = [clock EXCEPT ![at] = time[at]] /\ at \in Registers
    BY <1>4 DEF SetRegister, Reply, ClockInv, Setting, Registers
  <2>2. /\ clock \in [Registers -> Nat] /\ time \in [Registers -> Nat]
        /\ \A r \in Registers : clock[r] <= Greatest[r] /\ time[r] <= Greatest[r]
    BY <2>1, ClockRange DEF ClockTypes
  <2>3. clock' \in [Registers -> Nat] /\ \A r \in Registers : clock'[r] <= Greatest[r]
    BY <2>1, <2>2
  <2>4. clock' \in Clocks
    BY <2>3, ClockRange
  <2>5. QED
    BY <2>1, <2>4 DEF ClockTypes, Steps
<1>5. CASE ReadTime
  BY <1>5 DEF ReadTime, ClockTypes, Steps
<1>6. CASE LoadDigit
  <2>1. /\ pc = "read" /\ pc' \in {"read", "answer"} /\ UNCHANGED <<clock, due>>
        /\ time' = Append(time, Digit(clock, at)) /\ at \in 1..12
    BY <1>6 DEF LoadDigit, Reply, ClockInv, Reading
  <2>2. Digit(clock, at) \in 0..Top
    BY <2>1, FiguresAreSmall DEF ClockTypes
  <2>3. time' \in Seq(0..Top)
    BY <2>1, <2>2, AppendProperties DEF ClockTypes
  <2>4. QED
    BY <2>1, <2>3 DEF ClockTypes, Steps
<1>7. CASE Tick
  <2>1. /\ clock' = Succ(clock) /\ due' \in {due, Succ(due)} /\ UNCHANGED <<pc, time>>
    BY <1>7 DEF Tick
  <2>2. QED
    BY <2>1, SuccOfClock DEF ClockTypes
<1>8. CASE /\ ~Rest
           /\ \/ Receive \/ Send \/ WriteMode \/ WriteData \/ ApnOverrun \/ ReadingDirect
              \/ Collect \/ FinishList \/ ReadingDataSave \/ FreezeBegins \/ FreezeReads
              \/ FreezeEnds
  <2>1. /\ UNCHANGED <<clock, due, time>>
        /\ pc' \in {"check", "scan", "collect", "answer", "freeze", "stamp"}
    BY <1>8 DEF Receive, Send, WriteMode, WriteData, ApnOverrun, ReadingDirect, Collect,
                FinishList, ReadingDataSave, FreezeBegins, FreezeReads, FreezeEnds, BeginList,
                Reply
  <2>2. QED
    BY <2>1, TypesKept DEF Steps
<1>9. QED
  BY <1>1, <1>2, <1>3, <1>4, <1>5, <1>6, <1>7, <1>8 DEF Next

\* What was tried are positions in the list.
LEMMA TriedIsTyped == ASSUME TextInv, pc \in Steps PROVE tried \in Seq(DOMAIN list)
<1>1. ASSUME NEW n \in Nat, NEW j \in 0..n PROVE Upto(j) \in Seq(1..n)
  <2>1. \A i \in 1..j : i \in 1..n
    OBVIOUS
  <2>2. Upto(j) \in [1..j -> 1..n] /\ j \in Nat
    BY <2>1 DEF Upto
  <2>3. \A i \in Nat : [1..i -> 1..n] \subseteq Seq(1..n)
    BY SeqDef
  <2>4. QED
    BY <2>2, <2>3
<1>2. CASE tried = <<>>
  BY <1>2, NoCommands
<1>3. CASE pc = "scan"
  <2>1. /\ list \in Seq(WriteCodes)
        /\ \E j \in 0..Len(list) : tried = Upto(j)
    BY <1>3 DEF TextInv, Scanning
  <2>2. DOMAIN list = 1..Len(list) /\ Len(list) \in Nat
    BY <2>1, LenProperties
  <2>3. QED
    BY <1>1, <2>1, <2>2
<1>4. CASE pc = "collect"
  <2>1. list \in Seq(Readings) /\ at \in 1..(Len(list) + 1) /\ tried = Upto(at - 1)
    BY <1>4 DEF TextInv, Collecting
  <2>2. DOMAIN list = 1..Len(list) /\ Len(list) \in Nat
    BY <2>1, LenProperties
  <2>3. at - 1 \in 0..Len(list)
    BY <2>1, <2>2
  <2>4. QED
    BY <1>1, <2>1, <2>2, <2>3
<1>5. CASE pc = "answer"
  <2>1. PICK n \in Nat : DOMAIN list = 1..n
    BY <1>5 DEF TextInv
  <2>2. tried = Upto(n) /\ n \in 0..n
    BY <1>5, <2>1 DEF TextInv, Upto
  <2>3. QED
    BY <1>1, <2>1, <2>2
<1>6. QED
  BY <1>2, <1>3, <1>4, <1>5 DEF TextInv, Steps, Quiet, Recording

\* Types: the clock within its registers, the answer's length within its two
\* bytes, the commands that were tried within the list.
THEOREM TypeCorrect == Spec => []TypeOK
<1>1. Init => ClockTypes
  <2>1. <<>> \in Seq(0..Top)
    OBVIOUS
  <2>2. QED
    BY <2>1, ClockRange DEF Init, ClockTypes, Steps
<1>2. ClockTypes /\ ClockInv /\ [Next]_vars => ClockTypes'
  <2> SUFFICES ASSUME ClockTypes, ClockInv, [Next]_vars PROVE ClockTypes'
    OBVIOUS
  <2>1. CASE UNCHANGED vars
    BY <2>1 DEF vars, ClockTypes
  <2>2. QED
    BY <2>1, TypesStep
<1>3. ClockTypes /\ ClockInv /\ LineInv /\ TextInv => TypeOK
  <2> SUFFICES ASSUME ClockTypes, ClockInv, LineInv, TextInv PROVE TypeOK
    OBVIOUS
  <2>1. tried \in Seq(DOMAIN list)
    BY TriedIsTyped DEF ClockTypes
  <2>2. QED
    BY <2>1 DEF TypeOK, ClockTypes, ClockInv, LineInv, TextInv, Top, Lengthy
<1>4. QED
  BY <1>1, <1>2, <1>3, ClockAlways, LineAlways, TextAlways, PTL DEF Spec
=============================================================================
