--------------------------- MODULE ServerRequests ---------------------------
(***************************************************************************)
(* What the module does with a frame of the server once it has fetched it: *)
(* check_data_rx_server(), the dispatch on the control code, and the       *)
(* process_server_*() handlers of read_para.c, with a clock that ticks     *)
(* while its registers are set or read one by one; and the hourly record,  *)
(* whose readings are collected by the same function.                      *)
(*                                                                         *)
(* A text is represented by its number of characters, two to a byte.       *)
(* Fetching is NotifyFetch's business, the dialogue with the meter         *)
(* MeterLink's.                                                            *)
(***************************************************************************)
EXTENDS ServerFrame, FiniteSetsExt

CONSTANTS
    Greatest,   \* second, minute, hour, day, month and year
    Ten,        \* the base of the digits (10)
    Payloads,   \* what frames may carry
    ListLength  \* commands in a frame

ASSUME ClockAssumption == Greatest \in [1..6 -> Nat \ {0}] /\ Ten \in Nat \ {0}

\* The control codes are bytes, and two bytes hold the length of what is sent and
\* of what a list of commands may collect.
ASSUME ListAssumption ==
    /\ ByteValues > 53
    /\ \A p \in Payloads : p \in Seq(Bytes) /\ Len(p) < ByteValues * ByteValues
    /\ ListLength \in Nat /\ 6 + 6 * ListLength < ByteValues * ByteValues

VARIABLES
    pc,         \* the handler at work, or "idle", "check", "answer", "stamp"
    line,       \* the frame that was received
    damaged,    \* history: which of its bytes was changed on the way; 0: none
    clock,      \* the RTC's registers
    time,       \* the time to set, or the digits read so far
    list,       \* the commands of the frame
    at,         \* the register, character or command that is next, from 1
    chars,      \* characters collected
    foreign,    \* history: one of them is no hexadecimal digit
    gap,        \* history: a reading failed or came short
    tried,      \* history: the commands sent to the meter
    answer,     \* what is sent back: its announced length and its checksum
    due,        \* history: the clock at the start of a reading; as it was set
    ticked      \* history: the clock has ticked in this handler

frame == <<line, damaged>>
text  == <<list, at, chars, foreign, gap, tried>>
vars  == <<pc, frame, clock, time, text, answer, due, ticked>>

(***************************************************************************)
(* The clock                                                               *)
(***************************************************************************)
Registers == 1..6
First(r)  == IF r \in {4, 5} THEN 1 ELSE 0
Within(over) == {t \in [Registers -> 0..(Max(Range(Greatest)) + over)] :
                    \A r \in Registers : t[r] <= Greatest[r] + over}
Clocks    == Within(0)

\* One second later.  The day and the month may have been set to 0.
Succ(t) == [r \in Registers |->
    IF \E q \in 1..(r - 1) : t[q] # Greatest[q] THEN t[r]
    ELSE IF t[r] = Greatest[r] THEN First(r) ELSE t[r] + 1]

Digit(t, d) == LET v == t[(d + 1) \div 2] IN
               IF d % 2 = 1 THEN v \div Ten ELSE v % Ten
Digits(t) == [d \in 1..12 |-> Digit(t, d)]

(***************************************************************************)
(* The commands                                                            *)
(***************************************************************************)
\* write_data_metter(): what is written of a command's field, and how much of
\* it is skipped.
WriteCodes == {"1FD3", "02D3", "3080", "05C1", "08C1", "06C1", "07C1"}
Written(code) == CASE code \in {"1FD3", "3080"} -> 12
                   [] code \in {"05C1", "08C1"} -> 8
                   [] code \in {"02D3", "06C1"} -> 4
                   [] code = "07C1"             -> 32
Field(code)   == IF code \in {"05C1", "08C1"} THEN 20 ELSE Written(code)

\* The character at which the k-th command starts, if fields are as long as the
\* loop expects and none holds a code.
Start(k) == 1 + FoldLeft(LAMBDA n, c : n + 4 + Field(c), 0, SubSeq(list, 1, k - 1))

\* Mutant: the last code is missing.
FreezeWidths_OneLess == <<4, 8, 8, 8, 8, 8, 8, 16, 4, 4, 4, 4, 4, 4, 6, 6, 6, 6, 4,
    4, 4, 4, 4, 4, 4, 4, 6, 8, 104, 8, 8, 8, 6, 8, 6, 8, 6, 8, 6>>

\* table_control_code, of which the codes of freeze_code: the characters of each
\* reading.
FreezeWidths == <<4, 8, 8, 8, 8, 8, 8, 16, 4, 4, 4, 4, 4, 4, 6, 6, 6, 6, 4,
    4, 4, 4, 4, 4, 4, 4, 6, 8, 104, 8, 8, 8, 6, 8, 6, 8, 6, 8, 6, 8>>

\* The same table for a direct reading: a code that is not in it, and two that
\* are.
Readings == {0, 4, 8}

RecordBytes == 179      \* what read_freeze_frame() returns of a page

Lists(codes) == UNION {[1..n -> codes] : n \in 0..ListLength}

NoAnswer == [announced |-> 0, chars |-> 0, right |-> TRUE]

\* Between two frames.  The clock runs on, but nobody looks at it.
Init ==
    /\ pc = "idle" /\ line = <<>> /\ damaged = 0
    /\ clock = Greatest /\ due = Greatest /\ time = <<>>
    /\ list = <<>> /\ at = 1 /\ chars = 0
    /\ foreign = FALSE /\ gap = FALSE /\ tried = <<>>
    /\ answer = NoAnswer /\ ticked = FALSE

Rest ==
    /\ pc' = "idle" /\ line' = <<>> /\ damaged' = 0
    /\ clock' = Greatest /\ due' = Greatest /\ time' = <<>>
    /\ list' = <<>> /\ at' = 1 /\ chars' = 0
    /\ foreign' = FALSE /\ gap' = FALSE /\ tried' = <<>>
    /\ answer' = NoAnswer /\ ticked' = FALSE

TypeOK ==
    /\ line \in Seq(Bytes) /\ damaged \in 0..Len(line)
    /\ clock \in Clocks /\ due \in Clocks
    /\ time \in Seq(0..Max(Range(Greatest)))
    /\ at \in Nat /\ chars \in Nat
    /\ foreign \in BOOLEAN /\ gap \in BOOLEAN /\ ticked \in BOOLEAN
    /\ tried \in Seq(DOMAIN list)
    /\ answer \in [announced : 0..(ByteValues * ByteValues - 1), chars : Nat,
                   right : BOOLEAN]

(***************************************************************************)
(* Frames                                                                  *)
(***************************************************************************)
Handler(control) ==
    CASE control = 17 -> "direct"       \* COMMAND_READ_PARA_DIRECT
      [] control = 8  -> "write"        \* COMMAND_LOAD_CURVE
      [] control = 53 -> "saved"        \* COMMAND_READ_DATA_SAVED
      [] control = 6  -> "syn_time"     \* COMMAND_SYN_TIME_MODULE
      [] control = 1  -> "read_time"    \* COMMAND_READ_TIME_MODULE
      [] OTHER        -> "idle"         \* the accepts: LinkSupervisor

\* A frame was fetched; one of its bytes may have been damaged.
Receive ==
    /\ pc = "idle" /\ pc' = "check"
    /\ \E control \in {1, 6, 8, 17, 33, 36, 53}, data \in Payloads :
          LET sent == Frame(control, data) IN
          \/ line' = sent /\ damaged' = 0
          \/ \E k \in 1..Len(sent) : \E b \in Bytes \ {sent[k]} :
                line' = [sent EXCEPT ![k] = b] /\ damaged' = k
    /\ UNCHANGED <<clock, time, text, answer, due, ticked>>

\* The clock shows any time when the handler begins.
Check ==
    /\ pc = "check"
    /\ \/ /\ Accepted(line) /\ Handler(At(line, ControlAt)) # "idle"
          /\ pc' = Handler(At(line, ControlAt))
          /\ line' = <<>> /\ damaged' = 0
          /\ clock' \in IF pc' \in {"syn_time", "read_time"} THEN Clocks ELSE {clock}
          /\ UNCHANGED <<time, text, answer, due, ticked>>
       \/ /\ ~Accepted(line) \/ Handler(At(line, ControlAt)) = "idle"
          /\ Rest

Reply(announced, length, right) ==
    /\ pc' = "answer"
    /\ answer' = [announced |-> announced, chars |-> length, right |-> right]

\* answer_server(); what becomes of it is LinkSupervisor's business.
Send == pc = "answer" /\ Rest

(***************************************************************************)
(* Setting and reading the clock                                           *)
(***************************************************************************)
Tick ==
    /\ pc \in {"set", "read"} /\ ~ticked
    /\ ticked' = TRUE
    /\ clock' = Succ(clock)
    /\ due' = IF pc = "set" /\ at > 1 THEN Succ(due) ELSE due
    /\ UNCHANGED <<pc, frame, time, text, answer>>

\* Mutant: the greatest value plus one passes.
InRange_OneMore(t) == \A r \in Registers : t[r] <= Greatest[r] + 1

\* Only the upper bounds are tested; the first value out of range ends it, and
\* the frame is asked for once more (NotifyFetch).
InRange(t) == \A r \in Registers : t[r] <= Greatest[r]

SynTime ==
    /\ pc = "syn_time"
    /\ \E t \in Within(1) :
          \/ ~InRange(t) /\ Rest
          \/ /\ InRange(t) /\ pc' = "set" /\ time' = t /\ due' = t
             /\ UNCHANGED <<frame, clock, text, answer, ticked>>

\* Mutant: from the year down to the second.
SetRegister_Backwards ==
    /\ pc = "set"
    /\ clock' = [clock EXCEPT ![7 - at] = time[7 - at]]
    /\ IF at < 6 THEN at' = at + 1 /\ UNCHANGED <<pc, answer>>
                 ELSE Reply(5, 10, TRUE) /\ UNCHANGED at
    /\ UNCHANGED <<frame, time, list, chars, foreign, gap, tried, due, ticked>>

\* SEC, MIN, HOUR, DOM, MONTH, YEAR
SetRegister ==
    /\ pc = "set"
    /\ clock' = [clock EXCEPT ![at] = time[at]]
    /\ IF at < 6 THEN at' = at + 1 /\ UNCHANGED <<pc, answer>>
                 ELSE Reply(5, 10, TRUE) /\ UNCHANGED at
    /\ UNCHANGED <<frame, time, list, chars, foreign, gap, tried, due, ticked>>

ReadTime ==
    /\ pc = "read_time" /\ pc' = "read"
    /\ due' = clock
    /\ UNCHANGED <<frame, clock, time, text, answer, ticked>>

\* Mutant: the minute is taken for the hour.
LoadDigit_MinuteTwice ==
    /\ pc = "read"
    /\ time' = Append(time, Digit(clock, IF at \in {5, 6} THEN at - 2 ELSE at))
    /\ IF at < 12 THEN at' = at + 1 /\ UNCHANGED <<pc, answer>>
                  ELSE Reply(16, 20 + 12, TRUE) /\ UNCHANGED at
    /\ UNCHANGED <<frame, clock, list, chars, foreign, gap, tried, due, ticked>>

\* Each register is loaded twice, for its tens and for its units.
LoadDigit ==
    /\ pc = "read"
    /\ time' = Append(time, Digit(clock, at))
    /\ IF at < 12 THEN at' = at + 1 /\ UNCHANGED <<pc, answer>>
                  ELSE Reply(16, 20 + 12, TRUE) /\ UNCHANGED at
    /\ UNCHANGED <<frame, clock, list, chars, foreign, gap, tried, due, ticked>>

(***************************************************************************)
(* Reading and writing the meter                                           *)
(***************************************************************************)
\* sign_in() succeeds, and the commands are taken from the frame.
BeginList(step, codes, kept) ==
    /\ pc' = step /\ list' \in Lists(codes) /\ chars' = kept
    /\ UNCHANGED <<frame, clock, time, at, foreign, gap, tried, answer, due, ticked>>

WriteMode     == pc = "write"  /\ (BeginList("scan", WriteCodes, 4) \/ Rest)
ReadingDirect == pc = "direct" /\ (BeginList("collect", Readings, 12) \/ Rest)

\* Mutant: the code is skipped along with its field.
WriteData_SkipsMore ==
    LET coming == {k \in DOMAIN list : Start(k) >= at} IN
    /\ pc = "scan" /\ coming # {}
    /\ LET k == Min(coming) IN
          /\ at' = Start(k) + 4 + Field(list[k]) + 1
          /\ tried' = Append(tried, k)
          /\ chars' \in {chars, chars + 6}
    /\ UNCHANGED <<pc, frame, clock, time, list, foreign, gap, answer, due, ticked>>

\* The loop of write_data_metter() up to the next code.  A write that the meter
\* answers is acknowledged with the code and "00".
WriteData ==
    LET coming == {k \in DOMAIN list : Start(k) >= at} IN
    /\ pc = "scan" /\ coming # {}
    /\ LET k == Min(coming) IN
          /\ at' = Start(k) + Field(list[k]) + 1
          /\ tried' = Append(tried, k)
          /\ chars' \in {chars, chars + 6}
    /\ UNCHANGED <<pc, frame, clock, time, list, foreign, gap, answer, due, ticked>>

\* write_data() copies the 32 characters of an APN to arrays of 20: the stack
\* may be hit, and the module stop until the watchdog restarts it.
ApnOverrun ==
    /\ pc = "scan" /\ \E k \in DOMAIN list : list[k] = "07C1" /\ Start(k) >= at
    /\ Rest

\* read_data_meter(): nothing is collected of an unknown code (width 0) or of a
\* reading that fails.  A reading may be shorter than the table says, and the meter may
\* send what is no hexadecimal digit (a point, a sign).
ReadDataMeter(width, kept) ==
    \/ gap' = (gap \/ width > 0) /\ UNCHANGED <<chars, foreign>>
    \/ /\ width > 0
       /\ \E n \in (width - 2)..width :
             chars' = chars + kept + n /\ gap' = (gap \/ n # width)
       /\ foreign' \in {foreign, TRUE}

Collect ==
    /\ pc = "collect" /\ at <= Len(list) /\ at' = at + 1
    /\ ReadDataMeter(list[at], 4)
    /\ tried' = Append(tried, at)
    /\ UNCHANGED <<pc, frame, clock, time, list, answer, due, ticked>>

\* Mutant: the four characters that every answer to a write has are forgotten.
FinishList_NoDefault ==
    /\ \/ pc = "scan" /\ \A k \in DOMAIN list : Start(k) < at
       \/ pc = "collect" /\ at > Len(list)
    /\ Reply((chars - (IF pc = "scan" THEN 4 ELSE 0)) \div 2, chars,
             chars % 2 = 0 /\ ~foreign)
    /\ UNCHANGED <<frame, clock, time, text, due, ticked>>

\* The length is that of what was collected, in whole bytes; the checksum is 0
\* for a text that is not in hexadecimal pairs.
FinishList ==
    /\ \/ pc = "scan" /\ \A k \in DOMAIN list : Start(k) < at
       \/ pc = "collect" /\ at > Len(list)
    /\ Reply(chars \div 2, chars, chars % 2 = 0 /\ ~foreign)
    /\ UNCHANGED <<frame, clock, time, text, due, ticked>>

(***************************************************************************)
(* The hourly record                                                       *)
(***************************************************************************)
\* The answer is announced as C500 with a record, as 1200 without one.
ReadingDataSave ==
    /\ pc = "saved"
    /\ \/ Reply(197, 36 + 2 * RecordBytes, TRUE)
       \/ Reply(18, 36, TRUE)
    /\ UNCHANGED <<frame, clock, time, text, due, ticked>>

FreezeBegins ==
    /\ pc = "idle" /\ pc' = "freeze"
    /\ UNCHANGED <<frame, clock, time, text, answer, due, ticked>>

\* prepare_freeze_frame()
FreezeReads ==
    /\ pc = "freeze" /\ at' = at + 1
    /\ ReadDataMeter(FreezeWidths[at], 0)
    /\ pc' = IF at < Len(FreezeWidths) THEN "freeze" ELSE "stamp"
    /\ UNCHANGED <<frame, clock, time, list, tried, answer, due, ticked>>

FreezeEnds == pc = "stamp" /\ Rest

Next == \/ Receive \/ Check \/ Send
        \/ Tick \/ SynTime \/ SetRegister \/ ReadTime \/ LoadDigit
        \/ WriteMode \/ WriteData \/ ApnOverrun
        \/ ReadingDirect \/ Collect \/ FinishList
        \/ ReadingDataSave \/ FreezeBegins \/ FreezeReads \/ FreezeEnds

Spec == Init /\ [][Next]_vars

(***************************************************************************)
(* Properties.                                                             *)
(***************************************************************************)
\* A frame is accepted if it arrives as it was built and is not too long, and
\* one damaged byte is always noticed, unless it is the length that is damaged:
\* then a byte of the data may pass for the checksum.
FrameJudged ==
    pc = "check" =>
        IF damaged = 0 THEN Accepted(line) <=> Announced(line) <= MaxLength
        ELSE Accepted(line) => damaged \in {LengthAt, LengthAt + 1}

\* When the registers have been set, the clock is as it was commanded, or a
\* second later; only a tick that carries out of the second just stored spoils
\* that.
SetRight ==
    pc = "answer" /\ Len(time) = 6 =>
        \/ clock = due
        \/ ticked /\ time[1] = Greatest[1]

\* The time that is answered is that of the start or that of the end of the
\* reading, unless a tick meanwhile changed more than one digit.
ReadRight ==
    pc = "answer" /\ Len(time) = 12 =>
        \/ time \in {Digits(due), Digits(clock)}
        \/ Cardinality({d \in 1..12 : Digit(due, d) # Digit(clock, d)}) > 1

\* Every command of a frame is sent to the meter once and in order, whatever the
\* length of the fields before it: the loop never steps over a code.
EveryCommandTried ==
    pc = "answer" => tried = [k \in DOMAIN list |-> k]

\* An answer has the length it announces and a right checksum, unless a reading
\* came short, or (the checksum) was not in hexadecimal digits.
AnswerSound ==
    pc = "answer" => /\ 2 * answer.announced = answer.chars \/ gap
                     /\ answer.right \/ gap \/ foreign

\* The readings of an hour fit the text and the page they are put into
\* (prepare_freeze_frame() never gives up for length), and when none is missing
\* the record has just the length that read_freeze_frame() returns.
RecordFits ==
    pc = "stamp" => /\ chars < 480 /\ 6 + chars \div 2 <= RecordBytes
                    /\ gap \/ 12 + chars = 2 * RecordBytes
=============================================================================
