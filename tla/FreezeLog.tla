----------------------------- MODULE FreezeLog -----------------------------
(***************************************************************************)
(* The hourly freeze: check_int_min() of save_flash.c stores one record of *)
(* meter readings per hour in flash sectors 1 to 6, and                    *)
(* read_freeze_frame() finds it again by day of month and hour.            *)
(*                                                                         *)
(* The 96 pages of 256 bytes are four blocks of one page per hour, one     *)
(* block per day. Sectors 1-3 hold blocks 0 and 1, sectors 4-6 blocks 2    *)
(* and 3. Page p of the model is flash address 0x1000 + 256 * p.           *)
(***************************************************************************)
EXTENDS Integers

CONSTANTS
    Hours,      \* hours in a day (24)
    Days,       \* days in a month (28 to 31; one length for all months here)
    Months,     \* months told apart
    Restarts,   \* how often the power may fail or the watchdog may reset
    Misses,     \* how many hours may pass while main() is kept from freezing
    Rolls,      \* how many freezes may still run when the hour ends
    Sets,       \* how often the server sets the clock
    Faults      \* how many of these in all

ASSUME CalendarAssumption == /\ Hours \in Nat /\ Hours >= 2
                             /\ Days \in Nat /\ Days >= 1
                             /\ Months \in Nat /\ Months >= 1
\* No month is shorter than the four blocks.
ASSUME MonthAssumption == Days >= 4
ASSUME BoundsAssumption == /\ Restarts \in Nat /\ Misses \in Nat
                           /\ Rolls \in Nat /\ Sets \in Nat /\ Faults \in Nat

VARIABLES
    flash,          \* the pages
    clock,          \* the RTC registers HOUR, DOM and MONTH
    counter_minute, \* rtc_flag.bits.counter_minute, set by the hour interrupt
    mode,           \* freeze_frame(): static, cleared by a reset
    pc,             \* the next step of check_int_min(); "off" without power
    current_add,    \* freeze_frame(): the block, then the page, to write
    my_bl_data,     \* the page being prepared
    rolled,         \* history: the hour changed during this freeze
    frozen,         \* history: hours of this day whose freeze ran to its end
    restarts, misses, rolls, sets   \* how many of each so far

code  == <<flash, mode, pc, current_add, my_bl_data>>
bound == <<restarts, misses, rolls, sets>>
ghost == <<rolled, frozen>>
vars  == <<code, clock, counter_minute, ghost, bound>>

Blocks == 0..3
Pages  == 0..(4 * Hours - 1)
Stamps == [hour : 0..(Hours - 1), dom : 1..Days, month : 1..Months]

\* Byte 5 of a page: erased, 0x00 for a header page, 0xC3 for a record. The
\* other bytes of an erased page are 0xFF, which is no date.
Blank == [tag |-> "blank", hour |-> 0, dom |-> 0, month |-> 0]
Page(tag, t) == [tag |-> tag, hour |-> t.hour, dom |-> t.dom, month |-> t.month]
Written == {Page(tag, t) : tag \in {"header", "data"}, t \in Stamps}

First(b) == b * Hours                       \* 0x1000, 0x2800, 0x4000, 0x5800
Sectors13 == {p \in Pages : p < First(2)}   \* below 0x4000
Sectors46 == {p \in Pages : p >= First(2)}

TypeOK ==
    /\ flash \in [Pages -> Written \cup {Blank}]
    /\ clock \in Stamps
    /\ counter_minute \in BOOLEAN
    /\ mode \in 0..1
    /\ pc \in {"idle", "sector", "prepare", "place", "write", "off"}
    /\ current_add \in Pages
    /\ my_bl_data \in Written \cup {Blank}
    /\ rolled \in BOOLEAN
    /\ frozen \subseteq 0..(Hours - 1)
    /\ restarts \in 0..Restarts
    /\ misses \in 0..Misses
    /\ rolls \in 0..Rolls
    /\ sets \in 0..Sets

\* A new device: nothing was frozen yet, at any time of the calendar.
Init ==
    /\ flash = [p \in Pages |-> Blank]
    /\ clock \in Stamps
    /\ counter_minute = FALSE
    /\ mode = 0 /\ pc = "idle" /\ current_add = 0 /\ my_bl_data = Blank
    /\ rolled = FALSE /\ frozen = {}
    /\ restarts = 0 /\ misses = 0 /\ rolls = 0 /\ sets = 0

Erased(pages) == [p \in Pages |-> IF p \in pages THEN Blank ELSE flash[p]]

\* Mutant: the test of the block at 0x5800 is missing.
Holding_Three(dom) == {b \in 0..2 : flash[First(b)].dom = dom}

\* check_add_current(): the first block whose first page carries this day.
Holding(dom) == {b \in Blocks : flash[First(b)].dom = dom}
Empty        == {b \in Blocks : flash[First(b)].tag = "blank"}
Lowest(bs)   == CHOOSE b \in bs : \A c \in bs : b <= c

(***************************************************************************)
(* check_int_min() and freeze_frame()                                      *)
(***************************************************************************)
CheckIntMin ==
    /\ pc = "idle" /\ counter_minute
    /\ counter_minute' = FALSE
    /\ pc' = "sector" /\ rolled' = FALSE
    /\ UNCHANGED <<flash, mode, current_add, my_bl_data, clock, frozen, bound>>

\* check_sector_current(): today's block, else the first empty one, which gets
\* a header page unless hour 0 itself is about to fill it, else block 0 after
\* erasing sectors 1 to 3.
CheckSector ==
    /\ pc = "sector" /\ pc' = "prepare"
    /\ \/ /\ Holding(clock.dom) # {}
          /\ current_add' = First(Lowest(Holding(clock.dom)))
          /\ UNCHANGED <<flash, my_bl_data>>
       \/ /\ Holding(clock.dom) = {} /\ Empty # {}
          /\ current_add' = First(Lowest(Empty))
          /\ IF clock.hour # 0
             THEN /\ my_bl_data' = Page("header", clock)
                  /\ flash' = [flash EXCEPT ![current_add'] = my_bl_data']
             ELSE UNCHANGED <<flash, my_bl_data>>
       \/ /\ Holding(clock.dom) = {} /\ Empty = {}
          /\ current_add' = First(0)
          /\ flash' = Erased(Sectors13)
          /\ UNCHANGED my_bl_data
    /\ UNCHANGED <<mode, clock, counter_minute, ghost, bound>>

\* Mutant: the flag is cleared once more, after the meter was read.
Prepare_ClearsFlag ==
    /\ pc = "prepare" /\ pc' = "place"
    /\ my_bl_data' = Page("data", clock)
    /\ counter_minute' = FALSE
    /\ UNCHANGED <<flash, mode, current_add, clock, ghost, bound>>

\* prepare_freeze_frame(): the meter is read, then the page is stamped.
Prepare ==
    /\ pc = "prepare" /\ pc' = "place"
    /\ my_bl_data' = Page("data", clock)
    /\ UNCHANGED <<flash, mode, current_add, clock, counter_minute, ghost, bound>>

\* Mutant: the last page is looked for one page late.
Place_PastEnd ==
    /\ pc = "place" /\ pc' = "write"
    /\ current_add' = current_add + clock.hour
    /\ \/ /\ current_add' >= First(2) /\ mode = 0
          /\ mode' = 1 /\ flash' = Erased(Sectors46)
       \/ /\ current_add' >= 4 * Hours /\ mode = 1
          /\ mode' = 0 /\ flash' = Erased(Sectors13)
       \/ /\ current_add' >= First(2) => mode = 1
          /\ current_add' >= 4 * Hours => mode = 0
          /\ UNCHANGED <<mode, flash>>
    /\ UNCHANGED <<my_bl_data, clock, counter_minute, ghost, bound>>

\* Mutant: mode counts the erases instead of alternating.
Place_ModeCounts ==
    /\ pc = "place" /\ pc' = "write"
    /\ current_add' = current_add + clock.hour
    /\ \/ /\ current_add' >= First(2) /\ mode = 0
          /\ mode' = mode + 1 /\ flash' = Erased(Sectors46)
       \/ /\ current_add' >= 4 * Hours - 1 /\ mode = 1
          /\ mode' = mode + 1 /\ flash' = Erased(Sectors13)
       \/ /\ current_add' >= First(2) => mode = 1
          /\ current_add' >= 4 * Hours - 1 => mode = 0
          /\ UNCHANGED <<mode, flash>>
    /\ UNCHANGED <<my_bl_data, clock, counter_minute, ghost, bound>>

\* The page of the present hour, and the erase of the half that comes next.
Place ==
    /\ pc = "place" /\ pc' = "write"
    /\ current_add' = current_add + clock.hour
    /\ \/ /\ current_add' >= First(2) /\ mode = 0
          /\ mode' = 1 /\ flash' = Erased(Sectors46)
       \/ /\ current_add' >= 4 * Hours - 1 /\ mode = 1
          /\ mode' = 0 /\ flash' = Erased(Sectors13)
       \/ /\ current_add' >= First(2) => mode = 1
          /\ current_add' >= 4 * Hours - 1 => mode = 0
          /\ UNCHANGED <<mode, flash>>
    /\ UNCHANGED <<my_bl_data, clock, counter_minute, ghost, bound>>

\* Mutant: the page is written whatever it holds.
Write_Unguarded ==
    /\ pc = "write" /\ pc' = "idle"
    /\ flash' = [flash EXCEPT ![current_add] = my_bl_data]
    /\ frozen' = IF rolled THEN frozen ELSE frozen \cup {clock.hour}
    /\ current_add' = 0 /\ rolled' = FALSE
    /\ UNCHANGED <<mode, my_bl_data, clock, counter_minute, bound>>

\* Only an erased page is written.
Write ==
    /\ pc = "write" /\ pc' = "idle"
    /\ flash' = IF flash[current_add].tag = "blank"
                THEN [flash EXCEPT ![current_add] = my_bl_data] ELSE flash
    /\ frozen' = IF rolled THEN frozen ELSE frozen \cup {clock.hour}
    /\ current_add' = 0 /\ rolled' = FALSE
    /\ UNCHANGED <<mode, my_bl_data, clock, counter_minute, bound>>

(***************************************************************************)
(* The clock, the power and the watchdog.                                  *)
(***************************************************************************)
NextDay(t) == IF t.dom = Days
              THEN [hour |-> 0, dom |-> 1, month |-> IF t.month = Months THEN 1 ELSE t.month + 1]
              ELSE [hour |-> 0, dom |-> t.dom + 1, month |-> t.month]

Fault == restarts + misses + rolls + sets < Faults

\* The RTC counts on without the main supply. A freeze ends within the hour
\* after it started.
Hour ==
    /\ ~rolled
    /\ clock' = IF clock.hour = Hours - 1 THEN NextDay(clock)
                ELSE [clock EXCEPT !.hour = @ + 1]
    /\ frozen' = IF clock.hour = Hours - 1 THEN {} ELSE frozen
    /\ counter_minute' = (pc # "off")
    /\ rolled' = (pc \notin {"idle", "off"})
    /\ IF pc = "off" \/ counter_minute
       THEN misses < Misses /\ Fault /\ misses' = misses + 1
       ELSE UNCHANGED misses
    /\ IF rolled' THEN rolls < Rolls /\ Fault /\ rolls' = rolls + 1 ELSE UNCHANGED rolls
    /\ UNCHANGED <<code, restarts, sets>>

\* Mutant: the clock is set while a freeze is running.
SetClock_Anytime ==
    /\ pc # "off" /\ sets < Sets /\ Fault
    /\ sets' = sets + 1
    /\ clock' \in Stamps /\ frozen' = {}
    /\ UNCHANGED <<code, counter_minute, rolled, restarts, misses, rolls>>

\* process_server_syntime_module(), called between two freezes: any hour of any
\* day, and no hour interrupt. What ServerRequests shows of day 0 and month 0 is
\* left out.
SetClock ==
    /\ pc = "idle" /\ sets < Sets /\ Fault
    /\ sets' = sets + 1
    /\ clock' \in Stamps /\ frozen' = {}
    /\ UNCHANGED <<code, counter_minute, rolled, restarts, misses, rolls>>

Fail ==
    /\ pc # "off" /\ restarts < Restarts /\ Fault
    /\ restarts' = restarts + 1
    /\ pc' = "off" /\ counter_minute' = FALSE /\ rolled' = FALSE
    /\ mode' = 0 /\ current_add' = 0 /\ my_bl_data' = Blank /\ frozen' = {}
    /\ UNCHANGED <<flash, clock, misses, rolls, sets>>

Boot ==
    /\ pc = "off" /\ pc' = "idle"
    /\ UNCHANGED <<flash, mode, current_add, my_bl_data, clock, counter_minute,
                   ghost, bound>>

Next == \/ CheckIntMin \/ CheckSector \/ Prepare \/ Place \/ Write
        \/ Hour \/ SetClock \/ Fail \/ Boot

Spec == Init /\ [][Next]_vars

(***************************************************************************)
(* read_freeze_frame(): the record a server's request finds. The month and *)
(* the year of the request are not looked at.                              *)
(***************************************************************************)
Found(dom, hour) == First(Lowest(Holding(dom))) + hour
Readable(dom, hour) == Holding(dom) # {} /\ flash[Found(dom, hour)].tag = "data"

(***************************************************************************)
(* Properties.                                                             *)
(***************************************************************************)
\* No two blocks claim the same day, so a request for a day has one answer
\* (check_add_current() takes the first match). Missed hours, restarts, a
\* clock set to any time and erased header pages do not break it; only a freeze
\* that runs over the end of an hour can.
DistinctDays ==
    rolls = 0 => \A b, c \in Blocks :
        /\ flash[First(b)].tag # "blank"
        /\ flash[First(b)].dom = flash[First(c)].dom
        => b = c

\* On a device that runs without interruption every hour of the present day is
\* readable, with this month's record, once its freeze has run: neither the
\* erase of the next half nor a block of an earlier month gets in the way.
TodayKept ==
    pc = "idle" /\ restarts = 0 /\ misses = 0 /\ rolls = 0 /\ sets = 0 =>
        \A h \in frozen :
            /\ Readable(clock.dom, h)
            /\ flash[Found(clock.dom, h)].month = clock.month

\* A page that holds something changes only by being erased: flash is never
\* programmed twice (the comment at save_flash.c:184 asks for it).
WriteOnce ==
    [][\A p \in Pages : flash[p] # Blank => flash'[p] \in {flash[p], Blank}]_vars

\* An hour that begins while a freeze is running is not forgotten: its flag
\* still stands, because check_int_min() clears the flag before it freezes.
HourNotLost == rolled => counter_minute

\* A record is filed under the hour it is stamped with, which is what a request
\* for an hour relies on: read_freeze_frame() never compares the stamp. The page
\* is chosen after the stamp was taken, so a freeze that runs over the end of its
\* hour files it one hour late; nothing takes it further than that.
NextHour(h) == IF h = Hours - 1 THEN 0 ELSE h + 1

FiledByHour ==
    \A b \in Blocks, h \in 0..(Hours - 1) :
        LET page == flash[First(b) + h]
        IN  page.tag = "data" =>
                (page.hour = h \/ (rolls > 0 /\ h = NextHour(page.hour)))

\* process_server_reading_data_save() answers "no data freeze in flash"
\* (read_para.c:345) only when flash holds no record of that day and hour.
NoDataMeansNone ==
    pc = "idle" =>
        \A p \in Pages :
            flash[p].tag = "data" => Readable(flash[p].dom, flash[p].hour)
=============================================================================
