-------------------------- MODULE FreezeLogProofs --------------------------
(***************************************************************************)
(* Proofs about FreezeLog for every calendar and any number of restarts,   *)
(* missed hours, clocks set by the server and freezes that run over the    *)
(* end of an hour.                                                         *)
(***************************************************************************)
EXTENDS FreezeLog, TLAPS

(***************************************************************************)
(* Blocks and pages.                                                       *)
(***************************************************************************)
\* The first pages of the blocks are pages, and so is every hour after them.
LEMMA PageOfHour ==
    ASSUME NEW b \in Blocks, NEW h \in 0..(Hours - 1)
    PROVE  First(b) + h \in Pages
<1>1. Hours \in Nat /\ Hours >= 2 /\ h \in Int /\ 0 <= h /\ h <= Hours - 1
  BY CalendarAssumption
<1>2. b = 0 \/ b = 1 \/ b = 2 \/ b = 3
  BY DEF Blocks
<1>3. QED
  BY <1>1, <1>2 DEF First, Pages

\* The same for the first page alone, as Holding and Empty look at it.
LEMMA FirstIn ==
    \A c \in Blocks : First(c) \in Pages /\ First(c) + 0 = First(c)
<1>1. ASSUME NEW c \in Blocks PROVE First(c) + 0 \in Pages /\ First(c) + 0 = First(c)
  BY PageOfHour, CalendarAssumption DEF First, Blocks
<1>2. QED
  BY <1>1

\* Only the first hour of a day is kept on the first page of a block.
LEMMA FirstPage ==
    ASSUME NEW b \in Blocks, NEW c \in Blocks, NEW h \in 0..(Hours - 1),
           First(c) = First(b) + h
    PROVE  c = b /\ h = 0
<1>1. Hours \in Nat /\ Hours >= 2 /\ h \in Int /\ 0 <= h /\ h <= Hours - 1
  BY CalendarAssumption
<1>2. /\ b = 0 \/ b = 1 \/ b = 2 \/ b = 3
      /\ c = 0 \/ c = 1 \/ c = 2 \/ c = 3
  BY DEF Blocks
<1>3. QED
  BY <1>1, <1>2 DEF First

\* A set of blocks that is not empty has a lowest block, which is one of them.
LEMMA LowestIn ==
    ASSUME NEW bs, bs \subseteq Blocks, bs # {}
    PROVE  Lowest(bs) \in bs
<1>1. \E b \in bs : \A c \in bs : b <= c
  <2>1. \A b \in bs : b = 0 \/ b = 1 \/ b = 2 \/ b = 3
    BY DEF Blocks
  <2>2. CASE 0 \in bs
    BY <2>1, <2>2
  <2>3. CASE 0 \notin bs /\ 1 \in bs
    BY <2>1, <2>3
  <2>4. CASE 0 \notin bs /\ 1 \notin bs /\ 2 \in bs
    BY <2>1, <2>4
  <2>5. CASE 0 \notin bs /\ 1 \notin bs /\ 2 \notin bs
    BY <2>1, <2>5
  <2>6. QED
    BY <2>2, <2>3, <2>4, <2>5
<1>2. QED
  BY <1>1 DEF Lowest

\* What the chosen blocks hold.
LEMMA ChosenBlock ==
    /\ \A d : Holding(d) # {} =>
         Lowest(Holding(d)) \in Blocks /\ flash[First(Lowest(Holding(d)))].dom = d
    /\ Empty # {} =>
         Lowest(Empty) \in Blocks /\ flash[First(Lowest(Empty))].tag = "blank"
<1>1. ASSUME NEW d, Holding(d) # {} PROVE Lowest(Holding(d)) \in Holding(d)
  BY <1>1, LowestIn DEF Holding
<1>2. ASSUME Empty # {} PROVE Lowest(Empty) \in Empty
  BY <1>2, LowestIn DEF Empty
<1>3. QED
  BY <1>1, <1>2 DEF Holding, Empty

(***************************************************************************)
(* The inductive invariant.                                                *)
(***************************************************************************)
\* The block chosen for a freeze, before the hour is added.
Addresses == pc \in {"prepare", "place"} => \E b \in Blocks : current_add = First(b)

\* A freeze that ran over the end of its hour is on the books.
Rolling == rolled => rolls >= 1 /\ counter_minute

\* No block but b carries the present day.
Alone(b) == \A c \in Blocks : c # b => flash[First(c)].dom # clock.dom

\* What is about to be written, and where, while no freeze ran over: the
\* present hour, into the only block that may carry the present day.
Aimed ==
    /\ pc \in {"prepare", "place"} =>
         \E b \in Blocks : current_add = First(b) /\ Alone(b)
    /\ pc \in {"place", "write"} => my_bl_data = Page("data", clock)
    /\ pc = "write" =>
         \E b \in Blocks : current_add = First(b) + clock.hour /\ Alone(b)

IInv == TypeOK /\ Addresses /\ Rolling /\ (rolls = 0 => Aimed) /\ DistinctDays

(***************************************************************************)
(* Types.                                                                  *)
(***************************************************************************)
\* A page stamped with the clock is a well-formed page.
LEMMA PageTypes ==
    ASSUME clock \in Stamps
    PROVE  Page("header", clock) \in Written /\ Page("data", clock) \in Written
BY DEF Written

\* Erasing leaves every page either as it was or blank.
LEMMA ErasedType ==
    ASSUME flash \in [Pages -> Written \cup {Blank}], NEW ps
    PROVE  Erased(ps) \in [Pages -> Written \cup {Blank}]
BY DEF Erased

\* The calendar turns to a day of the calendar.
LEMMA NextDayType ==
    ASSUME NEW t \in Stamps
    PROVE  NextDay(t) \in Stamps
BY CalendarAssumption DEF NextDay, Stamps

\* Every step keeps the types; the page to write stays inside the blocks.
LEMMA TypeStep ==
    ASSUME TypeOK, Addresses, [Next]_vars
    PROVE  TypeOK' /\ Addresses'
<1> USE DEF TypeOK, Addresses
<1>1. CASE CheckIntMin
  BY <1>1 DEF CheckIntMin, bound
<1>2. CASE CheckSector
  <2> USE <1>2 DEF CheckSector
  <2>1. \E b \in Blocks : current_add' = First(b)
    BY ChosenBlock DEF Blocks
  <2>2. current_add' \in Pages
    BY <2>1, PageOfHour, CalendarAssumption DEF First
  <2>3. /\ my_bl_data' \in Written \cup {Blank}
        /\ flash' \in [Pages -> Written \cup {Blank}]
    BY PageTypes, ErasedType
  <2>4. QED
    BY <2>1, <2>2, <2>3 DEF ghost, bound
<1>3. CASE Prepare
  <2>1. my_bl_data' \in Written \cup {Blank}
    BY <1>3, PageTypes DEF Prepare
  <2>2. QED
    BY <1>3, <2>1 DEF Prepare, ghost, bound
<1>4. CASE Place
  <2> USE <1>4 DEF Place
  <2>1. current_add' \in Pages
    BY PageOfHour DEF Stamps
  <2>2. flash' \in [Pages -> Written \cup {Blank}] /\ mode' \in 0..1
    BY ErasedType
  <2>3. QED
    BY <2>1, <2>2 DEF ghost, bound
<1>5. CASE Write
  <2> USE <1>5 DEF Write
  <2>1. flash' \in [Pages -> Written \cup {Blank}]
    OBVIOUS
  <2>2. frozen' \subseteq 0..(Hours - 1)
    BY DEF Stamps
  <2>3. current_add' \in Pages
    BY CalendarAssumption DEF Pages
  <2>4. rolled' \in BOOLEAN
    OBVIOUS
  <2>5. QED
    BY <2>1, <2>2, <2>3, <2>4 DEF bound
<1>6. CASE Hour
  <2> USE <1>6 DEF Hour
  <2>1. clock' \in Stamps
    BY NextDayType, CalendarAssumption DEF Stamps
  <2>2. /\ counter_minute' \in BOOLEAN /\ rolled' \in BOOLEAN
        /\ frozen' \subseteq 0..(Hours - 1)
    OBVIOUS
  <2>3. misses' \in 0..Misses /\ rolls' \in 0..Rolls
    BY BoundsAssumption
  <2>4. QED
    BY <2>1, <2>2, <2>3 DEF code
<1>7. CASE SetClock
  <2>1. sets' \in 0..Sets /\ rolled' \in BOOLEAN
    BY <1>7, BoundsAssumption DEF SetClock
  <2>2. QED
    BY <1>7, <2>1 DEF SetClock, code
<1>8. CASE Fail
  <2> USE <1>8 DEF Fail
  <2>1. counter_minute' \in BOOLEAN /\ rolled' \in BOOLEAN
    OBVIOUS
  <2>2. restarts' \in 0..Restarts
    BY BoundsAssumption
  <2>3. current_add' \in Pages
    BY CalendarAssumption DEF Pages
  <2>4. QED
    BY <2>1, <2>2, <2>3
<1>9. CASE Boot
  BY <1>9 DEF Boot, ghost, bound
<1>10. CASE UNCHANGED vars
  BY <1>10 DEF vars, code, ghost, bound
<1>11. QED
  BY <1>1, <1>2, <1>3, <1>4, <1>5, <1>6, <1>7, <1>8, <1>9, <1>10 DEF Next

\* Every step keeps Rolling, and rolls is never taken back.
LEMMA RollingStep ==
    ASSUME TypeOK, Rolling, [Next]_vars
    PROVE  Rolling' /\ (rolls' = 0 => rolls = 0)
<1> USE DEF Rolling
<1>1. CASE CheckIntMin
  BY <1>1 DEF CheckIntMin, bound
<1>2. CASE CheckSector \/ Prepare \/ Place \/ Boot
  BY <1>2 DEF CheckSector, Prepare, Place, Boot, ghost, bound
<1>3. CASE Write
  BY <1>3 DEF Write, bound
<1>4. CASE Hour
  BY <1>4 DEF Hour, TypeOK
<1>5. CASE SetClock \/ Fail
  BY <1>5 DEF SetClock, Fail
<1>6. CASE UNCHANGED vars
  BY <1>6 DEF vars, ghost, bound
<1>7. QED
  BY <1>1, <1>2, <1>3, <1>4, <1>5, <1>6 DEF Next

(***************************************************************************)
(* The days of the blocks.                                                 *)
(***************************************************************************)
Distinct == \A b, c \in Blocks :
              /\ flash[First(b)].tag # "blank"
              /\ flash[First(b)].dom = flash[First(c)].dom
              => b = c

\* An erase leaves the days of the other blocks alone, and takes no new one.
LEMMA EraseKeeps ==
    ASSUME TypeOK, NEW ps, flash' = Erased(ps)
    PROVE  /\ Distinct => Distinct'
           /\ \A c \in Blocks, d \in 1..Days :
                flash[First(c)].dom # d => flash'[First(c)].dom # d
<1>1. \A c \in Blocks : First(c) \in Pages
  BY FirstIn
<1>2. \A c \in Blocks : flash'[First(c)] \in {flash[First(c)], Blank}
  BY <1>1 DEF Erased
<1>3. \A c \in Blocks : flash[First(c)].tag # "blank" => flash[First(c)].dom # 0
  BY <1>1 DEF TypeOK, Written, Page, Stamps, Blank
<1>4. Distinct => Distinct'
  BY <1>2, <1>3 DEF Distinct, Blank
<1>5. QED
  BY <1>2, <1>4 DEF Blank

\* Giving the present day to a block is safe when no other block carries it.
LEMMA WriteKeeps ==
    ASSUME TypeOK, Distinct, NEW b \in Blocks, Alone(b),
           NEW h \in 0..(Hours - 1), NEW page \in Written, page.dom = clock.dom,
           flash' = [flash EXCEPT ![First(b) + h] = page]
    PROVE  Distinct'
<1>1. \A c \in Blocks : First(c) \in Pages
  BY FirstIn
<1>2. \A c \in Blocks : c # b => flash'[First(c)] = flash[First(c)]
  BY <1>1, FirstPage, PageOfHour DEF TypeOK
<1>3. flash'[First(b)] \in {flash[First(b)], page}
  BY <1>1, FirstPage, PageOfHour DEF TypeOK
<1>4. QED
  BY <1>2, <1>3 DEF Distinct, Alone

\* While no freeze ran over the end of its hour, one day has one block.
LEMMA AimedStep ==
    ASSUME TypeOK, Rolling, Aimed, Distinct, rolls = 0, rolls' = 0, [Next]_vars
    PROVE  Aimed' /\ Distinct'
<1>1. /\ clock \in Stamps /\ clock.dom \in 1..Days /\ clock.hour \in 0..(Hours - 1)
      /\ Page("data", clock) \in Written /\ Page("data", clock).dom = clock.dom
      /\ Page("header", clock) \in Written /\ Page("header", clock).dom = clock.dom
  BY PageTypes DEF TypeOK, Stamps, Page
<1>2. CASE CheckIntMin
  BY <1>2 DEF CheckIntMin, Aimed, Distinct
<1>3. CASE CheckSector
  <2> USE <1>3 DEF CheckSector
  <2>1. CASE Holding(clock.dom) # {}
    <3>1. PICK b \in Blocks : /\ b = Lowest(Holding(clock.dom))
                              /\ flash[First(b)].dom = clock.dom
      BY <2>1, ChosenBlock
    <3>2. flash[First(b)].tag # "blank"
      BY <1>1, <3>1, FirstIn DEF TypeOK, Written, Page, Blank
    <3>3. Alone(b)
      BY <3>1, <3>2 DEF Alone, Distinct
    <3>4. flash' = flash /\ clock' = clock /\ current_add' = First(b)
      BY <2>1, <3>1
    <3>5. Alone(b)' /\ Distinct'
      BY <3>3, <3>4 DEF Alone, Distinct
    <3>6. QED
      BY <3>1, <3>4, <3>5 DEF Aimed
  <2>2. CASE Holding(clock.dom) = {}
    <3>1. \A c \in Blocks : flash[First(c)].dom # clock.dom /\ Alone(c)
      BY <2>2 DEF Holding, Alone
    <3>2. CASE Empty # {}
      <4>1. PICK b \in Blocks : b = Lowest(Empty)
        BY <3>2, ChosenBlock
      <4>2. First(b) + 0 = First(b) /\ 0 \in 0..(Hours - 1)
        BY FirstIn, CalendarAssumption
      <4>3. current_add' = First(b) /\ clock' = clock
        BY <2>2, <3>2, <4>1
      <4>4. flash' = flash \/ flash' = [flash EXCEPT ![First(b) + 0] = Page("header", clock)]
        BY <2>2, <3>2, <4>2, <4>3
      <4>5. Distinct'
        BY <1>1, <3>1, <4>1, <4>2, <4>4, WriteKeeps DEF Distinct
      <4>6. \A c \in Blocks : c # b => flash'[First(c)] = flash[First(c)]
        <5>1. \A c \in Blocks : c # b => First(c) # First(b) + 0
          BY <4>1, <4>2, FirstPage
        <5>2. QED
          BY <4>4, <5>1, FirstIn DEF TypeOK
      <4>7. Alone(b)'
        BY <3>1, <4>3, <4>6 DEF Alone
      <4>8. QED
        BY <4>1, <4>3, <4>5, <4>7 DEF Aimed
    <3>3. CASE Empty = {}
      <4>1. /\ flash' = Erased(Sectors13) /\ clock' = clock
            /\ current_add' = First(0) /\ 0 \in Blocks
        BY <2>2, <3>3 DEF Blocks
      <4>2. Distinct' /\ \A c \in Blocks : flash'[First(c)].dom # clock.dom
        BY <1>1, <3>1, <4>1, EraseKeeps
      <4>3. Alone(0)'
        BY <4>1, <4>2 DEF Alone
      <4>4. QED
        BY <4>1, <4>2, <4>3 DEF Aimed
    <3>4. QED
      BY <3>2, <3>3
  <2>3. QED
    BY <2>1, <2>2
<1>4. CASE Prepare
  BY <1>4 DEF Prepare, Aimed, Distinct, Alone, Page
<1>5. CASE Place
  <2>1. PICK b \in Blocks : current_add = First(b) /\ Alone(b)
    BY <1>5 DEF Place, Aimed
  <2>2. /\ pc' = "write" /\ clock' = clock /\ my_bl_data' = Page("data", clock)
        /\ current_add' = First(b) + clock.hour
    BY <1>5, <2>1 DEF Place, Aimed
  <2>3. flash' = flash \/ \E ps : flash' = Erased(ps)
    BY <1>5 DEF Place
  <2>4. Distinct' /\ Alone(b)'
    BY <1>1, <2>1, <2>2, <2>3, EraseKeeps DEF Distinct, Alone
  <2>5. QED
    BY <2>2, <2>4 DEF Aimed, Page
<1>6. CASE Write
  <2>1. PICK b \in Blocks : current_add = First(b) + clock.hour /\ Alone(b)
    BY <1>6 DEF Write, Aimed
  <2>2. flash' = flash \/ flash' = [flash EXCEPT ![First(b) + clock.hour] = Page("data", clock)]
    BY <1>6, <2>1 DEF Write, Aimed
  <2>3. Distinct'
    BY <1>1, <2>1, <2>2, WriteKeeps DEF Distinct
  <2>4. QED
    BY <1>6, <2>3 DEF Write, Aimed
<1>7. CASE Hour
  <2>1. ~rolled' /\ pc' = pc /\ flash' = flash
    BY <1>7 DEF Hour, code, TypeOK
  <2>2. pc \in {"idle", "off"}
    BY <1>7, <2>1 DEF Hour
  <2>3. QED
    BY <2>1, <2>2 DEF Aimed, Distinct
<1>8. CASE SetClock \/ Fail
  BY <1>8 DEF SetClock, Fail, code, Aimed, Distinct
<1>9. CASE Boot
  BY <1>9 DEF Boot, Aimed, Distinct
<1>10. CASE UNCHANGED vars
  BY <1>10 DEF vars, code, Aimed, Distinct, Alone, Page
<1>11. QED
  BY <1>2, <1>3, <1>4, <1>5, <1>6, <1>7, <1>8, <1>9, <1>10 DEF Next

(***************************************************************************)
(* The theorems.                                                           *)
(***************************************************************************)
\* The new device satisfies the invariant: all four blocks are blank.
LEMMA InitIInv == Init => IInv
<1> SUFFICES ASSUME Init PROVE IInv
  OBVIOUS
<1> USE DEF Init
<1>1. TypeOK
  <2>1. 0 \in Pages
    BY CalendarAssumption DEF Pages
  <2>2. counter_minute \in BOOLEAN /\ rolled \in BOOLEAN
    OBVIOUS
  <2>3. flash \in [Pages -> Written \cup {Blank}]
    OBVIOUS
  <2>4. QED
    BY <2>1, <2>2, <2>3, BoundsAssumption DEF TypeOK
<1>2. Addresses /\ Rolling /\ Aimed
  BY DEF Addresses, Rolling, Aimed
<1>3. DistinctDays
  <2>1. \A b \in Blocks : flash[First(b)].tag = "blank"
    BY FirstIn DEF Blank
  <2>2. QED
    BY <2>1 DEF DistinctDays
<1>4. QED
  BY <1>1, <1>2, <1>3 DEF IInv

\* Every step keeps the invariant; from the first roll-over on, only the types,
\* the addresses and the flag are left of it.
LEMMA StepIInv == IInv /\ [Next]_vars => IInv'
<1> SUFFICES ASSUME IInv, [Next]_vars PROVE IInv'
  OBVIOUS
<1>1. TypeOK' /\ Addresses'
  BY TypeStep DEF IInv
<1>2. Rolling' /\ (rolls' = 0 => rolls = 0)
  BY RollingStep DEF IInv
<1>3. rolls' = 0 => Aimed' /\ Distinct'
  BY <1>2, AimedStep DEF IInv, DistinctDays, Distinct
<1>4. QED
  BY <1>1, <1>2, <1>3 DEF IInv, DistinctDays, Distinct

\* The inductive invariant holds in every reachable state.
THEOREM Invariance == Spec => []IInv
  BY InitIInv, StepIInv, PTL DEF Spec

\* Every address the freeze computes lies inside the four blocks, every page is
\* erased or carries a valid stamp.
THEOREM TypeCorrect == Spec => []TypeOK
<1>1. IInv => TypeOK
  BY DEF IInv
<1>2. QED
  BY Invariance, <1>1, PTL

\* One day, one block, for every calendar and any number of restarts and missed
\* hours, as long as no freeze ran over the end of an hour.
THEOREM OneBlockPerDay == Spec => []DistinctDays
<1>1. IInv => DistinctDays
  BY DEF IInv
<1>2. QED
  BY Invariance, <1>1, PTL

\* The flag of an hour that began during a freeze survives the freeze.
THEOREM HourKept == Spec => []HourNotLost
<1>1. IInv => HourNotLost
  BY DEF IInv, Rolling, HourNotLost
<1>2. QED
  BY Invariance, <1>1, PTL

\* No page is programmed over: a written page changes only by an erase.
THEOREM FlashWrittenOnce == Spec => WriteOnce
<1> DEFINE Once == \A p \in Pages : flash[p] # Blank => flash'[p] \in {flash[p], Blank}
<1>1. TypeOK /\ [Next]_vars => [Once]_vars
  <2> SUFFICES ASSUME TypeOK, [Next]_vars PROVE Once
    OBVIOUS
  <2>1. \A p \in Pages : flash[p].tag = "blank" <=> flash[p] = Blank
    BY DEF TypeOK, Written, Page, Blank
  <2>2. CASE CheckSector
    <3>1. flash' = flash \/ flash' = Erased(Sectors13)
          \/ \E q, page : flash[q].tag = "blank" /\ flash' = [flash EXCEPT ![q] = page]
      BY <2>2, ChosenBlock DEF CheckSector
    <3>2. QED
      BY <2>1, <3>1 DEF TypeOK, Erased
  <2>3. CASE Place
    BY <2>3 DEF Place, Erased
  <2>4. CASE Write
    BY <2>1, <2>4 DEF Write, TypeOK
  <2>5. CASE CheckIntMin \/ Prepare \/ Hour \/ SetClock \/ Fail \/ Boot
    BY <2>5 DEF CheckIntMin, Prepare, Hour, SetClock, Fail, Boot, code
  <2>6. CASE UNCHANGED vars
    BY <2>6 DEF vars, code
  <2>7. QED
    BY <2>2, <2>3, <2>4, <2>5, <2>6 DEF Next
<1>2. QED
  BY TypeCorrect, <1>1, PTL DEF Spec, WriteOnce

(***************************************************************************)
(* The hour under which a record is filed.                                 *)
(***************************************************************************)
\* Pages of different hours are different pages.
LEMMA HourOfPage ==
    ASSUME NEW b \in Blocks, NEW h \in 0..(Hours - 1),
           NEW c \in Blocks, NEW k \in 0..(Hours - 1),
           First(b) + h = First(c) + k
    PROVE  h = k
<1>1. Hours \in Nat /\ Hours >= 2 /\ h \in Int /\ 0 <= h /\ h <= Hours - 1
      /\ k \in Int /\ 0 <= k /\ k <= Hours - 1
  BY CalendarAssumption
<1>2. b = 0 \/ b = 1 \/ b = 2 \/ b = 3
  BY DEF Blocks
<1>3. c = 0 \/ c = 1 \/ c = 2 \/ c = 3
  BY DEF Blocks
<1>4. QED
  BY <1>1, <1>2, <1>3 DEF First

\* A record stamped with hour s may be found at hour h.
MayFile(s, h) == s = h \/ (rolls > 0 /\ h = NextHour(s))

\* Between the stamp and the page the hour changes once at most.
Stamping == pc = "place" =>
    \/ my_bl_data.hour = clock.hour
    \/ rolled /\ clock.hour = NextHour(my_bl_data.hour)

Filing == pc = "write" =>
    \E b \in Blocks, h \in 0..(Hours - 1) :
        current_add = First(b) + h /\ MayFile(my_bl_data.hour, h)

FInv == Stamping /\ Filing /\ FiledByHour

\* What is stored keeps its place while nothing is written.
LEMMA FiledKeeps ==
    ASSUME IInv, [Next]_vars, FiledByHour,
           \A p \in Pages : flash'[p] = flash[p] \/ flash'[p].tag # "data"
    PROVE  FiledByHour'
<1>1. rolls > 0 => rolls' > 0
  BY RollingStep, TypeStep, BoundsAssumption DEF IInv, TypeOK
<1>2. \A b \in Blocks, h \in 0..(Hours - 1) : First(b) + h \in Pages
  BY PageOfHour
<1>3. QED
  BY <1>1, <1>2 DEF FiledByHour

LEMMA FiledStep ==
    ASSUME IInv, FInv, [Next]_vars
    PROVE  FInv'
<1> USE DEF FInv
<1>0. flash \in [Pages -> Written \cup {Blank}] /\ clock \in Stamps /\ rolls \in Nat
  BY BoundsAssumption DEF IInv, TypeOK
<1>1. CASE CheckIntMin \/ Boot
  <2>1. flash' = flash /\ pc' \notin {"place", "write"}
    BY <1>1 DEF CheckIntMin, Boot
  <2>2. QED
    BY <2>1, FiledKeeps DEF Stamping, Filing
<1>2. CASE CheckSector
  <2>1. pc' = "prepare"
    BY <1>2 DEF CheckSector
  <2>2. flash' = flash \/ flash' = Erased(Sectors13)
        \/ \E q : flash' = [flash EXCEPT ![q] = Page("header", clock)]
    BY <1>2 DEF CheckSector
  <2>3. \A p \in Pages : flash'[p] = flash[p] \/ flash'[p].tag # "data"
    BY <1>0, <2>2 DEF Erased, Page, Blank
  <2>4. QED
    BY <2>1, <2>3, FiledKeeps DEF Stamping, Filing
<1>3. CASE Prepare
  <2>1. pc' = "place" /\ flash' = flash /\ clock' = clock /\ my_bl_data' = Page("data", clock)
    BY <1>3 DEF Prepare
  <2>2. QED
    BY <2>1, FiledKeeps DEF Stamping, Filing, Page
<1>4. CASE Place
  <2>1. PICK b \in Blocks : current_add = First(b)
    BY <1>4 DEF Place, IInv, Addresses
  <2>2. /\ pc = "place" /\ pc' = "write" /\ my_bl_data' = my_bl_data /\ rolls' = rolls
        /\ current_add' = First(b) + clock.hour
    BY <1>4, <2>1 DEF Place, bound
  <2>3. MayFile(my_bl_data.hour, clock.hour)
    BY <1>0, <2>2 DEF Stamping, MayFile, IInv, Rolling
  <2>4. clock.hour \in 0..(Hours - 1)
    BY <1>0 DEF Stamps
  <2>5. Filing' /\ Stamping'
    BY <2>2, <2>3, <2>4 DEF Filing, Stamping, MayFile
  <2>6. \A p \in Pages : flash'[p] = flash[p] \/ flash'[p].tag # "data"
    BY <1>4 DEF Place, Erased, Blank
  <2>7. QED
    BY <2>5, <2>6, FiledKeeps
<1>5. CASE Write
  <2>1. PICK b \in Blocks, h \in 0..(Hours - 1) :
             current_add = First(b) + h /\ MayFile(my_bl_data.hour, h)
    BY <1>5 DEF Write, Filing
  <2>2. pc' = "idle" /\ rolls' = rolls
    BY <1>5 DEF Write, bound
  <2>3. flash' = flash \/ flash' = [flash EXCEPT ![First(b) + h] = my_bl_data]
    BY <1>5, <2>1 DEF Write
  <2>4. FiledByHour'
    <3> SUFFICES ASSUME NEW c \in Blocks, NEW k \in 0..(Hours - 1),
                        flash'[First(c) + k].tag = "data"
                 PROVE  MayFile(flash'[First(c) + k].hour, k)
      BY <2>2 DEF FiledByHour, MayFile
    <3>1. First(c) + k \in Pages
      BY PageOfHour
    <3>2. CASE flash'[First(c) + k] = flash[First(c) + k]
      BY <3>2 DEF FiledByHour, MayFile
    <3>3. CASE flash'[First(c) + k] # flash[First(c) + k]
      <4>1. First(c) + k = First(b) + h /\ flash'[First(c) + k] = my_bl_data
        BY <1>0, <2>3, <3>1, <3>3
      <4>2. k = h
        BY <4>1, HourOfPage
      <4>3. QED
        BY <2>1, <4>1, <4>2
    <3>4. QED
      BY <3>2, <3>3
  <2>5. QED
    BY <2>2, <2>4 DEF Stamping, Filing
<1>6. CASE Hour
  <2>1. /\ pc' = pc /\ flash' = flash /\ my_bl_data' = my_bl_data
        /\ current_add' = current_add
    BY <1>6 DEF Hour, code
  <2>2. rolls > 0 => rolls' > 0
    BY <1>0, <1>6 DEF Hour
  <2>3. Filing'
    BY <2>1, <2>2 DEF Filing, MayFile
  <2>4. clock'.hour = NextHour(clock.hour)
    BY <1>0, <1>6 DEF Hour, NextHour, NextDay, Stamps
  <2>5. pc = "place" => ~rolled /\ rolled'
    BY <1>6 DEF Hour
  <2>6. Stamping'
    BY <2>1, <2>4, <2>5 DEF Stamping
  <2>7. QED
    BY <2>1, <2>3, <2>6, FiledKeeps
<1>7. CASE SetClock \/ Fail
  <2>1. flash' = flash /\ pc' \notin {"place", "write"}
    BY <1>7 DEF SetClock, Fail, code
  <2>2. QED
    BY <2>1, FiledKeeps DEF Stamping, Filing
<1>8. CASE UNCHANGED vars
  BY <1>8 DEF vars, code, ghost, bound, Stamping, Filing, FiledByHour, MayFile
<1>9. QED
  BY <1>1, <1>2, <1>3, <1>4, <1>5, <1>6, <1>7, <1>8 DEF Next

\* A record is filed under its hour, or under the next one when its freeze ran
\* over the end of the hour, whatever is missed, restarted or set.
THEOREM RecordsFiled == Spec => []FiledByHour
<1>1. Init => FInv
  <2> SUFFICES ASSUME Init PROVE FInv
    OBVIOUS
  <2>1. \A b \in Blocks, h \in 0..(Hours - 1) : flash[First(b) + h] = Blank
    BY PageOfHour DEF Init
  <2>2. FiledByHour
    BY <2>1 DEF FiledByHour, Blank
  <2>3. QED
    BY <2>2 DEF Init, FInv, Stamping, Filing
<1>2. IInv /\ FInv /\ [Next]_vars => FInv'
  BY FiledStep
<1>3. FInv => FiledByHour
  BY DEF FInv
<1>4. QED
  BY <1>1, <1>2, <1>3, Invariance, PTL DEF Spec

(***************************************************************************)
(* The present day on a device that runs without interruption.             *)
(***************************************************************************)
Uninterrupted == restarts = 0 /\ misses = 0 /\ rolls = 0 /\ sets = 0

\* The day of month n days ago.
Ago(n) == IF n < clock.dom THEN clock.dom - n ELSE clock.dom - n + Days

\* How many days ago each block was begun, None of a blank block.
None == -1
AllAges == [Blocks -> {None} \cup 0..Days]

Bare(b) == \A h \in 0..(Hours - 1) : flash[First(b) + h] = Blank

Ages(a) == \A b \in Blocks :
    IF a[b] = None THEN Bare(b)
    ELSE flash[First(b)].tag # "blank" /\ flash[First(b)].dom = Ago(a[b])

\* The ages at the beginning of a day, before it has a block, by mode: blocks 0
\* and 1 take turns, and blocks 2 and 3 grow old together until the day of month
\* of block 2 comes again.
Dawn(a, m) ==
    \/ /\ m = 0
       /\ \/ a[0] = None /\ a[1] = None
          \/ a[0] = 1 /\ a[1] = None
          \/ a[0] = 2 /\ a[1] = 1
       /\ \/ a[2] = None /\ a[3] = None
          \/ 1 <= a[3] /\ a[3] < a[2] /\ a[2] < Days
          \/ 1 <= a[3] /\ a[3] < a[2] /\ a[2] = Days /\ a[0] # None
    \/ /\ m = 1 /\ a[3] = None
       /\ \/ a[0] = 2 /\ a[1] = None /\ a[2] = 1
          \/ a[0] = 3 /\ a[1] = 2 /\ a[2] = 1
          \/ a[0] = 3 /\ a[1] = 1 /\ a[2] = 2

\* The block that is chosen for the day.
Chosen(a, m, b) ==
    \/ m = 0 /\ a[2] = Days /\ b = 2
    \/ m = 0 /\ a[2] # Days /\ a[0] = None /\ b = 0
    \/ m = 0 /\ a[2] # Days /\ a[0] = 1 /\ b = 1
    \/ m = 0 /\ a[2] = None /\ a[0] = 2 /\ b = 2
    \/ m = 1 /\ a[1] = None /\ b = 1
    \/ m = 1 /\ a[1] # None /\ b = 3

\* The ages during the day, whose block is b,
Day(a, m, b) ==
    \/ /\ m = 0
       /\ \/ b = 0 /\ a[0] = 0 /\ a[1] = None
          \/ b = 1 /\ a[0] = 1 /\ a[1] = 0
       /\ \/ a[2] = None /\ a[3] = None
          \/ 1 <= a[3] /\ a[3] < a[2] /\ a[2] < Days
    \/ /\ m = 1 /\ a[3] = None
       /\ \/ b = 2 /\ a[0] = 1 /\ a[1] = None /\ a[2] = 0
          \/ b = 2 /\ a[0] = 2 /\ a[1] = 1 /\ a[2] = 0
          \/ b = 1 /\ a[0] = 2 /\ a[1] = 0 /\ a[2] = 1
    \/ /\ m = 1 /\ b = 3 /\ a[3] = 0
       /\ \/ a[0] = 3 /\ a[1] = 2 /\ a[2] = 1
          \/ a[0] = 3 /\ a[1] = 1 /\ a[2] = 2

\* and after the last hour in block 3.
Late(a, m, b) ==
    /\ m = 0 /\ b = 3
    /\ a[0] = None /\ a[1] = None /\ a[2] \in 1..2 /\ a[3] = 0

\* The present hour is still to be frozen.
Due == counter_minute \/ pc # "idle"

\* Block b holds the frozen hours of the day, and its later pages are blank.
Filled(b) ==
    \A h \in 0..(Hours - 1) :
        /\ h \in frozen => flash[First(b) + h] = Page("data", [clock EXCEPT !.hour = h])
        /\ h > clock.hour \/ (h = clock.hour /\ Due) =>
              h \notin frozen /\ (h # 0 => flash[First(b) + h] = Blank)

\* The device has frozen nothing yet.
Virgin ==
    /\ mode = 0 /\ frozen = {} /\ pc \in {"idle", "sector"}
    /\ \A b \in Blocks : Bare(b)

\* Hour 0 of a day: before its block is chosen, while it is being chosen, and
\* before its first record is written.
Waiting ==
    /\ clock.hour = 0 /\ Due /\ pc \in {"idle", "sector"} /\ frozen = {}
    /\ \E a \in AllAges : Ages(a) /\ Dawn(a, mode)

Choosing ==
    /\ clock.hour = 0 /\ pc \in {"prepare", "place"} /\ frozen = {}
    /\ \E a \in AllAges, b \in Blocks :
          Ages(a) /\ Dawn(a, mode) /\ Chosen(a, mode, b) /\ current_add = First(b)

Placed ==
    /\ clock.hour = 0 /\ pc = "write" /\ frozen = {}
    /\ \E a \in AllAges, b \in Blocks :
          /\ Ages(a) /\ a[b] = None /\ Day([a EXCEPT ![b] = 0], mode, b)
          /\ current_add = First(b)

\* The rest of the day.
Running ==
    /\ Due => clock.hour # 0
    /\ \E a \in AllAges, b \in Blocks :
          /\ Ages(a) /\ Filled(b)
          /\ \/ Day(a, mode, b) /\ (b = 3 /\ (pc = "write" \/ ~Due) => clock.hour < Hours - 1)
             \/ Late(a, mode, b) /\ (pc = "write" \/ ~Due) /\ clock.hour = Hours - 1
          /\ pc \in {"prepare", "place"} => current_add = First(b)
          /\ pc = "write" => current_add = First(b) + clock.hour

Kept ==
    /\ pc # "off" /\ ~rolled /\ (counter_minute => pc = "idle")
    /\ Virgin \/ Waiting \/ Choosing \/ Placed \/ Running

(***************************************************************************)
(* Ages and flash.                                                         *)
(***************************************************************************)
\* Blocks 0 and 1 are in sectors 1 to 3, blocks 2 and 3 in sectors 4 to 6, and
\* no page is in two blocks.
LEMMA Halves ==
    /\ 0 \in 0..(Hours - 1) /\ Hours - 1 \in 0..(Hours - 1) /\ Hours - 1 # 0
    /\ \A b \in Blocks, h \in 0..(Hours - 1) :
          /\ First(b) + h \in Sectors13 <=> b \in {0, 1}
          /\ First(b) + h \in Sectors46 <=> b \in {2, 3}
    /\ \A b, c \in Blocks : \A h, i \in 0..(Hours - 1) :
          First(b) + h = First(c) + i => b = c /\ h = i
<1>1. Hours \in Nat /\ Hours >= 2
  BY CalendarAssumption
<1>2. ASSUME NEW b \in Blocks, NEW h \in 0..(Hours - 1)
      PROVE  /\ First(b) + h \in Sectors13 <=> b \in {0, 1}
             /\ First(b) + h \in Sectors46 <=> b \in {2, 3}
  <2>1. b = 0 \/ b = 1 \/ b = 2 \/ b = 3
    BY DEF Blocks
  <2>2. QED
    BY <1>1, <2>1, PageOfHour DEF First, Sectors13, Sectors46
<1>3. ASSUME NEW b \in Blocks, NEW c \in Blocks, NEW h \in 0..(Hours - 1),
             NEW i \in 0..(Hours - 1), First(b) + h = First(c) + i
      PROVE  b = c /\ h = i
  <2>1. /\ b = 0 \/ b = 1 \/ b = 2 \/ b = 3
        /\ c = 0 \/ c = 1 \/ c = 2 \/ c = 3
    BY DEF Blocks
  <2>2. QED
    BY <1>1, <1>3, <2>1 DEF First
<1>4. QED
  BY <1>1, <1>2, <1>3

\* Nothing else about the present day changes.
LEMMA AgesStay ==
    ASSUME TypeOK, NEW a \in AllAges, Ages(a), clock'.dom = clock.dom,
           \A b \in Blocks : a[b] = None =>
               \A h \in 0..(Hours - 1) : flash'[First(b) + h] = flash[First(b) + h],
           \A b \in Blocks : flash'[First(b)] = flash[First(b)]
    PROVE  Ages(a)'
BY DEF Ages, Bare, Ago

\* An erase makes blocks blank.
Wiped(a, B) == [b \in Blocks |-> IF b \in B THEN None ELSE a[b]]

\* Then the ages of those blocks are None.
LEMMA AgesErased ==
    ASSUME TypeOK, NEW a \in AllAges, Ages(a), NEW S, NEW B \in SUBSET Blocks,
           \A b \in Blocks, h \in 0..(Hours - 1) : First(b) + h \in S <=> b \in B,
           flash' = Erased(S), clock' = clock
    PROVE  Wiped(a, B) \in AllAges /\ Ages(Wiped(a, B))'
<1>1. \A b \in Blocks, h \in 0..(Hours - 1) :
         flash'[First(b) + h] = IF b \in B THEN Blank ELSE flash[First(b) + h]
  BY PageOfHour DEF Erased
<1>2. \A b \in Blocks : flash'[First(b)] = IF b \in B THEN Blank ELSE flash[First(b)]
  BY <1>1, FirstIn, Halves
<1>3. Wiped(a, B) \in AllAges
  BY DEF AllAges, Wiped
<1>4. Ages(Wiped(a, B))'
  BY <1>1, <1>2 DEF Ages, Bare, Ago, Wiped
<1>5. QED
  BY <1>3, <1>4

\* The first page written makes a blank block that of the present day.
LEMMA AgesBegun ==
    ASSUME TypeOK, NEW a \in AllAges, Ages(a), NEW b \in Blocks,
           NEW page \in Written, page.dom = clock.dom,
           flash' = [flash EXCEPT ![First(b)] = page], clock' = clock
    PROVE  [a EXCEPT ![b] = 0] \in AllAges /\ Ages([a EXCEPT ![b] = 0])'
<1> DEFINE e == [a EXCEPT ![b] = 0]
<1>1. clock.dom \in 1..Days /\ Days \in Nat
  BY CalendarAssumption DEF TypeOK, Stamps
<1>2. e \in AllAges /\ e[b] = 0 /\ \A c \in Blocks : c # b => e[c] = a[c]
  BY <1>1 DEF AllAges
<1>3. /\ \A c \in Blocks, h \in 0..(Hours - 1) :
            c # b => flash'[First(c) + h] = flash[First(c) + h]
      /\ \A c \in Blocks : c # b => flash'[First(c)] = flash[First(c)]
      /\ flash'[First(b)] = page
  <2>1. First(b) + 0 = First(b) /\ First(b) \in Pages
    BY FirstIn
  <2>2. \A c \in Blocks, h \in 0..(Hours - 1) : c # b => First(c) + h # First(b)
    BY <2>1, Halves
  <2>3. \A c \in Blocks : c # b => First(c) # First(b)
    BY <2>2, FirstIn, Halves
  <2>4. QED
    BY <2>1, <2>2, <2>3, PageOfHour, FirstIn DEF TypeOK
<1>4. page.tag # "blank" /\ page.dom = Ago(0) /\ 0 # None
  BY <1>1 DEF Written, Page, Ago, None
<1>5. Ages(e)'
  BY <1>2, <1>3, <1>4 DEF Ages, Bare, Ago
<1>6. QED
  BY <1>2, <1>5

\* At midnight everything grows a day older.
Older(a) == [b \in Blocks |-> IF a[b] = None THEN None ELSE a[b] + 1]

\* Then the ages are right again.
LEMMA AgesGrow ==
    ASSUME TypeOK, NEW a \in AllAges, Ages(a), \A b \in Blocks : a[b] < Days,
           flash' = flash, clock' = NextDay(clock)
    PROVE  Older(a) \in AllAges /\ Ages(Older(a))'
<1>1. clock.dom \in 1..Days /\ Days \in Nat /\ Days >= 1
  BY CalendarAssumption DEF TypeOK, Stamps
<1>2. clock'.dom = IF clock.dom = Days THEN 1 ELSE clock.dom + 1
  BY DEF NextDay
<1>3. \A b \in Blocks : a[b] = None \/ a[b] \in 0..(Days - 1)
  BY <1>1 DEF AllAges, None
<1>4. \A n \in 0..(Days - 1) : Ago(n + 1)' = Ago(n) /\ n + 1 # None /\ n # None
  BY <1>1, <1>2 DEF Ago, None
<1>5. Older(a) \in AllAges
  BY <1>1, <1>3 DEF Older, AllAges
<1>6. Ages(Older(a))'
  <2> SUFFICES ASSUME NEW b \in Blocks
               PROVE  IF Older(a)[b] = None THEN Bare(b)'
                      ELSE flash'[First(b)].tag # "blank" /\ flash'[First(b)].dom = Ago(Older(a)[b])'
    BY DEF Ages
  <2>1. CASE a[b] = None
    BY <2>1 DEF Older, Ages, Bare
  <2>2. CASE a[b] # None
    <3>1. a[b] \in 0..(Days - 1) /\ Older(a)[b] = a[b] + 1
      BY <1>3, <2>2 DEF Older
    <3>2. Ago(Older(a)[b])' = Ago(a[b])
      BY <1>4, <3>1
    <3>3. QED
      BY <1>4, <2>2, <3>1, <3>2 DEF Ages
  <2>3. QED
    BY <2>1, <2>2
<1>7. QED
  BY <1>5, <1>6

\* What check_add_current() and check_sector_current() find.
LEMMA LookUp ==
    ASSUME TypeOK, NEW a \in AllAges, Ages(a)
    PROVE  /\ Holding(clock.dom) = {b \in Blocks : a[b] = 0 \/ a[b] = Days}
           /\ Empty = {b \in Blocks : a[b] = None}
<1>1. clock.dom \in 1..Days /\ Days \in Nat /\ Days >= 1
  BY CalendarAssumption DEF TypeOK, Stamps
<1>2. \A n \in 0..Days : n # None /\ (Ago(n) = clock.dom <=> n = 0 \/ n = Days)
  BY <1>1 DEF Ago, None
<1>3. ASSUME NEW b \in Blocks
      PROVE  /\ flash[First(b)].dom = clock.dom <=> a[b] = 0 \/ a[b] = Days
             /\ flash[First(b)].tag = "blank" <=> a[b] = None
  <2>1. CASE a[b] = None
    <3>1. flash[First(b)] = Blank
      BY <2>1, FirstIn, Halves DEF Ages, Bare
    <3>2. QED
      BY <1>1, <2>1, <3>1 DEF Blank, None
  <2>2. CASE a[b] # None
    <3>1. a[b] \in 0..Days
      BY <2>2 DEF AllAges
    <3>2. QED
      BY <1>2, <2>2, <3>1 DEF Ages
  <2>3. QED
    BY <2>1, <2>2
<1>4. QED
  BY <1>3 DEF Holding, Empty

\* The lowest block of a set, when it is known.
LEMMA LowestIs ==
    ASSUME NEW bs \in SUBSET Blocks, NEW b \in bs, \A c \in bs : b <= c
    PROVE  Lowest(bs) = b
<1>1. \A c \in bs : c \in Int
  BY DEF Blocks
<1>2. \A x \in bs : (\A c \in bs : x <= c) => x = b
  BY <1>1
<1>3. Lowest(bs) \in bs /\ \A c \in bs : Lowest(bs) <= c
  BY DEF Lowest
<1>4. QED
  BY <1>2, <1>3

(***************************************************************************)
(* The choice of a block.                                                  *)
(***************************************************************************)
\* The block a day begins with, for each of the ages it may begin with.
LEMMA ChoiceAtDawn ==
    ASSUME TypeOK, NEW a \in AllAges, Ages(a), Dawn(a, mode), clock.hour = 0, CheckSector
    PROVE  \E e \in AllAges, b \in Blocks :
              Ages(e)' /\ Dawn(e, mode) /\ Chosen(e, mode, b) /\ current_add' = First(b)
<1> USE MonthAssumption DEF None
<1>0. /\ Days \in Nat /\ Days >= 4 /\ clock' = clock
      /\ 0 \in Blocks /\ 1 \in Blocks /\ 2 \in Blocks /\ 3 \in Blocks
      /\ \A b \in Blocks : a[b] = -1 \/ a[b] \in 0..Days
  BY CalendarAssumption DEF CheckSector, AllAges, Blocks
<1>1. /\ Holding(clock.dom) = {b \in Blocks : a[b] = 0 \/ a[b] = Days}
      /\ Empty = {b \in Blocks : a[b] = -1}
  BY LookUp
<1>2. CASE a[2] = Days
  <2>1. Holding(clock.dom) = {2}
    BY <1>0, <1>1, <1>2 DEF Dawn, Blocks
  <2>2. Lowest({2}) = 2
    BY <1>0, LowestIs
  <2>3. current_add' = First(2) /\ flash' = flash
    BY <2>1, <2>2 DEF CheckSector
  <2>4. Ages(a)' /\ Chosen(a, mode, 2)
    BY <1>0, <1>2, <2>3 DEF Ages, Bare, Ago, Dawn, Chosen
  <2>5. QED
    BY <1>0, <2>3, <2>4
<1>3. CASE a[2] # Days
  <2>1. Holding(clock.dom) = {}
    BY <1>0, <1>1, <1>3 DEF Dawn, Blocks
  <2>2. ASSUME NEW b \in Empty, \A c \in Empty : b <= c, Chosen(a, mode, b)
        PROVE  \E e \in AllAges, c \in Blocks :
                  Ages(e)' /\ Dawn(e, mode) /\ Chosen(e, mode, c) /\ current_add' = First(c)
    <3>1. Lowest(Empty) = b /\ b \in Blocks
      BY <2>2, LowestIs DEF Empty
    <3>2. current_add' = First(b) /\ flash' = flash
      BY <2>1, <2>2, <3>1 DEF CheckSector
    <3>3. Ages(a)'
      BY <1>0, <3>2 DEF Ages, Bare, Ago
    <3>4. QED
      BY <2>2, <3>1, <3>2, <3>3
  <2>3. CASE mode = 0 /\ a[0] = -1
    <3>1. 0 \in Empty /\ \A c \in Empty : 0 <= c
      BY <1>0, <1>1, <2>3 DEF Blocks
    <3>2. QED
      BY <1>3, <2>2, <2>3, <3>1 DEF Chosen
  <2>4. CASE mode = 0 /\ a[0] = 1
    <3>1. 1 \in Empty /\ \A c \in Empty : 1 <= c
      BY <1>0, <1>1, <2>4 DEF Blocks, Dawn
    <3>2. QED
      BY <1>3, <2>2, <2>4, <3>1 DEF Chosen
  <2>5. CASE mode = 0 /\ a[0] = 2 /\ a[2] = -1
    <3>1. 2 \in Empty /\ \A c \in Empty : 2 <= c
      BY <1>0, <1>1, <2>5 DEF Blocks, Dawn
    <3>2. QED
      BY <1>3, <2>2, <2>5, <3>1 DEF Chosen
  <2>6. CASE mode = 0 /\ a[0] = 2 /\ a[2] # -1
    <3>1. Empty = {}
      BY <1>0, <1>1, <2>6 DEF Blocks, Dawn
    <3>2. current_add' = First(0) /\ flash' = Erased(Sectors13)
      BY <2>1, <3>1 DEF CheckSector
    <3> DEFINE e == Wiped(a, {0, 1})
    <3>3. e \in AllAges /\ Ages(e)'
      <4>1. {0, 1} \in SUBSET Blocks
        BY <1>0
      <4>2. QED
        BY <1>0, <3>2, <4>1, AgesErased, Halves
    <3>4. e[0] = -1 /\ e[1] = -1 /\ e[2] = a[2] /\ e[3] = a[3]
      BY <1>0 DEF Wiped
    <3> HIDE DEF e
    <3>5. Dawn(e, mode) /\ Chosen(e, mode, 0)
      BY <1>0, <1>3, <2>6, <3>4 DEF Dawn, Chosen
    <3>6. QED
      BY <1>0, <3>2, <3>3, <3>5
  <2>7. CASE mode = 1 /\ a[1] = -1
    <3>1. 1 \in Empty /\ \A c \in Empty : 1 <= c
      BY <1>0, <1>1, <2>7 DEF Blocks, Dawn
    <3>2. QED
      BY <1>3, <2>2, <2>7, <3>1 DEF Chosen
  <2>8. CASE mode = 1 /\ a[1] # -1
    <3>1. 3 \in Empty /\ \A c \in Empty : 3 <= c
      BY <1>0, <1>1, <2>8 DEF Blocks, Dawn
    <3>2. QED
      BY <1>3, <2>2, <2>8, <3>1 DEF Chosen
  <2>9. QED
    BY <2>3, <2>4, <2>5, <2>6, <2>7, <2>8 DEF Dawn
<1>4. QED
  BY <1>2, <1>3

\* The first hour is placed on a blank block.
LEMMA PlaceAtDawn ==
    ASSUME TypeOK, NEW a \in AllAges, NEW b \in Blocks, Ages(a), Dawn(a, mode),
           Chosen(a, mode, b), current_add = First(b), clock.hour = 0, Place
    PROVE  /\ current_add' = First(b)
           /\ \E e \in AllAges :
                 Ages(e)' /\ e[b] = None /\ Day([e EXCEPT ![b] = 0], mode', b)
<1> USE DEF None
<1>0. /\ Hours \in Nat /\ Hours >= 2 /\ clock' = clock /\ Days \in Nat /\ Days >= 4
      /\ 0 \in Blocks /\ 1 \in Blocks /\ 2 \in Blocks /\ 3 \in Blocks
  BY CalendarAssumption, MonthAssumption DEF Place, Blocks
<1>1. current_add' = First(b)
  BY FirstIn DEF Place
<1>2. DOMAIN a = Blocks /\ \A c \in Blocks : a[c] \in {-1} \cup 0..Days
  BY DEF AllAges
<1>3. CASE mode = 0 /\ b = 2
  <2>1. mode' = 1 /\ flash' = Erased(Sectors46)
    BY <1>0, <1>1, <1>3 DEF Place, First
  <2> DEFINE e == Wiped(a, {2, 3})
  <2>2. e \in AllAges /\ Ages(e)'
    <3>1. {2, 3} \in SUBSET Blocks
      BY <1>0
    <3>2. QED
      BY <1>0, <2>1, <3>1, AgesErased, Halves
  <2>3. e[0] = a[0] /\ e[1] = a[1] /\ e[2] = -1 /\ e[3] = -1 /\ DOMAIN e = Blocks
    BY <1>0 DEF Wiped
  <2> HIDE DEF e
  <2>4. Day([e EXCEPT ![2] = 0], 1, 2)
    BY <1>0, <1>2, <1>3, <2>3 DEF Dawn, Chosen, Day
  <2>5. QED
    BY <1>1, <1>3, <2>1, <2>2, <2>3, <2>4
<1>4. CASE mode = 1 \/ b # 2
  <2>1. mode = 0 => b = 0 \/ b = 1
    BY <1>0, <1>4 DEF Dawn, Chosen
  <2>2. mode = 1 => b = 1 \/ b = 3
    BY <1>0, <1>4 DEF Dawn, Chosen
  <2>3. mode' = mode /\ flash' = flash
    BY <1>0, <1>1, <2>1, <2>2 DEF Place, First, TypeOK
  <2>4. Ages(a)'
    BY <1>0, <2>3 DEF Ages, Bare, Ago
  <2>5. a[b] = -1 /\ Day([a EXCEPT ![b] = 0], mode, b)
    <3>1. CASE b = 0
      BY <1>0, <1>2, <2>1, <2>2, <3>1 DEF Dawn, Chosen, Day, TypeOK
    <3>2. CASE b = 1
      BY <1>0, <1>2, <2>1, <2>2, <3>2 DEF Dawn, Chosen, Day, TypeOK
    <3>3. CASE b = 3
      BY <1>0, <1>2, <2>1, <2>2, <3>3 DEF Dawn, Chosen, Day, TypeOK
    <3>4. QED
      BY <2>1, <2>2, <3>1, <3>2, <3>3 DEF TypeOK
  <2>6. QED
    BY <1>1, <2>3, <2>4, <2>5
<1>5. QED
  BY <1>3, <1>4 DEF TypeOK

\* After midnight the ages are those a day may begin with.
LEMMA NightToDawn ==
    ASSUME NEW a \in AllAges, NEW b \in Blocks,
           (Day(a, mode, b) /\ b # 3) \/ Late(a, mode, b)
    PROVE  (\A c \in Blocks : a[c] < Days) /\ Dawn(Older(a), mode)
<1>0. /\ Days \in Nat /\ Days >= 4
      /\ 0 \in Blocks /\ 1 \in Blocks /\ 2 \in Blocks /\ 3 \in Blocks
      /\ \A c \in Blocks : c = 0 \/ c = 1 \/ c = 2 \/ c = 3
  BY CalendarAssumption, MonthAssumption DEF Blocks
<1>1. \A c \in Blocks : a[c] \in {-1} \cup 0..Days
  BY DEF AllAges, None
<1>2. \A c \in Blocks : a[c] < Days
  <2>1. a[0] < Days /\ a[1] < Days /\ a[2] < Days /\ a[3] < Days
    BY <1>0, <1>1 DEF Day, Late, None
  <2>2. QED
    BY <1>0, <2>1
<1>3. \A c \in Blocks : Older(a)[c] = IF a[c] = -1 THEN -1 ELSE a[c] + 1
  BY DEF Older, None
<1>4. Dawn(Older(a), mode)
  BY <1>0, <1>1, <1>3 DEF Day, Late, Dawn, None
<1>5. QED
  BY <1>2, <1>4

(***************************************************************************)
(* The steps of a day.                                                     *)
(***************************************************************************)
\* What is frozen stays as long as the pages of the block do.
LEMMA FilledStays ==
    ASSUME NEW b \in Blocks, Filled(b), clock' = clock, frozen' = frozen, Due' => Due,
           \A h \in 0..(Hours - 1) : flash'[First(b) + h] = flash[First(b) + h]
    PROVE  Filled(b)'
BY DEF Filled

\* A step that touches neither the clock nor the flash.
LEMMA NothingMoves ==
    ASSUME NEW a \in AllAges, NEW b \in Blocks, UNCHANGED <<flash, clock, frozen>>, Due' => Due
    PROVE  /\ Ages(a) => Ages(a)'
           /\ Filled(b) => Filled(b)'
           /\ \A c \in Blocks : Bare(c) => Bare(c)'
BY DEF Ages, Bare, Ago, Filled

\* The first block of the device.
LEMMA FirstDay ==
    ASSUME TypeOK, \A b \in Blocks : Bare(b), mode = 0
    PROVE  LET n == [b \in Blocks |-> None]
           IN  n \in AllAges /\ Ages(n) /\ Dawn(n, mode)
<1> DEFINE n == [b \in Blocks |-> None]
<1>1. n \in AllAges /\ Ages(n)
  BY DEF AllAges, Ages
<1>2. Dawn(n, mode)
  BY DEF Dawn, Blocks
<1>3. QED
  BY <1>1, <1>2

\* During the day its block is the only one that is found.
LEMMA TodaysBlock ==
    ASSUME TypeOK, NEW a \in AllAges, NEW b \in Blocks, Ages(a),
           Day(a, mode, b) \/ Late(a, mode, b)
    PROVE  Holding(clock.dom) = {b} /\ Lowest({b}) = b
<1>0. /\ Days \in Nat /\ Days >= 4 /\ 0 \in Blocks /\ 1 \in Blocks /\ 2 \in Blocks
      /\ 3 \in Blocks /\ \A c \in Blocks : c = 0 \/ c = 1 \/ c = 2 \/ c = 3
      /\ \A c \in Blocks : a[c] \in {-1} \cup 0..Days
  BY CalendarAssumption, MonthAssumption DEF Blocks, AllAges, None
<1>1. /\ (a[0] = 0 \/ a[0] = Days) <=> 0 = b
      /\ (a[1] = 0 \/ a[1] = Days) <=> 1 = b
      /\ (a[2] = 0 \/ a[2] = Days) <=> 2 = b
      /\ (a[3] = 0 \/ a[3] = Days) <=> 3 = b
  BY <1>0 DEF Day, Late, None
<1>2. \A c \in Blocks : (a[c] = 0 \/ a[c] = Days) <=> c = b
  BY <1>0, <1>1
<1>3. Holding(clock.dom) = {b}
  BY <1>2, LookUp
<1>4. {b} \in SUBSET Blocks /\ \A c \in {b} : b <= c
  BY <1>0
<1>5. QED
  BY <1>3, <1>4, LowestIs

\* The block of the day is found, or one is chosen for it.
LEMMA KeptCheckSector ==
    ASSUME TypeOK, Kept, CheckSector
    PROVE  Kept'
<1>0. /\ pc = "sector" /\ pc' = "prepare" /\ ~counter_minute
      /\ UNCHANGED <<mode, clock, counter_minute, frozen, rolled>>
  BY DEF CheckSector, Kept, ghost
<1>1. pc' # "off" /\ ~rolled' /\ ~counter_minute' /\ Due' /\ Due
  BY <1>0 DEF Kept, Due
<1>2. CASE clock.hour = 0
  <2>1. PICK a \in AllAges : Ages(a) /\ Dawn(a, mode)
    <3>1. CASE Virgin
      BY <3>1, FirstDay DEF Virgin
    <3>2. CASE Waiting
      BY <3>2 DEF Waiting
    <3>3. QED
      BY <1>0, <1>1, <1>2, <3>1, <3>2 DEF Kept, Choosing, Placed, Running
  <2>2. frozen = {}
    BY <1>0, <1>1, <1>2 DEF Kept, Virgin, Waiting, Choosing, Placed, Running
  <2>3. Choosing'
    BY <1>0, <1>2, <2>1, <2>2, ChoiceAtDawn DEF Choosing
  <2>4. QED
    BY <1>1, <2>3 DEF Kept
<1>3. CASE clock.hour # 0 /\ Virgin
  <2> DEFINE n == [b \in Blocks |-> None]
  <2>1. n \in AllAges /\ Ages(n) /\ 0 \in Blocks
    BY <1>3, FirstDay DEF Virgin, Blocks
  <2>2. Holding(clock.dom) = {} /\ Empty = Blocks
    <3>1. None # 0 /\ None # Days
      BY CalendarAssumption DEF None
    <3>2. QED
      BY <2>1, <3>1, LookUp
  <2>3. Lowest(Blocks) = 0
    BY LowestIs DEF Blocks
  <2>4. /\ current_add' = First(0)
        /\ flash' = [flash EXCEPT ![First(0)] = Page("header", clock)]
    BY <1>3, <2>1, <2>2, <2>3 DEF CheckSector
  <2>5. [n EXCEPT ![0] = 0] \in AllAges /\ Ages([n EXCEPT ![0] = 0])'
    <3>1. Page("header", clock) \in Written /\ Page("header", clock).dom = clock.dom
      BY PageTypes DEF TypeOK, Page
    <3>2. clock' = clock
      BY <1>0
    <3> HIDE DEF n
    <3>3. QED
      BY <2>1, <2>4, <3>1, <3>2, AgesBegun
  <2>6. Day([n EXCEPT ![0] = 0], mode, 0)
    BY <1>3 DEF Day, Virgin, Blocks
  <2>7. Filled(0)'
    <3>1. \A h \in 0..(Hours - 1) : h # 0 => flash'[First(0) + h] = Blank
      <4>1. \A h \in 0..(Hours - 1) : h # 0 => First(0) + h # First(0)
        BY CalendarAssumption DEF First
      <4>2. \A h \in 0..(Hours - 1) : flash[First(0) + h] = Blank
        BY <1>3, <2>1 DEF Virgin, Bare
      <4>3. QED
        BY <2>1, <2>4, <4>1, <4>2, PageOfHour DEF TypeOK
    <3>2. frozen' = {}
      BY <1>0, <1>3 DEF Virgin
    <3>3. QED
      BY <3>1, <3>2 DEF Filled
  <2>8. Running'
    <3> HIDE DEF n
    <3>1. Day([n EXCEPT ![0] = 0], mode', 0) /\ clock'.hour # 0
      BY <1>0, <1>3, <2>6
    <3>2. QED
      BY <1>0, <2>1, <2>4, <2>5, <2>7, <3>1 DEF Running
  <2>9. QED
    BY <1>1, <2>8 DEF Kept
<1>4. CASE clock.hour # 0 /\ Running
  <2>1. PICK a \in AllAges, b \in Blocks : Ages(a) /\ Filled(b) /\ Day(a, mode, b)
    BY <1>0, <1>1, <1>4 DEF Running
  <2>2. Holding(clock.dom) = {b} /\ Lowest({b}) = b
    BY <2>1, TodaysBlock
  <2>3. current_add' = First(b) /\ flash' = flash
    BY <2>2 DEF CheckSector
  <2>4. Ages(a)' /\ Filled(b)'
    BY <1>0, <1>1, <2>1, <2>3, NothingMoves
  <2>5. Running'
    BY <1>0, <1>1, <1>4, <2>1, <2>3, <2>4 DEF Running
  <2>6. QED
    BY <1>1, <2>5 DEF Kept
<1>5. QED
  BY <1>0, <1>2, <1>3, <1>4 DEF Kept, Waiting, Choosing, Placed

\* The half that is erased never holds the present day.
LEMMA KeptPlace ==
    ASSUME TypeOK, Kept, Place
    PROVE  Kept'
<1>0. /\ pc = "place" /\ pc' = "write" /\ ~counter_minute
      /\ UNCHANGED <<clock, counter_minute, frozen, rolled>>
  BY DEF Place, Kept, ghost
<1>1. pc' # "off" /\ ~rolled' /\ ~counter_minute' /\ Due' /\ Due
  BY <1>0 DEF Kept, Due
<1>2. CASE Choosing
  <2>1. PICK a \in AllAges, b \in Blocks :
            Ages(a) /\ Dawn(a, mode) /\ Chosen(a, mode, b) /\ current_add = First(b)
    BY <1>2 DEF Choosing
  <2>2. Placed'
    BY <1>0, <1>2, <2>1, PlaceAtDawn DEF Choosing, Placed
  <2>3. QED
    BY <1>1, <2>2 DEF Kept
<1>3. CASE Running
  <2>1. PICK a \in AllAges, b \in Blocks :
            /\ Ages(a) /\ Filled(b) /\ Day(a, mode, b) /\ current_add = First(b)
            /\ clock.hour # 0
    BY <1>0, <1>1, <1>3 DEF Running
  <2>2. /\ Hours \in Nat /\ Hours >= 2 /\ clock.hour \in 0..(Hours - 1)
        /\ b = 0 \/ b = 1 \/ b = 2 \/ b = 3
        /\ 0 \in Blocks /\ 1 \in Blocks /\ 2 \in Blocks /\ 3 \in Blocks
    BY CalendarAssumption DEF TypeOK, Stamps, Blocks
  <2>3. current_add' = First(b) + clock.hour
    BY <2>1 DEF Place
  <2>4. CASE b = 3 /\ clock.hour = Hours - 1
    <3>1. mode = 1
      BY <2>1, <2>4 DEF Day
    <3>2. mode' = 0 /\ flash' = Erased(Sectors13)
      BY <2>2, <2>3, <2>4, <3>1 DEF Place, First
    <3> DEFINE e == Wiped(a, {0, 1})
    <3>3. e \in AllAges /\ Ages(e)'
      <4>1. {0, 1} \in SUBSET Blocks /\ clock' = clock
        BY <1>0, <2>2
      <4>2. QED
        BY <2>1, <3>2, <4>1, AgesErased, Halves
    <3>4. e[0] = None /\ e[1] = None /\ e[2] = a[2] /\ e[3] = a[3]
      BY <2>2 DEF Wiped
    <3> HIDE DEF e
    <3>5. Late(e, mode', b)
      BY <2>1, <2>4, <3>2, <3>4 DEF Day, Late
    <3>6. Filled(b)'
      <4>1. \A h \in 0..(Hours - 1) : flash'[First(3) + h] = flash[First(3) + h]
        BY <2>2, <3>2, PageOfHour, Halves DEF Erased
      <4>2. QED
        BY <1>0, <1>1, <2>1, <2>4, <4>1, FilledStays
    <3>7. Running'
      BY <1>0, <2>1, <2>3, <2>4, <3>3, <3>5, <3>6 DEF Running
    <3>8. QED
      BY <1>1, <3>7 DEF Kept
  <2>5. CASE ~(b = 3 /\ clock.hour = Hours - 1)
    <3>1. b \in {2, 3} => mode = 1
      BY <2>1 DEF Day
    <3>2. mode' = mode /\ flash' = flash
      <4>1. b \in {0, 1} => current_add' < First(2)
        BY <2>2, <2>3 DEF First
      <4>2. current_add' < 4 * Hours - 1
        BY <2>2, <2>3, <2>5 DEF First
      <4>3. First(2) \in Int /\ current_add' \in Int
        BY <2>2, <2>3 DEF First
      <4>4. QED
        BY <2>2, <3>1, <4>1, <4>2, <4>3 DEF Place, TypeOK
    <3>3. Ages(a)' /\ Filled(b)'
      BY <1>0, <1>1, <2>1, <3>2, NothingMoves
    <3>4. Running'
      <4>1. b = 3 => clock.hour < Hours - 1
        BY <2>2, <2>5
      <4>2. QED
        BY <1>0, <2>1, <2>3, <3>2, <3>3, <4>1 DEF Running
    <3>5. QED
      BY <1>1, <3>4 DEF Kept
  <2>6. QED
    BY <2>4, <2>5
<1>4. QED
  BY <1>0, <1>2, <1>3 DEF Kept, Virgin, Waiting, Placed

\* The page of the hour is blank, and is written.
LEMMA KeptWrite ==
    ASSUME TypeOK, Kept, my_bl_data = Page("data", clock), Write
    PROVE  Kept'
<1>0. /\ pc = "write" /\ pc' = "idle" /\ ~counter_minute /\ ~rolled /\ ~rolled'
      /\ UNCHANGED <<clock, counter_minute, mode>>
      /\ frozen' = frozen \cup {clock.hour}
  BY DEF Write, Kept
<1>1. pc' # "off" /\ ~rolled' /\ ~counter_minute' /\ ~Due' /\ Due
  BY <1>0 DEF Kept, Due
<1>2. /\ my_bl_data \in Written /\ my_bl_data.dom = clock.dom
      /\ my_bl_data = Page("data", [clock EXCEPT !.hour = clock.hour])
      /\ Hours \in Nat /\ Hours >= 2 /\ clock.hour \in 0..(Hours - 1)
  BY PageTypes, CalendarAssumption DEF TypeOK, Stamps, Page
<1>3. ASSUME NEW b \in Blocks, current_add = First(b) + clock.hour,
             flash[First(b) + clock.hour] = Blank
      PROVE  /\ flash' = [flash EXCEPT ![First(b) + clock.hour] = my_bl_data]
             /\ flash'[First(b) + clock.hour] = my_bl_data
             /\ \A c \in Blocks, h \in 0..(Hours - 1) :
                   c # b \/ h # clock.hour => flash'[First(c) + h] = flash[First(c) + h]
  <2>1. flash' = [flash EXCEPT ![First(b) + clock.hour] = my_bl_data]
    BY <1>3 DEF Write, Blank
  <2>2. \A c \in Blocks, h \in 0..(Hours - 1) :
            c # b \/ h # clock.hour => First(c) + h # First(b) + clock.hour
    BY <1>2, Halves
  <2>3. QED
    BY <1>2, <2>1, <2>2, PageOfHour DEF TypeOK
<1>4. ASSUME NEW b \in Blocks, current_add = First(b) + clock.hour,
             flash[First(b) + clock.hour] = Blank,
             \A h \in 0..(Hours - 1) :
                 /\ h \in frozen => flash[First(b) + h] = Page("data", [clock EXCEPT !.hour = h])
                 /\ h > clock.hour => h \notin frozen /\ flash[First(b) + h] = Blank
      PROVE  Filled(b)'
  <2> SUFFICES ASSUME NEW h \in 0..(Hours - 1)
               PROVE  /\ h \in frozen' => flash'[First(b) + h] = Page("data", [clock EXCEPT !.hour = h])
                      /\ h > clock.hour => h \notin frozen' /\ flash'[First(b) + h] = Blank
    BY <1>0, <1>1 DEF Filled
  <2>1. CASE h = clock.hour
    BY <1>2, <1>3, <1>4, <2>1
  <2>2. CASE h # clock.hour
    <3>1. flash'[First(b) + h] = flash[First(b) + h]
      BY <1>3, <1>4, <2>2
    <3>2. h \in frozen' <=> h \in frozen
      BY <1>0, <2>2
    <3>3. QED
      BY <1>4, <3>1, <3>2
  <2>3. QED
    BY <2>1, <2>2
<1>5. CASE Placed
  <2>1. PICK a \in AllAges, b \in Blocks :
            /\ Ages(a) /\ a[b] = None /\ Day([a EXCEPT ![b] = 0], mode, b)
            /\ current_add = First(b)
    BY <1>5 DEF Placed
  <2>2. clock.hour = 0 /\ frozen = {} /\ First(b) + 0 = First(b)
    BY <1>5, FirstIn DEF Placed
  <2>3. \A h \in 0..(Hours - 1) : flash[First(b) + h] = Blank
    BY <2>1 DEF Ages, Bare
  <2>4. flash' = [flash EXCEPT ![First(b)] = my_bl_data] /\ Filled(b)'
    BY <1>2, <1>3, <1>4, <2>1, <2>2, <2>3
  <2>5. [a EXCEPT ![b] = 0] \in AllAges /\ Ages([a EXCEPT ![b] = 0])'
    BY <1>0, <1>2, <2>1, <2>4, AgesBegun
  <2>6. Running'
    <3>1. clock'.hour < Hours - 1
      BY <1>0, <1>2, <2>2
    <3>2. QED
      BY <1>0, <1>1, <2>1, <2>4, <2>5, <3>1 DEF Running
  <2>7. QED
    BY <1>1, <2>6 DEF Kept
<1>6. CASE Running
  <2>1. PICK a \in AllAges, b \in Blocks :
            /\ Ages(a) /\ Filled(b) /\ clock.hour # 0
            /\ \/ Day(a, mode, b) /\ (b = 3 => clock.hour < Hours - 1)
               \/ Late(a, mode, b) /\ clock.hour = Hours - 1
            /\ current_add = First(b) + clock.hour
    BY <1>0, <1>1, <1>6 DEF Running
  <2>2. flash[First(b) + clock.hour] = Blank
    BY <1>1, <1>2, <2>1 DEF Filled
  <2>3. Filled(b)'
    <3>1. \A h \in 0..(Hours - 1) : h > clock.hour => h # 0
      BY <1>2
    <3>2. QED
      BY <1>1, <1>4, <2>1, <2>2, <3>1 DEF Filled
  <2>4. Ages(a)'
    <3>1. a[b] # None
      BY <2>1 DEF Day, Late, None
    <3>2. \A c \in Blocks : a[c] = None =>
              \A h \in 0..(Hours - 1) : flash'[First(c) + h] = flash[First(c) + h]
      BY <1>3, <2>1, <2>2, <3>1
    <3>3. \A c \in Blocks : flash'[First(c)] = flash[First(c)]
      BY <1>3, <2>1, <2>2, FirstIn, Halves
    <3>4. QED
      BY <1>0, <2>1, <3>2, <3>3, AgesStay
  <2>5. Running'
    BY <1>0, <1>1, <2>1, <2>3, <2>4 DEF Running
  <2>6. QED
    BY <1>1, <2>5 DEF Kept
<1>7. QED
  BY <1>0, <1>5, <1>6 DEF Kept, Virgin, Waiting, Choosing

\* The next hour, or the next day, may begin.
LEMMA KeptHour ==
    ASSUME TypeOK, Kept, Uninterrupted, Uninterrupted', Hour
    PROVE  Kept'
<1>0. /\ Hours \in Nat /\ Hours >= 2 /\ clock.hour \in 0..(Hours - 1)
      /\ misses \in Nat /\ rolls \in Nat
  BY CalendarAssumption, BoundsAssumption DEF TypeOK, Stamps
<1>1. pc # "off" /\ ~counter_minute
  BY <1>0 DEF Hour, Uninterrupted
<1>2. ~rolled'
  BY <1>0 DEF Hour, Uninterrupted, TypeOK
<1>3. pc = "idle" /\ counter_minute'
  BY <1>1, <1>2 DEF Hour
<1>4. /\ UNCHANGED <<flash, mode, pc, current_add, my_bl_data>>
      /\ clock' = IF clock.hour = Hours - 1 THEN NextDay(clock)
                  ELSE [clock EXCEPT !.hour = @ + 1]
      /\ frozen' = IF clock.hour = Hours - 1 THEN {} ELSE frozen
  BY DEF Hour, code
<1>5. ~Due /\ Due'
  BY <1>1, <1>3 DEF Due
<1>6. CASE Virgin
  <2>1. Virgin'
    BY <1>4, <1>6 DEF Virgin, Bare
  <2>2. QED
    BY <1>2, <1>3, <1>4, <2>1 DEF Kept
<1>7. CASE Running
  <2>1. PICK a \in AllAges, b \in Blocks :
            /\ Ages(a) /\ Filled(b)
            /\ \/ Day(a, mode, b) /\ (b = 3 => clock.hour < Hours - 1)
               \/ Late(a, mode, b) /\ clock.hour = Hours - 1
    BY <1>5, <1>7 DEF Running
  <2>2. CASE clock.hour = Hours - 1
    <3>1. clock' = NextDay(clock) /\ frozen' = {} /\ flash' = flash /\ mode' = mode
      BY <1>4, <2>2
    <3>2. (Day(a, mode, b) /\ b # 3) \/ Late(a, mode, b)
      BY <1>0, <2>1, <2>2
    <3>3. Older(a) \in AllAges /\ Ages(Older(a))' /\ Dawn(Older(a), mode)
      BY <2>1, <3>1, <3>2, NightToDawn, AgesGrow
    <3>4. clock'.hour = 0
      BY <3>1 DEF NextDay
    <3>5. Waiting'
      BY <1>3, <1>4, <1>5, <3>1, <3>3, <3>4 DEF Waiting
    <3>6. QED
      BY <1>2, <1>3, <1>4, <3>5 DEF Kept
  <2>3. CASE clock.hour # Hours - 1
    <3>1. clock' = [clock EXCEPT !.hour = @ + 1] /\ frozen' = frozen
      BY <1>4, <2>3
    <3>2. /\ clock'.hour = clock.hour + 1 /\ clock'.dom = clock.dom
          /\ \A h : [clock' EXCEPT !.hour = h] = [clock EXCEPT !.hour = h]
      BY <3>1 DEF TypeOK, Stamps
    <3>3. Ages(a)'
      BY <1>4, <2>1, <3>2, AgesStay
    <3>4. Filled(b)'
      <4>1. \A h \in 0..(Hours - 1) :
                h > clock'.hour \/ (h = clock'.hour /\ Due') => h > clock.hour
        BY <1>0, <3>2
      <4>2. QED
        BY <1>4, <2>1, <3>1, <3>2, <4>1 DEF Filled
    <3>5. Day(a, mode', b) /\ clock'.hour # 0
      <4>1. Day(a, mode, b) /\ mode' = mode
        BY <1>4, <2>1, <2>3
      <4>2. clock'.hour # 0
        BY <1>0, <3>2
      <4>3. QED
        BY <4>1, <4>2
    <3>6. Running'
      BY <1>3, <1>4, <1>5, <3>3, <3>4, <3>5 DEF Running
    <3>7. QED
      BY <1>2, <1>3, <1>4, <3>6 DEF Kept
  <2>4. QED
    BY <2>2, <2>3
<1>8. QED
  BY <1>3, <1>5, <1>6, <1>7 DEF Kept, Waiting, Choosing, Placed

\* Every step of an uninterrupted device keeps the present day.
LEMMA KeptStep ==
    ASSUME IInv, Kept, Uninterrupted, Uninterrupted', [Next]_vars
    PROVE  Kept'
<1>1. TypeOK /\ Aimed
  BY DEF IInv, Uninterrupted
<1>2. CASE CheckIntMin
  <2>1. /\ pc = "idle" /\ pc' = "sector" /\ ~counter_minute' /\ ~rolled' /\ Due
        /\ UNCHANGED <<flash, mode, clock, frozen>>
    BY <1>2 DEF CheckIntMin, Due
  <2>2. CASE Virgin
    BY <2>1, <2>2 DEF Kept, Virgin, Bare
  <2>3. CASE Waiting
    <3>1. PICK a \in AllAges : Ages(a) /\ Dawn(a, mode)
      BY <2>3 DEF Waiting
    <3>2. Ages(a)' /\ Due'
      BY <2>1, <3>1 DEF Ages, Bare, Ago, Due
    <3>3. Waiting'
      BY <2>1, <2>3, <3>1, <3>2 DEF Waiting
    <3>4. QED
      BY <2>1, <3>3 DEF Kept
  <2>4. CASE Running
    <3>1. PICK a \in AllAges, b \in Blocks :
              Ages(a) /\ Filled(b) /\ Day(a, mode, b) /\ clock.hour # 0
      BY <2>1, <2>4 DEF Running
    <3>2. Ages(a)' /\ Filled(b)' /\ Due'
      BY <2>1, <3>1, NothingMoves DEF Due
    <3>3. Running'
      BY <2>1, <3>1, <3>2 DEF Running
    <3>4. QED
      BY <2>1, <3>3 DEF Kept
  <2>5. QED
    BY <2>1, <2>2, <2>3, <2>4 DEF Kept, Choosing, Placed
<1>3. CASE CheckSector
  BY <1>1, <1>3, KeptCheckSector
<1>4. CASE Prepare
  <2>1. /\ pc = "prepare" /\ pc' = "place" /\ Due /\ Due'
        /\ UNCHANGED <<flash, mode, current_add, clock, counter_minute, frozen, rolled>>
    BY <1>4 DEF Prepare, Due, ghost
  <2>2. CASE Choosing
    <3>1. PICK a \in AllAges, b \in Blocks :
              Ages(a) /\ Dawn(a, mode) /\ Chosen(a, mode, b) /\ current_add = First(b)
      BY <2>2 DEF Choosing
    <3>2. Ages(a)'
      BY <2>1, <3>1, NothingMoves
    <3>3. Choosing'
      BY <2>1, <2>2, <3>1, <3>2 DEF Choosing
    <3>4. QED
      BY <2>1, <3>3 DEF Kept
  <2>3. CASE Running
    <3>1. PICK a \in AllAges, b \in Blocks :
              /\ Ages(a) /\ Filled(b) /\ Day(a, mode, b) /\ clock.hour # 0
              /\ current_add = First(b)
      BY <2>1, <2>3 DEF Running
    <3>2. Ages(a)' /\ Filled(b)'
      BY <2>1, <3>1, NothingMoves
    <3>3. Running'
      BY <2>1, <3>1, <3>2 DEF Running
    <3>4. QED
      BY <2>1, <3>3 DEF Kept
  <2>4. QED
    BY <2>1, <2>2, <2>3 DEF Kept, Virgin, Waiting, Placed
<1>5. CASE Place
  BY <1>1, <1>5, KeptPlace
<1>6. CASE Write
  <2>1. my_bl_data = Page("data", clock)
    BY <1>1, <1>6 DEF Aimed, Write
  <2>2. QED
    BY <1>1, <1>6, <2>1, KeptWrite
<1>7. CASE Hour
  BY <1>1, <1>7, KeptHour
<1>8. CASE SetClock \/ Fail
  BY <1>1, <1>8, BoundsAssumption DEF SetClock, Fail, TypeOK, Uninterrupted
<1>9. CASE Boot
  BY <1>9 DEF Boot, Kept
<1>10. CASE UNCHANGED vars
  <2>1. UNCHANGED <<flash, mode, pc, current_add, clock, counter_minute, frozen, rolled>>
    BY <1>10 DEF vars, code, ghost
  <2>2. /\ Due' <=> Due
        /\ \A a \in AllAges : Ages(a)' <=> Ages(a)
        /\ \A b \in Blocks : (Bare(b)' <=> Bare(b)) /\ (Filled(b)' <=> Filled(b))
    BY <2>1 DEF Due, Filled, Ages, Bare, Ago
  <2>3. /\ Virgin => Virgin'
        /\ Waiting => Waiting'
        /\ Choosing => Choosing'
        /\ Placed => Placed'
    BY <2>1, <2>2 DEF Virgin, Waiting, Choosing, Placed
  <2>4. Running => Running'
    BY <2>1, <2>2 DEF Running
  <2>5. QED
    BY <2>1, <2>3, <2>4 DEF Kept
<1>11. QED
  BY <1>2, <1>3, <1>4, <1>5, <1>6, <1>7, <1>8, <1>9, <1>10 DEF Next

\* What was interrupted once stays so.
LEMMA InterruptedForGood == TypeOK /\ [Next]_vars /\ Uninterrupted' => Uninterrupted
<1> SUFFICES ASSUME TypeOK, [Next]_vars, Uninterrupted' PROVE Uninterrupted
  OBVIOUS
<1>1. restarts \in Nat /\ misses \in Nat /\ rolls \in Nat /\ sets \in Nat
  BY BoundsAssumption DEF TypeOK
<1>2. CASE Hour
  BY <1>1, <1>2 DEF Hour, Uninterrupted
<1>3. CASE CheckIntMin \/ CheckSector \/ Prepare \/ Place \/ Write \/ Boot
  BY <1>3 DEF CheckIntMin, CheckSector, Prepare, Place, Write, Boot, bound, Uninterrupted
<1>4. CASE SetClock \/ Fail
  BY <1>1, <1>4 DEF SetClock, Fail, Uninterrupted
<1>5. CASE UNCHANGED vars
  BY <1>5 DEF vars, bound, Uninterrupted
<1>6. QED
  BY <1>2, <1>3, <1>4, <1>5 DEF Next

\* Every hour of the present day that was frozen is found again, with this
\* month's record, on a device that runs without interruption.
THEOREM TodayReadable == Spec => []TodayKept
<1>1. Init => (Uninterrupted => Kept)
  <2>1. Init => Kept
    <3> SUFFICES ASSUME Init PROVE Kept
      OBVIOUS
    <3>1. \A b \in Blocks : Bare(b)
      BY PageOfHour DEF Init, Bare
    <3>2. QED
      BY <3>1 DEF Init, Kept, Virgin
  <2>2. QED
    BY <2>1
<1>2. IInv /\ (Uninterrupted => Kept) /\ [Next]_vars => (Uninterrupted => Kept)'
  BY InterruptedForGood, KeptStep DEF IInv
<1>3. IInv /\ (Uninterrupted => Kept) => TodayKept
  <2> SUFFICES ASSUME TypeOK, Kept, pc = "idle", NEW h \in frozen
               PROVE  /\ Readable(clock.dom, h)
                      /\ flash[Found(clock.dom, h)].month = clock.month
    BY DEF IInv, Uninterrupted, TodayKept
  <2>1. PICK a \in AllAges, b \in Blocks :
            Ages(a) /\ Filled(b) /\ (Day(a, mode, b) \/ Late(a, mode, b))
    BY DEF Kept, Virgin, Waiting, Choosing, Placed, Running
  <2>2. Holding(clock.dom) = {b} /\ Lowest({b}) = b
    BY <2>1, TodaysBlock
  <2>3. h \in 0..(Hours - 1)
    BY DEF TypeOK
  <2>4. flash[First(b) + h] = Page("data", [clock EXCEPT !.hour = h])
    BY <2>1, <2>3 DEF Filled
  <2>5. QED
    BY <2>2, <2>4 DEF Readable, Found, Page, TypeOK, Stamps
<1>4. QED
  BY Invariance, <1>1, <1>2, <1>3, PTL DEF Spec
=============================================================================
