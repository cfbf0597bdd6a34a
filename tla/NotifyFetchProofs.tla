------------------------- MODULE NotifyFetchProofs -------------------------
(***************************************************************************)
(* Proofs about NotifyFetch for any number of frames and faults and any    *)
(* width of unread.                                                        *)
(***************************************************************************)
EXTENDS NotifyFetch, SequenceTheorems, FiniteSetTheorems, TLAPS

(***************************************************************************)
(* The counter and the sequences.                                          *)
(***************************************************************************)
\* unread counts up and down inside its width.
LEMMA Counting ==
    ASSUME NEW n \in 0..(Width - 1)
    PROVE  /\ Up(n) \in 0..(Width - 1)
           /\ Down(n) \in 0..(Width - 1)
           /\ n # Width - 1 => Up(n) = n + 1
           /\ Down(n) + 1 >= n
BY WidthAssumption DEF Up, Down

\* What is appended or taken is one element.
LEMMA Queue ==
    ASSUME NEW S, NEW s \in Seq(S), NEW e \in S
    PROVE  /\ Append(s, e) \in Seq(S) /\ Len(Append(s, e)) = Len(s) + 1
           /\ \A i \in 1..Len(s) : Append(s, e)[i] = s[i]
           /\ Append(s, e)[Len(s) + 1] = e
           /\ Len(s) \in Nat
           /\ s # <<>> => /\ Head(s) \in S /\ Head(s) = s[1]
                          /\ Tail(s) \in Seq(S)
                          /\ Len(s) > 0 /\ Len(Tail(s)) = Len(s) - 1
                          /\ \A i \in 1..Len(Tail(s)) : Tail(s)[i] = s[i + 1]
OBVIOUS

\* An empty modem or line.
LEMMA Nothing == \A S : <<>> \in Seq(S) /\ Len(<<>>) = 0
BY EmptySeq

\* What an update loses, overtaken or wrapped, is accounted for.
LEMMA Stored ==
    ASSUME NEW r \in Nat, NEW o \in Nat, NEW u \in Nat, NEW v \in Nat,
           NEW l \in Nat, NEW m \in Nat,
           u <= r + o, m >= l + o, v = r + 1 \/ m = l + o + r
    PROVE  v + m >= u + l
OBVIOUS

(***************************************************************************)
(* The inductive invariant.                                                *)
(***************************************************************************)
\* Half an announcement is one that is on its way.
Halved == half => notes > 0

\* What came after the last error is counted as late, still to come or lost, for
\* when the modem said that it had no frame it had none.
ErrorsFresh == notes + late + lost >= Len(held)

IInv == TypeOK /\ Halved /\ ErrorsFresh /\ Covered

\* What the modem holds is a number of frames.
LEMMA Sizes == TypeOK => Len(held) \in Nat
BY LenProperties DEF TypeOK

\* One announcement less to come and one more counted or lost.
LEMMA CameAfterError ==
    ASSUME notes \in Nat, notes' = notes - 1, notes' \in Nat,
           late \in Nat, late' \in Nat, lost \in Nat, lost' \in Nat,
           late' + lost' >= late + lost + 1,
           Len(held) \in Nat, held' = held, ErrorsFresh
    PROVE  ErrorsFresh'
<1>1. PICK n \in Nat, x \in Nat, l \in Nat, h \in Nat :
           n = notes /\ x = late /\ l = lost /\ h = Len(held)
  OBVIOUS
<1>2. PICK k \in Nat, y \in Nat, m \in Nat : k = notes' /\ y = late' /\ m = lost'
  OBVIOUS
<1>3. k = n - 1 /\ y + m >= x + l + 1 /\ n + x + l >= h
  BY <1>1, <1>2 DEF ErrorsFresh
<1>4. k + y + m >= h
  BY <1>3
<1>5. QED
  BY <1>1, <1>2, <1>4 DEF ErrorsFresh

LEMMA Came ==
    ASSUME notes \in Nat, notes' = notes - 1, notes' \in Nat,
           unread \in Nat, unread' \in Nat, lost \in Nat, lost' \in Nat,
           unread' + lost' >= unread + lost + 1,
           Len(held) \in Nat, held' = held, pc' = pc, Covered
    PROVE  Covered'
<1>1. PICK n \in Nat, x \in Nat, l \in Nat, h \in Nat, i \in Nat :
           /\ n = notes /\ x = unread /\ l = lost /\ h = Len(held)
           /\ i = IF pc = "issue" THEN 1 ELSE 0
  OBVIOUS
<1>2. PICK k \in Nat, y \in Nat, m \in Nat : k = notes' /\ y = unread' /\ m = lost'
  OBVIOUS
<1>3. k = n - 1 /\ y + m >= x + l + 1 /\ n + x + i + l >= h
  BY <1>1, <1>2 DEF Covered
<1>4. k + y + i + m >= h
  BY <1>3
<1>5. QED
  BY <1>1, <1>2, <1>4 DEF Covered

LEMMA InitIInv == Init => IInv
<1> SUFFICES ASSUME Init PROVE IInv
  OBVIOUS
<1>1. /\ answers \in Seq(Answers) /\ held \in Seq(Kinds)
      /\ Len(answers) = 0 /\ Len(held) = 0
  BY Nothing, Zenon DEF Init
<1>2. /\ reg \in 0..(Width - 1) /\ unread \in 0..(Width - 1)
      /\ notes \in Nat /\ late \in Nat /\ lost \in Nat /\ sent \in 0..Frames /\ faults \in 0..Faults
  BY WidthAssumption, BoundsAssumption DEF Init
<1>3. TypeOK
  BY <1>1, <1>2 DEF Init, TypeOK
<1>4. Halved /\ ErrorsFresh /\ Covered
  BY <1>1, <1>2 DEF Init, Halved, ErrorsFresh, Covered
<1>5. QED
  BY <1>3, <1>4 DEF IInv

LEMMA StepIInv == IInv /\ [Next]_vars => IInv'
<1> SUFFICES ASSUME IInv, [Next]_vars PROVE IInv'
  OBVIOUS
<1> USE WidthAssumption, BoundsAssumption DEF IInv
<1>1. CASE Poll
  <2>1. TypeOK'
    BY <1>1 DEF Poll, TypeOK, main, line, tally, Answers, Kinds
  <2>2. Halved' /\ ErrorsFresh' /\ Covered'
    BY <1>1 DEF Poll, TypeOK, Halved, ErrorsFresh, Covered, main, line, tally
  <2>3. QED
    BY <2>1, <2>2
<1>2. CASE Load
  <2>1. TypeOK'
    BY <1>2 DEF Load, TypeOK, main, line, tally, Answers, Kinds
  <2>2. Halved' /\ ErrorsFresh' /\ Covered'
    BY <1>2 DEF Load, TypeOK, Halved, ErrorsFresh, Covered, main, line, tally
  <2>3. QED
    BY <2>1, <2>2
<1>3. CASE Store
  <2>1. Overtaken \in Nat /\ unread <= reg + Overtaken
    BY DEF Overtaken, TypeOK
  <2>2. lost' = lost + Overtaken /\ lost' \in Nat /\ late' = late
    BY <1>3, <2>1 DEF Store, TypeOK
  <2>3. TypeOK'
    BY <1>3, <2>2, Counting DEF Store, TypeOK, main, line, Answers, Kinds
  <2>4. Halved' /\ ErrorsFresh'
    BY <1>3, <2>1, <2>2, Sizes DEF Store, Halved, ErrorsFresh, TypeOK, line
  <2>5. unread' + 1 >= reg /\ unread' \in Nat /\ unread \in Nat /\ reg \in Nat
    BY <1>3, Counting DEF Store, TypeOK
  <2>6. Covered'
    BY <1>3, <2>1, <2>2, <2>5, Sizes DEF Store, Covered, TypeOK, line
  <2>7. QED
    BY <2>3, <2>4, <2>6
<1>4. CASE Issue
  <2>1. CASE held = <<>>
    <3>1. answers' \in Seq(Answers) /\ Len(held) = 0 /\ held' = held /\ late' = 0
      BY <1>4, <2>1, Queue, Nothing DEF Issue, TypeOK, Answers
    <3>2. TypeOK'
      BY <1>4, <3>1 DEF Issue, TypeOK, Answers
    <3>3. Halved' /\ ErrorsFresh' /\ Covered'
      BY <1>4, <3>1 DEF Issue, TypeOK, Halved, ErrorsFresh, Covered
    <3>4. QED
      BY <3>2, <3>3
  <2>2. CASE held # <<>>
    <3>1. /\ Head(held) \in Kinds /\ held' \in Seq(Kinds)
          /\ Len(held) \in Nat /\ Len(held') = Len(held) - 1
      <4>1. held' = Tail(held) /\ held \in Seq(Kinds)
        BY <1>4, <2>2 DEF Issue, TypeOK
      <4>2. QED
        BY <2>2, <4>1, Queue
    <3>2. answers' \in Seq(Answers)
      <4>1. Head(held) \in Answers
        BY <3>1 DEF Answers
      <4>2. answers \in Seq(Answers) /\ answers' = Append(answers, Head(held))
        BY <1>4, <2>2 DEF Issue, TypeOK
      <4>3. QED
        BY <4>1, <4>2, Queue
    <3>3. late' = late
      BY <1>4, <2>2 DEF Issue
    <3>4. TypeOK'
      BY <1>4, <3>1, <3>2, <3>3 DEF Issue, TypeOK, Answers
    <3>5. Halved' /\ ErrorsFresh' /\ Covered'
      BY <1>4, <3>1, <3>3 DEF Issue, TypeOK, Halved, ErrorsFresh, Covered
    <3>6. QED
      BY <3>4, <3>5
  <2>3. QED
    BY <2>1, <2>2
<1>5. CASE Take
  <2>1. TypeOK'
    BY <1>5 DEF Take, After, TypeOK, main, line, tally, Answers, Kinds
  <2>2. pc' \notin {"wait", "issue"} /\ pc = "wait"
    BY <1>5 DEF Take, After, TypeOK, Answers, Kinds
  <2>3. Halved' /\ ErrorsFresh' /\ Covered'
    BY <1>5, <2>2 DEF Take, TypeOK, Halved, ErrorsFresh, Covered, line, tally
  <2>4. QED
    BY <2>1, <2>3
<1>6. CASE TimeOut
  <2>1. TypeOK'
    BY <1>6 DEF TimeOut, Fault, TypeOK, main, line, tally, Answers, Kinds
  <2>2. Halved' /\ ErrorsFresh' /\ Covered'
    BY <1>6 DEF TimeOut, Fault, TypeOK, Halved, ErrorsFresh, Covered, main, line, tally
  <2>3. QED
    BY <2>1, <2>2
<1>7. CASE Zero
  <2>1. /\ lost' \in Nat /\ late' = 0 /\ unread' = 0
        /\ lost' = lost + late \/ lost' = lost + unread
    BY <1>7 DEF Zero, TypeOK
  <2>2. TypeOK'
    BY <1>7, <2>1, WidthAssumption DEF Zero, TypeOK, line
  <2>3. late <= unread \/ lost' = lost + unread
    BY <1>7 DEF Zero, TypeOK
  <2>4. Halved' /\ ErrorsFresh' /\ Covered'
    BY <1>7, <2>1, Sizes DEF Zero, TypeOK, Halved, ErrorsFresh, Covered, line
  <2>5. QED
    BY <2>2, <2>4
<1>8. CASE Again
  <2>1. TypeOK'
    BY <1>8 DEF Again, TypeOK, main, line, tally, Answers, Kinds
  <2>2. Halved' /\ ErrorsFresh' /\ Covered'
    BY <1>8 DEF Again, TypeOK, Halved, ErrorsFresh, Covered, main, line, tally
  <2>3. QED
    BY <2>1, <2>2
<1>9. CASE Bump
  <2>1. Overtaken \in Nat /\ unread <= reg + Overtaken /\ reg \in Nat /\ unread \in Nat
    BY DEF Overtaken, TypeOK
  <2>2. /\ lost' \in Nat /\ lost' >= lost + Overtaken
        /\ reg = Width - 1 => lost' = lost + Overtaken + reg
    BY <1>9, <2>1 DEF Bump, TypeOK
  <2>3. TypeOK'
    BY <1>9, <2>2, Counting DEF Bump, TypeOK, main, line, Answers, Kinds
  <2>4. Halved' /\ ErrorsFresh'
    BY <1>9, <2>1, <2>2, Sizes DEF Bump, Halved, ErrorsFresh, TypeOK, line
  <2>5. unread' \in Nat /\ (reg # Width - 1 => unread' = reg + 1)
    BY <1>9, Counting DEF Bump, TypeOK
  <2>6. unread' + lost' >= unread + lost
    <3>1. lost \in Nat
      BY DEF TypeOK
    <3>2. unread' = reg + 1 \/ lost' = lost + Overtaken + reg
      BY <2>2, <2>5
    <3>3. QED
      BY <2>1, <2>2, <2>5, <3>1, <3>2, Stored
  <2>7. Covered'
    BY <1>9, <2>1, <2>2, <2>5, <2>6, Sizes DEF Bump, Covered, TypeOK, line
  <2>8. QED
    BY <2>3, <2>4, <2>7
<1>10. CASE Serve
  <2>1. TypeOK'
    BY <1>10 DEF Serve, TypeOK, main, line, tally, Answers, Kinds
  <2>2. Halved' /\ ErrorsFresh' /\ Covered'
    BY <1>10 DEF Serve, TypeOK, Halved, ErrorsFresh, Covered, main, line, tally
  <2>3. QED
    BY <2>1, <2>2
<1>11. CASE Rewrite
  <2>1. TypeOK'
    BY <1>11 DEF Rewrite, TypeOK, main, line, tally, Answers, Kinds
  <2>2. Halved' /\ ErrorsFresh' /\ Covered'
    BY <1>11 DEF Rewrite, TypeOK, Halved, ErrorsFresh, Covered, main, line, tally
  <2>3. QED
    BY <2>1, <2>2
<1>12. CASE Rewritten
  <2>1. TypeOK'
    BY <1>12 DEF Rewritten, TypeOK, main, line, tally, Answers, Kinds
  <2>2. Halved' /\ ErrorsFresh' /\ Covered'
    BY <1>12 DEF Rewritten, TypeOK, Halved, ErrorsFresh, Covered, main, line, tally
  <2>3. QED
    BY <2>1, <2>2
<1>13. CASE NoticeBegins
  <2>1. TypeOK'
    BY <1>13 DEF NoticeBegins, TypeOK, main, line, tally, Answers, Kinds
  <2>2. Halved' /\ ErrorsFresh' /\ Covered'
    BY <1>13 DEF NoticeBegins, TypeOK, Halved, ErrorsFresh, Covered, main, line, tally
  <2>3. QED
    BY <2>1, <2>2
<1>14. CASE NoticeEnds
  <2>1. notes' \in Nat /\ notes' = notes - 1 /\ notes \in Nat
    BY <1>14 DEF NoticeEnds, Halved, TypeOK
  <2>2. /\ unread' \in 0..(Width - 1) /\ unread \in 0..(Width - 1)
        /\ checking => unread' = Up(unread)
        /\ ~checking => unread' = unread
    <3>1. unread \in 0..(Width - 1)
      BY DEF TypeOK
    <3>2. /\ checking => unread' = Up(unread)
          /\ ~checking => unread' = unread
      BY <1>14 DEF NoticeEnds
    <3>3. QED
      BY <3>1, <3>2, Counting
  <2>3. /\ checking => late' = late + 1
        /\ ~checking => late' = late
        /\ ~checking => lost' = lost + 1
        /\ checking /\ unread = Width - 1 => lost' = lost + Width
        /\ checking /\ unread # Width - 1 => lost' = lost
    <3>1. /\ checking => late' = late + 1
          /\ ~checking => late' = late
      BY <1>14 DEF NoticeEnds
    <3>2. CASE ~checking
      BY <1>14, <3>2 DEF NoticeEnds
    <3>3. CASE checking /\ unread = Width - 1
      BY <1>14, <3>3 DEF NoticeEnds
    <3>4. CASE checking /\ unread # Width - 1
      BY <1>14, <3>4 DEF NoticeEnds, TypeOK
    <3>5. QED
      BY <3>1, <3>2, <3>3, <3>4
  <2>4. late \in Nat /\ lost \in Nat /\ checking \in BOOLEAN
    BY DEF TypeOK
  <2>5. late' \in Nat /\ lost' \in Nat /\ late' + lost' >= late + lost + 1
    BY <2>2, <2>3, <2>4
  <2>6. got' \in Answers \cup {"none", "spoilt"}
    BY <1>14 DEF NoticeEnds, TypeOK
  <2>7. TypeOK'
    BY <1>14, <2>1, <2>2, <2>5, <2>6 DEF NoticeEnds, TypeOK
  <2>8. Halved'
    BY <1>14 DEF NoticeEnds, Halved
  <2>9. held' = held /\ pc' = pc
    BY <1>14 DEF NoticeEnds
  <2>10. ErrorsFresh'
    BY <2>1, <2>4, <2>5, <2>9, Sizes, CameAfterError
  <2>11. unread' + lost' >= unread + lost + 1
    BY <2>2, <2>3, <2>4, Counting
  <2>12. Covered'
    <3>1. unread \in Nat /\ unread' \in Nat
      BY <2>2
    <3>2. QED
      BY <2>1, <2>4, <2>5, <2>9, <2>11, <3>1, Sizes, Came
  <2>13. QED
    BY <2>7, <2>8, <2>10, <2>12
<1>15. CASE FalseNotice
  <2>1. unread' \in 0..(Width - 1) /\ unread \in 0..(Width - 1) /\ unread' = Up(unread)
    BY <1>15, Counting DEF FalseNotice, TypeOK
  <2>2. /\ lost' \in Nat /\ lost' >= lost
        /\ unread = Width - 1 => lost' = lost + unread
    BY <1>15, <2>1 DEF FalseNotice, TypeOK
  <2>3. TypeOK'
    <3>1. faults' \in 0..Faults
      BY <1>15 DEF FalseNotice, Fault, TypeOK
    <3>2. QED
      BY <1>15, <2>1, <2>2, <3>1 DEF FalseNotice, TypeOK, main, line
  <2>4. Halved' /\ ErrorsFresh'
    BY <1>15, <2>2, Sizes DEF FalseNotice, Halved, ErrorsFresh, TypeOK, main, line
  <2>5. unread' + lost' >= unread + lost
    <3>1. lost \in Nat
      BY DEF TypeOK
    <3>2. CASE unread = Width - 1
      BY <2>1, <2>2, <3>1, <3>2
    <3>3. CASE unread # Width - 1
      BY <2>1, <2>2, <3>1, <3>3, Counting
    <3>4. QED
      BY <3>2, <3>3
  <2>6. Covered'
    BY <1>15, <2>1, <2>2, <2>5, Sizes DEF FalseNotice, Covered, TypeOK, main, line
  <2>7. QED
    BY <2>3, <2>4, <2>6
<1>16. CASE NoticeLost
  <2>1. faults' \in 0..Faults /\ notes' \in Nat /\ lost' \in Nat /\ ~half'
        /\ notes' + lost' = notes + lost
    BY <1>16 DEF NoticeLost, Fault, TypeOK
  <2>2. TypeOK'
    BY <1>16, <2>1 DEF NoticeLost, TypeOK, main
  <2>3. Halved' /\ ErrorsFresh' /\ Covered'
    BY <1>16, <2>1, Sizes DEF NoticeLost, TypeOK, Halved, ErrorsFresh, Covered, main
  <2>4. QED
    BY <2>2, <2>3
<1>17. CASE Deliver
  <2>1. Head(answers) \in Answers /\ answers' \in Seq(Answers)
    BY <1>17, Queue DEF Deliver, TypeOK
  <2>2. got' \in Answers \cup {"none", "spoilt"} /\ checking' \in BOOLEAN
    BY <1>17, <2>1 DEF Deliver, TypeOK
  <2>3. TypeOK'
    BY <1>17, <2>1, <2>2 DEF Deliver, TypeOK, tally
  <2>4. Halved' /\ ErrorsFresh' /\ Covered'
    BY <1>17 DEF Deliver, TypeOK, Halved, ErrorsFresh, Covered, tally
  <2>5. QED
    BY <2>3, <2>4
<1>18. CASE Spoil
  <2>1. TypeOK'
    BY <1>18, Queue, Nothing DEF Spoil, Fault, TypeOK, main, line, tally, Answers, Kinds
  <2>2. Halved' /\ ErrorsFresh' /\ Covered'
    BY <1>18, Queue, Nothing DEF Spoil, Fault, TypeOK, Halved, ErrorsFresh, Covered, main, line, tally
  <2>3. QED
    BY <2>1, <2>2
<1>19. CASE Arrive
  <2>1. TypeOK'
    BY <1>19, Queue, Nothing DEF Arrive, TypeOK, main, line, tally, Answers, Kinds
  <2>2. Halved' /\ ErrorsFresh' /\ Covered'
    BY <1>19, Queue, Nothing DEF Arrive, TypeOK, Halved, ErrorsFresh, Covered, main, line, tally
  <2>3. QED
    BY <2>1, <2>2
<1>20. CASE Close
  <2>1. TypeOK'
    BY <1>20 DEF Close, Fault, TypeOK, main, line, tally, Answers, Kinds
  <2>2. Halved' /\ ErrorsFresh' /\ Covered'
    BY <1>20 DEF Close, Fault, TypeOK, Halved, ErrorsFresh, Covered, main, line, tally
  <2>3. QED
    BY <2>1, <2>2
<1>21. CASE UNCHANGED vars
  BY <1>21 DEF vars, main, line, tally, TypeOK, Halved, ErrorsFresh, Covered
<1>22. QED
  BY <1>1, <1>2, <1>3, <1>4, <1>5, <1>6, <1>7, <1>8, <1>9, <1>10,
     <1>11, <1>12, <1>13, <1>14, <1>15, <1>16, <1>17, <1>18, <1>19, <1>20, <1>21 DEF Next, Main

(***************************************************************************)
(* The theorems.                                                           *)
(***************************************************************************)
THEOREM Invariance == Spec => []IInv
<1>1. Init => IInv
  BY InitIInv
<1>2. IInv /\ [Next]_vars => IInv'
  BY StepIInv
<1>3. QED
  BY <1>1, <1>2, PTL DEF Spec

\* unread, what the main loop has loaded of it and the queues of the modem and
\* of the line keep their types.
THEOREM TypeCorrect == Spec => []TypeOK
<1>1. IInv => TypeOK
  BY DEF IInv
<1>2. QED
  BY <1>1, Invariance, PTL

\* The modem never holds more frames than are announced, counted or coming, and
\* announcements lost one by one in the ways that NoticeEnds, NoticeLost,
\* FalseNotice, Store, Bump and Zero name.
THEOREM FramesCovered == Spec => []Covered
<1>1. IInv => Covered
  BY DEF IInv
<1>2. QED
  BY <1>1, Invariance, PTL

(***************************************************************************)
(* The loop's patience.                                                    *)
(***************************************************************************)
Full(s) == {i \in 1..Len(s) : s[i] # "error"}

LEMMA WeightType ==
    ASSUME NEW s \in Seq(Answers)
    PROVE  /\ IsFiniteSet(Full(s)) /\ Cardinality(Full(s)) \in Nat
           /\ Weight(s) = Len(s) + 2 * Cardinality(Full(s)) /\ Weight(s) \in Nat
<1>1. Len(s) \in Nat
  BY LenProperties
<1>2. IsFiniteSet(1..Len(s))
  BY <1>1, FS_Interval
<1>3. IsFiniteSet(Full(s)) /\ Cardinality(Full(s)) \in Nat
  BY <1>2, FS_Subset, FS_CardinalityType DEF Full
<1>4. Weight(s) = Len(s) + 2 * Cardinality(Full(s))
  BY DEF Weight, Full
<1>5. QED
  BY <1>1, <1>3, <1>4

\* An answer that is sent.
LEMMA WeightMore ==
    ASSUME NEW s \in Seq(Answers), NEW e \in Answers
    PROVE  Weight(Append(s, e)) = Weight(s) + (IF e = "error" THEN 1 ELSE 3)
<1> DEFINE t == Append(s, e)
<1>1. /\ t \in Seq(Answers) /\ Len(t) = Len(s) + 1 /\ Len(s) \in Nat
      /\ \A i \in 1..Len(s) : t[i] = s[i]
      /\ t[Len(s) + 1] = e
  BY Queue
<1> HIDE DEF t
<1>2. \A i : i \in 1..Len(t) <=> i \in 1..Len(s) \/ i = Len(s) + 1
  BY <1>1
<1>3. Full(t) = IF e = "error" THEN Full(s) ELSE Full(s) \cup {Len(s) + 1}
  BY <1>1, <1>2 DEF Full
<1>4. Len(s) + 1 \notin Full(s)
  BY <1>1 DEF Full
<1>5. Cardinality(Full(s) \cup {Len(s) + 1}) = Cardinality(Full(s)) + 1
  BY <1>4, WeightType, FS_AddElement
<1>6. /\ Weight(t) = Len(t) + 2 * Cardinality(Full(t))
      /\ Weight(s) = Len(s) + 2 * Cardinality(Full(s)) /\ Cardinality(Full(s)) \in Nat
  BY <1>1, WeightType
<1>7. QED
  BY <1>1, <1>3, <1>5, <1>6 DEF t

\* An answer that arrives.
LEMMA WeightLess ==
    ASSUME NEW s \in Seq(Answers), s # <<>>
    PROVE  /\ Weight(s) = Weight(Tail(s)) + (IF Head(s) = "error" THEN 1 ELSE 3)
           /\ Weight(Tail(s)) \in Nat
<1> DEFINE t == Tail(s)
<1>1. /\ Len(s) \in Nat /\ Len(s) >= 1 /\ Head(s) = s[1]
      /\ t \in Seq(Answers) /\ Len(t) = Len(s) - 1
      /\ \A i \in 1..Len(s) - 1 : t[i] = s[i + 1]
  OBVIOUS
<1> HIDE DEF t
<1> DEFINE S == Full(t)
           T == Full(s) \ {1}
           f == [i \in S |-> i + 1]
<1>2. S \subseteq 1..Len(s) - 1 /\ T \subseteq 2..Len(s)
  BY <1>1 DEF Full
<1>3. \A i \in 1..Len(s) - 1 : i \in S <=> i + 1 \in T
  BY <1>1 DEF Full
<1>4. IsFiniteSet(S) /\ Cardinality(S) \in Nat
  BY <1>1, WeightType
<1>5. 1 \notin T /\ Full(s) = IF Head(s) = "error" THEN T ELSE T \cup {1}
  BY <1>1 DEF Full
<1> HIDE DEF S, T
<1>6. f \in [S -> T]
  BY <1>2, <1>3
<1>7. \A a, b \in S : f[a] = f[b] => a = b
  BY <1>1, <1>2
<1>8. \A u \in T : \E i \in S : f[i] = u
  <2>1. ASSUME NEW u \in T PROVE u - 1 \in S /\ f[u - 1] = u
    BY <1>1, <1>2, <1>3
  <2>2. QED
    BY <2>1
<1>9. ExistsBijection(S, T)
  <2>1. DOMAIN f = S
    OBVIOUS
  <2>2. f \in Injection(S, T) /\ f \in Surjection(S, T)
    BY <1>6, <1>7, <1>8, <2>1 DEF Injection, IsInjective, Surjection
  <2>3. QED
    BY <2>2 DEF Bijection, ExistsBijection
<1>10. IsFiniteSet(T) /\ Cardinality(T) = Cardinality(S)
  BY <1>4, <1>9, FS_Bijection
<1>11. Cardinality(T \cup {1}) = Cardinality(T) + 1
  BY <1>5, <1>10, FS_AddElement
<1>12. /\ Weight(s) = Len(s) + 2 * Cardinality(Full(s))
       /\ Weight(t) = Len(t) + 2 * Cardinality(S) /\ Weight(t) \in Nat
  BY <1>1, WeightType DEF S
<1>13. QED
  BY <1>1, <1>4, <1>5, <1>10, <1>11, <1>12 DEF t

\* The parts of the patience are numbers.
LEMMA Parts ==
    ASSUME TypeOK
    PROVE  /\ Causes \in Nat /\ Counted \in Nat /\ Weight(answers) \in Nat
           /\ Collected \in Nat /\ Unfinished \in Nat
           /\ Len(held) \in Nat
<1>1. Len(held) \in Nat /\ Weight(answers) \in Nat
  BY WeightType, LenProperties DEF TypeOK
<1>2. Causes \in Nat
  BY <1>1, BoundsAssumption DEF TypeOK, Causes
<1>3. Counted \in Nat
  BY WidthAssumption DEF TypeOK, Counted
<1>4. QED
  BY <1>1, <1>2, <1>3 DEF Collected, Unfinished

\* What each step takes of it.
LEMMA Spending ==
    ASSUME IInv, IInv', Next
    PROVE  Patience' <= Patience /\ (Issue => Patience' < Patience)
<1> USE WidthAssumption, BoundsAssumption
<1>1. TypeOK /\ TypeOK' /\ Halved
  BY DEF IInv
<1>2. /\ Causes \in Nat /\ Counted \in Nat /\ Weight(answers) \in Nat
      /\ Collected \in Nat /\ Unfinished \in Nat /\ Len(held) \in Nat
  BY <1>1, Parts
<1>3. /\ sent \in Int /\ faults \in Int /\ notes \in Int
      /\ reg \in 0..(Width - 1) /\ unread \in 0..(Width - 1)
      /\ answers \in Seq(Answers) /\ held \in Seq(Kinds)
      /\ pc \in {"poll", "load", "store", "issue", "wait", "zero", "again",
               "bump", "serve", "rewrite"}
  BY <1>1, BoundsAssumption DEF TypeOK
<1>4. CASE Poll
  <2>1. Causes' = Causes /\ Weight(answers)' = Weight(answers) /\ Collected' = Collected
    BY <1>4 DEF Poll, line, Causes, Collected
  <2>2. Counted' = Counted /\ Unfinished' = Unfinished
    BY <1>3, <1>4 DEF Poll, Counted, Unfinished
  <2>3. QED
    BY <1>2, <1>4, <2>1, <2>2 DEF Patience, Issue, Poll
<1>5. CASE Load
  <2>1. Causes' = Causes /\ Weight(answers)' = Weight(answers) /\ Collected' = Collected
    BY <1>5 DEF Load, line, Causes, Collected
  <2>2. Counted' = Counted /\ Unfinished' = Unfinished
    BY <1>3, <1>5 DEF Load, Counted, Unfinished
  <2>3. QED
    BY <1>2, <1>5, <2>1, <2>2 DEF Patience, Issue, Load
<1>6. CASE Store
  <2>1. Causes' = Causes /\ Weight(answers)' = Weight(answers) /\ Collected' = Collected
    BY <1>6 DEF Store, line, Causes, Collected
  <2>2. Counted' = Counted - 1
    BY <1>3, <1>6 DEF Store, Counted, Down
  <2>3. Unfinished = 0 /\ Unfinished' = 2
    BY <1>6 DEF Store, Unfinished
  <2>4. QED
    BY <1>2, <1>6, <2>1, <2>2, <2>3 DEF Patience, Issue, Store
<1>7. CASE Issue
  <2>1. Counted' = Counted
    BY <1>7 DEF Issue, Counted
  <2>2. Unfinished = 2 /\ Unfinished' = 0
    BY <1>7 DEF Issue, Unfinished
  <2>3. Collected' = 0
    BY <1>7 DEF Issue, Collected
  <2>4. \/ Causes' = Causes /\ Weight(answers)' = Weight(answers) + 1
        \/ Causes' = Causes - 1 /\ Weight(answers)' = Weight(answers) + 3
    <3>1. CASE held = <<>>
      <4>1. Weight(answers)' = Weight(answers) + 1
        BY <1>3, <1>7, <3>1, WeightMore DEF Issue, Answers
      <4>2. Causes' = Causes
        BY <1>7, <3>1 DEF Issue, Causes
      <4>3. QED
        BY <4>1, <4>2
    <3>2. CASE held # <<>>
      <4>1. Head(held) \in Answers /\ Head(held) # "error"
        BY <1>3, <3>2, Queue DEF Answers, Kinds
      <4>2. Weight(answers)' = Weight(answers) + 3
        BY <1>3, <1>7, <3>2, <4>1, WeightMore DEF Issue
      <4>3. Len(held') = Len(held) - 1
        BY <1>3, <1>7, <3>2, Queue DEF Issue
      <4>4. Causes' = Causes - 1
        BY <1>2, <1>3, <1>7, <4>3 DEF Issue, Causes
      <4>5. QED
        BY <4>2, <4>4
    <3>3. QED
      BY <3>1, <3>2
  <2>5. QED
    BY <1>2, <2>1, <2>2, <2>3, <2>4 DEF Patience
<1>8. CASE Take
  <2>1. Causes' = Causes /\ Weight(answers)' = Weight(answers)
    BY <1>8 DEF Take, line, Causes
  <2>2. pc = "wait" /\ pc' \in {"zero", "again", "serve"} /\ (pc' = "again" => got # "error")
    BY <1>1, <1>8 DEF Take, After, TypeOK, Answers, Kinds
  <2>3. Counted' = Counted
    BY <1>8, <2>2 DEF Take, Counted
  <2>4. Collected' = 0 /\ (pc' = "again" => Collected = 3)
    BY <1>8, <2>2 DEF Take, Collected
  <2>5. Unfinished = 0 /\ Unfinished' \in {0, 3} /\ (Unfinished' = 3 => pc' = "again")
    BY <2>2 DEF Unfinished
  <2>6. QED
    BY <1>2, <2>1, <2>2, <2>3, <2>4, <2>5 DEF Patience, Issue
<1>9. CASE TimeOut
  <2>1. Causes' = Causes - 1
    BY <1>2, <1>3, <1>9 DEF TimeOut, Fault, line, Causes
  <2>2. Weight(answers)' = Weight(answers) /\ Collected' = Collected
    BY <1>9 DEF TimeOut, line, Collected
  <2>3. Counted' = Counted
    BY <1>9 DEF TimeOut, Counted
  <2>4. Unfinished = 0 /\ Unfinished' = 3
    BY <1>9 DEF TimeOut, Unfinished
  <2>5. QED
    BY <1>2, <1>9, <2>1, <2>2, <2>3, <2>4 DEF Patience, Issue, TimeOut
<1>10. CASE Zero
  <2>1. Causes' = Causes /\ Weight(answers)' = Weight(answers) /\ Collected' = Collected
    BY <1>10 DEF Zero, line, Causes, Collected
  <2>2. Counted' = 0 /\ Unfinished' = 0
    BY <1>10 DEF Zero, Counted, Unfinished
  <2>3. QED
    BY <1>2, <1>10, <2>1, <2>2 DEF Patience, Issue, Zero
<1>11. CASE Again
  <2>1. Causes' = Causes /\ Weight(answers)' = Weight(answers) /\ Collected' = Collected
    BY <1>11 DEF Again, line, Causes, Collected
  <2>2. Counted' = Counted /\ Unfinished' = Unfinished
    BY <1>11 DEF Again, Counted, Unfinished
  <2>3. QED
    BY <1>2, <1>11, <2>1, <2>2 DEF Patience, Issue, Again
<1>12. CASE Bump
  <2>1. Causes' = Causes /\ Weight(answers)' = Weight(answers) /\ Collected' = Collected
    BY <1>12 DEF Bump, line, Causes, Collected
  <2>2. Counted' <= Counted + 1 /\ Counted' \in Nat
    BY <1>3, <1>12 DEF Bump, Counted, Up
  <2>3. Unfinished = 3 /\ Unfinished' = 0
    BY <1>12 DEF Bump, Unfinished
  <2>4. QED
    BY <1>2, <1>12, <2>1, <2>2, <2>3 DEF Patience, Issue, Bump
<1>13. CASE Serve \/ Rewrite \/ Rewritten
  <2>1. Causes' = Causes /\ Weight(answers)' = Weight(answers) /\ Collected' = Collected
    BY <1>13 DEF Serve, Rewrite, Rewritten, line, Causes, Collected
  <2>2. pc \in {"serve", "rewrite"} /\ pc' \in {"poll", "rewrite"} /\ unread' = unread
    BY <1>13 DEF Serve, Rewrite, Rewritten
  <2>3. Counted' = Counted /\ Unfinished' = Unfinished
    BY <2>2 DEF Counted, Unfinished
  <2>4. QED
    BY <1>2, <2>1, <2>2, <2>3 DEF Patience, Issue
<1>14. ASSUME pc' = pc, reg' = reg PROVE ~Issue /\ Unfinished' = Unfinished
  BY <1>14 DEF Issue, Unfinished
<1>15. ASSUME pc' = pc, reg' = reg, unread' = unread PROVE Counted' = Counted
  BY <1>15 DEF Counted
<1>16. ASSUME pc' = pc, reg' = reg, unread' = Up(unread)
       PROVE  Counted' <= Counted + 1 /\ Counted' \in Nat
  <2>1. CASE pc = "load"
    BY <1>3, <1>16, <2>1 DEF Counted, Up
  <2>2. CASE pc \in {"store", "bump"}
    BY <1>3, <1>16, <2>2 DEF Counted
  <2>3. CASE pc \notin {"load", "store", "bump"}
    BY <1>3, <1>16, <2>3 DEF Counted, Up
  <2>4. QED
    BY <2>1, <2>2, <2>3
<1>17. CASE NoticeBegins
  <2>1. Causes' = Causes /\ Weight(answers)' = Weight(answers) /\ Collected' = Collected
    BY <1>17 DEF NoticeBegins, main, Causes, Collected
  <2>2. pc' = pc /\ reg' = reg /\ unread' = unread
    BY <1>17 DEF NoticeBegins, main
  <2>3. QED
    BY <1>2, <1>14, <1>15, <2>1, <2>2 DEF Patience
<1>18. CASE NoticeEnds
  <2>1. Causes' = Causes - 1
    <3>1. notes' = notes - 1 /\ held' = held /\ sent' = sent /\ faults' = faults
      BY <1>18 DEF NoticeEnds
    <3>2. QED
      BY <1>2, <1>3, <3>1, BoundsAssumption DEF Causes
  <2>2. Weight(answers)' = Weight(answers)
    BY <1>18 DEF NoticeEnds
  <2>3. Collected' <= Collected + 3 /\ Collected' \in Nat
    BY <1>18 DEF NoticeEnds, Collected
  <2>4. Counted' <= Counted + 1 /\ Counted' \in Nat
    BY <1>2, <1>15, <1>16, <1>18 DEF NoticeEnds
  <2>5. ~Issue /\ Unfinished' = Unfinished
    BY <1>14, <1>18 DEF NoticeEnds
  <2>6. QED
    BY <1>2, <2>1, <2>2, <2>3, <2>4, <2>5 DEF Patience
<1>19. CASE FalseNotice
  <2>1. Causes' = Causes - 1
    BY <1>2, <1>3, <1>19 DEF FalseNotice, Fault, line, Causes
  <2>2. Weight(answers)' = Weight(answers) /\ Collected' = Collected
    BY <1>19 DEF FalseNotice, line, main, Collected
  <2>3. pc' = pc /\ reg' = reg /\ unread' = Up(unread)
    BY <1>19 DEF FalseNotice, main
  <2>4. QED
    BY <1>2, <1>14, <1>16, <2>1, <2>2, <2>3 DEF Patience
<1>20. CASE NoticeLost
  <2>1. Causes' <= Causes /\ Causes' \in Int
    BY <1>2, <1>3, <1>20 DEF NoticeLost, Fault, Causes
  <2>2. Weight(answers)' = Weight(answers) /\ Collected' = Collected
    BY <1>20 DEF NoticeLost, main, Collected
  <2>3. pc' = pc /\ reg' = reg /\ unread' = unread
    BY <1>20 DEF NoticeLost, main
  <2>4. QED
    BY <1>2, <1>14, <1>15, <2>1, <2>2, <2>3 DEF Patience
<1>21. CASE Deliver
  <2>1. Causes' = Causes
    BY <1>21 DEF Deliver, Causes
  <2>2. ~Issue /\ Unfinished' = Unfinished /\ Counted' = Counted
    BY <1>14, <1>15, <1>21 DEF Deliver
  <2>3. /\ Weight(answers) = Weight(answers)' + (IF Head(answers) = "error" THEN 1 ELSE 3)
        /\ Weight(answers)' \in Int
    BY <1>3, <1>21, WeightLess DEF Deliver
  <2>4. Head(answers) \in Answers
    BY <1>3, <1>21, Queue DEF Deliver
  <2>5. Collected' <= Collected + (IF Head(answers) = "error" THEN 1 ELSE 3)
        /\ Collected' \in Nat
    <3>1. CASE pc = "wait" /\ got = "none"
      <4>1. got' = Head(answers) /\ got' # "none"
        BY <1>21, <2>4, <3>1 DEF Deliver, Answers, Kinds
      <4>2. Collected = 0 /\ Collected' = IF Head(answers) = "error" THEN 1 ELSE 3
        BY <3>1, <4>1 DEF Collected
      <4>3. QED
        BY <4>2
    <3>2. CASE ~(pc = "wait" /\ got = "none")
      <4>1. Collected' = Collected
        BY <1>21, <3>2 DEF Deliver, Collected
      <4>2. QED
        BY <1>2, <4>1
    <3>3. QED
      BY <3>1, <3>2
  <2>6. QED
    BY <1>2, <2>1, <2>2, <2>3, <2>5 DEF Patience
<1>22. CASE Spoil
  <2>1. Causes' = Causes - 1
    BY <1>2, <1>3, <1>22 DEF Spoil, Fault, Causes
  <2>2. ~Issue /\ Unfinished' = Unfinished /\ Counted' = Counted
    BY <1>14, <1>15, <1>22 DEF Spoil
  <2>3. Weight(answers)' <= Weight(answers) /\ Weight(answers)' \in Int
    <3>1. answers # <<>> /\ answers' = Tail(answers)
      BY <1>22 DEF Spoil
    <3>2. /\ Weight(answers) = Weight(answers') + (IF Head(answers) = "error" THEN 1 ELSE 3)
          /\ Weight(answers') \in Nat
      BY <1>3, <3>1, WeightLess
    <3>3. QED
      BY <1>2, <3>2
  <2>4. Collected' = 3
    BY <1>22 DEF Spoil, Collected
  <2>5. QED
    BY <1>2, <2>1, <2>2, <2>3, <2>4 DEF Patience
<1>23. CASE Arrive
  <2>1. Len(held') = Len(held) + 1
    BY <1>3, <1>23, Queue DEF Arrive
  <2>2. Causes' = Causes
    BY <1>2, <1>3, <1>23, <2>1 DEF Arrive, Causes
  <2>3. Weight(answers)' = Weight(answers) /\ Collected' = Collected
    BY <1>23 DEF Arrive, main, Collected
  <2>4. pc' = pc /\ reg' = reg /\ unread' = unread
    BY <1>23 DEF Arrive, main
  <2>5. QED
    BY <1>2, <1>14, <1>15, <2>2, <2>3, <2>4 DEF Patience
<1>24. CASE Close
  <2>1. Len(held') = 0
    BY <1>24 DEF Close
  <2>2. Causes' <= Causes /\ Causes' \in Int
    BY <1>2, <1>3, <1>24, <2>1 DEF Close, Fault, Causes
  <2>3. Weight(answers)' = Weight(answers) /\ Collected' = Collected
    BY <1>24 DEF Close, main, Collected
  <2>4. pc' = pc /\ reg' = reg /\ unread' = unread
    BY <1>24 DEF Close, main
  <2>5. QED
    BY <1>2, <1>14, <1>15, <2>2, <2>3, <2>4 DEF Patience
<1>25. QED
  BY <1>4, <1>5, <1>6, <1>7, <1>8, <1>9, <1>10, <1>11, <1>12, <1>13, <1>17, <1>18,
     <1>19, <1>20, <1>21, <1>22, <1>23, <1>24 DEF Next, Main

\* Every AT%IPDR uses up some of the loop's patience, and nothing restores it.
THEOREM PatienceWearsOff == Spec => AskingEnds
<1> DEFINE A == Patience' \in 0..Patience /\ (Issue => Patience' # Patience)
           Number == Patience \in Nat
<1>1. IInv => Number
  <2> SUFFICES ASSUME IInv PROVE Number
    OBVIOUS
  <2>1. QED
    BY Parts DEF IInv, Patience
<1>2. IInv /\ IInv' /\ Number /\ Number' /\ [Next]_vars => [A]_vars
  BY Spending
<1>3. QED
  BY <1>1, <1>2, Invariance, PTL DEF Spec, AskingEnds
=============================================================================
