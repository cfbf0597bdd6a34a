-------------------------- MODULE MeterLinkProofs --------------------------
(***************************************************************************)
(* Proofs about MeterLink for all codes that are read and written, any     *)
(* number of sessions, time-outs and disturbances, and a meter that holds  *)
(* any number of requests.                                                 *)
(***************************************************************************)
EXTENDS MeterLink, SequenceTheorems, TLAPS

(***************************************************************************)
(* Dialogues.                                                              *)
(***************************************************************************)
Kinds == {"para", "clock", "freeze", "direct", "write"}
Requests == Elements(Handshake) \cup Fields \cup Elements(Readings) \cup Elements(Writes)

\* What a sequence holds.
LEMMA Held ==
    ASSUME NEW S, NEW s \in Seq(S)
    PROVE  /\ s \in Seq(Elements(s)) /\ Len(s) \in Nat
           /\ \A i \in 1 .. Len(s) : s[i] \in Elements(s)
<1>1. Len(s) \in Nat /\ s \in [1 .. Len(s) -> S]
  BY LenProperties
<1>2. s \in [1 .. Len(s) -> Elements(s)]
  BY <1>1 DEF Elements
<1>3. QED
  BY <1>1, <1>2, SeqDef

\* The fixed codes.
LEMMA FixedCodes ==
    /\ Elements(Handshake) = {"ident", "option", "password"}
    /\ Fields = {"C100", "C105", "C106", "C107", "C108", "C001"}
    /\ Elements(Para) \subseteq Fields /\ Elements(Clock) \subseteq Fields
<1>1. /\ Len(Handshake) = 3 /\ Handshake[1] = "ident" /\ Handshake[2] = "option"
      /\ Handshake[3] = "password"
  BY DEF Handshake
<1>2. Elements(Handshake) = {"ident", "option", "password"}
  BY <1>1 DEF Elements
<1>3. /\ Len(Para) = 5 /\ Para[1] = "C100" /\ Para[2] = "C105" /\ Para[3] = "C106"
      /\ Para[4] = "C107" /\ Para[5] = "C108"
  BY DEF Para
<1>4. Elements(Para) = {"C100", "C105", "C106", "C107", "C108"}
  BY <1>3 DEF Elements
<1>5. Len(Clock) = 2 /\ Clock[1] = "C100" /\ Clock[2] = "C001"
  BY DEF Clock
<1>6. Elements(Clock) = {"C100", "C001"}
  BY <1>5 DEF Elements
<1>7. QED
  BY <1>2, <1>4, <1>6 DEF Fields

\* The codes that are chosen are strings of their own.
LEMMA ChosenCodes ==
    /\ Elements(Readings) \cap (Elements(Handshake) \cup Marks \cup Fields
            \cup {"NUL", "P0", "bad", "open", "none", "junk"}) = {}
    /\ Elements(Writes) \cap (Elements(Handshake) \cup Marks \cup Fields
            \cup Elements(Readings) \cup {"NUL", "P0", "bad", "open", "none", "junk"}) = {}
    /\ Readings \in Seq(Elements(Readings)) /\ Writes \in Seq(Elements(Writes))
    /\ Len(Readings) \in Nat /\ Len(Readings) > 0
    /\ Len(Writes) \in Nat /\ Len(Writes) > 0
<1>1. Readings \in Seq(STRING) /\ Writes \in Seq(STRING)
  BY CodesAssumption, Zenon
<1>2. Readings # <<>> /\ Writes # <<>>
  BY CodesAssumption, Zenon
<1>3. Len(Readings) > 0 /\ Len(Writes) > 0
  BY <1>1, <1>2, EmptySeq
<1>4. QED
  BY <1>1, <1>3, Held, CodesAssumption

\* The script of each kind of session.
LEMMA Scripts ==
    ASSUME NEW t \in Kinds
    PROVE  /\ Script(t) \in Seq(Elements(Script(t)))
           /\ Len(Script(t)) \in Nat /\ Len(Script(t)) > 0
           /\ Elements(Script(t)) \subseteq Requests \ Elements(Handshake)
           /\ t \in {"para", "clock"} => Elements(Script(t)) \subseteq Fields
           /\ t \in {"freeze", "direct"} => Elements(Script(t)) = Elements(Readings)
           /\ t = "write" => Elements(Script(t)) = Elements(Writes)
<1>1. Fields \cap Elements(Handshake) = {}
  BY FixedCodes
<1>2. CASE t = "para"
  <2>1. Para \in Seq(Elements(Para)) /\ Len(Para) = 5
    <3>1. Para \in Seq(Fields) /\ Len(Para) = 5
      BY FixedCodes DEF Para
    <3>2. QED
      BY <3>1, Held
  <2>2. QED
    BY <1>1, <1>2, <2>1, FixedCodes DEF Script, Requests
<1>3. CASE t = "clock"
  <2>1. Clock \in Seq(Elements(Clock)) /\ Len(Clock) = 2
    <3>1. Clock \in Seq(Fields) /\ Len(Clock) = 2
      BY FixedCodes DEF Clock
    <3>2. QED
      BY <3>1, Held
  <2>2. QED
    BY <1>1, <1>3, <2>1, FixedCodes DEF Script, Requests
<1>4. CASE t \in {"freeze", "direct"}
  BY <1>4, ChosenCodes DEF Script, Requests
<1>5. CASE t = "write"
  BY <1>5, ChosenCodes DEF Script, Requests
<1>6. QED
  BY <1>2, <1>3, <1>4, <1>5 DEF Kinds

\* A dialogue is the handshake and the script.
LEMMA Dialogues ==
    ASSUME NEW t \in Kinds
    PROVE  LET d == Dialogue(t) IN
           /\ d \in Seq(Requests)
           /\ Len(d) = 3 + Len(Script(t)) /\ Len(d) \in Nat /\ Len(d) > 3
           /\ d[1] = "ident" /\ d[2] = "option" /\ d[3] = "password"
           /\ \A i \in 1 .. Len(d) : d[i] \in Requests
           /\ \A i \in 4 .. Len(d) : /\ d[i] = Script(t)[i - 3]
                                     /\ d[i] \in Elements(Script(t))
           /\ \A i \in 1 .. Len(Script(t)) : Script(t)[i] = d[i + 3]
<1> DEFINE d == Dialogue(t)
<1>1. Handshake \in Seq(Requests) /\ Len(Handshake) = 3
  BY FixedCodes DEF Handshake, Requests
<1>2. Handshake[1] = "ident" /\ Handshake[2] = "option" /\ Handshake[3] = "password"
  BY DEF Handshake
<1>3. /\ Len(Script(t)) > 0 /\ Len(Script(t)) \in Nat
      /\ Elements(Script(t)) \subseteq Requests
      /\ \A i \in 1 .. Len(Script(t)) : Script(t)[i] \in Elements(Script(t))
      /\ Script(t) \in Seq(Requests)
  <2>1. /\ Script(t) \in Seq(Elements(Script(t)))
        /\ Elements(Script(t)) \subseteq Requests
    BY Scripts
  <2>2. Script(t) \in Seq(Requests)
    BY <2>1, SeqMonotonic
  <2>3. QED
    BY <2>1, <2>2, Scripts, Held
<1>4. /\ d \in Seq(Requests) /\ Len(d) = Len(Handshake) + Len(Script(t))
      /\ \A i \in 1 .. Len(Handshake) + Len(Script(t)) :
            d[i] = IF i <= Len(Handshake) THEN Handshake[i]
                   ELSE Script(t)[i - Len(Handshake)]
  BY <1>1, <1>3, ConcatProperties, Zenon DEF Dialogue
<1> HIDE DEF d
<1>6. d[1] = "ident" /\ d[2] = "option" /\ d[3] = "password"
  BY <1>1, <1>2, <1>3, <1>4
<1>7. \A i \in 4 .. Len(d) : d[i] = Script(t)[i - 3] /\ d[i] \in Elements(Script(t))
  BY <1>1, <1>3, <1>4
<1>8. \A i \in 1 .. Len(Script(t)) : Script(t)[i] = d[i + 3]
  BY <1>1, <1>3, <1>4
<1>9. \A i \in 1 .. Len(d) : d[i] \in Requests
  <2> TAKE i \in 1 .. Len(d)
  <2>1. i = 1 \/ i = 2 \/ i = 3 \/ i \in 4 .. Len(d)
    BY <1>1, <1>3, <1>4
  <2>2. QED
    BY <1>3, <1>6, <1>7, <2>1, FixedCodes DEF Requests
<1>10. QED
  BY <1>1, <1>3, <1>4, <1>6, <1>7, <1>8, <1>9 DEF d

\* The kinds of answer.
LEMMA AnswerKinds ==
    /\ AnswerKind("ident") = "ident" /\ AnswerKind("option") = "option"
    /\ AnswerKind("password") = "ack"
    /\ \A c \in Elements(Writes) : AnswerKind(c) = "ack"
    /\ \A c \in Fields \cup Elements(Readings) : AnswerKind(c) = "data"
    /\ \A c : AnswerKind(c) \in {"ident", "option", "ack", "data"}
BY FixedCodes, ChosenCodes DEF AnswerKind

(***************************************************************************)
(* The line.                                                               *)
(***************************************************************************)
Texts == Values \cup {"open"}

\* What may be left of an answer, damaged or not.
Shapes == {<<>>, <<"LF">>, <<"/", "LF">>, <<"ACK">>, <<"BCC">>, <<"ETX", "BCC">>}
          \cup {<<x, "ETX", "BCC">> : x \in Texts}
          \cup {<<"STX", x, "ETX", "BCC">> : x \in Texts}
          \cup {<<"SOH", "STX", x, "ETX", "BCC">> : x \in Texts}

\* Texts are no framing characters.
LEMMA TextsAreNoMarks ==
    /\ Texts \cap Marks = {}
    /\ "none" \notin Texts /\ "open" \notin Values /\ "NUL" \notin Texts
    /\ {"P0", "bad"} \subseteq Values
    /\ Fields \subseteq Values /\ Elements(Readings) \subseteq Values
BY FixedCodes, ChosenCodes DEF Texts, Values, Marks

\* Taking the first of a few characters.
LEMMA Tuples ==
    /\ \A a : Head(<<a>>) = a /\ Tail(<<a>>) = <<>>
    /\ \A a, b : Head(<<a, b>>) = a /\ Tail(<<a, b>>) = <<b>>
    /\ \A a, b, c : Head(<<a, b, c>>) = a /\ Tail(<<a, b, c>>) = <<b, c>>
    /\ \A a, b, c, d :
          Head(<<a, b, c, d>>) = a /\ Tail(<<a, b, c, d>>) = <<b, c, d>>
    /\ \A a, b, c, d, e :
          Head(<<a, b, c, d, e>>) = a /\ Tail(<<a, b, c, d, e>>) = <<b, c, d, e>>
OBVIOUS

\* Receiving and damaging what is left leaves something of the same form, and
\* the last character of a frame ends it.
LEMMA Shape ==
    ASSUME NEW w \in Shapes, w # <<>>
    PROVE  /\ Tail(w) \in Shapes
           /\ Head(w) \in Marks \cup Texts
           /\ Head(w) \in {"LF", "ACK", "BCC"} => Tail(w) = <<>>
           /\ Head(w) = "ETX" => Tail(w) = <<"BCC">>
           /\ Head(w) = "BCC" => w = <<"BCC">>
           /\ Head(w) # "NUL"
           /\ Head(w) \notin Marks =>
                \A x \in Texts : [w EXCEPT ![1] = x] \in Shapes \ {<<>>}
<1>1. CASE w \in {<<"LF">>, <<"/", "LF">>, <<"ACK">>, <<"BCC">>, <<"ETX", "BCC">>}
  <2>1. /\ w = <<"LF">> => Head(w) = "LF" /\ Tail(w) = <<>>
        /\ w = <<"/", "LF">> => Head(w) = "/" /\ Tail(w) = <<"LF">>
        /\ w = <<"ACK">> => Head(w) = "ACK" /\ Tail(w) = <<>>
        /\ w = <<"BCC">> => Head(w) = "BCC" /\ Tail(w) = <<>>
        /\ w = <<"ETX", "BCC">> => Head(w) = "ETX" /\ Tail(w) = <<"BCC">>
    BY Tuples
  <2>2. Tail(w) \in {<<>>, <<"LF">>, <<"BCC">>}
    BY <1>1, <2>1
  <2>3. Tail(w) \in Shapes
    BY <2>2 DEF Shapes
  <2>4. QED
    BY <1>1, <2>1, <2>3 DEF Marks
<1>2. ASSUME NEW x \in Texts,
             w \in {<<"STX", x, "ETX", "BCC">>, <<"SOH", "STX", x, "ETX", "BCC">>}
      PROVE  /\ Head(w) \in {"STX", "SOH"}
             /\ Tail(w) \in {<<x, "ETX", "BCC">>, <<"STX", x, "ETX", "BCC">>}
  <2>1. CASE w = <<"STX", x, "ETX", "BCC">>
    BY <2>1, Tuples
  <2>2. CASE w = <<"SOH", "STX", x, "ETX", "BCC">>
    BY <2>2, Tuples
  <2>3. QED
    BY <1>2, <2>1, <2>2
<1>3. ASSUME NEW x \in Texts, w = <<x, "ETX", "BCC">>
      PROVE  /\ Head(w) = x /\ Tail(w) = <<"ETX", "BCC">>
             /\ \A y : [w EXCEPT ![1] = y] = <<y, "ETX", "BCC">>
  BY <1>3
<1>4. CASE \E x \in Texts : w \in {<<"STX", x, "ETX", "BCC">>,
                                   <<"SOH", "STX", x, "ETX", "BCC">>}
  <2>1. Head(w) \in {"STX", "SOH"} /\ Tail(w) \in Shapes
    BY <1>2, <1>4 DEF Shapes
  <2>2. QED
    BY <2>1 DEF Marks
<1>5. CASE \E x \in Texts : w = <<x, "ETX", "BCC">>
  <2>1. Head(w) \in Texts /\ Tail(w) \in Shapes
    BY <1>3, <1>5 DEF Shapes
  <2>2. \A y \in Texts : [w EXCEPT ![1] = y] \in Shapes \ {<<>>}
    <3> TAKE y \in Texts
    <3>1. [w EXCEPT ![1] = y] = <<y, "ETX", "BCC">>
      BY <1>3, <1>5
    <3>2. <<y, "ETX", "BCC">> # <<>>
      OBVIOUS
    <3>3. QED
      BY <3>1, <3>2 DEF Shapes
  <2>3. Head(w) \notin Marks /\ Head(w) # "NUL"
    BY <2>1, TextsAreNoMarks
  <2>4. QED
    BY <2>1, <2>2, <2>3 DEF Marks
<1>6. QED
  BY <1>1, <1>4, <1>5 DEF Shapes

\* A word for each request, and what the meter sends for it.
LEMMA Frames ==
    ASSUME NEW c \in Requests
    PROVE  /\ Frame(c) \in Shapes \ {<<>>}
           /\ AnswerKind(c) = "ident" => Frame(c) = <<"/", "LF">>
           /\ AnswerKind(c) = "option" => Frame(c) = <<"SOH", "STX", "P0", "ETX", "BCC">>
           /\ AnswerKind(c) = "ack" => Frame(c) = <<"ACK">>
           /\ AnswerKind(c) = "data" => Frame(c) = <<"STX", c, "ETX", "BCC">>
<1>1. AnswerKind(c) = "data" => c \in Texts
  BY FixedCodes, AnswerKinds, TextsAreNoMarks DEF Requests, Texts
<1>2. "P0" \in Texts
  BY TextsAreNoMarks DEF Texts
<1>3. AnswerKind(c) = "ident" => Frame(c) = <<"/", "LF">>
  BY DEF Frame
<1>4. AnswerKind(c) = "option" => Frame(c) = <<"SOH", "STX", "P0", "ETX", "BCC">>
  BY DEF Frame
<1>5. AnswerKind(c) = "ack" => Frame(c) = <<"ACK">>
  BY DEF Frame
<1>6. AnswerKind(c) = "data" => Frame(c) = <<"STX", c, "ETX", "BCC">>
  BY DEF Frame
<1>7. AnswerKind(c) \in {"ident", "option", "ack", "data"}
  BY AnswerKinds
<1>8. /\ <<"/", "LF">> # <<>> /\ <<"ACK">> # <<>>
      /\ \A x : <<"STX", x, "ETX", "BCC">> # <<>>
      /\ \A x : <<"SOH", "STX", x, "ETX", "BCC">> # <<>>
  OBVIOUS
<1>9. Frame(c) \in Shapes \ {<<>>}
  BY <1>1, <1>2, <1>3, <1>4, <1>5, <1>6, <1>7, <1>8 DEF Shapes
<1>10. QED
  BY <1>3, <1>4, <1>5, <1>6, <1>9

\* The words of what is left of an answer.
LEMMA ShapesAreLines == Shapes \subseteq Seq(Marks \cup Values \cup {"open"})
<1> DEFINE W == Marks \cup Values \cup {"open"}
<1>1. {"LF", "/", "ACK", "BCC", "ETX", "STX", "SOH"} \subseteq W /\ Texts \subseteq W
  BY DEF Marks, Texts
<1> HIDE DEF W
<1>2. /\ <<>> \in Seq(W) /\ <<"LF">> \in Seq(W) /\ <<"/", "LF">> \in Seq(W)
      /\ <<"ACK">> \in Seq(W) /\ <<"BCC">> \in Seq(W) /\ <<"ETX", "BCC">> \in Seq(W)
  BY <1>1
<1>3. \A x \in Texts : <<x, "ETX", "BCC">> \in Seq(W)
  BY <1>1
<1>4. \A x \in Texts : <<"STX", x, "ETX", "BCC">> \in Seq(W)
  BY <1>1
<1>5. \A x \in Texts : <<"SOH", "STX", x, "ETX", "BCC">> \in Seq(W)
  BY <1>1
<1>6. QED
  BY <1>2, <1>3, <1>4, <1>5 DEF Shapes, W

(***************************************************************************)
(* Types.                                                                  *)
(***************************************************************************)
\* What is left of an answer has one of the known forms, and the receiver waits
\* for the answer to the request that was sent last.
Typed == /\ TypeOK
         /\ wire \in Shapes
         /\ at > 0 => rx.kind = AnswerKind(Dialogue(task)[at])
         /\ at > 0 /\ rx.done => ~rx.started

\* What is appended or taken is one element.
LEMMA Queue ==
    ASSUME NEW S, NEW s \in Seq(S), NEW e \in S
    PROVE  /\ Append(s, e) \in Seq(S) /\ Len(Append(s, e)) = Len(s) + 1
           /\ \A i \in 1..Len(s) : Append(s, e)[i] = s[i]
           /\ Append(s, e)[Len(s) + 1] = e
           /\ Len(s) \in Nat
           /\ s # <<>> => /\ Head(s) \in S /\ Head(s) = s[1]
                          /\ Tail(s) \in Seq(S)
                          /\ Len(s) > 0 /\ Len(Tail(s)) = Len(s) - 1
                          /\ \A i \in 1..Len(Tail(s)) : Tail(s)[i] = s[i + 1]
OBVIOUS

LEMMA TaskKinds == TypeOK => task \in Kinds
BY LimitsAssumption DEF TypeOK, Kinds

\* A request that is sent.
LEMMA Requesting ==
    ASSUME TypeOK, NEW t \in Kinds, NEW i \in 1 .. Len(Dialogue(t)), Request(t, i)
    PROVE  /\ at' = i
           /\ rx' \in Receivers /\ rx'.kind = AnswerKind(Dialogue(t)[i])
           /\ ~rx'.done /\ ~rx'.head /\ rx'.text = "none"
           /\ rx'.started = rx.started /\ rx'.beyond = rx.beyond
           /\ todo' \in Seq(Requests) /\ Len(todo') <= Pending
           /\ Len(todo') >= Len(todo)
<1>1. Dialogue(t)[i] \in Requests
  BY Dialogues
<1>2. AnswerKind(Dialogue(t)[i]) \in {"ident", "option", "ack", "data"}
  BY AnswerKinds
<1>3. todo \in Seq(Requests) /\ Len(todo) \in Nat /\ Len(todo) <= Pending
  BY LenProperties DEF TypeOK, Requests
<1>4. Pending \in Nat
  BY LimitsAssumption
<1>5. /\ todo' \in Seq(Requests) /\ Len(todo') <= Pending /\ Len(todo') >= Len(todo)
  <2>1. CASE Len(todo) < Pending
    <3>1. todo' = Append(todo, Dialogue(t)[i])
      BY <2>1 DEF Request
    <3>2. todo' \in Seq(Requests) /\ Len(todo') = Len(todo) + 1
      BY <1>1, <1>3, <3>1, Queue
    <3>3. QED
      BY <1>3, <1>4, <2>1, <3>2
  <2>2. CASE ~(Len(todo) < Pending)
    BY <1>3, <1>4, <2>2 DEF Request
  <2>3. QED
    BY <2>1, <2>2
<1>6. rx \in Receivers
  BY DEF TypeOK
<1>7. rx' = ClearPara(AnswerKind(Dialogue(t)[i])) /\ at' = i
  BY DEF Request
<1>8. QED
  BY <1>2, <1>5, <1>6, <1>7 DEF ClearPara, Receivers

\* The constants that bound the state, and the handshake's length.
LEMMA Bounds ==
    /\ Pending \in Nat /\ Pending > 0 /\ DogSeconds \in Nat /\ DogSeconds > 0
    /\ Sessions \in Nat /\ Delays \in Nat /\ Damages \in Nat
    /\ Tasks \subseteq Kinds /\ Len(Handshake) = 3
BY LimitsAssumption DEF Kinds, Handshake

Replies == [code : Elements(Readings) \cup Elements(Writes),
            value : Values \cup Elements(Writes)]

\* What a session keeps.
LEMMA Storing ==
    ASSUME TypeOK, at \in 4 .. Len(Dialogue(task)),
           NEW got \in BOOLEAN, got => task = "write" \/ rx.text # "none",
           Store(Dialogue(task)[at], got)
    PROVE  /\ data_PLC' \in Values \cup {"none"}
           /\ para' \in [Fields -> Values \cup {"none", "junk"}]
           /\ reply' \in Seq(Replies)
<1> DEFINE c == Dialogue(task)[at]
<1>1. task \in Kinds
  BY TaskKinds
<1>2. c \in Elements(Script(task))
  BY <1>1, Dialogues
<1>3. /\ data_PLC \in Values \cup {"none"} /\ rx.text \in Values \cup {"none"}
      /\ para \in [Fields -> Values \cup {"none", "junk"}] /\ reply \in Seq(Replies)
  BY DEF TypeOK, Receivers, Replies
<1> HIDE DEF c
<1>4. Store(c, got)
  BY DEF c
<1>5. CASE task \in {"para", "clock"}
  <2>1. c \in Fields
    BY <1>1, <1>2, <1>5, Scripts
  <2>2. CASE task = "para"
    BY <1>3, <1>4, <2>1, <2>2 DEF Store
  <2>3. CASE task = "clock"
    BY <1>3, <1>4, <2>1, <2>3 DEF Store
  <2>4. QED
    BY <1>5, <2>2, <2>3
<1>6. CASE task \in {"freeze", "direct"}
  <2>1. c \in Elements(Readings)
    BY <1>1, <1>2, <1>6, Scripts
  <2>2. /\ data_PLC' = data_PLC /\ para' = para
        /\ reply' = IF got THEN Append(reply, [code |-> c, value |-> rx.text]) ELSE reply
    BY <1>4, <1>6 DEF Store
  <2>3. got => [code |-> c, value |-> rx.text] \in Replies
    BY <1>3, <1>6, <2>1 DEF Replies
  <2>4. reply' \in Seq(Replies)
    BY <1>3, <2>2, <2>3, Queue
  <2>5. QED
    BY <1>3, <2>2, <2>4
<1>7. CASE task = "write"
  <2>1. c \in Elements(Writes)
    BY <1>1, <1>2, <1>7, Scripts
  <2>2. /\ data_PLC' = data_PLC /\ para' = para
        /\ reply' = IF got THEN Append(reply, [code |-> c, value |-> c]) ELSE reply
    BY <1>4, <1>7 DEF Store
  <2>3. [code |-> c, value |-> c] \in Replies
    BY <2>1 DEF Replies
  <2>4. reply' \in Seq(Replies)
    BY <1>3, <2>2, <2>3, Queue
  <2>5. QED
    BY <1>3, <2>2, <2>4
<1>8. QED
  BY <1>1, <1>5, <1>6, <1>7 DEF Kinds

\* A session is begun.
LEMMA TypedBegin == ASSUME Typed, NEW t \in Tasks \cup {"para", "clock"}, Begin(t) PROVE Typed'
<1>1. TypeOK /\ wire \in Shapes
  BY DEF Typed
<1>2. t \in Kinds
  BY Bounds DEF Kinds
<1>3. Len(Dialogue(t)) \in Nat /\ Len(Dialogue(t)) > 3
  BY <1>2, Dialogues
<1>4. Request(t, 1) /\ task' = t
  BY DEF Begin
<1>5. 1 \in 1 .. Len(Dialogue(t))
  BY <1>3
<1>6. /\ at' = 1 /\ rx' \in Receivers /\ rx'.kind = AnswerKind(Dialogue(t)[1])
      /\ ~rx'.done
      /\ todo' \in Seq(Requests) /\ Len(todo') <= Pending
  BY <1>1, <1>2, <1>4, <1>5, Requesting
<1>7. count' \in [sessions : 0 .. Sessions, delays : 0 .. Delays, damages : 0 .. Damages]
  <2>1. /\ count \in [sessions : 0 .. Sessions, delays : 0 .. Delays, damages : 0 .. Damages]
        /\ count.sessions < Sessions
        /\ count' = [count EXCEPT !.sessions = count.sessions + 1]
    BY <1>1 DEF Begin, TypeOK
  <2>2. QED
    BY <2>1, Bounds
<1>8. signed' \in BOOLEAN /\ mistaken' \in BOOLEAN /\ clean' \in BOOLEAN /\ prompt' \in BOOLEAN
  BY DEF Begin, LineIdle
<1>9. old' \in 0 .. Pending + 1
  <2>1. Len(todo) \in Nat /\ Len(todo) <= Pending
    BY <1>1, LenProperties DEF TypeOK
  <2>2. QED
    BY <2>1, Bounds DEF Begin
<1>10. boot' \in 0 .. 2 /\ wdt' \in 0 .. DogSeconds /\ reply' \in Seq(Replies)
  <2>1. boot \in 0 .. 2
    BY <1>1 DEF TypeOK
  <2>2. boot' \in 0 .. 2 /\ wdt' = 0 /\ reply' = <<>>
    BY <2>1 DEF Begin
  <2>3. QED
    BY <2>2, Bounds
<1>11. UNCHANGED <<data_PLC, para, wire>>
  BY DEF Begin
<1>12. TypeOK'
  BY <1>1, <1>3, <1>4, <1>6, <1>7, <1>8, <1>9, <1>10, <1>11 DEF TypeOK, Requests, Replies
<1>13. QED
  BY <1>1, <1>4, <1>6, <1>11, <1>12 DEF Typed

\* The next request or the end of the session.
LEMMA Advancing ==
    ASSUME Typed, at > 0, Advance
    PROVE  /\ at' \in 0 .. Len(Dialogue(task)) /\ at' \in {0, at + 1}
           /\ rx' \in Receivers
           /\ at' > 0 => rx'.kind = AnswerKind(Dialogue(task)[at'])
           /\ at' > 0 /\ rx'.done => ~rx'.started
           /\ at' > 0 => ~rx'.done /\ ~rx'.head /\ rx'.text = "none"
           /\ rx'.started = rx.started /\ rx'.beyond = rx.beyond
           /\ todo' \in Seq(Requests) /\ Len(todo') <= Pending
           /\ Len(todo') >= Len(todo)
<1>1. TypeOK /\ task \in Kinds
  BY TaskKinds DEF Typed
<1>2. Len(Dialogue(task)) \in Nat /\ at \in 0 .. Len(Dialogue(task))
  BY <1>1, Dialogues DEF TypeOK
<1>3. CASE at < Len(Dialogue(task))
  <2>1. Request(task, at + 1) /\ at + 1 \in 1 .. Len(Dialogue(task))
    BY <1>2, <1>3 DEF Advance
  <2>2. QED
    BY <1>1, <1>2, <2>1, Requesting
<1>4. CASE ~(at < Len(Dialogue(task)))
  <2>1. at' = 0 /\ UNCHANGED <<rx, todo>>
    BY <1>4 DEF Advance
  <2>2. todo \in Seq(Requests) /\ Len(todo) <= Pending /\ rx \in Receivers
    BY <1>1 DEF TypeOK, Requests
  <2>3. Len(todo) \in Nat
    BY <2>2, LenProperties
  <2>4. QED
    BY <1>2, <2>1, <2>2, <2>3 DEF Typed
<1>5. QED
  BY <1>3, <1>4

\* An answer is seen.
LEMMA TypedSeen == ASSUME Typed, Seen PROVE Typed'
<1>1. TypeOK /\ wire \in Shapes /\ task \in Kinds
  BY TaskKinds DEF Typed
<1>2. at > 0 /\ Advance /\ at \in 0 .. Len(Dialogue(task)) /\ Len(Dialogue(task)) \in Nat
  BY <1>1, Dialogues DEF Seen, TypeOK
<1>3. /\ at' \in 0 .. Len(Dialogue(task)) /\ rx' \in Receivers
      /\ at' > 0 => rx'.kind = AnswerKind(Dialogue(task)[at'])
      /\ at' > 0 /\ rx'.done => ~rx'.started
      /\ todo' \in Seq(Requests) /\ Len(todo') <= Pending
  BY <1>2, Advancing
<1>4. /\ data_PLC' \in Values \cup {"none"}
      /\ para' \in [Fields -> Values \cup {"none", "junk"}]
      /\ reply' \in Seq(Replies)
  <2>1. CASE at <= Len(Handshake)
    BY <1>1, <2>1 DEF Seen, TypeOK, Replies
  <2>2. CASE ~(at <= Len(Handshake))
    <3>1. at \in 4 .. Len(Dialogue(task))
      BY <1>2, <2>2, Bounds
    <3>2. Store(Dialogue(task)[at], task = "write" \/ Parsed)
      BY <2>2 DEF Seen
    <3>3. (task = "write" \/ Parsed) => task = "write" \/ rx.text # "none"
      BY DEF Parsed
    <3>4. (task = "write" \/ Parsed) \in BOOLEAN
      BY DEF Parsed
    <3>5. QED
      BY <1>1, <3>1, <3>2, <3>3, <3>4, Storing
  <2>3. QED
    BY <2>1, <2>2
<1>5. UNCHANGED <<task, boot, wdt, wire, count, mistaken, clean, prompt, old>>
  BY DEF Seen
<1>6. signed' \in BOOLEAN
  BY DEF Seen
<1>7. TypeOK'
  BY <1>1, <1>3, <1>4, <1>5, <1>6 DEF TypeOK, Requests, Replies
<1>8. QED
  BY <1>1, <1>3, <1>5, <1>7 DEF Typed

\* The polls are over.
LEMMA TypedTimeOut == ASSUME Typed, TimeOut PROVE Typed'
<1>1. TypeOK /\ wire \in Shapes /\ task \in Kinds
  BY TaskKinds DEF Typed
<1>2. /\ at > 0 /\ at \in 0 .. Len(Dialogue(task)) /\ Len(Dialogue(task)) \in Nat
      /\ Len(Dialogue(task)) > 3
  BY <1>1, Dialogues DEF TimeOut, TypeOK
<1> DEFINE Sent == /\ at' \in 0 .. Len(Dialogue(task)) /\ rx' \in Receivers
                   /\ at' > 0 => rx'.kind = AnswerKind(Dialogue(task)[at'])
                   /\ at' > 0 /\ rx'.done => ~rx'.started
                   /\ todo' \in Seq(Requests) /\ Len(todo') <= Pending
           Kept == /\ data_PLC' \in Values \cup {"none"}
                   /\ para' \in [Fields -> Values \cup {"none", "junk"}]
                   /\ reply' \in Seq(Replies)
<1>3. UNCHANGED <<data_PLC, para, reply>> => Kept
  BY <1>1 DEF TypeOK, Replies
<1>4. Leave => Sent
  BY <1>1, <1>2 DEF Leave, Typed, TypeOK, Requests
<1>5. ASSUME NEW i \in 1 .. Len(Dialogue(task)), Request(task, i) PROVE Sent
  BY <1>1, <1>5, Requesting
<1>6. Advance => Sent
  BY <1>2, Advancing
<1> HIDE DEF Sent
<1> HIDE DEF Kept
<1>7. Sent /\ Kept
  <2>1. \/ /\ at = 1 /\ Request(task, 1)
           /\ UNCHANGED <<data_PLC, para, reply>>
        \/ /\ at \in 2 .. Len(Handshake)
           /\ Leave \/ Request(task, Len(Handshake) + 1)
           /\ UNCHANGED <<data_PLC, para, reply>>
        \/ /\ at > Len(Handshake)
           /\ \/ Leave /\ UNCHANGED <<data_PLC, para, reply>>
              \/ Advance /\ Store(Dialogue(task)[at], FALSE)
    BY Zenon DEF TimeOut
  <2>2. /\ 1 \in 1 .. Len(Dialogue(task)) /\ Len(Handshake) + 1 \in 1 .. Len(Dialogue(task))
    BY <1>2, Bounds
  <2>3. /\ Request(task, 1) => Sent
        /\ Request(task, Len(Handshake) + 1) => Sent
    BY <1>5, <2>2
  <2>4. ASSUME at > Len(Handshake), Store(Dialogue(task)[at], FALSE) PROVE Kept
    <3>1. at \in 4 .. Len(Dialogue(task))
      BY <1>2, <2>4, Bounds
    <3>2. QED
      BY <1>1, <2>4, <3>1, Storing DEF Kept
  <2>5. QED
    BY <1>3, <1>4, <1>6, <2>1, <2>3, <2>4, Zenon
<1>8. count' \in [sessions : 0 .. Sessions, delays : 0 .. Delays, damages : 0 .. Damages]
  <2>1. /\ count \in [sessions : 0 .. Sessions, delays : 0 .. Delays, damages : 0 .. Damages]
        /\ count.delays < Delays
        /\ count' = [count EXCEPT !.delays = count.delays + 1]
    BY <1>1 DEF TimeOut, TypeOK
  <2>2. QED
    BY <2>1, Bounds
<1>9. wdt' \in 0 .. DogSeconds
  <2>1. wdt \in Nat /\ wdt' = Waited
    BY <1>1, Bounds DEF TimeOut, TypeOK
  <2>2. QED
    BY <2>1, Bounds DEF Waited
<1>10. UNCHANGED <<task, boot, wire, signed, mistaken, old>> /\ clean' = FALSE
  BY DEF TimeOut
<1>11. prompt' \in BOOLEAN
  BY DEF TimeOut, LineIdle
<1>12. TypeOK'
  BY <1>1, <1>7, <1>8, <1>9, <1>10, <1>11 DEF TypeOK, Requests, Replies, Sent, Kept
<1>13. QED
  BY <1>1, <1>7, <1>10, <1>12 DEF Typed, Sent

\* The watchdog resets.
LEMMA TypedReset == ASSUME Typed, Reset PROVE Typed'
<1>1. TypeOK /\ wire \in Shapes
  BY DEF Typed
<1>2. "para" \in Kinds
  BY DEF Kinds
<1>3. Len(Dialogue("para")) \in Nat
  BY <1>2, Dialogues
<1>4. /\ at' = 0 /\ boot' = 0 /\ wdt' = 0 /\ task' = "para"
      /\ rx' = [kind |-> "ident", started |-> FALSE, beyond |-> FALSE,
                head |-> FALSE, text |-> "none", done |-> FALSE]
      /\ data_PLC' = "none"
      /\ para' = [c \in Fields |-> "none"]
      /\ reply' = <<>>
      /\ signed' = FALSE /\ mistaken' = FALSE /\ clean' = FALSE /\ prompt' = FALSE
      /\ UNCHANGED <<todo, wire, count, old>>
  BY DEF Reset
<1>5. rx' \in Receivers
  BY <1>4 DEF Receivers
<1>6. TypeOK'
  <2>1. \A v : [c \in Fields |-> "none"] \in [Fields -> v \cup {"none", "junk"}]
    OBVIOUS
  <2>2. /\ {signed', mistaken', clean', prompt'} \subseteq BOOLEAN
        /\ para' \in [Fields -> Values \cup {"none", "junk"}]
        /\ data_PLC' \in Values \cup {"none"}
    BY <1>4, <2>1
  <2>3. /\ task' \in Tasks \cup {"para", "clock"} /\ at' \in 0 .. Len(Dialogue(task'))
        /\ boot' \in 0 .. 2 /\ wdt' \in 0 .. DogSeconds
        /\ reply' \in Seq(Replies)
    BY <1>3, <1>4, Bounds
  <2>4. QED
    BY <1>1, <1>4, <1>5, <2>2, <2>3 DEF TypeOK, Replies
<1>7. QED
  BY <1>1, <1>4, <1>6 DEF Typed

\* What the interrupt makes of a character.
LEMMA Receiving ==
    ASSUME Typed, Receive
    PROVE  /\ rx' \in Receivers /\ rx'.kind = rx.kind
           /\ at > 0 /\ rx'.done => ~rx'.started
           /\ mistaken' \in BOOLEAN
<1>1. TypeOK /\ wire \in Shapes /\ wire # <<>> /\ rx \in Receivers
  BY DEF Typed, TypeOK, Receive
<1>2. Head(wire) \in Marks \cup Texts
  BY <1>1, Shape
<1>3. /\ Opened.kind = rx.kind /\ Closed.kind = rx.kind /\ Stored(Head(wire)).kind = rx.kind
      /\ Opened \in Receivers /\ Closed \in Receivers
  BY <1>1 DEF Opened, Closed, Stored, Receivers
<1>4. Stored(Head(wire)) \in Receivers
  <2>1. /\ (rx.head \/ ~rx.beyond) \in BOOLEAN
        /\ (IF rx.text = "none" /\ Head(wire) \notin Marks \cup {"open"} THEN Head(wire) ELSE rx.text)
             \in Values \cup {"none"}
    BY <1>1, <1>2 DEF Receivers, Texts
  <2>2. QED
    BY <1>1, <2>1 DEF Stored, Receivers
<1>5. mistaken' \in BOOLEAN
  BY <1>1 DEF Receive, TypeOK
<1>6. /\ (~rx.done /\ rx.kind = "ack" /\ ~rx.started) => ~Opened.started
      /\ (~rx.done /\ rx.kind # "ack" /\ ~rx.started) => ~Opened.done
      /\ ~Closed.started
      /\ ~rx.done => ~Stored(Head(wire)).done
  BY <1>1 DEF Opened, Closed, Stored, Receivers
<1>7. \/ ~rx.started /\ rx' = Opened
      \/ ~rx.started /\ rx' = rx
      \/ rx.started /\ rx' \in {Closed, Stored(Head(wire))}
  BY DEF Receive
<1>8. rx'.kind = rx.kind /\ rx' \in Receivers
  BY <1>1, <1>3, <1>4, <1>7
<1>9. at > 0 /\ rx'.done => ~rx'.started
  BY <1>6, <1>7 DEF Receive
<1>10. QED
  BY <1>5, <1>8, <1>9

\* A character is received.
LEMMA TypedReceive == ASSUME Typed, Receive PROVE Typed'
<1>1. TypeOK /\ wire \in Shapes /\ wire # <<>>
  BY DEF Typed, Receive
<1>2. wire' = Tail(wire) /\ wire' \in Shapes
  BY <1>1, Shape DEF Receive
<1>3. UNCHANGED <<loop, todo, count, clean, prompt>>
  BY DEF Receive
<1>4. old' \in 0 .. Pending + 1
  BY <1>1, Bounds DEF Receive, TypeOK
<1>5. wire' \in Seq(Marks \cup Values \cup {"open"})
  BY <1>2, ShapesAreLines
<1>6. TypeOK'
  BY <1>1, <1>3, <1>4, <1>5, Receiving DEF TypeOK, loop
<1>7. QED
  BY <1>1, <1>2, <1>3, <1>6, Receiving DEF Typed, loop

\* The meter answers or does not.
LEMMA TypedMeter == ASSUME Typed, Answer \/ Ignore PROVE Typed'
<1>1. TypeOK /\ wire \in Shapes /\ todo # <<>>
  BY DEF Typed, Answer, Ignore
<1>2. todo \in Seq(Requests) /\ Len(todo) <= Pending
  BY <1>1 DEF TypeOK, Requests
<1>3. /\ Head(todo) \in Requests /\ Tail(todo) \in Seq(Requests)
      /\ Len(todo) \in Nat /\ Len(Tail(todo)) = Len(todo) - 1
  <2>1. Head(todo) \in Requests
    BY <1>1, <1>2, HeadTailProperties
  <2>2. QED
    BY <1>1, <1>2, <2>1, Queue
<1>4. wire' \in Shapes
  BY <1>1, <1>3, Frames DEF Answer, Ignore
<1>5. todo' \in Seq(Requests) /\ Len(todo') <= Pending
  BY <1>2, <1>3, Bounds DEF Answer, Ignore
<1>6. old' \in 0 .. Pending + 1
  BY <1>1, Bounds DEF Answer, Ignore, TypeOK
<1>7. UNCHANGED <<loop, mistaken, rx, count, prompt>> /\ clean' \in {clean, FALSE}
  BY DEF Answer, Ignore
<1>8. wire' \in Seq(Marks \cup Values \cup {"open"})
  BY <1>4, ShapesAreLines
<1>9. TypeOK'
  BY <1>1, <1>5, <1>6, <1>7, <1>8 DEF TypeOK, loop, Requests
<1>10. QED
  BY <1>4, <1>7, <1>9 DEF Typed, loop

\* The line is disturbed.
LEMMA TypedDisturb == ASSUME Typed, Disturb PROVE Typed'
<1>1. TypeOK /\ wire \in Shapes /\ wire # <<>>
  BY DEF Typed, Disturb
<1>2. wire' \in Shapes
  <2>1. {"bad", "open"} \subseteq Texts /\ <<>> \in Shapes
    BY TextsAreNoMarks DEF Texts, Shapes
  <2>2. QED
    BY <1>1, <2>1, Shape DEF Disturb
<1>3. UNCHANGED <<loop, mistaken, rx, todo, prompt>> /\ clean' = FALSE
  BY DEF Disturb
<1>4. old' \in 0 .. Pending + 1
  BY <1>1, Bounds DEF Disturb, TypeOK
<1>5. wire' \in Seq(Marks \cup Values \cup {"open"})
  BY <1>2, ShapesAreLines
<1>6. count' \in [sessions : 0 .. Sessions, delays : 0 .. Delays, damages : 0 .. Damages]
  <2>1. /\ count \in [sessions : 0 .. Sessions, delays : 0 .. Delays, damages : 0 .. Damages]
        /\ count.damages < Damages
        /\ count' = [count EXCEPT !.damages = count.damages + 1]
    BY <1>1 DEF Disturb, TypeOK
  <2>2. QED
    BY <2>1, Bounds
<1>7. TypeOK'
  BY <1>1, <1>3, <1>4, <1>5, <1>6 DEF TypeOK, loop
<1>8. QED
  BY <1>2, <1>3, <1>7 DEF Typed, loop

\* The first state.
LEMMA TypedInit == ASSUME Init PROVE Typed
<1>1. "para" \in Kinds /\ Len(Dialogue("para")) \in Nat
  BY Dialogues DEF Kinds
<1>2. /\ task = "para" /\ at = 0 /\ boot = 0 /\ wdt = 0 /\ old = 0
      /\ rx = [kind |-> "ident", started |-> FALSE, beyond |-> FALSE,
               head |-> FALSE, text |-> "none", done |-> FALSE]
      /\ data_PLC = "none" /\ reply = <<>> /\ todo = <<>> /\ wire = <<>>
      /\ para = [c \in Fields |-> "none"]
      /\ count = [sessions |-> 0, delays |-> 0, damages |-> 0]
      /\ signed = FALSE /\ mistaken = FALSE /\ clean = FALSE /\ prompt = FALSE
  BY DEF Init
<1>3. rx \in Receivers
  BY <1>2 DEF Receivers
<1>4. \A v : [c \in Fields |-> "none"] \in [Fields -> v \cup {"none", "junk"}]
  OBVIOUS
<1>5. /\ {signed, mistaken, clean, prompt} \subseteq BOOLEAN
      /\ para \in [Fields -> Values \cup {"none", "junk"}]
      /\ data_PLC \in Values \cup {"none"}
  BY <1>2, <1>4
<1>6. count \in [sessions : 0 .. Sessions, delays : 0 .. Delays, damages : 0 .. Damages]
  BY <1>2, Bounds
<1>7. /\ task \in Tasks \cup {"para", "clock"} /\ at \in 0 .. Len(Dialogue(task))
      /\ boot \in 0 .. 2 /\ wdt \in 0 .. DogSeconds /\ old \in 0 .. Pending + 1
      /\ reply \in Seq(Replies) /\ todo \in Seq(Requests) /\ Len(todo) <= Pending
      /\ wire \in Seq(Marks \cup Values \cup {"open"})
  BY <1>1, <1>2, Bounds
<1>8. TypeOK
  BY <1>3, <1>5, <1>6, <1>7 DEF TypeOK, Replies, Requests
<1>9. wire \in Shapes
  BY <1>2 DEF Shapes
<1>10. QED
  BY <1>2, <1>8, <1>9 DEF Typed

\* Every step keeps the types.
LEMMA TypedStep == ASSUME Typed, [Next]_vars PROVE Typed'
<1>1. CASE Main
  BY <1>1, TypedBegin, TypedSeen, TypedTimeOut DEF Main
<1>2. CASE UNCHANGED vars
  BY <1>2 DEF vars, Typed, TypeOK
<1>3. QED
  BY <1>1, <1>2, TypedReset, TypedReceive, TypedMeter, TypedDisturb DEF Next

\* Every variable of a session, of the receiver and of the line has its type,
\* whatever the meter answers and whenever.
THEOREM TypeCorrect == Spec => []TypeOK
<1>1. Init => Typed
  BY TypedInit
<1>2. Typed /\ [Next]_vars => Typed'
  BY TypedStep
<1>3. Typed => TypeOK
  BY DEF Typed
<1>4. QED
  BY <1>1, <1>2, <1>3, PTL DEF Spec

(***************************************************************************)
(* The handshake shuts out the answers of earlier sessions.                *)
(***************************************************************************)
\* Each answer of the handshake uses up one that is still to come; of the second
\* the check character may be left.
Spent == \/ old = 0 \/ old <= Pending - 1
         \/ wire = <<"BCC">> /\ old <= Pending

Shut == old = 0 \/ old <= Pending - 2

Aged ==
    /\ at \in 1 .. 3 => ~signed
    /\ at = 1 /\ rx.done => old <= Pending
    /\ at = 2 => old <= Pending
    /\ at = 2 /\ rx.done => Spent
    /\ at = 3 /\ ~rx.done /\ ~mistaken => Spent
    /\ at = 3 /\ rx.done /\ ~mistaken => Shut
    /\ at > 3 /\ signed /\ ~mistaken => Shut

\* A session is begun or reset.
LEMMA AgedBegin ==
    ASSUME Typed, Reset \/ \E t \in Tasks \cup {"para", "clock"} : Begin(t)
    PROVE  Aged'
<1>1. CASE Reset
  BY <1>1 DEF Reset, Aged
<1>2. ASSUME NEW t \in Tasks \cup {"para", "clock"}, Begin(t) PROVE Aged'
  <2>1. at' = 1 /\ rx' = ClearPara(AnswerKind(Dialogue(t)[1])) /\ ~signed'
    BY <1>2 DEF Begin, Request
  <2>2. ~rx'.done
    BY <2>1 DEF ClearPara, Typed, TypeOK, Receivers
  <2>3. QED
    BY <2>1, <2>2 DEF Aged
<1>3. QED
  BY <1>1, <1>2

\* An answer is seen.
LEMMA AgedSeen == ASSUME Typed, Aged, Seen PROVE Aged'
<1>1. /\ at > 0 /\ rx.done /\ Advance /\ (signed' => signed \/ at = 3)
      /\ UNCHANGED <<wire, mistaken, old>>
  BY Bounds DEF Seen
<1>2. at \in Nat /\ at' \in {0, at + 1} /\ (at' > 0 => ~rx'.done)
  BY <1>1, Advancing DEF Typed, TypeOK
<1>3. CASE at = 1
  <2>1. ~signed' /\ old' <= Pending /\ at' \in {0, 2} /\ (at' > 0 => ~rx'.done)
    BY <1>1, <1>2, <1>3 DEF Aged
  <2>2. QED
    BY <2>1 DEF Aged
<1>4. CASE at = 2
  <2>1. ~signed' /\ Spent' /\ at' \in {0, 3} /\ (at' > 0 => ~rx'.done)
    BY <1>1, <1>2, <1>4 DEF Aged, Spent
  <2>2. QED
    BY <2>1 DEF Aged
<1>5. CASE at >= 3
  <2>1. (signed' /\ ~mistaken' => Shut') /\ (at' = 0 \/ at' > 3)
    BY <1>1, <1>2, <1>5 DEF Aged, Shut
  <2>2. QED
    BY <2>1 DEF Aged
<1>6. QED
  BY <1>1, <1>2, <1>3, <1>4, <1>5

\* The polls are over: without the three answers no session is signed in.
LEMMA AgedTimeOut == ASSUME Typed, Aged, TimeOut PROVE Aged'
<1>1. UNCHANGED <<wire, signed, mistaken, old>> /\ at > 0 /\ at \in Nat
  BY DEF TimeOut, Typed, TypeOK
<1>2. \/ at = 1 /\ at' = 1 /\ rx' = ClearPara(AnswerKind(Dialogue(task)[1]))
      \/ at \in 2 .. 3 /\ at' \in {0, 4}
      \/ at > 3 /\ at' \in {0, at + 1}
  <2>1. \/ at = 1 /\ Request(task, 1)
        \/ at \in 2 .. Len(Handshake) /\ (Leave \/ Request(task, Len(Handshake) + 1))
        \/ at > Len(Handshake) /\ (Leave \/ Advance)
    BY Zenon DEF TimeOut
  <2>2. Request(task, 1) => at' = 1 /\ rx' = ClearPara(AnswerKind(Dialogue(task)[1]))
    BY DEF Request
  <2>3. /\ Leave => at' = 0
        /\ Request(task, Len(Handshake) + 1) => at' = 4
    BY Bounds DEF Leave, Request
  <2>4. Advance => at' \in {0, at + 1}
    BY <1>1, Advancing
  <2>5. QED
    BY <2>1, <2>2, <2>3, <2>4, Bounds
<1>3. rx' = ClearPara(AnswerKind(Dialogue(task)[1])) => ~rx'.done
  BY DEF ClearPara, Typed, TypeOK, Receivers
<1>4. CASE at = 1
  BY <1>1, <1>2, <1>3, <1>4 DEF Aged
<1>5. CASE at > 1
  BY <1>1, <1>2, <1>5 DEF Aged, Shut
<1>6. QED
  BY <1>1, <1>4, <1>5

\* The character that completes an answer.
LEMMA Finishing ==
    ASSUME Typed, Receive, at > 0, rx'.done
    PROVE  \/ /\ rx.kind = "ack" /\ Head(wire) \in {"ACK", "BCC"}
              /\ mistaken' \/ Head(wire) = "ACK"
           \/ rx.kind # "ack" /\ Head(wire) = StopFrame(rx.kind)
<1>1. ~rx.done /\ rx \in Receivers
  BY DEF Receive, Typed, TypeOK
<1>2. Head(wire) # "NUL"
  BY Shape DEF Receive, Typed
<1>3. ~Stored(Head(wire)).done /\ (rx.kind # "ack" => ~Opened.done)
  BY <1>1 DEF Stored, Opened, Receivers
<1>4. StartFrame("ack") = "ACK" /\ StopFrame("ack") = "NUL"
  BY DEF StartFrame, StopFrame
<1>5. CASE /\ Head(wire) \in {StartFrame(rx.kind), "BCC"} /\ rx' = Opened
           /\ mistaken' = (mistaken \/ (Head(wire) = "BCC" /\ rx.kind = "ack"))
  <2>1. rx.kind = "ack"
    BY <1>3, <1>5
  <2>2. mistaken' \/ Head(wire) # "BCC"
    BY <1>5, <2>1
  <2>3. QED
    BY <1>4, <1>5, <2>1, <2>2
<1>6. CASE rx' = rx
  BY <1>1, <1>6
<1>7. CASE rx' = IF Head(wire) = StopFrame(rx.kind) THEN Closed ELSE Stored(Head(wire))
  BY <1>2, <1>3, <1>4, <1>7
<1>8. QED
  BY <1>5, <1>6, <1>7 DEF Receive

\* A character is received: the last one of an answer uses it up.
LEMMA AgedReceive == ASSUME Typed, Aged, Receive PROVE Aged'
<1>1. /\ UNCHANGED <<at, task, signed>> /\ at \in Nat /\ old \in Nat /\ Pending \in Nat
      /\ old <= Pending + 1
  BY Bounds DEF Receive, loop, Typed, TypeOK
<1>2. /\ wire \in Shapes /\ wire # <<>> /\ wire' = Tail(wire)
      /\ old' = IF wire' = <<>> /\ old > 0 THEN old - 1 ELSE old
  BY DEF Receive, Typed
<1>3. /\ Head(wire) \in {"LF", "ACK", "BCC"} => wire' = <<>>
      /\ Head(wire) = "ETX" => wire' = <<"BCC">>
      /\ Head(wire) = "BCC" => wire = <<"BCC">>
      /\ Head(wire) # "NUL"
      /\ wire = <<"BCC">> => Head(wire) = "BCC"
  BY <1>2, Shape, Tuples
<1>4. /\ old' <= old /\ old' \in Nat
      /\ wire' = <<>> => old' = 0 \/ old' = old - 1
  BY <1>1, <1>2
<1>5. Spent => Spent' /\ (Head(wire) = "ACK" => Shut')
  BY <1>1, <1>3, <1>4 DEF Spent, Shut
<1>6. Shut => Shut'
  BY <1>1, <1>4 DEF Shut
<1>7. mistaken => mistaken'
  BY DEF Receive
<1>9. ASSUME at > 0, at <= 3
      PROVE  /\ at = 1 => rx.kind = "ident"
             /\ at = 2 => rx.kind = "option"
             /\ at = 3 => rx.kind = "ack"
  <2>1. task \in Kinds
    BY TaskKinds DEF Typed
  <2>2. QED
    BY <1>9, <2>1, Dialogues, AnswerKinds DEF Typed
<1>11. StopFrame("ident") = "LF" /\ StopFrame("option") = "ETX"
  BY DEF StopFrame
<1>12. CASE at = 0
  BY <1>1, <1>12 DEF Aged
<1>13. CASE at = 1
  <2>1. rx'.done => Head(wire) = "LF"
    BY <1>9, <1>11, <1>13, Finishing
  <2>2. ~signed' /\ (rx'.done => old' <= Pending) /\ at' = 1
    BY <1>1, <1>3, <1>4, <1>13, <2>1 DEF Aged
  <2>3. QED
    BY <2>2 DEF Aged
<1>14. CASE at = 2
  <2>1. rx'.done => Head(wire) = "ETX"
    BY <1>9, <1>11, <1>14, Finishing
  <2>2. ~signed' /\ old' <= Pending /\ at' = 2
    BY <1>1, <1>4, <1>14 DEF Aged
  <2>3. rx'.done => Spent'
    BY <1>3, <2>1, <2>2 DEF Spent
  <2>4. QED
    BY <2>2, <2>3 DEF Aged
<1>15. CASE at = 3
  <2>1. rx'.done /\ ~mistaken' => Head(wire) = "ACK"
    BY <1>9, <1>15, Finishing
  <2>2. ~mistaken' => Spent
    BY <1>7, <1>15 DEF Aged, Receive
  <2>3. ~signed' /\ at' = 3
    BY <1>1, <1>15 DEF Aged
  <2>4. QED
    BY <1>5, <2>1, <2>2, <2>3 DEF Aged
<1>16. CASE at > 3
  <2>1. signed' /\ ~mistaken' => Shut'
    BY <1>1, <1>6, <1>7, <1>16 DEF Aged
  <2>2. QED
    BY <1>1, <1>16, <2>1 DEF Aged
<1>17. QED
  BY <1>1, <1>12, <1>13, <1>14, <1>15, <1>16

\* The meter answers or not, or the line is disturbed.
LEMMA AgedMeter == ASSUME Typed, Aged, Answer \/ Ignore \/ Disturb PROVE Aged'
<1>1. /\ UNCHANGED <<at, rx, signed, mistaken>> /\ at \in Nat /\ old \in Nat
      /\ Pending \in Nat
  BY Bounds DEF Answer, Ignore, Disturb, loop, Typed, TypeOK
<1>2. /\ old' \in Nat /\ old' <= old
      /\ wire = <<"BCC">> => \/ wire' = wire
                             \/ wire' = <<>> /\ (old' = 0 \/ old' = old - 1)
  <2>1. CASE Answer
    BY <1>1, <2>1, Tuples DEF Answer
  <2>2. CASE Ignore
    <3>1. wire' = wire
      BY <2>2 DEF Ignore
    <3>2. old' = old \/ (old > 0 /\ old' = old - 1)
      BY <1>1, <2>2 DEF Ignore
    <3>3. QED
      <4>1. old' \in Nat /\ old' <= old
        BY <1>1, <3>2
      <4>2. QED
        BY <3>1, <4>1
  <2>3. CASE Disturb
    <3>1. wire = <<"BCC">> => Head(wire) \in Marks /\ Tail(wire) = <<>>
      BY Tuples DEF Marks
    <3>2. wire = <<"BCC">> => wire' = <<>>
      BY <2>3, <3>1 DEF Disturb
    <3>3. QED
      BY <1>1, <2>3, <3>2 DEF Disturb
  <2>4. QED
    BY <2>1, <2>2, <2>3
<1>3. (Spent => Spent') /\ (Shut => Shut') /\ (old <= Pending => old' <= Pending)
  BY <1>1, <1>2 DEF Spent, Shut
<1>4. QED
  BY <1>1, <1>3 DEF Aged

\* The handshake resynchronises: once it has succeeded no answer to an earlier
\* session can arrive if the meter holds two requests, and at most Pending - 2
\* of them if it holds more.
THEOREM HandshakeResynchronises == Spec => []FreshSession
<1>1. Init => Typed /\ Aged
  <2>1. Init => at = 0
    BY DEF Init
  <2>2. QED
    BY <2>1, TypedInit DEF Aged
<1>2. Typed /\ Aged /\ [Next]_vars => (Typed /\ Aged)'
  <2> SUFFICES ASSUME Typed, Aged, [Next]_vars PROVE Aged'
    BY TypedStep
  <2>1. CASE UNCHANGED vars
    BY <2>1 DEF vars, Aged, Spent, Shut
  <2>2. QED
    BY <2>1, AgedBegin, AgedSeen, AgedTimeOut, AgedReceive, AgedMeter DEF Next, Main
<1>3. Typed /\ Aged => FreshSession
  BY Bounds DEF Aged, Shut, FreshSession
<1>4. QED
  BY <1>1, <1>2, <1>3, PTL DEF Spec

(***************************************************************************)
(* No value is taken in the turn of another code.                          *)
(***************************************************************************)
Idle == {<<>>, <<"BCC">>}

\* What is left of the answer to the code c.
Answers(c) == Idle \cup {<<"ETX", "BCC">>}
              \cup {<<x, "ETX", "BCC">> : x \in {c, "bad", "open"}}
              \cup {<<"STX", x, "ETX", "BCC">> : x \in {c, "bad", "open"}}

\* While every answer comes in its turn, the line carries the answer to the
\* present request or, after a check character that passed for one, that to the
\* password before it.
Line ==
    prompt /\ at > 0 /\ task # "write" =>
        LET c == Dialogue(task)[at] IN
        /\ at <= 3 => todo = <<>> \/ (todo = <<c>> /\ wire \in Idle)
        /\ at <= 2 /\ rx.done => todo = <<>> /\ wire \in Idle
        /\ at = 3 /\ rx.done => \/ todo = <<"password">> /\ wire = <<>>
                                \/ todo = <<>> /\ wire \in {<<>>, <<"ACK">>}
        /\ at > 3 => /\ \/ todo = <<c>> /\ wire \in Idle
                        \/ todo = <<>> /\ wire \in Answers(c)
                        \/ todo \in {<<"password">>, <<"password", c>>} /\ wire = <<>>
                        \/ todo \in {<<>>, <<c>>} /\ wire = <<"ACK">>
                     /\ rx.done => todo = <<>> /\ wire \in Idle
                     /\ rx.text \in {"none", "bad", c}

\* Short queues.
LEMMA Short ==
    /\ \A d : Append(<<>>, d) = <<d>>
    /\ \A a, d : Append(<<a>>, d) = <<a, d>>
    /\ \A a : <<a>> # <<>>
    /\ \A a, d : <<a, d>> # <<>>
    /\ \A a, d : Len(<<a>>) = 1 /\ (<<a>> = <<d>> <=> a = d)
    /\ Len(<<>>) = 0
<1>1. /\ \A a : <<a>> # <<>>
      /\ \A a, d : <<a, d>> # <<>>
      /\ \A a, d : Len(<<a>>) = 1 /\ (<<a>> = <<d>> <=> a = d)
      /\ Len(<<>>) = 0
  OBVIOUS
<1>2. ASSUME NEW d PROVE Append(<<>>, d) = <<d>>
  <2>1. <<>> \in Seq({d}) /\ d \in {d}
    OBVIOUS
  <2>2. Append(<<>>, d) \in Seq({d}) /\ Len(Append(<<>>, d)) = 1 /\ Append(<<>>, d)[1] = d
    BY <1>1, <2>1, AppendProperties
  <2>3. <<d>> \in Seq({d}) /\ Len(<<d>>) = 1 /\ <<d>>[1] = d
    OBVIOUS
  <2>4. QED
    BY <2>2, <2>3, SeqEqual
<1>3. ASSUME NEW a, NEW d PROVE Append(<<a>>, d) = <<a, d>>
  <2>1. <<a>> \in Seq({a, d}) /\ d \in {a, d}
    OBVIOUS
  <2>2. /\ Append(<<a>>, d) \in Seq({a, d}) /\ Len(Append(<<a>>, d)) = 2
        /\ Append(<<a>>, d)[1] = a /\ Append(<<a>>, d)[2] = d
    BY <1>1, <2>1, AppendProperties
  <2>3. <<a, d>> \in Seq({a, d}) /\ Len(<<a, d>>) = 2 /\ <<a, d>>[1] = a /\ <<a, d>>[2] = d
    OBVIOUS
  <2>4. \A i \in 1 .. 2 : i = 1 \/ i = 2
    OBVIOUS
  <2>5. \A i \in 1 .. Len(<<a, d>>) : Append(<<a>>, d)[i] = <<a, d>>[i]
    BY <2>2, <2>3, <2>4
  <2>6. QED
    BY <2>2, <2>3, <2>5, SeqEqual
<1>4. QED
  BY <1>1, <1>2, <1>3

\* The code of a data request.
LEMMA DataCode ==
    ASSUME Typed, task # "write", at > 3
    PROVE  LET c == Dialogue(task)[at] IN
           /\ at \in 4 .. Len(Dialogue(task))
           /\ c \in Fields \cup Elements(Readings)
           /\ AnswerKind(c) = "data" /\ rx.kind = "data"
           /\ c \notin Marks \cup {"open", "bad", "none", "password"}
<1>1. task \in Kinds /\ at \in 0 .. Len(Dialogue(task))
  BY TaskKinds DEF Typed, TypeOK
<1>2. at \in 4 .. Len(Dialogue(task))
  BY <1>1, Dialogues
<1>3. Dialogue(task)[at] \in Elements(Script(task))
  BY <1>1, <1>2, Dialogues
<1>4. Dialogue(task)[at] \in Fields \cup Elements(Readings)
  BY <1>1, <1>3, Scripts DEF Kinds
<1>5. QED
  <2>1. AnswerKind(Dialogue(task)[at]) = "data" /\ rx.kind = "data"
    BY <1>2, <1>4, AnswerKinds DEF Typed
  <2>2. Dialogue(task)[at] \notin Marks \cup {"open", "bad", "none", "password"}
    BY <1>4, FixedCodes, ChosenCodes DEF Marks
  <2>3. QED
    BY <1>2, <1>4, <2>1, <2>2

\* A request sent over an idle line.
LEMMA LineAsked ==
    ASSUME Typed, NEW t \in Kinds, NEW i \in 1 .. Len(Dialogue(t)), Request(t, i),
           LineIdle, wire' = wire, task' = t
    PROVE  Line'
<1>1. at' = i /\ ~rx'.done /\ rx'.text = "none"
  BY Requesting DEF Typed
<1>2. todo = <<>> /\ wire' \in Idle
  BY DEF LineIdle, Idle
<1>3. todo' = <<Dialogue(t)[i]>>
  BY <1>2, Short, Bounds DEF Request
<1>4. QED
  BY <1>1, <1>2, <1>3 DEF Line

\* A session is begun or reset, or a request has timed out.
LEMMA LineMain ==
    ASSUME Typed, Line,
           \/ Reset \/ TimeOut
           \/ \E t \in Tasks \cup {"para", "clock"} : Begin(t)
    PROVE  Line'
<1>1. CASE Reset
  BY <1>1 DEF Reset, Line
<1>2. ASSUME NEW t \in Tasks \cup {"para", "clock"}, Begin(t) PROVE Line'
  <2>1. t \in Kinds /\ task' = t /\ wire' = wire /\ (prompt' => LineIdle) /\ Request(t, 1)
    BY <1>2, Bounds DEF Begin, Kinds
  <2>2. 1 \in 1 .. Len(Dialogue(t))
    BY <2>1, Dialogues
  <2>3. CASE LineIdle
    BY <2>1, <2>2, <2>3, LineAsked
  <2>4. CASE ~prompt'
    BY <2>4 DEF Line
  <2>5. QED
    BY <2>1, <2>3, <2>4
<1>3. CASE TimeOut
  <2>1. task \in Kinds /\ at \in 0 .. Len(Dialogue(task)) /\ Len(Dialogue(task)) > 3
        /\ Len(Dialogue(task)) \in Nat /\ at > 0
    BY <1>3, TaskKinds, Dialogues DEF Typed, TypeOK, TimeOut
  <2>2. task' = task /\ wire' = wire /\ (prompt' => LineIdle)
    BY <1>3 DEF TimeOut
  <2>3. at' = 0 \/ \E i \in 1 .. Len(Dialogue(task)) : Request(task, i)
    <3>1. \/ Request(task, 1) \/ Request(task, Len(Handshake) + 1)
          \/ Leave \/ Advance
      BY <1>3, Zenon DEF TimeOut
    <3>2. Leave => at' = 0
      BY DEF Leave
    <3>3. Advance => at' = 0 \/ (Request(task, at + 1) /\ at < Len(Dialogue(task)))
      BY Zenon DEF Advance
    <3>4. /\ 1 \in 1 .. Len(Dialogue(task)) /\ Len(Handshake) + 1 \in 1 .. Len(Dialogue(task))
          /\ at < Len(Dialogue(task)) => at + 1 \in 1 .. Len(Dialogue(task))
      BY <2>1, Bounds
    <3>5. QED
      BY <3>1, <3>2, <3>3, <3>4
  <2>4. CASE at' = 0
    BY <2>4 DEF Line
  <2>5. CASE ~prompt'
    BY <2>5 DEF Line
  <2>6. CASE LineIdle /\ \E i \in 1 .. Len(Dialogue(task)) : Request(task, i)
    BY <2>1, <2>2, <2>6, LineAsked
  <2>7. QED
    BY <2>2, <2>3, <2>4, <2>5, <2>6
<1>4. QED
  BY <1>1, <1>2, <1>3

\* An answer is seen.
LEMMA LineSeen == ASSUME Typed, Line, Seen PROVE Line'
<1> SUFFICES ASSUME prompt, task # "write", at' > 0 PROVE Line'
  <2>1. prompt' = prompt /\ task' = task /\ (at' = 0 \/ at' > 0)
    BY Advancing DEF Seen, Typed, TypeOK
  <2>2. QED
    BY <2>1 DEF Line
<1>1. /\ task \in Kinds /\ at \in 0 .. Len(Dialogue(task)) /\ Len(Dialogue(task)) \in Nat
      /\ at > 0 /\ rx.done /\ Advance
      /\ task' = task /\ wire' = wire /\ prompt' = prompt
  BY TaskKinds, Dialogues DEF Typed, TypeOK, Seen
<1>2. at < Len(Dialogue(task)) /\ Request(task, at + 1) /\ at + 1 \in 1 .. Len(Dialogue(task))
  BY <1>1 DEF Advance
<1>3. CASE at # 3
  <2>1. LineIdle
    BY <1>1, <1>3 DEF Line, LineIdle, Idle
  <2>2. QED
    BY <1>1, <1>2, <2>1, LineAsked
<1>4. CASE at = 3
  <2> DEFINE c == Dialogue(task)[4]
  <2>1. at' = 4 /\ ~rx'.done /\ rx'.text = "none"
    BY <1>1, <1>2, <1>4, Requesting DEF Typed
  <2>2. todo' = IF Len(todo) < Pending THEN Append(todo, c) ELSE todo
    BY <1>2, <1>4 DEF Request
  <2>3. CASE todo = <<"password">> /\ wire = <<>>
    <3>1. todo' \in {<<"password">>, <<"password", c>>}
      BY <2>2, <2>3, Short
    <3>2. QED
      BY <1>1, <2>1, <2>3, <3>1 DEF Line
  <2>4. CASE todo = <<>> /\ wire \in {<<>>, <<"ACK">>}
    <3>1. todo' = <<c>>
      BY <2>2, <2>4, Short, Bounds
    <3>2. QED
      BY <1>1, <2>1, <2>4, <3>1 DEF Line, Idle
  <2>5. QED
    BY <1>1, <1>4, <2>3, <2>4 DEF Line
<1>5. QED
  BY <1>3, <1>4

\* What is left of an answer stays what is left of it.
LEMMA Left ==
    ASSUME NEW c, NEW w \in Answers(c), w # <<>>, c \notin Marks
    PROVE  /\ Tail(w) \in Answers(c)
           /\ Head(w) \in Marks \cup {c, "bad", "open"}
           /\ Head(w) = "ETX" => Tail(w) = <<"BCC">>
           /\ Head(w) \notin Marks =>
                \A x \in {"bad", "open"} : [w EXCEPT ![1] = x] \in Answers(c)
<1>1. CASE w \in {<<"BCC">>, <<"ETX", "BCC">>}
  <2>1. /\ w = <<"BCC">> => Head(w) = "BCC" /\ Tail(w) = <<>>
        /\ w = <<"ETX", "BCC">> => Head(w) = "ETX" /\ Tail(w) = <<"BCC">>
    BY Tuples
  <2>2. Tail(w) \in Idle
    BY <1>1, <2>1 DEF Idle
  <2>3. QED
    BY <1>1, <2>1, <2>2 DEF Answers, Marks
<1>2. ASSUME NEW x \in {c, "bad", "open"}, w = <<"STX", x, "ETX", "BCC">>
      PROVE  Head(w) = "STX" /\ Tail(w) = <<x, "ETX", "BCC">>
  BY <1>2, Tuples
<1>3. ASSUME NEW x \in {c, "bad", "open"}, w = <<x, "ETX", "BCC">>
      PROVE  /\ Head(w) = x /\ Tail(w) = <<"ETX", "BCC">>
             /\ \A y : [w EXCEPT ![1] = y] = <<y, "ETX", "BCC">>
  BY <1>3
<1>4. CASE \E x \in {c, "bad", "open"} : w = <<"STX", x, "ETX", "BCC">>
  <2>1. Head(w) = "STX" /\ Tail(w) \in Answers(c)
    BY <1>2, <1>4 DEF Answers
  <2>2. QED
    BY <2>1 DEF Marks
<1>5. CASE \E x \in {c, "bad", "open"} : w = <<x, "ETX", "BCC">>
  <2>1. Head(w) \in {c, "bad", "open"} /\ Tail(w) \in Answers(c)
    BY <1>3, <1>5 DEF Answers
  <2>2. \A y \in {"bad", "open"} : [w EXCEPT ![1] = y] \in Answers(c)
    BY <1>3, <1>5 DEF Answers
  <2>3. Head(w) # "ETX"
    BY <2>1 DEF Marks
  <2>4. QED
    BY <2>1, <2>2, <2>3
<1>6. QED
  BY <1>1, <1>4, <1>5 DEF Answers, Idle

\* The first answers are of the kinds of the handshake.
LEMMA HandshakeCodes ==
    ASSUME Typed, at \in 1 .. 3
    PROVE  LET c == Dialogue(task)[at] IN
           /\ rx.kind = AnswerKind(c)
           /\ at = 1 => c = "ident" /\ rx.kind = "ident"
           /\ at = 2 => c = "option" /\ rx.kind = "option"
           /\ at = 3 => c = "password" /\ rx.kind = "ack"
<1>1. task \in Kinds /\ at > 0
  BY TaskKinds DEF Typed
<1>2. QED
  BY <1>1, Dialogues, AnswerKinds DEF Typed

\* A character is received.
LEMMA LineReceive == ASSUME Typed, Line, Receive PROVE Line'
<1> SUFFICES ASSUME prompt, task # "write", at > 0 PROVE Line'
  BY DEF Line, Receive, loop, Typed, TypeOK
<1> DEFINE c == Dialogue(task)[at]
<1>1. /\ UNCHANGED <<task, at, todo, prompt>> /\ ~rx.done /\ at \in Nat
      /\ wire \in Shapes /\ wire # <<>> /\ wire' = Tail(wire)
  BY DEF Receive, loop, Typed, TypeOK
<1>2. wire \in Idle => Head(wire) = "BCC" /\ wire' = <<>>
  BY <1>1, Tuples DEF Idle
<1>3. Head(wire) \in {"LF", "ACK", "BCC"} => wire' = <<>>
  BY <1>1, Shape
<1>4. Head(wire) = "ETX" => wire' = <<"BCC">>
  BY <1>1, Shape
<1>5. StopFrame("ident") = "LF" /\ StopFrame("option") = "ETX" /\ StopFrame("data") = "ETX"
  BY DEF StopFrame
<1>6. CASE at <= 3
  <2>1. at \in 1 .. 3
    BY <1>1, <1>6
  <2>2. todo = <<>> \/ (todo = <<c>> /\ wire \in Idle)
    BY <1>6 DEF Line
  <2>3. todo' = <<>> \/ (todo' = <<c>> /\ wire' \in Idle)
    BY <1>1, <1>2, <2>2 DEF Idle
  <2>4. CASE ~rx'.done
    BY <1>1, <1>6, <2>3, <2>4 DEF Line
  <2>5. CASE rx'.done /\ at = 3
    <3>1. rx.kind = "ack" /\ c = "password"
      BY <2>1, <2>5, HandshakeCodes
    <3>2. Head(wire) \in {"ACK", "BCC"}
      BY <2>5, <3>1, Finishing
    <3>3. QED
      BY <1>1, <1>3, <2>3, <2>5, <3>1, <3>2 DEF Line
  <2>6. CASE rx'.done /\ at # 3
    <3>1. rx.kind \in {"ident", "option"}
      BY <2>1, <2>6, HandshakeCodes
    <3>2. Head(wire) \in {"LF", "ETX"}
      BY <1>5, <2>6, <3>1, Finishing
    <3>3. todo' = <<>> /\ wire' \in Idle
      BY <1>1, <1>2, <1>3, <1>4, <2>2, <3>2 DEF Idle
    <3>4. QED
      BY <1>1, <1>6, <2>6, <3>3 DEF Line
  <2>7. QED
    BY <2>4, <2>5, <2>6
<1>7. CASE at > 3
  <2>1. /\ rx.kind = "data" /\ c \notin Marks \cup {"open", "bad", "none", "password"}
    BY <1>7, DataCode
  <2>2. /\ \/ todo = <<c>> /\ wire \in Idle
           \/ todo = <<>> /\ wire \in Answers(c)
           \/ todo \in {<<>>, <<c>>} /\ wire = <<"ACK">>
        /\ rx.text \in {"none", "bad", c}
    BY <1>1, <1>7 DEF Line
  <2>3. wire \in Answers(c) => /\ wire' \in Answers(c)
                               /\ Head(wire) \in Marks \cup {c, "bad", "open"}
    BY <1>1, <2>1, Left
  <2>4. wire = <<"ACK">> => Head(wire) = "ACK" /\ wire' = <<>>
    BY <1>1, Tuples
  <2>5. \/ todo' = <<c>> /\ wire' \in Idle
        \/ todo' = <<>> /\ wire' \in Answers(c)
    BY <1>1, <1>2, <2>2, <2>3, <2>4 DEF Idle, Answers
  <2>6. Head(wire) \in Marks \cup {c, "bad", "open"}
    BY <1>2, <2>2, <2>3, <2>4 DEF Marks
  <2>7. rx'.text \in {rx.text, Head(wire)} /\ (rx'.text = rx.text \/ Head(wire) \notin Marks \cup {"open"})
    <3>1. rx \in Receivers
      BY DEF Typed, TypeOK
    <3>2. /\ Opened.text = rx.text /\ Closed.text = rx.text
          /\ Stored(Head(wire)).text \in {rx.text, Head(wire)}
          /\ \/ Stored(Head(wire)).text = rx.text
             \/ Head(wire) \notin Marks \cup {"open"}
      BY <3>1 DEF Opened, Closed, Stored, Receivers
    <3>3. rx' \in {Opened, rx, Closed, Stored(Head(wire))}
      BY DEF Receive
    <3>4. QED
      BY <3>2, <3>3
  <2>8. rx'.text \in {"none", "bad", c}
    BY <2>2, <2>6, <2>7
  <2>9. rx'.done => Head(wire) = "ETX"
    BY <1>5, <1>7, <2>1, Finishing
  <2>10. rx'.done => todo' = <<>> /\ wire' \in Idle
    BY <1>1, <1>2, <1>4, <2>2, <2>4, <2>9 DEF Idle
  <2>11. QED
    BY <1>1, <1>7, <2>5, <2>8, <2>10 DEF Line
<1>8. QED
  BY <1>1, <1>6, <1>7

\* The meter answers or does not.
LEMMA LineMeter == ASSUME Typed, Line, Answer \/ Ignore PROVE Line'
<1> SUFFICES ASSUME prompt, task # "write", at > 0 PROVE Line'
  BY DEF Line, Answer, Ignore, loop, Typed, TypeOK
<1> DEFINE c == Dialogue(task)[at]
<1>1. /\ UNCHANGED <<task, at, rx, prompt>> /\ at \in Nat /\ todo # <<>> /\ todo' = Tail(todo)
      /\ (wire = <<>> /\ wire' = Frame(Head(todo))) \/ wire' = wire
  <2>1. UNCHANGED <<task, at, rx, prompt>> /\ todo # <<>> /\ todo' = Tail(todo)
    BY DEF Answer, Ignore, loop
  <2>2. Answer => wire = <<>> /\ wire' = Frame(Head(todo))
    BY DEF Answer
  <2>3. Ignore => wire' = wire
    BY DEF Ignore
  <2>4. at \in Nat
    BY DEF Typed, TypeOK
  <2>5. QED
    BY <2>1, <2>2, <2>3, <2>4
<1>2. /\ \A a : Head(<<a>>) = a /\ Tail(<<a>>) = <<>>
      /\ \A a, b : Head(<<a, b>>) = a /\ Tail(<<a, b>>) = <<b>>
  BY Tuples
<1>3. Frame("password") = <<"ACK">>
  BY FixedCodes, AnswerKinds, Frames DEF Requests
<1>4. CASE at <= 3
  <2>1. todo = <<c>> /\ wire \in Idle /\ todo' = <<>>
    BY <1>1, <1>2, <1>4 DEF Line
  <2>2. CASE ~rx.done
    BY <1>1, <1>4, <2>1, <2>2 DEF Line
  <2>3. CASE rx.done
    <3>1. at = 3 /\ todo = <<"password">> /\ wire = <<>>
      BY <1>1, <1>4, <2>3 DEF Line
    <3>2. wire' \in {<<>>, <<"ACK">>}
      BY <1>1, <1>2, <1>3, <3>1
    <3>3. QED
      BY <1>1, <2>1, <3>1, <3>2 DEF Line
  <2>4. QED
    BY <2>2, <2>3
<1>5. CASE at > 3
  <2>1. /\ AnswerKind(c) = "data" /\ c \in Requests
    BY <1>5, DataCode DEF Requests
  <2>2. Frame(c) \in Answers(c)
    BY <2>1, Frames DEF Answers
  <2>3. <<>> \in Answers(c) /\ Idle \subseteq Answers(c) /\ <<>> \in Idle
    BY DEF Answers, Idle
  <2>4. /\ \/ todo = <<c>> /\ wire \in Idle
           \/ todo \in {<<"password">>, <<"password", c>>} /\ wire = <<>>
           \/ todo = <<c>> /\ wire = <<"ACK">>
        /\ ~rx.done /\ rx.text \in {"none", "bad", c}
    BY <1>1, <1>5 DEF Line
  <2>5. \/ todo' = <<c>> /\ wire' \in Idle
        \/ todo' = <<>> /\ wire' \in Answers(c)
        \/ todo' \in {<<>>, <<c>>} /\ wire' = <<"ACK">>
    <3>1. CASE todo = <<c>> /\ wire \in Idle
      BY <1>1, <1>2, <2>2, <2>3, <3>1
    <3>2. CASE todo = <<"password">> /\ wire = <<>>
      BY <1>1, <1>2, <1>3, <2>3, <3>2
    <3>3. CASE todo = <<"password", c>> /\ wire = <<>>
      BY <1>1, <1>2, <1>3, <2>3, <3>3
    <3>4. CASE todo = <<c>> /\ wire = <<"ACK">>
      BY <1>1, <1>2, <3>4, Short
    <3>5. QED
      BY <2>4, <3>1, <3>2, <3>3, <3>4
  <2>6. QED
    BY <1>1, <1>5, <2>4, <2>5 DEF Line
<1>6. QED
  BY <1>1, <1>4, <1>5

\* The line is disturbed.
LEMMA LineDisturb == ASSUME Typed, Line, Disturb PROVE Line'
<1> SUFFICES ASSUME prompt, task # "write", at > 0 PROVE Line'
  BY DEF Line, Disturb, loop, Typed, TypeOK
<1> DEFINE c == Dialogue(task)[at]
<1>1. /\ UNCHANGED <<task, at, rx, todo, prompt>> /\ at \in Nat /\ wire # <<>>
      /\ \/ wire' \in {Tail(wire), <<>>}
         \/ /\ Head(wire) \notin Marks
            /\ \E x \in {"bad", "open"} : wire' = [wire EXCEPT ![1] = x]
  BY DEF Disturb, loop, Typed, TypeOK
<1>2. wire \in Idle \cup {<<"ACK">>} => wire' = <<>>
  <2>1. Head(<<"BCC">>) \in Marks /\ Head(<<"ACK">>) \in Marks
    BY Tuples DEF Marks
  <2>2. Tail(<<"BCC">>) = <<>> /\ Tail(<<"ACK">>) = <<>>
    BY Tuples
  <2>3. QED
    BY <1>1, <2>1, <2>2 DEF Idle
<1>3. <<>> \in Idle /\ <<>> \in Answers(c)
  BY DEF Idle, Answers
<1>4. CASE at <= 3
  <2>1. todo' = <<>> \/ (todo' = <<c>> /\ wire' \in Idle)
    BY <1>1, <1>2, <1>3, <1>4 DEF Line
  <2>2. rx.done => todo' = <<>> /\ wire' = <<>>
    BY <1>1, <1>2, <1>4 DEF Line
  <2>3. QED
    BY <1>1, <1>3, <1>4, <2>1, <2>2 DEF Line
<1>5. CASE at > 3
  <2>1. c \notin Marks
    BY <1>5, DataCode
  <2>2. /\ \/ todo = <<c>> /\ wire \in Idle
           \/ todo = <<>> /\ wire \in Answers(c)
           \/ todo \in {<<>>, <<c>>} /\ wire = <<"ACK">>
        /\ rx.done => todo = <<>> /\ wire \in Idle
        /\ rx.text \in {"none", "bad", c}
    BY <1>1, <1>5 DEF Line
  <2>3. wire \in Answers(c) => wire' \in Answers(c)
    <3>1. CASE wire' \in {Tail(wire), <<>>}
      BY <1>1, <1>3, <2>1, <3>1, Left
    <3>2. CASE Head(wire) \notin Marks /\ \E x \in {"bad", "open"} : wire' = [wire EXCEPT ![1] = x]
      <4>1. PICK x \in {"bad", "open"} : wire' = [wire EXCEPT ![1] = x]
        BY <3>2
      <4>2. wire \in Answers(c) => [wire EXCEPT ![1] = x] \in Answers(c)
        BY <1>1, <2>1, <3>2, Left
      <4>3. QED
        BY <4>1, <4>2
    <3>3. QED
      BY <1>1, <3>1, <3>2
  <2>4. \/ todo' = <<c>> /\ wire' \in Idle
        \/ todo' = <<>> /\ wire' \in Answers(c)
    BY <1>1, <1>2, <1>3, <2>2, <2>3
  <2>5. rx.done => todo' = <<>> /\ wire' \in Idle
    BY <1>1, <1>2, <1>3, <2>2
  <2>6. QED
    BY <1>1, <1>5, <2>2, <2>4, <2>5 DEF Line
<1>6. QED
  BY <1>1, <1>4, <1>5

\* Every step keeps the line in step.
LEMMA LineStep == ASSUME Typed, Line, [Next]_vars PROVE Line'
<1>1. CASE UNCHANGED vars
  BY <1>1 DEF vars, Line
<1>2. QED
  BY <1>1, LineMain, LineSeen, LineReceive, LineMeter, LineDisturb DEF Next, Main

\* A reply holds values under their own codes.
Marked == /\ task \in {"para", "clock"} => reply = <<>>
          /\ task = "write" \/ (task \in {"freeze", "direct"} /\ prompt) =>
                \A i \in 1 .. Len(reply) : reply[i].value \in {reply[i].code, "bad"}

LEMMA MarkedStep == ASSUME Typed, Line, Marked, [Next]_vars PROVE Marked'
<1>1. TypeOK /\ task \in Kinds /\ reply \in Seq(Replies) /\ at \in Nat
  BY TaskKinds DEF Typed, TypeOK, Replies
<1>2. CASE reply' = <<>>
  BY <1>2 DEF Marked
<1>3. ASSUME UNCHANGED <<task, reply>>, prompt' => prompt PROVE Marked'
  BY <1>3 DEF Marked
<1>4. ASSUME UNCHANGED task, prompt' => prompt, at > 3,
             NEW got \in BOOLEAN, Store(Dialogue(task)[at], got),
             got => task = "write" \/ (rx.done /\ Parsed)
      PROVE  Marked'
  <2> DEFINE c == Dialogue(task)[at]
  <2>1. CASE task \in {"para", "clock"}
    BY <1>1, <1>4, <2>1 DEF Store, Marked
  <2>2. CASE task \in {"freeze", "direct", "write"} /\ reply' = reply
    BY <1>3, <1>4, <2>2
  <2>3. CASE task = "write" /\ reply' = Append(reply, [code |-> c, value |-> c])
    <3>1. c \in Elements(Writes)
      <4>1. at \in 4 .. Len(Dialogue(task))
        BY <1>1, <1>4, Dialogues DEF TypeOK
      <4>2. QED
        BY <1>1, <2>3, <4>1, Dialogues, Scripts
    <3>2. [code |-> c, value |-> c] \in Replies
      BY <3>1 DEF Replies
    <3>3. /\ Len(reply') = Len(reply) + 1 /\ Len(reply) \in Nat
          /\ \A i \in 1 .. Len(reply) : reply'[i] = reply[i]
          /\ reply'[Len(reply) + 1] = [code |-> c, value |-> c]
      BY <1>1, <2>3, <3>2, Queue
    <3>4. QED
      BY <1>4, <2>3, <3>3 DEF Marked
  <2>4. CASE /\ task \in {"freeze", "direct"} /\ got
             /\ reply' = Append(reply, [code |-> c, value |-> rx.text])
    <3>1. c \in Elements(Readings) /\ rx.text \in Values /\ task # "write"
      <4>1. at \in 4 .. Len(Dialogue(task))
        BY <1>1, <1>4, Dialogues DEF TypeOK
      <4>2. QED
        BY <1>1, <1>4, <2>4, <4>1, Dialogues, Scripts DEF TypeOK, Receivers, Parsed
    <3>2. [code |-> c, value |-> rx.text] \in Replies
      BY <3>1 DEF Replies
    <3>3. /\ Len(reply') = Len(reply) + 1 /\ Len(reply) \in Nat
          /\ \A i \in 1 .. Len(reply) : reply'[i] = reply[i]
          /\ reply'[Len(reply) + 1] = [code |-> c, value |-> rx.text]
      BY <1>1, <2>4, <3>2, Queue
    <3>4. prompt => rx.text \in {c, "bad"}
      BY <1>1, <1>4, <2>4, <3>1 DEF Line, Parsed
    <3>5. ASSUME prompt', NEW i \in 1 .. Len(reply')
          PROVE  reply'[i].value \in {reply'[i].code, "bad"}
      <4>1. CASE i \in 1 .. Len(reply)
        BY <1>4, <2>4, <3>3, <3>5, <4>1 DEF Marked
      <4>2. CASE i = Len(reply) + 1
        BY <1>4, <3>3, <3>4, <3>5, <4>2
      <4>3. QED
        BY <3>3, <3>5, <4>1, <4>2
    <3>6. QED
      BY <1>4, <2>4, <3>1, <3>5 DEF Marked
  <2>5. QED
    BY <1>1, <1>4, <2>1, <2>2, <2>3, <2>4 DEF Store, Kinds
<1>5. CASE Seen
  <2>1. UNCHANGED <<task, prompt>> /\ rx.done
    BY <1>5 DEF Seen
  <2>2. CASE UNCHANGED <<data_PLC, para, reply>>
    BY <1>3, <2>1, <2>2
  <2>3. CASE at > Len(Handshake) /\ Store(Dialogue(task)[at], task = "write" \/ Parsed)
    <3>1. (task = "write" \/ Parsed) \in BOOLEAN
      BY DEF Parsed
    <3>2. QED
      BY <1>4, <2>1, <2>3, <3>1, Bounds
  <2>4. QED
    BY <1>1, <1>5, <2>2, <2>3, Bounds DEF Seen
<1>6. CASE TimeOut
  <2>1. UNCHANGED task /\ (prompt' => prompt)
    BY <1>6 DEF TimeOut
  <2>2. \/ UNCHANGED <<data_PLC, para, reply>>
        \/ at > Len(Handshake) /\ Store(Dialogue(task)[at], FALSE)
    BY <1>6, Zenon DEF TimeOut
  <2>3. QED
    BY <1>3, <1>4, <2>1, <2>2, Bounds
<1>7. CASE Receive \/ Answer \/ Ignore \/ Disturb \/ UNCHANGED vars
  <2>1. UNCHANGED <<task, reply, prompt>>
    BY <1>7 DEF Receive, Answer, Ignore, Disturb, loop, vars
  <2>2. QED
    BY <1>3, <2>1
<1>8. CASE Reset \/ \E t \in Tasks \cup {"para", "clock"} : Begin(t)
  <2>1. reply' = <<>>
    BY <1>8 DEF Reset, Begin
  <2>2. QED
    BY <1>2, <2>1
<1>9. QED
  BY <1>5, <1>6, <1>7, <1>8 DEF Next, Main

\* Answers that are lost or cut off anywhere may leave gaps in a reply, but no
\* value is taken in the turn of another code.
THEOREM NoValueMislabelled == Spec => []LossesNeverMislabel
<1>1. Init => Typed /\ Line /\ Marked
  <2>1. Init => at = 0 /\ reply = <<>> /\ task = "para"
    BY DEF Init
  <2>2. QED
    BY <2>1, TypedInit DEF Line, Marked
<1>2. Typed /\ Line /\ Marked /\ [Next]_vars => (Typed /\ Line /\ Marked)'
  BY TypedStep, LineStep, MarkedStep
<1>3. Typed /\ Marked => LossesNeverMislabel
  <2> SUFFICES ASSUME Typed, Marked, prompt PROVE LossesNeverMislabel
    BY DEF LossesNeverMislabel
  <2>1. task \in Kinds
    BY TaskKinds DEF Typed
  <2>2. CASE task \in {"para", "clock"}
    BY <2>2 DEF Marked, LossesNeverMislabel
  <2>3. CASE task \in {"freeze", "direct", "write"}
    BY <2>3 DEF Marked, LossesNeverMislabel
  <2>4. QED
    BY <2>1, <2>2, <2>3 DEF Kinds
<1>4. QED
  BY <1>1, <1>2, <1>3, PTL DEF Spec

(***************************************************************************)
(* A session that nothing disturbs stores every value under its own name.  *)
(***************************************************************************)
\* The receiver follows the answer to the code c.  A check character may have
\* opened a frame before its time: the frame then begins with STX and is the same
\* to check_buffer().
Following(c) ==
    \/ /\ \/ todo = <<c>> /\ wire = <<"BCC">>
          \/ todo \in {<<"password">>, <<"password", c>>} /\ wire = <<>>
          \/ todo \in {<<>>, <<c>>} /\ wire = <<"ACK">>
       /\ ~rx.done /\ rx.text = "none" /\ ~rx.started
    \/ /\ \/ todo \in {<<>>, <<c>>} /\ wire = <<>>
          \/ todo = <<>> /\ wire = <<"STX", c, "ETX", "BCC">>
       /\ ~rx.done /\ rx.text = "none" /\ (rx.started => ~rx.beyond)
    \/ /\ todo = <<>> /\ wire = <<c, "ETX", "BCC">>
       /\ ~rx.done /\ rx.text = "none" /\ rx.started /\ (rx.beyond => rx.head)
    \/ /\ todo = <<>> /\ wire = <<"ETX", "BCC">>
       /\ ~rx.done /\ rx.text = c /\ rx.started /\ rx.head
    \/ /\ todo = <<>> /\ wire = <<"BCC">>
       /\ rx.done /\ rx.text = c /\ rx.head

Clean == clean => /\ prompt
                  /\ at > 3 /\ task # "write" => Following(Dialogue(task)[at])

\* A step of the main loop or a disturbance.
LEMMA CleanOther ==
    ASSUME Typed, Clean,
           \/ TimeOut \/ Reset \/ Ignore \/ Disturb
           \/ \E t \in Tasks \cup {"para", "clock"} : Begin(t)
    PROVE  Clean'
<1>1. CASE TimeOut \/ Reset \/ Ignore \/ Disturb
  <2>1. ~clean'
    BY <1>1 DEF TimeOut, Reset, Ignore, Disturb
  <2>2. QED
    BY <2>1 DEF Clean
<1>2. CASE \E t \in Tasks \cup {"para", "clock"} : Begin(t)
  <2>1. (clean' <=> prompt') /\ at' = 1
    BY <1>2 DEF Begin, Request
  <2>2. QED
    BY <2>1 DEF Clean
<1>3. QED
  BY <1>1, <1>2

\* An answer is seen.
LEMMA CleanSeen == ASSUME Typed, Line, Clean, Seen PROVE Clean'
<1>1. UNCHANGED <<task, wire, clean, prompt>>
  BY DEF Seen
<1> SUFFICES ASSUME clean, task # "write", at' > 3 PROVE Following(Dialogue(task)[at])'
  BY <1>1 DEF Clean
<1>2. /\ task \in Kinds /\ at \in 0 .. Len(Dialogue(task)) /\ Len(Dialogue(task)) \in Nat
      /\ at > 0 /\ rx.done /\ Advance /\ ~rx.started
  BY TaskKinds, Dialogues DEF Typed, TypeOK, Seen
<1>3. at < Len(Dialogue(task)) /\ Request(task, at + 1) /\ at + 1 \in 1 .. Len(Dialogue(task))
  BY <1>2 DEF Advance
<1> DEFINE c == Dialogue(task)[at + 1]
<1>4. /\ at' = at + 1 /\ ~rx'.done /\ rx'.text = "none" /\ rx'.started = rx.started
      /\ todo' = IF Len(todo) < Pending THEN Append(todo, c) ELSE todo
  <2>1. at' = at + 1 /\ ~rx'.done /\ rx'.text = "none" /\ rx'.started = rx.started
    BY <1>2, <1>3, Requesting DEF Typed
  <2>2. todo' = IF Len(todo) < Pending THEN Append(todo, c) ELSE todo
    BY <1>3 DEF Request
  <2>3. QED
    BY <2>1, <2>2
<1>5. \/ todo = <<>> /\ wire \in {<<"BCC">>, <<>>, <<"ACK">>}
      \/ todo = <<"password">> /\ wire = <<>>
  <2>1. CASE at = 3
    BY <1>2, <2>1 DEF Clean, Line
  <2>2. CASE at > 3
    BY <1>2, <2>2 DEF Clean, Following
  <2>3. QED
    BY <1>2, <1>4, <2>1, <2>2
<1>6. \/ todo' = <<c>> /\ wire' \in {<<"BCC">>, <<>>, <<"ACK">>}
      \/ todo' \in {<<"password">>, <<"password", c>>} /\ wire' = <<>>
  <2>1. CASE todo = <<>> /\ wire \in {<<"BCC">>, <<>>, <<"ACK">>}
    <3>1. todo' = <<c>>
      BY <1>4, <2>1, Short, Bounds
    <3>2. QED
      BY <1>1, <2>1, <3>1
  <2>2. CASE todo = <<"password">> /\ wire = <<>>
    <3>1. todo' \in {<<"password">>, <<"password", c>>}
      BY <1>4, <2>2, Short
    <3>2. QED
      BY <1>1, <2>2, <3>1
  <2>3. QED
    BY <1>5, <2>1, <2>2
<1>7. ~rx'.started
  BY <1>2, <1>4
<1>8. QED
  BY <1>1, <1>4, <1>6, <1>7 DEF Following

\* A character is received.
LEMMA CleanReceive == ASSUME Typed, Clean, Receive PROVE Clean'
<1>1. UNCHANGED <<task, at, todo, clean, prompt>>
  BY DEF Receive, loop
<1> SUFFICES ASSUME clean, task # "write", at > 3 PROVE Following(Dialogue(task)[at])'
  BY <1>1 DEF Clean
<1> DEFINE c == Dialogue(task)[at]
<1>2. /\ rx.kind = "data" /\ c \notin Marks \cup {"open", "bad", "none", "password"}
  BY DataCode
<1>3. /\ rx \in Receivers /\ wire # <<>> /\ wire' = Tail(wire) /\ ~rx.done /\ Following(c)
  BY DEF Receive, Typed, TypeOK, Clean
<1>4. StartFrame("data") = "STX" /\ StopFrame("data") = "ETX"
  BY DEF StartFrame, StopFrame
<1> DEFINE h == Head(wire)
<1>5. /\ ~rx.started /\ h = "STX" => rx' = Opened
      /\ ~rx.started /\ h # "STX" => rx' \in {rx, Opened}
      /\ rx.started /\ h = "ETX" => rx' = Closed
      /\ rx.started /\ h # "ETX" => rx' = Stored(h)
  BY <1>2, <1>4 DEF Receive
<1>6. /\ Opened.started /\ ~Opened.beyond /\ Opened.done = rx.done
      /\ Opened.text = rx.text /\ Opened.head = rx.head
      /\ Closed.done /\ Closed.text = rx.text /\ Closed.head = rx.head
  BY <1>2, <1>3 DEF Opened, Closed, Receivers
<1>7. /\ Stored(h).started = rx.started /\ Stored(h).done = rx.done
      /\ rx.head => Stored(h).head
      /\ ~rx.beyond => Stored(h).head
      /\ h \in Marks => Stored(h).text = rx.text
      /\ rx.text = "none" /\ h \notin Marks \cup {"open"} => Stored(h).text = h
  BY <1>3 DEF Stored, Receivers
<1>8. CASE todo = <<c>> /\ wire = <<"BCC">> /\ rx.text = "none" /\ ~rx.started
  <2>1. h = "BCC" /\ wire' = <<>>
    BY <1>3, <1>8, Tuples
  <2>2. rx' \in {rx, Opened}
    BY <1>5, <1>8, <2>1
  <2>3. ~rx'.done /\ rx'.text = "none" /\ (rx'.started => ~rx'.beyond)
    BY <1>3, <1>6, <1>8, <2>2
  <2>4. QED
    BY <1>1, <1>8, <2>1, <2>3 DEF Following
<1>9. CASE todo \in {<<>>, <<c>>} /\ wire = <<"ACK">> /\ rx.text = "none" /\ ~rx.started
  <2>1. h = "ACK" /\ wire' = <<>>
    BY <1>3, <1>9, Tuples
  <2>2. rx' \in {rx, Opened}
    BY <1>5, <1>9, <2>1
  <2>3. ~rx'.done /\ rx'.text = "none" /\ (rx'.started => ~rx'.beyond)
    BY <1>3, <1>6, <1>9, <2>2
  <2>4. QED
    BY <1>1, <1>9, <2>1, <2>3 DEF Following
<1>10. CASE /\ todo = <<>> /\ wire = <<"STX", c, "ETX", "BCC">>
            /\ rx.text = "none" /\ (rx.started => ~rx.beyond)
  <2>1. h = "STX" /\ wire' = <<c, "ETX", "BCC">> /\ h \in Marks
    BY <1>3, <1>10, Tuples DEF Marks
  <2>2. ~rx'.done /\ rx'.text = "none" /\ rx'.started /\ (rx'.beyond => rx'.head)
    BY <1>3, <1>5, <1>6, <1>7, <1>10, <2>1
  <2>3. QED
    BY <1>1, <1>10, <2>1, <2>2 DEF Following
<1>11. CASE /\ todo = <<>> /\ wire = <<c, "ETX", "BCC">>
            /\ rx.text = "none" /\ rx.started /\ (rx.beyond => rx.head)
  <2>1. h = c /\ wire' = <<"ETX", "BCC">> /\ h # "ETX"
    BY <1>2, <1>3, <1>11, Tuples DEF Marks
  <2>2. ~rx'.done /\ rx'.text = c /\ rx'.started /\ rx'.head
    BY <1>2, <1>3, <1>5, <1>7, <1>11, <2>1
  <2>3. QED
    BY <1>1, <1>11, <2>1, <2>2 DEF Following
<1>12. CASE /\ todo = <<>> /\ wire = <<"ETX", "BCC">>
            /\ rx.text = c /\ rx.started /\ rx.head
  <2>1. h = "ETX" /\ wire' = <<"BCC">>
    BY <1>3, <1>12, Tuples
  <2>2. rx'.done /\ rx'.text = c /\ rx'.head
    BY <1>3, <1>5, <1>6, <1>12, <2>1
  <2>3. QED
    BY <1>1, <1>12, <2>1, <2>2 DEF Following
<1>13. QED
  BY <1>3, <1>8, <1>9, <1>10, <1>11, <1>12 DEF Following

\* The meter answers.
LEMMA CleanAnswer == ASSUME Typed, Clean, Answer PROVE Clean'
<1>1. UNCHANGED <<task, at, rx, clean, prompt>> /\ at \in Nat
  BY DEF Answer, loop, Typed, TypeOK
<1> SUFFICES ASSUME clean, task # "write", at > 3 PROVE Following(Dialogue(task)[at])'
  BY <1>1 DEF Clean
<1> DEFINE c == Dialogue(task)[at]
<1>2. todo # <<>> /\ wire = <<>> /\ wire' = Frame(Head(todo)) /\ todo' = Tail(todo)
  BY DEF Answer
<1>3. Frame("password") = <<"ACK">> /\ Frame(c) = <<"STX", c, "ETX", "BCC">>
  <2>1. "password" \in Requests /\ c \in Requests /\ AnswerKind(c) = "data"
    BY FixedCodes, DataCode DEF Requests
  <2>2. QED
    BY <2>1, AnswerKinds, Frames
<1>4. Following(c)
  BY DEF Clean
<1>5. CASE todo = <<c>> /\ ~rx.done /\ rx.text = "none" /\ (rx.started => ~rx.beyond)
  <2>1. wire' = <<"STX", c, "ETX", "BCC">> /\ todo' = <<>>
    BY <1>2, <1>3, <1>5, Tuples
  <2>2. QED
    BY <1>1, <1>5, <2>1 DEF Following
<1>6. CASE /\ todo \in {<<"password">>, <<"password", c>>}
           /\ ~rx.done /\ rx.text = "none" /\ ~rx.started
  <2>1. wire' = <<"ACK">> /\ todo' \in {<<>>, <<c>>}
    <3>1. CASE todo = <<"password">>
      BY <1>2, <1>3, <3>1, Tuples
    <3>2. CASE todo = <<"password", c>>
      BY <1>2, <1>3, <3>2, Tuples
    <3>3. QED
      BY <1>6, <3>1, <3>2
  <2>2. QED
    BY <1>1, <1>6, <2>1 DEF Following
<1>7. QED
  BY <1>2, <1>4, <1>5, <1>6, Short DEF Following

\* How many codes of the script have been served.
Served == IF at = 0 THEN Len(Script(task)) ELSE IF at <= 4 THEN 0 ELSE at - 4

Record(c) == [code |-> c, value |-> c]

Collected ==
    clean =>
        /\ task \in {"para", "clock"} =>
             \A i \in 1 .. Served : para[Script(task)[i]] = Script(task)[i]
        /\ task \in {"freeze", "direct", "write"} =>
             /\ Len(reply) = Served
             /\ \A i \in 1 .. Served : reply[i] = Record(Script(task)[i])

\* One code more.
LEMMA CollectedSeen == ASSUME Typed, Clean, Collected, Seen PROVE Collected'
<1> SUFFICES ASSUME clean PROVE Collected'
  BY DEF Collected, Seen
<1> DEFINE s == Script(task)
           c == Dialogue(task)[at]
<1>1. /\ task \in Kinds /\ at \in 1 .. Len(Dialogue(task)) /\ Advance /\ rx.done
      /\ UNCHANGED <<task, clean>> /\ TypeOK
  BY TaskKinds, Dialogues DEF Typed, TypeOK, Seen
<1>2. /\ Len(Dialogue(task)) = 3 + Len(s) /\ Len(s) \in Nat /\ Len(s) > 0
  BY <1>1, Dialogues, Scripts
<1>3. at' = IF at < 3 + Len(s) THEN at + 1 ELSE 0
  BY <1>1, <1>2 DEF Advance, Request
<1>4. CASE at <= 3
  <2>1. Served = 0 /\ Served' = 0
    BY <1>1, <1>2, <1>3, <1>4 DEF Served
  <2>2. UNCHANGED <<para, reply>>
    BY <1>4, Bounds DEF Seen
  <2>3. QED
    BY <1>1, <2>1, <2>2 DEF Collected
<1>5. CASE at > 3
  <2>1. Served = at - 4 /\ Served' = at - 3 /\ at - 3 \in 1 .. Len(s) /\ at \in 4 .. Len(Dialogue(task))
    BY <1>1, <1>2, <1>3, <1>5 DEF Served
  <2>2. c = s[at - 3] /\ c \in Elements(s)
    BY <1>1, <2>1, Dialogues
  <2>3. Store(c, task = "write" \/ Parsed)
    <3>1. ~(at <= Len(Handshake))
      BY <1>1, <1>5, Bounds
    <3>2. QED
      BY <3>1 DEF Seen
  <2>4. ASSUME task # "write" PROVE Parsed /\ rx.text = c /\ c \in Values
    <3>1. c \in Fields \cup Elements(Readings) /\ c # "none"
      BY <1>5, <2>4, DataCode
    <3>2. Following(c)
      BY <1>5, <2>4 DEF Clean
    <3>3. rx.text = c /\ rx.head
      BY <1>1, <3>2 DEF Following
    <3>4. QED
      BY <3>1, <3>3 DEF Parsed, Values
  <2>5. CASE task \in {"para", "clock"}
    <3>1. c \in Fields
      BY <1>1, <2>2, <2>5, Scripts
    <3>2. para \in [Fields -> Values \cup {"none", "junk"}]
      BY <1>1 DEF TypeOK
    <3>3. para' = [para EXCEPT ![c] = c]
      BY <2>3, <2>4, <2>5 DEF Store
    <3>4. ASSUME NEW i \in 1 .. Served' PROVE para'[s[i]] = s[i]
      <4>1. s[i] \in Fields
        <5>1. i \in 1 .. Len(s)
          BY <1>2, <2>1
        <5>2. s[i] \in Elements(s)
          BY <5>1 DEF Elements
        <5>3. QED
          BY <1>1, <2>5, <5>2, Scripts
      <4>2. CASE i = at - 3
        BY <2>2, <3>1, <3>2, <3>3, <4>2
      <4>3. CASE i # at - 3
        <5>1. i \in 1 .. Served
          BY <1>1, <2>1, <4>3
        <5>2. para[s[i]] = s[i]
          BY <2>5, <5>1 DEF Collected
        <5>3. QED
          BY <3>1, <3>2, <3>3, <4>1, <5>2
      <4>4. QED
        BY <4>2, <4>3
    <3>5. QED
      BY <1>1, <2>5, <3>4 DEF Collected
  <2>6. CASE task \in {"freeze", "direct", "write"}
    <3>1. c \in Elements(Readings) \cup Elements(Writes)
      BY <1>1, <2>2, <2>6, Scripts
    <3>2. Record(c) \in Replies
      BY <3>1, <2>4, <2>6, <1>1, <2>2, Scripts DEF Replies, Record
    <3>3. reply' = Append(reply, Record(c))
      BY <2>3, <2>4, <2>6 DEF Store, Record
    <3>4. reply \in Seq(Replies)
      BY <1>1 DEF TypeOK, Replies
    <3>5. /\ Len(reply') = Len(reply) + 1
          /\ \A i \in 1 .. Len(reply) : reply'[i] = reply[i]
          /\ reply'[Len(reply) + 1] = Record(c)
      BY <3>2, <3>3, <3>4, Queue
    <3>6. Len(reply) = Served /\ \A i \in 1 .. Served : reply[i] = Record(s[i])
      BY <2>6 DEF Collected
    <3>7. Len(reply') = Served'
      BY <1>1, <2>1, <3>5, <3>6
    <3>8. ASSUME NEW i \in 1 .. Served' PROVE reply'[i] = Record(s[i])
      <4>1. CASE i = at - 3
        BY <1>1, <2>1, <2>2, <3>5, <3>6, <4>1
      <4>2. CASE i # at - 3
        <5>1. i \in 1 .. Served
          BY <1>1, <2>1, <4>2
        <5>2. QED
          BY <3>5, <3>6, <5>1
      <4>3. QED
        BY <4>1, <4>2
    <3>9. QED
      BY <1>1, <2>6, <3>7, <3>8 DEF Collected
  <2>7. QED
    BY <1>1, <2>5, <2>6 DEF Kinds
<1>6. QED
  BY <1>1, <1>4, <1>5

\* The others store nothing in an undisturbed session.
LEMMA CollectedOther ==
    ASSUME Typed, Collected, [Next]_vars, ~Seen
    PROVE  Collected'
<1>1. CASE TimeOut \/ Reset \/ Ignore \/ Disturb
  <2>1. ~clean'
    BY <1>1 DEF TimeOut, Reset, Ignore, Disturb
  <2>2. QED
    BY <2>1 DEF Collected
<1>2. ASSUME NEW t \in Tasks \cup {"para", "clock"}, Begin(t) PROVE Collected'
  <2>1. at' = 1 /\ reply' = <<>>
    BY <1>2 DEF Begin, Request
  <2>2. Served' = 0
    BY <2>1 DEF Served
  <2>3. QED
    BY <2>1, <2>2 DEF Collected
<1>3. CASE Receive \/ Answer \/ UNCHANGED vars
  <2>1. UNCHANGED <<task, at, para, reply, clean>>
    BY <1>3 DEF Receive, Answer, loop, vars
  <2>2. Served' = Served
    BY <2>1 DEF Served
  <2>3. QED
    BY <2>1, <2>2 DEF Collected
<1>4. QED
  BY <1>1, <1>2, <1>3 DEF Next, Main

\* A session in which every answer came in time and undamaged stores every value
\* under its own name, whatever the sessions before have left behind.
THEOREM EveryValueItsOwn == Spec => []OwnValues
<1> DEFINE IInv == Typed /\ Line /\ Clean /\ Collected
<1>1. Init => IInv
  <2>1. Init => at = 0 /\ ~clean
    BY DEF Init
  <2>2. QED
    BY <2>1, TypedInit DEF Line, Clean, Collected
<1>2. IInv /\ [Next]_vars => IInv'
  <2> SUFFICES ASSUME IInv, [Next]_vars PROVE IInv'
    OBVIOUS
  <2>1. Typed' /\ Line'
    BY TypedStep, LineStep
  <2>2. Clean'
    <3>1. CASE UNCHANGED vars
      BY <3>1 DEF vars, Clean, Following
    <3>2. QED
      BY <3>1, CleanOther, CleanSeen, CleanReceive, CleanAnswer DEF Next, Main
  <2>3. Collected'
    BY CollectedSeen, CollectedOther
  <2>4. QED
    BY <2>1, <2>2, <2>3
<1>3. IInv => OwnValues
  <2> SUFFICES ASSUME IInv, at = 0, clean, boot > 0 PROVE OwnValues
    BY DEF OwnValues
  <2>1. task \in Kinds /\ Served = Len(Script(task)) /\ reply \in Seq(Replies)
    BY TaskKinds DEF Typed, TypeOK, Served, Replies
  <2>2. CASE task \in {"para", "clock"}
    <3>1. \A i \in 1 .. Len(Script(task)) : para[Script(task)[i]] = Script(task)[i]
      BY <2>1, <2>2 DEF Collected
    <3>2. \A c \in Elements(Script(task)) : para[c] = c
      BY <3>1 DEF Elements
    <3>3. QED
      BY <2>2, <3>2 DEF OwnValues
  <2>3. CASE task \in {"freeze", "direct", "write"}
    <3>1. /\ Len(reply) = Len(Script(task))
          /\ \A i \in 1 .. Len(reply) : reply[i] = Record(Script(task)[i])
      BY <2>1, <2>3 DEF Collected
    <3>2. reply = [i \in 1 .. Len(reply) |-> reply[i]]
      BY <2>1
    <3>3. reply = [i \in 1 .. Len(Script(task)) |->
                     [code |-> Script(task)[i], value |-> Script(task)[i]]]
      BY <3>1, <3>2 DEF Record
    <3>4. QED
      BY <2>3, <3>3 DEF OwnValues
  <2>4. QED
    BY <2>1, <2>2, <2>3 DEF Kinds
<1>4. QED
  BY <1>1, <1>2, <1>3, PTL DEF Spec

(***************************************************************************)
(* Late answers are used at most once and in order.                        *)
(***************************************************************************)
\* Words that are no answer to a request for a value.
Blank == Marks \cup {"P0", "bad", "open", "none"}

\* Such a word, or the answer to a request after the a-th, up to the b-th.
OneOf(v, a, b) ==
    v \in Blank \/ \E p \in 1 .. Len(Readings) : Readings[p] = v /\ a < p /\ p <= b

\* The values of a reply answer some of the first a requests, in order.
Taken(r, a) ==
    LET used == {i \in 1 .. Len(r) : r[i].value \notin {"bad", "P0"}}
    IN  \E turn \in [1 .. Len(r) -> 1 .. Len(Readings)] :
            /\ \A i \in used : r[i].value = Readings[turn[i]] /\ turn[i] <= a
            /\ \A i, j \in used : i < j => turn[i] < turn[j]

Carries(w, b, c) == \A k \in 1 .. Len(w) : OneOf(w[k], b, c)

\* The requests of a queue that are not of the handshake come after the c-th, up
\* to the n-th, in order.
Queued(q, c, n) ==
    LET own == {i \in 1 .. Len(q) : q[i] \notin Elements(Handshake)}
    IN  \E turn \in [1 .. Len(q) -> 1 .. Len(Readings)] :
            /\ \A i \in own : q[i] = Readings[turn[i]] /\ c < turn[i] /\ turn[i] <= n
            /\ \A i, j \in own : i < j => turn[i] < turn[j]

\* Whatever is on its way from the queue to the reply is behind what went before.
Coming(r, text, w, q, n) ==
    \E a, b, c \in 0 .. n :
        /\ a <= b /\ b <= c
        /\ Taken(r, a) /\ OneOf(text, a, b) /\ Carries(w, b, c) /\ Queued(q, c, n)

Fresh == signed /\ ~mistaken /\ task \in {"freeze", "direct"} /\ Pending <= 2

Ordered == Fresh => /\ Taken(reply, Len(Readings))
                    /\ at > 3 => Coming(reply, rx.text, wire, todo, at - 3)

\* Requests of earlier sessions that the meter has not answered.
Stale == IF old = 0 THEN 0 ELSE IF wire = <<>> THEN old ELSE old - 1

\* During the handshake the meter has no other requests of this session.
Own == at \in 1 .. 3 =>
           /\ reply = <<>>
           /\ \A i \in 1 .. Len(todo) : i > Stale => todo[i] \in Elements(Handshake)
           /\ old = 0 => \A k \in 1 .. Len(wire) : wire[k] \in Blank

LEMMA Blanks ==
    /\ Marks \subseteq Blank /\ {"P0", "bad", "open", "none"} \subseteq Blank
    /\ Values \cap Blank = {"P0", "bad"}
    /\ \A v, a, b : v \in Blank => OneOf(v, a, b)
<1>1. "none" \notin Values /\ "open" \notin Values /\ {"P0", "bad"} \subseteq Values
      /\ Values \cap Marks = {}
  BY TextsAreNoMarks DEF Texts
<1>2. QED
  BY <1>1 DEF Blank, OneOf

\* The numbers between which an answer lies may be set apart.
LEMMA Wider ==
    ASSUME NEW a \in Nat, NEW b \in Nat, NEW c \in Nat, NEW d \in Nat, c <= a, b <= d,
           NEW v, OneOf(v, a, b)
    PROVE  OneOf(v, c, d)
BY DEF OneOf

LEMMA TakenNothing == \A a : Taken(<<>>, a)
<1>1. <<>> \in [1 .. Len(<<>>) -> 1 .. Len(Readings)] /\ 1 .. Len(<<>>) = {}
  OBVIOUS
<1>2. QED
  BY <1>1 DEF Taken

LEMMA TakenMore ==
    ASSUME NEW r, NEW a \in Nat, NEW b \in Nat, a <= b, Taken(r, a)
    PROVE  Taken(r, b)
<1> DEFINE used == {i \in 1 .. Len(r) : r[i].value \notin {"bad", "P0"}}
<1>1. PICK turn \in [1 .. Len(r) -> 1 .. Len(Readings)] :
            /\ \A i \in used : r[i].value = Readings[turn[i]] /\ turn[i] <= a
            /\ \A i, j \in used : i < j => turn[i] < turn[j]
  BY DEF Taken
<1>2. \A i \in used : turn[i] \in Nat
  OBVIOUS
<1>3. \A i \in used : turn[i] <= b
  BY <1>1, <1>2
<1>4. QED
  BY <1>1, <1>3 DEF Taken

\* A value is taken.
LEMMA TakenValue ==
    ASSUME NEW r \in Seq(Replies), NEW x \in Replies, NEW a \in Nat, NEW b \in Nat, a <= b,
           Taken(r, a), x.value \in Values, OneOf(x.value, a, b)
    PROVE  Taken(Append(r, x), b)
<1> DEFINE used(s) == {i \in 1 .. Len(s) : s[i].value \notin {"bad", "P0"}}
           s == Append(r, x)
           n == Len(r)
<1>1. PICK turn \in [1 .. n -> 1 .. Len(Readings)] :
            /\ \A i \in used(r) : r[i].value = Readings[turn[i]] /\ turn[i] <= a
            /\ \A i, j \in used(r) : i < j => turn[i] < turn[j]
  BY DEF Taken
<1>2. /\ n \in Nat /\ Len(s) = n + 1 /\ s[n + 1] = x
      /\ \A i \in 1 .. n : s[i] = r[i]
  BY Queue
<1>3. Len(Readings) \in Nat /\ Len(Readings) > 0
  BY ChosenCodes
<1>4. PICK p \in 1 .. Len(Readings) :
          x.value \in {"P0", "bad"} \/ (Readings[p] = x.value /\ a < p /\ p <= b)
  BY <1>3, Blanks DEF OneOf
<1> HIDE DEF s, n
<1> DEFINE next == [i \in 1 .. (n + 1) |-> IF i = n + 1 THEN p ELSE turn[i]]
<1>5. next \in [1 .. Len(s) -> 1 .. Len(Readings)]
  BY <1>1, <1>2
<1>6. next[n + 1] = p /\ \A i \in 1 .. n : next[i] = turn[i]
  BY <1>2
<1> HIDE DEF next
<1>7. \A i \in used(s) : i \in used(r) \/ (i = n + 1 /\ Readings[p] = x.value /\ a < p /\ p <= b)
  <2> TAKE i \in used(s)
  <2>1. CASE i = n + 1
    BY <1>2, <1>4, <2>1
  <2>2. CASE i # n + 1
    <3>1. i \in 1 .. n
      BY <1>2, <2>2
    <3>2. QED
      BY <1>2, <3>1 DEF n
  <2>3. QED
    BY <2>1, <2>2
<1>8. \A i \in used(r) : i \in 1 .. n /\ next[i] = turn[i] /\ next[i] \in Nat /\ next[i] <= a
  BY <1>1, <1>6 DEF n
<1>9. ASSUME NEW i \in used(s) PROVE s[i].value = Readings[next[i]] /\ next[i] <= b
  <2>1. CASE i \in used(r)
    BY <1>1, <1>2, <1>8, <2>1
  <2>2. CASE i = n + 1 /\ Readings[p] = x.value /\ a < p /\ p <= b
    BY <1>2, <1>6, <2>2
  <2>3. QED
    BY <1>7, <2>1, <2>2
<1>10. ASSUME NEW i \in used(s), NEW j \in used(s), i < j PROVE next[i] < next[j]
  <2>1. i \in 1 .. (n + 1) /\ j \in 1 .. (n + 1)
    BY <1>2
  <2>2. i # n + 1
    BY <1>2, <1>10, <2>1
  <2>3. i \in used(r)
    BY <1>7, <2>2
  <2>4. CASE j \in used(r)
    BY <1>1, <1>8, <1>10, <2>3, <2>4
  <2>5. CASE j = n + 1 /\ a < p
    BY <1>6, <1>8, <2>3, <2>5
  <2>6. QED
    BY <1>7, <2>4, <2>5
<1>11. QED
  BY <1>5, <1>9, <1>10 DEF Taken, s

\* A request is answered or forgotten.
LEMMA QueuedTail ==
    ASSUME NEW S, NEW q \in Seq(S), q # <<>>, NEW c \in Nat, NEW n \in Nat, Queued(q, c, n)
    PROVE  /\ Queued(Tail(q), c, n)
           /\ \/ Head(q) \in Elements(Handshake)
              \/ \E p \in 1 .. Len(Readings) :
                    Readings[p] = Head(q) /\ c < p /\ p <= n /\ Queued(Tail(q), p, n)
<1> DEFINE own(s) == {i \in 1 .. Len(s) : s[i] \notin Elements(Handshake)}
           t == Tail(q)
<1>1. PICK turn \in [1 .. Len(q) -> 1 .. Len(Readings)] :
            /\ \A i \in own(q) : q[i] = Readings[turn[i]] /\ c < turn[i] /\ turn[i] <= n
            /\ \A i, j \in own(q) : i < j => turn[i] < turn[j]
  BY DEF Queued
<1>2. /\ Len(q) \in Nat /\ Len(q) > 0 /\ Len(t) = Len(q) - 1 /\ Head(q) = q[1]
      /\ \A i \in 1 .. Len(t) : t[i] = q[i + 1]
  BY Queue
<1> HIDE DEF t
<1> DEFINE next == [i \in 1 .. Len(t) |-> turn[i + 1]]
<1>3. next \in [1 .. Len(t) -> 1 .. Len(Readings)]
  BY <1>1, <1>2
<1>4. \A i \in own(t) : i + 1 \in own(q) /\ next[i] = turn[i + 1] /\ i \in Nat
  BY <1>2
<1> HIDE DEF next
<1>5. /\ \A i \in own(t) : t[i] = Readings[next[i]] /\ c < next[i] /\ next[i] <= n
      /\ \A i, j \in own(t) : i < j => next[i] < next[j]
  <2>1. \A i \in own(t) : t[i] = q[i + 1]
    BY <1>2
  <2>2. QED
    BY <1>1, <1>4, <2>1
<1>6. Queued(t, c, n)
  BY <1>3, <1>5 DEF Queued
<1>7. ASSUME Head(q) \notin Elements(Handshake)
      PROVE  /\ Readings[turn[1]] = Head(q) /\ c < turn[1] /\ turn[1] <= n
             /\ turn[1] \in 1 .. Len(Readings) /\ Queued(t, turn[1], n)
  <2>1. 1 \in own(q)
    BY <1>2, <1>7
  <2>2. \A i \in own(t) : turn[1] < next[i]
    BY <1>1, <1>4, <2>1
  <2>3. Queued(t, turn[1], n)
    BY <1>3, <1>5, <2>2 DEF Queued
  <2>4. QED
    BY <1>1, <1>2, <2>1, <2>3
<1>8. QED
  BY <1>6, <1>7 DEF t

\* The next request is sent, and the meter may have no room for it.
LEMMA QueuedMore ==
    ASSUME NEW S, NEW q \in Seq(S), NEW c \in Nat, NEW n \in Nat, c <= n,
           n + 1 \in 1 .. Len(Readings), Readings[n + 1] \in S, Queued(q, c, n)
    PROVE  Queued(q, c, n + 1) /\ Queued(Append(q, Readings[n + 1]), c, n + 1)
<1> DEFINE own(s) == {i \in 1 .. Len(s) : s[i] \notin Elements(Handshake)}
           t == Append(q, Readings[n + 1])
           m == Len(q)
<1>1. PICK turn \in [1 .. m -> 1 .. Len(Readings)] :
            /\ \A i \in own(q) : q[i] = Readings[turn[i]] /\ c < turn[i] /\ turn[i] <= n
            /\ \A i, j \in own(q) : i < j => turn[i] < turn[j]
  BY DEF Queued
<1>2. /\ m \in Nat /\ Len(t) = m + 1 /\ t[m + 1] = Readings[n + 1]
      /\ \A i \in 1 .. m : t[i] = q[i]
  BY Queue
<1>3. \A i \in own(q) : i \in 1 .. m /\ turn[i] \in Nat /\ turn[i] <= n + 1 /\ turn[i] < n + 1
  BY <1>1
<1>4. Queued(q, c, n + 1)
  BY <1>1, <1>3 DEF Queued
<1> DEFINE next == [i \in 1 .. (m + 1) |-> IF i = m + 1 THEN n + 1 ELSE turn[i]]
<1> HIDE DEF t, m
<1>5. next \in [1 .. Len(t) -> 1 .. Len(Readings)]
  BY <1>1, <1>2
<1>6. next[m + 1] = n + 1 /\ \A i \in 1 .. m : next[i] = turn[i]
  BY <1>2
<1> HIDE DEF next
<1>7. \A i \in own(t) : i \in own(q) \/ i = m + 1
  <2> TAKE i \in own(t)
  <2>1. CASE i # m + 1
    <3>1. i \in 1 .. m
      BY <1>2, <2>1
    <3>2. QED
      BY <1>2, <3>1 DEF m
  <2>2. QED
    BY <2>1
<1>8. ASSUME NEW i \in own(t)
      PROVE  t[i] = Readings[next[i]] /\ c < next[i] /\ next[i] <= n + 1
  <2>1. CASE i \in own(q)
    <3>1. i \in 1 .. m
      BY <1>3, <2>1
    <3>2. QED
      BY <1>1, <1>2, <1>3, <1>6, <2>1, <3>1
  <2>2. CASE i = m + 1
    BY <1>2, <1>6, <2>2
  <2>3. QED
    BY <1>7, <2>1, <2>2
<1>9. ASSUME NEW i \in own(t), NEW j \in own(t), i < j PROVE next[i] < next[j]
  <2>1. i \in 1 .. (m + 1) /\ j \in 1 .. (m + 1)
    BY <1>2
  <2>2. i # m + 1
    BY <1>2, <1>9, <2>1
  <2>3. i \in own(q) /\ i \in 1 .. m
    BY <1>3, <1>7, <2>2
  <2>4. CASE j \in own(q)
    <3>1. j \in 1 .. m
      BY <1>3, <2>4
    <3>2. QED
      BY <1>1, <1>6, <1>9, <2>3, <2>4, <3>1
  <2>5. CASE j = m + 1
    BY <1>3, <1>6, <2>3, <2>5
  <2>6. QED
    BY <1>7, <2>4, <2>5
<1>10. QED
  BY <1>4, <1>5, <1>8, <1>9 DEF Queued, t

\* A queue of requests of the handshake.
LEMMA QueuedOwn ==
    ASSUME NEW S, NEW q \in Seq(S), \A i \in 1 .. Len(q) : q[i] \in Elements(Handshake),
           NEW c, NEW n
    PROVE  Queued(q, c, n)
<1>1. [i \in 1 .. Len(q) |-> 1] \in [1 .. Len(q) -> 1 .. Len(Readings)]
  BY ChosenCodes
<1>2. {i \in 1 .. Len(q) : q[i] \notin Elements(Handshake)} = {}
  OBVIOUS
<1>3. QED
  BY <1>1, <1>2, Zenon DEF Queued

\* Nothing is carried by an idle line.
LEMMA CarriesBlank ==
    ASSUME NEW w, \A k \in 1 .. Len(w) : w[k] \in Blank, NEW b, NEW c
    PROVE  Carries(w, b, c)
BY Blanks DEF Carries

\* A text is followed by the end of its frame.
LEMMA TextThenEnd ==
    ASSUME NEW w \in Shapes, w # <<>>, Head(w) \notin Marks
    PROVE  Tail(w) = <<"ETX", "BCC">>
<1>1. CASE w \in {<<"LF">>, <<"/", "LF">>, <<"ACK">>, <<"BCC">>, <<"ETX", "BCC">>}
  <2>1. Head(w) \in {"LF", "/", "ACK", "BCC", "ETX"}
    BY <1>1, Tuples
  <2>2. QED
    BY <2>1 DEF Marks
<1>2. ASSUME NEW x, w \in {<<"STX", x, "ETX", "BCC">>, <<"SOH", "STX", x, "ETX", "BCC">>}
      PROVE  Head(w) \in {"STX", "SOH"}
  <2>1. CASE w = <<"STX", x, "ETX", "BCC">>
    BY <2>1, Tuples
  <2>2. CASE w = <<"SOH", "STX", x, "ETX", "BCC">>
    BY <2>2, Tuples
  <2>3. QED
    BY <1>2, <2>1, <2>2
<1>3. ASSUME NEW x, w = <<x, "ETX", "BCC">> PROVE Tail(w) = <<"ETX", "BCC">>
  BY <1>3, Tuples
<1>4. QED
  BY <1>1, <1>2, <1>3 DEF Shapes, Marks

\* What the meter sends holds no word but the answer.
LEMMA FrameWords ==
    ASSUME NEW q \in Requests
    PROVE  /\ \A k \in 1 .. Len(Frame(q)) : Frame(q)[k] \in Blank \cup {q}
           /\ q \in Elements(Handshake) =>
                \A k \in 1 .. Len(Frame(q)) : Frame(q)[k] \in Blank
<1>1. {"/", "LF", "SOH", "STX", "P0", "ETX", "BCC", "ACK"} \subseteq Blank
  BY DEF Blank, Marks
<1>2. CASE AnswerKind(q) = "ident"
  <2>1. Frame(q) = <<"/", "LF">>
    BY <1>2, Frames
  <2>2. QED
    BY <1>1, <2>1
<1>3. CASE AnswerKind(q) = "option"
  <2>1. Frame(q) = <<"SOH", "STX", "P0", "ETX", "BCC">>
    BY <1>3, Frames
  <2>2. \A k \in 1 .. 5 : k = 1 \/ k = 2 \/ k = 3 \/ k = 4 \/ k = 5
    OBVIOUS
  <2>3. QED
    BY <1>1, <2>1, <2>2
<1>4. CASE AnswerKind(q) = "ack"
  <2>1. Frame(q) = <<"ACK">>
    BY <1>4, Frames
  <2>2. QED
    BY <1>1, <2>1
<1>5. CASE AnswerKind(q) = "data"
  <2>1. Frame(q) = <<"STX", q, "ETX", "BCC">>
    BY <1>5, Frames
  <2>2. \A k \in 1 .. 4 : k = 1 \/ k = 2 \/ k = 3 \/ k = 4
    OBVIOUS
  <2>3. q \notin Elements(Handshake)
    BY <1>5, FixedCodes, AnswerKinds
  <2>4. QED
    BY <1>1, <2>1, <2>2, <2>3
<1>6. QED
  BY <1>2, <1>3, <1>4, <1>5, AnswerKinds

\* Characters that arrive or are spoilt.
LEMMA Remaining ==
    ASSUME NEW w \in Shapes, w # <<>>
    PROVE  /\ Head(w) = w[1] /\ 1 \in 1 .. Len(w)
           /\ \A k \in 1 .. Len(Tail(w)) : Tail(w)[k] = w[k + 1] /\ k + 1 \in 1 .. Len(w)
           /\ \A x : LET v == [w EXCEPT ![1] = x] IN
                  \A k \in 1 .. Len(v) : v[k] = x \/ (k \in 1 .. Len(w) /\ v[k] = w[k])
<1>1. w \in Seq(Marks \cup Values \cup {"open"})
  BY ShapesAreLines
<1>2. /\ Head(w) = w[1] /\ 1 \in 1 .. Len(w)
      /\ \A k \in 1 .. Len(Tail(w)) : Tail(w)[k] = w[k + 1] /\ k + 1 \in 1 .. Len(w)
  <2>1. /\ Len(w) \in Nat /\ Len(w) > 0 /\ Head(w) = w[1] /\ Len(Tail(w)) = Len(w) - 1
        /\ \A k \in 1 .. Len(Tail(w)) : Tail(w)[k] = w[k + 1]
    BY <1>1, HeadTailProperties
  <2>2. QED
    BY <2>1
<1>3. ASSUME NEW x
      PROVE  LET v == [w EXCEPT ![1] = x] IN
             \A k \in 1 .. Len(v) : v[k] = x \/ (k \in 1 .. Len(w) /\ v[k] = w[k])
  <2> DEFINE v == [w EXCEPT ![1] = x]
  <2>1. Len(v) = Len(w) /\ DOMAIN w = 1 .. Len(w)
    BY <1>1, LenProperties
  <2>2. QED
    BY <1>1, <2>1
<1>4. QED
  BY <1>2, <1>3

LEMMA Least ==
    ASSUME Typed
    PROVE  /\ task \in Kinds /\ wire \in Shapes /\ rx.text \in Values \cup {"none"}
           /\ rx \in Receivers /\ old \in Nat /\ at \in Nat
           /\ todo \in Seq(Requests) /\ Len(todo) \in Nat /\ reply \in Seq(Replies)
           /\ Len(Readings) \in Nat
           /\ task \in {"freeze", "direct"} => at <= 3 + Len(Readings)
<1>1. task \in Kinds /\ todo \in Seq(Requests) /\ reply \in Seq(Replies)
  BY TaskKinds DEF Typed, TypeOK, Requests, Replies
<1>2. Len(todo) \in Nat
  BY <1>1, LenProperties
<1>3. at \in 0 .. Len(Dialogue(task)) /\ Len(Dialogue(task)) = 3 + Len(Script(task))
  BY <1>1, Dialogues DEF Typed, TypeOK
<1>4. task \in {"freeze", "direct"} => Script(task) = Readings
  BY DEF Script
<1>5. QED
  BY <1>1, <1>2, <1>3, <1>4, ChosenCodes, Scripts DEF Typed, TypeOK, Receivers

(***************************************************************************)
(* The handshake.                                                          *)
(***************************************************************************)
\* A request of the handshake is sent.
LEMMA OwnAsked ==
    ASSUME Typed, NEW t \in Kinds, NEW i \in 1 .. 3, Request(t, i), reply' = <<>>,
           \A k \in 1 .. Len(todo) : k > Stale' => todo[k] \in Elements(Handshake),
           old' = 0 => \A k \in 1 .. Len(wire') : wire'[k] \in Blank
    PROVE  Own'
<1>1. Dialogue(t)[i] \in Elements(Handshake) /\ Dialogue(t)[i] \in Requests
  BY Dialogues, FixedCodes DEF Requests
<1>2. todo \in Seq(Requests) /\ Len(todo) \in Nat
  BY Least
<1>3. /\ Len(Append(todo, Dialogue(t)[i])) = Len(todo) + 1
      /\ Append(todo, Dialogue(t)[i])[Len(todo) + 1] = Dialogue(t)[i]
      /\ \A k \in 1 .. Len(todo) : Append(todo, Dialogue(t)[i])[k] = todo[k]
  BY <1>1, <1>2, Queue
<1>4. todo' = todo \/ todo' = Append(todo, Dialogue(t)[i])
  BY DEF Request
<1>5. ASSUME NEW k \in 1 .. Len(todo'), k > Stale' PROVE todo'[k] \in Elements(Handshake)
  <2>1. CASE todo' = todo
    BY <1>5, <2>1
  <2>2. CASE todo' = Append(todo, Dialogue(t)[i])
    <3>1. k \in 1 .. Len(todo) \/ k = Len(todo) + 1
      BY <1>2, <1>3, <2>2
    <3>2. QED
      BY <1>1, <1>3, <1>5, <2>2, <3>1
  <2>3. QED
    BY <1>4, <2>1, <2>2
<1>6. QED
  BY <1>5 DEF Own

\* A session is begun or reset.
LEMMA OwnBegin ==
    ASSUME Typed, Reset \/ \E t \in Tasks \cup {"para", "clock"} : Begin(t)
    PROVE  Own'
<1>1. CASE Reset
  BY <1>1 DEF Reset, Own
<1>2. ASSUME NEW t \in Tasks \cup {"para", "clock"}, Begin(t) PROVE Own'
  <2>1. /\ t \in Kinds /\ Request(t, 1) /\ reply' = <<>> /\ wire' = wire
        /\ old' = Len(todo) + (IF wire = <<>> THEN 0 ELSE 1)
    BY <1>2, Bounds DEF Begin, Kinds
  <2>2. Len(todo) \in Nat
    BY Least
  <2>3. Stale' = Len(todo)
    BY <2>1, <2>2 DEF Stale
  <2>4. old' = 0 => wire' = <<>>
    BY <2>1, <2>2
  <2>5. \A k \in 1 .. Len(todo) : ~(k > Len(todo))
    BY <2>2
  <2>6. QED
    BY <2>1, <2>3, <2>4, <2>5, Short, OwnAsked
<1>3. QED
  BY <1>1, <1>2

\* An answer is seen, or the polls are over.
LEMMA OwnMain == ASSUME Typed, Own, Seen \/ TimeOut PROVE Own'
<1>1. /\ task \in Kinds /\ at \in Nat /\ at > 0 /\ at <= Len(Dialogue(task))
      /\ Len(Dialogue(task)) > 3 /\ Len(Dialogue(task)) \in Nat
      /\ UNCHANGED <<wire, old>> /\ Stale' = Stale
  <2>1. UNCHANGED <<wire, old>> /\ at > 0
    BY DEF Seen, TimeOut
  <2>2. QED
    BY <2>1, Least, Dialogues DEF Typed, TypeOK, Stale
<1>2. ASSUME at \in 1 .. 3, NEW i \in 1 .. 3, Request(task, i), reply' = reply PROVE Own'
  <2>1. /\ reply' = <<>> /\ \A k \in 1 .. Len(todo) : k > Stale' => todo[k] \in Elements(Handshake)
        /\ old' = 0 => \A k \in 1 .. Len(wire') : wire'[k] \in Blank
    BY <1>1, <1>2 DEF Own
  <2>2. QED
    BY <1>1, <1>2, <2>1, OwnAsked
<1>3. ASSUME at' = 0 \/ at' > 3 PROVE Own'
  BY <1>3 DEF Own
<1>4. CASE at > 3
  <2>1. at' = 0 \/ at' > 3
    <3>1. Leave \/ Advance
      <4>1. Seen => Advance
        BY DEF Seen
      <4>2. TimeOut => \/ at = 1 \/ at \in 2 .. Len(Handshake)
                       \/ Leave \/ Advance
        BY Zenon DEF TimeOut
      <4>3. QED
        BY <1>4, <4>1, <4>2, Bounds
    <3>2. QED
      BY <1>1, <1>4, <3>1, Advancing DEF Leave
  <2>2. QED
    BY <1>3, <2>1
<1>5. CASE Seen /\ at <= 3
  <2>1. Advance /\ reply' = reply
    BY <1>5, Bounds DEF Seen
  <2>2. Request(task, at + 1) /\ at' = at + 1
    BY <1>1, <1>5, <2>1 DEF Advance, Request
  <2>3. CASE at = 3
    BY <1>3, <2>2, <2>3
  <2>4. CASE at # 3
    <3>1. at \in 1 .. 3 /\ at + 1 \in 1 .. 3
      BY <1>1, <1>5, <2>4
    <3>2. QED
      BY <1>2, <2>1, <2>2, <3>1
  <2>5. QED
    BY <2>3, <2>4
<1>6. CASE TimeOut /\ at <= 3
  <2>1. \/ at = 1 /\ Request(task, 1) /\ reply' = reply
        \/ Leave \/ Request(task, 4)
    <3>1. \/ at = 1 /\ Request(task, 1) /\ reply' = reply
          \/ Leave \/ Request(task, Len(Handshake) + 1)
          \/ at > Len(Handshake)
      BY <1>6, Zenon DEF TimeOut
    <3>2. QED
      BY <1>1, <1>6, <3>1, Bounds
  <2>2. Leave => at' = 0
    BY DEF Leave
  <2>3. Request(task, 4) => at' = 4
    BY DEF Request
  <2>4. QED
    BY <1>2, <1>3, <2>1, <2>2, <2>3
<1>7. QED
  BY <1>1, <1>4, <1>5, <1>6

\* A character is received or spoilt.
LEMMA OwnLine == ASSUME Typed, Own, Receive \/ Disturb PROVE Own'
<1>1. /\ UNCHANGED <<at, reply, todo>> /\ wire # <<>> /\ wire \in Shapes /\ old \in Nat
      /\ old' = IF wire' = <<>> /\ old > 0 THEN old - 1 ELSE old
  BY Least DEF Receive, Disturb, loop
<1>2. \/ wire' = Tail(wire) \/ wire' = <<>>
      \/ \E x \in {"bad", "open"} : wire' = [wire EXCEPT ![1] = x]
  BY DEF Receive, Disturb
<1>3. Stale' = Stale
  BY <1>1 DEF Stale
<1>4. ASSUME old' = 0, at \in 1 .. 3, NEW k \in 1 .. Len(wire') PROVE wire'[k] \in Blank
  <2>1. wire' # <<>>
    BY <1>4, Short
  <2>2. old = 0
    BY <1>1, <1>4, <2>1
  <2>3. \A j \in 1 .. Len(wire) : wire[j] \in Blank
    BY <1>4, <2>2 DEF Own
  <2>4. CASE wire' = Tail(wire)
    BY <1>1, <1>4, <2>3, <2>4, Remaining
  <2>5. ASSUME NEW x \in {"bad", "open"}, wire' = [wire EXCEPT ![1] = x]
        PROVE  wire'[k] \in Blank
    <3>1. wire'[k] = x \/ (k \in 1 .. Len(wire) /\ wire'[k] = wire[k])
      BY <1>1, <1>4, <2>5, Remaining
    <3>2. QED
      BY <2>3, <2>5, <3>1, Blanks
  <2>6. QED
    BY <1>2, <2>1, <2>4, <2>5
<1>5. QED
  BY <1>1, <1>3, <1>4 DEF Own

\* The meter answers or does not.
LEMMA OwnMeter == ASSUME Typed, Own, Answer \/ Ignore PROVE Own'
<1>1. /\ UNCHANGED <<at, reply>> /\ todo # <<>> /\ todo' = Tail(todo) /\ old \in Nat
      /\ todo \in Seq(Requests) /\ Len(todo) \in Nat
  BY Least DEF Answer, Ignore, loop
<1>2. /\ Len(todo) > 0 /\ Len(todo') = Len(todo) - 1 /\ Head(todo) = todo[1]
      /\ Head(todo) \in Requests
      /\ \A k \in 1 .. Len(todo') : todo'[k] = todo[k + 1] /\ k + 1 \in 1 .. Len(todo)
  <2>1. /\ Len(todo) > 0 /\ Len(todo') = Len(todo) - 1 /\ Head(todo) = todo[1]
        /\ Head(todo) \in Requests
        /\ \A k \in 1 .. Len(todo') : todo'[k] = todo[k + 1]
    BY <1>1, Queue
  <2>2. QED
    BY <1>1, <2>1
<1>3. CASE Answer
  <2>1. wire = <<>> /\ wire' = Frame(Head(todo)) /\ old' = old /\ wire' # <<>>
    <3>1. wire = <<>> /\ wire' = Frame(Head(todo)) /\ old' = old
      BY <1>3 DEF Answer
    <3>2. QED
      BY <1>2, <3>1, Frames
  <2>2. Stale = old /\ Stale' = IF old = 0 THEN 0 ELSE old - 1
    BY <2>1 DEF Stale
  <2>3. ASSUME at \in 1 .. 3, NEW k \in 1 .. Len(todo'), k > Stale'
        PROVE  todo'[k] \in Elements(Handshake)
    <3>1. k + 1 > Stale
      BY <1>1, <2>2, <2>3
    <3>2. QED
      BY <1>2, <2>3, <3>1 DEF Own
  <2>4. ASSUME at \in 1 .. 3, old' = 0, NEW k \in 1 .. Len(wire') PROVE wire'[k] \in Blank
    <3>1. 1 > Stale /\ 1 \in 1 .. Len(todo)
      BY <1>1, <1>2, <2>1, <2>2, <2>4
    <3>2. Head(todo) \in Elements(Handshake)
      BY <1>2, <2>4, <3>1 DEF Own
    <3>3. QED
      BY <1>2, <2>1, <2>4, <3>2, FrameWords
  <2>5. QED
    BY <1>1, <2>3, <2>4 DEF Own
<1>4. CASE Ignore
  <2>1. /\ wire' = wire
        /\ old' = IF old > (IF wire = <<>> THEN 0 ELSE 1) THEN old - 1 ELSE old
    BY <1>4 DEF Ignore
  <2>2. Stale' >= Stale - 1 /\ Stale \in Int /\ Stale' \in Int /\ Stale' >= 0
    BY <1>1, <2>1 DEF Stale
  <2>3. ASSUME at \in 1 .. 3, NEW k \in 1 .. Len(todo'), k > Stale'
        PROVE  todo'[k] \in Elements(Handshake)
    <3>1. k + 1 > Stale
      BY <2>2, <2>3
    <3>2. QED
      BY <1>2, <2>3, <3>1 DEF Own
  <2>4. old' = 0 => old = 0 \/ wire' = <<>>
    BY <1>1, <2>1
  <2>5. ASSUME at \in 1 .. 3, old' = 0, NEW k \in 1 .. Len(wire') PROVE wire'[k] \in Blank
    BY <2>1, <2>4, <2>5, Short DEF Own
  <2>6. QED
    BY <1>1, <2>3, <2>5 DEF Own
<1>5. QED
  BY <1>3, <1>4

(***************************************************************************)
(* The answers to come.                                                    *)
(***************************************************************************)
\* What is in order so far is in order at the end.
LEMMA ComingTaken ==
    ASSUME Typed, task \in {"freeze", "direct"}, at > 3,
           NEW r, NEW v, NEW w, NEW q, Coming(r, v, w, q, at - 3)
    PROVE  Taken(r, Len(Readings))
<1>1. at \in Nat /\ at <= 3 + Len(Readings) /\ Len(Readings) \in Nat
  BY Least
<1>2. PICK a \in 0 .. (at - 3) : Taken(r, a)
  BY DEF Coming
<1>3. a \in Nat /\ a <= Len(Readings)
  BY <1>1, <1>2
<1>4. QED
  BY <1>1, <1>2, <1>3, TakenMore

\* The next value is asked for.
LEMMA Sending ==
    ASSUME Typed, task \in {"freeze", "direct"}, NEW n \in Nat,
           n + 4 \in 1 .. Len(Dialogue(task)), Request(task, n + 4), wire' = wire,
           NEW r, Coming(r, "none", wire, todo, n)
    PROVE  at' = n + 4 /\ Coming(r, rx'.text, wire', todo', at' - 3)
<1>1. task \in Kinds /\ TypeOK /\ todo \in Seq(Requests)
  BY Least DEF Typed
<1>2. at' = n + 4 /\ rx'.text = "none" /\ at' - 3 = n + 1
  BY <1>1, Requesting
<1>3. Script(task) = Readings
  BY DEF Script
<1>4. /\ Len(Dialogue(task)) = 3 + Len(Readings) /\ Len(Readings) \in Nat
      /\ n + 4 \in 4 .. Len(Dialogue(task))
      /\ Dialogue(task)[n + 4] \in Requests
      /\ Dialogue(task)[n + 4] = Script(task)[(n + 4) - 3]
  BY <1>1, <1>3, Dialogues, ChosenCodes
<1>5. /\ n + 1 \in 1 .. Len(Readings) /\ Dialogue(task)[n + 4] = Readings[n + 1]
      /\ Readings[n + 1] \in Requests
  BY <1>3, <1>4
<1>6. todo' = todo \/ todo' = Append(todo, Readings[n + 1])
  BY <1>5 DEF Request
<1>7. PICK a, b, c \in 0 .. n : /\ a <= b /\ b <= c
                                /\ Taken(r, a) /\ Carries(wire, b, c) /\ Queued(todo, c, n)
  BY DEF Coming
<1>8. Queued(todo', c, n + 1)
  <2>1. c \in Nat /\ c <= n
    BY <1>7
  <2>2. QED
    BY <1>1, <1>5, <1>6, <1>7, <2>1, QueuedMore
<1>9. a \in 0 .. (n + 1) /\ b \in 0 .. (n + 1) /\ c \in 0 .. (n + 1)
  BY <1>7
<1>10. OneOf(rx'.text, a, b) /\ Carries(wire', b, c)
  BY <1>2, <1>7, Blanks
<1>11. QED
  BY <1>2, <1>7, <1>8, <1>9, <1>10 DEF Coming

\* The caller takes the value or does without.
LEMMA ServedInOrder ==
    ASSUME Typed, Fresh, Ordered, at > 3, NEW got \in BOOLEAN, got => Parsed,
           Store(Dialogue(task)[at], got)
    PROVE  Coming(reply', "none", wire, todo, at - 3)
<1>1. task \in {"freeze", "direct"} /\ Coming(reply, rx.text, wire, todo, at - 3)
  BY DEF Fresh, Ordered
<1>2. PICK a, b, c \in 0 .. (at - 3) :
          /\ a <= b /\ b <= c /\ Taken(reply, a) /\ OneOf(rx.text, a, b)
          /\ Carries(wire, b, c) /\ Queued(todo, c, at - 3)
  BY <1>1 DEF Coming
<1>3. OneOf("none", a, b) /\ OneOf("none", b, b)
  BY Blanks
<1>4. reply' = IF got THEN Append(reply, [code |-> Dialogue(task)[at], value |-> rx.text])
               ELSE reply
  BY <1>1 DEF Store
<1>5. CASE ~got
  BY <1>2, <1>3, <1>4, <1>5 DEF Coming
<1>6. CASE got
  <2> DEFINE x == [code |-> Dialogue(task)[at], value |-> rx.text]
  <2>1. rx.text \in Values /\ reply \in Seq(Replies) /\ at \in Nat /\ a \in Nat /\ b \in Nat
    BY <1>2, <1>6, Least DEF Parsed
  <2>2. Dialogue(task)[at] \in Elements(Readings)
    <3>1. at \in 4 .. Len(Dialogue(task)) /\ task \in Kinds
      BY <1>1, DataCode, Least
    <3>2. QED
      BY <1>1, <3>1, Dialogues, Scripts
  <2>3. x \in Replies /\ x.value = rx.text
    BY <2>1, <2>2 DEF Replies
  <2>4. reply' = Append(reply, x)
    BY <1>4, <1>6
  <2> HIDE DEF x
  <2>5. Taken(reply', b)
    BY <1>2, <2>1, <2>3, <2>4, TakenValue
  <2>6. b <= b
    BY <2>1
  <2>7. QED
    BY <1>2, <1>3, <2>5, <2>6 DEF Coming
<1>7. QED
  BY <1>5, <1>6

\* The next value is asked for, or the session ends.
LEMMA OrderedAdvance ==
    ASSUME Typed, Fresh, Ordered, at > 3, NEW got \in BOOLEAN, got => Parsed,
           Store(Dialogue(task)[at], got), Advance \/ Leave,
           UNCHANGED <<task, wire>>
    PROVE  Ordered'
<1>1. Coming(reply', "none", wire, todo, at - 3)
  BY ServedInOrder
<1>2. task \in {"freeze", "direct"} /\ at \in Nat
  BY Least DEF Fresh
<1>3. Taken(reply', Len(Readings))
  BY <1>1, <1>2, ComingTaken
<1>4. CASE at' = 0
  BY <1>3, <1>4 DEF Ordered
<1>5. CASE at < Len(Dialogue(task)) /\ Request(task, at + 1)
  <2> DEFINE n == at - 3
  <2>1. n \in Nat /\ n + 4 = at + 1 /\ n + 4 \in 1 .. Len(Dialogue(task))
    <3>1. Len(Dialogue(task)) \in Nat
      BY Least, Dialogues
    <3>2. QED
      BY <1>2, <1>5, <3>1
  <2>2. Coming(reply', rx'.text, wire', todo', at' - 3)
    BY <1>1, <1>2, <1>5, <2>1, Sending
  <2>3. QED
    BY <1>3, <2>2 DEF Ordered
<1>6. QED
  <2>1. Leave => at' = 0
    BY DEF Leave
  <2>2. QED
    BY <1>4, <1>5, <2>1 DEF Advance

\* An answer is seen: with the third the session is signed in.
LEMMA OrderedSeen == ASSUME Typed, Own, Ordered, FreshSession', Seen PROVE Ordered'
<1>1. /\ UNCHANGED <<task, wire, old, mistaken>> /\ Advance /\ at > 0 /\ rx.done
      /\ (signed' => signed \/ at = 3)
  BY Bounds DEF Seen
<1>2. task \in Kinds /\ at \in Nat /\ at <= Len(Dialogue(task)) /\ Len(Dialogue(task)) \in Nat
      /\ Len(Dialogue(task)) > 3
  BY Least, Dialogues DEF Typed, TypeOK
<1> SUFFICES ASSUME Fresh' PROVE Ordered'
  BY DEF Ordered
<1>3. task \in {"freeze", "direct"} /\ ~mistaken /\ Pending <= 2
  BY <1>1 DEF Fresh
<1>4. CASE at > 3
  <2>1. Fresh
    BY <1>1, <1>3, <1>4 DEF Fresh
  <2>2. Store(Dialogue(task)[at], Parsed)
    <3>1. Store(Dialogue(task)[at], task = "write" \/ Parsed)
      BY <1>2, <1>4, Bounds DEF Seen
    <3>2. (task = "write" \/ Parsed) = Parsed
      BY <1>3 DEF Parsed
    <3>3. QED
      BY <3>1, <3>2
  <2>3. Parsed \in BOOLEAN
    BY DEF Parsed
  <2>4. QED
    BY <1>1, <1>4, <2>1, <2>2, <2>3, OrderedAdvance
<1>5. CASE at = 3
  <2>1. reply' = reply /\ reply = <<>>
    BY <1>5, Bounds DEF Seen, Own
  <2>2. Request(task, 4) /\ 4 \in 1 .. Len(Dialogue(task)) /\ at' = 4
    BY <1>1, <1>2, <1>5 DEF Advance, Request
  <2>3. old = 0
    <3>1. old' = 0 \/ old' <= Pending - 2
      BY <2>2, Bounds DEF FreshSession, Fresh
    <3>2. QED
      BY <1>1, <1>3, <3>1, Least, Bounds
  <2>4. /\ \A i \in 1 .. Len(todo) : todo[i] \in Elements(Handshake)
        /\ \A k \in 1 .. Len(wire) : wire[k] \in Blank
    BY <1>5, <2>3 DEF Own, Stale
  <2>5. Queued(todo, 0, 0) /\ Carries(wire, 0, 0) /\ OneOf("none", 0, 0)
    BY <2>4, Least, QueuedOwn, CarriesBlank, Blanks
  <2>6. \A n : Taken(<<>>, n)
    BY TakenNothing
  <2>7. Coming(reply', "none", wire, todo, 0)
    BY <2>1, <2>5, <2>6 DEF Coming
  <2>8. Coming(reply', rx'.text, wire', todo', at' - 3)
    <3>1. 0 \in Nat /\ 0 + 4 = 4
      OBVIOUS
    <3>2. QED
      BY <1>1, <1>3, <2>2, <2>7, <3>1, Sending
  <2>9. QED
    BY <2>1, <2>6, <2>8 DEF Ordered
<1>6. CASE at < 3
  <2>1. reply' = <<>> /\ at' = at + 1
    BY <1>1, <1>2, <1>6, Bounds DEF Seen, Own, Advance, Request
  <2>2. Taken(<<>>, Len(Readings))
    BY TakenNothing
  <2>3. QED
    BY <1>2, <1>6, <2>1, <2>2 DEF Ordered
<1>7. QED
  BY <1>2, <1>4, <1>5, <1>6

\* The polls are over.
LEMMA OrderedTimeOut == ASSUME Typed, Aged, Ordered, TimeOut PROVE Ordered'
<1> SUFFICES ASSUME Fresh' PROVE Ordered'
  BY DEF Ordered
<1>1. UNCHANGED <<task, wire, signed, mistaken>> /\ at > 0 /\ at \in Nat
  BY Least DEF TimeOut
<1>2. Fresh
  BY <1>1 DEF Fresh
<1>3. at > 3
  BY <1>1, <1>2 DEF Aged, Fresh
<1>4. \/ at = 1 \/ at \in 2 .. Len(Handshake)
      \/ Advance /\ Store(Dialogue(task)[at], FALSE)
      \/ task = "clock"
  BY Zenon DEF TimeOut
<1>5. Advance /\ Store(Dialogue(task)[at], FALSE)
  <2>1. at # 1 /\ at \notin 2 .. Len(Handshake)
    BY <1>1, <1>3, Bounds
  <2>2. task # "clock"
    BY <1>2 DEF Fresh
  <2>3. QED
    BY <1>4, <2>1, <2>2
<1>6. QED
  BY <1>1, <1>2, <1>3, <1>5, OrderedAdvance

\* A character is received: a text may become the one check_buffer() will find.
LEMMA OrderedReceive == ASSUME Typed, Ordered, Receive PROVE Ordered'
<1> SUFFICES ASSUME Fresh' PROVE Ordered'
  BY DEF Ordered
<1>1. /\ UNCHANGED <<task, at, reply, todo, signed>> /\ (mistaken => mistaken')
      /\ wire # <<>> /\ wire \in Shapes /\ wire' = Tail(wire) /\ at \in Nat
      /\ rx \in Receivers
  <2>1. mistaken => mistaken'
    BY DEF Receive
  <2>2. UNCHANGED <<task, at, reply, todo, signed>> /\ wire # <<>> /\ wire' = Tail(wire)
    BY DEF Receive, loop
  <2>3. QED
    BY <2>1, <2>2, Least
<1>2. Fresh
  BY <1>1 DEF Fresh
<1>3. Taken(reply', Len(Readings))
  BY <1>1, <1>2 DEF Ordered
<1>4. ASSUME at > 3 PROVE Coming(reply, rx'.text, wire', todo, at - 3)
  <2>1. PICK a, b, c \in 0 .. (at - 3) :
            /\ a <= b /\ b <= c /\ Taken(reply, a) /\ OneOf(rx.text, a, b)
            /\ Carries(wire, b, c) /\ Queued(todo, c, at - 3)
    BY <1>2, <1>4 DEF Ordered, Coming
  <2>2. /\ OneOf(Head(wire), b, c)
        /\ \A k \in 1 .. Len(Tail(wire)) : OneOf(Tail(wire)[k], b, c)
    BY <1>1, <2>1, Remaining DEF Carries
  <2>3. \/ rx'.text = rx.text
        \/ rx'.text = Head(wire) /\ Head(wire) \notin Marks
    <3>1. /\ Opened.text = rx.text /\ Closed.text = rx.text
          /\ \/ Stored(Head(wire)).text = rx.text
             \/ Stored(Head(wire)).text = Head(wire) /\ Head(wire) \notin Marks
      BY <1>1 DEF Opened, Closed, Stored, Receivers
    <3>2. rx' \in {Opened, rx, Closed, Stored(Head(wire))}
      BY DEF Receive
    <3>3. QED
      BY <3>1, <3>2
  <2>4. CASE rx'.text = rx.text
    BY <1>1, <2>1, <2>2, <2>4 DEF Coming, Carries
  <2>5. CASE rx'.text = Head(wire) /\ Head(wire) \notin Marks
    <3>1. wire' = <<"ETX", "BCC">>
      BY <1>1, <2>5, TextThenEnd
    <3>2. \A k \in 1 .. Len(wire') : wire'[k] \in Blank
      BY <3>1, Blanks DEF Marks
    <3>3. Carries(wire', c, c)
      BY <3>2, CarriesBlank
    <3>4. OneOf(rx'.text, a, c)
      BY <2>1, <2>2, <2>5, Wider
    <3>5. a <= c /\ c <= c
      BY <2>1
    <3>6. QED
      BY <2>1, <3>3, <3>4, <3>5 DEF Coming
  <2>6. QED
    BY <2>3, <2>4, <2>5
<1>5. QED
  BY <1>1, <1>3, <1>4 DEF Ordered

\* The meter answers or does not, or the line is disturbed.
LEMMA OrderedMeter == ASSUME Typed, Ordered, Answer \/ Ignore \/ Disturb PROVE Ordered'
<1> SUFFICES ASSUME Fresh' PROVE Ordered'
  BY DEF Ordered
<1>1. /\ UNCHANGED <<task, at, reply, rx, signed, mistaken>> /\ at \in Nat
      /\ todo \in Seq(Requests) /\ wire \in Shapes
  BY Least DEF Answer, Ignore, Disturb, loop
<1>2. Fresh
  BY <1>1 DEF Fresh
<1>3. Taken(reply', Len(Readings))
  BY <1>1, <1>2 DEF Ordered
<1>4. ASSUME at > 3 PROVE Coming(reply, rx.text, wire', todo', at - 3)
  <2> DEFINE n == at - 3
  <2>1. PICK a, b, c \in 0 .. n :
            /\ a <= b /\ b <= c /\ Taken(reply, a) /\ OneOf(rx.text, a, b)
            /\ Carries(wire, b, c) /\ Queued(todo, c, n)
    BY <1>2, <1>4 DEF Ordered, Coming
  <2>2. n \in Nat /\ a \in Nat /\ b \in Nat /\ c \in Nat
    BY <1>1, <1>4, <2>1
  <2> HIDE DEF n
  <2>3. CASE Answer
    <3>1. wire' = Frame(Head(todo)) /\ todo' = Tail(todo) /\ todo # <<>>
      BY <2>3 DEF Answer
    <3>2. Head(todo) \in Requests
      BY <1>1, <3>1, Queue
    <3>3. /\ Queued(todo', c, n)
          /\ \/ Head(todo) \in Elements(Handshake)
             \/ \E p \in 1 .. Len(Readings) :
                   Readings[p] = Head(todo) /\ c < p /\ p <= n /\ Queued(todo', p, n)
      BY <1>1, <2>1, <2>2, <3>1, QueuedTail
    <3>4. CASE Head(todo) \in Elements(Handshake)
      <4>1. Carries(wire', b, c)
        BY <3>1, <3>2, <3>4, FrameWords, CarriesBlank
      <4>2. QED
        BY <2>1, <3>3, <4>1 DEF Coming, n
    <3>5. ASSUME NEW p \in 1 .. Len(Readings), Readings[p] = Head(todo), c < p, p <= n,
                 Queued(todo', p, n)
          PROVE  Coming(reply, rx.text, wire', todo', n)
      <4>1. p \in 0 .. n /\ b <= p /\ b < p /\ p <= p
        BY <2>1, <2>2, <3>5
      <4>2. OneOf(Head(todo), b, p)
        BY <3>5, <4>1 DEF OneOf
      <4>3. \A k \in 1 .. Len(wire') : wire'[k] \in Blank \cup {Head(todo)}
        BY <3>1, <3>2, FrameWords
      <4>4. Carries(wire', b, p)
        BY <4>2, <4>3, Blanks DEF Carries
      <4>5. QED
        BY <2>1, <3>5, <4>1, <4>4 DEF Coming
    <3>6. QED
      BY <3>3, <3>4, <3>5 DEF n
  <2>4. CASE Ignore
    <3>1. wire' = wire /\ todo' = Tail(todo) /\ todo # <<>>
      BY <2>4 DEF Ignore
    <3>2. Queued(todo', c, n)
      BY <1>1, <2>1, <2>2, <3>1, QueuedTail
    <3>3. QED
      BY <2>1, <3>1, <3>2 DEF Coming, n
  <2>5. CASE Disturb
    <3>1. /\ todo' = todo /\ wire # <<>>
          /\ \/ wire' = Tail(wire) \/ wire' = <<>>
             \/ \E x \in {"bad", "open"} : wire' = [wire EXCEPT ![1] = x]
      BY <2>5 DEF Disturb
    <3>2. CASE wire' = Tail(wire)
      <4>1. Carries(wire', b, c)
        BY <1>1, <2>1, <3>1, <3>2, Remaining DEF Carries
      <4>2. QED
        BY <2>1, <3>1, <4>1 DEF Coming, n
    <3>3. CASE wire' = <<>>
      <4>1. Carries(wire', b, c)
        BY <3>3, Short DEF Carries
      <4>2. QED
        BY <2>1, <3>1, <4>1 DEF Coming, n
    <3>4. ASSUME NEW x \in {"bad", "open"}, wire' = [wire EXCEPT ![1] = x]
          PROVE  Coming(reply, rx.text, wire', todo', n)
      <4>1. \A k \in 1 .. Len(wire') : wire'[k] = x \/ (k \in 1 .. Len(wire) /\ wire'[k] = wire[k])
        BY <1>1, <3>1, <3>4, Remaining
      <4>2. OneOf(x, b, c)
        BY <3>4, Blanks
      <4>3. Carries(wire', b, c)
        BY <2>1, <4>1, <4>2 DEF Carries
      <4>4. QED
        BY <2>1, <3>1, <4>3 DEF Coming
    <3>5. QED
      BY <3>1, <3>2, <3>3, <3>4 DEF n
  <2>6. QED
    BY <2>3, <2>4, <2>5
<1>5. QED
  BY <1>1, <1>3, <1>4 DEF Ordered

\* After a handshake that shut out the answers of earlier sessions, each answer is
\* used at most once and in order, however late the meter sends them and whichever
\* it drops.
THEOREM AnswersInOrder == Spec => []UsedInOrder
<1> DEFINE IInv == Typed /\ Aged /\ Own /\ Ordered
<1>1. Init => IInv
  <2>1. Init => at = 0 /\ ~signed
    BY DEF Init
  <2>2. QED
    BY <2>1, TypedInit DEF Aged, Own, Ordered, Fresh
<1>2. IInv /\ [Next]_vars => IInv'
  <2> SUFFICES ASSUME IInv, [Next]_vars PROVE IInv'
    OBVIOUS
  <2>1. Typed' /\ Aged'
    <3>1. CASE UNCHANGED vars
      BY <3>1, TypedStep DEF vars, Aged, Spent, Shut
    <3>2. QED
      BY <3>1, TypedStep, AgedBegin, AgedSeen, AgedTimeOut, AgedReceive, AgedMeter DEF Next, Main
  <2>2. FreshSession'
    BY <2>1, Bounds DEF Aged, Shut, FreshSession
  <2>3. Own'
    <3>1. CASE UNCHANGED vars
      BY <3>1 DEF vars, Own, Stale
    <3>2. QED
      BY <3>1, OwnBegin, OwnMain, OwnLine, OwnMeter DEF Next, Main
  <2>4. Ordered'
    <3>1. CASE UNCHANGED vars
      BY <3>1 DEF vars, Ordered, Fresh
    <3>2. CASE Reset \/ \E t \in Tasks \cup {"para", "clock"} : Begin(t)
      <4>1. ~signed'
        BY <3>2 DEF Reset, Begin
      <4>2. QED
        BY <4>1 DEF Ordered, Fresh
    <3>3. QED
      BY <2>2, <3>1, <3>2, OrderedSeen, OrderedTimeOut, OrderedReceive, OrderedMeter DEF Next, Main
  <2>5. QED
    BY <2>1, <2>3, <2>4
<1>3. IInv => UsedInOrder
  <2> SUFFICES ASSUME Ordered, Fresh PROVE UsedInOrder
    BY DEF UsedInOrder, Fresh
  <2>1. Taken(reply, Len(Readings))
    BY DEF Ordered
  <2>2. QED
    BY <2>1, Zenon DEF Taken, UsedInOrder
<1>4. QED
  BY <1>1, <1>2, <1>3, PTL DEF Spec

(***************************************************************************)
(* The turns of a session.                                                 *)
(***************************************************************************)
\* Inside a session the turns are natural numbers.
LEMMA Numbers ==
    ASSUME Typed
    PROVE  /\ task \in Kinds /\ at \in Nat /\ wdt \in Nat /\ wdt <= DogSeconds
           /\ Len(Dialogue(task)) \in Nat /\ at <= Len(Dialogue(task))
           /\ DogSeconds \in Nat /\ Len(Handshake) = 3
<1>1. task \in Kinds /\ at \in 0 .. Len(Dialogue(task)) /\ wdt \in 0 .. DogSeconds
  BY TaskKinds DEF Typed, TypeOK
<1>2. QED
  BY <1>1, Dialogues, Bounds

\* An answer that is seen leads to the next request and feeds nobody.
LEMMA TurnSeen ==
    ASSUME Typed, Seen, at' > 0
    PROVE  TurnsLeft' <= TurnsLeft /\ TurnsLeft' < TurnsLeft
<1>1. at > 0 /\ Advance /\ task' = task /\ wdt' = wdt
  BY DEF Seen
<1>2. at' = at + 1
  BY <1>1, Advancing
<1>3. Dialogue(task)' = Dialogue(task)
  BY <1>1
<1>4. QED
  BY <1>1, <1>2, <1>3, Numbers DEF TurnsLeft

\* A time-out goes back to no request but the first, and to that one only while
\* the watchdog comes nearer.
LEMMA TurnTimeOut ==
    ASSUME Typed, TimeOut, at' > 0
    PROVE  TurnsLeft' <= TurnsLeft /\ TurnsLeft' < TurnsLeft
<1>1. /\ at > 0 /\ task' = task /\ wdt < DogSeconds /\ wdt' = Waited
  BY DEF TimeOut
<1>2. wdt' \in Nat /\ wdt' > wdt /\ wdt' <= DogSeconds
  BY <1>1, Numbers DEF Waited
<1>3. at' >= at
  <2>1. CASE Advance
    BY <1>1, <2>1, Advancing, Numbers
  <2>2. CASE Leave
    BY <2>2 DEF Leave
  <2>3. CASE at = 1 /\ Request(task, 1)
    BY <2>3 DEF Request
  <2>4. CASE at \in 2 .. Len(Handshake) /\ Request(task, Len(Handshake) + 1)
    BY <2>4, Numbers DEF Request
  <2>5. \/ at = 1 /\ Request(task, 1)
        \/ at \in 2 .. Len(Handshake) /\ (Leave \/ Request(task, Len(Handshake) + 1))
        \/ Leave \/ Advance
    BY Zenon DEF TimeOut
  <2>6. QED
    BY <2>1, <2>2, <2>3, <2>4, <2>5
<1>4. Dialogue(task)' = Dialogue(task)
  BY <1>1
<1>5. at' \in Nat
  BY TypedTimeOut, Numbers, <1>1 DEF Typed, TypeOK
<1>6. QED
  BY <1>1, <1>2, <1>3, <1>4, <1>5, Numbers DEF TurnsLeft

\* Every turn of a session counts, whatever the meter and the line do.
THEOREM TurnsCount == Spec => EveryTurnCounts
<1> DEFINE A == at > 0 /\ at' > 0 => /\ TurnsLeft' \in 0 .. TurnsLeft
                                     /\ (Main => TurnsLeft' # TurnsLeft)
           Number == TurnsLeft \in Nat
<1>1. Typed /\ Number /\ Number' /\ [Next]_vars => [A]_vars
  <2> SUFFICES ASSUME Typed, Number, Number', Next, at > 0, at' > 0
               PROVE  /\ TurnsLeft' \in 0 .. TurnsLeft
                      /\ (Main => TurnsLeft' # TurnsLeft)
    BY DEF vars
  <2>1. Main => Seen \/ TimeOut
    BY DEF Main, Begin
  <2>2. Main => TurnsLeft' <= TurnsLeft /\ TurnsLeft' < TurnsLeft
    BY <2>1, TurnSeen, TurnTimeOut
  <2>3. CASE Receive \/ Answer \/ Ignore \/ Disturb
    <3>1. task' = task /\ at' = at /\ wdt' = wdt
      BY <2>3 DEF Receive, Answer, Ignore, Disturb, loop
    <3>2. TurnsLeft' = TurnsLeft /\ TurnsLeft \in Int
      BY <3>1, Numbers DEF TurnsLeft
    <3>3. QED
      BY <2>2, <3>2
  <2>4. ~Reset
    BY DEF Reset
  <2>5. QED
    BY <2>2, <2>3, <2>4 DEF Next
<1>2. Init => Typed
  BY TypedInit
<1>3. Typed /\ [Next]_vars => Typed'
  BY TypedStep
<1>4. Typed => Number
  <2> SUFFICES ASSUME Typed PROVE Number
    OBVIOUS
  <2>1. QED
    BY Numbers DEF TurnsLeft
<1>5. QED
  BY <1>1, <1>2, <1>3, <1>4, PTL DEF Spec, EveryTurnCounts
=============================================================================
