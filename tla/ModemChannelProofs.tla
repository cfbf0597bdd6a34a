------------------------- MODULE ModemChannelProofs -------------------------
(***************************************************************************)
(* Proofs about ModemChannel for any number of commands, unsolicited lines *)
(* and lost words.                                                         *)
(***************************************************************************)
EXTENDS ModemChannel, SequenceTheorems, FiniteSetTheorems, TLAPS

(***************************************************************************)
(* Words on the line.                                                      *)
(***************************************************************************)
\* No acceptance is on its way.
Clean(s) == \A i \in 1 .. Len(s) : s[i] \notin Affirmative

\* The first word is a word, and what follows it holds no new acceptance.
LEMMA TailOfLine ==
    ASSUME NEW s \in Seq(Words), s # <<>>
    PROVE  /\ Head(s) \in Words
           /\ Tail(s) \in Seq(Words)
           /\ Clean(s) => Head(s) \notin Affirmative /\ Clean(Tail(s))
<1>1. /\ Len(s) \in Nat /\ Len(s) > 0
      /\ Head(s) = s[1] /\ s[1] \in Words
      /\ Tail(s) \in Seq(Words) /\ Len(Tail(s)) = Len(s) - 1
      /\ \A i \in 1 .. Len(Tail(s)) : Tail(s)[i] = s[i + 1]
  OBVIOUS
<1>2. QED
  BY <1>1 DEF Clean

\* A framed word at the end of the line adds an acceptance only if it is one.
LEMMA FramedWord ==
    ASSUME NEW s \in Seq(Words), NEW w \in Words
    PROVE  /\ s \o <<"LF", w, "LF">> \in Seq(Words)
           /\ Clean(s) /\ w \notin Affirmative => Clean(s \o <<"LF", w, "LF">>)
<1> DEFINE f == <<"LF", w, "LF">>
<1>1. f \in Seq(Words) /\ Len(f) = 3
  BY DEF Words
<1>2. \A i \in 1 .. 3 : f[i] = "LF" \/ f[i] = w
  OBVIOUS
<1>3. "LF" \notin Affirmative
  BY DEF Affirmative
<1> HIDE DEF f
<1>4. /\ s \o f \in Seq(Words)
      /\ Len(s) \in Nat /\ Len(s \o f) = Len(s) + 3
      /\ \A i \in 1 .. Len(s) + 3 :
            (s \o f)[i] = IF i <= Len(s) THEN s[i] ELSE f[i - Len(s)]
  <2>1. /\ s \o f \in Seq(Words)
        /\ Len(s \o f) = Len(s) + Len(f)
        /\ \A i \in 1 .. Len(s) + Len(f) :
              (s \o f)[i] = IF i <= Len(s) THEN s[i] ELSE f[i - Len(s)]
    BY <1>1, ConcatProperties, Zenon
  <2>2. Len(s) \in Nat
    BY LenProperties
  <2>3. QED
    BY <1>1, <2>1, <2>2
<1>5. ASSUME Clean(s), w \notin Affirmative, NEW i \in 1 .. Len(s) + 3
      PROVE  (s \o f)[i] \notin Affirmative
  <2>1. CASE i <= Len(s)
    BY <1>4, <1>5, <2>1 DEF Clean
  <2>2. CASE ~(i <= Len(s))
    <3>1. i - Len(s) \in 1 .. 3
      BY <1>4, <2>2
    <3>2. QED
      BY <1>2, <1>3, <1>4, <1>5, <2>2, <3>1
  <2>3. QED
    BY <2>1, <2>2
<1>6. QED
  BY <1>4, <1>5 DEF Clean, f

\* The modem answers with words.
LEMMA AnswersAreWords == \A kind \in Kinds : Answers(kind) \subseteq Words
BY DEF Kinds, Answers, Words

(***************************************************************************)
(* Types.                                                                  *)
(***************************************************************************)
\* Changing the parts of a receiver gives a receiver.
LEMMA ReceiverParts ==
    ASSUME NEW u \in Receivers, NEW q \in States, NEW f \in SUBSET Flags,
           NEW l \in SUBSET Words, NEW d \in SUBSET Words
    PROVE  [u EXCEPT !.state = q, !.flag = f, !.line = l, !.data = d] \in Receivers
BY DEF Receivers

\* One word changes the receiver to another well-formed one.
LEMMA ReceiverType ==
    ASSUME uart \in Receivers, NEW w \in Words,
           RxWait(w) \/ RxData(w) \/ RxSend(w) \/ RxStart(w) \/ RxIdle(w)
    PROVE  uart' \in Receivers
<1>1. CASE RxWait(w)
  <2>1. CASE w # "LF"
    BY <1>1, <2>1 DEF RxWait, Receivers
  <2>2. CASE "RECEIVING" \notin uart.flag
    BY <1>1, <2>2 DEF RxWait, Raise, Receivers, Flags
  <2>3. CASE w = "LF" /\ "RECEIVING" \in uart.flag
    <3>1. PICK f \in SUBSET Flags : uart' = [uart EXCEPT !.state = "IDLE", !.flag = f]
      BY <1>1, <2>3 DEF RxWait, Receivers, Flags
    <3>2. QED
      BY <3>1 DEF Receivers, States
  <2>4. QED
    BY <2>1, <2>2, <2>3
<1>2. CASE RxData(w)
  <2>1. CASE w # "LF"
    BY <1>2, <2>1 DEF RxData, Receivers
  <2>2. CASE w = "LF" /\ "DATA_RECEIVING" \notin uart.flag
    BY <1>2, <2>2 DEF RxData, Raise, Receivers, Flags
  <2>3. CASE w = "LF" /\ "DATA_RECEIVING" \in uart.flag
    BY <1>2, <2>3 DEF RxData, Raise, Receivers, Flags, States
  <2>4. QED
    BY <2>1, <2>2, <2>3
<1>3. CASE RxSend(w)
  BY <1>3 DEF RxSend, Raise, Unspelled, Receivers, Flags, States
<1>4. CASE RxStart(w) \/ RxIdle(w)
  BY <1>4 DEF RxStart, RxIdle, Receivers
<1>5. QED
  BY <1>1, <1>2, <1>3, <1>4

LEMMA TypeInit == Init => TypeOK
<1> SUFFICES ASSUME Init PROVE TypeOK
  OBVIOUS
<1>1. cmd \in Issued
  BY DEF Init, Issued, Kinds
<1>2. uart \in Receivers
  BY DEF Init, Receivers, States
<1>3. noise \in [notes : 0 .. Notes, losses : 0 .. Losses]
  BY BoundsAssumption DEF Init
<1>4. todo \in Seq(Kinds) /\ wire \in Seq(Words)
  BY EmptySeq DEF Init
<1>5. QED
  BY <1>1, <1>2, <1>3, <1>4 DEF Init, TypeOK

LEMMA TypeStep == TypeOK /\ [Next]_vars => TypeOK'
<1> SUFFICES ASSUME TypeOK, [Next]_vars PROVE TypeOK'
  OBVIOUS
<1>1. ASSUME NEW kind \in Kinds, Prepare(kind) PROVE TypeOK'
  <2>1. cmd' \in Issued
    BY <1>1 DEF Prepare, TypeOK, Issued
  <2>2. uart' \in Receivers
    BY <1>1 DEF Prepare, TypeOK, Receivers
  <2>3. owing' \in BOOLEAN /\ quiet' \in BOOLEAN /\ granted' \in BOOLEAN
    BY <1>1 DEF Prepare, Owed
  <2>4. QED
    BY <1>1, <2>1, <2>2, <2>3 DEF Prepare, TypeOK, line
<1>2. CASE Send
  <2>1. todo' \in Seq(Kinds)
    <3>1. cmd.kind \in Kinds /\ todo \in Seq(Kinds)
      BY DEF TypeOK, Issued
    <3>2. <<"start">> \in Seq(Kinds) /\ Append(todo, cmd.kind) \in Seq(Kinds)
      BY <3>1 DEF Kinds
    <3>3. QED
      BY <1>2, <3>2 DEF Send
  <2>2. wire' \in Seq(Words)
    BY <1>2, EmptySeq DEF Send, TypeOK
  <2>3. uart' \in Receivers
    BY <1>2 DEF Send, TypeOK, StateFor, States, Receivers
  <2>4. QED
    BY <1>2, <2>1, <2>2, <2>3 DEF Send, TypeOK
<1>3. ASSUME NEW ok \in BOOLEAN, Finish(ok) PROVE TypeOK'
  <2>1. cmd' \in Issued
    BY <1>3 DEF Finish, TypeOK, Issued
  <2>2. uart' \in Receivers
    BY <1>3 DEF Finish, TypeOK, Receivers, States
  <2>3. QED
    BY <1>3, <2>1, <2>2 DEF Finish, TypeOK
<1>4. CASE Return \/ TimeOut
  <2>1. Satisfied \in BOOLEAN
    BY DEF Satisfied
  <2>2. QED
    BY <1>3, <1>4, <2>1 DEF Return, TimeOut
<1>5. CASE Receive
  <2>1. Head(wire) \in Words /\ wire' \in Seq(Words)
    BY <1>5, TailOfLine DEF Receive, TypeOK
  <2>2. uart' \in Receivers
    BY <1>5, <2>1, ReceiverType DEF Receive, TypeOK
  <2>3. QED
    BY <1>5, <2>1, <2>2 DEF Receive, TypeOK
<1>6. CASE Lose
  <2>1. wire' \in Seq(Words)
    BY <1>6, TailOfLine DEF Lose, TypeOK
  <2>2. noise' \in [notes : 0 .. Notes, losses : 0 .. Losses]
    <3>1. noise \in [notes : 0 .. Notes, losses : 0 .. Losses]
      BY DEF TypeOK
    <3>2. noise.losses + 1 \in 0 .. Losses
      BY <1>6, <3>1, BoundsAssumption DEF Lose
    <3>3. QED
      BY <1>6, <3>1, <3>2 DEF Lose
  <2>3. QED
    BY <1>6, <2>1, <2>2 DEF Lose, TypeOK
<1>7. CASE Answer
  <2>1. Head(todo) \in Kinds /\ todo' \in Seq(Kinds)
    BY <1>7 DEF Answer, TypeOK
  <2>2. PICK w \in Answers(Head(todo)) :
            /\ wire' = wire \o <<"LF", w, "LF">>
            /\ granted' = IF Len(todo) = 1 /\ pc # "prepared"
                          THEN w \in Affirmative
                          ELSE granted
    BY <1>7 DEF Answer
  <2>3. wire' \in Seq(Words)
    BY <2>1, <2>2, AnswersAreWords, FramedWord DEF TypeOK
  <2>4. granted' \in BOOLEAN
    <3>1. (w \in Affirmative) \in BOOLEAN /\ granted \in BOOLEAN
      BY DEF TypeOK
    <3>2. QED
      BY <2>2, <3>1
  <2>5. QED
    BY <1>7, <2>1, <2>3, <2>4 DEF Answer, TypeOK
<1>8. CASE Ignore
  <2>1. todo' \in Seq(Kinds)
    BY <1>8 DEF Ignore, TypeOK
  <2>2. QED
    BY <1>8, <2>1 DEF Ignore, TypeOK
<1>9. CASE Note
  <2>1. wire' \in Seq(Words)
    BY <1>9, FramedWord DEF Note, TypeOK, Words
  <2>2. noise' \in [notes : 0 .. Notes, losses : 0 .. Losses]
    <3>1. noise \in [notes : 0 .. Notes, losses : 0 .. Losses]
      BY DEF TypeOK
    <3>2. noise.notes + 1 \in 0 .. Notes
      BY <1>9, <3>1, BoundsAssumption DEF Note
    <3>3. QED
      BY <1>9, <3>1, <3>2 DEF Note
  <2>3. QED
    BY <1>9, <2>1, <2>2 DEF Note, TypeOK
<1>10. CASE UNCHANGED vars
  BY <1>10 DEF vars, line, TypeOK
<1>11. CASE Rest
  <2>1. uart' \in Receivers
    BY <1>11 DEF Rest, TypeOK, Receivers, States
  <2>2. QED
    BY <1>11, <2>1 DEF Rest, line, TypeOK
<1>12. QED
  BY <1>1, <1>2, <1>3, <1>4, <1>5, <1>6, <1>7, <1>8, <1>9, <1>10, <1>11 DEF Next

\* The types hold in every state.
THEOREM TypeCorrect == Spec => []TypeOK
BY TypeInit, TypeStep, PTL DEF Spec

(***************************************************************************)
(* Verdicts.                                                               *)
(***************************************************************************)
\* Nothing the receiver holds or will hold counts as an acceptance.
NoPromise ==
    /\ uart.flag \cap {"OK", "CONNECT", "SEND_OK"} = {}
    /\ "RECEIVING" \in uart.flag => uart.line \cap Affirmative = {}
    /\ uart.flag \cap {"DATA_RECEIVING", "DATA_FINISH"} # {} =>
         uart.data \cap Affirmative = {}

Untouched ==
    /\ Clean(wire)
    /\ cmd.kind # "start" => NoPromise
    /\ cmd.kind = "start" => uart.line \cap Affirmative = {}

\* The strengthening: while no earlier acceptance can come, a command the
\* modem has not accepted finds nothing that looks like an acceptance.
Prepared ==
    pc = "prepared" => /\ ~granted
                       /\ ~owing /\ cmd.kind # "start" => todo = <<>> /\ Untouched

Waiting ==
    pc = "waiting" /\ ~owing => Len(todo) <= 1 /\ (granted \/ Untouched)

Granted == pc # "prepared" /\ ~owing /\ granted => todo = <<>>

IInv == TypeOK /\ Prepared /\ Waiting /\ Granted /\ SoundVerdict

\* An acceptance is needed for a success.
LEMMA NoSuccess == Untouched => ~Satisfied
BY DEF Untouched, NoPromise, Satisfied, Response, Affirmative

\* A word that is no acceptance promises none.
LEMMA WordKeeps ==
    ASSUME uart \in Receivers, NEW w \in Words, w \notin Affirmative,
           RxWait(w) \/ RxData(w) \/ RxSend(w) \/ RxStart(w) \/ RxIdle(w)
    PROVE  /\ NoPromise => NoPromise'
           /\ uart.line \cap Affirmative = {} => uart'.line \cap Affirmative = {}
<1> USE DEF Receivers, Affirmative
<1>1. CASE RxWait(w)
  <2>1. CASE w # "LF"
    BY <1>1, <2>1 DEF RxWait, NoPromise
  <2>2. CASE w = "LF" /\ "RECEIVING" \notin uart.flag
    BY <1>1, <2>2 DEF RxWait, Raise, NoPromise
  <2>3. CASE w = "LF" /\ "RECEIVING" \in uart.flag
    BY <1>1, <2>3 DEF RxWait, NoPromise
  <2>4. QED
    BY <2>1, <2>2, <2>3
<1>2. CASE RxData(w)
  <2>1. CASE w # "LF"
    BY <1>2, <2>1 DEF RxData, NoPromise
  <2>2. CASE w = "LF" /\ "DATA_RECEIVING" \notin uart.flag
    <3>1. /\ uart'.flag = uart.flag \cup {"DATA_RECEIVING"}
          /\ uart'.line = uart.line /\ uart'.data = {}
      BY <1>2, <2>2 DEF RxData, Raise
    <3>2. QED
      BY <3>1 DEF NoPromise
  <2>3. CASE w = "LF" /\ "DATA_RECEIVING" \in uart.flag
    <3>1. /\ uart'.flag = uart.flag \cup {"DATA_FINISH"}
          /\ uart'.line = uart.line /\ uart'.data = uart.data
      BY <1>2, <2>3 DEF RxData, Raise
    <3>2. QED
      BY <2>3, <3>1 DEF NoPromise
  <2>4. QED
    BY <2>1, <2>2, <2>3
<1>3. CASE RxSend(w)
  <2>1. w # "OK" /\ w # "CONNECT"
    OBVIOUS
  <2>2. /\ \/ uart'.flag = uart.flag
           \/ uart'.flag = uart.flag \cup {"WAIT_SENDING"}
           \/ uart'.flag = uart.flag \cup {"WAIT_SENDING", "SEND_ERROR"}
        /\ uart'.line = uart.line /\ uart'.data = uart.data
    BY <1>3, <2>1 DEF RxSend, Raise
  <2>3. QED
    BY <2>2 DEF NoPromise
<1>4. CASE RxStart(w) \/ RxIdle(w)
  BY <1>4 DEF RxStart, RxIdle, NoPromise
<1>5. QED
  BY <1>1, <1>2, <1>3, <1>4

LEMMA IInit == Init => IInv
BY TypeInit DEF Init, IInv, Prepared, Waiting, Granted, SoundVerdict

LEMMA IStep == IInv /\ [Next]_vars => IInv'
<1> SUFFICES ASSUME IInv, [Next]_vars PROVE Prepared' /\ Waiting' /\ Granted' /\ SoundVerdict'
  BY TypeStep DEF IInv
<1>0. TypeOK /\ Prepared /\ Waiting /\ Granted /\ SoundVerdict
  BY DEF IInv
<1>1. ASSUME NEW kind \in Kinds, Prepare(kind) PROVE Prepared' /\ Waiting' /\ Granted' /\ SoundVerdict'
  <2>1. pc' = "prepared" /\ ~granted'
    BY <1>1 DEF Prepare
  <2>2. ASSUME kind # "start", ~owing' PROVE todo' = <<>> /\ Untouched'
    <3>1. todo = <<>> /\ Clean(wire)
      BY <1>1, <2>2 DEF Prepare, Owed, Clean
    <3>2. todo' = todo /\ wire' = wire /\ uart'.flag = {} /\ cmd'.kind = kind
      BY <1>0, <1>1, <2>2 DEF Prepare, line, TypeOK, Receivers
    <3>3. QED
      BY <2>2, <3>1, <3>2 DEF Untouched, NoPromise, Clean
  <2>3. cmd'.kind = kind
    BY <1>1 DEF Prepare
  <2>4. QED
    BY <2>1, <2>2, <2>3 DEF Prepared, Waiting, Granted, SoundVerdict
<1>2. CASE Send
  <2>1. /\ pc = "prepared" /\ pc' = "waiting" /\ ~granted' /\ owing' = owing
        /\ cmd' = cmd /\ uart'.flag = uart.flag
    BY <1>0, <1>2 DEF Send, Prepared, TypeOK, Receivers
  <2>2. ASSUME ~owing PROVE Len(todo') <= 1 /\ Untouched'
    <3>1. CASE cmd.kind = "start"
      <4>1. wire' = <<>> /\ todo' = <<"start">> /\ uart'.line = {}
        BY <1>0, <1>2, <3>1 DEF Send, TypeOK, Receivers
      <4>2. QED
        BY <2>1, <3>1, <4>1 DEF Untouched, Clean
    <3>2. CASE cmd.kind # "start"
      <4>1. todo = <<>> /\ Untouched
        BY <1>0, <2>1, <2>2, <3>2 DEF Prepared
      <4>2. todo' = <<cmd.kind>> /\ wire' = wire
        BY <1>2, <3>2, <4>1 DEF Send
      <4>3. uart'.line \in {{}, uart.line} /\ uart'.data \in {{}, uart.data}
        BY <1>0, <1>2 DEF Send, TypeOK, Receivers
      <4>4. QED
        BY <2>1, <3>2, <4>1, <4>2, <4>3 DEF Untouched, NoPromise, Clean
    <3>3. QED
      BY <3>1, <3>2
  <2>3. QED
    BY <2>1, <2>2 DEF Prepared, Waiting, Granted, SoundVerdict
<1>3. CASE Return \/ TimeOut
  <2>1. PICK ok \in BOOLEAN : Finish(ok) /\ (ok => Satisfied) /\ pc = "waiting"
    BY <1>3 DEF Return, TimeOut, Satisfied
  <2>2. ~owing /\ ok => granted
    BY <1>0, <2>1, NoSuccess DEF Waiting
  <2>3. /\ pc' = "idle" /\ cmd'.ok = ok
        /\ owing' = owing /\ granted' = granted /\ todo' = todo
    BY <1>0, <2>1 DEF Finish, TypeOK, Issued
  <2>4. QED
    BY <1>0, <2>1, <2>2, <2>3 DEF Prepared, Waiting, Granted, SoundVerdict
<1>4. CASE Receive
  <2>1. /\ Head(wire) \in Words
        /\ Clean(wire) => Head(wire) \notin Affirmative /\ Clean(wire')
    BY <1>0, <1>4, TailOfLine DEF Receive, TypeOK
  <2>2. Untouched => Untouched'
    BY <1>0, <1>4, <2>1, WordKeeps DEF Receive, Untouched, TypeOK
  <2>3. QED
    BY <1>0, <1>4, <2>2 DEF Receive, Prepared, Waiting, Granted, SoundVerdict
<1>5. CASE Lose
  <2>1. Clean(wire) => Clean(wire')
    BY <1>0, <1>5, TailOfLine DEF Lose, TypeOK
  <2>2. Untouched => Untouched'
    BY <1>5, <2>1 DEF Lose, Untouched, NoPromise
  <2>3. QED
    BY <1>0, <1>5, <2>2 DEF Lose, Prepared, Waiting, Granted, SoundVerdict
<1>6. CASE Answer
  <2>1. todo # <<>> /\ todo' = Tail(todo) /\ todo \in Seq(Kinds)
    BY <1>0, <1>6 DEF Answer, TypeOK
  <2>2. PICK w \in Answers(Head(todo)) :
            /\ wire' = wire \o <<"LF", w, "LF">>
            /\ granted' = IF Len(todo) = 1 /\ pc # "prepared"
                          THEN w \in Affirmative
                          ELSE granted
    BY <1>6 DEF Answer
  <2>3. w \in Words
    BY <2>1, AnswersAreWords
  <2>4. Untouched /\ w \notin Affirmative => Untouched'
    BY <1>0, <1>6, <2>2, <2>3, FramedWord DEF Answer, Untouched, NoPromise, TypeOK
  <2>5. pc' = pc /\ cmd' = cmd /\ owing' = owing
    BY <1>6 DEF Answer
  <2>6. /\ Len(todo) \in Nat /\ Len(todo) >= 1 /\ Len(todo') = Len(todo) - 1
        /\ Len(todo) = 1 => todo' = <<>>
    BY <2>1
  <2>7. Prepared'
    BY <1>0, <2>1, <2>2, <2>5 DEF Prepared
  <2>8. Granted'
    BY <1>0, <2>1, <2>2, <2>5, <2>6 DEF Granted
  <2>9. Waiting'
    <3>1. SUFFICES ASSUME pc = "waiting", ~owing PROVE Len(todo') <= 1 /\ (granted' \/ Untouched')
      BY <2>5 DEF Waiting
    <3>2. Len(todo) = 1 /\ (granted \/ Untouched) /\ ~granted
      BY <1>0, <2>1, <2>6, <3>1 DEF Waiting, Granted
    <3>3. CASE w \in Affirmative
      <4>1. granted' = (w \in Affirmative)
        BY <2>2, <3>1, <3>2
      <4>2. granted'
        BY <3>3, <4>1, Zenon
      <4>3. Len(todo') <= 1
        BY <2>6, <3>2
      <4>4. QED
        BY <4>2, <4>3
    <3>4. CASE w \notin Affirmative
      BY <2>4, <2>6, <3>2, <3>4
    <3>5. QED
      BY <3>3, <3>4
  <2>10. SoundVerdict'
    BY <1>0, <2>1, <2>2, <2>5 DEF SoundVerdict, Granted
  <2>11. QED
    BY <2>7, <2>8, <2>9, <2>10
<1>7. CASE Ignore
  <2>1. /\ todo # <<>> /\ todo' = Tail(todo) /\ todo \in Seq(Kinds)
        /\ pc' = pc /\ cmd' = cmd /\ owing' = owing /\ granted' = granted
        /\ wire' = wire /\ uart' = uart
    BY <1>0, <1>7 DEF Ignore, TypeOK
  <2>2. Len(todo) \in Nat /\ Len(todo') = Len(todo) - 1
    BY <2>1
  <2>3. Untouched => Untouched'
    BY <2>1 DEF Untouched, NoPromise
  <2>4. QED
    BY <1>0, <2>1, <2>2, <2>3 DEF Prepared, Waiting, Granted, SoundVerdict
<1>8. CASE Note
  <2>1. Clean(wire) => Clean(wire')
    BY <1>0, <1>8, FramedWord DEF Note, TypeOK, Words, Affirmative
  <2>2. Untouched => Untouched'
    BY <1>8, <2>1 DEF Note, Untouched, NoPromise
  <2>3. QED
    BY <1>0, <1>8, <2>2 DEF Note, Prepared, Waiting, Granted, SoundVerdict
<1>9. CASE UNCHANGED vars
  <2>1. Untouched => Untouched'
    BY <1>9 DEF vars, line, Untouched, NoPromise, Clean
  <2>2. QED
    BY <1>0, <1>9, <2>1 DEF vars, line, Prepared, Waiting, Granted, SoundVerdict
<1>10. CASE Rest
  BY <1>0, <1>10 DEF Rest, line, Prepared, Waiting, Granted, SoundVerdict
<1>11. QED
  BY <1>1, <1>2, <1>3, <1>4, <1>5, <1>6, <1>7, <1>8, <1>9, <1>10 DEF Next

\* A success is the modem's own acceptance of the command, unless an earlier
\* answer was still to come when the command was issued.
THEOREM VerdictsSound == Spec => []SoundVerdict
<1>1. IInv => SoundVerdict
  BY DEF IInv
<1>2. QED
  BY IInit, IStep, <1>1, PTL DEF Spec

(***************************************************************************)
(* Every success is earned: ModemChannel implements CommandChannel.        *)
(***************************************************************************)
\* Where the acceptances are in a line, and how many there are.
Places(s) == {i \in 1 .. Len(s) : s[i] \in Affirmative}

LEMMA CountType ==
    ASSUME NEW s \in Seq(Words)
    PROVE  IsFiniteSet(Places(s)) /\ Cardinality(Places(s)) \in Nat
<1>1. Len(s) \in Nat
  BY LenProperties
<1>2. IsFiniteSet(1 .. Len(s))
  BY <1>1, FS_Interval
<1>3. QED
  BY <1>2, FS_Subset, FS_CardinalityType DEF Places

\* Receiving or losing a word takes its acceptance off the line.
LEMMA CountTail ==
    ASSUME NEW s \in Seq(Words), s # <<>>
    PROVE  Cardinality(Places(s)) = Cardinality(Places(Tail(s)))
                                      + (IF Head(s) \in Affirmative THEN 1 ELSE 0)
<1>1. /\ Len(s) \in Nat /\ Len(s) >= 1 /\ Head(s) = s[1]
      /\ Tail(s) \in Seq(Words) /\ Len(Tail(s)) = Len(s) - 1
      /\ \A i \in 1 .. Len(s) - 1 : Tail(s)[i] = s[i + 1]
  OBVIOUS
<1> DEFINE S == Places(Tail(s))
           T == Places(s) \ {1}
           f == [i \in S |-> i + 1]
<1>2. S \subseteq 1 .. Len(s) - 1 /\ T \subseteq 2 .. Len(s)
  BY <1>1 DEF Places
<1>3. \A i \in 1 .. Len(s) - 1 : i \in S <=> i + 1 \in T
  BY <1>1 DEF Places
<1> HIDE DEF S, T
<1>4. f \in [S -> T]
  BY <1>2, <1>3
<1>5. \A a, b \in S : f[a] = f[b] => a = b
  BY <1>1, <1>2
<1>6. \A t \in T : \E i \in S : f[i] = t
  <2>1. ASSUME NEW t \in T PROVE t - 1 \in S /\ f[t - 1] = t
    BY <1>1, <1>2, <1>3
  <2>2. QED
    BY <2>1
<1>7. ExistsBijection(S, T)
  <2>1. DOMAIN f = S
    OBVIOUS
  <2>2. f \in Injection(S, T) /\ f \in Surjection(S, T)
    BY <1>4, <1>5, <1>6, <2>1 DEF Injection, IsInjective, Surjection
  <2>3. QED
    BY <2>2 DEF Bijection, ExistsBijection
<1>8. IsFiniteSet(S) /\ Cardinality(S) \in Nat
  BY <1>1, CountType DEF S
<1>9. IsFiniteSet(T) /\ Cardinality(T) = Cardinality(S)
  BY <1>7, <1>8, FS_Bijection
<1>10. 1 \notin T /\ Places(s) = IF Head(s) \in Affirmative THEN T \cup {1} ELSE T
  BY <1>1 DEF T, Places
<1>11. Cardinality(T \cup {1}) = Cardinality(T) + 1
  BY <1>9, <1>10, FS_AddElement
<1>12. QED
  BY <1>8, <1>9, <1>10, <1>11 DEF S

\* A framed word puts its acceptance on the line.
LEMMA CountFramed ==
    ASSUME NEW s \in Seq(Words), NEW w \in Words
    PROVE  Cardinality(Places(s \o <<"LF", w, "LF">>))
             = Cardinality(Places(s)) + (IF w \in Affirmative THEN 1 ELSE 0)
<1> DEFINE f == <<"LF", w, "LF">>
<1>1. f \in Seq(Words) /\ Len(f) = 3 /\ f[1] = "LF" /\ f[2] = w /\ f[3] = "LF"
  BY DEF Words
<1>2. "LF" \notin Affirmative
  BY DEF Affirmative
<1> HIDE DEF f
<1>3. /\ Len(s \o f) = Len(s) + Len(f)
      /\ \A i \in 1 .. Len(s) + Len(f) :
            (s \o f)[i] = IF i <= Len(s) THEN s[i] ELSE f[i - Len(s)]
  BY <1>1, ConcatProperties, Zenon
<1>4. Len(s) \in Nat
  BY LenProperties
<1>5. \A i \in 1 .. Len(s) : (s \o f)[i] = s[i]
  BY <1>1, <1>3, <1>4
<1>6. /\ (s \o f)[Len(s) + 1] = "LF"
      /\ (s \o f)[Len(s) + 2] = w
      /\ (s \o f)[Len(s) + 3] = "LF"
  BY <1>1, <1>3, <1>4
<1>7. \A i : i \in 1 .. Len(s) + 3 <=>
                 i \in 1 .. Len(s) \/ i \in {Len(s) + 1, Len(s) + 2, Len(s) + 3}
  BY <1>4
<1>8. Places(s \o f) = IF w \in Affirmative THEN Places(s) \cup {Len(s) + 2} ELSE Places(s)
  BY <1>1, <1>2, <1>3, <1>5, <1>6, <1>7 DEF Places
<1>9. Len(s) + 2 \notin Places(s)
  BY <1>4 DEF Places
<1>10. /\ IsFiniteSet(Places(s)) /\ Cardinality(Places(s)) \in Nat
       /\ Cardinality(Places(s) \cup {Len(s) + 2}) = Cardinality(Places(s)) + 1
  BY <1>9, CountType, FS_AddElement
<1>11. QED
  BY <1>8, <1>10 DEF f

\* Credit is a number, and moves with the line and the receiver's promise.
LEMMA CreditValue ==
    ASSUME TypeOK
    PROVE  /\ Credit = Cardinality(Places(wire)) + (IF Promised THEN 1 ELSE 0)
           /\ Cardinality(Places(wire)) \in Nat
BY CountType DEF Credit, Carried, Places, TypeOK

\* A letter K is awaited by a send only, and not heard before it leaves.
Sending ==
    /\ uart.state = "SEND" => pc = "waiting" /\ cmd.kind = "send"
    /\ pc = "prepared" /\ cmd.kind # "start" => "SEND_OK" \notin uart.flag

LEMMA SendingInit == Init => Sending
BY DEF Init, Sending

\* What the line feed that ends an answer does.
LEMMA EndOfLine ==
    ASSUME uart \in Receivers, RxWait("LF"), "RECEIVING" \in uart.flag
    PROVE  /\ uart'.state = "IDLE" /\ uart'.data = uart.data /\ uart'.line = uart.line
           /\ \A g : g \notin {"OK", "ERROR", "CONNECT"} =>
                       (g \in uart'.flag <=> g \in uart.flag)
           /\ "CONNECT" \in uart'.flag <=> "CONNECT" \in uart.flag \cup uart.line
           /\ "OK" \in uart'.flag => "OK" \in uart.flag \cup uart.line
           /\ "OK" \notin uart.line /\ "ERROR" \in uart.flag => "ERROR" \in uart'.flag
           /\ "OK" \in uart.flag => uart'.flag \cap {"OK", "ERROR"} # {}
<1> DEFINE answer == CASE "OK" \in uart.line -> {"OK"}
                       [] "OK" \notin uart.line /\ "ERROR" \in uart.line -> {"ERROR"}
                       [] OTHER -> uart.flag \cap {"OK", "ERROR"}
<1>1. uart' = [uart EXCEPT
                 !.state = "IDLE",
                 !.flag = (@ \ {"OK", "ERROR"}) \cup answer \cup (uart.line \cap {"CONNECT"})]
  BY DEF RxWait
<1>2. /\ answer \subseteq {"OK", "ERROR"}
      /\ "OK" \in answer => "OK" \in uart.flag \cup uart.line
      /\ "OK" \notin uart.line /\ "ERROR" \in uart.flag => "ERROR" \in answer
      /\ "OK" \in uart.flag => answer # {}
  <2>1. CASE "OK" \in uart.line
    BY <2>1
  <2>2. CASE "OK" \notin uart.line /\ "ERROR" \in uart.line
    BY <2>2
  <2>3. CASE "OK" \notin uart.line /\ "ERROR" \notin uart.line
    BY <2>3
  <2>4. QED
    BY <2>1, <2>2, <2>3
<1> HIDE DEF answer
<1>3. /\ uart'.state = "IDLE" /\ uart'.data = uart.data /\ uart'.line = uart.line
      /\ uart'.flag = (uart.flag \ {"OK", "ERROR"}) \cup answer \cup (uart.line \cap {"CONNECT"})
  BY <1>1 DEF Receivers
<1>4. QED
  BY <1>2, <1>3

\* Words leave the send state to the send.
LEMMA SendingWord ==
    ASSUME TypeOK, Sending, NEW w \in Words, UNCHANGED <<pc, cmd>>,
           RxWait(w) \/ RxData(w) \/ RxSend(w) \/ RxStart(w) \/ RxIdle(w)
    PROVE  Sending'
<1> USE DEF Receivers, Sending, TypeOK
<1>1. CASE RxWait(w)
  <2>1. /\ uart'.state # "SEND"
        /\ "SEND_OK" \in uart'.flag => "SEND_OK" \in uart.flag
    <3>1. CASE w # "LF"
      BY <1>1, <3>1 DEF RxWait
    <3>2. CASE w = "LF" /\ "RECEIVING" \notin uart.flag
      <4>1. uart'.state = uart.state /\ uart'.flag = uart.flag \cup {"RECEIVING"}
        BY <1>1, <3>2 DEF RxWait, Raise
      <4>2. QED
        BY <1>1, <4>1 DEF RxWait
    <3>3. CASE w = "LF" /\ "RECEIVING" \in uart.flag
      BY <1>1, <3>3, EndOfLine
    <3>4. QED
      BY <3>1, <3>2, <3>3
  <2>2. QED
    BY <2>1
<1>2. CASE RxData(w)
  <2>1. /\ uart'.state # "SEND"
        /\ "SEND_OK" \in uart'.flag => "SEND_OK" \in uart.flag
    <3>1. /\ uart'.state \in {uart.state, "IDLE"}
          /\ uart'.flag \in {uart.flag, uart.flag \cup {"DATA_RECEIVING"},
                              uart.flag \cup {"DATA_FINISH"}}
      BY <1>2 DEF RxData, Raise
    <3>2. QED
      BY <1>2, <3>1 DEF RxData
  <2>2. QED
    BY <2>1
<1>3. CASE RxSend(w)
  <2>1. pc = "waiting" /\ cmd.kind = "send"
    BY <1>3 DEF RxSend
  <2>2. QED
    BY <2>1
<1>4. CASE RxStart(w) \/ RxIdle(w)
  BY <1>4 DEF RxStart, RxIdle
<1>5. QED
  BY <1>1, <1>2, <1>3, <1>4

LEMMA SendingStep == TypeOK /\ Sending /\ [Next]_vars => Sending'
<1> SUFFICES ASSUME TypeOK, Sending, [Next]_vars PROVE Sending'
  OBVIOUS
<1>1. ASSUME NEW kind \in Kinds, Prepare(kind) PROVE Sending'
  BY <1>1 DEF Prepare, Sending, TypeOK, Receivers
<1>2. CASE Send
  <2>1. /\ pc = "prepared" /\ pc' = "waiting" /\ cmd' = cmd
        /\ uart'.state = StateFor(cmd.kind)
    BY <1>2 DEF Send, TypeOK, Receivers
  <2>2. QED
    BY <2>1 DEF Sending, StateFor, TypeOK, Issued, Kinds
<1>3. CASE Return \/ TimeOut
  <2>1. PICK ok : Finish(ok) /\ pc = "waiting"
    BY <1>3 DEF Return, TimeOut
  <2>2. pc' = "idle" /\ uart'.state # "SEND"
    BY <2>1 DEF Finish, Sending, TypeOK, Receivers
  <2>3. QED
    BY <2>2 DEF Sending
<1>4. CASE Receive
  <2>1. Head(wire) \in Words /\ UNCHANGED <<pc, cmd>>
    BY <1>4, TailOfLine DEF Receive, TypeOK
  <2>2. QED
    BY <1>4, <2>1, SendingWord DEF Receive
<1>5. CASE Lose \/ Answer \/ Ignore \/ Note
  BY <1>5 DEF Lose, Answer, Ignore, Note, Sending
<1>6. CASE UNCHANGED vars
  BY <1>6 DEF vars, line, Sending
<1>7. CASE Rest
  BY <1>7 DEF Rest, Sending, TypeOK, Receivers
<1>8. QED
  BY <1>1, <1>2, <1>3, <1>4, <1>5, <1>6, <1>7 DEF Next

\* A word that is no acceptance makes no promise, in any receiver state.
LEMMA NoNewPromise ==
    ASSUME TypeOK, ~Promised, NEW w \in Words, w \notin Affirmative,
           UNCHANGED <<pc, cmd>>,
           RxWait(w) \/ RxData(w) \/ RxSend(w) \/ RxStart(w) \/ RxIdle(w)
    PROVE  ~Promised'
<1> USE DEF Promised, Satisfied, Response, Affirmative, TypeOK, Receivers
<1>1. CASE RxWait(w)
  <2>1. CASE w # "LF"
    <3>1. /\ uart'.state = uart.state /\ uart'.flag = uart.flag /\ uart'.data = uart.data
          /\ uart'.line \in {uart.line, uart.line \cup {w}}
      BY <1>1, <2>1 DEF RxWait
    <3>2. QED
      BY <3>1
  <2>2. CASE w = "LF" /\ "RECEIVING" \notin uart.flag
    <3>1. /\ uart'.state = uart.state /\ uart'.flag = uart.flag \cup {"RECEIVING"}
          /\ uart'.data = uart.data /\ uart'.line = {}
      BY <1>1, <2>2 DEF RxWait, Raise
    <3>2. QED
      BY <3>1
  <2>3. CASE w = "LF" /\ "RECEIVING" \in uart.flag
    <3>1. /\ uart'.state = "IDLE" /\ uart'.data = uart.data /\ uart'.line = uart.line
          /\ "SEND_OK" \in uart'.flag <=> "SEND_OK" \in uart.flag
          /\ "DATA_FINISH" \in uart'.flag <=> "DATA_FINISH" \in uart.flag
          /\ "CONNECT" \in uart'.flag <=> "CONNECT" \in uart.flag \cup uart.line
          /\ "OK" \in uart'.flag => "OK" \in uart.flag \cup uart.line
          /\ "OK" \notin uart.line /\ "ERROR" \in uart.flag => "ERROR" \in uart'.flag
          /\ "OK" \in uart.flag => uart'.flag \cap {"OK", "ERROR"} # {}
      BY <1>1, <2>3, EndOfLine
    <3>2. pc = "idle" \/ cmd.kind = "start" \/ uart.line \cap Affirmative = {}
      BY <1>1, <2>3 DEF RxWait
    <3>3. CASE pc = "idle" \/ cmd.kind = "start"
      BY <3>1, <3>3
    <3>4. CASE uart.line \cap Affirmative = {}
      <4>1. /\ "OK" \in uart'.flag => "OK" \in uart.flag
            /\ "CONNECT" \in uart'.flag <=> "CONNECT" \in uart.flag
            /\ "ERROR" \in uart.flag => "ERROR" \in uart'.flag
            /\ "OK" \in uart.flag => uart'.flag \cap {"OK", "ERROR"} # {}
        BY <3>1, <3>4
      <4>2. CASE cmd.kind = "config"
        BY <3>1, <4>1, <4>2
      <4>3. CASE cmd.kind = "open"
        BY <3>1, <4>1, <4>3
      <4>4. CASE cmd.kind = "send"
        BY <3>1, <4>1, <4>4
      <4>5. CASE cmd.kind \notin {"config", "open", "send"}
        BY <3>1, <3>4, <4>5
      <4>6. QED
        BY <4>2, <4>3, <4>4, <4>5
    <3>5. QED
      BY <3>2, <3>3, <3>4
  <2>4. QED
    BY <2>1, <2>2, <2>3
<1>2. CASE RxData(w)
  <2>1. CASE w # "LF"
    <3>1. /\ uart'.state = uart.state /\ uart'.flag = uart.flag /\ uart'.line = uart.line
          /\ uart'.data \in {uart.data, uart.data \cup {w}}
      BY <1>2, <2>1 DEF RxData
    <3>2. QED
      BY <3>1
  <2>2. CASE w = "LF" /\ "DATA_RECEIVING" \notin uart.flag
    <3>1. /\ uart'.state = uart.state /\ uart'.flag = uart.flag \cup {"DATA_RECEIVING"}
          /\ uart'.line = uart.line /\ uart'.data = {}
      BY <1>2, <2>2 DEF RxData, Raise
    <3>2. QED
      BY <3>1
  <2>3. CASE w = "LF" /\ "DATA_RECEIVING" \in uart.flag
    <3>1. /\ uart'.state = "IDLE" /\ uart'.flag = uart.flag \cup {"DATA_FINISH"}
          /\ uart'.line = uart.line /\ uart'.data = uart.data
      BY <1>2, <2>3 DEF RxData, Raise
    <3>2. QED
      BY <1>2, <2>3, <3>1 DEF RxData
  <2>4. QED
    BY <2>1, <2>2, <2>3
<1>3. CASE RxSend(w)
  <2>1. /\ uart'.state \in {uart.state, "IDLE"}
        /\ \/ uart'.flag = uart.flag
           \/ uart'.flag = uart.flag \cup {"WAIT_SENDING"}
           \/ uart'.flag = uart.flag \cup {"WAIT_SENDING", "SEND_ERROR"}
        /\ uart'.line = uart.line /\ uart'.data = uart.data
    BY <1>3 DEF RxSend, Raise, Unspelled
  <2>2. QED
    BY <2>1
<1>4. CASE RxStart(w)
  <2>1. /\ uart'.state = "START" /\ uart'.flag = uart.flag /\ uart'.data = uart.data
        /\ uart'.line = uart.line \cup {w}
    BY <1>4 DEF RxStart
  <2>2. QED
    BY <2>1
<1>5. CASE RxIdle(w)
  BY <1>5 DEF RxIdle
<1>6. QED
  BY <1>1, <1>2, <1>3, <1>4, <1>5

(***************************************************************************)
(* The steps of ModemChannel, one by one, as steps of the abstraction.     *)
(***************************************************************************)
\* Before it is sent a command promises nothing; when it leaves, no more than
\* before.
LEMMA PromiseAtSend ==
    ASSUME TypeOK, Sending, Send
    PROVE  Promised' => Promised
<1>1. /\ pc = "prepared" /\ pc' = "waiting" /\ cmd' = cmd
      /\ uart'.flag = uart.flag /\ uart'.state = StateFor(cmd.kind)
      /\ cmd.kind \in {"start", "config", "open"} => uart'.line = {}
      /\ cmd.kind = "fetch" => uart'.data = {}
  BY DEF Send, TypeOK, Receivers
<1>2. cmd.kind \in Kinds
  BY DEF TypeOK, Issued
<1>3. CASE cmd.kind \in {"config", "open"}
  BY <1>1, <1>3 DEF Promised, Satisfied, Response, StateFor
<1>4. CASE cmd.kind = "send"
  BY <1>1, <1>4 DEF Promised, Satisfied, Response, StateFor, Sending
<1>5. CASE cmd.kind = "fetch"
  BY <1>1, <1>5 DEF Promised, Satisfied, StateFor
<1>6. CASE cmd.kind = "start"
  BY <1>1, <1>6 DEF Promised, Satisfied
<1>7. QED
  BY <1>2, <1>3, <1>4, <1>5, <1>6 DEF Kinds

LEMMA AbstractInit == Init => Channel!Init
<1> SUFFICES ASSUME Init PROVE Channel!Init
  OBVIOUS
<1>1. TypeOK
  BY TypeInit
<1>2. ~Promised
  BY DEF Init, Promised
<1>3. Places(wire) = {}
  BY DEF Init, Places
<1>4. Credit = 0
  BY <1>1, <1>2, <1>3, CreditValue, FS_EmptySet
<1>5. QED
  BY <1>4 DEF Init, Channel!Init

Count == Cardinality(Places(wire))
Extra == IF Promised THEN 1 ELSE 0

LEMMA CreditParts ==
    ASSUME TypeOK, TypeOK'
    PROVE  /\ Credit = Count + Extra /\ Credit' = Count' + Extra'
           /\ Count \in Nat /\ Count' \in Nat
           /\ Extra \in 0 .. 1 /\ Extra' \in 0 .. 1
           /\ Promised <=> Extra = 1
           /\ Promised' <=> Extra' = 1
<1>1. Count \in Nat /\ Credit = Count + Extra
  BY CreditValue DEF Count, Extra
<1>2. Count' \in Nat /\ Credit' = Count' + Extra'
  BY CountType DEF TypeOK, Credit, Carried, Places, Count, Extra
<1>3. /\ Extra \in 0 .. 1 /\ Extra' \in 0 .. 1
      /\ Promised <=> Extra = 1
      /\ Promised' <=> Extra' = 1
  BY DEF Extra
<1>4. QED
  BY <1>1, <1>2, <1>3

\* What the line and the receiver gain and lose, added up.
LEMMA Sums ==
    ASSUME NEW c \in Nat, NEW d \in Nat, NEW e \in 0 .. 1, NEW f \in 0 .. 1
    PROVE  /\ d + 0 = d
           /\ d = c /\ f <= e => d + f \in 0 .. c + e
           /\ c = d + 1 => d + f <= c + e
           /\ c = d /\ f <= e => d + f <= c + e
OBVIOUS

\* Credit that does not grow is a step of the abstraction by itself.
LEMMA Forgetting ==
    ASSUME TypeOK, TypeOK', UNCHANGED pc, Len(todo') <= Len(todo), Credit' <= Credit
    PROVE  Channel!Forget
<1>1. Len(todo) \in Nat /\ Len(todo') \in Nat
  BY LenProperties DEF TypeOK
<1>2. Credit \in Nat /\ Credit' \in Nat
  BY CreditParts
<1>3. QED
  BY <1>1, <1>2 DEF Channel!Forget

LEMMA AbstractStep ==
    TypeOK /\ TypeOK' /\ Sending /\ [Next]_vars => [Channel!Next]_(Channel!vars)
<1> SUFFICES ASSUME TypeOK, TypeOK', Sending, [Next]_vars
             PROVE  Channel!Next \/ UNCHANGED Channel!vars
  OBVIOUS
<1>1. /\ wire \in Seq(Words) /\ wire' \in Seq(Words)
      /\ todo \in Seq(Kinds) /\ todo' \in Seq(Kinds)
      /\ Len(todo) \in Nat /\ Len(todo') \in Nat
  BY LenProperties DEF TypeOK
<1>2. /\ Credit = Count + Extra /\ Credit' = Count' + Extra'
      /\ Count \in Nat /\ Count' \in Nat
      /\ Extra \in 0 .. 1 /\ Extra' \in 0 .. 1
  BY CreditParts
<1>3. ASSUME NEW kind \in Kinds, Prepare(kind) PROVE UNCHANGED Channel!vars
  <2>1. pc = "idle" /\ pc' = "prepared" /\ cmd'.kind = kind /\ UNCHANGED <<todo, wire>>
    BY <1>3 DEF Prepare, line
  <2>2. kind # "start" => uart'.flag = {}
    BY <1>3 DEF Prepare, TypeOK, Receivers
  <2>3. Extra = 0 /\ Extra' = 0
    <3>1. ~Promised /\ ~Promised'
      BY <2>1, <2>2 DEF Promised, Satisfied, Response
    <3>2. QED
      BY <3>1 DEF Extra
  <2>4. Count' = Count
    BY <2>1 DEF Count
  <2>5. Credit' = Credit
    BY <1>2, <2>3, <2>4
  <2>6. QED
    BY <2>1, <2>5 DEF Channel!vars
<1>4. CASE Send
  <2>1. pc = "prepared" /\ pc' = "waiting"
    BY <1>4 DEF Send
  <2>2. CASE cmd.kind = "start"
    <3>1. wire' = <<>> /\ todo' = <<"start">> /\ cmd' = cmd /\ uart'.line = {}
      BY <1>4, <2>2 DEF Send, TypeOK, Receivers
    <3>2. Extra' = 0
      <4>1. ~Promised'
        BY <2>1, <2>2, <3>1 DEF Promised, Satisfied
      <4>2. QED
        BY <4>1 DEF Extra
    <3>3. Count' = 0
      <4>1. Places(wire)' = {}
        BY <3>1 DEF Places
      <4>2. QED
        BY <4>1, FS_EmptySet DEF Count
    <3>4. Credit' = 0 /\ Len(todo') = 1
      BY <1>2, <3>1, <3>2, <3>3
    <3>5. Channel!Restart
      BY <2>1, <3>4 DEF Channel!Restart
    <3>6. QED
      BY <3>5 DEF Channel!Next
  <2>3. CASE cmd.kind # "start"
    <3>1. wire' = wire /\ todo' = Append(todo, cmd.kind)
      BY <1>4, <2>3 DEF Send
    <3>2. Len(todo') = Len(todo) + 1
      BY <1>1, <3>1
    <3>3. Credit' \in 0 .. Credit
      <4>1. Count' = Count
        BY <3>1 DEF Count
      <4>2. Extra' <= Extra
        BY <1>4, PromiseAtSend DEF Extra
      <4>3. QED
        BY <1>2, <4>1, <4>2, Sums
    <3>4. Channel!Issue
      BY <2>1, <3>2, <3>3 DEF Channel!Issue
    <3>5. QED
      BY <3>4 DEF Channel!Next
  <2>4. QED
    BY <2>2, <2>3
<1>5. CASE Return \/ TimeOut
  <2>1. PICK ok \in BOOLEAN : Finish(ok) /\ (ok => Satisfied) /\ pc = "waiting"
    BY <1>5 DEF Return, TimeOut, Satisfied
  <2>2. pc' = "idle" /\ UNCHANGED <<todo, wire>>
    BY <2>1 DEF Finish
  <2>3. Extra' = 0 /\ Count' = Count
    <3>1. ~Promised'
      BY <2>2 DEF Promised
    <3>2. QED
      BY <2>2, <3>1 DEF Extra, Count
  <2>4. CASE ok
    <3>1. Extra = 1
      BY <2>1, <2>4 DEF Promised, Extra
    <3>2. Credit > 0 /\ Credit' \in 0 .. (Credit - 1)
      BY <1>2, <2>3, <3>1
    <3>3. Channel!Succeed
      BY <2>1, <2>2, <3>2 DEF Channel!Succeed
    <3>4. QED
      BY <3>3 DEF Channel!Next
  <2>5. CASE ~ok
    <3>1. Credit' \in 0 .. Credit
      BY <1>2, <2>3
    <3>2. Channel!Fail
      BY <2>1, <2>2, <3>1 DEF Channel!Fail
    <3>3. QED
      BY <3>2 DEF Channel!Next
  <2>6. QED
    BY <2>4, <2>5
<1>6. CASE Receive
  <2>1. wire # <<>> /\ wire' = Tail(wire) /\ UNCHANGED <<pc, cmd, todo>>
    BY <1>6 DEF Receive
  <2>2. Count = Count' + (IF Head(wire) \in Affirmative THEN 1 ELSE 0)
    BY <1>1, <2>1, CountTail DEF Count
  <2>3. Head(wire) \in Words
    BY <1>1, <2>1, TailOfLine
  <2>4. Head(wire) \notin Affirmative => Extra' <= Extra
    <3>1. Head(wire) \notin Affirmative /\ ~Promised => ~Promised'
      BY <1>6, <2>1, <2>3, NoNewPromise DEF Receive
    <3>2. QED
      BY <3>1 DEF Extra
  <2>5. Credit' <= Credit
    <3>1. CASE Head(wire) \in Affirmative
      <4>1. Count = Count' + 1
        BY <2>2, <3>1
      <4>2. QED
        BY <1>2, <4>1, Sums
    <3>2. CASE Head(wire) \notin Affirmative
      <4>1. Count = Count'
        <5>1. Count = Count' + 0
          BY <2>2, <3>2
        <5>2. Count' + 0 = Count'
          BY <1>2, Sums
        <5>3. QED
          BY <5>1, <5>2
      <4>2. Extra' <= Extra
        BY <2>4, <3>2
      <4>3. QED
        BY <1>2, <4>1, <4>2, Sums
    <3>3. QED
      BY <3>1, <3>2
  <2>6. QED
    BY <1>1, <2>1, <2>5, Forgetting DEF Channel!Next
<1>7. CASE Lose
  <2>1. wire # <<>> /\ wire' = Tail(wire) /\ UNCHANGED <<pc, cmd, uart, todo>>
    BY <1>7 DEF Lose
  <2>2. Count = Count' + (IF Head(wire) \in Affirmative THEN 1 ELSE 0)
    BY <1>1, <2>1, CountTail DEF Count
  <2>3. Extra' = Extra
    BY <2>1 DEF Extra, Promised, Satisfied, Response
  <2>4. Credit' <= Credit
    <3>1. CASE Head(wire) \in Affirmative
      <4>1. Count = Count' + 1
        BY <2>2, <3>1
      <4>2. QED
        BY <1>2, <4>1, Sums
    <3>2. CASE Head(wire) \notin Affirmative
      <4>1. Count = Count'
        <5>1. Count = Count' + 0
          BY <2>2, <3>2
        <5>2. Count' + 0 = Count'
          BY <1>2, Sums
        <5>3. QED
          BY <5>1, <5>2
      <4>2. Extra' <= Extra
        BY <1>2, <2>3
      <4>3. QED
        BY <1>2, <4>1, <4>2, Sums
    <3>3. QED
      BY <3>1, <3>2
  <2>5. QED
    BY <1>1, <2>1, <2>4, Forgetting DEF Channel!Next
<1>8. CASE Answer
  <2>1. PICK w \in Answers(Head(todo)) : wire' = wire \o <<"LF", w, "LF">>
    BY <1>8 DEF Answer
  <2>2. todo # <<>> /\ todo' = Tail(todo) /\ UNCHANGED <<pc, cmd, uart>>
    BY <1>8 DEF Answer
  <2>3. Len(todo) > 0 /\ Len(todo') = Len(todo) - 1
    BY <1>1, <2>2
  <2>4. w \in Words
    BY <1>1, <2>1, <2>2, AnswersAreWords
  <2>5. Count' = Count + (IF w \in Affirmative THEN 1 ELSE 0)
    BY <1>1, <2>1, <2>4, CountFramed DEF Count
  <2>6. Extra' = Extra
    BY <2>2 DEF Extra, Promised, Satisfied, Response
  <2>7. CASE w \in Affirmative
    <3>1. Credit' = Credit + 1
      BY <1>2, <2>5, <2>6, <2>7
    <3>2. Channel!Accept
      BY <2>2, <2>3, <3>1 DEF Channel!Accept
    <3>3. QED
      BY <3>2 DEF Channel!Next
  <2>8. CASE w \notin Affirmative
    <3>1. Credit' <= Credit
      BY <1>2, <2>5, <2>6, <2>8
    <3>2. QED
      BY <1>1, <2>2, <2>3, <3>1, Forgetting DEF Channel!Next
  <2>9. QED
    BY <2>7, <2>8
<1>9. CASE Ignore
  <2>1. todo # <<>> /\ todo' = Tail(todo) /\ UNCHANGED <<pc, cmd, uart, wire>>
    BY <1>9 DEF Ignore
  <2>2. Len(todo') = Len(todo) - 1
    BY <1>1, <2>1
  <2>3. Credit' <= Credit
    <3>1. Extra' = Extra
      BY <2>1 DEF Extra, Promised, Satisfied, Response
    <3>2. Count' = Count
      BY <2>1 DEF Count
    <3>3. QED
      BY <1>2, <3>1, <3>2
  <2>4. QED
    BY <1>1, <2>1, <2>2, <2>3, Forgetting DEF Channel!Next
<1>10. CASE Note
  <2>1. wire' = wire \o <<"LF", "NOTE", "LF">> /\ UNCHANGED <<pc, cmd, uart, todo>>
    BY <1>10 DEF Note
  <2>2. "NOTE" \in Words /\ "NOTE" \notin Affirmative
    BY DEF Words, Affirmative
  <2>3. Count' = Count
    BY <1>1, <1>2, <2>1, <2>2, CountFramed DEF Count
  <2>4. Extra' = Extra
    BY <2>1 DEF Extra, Promised, Satisfied, Response
  <2>5. Credit' <= Credit
    BY <1>2, <2>3, <2>4
  <2>6. QED
    BY <1>1, <2>1, <2>5, Forgetting DEF Channel!Next
<1>11. CASE UNCHANGED vars
  <2>1. UNCHANGED <<pc, cmd, uart, todo, wire>>
    BY <1>11 DEF vars, line
  <2>2. Credit' = Credit
    BY <2>1 DEF Credit, Carried, Promised, Satisfied, Response
  <2>3. QED
    BY <2>1, <2>2 DEF Channel!vars
<1>12. CASE Rest
  <2>1. pc = "idle" /\ UNCHANGED <<pc, todo, wire>>
    BY <1>12 DEF Rest, line
  <2>2. Credit' = Credit
    BY <2>1 DEF Credit, Carried, Promised
  <2>3. QED
    BY <2>1, <2>2 DEF Channel!vars
<1>13. QED
  BY <1>3, <1>4, <1>5, <1>6, <1>7, <1>8, <1>9, <1>10, <1>11, <1>12 DEF Next

\* One answer of the modem is never taken for the success of two commands:
\* the channel implements CommandChannel.
THEOREM SuccessesEarned == Spec => EverySuccessEarned
<1>1. TypeOK /\ Sending /\ [Next]_vars => TypeOK' /\ Sending'
  BY TypeStep, SendingStep
<1>2. Init => TypeOK /\ Sending /\ Channel!Init
  BY TypeInit, SendingInit, AbstractInit
<1>3. QED
  BY <1>1, <1>2, AbstractStep, PTL DEF Spec, EverySuccessEarned, Channel!Spec

(***************************************************************************)
(* Answers that are seen.                                                  *)
(***************************************************************************)
\* The receiver as the command finds it when nothing else came.
Primed ==
    /\ uart.state = StateFor(cmd.kind)
    /\ cmd.kind # "start" => uart.flag = {}

\* The receiver after the line feed before the answer,
Opened ==
    /\ uart.state = StateFor(cmd.kind)
    /\ cmd.kind \in {"config", "open"} => uart.flag = {"RECEIVING"} /\ uart.line = {}
    /\ cmd.kind = "fetch" => uart.flag = {"DATA_RECEIVING"} /\ uart.data = {}
    /\ cmd.kind = "send" => uart.flag = {}

\* and after the answer w.
Heard(w) ==
    CASE cmd.kind = "start" -> uart.state = "START" /\ w \in uart.line
      [] cmd.kind = "send"  -> Satisfied /\ uart.state = "IDLE"
      [] cmd.kind = "fetch" -> /\ uart.state = "DATA" /\ uart.data = {w}
                               /\ "DATA_RECEIVING" \in uart.flag
      [] OTHER              -> /\ uart.state = "WAIT" /\ uart.line = {w}
                               /\ uart.flag = {"RECEIVING"}

\* How far the acceptance w has come.
Coming(w) ==
    \/ wire = <<"LF", w, "LF">> /\ Primed
    \/ wire = <<w, "LF">> /\ Opened
    \/ wire = <<"LF">> /\ Heard(w)
    \/ wire = <<>> /\ Satisfied

\* The strengthening: as long as nothing else came, a command that is waited for
\* is unanswered, was refused, or its acceptance is on one of these four stages.
Undisturbed ==
    /\ quiet /\ pc = "prepared" =>
          /\ ~granted
          /\ cmd.kind # "start" => todo = <<>> /\ wire = <<>> /\ uart.flag = {}
    /\ quiet /\ pc = "waiting" =>
          \/ ~granted /\ todo = <<>>
          \/ ~granted /\ todo = <<cmd.kind>> /\ wire = <<>> /\ Primed
          \/ todo = <<>> /\ \E w \in Answers(cmd.kind) \cap Affirmative : Coming(w)

\* What the modem says to the commands it accepts.
LEMMA Acceptances ==
    ASSUME NEW kind \in Kinds, NEW w \in Answers(kind) \cap Affirmative
    PROVE  /\ w \in Words /\ w # "LF"
           /\ kind = "start" => w = "READY"
           /\ kind \in {"config", "send"} => w = "OK"
           /\ kind = "open" => w \in {"OK", "CONNECT"}
           /\ kind = "fetch" => w = "DATA"
BY DEF Kinds, Answers, Affirmative, Words

LEMMA FeedOpens ==
    ASSUME uart \in Receivers, cmd.kind \in Kinds, cmd' = cmd, Primed,
           RxWait("LF") \/ RxData("LF") \/ RxSend("LF") \/ RxStart("LF") \/ RxIdle("LF")
    PROVE  Opened'
<1> USE DEF Receivers, Kinds, StateFor, Primed
<1>1. CASE cmd.kind \in {"config", "open"}
  <2>1. RxWait("LF")
    BY <1>1 DEF RxData, RxSend, RxStart, RxIdle
  <2>2. uart' = [[uart EXCEPT !.flag = {"RECEIVING"}] EXCEPT !.line = {}]
    BY <1>1, <2>1 DEF RxWait, Raise
  <2>3. QED
    BY <1>1, <2>2 DEF Opened
<1>2. CASE cmd.kind = "fetch"
  <2>1. RxData("LF")
    BY <1>2 DEF RxWait, RxSend, RxStart, RxIdle
  <2>2. uart' = [[uart EXCEPT !.flag = {"DATA_RECEIVING"}] EXCEPT !.data = {}]
    BY <1>2, <2>1 DEF RxData, Raise
  <2>3. QED
    BY <1>2, <2>2 DEF Opened
<1>3. CASE cmd.kind = "send"
  <2>1. RxSend("LF")
    BY <1>3 DEF RxWait, RxData, RxStart, RxIdle
  <2>2. uart' = uart
    BY <2>1 DEF RxSend, Unspelled
  <2>3. QED
    BY <1>3, <2>2 DEF Opened
<1>4. CASE cmd.kind = "start"
  BY <1>4 DEF RxWait, RxData, RxSend, RxStart, RxIdle, Opened
<1>5. QED
  BY <1>1, <1>2, <1>3, <1>4

LEMMA WordHeard ==
    ASSUME uart \in Receivers, cmd.kind \in Kinds, cmd' = cmd, Opened,
           NEW w \in Answers(cmd.kind) \cap Affirmative,
           RxWait(w) \/ RxData(w) \/ RxSend(w) \/ RxStart(w) \/ RxIdle(w)
    PROVE  Heard(w)'
<1> USE DEF Receivers, Kinds, StateFor, Opened
<1>1. CASE cmd.kind \in {"config", "open"}
  <2>1. RxWait(w) /\ w # "LF"
    BY <1>1, Acceptances DEF RxData, RxSend, RxStart, RxIdle
  <2>2. uart' = [uart EXCEPT !.line = {w}]
    BY <1>1, <2>1 DEF RxWait
  <2>3. uart'.state = "WAIT" /\ uart'.line = {w} /\ uart'.flag = {"RECEIVING"}
    BY <1>1, <2>2
  <2>4. QED
    BY <1>1, <2>3 DEF Heard
<1>2. CASE cmd.kind = "fetch"
  <2>1. RxData(w) /\ w # "LF"
    BY <1>2, Acceptances DEF RxWait, RxSend, RxStart, RxIdle
  <2>2. uart' = [uart EXCEPT !.data = {w}]
    BY <1>2, <2>1 DEF RxData
  <2>3. QED
    BY <1>2, <2>2 DEF Heard
<1>3. CASE cmd.kind = "send"
  <2>1. RxSend(w) /\ w = "OK"
    BY <1>3, Acceptances DEF RxWait, RxData, RxStart, RxIdle
  <2>2. uart'.state = "IDLE" /\ uart'.flag = {"WAIT_SENDING", "SEND_OK"}
    BY <1>3, <2>1 DEF RxSend, Raise, Unspelled
  <2>3. QED
    BY <1>3, <2>2 DEF Heard, Satisfied, Response
<1>4. CASE cmd.kind = "start"
  <2>1. uart' = [uart EXCEPT !.line = @ \cup {w}]
    BY <1>4 DEF RxWait, RxData, RxSend, RxStart, RxIdle
  <2>2. QED
    BY <1>4, <2>1 DEF Heard
<1>5. QED
  BY <1>1, <1>2, <1>3, <1>4

LEMMA FeedSatisfies ==
    ASSUME uart \in Receivers, cmd.kind \in Kinds, cmd' = cmd,
           NEW w \in Answers(cmd.kind) \cap Affirmative, Heard(w),
           RxWait("LF") \/ RxData("LF") \/ RxSend("LF") \/ RxStart("LF") \/ RxIdle("LF")
    PROVE  Satisfied'
<1> USE DEF Receivers, Kinds
<1>1. CASE cmd.kind \in {"config", "open"}
  <2>1. uart.state = "WAIT" /\ uart.line = {w} /\ uart.flag = {"RECEIVING"}
    BY <1>1 DEF Heard
  <2>2. RxWait("LF")
    BY <2>1 DEF RxData, RxSend, RxStart, RxIdle
  <2>3. CASE w = "OK"
    <3>1. uart'.flag = {"RECEIVING", "OK"}
      BY <2>1, <2>2, <2>3 DEF RxWait
    <3>2. QED
      BY <1>1, <3>1 DEF Satisfied, Response
  <2>4. CASE w = "CONNECT" /\ cmd.kind = "open"
    <3>1. uart' = [uart EXCEPT !.state = "IDLE",
                 !.flag = (@ \ {"OK", "ERROR"}) \cup (@ \cap {"OK", "ERROR"})
                          \cup ({w} \cap {"CONNECT"})]
      BY <2>1, <2>2, <2>4 DEF RxWait
    <3>2. uart'.flag = {"RECEIVING", "CONNECT"}
      BY <2>1, <2>4, <3>1
    <3>3. QED
      BY <2>4, <3>2 DEF Satisfied, Response
  <2>5. QED
    BY <1>1, <2>3, <2>4, Acceptances
<1>2. CASE cmd.kind = "fetch"
  <2>1. /\ uart.state = "DATA" /\ uart.data = {"DATA"}
        /\ "DATA_RECEIVING" \in uart.flag
    BY <1>2, Acceptances DEF Heard
  <2>2. RxData("LF")
    BY <2>1 DEF RxWait, RxSend, RxStart, RxIdle
  <2>3. "DATA_FINISH" \in uart'.flag /\ uart'.data = {"DATA"}
    BY <2>1, <2>2 DEF RxData, Raise
  <2>4. QED
    BY <1>2, <2>3 DEF Satisfied
<1>3. CASE cmd.kind = "send"
  <2>1. uart.state = "IDLE" /\ Satisfied
    BY <1>3 DEF Heard
  <2>2. uart' = uart
    BY <2>1 DEF RxWait, RxData, RxSend, RxStart, RxIdle
  <2>3. QED
    BY <2>1, <2>2 DEF Satisfied, Response
<1>4. CASE cmd.kind = "start"
  <2>1. uart.state = "START" /\ "READY" \in uart.line
    BY <1>4, Acceptances DEF Heard
  <2>2. "READY" \in uart'.line
    BY <2>1 DEF RxWait, RxData, RxSend, RxStart, RxIdle
  <2>3. QED
    BY <1>4, <2>2 DEF Satisfied
<1>5. QED
  BY <1>1, <1>2, <1>3, <1>4

LEMMA UndisturbedStep == TypeOK /\ Undisturbed /\ [Next]_vars => Undisturbed'
<1> SUFFICES ASSUME TypeOK, Undisturbed, [Next]_vars PROVE Undisturbed'
  OBVIOUS
<1>0. uart \in Receivers /\ cmd.kind \in Kinds /\ todo \in Seq(Kinds)
  BY DEF TypeOK, Issued
<1>1. ASSUME NEW kind \in Kinds, Prepare(kind) PROVE Undisturbed'
  <2>1. /\ pc' = "prepared" /\ ~granted' /\ cmd'.kind = kind
        /\ todo' = todo /\ wire' = wire
        /\ quiet' => kind = "start" \/ (todo = <<>> /\ wire = <<>>)
        /\ kind # "start" => uart'.flag = {}
    BY <1>0, <1>1 DEF Prepare, line, Receivers
  <2>2. QED
    BY <2>1 DEF Undisturbed
<1>2. CASE Send
  <2>1. SUFFICES ASSUME quiet PROVE /\ ~granted' /\ todo' = <<cmd'.kind>>
                                    /\ wire' = <<>> /\ Primed'
    BY <1>2 DEF Send, Undisturbed
  <2>2. ~granted' /\ todo' = <<cmd'.kind>> /\ wire' = <<>>
    <3>1. ~granted /\ (cmd.kind # "start" => todo = <<>> /\ wire = <<>>)
      BY <1>2, <2>1 DEF Send, Undisturbed
    <3>2. \A k \in Kinds : Append(<<>>, k) = <<k>>
      OBVIOUS
    <3>3. CASE cmd.kind = "start"
      BY <1>2, <3>1, <3>3 DEF Send
    <3>4. CASE cmd.kind # "start"
      BY <1>0, <1>2, <3>1, <3>2, <3>4 DEF Send
    <3>5. QED
      BY <3>3, <3>4
  <2>3. Primed'
    BY <1>0, <1>2, <2>1 DEF Send, Undisturbed, Primed, Receivers
  <2>4. QED
    BY <2>2, <2>3
<1>3. CASE Return \/ TimeOut
  BY <1>3 DEF Return, TimeOut, Finish, Undisturbed
<1>4. CASE Receive
  <2>1. SUFFICES ASSUME quiet, pc = "waiting", NEW w \in Answers(cmd.kind) \cap Affirmative,
                        todo = <<>>, Coming(w)
                 PROVE  Coming(w)'
    <3>1. UNCHANGED <<pc, cmd, todo, granted, quiet>> /\ wire # <<>>
      BY <1>4 DEF Receive
    <3>2. CASE quiet /\ pc = "waiting"
      <4>1. CASE ~granted /\ todo = <<>>
        BY <3>1, <3>2, <4>1 DEF Undisturbed
      <4>2. CASE ~(~granted /\ todo = <<>>)
        <5>1. PICK w \in Answers(cmd.kind) \cap Affirmative : todo = <<>> /\ Coming(w)
          BY <3>1, <3>2, <4>2 DEF Undisturbed
        <5>2. Coming(w)'
          BY <2>1, <3>2, <5>1
        <5>3. QED
          BY <3>1, <3>2, <5>1, <5>2 DEF Undisturbed
      <4>3. QED
        BY <4>1, <4>2
    <3>3. CASE quiet /\ pc = "prepared"
      <4>1. ~granted /\ cmd.kind = "start"
        BY <3>1, <3>3 DEF Undisturbed
      <4>2. QED
        BY <3>1, <3>3, <4>1 DEF Undisturbed
    <3>4. QED
      BY <3>1, <3>2, <3>3 DEF Undisturbed
  <2>2. /\ wire # <<>> /\ wire' = Tail(wire) /\ cmd' = cmd
        /\ \/ RxWait(Head(wire)) \/ RxData(Head(wire)) \/ RxSend(Head(wire))
           \/ RxStart(Head(wire)) \/ RxIdle(Head(wire))
    BY <1>4 DEF Receive
  <2>3. CASE wire = <<"LF", w, "LF">> /\ Primed
    <3>1. Head(wire) = "LF" /\ wire' = <<w, "LF">>
      BY <2>2, <2>3
    <3>2. Opened'
      BY <1>0, <2>2, <2>3, <3>1, FeedOpens
    <3>3. QED
      BY <3>1, <3>2 DEF Coming
  <2>4. CASE wire = <<w, "LF">> /\ Opened
    <3>1. Head(wire) = w /\ wire' = <<"LF">>
      BY <2>2, <2>4
    <3>2. Heard(w)'
      BY <1>0, <2>2, <2>4, <3>1, WordHeard
    <3>3. QED
      BY <3>1, <3>2 DEF Coming
  <2>5. CASE wire = <<"LF">> /\ Heard(w)
    <3>1. Head(wire) = "LF" /\ wire' = <<>>
      BY <2>2, <2>5
    <3>2. Satisfied'
      BY <1>0, <2>2, <2>5, <3>1, FeedSatisfies
    <3>3. QED
      BY <3>1, <3>2 DEF Coming
  <2>6. QED
    BY <2>1, <2>2, <2>3, <2>4, <2>5 DEF Coming
<1>5. CASE Lose \/ Note
  BY <1>5 DEF Lose, Note, Undisturbed
<1>6. CASE Answer
  <2>1. PICK w \in Answers(Head(todo)) :
            /\ todo # <<>> /\ todo' = Tail(todo)
            /\ wire' = wire \o <<"LF", w, "LF">>
            /\ granted' = IF Len(todo) = 1 /\ pc # "prepared"
                          THEN w \in Affirmative ELSE granted
            /\ UNCHANGED <<pc, cmd, uart, quiet>>
    BY <1>6 DEF Answer
  <2>2. CASE quiet /\ pc = "waiting"
    <3>1. todo = <<cmd.kind>> /\ wire = <<>> /\ Primed
      BY <2>1, <2>2 DEF Undisturbed
    <3>2. /\ Head(todo) = cmd.kind /\ Len(todo) = 1 /\ todo' = <<>>
      BY <2>1, <3>1
    <3>3. wire' = <<"LF", w, "LF">>
      BY <2>1, <3>1
    <3>4. CASE w \in Affirmative
      <4>1. Primed'
        BY <2>1, <3>1 DEF Primed
      <4>2. w \in Answers(cmd'.kind) \cap Affirmative /\ Coming(w)'
        BY <2>1, <3>2, <3>3, <3>4, <4>1 DEF Coming
      <4>3. QED
        BY <2>1, <2>2, <3>2, <4>2 DEF Undisturbed
    <3>5. CASE w \notin Affirmative
      <4>1. ~granted'
        BY <2>1, <2>2, <3>2, <3>5
      <4>2. QED
        BY <2>1, <2>2, <3>2, <4>1 DEF Undisturbed
    <3>6. QED
      BY <3>4, <3>5
  <2>3. CASE quiet /\ pc = "prepared"
    <3>1. ~granted /\ cmd.kind = "start"
      BY <2>1, <2>3 DEF Undisturbed
    <3>2. ~granted'
      BY <2>1, <2>3, <3>1
    <3>3. QED
      BY <2>1, <2>3, <3>1, <3>2 DEF Undisturbed
  <2>4. QED
    BY <2>1, <2>2, <2>3 DEF Undisturbed
<1>7. CASE Ignore
  <2>1. /\ todo # <<>> /\ todo' = Tail(todo)
        /\ UNCHANGED <<pc, cmd, uart, wire, granted, quiet>>
    BY <1>7 DEF Ignore
  <2>2. CASE quiet /\ pc = "waiting"
    <3>1. ~granted /\ todo = <<cmd.kind>>
      BY <2>1, <2>2 DEF Undisturbed
    <3>2. todo' = <<>>
      BY <2>1, <3>1
    <3>3. QED
      BY <2>1, <2>2, <3>1, <3>2 DEF Undisturbed
  <2>3. CASE quiet /\ pc = "prepared"
    <3>1. ~granted /\ cmd.kind = "start"
      BY <2>1, <2>3 DEF Undisturbed
    <3>2. QED
      BY <2>1, <2>3, <3>1 DEF Undisturbed
  <2>4. QED
    BY <2>1, <2>2, <2>3 DEF Undisturbed
<1>8. CASE UNCHANGED vars
  BY <1>8 DEF vars, line, Undisturbed, Primed, Opened, Heard, Coming, Satisfied, Response
<1>9. CASE Rest
  BY <1>9 DEF Rest, Undisturbed
<1>10. QED
  BY <1>1, <1>2, <1>3, <1>4, <1>5, <1>6, <1>7, <1>8, <1>9 DEF Next

\* An acceptance that arrived completely, with nothing else on the line, is seen
\* by the next poll, whatever state the commands before left the receiver in.
THEOREM AnswersSeen == Spec => []PromptAnswerSeen
<1>1. Init => Undisturbed
  BY DEF Init, Undisturbed
<1>2. Undisturbed => PromptAnswerSeen
  <2> SUFFICES ASSUME Undisturbed, pc = "waiting", quiet, granted, wire = <<>>
               PROVE  Satisfied
    BY DEF PromptAnswerSeen
  <2>1. PICK w \in Answers(cmd.kind) \cap Affirmative : Coming(w)
    BY DEF Undisturbed
  <2>2. QED
    BY <2>1 DEF Coming
<1>3. QED
  BY <1>1, <1>2, TypeCorrect, UndisturbedStep, PTL DEF Spec
=============================================================================
