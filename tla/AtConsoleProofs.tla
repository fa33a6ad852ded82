----------------------------- MODULE AtConsoleProofs -----------------------------
(* The console's history is faithful, for every history size and set of commands. *)
EXTENDS AtConsole, SequenceTheorems, TLAPS

Answers == Len(sent) - Len(flight)

\* The command under way is the last one sent, and none is cleared before its answer.
FlightInv ==
  /\ sending <=> flight # <<>>
  /\ flight # <<>> => Len(sent) >= 1 /\ flight[1] = sent[Len(sent)]
  /\ cleared <= Answers

IInv == TypeOK /\ FlightInv /\ HistoryInOrder

LEMMA Lengths ==
  ASSUME TypeOK, FlightInv
  PROVE  /\ Len(sent) \in Nat /\ Len(history) \in Nat /\ cleared \in Nat /\ HistorySize \in Nat \ {0}
         /\ flight = <<>> => Len(flight) = 0
         /\ flight # <<>> => Len(flight) = 1 /\ Head(flight) = flight[1] /\ Head(flight) \in Cmds
                             /\ Tail(flight) = <<>>
         /\ Answers \in Nat /\ Answers <= Len(sent)
<1>1. Len(sent) \in Nat /\ Len(history) \in Nat /\ Len(flight) \in Nat /\ cleared \in Nat
  BY LenProperties DEF TypeOK
<1>2. flight # <<>> => Len(flight) = 1
  <2>1. flight # <<>> => Len(flight) \in Nat \ {0}
    BY EmptySeq DEF TypeOK
  <2>2. Len(flight) <= 1
    BY DEF TypeOK
  <2>3. \A n \in Nat \ {0} : n <= 1 => n = 1
    OBVIOUS
  <2> QED BY <2>1, <2>2, <2>3
<1>3. flight # <<>> => Head(flight) = flight[1] /\ Head(flight) \in Cmds /\ Tail(flight) = <<>>
  <2> SUFFICES ASSUME flight # <<>>
               PROVE  Head(flight) = flight[1] /\ Head(flight) \in Cmds /\ Tail(flight) = <<>>
    OBVIOUS
  <2>1. /\ Head(flight) \in Cmds /\ Tail(flight) \in Seq(Cmds) /\ Len(Tail(flight)) = 0
    BY <1>2, HeadTailProperties DEF TypeOK
  <2>2. Tail(flight) = <<>>
    BY <2>1, EmptySeq
  <2>3. Head(flight) = flight[1]
    BY <1>2 DEF TypeOK
  <2> QED BY <2>1, <2>2, <2>3
<1>4. flight = <<>> => Len(flight) = 0
  BY EmptySeq
<1> QED BY <1>1, <1>2, <1>3, <1>4, ConsoleOK DEF Answers, FlightInv

\* Pushed puts the new entry in front and cuts the oldest one when the history is full.
LEMMA PushedFront ==
  ASSUME history \in Seq(Entry), HistorySize \in Nat \ {0}, Len(history) <= HistorySize,
         NEW e \in Entry
  PROVE  LET n == IF Len(history) < HistorySize THEN Len(history) + 1 ELSE HistorySize IN
         /\ Pushed(e) \in Seq(Entry) /\ Len(Pushed(e)) = n
         /\ Pushed(e)[1] = e
         /\ \A i \in 2 .. n : Pushed(e)[i] = history[i - 1]
<1> DEFINE n == IF Len(history) < HistorySize THEN Len(history) + 1 ELSE HistorySize
           all == <<e>> \o history
<1>1. Len(history) \in Nat /\ n \in 1 .. Len(history) + 1
  BY LenProperties
<1>2. <<e>> \in Seq(Entry) /\ Len(<<e>>) = 1 /\ <<e>>[1] = e
  OBVIOUS
<1>3. /\ all \in Seq(Entry) /\ Len(all) = Len(history) + 1
      /\ \A i \in 1 .. Len(history) + 1 : all[i] = IF i <= 1 THEN <<e>>[i] ELSE history[i - 1]
  <2>1. /\ all \in Seq(Entry) /\ Len(all) = Len(<<e>>) + Len(history)
        /\ \A i \in 1 .. Len(<<e>>) + Len(history) :
             all[i] = IF i <= Len(<<e>>) THEN <<e>>[i] ELSE history[i - Len(<<e>>)]
    BY <1>2, ConcatProperties
  <2> QED BY <1>1, <1>2, <2>1
<1> HIDE DEF n, all
<1>4. \A i \in 1 .. n : all[i] \in Entry
  BY <1>1, <1>3, ElementOfSeq
<1>5. /\ SubSeq(all, 1, n) \in Seq(Entry)
      /\ Len(SubSeq(all, 1, n)) = IF 1 <= n THEN n - 1 + 1 ELSE 0
      /\ \A i \in 1 .. n - 1 + 1 : SubSeq(all, 1, n)[i] = all[1 + i - 1]
  BY <1>1, <1>4, SubSeqProperties
<1>6. Pushed(e) = SubSeq(all, 1, n)
  BY DEF Pushed, all, n
<1> HIDE DEF Pushed
<1>7. Len(Pushed(e)) = n /\ \A i \in 1 .. n : Pushed(e)[i] = all[i]
  BY <1>1, <1>5, <1>6
<1>8. Pushed(e)[1] = e /\ \A i \in 2 .. n : Pushed(e)[i] = history[i - 1]
  BY <1>1, <1>2, <1>3, <1>7
<1> QED BY <1>5, <1>6, <1>7, <1>8 DEF n

LEMMA Initially == Init => IInv
<1> SUFFICES ASSUME Init PROVE IInv
  OBVIOUS
<1>1. Len(<<>>) = 0 /\ <<>> \in Seq(Entry) /\ <<>> \in Seq(Cmds)
  BY EmptySeq
<1>2. TypeOK
  <2>1. cleared \in 0 .. Len(sent)
    BY <1>1 DEF Init
  <2>2. Len(history) <= HistorySize /\ Len(flight) <= 1
    BY <1>1, ConsoleOK DEF Init
  <2> QED BY <1>1, <2>1, <2>2 DEF Init, TypeOK
<1>3. FlightInv /\ HistoryInOrder
  BY <1>1, ConsoleOK DEF Init, FlightInv, HistoryInOrder, Answers
<1> QED BY <1>2, <1>3 DEF IInv

\* A send changes what is under way and what was sent together.
LEMMA SendKeeps ==
  ASSUME IInv, NEW c \in Cmds \cup {Blank}, SendFrom(c), UNCHANGED <<history, cleared>>,
         cmd' \in Cmds \cup {Blank}
  PROVE  IInv'
<1>1. CASE Idle(c) /\ Post(c)
  <2>1. c \in Cmds /\ ~sending /\ flight = <<>>
    BY <1>1 DEF Idle, IInv, FlightInv, TypeOK
  <2>2. /\ sent' \in Seq(Cmds) /\ Len(sent') = Len(sent) + 1
        /\ \A i \in 1 .. Len(sent) : sent'[i] = sent[i]
        /\ sent'[Len(sent) + 1] = c
    BY <1>1, <2>1, AppendProperties DEF Post, IInv, TypeOK
  <2>3. flight' \in Seq(Cmds) /\ Len(flight') = 1 /\ flight' # <<>> /\ flight'[1] = c
    <3>1. flight' = Append(flight, c) /\ Len(flight) = 0 /\ flight \in Seq(Cmds)
      BY <1>1, <2>1, EmptySeq DEF Post, IInv, TypeOK
    <3> QED BY <2>1, <3>1, AppendProperties
  <2>4. /\ Len(sent) \in Nat /\ Len(history) \in Nat /\ Answers = Len(sent) /\ Answers' = Answers
        /\ cleared \in Nat /\ cleared <= Len(sent)
    BY <2>1, <2>2, <2>3, Lengths DEF IInv, Answers, FlightInv
  <2>5. TypeOK'
    <3>1. cleared' \in 0 .. Len(sent') /\ Len(flight') <= 1
      BY <2>2, <2>3, <2>4
    <3>2. sending' \in BOOLEAN /\ error' \in BOOLEAN
      BY <1>1 DEF Post
    <3>3. history' \in Seq(Entry) /\ Len(history') <= HistorySize
      BY DEF IInv, TypeOK
    <3> QED BY <2>2, <2>3, <3>1, <3>2, <3>3 DEF TypeOK
  <2>6. FlightInv'
    BY <1>1, <2>2, <2>3, <2>4 DEF FlightInv, Post
  <2>7. HistoryInOrder'
    <3>1. Len(history) = IF Answers - cleared < HistorySize THEN Answers - cleared ELSE HistorySize
      BY DEF IInv, HistoryInOrder, Answers
    <3>2. Len(history) <= Len(sent)
      BY <2>4, <3>1, Lengths DEF IInv
    <3>3. ASSUME NEW i \in 1 .. Len(history) PROVE history[i].cmd = sent'[Answers + 1 - i]
      <4>1. Answers + 1 - i \in 1 .. Len(sent)
        BY <2>4, <3>2
      <4> QED BY <2>2, <4>1 DEF IInv, HistoryInOrder, Answers
    <3> QED BY <2>4, <3>1, <3>3 DEF HistoryInOrder, Answers
  <2> QED BY <2>5, <2>6, <2>7 DEF IInv
<1>2. CASE UNCHANGED <<sending, error, flight, sent>>
  <2>1. Answers' = Answers
    BY <1>2 DEF Answers
  <2> QED BY <1>2, <2>1 DEF IInv, TypeOK, FlightInv, HistoryInOrder
<1> QED BY <1>1, <1>2 DEF SendFrom

LEMMA ClearKeeps ==
  ASSUME IInv, Clear
  PROVE  IInv'
<1>1. /\ history' = <<>> /\ error' = FALSE /\ cleared' = Answers
      /\ UNCHANGED <<cmd, sending, flight, sent>> /\ Answers' = Answers
  BY DEF Clear, Answers
<1>2. Answers \in Nat /\ Answers <= Len(sent) /\ Len(sent) \in Nat /\ HistorySize \in Nat \ {0}
  BY Lengths DEF IInv
<1>3. Len(<<>>) = 0 /\ <<>> \in Seq(Entry)
  BY EmptySeq
<1>4. TypeOK'
  <2>1. cleared' \in 0 .. Len(sent') /\ Len(history') <= HistorySize
    BY <1>1, <1>2, <1>3
  <2>2. history' \in Seq(Entry) /\ error' \in BOOLEAN
    BY <1>1, <1>3
  <2> QED BY <1>1, <2>1, <2>2 DEF IInv, TypeOK
<1>5. FlightInv' /\ HistoryInOrder'
  BY <1>1, <1>2, <1>3 DEF IInv, FlightInv, HistoryInOrder, Answers
<1> QED BY <1>4, <1>5 DEF IInv

\* An answer, good or bad, enters the history as the newest.
LEMMA AnswerKeeps ==
  ASSUME IInv, NEW ok \in BOOLEAN, flight # <<>>,
         history' = Pushed([cmd |-> Head(flight), ok |-> ok]),
         flight' = Tail(flight), sending' = FALSE, cmd' \in Cmds \cup {Blank}, error' \in BOOLEAN,
         UNCHANGED ghost
  PROVE  IInv'
<1> DEFINE e == [cmd |-> Head(flight), ok |-> ok]
           n == IF Len(history) < HistorySize THEN Len(history) + 1 ELSE HistorySize
           since == Answers - cleared
<1>1. /\ Len(sent) \in Nat /\ Len(history) \in Nat /\ cleared \in Nat /\ HistorySize \in Nat \ {0}
      /\ Len(flight) = 1 /\ Head(flight) = flight[1] /\ Head(flight) \in Cmds /\ flight' = <<>>
      /\ Answers \in Nat /\ UNCHANGED <<sent, cleared>>
  BY Lengths DEF IInv, ghost
<1>2. e \in Entry
  BY <1>1 DEF Entry
<1>3. /\ history' \in Seq(Entry) /\ Len(history') = n /\ history'[1] = e
      /\ \A i \in 2 .. n : history'[i] = history[i - 1]
  BY <1>1, <1>2, PushedFront DEF IInv, TypeOK
<1>4. Len(flight') = 0 /\ flight' \in Seq(Cmds) /\ Answers = Len(sent) - 1 /\ Answers' = Len(sent)
  <2>1. flight' = <<>>
    BY <1>1
  <2>2. Len(flight') = 0 /\ flight' \in Seq(Cmds)
    BY <2>1, EmptySeq
  <2>3. sent' = sent
    BY <1>1
  <2>4. Answers = Len(sent) - 1
    BY <1>1 DEF Answers
  <2>5. Answers' = Len(sent) - 0
    BY <2>2, <2>3 DEF Answers
  <2>6. Len(sent) - 0 = Len(sent)
    BY <1>1
  <2> QED BY <2>2, <2>4, <2>5, <2>6
<1>5. cleared <= Answers
  BY DEF IInv, FlightInv
<1>6. TypeOK'
  <2>1. Len(history') <= HistorySize
    BY <1>1, <1>3
  <2>2. Len(flight') <= 1
    BY <1>4
  <2>3. sent' = sent /\ cleared' = cleared /\ sending' \in BOOLEAN
    BY <1>1
  <2> QED BY <1>3, <1>4, <2>1, <2>2, <2>3 DEF IInv, TypeOK
<1>7. FlightInv'
  BY <1>1, <1>4, <1>5 DEF FlightInv
<1>8. HistoryInOrder'
  <2>1. Len(history) = (IF since < HistorySize THEN since ELSE HistorySize)
        /\ \A i \in 1 .. Len(history) : history[i].cmd = sent[Answers + 1 - i]
    BY DEF IInv, HistoryInOrder, Answers
  <2>2. n = IF since + 1 < HistorySize THEN since + 1 ELSE HistorySize
    BY <1>1, <1>5, <2>1
  <2>3. ASSUME NEW i \in 1 .. n PROVE history'[i].cmd = sent[Len(sent) + 1 - i]
    <3>1. CASE i = 1
      <4>1. history'[1].cmd = sent[Len(sent)]
        BY <1>1, <1>3 DEF IInv, FlightInv
      <4> QED BY <1>1, <3>1, <4>1
    <3>2. CASE i # 1
      <4>1. i \in 2 .. n /\ i - 1 \in 1 .. Len(history)
        BY <1>1, <3>2
      <4>2. history'[i].cmd = sent[Answers + 1 - (i - 1)]
        BY <1>3, <2>1, <4>1
      <4> QED BY <1>1, <1>4, <4>1, <4>2
    <3> QED BY <3>1, <3>2
  <2>4. Len(sent') - Len(flight') = Len(sent) /\ Len(sent) - cleared = since + 1
    <3>1. sent' = sent
      BY <1>1
    <3>2. Len(sent') - Len(flight') = Len(sent)
      BY <1>4 DEF Answers
    <3>3. Len(sent) - cleared = since + 1
      BY <1>1, <1>4
    <3> QED BY <3>2, <3>3
  <2> HIDE DEF n, since
  <2> QED BY <1>1, <1>3, <2>2, <2>3, <2>4 DEF HistoryInOrder
<1> QED BY <1>6, <1>7, <1>8 DEF IInv

THEOREM Inductive == Spec => []IInv
<1>1. IInv /\ [Next]_vars => IInv'
  <2> SUFFICES ASSUME IInv, [Next]_vars PROVE IInv'
    OBVIOUS
  <2>1. ASSUME NEW c \in Cmds \cup {Blank}, Type(c) PROVE IInv'
    BY <2>1 DEF Type, IInv, TypeOK, FlightInv, HistoryInOrder, Answers, ghost
  <2>2. CASE Send
    BY <2>2, SendKeeps DEF Send, IInv, TypeOK
  <2>3. ASSUME NEW i \in 1 .. HistorySize, Repeat(i) PROVE IInv'
    <3>1. history[i].cmd \in Cmds
      <4>1. history \in Seq(Entry) /\ i \in 1 .. Len(history)
        BY <2>3 DEF Repeat, IInv, TypeOK
      <4>2. history[i] \in Entry
        BY <4>1, ElementOfSeq
      <4> QED BY <4>2 DEF Entry
    <3> QED BY <2>3, <3>1, SendKeeps DEF Repeat
  <2>4. CASE Clear
    BY <2>4, ClearKeeps
  <2>5. CASE Answered
    <3>1. PICK ok \in BOOLEAN : history' = Pushed([cmd |-> Head(flight), ok |-> ok])
      BY <2>5 DEF Answered
    <3>2. error' \in BOOLEAN /\ cmd' = Blank
      BY <2>5 DEF Answered, IInv, TypeOK
    <3> QED BY <2>5, <3>1, <3>2, AnswerKeeps DEF Answered
  <2>6. CASE Rejected
    <3>1. cmd' \in Cmds \cup {Blank}
      BY <2>6 DEF Rejected, IInv, TypeOK
    <3> QED BY <2>6, <3>1, AnswerKeeps DEF Rejected
  <2>7. CASE UNCHANGED vars
    BY <2>7 DEF vars, ghost, IInv, TypeOK, FlightInv, HistoryInOrder, Answers
  <2> QED BY <2>1, <2>2, <2>3, <2>4, <2>5, <2>6, <2>7 DEF Next, User
<1> QED BY <1>1, Initially, PTL DEF Spec

\* Every variable keeps its type; in particular one command at most is under way.
THEOREM TypeCorrect == Spec => []TypeOK
<1>1. IInv => TypeOK
  BY DEF IInv
<1> QED BY <1>1, Inductive, PTL

\* The history is what was answered since the last clear, newest first, without a gap
\* or a repetition (HistoryInOrder).
THEOREM HistoryFaithful == Spec => []HistoryInOrder
<1>1. IInv => HistoryInOrder
  BY DEF IInv
<1> QED BY <1>1, Inductive, PTL
===============================================================================
