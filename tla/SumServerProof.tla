--------------------------- MODULE SumServerProof ----------------------------
(***************************************************************************)
(* SumServer for every set of clients and numbers: wherever the handler    *)
(* strikes, main finds its variables as one of a few cases (Session), from *)
(* which both properties follow.                                           *)
(***************************************************************************)
EXTENDS SumServer, TLAPS

DataOK ==
  /\ net \subseteq [from : Clients, num : Int]
  /\ pair \in Seq(Int)

\* The number being processed is the first of its session, or the second.
First  == Len(pair) = 1 /\ pair[1] = n
Second == Len(pair) = 2 /\ pair[2] = n

\* x is what is left of the first number before the second is added.
Rest(x) == x = pair[1] \/ (torn /\ x = 0)

\* What main may find before its next statement.
Session ==
  /\ pc \in {"recvfrom", "zero", "count", "store"} => (init <=> alarm)
  /\ pc \in {"open", "alarm"} => ~alarm
  /\ pc = "recvfrom" /\ init => count = 1 /\ Len(pair) = 1 /\ sum = pair[1]
  /\ pc \in {"open", "alarm", "zero"} => First
  /\ pc = "alarm" => init
  /\ pc = "count" => \/ First /\ count = 0 /\ sum = 0
                     \/ Second /\ count = 1 /\ Rest(sum)
  /\ pc = "store" => \/ First /\ count = 1 /\ reg = 0
                     \/ Second /\ count = 2 /\ Rest(reg)
  /\ pc = "sendto" => /\ Second
                      /\ \/ sum = pair[1] + pair[2]
                         \/ torn /\ sum \in {pair[2], 0}

IInv == TypeOK /\ DataOK /\ Session /\ AnswerIsPairSum

-----------------------------------------------------------------------------
LEMMA InitInv == Init => IInv
<1> SUFFICES ASSUME Init PROVE IInv
  OBVIOUS
<1>1. TypeOK /\ DataOK
  <2>1. TypeOK
    <3>1. pc \in Pcs
      BY DEF Init, Pcs
    <3>2. sum \in Int /\ count \in Int /\ n \in Int /\ reg \in Int
      BY DEF Init
    <3>3. init \in BOOLEAN /\ alarm \in BOOLEAN /\ torn \in BOOLEAN
      BY Zenon DEF Init
    <3>4. QED
      BY <3>1, <3>2, <3>3 DEF TypeOK
  <2>2. DataOK
    BY DEF Init, DataOK
  <2>3. QED
    BY <2>1, <2>2
<1>2. Session
  BY DEF Init, Session
<1>3. AnswerIsPairSum
  BY DEF Init, AnswerIsPairSum, NoReply
<1>4. QED
  BY <1>1, <1>2, <1>3 DEF IInv

LEMMA OneNumber == ASSUME NEW x \in Int PROVE <<x>> \in Seq(Int) /\ Len(<<x>>) = 1 /\ <<x>>[1] = x
  OBVIOUS

LEMMA LastAppended ==
  ASSUME NEW s \in Seq(Int), NEW x \in Int
  PROVE  Append(s, x)[Len(s) + 1] = x
  OBVIOUS

LEMMA TwoNumbers ==
  ASSUME NEW s \in Seq(Int), Len(s) = 1, NEW x \in Int
  PROVE  /\ Append(s, x) \in Seq(Int) /\ Len(Append(s, x)) = 2
         /\ Append(s, x)[1] = s[1] /\ Append(s, x)[2] = x
<1>1. Append(s, x) \in Seq(Int) /\ Len(Append(s, x)) = Len(s) + 1
  OBVIOUS
<1>2. Append(s, x)[1] = s[1]
  OBVIOUS
<1>3. Append(s, x)[Len(s) + 1] = x
  BY LastAppended, Zenon
<1>4. QED
  BY <1>1, <1>2, <1>3

\* A number is received in a session or opens one.
LEMMA RecvInv == IInv /\ recvfrom => IInv'
<1> SUFFICES ASSUME IInv, recvfrom PROVE IInv'
  OBVIOUS
<1>1. PICK d \in net : /\ n' = d.num
                       /\ pair' = IF init THEN Append(pair, d.num) ELSE <<d.num>>
  BY DEF recvfrom
<1>2. d.num \in Int /\ d.num = n'
  BY <1>1 DEF IInv, DataOK
<1>3. TypeOK'
  BY <1>2 DEF recvfrom, IInv, TypeOK, Pcs
<1>4. AnswerIsPairSum'
  BY DEF recvfrom, AnswerIsPairSum, IInv
<1>5. net' \subseteq [from : Clients, num : Int]
  BY DEF recvfrom, IInv, DataOK
<1>6. CASE init
  <2>1. pair \in Seq(Int) /\ Len(pair) = 1 /\ sum = pair[1] /\ count = 1 /\ alarm
    BY <1>6 DEF IInv, DataOK, Session, recvfrom
  <2>2. pair' = Append(pair, d.num)
    BY <1>1, <1>6
  <2>3. pair' \in Seq(Int) /\ Len(pair') = 2 /\ pair'[1] = pair[1] /\ pair'[2] = n'
    BY <1>2, <2>1, <2>2, TwoNumbers
  <2>4. pc' = "count" /\ sum' = sum /\ count' = count /\ init' = init /\ alarm' = alarm
    BY <1>6 DEF recvfrom
  <2>5. Session'
    BY <1>6, <2>1, <2>3, <2>4 DEF Session, First, Second, Rest
  <2>6. QED
    BY <1>3, <1>4, <1>5, <2>3, <2>5 DEF IInv, DataOK
<1>7. CASE ~init
  <2>1. pair' \in Seq(Int) /\ Len(pair') = 1 /\ pair'[1] = n'
    BY <1>1, <1>2, <1>7, OneNumber
  <2>2. pc' = "open" /\ init' = init /\ alarm' = alarm /\ ~alarm
    BY <1>7 DEF recvfrom, IInv, TypeOK, Session
  <2>3. Session'
    BY <1>7, <2>1, <2>2 DEF Session, First
  <2>4. QED
    BY <1>3, <1>4, <1>5, <2>1, <2>3 DEF IInv, DataOK
<1>8. QED
  BY <1>6, <1>7

\* The steps of processNumber.
LEMMA ProcessInv == IInv /\ (SetInit \/ SetAlarm \/ Zero \/ Load \/ Store) => IInv'
<1> SUFFICES ASSUME IInv, SetInit \/ SetAlarm \/ Zero \/ Load \/ Store PROVE IInv'
  OBVIOUS
<1> USE DEF IInv, DataOK, TypeOK, Pcs, Session, AnswerIsPairSum, First, Second, Rest
<1>1. CASE SetInit
  BY <1>1 DEF SetInit
<1>2. CASE SetAlarm
  BY <1>2 DEF SetAlarm
<1>3. CASE Zero
  BY <1>3 DEF Zero, NoCount
<1>4. CASE Load
  BY <1>4 DEF Load
<1>5. CASE Store
  <2>1. n \in Int /\ reg \in Int /\ count \in Int /\ sum' = reg + n
    BY <1>5 DEF Store
  <2>2. CASE First /\ count = 1 /\ reg = 0
    BY <1>5, <2>1, <2>2 DEF Store
  <2>3. CASE Second /\ count = 2 /\ Rest(reg)
    <3>1. pair[1] \in Int /\ pair[2] = n
      BY <2>3
    <3>2. QED
      BY <1>5, <2>1, <2>3, <3>1 DEF Store
  <2>4. QED
    BY <1>5, <2>2, <2>3 DEF Store
<1>6. QED
  BY <1>1, <1>2, <1>3, <1>4, <1>5

\* The answer, the end of the session and the numbers that clients send.
LEMMA AnswerInv ==
  ASSUME IInv, sendto \/ Reset \/ \E c \in Clients : Send(c)
  PROVE  IInv'
<1> USE DEF IInv, DataOK, TypeOK, Pcs, Session, First, Second, Rest
<1>1. CASE sendto
  BY <1>1 DEF sendto, AnswerIsPairSum
<1>2. CASE Reset
  <2>0. init' \in BOOLEAN /\ alarm' \in BOOLEAN
    BY <1>2, Zenon DEF Reset, AlarmOff
  <2>1. TypeOK' /\ DataOK'
    BY <1>2, <2>0 DEF Reset
  <2>2. pc' = "recvfrom" /\ ~init' /\ ~alarm'
    BY <1>2 DEF Reset, AlarmOff
  <2>3. Session'
    BY <2>2
  <2>4. AnswerIsPairSum'
    BY <1>2 DEF Reset, AnswerIsPairSum
  <2>5. QED
    BY <2>1, <2>3, <2>4
<1>3. CASE \E c \in Clients : Send(c)
  BY <1>3, SumAssumption DEF Send, AnswerIsPairSum
<1>4. QED
  BY <1>1, <1>2, <1>3

\* The handler, between any two steps of main.
LEMMA TimedoutInv == IInv /\ timedout => IInv'
<1> SUFFICES ASSUME IInv, timedout PROVE IInv'
  OBVIOUS
<1>1. TypeOK' /\ DataOK'
  <2>1. init' \in BOOLEAN /\ alarm' \in BOOLEAN /\ torn' \in BOOLEAN
    BY Zenon DEF timedout
  <2>2. QED
    BY <2>1 DEF timedout, IInv, TypeOK, DataOK, Pcs
<1>2. Session'
  <2>1. /\ ~init' /\ ~alarm' /\ torn' /\ sum' = 0
        /\ UNCHANGED <<pc, n, count, reg, pair>>
    BY DEF timedout
  <2>2. pc \notin {"open", "alarm"}
    BY DEF timedout, IInv, Session
  <2>3. QED
    BY <2>1, <2>2 DEF IInv, Session, First, Second, Rest
<1>3. AnswerIsPairSum'
  BY DEF timedout, IInv, AnswerIsPairSum
<1>4. QED
  BY <1>1, <1>2, <1>3 DEF IInv

LEMMA NextInv == IInv /\ [Next]_vars => IInv'
<1> SUFFICES ASSUME IInv, [Next]_vars PROVE IInv'
  OBVIOUS
<1>1. CASE UNCHANGED vars
  BY <1>1 DEF vars, IInv, DataOK, TypeOK, Session, AnswerIsPairSum, First, Second, Rest
<1>2. CASE Next
  BY <1>2, RecvInv, ProcessInv, AnswerInv, TimedoutInv DEF Next, Main
<1>3. QED
  BY <1>1, <1>2

\* The inductive invariant, and with it what main and the handler make of the
\* session between any two statements.
THEOREM Invariant == Spec => []IInv
  BY InitInv, NextInv, PTL DEF Spec

\* Every answer is the sum of the two numbers of its session, or was cut short by
\* the handler while its second number was processed (processNumber, timedout).
THEOREM AnswersAreSums == Spec => []AnswerIsPairSum
<1>1. IInv => AnswerIsPairSum
  BY DEF IInv
<1>2. QED
  BY <1>1, Invariant, PTL

\* While main waits a lone number is kept exactly as long as the alarm is set.
THEOREM AlarmWithSession == Spec => []AlarmIffOpen
<1>1. IInv => AlarmIffOpen
  BY DEF IInv, Session, AlarmIffOpen, DataOK, TypeOK
<1>2. QED
  BY <1>1, Invariant, PTL

\* Every variable keeps its type, for every set of integers.
THEOREM TypeCorrect == Spec => []TypeOK
<1>1. IInv => TypeOK
  BY DEF IInv
<1>2. QED
  BY <1>1, Invariant, PTL
=============================================================================
