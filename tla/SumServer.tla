------------------------------ MODULE SumServer ------------------------------
(***************************************************************************)
(* final_2014F P1: a UDP server that answers the sum of every two numbers  *)
(* it receives, whoever sends them.  A number that stays alone for three   *)
(* seconds is forgotten by the SIGALRM handler, which may run between any  *)
(* two steps of main.  The program is built without optimisation, so that  *)
(* every access to a global is one to memory.  Statements between which    *)
(* the handler makes no difference are one step.                           *)
(***************************************************************************)
EXTENDS Integers, Sequences

CONSTANTS Clients,  \* addresses that send numbers
          Nums      \* numbers that are typed

ASSUME SumAssumption == Nums \subseteq Int

VARIABLES
  pc,        \* the next statement of main
  sum, init, count,
  alarm,     \* the alarm is set
  n, reg,    \* the argument of processNumber, and sum as the addition read it
  addr_remote,
  net,       \* datagrams sent to the server: any may come, again or never
  pair,      \* the numbers counted since the session began (history)
  torn,      \* the handler ran since processNumber was called (history)
  reply      \* the last answer sent (history)

vars == <<pc, sum, init, count, alarm, n, reg, addr_remote, net, pair, torn, reply>>

Nobody  == "nobody"
NoReply == [to |-> Nobody, val |-> 0, pair |-> <<0, 0>>, torn |-> FALSE]

Init ==
  /\ pc = "recvfrom"
  /\ sum = 0 /\ init = FALSE /\ count = 0 /\ alarm = FALSE
  /\ n = 0 /\ reg = 0 /\ addr_remote = Nobody
  /\ net = {} /\ pair = <<>> /\ torn = FALSE /\ reply = NoReply

-----------------------------------------------------------------------------
(* main_loop and processNumber                                             *)

\* recvfrom and if(!init)
recvfrom ==
  /\ pc = "recvfrom"
  /\ \E d \in net :
       /\ n' = d.num /\ addr_remote' = d.from
       /\ pair' = IF init THEN Append(pair, d.num) ELSE <<d.num>>
  /\ pc' = IF init THEN "count" ELSE "open"
  /\ torn' = FALSE
  /\ UNCHANGED <<sum, init, count, alarm, reg, net, reply>>

SetInit ==
  /\ pc = "open"
  /\ init' = TRUE /\ pc' = "alarm"
  /\ UNCHANGED <<sum, count, alarm, n, reg, addr_remote, net, pair, torn, reply>>

SetAlarm ==
  /\ pc = "alarm"
  /\ alarm' = TRUE /\ pc' = "zero"
  /\ UNCHANGED <<sum, init, count, n, reg, addr_remote, net, pair, torn, reply>>

OldCount(c) == c
NoCount(c)  == 0
Zero ==
  /\ pc = "zero"
  /\ sum' = 0 /\ count' = NoCount(count) /\ pc' = "count"
  /\ UNCHANGED <<init, alarm, n, reg, addr_remote, net, pair, torn, reply>>

\* ++count, and the first half of sum += n
Load ==
  /\ pc = "count"
  /\ count' = count + 1 /\ reg' = sum /\ pc' = "store"
  /\ UNCHANGED <<sum, init, alarm, n, addr_remote, net, pair, torn, reply>>

Store ==
  /\ pc = "store"
  /\ sum' = reg + n
  /\ pc' = IF count >= 2 THEN "sendto" ELSE "recvfrom"
  /\ UNCHANGED <<init, count, alarm, n, reg, addr_remote, net, pair, torn, reply>>

\* snprintf and sendto
sendto ==
  /\ pc = "sendto"
  /\ reply' = [to |-> addr_remote, val |-> sum, pair |-> pair, torn |-> torn]
  /\ pc' = "reset"
  /\ UNCHANGED <<sum, init, count, alarm, n, reg, addr_remote, net, pair, torn>>

\* reset sets a local variable named count, and not the global.
AlarmGoesOn(a) == a
AlarmOff(a)    == FALSE
Reset ==
  /\ pc = "reset"
  /\ sum' = 0 /\ init' = FALSE /\ alarm' = AlarmOff(alarm)
  /\ pc' = "recvfrom"
  /\ UNCHANGED <<count, n, reg, addr_remote, net, pair, torn, reply>>

\* The handler: reset, between two steps of main.
timedout ==
  /\ alarm
  /\ sum' = 0 /\ init' = FALSE /\ alarm' = FALSE
  /\ torn' = TRUE
  /\ UNCHANGED <<pc, count, n, reg, addr_remote, net, pair, reply>>

Main == recvfrom \/ SetInit \/ SetAlarm \/ Zero \/ Load \/ Store \/ sendto \/ Reset

-----------------------------------------------------------------------------
(* client.cpp                                                              *)

Send(c) ==
  /\ \E num \in Nums : net' = net \cup {[from |-> c, num |-> num]}
  /\ UNCHANGED <<pc, sum, init, count, alarm, n, reg, addr_remote, pair, torn, reply>>

Next == Main \/ timedout \/ \E c \in Clients : Send(c)

Spec == Init /\ [][Next]_vars

-----------------------------------------------------------------------------
(* Properties                                                              *)

Pcs == {"recvfrom", "open", "alarm", "zero", "count", "store", "sendto", "reset"}

\* Every variable keeps its type.
TypeOK ==
  /\ pc \in Pcs
  /\ sum \in Int /\ init \in BOOLEAN /\ count \in Int /\ alarm \in BOOLEAN
  /\ n \in Int /\ reg \in Int /\ torn \in BOOLEAN

\* An answer is the sum of the two numbers of its session, neither forgotten nor
\* left over from another session.  Only if the timeout strikes while the second
\* number is being processed may the first be missing in it, or both.
AnswerIsPairSum ==
  /\ Len(reply.pair) = 2
  /\ \/ reply.val = reply.pair[1] + reply.pair[2]
     \/ reply.torn /\ reply.val \in {reply.pair[2], 0}

\* While main waits, a lone number is remembered if and only if its three seconds
\* are running: no number is kept for ever, and no alarm is left over that would
\* cut the next session short (processNumber, reset and the handler).
AlarmIffOpen ==
  pc = "recvfrom" => /\ init <=> alarm
                     /\ init => count = 1 /\ Len(pair) = 1 /\ sum = pair[1]
=============================================================================
