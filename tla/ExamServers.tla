----------------------------- MODULE ExamServers -----------------------------
(***************************************************************************)
(* The servers of two midterms that answer every command of a client with  *)
(* a number: old_mid_2013F (an accumulator, server_P1 to P4) and mid_2014F *)
(* (a calculator, server_P1 to P3), with their clients, which send a       *)
(* command and wait for its answer.                                        *)
(*                                                                         *)
(* P1 serves one client after the other, P2 forks a child for each, P3 has *)
(* a select loop; P4 forks until MAX_FORK_NUM clients are there, goes over *)
(* to select, and back to fork when all have left.  In P4 the SIGCHLD      *)
(* handler may run between any two steps of main.                          *)
(***************************************************************************)
EXTENDS Tcp, FiniteSets

CONSTANTS Clients,       \* machines with a client program
          MAX_FORK_NUM,  \* P4: clients served by children (2 in the code)
          MAX_FD_NUM,    \* entries of the select table (15 in the code)
          MaxLines,      \* bound: lines typed
          MaxDials,      \* bound: connections made
          MaxKills       \* bound: clients that are killed

NoFd   == "-1"
Listen == "listen"
Missing == -1   \* no number of operands on the line
NoLine == [cmd |-> "", times |-> Missing, opnds |-> <<>>]

VARIABLES
  server,    \* the program: its exam and its way of serving
  pc,        \* where main is
  conn,      \* the connection of every client
  cur,       \* the client that main serves (P1)
  children,  \* clients with a child of their own
  zombies,   \* children that ended and were not waited for
  accu_array,\* accumulators of main, one for each entry of the table
  accu,      \* accumulator of each child
  fd_array,  \* the select table in use
  rset,      \* what select reported and the round has not handled yet
  conn_num, useSelect,
  own,       \* the accumulator that a client's own commands make (history)
  asked,     \* the command to which a client waits for the answer
  typed, dials, killed

main == <<server, pc, cur, accu_array, fd_array, rset, conn_num, useSelect>>
vars == <<main, conn, children, zombies, accu, own, asked, typed, dials, killed>>

Servers == [exam : {"old"}, way : {"iterative", "fork", "select", "switch"}]
             \cup [exam : {"mid"}, way : {"iterative", "fork", "select"}]

Start == IF server.way = "select" THEN "select" ELSE IF server.way = "switch" THEN "top" ELSE "accept"

Init ==
  /\ server \in Servers
  /\ pc = Start
  /\ conn = [c \in Clients |-> NoConn]
  /\ cur = NoFd /\ children = {} /\ zombies = 0
  /\ accu_array = [i \in 1..MAX_FD_NUM |-> 0]
  /\ accu = [c \in Clients |-> 0]
  /\ fd_array = <<>> /\ rset = {}
  /\ conn_num = 0 /\ useSelect = (server.way = "select")
  /\ own = [c \in Clients |-> 0] /\ asked = [c \in Clients |-> NoLine]
  /\ typed = 0 /\ dials = 0 /\ killed = 0

-----------------------------------------------------------------------------
(* ProcessCMD                                                              *)

\* The accumulator after a command of old_mid_2013F, which is also the answer.
Accumulate(a, line) ==
  CASE line.cmd = "SET" -> line.opnds[1]
    [] line.cmd = "ADD" -> a + line.opnds[1]
    [] line.cmd = "SUB" -> a - line.opnds[1]
    [] OTHER            -> a

\* Operands of mid_2014F: the last token again when there are too few.
OperandsOf(line, times) ==
  [i \in 1..times |-> IF line.opnds = <<>> THEN 0
                      ELSE line.opnds[IF i <= Len(line.opnds) THEN i ELSE Len(line.opnds)]]

\* times is not initialised: at the end of the line it is what was on the stack.
TimesRead(line) == IF line.times = Missing THEN {0, 1} ELSE {line.times}
Calculate(line, times) ==
  CASE line.cmd = "ADD" -> FoldLeft(LAMBDA x, y : x + y, 0, OperandsOf(line, times))
    [] line.cmd = "MUL" -> FoldLeft(LAMBDA x, y : x * y, 1, OperandsOf(line, times))
    [] OTHER            -> -9999

\* The answers to a command, with the accumulator it leaves.
ProcessCMD(a, line) ==
  IF server.exam = "old" THEN {[val |-> Accumulate(a, line), accu |-> Accumulate(a, line)]}
  ELSE {[val |-> Calculate(line, n), accu |-> a] : n \in TimesRead(line)}

-----------------------------------------------------------------------------
(* One read of client c by a process whose accumulator is a: the           *)
(* connection, the accumulator and what becomes of client and process.     *)

ReadsOn(atEnd)    == FALSE
LeavesLoop(atEnd) == atEnd

Served(c, a) ==
  LET k     == conn[c]
      atEnd == AtEnd(k)
      line  == IF atEnd THEN NoLine ELSE Head(k.up)
      k1    == Taken(k, IF atEnd THEN 0 ELSE 1)
  IN  IF line.cmd = "EXIT" THEN {[k |-> k1, a |-> a, leaves |-> TRUE, lives |-> TRUE]}
      ELSE {LET s == Writes([x \in {c} |-> k1], <<[to |-> c, cell |-> [val |-> r.val]]>>, prompt)
            IN  [k |-> s.conn[c], a |-> r.accu, leaves |-> LeavesLoop(atEnd), lives |-> s.alive]
            : r \in ProcessCMD(a, line), prompt \in BOOLEAN}

\* What is left of main's connections: the children keep theirs.
AfterMain(conns) == [c \in Clients |-> IF c \in children THEN conns[c] ELSE Orphaned(conns)[c]]

-----------------------------------------------------------------------------
(* Main: accept and fork                                                   *)

Queued == {c \in Clients : conn[c].server = "queue"}

\* main: P4 looks at the number of connections, and then at its mode.
Top ==
  /\ pc = "top"
  /\ pc' = IF conn_num >= MAX_FORK_NUM THEN "set" ELSE "mode"
  /\ UNCHANGED <<server, cur, accu_array, fd_array, rset, conn_num, useSelect>>
  /\ UNCHANGED <<conn, children, zombies, accu, own, asked, typed, dials, killed>>

SetSelect ==
  /\ pc = "set"
  /\ useSelect' = TRUE /\ pc' = "mode"
  /\ UNCHANGED <<server, cur, accu_array, fd_array, rset, conn_num>>
  /\ UNCHANGED <<conn, children, zombies, accu, own, asked, typed, dials, killed>>

Mode ==
  /\ pc = "mode"
  /\ pc' = IF useSelect THEN "select" ELSE "accept"
  /\ fd_array' = <<>>
  /\ UNCHANGED <<server, cur, accu_array, rset, conn_num, useSelect>>
  /\ UNCHANGED <<conn, children, zombies, accu, own, asked, typed, dials, killed>>

\* What a client's commands make of a start value; it may have sent one already.
OwnFrom(start, c) == Accumulate(start, asked[c])

Accept ==
  /\ pc = "accept"
  /\ \E c \in Queued :
       /\ conn' = [conn EXCEPT ![c] = Accepted(@)]
       /\ IF server.way = "iterative"
            THEN /\ cur' = c /\ pc' = "serve"
                 /\ accu_array' = [accu_array EXCEPT ![1] = 0]
                 /\ own' = [own EXCEPT ![c] = OwnFrom(0, c)]
                 /\ UNCHANGED <<children, accu, conn_num>>
            ELSE LET start == IF server.way = "switch" THEN accu_array[1] ELSE 0
                 IN  /\ children' = children \cup {c}
                     /\ accu' = [accu EXCEPT ![c] = start]
                     /\ own' = [own EXCEPT ![c] = OwnFrom(start, c)]
                     /\ pc' = Start
                     /\ conn_num' = IF server.way = "switch" THEN conn_num + 1 ELSE conn_num
                     /\ UNCHANGED <<cur, accu_array>>
  /\ UNCHANGED <<server, fd_array, rset, useSelect, zombies, asked, typed, dials, killed>>

\* P1: main reads from the client it has accepted.
Serve ==
  /\ pc = "serve" /\ Readable(conn[cur])
  /\ \E r \in Served(cur, accu_array[1]) :
       LET conns == [conn EXCEPT ![cur] = IF r.lives /\ r.leaves THEN Closed(r.k) ELSE r.k]
       IN  /\ conn' = IF r.lives THEN conns ELSE AfterMain(conns)
           /\ accu_array' = [accu_array EXCEPT ![1] = r.a]
           /\ pc' = IF ~r.lives THEN "dead" ELSE IF r.leaves THEN "accept" ELSE "serve"
  /\ UNCHANGED <<server, cur, fd_array, rset, conn_num, useSelect>>
  /\ UNCHANGED <<children, zombies, accu, own, asked, typed, dials, killed>>

\* processClient in the child of c; a child that is ended by SIGPIPE ends.
Child(c) ==
  /\ c \in children /\ Readable(conn[c])
  /\ \E r \in Served(c, accu[c]) :
       /\ accu' = [accu EXCEPT ![c] = r.a]
       /\ IF r.lives /\ ~r.leaves
            THEN /\ conn' = [conn EXCEPT ![c] = r.k]
                 /\ UNCHANGED <<children, zombies>>
            ELSE /\ conn' = [conn EXCEPT ![c] = Closed(r.k)]
                 /\ children' = children \ {c}
                 /\ zombies' = IF server.way = "switch" THEN zombies + 1 ELSE zombies
  /\ UNCHANGED <<main, own, asked, typed, dials, killed>>

-----------------------------------------------------------------------------
(* Main: select                                                            *)

Slots     == 1..Len(fd_array)
LiveSlots == {i \in Slots : fd_array[i] # NoFd}
Watched   == {fd_array[i] : i \in LiveSlots}
Ready     == {c \in Watched : Readable(conn[c])} \cup {l \in {Listen} : Queued # {}}

\* while(useSelect): what is in the table when main leaves is lost.
Again ==
  /\ pc \in {"select", "round"} /\ rset = {}
  /\ pc' = IF useSelect THEN "waiting" ELSE "top"
  /\ UNCHANGED <<server, cur, accu_array, fd_array, rset, conn_num, useSelect>>
  /\ UNCHANGED <<conn, children, zombies, accu, own, asked, typed, dials, killed>>

Select ==
  /\ pc = "waiting" /\ Ready # {}
  /\ rset' = Ready /\ pc' = "round"
  /\ UNCHANGED <<server, cur, accu_array, fd_array, conn_num, useSelect>>
  /\ UNCHANGED <<conn, children, zombies, accu, own, asked, typed, dials, killed>>

Free == {i \in Slots : fd_array[i] = NoFd}
Full == Free = {} /\ Len(fd_array) = MAX_FD_NUM
Slot == IF Free = {} THEN Len(fd_array) + 1 ELSE CHOOSE i \in Free : \A j \in Free : i <= j

SelectAccept ==
  /\ pc = "round" /\ Listen \in rset /\ ~Full
  /\ \E c \in Queued :
       /\ conn' = [conn EXCEPT ![c] = Accepted(@)]
       /\ fd_array' = [i \in 1..(IF Slot > Len(fd_array) THEN Slot ELSE Len(fd_array)) |->
                         IF i = Slot THEN c ELSE fd_array[i]]
       /\ own' = [own EXCEPT ![c] = OwnFrom(0, c)]
  /\ accu_array' = [accu_array EXCEPT ![Slot] = 0]
  /\ rset' = rset \ {Listen}
  /\ conn_num' = conn_num + 1
  /\ UNCHANGED <<server, pc, cur, useSelect>>
  /\ UNCHANGED <<children, zombies, accu, asked, typed, dials, killed>>

\* "No more fd to use": the rest of the round is skipped.
TableFull ==
  /\ server.exam = "old"
  /\ pc = "round" /\ Listen \in rset /\ Full
  /\ rset' = {} /\ pc' = "select"
  /\ UNCHANGED <<server, cur, accu_array, fd_array, conn_num, useSelect>>
  /\ UNCHANGED <<conn, children, zombies, accu, own, asked, typed, dials, killed>>

checkReFork(n) == IF server.way = "switch" /\ n = 0 THEN FALSE ELSE useSelect

\* The loop is at entry i; if select was interrupted, the read may have to wait.
\* mid_2014F removes an entry at EXIT only.
First(i) == 1
Own(i)   == i
Visit(i) ==
  /\ pc = "round" /\ Listen \notin rset
  /\ i \in LiveSlots /\ fd_array[i] \in rset
  /\ \A j \in LiveSlots : j < i => fd_array[j] \notin rset
  /\ Readable(conn[fd_array[i]])
  /\ \E r \in Served(fd_array[i], accu_array[Own(i)]) :
       LET c      == fd_array[i]
           leaves == r.lives /\ r.leaves
                       /\ (server.exam = "old" \/ ~AtEnd(conn[c]))
           conns  == [conn EXCEPT ![c] = IF leaves THEN Closed(r.k) ELSE r.k]
       IN  /\ conn' = IF r.lives THEN conns ELSE AfterMain(conns)
           /\ accu_array' = [accu_array EXCEPT ![Own(i)] = r.a]
           /\ rset' = rset \ {c}
           /\ pc' = IF r.lives THEN pc ELSE "dead"
           /\ IF leaves
                THEN /\ fd_array' = [fd_array EXCEPT ![i] = NoFd]
                     /\ conn_num' = conn_num - 1
                     /\ useSelect' = checkReFork(conn_num')
                ELSE UNCHANGED <<fd_array, conn_num, useSelect>>
  /\ UNCHANGED <<server, cur, children, zombies, accu, own, asked, typed, dials, killed>>

\* sig_chld waits for all that ended, as two ends may be one signal.  A select
\* that it interrupts returns with rset as it was given.
OnlyOne(ended) == 1
All(ended)     == ended
Reap ==
  /\ server.way = "switch" /\ zombies > 0 /\ pc # "dead"
  /\ zombies' = 0
  /\ conn_num' = conn_num - All(zombies)
  /\ useSelect' = checkReFork(conn_num')
  /\ \/ UNCHANGED <<pc, rset>>
     \/ pc = "waiting" /\ pc' = "round" /\ rset' = Watched \cup {Listen}
  /\ UNCHANGED <<server, cur, accu_array, fd_array>>
  /\ UNCHANGED <<conn, children, accu, own, asked, typed, dials, killed>>

Main == Top \/ SetSelect \/ Mode \/ Accept \/ Serve \/ Again \/ Select \/ SelectAccept
          \/ TableFull \/ \E i \in Slots : Visit(i)

-----------------------------------------------------------------------------
(* The clients                                                             *)

Line(cmd, times, opnds) == [cmd |-> cmd, times |-> times, opnds |-> opnds]
Lines ==
  {Line("EXIT", Missing, <<>>)} \cup
  IF server.exam = "old"
    THEN {Line(cmd, Missing, <<5>>) : cmd \in {"SET", "ADD", "SUB", "?"}}
    ELSE {Line("ADD", 2, <<2, 3>>), Line("MUL", 2, <<4>>), Line("MUL", Missing, <<>>)}

Moves(c, k) ==
  /\ conn' = [conn EXCEPT ![c] = k]
  /\ UNCHANGED <<main, children, zombies, accu>>

Dial(c) ==
  /\ conn[c] = NoConn /\ pc # "dead" /\ dials < MaxDials
  /\ Moves(c, Dialled)
  /\ dials' = dials + 1 /\ asked' = [asked EXCEPT ![c] = NoLine]
  /\ UNCHANGED <<own, typed, killed>>

\* A client has a command on its way until it has read the answer.
Waits(c) == conn[c].client = "on" /\ asked[c] # NoLine
TypeLine(c) ==
  /\ conn[c].client = "on" /\ ~Waits(c) /\ typed < MaxLines
  /\ \E line \in Lines :
       /\ Moves(c, Sent(conn[c], line))
       /\ asked' = [asked EXCEPT ![c] = line]
       /\ own' = [own EXCEPT ![c] = Accumulate(@, line)]
  /\ typed' = typed + 1
  /\ UNCHANGED <<dials, killed>>

Read(c) ==
  /\ HasAnswer(conn[c])
  /\ Moves(c, ReadRest(conn[c]))
  /\ asked' = [asked EXCEPT ![c] = NoLine]
  /\ UNCHANGED <<own, typed, dials, killed>>

\* "The server has closed the connection."
End(c) ==
  /\ SeesEnd(conn[c]) /\ Waits(c)
  /\ Moves(c, NoConn)
  /\ UNCHANGED <<own, asked, typed, dials, killed>>

\* The end of the standard input: only client_calculator.cpp looks at it.
EndOfInput(c) ==
  /\ server.exam = "mid" /\ conn[c].client = "on" /\ ~Waits(c)
  /\ Moves(c, Gone(conn[c]))
  /\ UNCHANGED <<own, asked, typed, dials, killed>>

Kill(c) ==
  /\ conn[c].client = "on" /\ killed < MaxKills
  /\ Moves(c, Gone(conn[c]))
  /\ killed' = killed + 1
  /\ UNCHANGED <<own, asked, typed, dials>>

Client(c) == Dial(c) \/ TypeLine(c) \/ Read(c) \/ End(c) \/ EndOfInput(c) \/ Kill(c)

-----------------------------------------------------------------------------
Next == Main \/ Reap \/ (\E c \in Clients : Child(c) \/ Client(c))

Spec == Init /\ [][Next]_vars

-----------------------------------------------------------------------------
(* Properties                                                              *)

\* Every variable keeps its type.
TypeOK ==
  /\ server \in Servers
  /\ pc \in {"top", "set", "mode", "accept", "serve", "select", "waiting", "round", "dead"}
  /\ \A c \in Clients : conn[c].client \in {"off", "on", "gone"} /\ Len(conn[c].up) <= 1
  /\ cur \in Clients \cup {NoFd} /\ children \subseteq Clients /\ zombies \in Nat
  /\ accu_array \in [1..MAX_FD_NUM -> Int] /\ accu \in [Clients -> Int]
  /\ fd_array \in Seq(Clients \cup {NoFd}) /\ Len(fd_array) <= MAX_FD_NUM
  /\ rset \subseteq Clients \cup {Listen}
  /\ conn_num \in Nat /\ useSelect \in BOOLEAN

\* The answer that a client has before it is the one to its own last command:
\* the accumulator of its connection, from the value it started with, after its
\* own commands and nobody else's, or the result of its own calculation
\* (ProcessCMD with the entry's index, a child's copy, one global).  It starts
\* from 0, except in P4, where a child inherits what select left in entry 0.
AnswersTo(c) ==
  IF server.exam = "old" THEN {own[c]}
  ELSE {Calculate(asked[c], times) : times \in TimesRead(asked[c])}
AnswersAreOwn ==
  \A c \in Clients : HasAnswer(conn[c]) => Head(conn[c].down).val \in AnswersTo(c)

\* P4: conn_num, which decides the mode and is changed by main and by the
\* signal handler, is the number of clients with an open connection and of
\* children that were not waited for.
CountIsRight ==
  server.way = "switch" /\ pc # "dead" =>
    conn_num = zombies + Cardinality({c \in Clients : conn[c].server = "open"})

\* A client that ends its input, or exits, ends nobody but itself: as long as no
\* client is killed the iterative and the forking servers live on, and so does
\* every server of old_mid_2013F (processClient writes at most once after the
\* end).  The select loop of mid_2014F does not survive it: it never closes.
OrdinaryEndsAreHarmless ==
  pc = "dead" => killed > 0 \/ server = [exam |-> "mid", way |-> "select"]

\* "Clients in SELECT down to zero, back to MODE FORK" (server_P4.cpp:207): when
\* main is in fork mode every open connection has a child to serve it.
ForkModeServesAll ==
  server.way = "switch" /\ pc \in {"top", "accept"} /\ ~useSelect =>
    \A c \in Clients : conn[c].server = "open" => c \in children

=============================================================================
