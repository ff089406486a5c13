----------------------------- MODULE ChatServer ------------------------------
(***************************************************************************)
(* The chat room of hw1: server.cpp, one thread with select and blocking   *)
(* sockets, and the clients of client.cpp.                                 *)
(*                                                                         *)
(* A descriptor stands for the client at its other end.  A line is one     *)
(* cell; a read may find several, and only the first is a command then.    *)
(* A turn of the loop over the table (a visit) is one step: what it writes *)
(* to different clients, none of them can see together.                    *)
(***************************************************************************)
EXTENDS Tcp, FiniteSets

CONSTANTS Clients,     \* machines with a client program
          Names,       \* names that pass the check of 2 to 12 letters
          BadName,     \* stands for every name that does not
          Texts,       \* messages, as sequences of words
          Lines,       \* lines that users type, of those in Commands
          MAX_FD_NUM,  \* entries of the server's table (15 in the code)
          MaxLines,    \* bound: lines typed
          MaxDials,    \* bound: connections made
          MaxKills     \* bound: clients that end without exit

Anonymous == "anonymous"
NoFd      == "-1"
Listen    == "listen"

\* What processInput tells apart.
Commands ==
  [cmd : {"who", "bad"}]
    \cup [cmd : {"name"}, name : Names \cup {Anonymous, BadName}]
    \cup [cmd : {"tell"}, name : Names \cup {Anonymous}, text : Texts]
    \cup [cmd : {"yell"}, text : Texts]

VARIABLES
  conn,      \* the connection of every client
  fd_array,  \* the table in use: next_index is its length
  rset,      \* what select reported and the round has not handled yet
  alive,     \* the server has not been ended by a signal
  heard,     \* names of others each client has learnt from what it has read
  typed,     \* lines typed so far
  dials,     \* connections made so far
  killed     \* clients that ended without exit so far

vars == <<conn, fd_array, rset, alive, heard, typed, dials, killed>>

Slots    == 1..Len(fd_array)
IsLive(i) == fd_array[i].fd # NoFd
LiveSlots == {i \in Slots : IsLive(i)}

Init ==
  /\ conn = [c \in Clients |-> NoConn]
  /\ fd_array = <<>>
  /\ rset = {}
  /\ alive = TRUE
  /\ heard = [c \in Clients |-> {}]
  /\ typed = 0 /\ dials = 0 /\ killed = 0

-----------------------------------------------------------------------------
(* What is written                                                         *)

\* A loop over the table that writes w[i] for every live entry i.
ForLive(table, w) ==
  FoldLeftDomain(LAMBDA ws, i : IF table[i].fd = NoFd THEN ws ELSE Append(ws, w[i]), <<>>, table)

\* cells[i] is written to the client of entry i.
ToAll(table, cells) ==
  ForLive(table, [i \in DOMAIN table |-> [to |-> table[i].fd, cell |-> cells[i]]])
ToOne(c, cell) == <<[to |-> c, cell |-> cell]>>

\* processHello: the new entry is greeted, the others hear of it.
Hello(table, new) ==
  ToAll(table, [i \in DOMAIN table |-> [t |-> IF i = new THEN "hello" ELSE "coming"]])

\* processLogout, when the entry's descriptor is already -1.
Logout(table, i) ==
  ToAll(table, [j \in DOMAIN table |-> [t |-> "offline", name |-> table[i].name]])

\* processWho
Who(i) ==
  ForLive(fd_array, [j \in Slots |->
    [to   |-> fd_array[i].fd,
     cell |-> [t |-> "row", name |-> fd_array[j].name, me |-> j = i]]])

\* processRename: the check, and what everybody hears.
EarlierHas(i, name) == \E j \in LiveSlots : j < i /\ fd_array[j].name = name
IsTaken(i, name)    == \E j \in LiveSlots : j # i /\ fd_array[j].name = name
AnyName(i, name)    == ~IsTaken(i, name)
ValidName(i, name)  == name \in Names /\ ~IsTaken(i, name)
\* As if the message were put together after the assignment of the name.
RenameThenPrint(i, name) ==
  IF ~ValidName(i, name)
    THEN ToOne(fd_array[i].fd, [t |-> "error"])
    ELSE ToAll(fd_array, [j \in Slots |->
           IF j = i THEN [t |-> "you", name |-> name]
                    ELSE [t |-> "renamed", old |-> name, name |-> name]])
Rename(i, name) ==
  IF ~ValidName(i, name)
    THEN ToOne(fd_array[i].fd, [t |-> "error"])
    ELSE ToAll(fd_array, [j \in Slots |->
           IF j = i THEN [t |-> "you", name |-> name]
                    ELSE [t |-> "renamed", old |-> fd_array[i].name, name |-> name]])

\* processTell: only the first word of the message is passed on.
Addressees(name) == {j \in LiveSlots : fd_array[j].name = name}
Tell(i, name, text) ==
  LET me == fd_array[i].fd IN
  IF fd_array[i].name = Anonymous \/ name = Anonymous \/ Addressees(name) = {}
    THEN ToOne(me, [t |-> "error"])
    ELSE LET j == CHOOSE j \in Addressees(name) : \A k \in Addressees(name) : j <= k
         IN  ToOne(me, [t |-> "sent"]) \o
             ToOne(fd_array[j].fd,
                   [t |-> "told", from |-> fd_array[i].name, to |-> name, text |-> <<Head(text)>>])

\* processYell
Yell(i, text) ==
  ToAll(fd_array, [j \in Slots |-> [t |-> "yelled", from |-> fd_array[i].name, text |-> text]])

-----------------------------------------------------------------------------
(* The server                                                              *)

Watched == {fd_array[i].fd : i \in LiveSlots}
Ready   == {c \in Watched : Readable(conn[c])}
             \cup {l \in {Listen} : \E c \in Clients : conn[c].server = "queue"}

\* select waits until something is ready; a full table leaves the listening
\* socket ready for ever.
Select ==
  /\ alive /\ rset = {}
  /\ Ready # {}
  /\ rset' = Ready
  /\ UNCHANGED <<conn, fd_array, alive, heard, typed, dials, killed>>

\* The writes ws end a handler that leaves the connections as conns.
Answer(conns, ws) ==
  \E prompt \in BOOLEAN :
    LET s == Writes(conns, ws, prompt)
    IN  /\ alive' = s.alive
        /\ conn' = IF s.alive THEN s.conn ELSE Orphaned(s.conn)

NewEntry(c) == [fd |-> c, name |-> Anonymous]

\* The names of the others, as a newcomer may ask for them with who.
Others(table, c) ==
  {table[i].name : i \in {i \in 1..Len(table) : table[i].fd \notin {NoFd, c}}} \ {Anonymous}

\* A new connection always gets a new entry, although a free one was searched.
Accept ==
  /\ alive /\ Listen \in rset
  /\ Len(fd_array) < MAX_FD_NUM
  /\ \E c \in Clients :
       /\ conn[c].server = "queue"
       /\ fd_array' = Append(fd_array, NewEntry(c))
       /\ Answer([conn EXCEPT ![c] = Accepted(@)], Hello(fd_array', Len(fd_array')))
       /\ heard' = [heard EXCEPT ![c] = Others(fd_array, c)]
  /\ rset' = rset \ {Listen}
  /\ UNCHANGED <<typed, dials, killed>>

\* "No FDs available": nobody is accepted.
NoFds ==
  /\ alive /\ Listen \in rset
  /\ Len(fd_array) = MAX_FD_NUM
  /\ rset' = rset \ {Listen}
  /\ UNCHANGED <<conn, fd_array, alive, heard, typed, dials, killed>>

\* The loop is at entry i, which is ready.
Turn(i) ==
  /\ alive /\ rset # {} /\ Listen \notin rset
  /\ i \in LiveSlots /\ fd_array[i].fd \in rset
  /\ \A j \in LiveSlots : j < i => fd_array[j].fd \notin rset
  /\ rset' = rset \ {fd_array[i].fd}

\* read returns 0 or fails.
KeptOpen(k) == Taken(k, 0)
HungUp(k)   == Closed(Taken(k, 0))
Removed(i) == [fd_array EXCEPT ![i].fd = NoFd]
Leave(i) ==
  /\ Turn(i)
  /\ LET c == fd_array[i].fd
     IN  /\ AtEnd(conn[c])
         /\ fd_array' = Removed(i)
         /\ Answer([conn EXCEPT ![c] = HungUp(@)], Logout(fd_array', i))
  /\ UNCHANGED <<heard, typed, dials, killed>>

\* processInput of the first of the n lines that were read; the others are lost.
Process(i, n) ==
  LET c == fd_array[i].fd
      line == Head(conn[c].up)
      renames == line.cmd = "name" /\ ValidName(i, line.name)
  IN  /\ fd_array' = IF renames THEN [fd_array EXCEPT ![i].name = line.name] ELSE fd_array
      /\ Answer([conn EXCEPT ![c] = Taken(@, n)],
                CASE line.cmd = "who"  -> Who(i)
                  [] line.cmd = "name" -> Rename(i, line.name)
                  [] line.cmd = "tell" -> Tell(i, line.name, line.text)
                  [] line.cmd = "yell" -> Yell(i, line.text)
                  [] OTHER             -> ToOne(c, [t |-> "error"]))
      /\ UNCHANGED <<heard, typed, dials, killed>>

Input(i) ==
  /\ Turn(i)
  /\ \E n \in 1..Len(conn[fd_array[i].fd].up) : Process(i, n)

Server == Select \/ Accept \/ NoFds \/ (\E i \in Slots : Leave(i) \/ Input(i))

-----------------------------------------------------------------------------
(* The clients                                                             *)

ClientMoves(c, k) ==
  /\ conn' = [conn EXCEPT ![c] = k]
  /\ UNCHANGED <<fd_array, rset, alive>>

Dial(c) ==
  /\ conn[c] = NoConn /\ alive /\ dials < MaxDials
  /\ ClientMoves(c, Dialled)
  /\ dials' = dials + 1
  /\ UNCHANGED <<heard, typed, killed>>

TypeLine(c, line) ==
  /\ conn[c].client = "on" /\ typed < MaxLines
  /\ ClientMoves(c, Sent(conn[c], line))
  /\ typed' = typed + 1
  /\ UNCHANGED <<heard, dials, killed>>

\* "exit" or the end of the input: the client still reads until the server closes.
AtExitClose(k) == Gone(k)
AtExit(k)      == HalfClosed(k)
Exit(c) ==
  /\ conn[c].client = "on"
  /\ ClientMoves(c, AtExit(conn[c]))
  /\ UNCHANGED <<heard, typed, dials, killed>>

\* What a cell tells of the names of others.
Hears(known, cell) ==
  CASE cell.t = "renamed" -> (known \ {cell.old}) \cup {cell.name}
    [] cell.t = "offline" -> known \ {cell.name}
    [] OTHER              -> known

Read(c) ==
  /\ HasAnswer(conn[c])
  /\ ClientMoves(c, ReadRest(conn[c]))
  /\ heard' = [heard EXCEPT ![c] = Hears(@, Head(conn[c].down))]
  /\ UNCHANGED <<typed, dials, killed>>

\* The server has closed: expected after exit, "prematurely" before.
End(c) ==
  /\ SeesEnd(conn[c])
  /\ ClientMoves(c, NoConn)
  /\ heard' = [heard EXCEPT ![c] = {}]
  /\ UNCHANGED <<typed, dials, killed>>

\* The process is killed; its end of the connection is closed by the kernel.
Kill(c) ==
  /\ conn[c].client \in {"on", "half"} /\ killed < MaxKills
  /\ ClientMoves(c, Gone(conn[c]))
  /\ killed' = killed + 1
  /\ heard' = [heard EXCEPT ![c] = {}]
  /\ UNCHANGED <<typed, dials>>

Client(c) ==
  Dial(c) \/ (\E line \in Lines : TypeLine(c, line)) \/ Exit(c) \/ Read(c) \/ End(c) \/ Kill(c)

-----------------------------------------------------------------------------
Next == Server \/ \E c \in Clients : Client(c)

Spec == Init /\ [][Next]_vars

-----------------------------------------------------------------------------
(* Properties                                                              *)

\* Every variable keeps its type: the table holds clients and names, and what
\* is ready is the listening socket or an entry of the table.
Cells ==
  [t : {"hello", "coming", "error", "sent"}]
    \cup [t : {"row"}, name : Names \cup {Anonymous}, me : BOOLEAN]
    \cup [t : {"you", "offline"}, name : Names \cup {Anonymous}]
    \cup [t : {"renamed"}, old : Names \cup {Anonymous}, name : Names]
    \cup [t : {"told"}, from : Names, to : Names, text : Seq(UNION {{x[k] : k \in DOMAIN x} : x \in Texts})]
    \cup [t : {"yelled"}, from : Names \cup {Anonymous}, text : Texts]
TypeOK ==
  /\ conn \in [Clients -> Connection(Lines \cup Cells)]
  /\ fd_array \in Seq([fd : Clients \cup {NoFd}, name : Names \cup {Anonymous}])
  /\ Len(fd_array) <= MAX_FD_NUM
  /\ rset \subseteq Clients \cup {Listen}
  /\ alive \in BOOLEAN
  /\ heard \in [Clients -> SUBSET Names]
  /\ typed \in 0..MaxLines /\ dials \in 0..MaxDials /\ killed \in 0..MaxKills

\* No two live entries have the same name, except anonymous, and no two the
\* same descriptor (the check of processRename): tell has one addressee.
NamesUnique ==
  \A i, j \in LiveSlots :
    i # j => /\ fd_array[i].fd # fd_array[j].fd
             /\ fd_array[i].name = fd_array[j].name => fd_array[i].name = Anonymous

\* A client that started from the names who would have shown it, and follows
\* the messages on renames and departures, knows the names of the others when it
\* has read everything: no rename and no departure is missed, and they come in
\* the order of the table's changes (processRename, processLogout).
RosterKnown ==
  alive => \A i \in LiveSlots :
    LET c == fd_array[i].fd
    IN  conn[c].client # "gone" =>
          FoldLeft(Hears, heard[c], conn[c].down) = Others(fd_array, c)

\* The server is ended (by SIGPIPE) only if a client went away without exit:
\* shutdown(SHUT_WR) in the client lets the server answer until it closes.
ServerDiesOnlyByKill == ~alive => killed > 0

\* When select sleeps nobody is left over: every connection that the server
\* has and every one that waits for accept belongs to a client that may still
\* type and has nothing unread, and every other client was hung up on.  That
\* every line was answered it does not say: of the lines of one read all but the
\* first are dropped (processClient).
NobodyForgotten ==
  alive /\ rset = {} /\ Ready = {} =>
    \A c \in Clients :
      conn[c].server \in {"queue", "open"} => conn[c].client = "on" /\ conn[c].up = <<>>

=============================================================================
