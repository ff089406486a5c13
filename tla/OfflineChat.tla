----------------------------- MODULE OfflineChat -----------------------------
(***************************************************************************)
(* The chat of mid_2014F with messages kept for those who are away:        *)
(* server_P4.cpp and client.cpp.                                           *)
(*                                                                         *)
(* Conventions are those of ChatServer: a descriptor stands for its        *)
(* client, a line is a cell, the turn of one entry is one step.  A text is *)
(* a sequence: the message, then everybody who "has read your message", as *)
(* a receipt that is kept is itself delivered and acknowledged.            *)
(***************************************************************************)
EXTENDS Tcp, FiniteSets

CONSTANTS Clients,     \* machines with a client program
          NameOf,      \* the name on its command line
          Messages,    \* texts of TELL, each used once
          MaxLines,    \* bound: lines typed besides
          MaxDials,    \* bound: connections made
          MaxKills     \* bound: clients that are killed

Names  == {NameOf[c] : c \in Clients}
NoFd   == "-1"
Listen == "listen"

VARIABLES
  conn,      \* the connection of every client
  named,     \* clients that have sent their name on this connection
  fd_array,  \* the table in use
  rset,      \* what select reported and the round has not handled yet
  asking,    \* entry whose name main waits for, 0 if none
  buf,       \* the last name read: main does not clear its buffer
  Queue,     \* messages kept for clients that are away
  alive,     \* the server has not been ended by a signal
  told,      \* how often every message has been written to its addressee
  processed, \* messages whose TELL the server has seen
  typed, dials, killed

vars == <<conn, named, fd_array, rset, asking, buf, Queue, alive, told, processed,
          typed, dials, killed>>

Slots     == 1..Len(fd_array)
LiveSlots == {i \in Slots : fd_array[i].fd # NoFd}

Init ==
  /\ conn = [c \in Clients |-> NoConn]
  /\ named = {}
  /\ fd_array = <<>> /\ rset = {} /\ asking = 0
  /\ buf = "" /\ Queue = <<>> /\ alive = TRUE
  /\ told = [m \in Messages |-> 0] /\ processed = {}
  /\ typed = 0 /\ dials = 0 /\ killed = 0

-----------------------------------------------------------------------------
(* What is written and what is kept: pairs of a queue and of writes        *)

ToOne(c, cell) == <<[to |-> c, cell |-> cell]>>

ReceiptOf(msg, name) == Append(msg, name)

\* directMSG: the first live entry of that name, of the others if it is a reply
Targets(table, name) ==
  SelectSeq(table, LAMBDA e : e.fd # NoFd /\ e.name = name)
DirectMSG(table, queue, client, name, msg, is_reply) ==
  LET found == Targets(table, name) IN
  IF found = <<>>
    THEN [queue |-> Append(queue, [source |-> client.name, name |-> name, msg |-> msg]),
          writes |-> <<>>]
    ELSE [queue |-> queue,
          writes |->
            IF is_reply THEN ToOne(found[1].fd, [t |-> "text", msg |-> msg])
            ELSE ToOne(found[1].fd, [t |-> "told", from |-> client.name, msg |-> msg])
                 \o ToOne(client.fd, [t |-> "text", msg |-> ReceiptOf(msg, name)])]

\* ProcessOffline: every kept message for the newcomer is delivered and erased,
\* and its source gets a receipt, which may have to be kept in its turn.
Deliver(table, client, obj, kept) ==
  LET reply == DirectMSG(table, <<>>, client, obj.source, ReceiptOf(obj.msg, client.name), TRUE)
  IN  [kept |-> kept,
       replies |-> reply.queue,
       writes |-> ToOne(client.fd, [t |-> "told", from |-> obj.source, msg |-> obj.msg])
                  \o reply.writes]
NotErased(obj) == <<obj>>
Erased(obj)   == <<>>
IsFirstFor(obj, client, s) == obj.name = client.name /\ s.writes = <<>>
IsFor(obj, client, s)      == obj.name = client.name
ProcessOffline(table, queue, client) ==
  LET one(s, obj) ==
        IF ~IsFor(obj, client, s) THEN [s EXCEPT !.kept = Append(@, obj)]
        ELSE LET d == Deliver(table, client, obj, Erased(obj))
             IN  [kept |-> s.kept \o d.kept, replies |-> s.replies \o d.replies,
                  writes |-> s.writes \o d.writes]
      all == FoldLeft(one, [kept |-> <<>>, replies |-> <<>>, writes |-> <<>>], queue)
  IN  [queue |-> all.kept \o all.replies, writes |-> all.writes]

Everybody(Cell(_)) ==
  LET live == SelectSeq(fd_array, LAMBDA e : e.fd # NoFd)
  IN  [k \in 1..Len(live) |-> Cell(live[k])]

-----------------------------------------------------------------------------
(* The server                                                              *)

Watched == {fd_array[i].fd : i \in LiveSlots}
Ready   == {c \in Watched : Readable(conn[c])}
             \cup {l \in {Listen} : \E c \in Clients : conn[c].server = "queue"}
Select ==
  /\ alive /\ rset = {} /\ Ready # {}
  /\ rset' = Ready
  /\ UNCHANGED <<conn, named, fd_array, asking, buf, Queue, alive, told, processed,
                 typed, dials, killed>>

\* A handler leaves the connections as conns, keeps r.queue and writes r.writes;
\* a write to descriptor -1 fails and does nothing else.
Finish(conns, r) ==
  LET ws == SelectSeq(r.writes, LAMBDA w : w.to # NoFd) IN
  /\ Queue' = r.queue
  /\ \E prompt \in BOOLEAN :
       LET s == Writes(conns, ws, prompt)
       IN  /\ alive' = s.alive
           /\ conn' = IF s.alive THEN s.conn ELSE Orphaned(s.conn)
  /\ told' = [m \in Messages |->
                told[m] + Len(SelectSeq(ws, LAMBDA w : w.cell.t = "told" /\ w.cell.msg = <<m>>))]

\* The first free entry, or one more.
Free == {i \in Slots : fd_array[i].fd = NoFd}
SlotFor ==
  IF Free = {} THEN Len(fd_array) + 1 ELSE CHOOSE i \in Free : \A j \in Free : i <= j
WithFd(i, c) ==
  IF i \in Slots THEN [fd_array EXCEPT ![i].fd = c]
                 ELSE Append(fd_array, [fd |-> c, name |-> ""])

\* accept; the name is then read without select, so that everybody waits for it.
Accept ==
  /\ alive /\ Listen \in rset /\ asking = 0
  /\ \E c \in Clients :
       /\ conn[c].server = "queue"
       /\ conn' = [conn EXCEPT ![c] = Accepted(@)]
       /\ fd_array' = WithFd(SlotFor, c)
       /\ asking' = SlotFor
  /\ UNCHANGED <<named, rset, buf, Queue, alive, told, processed, typed, dials, killed>>

\* What follows the name in one read is lost; at the end of the stream the name
\* is the one that was read last, "" standing for what was on main's stack.
ReadName ==
  /\ alive /\ asking # 0
  /\ LET c == fd_array[asking].fd
     IN  /\ Readable(conn[c])
         /\ \E n \in (IF AtEnd(conn[c]) THEN {0} ELSE 1..Len(conn[c].up)) :
              LET name   == IF n = 0 THEN buf ELSE Head(conn[c].up).name
                  client == [fd |-> c, name |-> name]
                  table  == [fd_array EXCEPT ![asking] = client]
                  off    == ProcessOffline(table, Queue, client)
              IN  /\ buf' = name
                  /\ fd_array' = table
                  /\ Finish([conn EXCEPT ![c] = Taken(@, n)],
                            [off EXCEPT !.writes = ToOne(c, [t |-> "hi", name |-> name]) \o @])
  /\ rset' = rset \ {Listen}
  /\ asking' = 0
  /\ UNCHANGED <<named, processed, typed, dials, killed>>

\* The loop is at entry i, which is ready.
Turn(i) ==
  /\ alive /\ rset # {} /\ Listen \notin rset
  /\ i \in LiveSlots /\ fd_array[i].fd \in rset
  /\ \A j \in LiveSlots : j < i => fd_array[j].fd \notin rset
  /\ rset' = rset \ {fd_array[i].fd}
  /\ UNCHANGED <<named, asking, buf, typed, dials, killed>>

\* The number of lines that a read returns; only the first is processed.
CanTake(i) ==
  {n \in 1..Len(conn[fd_array[i].fd].up) : Head(conn[fd_array[i].fd].up).cmd # "EXIT"}

Process(i, line, n) ==
  LET client == fd_array[i]
      conns  == [conn EXCEPT ![client.fd] = Taken(@, n)]
      nothing == [queue |-> Queue, writes |-> <<>>]
  IN  CASE line.cmd = "WHO" ->
             Finish(conns, [nothing EXCEPT !.writes =
               Everybody(LAMBDA e : [to |-> client.fd, cell |-> [t |-> "row", name |-> e.name]])])
        [] line.cmd = "SAY" ->
             Finish(conns, [nothing EXCEPT !.writes =
               Everybody(LAMBDA e : [to |-> e.fd, cell |-> [t |-> "said", from |-> client.name]])])
        [] line.cmd = "TELL" ->
             Finish(conns, DirectMSG(fd_array, Queue, client, line.name, <<line.msg>>, FALSE))
        [] OTHER -> Finish(conns, nothing)

Command(i) ==
  /\ Turn(i)
  /\ UNCHANGED fd_array
  /\ \E n \in CanTake(i) :
       LET line == Head(conn[fd_array[i].fd].up)
       IN  /\ Process(i, line, n)
           /\ processed' = processed \cup (IF line.cmd = "TELL" THEN {line.msg} ELSE {})

\* The end of the stream is an empty command: the entry stays, and stays ready.
EmptyCommand(i) ==
  /\ Turn(i)
  /\ AtEnd(conn[fd_array[i].fd])
  /\ Process(i, [cmd |-> ""], 0)
  /\ UNCHANGED <<fd_array, processed>>

ExitCommand(i) ==
  /\ Turn(i)
  /\ ~AtEnd(conn[fd_array[i].fd]) /\ Head(conn[fd_array[i].fd].up).cmd = "EXIT"
  /\ fd_array' = [fd_array EXCEPT ![i].fd = NoFd]
  /\ conn' = [conn EXCEPT ![fd_array[i].fd] = Closed(@)]
  /\ UNCHANGED <<Queue, alive, told, processed>>

Server ==
  \/ Select \/ Accept \/ ReadName
  \/ \E i \in Slots : Command(i) \/ EmptyCommand(i) \/ ExitCommand(i)

-----------------------------------------------------------------------------
(* The clients                                                             *)

Moves(c, k) ==
  /\ conn' = [conn EXCEPT ![c] = k]
  /\ UNCHANGED <<fd_array, rset, asking, buf, Queue, alive, told, processed>>

Dial(c) ==
  /\ conn[c] = NoConn /\ alive /\ dials < MaxDials
  /\ Moves(c, Dialled)
  /\ dials' = dials + 1 /\ named' = named \ {c}
  /\ UNCHANGED <<typed, killed>>

SendName(c) ==
  /\ conn[c].client = "on" /\ c \notin named
  /\ Moves(c, Sent(conn[c], [cmd |-> "", name |-> NameOf[c]]))
  /\ named' = named \cup {c}
  /\ UNCHANGED <<typed, dials, killed>>

Used == processed \cup {m \in Messages : \E c \in Clients : \E k \in DOMAIN conn[c].up :
                          conn[c].up[k].cmd = "TELL" /\ conn[c].up[k].msg = m}
Commands == [cmd : {"WHO", "SAY", "EXIT"}]
              \cup [cmd : {"TELL"}, name : Names, msg : Messages \ Used]
TypeLine(c) ==
  /\ conn[c].client = "on" /\ c \in named /\ typed < MaxLines
  /\ \E line \in Commands : Moves(c, Sent(conn[c], line))
  /\ typed' = typed + 1
  /\ UNCHANGED <<named, dials, killed>>

Read(c) ==
  /\ HasAnswer(conn[c])
  /\ Moves(c, ReadRest(conn[c]))
  /\ UNCHANGED <<named, typed, dials, killed>>

\* The server has closed: the only way in which the program ends by itself.
End(c) ==
  /\ SeesEnd(conn[c])
  /\ Moves(c, NoConn)
  /\ UNCHANGED <<named, typed, dials, killed>>

Kill(c) ==
  /\ conn[c].client = "on" /\ killed < MaxKills
  /\ Moves(c, Gone(conn[c]))
  /\ killed' = killed + 1
  /\ UNCHANGED <<named, typed, dials>>

Client(c) == Dial(c) \/ SendName(c) \/ TypeLine(c) \/ Read(c) \/ End(c) \/ Kill(c)

-----------------------------------------------------------------------------
Next == Server \/ \E c \in Clients : Client(c)

Spec == Init /\ [][Next]_vars

-----------------------------------------------------------------------------
(* Properties                                                              *)

\* Every variable keeps its type; a text never lists more readers than logins.
TypeOK ==
  /\ \A c \in Clients : conn[c].client \in {"off", "on", "half", "gone"}
  /\ named \subseteq Clients
  /\ fd_array \in Seq([fd : Clients \cup {NoFd}, name : Names \cup {""}])
  /\ rset \subseteq Clients \cup {Listen}
  /\ asking \in 0..Len(fd_array)
  /\ buf \in Names \cup {""}
  /\ \A k \in DOMAIN Queue : /\ Queue[k].source \in Names \cup {""}
                             /\ Queue[k].name \in Names \cup {""}
                             /\ Queue[k].msg[1] \in Messages
                             /\ Len(Queue[k].msg) <= MaxDials + 2
  /\ alive \in BOOLEAN
  /\ told \in [Messages -> Nat] /\ processed \subseteq Messages

\* A message that was told is delivered once or kept once: never lost between
\* the table and the queue, never delivered again at the next login, however
\* its addressee comes and goes (directMSG, ProcessOffline).
KeptOnce ==
  alive => \A m \in Messages :
    told[m] + Cardinality({k \in DOMAIN Queue : Queue[k].msg = <<m>>})
      = IF m \in processed THEN 1 ELSE 0

\* Nothing is kept for somebody who is in the table: a login empties the queue
\* of all that waits for that name, receipts included, and whoever is kept
\* waiting is away; a chain of receipts never forks.
KeptForAbsent ==
  alive /\ asking = 0 =>
    \A k \in DOMAIN Queue :
      /\ \A i \in LiveSlots : fd_array[i].name # Queue[k].name
      /\ \A j \in DOMAIN Queue : j # k => Queue[j].msg[1] # Queue[k].msg[1]
=============================================================================
