----------------------------- MODULE LineServer ------------------------------
(***************************************************************************)
(* Programs that put lines together from characters, or take them apart:   *)
(*                                                                         *)
(*   writeline  final_2014F P3 and P4: the server echoes a line when it is *)
(*              complete; a thread for every client, its buffer in         *)
(*              thread-specific data (writeline_r.h); P3's client has the  *)
(*              same buffer for what it sends (writeline.h).               *)
(*   threads    practice server.cpp: a thread for every client, which      *)
(*              reads whole blocks and prints them line by line, its       *)
(*              buffer in thread-specific data.                            *)
(*   serial     practice server_serial.cpp: the same for one client after  *)
(*              the other, with a static buffer.                           *)
(*                                                                         *)
(* A cell of a connection is a character on its way to the server, and a   *)
(* whole line on its way back.                                             *)
(***************************************************************************)
EXTENDS Tcp

CONSTANTS Clients,       \* machines with a client program
          MAX_BUF_SIZE,  \* of the buffers (2048 in the code)
          MaxTyped,      \* bound: characters typed on all connections
          MaxDials,      \* bound: connections made
          MaxKills       \* bound: clients that are killed

VARIABLES
  way,      \* the server
  buffered, \* the clients are P3's, which send whole lines
  conn,     \* the connection of every client
  serving,  \* clients that a thread, or main, serves
  wline,    \* writeline: the Wline of the server's thread
  wl,       \* P3's client: its Wline
  rl,       \* readline: what is left in the Rline
  line,     \* readline: the line so far
  out,      \* what the server wrote or printed for each connection (history)
  sent,     \* what was typed on each connection (history)
  waiting,  \* clients that wait for the reply to their line
  alive,    \* the server has not been ended by a signal
  overrun,  \* a Wline was written past its end
  typed, dials, killed

vars == <<way, buffered, conn, serving, wline, wl, rl, line, out, sent, waiting, alive,
          overrun, typed, dials, killed>>

NL    == "\n"
Chars == {"a", NL}
Empty == [c \in Clients |-> <<>>]

Init ==
  /\ way \in {"writeline", "threads", "serial"}
  /\ buffered \in (IF way = "writeline" THEN BOOLEAN ELSE {FALSE})
  /\ conn = [c \in Clients |-> NoConn]
  /\ serving = {} /\ waiting = {}
  /\ wline = Empty /\ wl = Empty /\ rl = Empty /\ line = Empty
  /\ out = Empty /\ sent = Empty
  /\ alive = TRUE /\ overrun = FALSE /\ typed = 0 /\ dials = 0 /\ killed = 0

-----------------------------------------------------------------------------
(* The servers                                                             *)

\* main: one client at a time, or one thread each.  pthread_getspecific gives a
\* new thread a new buffer; serveClient of server_serial.cpp empties its own.
Accept ==
  /\ alive /\ (way = "serial" => serving = {})
  /\ \E c \in Clients :
       /\ conn[c].server = "queue"
       /\ conn' = [conn EXCEPT ![c] = Accepted(@)]
       /\ serving' = serving \cup {c}
       /\ wline' = [wline EXCEPT ![c] = <<>>]
       /\ rl' = [rl EXCEPT ![c] = <<>>] /\ line' = [line EXCEPT ![c] = <<>>]
  /\ UNCHANGED <<way, buffered, wl, out, sent, waiting, alive, overrun, typed, dials, killed>>

\* The buffer that a thread uses: its own.
OneForAll(c) == CHOOSE d \in Clients : TRUE
Own(c)       == c

\* A Wline has no end of its own: with text w in it there is room for ch, and
\* for the null behind a newline.
HasRoom(w, ch) == Len(w) < MAX_BUF_SIZE - (IF ch = NL THEN 1 ELSE 0)

\* serveClient and writeline_r, for one character
WriteLine(c) ==
  /\ way = "writeline" /\ c \in serving /\ conn[c].up # <<>>
  /\ HasRoom(wline[Own(c)], Head(conn[c].up))
  /\ LET ch   == Head(conn[c].up)
         text == Append(wline[Own(c)], ch)
     IN  IF ch = NL
           THEN /\ wline' = [wline EXCEPT ![Own(c)] = <<>>]
                /\ \E prompt \in BOOLEAN :
                     LET s == Writes([conn EXCEPT ![c] = Taken(@, 1)],
                                     <<[to |-> c, cell |-> text]>>, prompt)
                     IN  /\ alive' = s.alive
                         /\ conn' = IF s.alive THEN s.conn ELSE Orphaned(s.conn)
                         /\ serving' = IF s.alive THEN serving ELSE {}
                /\ out' = [out EXCEPT ![c] = @ \o text]
           ELSE /\ wline' = [wline EXCEPT ![Own(c)] = text]
                /\ conn' = [conn EXCEPT ![c] = Taken(@, 1)]
                /\ UNCHANGED <<alive, serving, out>>
  /\ UNCHANGED <<way, buffered, wl, rl, line, sent, waiting, overrun, typed, dials, killed>>

\* my_read when the buffer is empty: what one read returns.
Fill(c) ==
  /\ way # "writeline" /\ c \in serving
  /\ rl[Own(c)] = <<>> /\ conn[c].up # <<>>
  /\ \E k \in 1..Len(conn[c].up) :
       /\ k <= MAX_BUF_SIZE
       /\ rl' = [rl EXCEPT ![Own(c)] = SubSeq(conn[c].up, 1, k)]
       /\ conn' = [conn EXCEPT ![c] = Taken(@, k)]
  /\ UNCHANGED <<way, buffered, serving, wline, wl, line, out, sent, waiting, alive,
                 overrun, typed, dials, killed>>

\* my_read and readline, for one character: a line ends at its newline, or when
\* MAX_BUF_SIZE - 1 characters are read, and is printed.
ReadChar(c) ==
  /\ way # "writeline" /\ c \in serving /\ rl[Own(c)] # <<>>
  /\ LET text == Append(line[c], Head(rl[Own(c)])) IN
     /\ rl' = [rl EXCEPT ![Own(c)] = Tail(@)]
     /\ IF Head(rl[Own(c)]) = NL \/ Len(text) = MAX_BUF_SIZE - 1
          THEN line' = [line EXCEPT ![c] = <<>>] /\ out' = [out EXCEPT ![c] = @ \o text]
          ELSE line' = [line EXCEPT ![c] = text] /\ UNCHANGED out
  /\ UNCHANGED <<way, buffered, conn, serving, wline, wl, sent, waiting, alive,
                 overrun, typed, dials, killed>>

\* read returns 0 or an error.  What is not a whole line the threads drop, while
\* server_serial.cpp prints its buffer once more.
Leave(c) ==
  /\ alive /\ c \in serving /\ Readable(conn[c]) /\ AtEnd(conn[c])
  /\ rl[Own(c)] = <<>>
  /\ serving' = serving \ {c}
  /\ conn' = [conn EXCEPT ![c] = Closed(@)]
  /\ out' = IF way = "serial" THEN [out EXCEPT ![c] = @ \o line[c]] ELSE out
  /\ line' = [line EXCEPT ![c] = <<>>]
  /\ UNCHANGED <<way, buffered, wline, wl, rl, sent, waiting, alive, overrun,
                 typed, dials, killed>>

Server == Accept \/ \E c \in Clients : WriteLine(c) \/ Fill(c) \/ ReadChar(c) \/ Leave(c)

-----------------------------------------------------------------------------
(* The clients: client.cpp of P4, testClient.cpp of P3; those of the       *)
(* practice servers only send                                              *)

Dial(c) ==
  /\ conn[c] = NoConn /\ alive /\ dials < MaxDials
  /\ conn' = [conn EXCEPT ![c] = Dialled]
  /\ wl' = [wl EXCEPT ![c] = <<>>]
  /\ out' = [out EXCEPT ![c] = <<>>] /\ sent' = [sent EXCEPT ![c] = <<>>]
  /\ waiting' = waiting \ {c}
  /\ dials' = dials + 1
  /\ UNCHANGED <<way, buffered, serving, wline, rl, line, alive, overrun, typed, killed>>

SentAll(k, text) == FoldLeft(LAMBDA j, ch : Sent(j, ch), k, text)

\* '@' and newline are exchanged before this.
GoesOn(ch) == FALSE
Waits(ch)  == ch = NL /\ way = "writeline"
TypeChar(c) ==
  /\ conn[c].client = "on" /\ c \notin waiting /\ typed < MaxTyped
  /\ \E ch \in Chars :
       /\ buffered => HasRoom(wl[c], ch)
       /\ sent' = [sent EXCEPT ![c] = Append(@, ch)]
       /\ waiting' = IF Waits(ch) THEN waiting \cup {c} ELSE waiting
       /\ IF buffered /\ ch # NL
            THEN wl' = [wl EXCEPT ![c] = Append(@, ch)] /\ UNCHANGED conn
            ELSE /\ conn' = [conn EXCEPT ![c] = SentAll(@, Append(wl[c], ch))]
                 /\ wl' = [wl EXCEPT ![c] = <<>>]
  /\ typed' = typed + 1
  /\ UNCHANGED <<way, buffered, serving, wline, rl, line, out, alive, overrun, dials, killed>>

\* The reply is read, or the end of the connection: the client does not tell.
Read(c) ==
  /\ c \in waiting
  /\ \/ HasAnswer(conn[c]) /\ conn' = [conn EXCEPT ![c] = ReadRest(@)]
     \/ SeesEnd(conn[c]) /\ UNCHANGED conn
  /\ waiting' = waiting \ {c}
  /\ UNCHANGED <<way, buffered, serving, wline, wl, rl, line, out, sent, alive,
                 overrun, typed, dials, killed>>

\* The end of the standard input
EndOfInput(c) ==
  /\ conn[c].client = "on" /\ c \notin waiting
  /\ conn' = [conn EXCEPT ![c] = Gone(@)]
  /\ UNCHANGED <<way, buffered, serving, wline, wl, rl, line, out, sent, waiting, alive,
                 overrun, typed, dials, killed>>

Kill(c) ==
  /\ conn[c].client = "on" /\ killed < MaxKills
  /\ conn' = [conn EXCEPT ![c] = Gone(@)]
  /\ waiting' = waiting \ {c}
  /\ killed' = killed + 1
  /\ UNCHANGED <<way, buffered, serving, wline, wl, rl, line, out, sent, alive,
                 overrun, typed, dials>>

\* A server's thread, or P3's client, writes past the end of its Wline, into the
\* pointer behind it: what happens after that is undefined, and the model stops.
Overrun(c) ==
  /\ \/ /\ way = "writeline" /\ c \in serving /\ conn[c].up # <<>>
        /\ ~HasRoom(wline[Own(c)], Head(conn[c].up))
     \/ /\ buffered /\ conn[c].client = "on" /\ c \notin waiting /\ typed < MaxTyped
        /\ \E ch \in Chars : ~HasRoom(wl[c], ch)
  /\ overrun' = TRUE
  /\ UNCHANGED <<way, buffered, conn, serving, wline, wl, rl, line, out, sent, waiting, alive,
                 typed, dials, killed>>

Client(c) == Dial(c) \/ TypeChar(c) \/ Read(c) \/ EndOfInput(c) \/ Kill(c)

Next ==
  /\ ~overrun
  /\ Server \/ \E c \in Clients : Client(c) \/ Overrun(c)

Spec == Init /\ [][Next]_vars

-----------------------------------------------------------------------------
(* Properties                                                              *)

\* Every variable keeps its type, and every text fits its buffer: readline leaves
\* room for the null, writeline does not.
TypeOK ==
  /\ way \in {"writeline", "threads", "serial"} /\ buffered \in BOOLEAN
  /\ \A c \in Clients : conn[c].client \in {"off", "on", "gone"}
  /\ serving \subseteq Clients /\ waiting \subseteq Clients
  /\ alive \in BOOLEAN /\ overrun \in BOOLEAN
  /\ \A c \in Clients :
       /\ Len(rl[c]) <= MAX_BUF_SIZE /\ Len(line[c]) < MAX_BUF_SIZE - 1
       /\ Len(wline[c]) <= MAX_BUF_SIZE /\ Len(wl[c]) <= MAX_BUF_SIZE

\* However the threads' turns are interleaved, what the server made of a client's
\* characters is what this client typed, in order, nothing lost or doubled and
\* nothing of another client's: its lines, what is left in the buffers, what is
\* on its way, as long as the lines fit a Wline (writeline_r, my_read, readline
\* and the thread-specific buffers).
LinesAreOwn ==
  \A c \in serving :
    out[c] \o wline[c] \o line[c] \o rl[c] \o conn[c].up \o wl[c] = sent[c]

\* A client that is gone gets one reply at most, as it waits for each before the
\* next line: no client, killed or not, ends the server by SIGPIPE as long as the
\* lines fit a Wline.
ServerSurvives == alive
=============================================================================
