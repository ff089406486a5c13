---------------------------- MODULE CountServers -----------------------------
(***************************************************************************)
(* The single-threaded counting servers of old_final_2012F: server_P3.cpp, *)
(* which polls non-blocking TCP sockets, with client_TCP.cpp, and          *)
(* server_P1.cpp, which has one session over UDP for whoever sends (P2 is  *)
(* CountWorkers).  A session adds up numbers until the sum passes the      *)
(* limit and answers "Sum"; a session that is idle for five seconds is     *)
(* asked for the rest by WARN, which clients answer by themselves.         *)
(*                                                                         *)
(* P1 is seen as a table with one entry, whose descriptor is the address   *)
(* of the last sender.  Entries of eight bytes arrive whole.               *)
(***************************************************************************)
EXTENDS Tcp, FiniteSets, Functions

CONSTANTS Clients,   \* machines with a client program
          Limit,     \* 100 in the code
          MaxTyped,  \* bound: numbers typed
          MaxWarns,  \* bound: five seconds that pass in a session
          MaxDials   \* bound: connections made

VARIABLES
  part,    \* the program: "P1" or "P3"
  conn,    \* the connection of every client (P1: its datagrams)
  data,    \* the table in use: ClientList, or the variables of P1's mainLoop
  at,      \* the entry that mainLoop looks at next, 0 for accept
  alive,   \* the server has not been ended by a signal
  given,   \* what each client has sent on its connection, added up
  got,     \* the sums that each client has been told, added up
  typed, warns, dials

vars == <<part, conn, data, at, alive, given, got, typed, warns, dials>>

NoFd  == "-1"
Entry == [fd |-> NoFd, sum |-> 0, initialized |-> FALSE, late |-> FALSE]

Init ==
  /\ part \in {"P1", "P3"}
  /\ conn = [c \in Clients |-> IF part = "P1" THEN Accepted(Dialled) ELSE NoConn]
  /\ data = IF part = "P1" THEN <<Entry>> ELSE <<>>
  /\ at = IF part = "P1" THEN 1 ELSE 0
  /\ alive = TRUE
  /\ given = [c \in Clients |-> 0] /\ got = [c \in Clients |-> 0]
  /\ typed = 0 /\ warns = 0 /\ dials = 0

-----------------------------------------------------------------------------
(* One entry                                                               *)

\* ClientData::readEntry, and the same in P1: the entry, and the answer if any.
OldSum(e)   == e.sum
FreshSum(e) == IF e.initialized THEN e.sum ELSE 0
readEntry(e, num) ==
  LET sum == FreshSum(e) + num IN
  IF sum > Limit - 1
    THEN [entry |-> [e EXCEPT !.sum = 0, !.initialized = FALSE, !.late = FALSE],
          answer |-> <<[type |-> "SUM", num |-> sum]>>]
    ELSE [entry |-> [e EXCEPT !.sum = sum, !.initialized = TRUE, !.late = FALSE],
          answer |-> <<>>]

\* ClientData::updateTime after what was read.
updateTime(r) ==
  IF r.entry.initialized /\ r.entry.late
    THEN [entry |-> [r.entry EXCEPT !.late = FALSE],
          answer |-> Append(r.answer, [type |-> "WARN", num |-> Limit - r.entry.sum])]
    ELSE r

\* The loop goes to the next entry, and from the last one to accept.
NextEntry(i) == IF i < Len(data) THEN i + 1 ELSE 0

Answer(k, i, r) ==
  \E prompt \in BOOLEAN :
    LET c == r.entry.fd
        s == Writes([conn EXCEPT ![c] = k], [j \in DOMAIN r.answer |-> [to |-> c, cell |-> r.answer[j]]],
                    prompt)
    IN  /\ alive' = s.alive
        /\ conn' = IF s.alive THEN s.conn ELSE Orphaned(s.conn)
        /\ data' = [data EXCEPT ![i] = r.entry]

-----------------------------------------------------------------------------
(* P3: mainLoop                                                            *)

Free == {i \in DOMAIN data : data[i].fd = NoFd}
\* addClient takes the first free entry.
addClient(c) ==
  IF Free = {} THEN Append(data, [Entry EXCEPT !.fd = c])
  ELSE LET i == CHOOSE i \in Free : \A j \in Free : i <= j
       IN  [data EXCEPT ![i] = [@ EXCEPT !.fd = c, !.initialized = FALSE, !.late = FALSE]]

Accept ==
  /\ part = "P3" /\ alive /\ at = 0
  /\ \E c \in Clients :
       /\ conn[c].server = "queue"
       /\ conn' = [conn EXCEPT ![c] = Accepted(@)]
       /\ data' = addClient(c)
  /\ at' = 1
  /\ UNCHANGED <<part, alive, given, got, typed, warns, dials>>

\* accept would block
NoneToAccept ==
  /\ part = "P3" /\ alive /\ at = 0
  /\ \A c \in Clients : conn[c].server # "queue"
  /\ at' = IF data = <<>> THEN 0 ELSE 1
  /\ UNCHANGED <<part, conn, data, alive, given, got, typed, warns, dials>>

Visit(Outcome(_, _, _)) ==
  /\ part = "P3" /\ alive /\ at # 0
  /\ at' = NextEntry(at)
  /\ Outcome(at, data[at], conn[data[at].fd])
  /\ UNCHANGED <<part, given, got, typed, warns, dials>>

\* E_SUCCESS, E_EMPTY and E_ERROR: what is read, then the time.
ReadOutcome(i, e, k) ==
  \/ /\ k.up # <<>>
     /\ Answer(Taken(k, 1), i, updateTime(readEntry(e, Head(k.up).num)))
  \/ /\ ~Readable(k)
     /\ Answer(k, i, updateTime([entry |-> e, answer |-> <<>>]))
  \/ /\ k.up = <<>> /\ k.client = "gone" /\ k.err = "reset"
     /\ Answer(Taken(k, 0), i, updateTime([entry |-> e, answer |-> <<>>]))

\* E_CLOSED
CloseOutcome(i, e, k) ==
  /\ k.up = <<>> /\ k.client = "gone" /\ k.err # "reset"
  /\ data' = [data EXCEPT ![i] = [@ EXCEPT !.fd = NoFd, !.initialized = FALSE, !.late = FALSE]]
  /\ conn' = [conn EXCEPT ![e.fd] = Closed(@)]
  /\ UNCHANGED alive

Skip ==
  /\ part = "P3" /\ alive /\ at # 0 /\ data[at].fd = NoFd
  /\ at' = NextEntry(at)
  /\ UNCHANGED <<part, conn, data, alive, given, got, typed, warns, dials>>

ReadClient == at \in DOMAIN data /\ data[at].fd # NoFd /\ Visit(ReadOutcome)
CloseClient == at \in DOMAIN data /\ data[at].fd # NoFd /\ Visit(CloseOutcome)

-----------------------------------------------------------------------------
(* P1: mainLoop.  The receive timeout is set while a session is open.      *)

Receive ==
  /\ part = "P1"
  /\ \E c \in Clients :
       /\ conn[c].up # <<>>
       /\ Answer(Taken(conn[c], 1), 1, readEntry([data[1] EXCEPT !.fd = c], Head(conn[c].up).num))
  /\ UNCHANGED <<part, at, given, got, typed, warns, dials>>

ReceiveTimeout ==
  /\ part = "P1" /\ data[1].late
  /\ Answer(conn[data[1].fd], 1, updateTime([entry |-> data[1], answer |-> <<>>]))
  /\ UNCHANGED <<part, at, given, got, typed, warns, dials>>

\* Five seconds pass since a session's last number or warning.
Time(i) ==
  /\ alive /\ warns < MaxWarns
  /\ data[i].initialized /\ ~data[i].late
  /\ data' = [data EXCEPT ![i].late = TRUE]
  /\ warns' = warns + 1
  /\ UNCHANGED <<part, conn, at, alive, given, got, typed, dials>>

Server == Accept \/ NoneToAccept \/ Skip \/ ReadClient \/ CloseClient \/ Receive \/ ReceiveTimeout
            \/ \E i \in DOMAIN data : Time(i)

-----------------------------------------------------------------------------
(* client_TCP.cpp (and client_UDP.cpp for P1)                              *)

Moves(c, k) == conn' = [conn EXCEPT ![c] = k] /\ UNCHANGED <<part, data, at, alive>>
Sends(c, k, num) ==
  /\ Moves(c, Sent(k, [type |-> "NUM", num |-> num]))
  /\ given' = [given EXCEPT ![c] = @ + num]

Dial(c) ==
  /\ conn[c] = NoConn /\ alive /\ dials < MaxDials
  /\ Moves(c, Dialled)
  /\ given' = [given EXCEPT ![c] = 0] /\ got' = [got EXCEPT ![c] = 0]
  /\ dials' = dials + 1
  /\ UNCHANGED <<typed, warns>>

Type(c) ==
  /\ conn[c].client = "on" /\ typed < MaxTyped
  /\ \E num \in 1..Limit : Sends(c, conn[c], num)
  /\ typed' = typed + 1
  /\ UNCHANGED <<got, warns, dials>>

\* A warning is answered with its own number; a sum is shown.
ReadWarn(c) ==
  /\ HasAnswer(conn[c]) /\ Head(conn[c].down).type = "WARN"
  /\ Sends(c, ReadRest(conn[c]), Head(conn[c].down).num)
  /\ UNCHANGED <<got, typed, warns, dials>>

ReadSum(c) ==
  /\ HasAnswer(conn[c]) /\ Head(conn[c].down).type = "SUM"
  /\ Moves(c, ReadRest(conn[c]))
  /\ got' = [got EXCEPT ![c] = @ + Head(conn[c].down).num]
  /\ UNCHANGED <<given, typed, warns, dials>>

\* The end of the input closes the connection, whatever is unread.
Leave(c) ==
  /\ part = "P3" /\ conn[c].client = "on"
  /\ Moves(c, Gone(conn[c]))
  /\ UNCHANGED <<given, got, typed, warns, dials>>

End(c) ==
  /\ SeesEnd(conn[c])
  /\ Moves(c, NoConn)
  /\ UNCHANGED <<given, got, typed, warns, dials>>

Client(c) == Dial(c) \/ Type(c) \/ ReadWarn(c) \/ ReadSum(c) \/ Leave(c) \/ End(c)

-----------------------------------------------------------------------------
Next == Server \/ \E c \in Clients : Client(c)

Spec == Init /\ [][Next]_vars

-----------------------------------------------------------------------------
(* Properties                                                              *)

TypeOK ==
  /\ part \in {"P1", "P3"}
  /\ \A c \in Clients : conn[c].client \in {"off", "on", "gone"}
  /\ data \in Seq([fd : Clients \cup {NoFd}, sum : Nat, initialized : BOOLEAN, late : BOOLEAN])
  /\ \A i \in DOMAIN data : data[i].initialized => data[i].sum < Limit
  /\ at \in 0..Len(data) /\ alive \in BOOLEAN
  /\ given \in [Clients -> Nat] /\ got \in [Clients -> Nat]

\* Every number is in exactly one place: on its way to the server, in the sum of
\* its session, in a sum on its way back, or in one that was told.  P3 keeps the
\* books of its clients apart, whoever had the entry before; P1 has one session
\* for all, so that only the total is right (readEntry, addClient, mainLoop).
Total(cells, type) ==
  FoldLeft(LAMBDA x, cell : IF cell.type = type THEN x + cell.num ELSE x, 0, cells)
OnTheWay(c) == Total(conn[c].up, "NUM") + Total(conn[c].down, "SUM")
Open(i)     == IF data[i].initialized THEN data[i].sum ELSE 0
NumbersAccounted ==
  IF part = "P3"
    THEN \A i \in DOMAIN data :
           alive /\ data[i].fd # NoFd /\ conn[data[i].fd].client = "on" =>
             LET c == data[i].fd IN given[c] = got[c] + OnTheWay(c) + Open(i)
    ELSE LET All(f(_)) == FoldFunction(+, 0, [c \in Clients |-> f(c)])
             Given(c) == given[c]
             Known(c) == got[c] + OnTheWay(c)
         IN  All(Given) = All(Known) + Open(1)
=============================================================================
