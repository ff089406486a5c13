------------------------------ MODULE DropNet -------------------------------
(***************************************************************************)
(* The TCP connections between the file synchronisation server of hw3 and  *)
(* its clients, and what travels on them.                                  *)
(*                                                                         *)
(* A stream is a sequence of cells.  What the programs write in one piece  *)
(* and read in one piece is one cell, whatever its number of bytes: an     *)
(* answer header, a count, a fileMeta, a piece of a file.  A request       *)
(* header is two cells, because the server may get it in parts.            *)
(* A connection is used again once both ends have closed it.               *)
(***************************************************************************)
EXTENDS Integers, Sequences

CONSTANTS Users,     \* names clients log in with
          Names,     \* file names
          MaxConns,  \* bound: connections at one time
          SendRoom   \* bound: cells a socket's send buffer holds

ASSUME NetAssumption ==
  /\ MaxConns \in Nat \ {0}
  /\ SendRoom \in Nat \ {0}

VARIABLES
  conn,     \* the connections: both streams, and the state of both ends
  backlog   \* connections not yet accepted, in order

netVars == <<conn, backlog>>

Conns == 1..MaxConns

-----------------------------------------------------------------------------
(* Cells                                                                   *)

Meta == [name : Names, size : Nat]

\* Byte pos of the file that was uploaded as the ver-th one.
Byte(ver, pos)    == [t |-> "byte", ver |-> ver, pos |-> pos]
Content(ver, len) == [pos \in 1..len |-> Byte(ver, pos)]

\* A cmdHeader on its way to the server: its first part, then the rest.
HeaderCells == 2
Request(h) == <<[t |-> "part"], h>>
LoginHeader(u)  == [t |-> "LOGIN", user |-> u]
GetHeader(u, m) == [t |-> "GET", user |-> u, meta |-> m]
PutHeader(u, m) == [t |-> "PUT", user |-> u, meta |-> m]

\* An answer: cmdHeader, transferHeader, and a fileMeta for every file.
ListHeader == [t |-> "LIST"]
Count(n)   == [t |-> "count", n |-> n]
Item(m)    == [t |-> "meta", meta |-> m]
ListOf(metas) ==
  <<ListHeader, Count(Len(metas))>> \o [k \in 1..Len(metas) |-> Item(metas[k])]

-----------------------------------------------------------------------------
(* Streams                                                                 *)

Least(S)    == CHOOSE x \in S : \A y \in S : x <= y
Smaller(a, b) == IF a <= b THEN a ELSE b

First(s, n)   == SubSeq(s, 1, n)
Without(s, n) == SubSeq(s, n + 1, Len(s))

-----------------------------------------------------------------------------
(* Connections                                                             *)

NoConn == [up |-> <<>>, down |-> <<>>, client |-> FALSE, server |-> "none"]

FreeConns == {k \in Conns : conn[k].server = "none"}

\* connect and the first write of a client: the server need not have accepted.
Connected(cells) ==
  [up |-> cells, down |-> <<>>, client |-> TRUE, server |-> "backlog"]

\* The client closes its end: what it has written still arrives.  What was on its
\* way to it or not read stays in down: the answer to such bytes is a reset.
ClientClosed(k) ==
  IF k.server = "closed" THEN NoConn ELSE [k EXCEPT !.client = FALSE]

IsReset(k) == ~k.client /\ k.down # <<>>

\* The server closes its end: what it has written still arrives.
ServerClosed(k) ==
  IF k.client THEN [k EXCEPT !.server = "closed", !.up = <<>>] ELSE NoConn

NetInit ==
  /\ conn = [k \in Conns |-> NoConn]
  /\ backlog = <<>>
=============================================================================
