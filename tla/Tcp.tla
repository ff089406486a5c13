--------------------------------- MODULE Tcp ---------------------------------
(***************************************************************************)
(* A TCP connection as the servers of hw1, the exams and the practice      *)
(* programs use it: a record with both streams and the state of both ends. *)
(* A stream is a sequence of cells, a cell being what one write puts into  *)
(* it.                                                                     *)
(*                                                                         *)
(* What a dead peer does to a writer is part of the record.  A client that *)
(* goes away with unread data resets the connection (err "reset"); one     *)
(* that had read everything answers the server's next write with a reset.  *)
(* A write to a connection that was reset (err "pipe") raises SIGPIPE,     *)
(* which none of the servers handles: the process ends.                    *)
(***************************************************************************)
EXTENDS Integers, Sequences, SequencesExt

NoConn == [up |-> <<>>, down |-> <<>>, client |-> "off", server |-> "none", err |-> "none"]

Connection(C) == [up : Seq(C), down : Seq(C),
                  client : {"off", "on", "half", "gone"},
                  server : {"none", "queue", "open", "closed"},
                  err : {"none", "reset", "pipe"}]

-----------------------------------------------------------------------------
(* The client's end                                                        *)

Dialled == [NoConn EXCEPT !.client = "on", !.server = "queue"]

Sent(k, cell) == IF k.server = "closed" THEN k ELSE [k EXCEPT !.up = Append(@, cell)]

\* shutdown(SHUT_WR): no more is written, the answers are still read.
HalfClosed(k) == [k EXCEPT !.client = "half"]

\* close, or the end of the process.
Gone(k) ==
  IF k.server = "closed" THEN NoConn
  ELSE [k EXCEPT !.client = "gone", !.down = <<>>,
                 !.err = IF k.down # <<>> THEN "reset" ELSE @]

\* The client has a cell to read; it has read all and the server has closed.
HasAnswer(k) == k.client \in {"on", "half"} /\ k.down # <<>>
ReadRest(k)  == [k EXCEPT !.down = Tail(@)]
SeesEnd(k)   == k.client \in {"on", "half"} /\ k.down = <<>> /\ k.server = "closed"

-----------------------------------------------------------------------------
(* The server's end                                                        *)

Accepted(k) == [k EXCEPT !.server = "open"]

\* A read returns at once: with data, or with the end or an error.
Readable(k) == k.up # <<>> \/ k.client \in {"half", "gone"}
AtEnd(k)    == k.up = <<>>

\* The connection after a read of the first n cells, or after one that failed.
Taken(k, n) == [k EXCEPT !.up = SubSeq(@, n + 1, Len(@)),
                         !.err = IF n = 0 /\ @ = "reset" THEN "pipe" ELSE @]

Closed(k) == IF k.client = "gone" THEN NoConn
                                  ELSE [k EXCEPT !.server = "closed", !.up = <<>>]

\* One write of cell w.cell to the client w.to.  s is the connections and
\* whether the process lives; prompt tells whether a reset comes back at once.
Write(s, w, prompt) ==
  LET k == s.conn[w.to] IN
  IF ~s.alive THEN s ELSE
  CASE k.err = "pipe"  -> [s EXCEPT !.alive = FALSE]
    [] k.err = "reset" -> [s EXCEPT !.conn[w.to].err = "pipe"]
    [] k.err = "none" /\ k.client = "gone" ->
         [s EXCEPT !.conn[w.to].err = IF prompt THEN "pipe" ELSE @]
    [] OTHER           -> [s EXCEPT !.conn[w.to].down = Append(@, w.cell)]

\* The writes ws one after the other.
Writes(conns, ws, prompt) ==
  FoldLeft(LAMBDA s, w : Write(s, w, prompt), [conn |-> conns, alive |-> TRUE], ws)

\* The kernel closes what a process leaves behind.
Orphaned(conns) ==
  [c \in DOMAIN conns |-> IF conns[c].server \in {"queue", "open"} THEN Closed(conns[c])
                                                                    ELSE conns[c]]
=============================================================================
