----------------------------- MODULE DropServer -----------------------------
(***************************************************************************)
(* The file synchronisation server of hw3: run_server of server.cpp with   *)
(* the entries of FDManager.h and the users of fileManager.h.              *)
(*                                                                         *)
(* One thread, non-blocking sockets.  A round begins with select, which    *)
(* takes a snapshot of the descriptors that can be read or written; then   *)
(* every entry is visited in the order of the table, and what it does may  *)
(* change the entries visited after it.  A connection shows by its first   *)
(* header what it is: a command connection (CMD) that gets the user's list *)
(* at login and whenever an upload is complete, a download (GET), or an    *)
(* upload (PUT).  Each read and each write is a step of its own: it moves  *)
(* what the kernel gives or takes, which may be a part.                    *)
(***************************************************************************)
EXTENDS DropNet

VARIABLES
  entry,    \* FDManager's table
  size,     \* entries of it in use or used before
  sock,     \* descriptors of the server: the connection each stands for, or 0
  allRset,  \* descriptors select watches for reading
  allWset,  \* descriptors select watches for writing
  round,    \* in a round: the entry at turn, the snapshot, the size it had
  known,    \* users in fileManager
  files,    \* each user's list of files
  stored,   \* the files written to each user's directory, by name, the last
            \* one being on disk
  ended     \* has SIGPIPE ended the process?

serverVars == <<entry, size, sock, allRset, allWset, round, known, files, stored>>

-----------------------------------------------------------------------------
Listen == 0                     \* fd_listen
Fds    == 1..MaxConns           \* descriptors accept returns
MAX_FD == MaxConns + 1          \* 100 in the code; the bound keeps below it

NoEntry == [used |-> FALSE, fd |-> -1, type |-> "NONE", name |-> "", meta |-> <<>>,
            wbuf |-> <<>>, rbuf |-> <<>>]

ServerInit ==
  /\ entry = [i \in 0..(MAX_FD - 1) |->
                IF i = 0 THEN [NoEntry EXCEPT !.used = TRUE, !.fd = Listen, !.type = "LISTEN"]
                         ELSE NoEntry]
  /\ size = 1
  /\ sock = [f \in Fds |-> 0]
  /\ allRset = {Listen}
  /\ allWset = {}
  /\ round = [half |-> "select"]
  /\ known = {}
  /\ files = [u \in Users |-> <<>>]
  /\ stored = [u \in Users |-> [n \in Names |-> <<>>]]
  /\ ended = FALSE

-----------------------------------------------------------------------------
(* The round                                                               *)

\* What the kernel has for descriptor f: bytes or the end of the stream, room
\* or an error.
CanRead(f) ==
  IF f = Listen THEN backlog # <<>>
                ELSE conn[sock[f]].up # <<>> \/ ~conn[sock[f]].client
CanWrite(f) == Len(conn[sock[f]].down) < SendRoom \/ ~conn[sock[f]].client

\* Does r have something to do for entry ent: to read, to write, or to end?
HasToRead(r, ent)  == ent.used /\ ent.fd \in r.rset
HasToWrite(r, ent) == ent.used /\ ent.fd \in r.wset /\ (ent.wbuf # <<>> \/ ent.type = "GET")

\* Round r at the first entry from k on that it has something to do for; after
\* the last one, select again.
VisitFrom(r, table, k) ==
  LET todo == {j \in k..(r.chk_size - 1) : HasToRead(r, table[j]) \/ HasToWrite(r, table[j])}
      j == Least(todo)
  IN  IF todo = {}
        THEN [half |-> "select"]
        ELSE [r EXCEPT !.i = j, !.half = IF HasToRead(r, table[j]) THEN "read" ELSE "write"]

\* After the read half of an entry comes its write half, unless it has gone.
AfterRead(r, table) ==
  IF HasToWrite(r, table[r.i]) THEN [r EXCEPT !.half = "write"]
                               ELSE VisitFrom(r, table, r.i + 1)

AfterWrite(r, table) == VisitFrom(r, table, r.i + 1)

\* select fails as long as a closed descriptor is in one of its sets.
Select ==
  /\ round.half = "select"
  /\ \A f \in (allRset \cup allWset) \ {Listen} : sock[f] # 0
  /\ LET r == [half |-> "read", i |-> 0, chk_size |-> size,
               rset |-> {f \in allRset : CanRead(f)},
               wset |-> {f \in allWset : CanWrite(f)}]
     IN  /\ r.rset \cup r.wset # {}
         /\ round' = VisitFrom(r, entry, 0)
  /\ UNCHANGED <<entry, size, sock, allRset, allWset, known, files, stored, netVars>>

-----------------------------------------------------------------------------
(* Reading                                                                 *)

Reading == round.half = "read"
Writing == round.half = "write"
cur  == entry[round.i]     \* the entry at turn
link == sock[cur.fd]       \* and its connection

\* addFD: the first unused entry, or a new one at the end.
Unused    == {i \in 0..(size - 1) : ~entry[i].used}
SlotAtEnd == size
Slot      == IF Unused = {} THEN size ELSE Least(Unused)

Accept ==
  /\ Reading
  /\ cur.type = "LISTEN"
  /\ LET new_fd == Least({f \in Fds : sock[f] = 0})
     IN  /\ entry' = [entry EXCEPT ![Slot] = [NoEntry EXCEPT !.used = TRUE, !.fd = new_fd]]
         /\ size' = IF Slot = size THEN size + 1 ELSE size
         /\ sock' = [sock EXCEPT ![new_fd] = Head(backlog)]
         /\ allRset' = allRset \cup {new_fd}
         /\ allWset' = allWset \cup {new_fd}
  /\ conn' = [conn EXCEPT ![Head(backlog)].server = "open"]
  /\ backlog' = Tail(backlog)
  /\ round' = AfterRead(round, entry')
  /\ UNCHANGED <<known, files, stored>>

\* fdEntry::remove of entry i with close(fd).
Removed(table, i) == [table EXCEPT ![i] = NoEntry]
CloseFd ==
  /\ sock' = [sock EXCEPT ![cur.fd] = 0]
  /\ conn' = [conn EXCEPT ![link] = ServerClosed(@)]

\* FD_CLR of the entry's descriptor in the set of select.
StillWatched == allRset
Unwatched    == allRset \ {cur.fd}

\* read returns 0: the client has closed and nothing is left to read.
ClosedAtAll == ~conn[link].client
AtEnd       == conn[link].up = <<>>

HangUp ==
  /\ Reading
  /\ cur.type # "LISTEN"
  /\ AtEnd
  /\ allRset' = Unwatched
  /\ allWset' = allWset \ {cur.fd}
  /\ entry' = Removed(entry, round.i)
  /\ CloseFd
  /\ round' = AfterRead(round, entry')
  /\ UNCHANGED <<size, known, files, stored, backlog>>

\* The read of a header or of a file takes n cells; got is what rbuf has then.
ExpectsHeader == cur.type \in {"NONE", "CMD"}
Wanted        == IF ExpectsHeader THEN HeaderCells - Len(cur.rbuf) ELSE Len(conn[link].up)
ReadSizes     == 1..Smaller(Wanted, Len(conn[link].up))
Taken(n)      == conn' = [conn EXCEPT ![link].up = Without(@, n)]
Got(n)        == cur.rbuf \o First(conn[link].up, n)

\* patchRead: is the header, or the file, still incomplete?
Patched(n, wanted) == Len(Got(n)) < wanted

ReadPart ==
  /\ Reading
  /\ cur.type \in {"NONE", "CMD", "PUT"}
  /\ \E n \in ReadSizes :
       /\ Patched(n, IF cur.type = "PUT" THEN cur.meta.size ELSE HeaderCells)
       /\ Taken(n)
       /\ entry' = [entry EXCEPT ![round.i].rbuf = Got(n)]
  /\ round' = AfterRead(round, entry')
  /\ UNCHANGED <<size, sock, allRset, allWset, known, files, stored, backlog>>

\* The header is complete, and its command is t.
Header == Got(Wanted)[HeaderCells]
ReadHeader(t) ==
  /\ Reading
  /\ ExpectsHeader
  /\ Wanted \in ReadSizes
  /\ Header.t = t
  /\ Taken(Wanted)

SetOnly(ent, cells) == [ent EXCEPT !.wbuf = cells]
\* setData: behind what is not written yet.
SetData(ent, cells) == [ent EXCEPT !.wbuf = @ \o cells]

\* processList of entry ent, when the user's files are those of fs.
Listed(ent, fs) == SetData(ent, ListOf(fs[ent.name]))

Login ==
  /\ ReadHeader("LOGIN")
  /\ known' = known \cup {Header.user}
  /\ entry' = [entry EXCEPT ![round.i] =
                 Listed([@ EXCEPT !.name = Header.user, !.type = "CMD", !.rbuf = <<>>], files)]
  /\ allWset' = allWset \cup {cur.fd}
  /\ round' = AfterRead(round, entry')
  /\ UNCHANGED <<size, sock, allRset, files, stored, backlog>>

\* The file on disk, if there is one.
OnDisk(u, n) ==
  IF stored[u][n] = <<>> THEN <<>> ELSE stored[u][n][Len(stored[u][n])]

Get ==
  /\ ReadHeader("GET")
  /\ entry' = [entry EXCEPT ![round.i] =
                 SetData([@ EXCEPT !.name = Header.user, !.type = "GET", !.rbuf = <<>>],
                         OnDisk(Header.user, Header.meta.name))]
  /\ allWset' = allWset \cup {cur.fd}
  /\ round' = AfterRead(round, entry')
  /\ UNCHANGED <<size, sock, allRset, known, files, stored, backlog>>

Put ==
  /\ ReadHeader("PUT")
  /\ entry' = [entry EXCEPT ![round.i].name = Header.user, ![round.i].type = "PUT",
                            ![round.i].rbuf = <<>>, ![round.i].meta = Header.meta]
  /\ allWset' = allWset \ {cur.fd}
  /\ round' = AfterRead([round EXCEPT !.wset = @ \ {cur.fd}], entry')
  /\ UNCHANGED <<size, sock, allRset, known, files, stored, backlog>>

ToldIfIdle(ent, u) == ent.used /\ ent.type = "CMD" /\ ent.name = u /\ ent.wbuf = <<>>
\* Whom an upload of user u is told to.
IsTold(ent, u) == ent.used /\ ent.type = "CMD" /\ ent.name = u

\* What writeBufferAsFile writes once the last n cells are read.
LastRead(n) == First(conn[link].up, n)
File(n)     == First(Got(n), cur.meta.size)

\* The upload is complete: it is written to disk, listed, and the new list
\* goes to every command connection of the user.
StoreFile ==
  /\ Reading
  /\ cur.type = "PUT"
  /\ \E n \in ReadSizes :
       /\ ~Patched(n, cur.meta.size)
       /\ stored' = [stored EXCEPT ![cur.name][cur.meta.name] =
                       Append(@, File(n))]
  /\ files' = [files EXCEPT ![cur.name] = Append(@, cur.meta)]
  /\ entry' = Removed([i \in DOMAIN entry |->
                         IF IsTold(entry[i], cur.name) THEN Listed(entry[i], files')
                                                     ELSE entry[i]], round.i)
  /\ allRset' = Unwatched
  /\ CloseFd
  /\ round' = AfterRead(round, entry')
  /\ UNCHANGED <<size, allWset, known, backlog>>

-----------------------------------------------------------------------------
(* Writing                                                                 *)

\* flushWrite: the kernel takes some of what is to be written.
Flush ==
  /\ Writing
  /\ conn[link].client
  /\ \E n \in 1..Smaller(Len(cur.wbuf), SendRoom - Len(conn[link].down)) :
       /\ conn' = [conn EXCEPT ![link].down = @ \o First(cur.wbuf, n)]
       /\ entry' = [entry EXCEPT ![round.i].wbuf = Without(@, n)]
  /\ round' = AfterWrite(round, entry')
  /\ UNCHANGED <<size, sock, allRset, allWset, known, files, stored, backlog>>

\* The client has closed: the kernel takes some and drops it.  When a reset has
\* come in instead of the end of the stream, write fails with ECONNRESET, and
\* pBase moves back by one byte.
FlushToNobody ==
  /\ Writing
  /\ ~conn[link].client
  /\ cur.wbuf # <<>>
  /\ \/ \E n \in 1..Len(cur.wbuf) :
          entry' = [entry EXCEPT ![round.i].wbuf = Without(@, n)]
     \/ /\ IsReset(conn[link])
        /\ entry' = [entry EXCEPT ![round.i].wbuf = <<[t |-> "stale"]>> \o @]
  /\ round' = AfterWrite(round, entry')
  /\ UNCHANGED <<size, sock, allRset, allWset, known, files, stored, netVars>>

\* When the reset has come in behind the end of the stream, both since select,
\* write fails with EPIPE: the signal, which nobody catches, ends the process.
BrokenPipe ==
  /\ Writing
  /\ IsReset(conn[link])
  /\ cur.wbuf # <<>>
  /\ ended' = TRUE
  /\ UNCHANGED <<serverVars, netVars>>

\* A download that is wholly written is closed.
EndGet ==
  /\ Writing
  /\ cur.wbuf = <<>>
  /\ cur.type = "GET"
  /\ allWset' = allWset \ {cur.fd}
  /\ allRset' = Unwatched
  /\ entry' = Removed(entry, round.i)
  /\ CloseFd
  /\ round' = AfterWrite(round, entry')
  /\ UNCHANGED <<size, known, files, stored, backlog>>

-----------------------------------------------------------------------------
Server ==
  \/ Select \/ Accept \/ HangUp \/ ReadPart \/ Login \/ Get \/ Put \/ StoreFile
  \/ Flush \/ FlushToNobody \/ EndGet
=============================================================================
