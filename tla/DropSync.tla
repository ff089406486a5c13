------------------------------ MODULE DropSync ------------------------------
(***************************************************************************)
(* The file synchronisation of hw3 as a whole: the server, the clients and *)
(* the connections between them, and what the three together must keep.    *)
(***************************************************************************)
EXTENDS DropServer, DropClient

vars == <<netVars, serverVars, clientVars, ended>>

Init == NetInit /\ ServerInit /\ ClientInit

ServerRuns ==
  \/ Server /\ UNCHANGED <<clientVars, ended>>
  \/ BrokenPipe /\ UNCHANGED clientVars

\* The model stops with the server's process.
Next ==
  /\ ~ended
  /\ \/ ServerRuns
     \/ \E c \in Clients : Client(c) /\ UNCHANGED <<serverVars, ended>>

Spec == Init /\ [][Next]_vars

\* The server's loop and every client's program go on whenever they can.
\* What users do is never owed: a client may stop, none need be started.
Fairness ==
  /\ WF_vars(~ended /\ ServerRuns)
  /\ \A c \in Clients : WF_vars(~ended /\ Program(c) /\ UNCHANGED <<serverVars, ended>>)

FairSpec == Spec /\ Fairness

-----------------------------------------------------------------------------
(* Types                                                                   *)

Cell == [t : {"part", "LIST", "stale"}]
          \cup [t : {"LOGIN"}, user : Users]
          \cup [t : {"GET", "PUT"}, user : Users, meta : Meta]
          \cup [t : {"count"}, n : Nat]
          \cup [t : {"meta"}, meta : Meta]
          \cup [t : {"byte"}, ver : Nat, pos : Nat]

Online == [pc : {"login", "idle", "count", "metas", "sync", "get", "put"},
           user : Users, cmd : Conns, data : Conns \cup {0},
           localFiles : SUBSET Names, diffFiles : Seq(Meta), tCount : Nat,
           buf : Seq(Cell), upload : Nat]

Connection == [up : Seq(Cell), down : Seq(Cell), client : BOOLEAN,
               server : {"none", "backlog", "open", "closed"}]

Entries    == 0..(MAX_FD - 1)
TableEntry == [used : BOOLEAN, fd : Fds \cup {Listen, -1},
               type : {"NONE", "LISTEN", "CMD", "GET", "PUT"},
               name : Users \cup {""}, meta : Meta \cup {<<>>},
               wbuf : Seq(Cell), rbuf : Seq(Cell)]
Round == [half : {"select"}]
           \cup [half : {"read", "write"}, i : Entries, chk_size : 1..MAX_FD,
                 rset : SUBSET (Fds \cup {Listen}), wset : SUBSET Fds]

SystemTypes ==
  /\ conn \in [Conns -> Connection]
  /\ backlog \in Seq(Conns)
  /\ entry \in [Entries -> TableEntry]
  /\ size \in 1..MAX_FD
  /\ sock \in [Fds -> Conns \cup {0}]
  /\ allRset \in SUBSET (Fds \cup {Listen})
  /\ allWset \in SUBSET Fds
  /\ round \in Round
  /\ known \in SUBSET Users
  /\ files \in [Users -> Seq(Meta)]
  /\ stored \in [Users -> [Names -> Seq(Seq(Cell))]]
  /\ client \in [Clients -> {Off} \cup Online]
  /\ disk \in [Clients -> [Names -> Seq(Cell)]]
  /\ uploads \in Seq([user : Users, name : Names, size : Nat])
  /\ finished \in SUBSET Nat
  /\ starts \in Nat

\* Every variable has the type its declaration gives it.
TypeOK == SystemTypes /\ ended \in BOOLEAN

-----------------------------------------------------------------------------
(* The server's tables                                                     *)

UsedEntries == {i \in Entries : entry[i].used}

\* The table, the two sets of select, the descriptors and the connections tell
\* the same story at every moment of a round: a closed descriptor that stayed
\* in a set would make every later select fail, and one number in two entries
\* or in the snapshot of a closed entry would mix two connections up.
TablesAgree ==
  /\ allRset = {entry[i].fd : i \in UsedEntries}
  /\ \A i, j \in UsedEntries : entry[i].fd = entry[j].fd => i = j
  /\ {f \in Fds : sock[f] # 0} = allRset \ {Listen}
  /\ allWset = {entry[i].fd : i \in {i \in UsedEntries : entry[i].type \notin {"LISTEN", "PUT"}}}
  /\ \A f, g \in Fds : sock[f] # 0 /\ sock[f] = sock[g] => f = g
  /\ {k \in Conns : conn[k].server = "open"} = {sock[f] : f \in Fds} \ {0}

\* getUserEntry has no answer for a user who never logged in.
RequestsAreKnown ==
  \A k \in Conns : \A j \in 1..Len(conn[k].up) :
    conn[k].up[j].t \in {"GET", "PUT"} => conn[k].up[j].user \in known

-----------------------------------------------------------------------------
(* Files and lists                                                         *)

LastOf(s) == s[Len(s)]
Positions(u, n) == {k \in 1..Len(files[u]) : files[u][k].name = n}

\* The list of a user's files and the files on disk agree: the last entry for
\* a name describes the file that is on disk, and that file is one upload,
\* whole, and of that user and name.
ListMatchesDisk ==
  \A u \in Users, n \in Names :
    /\ Len(stored[u][n]) > 0 <=> Positions(u, n) # {}
    /\ \A k \in Positions(u, n) :
         (\A j \in Positions(u, n) : j <= k) =>
            /\ files[u][k].size = Len(OnDisk(u, n))
            /\ \E v \in 1..Len(uploads) :
                 /\ uploads[v] = [user |-> u, name |-> n, size |-> files[u][k].size]
                 /\ OnDisk(u, n) = Content(v, uploads[v].size)

\* What an online client has not read yet of its command connection, the part
\* the server still has to write included.
EntryOf(k) == {i \in UsedEntries : entry[i].fd # Listen /\ sock[entry[i].fd] = k}
Unread(c) ==
  conn[client[c].cmd].down \o
    (IF EntryOf(client[c].cmd) = {} THEN <<>>
     ELSE entry[CHOOSE i \in EntryOf(client[c].cmd) : TRUE].wbuf)

\* s is a run of whole lists, each the beginning of fs; what is left of a list
\* that was begun comes first, its items being those from position from on.
IsRunOfLists(s, fs, from) ==
  \A j \in 1..Len(s) :
    \/ s[j] = ListHeader /\ j < Len(s) /\ s[j + 1].t = "count"
    \/ /\ s[j].t = "count" /\ s[j].n <= Len(fs) /\ j + s[j].n <= Len(s)
       /\ \A i \in 1..s[j].n : s[j + i] = Item(fs[i])
       /\ j + s[j].n = Len(s) \/ s[j + s[j].n + 1] = ListHeader
    \/ s[j].t = "meta" /\ \E h \in 1..(j - 1) : s[h].t = "count" /\ j <= h + s[h].n
    \/ /\ s[j].t = "meta" /\ from + j - 1 <= Len(fs) /\ s[j] = Item(fs[from + j - 1])
       /\ \A h \in 1..j : s[h].t = "meta"

\* However the server's partial writes and pushes fall together, a client reads
\* whole lists one after the other, each a list its user's files once were, and
\* the list it is reading ends where its count says.
ListsAreWhole ==
  \A c \in Clients : ~At(c, "off") =>
    LET s    == Unread(c)
        left == client[c].tCount
    IN  /\ At(c, "count") => s # <<>> /\ s[1].t = "count"
        /\ At(c, "metas") =>
             /\ left <= Len(s) /\ \A j \in 1..left : s[j].t = "meta"
             /\ left = Len(s) \/ s[left + 1] = ListHeader
             /\ \E from \in 1..(Len(files[client[c].user]) - left + 1) :
                  IsRunOfLists(s, files[client[c].user], from)
        /\ ~At(c, "metas") =>
             /\ At(c, "count") \/ s = <<>> \/ s[1] = ListHeader
             /\ IsRunOfLists(s, files[client[c].user], Len(files[client[c].user]) + 1)

-----------------------------------------------------------------------------
(* The promise                                                             *)

\* Who each client works for, the uploads begun, and what a file may hold.
Account  == [c \in Clients |-> IF At(c, "off") THEN "nobody" ELSE client[c].user]
Begun    == [v \in 1..Len(uploads) |->
               [user |-> uploads[v].user, name |-> uploads[v].name,
                content |-> Content(v, uploads[v].size)]]
Contents == {Content(v, len) : v \in 1..MaxUploads, len \in Sizes}

Box == INSTANCE DropBox WITH account <- Account, begun <- Begun

\* The files begin, are stored and are fetched as in DropBox.
BoxSpec == Box!Spec

\* With files of several sizes the promise holds but for this: a download may be
\* the beginning of a file only, cut where another one of that name ends.
CutBoxSpec == Box!CutSpec

\* What a client has after it reported "Download ... complete!" is a file as it
\* was uploaded.  False when a name is uploaded again with another size.
DownloadIsWhole ==
  \A c \in Clients, n \in Names :
    disk[c][n] # <<>> =>
      \E v \in 1..Len(uploads) : /\ uploads[v].name = n
                                 /\ disk[c][n] = Content(v, uploads[v].size)

\* A client that stays gets every file its user has, also those uploaded by
\* another client while it was busy fetching or uploading, unless another one's
\* going has ended the server: again and again all that are online have them all.
HasAll(c) ==
  \A n \in Names : Positions(client[c].user, n) # {} => n \in client[c].localFiles

Synced == []<>(ended \/ \A c \in Clients : At(c, "off") \/ HasAll(c))

\* An upload that was reported complete is stored in the end, although the
\* client may stop at once, unless the server is ended before.
Arrived(v) ==
  \E k \in 1..Len(stored[uploads[v].user][uploads[v].name]) :
    stored[uploads[v].user][uploads[v].name][k] = Content(v, uploads[v].size)

UploadsArrive == []<>(ended \/ \A v \in finished : Arrived(v))
=============================================================================
