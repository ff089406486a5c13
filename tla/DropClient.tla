----------------------------- MODULE DropClient -----------------------------
(***************************************************************************)
(* The clients of the file synchronisation of hw3: client.cpp.             *)
(*                                                                         *)
(* A client logs in on its command connection and from then on gets lists  *)
(* of its user's files on it.  It fetches every listed file whose name it  *)
(* has not recorded, one after the other, each on a connection of its own, *)
(* and uploads the files its user asks for the same way.  Its reads block; *)
(* it looks for the next list or the next command only when it is done.    *)
(* A client may stop at any time and be started again.                     *)
(***************************************************************************)
EXTENDS DropNet, FiniteSets

CONSTANTS Clients,     \* the machines clients run on
          Sizes,       \* sizes of the files uploaded
          MaxUploads,  \* bound: uploads in a behaviour
          MaxStarts,   \* bound: clients started in a behaviour
          MaxStops     \* bound: clients stopped in a behaviour

ASSUME ClientAssumption ==
  /\ Sizes \subseteq Nat
  /\ MaxUploads \in Nat
  /\ MaxStarts \in Nat
  /\ MaxStops \in Nat

VARIABLES
  client,    \* each client: where it is and its variables
  disk,      \* the files in each client's directory
  uploads,   \* history: every upload begun, in order: user, name and size
  finished,  \* history: the uploads reported complete
  starts     \* clients started so far, for the bound

clientVars == <<client, disk, uploads, finished, starts>>

Off == [pc |-> "off"]

ClientInit ==
  /\ client = [c \in Clients |-> Off]
  /\ disk = [c \in Clients |-> [n \in Names |-> <<>>]]
  /\ uploads = <<>>
  /\ finished = {}
  /\ starts = 0

-----------------------------------------------------------------------------
At(c, pc) == client[c].pc = pc

\* What the client has received on its command or its data connection.
CmdDown(c)  == conn[client[c].cmd].down
DataDown(c) == conn[client[c].data].down

\* connect, and the request written at once.
Connect(k, h) ==
  /\ FreeConns # {}
  /\ k = Least(FreeConns)
  /\ conn' = [conn EXCEPT ![k] = Connected(Request(h))]
  /\ backlog' = Append(backlog, k)

\* main, clientLogin
Start(c, u) ==
  /\ At(c, "off")
  /\ starts < MaxStarts
  /\ \E k \in Conns :
       /\ Connect(k, LoginHeader(u))
       /\ client' = [client EXCEPT ![c] =
                       [pc |-> "login", user |-> u, cmd |-> k, data |-> 0,
                        localFiles |-> {}, diffFiles |-> <<>>, tCount |-> 0,
                        buf |-> <<>>, upload |-> 0]]
  /\ starts' = starts + 1
  /\ UNCHANGED <<disk, uploads, finished>>

\* One object is read from the command connection.
ReadCmd(c) == conn' = [conn EXCEPT ![client[c].cmd].down = Tail(@)]

\* The header of a list: the answer to the login, or a push.
ReadList(c) ==
  /\ At(c, "login") \/ At(c, "idle")
  /\ CmdDown(c) # <<>>
  /\ Head(CmdDown(c)).t = "LIST"
  /\ ReadCmd(c)
  /\ client' = [client EXCEPT ![c].pc = "count"]
  /\ UNCHANGED <<backlog, disk, uploads, finished, starts>>

\* What comes after a step of retriveListHeader or processSync.
Resume(r) ==
  [r EXCEPT !.pc = IF r.tCount > 0 THEN "metas"
                   ELSE IF r.diffFiles # <<>> THEN "sync" ELSE "idle"]

ReadCount(c) ==
  /\ At(c, "count")
  /\ CmdDown(c) # <<>>
  /\ ReadCmd(c)
  /\ client' = [client EXCEPT ![c] = Resume([@ EXCEPT !.tCount = Head(CmdDown(c)).n])]
  /\ UNCHANGED <<backlog, disk, uploads, finished, starts>>

\* A file of the list that is not recorded by its name is to be fetched.
IsNew(c, m) == m.name \notin client[c].localFiles

ReadMeta(c) ==
  /\ At(c, "metas")
  /\ CmdDown(c) # <<>>
  /\ ReadCmd(c)
  /\ LET m == Head(CmdDown(c)).meta
         r == [client[c] EXCEPT !.tCount = @ - 1,
                                !.diffFiles = IF IsNew(c, m) THEN Append(@, m) ELSE @]
     IN  client' = [client EXCEPT ![c] = Resume(r)]
  /\ UNCHANGED <<backlog, disk, uploads, finished, starts>>

-----------------------------------------------------------------------------
(* processSync                                                             *)

\* The request for the next file that is missing.
Fetch(c) ==
  /\ At(c, "sync")
  /\ \E k \in Conns :
       /\ Connect(k, GetHeader(client[c].user, Head(client[c].diffFiles)))
       /\ client' = [client EXCEPT ![c].pc = "get", ![c].data = k]
  /\ UNCHANGED <<disk, uploads, finished, starts>>

\* read returns what has arrived, at most what is missing of the size that
\* the list gave.  At the end of a shorter stream it returns 0 again and again.
Received(c) ==
  LET missing == Head(client[c].diffFiles).size - Len(client[c].buf)
  IN  Smaller(missing, Len(DataDown(c)))
AllButOne(c) == Len(client[c].buf) + Received(c) = Head(client[c].diffFiles).size - 1
Complete(c) == Len(client[c].buf) + Received(c) = Head(client[c].diffFiles).size
Data(c)     == client[c].buf \o First(DataDown(c), Received(c))

ReadData(c) ==
  /\ At(c, "get")
  /\ Received(c) > 0
  /\ ~Complete(c)
  /\ conn' = [conn EXCEPT ![client[c].data].down = Without(@, Received(c))]
  /\ client' = [client EXCEPT ![c].buf = Data(c)]
  /\ UNCHANGED <<backlog, disk, uploads, finished, starts>>

\* The file is written and recorded.
FinishGet(c) ==
  /\ At(c, "get")
  /\ Complete(c)
  /\ disk' = [disk EXCEPT ![c][Head(client[c].diffFiles).name] = Data(c)]
  /\ conn' = [conn EXCEPT ![client[c].data] = ClientClosed(@)]
  /\ LET r == [client[c] EXCEPT !.localFiles = @ \cup {Head(client[c].diffFiles).name},
                                !.diffFiles = Tail(@), !.buf = <<>>, !.data = 0]
     IN  client' = [client EXCEPT ![c] = Resume(r)]
  /\ UNCHANGED <<backlog, uploads, finished, starts>>

-----------------------------------------------------------------------------
(* processUpload                                                           *)

\* Commands are read once the login is answered and no list is being handled.
TakesCommandsAtOnce(c) == At(c, "idle") \/ At(c, "login")
TakesCommands(c)       == At(c, "idle")

\* The user has made a file and asks for its upload.
Upload(c, n, len) ==
  /\ TakesCommands(c)
  /\ Len(uploads) < MaxUploads
  /\ LET v == Len(uploads) + 1
         m == [name |-> n, size |-> len]
     IN  /\ \E k \in Conns :
              /\ Connect(k, PutHeader(client[c].user, m))
              /\ client' = [client EXCEPT ![c].pc = "put", ![c].data = k,
                                          ![c].buf = Content(v, len), ![c].upload = v]
         /\ disk' = [disk EXCEPT ![c][n] = Content(v, len)]
         /\ uploads' = Append(uploads, [user |-> client[c].user, name |-> n, size |-> len])
  /\ UNCHANGED <<finished, starts>>

WriteData(c) ==
  /\ At(c, "put")
  /\ \E n \in 1..Len(client[c].buf) :
       /\ conn' = [conn EXCEPT ![client[c].data].up = @ \o First(client[c].buf, n)]
       /\ client' = [client EXCEPT ![c].buf = Without(@, n)]
  /\ UNCHANGED <<backlog, disk, uploads, finished, starts>>

FinishPut(c) ==
  /\ At(c, "put")
  /\ client[c].buf = <<>>
  /\ conn' = [conn EXCEPT ![client[c].data] = ClientClosed(@)]
  /\ client' = [client EXCEPT ![c].pc = "idle", ![c].data = 0, ![c].upload = 0,
                  ![c].localFiles = @ \cup {uploads[client[c].upload].name}]
  /\ finished' = finished \cup {client[c].upload}
  /\ UNCHANGED <<backlog, disk, uploads, starts>>

-----------------------------------------------------------------------------
Stops == starts - Cardinality({c \in Clients : ~At(c, "off")})

\* /exit, or the program is stopped anywhere else: its connections close.
Stop(c) ==
  /\ ~At(c, "off")
  /\ Stops < MaxStops
  /\ conn' = [k \in Conns |-> IF k \in {client[c].cmd, client[c].data}
                                THEN ClientClosed(conn[k]) ELSE conn[k]]
  /\ client' = [client EXCEPT ![c] = Off]
  /\ UNCHANGED <<backlog, disk, uploads, finished, starts>>

\* What the program does by itself, and what its user does.
Program(c) ==
  \/ ReadList(c) \/ ReadCount(c) \/ ReadMeta(c)
  \/ Fetch(c) \/ ReadData(c) \/ FinishGet(c)
  \/ WriteData(c) \/ FinishPut(c)

User(c) ==
  \/ \E u \in Users : Start(c, u)
  \/ \E n \in Names, len \in Sizes : Upload(c, n, len)
  \/ Stop(c)

Client(c) == Program(c) \/ User(c)
=============================================================================
