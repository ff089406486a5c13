# Verification of the network programming homeworks

TLA+ models, TLC runs and TLAPS proofs for the programs of this repository: the
homeworks `hw0` to `hw3`, the midterm and final exams, and the practice
programs. Every program is small; what makes them hard is what happens between
them: lost and repeated datagrams, several descriptors in one `select` loop,
threads that share a table, signals, processes that stop at a bad moment.

Contents: [inventory](#inventory), [plan](#plan), [hw2](#hw2-reliable-file-transfer),
[old_final_2012F P2](#old_final_2012f-p2-threaded-counting-server),
[hw3](#hw3-file-synchronisation), [the small programs](#the-small-programs), [runs](#runs), [fairness](#fairness),
[proofs](#proofs), [what is not modelled](#what-is-not-modelled).

## Inventory

| Component | State | Operations | Interaction | Hard behaviour | What makes it correct |
|---|---|---|---|---|---|
| `hw2` sender, receiver, `fileUDP.h`; `release/select`, `alarm`, `socketOpt` | batch buffer, marks (`check`), offset; the receiver's buffer, expected offset, output stream | load a batch, send, resend on timeout, read acknowledgement; store block, write batch, acknowledge, leave | datagrams over UDP, ICMP error of a closed port | loss, duplication, reordering, a timeout against a late answer, the end of the transfer | the received file is the sent one; marks are true; both programs end |
| `old_final_2012F` P2 (`server_P2.cpp`, `countUDP.h`, `client_UDP.cpp`) | table of entries with queue, sum, mutex and condition variable; worker threads | find or open a session, push, signal; wait, WARN, add, Sum, free | UDP to the clients; mutex and condition variable between main and workers | lookup and push under separate locks, signal after unlock, reuse of entries, timeout against signal | one worker per entry, one session per client, no lost wakeup, sums of one's own numbers, the sessions of clients that stay end |
| `old_final_2012F` P1, P3 | one sum; a table of connections polled without blocking | accept, read a number, WARN after five seconds, Sum | UDP (P1), TCP (P3) | an entry reused while answers are on their way, a full table | every number is in exactly one sum |
| `hw3` server (`server.cpp`, `FDManager.h`, `fileManager.h`, `fileInfo.h`) | table of entries, two watched sets, users, lists, files on disk | accept, login, list, get, put, push of lists, flush | TCP streams to the clients | a snapshot that ages within a round, partial reads and writes, clients that go away | tables agree; only whole uploads are stored; lists reach clients whole |
| `hw3` client | recorded files, difference list, connections | login, read list, fetch, upload, exit | one command connection, one connection per file | a list that is old when it is used, pushes while busy | every listed file arrives, whole |
| `hw1` chat server, client | table of clients, watched set | hello, who, tell, yell, name, exit | TCP, `select` | several lines in one read, half-closed clients that are still written to, slots never reused | names are unique, everybody can know who is there, no ordinary exit ends the server |
| `mid_2014F` P4 | client table, list of kept messages | login, SAY, TELL, delivery and receipts at login, EXIT | TCP, `select` | a list that grows and shrinks while it is walked, a blocking read in the loop | a message is told once or kept once |
| `mid_2014F` P1 to P3, `old_mid_2013F` P1 to P3 | an accumulator per client, or nothing | one command per read | TCP: iterative, forking, `select` | reused entries, copies in children, the end of input | answers belong to one's own commands; nobody's end is the server's |
| `old_mid_2013F` P4 | connection counter, mode, accumulators, children | accept, fork, `select`, SIGCHLD | TCP, processes, signals | the counter and the mode are changed by a handler and by main; an interrupted `select` | the counter is the number of connections |
| `final_2014F` P1 | sum, count, init flag, alarm | number, SIGALRM reset | UDP, signal | reset in the middle of a sum | the answer is a sum of two numbers; an alarm exactly while one waits |
| `final_2014F` P2, `practice/raw-socket` | next host, table of replies | alarm handler sends, main receives and scans | ICMP, signal | the handler in the middle of the scan; carries of the checksum | every host is asked and reported; packets verify |
| `final_2014F` P3, P4, `practice/thread-specific-data` | a buffer per thread | writeline, readline | TCP | threads in one function, lines cut anywhere | lines come out as they went in, at their own client |
| `hw0`, `practice/name-address`, `hw3/file_test.cpp`, `server_tmp.cpp`, scripts | none worth a model | | | | |

The hazards of `PROJECT.json` list, line by line, what can go wrong in each of
them, and name the property that watches for it or say why there is none.

## Plan

| Order | Modules | Composes | Abstract specification | State |
|---|---|---|---|---|
| 1 | `FileTransfer`, `FileTransferProof` | sender, receiver, network | `FileCopy` | done |
| 2 | `CountWorkers`, `CountWorkersProof` | main thread, workers, clients, UDP | | done |
| 3 | `DropNet`, `DropServer`, `DropClient`, `DropSync`, `DropListsProof`, `DropBoxProof` | `DropSync` composes the server and the clients over `DropNet` | `DropBox` | done; proved |
| 4 | `Tcp`, `ChatServer` (`hw1`), `OfflineChat` (`mid_2014F` P4) | server and clients over streams of lines | | done |
| 5 | `ExamServers` (`old_mid_2013F`, `mid_2014F` P1 to P3), `SumServer`, `SumServerProof` (`final_2014F` P1), `PingSubnet` (`final_2014F` P2) | main, its children and its signal handler | a pairwise sum (`AnswerIsPairSum`) | done |
| 6 | `CountServers` (`old_final_2012F` P1, P3), `LineServer` (`final_2014F` P3, P4, practice) | server, threads and clients | a queue of characters per client (`LinesAreOwn`) | done |
| 7 | `Calculate` and `Accumulate` in `ExamServers`, `in_cksum` in `PingSubnet` | | one's complement sum (`OnesSum`) | done |
| 8 | `Programs`, `MCPrograms`, `ProgramsProof`, `LinesProof`, `ExamProof` | `Programs`: the modules of 4 to 7, side by side; `MCPrograms` gives the constants values | | done |
| 9 | proofs of `RosterKnown` (`ChatServer`), `KeptOnce` and `KeptForAbsent` (`OfflineChat`), `NumbersAccounted` (`CountServers`) | | | open, see [proofs](#proofs) |

Modules to be proved about use no recursive operator and state their invariants
as conjunctions of named parts. The small programs share one run because each of
them is small: an instance that explores all of them costs one start of TLC,
and a behaviour of the run is a behaviour of exactly one of them.

## hw2: reliable file transfer

`FileTransfer` models `hw2/sender.cpp` (and `release/select/sender.cpp`, the same
file), `hw2/release/receiver.cpp`, the header in `hw2/fileUDP.h`, and the two
sockets.

| Model | Code |
|---|---|
| `Load` | the do loop that fills `GBN_buf`, with the end of file met by the last read |
| `SendBlock(k)` | one `write` of the loop at RESEND; skips what `check` marks |
| `Timeout` | `select` returns 0, `goto RESEND` |
| `ReceiveAck(a)` | `read` of a header: marks only if its offset is the batch's; leaves the batch when all is marked |
| `ReadError` | `read` fails with the refusal of a closed port: taken for the end of the transfer |
| `ReceiveData(d)` | one turn of the receiver's loop: test of the offset, store, write and reset a whole batch, acknowledge unless the end was reached |
| `CloseSocket`, `Exit` | `close(fd_self)`, then the end of `main`, which flushes the stream |
| `LoseData`, `LoseAck`, and receives that leave the datagram in place | loss, and duplication with any delay |
| `Bounce(d)` | a datagram at a port nobody is bound to: an error is pending on the sender's connected socket, and the next `write` or `read` takes it |

Data are places in the file: a block is a position and a number of bytes.
`FileCopy` is the promise without a network: the receiver's file grows by whole
batches, the receiver is done at the block that ends the file, the sender only
after it.

Bounds: blocks of 2 bytes and batches of 2 blocks (1400 bytes and 1000 blocks in the
code), file sizes 0, 1, 2, 3, 4, 5, 8: empty, shorter than a block, ending at a
block, in a batch, at a batch and after two batches. Two blocks suffice for a
batch to be half acknowledged, three batches for an expired message to meet a
batch that is not its successor.

The copies under `release/alarm` and `release/socketOpt` differ in how the timeout
shows (EINTR, EWOULDBLOCK), which is the same `Timeout` action.

## old_final_2012F P2: threaded counting server

`CountWorkers` models `server_P2.cpp` and the reactions of `client_UDP.cpp`. An
action is what a thread does between two points where others may see it: taking
a mutex, a critical section up to its unlock, a wait, a run of statements on
data no other thread uses.

| Model | Code |
|---|---|
| `Receive` | `recvfrom` in `mainLoop` |
| `ScanLock`, `Inspect` | a turn of the loop over the entries in `newData`, one lock at a time |
| `Refuse`, `NewSession(t)` | full table; `init` of an entry and the start of its worker |
| `PushLock`, `Push`, `Signal` | the second lock, `push` and unlock, `pthread_cond_signal` |
| `LoopLock`, `Test`, `Wait`, `Expire`, `Spurious`, `Warn`, `Woken`, `Pop` | a turn of `workLoop`: loop test and lock, `empty()`, `pthread_cond_timedwait` and its three ways to return, WARN, `front` and `pop`, the addition |
| `Report`, `FinishLock`, `Finish` | Sum, then `initialized = false` under the lock |
| `Type`, `ClientRead`, `Leave` | a number from the keyboard; the answer to WARN; the end of the client's input |

`front()` on an empty queue is undefined behaviour; the model sets `undefined` and
stops there. `counted` is a history variable: whose numbers are in a sum.

A client leaves at the end of its input (`Leave`), whatever its session: what is sent
to it then reaches nobody, and no WARN is answered. Its worker warns every five
seconds for ever and keeps the entry, so `SessionsEnd` is about clients that stay;
an address is not used again by a later client.

Bounds: two clients; two entries and three threads, so that an entry is reused
while its last thread may still run (safety), one entry and two threads
(liveness, where two clients compete for the entry); a limit of 2 or 3 instead of
100, so that one, two or three numbers end a session; two to four typed numbers;
one datagram per socket buffer of a client. `Numbers` is a subset of `Nat`, so sums are
natural numbers; the code's `int` takes negative numbers too, and those, with
the overflow of a sum, are left out.

## hw3: file synchronisation

`DropNet` holds the connections: each a pair of streams and the state of both
ends, closed independently; what was written before a close still arrives. What
the closer has not read stays in `down`: it makes the close a reset (`IsReset`). A stream is a sequence of cells: what one side
writes in one piece and the other reads in one piece is one cell. A request header
is two cells because the server may get it in parts; a file of n cells can be cut
anywhere.

`DropServer` is `run_server` with `FDManager`. A round is `Select` (the snapshot)
and then the entries in table order; each read and each write is one action, so
that clients act in between.

| Model | Code |
|---|---|
| `round` | `rset`, `wset`, `chk_size`, the loop index, and which half of the loop's body is next |
| `Accept` | `accept`, `addFD` with reuse of the first unused entry |
| `HangUp` | `read` returns 0: the entry goes |
| `ReadPart` | a read that leaves the header or the file incomplete (`patchRead`) |
| `Login`, `Get`, `Put` | a complete header, by its command |
| `StoreFile` | the read that completes an upload: file, list, pushes to every command connection of the user, removal |
| `Flush`, `FlushToNobody`, `EndGet` | `flushWrite` with a part taken, with the client gone, with nothing left of a download |
| `BrokenPipe` | `write` raises SIGPIPE, which nobody catches: `ended`, and the model stops |

A write to a client that has gone has three outcomes. The kernel takes the bytes
and drops them; or a reset has come in and `write` fails with ECONNRESET, which the
code does not see because `nW` is a `size_t`: `pBase` moves back by one byte, which
is a cell of another time (`stale`) in front of what is left; or the end of the stream
came in first, then the reset, and `write` fails with EPIPE and the signal. The
last needs both since `select`, for a connection with an end of stream to read
is hung up on before anything is written to it.

Visits of an entry with nothing to read, write or end change nothing and are
passed over. `FD_ISSET` of an entry that was just removed is evaluated on -1; the
entry has nothing to write then, so either answer changes nothing.
Names left behind in unused entries are never read and are cleared in the model.

`DropClient` is `client.cpp`: `Start`, the three reads of a list, `Fetch`, `ReadData`,
`FinishGet`, `Upload`, `WriteData`, `FinishPut`, and `Stop`, which is `/exit` or a
killed process at any point. `DropSync` composes the two.

`DropBox` is the promise: an upload is stored whole or not at all; what a client
fetches is the whole of something stored for its user under that name.
`DropSync` implements it as long as a name keeps its size (`drop_safety`), and does not
otherwise (`truncated_download`). With sizes of any kind a weaker promise is kept
(`CutBoxSpec`): a download is the beginning of a stored file, as long as some file
that was stored under the name.

Bounds: two machines; three connections at a time (two command connections and a
transfer, or transfers of clients that have gone) and four in `drop_liveness`, where both
clients may be at a transfer; a send buffer of two cells, so that a list is written in parts and
a client can go with a part unread; two uploads; one stop. `drop_safety` has two users and two
names and files of two cells, and a client that stopped may be started again. `drop_liveness` has
one user with two clients and files of one cell. Each client uploads under a name of its own,
so that a client that was not told of the other's upload, which it may miss while it logs in,
fetches or uploads, lacks that name (`OwnNames`, which also says which client is started first: they
are alike). A client stops between two commands, when both uploads have begun and one was reported
complete (`LateStops`): the one that has just reported it, or the other one, with the list on its way;
stops at any other moment are in `drop_safety`. `MAX_FD` is kept above the number of connections.

## The small programs

`Tcp` is a connection as all of them use it: two streams of cells, the state of
both ends, and what a dead peer does to a writer. A client that goes away with
unread data resets the connection; one that had read everything answers the
next write with a reset, at once or later; a write after that raises SIGPIPE, which
no server handles. A descriptor stands for the client at its other end, and a
handler's writes to several clients are one step, since no client sees two of
them. A read returns any number of the lines that are there.

`Programs` runs the modules side by side: a behaviour is one of exactly one
program, the variables of the others stay at `Off`. `MCPrograms` gives the
constants their values for the run `programs`.

**`ChatServer`** (`hw1/server.cpp`, `hw1/client.cpp`)

| Model | Code |
|---|---|
| `Select` | `select`, with the snapshot `rset`; a round ends when it is handled |
| `Accept`, `NoFds` | a new entry at `next_index`, never a free one, `processHello`; the full table |
| `Leave(i)` | `read` returns 0 or fails: entry removed, `processLogout`, `close` |
| `Input(i)` | `processInput` of the first line that was read: `Who`, `Rename`, `Tell` (first word only), `Yell`, or the error |
| `Exit`, `Read`, `End`, `Kill` | the client: `shutdown` and reading on, the end of the connection, a process that is killed |

`NamesUnique`: tell has one addressee. `RosterKnown`: a client that asks who is
there when it arrives, and follows the messages, knows the names whenever it has read
everything, although a rename, a departure and its own turn share a round.
`ServerDiesOnlyByKill`: a half-closed client may be written to until its turn
comes. `NobodyForgotten`: when `select` sleeps, nothing that was sent is unread and no
departed client still has a place. It does not say that every line is answered:
`processClient` cuts what it read at the first newline, and the lines behind it are lost.

**`OfflineChat`** (`mid_2014F/server_P4.cpp`, `client.cpp`)

| Model | Code |
|---|---|
| `Accept`, `ReadName` | `accept`, then a blocking `read` of the name in the middle of the round; at its end of input the name is what `buf` held before |
| `ProcessOffline`, `DirectMSG` | kept messages told and erased, their receipts told or kept in the same list |
| `Command(i)`, `EmptyCommand(i)`, `ExitCommand(i)` | `ProcessCMD` of the first line; the end of a stream, which is an empty command and leaves the entry; EXIT |

SAY tests its sender's descriptor instead of the receiver's, so it also writes
to -1, which fails and does nothing. A receipt that is kept is itself delivered
and acknowledged. `KeptOnce`: a message is told once or kept once. `KeptForAbsent`:
nothing is kept for somebody who is there, and a chain of receipts never forks.

**`ExamServers`** (`old_mid_2013F`, `mid_2014F` P1 to P3 and their clients)

| Model | Code |
|---|---|
| `Accept`, `Serve`, `Child(c)` | the iterative and the forking servers; a child has a copy of the accumulator |
| `Again`, `Select`, `SelectAccept`, `TableFull`, `Visit(i)` | `processSelect`: entries and their accumulators are reused, a full table skips the round |
| `Top`, `SetSelect`, `Mode` | P4's main loop, between whose steps the handler runs |
| `Reap` | `sig_chld`: all children that ended; an interrupted `select` leaves `rset` as it was given |
| `Served` | one `read` and `ProcessCMD`; a line without a number of operands leaves `times` undefined, a choice |

`AnswersAreOwn`: an answer is what the client's own commands make, through entries
that are reused, copies in children and interleaved clients. `CountIsRight`: P4's counter, changed by
main and by the handler, is the number of open connections and of children
not waited for. Its increments are one instruction in the `-O2` build of
`run_server`, hence one step; in a build without optimisation a signal between load
and store would be lost. `OrdinaryEndsAreHarmless`: a client that ends by itself
ends no server, except the select loop of `mid_2014F` P3, which never closes such a
connection and writes to it until SIGPIPE. The statement `ForkModeServesAll`, that
main goes back to fork mode only when no client is left in the table, is false of
the code and is in no run: two children end while main waits in `select`, the
handler clears `useSelect`, the interrupted `select` leaves the listening socket
set in `rset`, and the client that is then accepted is in a table that main leaves.

**`CountServers`** (`old_final_2012F` P1, P3, `countTCP.h`, `client_TCP.cpp`)

| Model | Code |
|---|---|
| `Accept`, `NoneToAccept`, `Skip` | non-blocking `accept`, the first free entry; unused entries |
| `ReadClient` | `E_SUCCESS`, `E_EMPTY`, `E_ERROR`: `readEntry`, then `updateTime` |
| `CloseClient` | `E_CLOSED` |
| `Receive`, `ReceiveTimeout` | P1: `recvfrom` and its timeout |
| `ReadWarn` | the client answers a warning with the number in it |

`NumbersAccounted`: every number is in exactly one place: on its way, in a sum,
in a sum on its way, or told.

**`SumServer`** (`final_2014F/P1`) has one action per statement between which the
SIGALRM handler (`timedout`) makes a difference; `sum += n` is a load and a
store, as the program is built without optimisation. `reset` declares a local
`count` and does not reset the global one. `AnswerIsPairSum`, `AlarmIffOpen`: see
[proofs](#proofs).

**`PingSubnet`** (`final_2014F/P2`, and the checksum and packet of
`practice/raw-socket`): `sendICMP` is the handler; `recvICMP`, `recvNothing` and
`checkTimedout`, one entry at a time, are main. Time passes by seconds at any
moment. An answer is printed with its sender's address, but the entry that is marked is the
number found in that address, as text, behind the subnet's length, and `icmp_id` is not compared.
A reply to another ping on the machine may thus mark a host that never answered and was
never printed (`verdict` is `mistaken`), or, with 255, write behind the table, where the model stops
(`recvBeyond`). `HostsReported`: the program ends only when every host was asked, and an RTT or "no
response" was printed of it unless it was mistaken; "no response" is printed at most once, and
not after the RTT. An RTT may follow it (`late RTT`), and a host whose answer
waits to be received while the scan goes by is called silent. `PacketsVerify`: a receiver's one's complement sum over a packet is all ones.

**`LineServer`** (`final_2014F` P3, P4, `practice/thread-specific-data`): a thread per
client in `WriteLine`, or in `Fill` and `ReadChar`, each on its own buffer, and
the serial server. `LinesAreOwn`: what was made of a client's characters, what is in its
buffers and what is on its way is, in this order, what it typed.
`ServerSurvives`: no client ends the server, as each waits for its reply. `writeline` appends
without a look at the end of its `Wline`; a longer line overwrites the pointer behind the buffer,
and the model stops there (`Overrun`), so both properties are about lines that fit. A line that
was begun when the client ends is dropped by the threads and printed by the serial server.

Bounds of `programs`: two clients (three for `ExamServers`, so that a third finds
the table full or two children there; one suffices for `SumServer`, whose
server does not tell clients apart except for the answer's address), three
connections in all, two typed lines, one killed client, tables of two entries (15
or 2048 in the code), a limit of 3 instead of 100, three hosts instead of 254, words of four
values (`Word`) instead of 2^16 with sums that carry twice, line buffers of three characters
instead of 2048, which the four that are typed fill and overrun. Commands, names and texts are small sets that contain a taken
name, an invalid name and each command.

## Runs

| Run | Expectation | What it shows |
|---|---|---|
| `transfer_safety` | holds | under loss, duplication and reordering the output is a prefix of the file, marks are true, the sender ends only after delivery and only by the error of the closed port; `FileCopy` is implemented |
| `transfer_liveness` | holds | the receiver gets the file, both programs end; `IInv` also when the receiver binds late |
| `late_receiver` | violated | a receiver that binds after the first datagram: the sender ends with nothing delivered |
| `loopback_livelock` | violated | prompt refusals taken by the send loop's writes keep the sender going for ever |
| `workers_safety` | holds | one worker per entry, one session per client, no lost wakeup, the inductive invariant |
| `workers_liveness` | holds | types; every session of a client that stays ends |
| `woken_empty` | violated | a worker is woken by a late signal when its queue is empty |
| `stale_gram` | violated | a number pushed after its session ended counts for the next client |
| `drop_safety` | holds | tables and sets agree, requests follow the login, lists match the disk, lists arrive whole, `DropBox` is implemented |
| `drop_liveness` | holds | unless SIGPIPE ends the server: clients that stay are synchronised, although uploads fall into their logins and transfers; uploads reported complete are stored, also of a client that stopped |
| `truncated_download` | violated | a name uploaded again with another size leaves a cut file that is reported complete |
| `programs` | holds | the safety of the small programs, as listed with them |

Deadlock is not checked where the programs really stop: a transfer ends, a server
without clients or numbers waits for ever.

## Fairness

`FileTransfer`: weak fairness for what a program does next; strong fairness for
receiving the datagrams of a batch and index, because loss is a rate (5% in
`hw2/loss`) and the sender repeats them. The two forms of refusal differ: over a
network a refusal may come after the pass of writes (`SlowRefusal`), over the loopback
device it is there when `write` returns (`PromptRefusal`).

`CountWorkers`: weak fairness for main and for every worker; strong fairness for
taking a mutex that is free again and again; strong fairness for a WARN and its
answer arriving, since both are repeated. The answer is owed only by a client that is there.
Users owe nothing: they need not type, and may end their input.

`DropSync`: weak fairness for the server's loop and for every client's program. TCP
loses nothing, so the streams need no assumption. Users owe nothing: no one need
start a client or upload, and a client may stop. Nothing is owed once SIGPIPE has
ended the server, and `Synced` and `UploadsArrive` say so.

`programs` checks safety only and assumes no fairness.

## Proofs

`FileTransferProof`, `CountWorkersProof`, `DropListsProof`, `DropBoxProof`, `SumServerProof`,
`ProgramsProof`, `LinesProof` and `ExamProof` are checked by TLAPS for every value of the
constants that satisfies the modules' assumptions. `DropBoxProof` extends `DropListsProof`;
`LinesProof` and `ExamProof` extend `ProgramsProof`.

*hw2.* `IInv` is `TypeOK /\ ReceiverInv /\ NetInv /\ SenderInv`. `OutputIsPrefix` is not
inductive: a datagram under way could carry anything. `NetInv` says that every
datagram agrees with the file (`WellFormed`) and belongs to the batch the receiver
collects or to what it has written; `ReceiverInv` that the receiver holds only
blocks of the expected batch and never all of them; `SenderInv` that the sender's
batch is the one the receiver collects (`BatchOpen`) or is wholly written
(`BatchComplete`), and that the last batch then has a block that is not marked and
whose acknowledgement does not exist (`Unanswered`). From it follow `TypeCorrect`, `OutputCorrect`,
`AckedCorrect`, `EndsByError`, and, for a receiver that is bound first, `DoneDelivered` and
`Refinement` (initial states and every step of `FileCopy`).

*old_final_2012F P2.* `WorkersInv` joins `OneWorker`, `OneSession` and `NoLostWakeup` with what
makes them inductive: `LockInv` (who is in a critical section holds the mutex),
`ScanInv` (what main remembers of a scan stays true although workers free entries
behind it), `SessionInv` and `LoopInv`. The argument for `OneSession` is that only main opens
sessions, so a passed entry can lose a session but not gain one. For `NoLostWakeup`:
a queue is seen empty and the wait begun under one lock, so a number pushed
afterwards has its signal still to come.

*hw3.* `IInv` is `NetInv /\ TableInv /\ RoundInv /\ TablesAgree`. `TablesAgree` alone is not
inductive, because a step acts on whatever entry is at turn and on whatever
descriptor and entry `Accept` finds. `RoundInv` says that the entry at turn is in use and has
something to do, although the snapshot is old and entries were removed since:
`VisitFrom` looks at the table again before every visit, and a read visit moves on to
later entries, so that entry 0 is visited only when a connection waited at
`select`. `TableInv` keeps the used entries below `size` and entry 0 the only listener;
`NetInv` that different connections wait for `accept`. That a connection which waits finds a
descriptor and an entry is two pigeonhole arguments: were all descriptors open,
as many connections as there can be would be open besides the one that waits
(`FreeFd`); were all entries used, their descriptors would be as many different numbers without
the free one (`FreeEntry`). `EntryRemoved` covers the three ways a connection ends, `TablesKept` every
step that only moves bytes. From it follow `TablesCorrect` and `AcceptFindsRoom`.

What a client is told rests on `ProtoInv`, `IInv` with what each connection is good for.
`Ent(k)` is the entry of a connection, `Kind(k)` the command it was last given, `Stream(k)`
everything that was written for it and not yet read, on the way or in the entry's
buffer, and `Pending` the lists still to come. `RoleInv` says which connection a client
uses for what, `StreamInv` that a stream has the form its kind demands, `CmdInv` that
requests follow a login, `PutInv` how far an upload is at both ends, `ListInv` that a command
connection carries lists from their beginning to their end, and that the last of them is the
user's list. `SnapInv` covers the visit that is under way. From it follow `DropTypes`,
`OnlyKnownUsersAsk` and `OnlyWholeLists`.

`FilesInv` adds the files: `CarryInv` (what an upload has brought is the beginning of the
file the client sends), `UploadInv` and `ListMatchesDisk`, which is `ListIsOnDisk`. `BoxInv`
adds the downloads: `OnceInv` (an upload is stored once), `StoreInv` (whatever is on the disk was stored
as a whole) and `GetInv` (what a download has brought and what is still to come is, together,
the beginning of one stored file). From it follow `DownloadsAreStored` and the
refinement: `SyncImplementsCutBox` for files of any sizes, and `SyncImplementsBox`
under the hypothesis that all sizes are equal. That hypothesis is not a
convenience: `BoxSpec` is false without it, as `truncated_download` shows. The other
hypothesis, that "nobody" is not a user, only says that the value that stands for a
client that is off is no user's name.

*final_2014F P1.* `IInv` adds `Session` to the types and `AnswerIsPairSum`: what main finds
before each of its statements, wherever the handler has struck. Either the number
being processed is the first of its session (`First`), and then nothing of an
older session is left because `Zero` comes before the count; or it is the
second (`Second`), and then the sum before the addition is the first number, or 0 if the
handler wiped it after `processNumber` was called (`Rest`, `torn`). While the flag is
being set the alarm is off, so the handler cannot come between the flag and
the alarm; everywhere else main waits with `init` exactly when the alarm is set. From this follow
`AnswersAreSums` and `AlarmWithSession`.

The theorems about the other small programs are theorems of `MCSpec` in `Programs`, where one
of them runs.

*final_2014F P2.* `PingInv` is the types and `MarksInv`: the hosts below the next one were asked;
a host is marked exactly when something was printed of it or it was mistaken; the hosts a
scan has passed with `allFinish` still set are all asked and marked, and stay so. From it
follows `ReportsAreSafe`. The checksum theorem (`ChecksumsAreRight`) is about every packet. The sum is a fold,
and a fold is a recursive function whose existence has to be proved: `FoldExists`
does it by an induction over sets (`SetInduction`, from the well-founded order of the
naturals), and `FoldTrace` gives a fold as the last of the values it goes through. `SumTrace` is then
the sum, `OnesTrace` the one's complement sum, and the two differ by a multiple of the
largest word; two folds of the carry suffice because a packet has at most as many
words as a word has values (an assumption; 65536 words in the code).

*hw1.* `ChatInv`: connections are well formed; every open connection has one entry and every
entry in use an open connection; nobody killed means the server is alive and no
connection was reset. `AllWrites` and `ServerWrites` say what a handler's writes to several clients
leave of every connection, `LiveOnly` and `LoopWrites` what the loops over the table write to whom. The
one assumption is that "-1" and "listen", which stand for descriptors, are no machines.

*Line servers.* The theorems hold for texts of any length up to the step in which a line
outgrows its `Wline`, after which nothing is said. `LineInv` is `LineTypes` and `OneIs` for every client. `Flows` is the order of the
characters: what came out, what is in the writer's buffer, what is in the reader's, and
what is on its way are, put together, what was sent. `Asks` is the protocol that
keeps the server alive: a newline is the last character on its way, there is none while
a reply is unread or the connection is reset, and there is at most one reply.

*Midterms.* `ExamInv` has a part per kind of server. `ExamClients` says that one command or one
answer is on its way (`Shape`) and that an answer that was read is right (`Answered`);
`ExamKids`, `ExamMain` and `ExamTable` that whoever serves an open connection, a
child, main or an entry of the table, holds the client's own accumulator but for the
command under way (`Keeps`), and that no two serve the same; `ExamCount` that `conn_num` is the
number of open connections and of children not waited for; `ExamCalm` that with nobody killed
the server is alive and nothing was reset, except in `mid_2014F`'s select loop. The
assumption is that the table has an entry (15 in the code).

Only model-checked, because it is out of the prover's reach: liveness (`ReceiverFinishes`,
`SenderTerminates`, `SessionsEnd`, `Synced`, `UploadsArrive`). Only model-checked so far:
`RosterIsKnown` of `ChatServer`, which needs the order of all announcements on every stream;
`ToldOrKeptOnce` and `KeptForTheAbsent` of `OfflineChat`, whose list is filtered by `SelectSeq`, which the
prover cannot expand; `NumbersAreAccounted` of `CountServers`, which is about sums over streams
and over all clients; and `ProgramTypeOK`, which joins the types of all small programs.

## What is not modelled

- `hw2`: two senders at one receiver; an input file that cannot be opened.
- `old_final_2012F` P2: failing `pthread_create` and socket calls.
- `hw3`: a restart of the server; empty uploads (the server sees only the close);
  the buffering of the client's standard input; more than 100 connections;
  what a client does when the server goes away (the model stops when SIGPIPE ends the server).
- `old_final_2012F` P2: negative numbers; a second client at the address of one that left.
- `hw2/release/alarm`: an alarm that fires outside `read`; it only delays a resend.
- `hw1`, exams, practice: failing `accept`, `fork` and `pthread_create`; lines longer than
  the buffers, except in `LineServer`, where a line that outgrows a `Wline` stops the model; lines
  cut by TCP, except by characters in `LineServer`.
- `old_final_2012F` P1, P3: entries that arrive in parts (P3 waits for the rest in a loop); a
  full table of P3, which refuses the connection; loss of P1's datagrams.
- `mid_2014F` P3, P4: the table of 2048 entries full.
- `final_2014F` P2: what the write behind the table does; `practice/raw-socket`: the
  comparison of a signed with an unsigned identifier, the statistics.
- `hw0`, the name lookups, `hw3/file_test.cpp`, `server_tmp.cpp`, `hw2/eater.cpp` and the scripts
  keep no state worth a model. Formatting, logging, progress bars and timing
  macros are left out everywhere.
