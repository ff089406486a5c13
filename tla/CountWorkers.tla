---------------------------- MODULE CountWorkers ----------------------------
(***************************************************************************)
(* The threaded counting server of old_final_2012F (server_P2.cpp) and the *)
(* clients that talk to it (client_UDP.cpp).                               *)
(*                                                                         *)
(* The main thread receives numbers over UDP.  A number from an address    *)
(* without a session opens one: an entry of the client table and a worker  *)
(* thread.  A number from an address with a session goes to the entry's    *)
(* queue, and the entry's condition variable is signalled.  The worker     *)
(* adds the numbers up, sends WARN when none comes for five seconds, and   *)
(* sends Sum and frees the entry when the sum passes its limit.  A client  *)
(* answers WARN n with the number n.                                       *)
(*                                                                         *)
(* An action is what a thread does between two points where the others may *)
(* see or disturb it: a lock, the critical section up to its unlock, a     *)
(* wait, a run of unlocked statements on data no other thread touches.     *)
(***************************************************************************)
EXTENDS Integers, Sequences, FiniteSets

CONSTANTS Clients,                 \* addresses of the clients
          Threads,                 \* identities for the worker threads
          MAX_CONCURRENT_SESSION,  \* entries of the client table
          Limit,                   \* a session ends when its sum reaches it: 100
          Numbers,                 \* what a user may type
          SpuriousWakeups,         \* pthread_cond_timedwait may return 0 unsignalled
          MaxTyped,                \* bound: numbers typed in a behaviour
          MaxBox                   \* bound: datagrams a socket's buffer holds

ASSUME CountAssumption ==
  /\ MAX_CONCURRENT_SESSION \in Nat \ {0}
  /\ Limit \in Nat \ {0}
  /\ Numbers \subseteq Nat
  /\ SpuriousWakeups \in BOOLEAN
  /\ "nobody" \notin Threads \cup Clients
  /\ "main" \notin Threads
  /\ MaxTyped \in Nat
  /\ MaxBox \in Nat \ {0}

Slots == 0..(MAX_CONCURRENT_SESSION - 1)

VARIABLES
  data,       \* the client table: initialized, addr, sum and dataQue of each entry
  data_size,  \* entries in use or used before
  mutex,      \* who holds each entry's mutex
  main,       \* the main thread: where it is, and the locals of newData
  worker,     \* the worker threads: where each is, and its entry
  inbox,      \* datagrams in the server's socket buffer
  box,        \* datagrams in each client's socket buffer
  typed,      \* numbers typed so far, for the bound
  counted,    \* history: the clients whose numbers are in an entry's sum
  undefined,  \* dataQue.front() was called on an empty queue
  here        \* the clients that run

vars == <<data, data_size, mutex, main, worker, inbox, box, typed, counted, undefined,
          here>>

-----------------------------------------------------------------------------
Nobody == "nobody"
Main   == "main"

Gram   == [from : Clients, num : Nat]
Reply  == [cmd : {"WARN", "Sum"}, num : Nat \ {0}]

NoEntry == [initialized |-> FALSE, addr |-> Nobody, sum |-> 0, dataQue |-> <<>>]

\* What a socket's buffer may hold after a datagram was sent to it: the
\* datagram may be lost on the way, or for want of room.
Arrivals(buf, msg) ==
  {buf} \cup (IF Len(buf) < MaxBox THEN {Append(buf, msg)} ELSE {})

\* And what the socket of client c holds after a reply was sent to c.
Delivered(c, msg) == IF c \in here THEN Arrivals(box[c], msg) ELSE {box[c]}

Init ==
  /\ data = [i \in Slots |-> NoEntry]
  /\ data_size = 0
  /\ mutex = [i \in Slots |-> Nobody]
  /\ main = [pc |-> "recv"]
  /\ worker = [t \in Threads |-> [pc |-> "none", slot |-> 0]]
  /\ inbox = <<>>
  /\ box = [c \in Clients |-> <<>>]
  /\ typed = 0
  /\ counted = [i \in Slots |-> {}]
  /\ undefined = FALSE
  /\ here = Clients

-----------------------------------------------------------------------------
(* The clients                                                             *)

\* The user types a number; the client sends it whatever the server does.
Type(c, n) ==
  /\ c \in here
  /\ typed < MaxTyped
  /\ typed' = typed + 1
  /\ inbox' \in Arrivals(inbox, [from |-> c, num |-> n])
  /\ UNCHANGED <<data, data_size, mutex, main, worker, box, counted, undefined, here>>

\* The client reads a reply: Sum is printed, WARN n is answered with n.
PrintOnly(c) ==
  /\ c \in here
  /\ box[c] # <<>>
  /\ box' = [box EXCEPT ![c] = Tail(@)]
  /\ UNCHANGED <<data, data_size, mutex, main, worker, inbox, typed, counted, undefined, here>>
ClientRead(c) ==
  /\ c \in here
  /\ box[c] # <<>>
  /\ box' = [box EXCEPT ![c] = Tail(@)]
  /\ IF Head(box[c]).cmd = "WARN"
       THEN inbox' \in Arrivals(inbox, [from |-> c, num |-> Head(box[c]).num])
       ELSE UNCHANGED inbox
  /\ UNCHANGED <<data, data_size, mutex, main, worker, typed, counted, undefined, here>>

\* The input ends: the client exits, in the middle of a session or not.  What
\* is sent to its address after that nobody reads.
Leave(c) ==
  /\ c \in here
  /\ here' = here \ {c}
  /\ box' = [box EXCEPT ![c] = <<>>]
  /\ UNCHANGED <<data, data_size, mutex, main, worker, inbox, typed, counted, undefined>>

-----------------------------------------------------------------------------
(* The main thread: recvfrom and ClientList::newData                       *)

Receive ==
  /\ main.pc = "recv"
  /\ inbox # <<>>
  /\ inbox' = Tail(inbox)
  /\ main' = [pc |-> "scan", gram |-> Head(inbox), i |-> 0, id |-> -1, emptyID |-> -1]
  /\ UNCHANGED <<data, data_size, mutex, worker, box, typed, counted, undefined, here>>

\* The loop condition of the scan.
ScanTooFew == main.i < data_size - 1 /\ main.id = -1
Scanning == main.i < data_size /\ main.id = -1

ScanLock ==
  /\ main.pc = "scan"
  /\ Scanning
  /\ mutex[main.i] = Nobody
  /\ mutex' = [mutex EXCEPT ![main.i] = Main]
  /\ main' = [main EXCEPT !.pc = "inspect"]
  /\ UNCHANGED <<data, data_size, worker, inbox, box, typed, counted, undefined, here>>

\* Is entry e free for a new session, and does the gram belong to its session?
NotMine(e) == e.addr # main.gram.from
IsFree(e) == ~e.initialized
Matches(e) == e.initialized /\ e.addr = main.gram.from

Inspect ==
  /\ main.pc = "inspect"
  /\ LET e == data[main.i]
     IN  main' = [main EXCEPT !.pc = "scan", !.i = @ + 1,
                              !.emptyID = IF IsFree(e) THEN main.i ELSE @,
                              !.id = IF Matches(e) THEN main.i ELSE @]
  /\ mutex' = [mutex EXCEPT ![main.i] = Nobody]
  /\ UNCHANGED <<data, data_size, worker, inbox, box, typed, counted, undefined, here>>

ScannedNew == main.pc = "scan" /\ main.id = -1 /\ ~Scanning

\* The table counts as full when all its entries were used once, free or not.
FullTooLate == data_size > MAX_CONCURRENT_SESSION
TableFull == data_size >= MAX_CONCURRENT_SESSION

Refuse ==
  /\ ScannedNew
  /\ TableFull
  /\ main' = [pc |-> "recv"]
  /\ UNCHANGED <<data, data_size, mutex, worker, inbox, box, typed, counted, undefined, here>>

\* init() and the start of the worker.  init() gives the entry a new mutex
\* and condition variable, and leaves its queue as the last session left it.
Opened(e) == [e EXCEPT !.initialized = TRUE, !.addr = main.gram.from,
                       !.sum = main.gram.num]

NewSession(t) ==
  /\ ScannedNew
  /\ ~TableFull
  /\ worker[t].pc = "none"
  /\ LET slot == IF main.emptyID < 0 THEN data_size ELSE main.emptyID
     IN  /\ data' = [data EXCEPT ![slot] = Opened(@)]
         /\ mutex' = [mutex EXCEPT ![slot] = Nobody]
         /\ worker' = [worker EXCEPT ![t] = [pc |-> "loop", slot |-> slot]]
         /\ counted' = [counted EXCEPT ![slot] = {main.gram.from}]
  /\ data_size' = IF main.emptyID < 0 THEN data_size + 1 ELSE data_size
  /\ main' = [pc |-> "recv"]
  /\ UNCHANGED <<inbox, box, typed, undefined, here>>

PushUnlocked ==
  /\ main.pc = "scan"
  /\ main.id # -1
  /\ main' = [main EXCEPT !.pc = "push"]
  /\ UNCHANGED <<data, data_size, mutex, worker, inbox, box, typed, counted, undefined, here>>

\* The entry was found and unlocked; whatever happens to it before this lock,
\* the gram goes to its queue.
PushLock ==
  /\ main.pc = "scan"
  /\ main.id # -1
  /\ mutex[main.id] = Nobody
  /\ mutex' = [mutex EXCEPT ![main.id] = Main]
  /\ main' = [main EXCEPT !.pc = "push"]
  /\ UNCHANGED <<data, data_size, worker, inbox, box, typed, counted, undefined, here>>

Push ==
  /\ main.pc = "push"
  /\ data' = [data EXCEPT ![main.id].dataQue = Append(@, main.gram)]
  /\ mutex' = [mutex EXCEPT ![main.id] = Nobody]
  /\ main' = [main EXCEPT !.pc = "signal"]
  /\ UNCHANGED <<data_size, worker, inbox, box, typed, counted, undefined, here>>

\* pthread_cond_signal, after the unlock: wakes a worker that waits by now.
Waiting(i) == {t \in Threads : worker[t] = [pc |-> "waiting", slot |-> i]}

Signal ==
  /\ main.pc = "signal"
  /\ IF Waiting(main.id) = {}
       THEN UNCHANGED worker
       ELSE \E t \in Waiting(main.id) :
              worker' = [worker EXCEPT ![t].pc = "woken"]
  /\ main' = [pc |-> "recv"]
  /\ UNCHANGED <<data, data_size, mutex, inbox, box, typed, counted, undefined, here>>

-----------------------------------------------------------------------------
(* A worker thread: workLoop                                               *)

Entry(t) == data[worker[t].slot]

WarnOneShort(t) == [cmd |-> "WARN", num |-> Limit - 1 - Entry(t).sum]
WarnMsg(t) == [cmd |-> "WARN", num |-> Limit - Entry(t).sum]
SumMsg(t)  == [cmd |-> "Sum",  num |-> Entry(t).sum]

\* Thread t, at pc, takes the mutex of its entry.
Lock(t, pc, next) ==
  /\ worker[t].pc = pc
  /\ mutex[worker[t].slot] = Nobody
  /\ mutex' = [mutex EXCEPT ![worker[t].slot] = t]
  /\ worker' = [worker EXCEPT ![t].pc = next]
  /\ UNCHANGED <<data, data_size, main, inbox, box, typed, counted, undefined, here>>

\* The loop test, and the lock of the next turn.
LoopLock(t) == Entry(t).sum < Limit /\ Lock(t, "loop", "test")

\* dataQue.empty(), under the lock.
Test(t) ==
  /\ worker[t].pc = "test"
  /\ worker' = [worker EXCEPT ![t].pc = IF Entry(t).dataQue = <<>> THEN "wait" ELSE "pop"]
  /\ UNCHANGED <<data, data_size, mutex, main, inbox, box, typed, counted, undefined, here>>

\* pthread_cond_timedwait: waits and releases the mutex in one step.
Wait(t) ==
  /\ worker[t].pc = "wait"
  /\ worker' = [worker EXCEPT ![t].pc = "waiting"]
  /\ mutex' = [mutex EXCEPT ![worker[t].slot] = Nobody]
  /\ UNCHANGED <<data, data_size, main, inbox, box, typed, counted, undefined, here>>

\* The five seconds pass, or the wait returns without a signal.
Expire(t) ==
  /\ worker[t].pc = "waiting"
  /\ worker' = [worker EXCEPT ![t].pc = "expired"]
  /\ UNCHANGED <<data, data_size, mutex, main, inbox, box, typed, counted, undefined, here>>

Spurious(t) ==
  /\ SpuriousWakeups
  /\ worker[t].pc = "waiting"
  /\ worker' = [worker EXCEPT ![t].pc = "woken"]
  /\ UNCHANGED <<data, data_size, mutex, main, inbox, box, typed, counted, undefined, here>>

\* ETIMEDOUT: the wait took the mutex back; WARN is sent, the mutex released.
Warn(t) ==
  /\ worker[t].pc = "expired"
  /\ mutex[worker[t].slot] = Nobody
  /\ \E b \in Delivered(Entry(t).addr, WarnMsg(t)) :
       box' = [box EXCEPT ![Entry(t).addr] = b]
  /\ worker' = [worker EXCEPT ![t].pc = "loop"]
  /\ UNCHANGED <<data, data_size, mutex, main, inbox, typed, counted, undefined, here>>

\* The wait returned 0: the mutex is taken back and the queue is not looked at.
Woken(t) == Lock(t, "woken", "pop")

\* front(), pop(), unlock; then the number is added.  On an empty queue the
\* behaviour of front() and pop() is undefined, and the model stops.
Pop(t) ==
  /\ worker[t].pc = "pop"
  /\ LET s == worker[t].slot
         que == data[s].dataQue
     IN  IF que = <<>>
           THEN /\ undefined' = TRUE
                /\ UNCHANGED <<data, mutex, worker, counted>>
           ELSE /\ data' = [data EXCEPT ![s].dataQue = Tail(que),
                                        ![s].sum = @ + Head(que).num]
                /\ counted' = [counted EXCEPT ![s] = @ \cup {Head(que).from}]
                /\ mutex' = [mutex EXCEPT ![s] = Nobody]
                /\ worker' = [worker EXCEPT ![t].pc = "loop"]
                /\ UNCHANGED undefined
  /\ UNCHANGED <<data_size, main, inbox, box, typed, here>>

\* The loop is left: Sum goes to the client.
Report(t) ==
  /\ worker[t].pc = "loop"
  /\ Entry(t).sum >= Limit
  /\ \E b \in Delivered(Entry(t).addr, SumMsg(t)) :
       box' = [box EXCEPT ![Entry(t).addr] = b]
  /\ worker' = [worker EXCEPT ![t].pc = "reported"]
  /\ UNCHANGED <<data, data_size, mutex, main, inbox, typed, counted, undefined, here>>

FinishLock(t) == Lock(t, "reported", "finish")

\* initialized = false, unlock, return.
Finish(t) ==
  /\ worker[t].pc = "finish"
  /\ data' = [data EXCEPT ![worker[t].slot].initialized = FALSE]
  /\ mutex' = [mutex EXCEPT ![worker[t].slot] = Nobody]
  /\ worker' = [worker EXCEPT ![t].pc = "none"]
  /\ UNCHANGED <<data_size, main, inbox, box, typed, counted, undefined, here>>

-----------------------------------------------------------------------------
Client(c) == ClientRead(c) \/ Leave(c) \/ \E n \in Numbers : Type(c, n)

MainThread ==
  \/ Receive \/ ScanLock \/ Inspect \/ Refuse \/ PushLock \/ Push \/ Signal
  \/ \E t \in Threads : NewSession(t)

Worker(t) ==
  \/ LoopLock(t) \/ Test(t) \/ Wait(t) \/ Expire(t) \/ Spurious(t) \/ Woken(t)
  \/ Warn(t) \/ Pop(t) \/ Report(t) \/ FinishLock(t) \/ Finish(t)

Next ==
  /\ ~undefined
  /\ \/ MainThread
     \/ \E c \in Clients : Client(c)
     \/ \E t \in Threads : Worker(t)

Spec == Init /\ [][Next]_vars

\* The scheduler runs every thread and client that can run, and hands a mutex
\* that is free again and again to whoever waits for it.  A datagram that is
\* sent again and again arrives at last: WARN is repeated, and so is the
\* answer to it.  Users need not type, and may leave.
Fairness ==
  /\ WF_vars(~undefined /\ MainThread)
  /\ SF_vars(~undefined /\ (ScanLock \/ PushLock))
  /\ \A t \in Threads :
       /\ WF_vars(~undefined /\ Worker(t))
       /\ SF_vars(~undefined /\ (LoopLock(t) \/ Woken(t) \/ FinishLock(t)))
       /\ SF_vars(~undefined /\ Warn(t) /\ box' # box)
  /\ \A c \in Clients :
       /\ WF_vars(~undefined /\ ClientRead(c))
       /\ SF_vars(~undefined /\ ClientRead(c) /\ inbox' # inbox)

FairSpec == Spec /\ Fairness

-----------------------------------------------------------------------------
(* Properties                                                              *)

Idle == [pc : {"recv"}]
InNewData == [pc : {"scan", "inspect", "push", "signal"}, gram : Gram,
              i : 0..MAX_CONCURRENT_SESSION, id : Slots \cup {-1},
              emptyID : Slots \cup {-1}]

WorkerPC == {"none", "loop", "test", "wait", "waiting", "woken", "expired", "pop",
             "reported", "finish"}

\* Every variable has the type its declaration in server_P2.cpp gives it.
TypeOK ==
  /\ data \in [Slots -> [initialized : BOOLEAN, addr : Clients \cup {Nobody},
                         sum : Nat, dataQue : Seq(Gram)]]
  /\ data_size \in 0..MAX_CONCURRENT_SESSION
  /\ mutex \in [Slots -> Threads \cup {Nobody, Main}]
  /\ main \in Idle \cup InNewData
  /\ worker \in [Threads -> [pc : WorkerPC, slot : Slots]]
  /\ inbox \in Seq(Gram)
  /\ box \in [Clients -> Seq(Reply)]
  /\ typed \in Nat
  /\ counted \in [Slots -> SUBSET Clients]
  /\ undefined \in BOOLEAN
  /\ here \subseteq Clients

Works(t, i) == worker[t].pc # "none" /\ worker[t].slot = i

\* An entry is marked used exactly as long as one worker works on it: no two
\* threads ever share an entry, and none is left without its worker, although
\* main reuses the entry without knowing whether the thread has returned.
OneWorker ==
  \A i \in Slots :
    /\ data[i].initialized => \E t \in Threads : Works(t, i)
    /\ ~data[i].initialized => \A t \in Threads : ~Works(t, i)
    /\ \A t, u \in Threads : Works(t, i) /\ Works(u, i) => t = u

\* A client never has two sessions at once, so that no two workers count for
\* the same address.
OneSession ==
  \A i, j \in Slots :
    /\ data[i].initialized /\ data[j].initialized /\ data[i].addr = data[j].addr
    => i = j

\* No wakeup is lost: a worker waits beside a number in its queue only while
\* main is between its push and its signal.
NoLostWakeup ==
  \A t \in Threads :
    /\ worker[t].pc = "waiting" /\ data[worker[t].slot].dataQue # <<>>
    => main.pc = "signal" /\ main.id = worker[t].slot

\* Where a worker holds the mutex of its entry, and where it is in its loop.
InSection == {"test", "wait", "pop", "finish"}
InLoop    == {"test", "wait", "waiting", "woken", "expired", "pop"}

\* Whoever is in a critical section of an entry holds its mutex.
LockInv ==
  /\ \A t \in Threads :
       worker[t].pc \in InSection => mutex[worker[t].slot] = t
  /\ main.pc = "inspect" => mutex[main.i] = Main
  /\ main.pc = "push" => main.id # -1 /\ mutex[main.id] = Main
  /\ main.pc = "signal" => main.id # -1

\* What main knows in the middle of a scan stays true although workers free
\* entries meanwhile: the free entry it remembers is free, and no entry it has
\* passed holds a session of the client it looks for.
ScanInv ==
  main.pc \in {"scan", "inspect"} =>
    /\ main.i <= data_size
    /\ main.pc = "inspect" => main.i < data_size /\ main.id = -1
    /\ main.emptyID # -1 => /\ main.emptyID < data_size
                            /\ ~data[main.emptyID].initialized
    /\ main.id = -1 =>
         \A j \in Slots : j < main.i =>
           ~(data[j].initialized /\ data[j].addr = main.gram.from)

\* A session has a client; entries past data_size were never used.
SessionInv ==
  \A i \in Slots :
    /\ data[i].initialized => data[i].addr \in Clients
    /\ i >= data_size => ~data[i].initialized

\* A worker inside the loop still misses something, so that WARN asks for at
\* least 1; and in the wait itself its queue is empty.
LoopInv ==
  \A t \in Threads :
    /\ worker[t].pc \in InLoop => Entry(t).sum < Limit
    /\ worker[t].pc = "wait" => Entry(t).dataQue = <<>>

\* The inductive invariant of the proofs.
WorkersInv ==
  /\ TypeOK /\ LockInv /\ ScanInv /\ SessionInv /\ LoopInv
  /\ OneWorker /\ OneSession /\ NoLostWakeup

\* The comment at server_P2.cpp:214, "main has singal, so that we at least has
\* an data": the queue that a woken worker takes a number from is not empty.
SignalMeansData == ~undefined

\* The sum a session reports is made of its own client's numbers.
SumIsOwn ==
  \A t \in Threads :
    worker[t].pc = "reported" => counted[worker[t].slot] \subseteq {Entry(t).addr}

\* Every session ends, even if its user types nothing more: WARN and its
\* answer bring the sum to the limit.  Only a client that leaves is never
\* counted to the end: its worker warns an address where nobody answers.
SessionsEnd ==
  \A i \in Slots :
    data[i].initialized ~>
      (~data[i].initialized \/ undefined \/ data[i].addr \notin here)
=============================================================================
