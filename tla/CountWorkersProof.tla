------------------------- MODULE CountWorkersProof -------------------------
(***************************************************************************)
(* The theorems about CountWorkers.  The inductive invariant WorkersInv is the   *)
(* conjunction of the types, of what the mutexes protect (LockInv), of     *)
(* what main may rely on in the middle of its scan (ScanInv), and of the   *)
(* pairing of entries, sessions and workers.  Most steps of a worker move  *)
(* only the worker itself and the mutex of its entry: WorkerTurn proves    *)
(* the invariant for all of them at once.                                  *)
(***************************************************************************)
EXTENDS CountWorkers, TLAPS

USE CountAssumption DEF Main, Nobody

\* Everything but the types.
SInv == /\ LockInv /\ ScanInv /\ SessionInv /\ LoopInv
        /\ OneWorker /\ OneSession /\ NoLostWakeup

\* Thread t goes to q; all the others stay where they are.
Moved(t, q) ==
  /\ worker' \in [Threads -> [pc : WorkerPC, slot : Slots]]
  /\ worker'[t].pc = q
  /\ worker'[t].slot = worker[t].slot
  /\ \A u \in Threads : u # t => worker'[u] = worker[u]

\* The mutex of entry i goes to h; all the others stay as they are.
MutexTo(i, h) ==
  /\ mutex' \in [Slots -> Threads \cup {Nobody, Main}]
  /\ mutex'[i] = h
  /\ \A j \in Slots : j # i => mutex'[j] = mutex[j]

-----------------------------------------------------------------------------
\* What the EXCEPTs of the actions say, point by point.
LEMMA WorkerMove ==
  ASSUME TypeOK, NEW t \in Threads, NEW q \in WorkerPC,
         worker' = [worker EXCEPT ![t].pc = q]
  PROVE  Moved(t, q)
<1>1. worker \in [Threads -> [pc : WorkerPC, slot : Slots]]
  BY DEF TypeOK
<1>2. worker[t] \in [pc : WorkerPC, slot : Slots]
  BY ONLY <1>1
<1>. DEFINE w == [worker[t] EXCEPT !.pc = q]
<1>3. w.pc = q /\ w.slot = worker[t].slot /\ w \in [pc : WorkerPC, slot : Slots]
  BY ONLY <1>2, q \in WorkerPC
<1>4. worker' = [worker EXCEPT ![t] = w]
  OBVIOUS
<1>. HIDE DEF w
<1>5. worker'[t] = w /\ \A u \in Threads : u # t => worker'[u] = worker[u]
  BY ONLY <1>1, <1>4
<1>6. worker' \in [Threads -> [pc : WorkerPC, slot : Slots]]
  BY ONLY <1>1, <1>3, <1>4
<1>. QED
  BY ONLY <1>3, <1>5, <1>6 DEF Moved

LEMMA MutexMove ==
  ASSUME TypeOK, NEW i \in Slots, NEW h \in Threads \cup {Nobody, Main},
         mutex' = [mutex EXCEPT ![i] = h]
  PROVE  MutexTo(i, h)
  BY DEF TypeOK, MutexTo

\* A worker takes its mutex, gives it back, or leaves it alone, and goes on.
LEMMA WorkerTurn ==
  ASSUME TypeOK, SInv, NEW t \in Threads, NEW q \in WorkerPC \ {"none"},
         worker[t].pc # "none", Moved(t, q),
         UNCHANGED <<data, data_size, main>>,
         \/ mutex' = mutex /\ (q \in InSection => mutex[worker[t].slot] = t)
         \/ mutex[worker[t].slot] = Nobody /\ MutexTo(worker[t].slot, t)
         \/ /\ mutex[worker[t].slot] = t /\ MutexTo(worker[t].slot, Nobody)
            /\ q \notin InSection,
         q \in InLoop => Entry(t).sum < Limit,
         q \in {"wait", "waiting"} => Entry(t).dataQue = <<>>
  PROVE  SInv'
<1>. DEFINE s == worker[t].slot
<1>. s \in Slots /\ worker \in [Threads -> [pc : WorkerPC, slot : Slots]]
  BY DEF TypeOK
<1>. USE DEF SInv
<1>1. \A u \in Threads, i \in Slots : Works(u, i)' <=> Works(u, i)
  BY DEF Works, Moved
<1>2. OneWorker'
  BY <1>1 DEF OneWorker
<1>3. \A u \in Threads : worker[u].pc # "none" /\ worker[u].slot = s => u = t
  BY DEF OneWorker, Works
<1>4. LockInv'
  <2>1. ASSUME NEW u \in Threads, worker'[u].pc \in InSection
        PROVE  mutex'[worker'[u].slot] = u
    <3>1. CASE u = t
      BY <2>1, <3>1 DEF Moved, MutexTo
    <3>2. CASE u # t
      <4>1. worker'[u] = worker[u] /\ mutex[worker[u].slot] = u
        BY <2>1, <3>2 DEF Moved, LockInv
      <4>2. worker[u].slot # s /\ worker[u].slot \in Slots
        BY <1>3, <2>1, <3>2, <4>1 DEF InSection
      <4>. QED
        BY <4>1, <4>2 DEF MutexTo
    <3>. QED
      BY <3>1, <3>2
  <2>2. ASSUME NEW i \in Slots, mutex[i] = Main PROVE mutex'[i] = Main
    BY <2>2 DEF MutexTo
  <2>3. main.pc = "inspect" => main.i \in Slots
    BY DEF ScanInv, TypeOK, Idle, InNewData, Slots
  <2>4. main.pc = "push" => main.id \in Slots
    BY DEF LockInv, TypeOK, Idle, InNewData
  <2>. QED
    BY <2>1, <2>2, <2>3, <2>4 DEF LockInv
<1>5. ScanInv' /\ SessionInv' /\ OneSession'
  BY DEF ScanInv, SessionInv, OneSession
<1>6. LoopInv'
  BY DEF LoopInv, Entry, Moved
<1>7. NoLostWakeup'
  BY DEF NoLostWakeup, Entry, Moved
<1>. QED
  BY <1>2, <1>4, <1>5, <1>6, <1>7

\* Clients and datagrams do not touch the server's table.
LEMMA TableUnchanged ==
  ASSUME SInv, UNCHANGED <<data, data_size, mutex, main, worker>>
  PROVE  SInv'
<1>. USE DEF SInv
<1>1. LockInv' /\ ScanInv' /\ SessionInv'
  BY DEF LockInv, ScanInv, SessionInv
<1>2. LoopInv' /\ OneWorker' /\ OneSession' /\ NoLostWakeup'
  BY DEF LoopInv, Entry, OneWorker, Works, OneSession, NoLostWakeup
<1>. QED
  BY <1>1, <1>2

-----------------------------------------------------------------------------
(* The steps of a worker                                                   *)

\* In its loop, a worker leaves the types alone.
LEMMA TurnTypes ==
  ASSUME TypeOK, NEW t \in Threads, NEW q, Moved(t, q),
         UNCHANGED <<data, data_size, main, inbox, typed, counted, undefined, here>>,
         mutex' \in [Slots -> Threads \cup {Nobody, Main}],
         box' \in [Clients -> Seq(Reply)]
  PROVE  TypeOK'
  BY DEF TypeOK, Moved

LEMMA LockStep ==
  ASSUME WorkersInv, NEW t \in Threads, NEW p \in WorkerPC \ {"none"},
         NEW q \in {"test", "pop", "finish"}, Lock(t, p, q),
         q \in InLoop => Entry(t).sum < Limit
  PROVE  WorkersInv'
<1>. TypeOK /\ SInv
  BY DEF WorkersInv, SInv
<1>. worker[t].slot \in Slots
  BY DEF TypeOK
<1>1. q \in WorkerPC \ {"none"} /\ worker[t].pc = p /\ mutex[worker[t].slot] = Nobody
  BY DEF Lock, WorkerPC
<1>2. Moved(t, q)
  BY <1>1, WorkerMove DEF Lock
<1>3. MutexTo(worker[t].slot, t)
  BY MutexMove DEF Lock
<1>4. SInv'
  BY <1>1, <1>2, <1>3, WorkerTurn DEF Lock
<1>5. TypeOK'
  <2>1. box' \in [Clients -> Seq(Reply)] /\ mutex' \in [Slots -> Threads \cup {Nobody, Main}]
    BY <1>3 DEF TypeOK, Lock, MutexTo
  <2>. QED
    BY <1>2, <2>1, TurnTypes DEF Lock
<1>. QED
  BY <1>4, <1>5 DEF WorkersInv, SInv

\* The loop test, the wait and the timeout.
LEMMA LoopSteps ==
  ASSUME WorkersInv, NEW t \in Threads,
         Test(t) \/ Wait(t) \/ Expire(t) \/ Spurious(t)
  PROVE  WorkersInv'
<1>. TypeOK /\ SInv
  BY DEF WorkersInv, SInv
<1>. worker[t].slot \in Slots
  BY DEF TypeOK
<1>1. CASE Test(t)
  <2>. DEFINE q == IF Entry(t).dataQue = <<>> THEN "wait" ELSE "pop"
  <2>1. q \in WorkerPC \ {"none"} /\ worker[t].pc = "test"
    BY <1>1 DEF Test, WorkerPC
  <2>2. worker' = [worker EXCEPT ![t].pc = q]
    BY <1>1 DEF Test
  <2>3. Entry(t).sum < Limit /\ mutex[worker[t].slot] = t
    BY <2>1 DEF SInv, LoopInv, LockInv, InLoop, InSection
  <2>4. q \in {"wait", "waiting"} => Entry(t).dataQue = <<>>
    OBVIOUS
  <2>. HIDE DEF q
  <2>5. Moved(t, q)
    BY <2>1, <2>2, WorkerMove
  <2>6. SInv'
    BY <1>1, <2>1, <2>3, <2>4, <2>5, WorkerTurn DEF Test
  <2>7. TypeOK'
    BY <1>1, <2>5, TurnTypes DEF Test, TypeOK
  <2>. QED
    BY <2>6, <2>7 DEF WorkersInv, SInv
<1>2. CASE Wait(t)
  <2>1. worker[t].pc = "wait" /\ "waiting" \in WorkerPC \ {"none"}
    BY <1>2 DEF Wait, WorkerPC
  <2>2. Entry(t).sum < Limit /\ Entry(t).dataQue = <<>> /\ mutex[worker[t].slot] = t
    BY <2>1 DEF SInv, LoopInv, LockInv, InLoop, InSection
  <2>3. Moved(t, "waiting") /\ MutexTo(worker[t].slot, Nobody)
    BY <1>2, <2>1, WorkerMove, MutexMove DEF Wait
  <2>4. SInv'
    BY <1>2, <2>1, <2>2, <2>3, WorkerTurn DEF Wait, InSection
  <2>5. TypeOK'
    BY <1>2, <2>3, TurnTypes DEF Wait, TypeOK, MutexTo
  <2>. QED
    BY <2>4, <2>5 DEF WorkersInv, SInv
<1>3. CASE Expire(t) \/ Spurious(t)
  <2>1. PICK q \in {"expired", "woken"} : worker' = [worker EXCEPT ![t].pc = q]
    BY <1>3 DEF Expire, Spurious
  <2>2. worker[t].pc = "waiting" /\ q \in WorkerPC \ {"none"} /\ q \notin InSection
        /\ q \notin {"wait", "waiting"}
    BY <1>3 DEF Expire, Spurious, WorkerPC, InSection
  <2>3. Entry(t).sum < Limit
    BY <2>2 DEF SInv, LoopInv, InLoop
  <2>4. Moved(t, q)
    BY <2>1, <2>2, WorkerMove
  <2>5. UNCHANGED <<data, data_size, mutex, main, inbox, box, typed, counted, undefined, here>>
    BY <1>3 DEF Expire, Spurious
  <2>6. SInv'
    BY <2>2, <2>3, <2>4, <2>5, WorkerTurn
  <2>7. TypeOK'
    BY <2>4, <2>5, TurnTypes DEF TypeOK
  <2>. QED
    BY <2>6, <2>7 DEF WorkersInv, SInv
<1>. QED
  BY <1>1, <1>2, <1>3

\* A worker's entry is in use and has a client.
LEMMA WorkersEntry ==
  ASSUME WorkersInv, NEW t \in Threads, worker[t].pc # "none"
  PROVE  /\ worker[t].slot \in Slots
         /\ Entry(t).initialized
         /\ Entry(t).addr \in Clients
         /\ Entry(t).sum \in Nat
         /\ Entry(t).dataQue \in Seq(Gram)
         /\ \A u \in Threads :
              worker[u].pc # "none" /\ worker[u].slot = worker[t].slot => u = t
  BY DEF WorkersInv, TypeOK, OneWorker, Works, SessionInv, Entry

LEMMA ArrivalsType ==
  ASSUME NEW S, NEW buf \in Seq(S), NEW msg \in S, NEW b \in Arrivals(buf, msg)
  PROVE  b \in Seq(S)
  BY DEF Arrivals

\* A worker that sends a reply changes only its client's socket buffer.
LEMMA ReplyTypes ==
  ASSUME WorkersInv, NEW t \in Threads, worker[t].pc # "none", NEW msg \in Reply,
         \E b \in Delivered(Entry(t).addr, msg) :
           box' = [box EXCEPT ![Entry(t).addr] = b]
  PROVE  box' \in [Clients -> Seq(Reply)]
<1>1. Entry(t).addr \in Clients
  BY WorkersEntry
<1>2. PICK b \in Delivered(Entry(t).addr, msg) :
        box' = [box EXCEPT ![Entry(t).addr] = b]
  OBVIOUS
<1>3. box \in [Clients -> Seq(Reply)]
  BY DEF WorkersInv, TypeOK
<1>4. b \in Seq(Reply)
  BY <1>1, <1>2, <1>3, ArrivalsType DEF Delivered
<1>. QED
  BY ONLY <1>1, <1>2, <1>3, <1>4

LEMMA SendSteps ==
  ASSUME WorkersInv, NEW t \in Threads, Warn(t) \/ Report(t)
  PROVE  WorkersInv'
<1>. TypeOK /\ SInv
  BY DEF WorkersInv, SInv
<1>1. worker[t].pc # "none"
  BY DEF Warn, Report
<1>2. Entry(t).sum \in Nat /\ Limit \in Nat \ {0}
  BY <1>1, WorkersEntry
<1>3. PICK q \in {"loop", "reported"} : worker' = [worker EXCEPT ![t].pc = q]
  BY DEF Warn, Report
<1>4. q \in WorkerPC \ {"none"} /\ q \notin InSection /\ q \notin InLoop
      /\ q \notin {"wait", "waiting"}
  BY DEF WorkerPC, InSection, InLoop
<1>5. Moved(t, q)
  BY <1>3, <1>4, WorkerMove
<1>6. UNCHANGED <<data, data_size, mutex, main, inbox, typed, counted, undefined, here>>
  BY DEF Warn, Report
<1>7. SInv'
  BY <1>1, <1>4, <1>5, <1>6, WorkerTurn
<1>8. box' \in [Clients -> Seq(Reply)]
  <2>1. CASE Warn(t)
    <3>1. Entry(t).sum < Limit
      BY <2>1 DEF Warn, SInv, LoopInv, InLoop
    <3>2. WarnMsg(t) \in Reply
      BY <1>2, <3>1 DEF WarnMsg, Reply
    <3>. QED
      BY <1>1, <2>1, <3>2, ReplyTypes DEF Warn
  <2>2. CASE Report(t)
    <3>1. Entry(t).sum >= Limit
      BY <2>2 DEF Report
    <3>2. SumMsg(t) \in Reply
      BY <1>2, <3>1 DEF SumMsg, Reply
    <3>. QED
      BY <1>1, <2>2, <3>2, ReplyTypes DEF Report
  <2>. QED
    BY <2>1, <2>2
<1>9. TypeOK'
  BY <1>5, <1>6, <1>8, TurnTypes DEF TypeOK
<1>. QED
  BY <1>7, <1>9 DEF WorkersInv, SInv

\* Entry i becomes e, all the others stay as they are.
EntryTo(i, e) ==
  /\ data' \in [Slots -> [initialized : BOOLEAN, addr : Clients \cup {Nobody},
                          sum : Nat, dataQue : Seq(Gram)]]
  /\ data'[i] = e
  /\ \A j \in Slots : j # i => data'[j] = data[j]

LEMMA EntryPopped ==
  ASSUME NEW x \in [initialized : BOOLEAN, addr : Clients \cup {Nobody},
                    sum : Nat, dataQue : Seq(Gram)],
         NEW que \in Seq(Gram), NEW n \in Nat
  PROVE  LET y == [x EXCEPT !.dataQue = que, !.sum = @ + n]
         IN  /\ y \in [initialized : BOOLEAN, addr : Clients \cup {Nobody},
                       sum : Nat, dataQue : Seq(Gram)]
             /\ y.initialized = x.initialized /\ y.addr = x.addr
<1>1. x.sum + n \in Nat
  OBVIOUS
<1>. QED
  BY <1>1

\* A worker that takes a number from its queue: its entry keeps its session,
\* and no other worker looks at that entry.
LEMMA PopStep ==
  ASSUME WorkersInv, NEW t \in Threads, Pop(t)
  PROVE  WorkersInv'
<1>. TypeOK /\ SInv
  BY DEF WorkersInv, SInv
<1>. DEFINE s == worker[t].slot
            e == [data[s] EXCEPT !.dataQue = Tail(@), !.sum = @ + Head(data[s].dataQue).num]
<1>1. CASE data[s].dataQue = <<>>
  <2>1. UNCHANGED <<data, data_size, mutex, main, worker, inbox, box, typed, counted, here>>
        /\ undefined' = TRUE
    BY <1>1 DEF Pop
  <2>2. SInv'
    BY <2>1, TableUnchanged
  <2>3. TypeOK'
    BY <2>1 DEF TypeOK
  <2>. QED
    BY <2>2, <2>3 DEF WorkersInv, SInv
<1>2. CASE data[s].dataQue # <<>>
  <2>1. worker[t].pc = "pop" /\ s \in Slots /\ data[s].initialized
        /\ \A u \in Threads : worker[u].pc # "none" /\ worker[u].slot = s => u = t
    BY WorkersEntry DEF Pop, Entry
  <2>2. mutex[s] = t
    BY <2>1 DEF SInv, LockInv, InSection
  <2>3. data[s] \in [initialized : BOOLEAN, addr : Clients \cup {Nobody},
                     sum : Nat, dataQue : Seq(Gram)]
    BY <2>1 DEF TypeOK
  <2>4. Head(data[s].dataQue) \in Gram /\ Tail(data[s].dataQue) \in Seq(Gram)
    BY <1>2, <2>3
  <2>5. e \in [initialized : BOOLEAN, addr : Clients \cup {Nobody},
               sum : Nat, dataQue : Seq(Gram)]
        /\ e.initialized = data[s].initialized /\ e.addr = data[s].addr
    <3>1. Head(data[s].dataQue).num \in Nat
      BY <2>4 DEF Gram
    <3>. QED
      BY ONLY <2>3, <2>4, <3>1, EntryPopped
  <2>6. data' = [data EXCEPT ![s] = e]
    BY <1>2 DEF Pop
  <2>. HIDE DEF e
  <2>7. EntryTo(s, e)
    BY <2>1, <2>5, <2>6 DEF EntryTo, TypeOK
  <2>8. worker' = [worker EXCEPT ![t].pc = "loop"] /\ "loop" \in WorkerPC
        /\ mutex' = [mutex EXCEPT ![s] = Nobody]
    BY <1>2 DEF Pop, WorkerPC
  <2>9. Moved(t, "loop") /\ MutexTo(s, Nobody)
    BY <2>1, <2>8, WorkerMove, MutexMove
  <2>10. UNCHANGED <<data_size, main, inbox, box, typed, undefined, here>>
         /\ counted' \in [Slots -> SUBSET Clients]
    <3>1. counted' = [counted EXCEPT ![s] = @ \cup {Head(data[s].dataQue).from}]
      BY <1>2 DEF Pop
    <3>2. Head(data[s].dataQue).from \in Clients
      BY <2>4 DEF Gram
    <3>3. counted \in [Slots -> SUBSET Clients]
      BY DEF TypeOK
    <3>4. counted' \in [Slots -> SUBSET Clients]
      BY ONLY <2>1, <3>1, <3>2, <3>3
    <3>. QED
      BY <1>2, <3>4 DEF Pop
  <2>11. TypeOK'
    BY <2>7, <2>9, <2>10 DEF TypeOK, EntryTo, Moved, MutexTo
  <2>12. \A i \in Slots : data'[i].initialized = data[i].initialized
                          /\ data'[i].addr = data[i].addr
    BY <2>5, <2>7 DEF EntryTo
  <2>13. OneWorker' /\ OneSession' /\ SessionInv'
    <3>1. \A u \in Threads, i \in Slots : Works(u, i)' <=> Works(u, i)
      BY <2>1, <2>9 DEF Works, Moved
    <3>. QED
      BY <2>10, <2>12, <3>1 DEF SInv, OneWorker, OneSession, SessionInv
  <2>14. ScanInv'
    BY <2>10, <2>12 DEF SInv, ScanInv, TypeOK, Idle, InNewData, Slots
  <2>15. LoopInv' /\ NoLostWakeup'
    <3>1. ASSUME NEW u \in Threads, worker'[u].pc \in InLoop
          PROVE  worker'[u] = worker[u] /\ data'[worker[u].slot] = data[worker[u].slot]
      <4>1. u # t /\ worker'[u] = worker[u]
        BY <2>9, <3>1 DEF Moved, InLoop
      <4>2. worker[u].slot # s /\ worker[u].slot \in Slots
        BY <2>1, <3>1, <4>1 DEF InLoop, TypeOK
      <4>. QED
        BY <2>7, <4>1, <4>2 DEF EntryTo
    <3>2. LoopInv'
      BY <3>1 DEF SInv, LoopInv, Entry, InLoop
    <3>3. NoLostWakeup'
      BY <2>10, <3>1 DEF SInv, NoLostWakeup, InLoop
    <3>. QED
      BY <3>2, <3>3
  <2>16. LockInv'
    <3>1. ASSUME NEW u \in Threads, worker'[u].pc \in InSection
          PROVE  mutex'[worker'[u].slot] = u
      <4>1. u # t /\ worker'[u] = worker[u]
        BY <2>9, <3>1 DEF Moved, InSection
      <4>2. worker[u].slot # s /\ worker[u].slot \in Slots
        BY <2>1, <3>1, <4>1 DEF InSection, TypeOK
      <4>. QED
        BY <2>9, <3>1, <4>1, <4>2 DEF MutexTo, SInv, LockInv
    <3>2. \A i \in Slots : mutex[i] = Main => mutex'[i] = Main
      BY <2>2, <2>9 DEF MutexTo
    <3>3. main.pc = "inspect" => main.i \in Slots
      BY DEF SInv, ScanInv, TypeOK, Idle, InNewData, Slots
    <3>4. main.pc = "push" => main.id \in Slots
      BY DEF SInv, LockInv, TypeOK, Idle, InNewData
    <3>. QED
      BY <2>10, <3>1, <3>2, <3>3, <3>4 DEF SInv, LockInv
  <2>. QED
    BY <2>11, <2>13, <2>14, <2>15, <2>16 DEF WorkersInv, SInv
<1>. QED
  BY <1>1, <1>2

\* A worker that marks its entry free, and returns.
LEMMA FinishStep ==
  ASSUME WorkersInv, NEW t \in Threads, Finish(t)
  PROVE  WorkersInv'
<1>. TypeOK /\ SInv
  BY DEF WorkersInv, SInv
<1>. DEFINE s == worker[t].slot
            e == [data[s] EXCEPT !.initialized = FALSE]
<1>1. worker[t].pc = "finish" /\ s \in Slots /\ data[s].initialized
      /\ \A u \in Threads : worker[u].pc # "none" /\ worker[u].slot = s => u = t
  BY WorkersEntry DEF Finish, Entry
<1>2. mutex[s] = t
  BY <1>1 DEF SInv, LockInv, InSection
<1>3. data[s] \in [initialized : BOOLEAN, addr : Clients \cup {Nobody},
                   sum : Nat, dataQue : Seq(Gram)]
  BY <1>1 DEF TypeOK
<1>4. e \in [initialized : BOOLEAN, addr : Clients \cup {Nobody},
             sum : Nat, dataQue : Seq(Gram)]
      /\ e.initialized = FALSE
  BY ONLY <1>3
<1>5. data' = [data EXCEPT ![s] = e]
  BY DEF Finish
<1>. HIDE DEF e
<1>6. EntryTo(s, e)
  BY <1>1, <1>4, <1>5 DEF EntryTo, TypeOK
<1>7. Moved(t, "none") /\ MutexTo(s, Nobody)
  BY <1>1, WorkerMove, MutexMove DEF Finish, WorkerPC
<1>8. UNCHANGED <<data_size, main, inbox, box, typed, counted, undefined, here>>
  BY DEF Finish
<1>9. TypeOK'
  BY <1>6, <1>7, <1>8 DEF TypeOK, EntryTo, Moved, MutexTo
<1>10. \A i \in Slots : i # s => data'[i] = data[i]
  BY <1>6 DEF EntryTo
<1>11. ~data'[s].initialized
  BY <1>4, <1>6 DEF EntryTo
<1>12. \A u \in Threads : worker'[u].pc # "none"
         => /\ worker'[u] = worker[u] /\ worker[u].slot \in Slots
            /\ worker[u].slot # s /\ u # t
  BY <1>1, <1>7 DEF Moved, TypeOK
<1>13. OneWorker'
  <2>1. ASSUME NEW i \in Slots
        PROVE  /\ data'[i].initialized => \E u \in Threads : Works(u, i)'
               /\ ~data'[i].initialized => \A u \in Threads : ~Works(u, i)'
               /\ \A u, v \in Threads : Works(u, i)' /\ Works(v, i)' => u = v
    <3>1. CASE i = s
      BY <1>11, <1>12, <3>1 DEF Works
    <3>2. CASE i # s
      <4>1. \A u \in Threads : Works(u, i)' <=> Works(u, i)
        BY <1>7, <1>12, <3>2 DEF Works, Moved
      <4>. QED
        BY <1>10, <3>2, <4>1 DEF SInv, OneWorker
    <3>. QED
      BY <3>1, <3>2
  <2>. QED
    BY <2>1 DEF OneWorker
<1>14. SessionInv' /\ OneSession'
  BY <1>8, <1>10, <1>11 DEF SInv, SessionInv, OneSession
<1>15. ScanInv'
  <2>1. ASSUME main.pc \in {"scan", "inspect"}
        PROVE  main.emptyID # -1 => /\ main.emptyID < data_size
                                    /\ ~data'[main.emptyID].initialized
    BY <1>10, <1>11, <2>1 DEF SInv, ScanInv, TypeOK, Idle, InNewData
  <2>. QED
    BY <1>8, <1>10, <1>11, <2>1 DEF SInv, ScanInv
<1>16. LoopInv' /\ NoLostWakeup'
  <2>1. LoopInv'
    BY <1>10, <1>12 DEF SInv, LoopInv, Entry, InLoop
  <2>2. NoLostWakeup'
    BY <1>8, <1>10, <1>12 DEF SInv, NoLostWakeup
  <2>. QED
    BY <2>1, <2>2
<1>17. LockInv'
  <2>1. \A u \in Threads : worker'[u].pc \in InSection => mutex'[worker'[u].slot] = u
    BY <1>7, <1>12 DEF MutexTo, SInv, LockInv, InSection
  <2>2. \A i \in Slots : mutex[i] = Main => mutex'[i] = Main
    BY <1>2, <1>7 DEF MutexTo
  <2>3. main.pc = "inspect" => main.i \in Slots
    BY DEF SInv, ScanInv, TypeOK, Idle, InNewData, Slots
  <2>4. main.pc = "push" => main.id \in Slots
    BY DEF SInv, LockInv, TypeOK, Idle, InNewData
  <2>. QED
    BY <1>8, <2>1, <2>2, <2>3, <2>4 DEF SInv, LockInv
<1>. QED
  BY <1>9, <1>13, <1>14, <1>15, <1>16, <1>17 DEF WorkersInv, SInv

LEMMA WorkerStep ==
  ASSUME WorkersInv, NEW t \in Threads, Worker(t)
  PROVE  WorkersInv'
<1>1. CASE LoopLock(t)
  BY <1>1, LockStep DEF LoopLock, WorkerPC
<1>2. CASE Woken(t)
  <2>1. Entry(t).sum < Limit
    BY <1>2 DEF Woken, Lock, WorkersInv, LoopInv, InLoop
  <2>. QED
    BY <1>2, <2>1, LockStep DEF Woken, WorkerPC
<1>3. CASE FinishLock(t)
  BY <1>3, LockStep DEF FinishLock, WorkerPC, InLoop
<1>. QED
  BY <1>1, <1>2, <1>3, LoopSteps, SendSteps, PopStep, FinishStep DEF Worker

-----------------------------------------------------------------------------
(* The steps of the main thread                                            *)

\* A step of the scan, or one that begins or ends newData without touching an
\* entry: main takes a mutex, gives it back, or leaves them alone.
LEMMA MainTurn ==
  ASSUME TypeOK, SInv, main.pc # "signal",
         UNCHANGED <<data, data_size, worker>>,
         NEW i \in Slots,
         \/ mutex' = mutex
         \/ mutex[i] = Nobody /\ MutexTo(i, Main)
         \/ mutex[i] = Main /\ MutexTo(i, Nobody),
         main'.pc = "inspect" => mutex'[main'.i] = Main,
         main'.pc = "push" => main'.id # -1 /\ mutex'[main'.id] = Main,
         main'.pc # "signal",
         ScanInv'
  PROVE  SInv'
<1>. USE DEF SInv
<1>1. SessionInv' /\ LoopInv' /\ OneSession' /\ OneWorker'
  BY DEF SessionInv, LoopInv, Entry, OneSession, OneWorker, Works
<1>2. NoLostWakeup'
  BY DEF NoLostWakeup
<1>3. ASSUME NEW u \in Threads, worker[u].pc \in InSection
      PROVE  mutex'[worker[u].slot] = u
  <2>1. mutex[worker[u].slot] = u /\ worker[u].slot \in Slots
    BY <1>3 DEF LockInv, TypeOK
  <2>. QED
    BY <2>1 DEF MutexTo
<1>4. LockInv'
  BY <1>3 DEF LockInv
<1>. QED
  BY <1>1, <1>2, <1>4

\* main.i is an entry while main holds its mutex or goes to take it.
LEMMA ScannedEntry ==
  ASSUME TypeOK, main.pc \in {"scan", "inspect"}
  PROVE  /\ main \in InNewData
         /\ main.gram \in Gram /\ main.i \in Nat
         /\ main.i < data_size => main.i \in Slots
         /\ main.emptyID \in Slots \cup {-1} /\ main.id \in Slots \cup {-1}
<1>1. main \in InNewData
  BY DEF TypeOK, Idle
<1>. QED
  BY <1>1 DEF InNewData, TypeOK, Slots

LEMMA ReceiveStep ==
  ASSUME WorkersInv, Receive
  PROVE  WorkersInv'
<1>. TypeOK /\ SInv
  BY DEF WorkersInv, SInv
<1>1. Head(inbox) \in Gram /\ Tail(inbox) \in Seq(Gram)
  BY DEF Receive, TypeOK
<1>2. main' \in InNewData
  BY <1>1 DEF Receive, InNewData
<1>3. TypeOK'
  BY <1>1, <1>2 DEF Receive, TypeOK
<1>4. ScanInv'
  BY DEF Receive, ScanInv, TypeOK, Slots
<1>5. 0 \in Slots
  BY DEF Slots
<1>6. SInv'
  BY <1>4, <1>5, MainTurn DEF Receive
<1>. QED
  BY <1>3, <1>6 DEF WorkersInv, SInv

LEMMA ScanLockStep ==
  ASSUME WorkersInv, ScanLock
  PROVE  WorkersInv'
<1>. TypeOK /\ SInv
  BY DEF WorkersInv, SInv
<1>1. main \in InNewData /\ main.i \in Slots /\ main.i < data_size
      /\ main.id = -1 /\ main.pc = "scan" /\ mutex[main.i] = Nobody
  BY ScannedEntry DEF ScanLock, Scanning
<1>2. main' = [main EXCEPT !.pc = "inspect"]
      /\ UNCHANGED <<data, data_size, worker, inbox, box, typed, counted, undefined, here>>
  BY DEF ScanLock
<1>3. MutexTo(main.i, Main)
  BY <1>1, MutexMove DEF ScanLock
<1>4. main' \in InNewData /\ main'.pc = "inspect" /\ main'.i = main.i
      /\ main'.id = main.id /\ main'.emptyID = main.emptyID /\ main'.gram = main.gram
  BY <1>1, <1>2 DEF InNewData
<1>5. TypeOK'
  BY <1>2, <1>3, <1>4 DEF TypeOK, MutexTo
<1>6. ScanInv'
  BY <1>1, <1>2, <1>4 DEF SInv, ScanInv
<1>7. SInv'
  BY <1>1, <1>2, <1>3, <1>4, <1>6, MainTurn DEF MutexTo
<1>. QED
  BY <1>5, <1>7 DEF WorkersInv, SInv

\* One entry more is known to hold no session of the client, or holds it.
LEMMA InspectStep ==
  ASSUME WorkersInv, Inspect
  PROVE  WorkersInv'
<1>. TypeOK /\ SInv
  BY DEF WorkersInv, SInv
<1>1. main \in InNewData /\ main.pc = "inspect" /\ main.i < data_size /\ main.id = -1
      /\ main.i \in Slots /\ main.i \in Nat /\ mutex[main.i] = Main
  BY ScannedEntry DEF Inspect, SInv, ScanInv, LockInv
<1>. DEFINE empty == IF IsFree(data[main.i]) THEN main.i ELSE main.emptyID
            found == IF Matches(data[main.i]) THEN main.i ELSE main.id
<1>2. main' = [main EXCEPT !.pc = "scan", !.i = @ + 1, !.emptyID = empty, !.id = found]
      /\ UNCHANGED <<data, data_size, worker, inbox, box, typed, counted, undefined, here>>
  BY DEF Inspect
<1>3. empty \in Slots \cup {-1} /\ found \in Slots \cup {-1}
  BY <1>1, ScannedEntry
<1>4. empty # -1 => empty < data_size /\ ~data[empty].initialized
  BY <1>1 DEF IsFree, SInv, ScanInv
<1>5. found = -1 => ~(data[main.i].initialized /\ data[main.i].addr = main.gram.from)
  BY <1>1 DEF Matches, Slots
<1>6. main.i + 1 \in 0..MAX_CONCURRENT_SESSION
  BY <1>1 DEF TypeOK
<1>. HIDE DEF empty, found
<1>7. main' \in InNewData /\ main'.pc = "scan" /\ main'.i = main.i + 1
      /\ main'.id = found /\ main'.emptyID = empty /\ main'.gram = main.gram
  BY ONLY <1>1, <1>2, <1>3, <1>6 DEF InNewData
<1>8. MutexTo(main.i, Nobody)
  BY <1>1, MutexMove DEF Inspect
<1>9. TypeOK'
  BY <1>2, <1>7, <1>8 DEF TypeOK, MutexTo
<1>10. ScanInv'
  <2>1. main.i + 1 <= data_size
    BY <1>1 DEF TypeOK
  <2>2. ASSUME found = -1, NEW j \in Slots, j < main.i + 1
        PROVE  ~(data[j].initialized /\ data[j].addr = main.gram.from)
    <3>1. CASE j = main.i
      BY <1>5, <2>2, <3>1
    <3>2. CASE j # main.i
      <4>1. j < main.i
        BY <1>1, <2>2, <3>2 DEF Slots
      <4>. QED
        BY <1>1, <2>2, <4>1 DEF SInv, ScanInv
    <3>. QED
      BY <3>1, <3>2
  <2>. QED
    BY <1>2, <1>4, <1>7, <2>1, <2>2 DEF ScanInv
<1>11. SInv'
  BY <1>1, <1>2, <1>7, <1>8, <1>10, MainTurn
<1>. QED
  BY <1>9, <1>11 DEF WorkersInv, SInv

LEMMA RefuseStep ==
  ASSUME WorkersInv, Refuse
  PROVE  WorkersInv'
<1>. TypeOK /\ SInv
  BY DEF WorkersInv, SInv
<1>1. main.pc = "scan" /\ main' = [pc |-> "recv"]
      /\ UNCHANGED <<data, data_size, mutex, worker, inbox, box, typed, counted, undefined, here>>
  BY DEF Refuse, ScannedNew
<1>2. TypeOK'
  BY <1>1 DEF TypeOK, Idle
<1>3. 0 \in Slots
  BY DEF Slots
<1>4. SInv'
  BY <1>1, <1>3, MainTurn DEF ScanInv
<1>. QED
  BY <1>2, <1>4 DEF WorkersInv, SInv

LEMMA PushLockStep ==
  ASSUME WorkersInv, PushLock
  PROVE  WorkersInv'
<1>. TypeOK /\ SInv
  BY DEF WorkersInv, SInv
<1>1. main \in InNewData /\ main.id \in Slots /\ main.id # -1 /\ main.pc = "scan"
      /\ mutex[main.id] = Nobody
  BY ScannedEntry DEF PushLock
<1>2. main' = [main EXCEPT !.pc = "push"]
      /\ UNCHANGED <<data, data_size, worker, inbox, box, typed, counted, undefined, here>>
  BY DEF PushLock
<1>3. MutexTo(main.id, Main)
  BY <1>1, MutexMove DEF PushLock
<1>4. main' \in InNewData /\ main'.pc = "push" /\ main'.id = main.id
  BY ONLY <1>1, <1>2 DEF InNewData
<1>5. TypeOK'
  BY <1>2, <1>3, <1>4 DEF TypeOK, MutexTo
<1>6. SInv'
  BY <1>1, <1>2, <1>3, <1>4, MainTurn DEF MutexTo, ScanInv
<1>. QED
  BY <1>5, <1>6 DEF WorkersInv, SInv

LEMMA EntryPushed ==
  ASSUME NEW x \in [initialized : BOOLEAN, addr : Clients \cup {Nobody},
                    sum : Nat, dataQue : Seq(Gram)],
         NEW gram \in Gram
  PROVE  LET y == [x EXCEPT !.dataQue = Append(@, gram)]
         IN  /\ y \in [initialized : BOOLEAN, addr : Clients \cup {Nobody},
                       sum : Nat, dataQue : Seq(Gram)]
             /\ y.initialized = x.initialized /\ y.addr = x.addr /\ y.sum = x.sum
<1>1. Append(x.dataQue, gram) \in Seq(Gram)
  OBVIOUS
<1>. QED
  BY <1>1

\* While main holds the mutex no worker is between its test and its wait: a
\* worker that waits next to the new number is about to be signalled.
LEMMA PushStep ==
  ASSUME WorkersInv, Push
  PROVE  WorkersInv'
<1>. TypeOK /\ SInv
  BY DEF WorkersInv, SInv
<1>. DEFINE s == main.id
            e == [data[s] EXCEPT !.dataQue = Append(@, main.gram)]
<1>1. main \in InNewData /\ main.pc = "push"
  BY DEF Push, TypeOK, Idle
<1>2. s \in Slots /\ s # -1 /\ mutex[s] = Main /\ main.gram \in Gram
  BY <1>1 DEF SInv, LockInv, InNewData
<1>3. data[s] \in [initialized : BOOLEAN, addr : Clients \cup {Nobody},
                   sum : Nat, dataQue : Seq(Gram)]
  BY <1>2 DEF TypeOK
<1>4. /\ e \in [initialized : BOOLEAN, addr : Clients \cup {Nobody},
                sum : Nat, dataQue : Seq(Gram)]
      /\ e.initialized = data[s].initialized /\ e.addr = data[s].addr
      /\ e.sum = data[s].sum
  BY ONLY <1>2, <1>3, EntryPushed
<1>5. data' = [data EXCEPT ![s] = e]
  BY DEF Push
<1>. HIDE DEF e
<1>6. EntryTo(s, e)
  BY <1>2, <1>4, <1>5 DEF EntryTo, TypeOK
<1>7. MutexTo(s, Nobody)
  BY <1>2, MutexMove DEF Push
<1>8. UNCHANGED <<data_size, worker, inbox, box, typed, counted, undefined, here>>
      /\ main' = [main EXCEPT !.pc = "signal"]
  BY DEF Push
<1>9. main' \in InNewData /\ main'.pc = "signal" /\ main'.id = s
  BY ONLY <1>1, <1>8 DEF InNewData
<1>10. TypeOK'
  BY <1>6, <1>7, <1>8, <1>9 DEF TypeOK, EntryTo, MutexTo
<1>11. \A i \in Slots : /\ data'[i].initialized = data[i].initialized
                        /\ data'[i].addr = data[i].addr
                        /\ data'[i].sum = data[i].sum
                        /\ i # s => data'[i] = data[i]
  BY <1>4, <1>6 DEF EntryTo
<1>12. OneWorker' /\ OneSession' /\ SessionInv'
  BY <1>8, <1>11 DEF SInv, OneWorker, Works, OneSession, SessionInv
<1>13. ScanInv'
  BY <1>9 DEF ScanInv
<1>14. \A u \in Threads : worker[u].pc \in InSection
         => mutex[worker[u].slot] = u /\ worker[u].slot \in Slots /\ worker[u].slot # s
  BY <1>2 DEF SInv, LockInv, TypeOK
<1>15. LockInv'
  BY <1>2, <1>7, <1>8, <1>9, <1>14 DEF LockInv, MutexTo
<1>16. LoopInv'
  <2>1. ASSUME NEW u \in Threads
        PROVE  /\ worker[u].pc \in InLoop => data'[worker[u].slot].sum < Limit
               /\ worker[u].pc = "wait" => data'[worker[u].slot].dataQue = <<>>
    <3>1. worker[u].slot \in Slots
      BY DEF TypeOK
    <3>2. worker[u].pc = "wait" => worker[u].slot # s
      BY <1>14 DEF InSection
    <3>. QED
      BY <1>11, <3>1, <3>2 DEF SInv, LoopInv, Entry
  <2>. QED
    BY <1>8, <2>1 DEF LoopInv, Entry
<1>17. NoLostWakeup'
  <2>1. ASSUME NEW u \in Threads, worker[u].pc = "waiting",
               data'[worker[u].slot].dataQue # <<>>
        PROVE  worker[u].slot = s
    <3>1. worker[u].slot \in Slots
      BY DEF TypeOK
    <3>2. data[worker[u].slot].dataQue = <<>>
      BY <1>1, <2>1 DEF SInv, NoLostWakeup
    <3>. QED
      BY <1>11, <2>1, <3>1, <3>2
  <2>. QED
    BY <1>8, <1>9, <2>1 DEF NoLostWakeup
<1>. QED
  BY <1>10, <1>12, <1>13, <1>15, <1>16, <1>17 DEF WorkersInv, SInv

\* An entry has one worker, so one signal wakes whoever waits beside the number.
LEMMA SignalStep ==
  ASSUME WorkersInv, Signal
  PROVE  WorkersInv'
<1>. TypeOK /\ SInv
  BY DEF WorkersInv, SInv
<1>1. main.pc = "signal" /\ main' = [pc |-> "recv"]
      /\ UNCHANGED <<data, data_size, mutex, inbox, box, typed, counted, undefined, here>>
  BY DEF Signal
<1>2. main' \in Idle
  BY <1>1 DEF Idle
<1>3. main' = [pc |-> "recv"] /\ main'.pc = "recv"
  BY <1>1
<1>4. ScanInv' /\ SessionInv' /\ OneSession'
  BY <1>1, <1>3 DEF SInv, ScanInv, SessionInv, OneSession
<1>5. CASE Waiting(main.id) = {}
  <2>1. worker' = worker
    BY <1>5 DEF Signal
  <2>2. TypeOK'
    BY <1>1, <1>2, <2>1 DEF TypeOK
  <2>3. LockInv' /\ LoopInv' /\ OneWorker'
    BY <1>1, <1>3, <2>1 DEF SInv, LockInv, LoopInv, Entry, OneWorker, Works
  <2>4. NoLostWakeup'
    <3>1. ASSUME NEW u \in Threads, worker[u].pc = "waiting"
          PROVE  data[worker[u].slot].dataQue = <<>>
      <4>1. worker[u] \in [pc : WorkerPC, slot : Slots]
        BY DEF TypeOK
      <4>2. worker[u].slot # main.id
        BY ONLY <1>5, <3>1, <4>1 DEF Waiting
      <4>. QED
        BY <3>1, <4>2 DEF SInv, NoLostWakeup
    <3>. QED
      BY <1>1, <2>1, <3>1 DEF NoLostWakeup
  <2>. QED
    BY <1>4, <2>2, <2>3, <2>4 DEF WorkersInv, SInv
<1>6. CASE Waiting(main.id) # {}
  <2>1. PICK t \in Waiting(main.id) : worker' = [worker EXCEPT ![t].pc = "woken"]
    BY <1>6 DEF Signal
  <2>2. t \in Threads /\ worker[t].pc = "waiting" /\ worker[t].slot = main.id
    BY <2>1 DEF Waiting
  <2>3. Moved(t, "woken")
    BY <2>1, <2>2, WorkerMove DEF WorkerPC
  <2>4. TypeOK'
    BY <1>1, <1>2, <2>3 DEF TypeOK, Moved
  <2>5. \A u \in Threads, i \in Slots : Works(u, i)' <=> Works(u, i)
    BY <2>2, <2>3 DEF Works, Moved
  <2>6. OneWorker'
    BY <1>1, <2>5 DEF SInv, OneWorker
  <2>7. LockInv'
    BY <1>1, <1>3, <2>2, <2>3 DEF SInv, LockInv, Moved, InSection
  <2>8. LoopInv'
    BY <1>1, <2>2, <2>3 DEF SInv, LoopInv, Entry, Moved, InLoop
  <2>9. NoLostWakeup'
    <3>1. ASSUME NEW u \in Threads, worker'[u].pc = "waiting"
          PROVE  data[worker'[u].slot].dataQue = <<>>
      <4>1. u # t /\ worker'[u] = worker[u]
        BY <2>2, <2>3, <3>1 DEF Moved
      <4>2. worker[u].slot # main.id
        BY <2>2, <3>1, <4>1, WorkersEntry
      <4>. QED
        BY <3>1, <4>1, <4>2 DEF SInv, NoLostWakeup
    <3>. QED
      BY <1>1, <3>1 DEF NoLostWakeup
  <2>. QED
    BY <1>4, <2>4, <2>6, <2>7, <2>8, <2>9 DEF WorkersInv, SInv
<1>. QED
  BY <1>5, <1>6

LEMMA EntryOpened ==
  ASSUME NEW x \in [initialized : BOOLEAN, addr : Clients \cup {Nobody},
                    sum : Nat, dataQue : Seq(Gram)],
         main.gram \in Gram
  PROVE  /\ Opened(x) \in [initialized : BOOLEAN, addr : Clients \cup {Nobody},
                           sum : Nat, dataQue : Seq(Gram)]
         /\ Opened(x).initialized
         /\ Opened(x).addr = main.gram.from
         /\ main.gram.from \in Clients
<1>1. main.gram.from \in Clients /\ main.gram.num \in Nat
  BY DEF Gram
<1>. QED
  BY <1>1 DEF Opened

\* The entry of a new session is free: nobody works on it, holds its mutex or
\* waits; and no other entry holds a session of the same client.
LEMMA NewSessionStep ==
  ASSUME WorkersInv, NEW t \in Threads, NewSession(t)
  PROVE  WorkersInv'
<1>. TypeOK /\ SInv
  BY DEF WorkersInv, SInv
<1>. DEFINE s == IF main.emptyID < 0 THEN data_size ELSE main.emptyID
            w == [pc |-> "loop", slot |-> s]
            e == Opened(data[s])
<1>1. /\ main \in InNewData /\ main.gram \in Gram
      /\ main.pc = "scan" /\ main.id = -1 /\ ~(main.i < data_size)
      /\ main.emptyID \in Slots \cup {-1}
      /\ data_size \in Nat /\ data_size < MAX_CONCURRENT_SESSION
      /\ worker[t].pc = "none"
  BY ScannedEntry DEF NewSession, ScannedNew, Scanning, TableFull, TypeOK
<1>2. s \in Slots /\ ~data[s].initialized
  BY <1>1 DEF Slots, SInv, ScanInv, SessionInv
<1>3. \A u \in Threads : worker[u].pc # "none" => worker[u].slot # s
  BY <1>2 DEF SInv, OneWorker, Works
<1>4. data[s] \in [initialized : BOOLEAN, addr : Clients \cup {Nobody},
                   sum : Nat, dataQue : Seq(Gram)]
  BY <1>2 DEF TypeOK
<1>5. e \in [initialized : BOOLEAN, addr : Clients \cup {Nobody},
             sum : Nat, dataQue : Seq(Gram)]
      /\ e.initialized /\ e.addr = main.gram.from /\ main.gram.from \in Clients
  BY <1>1, <1>4, EntryOpened
<1>6. /\ data' = [data EXCEPT ![s] = e]
      /\ mutex' = [mutex EXCEPT ![s] = Nobody]
      /\ worker' = [worker EXCEPT ![t] = w]
      /\ counted' = [counted EXCEPT ![s] = {main.gram.from}]
      /\ data_size' = IF main.emptyID < 0 THEN data_size + 1 ELSE data_size
      /\ main' = [pc |-> "recv"]
      /\ UNCHANGED <<inbox, box, typed, undefined, here>>
  BY DEF NewSession
<1>. w \in [pc : WorkerPC, slot : Slots] /\ w.pc = "loop" /\ w.slot = s
  BY <1>2 DEF WorkerPC
<1>7. data_size' \in 0..MAX_CONCURRENT_SESSION /\ data_size <= data_size'
      /\ s < data_size'
  <2>1. CASE main.emptyID < 0
    BY <1>1, <1>6, <2>1
  <2>2. CASE ~(main.emptyID < 0)
    <3>1. s = main.emptyID /\ data_size' = data_size /\ main.emptyID # -1
      BY <1>1, <1>6, <2>2
    <3>2. s < data_size
      BY <1>1, <3>1 DEF SInv, ScanInv
    <3>. QED
      BY <1>1, <3>1, <3>2
  <2>. QED
    BY <2>1, <2>2
<1>. HIDE DEF s, w, e
<1>8. EntryTo(s, e)
  BY <1>2, <1>5, <1>6 DEF EntryTo, TypeOK
<1>9. MutexTo(s, Nobody)
  BY <1>2, <1>6, MutexMove
<1>10. /\ worker' \in [Threads -> [pc : WorkerPC, slot : Slots]]
       /\ worker'[t] = w
       /\ \A u \in Threads : u # t => worker'[u] = worker[u]
  BY <1>6 DEF TypeOK
<1>11. counted' \in [Slots -> SUBSET Clients]
  BY <1>2, <1>5, <1>6 DEF TypeOK
<1>12. main' \in Idle /\ main'.pc = "recv"
  BY <1>6 DEF Idle
<1>13. TypeOK'
  BY <1>6, <1>7, <1>8, <1>9, <1>10, <1>11, <1>12 DEF TypeOK, EntryTo, MutexTo
<1>14. \A u \in Threads : worker'[u].pc \notin {"none", "loop"}
         => /\ worker'[u] = worker[u] /\ worker[u].slot \in Slots
            /\ worker[u].slot # s
  BY <1>3, <1>10 DEF TypeOK
<1>15. OneWorker'
  <2>1. ASSUME NEW i \in Slots
        PROVE  /\ data'[i].initialized => \E u \in Threads : Works(u, i)'
               /\ ~data'[i].initialized => \A u \in Threads : ~Works(u, i)'
               /\ \A u, v \in Threads : Works(u, i)' /\ Works(v, i)' => u = v
    <3>1. CASE i = s
      <4>1. Works(t, i)' /\ data'[i].initialized
        BY <1>5, <1>8, <1>10, <3>1 DEF Works, EntryTo
      <4>2. \A u \in Threads : Works(u, i)' => u = t
        BY <1>3, <1>10, <3>1 DEF Works
      <4>. QED
        BY <4>1, <4>2
    <3>2. CASE i # s
      <4>1. \A u \in Threads : Works(u, i)' <=> Works(u, i)
        BY <1>1, <1>10, <3>2 DEF Works
      <4>. QED
        BY <1>8, <3>2, <4>1 DEF SInv, OneWorker, EntryTo
    <3>. QED
      BY <3>1, <3>2
  <2>. QED
    BY <2>1 DEF OneWorker
<1>16. \A j \in Slots : data[j].initialized => data[j].addr # main.gram.from
  <2>1. ASSUME NEW j \in Slots, data[j].initialized
        PROVE  j < main.i
    <3>1. j < data_size
      BY <1>1, <2>1 DEF SInv, SessionInv, Slots
    <3>. QED
      BY <1>1, <2>1, <3>1 DEF InNewData, Slots
  <2>. QED
    BY <1>1, <2>1 DEF SInv, ScanInv
<1>17. OneSession'
  <2>1. ASSUME NEW i \in Slots, NEW j \in Slots, data'[i].initialized,
               data'[j].initialized, data'[i].addr = data'[j].addr, i # j
        PROVE  FALSE
    <3>1. CASE i = s
      BY <1>5, <1>8, <1>16, <2>1, <3>1 DEF EntryTo
    <3>2. CASE j = s
      BY <1>5, <1>8, <1>16, <2>1, <3>2 DEF EntryTo
    <3>3. CASE i # s /\ j # s
      BY <1>8, <2>1, <3>3 DEF SInv, OneSession, EntryTo
    <3>. QED
      BY <3>1, <3>2, <3>3
  <2>. QED
    BY <2>1 DEF OneSession
<1>18. SessionInv'
  <2>1. ASSUME NEW i \in Slots
        PROVE  /\ data'[i].initialized => data'[i].addr \in Clients
               /\ i >= data_size' => ~data'[i].initialized
    <3>1. CASE i = s
      BY <1>5, <1>7, <1>8, <2>1, <3>1 DEF EntryTo, Slots
    <3>2. CASE i # s
      <4>1. data'[i] = data[i]
        BY <1>8, <3>2 DEF EntryTo
      <4>2. i >= data_size' => i >= data_size
        BY <1>1, <1>7 DEF Slots
      <4>. QED
        BY <4>1, <4>2 DEF SInv, SessionInv
    <3>. QED
      BY <3>1, <3>2
  <2>. QED
    BY <2>1 DEF SessionInv
<1>19. ScanInv'
  BY <1>12 DEF ScanInv
<1>20. LoopInv' /\ NoLostWakeup'
  <2>1. \A u \in Threads : worker'[u].pc \notin {"none", "loop"}
          => data'[worker'[u].slot] = data[worker[u].slot]
    BY <1>8, <1>14 DEF EntryTo
  <2>2. LoopInv'
    BY <1>14, <2>1 DEF SInv, LoopInv, Entry, InLoop
  <2>3. NoLostWakeup'
    BY <1>1, <1>14, <2>1 DEF SInv, NoLostWakeup
  <2>. QED
    BY <2>2, <2>3
<1>21. LockInv'
  BY <1>9, <1>12, <1>14 DEF SInv, LockInv, InSection, MutexTo
<1>. QED
  BY <1>13, <1>15, <1>17, <1>18, <1>19, <1>20, <1>21 DEF WorkersInv, SInv

-----------------------------------------------------------------------------
(* The clients, and the invariant                                          *)

LEMMA ClientStep ==
  ASSUME WorkersInv, NEW c \in Clients, Client(c)
  PROVE  WorkersInv'
<1>. TypeOK /\ SInv
  BY DEF WorkersInv, SInv
<1>1. UNCHANGED <<data, data_size, mutex, main, worker, counted, undefined>>
  BY DEF Client, Type, ClientRead, Leave
<1>2. inbox' \in Seq(Gram)
  <2>1. ASSUME NEW n \in Nat, inbox' \in Arrivals(inbox, [from |-> c, num |-> n])
        PROVE  inbox' \in Seq(Gram)
    <3>1. [from |-> c, num |-> n] \in Gram /\ inbox \in Seq(Gram)
      BY DEF Gram, TypeOK
    <3>. QED
      BY <2>1, <3>1, ArrivalsType
  <2>2. CASE \E n \in Numbers : Type(c, n)
    BY <2>1, <2>2 DEF Type
  <2>3. CASE ClientRead(c)
    <3>1. Head(box[c]) \in Reply
      BY <2>3 DEF ClientRead, TypeOK
    <3>2. Head(box[c]).num \in Nat
      BY <3>1 DEF Reply
    <3>. QED
      BY <2>1, <2>3, <3>2 DEF ClientRead, TypeOK
  <2>4. CASE Leave(c)
    BY <2>4 DEF Leave, TypeOK
  <2>. QED
    BY <2>2, <2>3, <2>4 DEF Client
<1>3. box' \in [Clients -> Seq(Reply)] /\ typed' \in Nat
  <2>1. CASE \E n \in Numbers : Type(c, n)
    BY <2>1 DEF Type, TypeOK
  <2>2. CASE ClientRead(c)
    <3>1. box \in [Clients -> Seq(Reply)] /\ box[c] # <<>>
          /\ box' = [box EXCEPT ![c] = Tail(@)]
      BY <2>2 DEF ClientRead, TypeOK
    <3>2. Tail(box[c]) \in Seq(Reply)
      BY <3>1
    <3>. QED
      BY <2>2, <3>1, <3>2 DEF ClientRead, TypeOK
  <2>3. CASE Leave(c)
    BY <2>3 DEF Leave, TypeOK
  <2>. QED
    BY <2>1, <2>2, <2>3 DEF Client
<1>4. here' \subseteq Clients
  BY DEF TypeOK, Client, Type, ClientRead, Leave
<1>5. TypeOK'
  BY <1>1, <1>2, <1>3, <1>4 DEF TypeOK
<1>6. SInv'
  BY <1>1, TableUnchanged
<1>. QED
  BY <1>5, <1>6 DEF WorkersInv, SInv

LEMMA InvInit == Init => WorkersInv
<1>. SUFFICES ASSUME Init PROVE WorkersInv
  OBVIOUS
<1>. USE DEF Init
<1>1. TypeOK
  <2>1. NoEntry \in [initialized : BOOLEAN, addr : Clients \cup {Nobody},
                     sum : Nat, dataQue : Seq(Gram)]
    BY DEF NoEntry
  <2>2. 0 \in Slots /\ main \in Idle
    BY DEF Slots, Idle
  <2>3. [pc |-> "none", slot |-> 0] \in [pc : WorkerPC, slot : Slots]
    BY <2>2 DEF WorkerPC
  <2>4. worker \in [Threads -> [pc : WorkerPC, slot : Slots]]
    BY <2>3
  <2>5. /\ data \in [Slots -> [initialized : BOOLEAN, addr : Clients \cup {Nobody},
                               sum : Nat, dataQue : Seq(Gram)]]
        /\ mutex \in [Slots -> Threads \cup {Nobody, Main}]
        /\ counted \in [Slots -> SUBSET Clients]
    BY <2>1
  <2>6. inbox \in Seq(Gram) /\ box \in [Clients -> Seq(Reply)]
    OBVIOUS
  <2>. QED
    BY <2>2, <2>4, <2>5, <2>6 DEF TypeOK
<1>2. LockInv /\ ScanInv /\ LoopInv /\ NoLostWakeup
  BY DEF LockInv, ScanInv, LoopInv, NoLostWakeup, InSection, InLoop
<1>3. SessionInv /\ OneWorker /\ OneSession
  BY DEF SessionInv, OneWorker, Works, OneSession, NoEntry
<1>. QED
  BY <1>1, <1>2, <1>3 DEF WorkersInv

LEMMA InvStep == WorkersInv /\ [Next]_vars => WorkersInv'
<1>. SUFFICES ASSUME WorkersInv, [Next]_vars PROVE WorkersInv'
  OBVIOUS
<1>1. CASE MainThread
  BY <1>1, ReceiveStep, ScanLockStep, InspectStep, RefuseStep, PushLockStep,
     PushStep, SignalStep, NewSessionStep DEF MainThread
<1>2. CASE UNCHANGED vars
  <2>. USE <1>2 DEF vars
  <2>1. TypeOK'
    BY DEF WorkersInv, TypeOK
  <2>2. SInv'
    BY TableUnchanged DEF WorkersInv, SInv
  <2>. QED
    BY <2>1, <2>2 DEF WorkersInv, SInv
<1>. QED
  BY <1>1, <1>2, ClientStep, WorkerStep DEF Next

\* The inductive invariant of CountWorkers, for any number of clients, entries
\* and threads, any limit, and with or without spurious wakeups.
THEOREM Invariant == Spec => []WorkersInv
  BY InvInit, InvStep, PTL DEF Spec

\* Every variable of server_P2.cpp keeps its type; every WARN asks for at least 1.
THEOREM TypeCorrect == Spec => []TypeOK
<1>1. WorkersInv => TypeOK
  BY DEF WorkersInv
<1>. QED
  BY Invariant, <1>1, PTL

\* newData never gives an entry to a second worker, and a worker never leaves
\* its entry before it has marked it free.
THEOREM WorkersPaired == Spec => []OneWorker
<1>1. WorkersInv => OneWorker
  BY DEF WorkersInv
<1>. QED
  BY Invariant, <1>1, PTL

\* The scan of newData, one lock at a time while entries are freed, never opens
\* a second session for a client that has one.
THEOREM SessionsDistinct == Spec => []OneSession
<1>1. WorkersInv => OneSession
  BY DEF WorkersInv
<1>. QED
  BY Invariant, <1>1, PTL

\* The signal after the unlock is late, but never lost on a worker that waits.
THEOREM WakeupsArrive == Spec => []NoLostWakeup
<1>1. WorkersInv => NoLostWakeup
  BY DEF WorkersInv
<1>. QED
  BY Invariant, <1>1, PTL
=============================================================================
