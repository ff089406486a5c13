--------------------------- MODULE DropListsProof ---------------------------
(***************************************************************************)
(* DropSync for every number of connections, clients, users, files and     *)
(* uploads.  First the server's tables: the entries, the two sets of       *)
(* select, the descriptors and the connections agree at every moment of a  *)
(* round, and a new connection always finds a descriptor and an entry.     *)
(* Then what travels on the connections: the types, the requests and the   *)
(* lists.                                                                  *)
(***************************************************************************)
EXTENDS DropSync, FiniteSetTheorems, WellFoundedInduction, SequenceTheorems, TLAPS

ConnFields  == {"up", "down", "client", "server"}
EntryFields == {"used", "fd", "type", "name", "meta", "wbuf", "rbuf"}
RoundFields == {"half", "i", "chk_size", "rset", "wset"}

\* What waits for accept are different connections, in the state that says so.
NetInv ==
  /\ DOMAIN conn = Conns
  /\ \A k \in Conns : DOMAIN conn[k] = ConnFields
  /\ backlog \in Seq(Conns)
  /\ \A j \in 1..Len(backlog) : conn[backlog[j]].server = "backlog"
  /\ \A j, m \in 1..Len(backlog) : backlog[j] = backlog[m] => j = m

\* The used entries are among the first size ones; only entry 0 listens.
TableInv ==
  /\ DOMAIN entry = Entries
  /\ \A i \in Entries : DOMAIN entry[i] = EntryFields /\ entry[i].used \in BOOLEAN
  /\ size \in 1..MAX_FD
  /\ sock \in [Fds -> Conns \cup {0}]
  /\ 0 \in UsedEntries
  /\ \A i \in UsedEntries :
       /\ i < size
       /\ IF i = 0 THEN entry[i].type = "LISTEN" /\ entry[i].fd = Listen
                   ELSE entry[i].type # "LISTEN" /\ entry[i].fd \in Fds

\* Round r has something to do for an entry of the table that is in use.
RoundOK(r) ==
  /\ DOMAIN r = RoundFields
  /\ r.i \in Entries
  /\ r.chk_size \in 1..MAX_FD
  /\ Listen \notin r.wset
AtWork(r, table) ==
  r.half # "select" =>
    /\ RoundOK(r)
    /\ \/ r.half = "read" /\ HasToRead(r, table[r.i])
       \/ r.half = "write" /\ HasToWrite(r, table[r.i])

RoundInv ==
  /\ AtWork(round, entry)
  /\ Reading /\ round.i = 0 => backlog # <<>>

IInv == NetInv /\ TableInv /\ RoundInv /\ TablesAgree

-----------------------------------------------------------------------------
(* The turns of a round                                                    *)

\* The least of some numbers is one of them, and none is less.
LEMMA LeastIs ==
  ASSUME NEW S \in SUBSET Nat, S # {}
  PROVE  Least(S) \in S /\ \A y \in S : Least(S) <= y
<1>1. PICK x \in S : \A y \in S : <<y, x>> \notin OpToRel(<, Nat)
  BY NatLessThanWellFounded, WFMin
<1>2. ASSUME NEW y \in S PROVE x <= y
  <2>1. <<y, x>> \in Nat \X Nat
    OBVIOUS
  <2>2. <<y, x>> \notin {ss \in Nat \X Nat : ss[1] < ss[2]}
    BY <1>1 DEF OpToRel
  <2>3. ~(y < x)
    BY <2>1, <2>2
  <2>4. QED
    BY <2>3
<1>3. QED
  BY <1>2 DEF Least

\* The next turn has something to do and lies at k or behind.
LEMMA VisitOK ==
  ASSUME NEW r, NEW table, NEW k \in Nat, RoundOK(r)
  PROVE  /\ AtWork(VisitFrom(r, table, k), table)
         /\ VisitFrom(r, table, k).half = "read" => VisitFrom(r, table, k).i >= k
<1> DEFINE todo == {j \in k..(r.chk_size - 1) :
                      HasToRead(r, table[j]) \/ HasToWrite(r, table[j])}
           j == Least(todo)
<1>0. MAX_FD \in Nat /\ r.chk_size \in 1..MAX_FD
  BY NetAssumption DEF RoundOK, MAX_FD
<1>1. CASE todo = {}
  <2>1. VisitFrom(r, table, k) = [half |-> "select"]
    BY <1>1 DEF VisitFrom
  <2>2. QED
    BY <2>1 DEF AtWork
<1>2. CASE todo # {}
  <2>1. todo \in SUBSET Nat
    BY <1>0
  <2>2. j \in todo
    BY <1>2, <2>1, LeastIs
  <2>3. j \in Entries /\ j >= k /\ (HasToRead(r, table[j]) \/ HasToWrite(r, table[j]))
    BY <1>0, <2>2 DEF Entries
  <2>4. VisitFrom(r, table, k) =
          [r EXCEPT !.i = j, !.half = IF HasToRead(r, table[j]) THEN "read" ELSE "write"]
    BY <1>2 DEF VisitFrom
  <2> HIDE DEF j
  <2> DEFINE v == VisitFrom(r, table, k)
  <2>5. /\ DOMAIN v = RoundFields /\ v.i = j /\ v.chk_size = r.chk_size
        /\ v.rset = r.rset /\ v.wset = r.wset
        /\ v.half = IF HasToRead(r, table[j]) THEN "read" ELSE "write"
    BY <2>4 DEF RoundOK, RoundFields
  <2> HIDE DEF v
  <2>6. RoundOK(v)
    BY <2>3, <2>5 DEF RoundOK
  <2>7. \/ v.half = "read" /\ HasToRead(v, table[v.i])
        \/ v.half = "write" /\ HasToWrite(v, table[v.i])
    BY <2>3, <2>5 DEF HasToRead, HasToWrite
  <2>8. QED
    BY <2>3, <2>5, <2>6, <2>7 DEF AtWork, v
<1>3. QED
  BY <1>1, <1>2

\* So do the turns after a read and after a write.
LEMMA AfterReadOK ==
  ASSUME NEW r, NEW table, RoundOK(r)
  PROVE  /\ AtWork(AfterRead(r, table), table)
         /\ AfterRead(r, table).half = "read" => AfterRead(r, table).i > r.i
<1>1. r.i \in Nat /\ r.i + 1 \in Nat
  BY NetAssumption DEF RoundOK, Entries, MAX_FD
<1>2. CASE HasToWrite(r, table[r.i])
  <2> DEFINE w == [r EXCEPT !.half = "write"]
  <2>1. AfterRead(r, table) = w
    BY <1>2 DEF AfterRead
  <2>2. /\ DOMAIN w = RoundFields /\ w.half = "write" /\ w.i = r.i
        /\ w.chk_size = r.chk_size /\ w.wset = r.wset
    BY DEF RoundOK, RoundFields
  <2> HIDE DEF w
  <2>3. RoundOK(w) /\ HasToWrite(w, table[w.i])
    BY <1>2, <2>2 DEF RoundOK, HasToWrite
  <2>4. QED
    BY <2>1, <2>2, <2>3 DEF AtWork
<1>3. CASE ~HasToWrite(r, table[r.i])
  <2>1. AfterRead(r, table) = VisitFrom(r, table, r.i + 1)
    BY <1>3 DEF AfterRead
  <2>2. VisitFrom(r, table, r.i + 1).half = "read" =>
          VisitFrom(r, table, r.i + 1).i >= r.i + 1 /\ VisitFrom(r, table, r.i + 1).i \in Entries
    BY <1>1, VisitOK DEF AtWork, RoundOK
  <2>3. AtWork(VisitFrom(r, table, r.i + 1), table)
    BY <1>1, VisitOK
  <2>4. QED
    BY <1>1, <2>1, <2>2, <2>3 DEF Entries
<1>4. QED
  BY <1>2, <1>3

\* After a write the next turn has something to do and a read is of a later entry.
LEMMA AfterWriteOK ==
  ASSUME NEW r, NEW table, RoundOK(r)
  PROVE  /\ AtWork(AfterWrite(r, table), table)
         /\ AfterWrite(r, table).half = "read" => AfterWrite(r, table).i > r.i
<1>1. r.i \in Nat /\ r.i + 1 \in Nat
  BY NetAssumption DEF RoundOK, Entries, MAX_FD
<1>2. VisitFrom(r, table, r.i + 1).half = "read" =>
        VisitFrom(r, table, r.i + 1).i >= r.i + 1 /\ VisitFrom(r, table, r.i + 1).i \in Entries
  BY <1>1, VisitOK DEF AtWork, RoundOK
<1>3. AtWork(VisitFrom(r, table, r.i + 1), table)
  BY <1>1, VisitOK
<1>4. QED
  BY <1>1, <1>2, <1>3 DEF Entries, AfterWrite

\* A round that goes on after a read or a write is in order.
LEMMA NextTurn ==
  ASSUME NEW r, RoundOK(r),
         round' = AfterRead(r, entry') \/ round' = AfterWrite(r, entry')
  PROVE  RoundInv'
<1>1. AtWork(round', entry')
  BY AfterReadOK, AfterWriteOK
<1>2. round'.half = "read" => round'.i > r.i
  BY AfterReadOK, AfterWriteOK
<1>3. r.i >= 0 /\ r.i \in Int
  BY NetAssumption DEF RoundOK, Entries, MAX_FD
<1>4. round'.half = "read" => round'.i # 0
  BY <1>2, <1>3
<1>5. QED
  BY <1>1, <1>4 DEF RoundInv, Reading

-----------------------------------------------------------------------------
(* The tables are never full                                               *)

\* While a connection waits for accept, the server has a free descriptor.
LEMMA FreeFd ==
  ASSUME NetInv, TableInv, TablesAgree, backlog # <<>>
  PROVE  {f \in Fds : sock[f] = 0} # {}
<1> SUFFICES ASSUME \A f \in Fds : sock[f] # 0 PROVE FALSE
  OBVIOUS
<1> DEFINE first == Head(backlog)
           T == Conns \ {first}
<1>1. first \in Conns /\ conn[first].server = "backlog"
  BY DEF NetInv
<1>2. sock \in [Fds -> T]
  <2>1. \A f \in Fds : sock[f] \in Conns /\ conn[sock[f]].server = "open"
    BY DEF TableInv, TablesAgree
  <2>2. QED
    BY <1>1, <2>1 DEF TableInv
<1>3. IsFiniteSet(Fds) /\ Cardinality(Fds) = MaxConns
  BY FS_Interval, NetAssumption DEF Fds
<1>4. IsFiniteSet(Conns) /\ Cardinality(Conns) = MaxConns
  BY FS_Interval, NetAssumption DEF Conns
<1>5. IsFiniteSet(T) /\ Cardinality(T) = MaxConns - 1
  BY <1>1, <1>4, FS_RemoveElement
<1> HIDE DEF T
<1>6. PICK f, g \in Fds : f # g /\ sock[f] = sock[g]
  BY <1>2, <1>3, <1>5, FS_PigeonHole, NetAssumption
<1>7. QED
  BY <1>6 DEF TablesAgree

\* While there is a free descriptor, the table has a free entry.
LEMMA FreeEntry ==
  ASSUME TableInv, TablesAgree, NEW f \in Fds, sock[f] = 0
  PROVE  size < MAX_FD \/ Unused # {}
<1> SUFFICES ASSUME size = MAX_FD, Unused = {} PROVE FALSE
  BY NetAssumption DEF TableInv, MAX_FD
<1> DEFINE All == 0..MaxConns
           T  == All \ {f}
           fd == [i \in Entries |-> entry[i].fd]
<1>1. \A i \in Entries : i \in UsedEntries
  BY DEF Unused, Entries, UsedEntries, TableInv
<1>2. fd \in [Entries -> T]
  <2>1. \A i \in Entries : entry[i].fd \in 0..MaxConns
    BY <1>1, NetAssumption DEF TableInv, Listen, Fds
  <2>2. \A i \in Entries : entry[i].fd # f
    <3>1. f \notin allRset
      BY DEF TablesAgree, Listen, Fds
    <3>2. QED
      BY <1>1, <3>1 DEF TablesAgree
  <2>3. QED
    BY <2>1, <2>2
<1>3. IsFiniteSet(Entries) /\ Cardinality(Entries) = MaxConns + 1
  BY FS_Interval, NetAssumption DEF Entries, MAX_FD
<1>4. IsFiniteSet(All) /\ Cardinality(All) = MaxConns + 1
  BY FS_Interval, NetAssumption
<1>5. f \in All
  BY NetAssumption DEF Fds
<1> HIDE DEF All
<1>6. IsFiniteSet(T) /\ Cardinality(T) = MaxConns
  BY <1>4, <1>5, FS_RemoveElement, NetAssumption, SMTT(30)
<1> HIDE DEF T
<1>7. PICK i, j \in Entries : i # j /\ fd[i] = fd[j]
  <2> HIDE DEF fd
  <2>1. QED
    BY <1>2, <1>3, <1>6, FS_PigeonHole, NetAssumption
<1>8. QED
  BY <1>1, <1>7 DEF TablesAgree

-----------------------------------------------------------------------------
(* What a step may do to the tables                                        *)

\* The descriptors, entries and states of connections that TablesAgree is about.
LEMMA TablesKept ==
  ASSUME NetInv, TableInv, TablesAgree,
         DOMAIN conn' = Conns,
         \A k \in Conns : DOMAIN conn'[k] = ConnFields /\ conn'[k].server = conn[k].server,
         DOMAIN entry' = Entries,
         \A i \in Entries :
           /\ DOMAIN entry'[i] = EntryFields
           /\ entry'[i].used = entry[i].used /\ entry'[i].fd = entry[i].fd
           /\ \/ entry'[i].type = entry[i].type
              \/ {entry'[i].type, entry[i].type} \cap {"LISTEN", "PUT"} = {},
         UNCHANGED <<backlog, size, sock, allRset, allWset>>
  PROVE  NetInv' /\ TableInv' /\ TablesAgree'
<1>1. UsedEntries' = UsedEntries /\ UsedEntries \subseteq Entries
  BY DEF UsedEntries
<1>2. NetInv'
  BY DEF NetInv
<1>3. TableInv'
  BY <1>1 DEF TableInv
<1>4. TablesAgree'
  <2>1. allRset' = {entry'[i].fd : i \in UsedEntries'}
    BY <1>1 DEF TablesAgree
  <2>2. \A i, j \in UsedEntries' : entry'[i].fd = entry'[j].fd => i = j
    BY <1>1 DEF TablesAgree
  <2>3. {i \in UsedEntries' : entry'[i].type \notin {"LISTEN", "PUT"}}
          = {i \in UsedEntries : entry[i].type \notin {"LISTEN", "PUT"}}
    BY <1>1
  <2>4. allWset' = {entry'[i].fd : i \in {i \in UsedEntries' : entry'[i].type \notin {"LISTEN", "PUT"}}}
    BY <1>1, <2>3 DEF TablesAgree
  <2>5. {k \in Conns : conn'[k].server = "open"} = {k \in Conns : conn[k].server = "open"}
    OBVIOUS
  <2>6. /\ {f \in Fds : sock'[f] # 0} = allRset' \ {Listen}
        /\ \A f, g \in Fds : sock'[f] # 0 /\ sock'[f] = sock'[g] => f = g
    BY DEF TablesAgree
  <2>7. {k \in Conns : conn'[k].server = "open"} = {sock'[f] : f \in Fds} \ {0}
    BY <2>5 DEF TablesAgree
  <2>8. QED
    BY <2>1, <2>2, <2>4, <2>6, <2>7 DEF TablesAgree
<1>5. QED
  BY <1>2, <1>3, <1>4

\* An entry other than the first is given up and its descriptor closed.
LEMMA EntryRemoved ==
  ASSUME NetInv, TableInv, TablesAgree,
         NEW i \in UsedEntries, i # 0,
         conn' = [conn EXCEPT ![sock[entry[i].fd]] = ServerClosed(@)],
         sock' = [sock EXCEPT ![entry[i].fd] = 0],
         allRset' = allRset \ {entry[i].fd},
         allWset' = allWset \ {entry[i].fd},
         DOMAIN entry' = Entries,
         entry'[i] = NoEntry,
         \A j \in Entries \ {i} :
           /\ DOMAIN entry'[j] = EntryFields
           /\ entry'[j].used = entry[j].used /\ entry'[j].fd = entry[j].fd
           /\ entry'[j].type = entry[j].type,
         UNCHANGED <<backlog, size>>
  PROVE  NetInv' /\ TableInv' /\ TablesAgree'
<1> DEFINE f == entry[i].fd
           k == sock[f]
<1>1. f \in Fds /\ f # Listen /\ i \in Entries
  BY NetAssumption DEF TableInv, UsedEntries, Fds, Listen
<1>2. k \in Conns /\ conn[k].server = "open"
  <2>1. sock[f] # 0
    BY <1>1 DEF TablesAgree
  <2>2. QED
    BY <1>1, <2>1 DEF TablesAgree, TableInv
<1>3. UsedEntries' = UsedEntries \ {i}
  <2>0. NoEntry.used = FALSE
    BY DEF NoEntry
  <2>1. entry'[i].used = FALSE
    BY <2>0
  <2>2. \A j \in Entries \ {i} : entry'[j].used = entry[j].used
    OBVIOUS
  <2>3. QED
    BY <1>1, <2>1, <2>2 DEF UsedEntries, Entries
<1>4. \A j \in UsedEntries \ {i} : entry[j].fd # f
  BY DEF TablesAgree
<1>5. /\ DOMAIN conn' = Conns
      /\ \A m \in Conns \ {k} : conn'[m] = conn[m]
      /\ DOMAIN conn'[k] = ConnFields /\ conn'[k].server \in {"closed", "none"}
  <2>1. conn'[k] = ServerClosed(conn[k])
    BY <1>2 DEF NetInv
  <2>2. DOMAIN ServerClosed(conn[k]) = ConnFields /\ ServerClosed(conn[k]).server \in {"closed", "none"}
    BY <1>2 DEF NetInv, ServerClosed, NoConn, ConnFields
  <2>3. QED
    BY <2>1, <2>2 DEF NetInv
<1>6. /\ sock'[f] = 0
      /\ \A g \in Fds \ {f} : sock'[g] = sock[g]
  BY <1>1 DEF TableInv
<1>7. NetInv'
  BY <1>2, <1>5 DEF NetInv
<1>8. TableInv'
  <2>1. DOMAIN NoEntry = EntryFields /\ NoEntry.used = FALSE
    BY DEF NoEntry, EntryFields
  <2>2. \A j \in Entries : DOMAIN entry'[j] = EntryFields /\ entry'[j].used \in BOOLEAN
    BY <2>1 DEF TableInv
  <2>3. sock' \in [Fds -> Conns \cup {0}]
    BY DEF TableInv
  <2>4. 0 \in UsedEntries'
    BY <1>3 DEF TableInv
  <2>5. \A j \in UsedEntries' :
          /\ j < size
          /\ IF j = 0 THEN entry'[j].type = "LISTEN" /\ entry'[j].fd = Listen
                      ELSE entry'[j].type # "LISTEN" /\ entry'[j].fd \in Fds
    BY <1>3 DEF TableInv, UsedEntries
  <2>6. QED
    BY <2>2, <2>3, <2>4, <2>5 DEF TableInv
<1>9. TablesAgree'
  <2>1. allRset' = {entry'[j].fd : j \in UsedEntries'}
    BY <1>3, <1>4 DEF TablesAgree, UsedEntries
  <2>2. \A j, m \in UsedEntries' : entry'[j].fd = entry'[m].fd => j = m
    BY <1>3 DEF TablesAgree, UsedEntries
  <2>3. {g \in Fds : sock'[g] # 0} = allRset' \ {Listen}
    <3>1. {g \in Fds : sock'[g] # 0} = {g \in Fds : sock[g] # 0} \ {f}
      BY <1>1, <1>6
    <3>2. QED
      BY <3>1 DEF TablesAgree
  <2>4. allWset' = {entry'[j].fd : j \in {j \in UsedEntries' : entry'[j].type \notin {"LISTEN", "PUT"}}}
    <3>1. {j \in UsedEntries' : entry'[j].type \notin {"LISTEN", "PUT"}}
            = {j \in UsedEntries : entry[j].type \notin {"LISTEN", "PUT"}} \ {i}
      BY <1>3 DEF UsedEntries
    <3>2. QED
      BY <1>4, <3>1 DEF TablesAgree, UsedEntries
  <2>5. \A g, h \in Fds : sock'[g] # 0 /\ sock'[g] = sock'[h] => g = h
    BY <1>6 DEF TablesAgree
  <2>6. {m \in Conns : conn'[m].server = "open"} = {sock'[g] : g \in Fds} \ {0}
    <3>1. {m \in Conns : conn'[m].server = "open"} = {m \in Conns : conn[m].server = "open"} \ {k}
      BY <1>5
    <3>2. \A g \in Fds \ {f} : sock[g] # k
      BY <1>1, <1>2, NetAssumption DEF TablesAgree, Conns
    <3>3. {sock'[g] : g \in Fds} \ {0} = ({sock[g] : g \in Fds} \ {0}) \ {k}
      BY <1>1, <1>6, <3>2
    <3>4. QED
      BY <3>1, <3>3 DEF TablesAgree
  <2>7. QED
    BY <2>1, <2>2, <2>3, <2>4, <2>5, <2>6 DEF TablesAgree
<1>10. QED
  BY <1>7, <1>8, <1>9

\* What clients do: connections begin and end, those of the server stay.
LEMMA ClientsKeep ==
  ASSUME IInv,
         DOMAIN conn' = Conns,
         \A k \in Conns :
           /\ DOMAIN conn'[k] = ConnFields
           /\ \/ conn'[k].server = conn[k].server
              \/ {conn'[k].server, conn[k].server} \cap {"open", "backlog"} = {}
              \/ conn[k].server = "none" /\ conn'[k].server = "backlog",
         \/ backlog' = backlog
         \/ \E k \in Conns : /\ conn[k].server = "none" /\ conn'[k].server = "backlog"
                             /\ backlog' = Append(backlog, k),
         UNCHANGED serverVars
  PROVE  IInv'
<1> USE DEF IInv
<1>0. UNCHANGED <<entry, size, sock, allRset, allWset, round>>
  BY DEF serverVars
<1>1. NetInv'
  <2>0. /\ Len(backlog) \in Nat
        /\ \A j \in 1..Len(backlog) :
             /\ backlog[j] \in Conns /\ conn[backlog[j]].server = "backlog"
             /\ conn'[backlog[j]].server = "backlog"
    <3>1. Len(backlog) \in Nat /\ \A j \in 1..Len(backlog) : backlog[j] \in Conns
      BY DEF NetInv
    <3>2. \A k \in Conns : conn[k].server = "backlog" => conn'[k].server = "backlog"
      OBVIOUS
    <3>3. QED
      BY <3>1, <3>2 DEF NetInv
  <2>1. CASE backlog' = backlog
    BY <2>0, <2>1 DEF NetInv
  <2>2. CASE backlog' # backlog
    <3>1. PICK k \in Conns : /\ conn[k].server = "none" /\ conn'[k].server = "backlog"
                             /\ backlog' = Append(backlog, k)
      BY <2>2
    <3>2. /\ backlog' \in Seq(Conns) /\ Len(backlog') = Len(backlog) + 1
          /\ \A j \in 1..Len(backlog) : backlog'[j] = backlog[j]
          /\ backlog'[Len(backlog) + 1] = k
      BY <3>1 DEF NetInv
    <3>3. \A j \in 1..Len(backlog) : backlog[j] # k /\ conn'[backlog[j]].server = "backlog"
      BY <2>0, <3>1
    <3>4. Len(backlog) \in Nat
      BY <2>0
    <3>5. \A j \in 1..Len(backlog') : conn'[backlog'[j]].server = "backlog"
      BY <3>1, <3>2, <3>3, <3>4
    <3>6. \A j, m \in 1..Len(backlog') : backlog'[j] = backlog'[m] => j = m
      BY <3>2, <3>3, <3>4 DEF NetInv
    <3>7. QED
      BY <3>2, <3>5, <3>6 DEF NetInv
  <2>3. QED
    BY <2>1, <2>2
<1>2. TableInv'
  BY <1>0 DEF TableInv, UsedEntries
<1>3. RoundInv'
  <2>1. backlog # <<>> => backlog' # <<>>
    BY DEF NetInv
  <2>2. AtWork(round', entry')
    BY <1>0 DEF RoundInv
  <2>3. QED
    BY <1>0, <2>1, <2>2 DEF RoundInv, Reading
<1>4. TablesAgree'
  <2>1. {k \in Conns : conn'[k].server = "open"} = {k \in Conns : conn[k].server = "open"}
    OBVIOUS
  <2>2. QED
    BY <1>0, <2>1 DEF TablesAgree, UsedEntries
<1>5. QED
  BY <1>1, <1>2, <1>3, <1>4

-----------------------------------------------------------------------------
(* The steps of the server                                                 *)

\* The entry at turn is in use.
LEMMA AtTurn ==
  ASSUME IInv, Reading \/ Writing
  PROVE  /\ RoundOK(round)
         /\ round.i \in Entries /\ round.i \in UsedEntries
         /\ DOMAIN cur = EntryFields
         /\ cur.type # "LISTEN" => round.i # 0
         /\ cur.type = "LISTEN" => round.i = 0
<1>1. AtWork(round, entry) /\ round.half # "select"
  BY DEF IInv, RoundInv, Reading, Writing
<1>2. RoundOK(round) /\ entry[round.i].used
  BY <1>1 DEF AtWork, HasToRead, HasToWrite
<1>3. round.i \in Entries
  BY <1>2 DEF RoundOK
<1>4. round.i \in UsedEntries
  BY <1>2, <1>3 DEF UsedEntries
<1>5. QED
  BY <1>2, <1>3, <1>4 DEF IInv, TableInv, cur

\* What travels on a connection does not change what its ends are.
LEMMA StreamMoved ==
  ASSUME NetInv, NEW k, NEW s,
         conn' = [conn EXCEPT ![k].up = s] \/ conn' = [conn EXCEPT ![k].down = s]
  PROVE  /\ DOMAIN conn' = Conns
         /\ \A m \in Conns : DOMAIN conn'[m] = ConnFields /\ conn'[m].server = conn[m].server
BY DEF NetInv, ConnFields

\* A step that only moves bytes at the entry at turn.
LEMMA EntryWritten ==
  ASSUME IInv, Reading \/ Writing,
         DOMAIN conn' = Conns,
         \A k \in Conns : DOMAIN conn'[k] = ConnFields /\ conn'[k].server = conn[k].server,
         DOMAIN entry' = Entries,
         \A j \in Entries \ {round.i} : entry'[j] = entry[j],
         DOMAIN entry'[round.i] = EntryFields,
         entry'[round.i].used = cur.used,
         entry'[round.i].fd = cur.fd,
         \/ entry'[round.i].type = cur.type
         \/ {entry'[round.i].type, cur.type} \cap {"LISTEN", "PUT"} = {},
         round' = AfterRead(round, entry') \/ round' = AfterWrite(round, entry'),
         UNCHANGED <<backlog, size, sock, allRset, allWset>>
  PROVE  IInv'
<1>1. RoundOK(round)
  BY AtTurn
<1>2. RoundInv'
  BY <1>1, NextTurn
<1>3. \A i \in Entries :
        /\ DOMAIN entry'[i] = EntryFields
        /\ entry'[i].used = entry[i].used /\ entry'[i].fd = entry[i].fd
        /\ \/ entry'[i].type = entry[i].type
           \/ {entry'[i].type, entry[i].type} \cap {"LISTEN", "PUT"} = {}
  BY DEF IInv, TableInv, cur
<1>4. NetInv' /\ TableInv' /\ TablesAgree'
  BY <1>3, TablesKept DEF IInv
<1>5. QED
  BY <1>2, <1>4 DEF IInv

\* A new round begins at an entry that has something to do, at the listening
\* one only if a connection waits.
LEMMA SelectStep == IInv /\ Select => IInv'
<1> SUFFICES ASSUME IInv, Select PROVE IInv'
  OBVIOUS
<1> DEFINE r == [half |-> "read", i |-> 0, chk_size |-> size,
                 rset |-> {f \in allRset : CanRead(f)},
                 wset |-> {f \in allWset : CanWrite(f)}]
           v == VisitFrom(r, entry, 0)
<1>1. round' = v /\ UNCHANGED <<entry, size, sock, allRset, allWset, conn, backlog>>
  BY DEF Select, netVars
<1>2. Listen \notin allWset
  <2>1. \A i \in UsedEntries : entry[i].type \notin {"LISTEN", "PUT"} => entry[i].fd \in Fds
    BY DEF IInv, TableInv
  <2>2. QED
    BY <2>1 DEF IInv, TablesAgree, Fds, Listen
<1>3. RoundOK(r)
  BY <1>2, NetAssumption DEF RoundOK, RoundFields, Entries, MAX_FD, IInv, TableInv
<1>4. AtWork(v, entry)
  BY <1>3, VisitOK
<1>5. v.half = "read" /\ v.i = 0 => backlog # <<>>
  <2>1. SUFFICES ASSUME v.half = "read", v.i = 0 PROVE backlog # <<>>
    OBVIOUS
  <2>2. HasToRead(v, entry[0]) /\ entry[0].fd = Listen
    BY <1>4, <2>1 DEF AtWork, IInv, TableInv
  <2>3. v.rset = r.rset
    BY <2>1 DEF VisitFrom
  <2>4. Listen \in r.rset
    BY <2>2, <2>3 DEF HasToRead
  <2>5. CanRead(Listen)
    BY <2>4
  <2>6. QED
    BY <2>5 DEF CanRead
<1>6. RoundInv'
  BY <1>1, <1>4, <1>5 DEF RoundInv, Reading
<1>7. NetInv' /\ TableInv' /\ TablesAgree'
  BY <1>1 DEF IInv, NetInv, TableInv, TablesAgree, UsedEntries
<1>8. QED
  BY <1>6, <1>7 DEF IInv

\* A connection its client closed leaves table, sets and descriptors together.
LEMMA HangUpStep == IInv /\ HangUp => IInv'
<1> SUFFICES ASSUME IInv, HangUp PROVE IInv'
  OBVIOUS
<1>1. RoundOK(round) /\ round.i \in UsedEntries /\ round.i \in Entries /\ round.i # 0
  BY AtTurn DEF HangUp
<1>2. entry' = [entry EXCEPT ![round.i] = NoEntry]
  BY DEF HangUp, Removed
<1>3. /\ DOMAIN entry' = Entries /\ entry'[round.i] = NoEntry
      /\ \A j \in Entries \ {round.i} : entry'[j] = entry[j] /\ DOMAIN entry[j] = EntryFields
  BY <1>1, <1>2 DEF IInv, TableInv
<1>4. NetInv' /\ TableInv' /\ TablesAgree'
  BY <1>1, <1>3, EntryRemoved DEF IInv, HangUp, CloseFd, Unwatched, cur, link
<1>5. RoundInv'
  BY <1>1, NextTurn DEF HangUp
<1>6. QED
  BY <1>4, <1>5 DEF IInv

\* So does a download that is wholly written,
LEMMA EndGetStep == IInv /\ EndGet => IInv'
<1> SUFFICES ASSUME IInv, EndGet PROVE IInv'
  OBVIOUS
<1>1. RoundOK(round) /\ round.i \in UsedEntries /\ round.i \in Entries /\ round.i # 0
  BY AtTurn DEF EndGet
<1>2. entry' = [entry EXCEPT ![round.i] = NoEntry]
  BY DEF EndGet, Removed
<1>3. /\ DOMAIN entry' = Entries /\ entry'[round.i] = NoEntry
      /\ \A j \in Entries \ {round.i} : entry'[j] = entry[j] /\ DOMAIN entry[j] = EntryFields
  BY <1>1, <1>2 DEF IInv, TableInv
<1>4. NetInv' /\ TableInv' /\ TablesAgree'
  BY <1>1, <1>3, EntryRemoved DEF IInv, EndGet, CloseFd, Unwatched, cur, link
<1>5. RoundInv'
  BY <1>1, NextTurn DEF EndGet
<1>6. QED
  BY <1>4, <1>5 DEF IInv

\* What an entry still has to write is not what the tables are about.
LEMMA SetDataKeeps ==
  ASSUME NEW ent, NEW cells, DOMAIN ent = EntryFields
  PROVE  /\ DOMAIN SetData(ent, cells) = EntryFields
         /\ SetData(ent, cells).used = ent.used
         /\ SetData(ent, cells).fd = ent.fd
         /\ SetData(ent, cells).type = ent.type
BY DEF SetData, EntryFields

\* and an upload that is complete, which no longer was in the write set.
LEMMA StoreFileStep == IInv /\ StoreFile => IInv'
<1> SUFFICES ASSUME IInv, StoreFile PROVE IInv'
  OBVIOUS
<1>1. RoundOK(round) /\ round.i \in UsedEntries /\ round.i \in Entries /\ round.i # 0
  BY AtTurn DEF StoreFile
<1> DEFINE told == [i \in DOMAIN entry |-> IF IsTold(entry[i], cur.name)
                                             THEN Listed(entry[i], files') ELSE entry[i]]
<1>2. entry' = [told EXCEPT ![round.i] = NoEntry]
  BY DEF StoreFile, Removed
<1>3. \A j \in Entries :
        /\ DOMAIN told[j] = EntryFields /\ told[j].used = entry[j].used
        /\ told[j].fd = entry[j].fd /\ told[j].type = entry[j].type
  <2>1. SUFFICES ASSUME NEW j \in Entries
                 PROVE  /\ DOMAIN told[j] = EntryFields /\ told[j].used = entry[j].used
                        /\ told[j].fd = entry[j].fd /\ told[j].type = entry[j].type
    OBVIOUS
  <2>2. DOMAIN entry[j] = EntryFields /\ j \in DOMAIN entry
    BY DEF IInv, TableInv
  <2>3. told[j] = entry[j] \/ told[j] = SetData(entry[j], ListOf(files'[entry[j].name]))
    BY <2>2 DEF Listed
  <2>4. QED
    BY <2>2, <2>3, SetDataKeeps
<1>4. DOMAIN told = Entries
  BY DEF IInv, TableInv
<1> HIDE DEF told
<1>5. /\ DOMAIN entry' = Entries /\ entry'[round.i] = NoEntry
      /\ \A j \in Entries \ {round.i} :
           /\ DOMAIN entry'[j] = EntryFields
           /\ entry'[j].used = entry[j].used /\ entry'[j].fd = entry[j].fd
           /\ entry'[j].type = entry[j].type
  BY <1>1, <1>2, <1>3, <1>4
<1>6. allWset' = allWset \ {entry[round.i].fd}
  <2>1. entry[round.i].type = "PUT" /\ allWset' = allWset
    BY DEF StoreFile, cur
  <2>2. entry[round.i].fd \notin allWset
    BY <1>1, <2>1 DEF IInv, TablesAgree
  <2>3. QED
    BY <2>1, <2>2
<1>7. NetInv' /\ TableInv' /\ TablesAgree'
  BY <1>1, <1>5, <1>6, EntryRemoved DEF IInv, StoreFile, CloseFd, Unwatched, cur, link
<1>8. RoundInv'
  BY <1>1, NextTurn DEF StoreFile
<1>9. QED
  BY <1>7, <1>8 DEF IInv

\* A part of a header or of a file changes only what the entry has read.
LEMMA ReadPartStep == IInv /\ ReadPart => IInv'
<1> SUFFICES ASSUME IInv, ReadPart PROVE IInv'
  OBVIOUS
<1>1. PICK n : Taken(n) /\ entry' = [entry EXCEPT ![round.i].rbuf = Got(n)]
  BY DEF ReadPart
<1>2. /\ DOMAIN conn' = Conns
      /\ \A m \in Conns : DOMAIN conn'[m] = ConnFields /\ conn'[m].server = conn[m].server
  BY <1>1, StreamMoved DEF Taken, IInv
<1>3. round.i \in Entries /\ DOMAIN cur = EntryFields
  BY AtTurn DEF ReadPart
<1>4. /\ DOMAIN entry' = Entries
      /\ \A j \in Entries \ {round.i} : entry'[j] = entry[j]
      /\ entry'[round.i] = [cur EXCEPT !.rbuf = Got(n)]
  BY <1>1, <1>3 DEF IInv, TableInv, cur
<1>5. /\ DOMAIN entry'[round.i] = EntryFields /\ entry'[round.i].used = cur.used
      /\ entry'[round.i].fd = cur.fd /\ entry'[round.i].type = cur.type
  BY <1>3, <1>4 DEF EntryFields
<1>6. QED
  BY <1>2, <1>4, <1>5, EntryWritten DEF ReadPart

\* A command connection or a download is watched for writing already.
LEMMA WatchedAlready ==
  ASSUME IInv, Reading, ExpectsHeader
  PROVE  allWset \cup {cur.fd} = allWset
<1>1. round.i \in UsedEntries
  BY AtTurn
<1>2. cur.type \notin {"LISTEN", "PUT"}
  BY DEF ExpectsHeader
<1>3. cur.fd \in allWset
  BY <1>1, <1>2 DEF IInv, TablesAgree, cur
<1>4. QED
  BY <1>3

\* An entry that becomes a command connection stays in both sets,
LEMMA LoginStep == IInv /\ Login => IInv'
<1> SUFFICES ASSUME IInv, Login PROVE IInv'
  OBVIOUS
<1>1. /\ DOMAIN conn' = Conns
      /\ \A m \in Conns : DOMAIN conn'[m] = ConnFields /\ conn'[m].server = conn[m].server
  BY StreamMoved DEF Login, ReadHeader, Taken, IInv
<1>2. Reading /\ ExpectsHeader
  BY DEF Login, ReadHeader
<1>3. round.i \in Entries /\ DOMAIN cur = EntryFields
  BY <1>2, AtTurn
<1> DEFINE named == [cur EXCEPT !.name = Header.user, !.type = "CMD", !.rbuf = <<>>]
<1>4. /\ DOMAIN entry' = Entries
      /\ \A j \in Entries \ {round.i} : entry'[j] = entry[j]
      /\ entry'[round.i] = SetData(named, ListOf(files[named.name]))
  BY <1>3 DEF Login, Listed, IInv, TableInv, cur
<1>5. /\ DOMAIN named = EntryFields /\ named.used = cur.used
      /\ named.fd = cur.fd /\ named.type = "CMD"
  BY <1>3 DEF EntryFields
<1> HIDE DEF named
<1>6. /\ DOMAIN entry'[round.i] = EntryFields /\ entry'[round.i].used = cur.used
      /\ entry'[round.i].fd = cur.fd /\ entry'[round.i].type = "CMD"
  BY <1>4, <1>5, SetDataKeeps
<1>7. {entry'[round.i].type, cur.type} \cap {"LISTEN", "PUT"} = {}
  BY <1>2, <1>6 DEF ExpectsHeader
<1>8. UNCHANGED <<backlog, size, sock, allRset, allWset>>
  BY <1>2, WatchedAlready DEF Login
<1>9. QED
  BY <1>1, <1>2, <1>4, <1>6, <1>7, <1>8, EntryWritten DEF Login

\* and so does one that becomes a download.
LEMMA GetStep == IInv /\ Get => IInv'
<1> SUFFICES ASSUME IInv, Get PROVE IInv'
  OBVIOUS
<1>1. /\ DOMAIN conn' = Conns
      /\ \A m \in Conns : DOMAIN conn'[m] = ConnFields /\ conn'[m].server = conn[m].server
  BY StreamMoved DEF Get, ReadHeader, Taken, IInv
<1>2. Reading /\ ExpectsHeader
  BY DEF Get, ReadHeader
<1>3. round.i \in Entries /\ DOMAIN cur = EntryFields
  BY <1>2, AtTurn
<1> DEFINE named == [cur EXCEPT !.name = Header.user, !.type = "GET", !.rbuf = <<>>]
<1>4. /\ DOMAIN entry' = Entries
      /\ \A j \in Entries \ {round.i} : entry'[j] = entry[j]
      /\ entry'[round.i] = SetData(named, OnDisk(Header.user, Header.meta.name))
  BY <1>3 DEF Get, IInv, TableInv, cur
<1>5. /\ DOMAIN named = EntryFields /\ named.used = cur.used
      /\ named.fd = cur.fd /\ named.type = "GET"
  BY <1>3 DEF EntryFields
<1> HIDE DEF named
<1>6. /\ DOMAIN entry'[round.i] = EntryFields /\ entry'[round.i].used = cur.used
      /\ entry'[round.i].fd = cur.fd /\ entry'[round.i].type = "GET"
  BY <1>4, <1>5, SetDataKeeps
<1>7. {entry'[round.i].type, cur.type} \cap {"LISTEN", "PUT"} = {}
  BY <1>2, <1>6 DEF ExpectsHeader
<1>8. UNCHANGED <<backlog, size, sock, allRset, allWset>>
  BY <1>2, WatchedAlready DEF Get
<1>9. QED
  BY <1>1, <1>2, <1>4, <1>6, <1>7, <1>8, EntryWritten DEF Get

\* What is written changes only what the entry still has to write,
LEMMA FlushStep == IInv /\ Flush => IInv'
<1> SUFFICES ASSUME IInv, Flush PROVE IInv'
  OBVIOUS
<1>1. PICK n : /\ conn' = [conn EXCEPT ![link].down = @ \o First(cur.wbuf, n)]
               /\ entry' = [entry EXCEPT ![round.i].wbuf = Without(@, n)]
  BY DEF Flush
<1>2. /\ DOMAIN conn' = Conns
      /\ \A m \in Conns : DOMAIN conn'[m] = ConnFields /\ conn'[m].server = conn[m].server
  BY <1>1, StreamMoved DEF IInv
<1>3. round.i \in Entries /\ DOMAIN cur = EntryFields
  BY AtTurn DEF Flush
<1>4. /\ DOMAIN entry' = Entries
      /\ \A j \in Entries \ {round.i} : entry'[j] = entry[j]
      /\ entry'[round.i] = [cur EXCEPT !.wbuf = Without(@, n)]
  BY <1>1, <1>3 DEF IInv, TableInv, cur
<1>5. /\ DOMAIN entry'[round.i] = EntryFields /\ entry'[round.i].used = cur.used
      /\ entry'[round.i].fd = cur.fd /\ entry'[round.i].type = cur.type
  BY <1>3, <1>4 DEF EntryFields
<1>6. QED
  BY <1>2, <1>4, <1>5, EntryWritten DEF Flush

\* also when the client is gone.
LEMMA FlushToNobodyStep == IInv /\ FlushToNobody => IInv'
<1> SUFFICES ASSUME IInv, FlushToNobody PROVE IInv'
  OBVIOUS
<1>1. PICK w : entry' = [entry EXCEPT ![round.i].wbuf = w]
  BY DEF FlushToNobody
<1>2. UNCHANGED <<conn, backlog>>
  BY DEF FlushToNobody, netVars
<1>3. round.i \in Entries /\ DOMAIN cur = EntryFields
  BY AtTurn DEF FlushToNobody
<1>4. /\ DOMAIN entry' = Entries
      /\ \A j \in Entries \ {round.i} : entry'[j] = entry[j]
      /\ entry'[round.i] = [cur EXCEPT !.wbuf = w]
  BY <1>1, <1>3 DEF IInv, TableInv, cur
<1>5. /\ DOMAIN entry'[round.i] = EntryFields /\ entry'[round.i].used = cur.used
      /\ entry'[round.i].fd = cur.fd /\ entry'[round.i].type = cur.type
  BY <1>3, <1>4 DEF EntryFields
<1>6. DOMAIN conn' = Conns /\ \A k \in Conns : DOMAIN conn'[k] = ConnFields /\ conn'[k].server = conn[k].server
  BY <1>2 DEF IInv, NetInv
<1>7. QED
  BY <1>2, <1>4, <1>5, <1>6, EntryWritten DEF FlushToNobody

\* A connection that turns out to be an upload is not watched for writing.
LEMMA PutStep == IInv /\ Put => IInv'
<1> SUFFICES ASSUME IInv, Put PROVE IInv'
  OBVIOUS
<1> DEFINE f == cur.fd
           r == [round EXCEPT !.wset = @ \ {f}]
<1>1. /\ DOMAIN conn' = Conns
      /\ \A m \in Conns : DOMAIN conn'[m] = ConnFields /\ conn'[m].server = conn[m].server
  BY StreamMoved DEF Put, ReadHeader, Taken, IInv
<1>2. Reading /\ ExpectsHeader
  BY DEF Put, ReadHeader
<1>3. /\ RoundOK(round) /\ round.i \in Entries /\ round.i \in UsedEntries /\ round.i # 0
      /\ DOMAIN cur = EntryFields
  BY <1>2, AtTurn DEF ExpectsHeader
<1>4. /\ DOMAIN entry' = Entries
      /\ \A j \in Entries \ {round.i} : entry'[j] = entry[j]
      /\ entry'[round.i] = [cur EXCEPT !.name = Header.user, !.type = "PUT",
                                       !.rbuf = <<>>, !.meta = Header.meta]
  BY <1>3 DEF Put, IInv, TableInv, cur
<1>5. /\ DOMAIN entry'[round.i] = EntryFields /\ entry'[round.i].used = cur.used
      /\ entry'[round.i].fd = f /\ entry'[round.i].type = "PUT"
  BY <1>3, <1>4 DEF EntryFields
<1>6. UsedEntries' = UsedEntries
      /\ \A j \in UsedEntries : entry'[j].fd = entry[j].fd
  BY <1>4, <1>5 DEF UsedEntries, cur
<1>7. RoundOK(r) /\ round' = AfterRead(r, entry')
  BY <1>3 DEF RoundOK, RoundFields, Put
<1>8. RoundInv'
  BY <1>7, NextTurn
<1>9. UNCHANGED <<backlog, size, sock, allRset>> /\ allWset' = allWset \ {f}
  BY DEF Put
<1>10. NetInv'
  BY <1>1, <1>9 DEF IInv, NetInv
<1>11. TableInv'
  <2>1. \A j \in Entries : DOMAIN entry'[j] = EntryFields /\ entry'[j].used \in BOOLEAN
    BY <1>4, <1>5 DEF IInv, TableInv, cur
  <2>2. \A j \in UsedEntries :
          /\ j < size
          /\ IF j = 0 THEN entry'[j].type = "LISTEN" /\ entry'[j].fd = Listen
                      ELSE entry'[j].type # "LISTEN" /\ entry'[j].fd \in Fds
    <3>1. SUFFICES ASSUME NEW j \in UsedEntries
                   PROVE  /\ j < size
                          /\ IF j = 0 THEN entry'[j].type = "LISTEN" /\ entry'[j].fd = Listen
                                      ELSE entry'[j].type # "LISTEN" /\ entry'[j].fd \in Fds
      OBVIOUS
    <3>2. /\ j < size
          /\ IF j = 0 THEN entry[j].type = "LISTEN" /\ entry[j].fd = Listen
                      ELSE entry[j].type # "LISTEN" /\ entry[j].fd \in Fds
      BY DEF IInv, TableInv
    <3>3. entry'[j].fd = entry[j].fd
      BY <1>6
    <3>4. CASE j = round.i
      BY <1>3, <1>5, <3>2, <3>3, <3>4
    <3>5. CASE j # round.i
      <4>1. entry'[j] = entry[j]
        BY <1>4, <3>5 DEF UsedEntries
      <4>2. QED
        BY <3>2, <4>1
    <3>6. QED
      BY <3>4, <3>5
  <2>3. QED
    BY <1>4, <1>6, <1>9, <2>1, <2>2 DEF IInv, TableInv
<1>12. TablesAgree'
  <2>1. allRset' = {entry'[j].fd : j \in UsedEntries'}
    BY <1>6, <1>9 DEF IInv, TablesAgree
  <2>2. \A j, m \in UsedEntries' : entry'[j].fd = entry'[m].fd => j = m
    BY <1>6 DEF IInv, TablesAgree
  <2>3. {j \in UsedEntries' : entry'[j].type \notin {"LISTEN", "PUT"}}
          = {j \in UsedEntries : entry[j].type \notin {"LISTEN", "PUT"}} \ {round.i}
    BY <1>4, <1>5, <1>6 DEF UsedEntries
  <2>4. \A j \in UsedEntries \ {round.i} : entry[j].fd # f
    BY <1>3 DEF IInv, TablesAgree, cur
  <2>5. allWset' = {entry'[j].fd : j \in {j \in UsedEntries' : entry'[j].type \notin {"LISTEN", "PUT"}}}
    <3>1. allWset = {entry[j].fd : j \in {j \in UsedEntries : entry[j].type \notin {"LISTEN", "PUT"}}}
      BY DEF IInv, TablesAgree
    <3>2. entry[round.i].fd = f
      BY DEF cur
    <3>3. QED
      BY <1>6, <1>9, <2>3, <2>4, <3>1, <3>2
  <2>6. {k \in Conns : conn'[k].server = "open"} = {k \in Conns : conn[k].server = "open"}
    BY <1>1
  <2>7. /\ {g \in Fds : sock'[g] # 0} = allRset' \ {Listen}
        /\ \A g, h \in Fds : sock'[g] # 0 /\ sock'[g] = sock'[h] => g = h
        /\ {k \in Conns : conn'[k].server = "open"} = {sock'[g] : g \in Fds} \ {0}
    BY <1>9, <2>6 DEF IInv, TablesAgree
  <2>8. QED
    BY <2>1, <2>2, <2>5, <2>7 DEF TablesAgree
<1>13. QED
  BY <1>8, <1>10, <1>11, <1>12 DEF IInv

\* The first waiting connection gets a free descriptor and a free entry.
LEMMA AcceptStep == IInv /\ Accept => IInv'
<1> SUFFICES ASSUME IInv, Accept PROVE IInv'
  OBVIOUS
<1> USE DEF IInv
<1> DEFINE f == Least({g \in Fds : sock[g] = 0})
           k == Head(backlog)
           s == Slot
<1>1. Reading /\ cur.type = "LISTEN" /\ RoundOK(round) /\ round.i = 0
  BY AtTurn DEF Accept
<1>2. backlog # <<>>
  BY <1>1 DEF RoundInv
<1>3. k \in Conns /\ conn[k].server = "backlog"
  BY <1>2 DEF NetInv
<1>4. f \in Fds /\ sock[f] = 0
  <2>1. {g \in Fds : sock[g] = 0} \in SUBSET Nat
    BY NetAssumption DEF Fds
  <2>2. QED
    BY <1>2, <2>1, FreeFd, LeastIs
<1>5. s \in Entries /\ s # 0 /\ entry[s].used = FALSE /\ s <= size
  <2>0. size \in 1..MAX_FD /\ MAX_FD \in Nat
    BY NetAssumption DEF TableInv, MAX_FD
  <2>1. CASE Unused = {}
    <3>1. s = size /\ size < MAX_FD
      BY <1>4, <2>0, <2>1, FreeEntry DEF Slot
    <3>2. s \in Entries
      BY <2>0, <3>1 DEF Entries
    <3>3. s \notin UsedEntries
      BY <2>0, <3>1 DEF TableInv
    <3>4. QED
      BY <2>0, <3>1, <3>2, <3>3 DEF UsedEntries, TableInv
  <2>2. CASE Unused # {}
    <3>1. Unused \in SUBSET Nat
      BY <2>0 DEF Unused
    <3>2. s \in Unused
      BY <2>2, <3>1, LeastIs DEF Slot
    <3>3. s \in Entries /\ ~entry[s].used /\ s < size
      BY <2>0, <3>2 DEF Unused, Entries
    <3>4. s # 0
      BY <3>3 DEF TableInv, UsedEntries
    <3>5. QED
      BY <2>0, <3>3, <3>4 DEF TableInv, Entries
  <2>3. QED
    BY <2>1, <2>2
<1> DEFINE fresh == [NoEntry EXCEPT !.used = TRUE, !.fd = f]
<1>6. /\ entry' = [entry EXCEPT ![s] = fresh]
      /\ size' = IF s = size THEN size + 1 ELSE size
      /\ sock' = [sock EXCEPT ![f] = k]
      /\ allRset' = allRset \cup {f} /\ allWset' = allWset \cup {f}
      /\ conn' = [conn EXCEPT ![k].server = "open"]
      /\ backlog' = Tail(backlog)
      /\ round' = AfterRead(round, entry')
  BY DEF Accept
<1>7. DOMAIN fresh = EntryFields /\ fresh.used = TRUE /\ fresh.fd = f /\ fresh.type = "NONE"
  BY DEF NoEntry, EntryFields
<1> HIDE DEF f, k, s, fresh
<1>8. RoundInv'
  BY <1>1, <1>6, NextTurn
<1>9. /\ DOMAIN entry' = Entries /\ entry'[s] = fresh
      /\ \A i \in Entries \ {s} : entry'[i] = entry[i]
  BY <1>5, <1>6 DEF TableInv
<1>10. UsedEntries' = UsedEntries \cup {s} /\ s \notin UsedEntries
  <2>1. \A i \in Entries \ {s} : entry'[i].used = entry[i].used
    BY <1>9
  <2>2. entry'[s].used = TRUE
    BY <1>7, <1>9
  <2>3. QED
    BY <1>5, <2>1, <2>2 DEF UsedEntries
<1>11. \A i \in UsedEntries : entry'[i] = entry[i] /\ entry[i].fd # f
  <2>1. f \notin allRset
    BY <1>4 DEF TablesAgree, Fds, Listen
  <2>2. QED
    BY <1>9, <1>10, <2>1 DEF TablesAgree, UsedEntries
<1>12. /\ DOMAIN conn' = Conns
       /\ \A m \in Conns \ {k} : conn'[m] = conn[m]
       /\ DOMAIN conn'[k] = ConnFields /\ conn'[k].server = "open"
  BY <1>3, <1>6 DEF NetInv, ConnFields
<1>13. /\ sock' \in [Fds -> Conns \cup {0}] /\ sock'[f] = k
       /\ \A g \in Fds \ {f} : sock'[g] = sock[g]
  BY <1>3, <1>4, <1>6 DEF TableInv
<1>14. NetInv'
  <2>1. /\ backlog' \in Seq(Conns) /\ Len(backlog') = Len(backlog) - 1
        /\ Len(backlog) \in Nat
        /\ \A j \in 1..Len(backlog') : backlog'[j] = backlog[j + 1]
    BY <1>2, <1>6 DEF NetInv
  <2>2. k = backlog[1] /\ 1 \in 1..Len(backlog)
    BY <1>2, <2>1 DEF k, NetInv
  <2>3. \A j \in 1..Len(backlog') :
          j + 1 \in 1..Len(backlog) /\ backlog'[j] # k /\ backlog'[j] \in Conns
    BY <2>1, <2>2 DEF NetInv
  <2>4. \A j \in 1..Len(backlog') : conn'[backlog'[j]].server = "backlog"
    BY <1>12, <2>1, <2>3 DEF NetInv
  <2>5. \A j, m \in 1..Len(backlog') : backlog'[j] = backlog'[m] => j = m
    BY <2>1, <2>3 DEF NetInv
  <2>6. \A m \in Conns : DOMAIN conn'[m] = ConnFields
    BY <1>12 DEF NetInv
  <2>7. QED
    BY <1>12, <2>1, <2>4, <2>5, <2>6 DEF NetInv
<1>15. TableInv'
  <2>1. \A i \in Entries : DOMAIN entry'[i] = EntryFields /\ entry'[i].used \in BOOLEAN
    BY <1>7, <1>9 DEF TableInv
  <2>2. size' \in 1..MAX_FD /\ size <= size' /\ s < size'
    BY <1>5, <1>6, NetAssumption DEF TableInv, Entries, MAX_FD
  <2>3. \A i \in UsedEntries :
          /\ i < size'
          /\ IF i = 0 THEN entry'[i].type = "LISTEN" /\ entry'[i].fd = Listen
                      ELSE entry'[i].type # "LISTEN" /\ entry'[i].fd \in Fds
    <3>1. \A i \in UsedEntries : i \in Int /\ i < size /\ size \in Int /\ size' \in Int
      BY <2>2, NetAssumption DEF TableInv, UsedEntries, Entries, MAX_FD
    <3>2. QED
      BY <1>11, <2>2, <3>1 DEF TableInv
  <2>4. entry'[s].type # "LISTEN" /\ entry'[s].fd \in Fds
    BY <1>4, <1>7, <1>9
  <2>5. 0 \in UsedEntries'
    BY <1>10 DEF TableInv
  <2>6. \A i \in UsedEntries' :
          /\ i < size'
          /\ IF i = 0 THEN entry'[i].type = "LISTEN" /\ entry'[i].fd = Listen
                      ELSE entry'[i].type # "LISTEN" /\ entry'[i].fd \in Fds
    BY <1>5, <1>10, <2>2, <2>3, <2>4
  <2>7. QED
    BY <1>9, <1>13, <2>1, <2>2, <2>5, <2>6 DEF TableInv
<1>16. TablesAgree'
  <2>1. allRset' = {entry'[i].fd : i \in UsedEntries'}
    BY <1>6, <1>7, <1>9, <1>10, <1>11 DEF TablesAgree
  <2>2. \A i, j \in UsedEntries' : entry'[i].fd = entry'[j].fd => i = j
    BY <1>7, <1>9, <1>10, <1>11 DEF TablesAgree
  <2>3. {g \in Fds : sock'[g] # 0} = allRset' \ {Listen}
    <3>1. k # 0 /\ f # Listen
      BY <1>3, <1>4 DEF Conns, Fds, Listen
    <3>2. {g \in Fds : sock'[g] # 0} = {g \in Fds : sock[g] # 0} \cup {f}
      BY <1>4, <1>13, <3>1
    <3>3. QED
      BY <1>6, <3>1, <3>2 DEF TablesAgree
  <2>4. allWset' = {entry'[i].fd : i \in {i \in UsedEntries' : entry'[i].type \notin {"LISTEN", "PUT"}}}
    <3>1. {i \in UsedEntries' : entry'[i].type \notin {"LISTEN", "PUT"}}
            = {i \in UsedEntries : entry[i].type \notin {"LISTEN", "PUT"}} \cup {s}
      BY <1>7, <1>9, <1>10, <1>11
    <3>2. QED
      BY <1>6, <1>7, <1>9, <1>11, <3>1 DEF TablesAgree
  <2>5. \A g \in Fds : sock[g] # k
    BY <1>3 DEF TablesAgree, Conns
  <2>6. \A g, h \in Fds : sock'[g] # 0 /\ sock'[g] = sock'[h] => g = h
    BY <1>4, <1>13, <2>5 DEF TablesAgree
  <2>7. {m \in Conns : conn'[m].server = "open"} = {sock'[g] : g \in Fds} \ {0}
    <3>1. {m \in Conns : conn'[m].server = "open"} = {m \in Conns : conn[m].server = "open"} \cup {k}
      BY <1>3, <1>12
    <3>2. {sock'[g] : g \in Fds} \ {0} = ({sock[g] : g \in Fds} \ {0}) \cup {k}
      <4>1. k # 0
        BY <1>3 DEF Conns
      <4>2. QED
        BY <1>4, <1>13, <4>1
    <3>3. QED
      BY <3>1, <3>2 DEF TablesAgree
  <2>8. QED
    BY <2>1, <2>2, <2>3, <2>4, <2>6, <2>7 DEF TablesAgree
<1>17. QED
  BY <1>8, <1>14, <1>15, <1>16

\* Every step of the server keeps the invariant.
LEMMA ServerStep == IInv /\ Server => IInv'
BY SelectStep, AcceptStep, HangUpStep, ReadPartStep, LoginStep, GetStep, PutStep,
   StoreFileStep, FlushStep, FlushToNobodyStep, EndGetStep DEF Server

-----------------------------------------------------------------------------
(* The steps of the clients                                                *)

\* What a client does to one of its connections, other than to open it.
ClientTouches(k) ==
  \/ \E s : conn' = [conn EXCEPT ![k].up = s]
  \/ \E s : conn' = [conn EXCEPT ![k].down = s]
  \/ conn' = [conn EXCEPT ![k] = ClientClosed(@)]

\* A client that closes its end cannot take a connection from the server.
LEMMA ClosedOK ==
  ASSUME NEW k, DOMAIN k = ConnFields
  PROVE  /\ DOMAIN ClientClosed(k) = ConnFields
         /\ \/ ClientClosed(k).server = k.server
            \/ k.server = "closed" /\ ClientClosed(k).server = "none"
BY DEF ClientClosed, NoConn, ConnFields

\* What a client reads, writes or closes leaves the server's tables in order,
LEMMA TouchStep ==
  ASSUME IInv, NEW k, ClientTouches(k), UNCHANGED <<backlog, serverVars>>
  PROVE  IInv'
<1>1. CASE conn' = [conn EXCEPT ![k] = ClientClosed(@)]
  <2>1. DOMAIN conn' = Conns
    BY <1>1 DEF IInv, NetInv
  <2>2. \A m \in Conns :
          /\ DOMAIN conn'[m] = ConnFields
          /\ \/ conn'[m].server = conn[m].server
             \/ conn[m].server = "closed" /\ conn'[m].server = "none"
    <3>1. \A m \in Conns : conn'[m] = conn[m] \/ conn'[m] = ClientClosed(conn[m])
      BY <1>1 DEF IInv, NetInv
    <3>2. QED
      BY <3>1, ClosedOK DEF IInv, NetInv
  <2>3. QED
    BY <2>1, <2>2, ClientsKeep
<1>2. CASE \E s : conn' = [conn EXCEPT ![k].up = s] \/ conn' = [conn EXCEPT ![k].down = s]
  <2>1. /\ DOMAIN conn' = Conns
        /\ \A m \in Conns : DOMAIN conn'[m] = ConnFields /\ conn'[m].server = conn[m].server
    BY <1>2, StreamMoved DEF IInv
  <2>2. QED
    BY <2>1, ClientsKeep
<1>3. QED
  BY <1>1, <1>2 DEF ClientTouches

\* and so does a connection it opens, which waits for accept,
LEMMA ConnectStep ==
  ASSUME IInv, NEW k \in Conns, NEW h, Connect(k, h), UNCHANGED serverVars
  PROVE  IInv'
<1>1. FreeConns \in SUBSET Nat
  BY NetAssumption DEF FreeConns, Conns
<1>2. conn[k].server = "none"
  BY <1>1, LeastIs DEF Connect, FreeConns
<1>3. /\ DOMAIN conn' = Conns
      /\ \A m \in Conns \ {k} : conn'[m] = conn[m]
      /\ conn'[k] = Connected(Request(h))
  BY DEF Connect, IInv, NetInv
<1>4. DOMAIN conn'[k] = ConnFields /\ conn'[k].server = "backlog"
  BY <1>3 DEF Connected, ConnFields
<1>5. \A m \in Conns : /\ DOMAIN conn'[m] = ConnFields
                       /\ \/ conn'[m].server = conn[m].server
                          \/ conn[m].server = "none" /\ conn'[m].server = "backlog"
  BY <1>2, <1>3, <1>4 DEF IInv, NetInv
<1>6. \E m \in Conns : /\ conn[m].server = "none" /\ conn'[m].server = "backlog"
                       /\ backlog' = Append(backlog, m)
  BY <1>2, <1>4 DEF Connect
<1>7. QED
  BY <1>3, <1>5, <1>6, ClientsKeep

\* and its end, which closes two connections at once.
LEMMA StopStep ==
  ASSUME IInv, NEW c \in Clients, Stop(c), UNCHANGED serverVars
  PROVE  IInv'
<1>1. DOMAIN conn' = Conns /\ backlog' = backlog
  BY DEF Stop
<1>2. \A m \in Conns : conn'[m] = conn[m] \/ conn'[m] = ClientClosed(conn[m])
  BY DEF Stop
<1>3. \A m \in Conns :
        /\ DOMAIN conn'[m] = ConnFields
        /\ \/ conn'[m].server = conn[m].server
           \/ conn[m].server = "closed" /\ conn'[m].server = "none"
  BY <1>2, ClosedOK DEF IInv, NetInv
<1>4. QED
  BY <1>1, <1>3, ClientsKeep

\* Every step of a client keeps the invariant.
LEMMA ClientStep ==
  ASSUME IInv, NEW c \in Clients, Client(c), UNCHANGED serverVars
  PROVE  IInv'
<1>1. ASSUME NEW u \in Users, Start(c, u) PROVE IInv'
  BY <1>1, ConnectStep DEF Start
<1>2. CASE Fetch(c)
  BY <1>2, ConnectStep DEF Fetch
<1>3. ASSUME NEW n \in Names, NEW len \in Sizes, Upload(c, n, len) PROVE IInv'
  BY <1>3, ConnectStep DEF Upload
<1>4. CASE ReadList(c) \/ ReadCount(c) \/ ReadMeta(c)
  <2>1. ReadCmd(c) /\ backlog' = backlog
    BY <1>4 DEF ReadList, ReadCount, ReadMeta
  <2>2. ClientTouches(client[c].cmd)
    BY <2>1 DEF ReadCmd, ClientTouches
  <2>3. QED
    BY <2>1, <2>2, TouchStep
<1>5. CASE ReadData(c)
  <2>1. ClientTouches(client[c].data) /\ backlog' = backlog
    BY <1>5 DEF ReadData, ClientTouches
  <2>2. QED
    BY <2>1, TouchStep
<1>6. CASE WriteData(c)
  <2>1. ClientTouches(client[c].data) /\ backlog' = backlog
    BY <1>6 DEF WriteData, ClientTouches
  <2>2. QED
    BY <2>1, TouchStep
<1>7. CASE FinishGet(c) \/ FinishPut(c)
  <2>1. ClientTouches(client[c].data) /\ backlog' = backlog
    BY <1>7 DEF FinishGet, FinishPut, ClientTouches
  <2>2. QED
    BY <2>1, TouchStep
<1>8. CASE Stop(c)
  BY <1>8, StopStep
<1>9. QED
  BY <1>1, <1>2, <1>3, <1>4, <1>5, <1>6, <1>7, <1>8 DEF Client, Program, User

-----------------------------------------------------------------------------
(* The theorem                                                             *)

\* The server begins with the listening entry alone.
LEMMA InitInv == Init => IInv
<1> SUFFICES ASSUME Init PROVE IInv
  OBVIOUS
<1> DEFINE first == [NoEntry EXCEPT !.used = TRUE, !.fd = Listen, !.type = "LISTEN"]
<1>a. DOMAIN NoEntry = EntryFields /\ NoEntry.used = FALSE
  BY DEF NoEntry, EntryFields
<1>b. /\ DOMAIN first = EntryFields /\ first.used = TRUE
      /\ first.fd = Listen /\ first.type = "LISTEN"
  BY DEF NoEntry, EntryFields
<1>c. entry = [i \in 0..(MAX_FD - 1) |-> IF i = 0 THEN first ELSE NoEntry]
  BY DEF Init, ServerInit
<1> HIDE DEF first
<1>d. /\ conn = [k \in Conns |-> NoConn] /\ backlog = <<>>
      /\ size = 1 /\ sock = [f \in Fds |-> 0]
      /\ allRset = {Listen} /\ allWset = {} /\ round = [half |-> "select"]
  BY DEF Init, NetInit, ServerInit
<1>0. MaxConns \in Nat \ {0} /\ MAX_FD \in Nat /\ MAX_FD > 1
  BY NetAssumption DEF MAX_FD
<1>1. NetInv
  <2>1. DOMAIN NoConn = ConnFields
    BY DEF NoConn, ConnFields
  <2>2. QED
    BY <1>d, <2>1 DEF NetInv
<1>2. /\ DOMAIN entry = Entries
      /\ DOMAIN entry[0] = EntryFields /\ entry[0].used = TRUE
      /\ entry[0].fd = Listen /\ entry[0].type = "LISTEN"
      /\ \A i \in Entries \ {0} : DOMAIN entry[i] = EntryFields /\ entry[i].used = FALSE
  <2>1. entry = [i \in Entries |-> IF i = 0 THEN first ELSE NoEntry] /\ 0 \in Entries
    BY <1>0, <1>c DEF Entries
  <2>2. QED
    BY <1>a, <1>b, <2>1
<1>3. 0 \in Entries
  BY <1>0 DEF Entries
<1>4. UsedEntries = {0}
  BY <1>2, <1>3 DEF UsedEntries
<1>5. TableInv
  <2>1. sock \in [Fds -> Conns \cup {0}] /\ size \in 1..MAX_FD /\ 0 < size
    BY <1>0, <1>d
  <2>2. \A i \in Entries : DOMAIN entry[i] = EntryFields /\ entry[i].used \in BOOLEAN
    BY <1>2
  <2>3. QED
    BY <1>2, <1>4, <2>1, <2>2 DEF TableInv
<1>6. RoundInv
  BY <1>d DEF RoundInv, AtWork, Reading
<1>7. TablesAgree
  <2>1. allRset = {entry[i].fd : i \in UsedEntries}
    BY <1>d, <1>2, <1>4
  <2>2. \A i, j \in UsedEntries : entry[i].fd = entry[j].fd => i = j
    BY <1>4
  <2>3. \A g \in Fds : sock[g] = 0
    BY <1>d
  <2>4. allWset = {entry[i].fd : i \in {i \in UsedEntries : entry[i].type \notin {"LISTEN", "PUT"}}}
    BY <1>d, <1>2, <1>4
  <2>5. \A k \in Conns : conn[k].server = "none"
    BY <1>d DEF NoConn
  <2>6. {k \in Conns : conn[k].server = "open"} = {} /\ {sock[f] : f \in Fds} \ {0} = {}
    BY <2>3, <2>5
  <2>7. {f \in Fds : sock[f] # 0} = allRset \ {Listen}
    BY <1>d, <2>3
  <2>8. QED
    BY <2>1, <2>2, <2>3, <2>4, <2>6, <2>7 DEF TablesAgree
<1>8. QED
  BY <1>1, <1>5, <1>6, <1>7 DEF IInv

\* What ends the process changes nothing else, as does a step that is none.
LEMMA StepKinds ==
  [Next]_vars => \/ Server /\ UNCHANGED clientVars
                 \/ \E c \in Clients : Client(c) /\ UNCHANGED serverVars
                 \/ UNCHANGED <<netVars, serverVars, clientVars>>
BY DEF Next, ServerRuns, BrokenPipe, vars

\* Every step keeps the invariant.
LEMMA NextInv == IInv /\ [Next]_vars => IInv'
<1> SUFFICES ASSUME IInv, [Next]_vars PROVE IInv'
  OBVIOUS
<1>1. CASE Server
  BY <1>1, ServerStep
<1>2. ASSUME NEW c \in Clients, Client(c), UNCHANGED serverVars PROVE IInv'
  BY <1>2, ClientStep
<1>3. CASE UNCHANGED <<netVars, serverVars, clientVars>>
  BY <1>3 DEF netVars, serverVars, IInv, NetInv, TableInv, RoundInv, TablesAgree,
              UsedEntries, Reading
<1>4. QED
  BY <1>1, <1>2, <1>3, StepKinds

\* Whatever clients do and however their connections begin and end, the table,
\* the two sets of select, the descriptors and the connections of the server
\* agree at every moment of a round, for any number of them.
THEOREM TablesCorrect == Spec => []TablesAgree
<1>1. IInv => TablesAgree
  BY DEF IInv
<1>2. QED
  BY <1>1, InitInv, NextInv, PTL DEF Spec

\* A connection taken from the queue of accept finds a descriptor and an entry:
\* with one entry more than there can be connections, reuse of entries loses
\* none, and addFD never writes behind the table.
THEOREM AcceptFindsRoom ==
  Spec => [](backlog # <<>> => /\ {f \in Fds : sock[f] = 0} # {}
                               /\ size < MAX_FD \/ Unused # {})
<1>1. IInv => (backlog # <<>> => /\ {f \in Fds : sock[f] = 0} # {}
                                 /\ size < MAX_FD \/ Unused # {})
  BY FreeFd, FreeEntry DEF IInv
<1>2. QED
  BY <1>1, InitInv, NextInv, PTL DEF Spec

-----------------------------------------------------------------------------
(* A connection with the entry that serves it                              *)

Live       == UsedEntries \ {0}
EntryAt(k) == CHOOSE i \in Live : sock[entry[i].fd] = k
Ent(k)     == IF conn[k].server = "open" THEN entry[EntryAt(k)] ELSE NoEntry

\* What the server takes a connection for, and what it has of its client's
\* stream that it has not dealt with.
Kind(k)   == IF conn[k].server \in {"backlog", "open"} THEN Ent(k).type ELSE "gone"
Stream(k) == Ent(k).rbuf \o conn[k].up

\* What select saw to be readable still is when its entry's turn comes.
SnapInv ==
  round.half # "select" =>
    /\ \A j \in Live : entry[j].fd \in round.rset /\ (j > round.i \/ (Reading /\ j = round.i))
                         => CanRead(entry[j].fd)
    /\ Reading /\ round.i = 0 => round.rset \subseteq allRset

-----------------------------------------------------------------------------
(* The inductive invariant                                                 *)

\* A client's connections are its own and open at its end.
RoleOK(c) ==
  ~At(c, "off") =>
    /\ conn[client[c].cmd].client
    /\ client[c].data # 0 <=> At(c, "get") \/ At(c, "put")
    /\ client[c].data # 0 => /\ conn[client[c].data].client
                             /\ client[c].data # client[c].cmd
    /\ At(c, "metas") <=> client[c].tCount > 0
    /\ At(c, "sync") \/ At(c, "get") => client[c].diffFiles # <<>>
    /\ At(c, "put") => /\ client[c].upload \in 1..Len(uploads)
                       /\ \A p \in 1..Len(client[c].buf) : client[c].buf[p].t = "byte"
RoleInv ==
  /\ \A k \in Conns : conn[k].server = "none" => ~conn[k].client
  /\ \A c \in Clients : RoleOK(c)
  /\ \A c, d \in Clients :
       ~At(c, "off") /\ ~At(d, "off") /\ c # d =>
         /\ client[c].cmd # client[d].cmd /\ client[c].cmd # client[d].data
         /\ client[c].data = client[d].data => client[c].data = 0

\* A stream that begins with a request: a login or a download and nothing else,
\* or an upload with what it brings.
AllBytes(s) == \A p \in 1..Len(s) : s[p].t = "byte"
IsRequest(s) ==
  /\ Len(s) >= HeaderCells
  /\ s[1].t = "part" /\ s[2].t \in {"LOGIN", "GET", "PUT"}
  /\ s[2].t \in {"LOGIN", "GET"} => Len(s) = HeaderCells
  /\ s[2].t \in {"GET", "PUT"} => s[2].user \in known
  /\ \A p \in 3..Len(s) : s[p].t = "byte"

\* What a client has sent, by what the server takes its connection for.
StreamOK(k) ==
  /\ Kind(k) = "NONE" => /\ IsRequest(Stream(k)) /\ Len(Ent(k).rbuf) < HeaderCells
                         /\ conn[k].down = <<>> /\ Ent(k).wbuf = <<>>
  /\ Kind(k) \in {"CMD", "GET"} => Stream(k) = <<>> /\ Ent(k).name \in known
  /\ Kind(k) = "PUT" => AllBytes(Stream(k)) /\ Ent(k).name \in known /\ Ent(k).meta \in Meta
  /\ Kind(k) = "gone" => AllBytes(conn[k].up)
StreamInv == \A k \in Conns : StreamOK(k)

\* A command connection carries its login, and then lists only; that of an
\* upload carries nothing else.
CmdOK(c) ==
  LET k == client[c].cmd IN
  /\ Kind(k) \in {"NONE", "CMD"}
  /\ Kind(k) = "NONE" => At(c, "login") /\ Stream(k)[2] = LoginHeader(client[c].user)
  /\ Kind(k) = "CMD" => Ent(k).name = client[c].user
PutOK(c) ==
  LET k == client[c].data IN
  /\ Kind(k) \in {"NONE", "PUT", "gone"}
  /\ Kind(k) = "NONE" => Stream(k)[2].t = "PUT"
CmdInv == \A c \in Clients : ~At(c, "off") => CmdOK(c)
PutInv == \A c \in Clients : At(c, "put") => PutOK(c)

\* The part of ListsAreWhole that is about one client: s is what it has not
\* read, fs its user's files.
ListState(pc, left, s, fs) ==
  /\ pc = "count" => s # <<>> /\ s[1].t = "count"
  /\ pc = "metas" =>
       /\ left <= Len(s) /\ \A j \in 1..left : s[j].t = "meta"
       /\ left = Len(s) \/ s[left + 1] = ListHeader
       /\ \E from \in 1..(Len(fs) - left + 1) : IsRunOfLists(s, fs, from)
  /\ pc # "metas" =>
       /\ pc = "count" \/ s = <<>> \/ s[1] = ListHeader
       /\ IsRunOfLists(s, fs, Len(fs) + 1)
Pending(k) == conn[k].down \o Ent(k).wbuf
ListOK(c)  == ListState(client[c].pc, client[c].tCount, Pending(client[c].cmd), files[client[c].user])
ListInv    == \A c \in Clients : ~At(c, "off") => ListOK(c)

ProtoInv == IInv /\ SnapInv /\ SystemTypes /\ RoleInv /\ StreamInv /\ CmdInv /\ PutInv /\ ListInv

-----------------------------------------------------------------------------
(* Entries and their connections                                           *)

\* Every entry in use but the first serves an open connection, every open
\* connection has one entry.
LinksOK ==
  /\ \A i \in Live :
       /\ i \in Entries /\ i # 0 /\ i \in UsedEntries
       /\ entry[i].fd \in Fds /\ entry[i].type # "LISTEN"
       /\ \E k \in Conns : sock[entry[i].fd] = k /\ conn[k].server = "open" /\ Ent(k) = entry[i]
  /\ \A i, j \in Live : sock[entry[i].fd] = sock[entry[j].fd] => i = j
  /\ \A k \in Conns : conn[k].server = "open" =>
       \E i \in Live : sock[entry[i].fd] = k /\ Ent(k) = entry[i]

\* The tables of the server link them that way.
LEMMA Links == IInv => LinksOK
<1> SUFFICES ASSUME IInv PROVE LinksOK
  OBVIOUS
<1> USE DEF IInv
<1>1. \A i \in Live : /\ i \in Entries /\ i # 0 /\ i \in UsedEntries
                      /\ entry[i].fd \in Fds /\ entry[i].type # "LISTEN"
  BY DEF Live, UsedEntries, TableInv
<1>2. \A i \in Live : entry[i].fd \in allRset /\ entry[i].fd # Listen
  <2>1. \A f \in Fds : f # Listen
    BY DEF Fds, Listen
  <2>2. QED
    BY <1>1, <2>1 DEF TablesAgree
<1>3. \A i \in Live : sock[entry[i].fd] # 0 /\ sock[entry[i].fd] \in Conns
  <2>1. \A i \in Live : sock[entry[i].fd] # 0
    BY <1>1, <1>2 DEF TablesAgree
  <2>2. QED
    BY <1>1, <2>1 DEF TableInv
<1>4. \A i \in Live : conn[sock[entry[i].fd]].server = "open"
  BY <1>1, <1>3 DEF TablesAgree
<1>5. \A i, j \in Live : sock[entry[i].fd] = sock[entry[j].fd] => i = j
  <2>1. SUFFICES ASSUME NEW i \in Live, NEW j \in Live, sock[entry[i].fd] = sock[entry[j].fd]
                 PROVE  i = j
    OBVIOUS
  <2>2. entry[i].fd = entry[j].fd
    BY <1>1, <1>3, <2>1 DEF TablesAgree
  <2>3. QED
    BY <1>1, <2>2 DEF TablesAgree
<1>6. \A k \in Conns : conn[k].server = "open" => \E i \in Live : sock[entry[i].fd] = k
  <2>1. SUFFICES ASSUME NEW k \in Conns, conn[k].server = "open"
                 PROVE  \E i \in Live : sock[entry[i].fd] = k
    OBVIOUS
  <2>2. PICK f \in Fds : sock[f] = k /\ k # 0
    BY <2>1 DEF TablesAgree
  <2>3. f \in allRset
    BY <2>2 DEF TablesAgree
  <2>4. PICK i \in UsedEntries : entry[i].fd = f
    BY <2>3 DEF TablesAgree
  <2>5. i # 0
    <3>1. f # Listen
      BY DEF Fds, Listen
    <3>2. QED
      BY <2>4, <3>1 DEF TableInv
  <2>6. QED
    BY <2>2, <2>4, <2>5 DEF Live
<1>7. \A i \in Live : \A k \in Conns : k = sock[entry[i].fd] => Ent(k) = entry[i]
  <2>1. SUFFICES ASSUME NEW i \in Live, NEW k \in Conns, k = sock[entry[i].fd]
                 PROVE  Ent(k) = entry[i]
    OBVIOUS
  <2>2. EntryAt(k) \in Live /\ sock[entry[EntryAt(k)].fd] = k
    BY <2>1 DEF EntryAt
  <2>3. EntryAt(k) = i
    BY <1>5, <2>1, <2>2
  <2>4. QED
    BY <1>4, <2>1, <2>3 DEF Ent
<1>8. \A k \in Conns : conn[k].server = "open" =>
        \E i \in Live : sock[entry[i].fd] = k /\ Ent(k) = entry[i]
  BY <1>6, <1>7
<1>9. QED
  BY <1>1, <1>3, <1>4, <1>5, <1>7, <1>8 DEF LinksOK

\* What the tables give before a step they give after it.
LEMMA LinksNext == IInv' => LinksOK'
BY Links, PTL

\* The entry at turn serves the connection link.
LEMMA Turn ==
  ASSUME IInv, Reading \/ Writing, cur.type # "LISTEN"
  PROVE  /\ round.i \in Live /\ round.i \in Entries /\ RoundOK(round)
         /\ link \in Conns /\ conn[link].server = "open"
         /\ Ent(link) = cur /\ cur = entry[round.i]
         /\ DOMAIN cur = EntryFields
<1>1. round.i \in Live /\ RoundOK(round) /\ DOMAIN cur = EntryFields
  BY AtTurn DEF Live
<1>2. LinksOK
  BY Links
<1>3. QED
  BY <1>1, <1>2 DEF LinksOK, cur, link

\* A connection without an entry.
LEMMA NotServed == \A k \in Conns : conn[k].server # "open" => Ent(k) = NoEntry
BY DEF Ent

\* A step that keeps the descriptors and the states of connections keeps which
\* entry serves which connection.
LEMMA EntriesStay ==
  ASSUME IInv, IInv', sock' = sock,
         \A k \in Conns : conn'[k].server = conn[k].server,
         \A i \in Entries : entry'[i].used = entry[i].used /\ entry'[i].fd = entry[i].fd
  PROVE  /\ \A i \in Live : \A k \in Conns : k = sock[entry[i].fd] => Ent(k)' = entry'[i]
         /\ \A k \in Conns : conn[k].server # "open" => Ent(k)' = Ent(k)
<1>1. LinksOK /\ LinksOK'
  BY Links, LinksNext
<1>2. Live' = Live
  BY DEF Live, UsedEntries
<1>3. \A i \in Live : \A k \in Conns : k = sock[entry[i].fd] => Ent(k)' = entry'[i]
  <2>1. SUFFICES ASSUME NEW i \in Live, NEW k \in Conns, k = sock[entry[i].fd]
                 PROVE  Ent(k)' = entry'[i]
    OBVIOUS
  <2>2. i \in Live' /\ i \in Entries /\ sock'[entry'[i].fd] = k
    BY <1>1, <1>2, <2>1 DEF LinksOK
  <2>3. QED
    BY <1>1, <2>2 DEF LinksOK
<1>4. \A k \in Conns : conn[k].server # "open" => Ent(k)' = Ent(k)
  <2>1. NoEntry' = NoEntry
    BY DEF NoEntry
  <2>2. QED
    BY <2>1 DEF Ent
<1>5. QED
  BY <1>3, <1>4

\* The listening entry has nothing to write.
LEMMA WriterServes == ASSUME IInv, Writing PROVE cur.type # "LISTEN"
<1>1. HasToWrite(round, cur) /\ Listen \notin round.wset
  BY DEF IInv, RoundInv, AtWork, Writing, cur, RoundOK
<1>2. cur.fd # Listen
  BY <1>1 DEF HasToWrite
<1>3. QED
  BY <1>2, AtTurn DEF IInv, TableInv, cur

\* A step of the entry at turn that keeps it.
LEMMA TurnKept ==
  ASSUME IInv, IInv', Reading \/ Writing, cur.type # "LISTEN", sock' = sock,
         \A m \in Conns : conn'[m].server = conn[m].server,
         NEW e, entry' = [entry EXCEPT ![round.i] = e], e.used = cur.used, e.fd = cur.fd,
         NEW k, k = link
  PROVE  Ent(k)' = e /\ \A m \in Conns \ {k} : Ent(m)' = Ent(m)
<1>1. /\ round.i \in Live /\ round.i \in Entries /\ k \in Conns /\ k = sock[entry[round.i].fd]
      /\ cur = entry[round.i]
  BY Turn DEF link
<1>2. LinksOK /\ DOMAIN entry = Entries
  BY Links DEF IInv, TableInv
<1>3. entry'[round.i] = e /\ \A i \in Entries \ {round.i} : entry'[i] = entry[i]
  BY <1>1, <1>2
<1>4. /\ \A i \in Live : \A m \in Conns : m = sock[entry[i].fd] => Ent(m)' = entry'[i]
      /\ \A m \in Conns : conn[m].server # "open" => Ent(m)' = Ent(m)
  BY <1>1, <1>3, EntriesStay
<1>5. Ent(k)' = e
  BY <1>1, <1>3, <1>4
<1>6. ASSUME NEW m \in Conns \ {k} PROVE Ent(m)' = Ent(m)
  <2>1. CASE conn[m].server = "open"
    <3>1. PICK i \in Live : sock[entry[i].fd] = m /\ Ent(m) = entry[i]
      BY <1>2, <2>1 DEF LinksOK
    <3>2. i # round.i /\ i \in Entries
      BY <1>1, <1>2, <3>1 DEF LinksOK
    <3>3. QED
      BY <1>3, <1>4, <3>1, <3>2
  <2>2. QED
    BY <1>4, <2>1
<1>7. QED
  BY <1>5, <1>6

\* The entry at turn is given up and its connection closed; the others stay
\* where they are.
LEMMA TurnGone ==
  ASSUME IInv, IInv', Reading \/ Writing, cur.type # "LISTEN", CloseFd,
         DOMAIN entry' = Entries, entry'[round.i] = NoEntry,
         \A i \in Entries \ {round.i} : entry'[i].used = entry[i].used /\ entry'[i].fd = entry[i].fd,
         NEW k, k = link
  PROVE  /\ Ent(k)' = NoEntry /\ Kind(k)' = "gone" /\ conn'[k] = ServerClosed(conn[k])
         /\ \A m \in Conns \ {k} :
              /\ conn'[m] = conn[m]
              /\ conn[m].server # "open" => Ent(m)' = Ent(m)
              /\ conn[m].server = "open" => \E i \in Live : /\ i \in Entries \ {round.i}
                                                            /\ Ent(m) = entry[i] /\ Ent(m)' = entry'[i]
<1>1. /\ round.i \in Live /\ round.i \in Entries /\ k \in Conns /\ k = sock[entry[round.i].fd]
      /\ cur = entry[round.i]
  BY Turn DEF link
<1>2. LinksOK /\ LinksOK' /\ DOMAIN conn = Conns
  BY Links, LinksNext DEF IInv, NetInv
<1>3. conn'[k] = ServerClosed(conn[k]) /\ \A m \in Conns \ {k} : conn'[m] = conn[m]
  BY <1>1, <1>2 DEF CloseFd
<1>4. Ent(k)' = NoEntry /\ Kind(k)' = "gone"
  <2>1. conn'[k].server \in {"closed", "none"}
    BY <1>3 DEF ServerClosed, NoConn
  <2>2. NoEntry' = NoEntry
    BY DEF NoEntry
  <2>3. QED
    BY <2>1, <2>2 DEF Ent, Kind
<1>5. sock' = [sock EXCEPT ![cur.fd] = 0] /\ sock \in [Fds -> Conns \cup {0}]
  BY DEF CloseFd, IInv, TableInv
<1>6. ASSUME NEW m \in Conns \ {k}, conn[m].server = "open"
      PROVE  \E i \in Live : i \in Entries \ {round.i} /\ Ent(m) = entry[i] /\ Ent(m)' = entry'[i]
  <2>1. PICK i \in Live : sock[entry[i].fd] = m /\ Ent(m) = entry[i]
    BY <1>2, <1>6 DEF LinksOK
  <2>2. i \in Entries /\ i # round.i /\ i # 0
    BY <1>1, <1>2, <2>1 DEF LinksOK
  <2>3. i \in Live'
    BY <2>1, <2>2 DEF Live, UsedEntries
  <2>4. entry'[i].fd = entry[i].fd /\ entry[i].fd # cur.fd /\ entry[i].fd \in Fds
    BY <1>1, <1>2, <2>1, <2>2 DEF LinksOK
  <2>5. sock'[entry'[i].fd] = m
    BY <1>5, <2>1, <2>4
  <2>6. Ent(m)' = entry'[i]
    BY <1>2, <2>3, <2>5 DEF LinksOK
  <2>7. QED
    BY <2>1, <2>2, <2>6
<1>7. \A m \in Conns \ {k} : conn[m].server # "open" => Ent(m)' = Ent(m)
  <2>1. NoEntry' = NoEntry
    BY DEF NoEntry
  <2>2. QED
    BY <1>3, <2>1 DEF Ent
<1>8. QED
  BY <1>3, <1>4, <1>6, <1>7

\* accept gives the first waiting connection an entry that holds nothing yet.
LEMMA AcceptView ==
  ASSUME IInv, IInv', Accept, NEW k, k = Head(backlog)
  PROVE  /\ k \in Conns /\ conn[k].server = "backlog" /\ Ent(k) = NoEntry
         /\ conn'[k] = [conn[k] EXCEPT !.server = "open"]
         /\ \E f \in Fds : Ent(k)' = [NoEntry EXCEPT !.used = TRUE, !.fd = f]
         /\ \A m \in Conns \ {k} : conn'[m] = conn[m] /\ Ent(m)' = Ent(m)
<1> USE DEF IInv
<1> DEFINE f == Least({g \in Fds : sock[g] = 0})
           s == Slot
<1>1. Reading /\ cur.type = "LISTEN" /\ round.i = 0 /\ backlog # <<>>
  BY AtTurn DEF Accept, RoundInv
<1>2. k \in Conns /\ conn[k].server = "backlog" /\ Ent(k) = NoEntry
  <2>1. k \in Conns /\ conn[k].server = "backlog"
    BY <1>1 DEF NetInv
  <2>2. QED
    BY <2>1 DEF Ent
<1>3. f \in Fds /\ sock[f] = 0
  <2>1. {g \in Fds : sock[g] = 0} \in SUBSET Nat
    BY NetAssumption DEF Fds
  <2>2. QED
    BY <1>1, <2>1, FreeFd, LeastIs
<1>4. s \in Entries /\ s \notin UsedEntries /\ s # 0
  <2>0. size \in 1..MAX_FD /\ MAX_FD \in Nat
    BY NetAssumption DEF TableInv, MAX_FD
  <2>1. CASE Unused = {}
    <3>1. s = size /\ size < MAX_FD
      BY <1>3, <2>0, <2>1, FreeEntry DEF Slot
    <3>2. \A i \in UsedEntries : i < size
      BY DEF TableInv
    <3>3. QED
      BY <2>0, <3>1, <3>2 DEF Entries
  <2>2. CASE Unused # {}
    <3>1. Unused \in SUBSET Nat
      BY <2>0 DEF Unused
    <3>2. s \in Unused
      BY <2>2, <3>1, LeastIs DEF Slot
    <3>3. s \in Entries /\ ~entry[s].used
      BY <2>0, <3>2 DEF Unused, Entries
    <3>4. QED
      BY <3>3 DEF UsedEntries, TableInv
  <2>3. QED
    BY <2>1, <2>2
<1> DEFINE fresh == [NoEntry EXCEPT !.used = TRUE, !.fd = f]
<1>5. /\ entry' = [entry EXCEPT ![s] = fresh]
      /\ sock' = [sock EXCEPT ![f] = k]
      /\ conn' = [conn EXCEPT ![k].server = "open"]
  BY DEF Accept
<1>6. fresh.used = TRUE /\ fresh.fd = f
  BY DEF NoEntry
<1> HIDE DEF f, s, fresh
<1>7. /\ conn'[k] = [conn[k] EXCEPT !.server = "open"]
      /\ \A m \in Conns \ {k} : conn'[m] = conn[m]
  BY <1>2, <1>5 DEF NetInv
<1>8. entry'[s] = fresh /\ \A i \in Entries \ {s} : entry'[i] = entry[i]
  BY <1>4, <1>5 DEF TableInv
<1>9. sock'[f] = k /\ \A g \in Fds \ {f} : sock'[g] = sock[g]
  BY <1>3, <1>5 DEF TableInv
<1>10. LinksOK /\ LinksOK'
  BY Links, LinksNext
<1>11. Ent(k)' = fresh
  <2>1. s \in Live'
    BY <1>4, <1>6, <1>8 DEF Live, UsedEntries
  <2>2. QED
    BY <1>2, <1>6, <1>8, <1>9, <1>10, <2>1 DEF LinksOK
<1>12. ASSUME NEW m \in Conns \ {k} PROVE Ent(m)' = Ent(m)
  <2>1. CASE conn[m].server = "open"
    <3>1. PICK i \in Live : sock[entry[i].fd] = m /\ Ent(m) = entry[i]
      BY <1>10, <2>1 DEF LinksOK
    <3>2. i \in Entries /\ i # s /\ i \in Live' /\ entry[i].fd \in Fds
      BY <1>4, <1>8, <1>10, <3>1 DEF LinksOK, Live, UsedEntries
    <3>3. entry[i].fd # f
      BY <1>3, <3>1 DEF Conns
    <3>4. sock'[entry'[i].fd] = m
      BY <1>8, <1>9, <3>1, <3>2, <3>3
    <3>5. QED
      BY <1>8, <1>10, <3>1, <3>2, <3>4 DEF LinksOK
  <2>2. CASE conn[m].server # "open"
    <3>1. NoEntry' = NoEntry
      BY DEF NoEntry
    <3>2. QED
      BY <1>7, <2>2, <3>1 DEF Ent
  <2>3. QED
    BY <2>1, <2>2
<1>13. QED
  BY <1>2, <1>3, <1>7, <1>11, <1>12 DEF fresh

\* What clients do changes no entry.
LEMMA ClientsView ==
  ASSUME IInv, IInv', UNCHANGED serverVars,
         \A k \in Conns : conn'[k].server = "open" <=> conn[k].server = "open"
  PROVE  \A k \in Conns : Ent(k)' = Ent(k)
<1>1. UNCHANGED <<entry, sock>>
  BY DEF serverVars
<1>2. LinksOK /\ LinksOK' /\ Live' = Live
  BY <1>1, Links, LinksNext DEF Live, UsedEntries
<1>3. ASSUME NEW k \in Conns PROVE Ent(k)' = Ent(k)
  <2>1. CASE conn[k].server = "open"
    <3>1. PICK i \in Live : sock[entry[i].fd] = k /\ Ent(k) = entry[i]
      BY <1>2, <2>1 DEF LinksOK
    <3>2. QED
      BY <1>1, <1>2, <3>1 DEF LinksOK
  <2>2. CASE conn[k].server # "open"
    <3>1. NoEntry' = NoEntry
      BY DEF NoEntry
    <3>2. QED
      BY <2>2, <3>1 DEF Ent
  <2>3. QED
    BY <2>1, <2>2
<1>4. QED
  BY <1>3

-----------------------------------------------------------------------------
(* The snapshot                                                            *)

\* A turn leads to a turn of a later entry, or to the write half of the same one,
\* with the same snapshot.
LEMMA LaterTurn ==
  ASSUME NEW r, NEW table, NEW v, RoundOK(r), v = AfterRead(r, table) \/ v = AfterWrite(r, table)
  PROVE  /\ v.half # "select" => /\ v.rset = r.rset /\ v.i \in Nat /\ v.i >= r.i
                                 /\ v.half = "read" => v.i > r.i
         /\ r \in Round => v \in Round
<1>0. r.i \in Nat /\ r.i + 1 \in Nat /\ MAX_FD \in Nat /\ r.chk_size \in 1..MAX_FD
  BY NetAssumption DEF RoundOK, Entries, MAX_FD
<1>1. CASE v = VisitFrom(r, table, r.i + 1)
  <2> DEFINE todo == {j \in (r.i + 1)..(r.chk_size - 1) :
                        HasToRead(r, table[j]) \/ HasToWrite(r, table[j])}
             j == Least(todo)
  <2>1. CASE todo = {}
    <3>1. v = [half |-> "select"]
      BY <1>1, <2>1 DEF VisitFrom
    <3>2. QED
      BY <3>1 DEF Round
  <2>2. CASE todo # {}
    <3>1. todo \in SUBSET Nat
      BY <1>0
    <3>2. j \in todo
      BY <2>2, <3>1, LeastIs
    <3>3. j \in Nat /\ j \in Entries /\ j > r.i
      BY <1>0, <3>2 DEF Entries
    <3>4. v = [r EXCEPT !.i = j, !.half = IF HasToRead(r, table[j]) THEN "read" ELSE "write"]
      BY <1>1, <2>2 DEF VisitFrom
    <3> HIDE DEF j
    <3>5. v.rset = r.rset /\ v.i = j
      BY <3>4 DEF RoundOK, RoundFields
    <3>6. r \in Round => v \in Round
      <4>1. SUFFICES ASSUME r \in Round PROVE v \in Round
        OBVIOUS
      <4>2. r \in [half : {"read", "write"}, i : Entries, chk_size : 1..MAX_FD,
                   rset : SUBSET (Fds \cup {Listen}), wset : SUBSET Fds]
        BY <4>1 DEF Round, RoundOK, RoundFields
      <4>3. QED
        BY <3>3, <3>4, <4>2 DEF Round
    <3>7. QED
      BY <1>0, <3>3, <3>5, <3>6
  <2>3. QED
    BY <2>1, <2>2
<1>2. CASE v = [r EXCEPT !.half = "write"]
  <2>1. v.rset = r.rset /\ v.i = r.i /\ v.half = "write"
    BY <1>2 DEF RoundOK, RoundFields
  <2>2. r \in Round => v \in Round
    <3>1. SUFFICES ASSUME r \in Round PROVE v \in Round
      OBVIOUS
    <3>2. r \in [half : {"read", "write"}, i : Entries, chk_size : 1..MAX_FD,
                 rset : SUBSET (Fds \cup {Listen}), wset : SUBSET Fds]
      BY <3>1 DEF Round, RoundOK, RoundFields
    <3>3. QED
      BY <1>2, <3>2 DEF Round
  <2>3. QED
    BY <1>0, <2>1, <2>2
<1>3. QED
  BY <1>1, <1>2 DEF AfterRead, AfterWrite

\* A step that leaves alone the entries that are still to be visited.
LEMMA SnapTurn ==
  ASSUME IInv, SnapInv, Reading \/ Writing,
         NEW r, RoundOK(r), r.i = round.i, r.rset = round.rset,
         round' = AfterRead(r, entry') \/ round' = AfterWrite(r, entry'),
         \A j \in Live' : j > round.i /\ entry'[j].fd \in round.rset =>
           /\ j \in Live /\ entry'[j].fd = entry[j].fd
           /\ sock'[entry[j].fd] = sock[entry[j].fd]
           /\ conn'[sock[entry[j].fd]] = conn[sock[entry[j].fd]]
  PROVE  SnapInv'
<1>0. r.i \in Nat
  BY NetAssumption DEF RoundOK, Entries, MAX_FD
<1>1. round'.half # "select" => /\ round'.rset = round.rset
                                /\ round'.i \in Nat /\ round'.i >= round.i
                                /\ round'.half = "read" => round'.i > round.i
  BY LaterTurn
<1>2. ASSUME NEW j \in Live', round'.half # "select", entry'[j].fd \in round'.rset,
             j > round'.i \/ (Reading' /\ j = round'.i)
      PROVE  CanRead(entry[j].fd)' /\ entry'[j].fd = entry[j].fd
  <2>1. j > round.i
    <3>1. j \in Int
      BY NetAssumption DEF Live, UsedEntries, Entries, MAX_FD
    <3>2. QED
      BY <1>0, <1>1, <1>2, <3>1 DEF Reading
  <2>2. /\ j \in Live /\ entry'[j].fd = entry[j].fd
        /\ sock'[entry[j].fd] = sock[entry[j].fd]
        /\ conn'[sock[entry[j].fd]] = conn[sock[entry[j].fd]]
    BY <1>1, <1>2, <2>1
  <2>3. CanRead(entry[j].fd)
    BY <1>1, <1>2, <2>1, <2>2 DEF SnapInv, Reading, Writing
  <2>4. entry[j].fd # Listen
    BY <2>2, Links DEF LinksOK, Fds, Listen
  <2>5. QED
    BY <2>2, <2>3, <2>4 DEF CanRead
<1>3. ~(Reading' /\ round'.i = 0)
  BY <1>0, <1>1 DEF Reading
<1>4. QED
  BY <1>2, <1>3 DEF SnapInv

\* The steps of the server keep the snapshot valid.
LEMMA SnapServer == IInv /\ IInv' /\ SnapInv /\ Server => SnapInv'
<1> SUFFICES ASSUME IInv, IInv', SnapInv, Server PROVE SnapInv'
  OBVIOUS
<1>0. LinksOK /\ LinksOK'
  BY Links, LinksNext
<1>1. CASE Select
  <2> DEFINE r == [half |-> "read", i |-> 0, chk_size |-> size,
                   rset |-> {f \in allRset : CanRead(f)},
                   wset |-> {f \in allWset : CanWrite(f)}]
  <2>1. round' = VisitFrom(r, entry, 0) /\ UNCHANGED <<entry, sock, allRset, conn, backlog>>
    BY <1>1 DEF Select, netVars
  <2>2. round'.half # "select" => round'.rset = r.rset
    BY <2>1 DEF VisitFrom
  <2>3. \A f : CanRead(f)' <=> CanRead(f)
    BY <2>1 DEF CanRead
  <2>4. Live' = Live
    BY <2>1 DEF Live, UsedEntries
  <2>5. QED
    BY <2>1, <2>2, <2>3, <2>4 DEF SnapInv
<1>2. CASE Accept
  <2>1. Reading /\ round.i = 0 /\ RoundOK(round) /\ cur.type = "LISTEN"
    BY <1>2, AtTurn DEF Accept
  <2>2. PICK f, s : /\ f \in Fds /\ sock[f] = 0
                     /\ entry' = [entry EXCEPT ![s] = [NoEntry EXCEPT !.used = TRUE, !.fd = f]]
                     /\ sock' = [sock EXCEPT ![f] = Head(backlog)]
                     /\ conn' = [conn EXCEPT ![Head(backlog)].server = "open"]
                     /\ round' = AfterRead(round, entry')
                     /\ Head(backlog) \in Conns /\ conn[Head(backlog)].server = "backlog"
    <3>1. backlog # <<>>
      BY <2>1 DEF IInv, RoundInv
    <3>2. {g \in Fds : sock[g] = 0} # {} /\ {g \in Fds : sock[g] = 0} \in SUBSET Nat
      BY <3>1, FreeFd, NetAssumption DEF Fds, IInv
    <3>3. Least({g \in Fds : sock[g] = 0}) \in {g \in Fds : sock[g] = 0}
      BY <3>2, LeastIs
    <3>4. Head(backlog) \in Conns /\ conn[Head(backlog)].server = "backlog"
      BY <3>1 DEF IInv, NetInv
    <3>5. QED
      BY <1>2, <3>3, <3>4 DEF Accept
  <2>3. f \notin round.rset
    <3>1. f \notin allRset
      BY <2>2 DEF IInv, TablesAgree, Fds, Listen
    <3>2. QED
      BY <2>1, <3>1 DEF SnapInv, Reading
  <2>4. ASSUME NEW j \in Live', entry'[j].fd \in round.rset
        PROVE  /\ j \in Live /\ entry'[j].fd = entry[j].fd
               /\ sock'[entry[j].fd] = sock[entry[j].fd]
               /\ conn'[sock[entry[j].fd]] = conn[sock[entry[j].fd]]
    <3>1. j \in Entries /\ j # 0 /\ entry'[j].used
      BY <1>0 DEF LinksOK, Live, UsedEntries
    <3>2. entry'[j] = entry[j]
      <4>1. CASE j = s
        <5>1. entry'[j] = [NoEntry EXCEPT !.used = TRUE, !.fd = f]
          BY <2>2, <3>1, <4>1 DEF IInv, TableInv
        <5>2. entry'[j].fd = f
          BY <5>1 DEF NoEntry
        <5>3. QED
          BY <2>3, <2>4, <5>2
      <4>2. QED
        BY <2>2, <3>1, <4>1 DEF IInv, TableInv
    <3>3. j \in Live
      BY <3>1, <3>2 DEF Live, UsedEntries
    <3>4. entry[j].fd # f
      BY <2>3, <2>4, <3>2
    <3>5. entry[j].fd \in Fds /\ conn[sock[entry[j].fd]].server = "open"
      BY <1>0, <3>3 DEF LinksOK
    <3>6. sock'[entry[j].fd] = sock[entry[j].fd]
      BY <2>2, <3>4, <3>5 DEF IInv, TableInv
    <3>7. sock[entry[j].fd] # Head(backlog)
      BY <2>2, <3>5
    <3>8. conn'[sock[entry[j].fd]] = conn[sock[entry[j].fd]]
      BY <1>0, <2>2, <3>3, <3>7 DEF IInv, NetInv, LinksOK
    <3>9. QED
      BY <3>2, <3>3, <3>6, <3>8
  <2>5. QED
    BY <2>1, <2>2, <2>4, SnapTurn
<1>3. CASE HangUp \/ EndGet \/ StoreFile
  <2>1. /\ (Reading \/ Writing) /\ cur.type # "LISTEN" /\ CloseFd
        /\ round' = AfterRead(round, entry') \/ round' = AfterWrite(round, entry')
    BY <1>3 DEF HangUp, EndGet, StoreFile
  <2>2. /\ round.i \in Live /\ round.i \in Entries /\ RoundOK(round)
        /\ link \in Conns /\ cur = entry[round.i] /\ link = sock[entry[round.i].fd]
    BY <2>1, Turn DEF link
  <2>3. \A j \in Entries \ {round.i} : entry'[j].used = entry[j].used /\ entry'[j].fd = entry[j].fd
    <3>1. CASE HangUp \/ EndGet
      BY <3>1 DEF HangUp, EndGet, Removed, IInv, TableInv
    <3>2. CASE StoreFile
      <4> DEFINE told == [i \in DOMAIN entry |-> IF IsTold(entry[i], cur.name)
                                                   THEN Listed(entry[i], files') ELSE entry[i]]
      <4>1. entry' = [told EXCEPT ![round.i] = NoEntry]
        BY <3>2 DEF StoreFile, Removed
      <4>2. ASSUME NEW j \in Entries \ {round.i}
            PROVE  entry'[j].used = entry[j].used /\ entry'[j].fd = entry[j].fd
        <5>1. entry'[j] = told[j] /\ DOMAIN entry[j] = EntryFields /\ j \in DOMAIN entry
          BY <4>1 DEF IInv, TableInv
        <5>2. told[j] = entry[j] \/ told[j] = SetData(entry[j], ListOf(files'[entry[j].name]))
          BY <5>1 DEF Listed
        <5>3. QED
          BY <5>1, <5>2, SetDataKeeps
      <4>3. QED
        BY <4>2
    <3>3. QED
      BY <1>3, <3>1, <3>2
  <2>4. ASSUME NEW j \in Live', j > round.i
        PROVE  /\ j \in Live /\ entry'[j].fd = entry[j].fd
               /\ sock'[entry[j].fd] = sock[entry[j].fd]
               /\ conn'[sock[entry[j].fd]] = conn[sock[entry[j].fd]]
    <3>1. j \in Entries /\ j # 0 /\ entry'[j].used /\ j # round.i
      BY <1>0, <2>2, <2>4, NetAssumption DEF LinksOK, Live, UsedEntries, Entries, MAX_FD
    <3>2. j \in Live /\ entry'[j].fd = entry[j].fd
      BY <2>3, <3>1 DEF Live, UsedEntries
    <3>3. /\ entry[j].fd # cur.fd /\ sock[entry[j].fd] # link
          /\ entry[j].fd \in Fds /\ sock[entry[j].fd] \in Conns
      BY <1>0, <2>2, <3>1, <3>2 DEF LinksOK
    <3>4. QED
      BY <2>1, <3>2, <3>3 DEF CloseFd, IInv, TableInv, NetInv
  <2>5. QED
    BY <2>1, <2>2, <2>4, SnapTurn
<1>4. CASE ReadPart \/ Login \/ Get \/ Put \/ Flush \/ FlushToNobody
  <2>1. (Reading \/ Writing) /\ sock' = sock
    BY <1>4 DEF ReadPart, Login, Get, Put, Flush, FlushToNobody, ReadHeader
  <2>1a. cur.type # "LISTEN"
    <3>1. CASE Flush \/ FlushToNobody
      BY <3>1, WriterServes DEF Flush, FlushToNobody
    <3>2. CASE ReadPart \/ Login \/ Get \/ Put
      BY <3>2 DEF ReadPart, Login, Get, Put, ReadHeader, ExpectsHeader
    <3>3. QED
      BY <1>4, <3>1, <3>2
  <2>2. /\ round.i \in Live /\ round.i \in Entries /\ RoundOK(round)
        /\ link \in Conns /\ cur = entry[round.i] /\ link = sock[entry[round.i].fd]
    BY <2>1, <2>1a, Turn DEF link
  <2>3. PICK r : /\ RoundOK(r) /\ r.i = round.i /\ r.rset = round.rset
                 /\ round' = AfterRead(r, entry') \/ round' = AfterWrite(r, entry')
    <3>1. CASE Put
      <4> DEFINE r == [round EXCEPT !.wset = @ \ {cur.fd}]
      <4>1. RoundOK(r) /\ r.i = round.i /\ r.rset = round.rset
        BY <2>2 DEF RoundOK, RoundFields
      <4>2. QED
        BY <3>1, <4>1 DEF Put
    <3>2. CASE ~Put
      BY <1>4, <2>2, <3>2 DEF ReadPart, Login, Get, Flush, FlushToNobody
    <3>3. QED
      BY <3>1, <3>2
  <2>4. /\ DOMAIN entry' = Entries
        /\ \A j \in Entries \ {round.i} : entry'[j] = entry[j]
        /\ \A m \in Conns \ {link} : conn'[m] = conn[m]
    BY <1>4 DEF ReadPart, Login, Get, Put, Flush, FlushToNobody, ReadHeader, Taken, netVars,
                IInv, TableInv, NetInv
  <2>5. ASSUME NEW j \in Live', j > round.i
        PROVE  /\ j \in Live /\ entry'[j].fd = entry[j].fd
               /\ sock'[entry[j].fd] = sock[entry[j].fd]
               /\ conn'[sock[entry[j].fd]] = conn[sock[entry[j].fd]]
    <3>1. j \in Entries /\ j # 0 /\ entry'[j].used /\ j # round.i
      BY <1>0, <2>2, <2>5, NetAssumption DEF LinksOK, Live, UsedEntries, Entries, MAX_FD
    <3>2. j \in Live /\ entry'[j].fd = entry[j].fd
      BY <2>4, <3>1 DEF Live, UsedEntries
    <3>3. sock[entry[j].fd] # link /\ sock[entry[j].fd] \in Conns
      BY <1>0, <2>2, <3>1, <3>2 DEF LinksOK
    <3>4. QED
      BY <2>1, <2>4, <3>2, <3>3
  <2>6. QED
    BY <2>1, <2>3, <2>5, SnapTurn
<1>5. QED
  BY <1>1, <1>2, <1>3, <1>4 DEF Server

\* So do clients that only send more or close.
LEMMA SnapClients ==
  ASSUME IInv, SnapInv, UNCHANGED serverVars,
         \A k \in Conns : conn[k].server = "open" /\ (conn[k].up # <<>> \/ ~conn[k].client) =>
                            conn'[k].up # <<>> \/ ~conn'[k].client
  PROVE  SnapInv'
<1>1. UNCHANGED <<entry, sock, round, allRset>> /\ Live' = Live
  BY DEF serverVars, Live, UsedEntries
<1>2. ASSUME NEW j \in Live, CanRead(entry[j].fd) PROVE CanRead(entry[j].fd)'
  <2>1. /\ entry[j].fd # Listen /\ sock[entry[j].fd] \in Conns
        /\ conn[sock[entry[j].fd]].server = "open"
    BY Links DEF LinksOK, Fds, Listen
  <2>2. QED
    BY <1>1, <1>2, <2>1 DEF CanRead
<1>3. QED
  BY <1>1, <1>2 DEF SnapInv, Reading

-----------------------------------------------------------------------------
(* Streams                                                                 *)

\* Moving the first n cells of one buffer to the end of another loses nothing.
MovedOK(a, u, n) ==
  /\ First(u, n) \in Seq(Cell) /\ Len(First(u, n)) = n
  /\ Without(u, n) \in Seq(Cell) /\ Len(Without(u, n)) = Len(u) - n
  /\ a \o First(u, n) \in Seq(Cell) /\ Len(a \o First(u, n)) = Len(a) + n
  /\ (a \o First(u, n)) \o Without(u, n) = a \o u
  /\ \A p \in 1..(Len(u) - n) : Without(u, n)[p] = (a \o u)[Len(a) + n + p]
  /\ \A p \in 1..(Len(a) + n) : (a \o First(u, n))[p] = (a \o u)[p]

\* Moving the first cells of one stream behind another changes neither the
\* cells nor their order: what a read of a part of a stream does.
LEMMA Moved ==
  ASSUME NEW a \in Seq(Cell), NEW u \in Seq(Cell), NEW n \in 0..Len(u)
  PROVE  MovedOK(a, u, n)
<1> DEFINE f == First(u, n)
           w == Without(u, n)
<1>0. Len(a) \in Nat /\ Len(u) \in Nat /\ n \in Nat /\ n <= Len(u)
  OBVIOUS
<1>1. /\ f \in Seq(Cell) /\ Len(f) = n /\ \A p \in 1..n : f[p] = u[p]
      /\ w \in Seq(Cell) /\ Len(w) = Len(u) - n /\ \A p \in 1..(Len(u) - n) : w[p] = u[n + p]
  BY DEF First, Without
<1>2. f \o w = u
  <2>1. 1 \in 1..(Len(u) + 1) /\ n \in (1 - 1)..Len(u) /\ Len(u) \in n..Len(u)
    BY <1>0
  <2>2. SubSeq(u, 1, n) \o SubSeq(u, n + 1, Len(u)) = SubSeq(u, 1, Len(u))
    BY <2>1, ConcatAdjacentSubSeq, Zenon
  <2>3. SubSeq(u, 1, Len(u)) = u
    BY SubSeqFull, Zenon
  <2>4. QED
    BY <2>2, <2>3 DEF First, Without
<1> HIDE DEF f, w
<1>3. /\ a \o f \in Seq(Cell) /\ Len(a \o f) = Len(a) + n
      /\ \A p \in 1..(Len(a) + n) : (a \o f)[p] = IF p <= Len(a) THEN a[p] ELSE f[p - Len(a)]
  BY <1>1, ConcatProperties, ZenonT(60)
<1>4. \A p \in 1..(Len(a) + Len(u)) : (a \o u)[p] = IF p <= Len(a) THEN a[p] ELSE u[p - Len(a)]
  BY ConcatProperties
<1>5. ASSUME NEW p \in 1..(Len(a) + n) PROVE (a \o f)[p] = (a \o u)[p]
  <2>1. p \in 1..(Len(a) + Len(u)) /\ (p > Len(a) => p - Len(a) \in 1..n)
    BY <1>0
  <2>2. QED
    BY <1>1, <1>3, <1>4, <2>1
<1>6. ASSUME NEW p \in 1..(Len(u) - n) PROVE w[p] = (a \o u)[Len(a) + n + p]
  <2> DEFINE q == Len(a) + n + p
  <2>1. q \in 1..(Len(a) + Len(u)) /\ ~(q <= Len(a)) /\ q - Len(a) = n + p
    BY <1>0
  <2> HIDE DEF q
  <2>2. (a \o u)[q] = u[q - Len(a)]
    BY <1>4, <2>1
  <2>3. QED
    BY <1>1, <2>1, <2>2 DEF q
<1>7. (a \o f) \o w = a \o u
  <2>0. f \in Seq(Cell) /\ w \in Seq(Cell)
    BY <1>1
  <2>a. \A r, s, t \in Seq(Cell) : (r \o s) \o t = r \o (s \o t)
    BY ConcatAssociative, SMTT(30)
  <2>1. (a \o f) \o w = a \o (f \o w)
    BY <2>0, <2>a
  <2>2. QED
    BY <1>2, <2>1
<1>8. QED
  BY <1>1, <1>3, <1>5, <1>6, <1>7 DEF f, w, MovedOK

\* What connections and their entries hold has the type it should have.
LEMMA Types ==
  ASSUME IInv, SystemTypes, NEW k \in Conns
  PROVE  /\ conn[k] \in Connection /\ Ent(k) \in TableEntry
         /\ conn[k].up \in Seq(Cell) /\ conn[k].down \in Seq(Cell)
         /\ Ent(k).rbuf \in Seq(Cell) /\ Ent(k).wbuf \in Seq(Cell)
         /\ Stream(k) \in Seq(Cell) /\ Len(Stream(k)) = Len(Ent(k).rbuf) + Len(conn[k].up)
         /\ conn[k].server = "open" => Kind(k) = Ent(k).type
<1>1. conn[k] \in Connection
  BY DEF SystemTypes
<1>2. Ent(k) \in TableEntry
  <2>1. NoEntry \in TableEntry
    BY DEF NoEntry, TableEntry
  <2>2. CASE conn[k].server = "open"
    <3>1. PICK i \in Live : Ent(k) = entry[i]
      BY <2>2, Links DEF LinksOK
    <3>2. i \in Entries
      BY <3>1 DEF Live, UsedEntries
    <3>3. QED
      BY <3>1, <3>2 DEF SystemTypes
  <2>3. QED
    BY <2>1, <2>2 DEF Ent
<1>3. /\ conn[k].up \in Seq(Cell) /\ conn[k].down \in Seq(Cell)
      /\ Ent(k).rbuf \in Seq(Cell) /\ Ent(k).wbuf \in Seq(Cell)
  BY <1>1, <1>2 DEF Connection, TableEntry
<1>4. Stream(k) \in Seq(Cell) /\ Len(Stream(k)) = Len(Ent(k).rbuf) + Len(conn[k].up)
  BY <1>3, ConcatProperties DEF Stream
<1>5. QED
  BY <1>1, <1>2, <1>3, <1>4 DEF Kind

\* A header takes the first cells of what was read and of what comes.
HeaderOK(a, u, w) ==
  /\ Len(a \o u) >= HeaderCells
  /\ Without(u, w) \in Seq(Cell) /\ Len(Without(u, w)) = Len(a \o u) - HeaderCells
  /\ \A p \in 1..(Len(a \o u) - HeaderCells) : Without(u, w)[p] = (a \o u)[HeaderCells + p]
  /\ (a \o First(u, w))[HeaderCells] = (a \o u)[HeaderCells]
  /\ (a \o u)[HeaderCells] \in Cell

\* Reading the rest of a header leaves the stream without its first cells.
LEMMA HeaderSplit ==
  ASSUME NEW a \in Seq(Cell), NEW u \in Seq(Cell), NEW w,
         w = HeaderCells - Len(a), w \in 1..Smaller(w, Len(u))
  PROVE  HeaderOK(a, u, w)
<1>0. HeaderCells = 2 /\ Len(a) \in Nat /\ Len(u) \in Nat
  BY DEF HeaderCells
<1>1. w \in 0..Len(u) /\ Len(a) + w = 2 /\ w \in Nat /\ w <= Len(u)
  BY <1>0 DEF Smaller
<1> DEFINE s == a \o u
<1>2. s \in Seq(Cell) /\ Len(s) = Len(a) + Len(u)
  BY ConcatProperties
<1>3. MovedOK(a, u, w)
  BY <1>1, Moved
<1> HIDE DEF s
<1>4. /\ Without(u, w) \in Seq(Cell) /\ Len(Without(u, w)) = Len(u) - w
      /\ \A p \in 1..(Len(u) - w) : Without(u, w)[p] = s[Len(a) + w + p]
      /\ \A p \in 1..(Len(a) + w) : (a \o First(u, w))[p] = s[p]
  BY <1>3 DEF MovedOK, s
<1>5. Len(s) >= 2 /\ Len(u) - w = Len(s) - 2 /\ 2 \in 1..Len(s) /\ 2 \in 1..(Len(a) + w)
  BY <1>0, <1>1, <1>2
<1>6. s[2] \in Cell
  BY <1>2, <1>5, ElementOfSeq
<1>7. QED
  BY <1>0, <1>1, <1>4, <1>5, <1>6 DEF HeaderOK, s

\* A header is read of a connection of which nothing is known yet.
LEMMA HeaderView ==
  ASSUME ProtoInv, NEW t, ReadHeader(t), NEW k, k = link
  PROVE  /\ Reading /\ cur.type # "LISTEN"
         /\ k \in Conns /\ conn[k].server = "open" /\ Kind(k) = "NONE" /\ Ent(k) = cur
         /\ IsRequest(Stream(k)) /\ Header = Stream(k)[2] /\ Header.t = t /\ Header \in Cell
         /\ conn[k].down = <<>> /\ Ent(k).wbuf = <<>>
         /\ \A m \in Conns \ {k} : conn'[m] = conn[m]
         /\ conn'[k] = [conn[k] EXCEPT !.up = conn'[k].up]
         /\ conn'[k].up \in Seq(Cell) /\ Len(conn'[k].up) = Len(Stream(k)) - HeaderCells
         /\ \A p \in 1..(Len(Stream(k)) - HeaderCells) : conn'[k].up[p] = Stream(k)[HeaderCells + p]
<1>1. Reading /\ cur.type \in {"NONE", "CMD"} /\ ExpectsHeader
  BY DEF ReadHeader, ExpectsHeader
<1>2. /\ k \in Conns /\ conn[k].server = "open" /\ Ent(k) = cur /\ IInv /\ SystemTypes /\ StreamOK(k)
      /\ DOMAIN cur = EntryFields
  BY <1>1, Turn DEF ProtoInv, StreamInv
<1> DEFINE a == Ent(k).rbuf
           u == conn[k].up
<1>3. /\ conn[k] \in Connection /\ u \in Seq(Cell) /\ a \in Seq(Cell)
      /\ Kind(k) = cur.type /\ Stream(k) = a \o u
  BY <1>2, Types DEF Stream
<1>4. Wanted = HeaderCells - Len(a) /\ Wanted \in 1..Smaller(Wanted, Len(u))
  BY <1>1, <1>2 DEF Wanted, ReadHeader, ReadSizes
<1> HIDE DEF a, u
<1>5a. HeaderOK(a, u, Wanted)
  BY <1>3, <1>4, HeaderSplit
<1>5. /\ Len(Stream(k)) >= HeaderCells
      /\ Without(u, Wanted) \in Seq(Cell)
      /\ Len(Without(u, Wanted)) = Len(Stream(k)) - HeaderCells
      /\ \A p \in 1..(Len(Stream(k)) - HeaderCells) : Without(u, Wanted)[p] = Stream(k)[HeaderCells + p]
      /\ (a \o First(u, Wanted))[HeaderCells] = Stream(k)[HeaderCells]
      /\ Stream(k)[HeaderCells] \in Cell
  BY <1>3, <1>5a DEF HeaderOK
<1>6. Kind(k) = "NONE"
  <2>1. Stream(k) # <<>>
    BY <1>5 DEF HeaderCells
  <2>2. Kind(k) # "CMD"
    BY <1>2, <2>1 DEF StreamOK
  <2>3. QED
    BY <1>1, <1>3, <2>2
<1>7. IsRequest(Stream(k)) /\ conn[k].down = <<>> /\ Ent(k).wbuf = <<>>
  BY <1>2, <1>6 DEF StreamOK
<1>8. Header = Stream(k)[2] /\ Header.t = t /\ Header \in Cell
  <2>1. Header = (a \o First(u, Wanted))[2] /\ Header.t = t
    BY <1>2 DEF Header, Got, HeaderCells, ReadHeader, a, u
  <2>2. QED
    BY <1>5, <2>1 DEF HeaderCells
<1>9. conn' = [conn EXCEPT ![k].up = Without(u, Wanted)]
  BY DEF ReadHeader, Taken, u
<1>10. /\ conn'[k] = [conn[k] EXCEPT !.up = Without(u, Wanted)]
       /\ \A m \in Conns \ {k} : conn'[m] = conn[m]
  BY <1>2, <1>9 DEF IInv, NetInv
<1>11. conn'[k].up = Without(u, Wanted)
  BY <1>3, <1>10 DEF Connection
<1>12. QED
  BY <1>1, <1>2, <1>5, <1>6, <1>7, <1>8, <1>10, <1>11

\* A login, a download and an upload: what the connection is afterwards.
LEMMA LoginView ==
  ASSUME ProtoInv, IInv', Login, NEW k, k = link
  PROVE  /\ conn'[k].server = "open" /\ conn'[k].client = conn[k].client
         /\ Len(conn'[k].up) = Len(Stream(k)) - HeaderCells /\ conn'[k].up \in Seq(Cell)
         /\ conn'[k].down = <<>>
         /\ Ent(k)'.type = "CMD" /\ Ent(k)'.name = Header.user
         /\ Ent(k)'.rbuf = <<>> /\ Ent(k)'.wbuf = ListOf(files[Header.user])
         /\ \A m \in Conns \ {k} : conn'[m] = conn[m] /\ Ent(m)' = Ent(m)
<1> DEFINE e == Listed([cur EXCEPT !.name = Header.user, !.type = "CMD", !.rbuf = <<>>], files)
<1>1. ReadHeader("LOGIN") /\ entry' = [entry EXCEPT ![round.i] = e] /\ sock' = sock /\ IInv
  BY DEF Login, cur, ProtoInv
<1>2. /\ Reading /\ cur.type # "LISTEN"
      /\ k \in Conns /\ conn[k].server = "open" /\ Ent(k) = cur
      /\ conn[k].down = <<>> /\ Ent(k).wbuf = <<>>
      /\ \A m \in Conns \ {k} : conn'[m] = conn[m]
      /\ conn'[k] = [conn[k] EXCEPT !.up = conn'[k].up]
      /\ conn'[k].up \in Seq(Cell) /\ Len(conn'[k].up) = Len(Stream(k)) - HeaderCells
  BY <1>1, HeaderView
<1>3. DOMAIN conn[k] = ConnFields /\ DOMAIN cur = EntryFields
  BY <1>1, <1>2, AtTurn DEF IInv, NetInv
<1>4. /\ conn'[k].server = "open" /\ conn'[k].client = conn[k].client /\ conn'[k].down = <<>>
  BY <1>2, <1>3 DEF ConnFields
<1>5. /\ e.used = cur.used /\ e.fd = cur.fd /\ e.type = "CMD" /\ e.name = Header.user
      /\ e.rbuf = <<>> /\ e.wbuf = <<>> \o ListOf(files[Header.user])
  BY <1>2, <1>3 DEF Listed, SetData, EntryFields
<1> HIDE DEF e
<1>6. Ent(k)' = e /\ \A m \in Conns \ {k} : Ent(m)' = Ent(m)
  <2>1. \A m \in Conns : conn'[m].server = conn[m].server
    BY <1>2, <1>4
  <2>2. QED
    BY <1>1, <1>2, <1>5, <2>1, TurnKept, ZenonT(60)
<1>7. <<>> \o ListOf(files[Header.user]) = ListOf(files[Header.user])
  BY DEF ListOf
<1>8. QED
  BY <1>2, <1>4, <1>5, <1>6, <1>7

\* Get turns the connection into a download of the file on disk; nothing has
\* been written back on it yet.
LEMMA GetView ==
  ASSUME ProtoInv, IInv', Get, NEW k, k = link
  PROVE  /\ conn'[k].server = "open" /\ conn'[k].client = conn[k].client
         /\ Len(conn'[k].up) = Len(Stream(k)) - HeaderCells /\ conn'[k].up \in Seq(Cell)
         /\ conn'[k].down = <<>>
         /\ Ent(k)'.type = "GET" /\ Ent(k)'.name = Header.user /\ Ent(k)'.rbuf = <<>>
         /\ Ent(k)'.wbuf = <<>> \o OnDisk(Header.user, Header.meta.name)
         /\ \A m \in Conns \ {k} : conn'[m] = conn[m] /\ Ent(m)' = Ent(m)
<1> DEFINE e == SetData([cur EXCEPT !.name = Header.user, !.type = "GET", !.rbuf = <<>>],
                        OnDisk(Header.user, Header.meta.name))
<1>1. ReadHeader("GET") /\ entry' = [entry EXCEPT ![round.i] = e] /\ sock' = sock /\ IInv
  BY DEF Get, cur, ProtoInv
<1>2. /\ Reading /\ cur.type # "LISTEN"
      /\ k \in Conns /\ conn[k].server = "open" /\ Ent(k) = cur
      /\ conn[k].down = <<>> /\ Ent(k).wbuf = <<>>
      /\ \A m \in Conns \ {k} : conn'[m] = conn[m]
      /\ conn'[k] = [conn[k] EXCEPT !.up = conn'[k].up]
      /\ conn'[k].up \in Seq(Cell) /\ Len(conn'[k].up) = Len(Stream(k)) - HeaderCells
  BY <1>1, HeaderView
<1>3. DOMAIN conn[k] = ConnFields /\ DOMAIN cur = EntryFields
  BY <1>1, <1>2, AtTurn DEF IInv, NetInv
<1>4. /\ conn'[k].server = "open" /\ conn'[k].client = conn[k].client /\ conn'[k].down = <<>>
  BY <1>2, <1>3 DEF ConnFields
<1>5. /\ e.used = cur.used /\ e.fd = cur.fd /\ e.type = "GET" /\ e.name = Header.user
      /\ e.rbuf = <<>> /\ e.wbuf = <<>> \o OnDisk(Header.user, Header.meta.name)
  BY <1>2, <1>3 DEF SetData, EntryFields
<1> HIDE DEF e
<1>6. Ent(k)' = e /\ \A m \in Conns \ {k} : Ent(m)' = Ent(m)
  <2>1. \A m \in Conns : conn'[m].server = conn[m].server
    BY <1>2, <1>4
  <2>2. QED
    BY <1>1, <1>2, <1>5, <2>1, TurnKept, ZenonT(60)
<1>7. QED
  BY <1>2, <1>4, <1>5, <1>6

\* Put turns the connection into an upload; what followed the header is its
\* stream then.
LEMMA PutView ==
  ASSUME ProtoInv, IInv', Put, NEW k, k = link
  PROVE  /\ conn'[k].server = "open" /\ conn'[k].client = conn[k].client
         /\ Len(conn'[k].up) = Len(Stream(k)) - HeaderCells /\ conn'[k].up \in Seq(Cell)
         /\ \A p \in 1..(Len(Stream(k)) - HeaderCells) : conn'[k].up[p] = Stream(k)[HeaderCells + p]
         /\ conn'[k].down = <<>>
         /\ Ent(k)'.type = "PUT" /\ Ent(k)'.name = Header.user /\ Ent(k)'.meta = Header.meta
         /\ Ent(k)'.rbuf = <<>> /\ Ent(k)'.wbuf = <<>>
         /\ \A m \in Conns \ {k} : conn'[m] = conn[m] /\ Ent(m)' = Ent(m)
<1> DEFINE e == [cur EXCEPT !.name = Header.user, !.type = "PUT", !.rbuf = <<>>, !.meta = Header.meta]
<1>1. ReadHeader("PUT") /\ sock' = sock /\ IInv
  BY DEF Put, ProtoInv
<1>2. /\ Reading /\ cur.type # "LISTEN"
      /\ k \in Conns /\ conn[k].server = "open" /\ Ent(k) = cur
      /\ conn[k].down = <<>> /\ Ent(k).wbuf = <<>>
      /\ \A m \in Conns \ {k} : conn'[m] = conn[m]
      /\ conn'[k] = [conn[k] EXCEPT !.up = conn'[k].up]
      /\ conn'[k].up \in Seq(Cell) /\ Len(conn'[k].up) = Len(Stream(k)) - HeaderCells
      /\ \A p \in 1..(Len(Stream(k)) - HeaderCells) : conn'[k].up[p] = Stream(k)[HeaderCells + p]
  BY <1>1, HeaderView
<1>3. DOMAIN conn[k] = ConnFields /\ DOMAIN cur = EntryFields /\ DOMAIN entry = Entries /\ round.i \in Entries
  BY <1>1, <1>2, AtTurn DEF IInv, NetInv, TableInv
<1>3a. entry' = [entry EXCEPT ![round.i] = e]
  BY <1>3 DEF Put, cur
<1>4. /\ conn'[k].server = "open" /\ conn'[k].client = conn[k].client /\ conn'[k].down = <<>>
  BY <1>2, <1>3 DEF ConnFields
<1>5. /\ e.used = cur.used /\ e.fd = cur.fd /\ e.type = "PUT" /\ e.name = Header.user
      /\ e.rbuf = <<>> /\ e.wbuf = <<>> /\ e.meta = Header.meta
  BY <1>2, <1>3 DEF EntryFields
<1> HIDE DEF e
<1>6. Ent(k)' = e /\ \A m \in Conns \ {k} : Ent(m)' = Ent(m)
  <2>1. \A m \in Conns : conn'[m].server = conn[m].server
    BY <1>2, <1>4
  <2>2. QED
    BY <1>1, <1>2, <1>3a, <1>5, <2>1, TurnKept, ZenonT(60)
<1>7. QED
  BY <1>2, <1>4, <1>5, <1>6

\* A part of a header or of a file moves to the entry's buffer.
LEMMA ReadPartView ==
  ASSUME ProtoInv, IInv', ReadPart, NEW k, k = link
  PROVE  /\ k \in Conns /\ conn[k].server = "open" /\ Kind(k) \in {"NONE", "PUT"}
         /\ conn'[k].server = "open" /\ conn'[k].client = conn[k].client
         /\ conn'[k].down = conn[k].down
         /\ Ent(k)'.type = Ent(k).type /\ Ent(k)'.name = Ent(k).name
         /\ Ent(k)'.meta = Ent(k).meta /\ Ent(k)'.wbuf = Ent(k).wbuf
         /\ Stream(k)' = Stream(k) /\ Ent(k)'.rbuf \in Seq(Cell) /\ conn'[k].up \in Seq(Cell)
         /\ Kind(k) = "NONE" => Len(Ent(k)'.rbuf) < HeaderCells
         /\ \A m \in Conns \ {k} : conn'[m] = conn[m] /\ Ent(m)' = Ent(m)
<1>1. PICK n \in ReadSizes :
        /\ Patched(n, IF cur.type = "PUT" THEN cur.meta.size ELSE HeaderCells)
        /\ Taken(n)
        /\ entry' = [entry EXCEPT ![round.i].rbuf = Got(n)]
  BY DEF ReadPart
<1>2. /\ Reading /\ cur.type \in {"NONE", "CMD", "PUT"} /\ sock' = sock
      /\ IInv /\ SystemTypes
  BY DEF ReadPart, ProtoInv
<1>3. /\ k \in Conns /\ conn[k].server = "open" /\ Ent(k) = cur /\ StreamOK(k)
      /\ DOMAIN cur = EntryFields /\ round.i \in Entries
  BY <1>2, Turn DEF ProtoInv, StreamInv
<1> DEFINE a == Ent(k).rbuf
           u == conn[k].up
<1>4. /\ conn[k] \in Connection /\ u \in Seq(Cell) /\ a \in Seq(Cell)
      /\ Kind(k) = cur.type /\ Stream(k) = a \o u
  BY <1>2, <1>3, Types DEF Stream
<1>5. n \in 1..Len(u)
  <2>1. n \in 1..Smaller(Wanted, Len(u)) /\ Len(u) \in Nat
    BY <1>4 DEF ReadSizes
  <2>2. Wanted \in Int
    <3>1. Len(cur.rbuf) \in Nat
      BY <1>3, <1>4
    <3>2. QED
      BY <2>1, <3>1 DEF Wanted, HeaderCells
  <2>3. QED
    BY <2>1, <2>2 DEF Smaller
<1>6. Kind(k) \in {"NONE", "PUT"}
  <2>1. Kind(k) # "CMD"
    <3>1. Len(a \o u) = Len(a) + Len(u)
      BY <1>4, ConcatProperties
    <3>2. a \o u # <<>>
      BY <1>4, <1>5, <3>1
    <3>3. QED
      BY <1>3, <1>4, <3>2 DEF StreamOK
  <2>2. QED
    BY <1>2, <1>4, <2>1
<1>7. MovedOK(a, u, n)
  BY <1>4, <1>5, Moved
<1> DEFINE e == [cur EXCEPT !.rbuf = Got(n)]
<1>8. Got(n) = a \o First(u, n)
  BY <1>3 DEF Got
<1>9. conn' = [conn EXCEPT ![k].up = Without(u, n)]
  BY <1>1 DEF Taken
<1> HIDE DEF a, u
<1>10. /\ conn'[k] = [conn[k] EXCEPT !.up = Without(u, n)]
       /\ \A m \in Conns \ {k} : conn'[m] = conn[m]
  BY <1>3, <1>9 DEF IInv, NetInv, ProtoInv
<1>11. /\ conn'[k].server = "open" /\ conn'[k].client = conn[k].client
       /\ conn'[k].down = conn[k].down /\ conn'[k].up = Without(u, n)
  BY <1>3, <1>4, <1>10 DEF Connection
<1>12. entry' = [entry EXCEPT ![round.i] = e]
  BY <1>1, <1>3 DEF cur, IInv, TableInv, ProtoInv
<1>13. /\ e.used = cur.used /\ e.fd = cur.fd /\ e.type = cur.type /\ e.name = cur.name
       /\ e.meta = cur.meta /\ e.wbuf = cur.wbuf /\ e.rbuf = Got(n)
  BY <1>3 DEF EntryFields
<1> HIDE DEF e
<1>14. Ent(k)' = e /\ \A m \in Conns \ {k} : Ent(m)' = Ent(m)
  <2>1. \A m \in Conns : conn'[m].server = conn[m].server
    BY <1>3, <1>10, <1>11
  <2>2. QED
    BY <1>2, <1>12, <1>13, <2>1, TurnKept
<1>15. Stream(k)' = Stream(k)
  <2>1. Stream(k)' = (a \o First(u, n)) \o Without(u, n)
    BY <1>8, <1>11, <1>13, <1>14 DEF Stream
  <2>2. QED
    BY <1>4, <1>7, <2>1 DEF MovedOK
<1>16. Kind(k) = "NONE" => Len(e.rbuf) < HeaderCells
  BY <1>1, <1>4, <1>13 DEF Patched
<1>17. QED
  BY <1>3, <1>6, <1>7, <1>8, <1>10, <1>11, <1>13, <1>14, <1>15, <1>16, ZenonT(60) DEF MovedOK

\* A connection is given up only after its client has closed it, or after a
\* download was written or an upload stored.
LEMMA HangUpView ==
  ASSUME ProtoInv, IInv', HangUp, NEW k, k = link
  PROVE  /\ k \in Conns /\ conn[k].server = "open" /\ ~conn[k].client
         /\ Kind(k)' = "gone" /\ Ent(k)' = NoEntry /\ conn'[k] = NoConn
         /\ \A m \in Conns \ {k} : conn'[m] = conn[m] /\ Ent(m)' = Ent(m)
<1>1. Reading /\ cur.type # "LISTEN" /\ CloseFd /\ conn[k].up = <<>> /\ IInv /\ SnapInv
  BY DEF HangUp, AtEnd, ProtoInv
<1>2. /\ k \in Conns /\ conn[k].server = "open" /\ round.i \in Live /\ round.i \in Entries
      /\ cur = entry[round.i] /\ DOMAIN entry = Entries /\ k = sock[entry[round.i].fd]
  BY <1>1, Turn DEF IInv, TableInv, link
<1>3. ~conn[k].client
  <2>1. HasToRead(round, cur)
    BY <1>1 DEF IInv, RoundInv, AtWork, Reading, cur
  <2>2. CanRead(entry[round.i].fd)
    BY <1>1, <1>2, <2>1 DEF SnapInv, Reading, HasToRead
  <2>3. entry[round.i].fd # Listen
    BY <1>1, <1>2, Links DEF LinksOK, Fds, Listen
  <2>4. QED
    BY <1>1, <1>2, <2>2, <2>3 DEF CanRead
<1>4. entry' = [entry EXCEPT ![round.i] = NoEntry]
  BY DEF HangUp, Removed
<1>5. /\ DOMAIN entry' = Entries /\ entry'[round.i] = NoEntry
      /\ \A i \in Entries \ {round.i} : entry'[i] = entry[i]
  BY <1>2, <1>4
<1>6. /\ Ent(k)' = NoEntry /\ Kind(k)' = "gone" /\ conn'[k] = ServerClosed(conn[k])
      /\ \A m \in Conns \ {k} :
           /\ conn'[m] = conn[m]
           /\ conn[m].server # "open" => Ent(m)' = Ent(m)
           /\ conn[m].server = "open" => \E i \in Live : /\ i \in Entries \ {round.i}
                                                         /\ Ent(m) = entry[i] /\ Ent(m)' = entry'[i]
  BY <1>1, <1>5, TurnGone
<1>7. QED
  BY <1>2, <1>3, <1>5, <1>6 DEF ServerClosed

\* EndGet closes a download of which everything is written.
LEMMA EndGetView ==
  ASSUME ProtoInv, IInv', EndGet, NEW k, k = link
  PROVE  /\ k \in Conns /\ conn[k].server = "open" /\ Kind(k) = "GET" /\ Ent(k).wbuf = <<>>
         /\ Kind(k)' = "gone" /\ Ent(k)' = NoEntry /\ conn'[k] = ServerClosed(conn[k])
         /\ \A m \in Conns \ {k} : conn'[m] = conn[m] /\ Ent(m)' = Ent(m)
<1>1. Writing /\ cur.type = "GET" /\ cur.wbuf = <<>> /\ CloseFd /\ IInv /\ SystemTypes
  BY DEF EndGet, ProtoInv
<1>2. /\ k \in Conns /\ conn[k].server = "open" /\ round.i \in Entries
      /\ cur = entry[round.i] /\ DOMAIN entry = Entries /\ Ent(k) = cur
  BY <1>1, Turn DEF IInv, TableInv
<1>3. Kind(k) = "GET"
  BY <1>1, <1>2, Types
<1>4. entry' = [entry EXCEPT ![round.i] = NoEntry]
  BY DEF EndGet, Removed
<1>5. /\ DOMAIN entry' = Entries /\ entry'[round.i] = NoEntry
      /\ \A i \in Entries \ {round.i} : entry'[i] = entry[i]
  BY <1>2, <1>4
<1>6. /\ Ent(k)' = NoEntry /\ Kind(k)' = "gone" /\ conn'[k] = ServerClosed(conn[k])
      /\ \A m \in Conns \ {k} :
           /\ conn'[m] = conn[m]
           /\ conn[m].server # "open" => Ent(m)' = Ent(m)
           /\ conn[m].server = "open" => \E i \in Live : /\ i \in Entries \ {round.i}
                                                         /\ Ent(m) = entry[i] /\ Ent(m)' = entry'[i]
  BY <1>1, <1>5, TurnGone
<1>7. QED
  BY <1>1, <1>2, <1>3, <1>5, <1>6

\* The upload on connection k is stored, with content x.
StoredAs(k, x) ==
  /\ stored' = [stored EXCEPT ![Ent(k).name][Ent(k).meta.name] = Append(@, x)]
  /\ Len(x) = Ent(k).meta.size
  /\ \A p \in 1..Ent(k).meta.size : x[p] = Stream(k)[p]

\* What is stored is the beginning of the stream, as long as the upload says;
\* those told have the new list behind what they still have to write.
LEMMA StoreView ==
  ASSUME ProtoInv, IInv', StoreFile, NEW k, k = link
  PROVE  /\ k \in Conns /\ conn[k].server = "open" /\ Kind(k) = "PUT"
         /\ Kind(k)' = "gone" /\ Ent(k)' = NoEntry /\ conn'[k] = ServerClosed(conn[k])
         /\ files' = [files EXCEPT ![Ent(k).name] = Append(@, Ent(k).meta)]
         /\ Ent(k).meta.size <= Len(Stream(k))
         /\ \E x \in Seq(Cell) : StoredAs(k, x)
         /\ \A m \in Conns \ {k} :
              /\ conn'[m] = conn[m]
              /\ Ent(m)' = IF IsTold(Ent(m), Ent(k).name) THEN Listed(Ent(m), files') ELSE Ent(m)
<1>1. /\ Reading /\ cur.type = "PUT" /\ CloseFd /\ IInv /\ SystemTypes /\ StreamInv
      /\ files' = [files EXCEPT ![cur.name] = Append(@, cur.meta)]
  BY DEF StoreFile, ProtoInv
<1>2. /\ k \in Conns /\ conn[k].server = "open" /\ round.i \in Entries
      /\ cur = entry[round.i] /\ DOMAIN entry = Entries /\ Ent(k) = cur
  BY <1>1, Turn DEF IInv, TableInv
<1> DEFINE a == Ent(k).rbuf
           u == conn[k].up
           len == Ent(k).meta.size
<1>3. /\ u \in Seq(Cell) /\ a \in Seq(Cell) /\ Kind(k) = "PUT"
      /\ Stream(k) = a \o u /\ Stream(k) \in Seq(Cell)
  BY <1>1, <1>2, Types DEF Stream
<1>3a. cur.meta \in Meta /\ len \in Nat
  BY <1>1, <1>2, <1>3 DEF StreamInv, StreamOK, Meta
<1>4. PICK n \in ReadSizes :
        /\ ~Patched(n, cur.meta.size)
        /\ stored' = [stored EXCEPT ![cur.name][cur.meta.name] = Append(@, File(n))]
  BY DEF StoreFile
<1>5. n \in 1..Len(u)
  <2>1. Wanted = Len(u) /\ Len(u) \in Nat
    BY <1>1, <1>3 DEF Wanted, ExpectsHeader
  <2>2. n \in 1..Smaller(Len(u), Len(u))
    BY <2>1 DEF ReadSizes
  <2>3. QED
    BY <2>1, <2>2 DEF Smaller
<1>6. MovedOK(a, u, n)
  BY <1>3, <1>5, Moved
<1> DEFINE g == a \o First(u, n)
           x == First(g, len)
<1>7. File(n) = x /\ ~(Len(g) < len)
  BY <1>2, <1>4 DEF File, Got, Patched
<1>8. /\ g \in Seq(Cell) /\ Len(g) = Len(a) + n
      /\ \A p \in 1..Len(g) : g[p] = Stream(k)[p]
  BY <1>3, <1>6 DEF MovedOK
<1>9. Len(Stream(k)) = Len(a) + Len(u)
  BY <1>3, ConcatProperties
<1> HIDE DEF a, u, g
<1>10. Len(g) \in Nat /\ len <= Len(g) /\ Len(g) <= Len(Stream(k))
  BY <1>3, <1>3a, <1>5, <1>7, <1>8, <1>9
<1>11. x \in Seq(Cell) /\ Len(x) = len /\ \A p \in 1..len : x[p] = g[p]
  BY <1>3a, <1>8, <1>10 DEF First
<1> HIDE DEF x
<1>12. \A p \in 1..len : x[p] = Stream(k)[p]
  BY <1>3a, <1>8, <1>10, <1>11
<1> DEFINE told == [i \in DOMAIN entry |-> IF IsTold(entry[i], cur.name)
                                             THEN Listed(entry[i], files') ELSE entry[i]]
<1>13. entry' = [told EXCEPT ![round.i] = NoEntry]
  BY DEF StoreFile, Removed
<1>14. /\ DOMAIN entry' = Entries /\ entry'[round.i] = NoEntry
       /\ \A i \in Entries \ {round.i} :
            entry'[i] = IF IsTold(entry[i], cur.name) THEN Listed(entry[i], files') ELSE entry[i]
  BY <1>2, <1>13
<1> HIDE DEF told
<1>15. \A i \in Entries \ {round.i} : entry'[i].used = entry[i].used /\ entry'[i].fd = entry[i].fd
  BY <1>1, <1>14, SetDataKeeps DEF Listed, IInv, TableInv
<1>16. /\ Ent(k)' = NoEntry /\ Kind(k)' = "gone" /\ conn'[k] = ServerClosed(conn[k])
       /\ \A m \in Conns \ {k} :
            /\ conn'[m] = conn[m]
            /\ conn[m].server # "open" => Ent(m)' = Ent(m)
            /\ conn[m].server = "open" => \E i \in Live : /\ i \in Entries \ {round.i}
                                                          /\ Ent(m) = entry[i] /\ Ent(m)' = entry'[i]
  BY <1>1, <1>14, <1>15, TurnGone
<1>17. ASSUME NEW m \in Conns \ {k}
       PROVE  Ent(m)' = IF IsTold(Ent(m), Ent(k).name) THEN Listed(Ent(m), files') ELSE Ent(m)
  <2>1. CASE conn[m].server = "open"
    BY <1>2, <1>14, <1>16, <2>1
  <2>2. CASE conn[m].server # "open"
    <3>1. Ent(m) = NoEntry /\ ~NoEntry.used
      BY <2>2 DEF Ent, NoEntry
    <3>2. ~IsTold(Ent(m), Ent(k).name)
      BY <3>1 DEF IsTold
    <3>3. QED
      BY <1>16, <2>2, <3>2
  <2>3. QED
    BY <2>1, <2>2
<1>18. /\ stored' = [stored EXCEPT ![Ent(k).name][Ent(k).meta.name] = Append(@, x)]
       /\ files' = [files EXCEPT ![Ent(k).name] = Append(@, Ent(k).meta)]
  BY <1>1, <1>2, <1>4, <1>7
<1>19. len <= Len(Stream(k))
  BY <1>3a, <1>3, <1>10
<1>20. StoredAs(k, x)
  BY <1>11, <1>12, <1>18 DEF StoredAs
<1>21. QED
  BY <1>2, <1>3, <1>11, <1>16, <1>17, <1>18, <1>19, <1>20

\* What is written moves from the entry to the connection, in order.
LEMMA FlushView ==
  ASSUME ProtoInv, IInv', Flush, NEW k, k = link
  PROVE  /\ k \in Conns /\ conn[k].server = "open" /\ conn[k].client /\ Ent(k).wbuf # <<>>
         /\ conn'[k].server = "open" /\ conn'[k].client = conn[k].client
         /\ conn'[k].up = conn[k].up /\ conn'[k].down \in Seq(Cell)
         /\ Ent(k)'.type = Ent(k).type /\ Ent(k)'.name = Ent(k).name
         /\ Ent(k)'.meta = Ent(k).meta /\ Ent(k)'.rbuf = Ent(k).rbuf
         /\ Ent(k)'.wbuf \in Seq(Cell)
         /\ conn'[k].down \o Ent(k)'.wbuf = conn[k].down \o Ent(k).wbuf
         /\ \A m \in Conns \ {k} : conn'[m] = conn[m] /\ Ent(m)' = Ent(m)
<1>1. Writing /\ conn[k].client /\ sock' = sock /\ IInv /\ SystemTypes
  BY DEF Flush, ProtoInv
<1>2. cur.type # "LISTEN"
  BY <1>1, WriterServes
<1>3. /\ k \in Conns /\ conn[k].server = "open" /\ round.i \in Entries
      /\ cur = entry[round.i] /\ DOMAIN entry = Entries /\ Ent(k) = cur
      /\ DOMAIN cur = EntryFields
  BY <1>1, <1>2, Turn DEF IInv, TableInv
<1> DEFINE d == conn[k].down
           w == Ent(k).wbuf
<1>4. d \in Seq(Cell) /\ w \in Seq(Cell) /\ conn[k] \in Connection
  BY <1>1, <1>3, Types
<1>5. PICK n \in 1..Smaller(Len(w), SendRoom - Len(d)) :
        /\ conn' = [conn EXCEPT ![k].down = @ \o First(w, n)]
        /\ entry' = [entry EXCEPT ![round.i].wbuf = Without(@, n)]
  BY <1>3 DEF Flush
<1>6. n \in 1..Len(w)
  <2>1. Len(d) \in Nat /\ Len(w) \in Nat /\ SendRoom \in Nat
    BY <1>4, NetAssumption
  <2> HIDE DEF d, w
  <2>2. QED
    BY <2>1 DEF Smaller
<1>7. MovedOK(d, w, n)
  BY <1>4, <1>6, Moved
<1>8. w # <<>>
  BY <1>4, <1>6
<1> DEFINE e == [cur EXCEPT !.wbuf = Without(w, n)]
<1>9. entry' = [entry EXCEPT ![round.i] = e]
  BY <1>3, <1>5
<1>10. /\ conn'[k] = [conn[k] EXCEPT !.down = d \o First(w, n)]
       /\ \A m \in Conns \ {k} : conn'[m] = conn[m]
  BY <1>1, <1>3, <1>5 DEF IInv, NetInv
<1> HIDE DEF d, w
<1>11. /\ conn'[k].server = "open" /\ conn'[k].client = conn[k].client
       /\ conn'[k].up = conn[k].up /\ conn'[k].down = d \o First(w, n)
  BY <1>3, <1>4, <1>10 DEF Connection
<1>12. /\ e.used = cur.used /\ e.fd = cur.fd /\ e.type = cur.type /\ e.name = cur.name
       /\ e.meta = cur.meta /\ e.rbuf = cur.rbuf /\ e.wbuf = Without(w, n)
  BY <1>3 DEF EntryFields
<1> HIDE DEF e
<1>13. Ent(k)' = e /\ \A m \in Conns \ {k} : Ent(m)' = Ent(m)
  <2>1. \A m \in Conns : conn'[m].server = conn[m].server
    BY <1>3, <1>10, <1>11
  <2>2. QED
    BY <1>1, <1>2, <1>9, <1>12, <2>1, TurnKept
<1>14. conn'[k].down \o Ent(k)'.wbuf = d \o w
  BY <1>7, <1>11, <1>12, <1>13 DEF MovedOK
<1>15. QED
  BY <1>1, <1>3, <1>7, <1>8, <1>10, <1>11, <1>12, <1>13, <1>14 DEF MovedOK, d, w

\* What is written to nobody is lost.
LEMMA NobodyView ==
  ASSUME ProtoInv, IInv', FlushToNobody, NEW k, k = link
  PROVE  /\ k \in Conns /\ conn[k].server = "open" /\ ~conn[k].client /\ conn' = conn
         /\ Ent(k).wbuf # <<>>
         /\ Ent(k)'.type = Ent(k).type /\ Ent(k)'.name = Ent(k).name
         /\ Ent(k)'.meta = Ent(k).meta /\ Ent(k)'.rbuf = Ent(k).rbuf
         /\ Ent(k)'.wbuf \in Seq(Cell)
         /\ \A m \in Conns \ {k} : conn'[m] = conn[m] /\ Ent(m)' = Ent(m)
<1>1. /\ Writing /\ ~conn[k].client /\ cur.wbuf # <<>> /\ sock' = sock /\ conn' = conn
      /\ IInv /\ SystemTypes
  BY DEF FlushToNobody, ProtoInv, netVars
<1>2. cur.type # "LISTEN"
  BY <1>1, WriterServes
<1>3. /\ k \in Conns /\ conn[k].server = "open" /\ round.i \in Entries
      /\ cur = entry[round.i] /\ DOMAIN entry = Entries /\ Ent(k) = cur
      /\ DOMAIN cur = EntryFields
  BY <1>1, <1>2, Turn DEF IInv, TableInv
<1>4. cur.wbuf \in Seq(Cell)
  BY <1>1, <1>3, Types
<1>5. PICK x \in Seq(Cell) : entry' = [entry EXCEPT ![round.i].wbuf = x]
  <2>1. CASE \E n \in 1..Len(cur.wbuf) : entry' = [entry EXCEPT ![round.i].wbuf = Without(@, n)]
    <3>1. PICK n \in 1..Len(cur.wbuf) : entry' = [entry EXCEPT ![round.i].wbuf = Without(@, n)]
      BY <2>1
    <3>2. MovedOK(<<>>, cur.wbuf, n)
      <4>1. <<>> \in Seq(Cell) /\ n \in 0..Len(cur.wbuf)
        BY <1>4
      <4>2. QED
        BY <1>4, <4>1, Moved
    <3>3. Without(cur.wbuf, n) \in Seq(Cell)
      BY <3>2 DEF MovedOK
    <3>4. QED
      BY <1>3, <3>1, <3>3
  <2>2. CASE entry' = [entry EXCEPT ![round.i].wbuf = <<[t |-> "stale"]>> \o @]
    <3>1. <<[t |-> "stale"]>> \in Seq(Cell)
      BY DEF Cell
    <3>2. <<[t |-> "stale"]>> \o cur.wbuf \in Seq(Cell)
      BY <1>4, <3>1, ConcatProperties
    <3>3. QED
      BY <1>3, <2>2, <3>2
  <2>3. QED
    BY <2>1, <2>2 DEF FlushToNobody
<1> DEFINE e == [cur EXCEPT !.wbuf = x]
<1>6. entry' = [entry EXCEPT ![round.i] = e]
  BY <1>3, <1>5
<1>7. /\ e.used = cur.used /\ e.fd = cur.fd /\ e.type = cur.type /\ e.name = cur.name
      /\ e.meta = cur.meta /\ e.rbuf = cur.rbuf /\ e.wbuf = x
  BY <1>3 DEF EntryFields
<1> HIDE DEF e
<1>8. Ent(k)' = e /\ \A m \in Conns \ {k} : Ent(m)' = Ent(m)
  BY <1>1, <1>2, <1>6, <1>7, TurnKept
<1>9. QED
  BY <1>1, <1>3, <1>5, <1>7, <1>8

-----------------------------------------------------------------------------
(* Connections whose streams a step leaves alone                           *)

\* The server takes connection k for what it took it for, and has as much of
\* its client's stream before it.
Kept(k) ==
  /\ Kind(k)' = Kind(k)
  /\ Kind(k) # "gone" => /\ Stream(k)' = Stream(k)
                         /\ Ent(k)'.name = Ent(k).name /\ Ent(k)'.meta = Ent(k).meta
  /\ Kind(k) = "NONE" => /\ conn'[k].down \in {conn[k].down, <<>>}
                         /\ Ent(k)'.wbuf = Ent(k).wbuf /\ Len(Ent(k)'.rbuf) < HeaderCells
  /\ Kind(k) = "gone" => conn'[k].up \in {conn[k].up, <<>>}

\* A connection nothing is done to is kept,
LEMMA SameKept ==
  ASSUME StreamInv, NEW k \in Conns, conn'[k] = conn[k],
         \/ Ent(k)' = Ent(k)
         \/ \E cells : Ent(k)' = SetData(Ent(k), cells) /\ Ent(k).type = "CMD" /\ DOMAIN Ent(k) = EntryFields
  PROVE  Kept(k)
<1>1. CASE Ent(k)' = Ent(k)
  <2>1. Kind(k)' = Kind(k) /\ Stream(k)' = Stream(k)
    BY <1>1 DEF Kind, Stream
  <2>2. QED
    BY <1>1, <2>1 DEF Kept, StreamInv, StreamOK
<1>2. CASE \E cells : Ent(k)' = SetData(Ent(k), cells) /\ Ent(k).type = "CMD" /\ DOMAIN Ent(k) = EntryFields
  <2>1. PICK cells : Ent(k)' = SetData(Ent(k), cells)
    BY <1>2
  <2>2. /\ Ent(k)'.type = Ent(k).type /\ Ent(k)'.name = Ent(k).name /\ Ent(k)'.meta = Ent(k).meta
        /\ Ent(k)'.rbuf = Ent(k).rbuf /\ Ent(k).type = "CMD"
    BY <1>2, <2>1 DEF SetData, EntryFields
  <2>3. Kind(k)' = Kind(k) /\ Stream(k)' = Stream(k) /\ Kind(k) \in {"CMD", "gone"}
    BY <2>2 DEF Kind, Stream
  <2>4. QED
    BY <2>2, <2>3 DEF Kept
<1>3. QED
  BY <1>1, <1>2

\* and a connection that is kept still carries what it should.
LEMMA KeptStream ==
  ASSUME NEW k, StreamOK(k), Kept(k), known \subseteq known'
  PROVE  StreamOK(k)'
<1>1. CASE Kind(k) = "NONE"
  <2>1. IsRequest(Stream(k))'
    BY <1>1 DEF Kept, StreamOK, IsRequest
  <2>2. QED
    BY <1>1, <2>1 DEF Kept, StreamOK
<1>2. CASE Kind(k) \in {"CMD", "GET", "PUT"}
  <2>1. AllBytes(Stream(k))' <=> AllBytes(Stream(k))
    BY <1>2 DEF Kept, AllBytes
  <2>2. QED
    BY <1>2, <2>1 DEF Kept, StreamOK
<1>3. CASE Kind(k) = "gone"
  BY <1>3 DEF Kept, StreamOK, AllBytes
<1>4. CASE Kind(k) \notin {"NONE", "CMD", "GET", "PUT", "gone"}
  BY <1>4 DEF Kept, StreamOK
<1>5. QED
  BY <1>1, <1>2, <1>3, <1>4

\* So do the connections of clients.
LEMMA KeptRoles ==
  ASSUME CmdInv, PutInv, client' = client,
         \A c \in Clients : ~At(c, "off") => Kept(client[c].cmd),
         \A c \in Clients : At(c, "put") => Kept(client[c].data)
  PROVE  CmdInv' /\ PutInv'
<1>1. ASSUME NEW c \in Clients, ~At(c, "off") PROVE CmdOK(c)'
  <2>1. CmdOK(c) /\ Kept(client[c].cmd)
    BY <1>1 DEF CmdInv
  <2>2. QED
    BY <2>1 DEF CmdOK, Kept, At
<1>2. ASSUME NEW c \in Clients, At(c, "put") PROVE PutOK(c)'
  <2>1. PutOK(c) /\ Kept(client[c].data)
    BY <1>2 DEF PutInv
  <2>2. QED
    BY <2>1 DEF PutOK, Kept
<1>3. QED
  BY <1>1, <1>2 DEF CmdInv, PutInv, At

\* The server does not touch the clients' ends of connections.
LEMMA ServerRoles ==
  ASSUME RoleInv, UNCHANGED clientVars,
         \A k \in Conns : /\ conn'[k].client = conn[k].client
                          /\ conn'[k].server = "none" => ~conn'[k].client,
         \A c \in Clients : ~At(c, "off") => /\ client[c].cmd \in Conns
                                             /\ client[c].data \in Conns \cup {0}
  PROVE  RoleInv'
<1>1. UNCHANGED <<client, uploads>>
  BY DEF clientVars
<1>2. ASSUME NEW c \in Clients PROVE RoleOK(c)'
  BY <1>1 DEF RoleInv, RoleOK, At
<1>3. QED
  BY <1>1, <1>2 DEF RoleInv, At

\* What the server does without taking a connection for something else.
Quiet(k) == /\ Kept(k)
            /\ conn'[k].client = conn[k].client
            /\ conn'[k].server = "none" => conn[k].server = "none"
            /\ conn[k].client => Pending(k)' = Pending(k)

\* A connection left alone is quiet.
LEMMA QuietSame ==
  ASSUME StreamInv, NEW k \in Conns, conn'[k] = conn[k], Ent(k)' = Ent(k)
  PROVE  Quiet(k)
BY SameKept DEF Quiet, Pending

\* Accept is quiet on every connection: a fresh entry has received nothing.
LEMMA AcceptQuiet ==
  ASSUME ProtoInv, IInv', Accept PROVE \A m \in Conns : Quiet(m)
<1>1. PICK k : k = Head(backlog)
  OBVIOUS
<1>2. PICK f \in Fds :
        /\ k \in Conns /\ conn[k].server = "backlog" /\ Ent(k) = NoEntry
        /\ conn'[k] = [conn[k] EXCEPT !.server = "open"]
        /\ Ent(k)' = [NoEntry EXCEPT !.used = TRUE, !.fd = f]
        /\ \A m \in Conns \ {k} : conn'[m] = conn[m] /\ Ent(m)' = Ent(m)
  BY <1>1, AcceptView DEF ProtoInv
<1>3. DOMAIN conn[k] = ConnFields
  BY <1>2 DEF ProtoInv, IInv, NetInv
<1>4. /\ conn'[k].up = conn[k].up /\ conn'[k].down = conn[k].down
      /\ conn'[k].client = conn[k].client /\ conn'[k].server = "open"
  BY <1>2, <1>3 DEF ConnFields
<1>5. /\ Ent(k)'.type = "NONE" /\ Ent(k)'.rbuf = <<>> /\ Ent(k)'.wbuf = <<>>
      /\ Ent(k)'.name = "" /\ Ent(k)'.meta = <<>>
      /\ Ent(k).type = "NONE" /\ Ent(k).rbuf = <<>> /\ Ent(k).wbuf = <<>>
      /\ Ent(k).name = "" /\ Ent(k).meta = <<>>
  <2> DEFINE e == [NoEntry EXCEPT !.used = TRUE, !.fd = f]
  <2>1. e.type = "NONE" /\ e.rbuf = <<>> /\ e.wbuf = <<>> /\ e.name = "" /\ e.meta = <<>>
    BY DEF NoEntry
  <2>2. /\ NoEntry.type = "NONE" /\ NoEntry.rbuf = <<>> /\ NoEntry.wbuf = <<>>
        /\ NoEntry.name = "" /\ NoEntry.meta = <<>>
    BY DEF NoEntry
  <2> HIDE DEF e
  <2>3. Ent(k)' = e
    BY <1>2 DEF e
  <2>4. QED
    BY <1>2, <2>1, <2>2, <2>3
<1>6. Kind(k)' = Kind(k) /\ Kind(k) = "NONE" /\ Stream(k)' = Stream(k) /\ Pending(k)' = Pending(k)
  BY <1>2, <1>4, <1>5 DEF Kind, Stream, Pending
<1>7. Len(Ent(k)'.rbuf) < HeaderCells
  <2>1. Len(<<>>) = 0
    OBVIOUS
  <2>2. Len(Ent(k)'.rbuf) = 0
    BY <1>5, <2>1, Zenon
  <2>3. QED
    BY <2>2 DEF HeaderCells
<1>8. Quiet(k)
  BY <1>4, <1>2, <1>5, <1>6, <1>7 DEF Quiet, Kept
<1>9. QED
  BY <1>2, <1>8, QuietSame DEF ProtoInv

\* ReadPart is quiet: the part of a header moves from the connection to the
\* entry and the stream of both stays.
LEMMA ReadPartQuiet ==
  ASSUME ProtoInv, IInv', ReadPart PROVE \A m \in Conns : Quiet(m)
<1>1. PICK k : k = link
  OBVIOUS
<1>2. /\ k \in Conns /\ conn[k].server = "open" /\ Kind(k) \in {"NONE", "PUT"}
      /\ conn'[k].server = "open" /\ conn'[k].client = conn[k].client
      /\ conn'[k].down = conn[k].down
      /\ Ent(k)'.type = Ent(k).type /\ Ent(k)'.name = Ent(k).name
      /\ Ent(k)'.meta = Ent(k).meta /\ Ent(k)'.wbuf = Ent(k).wbuf
      /\ Stream(k)' = Stream(k)
      /\ Kind(k) = "NONE" => Len(Ent(k)'.rbuf) < HeaderCells
      /\ \A m \in Conns \ {k} : conn'[m] = conn[m] /\ Ent(m)' = Ent(m)
  BY <1>1, ReadPartView
<1>3. Kind(k)' = Kind(k) /\ Pending(k)' = Pending(k)
  BY <1>2 DEF Kind, Pending
<1>4. Quiet(k)
  BY <1>2, <1>3 DEF Quiet, Kept
<1>5. QED
  BY <1>2, <1>4, QuietSame DEF ProtoInv

\* Flush is quiet: what it writes goes from the entry to the connection.
LEMMA FlushQuiet ==
  ASSUME ProtoInv, IInv', Flush PROVE \A m \in Conns : Quiet(m)
<1>1. PICK k : k = link
  OBVIOUS
<1>2. /\ k \in Conns /\ conn[k].server = "open" /\ Ent(k).wbuf # <<>>
      /\ conn'[k].server = "open" /\ conn'[k].client = conn[k].client
      /\ conn'[k].up = conn[k].up
      /\ Ent(k)'.type = Ent(k).type /\ Ent(k)'.name = Ent(k).name
      /\ Ent(k)'.meta = Ent(k).meta /\ Ent(k)'.rbuf = Ent(k).rbuf
      /\ conn'[k].down \o Ent(k)'.wbuf = conn[k].down \o Ent(k).wbuf
      /\ \A m \in Conns \ {k} : conn'[m] = conn[m] /\ Ent(m)' = Ent(m)
  BY <1>1, FlushView
<1>3. Kind(k)' = Kind(k) /\ Stream(k)' = Stream(k) /\ Pending(k)' = Pending(k)
  BY <1>2 DEF Kind, Pending, Stream
<1>4. Kind(k) \notin {"NONE", "gone"}
  <2>1. Kind(k) = Ent(k).type /\ Ent(k) \in TableEntry
    BY <1>2, Types DEF ProtoInv
  <2>2. Kind(k) # "gone"
    BY <2>1 DEF TableEntry
  <2>3. Kind(k) # "NONE"
    BY <1>2 DEF ProtoInv, StreamInv, StreamOK
  <2>4. QED
    BY <2>2, <2>3
<1>5. Quiet(k)
  BY <1>2, <1>3, <1>4 DEF Quiet, Kept
<1>6. QED
  BY <1>2, <1>5, QuietSame DEF ProtoInv

\* FlushToNobody is quiet: only a connection whose client has gone loses what
\* was still to be written.
LEMMA NobodyQuiet ==
  ASSUME ProtoInv, IInv', FlushToNobody PROVE \A m \in Conns : Quiet(m)
<1>1. PICK k : k = link
  OBVIOUS
<1>2. /\ k \in Conns /\ conn[k].server = "open" /\ ~conn[k].client /\ conn' = conn
      /\ Ent(k).wbuf # <<>>
      /\ Ent(k)'.type = Ent(k).type /\ Ent(k)'.name = Ent(k).name
      /\ Ent(k)'.meta = Ent(k).meta /\ Ent(k)'.rbuf = Ent(k).rbuf
      /\ \A m \in Conns \ {k} : conn'[m] = conn[m] /\ Ent(m)' = Ent(m)
  BY <1>1, NobodyView
<1>3. Kind(k)' = Kind(k) /\ Stream(k)' = Stream(k)
  BY <1>2 DEF Kind, Stream
<1>4. Kind(k) \notin {"NONE", "gone"}
  <2>1. Kind(k) = Ent(k).type /\ Ent(k) \in TableEntry
    BY <1>2, Types DEF ProtoInv
  <2>2. Kind(k) # "gone"
    BY <2>1 DEF TableEntry
  <2>3. Kind(k) # "NONE"
    BY <1>2 DEF ProtoInv, StreamInv, StreamOK
  <2>4. QED
    BY <2>2, <2>3
<1>5. Quiet(k)
  BY <1>2, <1>3, <1>4 DEF Quiet, Kept
<1>6. QED
  BY <1>2, <1>5, QuietSame DEF ProtoInv

\* Select is quiet: it changes only the round.
LEMMA SelectQuiet ==
  ASSUME ProtoInv, IInv', Select PROVE \A m \in Conns : Quiet(m)
<1>1. UNCHANGED <<conn, entry, sock>>
  BY DEF Select, netVars
<1>2. \A i \in Entries : entry'[i].used = entry[i].used /\ entry'[i].fd = entry[i].fd
  BY <1>1
<1>3. /\ \A i \in Live : \A m \in Conns : m = sock[entry[i].fd] => Ent(m)' = entry'[i]
      /\ \A m \in Conns : conn[m].server # "open" => Ent(m)' = Ent(m)
  BY <1>1, <1>2, EntriesStay DEF ProtoInv
<1>4. \A m \in Conns : Ent(m)' = Ent(m)
  BY <1>1, <1>3, Links DEF LinksOK, ProtoInv
<1>5. QED
  BY <1>1, <1>4, QuietSame DEF ProtoInv

\* Most of what the server does keeps every connection and everything a client
\* has still to read.
QuietServer == Select \/ Accept \/ ReadPart \/ Flush \/ FlushToNobody

\* The steps of the server that only move cells along are quiet on every
\* connection and leave the users and the files alone.
LEMMA ServerQuiet ==
  ASSUME ProtoInv, IInv', QuietServer
  PROVE  (\A m \in Conns : Quiet(m)) /\ UNCHANGED <<known, files, stored>>
<1>1. \A m \in Conns : Quiet(m)
  BY SelectQuiet, AcceptQuiet, ReadPartQuiet, FlushQuiet, NobodyQuiet DEF QuietServer
<1>2. UNCHANGED <<known, files, stored>>
  BY DEF QuietServer, Select, Accept, ReadPart, Flush, FlushToNobody
<1>3. QED
  BY <1>1, <1>2

\* The connections of the clients are among the connections.
LEMMA ClientTypes ==
  ASSUME SystemTypes, NEW c \in Clients, ~At(c, "off")
  PROVE  client[c] \in Online /\ client[c].cmd \in Conns /\ client[c].data \in Conns \cup {0}
         /\ client[c].user \in Users
BY DEF SystemTypes, Online, Off, At

\* Such a step keeps the streams, the roles and the lists.
LEMMA QuietStep ==
  ASSUME ProtoInv, IInv', QuietServer, UNCHANGED clientVars
  PROVE  RoleInv' /\ StreamInv' /\ CmdInv' /\ PutInv' /\ ListInv'
<1>0. /\ \A m \in Conns : Quiet(m)
      /\ UNCHANGED <<known, files, client>>
  BY ServerQuiet DEF clientVars
<1>1. \A c \in Clients : ~At(c, "off") => client[c].cmd \in Conns /\ client[c].data \in Conns \cup {0}
  BY ClientTypes DEF ProtoInv
<1>2. RoleInv'
  BY <1>0, <1>1, ServerRoles DEF ProtoInv, Quiet, RoleInv
<1>3. StreamInv'
  BY <1>0, KeptStream DEF ProtoInv, Quiet, StreamInv
<1>4. CmdInv' /\ PutInv'
  <2>1. \A c \in Clients : At(c, "put") => client[c].data \in Conns
    BY <1>1 DEF ProtoInv, RoleInv, RoleOK, At
  <2>2. QED
    BY <1>0, <1>1, <2>1, KeptRoles DEF ProtoInv, Quiet
<1>5. ASSUME NEW c \in Clients, ~At(c, "off") PROVE ListOK(c)'
  <2>1. conn[client[c].cmd].client /\ client[c].cmd \in Conns /\ ListOK(c)
    BY <1>1, <1>5 DEF ProtoInv, RoleInv, RoleOK, ListInv
  <2>2. PICK k : k = client[c].cmd
    OBVIOUS
  <2>3. Pending(k)' = Pending(k)
    BY <1>0, <2>1, <2>2 DEF Quiet
  <2>4. QED
    BY <1>0, <2>1, <2>2, <2>3 DEF ListOK
<1>6. ListInv'
  BY <1>0, <1>5 DEF ListInv, At
<1>7. QED
  BY <1>2, <1>3, <1>4, <1>6

\* A step that does something to connection k only keeps the streams and the
\* roles when it does so for k.
LEMMA TurnRoles ==
  ASSUME ProtoInv, UNCHANGED clientVars, known \subseteq known', NEW k \in Conns,
         conn'[k].client = conn[k].client, conn'[k].server = "none" => ~conn'[k].client,
         StreamOK(k)',
         \A m \in Conns \ {k} : Kept(m) /\ conn'[m] = conn[m],
         \A c \in Clients : ~At(c, "off") /\ client[c].cmd = k => CmdOK(c)',
         \A c \in Clients : At(c, "put") /\ client[c].data = k => PutOK(c)'
  PROVE  RoleInv' /\ StreamInv' /\ CmdInv' /\ PutInv'
<1>1. \A c \in Clients : ~At(c, "off") => client[c].cmd \in Conns /\ client[c].data \in Conns \cup {0}
  BY ClientTypes DEF ProtoInv
<1>2. RoleInv'
  BY <1>1, ServerRoles DEF ProtoInv, RoleInv
<1>3. StreamInv'
  BY KeptStream DEF ProtoInv, StreamInv
<1>4. ASSUME NEW c \in Clients, ~At(c, "off") PROVE CmdOK(c)'
  <2>1. CASE client[c].cmd = k
    BY <1>4, <2>1
  <2>2. CASE client[c].cmd # k
    <3>1. CmdOK(c) /\ Kept(client[c].cmd) /\ client' = client
      BY <1>1, <1>4, <2>2 DEF ProtoInv, CmdInv, clientVars
    <3>2. QED
      BY <3>1 DEF CmdOK, Kept, At
  <2>3. QED
    BY <2>1, <2>2
<1>5. ASSUME NEW c \in Clients, At(c, "put") PROVE PutOK(c)'
  <2>1. CASE client[c].data = k
    BY <1>5, <2>1
  <2>2. CASE client[c].data # k
    <3>1. client[c].data \in Conns
      BY <1>1, <1>5 DEF ProtoInv, RoleInv, RoleOK, At
    <3>2. PutOK(c) /\ Kept(client[c].data) /\ client' = client
      BY <1>5, <2>2, <3>1 DEF ProtoInv, PutInv, clientVars
    <3>3. QED
      BY <3>2 DEF PutOK, Kept
  <2>3. QED
    BY <2>1, <2>2
<1>6. QED
  BY <1>2, <1>3, <1>4, <1>5 DEF CmdInv, PutInv, At, clientVars

\* Nor does it change what clients have to read, when k is no command connection
\* of a client.
LEMMA TurnLists ==
  ASSUME ProtoInv, UNCHANGED clientVars, files' = files, NEW k \in Conns,
         \A m \in Conns \ {k} : conn'[m] = conn[m] /\ Ent(m)' = Ent(m),
         \A c \in Clients : ~At(c, "off") => client[c].cmd # k
  PROVE  ListInv'
<1>1. ASSUME NEW c \in Clients, ~At(c, "off") PROVE ListOK(c)'
  <2>1. client[c].cmd \in Conns \ {k} /\ ListOK(c) /\ client' = client
    BY <1>1, ClientTypes DEF ProtoInv, ListInv, clientVars
  <2>2. PICK m : m = client[c].cmd
    OBVIOUS
  <2>3. Pending(m)' = Pending(m)
    BY <2>1, <2>2 DEF Pending
  <2>4. QED
    BY <2>1, <2>2, <2>3 DEF ListOK
<1>2. QED
  BY <1>1 DEF ListInv, At, clientVars

\* A download, a hang-up and the end of a download.
LEMMA OtherTurn ==
  ASSUME ProtoInv, IInv', UNCHANGED clientVars, UNCHANGED <<known, files>>, NEW k \in Conns,
         conn'[k].client = conn[k].client, conn'[k].server = "none" => ~conn'[k].client,
         StreamOK(k)',
         \A m \in Conns \ {k} : conn'[m] = conn[m] /\ Ent(m)' = Ent(m),
         \A c \in Clients : ~At(c, "off") => client[c].cmd # k,
         \A c \in Clients : At(c, "put") /\ client[c].data = k => PutOK(c)'
  PROVE  RoleInv' /\ StreamInv' /\ CmdInv' /\ PutInv' /\ ListInv'
<1>1. \A m \in Conns \ {k} : Kept(m)
  BY SameKept DEF ProtoInv
<1>2. RoleInv' /\ StreamInv' /\ CmdInv' /\ PutInv'
  BY <1>1, TurnRoles
<1>3. ListInv'
  BY TurnLists
<1>4. QED
  BY <1>2, <1>3

\* Nothing is left in the stream of a connection the server has closed.
LEMMA GoneStream ==
  ASSUME NEW k, Kind(k)' = "gone", conn'[k].up = <<>>
  PROVE  StreamOK(k)'
<1>1. AllBytes(conn'[k].up)
  <2>1. Len(<<>>) = 0
    OBVIOUS
  <2>2. Len(conn'[k].up) = 0
    BY <2>1, Zenon
  <2>3. QED
    BY <2>2 DEF AllBytes
<1>2. QED
  BY <1>1 DEF StreamOK, AllBytes

\* The server's close keeps the client's end and drops what was unread.
LEMMA ClosedAtServer ==
  ASSUME NEW x, DOMAIN x = ConnFields, x.client \in BOOLEAN
  PROVE  /\ ServerClosed(x).client = x.client /\ ServerClosed(x).up = <<>>
         /\ ServerClosed(x).server = "none" => ~ServerClosed(x).client
BY DEF ServerClosed, NoConn, ConnFields

\* HangUp keeps the protocol: a connection whose client has gone ends.
LEMMA HangUpProto ==
  ASSUME ProtoInv, IInv', HangUp, UNCHANGED clientVars
  PROVE  RoleInv' /\ StreamInv' /\ CmdInv' /\ PutInv' /\ ListInv'
<1>1. PICK k : k = link
  OBVIOUS
<1>2. /\ k \in Conns /\ ~conn[k].client /\ Kind(k)' = "gone" /\ conn'[k] = NoConn
      /\ \A m \in Conns \ {k} : conn'[m] = conn[m] /\ Ent(m)' = Ent(m)
  BY <1>1, HangUpView
<1>3. conn'[k].up = <<>> /\ ~conn'[k].client
  BY <1>2 DEF NoConn
<1>4. conn[k].client \in BOOLEAN /\ conn'[k].client \in BOOLEAN
  <2>1. conn[k] \in Connection
    BY <1>2 DEF ProtoInv, SystemTypes
  <2>2. QED
    BY <1>2, <2>1 DEF Connection, NoConn
<1>5. \A c \in Clients : ~At(c, "off") => client[c].cmd # k
  BY <1>2 DEF ProtoInv, RoleInv, RoleOK
<1>6. \A c \in Clients : At(c, "put") => client[c].data # k
  <2>1. ASSUME NEW c \in Clients, At(c, "put"), client[c].data = k PROVE FALSE
    <3>1. ~At(c, "off") /\ client[c].data # 0
      BY <1>2, <2>1 DEF At, Conns
    <3>2. QED
      BY <1>2, <2>1, <3>1 DEF ProtoInv, RoleInv, RoleOK
  <2>2. QED
    BY <2>1
<1>7. StreamOK(k)'
  BY <1>2, <1>3, GoneStream
<1>8. UNCHANGED <<known, files>>
  BY DEF HangUp
<1>9. QED
  BY <1>2, <1>3, <1>4, <1>5, <1>6, <1>7, <1>8, OtherTurn

\* EndGet keeps the protocol: a download ends with all of it written.
LEMMA EndGetProto ==
  ASSUME ProtoInv, IInv', EndGet, UNCHANGED clientVars
  PROVE  RoleInv' /\ StreamInv' /\ CmdInv' /\ PutInv' /\ ListInv'
<1>1. PICK k : k = link
  OBVIOUS
<1>2. /\ k \in Conns /\ Kind(k) = "GET" /\ Kind(k)' = "gone" /\ conn'[k] = ServerClosed(conn[k])
      /\ \A m \in Conns \ {k} : conn'[m] = conn[m] /\ Ent(m)' = Ent(m)
  BY <1>1, EndGetView
<1>3. /\ conn'[k].client = conn[k].client /\ conn'[k].up = <<>>
      /\ conn'[k].server = "none" => ~conn'[k].client
  <2>1. conn[k] \in Connection /\ DOMAIN conn[k] = ConnFields
    BY <1>2 DEF ProtoInv, SystemTypes, IInv, NetInv
  <2>2. conn[k].client \in BOOLEAN
    BY <2>1 DEF Connection
  <2>3. QED
    BY <1>2, <2>1, <2>2, ClosedAtServer
<1>4. \A c \in Clients : ~At(c, "off") => client[c].cmd # k
  BY <1>2 DEF ProtoInv, CmdInv, CmdOK
<1>5. \A c \in Clients : At(c, "put") => client[c].data # k
  BY <1>2 DEF ProtoInv, PutInv, PutOK
<1>6. StreamOK(k)'
  BY <1>2, <1>3, GoneStream
<1>7. UNCHANGED <<known, files>>
  BY DEF EndGet
<1>8. QED
  BY <1>2, <1>3, <1>4, <1>5, <1>6, <1>7, OtherTurn

\* The request on a client's command connection is its login.
LEMMA CmdIsLogin ==
  ASSUME ProtoInv, NEW c \in Clients, ~At(c, "off"), Kind(client[c].cmd) = "NONE"
  PROVE  Stream(client[c].cmd)[2].t = "LOGIN" /\ Stream(client[c].cmd)[2].user = client[c].user
<1>1. Stream(client[c].cmd)[2] = LoginHeader(client[c].user)
  BY DEF ProtoInv, CmdInv, CmdOK
<1>2. LoginHeader(client[c].user).t = "LOGIN" /\ LoginHeader(client[c].user).user = client[c].user
  BY DEF LoginHeader
<1>3. QED
  BY <1>1, <1>2

\* A connection whose request the server has read: nothing else came with a
\* login or a download.
LEMMA GetProto ==
  ASSUME ProtoInv, IInv', Get, UNCHANGED clientVars
  PROVE  RoleInv' /\ StreamInv' /\ CmdInv' /\ PutInv' /\ ListInv'
<1>1. PICK k : k = link
  OBVIOUS
<1>2. /\ k \in Conns /\ conn[k].server = "open" /\ Kind(k) = "NONE"
      /\ IsRequest(Stream(k)) /\ Header = Stream(k)[2] /\ Header.t = "GET"
  BY <1>1, HeaderView DEF Get
<1>3. /\ conn'[k].server = "open" /\ conn'[k].client = conn[k].client
      /\ Len(conn'[k].up) = Len(Stream(k)) - HeaderCells /\ conn'[k].up \in Seq(Cell)
      /\ Ent(k)'.type = "GET" /\ Ent(k)'.name = Header.user /\ Ent(k)'.rbuf = <<>>
      /\ \A m \in Conns \ {k} : conn'[m] = conn[m] /\ Ent(m)' = Ent(m)
  BY <1>1, GetView
<1>4. UNCHANGED <<known, files>>
  BY DEF Get
<1>5. StreamOK(k)'
  <2>1. Kind(k)' = "GET"
    BY <1>3 DEF Kind
  <2>2. Len(conn'[k].up) = 0
    BY <1>2, <1>3 DEF IsRequest, HeaderCells
  <2>3. conn'[k].up = <<>>
    BY <1>3, <2>2
  <2>4. Stream(k)' = <<>>
    BY <1>3, <2>3 DEF Stream
  <2>5. Ent(k)'.name \in known'
    BY <1>2, <1>3, <1>4 DEF IsRequest
  <2>6. QED
    BY <2>1, <2>4, <2>5 DEF StreamOK
<1>6. \A c \in Clients : ~At(c, "off") => client[c].cmd # k
  BY <1>2, CmdIsLogin
<1>7. \A c \in Clients : At(c, "put") => client[c].data # k
  BY <1>2 DEF ProtoInv, PutInv, PutOK
<1>8. QED
  BY <1>2, <1>3, <1>4, <1>5, <1>6, <1>7, OtherTurn

\* Put keeps the protocol: an upload's stream is bytes, and its client is the
\* one that named the file.
LEMMA PutProto ==
  ASSUME ProtoInv, IInv', Put, UNCHANGED clientVars
  PROVE  RoleInv' /\ StreamInv' /\ CmdInv' /\ PutInv' /\ ListInv'
<1>1. PICK k : k = link
  OBVIOUS
<1>2. /\ k \in Conns /\ conn[k].server = "open" /\ Kind(k) = "NONE"
      /\ IsRequest(Stream(k)) /\ Header = Stream(k)[2] /\ Header.t = "PUT" /\ Header \in Cell
  BY <1>1, HeaderView DEF Put
<1>3. /\ conn'[k].server = "open" /\ conn'[k].client = conn[k].client
      /\ Len(conn'[k].up) = Len(Stream(k)) - HeaderCells /\ conn'[k].up \in Seq(Cell)
      /\ \A p \in 1..(Len(Stream(k)) - HeaderCells) : conn'[k].up[p] = Stream(k)[HeaderCells + p]
      /\ Ent(k)'.type = "PUT" /\ Ent(k)'.name = Header.user /\ Ent(k)'.meta = Header.meta
      /\ Ent(k)'.rbuf = <<>>
      /\ \A m \in Conns \ {k} : conn'[m] = conn[m] /\ Ent(m)' = Ent(m)
  BY <1>1, PutView
<1>4. UNCHANGED <<known, files>>
  BY DEF Put
<1>5. Kind(k)' = "PUT"
  BY <1>3 DEF Kind
<1>6. StreamOK(k)'
  <2>1. Stream(k)' = <<>> \o conn'[k].up
    BY <1>3 DEF Stream
  <2>2. <<>> \o conn'[k].up = conn'[k].up
    BY <1>3
  <2>3. Len(Stream(k)) \in Nat
    BY <1>2, Types DEF ProtoInv
  <2>4. \A p \in 1..Len(conn'[k].up) : conn'[k].up[p].t = "byte"
    <3>1. SUFFICES ASSUME NEW p \in 1..Len(conn'[k].up) PROVE conn'[k].up[p].t = "byte"
      OBVIOUS
    <3>2. p \in 1..(Len(Stream(k)) - HeaderCells) /\ HeaderCells + p \in 3..Len(Stream(k))
      BY <1>3, <2>3 DEF HeaderCells
    <3>3. QED
      BY <1>2, <1>3, <3>2 DEF IsRequest
  <2>5. AllBytes(Stream(k))'
    BY <2>1, <2>2, <2>4 DEF AllBytes
  <2>6. Ent(k)'.name \in known'
    BY <1>2, <1>3, <1>4 DEF IsRequest
  <2>7. Ent(k)'.meta \in Meta
    BY <1>2, <1>3 DEF Cell
  <2>8. Meta' = Meta
    BY DEF Meta
  <2>9. QED
    BY <1>5, <2>5, <2>6, <2>7, <2>8 DEF StreamOK
<1>7. \A c \in Clients : ~At(c, "off") => client[c].cmd # k
  BY <1>2, CmdIsLogin
<1>8. \A c \in Clients : At(c, "put") /\ client[c].data = k => PutOK(c)'
  BY <1>5 DEF PutOK, clientVars
<1>9. QED
  BY <1>2, <1>3, <1>4, <1>6, <1>7, <1>8, OtherTurn

-----------------------------------------------------------------------------
(* Runs of lists                                                           *)

\* The four things a cell of a run can be: the header of a list, its count, an
\* item of a list whose count is there, an item of the list that was begun.
HeaderAt(s, j) == s[j] = ListHeader /\ j < Len(s) /\ s[j + 1].t = "count"
CountAt(s, fs, j) ==
  /\ s[j].t = "count" /\ s[j].n <= Len(fs) /\ j + s[j].n <= Len(s)
  /\ \A i \in 1..s[j].n : s[j + i] = Item(fs[i])
  /\ j + s[j].n = Len(s) \/ s[j + s[j].n + 1] = ListHeader
ItemAt(s, j) == s[j].t = "meta" /\ \E h \in 1..(j - 1) : s[h].t = "count" /\ j <= h + s[h].n
RestAt(s, fs, from, j) ==
  /\ s[j].t = "meta" /\ from + j - 1 <= Len(fs) /\ s[j] = Item(fs[from + j - 1])
  /\ \A h \in 1..j : s[h].t = "meta"

\* The four cases of IsRunOfLists by their names.
LEMMA RunParts ==
  ASSUME NEW s, NEW fs, NEW from
  PROVE  IsRunOfLists(s, fs, from) <=>
           \A j \in 1..Len(s) : HeaderAt(s, j) \/ CountAt(s, fs, j) \/ ItemAt(s, j) \/ RestAt(s, fs, from, j)
BY DEF IsRunOfLists, HeaderAt, CountAt, ItemAt, RestAt

\* Two sequences of cells, one behind the other.
LEMMA Joined ==
  ASSUME NEW a \in Seq(Cell), NEW b \in Seq(Cell)
  PROVE  /\ a \o b \in Seq(Cell) /\ Len(a \o b) = Len(a) + Len(b)
         /\ \A p \in 1..Len(a) : (a \o b)[p] = a[p]
         /\ \A q \in 1..Len(b) : (a \o b)[Len(a) + q] = b[q]
<1>0. Len(a) \in Nat /\ Len(b) \in Nat
  OBVIOUS
<1>1. a \o b \in Seq(Cell) /\ Len(a \o b) = Len(a) + Len(b)
  BY ConcatProperties
<1>2. \A p \in 1..(Len(a) + Len(b)) : (a \o b)[p] = IF p <= Len(a) THEN a[p] ELSE b[p - Len(a)]
  BY ConcatProperties
<1>3. ASSUME NEW p \in 1..Len(a) PROVE (a \o b)[p] = a[p]
  <2>1. p \in 1..(Len(a) + Len(b)) /\ p <= Len(a)
    BY <1>0
  <2>2. QED
    BY <1>2, <2>1
<1>4. ASSUME NEW q \in 1..Len(b) PROVE (a \o b)[Len(a) + q] = b[q]
  <2> DEFINE p == Len(a) + q
  <2>1. p \in 1..(Len(a) + Len(b)) /\ ~(p <= Len(a)) /\ p - Len(a) = q
    BY <1>0
  <2> HIDE DEF p
  <2>2. (a \o b)[p] = b[q]
    BY <1>2, <2>1
  <2>3. QED
    BY <2>2 DEF p
<1>5. QED
  BY <1>1, <1>3, <1>4

\* What a list consists of.
LEMMA ListParts ==
  ASSUME NEW fs \in Seq(Meta)
  PROVE  /\ ListOf(fs) \in Seq(Cell) /\ Len(ListOf(fs)) = Len(fs) + 2
         /\ ListOf(fs)[1] = ListHeader /\ ListOf(fs)[2] = Count(Len(fs))
         /\ \A i \in 1..Len(fs) : ListOf(fs)[2 + i] = Item(fs[i])
<1> DEFINE a == <<ListHeader, Count(Len(fs))>>
           b == [k \in 1..Len(fs) |-> Item(fs[k])]
<1>0. Len(fs) \in Nat
  OBVIOUS
<1>1. a \in Seq(Cell) /\ Len(a) = 2 /\ a[1] = ListHeader /\ a[2] = Count(Len(fs))
  <2>1. ListHeader \in Cell /\ Count(Len(fs)) \in Cell
    BY <1>0 DEF Cell, ListHeader, Count
  <2>2. QED
    BY <2>1
<1>2. b \in Seq(Cell) /\ Len(b) = Len(fs) /\ \A i \in 1..Len(fs) : b[i] = Item(fs[i])
  <2>1. \A i \in 1..Len(fs) : Item(fs[i]) \in Cell
    BY DEF Cell, Item
  <2>2. QED
    BY <1>0, <2>1
<1>3. ListOf(fs) = a \o b
  BY DEF ListOf
<1> HIDE DEF a, b
<1>4. /\ a \o b \in Seq(Cell) /\ Len(a \o b) = Len(a) + Len(b)
      /\ \A p \in 1..Len(a) : (a \o b)[p] = a[p]
      /\ \A q \in 1..Len(b) : (a \o b)[Len(a) + q] = b[q]
  BY <1>1, <1>2, Joined
<1>5. 1 \in 1..Len(a) /\ 2 \in 1..Len(a)
  BY <1>1
<1>6. QED
  BY <1>0, <1>1, <1>2, <1>3, <1>4, <1>5

\* A list behind a run of lists, those being beginnings of its files, makes a
\* run of lists.
LEMMA RunPushed ==
  ASSUME NEW s \in Seq(Cell), NEW fs \in Seq(Meta), NEW gs \in Seq(Meta),
         NEW from \in Nat \ {0}, NEW next \in Nat \ {0},
         Len(fs) <= Len(gs), \A i \in 1..Len(fs) : gs[i] = fs[i],
         from = next \/ from = Len(fs) + 1,
         IsRunOfLists(s, fs, from)
  PROVE  IsRunOfLists(s \o ListOf(gs), gs, next)
<1> DEFINE l == ListOf(gs)
           r == s \o l
<1>0. Len(s) \in Nat /\ Len(fs) \in Nat /\ Len(gs) \in Nat
  OBVIOUS
<1>1. /\ l \in Seq(Cell) /\ Len(l) = Len(gs) + 2 /\ l[1] = ListHeader /\ l[2] = Count(Len(gs))
      /\ \A i \in 1..Len(gs) : l[2 + i] = Item(gs[i])
  BY ListParts
<1> HIDE DEF l
<1>2. /\ r \in Seq(Cell) /\ Len(r) = Len(s) + Len(l)
      /\ \A p \in 1..Len(s) : r[p] = s[p]
      /\ \A q \in 1..Len(l) : r[Len(s) + q] = l[q]
  BY <1>1, Joined
<1> HIDE DEF r
<1>3. Len(r) = Len(s) + Len(gs) + 2 /\ Len(r) \in Nat /\ \A p \in 1..Len(s) : r[p] = s[p]
  BY <1>0, <1>1, <1>2
<1>4. /\ r[Len(s) + 1] = ListHeader /\ r[Len(s) + 2] = Count(Len(gs))
      /\ \A i \in 1..Len(gs) : r[Len(s) + 2 + i] = Item(gs[i])
  <2>1. 1 \in 1..Len(l) /\ 2 \in 1..Len(l)
    BY <1>0, <1>1
  <2>2. \A i \in 1..Len(gs) : 2 + i \in 1..Len(l) /\ Len(s) + 2 + i = Len(s) + (2 + i)
    BY <1>0, <1>1
  <2>3. QED
    BY <1>1, <1>2, <2>1, <2>2
<1>5. Count(Len(gs)).t = "count" /\ Count(Len(gs)).n = Len(gs)
  BY DEF Count
<1>6. ASSUME NEW j \in 1..Len(s)
      PROVE  HeaderAt(r, j) \/ CountAt(r, gs, j) \/ ItemAt(r, j) \/ RestAt(r, gs, next, j)
  <2>0. r[j] = s[j] /\ (s[j].t = "count" => s[j].n \in Nat)
    BY <1>3, <1>6 DEF Cell
  <2>1. CASE HeaderAt(s, j)
    <3>1. j + 1 \in 1..Len(s) /\ j < Len(r)
      BY <1>0, <1>3, <2>1 DEF HeaderAt
    <3>2. QED
      BY <1>3, <2>0, <2>1, <3>1 DEF HeaderAt
  <2>2. CASE CountAt(s, fs, j)
    <3> DEFINE n == s[j].n
    <3>1. n \in Nat /\ n <= Len(fs) /\ n <= Len(gs) /\ j + n <= Len(s) /\ j + n <= Len(r)
      BY <1>0, <1>3, <2>0, <2>2 DEF CountAt
    <3> HIDE DEF n
    <3>2. \A i \in 1..n : r[j + i] = Item(gs[i])
      <4>1. SUFFICES ASSUME NEW i \in 1..n PROVE r[j + i] = Item(gs[i])
        OBVIOUS
      <4>2. j + i \in 1..Len(s) /\ i \in 1..Len(fs)
        BY <1>0, <3>1
      <4>3. s[j + i] = Item(fs[i])
        BY <2>2 DEF CountAt, n
      <4>4. QED
        BY <1>3, <4>2, <4>3
    <3>3. r[j + n + 1] = ListHeader
      <4>1. CASE j + n = Len(s)
        BY <1>0, <1>4, <4>1
      <4>2. CASE j + n # Len(s)
        <5>1. j + n + 1 \in 1..Len(s)
          BY <1>0, <3>1, <4>2
        <5>2. QED
          BY <1>3, <2>2, <4>2, <5>1 DEF CountAt, n
      <4>3. QED
        BY <4>1, <4>2
    <3>4. s[j].t = "count"
      BY <2>2 DEF CountAt
    <3>5. QED
      BY <2>0, <3>1, <3>2, <3>3, <3>4 DEF CountAt, n
  <2>3. CASE ItemAt(s, j)
    <3>1. \A h \in 1..(j - 1) : r[h] = s[h]
      BY <1>0, <1>3
    <3>2. QED
      BY <2>0, <2>3, <3>1 DEF ItemAt
  <2>4. CASE RestAt(s, fs, from, j)
    <3>1. from = next /\ from + j - 1 \in 1..Len(fs)
      BY <1>0, <2>4 DEF RestAt
    <3>2. \A h \in 1..j : r[h] = s[h]
      BY <1>0, <1>3
    <3> DEFINE q == from + j - 1
    <3>3. q \in 1..Len(fs) /\ q <= Len(gs) /\ s[j] = Item(fs[q]) /\ s[j].t = "meta"
      BY <1>0, <2>4, <3>1 DEF RestAt
    <3> HIDE DEF q
    <3>4. r[j] = Item(gs[q])
      BY <2>0, <3>3
    <3>5. \A h \in 1..j : r[h].t = "meta"
      BY <2>4, <3>2 DEF RestAt
    <3>6. RestAt(r, gs, next, j)
      BY <2>0, <3>1, <3>3, <3>4, <3>5 DEF RestAt, q
    <3>7. QED
      BY <3>6
  <2>5. QED
    BY <2>1, <2>2, <2>3, <2>4, RunParts
<1>7. ASSUME NEW j \in 1..Len(r), j > Len(s)
      PROVE  HeaderAt(r, j) \/ CountAt(r, gs, j) \/ ItemAt(r, j)
  <2>1. CASE j = Len(s) + 1
    <3>1. j + 1 = Len(s) + 2 /\ j < Len(r)
      BY <1>0, <1>3, <2>1
    <3>2. QED
      BY <1>4, <1>5, <2>1, <3>1 DEF HeaderAt
  <2>2. CASE j = Len(s) + 2
    <3>1. r[j].t = "count" /\ r[j].n = Len(gs) /\ j + Len(gs) = Len(r)
      BY <1>0, <1>3, <1>4, <1>5, <2>2
    <3>2. \A i \in 1..Len(gs) : r[j + i] = Item(gs[i])
      BY <1>4, <2>2
    <3>3. QED
      BY <1>0, <3>1, <3>2 DEF CountAt
  <2>3. CASE j > Len(s) + 2
    <3> DEFINE i == j - Len(s) - 2
               h == Len(s) + 2
    <3>1. i \in 1..Len(gs) /\ j = Len(s) + 2 + i /\ h \in 1..(j - 1) /\ j <= h + Len(gs)
      BY <1>0, <1>3, <2>3
    <3>2. r[j] = Item(gs[i])
      BY <1>4, <3>1
    <3>3. r[j].t = "meta"
      BY <3>2 DEF Item
    <3>4. r[h].t = "count" /\ r[h].n = Len(gs)
      BY <1>4, <1>5
    <3> HIDE DEF h, i
    <3>5. QED
      BY <3>1, <3>3, <3>4 DEF ItemAt
  <2>4. j \in Nat /\ Len(s) \in Nat
    BY <1>0, <1>7
  <2>5. j = Len(s) + 1 \/ j = Len(s) + 2 \/ j > Len(s) + 2
    BY <1>7, <2>4
  <2>6. QED
    BY <2>1, <2>2, <2>3, <2>5
<1>8. \A j \in 1..Len(r) : HeaderAt(r, j) \/ CountAt(r, gs, j) \/ ItemAt(r, j) \/ RestAt(r, gs, next, j)
  <2>1. SUFFICES ASSUME NEW j \in 1..Len(r)
                 PROVE  HeaderAt(r, j) \/ CountAt(r, gs, j) \/ ItemAt(r, j) \/ RestAt(r, gs, next, j)
    OBVIOUS
  <2>2. j \in 1..Len(s) \/ j > Len(s)
    BY <1>0, <1>3
  <2>3. QED
    BY <1>6, <1>7, <2>2
<1>9. QED
  BY <1>8, RunParts DEF l, r

\* What is left of a run whose first cell is read.
LEMMA RunTail ==
  ASSUME NEW s \in Seq(Cell), s # <<>>, NEW fs, NEW from \in Nat \ {0}, IsRunOfLists(s, fs, from)
  PROVE  /\ Tail(s) \in Seq(Cell) /\ Len(Tail(s)) = Len(s) - 1 /\ Len(s) \in Nat \ {0}
         /\ \A j \in 1..Len(Tail(s)) : Tail(s)[j] = s[j + 1]
         /\ \A j \in 1..Len(Tail(s)) :
              \/ HeaderAt(Tail(s), j) \/ CountAt(Tail(s), fs, j) \/ ItemAt(Tail(s), j)
              \/ s[1].t = "count" /\ j <= s[1].n /\ Tail(s)[j].t = "meta"
              \/ s[1].t = "meta" /\ RestAt(Tail(s), fs, from + 1, j)
<1> DEFINE r == Tail(s)
<1>0. Len(s) \in Nat \ {0} /\ r \in Seq(Cell) /\ Len(r) = Len(s) - 1 /\ Len(r) \in Nat
  OBVIOUS
<1>1. \A j \in 1..Len(r) : r[j] = s[j + 1]
  OBVIOUS
<1> HIDE DEF r
<1>2. ASSUME NEW j \in 1..Len(r)
      PROVE  \/ HeaderAt(r, j) \/ CountAt(r, fs, j) \/ ItemAt(r, j)
             \/ s[1].t = "count" /\ j <= s[1].n /\ r[j].t = "meta"
             \/ s[1].t = "meta" /\ RestAt(r, fs, from + 1, j)
  <2>0. /\ r[j] = s[j + 1] /\ j + 1 \in 1..Len(s) /\ (r[j].t = "count" => r[j].n \in Nat)
    BY <1>0, <1>1 DEF Cell
  <2>1. CASE HeaderAt(s, j + 1)
    <3>1. j < Len(r) /\ j + 1 \in 1..Len(r) /\ s[(j + 1) + 1].t = "count"
      BY <1>0, <2>1 DEF HeaderAt
    <3>2. r[j + 1].t = "count"
      BY <1>1, <3>1
    <3>3. QED
      BY <2>0, <2>1, <3>1, <3>2 DEF HeaderAt
  <2>2. CASE CountAt(s, fs, j + 1)
    <3> DEFINE n == r[j].n
    <3>1. /\ r[j].t = "count" /\ n \in Nat /\ n <= Len(fs) /\ (j + 1) + n <= Len(s)
          /\ \A i \in 1..n : s[(j + 1) + i] = Item(fs[i])
          /\ (j + 1) + n = Len(s) \/ s[(j + 1) + n + 1] = ListHeader
      BY <2>0, <2>2 DEF CountAt
    <3> HIDE DEF n
    <3>2. j + n <= Len(r) /\ (j + n # Len(r) => j + n + 1 \in 1..Len(r) /\ (j + 1) + n # Len(s))
      <4>1. n \in Nat /\ (j + 1) + n <= Len(s) /\ Len(r) = Len(s) - 1 /\ Len(s) \in Nat
        BY <1>0, <3>1
      <4>2. QED
        BY <4>1
    <3>3. \A i \in 1..n : r[j + i] = Item(fs[i])
      <4>1. SUFFICES ASSUME NEW i \in 1..n PROVE r[j + i] = Item(fs[i])
        OBVIOUS
      <4>2. j + i \in 1..Len(r) /\ (j + i) + 1 = (j + 1) + i
        BY <1>0, <3>1, <3>2
      <4>3. QED
        BY <1>1, <3>1, <4>2
    <3>4. j + n = Len(r) \/ r[j + n + 1] = ListHeader
      <4>1. (j + n + 1) + 1 = (j + 1) + n + 1
        BY <1>0, <3>1
      <4>2. QED
        BY <1>1, <3>1, <3>2, <4>1
    <3>5. QED
      BY <3>1, <3>2, <3>3, <3>4 DEF CountAt, n
  <2>3. CASE ItemAt(s, j + 1)
    <3>1. PICK h \in 1..((j + 1) - 1) : s[h].t = "count" /\ j + 1 <= h + s[h].n
      BY <2>3 DEF ItemAt
    <3>2. r[j].t = "meta"
      BY <2>0, <2>3 DEF ItemAt
    <3>3. h \in 1..Len(s) /\ s[h].n \in Nat
      BY <1>0, <3>1 DEF Cell
    <3>4. CASE h = 1
      <4>1. j <= s[1].n
        BY <3>1, <3>3, <3>4
      <4>2. QED
        BY <3>1, <3>2, <3>4, <4>1
    <3>5. CASE h # 1
      <4>1. h - 1 \in 1..(j - 1) /\ h - 1 \in 1..Len(r) /\ (h - 1) + 1 = h /\ j <= (h - 1) + s[h].n
        BY <1>0, <3>1, <3>3, <3>5, SMTT(30)
      <4>2. r[h - 1] = s[h]
        BY <1>1, <4>1
      <4>3. QED
        BY <3>1, <3>2, <4>1, <4>2 DEF ItemAt
    <3>6. QED
      BY <3>4, <3>5
  <2>4. CASE RestAt(s, fs, from, j + 1)
    <3>1. from + (j + 1) - 1 = (from + 1) + j - 1
      BY <1>0
    <3>2. r[j].t = "meta" /\ (from + 1) + j - 1 <= Len(fs) /\ r[j] = Item(fs[(from + 1) + j - 1])
      BY <2>0, <2>4, <3>1 DEF RestAt
    <3>3. \A h \in 1..(j + 1) : s[h].t = "meta"
      BY <2>4 DEF RestAt
    <3>4. \A h \in 1..j : h \in 1..Len(r) /\ h + 1 \in 1..(j + 1) /\ 1 \in 1..(j + 1)
      BY <1>0
    <3>5. \A h \in 1..j : r[h].t = "meta"
      BY <1>1, <3>3, <3>4
    <3>6. 1 \in 1..(j + 1)
      BY <1>0
    <3>7. QED
      BY <3>2, <3>3, <3>5, <3>6 DEF RestAt
  <2>5. QED
    BY <2>0, <2>1, <2>2, <2>3, <2>4, RunParts
<1>3. QED
  BY <1>0, <1>1, <1>2 DEF r

\* Nothing is there to be read.
LEMMA ListNone ==
  ASSUME NEW pc, NEW left, NEW fs, pc \notin {"count", "metas"}
  PROVE  ListState(pc, left, <<>>, fs)
<1>1. Len(<<>>) = 0
  OBVIOUS
<1>2. IsRunOfLists(<<>>, fs, Len(fs) + 1)
  BY <1>1 DEF IsRunOfLists
<1>3. QED
  BY <1>2 DEF ListState

\* A list is pushed behind what is there.
LEMMA ListPushed ==
  ASSUME NEW pc, NEW left \in Nat, NEW s \in Seq(Cell), NEW fs \in Seq(Meta), NEW m \in Meta,
         ListState(pc, left, s, fs)
  PROVE  ListState(pc, left, s \o ListOf(Append(fs, m)), Append(fs, m))
<1> DEFINE gs == Append(fs, m)
           l  == ListOf(gs)
           r  == s \o l
<1>0. Len(s) \in Nat /\ Len(fs) \in Nat
  OBVIOUS
<1>1. gs \in Seq(Meta) /\ Len(gs) = Len(fs) + 1 /\ \A i \in 1..Len(fs) : gs[i] = fs[i]
  OBVIOUS
<1> HIDE DEF gs
<1>2. l \in Seq(Cell) /\ Len(l) = Len(gs) + 2 /\ l[1] = ListHeader
  BY <1>1, ListParts
<1>3. /\ r \in Seq(Cell) /\ Len(r) = Len(s) + Len(l)
      /\ \A p \in 1..Len(s) : r[p] = s[p]
      /\ \A q \in 1..Len(l) : r[Len(s) + q] = l[q]
  BY <1>2, Joined
<1>4. \A from, next \in Nat \ {0} : /\ from = next \/ from = Len(fs) + 1
                                    /\ IsRunOfLists(s, fs, from)
                                    => IsRunOfLists(r, gs, next)
  BY <1>0, <1>1, RunPushed
<1> HIDE DEF l, r
<1>5. Len(r) = Len(s) + Len(fs) + 3 /\ r[Len(s) + 1] = ListHeader
  <2>1. 1 \in 1..Len(l)
    BY <1>0, <1>1, <1>2
  <2>2. QED
    BY <1>0, <1>1, <1>2, <1>3, <2>1
<1> SUFFICES ListState(pc, left, r, gs)
  BY DEF r, l, gs
<1>6. CASE pc = "count"
  <2>1. s # <<>> /\ s[1].t = "count" /\ IsRunOfLists(s, fs, Len(fs) + 1)
    BY <1>6 DEF ListState
  <2>2. 1 \in 1..Len(s) /\ r # <<>>
    BY <1>0, <1>5, <2>1
  <2>3. r[1].t = "count"
    BY <1>3, <2>1, <2>2
  <2>4. IsRunOfLists(r, gs, Len(gs) + 1)
    BY <1>0, <1>1, <1>4, <2>1
  <2>5. QED
    BY <1>6, <2>2, <2>3, <2>4 DEF ListState
<1>7. CASE pc = "metas"
  <2>1. PICK from \in 1..(Len(fs) - left + 1) : IsRunOfLists(s, fs, from)
    BY <1>7 DEF ListState
  <2>2. from \in 1..(Len(gs) - left + 1) /\ from \in Nat \ {0}
    BY <1>0, <1>1
  <2>3. IsRunOfLists(r, gs, from)
    BY <1>4, <2>1, <2>2
  <2>4. /\ left <= Len(s) /\ \A j \in 1..left : s[j].t = "meta"
        /\ left = Len(s) \/ s[left + 1] = ListHeader
    BY <1>7 DEF ListState
  <2>5. left <= Len(r) /\ \A j \in 1..left : r[j].t = "meta"
    <3>1. left <= Len(r) /\ \A j \in 1..left : j \in 1..Len(s)
      BY <1>0, <1>5, <2>4
    <3>2. QED
      BY <1>3, <2>4, <3>1
  <2>6. r[left + 1] = ListHeader
    <3>1. CASE left = Len(s)
      BY <1>5, <3>1
    <3>2. CASE left # Len(s)
      <4>1. left + 1 \in 1..Len(s)
        BY <1>0, <2>4, <3>2
      <4>2. QED
        BY <1>3, <2>4, <3>2, <4>1
    <3>3. QED
      BY <3>1, <3>2
  <2>7. QED
    BY <1>7, <2>2, <2>3, <2>5, <2>6 DEF ListState
<1>8. CASE pc \notin {"count", "metas"}
  <2>1. (s = <<>> \/ s[1] = ListHeader) /\ IsRunOfLists(s, fs, Len(fs) + 1)
    BY <1>8 DEF ListState
  <2>2. r[1] = ListHeader
    <3>1. CASE s = <<>>
      <4>1. Len(s) = 0
        BY <3>1
      <4>2. QED
        BY <1>5, <4>1
    <3>2. CASE s # <<>>
      <4>1. 1 \in 1..Len(s)
        BY <1>0, <3>2
      <4>2. QED
        BY <1>3, <2>1, <3>2, <4>1
    <3>3. QED
      BY <3>1, <3>2
  <2>3. IsRunOfLists(r, gs, Len(gs) + 1)
    BY <1>0, <1>1, <1>4, <2>1
  <2>4. QED
    BY <1>8, <2>2, <2>3 DEF ListState
<1>9. QED
  BY <1>6, <1>7, <1>8

\* A list is all there is to be read.
LEMMA ListFresh ==
  ASSUME NEW pc, NEW left, NEW fs \in Seq(Meta), pc \notin {"count", "metas"}
  PROVE  ListState(pc, left, ListOf(fs), fs)
<1>0. Len(fs) \in Nat
  OBVIOUS
<1>1. ListOf(fs) \in Seq(Cell) /\ ListOf(fs)[1] = ListHeader
  BY ListParts
<1>2. <<>> \in Seq(Cell) /\ IsRunOfLists(<<>>, fs, Len(fs) + 1)
  <2>1. Len(<<>>) = 0 /\ <<>> \in Seq(Cell)
    OBVIOUS
  <2>2. QED
    BY <2>1 DEF IsRunOfLists
<1>3. IsRunOfLists(<<>> \o ListOf(fs), fs, Len(fs) + 1)
  <2>1. Len(fs) + 1 \in Nat \ {0} /\ Len(fs) <= Len(fs)
    BY <1>0
  <2>2. QED
    BY <1>2, <2>1, RunPushed
<1>4. <<>> \o ListOf(fs) = ListOf(fs)
  BY <1>1
<1>5. QED
  BY <1>1, <1>3, <1>4 DEF ListState

\* The header of a list is read: its count is next.
LEMMA HeaderRead ==
  ASSUME NEW pc, NEW left, NEW s \in Seq(Cell), NEW fs \in Seq(Meta), ListState(pc, left, s, fs),
         pc \notin {"count", "metas"}, s # <<>>
  PROVE  ListState("count", left, Tail(s), fs)
<1> DEFINE r == Tail(s)
<1>0. Len(fs) \in Nat /\ Len(fs) + 1 \in Nat \ {0}
  OBVIOUS
<1>1. s[1] = ListHeader /\ IsRunOfLists(s, fs, Len(fs) + 1)
  BY DEF ListState
<1>2. s[1].t = "LIST"
  BY <1>1 DEF ListHeader
<1>3. /\ r \in Seq(Cell) /\ Len(r) = Len(s) - 1 /\ Len(s) \in Nat \ {0}
      /\ \A j \in 1..Len(r) : r[j] = s[j + 1]
      /\ \A j \in 1..Len(r) :
           \/ HeaderAt(r, j) \/ CountAt(r, fs, j) \/ ItemAt(r, j)
           \/ s[1].t = "count" /\ j <= s[1].n /\ r[j].t = "meta"
           \/ s[1].t = "meta" /\ RestAt(r, fs, (Len(fs) + 1) + 1, j)
  BY <1>0, <1>1, RunTail
<1> HIDE DEF r
<1>4. IsRunOfLists(r, fs, Len(fs) + 1)
  BY <1>2, <1>3, RunParts
<1>5. r # <<>> /\ r[1].t = "count"
  <2>1. 1 \in 1..Len(s)
    BY <1>3
  <2>2. HeaderAt(s, 1)
    BY <1>1, <1>2, <2>1, RunParts DEF CountAt, ItemAt, RestAt
  <2>3. 1 < Len(s) /\ s[1 + 1].t = "count"
    BY <2>2 DEF HeaderAt
  <2>4. 1 \in 1..Len(r)
    BY <1>3, <2>3
  <2>5. QED
    BY <1>3, <2>3, <2>4
<1>6. QED
  BY <1>4, <1>5 DEF ListState, r

\* The count is read: that many items are next, if it is not zero.
LEMMA CountRead ==
  ASSUME NEW left, NEW s \in Seq(Cell), NEW fs \in Seq(Meta), ListState("count", left, s, fs),
         NEW pc, pc # "count", pc = "metas" <=> s[1].n > 0
  PROVE  s # <<>> /\ s[1].n \in Nat /\ ListState(pc, s[1].n, Tail(s), fs)
<1> DEFINE r == Tail(s)
           n == s[1].n
<1>0. Len(fs) \in Nat /\ Len(fs) + 1 \in Nat \ {0} /\ Len(s) \in Nat
  OBVIOUS
<1>1. s # <<>> /\ s[1].t = "count" /\ IsRunOfLists(s, fs, Len(fs) + 1)
  BY DEF ListState
<1>2. 1 \in 1..Len(s)
  BY <1>0, <1>1
<1>3. n \in Nat
  BY <1>1, <1>2 DEF Cell
<1>4. CountAt(s, fs, 1)
  BY <1>1, <1>2, RunParts DEF HeaderAt, ListHeader, ItemAt, RestAt
<1>5. /\ r \in Seq(Cell) /\ Len(r) = Len(s) - 1
      /\ \A j \in 1..Len(r) : r[j] = s[j + 1]
      /\ \A j \in 1..Len(r) :
           \/ HeaderAt(r, j) \/ CountAt(r, fs, j) \/ ItemAt(r, j)
           \/ s[1].t = "count" /\ j <= s[1].n /\ r[j].t = "meta"
           \/ s[1].t = "meta" /\ RestAt(r, fs, (Len(fs) + 1) + 1, j)
  BY <1>0, <1>1, RunTail
<1>6. /\ n <= Len(fs) /\ 1 + n <= Len(s)
      /\ \A i \in 1..n : s[1 + i] = Item(fs[i])
      /\ 1 + n = Len(s) \/ s[1 + n + 1] = ListHeader
  BY <1>4 DEF CountAt
<1>7. pc = "metas" <=> n > 0
  OBVIOUS
<1> HIDE DEF r, n
<1>8. /\ n <= Len(r)
      /\ \A i \in 1..n : i \in 1..Len(r) /\ i + 1 = 1 + i /\ i \in 1..Len(fs)
      /\ n # Len(r) => n + 1 \in 1..Len(r) /\ 1 + n # Len(s) /\ (n + 1) + 1 = 1 + n + 1
  <2>1. n \in Nat /\ Len(r) = Len(s) - 1 /\ n <= Len(fs) /\ 1 + n <= Len(s)
    BY <1>3, <1>5, <1>6
  <2>2. QED
    BY <1>0, <2>1
<1>9. /\ \A i \in 1..n : r[i] = Item(fs[i])
      /\ n = Len(r) \/ r[n + 1] = ListHeader
  BY <1>5, <1>6, <1>8
<1>10. \A i \in 1..n : r[i].t = "meta"
  <2>1. \A m : Item(m).t = "meta"
    BY DEF Item
  <2>2. QED
    BY <1>9, <2>1
<1>11. CASE n > 0
  <2>1. 1 \in 1..(Len(fs) - n + 1)
    BY <1>0, <1>3, <1>6
  <2>2. ASSUME NEW j \in 1..Len(r)
        PROVE  HeaderAt(r, j) \/ CountAt(r, fs, j) \/ ItemAt(r, j) \/ RestAt(r, fs, 1, j)
    <3>1. CASE j <= n
      <4>1. j \in 1..n /\ 1 + j - 1 = j /\ \A h \in 1..j : h \in 1..n
        BY <1>0, <1>3, <3>1
      <4>2. r[j] = Item(fs[j]) /\ r[j].t = "meta" /\ \A h \in 1..j : r[h].t = "meta"
        BY <1>9, <1>10, <4>1
      <4>3. j <= Len(fs)
        BY <1>8, <4>1
      <4>4. RestAt(r, fs, 1, j)
        BY <4>1, <4>2, <4>3 DEF RestAt
      <4>5. QED
        BY <4>4
    <3>2. CASE ~(j <= n)
      BY <1>1, <1>5, <3>2 DEF n
    <3>3. QED
      BY <3>1, <3>2
  <2>3. IsRunOfLists(r, fs, 1)
    BY <2>2, RunParts
  <2>4. ListState("metas", n, r, fs)
    BY <1>8, <1>9, <1>10, <2>1, <2>3 DEF ListState
  <2>5. QED
    BY <1>1, <1>3, <1>7, <1>11, <2>4 DEF r, n
<1>12. CASE ~(n > 0)
  <2>1. n = 0
    BY <1>3, <1>12
  <2>2. \A j \in 1..Len(r) : ~(j <= n)
    BY <2>1
  <2>3. \A j \in 1..Len(r) : HeaderAt(r, j) \/ CountAt(r, fs, j) \/ ItemAt(r, j)
    BY <1>1, <1>5, <2>2 DEF n
  <2>4. IsRunOfLists(r, fs, Len(fs) + 1)
    BY <2>3, RunParts
  <2>5. r = <<>> \/ r[1] = ListHeader
    BY <1>5, <1>9, <2>1
  <2>6. ListState(pc, n, r, fs)
    BY <1>7, <1>12, <2>4, <2>5 DEF ListState
  <2>7. QED
    BY <1>1, <1>3, <2>6 DEF r, n
<1>13. QED
  BY <1>11, <1>12

\* An item is read: the next ones follow, or the next list.
LEMMA ItemRead ==
  ASSUME NEW left \in Nat \ {0}, NEW s \in Seq(Cell), NEW fs \in Seq(Meta), ListState("metas", left, s, fs),
         NEW pc, pc # "count", pc = "metas" <=> left - 1 > 0
  PROVE  s # <<>> /\ s[1].t = "meta" /\ ListState(pc, left - 1, Tail(s), fs)
<1> DEFINE r == Tail(s)
<1>0. Len(fs) \in Nat /\ Len(fs) + 1 \in Nat \ {0} /\ Len(s) \in Nat
  OBVIOUS
<1>1. /\ left <= Len(s) /\ \A j \in 1..left : s[j].t = "meta"
      /\ left = Len(s) \/ s[left + 1] = ListHeader
  BY DEF ListState
<1>2. PICK from \in 1..(Len(fs) - left + 1) : IsRunOfLists(s, fs, from)
  BY DEF ListState
<1>3. s # <<>> /\ 1 \in 1..left /\ s[1].t = "meta"
  BY <1>0, <1>1
<1>4. from \in Nat \ {0} /\ from + left - 1 <= Len(fs)
  BY <1>0, <1>2
<1>5. /\ r \in Seq(Cell) /\ Len(r) = Len(s) - 1
      /\ \A j \in 1..Len(r) : r[j] = s[j + 1]
      /\ \A j \in 1..Len(r) :
           \/ HeaderAt(r, j) \/ CountAt(r, fs, j) \/ ItemAt(r, j)
           \/ s[1].t = "count" /\ j <= s[1].n /\ r[j].t = "meta"
           \/ s[1].t = "meta" /\ RestAt(r, fs, from + 1, j)
  BY <1>2, <1>3, <1>4, RunTail
<1> HIDE DEF r
<1>6. IsRunOfLists(r, fs, from + 1)
  BY <1>3, <1>5, RunParts
<1>7. CASE left - 1 > 0
  <2>1. /\ left - 1 <= Len(r) /\ \A j \in 1..(left - 1) : j \in 1..Len(r) /\ j + 1 \in 1..left
        /\ left - 1 # Len(r) => left \in 1..Len(r) /\ left # Len(s)
        /\ (left - 1) + 1 = left
    BY <1>0, <1>1, <1>5
  <2>2. \A j \in 1..(left - 1) : r[j].t = "meta"
    BY <1>1, <1>5, <2>1
  <2>3. left - 1 = Len(r) \/ r[(left - 1) + 1] = ListHeader
    BY <1>1, <1>5, <2>1
  <2>4. from + 1 \in 1..(Len(fs) - (left - 1) + 1)
    BY <1>0, <1>4
  <2>5. ListState("metas", left - 1, r, fs)
    BY <1>6, <2>1, <2>2, <2>3, <2>4 DEF ListState
  <2>6. QED
    BY <1>3, <1>7, <2>5 DEF r
<1>8. CASE ~(left - 1 > 0)
  <2>1. left = 1
    BY <1>8
  <2>2. r = <<>> \/ (1 \in 1..Len(r) /\ r[1] = ListHeader)
    <3>1. CASE Len(r) = 0
      BY <1>5, <3>1
    <3>2. CASE Len(r) # 0
      <4>1. 1 \in 1..Len(r) /\ 1 # Len(s)
        BY <1>0, <1>5, <3>2
      <4>2. QED
        BY <1>1, <1>5, <2>1, <4>1
    <3>3. QED
      BY <3>1, <3>2
  <2>3. ASSUME NEW j \in 1..Len(r)
        PROVE  HeaderAt(r, j) \/ CountAt(r, fs, j) \/ ItemAt(r, j) \/ RestAt(r, fs, Len(fs) + 1, j)
    <3>1. r[1] = ListHeader /\ 1 \in 1..j
      BY <2>2, <2>3
    <3>2. r[1].t # "meta"
      BY <3>1 DEF ListHeader
    <3>3. ~RestAt(r, fs, from + 1, j)
      BY <3>1, <3>2 DEF RestAt
    <3>4. QED
      BY <1>3, <1>5, <3>3
  <2>4. IsRunOfLists(r, fs, Len(fs) + 1)
    BY <2>3, RunParts
  <2>5. ListState(pc, left - 1, r, fs)
    BY <1>8, <2>2, <2>4 DEF ListState
  <2>6. QED
    BY <1>3, <2>5 DEF r
<1>9. QED
  BY <1>7, <1>8

\* Where the client is makes no difference when it reads no list.
LEMMA ListElsewhere ==
  ASSUME NEW pc, NEW left, NEW s, NEW fs, ListState(pc, left, s, fs),
         NEW q, NEW more, pc \notin {"count", "metas"}, q \notin {"count", "metas"}
  PROVE  ListState(q, more, s, fs)
BY DEF ListState

-----------------------------------------------------------------------------
(* Logins and uploads                                                      *)

\* A login makes a connection a command connection and sends the list.
LEMMA LoginProto ==
  ASSUME ProtoInv, IInv', Login, UNCHANGED clientVars
  PROVE  RoleInv' /\ StreamInv' /\ CmdInv' /\ PutInv' /\ ListInv'
<1>1. PICK k : k = link
  OBVIOUS
<1>2. /\ k \in Conns /\ conn[k].server = "open" /\ Kind(k) = "NONE"
      /\ IsRequest(Stream(k)) /\ Header = Stream(k)[2] /\ Header.t = "LOGIN" /\ Header \in Cell
  BY <1>1, HeaderView DEF Login
<1>3. /\ conn'[k].server = "open" /\ conn'[k].client = conn[k].client
      /\ Len(conn'[k].up) = Len(Stream(k)) - HeaderCells /\ conn'[k].up \in Seq(Cell)
      /\ conn'[k].down = <<>>
      /\ Ent(k)'.type = "CMD" /\ Ent(k)'.name = Header.user
      /\ Ent(k)'.rbuf = <<>> /\ Ent(k)'.wbuf = ListOf(files[Header.user])
      /\ \A m \in Conns \ {k} : conn'[m] = conn[m] /\ Ent(m)' = Ent(m)
  BY <1>1, LoginView
<1>4. files' = files /\ known' = known \cup {Header.user} /\ client' = client
  BY DEF Login, clientVars
<1>5. Kind(k)' = "CMD"
  BY <1>3 DEF Kind
<1>6. StreamOK(k)'
  <2>1. Len(conn'[k].up) = 0
    BY <1>2, <1>3 DEF IsRequest, HeaderCells
  <2>2. conn'[k].up = <<>>
    BY <1>3, <2>1
  <2>3. Stream(k)' = <<>>
    BY <1>3, <2>2 DEF Stream
  <2>4. QED
    BY <1>3, <1>4, <1>5, <2>3 DEF StreamOK
<1>7. \A c \in Clients : ~At(c, "off") /\ client[c].cmd = k =>
        Header.user = client[c].user /\ At(c, "login")
  BY <1>2, CmdIsLogin DEF ProtoInv, CmdInv, CmdOK
<1>8. \A c \in Clients : ~At(c, "off") /\ client[c].cmd = k => CmdOK(c)'
  BY <1>3, <1>4, <1>5, <1>7 DEF CmdOK
<1>9. \A c \in Clients : At(c, "put") => client[c].data # k
  BY <1>2 DEF ProtoInv, PutInv, PutOK
<1>10. \A m \in Conns \ {k} : Kept(m)
  BY <1>3, SameKept DEF ProtoInv
<1>11. RoleInv' /\ StreamInv' /\ CmdInv' /\ PutInv'
  BY <1>2, <1>3, <1>4, <1>6, <1>8, <1>9, <1>10, TurnRoles
<1>12. ASSUME NEW c \in Clients, ~At(c, "off") PROVE ListOK(c)'
  <2>1. client[c].cmd \in Conns /\ client[c].user \in Users /\ ListOK(c)
    BY <1>12, ClientTypes DEF ProtoInv, ListInv
  <2>2. PICK m : m = client[c].cmd
    OBVIOUS
  <2>3. CASE m = k
    <3>1. files[client[c].user] \in Seq(Meta)
      BY <2>1 DEF ProtoInv, SystemTypes
    <3>2. ListState(client[c].pc, client[c].tCount, ListOf(files[client[c].user]), files[client[c].user])
      BY <1>7, <1>12, <2>2, <2>3, <3>1, ListFresh DEF At
    <3>3. Pending(k)' = <<>> \o ListOf(files[client[c].user])
      BY <1>3, <1>7, <1>12, <2>2, <2>3 DEF Pending
    <3>4. <<>> \o ListOf(files[client[c].user]) = ListOf(files[client[c].user])
      BY <3>1, ListParts
    <3>5. QED
      BY <1>4, <2>2, <2>3, <3>2, <3>3, <3>4 DEF ListOK
  <2>4. CASE m # k
    <3>1. Pending(m)' = Pending(m)
      BY <1>3, <2>1, <2>2, <2>4 DEF Pending
    <3>2. QED
      BY <1>4, <2>1, <2>2, <3>1 DEF ListOK
  <2>5. QED
    BY <2>3, <2>4
<1>13. ListInv'
  BY <1>4, <1>12 DEF ListInv, At
<1>14. QED
  BY <1>11, <1>13

\* An upload that is stored is listed to the command connections of its user.
LEMMA StoreProto ==
  ASSUME ProtoInv, IInv', StoreFile, UNCHANGED clientVars
  PROVE  RoleInv' /\ StreamInv' /\ CmdInv' /\ PutInv' /\ ListInv'
<1>1. PICK k : k = link
  OBVIOUS
<1>2. /\ k \in Conns /\ Kind(k) = "PUT" /\ Kind(k)' = "gone" /\ conn'[k] = ServerClosed(conn[k])
      /\ files' = [files EXCEPT ![Ent(k).name] = Append(@, Ent(k).meta)]
      /\ \A m \in Conns \ {k} :
           /\ conn'[m] = conn[m]
           /\ Ent(m)' = IF IsTold(Ent(m), Ent(k).name) THEN Listed(Ent(m), files') ELSE Ent(m)
  BY <1>1, StoreView
<1>3. /\ conn'[k].client = conn[k].client /\ conn'[k].up = <<>>
      /\ conn'[k].server = "none" => ~conn'[k].client
  <2>1. conn[k] \in Connection /\ DOMAIN conn[k] = ConnFields
    BY <1>2 DEF ProtoInv, SystemTypes, IInv, NetInv
  <2>2. conn[k].client \in BOOLEAN
    BY <2>1 DEF Connection
  <2>3. QED
    BY <1>2, <2>1, <2>2, ClosedAtServer
<1>4. known' = known /\ client' = client /\ IInv /\ SystemTypes /\ StreamInv
  BY DEF StoreFile, clientVars, ProtoInv
<1>5. \A m \in Conns : Ent(m) \in TableEntry /\ DOMAIN Ent(m) = EntryFields
  BY <1>4, Types DEF TableEntry, EntryFields
<1>6. \A m \in Conns \ {k} : Kept(m)
  <2>1. SUFFICES ASSUME NEW m \in Conns \ {k} PROVE Kept(m)
    OBVIOUS
  <2>2. CASE IsTold(Ent(m), Ent(k).name)
    <3>1. Ent(m)' = SetData(Ent(m), ListOf(files'[Ent(m).name])) /\ Ent(m).type = "CMD"
      BY <1>2, <2>2 DEF Listed, IsTold
    <3>2. QED
      BY <1>2, <1>4, <1>5, <3>1, SameKept
  <2>3. CASE ~IsTold(Ent(m), Ent(k).name)
    BY <1>2, <1>4, <2>3, SameKept
  <2>4. QED
    BY <2>2, <2>3
<1>7. \A c \in Clients : ~At(c, "off") => client[c].cmd # k
  BY <1>2 DEF ProtoInv, CmdInv, CmdOK
<1>8. \A c \in Clients : At(c, "put") /\ client[c].data = k => PutOK(c)'
  BY <1>2, <1>4 DEF PutOK
<1>9. StreamOK(k)'
  BY <1>2, <1>3, GoneStream
<1>10. RoleInv' /\ StreamInv' /\ CmdInv' /\ PutInv'
  BY <1>2, <1>3, <1>4, <1>6, <1>7, <1>8, <1>9, TurnRoles
<1>11. ASSUME NEW c \in Clients, ~At(c, "off") PROVE ListOK(c)'
  <2>1. client[c].cmd \in Conns \ {k} /\ client[c].user \in Users /\ ListOK(c) /\ CmdOK(c)
    BY <1>7, <1>11, ClientTypes DEF ProtoInv, ListInv, CmdInv
  <2>2. PICK m : m = client[c].cmd
    OBVIOUS
  <2> DEFINE u  == client[c].user
             fs == files[u]
             d  == conn[m].down
             w  == Ent(m).wbuf
  <2>3. fs \in Seq(Meta) /\ d \in Seq(Cell) /\ w \in Seq(Cell) /\ DOMAIN files = Users
    BY <1>4, <2>1, <2>2, Types DEF SystemTypes
  <2>3a. client[c].tCount \in Nat
    BY <1>4, <1>11, ClientTypes DEF Online
  <2>4. CASE Kind(m) = "NONE"
    <3>1. At(c, "login") /\ d = <<>> /\ w = <<>> /\ Ent(m).type = "NONE"
      BY <1>4, <2>1, <2>2, <2>4 DEF CmdOK, StreamInv, StreamOK, Kind
    <3>2. Pending(m)' = <<>>
      <4>1. ~IsTold(Ent(m), Ent(k).name)
        BY <3>1 DEF IsTold
      <4>2. Ent(m)' = Ent(m) /\ conn'[m] = conn[m]
        BY <1>2, <2>1, <2>2, <4>1
      <4>3. Pending(m)' = <<>> \o <<>>
        BY <3>1, <4>2 DEF Pending
      <4>4. QED
        BY <4>3
    <3>3. ListState(client[c].pc, client[c].tCount, <<>>, files'[u])
      BY <3>1, ListNone DEF At
    <3>4. QED
      BY <1>4, <2>2, <3>2, <3>3 DEF ListOK
  <2>5. CASE Kind(m) = "CMD" /\ u = Ent(k).name
    <3>1. Ent(m).name = u /\ Ent(m).type = "CMD" /\ Ent(m).used
      <4>1. conn[m].server = "open" /\ Ent(m).type = "CMD"
        BY <1>2, <1>4, <2>1, <2>2, <2>5, Types DEF Kind, Ent, NoEntry
      <4>2. PICK i \in Live : Ent(m) = entry[i] /\ i \in UsedEntries
        BY <1>4, <2>1, <2>2, <4>1, Links DEF LinksOK
      <4>3. QED
        BY <2>1, <2>2, <2>5, <4>1, <4>2 DEF CmdOK, UsedEntries
    <3>2. Ent(k).meta \in Meta
      BY <1>2, <1>4 DEF StreamInv, StreamOK
    <3> DEFINE gs == Append(fs, Ent(k).meta)
    <3>3. files'[u] = gs
      BY <1>2, <2>1, <2>3, <2>5
    <3>4. Ent(m)'.wbuf = w \o ListOf(gs) /\ conn'[m] = conn[m]
      <4>1. Ent(m)' = Listed(Ent(m), files')
        BY <1>2, <2>1, <2>2, <2>5, <3>1 DEF IsTold
      <4>2. Ent(m)'.wbuf = w \o ListOf(files'[Ent(m).name])
        BY <1>5, <2>1, <2>2, <4>1 DEF Listed, SetData, EntryFields
      <4>3. QED
        BY <1>2, <2>1, <2>2, <3>1, <3>3, <4>2
    <3>5. ListOf(gs) \in Seq(Cell)
      <4> HIDE DEF fs
      <4>1. gs \in Seq(Meta)
        BY <2>3, <3>2
      <4> HIDE DEF gs
      <4>2. QED
        BY <4>1, ListParts
    <3>6. Pending(m)' = (d \o w) \o ListOf(gs)
      <4>1. \A r, s, t \in Seq(Cell) : (r \o s) \o t = r \o (s \o t)
        BY ConcatAssociative
      <4> HIDE DEF gs, d, w
      <4>2. (d \o w) \o ListOf(gs) = d \o (w \o ListOf(gs))
        BY <2>3, <3>5, <4>1
      <4>3. QED
        BY <3>4, <4>2 DEF Pending, d, w
    <3>7. d \o w = Pending(client[c].cmd) /\ d \o w \in Seq(Cell)
      BY <2>2, <2>3, Joined DEF Pending
    <3>8. ListState(client[c].pc, client[c].tCount, (d \o w) \o ListOf(gs), gs)
      <4>1. ListState(client[c].pc, client[c].tCount, d \o w, fs)
        BY <2>1, <3>7 DEF ListOK
      <4> HIDE DEF d, w, fs
      <4>2. QED
        BY <2>3, <2>3a, <3>2, <3>7, <4>1, ListPushed
    <3>9. QED
      BY <1>4, <2>2, <3>3, <3>6, <3>8 DEF ListOK
  <2>6. CASE Kind(m) = "CMD" /\ u # Ent(k).name
    <3>1. Ent(m).name = u
      BY <2>1, <2>2, <2>6 DEF CmdOK
    <3>2. Ent(m)' = Ent(m) /\ conn'[m] = conn[m] /\ files'[u] = files[u]
      BY <1>2, <2>1, <2>2, <2>3, <2>6, <3>1 DEF IsTold
    <3>3. Pending(m)' = Pending(m)
      BY <3>2 DEF Pending
    <3>4. QED
      BY <1>4, <2>1, <2>2, <3>2, <3>3 DEF ListOK
  <2>7. QED
    BY <2>1, <2>2, <2>4, <2>5, <2>6 DEF CmdOK
<1>12. ListInv'
  BY <1>4, <1>11 DEF ListInv, At
<1>13. QED
  BY <1>10, <1>12

\* Every step of the server keeps what is on the connections in order.
LEMMA ServerProto ==
  ASSUME ProtoInv, IInv', Server, UNCHANGED clientVars
  PROVE  RoleInv' /\ StreamInv' /\ CmdInv' /\ PutInv' /\ ListInv'
BY QuietStep, HangUpProto, LoginProto, GetProto, PutProto, StoreProto, EndGetProto
   DEF Server, QuietServer

-----------------------------------------------------------------------------
(* The clients                                                             *)

\* A connection client c may do something to: its own ones, and free ones.
Owned(c, k) == (~At(c, "off") /\ k \in {client[c].cmd, client[c].data}) \/ conn[k].server = "none"

\* A client that does something to such connections only does nothing to those
\* of the other clients.
LEMMA OthersKeep ==
  ASSUME RoleInv, SystemTypes, NEW c \in Clients, NEW d \in Clients \ {c}, ~At(d, "off")
  PROVE  /\ client[d].cmd \in Conns /\ ~Owned(c, client[d].cmd)
         /\ client[d].data # 0 => client[d].data \in Conns /\ ~Owned(c, client[d].data)
<1>1. client[d].cmd \in Conns /\ client[d].data \in Conns \cup {0}
  BY ClientTypes
<1>2. /\ conn[client[d].cmd].client
      /\ client[d].data # 0 => conn[client[d].data].client
  BY DEF RoleInv, RoleOK
<1>3. /\ conn[client[d].cmd].server # "none"
      /\ client[d].data # 0 => conn[client[d].data].server # "none"
  BY <1>1, <1>2 DEF RoleInv
<1>4. ~At(c, "off") => /\ client[d].cmd # client[c].cmd /\ client[d].cmd # client[c].data
                       /\ client[d].data # client[c].cmd
                       /\ client[d].data = client[c].data => client[d].data = 0
  BY DEF RoleInv
<1>5. QED
  BY <1>1, <1>3, <1>4 DEF Owned

\* What a step of one client has to keep.
LEMMA ClientProto ==
  ASSUME ProtoInv, IInv', UNCHANGED serverVars, NEW c \in Clients, NEW T \in SUBSET Conns,
         \A m \in T :
           /\ Owned(c, m)
           /\ conn'[m].server = "open" <=> conn[m].server = "open"
           /\ conn[m].server = "open" /\ (conn[m].up # <<>> \/ ~conn[m].client) =>
                conn'[m].up # <<>> \/ ~conn'[m].client
           /\ conn'[m].server = "none" => ~conn'[m].client
           /\ StreamOK(m)',
         \A m \in Conns \ T : conn'[m] = conn[m],
         \A d \in Clients \ {c} : client'[d] = client[d],
         \A v \in 1..Len(uploads) : v \in 1..Len(uploads'),
         RoleOK(c)',
         ~At(c, "off")' => /\ CmdOK(c)' /\ ListOK(c)'
                           /\ client'[c].cmd \in Conns /\ Owned(c, client'[c].cmd)
                           /\ client'[c].data = 0 \/ Owned(c, client'[c].data),
         At(c, "put")' => PutOK(c)'
  PROVE  SnapInv' /\ RoleInv' /\ StreamInv' /\ CmdInv' /\ PutInv' /\ ListInv'
<1>1. UNCHANGED <<known, files>> /\ IInv /\ SystemTypes /\ RoleInv /\ StreamInv /\ SnapInv
  BY DEF serverVars, ProtoInv
<1>2. \A m \in Conns : conn'[m].server = "open" <=> conn[m].server = "open"
  OBVIOUS
<1>3. \A m \in Conns : Ent(m)' = Ent(m)
  BY <1>1, <1>2, ClientsView
<1>4. SnapInv'
  BY <1>1, SnapClients
<1>5. ASSUME NEW m \in Conns PROVE StreamOK(m)'
  <2>1. CASE m \in T
    BY <2>1
  <2>2. CASE m \notin T
    <3>1. Kept(m)
      BY <1>1, <1>3, <2>2, SameKept
    <3>2. QED
      BY <1>1, <3>1, KeptStream DEF StreamInv
  <2>3. QED
    BY <2>1, <2>2
<1>6. ASSUME NEW d \in Clients \ {c}, ~At(d, "off")
      PROVE  RoleOK(d)' /\ CmdOK(d)' /\ ListOK(d)' /\ (At(d, "put") => PutOK(d)')
  <2>1. /\ client[d].cmd \in Conns /\ ~Owned(c, client[d].cmd)
        /\ client[d].data # 0 => client[d].data \in Conns /\ ~Owned(c, client[d].data)
    BY <1>1, <1>6, OthersKeep
  <2>2. client'[d] = client[d]
    OBVIOUS
  <2>3. PICK k, x : k = client[d].cmd /\ x = client[d].data
    OBVIOUS
  <2>4. /\ conn'[k] = conn[k] /\ Ent(k)' = Ent(k)
        /\ x # 0 => conn'[x] = conn[x] /\ Ent(x)' = Ent(x)
    BY <1>3, <2>1, <2>3
  <2>5. /\ Kind(k)' = Kind(k) /\ Stream(k)' = Stream(k) /\ Pending(k)' = Pending(k)
        /\ x # 0 => Kind(x)' = Kind(x) /\ Stream(x)' = Stream(x)
    BY <2>4 DEF Kind, Stream, Pending
  <2>6. RoleOK(d)'
    BY <1>1, <2>2, <2>3, <2>4 DEF RoleInv, RoleOK, At
  <2>7. CmdOK(d)'
    BY <1>6, <2>2, <2>3, <2>4, <2>5 DEF ProtoInv, CmdInv, CmdOK, At
  <2>8. ListOK(d)'
    BY <1>1, <1>6, <2>2, <2>3, <2>5 DEF ProtoInv, ListInv, ListOK, At
  <2>9. At(d, "put") => PutOK(d)'
    <3>1. SUFFICES ASSUME At(d, "put") PROVE PutOK(d)'
      OBVIOUS
    <3>2. x # 0
      BY <1>1, <1>6, <2>3, <3>1 DEF RoleInv, RoleOK
    <3>3. PutOK(d)
      BY <3>1 DEF ProtoInv, PutInv
    <3>4. QED
      BY <2>2, <2>3, <2>4, <2>5, <3>2, <3>3 DEF PutOK
  <2>10. QED
    BY <2>6, <2>7, <2>8, <2>9
<1>7. \A d \in Clients : RoleOK(d)'
  <2>1. \A d \in Clients \ {c} : At(d, "off") => RoleOK(d)'
    BY DEF RoleOK, At
  <2>2. QED
    BY <1>6, <2>1
<1>8. \A k \in Conns : conn'[k].server = "none" => ~conn'[k].client
  BY <1>1 DEF RoleInv
<1>9. ASSUME NEW d \in Clients \ {c}, ~At(c, "off")', ~At(d, "off")
      PROVE  /\ client'[c].cmd # client'[d].cmd /\ client'[c].cmd # client'[d].data
             /\ client'[d].cmd # client'[c].data
             /\ client'[c].data = client'[d].data => client'[c].data = 0
  <2>1. /\ client[d].cmd \in Conns /\ ~Owned(c, client[d].cmd)
        /\ client[d].data # 0 => client[d].data \in Conns /\ ~Owned(c, client[d].data)
    BY <1>1, <1>9, OthersKeep
  <2>2. PICK k, x : k = client'[c].cmd /\ x = client'[c].data
    OBVIOUS
  <2>3. Owned(c, k) /\ (x = 0 \/ Owned(c, x))
    BY <1>9, <2>2
  <2>4. client'[d] = client[d]
    OBVIOUS
  <2>5. client[d].cmd # 0
    BY <2>1 DEF Conns
  <2>6. k # 0
    BY <1>9, <2>2 DEF Conns
  <2>7. QED
    BY <2>1, <2>2, <2>3, <2>4, <2>5, <2>6
<1>10. ASSUME NEW a \in Clients, NEW d \in Clients, ~At(a, "off")', ~At(d, "off")', a # d
       PROVE  /\ client'[a].cmd # client'[d].cmd /\ client'[a].cmd # client'[d].data
              /\ client'[a].data = client'[d].data => client'[a].data = 0
  <2>1. CASE a = c
    BY <1>9, <1>10, <2>1 DEF At
  <2>2. CASE d = c
    BY <1>9, <1>10, <2>2 DEF At
  <2>3. CASE a # c /\ d # c
    BY <1>1, <1>10, <2>3 DEF RoleInv, At
  <2>4. QED
    BY <2>1, <2>2, <2>3
<1>11. RoleInv'
  BY <1>7, <1>8, <1>10 DEF RoleInv
<1>12. StreamInv' /\ CmdInv' /\ PutInv' /\ ListInv'
  <2>1. \A d \in Clients : ~At(d, "off")' => CmdOK(d)' /\ ListOK(d)'
    BY <1>6 DEF At
  <2>2. \A d \in Clients : At(d, "put")' => PutOK(d)'
    BY <1>6 DEF At
  <2>3. QED
    BY <1>5, <2>1, <2>2 DEF StreamInv, CmdInv, PutInv, ListInv
<1>13. QED
  BY <1>4, <1>11, <1>12

\* The first cell of what is to be read is that of its first part.
LEMMA TailJoined ==
  ASSUME NEW a \in Seq(Cell), NEW b \in Seq(Cell), a # <<>>
  PROVE  Tail(a) \o b = Tail(a \o b) /\ a[1] = (a \o b)[1] /\ a \o b # <<>> /\ Tail(a) \in Seq(Cell)
<1>0. Len(a) \in Nat \ {0} /\ Len(b) \in Nat
  OBVIOUS
<1>1. /\ a \o b \in Seq(Cell) /\ Len(a \o b) = Len(a) + Len(b)
      /\ \A p \in 1..Len(a) : (a \o b)[p] = a[p]
      /\ \A q \in 1..Len(b) : (a \o b)[Len(a) + q] = b[q]
  BY Joined
<1> DEFINE t == Tail(a)
           s == a \o b
<1>2. t \in Seq(Cell) /\ Len(t) = Len(a) - 1 /\ \A p \in 1..Len(t) : t[p] = a[p + 1]
  OBVIOUS
<1> HIDE DEF t
<1>3. /\ t \o b \in Seq(Cell) /\ Len(t \o b) = Len(t) + Len(b)
      /\ \A p \in 1..Len(t) : (t \o b)[p] = t[p]
      /\ \A q \in 1..Len(b) : (t \o b)[Len(t) + q] = b[q]
  BY <1>2, Joined
<1> HIDE DEF s
<1>4. s \in Seq(Cell) /\ Len(s) \in Nat \ {0}
  BY <1>0, <1>1 DEF s
<1>5. /\ Tail(s) \in Seq(Cell) /\ Len(Tail(s)) = Len(s) - 1
      /\ \A p \in 1..Len(Tail(s)) : Tail(s)[p] = s[p + 1]
  BY <1>4
<1>6. ASSUME NEW p \in 1..(Len(a) + Len(b) - 1) PROVE (t \o b)[p] = s[p + 1]
  <2>1. CASE p <= Len(a) - 1
    <3>1. p \in 1..Len(t) /\ p + 1 \in 1..Len(a)
      BY <1>0, <1>2, <2>1
    <3>2. QED
      BY <1>1, <1>2, <1>3, <3>1 DEF s
  <2>2. CASE ~(p <= Len(a) - 1)
    <3> DEFINE q == p - Len(a) + 1
    <3>1. q \in 1..Len(b) /\ Len(t) + q = p /\ Len(a) + q = p + 1
      BY <1>0, <1>2, <2>2
    <3>2. (t \o b)[Len(t) + q] = b[q] /\ (a \o b)[Len(a) + q] = b[q]
      BY <1>1, <1>3, <3>1
    <3>3. QED
      BY <3>1, <3>2 DEF s
  <2>3. QED
    BY <2>1, <2>2
<1>7. t \o b = Tail(s)
  <2>1. Len(t \o b) = Len(a) + Len(b) - 1 /\ Len(Tail(s)) = Len(a) + Len(b) - 1
    BY <1>0, <1>1, <1>2, <1>3, <1>5 DEF s
  <2>2. \A p \in 1..Len(t \o b) : (t \o b)[p] = Tail(s)[p]
    BY <1>5, <1>6, <2>1
  <2>3. QED
    BY <1>3, <1>5, <2>1, <2>2, SeqEqual
<1>8. 1 \in 1..Len(a)
  BY <1>0
<1>9. QED
  BY <1>1, <1>2, <1>4, <1>7, <1>8 DEF s, t

\* A connection whose client's end is closed.
LEMMA ClosedAtClient ==
  ASSUME NEW x, DOMAIN x = ConnFields
  PROVE  /\ ClientClosed(x).server = "open" <=> x.server = "open"
         /\ ~ClientClosed(x).client /\ ClientClosed(x).down \in {x.down, <<>>}
         /\ x.server \in {"backlog", "open"} => /\ ClientClosed(x).server = x.server
                                                /\ ClientClosed(x).up = x.up
         /\ x.server \notin {"backlog", "open"} => /\ ClientClosed(x).server \notin {"backlog", "open"}
                                                   /\ ClientClosed(x).up \in {x.up, <<>>}
<1>1. CASE x.server = "closed"
  <2>1. ClientClosed(x) = NoConn
    BY <1>1 DEF ClientClosed
  <2>2. QED
    BY <1>1, <2>1 DEF NoConn
<1>2. CASE x.server # "closed"
  <2> DEFINE y == [x EXCEPT !.client = FALSE]
  <2>1. ClientClosed(x) = y
    BY <1>2 DEF ClientClosed
  <2>2. y.server = x.server /\ y.up = x.up /\ y.client = FALSE /\ y.down = x.down
    BY DEF ConnFields
  <2>3. QED
    BY <2>1, <2>2
<1>3. QED
  BY <1>1, <1>2

\* The client's close keeps what the server has received of the connection.
LEMMA ClosedKept ==
  ASSUME StreamInv, NEW k \in Conns, DOMAIN conn[k] = ConnFields,
         conn'[k] = ClientClosed(conn[k]), Ent(k)' = Ent(k)
  PROVE  Kept(k)
<1>1. StreamOK(k)
  BY DEF StreamInv
<1>2. CASE conn[k].server \in {"backlog", "open"}
  <2>1. /\ conn'[k].server = conn[k].server /\ conn'[k].up = conn[k].up
        /\ conn'[k].down \in {conn[k].down, <<>>}
    BY <1>2, ClosedAtClient
  <2>2. Kind(k)' = Kind(k) /\ Stream(k)' = Stream(k)
    BY <2>1 DEF Kind, Stream
  <2>3. QED
    BY <1>1, <2>1, <2>2 DEF Kept, StreamOK
<1>3. CASE conn[k].server \notin {"backlog", "open"}
  <2>1. conn'[k].server \notin {"backlog", "open"} /\ conn'[k].up \in {conn[k].up, <<>>}
    BY <1>3, ClosedAtClient
  <2>2. Kind(k)' = Kind(k) /\ Kind(k) = "gone"
    BY <1>3, <2>1 DEF Kind
  <2>3. QED
    BY <2>1, <2>2 DEF Kept
<1>4. QED
  BY <1>2, <1>3

\* A connection that is opened carries its request and nothing else.
LEMMA OpenView ==
  ASSUME IInv, IInv', UNCHANGED serverVars, NEW k \in Conns, NEW h, Connect(k, h)
  PROVE  /\ conn[k].server = "none" /\ conn'[k].server = "backlog" /\ conn'[k].client
         /\ conn'[k].down = <<>> /\ Ent(k)' = NoEntry
         /\ Kind(k)' = "NONE" /\ Stream(k)' = Request(h) /\ Pending(k)' = <<>>
         /\ conn'[k] = Connected(Request(h))
         /\ \A m \in Conns \ {k} : conn'[m] = conn[m]
         /\ \A m \in Conns : Ent(m)' = Ent(m)
<1>1. FreeConns \in SUBSET Nat
  BY NetAssumption DEF FreeConns, Conns
<1>2. conn[k].server = "none"
  BY <1>1, LeastIs DEF Connect, FreeConns
<1>3. /\ \A m \in Conns \ {k} : conn'[m] = conn[m]
      /\ conn'[k] = Connected(Request(h))
  BY DEF Connect, IInv, NetInv
<1>4. /\ conn'[k].server = "backlog" /\ conn'[k].client /\ conn'[k].down = <<>>
      /\ conn'[k].up = Request(h)
  BY <1>3 DEF Connected
<1>5. \A m \in Conns : conn'[m].server = "open" <=> conn[m].server = "open"
  BY <1>2, <1>3, <1>4
<1>6. \A m \in Conns : Ent(m)' = Ent(m)
  BY <1>5, ClientsView
<1>7. Ent(k)' = NoEntry
  BY <1>2, <1>6 DEF Ent
<1>8. NoEntry.type = "NONE" /\ NoEntry.rbuf = <<>> /\ NoEntry.wbuf = <<>>
  BY DEF NoEntry
<1>9. Kind(k)' = "NONE"
  BY <1>4, <1>7, <1>8 DEF Kind
<1>10. Stream(k)' = <<>> \o Request(h) /\ Pending(k)' = <<>> \o <<>>
  BY <1>4, <1>7, <1>8 DEF Stream, Pending
<1>11. <<>> \o Request(h) = Request(h) /\ <<>> \o <<>> = <<>>
  BY DEF Request
<1>12. QED
  BY <1>2, <1>3, <1>4, <1>6, <1>7, <1>9, <1>10, <1>11

-----------------------------------------------------------------------------
(* The steps of a client                                                   *)

\* A client reads a cell of its command connection.
LEMMA ReadCmdProto ==
  ASSUME ProtoInv, IInv', UNCHANGED serverVars, NEW c \in Clients, ~At(c, "off"),
         CmdDown(c) # <<>>, ReadCmd(c), uploads' = uploads,
         \A d \in Clients \ {c} : client'[d] = client[d],
         client'[c].user = client[c].user, client'[c].cmd = client[c].cmd,
         client'[c].data = client[c].data, client'[c].pc \notin {"off", "put"}, RoleOK(c)',
         ListState(client'[c].pc, client'[c].tCount, Tail(Pending(client[c].cmd)), files[client[c].user])
  PROVE  SnapInv' /\ RoleInv' /\ StreamInv' /\ CmdInv' /\ PutInv' /\ ListInv'
<1>1. PICK k : k = client[c].cmd
  OBVIOUS
<1>2. /\ k \in Conns /\ client[c].data \in Conns \cup {0}
      /\ IInv /\ SystemTypes /\ StreamInv /\ RoleInv
  BY <1>1, ClientTypes DEF ProtoInv
<1>3. DOMAIN conn = Conns /\ DOMAIN conn[k] = ConnFields
  BY <1>2 DEF IInv, NetInv
<1>4. /\ conn' = [conn EXCEPT ![k].down = Tail(@)] /\ conn[k].down # <<>>
  BY <1>1 DEF ReadCmd, CmdDown
<1>5. /\ conn'[k] = [conn[k] EXCEPT !.down = Tail(conn[k].down)]
      /\ \A m \in Conns \ {k} : conn'[m] = conn[m]
  BY <1>2, <1>3, <1>4
<1>6. /\ conn'[k].server = conn[k].server /\ conn'[k].client = conn[k].client
      /\ conn'[k].up = conn[k].up /\ conn'[k].down = Tail(conn[k].down)
  BY <1>3, <1>5 DEF ConnFields
<1>7. \A m \in Conns : Ent(m)' = Ent(m)
  <2>1. \A m \in Conns : conn'[m].server = "open" <=> conn[m].server = "open"
    BY <1>5, <1>6
  <2>2. QED
    BY <1>2, <2>1, ClientsView
<1>8. Kind(k) \notin {"NONE"} /\ StreamOK(k) /\ CmdOK(c)
  <2>1. StreamOK(k) /\ CmdOK(c)
    BY <1>2 DEF StreamInv, ProtoInv, CmdInv
  <2>2. QED
    BY <1>4, <2>1 DEF StreamOK
<1>9. Kind(k)' = Kind(k) /\ Stream(k)' = Stream(k)
  BY <1>2, <1>6, <1>7 DEF Kind, Stream
<1>10. Kept(k) /\ UNCHANGED <<known, files>>
  BY <1>2, <1>6, <1>7, <1>8, <1>9 DEF Kept, serverVars
<1>11. StreamOK(k)'
  BY <1>8, <1>10, KeptStream
<1>12. CmdOK(c)'
  BY <1>1, <1>2, <1>7, <1>8, <1>9 DEF CmdOK
<1>13. Pending(k)' = Tail(Pending(k))
  <2>1. conn[k].down \in Seq(Cell) /\ Ent(k).wbuf \in Seq(Cell)
    BY <1>2, Types
  <2>2. Tail(conn[k].down) \o Ent(k).wbuf = Tail(conn[k].down \o Ent(k).wbuf)
    BY <1>4, <2>1, TailJoined
  <2>3. QED
    BY <1>2, <1>6, <1>7, <2>2 DEF Pending
<1>14. ListOK(c)'
  BY <1>1, <1>10, <1>13 DEF ListOK
<1>15. conn[k].server = "none" => ~conn[k].client
  BY <1>2 DEF RoleInv
<1>16. {k} \in SUBSET Conns /\ \A m \in {k} : m = k
  BY <1>2
<1>17. Owned(c, k) /\ (client[c].data = 0 \/ Owned(c, client[c].data))
  BY <1>1 DEF Owned
<1>18. ~At(c, "put")'
  BY DEF At
<1>19. /\ client'[c].cmd \in Conns /\ Owned(c, client'[c].cmd)
       /\ client'[c].data = 0 \/ Owned(c, client'[c].data)
  BY <1>1, <1>2, <1>17
<1>20. \A m \in {k} :
         /\ Owned(c, m)
         /\ conn'[m].server = "open" <=> conn[m].server = "open"
         /\ conn[m].server = "open" /\ (conn[m].up # <<>> \/ ~conn[m].client) =>
              conn'[m].up # <<>> \/ ~conn'[m].client
         /\ conn'[m].server = "none" => ~conn'[m].client
         /\ StreamOK(m)'
  BY <1>6, <1>11, <1>15, <1>16, <1>17
<1>21. QED
  BY <1>5, <1>12, <1>14, <1>16, <1>18, <1>19, <1>20, ClientProto

\* What it reads is the first cell of what it has to read.
LEMMA NextCell ==
  ASSUME ProtoInv, NEW c \in Clients, ~At(c, "off"), CmdDown(c) # <<>>
  PROVE  /\ Pending(client[c].cmd) \in Seq(Cell) /\ Pending(client[c].cmd) # <<>>
         /\ Head(CmdDown(c)) = Pending(client[c].cmd)[1] /\ Head(CmdDown(c)) \in Cell
         /\ files[client[c].user] \in Seq(Meta) /\ ListOK(c) /\ RoleOK(c)
         /\ client[c] \in Online
<1>1. /\ client[c].cmd \in Conns /\ client[c] \in Online /\ client[c].user \in Users
      /\ IInv /\ SystemTypes /\ ListOK(c) /\ RoleOK(c)
  BY ClientTypes DEF ProtoInv, ListInv, RoleInv
<1>2. PICK k : k = client[c].cmd
  OBVIOUS
<1>3. conn[k].down \in Seq(Cell) /\ Ent(k).wbuf \in Seq(Cell) /\ conn[k].down # <<>>
  BY <1>1, <1>2, Types DEF CmdDown
<1>4. /\ Head(conn[k].down) = conn[k].down[1] /\ Head(conn[k].down) \in Cell
  BY <1>3
<1>5. /\ conn[k].down[1] = Pending(k)[1] /\ Pending(k) # <<>> /\ Pending(k) \in Seq(Cell)
  BY <1>3, TailJoined, Joined DEF Pending
<1>6. files[client[c].user] \in Seq(Meta)
  BY <1>1 DEF SystemTypes
<1>7. QED
  BY <1>1, <1>2, <1>4, <1>5, <1>6 DEF CmdDown

\* ReadList keeps the protocol: behind a list's header comes its count.
LEMMA ReadListProto ==
  ASSUME ProtoInv, IInv', UNCHANGED serverVars, NEW c \in Clients, ReadList(c)
  PROVE  SnapInv' /\ RoleInv' /\ StreamInv' /\ CmdInv' /\ PutInv' /\ ListInv'
<1>1. /\ At(c, "login") \/ At(c, "idle")
      /\ ~At(c, "off") /\ CmdDown(c) # <<>> /\ ReadCmd(c) /\ uploads' = uploads
      /\ client' = [client EXCEPT ![c].pc = "count"]
  BY DEF ReadList, At
<1>2. /\ Pending(client[c].cmd) \in Seq(Cell) /\ Pending(client[c].cmd) # <<>>
      /\ files[client[c].user] \in Seq(Meta) /\ ListOK(c) /\ RoleOK(c) /\ client[c] \in Online
  BY <1>1, NextCell
<1>3. /\ \A d \in Clients \ {c} : client'[d] = client[d]
      /\ client'[c] = [client[c] EXCEPT !.pc = "count"]
  BY <1>1 DEF ProtoInv, SystemTypes
<1>4. /\ client'[c].pc = "count" /\ client'[c].tCount = client[c].tCount
      /\ client'[c].user = client[c].user /\ client'[c].cmd = client[c].cmd
      /\ client'[c].data = client[c].data
  BY <1>2, <1>3 DEF Online
<1>5. ListState(client'[c].pc, client'[c].tCount, Tail(Pending(client[c].cmd)), files[client[c].user])
  BY <1>1, <1>2, <1>4, HeaderRead DEF ListOK, At
<1>6. RoleOK(c)'
  <2>1. conn'[client[c].cmd].client = conn[client[c].cmd].client
    BY <1>1, ClientTypes DEF ReadCmd, ProtoInv, SystemTypes, Connection
  <2>2. client[c].data = 0 /\ ~(client[c].tCount > 0)
    BY <1>1, <1>2 DEF RoleOK, At
  <2>3. QED
    BY <1>1, <1>2, <1>4, <2>1, <2>2 DEF RoleOK, At
<1>7. QED
  BY <1>1, <1>3, <1>4, <1>5, <1>6, ReadCmdProto

\* Resume continues where something is left to do.
LEMMA ResumeIs ==
  ASSUME NEW r \in Online
  PROVE  /\ Resume(r) \in Online
         /\ Resume(r).pc = IF r.tCount > 0 THEN "metas"
                           ELSE IF r.diffFiles # <<>> THEN "sync" ELSE "idle"
         /\ Resume(r).user = r.user /\ Resume(r).cmd = r.cmd /\ Resume(r).data = r.data
         /\ Resume(r).localFiles = r.localFiles /\ Resume(r).diffFiles = r.diffFiles
         /\ Resume(r).tCount = r.tCount /\ Resume(r).buf = r.buf /\ Resume(r).upload = r.upload
BY DEF Resume, Online

\* So does a client that has read a count or an item.
LEMMA ReadOn ==
  ASSUME ProtoInv, IInv', UNCHANGED serverVars, NEW c \in Clients, ~At(c, "off"),
         CmdDown(c) # <<>>, ReadCmd(c), uploads' = uploads, client[c].data = 0,
         NEW r \in Online, client' = [client EXCEPT ![c] = Resume(r)],
         r.user = client[c].user, r.cmd = client[c].cmd, r.data = 0,
         \A pc : /\ pc # "count"
                 /\ pc = "metas" <=> r.tCount > 0
                 => ListState(pc, r.tCount, Tail(Pending(client[c].cmd)), files[client[c].user])
  PROVE  SnapInv' /\ RoleInv' /\ StreamInv' /\ CmdInv' /\ PutInv' /\ ListInv'
<1>1. /\ \A d \in Clients \ {c} : client'[d] = client[d]
      /\ client'[c] = Resume(r)
  BY DEF ProtoInv, SystemTypes
<1>2. /\ client'[c].pc = IF r.tCount > 0 THEN "metas"
                         ELSE IF r.diffFiles # <<>> THEN "sync" ELSE "idle"
      /\ client'[c].user = client[c].user /\ client'[c].cmd = client[c].cmd
      /\ client'[c].data = 0 /\ client'[c].diffFiles = r.diffFiles /\ client'[c].tCount = r.tCount
  BY <1>1, ResumeIs
<1>3. /\ client'[c].pc \in {"metas", "sync", "idle"}
      /\ client'[c].pc = "metas" <=> r.tCount > 0
      /\ client'[c].pc = "sync" => r.diffFiles # <<>>
  BY <1>2
<1>4. ListState(client'[c].pc, client'[c].tCount, Tail(Pending(client[c].cmd)), files[client[c].user])
  BY <1>2, <1>3
<1>5. RoleOK(c)'
  <2>1. conn'[client[c].cmd].client = conn[client[c].cmd].client
    BY ClientTypes DEF ReadCmd, ProtoInv, SystemTypes, Connection
  <2>2. conn[client[c].cmd].client
    BY DEF ProtoInv, RoleInv, RoleOK
  <2>3. QED
    BY <1>2, <1>3, <2>1, <2>2 DEF RoleOK, At
<1>6. QED
  BY <1>1, <1>2, <1>3, <1>4, <1>5, ReadCmdProto

\* ReadCount keeps the protocol: the items counted are there.
LEMMA ReadCountProto ==
  ASSUME ProtoInv, IInv', UNCHANGED serverVars, NEW c \in Clients, ReadCount(c)
  PROVE  SnapInv' /\ RoleInv' /\ StreamInv' /\ CmdInv' /\ PutInv' /\ ListInv'
<1> DEFINE s  == Pending(client[c].cmd)
           fs == files[client[c].user]
           r  == [client[c] EXCEPT !.tCount = s[1].n]
<1>1. At(c, "count") /\ ~At(c, "off") /\ CmdDown(c) # <<>> /\ ReadCmd(c) /\ uploads' = uploads
  BY DEF ReadCount, At
<1>2. /\ s \in Seq(Cell) /\ fs \in Seq(Meta) /\ ListOK(c) /\ RoleOK(c) /\ client[c] \in Online
      /\ Head(CmdDown(c)) = s[1]
  BY <1>1, NextCell
<1>3. client' = [client EXCEPT ![c] = Resume(r)]
  BY <1>2 DEF ReadCount, ProtoInv, SystemTypes
<1>4. ListState("count", client[c].tCount, s, fs)
  BY <1>1, <1>2 DEF ListOK, At
<1>5. s[1].n \in Nat
  <2> HIDE DEF s, fs
  <2>1. "x" # "count" /\ 1 > 0
    OBVIOUS
  <2>2. \E pc : pc # "count" /\ (pc = "metas" <=> s[1].n > 0)
    <3>1. CASE s[1].n > 0
      BY <3>1
    <3>2. CASE ~(s[1].n > 0)
      BY <3>2, <2>1
    <3>3. QED
      BY <3>1, <3>2
  <2>3. QED
    BY <1>2, <1>4, <2>2, CountRead
<1>6. /\ r \in Online /\ r.user = client[c].user /\ r.cmd = client[c].cmd
      /\ r.data = client[c].data /\ r.tCount = s[1].n
  <2> HIDE DEF s
  <2>1. QED
    BY <1>2, <1>5 DEF Online
<1>7. client[c].data = 0
  BY <1>1, <1>2 DEF RoleOK, At
<1>8. \A pc : pc # "count" /\ (pc = "metas" <=> r.tCount > 0) => ListState(pc, r.tCount, Tail(s), fs)
  <2> HIDE DEF s, fs, r
  <2>1. QED
    BY <1>2, <1>4, <1>6, CountRead
<1> HIDE DEF r
<1>9. QED
  BY <1>1, <1>3, <1>6, <1>7, <1>8, ReadOn

\* ReadMeta keeps the protocol: one item less is left of the list.
LEMMA ReadMetaProto ==
  ASSUME ProtoInv, IInv', UNCHANGED serverVars, NEW c \in Clients, ReadMeta(c)
  PROVE  SnapInv' /\ RoleInv' /\ StreamInv' /\ CmdInv' /\ PutInv' /\ ListInv'
<1> DEFINE s  == Pending(client[c].cmd)
           fs == files[client[c].user]
           m  == Head(CmdDown(c)).meta
           more == IF IsNew(c, m) THEN Append(client[c].diffFiles, m) ELSE client[c].diffFiles
           r  == [client[c] EXCEPT !.tCount = client[c].tCount - 1, !.diffFiles = more]
<1>1. At(c, "metas") /\ ~At(c, "off") /\ CmdDown(c) # <<>> /\ ReadCmd(c) /\ uploads' = uploads
  BY DEF ReadMeta, At
<1>2. /\ s \in Seq(Cell) /\ fs \in Seq(Meta) /\ ListOK(c) /\ RoleOK(c) /\ client[c] \in Online
      /\ Head(CmdDown(c)) = s[1] /\ Head(CmdDown(c)) \in Cell
  BY <1>1, NextCell
<1>3. client' = [client EXCEPT ![c] = Resume(r)]
  BY <1>2 DEF ReadMeta, ProtoInv, SystemTypes
<1>4. ListState("metas", client[c].tCount, s, fs)
  BY <1>1, <1>2 DEF ListOK, At
<1>5. client[c].tCount \in Nat \ {0}
  BY <1>1, <1>2 DEF RoleOK, At, Online
<1>6. /\ s[1].t = "meta"
      /\ \A pc : pc # "count" /\ (pc = "metas" <=> client[c].tCount - 1 > 0)
           => ListState(pc, client[c].tCount - 1, Tail(s), fs)
  <2> HIDE DEF s, fs
  <2>1. \E pc : pc # "count" /\ (pc = "metas" <=> client[c].tCount - 1 > 0)
    <3>1. CASE client[c].tCount - 1 > 0
      BY <3>1
    <3>2. CASE ~(client[c].tCount - 1 > 0)
      <4>1. "x" # "count" /\ "x" # "metas"
        OBVIOUS
      <4>2. QED
        BY <3>2, <4>1
    <3>3. QED
      BY <3>1, <3>2
  <2>2. QED
    BY <1>2, <1>4, <1>5, <2>1, ItemRead
<1>7. m \in Meta
  BY <1>2, <1>6 DEF Cell
<1>8. /\ r \in Online /\ r.user = client[c].user /\ r.cmd = client[c].cmd
      /\ r.data = client[c].data /\ r.tCount = client[c].tCount - 1
  <2> HIDE DEF m
  <2>1. more \in Seq(Meta)
    BY <1>2, <1>7 DEF Online
  <2> HIDE DEF more
  <2> DEFINE left == client[c].tCount - 1
  <2>2. left \in Nat
    BY <1>5
  <2> HIDE DEF left
  <2>3. r = [client[c] EXCEPT !.tCount = left, !.diffFiles = more]
    BY DEF left
  <2> HIDE DEF r
  <2>4. /\ r \in Online /\ r.user = client[c].user /\ r.cmd = client[c].cmd
        /\ r.data = client[c].data /\ r.tCount = left
    BY <1>2, <2>1, <2>2, <2>3 DEF Online
  <2>5. QED
    BY <2>4 DEF left
<1>9. client[c].data = 0
  BY <1>1, <1>2 DEF RoleOK, At
<1> HIDE DEF r
<1>10. QED
  BY <1>1, <1>3, <1>6, <1>8, <1>9, ReadOn

\* A step that leaves the command connection alone, in which the client reads no
\* list before or after.
LEMMA CmdStays ==
  ASSUME ProtoInv, UNCHANGED serverVars, NEW c \in Clients, ~At(c, "off"),
         client[c].pc \notin {"login", "count", "metas"}, client'[c].pc \notin {"count", "metas"},
         client'[c].cmd = client[c].cmd, client'[c].user = client[c].user,
         NEW k, k = client[c].cmd, conn'[k] = conn[k], Ent(k)' = Ent(k)
  PROVE  /\ CmdOK(c)' /\ ListOK(c)'
         /\ Kind(k) = "CMD" /\ client[c].user \in known
<1>1. CmdOK(c) /\ ListOK(c) /\ StreamOK(k) /\ UNCHANGED <<known, files>>
  BY ClientTypes DEF ProtoInv, CmdInv, ListInv, StreamInv, serverVars
<1>2. Kind(k)' = Kind(k) /\ Stream(k)' = Stream(k) /\ Pending(k)' = Pending(k)
  BY DEF Kind, Stream, Pending
<1>3. Kind(k) = "CMD" /\ Ent(k).name = client[c].user
  BY <1>1 DEF CmdOK, At
<1>4. CmdOK(c)'
  BY <1>2, <1>3 DEF CmdOK
<1>5. ListOK(c)'
  BY <1>1, <1>2, ListElsewhere DEF ListOK
<1>6. QED
  BY <1>1, <1>3, <1>4, <1>5 DEF StreamOK

\* What a request is made of.
LEMMA RequestIs ==
  ASSUME NEW h
  PROVE  /\ Len(Request(h)) = 2 /\ Request(h)[1].t = "part" /\ Request(h)[2] = h
         /\ \A p \in 3..Len(Request(h)) : FALSE
BY DEF Request

\* Start keeps the protocol: the login is the first request of a connection.
LEMMA StartProto ==
  ASSUME ProtoInv, IInv', UNCHANGED serverVars, NEW c \in Clients, NEW u \in Users, Start(c, u)
  PROVE  SnapInv' /\ RoleInv' /\ StreamInv' /\ CmdInv' /\ PutInv' /\ ListInv'
<1>1. PICK k \in Conns :
        /\ Connect(k, LoginHeader(u))
        /\ client' = [client EXCEPT ![c] =
                        [pc |-> "login", user |-> u, cmd |-> k, data |-> 0,
                         localFiles |-> {}, diffFiles |-> <<>>, tCount |-> 0,
                         buf |-> <<>>, upload |-> 0]]
  BY DEF Start
<1>2. /\ conn[k].server = "none" /\ conn'[k].server = "backlog" /\ conn'[k].client
      /\ conn'[k].down = <<>> /\ Ent(k)' = NoEntry
      /\ Kind(k)' = "NONE" /\ Stream(k)' = Request(LoginHeader(u)) /\ Pending(k)' = <<>>
      /\ \A m \in Conns \ {k} : conn'[m] = conn[m]
  BY <1>1, OpenView DEF ProtoInv
<1>3. /\ \A d \in Clients \ {c} : client'[d] = client[d]
      /\ client'[c].pc = "login" /\ client'[c].user = u /\ client'[c].cmd = k
      /\ client'[c].data = 0 /\ client'[c].tCount = 0
  BY <1>1 DEF ProtoInv, SystemTypes
<1>4. Stream(k)'[2] = LoginHeader(u) /\ LoginHeader(u).t = "LOGIN" /\ LoginHeader(client'[c].user) = LoginHeader(u)
  BY <1>2, <1>3, RequestIs DEF LoginHeader
<1>5. StreamOK(k)'
  <2>1. IsRequest(Stream(k))'
    BY <1>2, <1>4, RequestIs DEF IsRequest, HeaderCells
  <2>2. Len(Ent(k)'.rbuf) < HeaderCells /\ Ent(k)'.wbuf = <<>>
    <3>1. Len(<<>>) = 0 /\ NoEntry.rbuf = <<>> /\ NoEntry.wbuf = <<>>
      BY DEF NoEntry
    <3>2. QED
      BY <1>2, <3>1 DEF HeaderCells
  <2>3. QED
    BY <1>2, <2>1, <2>2 DEF StreamOK
<1>6. CmdOK(c)'
  BY <1>2, <1>3, <1>4 DEF CmdOK, At, LoginHeader
<1>7. ListOK(c)'
  <2>1. ListState("login", 0, <<>>, files'[u])
    BY ListNone
  <2>2. QED
    BY <1>2, <1>3, <2>1 DEF ListOK
<1>8. RoleOK(c)'
  BY <1>2, <1>3 DEF RoleOK, At
<1>9. ~At(c, "put")' /\ uploads' = uploads
  BY <1>3 DEF At, Start
<1>10. {k} \in SUBSET Conns /\ \A m \in {k} : m = k
  OBVIOUS
<1>11. Owned(c, k)
  BY <1>2 DEF Owned
<1>12. \A m \in {k} :
         /\ Owned(c, m)
         /\ conn'[m].server = "open" <=> conn[m].server = "open"
         /\ conn[m].server = "open" /\ (conn[m].up # <<>> \/ ~conn[m].client) =>
              conn'[m].up # <<>> \/ ~conn'[m].client
         /\ conn'[m].server = "none" => ~conn'[m].client
         /\ StreamOK(m)'
  BY <1>2, <1>5, <1>10, <1>11
<1>13. QED
  BY <1>2, <1>3, <1>6, <1>7, <1>8, <1>9, <1>10, <1>11, <1>12, ClientProto

\* A client opens a connection for a download or an upload.
LEMMA OpenProto ==
  ASSUME ProtoInv, IInv', UNCHANGED serverVars, NEW c \in Clients, At(c, "sync") \/ At(c, "idle"),
         NEW k \in Conns, NEW h, Connect(k, h), h.t \in {"GET", "PUT"}, h.user = client[c].user,
         \A d \in Clients \ {c} : client'[d] = client[d],
         \A v \in 1..Len(uploads) : v \in 1..Len(uploads'),
         client'[c].pc = IF h.t = "GET" THEN "get" ELSE "put",
         client'[c].cmd = client[c].cmd, client'[c].user = client[c].user,
         client'[c].data = k, client'[c].tCount = client[c].tCount,
         h.t = "GET" => client'[c].diffFiles # <<>>,
         h.t = "PUT" => /\ client'[c].upload \in 1..Len(uploads')
                        /\ \A p \in 1..Len(client'[c].buf) : client'[c].buf[p].t = "byte"
  PROVE  SnapInv' /\ RoleInv' /\ StreamInv' /\ CmdInv' /\ PutInv' /\ ListInv'
<1>1. /\ conn[k].server = "none" /\ conn'[k].server = "backlog" /\ conn'[k].client
      /\ conn'[k].down = <<>> /\ Ent(k)' = NoEntry
      /\ Kind(k)' = "NONE" /\ Stream(k)' = Request(h)
      /\ \A m \in Conns \ {k} : conn'[m] = conn[m]
      /\ \A m \in Conns : Ent(m)' = Ent(m)
  BY OpenView DEF ProtoInv
<1>2. /\ ~At(c, "off") /\ client[c].pc \notin {"login", "count", "metas"}
      /\ client'[c].pc \in {"get", "put"} /\ client'[c].pc = "get" <=> h.t = "GET"
  BY DEF At
<1>3. PICK x : x = client[c].cmd
  OBVIOUS
<1>4. x \in Conns /\ RoleOK(c) /\ conn[x].client
  BY <1>2, <1>3, ClientTypes DEF ProtoInv, RoleInv, RoleOK
<1>5. x # k /\ k # 0 /\ conn'[x] = conn[x] /\ Ent(x)' = Ent(x)
  BY <1>1, <1>4 DEF ProtoInv, RoleInv, Conns
<1>6. CmdOK(c)' /\ ListOK(c)' /\ client[c].user \in known
  BY <1>2, <1>3, <1>5, CmdStays
<1>7. known' = known
  BY DEF serverVars
<1>8. Stream(k)'[2] = h
  BY <1>1, RequestIs
<1>9. StreamOK(k)'
  <2>1. IsRequest(Stream(k))'
    <3>1. Len(Stream(k)') = 2 /\ Stream(k)'[1].t = "part" /\ \A p \in 3..Len(Stream(k)') : FALSE
      BY <1>1, RequestIs
    <3>2. QED
      BY <1>6, <1>7, <1>8, <3>1 DEF IsRequest, HeaderCells
  <2>2. Len(Ent(k)'.rbuf) < HeaderCells /\ Ent(k)'.wbuf = <<>>
    <3>1. Len(<<>>) = 0 /\ NoEntry.rbuf = <<>> /\ NoEntry.wbuf = <<>>
      BY DEF NoEntry
    <3>2. QED
      BY <1>1, <3>1 DEF HeaderCells
  <2>3. QED
    BY <1>1, <2>1, <2>2 DEF StreamOK
<1>10. At(c, "put")' => PutOK(c)'
  <2>1. At(c, "put")' => h.t = "PUT"
    BY <1>2 DEF At
  <2>2. QED
    BY <1>1, <1>8, <2>1 DEF PutOK
<1>11. RoleOK(c)'
  <2>1. ~(client'[c].tCount > 0)
    BY <1>2, <1>4 DEF RoleOK, At
  <2>2. QED
    BY <1>1, <1>2, <1>3, <1>4, <1>5, <2>1 DEF RoleOK, At
<1>12. {k} \in SUBSET Conns /\ \A m \in {k} : m = k
  OBVIOUS
<1>13. Owned(c, k) /\ Owned(c, x)
  BY <1>1, <1>2, <1>3 DEF Owned
<1>14. \A m \in {k} :
         /\ Owned(c, m)
         /\ conn'[m].server = "open" <=> conn[m].server = "open"
         /\ conn[m].server = "open" /\ (conn[m].up # <<>> \/ ~conn[m].client) =>
              conn'[m].up # <<>> \/ ~conn'[m].client
         /\ conn'[m].server = "none" => ~conn'[m].client
         /\ StreamOK(m)'
  BY <1>1, <1>9, <1>12, <1>13
<1>15. QED
  BY <1>1, <1>3, <1>4, <1>6, <1>10, <1>11, <1>12, <1>13, <1>14, ClientProto

\* Fetch keeps the protocol: the request is of a user who has logged in.
LEMMA FetchProto ==
  ASSUME ProtoInv, IInv', UNCHANGED serverVars, NEW c \in Clients, Fetch(c)
  PROVE  SnapInv' /\ RoleInv' /\ StreamInv' /\ CmdInv' /\ PutInv' /\ ListInv'
<1> DEFINE h == GetHeader(client[c].user, Head(client[c].diffFiles))
<1>1. PICK k \in Conns : /\ Connect(k, h)
                         /\ client' = [client EXCEPT ![c].pc = "get", ![c].data = k]
  BY DEF Fetch
<1>2. At(c, "sync") /\ ~At(c, "off") /\ uploads' = uploads
  BY DEF Fetch, At
<1>3. client[c] \in Online /\ client[c].diffFiles # <<>>
  BY <1>2, ClientTypes DEF ProtoInv, RoleInv, RoleOK
<1>4. /\ \A d \in Clients \ {c} : client'[d] = client[d]
      /\ client'[c] = [client[c] EXCEPT !.pc = "get", !.data = k]
  BY <1>1 DEF ProtoInv, SystemTypes
<1>5. /\ client'[c].pc = "get" /\ client'[c].data = k
      /\ client'[c].cmd = client[c].cmd /\ client'[c].user = client[c].user
      /\ client'[c].tCount = client[c].tCount /\ client'[c].diffFiles = client[c].diffFiles
  BY <1>3, <1>4 DEF Online
<1>6. h.t = "GET" /\ h.user = client[c].user
  BY DEF GetHeader
<1> HIDE DEF h
<1>7. QED
  BY <1>1, <1>2, <1>3, <1>4, <1>5, <1>6, OpenProto

\* Upload keeps the protocol: the connection carries a header and no byte yet.
LEMMA UploadProto ==
  ASSUME ProtoInv, IInv', UNCHANGED serverVars, NEW c \in Clients, NEW n \in Names,
         NEW len \in Sizes, Upload(c, n, len)
  PROVE  SnapInv' /\ RoleInv' /\ StreamInv' /\ CmdInv' /\ PutInv' /\ ListInv'
<1> DEFINE v == Len(uploads) + 1
           h == PutHeader(client[c].user, [name |-> n, size |-> len])
           x == [user |-> client[c].user, name |-> n, size |-> len]
<1>1. PICK k \in Conns : /\ Connect(k, h)
                         /\ client' = [client EXCEPT ![c].pc = "put", ![c].data = k,
                                                     ![c].buf = Content(v, len), ![c].upload = v]
  BY DEF Upload
<1>2. At(c, "idle") /\ ~At(c, "off") /\ uploads' = Append(uploads, x)
  BY DEF Upload, TakesCommands, At
<1>3. client[c] \in Online /\ client[c].user \in Users
  BY <1>2, ClientTypes DEF ProtoInv
<1>4. /\ \A d \in Clients \ {c} : client'[d] = client[d]
      /\ client'[c] = [client[c] EXCEPT !.pc = "put", !.data = k, !.buf = Content(v, len), !.upload = v]
  BY <1>1 DEF ProtoInv, SystemTypes
<1>5. /\ client'[c].pc = "put" /\ client'[c].data = k
      /\ client'[c].cmd = client[c].cmd /\ client'[c].user = client[c].user
      /\ client'[c].tCount = client[c].tCount
      /\ client'[c].upload = v /\ client'[c].buf = Content(v, len)
  <2> HIDE DEF v
  <2>1. QED
    BY <1>3, <1>4 DEF Online
<1>6. h.t = "PUT" /\ h.user = client[c].user
  BY DEF PutHeader
<1>7. Len(uploads) \in Nat /\ Len(uploads') = Len(uploads) + 1
  <2>1. uploads \in Seq([user : Users, name : Names, size : Nat])
    BY DEF ProtoInv, SystemTypes
  <2>2. x \in [user : Users, name : Names, size : Nat]
    BY <1>3, ClientAssumption
  <2> HIDE DEF x
  <2>3. QED
    BY <1>2, <2>1, <2>2
<1>8. v \in 1..Len(uploads') /\ \A w \in 1..Len(uploads) : w \in 1..Len(uploads')
  BY <1>7
<1>9. \A p \in 1..Len(client'[c].buf) : client'[c].buf[p].t = "byte"
  <2>1. len \in Nat
    BY ClientAssumption
  <2>2. Len(Content(v, len)) = len /\ \A p \in 1..len : Content(v, len)[p].t = "byte"
    BY <2>1 DEF Content, Byte
  <2> HIDE DEF v
  <2>3. QED
    BY <1>5, <2>2
<1> HIDE DEF h, v, x
<1>10. QED
  BY <1>1, <1>2, <1>4, <1>5, <1>6, <1>8, <1>9, OpenProto, ZenonT(60)

\* A client does something to the connection of its download or upload.
LEMMA DataProto ==
  ASSUME ProtoInv, IInv', UNCHANGED serverVars, NEW c \in Clients, At(c, "get") \/ At(c, "put"),
         \A d \in Clients \ {c} : client'[d] = client[d], uploads' = uploads,
         client'[c].user = client[c].user, client'[c].cmd = client[c].cmd,
         client'[c].pc \notin {"off", "login", "count", "metas"},
         NEW x, x = client[c].data, client'[c].data \in {0, x},
         \A m \in Conns \ {x} : conn'[m] = conn[m],
         conn'[x].server = "open" <=> conn[x].server = "open",
         conn[x].server = "open" /\ (conn[x].up # <<>> \/ ~conn[x].client) =>
           conn'[x].up # <<>> \/ ~conn'[x].client,
         conn'[x].server = "none" => ~conn'[x].client,
         StreamOK(x)', RoleOK(c)', At(c, "put")' => PutOK(c)'
  PROVE  SnapInv' /\ RoleInv' /\ StreamInv' /\ CmdInv' /\ PutInv' /\ ListInv'
<1>1. ~At(c, "off") /\ client[c].pc \notin {"login", "count", "metas"}
  BY DEF At
<1>2. PICK k : k = client[c].cmd
  OBVIOUS
<1>3. RoleOK(c) /\ k \in Conns /\ x \in Conns /\ k # x
  BY <1>1, <1>2, ClientTypes DEF ProtoInv, RoleInv, RoleOK
<1>4. \A m \in Conns : conn'[m].server = "open" <=> conn[m].server = "open"
  OBVIOUS
<1>5. conn'[k] = conn[k] /\ Ent(k)' = Ent(k)
  BY <1>3, <1>4, ClientsView DEF ProtoInv
<1>6. CmdOK(c)' /\ ListOK(c)'
  BY <1>1, <1>2, <1>5, CmdStays
<1>7. {x} \in SUBSET Conns /\ \A m \in {x} : m = x
  BY <1>3
<1>8. Owned(c, k) /\ Owned(c, x)
  BY <1>1, <1>2 DEF Owned
<1>9. \A m \in {x} :
         /\ Owned(c, m)
         /\ conn'[m].server = "open" <=> conn[m].server = "open"
         /\ conn[m].server = "open" /\ (conn[m].up # <<>> \/ ~conn[m].client) =>
              conn'[m].up # <<>> \/ ~conn'[m].client
         /\ conn'[m].server = "none" => ~conn'[m].client
         /\ StreamOK(m)'
  BY <1>7, <1>8
<1>10. /\ client'[c].cmd \in Conns /\ Owned(c, client'[c].cmd)
       /\ client'[c].data = 0 \/ Owned(c, client'[c].data)
  BY <1>2, <1>3, <1>8
<1>11. QED
  BY <1>6, <1>7, <1>9, <1>10, ClientProto

\* A client closes the connection of its download or upload when it is done.
LEMMA DoneProto ==
  ASSUME ProtoInv, IInv', UNCHANGED serverVars, NEW c \in Clients, At(c, "get") \/ At(c, "put"),
         \A d \in Clients \ {c} : client'[d] = client[d], uploads' = uploads,
         conn' = [conn EXCEPT ![client[c].data] = ClientClosed(@)],
         client'[c].user = client[c].user, client'[c].cmd = client[c].cmd,
         client'[c].data = 0, ~(client'[c].tCount > 0),
         client'[c].pc = "idle" \/ (client'[c].pc = "sync" /\ client'[c].diffFiles # <<>>)
  PROVE  SnapInv' /\ RoleInv' /\ StreamInv' /\ CmdInv' /\ PutInv' /\ ListInv'
<1>1. ~At(c, "off")
  BY DEF At
<1>2. PICK k, x : k = client[c].cmd /\ x = client[c].data
  OBVIOUS
<1>3. RoleOK(c) /\ k \in Conns /\ x \in Conns /\ k # x /\ conn[k].client
  BY <1>1, <1>2, ClientTypes DEF ProtoInv, RoleInv, RoleOK
<1>4. DOMAIN conn = Conns /\ DOMAIN conn[x] = ConnFields /\ StreamInv /\ known' = known
  BY <1>3 DEF ProtoInv, IInv, NetInv, serverVars
<1>5. conn'[x] = ClientClosed(conn[x]) /\ \A m \in Conns \ {x} : conn'[m] = conn[m]
  BY <1>2, <1>3, <1>4
<1>6. /\ conn'[x].server = "open" <=> conn[x].server = "open"
      /\ ~conn'[x].client
  BY <1>4, <1>5, ClosedAtClient
<1>7. Ent(x)' = Ent(x)
  <2>1. \A m \in Conns : conn'[m].server = "open" <=> conn[m].server = "open"
    BY <1>5, <1>6
  <2>2. QED
    BY <1>3, <2>1, ClientsView DEF ProtoInv
<1>8. StreamOK(x)'
  <2>1. Kept(x)
    BY <1>3, <1>4, <1>5, <1>7, ClosedKept
  <2>2. QED
    BY <1>3, <1>4, <2>1, KeptStream DEF StreamInv
<1>9. RoleOK(c)'
  BY <1>2, <1>3, <1>5 DEF RoleOK, At
<1>10. ~At(c, "put")' /\ client'[c].pc \notin {"off", "login", "count", "metas"}
  BY DEF At
<1>11. QED
  BY <1>2, <1>5, <1>6, <1>8, <1>9, <1>10, DataProto

\* A client reads some of the file it fetches.
LEMMA ReadDataProto ==
  ASSUME ProtoInv, IInv', UNCHANGED serverVars, NEW c \in Clients, ReadData(c)
  PROVE  SnapInv' /\ RoleInv' /\ StreamInv' /\ CmdInv' /\ PutInv' /\ ListInv'
<1> DEFINE n == Received(c)
<1>1. /\ At(c, "get") /\ ~At(c, "off") /\ n > 0 /\ uploads' = uploads
      /\ conn' = [conn EXCEPT ![client[c].data].down = Without(@, n)]
      /\ client' = [client EXCEPT ![c].buf = Data(c)]
  BY DEF ReadData, At
<1>2. PICK x : x = client[c].data
  OBVIOUS
<1>3. /\ RoleOK(c) /\ client[c].cmd \in Conns /\ x \in Conns /\ client[c] \in Online /\ client[c].cmd # x
      /\ conn[x].client /\ conn[client[c].cmd].client
  BY <1>1, <1>2, ClientTypes DEF ProtoInv, RoleInv, RoleOK
<1>4. /\ client'[c] = [client[c] EXCEPT !.buf = Data(c)]
      /\ \A d \in Clients \ {c} : client'[d] = client[d]
  BY <1>1 DEF ProtoInv, SystemTypes
<1>5. /\ client'[c].pc = client[c].pc /\ client'[c].user = client[c].user
      /\ client'[c].cmd = client[c].cmd /\ client'[c].data = client[c].data
      /\ client'[c].tCount = client[c].tCount /\ client'[c].diffFiles = client[c].diffFiles
  BY <1>3, <1>4 DEF Online
<1>6. conn[x].down # <<>>
  <2>1. CASE conn[x].down = <<>>
    <3>1. Len(DataDown(c)) = 0
      BY <1>2, <2>1 DEF DataDown
    <3>2. client[c].buf \in Seq(Cell) /\ Len(client[c].buf) \in Nat /\ Head(client[c].diffFiles) \in Meta
      BY <1>1, <1>3 DEF Online, RoleOK, At
    <3>3. Head(client[c].diffFiles).size \in Int
      BY <3>2 DEF Meta
    <3>4. ~(n > 0)
      BY <3>1, <3>2, <3>3 DEF Received, Smaller
    <3>5. QED
      BY <1>1, <3>4
  <2>2. QED
    BY <2>1
<1> HIDE DEF n
<1>7. /\ conn'[x] = [conn[x] EXCEPT !.down = Without(conn[x].down, n)]
      /\ \A m \in Conns \ {x} : conn'[m] = conn[m]
      /\ DOMAIN conn[x] = ConnFields
  BY <1>1, <1>2, <1>3 DEF ProtoInv, IInv, NetInv
<1>8. /\ conn'[x].server = conn[x].server /\ conn'[x].client = conn[x].client
      /\ conn'[x].up = conn[x].up
  BY <1>7 DEF ConnFields
<1>9. Ent(x)' = Ent(x)
  <2>1. \A m \in Conns : conn'[m].server = "open" <=> conn[m].server = "open"
    BY <1>7, <1>8
  <2>2. QED
    BY <1>3, <2>1, ClientsView DEF ProtoInv
<1>10. StreamOK(x) /\ known' = known
  BY <1>3 DEF ProtoInv, StreamInv, serverVars
<1>11. StreamOK(x)'
  <2>1. Kind(x)' = Kind(x) /\ Stream(x)' = Stream(x) /\ Kind(x) # "NONE"
    BY <1>6, <1>8, <1>9, <1>10 DEF Kind, Stream, StreamOK
  <2>2. Kept(x)
    BY <1>8, <1>9, <2>1 DEF Kept
  <2>3. QED
    BY <1>10, <2>2, KeptStream
<1>12. RoleOK(c)'
  BY <1>1, <1>2, <1>3, <1>5, <1>7, <1>8 DEF RoleOK, At
<1>13. conn[x].server = "none" => ~conn[x].client
  BY <1>3 DEF ProtoInv, RoleInv
<1>14. ~At(c, "put")' /\ client'[c].pc = "get"
  BY <1>1, <1>5 DEF At
<1>15. /\ At(c, "get") \/ At(c, "put")
       /\ \A d \in Clients \ {c} : client'[d] = client[d]
       /\ uploads' = uploads
       /\ client'[c].user = client[c].user /\ client'[c].cmd = client[c].cmd
       /\ client'[c].pc \notin {"off", "login", "count", "metas"}
       /\ client'[c].data \in {0, x}
  BY <1>1, <1>2, <1>4, <1>5, <1>14
<1>16. /\ \A m \in Conns \ {x} : conn'[m] = conn[m]
       /\ conn'[x].server = "open" <=> conn[x].server = "open"
       /\ conn[x].server = "open" /\ (conn[x].up # <<>> \/ ~conn[x].client) =>
            conn'[x].up # <<>> \/ ~conn'[x].client
       /\ conn'[x].server = "none" => ~conn'[x].client
  BY <1>7, <1>8, <1>13
<1>17. At(c, "put")' => PutOK(c)'
  BY <1>14
<1>18. QED
  BY <1>2, <1>11, <1>12, <1>15, <1>16, <1>17, DataProto

\* A client has fetched a file.
LEMMA FinishGetProto ==
  ASSUME ProtoInv, IInv', UNCHANGED serverVars, NEW c \in Clients, FinishGet(c)
  PROVE  SnapInv' /\ RoleInv' /\ StreamInv' /\ CmdInv' /\ PutInv' /\ ListInv'
<1> DEFINE more == client[c].localFiles \cup {Head(client[c].diffFiles).name}
           r == [client[c] EXCEPT !.localFiles = more, !.diffFiles = Tail(client[c].diffFiles),
                                  !.buf = <<>>, !.data = 0]
<1>1. /\ At(c, "get") /\ ~At(c, "off") /\ uploads' = uploads
      /\ conn' = [conn EXCEPT ![client[c].data] = ClientClosed(@)]
  BY DEF FinishGet, At
<1>2. RoleOK(c) /\ client[c] \in Online
  BY <1>1, ClientTypes DEF ProtoInv, RoleInv
<1>3. client[c].diffFiles \in Seq(Meta) /\ client[c].diffFiles # <<>>
  BY <1>1, <1>2 DEF Online, RoleOK
<1>4. Tail(client[c].diffFiles) \in Seq(Meta) /\ Head(client[c].diffFiles) \in Meta
  BY <1>3
<1>5. more \in SUBSET Names
  BY <1>2, <1>4 DEF Online, Meta
<1>6. /\ r \in Online /\ r.user = client[c].user /\ r.cmd = client[c].cmd
      /\ r.data = 0 /\ r.tCount = client[c].tCount
  <2> HIDE DEF more
  <2>1. <<>> \in Seq(Cell)
    OBVIOUS
  <2>2. QED
    BY <1>2, <1>4, <1>5, <2>1 DEF Online
<1>7. client' = [client EXCEPT ![c] = Resume(r)]
  BY <1>2 DEF FinishGet, ProtoInv, SystemTypes
<1> HIDE DEF r
<1>8. client'[c] = Resume(r) /\ \A d \in Clients \ {c} : client'[d] = client[d]
  BY <1>7 DEF ProtoInv, SystemTypes
<1>9. ~(r.tCount > 0)
  BY <1>1, <1>2, <1>6 DEF RoleOK, At
<1>10. /\ client'[c].pc = "idle" \/ (client'[c].pc = "sync" /\ client'[c].diffFiles # <<>>)
       /\ client'[c].user = client[c].user /\ client'[c].cmd = client[c].cmd
       /\ client'[c].data = 0 /\ ~(client'[c].tCount > 0)
  BY <1>6, <1>8, <1>9, ResumeIs
<1>11. QED
  BY <1>1, <1>8, <1>10, DoneProto

\* A client has written the whole of an upload.
LEMMA FinishPutProto ==
  ASSUME ProtoInv, IInv', UNCHANGED serverVars, NEW c \in Clients, FinishPut(c)
  PROVE  SnapInv' /\ RoleInv' /\ StreamInv' /\ CmdInv' /\ PutInv' /\ ListInv'
<1> DEFINE more == client[c].localFiles \cup {uploads[client[c].upload].name}
           r == [client[c] EXCEPT !.pc = "idle", !.data = 0, !.upload = 0, !.localFiles = more]
<1>1. /\ At(c, "put") /\ ~At(c, "off") /\ uploads' = uploads
      /\ conn' = [conn EXCEPT ![client[c].data] = ClientClosed(@)]
  BY DEF FinishPut, At
<1>2. RoleOK(c) /\ client[c] \in Online
  BY <1>1, ClientTypes DEF ProtoInv, RoleInv
<1>3. client' = [client EXCEPT ![c] = r]
  BY <1>2 DEF FinishPut, ProtoInv, SystemTypes
<1>4. /\ r.pc = "idle" /\ r.user = client[c].user /\ r.cmd = client[c].cmd
      /\ r.data = 0 /\ r.tCount = client[c].tCount
  <2> HIDE DEF more
  <2>1. QED
    BY <1>2 DEF Online
<1> HIDE DEF r
<1>5. client'[c] = r /\ \A d \in Clients \ {c} : client'[d] = client[d]
  BY <1>3 DEF ProtoInv, SystemTypes
<1>6. ~(r.tCount > 0)
  BY <1>1, <1>2, <1>4 DEF RoleOK, At
<1>7. QED
  BY <1>1, <1>4, <1>5, <1>6, DoneProto

\* Bytes behind what a client has sent are what may follow.
LEMMA BytesFollow ==
  ASSUME NEW s \in Seq(Cell), NEW f \in Seq(Cell), AllBytes(f)
  PROVE  /\ AllBytes(s) => AllBytes(s \o f)
         /\ IsRequest(s) /\ s[2].t = "PUT" =>
              IsRequest(s \o f) /\ (s \o f)[2].t = "PUT"
<1> DEFINE x == s \o f
<1>0. Len(s) \in Nat /\ Len(f) \in Nat
  OBVIOUS
<1>1. /\ x \in Seq(Cell) /\ Len(x) = Len(s) + Len(f)
      /\ \A p \in 1..Len(s) : x[p] = s[p]
      /\ \A q \in 1..Len(f) : x[Len(s) + q] = f[q]
  BY Joined
<1> HIDE DEF x
<1>2. \A p \in 1..Len(x) : p \in 1..Len(s) \/ (p - Len(s) \in 1..Len(f) /\ x[p] = f[p - Len(s)])
  <2>1. SUFFICES ASSUME NEW p \in 1..Len(x), ~(p \in 1..Len(s))
                 PROVE  p - Len(s) \in 1..Len(f) /\ x[p] = f[p - Len(s)]
    OBVIOUS
  <2>2. p - Len(s) \in 1..Len(f) /\ Len(s) + (p - Len(s)) = p
    BY <1>0, <1>1, <2>1
  <2>3. QED
    BY <1>1, <2>2
<1>3. AllBytes(s) => AllBytes(x)
  BY <1>1, <1>2 DEF AllBytes
<1>4. ASSUME IsRequest(s), s[2].t = "PUT" PROVE IsRequest(x) /\ x[2].t = "PUT"
  <2>1. HeaderCells = 2 /\ Len(s) >= 2 /\ 1 \in 1..Len(s) /\ 2 \in 1..Len(s)
    BY <1>0, <1>4 DEF IsRequest, HeaderCells
  <2>2. x[1] = s[1] /\ x[2] = s[2] /\ Len(x) >= 2
    BY <1>0, <1>1, <2>1
  <2>3. \A p \in 3..Len(x) : x[p].t = "byte"
    <3>1. SUFFICES ASSUME NEW p \in 3..Len(x) PROVE x[p].t = "byte"
      OBVIOUS
    <3>2. p \in 1..Len(x) /\ (p \in 1..Len(s) => p \in 3..Len(s))
      BY <1>0, <1>1
    <3>3. CASE p \in 1..Len(s)
      BY <1>1, <1>4, <3>2, <3>3 DEF IsRequest
    <3>4. CASE ~(p \in 1..Len(s))
      BY <1>2, <3>2, <3>4 DEF AllBytes
    <3>5. QED
      BY <3>3, <3>4
  <2>4. QED
    BY <1>4, <2>1, <2>2, <2>3 DEF IsRequest
<1>5. QED
  BY <1>3, <1>4 DEF x

\* A client writes some of an upload.
LEMMA WriteDataProto ==
  ASSUME ProtoInv, IInv', UNCHANGED serverVars, NEW c \in Clients, WriteData(c)
  PROVE  SnapInv' /\ RoleInv' /\ StreamInv' /\ CmdInv' /\ PutInv' /\ ListInv'
<1>1. /\ At(c, "put") /\ ~At(c, "off") /\ uploads' = uploads
  BY DEF WriteData, At
<1>2. PICK n \in 1..Len(client[c].buf) :
        /\ conn' = [conn EXCEPT ![client[c].data].up = @ \o First(client[c].buf, n)]
        /\ client' = [client EXCEPT ![c].buf = Without(@, n)]
  BY DEF WriteData
<1>3. PICK x : x = client[c].data
  OBVIOUS
<1>4. /\ RoleOK(c) /\ client[c].cmd \in Conns /\ x \in Conns /\ client[c] \in Online /\ client[c].cmd # x
      /\ conn[x].client /\ conn[client[c].cmd].client
  BY <1>1, <1>3, ClientTypes DEF ProtoInv, RoleInv, RoleOK
<1> DEFINE buf == client[c].buf
           f == First(buf, n)
           w == Without(buf, n)
<1>5. buf \in Seq(Cell) /\ n \in 1..Len(buf) /\ Len(buf) \in Nat /\ AllBytes(buf)
  BY <1>1, <1>4 DEF Online, RoleOK, AllBytes
<1> HIDE DEF buf
<1>6. f \in Seq(Cell) /\ Len(f) = n /\ AllBytes(f) /\ w \in Seq(Cell) /\ AllBytes(w)
  <2>1. n \in Nat /\ n <= Len(buf)
    BY <1>5
  <2>2. /\ f \in Seq(Cell) /\ Len(f) = n /\ \A p \in 1..n : f[p] = buf[p]
        /\ w \in Seq(Cell) /\ Len(w) = Len(buf) - n /\ \A p \in 1..(Len(buf) - n) : w[p] = buf[n + p]
    BY <1>5, <2>1 DEF First, Without
  <2>3. \A p \in 1..Len(f) : f[p].t = "byte"
    <3>1. \A p \in 1..n : p \in 1..Len(buf)
      BY <1>5, <2>1
    <3>2. QED
      BY <1>5, <2>2, <3>1 DEF AllBytes
  <2>4. \A p \in 1..Len(w) : w[p].t = "byte"
    <3>1. \A p \in 1..(Len(buf) - n) : n + p \in 1..Len(buf)
      BY <1>5, <2>1
    <3>2. QED
      BY <1>5, <2>2, <3>1, ZenonT(60) DEF AllBytes
  <2>5. QED
    BY <2>2, <2>3, <2>4 DEF AllBytes
<1> HIDE DEF f, w
<1>7. /\ conn'[x] = [conn[x] EXCEPT !.up = conn[x].up \o f]
      /\ \A m \in Conns \ {x} : conn'[m] = conn[m]
      /\ DOMAIN conn[x] = ConnFields
  BY <1>2, <1>3, <1>4 DEF ProtoInv, IInv, NetInv, f, buf
<1>8. /\ conn'[x].server = conn[x].server /\ conn'[x].client = conn[x].client
      /\ conn'[x].up = conn[x].up \o f /\ conn'[x].down = conn[x].down
  BY <1>7 DEF ConnFields
<1>9. /\ client'[c] = [client[c] EXCEPT !.buf = w]
      /\ \A d \in Clients \ {c} : client'[d] = client[d]
  BY <1>2 DEF ProtoInv, SystemTypes, w, buf
<1>10. /\ client'[c].pc = client[c].pc /\ client'[c].user = client[c].user
       /\ client'[c].cmd = client[c].cmd /\ client'[c].data = client[c].data
       /\ client'[c].tCount = client[c].tCount /\ client'[c].upload = client[c].upload
       /\ client'[c].buf = w
  BY <1>4, <1>9 DEF Online
<1>11. Ent(x)' = Ent(x)
  <2>1. \A m \in Conns : conn'[m].server = "open" <=> conn[m].server = "open"
    BY <1>7, <1>8
  <2>2. QED
    BY <1>4, <2>1, ClientsView DEF ProtoInv
<1>12. /\ conn[x].up \in Seq(Cell) /\ Ent(x).rbuf \in Seq(Cell) /\ Stream(x) \in Seq(Cell)
       /\ Len(conn[x].up) \in Nat
  <2>1. conn[x].up \in Seq(Cell) /\ Ent(x).rbuf \in Seq(Cell) /\ Stream(x) \in Seq(Cell)
    BY <1>4, Types DEF ProtoInv
  <2>2. QED
    BY <2>1
<1>13. Kind(x)' = Kind(x) /\ Stream(x)' = Stream(x) \o f
  <2>1. \A r, s, t \in Seq(Cell) : (r \o s) \o t = r \o (s \o t)
    BY ConcatAssociative
  <2>2. (Ent(x).rbuf \o conn[x].up) \o f = Ent(x).rbuf \o (conn[x].up \o f)
    BY <1>6, <1>12, <2>1, ZenonT(60)
  <2>3. QED
    BY <1>8, <1>11, <2>2 DEF Kind, Stream
<1>14. StreamOK(x) /\ PutOK(c) /\ UNCHANGED known
  BY <1>1, <1>4 DEF ProtoInv, StreamInv, PutInv, serverVars
<1>15. PutOK(c)' /\ StreamOK(x)'
  <2>1. CASE Kind(x) = "NONE"
    <3>1. Stream(x)[2].t = "PUT" /\ IsRequest(Stream(x))
      BY <1>3, <1>14, <2>1 DEF PutOK, StreamOK
    <3>2. IsRequest(Stream(x) \o f) /\ (Stream(x) \o f)[2].t = "PUT"
      BY <1>6, <1>12, <3>1, BytesFollow
    <3>3. IsRequest(Stream(x))'
      BY <1>13, <1>14, <3>2 DEF IsRequest
    <3>4. PutOK(c)'
      BY <1>3, <1>10, <1>13, <2>1, <3>2 DEF PutOK
    <3>5. StreamOK(x)'
      BY <1>8, <1>11, <1>13, <1>14, <2>1, <3>3 DEF StreamOK
    <3>6. QED
      BY <3>4, <3>5
  <2>2. CASE Kind(x) = "PUT"
    <3>1. AllBytes(Stream(x) \o f)
      BY <1>6, <1>12, <1>14, <2>2, BytesFollow DEF StreamOK
    <3>2. AllBytes(Stream(x))'
      BY <1>13, <3>1 DEF AllBytes
    <3>3. PutOK(c)'
      BY <1>3, <1>10, <1>13, <2>2 DEF PutOK
    <3>4. StreamOK(x)'
      BY <1>11, <1>13, <1>14, <2>2, <3>2 DEF StreamOK
    <3>5. QED
      BY <3>3, <3>4
  <2>3. CASE Kind(x) = "gone"
    <3>1. AllBytes(conn[x].up \o f)
      BY <1>6, <1>12, <1>14, <2>3, BytesFollow DEF StreamOK
    <3>2. AllBytes(conn[x].up)'
      BY <1>8, <3>1 DEF AllBytes
    <3>3. PutOK(c)'
      BY <1>3, <1>10, <1>13, <2>3 DEF PutOK
    <3>4. StreamOK(x)'
      BY <1>13, <2>3, <3>2 DEF StreamOK
    <3>5. QED
      BY <3>3, <3>4
  <2>4. QED
    BY <1>3, <1>14, <2>1, <2>2, <2>3 DEF PutOK
<1>16. RoleOK(c)'
  <2>1. \A p \in 1..Len(client'[c].buf) : client'[c].buf[p].t = "byte"
    BY <1>6, <1>10 DEF AllBytes
  <2>2. client'[c].upload \in 1..Len(uploads')
    BY <1>1, <1>4, <1>10 DEF RoleOK
  <2>3. /\ conn'[client'[c].cmd].client
        /\ conn'[client'[c].data].client /\ client'[c].data # client'[c].cmd
    <3>1. PICK k : k = client[c].cmd
      OBVIOUS
    <3>2. k \in Conns /\ k # x /\ conn[k].client /\ conn[x].client
      BY <1>4, <3>1
    <3>3. conn'[k] = conn[k] /\ conn'[x].client
      BY <1>7, <1>8, <3>2
    <3>4. client'[c].cmd = k /\ client'[c].data = x
      BY <1>3, <1>10, <3>1
    <3>5. QED
      BY <3>2, <3>3, <3>4
  <2>4. /\ client'[c].data # 0 <=> At(c, "get")' \/ At(c, "put")'
        /\ At(c, "metas")' <=> client'[c].tCount > 0
        /\ ~At(c, "sync")' /\ ~At(c, "get")'
    BY <1>1, <1>4, <1>10 DEF RoleOK, At
  <2>5. QED
    BY <2>1, <2>2, <2>3, <2>4 DEF RoleOK
<1>17. conn[x].server = "none" => ~conn[x].client
  BY <1>4 DEF ProtoInv, RoleInv
<1>18. conn'[x].up # <<>>
  <2>0. Len(conn[x].up \o f) = Len(conn[x].up) + Len(f)
    BY <1>6, <1>12, Joined
  <2>1. Len(conn[x].up \o f) = Len(conn[x].up) + n /\ n > 0
    BY <1>5, <1>6, <2>0
  <2>2. Len(<<>>) = 0
    OBVIOUS
  <2>3. QED
    BY <1>5, <1>8, <1>12, <2>1, <2>2
<1>19. client'[c].pc = "put"
  BY <1>1, <1>10 DEF At
<1>20. QED
  BY <1>1, <1>3, <1>7, <1>8, <1>9, <1>10, <1>15, <1>16, <1>17, <1>18, <1>19, DataProto, ZenonT(60)

\* A client is stopped.
LEMMA StopProto ==
  ASSUME ProtoInv, IInv', UNCHANGED serverVars, NEW c \in Clients, Stop(c)
  PROVE  SnapInv' /\ RoleInv' /\ StreamInv' /\ CmdInv' /\ PutInv' /\ ListInv'
<1> DEFINE T == {client[c].cmd, client[c].data} \cap Conns
<1>1. /\ ~At(c, "off") /\ uploads' = uploads
      /\ client' = [client EXCEPT ![c] = Off]
      /\ \A k \in Conns : conn'[k] = IF k \in {client[c].cmd, client[c].data}
                                        THEN ClientClosed(conn[k]) ELSE conn[k]
  BY DEF Stop
<1>2. /\ \A d \in Clients \ {c} : client'[d] = client[d]
      /\ At(c, "off")' /\ ~At(c, "put")'
  BY <1>1 DEF ProtoInv, SystemTypes, Off, At
<1>3. /\ \A m \in Conns : DOMAIN conn[m] = ConnFields
      /\ StreamInv /\ known' = known
  BY DEF ProtoInv, IInv, NetInv, serverVars
<1>4. \A m \in T : m \in Conns /\ conn'[m] = ClientClosed(conn[m]) /\ Owned(c, m)
  BY <1>1 DEF Owned
<1>5. \A m \in Conns \ T : conn'[m] = conn[m]
  BY <1>1
<1>6. T \in SUBSET Conns
  OBVIOUS
<1> HIDE DEF T
<1>7. \A m \in T : /\ conn'[m].server = "open" <=> conn[m].server = "open"
                   /\ ~conn'[m].client
  BY <1>3, <1>4, ClosedAtClient
<1>8. \A m \in Conns : Ent(m)' = Ent(m)
  <2>1. \A m \in Conns : conn'[m].server = "open" <=> conn[m].server = "open"
    BY <1>5, <1>7
  <2>2. QED
    BY <2>1, ClientsView DEF ProtoInv
<1>9. ASSUME NEW m \in T PROVE StreamOK(m)'
  <2>1. Kept(m)
    BY <1>3, <1>4, <1>8, ClosedKept
  <2>2. QED
    BY <1>3, <1>4, <2>1, KeptStream DEF StreamInv
<1>10. RoleOK(c)'
  BY <1>2 DEF RoleOK
<1>11. QED
  BY <1>1, <1>2, <1>4, <1>5, <1>6, <1>7, <1>9, <1>10, ClientProto

\* Every step of a client keeps what is on the connections in order.
LEMMA ClientStepProto ==
  ASSUME ProtoInv, IInv', UNCHANGED serverVars, NEW c \in Clients, Client(c)
  PROVE  SnapInv' /\ RoleInv' /\ StreamInv' /\ CmdInv' /\ PutInv' /\ ListInv'
BY ReadListProto, ReadCountProto, ReadMetaProto, FetchProto, ReadDataProto, FinishGetProto,
   WriteDataProto, FinishPutProto, StartProto, UploadProto, StopProto
   DEF Client, Program, User

-----------------------------------------------------------------------------
(* Types                                                                   *)

\* What is done to a connection keeps its type.
LEMMA ConnectionTypes ==
  ASSUME NEW x \in Connection, NEW s \in Seq(Cell)
  PROVE  /\ [x EXCEPT !.up = s] \in Connection /\ [x EXCEPT !.down = s] \in Connection
         /\ [x EXCEPT !.server = "open"] \in Connection
         /\ ServerClosed(x) \in Connection /\ ClientClosed(x) \in Connection
         /\ Connected(s) \in Connection
<1>1. NoConn \in Connection
  BY DEF NoConn, Connection
<1>2. <<>> \in Seq(Cell)
  OBVIOUS
<1>3. /\ [x EXCEPT !.up = s] \in Connection /\ [x EXCEPT !.down = s] \in Connection
      /\ [x EXCEPT !.server = "open"] \in Connection
  BY DEF Connection
<1>4. ServerClosed(x) \in Connection
  <2>1. [x EXCEPT !.server = "closed", !.up = <<>>] \in Connection
    BY <1>2 DEF Connection
  <2>2. QED
    BY <1>1, <2>1 DEF ServerClosed
<1>5. ClientClosed(x) \in Connection
  <2>1. [x EXCEPT !.client = FALSE] \in Connection
    BY DEF Connection
  <2>2. QED
    BY <1>1, <2>1 DEF ClientClosed
<1>6. Connected(s) \in Connection
  BY <1>2 DEF Connected, Connection
<1>7. QED
  BY <1>3, <1>4, <1>5, <1>6

\* An entry that serves nobody is an entry.
LEMMA NoEntryTyped == NoEntry \in TableEntry
<1>1. <<>> \in Seq(Cell)
  OBVIOUS
<1>2. QED
  BY <1>1 DEF NoEntry, TableEntry

\* What is done to an entry keeps its type.
LEMMA EntryTypes ==
  ASSUME NEW x \in TableEntry, NEW s \in Seq(Cell)
  PROVE  /\ [x EXCEPT !.wbuf = s] \in TableEntry /\ [x EXCEPT !.rbuf = s] \in TableEntry
         /\ SetData(x, s) \in TableEntry
         /\ NoEntry \in TableEntry
<1>1. NoEntry \in TableEntry
  BY NoEntryTyped
<1>2. [x EXCEPT !.wbuf = s] \in TableEntry /\ [x EXCEPT !.rbuf = s] \in TableEntry
  BY DEF TableEntry
<1>3. SetData(x, s) \in TableEntry
  <2>0. x.wbuf \in Seq(Cell)
    BY DEF TableEntry
  <2>1. x.wbuf \o s \in Seq(Cell)
    BY <2>0, ConcatProperties
  <2>2. QED
    BY <2>1 DEF SetData, TableEntry
<1>4. QED
  BY <1>1, <1>2, <1>3

\* The types of what the entry at turn is and serves.
LEMMA TurnTypes ==
  ASSUME ProtoInv, Reading \/ Writing
  PROVE  /\ round.i \in Entries /\ cur = entry[round.i] /\ cur \in TableEntry
         /\ RoundOK(round) /\ round \in Round
         /\ entry \in [Entries -> TableEntry] /\ conn \in [Conns -> Connection]
         /\ cur.type # "LISTEN" => /\ link \in Conns /\ conn[link] \in Connection
                                   /\ Ent(link) = cur /\ Kind(link) = cur.type /\ StreamOK(link)
<1>1. IInv /\ SystemTypes
  BY DEF ProtoInv
<1>2. round.i \in Entries /\ RoundOK(round)
  BY <1>1, AtTurn
<1>3. /\ cur = entry[round.i] /\ cur \in TableEntry /\ round \in Round
      /\ entry \in [Entries -> TableEntry] /\ conn \in [Conns -> Connection]
  BY <1>1, <1>2 DEF cur, SystemTypes
<1>4. ASSUME cur.type # "LISTEN"
      PROVE  /\ link \in Conns /\ conn[link] \in Connection
             /\ Ent(link) = cur /\ Kind(link) = cur.type /\ StreamOK(link)
  <2>1. link \in Conns /\ conn[link].server = "open" /\ Ent(link) = cur
    BY <1>1, <1>4, Turn
  <2>2. QED
    BY <1>1, <2>1, Types DEF ProtoInv, StreamInv
<1>5. QED
  BY <1>2, <1>3, <1>4

\* What the server has to keep of its variables' types.
LEMMA ServerTypes ==
  ASSUME ProtoInv, IInv', UNCHANGED clientVars,
         conn' \in [Conns -> Connection], entry' \in [Entries -> TableEntry],
         round' \in Round, known' \in SUBSET Users, files' \in [Users -> Seq(Meta)],
         stored' \in [Users -> [Names -> Seq(Seq(Cell))]]
  PROVE  SystemTypes'
<1>1. /\ backlog' \in Seq(Conns) /\ size' \in 1..MAX_FD /\ sock' \in [Fds -> Conns \cup {0}]
  BY DEF IInv, NetInv, TableInv
<1>2. allRset' \in SUBSET (Fds \cup {Listen}) /\ allWset' \in SUBSET Fds
  <2>1. \A i \in UsedEntries' : /\ entry'[i].fd \in Fds \cup {Listen}
                                /\ entry'[i].type # "LISTEN" => entry'[i].fd \in Fds
    BY DEF IInv, TableInv
  <2>2. QED
    BY <2>1 DEF IInv, TablesAgree
<1>3. UNCHANGED <<client, disk, uploads, finished, starts>>
  BY DEF clientVars
<1>4. QED
  BY <1>1, <1>2, <1>3 DEF ProtoInv, SystemTypes

\* The first turn of a round is one of its types.
LEMMA VisitTyped ==
  ASSUME NEW r \in Round, NEW table, NEW k \in Nat, RoundOK(r)
  PROVE  VisitFrom(r, table, k) \in Round
<1> DEFINE todo == {j \in k..(r.chk_size - 1) : HasToRead(r, table[j]) \/ HasToWrite(r, table[j])}
           j == Least(todo)
           v == VisitFrom(r, table, k)
<1>0. MAX_FD \in Nat /\ r.chk_size \in 1..MAX_FD
  BY NetAssumption DEF RoundOK, MAX_FD
<1>1. CASE todo = {}
  <2>1. v = [half |-> "select"]
    BY <1>1 DEF VisitFrom
  <2>2. QED
    BY <2>1 DEF Round
<1>2. CASE todo # {}
  <2>1. todo \in SUBSET Nat
    BY <1>0
  <2>2. j \in todo
    BY <1>2, <2>1, LeastIs
  <2>3. j \in Entries
    BY <1>0, <2>2 DEF Entries
  <2>4. v = [r EXCEPT !.i = j, !.half = IF HasToRead(r, table[j]) THEN "read" ELSE "write"]
    BY <1>2 DEF VisitFrom
  <2> HIDE DEF j
  <2>5. r \in [half : {"read", "write"}, i : Entries, chk_size : 1..MAX_FD,
               rset : SUBSET (Fds \cup {Listen}), wset : SUBSET Fds]
    BY DEF Round, RoundOK, RoundFields
  <2>6. QED
    BY <2>3, <2>4, <2>5 DEF Round
<1>3. QED
  BY <1>1, <1>2

\* A round goes on with one of its types.
LEMMA RoundTyped ==
  ASSUME ProtoInv, Reading \/ Writing,
         round' = AfterRead(round, entry') \/ round' = AfterWrite(round, entry')
  PROVE  round' \in Round
BY TurnTypes, LaterTurn

\* The server selects, or takes a connection that waits.
LEMMA SelectTypes ==
  ASSUME ProtoInv, IInv', UNCHANGED clientVars, Select
  PROVE  SystemTypes'
<1> DEFINE r == [half |-> "read", i |-> 0, chk_size |-> size,
                 rset |-> {f \in allRset : CanRead(f)}, wset |-> {f \in allWset : CanWrite(f)}]
<1>1. round' = VisitFrom(r, entry, 0)
  BY DEF Select
<1>2. 0 \in Entries /\ size \in 1..MAX_FD
  BY NetAssumption DEF Entries, MAX_FD, ProtoInv, SystemTypes
<1>3. /\ allRset \in SUBSET (Fds \cup {Listen}) /\ allWset \in SUBSET Fds
      /\ \A f \in Fds : f # Listen
  BY DEF ProtoInv, SystemTypes, Fds, Listen
<1>4. r \in Round /\ RoundOK(r)
  <2>1. DOMAIN r = RoundFields
    BY DEF RoundFields
  <2>2. QED
    BY <1>2, <1>3, <2>1 DEF Round, RoundOK
<1> HIDE DEF r
<1>5. round' \in Round
  BY <1>1, <1>4, VisitTyped
<1>6. UNCHANGED <<entry, known, files, stored, conn>>
  BY DEF Select, netVars
<1>7. QED
  BY <1>5, <1>6, ServerTypes DEF ProtoInv, SystemTypes

\* Accept keeps the types.
LEMMA AcceptTypes ==
  ASSUME ProtoInv, IInv', UNCHANGED clientVars, Accept
  PROVE  SystemTypes'
<1> DEFINE f == Least({g \in Fds : sock[g] = 0})
           fresh == [NoEntry EXCEPT !.used = TRUE, !.fd = f]
           k == Head(backlog)
<1>1. /\ Reading /\ entry' = [entry EXCEPT ![Slot] = fresh]
      /\ conn' = [conn EXCEPT ![k].server = "open"]
      /\ round' = AfterRead(round, entry') /\ UNCHANGED <<known, files, stored>>
  BY DEF Accept
<1>2. /\ entry \in [Entries -> TableEntry] /\ conn \in [Conns -> Connection]
      /\ backlog # <<>> /\ IInv
  <2>1. round.i = 0 /\ IInv
    BY <1>1, AtTurn DEF ProtoInv, Accept
  <2>2. QED
    BY <1>1, <2>1, TurnTypes DEF IInv, RoundInv
<1>3. f \in Fds
  <2>1. {g \in Fds : sock[g] = 0} \in SUBSET Nat
    BY NetAssumption DEF Fds
  <2>2. {g \in Fds : sock[g] = 0} # {}
    BY <1>2, FreeFd DEF IInv
  <2>3. QED
    BY <2>1, <2>2, LeastIs
<1> HIDE DEF f
<1>4. fresh \in TableEntry
  BY <1>3, NoEntryTyped DEF TableEntry
<1> HIDE DEF fresh
<1>5. entry' \in [Entries -> TableEntry]
  BY <1>1, <1>2, <1>4
<1>6. conn' \in [Conns -> Connection]
  <2>1. k \in Conns
    BY <1>2 DEF IInv, NetInv
  <2>2. [conn[k] EXCEPT !.server = "open"] \in Connection
    BY <1>2, <2>1 DEF Connection
  <2>3. conn' = [conn EXCEPT ![k] = [conn[k] EXCEPT !.server = "open"]]
    BY <1>1
  <2>4. QED
    BY <1>2, <2>2, <2>3
<1>7. round' \in Round
  BY <1>1, RoundTyped
<1>8. QED
  BY <1>1, <1>5, <1>6, <1>7, ServerTypes DEF ProtoInv, SystemTypes

\* The server gives a connection up, or reads a part.
LEMMA GoneTypes ==
  ASSUME ProtoInv, IInv', UNCHANGED clientVars, HangUp \/ EndGet
  PROVE  SystemTypes'
<1>1. /\ Reading \/ Writing
      /\ cur.type # "LISTEN" /\ entry' = [entry EXCEPT ![round.i] = NoEntry] /\ CloseFd
      /\ round' = AfterRead(round, entry') \/ round' = AfterWrite(round, entry')
      /\ UNCHANGED <<known, files, stored>>
  BY DEF HangUp, EndGet, Removed
<1>2. /\ entry \in [Entries -> TableEntry] /\ conn \in [Conns -> Connection]
      /\ link \in Conns /\ conn[link] \in Connection /\ cur \in TableEntry
  BY <1>1, TurnTypes
<1>3. <<>> \in Seq(Cell)
  OBVIOUS
<1>4. entry' \in [Entries -> TableEntry]
  BY <1>1, <1>2, <1>3, EntryTypes
<1>5. conn' \in [Conns -> Connection]
  BY <1>1, <1>2, <1>3, ConnectionTypes DEF CloseFd
<1>6. round' \in Round
  BY <1>1, RoundTyped
<1>7. QED
  BY <1>1, <1>4, <1>5, <1>6, ServerTypes DEF ProtoInv, SystemTypes

\* ReadPart keeps the types.
LEMMA ReadPartTypes ==
  ASSUME ProtoInv, IInv', UNCHANGED clientVars, ReadPart
  PROVE  SystemTypes'
<1>1. PICK n \in ReadSizes : /\ Taken(n)
                             /\ entry' = [entry EXCEPT ![round.i].rbuf = Got(n)]
  BY DEF ReadPart
<1>2. /\ Reading /\ cur.type # "LISTEN" /\ round' = AfterRead(round, entry')
      /\ UNCHANGED <<known, files, stored>>
  BY DEF ReadPart
<1>3. /\ entry \in [Entries -> TableEntry] /\ conn \in [Conns -> Connection]
      /\ link \in Conns /\ conn[link] \in Connection /\ cur \in TableEntry
      /\ round.i \in Entries /\ cur = entry[round.i]
  BY <1>2, TurnTypes
<1>4. PICK k : k = link
  OBVIOUS
<1>5. Ent(k)'.rbuf \in Seq(Cell) /\ conn'[k].up \in Seq(Cell)
  BY <1>4, ReadPartView
<1> DEFINE u == Without(conn[k].up, n)
<1>6. conn' = [conn EXCEPT ![k] = [conn[k] EXCEPT !.up = u]]
  BY <1>1, <1>3, <1>4 DEF Taken
<1>7. u \in Seq(Cell)
  <2> HIDE DEF u
  <2>1. QED
    BY <1>3, <1>4, <1>5, <1>6 DEF Connection
<1> HIDE DEF u
<1>8. conn' \in [Conns -> Connection]
  BY <1>3, <1>4, <1>6, <1>7, ConnectionTypes
<1>9. Got(n) \in Seq(Cell)
  <2>1. n \in Nat /\ n <= Len(conn[k].up)
    <3>1. conn[k].up \in Seq(Cell) /\ cur.rbuf \in Seq(Cell)
      BY <1>3, <1>4 DEF Connection, TableEntry
    <3>2. Len(conn[k].up) \in Nat /\ Wanted \in Int
      BY <1>4, <3>1 DEF Wanted, HeaderCells
    <3>3. QED
      BY <1>4, <3>2 DEF ReadSizes, Smaller
  <2>2. conn[k].up \in Seq(Cell) /\ cur.rbuf \in Seq(Cell)
    BY <1>3, <1>4 DEF Connection, TableEntry
  <2>3. n \in 0..Len(conn[k].up)
    BY <2>1, <2>2
  <2>4. MovedOK(cur.rbuf, conn[k].up, n)
    BY <2>2, <2>3, Moved
  <2>5. QED
    BY <1>4, <2>4 DEF MovedOK, Got
<1>10. entry' \in [Entries -> TableEntry]
  <2>1. entry' = [entry EXCEPT ![round.i] = [cur EXCEPT !.rbuf = Got(n)]]
    BY <1>1, <1>3
  <2>2. [cur EXCEPT !.rbuf = Got(n)] \in TableEntry
    BY <1>3, <1>9, EntryTypes
  <2>3. QED
    BY <1>3, <2>1, <2>2
<1>11. round' \in Round
  BY <1>2, RoundTyped
<1>12. QED
  BY <1>2, <1>8, <1>10, <1>11, ServerTypes DEF ProtoInv, SystemTypes

\* The types of what a header leaves: k's connection, and the header itself.
LEMMA HeaderTypes ==
  ASSUME ProtoInv, NEW t, ReadHeader(t)
  PROVE  /\ conn' \in [Conns -> Connection]
         /\ Header.t = t /\ Header \in Cell
         /\ t \in {"LOGIN", "GET", "PUT"} => Header.user \in Users
         /\ t \in {"GET", "PUT"} => Header.meta \in Meta /\ Header.meta.name \in Names
<1>1. PICK k : k = link
  OBVIOUS
<1>2. /\ Reading /\ cur.type # "LISTEN" /\ k \in Conns /\ Header.t = t /\ Header \in Cell
      /\ conn'[k] = [conn[k] EXCEPT !.up = conn'[k].up] /\ conn'[k].up \in Seq(Cell)
      /\ Taken(Wanted)
  BY <1>1, HeaderView DEF ReadHeader
<1>3. conn \in [Conns -> Connection]
  BY <1>2, TurnTypes
<1>4. conn'[k] \in Connection
  BY <1>2, <1>3, ConnectionTypes, ZenonT(60)
<1>5. conn' = [conn EXCEPT ![k] = [conn[k] EXCEPT !.up = Without(conn[k].up, Wanted)]]
  BY <1>1, <1>2, <1>3 DEF Taken
<1>6. conn' \in [Conns -> Connection]
  BY <1>2, <1>3, <1>4, <1>5
<1>7. /\ t \in {"LOGIN", "GET", "PUT"} => Header.user \in Users
      /\ t \in {"GET", "PUT"} => Header.meta \in Meta
  BY <1>2 DEF Cell
<1>8. QED
  BY <1>2, <1>6, <1>7 DEF Meta

\* The server takes a login, a request for a file, or an upload.
LEMMA LoginTypes ==
  ASSUME ProtoInv, IInv', UNCHANGED clientVars, Login
  PROVE  SystemTypes'
<1> DEFINE u == Header.user
           b == [cur EXCEPT !.name = u, !.type = "CMD", !.rbuf = <<>>]
<1>1. /\ ReadHeader("LOGIN") /\ Reading /\ cur.type # "LISTEN" /\ known' = known \cup {u}
      /\ entry' = [entry EXCEPT ![round.i] = Listed(b, files)]
      /\ round' = AfterRead(round, entry') /\ UNCHANGED <<files, stored>>
  BY DEF Login, ReadHeader, ExpectsHeader, cur
<1>2. conn' \in [Conns -> Connection] /\ u \in Users
  BY <1>1, HeaderTypes
<1>3. cur \in TableEntry /\ entry \in [Entries -> TableEntry]
  BY <1>1, TurnTypes
<1> HIDE DEF u
<1>4. b \in TableEntry /\ b.name = u
  <2>1. <<>> \in Seq(Cell)
    OBVIOUS
  <2>2. QED
    BY <1>2, <1>3, <2>1 DEF TableEntry
<1> HIDE DEF b
<1>5. files \in [Users -> Seq(Meta)]
  BY DEF ProtoInv, SystemTypes
<1>6. ListOf(files[u]) \in Seq(Cell)
  BY <1>2, <1>5, ListParts
<1>7. Listed(b, files) \in TableEntry
  BY <1>4, <1>6, EntryTypes DEF Listed
<1>8. entry' \in [Entries -> TableEntry]
  BY <1>1, <1>3, <1>7
<1>9. round' \in Round
  BY <1>1, RoundTyped
<1>10. QED
  BY <1>1, <1>2, <1>8, <1>9, ServerTypes DEF ProtoInv, SystemTypes

\* Get keeps the types.
LEMMA GetTypes ==
  ASSUME ProtoInv, IInv', UNCHANGED clientVars, Get
  PROVE  SystemTypes'
<1> DEFINE u == Header.user
           n == Header.meta.name
           b == [cur EXCEPT !.name = u, !.type = "GET", !.rbuf = <<>>]
<1>1. /\ ReadHeader("GET") /\ Reading /\ cur.type # "LISTEN"
      /\ entry' = [entry EXCEPT ![round.i] = SetData(b, OnDisk(u, n))]
      /\ round' = AfterRead(round, entry') /\ UNCHANGED <<known, files, stored>>
  BY DEF Get, ReadHeader, ExpectsHeader, cur
<1>2. conn' \in [Conns -> Connection] /\ u \in Users /\ n \in Names
  BY <1>1, HeaderTypes
<1>3. cur \in TableEntry /\ entry \in [Entries -> TableEntry]
  BY <1>1, TurnTypes
<1> HIDE DEF u, n
<1>4. b \in TableEntry
  <2>1. <<>> \in Seq(Cell)
    OBVIOUS
  <2>2. QED
    BY <1>2, <1>3, <2>1 DEF TableEntry
<1> HIDE DEF b
<1>5. OnDisk(u, n) \in Seq(Cell)
  <2>1. stored[u][n] \in Seq(Seq(Cell))
    BY <1>2 DEF ProtoInv, SystemTypes
  <2>2. QED
    BY <2>1 DEF OnDisk
<1>6. SetData(b, OnDisk(u, n)) \in TableEntry
  BY <1>4, <1>5, EntryTypes
<1>7. entry' \in [Entries -> TableEntry]
  BY <1>1, <1>3, <1>6
<1>8. round' \in Round
  BY <1>1, RoundTyped
<1>9. QED
  BY <1>1, <1>2, <1>7, <1>8, ServerTypes DEF ProtoInv, SystemTypes

\* Put keeps the types.
LEMMA PutTypes ==
  ASSUME ProtoInv, IInv', UNCHANGED clientVars, Put
  PROVE  SystemTypes'
<1> DEFINE u == Header.user
           m == Header.meta
           b == [cur EXCEPT !.name = u, !.type = "PUT", !.rbuf = <<>>, !.meta = m]
           r == [round EXCEPT !.wset = @ \ {cur.fd}]
<1>1. /\ ReadHeader("PUT") /\ Reading /\ cur.type # "LISTEN"
      /\ entry' = [entry EXCEPT ![round.i].name = u, ![round.i].type = "PUT",
                                ![round.i].rbuf = <<>>, ![round.i].meta = m]
      /\ round' = AfterRead(r, entry') /\ UNCHANGED <<known, files, stored>>
  BY DEF Put, ReadHeader, ExpectsHeader
<1>2. conn' \in [Conns -> Connection] /\ u \in Users /\ m \in Meta
  BY <1>1, HeaderTypes
<1>3. /\ cur \in TableEntry /\ entry \in [Entries -> TableEntry]
      /\ cur = entry[round.i] /\ round.i \in Entries /\ round \in Round /\ RoundOK(round)
  BY <1>1, TurnTypes
<1> HIDE DEF u, m
<1>4. b \in TableEntry
  <2>1. <<>> \in Seq(Cell)
    OBVIOUS
  <2>2. QED
    BY <1>2, <1>3, <2>1 DEF TableEntry
<1>5. entry' = [entry EXCEPT ![round.i] = b]
  BY <1>1, <1>3
<1> HIDE DEF b
<1>6. entry' \in [Entries -> TableEntry]
  BY <1>3, <1>4, <1>5
<1>7. r \in Round /\ RoundOK(r)
  <2>1. round \in [half : {"read", "write"}, i : Entries, chk_size : 1..MAX_FD,
                   rset : SUBSET (Fds \cup {Listen}), wset : SUBSET Fds]
    BY <1>3 DEF Round, RoundOK, RoundFields
  <2>2. round.wset \ {cur.fd} \in SUBSET Fds /\ Listen \notin round.wset \ {cur.fd}
    BY <1>3, <2>1 DEF RoundOK
  <2> DEFINE w == round.wset \ {cur.fd}
  <2>3. r = [round EXCEPT !.wset = w]
    OBVIOUS
  <2> HIDE DEF w, r
  <2>4. r \in [half : {"read", "write"}, i : Entries, chk_size : 1..MAX_FD,
               rset : SUBSET (Fds \cup {Listen}), wset : SUBSET Fds]
    BY <2>1, <2>2, <2>3 DEF w
  <2>5. /\ DOMAIN r = RoundFields /\ r.i = round.i /\ r.chk_size = round.chk_size /\ r.wset = w
    BY <1>3, <2>1, <2>3 DEF RoundFields
  <2>6. QED
    BY <1>3, <2>2, <2>4, <2>5 DEF Round, RoundOK, w
<1> HIDE DEF r
<1>8. round' \in Round
  BY <1>1, <1>7, LaterTurn
<1>9. QED
  BY <1>1, <1>2, <1>6, <1>8, ServerTypes DEF ProtoInv, SystemTypes

\* An upload is stored and told.
LEMMA StoreTypes ==
  ASSUME ProtoInv, IInv', UNCHANGED clientVars, StoreFile
  PROVE  SystemTypes'
<1>1. PICK k : k = link
  OBVIOUS
<1>2. /\ Reading /\ cur.type = "PUT" /\ CloseFd /\ known' = known
      /\ files' = [files EXCEPT ![cur.name] = Append(@, cur.meta)]
      /\ entry' = [[i \in DOMAIN entry |-> IF IsTold(entry[i], cur.name)
                                             THEN Listed(entry[i], files') ELSE entry[i]]
                     EXCEPT ![round.i] = NoEntry]
      /\ round' = AfterRead(round, entry')
  BY DEF StoreFile, Removed
<1>3. /\ entry \in [Entries -> TableEntry] /\ conn \in [Conns -> Connection]
      /\ k \in Conns /\ conn[k] \in Connection
      /\ Ent(k) = cur /\ Kind(k) = "PUT" /\ StreamOK(k)
  BY <1>1, <1>2, TurnTypes
<1>4. cur.name \in Users /\ cur.meta \in Meta /\ cur.meta.name \in Names
  BY <1>3 DEF StreamOK, ProtoInv, SystemTypes, Meta
<1>5. /\ files \in [Users -> Seq(Meta)] /\ stored \in [Users -> [Names -> Seq(Seq(Cell))]]
      /\ known \in SUBSET Users
  BY DEF ProtoInv, SystemTypes
<1>6. files' \in [Users -> Seq(Meta)]
  <2>1. Append(files[cur.name], cur.meta) \in Seq(Meta)
    BY <1>4, <1>5
  <2>2. QED
    BY <1>2, <1>5, <2>1
<1>7. PICK x \in Seq(Cell) : stored' = [stored EXCEPT ![cur.name][cur.meta.name] = Append(@, x)]
  <2>1. PICK x \in Seq(Cell) : StoredAs(k, x)
    BY <1>1, StoreView
  <2>2. QED
    BY <1>3, <2>1 DEF StoredAs
<1>8. stored' \in [Users -> [Names -> Seq(Seq(Cell))]]
  <2>1. stored[cur.name] \in [Names -> Seq(Seq(Cell))]
    BY <1>4, <1>5
  <2>2. Append(stored[cur.name][cur.meta.name], x) \in Seq(Seq(Cell))
    BY <1>4, <1>7, <2>1
  <2>3. [stored[cur.name] EXCEPT ![cur.meta.name] = Append(stored[cur.name][cur.meta.name], x)]
          \in [Names -> Seq(Seq(Cell))]
    BY <2>1, <2>2
  <2>4. QED
    BY <1>5, <1>7, <2>3
<1>9. ASSUME NEW i \in Entries, IsTold(entry[i], cur.name)
      PROVE  Listed(entry[i], files') \in TableEntry
  <2>1. entry[i] \in TableEntry /\ entry[i].name \in Users
    BY <1>3, <1>4, <1>9 DEF IsTold
  <2>2. ListOf(files'[entry[i].name]) \in Seq(Cell)
    BY <1>6, <2>1, ListParts
  <2>3. QED
    BY <2>1, <2>2, EntryTypes DEF Listed
<1>10. entry' \in [Entries -> TableEntry]
  <2> DEFINE told == [i \in DOMAIN entry |-> IF IsTold(entry[i], cur.name)
                                               THEN Listed(entry[i], files') ELSE entry[i]]
  <2>1. told \in [Entries -> TableEntry]
    BY <1>3, <1>9
  <2>2. entry' = [told EXCEPT ![round.i] = NoEntry]
    BY <1>2
  <2> HIDE DEF told
  <2>3. QED
    BY <2>1, <2>2, NoEntryTyped
<1>11. conn' \in [Conns -> Connection]
  <2>1. <<>> \in Seq(Cell)
    OBVIOUS
  <2>2. QED
    BY <1>1, <1>2, <1>3, <2>1, ConnectionTypes DEF CloseFd
<1>12. round' \in Round
  BY <1>2, RoundTyped
<1>13. QED
  BY <1>2, <1>5, <1>6, <1>8, <1>10, <1>11, <1>12, ServerTypes

\* The server writes.
LEMMA FlushTypes ==
  ASSUME ProtoInv, IInv', UNCHANGED clientVars, Flush
  PROVE  SystemTypes'
<1>1. PICK k : k = link
  OBVIOUS
<1>2. PICK n : /\ conn' = [conn EXCEPT ![link].down = @ \o First(cur.wbuf, n)]
               /\ entry' = [entry EXCEPT ![round.i].wbuf = Without(@, n)]
  BY DEF Flush
<1>3. /\ Writing /\ cur.type # "LISTEN" /\ round' = AfterWrite(round, entry')
      /\ UNCHANGED <<known, files, stored>>
  BY WriterServes DEF Flush, ProtoInv
<1>4. /\ entry \in [Entries -> TableEntry] /\ conn \in [Conns -> Connection]
      /\ k \in Conns /\ conn[k] \in Connection /\ cur = entry[round.i] /\ round.i \in Entries
      /\ cur \in TableEntry /\ Ent(k) = cur
  BY <1>1, <1>3, TurnTypes
<1>5. conn'[k].down \in Seq(Cell) /\ Ent(k)'.wbuf \in Seq(Cell)
  BY <1>1, FlushView
<1> DEFINE d == conn[k].down \o First(cur.wbuf, n)
           w == Without(cur.wbuf, n)
<1>6. /\ conn' = [conn EXCEPT ![k] = [conn[k] EXCEPT !.down = d]]
      /\ entry' = [entry EXCEPT ![round.i] = [cur EXCEPT !.wbuf = w]]
  BY <1>1, <1>2, <1>4
<1> HIDE DEF d, w
<1>7. d \in Seq(Cell)
  BY <1>4, <1>5, <1>6 DEF Connection
<1>8. w \in Seq(Cell)
  <2>1. cur.wbuf \in Seq(Cell)
    BY <1>4 DEF TableEntry
  <2>2. PICK j \in 1..Smaller(Len(cur.wbuf), SendRoom - Len(conn[k].down)) :
          entry' = [entry EXCEPT ![round.i].wbuf = Without(@, j)]
    BY <1>1 DEF Flush
  <2>3. j \in 0..Len(cur.wbuf)
    <3> DEFINE most == Len(cur.wbuf)
               room == SendRoom - Len(conn[k].down)
    <3>1. most \in Nat /\ room \in Int /\ j \in 1..Smaller(most, room)
      BY <1>4, <2>1, <2>2, NetAssumption DEF Connection
    <3> HIDE DEF most, room
    <3>2. j \in 0..most
      BY <3>1 DEF Smaller
    <3>3. QED
      BY <3>2 DEF most
  <2>4. Without(cur.wbuf, j) \in Seq(Cell)
    BY <2>1, <2>3, Moved DEF MovedOK
  <2>5. entry'[round.i].wbuf = Without(cur.wbuf, j)
    BY <1>4, <2>2 DEF TableEntry
  <2>6. entry'[round.i].wbuf = w
    BY <1>4, <1>6 DEF TableEntry
  <2>7. QED
    BY <2>4, <2>5, <2>6
<1>9. conn' \in [Conns -> Connection]
  BY <1>4, <1>6, <1>7, ConnectionTypes
<1>10. entry' \in [Entries -> TableEntry]
  BY <1>4, <1>6, <1>8, EntryTypes
<1>11. round' \in Round
  BY <1>3, RoundTyped
<1>12. QED
  BY <1>3, <1>9, <1>10, <1>11, ServerTypes DEF ProtoInv, SystemTypes

\* FlushToNobody keeps the types.
LEMMA NobodyTypes ==
  ASSUME ProtoInv, IInv', UNCHANGED clientVars, FlushToNobody
  PROVE  SystemTypes'
<1>1. /\ Writing /\ cur.type # "LISTEN" /\ round' = AfterWrite(round, entry')
      /\ UNCHANGED <<known, files, stored, conn>>
  BY WriterServes DEF FlushToNobody, ProtoInv, netVars
<1>2. /\ entry \in [Entries -> TableEntry] /\ conn \in [Conns -> Connection]
      /\ cur = entry[round.i] /\ round.i \in Entries /\ cur \in TableEntry
  BY <1>1, TurnTypes
<1>3. cur.wbuf \in Seq(Cell)
  BY <1>2 DEF TableEntry
<1>4. PICK x \in Seq(Cell) : entry' = [entry EXCEPT ![round.i].wbuf = x]
  <2>1. CASE \E n \in 1..Len(cur.wbuf) : entry' = [entry EXCEPT ![round.i].wbuf = Without(@, n)]
    <3>1. PICK n \in 1..Len(cur.wbuf) : entry' = [entry EXCEPT ![round.i].wbuf = Without(@, n)]
      BY <2>1
    <3>2. n \in 0..Len(cur.wbuf)
      BY <1>3
    <3>3. Without(cur.wbuf, n) \in Seq(Cell)
      BY <1>3, <3>2, Moved DEF MovedOK
    <3>4. QED
      BY <1>2, <3>1, <3>3
  <2>2. CASE entry' = [entry EXCEPT ![round.i].wbuf = <<[t |-> "stale"]>> \o @]
    <3>1. <<[t |-> "stale"]>> \in Seq(Cell)
      BY DEF Cell
    <3>2. <<[t |-> "stale"]>> \o cur.wbuf \in Seq(Cell)
      BY <1>3, <3>1, ConcatProperties
    <3>3. QED
      BY <1>2, <2>2, <3>2
  <2>3. QED
    BY <2>1, <2>2 DEF FlushToNobody
<1>5. entry' \in [Entries -> TableEntry]
  <2>1. entry' = [entry EXCEPT ![round.i] = [cur EXCEPT !.wbuf = x]]
    BY <1>2, <1>4
  <2>2. QED
    BY <1>2, <2>1, EntryTypes
<1>6. round' \in Round
  BY <1>1, RoundTyped
<1>7. QED
  BY <1>1, <1>2, <1>5, <1>6, ServerTypes DEF ProtoInv, SystemTypes

\* Every step of the server keeps the types.
LEMMA ServerStepTypes ==
  ASSUME ProtoInv, IInv', UNCHANGED clientVars, Server
  PROVE  SystemTypes'
BY SelectTypes, AcceptTypes, GoneTypes, ReadPartTypes, LoginTypes, GetTypes, PutTypes, StoreTypes,
   FlushTypes, NobodyTypes DEF Server

\* What the clients have to keep of the types.
LEMMA ClientSideTypes ==
  ASSUME ProtoInv, IInv', UNCHANGED serverVars,
         conn' \in [Conns -> Connection], client' \in [Clients -> {Off} \cup Online],
         disk' \in [Clients -> [Names -> Seq(Cell)]],
         uploads' \in Seq([user : Users, name : Names, size : Nat]),
         finished' \in SUBSET Nat, starts' \in Nat
  PROVE  SystemTypes'
<1>1. backlog' \in Seq(Conns)
  BY DEF IInv, NetInv
<1>2. UNCHANGED <<entry, size, sock, allRset, allWset, round, known, files, stored>>
  BY DEF serverVars
<1>3. QED
  BY <1>1, <1>2 DEF ProtoInv, SystemTypes

\* A client reads a cell.
LEMMA ReadCmdTypes ==
  ASSUME ProtoInv, IInv', UNCHANGED serverVars, NEW c \in Clients, ~At(c, "off"),
         CmdDown(c) # <<>>, ReadCmd(c), UNCHANGED <<disk, uploads, finished, starts>>,
         client' \in [Clients -> {Off} \cup Online]
  PROVE  SystemTypes'
<1>1. PICK k : k = client[c].cmd
  OBVIOUS
<1>2. /\ k \in Conns /\ conn \in [Conns -> Connection] /\ conn[k].down # <<>>
      /\ conn' = [conn EXCEPT ![k] = [conn[k] EXCEPT !.down = Tail(conn[k].down)]]
  BY <1>1, ClientTypes DEF ReadCmd, CmdDown, ProtoInv, SystemTypes
<1>3. conn[k].down \in Seq(Cell)
  BY <1>2 DEF Connection
<1>4. Tail(conn[k].down) \in Seq(Cell)
  BY <1>2, <1>3
<1>5. conn' \in [Conns -> Connection]
  BY <1>2, <1>4, ConnectionTypes
<1>6. QED
  BY <1>5, ClientSideTypes DEF ProtoInv, SystemTypes

\* ReadList keeps the types.
LEMMA ReadListTypes ==
  ASSUME ProtoInv, IInv', UNCHANGED serverVars, NEW c \in Clients, ReadList(c)
  PROVE  SystemTypes'
<1>1. /\ ~At(c, "off") /\ CmdDown(c) # <<>> /\ ReadCmd(c)
      /\ UNCHANGED <<disk, uploads, finished, starts>>
      /\ client' = [client EXCEPT ![c] = [client[c] EXCEPT !.pc = "count"]]
  BY DEF ReadList, At
<1>2. client[c] \in Online /\ client \in [Clients -> {Off} \cup Online]
  BY <1>1, ClientTypes DEF ProtoInv, SystemTypes
<1>3. [client[c] EXCEPT !.pc = "count"] \in Online
  BY <1>2 DEF Online
<1>4. client' \in [Clients -> {Off} \cup Online]
  BY <1>1, <1>2, <1>3
<1>5. QED
  BY <1>1, <1>4, ReadCmdTypes

\* ReadCount keeps the types: what is read is a count.
LEMMA ReadCountTypes ==
  ASSUME ProtoInv, IInv', UNCHANGED serverVars, NEW c \in Clients, ReadCount(c)
  PROVE  SystemTypes'
<1> DEFINE n == Head(CmdDown(c)).n
           r == [client[c] EXCEPT !.tCount = n]
<1>1. /\ At(c, "count") /\ ~At(c, "off") /\ CmdDown(c) # <<>> /\ ReadCmd(c)
      /\ UNCHANGED <<disk, uploads, finished, starts>>
      /\ client' = [client EXCEPT ![c] = Resume(r)]
  BY DEF ReadCount, At
<1>2. /\ client[c] \in Online /\ client \in [Clients -> {Off} \cup Online]
      /\ ListOK(c) /\ Head(CmdDown(c)) = Pending(client[c].cmd)[1] /\ Head(CmdDown(c)) \in Cell
  BY <1>1, NextCell DEF ProtoInv, SystemTypes
<1>3. n \in Nat
  <2>1. Head(CmdDown(c)).t = "count"
    BY <1>1, <1>2 DEF ListOK, ListState, At
  <2>2. QED
    BY <1>2, <2>1 DEF Cell
<1> HIDE DEF n
<1>4. r \in Online
  BY <1>2, <1>3 DEF Online
<1> HIDE DEF r
<1>5. client' \in [Clients -> {Off} \cup Online]
  BY <1>1, <1>2, <1>4, ResumeIs
<1>6. QED
  BY <1>1, <1>5, ReadCmdTypes

\* ReadMeta keeps the types: what is read is a fileMeta.
LEMMA ReadMetaTypes ==
  ASSUME ProtoInv, IInv', UNCHANGED serverVars, NEW c \in Clients, ReadMeta(c)
  PROVE  SystemTypes'
<1> DEFINE m == Head(CmdDown(c)).meta
           more == IF IsNew(c, m) THEN Append(client[c].diffFiles, m) ELSE client[c].diffFiles
           left == client[c].tCount - 1
           r == [client[c] EXCEPT !.tCount = left, !.diffFiles = more]
<1>1. /\ At(c, "metas") /\ ~At(c, "off") /\ CmdDown(c) # <<>> /\ ReadCmd(c)
      /\ UNCHANGED <<disk, uploads, finished, starts>>
      /\ client' = [client EXCEPT ![c] = Resume(r)]
  BY DEF ReadMeta, At
<1>2. /\ client[c] \in Online /\ client \in [Clients -> {Off} \cup Online] /\ RoleOK(c)
      /\ ListOK(c) /\ Head(CmdDown(c)) = Pending(client[c].cmd)[1] /\ Head(CmdDown(c)) \in Cell
  BY <1>1, NextCell DEF ProtoInv, SystemTypes
<1>3. client[c].tCount \in Nat /\ client[c].tCount > 0
  BY <1>1, <1>2 DEF Online, RoleOK
<1>4. left \in Nat
  BY <1>3
<1>5. m \in Meta
  <2>1. Head(CmdDown(c)).t = "meta"
    <3>1. \A j \in 1..client[c].tCount : Pending(client[c].cmd)[j].t = "meta"
      BY <1>1, <1>2 DEF ListOK, ListState, At
    <3>2. 1 \in 1..client[c].tCount
      BY <1>3
    <3>3. QED
      BY <1>2, <3>1, <3>2
  <2>2. QED
    BY <1>2, <2>1 DEF Cell
<1> HIDE DEF m, left
<1>6. more \in Seq(Meta)
  BY <1>2, <1>5 DEF Online
<1> HIDE DEF more
<1>7. r \in Online
  BY <1>2, <1>4, <1>6 DEF Online
<1> HIDE DEF r
<1>8. client' \in [Clients -> {Off} \cup Online]
  BY <1>1, <1>2, <1>7, ResumeIs
<1>9. QED
  BY <1>1, <1>8, ReadCmdTypes

\* A client opens a connection.
LEMMA ConnectTypes ==
  ASSUME ProtoInv, IInv', UNCHANGED serverVars, NEW k \in Conns, NEW h \in Cell, Connect(k, h)
  PROVE  conn' \in [Conns -> Connection]
<1>1. conn \in [Conns -> Connection] /\ conn' = [conn EXCEPT ![k] = Connected(Request(h))]
  BY DEF ProtoInv, SystemTypes, Connect
<1>2. Request(h) \in Seq(Cell)
  <2>1. [t |-> "part"] \in Cell
    BY DEF Cell
  <2>2. QED
    BY <2>1 DEF Request
<1>3. conn[k] \in Connection
  BY <1>1
<1>4. Connected(Request(h)) \in Connection
  BY <1>2, <1>3, ConnectionTypes
<1>5. QED
  BY <1>1, <1>4

\* Start keeps the types.
LEMMA StartTypes ==
  ASSUME ProtoInv, IInv', UNCHANGED serverVars, NEW c \in Clients, NEW u \in Users, Start(c, u)
  PROVE  SystemTypes'
<1>1. PICK k \in Conns :
        /\ Connect(k, LoginHeader(u))
        /\ client' = [client EXCEPT ![c] =
                        [pc |-> "login", user |-> u, cmd |-> k, data |-> 0,
                         localFiles |-> {}, diffFiles |-> <<>>, tCount |-> 0,
                         buf |-> <<>>, upload |-> 0]]
  BY DEF Start
<1>2. UNCHANGED <<disk, uploads, finished>> /\ starts' = starts + 1
  BY DEF Start
<1>3. LoginHeader(u) \in Cell
  BY DEF LoginHeader, Cell
<1>4. conn' \in [Conns -> Connection]
  BY <1>1, <1>3, ConnectTypes
<1>5. [pc |-> "login", user |-> u, cmd |-> k, data |-> 0, localFiles |-> {}, diffFiles |-> <<>>,
       tCount |-> 0, buf |-> <<>>, upload |-> 0] \in Online
  <2>1. <<>> \in Seq(Meta) /\ <<>> \in Seq(Cell)
    OBVIOUS
  <2>2. QED
    BY <2>1 DEF Online
<1>6. client' \in [Clients -> {Off} \cup Online]
  BY <1>1, <1>5 DEF ProtoInv, SystemTypes
<1>7. QED
  BY <1>2, <1>4, <1>6, ClientSideTypes DEF ProtoInv, SystemTypes

\* Fetch keeps the types.
LEMMA FetchTypes ==
  ASSUME ProtoInv, IInv', UNCHANGED serverVars, NEW c \in Clients, Fetch(c)
  PROVE  SystemTypes'
<1> DEFINE m == Head(client[c].diffFiles)
           u == client[c].user
<1>1. PICK k \in Conns : /\ Connect(k, GetHeader(u, m))
                         /\ client' = [client EXCEPT ![c].pc = "get", ![c].data = k]
  BY DEF Fetch
<1>2. At(c, "sync") /\ ~At(c, "off") /\ UNCHANGED <<disk, uploads, finished, starts>>
  BY DEF Fetch, At
<1>3. /\ client[c] \in Online /\ u \in Users /\ client[c].diffFiles # <<>>
      /\ client \in [Clients -> {Off} \cup Online]
  BY <1>2, ClientTypes DEF ProtoInv, RoleInv, RoleOK, SystemTypes
<1>4. m \in Meta
  <2>1. client[c].diffFiles \in Seq(Meta)
    BY <1>3 DEF Online
  <2>2. QED
    BY <1>3, <2>1
<1> HIDE DEF m, u
<1>5. GetHeader(u, m) \in Cell
  BY <1>3, <1>4 DEF GetHeader, Cell
<1>6. conn' \in [Conns -> Connection]
  BY <1>1, <1>5, ConnectTypes
<1>7. [client[c] EXCEPT !.pc = "get", !.data = k] \in Online
  BY <1>3 DEF Online
<1>8. client' \in [Clients -> {Off} \cup Online]
  BY <1>1, <1>3, <1>7
<1>9. QED
  BY <1>2, <1>6, <1>8, ClientSideTypes DEF ProtoInv, SystemTypes

\* Upload keeps the types.
LEMMA UploadTypes ==
  ASSUME ProtoInv, IInv', UNCHANGED serverVars, NEW c \in Clients, NEW n \in Names,
         NEW len \in Sizes, Upload(c, n, len)
  PROVE  SystemTypes'
<1> DEFINE v == Len(uploads) + 1
           m == [name |-> n, size |-> len]
           u == client[c].user
           b == Content(v, len)
           x == [user |-> u, name |-> n, size |-> len]
<1>1. PICK k \in Conns : /\ Connect(k, PutHeader(u, m))
                         /\ client' = [client EXCEPT ![c].pc = "put", ![c].data = k,
                                                     ![c].buf = b, ![c].upload = v]
  BY DEF Upload
<1>2. /\ ~At(c, "off") /\ uploads' = Append(uploads, x) /\ UNCHANGED <<finished, starts>>
      /\ disk' = [disk EXCEPT ![c][n] = b]
  BY DEF Upload, TakesCommands, At
<1>3. /\ client[c] \in Online /\ u \in Users /\ len \in Nat
      /\ client \in [Clients -> {Off} \cup Online]
      /\ uploads \in Seq([user : Users, name : Names, size : Nat])
      /\ disk \in [Clients -> [Names -> Seq(Cell)]]
      /\ finished \in SUBSET Nat /\ starts \in Nat
  BY <1>2, ClientTypes, ClientAssumption DEF ProtoInv, SystemTypes
<1>4. m \in Meta /\ x \in [user : Users, name : Names, size : Nat] /\ v \in Nat
  BY <1>3 DEF Meta
<1>5. b \in Seq(Cell)
  <2> HIDE DEF v
  <2>1. \A pos \in 1..len : Byte(v, pos) \in Cell
    BY <1>3, <1>4 DEF Byte, Cell
  <2>2. QED
    BY <1>3, <2>1 DEF Content
<1> HIDE DEF m, u, b, x, v
<1>6. PutHeader(u, m) \in Cell
  BY <1>3, <1>4 DEF PutHeader, Cell
<1>7. conn' \in [Conns -> Connection]
  BY <1>1, <1>6, ConnectTypes
<1>8. [client[c] EXCEPT !.pc = "put", !.data = k, !.buf = b, !.upload = v] \in Online
  BY <1>3, <1>4, <1>5 DEF Online
<1>9. client' \in [Clients -> {Off} \cup Online]
  BY <1>1, <1>3, <1>8
<1>10. uploads' \in Seq([user : Users, name : Names, size : Nat])
  BY <1>2, <1>3, <1>4
<1>11. disk' \in [Clients -> [Names -> Seq(Cell)]]
  <2>1. [disk[c] EXCEPT ![n] = b] \in [Names -> Seq(Cell)]
    BY <1>3, <1>5
  <2>2. QED
    BY <1>2, <1>3, <2>1
<1>12. finished' \in SUBSET Nat /\ starts' \in Nat
  BY <1>2, <1>3
<1>13. QED
  BY <1>7, <1>9, <1>10, <1>11, <1>12, ClientSideTypes

\* The first cells of a stream are a stream, as are those behind them.
LEMMA PartTypes ==
  ASSUME NEW s \in Seq(Cell), NEW n \in Int, n <= Len(s)
  PROVE  First(s, n) \in Seq(Cell) /\ (n > 0 => Without(s, n) \in Seq(Cell))
<1>1. CASE n > 0
  <2>1. n \in 0..Len(s)
    BY <1>1
  <2>2. QED
    BY <2>1, Moved DEF MovedOK
<1>2. CASE ~(n > 0)
  <2>1. First(s, n) = <<>>
    BY <1>2 DEF First
  <2>2. QED
    BY <1>2, <2>1
<1>3. QED
  BY <1>1, <1>2

\* What a client has of the file it fetches.
LEMMA DataTypes ==
  ASSUME ProtoInv, NEW c \in Clients, At(c, "get")
  PROVE  /\ Head(client[c].diffFiles) \in Meta /\ Tail(client[c].diffFiles) \in Seq(Meta)
         /\ client[c].data \in Conns /\ DataDown(c) \in Seq(Cell)
         /\ Received(c) \in Int /\ Received(c) <= Len(DataDown(c)) /\ Data(c) \in Seq(Cell)
<1>1. ~At(c, "off")
  BY DEF At
<1>2. client[c] \in Online /\ RoleOK(c) /\ client[c].data \in Conns
  BY <1>1, ClientTypes DEF ProtoInv, RoleInv, RoleOK
<1>3. /\ client[c].diffFiles \in Seq(Meta) /\ client[c].diffFiles # <<>>
      /\ client[c].buf \in Seq(Cell)
  BY <1>1, <1>2 DEF Online, RoleOK
<1>4. Head(client[c].diffFiles) \in Meta /\ Tail(client[c].diffFiles) \in Seq(Meta)
  BY <1>3
<1>5. DataDown(c) \in Seq(Cell)
  BY <1>2 DEF DataDown, ProtoInv, SystemTypes, Connection
<1> DEFINE missing == Head(client[c].diffFiles).size - Len(client[c].buf)
           there == Len(DataDown(c))
<1>6. missing \in Int /\ there \in Nat /\ Received(c) = Smaller(missing, there)
  <2>1. Head(client[c].diffFiles).size \in Nat
    BY <1>4 DEF Meta
  <2>2. QED
    BY <1>3, <1>5, <2>1 DEF Received
<1> HIDE DEF missing, there
<1>7. Received(c) \in Int /\ Received(c) <= there
  BY <1>6 DEF Smaller
<1>8. First(DataDown(c), Received(c)) \in Seq(Cell)
  BY <1>5, <1>7, PartTypes DEF there
<1>9. Data(c) \in Seq(Cell)
  BY <1>3, <1>8, ConcatProperties DEF Data
<1>10. QED
  BY <1>2, <1>4, <1>5, <1>7, <1>9 DEF there

\* A client reads from the connection of its download, or writes to that of its
\* upload.
LEMMA ReadDataTypes ==
  ASSUME ProtoInv, IInv', UNCHANGED serverVars, NEW c \in Clients, ReadData(c)
  PROVE  SystemTypes'
<1> DEFINE n == Received(c)
           b == Data(c)
<1>1. PICK k : k = client[c].data
  OBVIOUS
<1>2. /\ At(c, "get") /\ ~At(c, "off") /\ n > 0 /\ UNCHANGED <<disk, uploads, finished, starts>>
      /\ conn' = [conn EXCEPT ![client[c].data].down = Without(@, n)]
      /\ client' = [client EXCEPT ![c].buf = b]
  BY DEF ReadData, At
<1>3. /\ client[c] \in Online /\ k \in Conns /\ conn[k].down \in Seq(Cell) /\ b \in Seq(Cell)
      /\ n \in Int /\ n <= Len(conn[k].down) /\ conn \in [Conns -> Connection]
      /\ client \in [Clients -> {Off} \cup Online]
  BY <1>1, <1>2, DataTypes, ClientTypes DEF DataDown, ProtoInv, SystemTypes
<1> HIDE DEF n, b
<1>4. Without(conn[k].down, n) \in Seq(Cell)
  BY <1>2, <1>3, PartTypes
<1>5. conn' \in [Conns -> Connection]
  <2>1. conn' = [conn EXCEPT ![k] = [conn[k] EXCEPT !.down = Without(conn[k].down, n)]]
    BY <1>1, <1>2, <1>3
  <2>2. QED
    BY <1>3, <1>4, <2>1, ConnectionTypes
<1>6. [client[c] EXCEPT !.buf = b] \in Online
  BY <1>3 DEF Online
<1>7. client' \in [Clients -> {Off} \cup Online]
  BY <1>2, <1>3, <1>6
<1>8. QED
  BY <1>2, <1>5, <1>7, ClientSideTypes DEF ProtoInv, SystemTypes

\* WriteData keeps the types.
LEMMA WriteDataTypes ==
  ASSUME ProtoInv, IInv', UNCHANGED serverVars, NEW c \in Clients, WriteData(c)
  PROVE  SystemTypes'
<1>1. PICK k : k = client[c].data
  OBVIOUS
<1>2. PICK n \in 1..Len(client[c].buf) :
        /\ conn' = [conn EXCEPT ![client[c].data].up = @ \o First(client[c].buf, n)]
        /\ client' = [client EXCEPT ![c].buf = Without(@, n)]
  BY DEF WriteData
<1>3. /\ At(c, "put") /\ ~At(c, "off") /\ UNCHANGED <<disk, uploads, finished, starts>>
  BY DEF WriteData, At
<1>4. /\ client[c] \in Online /\ k \in Conns /\ conn \in [Conns -> Connection]
      /\ client \in [Clients -> {Off} \cup Online]
  BY <1>1, <1>3, ClientTypes DEF ProtoInv, SystemTypes, RoleInv, RoleOK
<1>5. client[c].buf \in Seq(Cell) /\ conn[k].up \in Seq(Cell)
  BY <1>4 DEF Online, Connection
<1> DEFINE f == First(client[c].buf, n)
           w == Without(client[c].buf, n)
<1>6. f \in Seq(Cell) /\ w \in Seq(Cell)
  <2>1. n \in Int /\ n <= Len(client[c].buf) /\ n > 0
    BY <1>5
  <2>2. QED
    BY <1>5, <2>1, PartTypes
<1>7. conn[k].up \o f \in Seq(Cell)
  <2> HIDE DEF f
  <2>1. QED
    BY <1>5, <1>6, ConcatProperties
<1>8. /\ conn' = [conn EXCEPT ![k] = [conn[k] EXCEPT !.up = conn[k].up \o f]]
      /\ client' = [client EXCEPT ![c] = [client[c] EXCEPT !.buf = w]]
  BY <1>1, <1>2, <1>4
<1> HIDE DEF f, w
<1>9. conn' \in [Conns -> Connection]
  BY <1>4, <1>7, <1>8, ConnectionTypes
<1>10. [client[c] EXCEPT !.buf = w] \in Online
  BY <1>4, <1>6 DEF Online
<1>11. client' \in [Clients -> {Off} \cup Online]
  BY <1>4, <1>8, <1>10
<1>12. QED
  BY <1>3, <1>9, <1>11, ClientSideTypes DEF ProtoInv, SystemTypes

\* A client closes a connection.
LEMMA CloseTypes ==
  ASSUME ProtoInv, NEW k \in Conns, conn' = [conn EXCEPT ![k] = ClientClosed(@)]
  PROVE  conn' \in [Conns -> Connection]
<1>1. conn \in [Conns -> Connection] /\ <<>> \in Seq(Cell)
  BY DEF ProtoInv, SystemTypes
<1>2. ClientClosed(conn[k]) \in Connection
  BY <1>1, ConnectionTypes
<1>3. QED
  BY <1>1, <1>2

\* FinishGet keeps the types: the file is cells.
LEMMA FinishGetTypes ==
  ASSUME ProtoInv, IInv', UNCHANGED serverVars, NEW c \in Clients, FinishGet(c)
  PROVE  SystemTypes'
<1> DEFINE m == Head(client[c].diffFiles)
           rest == Tail(client[c].diffFiles)
           b == Data(c)
           more == client[c].localFiles \cup {m.name}
           r == [client[c] EXCEPT !.localFiles = more, !.diffFiles = rest, !.buf = <<>>, !.data = 0]
<1>1. /\ At(c, "get") /\ ~At(c, "off") /\ UNCHANGED <<uploads, finished, starts>>
      /\ conn' = [conn EXCEPT ![client[c].data] = ClientClosed(@)]
      /\ disk' = [disk EXCEPT ![c][m.name] = b]
      /\ client' = [client EXCEPT ![c] = Resume(r)]
  BY DEF FinishGet, At
<1>2. /\ client[c] \in Online /\ client[c].data \in Conns /\ b \in Seq(Cell)
      /\ m \in Meta /\ rest \in Seq(Meta)
      /\ client \in [Clients -> {Off} \cup Online]
      /\ disk \in [Clients -> [Names -> Seq(Cell)]]
  BY <1>1, DataTypes, ClientTypes DEF ProtoInv, SystemTypes
<1> HIDE DEF m, rest, b
<1>3. m.name \in Names /\ more \in SUBSET Names
  BY <1>2 DEF Meta, Online
<1> HIDE DEF more
<1>4. r \in Online
  <2>1. <<>> \in Seq(Cell)
    OBVIOUS
  <2>2. QED
    BY <1>2, <1>3, <2>1 DEF Online
<1> HIDE DEF r
<1>5. client' \in [Clients -> {Off} \cup Online]
  BY <1>1, <1>2, <1>4, ResumeIs
<1>6. disk' \in [Clients -> [Names -> Seq(Cell)]]
  <2>1. [disk[c] EXCEPT ![m.name] = b] \in [Names -> Seq(Cell)]
    BY <1>2
  <2>2. QED
    BY <1>1, <1>2, <2>1
<1>7. conn' \in [Conns -> Connection]
  BY <1>1, <1>2, CloseTypes
<1>8. QED
  BY <1>1, <1>5, <1>6, <1>7, ClientSideTypes DEF ProtoInv, SystemTypes

\* FinishPut keeps the types: the upload is one of those begun.
LEMMA FinishPutTypes ==
  ASSUME ProtoInv, IInv', UNCHANGED serverVars, NEW c \in Clients, FinishPut(c)
  PROVE  SystemTypes'
<1> DEFINE v == client[c].upload
           more == client[c].localFiles \cup {uploads[v].name}
           r == [client[c] EXCEPT !.pc = "idle", !.data = 0, !.upload = 0, !.localFiles = more]
<1>1. /\ At(c, "put") /\ ~At(c, "off") /\ UNCHANGED <<disk, uploads, starts>>
      /\ conn' = [conn EXCEPT ![client[c].data] = ClientClosed(@)]
      /\ finished' = finished \cup {v}
      /\ client' = [client EXCEPT ![c].pc = "idle", ![c].data = 0, ![c].upload = 0,
                                  ![c].localFiles = @ \cup {uploads[v].name}]
  BY DEF FinishPut, At
<1>2. /\ client[c] \in Online /\ client[c].data \in Conns /\ v \in 1..Len(uploads)
      /\ client \in [Clients -> {Off} \cup Online]
      /\ uploads \in Seq([user : Users, name : Names, size : Nat])
      /\ finished \in SUBSET Nat
  BY <1>1, ClientTypes DEF ProtoInv, SystemTypes, RoleInv, RoleOK
<1>3. client' = [client EXCEPT ![c] = r]
  BY <1>1, <1>2
<1> HIDE DEF v
<1>4. v \in Nat /\ uploads[v].name \in Names
  <2>1. \A w \in 1..Len(uploads) : w \in Nat /\ uploads[w].name \in Names
    <3> DEFINE Record == [user : Users, name : Names, size : Nat]
    <3>1. uploads \in Seq(Record)
      BY <1>2
    <3>2. \A x \in Record : x.name \in Names
      OBVIOUS
    <3> HIDE DEF Record
    <3>3. \A w \in 1..Len(uploads) : w \in Nat /\ uploads[w] \in Record
      BY <3>1
    <3>4. QED
      BY <3>2, <3>3
  <2>2. QED
    BY <1>2, <2>1
<1>5. more \in SUBSET Names
  BY <1>2, <1>4 DEF Online
<1> HIDE DEF more
<1>6. r \in Online
  BY <1>2, <1>5 DEF Online
<1> HIDE DEF r
<1>7. client' \in [Clients -> {Off} \cup Online]
  BY <1>2, <1>3, <1>6
<1>8. conn' \in [Conns -> Connection]
  BY <1>1, <1>2, CloseTypes
<1>9. finished' \in SUBSET Nat
  BY <1>1, <1>2, <1>4
<1>10. QED
  BY <1>1, <1>7, <1>8, <1>9, ClientSideTypes DEF ProtoInv, SystemTypes

\* Stop keeps the types.
LEMMA StopTypes ==
  ASSUME ProtoInv, IInv', UNCHANGED serverVars, NEW c \in Clients, Stop(c)
  PROVE  SystemTypes'
<1>1. /\ conn' = [k \in Conns |-> IF k \in {client[c].cmd, client[c].data}
                                     THEN ClientClosed(conn[k]) ELSE conn[k]]
      /\ client' = [client EXCEPT ![c] = Off]
      /\ UNCHANGED <<disk, uploads, finished, starts>>
  BY DEF Stop
<1>2. conn \in [Conns -> Connection] /\ client \in [Clients -> {Off} \cup Online]
  BY DEF ProtoInv, SystemTypes
<1>3. \A k \in Conns : ClientClosed(conn[k]) \in Connection
  <2>1. <<>> \in Seq(Cell)
    OBVIOUS
  <2>2. QED
    BY <1>2, <2>1, ConnectionTypes
<1>4. conn' \in [Conns -> Connection]
  BY <1>1, <1>2, <1>3
<1>5. client' \in [Clients -> {Off} \cup Online]
  BY <1>1, <1>2
<1>6. QED
  BY <1>1, <1>4, <1>5, ClientSideTypes DEF ProtoInv, SystemTypes

\* Every step of a client keeps the types.
LEMMA ClientStepTypes ==
  ASSUME ProtoInv, IInv', UNCHANGED serverVars, NEW c \in Clients, Client(c)
  PROVE  SystemTypes'
BY ReadListTypes, ReadCountTypes, ReadMetaTypes, FetchTypes, ReadDataTypes, FinishGetTypes,
   WriteDataTypes, FinishPutTypes, StartTypes, UploadTypes, StopTypes
   DEF Client, Program, User

-----------------------------------------------------------------------------
(* The theorems                                                            *)

\* In the beginning there is no connection and no client.
LEMMA InitProto == Init => ProtoInv
<1> SUFFICES ASSUME Init PROVE ProtoInv
  OBVIOUS
<1>1. IInv
  BY InitInv
<1>2. /\ conn = [k \in Conns |-> NoConn] /\ backlog = <<>>
      /\ client = [c \in Clients |-> Off] /\ disk = [c \in Clients |-> [n \in Names |-> <<>>]]
      /\ uploads = <<>> /\ finished = {} /\ starts = 0
      /\ size = 1 /\ sock = [f \in Fds |-> 0] /\ allRset = {Listen} /\ allWset = {}
      /\ round = [half |-> "select"] /\ known = {} /\ files = [u \in Users |-> <<>>]
      /\ stored = [u \in Users |-> [n \in Names |-> <<>>]]
  BY DEF Init, NetInit, ServerInit, ClientInit
<1>3. \A k \in Conns : /\ conn[k].server = "none" /\ ~conn[k].client
                       /\ conn[k].up = <<>> /\ Kind(k) = "gone"
  BY <1>2 DEF NoConn, Kind
<1>4. \A c \in Clients : At(c, "off") /\ ~At(c, "put")
  BY <1>2 DEF At, Off
<1>5. SnapInv
  BY <1>2 DEF SnapInv
<1>6. RoleInv
  BY <1>3, <1>4 DEF RoleInv, RoleOK
<1>7. StreamInv
  BY <1>3 DEF StreamInv, StreamOK, AllBytes
<1>8. CmdInv /\ PutInv /\ ListInv
  BY <1>4 DEF CmdInv, PutInv, ListInv
<1>9. SystemTypes
  <2>1. conn \in [Conns -> Connection]
    <3>1. <<>> \in Seq(Cell)
      OBVIOUS
    <3>2. NoConn \in Connection
      BY <3>1 DEF NoConn, Connection
    <3>3. QED
      BY <1>2, <3>2
  <2>2. entry \in [Entries -> TableEntry]
    <3> DEFINE first == [NoEntry EXCEPT !.used = TRUE, !.fd = Listen, !.type = "LISTEN"]
    <3>1. first \in TableEntry
      BY NoEntryTyped DEF TableEntry
    <3>2. entry = [i \in Entries |-> IF i = 0 THEN first ELSE NoEntry]
      BY DEF Init, ServerInit, Entries
    <3> HIDE DEF first
    <3>3. QED
      BY <3>1, <3>2, NoEntryTyped
  <2>3. size \in 1..MAX_FD /\ sock \in [Fds -> Conns \cup {0}] /\ backlog \in Seq(Conns)
    BY <1>1 DEF IInv, NetInv, TableInv
  <2>4. allRset \in SUBSET (Fds \cup {Listen}) /\ allWset \in SUBSET Fds /\ round \in Round
    BY <1>2 DEF Round
  <2>5. /\ known \in SUBSET Users /\ files \in [Users -> Seq(Meta)]
        /\ stored \in [Users -> [Names -> Seq(Seq(Cell))]]
    BY <1>2
  <2>6. /\ client \in [Clients -> {Off} \cup Online]
        /\ disk \in [Clients -> [Names -> Seq(Cell)]]
        /\ uploads \in Seq([user : Users, name : Names, size : Nat])
        /\ finished \in SUBSET Nat /\ starts \in Nat
    BY <1>2
  <2>7. QED
    BY <2>1, <2>2, <2>3, <2>4, <2>5, <2>6 DEF SystemTypes
<1>10. QED
  BY <1>1, <1>5, <1>6, <1>7, <1>8, <1>9 DEF ProtoInv

\* A step that changes nothing keeps everything.
LEMMA StutterProto ==
  ASSUME ProtoInv, UNCHANGED <<netVars, serverVars, clientVars>>, IInv' PROVE ProtoInv'
<1>1. /\ UNCHANGED <<conn, backlog, entry, size, sock, allRset, allWset, round, known, files, stored>>
      /\ UNCHANGED <<client, disk, uploads, finished, starts>>
  BY DEF netVars, serverVars, clientVars
<1>2. IInv'
  OBVIOUS
<1>3. \A k \in Conns : Ent(k)' = Ent(k)
  BY <1>1, <1>2, ClientsView DEF ProtoInv, serverVars
<1>4. SnapInv'
  BY <1>1 DEF ProtoInv, SnapInv, Live, UsedEntries, Reading, CanRead
<1>5. SystemTypes'
  BY <1>1 DEF ProtoInv, SystemTypes
<1>6. RoleInv'
  BY <1>1 DEF ProtoInv, RoleInv, RoleOK, At
<1>7. \A k \in Conns : Kind(k)' = Kind(k) /\ Stream(k)' = Stream(k) /\ Pending(k)' = Pending(k)
  BY <1>1, <1>3 DEF Kind, Stream, Pending
<1>8. StreamInv'
  <2>1. \A k \in Conns : Kept(k)
    BY <1>1, <1>3, SameKept DEF ProtoInv
  <2>2. QED
    BY <1>1, <2>1, KeptStream DEF ProtoInv, StreamInv
<1>9. \A c \in Clients : ~At(c, "off") => client[c].cmd \in Conns
  BY ClientTypes DEF ProtoInv
<1>10. CmdInv' /\ PutInv'
  <2>1. \A k \in Conns : Kept(k)
    BY <1>1, <1>3, SameKept DEF ProtoInv
  <2>2. \A c \in Clients : At(c, "put") => client[c].data \in Conns
    <3>1. \A c \in Clients : At(c, "put") => ~At(c, "off")
      BY DEF At
    <3>2. QED
      BY <3>1, ClientTypes DEF ProtoInv, RoleInv, RoleOK
  <2>3. QED
    BY <1>1, <1>9, <2>1, <2>2, KeptRoles DEF ProtoInv
<1>11. ListInv'
  <2>1. ASSUME NEW c \in Clients, ~At(c, "off") PROVE ListOK(c)'
    <3>1. ListOK(c)
      BY <2>1 DEF ProtoInv, ListInv
    <3>2. QED
      BY <1>1, <1>7, <1>9, <2>1, <3>1 DEF ListOK
  <2>2. QED
    BY <1>1, <2>1 DEF ListInv, At
<1>12. QED
  BY <1>2, <1>4, <1>5, <1>6, <1>8, <1>10, <1>11 DEF ProtoInv

\* Every step keeps the invariant.
LEMMA NextProto == ASSUME ProtoInv, [Next]_vars PROVE ProtoInv'
<1>1. IInv'
  BY NextInv DEF ProtoInv
<1>2. CASE Server /\ UNCHANGED clientVars
  <2>1. SnapInv'
    BY <1>1, <1>2, SnapServer DEF ProtoInv
  <2>2. RoleInv' /\ StreamInv' /\ CmdInv' /\ PutInv' /\ ListInv'
    BY <1>1, <1>2, ServerProto
  <2>3. SystemTypes'
    BY <1>1, <1>2, ServerStepTypes
  <2>4. QED
    BY <1>1, <2>1, <2>2, <2>3 DEF ProtoInv
<1>3. CASE \E c \in Clients : Client(c) /\ UNCHANGED serverVars
  <2>1. PICK c \in Clients : Client(c) /\ UNCHANGED serverVars
    BY <1>3
  <2>2. SnapInv' /\ RoleInv' /\ StreamInv' /\ CmdInv' /\ PutInv' /\ ListInv'
    BY <1>1, <2>1, ClientStepProto
  <2>3. SystemTypes'
    BY <1>1, <2>1, ClientStepTypes
  <2>4. QED
    BY <1>1, <2>2, <2>3 DEF ProtoInv
<1>4. CASE UNCHANGED <<netVars, serverVars, clientVars>>
  BY <1>1, <1>4, StutterProto
<1>5. QED
  BY <1>2, <1>3, <1>4, StepKinds

\* The connections are always in order.
LEMMA ProtoAlways == Spec => []ProtoInv
<1>1. Init => ProtoInv
  BY InitProto
<1>2. ProtoInv /\ [Next]_vars => ProtoInv'
  BY NextProto
<1>3. QED
  BY <1>1, <1>2, PTL DEF Spec

\* Every variable of the file synchronisation has the type its declaration gives
\* it, for any number of connections, clients, users and uploads.
THEOREM DropTypes == Spec => []TypeOK
<1>1. ProtoInv /\ ended \in BOOLEAN => TypeOK
  BY DEF ProtoInv, TypeOK
<1>2. Init => ended \in BOOLEAN
  BY DEF Init, ServerInit
<1>3. ended \in BOOLEAN /\ [Next]_vars => (ended \in BOOLEAN)'
  BY DEF Next, ServerRuns, BrokenPipe, vars
<1>4. QED
  BY <1>1, <1>2, <1>3, ProtoAlways, PTL DEF Spec

\* What the server takes a connection for.
LEMMA KindIs ==
  ASSUME IInv, SystemTypes, NEW k \in Conns
  PROVE  Kind(k) \in {"NONE", "CMD", "GET", "PUT", "gone"}
<1>1. CASE conn[k].server = "open"
  <2>1. PICK i \in Live : Ent(k) = entry[i] /\ entry[i].type # "LISTEN"
    BY <1>1, Links DEF LinksOK
  <2>2. Ent(k).type \in {"NONE", "LISTEN", "CMD", "GET", "PUT"} /\ Kind(k) = Ent(k).type
    BY <1>1, Types DEF TableEntry
  <2>3. QED
    BY <2>1, <2>2
<1>2. CASE conn[k].server # "open"
  <2>1. Ent(k).type = "NONE"
    BY <1>2 DEF Ent, NoEntry
  <2>2. QED
    BY <2>1 DEF Kind
<1>3. QED
  BY <1>1, <1>2

\* getUserEntry is never asked for a user who never logged in: a request for a
\* download or an upload, wherever it is on its way, names a user the server
\* knows, although the login travels on another connection.
THEOREM OnlyKnownUsersAsk == Spec => []RequestsAreKnown
<1>1. ProtoInv => RequestsAreKnown
  <2> SUFFICES ASSUME ProtoInv, NEW k \in Conns, NEW j \in 1..Len(conn[k].up),
                      conn[k].up[j].t \in {"GET", "PUT"}
               PROVE  conn[k].up[j].user \in known
    BY DEF RequestsAreKnown
  <2> DEFINE a == Ent(k).rbuf
             u == conn[k].up
             s == Stream(k)
  <2>1. /\ a \in Seq(Cell) /\ u \in Seq(Cell) /\ s = a \o u /\ StreamOK(k)
        /\ Kind(k) \in {"NONE", "CMD", "GET", "PUT", "gone"}
    BY Types, KindIs DEF ProtoInv, Stream, StreamInv
  <2>2. u[j].t \in {"GET", "PUT"} /\ j \in 1..Len(u)
    OBVIOUS
  <2> DEFINE p == Len(a) + j
  <2> HIDE DEF a, u, s
  <2>3. Len(a) \in Nat /\ Len(u) \in Nat /\ Len(s) = Len(a) + Len(u) /\ s[p] = u[j]
    BY <2>1, <2>2, Joined
  <2>4. Kind(k) # "gone"
    BY <2>1, <2>2 DEF StreamOK, AllBytes, u
  <2>5. p \in 1..Len(s) /\ Len(s) # 0
    BY <2>2, <2>3
  <2> HIDE DEF p
  <2>6. Kind(k) \notin {"CMD", "GET"}
    <3>1. Len(<<>>) = 0
      OBVIOUS
    <3>2. QED
      BY <2>1, <2>5, <3>1 DEF StreamOK, s
  <2>7. Kind(k) # "PUT"
    BY <2>1, <2>2, <2>3, <2>5 DEF StreamOK, AllBytes, s
  <2>8. IsRequest(s)
    BY <2>1, <2>4, <2>6, <2>7 DEF StreamOK, s
  <2>9. p = 2
    <3>1. p # 1
      BY <2>2, <2>3, <2>8 DEF IsRequest
    <3>2. p \notin 3..Len(s)
      BY <2>2, <2>3, <2>8 DEF IsRequest
    <3>3. Len(s) \in Nat
      BY <2>3
    <3>4. QED
      BY <2>5, <3>1, <3>2, <3>3
  <2>10. u[j].user \in known
    BY <2>2, <2>3, <2>8, <2>9 DEF IsRequest
  <2>11. QED
    BY <2>10 DEF u
<1>2. QED
  BY <1>1, ProtoAlways, PTL

\* What a client has not read is what its connection and its entry hold.
LEMMA UnreadIs ==
  ASSUME ProtoInv, NEW c \in Clients, ~At(c, "off")
  PROVE  Unread(c) = Pending(client[c].cmd)
<1>1. PICK k : k = client[c].cmd
  OBVIOUS
<1>2. k \in Conns /\ LinksOK /\ IInv
  BY <1>1, ClientTypes, Links DEF ProtoInv
<1>3. \A i : i \in EntryOf(k) <=> i \in Live /\ sock[entry[i].fd] = k
  <2>1. \A i \in Live : entry[i].fd # Listen /\ i \in UsedEntries
    BY <1>2 DEF LinksOK, Fds, Listen
  <2>2. entry[0].fd = Listen
    BY <1>2 DEF IInv, TableInv
  <2>3. QED
    BY <2>1, <2>2 DEF EntryOf, Live
<1>4. CASE conn[k].server = "open"
  <2>1. PICK i \in Live : sock[entry[i].fd] = k /\ Ent(k) = entry[i]
    BY <1>2, <1>4 DEF LinksOK
  <2>2. EntryOf(k) = {i}
    BY <1>2, <1>3, <2>1 DEF LinksOK
  <2>3. (CHOOSE j \in EntryOf(k) : TRUE) = i /\ EntryOf(k) # {}
    BY <2>2
  <2>4. QED
    BY <1>1, <2>1, <2>3 DEF Unread, Pending
<1>5. CASE conn[k].server # "open"
  <2>1. EntryOf(k) = {}
    BY <1>2, <1>3, <1>5 DEF LinksOK
  <2>2. Ent(k).wbuf = <<>>
    BY <1>5 DEF Ent, NoEntry
  <2>3. QED
    BY <1>1, <2>1, <2>2 DEF Unread, Pending
<1>6. QED
  BY <1>4, <1>5

\* However the server's partial writes and the pushes of new lists fall together,
\* a client reads whole lists one after the other, each the beginning of what its
\* user's list is now, and the list it is reading ends where its count says.
THEOREM OnlyWholeLists == Spec => []ListsAreWhole
<1>1. ProtoInv => ListsAreWhole
  <2> SUFFICES ASSUME ProtoInv PROVE ListsAreWhole
    OBVIOUS
  <2>1. ASSUME NEW c \in Clients, ~At(c, "off")
        PROVE  ListState(client[c].pc, client[c].tCount, Unread(c), files[client[c].user])
    BY <2>1, UnreadIs DEF ProtoInv, ListInv, ListOK
  <2>2. QED
    BY <2>1 DEF ListsAreWhole, ListState, At
<1>2. QED
  BY <1>1, ProtoAlways, PTL
=============================================================================
