--------------------------- MODULE ProgramsProof ----------------------------
(***************************************************************************)
(* The small programs, for every value of their constants: the invariants  *)
(* that the run of Programs checks, each from the inductive invariant of   *)
(* the program that it is about.                                           *)
(***************************************************************************)
EXTENDS Programs, SequenceTheorems, WellFoundedInduction, TLAPS

-----------------------------------------------------------------------------
(* Which program runs                                                      *)

\* A behaviour is one of the program that runs from the beginning.
LEMMA ProgramInit ==
  ASSUME MCInit
  PROVE  /\ Runs("final_2014F/P2") => Ping!Init
         /\ Runs("lines") => Lined!Init
         /\ Runs("hw1") => Chat!Init
BY DEF MCInit, ChatInit, OfflineInit, ExamInit, CountInit, SumInit, PingInit, LineInit, Runs

\* And every step is one of that program.
LEMMA ProgramNext ==
  ASSUME MCNext
  PROVE  /\ \A p : Runs(p)' => Runs(p)
         /\ Runs("final_2014F/P2") => Ping!Next
         /\ Runs("lines") => Lined!Next
         /\ Runs("hw1") => Chat!Next
BY DEF MCNext, ChatNext, OfflineNext, ExamNext, CountNext, SumNext, PingNext, LineNext, Runs


-----------------------------------------------------------------------------
(* Induction and folds                                                     *)

\* A set of numbers has a least one.
LEMMA Least ==
  ASSUME NEW S \in SUBSET Nat, S # {}
  PROVE  \E x \in S : \A y \in S : x <= y
<1>1. PICK R : R = OpToRel(<, Nat)
  OBVIOUS
<1>2. IsWellFoundedOn(R, Nat)
  BY <1>1, NatLessThanWellFounded
<1>3. PICK x \in S : \A y \in S : ~ (<<y, x>> \in R)
  BY <1>2, WFMin
<1>4. \A y \in Nat : <<y, x>> \in R <=> y < x
  BY <1>1 DEF OpToRel
<1>5. \A y \in S : ~(y < x)
  BY <1>3, <1>4
<1>6. QED
  BY <1>5

\* Induction, for sets of numbers.
LEMMA SetInduction ==
  ASSUME NEW S \in SUBSET Nat, 0 \in S, \A k \in S : k + 1 \in S
  PROVE  S = Nat
<1>1. SUFFICES ASSUME Nat \ S # {} PROVE FALSE
  OBVIOUS
<1>2. PICK x \in Nat \ S : \A y \in Nat \ S : x <= y
  BY <1>1, Least
<1>3. x # 0 /\ x - 1 \in Nat /\ x - 1 \in S
  BY <1>2
<1>4. QED
  BY <1>2, <1>3

\* A set of the numbers up to m has a greatest one, and no second one.
LEMMA Greatest ==
  \A m \in Nat : \A s \in SUBSET (1..m) : s # {} => \E x \in s : \A y \in s : y <= x
<1> SUFFICES ASSUME NEW m \in Nat, NEW s \in SUBSET (1..m), s # {}
             PROVE  \E x \in s : \A y \in s : y <= x
  OBVIOUS
<1> DEFINE U == {m - k : k \in s}
<1>1. \A j \in s : j \in Nat /\ j <= m
  OBVIOUS
<1>2. U \in SUBSET Nat
  BY <1>1
<1>3. U # {}
  OBVIOUS
<1>4. PICK x \in U : \A y \in U : x <= y
  <2> HIDE DEF U
  <2>1. QED
    BY <1>2, <1>3, Least
<1>5. PICK k \in s : x = m - k
  BY <1>4
<1>6. ASSUME NEW j \in s PROVE j <= k
  <2>1. m - j \in U
    OBVIOUS
  <2>2. x <= m - j
    BY <1>4, <2>1
  <2>3. QED
    BY <1>1, <1>5, <2>2
<1>7. QED
  BY <1>6

\* The steps of a fold over m elements with the states X: what the k-th element
\* makes of a state.
FoldSteps(m, X) == [(1..m) \X X -> X]

\* The function behind a fold: it goes through the sets of the numbers up to m and
\* takes the greatest away each time.
Folds(g, m, base, h) ==
  /\ g[{}] = base
  /\ \A s \in SUBSET (1..m) : \A k \in s :
       (\A j \in s : j <= k) => g[s] = h[<<k, g[s \ {k}]>>]

\* As far as it stays among the states X, it takes one element after the other.
Chains(it, m, X, base, h) ==
  /\ it[{}] = base
  /\ \A k \in 1..m : it[1..(k - 1)] \in X => it[1..k] = h[<<k, it[1..(k - 1)]>>]

\* The states that a fold goes through.
Traces(f, m, base, h) == f[0] = base /\ \A k \in 1..m : f[k] = h[<<k, f[k - 1]>>]

\* The function behind a fold exists.
LEMMA FoldExists ==
  \A m \in Nat : \A X : \A base \in X : \A h \in FoldSteps(m, X) :
    \E g \in [SUBSET (1..m) -> X] : Folds(g, m, base, h)
<1> SUFFICES ASSUME NEW m \in Nat, NEW X, NEW base \in X, NEW h \in FoldSteps(m, X)
             PROVE  \E g \in [SUBSET (1..m) -> X] : Folds(g, m, base, h)
  BY Zenon
<1>0. h \in [(1..m) \X X -> X]
  BY DEF FoldSteps
<1> DEFINE Good(g, z) == /\ g \in [SUBSET (1..z) -> X]
                         /\ g[{}] = base
                         /\ \A s \in SUBSET (1..z) : \A k \in s :
                              (\A j \in s : j <= k) => g[s] = h[<<k, g[s \ {k}]>>]
           K == {z \in Nat : z <= m => \E g : Good(g, z)}
<1>1. 0 \in K
  <2> DEFINE g0 == [s \in SUBSET (1..0) |-> base]
  <2>1. \A s \in SUBSET (1..0) : s = {}
    OBVIOUS
  <2>2. Good(g0, 0)
    BY <2>1
  <2>3. QED
    BY <2>2
<1>2. ASSUME NEW z \in K PROVE z + 1 \in K
  <2> HIDE DEF Good
  <2>1. SUFFICES ASSUME z + 1 <= m PROVE \E g : Good(g, z + 1)
    OBVIOUS
  <2>2. z \in Nat /\ z <= m
    BY <2>1
  <2>3. PICK g : Good(g, z)
    BY <2>2
  <2>4. /\ g \in [SUBSET (1..z) -> X] /\ g[{}] = base
        /\ \A s \in SUBSET (1..z) : \A k \in s :
             (\A j \in s : j <= k) => g[s] = h[<<k, g[s \ {k}]>>]
    BY <2>3 DEF Good
  <2> DEFINE gg == [s \in SUBSET (1..(z + 1)) |->
                      IF z + 1 \in s THEN h[<<z + 1, g[s \ {z + 1}]>>] ELSE g[s]]
  <2>5. \A s \in SUBSET (1..(z + 1)) : z + 1 \notin s => s \in SUBSET (1..z)
    BY <2>2
  <2>6. \A s \in SUBSET (1..(z + 1)) : s \ {z + 1} \in SUBSET (1..z)
    BY <2>2
  <2>7. z + 1 \in 1..m
    BY <2>1, <2>2
  <2>8. gg \in [SUBSET (1..(z + 1)) -> X]
    BY <1>0, <2>4, <2>5, <2>6, <2>7
  <2>9. gg[{}] = base
    BY <2>4
  <2>10. ASSUME NEW s \in SUBSET (1..(z + 1)), NEW k \in s, \A j \in s : j <= k
         PROVE  gg[s] = h[<<k, gg[s \ {k}]>>]
    <3>1. k \in Nat /\ k <= z + 1 /\ s \ {k} \in SUBSET (1..(z + 1)) /\ z + 1 \notin s \ {k}
      BY <2>2, <2>10
    <3>2. gg[s \ {k}] = g[s \ {k}]
      BY <3>1
    <3>3. CASE z + 1 \in s
      <4>1. k = z + 1
        BY <2>2, <2>10, <3>1, <3>3
      <4>2. gg[s] = h[<<z + 1, g[s \ {z + 1}]>>]
        BY <3>3
      <4> HIDE DEF gg
      <4>3. QED
        BY <3>2, <4>1, <4>2
    <3>4. CASE z + 1 \notin s
      <4>1. gg[s] = g[s] /\ s \in SUBSET (1..z)
        BY <2>5, <3>4
      <4> HIDE DEF gg
      <4>2. QED
        BY <2>4, <2>10, <3>2, <4>1
    <3>5. QED
      BY <3>3, <3>4
  <2>11. Good(gg, z + 1)
    <3> HIDE DEF gg
    <3>1. QED
      BY <2>8, <2>9, <2>10 DEF Good
  <2>12. QED
    BY <2>11
<1>3. m \in K
  <2>1. K \in SUBSET Nat
    OBVIOUS
  <2> HIDE DEF K
  <2>2. K = Nat
    BY <1>1, <1>2, <2>1, SetInduction
  <2>3. QED
    BY <2>2
<1>4. \E g : Good(g, m)
  <2> HIDE DEF Good
  <2>1. QED
    BY <1>3
<1>5. QED
  BY <1>4 DEF Folds

\* What the fold goes through on the way to its result: a state for each number of
\* elements taken in.
LEMMA FoldTrace ==
  \A m \in Nat : \A X : \A base \in X : \A h \in FoldSteps(m, X) : \A it :
    Chains(it, m, X, base, h) =>
      \E f \in [0..m -> X] : f[m] = it[1..m] /\ Traces(f, m, base, h)
<1> SUFFICES ASSUME NEW m \in Nat, NEW X, NEW base \in X, NEW h \in FoldSteps(m, X), NEW it,
                    Chains(it, m, X, base, h)
             PROVE  \E f \in [0..m -> X] : f[m] = it[1..m] /\ Traces(f, m, base, h)
  BY Zenon
<1>0. /\ h \in [(1..m) \X X -> X] /\ it[{}] = base
      /\ \A k \in 1..m : it[1..(k - 1)] \in X => it[1..k] = h[<<k, it[1..(k - 1)]>>]
  BY DEF FoldSteps, Chains
<1> DEFINE f == [k \in 0..m |-> it[1..k]]
           K == {k \in Nat : k <= m => it[1..k] \in X}
<1>1. 1..0 = {}
  OBVIOUS
<1>2. 0 \in K
  BY <1>0, <1>1
<1>3. ASSUME NEW k \in K PROVE k + 1 \in K
  <2>1. SUFFICES ASSUME k + 1 <= m PROVE it[1..(k + 1)] \in X
    OBVIOUS
  <2>2. k \in Nat /\ k + 1 \in 1..m /\ (k + 1) - 1 = k /\ it[1..k] \in X
    BY <2>1
  <2>3. it[1..(k + 1)] = h[<<k + 1, it[1..k]>>]
    BY <1>0, <2>2
  <2>4. QED
    BY <1>0, <2>2, <2>3
<1>4. K = Nat
  <2>1. K \in SUBSET Nat
    OBVIOUS
  <2> HIDE DEF K
  <2>2. QED
    BY <1>2, <1>3, <2>1, SetInduction
<1>5. \A k \in 0..m : it[1..k] \in X
  BY <1>4
<1>6. f \in [0..m -> X] /\ f[0] = base /\ f[m] = it[1..m]
  BY <1>0, <1>1, <1>5
<1>7. ASSUME NEW k \in 1..m PROVE f[k] = h[<<k, f[k - 1]>>]
  <2>1. k - 1 \in 0..m /\ k \in 0..m
    OBVIOUS
  <2>2. f[k] = it[1..k] /\ f[k - 1] = it[1..(k - 1)] /\ it[1..(k - 1)] \in X
    BY <1>5, <2>1
  <2> HIDE DEF f
  <2>3. QED
    BY <1>0, <2>2
<1>8. QED
  <2> HIDE DEF f
  <2>1. QED
    BY <1>6, <1>7 DEF Traces
-----------------------------------------------------------------------------
(* What a server writes                                                    *)

T == INSTANCE Tcp

\* The connections of the clients D, with cells of C, and the life of the server.
Conns(D, C) == [D -> T!Connection(C)]
Lives(D, C) == [conn : Conns(D, C), alive : BOOLEAN]

\* m writes to the clients D.
WriteLists(m, D, C) == [1..m -> [to : D, cell : C]]

\* What no write changes: the stream from the client and the state of both ends.
SameEnds(k, j) == k.up = j.up /\ k.client = j.client /\ k.server = j.server

\* Nobody is gone and no connection was reset.
AllWell(conns) == \A c \in DOMAIN conns : conns[c].err = "none" /\ conns[c].client # "gone"

\* From a state of the server to one that a write may leave: other connections are
\* the same, and only a reset ends the server.
Written(s, t) ==
  /\ \A c \in DOMAIN s.conn : SameEnds(s.conn[c], t.conn[c])
  /\ s.alive /\ AllWell(s.conn) => t.alive /\ AllWell(t.conn)

\* A connection with one field of its own.
LEMMA WithErr ==
  ASSUME NEW C, NEW k \in T!Connection(C), NEW x \in {"none", "reset", "pipe"}
  PROVE  /\ [k EXCEPT !.err = x] \in T!Connection(C)
         /\ SameEnds(k, [k EXCEPT !.err = x]) /\ [k EXCEPT !.err = x].err = x
         /\ [k EXCEPT !.err = x].down = k.down
<1>1. PICK j : j = [k EXCEPT !.err = x]
  OBVIOUS
<1>2. /\ j = [up |-> k.up, down |-> k.down, client |-> k.client, server |-> k.server, err |-> x]
      /\ k.up \in Seq(C) /\ k.down \in Seq(C) /\ k.client \in {"off", "on", "half", "gone"}
      /\ k.server \in {"none", "queue", "open", "closed"}
  BY <1>1 DEF T!Connection
<1>3. j \in T!Connection(C)
  BY <1>2, Zenon DEF T!Connection
<1>4. QED
  BY <1>1, <1>2, <1>3 DEF SameEnds

\* One write.
LEMMA OneWrite ==
  ASSUME NEW D, NEW C, NEW s \in Lives(D, C), NEW w \in [to : D, cell : C], NEW prompt
  PROVE  T!Write(s, w, prompt) \in Lives(D, C) /\ Written(s, T!Write(s, w, prompt))
<1>1. PICK c, k, t : c = w.to /\ k = s.conn[c] /\ t = T!Write(s, w, prompt)
  OBVIOUS
<1>2. /\ s.conn \in [D -> T!Connection(C)] /\ s.alive \in BOOLEAN
      /\ c \in D /\ w.cell \in C /\ s = [conn |-> s.conn, alive |-> s.alive]
  BY <1>1 DEF Lives, Conns
<1>3. k \in T!Connection(C) /\ k.down \in Seq(C) /\ k.err \in {"none", "reset", "pipe"}
  BY <1>1, <1>2 DEF T!Connection
<1>4. ASSUME NEW j \in T!Connection(C), SameEnds(k, j), k.err = "none" /\ k.client # "gone" => j.err = "none",
             t = [s EXCEPT !.conn[c] = j]
      PROVE  t \in Lives(D, C) /\ Written(s, t)
  <2>1. PICK conns : conns = [s.conn EXCEPT ![c] = j]
    OBVIOUS
  <2>2. t = [conn |-> conns, alive |-> s.alive]
    BY <1>2, <1>4, <2>1
  <2>3. conns \in [D -> T!Connection(C)] /\ conns[c] = j /\ \A d \in D \ {c} : conns[d] = s.conn[d]
    BY <1>2, <1>4, <2>1
  <2>4. t \in Lives(D, C)
    BY <1>2, <2>2, <2>3, Zenon DEF Lives, Conns
  <2>5. t.conn = conns /\ t.alive = s.alive /\ DOMAIN s.conn = D /\ DOMAIN conns = D
    BY <1>2, <2>2, <2>3
  <2>6. \A d \in D : SameEnds(s.conn[d], conns[d])
    BY <1>1, <1>4, <2>3 DEF SameEnds
  <2>7. AllWell(s.conn) => AllWell(conns)
    BY <1>1, <1>2, <1>4, <2>3, <2>5, <2>6 DEF SameEnds, AllWell
  <2>8. QED
    BY <2>4, <2>5, <2>6, <2>7, Zenon DEF Written
<1>5. Written(s, s)
  BY Zenon DEF Written, SameEnds
<1>6. CASE ~s.alive
  <2>1. t = s
    BY <1>1, <1>6, Zenon DEF T!Write
  <2>2. QED
    BY <1>1, <1>5, <2>1
<1>7. CASE s.alive /\ k.err = "pipe"
  <2>1. t = [s EXCEPT !.alive = FALSE]
    BY <1>1, <1>7 DEF T!Write
  <2>2. t = [conn |-> s.conn, alive |-> FALSE]
    BY <1>2, <2>1
  <2>3. t \in Lives(D, C)
    BY <1>2, <2>2, Zenon DEF Lives, Conns
  <2>4. ~AllWell(s.conn)
    BY <1>1, <1>2, <1>7 DEF AllWell
  <2>5. t.conn = s.conn
    BY <2>2
  <2>6. QED
    BY <1>1, <2>3, <2>4, <2>5, Zenon DEF Written, SameEnds
<1>8. CASE s.alive /\ k.err = "reset"
  <2>1. PICK j : j = [k EXCEPT !.err = "pipe"]
    OBVIOUS
  <2>2. t = [s EXCEPT !.conn[c] = j]
    BY <1>1, <1>8, <2>1 DEF T!Write
  <2>3. j \in T!Connection(C) /\ SameEnds(k, j)
    BY <1>3, <2>1, WithErr
  <2>4. QED
    BY <1>1, <1>4, <1>8, <2>2, <2>3
<1>9. CASE s.alive /\ k.err = "none" /\ k.client = "gone"
  <2>1. PICK x, j : x = (IF prompt THEN "pipe" ELSE k.err) /\ j = [k EXCEPT !.err = x]
    OBVIOUS
  <2>2. x \in {"none", "reset", "pipe"}
    BY <1>3, <2>1
  <2>3. t = [s EXCEPT !.conn[c] = j]
    BY <1>1, <1>9, <2>1 DEF T!Write
  <2>4. j \in T!Connection(C) /\ SameEnds(k, j)
    BY <1>3, <2>1, <2>2, WithErr
  <2>5. QED
    BY <1>1, <1>4, <1>9, <2>3, <2>4
<1>10. CASE s.alive /\ k.err = "none" /\ k.client # "gone"
  <2>1. PICK x, j : x = Append(k.down, w.cell) /\ j = [k EXCEPT !.down = x]
    OBVIOUS
  <2>2. x \in Seq(C)
    BY <1>2, <1>3, <2>1
  <2>3. t = [s EXCEPT !.conn[c] = j]
    <3>1. t = [s EXCEPT !.conn[c].down = Append(@, w.cell)]
      BY <1>1, <1>10 DEF T!Write
    <3>2. s.conn[c].down = k.down
      BY <1>1
    <3>3. t = [s EXCEPT !.conn[c].down = x]
      BY <2>1, <3>1, <3>2
    <3>4. QED
      BY <1>1, <2>1, <3>3
  <2>4. j \in T!Connection(C) /\ SameEnds(k, j) /\ j.err = k.err
    <3>1. /\ j = [up |-> k.up, down |-> x, client |-> k.client, server |-> k.server, err |-> k.err]
          /\ k.up \in Seq(C) /\ k.client \in {"off", "on", "half", "gone"}
          /\ k.server \in {"none", "queue", "open", "closed"}
      BY <1>3, <2>1 DEF T!Connection
    <3>2. j \in T!Connection(C)
      BY <1>3, <2>2, <3>1, Zenon DEF T!Connection
    <3>3. QED
      BY <3>1, <3>2 DEF SameEnds
  <2>5. QED
    BY <1>1, <1>4, <1>10, <2>3, <2>4
<1>11. QED
  BY <1>3, <1>6, <1>7, <1>8, <1>9, <1>10

\* Max of a set of the numbers up to m is its greatest one.
LEMMA TMax ==
  ASSUME NEW m \in Nat, NEW s \in SUBSET (1..m), s # {}
  PROVE  /\ T!Max(s) \in s /\ \A j \in s : j <= T!Max(s)
         /\ \A k \in s : (\A j \in s : j <= k) => k = T!Max(s)
<1>1. PICK x \in s : \A y \in s : y <= x
  BY Greatest, Zenon
<1>2. \A y \in s : y \in Nat
  OBVIOUS
<1>3. \A y \in s : x >= y
  BY <1>1, <1>2
<1>4. \E z \in s : \A y \in s : z >= y
  BY <1>3
<1>5. PICK z : z = T!Max(s)
  OBVIOUS
<1>6. z \in s /\ \A y \in s : z >= y
  BY <1>4, <1>5, Zenon DEF T!Max
<1>7. \A y \in s : y <= z /\ ((\A j \in s : j <= y) => y = z)
  BY <1>2, <1>6
<1>8. QED
  BY <1>5, <1>6, <1>7

\* The server before the first write, and after each of them.
WriteSteps(f, m, conns, ws, prompt) ==
  /\ f[0] = [conn |-> conns, alive |-> TRUE]
  /\ \A k \in 1..m : f[k] = T!Write(f[k - 1], ws[k], prompt)
  /\ f[m] = T!Writes(conns, ws, prompt)

\* The writes, one after the other: the server after each of them.
LEMMA WritesTrace ==
  \A D, C : \A conns \in Conns(D, C) : \A m \in Nat :
    \A ws \in WriteLists(m, D, C) : \A prompt :
      \E f \in [0..m -> Lives(D, C)] : WriteSteps(f, m, conns, ws, prompt)
<1> SUFFICES ASSUME NEW D, NEW C, NEW conns \in Conns(D, C), NEW m \in Nat,
                    NEW ws \in WriteLists(m, D, C), NEW prompt
             PROVE  \E f \in [0..m -> Lives(D, C)] : WriteSteps(f, m, conns, ws, prompt)
  BY Zenon
<1> DEFINE X == Lives(D, C)
           base == [conn |-> conns, alive |-> TRUE]
           h == [p \in (1..m) \X X |-> T!Write(p[2], ws[p[1]], prompt)]
           Iter(g) == g = [s \in SUBSET (1..m) |->
                             IF s = {} THEN base
                             ELSE T!Write(g[s \ {T!Max(s)}], ws[T!Max(s)], prompt)]
<1>1. h \in FoldSteps(m, X) /\ base \in X
  <2>1. base \in X
    BY Zenon DEF Lives, Conns
  <2>2. \A k \in 1..m : \A s \in X : T!Write(s, ws[k], prompt) \in X
    <3> SUFFICES ASSUME NEW k \in 1..m, NEW s \in X PROVE T!Write(s, ws[k], prompt) \in X
      OBVIOUS
    <3>1. ws[k] \in [to : D, cell : C]
      BY DEF WriteLists
    <3>2. QED
      BY <3>1, OneWrite
  <2> HIDE DEF X, base
  <2>3. QED
    BY <2>1, <2>2 DEF FoldSteps
<1>2. PICK g \in [SUBSET (1..m) -> X] : Folds(g, m, base, h)
  <2> HIDE DEF h, X, base
  <2>1. QED
    BY <1>1, FoldExists, Zenon
<1>3. Iter(g)
  <2>1. ASSUME NEW s \in SUBSET (1..m)
        PROVE  g[s] = IF s = {} THEN base
                      ELSE T!Write(g[s \ {T!Max(s)}], ws[T!Max(s)], prompt)
    <3> HIDE DEF X, base
    <3>1. CASE s # {}
      <4>1. PICK k : k = T!Max(s)
        OBVIOUS
      <4>2. k \in s /\ \A j \in s : j <= k
        BY TMax, <3>1, <4>1
      <4>3. k \in 1..m /\ s \ {k} \in SUBSET (1..m)
        BY <4>2
      <4>4. h[<<k, g[s \ {k}]>>] = T!Write(g[s \ {k}], ws[k], prompt)
        BY <4>3
      <4> HIDE DEF h
      <4>5. g[s] = h[<<k, g[s \ {k}]>>]
        BY <1>2, <4>2, Zenon DEF Folds
      <4>6. QED
        BY <3>1, <4>1, <4>4, <4>5
    <3>2. QED
      BY <1>2, <3>1 DEF Folds
  <2> HIDE DEF X, base
  <2>2. QED
    BY <2>1
<1>4. PICK it : Iter(it) /\ it[1..m] = T!Writes(conns, ws, prompt)
  <2>0. DOMAIN ws = 1..m
    BY DEF WriteLists
  <2>1. T!Writes(conns, ws, prompt) = (CHOOSE it : Iter(it))[1..m]
    BY <2>0 DEF T!Writes, T!FoldLeft, T!MapThenFoldSet
  <2> HIDE DEF Iter
  <2>2. QED
    BY <1>3, <2>1, Zenon
<1>5. it[{}] = base
  BY <1>4
<1>6. ASSUME NEW k \in 1..m, it[1..(k - 1)] \in X PROVE it[1..k] = h[<<k, it[1..(k - 1)]>>]
  <2> HIDE DEF X, base
  <2>1. k \in 1..k /\ 1..k \in SUBSET (1..m) /\ \A j \in 1..k : j <= k
    OBVIOUS
  <2>2. (1..k) \ {k} = 1..(k - 1)
    OBVIOUS
  <2>3. T!Max(1..k) = k /\ 1..k # {}
    <3> HIDE DEF h, Iter
    <3>1. QED
      BY TMax, <2>1
  <2>4. it[1..k] = T!Write(it[1..(k - 1)], ws[k], prompt)
    BY <1>4, <2>1, <2>2, <2>3
  <2>5. QED
    BY <1>6, <2>4
<1>7. PICK f \in [0..m -> X] : f[m] = it[1..m] /\ Traces(f, m, base, h)
  <2> HIDE DEF h, Iter, X, base
  <2>1. Chains(it, m, X, base, h)
    BY <1>5, <1>6, Zenon DEF Chains
  <2>2. QED
    BY <1>1, <2>1, FoldTrace, Zenon
<1>8. ASSUME NEW k \in 1..m PROVE f[k] = T!Write(f[k - 1], ws[k], prompt)
  <2> HIDE DEF X, base
  <2>1. k - 1 \in 0..m
    OBVIOUS
  <2>2. h[<<k, f[k - 1]>>] = T!Write(f[k - 1], ws[k], prompt)
    BY <2>1
  <2> HIDE DEF h
  <2>3. QED
    BY <1>7, <2>2 DEF Traces
<1>9. WriteSteps(f, m, conns, ws, prompt)
  BY <1>4, <1>7, <1>8 DEF Traces, WriteSteps
<1>10. QED
  BY <1>9

\* However many writes: the connections stay connections, no end is closed, nothing
\* is taken from what the clients sent, and who writes to living clients lives.
LEMMA AllWrites ==
  ASSUME NEW D, NEW C, NEW conns \in Conns(D, C), NEW m \in Nat,
         NEW ws \in WriteLists(m, D, C), NEW prompt
  PROVE  /\ T!Writes(conns, ws, prompt) \in Lives(D, C)
         /\ Written([conn |-> conns, alive |-> TRUE], T!Writes(conns, ws, prompt))
<1>0. PICK f \in [0..m -> Lives(D, C)] : WriteSteps(f, m, conns, ws, prompt)
  BY WritesTrace, Zenon
<1>1. /\ f[0] = [conn |-> conns, alive |-> TRUE]
      /\ \A k \in 1..m : f[k] = T!Write(f[k - 1], ws[k], prompt)
      /\ f[m] = T!Writes(conns, ws, prompt)
  BY <1>0 DEF WriteSteps
<1> DEFINE K == {k \in Nat : k <= m => Written(f[0], f[k])}
<1>2. 0 \in K
  BY Zenon DEF Written, SameEnds
<1>3. ASSUME NEW k \in K PROVE k + 1 \in K
  <2>1. SUFFICES ASSUME k + 1 <= m PROVE Written(f[0], f[k + 1])
    OBVIOUS
  <2>2. /\ Written(f[0], f[k]) /\ k + 1 \in 1..m /\ (k + 1) - 1 = k
        /\ k \in 0..m /\ 0 \in 0..m
    BY <2>1
  <2>3. PICK s, t : s = f[k] /\ t = f[k + 1]
    OBVIOUS
  <2>4. t = T!Write(s, ws[k + 1], prompt)
    BY <1>1, <2>2, <2>3
  <2>5. s \in Lives(D, C) /\ f[0] \in Lives(D, C) /\ ws[k + 1] \in [to : D, cell : C]
    BY <2>2, <2>3 DEF WriteLists
  <2>6. Written(s, t)
    BY <2>4, <2>5, OneWrite
  <2>7. DOMAIN s.conn = D /\ DOMAIN f[0].conn = D
    BY <2>5 DEF Lives, Conns
  <2>8. QED
    BY <2>2, <2>3, <2>6, <2>7, ZenonT(60) DEF Written, SameEnds
<1>4. K = Nat
  <2>1. K \in SUBSET Nat
    OBVIOUS
  <2> HIDE DEF K
  <2>2. QED
    BY <1>2, <1>3, <2>1, SetInduction
<1>5. Written(f[0], f[m])
  BY <1>4
<1>6. f[m] \in Lives(D, C)
  OBVIOUS
<1>7. QED
  BY <1>1, <1>5, <1>6

\* It is the same for every server.
LEMMA SameTcp ==
  ASSUME NEW conns, NEW ws, NEW prompt
  PROVE  /\ Chat!Writes(conns, ws, prompt) = T!Writes(conns, ws, prompt)
         /\ Lined!Writes(conns, ws, prompt) = T!Writes(conns, ws, prompt)
         /\ Exam!Writes(conns, ws, prompt) = T!Writes(conns, ws, prompt)
BY DEF Chat!Writes, Lined!Writes, Exam!Writes, T!Writes, Chat!Write, Lined!Write, Exam!Write, T!Write,
       Chat!FoldLeft, Lined!FoldLeft, Exam!FoldLeft, T!FoldLeft,
       Chat!MapThenFoldSet, Lined!MapThenFoldSet, Exam!MapThenFoldSet, T!MapThenFoldSet,
       Chat!Max, Lined!Max, Exam!Max, T!Max

\* The programs whose clients leave alike use the same of them.
LEMMA SameEnd ==
  ASSUME NEW conns
  PROVE  /\ Chat!Orphaned(conns) = T!Orphaned(conns)
         /\ Lined!Orphaned(conns) = T!Orphaned(conns)
BY DEF Chat!Orphaned, Lined!Orphaned, T!Orphaned, Chat!Closed, Lined!Closed, T!Closed,
       Chat!NoConn, Lined!NoConn, T!NoConn

\* Connections with whatever cells.
IsConns(D, conns) == \E C : conns \in Conns(D, C)
\* A list of writes to the clients D.
IsWrites(D, ws) ==
  \E m \in Nat : /\ Len(ws) = m /\ ws \in Seq({ws[k] : k \in 1..m})
                 /\ \A k \in 1..m : ws[k] = [to |-> ws[k].to, cell |-> ws[k].cell] /\ ws[k].to \in D

\* Connections of more cells.
LEMMA MoreCells ==
  ASSUME NEW C, NEW E, C \subseteq E, NEW D, NEW conns \in Conns(D, C)
  PROVE  conns \in Conns(D, E)
<1>1. T!Connection(C) \subseteq T!Connection(E)
  <2> SUFFICES ASSUME NEW k \in T!Connection(C) PROVE k \in T!Connection(E)
    OBVIOUS
  <2>1. /\ k = [up |-> k.up, down |-> k.down, client |-> k.client, server |-> k.server, err |-> k.err]
        /\ k.up \in Seq(C) /\ k.down \in Seq(C) /\ k.client \in {"off", "on", "half", "gone"}
        /\ k.server \in {"none", "queue", "open", "closed"} /\ k.err \in {"none", "reset", "pipe"}
    BY DEF T!Connection
  <2>2. k.up \in Seq(E) /\ k.down \in Seq(E)
    BY <2>1
  <2>3. QED
    BY <2>1, <2>2, Zenon DEF T!Connection
<1>2. QED
  BY <1>1 DEF Conns

\* What a server has after its writes.
LEMMA ServerWrites ==
  ASSUME NEW D, NEW conns, IsConns(D, conns), NEW ws, IsWrites(D, ws), NEW prompt
  PROVE  LET s == T!Writes(conns, ws, prompt)
         IN  /\ IsConns(D, s.conn) /\ s.alive \in BOOLEAN
             /\ \A c \in D : SameEnds(conns[c], s.conn[c])
             /\ AllWell(conns) => s.alive /\ AllWell(s.conn)
<1>1. PICK C : conns \in Conns(D, C)
  BY DEF IsConns
<1>2. PICK m \in Nat : /\ Len(ws) = m /\ ws \in Seq({ws[k] : k \in 1..m})
                       /\ \A k \in 1..m : ws[k] = [to |-> ws[k].to, cell |-> ws[k].cell] /\ ws[k].to \in D
  BY DEF IsWrites
<1>3. PICK E : E = C \cup {ws[k].cell : k \in 1..m}
  OBVIOUS
<1>4. conns \in Conns(D, E)
  BY <1>1, <1>3, MoreCells
<1>5. ws \in WriteLists(m, D, E)
  <2>1. DOMAIN ws = 1..m /\ ws = [k \in 1..m |-> ws[k]]
    BY <1>2
  <2>2. ASSUME NEW k \in 1..m PROVE ws[k] \in [to : D, cell : E]
    <3>1. ws[k].cell \in E
      BY <1>3
    <3>2. PICK x, a, b : x = ws[k] /\ a = x.to /\ b = x.cell
      OBVIOUS
    <3>3. x = [to |-> a, cell |-> b] /\ a \in D /\ b \in E
      BY <1>2, <3>1, <3>2
    <3>4. QED
      BY <3>2, <3>3
  <2>3. QED
    BY <2>1, <2>2 DEF WriteLists
<1>6. PICK s : s = T!Writes(conns, ws, prompt)
  OBVIOUS
<1>7. s \in Lives(D, E) /\ Written([conn |-> conns, alive |-> TRUE], s)
  BY <1>4, <1>5, <1>6, AllWrites
<1>8. s.conn \in Conns(D, E) /\ s.alive \in BOOLEAN /\ DOMAIN conns = D
  BY <1>4, <1>7 DEF Lives, Conns
<1>9. QED
  BY <1>6, <1>7, <1>8 DEF IsConns, Written

\* The same of hw1's server.
LEMMA ChatMax ==
  ASSUME NEW m \in Nat, NEW s \in SUBSET (1..m), s # {}
  PROVE  /\ Chat!Max(s) \in s /\ \A j \in s : j <= Chat!Max(s)
         /\ \A k \in s : (\A j \in s : j <= k) => k = Chat!Max(s)
<1>1. PICK x \in s : \A y \in s : y <= x
  BY Greatest, Zenon
<1>2. \A y \in s : y \in Nat
  OBVIOUS
<1>3. \A y \in s : x >= y
  BY <1>1, <1>2
<1>4. \E z \in s : \A y \in s : z >= y
  BY <1>3
<1>5. PICK z : z = Chat!Max(s)
  OBVIOUS
<1>6. z \in s /\ \A y \in s : z >= y
  BY <1>4, <1>5, Zenon DEF Chat!Max
<1>7. \A y \in s : y <= z /\ ((\A j \in s : j <= y) => y = z)
  BY <1>2, <1>6
<1>8. QED
  BY <1>5, <1>6, <1>7

\* The entries of hw1's table that are in use.
Used(table) == {k \in DOMAIN table : table[k].fd # Chat!NoFd}

\* What a loop over the table of hw1 writes: w[k] for entries k in use only.
LEMMA LiveOnly ==
  ASSUME NEW m \in Nat, NEW table, DOMAIN table = 1..m, NEW w
  PROVE  Chat!ForLive(table, w) \in Seq({w[k] : k \in Used(table)})
<1> DEFINE X == Seq({w[k] : k \in Used(table)})
           Then(x, k) == IF table[k].fd = Chat!NoFd THEN x ELSE Append(x, w[k])
           h == [p \in (1..m) \X X |-> Then(p[2], p[1])]
           idx == [k \in 1..m |-> k]
           Iter(g) == g = [s \in SUBSET (1..m) |->
                             IF s = {} THEN <<>>
                             ELSE Then(g[s \ {Chat!Max(s)}], idx[Chat!Max(s)])]
<1>1. h \in FoldSteps(m, X) /\ <<>> \in X
  <2>1. \A k \in 1..m : \A x \in X : Then(x, k) \in X
    BY DEF Used
  <2>2. <<>> \in X
    OBVIOUS
  <2> HIDE DEF X, Then
  <2>3. QED
    BY <2>1, <2>2 DEF FoldSteps
<1>2. PICK g \in [SUBSET (1..m) -> X] : Folds(g, m, <<>>, h)
  <2> HIDE DEF h, X
  <2>1. QED
    BY <1>1, FoldExists, Zenon
<1>3. Iter(g)
  <2>1. ASSUME NEW s \in SUBSET (1..m)
        PROVE  g[s] = IF s = {} THEN <<>> ELSE Then(g[s \ {Chat!Max(s)}], idx[Chat!Max(s)])
    <3> HIDE DEF X, Then
    <3>1. CASE s # {}
      <4>1. PICK k : k = Chat!Max(s)
        OBVIOUS
      <4>2. k \in s /\ \A j \in s : j <= k
        BY ChatMax, <3>1, <4>1
      <4>3. k \in 1..m /\ s \ {k} \in SUBSET (1..m) /\ idx[k] = k
        BY <4>2
      <4>4. h[<<k, g[s \ {k}]>>] = Then(g[s \ {k}], k)
        BY <4>3
      <4> HIDE DEF h, idx
      <4>5. g[s] = h[<<k, g[s \ {k}]>>]
        BY <1>2, <4>2, Zenon DEF Folds
      <4>6. QED
        BY <3>1, <4>1, <4>3, <4>4, <4>5
    <3>2. QED
      BY <1>2, <3>1 DEF Folds
  <2> HIDE DEF X, Then
  <2>2. QED
    BY <2>1
<1>4. PICK it : Iter(it) /\ it[1..m] = Chat!ForLive(table, w)
  <2>0. DOMAIN idx = 1..m /\ [k \in DOMAIN table |-> k] = idx
    OBVIOUS
  <2>1. Chat!ForLive(table, w) = (CHOOSE it : Iter(it))[1..m]
    <3>1. Chat!ForLive(table, w) = Chat!FoldLeft(LAMBDA x, k : Then(x, k), <<>>, idx)
      BY <2>0 DEF Chat!ForLive, Chat!FoldLeftDomain
    <3> HIDE DEF idx, Then
    <3>2. QED
      BY <2>0, <3>1 DEF Chat!FoldLeft, Chat!MapThenFoldSet
  <2> HIDE DEF Iter
  <2>2. QED
    BY <1>3, <2>1, Zenon
<1>5. it[{}] = <<>>
  BY <1>4
<1>6. ASSUME NEW k \in 1..m, it[1..(k - 1)] \in X PROVE it[1..k] = h[<<k, it[1..(k - 1)]>>]
  <2> HIDE DEF X, Then
  <2>1. k \in 1..k /\ 1..k \in SUBSET (1..m) /\ \A j \in 1..k : j <= k
    OBVIOUS
  <2>2. (1..k) \ {k} = 1..(k - 1) /\ idx[k] = k
    OBVIOUS
  <2>3. Chat!Max(1..k) = k /\ 1..k # {}
    <3> HIDE DEF h, Iter
    <3>1. QED
      BY ChatMax, <2>1
  <2>4. it[1..k] = Then(it[1..(k - 1)], k)
    BY <1>4, <2>1, <2>2, <2>3, ZenonT(60)
  <2>5. QED
    BY <1>6, <2>4
<1>7. PICK f \in [0..m -> X] : f[m] = it[1..m] /\ Traces(f, m, <<>>, h)
  <2> HIDE DEF h, Iter, X
  <2>1. Chains(it, m, X, <<>>, h)
    BY <1>5, <1>6, Zenon DEF Chains
  <2>2. QED
    BY <1>1, <2>1, FoldTrace, Zenon
<1>8. QED
  <2> HIDE DEF X
  <2>1. f[m] \in X
    OBVIOUS
  <2>2. QED
    BY <1>4, <1>7, <2>1 DEF X

\* A loop over the table writes to clients if its entries in use belong to clients.
LEMMA LoopWrites ==
  ASSUME NEW D, NEW m \in Nat, NEW table, DOMAIN table = 1..m, NEW w,
         \A k \in Used(table) : w[k] = [to |-> w[k].to, cell |-> w[k].cell] /\ w[k].to \in D
  PROVE  IsWrites(D, Chat!ForLive(table, w))
<1>1. PICK ws, S : ws = Chat!ForLive(table, w) /\ S = {w[k] : k \in Used(table)}
  OBVIOUS
<1>2. ws \in Seq(S)
  BY <1>1, LiveOnly
<1>3. \A x \in S : x = [to |-> x.to, cell |-> x.cell] /\ x.to \in D
  BY <1>1
<1>4. PICK len \in Nat : Len(ws) = len /\ DOMAIN ws = 1..len
  BY <1>2
<1>5. ASSUME NEW k \in 1..len
      PROVE  ws[k] = [to |-> ws[k].to, cell |-> ws[k].cell] /\ ws[k].to \in D
  <2>1. ws[k] \in S
    BY <1>2, <1>4
  <2>2. QED
    BY <1>3, <2>1
<1>6. ws \in Seq({ws[k] : k \in 1..len})
  BY <1>2, <1>4
<1>7. QED
  BY <1>1, <1>4, <1>5, <1>6, Zenon DEF IsWrites

\* One write, and two.
LEMMA FewWrites ==
  ASSUME NEW D, NEW c \in D, NEW e \in D, NEW x, NEW y
  PROVE  /\ IsWrites(D, <<[to |-> c, cell |-> x]>>)
         /\ IsWrites(D, <<[to |-> c, cell |-> x]>> \o <<[to |-> e, cell |-> y]>>)
<1>1. ASSUME NEW ws, NEW m \in Nat, Len(ws) = m, DOMAIN ws = 1..m, NEW S, ws \in Seq(S),
             \A k \in 1..m : ws[k] = [to |-> ws[k].to, cell |-> ws[k].cell] /\ ws[k].to \in D
      PROVE  IsWrites(D, ws)
  <2>1. ws \in Seq({ws[k] : k \in 1..m})
    BY <1>1
  <2>2. QED
    BY <1>1, <2>1, Zenon DEF IsWrites
<1>2. PICK a, b : a = [to |-> c, cell |-> x] /\ b = [to |-> e, cell |-> y]
  OBVIOUS
<1>3. a = [to |-> a.to, cell |-> a.cell] /\ a.to \in D /\ b = [to |-> b.to, cell |-> b.cell] /\ b.to \in D
  BY <1>2
<1>4. IsWrites(D, <<a>>)
  <2>1. Len(<<a>>) = 1 /\ DOMAIN <<a>> = 1..1 /\ <<a>> \in Seq({a}) /\ <<a>>[1] = a
    OBVIOUS
  <2>2. \A k \in 1..1 : k = 1
    OBVIOUS
  <2>3. QED
    BY <1>1, <1>3, <2>1, <2>2
<1>5. IsWrites(D, <<a>> \o <<b>>)
  <2>1. PICK v : v = <<a>> \o <<b>>
    OBVIOUS
  <2>2. /\ Len(v) = 2 /\ DOMAIN v = 1..2 /\ v \in Seq({a, b}) /\ v[1] = a /\ v[2] = b
    <3>1. <<a>> \in Seq({a, b}) /\ <<b>> \in Seq({a, b}) /\ Len(<<a>>) = 1 /\ Len(<<b>>) = 1
      OBVIOUS
    <3>2. QED
      BY <2>1, <3>1, ConcatProperties
  <2>3. \A k \in 1..2 : k = 1 \/ k = 2
    OBVIOUS
  <2>4. QED
    BY <1>1, <1>3, <2>1, <2>2, <2>3
<1>6. QED
  BY <1>2, <1>4, <1>5

\* What the kernel and the ends do to a connection.
LEMMA Hangs ==
  ASSUME NEW C, NEW k \in T!Connection(C)
  PROVE  /\ T!NoConn \in T!Connection(C) /\ T!Dialled \in T!Connection(C)
         /\ T!Accepted(k) \in T!Connection(C) /\ T!Closed(k) \in T!Connection(C)
         /\ T!HalfClosed(k) \in T!Connection(C) /\ T!Gone(k) \in T!Connection(C)
         /\ k.down # <<>> => T!ReadRest(k) \in T!Connection(C)
         /\ \A m \in Nat : m <= Len(k.up) => T!Taken(k, m) \in T!Connection(C)
<1>1. ASSUME NEW up \in Seq(C), NEW down \in Seq(C), NEW cl \in {"off", "on", "half", "gone"},
             NEW srv \in {"none", "queue", "open", "closed"}, NEW err \in {"none", "reset", "pipe"}, NEW j,
             j = [up |-> up, down |-> down, client |-> cl, server |-> srv, err |-> err]
      PROVE  j \in T!Connection(C)
  BY <1>1, Zenon DEF T!Connection
<1>2. /\ k = [up |-> k.up, down |-> k.down, client |-> k.client, server |-> k.server, err |-> k.err]
      /\ k.up \in Seq(C) /\ k.down \in Seq(C) /\ k.client \in {"off", "on", "half", "gone"}
      /\ k.server \in {"none", "queue", "open", "closed"} /\ k.err \in {"none", "reset", "pipe"}
      /\ <<>> \in Seq(C)
  BY DEF T!Connection
<1>3. T!NoConn \in T!Connection(C) /\ T!Dialled \in T!Connection(C)
  <2>1. PICK j, y : j = T!Dialled /\ y = T!NoConn
    OBVIOUS
  <2>2. j = [up |-> <<>>, down |-> <<>>, client |-> "on", server |-> "queue", err |-> "none"]
    BY <2>1 DEF T!Dialled, T!NoConn
  <2>3. y = [up |-> <<>>, down |-> <<>>, client |-> "off", server |-> "none", err |-> "none"]
    BY <2>1 DEF T!NoConn
  <2>4. j \in T!Connection(C) /\ y \in T!Connection(C)
    BY <1>2, <2>2, <2>3, Zenon DEF T!Connection
  <2>5. QED
    BY <2>1, <2>4
<1>4. T!Accepted(k) \in T!Connection(C)
  <2>1. PICK j : j = T!Accepted(k)
    OBVIOUS
  <2>2. j = [up |-> k.up, down |-> k.down, client |-> k.client, server |-> "open", err |-> k.err]
    BY <1>2, <2>1 DEF T!Accepted
  <2>3. j \in T!Connection(C)
    BY <1>2, <2>2, Zenon DEF T!Connection
  <2>4. QED
    BY <2>1, <2>3
<1>5. T!Closed(k) \in T!Connection(C)
  <2>1. CASE k.client = "gone"
    BY <1>3, <2>1 DEF T!Closed
  <2>2. CASE k.client # "gone"
    <3>1. PICK j : j = T!Closed(k)
      OBVIOUS
    <3>2. j = [up |-> <<>>, down |-> k.down, client |-> k.client, server |-> "closed", err |-> k.err]
      BY <1>2, <3>1, <2>2 DEF T!Closed
    <3>3. j \in T!Connection(C)
      BY <1>2, <3>2, Zenon DEF T!Connection
    <3>4. QED
      BY <3>1, <3>3
  <2>3. QED
    BY <2>1, <2>2
<1>6. T!HalfClosed(k) \in T!Connection(C)
  <2>1. PICK j : j = T!HalfClosed(k)
    OBVIOUS
  <2>2. j = [up |-> k.up, down |-> k.down, client |-> "half", server |-> k.server, err |-> k.err]
    BY <1>2, <2>1 DEF T!HalfClosed
  <2>3. j \in T!Connection(C)
    BY <1>2, <2>2, Zenon DEF T!Connection
  <2>4. QED
    BY <2>1, <2>3
<1>7. T!Gone(k) \in T!Connection(C)
  <2>1. CASE k.server = "closed"
    BY <1>3, <2>1 DEF T!Gone
  <2>2. CASE k.server # "closed"
    <3>1. PICK e, j : e = (IF k.down # <<>> THEN "reset" ELSE k.err) /\ j = T!Gone(k)
      OBVIOUS
    <3>2. j = [up |-> k.up, down |-> <<>>, client |-> "gone", server |-> k.server, err |-> e]
      BY <1>2, <2>2, <3>1 DEF T!Gone
    <3>3. e \in {"none", "reset", "pipe"}
      BY <1>2, <3>1
    <3>4. j \in T!Connection(C)
      BY <1>2, <3>2, <3>3, Zenon DEF T!Connection
    <3>5. QED
      BY <3>1, <3>4
  <2>3. QED
    BY <2>1, <2>2
<1>8. ASSUME k.down # <<>> PROVE T!ReadRest(k) \in T!Connection(C)
  <2>1. PICK d, j : d = Tail(k.down) /\ j = T!ReadRest(k)
    OBVIOUS
  <2>2. j = [up |-> k.up, down |-> d, client |-> k.client, server |-> k.server, err |-> k.err]
    BY <1>2, <2>1 DEF T!ReadRest
  <2>3. d \in Seq(C)
    BY <1>2, <1>8, <2>1
  <2>4. j \in T!Connection(C)
    BY <1>2, <2>2, <2>3, Zenon DEF T!Connection
  <2>5. QED
    BY <2>1, <2>4
<1>9. ASSUME NEW m \in Nat, m <= Len(k.up) PROVE T!Taken(k, m) \in T!Connection(C)
  <2>1. PICK e, u, j : /\ e = (IF m = 0 /\ k.err = "reset" THEN "pipe" ELSE k.err)
                      /\ u = SubSeq(k.up, m + 1, Len(k.up)) /\ j = T!Taken(k, m)
    OBVIOUS
  <2>2. j = [up |-> u, down |-> k.down, client |-> k.client, server |-> k.server, err |-> e]
    BY <1>2, <2>1 DEF T!Taken
  <2>3. e \in {"none", "reset", "pipe"}
    BY <1>2, <2>1
  <2>4. u \in Seq(C)
    <3>1. PICK w, l : w = k.up /\ l = Len(w)
      OBVIOUS
    <3>2. w \in Seq(C) /\ l \in Nat /\ m <= l /\ u = SubSeq(w, m + 1, l)
      BY <1>2, <1>9, <2>1, <3>1
    <3>3. \A z \in (m + 1)..l : w[z] \in C
      BY <3>1, <3>2
    <3>4. QED
      BY <3>1, <3>2, <3>3, SubSeqProperties
  <2>5. j \in T!Connection(C)
    BY <1>2, <2>2, <2>3, <2>4, Zenon DEF T!Connection
  <2>6. QED
    BY <2>1, <2>5
<1>10. QED
  BY <1>3, <1>4, <1>5, <1>6, <1>7, <1>8, <1>9

\* A line on its way to the server.
LEMMA SendsLine ==
  ASSUME NEW C, NEW k \in T!Connection(C), NEW cell
  PROVE  T!Sent(k, cell) \in T!Connection(C \cup {cell})
<1>1. PICK E : E = C \cup {cell}
  OBVIOUS
<1>2. /\ k = [up |-> k.up, down |-> k.down, client |-> k.client, server |-> k.server, err |-> k.err]
      /\ k.up \in Seq(C) /\ k.down \in Seq(C) /\ k.client \in {"off", "on", "half", "gone"}
      /\ k.server \in {"none", "queue", "open", "closed"} /\ k.err \in {"none", "reset", "pipe"}
  BY DEF T!Connection
<1>3. k.up \in Seq(E) /\ k.down \in Seq(E) /\ Append(k.up, cell) \in Seq(E)
  BY <1>1, <1>2
<1>4. CASE k.server = "closed"
  <2>1. T!Sent(k, cell) = k
    BY <1>4 DEF T!Sent
  <2>2. k \in T!Connection(E)
    BY <1>2, <1>3, Zenon DEF T!Connection
  <2>3. QED
    BY <1>1, <2>1, <2>2
<1>5. CASE k.server # "closed"
  <2>1. PICK j : j = T!Sent(k, cell)
    OBVIOUS
  <2>2. j = [up |-> Append(k.up, cell), down |-> k.down, client |-> k.client, server |-> k.server, err |-> k.err]
    BY <1>2, <1>5, <2>1 DEF T!Sent
  <2>3. j \in T!Connection(E)
    BY <1>2, <1>3, <2>2, Zenon DEF T!Connection
  <2>4. QED
    BY <1>1, <2>1, <2>3
<1>6. QED
  BY <1>4, <1>5

\* One connection changes, and the kernel closes them all.
LEMMA OneChanges ==
  ASSUME NEW D, NEW conns, NEW C, conns \in Conns(D, C), NEW c \in D, NEW E, NEW j \in T!Connection(E)
  PROVE  IsConns(D, [conns EXCEPT ![c] = j])
<1>1. conns \in Conns(D, C \cup E)
  BY MoreCells
<1>2. [e \in {c} |-> j] \in Conns({c}, C \cup E)
  <2>1. [e \in {c} |-> j] \in Conns({c}, E)
    BY DEF Conns
  <2>2. QED
    BY <2>1, MoreCells
<1>3. j \in T!Connection(C \cup E)
  BY <1>2 DEF Conns
<1>4. [conns EXCEPT ![c] = j] \in Conns(D, C \cup E)
  BY <1>1, <1>3 DEF Conns
<1>5. QED
  BY <1>4 DEF IsConns

\* The end of a server leaves connections, whatever state its clients are in.
LEMMA LeftBehind ==
  ASSUME NEW D, NEW conns, IsConns(D, conns)
  PROVE  IsConns(D, T!Orphaned(conns))
<1>1. PICK C : conns \in Conns(D, C)
  BY DEF IsConns
<1>2. DOMAIN conns = D /\ \A c \in D : conns[c] \in T!Connection(C)
  BY <1>1 DEF Conns
<1>3. \A c \in D : T!Closed(conns[c]) \in T!Connection(C)
  BY <1>2, Hangs
<1>4. T!Orphaned(conns) \in Conns(D, C)
  BY <1>2, <1>3 DEF T!Orphaned, Conns
<1>5. QED
  BY <1>4 DEF IsConns

-----------------------------------------------------------------------------
(* ChatServer                                                              *)

ChatEntry == [fd : Machines \cup {"-1"}, name : ChatNames \cup {"anonymous"}]

\* The clients in the table, and the check of names.
Fds(table) == {table[k].fd : k \in Used(table)}
Whole(table) ==
  /\ table \in Seq(ChatEntry)
  /\ \A k, l \in Used(table) :
       k # l => /\ table[k].fd # table[l].fd
                /\ table[k].name = table[l].name => table[k].name = "anonymous"

\* The entries in use are the open connections as long as the server lives, and no
\* connection was reset if no client was killed.
Listed(k, c, fds) ==
  /\ k.server = "open" <=> c \in fds
  /\ k.server \in {"queue", "open"} => k.client # "off"

ChatInv ==
  /\ IsConns(Machines, conn) /\ Whole(fd_array)
  /\ alive \in BOOLEAN /\ killed \in Nat
  /\ alive => \A c \in Machines : Listed(conn[c], c, Fds(fd_array))
  /\ killed = 0 => alive /\ AllWell(conn)

\* The connections after a handler that left them as conns and wrote ws.
LEMMA ChatAnswers ==
  ASSUME NEW conns, IsConns(Machines, conns), NEW ws, IsWrites(Machines, ws),
         Chat!Answer(conns, ws)
  PROVE  /\ IsConns(Machines, conn') /\ alive' \in BOOLEAN
         /\ alive' => \A c \in Machines : SameEnds(conns[c], conn'[c])
         /\ AllWell(conns) => alive' /\ AllWell(conn')
<1>1. PICK prompt \in BOOLEAN :
        LET s == T!Writes(conns, ws, prompt)
        IN  alive' = s.alive /\ conn' = IF s.alive THEN s.conn ELSE T!Orphaned(s.conn)
  <2>1. PICK prompt \in BOOLEAN :
          LET s == Chat!Writes(conns, ws, prompt)
          IN  alive' = s.alive /\ conn' = IF s.alive THEN s.conn ELSE Chat!Orphaned(s.conn)
    BY DEF Chat!Answer
  <2>2. Chat!Writes(conns, ws, prompt) = T!Writes(conns, ws, prompt)
    BY SameTcp
  <2>3. QED
    BY <2>1, <2>2, SameEnd
<1>2. PICK s : s = T!Writes(conns, ws, prompt)
  OBVIOUS
<1>3. /\ IsConns(Machines, s.conn) /\ s.alive \in BOOLEAN
      /\ \A c \in Machines : SameEnds(conns[c], s.conn[c])
      /\ AllWell(conns) => s.alive /\ AllWell(s.conn)
  BY <1>2, ServerWrites, Zenon
<1>4. alive' = s.alive /\ conn' = IF s.alive THEN s.conn ELSE T!Orphaned(s.conn)
  BY <1>1, <1>2
<1>5. CASE s.alive
  BY <1>3, <1>4, <1>5 DEF SameEnds
<1>6. CASE ~s.alive
  <2>1. IsConns(Machines, T!Orphaned(s.conn))
    BY <1>3, LeftBehind
  <2>2. QED
    BY <1>3, <1>4, <1>6, <2>1
<1>7. QED
  BY <1>3, <1>5, <1>6

\* The changes of the table.
LEMMA EntryAdded ==
  ASSUME NEW table, Whole(table), NEW c \in Machines, c \notin Fds(table)
  PROVE  LET t == Append(table, [fd |-> c, name |-> "anonymous"])
         IN  Whole(t) /\ Fds(t) = Fds(table) \cup {c}
<1>1. PICK e, t : e = [fd |-> c, name |-> "anonymous"] /\ t = Append(table, e)
  OBVIOUS
<1>2. e \in ChatEntry /\ e.fd = c /\ e.name = "anonymous"
  BY <1>1 DEF ChatEntry
<1>3. PICK len : len = Len(table)
  OBVIOUS
<1>4. table \in Seq(ChatEntry) /\ len \in Nat /\ DOMAIN table = 1..len
  BY <1>3 DEF Whole
<1>5. /\ t \in Seq(ChatEntry) /\ DOMAIN t = 1..(len + 1) /\ t[len + 1] = e
      /\ \A k \in 1..len : t[k] = table[k]
  BY <1>1, <1>2, <1>3, <1>4
<1>6. ASSUME NEW k \in Used(t)
      PROVE  (k \in Used(table) /\ t[k] = table[k]) \/ (k = len + 1 /\ t[k] = e)
  <2>1. k \in 1..(len + 1) /\ t[k].fd # Chat!NoFd
    BY <1>5 DEF Used
  <2>2. k \in 1..len \/ k = len + 1
    BY <1>4, <2>1
  <2>3. QED
    BY <1>4, <1>5, <2>1, <2>2 DEF Used
<1>7. \A k \in Used(table) : table[k].fd \in Fds(table) /\ table[k].fd # c
  BY DEF Fds
<1>8. Fds(t) = Fds(table) \cup {c}
  <2>1. Fds(t) \subseteq Fds(table) \cup {c}
    BY <1>2, <1>6, <1>7 DEF Fds
  <2>2. len + 1 \in Used(t)
    BY <1>2, <1>4, <1>5, ProgramsAssumption DEF Used, Chat!NoFd
  <2>3. \A k \in Used(table) : k \in Used(t) /\ t[k] = table[k]
    BY <1>4, <1>5 DEF Used
  <2>4. c \in Fds(t)
    <3>1. t[len + 1].fd = c
      BY <1>2, <1>5
    <3>2. QED
      BY <2>2, <3>1 DEF Fds
  <2>5. ASSUME NEW d \in Fds(table) PROVE d \in Fds(t)
    <3>1. PICK l \in Used(table) : d = table[l].fd
      BY DEF Fds
    <3>2. l \in Used(t) /\ d = t[l].fd
      BY <2>3, <3>1
    <3>3. QED
      BY <3>2 DEF Fds
  <2>6. QED
    BY <2>1, <2>4, <2>5
<1>9. ASSUME NEW k \in Used(t), NEW l \in Used(t), k # l
      PROVE  /\ t[k].fd # t[l].fd
             /\ t[k].name = t[l].name => t[k].name = "anonymous"
  BY <1>2, <1>6, <1>7, <1>9 DEF Whole
<1>10. QED
  BY <1>1, <1>5, <1>8, <1>9 DEF Whole

\* An entry that is given up leaves the other clients in a whole table.
LEMMA EntryRemoved ==
  ASSUME NEW table, Whole(table), NEW k \in Used(table)
  PROVE  LET t == [table EXCEPT ![k].fd = "-1"]
         IN  Whole(t) /\ Fds(t) = Fds(table) \ {table[k].fd}
<1>1. PICK t, e : t = [table EXCEPT ![k].fd = "-1"] /\ e = [table[k] EXCEPT !.fd = "-1"]
  OBVIOUS
<1>2. table \in Seq(ChatEntry) /\ k \in DOMAIN table /\ table[k] \in ChatEntry
  BY DEF Whole, Used
<1>3. e \in ChatEntry /\ e.fd = "-1"
  BY <1>1, <1>2 DEF ChatEntry
<1>4. DOMAIN t = DOMAIN table /\ t[k] = e /\ \A l \in DOMAIN table \ {k} : t[l] = table[l]
  BY <1>1, <1>2
<1>5. t = [table EXCEPT ![k] = e]
  BY <1>1
<1>6. t \in Seq(ChatEntry)
  BY <1>2, <1>3, <1>5
<1>7. \A l \in Used(t) : l \in Used(table) /\ l # k /\ t[l] = table[l]
  BY <1>3, <1>4 DEF Used, Chat!NoFd
<1>8. Fds(t) = Fds(table) \ {table[k].fd}
  <2>1. Fds(t) \subseteq Fds(table) \ {table[k].fd}
    BY <1>7 DEF Fds, Whole
  <2>2. \A l \in Used(table) : l # k => l \in Used(t) /\ t[l] = table[l]
    BY <1>4 DEF Used
  <2>3. ASSUME NEW d \in Fds(table), d # table[k].fd PROVE d \in Fds(t)
    <3>1. PICK l \in Used(table) : d = table[l].fd
      BY DEF Fds
    <3>2. l \in Used(t) /\ d = t[l].fd
      BY <2>2, <2>3, <3>1
    <3>3. QED
      BY <3>2 DEF Fds
  <2>4. QED
    BY <2>1, <2>3
<1>9. ASSUME NEW j \in Used(t), NEW l \in Used(t), j # l
      PROVE  /\ t[j].fd # t[l].fd
             /\ t[j].name = t[l].name => t[j].name = "anonymous"
  BY <1>7, <1>9 DEF Whole
<1>10. QED
  BY <1>1, <1>6, <1>8, <1>9 DEF Whole

\* A name that nobody else has leaves the table whole and its clients in it.
LEMMA EntryRenamed ==
  ASSUME NEW table, Whole(table), NEW k \in Used(table), NEW name \in ChatNames,
         \A l \in Used(table) : l # k => table[l].name # name
  PROVE  LET t == [table EXCEPT ![k].name = name]
         IN  Whole(t) /\ Fds(t) = Fds(table)
<1>1. PICK t, e : t = [table EXCEPT ![k].name = name] /\ e = [table[k] EXCEPT !.name = name]
  OBVIOUS
<1>2. table \in Seq(ChatEntry) /\ k \in DOMAIN table /\ table[k] \in ChatEntry
  BY DEF Whole, Used
<1>3. e \in ChatEntry /\ e.name = name /\ e.fd = table[k].fd
  BY <1>1, <1>2 DEF ChatEntry
<1>4. DOMAIN t = DOMAIN table /\ t[k] = e /\ \A l \in DOMAIN table \ {k} : t[l] = table[l]
  BY <1>1, <1>2
<1>5. t = [table EXCEPT ![k] = e]
  BY <1>1
<1>6. t \in Seq(ChatEntry)
  BY <1>2, <1>3, <1>5
<1>7. \A l \in Used(t) : l \in Used(table) /\ t[l].fd = table[l].fd /\ (l # k => t[l] = table[l])
  BY <1>3, <1>4 DEF Used
<1>8. Fds(t) = Fds(table)
  <2>1. Fds(t) \subseteq Fds(table)
    BY <1>7 DEF Fds
  <2>2. \A l \in Used(table) : l \in Used(t) /\ t[l].fd = table[l].fd
    BY <1>3, <1>4 DEF Used
  <2>3. ASSUME NEW d \in Fds(table) PROVE d \in Fds(t)
    <3>1. PICK l \in Used(table) : d = table[l].fd
      BY DEF Fds
    <3>2. l \in Used(t) /\ d = t[l].fd
      BY <2>2, <3>1
    <3>3. QED
      BY <3>2 DEF Fds
  <2>4. QED
    BY <2>1, <2>3
<1>9. ASSUME NEW j \in Used(t), NEW l \in Used(t), j # l
      PROVE  /\ t[j].fd # t[l].fd
             /\ t[j].name = t[l].name => t[j].name = "anonymous"
  BY <1>3, <1>4, <1>7, <1>9 DEF Whole
<1>10. QED
  BY <1>1, <1>6, <1>8, <1>9, ZenonT(60) DEF Whole

\* The clients in the table.
LEMMA TableFds ==
  ASSUME NEW table, Whole(table)
  PROVE  /\ \A k \in Used(table) : table[k].fd \in Machines /\ table[k].fd \in Fds(table)
         /\ Fds(table) \subseteq Machines
         /\ \E len \in Nat : len = Len(table) /\ DOMAIN table = 1..len
         /\ Used(table) = {k \in 1..Len(table) : table[k].fd # "-1"}
<1>1. table \in Seq(ChatEntry) /\ DOMAIN table = 1..Len(table) /\ Len(table) \in Nat
  BY DEF Whole
<1>2. ASSUME NEW k \in Used(table) PROVE table[k].fd \in Machines
  <2>1. PICK e : e = table[k]
    OBVIOUS
  <2>2. e \in ChatEntry /\ e.fd # "-1"
    BY <1>1, <2>1 DEF Used, Chat!NoFd
  <2>3. QED
    BY <2>1, <2>2 DEF ChatEntry
<1>3. QED
  BY <1>1, <1>2 DEF Fds, Used, Chat!NoFd

\* What hw1's server writes goes to clients in the table.
LEMMA ToAllWrites ==
  ASSUME NEW table, Whole(table), NEW cells
  PROVE  IsWrites(Machines, Chat!ToAll(table, cells))
<1>1. PICK len \in Nat : len = Len(table) /\ DOMAIN table = 1..len
  BY TableFds
<1>2. PICK w : w = [k \in DOMAIN table |-> [to |-> table[k].fd, cell |-> cells[k]]]
  OBVIOUS
<1>3. \A k \in Used(table) : w[k] = [to |-> table[k].fd, cell |-> cells[k]]
  BY <1>2 DEF Used
<1>4. ASSUME NEW k \in Used(table)
      PROVE  w[k] = [to |-> w[k].to, cell |-> w[k].cell] /\ w[k].to \in Machines
  <2>1. PICK a, b, x : a = table[k].fd /\ b = cells[k] /\ x = w[k]
    OBVIOUS
  <2>2. x = [to |-> a, cell |-> b] /\ a \in Machines
    BY <1>3, <2>1, TableFds
  <2>3. QED
    BY <2>1, <2>2
<1>5. IsWrites(Machines, Chat!ForLive(table, w))
  BY <1>1, <1>4, LoopWrites
<1>6. QED
  BY <1>2, <1>5 DEF Chat!ToAll

\* The answer to who goes to a client of the table, row by row.
LEMMA WhoWrites ==
  ASSUME Whole(fd_array), NEW k \in Used(fd_array)
  PROVE  IsWrites(Machines, Chat!Who(k))
<1>1. PICK len \in Nat : len = Len(fd_array) /\ DOMAIN fd_array = 1..len
  BY TableFds
<1>2. PICK w : w = [j \in 1..len |->
                     [to |-> fd_array[k].fd,
                      cell |-> [t |-> "row", name |-> fd_array[j].name, me |-> j = k]]]
  OBVIOUS
<1>3. fd_array[k].fd \in Machines
  BY TableFds
<1>5. ASSUME NEW j \in Used(fd_array)
      PROVE  w[j] = [to |-> w[j].to, cell |-> w[j].cell] /\ w[j].to \in Machines
  <2>1. PICK a, b, x : /\ a = fd_array[k].fd /\ x = w[j]
                      /\ b = [t |-> "row", name |-> fd_array[j].name, me |-> j = k]
    OBVIOUS
  <2>2. w[j] = [to |-> fd_array[k].fd,
                cell |-> [t |-> "row", name |-> fd_array[j].name, me |-> j = k]]
    BY <1>1, <1>2 DEF Used
  <2>3. x = [to |-> a, cell |-> b] /\ a \in Machines
    BY <1>3, <2>1, <2>2
  <2>4. QED
    BY <2>1, <2>3
<1>6. IsWrites(Machines, Chat!ForLive(fd_array, w))
  BY <1>1, <1>5, LoopWrites
<1>7. QED
  BY <1>1, <1>2, <1>6 DEF Chat!Who, Chat!Slots

\* What name writes goes to clients of the table, refused or not.
LEMMA RenameWrites ==
  ASSUME Whole(fd_array), NEW k \in Used(fd_array), NEW name
  PROVE  IsWrites(Machines, Chat!Rename(k, name))
<1>1. \A cells : IsWrites(Machines, Chat!ToAll(fd_array, cells))
  BY ToAllWrites
<1>2. \A cell : IsWrites(Machines, <<[to |-> fd_array[k].fd, cell |-> cell]>>)
  BY TableFds, FewWrites
<1>3. QED
  BY <1>1, <1>2, Zenon DEF Chat!Rename, Chat!ToOne

\* What tell writes goes to the two clients of the message, or to the asking one.
LEMMA TellWrites ==
  ASSUME Whole(fd_array), NEW k \in Used(fd_array), NEW name, NEW text
  PROVE  IsWrites(Machines, Chat!Tell(k, name, text))
<1>1. PICK A : A = Chat!Addressees(name)
  OBVIOUS
<1>2. Chat!LiveSlots = Used(fd_array)
  BY TableFds DEF Chat!LiveSlots, Chat!Slots, Chat!IsLive, Chat!NoFd
<1>3. A \subseteq Used(fd_array) /\ A \in SUBSET Nat
  <2>1. Used(fd_array) \subseteq Nat
    BY TableFds DEF Used
  <2>2. QED
    BY <1>1, <1>2, <2>1 DEF Chat!Addressees
<1>4. \A cell : IsWrites(Machines, Chat!ToOne(fd_array[k].fd, cell))
  BY TableFds, FewWrites DEF Chat!ToOne
<1>5. CASE A # {}
  <2>1. PICK a : a = CHOOSE j \in A : \A l \in A : j <= l
    OBVIOUS
  <2>2. a \in A
    BY <1>3, <1>5, <2>1, Least
  <2>3. fd_array[a].fd \in Machines /\ fd_array[k].fd \in Machines
    BY <1>3, <2>2, TableFds
  <2>4. \A x, y : IsWrites(Machines, Chat!ToOne(fd_array[k].fd, x) \o Chat!ToOne(fd_array[a].fd, y))
    BY <2>3, FewWrites DEF Chat!ToOne
  <2>5. QED
    BY <1>1, <1>4, <2>1, <2>4, Zenon DEF Chat!Tell
<1>6. CASE A = {}
  BY <1>1, <1>4, <1>6, Zenon DEF Chat!Tell
<1>7. QED
  BY <1>5, <1>6

\* The parts of Tcp that hw1's programs use.
LEMMA SameHangs ==
  ASSUME NEW k
  PROVE  /\ Chat!Accepted(k) = T!Accepted(k) /\ Chat!HungUp(k) = T!Closed(T!Taken(k, 0))
         /\ \A m : Chat!Taken(k, m) = T!Taken(k, m)
         /\ \A cell : Chat!Sent(k, cell) = T!Sent(k, cell)
         /\ Chat!AtExit(k) = T!HalfClosed(k) /\ Chat!Gone(k) = T!Gone(k)
         /\ Chat!ReadRest(k) = T!ReadRest(k)
         /\ Chat!Dialled = T!Dialled /\ Chat!NoConn = T!NoConn
BY DEF Chat!Accepted, T!Accepted, Chat!HungUp, Chat!Closed, T!Closed, Chat!Taken, T!Taken,
       Chat!Sent, T!Sent, Chat!AtExit, Chat!HalfClosed, T!HalfClosed, Chat!Gone, T!Gone,
       Chat!ReadRest, T!ReadRest, Chat!Dialled, T!Dialled, Chat!NoConn, T!NoConn

\* A handler changes the connection it is about to j and writes ws.
LEMMA ChatTurn ==
  ASSUME ChatInv, NEW C, conn \in Conns(Machines, C), NEW c \in Machines,
         NEW E, NEW j \in T!Connection(E), NEW ws, IsWrites(Machines, ws),
         conn[c].err = "none" /\ conn[c].client # "gone" => j.err = "none" /\ j.client # "gone",
         Chat!Answer([conn EXCEPT ![c] = j], ws)
  PROVE  /\ IsConns(Machines, conn') /\ alive' \in BOOLEAN
         /\ alive' => SameEnds(j, conn'[c]) /\ \A d \in Machines \ {c} : SameEnds(conn[d], conn'[d])
         /\ killed = 0 => alive' /\ AllWell(conn')
<1>1. PICK conns : conns = [conn EXCEPT ![c] = j]
  OBVIOUS
<1>2. IsConns(Machines, conns)
  BY <1>1, OneChanges
<1>3. DOMAIN conn = Machines
  BY DEF Conns
<1>4. DOMAIN conns = Machines /\ conns[c] = j /\ \A d \in Machines \ {c} : conns[d] = conn[d]
  BY <1>1, <1>3
<1>5. AllWell(conn) => AllWell(conns)
  BY <1>3, <1>4 DEF AllWell
<1>6. /\ IsConns(Machines, conn') /\ alive' \in BOOLEAN
      /\ alive' => \A d \in Machines : SameEnds(conns[d], conn'[d])
      /\ AllWell(conns) => alive' /\ AllWell(conn')
  BY <1>1, <1>2, ChatAnswers
<1>7. QED
  BY <1>4, <1>5, <1>6 DEF ChatInv

\* The parts of the invariant after a step, put together.
LEMMA ChatKept ==
  ASSUME ChatInv, IsConns(Machines, conn'), Whole(fd_array'), alive' \in BOOLEAN,
         killed' = killed, killed = 0 => alive' /\ AllWell(conn'),
         alive' => \A d \in Machines : Listed(conn'[d], d, Fds(fd_array)')
  PROVE  ChatInv'
<1>1. AllWell(conn') <=> AllWell(conn)'
  BY DEF AllWell
<1>2. IsConns(Machines, conn') <=> IsConns(Machines, conn)'
  BY DEF IsConns, Conns, T!Connection
<1>3. Whole(fd_array)'
  BY DEF Whole, Used, ChatEntry
<1>4. killed' \in Nat
  BY DEF ChatInv
<1>5. alive' => \A d \in Machines : Listed(conn[d], d, Fds(fd_array))'
  BY DEF Listed
<1>6. QED
  BY <1>1, <1>2, <1>3, <1>4, <1>5 DEF ChatInv

\* The server's steps.
LEMMA ChatAccepts ==
  ASSUME ChatInv, Chat!Accept
  PROVE  ChatInv'
<1>1. PICK C : conn \in Conns(Machines, C)
  BY DEF ChatInv, IsConns
<1>2. PICK c \in Machines :
        /\ conn[c].server = "queue"
        /\ fd_array' = Append(fd_array, Chat!NewEntry(c))
        /\ Chat!Answer([conn EXCEPT ![c] = Chat!Accepted(@)],
                       Chat!Hello(fd_array', Len(fd_array')))
  BY DEF Chat!Accept
<1>3. alive /\ killed' = killed
  BY DEF Chat!Accept
<1>4. DOMAIN conn = Machines /\ conn[c] \in T!Connection(C)
  BY <1>1 DEF Conns
<1>5. c \notin Fds(fd_array) /\ conn[c].client # "off"
  BY <1>2, <1>3 DEF ChatInv, Listed
<1>6. Whole(fd_array') /\ Fds(fd_array)' = Fds(fd_array) \cup {c}
  <2>1. PICK t : t = Append(fd_array, [fd |-> c, name |-> "anonymous"])
    OBVIOUS
  <2>2. Whole(t) /\ Fds(t) = Fds(fd_array) \cup {c}
    BY <1>5, <2>1, EntryAdded DEF ChatInv
  <2>3. fd_array' = t
    BY <1>2, <2>1 DEF Chat!NewEntry, Chat!Anonymous
  <2>4. Fds(fd_array)' = Fds(t) /\ Whole(fd_array')
    BY <2>2, <2>3 DEF Fds, Used
  <2>5. QED
    BY <2>2, <2>4
<1>7. PICK j : j = T!Accepted(conn[c])
  OBVIOUS
<1>8. /\ j \in T!Connection(C) /\ j.server = "open"
      /\ j.err = conn[c].err /\ j.client = conn[c].client
  <2>1. PICK k : k = conn[c]
    OBVIOUS
  <2>2. j \in T!Connection(C)
    BY <1>4, <1>7, Hangs
  <2>3. k = [up |-> k.up, down |-> k.down, client |-> k.client, server |-> k.server, err |-> k.err]
    BY <1>4, <2>1 DEF T!Connection
  <2>4. j.server = "open" /\ j.err = k.err /\ j.client = k.client
    BY <1>7, <2>1, <2>3 DEF T!Accepted
  <2>5. QED
    BY <2>1, <2>2, <2>4
<1>9. PICK ws : ws = Chat!Hello(fd_array', Len(fd_array'))
  OBVIOUS
<1>10. IsWrites(Machines, ws)
  <2>1. PICK t, l : t = fd_array' /\ l = Len(fd_array')
    OBVIOUS
  <2>2. \A cells : IsWrites(Machines, Chat!ToAll(t, cells))
    BY <1>6, <2>1, ToAllWrites
  <2>3. ws = Chat!Hello(t, l)
    BY <1>9, <2>1
  <2>4. QED
    BY <2>2, <2>3 DEF Chat!Hello
<1>11. [conn EXCEPT ![c] = Chat!Accepted(@)] = [conn EXCEPT ![c] = j]
  BY <1>4, <1>7, SameHangs
<1>12. Chat!Answer([conn EXCEPT ![c] = j], ws)
  BY <1>2, <1>9, <1>11
<1>13. /\ IsConns(Machines, conn') /\ alive' \in BOOLEAN
       /\ alive' => SameEnds(j, conn'[c]) /\ \A d \in Machines \ {c} : SameEnds(conn[d], conn'[d])
       /\ killed = 0 => alive' /\ AllWell(conn')
  BY <1>1, <1>8, <1>10, <1>12, ChatTurn
<1>14. alive' => \A d \in Machines : Listed(conn'[d], d, Fds(fd_array)')
  BY <1>3, <1>5, <1>6, <1>8, <1>13 DEF ChatInv, Listed, SameEnds
<1>15. QED
  BY <1>3, <1>6, <1>13, <1>14, ChatKept

\* A client that hangs up or left is forgotten before its turn ends.
LEMMA ChatLeaves ==
  ASSUME ChatInv, NEW k \in Chat!Slots, Chat!Leave(k)
  PROVE  ChatInv'
<1>1. PICK C : conn \in Conns(Machines, C)
  BY DEF ChatInv, IsConns
<1>2. PICK c : c = fd_array[k].fd
  OBVIOUS
<1>3. /\ alive /\ killed' = killed /\ k \in Chat!LiveSlots /\ fd_array' = Chat!Removed(k)
      /\ Chat!Answer([conn EXCEPT ![c] = Chat!HungUp(@)], Chat!Logout(fd_array', k))
  BY <1>2 DEF Chat!Leave, Chat!Turn
<1>4. k \in Used(fd_array) /\ c \in Machines /\ c \in Fds(fd_array)
  <2>1. k \in Used(fd_array)
    BY <1>3, TableFds DEF ChatInv, Chat!LiveSlots, Chat!Slots, Chat!IsLive, Chat!NoFd
  <2>2. QED
    BY <1>2, <2>1, TableFds DEF ChatInv
<1>5. DOMAIN conn = Machines /\ conn[c] \in T!Connection(C)
  BY <1>1, <1>4 DEF Conns
<1>6. Whole(fd_array') /\ Fds(fd_array)' = Fds(fd_array) \ {c}
  <2>1. PICK t : t = [fd_array EXCEPT ![k].fd = "-1"]
    OBVIOUS
  <2>2. Whole(t) /\ Fds(t) = Fds(fd_array) \ {c}
    BY <1>2, <1>4, <2>1, EntryRemoved DEF ChatInv
  <2>3. fd_array' = t
    BY <1>3, <2>1 DEF Chat!Removed, Chat!NoFd
  <2>4. Fds(fd_array)' = Fds(t) /\ Whole(fd_array')
    BY <2>2, <2>3 DEF Fds, Used
  <2>5. QED
    BY <2>2, <2>4
<1>7. PICK k0, k1, j : k0 = conn[c] /\ k1 = T!Taken(k0, 0) /\ j = T!Closed(k1)
  OBVIOUS
<1>8. /\ j \in T!Connection(C) /\ j.server \notin {"queue", "open"}
      /\ conn[c].err = "none" /\ conn[c].client # "gone" => j.err = "none" /\ j.client # "gone"
  <2>1. k0 \in T!Connection(C) /\ 0 \in Nat /\ 0 <= Len(k0.up)
    BY <1>5, <1>7 DEF T!Connection
  <2>2. k1 \in T!Connection(C)
    BY <1>7, <2>1, Hangs
  <2>3. j \in T!Connection(C)
    BY <1>7, <2>2, Hangs
  <2>4. k0 = [up |-> k0.up, down |-> k0.down, client |-> k0.client, server |-> k0.server,
              err |-> k0.err]
    BY <2>1 DEF T!Connection
  <2>5. k0.err = "none" => k1.err = "none" /\ k1.client = k0.client
    BY <1>7, <2>4 DEF T!Taken
  <2>6. k1 = [up |-> k1.up, down |-> k1.down, client |-> k1.client, server |-> k1.server,
              err |-> k1.err]
    BY <2>2 DEF T!Connection
  <2>7. k1.client # "gone" => j.err = k1.err /\ j.client = k1.client
    BY <1>7, <2>6 DEF T!Closed
  <2>8. j.server \notin {"queue", "open"}
    BY <1>7, <2>6 DEF T!Closed, T!NoConn
  <2>9. QED
    BY <1>7, <2>3, <2>5, <2>7, <2>8
<1>9. PICK ws : ws = Chat!Logout(fd_array', k)
  OBVIOUS
<1>10. IsWrites(Machines, ws)
  <2>1. PICK t : t = fd_array'
    OBVIOUS
  <2>2. \A cells : IsWrites(Machines, Chat!ToAll(t, cells))
    BY <1>6, <2>1, ToAllWrites
  <2>3. ws = Chat!Logout(t, k)
    BY <1>9, <2>1
  <2>4. QED
    BY <2>2, <2>3 DEF Chat!Logout
<1>11. [conn EXCEPT ![c] = Chat!HungUp(@)] = [conn EXCEPT ![c] = j]
  BY <1>5, <1>7, SameHangs
<1>12. Chat!Answer([conn EXCEPT ![c] = j], ws)
  BY <1>3, <1>9, <1>11
<1>13. /\ IsConns(Machines, conn') /\ alive' \in BOOLEAN
       /\ alive' => SameEnds(j, conn'[c]) /\ \A d \in Machines \ {c} : SameEnds(conn[d], conn'[d])
       /\ killed = 0 => alive' /\ AllWell(conn')
  BY <1>1, <1>4, <1>8, <1>10, <1>12, ChatTurn
<1>14. alive' => \A d \in Machines : Listed(conn'[d], d, Fds(fd_array)')
  BY <1>3, <1>6, <1>8, <1>13 DEF ChatInv, Listed, SameEnds
<1>15. QED
  BY <1>3, <1>6, <1>13, <1>14, ChatKept

\* processInput.
LEMMA ChatInputs ==
  ASSUME ChatInv, NEW k \in Chat!Slots, Chat!Input(k)
  PROVE  ChatInv'
<1>1. PICK C : conn \in Conns(Machines, C)
  BY DEF ChatInv, IsConns
<1>2. PICK c : c = fd_array[k].fd
  OBVIOUS
<1>3. PICK m \in 1..Len(conn[c].up) : Chat!Process(k, m)
  BY <1>2 DEF Chat!Input
<1>4. alive /\ k \in Chat!LiveSlots /\ killed' = killed
  BY <1>3 DEF Chat!Input, Chat!Turn, Chat!Process
<1>5. Chat!LiveSlots = Used(fd_array) /\ Whole(fd_array)
  BY TableFds DEF ChatInv, Chat!LiveSlots, Chat!Slots, Chat!IsLive, Chat!NoFd
<1>6. k \in Used(fd_array) /\ c \in Machines
  BY <1>2, <1>4, <1>5, TableFds
<1>7. DOMAIN conn = Machines /\ conn[c] \in T!Connection(C)
  BY <1>1, <1>6 DEF Conns
<1>8. PICK text : text = Head(conn[c].up)
  OBVIOUS
<1>9. PICK ws : ws = CASE text.cmd = "who"  -> Chat!Who(k)
                       [] text.cmd = "name" -> Chat!Rename(k, text.name)
                       [] text.cmd = "tell" -> Chat!Tell(k, text.name, text.text)
                       [] text.cmd = "yell" -> Chat!Yell(k, text.text)
                       [] OTHER             -> Chat!ToOne(c, [t |-> "error"])
  OBVIOUS
<1>10. /\ fd_array' = IF text.cmd = "name" /\ Chat!ValidName(k, text.name)
                       THEN [fd_array EXCEPT ![k].name = text.name] ELSE fd_array
       /\ Chat!Answer([conn EXCEPT ![c] = Chat!Taken(@, m)], ws)
  BY <1>2, <1>3, <1>8, <1>9 DEF Chat!Process
<1>11. IsWrites(Machines, ws)
  <2>1. IsWrites(Machines, Chat!Who(k))
    BY <1>5, <1>6, WhoWrites
  <2>2. IsWrites(Machines, Chat!Rename(k, text.name))
    BY <1>5, <1>6, RenameWrites
  <2>3. IsWrites(Machines, Chat!Tell(k, text.name, text.text))
    BY <1>5, <1>6, TellWrites
  <2>4. IsWrites(Machines, Chat!Yell(k, text.text))
    BY <1>5, ToAllWrites DEF Chat!Yell
  <2>5. IsWrites(Machines, Chat!ToOne(c, [t |-> "error"]))
    BY <1>6, FewWrites DEF Chat!ToOne
  <2>6. QED
    BY <1>9, <2>1, <2>2, <2>3, <2>4, <2>5
<1>12. Whole(fd_array') /\ Fds(fd_array)' = Fds(fd_array)
  <2>1. CASE text.cmd = "name" /\ Chat!ValidName(k, text.name)
    <3>1. PICK t, name : name = text.name /\ t = [fd_array EXCEPT ![k].name = name]
      OBVIOUS
    <3>2. name \in ChatNames /\ \A l \in Used(fd_array) : l # k => fd_array[l].name # name
      BY <1>5, <2>1, <3>1 DEF Chat!ValidName, Chat!IsTaken
    <3>3. Whole(t) /\ Fds(t) = Fds(fd_array)
      <4>1. /\ Whole([fd_array EXCEPT ![k].name = name])
            /\ Fds([fd_array EXCEPT ![k].name = name]) = Fds(fd_array)
        BY <1>5, <1>6, <3>2, EntryRenamed
      <4>2. QED
        BY <3>1, <4>1, Zenon
    <3>4. fd_array' = t
      BY <1>10, <2>1, <3>1
    <3>5. Fds(fd_array)' = Fds(t) /\ Whole(fd_array')
      BY <3>3, <3>4 DEF Fds, Used
    <3>6. QED
      BY <3>3, <3>5
  <2>2. CASE ~(text.cmd = "name" /\ Chat!ValidName(k, text.name))
    <3>1. fd_array' = fd_array
      BY <1>10, <2>2
    <3>2. Fds(fd_array)' = Fds(fd_array)
      BY <3>1 DEF Fds, Used
    <3>3. QED
      BY <1>5, <3>1, <3>2
  <2>3. QED
    BY <2>1, <2>2
<1>13. PICK k0, j : k0 = conn[c] /\ j = T!Taken(k0, m)
  OBVIOUS
<1>14. /\ j \in T!Connection(C) /\ j.server = conn[c].server /\ j.client = conn[c].client
       /\ conn[c].err = "none" /\ conn[c].client # "gone" => j.err = "none" /\ j.client # "gone"
  <2>1. k0 \in T!Connection(C) /\ m \in Nat /\ m # 0 /\ m <= Len(k0.up)
    BY <1>7, <1>13
  <2>2. j \in T!Connection(C)
    BY <1>13, <2>1, Hangs
  <2>3. k0 = [up |-> k0.up, down |-> k0.down, client |-> k0.client, server |-> k0.server,
              err |-> k0.err]
    BY <2>1 DEF T!Connection
  <2>4. j.server = k0.server /\ j.client = k0.client /\ j.err = k0.err
    BY <1>13, <2>1, <2>3 DEF T!Taken
  <2>5. QED
    BY <1>13, <2>2, <2>4
<1>15. [conn EXCEPT ![c] = Chat!Taken(@, m)] = [conn EXCEPT ![c] = j]
  BY <1>7, <1>13, SameHangs
<1>16. Chat!Answer([conn EXCEPT ![c] = j], ws)
  BY <1>10, <1>15
<1>17. /\ IsConns(Machines, conn') /\ alive' \in BOOLEAN
       /\ alive' => SameEnds(j, conn'[c]) /\ \A d \in Machines \ {c} : SameEnds(conn[d], conn'[d])
       /\ killed = 0 => alive' /\ AllWell(conn')
  BY <1>1, <1>6, <1>11, <1>14, <1>16, ChatTurn
<1>18. alive' => \A d \in Machines : Listed(conn'[d], d, Fds(fd_array)')
  BY <1>4, <1>12, <1>14, <1>17 DEF ChatInv, Listed, SameEnds
<1>19. QED
  BY <1>4, <1>12, <1>17, <1>18, ChatKept

\* A client's step changes its connection to j.
LEMMA ChatMoves ==
  ASSUME ChatInv, NEW C, conn \in Conns(Machines, C), NEW c \in Machines,
         NEW E, NEW j \in T!Connection(E), Chat!ClientMoves(c, j),
         j.server = "open" <=> conn[c].server = "open",
         j.server \in {"queue", "open"} => j.client # "off",
         \/ killed' = killed + 1
         \/ /\ killed' = killed
            /\ conn[c].err = "none" /\ conn[c].client # "gone" =>
                 j.err = "none" /\ j.client # "gone"
  PROVE  ChatInv'
<1>1. /\ conn' = [conn EXCEPT ![c] = j] /\ fd_array' = fd_array /\ alive' = alive
      /\ DOMAIN conn = Machines /\ killed \in Nat
  BY DEF Chat!ClientMoves, Conns, ChatInv
<1>2. conn'[c] = j /\ (\A d \in Machines \ {c} : conn'[d] = conn[d]) /\ DOMAIN conn' = Machines
  BY <1>1
<1>3. IsConns(Machines, conn')
  BY <1>1, OneChanges
<1>4. Whole(fd_array') /\ Fds(fd_array)' = Fds(fd_array)
  BY <1>1 DEF ChatInv, Fds, Used
<1>5. alive' => \A d \in Machines : Listed(conn'[d], d, Fds(fd_array)')
  BY <1>1, <1>2, <1>4 DEF ChatInv, Listed
<1>6. CASE killed' = killed
  <2>1. killed = 0 => alive' /\ AllWell(conn')
    BY <1>1, <1>2, <1>6 DEF ChatInv, AllWell
  <2>2. QED
    BY <1>1, <1>3, <1>4, <1>5, <1>6, <2>1, ChatKept DEF ChatInv
<1>7. CASE killed' = killed + 1
  <2>1. IsConns(Machines, conn') <=> IsConns(Machines, conn)'
    BY DEF IsConns, Conns, T!Connection
  <2>2. Whole(fd_array)'
    BY <1>4 DEF Whole, Used, ChatEntry
  <2>3. killed' \in Nat /\ killed' # 0 /\ alive' \in BOOLEAN
    BY <1>1, <1>7 DEF ChatInv
  <2>4. alive' => \A d \in Machines : Listed(conn[d], d, Fds(fd_array))'
    BY <1>5 DEF Listed
  <2>5. QED
    BY <1>3, <2>1, <2>2, <2>3, <2>4 DEF ChatInv
<1>8. QED
  BY <1>6, <1>7

\* The clients' steps.
LEMMA ChatClients ==
  ASSUME ChatInv, NEW c \in Machines, Chat!Client(c)
  PROVE  ChatInv'
<1>1. PICK C : conn \in Conns(Machines, C)
  BY DEF ChatInv, IsConns
<1>2. PICK k : k = conn[c]
  OBVIOUS
<1>3. k \in T!Connection(C)
  BY <1>1, <1>2 DEF Conns
<1>4. k = [up |-> k.up, down |-> k.down, client |-> k.client, server |-> k.server, err |-> k.err]
  BY <1>3 DEF T!Connection
<1>5. CASE Chat!Dial(c)
  <2>1. PICK j : j = T!Dialled
    OBVIOUS
  <2>2. /\ j \in T!Connection(C) /\ j.err = "none" /\ j.client = "on" /\ j.server = "queue"
        /\ k.server = "none"
    <3>1. j \in T!Connection(C)
      BY <2>1, <1>3, Hangs
    <3>2. k = Chat!NoConn
      BY <1>2, <1>5 DEF Chat!Dial
    <3>3. k.server = "none"
      BY <3>2 DEF Chat!NoConn
    <3>4. j.err = "none" /\ j.client = "on" /\ j.server = "queue"
      BY <2>1 DEF T!Dialled, T!NoConn
    <3>5. QED
      BY <3>1, <3>3, <3>4
  <2>3. Chat!ClientMoves(c, j) /\ killed' = killed
    BY <1>5, <2>1, SameHangs DEF Chat!Dial
  <2>4. QED
    BY <1>1, <1>2, <2>2, <2>3, ChatMoves
<1>6. CASE \E text \in ChatLines : Chat!TypeLine(c, text)
  <2>1. PICK text \in ChatLines : Chat!TypeLine(c, text)
    BY <1>6
  <2>2. PICK j : j = T!Sent(k, text)
    OBVIOUS
  <2>3. j \in T!Connection(C \cup {text})
    BY <1>3, <2>2, SendsLine
  <2>4. j.server = k.server /\ j.err = k.err /\ j.client = k.client
    BY <1>4, <2>2 DEF T!Sent
  <2>5. Chat!ClientMoves(c, j) /\ killed' = killed /\ k.client = "on"
    BY <1>2, <2>1, <2>2, SameHangs DEF Chat!TypeLine
  <2>6. QED
    BY <1>1, <1>2, <2>3, <2>4, <2>5, ChatMoves
<1>7. CASE Chat!Exit(c)
  <2>1. PICK j : j = T!HalfClosed(k)
    OBVIOUS
  <2>2. j \in T!Connection(C)
    BY <1>3, <2>1, Hangs
  <2>3. j.server = k.server /\ j.err = k.err /\ j.client = "half"
    BY <1>4, <2>1 DEF T!HalfClosed
  <2>4. Chat!ClientMoves(c, j) /\ killed' = killed
    BY <1>2, <1>7, <2>1, SameHangs DEF Chat!Exit
  <2>5. QED
    BY <1>1, <1>2, <2>2, <2>3, <2>4, ChatMoves
<1>8. CASE Chat!Read(c)
  <2>1. PICK j : j = T!ReadRest(k)
    OBVIOUS
  <2>2. k.down # <<>>
    BY <1>2, <1>8 DEF Chat!Read, Chat!HasAnswer
  <2>3. j \in T!Connection(C)
    BY <1>3, <2>1, <2>2, Hangs
  <2>4. j.server = k.server /\ j.err = k.err /\ j.client = k.client
    BY <1>4, <2>1 DEF T!ReadRest
  <2>5. Chat!ClientMoves(c, j) /\ killed' = killed /\ k.client # "off"
    BY <1>2, <1>8, <2>1, SameHangs DEF Chat!Read, Chat!HasAnswer
  <2>6. QED
    BY <1>1, <1>2, <2>3, <2>4, <2>5, ChatMoves
<1>9. CASE Chat!End(c)
  <2>1. PICK j : j = T!NoConn
    OBVIOUS
  <2>2. /\ j \in T!Connection(C) /\ j.err = "none" /\ j.client = "off" /\ j.server = "none"
        /\ k.server = "closed"
    BY <1>2, <1>3, <1>9, <2>1, Hangs DEF T!NoConn, Chat!End, Chat!SeesEnd
  <2>3. Chat!ClientMoves(c, j) /\ killed' = killed
    BY <1>9, <2>1, SameHangs DEF Chat!End
  <2>4. QED
    BY <1>1, <1>2, <2>2, <2>3, ChatMoves
<1>10. CASE Chat!Kill(c)
  <2>1. PICK j : j = T!Gone(k)
    OBVIOUS
  <2>2. j \in T!Connection(C)
    BY <1>3, <2>1, Hangs
  <2>3. /\ j.server = "open" <=> k.server = "open"
        /\ j.server \in {"queue", "open"} => j.client # "off"
    BY <1>4, <2>1 DEF T!Gone, T!NoConn
  <2>4. Chat!ClientMoves(c, j) /\ killed' = killed + 1
    BY <1>2, <1>10, <2>1, SameHangs DEF Chat!Kill
  <2>5. QED
    BY <1>1, <1>2, <2>2, <2>3, <2>4, ChatMoves
<1>11. QED
  BY <1>5, <1>6, <1>7, <1>8, <1>9, <1>10 DEF Chat!Client

\* A program that does not move keeps its invariant.
LEMMA ChatStays == ASSUME ChatInv, UNCHANGED <<conn, fd_array, alive, killed>> PROVE ChatInv'
BY DEF ChatInv, IsConns, Conns, T!Connection, Whole, Used, ChatEntry, Fds, AllWell, Listed

\* Every step of hw1 keeps its invariant.
LEMMA ChatGoesOn ==
  ASSUME ChatInv, Chat!Next
  PROVE  ChatInv'
<1>1. CASE Chat!Select \/ Chat!NoFds
  BY <1>1, ChatStays DEF Chat!Select, Chat!NoFds
<1>2. CASE Chat!Accept
  BY <1>2, ChatAccepts
<1>3. CASE \E k \in Chat!Slots : Chat!Leave(k) \/ Chat!Input(k)
  BY <1>3, ChatLeaves, ChatInputs
<1>4. CASE \E c \in Machines : Chat!Client(c)
  BY <1>4, ChatClients
<1>5. QED
  BY <1>1, <1>2, <1>3, <1>4 DEF Chat!Next, Chat!Server

\* Nobody is there in the beginning.
LEMMA ChatBegins == Chat!Init => ChatInv
<1> SUFFICES ASSUME Chat!Init PROVE ChatInv
  OBVIOUS
<1>1. IsConns(Machines, conn)
  <2>1. PICK k : k = T!NoConn
    OBVIOUS
  <2>2. k \in T!Connection({})
    <3>1. k = [up |-> <<>>, down |-> <<>>, client |-> "off", server |-> "none", err |-> "none"]
      BY <2>1 DEF T!NoConn
    <3>2. <<>> \in Seq({})
      OBVIOUS
    <3>3. QED
      BY <3>1, <3>2, Zenon DEF T!Connection
  <2>3. conn \in Conns(Machines, {})
    BY <2>1, <2>2, SameHangs DEF Chat!Init, Conns
  <2>4. QED
    BY <2>3 DEF IsConns
<1>2. fd_array = <<>> /\ alive = TRUE /\ killed = 0
  BY DEF Chat!Init
<1>3. Used(fd_array) = {}
  BY <1>2 DEF Used
<1>4. Whole(fd_array) /\ Fds(fd_array) = {}
  <2>1. fd_array \in Seq(ChatEntry)
    BY <1>2
  <2>2. QED
    BY <1>3, <2>1 DEF Whole, Fds
<1>5. AllWell(conn) /\ \A c \in Machines : conn[c].server = "none"
  BY DEF Chat!Init, AllWell, Chat!NoConn
<1>6. QED
  BY <1>1, <1>2, <1>4, <1>5 DEF ChatInv, Listed

\* The invariant of the program, whichever runs.
LEMMA ChatAlways == MCSpec => [](Runs("hw1") => ChatInv)
<1> DEFINE Inv == Runs("hw1") => ChatInv
<1>1. MCInit => Inv
  BY ProgramInit, ChatBegins
<1>2. Inv /\ [MCNext]_allVars => Inv'
  <2> SUFFICES ASSUME Inv, [MCNext]_allVars, Runs("hw1")' PROVE ChatInv'
    OBVIOUS
  <2>1. CASE MCNext
    BY <2>1, ProgramNext, ChatGoesOn
  <2>2. CASE UNCHANGED allVars
    <3>1. UNCHANGED <<conn, fd_array, alive, killed>> /\ program' = program
      BY <2>2 DEF allVars, socketVars, tableVars
    <3>2. QED
      BY <3>1, ChatStays DEF Runs
  <2>3. QED
    BY <2>1, <2>2
<1>3. QED
  BY <1>1, <1>2, PTL DEF MCSpec

\* No two clients in hw1's table have the same name, except anonymous, and no two
\* entries are the same connection: however many clients there are, whatever they
\* type, and whoever leaves or is killed between two steps (processRename, main).
THEOREM NamesAreUnique == MCSpec => []UniqueNames
<1>1. ChatInv => Chat!NamesUnique
  <2> SUFFICES ASSUME ChatInv PROVE Chat!NamesUnique
    OBVIOUS
  <2>1. Chat!LiveSlots = Used(fd_array)
    BY TableFds DEF ChatInv, Chat!LiveSlots, Chat!Slots, Chat!IsLive, Chat!NoFd
  <2>2. QED
    BY <2>1 DEF ChatInv, Whole, Chat!NamesUnique, Chat!Anonymous
<1>2. (Runs("hw1") => ChatInv) => UniqueNames
  BY <1>1 DEF UniqueNames
<1>3. QED
  BY <1>2, ChatAlways, PTL

\* As long as every client that goes says exit, no write of hw1's server meets a
\* reset connection, so it is not ended by SIGPIPE (client.cpp's shutdown(SHUT_WR)).
THEOREM ExitEndsNoServer == MCSpec => []ExitIsHarmless
<1>1. ChatInv => Chat!ServerDiesOnlyByKill
  BY DEF ChatInv, Chat!ServerDiesOnlyByKill
<1>2. (Runs("hw1") => ChatInv) => ExitIsHarmless
  BY <1>1 DEF ExitIsHarmless
<1>3. QED
  BY <1>2, ChatAlways, PTL

\* When hw1's server sleeps in select nobody is left over: every connection that waits
\* or is open belongs to a client that may still type, and all its lines were read
\* (the round over the snapshot of select, the removal of who hung up).
THEOREM NobodyIsLeftOver == MCSpec => []NobodyIsForgotten
<1>1. ChatInv => Chat!NobodyForgotten
  <2> SUFFICES ASSUME ChatInv, alive, Chat!Ready = {}, NEW c \in Machines,
                      conn[c].server \in {"queue", "open"}
               PROVE  conn[c].client = "on" /\ conn[c].up = <<>>
    BY DEF Chat!NobodyForgotten
  <2>1. PICK C : conn \in Conns(Machines, C)
    BY DEF ChatInv, IsConns
  <2>2. conn[c].client \in {"off", "on", "half", "gone"}
    BY <2>1 DEF Conns, T!Connection
  <2>3. conn[c].client # "off" /\ (conn[c].server = "open" => c \in Fds(fd_array))
    BY DEF ChatInv, Listed
  <2>4. conn[c].server = "open"
    BY DEF Chat!Ready
  <2>5. Chat!Watched = Fds(fd_array)
    BY TableFds DEF ChatInv, Chat!Watched, Fds, Chat!LiveSlots, Chat!Slots, Chat!IsLive, Chat!NoFd
  <2>6. ~Chat!Readable(conn[c])
    BY <2>3, <2>4, <2>5 DEF Chat!Ready
  <2>7. QED
    BY <2>2, <2>3, <2>6 DEF Chat!Readable
<1>2. (Runs("hw1") => ChatInv) => NobodyIsForgotten
  BY <1>1 DEF NobodyIsForgotten
<1>3. QED
  BY <1>2, ChatAlways, PTL
-----------------------------------------------------------------------------
(* PingSubnet                                                              *)

\* A host was asked if it is below the next one, and is marked exactly when
\* something was printed of it or it was mistaken; what a scan has passed keeps its
\* marks.
MarksInv ==
  /\ alarm <=> nextIP <= MAX_PING_IP
  /\ \A h \in Ping!Hosts : /\ pingData[h].send <=> h < nextIP
                           /\ pingData[h].recv <=> verdict[h] # "none"
                           /\ verdict[h] # "contradicted"
  /\ at = "scan" /\ allFinish => \A h \in Ping!Hosts : h < i => Ping!IsFinished(pingData[h])
  /\ at = "done" => \A h \in Ping!Hosts : Ping!IsFinished(pingData[h])

PingInv == Ping!TypeOK /\ MarksInv

\* Nothing is asked and nothing marked in the beginning.
LEMMA PingBegins == Ping!Init => PingInv
BY ProgramsAssumption
   DEF Ping!Init, PingInv, MarksInv, Ping!TypeOK, Ping!Hosts, Ping!PingData, Ping!TIMEOUT

\* An entry of the table of hosts.
PingEntry == [send : BOOLEAN, recv : BOOLEAN, age : 0..3]
Verdicts  == {"none", "mistaken", "RTT", "no response", "late RTT", "contradicted"}

\* What the type invariant says, name by name.
LEMMA PingTypes ==
  /\ Ping!TypeOK <=>
       /\ at \in {"recv", "scan", "done", "undefined"}
       /\ i \in 1..(MAX_PING_IP + 1) /\ allFinish \in BOOLEAN
       /\ nextIP \in 1..(MAX_PING_IP + 1) /\ alarm \in BOOLEAN
       /\ pingData \in [Ping!Hosts -> PingEntry]
       /\ verdict \in [Ping!Hosts -> Verdicts]
BY DEF Ping!TypeOK, Ping!TIMEOUT, PingEntry, Verdicts

\* The same of the state after a step, the other way round.
LEMMA TypesPing ==
  (/\ at \in {"recv", "scan", "done", "undefined"}
   /\ i \in 1..(MAX_PING_IP + 1) /\ allFinish \in BOOLEAN
   /\ nextIP \in 1..(MAX_PING_IP + 1) /\ alarm \in BOOLEAN
   /\ pingData \in [Ping!Hosts -> PingEntry]
   /\ verdict \in [Ping!Hosts -> Verdicts])' => Ping!TypeOK'
BY DEF Ping!TypeOK, Ping!TIMEOUT, PingEntry, Verdicts

\* The handler asks the next host.
LEMMA PingAsks == ASSUME PingInv, Ping!sendICMP PROVE PingInv'
<1>1. MAX_PING_IP \in Nat \ {0} /\ nextIP \in 1..(MAX_PING_IP + 1) /\ nextIP \in Ping!Hosts
  <2>1. alarm /\ (alarm <=> nextIP <= MAX_PING_IP)
    BY Zenon DEF PingInv, MarksInv, Ping!sendICMP
  <2>2. nextIP <= MAX_PING_IP
    BY <2>1, Zenon
  <2>3. nextIP \in 1..(MAX_PING_IP + 1)
    BY PingTypes DEF PingInv
  <2>4. QED
    BY <2>2, <2>3, ProgramsAssumption DEF Ping!Hosts
<1>2. /\ pingData \in [Ping!Hosts -> PingEntry]
      /\ pingData' = [pingData EXCEPT ![nextIP].send = TRUE, ![nextIP].age = 0]
      /\ UNCHANGED <<at, i, allFinish, verdict>> /\ nextIP' = nextIP + 1
      /\ alarm' = ~Ping!LastIP(nextIP) /\ at # "done"
  BY PingTypes DEF PingInv, Ping!sendICMP
<1>3. /\ \A h \in Ping!Hosts \ {nextIP} : pingData'[h] = pingData[h]
      /\ pingData'[nextIP] = [pingData[nextIP] EXCEPT !.send = TRUE, !.age = 0]
      /\ DOMAIN pingData' = Ping!Hosts
  BY <1>1, <1>2
<1>4. /\ pingData'[nextIP] \in PingEntry /\ pingData'[nextIP].send
      /\ pingData'[nextIP].recv = pingData[nextIP].recv
  <2>1. PICK x : x = pingData[nextIP]
    OBVIOUS
  <2>2. PICK y : y = [x EXCEPT !.send = TRUE, !.age = 0]
    OBVIOUS
  <2>3. x \in PingEntry
    BY <1>1, <1>2, <2>1
  <2>4. y \in PingEntry /\ y.send = TRUE /\ y.recv = x.recv
    <3>1. y = [send |-> TRUE, recv |-> x.recv, age |-> 0] /\ x.recv \in BOOLEAN
      BY <2>2, <2>3 DEF PingEntry
    <3>2. 0 \in 0..3
      OBVIOUS
    <3>3. QED
      BY <3>1, <3>2, Zenon DEF PingEntry
  <2>5. QED
    BY <1>3, <2>1, <2>2, <2>4
<1>5. pingData' \in [Ping!Hosts -> PingEntry]
  BY <1>1, <1>2, <1>4
<1>6. alarm' <=> nextIP' <= MAX_PING_IP
  <2>1. alarm' <=> ~(nextIP >= MAX_PING_IP)
    BY <1>2, Zenon DEF Ping!LastIP
  <2>2. ~(nextIP >= MAX_PING_IP) <=> nextIP' <= MAX_PING_IP
    BY <1>1, <1>2
  <2>3. QED
    BY <2>1, <2>2, Zenon
<1>7. Ping!TypeOK'
  <2>1. alarm' \in BOOLEAN
    BY <1>2, Zenon
  <2>2. nextIP' \in 1..(MAX_PING_IP + 1)
    BY <1>1, <1>2 DEF Ping!Hosts
  <2>3. /\ at' \in {"recv", "scan", "done", "undefined"} /\ i' \in 1..(MAX_PING_IP + 1)
        /\ allFinish' \in BOOLEAN /\ verdict' \in [Ping!Hosts -> Verdicts]
    BY <1>2, PingTypes DEF PingInv
  <2>4. QED
    BY <1>5, <2>1, <2>2, <2>3, TypesPing
<1>8. MarksInv'
  <2>1. ASSUME NEW h \in Ping!Hosts
        PROVE  /\ pingData'[h].send <=> h < nextIP'
               /\ pingData'[h].recv <=> verdict'[h] # "none"
               /\ verdict'[h] # "contradicted"
    <3>1. /\ pingData[h].send <=> h < nextIP
          /\ pingData[h].recv <=> verdict[h] # "none"
          /\ verdict[h] # "contradicted"
      BY DEF PingInv, MarksInv
    <3>2. CASE h = nextIP
      BY <1>1, <1>2, <1>4, <3>1, <3>2
    <3>3. CASE h # nextIP
      <4>1. h < nextIP' <=> h < nextIP
        BY <1>1, <1>2, <3>3 DEF Ping!Hosts
      <4>2. pingData'[h] = pingData[h] /\ verdict' = verdict
        BY <1>2, <1>3, <3>3
      <4>3. QED
        BY <3>1, <4>1, <4>2, Zenon
    <3>4. QED
      BY <3>2, <3>3
  <2>2. \A h \in Ping!Hosts : Ping!IsFinished(pingData[h]) => Ping!IsFinished(pingData'[h])
    BY <1>3, <1>4 DEF Ping!IsFinished
  <2>3. QED
    BY <1>2, <1>6, <2>1, <2>2 DEF PingInv, MarksInv
<1>9. QED
  BY <1>7, <1>8 DEF PingInv

\* What main does with its table.
LEMMA PingScans ==
  ASSUME PingInv, Ping!recvICMP \/ Ping!recvBeyond \/ Ping!recvNothing \/ Ping!checkTimedout
         \/ Ping!ScanEnds
  PROVE  PingInv'
<1>0. /\ at \in {"recv", "scan", "done", "undefined"} /\ i \in 1..(MAX_PING_IP + 1) /\ allFinish \in BOOLEAN
      /\ nextIP \in 1..(MAX_PING_IP + 1) /\ alarm \in BOOLEAN
      /\ pingData \in [Ping!Hosts -> PingEntry] /\ verdict \in [Ping!Hosts -> Verdicts]
      /\ MAX_PING_IP \in Nat \ {0} /\ MarksInv
  BY PingTypes, ProgramsAssumption DEF PingInv
<1>1. /\ UNCHANGED <<nextIP, alarm>>
      /\ Ping!ScanEnds \/ Ping!recvBeyond \/ at' = "scan"
  BY DEF Ping!recvICMP, Ping!recvBeyond, Ping!recvNothing, Ping!checkTimedout, Ping!ScanEnds
<1>2. ASSUME NEW h \in Ping!Hosts, NEW v, verdict' = [verdict EXCEPT ![h] = v],
             v \in Verdicts \ {"none", "contradicted"}, pingData' = [pingData EXCEPT ![h].recv = TRUE]
      PROVE  /\ pingData' \in [Ping!Hosts -> PingEntry] /\ verdict' \in [Ping!Hosts -> Verdicts]
             /\ \A g \in Ping!Hosts :
                  /\ pingData'[g].send <=> pingData[g].send
                  /\ pingData[g].recv => pingData'[g].recv
                  /\ pingData'[g].recv <=> verdict'[g] # "none"
                  /\ verdict'[g] # "contradicted"
             /\ pingData'[h].recv
  <2>1. PICK x : x = pingData[h]
    OBVIOUS
  <2>2. PICK y : y = [x EXCEPT !.recv = TRUE]
    OBVIOUS
  <2>3. x \in PingEntry
    BY <1>0, <2>1
  <2>4. y \in PingEntry /\ y.recv = TRUE /\ y.send = x.send
    <3>1. y = [send |-> x.send, recv |-> TRUE, age |-> x.age] /\ x.send \in BOOLEAN /\ x.age \in 0..3
      BY <2>2, <2>3 DEF PingEntry
    <3>2. QED
      BY <3>1, Zenon DEF PingEntry
  <2>5. pingData'[h] = y /\ verdict'[h] = v
    BY <1>0, <1>2, <2>1, <2>2
  <2>6. \A g \in Ping!Hosts \ {h} : pingData'[g] = pingData[g] /\ verdict'[g] = verdict[g]
    BY <1>0, <1>2
  <2>7. pingData' \in [Ping!Hosts -> PingEntry] /\ verdict' \in [Ping!Hosts -> Verdicts]
    BY <1>0, <1>2, <2>1, <2>2, <2>4
  <2>8. ASSUME NEW g \in Ping!Hosts
        PROVE  /\ pingData'[g].send <=> pingData[g].send
               /\ pingData[g].recv => pingData'[g].recv
               /\ pingData'[g].recv <=> verdict'[g] # "none"
               /\ verdict'[g] # "contradicted"
    <3>1. CASE g = h
      BY <1>2, <2>1, <2>4, <2>5, <3>1
    <3>2. CASE g # h
      <4>1. pingData'[g] = pingData[g] /\ verdict'[g] = verdict[g]
        BY <2>6, <3>2
      <4>2. QED
        BY <1>0, <4>1, Zenon DEF MarksInv
    <3>3. QED
      BY <3>1, <3>2
  <2>9. QED
    BY <2>4, <2>5, <2>7, <2>8
<1>3. ASSUME UNCHANGED <<pingData, verdict>>
      PROVE  /\ pingData' \in [Ping!Hosts -> PingEntry] /\ verdict' \in [Ping!Hosts -> Verdicts]
             /\ \A g \in Ping!Hosts :
                  /\ pingData'[g].send <=> pingData[g].send
                  /\ pingData[g].recv => pingData'[g].recv
                  /\ pingData'[g].recv <=> verdict'[g] # "none"
                  /\ verdict'[g] # "contradicted"
  BY <1>0, <1>3, Zenon DEF MarksInv
<1>4. /\ pingData' \in [Ping!Hosts -> PingEntry] /\ verdict' \in [Ping!Hosts -> Verdicts]
      /\ \A g \in Ping!Hosts :
           /\ pingData'[g].send <=> pingData[g].send
           /\ pingData[g].recv => pingData'[g].recv
           /\ pingData'[g].recv <=> verdict'[g] # "none"
           /\ verdict'[g] # "contradicted"
  <2>1. CASE Ping!recvICMP
    <3>1. PICK h \in Ping!Hosts, what \in {"RTT", "mistaken"} :
            /\ pingData' = [pingData EXCEPT ![h].recv = TRUE]
            /\ verdict' = [verdict EXCEPT ![h] = Ping!Known(verdict[h], what)]
      BY <2>1, Zenon DEF Ping!recvICMP
    <3>2. verdict[h] \in Verdicts \ {"contradicted"}
      BY <1>0 DEF MarksInv
    <3>3. Ping!Known(verdict[h], what) \in Verdicts \ {"none", "contradicted"}
      <4>1. ASSUME NEW x \in Verdicts \ {"contradicted"}
            PROVE  Ping!Known(x, what) \in Verdicts \ {"none", "contradicted"}
        <5>1. CASE x = "none"
          BY <5>1 DEF Ping!Known, Verdicts
        <5>2. CASE x # "none" /\ what = "mistaken"
          BY <4>1, <5>2 DEF Ping!Known, Verdicts
        <5>3. CASE x \in {"RTT", "mistaken"} /\ what = "RTT"
          BY <5>3 DEF Ping!Known, Verdicts
        <5>4. CASE x \in {"no response", "late RTT"} /\ what = "RTT"
          BY <5>4 DEF Ping!Known, Verdicts
        <5>5. QED
          BY <4>1, <5>1, <5>2, <5>3, <5>4 DEF Verdicts
      <4>2. QED
        BY <3>2, <4>1
    <3>4. QED
      BY <1>2, <3>1, <3>3
  <2>2. CASE Ping!checkTimedout
    <3>1. PICK e, late : e = pingData[i] /\ late = (e.send /\ ~e.recv /\ e.age >= 3)
      OBVIOUS
    <3>2. i \in Ping!Hosts
      <4>1. i <= MAX_PING_IP
        BY <2>2, Zenon DEF Ping!checkTimedout
      <4>2. QED
        BY <1>0, <4>1 DEF Ping!Hosts
    <3>3. /\ pingData' = [pingData EXCEPT ![i].recv = @ \/ late]
          /\ verdict' = IF late THEN [verdict EXCEPT ![i] = Ping!Known(@, "no response")] ELSE verdict
      BY <2>2, <3>1, Zenon DEF Ping!checkTimedout, Ping!TIMEOUT
    <3>4. CASE late
      <4>1. ~e.recv
        BY <3>1, <3>4, Zenon
      <4>2. verdict[i] = "none"
        BY <1>0, <3>1, <3>2, <4>1, Zenon DEF MarksInv
      <4>3. verdict' = [verdict EXCEPT ![i] = "no response"]
        BY <3>3, <3>4, <4>2 DEF Ping!Known
      <4>4. pingData' = [pingData EXCEPT ![i].recv = TRUE]
        <5>1. (pingData[i].recv \/ late) = TRUE
          BY <3>4, Zenon
        <5>2. QED
          BY <3>3, <5>1
      <4>5. "no response" \in Verdicts \ {"none", "contradicted"}
        BY DEF Verdicts
      <4>6. QED
        BY <1>2, <3>2, <4>3, <4>4, <4>5
    <3>5. CASE ~late
      <4>1. pingData[i] \in PingEntry
        BY <1>0, <3>2
      <4>2. pingData[i].recv \in BOOLEAN
        BY <4>1 DEF PingEntry
      <4>3. (pingData[i].recv \/ late) = pingData[i].recv
        BY <3>5, <4>2, Zenon
      <4>4. PICK x : x = pingData[i]
        OBVIOUS
      <4>5. [x EXCEPT !.recv = x.recv] = x
        BY <4>1, <4>4 DEF PingEntry
      <4>6. pingData' = [pingData EXCEPT ![i] = [x EXCEPT !.recv = x.recv]]
        BY <3>3, <4>3, <4>4
      <4>7. pingData' = pingData
        BY <1>0, <4>4, <4>5, <4>6
      <4>8. QED
        BY <1>3, <3>3, <3>5, <4>7
    <3>6. QED
      BY <3>4, <3>5
  <2>3. CASE Ping!recvNothing \/ Ping!recvBeyond \/ Ping!ScanEnds
    BY <1>3, <2>3 DEF Ping!recvNothing, Ping!recvBeyond, Ping!ScanEnds
  <2>4. QED
    BY <2>1, <2>2, <2>3
<1>5. \A g \in Ping!Hosts : Ping!IsFinished(pingData[g]) => Ping!IsFinished(pingData'[g])
  BY <1>4, Zenon DEF Ping!IsFinished
<1>6. /\ at' \in {"recv", "scan", "done", "undefined"} /\ i' \in 1..(MAX_PING_IP + 1) /\ allFinish' \in BOOLEAN
      /\ at' = "scan" /\ allFinish' => \A h \in Ping!Hosts : h < i' => Ping!IsFinished(pingData'[h])
      /\ at' = "done" => \A h \in Ping!Hosts : Ping!IsFinished(pingData'[h])
  <2>1. CASE Ping!recvICMP \/ Ping!recvNothing
    <3>1. at' = "scan" /\ i' = 1 /\ allFinish' = TRUE
      BY <2>1 DEF Ping!recvICMP, Ping!recvNothing
    <3>2. \A h \in Ping!Hosts : ~(h < i')
      BY <3>1 DEF Ping!Hosts
    <3>3. 1 \in 1..(MAX_PING_IP + 1)
      BY <1>0
    <3>4. QED
      BY <3>1, <3>2, <3>3
  <2>2. CASE Ping!checkTimedout
    <3>1. /\ at = "scan" /\ at' = "scan" /\ i' = i + 1 /\ i \in Ping!Hosts
          /\ allFinish' = (allFinish /\ Ping!IsFinished(pingData[i]))
      <4>1. /\ at = "scan" /\ at' = at /\ i' = i + 1 /\ i <= MAX_PING_IP
            /\ allFinish' = (allFinish /\ Ping!IsFinished(pingData[i]))
        BY <2>2, Zenon DEF Ping!checkTimedout
      <4>2. i \in Ping!Hosts
        BY <1>0, <4>1 DEF Ping!Hosts
      <4>3. QED
        BY <4>1, <4>2, Zenon
    <3>2. i' \in 1..(MAX_PING_IP + 1) /\ \A h \in Ping!Hosts : h < i' => h < i \/ h = i
      BY <1>0, <3>1 DEF Ping!Hosts
    <3>3. allFinish' \in BOOLEAN
      BY <3>1, Zenon
    <3>4. ASSUME allFinish', NEW h \in Ping!Hosts, h < i' PROVE Ping!IsFinished(pingData'[h])
      <4>1. allFinish /\ Ping!IsFinished(pingData[i])
        BY <3>1, <3>4, Zenon
      <4>2. Ping!IsFinished(pingData[h])
        BY <1>0, <3>1, <3>2, <3>4, <4>1, Zenon DEF MarksInv
      <4>3. QED
        BY <1>5, <4>2
    <3>5. QED
      BY <3>1, <3>2, <3>3, <3>4
  <2>3. CASE Ping!ScanEnds
    <3>1. /\ at = "scan" /\ i > MAX_PING_IP /\ at' = (IF allFinish THEN "done" ELSE "recv")
          /\ UNCHANGED <<i, allFinish>>
      BY <2>3 DEF Ping!ScanEnds
    <3>2. \A h \in Ping!Hosts : h < i
      BY <1>0, <3>1 DEF Ping!Hosts
    <3>3. allFinish => \A h \in Ping!Hosts : Ping!IsFinished(pingData'[h])
      BY <1>0, <1>5, <3>1, <3>2, Zenon DEF MarksInv
    <3>4. QED
      BY <1>0, <3>1, <3>3
  <2>4. CASE Ping!recvBeyond
    BY <1>0, <2>4 DEF Ping!recvBeyond
  <2>5. QED
    BY <2>1, <2>2, <2>3, <2>4
<1>7. Ping!TypeOK'
  BY <1>0, <1>1, <1>4, <1>6, TypesPing
<1>8. MarksInv'
  <2>1. alarm' <=> nextIP' <= MAX_PING_IP
    BY <1>0, <1>1, Zenon DEF MarksInv
  <2>2. \A h \in Ping!Hosts : pingData'[h].send <=> h < nextIP'
    BY <1>0, <1>1, <1>4, Zenon DEF MarksInv
  <2>3. QED
    BY <1>4, <1>6, <2>1, <2>2, Zenon DEF MarksInv
<1>9. QED
  BY <1>7, <1>8 DEF PingInv


\* A second passes.
LEMMA PingWaits ==
  ASSUME PingInv, Ping!Second
  PROVE  PingInv'
<1>0. /\ at \in {"recv", "scan", "done", "undefined"} /\ i \in 1..(MAX_PING_IP + 1) /\ allFinish \in BOOLEAN
      /\ nextIP \in 1..(MAX_PING_IP + 1) /\ alarm \in BOOLEAN
      /\ pingData \in [Ping!Hosts -> PingEntry] /\ verdict \in [Ping!Hosts -> Verdicts]
  BY PingTypes DEF PingInv
<1>1. UNCHANGED <<at, i, allFinish, nextIP, alarm, verdict>>
  BY <1>0 DEF Ping!Second
<1>2. /\ pingData' \in [Ping!Hosts -> PingEntry]
      /\ \A h \in Ping!Hosts : /\ pingData'[h].send = pingData[h].send
                               /\ pingData'[h].recv = pingData[h].recv
  <2>1. ASSUME NEW x \in PingEntry, NEW y,
               y = IF x.send /\ x.age < 3 THEN [x EXCEPT !.age = @ + 1] ELSE x
        PROVE  y \in PingEntry /\ y.send = x.send /\ y.recv = x.recv
    <3>1. CASE x.send /\ x.age < 3
      <4>1. y = [send |-> x.send, recv |-> x.recv, age |-> x.age + 1]
        BY <2>1, <3>1 DEF PingEntry
      <4>2. x.send \in BOOLEAN /\ x.recv \in BOOLEAN /\ x.age + 1 \in 0..3
        BY <2>1, <3>1 DEF PingEntry
      <4>3. QED
        BY <4>1, <4>2, Zenon DEF PingEntry
    <3>2. CASE ~(x.send /\ x.age < 3)
      BY <2>1, <3>2
    <3>3. QED
      BY <3>1, <3>2
  <2>2. pingData' = [h \in Ping!Hosts |-> IF pingData[h].send /\ pingData[h].age < 3
                                           THEN [pingData[h] EXCEPT !.age = @ + 1] ELSE pingData[h]]
    BY Zenon DEF Ping!Second, Ping!TIMEOUT
  <2>3. ASSUME NEW h \in Ping!Hosts
        PROVE  /\ pingData'[h] \in PingEntry
               /\ pingData'[h].send = pingData[h].send /\ pingData'[h].recv = pingData[h].recv
    <3>1. PICK x : x = pingData[h]
      OBVIOUS
    <3>2. x \in PingEntry
      BY <1>0, <3>1
    <3>3. pingData'[h] = IF x.send /\ x.age < 3 THEN [x EXCEPT !.age = @ + 1] ELSE x
      BY <2>2, <3>1
    <3>4. QED
      BY <2>1, <3>1, <3>2, <3>3
  <2>4. QED
    BY <2>2, <2>3
<1>3. \A h \in Ping!Hosts : Ping!IsFinished(pingData[h]) => Ping!IsFinished(pingData'[h])
  BY <1>2 DEF Ping!IsFinished
<1>4. Ping!TypeOK'
  BY <1>0, <1>1, <1>2, TypesPing
<1>5. MarksInv'
  <2>1. ASSUME NEW h \in Ping!Hosts
        PROVE  /\ pingData'[h].send <=> h < nextIP
               /\ pingData'[h].recv <=> verdict[h] # "none"
               /\ verdict[h] # "contradicted"
    BY <1>2, Zenon DEF PingInv, MarksInv
  <2>2. QED
    BY <1>1, <1>3, <2>1, Zenon DEF PingInv, MarksInv
<1>6. QED
  BY <1>4, <1>5 DEF PingInv

\* Every step of pingsubnet keeps its invariant.
LEMMA PingGoesOn == ASSUME PingInv, Ping!Next PROVE PingInv'
BY PingAsks, PingScans, PingWaits DEF Ping!Next

\* A program that does not move keeps its invariant.
LEMMA PingStays == ASSUME PingInv, UNCHANGED <<pingVars, timerVars, at>> PROVE PingInv'
BY DEF PingInv, MarksInv, Ping!TypeOK, Ping!Hosts, Ping!TIMEOUT, Ping!IsFinished, pingVars, timerVars

\* The invariant gives what is promised of the hosts.
LEMMA PingReports == PingInv => Ping!HostsReported
BY Zenon DEF PingInv, MarksInv, Ping!HostsReported, Ping!IsFinished

\* pingsubnet ends only when every host of the subnet was asked and was printed, or
\* was mistaken for another sender; "no response" is printed of a host once at most,
\* never after its RTT or after it was mistaken, for subnets of every size (sendICMP,
\* recvICMP, checkTimedout).
THEOREM ReportsAreSafe == MCSpec => []EveryHostReported
<1> DEFINE Inv == Runs("final_2014F/P2") => PingInv
<1>1. MCInit => Inv
  BY ProgramInit, PingBegins
<1>2. Inv /\ [MCNext]_allVars => Inv'
  <2> SUFFICES ASSUME Inv, [MCNext]_allVars, Runs("final_2014F/P2")' PROVE PingInv'
    OBVIOUS
  <2>1. CASE MCNext
    BY <2>1, ProgramNext, PingGoesOn
  <2>2. CASE UNCHANGED allVars
    BY <2>2, PingStays DEF allVars, Runs, pingVars, timerVars, vars
  <2>3. QED
    BY <2>1, <2>2
<1>3. Inv => EveryHostReported
  BY PingReports DEF EveryHostReported
<1>4. QED
  BY <1>1, <1>2, <1>3, PTL DEF MCSpec

-----------------------------------------------------------------------------
(* The checksum of pingsubnet                                              *)

\* Max of a set of the numbers up to m is its greatest one.
LEMMA PingMax ==
  ASSUME NEW m \in Nat, NEW s \in SUBSET (1..m), s # {}
  PROVE  /\ Ping!Max(s) \in s /\ \A j \in s : j <= Ping!Max(s)
         /\ \A k \in s : (\A j \in s : j <= k) => k = Ping!Max(s)
<1>1. PICK x \in s : \A y \in s : y <= x
  BY Greatest, Zenon
<1>2. \A y \in s : y \in Nat
  OBVIOUS
<1>3. \A y \in s : x >= y
  BY <1>1, <1>2
<1>4. \E z \in s : \A y \in s : z >= y
  BY <1>3
<1>5. PICK z : z = Ping!Max(s)
  OBVIOUS
<1>6. z \in s /\ \A y \in s : z >= y
  BY <1>4, <1>5, Zenon DEF Ping!Max
<1>7. \A y \in s : y <= z /\ ((\A j \in s : j <= y) => y = z)
  BY <1>2, <1>6
<1>8. QED
  BY <1>5, <1>6, <1>7

\* The sum of the words, a word at a time.
LEMMA SumTrace ==
  ASSUME NEW m \in Nat, NEW ws \in [1..m -> Nat]
  PROVE  \E f \in [0..m -> Nat] :
           /\ f[0] = 0 /\ \A k \in 1..m : f[k] = f[k - 1] + ws[k]
           /\ f[m] = Ping!FoldLeft(LAMBDA x, y : x + y, 0, ws)
<1> DEFINE h == [p \in (1..m) \X Nat |-> p[2] + ws[p[1]]]
           Iter(g) == g = [s \in SUBSET (1..m) |->
                             IF s = {} THEN 0 ELSE g[s \ {Ping!Max(s)}] + ws[Ping!Max(s)]]
<1>1. h \in FoldSteps(m, Nat) /\ 0 \in Nat
  BY DEF FoldSteps
<1>2. PICK g \in [SUBSET (1..m) -> Nat] : Folds(g, m, 0, h)
  <2> HIDE DEF h
  <2>1. QED
    BY <1>1, FoldExists, Zenon
<1>3. Iter(g)
  <2>1. ASSUME NEW s \in SUBSET (1..m)
        PROVE  g[s] = IF s = {} THEN 0 ELSE g[s \ {Ping!Max(s)}] + ws[Ping!Max(s)]
    <3>1. CASE s # {}
      <4>1. PICK k : k = Ping!Max(s)
        OBVIOUS
      <4>2. k \in s /\ \A j \in s : j <= k
        BY PingMax, <3>1, <4>1
      <4>3. k \in 1..m /\ s \ {k} \in SUBSET (1..m)
        BY <4>2
      <4>4. h[<<k, g[s \ {k}]>>] = g[s \ {k}] + ws[k]
        BY <4>3
      <4> HIDE DEF h
      <4>5. g[s] = h[<<k, g[s \ {k}]>>]
        BY <1>2, <4>2, Zenon DEF Folds
      <4>6. QED
        BY <3>1, <4>1, <4>4, <4>5
    <3>2. QED
      BY <1>2, <3>1 DEF Folds
  <2>2. QED
    BY <2>1
<1>4. PICK it : Iter(it) /\ it[1..m] = Ping!FoldLeft(LAMBDA x, y : x + y, 0, ws)
  <2>1. Ping!FoldLeft(LAMBDA x, y : x + y, 0, ws) = (CHOOSE it : Iter(it))[1..m]
    BY DEF Ping!FoldLeft, Ping!MapThenFoldSet
  <2> HIDE DEF Iter
  <2>2. QED
    BY <1>3, <2>1, Zenon
<1>5. it[{}] = 0
  BY <1>4
<1>6. ASSUME NEW k \in 1..m, it[1..(k - 1)] \in Nat PROVE it[1..k] = h[<<k, it[1..(k - 1)]>>]
  <2>1. k \in 1..k /\ 1..k \in SUBSET (1..m) /\ \A j \in 1..k : j <= k
    OBVIOUS
  <2>2. (1..k) \ {k} = 1..(k - 1)
    OBVIOUS
  <2>3. Ping!Max(1..k) = k /\ 1..k # {}
    <3> HIDE DEF h, Iter
    <3>1. QED
      BY PingMax, <2>1
  <2>4. it[1..k] = it[1..(k - 1)] + ws[k]
    BY <1>4, <2>1, <2>2, <2>3
  <2>5. QED
    BY <1>6, <2>4
<1>7. PICK f \in [0..m -> Nat] : f[m] = it[1..m] /\ Traces(f, m, 0, h)
  <2> HIDE DEF h, Iter
  <2>1. Chains(it, m, Nat, 0, h)
    BY <1>5, <1>6, Zenon DEF Chains
  <2>2. QED
    BY <1>1, <2>1, FoldTrace, Zenon
<1>8. ASSUME NEW k \in 1..m PROVE f[k] = f[k - 1] + ws[k]
  <2>1. k - 1 \in 0..m
    OBVIOUS
  <2>2. h[<<k, f[k - 1]>>] = f[k - 1] + ws[k]
    BY <2>1
  <2> HIDE DEF h
  <2>3. QED
    BY <1>7, <2>2 DEF Traces
<1>9. QED
  BY <1>4, <1>7, <1>8 DEF Traces

\* One step of a one's complement sum.
OnesPlus(x, y) == IF x + y >= Word THEN x + y - (Word - 1) ELSE x + y

\* The words are closed under it.
LEMMA OnesType ==
  /\ Word \in Nat /\ Word > 1 /\ 0 \in 0..(Word - 1)
  /\ \A x, y \in 0..(Word - 1) : OnesPlus(x, y) \in 0..(Word - 1)
BY ProgramsAssumption DEF OnesPlus

\* The one's complement sum of the words, a word at a time.
LEMMA OnesTrace ==
  ASSUME NEW m \in Nat, NEW ws \in [1..m -> 0..(Word - 1)]
  PROVE  \E f \in [0..m -> 0..(Word - 1)] :
           /\ f[0] = 0 /\ \A k \in 1..m : f[k] = OnesPlus(f[k - 1], ws[k])
           /\ f[m] = Ping!OnesSum(ws)
<1> DEFINE h == [p \in (1..m) \X (0..(Word - 1)) |-> OnesPlus(p[2], ws[p[1]])]
           Iter(g) == g = [s \in SUBSET (1..m) |->
                             IF s = {} THEN 0 ELSE OnesPlus(g[s \ {Ping!Max(s)}], ws[Ping!Max(s)])]
<1>1. h \in FoldSteps(m, 0..(Word - 1)) /\ 0 \in 0..(Word - 1)
  BY OnesType DEF FoldSteps
<1>2. PICK g \in [SUBSET (1..m) -> 0..(Word - 1)] : Folds(g, m, 0, h)
  <2> HIDE DEF h
  <2>1. QED
    BY <1>1, FoldExists, Zenon
<1>3. Iter(g)
  <2>1. ASSUME NEW s \in SUBSET (1..m)
        PROVE  g[s] = IF s = {} THEN 0 ELSE OnesPlus(g[s \ {Ping!Max(s)}], ws[Ping!Max(s)])
    <3>1. CASE s # {}
      <4>1. PICK k : k = Ping!Max(s)
        OBVIOUS
      <4>2. k \in s /\ \A j \in s : j <= k
        BY PingMax, <3>1, <4>1
      <4>3. k \in 1..m /\ s \ {k} \in SUBSET (1..m)
        BY <4>2
      <4>4. h[<<k, g[s \ {k}]>>] = OnesPlus(g[s \ {k}], ws[k])
        BY <4>3
      <4> HIDE DEF h
      <4>5. g[s] = h[<<k, g[s \ {k}]>>]
        BY <1>2, <4>2, Zenon DEF Folds
      <4>6. QED
        BY <3>1, <4>1, <4>4, <4>5
    <3>2. QED
      BY <1>2, <3>1 DEF Folds
  <2>2. QED
    BY <2>1
<1>4. PICK it : Iter(it) /\ it[1..m] = Ping!OnesSum(ws)
  <2>1. Ping!OnesSum(ws) = (CHOOSE it : Iter(it))[1..m]
    BY DEF Ping!OnesSum, Ping!FoldLeft, Ping!MapThenFoldSet, OnesPlus
  <2> HIDE DEF Iter
  <2>2. QED
    BY <1>3, <2>1, Zenon
<1>5. it[{}] = 0
  BY <1>4
<1>6. ASSUME NEW k \in 1..m, it[1..(k - 1)] \in 0..(Word - 1) PROVE it[1..k] = h[<<k, it[1..(k - 1)]>>]
  <2>1. k \in 1..k /\ 1..k \in SUBSET (1..m) /\ \A j \in 1..k : j <= k
    OBVIOUS
  <2>2. (1..k) \ {k} = 1..(k - 1)
    OBVIOUS
  <2>3. Ping!Max(1..k) = k /\ 1..k # {}
    <3> HIDE DEF h, Iter
    <3>1. QED
      BY PingMax, <2>1
  <2>4. it[1..k] = OnesPlus(it[1..(k - 1)], ws[k])
    BY <1>4, <2>1, <2>2, <2>3
  <2>5. QED
    BY <1>6, <2>4
<1>7. PICK f \in [0..m -> 0..(Word - 1)] : f[m] = it[1..m] /\ Traces(f, m, 0, h)
  <2> HIDE DEF h, Iter
  <2>1. Chains(it, m, 0..(Word - 1), 0, h)
    BY <1>5, <1>6, Zenon DEF Chains
  <2>2. QED
    BY <1>1, <2>1, FoldTrace, Zenon
<1>8. ASSUME NEW k \in 1..m PROVE f[k] = OnesPlus(f[k - 1], ws[k])
  <2>1. k - 1 \in 0..m
    OBVIOUS
  <2>2. h[<<k, f[k - 1]>>] = OnesPlus(f[k - 1], ws[k])
    BY <2>1
  <2> HIDE DEF h
  <2>3. QED
    BY <1>7, <2>2 DEF Traces
<1>9. QED
  BY <1>4, <1>7, <1>8 DEF Traces

\* Every number is a multiple of w and a rest.
LEMMA Division ==
  ASSUME NEW a \in Nat, NEW w \in Nat, w > 0
  PROVE  (a \div w) \in Nat /\ (a % w) \in 0..(w - 1) /\ a = (a \div w) * w + (a % w)
OBVIOUS

\* A multiple of v between 1 and v is v.
LEMMA OneMultiple ==
  ASSUME NEW d \in Int, NEW v \in Nat, v > 0, d * v >= 1, d * v <= v
  PROVE  d * v = v
OBVIOUS

\* The checksum of a sum of at most Word words completes it to a multiple of
\* Word - 1: the second fold of in_cksum needs no third one.
LEMMA SumCompleted ==
  ASSUME NEW S \in Nat, S >= 1, S <= Word * (Word - 1)
  PROVE  LET c == Ping!Complement(Ping!FoldTwice(S))
         IN  c \in 0..(Word - 2) /\ \E j \in Nat : S + c = j * (Word - 1)
<1>0. Word \in Nat /\ Word > 1
  BY OnesType
<1>1. PICK q, r : q = S \div Word /\ r = S % Word
  OBVIOUS
<1>2. q \in Nat /\ r \in 0..(Word - 1) /\ S = q * Word + r
  BY <1>0, <1>1, Division
<1>3. q <= Word - 1
  <2>1. q * Word <= (Word - 1) * Word
    <3>1. q * Word \in Int /\ Word * (Word - 1) \in Int
      BY <1>0, <1>2
    <3>2. Word * (Word - 1) = (Word - 1) * Word
      BY <1>0
    <3>3. QED
      BY <1>2, <3>1, <3>2
  <2>2. ASSUME q >= Word PROVE FALSE
    <3>1. q * Word >= Word * Word
      BY <1>0, <1>2, <2>2
    <3>2. (Word - 1) * Word = Word * Word - Word
      BY <1>0
    <3>3. QED
      BY <1>0, <1>2, <2>1, <3>1, <3>2
  <2>3. QED
    BY <1>0, <1>2, <2>2
<1>4. PICK t : t = q + r
  OBVIOUS
<1>5. t = Ping!FoldOnce(S) /\ t \in 1..(2 * Word - 2)
  <2>1. t \in Nat /\ t <= 2 * Word - 2
    BY <1>0, <1>2, <1>3, <1>4
  <2>2. t # 0
    <3>1. SUFFICES ASSUME q = 0, r = 0 PROVE FALSE
      BY <1>2, <1>4
    <3>2. S = 0
      BY <1>0, <1>2, <3>1
    <3>3. QED
      BY <3>2
  <2>3. t = Ping!FoldOnce(S)
    BY <1>1, <1>4 DEF Ping!FoldOnce
  <2>4. QED
    BY <2>1, <2>2, <2>3
<1>6. PICK u : u = t \div Word
  OBVIOUS
<1>7. /\ u \in {0, 1} /\ t + u - u * Word \in 1..(Word - 1) /\ t + u \in Nat
  <2>1. u \in Nat /\ (t % Word) \in 0..(Word - 1) /\ t = u * Word + (t % Word)
    BY <1>0, <1>5, <1>6, Division
  <2>2. CASE t < Word
    <3>1. u = 0
      <4>1. ASSUME u >= 1 PROVE FALSE
        <5>1. u * Word >= Word
          BY <1>0, <2>1, <4>1
        <5>2. QED
          BY <1>0, <1>5, <2>1, <2>2, <5>1
      <4>2. QED
        BY <2>1, <4>1
    <3>2. QED
      BY <1>0, <1>5, <2>2, <3>1
  <2>3. CASE t >= Word
    <3>1. u = 1
      <4>1. u # 0
        BY <1>0, <1>5, <2>1, <2>3
      <4>2. ASSUME u >= 2 PROVE FALSE
        <5>1. u * Word >= 2 * Word
          BY <1>0, <2>1, <4>2
        <5>2. QED
          BY <1>0, <1>5, <2>1, <5>1
      <4>3. QED
        BY <2>1, <4>1, <4>2
    <3>2. QED
      BY <1>0, <1>5, <2>3, <3>1
  <2>4. QED
    BY <1>0, <1>5, <2>2, <2>3
<1>8. PICK e : e = t + u - u * Word
  OBVIOUS
<1>9. Ping!FoldTwice(S) % Word = e /\ e \in 1..(Word - 1)
  <2>1. Ping!FoldTwice(S) = t + u
    <3>1. Ping!FoldTwice(S) = Ping!FoldOnce(S) + (Ping!FoldOnce(S) \div Word)
      BY Zenon DEF Ping!FoldTwice
    <3>2. Ping!FoldOnce(S) = t
      BY <1>5, Zenon
    <3>3. Ping!FoldTwice(S) = t + (t \div Word)
      BY <3>1, <3>2, Zenon
    <3>4. QED
      BY <1>6, <3>3, Zenon
  <2>2. e \in 1..(Word - 1) /\ t + u = u * Word + e
    <3>1. PICK p : p = u * Word
      OBVIOUS
    <3>2. p \in Int
      BY <1>0, <1>7, <3>1
    <3>3. e = t + u - p /\ t + u \in Nat /\ e \in 1..(Word - 1)
      BY <1>7, <1>8, <3>1
    <3>4. t + u = p + e
      <4>1. t \in Int /\ u \in Int
        BY <1>0, <1>5, <1>7
      <4>2. QED
        BY <3>2, <3>3, <4>1
    <3>5. QED
      BY <3>1, <3>3, <3>4
  <2>3. (t + u) % Word = e
    BY <1>0, <1>7, <2>2
  <2>4. QED
    BY <2>1, <2>2, <2>3
<1>10. PICK c : c = Ping!Complement(Ping!FoldTwice(S))
  OBVIOUS
<1>11. c = Word - 1 - e /\ c \in 0..(Word - 2)
  BY <1>0, <1>9, <1>10 DEF Ping!Complement
<1>12. S + c = (q + u + 1) * (Word - 1)
  <2>1. (q + u + 1) * (Word - 1) = q * Word - q + u * Word - u + (Word - 1)
    BY <1>0, <1>2, <1>7
  <2>2. QED
    BY <1>0, <1>2, <1>4, <1>7, <1>8, <1>11, <2>1
<1>13. QED
  <2>1. q + u + 1 \in Nat
    BY <1>2, <1>7
  <2>2. QED
    BY <1>10, <1>11, <1>12, <2>1

\* in_cksum makes every packet verify.
LEMMA PacketVerifies == ASSUME NEW d \in Datas PROVE Ping!OnesSum(Ping!Packet(d)) = Word - 1
<1>0. /\ Word \in Nat /\ Word > 1 /\ Word - 1 \in Nat /\ Word - 1 > 0
      /\ d \in Seq(0..(Word - 1)) /\ Len(d) \in Nat /\ Len(d) + 2 <= Word
  BY ProgramsAssumption
<1>1. PICK m \in Nat : m = Len(d) + 2
  BY <1>0
<1>2. PICK zs : zs = <<Ping!ICMP_ECHO, 0>> \o d
  OBVIOUS
<1>3. PICK c : c = Ping!in_cksum(zs)
  OBVIOUS
<1>4. PICK ps : ps = [zs EXCEPT ![2] = c]
  OBVIOUS
<1>5. Ping!Packet(d) = ps
  BY <1>2, <1>3, <1>4 DEF Ping!Packet
<1>6. /\ zs \in [1..m -> 0..(Word - 1)] /\ zs[1] = 1 /\ zs[2] = 0 /\ 2 <= m /\ m <= Word
  <2>1. <<1, 0>> \in Seq(0..(Word - 1))
    BY <1>0
  <2>2. zs \in Seq(0..(Word - 1)) /\ Len(zs) = m /\ zs[1] = 1 /\ zs[2] = 0
    BY <1>0, <1>1, <1>2, <2>1 DEF Ping!ICMP_ECHO
  <2>3. QED
    BY <1>0, <1>1, <2>2
<1>7. zs \in [1..m -> Nat]
  BY <1>0, <1>6
<1>8. PICK f \in [0..m -> Nat] :
        /\ f[0] = 0 /\ \A k \in 1..m : f[k] = f[k - 1] + zs[k]
        /\ f[m] = Ping!FoldLeft(LAMBDA x, y : x + y, 0, zs)
  BY <1>7, SumTrace
<1>9. f[1] = 1 /\ f[2] = 1
  <2>1. f[1] = f[0] + zs[1] /\ f[2] = f[1] + zs[2]
    <3>1. 1 \in 1..m /\ 2 \in 1..m /\ 1 - 1 = 0 /\ 2 - 1 = 1
      BY <1>6
    <3>2. f[1] = f[1 - 1] + zs[1] /\ f[2] = f[2 - 1] + zs[2]
      BY <1>8, <3>1, Zenon
    <3>3. QED
      BY <3>1, <3>2, Zenon
  <2>2. f[1] = 0 + 1
    BY <1>6, <1>8, <2>1, Zenon
  <2>3. f[1] = 1
    BY <2>2
  <2>4. f[2] = 1 + 0
    BY <1>6, <2>1, <2>3, Zenon
  <2>5. QED
    BY <2>3, <2>4
<1>10. \A k \in 2..m : f[k] >= 1 /\ f[k] <= k * (Word - 1)
  <2> DEFINE K == {k \in Nat : k + 2 <= m => f[k + 2] >= 1 /\ f[k + 2] <= (k + 2) * (Word - 1)}
  <2>1. 0 \in K
    BY <1>0, <1>9
  <2>2. ASSUME NEW k \in K PROVE k + 1 \in K
    <3>1. SUFFICES ASSUME (k + 1) + 2 <= m
                   PROVE f[(k + 1) + 2] >= 1 /\ f[(k + 1) + 2] <= ((k + 1) + 2) * (Word - 1)
      OBVIOUS
    <3>2. PICK z : z = k + 2
      OBVIOUS
    <3>3. z \in Nat /\ z + 1 \in 1..m /\ f[z] >= 1 /\ f[z] <= z * (Word - 1) /\ (k + 1) + 2 = z + 1
      BY <3>1, <3>2
    <3>4. f[z + 1] = f[z] + zs[z + 1] /\ f[z] \in Nat /\ zs[z + 1] \in 0..(Word - 1)
      <4>1. (z + 1) - 1 = z /\ z \in 0..m
        BY <3>3
      <4>2. QED
        BY <1>6, <1>8, <3>3, <4>1
    <3>5. (z + 1) * (Word - 1) = z * (Word - 1) + (Word - 1) /\ z * (Word - 1) \in Int
      BY <1>0, <3>3
    <3>6. f[z + 1] >= 1 /\ f[z + 1] <= (z + 1) * (Word - 1)
      BY <1>0, <3>3, <3>4, <3>5, SMTT(30)
    <3>7. QED
      BY <3>3, <3>6
  <2>3. K = Nat
    <3>1. K \in SUBSET Nat
      OBVIOUS
    <3> HIDE DEF K
    <3>2. QED
      BY <2>1, <2>2, <3>1, SetInduction
  <2>4. ASSUME NEW k \in 2..m PROVE f[k] >= 1 /\ f[k] <= k * (Word - 1)
    <3>1. PICK z : z = k - 2
      OBVIOUS
    <3>2. z \in Nat /\ k = z + 2 /\ z + 2 <= m /\ z \in K
      <4>1. k \in 2..m
        OBVIOUS
      <4> HIDE DEF K
      <4>2. z \in Nat /\ k = z + 2 /\ z + 2 <= m
        BY <3>1, <4>1
      <4>3. QED
        BY <2>3, <4>2
    <3>3. QED
      BY <3>2
  <2>5. QED
    BY <2>4
<1>11. PICK S : S = f[m]
  OBVIOUS
<1>12. S \in Nat /\ S >= 1 /\ S <= Word * (Word - 1)
  <2>1. m \in 2..m /\ m \in 0..m
    BY <1>6
  <2>2. f[m] \in Nat
    BY <1>8, <2>1
  <2>6. f[m] >= 1 /\ f[m] <= m * (Word - 1)
    BY <1>10, <2>1, Zenon
  <2>3. m * (Word - 1) <= Word * (Word - 1)
    <3>1. PICK b : b = Word - m
      OBVIOUS
    <3>2. b \in Nat /\ Word = m + b
      BY <1>0, <1>6, <3>1
    <3>3. PICK v \in Nat : v = Word - 1
      BY <1>0
    <3>4. (m + b) * v = m * v + b * v /\ b * v \in Nat /\ m * v \in Nat
      BY <3>2, <3>3
    <3>5. m * v <= (m + b) * v
      BY <3>4
    <3>6. QED
      BY <3>2, <3>3, <3>5, Zenon
  <2>4. m * (Word - 1) \in Int /\ Word * (Word - 1) \in Int
    BY <1>0
  <2>5. QED
    BY <1>11, <2>2, <2>3, <2>4, <2>6
<1>13. c = Ping!Complement(Ping!FoldTwice(S))
  BY <1>3, <1>8, <1>11 DEF Ping!in_cksum
<1>14. c \in 0..(Word - 2) /\ \E j \in Nat : S + c = j * (Word - 1)
  BY <1>12, <1>13, SumCompleted
<1>15. /\ ps \in [1..m -> 0..(Word - 1)] /\ ps[1] = 1 /\ ps[2] = c
       /\ \A k \in 3..m : ps[k] = zs[k]
  BY <1>0, <1>4, <1>6, <1>14
<1>16. PICK g \in [0..m -> 0..(Word - 1)] :
         /\ g[0] = 0 /\ \A k \in 1..m : g[k] = OnesPlus(g[k - 1], ps[k])
         /\ g[m] = Ping!OnesSum(ps)
  BY <1>15, OnesTrace
<1>17. g[2] = 1 + c
  <2>1. g[1] = OnesPlus(g[0], ps[1]) /\ g[2] = OnesPlus(g[1], ps[2])
    <3>1. 1 \in 1..m /\ 2 \in 1..m /\ 1 - 1 = 0 /\ 2 - 1 = 1
      BY <1>6
    <3>2. g[1] = OnesPlus(g[1 - 1], ps[1]) /\ g[2] = OnesPlus(g[2 - 1], ps[2])
      BY <1>16, <3>1, Zenon
    <3>3. QED
      BY <3>1, <3>2, Zenon
  <2>2. g[1] = 1
    <3>1. g[1] = OnesPlus(0, 1)
      BY <1>15, <1>16, <2>1, Zenon
    <3>2. OnesPlus(0, 1) = 1
      BY <1>0 DEF OnesPlus
    <3>3. QED
      BY <3>1, <3>2, Zenon
  <2>3. g[2] = OnesPlus(1, c)
    BY <1>15, <2>1, <2>2, Zenon
  <2>4. OnesPlus(1, c) = 1 + c
    BY <1>0, <1>14 DEF OnesPlus
  <2>5. QED
    BY <2>3, <2>4, Zenon
<1> DEFINE Even(k) == g[k] >= 1 /\ \E j \in Nat : f[k] + c = g[k] + j * (Word - 1)
<1>18. \A k \in 2..m : Even(k)
  <2> DEFINE K == {k \in Nat : k + 2 <= m => Even(k + 2)}
  <2>1. 0 \in K
    <3>1. f[2] + c = g[2] + 0 * (Word - 1)
      BY <1>0, <1>9, <1>14, <1>17
    <3>2. g[2] >= 1
      BY <1>14, <1>17
    <3>3. Even(2)
      BY <3>1, <3>2
    <3> HIDE DEF Even
    <3>4. QED
      BY <3>3
  <2>2. ASSUME NEW k \in K PROVE k + 1 \in K
    <3> HIDE DEF Even
    <3>1. SUFFICES ASSUME (k + 1) + 2 <= m PROVE Even((k + 1) + 2)
      OBVIOUS
    <3>2. PICK z : z = k + 2
      OBVIOUS
    <3>3. z \in Nat /\ z >= 2 /\ z + 1 \in 3..m /\ Even(z) /\ (k + 1) + 2 = z + 1
      BY <3>1, <3>2
    <3>4. PICK w : w = zs[z + 1]
      OBVIOUS
    <3>5. /\ f[z + 1] = f[z] + w /\ f[z] \in Nat /\ w \in 0..(Word - 1)
          /\ g[z + 1] = OnesPlus(g[z], w) /\ g[z] \in 0..(Word - 1)
      <4>1. (z + 1) - 1 = z /\ z \in 0..m /\ z + 1 \in 1..m
        BY <3>3
      <4>2. ps[z + 1] = w
        BY <1>15, <3>3, <3>4
      <4>3. QED
        BY <1>6, <1>8, <1>16, <3>4, <4>1, <4>2
    <3>6. PICK j \in Nat : f[z] + c = g[z] + j * (Word - 1)
      BY <3>3 DEF Even
    <3>7. g[z] >= 1
      BY <3>3 DEF Even
    <3>8. CASE g[z] + w >= Word
      <4>1. g[z + 1] = g[z] + w - (Word - 1)
        BY <3>5, <3>8 DEF OnesPlus
      <4>2. PICK y : y = j * (Word - 1)
        OBVIOUS
      <4>5. y \in Int /\ (j + 1) * (Word - 1) = y + (Word - 1) /\ f[z] + c = g[z] + y
        BY <1>0, <3>6, <4>2
      <4>6. c \in Int
        BY <1>14
      <4>7. f[z + 1] + c = g[z + 1] + (y + (Word - 1)) /\ g[z + 1] >= 1
        <5>1. PICK a, b : a = f[z] /\ b = g[z]
          OBVIOUS
        <5>2. a \in Nat /\ b \in Nat /\ w \in Nat /\ b + w >= Word /\ a + c = b + y
          BY <1>0, <3>5, <3>8, <4>5, <5>1
        <5>3. a + w + c = b + w - (Word - 1) + (y + (Word - 1)) /\ b + w - (Word - 1) >= 1
          BY <1>0, <4>5, <4>6, <5>2
        <5>4. QED
          BY <3>5, <4>1, <5>1, <5>3
      <4>3. f[z + 1] + c = g[z + 1] + (j + 1) * (Word - 1) /\ g[z + 1] >= 1 /\ j + 1 \in Nat
        BY <4>5, <4>7
      <4>4. Even(z + 1)
        BY <4>3 DEF Even
      <4>8. QED
        BY <3>3, <4>4
    <3>9. CASE ~(g[z] + w >= Word)
      <4>1. g[z + 1] = g[z] + w
        BY <3>5, <3>9 DEF OnesPlus
      <4>2. PICK y : y = j * (Word - 1)
        OBVIOUS
      <4>6. y \in Int /\ f[z] + c = g[z] + y /\ c \in Int
        BY <1>0, <1>14, <3>6, <4>2
      <4>7. f[z + 1] + c = g[z + 1] + y /\ g[z + 1] >= 1
        <5>1. PICK a, b : a = f[z] /\ b = g[z]
          OBVIOUS
        <5>2. a \in Nat /\ b \in Nat /\ w \in Nat /\ b >= 1 /\ a + c = b + y
          BY <1>0, <3>5, <3>7, <4>6, <5>1
        <5>3. a + w + c = b + w + y /\ b + w >= 1
          BY <4>6, <5>2
        <5>4. QED
          BY <3>5, <4>1, <5>1, <5>3
      <4>3. f[z + 1] + c = g[z + 1] + j * (Word - 1) /\ g[z + 1] >= 1
        BY <4>2, <4>7
      <4>4. Even(z + 1)
        BY <4>3 DEF Even
      <4>5. QED
        BY <3>3, <4>4
    <3>10. QED
      BY <3>8, <3>9
  <2>3. K = Nat
    <3> HIDE DEF Even
    <3>1. K \in SUBSET Nat
      OBVIOUS
    <3> HIDE DEF K
    <3>2. QED
      BY <2>1, <2>2, <3>1, SetInduction
  <2>4. ASSUME NEW k \in 2..m PROVE Even(k)
    <3> HIDE DEF Even
    <3>1. PICK z : z = k - 2
      OBVIOUS
    <3>2. z \in Nat /\ k = z + 2 /\ z + 2 <= m /\ z \in K
      <4>1. k \in 2..m
        OBVIOUS
      <4> HIDE DEF K
      <4>2. z \in Nat /\ k = z + 2 /\ z + 2 <= m
        BY <3>1, <4>1
      <4>3. QED
        BY <2>3, <4>2
    <3>3. QED
      BY <3>2
  <2> HIDE DEF Even
  <2>5. QED
    BY <2>4
<1>19. m \in 2..m /\ m \in 0..m
  BY <1>6
<1>20. PICK j \in Nat : g[m] >= 1 /\ S + c = g[m] + j * (Word - 1)
  BY <1>11, <1>18, <1>19
<1>21. PICK e \in Nat : S + c = e * (Word - 1)
  BY <1>14
<1>22. g[m] \in 0..(Word - 1)
  BY <1>16, <1>19
<1>23. g[m] = (e - j) * (Word - 1)
  <2>1. (e - j) * (Word - 1) = e * (Word - 1) - j * (Word - 1)
    BY <1>0
  <2>2. e * (Word - 1) \in Int /\ j * (Word - 1) \in Int
    BY <1>0
  <2>3. QED
    BY <1>20, <1>21, <1>22, <2>1, <2>2
<1>24. g[m] = Word - 1
  <2>1. e - j \in Int /\ (e - j) * (Word - 1) >= 1 /\ (e - j) * (Word - 1) <= Word - 1
    BY <1>0, <1>20, <1>22, <1>23
  <2>2. (e - j) * (Word - 1) = Word - 1
    BY <1>0, <2>1, OneMultiple
  <2>3. QED
    BY <1>23, <2>2
<1>25. QED
  BY <1>5, <1>16, <1>24

\* Whatever the data of a packet, the checksum that pingsubnet puts into it makes the
\* one's complement sum of its words all ones, for words of every width and packets
\* of at most as many words as a word has values (in_cksum, sendICMP).
THEOREM ChecksumsAreRight == MCSpec => []ChecksumsVerify
<1> DEFINE Inv == Runs("final_2014F/P2") => Ping!PacketsVerify
<1>1. MCInit => Inv
  BY ProgramInit DEF Ping!Init, Ping!PacketsVerify
<1>2. ASSUME Inv, [MCNext]_allVars PROVE Inv'
  <2>1. SUFFICES ASSUME Runs("final_2014F/P2")' PROVE Ping!PacketsVerify'
    OBVIOUS
  <2>2. CASE MCNext
    <3>1. Ping!Next /\ Ping!PacketsVerify
      BY <1>2, <2>1, <2>2, ProgramNext
    <3>2. CASE Ping!sendICMP
      <4>1. PICK d \in Datas : sendbuf' = Ping!Packet(d)
        BY <3>2 DEF Ping!sendICMP
      <4>2. Ping!OnesSum(Ping!Packet(d)) = Word - 1
        BY PacketVerifies
      <4>3. QED
        BY <4>1, <4>2 DEF Ping!PacketsVerify
    <3>3. CASE UNCHANGED sendbuf
      BY <3>1, <3>3 DEF Ping!PacketsVerify
    <3>4. QED
      BY <3>1, <3>2, <3>3
         DEF Ping!Next, Ping!recvICMP, Ping!recvBeyond, Ping!recvNothing, Ping!checkTimedout,
             Ping!ScanEnds,
             Ping!Second
  <2>3. CASE UNCHANGED allVars
    <3>1. sendbuf' = sendbuf /\ program' = program
      BY <2>3 DEF allVars, pingVars
    <3>2. Ping!PacketsVerify
      BY <1>2, <2>1, <3>1 DEF Runs
    <3>3. QED
      BY <3>1, <3>2 DEF Ping!PacketsVerify
  <2>4. QED
    BY <1>2, <2>2, <2>3
<1>3. Inv => ChecksumsVerify
  BY DEF ChecksumsVerify
<1>4. QED
  BY <1>1, <1>2, <1>3, PTL DEF MCSpec
=============================================================================
