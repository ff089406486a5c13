----------------------------- MODULE ExamProof ------------------------------
(***************************************************************************)
(* The servers of the midterms, for every number of clients, children and  *)
(* entries of the select table: every answer is the client's own, P4's     *)
(* counter is right, and clients that end by themselves end no server.     *)
(***************************************************************************)
EXTENDS ProgramsProof, FiniteSetTheorems

-----------------------------------------------------------------------------
(* The inductive invariant                                                 *)

\* A connection of a client that waits for the answer to q (NoLine if it does not):
\* the command is on its way, or the answer is, or the server has the command.
Shape(k, q) ==
  /\ k = [up |-> k.up, down |-> k.down, client |-> k.client, server |-> k.server, err |-> k.err]
  /\ k.client \in {"off", "on", "gone"} /\ k.server \in {"none", "queue", "open", "closed"}
  /\ k.err \in {"none", "reset", "pipe"} /\ (k.client # "gone" => k.err = "none")
  /\ k.client = "off" => k.server = "none"
  /\ k.up = <<>> \/ (k.up = <<q>> /\ q # Exam!NoLine)
  /\ k.down # <<>> => /\ k.up = <<>> /\ q # Exam!NoLine /\ k.client = "on"
                      /\ \E v : k.down = <<[val |-> v]>>
  /\ k.server = "queue" => k.down = <<>> /\ (k.up = <<>> => q = Exam!NoLine)

\* The answer that is there is one to q, o being the client's own accumulator.
RightAnswers(ex, q, o) ==
  IF ex = "old" THEN {o} ELSE {Exam!Calculate(q, times) : times \in Exam!TimesRead(q)}
Answered(ex, k, q, o) == \A v : k.down = <<[val |-> v]>> => v \in RightAnswers(ex, q, o)

\* Who serves the connection has the client's own accumulator in a, but for the
\* command that is on its way.
Keeps(ex, k, q, o, a) ==
  /\ k.server = "open"
  /\ ex = "old" => o = IF k.up = <<>> THEN a ELSE Exam!Accumulate(a, q)

\* No client was killed: nothing is lost and nothing unread.
Quiet(k) == k.err = "none" /\ (k.client = "gone" => k.up = <<>>)

LiveIn(table) == {k \in 1..Len(table) : table[k] # "-1"}
Opened(conns) == {c \in ExamMachines : conns[c].server = "open"}

ExamTypes ==
  /\ server \in Exam!Servers /\ DOMAIN conn = ExamMachines
  /\ DOMAIN accu = ExamMachines /\ DOMAIN own = ExamMachines /\ DOMAIN asked = ExamMachines
  /\ DOMAIN accu_array = 1..MAX_FD_NUM /\ children \subseteq ExamMachines
  /\ fd_array \in Seq(ExamMachines \cup {"-1"}) /\ Len(fd_array) <= MAX_FD_NUM
  /\ zombies \in Nat /\ killed \in Nat

\* Only switch has children and a table.
ExamModes ==
  /\ server.way = "iterative" =>
       pc \in {"accept", "serve", "dead"} /\ children = {} /\ fd_array = <<>>
  /\ server.way = "fork" => pc = "accept"
  /\ pc = "serve" => server.way = "iterative"

ExamClients ==
  \A c \in ExamMachines :
    Shape(conn[c], asked[c]) /\ Answered(server.exam, conn[c], asked[c], own[c])

\* Each open connection is served by a child, by main, by an entry of the table, or
\* by nobody any more.
ExamKids == \A c \in children : Keeps(server.exam, conn[c], asked[c], own[c], accu[c])
ExamMain ==
  pc = "serve" =>
    cur \in ExamMachines /\ Keeps(server.exam, conn[cur], asked[cur], own[cur], accu_array[1])
ExamTable ==
  pc # "dead" => \A k \in LiveIn(fd_array) :
    /\ fd_array[k] \in ExamMachines \ children
    /\ Keeps(server.exam, conn[fd_array[k]], asked[fd_array[k]], own[fd_array[k]], accu_array[k])
    /\ \A l \in LiveIn(fd_array) : fd_array[k] = fd_array[l] => k = l

\* mid_2014F's select loop serves a client again that has left.
Forgets == server = [exam |-> "mid", way |-> "select"]
ExamCalm ==
  killed = 0 /\ ~Forgets => pc # "dead" /\ \A c \in ExamMachines : Quiet(conn[c])

ExamCount ==
  server.way = "switch" /\ pc # "dead" =>
    IsFiniteSet(Opened(conn)) /\ conn_num = zombies + Cardinality(Opened(conn))

ExamInv ==
  /\ ExamTypes /\ ExamModes /\ ExamClients /\ ExamKids /\ ExamMain /\ ExamTable
  /\ ExamCalm /\ ExamCount

-----------------------------------------------------------------------------
(* One read and its answer                                                 *)

\* A sequence with an element is not empty, and the element is its own.
LEMMA OneIsSome ==
  /\ \A y : <<y>> # <<>>
  /\ \A y, z : <<y>> = <<z>> => y = z
  /\ \A y, z : <<[val |-> y]>> = <<[val |-> z]>> => y = z
OBVIOUS

\* What makes a connection that has a shape.
LEMMA Shapes ==
  ASSUME NEW up, NEW down, NEW cl \in {"off", "on", "gone"}, NEW srv \in {"none", "queue", "open", "closed"},
         NEW err \in {"none", "reset", "pipe"}, NEW q, NEW k,
         k = [up |-> up, down |-> down, client |-> cl, server |-> srv, err |-> err],
         cl # "gone" => err = "none", cl = "off" => srv = "none",
         up = <<>> \/ (up = <<q>> /\ q # Exam!NoLine),
         down # <<>> => up = <<>> /\ q # Exam!NoLine /\ cl = "on" /\ \E v : down = <<[val |-> v]>>,
         srv = "queue" => down = <<>> /\ (up = <<>> => q = Exam!NoLine)
  PROVE  Shape(k, q)
<1>1. k.up = up /\ k.down = down /\ k.client = cl /\ k.server = srv /\ k.err = err
  OBVIOUS
<1>2. QED
  BY <1>1 DEF Shape

\* One write.
LEMMA OnlyWrite ==
  ASSUME NEW D, NEW C, NEW conns \in Conns(D, C), NEW w \in [to : D, cell : C], NEW prompt
  PROVE  T!Writes(conns, <<w>>, prompt) = T!Write([conn |-> conns, alive |-> TRUE], w, prompt)
<1>1. PICK ws : ws = <<w>>
  OBVIOUS
<1>2. ws \in WriteLists(1, D, C)
  <2>1. ws = [x \in 1..1 |-> w]
    BY <1>1
  <2>2. QED
    BY <2>1 DEF WriteLists
<1>3. PICK f \in [0..1 -> Lives(D, C)] : WriteSteps(f, 1, conns, ws, prompt)
  <2>1. 1 \in Nat
    OBVIOUS
  <2>2. QED
    BY <1>2, <2>1, WritesTrace, Zenon
<1>4. f[0] = [conn |-> conns, alive |-> TRUE] /\ f[1] = T!Writes(conns, ws, prompt)
  BY <1>3 DEF WriteSteps
<1>5. 1 \in 1..1 /\ 1 - 1 = 0 /\ ws[1] = w
  BY <1>1
<1>6. f[1] = T!Write(f[1 - 1], ws[1], prompt)
  BY <1>3, <1>5 DEF WriteSteps
<1>7. QED
  BY <1>1, <1>4, <1>5, <1>6

OneAnswer(c, k, v, prompt) ==
  Exam!Writes([x \in {c} |-> k], <<[to |-> c, cell |-> [val |-> v]]>>, prompt)

\* An answer: it arrives, or it brings the reset of a client that has left.
LEMMA ExamAnswers ==
  ASSUME NEW c, NEW v, NEW prompt \in BOOLEAN, NEW k,
         k = [up |-> <<>>, down |-> <<>>, client |-> k.client, server |-> k.server, err |-> k.err],
         k.client \in {"off", "on", "gone"}, k.server \in {"none", "queue", "open", "closed"},
         k.err \in {"none", "reset", "pipe"}, k.client # "gone" => k.err = "none"
  PROVE  \E e \in {"none", "reset", "pipe"} :
           /\ OneAnswer(c, k, v, prompt).conn[c]
                = [up |-> <<>>, down |-> IF k.client = "gone" THEN <<>> ELSE <<[val |-> v]>>,
                   client |-> k.client, server |-> k.server, err |-> e]
           /\ OneAnswer(c, k, v, prompt).alive \in BOOLEAN
           /\ k.err = "none" => OneAnswer(c, k, v, prompt).alive
           /\ k.client # "gone" => e = "none"
<1>0. PICK cl, srv, err, res :
        /\ cl = k.client /\ srv = k.server /\ err = k.err /\ res = OneAnswer(c, k, v, prompt)
        /\ k = [up |-> <<>>, down |-> <<>>, client |-> cl, server |-> srv, err |-> err]
        /\ cl \in {"off", "on", "gone"} /\ srv \in {"none", "queue", "open", "closed"}
        /\ err \in {"none", "reset", "pipe"} /\ (cl # "gone" => err = "none")
  OBVIOUS
<1>1. PICK cell, C, w, conns : /\ cell = [val |-> v] /\ C = {cell} /\ w = [to |-> c, cell |-> cell]
                               /\ conns = [x \in {c} |-> k]
  OBVIOUS
<1>2. conns \in Conns({c}, C)
  <2>1. <<>> \in Seq(C)
    OBVIOUS
  <2>2. k \in T!Connection(C)
    <3>1. cl \in {"off", "on", "half", "gone"}
      BY <1>0
    <3>2. [up |-> <<>>, down |-> <<>>, client |-> cl, server |-> srv, err |-> err] \in T!Connection(C)
      BY <1>0, <2>1, <3>1, Zenon DEF T!Connection
    <3>3. QED
      BY <1>0, <3>2
  <2>3. QED
    BY <1>1, <2>2 DEF Conns
<1>3. w \in [to : {c}, cell : C]
  BY <1>1
<1>4. PICK s, t : s = [conn |-> conns, alive |-> TRUE] /\ t = T!Write(s, w, prompt)
  OBVIOUS
<1>5. res = t
  <2>1. T!Writes(conns, <<w>>, prompt) = t
    BY <1>2, <1>3, <1>4, OnlyWrite
  <2>2. Exam!Writes(conns, <<w>>, prompt) = T!Writes(conns, <<w>>, prompt)
    BY SameTcp
  <2>3. QED
    BY <1>0, <1>1, <2>1, <2>2 DEF OneAnswer
<1>6. s.conn[c] = k /\ s.conn = conns /\ s.alive = TRUE /\ w.to = c /\ w.cell = cell /\ DOMAIN conns = {c}
  BY <1>1, <1>4
<1>7. PICK p : p = k /\ p = [up |-> <<>>, down |-> <<>>, client |-> cl, server |-> srv, err |-> err]
  BY <1>0
<1>8. p.up = <<>> /\ p.down = <<>> /\ p.client = cl /\ p.server = srv /\ p.err = err
      /\ s.conn[c] = p
  BY <1>6, <1>7
<1>9. CASE cl # "gone"
  <2>1. PICK j, d : d = Append(p.down, cell) /\ j = [p EXCEPT !.down = d]
    OBVIOUS
  <2>2. d = <<cell>>
    BY <1>8, <2>1
  <2>3. j = [up |-> <<>>, down |-> <<cell>>, client |-> cl, server |-> srv, err |-> err]
    BY <1>7, <2>1, <2>2
  <2>4. t = [s EXCEPT !.conn[c] = j]
    BY <1>4, <1>6, <1>7, <1>8, <1>9, <2>1 DEF T!Write
  <2>5. t.conn[c] = j /\ t.alive = TRUE
    <3>1. PICK y : y = [conns EXCEPT ![c] = j]
      OBVIOUS
    <3>2. y[c] = j
      BY <1>6, <3>1
    <3>3. t = [conn |-> y, alive |-> TRUE]
      BY <1>4, <1>6, <2>4, <3>1
    <3>4. QED
      BY <3>2, <3>3
  <2>6. QED
    BY <1>0, <1>1, <1>5, <1>9, <2>3, <2>5
<1>10. CASE cl = "gone" /\ err = "pipe"
  <2>1. t = [s EXCEPT !.alive = FALSE]
    BY <1>4, <1>6, <1>7, <1>8, <1>10 DEF T!Write
  <2>2. t.conn[c] = p /\ t.alive = FALSE
    BY <1>4, <1>6, <1>7, <2>1
  <2>3. QED
    BY <1>0, <1>1, <1>5, <1>7, <1>10, <2>2
<1>11. CASE cl = "gone" /\ err # "pipe"
  <2>1. PICK j, e : /\ e = (IF err = "reset" THEN "pipe" ELSE IF prompt THEN "pipe" ELSE p.err)
                    /\ j = [p EXCEPT !.err = e]
    OBVIOUS
  <2>2. e \in {"none", "reset", "pipe"}
    BY <1>0, <1>8, <2>1
  <2>3. j = [up |-> <<>>, down |-> <<>>, client |-> cl, server |-> srv, err |-> e]
    BY <1>7, <2>1
  <2>4. t = [s EXCEPT !.conn[c] = j]
    <3>1. CASE err = "reset"
      <4>1. t = [s EXCEPT !.conn[c].err = "pipe"]
        BY <1>4, <1>6, <1>7, <1>8, <1>11, <3>1 DEF T!Write
      <4>2. QED
        BY <1>8, <2>1, <3>1, <4>1
    <3>2. CASE err = "none"
      <4>1. t = [s EXCEPT !.conn[c].err = IF prompt THEN "pipe" ELSE @]
        BY <1>4, <1>6, <1>7, <1>8, <1>11, <3>2 DEF T!Write
      <4>2. QED
        BY <1>8, <2>1, <3>2, <4>1
    <3>3. QED
      BY <1>0, <1>11, <3>1, <3>2
  <2>5. t.conn[c] = j /\ t.alive = TRUE
    <3>1. PICK y : y = [conns EXCEPT ![c] = j]
      OBVIOUS
    <3>2. y[c] = j
      BY <1>6, <3>1
    <3>3. t = [conn |-> y, alive |-> TRUE]
      BY <1>4, <1>6, <2>4, <3>1
    <3>4. QED
      BY <3>2, <3>3
  <2>6. QED
    BY <1>0, <1>1, <1>5, <1>11, <2>2, <2>3, <2>5
<1>12. QED
  BY <1>0, <1>9, <1>10, <1>11

\* A read takes the command, if there is one: the client has left if not.
LEMMA ExamTakes ==
  ASSUME NEW k, NEW q, Shape(k, q), Exam!Readable(k)
  PROVE  /\ \E e \in {"none", "reset", "pipe"} :
              /\ Exam!Taken(k, IF Exam!AtEnd(k) THEN 0 ELSE 1)
                   = [up |-> <<>>, down |-> <<>>, client |-> k.client, server |-> k.server, err |-> e]
              /\ k.client # "gone" => e = "none"
              /\ k.err = "none" => e = "none"
         /\ IF Exam!AtEnd(k) THEN k.client = "gone" ELSE Head(k.up) = q /\ k.up = <<q>>
<1>1. /\ k = [up |-> k.up, down |-> k.down, client |-> k.client, server |-> k.server, err |-> k.err]
      /\ k.client \in {"off", "on", "gone"} /\ k.err \in {"none", "reset", "pipe"}
      /\ k.client # "gone" => k.err = "none"
      /\ k.up = <<>> \/ k.up = <<q>>
      /\ k.down # <<>> => k.up = <<>> /\ k.client = "on"
  BY DEF Shape
<1>2. k.up # <<>> \/ k.client = "gone"
  BY <1>1 DEF Exam!Readable
<1>3. k.down = <<>>
  BY <1>1, <1>2
<1>4. PICK m, x, e : /\ m = (IF Exam!AtEnd(k) THEN 0 ELSE 1) /\ x = SubSeq(k.up, m + 1, Len(k.up))
                     /\ e = IF m = 0 /\ k.err = "reset" THEN "pipe" ELSE k.err
  OBVIOUS
<1>5. x = <<>>
  <2>1. CASE k.up = <<>>
    <3>1. m = 0 /\ x = SubSeq(<<>>, 1, 0)
      BY <1>4, <2>1 DEF Exam!AtEnd
    <3>2. QED
      BY <3>1
  <2>2. CASE k.up = <<q>>
    <3>1. m = 1 /\ x = SubSeq(<<q>>, 2, 1)
      BY <1>4, <2>2 DEF Exam!AtEnd
    <3>2. QED
      BY <3>1
  <2>3. QED
    BY <1>1, <2>1, <2>2
<1>6. Exam!Taken(k, m) = [k EXCEPT !.up = x, !.err = e]
  BY <1>1, <1>4 DEF Exam!Taken
<1>7. [k EXCEPT !.up = x, !.err = e]
        = [up |-> <<>>, down |-> <<>>, client |-> k.client, server |-> k.server, err |-> e]
  <2>1. PICK j : j = [k EXCEPT !.up = x, !.err = e]
    OBVIOUS
  <2>2. j = [up |-> x, down |-> k.down, client |-> k.client, server |-> k.server, err |-> e]
    BY <1>1, <2>1
  <2>3. QED
    BY <1>3, <1>5, <2>1, <2>2
<1>8. e \in {"none", "reset", "pipe"} /\ (k.client # "gone" => e = "none") /\ (k.err = "none" => e = "none")
  BY <1>1, <1>4
<1>9. IF Exam!AtEnd(k) THEN k.client = "gone" ELSE Head(k.up) = q /\ k.up = <<q>>
  BY <1>1, <1>2 DEF Exam!AtEnd
<1>10. QED
  BY <1>4, <1>6, <1>7, <1>8, <1>9

\* What a process makes of the client that it serves with the accumulator a.
ServedWell(ex, k, q, o, r) ==
  /\ Shape(r.k, q) /\ Answered(ex, r.k, q, o)
  /\ r.k.up = <<>> /\ r.k.server = k.server /\ r.k.client = k.client
  /\ r.leaves \in BOOLEAN /\ r.lives \in BOOLEAN
  /\ ~r.leaves => Keeps(ex, r.k, q, o, r.a)
  /\ Quiet(k) => r.lives /\ (r.k.err = "none" \/ (r.leaves /\ Exam!AtEnd(k)))

\* The answer is the right one, and nobody but a client that has left ends a process.
LEMMA ExamServes ==
  ASSUME server \in Exam!Servers, NEW c, NEW a,
         Shape(conn[c], asked[c]), Keeps(server.exam, conn[c], asked[c], own[c], a),
         Exam!Readable(conn[c]), NEW r \in Exam!Served(c, a)
  PROVE  ServedWell(server.exam, conn[c], asked[c], own[c], r)
<1>1. PICK k, q, o, ex : k = conn[c] /\ q = asked[c] /\ o = own[c] /\ ex = server.exam
  OBVIOUS
<1>2. PICK m, k1, l : /\ m = (IF Exam!AtEnd(k) THEN 0 ELSE 1) /\ k1 = Exam!Taken(k, m)
                      /\ l = IF Exam!AtEnd(k) THEN Exam!NoLine ELSE Head(k.up)
  OBVIOUS
<1>3. PICK e \in {"none", "reset", "pipe"} :
        /\ k1 = [up |-> <<>>, down |-> <<>>, client |-> k.client, server |-> k.server, err |-> e]
        /\ k.client # "gone" => e = "none"
        /\ k.err = "none" => e = "none"
  BY <1>1, <1>2, ExamTakes
<1>4. IF Exam!AtEnd(k) THEN k.client = "gone" ELSE Head(k.up) = q /\ k.up = <<q>>
  BY <1>1, ExamTakes
<1>5. /\ k.client \in {"off", "on", "gone"} /\ k.server = "open" /\ ex \in {"old", "mid"}
      /\ (k.up = <<q>> => q # Exam!NoLine) /\ k.server \in {"none", "queue", "open", "closed"}
      /\ k.client # "off"
  <2>1. k.client \in {"off", "on", "gone"} /\ (k.client = "off" => k.server = "none") /\ (k.up = <<q>> => q # Exam!NoLine)
    <3>1. Shape(k, q)
      BY <1>1
    <3>2. k.up = <<>> \/ (k.up = <<q>> /\ q # Exam!NoLine)
      BY <3>1 DEF Shape
    <3>3. k.up = <<q>> => q # Exam!NoLine
      BY <3>2, OneIsSome
    <3>4. QED
      BY <3>1, <3>3 DEF Shape
  <2>2. k.server = "open"
    BY <1>1 DEF Keeps
  <2>3. ex \in {"old", "mid"}
    BY <1>1 DEF Exam!Servers
  <2>4. QED
    BY <2>1, <2>2, <2>3
<1>6. ex = "old" => o = IF k.up = <<>> THEN a ELSE Exam!Accumulate(a, q)
  BY <1>1 DEF Keeps
<1>7. CASE l.cmd = "EXIT"
  <2>1. r = [k |-> k1, a |-> a, leaves |-> TRUE, lives |-> TRUE]
    BY <1>1, <1>2, <1>7 DEF Exam!Served
  <2>2. r.k = k1 /\ r.leaves = TRUE /\ r.lives = TRUE
    BY <2>1
  <2>3. k1.up = <<>> /\ k1.down = <<>> /\ k1.client = k.client /\ k1.server = k.server /\ k1.err = e
    BY <1>3
  <2>4. Shape(k1, q)
    BY <1>3, <1>5, Shapes
  <2>5. Answered(ex, k1, q, o)
    BY <2>3, OneIsSome DEF Answered
  <2>6. Quiet(k) => k1.err = "none"
    BY <1>3, <2>3 DEF Quiet
  <2>7. QED
    BY <1>1, <2>2, <2>3, <2>4, <2>5, <2>6 DEF ServedWell
<1>8. CASE l.cmd # "EXIT"
  <2>1. PICK x \in Exam!ProcessCMD(a, l), prompt \in BOOLEAN :
          r = [k |-> OneAnswer(c, k1, x.val, prompt).conn[c], a |-> x.accu,
               leaves |-> Exam!LeavesLoop(Exam!AtEnd(k)), lives |-> OneAnswer(c, k1, x.val, prompt).alive]
    <3> DEFINE there == Exam!AtEnd(conn[c])
               text == IF there THEN Exam!NoLine ELSE Head(conn[c].up)
               after == Exam!Taken(conn[c], IF there THEN 0 ELSE 1)
    <3>1. text.cmd # "EXIT"
      BY <1>1, <1>2, <1>8
    <3>2. Exam!Served(c, a) =
            IF text.cmd = "EXIT" THEN {[k |-> after, a |-> a, leaves |-> TRUE, lives |-> TRUE]}
            ELSE {[k |-> OneAnswer(c, after, z.val, b).conn[c], a |-> z.accu,
                   leaves |-> Exam!LeavesLoop(there), lives |-> OneAnswer(c, after, z.val, b).alive] :
                  z \in Exam!ProcessCMD(a, text), b \in BOOLEAN}
      BY DEF Exam!Served, OneAnswer
    <3>3. PICK z \in Exam!ProcessCMD(a, text), b \in BOOLEAN :
            r = [k |-> OneAnswer(c, after, z.val, b).conn[c], a |-> z.accu,
                 leaves |-> Exam!LeavesLoop(there), lives |-> OneAnswer(c, after, z.val, b).alive]
      BY <3>1, <3>2
    <3>4. after = k1 /\ text = l /\ Exam!LeavesLoop(there) = Exam!LeavesLoop(Exam!AtEnd(k))
      BY <1>1, <1>2
    <3> HIDE DEF there, text, after
    <3>5. QED
      BY <3>3, <3>4
  <2>2. PICK v, s : v = x.val /\ s = OneAnswer(c, k1, v, prompt)
    OBVIOUS
  <2>3. /\ r.k = s.conn[c] /\ r.a = x.accu /\ r.lives = s.alive
        /\ r.leaves = Exam!AtEnd(k)
    BY <2>1, <2>2 DEF Exam!LeavesLoop
  <2>4. PICK g \in {"none", "reset", "pipe"} :
          /\ s.conn[c] = [up |-> <<>>, down |-> IF k.client = "gone" THEN <<>> ELSE <<[val |-> v]>>,
                          client |-> k.client, server |-> k.server, err |-> g]
          /\ s.alive \in BOOLEAN /\ (e = "none" => s.alive) /\ (k.client # "gone" => g = "none")
    <3>1. /\ k1 = [up |-> <<>>, down |-> <<>>, client |-> k1.client, server |-> k1.server, err |-> k1.err]
          /\ k1.client = k.client /\ k1.server = k.server /\ k1.err = e
      BY <1>3
    <3>2. /\ k1.client \in {"off", "on", "gone"} /\ k1.server \in {"none", "queue", "open", "closed"}
          /\ k1.err \in {"none", "reset", "pipe"} /\ (k1.client # "gone" => k1.err = "none")
      BY <1>3, <1>5, <3>1
    <3>3. PICK g \in {"none", "reset", "pipe"} :
            /\ s.conn[c] = [up |-> <<>>, down |-> IF k1.client = "gone" THEN <<>> ELSE <<[val |-> v]>>,
                            client |-> k1.client, server |-> k1.server, err |-> g]
            /\ s.alive \in BOOLEAN /\ (k1.err = "none" => s.alive) /\ (k1.client # "gone" => g = "none")
      BY <2>2, <3>1, <3>2, ExamAnswers
    <3>4. QED
      BY <3>1, <3>3
  <2>5. PICK d : d = IF k.client = "gone" THEN <<>> ELSE <<[val |-> v]>>
    OBVIOUS
  <2>6. r.k = [up |-> <<>>, down |-> d, client |-> k.client, server |-> k.server, err |-> g]
    BY <2>3, <2>4, <2>5
  <2>7. r.k.up = <<>> /\ r.k.down = d /\ r.k.client = k.client /\ r.k.server = k.server /\ r.k.err = g
    BY <2>6
  <2>8. d # <<>> => k.client # "gone" /\ q # Exam!NoLine /\ ~Exam!AtEnd(k) /\ d = <<[val |-> v]>>
    BY <1>4, <1>5, <2>5
  <2>9. Shape(r.k, q)
    <3>1. d # <<>> => q # Exam!NoLine /\ k.client = "on" /\ \E z : d = <<[val |-> z]>>
      <4>1. k.client # "gone" => k.client = "on"
        BY <1>5
      <4>2. QED
        BY <2>8, <4>1
    <3>2. QED
      BY <1>5, <2>4, <2>6, <3>1, Shapes
  <2>10. ~Exam!AtEnd(k) => /\ v \in RightAnswers(ex, q, o)
                           /\ ex = "old" => o = x.accu
    <3>1. SUFFICES ASSUME ~Exam!AtEnd(k)
                   PROVE  v \in RightAnswers(ex, q, o) /\ (ex = "old" => o = x.accu)
      OBVIOUS
    <3>2. l = q /\ k.up # <<>>
      BY <1>2, <1>4, <3>1 DEF Exam!AtEnd
    <3>3. CASE ex = "old"
      <4>1. PICK z : z = Exam!Accumulate(a, q)
        OBVIOUS
      <4>2. x = [val |-> z, accu |-> z]
        BY <1>1, <2>1, <3>2, <3>3, <4>1 DEF Exam!ProcessCMD
      <4>3. o = z
        BY <1>6, <3>2, <3>3, <4>1
      <4>4. QED
        BY <2>2, <3>3, <4>2, <4>3 DEF RightAnswers
    <3>4. CASE ex # "old"
      <4>1. PICK times \in Exam!TimesRead(q) : x = [val |-> Exam!Calculate(q, times), accu |-> a]
        BY <1>1, <2>1, <3>2, <3>4 DEF Exam!ProcessCMD
      <4>2. v = Exam!Calculate(q, times)
        BY <2>2, <4>1
      <4>3. QED
        BY <3>4, <4>2 DEF RightAnswers
    <3>5. QED
      BY <3>3, <3>4
  <2>11. Answered(ex, r.k, q, o)
    <3>1. ASSUME NEW z, d = <<[val |-> z]>> PROVE z = v /\ ~Exam!AtEnd(k)
      <4>1. d # <<>>
        BY <3>1
      <4>2. <<[val |-> z]>> = <<[val |-> v]>>
        BY <2>8, <3>1, <4>1
      <4>3. [val |-> z] = [val |-> v]
        BY <4>2
      <4>4. QED
        BY <2>8, <4>1, <4>3
    <3>2. QED
      BY <2>7, <2>10, <3>1 DEF Answered
  <2>12. ~r.leaves => Keeps(ex, r.k, q, o, r.a)
    BY <1>5, <2>3, <2>7, <2>10 DEF Keeps
  <2>13. Quiet(k) => r.lives /\ (r.k.err = "none" \/ (r.leaves /\ Exam!AtEnd(k)))
    BY <1>3, <1>4, <2>3, <2>4, <2>7 DEF Quiet, Exam!AtEnd
  <2>14. r.leaves \in BOOLEAN /\ r.lives \in BOOLEAN
    BY <2>3, <2>4 DEF Exam!AtEnd
  <2>15. QED
    BY <1>1, <2>7, <2>9, <2>11, <2>12, <2>13, <2>14 DEF ServedWell
<1>9. QED
  BY <1>7, <1>8

\* The server, or the kernel for it, closes.
LEMMA ExamCloses ==
  ASSUME NEW k, NEW q, NEW ex, NEW o, Shape(k, q), Answered(ex, k, q, o), k.server \in {"queue", "open"}
  PROVE  /\ Shape(Exam!Closed(k), q) /\ Answered(ex, Exam!Closed(k), q, o)
         /\ Quiet(Exam!Closed(k)) /\ Exam!Closed(k).server \in {"none", "closed"}
<1>1. PICK j, d : j = Exam!Closed(k) /\ d = k.down
  OBVIOUS
<1>2. /\ k = [up |-> k.up, down |-> d, client |-> k.client, server |-> k.server, err |-> k.err]
      /\ k.client \in {"on", "gone"} /\ (k.client # "gone" => k.err = "none")
  BY <1>1 DEF Shape
<1>6. d # <<>> => q # Exam!NoLine /\ \E v : d = <<[val |-> v]>>
  BY <1>1 DEF Shape
<1>3. CASE k.client = "gone"
  <2>1. j = [up |-> <<>>, down |-> <<>>, client |-> "off", server |-> "none", err |-> "none"]
    BY <1>1, <1>3 DEF Exam!Closed, Exam!NoConn
  <2>2. Shape(j, q)
    BY <2>1, Shapes
  <2>3. j.down = <<>> /\ j.err = "none" /\ j.client = "off" /\ j.server = "none"
    BY <2>1
  <2>4. QED
    BY <1>1, <2>2, <2>3, OneIsSome DEF Answered, Quiet
<1>4. CASE k.client = "on"
  <2>1. j = [up |-> <<>>, down |-> d, client |-> "on", server |-> "closed", err |-> "none"]
    <3>1. PICK x, y : x = <<>> /\ y = "closed"
      OBVIOUS
    <3>2. j = [k EXCEPT !.server = y, !.up = x]
      BY <1>1, <1>4, <3>1 DEF Exam!Closed
    <3>5. k = [up |-> k.up, down |-> k.down, client |-> k.client, server |-> k.server, err |-> k.err]
      BY <1>1, <1>2
    <3>6. j = [up |-> x, down |-> k.down, client |-> k.client, server |-> y, err |-> k.err]
      BY <3>2, <3>5
    <3>3. k.err = "none"
      BY <1>2, <1>4
    <3>4. QED
      BY <1>1, <1>4, <3>1, <3>3, <3>6
  <2>2. Shape(j, q)
    BY <1>6, <2>1, Shapes
  <2>3. j.down = d /\ j.err = "none" /\ j.client = "on" /\ j.server = "closed"
    BY <2>1
  <2>4. QED
    BY <1>1, <2>2, <2>3 DEF Answered, Quiet
<1>5. QED
  BY <1>2, <1>3, <1>4

-----------------------------------------------------------------------------
(* Steps that are about one client                                         *)

\* Function g is f but for c, where it is x.
Moved(f, g, c, x) == DOMAIN g = DOMAIN f /\ g[c] = x /\ \A d \in DOMAIN f \ {c} : g[d] = f[d]

\* EXCEPT moves, and what stays moves to what it is.
LEMMA Moves ==
  ASSUME NEW f, NEW c \in DOMAIN f
  PROVE  /\ \A x : Moved(f, [f EXCEPT ![c] = x], c, x)
         /\ Moved(f, f, c, f[c])
BY DEF Moved

\* Nothing changes for the other clients.
LEMMA ExamOthers ==
  ASSUME ExamInv, NEW c \in ExamMachines, NEW j, NEW q, NEW o, server' = server,
         Moved(conn, conn', c, j), Moved(asked, asked', c, q), Moved(own, own', c, o),
         Shape(j, q), Answered(server.exam, j, q, o)
  PROVE  /\ ExamClients'
         /\ DOMAIN conn' = ExamMachines /\ DOMAIN asked' = ExamMachines /\ DOMAIN own' = ExamMachines
         /\ conn'[c] = j /\ asked'[c] = q /\ own'[c] = o
         /\ \A d \in ExamMachines \ {c} : conn'[d] = conn[d] /\ asked'[d] = asked[d] /\ own'[d] = own[d]
<1>1. DOMAIN conn = ExamMachines /\ DOMAIN asked = ExamMachines /\ DOMAIN own = ExamMachines
  BY DEF ExamInv, ExamTypes
<1>2. /\ DOMAIN conn' = ExamMachines /\ DOMAIN asked' = ExamMachines /\ DOMAIN own' = ExamMachines
      /\ conn'[c] = j /\ asked'[c] = q /\ own'[c] = o
      /\ \A d \in ExamMachines \ {c} : conn'[d] = conn[d] /\ asked'[d] = asked[d] /\ own'[d] = own[d]
  BY <1>1 DEF Moved
<1>3. ExamClients'
  <2> SUFFICES ASSUME NEW d \in ExamMachines
               PROVE  Shape(conn'[d], asked'[d]) /\ Answered(server'.exam, conn'[d], asked'[d], own'[d])
    BY DEF ExamClients
  <2>1. Shape(conn[d], asked[d]) /\ Answered(server.exam, conn[d], asked[d], own[d])
    BY DEF ExamInv, ExamClients
  <2>2. QED
    BY <1>2, <2>1
<1>4. QED
  BY <1>2, <1>3

\* The children but that of c serve their clients as before.
LEMMA ExamOtherKids ==
  ASSUME ExamInv, NEW c \in ExamMachines, server' = server, NEW d \in children \ {c},
         \A x \in ExamMachines \ {c} : conn'[x] = conn[x] /\ asked'[x] = asked[x] /\ own'[x] = own[x],
         accu'[d] = accu[d]
  PROVE  Keeps(server'.exam, conn'[d], asked'[d], own'[d], accu'[d])
<1>1. d \in ExamMachines \ {c} /\ Keeps(server.exam, conn[d], asked[d], own[d], accu[d])
  BY DEF ExamInv, ExamTypes, ExamKids
<1>2. QED
  BY <1>1

\* And main those in its table but c.
LEMMA ExamOtherEntries ==
  ASSUME ExamInv, pc # "dead", NEW c \in ExamMachines, server' = server,
         NEW k \in LiveIn(fd_array), fd_array[k] # c,
         \A x \in ExamMachines \ {c} : conn'[x] = conn[x] /\ asked'[x] = asked[x] /\ own'[x] = own[x],
         fd_array'[k] = fd_array[k], accu_array'[k] = accu_array[k]
  PROVE  /\ fd_array'[k] \in ExamMachines \ children
         /\ Keeps(server'.exam, conn'[fd_array'[k]], asked'[fd_array'[k]], own'[fd_array'[k]], accu_array'[k])
<1>1. PICK d : d = fd_array[k]
  OBVIOUS
<1>2. d \in ExamMachines \ children /\ Keeps(server.exam, conn[d], asked[d], own[d], accu_array[k])
  BY <1>1 DEF ExamInv, ExamTable
<1>3. conn'[d] = conn[d] /\ asked'[d] = asked[d] /\ own'[d] = own[d] /\ fd_array'[k] = d
  BY <1>1, <1>2
<1>4. QED
  BY <1>2, <1>3

\* A step of client c, which changes its end of the connection only.
LEMMA ExamClientMoves ==
  ASSUME ExamInv, NEW c \in ExamMachines, NEW j, NEW q, NEW o,
         UNCHANGED <<server, pc, cur, accu_array, fd_array, conn_num, children, zombies, accu>>,
         killed' \in {killed, killed + 1},
         Moved(conn, conn', c, j), Moved(asked, asked', c, q), Moved(own, own', c, o),
         Shape(j, q), Answered(server.exam, j, q, o), j.server = "open" <=> conn[c].server = "open",
         killed' = killed /\ Quiet(conn[c]) => Quiet(j),
         \A a : Keeps(server.exam, conn[c], asked[c], own[c], a) => Keeps(server.exam, j, q, o, a)
  PROVE  ExamInv'
<1>1. /\ ExamClients'
      /\ DOMAIN conn' = ExamMachines /\ DOMAIN asked' = ExamMachines /\ DOMAIN own' = ExamMachines
      /\ conn'[c] = j /\ asked'[c] = q /\ own'[c] = o
      /\ \A d \in ExamMachines \ {c} : conn'[d] = conn[d] /\ asked'[d] = asked[d] /\ own'[d] = own[d]
  BY ExamOthers
<1>2. ASSUME NEW d \in ExamMachines, NEW a, Keeps(server.exam, conn[d], asked[d], own[d], a)
      PROVE  Keeps(server'.exam, conn'[d], asked'[d], own'[d], a)
  BY <1>1, <1>2
<1>3. killed' \in Nat /\ (killed' = 0 => killed = 0 /\ killed' = killed)
  <2>1. killed \in Nat
    BY DEF ExamInv, ExamTypes
  <2>2. QED
    BY <2>1
<1>4. ExamTypes'
  BY <1>1, <1>3 DEF ExamInv, ExamTypes
<1>5. ExamModes'
  BY DEF ExamInv, ExamModes
<1>6. ExamKids'
  <2>1. ASSUME NEW d \in children PROVE Keeps(server'.exam, conn'[d], asked'[d], own'[d], accu'[d])
    <3>1. PICK a : a = accu[d]
      OBVIOUS
    <3>2. d \in ExamMachines /\ Keeps(server.exam, conn[d], asked[d], own[d], a)
      BY <3>1 DEF ExamInv, ExamTypes, ExamKids
    <3>3. QED
      BY <1>2, <3>1, <3>2
  <2>2. QED
    BY <2>1 DEF ExamKids
<1>7. ExamMain'
  <2>1. ASSUME pc = "serve"
        PROVE  cur \in ExamMachines /\ Keeps(server'.exam, conn'[cur], asked'[cur], own'[cur], accu_array[1])
    <3>1. PICK d, a : d = cur /\ a = accu_array[1]
      OBVIOUS
    <3>2. d \in ExamMachines /\ Keeps(server.exam, conn[d], asked[d], own[d], a)
      BY <2>1, <3>1 DEF ExamInv, ExamMain
    <3>3. QED
      BY <1>2, <3>1, <3>2
  <2>2. QED
    BY <2>1 DEF ExamMain
<1>8. ExamTable'
  <2>1. ASSUME pc # "dead", NEW k \in LiveIn(fd_array)
        PROVE  /\ fd_array[k] \in ExamMachines \ children
               /\ Keeps(server'.exam, conn'[fd_array[k]], asked'[fd_array[k]], own'[fd_array[k]], accu_array[k])
               /\ \A l \in LiveIn(fd_array) : fd_array[k] = fd_array[l] => k = l
    <3>1. PICK d, a : d = fd_array[k] /\ a = accu_array[k]
      OBVIOUS
    <3>2. /\ d \in ExamMachines \ children /\ Keeps(server.exam, conn[d], asked[d], own[d], a)
          /\ \A l \in LiveIn(fd_array) : fd_array[k] = fd_array[l] => k = l
      BY <2>1, <3>1 DEF ExamInv, ExamTable
    <3>3. QED
      BY <1>2, <3>1, <3>2
  <2>2. QED
    BY <2>1 DEF ExamTable
<1>9. ExamCalm'
  <2>1. ASSUME killed' = 0, ~Forgets PROVE pc # "dead" /\ \A d \in ExamMachines : Quiet(conn'[d])
    <3>1. pc # "dead" /\ \A d \in ExamMachines : Quiet(conn[d])
      BY <1>3, <2>1 DEF ExamInv, ExamCalm
    <3>2. QED
      BY <1>1, <1>3, <2>1, <3>1
  <2>2. QED
    BY <2>1 DEF ExamCalm, Forgets
<1>10. ExamCount'
  <2>1. Opened(conn') = Opened(conn)
    BY <1>1 DEF Opened
  <2>2. QED
    BY <2>1 DEF ExamInv, ExamCount
<1>11. QED
  BY <1>1, <1>4, <1>5, <1>6, <1>7, <1>8, <1>9, <1>10 DEF ExamInv

-----------------------------------------------------------------------------
(* The clients                                                             *)

\* What a client's connection is made of.
LEMMA ExamParts ==
  ASSUME ExamInv, NEW c \in ExamMachines
  PROVE  /\ Shape(conn[c], asked[c]) /\ Answered(server.exam, conn[c], asked[c], own[c])
         /\ c \in DOMAIN conn /\ c \in DOMAIN asked /\ c \in DOMAIN own /\ c \in DOMAIN accu
         /\ conn[c] = [up |-> conn[c].up, down |-> conn[c].down, client |-> conn[c].client,
                       server |-> conn[c].server, err |-> conn[c].err]
         /\ conn[c].client \in {"off", "on", "gone"}
         /\ conn[c].server \in {"none", "queue", "open", "closed"}
         /\ conn[c].err \in {"none", "reset", "pipe"}
<1>1. Shape(conn[c], asked[c]) /\ Answered(server.exam, conn[c], asked[c], own[c])
  BY DEF ExamInv, ExamClients
<1>2. c \in DOMAIN conn /\ c \in DOMAIN asked /\ c \in DOMAIN own /\ c \in DOMAIN accu
  BY DEF ExamInv, ExamTypes
<1>3. QED
  BY <1>1, <1>2 DEF Shape

\* connect.
LEMMA ExamDials ==
  ASSUME ExamInv, NEW c \in ExamMachines, Exam!Dial(c)
  PROVE  ExamInv'
<1>1. PICK j, q : j = Exam!Dialled /\ q = Exam!NoLine
  OBVIOUS
<1>2. /\ conn[c] = Exam!NoConn /\ conn' = [conn EXCEPT ![c] = j] /\ asked' = [asked EXCEPT ![c] = q]
      /\ UNCHANGED <<server, pc, cur, accu_array, fd_array, conn_num, children, zombies, accu>>
      /\ own' = own /\ killed' = killed
  BY <1>1 DEF Exam!Dial, Exam!Moves, Exam!main
<1>3. /\ Moved(conn, conn', c, j) /\ Moved(asked, asked', c, q) /\ Moved(own, own', c, own[c])
  BY <1>2, ExamParts, Moves
<1>4. j = [up |-> <<>>, down |-> <<>>, client |-> "on", server |-> "queue", err |-> "none"]
  BY <1>1 DEF Exam!Dialled, Exam!NoConn
<1>5. j.up = <<>> /\ j.down = <<>> /\ j.server = "queue" /\ j.client = "on" /\ j.err = "none"
  BY <1>4
<1>6. Shape(j, q)
  BY <1>1, <1>4, Shapes
<1>7. conn[c].server = "none"
  BY <1>2 DEF Exam!NoConn
<1>8. \A a : ~Keeps(server.exam, conn[c], asked[c], own[c], a)
  BY <1>7 DEF Keeps
<1>9. Answered(server.exam, j, q, own[c]) /\ Quiet(j)
  BY <1>5, OneIsSome DEF Answered, Quiet
<1>10. killed' \in {killed, killed + 1} /\ (j.server = "open" <=> conn[c].server = "open")
  BY <1>2, <1>5, <1>7
<1>11. QED
  BY <1>2, <1>3, <1>6, <1>8, <1>9, <1>10, ExamClientMoves

\* A command is typed when nothing is on its way.
LEMMA ExamTypesLine ==
  ASSUME ExamInv, NEW c \in ExamMachines, Exam!TypeLine(c)
  PROVE  ExamInv'
<1>1. PICK k, q : k = conn[c] /\ q = asked[c]
  OBVIOUS
<1>2. PICK l, o, j :
        /\ l \in Exam!Lines /\ k.client = "on" /\ q = Exam!NoLine /\ o = Exam!Accumulate(own[c], l) /\ j = Exam!Sent(k, l)
        /\ conn' = [conn EXCEPT ![c] = j] /\ asked' = [asked EXCEPT ![c] = l]
        /\ own' = [own EXCEPT ![c] = o]
        /\ UNCHANGED <<server, pc, cur, accu_array, fd_array, conn_num, children, zombies, accu>>
        /\ killed' = killed
  BY <1>1 DEF Exam!TypeLine, Exam!Waits, Exam!Moves, Exam!main
<1>3. Moved(conn, conn', c, j) /\ Moved(asked, asked', c, l) /\ Moved(own, own', c, o)
  BY <1>2, ExamParts, Moves
<1>4. /\ k.up = <<>> /\ k.down = <<>> /\ k.err = "none"
      /\ k = [up |-> k.up, down |-> k.down, client |-> k.client, server |-> k.server, err |-> k.err]
      /\ k.server \in {"none", "queue", "open", "closed"}
  <2>1. Shape(k, q)
    BY <1>1, ExamParts
  <2>2. QED
    BY <1>2, <2>1 DEF Shape
<1>5. l # Exam!NoLine
  <2>1. \/ l = Exam!Line("EXIT", Exam!Missing, <<>>)
        \/ \E cmd \in {"SET", "ADD", "SUB", "?"} : l = Exam!Line(cmd, Exam!Missing, <<5>>)
        \/ l = Exam!Line("ADD", 2, <<2, 3>>) \/ l = Exam!Line("MUL", 2, <<4>>)
        \/ l = Exam!Line("MUL", Exam!Missing, <<>>)
    BY <1>2 DEF Exam!Lines
  <2>2. \A cmd, times, opnds : Exam!Line(cmd, times, opnds).cmd = cmd
    BY DEF Exam!Line
  <2>3. l.cmd # ""
    <3>1. l.cmd \in {"EXIT", "SET", "ADD", "SUB", "?", "MUL"}
      BY <2>1, <2>2
    <3>2. QED
      BY <3>1
  <2>4. Exam!NoLine.cmd = ""
    BY DEF Exam!NoLine
  <2>5. QED
    BY <2>3, <2>4
<1>6. PICK u : u = IF k.server = "closed" THEN <<>> ELSE <<l>>
  OBVIOUS
<1>7. j = [up |-> u, down |-> <<>>, client |-> "on", server |-> k.server, err |-> "none"]
  <2>1. CASE k.server = "closed"
    BY <1>2, <1>4, <1>6, <2>1 DEF Exam!Sent
  <2>2. CASE k.server # "closed"
    <3>1. PICK y : y = Append(k.up, l)
      OBVIOUS
    <3>2. j = [k EXCEPT !.up = y] /\ y = <<l>>
      BY <1>2, <1>4, <2>2, <3>1 DEF Exam!Sent
    <3>3. j = [up |-> y, down |-> k.down, client |-> k.client, server |-> k.server, err |-> k.err]
      BY <1>4, <3>2
    <3>4. QED
      BY <1>2, <1>4, <1>6, <2>2, <3>2, <3>3
  <2>3. QED
    BY <2>1, <2>2
<1>8. j.up = u /\ j.down = <<>> /\ j.client = "on" /\ j.server = k.server /\ j.err = "none"
  BY <1>7
<1>9. Shape(j, l)
  <2>1. u = <<>> \/ (u = <<l>> /\ l # Exam!NoLine)
    BY <1>5, <1>6
  <2>2. k.server = "queue" => u # <<>>
    BY <1>6, OneIsSome
  <2>3. k.server = "queue" => (u = <<>> => l = Exam!NoLine)
    BY <2>2
  <2>4. QED
    BY <1>4, <1>7, <2>1, <2>3, Shapes
<1>10. Answered(server.exam, j, l, o) /\ Quiet(j)
  BY <1>8, OneIsSome DEF Answered, Quiet
<1>11. ASSUME NEW a, Keeps(server.exam, k, q, own[c], a) PROVE Keeps(server.exam, j, l, o, a)
  <2>1. k.server = "open" /\ (server.exam = "old" => own[c] = a)
    BY <1>4, <1>11 DEF Keeps
  <2>2. u = <<l>> /\ u # <<>>
    BY <1>6, <2>1, OneIsSome
  <2>3. QED
    BY <1>2, <1>8, <2>1, <2>2 DEF Keeps
<1>12. killed' \in {killed, killed + 1} /\ (j.server = "open" <=> conn[c].server = "open")
  BY <1>1, <1>2, <1>8
<1>13. QED
  BY <1>1, <1>2, <1>3, <1>9, <1>10, <1>11, <1>12, ExamClientMoves

\* The answer is read.
LEMMA ExamReads ==
  ASSUME ExamInv, NEW c \in ExamMachines, Exam!Read(c)
  PROVE  ExamInv'
<1>1. PICK k, q, j : k = conn[c] /\ q = Exam!NoLine /\ j = Exam!ReadRest(k)
  OBVIOUS
<1>2. /\ Exam!HasAnswer(k) /\ conn' = [conn EXCEPT ![c] = j] /\ asked' = [asked EXCEPT ![c] = q]
      /\ UNCHANGED <<server, pc, cur, accu_array, fd_array, conn_num, children, zombies, accu>>
      /\ own' = own /\ killed' = killed
  BY <1>1 DEF Exam!Read, Exam!Moves, Exam!main
<1>3. Moved(conn, conn', c, j) /\ Moved(asked, asked', c, q) /\ Moved(own, own', c, own[c])
  BY <1>2, ExamParts, Moves
<1>4. PICK v : /\ k.up = <<>> /\ k.down = <<[val |-> v]>> /\ k.client = "on" /\ k.err = "none"
               /\ k = [up |-> k.up, down |-> k.down, client |-> k.client, server |-> k.server, err |-> k.err]
               /\ k.server \in {"none", "open", "closed"}
  <2>1. Shape(k, asked[c]) /\ k.down # <<>>
    BY <1>1, <1>2, ExamParts DEF Exam!HasAnswer
  <2>2. QED
    BY <2>1 DEF Shape
<1>5. j = [up |-> <<>>, down |-> <<>>, client |-> "on", server |-> k.server, err |-> "none"]
  <2>1. PICK y : y = Tail(k.down)
    OBVIOUS
  <2>2. y = <<>> /\ j = [k EXCEPT !.down = y]
    BY <1>1, <1>4, <2>1 DEF Exam!ReadRest
  <2>3. j = [up |-> k.up, down |-> y, client |-> k.client, server |-> k.server, err |-> k.err]
    BY <1>4, <2>2
  <2>4. QED
    BY <1>4, <2>2, <2>3
<1>6. j.up = <<>> /\ j.down = <<>> /\ j.client = "on" /\ j.server = k.server /\ j.err = "none"
  BY <1>5
<1>7. Shape(j, q)
  BY <1>4, <1>5, Shapes
<1>8. Answered(server.exam, j, q, own[c]) /\ Quiet(j)
  BY <1>6, OneIsSome DEF Answered, Quiet
<1>9. ASSUME NEW a, Keeps(server.exam, k, asked[c], own[c], a) PROVE Keeps(server.exam, j, q, own[c], a)
  BY <1>4, <1>6, <1>9 DEF Keeps
<1>10. killed' \in {killed, killed + 1} /\ (j.server = "open" <=> conn[c].server = "open")
  BY <1>1, <1>2, <1>6
<1>11. QED
  BY <1>1, <1>2, <1>3, <1>7, <1>8, <1>9, <1>10, ExamClientMoves

\* A client that sees the end is off.
LEMMA ExamSeesEnd ==
  ASSUME ExamInv, NEW c \in ExamMachines, Exam!End(c)
  PROVE  ExamInv'
<1>1. PICK k, j : k = conn[c] /\ j = Exam!NoConn
  OBVIOUS
<1>2. /\ Exam!SeesEnd(k) /\ conn' = [conn EXCEPT ![c] = j]
      /\ UNCHANGED <<server, pc, cur, accu_array, fd_array, conn_num, children, zombies, accu>>
      /\ own' = own /\ asked' = asked /\ killed' = killed
  BY <1>1 DEF Exam!End, Exam!Moves, Exam!main
<1>3. Moved(conn, conn', c, j) /\ Moved(asked, asked', c, asked[c]) /\ Moved(own, own', c, own[c])
  BY <1>2, ExamParts, Moves
<1>4. k.server = "closed"
  BY <1>2 DEF Exam!SeesEnd
<1>5. j = [up |-> <<>>, down |-> <<>>, client |-> "off", server |-> "none", err |-> "none"]
  BY <1>1 DEF Exam!NoConn
<1>6. j.up = <<>> /\ j.down = <<>> /\ j.client = "off" /\ j.server = "none" /\ j.err = "none"
  BY <1>5
<1>7. Shape(j, asked[c])
  BY <1>5, Shapes
<1>8. Answered(server.exam, j, asked[c], own[c]) /\ Quiet(j)
  BY <1>6, OneIsSome DEF Answered, Quiet
<1>9. \A a : ~Keeps(server.exam, k, asked[c], own[c], a)
  BY <1>4 DEF Keeps
<1>10. killed' \in {killed, killed + 1} /\ (j.server = "open" <=> conn[c].server = "open")
  BY <1>1, <1>2, <1>4, <1>6
<1>11. QED
  BY <1>1, <1>2, <1>3, <1>7, <1>8, <1>9, <1>10, ExamClientMoves

\* A client goes away: at the end of its input it waits for nothing.
LEMMA ExamGoes ==
  ASSUME ExamInv, NEW c \in ExamMachines, conn[c].client = "on",
         Exam!Moves(c, Exam!Gone(conn[c])), UNCHANGED <<own, asked>>,
         \/ killed' = killed + 1
         \/ killed' = killed /\ asked[c] = Exam!NoLine
  PROVE  ExamInv'
<1>1. PICK k, q, j, d : k = conn[c] /\ q = asked[c] /\ j = Exam!Gone(k) /\ d = k.down
  OBVIOUS
<1>2. /\ conn' = [conn EXCEPT ![c] = j]
      /\ UNCHANGED <<server, pc, cur, accu_array, fd_array, conn_num, children, zombies, accu>>
  BY <1>1 DEF Exam!Moves, Exam!main
<1>3. Moved(conn, conn', c, j) /\ Moved(asked, asked', c, q) /\ Moved(own, own', c, own[c])
  BY <1>1, <1>2, ExamParts, Moves
<1>4. /\ k = [up |-> k.up, down |-> d, client |-> k.client, server |-> k.server, err |-> k.err]
      /\ k.server \in {"none", "queue", "open", "closed"} /\ k.err = "none"
      /\ k.up = <<>> \/ (k.up = <<q>> /\ q # Exam!NoLine)
      /\ d # <<>> => q # Exam!NoLine
      /\ k.server = "queue" => (k.up = <<>> => q = Exam!NoLine)
  <2>1. Shape(k, q) /\ k.client = "on"
    BY <1>1, ExamParts
  <2>2. QED
    BY <1>1, <2>1 DEF Shape
<1>5. PICK e : e = IF d # <<>> THEN "reset" ELSE "none"
  OBVIOUS
<1>6. CASE k.server = "closed"
  <2>1. j = [up |-> <<>>, down |-> <<>>, client |-> "off", server |-> "none", err |-> "none"]
    BY <1>1, <1>6 DEF Exam!Gone, Exam!NoConn
  <2>2. j.up = <<>> /\ j.down = <<>> /\ j.client = "off" /\ j.server = "none" /\ j.err = "none"
    BY <2>1
  <2>3. Shape(j, q)
    BY <2>1, Shapes
  <2>4. Answered(server.exam, j, q, own[c]) /\ Quiet(j)
    BY <2>2, OneIsSome DEF Answered, Quiet
  <2>5. \A a : ~Keeps(server.exam, k, q, own[c], a)
    BY <1>6 DEF Keeps
  <2>6. killed' \in {killed, killed + 1} /\ (j.server = "open" <=> conn[c].server = "open")
    BY <1>1, <1>6, <2>2
  <2>7. QED
    BY <1>1, <1>2, <1>3, <2>3, <2>4, <2>5, <2>6, ExamClientMoves
<1>7. CASE k.server # "closed"
  <2>1. j = [up |-> k.up, down |-> <<>>, client |-> "gone", server |-> k.server, err |-> e]
    <3>1. j = [k EXCEPT !.client = "gone", !.down = <<>>, !.err = e]
      BY <1>1, <1>4, <1>5, <1>7 DEF Exam!Gone
    <3>2. QED
      BY <1>4, <3>1
  <2>2. j.up = k.up /\ j.down = <<>> /\ j.client = "gone" /\ j.server = k.server /\ j.err = e
    BY <2>1
  <2>3. Shape(j, q)
    <3>1. e \in {"none", "reset", "pipe"}
      BY <1>5
    <3>2. j = [up |-> j.up, down |-> j.down, client |-> j.client, server |-> j.server, err |-> j.err]
      BY <2>1
    <3>3. QED
      BY <1>4, <2>2, <3>1, <3>2 DEF Shape
  <2>4. Answered(server.exam, j, q, own[c])
    BY <2>2, OneIsSome DEF Answered
  <2>5. killed' = killed => Quiet(j)
    <3>1. ASSUME killed' = killed PROVE q = Exam!NoLine
      <4>1. killed \in Nat
        BY DEF ExamInv, ExamTypes
      <4>2. killed' # killed + 1
        BY <3>1, <4>1
      <4>3. QED
        BY <1>1, <4>2
    <3>2. QED
      BY <1>4, <1>5, <2>2, <3>1 DEF Quiet
  <2>6. ASSUME NEW a, Keeps(server.exam, k, q, own[c], a) PROVE Keeps(server.exam, j, q, own[c], a)
    BY <2>2, <2>6 DEF Keeps
  <2>7. killed' \in {killed, killed + 1} /\ (j.server = "open" <=> conn[c].server = "open")
    BY <1>1, <2>2
  <2>8. QED
    BY <1>1, <1>2, <1>3, <2>3, <2>4, <2>5, <2>6, <2>7, ExamClientMoves
<1>8. QED
  BY <1>6, <1>7

\* Every step of a client.
LEMMA ExamClientGoesOn ==
  ASSUME ExamInv, NEW c \in ExamMachines, Exam!Client(c)
  PROVE  ExamInv'
<1>1. CASE Exam!Dial(c) \/ Exam!TypeLine(c) \/ Exam!Read(c) \/ Exam!End(c)
  BY <1>1, ExamDials, ExamTypesLine, ExamReads, ExamSeesEnd
<1>2. CASE Exam!EndOfInput(c)
  BY <1>2, ExamGoes DEF Exam!EndOfInput, Exam!Waits
<1>3. CASE Exam!Kill(c)
  BY <1>3, ExamGoes DEF Exam!Kill
<1>4. QED
  BY <1>1, <1>2, <1>3 DEF Exam!Client

-----------------------------------------------------------------------------
(* Main, between its clients                                               *)

\* A step of main or of its signal handler that leaves the connections alone.
LEMMA ExamRests ==
  ASSUME ExamInv, UNCHANGED <<server, conn, children, accu, own, asked, killed, accu_array, cur>>,
         fd_array' \in {fd_array, <<>>},
         \/ UNCHANGED <<zombies, conn_num>>
         \/ zombies' = 0 /\ conn_num' = conn_num - zombies,
         pc # "dead", pc' \notin {"dead", "serve"} \/ pc' = pc,
         server.way \in {"iterative", "fork"} => pc' = pc
  PROVE  ExamInv'
<1>1. ExamTypes'
  <2>1. fd_array' \in Seq(ExamMachines \cup {"-1"}) /\ Len(fd_array') <= MAX_FD_NUM
    <3>1. fd_array \in Seq(ExamMachines \cup {"-1"}) /\ Len(fd_array) <= MAX_FD_NUM
      BY DEF ExamInv, ExamTypes
    <3>2. <<>> \in Seq(ExamMachines \cup {"-1"}) /\ Len(<<>>) = 0
      OBVIOUS
    <3>3. 0 <= MAX_FD_NUM
      BY ProgramsAssumption
    <3>4. CASE fd_array' = fd_array
      BY <3>1, <3>4
    <3>5. CASE fd_array' = <<>>
      BY <3>2, <3>3, <3>5
    <3>6. QED
      BY <3>4, <3>5
  <2>2. zombies' \in Nat
    BY DEF ExamInv, ExamTypes
  <2>3. QED
    BY <2>1, <2>2 DEF ExamInv, ExamTypes
<1>2. ExamModes'
  BY DEF ExamInv, ExamModes
<1>3. ExamClients'
  BY DEF ExamInv, ExamClients
<1>4. ExamKids'
  BY DEF ExamInv, ExamKids
<1>5. ExamMain'
  BY DEF ExamInv, ExamMain
<1>6. ExamTable'
  <2>1. ASSUME NEW k \in LiveIn(fd_array')
        PROVE  /\ fd_array'[k] \in ExamMachines \ children
               /\ Keeps(server'.exam, conn'[fd_array'[k]], asked'[fd_array'[k]], own'[fd_array'[k]],
                        accu_array'[k])
               /\ \A l \in LiveIn(fd_array') : fd_array'[k] = fd_array'[l] => k = l
    <3>1. fd_array' # <<>>
      BY <2>1 DEF LiveIn
    <3>2. fd_array' = fd_array
      BY <3>1
    <3>3. ExamTable
      BY DEF ExamInv
    <3>4. QED
      BY <2>1, <3>2, <3>3 DEF ExamTable
  <2>2. QED
    BY <2>1 DEF ExamTable
<1>7. ExamCalm'
  BY DEF ExamInv, ExamCalm, Forgets
<1>8. ExamCount'
  <2>1. ASSUME server.way = "switch"
        PROVE  IsFiniteSet(Opened(conn)) /\ conn_num' = zombies' + Cardinality(Opened(conn))
    <3>1. IsFiniteSet(Opened(conn)) /\ conn_num = zombies + Cardinality(Opened(conn)) /\ zombies \in Nat
      BY <2>1 DEF ExamInv, ExamCount, ExamTypes
    <3>2. Cardinality(Opened(conn)) \in Nat
      BY <3>1, FS_CardinalityType
    <3>3. PICK m : m = Cardinality(Opened(conn))
      OBVIOUS
    <3>4. m \in Nat /\ conn_num = zombies + m
      BY <3>1, <3>2, <3>3
    <3>5. conn_num' = zombies' + m
      BY <3>1, <3>4
    <3>6. QED
      BY <3>1, <3>3, <3>5
  <2>2. QED
    BY <2>1 DEF ExamCount
<1>9. QED
  BY <1>1, <1>2, <1>3, <1>4, <1>5, <1>6, <1>7, <1>8 DEF ExamInv

\* Looking at the number and the mode, select, and a full table.
LEMMA ExamLooks ==
  ASSUME ExamInv,
         Exam!Top \/ Exam!SetSelect \/ Exam!Mode \/ Exam!Again \/ Exam!Select \/ Exam!TableFull
  PROVE  ExamInv'
<1>1. /\ UNCHANGED <<server, conn, children, accu, own, asked, killed, accu_array, cur>>
      /\ fd_array' \in {fd_array, <<>>} /\ UNCHANGED <<zombies, conn_num>>
  BY DEF Exam!Top, Exam!SetSelect, Exam!Mode, Exam!Again, Exam!Select, Exam!TableFull
<1>2. pc \in {"top", "set", "mode", "select", "round", "waiting"}
  BY DEF Exam!Top, Exam!SetSelect, Exam!Mode, Exam!Again, Exam!Select, Exam!TableFull
<1>3. pc' \in {"top", "set", "mode", "select", "accept", "round", "waiting"}
  BY DEF Exam!Top, Exam!SetSelect, Exam!Mode, Exam!Again, Exam!Select, Exam!TableFull
<1>4. server.way \notin {"iterative", "fork"}
  BY <1>2 DEF ExamInv, ExamModes
<1>5. pc # "dead" /\ pc' \notin {"dead", "serve"}
  BY <1>2, <1>3
<1>6. QED
  BY <1>1, <1>4, <1>5, ExamRests

\* The children that ended are waited for, all of them.
LEMMA ExamReaps ==
  ASSUME ExamInv, Exam!Reap
  PROVE  ExamInv'
<1>1. /\ UNCHANGED <<server, conn, children, accu, own, asked, killed, accu_array, cur>>
      /\ fd_array' = fd_array /\ zombies' = 0 /\ conn_num' = conn_num - zombies
      /\ server.way = "switch" /\ pc # "dead" /\ (pc' = pc \/ pc' = "round")
  BY DEF Exam!Reap, Exam!All
<1>2. server.way \notin {"iterative", "fork"} /\ fd_array' \in {fd_array, <<>>}
      /\ (pc' \notin {"dead", "serve"} \/ pc' = pc)
  BY <1>1
<1>3. QED
  BY <1>1, <1>2, ExamRests

\* A client that waited is accepted by a process whose accumulator is a.
LEMMA ExamTakesIn ==
  ASSUME ExamInv, NEW c \in ExamMachines, NEW a, conn[c].server = "queue",
         conn' = [conn EXCEPT ![c] = Exam!Accepted(@)],
         own' = [own EXCEPT ![c] = Exam!OwnFrom(a, c)], UNCHANGED <<server, asked>>
  PROVE  /\ ExamClients'
         /\ DOMAIN conn' = ExamMachines /\ DOMAIN asked' = ExamMachines /\ DOMAIN own' = ExamMachines
         /\ \A d \in ExamMachines \ {c} : conn'[d] = conn[d] /\ asked'[d] = asked[d] /\ own'[d] = own[d]
         /\ Keeps(server'.exam, conn'[c], asked'[c], own'[c], a)
         /\ (\A d \in ExamMachines : Quiet(conn[d])) => \A d \in ExamMachines : Quiet(conn'[d])
         /\ IsFiniteSet(Opened(conn)) =>
              /\ IsFiniteSet(Opened(conn')) /\ Cardinality(Opened(conn)) \in Nat
              /\ Cardinality(Opened(conn')) = Cardinality(Opened(conn)) + 1
         /\ c \notin children
         /\ pc # "dead" => \A k \in LiveIn(fd_array) : fd_array[k] # c
<1>1. PICK k, q, o, j : /\ k = conn[c] /\ q = asked[c] /\ o = Exam!Accumulate(a, q)
                        /\ j = Exam!Accepted(k)
  OBVIOUS
<1>2. conn' = [conn EXCEPT ![c] = j] /\ own' = [own EXCEPT ![c] = o] /\ asked' = asked
  BY <1>1 DEF Exam!OwnFrom
<1>3. Moved(conn, conn', c, j) /\ Moved(asked, asked', c, q) /\ Moved(own, own', c, o)
  <2>1. c \in DOMAIN conn /\ c \in DOMAIN asked /\ c \in DOMAIN own
    BY ExamParts
  <2>2. Moved(conn, conn', c, j)
    <3>1. Moved(conn, [conn EXCEPT ![c] = j], c, j)
      BY <2>1, Moves
    <3>2. QED
      BY <1>2, <3>1, Zenon
  <2>3. Moved(own, own', c, o)
    <3>1. Moved(own, [own EXCEPT ![c] = o], c, o)
      BY <2>1, Moves
    <3>2. QED
      BY <1>2, <3>1, Zenon
  <2>4. Moved(asked, asked', c, q)
    BY <1>1, <1>2, <2>1, Moves
  <2>5. QED
    BY <2>2, <2>3, <2>4
<1>4. /\ k = [up |-> k.up, down |-> k.down, client |-> k.client, server |-> k.server, err |-> k.err]
      /\ k.down = <<>> /\ (k.up = <<>> => q = Exam!NoLine)
  <2>1. Shape(k, q) /\ k.server = "queue"
    BY <1>1, ExamParts
  <2>2. QED
    BY <2>1 DEF Shape
<1>5. j = [up |-> k.up, down |-> k.down, client |-> k.client, server |-> "open", err |-> k.err]
  <2>1. j = [k EXCEPT !.server = "open"]
    BY <1>1 DEF Exam!Accepted
  <2>2. QED
    BY <1>4, <2>1
<1>6. /\ j.up = k.up /\ j.down = <<>> /\ j.client = k.client /\ j.server = "open" /\ j.err = k.err
      /\ j = [up |-> j.up, down |-> j.down, client |-> j.client, server |-> j.server, err |-> j.err]
  BY <1>4, <1>5
<1>7. Shape(j, q)
  <2>1. Shape(k, q) /\ k.server = "queue"
    BY <1>1, ExamParts
  <2>2. /\ k.client \in {"on", "gone"} /\ k.err \in {"none", "reset", "pipe"}
        /\ (k.client # "gone" => k.err = "none") /\ (k.up = <<>> \/ (k.up = <<q>> /\ q # Exam!NoLine))
    BY <2>1 DEF Shape
  <2>3. QED
    BY <1>6, <2>2 DEF Shape
<1>8. Answered(server.exam, j, q, o)
  BY <1>6, OneIsSome DEF Answered
<1>9. /\ ExamClients'
      /\ DOMAIN conn' = ExamMachines /\ DOMAIN asked' = ExamMachines /\ DOMAIN own' = ExamMachines
      /\ conn'[c] = j /\ asked'[c] = q /\ own'[c] = o
      /\ \A d \in ExamMachines \ {c} : conn'[d] = conn[d] /\ asked'[d] = asked[d] /\ own'[d] = own[d]
  BY <1>3, <1>7, <1>8, ExamOthers
<1>10. Keeps(server.exam, j, q, o, a)
  <2>1. q = Exam!NoLine => o = a
    <3>1. Exam!NoLine.cmd = ""
      BY DEF Exam!NoLine
    <3>2. QED
      BY <1>1, <3>1 DEF Exam!Accumulate
  <2>2. QED
    BY <1>1, <1>4, <1>6, <2>1 DEF Keeps
<1>11. Quiet(k) => Quiet(j)
  BY <1>6 DEF Quiet
<1>12. Opened(conn') = Opened(conn) \cup {c} /\ c \notin Opened(conn)
  BY <1>6, <1>9 DEF Opened
<1>13. IsFiniteSet(Opened(conn)) =>
         /\ IsFiniteSet(Opened(conn')) /\ Cardinality(Opened(conn)) \in Nat
         /\ Cardinality(Opened(conn')) = Cardinality(Opened(conn)) + 1
  <2>1. PICK S, R : S = Opened(conn) /\ R = Opened(conn')
    OBVIOUS
  <2>2. R = S \cup {c} /\ c \notin S
    BY <1>12, <2>1
  <2>3. IsFiniteSet(S) => IsFiniteSet(R) /\ Cardinality(S) \in Nat /\ Cardinality(R) = Cardinality(S) + 1
    BY <2>2, FS_AddElement, FS_CardinalityType
  <2>4. QED
    BY <2>1, <2>3
<1>14. c \notin children
  BY DEF ExamInv, ExamKids, Keeps
<1>15. pc # "dead" => \A x \in LiveIn(fd_array) : fd_array[x] # c
  BY DEF ExamInv, ExamTable, Keeps
<1>16. QED
  BY <1>1, <1>9, <1>10, <1>11, <1>13, <1>14, <1>15

-----------------------------------------------------------------------------
(* Main accepts                                                            *)

\* P1 serves the client itself.
LEMMA ExamServesNext ==
  ASSUME ExamInv, pc = "accept", server.way = "iterative", NEW c \in ExamMachines, conn[c].server = "queue",
         conn' = [conn EXCEPT ![c] = Exam!Accepted(@)], cur' = c, pc' = "serve",
         accu_array' = [accu_array EXCEPT ![1] = 0], own' = [own EXCEPT ![c] = Exam!OwnFrom(0, c)],
         UNCHANGED <<server, children, accu, conn_num, fd_array, zombies, asked, killed>>
  PROVE  ExamInv'
<1>1. /\ ExamClients'
      /\ DOMAIN conn' = ExamMachines /\ DOMAIN asked' = ExamMachines /\ DOMAIN own' = ExamMachines
      /\ Keeps(server'.exam, conn'[c], asked'[c], own'[c], 0)
      /\ (\A d \in ExamMachines : Quiet(conn[d])) => \A d \in ExamMachines : Quiet(conn'[d])
  BY ExamTakesIn
<1>2. children = {} /\ fd_array = <<>> /\ LiveIn(fd_array) = {}
  BY DEF ExamInv, ExamModes, LiveIn
<1>3. DOMAIN accu_array' = 1..MAX_FD_NUM /\ accu_array'[1] = 0
  <2>1. DOMAIN accu_array = 1..MAX_FD_NUM /\ 1 \in 1..MAX_FD_NUM
    BY ProgramsAssumption DEF ExamInv, ExamTypes
  <2>2. QED
    BY <2>1
<1>4. ExamTypes'
  BY <1>1, <1>3 DEF ExamInv, ExamTypes
<1>5. ExamModes'
  BY <1>2 DEF ExamInv, ExamModes
<1>6. ExamKids' /\ ExamTable'
  BY <1>2 DEF ExamKids, ExamTable
<1>7. ExamMain'
  BY <1>1, <1>3 DEF ExamMain
<1>8. ExamCalm'
  BY <1>1 DEF ExamInv, ExamCalm, Forgets
<1>9. ExamCount'
  BY DEF ExamCount
<1>10. QED
  BY <1>1, <1>4, <1>5, <1>6, <1>7, <1>8, <1>9 DEF ExamInv

\* P2 and P4 fork.
LEMMA ExamForks ==
  ASSUME ExamInv, pc = "accept", server.way # "iterative", NEW c \in ExamMachines, conn[c].server = "queue",
         NEW a, conn' = [conn EXCEPT ![c] = Exam!Accepted(@)], children' = children \cup {c},
         accu' = [accu EXCEPT ![c] = a], own' = [own EXCEPT ![c] = Exam!OwnFrom(a, c)], pc' = Exam!Start,
         conn_num' = IF server.way = "switch" THEN conn_num + 1 ELSE conn_num,
         UNCHANGED <<server, cur, accu_array, fd_array, zombies, asked, killed>>
  PROVE  ExamInv'
<1>1. /\ ExamClients'
      /\ DOMAIN conn' = ExamMachines /\ DOMAIN asked' = ExamMachines /\ DOMAIN own' = ExamMachines
      /\ \A d \in ExamMachines \ {c} : conn'[d] = conn[d] /\ asked'[d] = asked[d] /\ own'[d] = own[d]
      /\ Keeps(server'.exam, conn'[c], asked'[c], own'[c], a)
      /\ (\A d \in ExamMachines : Quiet(conn[d])) => \A d \in ExamMachines : Quiet(conn'[d])
      /\ IsFiniteSet(Opened(conn)) =>
           /\ IsFiniteSet(Opened(conn')) /\ Cardinality(Opened(conn)) \in Nat
           /\ Cardinality(Opened(conn')) = Cardinality(Opened(conn)) + 1
      /\ c \notin children
      /\ \A k \in LiveIn(fd_array) : fd_array[k] # c
  BY ExamTakesIn
<1>2. /\ pc' \in {"select", "top", "accept"} /\ (server.way = "fork" => pc' = "accept")
      /\ pc' # "dead" /\ pc' # "serve"
  BY DEF Exam!Start
<1>3. /\ DOMAIN accu' = ExamMachines /\ accu'[c] = a /\ children' \subseteq ExamMachines
      /\ \A d \in children : d \in ExamMachines /\ d # c /\ accu'[d] = accu[d]
  BY <1>1 DEF ExamInv, ExamTypes
<1>4. ExamTypes'
  BY <1>1, <1>3 DEF ExamInv, ExamTypes
<1>5. ExamModes'
  BY <1>2 DEF ExamInv, ExamModes
<1>6. ExamKids'
  <2>1. ASSUME NEW d \in children PROVE Keeps(server'.exam, conn'[d], asked'[d], own'[d], accu'[d])
    BY <1>1, <1>3, ExamOtherKids
  <2>2. QED
    BY <1>1, <1>3, <2>1 DEF ExamKids
<1>7. ExamMain'
  BY <1>2 DEF ExamMain
<1>8. ExamTable'
  <2>1. ASSUME NEW k \in LiveIn(fd_array)
        PROVE  /\ fd_array'[k] \in ExamMachines \ children'
               /\ Keeps(server'.exam, conn'[fd_array'[k]], asked'[fd_array'[k]], own'[fd_array'[k]],
                        accu_array'[k])
               /\ \A l \in LiveIn(fd_array') : fd_array'[k] = fd_array'[l] => k = l
    <3>1. /\ fd_array'[k] \in ExamMachines \ children
          /\ Keeps(server'.exam, conn'[fd_array'[k]], asked'[fd_array'[k]], own'[fd_array'[k]],
                   accu_array'[k])
      BY <1>1, ExamOtherEntries
    <3>2. \A l \in LiveIn(fd_array) : fd_array[k] = fd_array[l] => k = l
      BY DEF ExamInv, ExamTable
    <3>3. QED
      BY <1>1, <3>1, <3>2
  <2>2. QED
    BY <2>1 DEF ExamTable
<1>9. ExamCalm'
  BY <1>1, <1>2 DEF ExamInv, ExamCalm, Forgets
<1>10. ExamCount'
  <2>1. ASSUME server.way = "switch"
        PROVE  IsFiniteSet(Opened(conn')) /\ conn_num' = zombies' + Cardinality(Opened(conn'))
    <3>1. IsFiniteSet(Opened(conn)) /\ conn_num = zombies + Cardinality(Opened(conn)) /\ zombies \in Nat
      BY <2>1 DEF ExamInv, ExamCount, ExamTypes
    <3>2. PICK m, x : m = Cardinality(Opened(conn)) /\ x = Cardinality(Opened(conn'))
      OBVIOUS
    <3>3. IsFiniteSet(Opened(conn')) /\ m \in Nat /\ x = m + 1 /\ conn_num = zombies + m
      BY <1>1, <3>1, <3>2
    <3>4. conn_num' = zombies' + x
      BY <2>1, <3>1, <3>3
    <3>5. QED
      BY <3>2, <3>3, <3>4
  <2>2. QED
    BY <2>1 DEF ExamCount
<1>11. QED
  BY <1>1, <1>4, <1>5, <1>6, <1>7, <1>8, <1>9, <1>10 DEF ExamInv

\* accept, in P1, P2 and P4.
LEMMA ExamTakesNext ==
  ASSUME ExamInv, Exam!Accept
  PROVE  ExamInv'
<1>1. PICK c \in ExamMachines :
        /\ conn[c].server = "queue" /\ conn' = [conn EXCEPT ![c] = Exam!Accepted(@)]
        /\ IF server.way = "iterative"
             THEN /\ cur' = c /\ pc' = "serve" /\ accu_array' = [accu_array EXCEPT ![1] = 0]
                  /\ own' = [own EXCEPT ![c] = Exam!OwnFrom(0, c)]
                  /\ UNCHANGED <<children, accu, conn_num>>
             ELSE LET start == IF server.way = "switch" THEN accu_array[1] ELSE 0
                  IN  /\ children' = children \cup {c} /\ accu' = [accu EXCEPT ![c] = start]
                      /\ own' = [own EXCEPT ![c] = Exam!OwnFrom(start, c)] /\ pc' = Exam!Start
                      /\ conn_num' = IF server.way = "switch" THEN conn_num + 1 ELSE conn_num
                      /\ UNCHANGED <<cur, accu_array>>
  BY DEF Exam!Accept, Exam!Queued
<1>2. UNCHANGED <<server, fd_array, zombies, asked, killed>> /\ pc = "accept"
  BY DEF Exam!Accept
<1>3. CASE server.way = "iterative"
  BY <1>1, <1>2, <1>3, ExamServesNext
<1>4. CASE server.way # "iterative"
  <2>1. PICK a : a = IF server.way = "switch" THEN accu_array[1] ELSE 0
    OBVIOUS
  <2>2. /\ children' = children \cup {c} /\ accu' = [accu EXCEPT ![c] = a]
        /\ own' = [own EXCEPT ![c] = Exam!OwnFrom(a, c)] /\ pc' = Exam!Start
        /\ conn_num' = IF server.way = "switch" THEN conn_num + 1 ELSE conn_num
        /\ UNCHANGED <<cur, accu_array>>
    BY <1>1, <1>4, <2>1
  <2>3. QED
    BY <1>1, <1>2, <1>4, <2>2, ExamForks
<1>5. QED
  BY <1>3, <1>4

\* The entry for a new client: one that is free, or the next.
LEMMA ExamSlot ==
  ASSUME ExamInv, ~Exam!Full
  PROVE  /\ Exam!Slot \in 1..MAX_FD_NUM /\ Exam!Slot \notin LiveIn(fd_array)
         /\ Exam!Slot <= Len(fd_array) + 1
<1>1. PICK m : m = Len(fd_array)
  OBVIOUS
<1>2. m \in Nat /\ m <= MAX_FD_NUM /\ MAX_FD_NUM \in Nat
  BY <1>1, ProgramsAssumption DEF ExamInv, ExamTypes
<1>3. Exam!Free = {x \in 1..m : fd_array[x] = "-1"}
  BY <1>1 DEF Exam!Free, Exam!Slots, Exam!NoFd
<1>4. CASE Exam!Free = {}
  <2>1. Exam!Slot = m + 1 /\ m # MAX_FD_NUM
    BY <1>1, <1>4 DEF Exam!Slot, Exam!Full
  <2>2. m + 1 \in 1..MAX_FD_NUM /\ m + 1 \notin 1..m /\ m + 1 <= m + 1
    BY <1>2, <2>1
  <2>3. QED
    BY <1>1, <2>1, <2>2 DEF LiveIn
<1>5. CASE Exam!Free # {}
  <2>1. PICK S : S = Exam!Free
    OBVIOUS
  <2>2. S \subseteq Nat /\ S # {}
    BY <1>2, <1>3, <1>5, <2>1
  <2>3. \E x \in S : \A y \in S : x <= y
    BY <2>2, Least
  <2>4. Exam!Slot = CHOOSE x \in S : \A y \in S : x <= y
    BY <1>5, <2>1 DEF Exam!Slot
  <2>5. Exam!Slot \in S
    BY <2>3, <2>4
  <2>6. PICK x : x = Exam!Slot
    OBVIOUS
  <2>7. x \in 1..m /\ fd_array[x] = "-1"
    BY <1>3, <2>1, <2>5, <2>6
  <2>8. x \in 1..MAX_FD_NUM /\ x <= m + 1
    BY <1>2, <2>7
  <2>9. QED
    BY <1>1, <2>6, <2>7, <2>8 DEF LiveIn
<1>6. QED
  BY <1>4, <1>5

\* A table with client c in entry s.
Seated(table, s, c) ==
  [x \in 1..(IF s > Len(table) THEN s ELSE Len(table)) |-> IF x = s THEN c ELSE table[x]]

\* A client in entry s of the table.
LEMMA SeatTaken ==
  ASSUME NEW S, NEW table \in Seq(S), NEW s \in Nat, s > 0, s <= Len(table) + 1, NEW c \in S, c # "-1",
         NEW t, t = Seated(table, s, c)
  PROVE  /\ t \in Seq(S) /\ Len(t) = IF s > Len(table) THEN s ELSE Len(table)
         /\ LiveIn(t) = LiveIn(table) \cup {s} /\ t[s] = c
         /\ \A k \in LiveIn(table) : k # s => t[k] = table[k]
<1>1. PICK m, len : m = Len(table) /\ len = IF s > m THEN s ELSE m
  OBVIOUS
<1>2. m \in Nat /\ len \in Nat /\ s \in 1..len /\ 1..m \subseteq 1..len /\ \A x \in 1..len : x # s => x \in 1..m
  <2>1. m \in Nat
    BY <1>1
  <2>2. QED
    BY <1>1, <2>1
<1>3. \A x \in 1..m : table[x] \in S
  BY <1>1
<1>4. t = [x \in 1..len |-> IF x = s THEN c ELSE table[x]]
  BY <1>1 DEF Seated
<1>5. t \in [1..len -> S]
  BY <1>2, <1>3, <1>4
<1>6. t \in Seq(S) /\ Len(t) = len
  BY <1>2, <1>5
<1>7. t[s] = c /\ \A x \in 1..len : x # s => t[x] = table[x]
  BY <1>2, <1>4
<1>8. LiveIn(t) = LiveIn(table) \cup {s}
  BY <1>1, <1>2, <1>6, <1>7 DEF LiveIn
<1>9. QED
  BY <1>1, <1>2, <1>6, <1>7, <1>8 DEF LiveIn

-----------------------------------------------------------------------------
(* The servers answer                                                      *)

\* Process c is served by has taken its command, and has closed if it is over.
LEMMA ExamServesOne ==
  ASSUME ExamInv, NEW c \in ExamMachines, NEW r, NEW over \in BOOLEAN, conn[c].server = "open",
         ServedWell(server.exam, conn[c], asked[c], own[c], r),
         conn' = [conn EXCEPT ![c] = IF over THEN Exam!Closed(r.k) ELSE r.k],
         UNCHANGED <<server, own, asked>>
  PROVE  /\ ExamClients'
         /\ DOMAIN conn' = ExamMachines /\ DOMAIN asked' = ExamMachines /\ DOMAIN own' = ExamMachines
         /\ \A d \in ExamMachines \ {c} : conn'[d] = conn[d] /\ asked'[d] = asked[d] /\ own'[d] = own[d]
         /\ ~over => conn'[c] = r.k
         /\ (\A d \in ExamMachines : Quiet(conn[d])) /\ (over \/ r.k.err = "none") =>
              \A d \in ExamMachines : Quiet(conn'[d])
         /\ IsFiniteSet(Opened(conn)) =>
              /\ IsFiniteSet(Opened(conn')) /\ Cardinality(Opened(conn)) \in Nat
              /\ Cardinality(Opened(conn'))
                   = IF over THEN Cardinality(Opened(conn)) - 1 ELSE Cardinality(Opened(conn))
<1>1. PICK k, q, o, ex, j : /\ k = conn[c] /\ q = asked[c] /\ o = own[c] /\ ex = server.exam
                            /\ j = (IF over THEN Exam!Closed(r.k) ELSE r.k)
  OBVIOUS
<1>2. /\ Shape(r.k, q) /\ Answered(ex, r.k, q, o) /\ r.k.up = <<>> /\ r.k.server = "open"
  BY <1>1 DEF ServedWell
<1>3. /\ Shape(j, q) /\ Answered(ex, j, q, o)
      /\ IF over THEN j.server \in {"none", "closed"} /\ Quiet(j) ELSE j = r.k
  BY <1>1, <1>2, ExamCloses
<1>4. Moved(conn, conn', c, j) /\ Moved(asked, asked', c, q) /\ Moved(own, own', c, o)
  <2>1. c \in DOMAIN conn /\ c \in DOMAIN asked /\ c \in DOMAIN own
    BY ExamParts
  <2>2. Moved(conn, conn', c, j)
    <3>1. Moved(conn, [conn EXCEPT ![c] = j], c, j)
      BY <2>1, Moves
    <3>2. conn' = [conn EXCEPT ![c] = j]
      BY <1>1
    <3>3. QED
      BY <3>1, <3>2, Zenon
  <2>3. Moved(asked, asked', c, q) /\ Moved(own, own', c, o)
    BY <1>1, <2>1, Moves
  <2>4. QED
    BY <2>2, <2>3
<1>5. /\ ExamClients'
      /\ DOMAIN conn' = ExamMachines /\ DOMAIN asked' = ExamMachines /\ DOMAIN own' = ExamMachines
      /\ conn'[c] = j /\ asked'[c] = q /\ own'[c] = o
      /\ \A d \in ExamMachines \ {c} : conn'[d] = conn[d] /\ asked'[d] = asked[d] /\ own'[d] = own[d]
  BY <1>1, <1>3, <1>4, ExamOthers
<1>6. over \/ r.k.err = "none" => Quiet(j)
  BY <1>2, <1>3 DEF Quiet
<1>7. c \in Opened(conn) /\ Opened(conn') = IF over THEN Opened(conn) \ {c} ELSE Opened(conn)
  <2>1. c \in Opened(conn)
    BY DEF Opened
  <2>2. CASE over
    <3>1. j.server # "open"
      BY <1>3, <2>2
    <3>2. QED
      BY <1>5, <2>1, <2>2, <3>1 DEF Opened
  <2>3. CASE ~over
    <3>1. j.server = "open"
      BY <1>2, <1>3, <2>3
    <3>2. QED
      BY <1>5, <2>1, <2>3, <3>1 DEF Opened
  <2>4. QED
    BY <2>2, <2>3
<1>8. IsFiniteSet(Opened(conn)) =>
        /\ IsFiniteSet(Opened(conn')) /\ Cardinality(Opened(conn)) \in Nat
        /\ Cardinality(Opened(conn'))
             = IF over THEN Cardinality(Opened(conn)) - 1 ELSE Cardinality(Opened(conn))
  <2>1. PICK S, R : S = Opened(conn) /\ R = Opened(conn')
    OBVIOUS
  <2>2. c \in S /\ R = IF over THEN S \ {c} ELSE S
    BY <1>7, <2>1
  <2>3. IsFiniteSet(S) => /\ IsFiniteSet(R) /\ Cardinality(S) \in Nat
                          /\ Cardinality(R) = IF over THEN Cardinality(S) - 1 ELSE Cardinality(S)
    BY <2>2, FS_RemoveElement, FS_CardinalityType
  <2>4. QED
    BY <2>1, <2>3
<1>9. QED
  BY <1>1, <1>3, <1>5, <1>6, <1>8

\* Main is ended while it serves c: the kernel closes what no child has.
LEMMA ExamDies ==
  ASSUME ExamInv, NEW c \in ExamMachines \ children, NEW j,
         Shape(j, asked[c]), Answered(server.exam, j, asked[c], own[c]),
         killed = 0 => Forgets, pc' = "dead", server.way # "fork",
         conn' = Exam!AfterMain([conn EXCEPT ![c] = j]), DOMAIN accu_array' = 1..MAX_FD_NUM,
         UNCHANGED <<server, children, zombies, accu, own, asked, killed, fd_array>>
  PROVE  ExamInv'
<1>1. PICK conns : conns = [conn EXCEPT ![c] = j]
  OBVIOUS
<1>2. /\ DOMAIN conns = ExamMachines /\ conns[c] = j
      /\ \A d \in ExamMachines : d # c => conns[d] = conn[d]
  <2>1. DOMAIN conn = ExamMachines
    BY DEF ExamInv, ExamTypes
  <2>2. QED
    BY <1>1, <2>1
<1>3. ASSUME NEW d \in ExamMachines
      PROVE  Shape(conns[d], asked[d]) /\ Answered(server.exam, conns[d], asked[d], own[d])
  BY <1>2, ExamParts
<1>4. /\ DOMAIN conn' = ExamMachines
      /\ \A d \in ExamMachines :
           conn'[d] = IF d \notin children /\ conns[d].server \in {"queue", "open"}
                        THEN Exam!Closed(conns[d]) ELSE conns[d]
  <2>1. conn' = [d \in ExamMachines |-> IF d \in children THEN conns[d] ELSE Exam!Orphaned(conns)[d]]
    BY <1>1 DEF Exam!AfterMain
  <2>2. \A d \in ExamMachines :
          Exam!Orphaned(conns)[d] = IF conns[d].server \in {"queue", "open"}
                                      THEN Exam!Closed(conns[d]) ELSE conns[d]
    BY <1>2 DEF Exam!Orphaned
  <2>3. QED
    BY <2>1, <2>2
<1>5. ExamClients'
  <2>1. ASSUME NEW d \in ExamMachines
        PROVE  Shape(conn'[d], asked[d]) /\ Answered(server.exam, conn'[d], asked[d], own[d])
    <3>1. PICK k, q, o, ex : k = conns[d] /\ q = asked[d] /\ o = own[d] /\ ex = server.exam
      OBVIOUS
    <3>2. Shape(k, q) /\ Answered(ex, k, q, o)
      BY <1>3, <3>1
    <3>3. CASE d \notin children /\ k.server \in {"queue", "open"}
      <4>1. conn'[d] = Exam!Closed(k)
        BY <1>4, <3>1, <3>3
      <4>2. Shape(Exam!Closed(k), q) /\ Answered(ex, Exam!Closed(k), q, o)
        BY <3>2, <3>3, ExamCloses
      <4>3. QED
        BY <3>1, <4>1, <4>2
    <3>4. CASE ~(d \notin children /\ k.server \in {"queue", "open"})
      <4>1. conn'[d] = k
        BY <1>4, <3>1, <3>4
      <4>2. QED
        BY <3>1, <3>2, <4>1
    <3>5. QED
      BY <3>3, <3>4
  <2>2. QED
    BY <2>1 DEF ExamClients
<1>6. ExamTypes'
  BY <1>4 DEF ExamInv, ExamTypes
<1>7. ExamModes'
  BY DEF ExamInv, ExamModes
<1>8. ExamKids'
  <2>1. ASSUME NEW d \in children PROVE conn'[d] = conn[d] /\ Keeps(server.exam, conn[d], asked[d], own[d], accu[d])
    <3>1. d \in ExamMachines /\ d # c
      BY DEF ExamInv, ExamTypes
    <3>2. conn'[d] = conn[d]
      BY <1>2, <1>4, <3>1
    <3>3. QED
      BY <3>2 DEF ExamInv, ExamKids
  <2>2. QED
    BY <2>1 DEF ExamKids
<1>9. ExamMain' /\ ExamTable' /\ ExamCount'
  BY DEF ExamMain, ExamTable, ExamCount
<1>10. ExamCalm'
  BY DEF ExamCalm, Forgets
<1>11. QED
  BY <1>5, <1>6, <1>7, <1>8, <1>9, <1>10 DEF ExamInv

\* A child answers, and ends when its client leaves.
LEMMA ExamChild ==
  ASSUME ExamInv, NEW c \in ExamMachines, Exam!Child(c)
  PROVE  ExamInv'
<1>1. PICK r \in Exam!Served(c, accu[c]) :
        /\ accu' = [accu EXCEPT ![c] = r.a]
        /\ IF r.lives /\ ~r.leaves
             THEN conn' = [conn EXCEPT ![c] = r.k] /\ UNCHANGED <<children, zombies>>
             ELSE /\ conn' = [conn EXCEPT ![c] = Exam!Closed(r.k)] /\ children' = children \ {c}
                  /\ zombies' = IF server.way = "switch" THEN zombies + 1 ELSE zombies
  BY DEF Exam!Child
<1>2. /\ c \in children /\ Exam!Readable(conn[c])
      /\ UNCHANGED <<server, pc, cur, accu_array, fd_array, conn_num, own, asked, killed>>
  BY DEF Exam!Child, Exam!main
<1>3. Keeps(server.exam, conn[c], asked[c], own[c], accu[c]) /\ server \in Exam!Servers
  BY <1>2 DEF ExamInv, ExamKids, ExamTypes
<1>4. ServedWell(server.exam, conn[c], asked[c], own[c], r)
  <2>1. PICK a : a = accu[c]
    OBVIOUS
  <2>2. QED
    BY <1>1, <1>2, <1>3, <2>1, ExamParts, ExamServes
<1>5. PICK over : over = ~(r.lives /\ ~r.leaves)
  OBVIOUS
<1>6. over \in BOOLEAN /\ conn[c].server = "open" /\ (over \/ (r.lives /\ ~r.leaves))
  BY <1>3, <1>5 DEF Keeps
<1>7. /\ conn' = [conn EXCEPT ![c] = IF over THEN Exam!Closed(r.k) ELSE r.k]
      /\ children' = (IF over THEN children \ {c} ELSE children)
      /\ zombies' = (IF over /\ server.way = "switch" THEN zombies + 1 ELSE zombies)
  BY <1>1, <1>5
<1>8. /\ ExamClients'
      /\ DOMAIN conn' = ExamMachines /\ DOMAIN asked' = ExamMachines /\ DOMAIN own' = ExamMachines
      /\ \A d \in ExamMachines \ {c} : conn'[d] = conn[d] /\ asked'[d] = asked[d] /\ own'[d] = own[d]
      /\ ~over => conn'[c] = r.k
      /\ (\A d \in ExamMachines : Quiet(conn[d])) /\ (over \/ r.k.err = "none") =>
           \A d \in ExamMachines : Quiet(conn'[d])
      /\ IsFiniteSet(Opened(conn)) =>
           /\ IsFiniteSet(Opened(conn')) /\ Cardinality(Opened(conn)) \in Nat
           /\ Cardinality(Opened(conn'))
                = IF over THEN Cardinality(Opened(conn)) - 1 ELSE Cardinality(Opened(conn))
  BY <1>2, <1>4, <1>6, <1>7, ExamServesOne
<1>9. DOMAIN accu' = ExamMachines /\ accu'[c] = r.a /\ \A d \in ExamMachines \ {c} : accu'[d] = accu[d]
  <2>1. DOMAIN accu = ExamMachines
    BY DEF ExamInv, ExamTypes
  <2>2. QED
    BY <1>1, <2>1
<1>10. ExamTypes'
  BY <1>2, <1>7, <1>8, <1>9 DEF ExamInv, ExamTypes
<1>11. ExamModes'
  BY <1>2, <1>7 DEF ExamInv, ExamModes
<1>12. ExamKids'
  <2>1. ASSUME NEW d \in children, d # c PROVE Keeps(server'.exam, conn'[d], asked'[d], own'[d], accu'[d])
    <3>1. d \in ExamMachines
      BY DEF ExamInv, ExamTypes
    <3>2. QED
      BY <1>2, <1>8, <1>9, <2>1, <3>1, ExamOtherKids
  <2>2. ASSUME ~over PROVE Keeps(server'.exam, conn'[c], asked'[c], own'[c], accu'[c])
    BY <1>2, <1>4, <1>6, <1>8, <1>9, <2>2 DEF ServedWell
  <2>3. QED
    BY <1>7, <2>1, <2>2 DEF ExamKids
<1>13. ExamMain'
  <2>1. pc # "serve"
    BY <1>2 DEF ExamInv, ExamModes
  <2>2. QED
    BY <1>2, <2>1 DEF ExamMain
<1>14. ExamTable'
  <2>1. ASSUME pc # "dead", NEW k \in LiveIn(fd_array)
        PROVE  /\ fd_array'[k] \in ExamMachines \ children'
               /\ Keeps(server'.exam, conn'[fd_array'[k]], asked'[fd_array'[k]], own'[fd_array'[k]],
                        accu_array'[k])
               /\ \A l \in LiveIn(fd_array') : fd_array'[k] = fd_array'[l] => k = l
    <3>1. /\ fd_array[k] # c
          /\ \A l \in LiveIn(fd_array) : fd_array[k] = fd_array[l] => k = l
      BY <1>2, <2>1 DEF ExamInv, ExamTable
    <3>2. /\ fd_array'[k] \in ExamMachines \ children
          /\ Keeps(server'.exam, conn'[fd_array'[k]], asked'[fd_array'[k]], own'[fd_array'[k]],
                   accu_array'[k])
      BY <1>2, <1>8, <2>1, <3>1, ExamOtherEntries
    <3>3. QED
      BY <1>2, <1>7, <3>1, <3>2
  <2>2. QED
    BY <1>2, <2>1 DEF ExamTable
<1>15. ExamCalm'
  <2>1. SUFFICES ASSUME killed = 0, ~Forgets
                 PROVE  pc # "dead" /\ \A d \in ExamMachines : Quiet(conn'[d])
    BY <1>2 DEF ExamCalm, Forgets
  <2>2. pc # "dead" /\ \A d \in ExamMachines : Quiet(conn[d])
    BY <2>1 DEF ExamInv, ExamCalm
  <2>3. over \/ r.k.err = "none"
    BY <1>4, <1>6, <2>2 DEF ServedWell
  <2>4. QED
    BY <1>8, <2>2, <2>3
<1>16. ExamCount'
  <2>1. ASSUME server.way = "switch", pc # "dead"
        PROVE  IsFiniteSet(Opened(conn')) /\ conn_num' = zombies' + Cardinality(Opened(conn'))
    <3>1. IsFiniteSet(Opened(conn)) /\ conn_num = zombies + Cardinality(Opened(conn)) /\ zombies \in Nat
      BY <2>1 DEF ExamInv, ExamCount, ExamTypes
    <3>2. PICK m, x : m = Cardinality(Opened(conn)) /\ x = Cardinality(Opened(conn'))
      OBVIOUS
    <3>3. IsFiniteSet(Opened(conn')) /\ m \in Nat /\ x = (IF over THEN m - 1 ELSE m) /\ conn_num = zombies + m
      BY <1>8, <3>1, <3>2
    <3>4. zombies' = IF over THEN zombies + 1 ELSE zombies
      BY <1>7, <2>1
    <3>5. conn_num' = zombies' + x
      BY <1>2, <3>1, <3>3, <3>4
    <3>6. QED
      BY <3>2, <3>3, <3>5
  <2>2. QED
    BY <1>2, <2>1 DEF ExamCount
<1>17. QED
  BY <1>8, <1>10, <1>11, <1>12, <1>13, <1>14, <1>15, <1>16 DEF ExamInv

\* P1 answers the client that it has accepted.
LEMMA ExamServe ==
  ASSUME ExamInv, Exam!Serve
  PROVE  ExamInv'
<1>1. PICK c, a : c = cur /\ a = accu_array[1]
  OBVIOUS
<1>2. /\ pc = "serve" /\ Exam!Readable(conn[c])
      /\ UNCHANGED <<server, cur, fd_array, conn_num, children, zombies, accu, own, asked, killed>>
  BY <1>1 DEF Exam!Serve
<1>3. PICK r \in Exam!Served(c, a) :
        /\ conn' = LET conns == [conn EXCEPT ![c] = IF r.lives /\ r.leaves THEN Exam!Closed(r.k)
                                                                            ELSE r.k]
                   IN  IF r.lives THEN conns ELSE Exam!AfterMain(conns)
        /\ accu_array' = [accu_array EXCEPT ![1] = r.a]
        /\ pc' = IF ~r.lives THEN "dead" ELSE IF r.leaves THEN "accept" ELSE "serve"
  BY <1>1 DEF Exam!Serve
<1>4. /\ c \in ExamMachines /\ Keeps(server.exam, conn[c], asked[c], own[c], a)
      /\ server \in Exam!Servers /\ server.way = "iterative" /\ children = {} /\ fd_array = <<>>
      /\ LiveIn(fd_array) = {}
  BY <1>1, <1>2 DEF ExamInv, ExamMain, ExamTypes, ExamModes, LiveIn
<1>5. ServedWell(server.exam, conn[c], asked[c], own[c], r)
  BY <1>2, <1>3, <1>4, ExamParts, ExamServes
<1>6. /\ r.lives \in BOOLEAN /\ r.leaves \in BOOLEAN /\ conn[c].server = "open"
      /\ Shape(r.k, asked[c]) /\ Answered(server.exam, r.k, asked[c], own[c])
  BY <1>4, <1>5 DEF ServedWell, Keeps
<1>7. DOMAIN accu_array' = 1..MAX_FD_NUM /\ accu_array'[1] = r.a
  <2>1. DOMAIN accu_array = 1..MAX_FD_NUM /\ 1 \in 1..MAX_FD_NUM
    BY ProgramsAssumption DEF ExamInv, ExamTypes
  <2>2. QED
    BY <1>3, <2>1
<1>8. CASE ~r.lives
  <2>1. conn' = Exam!AfterMain([conn EXCEPT ![c] = r.k])
    BY <1>3, <1>8
  <2>2. killed = 0 => Forgets
    BY <1>4, <1>5, <1>8 DEF ExamInv, ExamCalm, ServedWell
  <2>3. pc' = "dead" /\ server.way # "fork" /\ c \in ExamMachines \ children
    BY <1>3, <1>4, <1>8
  <2>4. QED
    BY <1>2, <1>6, <1>7, <2>1, <2>2, <2>3, ExamDies
<1>9. CASE r.lives
  <2>1. conn' = [conn EXCEPT ![c] = IF r.leaves THEN Exam!Closed(r.k) ELSE r.k]
    BY <1>3, <1>9
  <2>2. pc' = IF r.leaves THEN "accept" ELSE "serve"
    BY <1>3, <1>9
  <2>3. /\ ExamClients'
        /\ DOMAIN conn' = ExamMachines /\ DOMAIN asked' = ExamMachines /\ DOMAIN own' = ExamMachines
        /\ ~r.leaves => conn'[c] = r.k
        /\ (\A d \in ExamMachines : Quiet(conn[d])) /\ (r.leaves \/ r.k.err = "none") =>
             \A d \in ExamMachines : Quiet(conn'[d])
    BY <1>2, <1>4, <1>5, <1>6, <2>1, ExamServesOne
  <2>4. ExamTypes'
    BY <1>2, <1>7, <2>3 DEF ExamInv, ExamTypes
  <2>5. ExamModes'
    BY <1>2, <1>4, <1>6, <2>2 DEF ExamModes
  <2>6. ExamKids' /\ ExamTable' /\ ExamCount'
    BY <1>2, <1>4 DEF ExamKids, ExamTable, ExamCount
  <2>7. ExamMain'
    <3>1. ASSUME ~r.leaves PROVE Keeps(server'.exam, conn'[cur'], asked'[cur'], own'[cur'], accu_array'[1])
      BY <1>1, <1>2, <1>5, <1>7, <2>3, <3>1 DEF ServedWell
    <3>2. cur' \in ExamMachines
      BY <1>1, <1>2, <1>4
    <3>3. pc' = "serve" => ~r.leaves
      BY <2>2
    <3>4. QED
      BY <3>1, <3>2, <3>3 DEF ExamMain
  <2>8. ExamCalm'
    <3>1. SUFFICES ASSUME killed = 0, ~Forgets
                   PROVE  pc' # "dead" /\ \A d \in ExamMachines : Quiet(conn'[d])
      BY <1>2 DEF ExamCalm, Forgets
    <3>2. \A d \in ExamMachines : Quiet(conn[d])
      BY <3>1 DEF ExamInv, ExamCalm
    <3>3. r.leaves \/ r.k.err = "none"
      BY <1>4, <1>5, <3>2 DEF ServedWell
    <3>4. QED
      BY <2>2, <2>3, <3>2, <3>3
  <2>9. QED
    BY <2>3, <2>4, <2>5, <2>6, <2>7, <2>8 DEF ExamInv
<1>10. QED
  BY <1>6, <1>8, <1>9

\* The select loop accepts: the client has an entry with a new accumulator.
LEMMA ExamSeats ==
  ASSUME ExamInv, Exam!SelectAccept
  PROVE  ExamInv'
<1>1. PICK s : s = Exam!Slot
  OBVIOUS
<1>2. PICK c \in ExamMachines :
        /\ conn[c].server = "queue" /\ conn' = [conn EXCEPT ![c] = Exam!Accepted(@)]
        /\ fd_array' = Seated(fd_array, s, c)
        /\ own' = [own EXCEPT ![c] = Exam!OwnFrom(0, c)]
  BY <1>1 DEF Exam!SelectAccept, Exam!Queued, Seated
<1>3. /\ pc = "round" /\ ~Exam!Full /\ accu_array' = [accu_array EXCEPT ![s] = 0] /\ conn_num' = conn_num + 1
      /\ UNCHANGED <<server, pc, cur, children, zombies, accu, asked, killed>>
  BY <1>1 DEF Exam!SelectAccept
<1>4. s \in 1..MAX_FD_NUM /\ s \notin LiveIn(fd_array) /\ s <= Len(fd_array) + 1
  BY <1>1, <1>3, ExamSlot
<1>5. /\ ExamClients'
      /\ DOMAIN conn' = ExamMachines /\ DOMAIN asked' = ExamMachines /\ DOMAIN own' = ExamMachines
      /\ \A d \in ExamMachines \ {c} : conn'[d] = conn[d] /\ asked'[d] = asked[d] /\ own'[d] = own[d]
      /\ Keeps(server'.exam, conn'[c], asked'[c], own'[c], 0)
      /\ (\A d \in ExamMachines : Quiet(conn[d])) => \A d \in ExamMachines : Quiet(conn'[d])
      /\ IsFiniteSet(Opened(conn)) =>
           /\ IsFiniteSet(Opened(conn')) /\ Cardinality(Opened(conn)) \in Nat
           /\ Cardinality(Opened(conn')) = Cardinality(Opened(conn)) + 1
      /\ c \notin children
      /\ \A k \in LiveIn(fd_array) : fd_array[k] # c
  BY <1>2, <1>3, ExamTakesIn
<1>6. /\ fd_array' \in Seq(ExamMachines \cup {"-1"}) /\ Len(fd_array') <= MAX_FD_NUM
      /\ LiveIn(fd_array') = LiveIn(fd_array) \cup {s} /\ fd_array'[s] = c
      /\ \A k \in LiveIn(fd_array) : k # s => fd_array'[k] = fd_array[k]
  <2>1. PICK S : S = ExamMachines \cup {"-1"}
    OBVIOUS
  <2>2. PICK table, t : table = fd_array /\ t = fd_array'
    OBVIOUS
  <2>3. /\ t = Seated(table, s, c)
        /\ table \in Seq(S) /\ Len(table) <= MAX_FD_NUM /\ c \in S /\ c # "-1" /\ s \in Nat /\ s > 0
        /\ s <= Len(table) + 1 /\ s <= MAX_FD_NUM
    BY <1>2, <1>4, <2>1, <2>2, ProgramsAssumption DEF ExamInv, ExamTypes
  <2>4. /\ t \in Seq(S) /\ Len(t) = (IF s > Len(table) THEN s ELSE Len(table))
        /\ LiveIn(t) = LiveIn(table) \cup {s} /\ t[s] = c
        /\ \A k \in LiveIn(table) : k # s => t[k] = table[k]
    BY <2>3, SeatTaken
  <2>5. Len(t) <= MAX_FD_NUM
    BY <2>3, <2>4
  <2>6. QED
    BY <2>1, <2>2, <2>4, <2>5
<1>7. /\ DOMAIN accu_array' = 1..MAX_FD_NUM /\ accu_array'[s] = 0
      /\ \A k \in LiveIn(fd_array) : k # s /\ accu_array'[k] = accu_array[k]
  <2>1. DOMAIN accu_array = 1..MAX_FD_NUM
    BY DEF ExamInv, ExamTypes
  <2>2. \A k \in LiveIn(fd_array) : k # s /\ k \in 1..MAX_FD_NUM
    <3>1. fd_array \in Seq(ExamMachines \cup {"-1"}) /\ Len(fd_array) <= MAX_FD_NUM /\ MAX_FD_NUM \in Nat
      BY ProgramsAssumption DEF ExamInv, ExamTypes
    <3>2. PICK m : m = Len(fd_array)
      OBVIOUS
    <3>3. m \in Nat
      BY <3>1, <3>2
    <3>4. QED
      BY <1>4, <3>1, <3>2, <3>3 DEF LiveIn
  <2>3. QED
    BY <1>3, <1>4, <2>1, <2>2
<1>8. ExamTypes'
  BY <1>3, <1>5, <1>6, <1>7 DEF ExamInv, ExamTypes
<1>9. server.way \notin {"iterative", "fork"} /\ pc' = "round"
  BY <1>3 DEF ExamInv, ExamModes
<1>10. ExamModes' /\ ExamMain'
  BY <1>3, <1>9 DEF ExamModes, ExamMain
<1>11. ExamKids'
  <2>1. ASSUME NEW d \in children PROVE Keeps(server'.exam, conn'[d], asked'[d], own'[d], accu'[d])
    BY <1>3, <1>5, ExamOtherKids
  <2>2. QED
    BY <1>3, <2>1 DEF ExamKids
<1>12. ExamTable'
  <2>1. ASSUME NEW k \in LiveIn(fd_array)
        PROVE  /\ fd_array'[k] \in ExamMachines \ children /\ fd_array'[k] # c
               /\ Keeps(server'.exam, conn'[fd_array'[k]], asked'[fd_array'[k]], own'[fd_array'[k]],
                        accu_array'[k])
               /\ fd_array'[k] = fd_array[k]
    BY <1>3, <1>5, <1>6, <1>7, ExamOtherEntries
  <2>2. \A k, l \in LiveIn(fd_array) : fd_array[k] = fd_array[l] => k = l
    BY <1>3 DEF ExamInv, ExamTable
  <2>3. ASSUME NEW k \in LiveIn(fd_array')
        PROVE  /\ fd_array'[k] \in ExamMachines \ children
               /\ Keeps(server'.exam, conn'[fd_array'[k]], asked'[fd_array'[k]], own'[fd_array'[k]],
                        accu_array'[k])
               /\ \A l \in LiveIn(fd_array') : fd_array'[k] = fd_array'[l] => k = l
    <3>1. CASE k = s
      <4>1. /\ fd_array'[k] \in ExamMachines \ children
            /\ Keeps(server'.exam, conn'[fd_array'[k]], asked'[fd_array'[k]], own'[fd_array'[k]],
                     accu_array'[k])
        BY <1>5, <1>6, <1>7, <3>1
      <4>2. \A l \in LiveIn(fd_array') : fd_array'[k] = fd_array'[l] => k = l
        BY <1>6, <2>1, <3>1
      <4>3. QED
        BY <4>1, <4>2
    <3>2. CASE k \in LiveIn(fd_array)
      <4>1. \A l \in LiveIn(fd_array') : fd_array'[k] = fd_array'[l] => k = l
        BY <1>6, <2>1, <2>2, <3>2
      <4>2. QED
        BY <2>1, <3>2, <4>1
    <3>3. QED
      BY <1>6, <2>3, <3>1, <3>2
  <2>4. QED
    BY <1>3, <2>3 DEF ExamTable
<1>13. ExamCalm'
  BY <1>3, <1>5 DEF ExamInv, ExamCalm, Forgets
<1>14. ExamCount'
  <2>1. ASSUME server.way = "switch"
        PROVE  IsFiniteSet(Opened(conn')) /\ conn_num' = zombies' + Cardinality(Opened(conn'))
    <3>1. IsFiniteSet(Opened(conn)) /\ conn_num = zombies + Cardinality(Opened(conn)) /\ zombies \in Nat
      BY <1>3, <2>1 DEF ExamInv, ExamCount, ExamTypes
    <3>2. PICK m, x : m = Cardinality(Opened(conn)) /\ x = Cardinality(Opened(conn'))
      OBVIOUS
    <3>3. IsFiniteSet(Opened(conn')) /\ m \in Nat /\ x = m + 1 /\ conn_num = zombies + m
      BY <1>5, <3>1, <3>2
    <3>4. conn_num' = zombies' + x
      BY <1>3, <3>1, <3>3
    <3>5. QED
      BY <3>2, <3>3, <3>4
  <2>2. QED
    BY <1>3, <2>1 DEF ExamCount
<1>15. QED
  BY <1>5, <1>8, <1>10, <1>11, <1>12, <1>13, <1>14 DEF ExamInv

\* The select loop answers the client of entry x.
LEMMA ExamVisit ==
  ASSUME ExamInv, NEW x, Exam!Visit(x)
  PROVE  ExamInv'
<1>1. PICK c, a, table : c = fd_array[x] /\ a = accu_array[x] /\ table = fd_array
  OBVIOUS
<1>2. /\ pc = "round" /\ x \in LiveIn(table) /\ Exam!Readable(conn[c])
      /\ UNCHANGED <<server, cur, children, zombies, accu, own, asked, killed>>
  BY <1>1 DEF Exam!Visit, Exam!LiveSlots, Exam!Slots, Exam!NoFd, LiveIn
<1>3. PICK r, over :
        /\ r \in Exam!Served(c, a)
        /\ over = (r.lives /\ r.leaves /\ (server.exam = "old" \/ ~Exam!AtEnd(conn[c])))
        /\ conn' = LET conns == [conn EXCEPT ![c] = IF over THEN Exam!Closed(r.k) ELSE r.k]
                   IN  IF r.lives THEN conns ELSE Exam!AfterMain(conns)
        /\ accu_array' = [accu_array EXCEPT ![x] = r.a]
        /\ pc' = IF r.lives THEN pc ELSE "dead"
        /\ IF over THEN fd_array' = [table EXCEPT ![x] = "-1"] /\ conn_num' = conn_num - 1
                   ELSE UNCHANGED <<fd_array, conn_num>>
  BY <1>1 DEF Exam!Visit, Exam!Own, Exam!NoFd
<1>4. /\ c \in ExamMachines \ children /\ Keeps(server.exam, conn[c], asked[c], own[c], a)
      /\ \A l \in LiveIn(fd_array) : fd_array[l] = c => l = x
      /\ server \in Exam!Servers /\ server.way \notin {"iterative", "fork"}
  BY <1>1, <1>2 DEF ExamInv, ExamTable, ExamTypes, ExamModes
<1>5. ServedWell(server.exam, conn[c], asked[c], own[c], r)
  BY <1>2, <1>3, <1>4, ExamParts, ExamServes
<1>6. /\ r.lives \in BOOLEAN /\ r.leaves \in BOOLEAN /\ over \in BOOLEAN /\ conn[c].server = "open"
      /\ Shape(r.k, asked[c]) /\ Answered(server.exam, r.k, asked[c], own[c])
      /\ server.exam \in {"old", "mid"} /\ (over => r.lives)
  BY <1>3, <1>4, <1>5 DEF ServedWell, Keeps, Exam!Servers, Exam!AtEnd
<1>7. /\ table \in Seq(ExamMachines \cup {"-1"}) /\ Len(table) <= MAX_FD_NUM /\ x \in 1..Len(table)
      /\ x \in 1..MAX_FD_NUM /\ DOMAIN accu_array = 1..MAX_FD_NUM
      /\ \A k \in LiveIn(table) : k \in 1..MAX_FD_NUM
  <2>1. /\ table \in Seq(ExamMachines \cup {"-1"}) /\ Len(table) <= MAX_FD_NUM /\ x \in 1..Len(table)
        /\ DOMAIN accu_array = 1..MAX_FD_NUM
    BY <1>1, <1>2 DEF ExamInv, ExamTypes, LiveIn
  <2>2. PICK m : m = Len(table)
    OBVIOUS
  <2>3. m \in Nat /\ m <= MAX_FD_NUM /\ MAX_FD_NUM \in Nat
    BY <2>1, <2>2, ProgramsAssumption
  <2>4. \A k \in 1..m : k \in 1..MAX_FD_NUM
    BY <2>3
  <2>5. QED
    BY <2>1, <2>2, <2>4 DEF LiveIn
<1>8. /\ DOMAIN accu_array' = 1..MAX_FD_NUM /\ accu_array'[x] = r.a
      /\ \A k \in LiveIn(table) : k # x => accu_array'[k] = accu_array[k]
  BY <1>3, <1>7
<1>9. CASE ~r.lives
  <2>1. conn' = Exam!AfterMain([conn EXCEPT ![c] = r.k]) /\ UNCHANGED fd_array
    BY <1>3, <1>6, <1>9
  <2>2. killed = 0 => Forgets
    BY <1>2, <1>4, <1>5, <1>9 DEF ExamInv, ExamCalm, ServedWell
  <2>3. pc' = "dead" /\ server.way # "fork" /\ c \in ExamMachines \ children
    BY <1>3, <1>4, <1>9
  <2>4. QED
    BY <1>2, <1>6, <1>8, <2>1, <2>2, <2>3, ExamDies
<1>10. CASE r.lives
  <2>1. conn' = [conn EXCEPT ![c] = IF over THEN Exam!Closed(r.k) ELSE r.k] /\ pc' = "round"
    BY <1>2, <1>3, <1>10
  <2>2. /\ ExamClients'
        /\ DOMAIN conn' = ExamMachines /\ DOMAIN asked' = ExamMachines /\ DOMAIN own' = ExamMachines
        /\ \A d \in ExamMachines \ {c} : conn'[d] = conn[d] /\ asked'[d] = asked[d] /\ own'[d] = own[d]
        /\ ~over => conn'[c] = r.k
        /\ (\A d \in ExamMachines : Quiet(conn[d])) /\ (over \/ r.k.err = "none") =>
             \A d \in ExamMachines : Quiet(conn'[d])
        /\ IsFiniteSet(Opened(conn)) =>
             /\ IsFiniteSet(Opened(conn')) /\ Cardinality(Opened(conn)) \in Nat
             /\ Cardinality(Opened(conn'))
                  = IF over THEN Cardinality(Opened(conn)) - 1 ELSE Cardinality(Opened(conn))
    BY <1>2, <1>4, <1>5, <1>6, <2>1, ExamServesOne
  <2>3. PICK t : /\ t = fd_array' /\ t \in Seq(ExamMachines \cup {"-1"}) /\ Len(t) = Len(table)
                 /\ LiveIn(t) = (IF over THEN LiveIn(table) \ {x} ELSE LiveIn(table))
                 /\ \A k \in LiveIn(t) : t[k] = table[k]
    <3>1. CASE over
      <4>1. fd_array' = [table EXCEPT ![x] = "-1"]
        BY <1>3, <3>1
      <4>2. /\ fd_array' \in Seq(ExamMachines \cup {"-1"}) /\ Len(fd_array') = Len(table)
            /\ fd_array'[x] = "-1" /\ \A k \in 1..Len(table) : k # x => fd_array'[k] = table[k]
        BY <1>7, <4>1
      <4>3. LiveIn(fd_array') = LiveIn(table) \ {x}
        BY <4>2 DEF LiveIn
      <4>4. \A k \in LiveIn(fd_array') : fd_array'[k] = table[k]
        BY <4>2, <4>3 DEF LiveIn
      <4>5. QED
        BY <3>1, <4>2, <4>3, <4>4
    <3>2. CASE ~over
      BY <1>1, <1>3, <1>7, <3>2
    <3>3. QED
      BY <1>6, <3>1, <3>2
  <2>4. ExamTypes'
    BY <1>2, <1>7, <1>8, <2>2, <2>3 DEF ExamInv, ExamTypes
  <2>5. ExamModes' /\ ExamMain'
    BY <1>2, <1>4, <2>1 DEF ExamModes, ExamMain
  <2>6. ExamKids'
    <3>1. ASSUME NEW d \in children PROVE Keeps(server'.exam, conn'[d], asked'[d], own'[d], accu'[d])
      <4>1. d \in children \ {c}
        BY <1>4
      <4>2. QED
        BY <1>2, <1>4, <2>2, <4>1, ExamOtherKids
    <3>2. QED
      BY <1>2, <3>1 DEF ExamKids
  <2>7. ASSUME NEW k \in LiveIn(t), k # x
        PROVE  /\ t[k] \in ExamMachines \ children /\ t[k] = table[k] /\ k \in LiveIn(table)
               /\ Keeps(server'.exam, conn'[t[k]], asked'[t[k]], own'[t[k]], accu_array'[k])
    <3>1. k \in LiveIn(fd_array) /\ fd_array[k] # c /\ fd_array'[k] = fd_array[k]
          /\ accu_array'[k] = accu_array[k]
      BY <1>1, <1>4, <1>6, <1>8, <2>3, <2>7
    <3>2. /\ fd_array'[k] \in ExamMachines \ children
          /\ Keeps(server'.exam, conn'[fd_array'[k]], asked'[fd_array'[k]], own'[fd_array'[k]],
                   accu_array'[k])
      BY <1>2, <1>4, <2>2, <3>1, ExamOtherEntries
    <3>3. QED
      BY <1>1, <2>3, <3>1, <3>2
  <2>8. ASSUME x \in LiveIn(t)
        PROVE  /\ t[x] \in ExamMachines \ children /\ t[x] = table[x]
               /\ Keeps(server'.exam, conn'[t[x]], asked'[t[x]], own'[t[x]], accu_array'[x])
    <3>1. ~over /\ t[x] = c /\ t[x] = table[x]
      BY <1>1, <1>6, <2>3, <2>8
    <3>2. Keeps(server.exam, r.k, asked[c], own[c], r.a)
      <4>1. CASE ~r.leaves
        BY <1>5, <4>1 DEF ServedWell
      <4>2. CASE r.leaves
        <5>1. server.exam # "old"
          BY <1>3, <1>10, <3>1, <4>2
        <5>2. r.k.server = "open"
          BY <1>5, <1>6 DEF ServedWell
        <5>3. QED
          BY <5>1, <5>2 DEF Keeps
      <4>3. QED
        BY <1>6, <4>1, <4>2
    <3>3. QED
      BY <1>2, <1>4, <1>8, <2>2, <3>1, <3>2
  <2>9. ExamTable'
    <3>1. ASSUME NEW k \in LiveIn(t)
          PROVE  /\ t[k] \in ExamMachines \ children
                 /\ Keeps(server'.exam, conn'[t[k]], asked'[t[k]], own'[t[k]], accu_array'[k])
      BY <2>7, <2>8
    <3>2. ASSUME NEW k \in LiveIn(t), NEW l \in LiveIn(t), t[k] = t[l] PROVE k = l
      <4>1. k \in LiveIn(table) /\ l \in LiveIn(table) /\ t[k] = table[k] /\ t[l] = table[l]
        BY <1>6, <2>3
      <4>2. QED
        BY <1>1, <1>2, <3>2, <4>1 DEF ExamInv, ExamTable
    <3>3. QED
      BY <1>2, <2>3, <3>1, <3>2 DEF ExamTable
  <2>10. ExamCalm'
    <3>1. SUFFICES ASSUME killed = 0, ~Forgets
                   PROVE  pc' # "dead" /\ \A d \in ExamMachines : Quiet(conn'[d])
      BY <1>2 DEF ExamCalm, Forgets
    <3>2. \A d \in ExamMachines : Quiet(conn[d])
      BY <3>1 DEF ExamInv, ExamCalm
    <3>3. server.exam = "old"
      <4>1. ASSUME server.exam # "old" PROVE FALSE
        <5>1. server.exam = "mid" /\ server.way = "select"
          BY <1>4, <4>1 DEF Exam!Servers
        <5>2. server = [exam |-> "mid", way |-> "select"]
          BY <1>4, <5>1 DEF Exam!Servers
        <5>3. QED
          BY <3>1, <5>2 DEF Forgets
      <4>2. QED
        BY <4>1
    <3>4. over \/ r.k.err = "none"
      BY <1>3, <1>4, <1>5, <1>10, <3>2, <3>3 DEF ServedWell
    <3>5. QED
      BY <2>1, <2>2, <3>2, <3>4
  <2>11. ExamCount'
    <3>1. ASSUME server.way = "switch"
          PROVE  IsFiniteSet(Opened(conn')) /\ conn_num' = zombies' + Cardinality(Opened(conn'))
      <4>1. IsFiniteSet(Opened(conn)) /\ conn_num = zombies + Cardinality(Opened(conn)) /\ zombies \in Nat
        BY <1>2, <3>1 DEF ExamInv, ExamCount, ExamTypes
      <4>2. PICK m, y : m = Cardinality(Opened(conn)) /\ y = Cardinality(Opened(conn'))
        OBVIOUS
      <4>3. IsFiniteSet(Opened(conn')) /\ m \in Nat /\ y = (IF over THEN m - 1 ELSE m) /\ conn_num = zombies + m
        BY <2>2, <4>1, <4>2
      <4>4. conn_num' = IF over THEN conn_num - 1 ELSE conn_num
        BY <1>3
      <4>5. conn_num' = zombies' + y
        BY <1>2, <1>6, <4>1, <4>3, <4>4
      <4>6. QED
        BY <4>2, <4>3, <4>5
    <3>2. QED
      BY <1>2, <3>1 DEF ExamCount
  <2>12. QED
    BY <2>2, <2>4, <2>5, <2>6, <2>9, <2>10, <2>11 DEF ExamInv
<1>11. QED
  BY <1>6, <1>9, <1>10

-----------------------------------------------------------------------------
(* The behaviours                                                          *)

\* Every step of a server or its clients keeps the invariant.
LEMMA ExamGoesOn ==
  ASSUME ExamInv, Exam!Next
  PROVE  ExamInv'
<1>1. CASE Exam!Main
  <2>1. CASE Exam!Accept \/ Exam!Serve \/ Exam!SelectAccept
    BY <2>1, ExamTakesNext, ExamServe, ExamSeats
  <2>2. CASE Exam!Top \/ Exam!SetSelect \/ Exam!Mode \/ Exam!Again \/ Exam!Select \/ Exam!TableFull
    BY <2>2, ExamLooks
  <2>3. CASE \E x \in Exam!Slots : Exam!Visit(x)
    BY <2>3, ExamVisit
  <2>4. QED
    BY <1>1, <2>1, <2>2, <2>3 DEF Exam!Main
<1>2. CASE Exam!Reap
  BY <1>2, ExamReaps
<1>3. CASE \E c \in ExamMachines : Exam!Child(c) \/ Exam!Client(c)
  BY <1>3, ExamChild, ExamClientGoesOn
<1>4. QED
  BY <1>1, <1>2, <1>3 DEF Exam!Next

\* Nobody is connected in the beginning.
LEMMA ExamBegins == Exam!Init => ExamInv
<1> SUFFICES ASSUME Exam!Init PROVE ExamInv
  OBVIOUS
<1>1. PICK k, q : k = Exam!NoConn /\ q = Exam!NoLine
  OBVIOUS
<1>2. k = [up |-> <<>>, down |-> <<>>, client |-> "off", server |-> "none", err |-> "none"]
  BY <1>1 DEF Exam!NoConn
<1>3. k.up = <<>> /\ k.down = <<>> /\ k.client = "off" /\ k.server = "none" /\ k.err = "none"
  BY <1>2
<1>4. /\ server \in Exam!Servers /\ pc = Exam!Start /\ conn = [c \in ExamMachines |-> k]
      /\ children = {} /\ zombies = 0 /\ accu_array = [x \in 1..MAX_FD_NUM |-> 0]
      /\ accu = [c \in ExamMachines |-> 0] /\ fd_array = <<>> /\ conn_num = 0
      /\ own = [c \in ExamMachines |-> 0] /\ asked = [c \in ExamMachines |-> q] /\ killed = 0
  BY <1>1 DEF Exam!Init
<1>5. LiveIn(fd_array) = {} /\ fd_array \in Seq(ExamMachines \cup {"-1"}) /\ Len(fd_array) <= MAX_FD_NUM
  <2>1. Len(<<>>) = 0 /\ <<>> \in Seq(ExamMachines \cup {"-1"}) /\ 1..0 = {}
    OBVIOUS
  <2>2. 0 <= MAX_FD_NUM
    BY ProgramsAssumption
  <2>3. QED
    BY <1>4, <2>1, <2>2 DEF LiveIn
<1>6. /\ pc \in {"select", "top", "accept"}
      /\ server.way \in {"iterative", "fork"} => pc = "accept"
  BY <1>4 DEF Exam!Start
<1>7. ExamTypes /\ ExamModes
  BY <1>4, <1>5, <1>6 DEF ExamTypes, ExamModes
<1>8. ExamClients
  <2>1. Shape(k, q)
    BY <1>2, Shapes
  <2>2. \A ex, o : Answered(ex, k, q, o)
    BY <1>3, OneIsSome DEF Answered
  <2>3. QED
    BY <1>4, <2>1, <2>2 DEF ExamClients
<1>9. ExamKids /\ ExamMain /\ ExamTable
  BY <1>4, <1>5, <1>6 DEF ExamKids, ExamMain, ExamTable
<1>10. ExamCalm
  BY <1>3, <1>4, <1>6 DEF ExamCalm, Quiet
<1>11. ExamCount
  <2>1. Opened(conn) = {}
    BY <1>3, <1>4 DEF Opened
  <2>2. IsFiniteSet(Opened(conn)) /\ Cardinality(Opened(conn)) = 0
    BY <2>1, FS_EmptySet
  <2>3. PICK m : m = Cardinality(Opened(conn))
    OBVIOUS
  <2>4. conn_num = zombies + m
    BY <1>4, <2>2, <2>3
  <2>5. QED
    BY <2>2, <2>3, <2>4 DEF ExamCount
<1>12. QED
  BY <1>7, <1>8, <1>9, <1>10, <1>11 DEF ExamInv

\* What the invariant is about.
LEMMA ExamStays ==
  ASSUME ExamInv, UNCHANGED <<pc, conn, killed, fd_array>>, UNCHANGED examVars
  PROVE  ExamInv'
BY DEF ExamInv, ExamTypes, ExamModes, ExamClients, ExamKids, ExamMain, ExamTable, ExamCalm, ExamCount,
       Forgets, examVars

\* A server of a midterm runs from its own Init, by its own steps.
LEMMA ExamRuns ==
  /\ MCInit /\ Runs("midterms") => Exam!Init
  /\ MCNext /\ Runs("midterms")' => Runs("midterms") /\ Exam!Next
BY DEF MCInit, ChatInit, OfflineInit, ExamInit, CountInit, SumInit, PingInit, LineInit,
       MCNext, ChatNext, OfflineNext, ExamNext, CountNext, SumNext, PingNext, LineNext, Runs

\* The invariant of the program, whichever runs.
LEMMA ExamAlways == MCSpec => [](Runs("midterms") => ExamInv)
<1> DEFINE Inv == Runs("midterms") => ExamInv
<1>1. MCInit => Inv
  BY ExamRuns, ExamBegins
<1>2. Inv /\ [MCNext]_allVars => Inv'
  <2> SUFFICES ASSUME Inv, [MCNext]_allVars, Runs("midterms")' PROVE ExamInv'
    OBVIOUS
  <2>1. CASE MCNext
    BY <2>1, ExamRuns, ExamGoesOn
  <2>2. CASE UNCHANGED allVars
    <3>1. UNCHANGED <<pc, conn, killed, fd_array>> /\ UNCHANGED examVars /\ program' = program
      BY <2>2 DEF allVars, vars, socketVars, tableVars
    <3>2. QED
      BY <3>1, ExamStays DEF Runs
  <2>3. QED
    BY <2>1, <2>2
<1>3. QED
  BY <1>1, <1>2, PTL DEF MCSpec

\* Whichever way a midterm's server serves, and whoever else it serves: the answer
\* that a client has before it is the one to its own command, from the accumulator
\* that its own commands made (ProcessCMD with the entry's accumulator, a child's
\* copy, one global).
THEOREM AnswersAreTheirs == MCSpec => []OwnAnswers
<1>1. ASSUME ExamInv PROVE Exam!AnswersAreOwn
  <2> SUFFICES ASSUME NEW c \in ExamMachines, Exam!HasAnswer(conn[c])
               PROVE  Head(conn[c].down).val \in Exam!AnswersTo(c)
    BY DEF Exam!AnswersAreOwn
  <2>1. Shape(conn[c], asked[c]) /\ Answered(server.exam, conn[c], asked[c], own[c])
    BY <1>1, ExamParts
  <2>2. PICK v : conn[c].down = <<[val |-> v]>>
    BY <2>1 DEF Exam!HasAnswer, Shape
  <2>3. v \in RightAnswers(server.exam, asked[c], own[c])
    BY <2>1, <2>2 DEF Answered
  <2>4. Head(conn[c].down).val = v
    BY <2>2
  <2>5. Exam!AnswersTo(c) = RightAnswers(server.exam, asked[c], own[c])
    BY DEF Exam!AnswersTo, RightAnswers
  <2>6. QED
    BY <2>3, <2>4, <2>5
<1>2. (Runs("midterms") => ExamInv) => OwnAnswers
  BY <1>1 DEF OwnAnswers
<1>3. QED
  BY <1>2, ExamAlways, PTL

\* The counter that decides between fork and select is always the number of open
\* connections and of children that were not waited for, wherever the SIGCHLD
\* handler ran between main's steps (conn_num in main and sig_chld).
THEOREM CounterIsRight == MCSpec => []ConnNumIsRight
<1>1. ASSUME ExamInv PROVE Exam!CountIsRight
  <2>1. Opened(conn) = {c \in ExamMachines : conn[c].server = "open"}
    BY DEF Opened
  <2>2. Exam!Cardinality(Opened(conn)) = Cardinality(Opened(conn))
    BY DEF Exam!Cardinality, Cardinality
  <2>3. QED
    BY <1>1, <2>1, <2>2 DEF ExamInv, ExamCount, Exam!CountIsRight
<1>2. (Runs("midterms") => ExamInv) => ConnNumIsRight
  BY <1>1 DEF ConnNumIsRight
<1>3. QED
  BY <1>2, ExamAlways, PTL

\* As long as no client is killed no server of a midterm is ended by SIGPIPE, but
\* the select loop of mid_2014F, which never closes a client that has left.
THEOREM EndsEndNoServer == MCSpec => []EndsAreHarmless
<1>1. ASSUME ExamInv PROVE Exam!OrdinaryEndsAreHarmless
  <2>1. killed \in Nat /\ (killed = 0 /\ ~Forgets => pc # "dead")
    BY <1>1 DEF ExamInv, ExamTypes, ExamCalm
  <2>2. QED
    BY <2>1 DEF Exam!OrdinaryEndsAreHarmless, Forgets
<1>2. (Runs("midterms") => ExamInv) => EndsAreHarmless
  BY <1>1 DEF EndsAreHarmless
<1>3. QED
  BY <1>2, ExamAlways, PTL

=============================================================================
