---------------------------- MODULE LinesProof ------------------------------
(***************************************************************************)
(* The line servers, for every set of machines and every text: what a      *)
(* client gets back is what it typed, and no reply ends the server.        *)
(***************************************************************************)
EXTENDS ProgramsProof

-----------------------------------------------------------------------------
(* Sequences that are moved piece by piece                                 *)

\* The first element and the others.
LEMMA HeadOff ==
  ASSUME NEW S, NEW s \in Seq(S), s # <<>>
  PROVE  /\ Head(s) \in S /\ Head(s) = s[1] /\ Tail(s) \in Seq(S)
         /\ SubSeq(s, 2, Len(s)) = Tail(s) /\ <<Head(s)>> \o Tail(s) = s
<1>1. Len(s) \in Nat \ {0} /\ Head(s) \in S /\ Tail(s) \in Seq(S) /\ Head(s) = s[1]
  BY EmptySeq, HeadTailProperties
<1>2. SubSeq(s, 2, Len(s)) = Tail(s)
  BY TailIsSubSeq
<1>3. 1 \in 1..Len(s) /\ Len(s) \in 1..Len(s)
  BY <1>1
<1>4. SubSeq(s, 1, Len(s)) = <<s[1]>> \o SubSeq(s, 1 + 1, Len(s))
  BY <1>3, SubSeqRecursiveFirst
<1>5. SubSeq(s, 1, Len(s)) = s
  BY SubSeqFull
<1>6. QED
  BY <1>1, <1>2, <1>4, <1>5

\* The first element of b goes to the end of s.
LEMMA OneOver ==
  ASSUME NEW S, NEW s \in Seq(S), NEW b \in Seq(S), b # <<>>
  PROVE  Append(s, Head(b)) \in Seq(S) /\ Append(s, Head(b)) \o Tail(b) = s \o b
<1>1. PICK h, r : h = Head(b) /\ r = Tail(b)
  OBVIOUS
<1>2. h \in S /\ r \in Seq(S) /\ <<h>> \o r = b
  BY <1>1, HeadOff
<1>3. Append(s, h) = s \o <<h>> /\ <<h>> \in Seq(S) /\ Append(s, h) \in Seq(S)
  BY <1>2, AppendIsConcat
<1>4. (s \o <<h>>) \o r = s \o (<<h>> \o r)
  BY <1>2, <1>3, ConcatAssociative
<1>5. QED
  BY <1>1, <1>2, <1>3, <1>4

\* An element more of what comes last is one more of all.
LEMMA OneMore ==
  ASSUME NEW S, NEW s \in Seq(S), NEW b \in Seq(S), NEW e \in S
  PROVE  s \o Append(b, e) = Append(s \o b, e)
<1>1. Append(b, e) = b \o <<e>> /\ <<e>> \in Seq(S)
  BY AppendIsConcat
<1>2. s \o b \in Seq(S)
  BY ConcatProperties
<1>3. Append(s \o b, e) = (s \o b) \o <<e>>
  BY <1>2, AppendIsConcat
<1>4. (s \o b) \o <<e>> = s \o (b \o <<e>>)
  BY <1>1, ConcatAssociative
<1>5. QED
  BY <1>1, <1>3, <1>4

-----------------------------------------------------------------------------
(* LineServer                                                              *)

Text == Seq(Lined!Chars)
LineConn == [up : Text, down : Seq(Text),
             client : {"off", "on", "gone"}, server : {"none", "queue", "open"},
             err : {"none", "reset", "pipe"}]

\* A line ends in it, or with it.
HasLine(s)  == \E k \in 1..Len(s) : s[k] = Lined!NL
LastOnly(s) == \A k \in 1..Len(s) : s[k] = Lined!NL => k = Len(s)

\* A client of writeline waits for the reply to its line: as long as the line is on
\* its way there is no other, nothing is unread and the connection was not reset.
Asks(k, waits) ==
  /\ LastOnly(k.up) /\ Len(k.down) <= 1
  /\ HasLine(k.up) => k.down = <<>> /\ k.err = "none"
  /\ k.client = "on" => k.err = "none"
  /\ k.client = "on" /\ ~waits => ~HasLine(k.up) /\ k.down = <<>>

\* From the client's buffer to the server's output: w is the server's Wline, l and r
\* are line and Rline, y is the client's Wline.
Flows(k, served, w, l, r, y, o, typedIn) ==
  /\ served <=> k.server = "open"
  /\ k.server = "queue" => o = <<>> /\ k.up \o y = typedIn
  /\ k.server = "open" => o \o w \o l \o r \o k.up \o y = typedIn

\* What a client and its connection are like, by the way the server works.
OneIs(v, k, served, waits, w, l, r, y, o, typedIn) ==
  /\ Flows(k, served, w, l, r, y, o, typedIn)
  /\ v = "writeline" => l = <<>> /\ r = <<>> /\ ~HasLine(y) /\ Asks(k, waits)
  /\ v # "writeline" => w = <<>>

LineTypes ==
  /\ conn \in [Machines -> LineConn] /\ serving \subseteq Machines /\ alive = TRUE
  /\ wline \in [Machines -> Text] /\ line \in [Machines -> Text] /\ rl \in [Machines -> Text]
  /\ wl \in [Machines -> Text] /\ out \in [Machines -> Text] /\ sent \in [Machines -> Text]

LineIs(c) == OneIs(way, conn[c], c \in serving, c \in waiting,
                   wline[c], line[c], rl[c], wl[c], out[c], sent[c])

LineInv == LineTypes /\ \A c \in Machines : LineIs(c)

\* A step that is about the client c leaves the others alone.
LEMMA LineMoves ==
  ASSUME LineInv, NEW c \in Machines, LineTypes', way' = way,
         \A d \in Machines \ {c} :
           /\ conn'[d] = conn[d] /\ (d \in serving' <=> d \in serving)
           /\ (d \in waiting' <=> d \in waiting)
           /\ wline'[d] = wline[d] /\ line'[d] = line[d] /\ rl'[d] = rl[d]
           /\ wl'[d] = wl[d] /\ out'[d] = out[d] /\ sent'[d] = sent[d],
         OneIs(way, conn'[c], c \in serving', c \in waiting',
               wline'[c], line'[c], rl'[c], wl'[c], out'[c], sent'[c])
  PROVE  LineInv'
<1>1. LineIs(c)'
  BY DEF LineIs, OneIs, Flows, Asks, LastOnly, HasLine
<1>2. ASSUME NEW d \in Machines \ {c} PROVE LineIs(d)'
  <2>1. LineIs(d)
    BY DEF LineInv
  <2>2. QED
    BY <2>1, ZenonT(60) DEF LineIs, OneIs, Flows, Asks, LastOnly, HasLine
<1>3. QED
  BY <1>1, <1>2 DEF LineInv

\* What makes a connection of the line servers.
LEMMA LineMakes ==
  ASSUME NEW up \in Text, NEW down \in Seq(Text), NEW cl \in {"off", "on", "gone"},
         NEW srv \in {"none", "queue", "open"}, NEW err \in {"none", "reset", "pipe"}
  PROVE  [up |-> up, down |-> down, client |-> cl, server |-> srv, err |-> err] \in LineConn
BY Zenon DEF LineConn

\* And what it is made of.
LEMMA LineParts ==
  ASSUME NEW k \in LineConn
  PROVE  /\ k = [up |-> k.up, down |-> k.down, client |-> k.client, server |-> k.server, err |-> k.err]
         /\ k.up \in Text /\ k.down \in Seq(Text) /\ k.client \in {"off", "on", "gone"}
         /\ k.server \in {"none", "queue", "open"} /\ k.err \in {"none", "reset", "pipe"}
         /\ <<>> \in Text /\ <<>> \in Seq(Text)
BY DEF LineConn, Text

\* A client of its own: its connection and its buffers.
LEMMA LineOf ==
  ASSUME LineInv, NEW c \in Machines
  PROVE  /\ conn[c] \in LineConn /\ DOMAIN conn = Machines /\ alive = TRUE
         /\ wline[c] \in Text /\ line[c] \in Text /\ rl[c] \in Text
         /\ wl[c] \in Text /\ out[c] \in Text /\ sent[c] \in Text
         /\ Flows(conn[c], c \in serving, wline[c], line[c], rl[c], wl[c], out[c], sent[c])
         /\ way = "writeline" => /\ line[c] = <<>> /\ rl[c] = <<>> /\ ~HasLine(wl[c])
                                 /\ Asks(conn[c], c \in waiting)
         /\ way # "writeline" => wline[c] = <<>>
BY DEF LineInv, LineTypes, LineIs, OneIs

\* Without its empty parts a flow is that of writeline, or that of the readline servers.
LEMMA FlowOf ==
  ASSUME NEW a \in Text, NEW b \in Text, NEW u \in Text, NEW y \in Text
  PROVE  /\ a \o b \o <<>> \o <<>> \o u \o y = a \o b \o u \o y
         /\ \A l \in Text, r \in Text : a \o <<>> \o l \o r \o u \o y = a \o l \o r \o u \o y
         /\ <<>> \o <<>> \o <<>> \o <<>> \o u \o y = u \o y
<1>1. a \o b \in Text /\ a \o <<>> = a /\ <<>> \in Text
  BY ConcatProperties, ConcatEmptySeq DEF Text
<1>2. (a \o b) \o <<>> = a \o b
  BY <1>1, ConcatEmptySeq DEF Text
<1>3. <<>> \o <<>> = <<>> /\ <<>> \o u = u
  BY <1>1, ConcatEmptySeq DEF Text
<1>4. QED
  BY <1>1, <1>2, <1>3

\* A new connection is served with empty buffers.
LEMMA LineAccepts ==
  ASSUME LineInv, Lined!Accept
  PROVE  LineInv'
<1>1. PICK c \in Machines :
        /\ conn[c].server = "queue" /\ conn' = [conn EXCEPT ![c] = Lined!Accepted(@)]
        /\ serving' = serving \cup {c} /\ wline' = [wline EXCEPT ![c] = <<>>]
        /\ rl' = [rl EXCEPT ![c] = <<>>] /\ line' = [line EXCEPT ![c] = <<>>]
  BY DEF Lined!Accept
<1>2. way' = way /\ alive' = alive /\ wl' = wl /\ out' = out /\ sent' = sent /\ waiting' = waiting
  BY DEF Lined!Accept
<1>3. PICK k, j : k = conn[c] /\ j = Lined!Accepted(k)
  OBVIOUS
<1>4. k \in LineConn /\ DOMAIN conn = Machines /\ alive = TRUE
  BY <1>3, LineOf
<1>5. j = [up |-> k.up, down |-> k.down, client |-> k.client, server |-> "open", err |-> k.err]
  BY <1>3, <1>4, LineParts DEF Lined!Accepted
<1>6. j \in LineConn
  BY <1>4, <1>5, LineParts, LineMakes
<1>7. conn' \in [Machines -> LineConn] /\ conn'[c] = j /\ \A d \in Machines \ {c} : conn'[d] = conn[d]
  BY <1>1, <1>3, <1>4, <1>6 DEF LineInv, LineTypes
<1>8. <<>> \in Text /\ k.up \in Text
  BY <1>4, LineParts
<1>9. /\ wline' \in [Machines -> Text] /\ rl' \in [Machines -> Text] /\ line' \in [Machines -> Text]
      /\ wline'[c] = <<>> /\ rl'[c] = <<>> /\ line'[c] = <<>>
      /\ \A d \in Machines \ {c} : wline'[d] = wline[d] /\ rl'[d] = rl[d] /\ line'[d] = line[d]
  BY <1>1, <1>8 DEF LineInv, LineTypes
<1>10. LineTypes'
  BY <1>1, <1>2, <1>7, <1>9 DEF LineInv, LineTypes, LineConn, Text
<1>11. out[c] = <<>> /\ k.up \o wl[c] = sent[c] /\ wl[c] \in Text
  BY <1>1, <1>3, LineOf DEF Flows
<1>12. Flows(j, TRUE, <<>>, <<>>, <<>>, wl[c], out[c], sent[c])
  <2>1. <<>> \o <<>> \o <<>> \o <<>> \o k.up \o wl[c] = k.up \o wl[c]
    BY <1>8, <1>11, FlowOf, ZenonT(60)
  <2>2. j.up = k.up /\ j.server = "open"
    BY <1>5
  <2>3. QED
    BY <1>11, <2>1, <2>2 DEF Flows
<1>13. way = "writeline" => Asks(j, c \in waiting) /\ ~HasLine(wl[c])
  <2>1. way = "writeline" => Asks(k, c \in waiting) /\ ~HasLine(wl[c])
    BY <1>3, LineOf
  <2>2. QED
    BY <1>5, <2>1 DEF Asks
<1>14. OneIs(way, conn'[c], c \in serving', c \in waiting',
             wline'[c], line'[c], rl'[c], wl'[c], out'[c], sent'[c])
  BY <1>1, <1>2, <1>7, <1>9, <1>12, <1>13 DEF OneIs
<1>15. QED
  BY <1>1, <1>2, <1>7, <1>9, <1>10, <1>14, LineMoves

\* A client that is gone, and whose data are read, is forgotten.
LEMMA LineLeaves ==
  ASSUME LineInv, NEW c \in Machines, Lined!Leave(c)
  PROVE  LineInv'
<1>1. PICK k, j : k = conn[c] /\ j = Lined!Closed(k)
  OBVIOUS
<1>2. /\ Lined!Readable(k) /\ Lined!AtEnd(k) /\ serving' = serving \ {c}
      /\ conn' = [conn EXCEPT ![c] = j] /\ way' = way /\ alive' = alive /\ waiting' = waiting
      /\ wline' = wline /\ line' = [line EXCEPT ![c] = <<>>] /\ rl' = rl /\ wl' = wl
      /\ out' = out \/ out' = [out EXCEPT ![c] = @ \o line[c]]
      /\ sent' = sent
  BY <1>1 DEF Lined!Leave
<1>3. k \in LineConn /\ DOMAIN conn = Machines /\ alive = TRUE
  BY <1>1, LineOf
<1>4. k.client = "gone"
  BY <1>2, <1>3, LineParts DEF Lined!Readable, Lined!AtEnd
<1>5. j = [up |-> <<>>, down |-> <<>>, client |-> "off", server |-> "none", err |-> "none"]
  BY <1>1, <1>4 DEF Lined!Closed, Lined!NoConn
<1>6. j \in LineConn
  BY <1>3, <1>5, LineParts, LineMakes
<1>7. conn' \in [Machines -> LineConn] /\ conn'[c] = j /\ \A d \in Machines \ {c} : conn'[d] = conn[d]
  BY <1>2, <1>3, <1>6 DEF LineInv, LineTypes
<1>8. /\ line' \in [Machines -> Text] /\ line'[c] = <<>>
      /\ out' \in [Machines -> Text]
      /\ \A d \in Machines \ {c} : line'[d] = line[d] /\ out'[d] = out[d]
  <2>1. <<>> \in Text /\ out[c] \o line[c] \in Text
    BY <1>3, LineOf, LineParts, ConcatProperties DEF Text
  <2>2. line \in [Machines -> Text] /\ out \in [Machines -> Text]
    BY DEF LineInv, LineTypes
  <2>3. QED
    BY <1>2, <2>1, <2>2
<1>9. LineTypes'
  BY <1>2, <1>7, <1>8 DEF LineInv, LineTypes, LineConn, Text
<1>10. Flows(j, FALSE, wline[c], <<>>, rl[c], wl[c], out'[c], sent[c])
  BY <1>5 DEF Flows
<1>11. Asks(j, c \in waiting)
  BY <1>5 DEF Asks, HasLine, LastOnly
<1>12. OneIs(way, conn'[c], c \in serving', c \in waiting',
             wline'[c], line'[c], rl'[c], wl'[c], out'[c], sent'[c])
  <2>1. /\ way = "writeline" => line[c] = <<>> /\ rl[c] = <<>> /\ ~HasLine(wl[c])
        /\ way # "writeline" => wline[c] = <<>>
    BY LineOf
  <2>2. c \notin serving'
    BY <1>2
  <2>3. OneIs(way, j, FALSE, c \in waiting, wline[c], <<>>, rl[c], wl[c], out'[c], sent[c])
    BY <1>10, <1>11, <2>1 DEF OneIs
  <2>4. QED
    BY <1>2, <1>7, <1>8, <2>2, <2>3 DEF OneIs, Flows, Asks
<1>13. QED
  BY <1>2, <1>7, <1>8, <1>9, <1>12, LineMoves

\* One reply of writeline: a client that is gone resets the connection at most.
LEMMA LineReplies ==
  ASSUME NEW conns \in [Machines -> LineConn], NEW c \in Machines, NEW text \in Text,
         NEW prompt \in BOOLEAN, conns[c].err = "none"
  PROVE  \E j \in LineConn :
           /\ Lined!Writes(conns, <<[to |-> c, cell |-> text]>>, prompt)
                = [conn |-> [conns EXCEPT ![c] = j], alive |-> TRUE]
           /\ j.up = conns[c].up /\ j.client = conns[c].client /\ j.server = conns[c].server
           /\ \/ j.client = "gone" /\ j.down = conns[c].down
              \/ j.client # "gone" /\ j.err = "none" /\ Len(j.down) = Len(conns[c].down) + 1
<1>1. PICK C, ws, k, w : /\ C = Lined!Chars \cup Text /\ w = [to |-> c, cell |-> text]
                         /\ ws = <<w>> /\ k = conns[c]
  OBVIOUS
<1>2. conns \in Conns(Machines, C)
  <2>1. LineConn \subseteq T!Connection(C)
    <3> SUFFICES ASSUME NEW x \in LineConn PROVE x \in T!Connection(C)
      OBVIOUS
    <3>1. x.up \in Seq(C) /\ x.down \in Seq(C)
      <4>1. x.up \in Seq(Lined!Chars) /\ x.down \in Seq(Text)
        BY DEF LineConn, Text
      <4>2. Lined!Chars \subseteq C /\ Text \subseteq C
        BY <1>1
      <4>3. QED
        BY <4>1, <4>2, SeqMonotonic
    <3>2. /\ x = [up |-> x.up, down |-> x.down, client |-> x.client, server |-> x.server, err |-> x.err]
          /\ x.client \in {"off", "on", "half", "gone"}
          /\ x.server \in {"none", "queue", "open", "closed"} /\ x.err \in {"none", "reset", "pipe"}
      BY DEF LineConn
    <3>3. QED
      BY <3>1, <3>2, Zenon DEF T!Connection
  <2>2. QED
    BY <2>1 DEF Conns
<1>3. ws \in WriteLists(1, Machines, C)
  <2>1. w \in [to : Machines, cell : C]
    BY <1>1
  <2>2. ws = [x \in 1..1 |-> w]
    BY <1>1
  <2>3. QED
    BY <2>1, <2>2 DEF WriteLists
<1>4. PICK f \in [0..1 -> Lives(Machines, C)] : WriteSteps(f, 1, conns, ws, prompt)
  <2>1. 1 \in Nat
    OBVIOUS
  <2>2. QED
    BY <1>2, <1>3, <2>1, WritesTrace, Zenon
<1>5. PICK s : s = [conn |-> conns, alive |-> TRUE]
  OBVIOUS
<1>6. T!Writes(conns, ws, prompt) = T!Write(s, w, prompt)
  <2>1. f[0] = s /\ f[1] = T!Writes(conns, ws, prompt)
    BY <1>4, <1>5 DEF WriteSteps
  <2>2. 1 \in 1..1 /\ 1 - 1 = 0 /\ ws[1] = w
    BY <1>1
  <2>3. f[1] = T!Write(f[1 - 1], ws[1], prompt)
    BY <1>4, <2>2 DEF WriteSteps
  <2>4. QED
    BY <2>1, <2>2, <2>3
<1>7. k \in LineConn /\ s.conn[c] = k /\ s.alive = TRUE /\ w.to = c /\ w.cell = text
  BY <1>1, <1>5
<1>12. /\ k.up \in Text /\ k.down \in Seq(Text) /\ k.client \in {"off", "on", "gone"}
       /\ k.server \in {"none", "queue", "open"} /\ k.err \in {"none", "reset", "pipe"}
  BY <1>7, LineParts
<1>8. ASSUME NEW j, T!Write(s, w, prompt) = [s EXCEPT !.conn[c] = j]
      PROVE  Lined!Writes(conns, ws, prompt) = [conn |-> [conns EXCEPT ![c] = j], alive |-> TRUE]
  <2>1. PICK y : y = [conns EXCEPT ![c] = j]
    OBVIOUS
  <2>2. s.conn = conns
    BY <1>5
  <2>3. T!Write(s, w, prompt) = [conn |-> y, alive |-> TRUE]
    BY <1>5, <1>8, <2>1, <2>2
  <2>4. Lined!Writes(conns, ws, prompt) = T!Writes(conns, ws, prompt)
    BY SameTcp
  <2>5. QED
    BY <1>6, <2>1, <2>3, <2>4
<1>9. CASE k.client = "gone"
  <2>1. PICK x, j : x = (IF prompt THEN "pipe" ELSE k.err) /\ j = [k EXCEPT !.err = x]
    OBVIOUS
  <2>2. j = [up |-> k.up, down |-> k.down, client |-> k.client, server |-> k.server, err |-> x]
    BY <1>7, <2>1, LineParts
  <2>3. x \in {"none", "reset", "pipe"}
    BY <1>7, <2>1, LineParts
  <2>4. j \in LineConn
    BY <1>12, <2>2, <2>3, LineMakes
  <2>5. T!Write(s, w, prompt) = [s EXCEPT !.conn[c] = j]
    BY <1>1, <1>7, <1>9, <2>1 DEF T!Write
  <2>6. QED
    BY <1>1, <1>8, <1>9, <2>2, <2>4, <2>5
<1>10. CASE k.client # "gone"
  <2>1. PICK x, j : x = Append(k.down, text) /\ j = [k EXCEPT !.down = x]
    OBVIOUS
  <2>2. j = [up |-> k.up, down |-> x, client |-> k.client, server |-> k.server, err |-> k.err]
    <3>1. k = [up |-> k.up, down |-> k.down, client |-> k.client, server |-> k.server, err |-> k.err]
      BY <1>7, LineParts
    <3>2. QED
      BY <2>1, <3>1
  <2>3. x \in Seq(Text) /\ Len(x) = Len(k.down) + 1
    BY <1>12, <2>1, AppendProperties
  <2>4. j \in LineConn
    BY <1>12, <2>2, <2>3, LineMakes
  <2>5. T!Write(s, w, prompt) = [s EXCEPT !.conn[c] = j]
    <3>1. T!Write(s, w, prompt) = [s EXCEPT !.conn[c].down = Append(@, w.cell)]
      BY <1>1, <1>7, <1>10 DEF T!Write
    <3>2. s.conn[c].down = k.down
      BY <1>7
    <3>3. T!Write(s, w, prompt) = [s EXCEPT !.conn[c].down = x]
      BY <1>7, <2>1, <3>1, <3>2
    <3>4. QED
      BY <1>7, <2>1, <3>3
  <2>6. QED
    BY <1>1, <1>8, <1>10, <2>2, <2>3, <2>4, <2>5
<1>11. QED
  BY <1>9, <1>10

\* What is left when a character is taken.
LEMMA TailLines ==
  ASSUME NEW s \in Text, s # <<>>, LastOnly(s)
  PROVE  /\ LastOnly(Tail(s)) /\ (HasLine(Tail(s)) => HasLine(s))
         /\ Head(s) = Lined!NL => HasLine(s) /\ ~HasLine(Tail(s))
<1>1. PICK m, r : m = Len(s) /\ r = Tail(s)
  OBVIOUS
<1>2. /\ m \in Nat \ {0} /\ Len(r) = m - 1 /\ \A x \in 1..(m - 1) : r[x] = s[x + 1]
      /\ Head(s) = s[1]
  BY <1>1, HeadOff, EmptySeq, HeadTailProperties DEF Text
<1>3. LastOnly(r)
  <2> SUFFICES ASSUME NEW x \in 1..Len(r), r[x] = Lined!NL PROVE x = Len(r)
    BY DEF LastOnly
  <2>1. x + 1 \in 1..m /\ s[x + 1] = Lined!NL
    BY <1>2
  <2>2. x + 1 = m
    BY <1>1, <2>1 DEF LastOnly
  <2>3. QED
    BY <1>2, <2>2
<1>4. HasLine(r) => HasLine(s)
  <2> SUFFICES ASSUME NEW x \in 1..Len(r), r[x] = Lined!NL PROVE HasLine(s)
    BY DEF HasLine
  <2>1. x + 1 \in 1..m /\ s[x + 1] = Lined!NL
    BY <1>2
  <2>2. QED
    BY <1>1, <2>1 DEF HasLine
<1>5. Head(s) = Lined!NL => HasLine(s) /\ ~HasLine(r)
  <2> SUFFICES ASSUME Head(s) = Lined!NL PROVE HasLine(s) /\ ~HasLine(r)
    OBVIOUS
  <2>1. 1 \in 1..m /\ s[1] = Lined!NL
    BY <1>2
  <2>2. m = 1
    BY <1>1, <2>1 DEF LastOnly
  <2>3. QED
    BY <1>1, <1>2, <2>1, <2>2 DEF HasLine
<1>6. QED
  BY <1>1, <1>3, <1>4, <1>5

\* A read of m cells.
LEMMA LineTaken ==
  ASSUME NEW k \in LineConn, k.up # <<>>, NEW m \in 1..Len(k.up)
  PROVE  /\ Lined!Taken(k, m) = [up |-> SubSeq(k.up, m + 1, Len(k.up)), down |-> k.down,
                                 client |-> k.client, server |-> k.server, err |-> k.err]
         /\ Lined!Taken(k, m) \in LineConn
         /\ SubSeq(k.up, 1, m) \in Text /\ SubSeq(k.up, m + 1, Len(k.up)) \in Text
         /\ SubSeq(k.up, 1, m) \o SubSeq(k.up, m + 1, Len(k.up)) = k.up
<1>1. PICK u, j, r, len : u = k.up /\ j = Lined!Taken(k, m) /\ r = SubSeq(u, m + 1, len) /\ len = Len(u)
  OBVIOUS
<1>2. /\ k = [up |-> u, down |-> k.down, client |-> k.client, server |-> k.server, err |-> k.err]
      /\ u \in Text /\ k.down \in Seq(Text) /\ k.client \in {"off", "on", "gone"}
      /\ k.server \in {"none", "queue", "open"} /\ k.err \in {"none", "reset", "pipe"}
  BY <1>1, LineParts
<1>3. len \in Nat /\ m \in 1..len
  BY <1>1, <1>2, LenProperties DEF Text
<1>4. j = [up |-> r, down |-> k.down, client |-> k.client, server |-> k.server, err |-> k.err]
  <2>1. ~(m = 0 /\ k.err = "reset")
    BY <1>3
  <2>2. j = [k EXCEPT !.up = r, !.err = k.err]
    BY <1>1, <2>1 DEF Lined!Taken
  <2>3. QED
    BY <1>2, <2>2
<1>5. SubSeq(u, 1, m) \in Text /\ r \in Text
  <2>1. \A x \in 1..len : u[x] \in Lined!Chars
    BY <1>1, <1>2, ElementOfSeq DEF Text
  <2>2. (\A x \in 1..m : u[x] \in Lined!Chars) /\ \A x \in (m + 1)..len : u[x] \in Lined!Chars
    BY <1>3, <2>1
  <2>3. m + 1 \in Int /\ len \in Int /\ 1 \in Int /\ m \in Int
    BY <1>3
  <2>4. SubSeq(u, 1, m) \in Seq(Lined!Chars)
    BY <2>2, <2>3, SubSeqProperties
  <2>5. r \in Seq(Lined!Chars)
    BY <1>1, <2>2, <2>3, SubSeqProperties
  <2>6. QED
    BY <2>4, <2>5 DEF Text
<1>6. SubSeq(u, 1, m) \o r = u
  <2>1. 1 \in 1..(len + 1) /\ m \in (1 - 1)..len /\ len \in m..len
    BY <1>3
  <2>2. SubSeq(u, 1, m) \o SubSeq(u, m + 1, len) = SubSeq(u, 1, len)
    BY <1>1, <1>2, <2>1, ConcatAdjacentSubSeq DEF Text
  <2>3. SubSeq(u, 1, len) = u
    BY <1>1, <1>2, SubSeqFull DEF Text
  <2>4. QED
    BY <1>1, <2>2, <2>3
<1>7. j \in LineConn
  BY <1>2, <1>4, <1>5, LineMakes
<1>8. QED
  BY <1>1, <1>4, <1>5, <1>6, <1>7

\* The first character of u goes to the end of w: a and r are what they are then.
Takes(a, r, w, u) == u # <<>> /\ a = Append(w, Head(u)) /\ r = Tail(u)

\* A flow goes on when its first character does.
LEMMA FlowsOn ==
  ASSUME NEW o \in Text, NEW w \in Text, NEW u \in Text, NEW a, NEW r, Takes(a, r, w, u)
  PROVE  a \in Text /\ r \in Text /\ o \o a \in Text /\ o \o a \o r = o \o w \o u
<1>1. r \in Text
  BY HeadOff DEF Text, Takes
<1>2. a \in Text /\ a \o r = w \o u
  <2>1. Append(w, Head(u)) \in Text /\ Append(w, Head(u)) \o Tail(u) = w \o u
    BY OneOver DEF Text, Takes
  <2>2. QED
    BY <2>1 DEF Takes
<1>3. o \in Seq(Lined!Chars) /\ a \in Seq(Lined!Chars) /\ r \in Seq(Lined!Chars)
  BY <1>1, <1>2 DEF Text
<1>4. o \o a \in Text
  BY <1>3, ConcatProperties DEF Text
<1>5. (o \o a) \o r = o \o (a \o r)
  BY <1>3, ConcatAssociative
<1>6. (o \o w) \o u = o \o (w \o u)
  BY ConcatAssociative, SMTT(30) DEF Text
<1>7. QED
  BY <1>1, <1>2, <1>4, <1>5, <1>6

\* A connection and the buffers of a client that change, and nothing else.
LEMMA LineTypesKept ==
  ASSUME LineInv, NEW c \in Machines, NEW j \in LineConn, conn' = [conn EXCEPT ![c] = j],
         serving' = serving, alive' = alive,
         NEW w \in Text, wline' = [wline EXCEPT ![c] = w],
         NEW l \in Text, line' = [line EXCEPT ![c] = l],
         NEW r \in Text, rl' = [rl EXCEPT ![c] = r],
         NEW o \in Text, out' = [out EXCEPT ![c] = o],
         NEW y \in Text, wl' = [wl EXCEPT ![c] = y],
         NEW s \in Text, sent' = [sent EXCEPT ![c] = s],
         way' = way, waiting' \ {c} = waiting \ {c},
         OneIs(way, j, c \in serving, c \in waiting', w, l, r, y, o, s)
  PROVE  LineInv'
<1>1. LineTypes'
  BY DEF LineInv, LineTypes, LineConn, Text
<1>2. /\ conn'[c] = j /\ wline'[c] = w /\ line'[c] = l /\ rl'[c] = r /\ out'[c] = o
      /\ wl'[c] = y /\ sent'[c] = s
  BY DEF LineInv, LineTypes
<1>3. ASSUME NEW d \in Machines \ {c}
      PROVE  /\ conn'[d] = conn[d] /\ (d \in serving' <=> d \in serving)
             /\ (d \in waiting' <=> d \in waiting)
             /\ wline'[d] = wline[d] /\ line'[d] = line[d] /\ rl'[d] = rl[d]
             /\ wl'[d] = wl[d] /\ out'[d] = out[d] /\ sent'[d] = sent[d]
  BY DEF LineInv, LineTypes
<1>4. OneIs(way, conn'[c], c \in serving', c \in waiting',
            wline'[c], line'[c], rl'[c], wl'[c], out'[c], sent'[c])
  BY <1>2 DEF OneIs, Flows, Asks
<1>5. QED
  BY <1>1, <1>3, <1>4, LineMoves

\* What stays the same is what it is.
LEMMA LineSame ==
  ASSUME LineInv, NEW c \in Machines
  PROVE  /\ conn = [conn EXCEPT ![c] = conn[c]] /\ wline = [wline EXCEPT ![c] = wline[c]]
         /\ line = [line EXCEPT ![c] = line[c]] /\ rl = [rl EXCEPT ![c] = rl[c]]
         /\ out = [out EXCEPT ![c] = out[c]] /\ wl = [wl EXCEPT ![c] = wl[c]]
         /\ sent = [sent EXCEPT ![c] = sent[c]]
BY DEF LineInv, LineTypes

\* A server reads what is there: readline's buffer is filled.
LEMMA LineFills ==
  ASSUME LineInv, NEW c \in Machines, Lined!Fill(c)
  PROVE  LineInv'
<1>1. PICK k, u : k = conn[c] /\ u = k.up
  OBVIOUS
<1>2. PICK m \in 1..Len(u) :
        rl' = [rl EXCEPT ![c] = SubSeq(u, 1, m)] /\ conn' = [conn EXCEPT ![c] = Lined!Taken(k, m)]
  BY <1>1 DEF Lined!Fill, Lined!Own
<1>3. /\ way # "writeline" /\ c \in serving /\ rl[c] = <<>> /\ u # <<>> /\ way' = way
      /\ serving' = serving /\ alive' = alive /\ waiting' = waiting /\ wline' = wline
      /\ wl' = wl /\ line' = line /\ out' = out /\ sent' = sent
  BY <1>1 DEF Lined!Fill, Lined!Own
<1>4. /\ k \in LineConn /\ wline[c] = <<>> /\ line[c] \in Text /\ out[c] \in Text
      /\ wl[c] \in Text /\ sent[c] \in Text /\ u \in Text
      /\ k.server = "open" /\ out[c] \o <<>> \o line[c] \o <<>> \o u \o wl[c] = sent[c]
  BY <1>1, <1>3, LineOf, LineParts DEF Flows
<1>5. PICK j, r, v : j = Lined!Taken(k, m) /\ r = SubSeq(u, 1, m) /\ v = SubSeq(u, m + 1, Len(u))
  OBVIOUS
<1>6. /\ j = [up |-> v, down |-> k.down, client |-> k.client, server |-> k.server, err |-> k.err]
      /\ j \in LineConn /\ r \in Text /\ v \in Text /\ r \o v = u
  BY <1>1, <1>3, <1>4, <1>5, LineTaken
<1>7. out[c] \o <<>> \o line[c] \o r \o v \o wl[c] = sent[c]
  <2>1. PICK o, l, y : o = out[c] /\ l = line[c] /\ y = wl[c]
    OBVIOUS
  <2>2. o \in Seq(Lined!Chars) /\ l \in Seq(Lined!Chars) /\ y \in Seq(Lined!Chars)
    BY <1>4, <2>1 DEF Text
  <2>3. r \in Seq(Lined!Chars) /\ v \in Seq(Lined!Chars)
    BY <1>6 DEF Text
  <2>4. o \o <<>> = o /\ o \o l \in Seq(Lined!Chars)
    BY <2>2, ConcatEmptySeq, ConcatProperties
  <2>5. PICK p : p = o \o l
    OBVIOUS
  <2>6. p \in Seq(Lined!Chars)
    BY <2>4, <2>5
  <2>7. (p \o r) \o v = p \o (r \o v)
    BY <2>3, <2>6, ConcatAssociative, SMTT(30)
  <2>8. p \o <<>> = p
    BY <2>6, ConcatEmptySeq
  <2>9. QED
    BY <1>4, <1>6, <2>1, <2>4, <2>5, <2>7, <2>8
<1>8. OneIs(way, j, c \in serving, c \in waiting', <<>>, line[c], r, wl[c], out[c], sent[c])
  <2>1. Flows(j, TRUE, <<>>, line[c], r, wl[c], out[c], sent[c])
    BY <1>4, <1>6, <1>7 DEF Flows
  <2>2. QED
    BY <1>3, <2>1 DEF OneIs, Flows
<1>9. <<>> \in Text
  BY DEF Text
<1>10. QED
  BY <1>2, <1>3, <1>4, <1>5, <1>6, <1>8, <1>9, LineSame, LineTypesKept, ZenonT(60)

\* readline takes a character, and prints the line when it is complete.
LEMMA LineReads ==
  ASSUME LineInv, NEW c \in Machines, Lined!ReadChar(c)
  PROVE  LineInv'
<1>1. PICK k, o, l, r, y, a, v :
        /\ k = conn[c] /\ o = out[c] /\ l = line[c] /\ r = rl[c] /\ y = wl[c]
        /\ a = Append(l, Head(r)) /\ v = Tail(r)
  OBVIOUS
<1>2. /\ way # "writeline" /\ c \in serving /\ r # <<>> /\ rl' = [rl EXCEPT ![c] = v]
      /\ conn' = conn /\ way' = way /\ serving' = serving /\ alive' = alive
      /\ waiting' = waiting /\ wline' = wline /\ wl' = wl /\ sent' = sent
      /\ \/ line' = [line EXCEPT ![c] = <<>>] /\ out' = [out EXCEPT ![c] = o \o a]
         \/ line' = [line EXCEPT ![c] = a] /\ out' = out
  BY <1>1 DEF Lined!ReadChar, Lined!Own
<1>3. /\ k \in LineConn /\ wline[c] = <<>> /\ l \in Text /\ r \in Text /\ o \in Text
      /\ y \in Text /\ sent[c] \in Text
      /\ k.server = "open" /\ o \o <<>> \o l \o r \o k.up \o y = sent[c]
  BY <1>1, <1>2, LineOf DEF Flows
<1>4. k.up \in Text /\ <<>> \in Text
  BY <1>3, LineParts
<1>5. a \in Text /\ v \in Text /\ o \o a \in Text /\ o \o a \o v = o \o l \o r
  <2>1. Takes(a, v, l, r)
    BY <1>1, <1>2 DEF Takes
  <2>2. o \in Text /\ l \in Text /\ r \in Text
    BY <1>3
  <2>3. QED
    BY <2>1, <2>2, FlowsOn, SMTT(30)
<1>6. o \o <<>> = o /\ (o \o a) \o <<>> = o \o a
  BY <1>3, <1>5, ConcatEmptySeq DEF Text
<1>7. o \o l \o r \o k.up \o y = sent[c]
  BY <1>3, <1>6
<1>8. /\ o \o <<>> \o a \o v \o k.up \o y = sent[c]
      /\ o \o a \o <<>> \o <<>> \o v \o k.up \o y = sent[c]
  BY <1>5, <1>6, <1>7
<1>9. CASE line' = [line EXCEPT ![c] = <<>>] /\ out' = [out EXCEPT ![c] = o \o a]
  <2>1. OneIs(way, k, c \in serving, c \in waiting', <<>>, <<>>, v, y, o \o a, sent[c])
    BY <1>2, <1>3, <1>8 DEF OneIs, Flows
  <2>2. /\ conn' = [conn EXCEPT ![c] = k] /\ wline' = [wline EXCEPT ![c] = <<>>]
        /\ wl' = [wl EXCEPT ![c] = y] /\ sent' = [sent EXCEPT ![c] = sent[c]]
    BY <1>1, <1>2, <1>3, LineSame
  <2>3. QED
    BY <1>2, <1>3, <1>4, <1>5, <1>9, <2>1, <2>2, LineTypesKept
<1>10. CASE line' = [line EXCEPT ![c] = a] /\ out' = out
  <2>1. OneIs(way, k, c \in serving, c \in waiting', <<>>, a, v, y, o, sent[c])
    BY <1>2, <1>3, <1>8 DEF OneIs, Flows
  <2>2. /\ conn' = [conn EXCEPT ![c] = k] /\ wline' = [wline EXCEPT ![c] = <<>>]
        /\ wl' = [wl EXCEPT ![c] = y] /\ sent' = [sent EXCEPT ![c] = sent[c]]
        /\ out' = [out EXCEPT ![c] = o]
    BY <1>1, <1>2, <1>3, <1>10, LineSame
  <2>3. QED
    BY <1>2, <1>3, <1>4, <1>5, <1>10, <2>1, <2>2, LineTypesKept
<1>11. QED
  BY <1>2, <1>9, <1>10

\* writeline takes a character, and replies when the line is complete.
LEMMA LineWrites ==
  ASSUME LineInv, NEW c \in Machines, Lined!WriteLine(c)
  PROVE  LineInv'
<1>1. PICK k, u, o, w, y, a, v, j :
        /\ k = conn[c] /\ u = k.up /\ o = out[c] /\ w = wline[c] /\ y = wl[c]
        /\ a = Append(w, Head(u)) /\ v = Tail(u) /\ j = Lined!Taken(k, 1)
  OBVIOUS
<1>2. /\ way = "writeline" /\ c \in serving /\ u # <<>> /\ way' = way /\ waiting' = waiting
      /\ wl' = wl /\ rl' = rl /\ line' = line /\ sent' = sent
  BY <1>1 DEF Lined!WriteLine
<1>3. \/ /\ Head(u) = Lined!NL /\ wline' = [wline EXCEPT ![c] = <<>>]
         /\ out' = [out EXCEPT ![c] = o \o a]
         /\ \E prompt \in BOOLEAN :
              LET s == Lined!Writes([conn EXCEPT ![c] = j], <<[to |-> c, cell |-> a]>>, prompt)
              IN  /\ alive' = s.alive
                  /\ conn' = IF s.alive THEN s.conn ELSE Lined!Orphaned(s.conn)
                  /\ serving' = IF s.alive THEN serving ELSE {}
      \/ /\ Head(u) # Lined!NL /\ wline' = [wline EXCEPT ![c] = a]
         /\ conn' = [conn EXCEPT ![c] = j]
         /\ alive' = alive /\ serving' = serving /\ out' = out
  BY <1>1 DEF Lined!WriteLine, Lined!Own
<1>4. /\ k \in LineConn /\ line[c] = <<>> /\ rl[c] = <<>> /\ w \in Text /\ o \in Text
      /\ y \in Text /\ sent[c] \in Text /\ u \in Text /\ <<>> \in Text
      /\ k.server = "open" /\ o \o w \o <<>> \o <<>> \o u \o y = sent[c]
      /\ Asks(k, c \in waiting) /\ ~HasLine(y)
  BY <1>1, <1>2, LineOf, LineParts DEF Flows
<1>5. a \in Text /\ v \in Text /\ o \o a \in Text /\ o \o a \o v = o \o w \o u
  <2>1. Takes(a, v, w, u)
    BY <1>1, <1>2 DEF Takes
  <2>2. o \in Text /\ w \in Text /\ u \in Text
    BY <1>4
  <2>3. QED
    BY <2>1, <2>2, FlowsOn, SMTT(30)
<1>6. /\ o \o a \o <<>> \o <<>> \o v \o y = sent[c]
      /\ o \o a \o <<>> \o <<>> \o <<>> \o v \o y = sent[c]
  <2>1. PICK p : p = o \o a
    OBVIOUS
  <2>2. p \in Text /\ v \in Text /\ y \in Text /\ u \in Text /\ w \in Text /\ o \in Text /\ <<>> \in Text
    BY <1>4, <1>5, <2>1
  <2>3. p \o <<>> = p
    BY <2>2, ConcatEmptySeq DEF Text
  <2>4. o \o w \o <<>> \o <<>> \o u \o y = o \o w \o u \o y
    BY <2>2, FlowOf
  <2>5. QED
    BY <1>4, <1>5, <2>1, <2>3, <2>4
<1>7. /\ j = [up |-> v, down |-> k.down, client |-> k.client, server |-> k.server, err |-> k.err]
      /\ j \in LineConn
  <2>1. 1 \in 1..Len(u) /\ 1 + 1 = 2
    BY <1>2, <1>4, EmptySeq DEF Text
  <2>2. SubSeq(u, 2, Len(u)) = v
    BY <1>1, <1>2, <1>4, HeadOff DEF Text
  <2>3. QED
    BY <1>1, <1>2, <1>4, <2>1, <2>2, LineTaken, ZenonT(60)
<1>8. LastOnly(v) /\ (HasLine(v) => HasLine(u)) /\ (Head(u) = Lined!NL => HasLine(u) /\ ~HasLine(v))
  <2>1. LastOnly(u) /\ u \in Text /\ u # <<>>
    BY <1>1, <1>2, <1>4 DEF Asks
  <2>2. /\ LastOnly(Tail(u)) /\ (HasLine(Tail(u)) => HasLine(u))
        /\ (Head(u) = Lined!NL => HasLine(u) /\ ~HasLine(Tail(u)))
    BY <2>1, TailLines
  <2>3. QED
    BY <1>1, <2>2
<1>9. CASE Head(u) # Lined!NL
  <2>1. Asks(j, c \in waiting)
    <3>1. j.up = v /\ j.down = k.down /\ j.client = k.client /\ j.err = k.err
      BY <1>7
    <3>2. LastOnly(v) /\ (HasLine(v) => HasLine(k.up))
      BY <1>1, <1>8
    <3>3. QED
      BY <1>4, <3>1, <3>2 DEF Asks
  <2>2. OneIs(way, j, c \in serving, c \in waiting', a, <<>>, <<>>, y, o, sent[c])
    BY <1>2, <1>4, <1>6, <1>7, <2>1 DEF OneIs, Flows
  <2>3. /\ wline' = [wline EXCEPT ![c] = a] /\ conn' = [conn EXCEPT ![c] = j]
        /\ alive' = alive /\ serving' = serving
        /\ line' = [line EXCEPT ![c] = <<>>] /\ rl' = [rl EXCEPT ![c] = <<>>]
        /\ out' = [out EXCEPT ![c] = o] /\ wl' = [wl EXCEPT ![c] = y]
        /\ sent' = [sent EXCEPT ![c] = sent[c]]
    BY <1>1, <1>2, <1>3, <1>4, <1>9, LineSame
  <2>4. QED
    BY <1>2, <1>4, <1>5, <1>7, <2>2, <2>3, LineTypesKept
<1>10. CASE Head(u) = Lined!NL
  <2>1. PICK prompt, s, conns :
          /\ prompt \in BOOLEAN /\ conns = [conn EXCEPT ![c] = j]
          /\ s = Lined!Writes(conns, <<[to |-> c, cell |-> a]>>, prompt)
          /\ alive' = s.alive /\ conn' = IF s.alive THEN s.conn ELSE Lined!Orphaned(s.conn)
          /\ serving' = IF s.alive THEN serving ELSE {}
    BY <1>3, <1>10
  <2>2. HasLine(k.up) /\ k.down = <<>> /\ k.err = "none"
    BY <1>1, <1>4, <1>8, <1>10 DEF Asks
  <2>3. conns \in [Machines -> LineConn] /\ conns[c] = j
    BY <1>7, <2>1, LineOf DEF LineInv, LineTypes
  <2>4. PICK x \in LineConn :
          /\ s = [conn |-> [conns EXCEPT ![c] = x], alive |-> TRUE]
          /\ x.up = j.up /\ x.client = j.client /\ x.server = j.server
          /\ \/ x.client = "gone" /\ x.down = j.down
             \/ x.client # "gone" /\ x.err = "none" /\ Len(x.down) = Len(j.down) + 1
    BY <1>5, <1>7, <2>1, <2>2, <2>3, LineReplies
  <2>5. conn' = [conn EXCEPT ![c] = x] /\ alive' = alive /\ serving' = serving
    <3>1. s.conn = [conns EXCEPT ![c] = x] /\ s.alive = TRUE
      BY <2>4
    <3>2. alive = TRUE
      BY LineOf
    <3>3. QED
      BY <2>1, <3>1, <3>2
  <2>6. Asks(x, c \in waiting)
    <3>1. x.up = v /\ x.client = k.client /\ j.down = <<>> /\ Len(j.down) = 0
      BY <1>7, <2>2, <2>4
    <3>2. k.client = "on" => c \in waiting
      BY <1>4, <2>2 DEF Asks
    <3>3. Len(x.down) <= 1
      <4>1. Len(x.down) = Len(j.down) \/ Len(x.down) = Len(j.down) + 1
        BY <2>4
      <4>2. PICK m, q : m = Len(j.down) /\ q = Len(x.down)
        OBVIOUS
      <4>3. m = 0 /\ (q = m \/ q = m + 1)
        BY <3>1, <4>1, <4>2
      <4>4. q <= 1
        BY <4>3
      <4>5. QED
        BY <4>2, <4>4
    <3>4. x.client = "on" => x.err = "none"
      BY <2>4
    <3>5. QED
      BY <1>8, <1>10, <3>1, <3>2, <3>3, <3>4 DEF Asks
  <2>7. OneIs(way, x, c \in serving, c \in waiting', <<>>, <<>>, <<>>, y, o \o a, sent[c])
    <3>1. x.up = v /\ x.server = "open"
      BY <1>4, <1>7, <2>4
    <3>2. QED
      BY <1>2, <1>4, <1>6, <2>6, <3>1 DEF OneIs, Flows
  <2>8. /\ wline' = [wline EXCEPT ![c] = <<>>] /\ out' = [out EXCEPT ![c] = o \o a]
        /\ line' = [line EXCEPT ![c] = <<>>] /\ rl' = [rl EXCEPT ![c] = <<>>]
        /\ wl' = [wl EXCEPT ![c] = y] /\ sent' = [sent EXCEPT ![c] = sent[c]]
    BY <1>1, <1>2, <1>3, <1>4, <1>10, LineSame, ZenonT(60)
  <2>9. QED
    BY <1>2, <1>4, <1>5, <2>4, <2>5, <2>7, <2>8, LineTypesKept
<1>11. QED
  BY <1>9, <1>10

\* Max of a set of the numbers up to m, of the line servers.
LEMMA LinedMax ==
  ASSUME NEW m \in Nat, NEW s \in SUBSET (1..m), s # {}
  PROVE  /\ Lined!Max(s) \in s /\ \A j \in s : j <= Lined!Max(s)
         /\ \A k \in s : (\A j \in s : j <= k) => k = Lined!Max(s)
<1>1. PICK x \in s : \A y \in s : y <= x
  BY Greatest, Zenon
<1>2. \A y \in s : y \in Nat
  OBVIOUS
<1>3. \A y \in s : x >= y
  BY <1>1, <1>2
<1>4. \E z \in s : \A y \in s : z >= y
  BY <1>3
<1>5. PICK z : z = Lined!Max(s)
  OBVIOUS
<1>6. z \in s /\ \A y \in s : z >= y
  BY <1>4, <1>5, Zenon DEF Lined!Max
<1>7. \A y \in s : y <= z /\ ((\A j \in s : j <= y) => y = z)
  BY <1>2, <1>6
<1>8. QED
  BY <1>5, <1>6, <1>7

\* A cell is sent.
LEMMA LineSends ==
  ASSUME NEW k \in LineConn, NEW ch \in Lined!Chars
  PROVE  /\ Lined!Sent(k, ch) \in LineConn
         /\ Lined!Sent(k, ch).up = Append(k.up, ch) /\ Lined!Sent(k, ch).down = k.down
         /\ Lined!Sent(k, ch).client = k.client /\ Lined!Sent(k, ch).server = k.server
         /\ Lined!Sent(k, ch).err = k.err
<1>1. PICK j, u : j = Lined!Sent(k, ch) /\ u = Append(k.up, ch)
  OBVIOUS
<1>2. /\ k = [up |-> k.up, down |-> k.down, client |-> k.client, server |-> k.server, err |-> k.err]
      /\ k.up \in Text /\ k.down \in Seq(Text) /\ k.client \in {"off", "on", "gone"}
      /\ k.server \in {"none", "queue", "open"} /\ k.err \in {"none", "reset", "pipe"}
  BY LineParts
<1>3. j = [k EXCEPT !.up = u]
  BY <1>1, <1>2 DEF Lined!Sent
<1>4. j = [up |-> u, down |-> k.down, client |-> k.client, server |-> k.server, err |-> k.err]
  BY <1>2, <1>3
<1>5. u \in Text
  BY <1>1, <1>2 DEF Text
<1>6. j \in LineConn
  BY <1>2, <1>4, <1>5, LineMakes
<1>7. QED
  BY <1>1, <1>4, <1>6

\* The connection before the first cell of a text is sent, and after each of them.
SendSteps(f, m, k, text) ==
  /\ f[0] = k /\ f[m] = Lined!SentAll(k, text)
  /\ \A q \in 1..m : f[q] = Lined!Sent(f[q - 1], text[q])

\* The cells of a text, one after the other.
LEMMA SendTrace ==
  ASSUME NEW k \in LineConn, NEW text \in Text, NEW m \in Nat, m = Len(text)
  PROVE  \E f \in [0..m -> LineConn] : SendSteps(f, m, k, text)
<1>0. DOMAIN text = 1..m /\ \A q \in 1..m : text[q] \in Lined!Chars
  BY LenProperties, ElementOfSeq DEF Text
<1> DEFINE h == [p \in (1..m) \X LineConn |-> Lined!Sent(p[2], text[p[1]])]
           Iter(g) == g = [s \in SUBSET (1..m) |->
                             IF s = {} THEN k
                             ELSE Lined!Sent(g[s \ {Lined!Max(s)}], text[Lined!Max(s)])]
<1>1. h \in FoldSteps(m, LineConn)
  <2>1. \A q \in 1..m : \A j \in LineConn : Lined!Sent(j, text[q]) \in LineConn
    BY <1>0, LineSends
  <2>2. QED
    BY <2>1 DEF FoldSteps
<1>2. PICK g \in [SUBSET (1..m) -> LineConn] : Folds(g, m, k, h)
  <2> HIDE DEF h
  <2>1. QED
    BY <1>1, FoldExists, Zenon
<1>3. Iter(g)
  <2>1. ASSUME NEW s \in SUBSET (1..m)
        PROVE  g[s] = IF s = {} THEN k
                      ELSE Lined!Sent(g[s \ {Lined!Max(s)}], text[Lined!Max(s)])
    <3>1. CASE s # {}
      <4>1. PICK q : q = Lined!Max(s)
        OBVIOUS
      <4>2. q \in s /\ \A j \in s : j <= q
        BY LinedMax, <3>1, <4>1
      <4>3. q \in 1..m /\ s \ {q} \in SUBSET (1..m)
        BY <4>2
      <4>4. h[<<q, g[s \ {q}]>>] = Lined!Sent(g[s \ {q}], text[q])
        BY <4>3
      <4> HIDE DEF h
      <4>5. g[s] = h[<<q, g[s \ {q}]>>]
        BY <1>2, <4>2, Zenon DEF Folds
      <4>6. QED
        BY <3>1, <4>1, <4>4, <4>5
    <3>2. QED
      BY <1>2, <3>1 DEF Folds
  <2>2. QED
    BY <2>1
<1>4. PICK it : Iter(it) /\ it[1..m] = Lined!SentAll(k, text)
  <2>1. Lined!SentAll(k, text) = (CHOOSE it : Iter(it))[1..m]
    BY <1>0 DEF Lined!SentAll, Lined!FoldLeft, Lined!MapThenFoldSet
  <2> HIDE DEF Iter
  <2>2. QED
    BY <1>3, <2>1, Zenon
<1>5. it[{}] = k
  BY <1>4
<1>6. ASSUME NEW q \in 1..m, it[1..(q - 1)] \in LineConn PROVE it[1..q] = h[<<q, it[1..(q - 1)]>>]
  <2>1. q \in 1..q /\ 1..q \in SUBSET (1..m) /\ \A j \in 1..q : j <= q
    OBVIOUS
  <2>2. (1..q) \ {q} = 1..(q - 1)
    OBVIOUS
  <2>3. Lined!Max(1..q) = q /\ 1..q # {}
    <3> HIDE DEF h, Iter
    <3>1. QED
      BY LinedMax, <2>1
  <2>4. it[1..q] = Lined!Sent(it[1..(q - 1)], text[q])
    BY <1>4, <2>1, <2>2, <2>3
  <2>5. QED
    BY <1>6, <2>4
<1>7. PICK f \in [0..m -> LineConn] : f[m] = it[1..m] /\ Traces(f, m, k, h)
  <2> HIDE DEF h, Iter
  <2>1. Chains(it, m, LineConn, k, h)
    BY <1>5, <1>6, Zenon DEF Chains
  <2>2. QED
    BY <1>1, <2>1, FoldTrace, Zenon
<1>8. ASSUME NEW q \in 1..m PROVE f[q] = Lined!Sent(f[q - 1], text[q])
  <2>1. q - 1 \in 0..m
    OBVIOUS
  <2>2. h[<<q, f[q - 1]>>] = Lined!Sent(f[q - 1], text[q])
    BY <2>1
  <2> HIDE DEF h
  <2>3. QED
    BY <1>7, <2>2 DEF Traces
<1>9. SendSteps(f, m, k, text)
  BY <1>4, <1>7, <1>8 DEF Traces, SendSteps
<1>10. QED
  BY <1>9

\* A text that is sent comes after what was sent before it.
LEMMA LineSendsAll ==
  ASSUME NEW k \in LineConn, NEW text \in Text
  PROVE  LET j == Lined!SentAll(k, text)
         IN  /\ j \in LineConn /\ j.up = k.up \o text /\ j.down = k.down
             /\ j.client = k.client /\ j.server = k.server /\ j.err = k.err
<1>1. PICK m, j : m = Len(text) /\ j = Lined!SentAll(k, text)
  OBVIOUS
<1>2. m \in Nat /\ \A q \in 1..m : text[q] \in Lined!Chars
  BY <1>1, LenProperties, ElementOfSeq DEF Text
<1>3. PICK f \in [0..m -> LineConn] : SendSteps(f, m, k, text)
  BY <1>1, <1>2, SendTrace
<1> DEFINE Good(q) == /\ f[q].up = k.up \o SubSeq(text, 1, q) /\ f[q].down = k.down
                      /\ f[q].client = k.client /\ f[q].server = k.server /\ f[q].err = k.err
           K == {q \in Nat : q <= m => Good(q)}
<1>4. k.up \in Text
  BY LineParts
<1>5. 0 \in K
  <2>1. SubSeq(text, 1, 0) = <<>>
    BY SubSeqEmpty
  <2>2. k.up \o <<>> = k.up
    BY <1>4, ConcatEmptySeq DEF Text
  <2>3. Good(0)
    BY <1>3, <2>1, <2>2 DEF SendSteps
  <2> HIDE DEF Good
  <2>4. QED
    BY <2>3
<1>6. ASSUME NEW q \in K PROVE q + 1 \in K
  <2>1. SUFFICES ASSUME q + 1 <= m PROVE Good(q + 1)
    <3> HIDE DEF Good
    <3>1. q + 1 \in Nat
      OBVIOUS
    <3>2. QED
      BY <3>1
  <2>2. q \in Nat /\ q <= m /\ q \in 0..m /\ q + 1 \in 1..m /\ (q + 1) - 1 = q
    BY <1>2, <2>1
  <2>3. Good(q)
    <3> HIDE DEF Good
    <3>1. QED
      BY <2>2
  <2>4. PICK ch, x, y, s, t : /\ ch = text[q + 1] /\ x = f[q] /\ y = f[q + 1]
                              /\ s = SubSeq(text, 1, q) /\ t = SubSeq(text, 1, q + 1)
    OBVIOUS
  <2>5. y = Lined!Sent(x, ch) /\ x \in LineConn /\ ch \in Lined!Chars
    BY <1>2, <1>3, <2>2, <2>4 DEF SendSteps
  <2>6. /\ y.up = Append(x.up, ch) /\ y.down = x.down
        /\ y.client = x.client /\ y.server = x.server /\ y.err = x.err
    BY <2>5, LineSends
  <2>7. Append(s, ch) = t /\ s \in Seq(Lined!Chars)
    <3>1. 1 \in 1..Len(text) /\ q + 1 \in 1..Len(text)
      BY <1>1, <1>2, <2>2
    <3>2. SubSeq(text, 1, q + 1) = SubSeq(text, 1, (q + 1) - 1) \o <<text[q + 1]>>
      BY <3>1, SubSeqRecursiveSecond DEF Text
    <3>3. t = s \o <<ch>>
      BY <2>2, <2>4, <3>2
    <3>4. s \in Seq(Lined!Chars)
      <4>1. \A z \in 1..q : text[z] \in Lined!Chars
        BY <1>2, <2>2
      <4>2. 1 \in Int /\ q \in Int
        BY <2>2
      <4>3. QED
        BY <2>4, <4>1, <4>2, SubSeqProperties
    <3>5. Append(s, ch) = s \o <<ch>>
      BY <2>5, <3>4, AppendIsConcat
    <3>6. QED
      BY <3>3, <3>4, <3>5, Zenon
  <2>8. PICK u : u = k.up
    OBVIOUS
  <2>9. u \in Seq(Lined!Chars)
    BY <1>4, <2>8 DEF Text
  <2>10. u \o Append(s, ch) = Append(u \o s, ch)
    BY <2>5, <2>7, <2>9, OneMore
  <2>11. x.up = u \o s
    BY <2>3, <2>4, <2>8
  <2>12. y.up = u \o t
    BY <2>6, <2>7, <2>10, <2>11, Zenon
  <2>13. QED
    BY <2>3, <2>4, <2>6, <2>8, <2>12
<1>7. K = Nat
  <2>1. K \in SUBSET Nat
    OBVIOUS
  <2> HIDE DEF K
  <2>2. QED
    BY <1>5, <1>6, <2>1, SetInduction
<1>8. Good(m)
  <2> HIDE DEF Good
  <2>1. QED
    BY <1>2, <1>7
<1>9. f[m] = j /\ f[m] \in LineConn
  BY <1>1, <1>2, <1>3 DEF SendSteps
<1>10. SubSeq(text, 1, m) = text
  BY <1>1, SubSeqFull DEF Text
<1>11. QED
  BY <1>1, <1>8, <1>9, <1>10

\* A character that is typed: what the client has then, and what comes to be sent.
Types(a, t, u, y, ch) == a = Append(y, ch) /\ t = u \o a

\* What is typed after text without a newline.
LEMMA TypedLines ==
  ASSUME NEW u \in Text, NEW y \in Text, NEW ch \in Lined!Chars, ~HasLine(u), ~HasLine(y),
         NEW a, NEW t, Types(a, t, u, y, ch)
  PROVE  /\ a \in Text /\ t \in Text /\ LastOnly(t)
         /\ HasLine(t) => ch = Lined!NL
         /\ HasLine(a) => ch = Lined!NL
<1>1. PICK p, q : p = Len(u) /\ q = Len(y)
  OBVIOUS
<1>2. p \in Nat /\ q \in Nat
  BY <1>1, LenProperties DEF Text
<1>3. a \in Text /\ Len(a) = q + 1 /\ (\A x \in 1..q : a[x] = y[x]) /\ a[q + 1] = ch
  BY <1>1, AppendProperties DEF Text, Types
<1>4. /\ t \in Text /\ Len(t) = p + (q + 1)
      /\ \A x \in 1..(p + (q + 1)) : t[x] = IF x <= p THEN u[x] ELSE a[x - p]
  BY <1>1, <1>3, ConcatProperties DEF Text, Types
<1>5. \A x \in 1..q : y[x] # Lined!NL
  BY <1>1 DEF HasLine
<1>6. \A x \in 1..p : u[x] # Lined!NL
  BY <1>1 DEF HasLine
<1>7. ASSUME NEW x \in 1..(q + 1), a[x] = Lined!NL PROVE x = q + 1 /\ ch = Lined!NL
  <2>1. x \notin 1..q
    BY <1>3, <1>5, <1>7
  <2>2. x = q + 1
    BY <1>2, <2>1
  <2>3. QED
    BY <1>3, <1>7, <2>2
<1>8. ASSUME NEW x \in 1..(p + (q + 1)), t[x] = Lined!NL
      PROVE  x = p + (q + 1) /\ ch = Lined!NL
  <2>1. ~(x <= p)
    BY <1>2, <1>4, <1>6, <1>8
  <2>2. x - p \in 1..(q + 1) /\ a[x - p] = Lined!NL
    <3>1. x \in Nat /\ p < x /\ x <= p + (q + 1) /\ x - p \in 1..(q + 1)
      BY <1>2, <2>1
    <3>2. t[x] = a[x - p]
      BY <1>4, <2>1
    <3>3. QED
      BY <1>8, <3>1, <3>2
  <2>3. x - p = q + 1 /\ ch = Lined!NL
    BY <1>7, <2>2
  <2>4. QED
    BY <1>2, <2>3
<1>9. HasLine(a) => ch = Lined!NL
  BY <1>3, <1>7 DEF HasLine
<1>10. LastOnly(t) /\ (HasLine(t) => ch = Lined!NL)
  BY <1>4, <1>8 DEF HasLine, LastOnly
<1>11. QED
  BY <1>3, <1>4, <1>9, <1>10

\* A client comes back with a new connection.
LEMMA LineDials ==
  ASSUME LineInv, NEW c \in Machines, Lined!Dial(c)
  PROVE  LineInv'
<1>1. PICK j : j = Lined!Dialled
  OBVIOUS
<1>2. /\ conn[c] = Lined!NoConn /\ conn' = [conn EXCEPT ![c] = j] /\ wl' = [wl EXCEPT ![c] = <<>>]
      /\ out' = [out EXCEPT ![c] = <<>>] /\ sent' = [sent EXCEPT ![c] = <<>>]
      /\ waiting' = waiting \ {c} /\ way' = way /\ serving' = serving /\ alive' = alive
      /\ wline' = wline /\ line' = line /\ rl' = rl
  BY <1>1 DEF Lined!Dial
<1>3. j = [up |-> <<>>, down |-> <<>>, client |-> "on", server |-> "queue", err |-> "none"]
  BY <1>1 DEF Lined!Dialled, Lined!NoConn
<1>4. <<>> \in Text /\ <<>> \in Seq(Text)
  BY DEF Text
<1>5. j \in LineConn
  BY <1>3, <1>4, LineMakes
<1>6. c \notin serving
  <2>1. conn[c].server = "none"
    BY <1>2 DEF Lined!NoConn
  <2>2. QED
    BY <2>1, LineOf DEF Flows
<1>7. Asks(j, c \in waiting') /\ ~HasLine(<<>>)
  BY <1>3 DEF Asks, HasLine, LastOnly
<1>8. <<>> \o <<>> = <<>>
  BY <1>4, ConcatEmptySeq DEF Text
<1>9. /\ wline[c] \in Text /\ line[c] \in Text /\ rl[c] \in Text
      /\ way = "writeline" => line[c] = <<>> /\ rl[c] = <<>>
      /\ way # "writeline" => wline[c] = <<>>
  BY LineOf
<1>10. OneIs(way, j, c \in serving, c \in waiting', wline[c], line[c], rl[c], <<>>, <<>>, <<>>)
  <2>1. j.server = "queue" /\ j.up = <<>>
    BY <1>3
  <2>2. Flows(j, c \in serving, wline[c], line[c], rl[c], <<>>, <<>>, <<>>)
    BY <1>6, <1>8, <2>1 DEF Flows
  <2>3. QED
    BY <1>7, <1>9, <2>2 DEF OneIs
<1>11. QED
  BY <1>2, <1>4, <1>5, <1>9, <1>10, LineSame, LineTypesKept, ZenonT(60)

\* A client types a character and sends it, or keeps it until its line is complete.
LEMMA LineTypesChar ==
  ASSUME LineInv, NEW c \in Machines, Lined!TypeChar(c)
  PROVE  LineInv'
<1>1. PICK ch \in Lined!Chars :
        /\ sent' = [sent EXCEPT ![c] = Append(@, ch)]
        /\ waiting' = IF Lined!Waits(ch) THEN waiting \cup {c} ELSE waiting
        /\ \/ ch # Lined!NL /\ wl' = [wl EXCEPT ![c] = Append(@, ch)] /\ conn' = conn
           \/ /\ conn' = [conn EXCEPT ![c] = Lined!SentAll(@, Append(wl[c], ch))]
              /\ wl' = [wl EXCEPT ![c] = <<>>]
  BY DEF Lined!TypeChar
<1>2. /\ conn[c].client = "on" /\ c \notin waiting /\ way' = way /\ serving' = serving
      /\ wline' = wline /\ line' = line /\ rl' = rl /\ out' = out /\ alive' = alive
  BY DEF Lined!TypeChar
<1>3. PICK k, u, y, a, t, s, e, o, w, l, r :
        /\ k = conn[c] /\ u = k.up /\ y = wl[c] /\ a = Append(y, ch) /\ t = u \o a
        /\ s = sent[c] /\ e = Append(s, ch) /\ o = out[c] /\ w = wline[c] /\ l = line[c] /\ r = rl[c]
  OBVIOUS
<1>4. /\ k \in LineConn /\ u \in Text /\ y \in Text /\ s \in Text /\ o \in Text
      /\ w \in Text /\ l \in Text /\ r \in Text /\ <<>> \in Text
      /\ Flows(k, c \in serving, w, l, r, y, o, s)
      /\ way = "writeline" => l = <<>> /\ r = <<>> /\ ~HasLine(y) /\ Asks(k, c \in waiting)
      /\ way # "writeline" => w = <<>>
  BY <1>3, LineOf, LineParts
<1>5. a \in Text /\ e \in Text
  BY <1>3, <1>4, AppendProperties DEF Text
<1>6. way = "writeline" => ~HasLine(u) /\ k.down = <<>> /\ k.err = "none"
  BY <1>2, <1>3, <1>4 DEF Asks
<1>7. way = "writeline" => /\ LastOnly(t) /\ (HasLine(t) => ch = Lined!NL)
                           /\ (HasLine(a) => ch = Lined!NL)
  <2>1. SUFFICES ASSUME way = "writeline"
                 PROVE  LastOnly(t) /\ (HasLine(t) => ch = Lined!NL) /\ (HasLine(a) => ch = Lined!NL)
    OBVIOUS
  <2>2. Types(a, t, u, y, ch)
    BY <1>3 DEF Types
  <2>3. u \in Text /\ y \in Text /\ ~HasLine(u) /\ ~HasLine(y)
    BY <1>4, <1>6, <2>1
  <2>4. QED
    BY <2>2, <2>3, TypedLines
<1>8. way = "writeline" => (c \in waiting' <=> ch = Lined!NL)
  BY <1>1, <1>2 DEF Lined!Waits
<1>9. waiting' \ {c} = waiting \ {c}
  BY <1>1
\* An element more of the last part is one more of all of them.
<1>10. ASSUME NEW p \in Text, p \o u \o y = s
       PROVE  p \o u \o a = e /\ p \o t \o <<>> = e /\ p \o u \in Text /\ t \in Text
  <2>1. p \in Seq(Lined!Chars) /\ u \in Seq(Lined!Chars) /\ y \in Seq(Lined!Chars)
    BY <1>4, <1>10 DEF Text
  <2>2. PICK v : v = p \o u
    OBVIOUS
  <2>3. v \in Seq(Lined!Chars) /\ v \o y = s
    BY <1>10, <2>1, <2>2, ConcatProperties
  <2>4. v \o Append(y, ch) = Append(v \o y, ch)
    BY <2>1, <2>3, OneMore, SMTT(30)
  <2>5. v \o a = e
    BY <1>3, <2>3, <2>4, Zenon
  <2>6. a \in Seq(Lined!Chars)
    BY <1>5 DEF Text
  <2>7. v \o a = p \o t /\ t \in Seq(Lined!Chars)
    <3>1. (p \o u) \o a = p \o (u \o a)
      BY <2>1, <2>6, ConcatAssociative
    <3>2. u \o a \in Seq(Lined!Chars)
      BY <2>1, <2>6, ConcatProperties
    <3>3. QED
      BY <1>3, <2>2, <3>1, <3>2, Zenon
  <2>8. PICK z : z = p \o t
    OBVIOUS
  <2>9. z \in Seq(Lined!Chars)
    BY <2>1, <2>7, <2>8, ConcatProperties
  <2>10. z \o <<>> = z
    BY <2>9, ConcatEmptySeq
  <2>11. QED
    BY <2>2, <2>3, <2>5, <2>7, <2>8, <2>10, Zenon DEF Text
<1>11. u \o y = s => u \o a = e /\ t \o <<>> = e /\ t \in Text
  <2>1. <<>> \o u = u
    BY <1>4, ConcatEmptySeq DEF Text
  <2>2. <<>> \o t = t \/ t \notin Text
    BY ConcatEmptySeq DEF Text
  <2>3. QED
    BY <1>4, <1>10, <2>1, <2>2, Zenon
<1>12. o \o w \o l \o r \in Text
  <2>1. o \o w \in Text
    BY <1>4, ConcatProperties DEF Text
  <2>2. (o \o w) \o l \in Text
    BY <1>4, <2>1, ConcatProperties DEF Text
  <2>3. QED
    BY <1>4, <2>2, ConcatProperties DEF Text
<1>13. /\ k.server = "queue" => o = <<>> /\ u \o a = e /\ t \o <<>> = e
       /\ k.server = "open" => /\ o \o w \o l \o r \o u \o a = e
                               /\ o \o w \o l \o r \o t \o <<>> = e
       /\ c \in serving <=> k.server = "open"
  <2>1. /\ c \in serving <=> k.server = "open"
        /\ k.server = "queue" => o = <<>> /\ u \o y = s
        /\ k.server = "open" => o \o w \o l \o r \o u \o y = s
    BY <1>3, <1>4 DEF Flows
  <2>2. PICK p : p = o \o w \o l \o r
    OBVIOUS
  <2>3. k.server = "open" => p \o u \o a = e /\ p \o t \o <<>> = e
    BY <1>10, <1>12, <2>1, <2>2, Zenon
  <2>4. QED
    BY <1>11, <2>1, <2>2, <2>3, Zenon
<1>14. CASE ch # Lined!NL /\ wl' = [wl EXCEPT ![c] = Append(@, ch)] /\ conn' = conn
  <2>1. OneIs(way, k, c \in serving, c \in waiting', w, l, r, a, o, e)
    <3>1. Flows(k, c \in serving, w, l, r, a, o, e)
      BY <1>3, <1>13 DEF Flows
    <3>2. way = "writeline" => Asks(k, c \in waiting')
      BY <1>2, <1>4, <1>8, <1>14 DEF Asks
    <3>3. QED
      BY <1>4, <1>7, <1>14, <3>1, <3>2 DEF OneIs
  <2>2. /\ conn' = [conn EXCEPT ![c] = k] /\ wline' = [wline EXCEPT ![c] = w]
        /\ line' = [line EXCEPT ![c] = l] /\ rl' = [rl EXCEPT ![c] = r]
        /\ out' = [out EXCEPT ![c] = o] /\ wl' = [wl EXCEPT ![c] = a]
        /\ sent' = [sent EXCEPT ![c] = e]
    BY <1>1, <1>2, <1>3, <1>14, LineSame
  <2>3. QED
    BY <1>2, <1>4, <1>5, <1>9, <2>1, <2>2, LineTypesKept
<1>15. CASE /\ conn' = [conn EXCEPT ![c] = Lined!SentAll(@, Append(wl[c], ch))]
            /\ wl' = [wl EXCEPT ![c] = <<>>]
  <2>1. PICK j : j = Lined!SentAll(k, a)
    OBVIOUS
  <2>2. /\ j \in LineConn /\ j.up = t /\ j.down = k.down
        /\ j.client = k.client /\ j.server = k.server /\ j.err = k.err
    <3>1. /\ j \in LineConn /\ j.up = k.up \o a /\ j.down = k.down
          /\ j.client = k.client /\ j.server = k.server /\ j.err = k.err
      BY <1>4, <1>5, <2>1, LineSendsAll
    <3>2. QED
      BY <1>3, <3>1
  <2>3. OneIs(way, j, c \in serving, c \in waiting', w, l, r, <<>>, o, e)
    <3>1. Flows(j, c \in serving, w, l, r, <<>>, o, e)
      BY <1>13, <2>2 DEF Flows
    <3>2. way = "writeline" => Asks(j, c \in waiting')
      <4>1. SUFFICES ASSUME way = "writeline" PROVE Asks(j, c \in waiting')
        OBVIOUS
      <4>2. Len(j.down) <= 1
        BY <1>4, <2>2, <4>1 DEF Asks
      <4>3. QED
        BY <1>6, <1>7, <1>8, <2>2, <4>1, <4>2 DEF Asks
    <3>3. ~HasLine(<<>>)
      BY DEF HasLine
    <3>4. QED
      BY <1>4, <3>1, <3>2, <3>3 DEF OneIs
  <2>4. /\ conn' = [conn EXCEPT ![c] = j] /\ wline' = [wline EXCEPT ![c] = w]
        /\ line' = [line EXCEPT ![c] = l] /\ rl' = [rl EXCEPT ![c] = r]
        /\ out' = [out EXCEPT ![c] = o] /\ wl' = [wl EXCEPT ![c] = <<>>]
        /\ sent' = [sent EXCEPT ![c] = e]
    BY <1>1, <1>2, <1>3, <1>15, <2>1, LineSame
  <2>5. QED
    BY <1>2, <1>4, <1>5, <1>9, <2>2, <2>3, <2>4, LineTypesKept
<1>16. QED
  BY <1>1, <1>14, <1>15

\* A step of the client that changes nothing but its connection, without what is on
\* its way to the server, and whether it waits.
LEMMA LineClientMoves ==
  ASSUME LineInv, NEW c \in Machines, NEW j \in LineConn, conn' = [conn EXCEPT ![c] = j],
         j.up = conn[c].up, j.server = conn[c].server, waiting' \ {c} = waiting \ {c},
         way = "writeline" => Asks(j, c \in waiting'),
         UNCHANGED <<way, serving, wline, wl, rl, line, out, sent, alive>>
  PROVE  LineInv'
<1>1. /\ wline[c] \in Text /\ line[c] \in Text /\ rl[c] \in Text
      /\ wl[c] \in Text /\ out[c] \in Text /\ sent[c] \in Text
      /\ Flows(conn[c], c \in serving, wline[c], line[c], rl[c], wl[c], out[c], sent[c])
      /\ way = "writeline" => line[c] = <<>> /\ rl[c] = <<>> /\ ~HasLine(wl[c])
      /\ way # "writeline" => wline[c] = <<>>
  BY LineOf
<1>2. OneIs(way, j, c \in serving, c \in waiting', wline[c], line[c], rl[c], wl[c], out[c], sent[c])
  BY <1>1 DEF OneIs, Flows
<1>3. QED
  BY <1>1, <1>2, LineSame, LineTypesKept, ZenonT(60)

\* The reply is read.
LEMMA LineGetsReply ==
  ASSUME LineInv, NEW c \in Machines, Lined!Read(c)
  PROVE  LineInv'
<1>1. PICK k : k = conn[c]
  OBVIOUS
<1>2. /\ k \in LineConn /\ k.up \in Text /\ k.down \in Seq(Text) /\ k.client \in {"off", "on", "gone"}
      /\ k.server \in {"none", "queue", "open"} /\ k.err \in {"none", "reset", "pipe"}
      /\ k = [up |-> k.up, down |-> k.down, client |-> k.client, server |-> k.server, err |-> k.err]
      /\ way = "writeline" => Asks(k, c \in waiting)
  BY <1>1, LineOf, LineParts
<1>3. PICK j, q : j = Lined!ReadRest(k) /\ q = Tail(k.down)
  OBVIOUS
<1>4. /\ Lined!HasAnswer(k) /\ conn' = [conn EXCEPT ![c] = j]
      /\ UNCHANGED <<way, serving, wline, wl, rl, line, out, sent, alive>>
      /\ waiting' = waiting \ {c}
  <2>1. ~Lined!SeesEnd(k)
    BY <1>2 DEF Lined!SeesEnd
  <2>2. QED
    BY <1>1, <1>3, <2>1 DEF Lined!Read
<1>5. k.down # <<>>
  BY <1>4 DEF Lined!HasAnswer
<1>6. j = [up |-> k.up, down |-> q, client |-> k.client, server |-> k.server, err |-> k.err]
  BY <1>2, <1>3 DEF Lined!ReadRest
<1>7. q \in Seq(Text) /\ Len(q) = Len(k.down) - 1
  BY <1>2, <1>3, <1>5, HeadTailProperties
<1>8. j \in LineConn
  BY <1>2, <1>6, <1>7, LineMakes
<1>9. way = "writeline" => Asks(j, c \in waiting')
  <2>1. SUFFICES ASSUME way = "writeline" PROVE Asks(j, c \in waiting')
    OBVIOUS
  <2>2. LastOnly(k.up) /\ ~HasLine(k.up) /\ (k.client = "on" => k.err = "none") /\ Len(k.down) <= 1
    BY <1>2, <1>5, <2>1 DEF Asks
  <2>3. Len(k.down) \in Nat
    BY <1>2, LenProperties
  <2>4. q = <<>> /\ Len(q) <= 1
    <3>1. PICK m, x : m = Len(k.down) /\ x = Len(q)
      OBVIOUS
    <3>2. m \in Nat /\ m <= 1 /\ x = m - 1
      BY <1>7, <2>2, <2>3, <3>1
    <3>3. x \in Nat
      BY <1>7, <3>1, LenProperties
    <3>4. x = 0
      BY <3>2, <3>3
    <3>5. q = <<>>
      BY <1>7, <3>1, <3>4, EmptySeq
    <3>6. x <= 1
      BY <3>4
    <3>7. QED
      BY <3>1, <3>5, <3>6
  <2>5. j.up = k.up /\ j.down = q /\ j.client = k.client /\ j.err = k.err
    BY <1>6
  <2>6. QED
    BY <2>2, <2>4, <2>5 DEF Asks
<1>10. waiting' \ {c} = waiting \ {c} /\ j.up = conn[c].up /\ j.server = conn[c].server
  BY <1>1, <1>4, <1>6
<1>11. QED
  BY <1>4, <1>8, <1>9, <1>10, LineClientMoves

\* A client goes away, at the end of its input or killed.
LEMMA LineGoes ==
  ASSUME LineInv, NEW c \in Machines, conn' = [conn EXCEPT ![c] = Lined!Gone(@)],
         waiting' \ {c} = waiting \ {c},
         UNCHANGED <<way, serving, wline, wl, rl, line, out, sent, alive>>
  PROVE  LineInv'
<1>1. PICK k, j, e : /\ k = conn[c] /\ j = Lined!Gone(k)
                     /\ e = IF k.down # <<>> THEN "reset" ELSE k.err
  OBVIOUS
<1>2. /\ k \in LineConn /\ k.up \in Text /\ k.down \in Seq(Text) /\ <<>> \in Seq(Text)
      /\ k.server \in {"none", "queue", "open"} /\ k.err \in {"none", "reset", "pipe"}
      /\ k = [up |-> k.up, down |-> k.down, client |-> k.client, server |-> k.server, err |-> k.err]
      /\ way = "writeline" => Asks(k, c \in waiting)
  BY <1>1, LineOf, LineParts
<1>3. j = [up |-> k.up, down |-> <<>>, client |-> "gone", server |-> k.server, err |-> e]
  <2>1. j = [k EXCEPT !.client = "gone", !.down = <<>>, !.err = e]
    BY <1>1, <1>2 DEF Lined!Gone
  <2>2. QED
    BY <1>2, <2>1
<1>4. j \in LineConn
  <2>1. e \in {"none", "reset", "pipe"}
    BY <1>1, <1>2
  <2>2. QED
    BY <1>2, <1>3, <2>1, LineMakes
<1>5. way = "writeline" => Asks(j, c \in waiting')
  <2>1. SUFFICES ASSUME way = "writeline" PROVE Asks(j, c \in waiting')
    OBVIOUS
  <2>2. LastOnly(k.up) /\ (HasLine(k.up) => k.down = <<>> /\ k.err = "none")
    BY <1>2, <2>1 DEF Asks
  <2>3. j.up = k.up /\ j.down = <<>> /\ j.client = "gone" /\ j.err = e /\ Len(j.down) = 0
    BY <1>3
  <2>4. HasLine(k.up) => e = "none"
    BY <1>1, <2>2
  <2>5. QED
    BY <2>2, <2>3, <2>4 DEF Asks
<1>6. conn' = [conn EXCEPT ![c] = j] /\ j.up = conn[c].up /\ j.server = conn[c].server
  BY <1>1, <1>3
<1>7. QED
  BY <1>4, <1>5, <1>6, LineClientMoves

\* What the invariant is about.
LEMMA LineStays ==
  ASSUME LineInv, UNCHANGED <<way, conn, serving, waiting, wline, wl, rl, line, out, sent, alive>>
  PROVE  LineInv'
BY ZenonT(60) DEF LineInv, LineTypes, LineIs, OneIs, Flows, Asks, LastOnly, HasLine, LineConn, Text

\* Every step of a line server or its clients keeps the invariant.
LEMMA LineGoesOn ==
  ASSUME LineInv, Lined!Next
  PROVE  LineInv'
<1>1. CASE Lined!Accept
  BY <1>1, LineAccepts
<1>2. CASE \E c \in Machines : Lined!WriteLine(c) \/ Lined!Fill(c) \/ Lined!ReadChar(c) \/ Lined!Leave(c)
  BY <1>2, LineWrites, LineFills, LineReads, LineLeaves
<1>3. CASE \E c \in Machines : Lined!Client(c)
  <2>1. PICK c \in Machines : Lined!Client(c)
    BY <1>3
  <2>2. CASE Lined!Dial(c) \/ Lined!TypeChar(c) \/ Lined!Read(c)
    BY <2>2, LineDials, LineTypesChar, LineGetsReply
  <2>3. CASE Lined!EndOfInput(c)
    BY <2>3, LineGoes DEF Lined!EndOfInput
  <2>4. CASE Lined!Kill(c)
    BY <2>4, LineGoes DEF Lined!Kill
  <2>5. QED
    BY <2>1, <2>2, <2>3, <2>4 DEF Lined!Client
<1>4. CASE \E c \in Machines : Lined!Overrun(c)
  BY <1>4, LineStays DEF Lined!Overrun
<1>5. QED
  BY <1>1, <1>2, <1>3, <1>4 DEF Lined!Next, Lined!Server

\* Nothing is typed in the beginning.
LEMMA LineBegins == Lined!Init => LineInv
<1> SUFFICES ASSUME Lined!Init PROVE LineInv
  OBVIOUS
<1>1. PICK k : k = Lined!NoConn
  OBVIOUS
<1>2. k = [up |-> <<>>, down |-> <<>>, client |-> "off", server |-> "none", err |-> "none"]
  BY <1>1 DEF Lined!NoConn
<1>3. <<>> \in Text /\ <<>> \in Seq(Text)
  BY DEF Text
<1>4. k \in LineConn
  BY <1>2, <1>3, LineMakes
<1>5. /\ conn = [c \in Machines |-> k] /\ serving = {} /\ alive = TRUE
      /\ wline = [c \in Machines |-> <<>>] /\ wl = [c \in Machines |-> <<>>]
      /\ rl = [c \in Machines |-> <<>>] /\ line = [c \in Machines |-> <<>>]
      /\ out = [c \in Machines |-> <<>>] /\ sent = [c \in Machines |-> <<>>]
  BY <1>1 DEF Lined!Init, Lined!Empty
<1>6. LineTypes
  BY <1>3, <1>4, <1>5 DEF LineTypes
<1>7. ASSUME NEW c \in Machines PROVE LineIs(c)
  <2>1. Asks(k, c \in waiting) /\ ~HasLine(<<>>)
    BY <1>2 DEF Asks, HasLine, LastOnly
  <2>2. Flows(k, FALSE, <<>>, <<>>, <<>>, <<>>, <<>>, <<>>)
    BY <1>2 DEF Flows
  <2>3. QED
    BY <1>5, <2>1, <2>2 DEF LineIs, OneIs, Flows
<1>8. QED
  BY <1>6, <1>7 DEF LineInv

\* The invariant of the program, whichever runs.
LEMMA LineAlways == MCSpec => [](Runs("lines") => LineInv)
<1> DEFINE Inv == Runs("lines") => LineInv
<1>1. MCInit => Inv
  BY ProgramInit, LineBegins
<1>2. Inv /\ [MCNext]_allVars => Inv'
  <2> SUFFICES ASSUME Inv, [MCNext]_allVars, Runs("lines")' PROVE LineInv'
    OBVIOUS
  <2>1. CASE MCNext
    BY <2>1, ProgramNext, LineGoesOn
  <2>2. CASE UNCHANGED allVars
    <3>1. /\ UNCHANGED <<way, conn, serving, waiting, wline, wl, rl, line, out, sent, alive>>
          /\ program' = program
      BY <2>2 DEF allVars, socketVars, lineVars
    <3>2. QED
      BY <3>1, LineStays DEF Runs
  <2>3. QED
    BY <2>1, <2>2
<1>3. QED
  BY <1>1, <1>2, PTL DEF MCSpec

\* Whatever the turns of the threads: what a server made of a client's characters,
\* what it and the client still have of them and what is on its way are, in this
\* order, what this client typed, as long as no line outgrows a Wline (writeline_r,
\* my_read, readline, and the buffers in thread-specific data or in main).
THEOREM LinesAreTheClients == MCSpec => []OwnLines
<1>1. ASSUME LineInv PROVE Lined!LinesAreOwn
  <2> SUFFICES ASSUME NEW c \in serving
               PROVE  out[c] \o wline[c] \o line[c] \o rl[c] \o conn[c].up \o wl[c] = sent[c]
    BY DEF Lined!LinesAreOwn
  <2>1. c \in Machines
    BY <1>1 DEF LineInv, LineTypes
  <2>2. Flows(conn[c], c \in serving, wline[c], line[c], rl[c], wl[c], out[c], sent[c])
    BY <1>1, <2>1, LineOf
  <2>3. QED
    BY <2>2 DEF Flows
<1>2. (Runs("lines") => LineInv) => OwnLines
  BY <1>1 DEF OwnLines
<1>3. QED
  BY <1>2, LineAlways, PTL

\* No client ends a line server by SIGPIPE, killed or not: as each waits for its
\* reply, a connection that was reset is not written to again, as long as no line
\* outgrows a Wline (writeline_r, the loop of the clients).
THEOREM RepliesEndNoServer == MCSpec => []LineServerSurvives
<1>1. (Runs("lines") => LineInv) => LineServerSurvives
  BY DEF LineInv, LineTypes, LineServerSurvives, Lined!ServerSurvives
<1>2. QED
  BY <1>1, LineAlways, PTL
=============================================================================
