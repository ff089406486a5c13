------------------------- MODULE FileTransferProof --------------------------
(***************************************************************************)
(* Proofs about FileTransfer, for every block size, batch length, set of   *)
(* file sizes and starting states.                                         *)
(***************************************************************************)
EXTENDS FileTransfer, SequenceTheorems, TLAPS

-----------------------------------------------------------------------------
(* Arithmetic and sequences                                                *)

\* Multiplication by the block size is monotonic.
LEMMA MulMono ==
  ASSUME NEW a \in Int, NEW b \in Int, NEW m \in Nat, a <= b
  PROVE  a * m <= b * m
<1>. DEFINE c == b - a
<1>1. c \in Nat /\ b = a + c
  OBVIOUS
<1>2. c * m \in Nat
  BY <1>1
<1>3. b * m = a * m + c * m
  BY <1>1
<1>. HIDE DEF c
<1>. QED
  BY <1>2, <1>3

\* Whoever counts a block less stands at least one block size lower.
LEMMA MulStep ==
  ASSUME NEW a \in Int, NEW b \in Int, NEW m \in Nat, a < b
  PROVE  a * m + m <= b * m
<1>1. (a + 1) * m <= b * m
  BY MulMono
<1>2. (a + 1) * m = a * m + m
  OBVIOUS
<1>. QED
  BY <1>1, <1>2

\* Block k of a batch of n at o starts where the last of them starts, or before.
LEMMA InBatch ==
  ASSUME NEW o \in Nat, NEW k \in Nat, NEW n \in Nat, NEW m \in Nat,
         NEW f \in Nat, k < n, o + (n - 1) * m <= f
  PROVE  o + k * m \in Nat /\ o + k * m <= f
<1>1. k * m \in Nat /\ (n - 1) * m \in Int
  OBVIOUS
<1>2. k * m <= (n - 1) * m
  BY MulMono
<1>. DEFINE x == k * m
            y == (n - 1) * m
<1>3. x \in Nat /\ y \in Int /\ x <= y /\ o + y <= f
  BY <1>1, <1>2
<1>. HIDE DEF x, y
<1>4. o + x \in Nat /\ o + x <= f
  BY <1>3
<1>. QED
  BY <1>4 DEF x

\* A sequence of n more elements after s.
LEMMA AppendBatch ==
  ASSUME NEW S, NEW s \in Seq(S), NEW n \in Nat, NEW f \in [1..n -> S]
  PROVE  /\ s \o f \in Seq(S)
         /\ Len(s \o f) = Len(s) + n
         /\ \A i \in 1..Len(s) : (s \o f)[i] = s[i]
         /\ \A i \in 1..n : (s \o f)[Len(s) + i] = f[i]
<1>1. f \in Seq(S) /\ Len(f) = n
  BY SeqDef
<1>2. /\ s \o f \in Seq(S)
      /\ Len(s \o f) = Len(s) + Len(f)
      /\ \A i \in 1..(Len(s) + Len(f)) :
           (s \o f)[i] = IF i <= Len(s) THEN s[i] ELSE f[i - Len(s)]
  BY <1>1, ConcatProperties
<1>3. Len(s) \in Nat
  BY LenProperties
<1>. QED
  BY <1>1, <1>2, <1>3

-----------------------------------------------------------------------------
(* Types                                                                   *)

LEMMA TypeInit == Init => TypeOK
<1>. USE TransferAssumption
<1>. SUFFICES ASSUME Init PROVE TypeOK
  OBVIOUS
<1>1. GBN_buf \in [0..(block_read - 1) -> Block]
  BY DEF Init
<1>2. out \in Seq([pos : Nat, size : 0..MAX_DATA_SIZE]) /\ flushed \in 0..Len(out)
  BY EmptySeq DEF Init
<1>3. held \in [DOMAIN held -> Datagram] /\ DOMAIN held \in SUBSET Index
  BY DEF Init
<1>4. block_read \in 0..GO_BACK_N /\ next \in 0..GO_BACK_N
  BY DEF Init
<1>5. spc \in SenderStates /\ rpc \in ReceiverStates
  BY DEF Init, SenderStates, ReceiverStates
<1>. QED
  BY <1>1, <1>2, <1>3, <1>4, <1>5 DEF Init, TypeOK

LEMMA TypeStep == TypeOK /\ [Next]_vars => TypeOK'
<1>. USE TransferAssumption
<1>. SUFFICES ASSUME TypeOK, [Next]_vars PROVE TypeOK'
  OBVIOUS
<1>. USE DEF TypeOK, SenderStates, ReceiverStates, netVars
<1>1. CASE Load
  <2>1. PICK n \in 1..GO_BACK_N :
          /\ offset + (n - 1) * MAX_DATA_SIZE <= fileSize
          /\ finished' = (fileSize < offset + n * MAX_DATA_SIZE)
          /\ n = GO_BACK_N \/ finished'
          /\ GBN_buf' = [k \in 0..(n - 1) |-> LoadedBlock(k)]
          /\ block_read' = n
          /\ offset' = IF finished' THEN fileSize
                                    ELSE offset + n * MAX_DATA_SIZE
    BY <1>1 DEF Load
  <2>2. fileSize \in Nat /\ n \in Nat /\ n * MAX_DATA_SIZE \in Nat
    OBVIOUS
  <2>3. offset' \in Nat
    BY <2>1, <2>2, SMTT(30)
  <2>4. ASSUME NEW k \in 0..(n - 1) PROVE LoadedBlock(k) \in Block
    <3>. DEFINE pos == offset + k * MAX_DATA_SIZE
    <3>1. offset + (n - 1) * MAX_DATA_SIZE <= fileSize
          /\ offset \in Nat /\ k \in Nat /\ k < n
      BY <2>1, <2>2
    <3>2. pos \in Nat /\ pos <= fileSize
      BY <2>2, <3>1, InBatch
    <3>3. DataCount(pos) \in 0..MAX_DATA_SIZE
      BY ONLY TransferAssumption, <2>2, <3>2 DEF DataCount
    <3>4. LoadedBlock(k) = [offset |-> offset, index |-> k, pos |-> pos,
                            size |-> DataCount(pos)]
      BY DEF LoadedBlock
    <3>5. k \in 0..(GO_BACK_N - 1)
      BY ONLY TransferAssumption, <3>1, n \in 1..GO_BACK_N
    <3>. HIDE DEF pos
    <3>. QED
      BY ONLY <3>1, <3>2, <3>3, <3>4, <3>5 DEF Block, Index
  <2>5. GBN_buf' \in [0..(block_read' - 1) -> Block]
    BY <2>1, <2>4
  <2>6. /\ block_read' \in 0..GO_BACK_N /\ finished' \in BOOLEAN
        /\ check' \in SUBSET Index /\ next' \in 0..GO_BACK_N
        /\ spc' \in SenderStates
    BY <1>1, <2>1 DEF Load
  <2>7. UNCHANGED <<fileSize, sockErr, receiverVars, netVars>>
    BY <1>1 DEF Load
  <2>. QED
    BY <2>3, <2>5, <2>6, <2>7 DEF receiverVars
<1>2. CASE Timeout
  BY <1>2 DEF Timeout, AfterTimeout, receiverVars
<1>3. CASE ReadError
  BY <1>3 DEF ReadError, AfterError, receiverVars
<1>4. ASSUME NEW k \in Index, SendBlock(k) PROVE TypeOK'
  <2>1. k \in 0..(block_read - 1) /\ block_read \in 1..GO_BACK_N
    BY <1>4 DEF SendBlock, Unsent
  <2>2. Frame(k) \in Datagram
    BY <2>1 DEF Frame, Block, Datagram
  <2>3. next' \in 0..GO_BACK_N
    BY <1>4, <2>1 DEF SendBlock
  <2>. QED
    BY <1>4, <2>2, <2>3 DEF SendBlock, receiverVars
<1>5. ASSUME NEW a \in ackNet, ReceiveAck(a) PROVE TypeOK'
  <2>1. a.index \in Index
    BY DEF AckMsg
  <2>. QED
    BY <1>5, <2>1 DEF ReceiveAck, AfterBatch, receiverVars
<1>6. CASE Bind
  BY <1>6 DEF Bind, senderVars
<1>7. CASE CloseSocket
  BY <1>7 DEF CloseSocket, senderVars
<1>8. CASE Exit
  BY <1>8, LenProperties DEF Exit, senderVars
<1>9. ASSUME NEW d \in dataNet, ReceiveData(d) PROVE TypeOK'
  <2>. DEFINE store      == IsExpected(d)
              h          == IF store THEN Stored(d) ELSE held
              complete   == store /\ isAllOK(DOMAIN h, d.block_read)
              batch      == [j \in 1..d.block_read |-> Payload(h[j - 1])]
              S          == [pos : Nat, size : 0..MAX_DATA_SIZE]
  <2>1. /\ d \in Datagram /\ d.index \in Index
        /\ d.block_read \in Nat /\ d.next_offset \in Nat
    BY DEF Datagram
  <2>2. DOMAIN h \in SUBSET Index /\ h \in [DOMAIN h -> Datagram]
    BY <2>1 DEF Stored
  <2>3. held' \in [DOMAIN held' -> Datagram] /\ DOMAIN held' \in SUBSET Index
    <3>1. CASE complete
      BY <1>9, <3>1 DEF ReceiveData, AfterReset
    <3>2. CASE ~complete
      BY <1>9, <2>2, <3>2 DEF ReceiveData
    <3>. QED
      BY <3>1, <3>2
  <2>4. cur_offset' \in Nat
    BY <1>9, <2>1 DEF ReceiveData
  <2>5. out' \in Seq(S) /\ Len(out') \in Nat /\ Len(out) \in Nat
        /\ Len(out) <= Len(out')
    <3>1. CASE complete
      <4>1. ASSUME NEW j \in 1..d.block_read PROVE Payload(h[j - 1]) \in S
        <5>1. j - 1 \in 0..(d.block_read - 1)
          BY <2>1, SMTT(30)
        <5>2. j - 1 \in DOMAIN h
          BY <3>1, <5>1 DEF isAllOK
        <5>3. h[j - 1] \in Datagram
          BY <2>2, <5>2
        <5>. HIDE DEF h
        <5>. QED
          BY <5>3 DEF Payload, Datagram
      <4>2. batch \in [1..d.block_read -> S]
        BY <4>1
      <4>3. out' = out \o batch
        BY <1>9, <3>1 DEF ReceiveData
      <4>4. out \in Seq(S) /\ d.block_read \in Nat
        BY <2>1
      <4>. HIDE DEF batch, S, h
      <4>5. out \o batch \in Seq(S) /\ Len(out \o batch) = Len(out) + d.block_read
        BY <4>2, <4>4, AppendBatch
      <4>6. Len(out) \in Nat
        BY <4>4, LenProperties
      <4>. QED
        BY <4>3, <4>4, <4>5, <4>6
    <3>2. CASE ~complete
      BY <1>9, <3>2, LenProperties DEF ReceiveData
    <3>. QED
      BY <3>1, <3>2
  <2>6. flushed' \in 0..Len(out')
    <3>1. flushed' \in flushed..Len(out') \/ flushed' = flushed
      BY <1>9 DEF ReceiveData
    <3>. QED
      BY <2>5, <3>1
  <2>7. ackNet' \in SUBSET AckMsg
    BY <1>9, <2>1, SMTT(30) DEF ReceiveData, Reply, AckOf, AckMsg, Datagram
  <2>8. rpc' \in ReceiverStates /\ dataNet' \in SUBSET Datagram
    BY <1>9 DEF ReceiveData
  <2>9. UNCHANGED <<fileSize, senderVars, sockErr>>
    BY <1>9 DEF ReceiveData
  <2>. QED
    BY <2>3, <2>4, <2>5, <2>6, <2>7, <2>8, <2>9 DEF senderVars
<1>10. ASSUME NEW d \in dataNet, LoseData(d) \/ Bounce(d) PROVE TypeOK'
  BY <1>10 DEF LoseData, Bounce, senderVars, receiverVars
<1>11. ASSUME NEW a \in ackNet, LoseAck(a) PROVE TypeOK'
  BY <1>11 DEF LoseAck, senderVars, receiverVars
<1>12. CASE UNCHANGED vars
  BY <1>12 DEF vars, senderVars, receiverVars
<1>. QED
  BY <1>1, <1>2, <1>3, <1>4, <1>5, <1>6, <1>7, <1>8, <1>9, <1>10, <1>11,
     <1>12 DEF Next, Sender, Receiver, Network

\* Every variable keeps its type; the indices that arrive in datagrams and
\* acknowledgements stay inside the arrays of GO_BACK_N entries.
THEOREM TypeCorrect == Spec => []TypeOK
  BY TypeInit, TypeStep, PTL DEF Spec

-----------------------------------------------------------------------------
(* The batch at an offset: the file alone determines how many blocks it has *)

LEMMA SameCount ==
  ASSUME NEW o \in Nat, NEW f \in Nat, NEW m \in Nat,
         NEW n1 \in Nat, NEW n2 \in Nat,
         f < o + n1 * m, o + (n2 - 1) * m <= f
  PROVE  n2 <= n1
<1>. SUFFICES ASSUME n1 <= n2 - 1 PROVE FALSE
  OBVIOUS
<1>. DEFINE x == n1 * m
            y == (n2 - 1) * m
<1>1. x <= y
  BY MulMono
<1>2. x \in Int /\ y \in Int /\ f < o + x /\ o + y <= f
  OBVIOUS
<1>. HIDE DEF x, y
<1>. QED
  BY <1>1, <1>2

\* Two counts of the batch at o agree.
LEMMA BatchCount ==
  ASSUME NEW o \in Nat, NEW f \in Nat, NEW m \in Nat, NEW g \in Nat,
         NEW n1 \in 1..g, NEW n2 \in 1..g,
         o + (n1 - 1) * m <= f, f < o + n1 * m \/ n1 = g,
         o + (n2 - 1) * m <= f, f < o + n2 * m \/ n2 = g
  PROVE  n1 = n2
<1>1. n1 \in Nat /\ n2 \in Nat
  OBVIOUS
<1>2. n2 <= n1
  BY <1>1, SameCount
<1>3. n1 <= n2
  BY <1>1, SameCount
<1>. QED
  BY <1>1, <1>2, <1>3

LEMMA SameBatch ==
  ASSUME fileSize \in Nat, NEW d \in Datagram, NEW e \in Datagram,
         WellFormed(d), WellFormed(e), d.offset = e.offset
  PROVE  d.block_read = e.block_read /\ d.eof = e.eof
<1>1. MAX_DATA_SIZE \in Nat /\ GO_BACK_N \in Nat
  BY TransferAssumption
<1>2. /\ d.offset \in Nat
      /\ d.block_read \in 1..GO_BACK_N
      /\ e.block_read \in 1..GO_BACK_N
  BY DEF Datagram
<1>3. /\ d.offset + (d.block_read - 1) * MAX_DATA_SIZE <= fileSize
      /\ \/ fileSize < d.offset + d.block_read * MAX_DATA_SIZE
         \/ d.block_read = GO_BACK_N
  BY DEF WellFormed
<1>4. /\ d.offset + (e.block_read - 1) * MAX_DATA_SIZE <= fileSize
      /\ \/ fileSize < d.offset + e.block_read * MAX_DATA_SIZE
         \/ e.block_read = GO_BACK_N
  BY DEF WellFormed
<1>5. d.block_read = e.block_read
  BY <1>1, <1>2, <1>3, <1>4, BatchCount
<1>. QED
  BY <1>5 DEF WellFormed

\* No block of the batch the receiver expects is in its file.
LEMMA NotWritten ==
  ASSUME TypeOK, ReceiverInv, Receiving, NEW k \in Nat
  PROVE  ~Written(cur_offset + k * MAX_DATA_SIZE)
<1>. SUFFICES ASSUME NEW i \in 1..Len(out),
                     out[i].pos = cur_offset + k * MAX_DATA_SIZE
              PROVE  FALSE
  BY DEF Written
<1>1. MAX_DATA_SIZE \in Nat \ {0}
  BY TransferAssumption
<1>2. out[i].pos = (i - 1) * MAX_DATA_SIZE
  <2>1. OutputIsPrefix
    BY DEF ReceiverInv
  <2>2. out[i] = [pos |-> (i - 1) * MAX_DATA_SIZE,
                  size |-> DataCount((i - 1) * MAX_DATA_SIZE)]
    BY <2>1, Zenon DEF OutputIsPrefix
  <2>. QED
    BY <2>2
<1>3. cur_offset = Len(out) * MAX_DATA_SIZE
  BY DEF ReceiverInv
<1>4. Len(out) \in Nat
  BY LenProperties DEF TypeOK
<1>5. (i - 1) * MAX_DATA_SIZE + MAX_DATA_SIZE <= Len(out) * MAX_DATA_SIZE
  BY <1>1, <1>4, MulStep
<1>6. k * MAX_DATA_SIZE \in Nat
  BY <1>1
<1>. DEFINE x == (i - 1) * MAX_DATA_SIZE
            y == Len(out) * MAX_DATA_SIZE
            z == k * MAX_DATA_SIZE
<1>7. x = y + z /\ x + MAX_DATA_SIZE <= y /\ x \in Int /\ y \in Int /\ z \in Nat
  BY <1>1, <1>2, <1>3, <1>4, <1>5, <1>6
<1>. HIDE DEF x, y, z
<1>. QED
  BY <1>1, <1>7

LEMMA DatagramFacts ==
  ASSUME IInv, NEW d \in dataNet
  PROVE  /\ MAX_DATA_SIZE \in Nat \ {0} /\ GO_BACK_N \in Nat
         /\ fileSize \in Nat /\ cur_offset \in Nat /\ offset \in Nat
         /\ d \in Datagram /\ WellFormed(d)
         /\ d.offset \in Nat /\ d.index \in Nat /\ d.next_offset \in Nat
         /\ d.block_read \in Nat /\ d.block_read \in 1..GO_BACK_N
         /\ d.eof \in BOOLEAN
         /\ d.offset + d.index * MAX_DATA_SIZE <= fileSize
<1>1. /\ MAX_DATA_SIZE \in Nat \ {0} /\ GO_BACK_N \in Nat
      /\ fileSize \in Nat /\ cur_offset \in Nat /\ offset \in Nat
  BY TransferAssumption DEF IInv, TypeOK
<1>2. d \in Datagram /\ WellFormed(d)
  BY DEF IInv, TypeOK, NetInv
<1>3. /\ d.offset \in Nat /\ d.index \in Nat /\ d.next_offset \in Nat
      /\ d.block_read \in Nat /\ d.block_read \in 1..GO_BACK_N
      /\ d.eof \in BOOLEAN
  BY <1>1, <1>2 DEF Datagram, Index
<1>4. d.offset + d.index * MAX_DATA_SIZE <= fileSize
  <2>1. /\ d.index < d.block_read
        /\ d.offset + (d.block_read - 1) * MAX_DATA_SIZE <= fileSize
    BY <1>2 DEF WellFormed
  <2>. QED
    BY <1>1, <1>3, <2>1, InBatch
<1>. QED
  BY <1>1, <1>2, <1>3, <1>4

-----------------------------------------------------------------------------
(* The steps that leave the sender's batch and the receiver's file alone   *)

LEMMA Quiet ==
  ASSUME IInv, TypeOK', ReceiverInv',
         UNCHANGED <<fileSize, offset, GBN_buf, block_read, check, cur_offset>>,
         Receiving' = Receiving,
         \A pos : Written(pos) => Written(pos)',
         \A o, k : Received(o, k) => Received(o, k)',
         \A d \in dataNet' :
            \/ d \in dataNet
            \/ /\ WellFormed(d)
               /\ (Receiving /\ d.offset = cur_offset) \/ Written(d.pos)
               /\ spc # "load" /\ d.offset <= GBN_buf[0].offset,
         \A a \in ackNet' :
            \/ a \in ackNet
            \/ /\ Received(a.offset, a.index)'
               /\ a.offset + a.index * MAX_DATA_SIZE <= fileSize,
         Receiving \/ ackNet' \subseteq ackNet,
         (spc' = "load") <=> (spc = "load"),
         spc' # "done" => finished' = finished /\ spc # "done"
  PROVE  IInv'
<1>1. NetInv'
  <2>1. ASSUME NEW d \in dataNet'
        PROVE  /\ WellFormed(d)'
               /\ (Receiving' /\ d.offset = cur_offset') \/ Written(d.pos)'
               /\ IF spc' = "load" THEN d.offset < offset'
                                   ELSE d.offset <= GBN_buf'[0].offset
    <3>1. /\ WellFormed(d)
          /\ (Receiving /\ d.offset = cur_offset) \/ Written(d.pos)
          /\ IF spc = "load" THEN d.offset < offset
                             ELSE d.offset <= GBN_buf[0].offset
      BY DEF IInv, NetInv
    <3>2. WellFormed(d)'
      BY <3>1 DEF WellFormed, DataCount
    <3>. QED
      BY <3>1, <3>2
  <2>2. ASSUME NEW a \in ackNet'
        PROVE  /\ Received(a.offset, a.index)'
               /\ a.offset + a.index * MAX_DATA_SIZE <= fileSize'
    BY DEF IInv, NetInv
  <2>. QED
    BY <2>1, <2>2 DEF NetInv
<1>2. BatchInv => BatchInv'
  BY DEF BatchInv, DataCount
<1>3. LastBatch' = LastBatch
  BY DEF LastBatch
<1>4. BatchOpen' = BatchOpen
  BY DEF BatchOpen
<1>5. BatchComplete => BatchComplete'
  <2>. SUFFICES ASSUME BatchComplete PROVE BatchComplete'
    OBVIOUS
  <2>1. Unanswered /\ ackNet' \subseteq ackNet => Unanswered'
    BY DEF Unanswered
  <2>2. LastBatch => ~Receiving /\ Unanswered
    BY DEF BatchComplete
  <2>3. LastBatch' => ~Receiving' /\ Unanswered'
    BY <1>3, <2>1, <2>2
  <2>4. ~LastBatch' => Receiving' /\ GBN_buf'[0].offset < offset'
    BY <1>3 DEF BatchComplete
  <2>5. /\ \A k \in 0..(block_read' - 1) :
             Written(GBN_buf[0].offset + k * MAX_DATA_SIZE)'
        /\ cur_offset' = offset'
    BY DEF BatchComplete
  <2>. QED
    BY <2>3, <2>4, <2>5 DEF BatchComplete
<1>6. SenderInv'
  BY <1>2, <1>3, <1>4, <1>5 DEF IInv, SenderInv
<1>. QED
  BY <1>1, <1>6 DEF IInv

\* The receiver's half of the invariant speaks of its own state only.
LEMMA ReceiverUnchanged ==
  ASSUME ReceiverInv, UNCHANGED <<fileSize, cur_offset, held, out>>,
         Receiving' = Receiving
  PROVE  /\ ReceiverInv'
         /\ \A pos : Written(pos) => Written(pos)'
         /\ \A o, k : Received(o, k) => Received(o, k)'
<1>1. \A d : WellFormed(d) => WellFormed(d)'
  BY DEF WellFormed, DataCount
<1>2. OutputIsPrefix' /\ (Delivered' = Delivered)
  BY DEF ReceiverInv, OutputIsPrefix, Delivered, DataCount
<1>3. ReceiverInv'
  BY <1>1, <1>2 DEF ReceiverInv
<1>. QED
  BY <1>3 DEF Written, Received

\* Every step but loading a batch, reading an acknowledgement and receiving
\* a datagram.
LEMMA QuietSteps ==
  ASSUME IInv, TypeOK',
         \/ Timeout \/ ReadError \/ Bind \/ CloseSocket \/ Exit
         \/ UNCHANGED vars
         \/ \E d \in dataNet : LoseData(d) \/ Bounce(d)
         \/ \E a \in ackNet : LoseAck(a)
  PROVE  IInv'
<1>. USE DEF Timeout, ReadError, Bind, CloseSocket, Exit, LoseData, Bounce,
             LoseAck, vars, senderVars, receiverVars, netVars
<1>1. /\ UNCHANGED <<fileSize, offset, GBN_buf, block_read, check>>
      /\ UNCHANGED <<cur_offset, held, out>>
      /\ dataNet' \subseteq dataNet /\ ackNet' \subseteq ackNet
  OBVIOUS
<1>2. Receiving' = Receiving
  BY DEF Receiving
<1>3. /\ (spc' = "load") <=> (spc = "load")
      /\ spc' # "done" => finished' = finished /\ spc # "done"
  BY DEF AfterTimeout, AfterError
<1>4. /\ ReceiverInv'
      /\ \A pos : Written(pos) => Written(pos)'
      /\ \A o, k : Received(o, k) => Received(o, k)'
  BY <1>1, <1>2, ReceiverUnchanged DEF IInv
<1>. QED
  BY ONLY IInv, TypeOK', <1>1, <1>2, <1>3, <1>4, Quiet

\* What the sender knows of its batch while it sends or waits.
LEMMA CurrentBatch ==
  ASSUME IInv, spc \in {"send", "wait"}
  PROVE  /\ fileSize \in Nat
         /\ block_read \in 1..GO_BACK_N
         /\ GBN_buf[0].offset \in Nat
         /\ BatchInv
         /\ LastBatch \/ block_read = GO_BACK_N
         /\ finished = LastBatch
         /\ offset = IF LastBatch THEN fileSize
                     ELSE GBN_buf[0].offset + block_read * MAX_DATA_SIZE
         /\ BatchOpen \/ BatchComplete
<1>1. TypeOK /\ SenderInv /\ GO_BACK_N \in Nat
  BY TransferAssumption DEF IInv
<1>2. block_read > 0 /\ block_read \in 0..GO_BACK_N
  BY <1>1 DEF SenderInv, TypeOK
<1>3. GBN_buf[0] \in Block
  BY <1>1, <1>2, SMTT(30) DEF TypeOK
<1>4. fileSize \in Nat
  BY TransferAssumption DEF IInv, TypeOK
<1>. QED
  BY <1>1, <1>2, <1>3, <1>4 DEF SenderInv, Block

LEMMA SendBlockStep ==
  ASSUME IInv, TypeOK', NEW k \in Index, SendBlock(k)
  PROVE  IInv'
<1>. DEFINE base == GBN_buf[0].offset
            pos  == base + k * MAX_DATA_SIZE
<1>1. spc = "send" /\ k \in 0..(block_read - 1)
  <2>1. next \in Nat /\ block_read \in Nat
    BY TransferAssumption DEF IInv, TypeOK
  <2>2. spc = "send" /\ k \in next..(block_read - 1)
    BY DEF SendBlock, Unsent
  <2>. QED
    BY <2>1, <2>2
<1>2. /\ fileSize \in Nat
      /\ block_read \in 1..GO_BACK_N
      /\ base \in Nat
      /\ BatchInv
      /\ LastBatch \/ block_read = GO_BACK_N
      /\ finished = LastBatch
      /\ offset = IF LastBatch THEN fileSize
                  ELSE base + block_read * MAX_DATA_SIZE
      /\ BatchOpen \/ BatchComplete
  BY <1>1, CurrentBatch
<1>3. GBN_buf[k] = [offset |-> base, index |-> k, pos |-> pos,
                    size |-> DataCount(pos)]
  BY <1>1, <1>2 DEF BatchInv
<1>4. Frame(k) = [offset |-> base, index |-> k, pos |-> pos,
                  size |-> DataCount(pos), eof |-> finished,
                  next_offset |-> offset, block_read |-> block_read]
  BY <1>3 DEF Frame
<1>5. WellFormed(Frame(k))
  <2>1. base + (block_read - 1) * MAX_DATA_SIZE <= fileSize
    BY <1>2 DEF BatchInv
  <2>2. finished = (fileSize < base + block_read * MAX_DATA_SIZE)
    BY <1>2 DEF LastBatch
  <2>3. /\ Frame(k).offset = base /\ Frame(k).index = k
        /\ Frame(k).pos = pos /\ Frame(k).size = DataCount(pos)
        /\ Frame(k).eof = finished /\ Frame(k).next_offset = offset
        /\ Frame(k).block_read = block_read
    BY <1>4
  <2>4. k < block_read
    BY <1>1, <1>2
  <2>5. finished \/ block_read = GO_BACK_N
    BY <1>2
  <2>6. offset = IF finished THEN fileSize
                 ELSE base + block_read * MAX_DATA_SIZE
    BY <1>2
  <2>. QED
    BY ONLY <2>1, <2>2, <2>3, <2>4, <2>5, <2>6 DEF WellFormed
<1>6. (Receiving /\ base = cur_offset) \/ Written(pos)
  BY <1>1, <1>2 DEF BatchOpen, BatchComplete
<1>7. /\ UNCHANGED <<fileSize, offset, GBN_buf, block_read, check>>
      /\ UNCHANGED <<cur_offset, held, out>>
      /\ dataNet' \subseteq dataNet \cup {Frame(k)} /\ ackNet' \subseteq ackNet
  BY DEF SendBlock, receiverVars
<1>8. Receiving' = Receiving
  BY DEF SendBlock, receiverVars, Receiving
<1>9. /\ (spc' = "load") <=> (spc = "load")
      /\ spc' # "done" => finished' = finished /\ spc # "done"
  BY <1>1 DEF SendBlock
<1>10. /\ ReceiverInv'
       /\ \A q : Written(q) => Written(q)'
       /\ \A o, i : Received(o, i) => Received(o, i)'
  BY <1>7, <1>8, ReceiverUnchanged DEF IInv
<1>11. ASSUME NEW d \in dataNet'
       PROVE  \/ d \in dataNet
              \/ /\ WellFormed(d)
                 /\ (Receiving /\ d.offset = cur_offset) \/ Written(d.pos)
                 /\ spc # "load" /\ d.offset <= GBN_buf[0].offset
  <2>1. CASE d \in dataNet
    BY <2>1
  <2>2. CASE d = Frame(k)
    <3>1. d.offset = base /\ d.pos = pos
      BY <1>4, <2>2
    <3>. QED
      BY <1>1, <1>2, <1>5, <1>6, <2>2, <3>1
  <2>. QED
    BY <1>7, <2>1, <2>2
<1>. QED
  BY ONLY IInv, TypeOK', <1>7, <1>8, <1>9, <1>10, <1>11, Quiet

-----------------------------------------------------------------------------
(* Loading a batch and reading an acknowledgement                          *)

LEMMA LoadStep ==
  ASSUME IInv, TypeOK', Load
  PROVE  IInv'
<1>1. PICK n \in 1..GO_BACK_N :
        /\ offset + (n - 1) * MAX_DATA_SIZE <= fileSize
        /\ finished' = (fileSize < offset + n * MAX_DATA_SIZE)
        /\ n = GO_BACK_N \/ finished'
        /\ GBN_buf' = [k \in 0..(n - 1) |-> LoadedBlock(k)]
        /\ block_read' = n
        /\ offset' = IF finished' THEN fileSize ELSE offset + n * MAX_DATA_SIZE
  BY DEF Load
<1>2. /\ spc = "load" /\ spc' = "send" /\ check' = {}
      /\ UNCHANGED <<fileSize, rpc, cur_offset, held, out, dataNet, ackNet>>
  BY DEF Load, receiverVars, netVars
<1>3. Receiving' = Receiving /\ Receiving /\ cur_offset = offset
  BY <1>2 DEF IInv, SenderInv, Receiving
<1>4. /\ ReceiverInv'
      /\ \A pos : Written(pos) => Written(pos)'
      /\ \A o, k : Received(o, k) => Received(o, k)'
  BY <1>2, <1>3, ReceiverUnchanged DEF IInv
<1>5. n \in Nat /\ n > 0 /\ GO_BACK_N \in Nat
  BY TransferAssumption
<1>6. ASSUME NEW k \in 0..(n - 1)
      PROVE  GBN_buf'[k] = [offset |-> offset, index |-> k,
                            pos |-> offset + k * MAX_DATA_SIZE,
                            size |-> DataCount(offset + k * MAX_DATA_SIZE)]
  BY <1>1 DEF LoadedBlock
<1>7. GBN_buf'[0].offset = offset
  <2>1. 0 \in 0..(n - 1)
    BY <1>5
  <2>2. GBN_buf'[0] = [offset |-> offset, index |-> 0,
                       pos |-> offset + 0 * MAX_DATA_SIZE,
                       size |-> DataCount(offset + 0 * MAX_DATA_SIZE)]
    BY <1>6, <2>1
  <2>. QED
    BY <2>2
<1>8. BatchInv'
  BY <1>1, <1>2, <1>6, <1>7 DEF BatchInv, DataCount
<1>9. LastBatch' = finished'
  BY <1>1, <1>2, <1>7 DEF LastBatch
<1>10. BatchOpen'
  BY <1>2, <1>3, <1>7 DEF BatchOpen
<1>11. SenderInv'
  <2>1. /\ block_read' > 0 /\ spc' # "load" /\ spc' # "done"
        /\ LastBatch' \/ block_read' = GO_BACK_N
    BY <1>1, <1>2, <1>5, <1>9
  <2>2. offset' = IF LastBatch' THEN fileSize'
                  ELSE GBN_buf'[0].offset + block_read' * MAX_DATA_SIZE
    BY <1>1, <1>2, <1>7, <1>9
  <2>. QED
    BY <1>2, <1>8, <1>9, <1>10, <2>1, <2>2 DEF SenderInv
<1>12. NetInv'
  <2>1. ASSUME NEW d \in dataNet'
        PROVE  /\ WellFormed(d)'
               /\ (Receiving' /\ d.offset = cur_offset') \/ Written(d.pos)'
               /\ d.offset <= GBN_buf'[0].offset
    <3>1. /\ WellFormed(d) /\ d \in Datagram
          /\ (Receiving /\ d.offset = cur_offset) \/ Written(d.pos)
          /\ d.offset < offset
      BY <1>2 DEF IInv, NetInv, TypeOK
    <3>2. WellFormed(d)'
      BY <1>2, <3>1 DEF WellFormed, DataCount
    <3>3. d.offset <= offset
      <4>1. d.offset \in Nat /\ offset \in Nat
        BY <1>2, DatagramFacts
      <4>. QED
        BY <3>1, <4>1
    <3>. QED
      BY <1>2, <1>3, <1>4, <1>7, <3>1, <3>2, <3>3
  <2>2. ASSUME NEW a \in ackNet'
        PROVE  /\ Received(a.offset, a.index)'
               /\ a.offset + a.index * MAX_DATA_SIZE <= fileSize'
    BY <1>2, <1>4 DEF IInv, NetInv
  <2>. QED
    BY <1>2, <2>1, <2>2 DEF NetInv
<1>. QED
  BY <1>4, <1>11, <1>12 DEF IInv

\* The receiver has all blocks of the sender's batch only once it has
\* completed that batch.
LEMMA AllReceived ==
  ASSUME IInv, spc \in {"send", "wait"},
         \A k \in 0..(block_read - 1) : Received(GBN_buf[0].offset, k)
  PROVE  BatchComplete
<1>. DEFINE base == GBN_buf[0].offset
<1>1. /\ fileSize \in Nat
      /\ block_read \in 1..GO_BACK_N
      /\ base \in Nat
      /\ BatchInv
      /\ LastBatch \/ block_read = GO_BACK_N
      /\ BatchOpen \/ BatchComplete
  BY CurrentBatch
<1>. SUFFICES ASSUME BatchOpen PROVE FALSE
  BY <1>1
<1>2. Receiving /\ cur_offset = base
  BY DEF BatchOpen
<1>3. TypeOK /\ ReceiverInv /\ MAX_DATA_SIZE \in Nat /\ GO_BACK_N \in Nat
  BY TransferAssumption DEF IInv
<1>4. \A k \in Nat : ~Written(base + k * MAX_DATA_SIZE)
  BY <1>2, <1>3, NotWritten
<1>5. 0..(block_read - 1) \subseteq DOMAIN held
  BY <1>1, <1>3, <1>4 DEF Received
<1>6. 0 \in DOMAIN held
  BY <1>1, <1>3, <1>5
<1>7. /\ WellFormed(held[0]) /\ held[0].offset = base
      /\ ~isAllOK(DOMAIN held, held[0].block_read) /\ held[0] \in Datagram
  BY <1>2, <1>3, <1>6 DEF ReceiverInv, TypeOK
<1>8. held[0].block_read = block_read
  <2>1. /\ base + (block_read - 1) * MAX_DATA_SIZE <= fileSize
        /\ fileSize < base + block_read * MAX_DATA_SIZE \/ block_read = GO_BACK_N
    BY <1>1 DEF BatchInv, LastBatch
  <2>. DEFINE n == held[0].block_read
  <2>2. /\ base + (n - 1) * MAX_DATA_SIZE <= fileSize
        /\ fileSize < base + n * MAX_DATA_SIZE \/ n = GO_BACK_N
        /\ n \in 1..GO_BACK_N
    BY <1>7 DEF WellFormed, Datagram
  <2>. HIDE DEF base, n
  <2>3. n = block_read
    BY <1>1, <1>3, <2>1, <2>2, BatchCount
  <2>. QED
    BY <2>3 DEF n
<1>. QED
  BY <1>5, <1>7, <1>8 DEF isAllOK

LEMMA ReceiveAckStep ==
  ASSUME IInv, TypeOK', NEW a \in ackNet, ReceiveAck(a)
  PROVE  /\ IInv'
         /\ spc' # "done"
<1>. DEFINE base == GBN_buf[0].offset
<1>1. /\ spc = "wait" /\ spc' \in {"wait", "load", "done"}
      /\ check' = IF IsCurrent(a) THEN check \cup {a.index} ELSE check
      /\ spc' # "wait" => IsCurrent(a) /\ isAllOK(check', block_read)
      /\ spc' # "wait" => spc' = IF finished THEN "done" ELSE "load"
      /\ UNCHANGED <<fileSize, offset, finished, GBN_buf, block_read,
                     rpc, cur_offset, held, out, dataNet>>
      /\ ackNet' \subseteq ackNet
  BY DEF ReceiveAck, AfterBatch, receiverVars
<1>2. /\ fileSize \in Nat
      /\ block_read \in 1..GO_BACK_N
      /\ base \in Nat
      /\ BatchInv
      /\ LastBatch \/ block_read = GO_BACK_N
      /\ finished = LastBatch
      /\ offset = IF LastBatch THEN fileSize
                  ELSE base + block_read * MAX_DATA_SIZE
      /\ BatchOpen \/ BatchComplete
  BY <1>1, CurrentBatch
<1>3. /\ a \in AckMsg /\ a.index \in Nat /\ a.index < GO_BACK_N
      /\ MAX_DATA_SIZE \in Nat /\ GO_BACK_N \in Nat
  <2>1. MAX_DATA_SIZE \in Nat /\ GO_BACK_N \in Nat
    BY TransferAssumption
  <2>2. a \in AckMsg
    BY DEF IInv, TypeOK
  <2>. QED
    BY <2>1, <2>2 DEF AckMsg, Index
<1>4. Receiving' = Receiving
  BY <1>1 DEF Receiving
<1>5. /\ ReceiverInv'
      /\ \A pos : Written(pos) => Written(pos)'
      /\ \A o, k : Received(o, k) => Received(o, k)'
  BY <1>1, <1>4, ReceiverUnchanged DEF IInv
<1>6. ASSUME IsCurrent(a)
      PROVE  a.index < block_read /\ Received(base, a.index)
             /\ a = [offset |-> base, index |-> a.index]
  <2>1. /\ a.offset = base /\ Received(base, a.index)
        /\ base + a.index * MAX_DATA_SIZE <= fileSize
    BY <1>6 DEF IsCurrent, IInv, NetInv
  <2>2. CASE block_read = GO_BACK_N
    BY <1>3, <1>6, <2>1, <2>2 DEF AckMsg
  <2>3. CASE fileSize < base + block_read * MAX_DATA_SIZE
    <3>. DEFINE n == a.index + 1
    <3>1. n \in Nat /\ base + (n - 1) * MAX_DATA_SIZE <= fileSize
      BY <1>3, <2>1
    <3>2. block_read \in Nat
      BY <1>2, <1>3
    <3>. HIDE DEF n, base
    <3>3. n <= block_read
      BY <1>2, <1>3, <2>3, <3>1, <3>2, SameCount
    <3>4. a.index < block_read
      BY <1>3, <3>2, <3>3 DEF n
    <3>. QED
      BY <1>3, <2>1, <3>4 DEF AckMsg
  <2>. QED
    BY <1>2, <2>2, <2>3 DEF LastBatch
<1>7. ASSUME NEW k \in check' PROVE k < block_read /\ Received(base, k)
  BY <1>1, <1>2, <1>6, <1>7 DEF BatchInv
<1>8. BatchInv'
  BY <1>1, <1>2, <1>5, <1>7 DEF BatchInv, DataCount
<1>9. Unanswered => Unanswered' /\ ~(IsCurrent(a) /\ isAllOK(check', block_read))
  <2>. SUFFICES ASSUME Unanswered
                PROVE  Unanswered' /\ ~(IsCurrent(a) /\ isAllOK(check', block_read))
    OBVIOUS
  <2>1. PICK k \in 0..(block_read - 1) :
          k \notin check /\ [offset |-> base, index |-> k] \notin ackNet
    BY DEF Unanswered
  <2>2. k \notin check'
    BY <1>1, <1>6, <2>1
  <2>. QED
    BY <1>1, <2>1, <2>2 DEF Unanswered, isAllOK
<1>10. /\ LastBatch' = LastBatch /\ BatchOpen' = BatchOpen
       /\ BatchComplete => BatchComplete'
  <2>1. LastBatch' = LastBatch /\ BatchOpen' = BatchOpen
    BY <1>1, <1>4 DEF LastBatch, BatchOpen
  <2>2. ASSUME BatchComplete PROVE BatchComplete'
    <3>1. LastBatch' => ~Receiving' /\ Unanswered'
      BY <1>4, <1>9, <2>1, <2>2 DEF BatchComplete
    <3>2. ~LastBatch' => Receiving' /\ GBN_buf'[0].offset < offset'
      BY <1>1, <1>4, <2>1, <2>2 DEF BatchComplete
    <3>3. /\ \A k \in 0..(block_read' - 1) :
               Written(GBN_buf[0].offset + k * MAX_DATA_SIZE)'
          /\ cur_offset' = offset'
      BY <1>1, <1>5, <2>2 DEF BatchComplete
    <3>. QED
      BY <1>1, <3>1, <3>2, <3>3 DEF BatchComplete
  <2>. QED
    BY <2>1, <2>2
<1>11. spc' # "wait" => /\ spc' = "load" /\ ~finished
                       /\ Receiving /\ cur_offset = offset /\ base < offset
  <2>. SUFFICES ASSUME spc' # "wait"
                PROVE  /\ spc' = "load" /\ ~finished
                       /\ Receiving /\ cur_offset = offset /\ base < offset
    OBVIOUS
  <2>1. IsCurrent(a) /\ isAllOK(check', block_read)
    BY <1>1
  <2>2. \A k \in 0..(block_read - 1) : Received(base, k)
    BY <1>7, <2>1 DEF isAllOK
  <2>3. BatchComplete
    BY <1>1, <2>2, AllReceived
  <2>4. ~LastBatch
    BY <1>9, <2>1, <2>3 DEF BatchComplete
  <2>. QED
    BY <1>1, <1>2, <2>3, <2>4 DEF BatchComplete
<1>12. SenderInv'
  BY <1>1, <1>2, <1>4, <1>8, <1>10, <1>11 DEF SenderInv
<1>13. NetInv'
  <2>1. ASSUME NEW d \in dataNet'
        PROVE  /\ WellFormed(d)'
               /\ (Receiving' /\ d.offset = cur_offset') \/ Written(d.pos)'
               /\ IF spc' = "load" THEN d.offset < offset'
                                   ELSE d.offset <= GBN_buf'[0].offset
    <3>1. /\ WellFormed(d) /\ d \in Datagram
          /\ (Receiving /\ d.offset = cur_offset) \/ Written(d.pos)
          /\ d.offset <= base
      BY <1>1 DEF IInv, NetInv, TypeOK
    <3>2. WellFormed(d)'
      BY <1>1, <3>1 DEF WellFormed, DataCount
    <3>3. d.offset \in Nat /\ offset \in Nat
      BY <1>1, DatagramFacts
    <3>4. spc' = "load" => d.offset < offset
      BY <1>2, <1>11, <3>1, <3>3
    <3>. QED
      BY <1>1, <1>4, <1>5, <3>1, <3>2, <3>4
  <2>2. ASSUME NEW b \in ackNet'
        PROVE  /\ Received(b.offset, b.index)'
               /\ b.offset + b.index * MAX_DATA_SIZE <= fileSize'
    BY <1>1, <1>5 DEF IInv, NetInv
  <2>. QED
    BY <2>1, <2>2 DEF NetInv
<1>. QED
  BY <1>1, <1>5, <1>11, <1>12, <1>13 DEF IInv

-----------------------------------------------------------------------------
(* Receiving a datagram                                                    *)

\* The batch of another offset than the expected one: only an answer.
LEMMA ReceiveOtherStep ==
  ASSUME IInv, TypeOK', NEW d \in dataNet, ReceiveData(d), ~IsExpected(d)
  PROVE  IInv'
<1>1. /\ UNCHANGED <<fileSize, senderVars, cur_offset, held, out>>
      /\ rpc = "listening" /\ rpc' = "listening"
      /\ dataNet' \subseteq dataNet
      /\ ackNet' = ackNet \cup {AckOf(d)}
  BY DEF ReceiveData, Reply
<1>2. /\ UNCHANGED <<offset, GBN_buf, block_read, check, spc, finished>>
      /\ Receiving' = Receiving /\ Receiving
  BY <1>1 DEF senderVars, Receiving
<1>3. /\ ReceiverInv'
      /\ \A pos : Written(pos) => Written(pos)'
      /\ \A o, k : Received(o, k) => Received(o, k)'
  BY <1>1, <1>2, ReceiverUnchanged DEF IInv
<1>4. /\ d \in Datagram /\ WellFormed(d) /\ Written(d.pos)
  BY DEF IInv, TypeOK, NetInv, IsExpected
<1>5. Received(d.offset, d.index)
  BY <1>4 DEF Received, WellFormed
<1>6. d.offset + d.index * MAX_DATA_SIZE <= fileSize
  BY DatagramFacts
<1>7. ASSUME NEW a \in ackNet'
      PROVE  \/ a \in ackNet
             \/ /\ Received(a.offset, a.index)'
                /\ a.offset + a.index * MAX_DATA_SIZE <= fileSize
  BY <1>1, <1>3, <1>5, <1>6 DEF AckOf
<1>8. /\ (spc' = "load") <=> (spc = "load")
      /\ spc' # "done" => finished' = finished /\ spc # "done"
      /\ spc = "done" => spc' = "done"
  BY <1>2
<1>. QED
  BY <1>1, <1>2, <1>3, <1>7, <1>8, Quiet

\* The buffer after the store: blocks of one batch, each at its own index.
LEMMA StoredFacts ==
  ASSUME IInv, NEW d \in dataNet, IsExpected(d), NEW k \in DOMAIN Stored(d)
  PROVE  /\ WellFormed(Stored(d)[k])
         /\ Stored(d)[k] \in Datagram
         /\ Stored(d)[k].offset = cur_offset
         /\ Stored(d)[k].index = k
         /\ Stored(d)[k].block_read = d.block_read
         /\ Stored(d)[k].eof = d.eof
         /\ k < d.block_read
<1>1. fileSize \in Nat /\ d \in Datagram /\ WellFormed(d) /\ d.offset = cur_offset
  BY DatagramFacts DEF IsExpected
<1>2. CASE k = d.index
  BY <1>1, <1>2 DEF Stored, WellFormed
<1>3. CASE k # d.index
  <2>1. k \in DOMAIN held /\ Stored(d)[k] = held[k]
    BY <1>3 DEF Stored
  <2>2. /\ WellFormed(held[k]) /\ held[k] \in Datagram
        /\ held[k].offset = cur_offset /\ held[k].index = k
    BY <2>1 DEF IInv, ReceiverInv, TypeOK
  <2>3. held[k].block_read = d.block_read /\ held[k].eof = d.eof
    BY <1>1, <2>2, SameBatch
  <2>4. k < d.block_read
    BY <2>2, <2>3 DEF WellFormed
  <2>. QED
    BY <2>1, <2>2, <2>3, <2>4
<1>. QED
  BY <1>2, <1>3

LEMMA ReceivePartStep ==
  ASSUME IInv, TypeOK', NEW d \in dataNet, ReceiveData(d), IsExpected(d),
         ~isAllOK(DOMAIN Stored(d), d.block_read)
  PROVE  IInv'
<1>1. /\ UNCHANGED <<fileSize, senderVars, cur_offset, out>>
      /\ held' = Stored(d)
      /\ rpc = "listening" /\ rpc' = "listening"
      /\ dataNet' \subseteq dataNet
      /\ ackNet' = ackNet \cup {AckOf(d)}
  BY DEF ReceiveData, Reply
<1>2. /\ UNCHANGED <<offset, GBN_buf, block_read, check, spc, finished>>
      /\ Receiving' = Receiving /\ Receiving
  BY <1>1 DEF senderVars, Receiving
<1>3. DOMAIN held' = DOMAIN held \cup {d.index}
  BY <1>1 DEF Stored
<1>4. /\ \A pos : Written(pos) => Written(pos)'
      /\ \A o, k : Received(o, k) => Received(o, k)'
  BY <1>1, <1>3 DEF Written, Received
<1>5. ReceiverInv'
  <2>1. ASSUME NEW k \in DOMAIN held'
        PROVE  (/\ WellFormed(held[k])
                /\ held[k].offset = cur_offset
                /\ held[k].index = k
                /\ ~isAllOK(DOMAIN held, held[k].block_read))'
    <3>1. /\ WellFormed(Stored(d)[k])
          /\ Stored(d)[k].offset = cur_offset
          /\ Stored(d)[k].index = k
          /\ Stored(d)[k].block_read = d.block_read
      BY <1>1, StoredFacts
    <3>. HIDE DEF Stored
    <3>2. WellFormed(held[k])'
      BY <1>1, <3>1 DEF WellFormed, DataCount
    <3>3. (/\ held[k].offset = cur_offset
           /\ held[k].index = k)'
      BY <1>1, <3>1
    <3>4. (~isAllOK(DOMAIN held, held[k].block_read))'
      BY <1>1, <3>1 DEF isAllOK
    <3>. QED
      BY <3>2, <3>3, <3>4
  <2>2. OutputIsPrefix'
    BY <1>1 DEF IInv, ReceiverInv, OutputIsPrefix, DataCount
  <2>3. Receiving' => cur_offset' = Len(out') * MAX_DATA_SIZE
    BY <1>1, <1>2 DEF IInv, ReceiverInv
  <2>. QED
    BY <1>2, <2>1, <2>2, <2>3 DEF ReceiverInv
<1>6. /\ d.offset = cur_offset
      /\ d.offset + d.index * MAX_DATA_SIZE <= fileSize
  BY DatagramFacts DEF IsExpected
<1>7. Received(d.offset, d.index)'
  BY <1>1, <1>3, <1>6 DEF Received
<1>8. ASSUME NEW a \in ackNet'
      PROVE  \/ a \in ackNet
             \/ /\ Received(a.offset, a.index)'
                /\ a.offset + a.index * MAX_DATA_SIZE <= fileSize
  BY <1>1, <1>6, <1>7 DEF AckOf
<1>9. /\ (spc' = "load") <=> (spc = "load")
      /\ spc' # "done" => finished' = finished /\ spc # "done"
  BY <1>2
<1>. QED
  BY <1>1, <1>2, <1>4, <1>5, <1>8, <1>9, Quiet

-----------------------------------------------------------------------------
(* The datagram that completes a batch                                     *)

\* What such a step does to the receiver.
LEMMA CompleteStep ==
  ASSUME IInv, NEW d \in dataNet, ReceiveData(d), IsExpected(d),
         isAllOK(DOMAIN Stored(d), d.block_read)
  PROVE  /\ UNCHANGED <<fileSize, senderVars, sockErr>>
         /\ held' = <<>> /\ cur_offset' = d.next_offset
         /\ Receiving /\ (Receiving' <=> ~d.eof)
         /\ rpc' = IF d.eof THEN "closing" ELSE "listening"
         /\ dataNet' \subseteq dataNet
         /\ ackNet' = ackNet \cup (IF d.eof THEN {} ELSE {AckOf(d)})
         /\ out' = out \o [j \in 1..d.block_read |->
                            Payload(Stored(d)[j - 1])]
<1>1. 0 \in DOMAIN Stored(d)
  <2>1. 0 \in 0..(d.block_read - 1)
    BY DatagramFacts
  <2>. QED
    BY <2>1 DEF isAllOK
<1>2. Stored(d)[0].eof = d.eof /\ d.eof \in BOOLEAN
  BY <1>1, StoredFacts, DatagramFacts
<1>. HIDE DEF Stored
<1>3. rpc = "listening" /\ rpc' = IF d.eof THEN "closing" ELSE "listening"
  BY <1>2 DEF ReceiveData
<1>4. Receiving /\ (Receiving' <=> ~d.eof)
  BY <1>2, <1>3 DEF Receiving
<1>5. ackNet' = ackNet \cup (IF d.eof THEN {} ELSE {AckOf(d)})
  BY <1>2 DEF ReceiveData, Reply
<1>. QED
  BY <1>3, <1>4, <1>5 DEF ReceiveData, AfterReset

\* The batch is the file's next one, block after block.
LEMMA CompleteOutput ==
  ASSUME IInv, NEW d \in dataNet, ReceiveData(d), IsExpected(d),
         isAllOK(DOMAIN Stored(d), d.block_read)
  PROVE  /\ Len(out) \in Nat
         /\ d.offset = Len(out) * MAX_DATA_SIZE
         /\ Len(out') = Len(out) + d.block_read
         /\ OutputIsPrefix'
         /\ \A pos : Written(pos) => Written(pos)'
         /\ \A k \in 0..(d.block_read - 1) :
              Written(d.offset + k * MAX_DATA_SIZE)'
<1>. DEFINE n     == d.block_read
            S     == [pos : Nat, size : 0..MAX_DATA_SIZE]
            batch == [j \in 1..n |-> Payload(Stored(d)[j - 1])]
            L     == Len(out)
<1>1. /\ n \in Nat /\ MAX_DATA_SIZE \in Nat \ {0} /\ fileSize \in Nat
      /\ d.offset = cur_offset
  BY DatagramFacts DEF IsExpected
<1>2. Receiving /\ fileSize' = fileSize /\ out' = out \o batch
  BY CompleteStep
<1>3. out \in Seq(S) /\ L \in Nat
  BY LenProperties DEF IInv, TypeOK
<1>4. d.offset = L * MAX_DATA_SIZE
  BY <1>1, <1>2 DEF IInv, ReceiverInv
<1>5. ASSUME NEW j \in 1..n
      PROVE  /\ batch[j] \in S
             /\ batch[j] = [pos  |-> d.offset + (j - 1) * MAX_DATA_SIZE,
                            size |-> DataCount(d.offset + (j - 1) * MAX_DATA_SIZE)]
  <2>1. j - 1 \in 0..(n - 1)
    BY <1>1
  <2>2. j - 1 \in DOMAIN Stored(d)
    BY <2>1 DEF isAllOK
  <2>. DEFINE e == Stored(d)[j - 1]
  <2>3. /\ e \in Datagram /\ WellFormed(e)
        /\ e.offset = d.offset /\ e.index = j - 1
    BY <1>1, <2>2, StoredFacts
  <2>4. batch[j] = [pos |-> e.pos, size |-> e.size]
    BY DEF Payload
  <2>. HIDE DEF e, batch
  <2>. QED
    BY <2>3, <2>4 DEF WellFormed, Datagram
<1>6. batch \in [1..n -> S]
  BY <1>5
<1>. HIDE DEF batch, S
<1>7. /\ Len(out') = L + n
      /\ \A i \in 1..L : out'[i] = out[i]
      /\ \A i \in 1..n : out'[L + i] = batch[i]
  <2>. HIDE DEF n
  <2>1. n \in Nat /\ out \in Seq(S) /\ batch \in [1..n -> S]
    BY <1>1, <1>3, <1>6
  <2>2. /\ Len(out \o batch) = L + n
        /\ \A i \in 1..L : (out \o batch)[i] = out[i]
        /\ \A i \in 1..n : (out \o batch)[L + i] = batch[i]
    BY <2>1, AppendBatch
  <2>. QED
    BY <1>2, <2>2
<1>8. ASSUME NEW i \in 1..L
      PROVE  out[i] = [pos  |-> (i - 1) * MAX_DATA_SIZE,
                       size |-> DataCount((i - 1) * MAX_DATA_SIZE)]
  <2>1. OutputIsPrefix
    BY DEF IInv, ReceiverInv
  <2>. QED
    BY <2>1, Zenon DEF OutputIsPrefix
<1>. HIDE DEF n, L
<1>9. ASSUME NEW i \in 1..Len(out')
      PROVE  out'[i] = [pos  |-> (i - 1) * MAX_DATA_SIZE,
                        size |-> DataCount((i - 1) * MAX_DATA_SIZE)]
  <2>1. CASE i \in 1..L
    BY <1>7, <1>8, <2>1
  <2>2. CASE i \notin 1..L
    <3>1. i - L \in 1..n /\ i = L + (i - L)
      BY <1>1, <1>3, <1>7, <2>2
    <3>2. out'[i] = batch[i - L]
      BY <1>7, <3>1
    <3>3. d.offset + ((i - L) - 1) * MAX_DATA_SIZE = (i - 1) * MAX_DATA_SIZE
      BY <1>1, <1>3, <1>4, <3>1
    <3>. QED
      BY <1>5, <3>1, <3>2, <3>3
  <2>. QED
    BY <2>1, <2>2
<1>10. OutputIsPrefix'
  BY <1>2, <1>9 DEF OutputIsPrefix, DataCount
<1>11. 1..L \subseteq 1..Len(out')
  BY <1>1, <1>3, <1>7
<1>12. ASSUME NEW pos, Written(pos) PROVE Written(pos)'
  <2>1. PICK i \in 1..L : out[i].pos = pos
    BY <1>12 DEF Written, L
  <2>2. i \in 1..Len(out') /\ out'[i].pos = pos
    BY <1>7, <1>11, <2>1
  <2>. QED
    BY <2>2 DEF Written
<1>13. ASSUME NEW k \in 0..(n - 1)
       PROVE  Written(d.offset + k * MAX_DATA_SIZE)'
  <2>1. k + 1 \in 1..n /\ L + (k + 1) \in 1..Len(out') /\ (k + 1) - 1 = k
    BY <1>1, <1>3, <1>7
  <2>2. batch[k + 1] = [pos |-> d.offset + ((k + 1) - 1) * MAX_DATA_SIZE,
           size |-> DataCount(d.offset + ((k + 1) - 1) * MAX_DATA_SIZE)]
    BY <1>5, <2>1
  <2>3. out'[L + (k + 1)].pos = d.offset + k * MAX_DATA_SIZE
    BY <1>7, <2>1, <2>2
  <2>. QED
    BY <2>1, <2>3 DEF Written
<1>. QED
  BY <1>3, <1>4, <1>7, <1>10, <1>12, <1>13 DEF n, L

\* The batch completed is the one the sender is still working on, and the
\* block that completes it has not been acknowledged.
LEMMA CompleteIsCurrent ==
  ASSUME IInv, NEW d \in dataNet, ReceiveData(d), IsExpected(d),
         ~isAllOK(DOMAIN held, d.block_read),
         isAllOK(DOMAIN Stored(d), d.block_read)
  PROVE  /\ spc # "load"
         /\ d.offset = GBN_buf[0].offset
         /\ d.block_read = block_read
         /\ d.eof = LastBatch
         /\ d.next_offset = offset
         /\ ~Received(d.offset, d.index)
<1>. DEFINE base == GBN_buf[0].offset
            n    == d.block_read
<1>1. /\ MAX_DATA_SIZE \in Nat \ {0} /\ GO_BACK_N \in Nat
      /\ fileSize \in Nat /\ cur_offset \in Nat /\ offset \in Nat
      /\ d \in Datagram /\ WellFormed(d)
      /\ d.offset \in Nat /\ d.index \in Nat
      /\ n \in Nat /\ n \in 1..GO_BACK_N
  BY DatagramFacts
<1>2. d.offset = cur_offset /\ Receiving /\ TypeOK /\ ReceiverInv
  BY CompleteStep DEF IsExpected, IInv
<1>3. spc # "load"
  <2>1. spc = "load" => cur_offset = offset /\ d.offset < offset
    BY DEF IInv, SenderInv, NetInv
  <2>. QED
    BY <1>1, <1>2, <2>1
<1>4. /\ block_read > 0 /\ BatchInv
      /\ LastBatch \/ block_read = GO_BACK_N
      /\ offset = IF LastBatch THEN fileSize
                  ELSE base + block_read * MAX_DATA_SIZE
      /\ BatchOpen \/ BatchComplete
  BY <1>3 DEF IInv, SenderInv
<1>5. block_read \in 1..GO_BACK_N /\ base \in Nat
  <2>1. block_read \in 1..GO_BACK_N /\ GBN_buf \in [0..(block_read - 1) -> Block]
    BY <1>1, <1>2, <1>4 DEF TypeOK
  <2>2. GBN_buf[0] \in Block
    BY <1>1, <2>1
  <2>. QED
    BY <2>1, <2>2 DEF Block
<1>6. d.offset = base
  <2>1. d.offset <= base
    BY <1>3 DEF IInv, NetInv
  <2>2. BatchComplete => base < offset /\ cur_offset = offset
    BY <1>2 DEF BatchComplete
  <2>3. ~BatchComplete
    BY <1>1, <1>2, <1>5, <2>1, <2>2
  <2>. QED
    BY <1>2, <1>4, <2>3 DEF BatchOpen
<1>7. n = block_read
  <2>1. /\ base + (block_read - 1) * MAX_DATA_SIZE <= fileSize
        /\ fileSize < base + block_read * MAX_DATA_SIZE \/ block_read = GO_BACK_N
    BY <1>4 DEF BatchInv, LastBatch
  <2>2. /\ base + (n - 1) * MAX_DATA_SIZE <= fileSize
        /\ fileSize < base + n * MAX_DATA_SIZE \/ n = GO_BACK_N
    BY <1>1, <1>6 DEF WellFormed
  <2>. HIDE DEF base, n
  <2>. QED
    BY <1>1, <1>5, <2>1, <2>2, BatchCount
<1>8. d.eof = LastBatch
  BY <1>1, <1>6, <1>7 DEF WellFormed, LastBatch
<1>9. d.next_offset = offset
  BY <1>1, <1>4, <1>6, <1>7, <1>8 DEF WellFormed
<1>10. d.index \notin DOMAIN held
  <2>. SUFFICES ASSUME d.index \in DOMAIN held PROVE FALSE
    OBVIOUS
  <2>1. DOMAIN Stored(d) = DOMAIN held
    BY DEF Stored
  <2>. QED
    BY <2>1
<1>11. ~Received(d.offset, d.index)
  <2>1. ~Written(cur_offset + d.index * MAX_DATA_SIZE)
    BY <1>1, <1>2, NotWritten
  <2>. QED
    BY <1>2, <1>10, <2>1 DEF Received
<1>. QED
  BY <1>3, <1>6, <1>7, <1>8, <1>9, <1>11

LEMMA ReceiveBatchStep ==
  ASSUME IInv, TypeOK', NEW d \in dataNet, ReceiveData(d), IsExpected(d),
         isAllOK(DOMAIN Stored(d), d.block_read)
  PROVE  IInv'
<1>. DEFINE base == GBN_buf[0].offset
            n    == d.block_read
<1>1. /\ MAX_DATA_SIZE \in Nat \ {0} /\ GO_BACK_N \in Nat
      /\ fileSize \in Nat /\ d \in Datagram /\ WellFormed(d)
      /\ d.offset \in Nat /\ d.index \in Nat
      /\ n \in Nat /\ n \in 1..GO_BACK_N
      /\ d.offset + d.index * MAX_DATA_SIZE <= fileSize
      /\ d.offset = cur_offset
  BY DatagramFacts DEF IsExpected
<1>2. /\ UNCHANGED <<fileSize, senderVars, sockErr>>
      /\ held' = <<>> /\ cur_offset' = d.next_offset
      /\ Receiving /\ (Receiving' <=> ~d.eof)
      /\ dataNet' \subseteq dataNet
      /\ ackNet' = ackNet \cup (IF d.eof THEN {} ELSE {AckOf(d)})
  BY CompleteStep
<1>3. /\ Len(out) \in Nat
      /\ d.offset = Len(out) * MAX_DATA_SIZE
      /\ Len(out') = Len(out) + n
      /\ OutputIsPrefix'
      /\ \A pos : Written(pos) => Written(pos)'
      /\ \A k \in 0..(n - 1) : Written(d.offset + k * MAX_DATA_SIZE)'
  BY CompleteOutput
<1>4. ASSUME NEW k \in DOMAIN held
      PROVE  k \in 0..(n - 1)
             /\ held[k].block_read = n /\ ~isAllOK(DOMAIN held, n)
  <2>1. /\ held[k] \in Datagram /\ WellFormed(held[k])
        /\ held[k].offset = cur_offset /\ held[k].index = k
        /\ ~isAllOK(DOMAIN held, held[k].block_read)
    BY DEF IInv, ReceiverInv, TypeOK
  <2>2. held[k].block_read = n
    BY <1>1, <2>1, SameBatch
  <2>3. k \in Nat /\ k < n
    BY <1>1, <2>1, <2>2 DEF WellFormed, Datagram, Index
  <2>. QED
    BY <1>1, <2>1, <2>2, <2>3
<1>5. /\ spc # "load"
      /\ d.offset = base
      /\ n = block_read
      /\ d.eof = LastBatch
      /\ d.next_offset = offset
      /\ ~Received(d.offset, d.index)
  <2>1. ~isAllOK(DOMAIN held, n)
    <3>1. CASE DOMAIN held = {}
      <4>1. 0 \in 0..(n - 1)
        BY <1>1
      <4>. QED
        BY <3>1, <4>1 DEF isAllOK
    <3>2. CASE DOMAIN held # {}
      BY <1>4, <3>2
    <3>. QED
      BY <3>1, <3>2
  <2>. QED
    BY <2>1, CompleteIsCurrent
<1>6. ASSUME NEW o, NEW k, Received(o, k)
      PROVE  Received(o, k)'
  <2>1. CASE cur_offset = o /\ k \in DOMAIN held
    <3>1. Written(o + k * MAX_DATA_SIZE)'
      BY <1>1, <1>3, <1>4, <2>1
    <3>. QED
      BY <3>1 DEF Received
  <2>2. CASE Written(o + k * MAX_DATA_SIZE)
    BY <1>3, <2>2 DEF Received
  <2>. QED
    BY <1>6, <2>1, <2>2 DEF Received
<1>7. ReceiverInv'
  <2>1. d.eof => fileSize < Len(out') * MAX_DATA_SIZE
    <3>1. d.eof => fileSize < d.offset + n * MAX_DATA_SIZE
      BY <1>1 DEF WellFormed
    <3>2. d.offset + n * MAX_DATA_SIZE = Len(out') * MAX_DATA_SIZE
      BY <1>1, <1>3
    <3>. QED
      BY <3>1, <3>2
  <2>2. ~d.eof => cur_offset' = Len(out') * MAX_DATA_SIZE
    <3>1. ~d.eof => cur_offset' = d.offset + n * MAX_DATA_SIZE
      BY <1>1, <1>2 DEF WellFormed
    <3>2. d.offset + n * MAX_DATA_SIZE = Len(out') * MAX_DATA_SIZE
      BY <1>1, <1>3
    <3>. QED
      BY <3>1, <3>2
  <2>3. DOMAIN held' = {}
    BY <1>2
  <2>. QED
    BY <1>2, <1>3, <2>1, <2>2, <2>3 DEF ReceiverInv, Delivered
<1>8. /\ UNCHANGED <<offset, GBN_buf, block_read, check, spc, finished>>
      /\ fileSize' = fileSize /\ LastBatch' = LastBatch
  BY <1>2 DEF senderVars, LastBatch
<1>9. BatchComplete'
  <2>1. LastBatch => Unanswered'
    <3>. SUFFICES ASSUME LastBatch PROVE Unanswered'
      OBVIOUS
    <3>1. d.index \in 0..(block_read - 1)
      BY <1>1, <1>5 DEF WellFormed
    <3>2. d.index \notin check
      BY <1>1, <1>5 DEF IInv, SenderInv, BatchInv
    <3>3. [offset |-> base, index |-> d.index] \notin ackNet
      BY <1>5 DEF IInv, NetInv
    <3>4. ackNet' = ackNet
      BY <1>2, <1>5
    <3>. QED
      BY <1>8, <3>1, <3>2, <3>3, <3>4 DEF Unanswered
  <2>2. ~LastBatch => base < offset
    <3>1. SenderInv
      BY DEF IInv
    <3>2. ~LastBatch => offset = base + block_read * MAX_DATA_SIZE
      BY <1>5, <3>1 DEF SenderInv
    <3>3. 0 * MAX_DATA_SIZE + MAX_DATA_SIZE <= n * MAX_DATA_SIZE
      BY <1>1, MulStep
    <3>4. 0 < n * MAX_DATA_SIZE /\ n * MAX_DATA_SIZE \in Nat
      BY <1>1, <3>3
    <3>. QED
      BY <1>1, <1>5, <3>2, <3>4
  <2>3. \A k \in 0..(block_read' - 1) :
          (Written(GBN_buf[0].offset + k * MAX_DATA_SIZE))'
    BY <1>3, <1>5, <1>8
  <2>4. cur_offset' = offset'
    BY <1>2, <1>5, <1>8
  <2>. QED
    BY <1>2, <1>5, <1>8, <2>1, <2>2, <2>3, <2>4 DEF BatchComplete
<1>10. SenderInv'
  <2>1. BatchInv => BatchInv'
    BY <1>6, <1>8 DEF BatchInv, DataCount
  <2>2. SenderInv
    BY DEF IInv
  <2>. QED
    BY <1>5, <1>8, <1>9, <2>1, <2>2 DEF SenderInv
<1>11. NetInv'
  <2>1. ASSUME NEW e \in dataNet'
        PROVE  /\ WellFormed(e)'
               /\ (Receiving' /\ e.offset = cur_offset') \/ Written(e.pos)'
               /\ IF spc' = "load" THEN e.offset < offset'
                                   ELSE e.offset <= GBN_buf'[0].offset
    <3>1. /\ WellFormed(e) /\ e \in Datagram
          /\ e.offset = cur_offset \/ Written(e.pos)
          /\ e.offset <= base
      BY <1>2, <1>5 DEF IInv, NetInv, TypeOK
    <3>2. WellFormed(e)'
      BY <1>8, <3>1 DEF WellFormed, DataCount
    <3>3. CASE e.offset = cur_offset
      <4>1. e.block_read = n
        BY <1>1, <3>1, <3>3, SameBatch
      <4>2. e.index \in 0..(n - 1) /\ e.pos = d.offset + e.index * MAX_DATA_SIZE
        BY <1>1, <3>1, <3>3, <4>1 DEF WellFormed, Datagram, Index
      <4>3. Written(e.pos)'
        BY <1>3, <4>2
      <4>. QED
        BY <1>5, <1>8, <3>1, <3>2, <4>3
    <3>4. CASE Written(e.pos)
      BY <1>3, <1>5, <1>8, <3>1, <3>2, <3>4
    <3>. QED
      BY <3>1, <3>3, <3>4
  <2>2. Received(d.offset, d.index)'
    <3>1. d.index \in 0..(n - 1)
      BY <1>1 DEF WellFormed
    <3>2. Written(d.offset + d.index * MAX_DATA_SIZE)'
      BY <1>3, <3>1
    <3>. QED
      BY <3>2 DEF Received
  <2>3. ASSUME NEW a \in ackNet'
        PROVE  /\ Received(a.offset, a.index)'
               /\ a.offset + a.index * MAX_DATA_SIZE <= fileSize'
    <3>1. CASE a \in ackNet
      BY <1>6, <1>8, <3>1 DEF IInv, NetInv
    <3>2. CASE a = AckOf(d)
      BY <1>1, <1>8, <2>2, <3>2 DEF AckOf
    <3>. QED
      BY <1>2, <3>1, <3>2
  <2>. QED
    BY <2>1, <2>3 DEF NetInv
<1>. QED
  BY <1>7, <1>10, <1>11 DEF IInv

-----------------------------------------------------------------------------
(* The theorems                                                            *)

LEMMA InvInit == Init => IInv
<1>. SUFFICES ASSUME Init PROVE IInv
  OBVIOUS
<1>1. TypeOK
  BY TypeInit
<1>2. /\ dataNet = {} /\ ackNet = {} /\ check = {} /\ block_read = 0
      /\ offset = 0 /\ cur_offset = 0 /\ out = <<>> /\ Len(out) = 0
      /\ DOMAIN held = {} /\ spc = "load" /\ finished = FALSE
      /\ rpc \in ReceiverStarts
  BY DEF Init
<1>3. Receiving
  BY <1>2, TransferAssumption DEF Receiving
<1>4. 0 = 0 * MAX_DATA_SIZE
  BY TransferAssumption
<1>5. ReceiverInv
  BY <1>2, <1>3, <1>4 DEF ReceiverInv, OutputIsPrefix
<1>6. NetInv
  BY <1>2 DEF NetInv
<1>7. SenderInv
  BY <1>2, <1>3 DEF SenderInv
<1>. QED
  BY <1>1, <1>5, <1>6, <1>7 DEF IInv

LEMMA InvStep == IInv /\ [Next]_vars => IInv'
<1>. SUFFICES ASSUME IInv, [Next]_vars PROVE IInv'
  OBVIOUS
<1>1. TypeOK'
  BY TypeStep DEF IInv
<1>2. CASE Load
  BY <1>1, <1>2, LoadStep
<1>3. ASSUME NEW k \in Index, SendBlock(k) PROVE IInv'
  BY <1>1, <1>3, SendBlockStep
<1>4. ASSUME NEW a \in ackNet, ReceiveAck(a) PROVE IInv'
  BY <1>1, <1>4, ReceiveAckStep
<1>5. ASSUME NEW d \in dataNet, ReceiveData(d) PROVE IInv'
  <2>1. CASE ~IsExpected(d)
    BY <1>1, <1>5, <2>1, ReceiveOtherStep
  <2>2. CASE IsExpected(d) /\ ~isAllOK(DOMAIN Stored(d), d.block_read)
    BY <1>1, <1>5, <2>2, ReceivePartStep
  <2>3. CASE IsExpected(d) /\ isAllOK(DOMAIN Stored(d), d.block_read)
    BY <1>1, <1>5, <2>3, ReceiveBatchStep
  <2>. QED
    BY <2>1, <2>2, <2>3
<1>6. ASSUME \/ Timeout \/ ReadError \/ Bind \/ CloseSocket \/ Exit
             \/ UNCHANGED vars
             \/ \E d \in dataNet : LoseData(d) \/ Bounce(d)
             \/ \E a \in ackNet : LoseAck(a)
      PROVE  IInv'
  BY <1>1, <1>6, QuietSteps
<1>. QED
  BY <1>2, <1>3, <1>4, <1>5, <1>6 DEF Next, Sender, Receiver, Network

\* The inductive invariant: batch, messages and the receiver's batch and file
\* agree in every reachable state, wherever the receiver starts.
THEOREM Invariant == Spec => []IInv
  BY InvInit, InvStep, PTL DEF Spec

\* What the receiver writes is always the beginning of the sender's file,
\* under any loss, duplication and reordering.
THEOREM OutputCorrect == Spec => []OutputIsPrefix
<1>1. IInv => OutputIsPrefix
  BY DEF IInv, ReceiverInv
<1>. QED
  BY <1>1, Invariant, PTL

\* The sender's marks are true: each marked block is with the receiver.
THEOREM AckedCorrect == Spec => []AckedIsHeld
<1>1. IInv => AckedIsHeld
  <2>. SUFFICES ASSUME IInv, NEW k \in check
                PROVE  /\ k < block_read
                       /\ \/ /\ k \in DOMAIN held
                             /\ Payload(held[k]) = Payload(GBN_buf[k])
                             /\ cur_offset = GBN_buf[0].offset
                          \/ \E j \in 1..Len(out) :
                               out[j] = Payload(GBN_buf[k])
    BY DEF AckedIsHeld
  <2>. DEFINE base == GBN_buf[0].offset
              pos  == base + k * MAX_DATA_SIZE
  <2>1. block_read \in Nat /\ k \in Nat
    BY TransferAssumption DEF IInv, TypeOK, Index
  <2>2. BatchInv
    BY <2>1 DEF IInv, SenderInv
  <2>3. /\ k < block_read /\ k \in 0..(block_read - 1)
        /\ Received(base, k)
    <3>1. k < block_read /\ Received(base, k)
      BY <2>2, Zenon DEF BatchInv
    <3>. QED
      BY <2>1, <3>1
  <2>4. Payload(GBN_buf[k]) = [pos |-> pos, size |-> DataCount(pos)]
    <3>1. GBN_buf[k] = [offset |-> base, index |-> k, pos |-> pos,
                        size |-> DataCount(pos)]
      BY <2>2, <2>3, Zenon DEF BatchInv
    <3>. QED
      BY <3>1 DEF Payload
  <2>. HIDE DEF base
  <2>5. CASE cur_offset = base /\ k \in DOMAIN held
    <3>1. /\ WellFormed(held[k]) /\ held[k].offset = base
          /\ held[k].index = k
      BY <2>5 DEF IInv, ReceiverInv
    <3>2. Payload(held[k]) = [pos |-> pos, size |-> DataCount(pos)]
      BY <3>1 DEF Payload, WellFormed
    <3>. QED
      BY <2>3, <2>4, <2>5, <3>2 DEF base
  <2>6. CASE Written(pos)
    <3>1. PICK j \in 1..Len(out) : out[j].pos = pos
      BY <2>6 DEF Written
    <3>2. OutputIsPrefix
      BY DEF IInv, ReceiverInv
    <3>3. out[j] = [pos  |-> (j - 1) * MAX_DATA_SIZE,
                    size |-> DataCount((j - 1) * MAX_DATA_SIZE)]
      BY <3>2, Zenon DEF OutputIsPrefix
    <3>4. out[j] = Payload(GBN_buf[k])
      BY <2>4, <3>1, <3>3
    <3>. QED
      BY <2>3, <3>4
  <2>. QED
    BY <2>3, <2>5, <2>6 DEF Received
<1>. QED
  BY <1>1, Invariant, PTL

\* The sender leaves its loop only by an error of its socket, never because
\* its last batch is acknowledged.
THEOREM EndsByError == Spec => EndsOnlyByError
<1>1. IInv /\ [Next]_vars => [spc # "done" /\ spc' = "done" => sockErr]_vars
  <2>. SUFFICES ASSUME IInv, Next, spc # "done", spc' = "done" PROVE sockErr
    OBVIOUS
  <2>1. CASE Load
    BY <2>1 DEF Load
  <2>2. ASSUME NEW k \in Index, SendBlock(k) PROVE FALSE
    BY <2>2 DEF SendBlock
  <2>3. ASSUME NEW a \in ackNet, ReceiveAck(a) PROVE FALSE
    <3>1. TypeOK'
      BY TypeStep DEF IInv
    <3>. QED
      BY <2>3, <3>1, ReceiveAckStep
  <2>4. CASE Timeout
    BY <2>4 DEF Timeout, AfterTimeout
  <2>5. CASE ReadError
    BY <2>5 DEF ReadError
  <2>6. CASE Receiver
    BY <2>6 DEF Receiver, Bind, CloseSocket, Exit, ReceiveData, senderVars
  <2>7. CASE Network
    BY <2>7 DEF Network, LoseData, LoseAck, Bounce, senderVars
  <2>. QED
    BY <2>1, <2>2, <2>3, <2>4, <2>5, <2>6, <2>7 DEF Next, Sender
<1>. QED
  BY <1>1, Invariant, PTL DEF Spec, EndsOnlyByError

-----------------------------------------------------------------------------
(* The receiver is bound before the sender starts                          *)

\* An error is pending on the sender's socket only when the receiver has
\* closed its own, and the sender is done only after such an error.
BoundInv ==
  /\ rpc # "unbound"
  /\ sockErr => rpc \in {"closed", "exited"}
  /\ spc = "done" => rpc \in {"closed", "exited"}

LEMMA BoundStep == IInv /\ BoundInv /\ [Next]_vars => BoundInv'
<1>. SUFFICES ASSUME IInv, BoundInv, [Next]_vars PROVE BoundInv'
  OBVIOUS
<1>. USE DEF BoundInv, senderVars, receiverVars, netVars
<1>1. CASE Load
  BY <1>1 DEF Load
<1>2. CASE Timeout
  BY <1>2 DEF Timeout, AfterTimeout
<1>3. CASE ReadError
  BY <1>3 DEF ReadError
<1>4. ASSUME NEW k \in Index, SendBlock(k) PROVE BoundInv'
  BY <1>4 DEF SendBlock
<1>5. ASSUME NEW a \in ackNet, ReceiveAck(a) PROVE BoundInv'
  <2>1. TypeOK'
    BY TypeStep DEF IInv
  <2>2. spc' # "done"
    BY <1>5, <2>1, ReceiveAckStep
  <2>. QED
    BY <1>5, <2>2 DEF ReceiveAck
<1>6. CASE Bind
  BY <1>6 DEF Bind
<1>7. CASE CloseSocket
  BY <1>7 DEF CloseSocket
<1>8. CASE Exit
  BY <1>8 DEF Exit
<1>9. ASSUME NEW d \in dataNet, ReceiveData(d) PROVE BoundInv'
  BY <1>9 DEF ReceiveData
<1>10. ASSUME NEW d \in dataNet, LoseData(d) \/ Bounce(d) PROVE BoundInv'
  BY <1>10 DEF LoseData, Bounce, PortClosed
<1>11. ASSUME NEW a \in ackNet, LoseAck(a) PROVE BoundInv'
  BY <1>11 DEF LoseAck
<1>12. CASE UNCHANGED vars
  BY <1>12 DEF vars
<1>. QED
  BY <1>1, <1>2, <1>3, <1>4, <1>5, <1>6, <1>7, <1>8, <1>9, <1>10, <1>11,
     <1>12 DEF Next, Sender, Receiver, Network

\* If the receiver is bound when the sender starts, a sender that terminates
\* leaves a receiver that has written the whole file.
THEOREM DoneDelivered ==
  ASSUME ReceiverStarts = {"listening"}
  PROVE  Spec => []DoneImpliesDelivered
<1>1. Init => BoundInv
  BY DEF Init, BoundInv
<1>2. IInv /\ BoundInv => DoneImpliesDelivered
  BY DEF IInv, BoundInv, ReceiverInv, Receiving, DoneImpliesDelivered
<1>. QED
  BY <1>1, <1>2, BoundStep, Invariant, PTL DEF Spec

\* The transfer implements the copy of a file in whole batches.
THEOREM Refinement ==
  ASSUME ReceiverStarts = {"listening"}
  PROVE  Spec => CopySpec
<1>1. Init => Copy!Init
  BY DEF Init, Copy!Init
<1>2. Init => BoundInv
  BY DEF Init, BoundInv
<1>3. IInv /\ BoundInv /\ [Next]_vars => [Copy!Next]_(Copy!vars)
  <2>. SUFFICES ASSUME IInv, BoundInv, [Next]_vars
                PROVE  Copy!Next \/ UNCHANGED Copy!vars
    OBVIOUS
  <2>. USE DEF Copy!vars, senderVars, receiverVars, netVars
  <2>1. CASE ReadError
    BY <2>1 DEF ReadError, AfterError, BoundInv, Copy!Next, Copy!SenderFinishes
  <2>2. ASSUME NEW d \in dataNet, ReceiveData(d), IsExpected(d),
               isAllOK(DOMAIN Stored(d), d.block_read)
        PROVE  Copy!Next
    <3>. DEFINE n == d.block_read
                L == Len(out)
    <3>1. /\ n \in Nat /\ n \in 1..GO_BACK_N /\ MAX_DATA_SIZE \in Nat \ {0}
          /\ fileSize \in Nat /\ WellFormed(d) /\ d.eof \in BOOLEAN
          /\ GO_BACK_N \in Nat
      BY DatagramFacts
    <3>2. /\ fileSize' = fileSize /\ spc' = spc /\ Receiving
          /\ rpc' = IF d.eof THEN "closing" ELSE "listening"
      BY <2>2, CompleteStep
    <3>3. /\ L \in Nat /\ d.offset = L * MAX_DATA_SIZE
          /\ Len(out') = L + n /\ OutputIsPrefix'
      BY <2>2, CompleteOutput
    <3>4. out' = [j \in 1..(L + n) |-> Copy!FileBlock(j)]
      <4>1. TypeOK'
        BY TypeStep DEF IInv
      <4>2. DOMAIN out' = 1..(L + n) /\ out' = [j \in DOMAIN out' |-> out'[j]]
        BY <3>3, <4>1, LenProperties DEF TypeOK
      <4>3. ASSUME NEW j \in 1..(L + n) PROVE out'[j] = Copy!FileBlock(j)
        <5>1. (out[j] = [pos  |-> (j - 1) * MAX_DATA_SIZE,
                         size |-> DataCount((j - 1) * MAX_DATA_SIZE)])'
          BY <3>3, Zenon DEF OutputIsPrefix
        <5>. QED
          BY <3>2, <5>1 DEF Copy!FileBlock, DataCount
      <4>. QED
        BY <4>2, <4>3
    <3>5. d.offset + n * MAX_DATA_SIZE = (L + n) * MAX_DATA_SIZE
          /\ d.offset + (n - 1) * MAX_DATA_SIZE = ((L + n) - 1) * MAX_DATA_SIZE
      BY <3>1, <3>3
    <3>6. CASE d.eof
      <4>1. /\ ((L + n) - 1) * MAX_DATA_SIZE <= fileSize
            /\ fileSize < (L + n) * MAX_DATA_SIZE
        BY <3>1, <3>5, <3>6 DEF WellFormed
      <4>2. L + n \in (L + 1)..(L + GO_BACK_N)
        BY <3>1, <3>3
      <4>3. Copy!CopyLastBatch
        BY <3>2, <3>4, <3>6, <4>1, <4>2 DEF Copy!CopyLastBatch, Receiving
      <4>. QED
        BY <4>3 DEF Copy!Next
    <3>7. CASE ~d.eof
      <4>0. n = GO_BACK_N /\ ~(fileSize < d.offset + n * MAX_DATA_SIZE)
        BY <3>1, <3>7 DEF WellFormed
      <4>1. n = GO_BACK_N /\ (L + GO_BACK_N) * MAX_DATA_SIZE <= fileSize
        <5>. DEFINE x == (L + n) * MAX_DATA_SIZE
        <5>1. x \in Int /\ ~(fileSize < x)
          BY <3>1, <3>3, <3>5, <4>0
        <5>. HIDE DEF x
        <5>2. x <= fileSize
          BY <3>1, <5>1
        <5>. QED
          BY <4>0, <5>2 DEF x
      <4>2. Copy!CopyBatch
        BY <3>2, <3>4, <3>7, <4>1 DEF Copy!CopyBatch, Receiving
      <4>. QED
        BY <4>2 DEF Copy!Next
    <3>. QED
      BY <3>1, <3>6, <3>7
  <2>3. ASSUME NEW d \in dataNet, ReceiveData(d),
               ~IsExpected(d) \/ ~isAllOK(DOMAIN Stored(d), d.block_read)
        PROVE  UNCHANGED Copy!vars
    BY <2>3 DEF ReceiveData
  <2>4. CASE Load
    BY <2>4 DEF Load
  <2>5. ASSUME NEW k \in Index, SendBlock(k) PROVE UNCHANGED Copy!vars
    BY <2>5 DEF SendBlock
  <2>6. ASSUME NEW a \in ackNet, ReceiveAck(a) PROVE UNCHANGED Copy!vars
    <3>1. TypeOK'
      BY TypeStep DEF IInv
    <3>2. spc' # "done"
      BY <2>6, <3>1, ReceiveAckStep
    <3>. QED
      BY <2>6, <3>2 DEF ReceiveAck
  <2>7. CASE Timeout
    BY <2>7 DEF Timeout, AfterTimeout
  <2>8. CASE Bind \/ CloseSocket \/ Exit
    BY <2>8 DEF Bind, CloseSocket, Exit
  <2>9. CASE Network
    BY <2>9 DEF Network, LoseData, LoseAck, Bounce
  <2>10. CASE UNCHANGED vars
    BY <2>10 DEF vars
  <2>. QED
    BY <2>1, <2>2, <2>3, <2>4, <2>5, <2>6, <2>7, <2>8, <2>9, <2>10
       DEF Next, Sender, Receiver
<1>. QED
  BY <1>1, <1>2, <1>3, BoundStep, Invariant, PTL
     DEF Spec, CopySpec, Copy!Spec

=============================================================================
