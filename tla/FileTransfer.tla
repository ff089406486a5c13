---------------------------- MODULE FileTransfer ----------------------------
(***************************************************************************)
(* The reliable file transfer over UDP of hw2: sender.cpp (the select      *)
(* build), receiver.cpp, the header of fileUDP.h, and the UDP sockets      *)
(* between them.                                                           *)
(*                                                                         *)
(* The sender reads the file in batches of at most GO_BACK_N blocks, sends *)
(* every block of the batch that is not acknowledged, and waits: an        *)
(* acknowledgement marks a block, a timeout sends the unmarked ones again. *)
(* The receiver collects the blocks of the batch whose offset it expects,  *)
(* writes the batch when it has all of them, acknowledges every datagram   *)
(* -- and leaves its loop without acknowledging the one that completes the *)
(* last batch.  The sender learns of the end from the error that the       *)
(* closed port raises on its connected socket.                             *)
(*                                                                         *)
(* Data are abstracted to their place in the file: a block is the position *)
(* and the number of its bytes.  The network (hw2/loss runs it with netem  *)
(* loss and jitter) loses, repeats and reorders datagrams.                 *)
(***************************************************************************)
EXTENDS Naturals, Sequences

CONSTANTS MAX_DATA_SIZE,   \* bytes of one block
          GO_BACK_N,       \* blocks of one batch
          FileSizes,       \* the sizes the file to send may have
          ReceiverStarts   \* states the receiver may be in when the sender starts

ASSUME TransferAssumption ==
  /\ MAX_DATA_SIZE \in Nat \ {0}
  /\ GO_BACK_N \in Nat \ {0}
  /\ FileSizes \subseteq Nat
  /\ ReceiverStarts \subseteq {"unbound", "listening"}

VARIABLES
  fileSize,    \* bytes of the sender's file, never changes
  spc,         \* the sender: "load", "send", "wait" or "done"
  offset,      \* bytes loaded so far, also block_offset of the next batch
  finished,    \* the last read met the end of the file
  GBN_buf,     \* the blocks of the current batch, by index
  block_read,  \* how many they are
  check,       \* indices of the current batch acknowledged so far
  next,        \* loop variable of the send loop
  sockErr,     \* pending error on the sender's connected socket
  rpc,         \* the receiver: "unbound", "listening", "closing", "closed", "exited"
  cur_offset,  \* offset of the batch the receiver expects
  held,        \* the receiver's GBN_buf at the indices its check marks
  out,         \* blocks written to the receiver's ofstream
  flushed,     \* how many of them have left the stream's buffer
  dataNet,     \* datagrams on their way to the receiver
  ackNet       \* acknowledgements on their way to the sender

senderVars   == <<spc, offset, finished, GBN_buf, block_read, check, next>>
receiverVars == <<rpc, cur_offset, held, out, flushed>>
netVars      == <<dataNet, ackNet>>
vars == <<fileSize, senderVars, sockErr, receiverVars, netVars>>

-----------------------------------------------------------------------------
(* Blocks, datagrams and acknowledgements                                  *)

Index == 0..(GO_BACK_N - 1)

Block    == [offset : Nat, index : Index, pos : Nat, size : 0..MAX_DATA_SIZE]
Datagram == [offset : Nat, index : Index, pos : Nat, size : 0..MAX_DATA_SIZE,
             eof : BOOLEAN, next_offset : Nat, block_read : 1..GO_BACK_N]
AckMsg   == [offset : Nat, index : Index]

\* What file.read and gcount() deliver at byte pos of the file.
DataCount(pos) ==
  IF pos + MAX_DATA_SIZE <= fileSize THEN MAX_DATA_SIZE ELSE fileSize - pos

\* Entry k of the batch being loaded.
LoadedBlock(k) ==
  LET pos == offset + k * MAX_DATA_SIZE
  IN  [offset |-> offset, index |-> k, pos |-> pos, size |-> DataCount(pos)]

\* The datagram for entry k: the header's last three fields are filled in
\* just before the write, from the state of the whole batch.
Frame(k) ==
  [offset |-> GBN_buf[k].offset, index |-> GBN_buf[k].index,
   pos |-> GBN_buf[k].pos, size |-> GBN_buf[k].size,
   eof |-> finished, next_offset |-> offset, block_read |-> block_read]

CountFromOne(d) == [offset |-> d.offset, index |-> d.index + 1]
AckOf(d) == [offset |-> d.offset, index |-> d.index]

Payload(d) == [pos |-> d.pos, size |-> d.size]

-----------------------------------------------------------------------------
Init ==
  /\ fileSize \in FileSizes
  /\ spc = "load" /\ offset = 0 /\ finished = FALSE
  /\ GBN_buf = <<>> /\ block_read = 0 /\ check = {} /\ next = 0
  /\ sockErr = FALSE
  /\ rpc \in ReceiverStarts
  /\ cur_offset = 0 /\ held = <<>> /\ out = <<>> /\ flushed = 0
  /\ dataNet = {} /\ ackNet = {}

-----------------------------------------------------------------------------
(* The sender                                                              *)

\* Loads the next batch: n reads, every one but the last surely full, the
\* loop stopping at GO_BACK_N blocks or at the read that meets the end.
Load ==
  /\ spc = "load"
  /\ \E n \in 1..GO_BACK_N :
       /\ offset + (n - 1) * MAX_DATA_SIZE <= fileSize
       /\ finished' = (fileSize < offset + n * MAX_DATA_SIZE)
       /\ n = GO_BACK_N \/ finished'
       /\ GBN_buf' = [k \in 0..(n - 1) |-> LoadedBlock(k)]
       /\ block_read' = n
       /\ offset' = IF finished' THEN fileSize ELSE offset + n * MAX_DATA_SIZE
  /\ check' = {}
  /\ next' = 0
  /\ spc' = "send"
  /\ UNCHANGED <<fileSize, sockErr, receiverVars, netVars>>

\* What the send loop still has to write in this pass.
Unsent == {j \in next..(block_read - 1) : j \notin check}

\* One write of the send loop.  A pending socket error makes the write fail
\* with that error, which clears it; the result is not looked at.
SendBlock(k) ==
  /\ spc = "send"
  /\ k \in Unsent
  /\ \A j \in Unsent : k <= j
  /\ dataNet' = IF sockErr THEN dataNet ELSE dataNet \cup {Frame(k)}
  /\ sockErr' = FALSE
  /\ next' = k + 1
  /\ spc' = IF Unsent = {k} THEN "wait" ELSE "send"
  /\ UNCHANGED <<fileSize, offset, finished, GBN_buf, block_read, check,
                 receiverVars, ackNet>>

GiveUpResending == "wait"
AfterTimeout == "send"

\* select returns 0: back to RESEND.
Timeout ==
  /\ spc = "wait"
  /\ ~sockErr
  /\ next' = 0
  /\ spc' = AfterTimeout
  /\ UNCHANGED <<fileSize, offset, finished, GBN_buf, block_read, check,
                 sockErr, receiverVars, netVars>>

AnyAckIsCurrent(a) == TRUE
IsCurrent(a) == a.offset = GBN_buf[0].offset

isAllOK(marked, maxCheck) == 0..(maxCheck - 1) \subseteq marked

\* Where a batch that is wholly marked leads: while(!finished).
StopAfterBatch == "done"
AfterBatch == IF finished THEN "done" ELSE "load"

\* select finds the socket readable and read returns acknowledgement a.
\* A header of another offset than the batch's marks nothing.
ReceiveAck(a) ==
  /\ spc = "wait"
  /\ ~sockErr
  /\ a \in ackNet
  /\ ackNet' \in {ackNet, ackNet \ {a}}
  /\ check' = IF IsCurrent(a) THEN check \cup {a.index} ELSE check
  /\ spc' = IF IsCurrent(a) /\ isAllOK(check', block_read)
            THEN AfterBatch ELSE "wait"
  /\ UNCHANGED <<fileSize, offset, finished, GBN_buf, block_read, next,
                 sockErr, receiverVars, dataNet>>

KeepWaiting == "wait"
AfterError == "done"

\* read reports the pending error: taken for the end of the transfer.
ReadError ==
  /\ spc = "wait"
  /\ sockErr
  /\ finished' = TRUE
  /\ sockErr' = FALSE
  /\ spc' = AfterError
  /\ UNCHANGED <<fileSize, offset, GBN_buf, block_read, check, next,
                 receiverVars, netVars>>

-----------------------------------------------------------------------------
(* The receiver                                                            *)

Bind ==
  /\ rpc = "unbound"
  /\ rpc' = "listening"
  /\ UNCHANGED <<fileSize, senderVars, sockErr, cur_offset, held, out, flushed,
                 netVars>>

AnyOffsetIsExpected(d) == TRUE
IsExpected(d) == d.offset = cur_offset

\* The receiver's buffer once the block of d is stored at its index.
Stored(d) ==
  [k \in DOMAIN held \cup {d.index} |-> IF k = d.index THEN d ELSE held[k]]

ForgetToReset(h) == h
AfterReset(h) == <<>>

\* The header sent back, unless the loop was left at the end of the file.
ReplyAlways(d, reachedEOF) == {AckOf(d)}
Reply(d, reachedEOF) == IF reachedEOF THEN {} ELSE {AckOf(d)}

\* One turn of the receiver's loop on datagram d.  The blocks of a complete
\* batch go to the stream, whose buffer may or may not pass them on.
ReceiveData(d) ==
  LET store      == IsExpected(d)
      h          == IF store THEN Stored(d) ELSE held
      complete   == store /\ isAllOK(DOMAIN h, d.block_read)
      reachedEOF == complete /\ h[0].eof
  IN  /\ rpc = "listening"
      /\ d \in dataNet
      /\ dataNet' \in {dataNet, dataNet \ {d}}
      /\ held' = IF complete THEN AfterReset(h) ELSE h
      /\ cur_offset' = IF complete THEN d.next_offset ELSE cur_offset
      /\ out' = IF complete
                THEN out \o [j \in 1..d.block_read |-> Payload(h[j - 1])]
                ELSE out
      /\ flushed' \in IF complete THEN flushed..Len(out') ELSE {flushed}
      /\ rpc' = IF reachedEOF THEN "closing" ELSE "listening"
      /\ ackNet' = ackNet \cup Reply(d, reachedEOF)
      /\ UNCHANGED <<fileSize, senderVars, sockErr>>

\* close(fd_self)
CloseSocket ==
  /\ rpc = "closing"
  /\ rpc' = "closed"
  /\ UNCHANGED <<fileSize, senderVars, sockErr, cur_offset, held, out, flushed,
                 netVars>>

\* main returns: only now does the destructor of the ofstream flush it.
Exit ==
  /\ rpc = "closed"
  /\ rpc' = "exited"
  /\ flushed' = Len(out)
  /\ UNCHANGED <<fileSize, senderVars, sockErr, cur_offset, held, out, netVars>>

-----------------------------------------------------------------------------
(* The network and the two kernels                                         *)

LoseData(d) ==
  /\ d \in dataNet
  /\ dataNet' = dataNet \ {d}
  /\ UNCHANGED <<fileSize, senderVars, sockErr, receiverVars, ackNet>>

LoseAck(a) ==
  /\ a \in ackNet
  /\ ackNet' = ackNet \ {a}
  /\ UNCHANGED <<fileSize, senderVars, sockErr, receiverVars, dataNet>>

PortClosed == rpc \in {"unbound", "closed", "exited"}

\* A datagram reaches a port nobody is bound to; the ICMP answer leaves an
\* error pending on the sender's socket, if that is still open.
Bounce(d) ==
  /\ PortClosed
  /\ d \in dataNet
  /\ dataNet' = dataNet \ {d}
  /\ sockErr' = (spc # "done")
  /\ UNCHANGED <<fileSize, senderVars, receiverVars, ackNet>>

-----------------------------------------------------------------------------
Sender   == \/ Load \/ Timeout \/ ReadError
            \/ \E k \in Index : SendBlock(k)
            \/ \E a \in ackNet : ReceiveAck(a)
Receiver == \/ Bind \/ CloseSocket \/ Exit
            \/ \E d \in dataNet : ReceiveData(d)
Network  == \/ \E d \in dataNet : LoseData(d) \/ Bounce(d)
            \/ \E a \in ackNet : LoseAck(a)

Next == Sender \/ Receiver \/ Network

Spec == Init /\ [][Next]_vars

-----------------------------------------------------------------------------
(* Fairness.  The two programs keep running, and a datagram that is in     *)
(* flight again and again is received at last (the loss is a rate, 5% in   *)
(* hw2/loss); an acknowledgement may get through while the sender still    *)
(* writes, and is read when it waits.                                      *)
(* The refusal of a datagram by a closed port may come back    *)
(* between two writes of the send loop, and the second write swallows it.  *)
(* Over a network, whose round trip is longer than the pass, refusals do   *)
(* not always come then (SlowRefusal); over the loopback device, where the *)
(* refusal is there when write returns, nothing better can be assumed than *)
(* that a datagram at a closed port is refused (PromptRefusal).            *)

BatchOffsets == {o \in UNION {0..n : n \in FileSizes} :
                   o % (GO_BACK_N * MAX_DATA_SIZE) = 0}

From(o, k, m) == m.offset = o /\ m.index = k

ProcessFairness ==
  /\ WF_vars(Load) /\ WF_vars(Timeout) /\ WF_vars(ReadError)
  /\ WF_vars(\E k \in Index : SendBlock(k))
  /\ WF_vars(Bind) /\ WF_vars(CloseSocket) /\ WF_vars(Exit)

NetworkFairness ==
  \A o \in BatchOffsets, k \in Index :
    /\ SF_vars(\E d \in dataNet : From(o, k, d) /\ ReceiveData(d))
    /\ []<>(spc # "done" /\ \E a \in ackNet : From(o, k, a)) =>
         []<><<\E a \in ackNet : From(o, k, a) /\ ReceiveAck(a)>>_vars

Refused == \E d \in dataNet : Bounce(d)

SlowRefusal ==
  []<>(PortClosed /\ dataNet # {}) => []<><<spc = "wait" /\ Refused>>_vars

PromptRefusal == WF_vars(Refused)

FairSpec == Spec /\ ProcessFairness /\ NetworkFairness /\ SlowRefusal

LoopbackSpec == Spec /\ ProcessFairness /\ NetworkFairness /\ PromptRefusal

-----------------------------------------------------------------------------
(* Properties                                                              *)

SenderStates   == {"load", "send", "wait", "done"}
ReceiverStates == {"unbound", "listening", "closing", "closed", "exited"}

\* Types of all variables; indices stay inside the arrays of GO_BACK_N entries.
TypeOK ==
  /\ fileSize \in FileSizes
  /\ spc \in SenderStates
  /\ offset \in Nat
  /\ finished \in BOOLEAN
  /\ block_read \in 0..GO_BACK_N
  /\ GBN_buf \in [0..(block_read - 1) -> Block]
  /\ check \in SUBSET Index
  /\ next \in 0..GO_BACK_N
  /\ sockErr \in BOOLEAN
  /\ rpc \in ReceiverStates
  /\ cur_offset \in Nat
  /\ DOMAIN held \in SUBSET Index
  /\ held \in [DOMAIN held -> Datagram]
  /\ out \in Seq([pos : Nat, size : 0..MAX_DATA_SIZE])
  /\ flushed \in 0..Len(out)
  /\ dataNet \in SUBSET Datagram
  /\ ackNet \in SUBSET AckMsg

\* Whatever the network does, what the receiver has written is the file's
\* beginning: every block once, in file order, none skipped, none from a
\* batch of another offset (the offset test and the reset of check, which
\* together stand between reordered datagrams and a scrambled file).
OutputIsPrefix ==
  \A j \in 1..Len(out) :
    LET pos == (j - 1) * MAX_DATA_SIZE
    IN  out[j] = [pos |-> pos, size |-> DataCount(pos)]

\* An index the sender has marked in check is a block the receiver has, in
\* its buffer for this very batch or already in its file: an expired
\* acknowledgement never marks a block of the next batch.
AckedIsHeld ==
  \A k \in check :
    /\ k < block_read
    /\ \/ /\ k \in DOMAIN held
          /\ Payload(held[k]) = Payload(GBN_buf[k])
          /\ cur_offset = GBN_buf[0].offset
       \/ \E j \in 1..Len(out) : out[j] = Payload(GBN_buf[k])

\* The block in which the file ends has been written (and so, by
\* OutputIsPrefix, every block before it).
Delivered == fileSize < Len(out) * MAX_DATA_SIZE

\* When the sender has terminated, the receiver has written the whole file.
\* It holds if the receiver was bound before the sender started.
DoneImpliesDelivered == spc = "done" => Delivered

\* When the sender has terminated, the file on disk is complete: what
\* hw2/run_test relies on when it runs diff as soon as the sender returns.
DoneImpliesOnDisk == spc = "done" => Delivered /\ flushed = Len(out)

\* The sender never terminates because its last batch is acknowledged: the
\* datagram that completes that batch gets no answer, so the error of the
\* closed port is the only way out of its loop.
EndsOnlyByError == [][spc # "done" /\ spc' = "done" => sockErr]_vars

\* The transfer implements the copy of a file in whole batches.
Copy == INSTANCE FileCopy
          WITH copied       <- out,
               receiverDone <- rpc \in {"closing", "closed", "exited"},
               senderDone   <- spc = "done"
CopySpec == Copy!Spec

\* In spite of loss and reordering the receiver gets the whole file and
\* leaves its loop, if it was bound when the sender started.
ReceiverFinishes ==
  rpc = "listening" => <>(rpc = "exited" /\ Delivered /\ flushed = Len(out))

\* The sender terminates in the end, although the last batch is never
\* acknowledged in full.  It does if refusals reach it while it waits; over
\* the loopback device an even number of unmarked blocks keeps it sending.
SenderTerminates == <>(spc = "done")

-----------------------------------------------------------------------------
(* The inductive invariant: what the sender's batch, the messages under    *)
(* way and the receiver's batch and file have to do with each other.       *)

\* A datagram says of its batch what the file says.
WellFormed(d) ==
  /\ d.index < d.block_read
  /\ d.pos = d.offset + d.index * MAX_DATA_SIZE
  /\ d.size = DataCount(d.pos)
  /\ d.offset + (d.block_read - 1) * MAX_DATA_SIZE <= fileSize
  /\ d.eof = (fileSize < d.offset + d.block_read * MAX_DATA_SIZE)
  /\ d.eof \/ d.block_read = GO_BACK_N
  /\ d.next_offset = IF d.eof THEN fileSize
                     ELSE d.offset + d.block_read * MAX_DATA_SIZE

Receiving == rpc \in {"unbound", "listening"}

Written(pos) == \E j \in 1..Len(out) : out[j].pos = pos

Received(o, k) == \/ cur_offset = o /\ k \in DOMAIN held
                  \/ Written(o + k * MAX_DATA_SIZE)

\* The receiver expects the block its file ends before, holds blocks of that
\* batch only, and never all of them.
ReceiverInv ==
  /\ Receiving => cur_offset = Len(out) * MAX_DATA_SIZE
  /\ ~Receiving => Delivered /\ held = <<>>
  /\ OutputIsPrefix
  /\ \A k \in DOMAIN held :
       /\ WellFormed(held[k])
       /\ held[k].offset = cur_offset
       /\ held[k].index = k
       /\ ~isAllOK(DOMAIN held, held[k].block_read)

\* A datagram under way belongs to the batch the receiver collects or is a
\* block it has written; an acknowledgement tells of a block it has.
NetInv ==
  /\ \A d \in dataNet :
       /\ WellFormed(d)
       /\ (Receiving /\ d.offset = cur_offset) \/ Written(d.pos)
       /\ IF spc = "load" THEN d.offset < offset
                          ELSE d.offset <= GBN_buf[0].offset
  /\ \A a \in ackNet :
       /\ Received(a.offset, a.index)
       /\ a.offset + a.index * MAX_DATA_SIZE <= fileSize

\* The batch that was loaded last, and the marks for it.
BatchInv ==
  LET base == GBN_buf[0].offset IN
  /\ base + (block_read - 1) * MAX_DATA_SIZE <= fileSize
  /\ \A k \in 0..(block_read - 1) :
       LET pos == base + k * MAX_DATA_SIZE
       IN  GBN_buf[k] = [offset |-> base, index |-> k, pos |-> pos,
                         size |-> DataCount(pos)]
  /\ \A k \in check : k < block_read /\ Received(base, k)

LastBatch == fileSize < GBN_buf[0].offset + block_read * MAX_DATA_SIZE

\* Some block of the batch is not marked and never will be.
Unanswered ==
  \E k \in 0..(block_read - 1) :
    /\ k \notin check
    /\ [offset |-> GBN_buf[0].offset, index |-> k] \notin ackNet

BatchOpen == Receiving /\ cur_offset = GBN_buf[0].offset

BatchComplete ==
  /\ \A k \in 0..(block_read - 1) :
       Written(GBN_buf[0].offset + k * MAX_DATA_SIZE)
  /\ cur_offset = offset
  /\ IF LastBatch THEN ~Receiving /\ Unanswered
                  ELSE Receiving /\ GBN_buf[0].offset < offset

SenderInv ==
  /\ block_read = 0 => check = {}
  /\ block_read > 0 => BatchInv
  /\ spc = "load" => ~finished /\ Receiving /\ cur_offset = offset
  /\ spc # "load" =>
       /\ block_read > 0
       /\ LastBatch \/ block_read = GO_BACK_N
       /\ offset = IF LastBatch THEN fileSize
                   ELSE GBN_buf[0].offset + block_read * MAX_DATA_SIZE
       /\ spc # "done" => finished = LastBatch
       /\ BatchOpen \/ BatchComplete

IInv == TypeOK /\ ReceiverInv /\ NetInv /\ SenderInv
=============================================================================
