------------------------------ MODULE FileCopy ------------------------------
(***************************************************************************)
(* What the UDP file transfer of hw2 promises, without network, datagrams  *)
(* or acknowledgements.  The receiver's file grows by whole batches of     *)
(* blocks, each block being the one file.read delivered at that place; the *)
(* receiver is done exactly when it holds the block at which the file      *)
(* ends; the sender is done only after the receiver is.                    *)
(***************************************************************************)
EXTENDS Naturals, Sequences

CONSTANTS MAX_DATA_SIZE,  \* bytes of one block
          GO_BACK_N,      \* blocks of one batch
          FileSizes       \* the sizes the file to send may have

VARIABLES fileSize,       \* size of the file to send, never changes
          copied,         \* blocks in the receiver's file, in file order
          receiverDone,
          senderDone

vars == <<fileSize, copied, receiverDone, senderDone>>

\* The j-th block that file.read yields, the last one short or empty.
FileBlock(j) ==
  LET pos == (j - 1) * MAX_DATA_SIZE
  IN  [pos  |-> pos,
       size |-> IF pos + MAX_DATA_SIZE <= fileSize THEN MAX_DATA_SIZE
                                                   ELSE fileSize - pos]

Init == /\ fileSize \in FileSizes
        /\ copied = <<>>
        /\ receiverDone = FALSE
        /\ senderDone = FALSE

\* A full batch that does not reach the end of the file.
CopyBatch ==
  /\ ~receiverDone
  /\ (Len(copied) + GO_BACK_N) * MAX_DATA_SIZE <= fileSize
  /\ copied' = [j \in 1..(Len(copied) + GO_BACK_N) |-> FileBlock(j)]
  /\ UNCHANGED <<fileSize, receiverDone, senderDone>>

\* The batch whose last block is the short one that ends the file.
CopyLastBatch ==
  /\ ~receiverDone
  /\ \E n \in (Len(copied) + 1)..(Len(copied) + GO_BACK_N) :
       /\ (n - 1) * MAX_DATA_SIZE <= fileSize
       /\ fileSize < n * MAX_DATA_SIZE
       /\ copied' = [j \in 1..n |-> FileBlock(j)]
  /\ receiverDone' = TRUE
  /\ UNCHANGED <<fileSize, senderDone>>

SenderFinishes ==
  /\ receiverDone
  /\ ~senderDone
  /\ senderDone' = TRUE
  /\ UNCHANGED <<fileSize, copied, receiverDone>>

Next == CopyBatch \/ CopyLastBatch \/ SenderFinishes

Spec == Init /\ [][Next]_vars
=============================================================================
