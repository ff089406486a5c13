--------------------------- MODULE MCFileTransfer ---------------------------
(* Values for the constants of FileTransfer.  Blocks of 2 bytes and batches  *)
(* of 2 blocks make 4 bytes per batch: the sizes below end a batch with an   *)
(* empty block, a short block, exactly at and just after a batch boundary.   *)
EXTENDS FileTransfer

Sizes      == {0, 1, 2, 3, 4, 5, 8}
FewSizes   == {3, 4}
=============================================================================
