--------------------------- MODULE MCFileTransfer ---------------------------
(* FileTransfer with three addresses and a limit that leaves room for two  *)
(* clients. The files are shorter than a buffer, exactly one, and more.    *)
EXTENDS FileTransfer

CONSTANTS p1, p2, p3
=============================================================================
