---------------------------- MODULE MCFileTransfer ----------------------------
(* An instance of FileTransfer for TLC: files of 3, 0 and 1 bytes, of which the *)
(* first may be shorter or longer by the time it is sent; a client may have an  *)
(* older version with files of 1, 1 and 2 bytes.                                *)
EXTENDS FileTransfer

MCFileBytes == [f \in Files |-> CASE f = 1 -> 3 [] f = 2 -> 0 [] OTHER -> 1]
MCOldBytes == [f \in Files |-> IF f = 3 THEN 2 ELSE 1]
MCActualBytes == {[MCFileBytes EXCEPT ![1] = n] : n \in {2, 3, 4}}

=============================================================================
