------------------------------ MODULE DataReader ------------------------------
(***************************************************************************)
(* The input reader on its own, used as the server uses it: under workLock *)
(* a worker reads the next chunk, or reads again a chunk that was issued   *)
(* before and whose client has disconnected.                               *)
(***************************************************************************)
EXTENDS Data, Sequences

VARIABLES
    data,      \* the reader
    issued,    \* the WorkInfo of every chunk issued so far, in order
    blocks,    \* (history) the part of the file each of them was filled from
    again      \* (history) the bytes read again before each of them, and since

vars == <<data, issued, blocks, again>>

Init == data = LoadData /\ issued = <<>> /\ blocks = <<>> /\ again = <<0>>

ReadNew ==
    LET r == GetClientWork(data) IN
    /\ r.wi.size > 0
    /\ data' = r.data
    /\ issued' = Append(issued, r.wi)
    /\ blocks' = Append(blocks, r.block)
    /\ again' = Append(again, 0)

ReadAgain(k) ==
    LET r == GetClientWorkPrev(data, issued[k]) IN
    /\ k \in DOMAIN issued
    /\ data' = r.data
    /\ again' = [again EXCEPT ![Len(again)] = @ + r.block.len]
    /\ UNCHANGED <<issued, blocks>>

Next == ReadNew \/ \E k \in DOMAIN issued : ReadAgain(k)

Spec == Init /\ [][Next]_vars

-----------------------------------------------------------------------------

\* Every variable has its type.
TypeOK ==
    /\ data \in DataState /\ issued \in Seq(WorkInfo)
    /\ blocks \in Seq(Block) /\ again \in Seq(Nat)
    /\ Len(blocks) = Len(issued) /\ Len(again) = Len(issued) + 1

CursorBefore(k) == IF k = 1 THEN 0 ELSE issued[k - 1].cursor
ReadBefore(k) == IF k = 1 THEN 0 ELSE blocks[k - 1].from + blocks[k - 1].len

\* A chunk is filled from the bytes behind those of the chunk before it and those
\* read again since.
BlocksFollow ==
    /\ \A k \in DOMAIN issued :
         /\ issued[k].curIndex = k - 1
         /\ issued[k].size \in 1 .. chunkSize
         /\ issued[k].cursor = CursorBefore(k) + issued[k].size
         /\ blocks[k].from = ReadBefore(k) + again[k]
         /\ blocks[k].len = issued[k].size
    /\ data.curIndex = Len(issued)
    /\ data.cursorPos = CursorBefore(Len(issued) + 1)
    /\ data.filePos = ReadBefore(Len(issued) + 1) + again[Len(issued) + 1]

\* What is read for a chunk that is given out again lies behind the part of the
\* file its record stands for.
ResentIsOther ==
    \A k \in DOMAIN issued :
        GetClientWorkPrev(data, issued[k]).block.from >= issued[k].cursor

\* Which bytes of the file clients are given.  Chunks are numbered, sized and placed
\* one behind the other by the records made of them (Data::GetClientWork), but the
\* bytes read for a chunk are further on, by as many as were read again since the one
\* before (Data::GetClientWorkPrev).  So no byte is read for two new chunks, and as
\* many as were read again are read for none.  And what is read again is never any
\* part of the chunk it is read for.
IssuedBytes == BlocksFollow /\ ResentIsOther

\* The file handle stays inside the file and never falls behind the cursor
\* (Data::GetClientWorkPrev): the relative seeks do not run off at either end.
HandleInFile == data.cursorPos <= data.filePos /\ data.filePos <= FileSize

=============================================================================
