-------------------------------- MODULE Data --------------------------------
(***************************************************************************)
(* The reader of the input file (ServerDataInterpreter/Data.cpp).          *)
(*                                                                         *)
(* Data hands out the file in chunks.  Its state is a record d:            *)
(*   d.filePos    the position of the operating system's file handle       *)
(*   d.cursorPos  Data::cursorPos, the bytes handed out so far             *)
(*   d.curIndex   Data::curIndex, the index of the next chunk              *)
(* Bytes are not modelled: a buffer filled from the file is the block      *)
(* [from, len] of the file it was filled from.                             *)
(***************************************************************************)
EXTENDS Integers

CONSTANTS
    FileSize,          \* bytes in Data.dat
    DesiredChunkSize   \* GetMaxDataSize() - MSG_OFFSET, from the server's buffers

ASSUME FileSizeAssumption == FileSize \in Nat
ASSUME ChunkSizeAssumption == DesiredChunkSize \in Nat \ {0}

\* A chunk of work: the cursor is the position *after* the chunk.
WorkInfo == [cursor : Nat, size : Nat, curIndex : Nat]

\* The default-constructed WorkInfo: no more work (its size is zero).
NoWork == [cursor |-> 0, size |-> 0, curIndex |-> 0]

\* What a buffer holds.
Block == [from : Nat, len : Nat]
NoBlock == [from |-> 0, len |-> 0]

\* The part of the file a WorkInfo stands for.
BlockOf(wi) == [from |-> wi.cursor - wi.size, len |-> wi.size]

DataState == [filePos : Nat, cursorPos : Nat, curIndex : Nat]

\* LoadData: one chunk is the whole file when the file is small.
chunkSize == IF FileSize > DesiredChunkSize THEN DesiredChunkSize ELSE FileSize

LoadData == [filePos |-> 0, cursorPos |-> 0, curIndex |-> 0]

\* File::Read at a position: the number of bytes it returns.
BytesRead(pos, nBytes) ==
    IF pos >= FileSize THEN 0
    ELSE IF nBytes <= FileSize - pos THEN nBytes
    ELSE FileSize - pos

\* Mutated form: the index is incremented too early.
ChunkAt_PreIncrement(d, read) ==
    [cursor |-> d.cursorPos + read, size |-> read, curIndex |-> d.curIndex + 1]

\* Mutated form: the cursor runs backwards.
ChunkAt_Backwards(d, read) ==
    [cursor |-> d.cursorPos - read, size |-> read, curIndex |-> d.curIndex]

\* What GetClientWork returns for the bytes it read.
ChunkAt(d, read) ==
    [cursor |-> d.cursorPos + read, size |-> read, curIndex |-> d.curIndex]

\* GetClientWork: read the next chunk and number it.  Nothing read, no work.
GetClientWork(d) ==
    LET read == BytesRead(d.filePos, chunkSize)
    IN  IF read > 0
        THEN [data  |-> [filePos |-> d.filePos + read,
                         cursorPos |-> d.cursorPos + read,
                         curIndex |-> d.curIndex + 1],
              wi    |-> ChunkAt(d, read),
              block |-> [from |-> d.filePos, len |-> read]]
        ELSE [data |-> d, wi |-> NoWork, block |-> NoBlock]

\* Mutated form: the file handle is not moved back.
GetClientWorkPrev_NoReturn(d, wi) ==
    LET pos  == d.filePos + d.cursorPos - wi.cursor
        read == BytesRead(pos, wi.size)
    IN  [data  |-> [d EXCEPT !.filePos = pos + read],
         block |-> [from |-> pos, len |-> read]]

\* Mutated form: the second distance has the sign of the first.
GetClientWorkPrev_Twice(d, wi) ==
    LET back == d.cursorPos - wi.cursor
        pos  == d.filePos + back
        read == BytesRead(pos, wi.size)
    IN  [data  |-> [d EXCEPT !.filePos = pos + read + back],
         block |-> [from |-> pos, len |-> read]]

\* GetClientWorkPrev: move the file handle by cursorPos - wi.cursor, relative
\* to where it is, read, and move it back by the same distance.  Read has
\* advanced the handle in between.
GetClientWorkPrev(d, wi) ==
    LET back == d.cursorPos - wi.cursor
        pos  == d.filePos + back
        read == BytesRead(pos, wi.size)
    IN  [data  |-> [d EXCEPT !.filePos = pos + read - back],
         block |-> [from |-> pos, len |-> read]]

=============================================================================
