--------------------------- MODULE DataReaderProofs ---------------------------
(* Theorems about DataReader, for every file and chunk size. *)
EXTENDS DataReader, SequenceTheorems, TLAPS

\* The cursors of the chunks do not pass the reader's: BlocksFollow says so of
\* neighbours only, and ReadAgain needs it of every chunk.
CursorsBehind == \A k \in DOMAIN issued : issued[k].cursor <= data.cursorPos

Inv == TypeOK /\ BlocksFollow /\ HandleInFile /\ CursorsBehind

-----------------------------------------------------------------------------
(* The two reads *)

\* A read stays in the file.
LEMMA BytesReadInFile ==
    ASSUME NEW pos \in Nat, NEW n \in Nat
    PROVE  /\ BytesRead(pos, n) \in 0 .. n
           /\ pos <= FileSize => pos + BytesRead(pos, n) <= FileSize
           /\ pos > FileSize => BytesRead(pos, n) = 0
BY FileSizeAssumption DEF BytesRead

LEMMA ChunkSizeNat == chunkSize \in Nat
BY FileSizeAssumption, ChunkSizeAssumption DEF chunkSize

\* A new chunk begins at the cursor and ends at the new one; the handle moves
\* as far as the cursor.
LEMMA ReadsNext ==
    ASSUME NEW d \in DataState, GetClientWork(d).wi.size > 0, d.filePos <= FileSize
    PROVE  LET r == GetClientWork(d) IN
           /\ r.wi.size \in 1 .. chunkSize
           /\ r.wi.curIndex = d.curIndex
           /\ r.wi.cursor = d.cursorPos + r.wi.size
           /\ r.data.filePos = d.filePos + r.wi.size
           /\ r.data.cursorPos = r.wi.cursor
           /\ r.data.curIndex = d.curIndex + 1
           /\ r.data.filePos <= FileSize
           /\ r.wi \in WorkInfo /\ r.data \in DataState
           /\ r.block = [from |-> d.filePos, len |-> r.wi.size] /\ r.block \in Block
<1> DEFINE read == BytesRead(d.filePos, chunkSize)
<1>1. d.filePos \in Nat /\ d.cursorPos \in Nat /\ d.curIndex \in Nat
  BY DEF DataState
<1>2. read \in 0 .. chunkSize /\ d.filePos + read <= FileSize
  BY <1>1, ChunkSizeNat, BytesReadInFile
<1>3. read > 0
  BY DEF GetClientWork, NoWork
<1>4. GetClientWork(d) =
        [data |-> [filePos |-> d.filePos + read, cursorPos |-> d.cursorPos + read,
                   curIndex |-> d.curIndex + 1],
         wi |-> [cursor |-> d.cursorPos + read, size |-> read, curIndex |-> d.curIndex],
         block |-> [from |-> d.filePos, len |-> read]]
  BY <1>3 DEF GetClientWork, ChunkAt
<1> HIDE DEF read
<1> QED BY <1>1, <1>2, <1>3, <1>4, ChunkSizeNat DEF WorkInfo, DataState, Block

\* A chunk read again moves the handle by what was read from behind it, at most
\* to the end of the file.
LEMMA ReadsAgain ==
    ASSUME NEW d \in DataState, NEW wi \in WorkInfo,
           wi.cursor <= d.cursorPos, d.filePos <= FileSize
    PROVE  LET r == GetClientWorkPrev(d, wi).data
               read == GetClientWorkPrev(d, wi).block.len
           IN
           /\ r \in DataState
           /\ r.cursorPos = d.cursorPos /\ r.curIndex = d.curIndex
           /\ d.filePos <= r.filePos /\ r.filePos <= FileSize
           /\ r.filePos = d.filePos + read /\ read \in Nat
<1> DEFINE back == d.cursorPos - wi.cursor
           pos == d.filePos + back
           read == BytesRead(pos, wi.size)
<1>1. /\ d.filePos \in Nat /\ d.cursorPos \in Nat /\ d.curIndex \in Nat
      /\ back \in Nat /\ wi.size \in Nat
  BY DEF DataState, WorkInfo
<1>2. pos \in Nat
  <2> HIDE DEF back
  <2> QED BY <1>1
<1>3. /\ read \in Nat
      /\ pos <= FileSize => pos + read <= FileSize
      /\ pos > FileSize => read = 0
  <2> HIDE DEF pos
  <2>1. read \in 0 .. wi.size
    BY <1>1, <1>2, BytesReadInFile
  <2>2. pos <= FileSize => pos + read <= FileSize
    BY <1>1, <1>2, BytesReadInFile
  <2>3. pos > FileSize => read = 0
    BY <1>1, <1>2, BytesReadInFile
  <2> HIDE DEF read
  <2> QED BY <1>1, <2>1, <2>2, <2>3
<1>4. GetClientWorkPrev(d, wi).data = [d EXCEPT !.filePos = pos + read - back]
  BY DEF GetClientWorkPrev
<1>5. /\ pos + read - back = d.filePos + read
      /\ d.filePos + read <= FileSize
  <2> HIDE DEF read, back
  <2> QED BY <1>1, <1>2, <1>3, FileSizeAssumption
<1>6. GetClientWorkPrev(d, wi).data = [filePos |-> d.filePos + read,
                                       cursorPos |-> d.cursorPos, curIndex |-> d.curIndex]
  BY <1>4, <1>5 DEF DataState
<1>7. GetClientWorkPrev(d, wi).block.len = read
  BY DEF GetClientWorkPrev
<1> HIDE DEF read
<1> QED BY <1>1, <1>3, <1>5, <1>6, <1>7 DEF DataState

-----------------------------------------------------------------------------
(* The invariant *)

LEMMA InvInit == Init => Inv
<1> SUFFICES ASSUME Init PROVE Inv
  OBVIOUS
<1>1. /\ issued = <<>> /\ blocks = <<>> /\ again = <<0>> /\ DOMAIN issued = {}
      /\ Len(issued) = 0 /\ Len(blocks) = 0 /\ Len(again) = 1 /\ again[1] = 0
      /\ data = [filePos |-> 0, cursorPos |-> 0, curIndex |-> 0]
  BY DEF Init, LoadData
<1>2. TypeOK
  BY <1>1 DEF TypeOK, DataState
<1>3. BlocksFollow
  BY <1>1 DEF BlocksFollow, CursorBefore, ReadBefore
<1> QED BY <1>1, <1>2, <1>3, FileSizeAssumption DEF Inv, HandleInFile, CursorsBehind

LEMMA ReadNewInv ==
    ASSUME Inv, ReadNew, NEW n, n = Len(issued)
    PROVE  Inv'
<1> DEFINE wi == GetClientWork(data).wi
           block == GetClientWork(data).block
<1>1. /\ data \in DataState /\ issued \in Seq(WorkInfo) /\ data.filePos <= FileSize
      /\ blocks \in Seq(Block) /\ again \in Seq(Nat)
      /\ Len(blocks) = n /\ Len(again) = n + 1
      /\ data.cursorPos <= data.filePos
      /\ data.curIndex = n /\ data.cursorPos = CursorBefore(n + 1)
      /\ data.filePos = ReadBefore(n + 1) + again[n + 1]
  BY DEF Inv, TypeOK, HandleInFile, BlocksFollow
<1>2. /\ wi.size \in 1 .. chunkSize /\ wi.curIndex = n
      /\ wi.cursor = data.cursorPos + wi.size /\ wi \in WorkInfo
      /\ data'.filePos = data.filePos + wi.size /\ data'.filePos <= FileSize
      /\ data'.cursorPos = wi.cursor /\ data'.curIndex = n + 1
      /\ data' \in DataState
      /\ block = [from |-> data.filePos, len |-> wi.size] /\ block \in Block
  BY <1>1, ReadsNext DEF ReadNew
<1>3. /\ issued' = Append(issued, wi) /\ blocks' = Append(blocks, block)
      /\ again' = Append(again, 0)
  BY DEF ReadNew
<1> HIDE DEF wi, block
<1>4. /\ issued' \in Seq(WorkInfo) /\ Len(issued') = n + 1
      /\ issued'[n + 1] = wi
      /\ \A k \in 1 .. n : issued'[k] = issued[k]
  BY <1>1, <1>2, <1>3
<1>5. n \in Nat /\ DOMAIN issued = 1 .. n /\ DOMAIN issued' = 1 .. n + 1
  BY <1>1, <1>4
<1>6. /\ blocks' \in Seq(Block) /\ Len(blocks') = n + 1 /\ blocks'[n + 1] = block
      /\ \A k \in 1 .. n : blocks'[k] = blocks[k]
  BY <1>1, <1>2, <1>3
<1>7. /\ again' \in Seq(Nat) /\ Len(again') = n + 2 /\ again'[n + 2] = 0
      /\ \A k \in 1 .. n + 1 : again'[k] = again[k]
  BY <1>1, <1>3, <1>5
<1>8. \A k \in 1 .. n + 1 : CursorBefore(k)' = CursorBefore(k) /\ ReadBefore(k)' = ReadBefore(k)
  BY <1>4, <1>5, <1>6 DEF CursorBefore, ReadBefore
<1>9. /\ data.cursorPos \in Nat /\ data.filePos \in Nat /\ wi.size \in Nat /\ wi.size >= 1
      /\ wi.cursor \in Nat
  BY <1>1, <1>2, ChunkSizeNat DEF DataState, WorkInfo
<1>10. BlocksFollow'
  <2>1. ASSUME NEW k \in 1 .. n + 1
        PROVE  /\ issued'[k].curIndex = k - 1
               /\ issued'[k].size \in 1 .. chunkSize
               /\ issued'[k].cursor = CursorBefore(k)' + issued'[k].size
               /\ blocks'[k].from = ReadBefore(k)' + again'[k]
               /\ blocks'[k].len = issued'[k].size
    <3>1. CASE k = n + 1
      BY <1>1, <1>2, <1>4, <1>5, <1>6, <1>7, <1>8, <3>1
    <3>2. CASE k \in 1 .. n
      BY <1>4, <1>5, <1>6, <1>7, <1>8, <3>2 DEF Inv, BlocksFollow
    <3> QED BY <1>5, <3>1, <3>2
  <2>2. CursorBefore(n + 2)' = wi.cursor
    BY <1>4, <1>5 DEF CursorBefore
  <2>3. ReadBefore(n + 2)' = data.filePos + wi.size
    BY <1>2, <1>5, <1>6 DEF ReadBefore
  <2>4. n + 1 + 1 = n + 2
    BY <1>5
  <2>5. data'.filePos = ReadBefore(n + 2)' + again'[n + 2]
    BY <1>2, <1>7, <1>9, <2>3
  <2> QED BY <1>2, <1>4, <1>5, <2>1, <2>2, <2>4, <2>5 DEF BlocksFollow
<1>11. HandleInFile'
  BY <1>1, <1>2, <1>9 DEF HandleInFile
<1>12. CursorsBehind'
  <2>1. ASSUME NEW k \in 1 .. n PROVE issued[k].cursor <= data.cursorPos /\ issued[k].cursor \in Nat
    <3>1. k \in DOMAIN issued
      BY <1>5
    <3>2. issued[k] \in WorkInfo
      BY <1>1, <3>1
    <3> QED BY <3>1, <3>2 DEF Inv, CursorsBehind, WorkInfo
  <2>2. ASSUME NEW k \in 1 .. n + 1 PROVE issued'[k].cursor <= data'.cursorPos
    <3>1. CASE k = n + 1
      BY <1>2, <1>4, <1>9, <3>1
    <3>2. CASE k \in 1 .. n
      BY <1>2, <1>4, <1>9, <2>1, <3>2
    <3> QED BY <1>5, <3>1, <3>2
  <2> QED BY <1>5, <2>2 DEF CursorsBehind
<1>13. TypeOK'
  BY <1>2, <1>4, <1>5, <1>6, <1>7 DEF TypeOK
<1> QED BY <1>10, <1>11, <1>12, <1>13 DEF Inv

LEMMA ReadAgainInv ==
    ASSUME Inv, NEW k, ReadAgain(k)
    PROVE  Inv'
<1> DEFINE r == GetClientWorkPrev(data, issued[k])
           n == Len(issued)
<1>1. /\ k \in DOMAIN issued /\ data' = r.data
      /\ again' = [again EXCEPT ![Len(again)] = @ + r.block.len]
      /\ UNCHANGED <<issued, blocks>>
  BY DEF ReadAgain
<1>2. /\ data \in DataState /\ issued[k] \in WorkInfo
      /\ issued[k].cursor <= data.cursorPos
      /\ data.filePos <= FileSize /\ data.cursorPos <= data.filePos
      /\ n \in Nat /\ again \in Seq(Nat) /\ Len(again) = n + 1
      /\ data.filePos = ReadBefore(n + 1) + again[n + 1]
  BY <1>1 DEF Inv, TypeOK, HandleInFile, CursorsBehind, BlocksFollow
<1>3. /\ data' \in DataState
      /\ data'.cursorPos = data.cursorPos /\ data'.curIndex = data.curIndex
      /\ data.filePos <= data'.filePos /\ data'.filePos <= FileSize
      /\ data'.filePos = data.filePos + r.block.len /\ r.block.len \in Nat
  BY <1>1, <1>2, ReadsAgain
<1> HIDE DEF r
<1>4. data'.cursorPos <= data'.filePos
  BY <1>2, <1>3 DEF DataState
<1>5. \A i : CursorBefore(i)' = CursorBefore(i) /\ ReadBefore(i)' = ReadBefore(i)
  BY <1>1 DEF CursorBefore, ReadBefore
<1>6. /\ again' \in Seq(Nat) /\ Len(again') = n + 1
      /\ \A i \in 1 .. n : again'[i] = again[i]
      /\ again'[n + 1] = again[n + 1] + r.block.len
  BY <1>1, <1>2, <1>3
<1>7. n' = n /\ DOMAIN issued = 1 .. n /\ DOMAIN issued' = 1 .. n
  BY <1>1 DEF Inv, TypeOK
<1>8. data'.filePos = ReadBefore(n + 1)' + again'[n + 1]
  <2>1. /\ again[n + 1] \in Nat /\ data.filePos \in Nat
        /\ ReadBefore(n + 1) \in Nat
    <3>1. n = 0 \/ (n \in 1 .. n /\ blocks[n] \in Block)
      BY <1>2, <1>7 DEF Inv, TypeOK
    <3> QED BY <1>2, <3>1 DEF DataState, ReadBefore, Block
  <2>2. ReadBefore(n + 1)' = ReadBefore(n + 1)
    BY <1>1, <1>7 DEF ReadBefore
  <2>3. again'[n + 1] = again[n + 1] + r.block.len
    BY <1>6
  <2> QED BY <1>2, <1>3, <2>1, <2>2, <2>3
<1>9. BlocksFollow'
  <2> HIDE DEF n
  <2>1. \A i \in 1 .. n : again'[i] = again[i]
    BY <1>6
  <2>2. n = Len(issued)
    BY DEF n
  <2> QED BY <1>1, <1>3, <1>5, <1>7, <1>8, <2>1, <2>2 DEF Inv, BlocksFollow
<1>10. TypeOK'
  BY <1>1, <1>3, <1>6, <1>7 DEF Inv, TypeOK
<1>11. HandleInFile' /\ CursorsBehind'
  BY <1>1, <1>3, <1>4 DEF Inv, HandleInFile, CursorsBehind
<1> QED BY <1>9, <1>10, <1>11 DEF Inv

\* The seek for a chunk ends behind it: it begins where the handle is.
LEMMA InvResent == Inv => ResentIsOther
<1> SUFFICES ASSUME Inv, NEW k \in DOMAIN issued
             PROVE  GetClientWorkPrev(data, issued[k]).block.from >= issued[k].cursor
  BY DEF ResentIsOther
<1>1. /\ data.filePos \in Nat /\ data.cursorPos \in Nat /\ issued[k].cursor \in Nat
      /\ issued[k].cursor <= data.cursorPos /\ data.cursorPos <= data.filePos
  <2>1. data \in DataState /\ issued[k] \in WorkInfo
    BY DEF Inv, TypeOK
  <2> QED BY <2>1 DEF Inv, HandleInFile, CursorsBehind, DataState, WorkInfo
<1>2. GetClientWorkPrev(data, issued[k]).block.from
        = data.filePos + (data.cursorPos - issued[k].cursor)
  BY DEF GetClientWorkPrev
<1> QED BY <1>1, <1>2

\* For every file and chunk size, and however often chunks are read again: a chunk
\* is filled from the bytes behind those of the chunk before it and those read
\* again since, so no byte is issued twice; what is read again lies behind the chunk
\* it is read for; and the handle lies between the cursor and the end of the file,
\* although it moves ahead with every chunk read again.
THEOREM ReaderCorrect == Spec => [](TypeOK /\ IssuedBytes /\ HandleInFile)
<1>1. Inv /\ [Next]_vars => Inv'
  <2> SUFFICES ASSUME Inv, [Next]_vars PROVE Inv'
    OBVIOUS
  <2>1. CASE UNCHANGED vars
    <3>1. \A i : CursorBefore(i)' = CursorBefore(i) /\ ReadBefore(i)' = ReadBefore(i)
      BY <2>1 DEF vars, CursorBefore, ReadBefore
    <3> QED BY <2>1, <3>1 DEF vars, Inv, TypeOK, BlocksFollow, HandleInFile, CursorsBehind
  <2> QED BY <2>1, ReadNewInv, ReadAgainInv DEF Next
<1>2. Inv => TypeOK /\ IssuedBytes /\ HandleInFile
  BY InvResent DEF Inv, IssuedBytes
<1> QED BY <1>1, <1>2, InvInit, PTL DEF Spec

=============================================================================
