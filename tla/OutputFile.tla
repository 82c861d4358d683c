------------------------------ MODULE OutputFile ------------------------------
(***************************************************************************)
(* The output file NewData.dat (Common/FileMappingIndexed.h): results are  *)
(* written one behind the other as they come in, with an index entry each, *)
(* and are reordered through TempData.dat at the end.                      *)
(*                                                                         *)
(* MsgHandler calls Write under fileMapLock, so one Write follows another. *)
(* OnCompletion calls ReorderFileData without it, and by then results may  *)
(* still come in: the two run side by side here, a round of one of their   *)
(* loops a step.  Byte o of the result of chunk k is <<k, o>>.             *)
(***************************************************************************)
EXTENDS ChunkRW, FiniteSets, FiniteSetsExt

CONSTANTS
    NResults,     \* the chunks of the input
    Sizes,        \* the bytes a result may have
    FileLength,   \* GetOutSize(GetFileSize()), the size NewData.dat is made with
    ViewSize      \* the 100MB of a view

Results == 0 .. (NResults - 1)

\* A result is smaller than a view.
ASSUME ResultsAssumption == NResults \in Nat /\ Sizes \subseteq Nat \ {0}
ASSUME LengthAssumption ==
    /\ FileLength \in Nat \ {0} /\ ViewSize \in Nat \ {0}
    /\ \A n \in Sizes : n <= FileLength /\ n <= ViewSize

Lesser(a, b) == IF a <= b THEN a ELSE b

\* chunkMapSize of a file of a given length.
ViewOf(length) == Lesser(ViewSize, length)

Byte == Results \X Nat
Unset == <<>>
Entry == [index : Nat, pos : Nat, size : Nat]

VARIABLES
    wpc,       \* the Write under fileMapLock: "idle", "inserting" or "writing"
    rpc,       \* ReorderFileData: "none", "next", "copying" or "closed"
    newFile,   \* the bytes of NewData.dat
    writer,    \* the write view of NewData.dat
    indices,   \* the set of index entries
    job,       \* the result being written
    tempFile,  \* the bytes of TempData.dat
    tempWriter,\* its write view
    readPos,   \* the position the read view of NewData.dat starts at
    readAt,    \* the position that view is mapped at
    last,      \* the index of the entry the iteration has come to
    copy,      \* the entry being copied
    calls,     \* (history) what Write was called with, and where it began
    late,      \* (history) a Write and ReorderFileData overlapped, or it came later
    fault      \* memory outside of a view was used

writeVars == <<wpc, newFile, writer, indices, job, calls>>
reorderVars == <<rpc, tempFile, tempWriter, readPos, readAt, last, copy>>
vars == <<writeVars, reorderVars, late, fault>>

NoJob == [index |-> 0, from |-> 0, left |-> 0]

Init ==
    /\ wpc = "idle" /\ rpc = "none"
    /\ newFile = [i \in 0 .. (FileLength - 1) |-> Unset]
    /\ writer = NoView
    /\ indices = {}
    /\ job = NoJob /\ copy = NoJob
    /\ tempFile = <<>> /\ tempWriter = NoView
    /\ readPos = 0 /\ readAt = 0
    /\ last = -1
    /\ calls = {}
    /\ late = FALSE /\ fault = FALSE

\* A file after a block of bytes was copied into it at a position.
Copied(file, pos, block) ==
    [i \in DOMAIN file |-> IF i - pos \in DOMAIN block THEN block[i - pos] ELSE file[i]]

-----------------------------------------------------------------------------
(* Write *)

\* it->index for the upper bound of k: the next greater index that is there, or
\* whatever the head node of the set holds.
UpperBoundIndex(k) ==
    LET greater == {e.index : e \in {f \in indices : f.index > k}}
    IN  IF greater = {} THEN 0 .. NResults
        ELSE {i \in greater : \A j \in greater : i <= j}

\* std::set::emplace: an entry whose index is there already is not inserted.
Emplace(e) ==
    IF \E f \in indices : f.index = e.index THEN indices ELSE indices \cup {e}

\* Write(index, ...) makes an entry of it->index.  Until the step after, the nodes
\* of the set are being linked.
BeginWrite(k, size) ==
    /\ wpc = "idle"
    /\ k \notin {c.index : c \in calls}
    /\ \E i \in UpperBoundIndex(k) :
         indices' = Emplace([index |-> i, pos |-> WritePos(writer), size |-> size])
    /\ calls' = calls \cup {[index |-> k, pos |-> WritePos(writer), size |-> size]}
    /\ job' = [index |-> k, from |-> 0, left |-> size]
    /\ wpc' = "inserting"
    /\ late' = (late \/ rpc # "none")
    /\ UNCHANGED <<newFile, writer, reorderVars, fault>>

\* Nothing can be mapped once the mapping is closed.
MapFirstView ==
    /\ wpc = "inserting"
    /\ writer' = IF rpc = "closed" THEN writer
                 ELSE Ready(writer, ViewOf(FileLength), FileLength)
    /\ wpc' = "writing"
    /\ UNCHANGED <<newFile, indices, job, calls, reorderVars, late, fault>>

\* What the next round of the loop copies.
RoundSize == Part(writer, ViewOf(FileLength), job.left)
RoundBytes(S) == [o \in S |-> <<job.index, job.from + o>>]
RoundInView == rpc # "closed" /\ InView(writer, ViewOf(FileLength), job.left)

\* One round of the loop of FileMappingChunkRW::Write.  Close unmaps the views and
\* leaves the pointers to them.
WriteRound ==
    /\ wpc = "writing"
    /\ \/ /\ RoundInView
          /\ newFile' = Copied(newFile, ViewPos(writer), RoundBytes(0 .. (RoundSize - 1)))
          /\ writer' = Advance(writer, ViewOf(FileLength), FileLength, job.left)
          /\ job' = [job EXCEPT !.from = @ + RoundSize, !.left = @ - RoundSize]
          /\ wpc' = IF job.left = RoundSize THEN "idle" ELSE "writing"
          /\ UNCHANGED fault
       \/ /\ ~RoundInView
          /\ fault' = TRUE
          /\ UNCHANGED <<newFile, writer, job, wpc>>
    /\ UNCHANGED <<indices, calls, reorderVars, late>>

-----------------------------------------------------------------------------
(* ReorderFileData *)

(***************************************************************************)
(* GetWritePos reads writePos, writeCur and writeBeg while RemapWrite may  *)
(* be storing them.  For the first view writePos is 0 and the pointers are *)
(* apart by more than a file can be long, or not at all: both make a file  *)
(* of 0 bytes.  When a round ends with its view, they may be apart by any  *)
(* distance between the old view and the new one; one byte more than the   *)
(* file has stands for all that are longer.                                *)
(***************************************************************************)
Remapping == wpc = "writing" /\ writer.cur + job.left >= ViewOf(FileLength)
WritePosSeen == IF Remapping THEN 0 .. (FileLength + 1) ELSE {WritePos(writer)}

TempLength == Cardinality(DOMAIN tempFile)

\* TempData.dat is made as long as what was written, whatever is missing.
BeginReorder ==
    /\ rpc = "none"
    /\ \E n \in WritePosSeen : tempFile' = [i \in 0 .. (n - 1) |-> Unset]
    /\ rpc' = "next"
    /\ late' = (late \/ wpc # "idle")
    /\ UNCHANGED <<writeVars, tempWriter, readPos, readAt, last, copy, fault>>

\* The entries the iteration has not come to.
Todo == {e \in indices : e.index > last}

\* Mutated form: the last entry first.
NextEntry_Last == {e \in Todo : \A f \in Todo : f.index <= e.index}

\* The set is ordered by index.  While a node is linked into it and its tree is
\* balanced, an iteration may come to any entry.
NextEntry ==
    IF wpc = "inserting" THEN indices
    ELSE {e \in Todo : \A f \in Todo : e.index <= f.index}

\* mp.Write(*this, it.pos, it.size)
BeginCopy ==
    /\ rpc = "next"
    /\ \E e \in NextEntry :
         /\ last' = e.index
         /\ copy' = [index |-> e.index, from |-> e.pos, left |-> e.size]
    /\ tempWriter' = Ready(tempWriter, ViewOf(TempLength), TempLength)
    /\ rpc' = "copying"
    /\ UNCHANGED <<writeVars, tempFile, readPos, readAt, late, fault>>

(***************************************************************************)
(* Read(t, curPos, size): a position at or before the read view's is taken *)
(* through the view, a later one through a mapping of its own.  A result   *)
(* is not larger than a view, so what is taken through the view never ends *)
(* beyond it; when it ends with the view the next view is mapped, at the   *)
(* position of the last.                                                   *)
(***************************************************************************)
ThroughView(p) == readPos >= p
ReadFrom(p) == IF ThroughView(p) THEN readAt + p - readPos ELSE p
Readable(p, n) == IF ThroughView(p) THEN p = readPos ELSE p + n <= FileLength
EndsView(p, n) == ThroughView(p) /\ p + n = readPos + ViewOf(FileLength)

\* What a read may find in NewData.dat: any part of the round of a Write that is
\* under way may be there already.
NewFileSeen ==
    IF wpc = "writing" /\ RoundInView
    THEN {Copied(newFile, ViewPos(writer), RoundBytes(S)) : S \in SUBSET (0 .. (RoundSize - 1))}
    ELSE {newFile}

\* One round of the loop of Write(other, curReadPos, size).
CopyRound ==
    LET W == ViewOf(TempLength)
        n == Part(tempWriter, W, copy.left)
        fits == InView(tempWriter, W, copy.left) /\ Readable(copy.from, n)
    IN
    /\ rpc = "copying"
    /\ \/ /\ fits
          /\ \E file \in NewFileSeen :
               tempFile' = Copied(tempFile, ViewPos(tempWriter),
                             [o \in 0 .. (n - 1) |-> file[ReadFrom(copy.from) + o]])
          /\ tempWriter' = Advance(tempWriter, W, TempLength, copy.left)
          /\ readAt' = IF EndsView(copy.from, n) THEN readPos ELSE readAt
          /\ readPos' = IF EndsView(copy.from, n) THEN readPos + ViewOf(FileLength) ELSE readPos
          /\ copy' = [copy EXCEPT !.from = @ + n, !.left = @ - n]
          /\ rpc' = IF copy.left = n THEN "next" ELSE "copying"
          /\ UNCHANGED fault
       \/ /\ ~fits
          /\ fault' = TRUE
          /\ UNCHANGED <<tempFile, tempWriter, readAt, readPos, copy, rpc>>
    /\ UNCHANGED <<writeVars, last, late>>

\* Both files are closed and TempData.dat becomes NewData.dat.
EndReorder ==
    /\ rpc = "next"
    /\ Todo = {} \/ wpc = "inserting"
    /\ newFile' = tempFile
    /\ rpc' = "closed"
    /\ UNCHANGED <<wpc, writer, indices, job, calls, tempFile, tempWriter, readPos, readAt,
                   last, copy, late, fault>>

-----------------------------------------------------------------------------

Next ==
    /\ ~fault
    /\ \/ \E k \in Results, size \in Sizes : BeginWrite(k, size)
       \/ MapFirstView \/ WriteRound
       \/ BeginReorder \/ BeginCopy \/ CopyRound \/ EndReorder

Spec == Init /\ [][Next]_vars

-----------------------------------------------------------------------------
(* Properties *)

\* Every variable has its type.
TypeOK ==
    /\ wpc \in {"idle", "inserting", "writing"}
    /\ rpc \in {"none", "next", "copying", "closed"}
    /\ \A f \in {newFile, tempFile} : \A i \in DOMAIN f : f[i] = Unset \/ f[i] \in Byte
    /\ writer \in Window /\ tempWriter \in Window
    /\ readPos \in Nat /\ readAt \in Nat /\ last \in Nat \cup {-1}
    /\ indices \subseteq Entry /\ calls \subseteq Entry
    /\ {job, copy} \subseteq [index : Nat, from : Nat, left : Nat]
    /\ late \in BOOLEAN /\ fault \in BOOLEAN

\* The bytes of a call are in a file from a position on.
Holds(file, pos, call) ==
    \A o \in 0 .. (call.size - 1) :
        pos + o \in DOMAIN file /\ file[pos + o] = <<call.index, o>>

\* The call has returned.
Returned(c) == wpc = "idle" \/ c.index # job.index

\* A result that was written is found where its index entry says it is until the
\* mapping is closed, whatever is written after it and copied meanwhile
\* (FileMappingChunkRW::Write): GetWritePos is where the view writes.
WrittenInPlace ==
    rpc # "closed" => \A c \in calls : Returned(c) => Holds(newFile, c.pos, c)

\* If every Write had returned before ReorderFileData was called, it copies what
\* each entry stands for, in the order of the entries, one behind the other.
Before(e) == {f \in indices : f.index < e.index}
TotalSize(S) == MapThenSumSet(LAMBDA e : e.size, S)
ReorderCopies ==
    rpc = "closed" /\ ~late =>
        \A e \in indices : \A c \in calls :
            c.pos = e.pos => Holds(newFile, TotalSize(Before(e)), c)

\* A write or copy leaves its view only if a Write overlaps with ReorderFileData,
\* or comes after it: what is written fits into the file, and what is copied into
\* the other.
StaysInView == fault => late

\* "The clients will then send the processsed data back to the server so it can
\* be reordered and combined" (README.md:2): when every result was written, the
\* reordered file is the results in the order of their indices.
EarlierCalls(c) == {d \in calls : d.index < c.index}
OutputInOrder ==
    rpc = "closed" /\ ~late /\ Cardinality(calls) = NResults =>
        \A c \in calls : Holds(newFile, TotalSize(EarlierCalls(c)), c)

=============================================================================
