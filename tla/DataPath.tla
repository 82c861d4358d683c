------------------------------- MODULE DataPath -------------------------------
(***************************************************************************)
(* The way of the data through the server: chunks are read from Data.dat   *)
(* (DataReader), clients apply the algorithm to them, their results are    *)
(* written into NewData.dat and reordered (OutputFile), and NewData.dat is *)
(* compared with what the algorithm makes of Data.dat                      *)
(* (Server::VerifyNewData).                                                *)
(***************************************************************************)
EXTENDS OutputFile, Sequences

CONSTANTS
    DesiredChunkSize,  \* GetMaxDataSize() - MSG_OFFSET
    Values,            \* values of a byte, 0 among them
    Inputs,            \* what Data.dat may hold
    WordSize,          \* sizeof(uint32_t)
    Algorithm,         \* what the algorithm makes of a word
    buffSize           \* bytes compared at a time: 4096

Word == [0 .. (WordSize - 1) -> Values]

ASSUME VerifyAssumption ==
    DesiredChunkSize \in Nat \ {0} /\ buffSize \in Nat \ {0} /\ 0 \in Values
ASSUME InputsAssumption == Inputs \subseteq [0 .. (FileLength - 1) -> Values]

ZeroWord == [b \in 0 .. (WordSize - 1) |-> 0]

\* Buffers hold whole words, and the algorithm leaves 0 as it is.
ASSUME AlgorithmAssumption ==
    /\ WordSize \in Nat \ {0} /\ buffSize % WordSize = 0
    /\ Algorithm \in [Word -> Word] /\ Algorithm[ZeroWord] = ZeroWord

VARIABLES
    data, issued, blocks, again, \* the reader (DataReader)
    content,           \* the bytes of Data.dat
    result,            \* per chunk issued: the bytes its client returns
    verdict,           \* "none", "verified" or "not verified"
    oldPos, newPos,    \* how far VerifyNewData has read
    oldBuff, tempBuff, newBuff   \* its buffers

readVars == <<data, issued, blocks, again, result>>
verifyVars == <<verdict, oldPos, newPos, oldBuff, tempBuff, newBuff>>
pathVars == <<vars, readVars, content, verifyVars>>

Reader == INSTANCE DataReader WITH FileSize <- FileLength

Zeros == [i \in 0 .. (buffSize - 1) |-> 0]

PathInit ==
    /\ Init /\ Reader!Init
    /\ content \in Inputs
    /\ result = <<>>
    /\ verdict = "none"
    /\ oldPos = 0 /\ newPos = 0
    /\ oldBuff = Zeros /\ tempBuff = Zeros /\ newBuff = Zeros

\* The word a byte is in.
WordAt(i) == i - (i % WordSize)

\* Algorithm::AlgorithmInOut: the words of in, each for itself, into out.  The
\* bytes behind the last whole word stay what they were in out.
AlgorithmInOut(in, size, out) ==
    [i \in DOMAIN out |->
        IF WordAt(i) + WordSize <= size
        THEN Algorithm[[b \in 0 .. (WordSize - 1) |-> in[WordAt(i) + b]]][i % WordSize]
        ELSE out[i]]

\* What clients may return for a chunk when a block was read for it: where the
\* block is short they were sent what was in the buffer.  They compute into a
\* buffer that has been in use.
ClientReturns(wi, block) ==
    LET Buffer == [0 .. (wi.size - 1) -> Values]
    IN  {AlgorithmInOut(in, wi.size, out) :
            in \in {b \in Buffer :
                      \A o \in 0 .. (block.len - 1) : b[o] = content[block.from + o]},
            out \in Buffer}

ReadNew ==
    /\ Reader!ReadNew
    /\ \E r \in ClientReturns(Reader!GetClientWork(data).wi, Reader!GetClientWork(data).block) :
         result' = Append(result, r)
    /\ UNCHANGED <<vars, content, verifyVars>>

\* The work of a client that left is read again and given to another, whose
\* answer is the one that is written.
ReadAgain ==
    \E k \in DOMAIN issued :
        /\ k - 1 \notin {c.index : c \in calls}
        /\ Reader!ReadAgain(k)
        /\ \E r \in ClientReturns(issued[k], Reader!GetClientWorkPrev(data, issued[k]).block) :
             result' = [result EXCEPT ![k] = r]
        /\ UNCHANGED <<vars, content, verifyVars>>

Write(k) ==
    /\ k < Len(issued)
    /\ \/ BeginWrite(k, issued[k + 1].size)
       \/ (MapFirstView \/ WriteRound) /\ job.index = k
    /\ UNCHANGED <<readVars, content, verifyVars>>

\* OnCompletion, when no input is left to read; results may be missing, and come
\* in later.
ReorderFileData ==
    /\ \/ Reader!GetClientWork(data).wi.size = 0 /\ BeginReorder
       \/ BeginCopy \/ CopyRound \/ EndReorder
    /\ UNCHANGED <<readVars, content, verifyVars>>

-----------------------------------------------------------------------------
(* VerifyNewData *)

\* The value of a byte of NewData.dat; bytes no one wrote are 0.
Value(byte) == IF byte = Unset THEN 0 ELSE result[byte[1] + 1][byte[2]]

\* File::Read: the bytes read from a position, and the buffer after it.  What is
\* not read over stays in the buffer.
ReadCount(file, pos) == Lesser(buffSize, Cardinality(DOMAIN file) - pos)
Filled(buff, file, pos) ==
    [i \in DOMAIN buff |-> IF i < ReadCount(file, pos) THEN file[pos + i] ELSE buff[i]]

NewData == [i \in DOMAIN newFile |-> Value(newFile[i])]

\* Mutated form: the files differ when a block is short.
Equal_Whole(old, new) == old = new /\ ReadCount(NewData, newPos) = buffSize

\* Mutated form: one byte less is compared.
Equal_OneLess(old, new) == \A i \in 0 .. (buffSize - 2) : old[i] = new[i]

\* memcmp(newBuff, tempBuff, size): size is buffSize, also at the end.
Equal(old, new) == old = new

\* One round of the loop.  The algorithm is applied to the whole buffer.
VerifyNewData ==
    LET eof == ReadCount(content, oldPos) = 0
        old == Filled(oldBuff, content, oldPos)
        temp == IF eof THEN tempBuff ELSE AlgorithmInOut(old, buffSize, tempBuff)
        new == Filled(newBuff, NewData, newPos)
    IN
    /\ rpc = "closed" /\ verdict = "none"
    /\ oldBuff' = old /\ tempBuff' = temp /\ newBuff' = new
    /\ oldPos' = oldPos + ReadCount(content, oldPos)
    /\ newPos' = newPos + ReadCount(NewData, newPos)
    /\ verdict' = IF ReadCount(NewData, newPos) = 0
                  THEN IF eof THEN "verified" ELSE "not verified"
                  ELSE IF Equal(temp, new) THEN "none" ELSE "not verified"
    /\ UNCHANGED <<vars, readVars, content>>

PathNext ==
    /\ ~fault
    /\ \/ ReadNew \/ ReadAgain
       \/ \E k \in Results : Write(k)
       \/ ReorderFileData
       \/ VerifyNewData

PathSpec == PathInit /\ [][PathNext]_pathVars

-----------------------------------------------------------------------------
(* Properties *)

\* Every variable has its type.
PathTypeOK ==
    /\ TypeOK /\ Reader!TypeOK
    /\ content \in [0 .. (FileLength - 1) -> Values]
    /\ Len(result) = Len(issued)
    /\ \A k \in DOMAIN issued :
         result[k] \in [0 .. (issued[k].size - 1) -> Values]
    /\ verdict \in {"none", "verified", "not verified"}
    /\ oldPos \in 0 .. FileLength /\ newPos \in Nat
    /\ {oldBuff, tempBuff, newBuff} \subseteq [0 .. (buffSize - 1) -> Values]

\* Which bytes of the input chunks are filled from, with resent work in between
\* (Data::GetClientWork, Data::GetClientWorkPrev).
IssuedBytes == Reader!IssuedBytes

\* The file handle never falls behind the cursor and stays in the file
\* (Data::GetClientWorkPrev).
HandleInFile == Reader!HandleInFile

\* The buffers that VerifyNewData takes the input in: behind the end of the input
\* is what was there one buffer before, or 0.
BufferAt(p) ==
    [i \in 0 .. (buffSize - 1) |->
        IF p + i < FileLength THEN content[p + i]
        ELSE IF p = 0 THEN 0 ELSE content[p + i - buffSize]]

\* What the algorithm makes of the input, taken that way.
BeginOf(i) == i - (i % buffSize)
Expected(i) == AlgorithmInOut(BufferAt(BeginOf(i)), buffSize, Zeros)[i % buffSize]

\* "Data Verified": every byte of the output is what becomes of the byte of the
\* input, whichever results were lost, late, misplaced or computed from other bytes.
\* Bytes missing at the end are not noticed when they are those one buffer before
\* (or 0 in the first): the loop compares what the last read left there.
Repeats(i) == Expected(i) = IF i < buffSize THEN 0 ELSE Expected(i - buffSize)
VerifiedIsOrdered ==
    verdict = "verified" =>
        \A i \in DOMAIN content :
            IF i \in DOMAIN NewData THEN NewData[i] = Expected(i) ELSE Repeats(i)

\* An output that is right is found right (Server::VerifyNewData), if the input is a
\* number of whole words: the last word of another is compared with what the
\* algorithm makes of bytes that are not in it.
OrderedIsVerified ==
    verdict = "not verified" /\ FileLength % WordSize = 0 =>
        NewData # [i \in DOMAIN content |-> Expected(i)]

=============================================================================
