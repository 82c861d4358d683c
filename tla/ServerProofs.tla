----------------------------- MODULE ServerProofs ------------------------------
(* Theorems about Server, for every value of its constants: its types, what     *)
(* holds the chunks, who reorders the output, and where the clients are.        *)
EXTENDS Server, SequenceTheorems, FiniteSetTheorems, TLAPS

-----------------------------------------------------------------------------
(* The reader *)

\* A read returns a natural number of bytes, at most what was asked for.
LEMMA BytesReadBound ==
    ASSUME NEW pos \in Nat, NEW n \in Nat
    PROVE  BytesRead(pos, n) \in Nat /\ BytesRead(pos, n) <= n
BY FileSizeAssumption DEF BytesRead

LEMMA ChunkSizeNat == chunkSize \in Nat
BY FileSizeAssumption, ChunkSizeAssumption DEF chunkSize

\* Work whose chunk the reader has passed.
Known(d) == {wi \in WorkInfo : wi.cursor <= d.cursorPos}

\* GetClientWork returns well-typed work behind the new cursor, and the cursor
\* does not move back.
LEMMA GetClientWorkType ==
    ASSUME NEW d \in DataState
    PROVE  LET r == GetClientWork(d) IN
           /\ r.data \in DataState
           /\ r.data.cursorPos >= d.cursorPos
           /\ r.wi \in Known(r.data)
           /\ r.block \in Block
<1>1. d.filePos \in Nat /\ d.cursorPos \in Nat /\ d.curIndex \in Nat
  BY DEF DataState
<1>2. BytesRead(d.filePos, chunkSize) \in Nat
  BY <1>1, ChunkSizeNat, BytesReadBound
<1>3. CASE BytesRead(d.filePos, chunkSize) > 0
  BY <1>1, <1>2, <1>3 DEF GetClientWork, ChunkAt, DataState, Known, WorkInfo, Block
<1>4. CASE ~(BytesRead(d.filePos, chunkSize) > 0)
  BY <1>1, <1>4 DEF GetClientWork, NoWork, NoBlock, DataState, Known, WorkInfo, Block
<1> QED BY <1>3, <1>4

\* GetClientWorkPrev leaves the cursor and the index alone.
LEMMA GetClientWorkPrevType ==
    ASSUME NEW d \in DataState, NEW wi \in Known(d)
    PROVE  LET r == GetClientWorkPrev(d, wi) IN
           /\ r.data \in DataState
           /\ r.data.cursorPos = d.cursorPos
           /\ r.data.curIndex = d.curIndex
           /\ r.block \in Block
<1> DEFINE back == d.cursorPos - wi.cursor
           pos == d.filePos + back
           read == BytesRead(pos, wi.size)
<1>1. /\ d.filePos \in Nat /\ d.cursorPos \in Nat /\ d.curIndex \in Nat
      /\ wi.cursor \in Nat /\ wi.size \in Nat /\ wi.cursor <= d.cursorPos
  BY DEF DataState, Known, WorkInfo
<1>2. back \in Nat /\ pos \in Nat
  BY <1>1
<1>3. read \in Nat
  BY <1>1, <1>2, BytesReadBound
<1>4. pos + read - back = d.filePos + read
  BY <1>1, <1>2, <1>3
<1>5. [d EXCEPT !.filePos = pos + read - back] \in DataState
  BY <1>1, <1>3, <1>4 DEF DataState
<1> QED BY <1>1, <1>2, <1>3, <1>5 DEF GetClientWorkPrev, Block, DataState

-----------------------------------------------------------------------------
(* Type correctness *)

\* Every WorkInfo the server holds is of a chunk the reader has passed: this is
\* what keeps the arithmetic of GetClientWorkPrev within the file.
WorkKnown ==
    /\ wWork \in [Workers -> Known(data)]
    /\ workMap \in [Clients -> Known(data)]
    /\ hWork \in [Clients -> Known(data)]
    /\ oldWork \in Seq(Known(data))

\* The main thread joins threads that exist.
JoinBounded == mpc # "stopped" => joinNext \in Workers

TypeInv == TypeOK /\ WorkKnown /\ JoinBounded

\* What is behind the cursor stays behind it while the cursor moves on.
LEMMA KnownGrows ==
    ASSUME NEW d \in DataState, NEW e \in DataState, d.cursorPos <= e.cursorPos
    PROVE  Known(d) \subseteq Known(e)
BY DEF Known, WorkInfo, DataState

LEMMA SeqGrows ==
    ASSUME NEW S, NEW T, S \subseteq T
    PROVE  Seq(S) \subseteq Seq(T)
OBVIOUS

LEMMA NoWorkKnown ==
    ASSUME NEW d \in DataState
    PROVE  NoWork \in Known(d)
BY DEF NoWork, Known, WorkInfo, DataState

\* A push appends or is refused.
LEMMA PushEither ==
    ASSUME NEW q, NEW e, NEW held, NEW p \in Push(q, e, held)
    PROVE  p \in {q, Append(q, e)}
BY DEF Push

\* Pushing onto and popping from a bounded queue keeps its type.
LEMMA PushType ==
    ASSUME NEW S, NEW q \in Seq(S), NEW e \in S, NEW p \in {q, Append(q, e)}
    PROVE  p \in Seq(S)
OBVIOUS

\* What EvaluateClient may do to a queue.
LEMMA RequeuedEither ==
    ASSUME NEW q, NEW c, NEW really, NEW p \in Requeued(q, c, really)
    PROVE  p \in {q, Append(q, c)} /\ (~really => p = q)
BY PushEither DEF Requeued

LEMMA PopType ==
    ASSUME NEW S, NEW q \in Seq(S), q # <<>>
    PROVE  Head(q) \in S /\ Tail(q) \in Seq(S)
OBVIOUS

LEMMA InitType == Init => TypeInv
<1> SUFFICES ASSUME Init PROVE TypeInv
  OBVIOUS
<1>1. data \in DataState
  BY DEF Init, LoadData, DataState
<1>2. NoWork \in Known(data) /\ NoWork \in WorkInfo /\ NoBlock \in Block
  BY <1>1, NoWorkKnown DEF NoWork, WorkInfo, NoBlock, Block
<1>3. TypeOK
  <2>1. /\ link \in [Clients -> {"off", "up", "down", "gone"}]
        /\ inbox \in [Clients -> Seq(Block)] /\ outbox \in [Clients -> Seq(Messages)]
        /\ obj \in [Clients -> BOOLEAN]
    BY DEF Init
  <2>2. /\ fastClients \in Seq(Clients) /\ otherClients \in Seq(Clients)
        /\ workMap \in [Clients -> WorkInfo] /\ oldWork \in Seq(WorkInfo)
        /\ tempFile \in Seq([index : Nat, block : Block])
        /\ mapState \in {"open", "reordering", "closed"}
    BY <1>2 DEF Init, NoEntries
  <2>3. /\ wpc \in [Workers -> WorkerPC] /\ wClient \in [Workers -> Clients \cup {NoClient}]
        /\ wWork \in [Workers -> WorkInfo] /\ wBlock \in [Workers -> Block]
    BY <1>2 DEF Init, WorkerPC
  <2>4. /\ hpc \in [Clients -> HandlerPC] /\ hWork \in [Clients -> WorkInfo]
        /\ hBlock \in [Clients -> Block]
    BY <1>2 DEF Init, HandlerPC
  <2>5. threadInitialized \in BOOLEAN /\ exitThread \in BOOLEAN
    BY DEF Init
  <2>6. reorderCounter \in Nat /\ joinNext \in 1 .. (NWorkers + 1)
    BY NWorkersAssumption DEF Init
  <2>7. /\ mpc \in {"prompt", "join", "stopped"}
        /\ fault \in {"none", "nullTime", "nullStamp", "lateWrite", "joinUnstarted"}
    BY DEF Init
  <2> QED BY <1>1, <2>1, <2>2, <2>3, <2>4, <2>5, <2>6, <2>7 DEF TypeOK
<1>4. WorkKnown
  BY <1>2 DEF Init, WorkKnown, NoEntries
<1>5. JoinBounded
  BY NWorkersAssumption DEF Init, JoinBounded, Workers
<1> QED BY <1>3, <1>4, <1>5 DEF TypeInv

LEMMA HandlerType ==
    ASSUME TypeInv, NEW c \in Clients, Handler(c)
    PROVE  TypeInv'
<1> USE DEF TypeInv, TypeOK, WorkKnown, JoinBounded, netVars, queueVars, workVars,
        fileVars, workerVars, handlerVars, mainVars, HandlerPC, GoTo
<1>0. data \in DataState /\ NoWork \in Known(data) /\ NoWork \in WorkInfo
      /\ NoBlock \in Block
  BY NoWorkKnown DEF NoWork, WorkInfo, NoBlock, Block
<1>1. CASE HandleReady(c)
  <2>1. outbox' \in [Clients -> Seq(Messages)]
    BY <1>1, PopType DEF HandleReady, Receive
  <2>2. otherClients' \in {otherClients, Append(otherClients, c)}
    BY <1>1, PushEither DEF HandleReady, AddClient
  <2>3. otherClients' \in Seq(Clients)
    <3>1. otherClients \in Seq(Clients)
      OBVIOUS
    <3>2. Append(otherClients, c) \in Seq(Clients)
      BY <3>1, PushType
    <3> QED BY <2>2, <3>1, <3>2
  <2> QED BY <1>1, <2>1, <2>3 DEF HandleReady, Receive, AddClient
<1>2. CASE HandleReadyInit(c)
  BY <1>2 DEF HandleReadyInit
<1>3. CASE HandleStart(c)
  BY <1>3 DEF HandleStart, WorkerPC
<1>4. CASE HandleComplete(c)
  <2>1. outbox' \in [Clients -> Seq(Messages)] /\ Head(outbox[c]) \in Messages
    BY <1>4, PopType DEF HandleComplete, Receive
  <2>2. Head(outbox[c]).block \in Block
    BY <2>1 DEF Messages
  <2> QED BY <1>4, <2>1, <2>2 DEF HandleComplete, Receive
<1>5. CASE HandleTake(c)
  <2>1. CASE TakeWork(c)
    <3>1. /\ hWork' = [hWork EXCEPT ![c] = workMap[c]]
          /\ workMap' = [workMap EXCEPT ![c] = NoWork]
          /\ hpc' = [hpc EXCEPT ![c] = "write"]
          /\ UNCHANGED <<link, hBlock>>
      BY <1>5, <2>1 DEF HandleTake, TakeWork, Remove
    <3> QED BY <1>0, <1>5, <3>1 DEF HandleTake
  <2>2. CASE ~TakeWork(c)
    <3>1. /\ link' = [link EXCEPT ![c] = "down"]
          /\ hWork' = [hWork EXCEPT ![c] = NoWork]
          /\ hBlock' = [hBlock EXCEPT ![c] = NoBlock]
          /\ hpc' = [hpc EXCEPT ![c] = "idle"]
          /\ UNCHANGED workMap
      BY <1>5, <2>2 DEF HandleTake, Return
    <3> QED BY <1>0, <1>5, <3>1 DEF HandleTake
  <2> QED BY <2>1, <2>2
<1>6. CASE HandleWrite(c)
  <2>1. [index |-> hWork[c].curIndex, block |-> hBlock[c]] \in [index : Nat, block : Block]
    BY DEF WorkInfo
  <2>2. Append(tempFile, [index |-> hWork[c].curIndex, block |-> hBlock[c]])
          \in Seq([index : Nat, block : Block])
    BY <2>1
  <2>3. tempFile' \in Seq([index : Nat, block : Block])
    BY <1>6, <2>2 DEF HandleWrite
  <2> QED BY <1>6, <2>3 DEF HandleWrite
<1>7. CASE HandleEval(c)
  <2>1. /\ fastClients' \in {fastClients, Append(fastClients, c)}
        /\ otherClients' \in {otherClients, Append(otherClients, c)}
    BY <1>7, RequeuedEither DEF HandleEval, EvaluateClient
  <2>2. fastClients' \in Seq(Clients) /\ otherClients' \in Seq(Clients)
    <3>1. fastClients \in Seq(Clients) /\ otherClients \in Seq(Clients)
      OBVIOUS
    <3>2. /\ Append(fastClients, c) \in Seq(Clients)
          /\ Append(otherClients, c) \in Seq(Clients)
      BY <3>1, PushType
    <3> QED BY <2>1, <3>1, <3>2
  <2> QED BY <1>0, <1>7, <2>2 DEF HandleEval, EvaluateClient, Return
<1>8. CASE HandleDisconnect(c)
  BY <1>8 DEF HandleDisconnect
<1>9. CASE HandleDisconnectTake(c)
  <2>1. CASE TakeWork(c)
    <3>1. /\ hWork' = [hWork EXCEPT ![c] = workMap[c]]
          /\ workMap' = [workMap EXCEPT ![c] = NoWork]
          /\ hpc' = [hpc EXCEPT ![c] = "dcPush"]
          /\ UNCHANGED <<link, hBlock>>
      BY <1>9, <2>1 DEF HandleDisconnectTake, TakeWork, Remove
    <3> QED BY <1>0, <1>9, <3>1 DEF HandleDisconnectTake
  <2>2. CASE ~TakeWork(c)
    <3>1. /\ link' = [link EXCEPT ![c] = "gone"]
          /\ hWork' = [hWork EXCEPT ![c] = NoWork]
          /\ hBlock' = [hBlock EXCEPT ![c] = NoBlock]
          /\ hpc' = [hpc EXCEPT ![c] = "idle"]
          /\ UNCHANGED workMap
      BY <1>9, <2>2 DEF HandleDisconnectTake, Return
    <3> QED BY <1>0, <1>9, <3>1 DEF HandleDisconnectTake
  <2> QED BY <2>1, <2>2
<1>10. CASE HandleDisconnectPush(c)
  <2>1. oldWork' \in {oldWork, Append(oldWork, hWork[c])}
    BY <1>10, PushEither DEF HandleDisconnectPush
  <2>2. hWork[c] \in WorkInfo /\ hWork[c] \in Known(data)
    OBVIOUS
  <2>3. oldWork' \in Seq(WorkInfo) /\ oldWork' \in Seq(Known(data))
    BY <2>1, <2>2, PushType
  <2> QED BY <1>0, <1>10, <2>3 DEF HandleDisconnectPush, Return
<1> QED
  BY <1>1, <1>2, <1>3, <1>4, <1>5, <1>6, <1>7, <1>8, <1>9, <1>10 DEF Handler

LEMMA ClientType ==
    ASSUME TypeInv, NEW c \in Clients, Client(c) \/ Break(c)
    PROVE  TypeInv'
<1> USE DEF TypeInv, TypeOK, WorkKnown, JoinBounded, netVars, queueVars, workVars,
        fileVars, workerVars, handlerVars, mainVars
<1>1. CASE ClientReady(c)
  <2>1. READY \in Messages
    BY DEF READY, Messages, NoBlock, Block
  <2> QED BY <1>1, <2>1 DEF ClientReady
<1>2. CASE ClientProcess(c)
  <2>1. Head(inbox[c]) \in Block /\ Tail(inbox[c]) \in Seq(Block)
    BY <1>2, PopType DEF ClientProcess
  <2>2. COMPLETE(Head(inbox[c])) \in Messages
    BY <2>1 DEF COMPLETE, Messages
  <2>3. Append(outbox[c], COMPLETE(Head(inbox[c]))) \in Seq(Messages)
    BY <2>2
  <2>4. inbox' \in [Clients -> Seq(Block)]
    BY <1>2, <2>1 DEF ClientProcess
  <2>5. outbox' \in [Clients -> Seq(Messages)]
    BY <1>2, <2>3 DEF ClientProcess
  <2> QED BY <1>2, <2>4, <2>5 DEF ClientProcess
<1>3. CASE LinkBreak(c)
  BY <1>3 DEF LinkBreak
<1> QED BY <1>1, <1>2, <1>3 DEF Client, Break

LEMMA MainType ==
    ASSUME TypeInv, Main
    PROVE  TypeInv'
<1> USE DEF TypeInv, TypeOK, WorkKnown, JoinBounded, netVars, queueVars, workVars,
        fileVars, workerVars, handlerVars, mainVars
<1>1. CASE Shutdown
  BY <1>1 DEF Shutdown
<1>2. CASE Join
  <2>1. joinNext \in Workers
    BY <1>2 DEF Join
  <2>2. joinNext' \in 1 .. (NWorkers + 1) /\ (mpc' # "stopped" => joinNext' \in Workers)
    BY <1>2, <2>1, NWorkersAssumption DEF Join, Workers
  <2> QED BY <1>2, <2>2 DEF Join
<1> QED BY <1>1, <1>2 DEF Main

\* The steps that GiveNewWork and GiveOldWork share.
LEMMA GiveWorkType ==
    ASSUME TypeInv, NEW w \in Workers, NEW from \in WorkerPC, NEW to \in WorkerPC,
           NEW failed \in WorkerPC,
           Assign(w, from, to) \/ Stamp(w, from, to) \/ Erase(w, from, to)
             \/ Send(w, from, to, failed)
    PROVE  TypeInv'
<1> USE DEF TypeInv, TypeOK, WorkKnown, JoinBounded, netVars, queueVars, workVars,
        fileVars, workerVars, handlerVars, mainVars, Step
<1>1. CASE Assign(w, from, to)
  BY <1>1 DEF Assign, Change
<1>2. CASE Stamp(w, from, to)
  BY <1>2 DEF Stamp
<1>3. CASE Erase(w, from, to)
  <2>1. NoWork \in Known(data) /\ NoWork \in WorkInfo
    BY NoWorkKnown DEF Known
  <2> QED BY <1>3, <2>1 DEF Erase, Remove
<1>4. CASE Send(w, from, to, failed)
  <2>0. \A c \in Clients : Append(inbox[c], wBlock[w]) \in Seq(Block)
    OBVIOUS
  <2>1. inbox' \in [Clients -> Seq(Block)]
    BY <1>4, <2>0 DEF Send
  <2> QED BY <1>4, <2>1, ZenonT(30) DEF Send
<1> QED BY <1>1, <1>2, <1>3, <1>4

\* A step that reads: data moves on and everything known stays known.
LEMMA ReadKeepsKnown ==
    ASSUME TypeInv, data' \in DataState, data.cursorPos <= data'.cursorPos,
           UNCHANGED <<workMap, hWork, oldWork>>, wWork' \in [Workers -> Known(data')]
    PROVE  WorkKnown'
<1>1. Known(data) \subseteq Known(data')
  BY KnownGrows DEF TypeInv, TypeOK
<1>2. Seq(Known(data)) \subseteq Seq(Known(data'))
  BY <1>1, SeqGrows
<1> QED BY <1>1, <1>2 DEF WorkKnown, TypeInv

LEMMA WorkerType ==
    ASSUME TypeInv, NEW w \in Workers, Worker(w)
    PROVE  TypeInv'
<1> USE DEF TypeInv, TypeOK, WorkKnown, JoinBounded, netVars, queueVars, workVars,
        fileVars, workerVars, handlerVars, mainVars, Step, WorkerPC, HoldsClient,
        HoldsChunk
<1>1. CASE Poll(w)
  BY <1>1 DEF Poll
<1>2. CASE FindFast(w)
  <2>1. fastClients # <<>> => Head(fastClients) \in Clients /\ Tail(fastClients) \in Seq(Clients)
    BY PopType
  <2>2. wClient' \in [Workers -> Clients \cup {NoClient}] /\ fastClients' \in Seq(Clients)
    BY <1>2, <2>1 DEF FindFast, Found
  <2>3. wpc' \in [Workers -> WorkerPC]
    BY <1>2 DEF FindFast
  <2> QED BY <1>2, <2>2, <2>3 DEF FindFast
<1>3. CASE FindOther(w)
  <2>1. otherClients # <<>> => Head(otherClients) \in Clients /\ Tail(otherClients) \in Seq(Clients)
    BY PopType
  <2>2. wClient' \in [Workers -> Clients \cup {NoClient}] /\ otherClients' \in Seq(Clients)
    BY <1>3, <2>1 DEF FindOther, Found
  <2>3. wpc' \in [Workers -> WorkerPC]
    BY <1>3 DEF FindOther
  <2> QED BY <1>3, <2>2, <2>3 DEF FindOther
<1>4. CASE PickWork(w)
  <2>1. oldWork # <<>> => /\ Head(oldWork) \in Known(data)
                         /\ Tail(oldWork) \in Seq(Known(data))
                         /\ Tail(oldWork) \in Seq(WorkInfo)
    BY PopType
  <2>2. Head(oldWork) \in WorkInfo \/ oldWork = <<>>
    BY <2>1 DEF Known
  <2>3. wpc' \in [Workers -> WorkerPC]
    BY <1>4 DEF PickWork
  <2>4. CASE oldWork # <<>>
    <3>1. /\ wWork' = [wWork EXCEPT ![w] = Head(oldWork)]
          /\ oldWork' = Tail(oldWork)
      BY <1>4, <2>4 DEF PickWork
    <3>2. wWork' \in [Workers -> Known(data)] /\ wWork' \in [Workers -> WorkInfo]
      BY <2>1, <2>2, <2>4, <3>1
    <3> QED BY <1>4, <2>1, <2>3, <2>4, <3>1, <3>2 DEF PickWork
  <2>5. CASE oldWork = <<>>
    BY <1>4, <2>3, <2>5 DEF PickWork
  <2> QED BY <2>4, <2>5
<1>5. CASE Check(w)
  <2>1. NoWork \in Known(data) /\ NoWork \in WorkInfo /\ NoBlock \in Block
    BY NoWorkKnown DEF Known, NoBlock, Block
  <2> QED BY <1>5, <2>1 DEF Check
<1>6. CASE NewRead(w)
  <2> DEFINE r == GetClientWork(data)
  <2>1. /\ r.data \in DataState /\ r.data.cursorPos >= data.cursorPos
        /\ r.wi \in Known(r.data) /\ r.block \in Block
    BY GetClientWorkType
  <2>2. data.cursorPos <= r.data.cursorPos
    BY <2>1 DEF DataState
  <2> HIDE DEF r
  <2>3. data' = r.data /\ wWork' = [wWork EXCEPT ![w] = r.wi] /\ wBlock' = [wBlock EXCEPT ![w] = r.block]
    BY <1>6 DEF NewRead, r
  <2>4. Known(data) \subseteq Known(r.data)
    BY <2>1, <2>2, KnownGrows
  <2>5. wWork' \in [Workers -> Known(data')]
    BY <2>1, <2>3, <2>4
  <2>6. WorkKnown'
    BY <1>6, <2>1, <2>2, <2>3, <2>5, ReadKeepsKnown DEF NewRead
  <2>7. wWork' \in [Workers -> WorkInfo]
    BY <2>5 DEF Known
  <2>8. wpc' \in [Workers -> WorkerPC]
    BY <1>6 DEF NewRead
  <2> QED BY <1>6, <2>1, <2>3, <2>6, <2>7, <2>8 DEF NewRead
<1>7. CASE NewAssign(w)
  BY <1>7, GiveWorkType DEF NewAssign
<1>8. CASE NewStamp(w)
  BY <1>8, GiveWorkType DEF NewStamp
<1>9. CASE NewSend(w)
  BY <1>9, GiveWorkType DEF NewSend
<1>10. CASE NewRemove(w)
  BY <1>10, GiveWorkType DEF NewRemove
<1>11. CASE DrainMap(w)
  BY <1>11 DEF DrainMap
<1>12. CASE DrainOld(w)
  BY <1>12 DEF DrainOld
<1>13. CASE Finish(w)
  BY <1>13 DEF Finish
<1>14. CASE Reorder(w)
  BY <1>14 DEF Reorder
<1>15. CASE ReorderEnd(w)
  BY <1>15 DEF ReorderEnd
<1>16. CASE OldRead(w)
  <2> DEFINE r == GetClientWorkPrev(data, wWork[w])
  <2>1. /\ r.data \in DataState /\ r.data.cursorPos = data.cursorPos
        /\ r.block \in Block
    BY GetClientWorkPrevType
  <2>2. data.cursorPos <= r.data.cursorPos
    BY <2>1 DEF DataState
  <2> HIDE DEF r
  <2>3. data' = r.data /\ UNCHANGED wWork /\ wBlock' = [wBlock EXCEPT ![w] = r.block]
    BY <1>16 DEF OldRead, r
  <2>4. Known(data) \subseteq Known(r.data)
    BY <2>1, <2>2, KnownGrows
  <2>5. wWork' \in [Workers -> Known(data')]
    BY <2>3, <2>4
  <2>6. WorkKnown'
    BY <1>16, <2>1, <2>2, <2>3, <2>5, ReadKeepsKnown DEF OldRead
  <2>7. wpc' \in [Workers -> WorkerPC]
    BY <1>16 DEF OldRead
  <2> QED BY <1>16, <2>1, <2>3, <2>6, <2>7 DEF OldRead
<1>17. CASE OldAssign(w)
  BY <1>17, GiveWorkType DEF OldAssign
<1>18. CASE OldStamp(w)
  BY <1>18, GiveWorkType DEF OldStamp
<1>19. CASE OldSend(w)
  BY <1>19, GiveWorkType DEF OldSend
<1>20. CASE OldRemove(w)
  BY <1>20, GiveWorkType DEF OldRemove
<1> HIDE DEF TypeInv, WorkerPC
<1> QED
  BY <1>1, <1>2, <1>3, <1>4, <1>5, <1>6, <1>7, <1>8, <1>9, <1>10, <1>11, <1>12, <1>13,
     <1>14, <1>15, <1>16, <1>17, <1>18, <1>19, <1>20 DEF Worker

\* Every variable keeps its type, every WorkInfo lies behind the reader's cursor
\* and the main thread joins only threads there are.
THEOREM TypeCorrect == Spec => [](TypeOK /\ WorkKnown)
<1>1. Init => TypeInv
  BY InitType
<1>2. TypeInv /\ [Next]_vars => TypeInv'
  <2> SUFFICES ASSUME TypeInv, [Next]_vars PROVE TypeInv'
    OBVIOUS
  <2>1. CASE Next
    BY <2>1, ClientType, HandlerType, WorkerType, MainType DEF Next
  <2>2. CASE UNCHANGED vars
    BY <2>2 DEF vars, netVars, queueVars, workVars, fileVars, workerVars, handlerVars,
                mainVars, TypeInv, TypeOK, WorkKnown, JoinBounded
  <2> QED BY <2>1, <2>2
<1>3. TypeInv => TypeOK /\ WorkKnown
  BY DEF TypeInv
<1> QED BY <1>1, <1>2, <1>3, PTL DEF Spec

-----------------------------------------------------------------------------
(* A set all of whose elements are equal has at most one *)

LEMMA AtMostOne ==
    ASSUME NEW S, \A x, y \in S : x = y
    PROVE  IsFiniteSet(S) /\ Cardinality(S) \in {0, 1}
<1>1. CASE S = {}
  BY <1>1, FS_EmptySet
<1>2. CASE S # {}
  <2>1. PICK x \in S : TRUE
    BY <1>2
  <2>2. S = {x}
    BY <2>1
  <2> QED BY <2>2, FS_Singleton
<1> QED BY <1>1, <1>2

-----------------------------------------------------------------------------
(* The output is reordered once *)

Reorders(w) == wpc[w] \in {"reorder", "reorderEnd"}

\* Only a worker that moved reorderCounter from 0 to 1 reorders, and it closes
\* the mapping when it leaves.
ReorderInv ==
    /\ \A v, w \in Workers : Reorders(v) /\ Reorders(w) => v = w
    /\ \A w \in Workers : Reorders(w) => reorderCounter # 0 /\ mapState # "closed"
    /\ mapState = "closed" => reorderCounter # 0

\* Where a step that neither reorders nor finishes takes worker w.
Elsewhere == WorkerPC \ {"reorder", "reorderEnd"}
MovesElsewhere(w) == \E pc \in Elsewhere : wpc' = [wpc EXCEPT ![w] = pc]

\* A step that leaves the mapping and the counter alone, and takes at most one
\* worker elsewhere, preserves the invariant.
LEMMA ReorderKept ==
    ASSUME wpc \in [Workers -> WorkerPC], ReorderInv,
           UNCHANGED <<mapState, reorderCounter>>,
           NEW w \in Workers, UNCHANGED wpc \/ MovesElsewhere(w)
    PROVE  ReorderInv'
<1>1. \A v \in Workers : Reorders(v)' => Reorders(v)
  <2>1. CASE UNCHANGED wpc
    BY <2>1 DEF Reorders
  <2>2. CASE MovesElsewhere(w)
    BY <2>2 DEF MovesElsewhere, Elsewhere, Reorders
  <2> QED BY <2>1, <2>2
<1> QED BY <1>1 DEF ReorderInv

LEMMA StepElsewhere ==
    ASSUME NEW w, NEW from, NEW to \in Elsewhere, Step(w, from, to)
    PROVE  MovesElsewhere(w)
BY DEF Step, MovesElsewhere

\* Giving work to a client, and waiting for work, is such a step.
LEMMA ReorderGive ==
    ASSUME NEW w \in Workers, Worker(w), ~Finish(w), ~Reorder(w), ~ReorderEnd(w)
    PROVE  /\ UNCHANGED <<mapState, reorderCounter>>
           /\ UNCHANGED wpc \/ MovesElsewhere(w)
<1> USE DEF fileVars, mainVars
<1>e. /\ {"poll", "findFast", "findOther", "pick", "check", "done"} \subseteq Elsewhere
      /\ {"drainMap", "drainOld", "finish"} \subseteq Elsewhere
      /\ {"newRead", "newAssign", "newStamp", "newSend", "newRemove"} \subseteq Elsewhere
      /\ {"oldRead", "oldAssign", "oldStamp", "oldSend", "oldRemove"} \subseteq Elsewhere
  BY DEF Elsewhere, WorkerPC, HoldsClient, HoldsChunk
<1>1. CASE Poll(w)
  BY <1>1, <1>e, StepElsewhere DEF Poll
<1>2. CASE FindFast(w)
  BY <1>2, <1>e, StepElsewhere DEF FindFast
<1>3. CASE FindOther(w)
  BY <1>3, <1>e, StepElsewhere DEF FindOther
<1>4. CASE PickWork(w)
  BY <1>4, <1>e, StepElsewhere DEF PickWork
<1>5. CASE Check(w)
  BY <1>5, <1>e, StepElsewhere DEF Check
<1>6. CASE NewRead(w)
  BY <1>6, <1>e, StepElsewhere DEF NewRead
<1>7. CASE DrainMap(w)
  BY <1>7, <1>e, StepElsewhere DEF DrainMap
<1>8. CASE DrainOld(w)
  BY <1>8, <1>e, StepElsewhere DEF DrainOld
<1>9. CASE OldRead(w)
  BY <1>9, <1>e, StepElsewhere DEF OldRead
<1>10. CASE NewAssign(w)
  BY <1>10, <1>e, StepElsewhere DEF NewAssign, Assign
<1>11. CASE OldAssign(w)
  BY <1>11, <1>e, StepElsewhere DEF OldAssign, Assign
<1>12. CASE NewStamp(w)
  BY <1>12, <1>e, StepElsewhere DEF NewStamp, Stamp
<1>13. CASE OldStamp(w)
  BY <1>13, <1>e, StepElsewhere DEF OldStamp, Stamp
<1>14. CASE NewSend(w)
  BY <1>14, <1>e, StepElsewhere DEF NewSend, Send
<1>15. CASE OldSend(w)
  BY <1>15, <1>e, StepElsewhere DEF OldSend, Send
<1>16. CASE NewRemove(w)
  BY <1>16, <1>e, StepElsewhere DEF NewRemove, Erase
<1>17. CASE OldRemove(w)
  BY <1>17, <1>e, StepElsewhere DEF OldRemove, Erase
<1> QED BY <1>1, <1>2, <1>3, <1>4, <1>5, <1>6, <1>7, <1>8, <1>9,
          <1>10, <1>11, <1>12, <1>13, <1>14, <1>15, <1>16, <1>17 DEF Worker

\* So is every step of a client and its handlers.
LEMMA ReorderClient ==
    ASSUME NEW c \in Clients, Client(c) \/ Break(c) \/ Handler(c)
    PROVE  /\ UNCHANGED <<mapState, reorderCounter>>
           /\ UNCHANGED wpc \/ \E w \in Workers : MovesElsewhere(w)
<1> USE DEF fileVars, mainVars, workerVars
<1>1. CASE Client(c) \/ Break(c)
  BY <1>1 DEF Client, Break, ClientReady, ClientProcess, LinkBreak
<1>2. CASE HandleReady(c) \/ HandleReadyInit(c) \/ HandleComplete(c)
  BY <1>2 DEF HandleReady, HandleReadyInit, HandleComplete
<1>3. CASE HandleStart(c)
  <2>1. PICK w \in Workers : wpc' = [wpc EXCEPT ![w] = "poll"]
    BY <1>3 DEF HandleStart
  <2>2. MovesElsewhere(w)
    BY <2>1 DEF MovesElsewhere, Elsewhere, WorkerPC
  <2> QED BY <1>3, <2>2 DEF HandleStart
<1>4. CASE HandleTake(c) \/ HandleWrite(c) \/ HandleEval(c)
  BY <1>4 DEF HandleTake, HandleWrite, HandleEval
<1>5. CASE HandleDisconnect(c) \/ HandleDisconnectTake(c) \/ HandleDisconnectPush(c)
  BY <1>5 DEF HandleDisconnect, HandleDisconnectTake, HandleDisconnectPush
<1> QED BY <1>1, <1>2, <1>3, <1>4, <1>5 DEF Handler

LEMMA ReorderStep ==
    ASSUME TypeOK, ReorderInv, [Next]_vars
    PROVE  ReorderInv'
<1>1. /\ wpc \in [Workers -> WorkerPC] /\ reorderCounter \in Nat
  BY DEF TypeOK
<1>2. ASSUME NEW w \in Workers, Finish(w) PROVE ReorderInv'
  <2>1. /\ wpc[w] = "finish" /\ reorderCounter' = reorderCounter + 1
        /\ reorderCounter' # 0 /\ UNCHANGED mapState
    BY <1>1, <1>2 DEF Finish, Step, fileVars
  <2>2. CASE reorderCounter = 0
    <3>1. \A v \in Workers : ~Reorders(v)
      BY <2>2 DEF ReorderInv
    <3>2. \A v \in Workers : Reorders(v)' => v = w
      BY <1>1, <1>2, <3>1 DEF Finish, Step, Reorders
    <3>3. mapState # "closed"
      BY <2>2 DEF ReorderInv
    <3> QED BY <2>1, <3>2, <3>3 DEF ReorderInv
  <2>3. CASE reorderCounter # 0
    <3>1. ~FirstToFinish
      BY <1>1, <2>3 DEF FirstToFinish
    <3>3. wpc' = [wpc EXCEPT ![w] = "done"]
      BY <1>2, <3>1 DEF Finish, Step
    <3>2. \A v \in Workers : Reorders(v)' => Reorders(v)
      BY <1>1, <3>3 DEF Reorders
    <3> QED BY <2>1, <3>2 DEF ReorderInv
  <2> QED BY <2>2, <2>3
<1>3. ASSUME NEW w \in Workers, Reorder(w) PROVE ReorderInv'
  <2>1. Reorders(w) /\ UNCHANGED reorderCounter /\ mapState' = "reordering"
    BY <1>3 DEF Reorder, Step, Reorders, mainVars
  <2>2. \A v \in Workers : Reorders(v)' => Reorders(v)
    BY <1>1, <1>3 DEF Reorder, Step, Reorders
  <2> QED BY <2>1, <2>2 DEF ReorderInv
<1>4. ASSUME NEW w \in Workers, ReorderEnd(w) PROVE ReorderInv'
  <2>1. Reorders(w) /\ UNCHANGED reorderCounter
    BY <1>4 DEF ReorderEnd, Step, Reorders, mainVars
  <2>2. \A v \in Workers : Reorders(v)' => Reorders(v) /\ v # w
    BY <1>1, <1>4 DEF ReorderEnd, Step, Reorders
  <2>3. \A v \in Workers : ~Reorders(v)'
    BY <2>1, <2>2 DEF ReorderInv
  <2> QED BY <2>1, <2>3 DEF ReorderInv
<1>5. ASSUME NEW w \in Workers, Worker(w) PROVE ReorderInv'
  BY <1>1, <1>2, <1>3, <1>4, <1>5, ReorderGive, ReorderKept
<1>6. ASSUME NEW c \in Clients, Client(c) \/ Break(c) \/ Handler(c) PROVE ReorderInv'
  <2>1. 1 \in Workers
    BY NWorkersAssumption DEF Workers
  <2> QED BY <1>1, <1>6, <2>1, ReorderClient, ReorderKept
<1>7. CASE Main
  BY <1>7 DEF Main, Shutdown, Join, ReorderInv, Reorders, fileVars, workerVars
<1>8. CASE UNCHANGED vars
  BY <1>8 DEF vars, ReorderInv, Reorders, fileVars, workerVars, mainVars
<1> QED BY <1>5, <1>6, <1>7, <1>8 DEF Next

\* However many workers run out of work, and whenever: the output is reordered
\* once (Server.cpp:141, the atomic reorderCounter).
THEOREM ReorderOnce == Spec => []ReorderedOnce
<1>1. Init => ReorderInv
  BY DEF Init, ReorderInv, Reorders
<1>2. TypeOK /\ ReorderInv /\ [Next]_vars => ReorderInv'
  BY ReorderStep
<1>3. ReorderInv => ReorderedOnce
  <2> SUFFICES ASSUME ReorderInv PROVE ReorderedOnce
    OBVIOUS
  <2> DEFINE S == {w \in Workers : wpc[w] \in {"reorder", "reorderEnd"}}
  <2>1. Cardinality(S) \in {0, 1}
    BY AtMostOne DEF ReorderInv, Reorders
  <2>2. CASE mapState = "closed"
    <3>1. S = {}
      BY <2>2 DEF ReorderInv, Reorders
    <3> QED BY <2>2, <3>1, FS_EmptySet DEF ReorderedOnce
  <2>3. CASE mapState # "closed"
    BY <2>1, <2>3 DEF ReorderedOnce
  <2> QED BY <2>2, <2>3
<1> QED BY <1>1, <1>2, <1>3, TypeCorrect, PTL DEF Spec

-----------------------------------------------------------------------------
(* A chunk is in one place at a time *)

WorkerHolds(w) == wpc[w] \in HoldsChunk
HandlerHolds(c) == hpc[c] \in {"write", "dcPush"}

\* Two holders of the same kind hold different chunks.
KindApart ==
    /\ \A v, w \in Workers : WorkerHolds(v) /\ WorkerHolds(w) /\ v # w
            => wWork[v].curIndex # wWork[w].curIndex
    /\ \A c, d \in Clients : HasWork(workMap, c) /\ HasWork(workMap, d) /\ c # d
            => workMap[c].curIndex # workMap[d].curIndex
    /\ \A c, d \in Clients : HandlerHolds(c) /\ HandlerHolds(d) /\ c # d
            => hWork[c].curIndex # hWork[d].curIndex
    /\ \A j, k \in DOMAIN oldWork : j # k => oldWork[j].curIndex # oldWork[k].curIndex
    /\ \A j, k \in DOMAIN tempFile : j # k => tempFile[j].index # tempFile[k].index

\* What a worker holds is held nowhere else.
WorkerApart ==
    \A w \in Workers : WorkerHolds(w) =>
        /\ \A c \in Clients : HasWork(workMap, c) => workMap[c].curIndex # wWork[w].curIndex
        /\ \A c \in Clients : HandlerHolds(c) => hWork[c].curIndex # wWork[w].curIndex
        /\ \A k \in DOMAIN oldWork : oldWork[k].curIndex # wWork[w].curIndex
        /\ \A k \in DOMAIN tempFile : tempFile[k].index # wWork[w].curIndex

\* Nor is what the map holds, or a handler.
MapApart ==
    \A c \in Clients : HasWork(workMap, c) =>
        /\ \A d \in Clients : HandlerHolds(d) => hWork[d].curIndex # workMap[c].curIndex
        /\ \A k \in DOMAIN oldWork : oldWork[k].curIndex # workMap[c].curIndex
        /\ \A k \in DOMAIN tempFile : tempFile[k].index # workMap[c].curIndex
HandlerApart ==
    \A c \in Clients : HandlerHolds(c) =>
        /\ \A k \in DOMAIN oldWork : oldWork[k].curIndex # hWork[c].curIndex
        /\ \A k \in DOMAIN tempFile : tempFile[k].index # hWork[c].curIndex

\* Stored work is not written.
StoredApart ==
    \A j \in DOMAIN oldWork, k \in DOMAIN tempFile : oldWork[j].curIndex # tempFile[k].index

\* Only chunks that were read have holders, so that a new one has none.
HeldIssued ==
    /\ \A w \in Workers : WorkerHolds(w) => wWork[w].curIndex < data.curIndex
    /\ \A c \in Clients : HasWork(workMap, c) => workMap[c].curIndex < data.curIndex
    /\ \A c \in Clients : HandlerHolds(c) => hWork[c].curIndex < data.curIndex
    /\ \A k \in DOMAIN oldWork : oldWork[k].curIndex < data.curIndex
    /\ \A k \in DOMAIN tempFile : tempFile[k].index < data.curIndex

OwnerInv ==
    KindApart /\ WorkerApart /\ MapApart /\ HandlerApart /\ StoredApart /\ HeldIssued

\* The types the invariant is about.
OwnerTypes ==
    /\ wWork \in [Workers -> WorkInfo]
    /\ workMap \in [Clients -> WorkInfo] /\ hWork \in [Clients -> WorkInfo]
    /\ oldWork \in Seq(WorkInfo)
    /\ tempFile \in Seq([index : Nat, block : Block])
    /\ data \in DataState
    /\ wpc \in [Workers -> WorkerPC] /\ hpc \in [Clients -> HandlerPC]

LEMMA TypesOfOwners == TypeOK => OwnerTypes
BY DEF TypeOK, OwnerTypes

\* Popping a queue moves every other element down by one.
LEMMA PopPlaces ==
    ASSUME NEW S, NEW q \in Seq(S), q # <<>>
    PROVE  /\ 1 \in DOMAIN q /\ Head(q) = q[1]
           /\ \A k \in DOMAIN Tail(q) : k + 1 \in DOMAIN q /\ k + 1 # 1 /\ Tail(q)[k] = q[k + 1]
           /\ \A j, k \in DOMAIN Tail(q) : j # k => j + 1 # k + 1
OBVIOUS

\* Appending puts one element behind the others.
LEMMA AppendPlaces ==
    ASSUME NEW S, NEW q \in Seq(S), NEW e \in S
    PROVE  \A k \in DOMAIN Append(q, e) :
             \/ k \in DOMAIN q /\ Append(q, e)[k] = q[k]
             \/ k = Len(q) + 1 /\ k \notin DOMAIN q /\ Append(q, e)[k] = e
OBVIOUS

LEMMA PushPlaces ==
    ASSUME NEW S, NEW q \in Seq(S), NEW e \in S, NEW p \in {q, Append(q, e)}
    PROVE  \A k \in DOMAIN p :
             \/ k \in DOMAIN q /\ p[k] = q[k]
             \/ k = Len(q) + 1 /\ k \notin DOMAIN q /\ p[k] = e
BY AppendPlaces

LEMMA SeqElements ==
    ASSUME NEW S, NEW q \in Seq(S)
    PROVE  \A k \in DOMAIN q : q[k] \in S
OBVIOUS

\* Chunks are numbered.
LEMMA HeldNat ==
    ASSUME OwnerTypes
    PROVE  /\ \A w \in Workers : wWork[w].curIndex \in Nat
           /\ \A c \in Clients : workMap[c].curIndex \in Nat /\ hWork[c].curIndex \in Nat
           /\ \A k \in DOMAIN oldWork : oldWork[k].curIndex \in Nat
           /\ \A k \in DOMAIN tempFile : tempFile[k].index \in Nat
<1>1. \A w \in Workers : wWork[w] \in WorkInfo
  BY DEF OwnerTypes
<1>2. \A c \in Clients : workMap[c] \in WorkInfo /\ hWork[c] \in WorkInfo
  BY DEF OwnerTypes
<1>3. \A k \in DOMAIN oldWork : oldWork[k] \in WorkInfo
  BY SeqElements DEF OwnerTypes
<1>4. \A k \in DOMAIN tempFile : tempFile[k] \in [index : Nat, block : Block]
  BY SeqElements DEF OwnerTypes
<1> QED BY <1>1, <1>2, <1>3, <1>4 DEF WorkInfo

\* A step after which no one holds what he did not hold before.
LEMMA OwnersShrink ==
    ASSUME OwnerTypes, OwnerTypes', OwnerInv, data.curIndex <= data'.curIndex,
           UNCHANGED <<oldWork, tempFile>>,
           \A w \in Workers : WorkerHolds(w)' => WorkerHolds(w) /\ wWork'[w] = wWork[w],
           \A c \in Clients : HasWork(workMap', c) =>
                HasWork(workMap, c) /\ workMap'[c] = workMap[c],
           \A c \in Clients : HandlerHolds(c)' => HandlerHolds(c) /\ hWork'[c] = hWork[c]
    PROVE  OwnerInv'
<1>1. KindApart'
  BY DEF OwnerInv, KindApart
<1>2. WorkerApart'
  BY DEF OwnerInv, WorkerApart
<1>3. MapApart'
  BY DEF OwnerInv, MapApart
<1>4. HandlerApart' /\ StoredApart'
  BY DEF OwnerInv, HandlerApart, StoredApart
<1>5. HeldIssued'
  <2>1. data.curIndex \in Nat /\ data'.curIndex \in Nat
    BY DEF OwnerTypes, DataState
  <2>2. /\ \A w \in Workers : wWork[w].curIndex \in Nat
        /\ \A c \in Clients : workMap[c].curIndex \in Nat /\ hWork[c].curIndex \in Nat
        /\ \A k \in DOMAIN oldWork : oldWork[k].curIndex \in Nat
        /\ \A k \in DOMAIN tempFile : tempFile[k].index \in Nat
    BY HeldNat
  <2> QED BY <2>1, <2>2 DEF OwnerInv, HeldIssued
<1> QED BY <1>1, <1>2, <1>3, <1>4, <1>5 DEF OwnerInv

\* A new chunk has the next index.
LEMMA NewIndex ==
    ASSUME NEW d \in DataState
    PROVE  LET r == GetClientWork(d) IN
           \/ r.wi.size = 0 /\ r.data.curIndex = d.curIndex
           \/ r.wi.curIndex = d.curIndex /\ r.data.curIndex = d.curIndex + 1
BY DEF GetClientWork, ChunkAt, NoWork, DataState

\* Reading a new chunk: the worker holds what no one held before.
LEMMA NewReadOwner ==
    ASSUME OwnerTypes, OwnerTypes', OwnerInv, NEW w \in Workers, NewRead(w)
    PROVE  OwnerInv'
<1> DEFINE r == GetClientWork(data)
<1>1. data.curIndex \in Nat /\ data' = r.data /\ data'.curIndex \in Nat
  BY DEF OwnerTypes, DataState, NewRead
<1>2. /\ wWork' = [wWork EXCEPT ![w] = r.wi]
      /\ wpc' = [wpc EXCEPT ![w] = IF r.wi.size > 0 THEN "newAssign" ELSE "drainMap"]
      /\ UNCHANGED <<workMap, oldWork, tempFile, hpc, hWork>>
  BY DEF NewRead, Step, handlerVars, fileVars
<1>3. \/ r.wi.size = 0 /\ r.data.curIndex = data.curIndex
      \/ r.wi.curIndex = data.curIndex /\ r.data.curIndex = data.curIndex + 1
  BY NewIndex DEF OwnerTypes
<1> HIDE DEF r
<1>4. CASE r.wi.size = 0 /\ r.data.curIndex = data.curIndex
  <2>1. \A v \in Workers : WorkerHolds(v)' => WorkerHolds(v) /\ wWork'[v] = wWork[v]
    BY <1>2, <1>4 DEF OwnerTypes, WorkerHolds, HoldsChunk
  <2>2. /\ \A c \in Clients : HasWork(workMap', c) =>
                HasWork(workMap, c) /\ workMap'[c] = workMap[c]
        /\ \A c \in Clients : HandlerHolds(c)' => HandlerHolds(c) /\ hWork'[c] = hWork[c]
    BY <1>2 DEF HandlerHolds
  <2> QED BY <1>1, <1>2, <1>4, <2>1, <2>2, OwnersShrink
<1>5. CASE r.wi.curIndex = data.curIndex /\ r.data.curIndex = data.curIndex + 1
  <2>1. \A v \in Workers : v # w /\ WorkerHolds(v)' => WorkerHolds(v) /\ wWork'[v] = wWork[v]
    BY <1>2 DEF OwnerTypes, WorkerHolds
  <2>2. wWork'[w].curIndex = data.curIndex
    BY <1>2, <1>5 DEF OwnerTypes
  <2>3. data'.curIndex = data.curIndex + 1
    BY <1>1, <1>5
  <2>4. /\ \A v \in Workers : wWork[v].curIndex \in Nat
        /\ \A c \in Clients : workMap[c].curIndex \in Nat /\ hWork[c].curIndex \in Nat
        /\ \A k \in DOMAIN oldWork : oldWork[k].curIndex \in Nat
        /\ \A k \in DOMAIN tempFile : tempFile[k].index \in Nat
    BY HeldNat
  <2> QED
    <3> USE <1>1, <1>2, <2>1, <2>2, <2>3, <2>4 DEF OwnerInv, HandlerHolds, HasWork, HeldIssued
    <3>1. KindApart'
      BY DEF KindApart
    <3>2. WorkerApart'
      BY DEF WorkerApart
    <3>3. MapApart' /\ HandlerApart' /\ StoredApart'
      BY DEF MapApart, HandlerApart, StoredApart
    <3>4. HeldIssued'
      OBVIOUS
    <3> QED BY <3>1, <3>2, <3>3, <3>4
<1> QED BY <1>3, <1>4, <1>5

\* Change: the chunk goes from the worker to the map.
LEMMA AssignOwner ==
    ASSUME OwnerTypes, OwnerTypes', OwnerInv, NEW w \in Workers, NEW from \in HoldsChunk,
           NEW to, to \notin HoldsChunk, Assign(w, from, to)
    PROVE  OwnerInv'
<1>1. /\ workMap' = [workMap EXCEPT ![wClient[w]] = wWork[w]]
      /\ wpc[w] = from /\ wpc' = [wpc EXCEPT ![w] = to]
      /\ UNCHANGED <<wWork, oldWork, data, tempFile, hpc, hWork>>
  BY DEF Assign, Change, Step, handlerVars, fileVars
<1>2. WorkerHolds(w) /\ ~WorkerHolds(w)'
  BY <1>1 DEF WorkerHolds, OwnerTypes
<1>3. \A v \in Workers : WorkerHolds(v)' => v # w /\ WorkerHolds(v)
  BY <1>1, <1>2 DEF WorkerHolds, OwnerTypes
<1>4. \A c \in Clients : HasWork(workMap', c) =>
          \/ workMap'[c] = wWork[w] /\ c = wClient[w]
          \/ HasWork(workMap, c) /\ workMap'[c] = workMap[c] /\ c # wClient[w]
  BY <1>1 DEF HasWork, OwnerTypes
<1> USE <1>1, <1>2, <1>3, <1>4 DEF OwnerInv, HandlerHolds, HasWork
<1>5. KindApart'
  BY DEF KindApart, WorkerApart
<1>6. WorkerApart'
  BY DEF KindApart, WorkerApart
<1>7. MapApart'
  BY DEF MapApart, WorkerApart
<1>8. HandlerApart' /\ StoredApart'
  BY DEF HandlerApart, StoredApart
<1>9. HeldIssued'
  BY DEF HeldIssued
<1> QED BY <1>5, <1>6, <1>7, <1>8, <1>9

\* oldWork.pop: the chunk goes from the queue to the worker.
LEMMA PickOwner ==
    ASSUME OwnerTypes, OwnerTypes', OwnerInv, NEW w \in Workers, PickWork(w), oldWork # <<>>
    PROVE  OwnerInv'
<1>1. /\ wWork' = [wWork EXCEPT ![w] = Head(oldWork)]
      /\ oldWork' = Tail(oldWork)
      /\ wpc' = [wpc EXCEPT ![w] = "oldRead"]
      /\ UNCHANGED <<workMap, data, tempFile, hpc, hWork>>
  BY DEF PickWork, Step, handlerVars, fileVars
<1>2. /\ 1 \in DOMAIN oldWork /\ wWork'[w] = oldWork[1]
      /\ \A k \in DOMAIN oldWork' :
            k + 1 \in DOMAIN oldWork /\ k + 1 # 1 /\ oldWork'[k] = oldWork[k + 1]
      /\ \A j, k \in DOMAIN oldWork' : j # k => j + 1 # k + 1
  BY <1>1, PopPlaces DEF OwnerTypes
<1>3. \A v \in Workers : v # w /\ WorkerHolds(v)' => WorkerHolds(v) /\ wWork'[v] = wWork[v]
  BY <1>1 DEF WorkerHolds, OwnerTypes
<1> USE <1>1, <1>2, <1>3 DEF OwnerInv, HandlerHolds, HasWork
<1>5. KindApart'
  BY DEF KindApart, WorkerApart
<1>6. WorkerApart'
  BY DEF KindApart, WorkerApart, MapApart, HandlerApart, StoredApart
<1>7. MapApart'
  BY DEF MapApart
<1>8. HandlerApart' /\ StoredApart'
  BY DEF HandlerApart, StoredApart
<1>9. HeldIssued'
  BY DEF HeldIssued
<1> QED BY <1>5, <1>6, <1>7, <1>8, <1>9

\* GetClientWork of the map: the chunk goes from the map to the handler.
LEMMA TakeOwner ==
    ASSUME OwnerTypes, OwnerTypes', OwnerInv, NEW c \in Clients, TakeWork(c), ~HandlerHolds(c),
           NEW to, hpc' = [hpc EXCEPT ![c] = to],
           UNCHANGED <<wWork, wpc, oldWork, data, tempFile>>
    PROVE  OwnerInv'
<1>1. /\ HasWork(workMap, c)
      /\ hWork' = [hWork EXCEPT ![c] = workMap[c]]
      /\ workMap' = [workMap EXCEPT ![c] = NoWork]
  BY DEF TakeWork, Remove
<1>2. \A d \in Clients : HasWork(workMap', d) =>
          d # c /\ HasWork(workMap, d) /\ workMap'[d] = workMap[d]
  BY <1>1 DEF HasWork, OwnerTypes
<1>3. \A d \in Clients : HandlerHolds(d)' =>
          \/ d = c /\ hWork'[d] = workMap[c]
          \/ d # c /\ HandlerHolds(d) /\ hWork'[d] = hWork[d]
  BY <1>1 DEF HandlerHolds, OwnerTypes
<1> USE <1>1, <1>2, <1>3 DEF OwnerInv, WorkerHolds, HasWork
<1>5. KindApart'
  BY DEF KindApart, MapApart
<1>6. WorkerApart'
  BY DEF WorkerApart
<1>7. MapApart'
  BY DEF MapApart, KindApart
<1>8. HandlerApart' /\ StoredApart'
  BY DEF HandlerApart, StoredApart, MapApart
<1>9. HeldIssued'
  BY DEF HeldIssued
<1> QED BY <1>5, <1>6, <1>7, <1>8, <1>9

\* Write: the chunk goes from the handler to the file.
LEMMA WriteOwner ==
    ASSUME OwnerTypes, OwnerTypes', OwnerInv, NEW c \in Clients, HandleWrite(c),
           tempFile' # tempFile
    PROVE  OwnerInv'
<1> DEFINE record == [index |-> hWork[c].curIndex, block |-> hBlock[c]]
<1>1. /\ hpc[c] = "write" /\ hpc' = [hpc EXCEPT ![c] = "eval"]
      /\ tempFile' = Append(tempFile, record)
      /\ UNCHANGED <<wWork, wpc, workMap, oldWork, data, hWork>>
  BY DEF HandleWrite, GoTo, workerVars, workVars
<1>2. record.index = hWork[c].curIndex
  OBVIOUS
<1> HIDE DEF record
<1>3. \A k \in DOMAIN tempFile' :
          \/ k \in DOMAIN tempFile /\ tempFile'[k] = tempFile[k]
          \/ k = Len(tempFile) + 1 /\ tempFile'[k] = record
  BY <1>1, <1>2, AppendPlaces DEF OwnerTypes
<1>4. \A d \in Clients : HandlerHolds(d)' => d # c /\ HandlerHolds(d)
  BY <1>1 DEF HandlerHolds, OwnerTypes
<1>5. HandlerHolds(c)
  BY <1>1 DEF HandlerHolds
<1> USE <1>1, <1>2, <1>3, <1>4, <1>5 DEF OwnerInv, WorkerHolds, HasWork
<1>6. KindApart'
  BY DEF KindApart, HandlerApart
<1>7. WorkerApart'
  BY DEF WorkerApart
<1>8. MapApart'
  BY DEF MapApart
<1>9. HandlerApart'
  BY DEF KindApart, HandlerApart
<1>10. StoredApart'
  BY DEF StoredApart, HandlerApart
<1>11. HeldIssued'
  BY DEF HeldIssued
<1> QED BY <1>6, <1>7, <1>8, <1>9, <1>10, <1>11

\* oldWork.push: the chunk goes from the handler to the queue, or is dropped.
LEMMA StoreOwner ==
    ASSUME OwnerTypes, OwnerTypes', OwnerInv, NEW c \in Clients, HandleDisconnectPush(c)
    PROVE  OwnerInv'
<1>1. /\ hpc[c] = "dcPush" /\ hpc' = [hpc EXCEPT ![c] = "idle"]
      /\ oldWork' \in {oldWork, Append(oldWork, hWork[c])}
      /\ hWork' = [hWork EXCEPT ![c] = NoWork]
      /\ UNCHANGED <<wWork, wpc, workMap, tempFile, data>>
  BY PushEither DEF HandleDisconnectPush, Return, GoTo, workerVars, fileVars
<1>2. \A k \in DOMAIN oldWork' :
          \/ k \in DOMAIN oldWork /\ oldWork'[k] = oldWork[k]
          \/ k = Len(oldWork) + 1 /\ oldWork'[k] = hWork[c]
  <2>1. oldWork \in Seq(WorkInfo) /\ hWork[c] \in WorkInfo
    BY DEF OwnerTypes
  <2> QED BY <1>1, <2>1, PushPlaces
<1>3. \A d \in Clients : HandlerHolds(d)' => d # c /\ HandlerHolds(d) /\ hWork'[d] = hWork[d]
  BY <1>1 DEF HandlerHolds, OwnerTypes
<1>4. HandlerHolds(c)
  BY <1>1 DEF HandlerHolds
<1> USE <1>1, <1>2, <1>3, <1>4 DEF OwnerInv, WorkerHolds, HasWork
<1>6. KindApart'
  BY DEF KindApart, HandlerApart
<1>7. WorkerApart'
  BY DEF WorkerApart
<1>8. MapApart'
  BY DEF MapApart
<1>9. HandlerApart'
  BY DEF KindApart, HandlerApart
<1>10. StoredApart'
  BY DEF StoredApart, HandlerApart
<1>11. HeldIssued'
  BY DEF HeldIssued
<1> QED BY <1>6, <1>7, <1>8, <1>9, <1>10, <1>11

\* A step of the handler that moves no chunk.
LEMMA HandlerShrink ==
    ASSUME OwnerTypes, OwnerTypes', OwnerInv, NEW c \in Clients,
           UNCHANGED <<workMap, oldWork, data, tempFile, wWork>>,
           \A w \in Workers : wpc'[w] # wpc[w] => wpc'[w] = "poll",
           \A d \in Clients : HandlerHolds(d)' => HandlerHolds(d) /\ hWork'[d] = hWork[d]
    PROVE  OwnerInv'
<1>1. data.curIndex <= data'.curIndex
  BY DEF OwnerTypes, DataState
<1>2. \A w \in Workers : WorkerHolds(w)' => WorkerHolds(w) /\ wWork'[w] = wWork[w]
  BY DEF WorkerHolds, HoldsChunk
<1> QED BY <1>1, <1>2, OwnersShrink DEF HasWork

LEMMA HandlerOwner ==
    ASSUME OwnerTypes, OwnerTypes', OwnerInv, NEW c \in Clients, Handler(c)
    PROVE  OwnerInv'
<1> USE DEF netVars, queueVars, workVars, fileVars, workerVars, handlerVars, mainVars, GoTo
<1>1. CASE HandleReady(c) \/ HandleReadyInit(c) \/ HandleStart(c) \/ HandleComplete(c)
  <2>1. /\ UNCHANGED <<workMap, oldWork, data, tempFile, wWork, hWork>>
        /\ \A d \in Clients : HandlerHolds(d)' => HandlerHolds(d)
    BY <1>1 DEF HandleReady, HandleReadyInit, HandleStart, HandleComplete, HandlerHolds,
                OwnerTypes
  <2>2. \A w \in Workers : wpc'[w] # wpc[w] => wpc'[w] = "poll"
    BY <1>1 DEF HandleReady, HandleReadyInit, HandleStart, HandleComplete, OwnerTypes
  <2> QED BY <2>1, <2>2, HandlerShrink
<1>2. CASE (HandleTake(c) \/ HandleDisconnectTake(c)) /\ TakeWork(c)
  <2>1. /\ ~HandlerHolds(c)
        /\ UNCHANGED <<wWork, wpc, oldWork, data, tempFile>>
    BY <1>2 DEF HandleTake, HandleDisconnectTake, HandlerHolds
  <2>2. \/ hpc' = [hpc EXCEPT ![c] = "write"]
        \/ hpc' = [hpc EXCEPT ![c] = "dcPush"]
    BY <1>2 DEF HandleTake, HandleDisconnectTake, TakeWork
  <2> QED BY <1>2, <2>1, <2>2, TakeOwner
<1>3. CASE (HandleTake(c) \/ HandleDisconnectTake(c)) /\ ~TakeWork(c)
  <2>1. UNCHANGED <<workMap, oldWork, data, tempFile, wWork, wpc>>
    BY <1>3 DEF HandleTake, HandleDisconnectTake
  <2>2. hpc' = [hpc EXCEPT ![c] = "idle"] /\ hWork' = [hWork EXCEPT ![c] = NoWork]
    BY <1>3 DEF HandleTake, HandleDisconnectTake, Return
  <2>3. \A d \in Clients : HandlerHolds(d)' => HandlerHolds(d) /\ hWork'[d] = hWork[d]
    BY <2>2 DEF HandlerHolds, OwnerTypes
  <2> QED BY <2>1, <2>3, HandlerShrink
<1>4. CASE HandleWrite(c)
  <2>1. CASE tempFile' = tempFile
    <3>1. UNCHANGED <<workMap, oldWork, data, tempFile, wWork, wpc, hWork>>
      BY <1>4, <2>1 DEF HandleWrite
    <3>2. \A d \in Clients : HandlerHolds(d)' => HandlerHolds(d)
      BY <1>4 DEF HandleWrite, HandlerHolds, OwnerTypes
    <3> QED BY <3>1, <3>2, HandlerShrink
  <2> QED BY <1>4, <2>1, WriteOwner
<1>5. CASE HandleEval(c) \/ HandleDisconnect(c)
  <2>1. UNCHANGED <<workMap, oldWork, data, tempFile, wWork, wpc>>
    BY <1>5 DEF HandleEval, HandleDisconnect
  <2>2. \A d \in Clients : HandlerHolds(d)' => HandlerHolds(d) /\ hWork'[d] = hWork[d]
    BY <1>5 DEF HandleEval, HandleDisconnect, Return, HandlerHolds, OwnerTypes
  <2> QED BY <2>1, <2>2, HandlerShrink
<1>6. CASE HandleDisconnectPush(c)
  BY <1>6, StoreOwner
<1> QED BY <1>1, <1>2, <1>3, <1>4, <1>5, <1>6 DEF Handler

\* A step of a worker that moves no chunk.
LEMMA WorkerShrink ==
    ASSUME OwnerTypes, OwnerTypes', OwnerInv, data.curIndex <= data'.curIndex,
           UNCHANGED <<oldWork, tempFile, hpc, hWork>>,
           \A w \in Workers : WorkerHolds(w)' => WorkerHolds(w) /\ wWork'[w] = wWork[w],
           UNCHANGED workMap \/ \E c : workMap' = Remove(workMap, c)
    PROVE  OwnerInv'
<1>1. \A c \in Clients : HasWork(workMap', c) =>
          HasWork(workMap, c) /\ workMap'[c] = workMap[c]
  BY DEF HasWork, Remove, OwnerTypes
<1>2. \A c \in Clients : HandlerHolds(c)' => HandlerHolds(c) /\ hWork'[c] = hWork[c]
  BY DEF HandlerHolds
<1> QED BY <1>1, <1>2, OwnersShrink

LEMMA WorkerOwner ==
    ASSUME OwnerTypes, OwnerTypes', WorkKnown, OwnerInv, NEW w \in Workers, Worker(w)
    PROVE  OwnerInv'
<1> USE DEF netVars, queueVars, workVars, fileVars, handlerVars, mainVars, Step
<1>1. CASE NewRead(w)
  BY <1>1, NewReadOwner
<1>2. CASE NewAssign(w) \/ OldAssign(w)
  BY <1>2, AssignOwner DEF NewAssign, OldAssign, HoldsChunk
<1>3. CASE PickWork(w) /\ oldWork # <<>>
  BY <1>3, PickOwner
<1>4. CASE OldRead(w)
  <2>1. wWork[w] \in Known(data) /\ data \in DataState
    BY DEF WorkKnown, OwnerTypes
  <2>2. data'.curIndex = data.curIndex /\ data.curIndex \in Nat
    BY <1>4, <2>1, GetClientWorkPrevType DEF OldRead, DataState
  <2>3. UNCHANGED <<workMap, oldWork, tempFile, hpc, hWork, wWork>>
    BY <1>4 DEF OldRead
  <2>4. \A v \in Workers : WorkerHolds(v)' => WorkerHolds(v)
    BY <1>4 DEF OldRead, WorkerHolds, HoldsChunk, OwnerTypes
  <2> QED BY <2>2, <2>3, <2>4, WorkerShrink
<1>5. ASSUME UNCHANGED <<oldWork, tempFile, hpc, hWork, data>>,
             \A v \in Workers : WorkerHolds(v)' => WorkerHolds(v) /\ wWork'[v] = wWork[v],
             UNCHANGED workMap \/ \E c : workMap' = Remove(workMap, c)
      PROVE  OwnerInv'
  <2>1. data.curIndex <= data'.curIndex
    BY <1>5 DEF OwnerTypes, DataState
  <2> QED BY <1>5, <2>1, WorkerShrink
<1>6. CASE PickWork(w) /\ oldWork = <<>>
  <2>1. \A v \in Workers : WorkerHolds(v)' => WorkerHolds(v) /\ wWork'[v] = wWork[v]
    BY <1>6 DEF PickWork, WorkerHolds, HoldsChunk, OwnerTypes
  <2> QED BY <1>5, <1>6, <2>1 DEF PickWork
<1>7. CASE Poll(w) \/ FindFast(w) \/ FindOther(w) \/ Check(w)
  <2>1. \A v \in Workers : WorkerHolds(v)' => WorkerHolds(v) /\ wWork'[v] = wWork[v]
    BY <1>7 DEF Poll, FindFast, FindOther, Check, WorkerHolds, HoldsChunk, OwnerTypes
  <2> QED BY <1>5, <1>7, <2>1 DEF Poll, FindFast, FindOther, Check
<1>8. CASE DrainMap(w) \/ DrainOld(w) \/ Finish(w) \/ Reorder(w) \/ ReorderEnd(w)
  <2>1. \A v \in Workers : WorkerHolds(v)' => WorkerHolds(v) /\ wWork'[v] = wWork[v]
    BY <1>8 DEF DrainMap, DrainOld, Finish, Reorder, ReorderEnd, WorkerHolds, HoldsChunk,
                OwnerTypes
  <2> QED BY <1>5, <1>8, <2>1 DEF DrainMap, DrainOld, Finish, Reorder, ReorderEnd
<1>9. CASE NewStamp(w) \/ NewSend(w) \/ OldStamp(w) \/ OldSend(w)
  <2>1. \A v \in Workers : WorkerHolds(v)' => WorkerHolds(v) /\ wWork'[v] = wWork[v]
    BY <1>9 DEF NewStamp, NewSend, OldStamp, OldSend, Stamp, Send, WorkerHolds, HoldsChunk,
                OwnerTypes
  <2> QED BY <1>5, <1>9, <2>1 DEF NewStamp, NewSend, OldStamp, OldSend, Stamp, Send
<1>10. CASE NewRemove(w) \/ OldRemove(w)
  <2>1. \A v \in Workers : WorkerHolds(v)' => WorkerHolds(v) /\ wWork'[v] = wWork[v]
    BY <1>10 DEF NewRemove, OldRemove, Erase, WorkerHolds, HoldsChunk, OwnerTypes
  <2> QED BY <1>5, <1>10, <2>1 DEF NewRemove, OldRemove, Erase
<1> QED BY <1>1, <1>2, <1>3, <1>4, <1>6, <1>7, <1>8, <1>9, <1>10 DEF Worker

LEMMA OwnerStep ==
    ASSUME TypeOK, TypeOK', WorkKnown, OwnerInv, [Next]_vars
    PROVE  OwnerInv'
<1>0. OwnerTypes /\ OwnerTypes'
  BY DEF TypeOK, OwnerTypes
<1>1. ASSUME UNCHANGED <<workMap, oldWork, data, tempFile, wWork, wpc, hpc, hWork>>
      PROVE  OwnerInv'
  BY <1>0, <1>1 DEF OwnerInv, KindApart, WorkerApart, MapApart, HandlerApart, StoredApart,
                    HeldIssued, WorkerHolds, HandlerHolds
<1>2. ASSUME NEW c \in Clients, Client(c) \/ Break(c) PROVE OwnerInv'
  BY <1>1, <1>2 DEF Client, Break, ClientReady, ClientProcess, LinkBreak, workVars, fileVars,
                    workerVars, handlerVars
<1>3. CASE Main
  BY <1>1, <1>3 DEF Main, Shutdown, Join, workVars, fileVars, workerVars, handlerVars
<1>4. CASE UNCHANGED vars
  BY <1>1, <1>4 DEF vars, workVars, fileVars, workerVars, handlerVars
<1> QED BY <1>0, <1>2, <1>3, <1>4, HandlerOwner, WorkerOwner DEF Next

\* What OwnerInv says pair by pair: no two places hold the same chunk.
LEMMA OwnersEqual ==
    ASSUME OwnerTypes, OwnerInv, NEW i \in Nat
    PROVE  \A x, y \in Owners(i) : x = y
<1> DEFINE W == {<<"worker", w>> : w \in {v \in Workers : wpc[v] \in HoldsChunk /\ wWork[v].curIndex = i}}
           M == {<<"map", c>> : c \in {d \in Clients : HasWork(workMap, d) /\ workMap[d].curIndex = i}}
           O == {<<"old", k>> : k \in {j \in DOMAIN oldWork : oldWork[j].curIndex = i}}
           H == {<<"handler", c>> : c \in {d \in Clients : /\ hpc[d] \in {"write", "dcPush"}
                                                            /\ hWork[d].curIndex = i}}
           F == {<<"file", k>> : k \in {j \in DOMAIN tempFile : tempFile[j].index = i}}
<1> USE DEF OwnerInv, WorkerHolds, HandlerHolds
<1>1. /\ \A x, y \in W : x = y
      /\ \A x, y \in M : x = y
      /\ \A x, y \in O : x = y
      /\ \A x, y \in H : x = y
      /\ \A x, y \in F : x = y
  BY DEF KindApart
<1>2. W # {} => M = {} /\ O = {} /\ H = {} /\ F = {}
  BY DEF WorkerApart
<1>3. M # {} => O = {} /\ H = {} /\ F = {}
  BY DEF MapApart
<1>4. H # {} => O = {} /\ F = {}
  BY DEF HandlerApart
<1>5. O # {} => F = {}
  BY DEF StoredApart
<1>6. Owners(i) = W \cup M \cup O \cup H \cup F
  BY DEF Owners
<1> HIDE DEF W, M, O, H, F
<1> QED BY <1>1, <1>2, <1>3, <1>4, <1>5, <1>6

\* No chunk was read yet.
LEMMA OwnerInit == Init => OwnerInv
<1> SUFFICES ASSUME Init PROVE OwnerInv
  OBVIOUS
<1>1. /\ \A w \in Workers : ~WorkerHolds(w)
      /\ \A c \in Clients : ~HandlerHolds(c) /\ ~HasWork(workMap, c)
      /\ DOMAIN oldWork = {} /\ DOMAIN tempFile = {}
  BY DEF Init, WorkerHolds, HoldsChunk, HandlerHolds, HasWork, NoEntries
<1> QED BY <1>1 DEF OwnerInv, KindApart, WorkerApart, MapApart, HandlerApart, StoredApart,
                    HeldIssued

\* A chunk is in one place at a time, whatever disconnects and is resent: it is
\* never given to two clients, never both stored and outstanding, never written
\* twice.
THEOREM ChunkOwned == Spec => []ChunkOwnedOnce
<1>1. Init => OwnerInv
  BY OwnerInit
<1>2. TypeOK /\ WorkKnown /\ (TypeOK /\ WorkKnown)' /\ OwnerInv /\ [Next]_vars => OwnerInv'
  BY OwnerStep
<1>3. TypeOK /\ OwnerInv => ChunkOwnedOnce
  <2> SUFFICES ASSUME TypeOK, OwnerInv, NEW i \in Issued
               PROVE  Cardinality(Owners(i)) <= 1
    BY DEF ChunkOwnedOnce
  <2>1. i \in Nat
    BY DEF Issued, TypeOK, DataState
  <2>2. \A x, y \in Owners(i) : x = y
    BY <2>1, OwnersEqual, TypesOfOwners
  <2> QED BY <2>2, AtMostOne
<1> QED BY <1>1, <1>2, <1>3, TypeCorrect, PTL DEF Spec

-----------------------------------------------------------------------------
(* The places of a client *)

In(q, c) == \E k \in DOMAIN q : q[k] = c

\* No element is in the queue twice.
Once(q) == \A j, k \in DOMAIN q : q[j] = q[k] => j = k

BeforeChange == {"pick", "newRead", "newAssign", "oldRead", "oldAssign"}
AfterChange == {"newStamp", "newSend", "oldStamp", "oldSend"}

\* Where client c counts as free for work, or is being given some, or owes an
\* answer.  What is under way is a queue of at most one message.
At(p, c) ==
    \/ p = "fast" /\ In(fastClients, c)
    \/ p = "other" /\ In(otherClients, c)
    \/ p = "before" /\ \E w \in Workers : wpc[w] \in BeforeChange /\ wClient[w] = c
    \/ p = "after" /\ \E w \in Workers : wpc[w] \in AfterChange /\ wClient[w] = c
    \/ p = "inbox" /\ inbox[c] # <<>>
    \/ p = "ready" /\ outbox[c] # <<>> /\ Head(outbox[c]).type = "READY_INIT"
    \/ p = "answer" /\ outbox[c] # <<>> /\ Head(outbox[c]).type # "READY_INIT"
    \/ p = "take" /\ hpc[c] = "take"
    \/ p = "done" /\ hpc[c] \in {"write", "eval"}

\* The places of a client that has no entry in the map.
Free == {"fast", "other", "before", "ready", "done"}

OneOf ==
    /\ Once(fastClients) /\ Once(otherClients)
    /\ \A c \in Clients : Len(inbox[c]) <= 1 /\ Len(outbox[c]) <= 1
    /\ \A w \in Workers : wpc[w] \in HoldsClient => wClient[w] \in Clients
    /\ \A v, w \in Workers :
          wpc[v] \in HoldsClient /\ wpc[w] \in HoldsClient /\ wClient[v] = wClient[w] => v = w

InOnePlace == \A c \in Clients : \A p, q : At(p, c) /\ At(q, c) => p = q

NewClients == \A c \in Clients : link[c] = "off" => ~HasWork(workMap, c) /\ \A p : ~At(p, c)

WorkerOwes == \A c \in Clients : HasWork(workMap, c) => \A p \in Free : ~At(p, c)

ClientInv == OneOf /\ InOnePlace /\ NewClients /\ WorkerOwes

-----------------------------------------------------------------------------
(* Queues *)

ClientTypes ==
    /\ link \in [Clients -> {"off", "up", "down", "gone"}]
    /\ inbox \in [Clients -> Seq(Block)] /\ outbox \in [Clients -> Seq(Messages)]
    /\ fastClients \in Seq(Clients) /\ otherClients \in Seq(Clients)
    /\ workMap \in [Clients -> WorkInfo]
    /\ wpc \in [Workers -> WorkerPC] /\ wClient \in [Workers -> Clients \cup {NoClient}]
    /\ hpc \in [Clients -> HandlerPC]

LEMMA TypesOfClients == TypeOK => ClientTypes
BY DEF TypeOK, ClientTypes

LEMMA PopOnce ==
    ASSUME NEW q \in Seq(Clients), q # <<>>, Once(q)
    PROVE  /\ Once(Tail(q)) /\ In(q, Head(q)) /\ ~In(Tail(q), Head(q))
           /\ Head(q) \in Clients
           /\ \A d : In(Tail(q), d) => In(q, d)
<1>1. /\ 1 \in DOMAIN q /\ Head(q) = q[1]
      /\ \A k \in DOMAIN Tail(q) : k + 1 \in DOMAIN q /\ k + 1 # 1 /\ Tail(q)[k] = q[k + 1]
      /\ \A j, k \in DOMAIN Tail(q) : j # k => j + 1 # k + 1
  BY PopPlaces
<1>2. Head(q) \in Clients
  OBVIOUS
<1> QED BY <1>1, <1>2 DEF Once, In

LEMMA PushOnce ==
    ASSUME NEW q \in Seq(Clients), NEW c \in Clients, Once(q), ~In(q, c),
           NEW p \in {q, Append(q, c)}
    PROVE  /\ Once(p)
           /\ \A d : d # c => (In(p, d) => In(q, d))
<1>1. \A k \in DOMAIN p :
          \/ k \in DOMAIN q /\ p[k] = q[k]
          \/ k = Len(q) + 1 /\ k \notin DOMAIN q /\ p[k] = c
  BY PushPlaces
<1> QED BY <1>1 DEF Once, In

\* Messages under way, of which there is one at most.
LEMMA LastMessage ==
    ASSUME NEW S, NEW q \in Seq(S), Len(q) <= 1, q # <<>>
    PROVE  Tail(q) = <<>> /\ Head(q) \in S
<1>1. Len(q) = 1
  <2> DEFINE n == Len(q)
  <2>1. n \in Nat \ {0} /\ n <= 1
    BY EmptySeq
  <2> HIDE DEF n
  <2>2. n = 1
    BY <2>1
  <2> QED BY <2>2 DEF n
<1>2. Len(Tail(q)) = 0 /\ Tail(q) \in Seq(S)
  BY <1>1
<1>3. Tail(q) = <<>>
  BY <1>2, EmptySeq
<1> QED BY <1>3

LEMMA NoMessage == Len(<<>>) = 0
BY EmptySeq

LEMMA OneMessage ==
    ASSUME NEW S, NEW e \in S
    PROVE  /\ Append(<<>>, e) # <<>> /\ Len(Append(<<>>, e)) = 1
           /\ Head(Append(<<>>, e)) = e
OBVIOUS

-----------------------------------------------------------------------------
(* Steps *)

\* A client goes to one place, or nowhere, and all others stay or leave.
LEMMA ClientMoves ==
    ASSUME ClientInv, OneOf', NEW c \in Clients, NEW to,
           \A d \in Clients : d # c => \A p : At(p, d)' => At(p, d),
           \A p : At(p, c)' => p = to,
           \A d \in Clients : link'[d] = "off" => link[d] = "off", link'[c] # "off",
           \A d \in Clients : d # c => (HasWork(workMap', d) => HasWork(workMap, d)),
           HasWork(workMap', c) => to \notin Free
    PROVE  ClientInv'
<1>1. InOnePlace'
  BY DEF ClientInv, InOnePlace
<1>2. NewClients'
  BY DEF ClientInv, NewClients
<1>3. WorkerOwes'
  BY DEF ClientInv, WorkerOwes
<1> QED BY <1>1, <1>2, <1>3 DEF ClientInv

LEMMA ClientsStay ==
    ASSUME ClientInv, OneOf',
           \A d \in Clients : \A p : At(p, d)' => At(p, d),
           \A d \in Clients : link'[d] = "off" => link[d] = "off",
           \A d \in Clients : HasWork(workMap', d) => HasWork(workMap, d)
    PROVE  ClientInv'
<1>1. InOnePlace'
  BY DEF ClientInv, InOnePlace
<1>2. NewClients'
  BY DEF ClientInv, NewClients
<1>3. WorkerOwes'
  BY DEF ClientInv, WorkerOwes
<1> QED BY <1>1, <1>2, <1>3 DEF ClientInv

\* What the workers have does not change, but one of them may be served or fail.
WorkersStay ==
    \A w \in Workers : wpc'[w] \in HoldsClient =>
        /\ wpc[w] \in HoldsClient /\ wClient'[w] = wClient[w]
        /\ wpc'[w] \in BeforeChange => wpc[w] \in BeforeChange
        /\ wpc'[w] \in AfterChange => wpc[w] \in AfterChange

\* A step of the workers and the map alone that queues and sends nothing.
LEMMA WorkerStays ==
    ASSUME ClientInv, WorkersStay,
           UNCHANGED <<netVars, fastClients, otherClients, hpc>>,
           \A d \in Clients : HasWork(workMap', d) => HasWork(workMap, d)
    PROVE  ClientInv'
<1>1. OneOf'
  BY DEF ClientInv, OneOf, WorkersStay, netVars, Once
<1>2. \A d \in Clients : \A p : At(p, d)' => At(p, d)
  BY DEF At, WorkersStay, netVars, In, BeforeChange, AfterChange, HoldsClient, HoldsChunk
<1> QED BY <1>1, <1>2, ClientsStay DEF netVars

\* A step of handlers that takes no message and queues no one.
LEMMA HandlersStay ==
    ASSUME ClientInv, UNCHANGED <<wClient, fastClients, otherClients>>,
           UNCHANGED wpc \/ \E w \in Workers : wpc[w] = "unstarted"
                                               /\ wpc' = [wpc EXCEPT ![w] = "poll"],
           ClientTypes,
           \A d \in Clients : /\ inbox'[d] \in {inbox[d], <<>>} /\ outbox'[d] \in {outbox[d], <<>>}
                              /\ link'[d] = "off" => link[d] = "off"
                              /\ hpc'[d] = "take" => hpc[d] = "take"
                              /\ hpc'[d] \in {"write", "eval"} => hpc[d] \in {"write", "eval"},
           \A d \in Clients : HasWork(workMap', d) => HasWork(workMap, d)
    PROVE  ClientInv'
<1>1. WorkersStay
  BY DEF WorkersStay, ClientTypes, HoldsClient, HoldsChunk
<1>2. \A d \in Clients : Len(inbox'[d]) <= 1 /\ Len(outbox'[d]) <= 1
  BY DEF ClientInv, OneOf
<1>3. OneOf'
  BY <1>1, <1>2 DEF ClientInv, OneOf, WorkersStay, Once
<1>4. \A d \in Clients : \A p : At(p, d)' => At(p, d)
  BY <1>1 DEF At, WorkersStay, In, BeforeChange, AfterChange, HoldsClient, HoldsChunk
<1> QED BY <1>3, <1>4, ClientsStay

LEMMA ClientInvInit == Init => ClientInv
<1> SUFFICES ASSUME Init PROVE ClientInv
  OBVIOUS
<1>1. \A c \in Clients : \A p : ~At(p, c)
  BY DEF Init, At, In, BeforeChange, AfterChange
<1>2. OneOf
  BY DEF Init, OneOf, Once, HoldsClient, HoldsChunk
<1>3. \A c \in Clients : ~HasWork(workMap, c)
  BY DEF Init, NoEntries, HasWork
<1> QED BY <1>1, <1>2, <1>3 DEF ClientInv, InOnePlace, NewClients, WorkerOwes

-----------------------------------------------------------------------------
(* The steps of the clients and of their handlers *)

LEMMA OnlyPlace ==
    ASSUME ClientInv, NEW c \in Clients, NEW x, At(x, c)
    PROVE  /\ \A p : At(p, c) => p = x
           /\ link[c] # "off" /\ (x \in Free => ~HasWork(workMap, c))
BY DEF ClientInv, InOnePlace, NewClients, WorkerOwes

LEMMA ClientStep ==
    ASSUME ClientTypes, ClientInv, NEW c \in Clients, Client(c)
    PROVE  ClientInv'
<1> USE DEF netVars, queueVars, workVars, workerVars, handlerVars
<1>0. ASSUME NEW to, NEW m, m \in Messages, outbox[c] = <<>>,
             outbox' = [outbox EXCEPT ![c] = Append(@, m)],
             to = IF m.type = "READY_INIT" THEN "ready" ELSE "answer",
             \A p : At(p, c) => p = "inbox", inbox'[c] = <<>>,
             \A d \in Clients : d # c => inbox'[d] = inbox[d],
             UNCHANGED <<fastClients, otherClients, workMap, wpc, wClient, hpc>>,
             link'[c] # "off", \A d \in Clients : link'[d] = "off" => link[d] = "off",
             HasWork(workMap, c) => to \notin Free
      PROVE  ClientInv'
  <2>1. /\ outbox'[c] # <<>> /\ Len(outbox'[c]) = 1 /\ Head(outbox'[c]) = m
        /\ \A d \in Clients : d # c => outbox'[d] = outbox[d]
    BY <1>0, OneMessage DEF ClientTypes
  <2>2. Len(inbox'[c]) <= 1
    BY <1>0
  <2>3. OneOf'
    BY <1>0, <2>1, <2>2 DEF ClientInv, OneOf, Once
  <2>4. \A d \in Clients : d # c => \A p : At(p, d)' => At(p, d)
    BY <1>0, <2>1 DEF At, In
  <2>5. \A p : At(p, c)' => p = to
    BY <1>0, <2>1 DEF At, In
  <2> QED BY <1>0, <2>3, <2>4, <2>5, ClientMoves
<1>1. CASE ClientReady(c)
  <2>1. /\ link[c] = "off" /\ (\A p : ~At(p, c)) /\ ~HasWork(workMap, c)
        /\ link' = [link EXCEPT ![c] = "up"]
        /\ outbox' = [outbox EXCEPT ![c] = Append(@, READY)]
        /\ UNCHANGED <<inbox, fastClients, otherClients, workMap, wpc, wClient, hpc>>
    BY <1>1 DEF ClientReady, ClientInv, NewClients
  <2>2. outbox[c] = <<>> /\ inbox[c] = <<>>
    BY <2>1 DEF At
  <2>3. READY \in Messages /\ READY.type = "READY_INIT"
    BY DEF READY, Messages, NoBlock, Block
  <2>4. link'[c] # "off" /\ \A d \in Clients : link'[d] = "off" => link[d] = "off"
    BY <2>1 DEF ClientTypes
  <2> QED BY <1>0, <2>1, <2>2, <2>3, <2>4
<1>2. CASE ClientProcess(c)
  <2>1. /\ inbox[c] # <<>> /\ link[c] = "up"
        /\ inbox' = [inbox EXCEPT ![c] = Tail(@)]
        /\ outbox' = [outbox EXCEPT ![c] = Append(@, COMPLETE(Head(inbox[c])))]
        /\ UNCHANGED <<link, fastClients, otherClients, workMap, wpc, wClient, hpc>>
    BY <1>2 DEF ClientProcess
  <2>2. \A p : At(p, c) => p = "inbox"
    BY <2>1, OnlyPlace DEF At
  <2>3. outbox[c] = <<>>
    BY <2>2 DEF At
  <2>4. Len(inbox[c]) <= 1 /\ inbox[c] \in Seq(Block)
    BY DEF ClientInv, OneOf, ClientTypes
  <2>5. Tail(inbox[c]) = <<>> /\ Head(inbox[c]) \in Block
    BY <2>1, <2>4, LastMessage
  <2>6. /\ COMPLETE(Head(inbox[c])) \in Messages
        /\ COMPLETE(Head(inbox[c])).type # "READY_INIT"
    BY <2>5 DEF COMPLETE, Messages
  <2>7. inbox'[c] = <<>> /\ \A d \in Clients : d # c => inbox'[d] = inbox[d]
    BY <2>1, <2>5 DEF ClientTypes
  <2>8. "answer" \notin Free
    BY DEF Free
  <2> QED BY <1>0, <2>1, <2>2, <2>3, <2>6, <2>7, <2>8
<1> QED BY <1>1, <1>2 DEF Client

\* A handler takes the one message of its client.
LEMMA ReceiveEmpties ==
    ASSUME ClientTypes, ClientInv, NEW c \in Clients, NEW type, Receive(c, type)
    PROVE  /\ outbox'[c] = <<>> /\ \A d \in Clients : d # c => outbox'[d] = outbox[d]
           /\ \A d \in Clients : Len(outbox'[d]) <= 1
<1>1. outbox[c] # <<>> /\ outbox' = [outbox EXCEPT ![c] = Tail(@)]
  BY DEF Receive
<1>2. /\ \A d \in Clients : Len(outbox[d]) <= 1
      /\ outbox \in [Clients -> Seq(Messages)]
  BY DEF ClientInv, OneOf, ClientTypes
<1>3. Tail(outbox[c]) = <<>>
  BY <1>1, <1>2, LastMessage
<1> QED BY <1>1, <1>2, <1>3

\* A handler queues its client, which is nowhere else.
LEMMA QueueStep ==
    ASSUME ClientTypes, ClientInv, NEW c \in Clients, NEW x \in {"ready", "done"}, At(x, c),
           NEW to,
           \/ /\ to = "fast" /\ fastClients' \in {fastClients, Append(fastClients, c)} /\ UNCHANGED otherClients
           \/ /\ to = "other" /\ otherClients' \in {otherClients, Append(otherClients, c)} /\ UNCHANGED fastClients
           \/ /\ to = "none" /\ UNCHANGED <<fastClients, otherClients>>,
           UNCHANGED <<inbox, workMap, wpc, wClient>>,
           \A d \in Clients : Len(outbox'[d]) <= 1,
           \A d \in Clients : d # c => outbox'[d] = outbox[d] /\ hpc'[d] = hpc[d],
           x = "ready" => outbox'[c] = <<>>, x # "ready" => UNCHANGED outbox,
           hpc'[c] \notin {"take", "write", "eval"},
           \A d \in Clients : link'[d] = "off" => link[d] = "off"
    PROVE  ClientInv'
<1>1. /\ \A p : At(p, c) => p = x
      /\ link[c] # "off" /\ ~HasWork(workMap, c)
  BY OnlyPlace DEF Free
<1>2. ~In(fastClients, c) /\ ~In(otherClients, c)
  BY <1>1 DEF At
<1>3. /\ Once(fastClients) /\ Once(otherClients)
      /\ fastClients \in Seq(Clients) /\ otherClients \in Seq(Clients)
  BY DEF ClientInv, OneOf, ClientTypes
<1>4. /\ Once(fastClients') /\ Once(otherClients')
      /\ \A d : d # c => (In(fastClients', d) => In(fastClients, d))
                         /\ (In(otherClients', d) => In(otherClients, d))
  BY <1>2, <1>3, PushOnce
<1>5. OneOf'
  BY <1>4 DEF ClientInv, OneOf, Once
<1>6. \A d \in Clients : d # c => \A p : At(p, d)' => At(p, d)
  BY <1>4 DEF At, In
<1>7. \A p : At(p, c)' => p = to
  BY <1>1, <1>2 DEF At, In
<1> QED BY <1>1, <1>5, <1>6, <1>7, ClientMoves

LEMMA HandlerMoves ==
    ASSUME ClientTypes, ClientInv, NEW c \in Clients,
           HandleReady(c) \/ HandleComplete(c) \/ HandleTake(c) \/ HandleEval(c)
    PROVE  ClientInv'
<1> USE DEF netVars, queueVars, workVars, workerVars, handlerVars, GoTo, Return
<1>1. CASE HandleReady(c)
  <2>1. /\ Receive(c, "READY_INIT") /\ otherClients' \in {otherClients, Append(otherClients, c)}
        /\ hpc' = [hpc EXCEPT ![c] = "readyInit"]
        /\ UNCHANGED <<link, inbox, fastClients, workMap, wpc, wClient>>
    BY <1>1, PushEither DEF HandleReady, AddClient, Receive
  <2>2. At("ready", c)
    BY <2>1 DEF Receive, At
  <2>3. hpc'[c] = "readyInit" /\ \A d \in Clients : d # c => hpc'[d] = hpc[d]
    BY <2>1 DEF ClientTypes
  <2> QED BY <2>1, <2>2, <2>3, ReceiveEmpties, QueueStep
<1>2. CASE HandleComplete(c)
  <2>1. /\ Receive(c, "WORK_COMPLETE") /\ hpc[c] = "idle"
        /\ hpc' = [hpc EXCEPT ![c] = "take"] \/ UNCHANGED hpc
        /\ UNCHANGED <<link, inbox, fastClients, otherClients, workMap, wpc, wClient>>
    BY <1>2 DEF HandleComplete, Receive
  <2>2. At("answer", c)
    BY <2>1 DEF Receive, At
  <2>3. (\A p : At(p, c) => p = "answer") /\ link[c] # "off"
    BY <2>2, OnlyPlace
  <2>4. /\ outbox'[c] = <<>> /\ \A d \in Clients : d # c => outbox'[d] = outbox[d]
        /\ \A d \in Clients : Len(outbox'[d]) <= 1
    BY <2>1, ReceiveEmpties
  <2>5. hpc'[c] \in {"take", "idle"} /\ \A d \in Clients : d # c => hpc'[d] = hpc[d]
    BY <2>1 DEF ClientTypes
  <2>6. OneOf'
    BY <2>1, <2>4 DEF ClientInv, OneOf, Once
  <2>7. \A d \in Clients : d # c => \A p : At(p, d)' => At(p, d)
    BY <2>1, <2>4, <2>5 DEF At, In
  <2>8. \A p : At(p, c)' => p = "take"
    BY <2>1, <2>3, <2>4, <2>5 DEF At, In
  <2>9. "take" \notin Free
    BY DEF Free
  <2> QED BY <2>1, <2>3, <2>6, <2>7, <2>8, <2>9, ClientMoves
<1>3. CASE HandleTake(c)
  <2>1. /\ hpc[c] = "take"
        /\ hpc' = [hpc EXCEPT ![c] = "write"] \/ hpc' = [hpc EXCEPT ![c] = "idle"]
        /\ workMap' = Remove(workMap, c) \/ (~HasWork(workMap, c) /\ UNCHANGED workMap)
        /\ UNCHANGED link \/ link' = [link EXCEPT ![c] = "down"]
        /\ UNCHANGED <<inbox, outbox, fastClients, otherClients, wpc, wClient>>
    BY <1>3 DEF HandleTake, TakeWork
  <2>2. (\A p : At(p, c) => p = "take") /\ link[c] # "off"
    BY <2>1, OnlyPlace DEF At
  <2>3. hpc'[c] \in {"write", "idle"} /\ \A d \in Clients : d # c => hpc'[d] = hpc[d]
    BY <2>1 DEF ClientTypes
  <2>4. ~HasWork(workMap', c) /\ \A d \in Clients : HasWork(workMap', d) => HasWork(workMap, d)
    BY <2>1 DEF Remove, HasWork, ClientTypes
  <2>5. link'[c] # "off" /\ \A d \in Clients : link'[d] = "off" => link[d] = "off"
    BY <2>1, <2>2 DEF ClientTypes
  <2>6. OneOf'
    BY <2>1 DEF ClientInv, OneOf, Once
  <2>7. \A d \in Clients : d # c => \A p : At(p, d)' => At(p, d)
    BY <2>1, <2>3 DEF At, In
  <2>8. \A p : At(p, c)' => p = "done"
    BY <2>1, <2>2, <2>3 DEF At, In
  <2> QED BY <2>4, <2>5, <2>6, <2>7, <2>8, ClientMoves
<1>4. CASE HandleEval(c)
  <2>1. PICK verdict \in Verdicts(c) :
          /\ EvaluateClient(c, verdict)
          /\ link' = IF verdict = "TOOSLOW" THEN [link EXCEPT ![c] = "down"] ELSE link
    BY <1>4 DEF HandleEval
  <2>2. /\ hpc[c] = "eval" /\ hpc' = [hpc EXCEPT ![c] = "idle"]
        /\ UNCHANGED <<inbox, outbox, workMap, wpc, wClient>>
    BY <1>4 DEF HandleEval
  <2>3. At("done", c)
    BY <2>2 DEF At
  <2>4. hpc'[c] = "idle" /\ \A d \in Clients : d # c => hpc'[d] = hpc[d]
    BY <2>2 DEF ClientTypes
  <2>5. \A d \in Clients : link'[d] = "off" => link[d] = "off"
    BY <2>1 DEF ClientTypes
  <2>6. \A d \in Clients : Len(outbox'[d]) <= 1
    BY <2>2 DEF ClientInv, OneOf
  <2>7. \/ fastClients' \in {fastClients, Append(fastClients, c)} /\ UNCHANGED otherClients
        \/ otherClients' \in {otherClients, Append(otherClients, c)} /\ UNCHANGED fastClients
        \/ UNCHANGED <<fastClients, otherClients>>
    <3>1. /\ fastClients' \in Requeued(fastClients, c, verdict = "FAST")
          /\ otherClients' \in Requeued(otherClients, c, verdict = "NORMAL")
      BY <2>1 DEF EvaluateClient
    <3>2. /\ fastClients' \in {fastClients, Append(fastClients, c)}
          /\ verdict # "FAST" => fastClients' = fastClients
      BY <3>1, RequeuedEither
    <3>3. /\ otherClients' \in {otherClients, Append(otherClients, c)}
          /\ verdict # "NORMAL" => otherClients' = otherClients
      BY <3>1, RequeuedEither
    <3> QED BY <3>2, <3>3
  <2> QED BY <2>2, <2>3, <2>4, <2>5, <2>6, <2>7, QueueStep
<1> QED BY <1>1, <1>2, <1>3, <1>4

LEMMA HandlerKeeps ==
    ASSUME ClientTypes, ClientInv, NEW c \in Clients, Handler(c) \/ Break(c)
    PROVE  ClientInv'
<1> USE DEF netVars, queueVars, workVars, workerVars, handlerVars, GoTo, Return
<1>1. CASE HandleReady(c) \/ HandleComplete(c) \/ HandleTake(c) \/ HandleEval(c)
  BY <1>1, HandlerMoves
<1>2. CASE \/ HandleReadyInit(c) \/ HandleWrite(c) \/ HandleDisconnect(c)
           \/ HandleDisconnectTake(c) \/ HandleDisconnectPush(c) \/ Break(c)
  <2>1. /\ UNCHANGED <<wClient, fastClients, otherClients, wpc>>
        /\ UNCHANGED <<inbox, outbox>> \/ /\ inbox' = [inbox EXCEPT ![c] = <<>>]
                                          /\ outbox' = [outbox EXCEPT ![c] = <<>>]
        /\ \/ UNCHANGED link
           \/ link' = [link EXCEPT ![c] = "gone"] \/ link' = [link EXCEPT ![c] = "down"]
        /\ \/ UNCHANGED hpc
           \/ hpc[c] = "write" /\ hpc' = [hpc EXCEPT ![c] = "eval"]
           \/ \E pc \in {"idle", "start", "dcTake", "dcPush"} : hpc' = [hpc EXCEPT ![c] = pc]
        /\ UNCHANGED workMap \/ workMap' = Remove(workMap, c)
    BY <1>2 DEF HandleReadyInit, HandleWrite, HandleDisconnect, HandleDisconnectTake,
                HandleDisconnectPush, TakeWork, Break, LinkBreak
  <2>2. \A d \in Clients : HasWork(workMap', d) => HasWork(workMap, d)
    BY <2>1 DEF ClientTypes, Remove, HasWork
  <2>3. \A d \in Clients : /\ inbox'[d] \in {inbox[d], <<>>} /\ outbox'[d] \in {outbox[d], <<>>}
                           /\ link'[d] = "off" => link[d] = "off"
                           /\ hpc'[d] = "take" => hpc[d] = "take"
                           /\ hpc'[d] \in {"write", "eval"} => hpc[d] \in {"write", "eval"}
    BY <2>1 DEF ClientTypes
  <2> QED BY <2>1, <2>2, <2>3, HandlersStay
<1>3. CASE HandleStart(c)
  <2>1. /\ UNCHANGED <<netVars, wClient, fastClients, otherClients, workMap>>
        /\ \E w \in Workers : wpc[w] = "unstarted" /\ wpc' = [wpc EXCEPT ![w] = "poll"]
        /\ \E pc \in {"idle", "start"} : hpc' = [hpc EXCEPT ![c] = pc]
    BY <1>3 DEF HandleStart
  <2>2. \A d \in Clients : /\ inbox'[d] \in {inbox[d], <<>>} /\ outbox'[d] \in {outbox[d], <<>>}
                           /\ link'[d] = "off" => link[d] = "off"
                           /\ hpc'[d] = "take" => hpc[d] = "take"
                           /\ hpc'[d] \in {"write", "eval"} => hpc[d] \in {"write", "eval"}
    BY <2>1 DEF ClientTypes
  <2> QED BY <2>1, <2>2, HandlersStay
<1> QED BY <1>1, <1>2, <1>3 DEF Handler

-----------------------------------------------------------------------------
(* The steps of the workers *)

\* A worker pops a client off a queue: no one else has it.
LEMMA FindStep ==
    ASSUME ClientTypes, ClientInv, NEW w \in Workers, wpc[w] \notin HoldsClient,
           wpc' = [wpc EXCEPT ![w] = "pick"], NEW c, wClient' = [wClient EXCEPT ![w] = c],
           \/ /\ fastClients # <<>> /\ c = Head(fastClients)
              /\ fastClients' = Tail(fastClients) /\ UNCHANGED otherClients
           \/ /\ otherClients # <<>> /\ c = Head(otherClients)
              /\ otherClients' = Tail(otherClients) /\ UNCHANGED fastClients,
           UNCHANGED <<netVars, workMap, hpc>>
    PROVE  ClientInv'
<1> USE DEF netVars
<1>1. /\ Once(fastClients) /\ Once(otherClients)
      /\ fastClients \in Seq(Clients) /\ otherClients \in Seq(Clients)
  BY DEF ClientInv, OneOf, ClientTypes
<1>2. PICK q \in {"fast", "other"} :
        /\ c \in Clients /\ At(q, c) /\ ~At(q, c)'
        /\ Once(fastClients') /\ Once(otherClients')
        /\ \A d : (In(fastClients', d) => In(fastClients, d))
                  /\ (In(otherClients', d) => In(otherClients, d))
  <2>1. CASE fastClients # <<>> /\ c = Head(fastClients)
             /\ fastClients' = Tail(fastClients) /\ UNCHANGED otherClients
    BY <1>1, <2>1, PopOnce DEF At, Once, In
  <2>2. CASE otherClients # <<>> /\ c = Head(otherClients)
             /\ otherClients' = Tail(otherClients) /\ UNCHANGED fastClients
    BY <1>1, <2>2, PopOnce DEF At, Once, In
  <2> QED BY <2>1, <2>2
<1>3. /\ \A p : At(p, c) => p = q
      /\ link[c] # "off" /\ ~HasWork(workMap, c)
  BY <1>2, OnlyPlace DEF Free
<1>4. /\ wpc'[w] = "pick" /\ wClient'[w] = c
      /\ \A v \in Workers : v # w => wpc'[v] = wpc[v] /\ wClient'[v] = wClient[v]
  BY DEF ClientTypes
<1>5. \A v \in Workers : wpc[v] \in HoldsClient => wClient[v] # c
  BY <1>2, <1>3 DEF At, HoldsClient, HoldsChunk, BeforeChange, AfterChange
<1>6. OneOf'
  BY <1>2, <1>4, <1>5 DEF ClientInv, OneOf
<1>7. \A d \in Clients : d # c => \A p : At(p, d)' => At(p, d)
  BY <1>2, <1>4 DEF At
<1>8. \A p : At(p, c)' => p = "before"
  BY <1>2, <1>3, <1>4, <1>5 DEF At, HoldsClient, HoldsChunk, BeforeChange, AfterChange
<1> QED BY <1>2, <1>3, <1>6, <1>7, <1>8, ClientMoves

\* A worker that holds a client is the only place of that client.
LEMMA HeldPlace ==
    ASSUME ClientTypes, ClientInv, NEW w \in Workers, wpc[w] \in HoldsClient
    PROVE  LET c == wClient[w] IN
           /\ c \in Clients /\ link[c] # "off"
           /\ \A p : At(p, c) => p = IF wpc[w] \in BeforeChange THEN "before" ELSE "after"
           /\ \A v \in Workers : v # w /\ wpc[v] \in HoldsClient => wClient[v] # c
           /\ wpc[w] \in BeforeChange => ~HasWork(workMap, c)
<1> DEFINE c == wClient[w]
           x == IF wpc[w] \in BeforeChange THEN "before" ELSE "after"
<1>1. c \in Clients /\ \A v \in Workers : v # w /\ wpc[v] \in HoldsClient => wClient[v] # c
  BY DEF ClientInv, OneOf
<1>2. wpc[w] \in BeforeChange \/ wpc[w] \in AfterChange
  BY DEF HoldsClient, HoldsChunk, BeforeChange, AfterChange
<1>3. At(x, c)
  BY <1>2 DEF At
<1> HIDE DEF x
<1>4. (\A p : At(p, c) => p = x) /\ link[c] # "off" /\ (x \in Free => ~HasWork(workMap, c))
  BY <1>1, <1>3, OnlyPlace
<1> QED BY <1>1, <1>4 DEF x, Free

LEMMA AssignStep ==
    ASSUME ClientTypes, ClientInv, NEW w \in Workers,
           NEW from \in {"newAssign", "oldAssign"}, NEW to \in {"newStamp", "oldStamp"},
           Assign(w, from, to)
    PROVE  ClientInv'
<1> SUFFICES ASSUME NEW CONSTANT c, c = wClient[w] PROVE ClientInv'
  OBVIOUS
<1>1. /\ wpc[w] = from /\ wpc' = [wpc EXCEPT ![w] = to]
      /\ workMap' = [workMap EXCEPT ![c] = wWork[w]]
      /\ UNCHANGED <<link, inbox, outbox, fastClients, otherClients, wClient, hpc>>
  BY DEF Assign, Step, Change, netVars, queueVars, handlerVars
<1>2. wpc[w] \in HoldsClient /\ wpc[w] \in BeforeChange
  BY <1>1 DEF HoldsClient, HoldsChunk, BeforeChange
<1>3. /\ c \in Clients /\ link[c] # "off" /\ \A p : At(p, c) => p = "before"
      /\ \A v \in Workers : v # w /\ wpc[v] \in HoldsClient => wClient[v] # c
  BY <1>2, HeldPlace
<1>4. /\ wpc'[w] \in AfterChange
      /\ \A v \in Workers : v # w => wpc'[v] = wpc[v]
      /\ \A v \in Workers : wpc'[v] \in HoldsClient => wpc[v] \in HoldsClient
  BY <1>1, <1>2 DEF ClientTypes, AfterChange
<1>5. \A d \in Clients : d # c => (HasWork(workMap', d) => HasWork(workMap, d))
  BY <1>1, <1>3 DEF HasWork, ClientTypes
<1>6. OneOf'
  BY <1>1, <1>4 DEF ClientInv, OneOf, Once
<1>7. \A d \in Clients : d # c => \A p : At(p, d)' => At(p, d)
  <2>1. \A v \in Workers : wClient[v] # c => v # w
    OBVIOUS
  <2> QED BY <1>1, <1>4, <2>1 DEF At, In
<1>8. \A p : At(p, c)' => p = "after"
  <2>1. \A v \in Workers : wpc'[v] \in BeforeChange => wClient[v] # c
    BY <1>3, <1>4 DEF HoldsClient, HoldsChunk, BeforeChange, AfterChange
  <2> QED BY <1>1, <1>3, <2>1 DEF At, In
<1>9. "after" \notin Free
  BY DEF Free
<1> QED BY <1>1, <1>3, <1>5, <1>6, <1>7, <1>8, <1>9, ClientMoves

LEMMA SendStep ==
    ASSUME ClientTypes, wBlock \in [Workers -> Block], ClientInv, NEW w \in Workers,
           NEW from \in {"newSend", "oldSend"}, NEW sent, NEW failed,
           sent \notin HoldsClient, failed \notin HoldsClient,
           Send(w, from, sent, failed)
    PROVE  ClientInv'
<1> SUFFICES ASSUME NEW CONSTANT c, c = wClient[w] PROVE ClientInv'
  OBVIOUS
<1>1. /\ wpc[w] = from
      /\ wpc' = [wpc EXCEPT ![w] = sent] \/ wpc' = [wpc EXCEPT ![w] = failed]
      /\ inbox' = [inbox EXCEPT ![c] = Append(@, wBlock[w])] \/ UNCHANGED inbox
      /\ UNCHANGED <<link, outbox, fastClients, otherClients, workMap, wClient, hpc>>
  BY DEF Send, Step, queueVars, workVars, handlerVars
<1>2. wpc[w] \in HoldsClient /\ wpc[w] \notin BeforeChange
  BY DEF Send, Step, HoldsClient, HoldsChunk, BeforeChange
<1>3. /\ c \in Clients /\ link[c] # "off" /\ \A p : At(p, c) => p = "after"
      /\ \A v \in Workers : v # w /\ wpc[v] \in HoldsClient => wClient[v] # c
  BY <1>2, HeldPlace
<1>4. /\ wpc'[w] \notin HoldsClient
      /\ \A v \in Workers : v # w => wpc'[v] = wpc[v]
  BY <1>1 DEF ClientTypes
<1>5. inbox[c] = <<>>
  BY <1>3 DEF At
<1>6. Len(inbox'[c]) <= 1 /\ \A d \in Clients : d # c => inbox'[d] = inbox[d]
  <2>1. inbox'[c] = <<>> \/ inbox'[c] = Append(<<>>, wBlock[w])
    BY <1>1, <1>3, <1>5 DEF ClientTypes
  <2>2. ASSUME NEW q, q = <<>> \/ q = Append(<<>>, wBlock[w])
        PROVE  Len(q) <= 1
    <3> DEFINE n == Len(q)
    <3>1. n = 0 \/ n = 1
      BY <2>2, OneMessage, NoMessage, Zenon
    <3> HIDE DEF n
    <3>2. n <= 1
      BY <3>1
    <3> QED BY <3>2, Zenon DEF n
  <2>3. Len(inbox'[c]) <= 1
    BY <2>1, <2>2, Zenon
  <2> QED BY <1>1, <2>3 DEF ClientTypes
<1>7. OneOf'
  BY <1>1, <1>4, <1>6 DEF ClientInv, OneOf, Once
<1>8. \A d \in Clients : d # c => \A p : At(p, d)' => At(p, d)
  BY <1>1, <1>4, <1>6 DEF At, In, HoldsClient, HoldsChunk, BeforeChange, AfterChange
<1>9. \A p : At(p, c)' => p = "inbox"
  <2>1. \A v \in Workers : wpc'[v] \in BeforeChange \cup AfterChange => wClient[v] # c
    BY <1>3, <1>4 DEF HoldsClient, HoldsChunk, BeforeChange, AfterChange
  <2> QED BY <1>1, <1>3, <2>1 DEF At, In
<1>10. "inbox" \notin Free
  BY DEF Free
<1> QED BY <1>1, <1>3, <1>7, <1>8, <1>9, <1>10, ClientMoves

LEMMA WorkerStep ==
    ASSUME ClientTypes, wBlock \in [Workers -> Block], ClientInv, NEW w \in Workers, Worker(w)
    PROVE  ClientInv'
<1> USE DEF netVars, queueVars, workVars, handlerVars, Step
<1>1. CASE FindFast(w) /\ fastClients # <<>>
  <2>1. /\ wpc[w] = "findFast" /\ wpc' = [wpc EXCEPT ![w] = "pick"]
        /\ wClient' = [wClient EXCEPT ![w] = Head(fastClients)]
        /\ fastClients' = Tail(fastClients)
        /\ UNCHANGED <<otherClients, netVars, workMap, hpc>>
    BY <1>1 DEF FindFast, Found
  <2>2. wpc[w] \notin HoldsClient
    BY <2>1 DEF HoldsClient, HoldsChunk
  <2> QED BY <1>1, <2>1, <2>2, FindStep
<1>2. CASE FindOther(w) /\ otherClients # <<>>
  <2>1. /\ wpc[w] = "findOther" /\ wpc' = [wpc EXCEPT ![w] = "pick"]
        /\ wClient' = [wClient EXCEPT ![w] = Head(otherClients)]
        /\ otherClients' = Tail(otherClients)
        /\ UNCHANGED <<fastClients, netVars, workMap, hpc>>
    BY <1>2 DEF FindOther, Found
  <2>2. wpc[w] \notin HoldsClient
    BY <2>1 DEF HoldsClient, HoldsChunk
  <2> QED BY <1>2, <2>1, <2>2, FindStep
<1>3. CASE NewAssign(w) \/ OldAssign(w)
  BY <1>3, AssignStep DEF NewAssign, OldAssign
<1>4. CASE NewSend(w) \/ OldSend(w)
  <2>1. {"check", "newRemove", "oldRemove"} \cap HoldsClient = {}
    BY DEF HoldsClient, HoldsChunk
  <2> QED BY <1>4, <2>1, SendStep DEF NewSend, OldSend
<1>5. ASSUME NEW from, NEW to, wpc[w] = from, wpc' = [wpc EXCEPT ![w] = to],
             \/ to \notin HoldsClient
             \/ /\ from \in HoldsClient /\ UNCHANGED wClient
                /\ to \in BeforeChange => from \in BeforeChange
                /\ to \in AfterChange => from \in AfterChange,
             \A v \in Workers : v # w => wClient'[v] = wClient[v]
      PROVE  WorkersStay
  BY <1>5 DEF WorkersStay, ClientTypes
<1>6. CASE \/ Poll(w) \/ Check(w) \/ PickWork(w)
           \/ (FindFast(w) /\ fastClients = <<>>) \/ (FindOther(w) /\ otherClients = <<>>)
  <2>1. UNCHANGED <<netVars, fastClients, otherClients, hpc, workMap>>
    BY <1>6 DEF Poll, Check, PickWork, FindFast, FindOther
  <2>2. \A v \in Workers : v # w => wClient'[v] = wClient[v]
    BY <1>6 DEF Poll, Check, PickWork, FindFast, FindOther, ClientTypes
  <2>3. \/ \E to \in {"done", "findFast", "findOther", "poll"} : wpc' = [wpc EXCEPT ![w] = to]
        \/ /\ \E to \in {"oldRead", "newRead"} : wpc' = [wpc EXCEPT ![w] = to]
           /\ wpc[w] = "pick" /\ UNCHANGED wClient
    BY <1>6 DEF Poll, Check, PickWork, FindFast, FindOther
  <2>4. WorkersStay
    BY <1>5, <2>2, <2>3 DEF HoldsClient, HoldsChunk, BeforeChange, AfterChange
  <2> QED BY <2>1, <2>4, WorkerStays
<1>7. CASE NewRead(w) \/ OldRead(w) \/ NewStamp(w) \/ OldStamp(w)
  <2>1. UNCHANGED <<netVars, fastClients, otherClients, hpc, workMap, wClient>>
    BY <1>7 DEF NewRead, OldRead, NewStamp, OldStamp, Stamp
  <2>2. \/ UNCHANGED wpc
        \/ wpc[w] = "newRead" /\ \E to \in {"newAssign", "drainMap"} : wpc' = [wpc EXCEPT ![w] = to]
        \/ wpc[w] = "oldRead" /\ wpc' = [wpc EXCEPT ![w] = "oldAssign"]
        \/ wpc[w] = "newStamp" /\ wpc' = [wpc EXCEPT ![w] = "newSend"]
        \/ wpc[w] = "oldStamp" /\ wpc' = [wpc EXCEPT ![w] = "oldSend"]
    BY <1>7 DEF NewRead, OldRead, NewStamp, OldStamp, Stamp
  <2>3. CASE UNCHANGED wpc
    BY <2>1, <2>3, WorkerStays DEF WorkersStay
  <2>4. CASE ~UNCHANGED wpc
    <3>1. WorkersStay
      BY <1>5, <2>1, <2>2, <2>4 DEF HoldsClient, HoldsChunk, BeforeChange, AfterChange
    <3> QED BY <2>1, <3>1, WorkerStays
  <2> QED BY <2>3, <2>4
<1>8. CASE \/ NewRemove(w) \/ OldRemove(w) \/ DrainMap(w) \/ DrainOld(w) \/ Finish(w)
           \/ Reorder(w) \/ ReorderEnd(w)
  <2>1. /\ UNCHANGED <<netVars, fastClients, otherClients, hpc>>
        /\ UNCHANGED workMap \/ \E c : workMap' = Remove(workMap, c)
    BY <1>8 DEF NewRemove, OldRemove, Erase, DrainMap, DrainOld, Finish, Reorder, ReorderEnd
  <2>2. \A v \in Workers : v # w => wClient'[v] = wClient[v]
    BY <1>8 DEF NewRemove, OldRemove, Erase, DrainMap, DrainOld, Finish, Reorder, ReorderEnd,
                ClientTypes
  <2>3. \E to \in {"check", "drainOld", "drainMap", "finish", "reorder", "reorderEnd", "done"} :
          wpc' = [wpc EXCEPT ![w] = to]
    BY <1>8 DEF NewRemove, OldRemove, Erase, DrainMap, DrainOld, Finish, Reorder, ReorderEnd
  <2>4. WorkersStay
    BY <1>5, <2>2, <2>3 DEF HoldsClient, HoldsChunk
  <2>5. \A d \in Clients : HasWork(workMap', d) => HasWork(workMap, d)
    BY <2>1 DEF Remove, HasWork, ClientTypes
  <2> QED BY <2>1, <2>4, <2>5, WorkerStays
<1> QED BY <1>1, <1>2, <1>3, <1>4, <1>6, <1>7, <1>8 DEF Worker

LEMMA ClientInvStep ==
    ASSUME TypeOK, ClientInv, [Next]_vars
    PROVE  ClientInv'
<1>1. ClientTypes /\ wBlock \in [Workers -> Block]
  BY TypesOfClients DEF TypeOK
<1>2. ASSUME NEW c \in Clients, Client(c) \/ Break(c) \/ Handler(c)
      PROVE  ClientInv'
  BY <1>1, <1>2, ClientStep, HandlerKeeps
<1>3. ASSUME NEW w \in Workers, Worker(w)
      PROVE  ClientInv'
  BY <1>1, <1>3, WorkerStep
<1>4. CASE Main \/ UNCHANGED vars
  <2>1. UNCHANGED <<netVars, fastClients, otherClients, workMap, wpc, wClient, hpc>>
    BY <1>4 DEF Main, Shutdown, Join, vars, netVars, queueVars, workVars, workerVars,
                handlerVars
  <2>2. WorkersStay
    BY <2>1 DEF WorkersStay
  <2> QED BY <2>1, <2>2, WorkerStays
<1> QED BY <1>2, <1>3, <1>4 DEF Next

\* A client is in one place at a time, and a client that has an entry in the map
\* is in none where it counts as free.
THEOREM ClientsApart == Spec => []ClientInv
<1>1. TypeOK /\ ClientInv /\ [Next]_vars => ClientInv'
  BY ClientInvStep
<1> QED BY <1>1, ClientInvInit, TypeCorrect, PTL DEF Spec

-----------------------------------------------------------------------------
(* The theorems *)

\* GiveNewWork and GiveOldWork overwrite no entry of workMap (Server.cpp:124
\* and 157): the client they were handed has none.
THEOREM AssignedClientFree == Spec => []AssignToFreeClient
<1>1. TypeOK /\ ClientInv => AssignToFreeClient
  <2> SUFFICES ASSUME ClientInv, TypeOK, NEW w \in Workers, wpc[w] \in {"newAssign", "oldAssign"}
               PROVE  ~HasWork(workMap, wClient[w])
    BY DEF AssignToFreeClient
  <2>1. wpc[w] \in HoldsClient /\ wpc[w] \in BeforeChange
    BY DEF HoldsClient, HoldsChunk, BeforeChange
  <2> QED BY <2>1, HeldPlace, TypesOfClients
<1> QED BY <1>1, ClientsApart, TypeCorrect, PTL

\* A summand of Tokens is one at most, and is zero but at one place.
LEMMA CountOnce ==
    ASSUME NEW q \in Seq(Clients), NEW c, Once(q)
    PROVE  Count(q, c) \in {0, 1} /\ (Count(q, c) # 0 => In(q, c))
<1> DEFINE S == {k \in DOMAIN q : q[k] = c}
<1>1. S = {} => Cardinality(S) = 0
  BY FS_EmptySet
<1>2. \A x, y \in S : x = y
  BY DEF Once
<1>3. Cardinality(S) \in {0, 1}
  BY <1>2, AtMostOne
<1> QED BY <1>1, <1>3 DEF Count, In

\* A client is queued once, and neither while a worker has it nor while it owes
\* an answer: the lock-free queues never hold a ClientData twice.
THEOREM ClientsFreeOnce == Spec => []ClientFreeOnce
<1>1. TypeOK /\ ClientInv => ClientFreeOnce
  <2> SUFFICES ASSUME TypeOK, ClientInv, NEW c \in Clients
               PROVE  Tokens(c) <= 1
    BY DEF ClientFreeOnce
  <2> DEFINE S == {w \in Workers : wpc[w] \in HoldsClient /\ wClient[w] = c}
             h == IF hpc[c] \in {"take", "write", "eval"} THEN 1 ELSE 0
             f == Count(fastClients, c)
             o == Count(otherClients, c)
             i == Len(inbox[c])
             m == Len(outbox[c])
             n == Cardinality(S)
  <2>1. ClientTypes
    BY TypesOfClients
  <2>2. /\ f \in {0, 1} /\ (f # 0 => At("fast", c))
        /\ o \in {0, 1} /\ (o # 0 => At("other", c))
    <3>1. /\ Once(fastClients) /\ Once(otherClients)
          /\ fastClients \in Seq(Clients) /\ otherClients \in Seq(Clients)
      BY <2>1 DEF ClientInv, OneOf, ClientTypes
    <3> QED BY <3>1, CountOnce DEF At
  <2>3. /\ i \in {0, 1} /\ (i # 0 => At("inbox", c))
        /\ m \in {0, 1} /\ (m # 0 => At("ready", c) \/ At("answer", c))
    <3>1. /\ inbox[c] \in Seq(Block) /\ outbox[c] \in Seq(Messages)
          /\ i <= 1 /\ m <= 1
      BY <2>1 DEF ClientInv, OneOf, ClientTypes
    <3>2. /\ i \in Nat /\ m \in Nat
          /\ i # 0 => inbox[c] # <<>>
          /\ m # 0 => outbox[c] # <<>>
      BY <3>1, LenProperties, NoMessage
    <3>3. /\ inbox[c] # <<>> => At("inbox", c)
          /\ outbox[c] # <<>> => At("ready", c) \/ At("answer", c)
      BY DEF At
    <3> HIDE DEF i, m
    <3>4. i \in {0, 1} /\ m \in {0, 1}
      BY <3>1, <3>2
    <3> QED BY <3>2, <3>3, <3>4
  <2>4. n \in {0, 1} /\ (n # 0 => At("before", c) \/ At("after", c))
    <3>1. n \in {0, 1}
      BY AtMostOne DEF ClientInv, OneOf
    <3>2. n # 0 => S # {}
      BY FS_EmptySet
    <3>3. \A w \in S : At("before", c) \/ At("after", c)
      BY DEF At, HoldsClient, HoldsChunk, BeforeChange, AfterChange
    <3> QED BY <3>1, <3>2, <3>3
  <2>5. h \in {0, 1} /\ (h # 0 => At("take", c) \/ At("done", c))
    BY DEF At
  <2>6. \A p, q : At(p, c) /\ At(q, c) => p = q
    BY DEF ClientInv, InOnePlace
  <2>7. Tokens(c) = f + o + i + m + n + h
    BY DEF Tokens
  <2> HIDE DEF f, o, i, m, n, h
  <2> QED BY <2>2, <2>3, <2>4, <2>5, <2>6, <2>7
<1> QED BY <1>1, ClientsApart, TypeCorrect, PTL

================================================================================
