--------------------------- MODULE ServerPoolProofs ----------------------------
(* Where Server loses a chunk, that it implements WorkPool, and what holds while *)
(* no client disconnects and none is too slow: nothing is lost, no TimePoint is  *)
(* missing, and every answer and every record is that of the chunk it is for.    *)
EXTENDS ServerProofs

-----------------------------------------------------------------------------
(* The status of the chunks *)

PoolStep == [Pool!PoolNext]_ChunkStatus

\* A step that loses no chunk, and one that the pool allows to.
Kept == \A i \in Nat : Owned(i) => Owned(i)'
MayLose == Breakable \cup SlowClients # {} \/ Kept

\* A step that neither reads nor writes a chunk, and after which at most chunk j
\* has an owner no more, is a step of the pool.
LEMMA StatusLoses ==
    ASSUME MayLose,
           UNCHANGED tempFile, data'.curIndex = data.curIndex, NEW j,
           \A i \in Nat : i # j => (Owned(i)' <=> Owned(i)),
           Owned(j)' => Owned(j)
    PROVE  PoolStep
<1> DEFINE C == 0 .. (FileSize - 1)
<1>1. C \subseteq Nat /\ Pool!Chunks = C
  BY FileSizeAssumption DEF Pool!Chunks
<1>2. \A i \in C : i # j => ChunkStatus'[i] = ChunkStatus[i]
  BY <1>1 DEF ChunkStatus, Issued, Written
<1>3. DOMAIN ChunkStatus = C /\ DOMAIN ChunkStatus' = C
  BY DEF ChunkStatus
<1>4. CASE j \notin C \/ ChunkStatus'[j] = ChunkStatus[j]
  <2>1. ChunkStatus' = ChunkStatus
    BY <1>2, <1>3, <1>4 DEF ChunkStatus
  <2> QED BY <2>1 DEF PoolStep
<1>5. CASE j \in C /\ ChunkStatus'[j] # ChunkStatus[j]
  <2>1. ChunkStatus[j] = "outstanding" /\ ChunkStatus'[j] = "lost"
    BY <1>5 DEF ChunkStatus, Issued, Written, Owned
  <2>2. ChunkStatus' = [ChunkStatus EXCEPT ![j] = "lost"]
    BY <1>2, <1>3, <1>5, <2>1 DEF ChunkStatus
  <2>3. Breakable \cup SlowClients # {}
    BY <1>1, <1>5 DEF MayLose, Kept, ChunkStatus, Issued, Written, Owned
  <2>4. Pool!Lose(j)
    BY <2>1, <2>2, <2>3 DEF Pool!Lose
  <2> QED BY <1>1, <1>5, <2>4 DEF PoolStep, Pool!PoolNext
<1> QED BY <1>4, <1>5

\* A step after which every chunk has an owner if it had one.
LEMMA StatusSame ==
    ASSUME UNCHANGED tempFile, data'.curIndex = data.curIndex,
           \A i \in Nat : Owned(i)' <=> Owned(i)
    PROVE  PoolStep
<1>1. \A i \in 0 .. (FileSize - 1) : Owned(i)' <=> Owned(i)
  BY FileSizeAssumption
<1>2. ChunkStatus' = ChunkStatus
  BY <1>1 DEF ChunkStatus, Issued, Written
<1> QED BY <1>2 DEF PoolStep

-----------------------------------------------------------------------------
(* Steps that move no chunk *)

\* What is held is a chunk, and not the WorkInfo that says there is none.
RealWork ==
    /\ \A w \in Workers : WorkerHolds(w) => wWork[w] # NoWork
    /\ \A c \in Clients : HandlerHolds(c) => hWork[c] # NoWork
    /\ \A k \in DOMAIN oldWork : oldWork[k] # NoWork

LEMMA RealWorkInit == Init => RealWork
BY DEF Init, RealWork, WorkerHolds, HoldsChunk, HandlerHolds

\* The places an owner may be in, for a chunk i.
ByWorker(i)  == \E w \in Workers : WorkerHolds(w) /\ wWork[w].curIndex = i
InMap(i)     == \E c \in Clients : HasWork(workMap, c) /\ workMap[c].curIndex = i
Stored(i)    == \E k \in DOMAIN oldWork : oldWork[k].curIndex = i
ByHandler(i) == \E c \in Clients : HandlerHolds(c) /\ hWork[c].curIndex = i

LEMMA OwnedPlaces ==
    ASSUME NEW i
    PROVE  Owned(i) <=> Written(i) \/ Stored(i) \/ ByWorker(i) \/ InMap(i) \/ ByHandler(i)
BY DEF Owned, Stored, ByWorker, InMap, ByHandler, WorkerHolds, HandlerHolds

LEMMA OwnedPlacesNext ==
    ASSUME NEW i
    PROVE  Owned(i)' <=> Written(i)' \/ Stored(i)' \/ ByWorker(i)' \/ InMap(i)' \/ ByHandler(i)'
BY DEF Owned, Stored, ByWorker, InMap, ByHandler, WorkerHolds, HandlerHolds

WorkersKept ==
    \A w \in Workers : (WorkerHolds(w)' <=> WorkerHolds(w))
                       /\ (WorkerHolds(w) => wWork'[w] = wWork[w])
HandlersKept ==
    \A c \in Clients : (HandlerHolds(c)' <=> HandlerHolds(c))
                       /\ (HandlerHolds(c) => hWork'[c] = hWork[c])

LEMMA PlacesKept ==
    ASSUME WorkersKept, HandlersKept, UNCHANGED <<workMap, oldWork, tempFile>>, RealWork
    PROVE  /\ \A i \in Nat : Owned(i)' <=> Owned(i)
           /\ RealWork' /\ Kept
<1>1. ASSUME NEW i \in Nat PROVE Owned(i)' <=> Owned(i)
  <2>1. (Written(i)' <=> Written(i)) /\ (Stored(i)' <=> Stored(i)) /\ (InMap(i)' <=> InMap(i))
    BY DEF Written, Stored, InMap, HasWork
  <2>2. (ByWorker(i)' <=> ByWorker(i)) /\ (ByHandler(i)' <=> ByHandler(i))
    BY DEF WorkersKept, HandlersKept, ByWorker, ByHandler
  <2> QED BY <2>1, <2>2, OwnedPlaces, OwnedPlacesNext
<1>2. RealWork'
  BY DEF RealWork, WorkersKept, HandlersKept
<1> QED BY <1>1, <1>2 DEF Kept

\* A step that moves no chunk and reads none is none of the pool's.
LEMMA NothingMoves ==
    ASSUME WorkersKept, HandlersKept, UNCHANGED <<workMap, oldWork, tempFile>>,
           data'.curIndex = data.curIndex, RealWork
    PROVE  PoolStep /\ RealWork' /\ Kept
BY PlacesKept, StatusSame

-----------------------------------------------------------------------------
(* Steps that move a chunk *)

\* Change: the chunk goes from the worker to the map, in the place of the one
\* that was there.
LEMMA AssignPool ==
    ASSUME OwnerTypes, RealWork, NEW w \in Workers, NEW from \in HoldsChunk, NEW to, to \notin HoldsChunk,
           Assign(w, from, to)
    PROVE  /\ RealWork' /\ (MayLose => PoolStep)
           /\ ~HasWork(workMap, wClient[w]) /\ wClient[w] \in Clients => Kept
<1> DEFINE c == wClient[w]
<1>1. /\ workMap' = [workMap EXCEPT ![c] = wWork[w]]
      /\ wpc[w] = from /\ wpc' = [wpc EXCEPT ![w] = to]
      /\ UNCHANGED <<wWork, oldWork, data, tempFile, hpc, hWork>>
  BY DEF Assign, Change, Step, handlerVars, fileVars
<1>2. WorkerHolds(w) /\ wWork[w] # NoWork
  BY <1>1 DEF WorkerHolds, RealWork
<1>3. \A v \in Workers : WorkerHolds(v)' <=> v # w /\ WorkerHolds(v)
  BY <1>1 DEF WorkerHolds, OwnerTypes
<1>4. \A i \in Nat : /\ Written(i)' <=> Written(i)
                     /\ Stored(i)' <=> Stored(i)
                     /\ ByHandler(i)' <=> ByHandler(i)
  BY <1>1 DEF Written, Stored, ByHandler, HandlerHolds
<1>5. \A i \in Nat : ByWorker(i)' => ByWorker(i)
  BY <1>1, <1>3 DEF ByWorker
<1>6. \A i \in Nat : ByWorker(i) => ByWorker(i)' \/ i = wWork[w].curIndex
  BY <1>1, <1>3 DEF ByWorker
<1>7. RealWork'
  BY <1>1, <1>3 DEF RealWork, HandlerHolds
<1>8. CASE c \in Clients
  <2>1. \A d \in Clients : workMap'[d] = IF d = c THEN wWork[w] ELSE workMap[d]
    BY <1>1, <1>8 DEF OwnerTypes
  <2>2. \A i \in Nat : InMap(i)' => InMap(i) \/ ByWorker(i)
    BY <1>2, <2>1 DEF InMap, HasWork, ByWorker
  <2>3. \A i \in Nat : InMap(i) /\ i # workMap[c].curIndex => InMap(i)'
    BY <2>1 DEF InMap, HasWork
  <2>4. \A i \in Nat : i = wWork[w].curIndex => InMap(i)'
    BY <1>2, <1>8, <2>1 DEF InMap, HasWork
  <2>5. \A i \in Nat : Owned(i)' => Owned(i)
    BY <1>4, <1>5, <2>2, OwnedPlaces, OwnedPlacesNext
  <2>6. \A i \in Nat : i # workMap[c].curIndex => (Owned(i)' <=> Owned(i))
    BY <1>4, <1>6, <2>3, <2>4, <2>5, OwnedPlaces, OwnedPlacesNext
  <2>7. workMap[c].curIndex \in Nat
    BY <1>8 DEF OwnerTypes, WorkInfo
  <2>8. ~HasWork(workMap, c) => \A i \in Nat : InMap(i) => InMap(i)'
    BY <2>1 DEF InMap, HasWork
  <2>9. ~HasWork(workMap, c) => Kept
    BY <1>4, <1>6, <2>4, <2>8, OwnedPlaces, OwnedPlacesNext DEF Kept
  <2> QED BY <1>1, <1>7, <2>5, <2>6, <2>7, <2>9, StatusLoses
<1>9. CASE c \notin Clients
  <2>1. workMap' = workMap
    BY <1>1, <1>9 DEF OwnerTypes
  <2>2. \A i \in Nat : InMap(i)' <=> InMap(i)
    BY <2>1 DEF InMap, HasWork
  <2>3. \A i \in Nat : i # wWork[w].curIndex => (Owned(i)' <=> Owned(i))
    BY <1>4, <1>5, <1>6, <2>2, OwnedPlaces, OwnedPlacesNext
  <2>4. \A i \in Nat : Owned(i)' => Owned(i)
    BY <1>4, <1>5, <2>2, OwnedPlaces, OwnedPlacesNext
  <2>5. wWork[w].curIndex \in Nat
    BY DEF OwnerTypes, WorkInfo
  <2> QED BY <1>1, <1>7, <1>9, <2>3, <2>4, <2>5, StatusLoses
<1> QED BY <1>8, <1>9

\* Remove: the chunk in the map is lost.
LEMMA ErasePool ==
    ASSUME OwnerTypes, RealWork, NEW c, workMap' = Remove(workMap, c),
           WorkersKept, HandlersKept, UNCHANGED <<oldWork, tempFile, data>>
    PROVE  RealWork' /\ (MayLose => PoolStep)
<1>1. RealWork'
  BY DEF RealWork, WorkersKept, HandlersKept
<1>2. \A i \in Nat : /\ Written(i)' <=> Written(i)
                     /\ Stored(i)' <=> Stored(i)
                     /\ ByHandler(i)' <=> ByHandler(i)
                     /\ ByWorker(i)' <=> ByWorker(i)
  BY DEF Written, Stored, ByHandler, ByWorker, WorkersKept, HandlersKept
<1>3. \A i \in Nat : InMap(i)' => InMap(i)
  BY DEF InMap, HasWork, Remove, OwnerTypes
<1>4. \A i \in Nat : i # workMap[c].curIndex => (InMap(i) => InMap(i)')
  BY DEF InMap, HasWork, Remove, OwnerTypes
<1>5. /\ \A i \in Nat : i # workMap[c].curIndex => (Owned(i)' <=> Owned(i))
      /\ \A i \in Nat : Owned(i)' => Owned(i)
  BY <1>2, <1>3, <1>4, OwnedPlaces, OwnedPlacesNext
<1>6. CASE c \in Clients
  <2>1. workMap[c].curIndex \in Nat
    BY <1>6 DEF OwnerTypes, WorkInfo
  <2> QED BY <1>1, <1>5, <2>1, StatusLoses
<1>7. CASE c \notin Clients
  <2>1. UNCHANGED workMap
    BY <1>7 DEF Remove, OwnerTypes
  <2> QED BY <2>1, NothingMoves
<1> QED BY <1>6, <1>7

\* oldWork.pop: the chunk goes from the queue to the worker.
LEMMA PickPool ==
    ASSUME OwnerTypes, RealWork, NEW w \in Workers, PickWork(w), oldWork # <<>>
    PROVE  PoolStep /\ RealWork' /\ Kept
<1>1. /\ wpc[w] = "pick" /\ wpc' = [wpc EXCEPT ![w] = "oldRead"]
      /\ wWork' = [wWork EXCEPT ![w] = Head(oldWork)]
      /\ oldWork' = Tail(oldWork)
      /\ UNCHANGED <<workMap, data, tempFile, hpc, hWork>>
  BY DEF PickWork, Step, handlerVars, fileVars
<1>2. /\ 1 \in DOMAIN oldWork /\ wWork'[w] = oldWork[1]
      /\ \A k \in DOMAIN oldWork' : k + 1 \in DOMAIN oldWork /\ oldWork'[k] = oldWork[k + 1]
      /\ \A k \in DOMAIN oldWork : k # 1 => k - 1 \in DOMAIN oldWork' /\ oldWork'[k - 1] = oldWork[k]
  BY <1>1 DEF OwnerTypes
<1>3. \A v \in Workers : /\ WorkerHolds(v)' <=> v = w \/ WorkerHolds(v)
                         /\ v # w => wWork'[v] = wWork[v]
  BY <1>1 DEF WorkerHolds, OwnerTypes, HoldsChunk
<1>4. ~WorkerHolds(w)
  BY <1>1 DEF WorkerHolds, HoldsChunk
<1>5. \A i \in Nat : /\ Written(i)' <=> Written(i)
                     /\ InMap(i)' <=> InMap(i)
                     /\ ByHandler(i)' <=> ByHandler(i)
  BY <1>1 DEF Written, InMap, HasWork, ByHandler, HandlerHolds
<1>6. \A i \in Nat : Stored(i) => Stored(i)' \/ ByWorker(i)'
  BY <1>2, <1>3 DEF Stored, ByWorker
<1>7. \A i \in Nat : Stored(i)' => Stored(i)
  BY <1>2 DEF Stored
<1>8. \A i \in Nat : ByWorker(i) => ByWorker(i)'
  BY <1>3, <1>4 DEF ByWorker
<1>9. \A i \in Nat : ByWorker(i)' => ByWorker(i) \/ Stored(i)
  BY <1>2, <1>3 DEF ByWorker, Stored
<1>10. \A i \in Nat : Owned(i)' <=> Owned(i)
  BY <1>5, <1>6, <1>7, <1>8, <1>9, OwnedPlaces, OwnedPlacesNext
<1>11. RealWork'
  BY <1>1, <1>2, <1>3 DEF RealWork, HandlerHolds
<1> QED BY <1>1, <1>10, <1>11, StatusSame DEF Kept

\* GetClientWork of the map: the chunk goes from the map to the handler.
LEMMA TakePool ==
    ASSUME OwnerTypes, RealWork, NEW c \in Clients, TakeWork(c), ~HandlerHolds(c),
           NEW to \in {"write", "dcPush"}, hpc' = [hpc EXCEPT ![c] = to],
           UNCHANGED <<wWork, wpc, oldWork, data, tempFile>>
    PROVE  PoolStep /\ RealWork' /\ Kept
<1>1. HasWork(workMap, c)
  BY DEF TakeWork
<1>2. \A d \in Clients : /\ hWork'[d] = IF d = c THEN workMap[c] ELSE hWork[d]
                         /\ workMap'[d] = IF d = c THEN NoWork ELSE workMap[d]
                         /\ HandlerHolds(d)' <=> d = c \/ HandlerHolds(d)
  BY DEF TakeWork, Remove, HandlerHolds, OwnerTypes
<1>3. \A i \in Nat : /\ Written(i)' <=> Written(i)
                     /\ Stored(i)' <=> Stored(i)
                     /\ ByWorker(i)' <=> ByWorker(i)
  BY DEF Written, Stored, ByWorker, WorkerHolds
<1>4. \A i \in Nat : InMap(i) => InMap(i)' \/ ByHandler(i)'
  BY <1>2 DEF InMap, HasWork, ByHandler
<1>5. \A i \in Nat : InMap(i)' => InMap(i)
  BY <1>2 DEF InMap, HasWork
<1>6. \A i \in Nat : ByHandler(i) => ByHandler(i)'
  BY <1>2 DEF ByHandler
<1>7. \A i \in Nat : ByHandler(i)' => ByHandler(i) \/ InMap(i)
  BY <1>1, <1>2 DEF InMap, ByHandler
<1>8. \A i \in Nat : Owned(i)' <=> Owned(i)
  BY <1>3, <1>4, <1>5, <1>6, <1>7, OwnedPlaces, OwnedPlacesNext
<1>9. RealWork'
  BY <1>1, <1>2 DEF RealWork, HasWork, WorkerHolds
<1> QED BY <1>8, <1>9, StatusSame DEF Kept

\* oldWork.push: the chunk goes from the handler to the queue, or is lost.
LEMMA StorePool ==
    ASSUME OwnerTypes, RealWork, NEW c \in Clients, HandleDisconnectPush(c)
    PROVE  /\ RealWork' /\ (MayLose => PoolStep)
           /\ oldWork' = Append(oldWork, hWork[c]) => Kept
<1>1. /\ hpc[c] = "dcPush" /\ hpc' = [hpc EXCEPT ![c] = "idle"]
      /\ oldWork' \in {oldWork, Append(oldWork, hWork[c])}
      /\ hWork' = [hWork EXCEPT ![c] = NoWork]
      /\ UNCHANGED <<wWork, wpc, workMap, tempFile, data>>
  BY PushEither DEF HandleDisconnectPush, Return, GoTo, workerVars, fileVars
<1>2. HandlerHolds(c) /\ hWork[c] # NoWork /\ hWork[c] \in WorkInfo
  BY <1>1 DEF HandlerHolds, RealWork, OwnerTypes
<1>3. \A d \in Clients : /\ HandlerHolds(d)' <=> d # c /\ HandlerHolds(d)
                         /\ d # c => hWork'[d] = hWork[d]
  BY <1>1 DEF HandlerHolds, OwnerTypes
<1>4. \A k \in DOMAIN oldWork' :
          \/ k \in DOMAIN oldWork /\ oldWork'[k] = oldWork[k]
          \/ k = Len(oldWork) + 1 /\ oldWork'[k] = hWork[c]
  <2>1. oldWork \in Seq(WorkInfo)
    BY DEF OwnerTypes
  <2> QED BY <1>1, <1>2, <2>1, PushPlaces
<1>5. \A k \in DOMAIN oldWork : k \in DOMAIN oldWork' /\ oldWork'[k] = oldWork[k]
  <2>1. oldWork \in Seq(WorkInfo)
    BY DEF OwnerTypes
  <2>2. \A k \in DOMAIN oldWork : /\ k \in DOMAIN Append(oldWork, hWork[c])
                                  /\ Append(oldWork, hWork[c])[k] = oldWork[k]
    BY <1>2, <2>1
  <2> QED BY <1>1, <2>2
<1>6. \A i \in Nat : /\ Written(i)' <=> Written(i)
                     /\ InMap(i)' <=> InMap(i)
                     /\ ByWorker(i)' <=> ByWorker(i)
  BY <1>1 DEF Written, InMap, HasWork, ByWorker, WorkerHolds
<1>7. \A i \in Nat : Stored(i)' => Stored(i) \/ ByHandler(i)
  BY <1>2, <1>4 DEF Stored, ByHandler
<1>8. \A i \in Nat : Stored(i) => Stored(i)'
  BY <1>5 DEF Stored
<1>9. \A i \in Nat : ByHandler(i)' => ByHandler(i)
  BY <1>3 DEF ByHandler
<1>10. \A i \in Nat : i # hWork[c].curIndex => (ByHandler(i) => ByHandler(i)')
  BY <1>3 DEF ByHandler
<1>11. /\ \A i \in Nat : i # hWork[c].curIndex => (Owned(i)' <=> Owned(i))
       /\ \A i \in Nat : Owned(i)' => Owned(i)
  BY <1>6, <1>7, <1>8, <1>9, <1>10, OwnedPlaces, OwnedPlacesNext
<1>12. hWork[c].curIndex \in Nat
  BY <1>2 DEF WorkInfo
<1>13. RealWork'
  BY <1>1, <1>2, <1>3, <1>4 DEF RealWork, WorkerHolds
<1>14. ASSUME oldWork' = Append(oldWork, hWork[c])
       PROVE  Kept
  <2>1. \E k \in DOMAIN oldWork' : oldWork'[k] = hWork[c]
    BY <1>2, <1>14 DEF OwnerTypes
  <2>2. \A i \in Nat : ByHandler(i) => ByHandler(i)' \/ Stored(i)'
    BY <1>3, <2>1 DEF ByHandler, Stored
  <2> QED BY <1>6, <1>8, <2>2, OwnedPlaces, OwnedPlacesNext DEF Kept
<1> QED BY <1>1, <1>11, <1>12, <1>13, <1>14, StatusLoses

\* The status of one chunk changes.
LEMMA StatusChanges ==
    ASSUME NEW j, NEW status,
           \A i \in Pool!Chunks : i # j => ChunkStatus'[i] = ChunkStatus[i],
           ChunkStatus'[j] = status, j \in Pool!Chunks
    PROVE  ChunkStatus' = [ChunkStatus EXCEPT ![j] = status]
BY DEF ChunkStatus, Pool!Chunks

LEMMA StatusAt ==
    ASSUME NEW i \in Pool!Chunks
    PROVE  /\ i \notin Issued => ChunkStatus[i] = "unissued"
           /\ i \in Issued /\ Written(i) => ChunkStatus[i] = "written"
           /\ i \in Issued /\ ~Written(i) /\ Owned(i) => ChunkStatus[i] = "outstanding"
           /\ i \in Issued => ChunkStatus[i] # "unissued"
BY DEF ChunkStatus, Pool!Chunks

LEMMA StatusAtNext ==
    ASSUME NEW i \in Pool!Chunks
    PROVE  /\ i \in Issued' /\ Written(i)' => ChunkStatus'[i] = "written"
           /\ i \in Issued' /\ ~Written(i)' /\ Owned(i)' => ChunkStatus'[i] = "outstanding"
BY DEF ChunkStatus, Pool!Chunks

LEMMA StatusStays ==
    ASSUME \A i \in Pool!Chunks : ChunkStatus'[i] = ChunkStatus[i]
    PROVE  PoolStep
<1>1. ChunkStatus' = ChunkStatus
  BY DEF ChunkStatus, Pool!Chunks
<1> QED BY <1>1 DEF PoolStep

\* Write: the chunk goes from the handler to the file.
LEMMA WritePool ==
    ASSUME OwnerTypes, OwnerInv, RealWork, NEW c \in Clients, HandleWrite(c),
           tempFile' # tempFile, NEW j, j = hWork[c].curIndex
    PROVE  PoolStep /\ RealWork' /\ Kept
<1> DEFINE record == [index |-> j, block |-> hBlock[c]]
<1>1. /\ hpc[c] = "write" /\ hpc' = [hpc EXCEPT ![c] = "eval"]
      /\ tempFile' = Append(tempFile, record)
      /\ UNCHANGED <<wWork, wpc, workMap, oldWork, data, hWork>>
  BY DEF HandleWrite, GoTo, workerVars, workVars
<1>2. record.index = j
  OBVIOUS
<1> HIDE DEF record
<1>3. HandlerHolds(c) /\ j \in Nat /\ j < data.curIndex
  BY <1>1 DEF HandlerHolds, OwnerInv, HeldIssued, OwnerTypes, WorkInfo
<1>4. \A d \in Clients : HandlerHolds(d)' <=> d # c /\ HandlerHolds(d)
  BY <1>1 DEF HandlerHolds, OwnerTypes
<1>5. \A k \in DOMAIN tempFile' :
          \/ k \in DOMAIN tempFile /\ tempFile'[k] = tempFile[k]
          \/ k = Len(tempFile) + 1 /\ tempFile'[k] = record
  BY <1>1, AppendPlaces DEF OwnerTypes
<1>6. /\ \A k \in DOMAIN tempFile : k \in DOMAIN tempFile' /\ tempFile'[k] = tempFile[k]
      /\ \E k \in DOMAIN tempFile' : tempFile'[k] = record
  BY <1>1 DEF OwnerTypes
<1>7. /\ \A i \in Nat : i # j => (Written(i)' <=> Written(i))
      /\ Written(j)'
  <2>1. \A i \in Nat : i # j => (Written(i)' => Written(i))
    BY <1>2, <1>5 DEF Written
  <2>2. \A i \in Nat : Written(i) => Written(i)'
    BY <1>6 DEF Written
  <2>3. Written(j)'
    BY <1>2, <1>6 DEF Written
  <2> QED BY <2>1, <2>2, <2>3
<1>8. \A i \in Nat : i # j => (ByHandler(i)' <=> ByHandler(i))
  BY <1>1, <1>4 DEF ByHandler
<1>9. \A i \in Nat : /\ Stored(i)' <=> Stored(i)
                     /\ InMap(i)' <=> InMap(i)
                     /\ ByWorker(i)' <=> ByWorker(i)
  BY <1>1 DEF Stored, InMap, HasWork, ByWorker, WorkerHolds
<1>10. \A i \in Nat : i # j => (Owned(i)' <=> Owned(i))
  BY <1>7, <1>8, <1>9, OwnedPlaces, OwnedPlacesNext
<1>11. ~Written(j)
  BY <1>3 DEF OwnerInv, HandlerApart, Written
<1>12. Owned(j)
  BY <1>3, OwnedPlaces DEF ByHandler
<1>13. RealWork'
  BY <1>1, <1>4 DEF RealWork, WorkerHolds
<1>14. \A i \in Pool!Chunks : i # j => ChunkStatus'[i] = ChunkStatus[i]
  BY <1>1, <1>7, <1>10, FileSizeAssumption DEF ChunkStatus, Issued, Pool!Chunks
<1>15. Kept
  BY <1>7, <1>10, OwnedPlacesNext DEF Kept
<1>16. CASE j \in Pool!Chunks
  <2>1. ChunkStatus[j] = "outstanding" /\ ChunkStatus'[j] = "written"
    <3>1. j \in Issued /\ Issued' = Issued
      BY <1>1, <1>3 DEF Issued, OwnerTypes, DataState
    <3> QED BY <1>7, <1>11, <1>12, <1>16, <3>1, StatusAt, StatusAtNext
  <2>2. Pool!WriteResult(j)
    BY <1>14, <1>16, <2>1, StatusChanges DEF Pool!WriteResult
  <2> QED BY <1>13, <1>16, <1>15, <2>2 DEF PoolStep, Pool!PoolNext
<1>17. CASE j \notin Pool!Chunks
  BY <1>13, <1>14, <1>17, <1>15, StatusStays
<1> QED BY <1>16, <1>17

\* Reading a new chunk: the worker holds it.
LEMMA NewReadPool ==
    ASSUME OwnerTypes, OwnerInv, RealWork, NEW w \in Workers, NewRead(w),
           NEW j, j = data.curIndex
    PROVE  PoolStep /\ RealWork' /\ Kept
<1> DEFINE r == GetClientWork(data)
<1>1. /\ wpc[w] = "newRead"
      /\ wpc' = [wpc EXCEPT ![w] = IF r.wi.size > 0 THEN "newAssign" ELSE "drainMap"]
      /\ wWork' = [wWork EXCEPT ![w] = r.wi] /\ data' = r.data
      /\ UNCHANGED <<workMap, oldWork, tempFile, hpc, hWork>>
  BY DEF NewRead, Step, handlerVars, fileVars
<1>2. \/ r.wi.size = 0 /\ r.data.curIndex = j
      \/ r.wi.size > 0 /\ r.wi.curIndex = j /\ r.data.curIndex = j + 1
  BY BytesReadBound, ChunkSizeNat DEF OwnerTypes, DataState, GetClientWork, ChunkAt, NoWork
<1> HIDE DEF r
<1>3. j \in Nat /\ ~WorkerHolds(w)
  BY <1>1 DEF OwnerTypes, DataState, WorkerHolds, HoldsChunk
<1>4. HandlersKept
  BY <1>1 DEF HandlersKept, HandlerHolds
<1>5. CASE r.wi.size = 0 /\ r.data.curIndex = j
  <2>1. WorkersKept
    BY <1>1, <1>3, <1>5 DEF WorkersKept, WorkerHolds, HoldsChunk, OwnerTypes
  <2> QED BY <1>1, <1>4, <1>5, <2>1, NothingMoves
<1>6. CASE r.wi.size > 0 /\ r.wi.curIndex = j /\ r.data.curIndex = j + 1
  <2>1. wWork'[w] = r.wi /\ wWork'[w] # NoWork
    BY <1>1, <1>6 DEF OwnerTypes, NoWork
  <2>2. \A v \in Workers : /\ WorkerHolds(v)' <=> v = w \/ WorkerHolds(v)
                           /\ v # w => wWork'[v] = wWork[v]
    BY <1>1, <1>6 DEF WorkerHolds, OwnerTypes, HoldsChunk
  <2>3. RealWork'
    BY <1>1, <2>1, <2>2 DEF RealWork, HandlerHolds
  <2>4. \A i \in Nat : i # j => (ByWorker(i)' <=> ByWorker(i))
    BY <1>3, <1>6, <2>1, <2>2 DEF ByWorker
  <2>5. ByWorker(j)'
    BY <1>6, <2>1, <2>2 DEF ByWorker
  <2>6. \A i \in Nat : /\ Written(i)' <=> Written(i)
                       /\ Stored(i)' <=> Stored(i)
                       /\ InMap(i)' <=> InMap(i)
                       /\ ByHandler(i)' <=> ByHandler(i)
    BY <1>1 DEF Written, Stored, InMap, HasWork, ByHandler, HandlerHolds
  <2>7. /\ \A i \in Nat : i # j => (Owned(i)' <=> Owned(i))
        /\ Owned(j)'
    BY <1>3, <2>4, <2>5, <2>6, OwnedPlaces, OwnedPlacesNext
  <2>8. ~Written(j)'
    BY <1>3, <2>6 DEF Written, OwnerInv, HeldIssued
  <2>9. Issued = 0 .. (j - 1) /\ Issued' = 0 .. j
    BY <1>1, <1>3, <1>6 DEF Issued
  <2>10. \A i \in Pool!Chunks : i # j => ChunkStatus'[i] = ChunkStatus[i]
    BY <1>3, <2>6, <2>7, <2>9, FileSizeAssumption DEF ChunkStatus, Pool!Chunks
  <2>11. Kept
    BY <2>7 DEF Kept
  <2>12. CASE j \in Pool!Chunks
    <3>1. ChunkStatus[j] = "unissued" /\ ChunkStatus'[j] = "outstanding"
      BY <1>3, <2>7, <2>8, <2>9, <2>12, StatusAt, StatusAtNext
    <3>2. \A i \in 0 .. (j - 1) : ChunkStatus[i] # "unissued"
      BY <1>3, <2>9, <2>12, FileSizeAssumption, StatusAt DEF Pool!Chunks
    <3>3. Pool!Issue(j)
      BY <2>10, <2>12, <3>1, <3>2, StatusChanges DEF Pool!Issue
    <3> QED BY <2>3, <2>12, <2>11, <3>3 DEF PoolStep, Pool!PoolNext
  <2>13. CASE j \notin Pool!Chunks
    BY <2>3, <2>10, <2>13, <2>11, StatusStays
  <2> QED BY <2>12, <2>13
<1> QED BY <1>2, <1>5, <1>6

-----------------------------------------------------------------------------
(* Every step *)

\* Steps of a handler that move no chunk.
LEMMA HandlerStays ==
    ASSUME RealWork, UNCHANGED <<workMap, oldWork, data, tempFile, wWork>>, HandlersKept,
           OwnerTypes,
           UNCHANGED wpc \/ \E w \in Workers : wpc[w] = "unstarted"
                                               /\ wpc' = [wpc EXCEPT ![w] = "poll"]
    PROVE  PoolStep /\ RealWork' /\ Kept
<1>1. WorkersKept
  BY DEF WorkersKept, WorkerHolds, HoldsChunk, OwnerTypes
<1> QED BY <1>1, NothingMoves

\* DisconnectHandler's push is refused.
Drop(c) == HandleDisconnectPush(c) /\ oldWork' # Append(oldWork, hWork[c])

LEMMA HandlerPool ==
    ASSUME OwnerTypes, OwnerInv, RealWork, NEW c \in Clients, Handler(c)
    PROVE  /\ RealWork' /\ (MayLose => PoolStep)
           /\ Kept \/ Drop(c)
<1> USE DEF netVars, queueVars, workVars, fileVars, workerVars, handlerVars, mainVars, GoTo
<1>1. CASE HandleReady(c) \/ HandleReadyInit(c) \/ HandleStart(c) \/ HandleComplete(c)
  <2>1. UNCHANGED <<workMap, oldWork, data, tempFile, wWork, hWork>>
    BY <1>1 DEF HandleReady, HandleReadyInit, HandleStart, HandleComplete
  <2>2. HandlersKept
    BY <1>1, <2>1 DEF HandleReady, HandleReadyInit, HandleStart, HandleComplete, Receive,
                      HandlersKept, HandlerHolds, OwnerTypes
  <2>3. UNCHANGED wpc \/ \E w \in Workers : wpc[w] = "unstarted"
                                            /\ wpc' = [wpc EXCEPT ![w] = "poll"]
    BY <1>1 DEF HandleReady, HandleReadyInit, HandleStart, HandleComplete
  <2> QED BY <2>1, <2>2, <2>3, HandlerStays
<1>2. CASE (HandleTake(c) \/ HandleDisconnectTake(c)) /\ TakeWork(c)
  <2>1. ~HandlerHolds(c) /\ UNCHANGED <<wWork, wpc, oldWork, data, tempFile>>
    BY <1>2 DEF HandleTake, HandleDisconnectTake, HandlerHolds
  <2>2. \/ hpc' = [hpc EXCEPT ![c] = "write"]
        \/ hpc' = [hpc EXCEPT ![c] = "dcPush"]
    BY <1>2 DEF HandleTake, HandleDisconnectTake, TakeWork
  <2> QED BY <1>2, <2>1, <2>2, TakePool
<1>3. CASE (HandleTake(c) \/ HandleDisconnectTake(c)) /\ ~TakeWork(c)
  <2>1. /\ UNCHANGED <<workMap, oldWork, data, tempFile, wWork, wpc>>
        /\ ~HandlerHolds(c)
    BY <1>3 DEF HandleTake, HandleDisconnectTake, HandlerHolds
  <2>2. hpc' = [hpc EXCEPT ![c] = "idle"] /\ hWork' = [hWork EXCEPT ![c] = NoWork]
    BY <1>3 DEF HandleTake, HandleDisconnectTake, Return
  <2>3. HandlersKept
    BY <2>1, <2>2 DEF HandlersKept, HandlerHolds, OwnerTypes
  <2> QED BY <2>1, <2>3, HandlerStays
<1>4. CASE HandleWrite(c)
  <2>1. CASE tempFile' = tempFile
    <3>1. UNCHANGED <<workMap, oldWork, data, tempFile, wWork, wpc, hWork>>
      BY <1>4, <2>1 DEF HandleWrite
    <3>2. UNCHANGED hpc
      <4>1. Append(tempFile, [index |-> hWork[c].curIndex, block |-> hBlock[c]]) # tempFile
        BY DEF OwnerTypes
      <4> QED BY <1>4, <2>1, <4>1 DEF HandleWrite
    <3>3. HandlersKept
      BY <3>1, <3>2 DEF HandlersKept, HandlerHolds
    <3> QED BY <3>1, <3>3, HandlerStays
  <2>2. CASE tempFile' # tempFile
    BY <1>4, <2>2, WritePool
  <2> QED BY <2>1, <2>2
<1>5. CASE HandleEval(c) \/ HandleDisconnect(c)
  <2>1. UNCHANGED <<workMap, oldWork, data, tempFile, wWork, wpc>>
    BY <1>5 DEF HandleEval, HandleDisconnect
  <2>2. HandlersKept
    BY <1>5 DEF HandleEval, HandleDisconnect, Return, HandlersKept, HandlerHolds, OwnerTypes
  <2> QED BY <2>1, <2>2, HandlerStays
<1>6. CASE HandleDisconnectPush(c)
  BY <1>6, StorePool DEF Drop
<1> QED BY <1>1, <1>2, <1>3, <1>4, <1>5, <1>6 DEF Handler

LEMMA WorkerPool ==
    ASSUME OwnerTypes, OwnerInv, WorkKnown, RealWork, NEW w \in Workers, Worker(w)
    PROVE  /\ RealWork' /\ (MayLose => PoolStep)
           /\ \/ Kept \/ NewRemove(w) \/ OldRemove(w)
              \/ /\ wpc[w] \in {"newAssign", "oldAssign"}
                 /\ wClient[w] \notin Clients \/ HasWork(workMap, wClient[w])
<1> USE DEF netVars, queueVars, workVars, fileVars, handlerVars, mainVars, Step
<1>1. CASE NewRead(w)
  BY <1>1, NewReadPool
<1>2. CASE NewAssign(w) \/ OldAssign(w)
  <2>1. wpc[w] \in {"newAssign", "oldAssign"}
    BY <1>2 DEF NewAssign, OldAssign, Assign
  <2> QED BY <1>2, <2>1, AssignPool DEF NewAssign, OldAssign, HoldsChunk
<1>3. CASE PickWork(w) /\ oldWork # <<>>
  BY <1>3, PickPool
<1>4. CASE OldRead(w)
  <2>1. wWork[w] \in Known(data) /\ data \in DataState
    BY DEF WorkKnown, OwnerTypes
  <2>2. data'.curIndex = data.curIndex
    BY <1>4, <2>1, GetClientWorkPrevType DEF OldRead
  <2>3. UNCHANGED <<workMap, oldWork, tempFile, hpc, hWork, wWork>>
    BY <1>4 DEF OldRead
  <2>4. WorkersKept /\ HandlersKept
    BY <1>4, <2>3 DEF OldRead, WorkersKept, WorkerHolds, HandlersKept, HandlerHolds,
                      HoldsChunk, OwnerTypes
  <2> QED BY <2>2, <2>3, <2>4, NothingMoves
<1>5. ASSUME UNCHANGED <<workMap, oldWork, tempFile, hpc, hWork, data>>, WorkersKept
      PROVE  PoolStep /\ RealWork' /\ Kept
  <2>1. HandlersKept
    BY <1>5 DEF HandlersKept, HandlerHolds
  <2> QED BY <1>5, <2>1, NothingMoves
<1>6. CASE PickWork(w) /\ oldWork = <<>>
  <2>1. WorkersKept
    BY <1>6 DEF PickWork, WorkersKept, WorkerHolds, HoldsChunk, OwnerTypes
  <2> QED BY <1>5, <1>6, <2>1 DEF PickWork
<1>7. CASE Poll(w) \/ FindFast(w) \/ FindOther(w) \/ Check(w)
  <2>1. WorkersKept
    BY <1>7 DEF Poll, FindFast, FindOther, Check, WorkersKept, WorkerHolds, HoldsChunk,
                OwnerTypes
  <2> QED BY <1>5, <1>7, <2>1 DEF Poll, FindFast, FindOther, Check
<1>8. CASE DrainMap(w) \/ DrainOld(w) \/ Finish(w) \/ Reorder(w) \/ ReorderEnd(w)
  <2>1. WorkersKept
    BY <1>8 DEF DrainMap, DrainOld, Finish, Reorder, ReorderEnd, WorkersKept, WorkerHolds,
                HoldsChunk, OwnerTypes
  <2> QED BY <1>5, <1>8, <2>1 DEF DrainMap, DrainOld, Finish, Reorder, ReorderEnd
<1>9. CASE NewStamp(w) \/ NewSend(w) \/ OldStamp(w) \/ OldSend(w)
  <2>1. WorkersKept
    BY <1>9 DEF NewStamp, NewSend, OldStamp, OldSend, Stamp, Send, WorkersKept, WorkerHolds,
                HoldsChunk, OwnerTypes
  <2> QED BY <1>5, <1>9, <2>1 DEF NewStamp, NewSend, OldStamp, OldSend, Stamp, Send
<1>10. CASE NewRemove(w) \/ OldRemove(w)
  <2>1. WorkersKept /\ HandlersKept
    BY <1>10 DEF NewRemove, OldRemove, Erase, WorkersKept, HandlersKept, WorkerHolds,
                 HandlerHolds, HoldsChunk, OwnerTypes
  <2>2. /\ workMap' = Remove(workMap, wClient[w])
        /\ UNCHANGED <<oldWork, tempFile, data>>
    BY <1>10 DEF NewRemove, OldRemove, Erase
  <2> QED BY <1>10, <2>1, <2>2, ErasePool
<1> QED BY <1>1, <1>2, <1>3, <1>4, <1>6, <1>7, <1>8, <1>9, <1>10 DEF Worker

\* The steps that may leave a chunk without an owner: an erase, an entry that is
\* overwritten, and a push that is refused.
Overwrites ==
    \E w \in Workers : wpc[w] \in {"newAssign", "oldAssign"} /\ Worker(w)
                       /\ (wClient[w] \notin Clients \/ HasWork(workMap, wClient[w]))
Drops == \E c \in Clients : Drop(c)
Erases == \E w \in Workers : NewRemove(w) \/ OldRemove(w)

LEMMA NextPool ==
    ASSUME TypeOK, WorkKnown, OwnerInv, RealWork, [Next]_vars
    PROVE  RealWork' /\ (MayLose => PoolStep) /\ (Kept \/ Overwrites \/ Drops \/ Erases)
<1>0. OwnerTypes
  BY TypesOfOwners
<1>1. ASSUME UNCHANGED <<workMap, oldWork, data, tempFile, wWork, wpc, hpc, hWork>>
      PROVE  PoolStep /\ RealWork' /\ Kept
  <2>1. WorkersKept /\ HandlersKept
    BY <1>1 DEF WorkersKept, WorkerHolds, HandlersKept, HandlerHolds
  <2> QED BY <1>1, <2>1, NothingMoves
<1>2. ASSUME NEW c \in Clients, Client(c) \/ Break(c) PROVE PoolStep /\ RealWork' /\ Kept
  BY <1>1, <1>2 DEF Client, Break, ClientReady, ClientProcess, LinkBreak, workVars, fileVars,
                    workerVars, handlerVars
<1>3. CASE Main
  BY <1>1, <1>3 DEF Main, Shutdown, Join, workVars, fileVars, workerVars, handlerVars
<1>4. CASE UNCHANGED vars
  BY <1>1, <1>4 DEF vars, workVars, fileVars, workerVars, handlerVars
<1>5. ASSUME NEW w \in Workers, Worker(w)
      PROVE  RealWork' /\ (MayLose => PoolStep) /\ (Kept \/ Overwrites \/ Erases)
  BY <1>0, <1>5, WorkerPool DEF Overwrites, Erases
<1>6. ASSUME NEW c \in Clients, Handler(c)
      PROVE  RealWork' /\ (MayLose => PoolStep) /\ (Kept \/ Drops)
  BY <1>0, <1>6, HandlerPool DEF Drops
<1> QED BY <1>2, <1>3, <1>4, <1>5, <1>6 DEF Next

\* Nothing was issued yet.
LEMMA PoolStart == Init => Pool!PoolInit
<1> SUFFICES ASSUME Init PROVE Pool!PoolInit
  OBVIOUS
<1>1. Issued = {}
  BY DEF Init, LoadData, Issued
<1> QED BY <1>1 DEF ChunkStatus, Pool!PoolInit, Pool!Chunks

\* When clients may disconnect, the server still implements the pool of chunks
\* that may be lost: whatever is resent, a chunk is issued in its turn, written
\* once, and neither comes back when it is lost nor is lost when it is written.
LEMMA PoolImplemented ==
    ASSUME Breakable \cup SlowClients # {}
    PROVE  Spec => ImplementsWorkPool
<1>1. Init => Pool!PoolInit /\ OwnerInv /\ RealWork
  BY PoolStart, OwnerInit, RealWorkInit
<1>2. /\ TypeOK /\ WorkKnown /\ (TypeOK /\ WorkKnown)' /\ OwnerInv /\ [Next]_vars
            => OwnerInv'
      /\ TypeOK /\ WorkKnown /\ OwnerInv /\ RealWork /\ [Next]_vars
            => RealWork' /\ [Pool!PoolNext]_ChunkStatus
  BY OwnerStep, NextPool DEF PoolStep, MayLose
<1> QED BY <1>1, <1>2, TypeCorrect, PTL DEF Spec, ImplementsWorkPool, Pool!PoolSpec

-----------------------------------------------------------------------------
(* There is room in oldWork for the work of every client *)

\* A connected client that has work, or whose work is on its way to or from it.
CarryingPC == {"newRead", "newAssign", "oldRead", "oldAssign"}
Carries(c) == \/ HasWork(workMap, c) \/ hpc[c] = "dcPush"
              \/ \E w \in Workers : wpc[w] \in CarryingPC /\ wClient[w] = c
Carriers == {c \in Live : Carries(c)}

RoomInv ==
    /\ IsFiniteSet(Live) /\ Cardinality(Live) <= MAXCLIENTS
    /\ Len(oldWork) + Cardinality(Carriers) <= MAXCLIENTS
    /\ \A c \in Clients : hpc[c] # "idle" => c \in Live

RoomTypes ==
    /\ link \in [Clients -> {"off", "up", "down", "gone"}]
    /\ workMap \in [Clients -> WorkInfo] /\ oldWork \in Seq(WorkInfo)
    /\ wpc \in [Workers -> WorkerPC] /\ wClient \in [Workers -> Clients \cup {NoClient}]
    /\ hpc \in [Clients -> HandlerPC]

LEMMA TypesOfRoom == TypeOK => RoomTypes
BY DEF TypeOK, RoomTypes

LEMMA CarriersFinite ==
    ASSUME IsFiniteSet(Live)
    PROVE  IsFiniteSet(Carriers) /\ Cardinality(Carriers) <= Cardinality(Live)
<1>1. Carriers \in SUBSET Live
  BY DEF Carriers
<1> QED BY <1>1, FS_Subset

LEMMA RoomInit == Init => RoomInv
<1> SUFFICES ASSUME Init PROVE RoomInv
  OBVIOUS
<1>1. Live = {} /\ Carriers = {}
  BY DEF Init, Live, Carriers
<1>2. Len(oldWork) = 0
  BY EmptySeq DEF Init
<1>3. IsFiniteSet({}) /\ Cardinality({}) = 0
  BY FS_EmptySet
<1> QED BY <1>1, <1>2, <1>3, MaxClientsAssumption DEF Init, RoomInv

\* No client comes, and the stored chunks and the carriers do not grow.
LEMMA RoomShrinks ==
    ASSUME RoomTypes, RoomInv, Live' \subseteq Live, Carriers' \subseteq Carriers,
           UNCHANGED oldWork, \A d \in Clients : hpc'[d] # "idle" => d \in Live'
    PROVE  RoomInv'
<1> DEFINE n == Len(oldWork)
<1>1. n \in Nat /\ Len(oldWork') = n
  BY DEF RoomTypes
<1>2. /\ IsFiniteSet(Live) /\ Cardinality(Live) <= MAXCLIENTS
      /\ IsFiniteSet(Carriers) /\ n + Cardinality(Carriers) <= MAXCLIENTS
  BY CarriersFinite DEF RoomInv
<1>3. /\ IsFiniteSet(Live') /\ Cardinality(Live') <= Cardinality(Live)
      /\ IsFiniteSet(Carriers') /\ Cardinality(Carriers') <= Cardinality(Carriers)
  BY <1>2, FS_Subset
<1>4. /\ Cardinality(Live) \in Nat /\ Cardinality(Live') \in Nat
      /\ Cardinality(Carriers) \in Nat /\ Cardinality(Carriers') \in Nat
  BY <1>2, <1>3, FS_CardinalityType
<1> HIDE DEF n
<1>5. Cardinality(Live') <= MAXCLIENTS /\ n + Cardinality(Carriers') <= MAXCLIENTS
  BY <1>1, <1>2, <1>3, <1>4, MaxClientsAssumption
<1> QED BY <1>1, <1>3, <1>5 DEF RoomInv

\* A step that gives no client work, and after which no handler begins that of a
\* client which is not connected.
LEMMA RoomStays ==
    ASSUME RoomTypes, RoomInv, UNCHANGED oldWork,
           \A d \in Clients : d \in Live' => d \in Live,
           \A d \in Clients : Carries(d)' => Carries(d),
           \A d \in Clients : hpc'[d] # "idle" => d \in Live'
    PROVE  RoomInv'
<1>1. Live' \subseteq Live /\ Carriers' \subseteq Carriers
  BY DEF Carriers, Live
<1> QED BY <1>1, RoomShrinks

LEMMA ClientRoom ==
    ASSUME RoomTypes, ClientInv, RoomInv, NEW c \in Clients, Client(c) \/ Break(c)
    PROVE  RoomInv'
<1>1. UNCHANGED <<workMap, oldWork, wpc, wClient, hpc>>
  BY DEF Client, Break, ClientReady, ClientProcess, LinkBreak, workVars, workerVars, handlerVars
<1>2. \A d \in Clients : Carries(d)' <=> Carries(d)
  BY <1>1 DEF Carries, HasWork
<1>3. CASE ~ClientReady(c)
  <2>1. \A d \in Clients : d \in Live' <=> d \in Live
    BY <1>3 DEF Client, Break, ClientProcess, LinkBreak, Live, RoomTypes
  <2> QED BY <1>1, <1>2, <2>1, RoomStays DEF RoomInv
<1>4. CASE ClientReady(c)
  <2>1. link[c] = "off" /\ Cardinality(Live) < MAXCLIENTS /\ Live' = Live \cup {c}
    BY <1>4 DEF ClientReady, Live, RoomTypes
  <2>2. c \notin Live /\ ~HasWork(workMap, c) /\ \A p : ~At(p, c)
    BY <2>1 DEF Live, ClientInv, NewClients
  <2>3. ~Carries(c)
    BY <2>2 DEF Carries, At, CarryingPC, BeforeChange, RoomInv
  <2>4. Carriers' = Carriers
    <3>1. Live \subseteq Clients /\ c \in Clients
      BY DEF Live
    <3> QED BY <1>2, <2>1, <2>3, <3>1 DEF Carriers
  <2>5. /\ IsFiniteSet(Live') /\ Cardinality(Live') = Cardinality(Live) + 1
        /\ Cardinality(Live) \in Nat
    BY <2>1, <2>2, FS_AddElement, FS_CardinalityType DEF RoomInv
  <2>6. Cardinality(Live') <= MAXCLIENTS
    BY <2>1, <2>5, MaxClientsAssumption
  <2> QED BY <1>1, <2>1, <2>4, <2>5, <2>6 DEF RoomInv
<1> QED BY <1>3, <1>4

\* What DisconnectHandler stores was its client's, which leaves.
LEMMA StoreRoom ==
    ASSUME RoomTypes, RoomInv, NEW c \in Clients, HandleDisconnectPush(c), hWork[c] \in WorkInfo
    PROVE  RoomInv'
<1> DEFINE n == Len(oldWork)
           n2 == Len(oldWork')
           k == Cardinality(Carriers)
<1>1. /\ hpc[c] = "dcPush" /\ hpc' = [hpc EXCEPT ![c] = "idle"]
      /\ link' = [link EXCEPT ![c] = "gone"]
      /\ oldWork' \in {oldWork, Append(oldWork, hWork[c])}
      /\ UNCHANGED <<workMap, wpc, wClient>>
  BY PushEither DEF HandleDisconnectPush, Return, GoTo, workerVars
<1>2. c \in Carriers
  BY <1>1 DEF RoomInv, Carriers, Carries
<1>3. Live' = Live \ {c} /\ Carriers' \subseteq Carriers \ {c}
  BY <1>1 DEF Live, Carriers, Carries, RoomTypes, HasWork
<1>4. /\ IsFiniteSet(Live) /\ Cardinality(Live) <= MAXCLIENTS
      /\ IsFiniteSet(Carriers) /\ n + k <= MAXCLIENTS
  BY CarriersFinite DEF RoomInv
<1>5. /\ IsFiniteSet(Live') /\ Cardinality(Live') <= Cardinality(Live)
      /\ Cardinality(Live) \in Nat /\ Cardinality(Live') \in Nat
  BY <1>3, <1>4, FS_Subset, FS_CardinalityType
<1>6. /\ IsFiniteSet(Carriers \ {c}) /\ Cardinality(Carriers \ {c}) = k - 1
      /\ Cardinality(Carriers \ {c}) \in Nat /\ k \in Nat
  BY <1>2, <1>4, FS_RemoveElement, FS_CardinalityType
<1>7. /\ IsFiniteSet(Carriers') /\ Cardinality(Carriers') \in Nat
      /\ Cardinality(Carriers') <= k - 1
  BY <1>3, <1>6, FS_Subset, FS_CardinalityType
<1>8. n \in Nat /\ n2 \in Nat /\ n2 <= n + 1
  <2>1. oldWork \in Seq(WorkInfo) /\ n \in Nat
    BY DEF RoomTypes
  <2>2. n2 = n \/ n2 = n + 1
    BY <1>1, <2>1
  <2> HIDE DEF n, n2
  <2> QED BY <2>1, <2>2
<1>9. \A d \in Clients : hpc'[d] # "idle" => d \in Live'
  BY <1>1, <1>3 DEF RoomInv, RoomTypes
<1> HIDE DEF n, n2, k
<1>10. Cardinality(Live') <= MAXCLIENTS /\ n2 + Cardinality(Carriers') <= MAXCLIENTS
  BY <1>4, <1>5, <1>6, <1>7, <1>8, MaxClientsAssumption
<1> QED BY <1>5, <1>9, <1>10 DEF RoomInv, n, n2

\* The elements of oldWork and the calls under way that may hold a node of it belong to
\* different clients that are connected, unless a worker lingers.
LEMMA RefusedLingers ==
    ASSUME RoomTypes, RoomInv, ClientInv, NEW c \in Clients, Drop(c)
    PROVE  \E w \in Workers : Lingers(w)
<1> DEFINE P == {w \in Workers : wpc[w] = "oldRead"}
           D == {d \in Clients \ {c} : hpc[d] = "dcPush"}
           T == (Carriers \ {c}) \ D
           n == Len(oldWork)
           k == Cardinality(Carriers)
<1> SUFFICES ASSUME \A w \in Workers : ~Lingers(w) PROVE FALSE
  OBVIOUS
<1>1. hpc[c] = "dcPush" /\ oldWork' \in Push(oldWork, hWork[c], OldWorkCalls(c))
  BY DEF Drop, HandleDisconnectPush
<1>2. /\ IsFiniteSet(Carriers) /\ k \in Nat /\ n \in Nat /\ n + k <= MAXCLIENTS
  BY CarriersFinite, FS_CardinalityType DEF RoomInv, RoomTypes
<1>3. c \in Carriers /\ D \subseteq Carriers \ {c}
  BY <1>1 DEF RoomInv, Carriers, Carries
<1>4. /\ IsFiniteSet(Carriers \ {c}) /\ Cardinality(Carriers \ {c}) = k - 1
      /\ IsFiniteSet(D) /\ Cardinality(D) \in Nat
      /\ IsFiniteSet(T) /\ Cardinality(T) \in Nat /\ Cardinality(T) = k - 1 - Cardinality(D)
  <2>1. IsFiniteSet(Carriers \ {c}) /\ Cardinality(Carriers \ {c}) = k - 1
    BY <1>2, <1>3, FS_RemoveElement
  <2>2. IsFiniteSet(D)
    BY <1>3, <2>1, FS_Subset
  <2>3. (Carriers \ {c}) \cap D = D
    BY <1>3
  <2>4. IsFiniteSet(T) /\ Cardinality(T) = Cardinality(Carriers \ {c}) - Cardinality(D)
    BY <2>1, <2>3, FS_Difference
  <2> QED BY <2>1, <2>2, <2>4, FS_CardinalityType
<1>5. \A w \in P : wClient[w] \in T
  <2> SUFFICES ASSUME NEW w \in P PROVE wClient[w] \in T
    OBVIOUS
  <2>1. wClient[w] \in Live /\ hpc[wClient[w]] # "dcPush" /\ Live \subseteq Clients
    BY DEF Lingers, Live
  <2>2. Carries(wClient[w])
    BY DEF Carries, CarryingPC
  <2> QED BY <1>1, <2>1, <2>2 DEF Carriers
<1>6. \A v, w \in P : wClient[v] = wClient[w] => v = w
  BY DEF ClientInv, OneOf, HoldsClient, HoldsChunk
<1>7. IsFiniteSet(P) /\ Cardinality(P) \in Nat /\ Cardinality(P) <= Cardinality(T)
  <2>1. [w \in P |-> wClient[w]] \in Injection(P, T)
    BY <1>5, <1>6 DEF Injection, IsInjective
  <2> QED BY <1>4, <2>1, FS_Injection, FS_CardinalityType
<1>8. OldWorkCalls(c) = Cardinality(P) + Cardinality(D)
  BY DEF OldWorkCalls
<1> HIDE DEF P, D, T, n, k
<1>9. ~(n + OldWorkCalls(c) >= MAXCLIENTS)
  BY <1>2, <1>4, <1>7, <1>8, MaxClientsAssumption
<1>10. oldWork' = Append(oldWork, hWork[c])
  BY <1>1, <1>9 DEF Push, n
<1> QED BY <1>10 DEF Drop

LEMMA HandlerRoom ==
    ASSUME RoomTypes, RoomInv, hWork \in [Clients -> WorkInfo], NEW c \in Clients, Handler(c)
    PROVE  RoomInv'
<1> USE DEF workVars, workerVars, netVars, GoTo, Return
<1>1. CASE HandleDisconnectPush(c)
  BY <1>1, StoreRoom
<1>2. CASE ~HandleDisconnectPush(c)
  <2>1. /\ UNCHANGED <<oldWork, wClient>>
        /\ UNCHANGED workMap \/ TakeWork(c)
        /\ UNCHANGED wpc \/ \E w \in Workers : wpc[w] = "unstarted"
                                               /\ wpc' = [wpc EXCEPT ![w] = "poll"]
        /\ \A d \in Clients : d # c => hpc'[d] = hpc[d] /\ link'[d] = link[d]
        /\ hpc'[c] = "dcPush" => HasWork(workMap, c)
    BY <1>2 DEF Handler, HandleReady, HandleReadyInit, HandleStart, HandleComplete, HandleTake,
                HandleWrite, HandleEval, HandleDisconnect, HandleDisconnectTake, Receive,
                TakeWork, RoomTypes
  <2>2. /\ c \in Live' => c \in Live
        /\ hpc'[c] # "idle" => c \in Live'
    BY <1>2 DEF Handler, HandleReady, HandleReadyInit, HandleStart, HandleComplete, HandleTake,
                HandleWrite, HandleEval, HandleDisconnect, HandleDisconnectTake, Receive,
                RoomTypes, RoomInv, Live
  <2>3. \A d \in Clients : d \in Live' => d \in Live
    BY <2>1, <2>2 DEF Live
  <2>4. \A d \in Clients : hpc'[d] # "idle" => d \in Live'
    BY <2>1, <2>2 DEF RoomInv, Live
  <2>5. \A d \in Clients : HasWork(workMap', d) => HasWork(workMap, d)
    BY <2>1 DEF TakeWork, Remove, HasWork, RoomTypes
  <2>6. \A w \in Workers : wpc'[w] \in CarryingPC => wpc[w] \in CarryingPC
    BY <2>1 DEF CarryingPC, RoomTypes
  <2>7. \A d \in Clients : Carries(d)' => Carries(d)
    BY <2>1, <2>5, <2>6 DEF Carries
  <2> QED BY <2>1, <2>3, <2>4, <2>7, RoomStays
<1> QED BY <1>1, <1>2

\* A worker that takes a stored chunk makes its client a carrier; one that takes
\* none found none stored, and a client has one chunk at most.
LEMMA PickRoom ==
    ASSUME RoomTypes, RoomInv, NEW w \in Workers, PickWork(w)
    PROVE  RoomInv'
<1> SUFFICES ASSUME NEW CONSTANT c, c = wClient[w] PROVE RoomInv'
  OBVIOUS
<1> DEFINE n == Len(oldWork)
           n2 == Len(oldWork')
           k == Cardinality(Carriers)
           k2 == Cardinality(Carriers')
           m == Cardinality(Live)
<1>1. /\ \A v \in Workers : v # w => wpc'[v] = wpc[v]
      /\ UNCHANGED <<link, workMap, wClient, hpc>>
  BY DEF PickWork, Step, RoomTypes, netVars, handlerVars
<1>2. Live' = Live /\ \A d \in Clients : hpc'[d] # "idle" => d \in Live'
  BY <1>1 DEF Live, RoomInv
<1>3. \A d : Carries(d)' => Carries(d) \/ d = c
  BY <1>1 DEF Carries, HasWork
<1>4. Carriers' \subseteq Carriers \cup {c} /\ Carriers' \subseteq Live
  BY <1>2, <1>3 DEF Carriers
<1>5. /\ IsFiniteSet(Live) /\ m <= MAXCLIENTS /\ n + k <= MAXCLIENTS
      /\ IsFiniteSet(Carriers) /\ m \in Nat /\ k \in Nat
  BY CarriersFinite, FS_CardinalityType DEF RoomInv
<1>6. /\ IsFiniteSet(Carriers \cup {c}) /\ Cardinality(Carriers \cup {c}) <= k + 1
      /\ Cardinality(Carriers \cup {c}) \in Nat
  <2>1. IsFiniteSet(Carriers \cup {c}) /\ Cardinality(Carriers \cup {c}) \in {k, k + 1}
    BY <1>5, FS_AddElement
  <2> HIDE DEF k
  <2> QED BY <1>5, <2>1
<1>7. k2 \in Nat /\ k2 <= Cardinality(Carriers \cup {c}) /\ k2 <= m
  BY <1>4, <1>5, <1>6, FS_Subset, FS_CardinalityType
<1>8. n \in Nat /\ n2 \in Nat /\ (n2 = 0 \/ n2 + 1 = n)
  <2>1. oldWork \in Seq(WorkInfo)
    BY DEF RoomTypes
  <2>2. CASE oldWork = <<>>
    BY <2>1, <2>2, NoMessage DEF PickWork
  <2>3. CASE oldWork # <<>>
    BY <2>1, <2>3 DEF PickWork
  <2> QED BY <2>1, <2>2, <2>3
<1> HIDE DEF n, n2, k, k2, m
<1>9. n2 + k2 <= MAXCLIENTS
  BY <1>5, <1>6, <1>7, <1>8, MaxClientsAssumption
<1> QED BY <1>2, <1>5, <1>9 DEF RoomInv, n2, k2, m

LEMMA WorkerRoom ==
    ASSUME RoomTypes, RoomInv, NEW w \in Workers, Worker(w)
    PROVE  RoomInv'
<1> USE DEF workVars, netVars, handlerVars, Step
<1>1. CASE PickWork(w)
  BY <1>1, PickRoom
<1>2. CASE ~PickWork(w)
  <2>1. UNCHANGED <<oldWork, link, hpc>>
    BY <1>2 DEF Worker, Poll, FindFast, FindOther, Check, NewRead, NewAssign, NewStamp, NewSend,
                NewRemove, DrainMap, DrainOld, Finish, Reorder, ReorderEnd, OldRead, OldAssign,
                OldStamp, OldSend, OldRemove, Assign, Stamp, Send, Erase
  <2>2. /\ \A v \in Workers : v # w => wpc'[v] = wpc[v] /\ wClient'[v] = wClient[v]
        /\ wpc'[w] \in CarryingPC => wpc[w] \in CarryingPC /\ wClient'[w] = wClient[w]
    <3>1. CASE \/ Poll(w) \/ FindFast(w) \/ FindOther(w) \/ Check(w) \/ DrainMap(w) \/ DrainOld(w)
               \/ Finish(w) \/ Reorder(w) \/ ReorderEnd(w)
      BY <3>1 DEF Poll, FindFast, FindOther, Found, Check, DrainMap, DrainOld, Finish, Reorder,
                  ReorderEnd, CarryingPC, RoomTypes
    <3>2. CASE NewRead(w) \/ NewAssign(w) \/ OldRead(w) \/ OldAssign(w) \/ NewStamp(w) \/ OldStamp(w)
      BY <3>2 DEF NewRead, NewAssign, OldRead, OldAssign, NewStamp, OldStamp, Assign, Stamp,
                  CarryingPC, RoomTypes
    <3>3. CASE NewSend(w) \/ OldSend(w) \/ NewRemove(w) \/ OldRemove(w)
      BY <3>3 DEF NewSend, OldSend, NewRemove, OldRemove, Send, Erase, CarryingPC, RoomTypes
    <3> QED BY <1>2, <3>1, <3>2, <3>3 DEF Worker
  <2>3. \/ UNCHANGED workMap \/ \E c : workMap' = Remove(workMap, c)
        \/ /\ wpc[w] \in CarryingPC
           /\ workMap' = [workMap EXCEPT ![wClient[w]] = wWork[w]]
    BY <1>2 DEF Worker, Poll, FindFast, FindOther, Check, NewRead, NewAssign, NewStamp, NewSend,
                NewRemove, DrainMap, DrainOld, Finish, Reorder, ReorderEnd, OldRead, OldAssign,
                OldStamp, OldSend, OldRemove, Assign, Stamp, Send, Erase, Change, CarryingPC
  <2>4. \A d \in Clients : HasWork(workMap', d) => HasWork(workMap, d)
                              \/ (wpc[w] \in CarryingPC /\ wClient[w] = d)
    BY <2>3 DEF Remove, HasWork, RoomTypes
  <2>5. \A d \in Clients : Carries(d)' => Carries(d)
    BY <2>1, <2>2, <2>4 DEF Carries
  <2>6. \A d \in Clients : /\ d \in Live' => d \in Live
                           /\ hpc'[d] # "idle" => d \in Live'
    BY <2>1 DEF Live, RoomInv
  <2> QED BY <2>1, <2>5, <2>6, RoomStays
<1> QED BY <1>1, <1>2

LEMMA RoomStep ==
    ASSUME TypeOK, ClientInv, RoomInv, [Next]_vars
    PROVE  RoomInv'
<1>1. RoomTypes /\ hWork \in [Clients -> WorkInfo]
  BY TypesOfRoom DEF TypeOK
<1>2. ASSUME NEW c \in Clients, Client(c) \/ Break(c) \/ Handler(c)
      PROVE  RoomInv'
  BY <1>1, <1>2, ClientRoom, HandlerRoom
<1>3. ASSUME NEW w \in Workers, Worker(w)
      PROVE  RoomInv'
  BY <1>1, <1>3, WorkerRoom
<1>4. CASE Main \/ UNCHANGED vars
  <2>1. UNCHANGED <<link, workMap, oldWork, wpc, wClient, hpc>>
    BY <1>4 DEF Main, Shutdown, Join, vars, netVars, workVars, workerVars, handlerVars
  <2>2. \A d \in Clients : /\ Carries(d)' => Carries(d)
                           /\ d \in Live' => d \in Live
                           /\ hpc'[d] # "idle" => d \in Live'
    BY <2>1 DEF Carries, HasWork, Live, RoomInv
  <2> QED BY <1>1, <2>1, <2>2, RoomStays
<1> QED BY <1>2, <1>3, <1>4 DEF Next

-----------------------------------------------------------------------------
(* Where a chunk is lost *)

\* Change overwrites no entry, and oldWork refuses a chunk only while a worker lingers.
Refusals == \E w \in Workers : Lingers(w) /\ \E c \in Clients : HandleDisconnectPush(c)
LEMMA OnlyErases ==
    ASSUME TypeOK, WorkKnown, OwnerInv, RealWork, ClientInv, RoomInv, [Next]_vars
    PROVE  Kept \/ Erases \/ Refusals
<1>1. ~Overwrites
  <2> SUFFICES ASSUME NEW w \in Workers, wpc[w] \in {"newAssign", "oldAssign"}
               PROVE  wClient[w] \in Clients /\ ~HasWork(workMap, wClient[w])
    BY DEF Overwrites
  <2>1. wpc[w] \in HoldsClient /\ wpc[w] \in BeforeChange
    BY DEF HoldsClient, HoldsChunk, BeforeChange
  <2> QED BY <2>1, HeldPlace, TypesOfClients
<1>2. Drops => Refusals
  BY RefusedLingers, TypesOfRoom DEF Drops, Drop, Refusals
<1> QED BY <1>1, <1>2, NextPool

\* A chunk that was issued is only ever lost by a worker that erases the entry of
\* the client it sent to (Server.cpp:132 and 165), or by a DisconnectHandler whose push
\* is refused while a worker lingers: GiveNewWork and GiveOldWork overwrite no entry,
\* and oldWork has room for what every client that is connected leaves behind.
THEOREM LossOnlyHere == Spec => LossOnlyByWorker
<1> DEFINE LossHere == \A i \in Issued : Owned(i) /\ ~Owned(i)' =>
                          \E w \in Workers :
                             \/ NewRemove(w) \/ OldRemove(w)
                             \/ Lingers(w) /\ \E c \in Clients : HandleDisconnectPush(c)
<1>1. Init => OwnerInv /\ RealWork /\ ClientInv /\ RoomInv
  BY OwnerInit, RealWorkInit, ClientInvInit, RoomInit
<1>2. TypeOK /\ WorkKnown /\ (TypeOK /\ WorkKnown)' /\ OwnerInv /\ [Next]_vars => OwnerInv'
  BY OwnerStep
<1>3. TypeOK /\ WorkKnown /\ OwnerInv /\ RealWork /\ [Next]_vars => RealWork'
  BY NextPool
<1>4. TypeOK /\ ClientInv /\ RoomInv /\ [Next]_vars => ClientInv' /\ RoomInv'
  BY ClientInvStep, RoomStep
<1>5. TypeOK /\ WorkKnown /\ OwnerInv /\ RealWork /\ ClientInv /\ RoomInv /\ [Next]_vars
        => LossHere
  <2>1. TypeOK => Issued \subseteq Nat
    BY DEF Issued, TypeOK, DataState
  <2> QED BY <2>1, OnlyErases DEF Kept, Erases, Refusals
<1> HIDE DEF LossHere
<1>6. TypeOK /\ WorkKnown /\ OwnerInv /\ RealWork /\ ClientInv /\ RoomInv /\ [Next]_vars
        => [LossHere]_vars
  BY <1>5
<1>7. Spec => [][LossHere]_vars
  BY <1>1, <1>2, <1>3, <1>4, <1>6, TypeCorrect, PTL DEF Spec
<1> QED BY <1>7 DEF LossHere, LossOnlyByWorker

-----------------------------------------------------------------------------
(* What does not happen, and what belongs together *)

NoFaults == Breakable \cup SlowClients = {}

\* No connection goes down, and nothing is stored to be given out again.
StaysUp ==
    /\ \A c \in Clients : link[c] \in {"off", "up"} /\ hpc[c] \notin {"dcTake", "dcPush"}
    /\ oldWork = <<>>
    /\ \A w \in Workers : wpc[w] \notin {"newRemove", "oldRead", "oldAssign", "oldStamp",
                                         "oldSend", "oldRemove"}
    /\ fault \notin {"nullTime", "nullStamp"}

\* A block is that of the entry of client c.
Belongs(b, m, c) == HasWork(m, c) /\ b = ChunkBlock(m[c].curIndex)

WorkerFits(w) ==
    /\ wpc[w] \in HoldsClient => obj[wClient[w]]
    /\ wpc[w] = "newAssign" => wBlock[w] = ChunkBlock(wWork[w].curIndex)
    /\ wpc[w] \in AfterChange => Belongs(wBlock[w], workMap, wClient[w])

Answers(q) == q # <<>> /\ Head(q).type = "WORK_COMPLETE"

ClientFits(c) ==
    /\ \/ In(fastClients, c) \/ In(otherClients, c) \/ inbox[c] # <<>>
       \/ Answers(outbox[c]) \/ hpc[c] \in {"take", "write", "eval"}
       => obj[c]
    /\ inbox[c] # <<>> => Belongs(Head(inbox[c]), workMap, c)
    /\ Answers(outbox[c]) => Belongs(Head(outbox[c]).block, workMap, c)
    /\ hpc[c] = "take" => Belongs(hBlock[c], workMap, c)
    /\ hpc[c] = "write" => hBlock[c] = ChunkBlock(hWork[c].curIndex)

\* The handle is where the cursor is, which is at the start of the next chunk.
ReaderFits ==
    /\ data.filePos = data.cursorPos
    /\ data.cursorPos = IF data.curIndex * chunkSize <= FileSize
                        THEN data.curIndex * chunkSize ELSE FileSize

FaultFree ==
    /\ StaysUp /\ ReaderFits /\ RecordsMatch
    /\ \A w \in Workers : WorkerFits(w)
    /\ \A c \in Clients : ClientFits(c)

FitTypes ==
    /\ ClientTypes
    /\ obj \in [Clients -> BOOLEAN]
    /\ wWork \in [Workers -> WorkInfo] /\ wBlock \in [Workers -> Block]
    /\ hWork \in [Clients -> WorkInfo] /\ hBlock \in [Clients -> Block]
    /\ tempFile \in Seq([index : Nat, block : Block])
    /\ data \in DataState

LEMMA TypesOfFit == TypeOK => FitTypes
BY TypesOfClients DEF TypeOK, FitTypes

LEMMA FaultFreeInit == Init => FaultFree
<1> SUFFICES ASSUME Init PROVE FaultFree
  OBVIOUS
<1>1. StaysUp /\ RecordsMatch
  BY DEF Init, StaysUp, RecordsMatch
<1>2. ReaderFits
  BY FileSizeAssumption, ChunkSizeNat DEF Init, LoadData, ReaderFits
<1>3. \A w \in Workers : WorkerFits(w)
  BY DEF Init, WorkerFits, HoldsClient, HoldsChunk, AfterChange
<1>4. \A c \in Clients : ClientFits(c)
  BY DEF Init, ClientFits, Answers, In
<1> QED BY <1>1, <1>2, <1>3, <1>4 DEF FaultFree

-----------------------------------------------------------------------------
(* Workers and clients that a step leaves alone *)

WorkerSame(w) == UNCHANGED <<wpc[w], wClient[w], wWork[w], wBlock[w]>>
ClientSame(c) ==
    /\ UNCHANGED <<inbox[c], outbox[c], hpc[c], hWork[c], hBlock[c]>>
    /\ In(fastClients', c) => In(fastClients, c)
    /\ In(otherClients', c) => In(otherClients, c)
EntrySame(c) == workMap'[c] = workMap[c] /\ (obj[c] => obj'[c])

LEMMA WorkerSameFits ==
    ASSUME NEW w, WorkerFits(w), WorkerSame(w), wpc[w] \in HoldsClient => EntrySame(wClient[w])
    PROVE  WorkerFits(w)'
<1>1. wpc[w] \in AfterChange => wpc[w] \in HoldsClient
  BY DEF AfterChange, HoldsClient
<1> QED BY <1>1 DEF WorkerFits, WorkerSame, EntrySame, Belongs, HasWork

LEMMA ClientSameFits ==
    ASSUME NEW c, ClientFits(c), ClientSame(c), EntrySame(c)
    PROVE  ClientFits(c)'
BY DEF ClientFits, ClientSame, EntrySame, Belongs, HasWork, Answers, In

\* A step of a client or of its handler.
LEMMA FitByClient ==
    ASSUME FitTypes, ClientInv, FaultFree, NEW c \in Clients,
           UNCHANGED <<wClient, wWork, wBlock, data>>,
           UNCHANGED wpc \/ \E w \in Workers : wpc[w] = "unstarted"
                                               /\ wpc' = [wpc EXCEPT ![w] = "poll"],
           \A d \in Clients : d # c => ClientSame(d) /\ EntrySame(d),
           \/ EntrySame(c)
           \/ \A w \in Workers : wpc[w] \in HoldsClient => wClient[w] # c,
           StaysUp', RecordsMatch', ClientFits(c)'
    PROVE  FaultFree'
<1>1. ASSUME NEW w \in Workers PROVE WorkerFits(w)'
  <2>1. CASE wpc'[w] = wpc[w]
    <3>1. wpc[w] \in HoldsClient => EntrySame(wClient[w])
      BY DEF ClientInv, OneOf
    <3> QED BY <2>1, <3>1, WorkerSameFits DEF FaultFree, WorkerSame
  <2>2. CASE wpc'[w] # wpc[w]
    <3>1. wpc'[w] = "poll"
      BY <2>2 DEF FitTypes, ClientTypes
    <3> QED BY <3>1 DEF WorkerFits, HoldsClient, HoldsChunk, AfterChange
  <2> QED BY <2>1, <2>2
<1>2. \A d \in Clients : ClientFits(d)'
  BY ClientSameFits DEF FaultFree
<1>3. ReaderFits'
  BY DEF FaultFree, ReaderFits
<1> QED BY <1>1, <1>2, <1>3 DEF FaultFree

\* A step of a worker that leaves the map and the TimePoints alone, and puts no
\* client anywhere.
LEMMA FitByWorker ==
    ASSUME FitTypes, FaultFree, NEW w \in Workers,
           UNCHANGED <<workMap, obj, netVars, hpc, hWork, hBlock, tempFile>>,
           \A v \in Workers : v # w => WorkerSame(v),
           \A d : In(fastClients', d) => In(fastClients, d),
           \A d : In(otherClients', d) => In(otherClients, d),
           StaysUp', ReaderFits', WorkerFits(w)'
    PROVE  FaultFree'
<1>1. ASSUME NEW v \in Workers PROVE WorkerFits(v)'
  <2>1. wpc[v] \in HoldsClient => EntrySame(wClient[v])
    BY DEF EntrySame
  <2>2. CASE v = w
    BY <2>2
  <2>3. CASE v # w
    BY <2>1, <2>3, WorkerSameFits DEF FaultFree
  <2> QED BY <2>2, <2>3
<1>2. \A d \in Clients : ClientFits(d)'
  BY ClientSameFits DEF FaultFree, ClientSame, EntrySame, netVars
<1>3. RecordsMatch'
  BY DEF FaultFree, RecordsMatch
<1> QED BY <1>1, <1>2, <1>3 DEF FaultFree

-----------------------------------------------------------------------------
(* The steps of the clients and of their handlers *)

LEMMA ClientFit ==
    ASSUME FitTypes, ClientInv, FaultFree, NEW c \in Clients, Client(c)
    PROVE  FaultFree'
<1> USE DEF netVars, queueVars, workVars, fileVars, workerVars, handlerVars
<1>1. /\ UNCHANGED <<wClient, wWork, wBlock, data, wpc, workMap, obj, tempFile, hpc, hWork, hBlock,
                     fastClients, otherClients, oldWork, fault>>
      /\ \A d \in Clients : d # c => UNCHANGED <<inbox[d], outbox[d]>>
      /\ \A d \in Clients : link'[d] \in {link[d], "up"}
  BY DEF Client, ClientReady, ClientProcess, FitTypes, ClientTypes
<1>2. /\ \A d \in Clients : d # c => ClientSame(d)
      /\ \A d \in Clients : EntrySame(d)
  BY <1>1 DEF ClientSame, EntrySame
<1>3. StaysUp' /\ RecordsMatch'
  BY <1>1 DEF FaultFree, StaysUp, RecordsMatch
<1>4. ClientFits(c)
  BY DEF FaultFree
<1>5. CASE ClientReady(c)
  <2>1. /\ outbox' = [outbox EXCEPT ![c] = Append(@, READY)] /\ UNCHANGED inbox
        /\ link[c] = "off"
    BY <1>5 DEF ClientReady
  <2>2. outbox[c] = <<>>
    BY <2>1 DEF ClientInv, NewClients, At
  <2>3. READY \in Messages /\ READY.type # "WORK_COMPLETE"
    BY DEF READY, Messages, NoBlock, Block
  <2>4. Head(outbox'[c]) = READY
    BY <2>1, <2>2, <2>3, OneMessage DEF FitTypes, ClientTypes
  <2>5. ClientFits(c)'
    BY <1>1, <1>4, <2>1, <2>3, <2>4 DEF ClientFits, Answers, Belongs, HasWork, In
  <2> QED BY <1>1, <1>2, <1>3, <2>5, FitByClient
<1>6. CASE ClientProcess(c)
  <2>1. /\ inbox[c] # <<>>
        /\ inbox' = [inbox EXCEPT ![c] = Tail(@)]
        /\ outbox' = [outbox EXCEPT ![c] = Append(@, COMPLETE(Head(inbox[c])))]
    BY <1>6 DEF ClientProcess
  <2>2. outbox[c] = <<>>
    <3>1. \A p : At(p, c) => p = "inbox"
      BY <2>1, OnlyPlace DEF At
    <3> QED BY <3>1 DEF At
  <2>3. Len(inbox[c]) <= 1 /\ inbox[c] \in Seq(Block)
    BY DEF ClientInv, OneOf, FitTypes, ClientTypes
  <2>4. Tail(inbox[c]) = <<>> /\ Head(inbox[c]) \in Block
    BY <2>1, <2>3, LastMessage
  <2>5. COMPLETE(Head(inbox[c])) \in Messages /\ COMPLETE(Head(inbox[c])).block = Head(inbox[c])
    BY <2>4 DEF COMPLETE, Messages
  <2>6. inbox'[c] = <<>> /\ Head(outbox'[c]) = COMPLETE(Head(inbox[c]))
    BY <2>1, <2>2, <2>4, <2>5, OneMessage DEF FitTypes, ClientTypes
  <2>7. ClientFits(c)'
    BY <1>1, <1>4, <2>1, <2>5, <2>6 DEF ClientFits, Belongs, HasWork, In
  <2> QED BY <1>1, <1>2, <1>3, <2>7, FitByClient
<1> QED BY <1>5, <1>6 DEF Client

\* What queueing a client does to the others.
LEMMA QueueOthers ==
    ASSUME NEW q \in Seq(Clients), NEW c \in Clients, NEW d,
           NEW p \in {q, Append(q, c)}, In(p, d)
    PROVE  In(q, d) \/ d = c
BY PushPlaces DEF In

LEMMA HandlerFit ==
    ASSUME FitTypes, ClientInv, FaultFree, NoFaults, NEW c \in Clients, Handler(c)
    PROVE  FaultFree'
<1> USE DEF netVars, queueVars, workVars, fileVars, workerVars, handlerVars, GoTo, Return
<1>1. ClientFits(c) /\ StaysUp /\ RecordsMatch
  BY DEF FaultFree
<1>2. fastClients \in Seq(Clients) /\ otherClients \in Seq(Clients)
  BY DEF FitTypes, ClientTypes
<1>3. CASE HandleReady(c)
  <2>1. /\ Receive(c, "READY_INIT") /\ otherClients' \in {otherClients, Append(otherClients, c)}
        /\ obj' = [obj EXCEPT ![c] = TRUE] /\ hpc' = [hpc EXCEPT ![c] = "readyInit"]
        /\ UNCHANGED <<link, inbox, fastClients, workMap, oldWork, data, tempFile, wpc, wClient,
                       wWork, wBlock, hWork, hBlock, fault>>
    BY <1>3, PushEither DEF HandleReady, AddClient, Receive
  <2>2. outbox'[c] = <<>> /\ \A d \in Clients : d # c => outbox'[d] = outbox[d]
    BY <2>1, ReceiveEmpties DEF FitTypes
  <2>3. At("ready", c)
    BY <2>1 DEF Receive, At
  <2>4. inbox[c] = <<>>
    BY <2>3, OnlyPlace DEF At
  <2>5. obj'[c] /\ hpc'[c] = "readyInit" /\ \A d \in Clients : obj[d] => obj'[d]
    BY <2>1 DEF FitTypes, ClientTypes
  <2>6. \A d \in Clients : d # c => ClientSame(d)
    BY <1>2, <2>1, <2>2, QueueOthers DEF ClientSame, FitTypes, ClientTypes
  <2>7. \A d \in Clients : EntrySame(d)
    BY <2>1, <2>5 DEF EntrySame
  <2>8. ClientFits(c)'
    BY <2>1, <2>2, <2>4, <2>5 DEF ClientFits, Answers
  <2>9. StaysUp' /\ RecordsMatch'
    BY <1>1, <2>1 DEF StaysUp, RecordsMatch, FitTypes, ClientTypes
  <2> QED BY <2>1, <2>6, <2>7, <2>8, <2>9, FitByClient
<1>4. CASE HandleReadyInit(c) \/ HandleStart(c)
  <2>1. /\ UNCHANGED <<link, inbox, outbox, obj, fastClients, otherClients, workMap, oldWork, data,
                       tempFile, wClient, wWork, wBlock, hWork, hBlock, fault>>
        /\ \E pc \in {"idle", "start"} : hpc' = [hpc EXCEPT ![c] = pc]
        /\ UNCHANGED wpc \/ \E w \in Workers : wpc[w] = "unstarted"
                                               /\ wpc' = [wpc EXCEPT ![w] = "poll"]
    BY <1>4 DEF HandleReadyInit, HandleStart
  <2>2. \A d \in Clients : d # c => ClientSame(d)
    BY <2>1 DEF ClientSame, FitTypes, ClientTypes
  <2>3. \A d \in Clients : EntrySame(d)
    BY <2>1 DEF EntrySame
  <2>4. ClientFits(c)'
    BY <1>1, <2>1 DEF ClientFits, Answers, Belongs, HasWork, In, FitTypes, ClientTypes
  <2>5. StaysUp' /\ RecordsMatch'
    BY <1>1, <2>1 DEF StaysUp, RecordsMatch, FitTypes, ClientTypes
  <2> QED BY <2>1, <2>2, <2>3, <2>4, <2>5, FitByClient
<1>5. CASE HandleComplete(c)
  <2>1. /\ Receive(c, "WORK_COMPLETE") /\ Answers(outbox[c])
        /\ hBlock' = [hBlock EXCEPT ![c] = Head(outbox[c]).block]
        /\ UNCHANGED <<link, inbox, obj, fastClients, otherClients, workMap, oldWork, data,
                       tempFile, wpc, wClient, wWork, wBlock, hWork>>
    BY <1>5 DEF HandleComplete, Receive, Answers
  <2>2. obj[c] /\ Belongs(Head(outbox[c]).block, workMap, c)
    BY <1>1, <2>1 DEF ClientFits
  <2>3. hpc' = [hpc EXCEPT ![c] = "take"] /\ UNCHANGED fault
    BY <1>5, <2>2 DEF HandleComplete
  <2>4. outbox'[c] = <<>> /\ \A d \in Clients : d # c => outbox'[d] = outbox[d]
    BY <2>1, ReceiveEmpties DEF FitTypes
  <2>5. At("answer", c)
    BY <2>1 DEF At, Answers
  <2>6. inbox[c] = <<>>
    <3>1. \A p : At(p, c) => p = "answer"
      BY <2>5, OnlyPlace
    <3> QED BY <3>1 DEF At
  <2>7. \A d \in Clients : d # c => ClientSame(d)
    BY <2>1, <2>3, <2>4 DEF ClientSame, FitTypes, ClientTypes
  <2>8. \A d \in Clients : EntrySame(d)
    BY <2>1 DEF EntrySame
  <2>9. ClientFits(c)'
    BY <2>1, <2>2, <2>3, <2>4, <2>6 DEF ClientFits, Answers, Belongs, HasWork, FitTypes, ClientTypes
  <2>10. StaysUp' /\ RecordsMatch'
    BY <1>1, <2>1, <2>3 DEF StaysUp, RecordsMatch, FitTypes, ClientTypes
  <2> QED BY <2>1, <2>7, <2>8, <2>9, <2>10, FitByClient
<1>6. CASE HandleTake(c)
  <2>1. hpc[c] = "take" /\ obj[c] /\ Belongs(hBlock[c], workMap, c)
    BY <1>1, <1>6 DEF HandleTake, ClientFits
  <2>2. /\ hWork' = [hWork EXCEPT ![c] = workMap[c]] /\ workMap' = Remove(workMap, c)
        /\ hpc' = [hpc EXCEPT ![c] = "write"]
        /\ UNCHANGED <<link, hBlock>>
    BY <1>6, <2>1 DEF HandleTake, TakeWork, Belongs
  <2>3. UNCHANGED <<inbox, outbox, obj, fastClients, otherClients, oldWork, data, tempFile, wpc,
                    wClient, wWork, wBlock, fault>>
    BY <1>6 DEF HandleTake
  <2>4. \A p : At(p, c) => p = "take"
    BY <2>1, OnlyPlace DEF At
  <2>5. inbox[c] = <<>> /\ ~Answers(outbox[c])
    BY <2>4 DEF At, Answers
  <2>6. \A w \in Workers : wpc[w] \in HoldsClient => wClient[w] # c
    BY <2>4 DEF At, HoldsClient, HoldsChunk, BeforeChange, AfterChange
  <2>7. \A d \in Clients : d # c => ClientSame(d) /\ EntrySame(d)
    BY <2>2, <2>3 DEF ClientSame, EntrySame, Remove, FitTypes, ClientTypes
  <2>8. ClientFits(c)'
    BY <2>1, <2>2, <2>3, <2>5 DEF ClientFits, Answers, Belongs, FitTypes, ClientTypes
  <2>9. StaysUp' /\ RecordsMatch'
    BY <1>1, <2>2, <2>3 DEF StaysUp, RecordsMatch, FitTypes, ClientTypes
  <2> QED BY <2>3, <2>6, <2>7, <2>8, <2>9, FitByClient
<1>7. CASE HandleWrite(c)
  <2> DEFINE record == [index |-> hWork[c].curIndex, block |-> hBlock[c]]
  <2>1. /\ hpc[c] = "write"
        /\ \/ tempFile' = Append(tempFile, record) /\ hpc' = [hpc EXCEPT ![c] = "eval"]
              /\ UNCHANGED fault
           \/ fault' = "lateWrite" /\ UNCHANGED <<tempFile, hpc>>
        /\ UNCHANGED <<link, inbox, outbox, obj, fastClients, otherClients, workMap, oldWork, data,
                       wpc, wClient, wWork, wBlock, hWork, hBlock>>
    BY <1>7 DEF HandleWrite
  <2>2. obj[c] /\ hBlock[c] = ChunkBlock(hWork[c].curIndex)
    BY <1>1, <2>1 DEF ClientFits
  <2>3. record.block = ChunkBlock(record.index) /\ record \in [index : Nat, block : Block]
    BY <2>2 DEF FitTypes, WorkInfo
  <2> HIDE DEF record
  <2>4. RecordsMatch'
    <3>1. CASE tempFile' = tempFile
      BY <1>1, <3>1 DEF RecordsMatch
    <3>2. CASE tempFile' = Append(tempFile, record)
      BY <1>1, <2>3, <3>2, AppendPlaces DEF RecordsMatch, FitTypes
    <3> QED BY <2>1, <3>1, <3>2
  <2>5. \A d \in Clients : d # c => ClientSame(d)
    BY <2>1 DEF ClientSame, FitTypes, ClientTypes
  <2>6. \A d \in Clients : EntrySame(d)
    BY <2>1 DEF EntrySame
  <2>7. ClientFits(c)'
    BY <1>1, <2>1, <2>2 DEF ClientFits, Answers, Belongs, HasWork, In, FitTypes, ClientTypes
  <2>8. StaysUp'
    BY <1>1, <2>1 DEF StaysUp, FitTypes, ClientTypes
  <2> QED BY <2>1, <2>4, <2>5, <2>6, <2>7, <2>8, FitByClient
<1>8. CASE HandleEval(c)
  <2>1. PICK verdict \in Verdicts(c) :
          /\ EvaluateClient(c, verdict)
          /\ link' = IF verdict = "TOOSLOW" THEN [link EXCEPT ![c] = "down"] ELSE link
    BY <1>8 DEF HandleEval
  <2>2. verdict \in {"FAST", "NORMAL"}
    BY <2>1 DEF Verdicts, NoFaults
  <2>3. /\ hpc[c] = "eval" /\ hpc' = [hpc EXCEPT ![c] = "idle"]
        /\ UNCHANGED <<link, inbox, outbox, obj, workMap, oldWork, data, tempFile, wpc, wClient,
                       wWork, wBlock, fault>>
        /\ \A d \in Clients : d # c => UNCHANGED <<hWork[d], hBlock[d]>>
    BY <1>8, <2>1, <2>2 DEF HandleEval, FitTypes
  <2>4. fastClients' \in {fastClients, Append(fastClients, c)}
        /\ otherClients' \in {otherClients, Append(otherClients, c)}
    BY <2>1, RequeuedEither DEF EvaluateClient
  <2>5. \A d \in Clients : d # c => ClientSame(d)
    BY <1>2, <2>3, <2>4, QueueOthers DEF ClientSame, FitTypes, ClientTypes
  <2>6. \A d \in Clients : EntrySame(d)
    BY <2>3 DEF EntrySame
  <2>7. ClientFits(c)'
    BY <1>1, <2>3 DEF ClientFits, Answers, Belongs, HasWork, FitTypes, ClientTypes
  <2>8. StaysUp' /\ RecordsMatch'
    BY <1>1, <2>3 DEF StaysUp, RecordsMatch, FitTypes, ClientTypes
  <2> QED BY <2>3, <2>5, <2>6, <2>7, <2>8, FitByClient
<1>9. ~(HandleDisconnect(c) \/ HandleDisconnectTake(c) \/ HandleDisconnectPush(c))
  BY <1>1 DEF StaysUp, HandleDisconnect, HandleDisconnectTake, HandleDisconnectPush
<1> QED BY <1>3, <1>4, <1>5, <1>6, <1>7, <1>8, <1>9 DEF Handler

-----------------------------------------------------------------------------
(* The steps of the workers *)

\* Reading the next chunk: the block is that of its index.
LEMMA ReadFits ==
    ASSUME NEW d \in DataState, d.filePos = d.cursorPos,
           d.cursorPos = IF d.curIndex * chunkSize <= FileSize THEN d.curIndex * chunkSize
                         ELSE FileSize
    PROVE  LET r == GetClientWork(d) IN
           /\ r.wi.size > 0 => r.wi.curIndex = d.curIndex /\ r.block = ChunkBlock(d.curIndex)
           /\ r.data.filePos = r.data.cursorPos
           /\ r.data.cursorPos = IF r.data.curIndex * chunkSize <= FileSize
                                 THEN r.data.curIndex * chunkSize ELSE FileSize
<1> DEFINE r == GetClientWork(d)
           i == d.curIndex
           at == i * chunkSize
           read == BytesRead(d.filePos, chunkSize)
<1>1. i \in Nat /\ d.filePos \in Nat /\ d.cursorPos \in Nat
      /\ chunkSize \in Nat /\ FileSize \in Nat /\ at \in Nat
  <2>1. i \in Nat /\ d.filePos \in Nat /\ d.cursorPos \in Nat
    BY DEF DataState
  <2> HIDE DEF i
  <2> QED BY <2>1, ChunkSizeNat, FileSizeAssumption
<1>2. (i + 1) * chunkSize = at + chunkSize
  <2> HIDE DEF i
  <2> QED BY <1>1 DEF at
<1>3. read \in Nat
  BY <1>1, BytesReadBound
<1>4. CASE read > 0
  <2>1. d.filePos < FileSize
    BY <1>1, <1>4 DEF BytesRead
  <2>2. d.filePos = at /\ d.cursorPos = at /\ at < FileSize
    <3> HIDE DEF at
    <3> QED BY <1>1, <2>1 DEF at
  <2>3. read = IF chunkSize <= FileSize - at THEN chunkSize ELSE FileSize - at
    <3> HIDE DEF at
    <3> QED BY <1>1, <2>1, <2>2 DEF BytesRead
  <2>4. /\ r.data.filePos = at + read /\ r.data.cursorPos = at + read
        /\ r.data.curIndex = i + 1 /\ r.wi.curIndex = i
        /\ r.block = [from |-> at, len |-> read]
    BY <1>4, <2>2 DEF GetClientWork, ChunkAt
  <2>5. r.block = ChunkBlock(i)
    BY <2>2, <2>4 DEF ChunkBlock
  <2> HIDE DEF at, i, read
  <2>6. at + read = IF (i + 1) * chunkSize <= FileSize THEN (i + 1) * chunkSize ELSE FileSize
    BY <1>1, <1>2, <2>2, <2>3
  <2> QED BY <2>4, <2>5, <2>6 DEF i
<1>5. CASE ~(read > 0)
  BY <1>5 DEF GetClientWork, NoWork
<1> QED BY <1>4, <1>5

LEMMA WorkerFit ==
    ASSUME FitTypes, ClientInv, RealWork, FaultFree, NEW w \in Workers, Worker(w)
    PROVE  FaultFree'
<1> USE DEF netVars, queueVars, workVars, fileVars, handlerVars, mainVars, Step
<1>1. WorkerFits(w) /\ StaysUp /\ RecordsMatch /\ ReaderFits
  BY DEF FaultFree
<1>2. CASE NewAssign(w)
  <2> SUFFICES ASSUME NEW CONSTANT c, c = wClient[w] PROVE FaultFree'
    OBVIOUS
  <2>1. /\ wpc[w] = "newAssign" /\ wpc' = [wpc EXCEPT ![w] = "newStamp"]
        /\ workMap' = [workMap EXCEPT ![c] = wWork[w]]
        /\ UNCHANGED <<link, inbox, outbox, obj, fastClients, otherClients, oldWork, data, tempFile,
                       wClient, wWork, wBlock, hpc, hWork, hBlock, fault>>
    BY <1>2 DEF NewAssign, Assign, Change
  <2>2. wpc[w] \in HoldsClient /\ wpc[w] \in BeforeChange
    BY <2>1 DEF HoldsClient, HoldsChunk, BeforeChange
  <2>3. /\ c \in Clients /\ \A p : At(p, c) => p = "before"
        /\ \A v \in Workers : v # w /\ wpc[v] \in HoldsClient => wClient[v] # c
        /\ \A v \in Workers : v # w /\ wpc[v] \in HoldsClient => wClient[v] \in Clients
    BY <2>2, HeldPlace DEF FitTypes, ClientInv, OneOf
  <2>4. \A d \in Clients : d # c => EntrySame(d)
    BY <2>1 DEF EntrySame, FitTypes, ClientTypes
  <2>5. ASSUME NEW v \in Workers, v # w PROVE WorkerFits(v)'
    <3>1. WorkerSame(v)
      BY <2>1, <2>5 DEF WorkerSame, FitTypes, ClientTypes
    <3>2. wpc[v] \in HoldsClient => EntrySame(wClient[v])
      BY <2>3, <2>4, <2>5
    <3> QED BY <3>1, <3>2, WorkerSameFits DEF FaultFree
  <2>6. WorkerFits(w)'
    <3>1. workMap'[c] = wWork[w] /\ wpc'[w] = "newStamp"
      BY <2>1, <2>3 DEF FitTypes, ClientTypes
    <3>2. wWork[w] # NoWork
      BY <2>1 DEF RealWork, WorkerHolds, HoldsChunk
    <3> QED BY <1>1, <2>1, <2>2, <3>1, <3>2 DEF WorkerFits, Belongs, HasWork
  <2>7. \A d \in Clients : d # c => ClientFits(d)'
    BY <2>1, <2>4, ClientSameFits DEF FaultFree, ClientSame
  <2>8. ClientFits(c)'
    BY <2>1, <2>3 DEF ClientFits, At, Answers
  <2>9. StaysUp' /\ RecordsMatch' /\ ReaderFits'
    BY <1>1, <2>1 DEF StaysUp, RecordsMatch, ReaderFits, FitTypes, ClientTypes
  <2> QED BY <2>3, <2>5, <2>6, <2>7, <2>8, <2>9 DEF FaultFree
<1>3. CASE NewSend(w)
  <2> SUFFICES ASSUME NEW CONSTANT c, c = wClient[w] PROVE FaultFree'
    OBVIOUS
  <2>1. wpc[w] = "newSend" /\ wpc[w] \in HoldsClient /\ wpc[w] \in AfterChange
    BY <1>3 DEF NewSend, Send, HoldsClient, HoldsChunk, AfterChange
  <2>2. wpc[w] \notin BeforeChange
    BY <2>1 DEF BeforeChange
  <2>3. /\ c \in Clients /\ link[c] # "off" /\ \A p : At(p, c) => p = "after"
    BY <2>1, <2>2, HeldPlace DEF FitTypes
  <2>4. link[c] = "up"
    BY <1>1, <2>3 DEF StaysUp
  <2>5. /\ wpc' = [wpc EXCEPT ![w] = "check"]
        /\ inbox' = [inbox EXCEPT ![c] = Append(@, wBlock[w])]
        /\ UNCHANGED <<link, outbox, obj, fastClients, otherClients, workMap, oldWork, data, tempFile,
                       wClient, wWork, wBlock, hpc, hWork, hBlock, fault>>
    BY <1>3, <2>4 DEF NewSend, Send
  <2>6. inbox[c] = <<>>
    BY <2>3 DEF At
  <2>7. Head(inbox'[c]) = wBlock[w]
    <3>1. inbox'[c] = Append(<<>>, wBlock[w]) /\ wBlock[w] \in Block
      BY <2>3, <2>5, <2>6 DEF FitTypes, ClientTypes
    <3> QED BY <3>1, OneMessage
  <2>8. Belongs(wBlock[w], workMap, c) /\ obj[c]
    BY <1>1, <2>1 DEF WorkerFits
  <2>9. \A v \in Workers : WorkerFits(v)'
    <3>1. ASSUME NEW v \in Workers, v # w PROVE WorkerFits(v)'
      BY <2>5, <3>1, WorkerSameFits DEF WorkerSame, EntrySame, FaultFree, FitTypes, ClientTypes
    <3>2. WorkerFits(w)'
      BY <2>5 DEF WorkerFits, HoldsClient, HoldsChunk, AfterChange, FitTypes, ClientTypes
    <3> QED BY <3>1, <3>2
  <2>10. ASSUME NEW d \in Clients, d # c PROVE ClientFits(d)'
    BY <2>3, <2>5, <2>10, ClientSameFits DEF FaultFree, ClientSame, EntrySame, FitTypes, ClientTypes
  <2>11. ClientFits(c)'
    BY <2>3, <2>5, <2>7, <2>8 DEF ClientFits, At, Answers, Belongs, HasWork
  <2>12. StaysUp' /\ RecordsMatch' /\ ReaderFits'
    BY <1>1, <2>5 DEF StaysUp, RecordsMatch, ReaderFits, FitTypes, ClientTypes
  <2> QED BY <2>9, <2>10, <2>11, <2>12 DEF FaultFree
<1>4. CASE NewRead(w)
  <2> DEFINE r == GetClientWork(data)
  <2>1. /\ wpc[w] = "newRead"
        /\ wpc' = [wpc EXCEPT ![w] = IF r.wi.size > 0 THEN "newAssign" ELSE "drainMap"]
        /\ data' = r.data
        /\ wWork' = [wWork EXCEPT ![w] = r.wi] /\ wBlock' = [wBlock EXCEPT ![w] = r.block]
        /\ UNCHANGED <<netVars, fastClients, otherClients, obj, workMap, oldWork, tempFile, wClient,
                       hpc, hWork, hBlock, fault>>
    BY <1>4 DEF NewRead
  <2>2. /\ r.wi.size > 0 => r.block = ChunkBlock(r.wi.curIndex)
        /\ r.data.filePos = r.data.cursorPos
        /\ r.data.cursorPos = IF r.data.curIndex * chunkSize <= FileSize
                              THEN r.data.curIndex * chunkSize ELSE FileSize
    BY <1>1, ReadFits DEF ReaderFits, FitTypes
  <2> HIDE DEF r
  <2>3. ReaderFits'
    BY <2>1, <2>2 DEF ReaderFits
  <2>4. WorkerFits(w)'
    <3>1. obj[wClient[w]]
      BY <1>1, <2>1 DEF WorkerFits, HoldsClient
    <3>2. /\ wpc'[w] = IF r.wi.size > 0 THEN "newAssign" ELSE "drainMap"
          /\ wWork'[w] = r.wi /\ wBlock'[w] = r.block
      BY <2>1 DEF FitTypes, ClientTypes
    <3> QED BY <2>1, <2>2, <3>1, <3>2 DEF WorkerFits, HoldsClient, HoldsChunk, AfterChange
  <2>5. \A v \in Workers : v # w => WorkerSame(v)
    BY <2>1 DEF WorkerSame, FitTypes, ClientTypes
  <2>6. StaysUp'
    BY <1>1, <2>1 DEF StaysUp, FitTypes, ClientTypes
  <2> QED BY <2>1, <2>3, <2>4, <2>5, <2>6, FitByWorker
<1>5. CASE (FindFast(w) /\ fastClients # <<>>) \/ (FindOther(w) /\ otherClients # <<>>)
  <2>1. PICK c \in Clients : /\ wClient' = [wClient EXCEPT ![w] = c]
                             /\ In(fastClients, c) \/ In(otherClients, c)
    <3>1. /\ fastClients \in Seq(Clients) /\ otherClients \in Seq(Clients)
          /\ Once(fastClients) /\ Once(otherClients)
      BY DEF FitTypes, ClientTypes, ClientInv, OneOf
    <3>2. /\ fastClients # <<>> => Head(fastClients) \in Clients /\ In(fastClients, Head(fastClients))
          /\ otherClients # <<>> => Head(otherClients) \in Clients
                                    /\ In(otherClients, Head(otherClients))
      BY <3>1, PopOnce
    <3> QED BY <1>5, <3>2 DEF FindFast, FindOther, Found
  <2>2. /\ wpc' = [wpc EXCEPT ![w] = "pick"]
        /\ fastClients' \in {fastClients, Tail(fastClients)}
        /\ fastClients' # fastClients => fastClients # <<>>
        /\ otherClients' \in {otherClients, Tail(otherClients)}
        /\ otherClients' # otherClients => otherClients # <<>>
        /\ UNCHANGED <<netVars, obj, workMap, oldWork, data, tempFile, wWork, wBlock, hpc, hWork,
                       hBlock, fault>>
    BY <1>5 DEF FindFast, FindOther
  <2>3. obj[c]
    BY <2>1 DEF FaultFree, ClientFits
  <2>4. WorkerFits(w)'
    BY <2>1, <2>2, <2>3 DEF WorkerFits, AfterChange, FitTypes, ClientTypes
  <2>5. \A v \in Workers : v # w => WorkerSame(v)
    BY <2>1, <2>2 DEF WorkerSame, FitTypes, ClientTypes
  <2>6. \A d : /\ In(fastClients', d) => In(fastClients, d)
               /\ In(otherClients', d) => In(otherClients, d)
    <3>1. /\ fastClients \in Seq(Clients) /\ otherClients \in Seq(Clients)
          /\ Once(fastClients) /\ Once(otherClients)
      BY DEF FitTypes, ClientTypes, ClientInv, OneOf
    <3>2. \A d : /\ fastClients # <<>> => (In(Tail(fastClients), d) => In(fastClients, d))
                 /\ otherClients # <<>> => (In(Tail(otherClients), d) => In(otherClients, d))
      BY <3>1, PopOnce
    <3>3. \A d : In(fastClients', d) => In(fastClients, d)
      BY <2>2, <3>2
    <3>4. \A d : In(otherClients', d) => In(otherClients, d)
      BY <2>2, <3>2
    <3> QED BY <3>3, <3>4
  <2>7. StaysUp' /\ ReaderFits'
    BY <1>1, <2>2 DEF StaysUp, ReaderFits, FitTypes, ClientTypes
  <2> QED BY <2>2, <2>4, <2>5, <2>6, <2>7, FitByWorker
<1>6. CASE PickWork(w) \/ NewStamp(w)
  <2>1. obj[wClient[w]]
    BY <1>1, <1>6 DEF PickWork, NewStamp, Stamp, WorkerFits, HoldsClient
  <2>2. /\ \/ wpc[w] = "pick" /\ wpc' = [wpc EXCEPT ![w] = "newRead"]
           \/ wpc[w] = "newStamp" /\ wpc' = [wpc EXCEPT ![w] = "newSend"]
        /\ UNCHANGED <<netVars, fastClients, otherClients, obj, workMap, oldWork, data, tempFile,
                       wClient, wWork, wBlock, hpc, hWork, hBlock, fault>>
    BY <1>1, <1>6, <2>1 DEF PickWork, NewStamp, Stamp, StaysUp
  <2>3. WorkerFits(w)'
    BY <1>1, <2>1, <2>2 DEF WorkerFits, AfterChange, Belongs, HasWork, FitTypes, ClientTypes
  <2>4. \A v \in Workers : v # w => WorkerSame(v)
    BY <2>2 DEF WorkerSame, FitTypes, ClientTypes
  <2>5. StaysUp' /\ ReaderFits'
    BY <1>1, <2>2 DEF StaysUp, ReaderFits, FitTypes, ClientTypes
  <2> QED BY <2>2, <2>3, <2>4, <2>5, FitByWorker
<1>7. CASE \/ Poll(w) \/ Check(w) \/ DrainMap(w) \/ DrainOld(w) \/ Finish(w) \/ Reorder(w)
           \/ ReorderEnd(w)
           \/ (FindFast(w) /\ fastClients = <<>>) \/ (FindOther(w) /\ otherClients = <<>>)
  <2>1. /\ UNCHANGED <<netVars, fastClients, otherClients, obj, workMap, oldWork, data, tempFile,
                       hpc, hWork, hBlock, fault>>
        /\ \E to \in {"done", "findFast", "findOther", "poll", "drainOld", "drainMap", "finish",
                      "reorder", "reorderEnd"} : wpc' = [wpc EXCEPT ![w] = to]
    BY <1>7 DEF Poll, Check, DrainMap, DrainOld, Finish, Reorder, ReorderEnd, FindFast, FindOther
  <2>2. \A v \in Workers : v # w => WorkerSame(v)
    BY <1>7 DEF Poll, Check, DrainMap, DrainOld, Finish, Reorder, ReorderEnd, FindFast, FindOther,
                WorkerSame, FitTypes, ClientTypes
  <2>3. WorkerFits(w)'
    BY <2>1 DEF WorkerFits, HoldsClient, HoldsChunk, AfterChange, FitTypes, ClientTypes
  <2>4. StaysUp' /\ ReaderFits'
    BY <1>1, <2>1 DEF StaysUp, ReaderFits, FitTypes, ClientTypes
  <2> QED BY <2>1, <2>2, <2>3, <2>4, FitByWorker
<1>8. ~(NewRemove(w) \/ OldRead(w) \/ OldAssign(w) \/ OldStamp(w) \/ OldSend(w) \/ OldRemove(w))
  BY <1>1 DEF StaysUp, NewRemove, OldRead, OldAssign, OldStamp, OldSend, OldRemove, Assign, Stamp,
              Send, Erase
<1> QED BY <1>2, <1>3, <1>4, <1>5, <1>6, <1>7, <1>8 DEF Worker

LEMMA FaultFreeStep ==
    ASSUME TypeOK, ClientInv, RealWork, FaultFree, NoFaults, [Next]_vars
    PROVE  FaultFree'
<1>1. FitTypes
  BY TypesOfFit
<1>2. ASSUME NEW c \in Clients, Client(c) \/ Handler(c)
      PROVE  FaultFree'
  BY <1>1, <1>2, ClientFit, HandlerFit
<1>3. \A c \in Clients : ~Break(c)
  BY DEF Break, LinkBreak, NoFaults
<1>4. ASSUME NEW w \in Workers, Worker(w)
      PROVE  FaultFree'
  BY <1>1, <1>4, WorkerFit
<1>5. CASE Main \/ UNCHANGED vars
  <2>1. /\ UNCHANGED <<netVars, queueVars, workVars, fileVars, workerVars, handlerVars>>
        /\ fault' \in {fault, "joinUnstarted"}
    BY <1>5 DEF Main, Shutdown, Join, vars
  <2> USE DEF netVars, queueVars, workVars, fileVars, workerVars, handlerVars
  <2>2. StaysUp' /\ ReaderFits' /\ RecordsMatch'
    BY <2>1 DEF FaultFree, StaysUp, ReaderFits, RecordsMatch
  <2>3. \A w \in Workers : WorkerFits(w)'
    BY <2>1, WorkerSameFits DEF FaultFree, WorkerSame, EntrySame
  <2>4. \A c \in Clients : ClientFits(c)'
    BY <2>1, ClientSameFits DEF FaultFree, ClientSame, EntrySame
  <2> QED BY <2>2, <2>3, <2>4 DEF FaultFree
<1> QED BY <1>2, <1>3, <1>4, <1>5 DEF Next

-----------------------------------------------------------------------------
(* The theorems *)

LEMMA FaultFreeAlways ==
    ASSUME NoFaults
    PROVE  Spec => [](TypeOK /\ ClientInv /\ RealWork /\ FaultFree)
<1>1. Init => OwnerInv /\ RealWork /\ ClientInv /\ FaultFree
  BY OwnerInit, RealWorkInit, ClientInvInit, FaultFreeInit
<1>2. TypeOK /\ WorkKnown /\ (TypeOK /\ WorkKnown)' /\ OwnerInv /\ [Next]_vars => OwnerInv'
  BY OwnerStep
<1>3. TypeOK /\ WorkKnown /\ OwnerInv /\ RealWork /\ [Next]_vars => RealWork'
  BY NextPool
<1>4. TypeOK /\ ClientInv /\ RealWork /\ FaultFree /\ [Next]_vars => ClientInv' /\ FaultFree'
  BY ClientInvStep, FaultFreeStep
<1> QED BY <1>1, <1>2, <1>3, <1>4, TypeCorrect, PTL DEF Spec

\* While no client disconnects, workers stamp and handlers read TimePoints that
\* are there.
THEOREM TimePointsThere ==
    ASSUME NoFaults
    PROVE  Spec => []NoNullTime
<1>1. FaultFree => NoNullTime
  BY DEF FaultFree, StaysUp, NoNullTime
<1> QED BY <1>1, FaultFreeAlways, PTL

\* While no client disconnects, an answer is always to work the server waits for:
\* the check of Server.cpp:225 never finds a client to be thrown out.
THEOREM AnswersAwaited ==
    ASSUME NoFaults
    PROVE  Spec => []AnswerExpected
<1>1. FaultFree => AnswerExpected
  BY DEF FaultFree, ClientFits, Belongs, AnswerExpected
<1> QED BY <1>1, FaultFreeAlways, PTL

\* While no client disconnects, the index of each record of the output is that of
\* the chunk whose result it is, although the two reach Write by different ways.
THEOREM RecordsOfTheirChunks ==
    ASSUME NoFaults
    PROVE  Spec => []RecordsMatch
<1>1. FaultFree => RecordsMatch
  BY DEF FaultFree
<1> QED BY <1>1, FaultFreeAlways, PTL

\* The server implements the pool of chunks, which loses one only where clients
\* may disconnect.
THEOREM PoolAlwaysImplemented == Spec => ImplementsWorkPool
<1>1. CASE ~NoFaults
  BY <1>1, PoolImplemented DEF NoFaults
<1>2. CASE NoFaults
  <2>1. Init => Pool!PoolInit /\ OwnerInv /\ RoomInv
    BY PoolStart, OwnerInit, RoomInit
  <2>2. TypeOK /\ WorkKnown /\ (TypeOK /\ WorkKnown)' /\ OwnerInv /\ [Next]_vars => OwnerInv'
    BY OwnerStep
  <2>3. TypeOK /\ ClientInv /\ RoomInv /\ [Next]_vars => RoomInv'
    BY RoomStep
  <2>4. TypeOK /\ WorkKnown /\ OwnerInv /\ RoomInv /\ ClientInv /\ RealWork /\ FaultFree
          /\ [Next]_vars => [Pool!PoolNext]_ChunkStatus
    <3> SUFFICES ASSUME TypeOK, WorkKnown, OwnerInv, RoomInv, ClientInv, RealWork, FaultFree,
                        [Next]_vars
                 PROVE  [Pool!PoolNext]_ChunkStatus
      OBVIOUS
    <3>1. ~Erases /\ ~Refusals
      BY DEF FaultFree, StaysUp, Erases, NewRemove, OldRemove, Erase, Step, Refusals, Lingers
    <3>2. MayLose
      BY <3>1, OnlyErases DEF MayLose
    <3> QED BY <3>2, NextPool DEF PoolStep
  <2> QED BY <1>2, <2>1, <2>2, <2>3, <2>4, TypeCorrect, FaultFreeAlways, PTL
          DEF Spec, ImplementsWorkPool, Pool!PoolSpec
<1> QED BY <1>1, <1>2

================================================================================
