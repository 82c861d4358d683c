-------------------------------- MODULE Server --------------------------------
(***************************************************************************)
(* The work distribution of the server (Server/Server.cpp): worker threads *)
(* that read chunks of the file and send them to free clients, the message *)
(* and disconnect handlers the TCP library calls for each client, and the  *)
(* main thread that shuts the server down.                                 *)
(*                                                                         *)
(* A thread runs between two shared steps without being seen: one action   *)
(* is one lock-protected section, one atomic or lock-free operation, or    *)
(* one call of the TCP library.  The TCP library is external: it calls     *)
(* the handlers of one client one after the other and DisconnectHandler    *)
(* last, and every connection is a ClientData of its own.                  *)
(***************************************************************************)
EXTENDS ClientWorkMap, ClientQueue, FiniteSets

CONSTANTS
    NWorkers,         \* worker threads (main.cpp: 2)
    Breakable,        \* clients whose connection may break by itself
    ShutdownAllowed   \* whether the operator may shut the server down

ASSUME NWorkersAssumption == NWorkers \in Nat \ {0}
ASSUME ClientSetsAssumption ==
    Breakable \subseteq Clients /\ SlowClients \subseteq Clients
ASSUME ShutdownAssumption == ShutdownAllowed \in BOOLEAN

Workers == 1..NWorkers

VARIABLES
    link,          \* per client: its connection (in the TCP library)
    inbox,         \* per client: the MSG_WORK_NEW messages on their way to it
    outbox,        \* per client: its messages the server has not handled yet
    obj,           \* per client: is clint->obj (its TimePoint) allocated?
    fastClients, otherClients,       \* ClientQueue
    workMap,       \* ClientWorkMap
    oldWork,       \* work of disconnected clients, to give out again
    data,          \* the input file, behind workLock
    tempFile,      \* what tempFileMap.Write was called with, in that order
    mapState,      \* tempFileMap: "open", "reordering" or "closed"
    wpc, wClient, wWork, wBlock,     \* per worker: where it is, clint, wi, sndBuff
    hpc, hWork, hBlock,              \* per client: its handler, wi, the message
    reorderCounter, threadInitialized, exitThread,
    mpc, joinNext, \* the main thread, and the worker it joins next
    fault          \* how the process died, or "none"

netVars     == <<link, inbox, outbox>>
queueVars   == <<obj, fastClients, otherClients>>
workVars    == <<workMap, oldWork, data>>
fileVars    == <<tempFile, mapState>>
workerVars  == <<wpc, wClient, wWork, wBlock>>
handlerVars == <<hpc, hWork, hBlock>>
mainVars    == <<reorderCounter, threadInitialized, exitThread, mpc, joinNext>>
vars == <<netVars, queueVars, workVars, fileVars, workerVars, handlerVars,
          mainVars, fault>>

-----------------------------------------------------------------------------
(* Messages and initial state *)

READY    == [type |-> "READY_INIT", block |-> NoBlock]
COMPLETE(b) == [type |-> "WORK_COMPLETE", block |-> b]
Messages == [type : {"READY_INIT", "WORK_COMPLETE"}, block : Block]

\* Where GiveNewWork and GiveOldWork hold a WorkInfo no one else has.
HoldsChunk == {"newAssign", "oldRead", "oldAssign"}
\* Where a worker holds a client it took from the queues and has not sent to.
HoldsClient == HoldsChunk \cup
    {"pick", "newRead", "newStamp", "newSend", "oldStamp", "oldSend"}
WorkerPC == HoldsClient \cup
    {"unstarted", "poll", "findFast", "findOther", "newRemove", "oldRemove",
     "check", "drainMap", "drainOld", "finish", "reorder", "reorderEnd", "done"}
HandlerPC == {"idle", "readyInit", "start", "take", "write", "eval",
              "dcTake", "dcPush"}

Init ==
    /\ link = [c \in Clients |-> "off"]
    /\ inbox = [c \in Clients |-> <<>>]
    /\ outbox = [c \in Clients |-> <<>>]
    /\ obj = [c \in Clients |-> FALSE]
    /\ fastClients = <<>> /\ otherClients = <<>>
    /\ workMap = NoEntries
    /\ oldWork = <<>>
    /\ data = LoadData
    /\ tempFile = <<>> /\ mapState = "open"
    /\ wpc = [w \in Workers |-> "unstarted"]
    /\ wClient = [w \in Workers |-> NoClient]
    /\ wWork = [w \in Workers |-> NoWork]
    /\ wBlock = [w \in Workers |-> NoBlock]
    /\ hpc = [c \in Clients |-> "idle"]
    /\ hWork = [c \in Clients |-> NoWork]
    /\ hBlock = [c \in Clients |-> NoBlock]
    /\ reorderCounter = 0
    /\ threadInitialized = FALSE
    /\ exitThread = FALSE /\ mpc = "prompt" /\ joinNext = 1
    /\ fault = "none"

\* The process is alive.
Running == fault = "none" /\ mpc # "stopped"

-----------------------------------------------------------------------------
(* The clients and their connections *)

Live == {c \in Clients : link[c] \in {"up", "down"}}

\* A client connects, has the algorithm, and signals that it is ready.
ClientReady(c) ==
    /\ link[c] = "off"
    /\ Cardinality(Live) < MAXCLIENTS
    /\ link' = [link EXCEPT ![c] = "up"]
    /\ outbox' = [outbox EXCEPT ![c] = Append(@, READY)]
    /\ UNCHANGED <<inbox, queueVars, workVars, fileVars, workerVars, handlerVars,
                   mainVars, fault>>

\* A client processes a chunk and sends the result.
ClientProcess(c) ==
    /\ link[c] = "up"
    /\ inbox[c] # <<>>
    /\ inbox' = [inbox EXCEPT ![c] = Tail(@)]
    /\ outbox' = [outbox EXCEPT ![c] = Append(@, COMPLETE(Head(inbox[c])))]
    /\ UNCHANGED <<link, queueVars, workVars, fileVars, workerVars, handlerVars,
                   mainVars, fault>>

\* The connection of a client breaks, or the client leaves.
LinkBreak(c) ==
    /\ c \in Breakable
    /\ link[c] = "up"
    /\ link' = [link EXCEPT ![c] = "down"]
    /\ UNCHANGED <<inbox, outbox, queueVars, workVars, fileVars, workerVars,
                   handlerVars, mainVars, fault>>

-----------------------------------------------------------------------------
(* MsgHandler and DisconnectHandler of one client *)

\* The library calls the handler with the next message of the client.
Receive(c, type) ==
    /\ hpc[c] = "idle"
    /\ link[c] \in {"up", "down"}
    /\ outbox[c] # <<>>
    /\ Head(outbox[c]).type = type
    /\ outbox' = [outbox EXCEPT ![c] = Tail(@)]
    /\ UNCHANGED <<link, inbox>>

GoTo(c, pc) == hpc' = [hpc EXCEPT ![c] = pc]

\* The handler returns: its locals are gone.
Return(c) ==
    /\ GoTo(c, "idle")
    /\ hWork' = [hWork EXCEPT ![c] = NoWork]
    /\ hBlock' = [hBlock EXCEPT ![c] = NoBlock]

\* The other calls that may hold a node of a client queue: a worker gives its own
\* back before it looks for work, and a handler may have got one for its push.
IsReady(c) == hpc[c] = "idle" /\ outbox[c] # <<>> /\ Head(outbox[c]).type = "READY_INIT"
QueueCalls(c) ==
    Cardinality({w \in Workers : wpc[w] = "pick"})
    + Cardinality({d \in Clients \ {c} : hpc[d] = "eval" \/ IsReady(d)})

\* Mutated form: the TimePoint is not constructed.
AddClient_NoTimePoint(c) ==
    /\ UNCHANGED obj
    /\ otherClients' \in Push(otherClients, c, QueueCalls(c))

\* AddClient makes the TimePoint and queues the client.
AddClient(c) ==
    /\ obj' = [obj EXCEPT ![c] = TRUE]
    /\ otherClients' \in Push(otherClients, c, QueueCalls(c))

\* MSG_READY_INIT
HandleReady(c) ==
    /\ Receive(c, "READY_INIT")
    /\ AddClient(c)
    /\ GoTo(c, "readyInit")
    /\ UNCHANGED <<fastClients, workVars, fileVars, workerVars, hWork, hBlock,
                   mainVars, fault>>

\* The first handler to get here (load and compare_exchange) starts the threads.
HandleReadyInit(c) ==
    /\ hpc[c] = "readyInit"
    /\ threadInitialized' = TRUE
    /\ GoTo(c, IF threadInitialized THEN "idle" ELSE "start")
    /\ UNCHANGED <<netVars, queueVars, workVars, fileVars, workerVars, hWork, hBlock,
                   reorderCounter, exitThread, mpc, joinNext, fault>>

\* ThreadPool::Initialize starts the threads one after the other.
HandleStart(c) ==
    /\ hpc[c] = "start"
    /\ \E w \in Workers :
         /\ wpc[w] = "unstarted"
         /\ \A v \in 1..(w - 1) : wpc[v] # "unstarted"
         /\ wpc' = [wpc EXCEPT ![w] = "poll"]
         /\ GoTo(c, IF w = NWorkers THEN "idle" ELSE "start")
    /\ UNCHANGED <<netVars, queueVars, workVars, fileVars, wClient, wWork, wBlock,
                   hWork, hBlock, mainVars, fault>>

\* MSG_WORK_COMPLETE: the time is measured from *clint->obj.
HandleComplete(c) ==
    /\ Receive(c, "WORK_COMPLETE")
    /\ hBlock' = [hBlock EXCEPT ![c] = Head(outbox[c]).block]
    /\ \/ obj[c] /\ GoTo(c, "take") /\ UNCHANGED fault
       \/ ~obj[c] /\ fault' = "nullTime" /\ UNCHANGED hpc
    /\ UNCHANGED <<queueVars, workVars, fileVars, workerVars, hWork, mainVars>>

\* Mutated form: the entry is found and not erased.
TakeWork_KeepsEntry(c) ==
    /\ HasWork(workMap, c)
    /\ hWork' = [hWork EXCEPT ![c] = workMap[c]]
    /\ UNCHANGED workMap

\* workMap.GetClientWork finds the client's entry and erases it.
TakeWork(c) ==
    /\ HasWork(workMap, c)
    /\ hWork' = [hWork EXCEPT ![c] = workMap[c]]
    /\ workMap' = Remove(workMap, c)

\* A client that answers and has no entry is disconnected.
HandleTake(c) ==
    /\ hpc[c] = "take"
    /\ \/ /\ TakeWork(c)
          /\ GoTo(c, "write")
          /\ UNCHANGED <<link, hBlock>>
       \/ /\ ~HasWork(workMap, c)
          /\ link' = [link EXCEPT ![c] = "down"]
          /\ Return(c)
          /\ UNCHANGED workMap
    /\ UNCHANGED <<inbox, outbox, queueVars, oldWork, data, fileVars, workerVars,
                   mainVars, fault>>

\* Mutated form: the result is dropped.
HandleWrite_Dropped(c) ==
    /\ hpc[c] = "write"
    /\ GoTo(c, "eval")
    /\ UNCHANGED <<netVars, queueVars, workVars, fileVars, workerVars, hWork, hBlock,
                   mainVars, fault>>

\* tempFileMap.Write under fileMapLock.  ReorderFileData does not take the
\* lock: a Write while it runs may or may not bring the process down, and a
\* Write after it goes to a view that is no longer mapped.
HandleWrite(c) ==
    /\ hpc[c] = "write"
    /\ \/ /\ mapState # "closed"
          /\ tempFile' = Append(tempFile, [index |-> hWork[c].curIndex, block |-> hBlock[c]])
          /\ GoTo(c, "eval")
          /\ UNCHANGED fault
       \/ /\ mapState # "open"
          /\ fault' = "lateWrite"
          /\ UNCHANGED <<tempFile, hpc>>
    /\ UNCHANGED <<netVars, queueVars, workVars, mapState, workerVars, hWork, hBlock,
                   mainVars>>

Requeued(queue, c, really) == IF really THEN Push(queue, c, QueueCalls(c)) ELSE {queue}

\* Mutated form: a missing else queues a fast client twice.
EvaluateClient_NoElse(c, verdict) ==
    /\ fastClients' \in Requeued(fastClients, c, verdict = "FAST")
    /\ otherClients' \in Requeued(otherClients, c, verdict # "TOOSLOW")

\* EvaluateClient queues the client again, unless it is too slow.
EvaluateClient(c, verdict) ==
    /\ fastClients' \in Requeued(fastClients, c, verdict = "FAST")
    /\ otherClients' \in Requeued(otherClients, c, verdict = "NORMAL")

\* A client that is too slow is disconnected.
HandleEval(c) ==
    /\ hpc[c] = "eval"
    /\ Return(c)
    /\ \E verdict \in Verdicts(c) :
         /\ EvaluateClient(c, verdict)
         /\ link' = IF verdict = "TOOSLOW" THEN [link EXCEPT ![c] = "down"] ELSE link
    /\ UNCHANGED <<inbox, outbox, obj, workVars, fileVars, workerVars, mainVars,
                   fault>>

\* DisconnectHandler: RemoveClient frees the TimePoint.  The client stays in
\* the queues.
HandleDisconnect(c) ==
    /\ hpc[c] = "idle"
    /\ link[c] = "down"
    /\ obj' = [obj EXCEPT ![c] = FALSE]
    /\ inbox' = [inbox EXCEPT ![c] = <<>>]
    /\ outbox' = [outbox EXCEPT ![c] = <<>>]
    /\ GoTo(c, "dcTake")
    /\ UNCHANGED <<link, fastClients, otherClients, workVars, fileVars, workerVars,
                   hWork, hBlock, mainVars, fault>>

HandleDisconnectTake(c) ==
    /\ hpc[c] = "dcTake"
    /\ \/ /\ TakeWork(c)
          /\ GoTo(c, "dcPush")
          /\ UNCHANGED <<link, hBlock>>
       \/ /\ ~HasWork(workMap, c)
          /\ link' = [link EXCEPT ![c] = "gone"]
          /\ Return(c)
          /\ UNCHANGED workMap
    /\ UNCHANGED <<inbox, outbox, queueVars, oldWork, data, fileVars, workerVars,
                   mainVars, fault>>

\* The other calls that may hold a node of oldWork: a worker gives its own back before
\* it reads the file.
OldWorkCalls(c) ==
    Cardinality({w \in Workers : wpc[w] = "oldRead"})
    + Cardinality({d \in Clients \ {c} : hpc[d] = "dcPush"})

HandleDisconnectPush(c) ==
    /\ hpc[c] = "dcPush"
    /\ oldWork' \in Push(oldWork, hWork[c], OldWorkCalls(c))
    /\ link' = [link EXCEPT ![c] = "gone"]
    /\ Return(c)
    /\ UNCHANGED <<inbox, outbox, queueVars, workMap, data, fileVars, workerVars,
                   mainVars, fault>>

-----------------------------------------------------------------------------
(* WorkThread *)

\* Worker w moves on from one place in the code to another.
Step(w, from, to) == wpc[w] = from /\ wpc' = [wpc EXCEPT ![w] = to]

\* A worker finds a client in one of the queues.
Found(w, queue) == wClient' = [wClient EXCEPT ![w] = Head(queue)]

\* The timer fires: leave if the server is shutting down.
Poll(w) ==
    /\ Step(w, "poll", IF exitThread THEN "done" ELSE "findFast")
    /\ UNCHANGED <<netVars, queueVars, workVars, fileVars, wClient, wWork, wBlock,
                   handlerVars, mainVars, fault>>

\* Mutated form: fastClients is never popped.
FindFast_Skipped(w) ==
    /\ Step(w, "findFast", "findOther")
    /\ UNCHANGED <<netVars, queueVars, workVars, fileVars, wClient, wWork, wBlock,
                   handlerVars, mainVars, fault>>

\* FindClientForWork: fastClients first, then otherClients, else wait again.
FindFast(w) ==
    /\ \/ /\ fastClients # <<>>
          /\ Step(w, "findFast", "pick")
          /\ Found(w, fastClients)
          /\ fastClients' = Tail(fastClients)
       \/ /\ fastClients = <<>>
          /\ Step(w, "findFast", "findOther")
          /\ UNCHANGED <<wClient, fastClients>>
    /\ UNCHANGED <<netVars, obj, otherClients, workVars, fileVars, wWork, wBlock,
                   handlerVars, mainVars, fault>>

FindOther(w) ==
    /\ \/ /\ otherClients # <<>>
          /\ Step(w, "findOther", "pick")
          /\ Found(w, otherClients)
          /\ otherClients' = Tail(otherClients)
       \/ /\ otherClients = <<>>
          /\ Step(w, "findOther", "poll")
          /\ UNCHANGED <<wClient, otherClients>>
    /\ UNCHANGED <<netVars, obj, fastClients, workVars, fileVars, wWork, wBlock,
                   handlerVars, mainVars, fault>>

\* oldWork.pop decides between GiveOldWork and GiveNewWork.
PickWork(w) ==
    /\ \/ /\ oldWork # <<>>
          /\ Step(w, "pick", "oldRead")
          /\ wWork' = [wWork EXCEPT ![w] = Head(oldWork)]
          /\ oldWork' = Tail(oldWork)
       \/ /\ oldWork = <<>>
          /\ Step(w, "pick", "newRead")
          /\ UNCHANGED <<wWork, oldWork>>
    /\ UNCHANGED <<netVars, queueVars, workMap, data, fileVars, wClient, wBlock,
                   handlerVars, mainVars, fault>>

\* After a client was served the worker's locals are gone, and it goes on
\* unless the server is shutting down.
Check(w) ==
    /\ Step(w, "check", IF exitThread THEN "done" ELSE "findFast")
    /\ wClient' = [wClient EXCEPT ![w] = NoClient]
    /\ wWork' = [wWork EXCEPT ![w] = NoWork]
    /\ wBlock' = [wBlock EXCEPT ![w] = NoBlock]
    /\ UNCHANGED <<netVars, queueVars, workVars, fileVars, handlerVars, mainVars,
                   fault>>

-----------------------------------------------------------------------------
(* What GiveNewWork and GiveOldWork have in common *)

\* workMap.Change
Assign(w, from, to) ==
    /\ Step(w, from, to)
    /\ workMap' = Change(workMap, wClient[w], wWork[w])
    /\ UNCHANGED <<netVars, queueVars, oldWork, data, fileVars, wClient, wWork,
                   wBlock, handlerVars, mainVars, fault>>

\* *clint->obj = now: DisconnectHandler may have freed and nulled it.
Stamp(w, from, to) ==
    /\ wpc[w] = from
    /\ \/ obj[wClient[w]] /\ Step(w, from, to) /\ UNCHANGED fault
       \/ ~obj[wClient[w]] /\ fault' = "nullStamp" /\ UNCHANGED wpc
    /\ UNCHANGED <<netVars, queueVars, workVars, fileVars, wClient, wWork, wBlock,
                   handlerVars, mainVars>>

\* SendClientData succeeds on a connection that is up, fails on one that is
\* gone, and may do either on one that is breaking (the message is lost).
Send(w, from, sent, failed) ==
    LET c == wClient[w] IN
    /\ wpc[w] = from
    /\ \/ /\ link[c] # "gone"
          /\ Step(w, from, sent)
       \/ /\ link[c] # "up"
          /\ Step(w, from, failed)
    /\ inbox' = IF link[c] = "up" THEN [inbox EXCEPT ![c] = Append(@, wBlock[w])]
                ELSE inbox
    /\ UNCHANGED <<link, outbox, queueVars, workVars, fileVars, wClient, wWork,
                   wBlock, handlerVars, mainVars, fault>>

\* workMap.Remove
Erase(w, from, to) ==
    /\ Step(w, from, to)
    /\ workMap' = Remove(workMap, wClient[w])
    /\ UNCHANGED <<netVars, queueVars, oldWork, data, fileVars, wClient, wWork,
                   wBlock, handlerVars, mainVars, fault>>

-----------------------------------------------------------------------------
(* GiveNewWork *)

NewRead(w) ==
    LET r == GetClientWork(data) IN
    /\ Step(w, "newRead", IF r.wi.size > 0 THEN "newAssign" ELSE "drainMap")
    /\ data' = r.data
    /\ wWork' = [wWork EXCEPT ![w] = r.wi]
    /\ wBlock' = [wBlock EXCEPT ![w] = r.block]
    /\ UNCHANGED <<netVars, queueVars, workMap, oldWork, fileVars, wClient,
                   handlerVars, mainVars, fault>>

NewAssign(w) == Assign(w, "newAssign", "newStamp")
NewStamp(w)  == Stamp(w, "newStamp", "newSend")
\* Mutated form: the entry is removed when the send succeeds.
NewSend_Inverted(w) == Send(w, "newSend", "newRemove", "check")
NewSend(w)   == Send(w, "newSend", "check", "newRemove")
NewRemove(w) == Erase(w, "newRemove", "check")

\* No more work: sleep until workMap is empty and then oldWork is too.  The
\* loop looks at nothing else, and the client is forgotten.
DrainMap(w) ==
    /\ Empty(workMap)
    /\ Step(w, "drainMap", "drainOld")
    /\ wClient' = [wClient EXCEPT ![w] = NoClient]
    /\ UNCHANGED <<netVars, queueVars, workVars, fileVars, wWork, wBlock, handlerVars,
                   mainVars, fault>>

DrainOld(w) ==
    /\ Step(w, "drainOld", IF oldWork = <<>> THEN "finish" ELSE "drainMap")
    /\ UNCHANGED <<netVars, queueVars, workVars, fileVars, wClient, wWork, wBlock,
                   handlerVars, mainVars, fault>>

\* Mutated form: every worker that finishes counts as the first.
FirstToFinish_Always == TRUE

\* ++reorderCounter == 1
FirstToFinish == reorderCounter + 1 = 1

\* The first worker to finish runs OnCompletion; the others return.
Finish(w) ==
    /\ reorderCounter' = reorderCounter + 1
    /\ Step(w, "finish", IF FirstToFinish THEN "reorder" ELSE "done")
    /\ UNCHANGED <<netVars, queueVars, workVars, fileVars, wClient, wWork, wBlock,
                   handlerVars, threadInitialized, exitThread, mpc, joinNext, fault>>

\* OnCompletion: "All data received; reordering...", ReorderFileData, Close.
Reorder(w) ==
    /\ Step(w, "reorder", "reorderEnd")
    /\ mapState' = "reordering"
    /\ UNCHANGED <<netVars, queueVars, workVars, tempFile, wClient, wWork, wBlock,
                   handlerVars, mainVars, fault>>

ReorderEnd(w) ==
    /\ Step(w, "reorderEnd", "done")
    /\ mapState' = "closed"
    /\ UNCHANGED <<netVars, queueVars, workVars, tempFile, wClient, wWork, wBlock,
                   handlerVars, mainVars, fault>>

-----------------------------------------------------------------------------
(* GiveOldWork *)

OldRead(w) ==
    LET r == GetClientWorkPrev(data, wWork[w]) IN
    /\ Step(w, "oldRead", "oldAssign")
    /\ data' = r.data
    /\ wBlock' = [wBlock EXCEPT ![w] = r.block]
    /\ UNCHANGED <<netVars, queueVars, workMap, oldWork, fileVars, wClient, wWork,
                   handlerVars, mainVars, fault>>

OldAssign(w) == Assign(w, "oldAssign", "oldStamp")
OldStamp(w)  == Stamp(w, "oldStamp", "oldSend")
\* The entry is removed when the send succeeds.
OldSend(w)   == Send(w, "oldSend", "oldRemove", "check")
OldRemove(w) == Erase(w, "oldRemove", "check")

-----------------------------------------------------------------------------
(* The main thread: Server::Shutdown *)

Shutdown ==
    /\ ShutdownAllowed
    /\ mpc = "prompt"
    /\ exitThread' = TRUE
    /\ mpc' = "join"
    /\ UNCHANGED <<netVars, queueVars, workVars, fileVars, workerVars, handlerVars,
                   reorderCounter, threadInitialized, joinNext, fault>>

\* ThreadPool::Wait joins the threads in turn; joining one that was never
\* started throws.  Then DestroyServer ends all callbacks.
Join ==
    /\ mpc = "join"
    /\ \/ /\ wpc[joinNext] = "done"
          /\ joinNext' = joinNext + 1
          /\ mpc' = IF joinNext = NWorkers THEN "stopped" ELSE "join"
          /\ UNCHANGED fault
       \/ /\ wpc[joinNext] = "unstarted"
          /\ fault' = "joinUnstarted"
          /\ UNCHANGED <<joinNext, mpc>>
    /\ UNCHANGED <<netVars, queueVars, workVars, fileVars, workerVars, handlerVars,
                   reorderCounter, threadInitialized, exitThread>>

-----------------------------------------------------------------------------
(* The specification *)

Client(c) == Running /\ (ClientReady(c) \/ ClientProcess(c))

Break(c) == Running /\ LinkBreak(c)

Handler(c) ==
    Running /\ \/ HandleReady(c) \/ HandleReadyInit(c) \/ HandleStart(c)
               \/ HandleComplete(c) \/ HandleTake(c) \/ HandleWrite(c)
               \/ HandleEval(c) \/ HandleDisconnect(c)
               \/ HandleDisconnectTake(c) \/ HandleDisconnectPush(c)

Worker(w) ==
    Running /\ \/ Poll(w) \/ FindFast(w) \/ FindOther(w) \/ PickWork(w) \/ Check(w)
               \/ NewRead(w) \/ NewAssign(w) \/ NewStamp(w) \/ NewSend(w)
               \/ NewRemove(w) \/ DrainMap(w) \/ DrainOld(w) \/ Finish(w)
               \/ Reorder(w) \/ ReorderEnd(w)
               \/ OldRead(w) \/ OldAssign(w) \/ OldStamp(w) \/ OldSend(w)
               \/ OldRemove(w)

Main == Running /\ (Shutdown \/ Join)

Next ==
    \/ \E c \in Clients : Client(c) \/ Break(c) \/ Handler(c)
    \/ \E w \in Workers : Worker(w)
    \/ Main

Spec == Init /\ [][Next]_vars

\* Threads are scheduled, the library delivers messages and disconnects, and
\* clients answer.  Some client comes to a server that has none; no other has to.
\* Nothing has to break or be shut down; a shutdown that was begun goes on.
Fairness ==
    /\ WF_vars(Running /\ Live = {} /\ \E c \in Clients : ClientReady(c))
    /\ \A c \in Clients : WF_vars(Running /\ ClientProcess(c)) /\ WF_vars(Handler(c))
    /\ \A w \in Workers : WF_vars(Worker(w))
    /\ WF_vars(Running /\ Join)

FairSpec == Spec /\ Fairness

-----------------------------------------------------------------------------
(* Properties *)

\* Every variable has its type.
TypeOK ==
    /\ link \in [Clients -> {"off", "up", "down", "gone"}]
    /\ inbox \in [Clients -> Seq(Block)]
    /\ outbox \in [Clients -> Seq(Messages)]
    /\ obj \in [Clients -> BOOLEAN]
    /\ fastClients \in Seq(Clients) /\ otherClients \in Seq(Clients)
    /\ workMap \in [Clients -> WorkInfo]
    /\ oldWork \in Seq(WorkInfo)
    /\ data \in DataState
    /\ tempFile \in Seq([index : Nat, block : Block])
    /\ mapState \in {"open", "reordering", "closed"}
    /\ wpc \in [Workers -> WorkerPC]
    /\ wClient \in [Workers -> Clients \cup {NoClient}]
    /\ wWork \in [Workers -> WorkInfo]
    /\ wBlock \in [Workers -> Block]
    /\ hpc \in [Clients -> HandlerPC]
    /\ hWork \in [Clients -> WorkInfo]
    /\ hBlock \in [Clients -> Block]
    /\ reorderCounter \in Nat
    /\ threadInitialized \in BOOLEAN /\ exitThread \in BOOLEAN
    /\ mpc \in {"prompt", "join", "stopped"}
    /\ joinNext \in 1..(NWorkers + 1)
    /\ fault \in {"none", "nullTime", "nullStamp", "lateWrite", "joinUnstarted"}

-----------------------------------------------------------------------------
(* Properties: the chunks *)

Written(i) == \E k \in DOMAIN tempFile : tempFile[k].index = i

\* Everyone and everything that holds chunk i: a worker before Change, an
\* entry of workMap, an element of oldWork, a handler, a record of the file.
Owners(i) ==
    {<<"worker", w>> : w \in {v \in Workers : wpc[v] \in HoldsChunk /\ wWork[v].curIndex = i}}
    \cup {<<"map", c>> : c \in {d \in Clients : HasWork(workMap, d) /\ workMap[d].curIndex = i}}
    \cup {<<"old", k>> : k \in {j \in DOMAIN oldWork : oldWork[j].curIndex = i}}
    \cup {<<"handler", c>> : c \in {d \in Clients : /\ hpc[d] \in {"write", "dcPush"}
                                                   /\ hWork[d].curIndex = i}}
    \cup {<<"file", k>> : k \in {j \in DOMAIN tempFile : tempFile[j].index = i}}

Issued == 0 .. (data.curIndex - 1)

\* Some place holds chunk i: Owners(i) # {}.
Owned(i) ==
    \/ Written(i)
    \/ \E k \in DOMAIN oldWork : oldWork[k].curIndex = i
    \/ \E w \in Workers : wpc[w] \in HoldsChunk /\ wWork[w].curIndex = i
    \/ \E c \in Clients : \/ HasWork(workMap, c) /\ workMap[c].curIndex = i
                          \/ hpc[c] \in {"write", "dcPush"} /\ hWork[c].curIndex = i

\* A chunk is in one place at a time, whatever disconnects and is resent: never
\* given to two clients at once, never both stored in oldWork and outstanding,
\* never written to the output twice.
ChunkOwnedOnce == \A i \in Issued : Cardinality(Owners(i)) <= 1

\* A worker has taken stored work and may not have given back its node of oldWork,
\* although the client it is for has left, or is leaving, since.
Lingers(w) ==
    wpc[w] = "oldRead" /\ (wClient[w] \notin Live \/ hpc[wClient[w]] = "dcPush")

\* A chunk is only ever lost by a worker that erases an entry after a send
\* (Server.cpp:132 and 165), or by DisconnectHandler when a worker lingers with a node
\* of oldWork: the other handlers, the queues at their capacity and the reader lose
\* nothing.
LossOnlyByWorker ==
    [][\A i \in Issued : Owned(i) /\ ~Owned(i)' =>
          \E w \in Workers : \/ NewRemove(w) \/ OldRemove(w)
                             \/ Lingers(w) /\ \E c \in Clients : HandleDisconnectPush(c)]_vars

\* The chunk with index i, as the input file is cut up.
ChunkBlock(i) ==
    LET from == i * chunkSize IN [from |-> from, len |-> BytesRead(from, chunkSize)]

\* The index a result is filed under comes from workMap, the result from the
\* client's message: they belong together.
RecordsMatch == \A k \in DOMAIN tempFile : tempFile[k].block = ChunkBlock(tempFile[k].index)

\* The server's promise about the chunks, in the terms of WorkPool.
ChunkStatus ==
    [i \in 0 .. (FileSize - 1) |->
        IF i \notin Issued THEN "unissued"
        ELSE IF Written(i) THEN "written"
        ELSE IF ~Owned(i) THEN "lost"
        ELSE "outstanding"]

Pool == INSTANCE WorkPool WITH
            MaxChunks <- FileSize,
            Lossy <- Breakable \cup SlowClients # {},
            status <- ChunkStatus

\* Chunks are issued in order, one at a time, each is written once and never
\* comes back once it is lost; and none is lost while no client disconnects.
ImplementsWorkPool == Pool!PoolSpec

-----------------------------------------------------------------------------
(* Properties: the clients *)

Count(q, c) == Cardinality({k \in DOMAIN q : q[k] = c})

\* Where client c counts as free for work, being given work, or owing an answer.
Tokens(c) ==
    Count(fastClients, c) + Count(otherClients, c) + Len(inbox[c]) + Len(outbox[c])
    + Cardinality({w \in Workers : wpc[w] \in HoldsClient /\ wClient[w] = c})
    + (IF hpc[c] \in {"take", "write", "eval"} THEN 1 ELSE 0)

\* A client is queued for work once, and neither while a worker has it nor
\* while it owes an answer: the queues hold each ClientData at most once.
ClientFreeOnce == \A c \in Clients : Tokens(c) <= 1

\* Change never overwrites the entry of another chunk: a client that is handed
\* work has none, also when its previous chunk was a resent one.
AssignToFreeClient ==
    \A w \in Workers : wpc[w] \in {"newAssign", "oldAssign"} => ~HasWork(workMap, wClient[w])

\* An answer is always to work the server is waiting for: the client that sends
\* it is never disconnected for it (Server.cpp:225).
AnswerExpected == \A c \in Clients : hpc[c] = "take" => HasWork(workMap, c)

\* A worker stamps the start time, and a handler reads it, while the client has
\* a TimePoint.
NoNullTime == fault \notin {"nullStamp", "nullTime"}

-----------------------------------------------------------------------------
(* Properties: completion and shutdown *)

\* The output is reordered once, however many workers run out of work.
ReorderedOnce ==
    Cardinality({w \in Workers : wpc[w] \in {"reorder", "reorderEnd"}})
    + (IF mapState = "closed" THEN 1 ELSE 0) <= 1

\* "All data received; reordering..." (Server.cpp:176): every chunk of the whole
\* file has been written by then.
AllDataReceived ==
    \A w \in Workers : wpc[w] = "reorder" =>
        data.cursorPos = FileSize /\ \A i \in Issued : Written(i)

\* With one client alone the whole file is processed and its results reordered:
\* the server cannot take the job for done before it is, and does not stop.
JobDone == mapState = "closed" /\ data.cursorPos = FileSize /\ \A i \in Issued : Written(i)
Came == {c \in Clients : link[c] # "off"}
SoleClientFinishes == <>(JobDone \/ exitThread \/ Cardinality(Came) > 1)

\* While no client disconnects the drain loops end: the output is reordered,
\* unless the server is shut down or dies on a result that came too late.
JobEnds == <>(mapState = "closed" \/ exitThread \/ fault = "lateWrite")

\* A shutdown ends, whatever the workers are doing: every thread is joined, or
\* the process dies.
ShutdownEnds == mpc = "join" ~> ~Running

-----------------------------------------------------------------------------
(* What the comments and messages of the code say, and the code does not do *)

\* "Check if client still has work to be processed, if so store for later
\* processing" (Server.cpp:279): what is stored is given out again while a
\* client is waiting for work.
WaitingClient ==
    \E c \in Clients : link[c] = "up" /\ Count(fastClients, c) + Count(otherClients, c) > 0
StoredWorkGivenOut == []<>(oldWork = <<>> \/ ~WaitingClient \/ ~Running)

\* The command "disconnect" of a client (README.md:36) does not end the server by
\* a fault: a worker never writes through a TimePoint that was freed.
NoNullStamp == fault # "nullStamp"

=============================================================================
