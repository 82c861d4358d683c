------------------------------ MODULE ClientTimes ------------------------------
(***************************************************************************)
(* The clients and their times (Server/ClientQueue.cpp): a client that is  *)
(* ready gets a TimePoint from a pool, which the workers set when they     *)
(* send it work; its handler reads it, and the time that has passed decides*)
(* whether the client is queued as fast, queued, or kicked; and when the   *)
(* client disconnects the TimePoint goes back to the pool.                 *)
(*                                                                         *)
(* Workers, the handlers of each client, and disconnections run            *)
(* concurrently.  A worker loads the pointer to the TimePoint and stores   *)
(* through it; a disconnection frees the TimePoint and then nulls the      *)
(* pointer (MemPool.h:331-343).                                            *)
(***************************************************************************)
EXTENDS ClientQueue, MemPool, PerformanceModel, FiniteSets, SequencesExt

CONSTANTS
    Clients,
    NoClient,
    Workers,
    Times,         \* times that may be measured
    MaxReady,      \* bound: times a client signals that it is ready
    MaxAnswers     \* bound: times measured by all clients

ASSUME NoClientAssumption == NoClient \notin Clients
ASSUME TimesAssumption ==
    Times \subseteq Nat /\ MaxReady \in Nat /\ MaxAnswers \in Nat

VARIABLES
    timePool,      \* the free TimePoints
    obj,           \* per client: ClientData::obj, 0 for nullptr
    stampedFor,    \* per TimePoint: the client it was last set for
    fastClients, otherClients,
    sd,            \* perfModel.sd
    at,            \* per client: where its connection is
    readies,       \* per client: how often it signalled ready
    working,       \* per client: chunks it was sent and has not answered
    picked,        \* per worker: the client it took from a queue
    pointer,       \* per worker: the pointer it loaded
    results        \* (history) all times measured

vars == <<timePool, obj, stampedFor, fastClients, otherClients, sd, at, readies,
          working, picked, pointer, results>>

Init ==
    /\ timePool = NewPool(MAXCLIENTS)
    /\ obj = [c \in Clients |-> 0]
    /\ stampedFor = [e \in 1 .. MAXCLIENTS |-> NoClient]
    /\ fastClients = <<>> /\ otherClients = <<>>
    /\ sd = NoResults
    /\ at = [c \in Clients |-> "away"]
    /\ readies = [c \in Clients |-> 0]
    /\ working = [c \in Clients |-> 0]
    /\ picked = [w \in Workers |-> NoClient]
    /\ pointer = [w \in Workers |-> 0]
    /\ results = <<>>

Connected == {c \in Clients : at[c] = "connected"}

\* The TCP server takes a client while it has less than MAXCLIENTS; one that
\* is leaving may not count any more.
Connect(c) ==
    /\ at[c] = "away" /\ Cardinality(Connected) < MAXCLIENTS
    /\ at' = [at EXCEPT ![c] = "connected"]
    /\ UNCHANGED <<timePool, obj, stampedFor, fastClients, otherClients, sd, readies,
                   working, picked, pointer, results>>

\* A new TimePoint is not set for anyone.
NewTime(c) ==
    /\ timePool' = PoolAlloc(timePool)
    /\ obj' = [obj EXCEPT ![c] = Allocated(timePool)]
    /\ stampedFor' = [e \in 1 .. timePool'.capacity |->
                        IF e = obj'[c] \/ e > timePool.capacity THEN NoClient
                        ELSE stampedFor[e]]

\* Mutated form: the TimePoint is made without looking whether there is one.
Construct_Always(c) == NewTime(c)

\* A second signal keeps the TimePoint.
Construct(c) ==
    \/ obj[c] = 0 /\ NewTime(c)
    \/ obj[c] # 0 /\ UNCHANGED <<timePool, obj, stampedFor>>

\* The other calls that may hold a node of a client queue: a worker's pop, until it
\* loads the pointer, and the handlers of the other clients.
QueueCalls(c) ==
    Cardinality({w \in Workers : picked[w] # NoClient /\ pointer[w] = 0})
    + Cardinality(Connected \ {c})

AddClient(c) ==
    /\ at[c] = "connected" /\ readies[c] < MaxReady
    /\ readies' = [readies EXCEPT ![c] = @ + 1]
    /\ Construct(c)
    /\ otherClients' \in Push(otherClients, c, QueueCalls(c))
    /\ UNCHANGED <<fastClients, sd, at, working, picked, pointer, results>>

Requeued(queue, c, really) == IF really THEN Push(queue, c, QueueCalls(c)) ELSE {queue}

\* The client answers; too slow a client is disconnected.
EvaluateClient(c, time) ==
    LET new == Calculate(sd, time)
        status == Status(new, time)
    IN
    /\ at[c] = "connected" /\ working[c] > 0 /\ Len(results) < MaxAnswers
    /\ working' = [working EXCEPT ![c] = @ - 1]
    /\ sd' = new
    /\ results' = Append(results, time)
    /\ fastClients' \in Requeued(fastClients, c, status = "FAST")
    /\ otherClients' \in Requeued(otherClients, c, status = "NORMAL")
    /\ at' = IF status = "TOOSLOW" THEN [at EXCEPT ![c] = "leaving"] ELSE at
    /\ UNCHANGED <<timePool, obj, stampedFor, readies, picked, pointer>>

\* The connection ends.
Leave(c) ==
    /\ at[c] = "connected"
    /\ at' = [at EXCEPT ![c] = "leaving"]
    /\ UNCHANGED <<timePool, obj, stampedFor, fastClients, otherClients, sd, readies,
                   working, picked, pointer, results>>

\* RemoveClient: the TimePoint is freed, if there is one.
FreeTime(c) ==
    /\ at[c] = "leaving"
    /\ timePool' = IF obj[c] = 0 THEN timePool ELSE PushAvail(timePool, obj[c])
    /\ at' = [at EXCEPT ![c] = "freed"]
    /\ UNCHANGED <<obj, stampedFor, fastClients, otherClients, sd, readies, working,
                   picked, pointer, results>>

\* RemoveClient: the pointer is nulled.
NullTime(c) ==
    /\ at[c] = "freed"
    /\ at' = [at EXCEPT ![c] = "gone"]
    /\ obj' = [obj EXCEPT ![c] = 0]
    /\ UNCHANGED <<timePool, stampedFor, fastClients, otherClients, sd, readies, working,
                   picked, pointer, results>>

\* FindClientForWork: fast clients first.
FindClientForWork(w) ==
    /\ picked[w] = NoClient
    /\ \/ /\ fastClients # <<>>
          /\ picked' = [picked EXCEPT ![w] = Head(fastClients)]
          /\ fastClients' = Tail(fastClients)
          /\ UNCHANGED otherClients
       \/ /\ fastClients = <<>> /\ otherClients # <<>>
          /\ picked' = [picked EXCEPT ![w] = Head(otherClients)]
          /\ otherClients' = Tail(otherClients)
          /\ UNCHANGED fastClients
    /\ UNCHANGED <<timePool, obj, stampedFor, sd, at, readies, working, pointer, results>>

\* Mutated form: the chunk is sent before the time is stored.
LoadTime_Sends(w) ==
    LET c == picked[w] IN
    /\ c # NoClient /\ pointer[w] = 0 /\ obj[c] # 0
    /\ pointer' = [pointer EXCEPT ![w] = obj[c]]
    /\ working' = IF at[c] = "connected" THEN [working EXCEPT ![c] = @ + 1] ELSE working
    /\ UNCHANGED <<timePool, obj, stampedFor, fastClients, otherClients, sd, at, readies,
                   picked, results>>

\* The pointer of the client is loaded.  A worker that finds nullptr crashes in
\* the store: it takes no further step.
LoadTime(w) ==
    LET c == picked[w] IN
    /\ c # NoClient /\ pointer[w] = 0 /\ obj[c] # 0
    /\ pointer' = [pointer EXCEPT ![w] = obj[c]]
    /\ UNCHANGED <<timePool, obj, stampedFor, fastClients, otherClients, sd, at, readies,
                   working, picked, results>>

\* The time is stored, and the chunk is sent if the client is there.
StoreTime(w) ==
    LET c == picked[w] IN
    /\ pointer[w] # 0
    /\ stampedFor' = [stampedFor EXCEPT ![pointer[w]] = c]
    /\ working' = IF at[c] = "connected" THEN [working EXCEPT ![c] = @ + 1] ELSE working
    /\ pointer' = [pointer EXCEPT ![w] = 0]
    /\ picked' = [picked EXCEPT ![w] = NoClient]
    /\ UNCHANGED <<timePool, obj, fastClients, otherClients, sd, at, readies, results>>

Next ==
    \/ \E c \in Clients : \/ Connect(c) \/ AddClient(c) \/ Leave(c)
                          \/ FreeTime(c) \/ NullTime(c)
                          \/ \E time \in Times : EvaluateClient(c, time)
    \/ \E w \in Workers : FindClientForWork(w) \/ LoadTime(w) \/ StoreTime(w)

Spec == Init /\ [][Next]_vars

-----------------------------------------------------------------------------
(* Properties *)

\* Every variable has its type.
TypeOK ==
    /\ timePool \in Pools
    /\ timePool.next \in [1 .. timePool.capacity -> 0 .. timePool.capacity]
    /\ timePool.avail <= timePool.capacity
    /\ obj \in [Clients -> 0 .. timePool.capacity]
    /\ stampedFor \in [1 .. timePool.capacity -> Clients \cup {NoClient}]
    /\ {fastClients, otherClients} \subseteq Seq(Clients)
    /\ sd \in [mean : Nat, sqDiff : Nat, resultCount : Nat, times : Seq(Times)]
    /\ Len(sd.times) < maxResults
    /\ at \in [Clients -> {"away", "connected", "leaving", "freed", "gone"}]
    /\ readies \in [Clients -> 0 .. MaxReady] /\ working \in [Clients -> Nat]
    /\ picked \in [Workers -> Clients \cup {NoClient}]
    /\ pointer \in [Workers -> 0 .. timePool.capacity]
    /\ results \in Seq(Times)

\* The clients that have a TimePoint.
Holders == {c \in Clients : obj[c] # 0 /\ at[c] # "freed"}

\* Whatever was constructed, freed and constructed again, by whichever client,
\* a TimePoint is free, once, or one client's.
TimePointsApart ==
    LET free == FreeList(timePool)
        held == {obj[c] : c \in Holders}
    IN  /\ Cardinality(held) = Cardinality(Holders)
        /\ IsInjective(free)
        /\ ToSet(free) \cap held = {}
        /\ ToSet(free) \cup held = 1 .. timePool.capacity

\* The time a client is judged by is taken from when it was given work.  Only a
\* worker that had taken up a client that is gone may have set it since.
TimeIsOwn ==
    \A c \in Connected :
        working[c] > 0 => \/ stampedFor[obj[c]] = c
                          \/ /\ stampedFor[obj[c]] # NoClient
                             /\ at[stampedFor[obj[c]]] \in {"leaving", "freed", "gone"}

\* The times that were in a full batch.
Counted == SubSeq(results, 1, sd.resultCount)

\* The times are in units so small that the means are integers: every time is a
\* multiple of u, and u of every number of times that fills batches.  Times that
\* are rational have such a unit.
FineUnit(u) ==
    /\ u \in Nat \ {0}
    /\ \A time \in Times : time % u = 0
    /\ \A n \in 1 .. MaxAnswers : n % maxResults = 0 => u % n = 0

\* The batches leave the mean and the deviation of all times counted.
ExactMoments ==
    LET count == Len(results) - (Len(results) % maxResults)
        total == Total(Counted)
    IN  /\ sd.resultCount = count
        /\ sd.mean * count = total
        /\ sd.sqDiff = Total([i \in 1 .. count |-> (results[i] - sd.mean) * (results[i] - sd.mean)])

\* Few times can be called too slow, or fast: of the times counted, less than
\* one in 1 + nSDLow^2 is as long as one that is too slow, and at most one in
\* 1 + nSDHigh^2 is shorter than one that is fast.
VerdictsAreOutliers ==
    results # <<>> =>
        LET time == Last(results)
            status == Status(sd, time)
            longer == {i \in DOMAIN Counted : Counted[i] >= time}
            shorter == {i \in DOMAIN Counted : Counted[i] < time}
        IN  /\ status = "TOOSLOW" =>
                 (1 + nSDLow * nSDLow) * Cardinality(longer) < Len(Counted)
            /\ status = "FAST" =>
                 (1 + nSDHigh * nSDHigh) * Cardinality(shorter) <= Len(Counted)

=============================================================================
