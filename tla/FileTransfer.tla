----------------------------- MODULE FileTransfer -----------------------------
(***************************************************************************)
(* The transfer of the algorithm's files from the server                   *)
(* (Server/FileSend.cpp) to the clients (Client/FileReceive.cpp).  A       *)
(* client asks for the list of files; unless it has them all it asks for   *)
(* the files, and one thread of the server sends them to one client after  *)
(* another.  A connection may break at any time, and a client may come     *)
(* back, on a new connection and with what it has on its disk.             *)
(*                                                                         *)
(* A message that is under way when its connection breaks is lost.  A      *)
(* block of a file is [from, len] of file f; the receiver is not told f.   *)
(***************************************************************************)
EXTENDS Sequences, Integers, FiniteSets

CONSTANTS
    Clients,
    MAXCLIENTS,    \* connections at a time, and the capacity of clientQueue
    Breakable,     \* clients whose connection may break
    MaxSessions,   \* bound: connections a client makes
    NFiles,        \* files of the algorithm
    FileBytes,     \* their sizes when the server made the list
    ActualBytes,   \* functions: the sizes they may have by the time they are sent
    OldBytes,      \* sizes of the version a client may have from before
    BlockBytes,    \* maxBuffSize - MSG_OFFSET
    SizeModulus,   \* bound: a file size is a number below this; 2^64 in the code
    MaxUnderWay,   \* bound: messages to a client on their way at a time
    ExitAllowed    \* whether the operator may end the server

Files == 1..NFiles

ASSUME FilesAssumption ==
    /\ NFiles \in Nat \ {0} /\ BlockBytes \in Nat \ {0}
    /\ FileBytes \in [Files -> Nat] /\ OldBytes \in [Files -> Nat]
    /\ ActualBytes \subseteq [Files -> Nat]
    /\ SizeModulus \in Nat
    /\ \A f \in Files : FileBytes[f] < SizeModulus
                       /\ \A a \in ActualBytes : a[f] < SizeModulus
ASSUME ServerAssumption ==
    /\ MAXCLIENTS \in Nat \ {0} /\ MaxSessions \in Nat /\ MaxUnderWay \in Nat \ {0}
    /\ Breakable \subseteq Clients /\ ExitAllowed \in BOOLEAN

Lesser(a, b) == IF a <= b THEN a ELSE b

\* Mutated form: a signed size.
CountDown_Signed(size, n) == size - n

\* What is left of a file after n bytes: sizes are unsigned.
CountDown(size, n) == (size - n) % SizeModulus

VARIABLES
    up,            \* per client: is it connected?
    session,       \* per client: the number of its connection, a ClientData each
    toServer,      \* per client: MSG_FILETRANSFER_LIST and _SEND on their way
    toClient,      \* per client: the list, the blocks and _ABORTED on their way
    cpc,           \* per client: "off", "asked", "receiving" or "ready"
    disk,          \* per client and file: its date and bytes
    curFile,       \* per client: FileReceive::curFile, or 0
    left,          \* per client: curFile->size, what is missing of it
    at,            \* per client: the position of FileReceive::file
    clientQueue,   \* FileSend: connections that asked for the files
    exiting,       \* FileSend: threadState is EXITING
    spc,           \* FileSend: where SendThread is
    sClient, sFile, sSize, sAt,   \* its clint, it, size, and position in the file
    actual,        \* what the files of the server hold, in bytes
    servAlive,     \* the TCP server has not been destroyed
    mpc,           \* the main thread: "prompt", "destroyed", "stopping", "stopped"
    fault          \* how the process died, or "none"

netVars    == <<up, session, toServer, toClient>>
clientVars == <<cpc, disk, curFile, left, at>>
sendVars   == <<spc, sClient, sFile, sSize, sAt>>
mainVars   == <<exiting, servAlive, mpc>>
vars == <<netVars, clientVars, clientQueue, sendVars, mainVars, actual, fault>>

-----------------------------------------------------------------------------
(* Files and messages *)

\* What the list promises: byte o of file f.
Content(f) == [o \in 1 .. FileBytes[f] |-> <<f, o>>]
Old == <<0, 0>>

\* dateModified as the list says, another date, or no such file.
OnDisk == [date : {"listed", "other", "absent"}, bytes : Seq({Old} \cup (Files \X Nat))]
Absent == [date |-> "absent", bytes |-> <<>>]

\* What a client may have from before: nothing, an old version, or the files.
Before == {[f \in Files |-> Absent],
           [f \in Files |-> [date |-> "other", bytes |-> [o \in 1 .. OldBytes[f] |-> Old]]],
           [f \in Files |-> [date |-> "listed", bytes |-> Content(f)]]}

LIST == [type |-> "LIST", file |-> 0, from |-> 0, len |-> 0]
ABORTED == [type |-> "ABORTED", file |-> 0, from |-> 0, len |-> 0]
BLOCK(f, from, len) == [type |-> "SEND", file |-> f, from |-> from, len |-> len]

Init ==
    /\ up = [c \in Clients |-> FALSE]
    /\ session = [c \in Clients |-> 0]
    /\ toServer = [c \in Clients |-> <<>>]
    /\ toClient = [c \in Clients |-> <<>>]
    /\ cpc = [c \in Clients |-> "off"]
    /\ disk \in [Clients -> Before]
    /\ curFile = [c \in Clients |-> 0]
    /\ left = [c \in Clients |-> 0]
    /\ at = [c \in Clients |-> 0]
    /\ clientQueue = <<>>
    /\ exiting = FALSE
    /\ actual \in ActualBytes
    /\ spc = "wait" /\ sClient = <<>> /\ sFile = 0 /\ sSize = 0 /\ sAt = 0
    /\ servAlive = TRUE
    /\ mpc = "prompt"
    /\ fault = "none"

Running == fault = "none" /\ mpc # "stopped"

-----------------------------------------------------------------------------
(* Connections *)

\* Connect and RecvServData: the client asks for the list of files.
Connect(c) ==
    /\ servAlive
    /\ ~up[c] /\ session[c] < MaxSessions
    /\ Cardinality({d \in Clients : up[d]}) < MAXCLIENTS
    /\ up' = [up EXCEPT ![c] = TRUE]
    /\ session' = [session EXCEPT ![c] = @ + 1]
    /\ toServer' = [toServer EXCEPT ![c] = <<"LIST">>]
    /\ cpc' = [cpc EXCEPT ![c] = "asked"]
    /\ UNCHANGED <<toClient, disk, curFile, left, at, clientQueue, sendVars, mainVars,
                   fault>>

\* The connection of a client breaks, the client leaves, or it is restarted.
Break(c) ==
    /\ c \in Breakable /\ up[c]
    /\ up' = [up EXCEPT ![c] = FALSE]
    /\ toServer' = [toServer EXCEPT ![c] = <<>>]
    /\ toClient' = [toClient EXCEPT ![c] = <<>>]
    /\ cpc' = [cpc EXCEPT ![c] = "off"]
    /\ UNCHANGED <<session, disk, curFile, left, at, clientQueue, sendVars, mainVars,
                   fault>>

-----------------------------------------------------------------------------
(* The server's message handler *)

Request(c, message) ==
    /\ servAlive /\ up[c]
    /\ toServer[c] # <<>> /\ Head(toServer[c]) = message
    /\ toServer' = [toServer EXCEPT ![c] = Tail(@)]

\* SendFileList
HandleList(c) ==
    /\ Request(c, "LIST")
    /\ toClient' = [toClient EXCEPT ![c] = Append(@, LIST)]
    /\ UNCHANGED <<up, session, clientVars, clientQueue, sendVars, mainVars, fault>>

\* QueueSend: the result of push is ignored.
HandleSend(c) ==
    /\ Request(c, "SEND")
    /\ clientQueue' = IF Len(clientQueue) < MAXCLIENTS
                      THEN Append(clientQueue, <<c, session[c]>>) ELSE clientQueue
    /\ UNCHANGED <<up, session, toClient, clientVars, sendVars, mainVars, fault>>

-----------------------------------------------------------------------------
(* The client *)

Delivered(c, type) ==
    /\ up[c]
    /\ toClient[c] # <<>> /\ Head(toClient[c]).type = type
    /\ toClient' = [toClient EXCEPT ![c] = Tail(@)]

\* file.Open(..., GENERIC_WRITE) makes a file that is not there, and leaves what
\* is in one that is.
Opened(f) == IF f.date = "absent" THEN [f EXCEPT !.date = "other"] ELSE f
Dated(f)  == [Opened(f) EXCEPT !.date = "listed"]

\* The bytes of a file after a block was written at a position.
Overwritten(bytes, pos, block) ==
    [i \in 1 .. (IF pos + block.len > Len(bytes) THEN pos + block.len ELSE Len(bytes)) |->
        IF i \in (pos + 1) .. (pos + block.len)
        THEN <<block.file, block.from + i - pos>> ELSE bytes[i]]

\* Mutated form: the date is set when the file is opened.
Received_DateFirst(d, f, g) ==
    [h \in Files |-> IF h \in f .. g THEN Dated(d[h]) ELSE d[h]]

\* The disk d when the files from f on, before g, were found to be complete
\* and g was opened.
Received(d, f, g) ==
    [h \in Files |-> IF h \in f .. (g - 1) THEN Dated(d[h])
                     ELSE IF h = g THEN Opened(d[h]) ELSE d[h]]

\* The first file from f on that is not empty, or none: NFiles + 1.
NextFile(f) ==
    CHOOSE g \in f .. (NFiles + 1) :
        /\ \A h \in f .. (g - 1) : FileBytes[h] = 0
        /\ g <= NFiles => FileBytes[g] > 0

\* AdvanceFile, when the files before g are complete: g is current, or this was
\* the last one and the client signals that it is ready.
AdvanceTo(c, d, f, g) ==
    /\ disk' = [disk EXCEPT ![c] = Received(d, f, g)]
    /\ cpc' = [cpc EXCEPT ![c] = IF g > NFiles THEN "ready" ELSE "receiving"]
    /\ curFile' = [curFile EXCEPT ![c] = IF g > NFiles THEN 0 ELSE g]
    /\ left' = [left EXCEPT ![c] = IF g > NFiles THEN 0 ELSE FileBytes[g]]
    /\ at' = [at EXCEPT ![c] = 0]

\* Mutated form: only the names are compared.
HaveFiles_ByName(c) == \A f \in Files : disk[c][f].date # "absent"

\* A file is found if there is one of its name and date.
HaveFiles(c) == \A f \in Files : disk[c][f].date = "listed"

\* MSG_FILETRANSFER_LIST: HaveFileList.  A client that has all is ready, any
\* other starts with the first file and asks for all.
ClientList(c) ==
    /\ Delivered(c, "LIST")
    /\ \/ /\ HaveFiles(c)
          /\ cpc' = [cpc EXCEPT ![c] = "ready"]
          /\ UNCHANGED <<disk, curFile, left, at, toServer>>
       \/ /\ ~HaveFiles(c)
          /\ AdvanceTo(c, disk[c], 1, NextFile(1))
          /\ toServer' = IF NextFile(1) > NFiles THEN toServer
                         ELSE [toServer EXCEPT ![c] = Append(@, "SEND")]
    /\ UNCHANGED <<up, session, clientQueue, sendVars, mainVars, fault>>

\* MSG_FILETRANSFER_SEND: ReadFiles writes the block to the current file.  With
\* no current file, curFile is a stale iterator.
ClientBlock(c) ==
    LET b == Head(toClient[c])
        f == curFile[c]
        d == [disk[c] EXCEPT ![f] = [date |-> "other", bytes |-> Overwritten(@.bytes, at[c], b)]]
    IN
    /\ Delivered(c, "SEND")
    /\ \/ /\ f = 0
          /\ fault' = "staleFile"
          /\ UNCHANGED clientVars
       \/ /\ f # 0 /\ left[c] = b.len
          /\ AdvanceTo(c, [d EXCEPT ![f] = Dated(@)], f + 1, NextFile(f + 1))
          /\ UNCHANGED fault
       \/ /\ f # 0 /\ left[c] # b.len
          /\ disk' = [disk EXCEPT ![c] = d]
          /\ left' = [left EXCEPT ![c] = CountDown(@, b.len)]
          /\ at' = [at EXCEPT ![c] = @ + b.len]
          /\ UNCHANGED <<cpc, curFile, fault>>
    /\ UNCHANGED <<up, session, toServer, clientQueue, sendVars, mainVars>>

\* MSG_FILETRANSFER_ABORTED is only printed.
ClientAborted(c) ==
    /\ Delivered(c, "ABORTED")
    /\ UNCHANGED <<up, session, toServer, clientVars, clientQueue, sendVars, mainVars,
                   fault>>

-----------------------------------------------------------------------------
(* SendThread *)

\* Mutated forms: the thread leaves when it has nothing to do, or never.
SendWait_Leaves ==
    /\ spc = "wait"
    /\ spc' = IF exiting \/ clientQueue = <<>> THEN "done" ELSE "pop"
    /\ UNCHANGED <<netVars, clientVars, clientQueue, sClient, sFile, sSize, sAt, mainVars,
                   fault>>
SendWait_Stays ==
    /\ spc = "wait"
    /\ spc' = "pop"
    /\ UNCHANGED <<netVars, clientVars, clientQueue, sClient, sFile, sSize, sAt, mainVars,
                   fault>>

\* The timer fires: leave if StopSend was called.
SendWait ==
    /\ spc = "wait"
    /\ spc' = IF exiting THEN "done" ELSE "pop"
    /\ UNCHANGED <<netVars, clientVars, clientQueue, sClient, sFile, sSize, sAt, mainVars,
                   fault>>

\* clientQueue.pop
SendPop ==
    /\ spc = "pop"
    /\ \/ /\ clientQueue = <<>>
          /\ spc' = "wait"
          /\ UNCHANGED <<clientQueue, sClient, sFile>>
       \/ /\ clientQueue # <<>>
          /\ clientQueue' = Tail(clientQueue)
          /\ sClient' = Head(clientQueue)
          /\ sFile' = 1
          /\ spc' = "open"
    /\ UNCHANGED <<netVars, clientVars, sSize, sAt, mainVars, fault>>

\* The next file of the list is opened, or all were sent.
SendOpen ==
    /\ spc = "open"
    /\ \/ /\ sFile <= NFiles
          /\ sSize' = FileBytes[sFile]
          /\ sAt' = 0
          /\ spc' = "send"
          /\ UNCHANGED <<sClient, sFile>>
       \/ /\ sFile > NFiles
          /\ sClient' = <<>> /\ sFile' = 0 /\ sSize' = 0 /\ sAt' = 0
          /\ spc' = "pop"
    /\ UNCHANGED <<netVars, clientVars, clientQueue, mainVars, fault>>

\* Mutated form: it reaches whatever connection the client has now.
Deliver_AnySession(message) ==
    toClient' = [c \in Clients |-> IF up[c] /\ sClient[1] = c
                                   THEN Append(toClient[c], message) ELSE toClient[c]]

\* A message to the connection sClient: lost if the connection is gone.
Deliver(message) ==
    toClient' = [c \in Clients |-> IF up[c] /\ sClient = <<c, session[c]>>
                                   THEN Append(toClient[c], message) ELSE toClient[c]]

\* Whatever the thread does with the TCP server, it must still be there.
UseServer(A) == \/ servAlive /\ A /\ UNCHANGED fault
                \/ ~servAlive /\ fault' = "useAfterDestroy" /\ UNCHANGED <<toClient, sendVars>>

\* file.Read: the next bytes of the file, as many as a message holds; none at its
\* end.
BlockRead == BLOCK(sFile, sAt, Lesser(BlockBytes, actual[sFile] - sAt))

\* One round of the loop over a file: read a block and send it, whether or not
\* the client is still there.  A file that is shorter than listed is read at its
\* end for ever; one that is longer may take the size below 0.
SendBlock ==
    LET b == BlockRead IN
    /\ spc = "send" /\ ~exiting /\ sSize > 0
    /\ Len(toClient[sClient[1]]) < MaxUnderWay
    /\ UseServer(/\ Deliver(b)
                 /\ sSize' = CountDown(sSize, b.len)
                 /\ sAt' = sAt + b.len
                 /\ UNCHANGED <<spc, sClient, sFile>>)
    /\ UNCHANGED <<up, session, toServer, clientVars, clientQueue, mainVars>>

\* The loop ended: with the file, or because StopSend was called.
SendFileEnd ==
    /\ spc = "send" /\ (exiting \/ sSize = 0)
    /\ spc' = IF exiting THEN "abort" ELSE "open"
    /\ sFile' = IF exiting THEN sFile ELSE sFile + 1
    /\ UNCHANGED <<netVars, clientVars, clientQueue, sClient, sSize, sAt, mainVars, fault>>

\* MSG_FILETRANSFER_ABORTED
SendAbort ==
    /\ spc = "abort"
    /\ UseServer(/\ Deliver(ABORTED)
                 /\ spc' = "pop"
                 /\ sClient' = <<>> /\ sFile' = 0 /\ sSize' = 0 /\ sAt' = 0)
    /\ UNCHANGED <<up, session, toServer, clientVars, clientQueue, mainVars>>

-----------------------------------------------------------------------------
(* The end of the program: Server::Shutdown, later ~Server and ~FileSend *)

\* DestroyServer closes every connection and frees the TCP server.
Exit ==
    /\ ExitAllowed
    /\ mpc = "prompt"
    /\ mpc' = "destroyed"
    /\ servAlive' = FALSE
    /\ up' = [c \in Clients |-> FALSE]
    /\ toServer' = [c \in Clients |-> <<>>]
    /\ toClient' = [c \in Clients |-> <<>>]
    /\ cpc' = [c \in Clients |-> "off"]
    /\ UNCHANGED <<session, disk, curFile, left, at, clientQueue, sendVars, exiting, fault>>

\* StopSend: first the state is set, then the thread joined.
StopSend ==
    /\ mpc = "destroyed"
    /\ exiting' = TRUE
    /\ mpc' = "stopping"
    /\ UNCHANGED <<netVars, clientVars, clientQueue, sendVars, servAlive, fault>>

StopSendJoin ==
    /\ mpc = "stopping"
    /\ spc = "done"
    /\ mpc' = "stopped"
    /\ UNCHANGED <<netVars, clientVars, clientQueue, sendVars, exiting, servAlive, fault>>

-----------------------------------------------------------------------------

Step(A) == Running /\ A /\ UNCHANGED actual
Client(c) == Step(ClientList(c) \/ ClientBlock(c) \/ ClientAborted(c))
Handler(c) == Step(HandleList(c) \/ HandleSend(c))
Link(c) == Step(Connect(c) \/ Break(c))
SendThread == Step(\/ SendWait \/ SendPop \/ SendOpen
                   \/ SendBlock \/ SendFileEnd \/ SendAbort)
Stop == Step(StopSend \/ StopSendJoin)
Main == Step(Exit)

Next ==
    \/ \E c \in Clients : Client(c) \/ Handler(c) \/ Link(c)
    \/ SendThread
    \/ Stop \/ Main

Spec == Init /\ [][Next]_vars

\* The threads are scheduled and messages delivered.  No client has to connect
\* and no operator to end the server.
Fairness ==
    /\ \A c \in Clients : WF_vars(Client(c)) /\ WF_vars(Handler(c))
    /\ WF_vars(SendThread)
    /\ WF_vars(Stop)

FairSpec == Spec /\ Fairness

-----------------------------------------------------------------------------
(* Properties *)

\* Every variable has its type.
TypeOK ==
    /\ up \in [Clients -> BOOLEAN]
    /\ session \in [Clients -> 0 .. MaxSessions]
    /\ \A c \in Clients : toServer[c] \in Seq({"LIST", "SEND"})
    /\ \A c \in Clients : \A k \in DOMAIN toClient[c] :
         toClient[c][k] \in [type : {"LIST", "SEND", "ABORTED"}, file : 0 .. NFiles,
                             from : Nat, len : Nat]
    /\ cpc \in [Clients -> {"off", "asked", "receiving", "ready"}]
    /\ disk \in [Clients -> [Files -> OnDisk]]
    /\ curFile \in [Clients -> 0 .. NFiles]
    /\ left \in [Clients -> 0 .. (SizeModulus - 1)] /\ at \in [Clients -> Nat]
    /\ clientQueue \in Seq(Clients \X Nat)
    /\ exiting \in BOOLEAN /\ servAlive \in BOOLEAN
    /\ spc \in {"wait", "pop", "open", "send", "abort", "done"}
    /\ sClient \in {<<>>} \cup (Clients \X Nat)
    /\ sFile \in 0 .. (NFiles + 1) /\ sSize \in 0 .. (SizeModulus - 1) /\ sAt \in Nat
    /\ actual \in ActualBytes
    /\ mpc \in {"prompt", "destroyed", "stopping", "stopped"}
    /\ fault \in {"none", "staleFile", "useAfterDestroy"}

\* The bytes the list promises, in their places.  A longer old version keeps its
\* end: File::Open does not truncate (FileReceive.cpp:67).
Whole(f, bytes) ==
    /\ Len(bytes) \in {FileBytes[f]} \cup {n \in {OldBytes[f]} : n > FileBytes[f]}
    /\ SubSeq(bytes, 1, FileBytes[f]) = Content(f)

\* A client that signals ready ("Algorithm received; ready to process...",
\* Client.cpp:83, or "Already have algorithm") has every file, whole and dated,
\* also when a file of the server is not as long as listed.
ReadyHasFiles ==
    \A c \in Clients : cpc[c] = "ready" =>
        \A f \in Files : disk[c][f].date = "listed" /\ Whole(f, disk[c][f].bytes)

\* A file that has the date of the list is whole: when a transfer breaks at any
\* point, the client does not take what it has for the file when it comes back;
\* nor does it take what it got of a file that is too short or too long.
DatedIsWhole ==
    \A c \in Clients, f \in Files :
        disk[c][f].date = "listed" => Whole(f, disk[c][f].bytes)

\* No block reaches a client that has no file open, also when the sending thread
\* still sends to an earlier connection of the client.
NoStaleFile == fault # "staleFile"

\* A client that asks for the files gets them, unless its connection breaks, the
\* server ends or a file is not as long as listed.  (The thread never gets past
\* a file that is shorter, FileSend.cpp:86.)
Transferring(c) == cpc[c] \in {"asked", "receiving"}
ServedOrGone ==
    \A c \in Clients :
        Transferring(c) /\ actual = FileBytes ~> ~Transferring(c) \/ ~Running

\* StopSend does not wait for ever for the sending thread, also when it is at a
\* file it can never finish.
StopEnds == (mpc = "stopping") ~> ~Running

=============================================================================
