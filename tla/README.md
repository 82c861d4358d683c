# Parallel co-processing: a TLA+ model of the server, its clients and their work

The program spreads the processing of one large file over many machines
(`src/README.md`). A *server* cuts `Data.dat` into chunks, sends each chunk to a
free *client*, writes the results to `NewData.dat` as they come in, and, once it
has them all, reorders the file by chunk index. A *client* receives the
algorithm's DLLs from the server, says that it is ready, and answers every chunk
with its result. The networking is an external library (CNLIB), of which the
repository holds headers and binaries only.

This directory models that program in TLA+, checks the model with TLC and proves
part of it with TLAPS.

## 1. Inventory

| Component | State it keeps | Operations | What makes it correct |
|---|---|---|---|
| Work distribution (`Server/Server.cpp`, `Common/ThreadPool.h`) | `workMap`, `oldWork`, `clntQueue`, `tempFileMap`, `reorderCounter`, `threadInitialized`, `exitThread`, two worker threads | `WorkThread`, `GiveNewWork`, `GiveOldWork`, `OnCompletion`, `MsgHandler`, `DisconnectHandler`, `Shutdown` | each chunk is in one place; each is written once and under its own index; completion is announced when everything was written; work of lost clients is processed again; shutdown ends |
| Lock-free queue (`Common/boost/lockfree/queue.hpp`, `detail/freelist.hpp`) | head, tail, an array of nodes, a free list in it | `push`, `pop` | a bounded first-in-first-out queue, whoever stops where |
| Client queue (`Server/ClientQueue.cpp`) | two lock-free queues of fixed capacity; the client's `TimePoint` | `AddClient`, `RemoveClient`, `EvaluateClient`, `FindClientForWork` | a client is queued once, and not while it works |
| Client work map (`Server/ClientWorkMap.cpp`) | map from clients to `WorkInfo`, one mutex | `Add`, `Change`, `Remove`, `GetClientWork`, `Empty` | no entry is overwritten while it is outstanding |
| Input reader (`ServerDataInterpreter/Data.cpp`) | file handle position, `cursorPos`, `curIndex` | `LoadData`, `GetClientWork`, `GetClientWorkPrev` | the records tile the file; which bytes a chunk is filled from is known, also after reads of old chunks (they are not always the record's, items 4 and 9 of section 4) |
| Performance model (`Server/PerformanceModel.cpp`, `StandardDeviation.cpp`) | mean, sum of squared differences, the current batch | `EvaluateTime`, `Calculate` | the batched mean and deviation equal those of all times |
| Output file (`Common/FileMapping*.h`) | read and write windows of a mapped file, set of index entries | `Write`, `Read`, `ReorderFileData`, `Close` | bytes land at the recorded position; the reordered file is the results in index order, if no result comes in meanwhile |
| Verification (`Server::VerifyNewData`) | two files, two buffers | one function | true exactly if the new file is the algorithm applied to the old one |
| File transfer (`Server/FileSend.cpp`, `Client/FileReceive.cpp`) | queue of clients, `threadState`; on the client the list of files, the current file and what it lacks | `SendFileList`, `QueueSend`, `SendThread`, `StopSend`; `HaveFileList`, `ReadFiles` | files arrive whole and in order; every queued client is answered; the thread stops |
| Client (`Client/Client.cpp`) | `nClients` connections, one `FileReceive` | `Connect`, `RecvServData`, `SignalReady`, `MsgHandler`, `Disconnect` | it signals ready once it has the algorithm |
| Memory pools (`Common/CNLIB/MemPool.h`, `Common/PoolAlloc.cpp`) | free list threaded through nodes | `alloc`, `dealloc`, `Grow` | no element is handed out twice |
| Events (`Common/Event.cpp`) | counters behind a mutex | `Set`, `Wait`, `Reset` | not used by any program here |
| Command line (`Common/CmdParser.cpp`, `CmdHandler.h`, `ParamParser.cpp`) | required parameters and their `found` flags | `Process`, `Parse` | a command runs only with its required parameters |
| Timers (`Common/WaitableTimer.cpp`) | a handle | `Set`, `Wait` | wakes a worker now and then |
| Algorithm (`Algorithm/Algorithm.cpp`) | none | `AlgorithmInOut`, a word of 4 bytes at a time | each word of the input becomes the word of the output |
| Data generator (`DataGen`) | none | writes one file | out of scope |

How they interact: a worker thread pops a client from the client queue, pops a
stored `WorkInfo` from `oldWork` or reads a new chunk under `workLock`, enters it
into the work map, stamps the client's `TimePoint` and sends. The library calls
`MsgHandler` on one of its own threads when the client answers; the handler takes
the entry out of the map, writes the result under `fileMapLock` and queues the
client again. When a connection ends, `DisconnectHandler` frees the `TimePoint` and
moves the client's entry, if any, to `oldWork`. A worker that finds no more input
waits for the map and `oldWork` to be empty; the first one reorders the output.
No lock spans two of these steps.

Hard behaviours, in that light: the windows between the steps, in which a chunk is
in none of the shared structures; a disconnection between any two of them; clients
that are still queued when they are gone; the waiting of the last workers; a shared
file position moved by two kinds of read; capacity limits whose failures are
ignored; the late result of a client while the output is being reordered. The list
under `hazards` in PROJECT.json has each at its line.

## 2. Modules

| Module | Models |
|---|---|
| `Data` | the reader as operators on a record: file handle, cursor, index |
| `DataReader` | the reader on its own: new chunks and chunks read again in any order, and the bytes read for each |
| `ClientWorkMap` | the map's methods as operators on a function |
| `ClientQueue` | what a queue may be after a `push`, refused or not, and the verdicts of the performance model |
| `Server` | the work distribution: workers, handlers, clients, connections, main thread |
| `WorkPool` | the abstract specification of `Server`: what is promised about each chunk |
| `MCServer` | `Server` for TLC: symmetry of the clients |
| `LockFreeQueue` | `push` and `pop` of the queue every other module takes as one step, one access to shared memory at a time |
| `BoundedQueue` | the abstract specification of `LockFreeQueue`: what a queue promises to the calls of several threads |
| `ClientTimes` | a client's way through `ClientQueue.cpp` with its `TimePoint`, the pool it comes from and the times measured |
| `MemPool` | the free list of `MemPool.h` as operators on a record |
| `PerformanceModel` | the batched mean and deviation, and the verdicts, as operators on a record |
| `MCClientTimes` | `ClientTimes` for TLC: symmetry of the clients and the workers, the unit of its times |
| `ChunkRW` | the write window of a mapped file as operators on a record |
| `OutputFile` | `NewData.dat`: `Write` under `fileMapLock` and `ReorderFileData` without it, side by side; the index set |
| `DataPath` | the bytes from `Data.dat` through the clients' algorithm to `NewData.dat` and back through `VerifyNewData` |
| `MCDataPath` | `DataPath` for TLC: two inputs of bits, an algorithm on words of two |
| `FileTransfer` | `FileSend` on the server, `FileReceive` on the clients, and what is on their disks |
| `MCFileTransfer` | `FileTransfer` for TLC: three files, one of them empty, one of any of three lengths |
| `Commands` | the command lines of both programs: parameters, flags, defaults |
| `ServerProofs` | theorems about `Server`: types, chunks, clients |
| `ServerPoolProofs` | on top of them: losses, `WorkPool`, and what holds while no client disconnects |
| `DataReaderProofs`, `DataPathProofs` | theorems about the reader; about the output file, and from the input to the verified output |
| `FileTransferProofs`, `ClientTimesProofs`, `LockFreeQueueProofs`, `CommandsProofs` | theorems about the module each is named for |

`Server` extends `ClientWorkMap` (which extends `Data`) and `ClientQueue`, and
instantiates `WorkPool` under the mapping `ChunkStatus`. `LockFreeQueue` instantiates
`BoundedQueue`; its users take `push` and `pop` as one step each. A push that they make
may be refused as soon as the elements and the nodes that other calls may hold fill the
capacity (`Push` in `ClientQueue`), as `BoundedQueue` allows. Which calls those are is
taken from where the other threads are (`QueueCalls`, `OldWorkCalls`): a worker that
has popped and not yet gone on counts, also when it popped from the other queue, and so
does a handler that is about to push. This is a little more than the code can refuse.
`ClientTimes` extends
`ClientQueue`, `MemPool` and `PerformanceModel`: it has what `Server` abstracts from,
which `TimePoint` a client has and which verdict its times lead to, and abstracts from
what `Server` has, the chunks. `OutputFile` extends `ChunkRW`, and `DataPath` extends
`OutputFile` and instantiates `DataReader`: the same reader and the same output as in
`Server`, with bytes. `Server` sees the output as the log of its `Write` calls
(`tempFile`) and whether it is open (`mapState`); `OutputFile` takes these calls apart,
and lets them overlap with the reordering as `Server` shows that they may.
`FileTransfer` is before all that: a client is `ClientReady` in `Server` when it is
`ready` there. `Commands` stands alone.

### State and actions of `Server`

| Variable | In the code |
|---|---|
| `link`, `inbox`, `outbox` | the connection, and the messages under way in each direction (library) |
| `obj` | whether `clint->obj`, the client's `TimePoint`, is allocated |
| `fastClients`, `otherClients` | `ClientQueue` |
| `workMap`, `oldWork`, `data` | the same names; `data` is the singleton of `DataInterp` |
| `tempFile`, `mapState` | the calls of `tempFileMap.Write` so far; open, being reordered, or closed |
| `wpc`, `wClient`, `wWork`, `wBlock` | a worker's place in the code, `clint`, `wi`, what `sndBuff` holds |
| `hpc`, `hWork`, `hBlock` | a handler's place, its `wi`, the message it handles |
| `reorderCounter`, `threadInitialized`, `exitThread` | the same names |
| `mpc`, `joinNext` | the main thread: at the prompt, joining, stopped; which thread it joins |
| `fault` | how the process died: through a null `TimePoint`, a write into a closed mapping, the join of a thread that never started |

One action is one section under one lock, one atomic or lock-free operation, or one
call of the library: that is the grain at which another thread can come between.
`GiveNewWork` is `NewRead`, `NewAssign`, `NewStamp`, `NewSend` and, if sending
failed, `NewRemove`; or `DrainMap`, `DrainOld`, `Finish`, `Reorder`, `ReorderEnd`.
`GiveOldWork` is `OldRead` ... `OldRemove`. `MSG_WORK_COMPLETE` is `HandleComplete`,
`HandleTake`, `HandleWrite`, `HandleEval`; `MSG_READY_INIT` is `HandleReady`,
`HandleReadyInit`, `HandleStart`; `DisconnectHandler` is `HandleDisconnect`,
`HandleDisconnectTake`, `HandleDisconnectPush`. Operators whose comment says
"mutated form" are not part of the model; each is a plausible bug, used to confirm
that a property notices it.

### State and actions of `OutputFile`

| Variable | In the code |
|---|---|
| `newFile`, `tempFile` | the bytes of `NewData.dat` and `TempData.dat` |
| `writer`, `tempWriter` | `writeBeg`, `writeCur`, `writePos` of the two mappings, and where the view was really mapped |
| `readPos`, `readAt` | the read view of `NewData.dat` likewise |
| `indices` | the set of `IndexEntry` |
| `wpc`, `job` | the handler in `Write` (one at a time, by `fileMapLock`): its place; the result being written |
| `rpc`, `last`, `copy` | the worker in `ReorderFileData`: its place; the entry its iteration has come to; what is left of it to copy |
| `calls`, `late` | history: what `Write` was called with and where it began; whether a `Write` and `ReorderFileData` overlapped, or it came later |
| `fault` | a write or a copy used memory outside of its view |

`BeginWrite`, `MapFirstView` and one `WriteRound` per round of the loop are
`FileMappingIndexed::Write`; `BeginReorder`, `BeginCopy` and `CopyRound` for each entry,
and `EndReorder` are `ReorderFileData`. Each of the two has a program counter of its own,
and neither waits for the other: `OnCompletion` does not take `fileMapLock`
(`Server.cpp:177`), and results still come in (item 1 of section 4). Where they touch the
same memory, the one that reads may find anything the other could have left there:

- the length of `TempData.dat` while the write view is being mapped anew
  (`WritePosSeen`): `GetWritePos` reads three words that `RemapWrite` is storing;
- the next entry while one is being inserted (`NextEntry`): the nodes of the set are
  being linked, so that the iteration may come to any entry, again or not at all;
- the bytes of the round that is being copied in (`NewFileSeen`): any part of them;
- a `Write` behind the reordering goes through pointers that `Close` unmapped and did not
  reset: `fault`, as it is where a copy does not fit into a `TempData.dat` that was made
  too short.

A byte is the pair of its chunk and its offset in the result.

### State and actions of `DataPath`

`data`, `issued`, `blocks` and `again` are `DataReader`'s: the reader, the records of the
chunks, the part of the file each was filled from, and how many bytes were read again in
between. `content` is what `Data.dat` holds, one of `Inputs`. `result` is what the client
of each chunk returned: the algorithm applied to the words of what it was sent
(`AlgorithmInOut`, which is `Algorithm.cpp` but for what becomes of a word). Two things
can be other than the chunk's own bytes. What a client was sent is the block that was
read, which for a resent chunk is another part of the file, with the rest of the buffer
where the read was short. And the bytes behind the last whole word of a chunk are not
written by the algorithm, so that they are what the client's buffer held: any values.

`verdict`, `oldPos`, `newPos`, `oldBuff`, `tempBuff` and `newBuff` are `VerifyNewData`'s
locals and file positions; one step is one round of its loop.

### State and actions of `ClientTimes`

| Variable | In the code |
|---|---|
| `timePool` | the `MemPool` of `TimePoint`s: its free list, next pointers and capacity |
| `obj`, `stampedFor` | `ClientData::obj`; for whom each `TimePoint` was last set (what its value stands for) |
| `fastClients`, `otherClients` | `ClientQueue` |
| `sd`, `results` | `perfModel.sd`; history: every time measured |
| `at`, `readies`, `working` | a client's connection, its ready signals, the chunks it has to answer |
| `picked`, `pointer` | a worker between `FindClientForWork` and the store through `clint->obj` |

A worker loads the pointer in one step and stores through it in another, and
`RemoveClient` frees in one and nulls in another.

### State and actions of `LockFreeQueue`

`head_`, `tail_`, `pool_`, `next` and `data` are the shared words; `local` holds a
thread's place and its local variables; `answer`, `calls` and `sawEmpty` record what
the calls returned. Every load, compare-and-swap and store of a word is an action. A
handle is an index and a tag (`tagged_index`); the tags of nodes that were never
initialized come from `Garbage`. A node's word links it in the queue or in the free
list, whichever it is in.

### State and actions of `Commands`

`found` and `value` are the flags and members of each command's parameters; `cmd`,
`args` and `outcome` the line being processed; `given` and `early` record what the line
gave and whether a line of the command ended early. `Process` is `CmdHandler::Process`
up to the first argument, `Accept`, `Reject`, `Crash` and `Stops` are one argument, and
`Check` is the end of `Parse` with the call of the command's function.

### State and actions of `FileTransfer`

| Variable | In the code |
|---|---|
| `up`, `session`, `toServer`, `toClient` | connections and their messages (library); each session is a `ClientData` |
| `disk` | the files in the client's directory: their dates and bytes |
| `cpc`, `curFile`, `left`, `at` | the client: waiting for the list, receiving, ready; `curFile`, `curFile->size`, the position of `file` |
| `clientQueue`, `exiting` | `FileSend::clientQueue`, `threadState` |
| `spc`, `sClient`, `sFile`, `sSize`, `sAt` | `SendThread`: its place, `clint`, `it`, `size`, the position of `file` |
| `actual` | how long the server's files really are, when they are sent |
| `mpc`, `servAlive` | the main thread between `DestroyServer` and the end of `StopSend` |

`HandleList` and `HandleSend` are the server's `TYPE_FILETRANSFER` case, `ClientList`
and `ClientBlock` the client's (`HaveFileList`, `ReadFiles` with all of
`AdvanceFile`), and `SendWait` ... `SendAbort` are `SendThread` with `SendFiles`.

### Assumptions about what is outside the repository

- The library calls the handlers of one client one after the other,
  `DisconnectHandler` last and once, and handlers of different clients
  concurrently. It delivers the messages of a connection in order, and may lose
  what is under way when a connection ends. Sending fails on a connection that is
  gone and may do either while it is going.
- Every connection is a `ClientData` of its own: an address is not reused.
- `File::MoveCursor` moves relative to the current position (`FILE_CURRENT`), as
  the library's binary does and as the signed arguments in `Data.cpp` require.
- A timer may fire at any time.
- `File::Open` for writing makes a file that is missing and leaves the bytes of one
  that is there, as the library's binary does (`OPEN_ALWAYS`).
- `upper_bound` of an index beyond every entry is `end()`. What `it->index` then reads
  is not determined: any value is allowed (`UpperBoundIndex`).
- The user issues `recvdata` once per connection in `Server` and `FileTransfer`.
  `ClientTimes` lets a client signal twice, as a second `recvdata` would.
- Memory is sequentially consistent, and `compare_exchange_weak` does not fail by
  itself, as on the x86 machines the program is built for.
- The algorithm takes each word by itself and leaves 0 as it is, like the logarithm in
  `Algorithm.cpp`, and the buffers of the verification hold whole words (4096 bytes); used
  by `DataPath` alone (`AlgorithmAssumption`).
- A word that one thread stores while another loads it is seen old or new, and bytes
  copied by one while another copies them are seen each for itself.

### What is abstracted

- In `Server` a buffer is the block of the file it was filled from; the algorithm is not
  applied, so a result is the block it was computed from.
- In `Server` the verdicts of `PerformanceModel` are nondeterministic: any client may
  come out fast or normal, and a client of `SlowClients` too slow. `ClientTimes` has
  the real ones, in exact numbers where the code has floats.
- `nReady` is left out: it is only decremented and nothing reads it.
- `MSG_READY_PROCESS` is left out: no client of the repository sends it.
- `ORDERED` is `true`, as in `DataInterp.h`.
- In `Server` the verification in `OnCompletion` is left out, as it changes nothing
  the workers read; `DataPath` has it. Printing the time taken is left out everywhere.
- Results are not larger than a view of the output (100 MB; a chunk is a message), so
  the branch of `Read` for more than a view does not occur.
- `Server` has a `Write` as one step. While `ReorderFileData` runs, which does not take
  `fileMapLock`, it may or may not bring the process down there, and after it does;
  `OutputFile` has the two step by step. In it the closing of both mappings with the
  replacement of the file is one step, and an iteration that meets a half-linked node
  finds an entry or the end.
- A node of a queue that a call holds is not in `Server` and `ClientTimes`; that a push may
  fail because of it is (section 2).

## 3. Runs

| Run | Instance | Question and answer |
|---|---|---|
| `fault_free` | 2 clients that stay, 2 workers, 2 chunks (the second is short), shutdown at any time, fairness; 39,760 states | Without disconnections every answer is expected, every result is filed under its own index, the `TimePoint` is there when needed, and the chunks follow the loss-free `WorkPool`. The job ends, one client alone finishes all of it, and a shutdown ends. |
| `faults` | 3 clients over 2 connections, any of which may break, leave or be kicked; 2 workers, 2 chunks; capacity 2; 1,216,207 states | A chunk is never in two places and never written twice; a client is never queued twice or given work while it has some; the output is reordered once; a chunk is lost only by a worker's `Remove`, or by a push that is refused because a worker still holds a node of `oldWork` for a client that left; the chunks follow the lossy `WorkPool`. |
| `client_queue` | 2 clients that may leave and may signal twice, one connection, 2 workers, times 12, 24 and 144 in batches of 2, 5 answers; 2,994,641 states | No two clients share a `TimePoint`, none is lost or free twice; a time is taken from when the client was given work, unless a worker that had taken up a client that is gone stored over it; the moments are those of all times counted; few times can be called too slow or fast. |
| `lock_free_queue` | 2 threads, one of which may stop anywhere for ever; 2 nodes and the dummy; 5 calls; fairness; 273,553 states | The queue implements `BoundedQueue`; a node is in the queue, in the free list or one thread's; the calls of the other thread return. |
| `data_path` | two inputs of 6 bytes in chunks of 2, any chunk read again, any result lost, written in any order, before, while or after the file is reordered; a view of the length of the file; words of 2 bytes, blocks of 4 to verify; 1,538,185 states | A chunk is filled from the bytes behind those of the one before it and those read again since, so some bytes are never issued, and a resent chunk from bytes behind its own; the handle stays in the file. A result lies where its entry says, also while the file is being reordered. If no result was late, reordering copies what the entries stand for, in their order; if one was, it may not, and only then can an access leave its view. An output that is right is found right, and one that is found right is right, but for bytes missing at its end. |
| `commands` | all commands of both programs, lines of up to 3 arguments; 415,859 states | A command is executed with the data of its own line; required parameters are looked for, except after a line that ended early. |
| `file_transfer` | 2 clients that break and come back once each, with none, an older, or all of 3 files (3, 0 and 1 bytes; 2 a block), the first of which is as long as listed, shorter or longer; exit at any time; fairness; 359,392 states | A ready client has every file as long as listed, and whole; a file with the listed date is whole, wherever a transfer broke; blocks for a connection that is gone reach no one else; every client is served while the files are as long as listed, and `StopSend` returns in any case. |
| `output_order` | 3 results written and reordered | *Violated*: `OutputInOrder`. |
| `premature_completion` | 2 clients that stay | *Violated*: `AllDataReceived`. The completion announcement comes while a result is outstanding. |
| `stored_work_stuck` | 3 clients, 1 of which may leave; 1 worker; fairness | *Violated*: `StoredWorkGivenOut`. |
| `resent_answer` | 2 clients that may leave, 1 worker | *Violated*: `AnswerExpected`. |
| `disconnect_crash` | the same | *Violated*: `NoNullStamp`. |

`CHECK_DEADLOCK FALSE` is set everywhere: the programs really stop, after `Shutdown`
or by a fault, and without a shutdown the server is idle once the file is processed (a
worker that returned from `GiveNewWork` with `false` is gone); the queue's threads and
the command lines stop at their bounds, or when the program exits.

Why the bounds are enough. Two workers are what `main.cpp` starts. Two clients are
the smallest number for which one worker is in the drain loop while another chunk
is outstanding; the third client of `faults` is the replacement of one that left,
so that stored work is given out again. Two chunks make the order of results
matter. Queues of capacity 2 with 3 clients over time put dead entries into the
queues and fill them; two chunks never make `oldWork` more than full there, so
`faults.cfg` was also run with `MAXCLIENTS = 1` (111,325 states), with the same result:
there a push of stored work is refused, in the one case that `LossOnlyByWorker` allows
(item 21). The counters (`curIndex`, `cursorPos`, `reorderCounter`) are bounded by the file and by the
workers, so no state constraint is used.

In `lock_free_queue` a queue of two elements has three nodes: one is the dummy, so a
node can be freed and used again while another thread still holds a pointer to it, which
takes two calls of one thread within one call of the other. The tags begin at 65535, so
that they wrap. In `client_queue` a batch has two times, so that five answers close two
batches and begin a third; one connection makes `TimePoint`s change hands, and a client
that left in the middle of being given work needs the second worker. The times are such
that the mean and the squared differences of full batches are whole numbers (`FineUnit(12)`), and
144 is an outlier of the others. In `data_path` three chunks are the fewest
for which one lies between two others, by index and by position, and blocks of 4 make
the verification read two blocks, of which the last is short. A result may be shorter than
a chunk, as after a short read, so that there are entries of two sizes. The input is zeros
and then ones, with the step inside a word or between words: in the first all words have
the same result, so that it shows `Repeats`, in the second a word and a block differ from
the one before. A chunk of 2 is one word, and a last byte behind the words of a result
occurs in results of 1; longer chunks with such bytes are covered by the theorems. The
run has one view because the program has: `DataGen` makes an input of 25 MB, and a view is
100 MB or the whole file. In `file_transfer` the files take two blocks, none and one, so that a block can be
short, an empty file lies between two others, and a connection can break inside a file;
the queue has room for every connection (see item 12 for what happens otherwise), sizes
wrap below zero at 8 and not at 2^64, and no more than three messages to a client are
under way. In `commands` three arguments are the fewest with which both
required parameters of `connect` are given and one is given again.

Fairness (`Fairness` in `Server`): each worker, each handler and a `Join` once begun
keep running (the scheduler), clients answer while they are connected (the algorithm
terminates), and some client comes to a server that has none; it is not assumed that
any other does. Nothing makes a connection break or an operator shut the server down.
Waiting loops (`Sleep`, timers) are actions that are enabled when their condition
holds, so weak fairness suffices. `FileTransfer` assumes the same of its threads and of
the delivery of messages, and nothing of connections and of the operator.
`LockFreeQueue` assumes that the threads outside `Stalled` keep running. There the number
of calls is finite: a call of the queue may be overtaken by others for ever, it is
lock-free and not wait-free, so `CallsReturn` says that a thread which stops does not
stop others.

## 4. Disagreements between the code and what it says

Found while modelling. Items 1, 2, 3, 5 and 6 are the `findings` of PROJECT.json, each
with a run that shows it; what the others say is in the model, or needs a change of the
instance that is given.

1. *Completion is announced too early* (`Server.cpp:138`). The drain loop looks at
   the map and `oldWork`, but a chunk is in neither while a worker is between reading
   and `Change`, or a handler between `GetClientWork` and `Write`.
2. *Stored work is stuck* (`Server.cpp:138`). A worker in the drain loop waits for
   `oldWork` to become empty; only workers empty it, and only outside that loop.
3. *The answer to resent work is refused* (`Server.cpp:164`). `GiveOldWork` removes
   the entry when sending succeeded, so the answer finds none and the client is
   disconnected.
4. *Resent work is other data* (`Data.cpp:45`). The relative seek goes forward by
   `cursorPos - wi.cursor` from the current position, which is behind the chunk already:
   `ResentIsOther` says that what is read begins behind the chunk, always. Where the block
   is short the client is sent what was in the buffer.
5. *A disconnection can end the server* (`Server.cpp:129`): the stamp goes through
   the `TimePoint` that `RemoveClient` freed and nulled.
6. *The reordered file is not in order* (`FileMappingIndexed.h:30`). `Write` makes the
   new entry from `upper_bound(index)`, the entry after the new one or `end()`; entries
   get the wrong index or collide and are not inserted.
7. A chunk whose sending fails is erased, not stored (`Server.cpp:131`): the only
   loss `LossOnlyByWorker` allows besides those of items 3 and 21.
8. `exit` before a client was ready joins threads that were never started
   (`ThreadPool.h:29`): `Join` of an unstarted worker sets `fault`.
9. Reading a chunk again moves the handle past bytes that are then never issued
   (`Data.cpp:47`): it is moved back by the distance it was moved forward, and not by what
   was read. `BlocksFollow` says by how much each new chunk is further on, and
   `HandleInFile` that the handle stays in the file; nothing says that the input is
   covered, because it is not.
10. An output larger than a view is written to the wrong place
   (`FileMappingChunkRW.h:63`): a write that does not fit copies as many bytes as do
   *not* fit, and the second view is mapped where the first was. With
   `DesiredChunkSize = 3` and `Sizes = {3}` in `data_path.cfg`, `WrittenInPlace` fails at
   `ViewSize = 5`, and `StaysInView` at `ViewSize = 4`, where more does not fit than does.
11. A client's older file that was longer keeps its end (`FileReceive.cpp:67`): it is
   opened without being truncated. `DatedIsWhole` speaks of the listed bytes of a file
   and says nothing of those behind them.
12. A client may wait for the files for ever (`FileSend.cpp:54`): connections that are
   gone stay in `clientQueue`, and a push onto a full queue is ignored. With
   `MAXCLIENTS = 2` in `file_transfer.cfg`, `ServedOrGone` fails.
13. `Shutdown` destroys the TCP server (`Server.cpp:105`) before `~FileSend` stops the
   thread that sends through it: the step sets `fault` to `useAfterDestroy`.
14. A file that is shorter or longer than the list says keeps the sending thread in its
   loop for ever (`FileSend.cpp:92`): `Read` returns 0 and the unsigned size is not 0, or
   it wraps below zero. Clients behind it are not served, which is why `ServedOrGone` is
   about files of their listed length; `StopSend` still ends it.
15. "Data Verified" may be said of an output that lacks bytes at its end
   (`Server.cpp:29`): the loop compares whole buffers, also when the read was short, so
   missing bytes pass when the input repeats there what it has one block before, or is 0
   in the first block. `VerifiedIsOrdered` says exactly this.
16. A line that ended at `-h` or at an unknown parameter leaves its flags set
   (`ParamParser.cpp:48`): after `allowcon -p=1 -h`, `allowcon` alone passes the check for
   its required parameter. `RequiredChecked` excludes nothing else.
17. `-nca` is said to default to 4 (`ServerCmdParser.h:58`) and defaults to 2
   (`ServerCmdParser.h:21`).
18. A line that is reported with "Error parsing cmd" is executed all the same, without
   arguments (`CmdHandler.h:20`).
19. Numbers are converted by `stoull` and `stof`, whose exceptions no one catches: bad or
   missing data ends the program (`Crash` in `Commands`).
20. A `TimePoint` may be stamped by a worker whose client has left and whose `TimePoint`
   another client now has (`ClientQueue.cpp:24`): that client is judged by a time that
   began when another was given work. `TimeIsOwn` names this case and excludes others.
21. `push` may be refused while the queue holds fewer elements than its capacity
   (`queue.hpp:293`): a thread in the middle of a `pop` has a node that is neither in the
   queue nor free. `Refuse` in `BoundedQueue` and `Push` in `ClientQueue` say when. A
   client may be dropped from the client queues that way, and stored work be lost: while
   a worker takes stored work for a client that leaves meanwhile, another client comes in
   its place, is given work and leaves, and finds `oldWork` without a free node. That is
   the case `Lingers` of `LossOnlyByWorker`. With `MAXCLIENTS = 1` in `faults.cfg` it
   happens; with 2 it takes more clients and chunks than that run has. `LossOnlyHere`
   says for any number of them that there is no other.
22. A result that comes in while the output is being reordered is written all the same
   (`Server.cpp:215` has `fileMapLock`, `Server.cpp:177` has not): `TempData.dat` may be
   made too short or too long, an entry be copied twice or left out, bytes be copied that
   are half there, and a result that comes in later is written through a pointer to
   nothing. `ReorderCopies` and `StaysInView` exclude these results (`late`) and nothing
   else; without `late` both fail in `data_path`.
23. The algorithm does not write the bytes of a chunk behind its last whole word
   (`Algorithm.cpp:13`): what the client's buffer held there is sent back. Chunks are whole
   words only if the message size and the file are. For the same reason an output that is
   right may be found not verified where the input is not whole words: the verification
   takes the last word with bytes that are not in the input. `OrderedIsVerified` is about
   inputs of whole words.

## 5. Proofs

`ServerProofs` proves `TypeCorrect`: `Spec => [](TypeOK /\ WorkKnown)`, for any number
of workers and clients, any file and any chunk size. `TypeOK` is not inductive by
itself: `GetClientWorkPrev` seeks by `cursorPos - wi.cursor`, which is a position of
the file only if the chunk ends at or before the cursor. `WorkKnown` says so of every
`WorkInfo` in the map, in `oldWork`, in a worker or a handler; `JoinBounded` ties
`joinNext` to the main thread's place, so that it stays within the pool. The invariant
`TypeInv` is their conjunction. The proof has a lemma for each group of actions:
`HandlerType`, `ClientType`, `MainType`, `WorkerType`; `GiveWorkType` for the actions
that `GiveNewWork` and `GiveOldWork` share, and `ReadKeepsKnown` for the reads, which
move the cursor under everyone else's `WorkInfo`.

The assumptions are those of the constants: natural sizes, a positive chunk size, at
least one worker, `NoClient` is not a client.

Two safety properties of the chunks are proved on top of it.

`ChunkOwned`: `Spec => []ChunkOwnedOnce`. `OwnerInv` says pair by pair that no two
holders (workers before `Change`, entries of the map, elements of `oldWork`, handlers
before `Write` or the push, records of the output) hold the same chunk. It needs
`HeldIssued`, that only issued chunks are held, so that the chunk a worker reads is
no one's. The proof has one lemma for each way a chunk can move (`NewReadOwner`,
`AssignOwner`, `PickOwner`, `TakeOwner`, `WriteOwner`, `StoreOwner`), each showing that
the chunk leaves its old place when it enters the new one, and `OwnersShrink` for all
other steps. It holds although chunks may be lost and clients be given two: that a
chunk is nowhere is not excluded, that it is in two places is.

`ReorderOnce`: `Spec => []ReorderedOnce`. `ReorderInv` ties `reorderCounter` to the
workers that reorder and to the mapping: whoever reorders has moved the counter from 0.

The last part of `ServerProofs` proves that a client is in one place at a time. `At(p, c)` names the
places: the two queues, a worker before `Change`, a worker after it, the inbox, the
outbox with the first message or with an answer, a handler before or after it took the
entry. `ClientInv` says that no client is in two of them (`InOnePlace`), that what is at a
place is there once (`OneOf`), that a client which has not come is in none (`NewClients`),
and that one with an entry in the map is in none of the places where it counts as free
(`WorkerOwes`); `ClientsApart` is `Spec => []ClientInv`. A lemma for each step shows where
it takes its client from, so that it was nowhere else, and where to (`ClientMoves`), or
that no client moves (`ClientsStay`). `ClientsFreeOnce` (`Spec => []ClientFreeOnce`) counts
the places; `AssignedClientFree` (`Spec => []AssignToFreeClient`) is `WorkerOwes` for a
worker before `Change`. The invariant is needed for clients that left as well: they stay in
the queues, and may be given work.

`ServerPoolProofs` follows the chunks. The argument is by places: `OwnedPlaces` splits
`Owned` into the five places a chunk may be in; a lemma for each moving step shows that
the chunk which leaves one place is in another afterwards (`PickPool`, `TakePool`), is
read (`NewReadPool`), is written (`WritePool`), or that at most one chunk has an owner no
more (`AssignPool`, whose chunk replaces what the entry held; `ErasePool`; `StorePool`, at
a full queue). That a chunk read was not held before, and one written not written before,
is `OwnerInv`; that what is held is a chunk, and not the `NoWork` that says there is none,
is `RealWork`. `LossOnlyHere` (`Spec => LossOnlyByWorker`) excludes all
others: no entry is overwritten, by `ClientInv`; and `oldWork` has room when a handler
stores, by `RoomInv`: its length and the number of connected clients that have an entry,
are being given a chunk or whose chunk is being stored (`Carriers`) are together at most
`MAXCLIENTS`. That alone does not make a push succeed, as other calls may hold nodes that
no element is in. `RefusedLingers` maps each such call to a client: a handler that pushes
to its own, a worker that has popped to the one it has the work for. These are carriers,
no two of them are the same by `ClientInv`, and they are other clients than the one whose
work is stored, so that they leave a node for it; unless the client of such a worker has
left or is leaving, and then the worker lingers.

Its second part assumes `NoFaults`: `Breakable` and `SlowClients` are empty.
`FaultFree` says that then no connection goes down and nothing is stored (`StaysUp`);
that a block under way to a client or back is that of the client's entry, wherever it is,
and that the client has its `TimePoint` (`WorkerFits`, `ClientFits`); and that the file
handle is where the cursor is, at a multiple of the chunk size or the end (`ReaderFits`).
From it follow `TimePointsThere` (`NoNullTime`), `AnswersAwaited` (`AnswerExpected`) and
`RecordsOfTheirChunks` (`RecordsMatch`). The first two fail
once clients disconnect, as `disconnect_crash` and `resent_answer` show; the third because
a chunk that is read again moves the file handle ahead of the cursor. `PoolAlwaysImplemented`
(`Spec => ImplementsWorkPool`, for any constants) puts both together: where clients may
disconnect each step is one of the lossy pool, and where they may not none loses a chunk,
because `OnlyErases` leaves the erase after a failed send, and no send fails.

`DataReaderProofs` proves `ReaderCorrect`: `Spec => [](TypeOK /\ IssuedBytes /\
HandleInFile)`. The first part of `IssuedBytes`, `BlocksFollow`, relates each chunk to the
one before it, its record and the bytes it was filled from; a chunk read again
may be any, and the seek by `cursorPos - wi.cursor` goes forward only if its cursor is
behind the reader's. `CursorsBehind` says so of each, which would otherwise be an
induction along the chunks. `ReadsAgain` has the arithmetic: the handle ends up as many
bytes further on as were read. `ResentIsOther`, the second part, follows, as the handle is
never behind the cursor (`InvResent`). `DataPathProofs` shows that every step of `DataPath`
is one of the reader or leaves it alone, and carries both over (`PathIssuedBytes`,
`PathHandleInFile`).

`CommandsProofs` proves `ValuesCorrect` (`Spec => [](TypeOK /\ ValuesAreCurrent)`) and
`RequiredCorrect` (`Spec => RequiredChecked`). `LineInv` says that while a line is parsed
the values are those given so far, and its parameters are flagged, and those only unless
`early`; and that between lines flags are left only where a line ended early.
`CommandTypes` is the type invariant of `Commands` alone.

### The output (`DataPathProofs`)

`OneView` (`FileLength <= ViewSize`) is a hypothesis of the theorems about the output: a
view is 100 MB or the whole file, and larger outputs are written to the wrong place
(section 4, item 10), so that without it they are false. `OutputInv` is the invariant of
`OutputFile`, in two parts. What holds whatever overlaps: each `Write` takes one round,
whose window is mapped anew only at the end of the file (`InWindow`, `Mapped`);
`WriteInv` says that results lie one behind the other, each at the position of its call,
that an entry and a call at the same position have the same size (which index the entry
has is left open, as it may be wrong, item 6), and that what is in either file are bytes
of calls (`BytesOfCalls`); `CopyTypes` has the types of the copying and that it reads from
the file, and that there is a fault only when `late`. What holds only if no `Write` was
late: `CopyInv` says of `ReorderFileData` that entries are copied in the order of their
indices (`Done` are those copied), and that the copy of each begins where the sizes of the
ones before it end. As a late `Write` ends it for good, `CopyInv` need be kept only by the
steps of a reordering with no `Write` under way (`CopyRoundOrder`), and of the others only
`CopyTypes` is shown (`CopyRoundTypes`).

`CopyInv` needs sums of sizes over sets of entries, `TotalSize`, as they grow by
one entry: `TotalWithOne`, by way of the folds being unique (`SumUnique`, `SumExists`),
where an induction over finite sets is replaced by a smallest counterexample
(`SmallestSet`, from the well-foundedness of the natural numbers). That all results fit
into the file is `ResultsFit`: their sizes are those of the records, which add up to the cursor. From
`OutputInv` follow `PathWrittenInPlace`, `PathReorderCopies` and `PathStaysInView`.

`PathInv` adds the results and the verification. `ResultsInv` says that each chunk issued
has a result of its size and that calls are made with such. `CompareInv` is the loop of
`VerifyNewData`: up to the position all bytes are equal, and both buffers hold the block
before it (`SameSoFar`), since whole buffers are compared and not only what was read; once
the output has ended, the input goes on and repeats what is left in the buffer
(`OutputEnded`); once the input has, all of it was compared (`InputEnded`). That the loop
applies the algorithm to the right words, although the last buffer has bytes of the one
before, is a matter of where words begin: buffers are whole words (`WordsApart`,
`WordMoved`, `MultipleOfMultiple`), so that a word of the file is a word of a buffer
(`WordIn`, `ExpectedWord`). `VerifiedTheorem` and `OrderedTheorem` are the two directions of
what the verdict means, for files, words and buffers of any length.

### The file transfer (`FileTransferProofs`)

`TransferInv` ties the client, the messages under way and the sending thread into one
stream (`StreamInv`): each block begins where the one before it ends, the first where the
client is, and the thread goes on where the last ends. `RequestInv` and `QueueInv` say that
a connection asks for the files once and that what it asked for is in one place: in a
message, in the queue, or being served; a second stream would interleave with the first.
A connection that is gone keeps its number, so what is queued or sent for it meets no
later connection of the same client. A position is one the reads of the file come to
(`Reach`): multiples of the block size up to the real length, and beyond the listed length
only if the listed length is not among them, which is when the unsigned size wraps. The
client's `left` and the thread's `sSize` are functions of the position (`LeftOf`), so both
sides agree on when a file ends, also where that is never. `DiskInv` says that a file with
the listed date is whole, and how long any other can be. `DatedTheorem`, `ReadyTheorem`,
`NoStaleTheorem` and `TypeTheorem` follow. The assumptions are those of `FileTransfer`;
the lengths that files really have are any of `ActualBytes`.

### The `TimePoint`s (`ClientTimesProofs`)

The free list is a chain without repetition (`Chain`); `TakeIs`, `PushIs` and `LinkIs` are
what taking, giving back and growing do to it, and `AllocIs` puts the first and the last
together as `alloc` does. `HoldInv` says that no two clients have the same `TimePoint` and
that the free ones are exactly those no client has. `FreeList` computes the chain; that
it does (`ChainIsList`) gives `TimePointsTheorem`. `WorkInv` says that the pointer a worker
loaded is still the client's, freed or not, unless the client is gone, which is the
exception that `TimeIsOwn` names; `TimeIsOwnTheorem` is then preserved by every step: a
client that is queued again was stamped through its own pointer. `NoClientAssumption`, that
the model value for no client is none, is the only assumption besides those on sizes and
times (`TimesAssumption`).

The theorems about the statistics (`TypeTheorem`, `MomentsTheorem`, `VerdictsTheorem`) have
one hypothesis more, `FineUnit`: times are multiples of a unit that every number of times
counted divides. The code has floats and the model integers, so it is for times in such a
unit that the mean of a batch is in the model what it is in the code. Any finite set of
rational times has one; the run's is 12, which `MCClientTimes` states as an assumption for
TLC to evaluate. The rounding of floats is not covered.

`StatsInv` says that the times of the unfinished batch are the last results, that mean times
count is the sum of the results before them, and that the squared deviation is their sum of
squares less count times mean squared. Closing a batch adds to these two sums, which it
does not do to a sum of deviations, as the mean they are taken from changes: `BatchMean`
and `BatchSquares` are the algebra of one batch, `CalculateIs` is the whole of `Calculate`.
`StatsExact` goes back to deviations from the mean. Sums of sequences are sums of their first
`k` values for each `k` (`Prefix`); what holds of each such sum is shown by `EveryPrefix`,
which has a least counterexample where one would write an induction. The verdicts are a
one-sided Chebyshev inequality (Cantelli's): `FewFarOff` bounds by the squared deviation how
many values can be so far on one side of the mean, which `PartIs` and `FewCounted` turn into
the share of the counted times.

### The queue (`LockFreeQueueProofs`)

`NodesApartTheorem`, `QueueTypes` and `QueueImplemented` are for any number of threads, suspended or not, any
capacity and any width of the tags, under one hypothesis: `TagsLast`
(`2 * MaxCalls + 1 < TagModulus`), that there are fewer than half as many calls as tags.
The code does not justify that for long runs, and it cannot be left out: a thread that is
suspended between reading a word and its compare-and-swap may meet the same index with the
same tag after 2^16 changes of the word (each call changes a node's link at most twice), and then
links or takes a node that is elsewhere. The theorem is that nothing else goes wrong. The
run has 5 calls and 16-bit tags, so it satisfies the hypothesis, and its `Garbage` makes
the tags of links wrap.

`NodesInv` says that there are two lists without repetition (`Linked`), the queue from the
head and the free list from the pool, which share no node, that the tail is in the first,
and that every other node is one thread's (`Owned`). What a thread has read in earlier
steps is no longer true of the queue in general; it is if the word it read has not changed
(`AllocInv`, `PushInv`, `PopInv`), and that the word has not changed is what the tag says.
Tags of the head, the tail and the pool only grow, because they are counted against the
calls that may still change them (`Counts`), so that an equal tag means an unchanged word;
tags of links begin anywhere and wrap, so `PushInv` has how often links were changed since
the thread read one, which `Counts` bounds by `TagsLast`. The hard step is `pushLink`:
the compare-and-swap on the last node's link must fail if the node was freed meanwhile
and is in the free list, the queue or another thread's hands; it does, since a node leaves
the queue only after another was linked behind it, which changed the tag of its link. One lemma per step of the algorithm (`PushLinkStep`, `PopCasStep`, ...)
rests on those about lists (`LinkedPush`, `LinkedTake`, `LinkedAppend`). `ChainIsList`
shows that `QueueNodes` and `FreeNodes`, as the model computes them, are these lists.

`QueueImplemented` (`Spec => ImplementsBoundedQueue`) needs what the nodes hold as well.
`ElementsInv` says that a node about to be linked holds what its thread pushes, that the
element which `pop` read is still that of the second node as long as the head has not
changed, and that a `pop` which read a null link behind an unchanged head has seen the
queue empty. `push` takes effect where its compare-and-swap links the node
(`LinkRefines`), `pop` where its own moves the head (`TakeRefines`). A `pop` that finds
nothing returns later than it read the null link, when others may have pushed; that the
queue was empty then is what the history variable `sawEmpty` keeps (`EmptyRefines`). A
`push` that is refused has found the pool empty: the nodes are in the queue or in other
threads' hands, each of which has one at most, and can be counted (`FullRefines`). The
other steps begin a call, return from one that took effect, or leave the elements and the
calls as they are (`StillStep`), as moving the tail does, which the abstract queue has not.

### What is only model-checked

- The liveness properties (`JobEnds`, `SoleClientFinishes`, `ShutdownEnds`,
  `ServedOrGone`, `StopEnds`, `CallsReturn`): they need fairness and ENABLED, which are out
  of the prover's reach.

Every other property that a passing run checks, invariants, action properties and
refinements, is proved. Each has its hypotheses above: `OneView` for the output, `NoFaults`
for what the run `fault_free` checks, `TagsLast` for the queue, `FineUnit` for the statistics.

## 6. Not modelled

Timers, the logarithm of the algorithm (`DataPath` has a function of words in its place),
the data generator, the splitting of a command line into
arguments, the TCP library's internals, logging and the printing of the time taken: they
are input and output, or numerical code, and the model needs of them only that they
return. Events (`Event.cpp`) are unused by the programs. Of the mapped files, the
sequential `Read` and the constructors no program calls; of `ClientWorkMap`, `Add`, which
only the unit tests call. Of the memory pool, the growth of the vector of nodes and the
buffer pools of `PoolAlloc.cpp`; of the statistics, the rounding of floats. The vendored
copy of boost is most of the repository's lines; only the queue and its free list, on
which the program's concurrency rests, are modelled.

## 7. Plan

1. The reader, the work distribution, the output, the file transfer, the statistics and
   the pool, the queue, the command lines: done, as above.
2. Proofs: the invariants and action properties of the work distribution, the reader, the
   output and its verification, the file transfer, the `TimePoint`s and the statistics, the
   queue and the commands, and the refinements of `WorkPool` and `BoundedQueue`: done.
   Liveness stays with TLC.
