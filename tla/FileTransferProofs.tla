-------------------------- MODULE FileTransferProofs --------------------------
(* Theorems about FileTransfer, for any clients, files, sizes and numbers of   *)
(* connections: what a client takes for a file is the file, and no block comes *)
(* to a client that has no file open.                                          *)
EXTENDS FileTransfer, SequenceTheorems, FiniteSetTheorems, TLAPS

-----------------------------------------------------------------------------
(* The invariant *)

Messages == [type : {"LIST", "SEND", "ABORTED"}, file : 0 .. NFiles, from : Nat, len : Nat]
Bytes == Seq({Old} \cup (Files \X Nat))

\* Where the reads of a file may begin and end; those a transfer comes to, as it
\* goes on to the next file when the position is the size in the list.
Positions(f) ==
    {p \in 0 .. actual[f] : p = actual[f] \/ \E k \in 0 .. p : p = k * BlockBytes}
Reach(f) == {p \in Positions(f) : p > FileBytes[f] => FileBytes[f] \notin Positions(f)}

\* FileBytes[f] - p as the unsigned number it is.
LeftOf(f, p) == IF p <= FileBytes[f] THEN FileBytes[f] - p ELSE FileBytes[f] - p + SizeModulus

\* A place in the transfer: a file and a position.  After the last file: NFiles + 1.
Place(f, p) == [file |-> f, from |-> p]
Start(f) == Place(NextFile(f), 0)
After(f, p) == IF p = FileBytes[f] THEN Start(f + 1) ELSE Place(f, p)

IsBlock(m) ==
    /\ m.type = "SEND" /\ m.file \in Files /\ FileBytes[m.file] > 0
    /\ m.from \in Reach(m.file) /\ m.from # FileBytes[m.file]
    /\ m.len = Lesser(BlockBytes, actual[m.file] - m.from)
Behind(m) == After(m.file, m.from + m.len)

\* Where the client is when it has taken the first k of its messages.
ClientAt(c) == IF curFile[c] = 0 THEN Place(NFiles + 1, 0) ELSE Place(curFile[c], at[c])
PlaceAt(c, k) == IF k = 0 THEN ClientAt(c) ELSE Behind(toClient[c][k])

SenderAt == IF spc = "open" THEN Start(sFile) ELSE After(sFile, sAt)

\* Connections by which the files were asked for.
Tag(c) == <<c, session[c]>>
Queued(c) == \E k \in DOMAIN clientQueue : clientQueue[k] = Tag(c)
Served(c) == sClient = Tag(c)

NetTypes ==
    /\ up \in [Clients -> BOOLEAN] /\ session \in [Clients -> 0 .. MaxSessions]
    /\ toServer \in [Clients -> Seq({"LIST", "SEND"})]
    /\ toClient \in [Clients -> Seq(Messages)]
    /\ clientQueue \in Seq(Clients \X Nat)
    /\ cpc \in [Clients -> {"off", "asked", "receiving", "ready"}]
ClientTypes ==
    /\ disk \in [Clients -> [Files -> OnDisk]]
    /\ curFile \in [Clients -> 0 .. NFiles]
    /\ left \in [Clients -> 0 .. (SizeModulus - 1)] /\ at \in [Clients -> Nat]
MainTypes ==
    /\ exiting \in BOOLEAN /\ servAlive \in BOOLEAN
    /\ actual \in ActualBytes
    /\ mpc \in {"prompt", "destroyed", "stopping", "stopped"}

\* The sending thread has a connection while it sends, and knows its place.
SenderInv ==
    /\ spc \in {"wait", "pop", "open", "send", "abort", "done"}
    /\ sFile \in 0 .. (NFiles + 1) /\ sSize \in 0 .. (SizeModulus - 1) /\ sAt \in Nat
    /\ spc \in {"wait", "pop", "done"} => sClient = <<>>
    /\ spc \in {"open", "send", "abort"} =>
         sClient \in Clients \X Nat /\ sClient[2] <= session[sClient[1]]
    /\ spc = "open" => sFile >= 1
    /\ spc = "send" => sFile \in Files /\ sAt \in Reach(sFile) /\ sSize = LeftOf(sFile, sAt)

\* A connection is asked for once, and what it asked for is in one place.
QueueInv ==
    /\ \A k \in DOMAIN clientQueue : clientQueue[k][2] <= session[clientQueue[k][1]]
    /\ \A j, k \in DOMAIN clientQueue : clientQueue[j] = clientQueue[k] => j = k
    /\ sClient # <<>> => \A k \in DOMAIN clientQueue : clientQueue[k] # sClient

Unasked(c) == ~Queued(c) /\ ~Served(c)

RequestInv(c) ==
    /\ ~up[c] => cpc[c] = "off" /\ toServer[c] = <<>> /\ toClient[c] = <<>>
    /\ up[c] => cpc[c] # "off"
    /\ cpc[c] = "asked" =>
         /\ Unasked(c)
         /\ \/ toServer[c] = <<"LIST">> /\ toClient[c] = <<>>
            \/ toServer[c] = <<>> /\ toClient[c] = <<LIST>>
    /\ cpc[c] = "receiving" => toServer[c] \in {<<>>, <<"SEND">>}
    /\ cpc[c] = "ready" => /\ toServer[c] = <<>> /\ ~Queued(c)
                           /\ curFile[c] # 0 => toClient[c] = <<>> /\ ~Served(c)
    /\ toServer[c] = <<"SEND">> => Unasked(c)
    /\ cpc[c] = "receiving" /\ (toServer[c] # <<>> \/ Queued(c)) =>
         toClient[c] = <<>> /\ ClientAt(c) = Start(1)

\* What is under way to a client carries on from where it is, and the sending
\* thread from there.
StreamInv(c) ==
    cpc[c] \in {"receiving", "ready"} =>
        /\ \A k \in DOMAIN toClient[c] :
             \/ /\ IsBlock(toClient[c][k])
                /\ Place(toClient[c][k].file, toClient[c][k].from) = PlaceAt(c, k - 1)
             \/ toClient[c][k] = ABORTED /\ k = Len(toClient[c]) /\ ~Served(c)
        /\ Served(c) /\ spc \in {"open", "send"} => SenderAt = PlaceAt(c, Len(toClient[c]))

\* A file that is received has been written up to the position; those before it
\* are there.
ReceiveInv(c) ==
    /\ cpc[c] = "receiving" =>
         LET f == curFile[c] IN
         /\ f \in Files /\ FileBytes[f] > 0
         /\ at[c] \in Reach(f) /\ at[c] # FileBytes[f]
         /\ left[c] = LeftOf(f, at[c])
         /\ \A i \in 1 .. at[c] : i <= Len(disk[c][f].bytes) /\ disk[c][f].bytes[i] = <<f, i>>
         /\ \A g \in 1 .. (f - 1) : disk[c][g].date = "listed"
    /\ cpc[c] = "ready" => HaveFiles(c)

\* A file is as long as the old one, as the list says or as a transfer made it.
DiskInv(c) ==
    \A f \in Files :
        LET d == disk[c][f] IN
        /\ Len(d.bytes) \in {OldBytes[f], FileBytes[f]} \cup Reach(f)
        /\ d.date = "listed" => Whole(f, d.bytes)

ClientInv(c) == RequestInv(c) /\ StreamInv(c) /\ ReceiveInv(c) /\ DiskInv(c)

TransferInv ==
    /\ NetTypes /\ ClientTypes /\ MainTypes
    /\ SenderInv /\ QueueInv
    /\ \A c \in Clients : ClientInv(c)
    /\ fault \in {"none", "useAfterDestroy"}

-----------------------------------------------------------------------------
(* Files and positions *)

SmallerPairs == {ss \in Nat \X Nat : ss[1] < ss[2]}

LEMMA LeastNumber ==
    ASSUME NEW S \in SUBSET Nat, S # {}
    PROVE  \E n \in S : \A m \in S : n <= m
<1>1. IsWellFoundedOn(SmallerPairs, Nat)
  BY NatLessThanWellFounded DEF OpToRel, SmallerPairs
<1>2. PICK n \in S : \A m \in S : <<m, n>> \notin SmallerPairs
  BY <1>1, WFMin
<1>3. ASSUME NEW m \in S PROVE n <= m
  <2>1. <<m, n>> \in Nat \X Nat /\ <<m, n>> \notin SmallerPairs /\ m \in Nat /\ n \in Nat
    BY <1>2
  <2>2. ~(<<m, n>>[1] < <<m, n>>[2])
    BY <2>1 DEF SmallerPairs
  <2> QED BY <2>1, <2>2
<1> QED BY <1>3

LEMMA NumbersFit ==
    /\ NFiles \in Nat \ {0} /\ BlockBytes \in Nat \ {0} /\ SizeModulus \in Nat \ {0}
    /\ \A f \in Files : FileBytes[f] \in Nat /\ FileBytes[f] < SizeModulus /\ OldBytes[f] \in Nat
    /\ \A f \in Files, a \in ActualBytes : a[f] \in Nat /\ a[f] < SizeModulus
<1>1. 1 \in Files
  BY FilesAssumption DEF Files
<1> QED BY <1>1, FilesAssumption

Follows(f, g) ==
    /\ \A h \in f .. (g - 1) : FileBytes[h] = 0
    /\ g <= NFiles => FileBytes[g] > 0

LEMMA NextFileExists ==
    ASSUME NEW f \in 1 .. (NFiles + 1)
    PROVE  NextFile(f) \in f .. (NFiles + 1) /\ Follows(f, NextFile(f))
<1> DEFINE S == {g \in f .. (NFiles + 1) : g <= NFiles => FileBytes[g] > 0}
<1>1. NFiles \in Nat /\ f \in Nat
  BY NumbersFit
<1>2. NFiles + 1 \in S /\ S \in SUBSET Nat
  BY <1>1
<1>3. PICK g \in S : \A h \in S : g <= h
  BY <1>2, LeastNumber
<1>4. ASSUME NEW h \in f .. (g - 1) PROVE FileBytes[h] = 0
  <2>1. h \notin S /\ h \in f .. (NFiles + 1) /\ h \in Files
    BY <1>1, <1>3 DEF Files
  <2> QED BY <2>1, NumbersFit
<1>5. \E k \in f .. (NFiles + 1) : Follows(f, k)
  BY <1>3, <1>4 DEF Follows
<1> QED BY <1>5 DEF NextFile, Follows

LEMMA NextFileIs ==
    ASSUME NEW f \in 1 .. (NFiles + 1), NEW g \in f .. (NFiles + 1), Follows(f, g)
    PROVE  NextFile(f) = g
<1>1. NextFile(f) \in f .. (NFiles + 1) /\ Follows(f, NextFile(f))
  BY NextFileExists
<1>2. NFiles \in Nat
  BY NumbersFit
<1> QED BY <1>1, <1>2 DEF Follows

\* An empty file is passed over, any other is the next.
LEMMA NextOf ==
    ASSUME NEW f \in Files
    PROVE  /\ FileBytes[f] > 0 => NextFile(f) = f
           /\ FileBytes[f] = 0 => NextFile(f) = NextFile(f + 1)
<1>1. f \in 1 .. (NFiles + 1) /\ f + 1 \in 1 .. (NFiles + 1) /\ NFiles \in Nat
  BY NumbersFit DEF Files
<1>2. CASE FileBytes[f] > 0
  <2>1. Follows(f, f) /\ f \in f .. (NFiles + 1)
    BY <1>1, <1>2 DEF Follows
  <2> QED BY <1>1, <1>2, <2>1, NextFileIs
<1>3. CASE FileBytes[f] = 0
  <2> DEFINE g == NextFile(f + 1)
  <2>1. g \in (f + 1) .. (NFiles + 1) /\ Follows(f + 1, g)
    BY <1>1, NextFileExists
  <2>2. g \in f .. (NFiles + 1) /\ Follows(f, g)
    BY <1>1, <1>3, <2>1 DEF Follows
  <2>3. NextFile(f) = g
    BY <1>1, <2>2, NextFileIs
  <2> QED BY <1>3, <2>3
<1> QED BY <1>2, <1>3, NumbersFit

LEMMA ModuloIs ==
    ASSUME NEW m \in Nat \ {0}, NEW a \in Int, -m < a, a < m
    PROVE  a % m = IF a >= 0 THEN a ELSE a + m
OBVIOUS

LEMMA CountDownIs ==
    ASSUME NEW size \in 0 .. (SizeModulus - 1), NEW n \in 0 .. (SizeModulus - 1)
    PROVE  /\ CountDown(size, n) = IF n <= size THEN size - n ELSE size - n + SizeModulus
           /\ CountDown(size, n) \in 0 .. (SizeModulus - 1)
<1>1. SizeModulus \in Nat \ {0} /\ size - n \in Int
  BY NumbersFit
<1>2. -SizeModulus < size - n /\ size - n < SizeModulus
  BY <1>1
<1>3. (size - n) % SizeModulus = IF size - n >= 0 THEN size - n ELSE size - n + SizeModulus
  BY <1>1, <1>2, ModuloIs
<1> QED BY <1>1, <1>3 DEF CountDown

\* Blocks do not go past a size that reads may end at.
LEMMA BlocksMeet ==
    ASSUME NEW i \in Nat, NEW j \in Nat, NEW b \in Nat \ {0}, i * b < j * b
    PROVE  i * b + b <= j * b
<1>1. i < j
  <2>1. CASE j <= i
    <3>1. PICK k \in Nat : i = j + k
      BY <2>1
    <3>2. i * b = j * b + k * b /\ k * b \in Nat /\ j * b \in Nat
      BY <3>1
    <3> QED BY <3>2
  <2> QED BY <2>1
<1>2. PICK k \in Nat : j = i + 1 + k
  BY <1>1
<1>3. j * b = i * b + b + k * b /\ k * b \in Nat /\ i * b \in Nat
  BY <1>2
<1> QED BY <1>3

BlockLen(f, p) == Lesser(BlockBytes, actual[f] - p)

\* Where a block ends, and that the unsigned counts tell when the file is complete.
LEMMA ReachStep ==
    ASSUME actual \in ActualBytes, NEW f \in Files, NEW p \in Reach(f), p # FileBytes[f]
    PROVE  LET n == BlockLen(f, p) IN
           /\ n \in 0 .. (SizeModulus - 1) /\ p + n \in Reach(f)
           /\ LeftOf(f, p) = n <=> p + n = FileBytes[f]
           /\ LeftOf(f, p) \in 1 .. (SizeModulus - 1)
           /\ CountDown(LeftOf(f, p), n) = LeftOf(f, p + n)
<1> DEFINE a == actual[f]
           s == FileBytes[f]
           n == BlockLen(f, p)
<1>1. /\ a \in Nat /\ a < SizeModulus /\ s \in Nat /\ s < SizeModulus
      /\ BlockBytes \in Nat \ {0} /\ SizeModulus \in Nat \ {0}
  BY NumbersFit
<1>2. p \in 0 .. a /\ p \in Positions(f) /\ (p > s => s \notin Positions(f))
  BY DEF Reach, Positions
<1>3. n \in Nat /\ p + n \in 0 .. a /\ n \in 0 .. (SizeModulus - 1)
  BY <1>1, <1>2 DEF BlockLen, Lesser
<1>4. p + n \in Positions(f)
  <2>1. CASE p + n = a
    BY <1>3, <2>1 DEF Positions
  <2>2. CASE p + n # a
    <3>1. n = BlockBytes /\ p # a
      BY <1>1, <1>2, <2>2 DEF BlockLen, Lesser
    <3>2. PICK k \in 0 .. p : p = k * BlockBytes
      BY <1>2, <3>1 DEF Positions
    <3>3. p + n = (k + 1) * BlockBytes /\ k + 1 \in 0 .. (p + n)
      BY <1>1, <1>2, <3>1, <3>2
    <3> QED BY <1>3, <3>3 DEF Positions
  <2> QED BY <2>1, <2>2
<1>5. s \in Positions(f) => p + n <= s
  <2> SUFFICES ASSUME s \in Positions(f) PROVE p + n <= s
    OBVIOUS
  <2>1. p < s /\ s <= a
    BY <1>1, <1>2 DEF Positions
  <2>2. CASE s = a
    BY <1>3, <2>2
  <2>3. CASE s # a
    <3>1. PICK i \in 0 .. p : p = i * BlockBytes
      BY <1>1, <1>2, <2>1 DEF Positions
    <3>2. PICK j \in 0 .. s : s = j * BlockBytes
      BY <2>3 DEF Positions
    <3>3. i \in Nat /\ j \in Nat /\ i * BlockBytes < j * BlockBytes
      BY <1>1, <1>2, <2>1, <3>1, <3>2
    <3>4. p + BlockBytes <= s
      BY <1>1, <3>1, <3>2, <3>3, BlocksMeet
    <3>5. n <= BlockBytes
      BY <1>1, <1>2 DEF BlockLen, Lesser
    <3> QED BY <1>1, <1>2, <1>3, <3>4, <3>5
  <2> QED BY <2>2, <2>3
<1>6. p + n \in Reach(f)
  BY <1>1, <1>3, <1>4, <1>5 DEF Reach
<1>7. LeftOf(f, p) \in 1 .. (SizeModulus - 1)
  BY <1>1, <1>2 DEF LeftOf
<1>8. LeftOf(f, p) = n <=> p + n = s
  BY <1>1, <1>2, <1>3 DEF LeftOf
<1>9. CountDown(LeftOf(f, p), n) = LeftOf(f, p + n)
  <2>1. CountDown(LeftOf(f, p), n) = IF n <= LeftOf(f, p) THEN LeftOf(f, p) - n
                                     ELSE LeftOf(f, p) - n + SizeModulus
    <3>1. LeftOf(f, p) \in 0 .. (SizeModulus - 1)
      BY <1>1, <1>7
    <3> QED BY <1>3, <3>1, CountDownIs
  <2> QED BY <1>1, <1>2, <1>3, <2>1 DEF LeftOf
<1> QED BY <1>3, <1>6, <1>7, <1>8, <1>9

\* Where a transfer of a file starts.
LEMMA ReachStart ==
    ASSUME actual \in ActualBytes, NEW f \in Files
    PROVE  /\ 0 \in Reach(f) /\ Reach(f) \subseteq Nat
           /\ FileBytes[f] = 0 => Reach(f) = {0}
           /\ LeftOf(f, 0) = FileBytes[f]
           /\ \A p \in Reach(f) : LeftOf(f, p) = 0 <=> p = FileBytes[f]
           /\ \A p \in Reach(f) : LeftOf(f, p) \in 0 .. (SizeModulus - 1)
<1>1. /\ actual[f] \in Nat /\ actual[f] < SizeModulus
      /\ FileBytes[f] \in Nat /\ FileBytes[f] < SizeModulus
      /\ BlockBytes \in Nat \ {0} /\ SizeModulus \in Nat \ {0}
  BY NumbersFit
<1>2. 0 \in Positions(f)
  <2>1. 0 = 0 * BlockBytes /\ 0 \in 0 .. 0 /\ 0 \in 0 .. actual[f]
    BY <1>1
  <2> QED BY <2>1 DEF Positions
<1>3. Reach(f) \subseteq 0 .. actual[f] /\ 0 \in Reach(f)
  BY <1>1, <1>2 DEF Reach, Positions
<1>4. FileBytes[f] = 0 => Reach(f) = {0}
  BY <1>1, <1>2, <1>3 DEF Reach
<1> QED BY <1>1, <1>3, <1>4 DEF LeftOf

LEMMA WholeIs ==
    ASSUME NEW f \in Files, NEW bytes, bytes \in Bytes
    PROVE  Whole(f, bytes) <=>
             /\ \/ Len(bytes) = FileBytes[f]
                \/ Len(bytes) = OldBytes[f] /\ OldBytes[f] > FileBytes[f]
             /\ \A i \in 1 .. FileBytes[f] : bytes[i] = <<f, i>>
<1> DEFINE s == FileBytes[f]
<1>1. s \in Nat /\ OldBytes[f] \in Nat /\ Len(bytes) \in Nat
  BY NumbersFit, LenProperties DEF Bytes
<1>2. ASSUME s <= Len(bytes)
      PROVE  SubSeq(bytes, 1, s) = Content(f) <=> \A i \in 1 .. s : bytes[i] = <<f, i>>
  <2>1. SubSeq(bytes, 1, s) = [i \in 1 .. s |-> bytes[i]]
    BY <1>1, <1>2 DEF Bytes
  <2> QED BY <2>1 DEF Content
<1> QED BY <1>1, <1>2 DEF Whole

LEMMA OverwrittenIs ==
    ASSUME NEW bytes, bytes \in Bytes, NEW f \in Files, NEW p \in Nat, NEW n \in Nat,
           p <= Len(bytes)
    PROVE  LET new == Overwritten(bytes, p, BLOCK(f, p, n)) IN
           /\ new \in Bytes
           /\ Len(new) = IF p + n > Len(bytes) THEN p + n ELSE Len(bytes)
           /\ \A i \in 1 .. (p + n) :
                new[i] = IF i \in (p + 1) .. (p + n) THEN <<f, i>> ELSE bytes[i]
<1> DEFINE new == Overwritten(bytes, p, BLOCK(f, p, n))
           len == IF p + n > Len(bytes) THEN p + n ELSE Len(bytes)
<1>1. Len(bytes) \in Nat /\ bytes \in [1 .. Len(bytes) -> {Old} \cup (Files \X Nat)]
  BY LenProperties DEF Bytes
<1>2. len \in Nat
  BY <1>1
<1>3. new = [i \in 1 .. len |-> IF i \in (p + 1) .. (p + n) THEN <<f, p + i - p>> ELSE bytes[i]]
  BY DEF Overwritten, BLOCK
<1>4. ASSUME NEW i \in 1 .. len
      PROVE  /\ new[i] = IF i \in (p + 1) .. (p + n) THEN <<f, i>> ELSE bytes[i]
             /\ new[i] \in {Old} \cup (Files \X Nat)
  <2>1. p + i - p = i /\ i \in Nat
    BY <1>2
  <2> QED BY <1>1, <1>3, <2>1
<1>5. new \in [1 .. len -> {Old} \cup (Files \X Nat)]
  BY <1>3, <1>4
<1>6. new \in Bytes /\ Len(new) = len
  BY <1>2, <1>5, IsASeq DEF Bytes
<1>7. 1 .. (p + n) \subseteq 1 .. len
  BY <1>1
<1> QED BY <1>4, <1>6, <1>7

-----------------------------------------------------------------------------
(* What a step leaves alone *)

Local(c) == <<up[c], session[c], toServer[c], toClient[c], cpc[c], disk[c],
              curFile[c], left[c], at[c]>>

LEMMA ReachSame ==
    ASSUME UNCHANGED actual
    PROVE  /\ \A f : Positions(f)' = Positions(f) /\ Reach(f)' = Reach(f)
           /\ \A m : IsBlock(m)' <=> IsBlock(m)
<1>1. \A f : Positions(f)' = Positions(f)
  BY DEF Positions
<1>2. \A f : Reach(f)' = Reach(f)
  BY <1>1 DEF Reach
<1> QED BY <1>1, <1>2 DEF IsBlock

\* A client to whom nothing happens: the queue may lose its request and the
\* sending thread may leave it, or stay at its place.
LEMMA SameClient ==
    ASSUME NEW c \in Clients, ClientInv(c), UNCHANGED actual, Local(c)' = Local(c),
           Queued(c)' => Queued(c),
           Served(c)' => Served(c),
           Served(c)' /\ spc' \in {"open", "send"} =>
               spc \in {"open", "send"} /\ SenderAt' = SenderAt
    PROVE  ClientInv(c)'
<1>1. /\ up'[c] = up[c] /\ session'[c] = session[c] /\ toServer'[c] = toServer[c]
      /\ toClient'[c] = toClient[c] /\ cpc'[c] = cpc[c] /\ disk'[c] = disk[c]
      /\ curFile'[c] = curFile[c] /\ left'[c] = left[c] /\ at'[c] = at[c]
  BY DEF Local
<1>2. /\ \A f : Reach(f)' = Reach(f)
      /\ \A m : IsBlock(m)' <=> IsBlock(m)
  BY ReachSame
<1>3. RequestInv(c)'
  <2>1. Unasked(c) => Unasked(c)'
    BY DEF Unasked
  <2>2. ClientAt(c)' = ClientAt(c)
    BY <1>1 DEF ClientAt
  <2> QED BY <1>1, <2>1, <2>2 DEF ClientInv, RequestInv
<1>4. StreamInv(c)'
  <2>1. \A k : PlaceAt(c, k)' = PlaceAt(c, k)
    BY <1>1 DEF PlaceAt, ClientAt
  <2> QED BY <1>1, <1>2, <2>1 DEF ClientInv, StreamInv
<1>5. ReceiveInv(c)'
  BY <1>1, <1>2 DEF ClientInv, ReceiveInv, HaveFiles
<1>6. DiskInv(c)'
  BY <1>1, <1>2 DEF ClientInv, DiskInv
<1> QED BY <1>3, <1>4, <1>5, <1>6 DEF ClientInv

\* A client that is not connected: what counts is its disk.
LEMMA GoneClient ==
    ASSUME NEW c \in Clients, ClientInv(c), UNCHANGED actual, disk'[c] = disk[c],
           ~up'[c], cpc'[c] = "off", toServer'[c] = <<>>, toClient'[c] = <<>>
    PROVE  ClientInv(c)'
<1>1. \A f : Reach(f)' = Reach(f)
  BY ReachSame
<1>2. DiskInv(c)'
  BY <1>1 DEF ClientInv, DiskInv
<1>3. RequestInv(c)' /\ StreamInv(c)' /\ ReceiveInv(c)'
  BY DEF RequestInv, StreamInv, ReceiveInv
<1> QED BY <1>2, <1>3 DEF ClientInv

-----------------------------------------------------------------------------
(* Connections *)

LEMMA ConnectInv ==
    ASSUME TransferInv, NEW c \in Clients, Connect(c), UNCHANGED actual
    PROVE  TransferInv'
<1>1. /\ up' = [up EXCEPT ![c] = TRUE] /\ session' = [session EXCEPT ![c] = session[c] + 1]
      /\ toServer' = [toServer EXCEPT ![c] = <<"LIST">>] /\ cpc' = [cpc EXCEPT ![c] = "asked"]
      /\ ~up[c] /\ session[c] < MaxSessions
  BY DEF Connect
<1>2. UNCHANGED <<toClient, disk, curFile, left, at, clientQueue, sendVars, mainVars, fault>>
  BY DEF Connect
<1>3. NetTypes' /\ ClientTypes' /\ MainTypes'
  <2>1. NetTypes'
    BY <1>1, <1>2, ServerAssumption DEF TransferInv, NetTypes
  <2> QED BY <1>2, <2>1 DEF TransferInv, ClientTypes, MainTypes, mainVars
<1>4. SenderInv' /\ QueueInv'
  <2>1. \A d \in Clients : session[d] \in Nat /\ session'[d] \in Nat /\ session[d] <= session'[d]
    BY <1>1, ServerAssumption DEF TransferInv, NetTypes
  <2>2. \A k \in DOMAIN clientQueue : clientQueue[k] \in Clients \X Nat
    BY ElementOfSeq, LenProperties DEF TransferInv, NetTypes
  <2>3. QueueInv'
    BY <1>2, <2>1, <2>2 DEF TransferInv, QueueInv, sendVars
  <2>4. SenderInv'
    <3>1. \A f : Reach(f)' = Reach(f)
      BY ReachSame
    <3> QED BY <1>2, <2>1, <3>1 DEF TransferInv, SenderInv, sendVars, LeftOf
  <2> QED BY <2>3, <2>4
<1>5. ASSUME NEW d \in Clients PROVE ClientInv(d)'
  <2>0. ClientInv(d)
    BY DEF TransferInv
  <2>1. CASE d # c
    <3>1. Local(d)' = Local(d) /\ Tag(d)' = Tag(d)
      BY <1>1, <1>2, <2>1 DEF Local, TransferInv, NetTypes, Tag
    <3> QED BY <1>2, <2>0, <3>1, SameClient DEF Queued, Served, SenderAt, sendVars
  <2>2. CASE d = c
    <3>1. cpc'[c] = "asked" /\ up'[c] /\ toServer'[c] = <<"LIST">> /\ toClient'[c] = <<>>
      BY <1>1, <1>2, <2>0, <2>2 DEF TransferInv, NetTypes, ClientInv, RequestInv
    <3>2. Unasked(c)'
      <4>1. Tag(c)' = <<c, session[c] + 1>> /\ session[c] \in Nat
        BY <1>1, ServerAssumption DEF Tag, TransferInv, NetTypes
      <4>2. \A k \in DOMAIN clientQueue : clientQueue[k] # <<c, session[c] + 1>>
        BY <4>1 DEF TransferInv, QueueInv
      <4>3. sClient # <<c, session[c] + 1>>
        <5>1. sClient = <<>> \/ sClient[2] <= session[sClient[1]]
          BY DEF TransferInv, SenderInv
        <5>2. <<c, session[c] + 1>>[1] = c /\ <<c, session[c] + 1>>[2] = session[c] + 1
          OBVIOUS
        <5>3. ~(session[c] + 1 <= session[c])
          BY <4>1
        <5>4. <<c, session[c] + 1>> # <<>>
          OBVIOUS
        <5> QED BY <5>1, <5>2, <5>3, <5>4
      <4> QED BY <1>2, <4>1, <4>2, <4>3 DEF Unasked, Queued, Served, sendVars
    <3>3. RequestInv(c)' /\ StreamInv(c)' /\ ReceiveInv(c)'
      BY <3>1, <3>2 DEF RequestInv, StreamInv, ReceiveInv
    <3>4. DiskInv(c)'
      BY <1>2, <2>0, <2>2, ReachSame DEF ClientInv, DiskInv
    <3> QED BY <2>2, <3>3, <3>4 DEF ClientInv
  <2> QED BY <2>1, <2>2
<1> QED BY <1>2, <1>3, <1>4, <1>5 DEF TransferInv

LEMMA GoneInv ==
    ASSUME TransferInv, UNCHANGED <<actual, session, disk, curFile, left, at, clientQueue,
                                    sendVars, fault>>,
           MainTypes',
           NEW G \in SUBSET Clients,
           up' = [d \in Clients |-> IF d \in G THEN FALSE ELSE up[d]],
           toServer' = [d \in Clients |-> IF d \in G THEN <<>> ELSE toServer[d]],
           toClient' = [d \in Clients |-> IF d \in G THEN <<>> ELSE toClient[d]],
           cpc' = [d \in Clients |-> IF d \in G THEN "off" ELSE cpc[d]]
    PROVE  TransferInv'
<1>1. NetTypes' /\ ClientTypes'
  <2>1. <<>> \in Seq({"LIST", "SEND"}) /\ <<>> \in Seq(Messages)
    BY EmptySeq
  <2> QED BY <2>1 DEF TransferInv, NetTypes, ClientTypes
<1>2. SenderInv' /\ QueueInv'
  BY ReachSame DEF TransferInv, SenderInv, QueueInv, sendVars, LeftOf
<1>3. ASSUME NEW d \in Clients PROVE ClientInv(d)'
  <2>0. ClientInv(d)
    BY DEF TransferInv
  <2>1. CASE d \notin G
    <3>1. Local(d)' = Local(d) /\ Tag(d)' = Tag(d)
      BY <2>1 DEF Local, Tag
    <3> QED BY <2>0, <3>1, SameClient DEF Queued, Served, SenderAt, sendVars
  <2>2. CASE d \in G
    BY <2>0, <2>2, GoneClient
  <2> QED BY <2>1, <2>2
<1> QED BY <1>1, <1>2, <1>3 DEF TransferInv

LEMMA BreakInv ==
    ASSUME TransferInv, NEW c \in Clients, Break(c), UNCHANGED actual
    PROVE  TransferInv'
<1>1. /\ up' = [d \in Clients |-> IF d \in {c} THEN FALSE ELSE up[d]]
      /\ toServer' = [d \in Clients |-> IF d \in {c} THEN <<>> ELSE toServer[d]]
      /\ toClient' = [d \in Clients |-> IF d \in {c} THEN <<>> ELSE toClient[d]]
      /\ cpc' = [d \in Clients |-> IF d \in {c} THEN "off" ELSE cpc[d]]
  BY DEF Break, TransferInv, NetTypes
<1>2. UNCHANGED <<session, disk, curFile, left, at, clientQueue, sendVars, mainVars, fault>>
  BY DEF Break
<1>3. MainTypes'
  BY <1>2 DEF TransferInv, MainTypes, mainVars
<1>4. {c} \in SUBSET Clients
  OBVIOUS
<1> QED BY <1>1, <1>2, <1>3, <1>4, GoneInv

LEMMA ExitInv ==
    ASSUME TransferInv, Exit, UNCHANGED actual
    PROVE  TransferInv'
<1>1. /\ up' = [d \in Clients |-> IF d \in Clients THEN FALSE ELSE up[d]]
      /\ toServer' = [d \in Clients |-> IF d \in Clients THEN <<>> ELSE toServer[d]]
      /\ toClient' = [d \in Clients |-> IF d \in Clients THEN <<>> ELSE toClient[d]]
      /\ cpc' = [d \in Clients |-> IF d \in Clients THEN "off" ELSE cpc[d]]
  BY DEF Exit
<1>2. UNCHANGED <<session, disk, curFile, left, at, clientQueue, sendVars, exiting, fault>>
      /\ mpc' = "destroyed" /\ servAlive' = FALSE
  BY DEF Exit
<1>3. MainTypes'
  BY <1>2 DEF TransferInv, MainTypes
<1>4. Clients \in SUBSET Clients
  OBVIOUS
<1> QED BY <1>1, <1>2, <1>3, <1>4, GoneInv

-----------------------------------------------------------------------------
(* Requests *)

LEMMA HandleListInv ==
    ASSUME TransferInv, NEW c \in Clients, HandleList(c), UNCHANGED actual
    PROVE  TransferInv'
<1>1. /\ up[c] /\ toServer[c] # <<>> /\ Head(toServer[c]) = "LIST"
      /\ toServer' = [toServer EXCEPT ![c] = Tail(toServer[c])]
      /\ toClient' = [toClient EXCEPT ![c] = Append(toClient[c], LIST)]
  BY DEF HandleList, Request
<1>2. UNCHANGED <<up, session, clientVars, clientQueue, sendVars, mainVars, fault>>
  BY DEF HandleList
<1>3. ClientInv(c) /\ toServer[c] \in Seq({"LIST", "SEND"}) /\ toClient[c] \in Seq(Messages)
  BY DEF TransferInv, NetTypes
<1>4. cpc[c] = "asked" /\ toServer[c] = <<"LIST">> /\ toClient[c] = <<>>
  <2>1. \/ toServer[c] = <<"LIST">> /\ cpc[c] = "asked" /\ toClient[c] = <<>>
        \/ toServer[c] = <<"SEND">>
    BY <1>1, <1>3 DEF ClientInv, RequestInv, TransferInv, NetTypes
  <2>2. toServer[c] # <<"SEND">>
    BY <1>1
  <2> QED BY <2>1, <2>2
<1>5. toServer'[c] = <<>> /\ toClient'[c] = <<LIST>> /\ cpc'[c] = "asked" /\ up'[c]
  BY <1>1, <1>2, <1>4 DEF TransferInv, NetTypes, clientVars
<1>6. LIST \in Messages
  BY NumbersFit DEF LIST, Messages
<1>7. NetTypes' /\ ClientTypes' /\ MainTypes'
  <2>1. toServer' \in [Clients -> Seq({"LIST", "SEND"})] /\ toClient' \in [Clients -> Seq(Messages)]
    BY <1>1, <1>3, <1>6, AppendProperties, HeadTailProperties DEF TransferInv, NetTypes
  <2> QED BY <1>2, <2>1 DEF TransferInv, NetTypes, ClientTypes, MainTypes, clientVars, mainVars
<1>8. SenderInv' /\ QueueInv'
  BY <1>2, ReachSame DEF TransferInv, SenderInv, QueueInv, sendVars, LeftOf
<1>9. ASSUME NEW d \in Clients PROVE ClientInv(d)'
  <2>0. ClientInv(d) /\ Tag(d)' = Tag(d)
    BY <1>2 DEF TransferInv, Tag
  <2>1. CASE d # c
    <3>1. Local(d)' = Local(d)
      BY <1>1, <1>2, <2>1 DEF Local, TransferInv, NetTypes, clientVars
    <3> QED BY <1>2, <2>0, <3>1, SameClient DEF Queued, Served, SenderAt, sendVars
  <2>2. CASE d = c
    <3>1. Unasked(c)'
      BY <1>2, <1>3, <1>4, <2>0, <2>2
         DEF Unasked, Queued, Served, sendVars, ClientInv, RequestInv
    <3>2. RequestInv(c)' /\ StreamInv(c)' /\ ReceiveInv(c)'
      BY <1>5, <3>1 DEF RequestInv, StreamInv, ReceiveInv
    <3>3. DiskInv(c)'
      BY <1>2, <1>3, ReachSame DEF ClientInv, DiskInv, clientVars
    <3> QED BY <2>2, <3>2, <3>3 DEF ClientInv
  <2> QED BY <2>1, <2>2
<1> QED BY <1>2, <1>7, <1>8, <1>9 DEF TransferInv

\* The elements of a queue after one was added or the first was taken.
LEMMA AppendIs ==
    ASSUME NEW S, NEW q \in Seq(S), NEW e \in S
    PROVE  /\ Append(q, e) \in Seq(S) /\ DOMAIN Append(q, e) = 1 .. (Len(q) + 1)
           /\ \A k \in DOMAIN q : Append(q, e)[k] = q[k]
           /\ Append(q, e)[Len(q) + 1] = e
BY AppendProperties, LenProperties

LEMMA TailIs ==
    ASSUME NEW S, NEW q \in Seq(S), q # <<>>
    PROVE  /\ Head(q) = q[1] /\ Tail(q) \in Seq(S) /\ Len(Tail(q)) = Len(q) - 1
           /\ 1 \in DOMAIN q
           /\ \A k \in DOMAIN Tail(q) : k + 1 \in DOMAIN q /\ Tail(q)[k] = q[k + 1]
<1>1. Len(q) \in Nat \ {0} /\ DOMAIN q = 1 .. Len(q)
  BY EmptySeq, LenProperties
<1>2. Head(q) = q[1] /\ Tail(q) \in Seq(S) /\ Len(Tail(q)) = Len(q) - 1
  BY HeadTailProperties
<1>3. DOMAIN Tail(q) = 1 .. (Len(q) - 1)
  BY <1>1, <1>2, LenProperties
<1> QED BY <1>1, <1>2, <1>3, HeadTailProperties

LEMMA HandleSendInv ==
    ASSUME TransferInv, NEW c \in Clients, HandleSend(c), UNCHANGED actual
    PROVE  TransferInv'
<1>1. /\ up[c] /\ toServer[c] # <<>> /\ Head(toServer[c]) = "SEND"
      /\ toServer' = [toServer EXCEPT ![c] = Tail(toServer[c])]
      /\ clientQueue' = IF Len(clientQueue) < MAXCLIENTS
                        THEN Append(clientQueue, Tag(c)) ELSE clientQueue
  BY DEF HandleSend, Request, Tag
<1>2. UNCHANGED <<up, session, toClient, clientVars, sendVars, mainVars, fault>>
  BY DEF HandleSend
<1>3. ClientInv(c) /\ toServer[c] \in Seq({"LIST", "SEND"}) /\ clientQueue \in Seq(Clients \X Nat)
  BY DEF TransferInv, NetTypes
<1>4. cpc[c] = "receiving" /\ toServer[c] = <<"SEND">> /\ Unasked(c)
      /\ toClient[c] = <<>> /\ ClientAt(c) = Start(1)
  <2>1. toServer[c] = <<"SEND">> /\ cpc[c] = "receiving"
    <3>1. toServer[c] # <<"LIST">>
      BY <1>1
    <3> QED BY <1>1, <1>3, <3>1 DEF ClientInv, RequestInv, TransferInv, NetTypes
  <2> QED BY <1>1, <1>3, <2>1 DEF ClientInv, RequestInv
<1>5. toServer'[c] = <<>> /\ toClient'[c] = <<>> /\ cpc'[c] = "receiving" /\ up'[c]
  BY <1>1, <1>2, <1>4 DEF TransferInv, NetTypes, clientVars
<1>6. Tag(c) \in Clients \X Nat /\ Tag(c)[1] = c /\ Tag(c)[2] = session[c]
  BY ServerAssumption DEF Tag, TransferInv, NetTypes
<1>7. NetTypes' /\ ClientTypes' /\ MainTypes'
  <2>1. toServer' \in [Clients -> Seq({"LIST", "SEND"})] /\ clientQueue' \in Seq(Clients \X Nat)
    BY <1>1, <1>3, <1>6, AppendProperties, HeadTailProperties DEF TransferInv, NetTypes
  <2> QED BY <1>2, <2>1 DEF TransferInv, NetTypes, ClientTypes, MainTypes, clientVars, mainVars
<1>8. ASSUME clientQueue' = Append(clientQueue, Tag(c))
      PROVE  \A k \in DOMAIN clientQueue' :
               \/ k \in DOMAIN clientQueue /\ clientQueue'[k] = clientQueue[k]
               \/ k = Len(clientQueue) + 1 /\ clientQueue'[k] = Tag(c)
  <2>1. DOMAIN clientQueue = 1 .. Len(clientQueue) /\ Len(clientQueue) \in Nat
    BY <1>3, LenProperties
  <2> QED BY <1>3, <1>6, <1>8, <2>1, AppendIs
<1>9. SenderInv' /\ QueueInv'
  <2>1. SenderInv'
    BY <1>2, ReachSame DEF TransferInv, SenderInv, sendVars, LeftOf
  <2>2. ~Queued(c) /\ ~Served(c)
    BY <1>4 DEF Unasked
  <2>3. QueueInv'
    <3>1. CASE clientQueue' = clientQueue
      BY <1>2, <3>1 DEF TransferInv, QueueInv, sendVars
    <3>2. CASE clientQueue' = Append(clientQueue, Tag(c))
      <4>1. \A k \in DOMAIN clientQueue' : clientQueue'[k][2] <= session'[clientQueue'[k][1]]
        <5>1. session[c] <= session[c]
          BY ServerAssumption DEF TransferInv, NetTypes
        <5> QED BY <1>2, <1>6, <1>8, <3>2, <5>1 DEF TransferInv, QueueInv
      <4>2. \A j, k \in DOMAIN clientQueue' : clientQueue'[j] = clientQueue'[k] => j = k
        BY <1>8, <2>2, <3>2 DEF TransferInv, QueueInv, Queued
      <4>3. sClient' # <<>> => \A k \in DOMAIN clientQueue' : clientQueue'[k] # sClient'
        BY <1>2, <1>8, <2>2, <3>2 DEF TransferInv, QueueInv, Served, sendVars
      <4> QED BY <4>1, <4>2, <4>3 DEF QueueInv
    <3> QED BY <1>1, <3>1, <3>2
  <2> QED BY <2>1, <2>3
<1>10. ASSUME NEW d \in Clients PROVE ClientInv(d)'
  <2>0. ClientInv(d) /\ Tag(d)' = Tag(d)
    BY <1>2 DEF TransferInv, Tag
  <2>1. CASE d # c
    <3>1. Local(d)' = Local(d)
      BY <1>1, <1>2, <2>1 DEF Local, TransferInv, NetTypes, clientVars
    <3>2. Queued(d)' => Queued(d)
      <4>1. Tag(d) # Tag(c)
        BY <2>1 DEF Tag
      <4> QED BY <1>1, <1>8, <2>0, <4>1 DEF Queued
    <3> QED BY <1>2, <2>0, <3>1, <3>2, SameClient DEF Served, SenderAt, sendVars
  <2>2. CASE d = c
    <3>1. ~Served(c)' /\ ClientAt(c)' = Start(1) /\ Start(1)' = Start(1)
      BY <1>2, <1>4, <2>0, <2>2 DEF Unasked, Served, sendVars, ClientAt, clientVars, Start
    <3>2. RequestInv(c)'
      BY <1>5, <3>1 DEF RequestInv
    <3>3. StreamInv(c)'
      BY <1>5, <3>1 DEF StreamInv
    <3>4. ReceiveInv(c)' /\ DiskInv(c)'
      BY <1>2, <1>3, ReachSame DEF ClientInv, ReceiveInv, HaveFiles, DiskInv, clientVars
    <3> QED BY <2>2, <3>2, <3>3, <3>4 DEF ClientInv
  <2> QED BY <2>1, <2>2
<1> QED BY <1>2, <1>7, <1>9, <1>10 DEF TransferInv

-----------------------------------------------------------------------------
(* The client *)

\* The files of a client, as DiskInv has them.
FilesFit(d) ==
    \A h \in Files :
        /\ Len(d[h].bytes) \in {OldBytes[h], FileBytes[h]} \cup Reach(h)
        /\ d[h].date = "listed" => Whole(h, d[h].bytes)

LEMMA ReceivedFits ==
    ASSUME actual \in ActualBytes, NEW d \in [Files -> OnDisk], FilesFit(d),
           NEW f \in 1 .. (NFiles + 1), \A h \in 1 .. (f - 1) : d[h].date = "listed",
           NEW g \in f .. (NFiles + 1), Follows(f, g)
    PROVE  /\ Received(d, f, g) \in [Files -> OnDisk] /\ FilesFit(Received(d, f, g))
           /\ \A h \in 1 .. (g - 1) : Received(d, f, g)[h].date = "listed"
<1> DEFINE r == Received(d, f, g)
<1>1. NFiles \in Nat /\ Files = 1 .. NFiles
  BY NumbersFit DEF Files
<1>2. ASSUME NEW h \in Files
      PROVE  /\ r[h] \in OnDisk /\ r[h].bytes = d[h].bytes
             /\ r[h].date = "listed" => d[h].date = "listed" \/ h \in f .. (g - 1)
             /\ h \in f .. (g - 1) => r[h].date = "listed"
             /\ h \in 1 .. (f - 1) => r[h] = d[h]
  <2>1. d[h] \in OnDisk
    OBVIOUS
  <2>2. Opened(d[h]) \in OnDisk /\ Dated(d[h]) \in OnDisk
        /\ Opened(d[h]).bytes = d[h].bytes /\ Dated(d[h]).bytes = d[h].bytes
        /\ Dated(d[h]).date = "listed"
        /\ (Opened(d[h]).date = "listed" => d[h].date = "listed")
    BY <2>1 DEF OnDisk, Opened, Dated
  <2>3. r[h] = IF h \in f .. (g - 1) THEN Dated(d[h])
               ELSE IF h = g THEN Opened(d[h]) ELSE d[h]
    BY DEF Received
  <2> QED BY <1>1, <2>1, <2>2, <2>3
<1>3. r \in [Files -> OnDisk]
  BY <1>2 DEF Received
<1>4. ASSUME NEW h \in Files
      PROVE  /\ Len(r[h].bytes) \in {OldBytes[h], FileBytes[h]} \cup Reach(h)
             /\ r[h].date = "listed" => Whole(h, r[h].bytes)
  <2>1. CASE h \notin f .. (g - 1)
    BY <1>2, <2>1 DEF FilesFit
  <2>2. CASE h \in f .. (g - 1)
    <3>1. FileBytes[h] = 0 /\ Reach(h) = {0}
      BY <2>2, ReachStart DEF Follows
    <3>2. Len(d[h].bytes) \in {OldBytes[h], 0} /\ OldBytes[h] \in Nat
      BY <3>1, NumbersFit DEF FilesFit
    <3>3. d[h].bytes \in Bytes
      BY DEF OnDisk, Bytes
    <3>4. Whole(h, d[h].bytes)
      BY <3>1, <3>2, <3>3, WholeIs
    <3> QED BY <1>2, <3>4 DEF FilesFit
  <2> QED BY <2>1, <2>2
<1>5. ASSUME NEW h \in 1 .. (g - 1) PROVE r[h].date = "listed"
  BY <1>1, <1>2
<1> QED BY <1>3, <1>4, <1>5 DEF FilesFit

LEMMA AdvanceIs ==
    ASSUME actual \in ActualBytes, UNCHANGED actual, ClientTypes, NetTypes,
           NEW c \in Clients, NEW d \in [Files -> OnDisk], FilesFit(d),
           NEW f \in 1 .. (NFiles + 1), \A h \in 1 .. (f - 1) : d[h].date = "listed",
           AdvanceTo(c, d, f, NextFile(f))
    PROVE  /\ ClientTypes' /\ cpc' \in [Clients -> {"off", "asked", "receiving", "ready"}]
           /\ ReceiveInv(c)' /\ DiskInv(c)'
           /\ ClientAt(c)' = Start(f)
           /\ cpc'[c] = IF NextFile(f) > NFiles THEN "ready" ELSE "receiving"
           /\ cpc'[c] = "ready" => curFile'[c] = 0
           /\ \A e \in Clients \ {c} : /\ disk'[e] = disk[e] /\ cpc'[e] = cpc[e]
                                       /\ curFile'[e] = curFile[e]
                                       /\ left'[e] = left[e] /\ at'[e] = at[e]
<1> DEFINE g == NextFile(f)
           r == Received(d, f, g)
<1>1. g \in f .. (NFiles + 1) /\ Follows(f, g)
  BY NextFileExists
<1>2. NFiles \in Nat /\ Files = 1 .. NFiles /\ g \in 1 .. (NFiles + 1)
  BY <1>1, NumbersFit DEF Files
<1>3. /\ r \in [Files -> OnDisk] /\ FilesFit(r)
      /\ \A h \in 1 .. (g - 1) : r[h].date = "listed"
  BY <1>1, ReceivedFits
<1>4. /\ disk' = [disk EXCEPT ![c] = r]
      /\ cpc' = [cpc EXCEPT ![c] = IF g > NFiles THEN "ready" ELSE "receiving"]
      /\ curFile' = [curFile EXCEPT ![c] = IF g > NFiles THEN 0 ELSE g]
      /\ left' = [left EXCEPT ![c] = IF g > NFiles THEN 0 ELSE FileBytes[g]]
      /\ at' = [at EXCEPT ![c] = 0]
  BY DEF AdvanceTo
<1>5. /\ disk'[c] = r /\ cpc'[c] = IF g > NFiles THEN "ready" ELSE "receiving"
      /\ curFile'[c] = (IF g > NFiles THEN 0 ELSE g) /\ at'[c] = 0
      /\ left'[c] = IF g > NFiles THEN 0 ELSE FileBytes[g]
  BY <1>4 DEF ClientTypes, NetTypes
<1>6. ClientTypes' /\ cpc' \in [Clients -> {"off", "asked", "receiving", "ready"}]
  <2>1. (IF g > NFiles THEN 0 ELSE g) \in 0 .. NFiles
    BY <1>2
  <2>2. (IF g > NFiles THEN 0 ELSE FileBytes[g]) \in 0 .. (SizeModulus - 1)
    BY <1>2, NumbersFit
  <2> QED BY <1>3, <1>4, <2>1, <2>2 DEF ClientTypes, NetTypes
<1>7. ReceiveInv(c)'
  <2>1. CASE g > NFiles
    BY <1>2, <1>3, <1>5, <2>1 DEF ReceiveInv, HaveFiles
  <2>2. CASE ~(g > NFiles)
    <3>1. g \in Files /\ FileBytes[g] > 0 /\ FileBytes[g] \in Nat /\ g # 0
      BY <1>1, <1>2, <2>2, NumbersFit DEF Follows
    <3>2. 0 \in Reach(g)' /\ LeftOf(g, 0) = FileBytes[g]
      BY <3>1, ReachStart, ReachSame
    <3> QED BY <1>3, <1>5, <2>2, <3>1, <3>2 DEF ReceiveInv, LeftOf
  <2> QED BY <2>1, <2>2
<1>8. DiskInv(c)'
  BY <1>3, <1>5, ReachSame DEF DiskInv, FilesFit
<1>9. ClientAt(c)' = Start(f)
  BY <1>1, <1>2, <1>5 DEF ClientAt, Start, Place
<1>10. cpc'[c] = "ready" => curFile'[c] = 0
  BY <1>5
<1> QED BY <1>4, <1>5, <1>6, <1>7, <1>8, <1>9, <1>10 DEF ClientTypes, NetTypes

\* The rest of a step of client c.
LEMMA ClientStep ==
    ASSUME TransferInv, NEW c \in Clients, ClientInv(c)',
           UNCHANGED <<up, session, clientQueue, sendVars, mainVars, fault, actual>>,
           toServer' \in [Clients -> Seq({"LIST", "SEND"})],
           toClient' \in [Clients -> Seq(Messages)],
           cpc' \in [Clients -> {"off", "asked", "receiving", "ready"}],
           ClientTypes',
           \A d \in Clients \ {c} : Local(d)' = Local(d)
    PROVE  TransferInv'
<1>1. NetTypes' /\ MainTypes'
  BY DEF TransferInv, NetTypes, MainTypes, mainVars
<1>2. SenderInv' /\ QueueInv'
  BY ReachSame DEF TransferInv, SenderInv, QueueInv, sendVars, LeftOf
<1>3. ASSUME NEW d \in Clients, d # c PROVE ClientInv(d)'
  <2>1. ClientInv(d) /\ Local(d)' = Local(d) /\ Tag(d)' = Tag(d)
    BY <1>3 DEF TransferInv, Tag
  <2> QED BY <2>1, SameClient DEF Queued, Served, SenderAt, sendVars
<1> QED BY <1>1, <1>2, <1>3 DEF TransferInv

\* A client that takes a message, and what is left under way.
LEMMA DeliveredIs ==
    ASSUME TransferInv, NEW c \in Clients, NEW type, Delivered(c, type)
    PROVE  LET ms == toClient[c] IN
           /\ up[c] /\ ms \in Seq(Messages) /\ ms # <<>> /\ Head(ms) = ms[1]
           /\ ms[1].type = type /\ 1 \in DOMAIN ms
           /\ toClient' \in [Clients -> Seq(Messages)]
           /\ toClient'[c] = Tail(ms) /\ \A d \in Clients \ {c} : toClient'[d] = toClient[d]
           /\ Len(ms) \in Nat /\ Len(Tail(ms)) = Len(ms) - 1 /\ DOMAIN ms = 1 .. Len(ms)
           /\ DOMAIN Tail(ms) = 1 .. (Len(ms) - 1)
           /\ \A k \in 1 .. (Len(ms) - 1) : Tail(ms)[k] = ms[k + 1]
<1>1. /\ up[c] /\ toClient[c] # <<>> /\ Head(toClient[c]).type = type
      /\ toClient' = [toClient EXCEPT ![c] = Tail(toClient[c])]
  BY DEF Delivered
<1>2. toClient \in [Clients -> Seq(Messages)] /\ toClient[c] \in Seq(Messages)
  BY DEF TransferInv, NetTypes
<1> QED BY <1>1, <1>2, TailIs, LenProperties

LEMMA ClientListInv ==
    ASSUME TransferInv, NEW c \in Clients, ClientList(c), UNCHANGED actual
    PROVE  TransferInv'
<1>1. Delivered(c, "LIST")
      /\ UNCHANGED <<up, session, clientQueue, sendVars, mainVars, fault>>
  BY DEF ClientList
<1>2. ClientInv(c) /\ ClientTypes /\ NetTypes /\ actual \in ActualBytes
  BY DEF TransferInv, MainTypes
<1>3. cpc[c] = "asked" /\ toServer[c] = <<>> /\ toClient'[c] = <<>> /\ Unasked(c) /\ up[c]
  <2>1. up[c] /\ toClient[c][1].type = "LIST" /\ 1 \in DOMAIN toClient[c]
        /\ toClient'[c] = Tail(toClient[c]) /\ toClient[c] # <<>>
    BY <1>1, DeliveredIs
  <2>2. ~IsBlock(toClient[c][1]) /\ toClient[c][1] # ABORTED
    BY <2>1 DEF IsBlock, ABORTED
  <2>3. cpc[c] \notin {"receiving", "ready"}
    BY <1>2, <2>1, <2>2 DEF ClientInv, StreamInv
  <2>4. cpc[c] = "asked"
    BY <1>2, <2>1, <2>3 DEF ClientInv, RequestInv, NetTypes
  <2>5. toServer[c] = <<>> /\ toClient[c] = <<LIST>> /\ Unasked(c)
    BY <1>2, <2>1, <2>4 DEF ClientInv, RequestInv
  <2> QED BY <2>1, <2>4, <2>5
<1>4. Unasked(c)'
  BY <1>1, <1>3 DEF Unasked, Queued, Served, Tag, sendVars
<1>5. CASE /\ HaveFiles(c)
           /\ cpc' = [cpc EXCEPT ![c] = "ready"]
           /\ UNCHANGED <<disk, curFile, left, at, toServer>>
  <2>1. cpc'[c] = "ready" /\ up'[c]
    BY <1>1, <1>2, <1>3, <1>5 DEF NetTypes
  <2>2. RequestInv(c)'
    BY <1>3, <1>4, <1>5, <2>1 DEF RequestInv, Unasked
  <2>3. StreamInv(c)'
    BY <1>3, <1>4 DEF StreamInv, Unasked
  <2>4. ReceiveInv(c)' /\ DiskInv(c)'
    BY <1>2, <1>5, <2>1, ReachSame DEF ReceiveInv, HaveFiles, ClientInv, DiskInv
  <2>5. ClientInv(c)'
    BY <2>2, <2>3, <2>4 DEF ClientInv
  <2>6. ClientTypes' /\ \A d \in Clients \ {c} : Local(d)' = Local(d)
    BY <1>1, <1>2, <1>5, DeliveredIs DEF Local, ClientTypes, NetTypes
  <2>7. cpc' \in [Clients -> {"off", "asked", "receiving", "ready"}]
        /\ toServer' \in [Clients -> Seq({"LIST", "SEND"})]
    BY <1>2, <1>5 DEF NetTypes
  <2> QED BY <1>1, <2>5, <2>6, <2>7, DeliveredIs, ClientStep
<1>6. CASE /\ ~HaveFiles(c)
           /\ AdvanceTo(c, disk[c], 1, NextFile(1))
           /\ toServer' = IF NextFile(1) > NFiles THEN toServer
                          ELSE [toServer EXCEPT ![c] = Append(toServer[c], "SEND")]
  <2>1. FilesFit(disk[c]) /\ disk[c] \in [Files -> OnDisk] /\ 1 \in 1 .. (NFiles + 1)
    BY <1>2, NumbersFit DEF ClientInv, DiskInv, FilesFit, ClientTypes
  <2>2. \A h \in 1 .. (1 - 1) : disk[c][h].date = "listed"
    OBVIOUS
  <2>3. /\ ClientTypes' /\ cpc' \in [Clients -> {"off", "asked", "receiving", "ready"}]
        /\ ReceiveInv(c)' /\ DiskInv(c)'
        /\ ClientAt(c)' = Start(1)
        /\ cpc'[c] = IF NextFile(1) > NFiles THEN "ready" ELSE "receiving"
        /\ cpc'[c] = "ready" => curFile'[c] = 0
        /\ \A e \in Clients \ {c} : /\ disk'[e] = disk[e] /\ cpc'[e] = cpc[e]
                                    /\ curFile'[e] = curFile[e]
                                    /\ left'[e] = left[e] /\ at'[e] = at[e]
    BY <1>2, <1>6, <2>1, <2>2, AdvanceIs
  <2>4. /\ toServer'[c] = IF cpc'[c] = "ready" THEN <<>> ELSE <<"SEND">>
        /\ toServer' \in [Clients -> Seq({"LIST", "SEND"})]
        /\ \A e \in Clients \ {c} : toServer'[e] = toServer[e]
    <3>1. Append(<<>>, "SEND") = <<"SEND">> /\ <<"SEND">> \in Seq({"LIST", "SEND"})
      OBVIOUS
    <3> QED BY <1>2, <1>3, <1>6, <2>3, <3>1 DEF NetTypes
  <2>5. RequestInv(c)'
    <3>1. Start(1)' = Start(1) /\ up'[c]
      BY <1>1, <1>3 DEF Start
    <3> QED BY <1>3, <1>4, <2>3, <2>4, <3>1 DEF RequestInv, Unasked
  <2>6. StreamInv(c)'
    BY <1>3, <1>4 DEF StreamInv, Unasked
  <2>7. ClientInv(c)'
    BY <2>3, <2>5, <2>6 DEF ClientInv
  <2>8. \A d \in Clients \ {c} : Local(d)' = Local(d)
    BY <1>1, <2>3, <2>4, DeliveredIs DEF Local
  <2> QED BY <1>1, <2>3, <2>4, <2>7, <2>8, DeliveredIs, ClientStep
<1> QED BY <1>5, <1>6 DEF ClientList

\* A block comes to a client that has its file open, at its place.
LEMMA BlockIs ==
    ASSUME TransferInv, NEW c \in Clients, Delivered(c, "SEND")
    PROVE  LET b == toClient[c][1]
               f == curFile[c]
           IN  /\ cpc[c] = "receiving" /\ f \in Files /\ at[c] \in Reach(f)
               /\ at[c] # FileBytes[f]
               /\ b = BLOCK(f, at[c], BlockLen(f, at[c])) /\ b.len = BlockLen(f, at[c])
               /\ PlaceAt(c, 1) = After(f, at[c] + b.len)
               /\ toServer[c] = <<>> /\ ~Queued(c)
<1> DEFINE b == toClient[c][1]
           f == curFile[c]
<1>1. /\ up[c] /\ toClient[c] # <<>> /\ b.type = "SEND" /\ 1 \in DOMAIN toClient[c]
      /\ b \in Messages
  BY DeliveredIs, ElementOfSeq
<1>2. ClientInv(c)
  BY DEF TransferInv
<1>3. cpc[c] \in {"receiving", "ready"}
  BY <1>1, <1>2 DEF ClientInv, RequestInv, TransferInv, NetTypes, LIST
<1>4. IsBlock(b) /\ Place(b.file, b.from) = PlaceAt(c, 0)
  <2>1. \/ IsBlock(b) /\ Place(b.file, b.from) = PlaceAt(c, 1 - 1)
        \/ b = ABORTED
    BY <1>1, <1>2, <1>3 DEF ClientInv, StreamInv
  <2>2. b # ABORTED
    BY <1>1 DEF ABORTED
  <2> QED BY <2>1, <2>2
<1>5. f # 0 /\ b.file = f /\ b.from = at[c]
  <2>1. b.file # NFiles + 1
    BY <1>4, NumbersFit DEF IsBlock, Files
  <2> QED BY <1>4, <2>1 DEF PlaceAt, ClientAt, Place
<1>6. cpc[c] = "receiving"
  BY <1>1, <1>2, <1>3, <1>5 DEF ClientInv, RequestInv
<1>7. f \in Files /\ at[c] \in Reach(f) /\ at[c] # FileBytes[f]
  BY <1>2, <1>6 DEF ClientInv, ReceiveInv
<1>8. b.len = BlockLen(f, at[c])
  BY <1>4, <1>5 DEF IsBlock, BlockLen
<1>9. b = BLOCK(f, at[c], BlockLen(f, at[c]))
  BY <1>1, <1>5, <1>8 DEF Messages, BLOCK
<1>10. PlaceAt(c, 1) = After(f, at[c] + b.len)
  BY <1>5 DEF PlaceAt, Behind
<1>11. toServer[c] = <<>> /\ ~Queued(c)
  BY <1>1, <1>2, <1>6 DEF ClientInv, RequestInv
<1> QED BY <1>6, <1>7, <1>8, <1>9, <1>10, <1>11

\* The invariant of a client after it took a block.
LEMMA TakenBlock ==
    ASSUME TransferInv, NEW c \in Clients, Delivered(c, "SEND"),
           UNCHANGED <<up, session, toServer, clientQueue, sendVars, actual>>,
           cpc'[c] \in {"receiving", "ready"},
           cpc'[c] = "ready" => curFile'[c] = 0,
           ClientAt(c)' = PlaceAt(c, 1)
    PROVE  RequestInv(c)' /\ StreamInv(c)'
<1> DEFINE ms == toClient[c]
<1>1. /\ up[c] /\ toClient'[c] = Tail(ms) /\ Len(ms) \in Nat \ {0} /\ DOMAIN ms = 1 .. Len(ms)
      /\ Len(Tail(ms)) = Len(ms) - 1 /\ DOMAIN Tail(ms) = 1 .. (Len(ms) - 1)
      /\ \A k \in 1 .. (Len(ms) - 1) : Tail(ms)[k] = ms[k + 1]
  BY DeliveredIs
<1>2. cpc[c] = "receiving" /\ toServer[c] = <<>> /\ ~Queued(c)
  BY BlockIs
<1>3. toServer'[c] = <<>> /\ ~Queued(c)' /\ up'[c] /\ (Served(c)' <=> Served(c))
  BY <1>1, <1>2 DEF Queued, Served, Tag, sendVars
<1>4. RequestInv(c)'
  BY <1>3 DEF RequestInv
<1>5. ASSUME NEW k \in 0 .. (Len(ms) - 1) PROVE PlaceAt(c, k)' = PlaceAt(c, k + 1)
  <2>1. CASE k = 0
    BY <2>1 DEF PlaceAt
  <2>2. CASE k # 0
    <3>1. k \in 1 .. (Len(ms) - 1) /\ k + 1 # 0
      BY <1>1, <2>2
    <3>2. toClient'[c][k] = ms[k + 1]
      BY <1>1, <3>1
    <3>3. \A m : Behind(m)' = Behind(m)
      BY DEF Behind, After, Start
    <3> QED BY <2>2, <3>1, <3>2, <3>3 DEF PlaceAt
  <2> QED BY <2>1, <2>2
<1>6. StreamInv(c)
  BY DEF TransferInv, ClientInv
<1>7. ASSUME NEW k \in DOMAIN toClient'[c], NEW m, m = toClient'[c][k]
      PROVE  \/ IsBlock(m)' /\ Place(m.file, m.from) = PlaceAt(c, k - 1)'
             \/ m = ABORTED /\ k = Len(toClient'[c]) /\ ~Served(c)'
  <2>1. /\ k \in 1 .. (Len(ms) - 1) /\ k + 1 \in DOMAIN ms /\ m = ms[k + 1]
        /\ k - 1 \in 0 .. (Len(ms) - 1) /\ (k - 1) + 1 = (k + 1) - 1
    BY <1>1, <1>7
  <2>2. \/ IsBlock(m) /\ Place(m.file, m.from) = PlaceAt(c, (k + 1) - 1)
        \/ m = ABORTED /\ k + 1 = Len(ms) /\ ~Served(c)
    BY <1>2, <1>6, <2>1 DEF StreamInv
  <2>3. PlaceAt(c, k - 1)' = PlaceAt(c, (k + 1) - 1)
    BY <1>5, <2>1
  <2>4. CASE IsBlock(m) /\ Place(m.file, m.from) = PlaceAt(c, (k + 1) - 1)
    BY <2>3, <2>4, ReachSame
  <2>5. CASE m = ABORTED /\ k + 1 = Len(ms) /\ ~Served(c)
    BY <1>1, <1>3, <2>1, <2>5
  <2> QED BY <2>2, <2>4, <2>5
<1>8. Served(c)' /\ spc' \in {"open", "send"} => SenderAt' = PlaceAt(c, Len(toClient[c]))'
  <2> SUFFICES ASSUME Served(c)', spc' \in {"open", "send"}
               PROVE  SenderAt' = PlaceAt(c, Len(toClient[c]))'
    OBVIOUS
  <2>1. SenderAt' = SenderAt /\ SenderAt = PlaceAt(c, Len(ms))
    BY <1>2, <1>3, <1>6 DEF StreamInv, SenderAt, sendVars, Start, After
  <2>2. Len(toClient'[c]) \in 0 .. (Len(ms) - 1) /\ Len(toClient'[c]) + 1 = Len(ms)
    BY <1>1
  <2> QED BY <1>5, <2>1, <2>2 DEF PlaceAt
<1>9. StreamInv(c)'
  BY <1>7, <1>8 DEF StreamInv
<1> QED BY <1>4, <1>9

LEMMA ClientAbortedInv ==
    ASSUME TransferInv, NEW c \in Clients, ClientAborted(c), UNCHANGED actual
    PROVE  TransferInv'
<1> DEFINE ms == toClient[c]
<1>1. /\ Delivered(c, "ABORTED")
      /\ UNCHANGED <<up, session, toServer, clientVars, clientQueue, sendVars, mainVars, fault>>
  BY DEF ClientAborted
<1>2. /\ up[c] /\ ms # <<>> /\ ms[1].type = "ABORTED" /\ 1 \in DOMAIN ms
      /\ toClient'[c] = Tail(ms) /\ Len(ms) \in Nat /\ Len(Tail(ms)) = Len(ms) - 1
      /\ Tail(ms) \in Seq(Messages) /\ ms \in Seq(Messages)
  BY <1>1, DeliveredIs, TailIs
<1>3. ClientInv(c)
  BY DEF TransferInv
<1>4. cpc[c] \in {"receiving", "ready"}
  BY <1>2, <1>3 DEF ClientInv, RequestInv, TransferInv, NetTypes, LIST
<1>5. 1 = Len(ms) /\ ~Served(c)
  BY <1>2, <1>3, <1>4 DEF ClientInv, StreamInv, IsBlock
<1>6. toClient'[c] = <<>>
  <2>1. Tail(ms) \in Seq(Messages) /\ Len(Tail(ms)) = 0
    BY <1>2, <1>5
  <2> QED BY <1>2, <2>1, EmptySeq
<1>7. toServer[c] = <<>> /\ ~Queued(c)
  BY <1>2, <1>3, <1>4 DEF ClientInv, RequestInv
<1>8. toServer'[c] = <<>> /\ ~Queued(c)' /\ ~Served(c)' /\ cpc'[c] = cpc[c] /\ up'[c]
  BY <1>1, <1>2, <1>5, <1>7 DEF Queued, Served, Tag, sendVars, clientVars
<1>9. RequestInv(c)' /\ StreamInv(c)'
  BY <1>4, <1>6, <1>8 DEF RequestInv, StreamInv
<1>10. ReceiveInv(c)' /\ DiskInv(c)'
  BY <1>1, <1>3, ReachSame DEF ClientInv, ReceiveInv, DiskInv, HaveFiles, clientVars
<1>11. ClientInv(c)'
  BY <1>9, <1>10 DEF ClientInv
<1>12. ClientTypes' /\ \A d \in Clients \ {c} : Local(d)' = Local(d)
  BY <1>1, DeliveredIs DEF TransferInv, ClientTypes, Local, clientVars
<1>13. cpc' \in [Clients -> {"off", "asked", "receiving", "ready"}]
       /\ toServer' \in [Clients -> Seq({"LIST", "SEND"})]
  BY <1>1 DEF TransferInv, NetTypes, clientVars
<1> QED BY <1>1, <1>11, <1>12, <1>13, DeliveredIs, ClientStep

\* The disk when a block was written, and when the file was dated if it is complete.
LEMMA WrittenFits ==
    ASSUME TransferInv, NEW c \in Clients, cpc[c] = "receiving"
    PROVE  LET f == curFile[c]
               n == BlockLen(f, at[c])
               new == Overwritten(disk[c][f].bytes, at[c], BLOCK(f, at[c], n))
               d == [disk[c] EXCEPT ![f] = [date |-> "other", bytes |-> new]]
               e == [d EXCEPT ![f] = Dated(d[f])]
           IN  /\ d \in [Files -> OnDisk] /\ FilesFit(d)
               /\ \A i \in 1 .. (at[c] + n) : i <= Len(new) /\ new[i] = <<f, i>>
               /\ at[c] + n = FileBytes[f] =>
                    /\ e \in [Files -> OnDisk] /\ FilesFit(e)
                    /\ \A h \in 1 .. f : e[h].date = "listed"
<1> DEFINE f == curFile[c]
           n == BlockLen(f, at[c])
           bytes == disk[c][f].bytes
           new == Overwritten(bytes, at[c], BLOCK(f, at[c], n))
           d == [disk[c] EXCEPT ![f] = [date |-> "other", bytes |-> new]]
           e == [d EXCEPT ![f] = Dated(d[f])]
<1>1. /\ f \in Files /\ at[c] \in Reach(f) /\ at[c] # FileBytes[f] /\ at[c] \in Nat
      /\ \A i \in 1 .. at[c] : i <= Len(bytes) /\ bytes[i] = <<f, i>>
      /\ \A h \in 1 .. (f - 1) : disk[c][h].date = "listed"
      /\ FilesFit(disk[c]) /\ disk[c] \in [Files -> OnDisk] /\ actual \in ActualBytes
  BY DEF TransferInv, ClientInv, ReceiveInv, DiskInv, FilesFit, ClientTypes, MainTypes
<1>2. bytes \in Bytes /\ Len(bytes) \in Nat
  BY <1>1, LenProperties DEF OnDisk, Bytes
<1>3. n \in Nat /\ at[c] + n \in Reach(f)
  BY <1>1, ReachStep
<1>4. at[c] <= Len(bytes)
  BY <1>1, <1>2
<1>5. /\ new \in Bytes
      /\ Len(new) = IF at[c] + n > Len(bytes) THEN at[c] + n ELSE Len(bytes)
      /\ \A i \in 1 .. (at[c] + n) :
           new[i] = IF i \in (at[c] + 1) .. (at[c] + n) THEN <<f, i>> ELSE bytes[i]
  BY <1>1, <1>2, <1>3, <1>4, OverwrittenIs, SMTT(30)
<1>6. ASSUME NEW i \in 1 .. (at[c] + n) PROVE i <= Len(new) /\ new[i] = <<f, i>>
  <2>1. i <= Len(new)
    BY <1>1, <1>2, <1>3, <1>5
  <2>2. i \in 1 .. at[c] \/ i \in (at[c] + 1) .. (at[c] + n)
    BY <1>1, <1>3
  <2> QED BY <1>1, <1>5, <2>1, <2>2
<1>7. Len(new) \in {OldBytes[f], FileBytes[f]} \cup Reach(f)
  BY <1>1, <1>3, <1>5 DEF FilesFit
<1>8. /\ d \in [Files -> OnDisk] /\ d[f] = [date |-> "other", bytes |-> new]
      /\ \A h \in Files \ {f} : d[h] = disk[c][h]
  BY <1>1, <1>5 DEF OnDisk, Bytes
<1>9. FilesFit(d)
  BY <1>1, <1>7, <1>8 DEF FilesFit
<1>10. ASSUME at[c] + n = FileBytes[f]
       PROVE  /\ e \in [Files -> OnDisk] /\ FilesFit(e)
              /\ \A h \in 1 .. f : e[h].date = "listed"
  <2>1. Dated(d[f]) = [date |-> "listed", bytes |-> new]
    BY <1>8 DEF Dated, Opened
  <2>2. /\ e \in [Files -> OnDisk] /\ e[f] = [date |-> "listed", bytes |-> new]
        /\ \A h \in Files \ {f} : e[h] = disk[c][h]
    <3> HIDE DEF d, new
    <3>1. [date |-> "listed", bytes |-> new] \in OnDisk
      BY <1>5 DEF OnDisk, Bytes
    <3>2. e = [d EXCEPT ![f] = [date |-> "listed", bytes |-> new]]
      BY <2>1
    <3> HIDE DEF e, f
    <3> QED BY <1>1, <1>8, <3>1, <3>2
  <2>3. /\ FileBytes[f] \in Nat /\ OldBytes[f] \in Nat
        /\ FileBytes[f] \in Reach(f)
        /\ \A p \in Reach(f) : p \in Nat /\ p <= FileBytes[f]
    BY <1>1, <1>3, <1>10, NumbersFit DEF Reach, Positions
  <2>4. \/ Len(new) = FileBytes[f]
        \/ Len(new) = OldBytes[f] /\ OldBytes[f] > FileBytes[f]
    BY <1>1, <1>2, <1>3, <1>5, <1>10, <2>3 DEF FilesFit
  <2>5. Whole(f, new)
    BY <1>1, <1>5, <1>6, <1>10, <2>4, WholeIs
  <2>6. FilesFit(e)
    BY <1>1, <1>7, <2>2, <2>5, SMTT(30) DEF FilesFit
  <2>7. \A h \in 1 .. f : h = f \/ (h \in 1 .. (f - 1) /\ h \in Files \ {f})
    BY <1>1, NumbersFit DEF Files
  <2>8. ASSUME NEW h \in 1 .. f PROVE e[h].date = "listed"
    <3> HIDE DEF e, f
    <3>1. CASE h = f
      BY <2>2, <3>1
    <3>2. CASE h \in 1 .. (f - 1) /\ h \in Files \ {f}
      BY <1>1, <2>2, <3>2
    <3> QED BY <2>7, <3>1, <3>2
  <2> HIDE DEF e
  <2> QED BY <2>2, <2>6, <2>8
<1> QED BY <1>6, <1>8, <1>9, <1>10

LEMMA ClientBlockInv ==
    ASSUME TransferInv, NEW c \in Clients, ClientBlock(c), UNCHANGED actual
    PROVE  TransferInv'
<1> DEFINE b == toClient[c][1]
           f == curFile[c]
           n == BlockLen(f, at[c])
           new == Overwritten(disk[c][f].bytes, at[c], BLOCK(f, at[c], n))
           d == [disk[c] EXCEPT ![f] = [date |-> "other", bytes |-> new]]
           e == [d EXCEPT ![f] = Dated(d[f])]
<1>1. Delivered(c, "SEND")
      /\ UNCHANGED <<up, session, toServer, clientQueue, sendVars, mainVars>>
  BY DEF ClientBlock
<1>2. /\ cpc[c] = "receiving" /\ f \in Files /\ at[c] \in Reach(f) /\ at[c] # FileBytes[f]
      /\ b = BLOCK(f, at[c], n) /\ b.len = n
      /\ PlaceAt(c, 1) = After(f, at[c] + n)
      /\ Head(toClient[c]) = b
  BY <1>1, BlockIs, DeliveredIs
<1>3. /\ actual \in ActualBytes /\ ClientTypes /\ NetTypes
      /\ left[c] = LeftOf(f, at[c]) /\ f # 0 /\ at[c] \in Nat
      /\ FileBytes[f] > 0 /\ \A h \in 1 .. (f - 1) : disk[c][h].date = "listed"
  <2>1. actual \in ActualBytes /\ ClientTypes /\ NetTypes /\ ReceiveInv(c)
    BY DEF TransferInv, MainTypes, ClientInv
  <2>2. f # 0 /\ at[c] \in Nat
    BY <1>2, <2>1, NumbersFit DEF ClientTypes, Files
  <2> QED BY <1>2, <2>1, <2>2 DEF ReceiveInv
<1>4. /\ n \in 0 .. (SizeModulus - 1) /\ at[c] + n \in Reach(f)
      /\ left[c] = n <=> at[c] + n = FileBytes[f]
      /\ CountDown(left[c], n) = LeftOf(f, at[c] + n)
  BY <1>2, <1>3, ReachStep
<1>5. /\ d \in [Files -> OnDisk] /\ FilesFit(d)
      /\ \A i \in 1 .. (at[c] + n) : i <= Len(new) /\ new[i] = <<f, i>>
      /\ at[c] + n = FileBytes[f] =>
           /\ e \in [Files -> OnDisk] /\ FilesFit(e)
           /\ \A h \in 1 .. f : e[h].date = "listed"
  BY <1>2, WrittenFits
<1>6. /\ toServer' \in [Clients -> Seq({"LIST", "SEND"})]
      /\ toClient' \in [Clients -> Seq(Messages)]
      /\ \A g \in Clients \ {c} : toClient'[g] = toClient[g]
  BY <1>1, <1>3, DeliveredIs DEF NetTypes
<1>7. CASE /\ left[c] = n
           /\ AdvanceTo(c, e, f + 1, NextFile(f + 1))
           /\ UNCHANGED fault
  <2>1. at[c] + n = FileBytes[f] /\ f + 1 \in 1 .. (NFiles + 1) /\ (f + 1) - 1 = f
    BY <1>2, <1>4, <1>7, NumbersFit DEF Files
  <2>2. /\ ClientTypes' /\ cpc' \in [Clients -> {"off", "asked", "receiving", "ready"}]
        /\ ReceiveInv(c)' /\ DiskInv(c)'
        /\ ClientAt(c)' = Start(f + 1)
        /\ cpc'[c] = IF NextFile(f + 1) > NFiles THEN "ready" ELSE "receiving"
        /\ cpc'[c] = "ready" => curFile'[c] = 0
        /\ \A g \in Clients \ {c} : /\ disk'[g] = disk[g] /\ cpc'[g] = cpc[g]
                                    /\ curFile'[g] = curFile[g]
                                    /\ left'[g] = left[g] /\ at'[g] = at[g]
    BY <1>3, <1>5, <1>7, <2>1, AdvanceIs, ZenonT(30)
  <2>3. RequestInv(c)' /\ StreamInv(c)'
    BY <1>1, <1>2, <2>1, <2>2, TakenBlock DEF After
  <2>4. ClientInv(c)'
    BY <2>2, <2>3 DEF ClientInv
  <2>5. \A g \in Clients \ {c} : Local(g)' = Local(g)
    BY <1>1, <1>6, <2>2 DEF Local
  <2> QED BY <1>1, <1>6, <1>7, <2>2, <2>4, <2>5, ClientStep
<1>8. CASE /\ left[c] # n
           /\ disk' = [disk EXCEPT ![c] = d]
           /\ left' = [left EXCEPT ![c] = CountDown(left[c], n)]
           /\ at' = [at EXCEPT ![c] = at[c] + n]
           /\ UNCHANGED <<cpc, curFile, fault>>
  <2>1. /\ disk'[c] = d /\ left'[c] = LeftOf(f, at[c] + n) /\ at'[c] = at[c] + n
        /\ cpc'[c] = "receiving" /\ curFile'[c] = f
    BY <1>2, <1>3, <1>4, <1>8 DEF ClientTypes
  <2>2. ClientTypes' /\ cpc' \in [Clients -> {"off", "asked", "receiving", "ready"}]
    <3>1. LeftOf(f, at[c] + n) \in 0 .. (SizeModulus - 1)
      BY <1>2, <1>3, <1>4, ReachStart
    <3> QED BY <1>3, <1>4, <1>5, <1>8, <3>1 DEF ClientTypes, NetTypes
  <2>3. ReceiveInv(c)'
    <3>1. d[f].bytes = new
      BY <1>2, <1>3 DEF ClientTypes
    <3>2. ASSUME NEW h \in 1 .. (f - 1) PROVE d[h].date = "listed"
      <4>1. h # f /\ h \in Files
        BY <1>2, NumbersFit DEF Files
      <4>2. d[h] = disk[c][h]
        BY <1>3, <4>1 DEF ClientTypes
      <4> QED BY <1>3, <4>2
    <3>3. at'[c] \in Reach(f)' /\ at'[c] # FileBytes[f]
      BY <1>4, <1>8, <2>1, ReachSame
    <3>4. \A i \in 1 .. at'[c] : i <= Len(disk'[c][f].bytes) /\ disk'[c][f].bytes[i] = <<f, i>>
      BY <1>5, <2>1, <3>1
    <3> QED BY <1>2, <1>3, <2>1, <3>2, <3>3, <3>4 DEF ReceiveInv
  <2>4. DiskInv(c)'
    BY <1>5, <2>1, ReachSame DEF DiskInv, FilesFit
  <2>5. ClientAt(c)' = Place(f, at[c] + n) /\ After(f, at[c] + n) = Place(f, at[c] + n)
    BY <1>3, <1>4, <1>8, <2>1 DEF ClientAt, After
  <2>6. RequestInv(c)' /\ StreamInv(c)'
    BY <1>1, <1>2, <2>1, <2>5, TakenBlock
  <2>7. ClientInv(c)'
    BY <2>3, <2>4, <2>6 DEF ClientInv
  <2>8. \A g \in Clients \ {c} : Local(g)' = Local(g)
    BY <1>1, <1>3, <1>6, <1>8 DEF Local, ClientTypes
  <2> QED BY <1>1, <1>6, <1>8, <2>2, <2>7, <2>8, ClientStep
<1> QED BY <1>2, <1>3, <1>7, <1>8 DEF ClientBlock

-----------------------------------------------------------------------------
(* The sending thread *)

\* The thread has no connection, or another: a client is served by one.
LEMMA NotServed == \A c : <<>> # Tag(c) /\ Tag(c)[1] = c /\ Tag(c)[2] = session[c]
BY DEF Tag

\* A step of the thread that sends nothing: the clients keep what they have.
LEMMA QuietStep ==
    ASSUME TransferInv, UNCHANGED <<netVars, clientVars, mainVars, actual, fault>>,
           clientQueue' \in Seq(Clients \X Nat),
           SenderInv', QueueInv',
           \A c \in Clients : ClientInv(c)'
    PROVE  TransferInv'
BY DEF TransferInv, NetTypes, ClientTypes, MainTypes, netVars, clientVars, mainVars

\* One that also leaves the queue, and at most its connection.
LEMMA QuietThread ==
    ASSUME TransferInv,
           UNCHANGED <<netVars, clientVars, clientQueue, mainVars, actual, fault>>,
           SenderInv',
           sClient' \in {<<>>, sClient},
           sClient' # <<>> /\ spc' \in {"open", "send"} =>
               spc \in {"open", "send"} /\ SenderAt' = SenderAt
    PROVE  TransferInv'
<1>1. clientQueue' \in Seq(Clients \X Nat) /\ QueueInv'
  BY DEF TransferInv, NetTypes, QueueInv, netVars
<1>2. ASSUME NEW c \in Clients PROVE ClientInv(c)'
  <2>1. ClientInv(c) /\ Local(c)' = Local(c) /\ Tag(c)' = Tag(c)
    BY DEF TransferInv, Local, Tag, netVars, clientVars
  <2>2. Served(c)' => sClient' # <<>> /\ sClient' = sClient
    BY <2>1, NotServed DEF Served
  <2> QED BY <2>1, <2>2, SameClient DEF Queued, Served
<1> QED BY <1>1, <1>2, QuietStep

LEMMA SendWaitInv ==
    ASSUME TransferInv, SendWait, UNCHANGED actual
    PROVE  TransferInv'
<1>1. /\ spc = "wait" /\ spc' \in {"done", "pop"}
      /\ UNCHANGED <<netVars, clientVars, clientQueue, sClient, sFile, sSize, sAt, mainVars, fault>>
  BY DEF SendWait
<1>2. sClient = <<>> /\ SenderInv'
  BY <1>1 DEF TransferInv, SenderInv
<1> QED BY <1>1, <1>2, QuietThread

LEMMA SendOpenInv ==
    ASSUME TransferInv, SendOpen, UNCHANGED actual
    PROVE  TransferInv'
<1>1. /\ spc = "open" /\ sFile \in 1 .. (NFiles + 1) /\ actual \in ActualBytes
      /\ sClient \in Clients \X Nat /\ sClient[2] <= session[sClient[1]]
  BY NumbersFit DEF SendOpen, TransferInv, SenderInv, MainTypes
<1>2. UNCHANGED <<netVars, clientVars, clientQueue, mainVars, fault>>
  BY DEF SendOpen
<1>3. CASE sFile <= NFiles
  <2>1. /\ sSize' = FileBytes[sFile] /\ sAt' = 0 /\ spc' = "send"
        /\ UNCHANGED <<sClient, sFile>>
    BY <1>3, NumbersFit, <1>1 DEF SendOpen
  <2>2. sFile \in Files /\ FileBytes[sFile] \in 0 .. (SizeModulus - 1)
    BY <1>1, <1>3, NumbersFit DEF Files
  <2>3. SenderInv'
    BY <1>1, <1>2, <2>1, <2>2, ReachStart, ReachSame, NumbersFit
       DEF TransferInv, SenderInv, LeftOf, netVars
  <2>4. SenderAt' = SenderAt
    <3>1. Start(sFile) = After(sFile, 0)
      BY <2>2, NextOf, NumbersFit DEF Start, After, Place
    <3> QED BY <1>1, <2>1, <3>1 DEF SenderAt, After, Start
  <2> QED BY <1>1, <1>2, <2>1, <2>3, <2>4, QuietThread
<1>4. CASE ~(sFile <= NFiles)
  <2>1. sClient' = <<>> /\ sFile' = 0 /\ sSize' = 0 /\ sAt' = 0 /\ spc' = "pop"
    BY <1>1, <1>4, NumbersFit DEF SendOpen
  <2>2. SenderInv'
    BY <2>1, NumbersFit DEF SenderInv
  <2> QED BY <1>2, <2>1, <2>2, QuietThread
<1> QED BY <1>3, <1>4

LEMMA SendFileEndInv ==
    ASSUME TransferInv, SendFileEnd, UNCHANGED actual
    PROVE  TransferInv'
<1>1. /\ spc = "send" /\ (exiting \/ sSize = 0)
      /\ spc' = IF exiting THEN "abort" ELSE "open"
      /\ sFile' = IF exiting THEN sFile ELSE sFile + 1
      /\ UNCHANGED <<netVars, clientVars, clientQueue, sClient, sSize, sAt, mainVars, fault>>
  BY DEF SendFileEnd
<1>2. /\ sFile \in Files /\ sAt \in Reach(sFile) /\ sSize = LeftOf(sFile, sAt)
      /\ actual \in ActualBytes
      /\ sClient \in Clients \X Nat /\ sClient[2] <= session[sClient[1]]
  BY <1>1 DEF TransferInv, SenderInv, MainTypes
<1>3. SenderInv'
  BY <1>1, <1>2, NumbersFit DEF TransferInv, SenderInv, netVars, Files
<1>4. CASE exiting
  BY <1>1, <1>3, <1>4, QuietThread
<1>5. CASE ~exiting
  <2>1. sAt = FileBytes[sFile]
    BY <1>1, <1>2, <1>5, ReachStart
  <2>2. SenderAt' = SenderAt
    BY <1>1, <1>5, <2>1 DEF SenderAt, After, Start
  <2> QED BY <1>1, <1>3, <2>2, QuietThread
<1> QED BY <1>4, <1>5

LEMMA SendPopInv ==
    ASSUME TransferInv, SendPop, UNCHANGED actual
    PROVE  TransferInv'
<1>1. spc = "pop" /\ sClient = <<>> /\ clientQueue \in Seq(Clients \X Nat)
  BY DEF SendPop, TransferInv, SenderInv, NetTypes
<1>2. UNCHANGED <<netVars, clientVars, sSize, sAt, mainVars, fault>>
  BY DEF SendPop
<1>3. CASE clientQueue = <<>>
  <2>1. spc' = "wait" /\ UNCHANGED <<clientQueue, sClient, sFile>>
    BY <1>3 DEF SendPop
  <2>2. SenderInv'
    BY <1>1, <1>2, <2>1 DEF TransferInv, SenderInv
  <2> QED BY <1>1, <1>2, <2>1, <2>2, QuietThread
<1>4. CASE clientQueue # <<>>
  <2> DEFINE q == clientQueue
  <2>1. q' = Tail(q) /\ sClient' = q[1] /\ sFile' = 1 /\ spc' = "open" /\ 1 \in DOMAIN q
    BY <1>1, <1>4, TailIs DEF SendPop
  <2>2. /\ q' \in Seq(Clients \X Nat) /\ q[1] \in Clients \X Nat
        /\ \A k \in DOMAIN q' : k + 1 \in DOMAIN q /\ q'[k] = q[k + 1] /\ k \in Nat /\ k + 1 # 1
    <3>1. Tail(q) \in Seq(Clients \X Nat) /\ q[1] \in Clients \X Nat
      BY <1>1, <1>4, TailIs, ElementOfSeq, EmptySeq
    <3>2. \A k \in DOMAIN Tail(q) : k \in Nat /\ k + 1 # 1
      BY <3>1, LenProperties
    <3> QED BY <1>1, <1>4, <2>1, <3>1, <3>2, TailIs
  <2>3. SenderInv'
    BY <1>2, <2>1, <2>2, NumbersFit DEF TransferInv, SenderInv, QueueInv, netVars
  <2>4. QueueInv'
    <3>1. \A k \in DOMAIN q' : q'[k] # sClient'
      BY <2>1, <2>2 DEF TransferInv, QueueInv
    <3>2. \A k \in DOMAIN q' : q'[k][2] <= session[q'[k][1]]
      BY <2>2 DEF TransferInv, QueueInv
    <3>3. \A j, k \in DOMAIN q' : q'[j] = q'[k] => j = k
      <4>1. ASSUME NEW j \in DOMAIN q', NEW k \in DOMAIN q', q'[j] = q'[k] PROVE j = k
        <5>1. j + 1 = k + 1
          BY <2>2, <4>1 DEF TransferInv, QueueInv
        <5> QED BY <2>2, <5>1
      <4> QED BY <4>1
    <3> QED BY <1>2, <3>1, <3>2, <3>3 DEF QueueInv, netVars
  <2>5. ASSUME NEW c \in Clients PROVE ClientInv(c)'
    <3>1. ClientInv(c) /\ Local(c)' = Local(c) /\ Tag(c)' = Tag(c)
      BY <1>2 DEF TransferInv, Local, Tag, netVars, clientVars
    <3>2. Queued(c)' => Queued(c) /\ Tag(c) # q[1]
      BY <2>1, <2>2, <2>4, <3>1 DEF Queued, QueueInv
    <3>3. CASE Tag(c) # q[1]
      BY <2>1, <3>1, <3>2, <3>3, SameClient DEF Served
    <3>4. CASE Tag(c) = q[1]
      <4>1. Queued(c)
        BY <2>1, <3>4 DEF Queued
      <4>2. cpc[c] \in {"off", "receiving"} /\ toServer[c] # <<"SEND">>
        BY <3>1, <4>1 DEF ClientInv, RequestInv, Unasked, TransferInv, NetTypes
      <4>3. cpc[c] = "receiving" => /\ toClient[c] = <<>> /\ ClientAt(c) = Start(1)
                                    /\ toServer[c] = <<>>
        BY <3>1, <4>1, <4>2 DEF ClientInv, RequestInv
      <4>4. ~Queued(c)'
        BY <3>2, <3>4
      <4>5. RequestInv(c)'
        BY <1>2, <3>1, <4>2, <4>3, <4>4
           DEF ClientInv, RequestInv, netVars, clientVars
      <4>6. StreamInv(c)'
        <5>1. SenderAt' = Start(1) /\ ClientAt(c)' = ClientAt(c)
          BY <1>2, <2>1 DEF SenderAt, Start, ClientAt, clientVars
        <5> QED BY <1>2, <4>2, <4>3, <5>1 DEF StreamInv, PlaceAt, netVars, clientVars
      <4>7. ReceiveInv(c)' /\ DiskInv(c)'
        BY <1>2, <3>1, ReachSame DEF ClientInv, ReceiveInv, HaveFiles, DiskInv, clientVars
      <4> QED BY <4>5, <4>6, <4>7 DEF ClientInv
    <3> QED BY <3>3, <3>4
  <2> QED BY <1>2, <2>2, <2>3, <2>4, <2>5, QuietStep
<1> QED BY <1>3, <1>4

LEMMA DeliverIs ==
    ASSUME TransferInv, NEW m \in Messages, Deliver(m)
    PROVE  /\ toClient' \in [Clients -> Seq(Messages)]
           /\ \A c \in Clients :
                toClient'[c] = IF up[c] /\ Served(c) THEN Append(toClient[c], m) ELSE toClient[c]
<1>1. toClient \in [Clients -> Seq(Messages)]
  BY DEF TransferInv, NetTypes
<1>2. toClient' = [c \in Clients |-> IF up[c] /\ Served(c) THEN Append(toClient[c], m)
                                     ELSE toClient[c]]
  BY DEF Deliver, Served, Tag
<1>3. \A c \in Clients : Append(toClient[c], m) \in Seq(Messages)
  BY <1>1, AppendProperties
<1> QED BY <1>1, <1>2, <1>3

\* The client that is served, when a message was sent to it: a block from where the
\* stream ended, or the last message.
LEMMA SentClient ==
    ASSUME TransferInv, NEW c \in Clients, up[c], Served(c), NEW m \in Messages,
           UNCHANGED <<up, session, toServer, clientVars, clientQueue, actual>>,
           toClient'[c] = Append(toClient[c], m),
           \/ /\ IsBlock(m) /\ Place(m.file, m.from) = SenderAt
              /\ spc \in {"open", "send"}
              /\ SenderAt' = Behind(m)
           \/ m = ABORTED /\ sClient' = <<>>
    PROVE  ClientInv(c)'
<1> DEFINE ms == toClient[c]
<1>1. ClientInv(c) /\ ms \in Seq(Messages) /\ Tag(c)' = Tag(c)
  BY DEF TransferInv, NetTypes, Tag
<1>0. PICK n \in Nat : n = Len(ms)
  BY <1>1, LenProperties
<1>2. /\ DOMAIN ms = 1 .. n /\ DOMAIN ms' = 1 .. (n + 1) /\ Len(ms') = n + 1
      /\ ms'[n + 1] = m /\ \A k \in 1 .. n : ms'[k] = ms[k]
  BY <1>0, <1>1, AppendIs, AppendProperties, LenProperties
<1>3. ~Queued(c) /\ ~Queued(c)'
  <2>1. ~Queued(c)
    BY NotServed DEF TransferInv, QueueInv, Queued, Served
  <2> QED BY <1>1, <2>1 DEF Queued
<1>4. /\ cpc[c] \in {"receiving", "ready"} /\ toServer[c] = <<>>
      /\ cpc[c] = "ready" => curFile[c] = 0
  BY <1>1 DEF ClientInv, RequestInv, Unasked, TransferInv, NetTypes
<1>5. RequestInv(c)'
  BY <1>3, <1>4 DEF RequestInv, clientVars
<1>6. \A k \in 0 .. n : PlaceAt(c, k)' = PlaceAt(c, k)
  BY <1>0, <1>2 DEF PlaceAt, ClientAt, clientVars, Behind, After, Start
<1>7. \A k \in 1 .. n : /\ IsBlock(ms[k])
                             /\ Place(ms[k].file, ms[k].from) = PlaceAt(c, k - 1)
  BY <1>1, <1>2, <1>4, <1>0 DEF ClientInv, StreamInv
<1>8. spc \in {"open", "send"} => SenderAt = PlaceAt(c, n)
  BY <1>0, <1>1, <1>4 DEF ClientInv, StreamInv
<1>9. StreamInv(c)'
  <2>1. ASSUME NEW k \in 1 .. n, NEW b, b = ms'[k]
        PROVE  IsBlock(b)' /\ Place(b.file, b.from) = PlaceAt(c, k - 1)'
    <3>1. b = ms[k] /\ k - 1 \in 0 .. n
      BY <1>2, <2>1
    <3>2. IsBlock(b) /\ Place(b.file, b.from) = PlaceAt(c, k - 1)
      BY <1>7, <3>1
    <3> QED BY <1>6, <3>1, <3>2, ReachSame
  <2>2. CASE /\ IsBlock(m) /\ Place(m.file, m.from) = SenderAt
             /\ spc \in {"open", "send"}
             /\ SenderAt' = Behind(m)
    <3>1. IsBlock(m)' /\ Place(m.file, m.from) = PlaceAt(c, (n + 1) - 1)'
      BY <1>2, <1>6, <1>8, <2>2, ReachSame
    <3>2. PlaceAt(c, n + 1)' = Behind(m)
      BY <1>2 DEF PlaceAt, Behind, After, Start
    <3>3. ASSUME NEW k \in 1 .. (n + 1), NEW b, b = ms'[k]
          PROVE  IsBlock(b)' /\ Place(b.file, b.from) = PlaceAt(c, k - 1)'
      <4>1. CASE k \in 1 .. n
        BY <2>1, <3>3, <4>1
      <4>2. CASE k = n + 1
        BY <1>2, <3>1, <3>3, <4>2
      <4> QED BY <1>2, <4>1, <4>2
    <3> QED BY <1>0, <1>2, <2>2, <3>2, <3>3 DEF StreamInv
  <2>3. CASE m = ABORTED /\ sClient' = <<>>
    <3>1. ~Served(c)'
      BY <1>1, <2>3, NotServed DEF Served
    <3> QED BY <1>0, <1>2, <2>1, <2>3, <3>1 DEF StreamInv
  <2> QED BY <2>2, <2>3
<1>10. ReceiveInv(c)' /\ DiskInv(c)'
  BY <1>1, ReachSame DEF ClientInv, ReceiveInv, HaveFiles, DiskInv, clientVars
<1> QED BY <1>5, <1>9, <1>10 DEF ClientInv

\* A step of the thread that sends a message.
LEMMA SendingThread ==
    ASSUME TransferInv, NEW m \in Messages, Deliver(m),
           UNCHANGED <<up, session, toServer, clientVars, clientQueue, mainVars, actual, fault>>,
           SenderInv', sClient' \in {<<>>, sClient},
           \/ /\ IsBlock(m) /\ Place(m.file, m.from) = SenderAt
              /\ spc \in {"open", "send"}
              /\ SenderAt' = Behind(m)
           \/ m = ABORTED /\ sClient' = <<>>
    PROVE  TransferInv'
<1>1. NetTypes' /\ ClientTypes' /\ MainTypes' /\ QueueInv'
  BY DeliverIs DEF TransferInv, NetTypes, ClientTypes, MainTypes, QueueInv, clientVars, mainVars
<1>2. ASSUME NEW c \in Clients PROVE ClientInv(c)'
  <2>1. ClientInv(c) /\ Tag(c)' = Tag(c)
    BY DEF TransferInv, Tag
  <2>2. CASE up[c] /\ Served(c)
    BY <2>2, DeliverIs, SentClient
  <2>3. CASE ~up[c]
    <3>1. toClient[c] = <<>> /\ toServer[c] = <<>> /\ cpc[c] = "off" /\ toClient'[c] = <<>>
      BY <2>1, <2>3, DeliverIs DEF ClientInv, RequestInv
    <3> QED BY <2>1, <2>3, <3>1, GoneClient DEF clientVars
  <2>4. CASE ~Served(c)
    <3>1. ~Served(c)' /\ Local(c)' = Local(c)
      BY <2>1, <2>4, NotServed, DeliverIs DEF Served, Local, clientVars
    <3> QED BY <2>1, <3>1, SameClient DEF Queued
  <2> QED BY <2>2, <2>3, <2>4
<1> QED BY <1>1, <1>2 DEF TransferInv

\* The TCP server is no longer there.
LEMMA UsedAfterDestroy ==
    ASSUME TransferInv, fault' = "useAfterDestroy",
           UNCHANGED <<netVars, sendVars, clientVars, clientQueue, mainVars, actual>>
    PROVE  TransferInv'
<1>1. SenderInv' /\ QueueInv'
  BY ReachSame DEF TransferInv, SenderInv, QueueInv, sendVars, netVars, LeftOf
<1>2. ASSUME NEW c \in Clients PROVE ClientInv(c)'
  <2>1. ClientInv(c) /\ Local(c)' = Local(c) /\ Tag(c)' = Tag(c)
    BY DEF TransferInv, Local, Tag, netVars, clientVars
  <2> QED BY <2>1, SameClient DEF Queued, Served, SenderAt, sendVars
<1> QED BY <1>1, <1>2 DEF TransferInv, NetTypes, ClientTypes, MainTypes,
                          netVars, clientVars, mainVars

LEMMA SendBlockInv ==
    ASSUME TransferInv, SendBlock, UNCHANGED actual
    PROVE  TransferInv'
<1> DEFINE n == BlockLen(sFile, sAt)
           b == BLOCK(sFile, sAt, n)
<1>1. /\ spc = "send" /\ sSize > 0
      /\ UNCHANGED <<up, session, toServer, clientVars, clientQueue, mainVars>>
      /\ b = BlockRead /\ b.len = n
  BY DEF SendBlock, BlockRead, BLOCK, BlockLen
<1>2. CASE ~servAlive /\ fault' = "useAfterDestroy" /\ UNCHANGED <<toClient, sendVars>>
  BY <1>1, <1>2, UsedAfterDestroy DEF netVars
<1>3. CASE /\ servAlive /\ Deliver(b)
           /\ sSize' = CountDown(sSize, n) /\ sAt' = sAt + n
           /\ UNCHANGED <<spc, sClient, sFile, fault>>
  <2>1. /\ sFile \in Files /\ sAt \in Reach(sFile) /\ sSize = LeftOf(sFile, sAt)
        /\ actual \in ActualBytes
        /\ sClient \in Clients \X Nat /\ sClient[2] <= session[sClient[1]]
    BY <1>1 DEF TransferInv, SenderInv, MainTypes
  <2>2. sAt # FileBytes[sFile] /\ sAt \in Nat /\ FileBytes[sFile] > 0
    <3>1. sAt # FileBytes[sFile]
      BY <1>1, <2>1, ReachStart
    <3>2. sAt \in Nat /\ FileBytes[sFile] # 0
      BY <2>1, <3>1, ReachStart
    <3> QED BY <2>1, <3>1, <3>2, NumbersFit
  <2>3. /\ n \in 0 .. (SizeModulus - 1) /\ sAt + n \in Reach(sFile)
        /\ CountDown(sSize, n) = LeftOf(sFile, sAt + n)
    BY <2>1, <2>2, ReachStep
  <2>4. LeftOf(sFile, sAt + n) \in 0 .. (SizeModulus - 1) /\ sAt + n \in Nat
    BY <2>1, <2>3, ReachStart
  <2>5. SenderInv'
    BY <1>1, <1>3, <2>1, <2>3, <2>4, ReachSame DEF TransferInv, SenderInv, LeftOf
  <2>6. b \in Messages /\ IsBlock(b)
    <3>1. sFile \in 0 .. NFiles
      BY <2>1, NumbersFit DEF Files
    <3> QED BY <2>1, <2>2, <2>3, <3>1 DEF BLOCK, Messages, IsBlock, BlockLen
  <2>7. Place(b.file, b.from) = SenderAt /\ SenderAt' = Behind(b)
    BY <1>1, <1>3, <2>2 DEF SenderAt, Behind, After, BLOCK, Start
  <2> QED BY <1>1, <1>3, <2>5, <2>6, <2>7, SendingThread
<1> QED BY <1>1, <1>2, <1>3 DEF SendBlock, UseServer

LEMMA SendAbortInv ==
    ASSUME TransferInv, SendAbort, UNCHANGED actual
    PROVE  TransferInv'
<1>1. UNCHANGED <<up, session, toServer, clientVars, clientQueue, mainVars>>
  BY DEF SendAbort
<1>2. CASE ~servAlive /\ fault' = "useAfterDestroy" /\ UNCHANGED <<toClient, sendVars>>
  BY <1>1, <1>2, UsedAfterDestroy DEF netVars
<1>3. CASE /\ servAlive /\ Deliver(ABORTED) /\ spc' = "pop"
           /\ sClient' = <<>> /\ sFile' = 0 /\ sSize' = 0 /\ sAt' = 0
           /\ UNCHANGED fault
  <2>1. SenderInv' /\ ABORTED \in Messages
    BY <1>3, NumbersFit DEF SenderInv, ABORTED, Messages
  <2> QED BY <1>1, <1>3, <2>1, SendingThread
<1> QED BY <1>2, <1>3 DEF SendAbort, UseServer

\* StopSend and its join.
LEMMA StopInv ==
    ASSUME TransferInv, StopSend \/ StopSendJoin, UNCHANGED actual
    PROVE  TransferInv'
<1>1. UNCHANGED <<netVars, clientVars, clientQueue, sendVars, servAlive, fault>>
  BY DEF StopSend, StopSendJoin
<1>2. MainTypes'
  BY <1>1 DEF StopSend, StopSendJoin, TransferInv, MainTypes
<1>3. SenderInv' /\ QueueInv'
  BY <1>1, ReachSame DEF TransferInv, SenderInv, QueueInv, sendVars, netVars, LeftOf
<1>4. ASSUME NEW c \in Clients PROVE ClientInv(c)'
  <2>1. ClientInv(c) /\ Local(c)' = Local(c) /\ Tag(c)' = Tag(c)
    BY <1>1 DEF TransferInv, Local, Tag, netVars, clientVars
  <2> QED BY <1>1, <2>1, SameClient DEF Queued, Served, SenderAt, sendVars
<1> QED BY <1>1, <1>2, <1>3, <1>4 DEF TransferInv, NetTypes, ClientTypes, netVars, clientVars

-----------------------------------------------------------------------------
(* The invariant holds, and what follows from it *)

LEMMA BeforeFits ==
    ASSUME actual \in ActualBytes, NEW d \in Before
    PROVE  d \in [Files -> OnDisk] /\ FilesFit(d)
<1>1. ASSUME NEW f \in Files
      PROVE  /\ FileBytes[f] \in Nat /\ OldBytes[f] \in Nat
             /\ Content(f) \in Bytes /\ Len(Content(f)) = FileBytes[f]
             /\ \A i \in 1 .. FileBytes[f] : Content(f)[i] = <<f, i>>
             /\ [o \in 1 .. OldBytes[f] |-> Old] \in Bytes
             /\ Len([o \in 1 .. OldBytes[f] |-> Old]) = OldBytes[f]
  <2>1. FileBytes[f] \in Nat /\ OldBytes[f] \in Nat
    BY NumbersFit
  <2>2. /\ Content(f) \in [1 .. FileBytes[f] -> {Old} \cup (Files \X Nat)]
        /\ \A i \in 1 .. FileBytes[f] : Content(f)[i] = <<f, i>>
    BY <2>1 DEF Content
  <2>3. [o \in 1 .. OldBytes[f] |-> Old] \in [1 .. OldBytes[f] -> {Old} \cup (Files \X Nat)]
    OBVIOUS
  <2> QED BY <2>1, <2>2, <2>3, IsASeq DEF Bytes
<1>2. CASE d = [f \in Files |-> Absent]
  <2>1. Absent \in OnDisk /\ Len(Absent.bytes) = 0 /\ Absent.date # "listed"
    BY EmptySeq DEF Absent, OnDisk
  <2> QED BY <1>2, <2>1, ReachStart DEF FilesFit
<1>3. CASE d = [f \in Files |-> [date |-> "other", bytes |-> [o \in 1 .. OldBytes[f] |-> Old]]]
  BY <1>1, <1>3 DEF FilesFit, OnDisk, Bytes
<1>4. CASE d = [f \in Files |-> [date |-> "listed", bytes |-> Content(f)]]
  BY <1>1, <1>4, WholeIs DEF FilesFit, OnDisk, Bytes
<1> QED BY <1>2, <1>3, <1>4 DEF Before

LEMMA InitInv == Init => TransferInv
<1> SUFFICES ASSUME Init PROVE TransferInv
  OBVIOUS
<1> USE DEF Init
<1>1. actual \in ActualBytes /\ \A c \in Clients : disk[c] \in [Files -> OnDisk] /\ FilesFit(disk[c])
  <2>1. actual \in ActualBytes /\ \A c \in Clients : disk[c] \in Before
    OBVIOUS
  <2> QED BY <2>1, BeforeFits
<1>2. NetTypes
  <2>1. <<>> \in Seq({"LIST", "SEND"}) /\ <<>> \in Seq(Messages) /\ <<>> \in Seq(Clients \X Nat)
    BY EmptySeq
  <2> QED BY <2>1, ServerAssumption DEF NetTypes
<1>3. ClientTypes /\ MainTypes
  <2>1. disk \in [Clients -> [Files -> OnDisk]]
    BY <1>1
  <2>2. 0 \in 0 .. NFiles /\ 0 \in 0 .. (SizeModulus - 1)
    BY NumbersFit
  <2> QED BY <1>1, <2>1, <2>2 DEF ClientTypes, MainTypes
<1>4. SenderInv /\ QueueInv
  BY NumbersFit DEF SenderInv, QueueInv
<1>5. ASSUME NEW c \in Clients PROVE ClientInv(c)
  BY <1>1 DEF ClientInv, RequestInv, StreamInv, ReceiveInv, DiskInv, FilesFit
<1> QED BY <1>2, <1>3, <1>4, <1>5 DEF TransferInv

LEMMA StepInv == TransferInv /\ [Next]_vars => TransferInv'
<1> SUFFICES ASSUME TransferInv, [Next]_vars PROVE TransferInv'
  OBVIOUS
<1>1. ASSUME NEW c \in Clients, Client(c) \/ Handler(c) \/ Link(c) PROVE TransferInv'
  BY <1>1, ClientListInv, ClientBlockInv, ClientAbortedInv, HandleListInv, HandleSendInv,
     ConnectInv, BreakInv DEF Client, Handler, Link, Step
<1>2. CASE SendThread
  BY <1>2, SendWaitInv, SendPopInv, SendOpenInv, SendBlockInv, SendFileEndInv, SendAbortInv
     DEF SendThread, Step
<1>3. CASE Stop
  BY <1>3, StopInv DEF Stop, Step
<1>4. CASE Main
  BY <1>4, ExitInv DEF Main, Step
<1>5. CASE UNCHANGED vars
  <2>1. UNCHANGED <<netVars, clientVars, clientQueue, sendVars, mainVars, actual, fault>>
    BY <1>5 DEF vars
  <2>2. SenderInv'
    BY <2>1, ReachSame DEF TransferInv, SenderInv, sendVars, netVars, LeftOf
  <2> QED BY <2>1, <2>2, QuietThread DEF sendVars, SenderAt, After, Start
<1> QED BY <1>1, <1>2, <1>3, <1>4, <1>5 DEF Next

\* The inductive invariant of a transfer: what is under way to a client carries on
\* from where the client is, and the sending thread from there.
THEOREM TransferTheorem == Spec => []TransferInv
BY InitInv, StepInv, PTL DEF Spec

\* Every variable has its type; the file sizes count down below the modulus of the
\* unsigned type, and never name a file that is not listed.
THEOREM TypeTheorem == Spec => []TypeOK
<1>1. TransferInv => TypeOK
  <2> SUFFICES ASSUME TransferInv PROVE TypeOK
    OBVIOUS
  <2>1. \A c \in Clients : \A k \in DOMAIN toClient[c] : toClient[c][k] \in Messages
    BY ElementOfSeq, LenProperties DEF TransferInv, NetTypes
  <2>2. sClient \in {<<>>} \cup (Clients \X Nat)
    BY DEF TransferInv, SenderInv
  <2> QED BY <2>1, <2>2 DEF TypeOK, TransferInv, NetTypes, ClientTypes, MainTypes, SenderInv, Messages
<1> QED BY <1>1, TransferTheorem, PTL

\* Whatever breaks a transfer, and however long the files turn out to be: a file that
\* has the date of the list is whole.
THEOREM DatedTheorem == Spec => []DatedIsWhole
<1>1. TransferInv => DatedIsWhole
  BY DEF TransferInv, ClientInv, DiskInv, DatedIsWhole
<1> QED BY <1>1, TransferTheorem, PTL

\* A client that is ready has every file, whole and dated.
THEOREM ReadyTheorem == Spec => []ReadyHasFiles
<1>1. TransferInv => ReadyHasFiles
  BY DEF TransferInv, ClientInv, ReceiveInv, HaveFiles, DiskInv, ReadyHasFiles
<1> QED BY <1>1, TransferTheorem, PTL

\* No block reaches a client that has no file open, on whatever connection.
THEOREM NoStaleTheorem == Spec => []NoStaleFile
<1>1. TransferInv => NoStaleFile
  BY DEF TransferInv, NoStaleFile
<1> QED BY <1>1, TransferTheorem, PTL

=============================================================================
