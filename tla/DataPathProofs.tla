---------------------------- MODULE DataPathProofs ----------------------------
(* Theorems about the way of the data: of the reader for every file and chunk    *)
(* size, of writing, reordering and verifying for an output that fits into a     *)
(* view.                                                                         *)
EXTENDS DataPath, FiniteSetTheorems, SequenceTheorems, TLAPS

-----------------------------------------------------------------------------
(* The output file: the invariant *)

\* One view is enough for the file: an output of up to 100MB.
OneView == FileLength <= ViewSize

\* The window of such a file: none, in the file, or mapped anew at its end.
InWindow(m, len) ==
    /\ m \in Window
    /\ \/ m = NoView
       \/ m.view /\ m.at = 0 /\ m.pos = 0 /\ m.cur < len
       \/ m.view /\ m.at = 0 /\ m.pos = len /\ m.cur = 0

\* There is room for n bytes.
Mapped(m, len, n) ==
    m \in Window /\ m.view /\ m.at = 0 /\ m.pos = 0 /\ n \in Nat \ {0} /\ m.cur + n <= len

JobType == [index : Nat, from : Nat, left : Nat]

\* The Write under way and the copy under way: each takes one round.
Written == WritePos(writer)
CallNow == [index |-> job.index, pos |-> Written, size |-> job.left]
CopyNow == [index |-> copy.index, pos |-> copy.from, size |-> copy.left]

Writing(c) == wpc # "idle" /\ c = CallNow

\* Where what was or is being written ends.
End == IF wpc = "idle" THEN Written ELSE Written + job.left

CallBytes == UNION {{<<c.index, o>> : o \in 0 .. (c.size - 1)} : c \in calls}

\* What is in a file was written into it.
BytesOfCalls(file) == \A i \in DOMAIN file : file[i] = Unset \/ file[i] \in CallBytes

\* The results lie one behind the other, each where its call says, until the file
\* is replaced.
CallsInv ==
    /\ calls \subseteq Entry /\ IsFiniteSet(calls) /\ TotalSize(calls) = End
    /\ \A c, d \in calls : c.index = d.index => c = d
    /\ \A c \in calls :
         /\ c.index \in Results /\ c.size >= 1
         /\ \/ Writing(c)
            \/ /\ c.pos + c.size <= Written
               /\ rpc # "closed" => Holds(newFile, c.pos, c)

\* No two entries have an index, and each stands for the bytes of a call.
IndicesInv ==
    /\ indices \subseteq Entry /\ IsFiniteSet(indices) /\ TotalSize(indices) <= End
    /\ \A e \in indices :
         /\ e.size >= 1 /\ e.pos + e.size <= End
         /\ \A c \in calls : c.pos = e.pos => c.size = e.size
    /\ \A e, f \in indices : e.index = f.index => e = f

WriteInv ==
    /\ wpc \in {"idle", "inserting", "writing"}
    /\ InWindow(writer, FileLength) /\ End <= FileLength
    /\ DOMAIN newFile = IF rpc = "closed" THEN DOMAIN tempFile ELSE 0 .. (FileLength - 1)
    /\ BytesOfCalls(newFile) /\ BytesOfCalls(tempFile)
    /\ CallsInv /\ IndicesInv
    /\ job \in JobType
    /\ wpc # "idle" => job.from = 0 /\ job.left >= 1 /\ CallNow \in calls
    /\ wpc = "writing" /\ rpc # "closed" => Mapped(writer, FileLength, job.left)

\* Whatever overlaps: the types, and that a copy reads from the file.
CopyTypes ==
    /\ rpc \in {"none", "next", "copying", "closed"}
    /\ \E n \in Nat : DOMAIN tempFile = 0 .. (n - 1)
    /\ tempWriter \in Window /\ readAt = 0 /\ readPos \in {0, FileLength}
    /\ last \in Nat \cup {-1} /\ copy \in JobType
    /\ rpc = "copying" => copy.left >= 1 /\ copy.from + copy.left <= FileLength
    /\ late \in BOOLEAN /\ fault \in BOOLEAN /\ (fault => late)
    /\ rpc # "none" /\ wpc # "idle" => late

\* The entries that were copied.
Done == IF rpc = "copying" THEN (indices \ Todo) \ {CopyNow} ELSE indices \ Todo

CopiedInv(file) ==
    \A e \in Done :
        /\ TotalSize(Before(e)) + e.size <= TotalSize(Done)
        /\ \A c \in calls : c.pos = e.pos => Holds(file, TotalSize(Before(e)), c)

\* If nothing overlaps, entries are copied in order, and what was copied lies one
\* behind the other.
CopyInv ==
    /\ rpc = "none" => tempWriter = NoView /\ last = -1 /\ readPos = 0
    /\ rpc = "copying" \/ (rpc = "next" /\ Todo # {}) => readPos = 0
    /\ rpc \in {"next", "copying"} =>
         /\ DOMAIN tempFile = 0 .. (Written - 1) /\ InWindow(tempWriter, Written)
         /\ WritePos(tempWriter) = TotalSize(Done)
         /\ TotalSize(Done) + TotalSize(indices \ Done) = TotalSize(indices)
         /\ \A e \in Done, f \in indices \ Done : e.index < f.index
         /\ CopiedInv(tempFile)
    /\ rpc = "copying" =>
         /\ CopyNow \in indices /\ copy.index = last
         /\ Mapped(tempWriter, Written, copy.left)
    /\ ReorderCopies

OutputInv == WriteInv /\ CopyTypes /\ (~late => CopyInv)

-----------------------------------------------------------------------------
(* Sums over sets of entries *)

Picked(S) == CHOOSE e \in S : TRUE

\* The function the sum over S is a value of: for each subset what its elements,
\* taken in some order, add up to.
IsSum(sum, S) ==
    sum = [T \in SUBSET S |-> IF T = {} THEN 0 ELSE Picked(T).size + sum[T \ {Picked(T)}]]
Sum(S) == CHOOSE sum : IsSum(sum, S)

LEMMA TotalSizeIs == \A S : TotalSize(S) = Sum(S)[S]
BY DEF TotalSize, MapThenSumSet, MapThenFoldSet, Sum, IsSum, Picked

\* Among sets of subsets of a finite set there is one without smaller ones.
LEMMA SmallestSet ==
    ASSUME NEW S, IsFiniteSet(S), NEW B \in SUBSET (SUBSET S), B # {}
    PROVE  \E T \in B : \A U \in SUBSET T : U # T => U \notin B
<1>1. IsWellFoundedOn(StrictSubsetOrdering(S), SUBSET S)
  BY FS_StrictSubsetOrderingWellFounded, FS_FiniteSubsetsOfFinite
<1>2. PICK T \in B : \A U \in B : <<U, T>> \notin StrictSubsetOrdering(S)
  BY <1>1, WFMin
<1>3. ASSUME NEW U \in SUBSET T, U # T, U \in B PROVE FALSE
  <2>1. <<U, T>> \in (SUBSET S) \X (SUBSET S) /\ <<U, T>>[1] = U /\ <<U, T>>[2] = T
    BY <1>3
  <2> QED BY <1>2, <1>3, <2>1 DEF StrictSubsetOrdering
<1> QED BY <1>3

\* Two such functions agree where both are defined.
LEMMA SumUnique ==
    ASSUME NEW S, NEW U, IsFiniteSet(S), IsFiniteSet(U), NEW f, NEW g, IsSum(f, S), IsSum(g, U),
           NEW T \in (SUBSET S) \cap (SUBSET U)
    PROVE  f[T] = g[T]
<1> DEFINE B == {V \in SUBSET T : f[V] # g[V]}
<1> SUFFICES ASSUME B # {} PROVE FALSE
  OBVIOUS
<1>1. IsFiniteSet(T) /\ T \subseteq S /\ T \subseteq U
  BY FS_Subset
<1>2. PICK V \in B : \A W \in SUBSET V : W # V => W \notin B
  <2>1. B \in SUBSET (SUBSET T)
    OBVIOUS
  <2> HIDE DEF B
  <2> QED BY <1>1, <2>1, SmallestSet
<1>3. V \in SUBSET S /\ V \in SUBSET U /\ V \subseteq T
  BY <1>1, <1>2
<1>4. /\ f[V] = IF V = {} THEN 0 ELSE Picked(V).size + f[V \ {Picked(V)}]
      /\ g[V] = IF V = {} THEN 0 ELSE Picked(V).size + g[V \ {Picked(V)}]
  BY <1>3 DEF IsSum
<1>5. CASE V = {}
  BY <1>2, <1>4, <1>5
<1>6. CASE V # {}
  <2>1. Picked(V) \in V
    BY <1>6 DEF Picked
  <2>2. f[V \ {Picked(V)}] = g[V \ {Picked(V)}]
    BY <1>2, <2>1
  <2> QED BY <1>2, <1>4, <1>6, <2>2
<1> QED BY <1>5, <1>6

LEMMA SumExists ==
    ASSUME NEW S, IsFiniteSet(S)
    PROVE  IsSum(Sum(S), S)
<1> DEFINE B == {T \in SUBSET S : ~ \E sum : IsSum(sum, T)}
<1>1. SUFFICES B = {}
  BY DEF Sum
<1> SUFFICES ASSUME B # {} PROVE FALSE
  OBVIOUS
<1>2. PICK T \in B : \A U \in SUBSET T : U # T => U \notin B
  <2>1. B \in SUBSET (SUBSET S)
    OBVIOUS
  <2> HIDE DEF B
  <2> QED BY <2>1, SmallestSet
<1>3. \A U \in SUBSET T : U # T => IsSum(Sum(U), U)
  BY <1>2 DEF Sum
<1>4. \A U \in SUBSET T : IsFiniteSet(U)
  BY FS_Subset
<1> DEFINE sum == [U \in SUBSET T |->
                     IF U = {} THEN 0
                     ELSE Picked(U).size + Sum(U \ {Picked(U)})[U \ {Picked(U)}]]
<1>5. ASSUME NEW U \in SUBSET T, U # T PROVE sum[U] = Sum(U)[U]
  <2>1. U \in SUBSET U
    OBVIOUS
  <2>2. Sum(U)[U] = IF U = {} THEN 0 ELSE Picked(U).size + Sum(U)[U \ {Picked(U)}]
    BY <1>3, <1>5, <2>1 DEF IsSum
  <2>3. CASE U = {}
    BY <2>2, <2>3
  <2>4. CASE U # {}
    <3> DEFINE V == U \ {Picked(U)}
    <3>1. V \in SUBSET T /\ V # T /\ V \in (SUBSET U) \cap (SUBSET V)
      BY <1>5, <2>4 DEF Picked
    <3>2. Sum(U)[V] = Sum(V)[V]
      <4> HIDE DEF V
      <4> QED BY <1>3, <1>4, <1>5, <3>1, SumUnique
    <3> QED BY <2>2, <2>4, <3>2
  <2> QED BY <2>3, <2>4
<1>6. ASSUME NEW U \in SUBSET T
      PROVE  sum[U] = IF U = {} THEN 0 ELSE Picked(U).size + sum[U \ {Picked(U)}]
  <2>1. CASE U # {}
    <3>1. Picked(U) \in U /\ U \ {Picked(U)} \in SUBSET T /\ U \ {Picked(U)} # T
      BY <2>1 DEF Picked
    <3>2. sum[U \ {Picked(U)}] = Sum(U \ {Picked(U)})[U \ {Picked(U)}]
      BY <1>5, <3>1
    <3>3. sum[U] = Picked(U).size + Sum(U \ {Picked(U)})[U \ {Picked(U)}]
      BY <2>1
    <3> QED BY <2>1, <3>2, <3>3
  <2>2. CASE U = {}
    BY <2>2
  <2> QED BY <2>1, <2>2
<1>7. IsSum(sum, T)
  <2>1. sum = [U \in SUBSET T |-> sum[U]]
    OBVIOUS
  <2> HIDE DEF sum
  <2> QED BY <1>6, <2>1 DEF IsSum
<1> QED BY <1>2, <1>7

\* One element, the one picked, and the rest.
LEMMA TotalOfPicked ==
    ASSUME NEW S, IsFiniteSet(S), S # {}
    PROVE  TotalSize(S) = Picked(S).size + TotalSize(S \ {Picked(S)})
<1> DEFINE T == S \ {Picked(S)}
<1>1. IsFiniteSet(T) /\ T \in SUBSET S
  BY FS_Subset
<1>2. IsSum(Sum(S), S) /\ IsSum(Sum(T), T)
  BY <1>1, SumExists
<1>3. Sum(S)[S] = Picked(S).size + Sum(S)[T]
  BY <1>2 DEF IsSum
<1>4. Sum(S)[T] = Sum(T)[T]
  <2> HIDE DEF T
  <2> QED BY <1>1, <1>2, SumUnique
<1> QED BY <1>3, <1>4, TotalSizeIs

LEMMA TotalOfNone == TotalSize({}) = 0
<1>1. IsSum(Sum({}), {})
  BY SumExists, FS_EmptySet
<1> QED BY <1>1, TotalSizeIs DEF IsSum

LEMMA TotalIsNat ==
    ASSUME NEW S \in SUBSET Entry, IsFiniteSet(S)
    PROVE  TotalSize(S) \in Nat
<1> DEFINE B == {T \in SUBSET S : TotalSize(T) \notin Nat}
<1> SUFFICES ASSUME B # {} PROVE FALSE
  OBVIOUS
<1>1. PICK T \in B : \A U \in SUBSET T : U # T => U \notin B
  <2>1. B \in SUBSET (SUBSET S)
    OBVIOUS
  <2> HIDE DEF B
  <2> QED BY <2>1, SmallestSet
<1>2. T # {} /\ IsFiniteSet(T) /\ T \in SUBSET S
  <2>1. TotalSize(T) \notin Nat /\ T \in SUBSET S
    BY <1>1
  <2>2. T # {}
    BY <2>1, TotalOfNone
  <2>3. IsFiniteSet(T)
    BY <2>1, FS_Subset
  <2> QED BY <2>1, <2>2, <2>3
<1>3. Picked(T) \in T
  BY <1>2 DEF Picked
<1>4. TotalSize(T \ {Picked(T)}) \in Nat /\ Picked(T).size \in Nat
  BY <1>1, <1>2, <1>3 DEF Entry
<1> QED BY <1>1, <1>2, <1>4, TotalOfPicked

\* Whichever element is taken out.
LEMMA TotalOfRest ==
    ASSUME NEW S \in SUBSET Entry, IsFiniteSet(S), NEW e \in S
    PROVE  TotalSize(S) = TotalSize(S \ {e}) + e.size
<1> DEFINE B == {T \in SUBSET S : \E x \in T : TotalSize(T) # TotalSize(T \ {x}) + x.size}
<1> SUFFICES ASSUME B # {} PROVE FALSE
  OBVIOUS
<1>1. PICK T \in B : \A U \in SUBSET T : U # T => U \notin B
  <2>1. B \in SUBSET (SUBSET S)
    OBVIOUS
  <2> HIDE DEF B
  <2> QED BY <2>1, SmallestSet
<1>2. PICK x \in T : TotalSize(T) # TotalSize(T \ {x}) + x.size
  BY <1>1
<1> DEFINE p == Picked(T)
<1>3. /\ T \in SUBSET S /\ IsFiniteSet(T) /\ T # {} /\ p \in T
      /\ \A U \in SUBSET T : IsFiniteSet(U) /\ U \in SUBSET Entry /\ TotalSize(U) \in Nat
      /\ \A y \in T : y.size \in Nat
  BY <1>1, <1>2, FS_Subset, TotalIsNat DEF Picked, Entry
<1>4. TotalSize(T) = p.size + TotalSize(T \ {p})
  BY <1>3, TotalOfPicked
<1> HIDE DEF p
<1>5. x # p
  BY <1>2, <1>3, <1>4
<1>6. TotalSize(T \ {p}) = TotalSize((T \ {p}) \ {x}) + x.size
  BY <1>1, <1>3, <1>5
<1>7. TotalSize(T \ {x}) = TotalSize((T \ {x}) \ {p}) + p.size
  BY <1>1, <1>3, <1>5
<1>8. (T \ {p}) \ {x} = (T \ {x}) \ {p}
  OBVIOUS
<1>9. TotalSize((T \ {p}) \ {x}) \in Nat /\ p.size \in Nat /\ x.size \in Nat
  BY <1>3
<1>10. TotalSize(T) = TotalSize(T \ {x}) + x.size
  <2>1. \A n, i, j \in Nat : i + (n + j) = (n + i) + j
    OBVIOUS
  <2>2. TotalSize(T \ {x}) = TotalSize((T \ {p}) \ {x}) + p.size
    BY <1>7, <1>8, Zenon
  <2>3. TotalSize(T) = p.size + (TotalSize((T \ {p}) \ {x}) + x.size)
    BY <1>4, <1>6, Zenon
  <2>4. p.size + (TotalSize((T \ {p}) \ {x}) + x.size)
          = (TotalSize((T \ {p}) \ {x}) + p.size) + x.size
    BY <1>9, <2>1, Zenon
  <2> QED BY <2>2, <2>3, <2>4, Zenon
<1> QED BY <1>2, <1>10

LEMMA TotalWithOne ==
    ASSUME NEW S \in SUBSET Entry, IsFiniteSet(S), NEW e \in Entry, e \notin S
    PROVE  TotalSize(S \cup {e}) = TotalSize(S) + e.size
<1>1. IsFiniteSet(S \cup {e}) /\ S \cup {e} \in SUBSET Entry /\ (S \cup {e}) \ {e} = S
  BY FS_AddElement
<1> QED BY <1>1, TotalOfRest

-----------------------------------------------------------------------------
(* The window of a file of one view *)

LEMMA ViewIsFile ==
    ASSUME OneView, NEW len \in 0 .. FileLength
    PROVE  ViewOf(len) = len
BY LengthAssumption DEF OneView, ViewOf, Lesser

LEMMA RemapIs ==
    ASSUME NEW len \in Nat, NEW m \in Window, m.pos = 0
    PROVE  LET r == Remap(m, len, len) IN
           /\ r \in Window /\ r.view /\ r.at = 0 /\ r.cur = 0
           /\ r.pos = IF m.view THEN len ELSE 0
<1>1. Remap(m, len, len)
        = [view |-> m.pos + len <= len, at |-> m.pos,
           pos |-> IF m.view THEN m.pos + len ELSE m.pos, cur |-> 0]
  BY DEF Remap
<1>2. (m.pos + len <= len) = TRUE
  OBVIOUS
<1>3. (IF m.view THEN m.pos + len ELSE m.pos) = (IF m.view THEN len ELSE 0)
  OBVIOUS
<1>4. Remap(m, len, len)
        = [view |-> TRUE, at |-> 0, pos |-> IF m.view THEN len ELSE 0, cur |-> 0]
  BY <1>1, <1>2, <1>3, Zenon
<1>5. (IF m.view THEN len ELSE 0) \in Nat
  OBVIOUS
<1> QED BY <1>4, <1>5 DEF Window

LEMMA WindowReady ==
    ASSUME NEW len \in Nat, NEW n \in Nat \ {0}, NEW m, InWindow(m, len), WritePos(m) + n <= len
    PROVE  /\ Mapped(Ready(m, len, len), len, n)
           /\ InWindow(Ready(m, len, len), len)
           /\ WritePos(Ready(m, len, len)) = WritePos(m)
<1> DEFINE r == Ready(m, len, len)
<1>1. m \in Window /\ m.cur \in Nat /\ m.pos \in Nat
  BY DEF InWindow, Window
<1>2. m.pos = 0 /\ m.cur + n <= len /\ WritePos(m) = m.cur /\ (m.view \/ m.cur = 0)
      /\ (m.view => m.at = 0)
  BY <1>1 DEF InWindow, NoView, WritePos
<1>3. r \in Window /\ r.view /\ r.at = 0 /\ r.pos = 0 /\ r.cur = m.cur
  <2>1. CASE m.view
    BY <1>1, <1>2, <2>1 DEF Ready
  <2>2. CASE ~m.view
    <3>1. r = Remap(m, len, len)
      BY <2>2 DEF Ready
    <3>2. r \in Window /\ r.view /\ r.at = 0 /\ r.cur = 0
      BY <1>1, <1>2, <3>1, RemapIs
    <3>3. r.pos = 0
      BY <1>1, <1>2, <2>2, <3>1, RemapIs
    <3> QED BY <1>2, <2>2, <3>2, <3>3
  <2> QED BY <2>1, <2>2
<1> HIDE DEF r
<1>4. Mapped(r, len, n) /\ InWindow(r, len) /\ WritePos(r) = WritePos(m)
  BY <1>1, <1>2, <1>3 DEF Mapped, InWindow, WritePos
<1> QED BY <1>4 DEF r

LEMMA WindowRound ==
    ASSUME NEW len \in Nat, NEW n, NEW m, Mapped(m, len, n)
    PROVE  /\ Part(m, len, n) = n /\ InView(m, len, n)
           /\ ViewPos(m) = WritePos(m) /\ WritePos(m) \in Nat
           /\ InWindow(Advance(m, len, len, n), len)
           /\ WritePos(Advance(m, len, len, n)) = WritePos(m) + n
<1> DEFINE r == Advance(m, len, len, n)
<1>1. /\ m \in Window /\ m.view /\ m.at = 0 /\ m.pos = 0 /\ m.cur \in Nat
      /\ n \in Nat \ {0} /\ m.cur + n <= len
  BY DEF Mapped, Window
<1>2. Part(m, len, n) = n /\ InView(m, len, n)
  BY <1>1 DEF Part, InView
<1>3. ViewPos(m) = m.cur /\ WritePos(m) = m.cur
  BY <1>1 DEF ViewPos, WritePos
<1>4. CASE m.cur + n = len
  <2>1. r = Remap(m, len, len)
    BY <1>1, <1>4 DEF Advance
  <2>2. r \in Window /\ r.view /\ r.at = 0 /\ r.pos = len /\ r.cur = 0
    BY <1>1, <2>1, RemapIs
  <2> HIDE DEF r
  <2>3. InWindow(r, len) /\ WritePos(r) = m.cur + n
    BY <1>1, <1>4, <2>2 DEF InWindow, WritePos
  <2> QED BY <1>1, <1>2, <1>3, <2>3 DEF r
<1>5. CASE m.cur + n # len
  <2>1. r = [m EXCEPT !.cur = m.cur + n]
    BY <1>1, <1>5 DEF Advance
  <2>2. r \in Window /\ r.view /\ r.at = 0 /\ r.pos = 0 /\ r.cur = m.cur + n
    BY <1>1, <2>1 DEF Window
  <2> HIDE DEF r
  <2>3. InWindow(r, len) /\ WritePos(r) = m.cur + n
    BY <1>1, <1>5, <2>2 DEF InWindow, WritePos
  <2> QED BY <1>1, <1>2, <1>3, <2>3 DEF r
<1> QED BY <1>4, <1>5

LEMMA WindowPos ==
    ASSUME NEW len \in Nat, NEW m, InWindow(m, len)
    PROVE  WritePos(m) \in 0 .. len
BY DEF InWindow, Window, WritePos, NoView

-----------------------------------------------------------------------------
(* Copied blocks *)

\* A result that lies before the block or behind it stays, and the block is there.
LEMMA CopiedIs ==
    ASSUME NEW file, NEW len \in Nat, DOMAIN file = 0 .. (len - 1),
           NEW pos \in Nat, NEW n \in Nat, pos + n <= len,
           NEW block, DOMAIN block = 0 .. (n - 1)
    PROVE  LET new == Copied(file, pos, block) IN
           /\ DOMAIN new = 0 .. (len - 1)
           /\ \A o \in 0 .. (n - 1) : new[pos + o] = block[o]
           /\ \A i \in 0 .. (len - 1) :
                \/ \E o \in 0 .. (n - 1) : new[i] = block[o]
                \/ new[i] = file[i]
           /\ \A p \in Nat, c \in Entry : p + c.size <= pos /\ Holds(file, p, c) => Holds(new, p, c)
<1> DEFINE new == Copied(file, pos, block)
<1>1. new = [i \in 0 .. (len - 1) |-> IF i - pos \in 0 .. (n - 1) THEN block[i - pos] ELSE file[i]]
  BY DEF Copied
<1>2. ASSUME NEW o \in 0 .. (n - 1) PROVE new[pos + o] = block[o]
  <2>1. pos + o \in 0 .. (len - 1) /\ pos + o - pos = o
    OBVIOUS
  <2> QED BY <1>1, <2>1
<1>3. ASSUME NEW p \in Nat, NEW c \in Entry, p + c.size <= pos, Holds(file, p, c)
      PROVE  Holds(new, p, c)
  <2>1. ASSUME NEW o \in 0 .. (c.size - 1)
        PROVE  p + o \in 0 .. (len - 1) /\ p + o - pos \notin 0 .. (n - 1)
               /\ file[p + o] = <<c.index, o>>
    <3>1. c.size \in Nat /\ p + o < pos
      BY <1>3 DEF Entry
    <3> QED BY <1>3, <3>1 DEF Holds
  <2>2. ASSUME NEW o \in 0 .. (c.size - 1)
        PROVE  p + o \in DOMAIN new /\ new[p + o] = <<c.index, o>>
    <3>1. new[p + o] = IF p + o - pos \in 0 .. (n - 1) THEN block[p + o - pos] ELSE file[p + o]
      BY <1>1, <2>1
    <3> QED BY <1>1, <2>1, <3>1
  <2> QED BY <2>2 DEF Holds
<1> QED BY <1>1, <1>2, <1>3

LEMMA ViewNat ==
    ASSUME NEW len \in Nat
    PROVE  ViewOf(len) \in Nat
BY LengthAssumption DEF ViewOf, Lesser

\* Whatever is asked of a window, it stays one.
LEMMA WindowTypes ==
    ASSUME NEW m \in Window, NEW W \in Nat, NEW len \in Nat, NEW n \in Nat
    PROVE  Ready(m, W, len) \in Window /\ Advance(m, W, len, n) \in Window
<1>1. /\ m.view \in BOOLEAN /\ m.at \in Nat /\ m.pos \in Nat /\ m.cur \in Nat
      /\ m = [view |-> m.view, at |-> m.at, pos |-> m.pos, cur |-> m.cur]
  BY DEF Window
<1>2. Remap(m, W, len) \in Window
  <2>1. (IF m.view THEN m.pos + W ELSE m.pos) \in Nat
    BY <1>1
  <2>2. (m.pos + W <= len) \in BOOLEAN
    OBVIOUS
  <2> QED BY <1>1, <2>1, <2>2 DEF Remap, Window
<1>3. [m EXCEPT !.cur = @ + n] \in Window
  <2>1. m.cur + n \in Nat
    BY <1>1
  <2> QED BY <2>1 DEF Window
<1> QED BY <1>2, <1>3 DEF Ready, Advance

\* A round in the view is of at least a byte and of no more than are left.
LEMMA PartIs ==
    ASSUME NEW m \in Window, NEW W \in Nat, NEW n \in Nat \ {0}, InView(m, W, n)
    PROVE  Part(m, W, n) \in 1 .. n
<1>1. m.cur \in Nat
  BY DEF Window
<1> QED BY <1>1 DEF InView, Part

\* The length of TempData.dat.
LEMMA TempLengthIs ==
    ASSUME NEW n \in Nat, DOMAIN tempFile = 0 .. (n - 1)
    PROVE  TempLength = n
<1>1. Cardinality(0 .. (n - 1)) = n
  BY FS_Interval
<1> QED BY <1>1 DEF TempLength

\* What the steps of the other do not change.
LEMMA NamesKept ==
    ASSUME UNCHANGED <<wpc, writer, job, calls, indices, newFile>>
    PROVE  /\ Written' = Written /\ CallNow' = CallNow /\ End' = End /\ CallBytes' = CallBytes
           /\ \A c : (Writing(c))' <=> Writing(c)
           /\ \A f : (Before(f))' = Before(f)
BY DEF Written, CallNow, End, CallBytes, Writing, Before

-----------------------------------------------------------------------------
(* Write *)

\* A Write while the file is being reordered or afterwards leaves nothing to show
\* of the copies.
LEMMA CopyInvLate ==
    ASSUME CopyTypes, ~late => CopyInv, UNCHANGED reorderVars,
           rpc # "none" => late', rpc = "none" => late' = late
    PROVE  ~late' => CopyInv'
<1> SUFFICES ASSUME ~late' PROVE CopyInv'
  OBVIOUS
<1>1. rpc = "none" /\ rpc' = "none" /\ ~late /\ UNCHANGED <<tempWriter, last, readPos>>
  BY DEF reorderVars
<1> QED BY <1>1 DEF CopyInv, ReorderCopies

LEMMA BeginWriteInv ==
    ASSUME OutputInv, NEW k \in Results, NEW size \in Nat \ {0}, BeginWrite(k, size),
           Written + size <= FileLength
    PROVE  OutputInv'
<1> DEFINE P == Written
           call == [index |-> k, pos |-> P, size |-> size]
<1>1. /\ wpc = "idle" /\ wpc' = "inserting"
      /\ \A c \in calls : c.index # k
      /\ calls' = calls \cup {call}
      /\ job' = [index |-> k, from |-> 0, left |-> size]
      /\ UNCHANGED <<newFile, writer, rpc, tempFile, tempWriter, readPos, readAt, last, copy, fault>>
      /\ UNCHANGED reorderVars
      /\ late' = (late \/ rpc # "none")
  BY DEF BeginWrite, reorderVars, Written
<1>2. PICK i \in UpperBoundIndex(k) : indices' = Emplace([index |-> i, pos |-> P, size |-> size])
  BY DEF BeginWrite, Written
<1> DEFINE entry == [index |-> i, pos |-> P, size |-> size]
<1>3. WriteInv /\ CallsInv /\ IndicesInv /\ CopyTypes
  BY DEF OutputInv, WriteInv
<1>4. /\ FileLength \in Nat /\ NResults \in Nat
      /\ P \in Nat /\ InWindow(writer, FileLength) /\ End = P
      /\ P' = P /\ End' = P + size /\ CallNow' = call
  <2>1. FileLength \in Nat /\ NResults \in Nat
    BY LengthAssumption, ResultsAssumption
  <2>2. InWindow(writer, FileLength)
    BY <1>3 DEF WriteInv
  <2>3. P \in Nat /\ End = P
    BY <1>1, <2>1, <2>2, WindowPos DEF End, Written
  <2>4. P' = P
    BY <1>1 DEF Written
  <2>5. CallNow' = call /\ End' = P + size
    BY <1>1, <2>4 DEF CallNow, End
  <2> QED BY <2>1, <2>2, <2>3, <2>4, <2>5
<1>5. call \in Entry /\ entry \in Entry
  <2>1. k \in Nat
    BY <1>4 DEF Results
  <2>2. i \in Nat
    <3>1. \A e \in indices : e.index \in Nat
      BY <1>3 DEF IndicesInv, Entry
    <3> QED BY <1>2, <1>4, <3>1 DEF UpperBoundIndex
  <2> QED BY <1>4, <2>1, <2>2 DEF Entry
<1>6. \/ indices' = indices
      \/ indices' = indices \cup {entry} /\ \A e \in indices : e.index # i
  BY <1>2 DEF Emplace
<1>7. /\ \A c \in calls : c \in Entry /\ c.index \in Results /\ c.size >= 1 /\ c.pos + c.size <= P
                          /\ (rpc # "closed" => Holds(newFile, c.pos, c))
      /\ \A e \in indices : e \in Entry /\ e.size >= 1 /\ e.pos + e.size <= P
                            /\ \A c \in calls : c.pos = e.pos => c.size = e.size
  BY <1>1, <1>3, <1>4 DEF CallsInv, IndicesInv, Writing
<1>8. \A c \in calls \cup indices : c.pos # P
  BY <1>4, <1>7 DEF Entry
<1>9. TotalSize(calls') = P + size /\ calls' \subseteq Entry /\ IsFiniteSet(calls')
  <2>1. TotalSize(calls) = P /\ calls \in SUBSET Entry /\ IsFiniteSet(calls) /\ call \notin calls
    BY <1>1, <1>3, <1>4 DEF CallsInv
  <2>2. TotalSize(calls \cup {call}) = TotalSize(calls) + call.size
    BY <1>5, <2>1, TotalWithOne
  <2> QED BY <1>1, <1>5, <2>1, <2>2, FS_AddElement
<1>10. TotalSize(indices') <= P + size /\ indices' \subseteq Entry /\ IsFiniteSet(indices')
  <2>1. TotalSize(indices) <= P /\ indices \in SUBSET Entry /\ IsFiniteSet(indices)
        /\ TotalSize(indices) \in Nat
    BY <1>3, <1>4, TotalIsNat DEF IndicesInv
  <2>2. CASE indices' = indices
    BY <1>4, <2>1, <2>2
  <2>3. CASE indices' = indices \cup {entry} /\ \A e \in indices : e.index # i
    <3>1. entry \notin indices /\ entry.size = size
      BY <2>3
    <3>2. TotalSize(indices') = TotalSize(indices) + size
      BY <1>5, <2>1, <2>3, <3>1, TotalWithOne
    <3>3. IsFiniteSet(indices')
      BY <2>1, <2>3, FS_AddElement
    <3> QED BY <1>4, <1>5, <2>1, <2>3, <3>2, <3>3
  <2> QED BY <1>6, <2>2, <2>3
<1>11. BytesOfCalls(newFile)' /\ BytesOfCalls(tempFile)'
  <2>1. CallBytes \subseteq CallBytes'
    BY <1>1 DEF CallBytes
  <2> QED BY <1>1, <1>3, <2>1 DEF WriteInv, BytesOfCalls
<1>12. CallsInv'
  <2>1. ASSUME NEW c \in calls'
        PROVE  /\ c.index \in Results /\ c.size >= 1
               /\ \/ wpc' # "idle" /\ c = CallNow'
                  \/ c.pos + c.size <= P' /\ (rpc' # "closed" => Holds(newFile', c.pos, c))
    BY <1>1, <1>4, <1>7, <2>1
  <2>2. \A c, d \in calls' : c.index = d.index => c = d
    BY <1>1, <1>3 DEF CallsInv
  <2> QED BY <1>4, <1>9, <2>1, <2>2 DEF CallsInv, Writing
<1>13. IndicesInv'
  <2>1. \A e \in indices' : e.size >= 1 /\ e.pos + e.size <= End'
    <3>1. \A e \in indices : e.pos \in Nat /\ e.size \in Nat
      BY <1>7 DEF Entry
    <3> QED BY <1>4, <1>6, <1>7, <3>1
  <2>2. \A e, f \in indices' : e.index = f.index => e = f
    BY <1>3, <1>6 DEF IndicesInv
  <2>3. \A e \in indices', c \in calls' : c.pos = e.pos => c.size = e.size
    BY <1>1, <1>6, <1>7, <1>8
  <2> QED BY <1>4, <1>10, <2>1, <2>2, <2>3 DEF IndicesInv
<1>14. WriteInv'
  <2>1. job' \in JobType /\ job'.from = 0 /\ job'.left = size
    BY <1>1, <1>4 DEF Results, JobType
  <2>2. CallNow' \in calls'
    BY <1>1, <1>4
  <2>3. DOMAIN newFile' = IF rpc' = "closed" THEN DOMAIN tempFile' ELSE 0 .. (FileLength - 1)
    BY <1>1, <1>3 DEF WriteInv
  <2>4. wpc' # "writing" /\ wpc' \in {"idle", "inserting", "writing"} /\ End' <= FileLength
    BY <1>1, <1>4
  <2>5. InWindow(writer, FileLength)'
    BY <1>1, <1>4
  <2>6. job'.left >= 1
    BY <2>1
  <2> QED BY <1>11, <1>12, <1>13, <2>1, <2>2, <2>3, <2>4, <2>5, <2>6 DEF WriteInv
<1>15. CopyTypes'
  BY <1>1, <1>3 DEF CopyTypes
<1>16. ~late' => CopyInv'
  <2>1. (rpc # "none" => late') /\ (rpc = "none" => late' = late)
    BY <1>1, <1>3 DEF CopyTypes
  <2> QED BY <1>1, <2>1, CopyInvLate DEF OutputInv
<1> QED BY <1>14, <1>15, <1>16 DEF OutputInv

LEMMA MapFirstViewInv ==
    ASSUME OneView, OutputInv, MapFirstView
    PROVE  OutputInv'
<1>1. /\ wpc = "inserting" /\ wpc' = "writing"
      /\ writer' = IF rpc = "closed" THEN writer ELSE Ready(writer, ViewOf(FileLength), FileLength)
      /\ UNCHANGED <<newFile, indices, job, calls, rpc, tempFile, tempWriter, readPos, readAt, last,
                     copy, late, fault>>
      /\ UNCHANGED reorderVars
  BY DEF MapFirstView, reorderVars
<1>2. WriteInv /\ CallsInv /\ IndicesInv /\ CopyTypes
  BY DEF OutputInv, WriteInv
<1>3. /\ FileLength \in Nat /\ ViewOf(FileLength) = FileLength /\ InWindow(writer, FileLength)
      /\ job.from = 0 /\ job.left \in Nat \ {0} /\ CallNow \in calls
      /\ Written + job.left <= FileLength
  <2>1. job.left \in Nat /\ job.left >= 1 /\ job.from = 0 /\ CallNow \in calls
        /\ InWindow(writer, FileLength) /\ End <= FileLength
    BY <1>1, <1>2 DEF WriteInv, JobType
  <2>2. FileLength \in Nat /\ ViewOf(FileLength) = FileLength
    BY LengthAssumption, ViewIsFile
  <2> QED BY <1>1, <2>1, <2>2 DEF End
<1>4. /\ Written' = Written /\ InWindow(writer, FileLength)'
      /\ rpc # "closed" => Mapped(writer', FileLength, job.left)
  <2>1. CASE rpc = "closed"
    BY <1>1, <1>3, <2>1 DEF Written
  <2>2. CASE rpc # "closed"
    BY <1>1, <1>3, <2>2, WindowReady DEF Written
  <2> QED BY <2>1, <2>2
<1>5. /\ End' = End /\ CallNow' = CallNow /\ CallBytes' = CallBytes
      /\ \A c : (Writing(c))' <=> Writing(c)
  BY <1>1, <1>4 DEF End, CallNow, CallBytes, Writing
<1>6. CallsInv'
  BY <1>1, <1>2, <1>4, <1>5 DEF CallsInv
<1>7. IndicesInv'
  BY <1>1, <1>2, <1>5 DEF IndicesInv
<1>8. WriteInv'
  BY <1>1, <1>2, <1>4, <1>5, <1>6, <1>7 DEF WriteInv, BytesOfCalls
<1>9. CopyTypes'
  BY <1>1, <1>2 DEF CopyTypes
<1>10. ~late' => CopyInv'
  <2>1. rpc # "none" => late
    BY <1>1, <1>2 DEF CopyTypes
  <2> QED BY <1>1, <2>1, CopyInvLate DEF OutputInv
<1> QED BY <1>8, <1>9, <1>10 DEF OutputInv

\* A round in the view is the whole of the call.
LEMMA RoundIs ==
    ASSUME OneView, WriteInv, wpc = "writing", rpc # "closed"
    PROVE  /\ RoundInView /\ RoundSize = job.left /\ ViewPos(writer) = Written
           /\ job.left \in Nat \ {0} /\ Written \in Nat /\ Written + job.left <= FileLength
           /\ \A S \in SUBSET (0 .. (RoundSize - 1)) :
                /\ DOMAIN RoundBytes(S) = S
                /\ \A o \in S : RoundBytes(S)[o] = <<job.index, o>> /\ <<job.index, o>> \in CallBytes
<1>1. /\ FileLength \in Nat /\ ViewOf(FileLength) = FileLength
      /\ Mapped(writer, FileLength, job.left) /\ job.from = 0 /\ CallNow \in calls
      /\ End <= FileLength
  BY LengthAssumption, ViewIsFile DEF WriteInv
<1>2. /\ RoundInView /\ RoundSize = job.left /\ ViewPos(writer) = Written
      /\ job.left \in Nat \ {0} /\ Written \in Nat
  <2>1. job.left \in Nat \ {0}
    BY <1>1 DEF Mapped
  <2> QED BY <1>1, <2>1, WindowRound DEF RoundInView, RoundSize, Written
<1>3. ASSUME NEW S \in SUBSET (0 .. (RoundSize - 1))
      PROVE  /\ DOMAIN RoundBytes(S) = S
             /\ \A o \in S : RoundBytes(S)[o] = <<job.index, o>> /\ <<job.index, o>> \in CallBytes
  <2>1. ASSUME NEW o \in S
        PROVE  RoundBytes(S)[o] = <<job.index, o>> /\ <<job.index, o>> \in CallBytes
    <3>1. o \in 0 .. (job.left - 1)
      BY <1>2
    <3>2. job.from + o = o
      BY <1>1, <3>1
    <3>3. CallNow.index = job.index /\ CallNow.size = job.left
      BY DEF CallNow
    <3> QED BY <1>1, <3>1, <3>2, <3>3 DEF CallBytes, RoundBytes
  <2> QED BY <2>1 DEF RoundBytes
<1> QED BY <1>1, <1>2, <1>3 DEF End

LEMMA WriteRoundInv ==
    ASSUME OneView, OutputInv, WriteRound
    PROVE  OutputInv'
<1> DEFINE P == Written
           n == job.left
           block == RoundBytes(0 .. (RoundSize - 1))
<1>1. WriteInv /\ CallsInv /\ IndicesInv /\ CopyTypes
  BY DEF OutputInv, WriteInv
<1>2. /\ wpc = "writing" /\ UNCHANGED reorderVars
      /\ UNCHANGED <<rpc, tempFile, tempWriter, readPos, readAt, last, copy, indices, calls, late>>
  BY DEF WriteRound, reorderVars
<1>3. rpc # "none" => late
  BY <1>1, <1>2 DEF CopyTypes
<1>4. ~late' => CopyInv'
  BY <1>2, <1>3, CopyInvLate DEF OutputInv
\* The mapping is closed.
<1>5. CASE rpc = "closed"
  <2>1. UNCHANGED <<wpc, writer, newFile, job>> /\ fault' = TRUE
    BY <1>5 DEF WriteRound, RoundInView
  <2>2. /\ Written' = Written /\ CallNow' = CallNow /\ End' = End /\ CallBytes' = CallBytes
        /\ \A c : (Writing(c))' <=> Writing(c)
    BY <1>2, <2>1, NamesKept
  <2>3. CallsInv' /\ IndicesInv'
    BY <1>1, <1>2, <2>1, <2>2 DEF CallsInv, IndicesInv
  <2>4. WriteInv'
    BY <1>1, <1>2, <2>1, <2>2, <2>3 DEF WriteInv, BytesOfCalls
  <2>5. CopyTypes'
    BY <1>1, <1>2, <1>3, <1>5, <2>1 DEF CopyTypes
  <2> QED BY <1>4, <2>4, <2>5 DEF OutputInv
<1>6. CASE rpc # "closed"
  <2>1. /\ RoundInView /\ RoundSize = n /\ ViewPos(writer) = P
        /\ n \in Nat \ {0} /\ P \in Nat /\ P + n <= FileLength /\ FileLength \in Nat
        /\ DOMAIN block = 0 .. (n - 1)
        /\ \A o \in 0 .. (n - 1) : block[o] = <<job.index, o>> /\ <<job.index, o>> \in CallBytes
    BY <1>1, <1>2, <1>6, RoundIs, LengthAssumption
  <2>2. /\ newFile' = Copied(newFile, P, block)
        /\ writer' = Advance(writer, FileLength, FileLength, n)
        /\ job' = [job EXCEPT !.from = job.from + n, !.left = n - n]
        /\ wpc' = "idle" /\ UNCHANGED fault
    <3>1. ViewOf(FileLength) = FileLength
      BY <2>1, ViewIsFile
    <3> QED BY <2>1, <3>1 DEF WriteRound
  <2>3. /\ DOMAIN newFile = 0 .. (FileLength - 1) /\ Mapped(writer, FileLength, n)
        /\ job \in JobType /\ CallNow \in calls
    BY <1>1, <1>2, <1>6 DEF WriteInv
  <2>4. Written' = P + n /\ InWindow(writer, FileLength)' /\ End' = P + n /\ End = P + n
    <3>1. InWindow(writer', FileLength) /\ WritePos(writer') = P + n
      BY <2>1, <2>2, <2>3, WindowRound DEF Written
    <3> QED BY <1>2, <2>2, <3>1 DEF Written, End
  <2>5. CallNow = [index |-> job.index, pos |-> P, size |-> n]
    BY DEF CallNow
  <2>6. /\ DOMAIN newFile' = 0 .. (FileLength - 1)
        /\ \A o \in 0 .. (n - 1) : newFile'[P + o] = block[o]
        /\ \A i \in 0 .. (FileLength - 1) :
             \/ \E o \in 0 .. (n - 1) : newFile'[i] = block[o]
             \/ newFile'[i] = newFile[i]
        /\ \A p \in Nat, c \in Entry : p + c.size <= P /\ Holds(newFile, p, c) => Holds(newFile', p, c)
    <3> HIDE DEF block, P, n
    <3>1. n \in Nat /\ P \in Nat /\ P + n <= FileLength /\ FileLength \in Nat
      BY <2>1
    <3>2. DOMAIN newFile = 0 .. (FileLength - 1) /\ DOMAIN block = 0 .. (n - 1)
      BY <2>1, <2>3
    <3>3. newFile' = Copied(newFile, P, block)
      BY <2>2
    <3> QED BY ONLY <3>1, <3>2, <3>3, CopiedIs, SMTT(30)
  <2> HIDE DEF block, P, n
  <2>7. Holds(newFile', P, CallNow)
    <3>1. \A o \in 0 .. (n - 1) : P + o \in 0 .. (FileLength - 1)
      BY <2>1
    <3> QED BY <2>1, <2>5, <2>6, <3>1 DEF Holds
  <2>8. \A c \in calls : /\ c.index \in Results /\ c.size >= 1 /\ c.pos + c.size <= P + n
                         /\ Holds(newFile', c.pos, c)
    <3> SUFFICES ASSUME NEW c \in calls
                 PROVE  /\ c.index \in Results /\ c.size >= 1 /\ c.pos + c.size <= P + n
                        /\ Holds(newFile', c.pos, c)
      OBVIOUS
    <3>1. c \in Entry /\ c.index \in Results /\ c.size >= 1 /\ c.pos \in Nat /\ c.size \in Nat
      BY <1>1 DEF CallsInv, Entry
    <3>2. CASE c = CallNow
      BY <2>1, <2>5, <2>7, <3>1, <3>2
    <3>3. CASE c # CallNow
      <4>1. c.pos + c.size <= P /\ Holds(newFile, c.pos, c)
        BY <1>1, <1>6, <3>3 DEF CallsInv, Writing, P
      <4> QED BY <2>1, <2>6, <3>1, <4>1
    <3> QED BY <3>2, <3>3
  <2>9. BytesOfCalls(newFile)' /\ BytesOfCalls(tempFile)'
    <3>1. CallBytes' = CallBytes
      BY <1>2 DEF CallBytes
    <3>2. \A i \in DOMAIN newFile' : newFile'[i] = Unset \/ newFile'[i] \in CallBytes
      BY <1>1, <2>1, <2>3, <2>6 DEF WriteInv, BytesOfCalls
    <3> QED BY <1>1, <1>2, <3>1, <3>2 DEF WriteInv, BytesOfCalls
  <2>10. CallsInv'
    <3>1. \A c \in calls' :
           /\ c.index \in Results /\ c.size >= 1
           /\ c.pos + c.size <= Written' /\ Holds(newFile', c.pos, c)
      BY <1>2, <2>4, <2>8
    <3> QED BY <1>1, <1>2, <2>4, <3>1 DEF CallsInv
  <2>11. IndicesInv'
    BY <1>1, <1>2, <2>4 DEF IndicesInv
  <2>12. job' \in JobType
    <3>1. job.from + n \in Nat /\ n - n \in Nat /\ job.index \in Nat
      BY <2>1, <2>3 DEF JobType
    <3> QED BY <2>2, <2>3, <3>1 DEF JobType
  <2>13. WriteInv'
    BY <1>2, <1>6, <2>1, <2>2, <2>4, <2>6, <2>9, <2>10, <2>11, <2>12 DEF WriteInv
  <2>14. CopyTypes'
    BY <1>1, <1>2, <2>2 DEF CopyTypes
  <2> QED BY <1>4, <2>13, <2>14 DEF OutputInv
<1> QED BY <1>5, <1>6

-----------------------------------------------------------------------------
(* ReorderFileData *)

LEMMA BeginReorderInv ==
    ASSUME OutputInv, BeginReorder
    PROVE  OutputInv'
<1>1. WriteInv /\ CallsInv /\ IndicesInv /\ CopyTypes
  BY DEF OutputInv, WriteInv
<1>2. /\ rpc = "none" /\ rpc' = "next" /\ late' = (late \/ wpc # "idle")
      /\ UNCHANGED <<wpc, newFile, writer, indices, job, calls, tempWriter, readPos, readAt, last,
                     copy, fault>>
  BY DEF BeginReorder, writeVars
<1>3. /\ Written' = Written /\ CallNow' = CallNow /\ End' = End /\ CallBytes' = CallBytes
      /\ \A c : (Writing(c))' <=> Writing(c)
  BY <1>2, NamesKept
<1>4. PICK n \in WritePosSeen : tempFile' = [i \in 0 .. (n - 1) |-> Unset]
  BY DEF BeginReorder
<1>5. n \in Nat /\ Written \in Nat /\ (wpc = "idle" => n = Written)
  <2>1. FileLength \in Nat /\ InWindow(writer, FileLength)
    BY <1>1, LengthAssumption DEF WriteInv
  <2>2. Written \in Nat
    BY <2>1, WindowPos DEF Written
  <2> QED BY <1>4, <2>1, <2>2 DEF WritePosSeen, Remapping, Written
<1>6. WriteInv'
  <2>1. CallsInv' /\ IndicesInv'
    BY <1>1, <1>2, <1>3 DEF CallsInv, IndicesInv
  <2>2. BytesOfCalls(newFile)' /\ BytesOfCalls(tempFile)'
    BY <1>1, <1>2, <1>3, <1>4 DEF WriteInv, BytesOfCalls
  <2> QED BY <1>1, <1>2, <1>3, <2>1, <2>2 DEF WriteInv
<1>7. CopyTypes'
  <2>1. DOMAIN tempFile' = 0 .. (n - 1)
    BY <1>4
  <2> QED BY <1>1, <1>2, <1>5, <2>1 DEF CopyTypes
<1>8. ASSUME ~late' PROVE CopyInv'
  <2>1. ~late /\ wpc = "idle" /\ n = Written
    BY <1>2, <1>5, <1>8
  <2>2. tempWriter = NoView /\ last = -1 /\ readPos = 0
    BY <1>2, <2>1 DEF OutputInv, CopyInv
  <2>3. Todo' = indices /\ Done' = {} /\ (indices \ Done)' = indices
    <3>1. \A e \in indices : e.index > -1
      BY <1>1 DEF IndicesInv, Entry
    <3> QED BY <1>2, <2>2, <3>1 DEF Todo, Done
  <2>4. TotalSize(indices) \in Nat /\ TotalSize({}) = 0
    BY <1>1, TotalIsNat, TotalOfNone DEF IndicesInv
  <2>5. InWindow(tempWriter', Written') /\ WritePos(tempWriter') = 0
    BY <1>2, <2>2 DEF InWindow, NoView, WritePos, Window
  <2>6. WritePos(tempWriter') = TotalSize(Done')
    BY <2>3, <2>4, <2>5
  <2>7. TotalSize(Done') + TotalSize((indices \ Done)') = TotalSize(indices')
    BY <1>2, <2>3, <2>4
  <2>8. CopiedInv(tempFile)'
    BY <2>3 DEF CopiedInv
  <2>9. DOMAIN tempFile' = 0 .. (Written' - 1)
    BY <1>3, <1>4, <2>1
  <2> QED BY <1>2, <2>2, <2>3, <2>5, <2>6, <2>7, <2>8, <2>9 DEF CopyInv, ReorderCopies
<1> QED BY <1>6, <1>7, <1>8 DEF OutputInv

\* The entry to be copied next has room in the file.
LEMMA BeginCopyInv ==
    ASSUME OneView, OutputInv, BeginCopy
    PROVE  OutputInv'
<1>1. WriteInv /\ CallsInv /\ IndicesInv /\ CopyTypes
  BY DEF OutputInv, WriteInv
<1>2. PICK e \in NextEntry : last' = e.index
                             /\ copy' = [index |-> e.index, from |-> e.pos, left |-> e.size]
  BY DEF BeginCopy
<1>3. /\ rpc = "next" /\ rpc' = "copying"
      /\ tempWriter' = Ready(tempWriter, ViewOf(TempLength), TempLength)
      /\ UNCHANGED <<wpc, newFile, writer, indices, job, calls, tempFile, readPos, readAt, late, fault>>
  BY DEF BeginCopy, writeVars
<1>4. /\ e \in indices /\ e \in Entry
      /\ indices \in SUBSET Entry /\ IsFiniteSet(indices)
      /\ e = [index |-> e.index, pos |-> e.pos, size |-> e.size]
      /\ e.size \in Nat \ {0} /\ e.index \in Nat /\ e.pos \in Nat
      /\ e.pos + e.size <= End /\ End <= FileLength
  <2>1. e \in indices
    BY <1>2 DEF NextEntry, Todo
  <2>2. indices \in SUBSET Entry /\ IsFiniteSet(indices) /\ e.size >= 1
        /\ e.pos + e.size <= End /\ End <= FileLength
    BY <1>1, <2>1 DEF IndicesInv, WriteInv
  <2>3. e \in Entry
    BY <2>1, <2>2
  <2> QED BY <2>1, <2>2, <2>3 DEF Entry
<1>5. /\ Written' = Written /\ CallNow' = CallNow /\ End' = End /\ CallBytes' = CallBytes
      /\ (\A c : (Writing(c))' <=> Writing(c)) /\ (\A f : (Before(f))' = Before(f))
      /\ CopyNow' = e
  <2>1. CopyNow' = e
    BY <1>2, <1>4 DEF CopyNow
  <2> QED BY <1>3, <2>1, NamesKept
<1>6. PICK n \in Nat : DOMAIN tempFile = 0 .. (n - 1)
  BY <1>1 DEF CopyTypes
<1>7. TempLength = n
  BY <1>6, TempLengthIs
<1>8. WriteInv'
  <2>1. CallsInv' /\ IndicesInv'
    BY <1>1, <1>3, <1>5 DEF CallsInv, IndicesInv
  <2> QED BY <1>1, <1>3, <1>5, <2>1 DEF WriteInv, BytesOfCalls
<1>9. CopyTypes'
  <2>1. copy' \in JobType /\ copy'.left >= 1 /\ copy'.from + copy'.left <= FileLength
    <3>1. copy'.left = e.size /\ copy'.from = e.pos
      BY <1>2
    <3>2. End \in Nat /\ FileLength \in Nat
      <4>1. Written \in Nat /\ job.left \in Nat /\ FileLength \in Nat
        BY <1>1, LengthAssumption, WindowPos DEF WriteInv, Written, JobType
      <4> QED BY <4>1 DEF End
    <3> QED BY <1>2, <1>4, <3>1, <3>2 DEF JobType
  <2>2. tempWriter' \in Window
    BY <1>1, <1>3, <1>6, <1>7, ViewNat, WindowTypes DEF CopyTypes
  <2>3. last' \in Nat
    BY <1>2, <1>4
  <2> QED BY <1>1, <1>3, <1>6, <2>1, <2>2, <2>3 DEF CopyTypes
<1>10. ASSUME ~late PROVE CopyInv'
  <2>1. wpc = "idle" /\ CopyInv
    BY <1>1, <1>3, <1>10 DEF CopyTypes, OutputInv
  <2>2. /\ e \in Todo /\ \A f \in Todo : e.index <= f.index
    BY <1>2, <2>1 DEF NextEntry
  <2>3. /\ DOMAIN tempFile = 0 .. (Written - 1) /\ InWindow(tempWriter, Written)
        /\ WritePos(tempWriter) = TotalSize(Done)
        /\ TotalSize(Done) + TotalSize(indices \ Done) = TotalSize(indices)
        /\ \A x \in Done, f \in indices \ Done : x.index < f.index
        /\ CopiedInv(tempFile) /\ readPos = 0
    BY <1>3, <2>1, <2>2 DEF CopyInv
  <2>4. Done = indices \ Todo /\ indices \ Done = Todo /\ Todo \subseteq indices
    BY <1>3 DEF Done, Todo
  <2>5. Todo' = Todo \ {e}
    <3>1. \A f \in indices : f.index \in Nat /\ (f.index = e.index => f = e)
      BY <1>1, <1>4 DEF IndicesInv, Entry
    <3>2. \A f \in indices : f.index > last' <=> f.index > last /\ f # e
      <4>1. ASSUME NEW f \in indices PROVE f.index > last' <=> f.index > last /\ f # e
        <5>1. last' = e.index /\ e.index > last /\ last \in Int
          BY <1>1, <1>2, <2>2 DEF Todo, CopyTypes
        <5>2. f.index > last => e.index <= f.index
          BY <2>2 DEF Todo
        <5>3. f.index \in Nat /\ (f.index = e.index => f = e)
          BY <3>1
        <5> QED BY <1>4, <5>1, <5>2, <5>3
      <4> QED BY <4>1
    <3> QED BY <1>3, <3>2 DEF Todo
  <2>6. Done' = Done
    <3>1. Done' = (indices \ (Todo \ {e})) \ {e}
      BY <1>3, <1>5, <2>5 DEF Done
    <3> QED BY <2>2, <2>4, <3>1
  <2>7. Written \in 0 .. FileLength /\ ViewOf(Written) = Written /\ TempLength = Written
        /\ TotalSize(indices) <= Written
    <3>1. InWindow(writer, FileLength) /\ FileLength \in Nat
      BY <1>1, LengthAssumption DEF WriteInv
    <3>2. Written \in 0 .. FileLength
      BY <3>1, WindowPos DEF Written
    <3>3. ViewOf(Written) = Written
      BY <3>2, ViewIsFile
    <3>4. TempLength = Written
      BY <2>3, <3>2, TempLengthIs
    <3>5. TotalSize(indices) <= Written
      BY <1>1, <2>1 DEF IndicesInv, End
    <3> QED BY <3>2, <3>3, <3>4, <3>5
  <2>8. WritePos(tempWriter) + e.size <= Written
    <3>1. IsFiniteSet(Todo) /\ IsFiniteSet(Done) /\ IsFiniteSet(Todo \ {e})
      BY <1>4, <2>4, FS_Subset
    <3>2. Todo \in SUBSET Entry /\ Done \in SUBSET Entry /\ Todo \ {e} \in SUBSET Entry
      BY <1>4, <2>4
    <3>3. TotalSize(Todo) = TotalSize(Todo \ {e}) + e.size
      BY <2>2, <3>1, <3>2, TotalOfRest
    <3>4. TotalSize(Done) \in Nat /\ TotalSize(Todo \ {e}) \in Nat /\ TotalSize(indices) \in Nat
      BY <1>4, <3>1, <3>2, TotalIsNat
    <3>5. TotalSize(Done) + TotalSize(Todo) = TotalSize(indices)
      BY <2>3, <2>4
    <3> QED BY <1>4, <2>3, <2>7, <3>3, <3>4, <3>5
  <2>9. /\ Mapped(tempWriter', Written, e.size) /\ InWindow(tempWriter', Written)
        /\ WritePos(tempWriter') = WritePos(tempWriter)
    BY <1>3, <1>4, <2>3, <2>7, <2>8, WindowReady
  <2>10. CopiedInv(tempFile)'
    BY <1>3, <1>5, <2>3, <2>6 DEF CopiedInv
  <2>11. Mapped(tempWriter', Written', copy'.left) /\ copy'.index = last'
    BY <1>2, <1>5, <2>9
  <2>12. /\ WritePos(tempWriter') = TotalSize(Done')
         /\ TotalSize(Done') + TotalSize((indices \ Done)') = TotalSize(indices')
         /\ \A x \in Done', f \in (indices \ Done)' : x.index < f.index
    BY <1>3, <2>3, <2>6, <2>9
  <2> QED BY <1>3, <1>4, <1>5, <2>3, <2>9, <2>10, <2>11, <2>12 DEF CopyInv, ReorderCopies
<1> QED BY <1>3, <1>8, <1>9, <1>10 DEF OutputInv

\* What a copy may see of NewData.dat.
LEMMA SeenIs ==
    ASSUME OneView, WriteInv, rpc # "closed", NEW file \in NewFileSeen
    PROVE  /\ DOMAIN file = 0 .. (FileLength - 1) /\ BytesOfCalls(file)
           /\ wpc = "idle" => file = newFile
<1>1. DOMAIN newFile = 0 .. (FileLength - 1) /\ BytesOfCalls(newFile)
  BY DEF WriteInv
<1>2. CASE wpc = "writing"
  <2>1. PICK S \in SUBSET (0 .. (RoundSize - 1)) :
            file = Copied(newFile, ViewPos(writer), RoundBytes(S))
    BY <1>1, <1>2, RoundIs DEF NewFileSeen
  <2>2. DOMAIN RoundBytes(S) = S /\ \A o \in S : RoundBytes(S)[o] \in CallBytes
    BY <1>2, <2>1, RoundIs
  <2> DEFINE block == RoundBytes(S)
  <2>3. file = [i \in DOMAIN newFile |->
                  IF i - ViewPos(writer) \in S THEN block[i - ViewPos(writer)] ELSE newFile[i]]
    BY <2>1, <2>2 DEF Copied
  <2> HIDE DEF block
  <2>4. \A o \in S : block[o] \in CallBytes
    BY <2>2 DEF block
  <2>5. \A i \in DOMAIN file : file[i] = Unset \/ file[i] \in CallBytes
    BY <1>1, <2>3, <2>4 DEF BytesOfCalls
  <2> QED BY <1>1, <1>2, <2>3, <2>5 DEF BytesOfCalls
<1>3. CASE wpc # "writing"
  BY <1>1, <1>3 DEF NewFileSeen
<1> QED BY <1>2, <1>3

\* Whatever else is going on, a round copies bytes of calls, or the copy stops.
LEMMA CopyRoundTypes ==
    ASSUME OneView, OutputInv, CopyRound
    PROVE  /\ WriteInv' /\ BytesOfCalls(tempFile)'
           /\ DOMAIN tempFile' = DOMAIN tempFile
           /\ tempWriter' \in Window /\ readAt' = 0 /\ readPos' \in {0, FileLength}
           /\ copy' \in JobType /\ rpc' \in {"next", "copying"}
           /\ rpc' = "copying" => copy'.left >= 1 /\ copy'.from + copy'.left <= FileLength
<1> DEFINE W == ViewOf(TempLength)
           n == Part(tempWriter, W, copy.left)
           p == copy.from
           fits == InView(tempWriter, W, copy.left) /\ Readable(p, n)
<1>1. WriteInv /\ CallsInv /\ IndicesInv /\ CopyTypes
  BY DEF OutputInv, WriteInv
<1>2. /\ rpc = "copying"
      /\ UNCHANGED <<wpc, newFile, writer, indices, job, calls, last, late>>
  BY DEF CopyRound, writeVars
<1>3. /\ Written' = Written /\ CallNow' = CallNow /\ End' = End /\ CallBytes' = CallBytes
      /\ (\A c : (Writing(c))' <=> Writing(c))
  BY <1>2, NamesKept
<1>4. PICK len \in Nat : DOMAIN tempFile = 0 .. (len - 1)
  BY <1>1 DEF CopyTypes
<1>5. TempLength = len /\ W \in Nat /\ FileLength \in Nat \ {0} /\ ViewOf(FileLength) = FileLength
  BY <1>4, TempLengthIs, ViewNat, LengthAssumption, ViewIsFile
<1>6. /\ p \in Nat /\ copy.left \in Nat \ {0} /\ p + copy.left <= FileLength
      /\ tempWriter \in Window /\ readAt = 0 /\ readPos \in {0, FileLength}
      /\ copy.index \in Nat /\ copy \in JobType
  BY <1>1, <1>2 DEF CopyTypes, JobType
<1>7. CASE fits
  <2>1. PICK file \in NewFileSeen :
          tempFile' = Copied(tempFile, ViewPos(tempWriter), [o \in 0 .. (n - 1) |-> file[ReadFrom(p) + o]])
    BY <1>7 DEF CopyRound
  <2>2. /\ tempWriter' = Advance(tempWriter, W, TempLength, copy.left)
        /\ readAt' = IF EndsView(p, n) THEN readPos ELSE readAt
        /\ readPos' = IF EndsView(p, n) THEN readPos + ViewOf(FileLength) ELSE readPos
        /\ copy' = [copy EXCEPT !.from = p + n, !.left = copy.left - n]
        /\ rpc' = IF copy.left = n THEN "next" ELSE "copying"
    BY <1>7 DEF CopyRound
  <2>3. n \in 1 .. copy.left
    BY <1>5, <1>6, <1>7, PartIs
  <2>4. Readable(p, n)
    BY <1>7
  <2>5. DOMAIN file = 0 .. (FileLength - 1) /\ BytesOfCalls(file)
    BY <1>1, <1>2, <2>1, SeenIs
  <2>6. tempWriter' \in Window
    BY <1>5, <1>6, <2>2, WindowTypes
  <2> HIDE DEF n, p, W
  <2>7. ReadFrom(p) = p
    BY <1>6, <2>4 DEF ReadFrom, Readable, ThroughView
  <2>8. \A o \in 0 .. (n - 1) : p + o \in DOMAIN file
    BY <1>5, <1>6, <2>3, <2>5
  <2>9. DOMAIN tempFile' = DOMAIN tempFile /\ \A i \in DOMAIN tempFile' :
            \/ tempFile'[i] = tempFile[i]
            \/ \E o \in 0 .. (n - 1) : tempFile'[i] = file[p + o]
    BY <2>1, <2>7 DEF Copied
  <2>10. BytesOfCalls(tempFile)'
    <3>1. BytesOfCalls(tempFile)
      BY <1>1 DEF WriteInv
    <3> QED BY <1>3, <2>5, <2>8, <2>9, <3>1 DEF BytesOfCalls
  <2>11. readAt' = 0 /\ readPos' \in {0, FileLength}
    <3>1. EndsView(p, n) => readPos = 0
      BY <1>5, <1>6, <2>3, <2>4 DEF EndsView, ThroughView, Readable
    <3> QED BY <1>5, <1>6, <2>2, <3>1
  <2>12. copy' \in JobType /\ (rpc' = "copying" => copy'.left >= 1 /\ copy'.from + copy'.left <= FileLength)
    <3>1. p + n \in Nat /\ copy.left - n \in Nat
          /\ (copy.left # n => copy.left - n >= 1) /\ (p + n) + (copy.left - n) <= FileLength
      BY <1>5, <1>6, <2>3
    <3>2. copy' = [index |-> copy.index, from |-> p + n, left |-> copy.left - n]
      BY <1>6, <2>2 DEF JobType
    <3> QED BY <1>6, <2>2, <3>1, <3>2 DEF JobType
  <2>13. WriteInv'
    <3>1. CallsInv' /\ IndicesInv'
      BY <1>1, <1>2, <1>3, <2>2 DEF CallsInv, IndicesInv
    <3>2. BytesOfCalls(newFile)'
      BY <1>1, <1>2, <1>3 DEF WriteInv, BytesOfCalls
    <3> QED BY <1>1, <1>2, <1>3, <2>2, <2>10, <3>1, <3>2 DEF WriteInv
  <2> QED BY <2>2, <2>6, <2>9, <2>10, <2>11, <2>12, <2>13
<1>8. CASE ~fits
  <2>1. UNCHANGED <<tempFile, tempWriter, readAt, readPos, copy, rpc>>
    BY <1>8 DEF CopyRound
  <2>2. CallsInv' /\ IndicesInv'
    BY <1>1, <1>2, <1>3, <2>1 DEF CallsInv, IndicesInv
  <2>3. BytesOfCalls(newFile)' /\ BytesOfCalls(tempFile)'
    BY <1>1, <1>2, <1>3, <2>1 DEF WriteInv, BytesOfCalls
  <2>4. WriteInv'
    BY <1>1, <1>2, <1>3, <2>1, <2>2, <2>3 DEF WriteInv
  <2> QED BY <1>2, <1>6, <2>1, <2>3, <2>4
<1> QED BY <1>7, <1>8

\* Without overlap, the copied entry lies behind the ones with lesser indices; only
\* a result that is the whole output ends its view, and then nothing is left to be
\* copied.
LEMMA CopyRoundOrder ==
    ASSUME OneView, OutputInv, CopyRound, ~late
    PROVE  CopyInv' /\ UNCHANGED fault
<1> DEFINE P == WritePos(tempWriter)
           n == copy.left
           p == copy.from
           e == CopyNow
           block == [o \in 0 .. (n - 1) |-> newFile[p + o]]
<1>1. WriteInv /\ CallsInv /\ IndicesInv /\ CopyTypes /\ CopyInv
  BY DEF OutputInv, WriteInv
<1>2. /\ rpc = "copying" /\ wpc = "idle"
      /\ UNCHANGED <<wpc, newFile, writer, indices, job, calls, last, late>>
  BY <1>1 DEF CopyRound, writeVars, CopyTypes
<1>3. /\ e = [index |-> copy.index, pos |-> p, size |-> n]
      /\ e \in indices /\ copy.index = last
      /\ Mapped(tempWriter, Written, n) /\ InWindow(tempWriter, Written)
      /\ readPos = 0 /\ readAt = 0 /\ copy \in JobType
      /\ indices \in SUBSET Entry /\ IsFiniteSet(indices)
      /\ \A f \in indices : f.size >= 1 /\ f.pos + f.size <= Written
      /\ DOMAIN tempFile = 0 .. (Written - 1)
      /\ DOMAIN newFile = 0 .. (FileLength - 1)
      /\ P = TotalSize(Done) /\ TotalSize(Done) + TotalSize(indices \ Done) = TotalSize(indices)
      /\ TotalSize(indices) <= Written
      /\ \A x \in Done, f \in indices \ Done : x.index < f.index
      /\ CopiedInv(tempFile)
  BY <1>1, <1>2 DEF CopyInv, CopyTypes, WriteInv, IndicesInv, CopyNow, End
<1>4. /\ n \in Nat \ {0} /\ p \in Nat /\ e \in Entry /\ e.size = n /\ e.pos = p
      /\ e.index = last /\ last \in Nat
  BY <1>3 DEF Mapped, JobType
<1>5. /\ Written \in 0 .. FileLength /\ ViewOf(Written) = Written /\ TempLength = Written
      /\ ViewOf(FileLength) = FileLength /\ FileLength \in Nat
  <2>1. InWindow(writer, FileLength) /\ FileLength \in Nat
    BY <1>1, LengthAssumption DEF WriteInv
  <2>2. Written \in 0 .. FileLength
    BY <2>1, WindowPos DEF Written
  <2> QED BY <1>3, <2>1, <2>2, ViewIsFile, TempLengthIs
<1>6. /\ Part(tempWriter, Written, n) = n /\ InView(tempWriter, Written, n)
      /\ ViewPos(tempWriter) = P /\ P \in Nat
      /\ InWindow(Advance(tempWriter, Written, Written, n), Written)
      /\ WritePos(Advance(tempWriter, Written, Written, n)) = P + n
  <2> HIDE DEF n
  <2> QED BY <1>3, <1>5, WindowRound
<1>7. p + n <= Written /\ p + n <= FileLength /\ ReadFrom(p) = p /\ Readable(p, n)
  <2>1. p + n <= Written /\ p + n <= FileLength
    BY <1>3, <1>4, <1>5
  <2> QED BY <1>3, <1>4, <2>1 DEF ReadFrom, Readable, ThroughView
<1>8. /\ tempFile' = Copied(tempFile, P, block)
      /\ tempWriter' = Advance(tempWriter, Written, Written, n)
      /\ readPos' = IF EndsView(p, n) THEN readPos + FileLength ELSE readPos
      /\ rpc' = "next" /\ UNCHANGED fault
  <2>1. NewFileSeen = {newFile}
    BY <1>2 DEF NewFileSeen
  <2> QED BY <1>5, <1>6, <1>7, <2>1 DEF CopyRound
<1>9. DOMAIN block = 0 .. (n - 1) /\ \A o \in 0 .. (n - 1) : block[o] = newFile[p + o]
  OBVIOUS
<1>10. P + n <= Written
  BY <1>3, <1>4 DEF Mapped, Window, WritePos
<1>11. Written' = Written /\ (\A f : (Before(f))' = Before(f)) /\ Todo' = Todo
  BY <1>2, NamesKept DEF Todo
<1> HIDE DEF block, P, n, p, e
<1>12. /\ DOMAIN tempFile' = 0 .. (Written - 1)
       /\ \A o \in 0 .. (n - 1) : tempFile'[P + o] = newFile[p + o]
       /\ \A q \in Nat, c \in Entry :
            q + c.size <= P /\ Holds(tempFile, q, c) => Holds(tempFile', q, c)
  <2>1. n \in Nat /\ P \in Nat /\ P + n <= Written /\ Written \in Nat
    BY <1>4, <1>5, <1>6, <1>10
  <2>2. DOMAIN tempFile = 0 .. (Written - 1) /\ DOMAIN block = 0 .. (n - 1)
    BY <1>3, <1>9
  <2> DEFINE new == Copied(tempFile, P, block)
  <2>3. /\ DOMAIN new = 0 .. (Written - 1)
        /\ \A o \in 0 .. (n - 1) : new[P + o] = block[o]
        /\ \A q \in Nat, c \in Entry : q + c.size <= P /\ Holds(tempFile, q, c) => Holds(new, q, c)
    BY ONLY <2>1, <2>2, CopiedIs
  <2>4. tempFile' = new
    BY <1>8
  <2> HIDE DEF new
  <2> QED BY <1>9, <2>3, <2>4
<1>13. /\ Done = (indices \ Todo) \ {e} /\ Done' = indices \ Todo
       /\ Done' = Done \cup {e} /\ e \notin Done /\ e \notin Todo /\ Todo \subseteq indices
       /\ indices \ Done = Todo \cup {e} /\ (indices \ Done)' = Todo
       /\ Before(e) = Done
  <2>1. Done = (indices \ Todo) \ {e} /\ Done' = indices \ Todo
    BY <1>2, <1>8, <1>11 DEF Done, e
  <2>2. (indices \ Done)' = indices \ Done'
    BY <1>2
  <2>3. e \notin Todo /\ Todo \subseteq indices /\ \A f \in Todo : e.index < f.index
    BY <1>3, <1>4 DEF Todo
  <2>4. /\ Done' = Done \cup {e} /\ e \notin Done
        /\ indices \ Done = Todo \cup {e} /\ indices \ Done' = Todo
    BY <1>3, <2>1, <2>3
  <2>5. \A x \in Done : x.index < e.index
    BY <1>3, <2>4
  <2>6. Before(e) = Done
    <3>1. \A f \in indices : f.index \in Nat
      BY <1>3 DEF Entry
    <3>2. \A f \in Todo \cup {e} : ~(f.index < e.index)
      BY <1>3, <1>4, <2>3, <3>1
    <3> QED BY <2>1, <2>4, <2>5, <3>2 DEF Before
  <2> QED BY <2>1, <2>2, <2>3, <2>4, <2>6
<1>14. /\ TotalSize(Done') = TotalSize(Done) + n
       /\ TotalSize(Todo \cup {e}) = TotalSize(Todo) + n
       /\ TotalSize(Done) \in Nat /\ TotalSize(Todo) \in Nat /\ TotalSize(indices) \in Nat
       /\ TotalSize(Done) + TotalSize(Todo \cup {e}) = TotalSize(indices)
       /\ TotalSize(indices) <= FileLength
  <2>1. IsFiniteSet(Todo) /\ IsFiniteSet(Done) /\ Todo \in SUBSET Entry /\ Done \in SUBSET Entry
    BY <1>3, <1>13, FS_Subset
  <2>2. TotalSize(Done \cup {e}) = TotalSize(Done) + e.size
        /\ TotalSize(Todo \cup {e}) = TotalSize(Todo) + e.size
    BY <1>3, <1>4, <1>13, <2>1, TotalWithOne
  <2>3. TotalSize(Done) \in Nat /\ TotalSize(Todo) \in Nat /\ TotalSize(indices) \in Nat
    BY <1>3, <2>1, TotalIsNat
  <2>4. TotalSize(Done') = TotalSize(Done) + n
    BY <1>4, <1>13, <2>2, Zenon
  <2>5. TotalSize(Todo \cup {e}) = TotalSize(Todo) + n
    BY <1>4, <2>2, Zenon
  <2>6. TotalSize(indices) <= FileLength
    BY <1>3, <1>5, <2>3
  <2>7. TotalSize(Done) + TotalSize(Todo \cup {e}) = TotalSize(indices)
    BY <1>3, <1>13
  <2> QED BY <2>3, <2>4, <2>5, <2>6, <2>7
<1>15. Todo # {} => readPos' = 0
  <2>1. ASSUME Todo # {} PROVE ~EndsView(p, n)
    <3>1. PICK f \in Todo : TRUE
      BY <2>1
    <3>2. f \in indices /\ f.size \in Nat /\ f.size >= 1
      BY <1>3, <1>13, <3>1 DEF Entry
    <3>3. TotalSize(Todo) = TotalSize(Todo \ {f}) + f.size /\ TotalSize(Todo \ {f}) \in Nat
      <4>1. Todo \in SUBSET Entry /\ Todo \ {f} \in SUBSET Entry
        BY <1>3, <1>13
      <4>2. IsFiniteSet(Todo) /\ IsFiniteSet(Todo \ {f})
        BY <1>3, <1>13, FS_Subset
      <4> QED BY <3>1, <4>1, <4>2, TotalOfRest, TotalIsNat
    <3>4. n < FileLength
      BY <1>4, <1>5, <1>14, <3>2, <3>3
    <3> QED BY <1>3, <1>4, <1>5, <3>4 DEF EndsView, ThroughView
  <2> QED BY <1>3, <1>8, <2>1
<1>16. \A c \in calls : c.pos = p => c.size = n /\ Holds(newFile, p, c)
  <2>1. \A c \in calls : Holds(newFile, c.pos, c)
    BY <1>1, <1>2 DEF CallsInv, Writing
  <2>2. \A c \in calls : c.pos = e.pos => c.size = e.size
    BY <1>1, <1>3 DEF IndicesInv
  <2> QED BY <1>4, <2>1, <2>2
<1>17. CopiedInv(tempFile)'
  <2> SUFFICES ASSUME NEW x \in Done'
               PROVE  /\ TotalSize(Before(x)) + x.size <= TotalSize(Done')
                      /\ \A c \in calls : c.pos = x.pos => Holds(tempFile', TotalSize(Before(x)), c)
    BY <1>2, <1>11 DEF CopiedInv
  <2>1. CASE x = e
    <3>1. TotalSize(Before(x)) = P
      BY <1>3, <1>13, <2>1
    <3>2. ASSUME NEW c \in calls, c.pos = p PROVE Holds(tempFile', P, c)
      <4>1. ASSUME NEW o \in 0 .. (n - 1)
            PROVE  P + o \in 0 .. (Written - 1) /\ newFile[p + o] = <<c.index, o>>
        <5>1. newFile[p + o] = <<c.index, o>>
          BY <1>16, <3>2 DEF Holds
        <5> QED BY <1>4, <1>5, <1>6, <1>10, <5>1
      <4>2. c.size = n
        BY <1>16, <3>2
      <4> QED BY <1>12, <4>1, <4>2 DEF Holds
    <3>3. P + n <= TotalSize(Done')
      BY <1>3, <1>4, <1>6, <1>14
    <3> QED BY <1>4, <2>1, <3>1, <3>2, <3>3
  <2>2. CASE x # e
    <3>1. x \in Done /\ x \in Entry
      BY <1>3, <1>13, <2>2
    <3>2. /\ TotalSize(Before(x)) + x.size <= TotalSize(Done)
          /\ \A c \in calls : c.pos = x.pos => Holds(tempFile, TotalSize(Before(x)), c)
      BY <1>3, <3>1 DEF CopiedInv
    <3>3. TotalSize(Before(x)) \in Nat
      <4>1. Before(x) \in SUBSET indices
        BY DEF Before
      <4>2. IsFiniteSet(Before(x)) /\ Before(x) \in SUBSET Entry
        BY <1>3, <4>1, FS_Subset
      <4> QED BY <4>2, TotalIsNat
    <3>4. x.size \in Nat
      BY <3>1 DEF Entry
    <3>5. TotalSize(Before(x)) + x.size <= TotalSize(Done')
      BY <1>4, <1>14, <3>2, <3>3, <3>4
    <3>6. ASSUME NEW c \in calls, c.pos = x.pos PROVE Holds(tempFile', TotalSize(Before(x)), c)
      <4>1. c \in Entry /\ c.size = x.size
        BY <1>1, <1>13, <2>2, <3>1, <3>6 DEF CallsInv, IndicesInv
      <4> QED BY <1>3, <1>12, <3>2, <3>3, <3>6, <4>1
    <3> QED BY <3>5, <3>6
  <2> QED BY <2>1, <2>2
<1>18. CopyInv'
  <2>1. InWindow(tempWriter', Written') /\ WritePos(tempWriter') = TotalSize(Done')
    BY <1>3, <1>6, <1>8, <1>11, <1>14
  <2>2. TotalSize(Done') + TotalSize((indices \ Done)') = TotalSize(indices')
    BY <1>2, <1>4, <1>13, <1>14
  <2>3. \A x \in Done', f \in (indices \ Done)' : x.index < f.index
    <3>1. \A x \in Done, f \in Todo : x.index < f.index
      BY <1>3, <1>13
    <3>2. \A f \in Todo : e.index < f.index
      BY <1>4 DEF Todo
    <3> QED BY <1>13, <3>1, <3>2
  <2> QED BY <1>8, <1>11, <1>12, <1>15, <1>17, <2>1, <2>2, <2>3 DEF CopyInv, ReorderCopies
<1> QED BY <1>8, <1>18

LEMMA CopyRoundInv ==
    ASSUME OneView, OutputInv, CopyRound
    PROVE  OutputInv'
<1>1. CopyTypes /\ UNCHANGED <<wpc, last, late>> /\ rpc = "copying"
  BY DEF OutputInv, CopyRound, writeVars
<1>2. /\ WriteInv' /\ DOMAIN tempFile' = DOMAIN tempFile
      /\ tempWriter' \in Window /\ readAt' = 0 /\ readPos' \in {0, FileLength}
      /\ copy' \in JobType /\ rpc' \in {"next", "copying"}
      /\ rpc' = "copying" => copy'.left >= 1 /\ copy'.from + copy'.left <= FileLength
  BY CopyRoundTypes
<1>3. ~late => CopyInv' /\ UNCHANGED fault
  BY CopyRoundOrder
<1>4. fault' \in BOOLEAN
  <2>1. fault' = fault \/ fault' = TRUE
    BY DEF CopyRound
  <2> QED BY <1>1, <2>1 DEF CopyTypes
<1>5. CopyTypes'
  BY <1>1, <1>2, <1>3, <1>4 DEF CopyTypes
<1> QED BY <1>1, <1>2, <1>3, <1>5 DEF OutputInv

LEMMA EndReorderInv ==
    ASSUME OutputInv, EndReorder
    PROVE  OutputInv'
<1>1. WriteInv /\ CallsInv /\ IndicesInv /\ CopyTypes
  BY DEF OutputInv, WriteInv
<1>2. /\ rpc = "next" /\ rpc' = "closed" /\ newFile' = tempFile
      /\ Todo = {} \/ wpc = "inserting"
      /\ UNCHANGED <<wpc, writer, readPos, readAt, indices, tempFile, tempWriter, job, calls, last,
                     copy, late, fault>>
  BY DEF EndReorder
<1>3. /\ Written' = Written /\ CallNow' = CallNow /\ End' = End /\ CallBytes' = CallBytes
      /\ \A f : (Before(f))' = Before(f)
      /\ \A c : (Writing(c))' <=> Writing(c)
  BY <1>2 DEF Written, CallNow, End, CallBytes, Before, Writing
<1>4. WriteInv'
  <2>1. CallsInv' /\ IndicesInv'
    BY <1>1, <1>2, <1>3 DEF CallsInv, IndicesInv
  <2> QED BY <1>1, <1>2, <1>3, <2>1 DEF WriteInv, BytesOfCalls
<1>5. CopyTypes'
  BY <1>1, <1>2 DEF CopyTypes
<1>6. ASSUME ~late PROVE CopyInv'
  <2>1. Todo = {} /\ CopyInv
    BY <1>1, <1>2, <1>6 DEF CopyTypes, OutputInv
  <2>2. Done = indices
    BY <1>2, <2>1 DEF Done
  <2>3. CopiedInv(tempFile)
    BY <1>2, <2>1 DEF CopyInv
  <2>4. ReorderCopies'
    BY <1>2, <1>3, <2>2, <2>3 DEF ReorderCopies, CopiedInv
  <2> QED BY <1>2, <2>4 DEF CopyInv
<1> QED BY <1>2, <1>4, <1>5, <1>6 DEF OutputInv

-----------------------------------------------------------------------------
(* The output file *)

LEMMA OutputInit ==
    Init => OutputInv
<1> SUFFICES ASSUME Init PROVE OutputInv
  OBVIOUS
<1>1. /\ wpc = "idle" /\ rpc = "none" /\ newFile = [i \in 0 .. (FileLength - 1) |-> Unset]
      /\ writer = NoView /\ readPos = 0 /\ readAt = 0 /\ indices = {} /\ last = -1
      /\ tempFile = <<>> /\ tempWriter = NoView /\ DOMAIN tempFile = 0 .. (0 - 1)
      /\ job = NoJob /\ copy = NoJob /\ calls = {} /\ late = FALSE /\ fault = FALSE
  BY DEF Init
<1>2. NoView \in Window /\ WritePos(NoView) = 0
  BY DEF NoView, Window, WritePos
<1>3. FileLength \in Nat /\ NoJob \in JobType
  BY LengthAssumption DEF NoJob, JobType
<1>4. IsFiniteSet({}) /\ TotalSize({}) = 0
  BY FS_EmptySet, TotalOfNone
<1>5. End = 0
  BY <1>1, <1>2 DEF End, Written
<1>6. CallsInv /\ IndicesInv
  BY <1>1, <1>4, <1>5 DEF CallsInv, IndicesInv
<1>7. BytesOfCalls(newFile) /\ BytesOfCalls(tempFile)
  BY <1>1 DEF BytesOfCalls
<1>8. WriteInv
  <2>1. InWindow(writer, FileLength)
    BY <1>1, <1>2 DEF InWindow
  <2>2. DOMAIN newFile = 0 .. (FileLength - 1)
    BY <1>1
  <2> QED BY <1>1, <1>3, <1>5, <1>6, <1>7, <2>1, <2>2 DEF WriteInv
<1>9. CopyTypes
  <2>1. \E n \in Nat : DOMAIN tempFile = 0 .. (n - 1)
    BY <1>1
  <2> QED BY <1>1, <1>2, <1>3, <2>1 DEF CopyTypes
<1>10. CopyInv
  BY <1>1 DEF CopyInv, ReorderCopies
<1> QED BY <1>8, <1>9, <1>10 DEF OutputInv

\* A step of the output file, with results that fit into it.
LEMMA OutputStep ==
    ASSUME OneView, OutputInv,
           \/ \E k \in Results, size \in Nat \ {0} :
                Written + size <= FileLength /\ BeginWrite(k, size)
           \/ MapFirstView \/ WriteRound
           \/ BeginReorder \/ BeginCopy \/ CopyRound \/ EndReorder
           \/ UNCHANGED vars
    PROVE  OutputInv'
<1>1. CASE UNCHANGED vars
  <2>1. UNCHANGED <<wpc, rpc, newFile, writer, indices, job, calls, tempFile, tempWriter, readPos,
                    readAt, last, copy, late, fault>>
    BY <1>1 DEF vars, writeVars, reorderVars
  <2>2. /\ Written' = Written /\ CallNow' = CallNow /\ End' = End /\ CallBytes' = CallBytes
        /\ \A c : (Writing(c))' <=> Writing(c)
        /\ \A f : (Before(f))' = Before(f)
    BY <2>1, NamesKept
  <2>3. CopyNow' = CopyNow /\ Done' = Done /\ Todo' = Todo
    BY <2>1 DEF CopyNow, Done, Todo
  <2>4. WriteInv'
    <3>1. CallsInv' /\ IndicesInv'
      BY <2>1, <2>2 DEF OutputInv, WriteInv, CallsInv, IndicesInv
    <3> QED BY <2>1, <2>2, <3>1 DEF OutputInv, WriteInv, BytesOfCalls
  <2>5. CopyTypes'
    BY <2>1 DEF OutputInv, CopyTypes
  <2>6. ReorderCopies' <=> ReorderCopies
    BY <2>1, <2>2 DEF ReorderCopies
  <2>7. CopiedInv(tempFile)' <=> CopiedInv(tempFile)
    BY <2>1, <2>2, <2>3 DEF CopiedInv
  <2>8. CopyInv' <=> CopyInv
    BY <2>1, <2>2, <2>3, <2>6, <2>7 DEF CopyInv
  <2> QED BY <2>1, <2>4, <2>5, <2>8 DEF OutputInv
<1> QED BY <1>1, BeginWriteInv, MapFirstViewInv, WriteRoundInv, BeginReorderInv, BeginCopyInv,
           CopyRoundInv, EndReorderInv

\* What the invariant says of the properties.
LEMMA OutputInvShows ==
    ASSUME OutputInv
    PROVE  TypeOK /\ WrittenInPlace /\ ReorderCopies /\ StaysInView
<1>1. WriteInv /\ CallsInv /\ IndicesInv /\ CopyTypes /\ (~late => CopyInv)
  BY DEF OutputInv, WriteInv
<1>2. CallBytes \subseteq Byte
  <2>1. \A c \in calls : c.index \in Results /\ c.size \in Nat
    BY <1>1 DEF CallsInv, Entry
  <2>2. ASSUME NEW c \in calls, NEW o \in 0 .. (c.size - 1) PROVE <<c.index, o>> \in Byte
    BY <2>1 DEF Byte
  <2> QED BY <2>2 DEF CallBytes
<1>3. TypeOK
  <2>1. \A f \in {newFile, tempFile} : \A i \in DOMAIN f : f[i] = Unset \/ f[i] \in Byte
    BY <1>1, <1>2 DEF WriteInv, BytesOfCalls
  <2>2. readPos \in Nat /\ readAt \in Nat
    BY <1>1, LengthAssumption DEF CopyTypes
  <2> QED BY <1>1, <2>1, <2>2 DEF TypeOK, WriteInv, CopyTypes, CallsInv, IndicesInv, InWindow, JobType
<1>4. WrittenInPlace
  <2> SUFFICES ASSUME rpc # "closed", NEW c \in calls, Returned(c) PROVE Holds(newFile, c.pos, c)
    BY DEF WrittenInPlace
  <2>1. ~Writing(c)
    BY DEF Writing, Returned, CallNow
  <2> QED BY <1>1, <2>1 DEF CallsInv
<1>5. ReorderCopies
  BY <1>1 DEF CopyInv, ReorderCopies
<1>6. StaysInView
  BY <1>1 DEF CopyTypes, StaysInView
<1> QED BY <1>3, <1>4, <1>5, <1>6

-----------------------------------------------------------------------------
(* The reader *)

R == INSTANCE DataReaderProofs WITH FileSize <- FileLength

ReaderInv == R!TypeOK /\ R!IssuedBytes /\ R!HandleInFile

LEMMA SameReads ==
    /\ Reader!GetClientWork(data) = R!GetClientWork(data)
    /\ \A wi : Reader!GetClientWorkPrev(data, wi) = R!GetClientWorkPrev(data, wi)
BY DEF Reader!GetClientWork, R!GetClientWork, Reader!BytesRead, R!BytesRead,
       Reader!ChunkAt, R!ChunkAt, Reader!chunkSize, R!chunkSize,
       Reader!NoWork, R!NoWork, Reader!NoBlock, R!NoBlock,
       Reader!GetClientWorkPrev, R!GetClientWorkPrev

LEMMA PathReader == PathSpec => []ReaderInv
<1>1. PathInit => R!Init
  BY DEF PathInit, Reader!Init, R!Init, Reader!LoadData, R!LoadData
<1>2. [PathNext]_pathVars => [R!Next]_(R!vars)
  <2> SUFFICES ASSUME [PathNext]_pathVars PROVE [R!Next]_(R!vars)
    OBVIOUS
  <2>1. CASE ReadNew
    BY <2>1, SameReads DEF ReadNew, Reader!ReadNew, R!Next, R!ReadNew
  <2>2. CASE ReadAgain
    <3>1. PICK k \in DOMAIN issued : Reader!ReadAgain(k)
      BY <2>2 DEF ReadAgain
    <3>2. R!ReadAgain(k)
      BY <3>1, SameReads DEF Reader!ReadAgain, R!ReadAgain
    <3> QED BY <3>1, <3>2 DEF R!Next
  <2>3. CASE UNCHANGED <<data, issued, blocks, again>>
    BY <2>3 DEF R!vars
  <2>4. ReadNew \/ ReadAgain \/ UNCHANGED <<data, issued, blocks, again>>
    BY DEF PathNext, Write, ReorderFileData, VerifyNewData, readVars, pathVars
  <2> QED BY <2>1, <2>2, <2>3, <2>4
<1>3. FileLength \in Nat /\ DesiredChunkSize \in Nat \ {0}
  BY LengthAssumption, VerifyAssumption
<1>4. R!Spec => [](R!TypeOK /\ R!IssuedBytes /\ R!HandleInFile)
  BY <1>3, R!ReaderCorrect
<1> QED BY <1>1, <1>2, <1>4, PTL DEF PathSpec, R!Spec, ReaderInv

LEMMA ReaderShows ==
    ReaderInv => IssuedBytes /\ HandleInFile /\ Reader!TypeOK
<1>1. R!TypeOK => Reader!TypeOK
  BY DEF R!TypeOK, Reader!TypeOK, R!DataState, Reader!DataState, R!WorkInfo,
         Reader!WorkInfo, R!Block, Reader!Block
<1>2. R!BlocksFollow => Reader!BlocksFollow
  BY DEF R!BlocksFollow, Reader!BlocksFollow, R!CursorBefore, Reader!CursorBefore,
         R!ReadBefore, Reader!ReadBefore, R!chunkSize, Reader!chunkSize
<1>3. R!ResentIsOther => Reader!ResentIsOther
  BY SameReads DEF R!ResentIsOther, Reader!ResentIsOther
<1>4. R!HandleInFile => HandleInFile
  BY DEF HandleInFile, R!HandleInFile, Reader!HandleInFile
<1> QED BY <1>1, <1>2, <1>3, <1>4
    DEF ReaderInv, IssuedBytes, R!IssuedBytes, Reader!IssuedBytes

\* For every file and chunk size, and with reading, writing, reordering and
\* verifying in any order (Data::GetClientWork, Data::GetClientWorkPrev): chunks are
\* numbered, sized and placed one behind the other by their records; a chunk is filled
\* from the bytes behind those of the chunk before it and as many more as were read
\* again since, so that no byte is read for two new chunks; and what is read again is
\* never part of the chunk it is read for.
THEOREM PathIssuedBytes == PathSpec => []IssuedBytes
BY PathReader, ReaderShows, PTL

\* For every file and chunk size: the file handle lies between the cursor and
\* the end of the file, although each chunk read again moves it ahead.
THEOREM PathHandleInFile == PathSpec => []HandleInFile
BY PathReader, ReaderShows, PTL

\* The chunks the reader has issued.
LEMMA IssuedIs ==
    ASSUME ReaderInv
    PROVE  /\ issued \in Seq(R!WorkInfo) /\ Len(issued) \in Nat /\ DOMAIN issued = 1 .. Len(issued)
           /\ \A k \in 1 .. Len(issued) : issued[k].size \in Nat \ {0}
<1>1. issued \in Seq(R!WorkInfo)
  BY DEF ReaderInv, R!TypeOK
<1>2. Len(issued) \in Nat /\ DOMAIN issued = 1 .. Len(issued)
  BY <1>1
<1>3. \A k \in 1 .. Len(issued) : issued[k].size \in Nat \ {0}
  <2>1. R!chunkSize \in Nat
    BY LengthAssumption, VerifyAssumption DEF R!chunkSize
  <2> QED BY <1>2, <2>1 DEF ReaderInv, R!IssuedBytes, R!BlocksFollow
<1> QED BY <1>1, <1>2, <1>3

SmallerPairs == {ss \in Nat \X Nat : ss[1] < ss[2]}

LEMMA LeastNumber ==
    ASSUME NEW S \in SUBSET Nat, S # {}
    PROVE  \E n \in S : \A m \in S : n <= m
<1>1. IsWellFoundedOn(SmallerPairs, Nat)
  BY NatLessThanWellFounded DEF OpToRel, SmallerPairs
<1>2. PICK n \in S : \A m \in S : <<m, n>> \notin SmallerPairs
  BY <1>1, WFMin
<1>3. ASSUME NEW m \in S PROVE n <= m
  <2>1. <<m, n>> \in Nat \X Nat /\ <<m, n>> \notin SmallerPairs /\ m \in Nat /\ n \in Nat
    BY <1>2
  <2>2. ~(<<m, n>>[1] < <<m, n>>[2])
    BY <2>1 DEF SmallerPairs
  <2> QED BY <2>1, <2>2
<1> QED BY <1>3

\* Results of the sizes that were issued, no two of a chunk, are no longer than the
\* bytes that were issued: the output is long enough for them.
LEMMA ResultsFit ==
    ASSUME ReaderInv, NEW S \in SUBSET Entry, IsFiniteSet(S),
           \A c, d \in S : c.index = d.index => c = d,
           \A c \in S : c.index < Len(issued) /\ c.size = issued[c.index + 1].size
    PROVE  TotalSize(S) <= FileLength
<1> DEFINE First(n) == {c \in S : c.index < n}
           B == {n \in 0 .. Len(issued) : ~(TotalSize(First(n)) <= R!CursorBefore(n + 1))}
<1>1. /\ Len(issued) \in Nat /\ DOMAIN issued = 1 .. Len(issued)
      /\ \A k \in 1 .. Len(issued) : issued[k] \in R!WorkInfo
      /\ \A k \in 1 .. Len(issued) : issued[k].size \in Nat /\ issued[k].cursor \in Nat
      /\ \A k \in 1 .. Len(issued) : issued[k].cursor = R!CursorBefore(k) + issued[k].size
      /\ R!CursorBefore(Len(issued) + 1) <= FileLength
  <2>1. /\ issued \in Seq(R!WorkInfo) /\ Len(issued) \in Nat /\ DOMAIN issued = 1 .. Len(issued)
    BY IssuedIs
  <2>2. \A k \in 1 .. Len(issued) : issued[k] \in R!WorkInfo
    BY <2>1
  <2>3. data.cursorPos <= data.filePos /\ data.filePos <= FileLength /\ data \in R!DataState
        /\ data.cursorPos = R!CursorBefore(Len(issued) + 1)
    BY DEF ReaderInv, R!HandleInFile, R!TypeOK, R!IssuedBytes, R!BlocksFollow
  <2>4. \A k \in 1 .. Len(issued) : issued[k].cursor = R!CursorBefore(k) + issued[k].size
    BY <2>1 DEF ReaderInv, R!IssuedBytes, R!BlocksFollow
  <2> QED BY <2>1, <2>2, <2>3, <2>4, LengthAssumption DEF R!WorkInfo, R!DataState
<1>2. \A n \in 0 .. Len(issued) : R!CursorBefore(n + 1) \in Nat
  <2> SUFFICES ASSUME NEW n \in 0 .. Len(issued) PROVE R!CursorBefore(n + 1) \in Nat
    OBVIOUS
  <2>1. CASE n = 0
    BY <2>1 DEF R!CursorBefore
  <2>2. CASE n # 0
    <3>1. n \in 1 .. Len(issued) /\ n + 1 # 1 /\ (n + 1) - 1 = n
      BY <1>1, <2>2
    <3> QED BY <1>1, <3>1 DEF R!CursorBefore
  <2> QED BY <2>1, <2>2
<1>3. ASSUME NEW n PROVE First(n) \in SUBSET Entry /\ IsFiniteSet(First(n)) /\ TotalSize(First(n)) \in Nat
  <2>1. First(n) \in SUBSET S
    OBVIOUS
  <2> HIDE DEF First
  <2>2. First(n) \in SUBSET Entry /\ IsFiniteSet(First(n))
    BY <2>1, FS_Subset
  <2> QED BY <2>2, TotalIsNat
<1>4. B = {}
  <2> SUFFICES ASSUME B # {} PROVE FALSE
    OBVIOUS
  <2>1. PICK n \in B : \A m \in B : n <= m
    <3>1. B \in SUBSET Nat
      BY <1>1
    <3> HIDE DEF B
    <3> QED BY <3>1, LeastNumber
  <2>2. n \in 0 .. Len(issued) /\ ~(TotalSize(First(n)) <= R!CursorBefore(n + 1))
    BY <2>1
  <2>3. n # 0
    <3>1. \A c \in S : ~(c.index < 0)
      BY DEF Entry
    <3>2. First(0) = {}
      BY <3>1
    <3>3. TotalSize(First(0)) = 0
      BY <3>2, TotalOfNone
    <3>4. R!CursorBefore(0 + 1) \in Nat
      BY <1>1, <1>2
    <3> HIDE DEF First
    <3>5. TotalSize(First(0)) <= R!CursorBefore(0 + 1)
      BY <3>3, <3>4
    <3> QED BY <2>2, <3>5
  <2> DEFINE m == n - 1
  <2>4. m \in 0 .. Len(issued) /\ n \in 1 .. Len(issued) /\ m < n /\ n = m + 1 /\ (n + 1) - 1 = n /\ n + 1 # 1
    BY <1>1, <2>2, <2>3
  <2> HIDE DEF m
  <2>5. TotalSize(First(m)) <= R!CursorBefore(m + 1)
    <3>1. m \notin B
      BY <2>1, <2>4
    <3> QED BY <2>4, <3>1
  <2>6. R!CursorBefore(n + 1) = R!CursorBefore(m + 1) + issued[n].size
    <3>1. R!CursorBefore(n + 1) = issued[n].cursor
      BY <2>4 DEF R!CursorBefore
    <3> QED BY <1>1, <2>4, <3>1
  <2>7. TotalSize(First(n)) <= TotalSize(First(m)) + issued[n].size
    <3>1. CASE \E c \in S : c.index = m
      <4>1. PICK c \in S : c.index = m
        BY <3>1
      <4>2. First(n) = First(m) \cup {c} /\ c \notin First(m)
        <5>1. \A d \in S : d.index \in Nat
          BY DEF Entry
        <5>2. \A d \in S : d.index < n <=> d.index < m \/ d = c
          BY <2>4, <4>1, <5>1
        <5> QED BY <2>4, <4>1, <5>2
      <4>3. c.size = issued[n].size
        BY <2>4, <4>1
      <4> HIDE DEF First
      <4>4. TotalSize(First(n)) = TotalSize(First(m)) + c.size
        BY <1>3, <4>1, <4>2, TotalWithOne
      <4>5. TotalSize(First(n)) \in Nat
        BY <1>3
      <4> QED BY <4>3, <4>4, <4>5
    <3>2. CASE ~ \E c \in S : c.index = m
      <4>1. First(n) = First(m)
        <5>1. \A d \in S : d.index \in Nat
          BY DEF Entry
        <5>2. \A d \in S : d.index < n <=> d.index < m
          BY <2>4, <3>2, <5>1
        <5> QED BY <5>2
      <4> HIDE DEF First
      <4>2. TotalSize(First(m)) \in Nat /\ issued[n].size \in Nat
        BY <1>1, <1>3, <2>4
      <4>3. TotalSize(First(n)) = TotalSize(First(m))
        BY <4>1
      <4> QED BY <4>2, <4>3
    <3> QED BY <3>1, <3>2
  <2> HIDE DEF First
  <2> QED BY <1>1, <1>2, <1>3, <2>2, <2>4, <2>5, <2>6, <2>7
<1>5. First(Len(issued)) = S
  OBVIOUS
<1>6. Len(issued) \notin B
  BY <1>4
<1>7. TotalSize(First(Len(issued))) <= R!CursorBefore(Len(issued) + 1)
  BY <1>1, <1>6
<1>8. R!CursorBefore(Len(issued) + 1) \in Nat
  BY <1>1, <1>2
<1>9. TotalSize(S) \in Nat
  BY TotalIsNat
<1>10. TotalSize(S) <= R!CursorBefore(Len(issued) + 1)
  BY <1>5, <1>7
<1> QED BY <1>1, <1>8, <1>9, <1>10, LengthAssumption

-----------------------------------------------------------------------------
(* Words *)

LEMMA QuotientIs ==
    ASSUME NEW n \in Nat, NEW w \in Nat \ {0}
    PROVE  n = w * (n \div w) + (n % w) /\ n % w \in 0 .. (w - 1) /\ n \div w \in Nat
OBVIOUS

LEMMA RemainderIs ==
    ASSUME NEW w \in Nat \ {0}, NEW q \in Nat, NEW r \in 0 .. (w - 1)
    PROVE  (w * q + r) % w = r
OBVIOUS

\* Multiples of w are w apart.
LEMMA MultiplesApart ==
    ASSUME NEW w \in Nat \ {0}, NEW a \in Nat, NEW c \in Nat, a < c
    PROVE  w * a + w <= w * c
<1>1. PICK d \in Nat : c = a + 1 + d
  <2>1. c - a - 1 \in Nat /\ c = a + 1 + (c - a - 1)
    OBVIOUS
  <2> QED BY <2>1
<1>2. w * (a + 1 + d) = w * a + w + w * d
  OBVIOUS
<1>3. w * d \in Nat /\ w * a \in Nat
  OBVIOUS
<1> QED BY <1>1, <1>2, <1>3

\* A word lies before a multiple of its size or behind it.
LEMMA WordsApart ==
    ASSUME NEW w \in Nat \ {0}, NEW n \in Nat, n % w = 0, NEW i \in Nat
    PROVE  /\ i < n => i - (i % w) + w <= n
           /\ i >= n => i - (i % w) >= n
<1> DEFINE a == i \div w
           c == n \div w
<1>1. /\ i = w * a + (i % w) /\ i % w \in 0 .. (w - 1) /\ a \in Nat
      /\ n = w * c + (n % w) /\ c \in Nat
  BY QuotientIs
<1>2. w * a \in Nat /\ w * c \in Nat
  BY <1>1
<1> HIDE DEF a, c
<1>3. i - (i % w) = w * a /\ n = w * c
  BY <1>1, <1>2
<1>4. CASE a < c
  <2>1. w * a + w <= w * c
    BY <1>1, <1>4, MultiplesApart
  <2>2. i < n
    BY <1>1, <1>2, <1>3, <2>1
  <2> QED BY <1>2, <1>3, <2>1, <2>2
<1>5. CASE a = c
  <2>1. i >= n
    BY <1>1, <1>2, <1>3, <1>5
  <2> QED BY <1>2, <1>3, <1>5, <2>1
<1>6. CASE c < a
  <2>1. w * c + w <= w * a
    BY <1>1, <1>6, MultiplesApart
  <2>2. i >= n /\ w * a >= n
    BY <1>1, <1>2, <1>3, <2>1
  <2> QED BY <1>2, <1>3, <2>2
<1> QED BY <1>1, <1>4, <1>5, <1>6

\* Moved by a multiple of its size, a word keeps its place.
LEMMA WordMoved ==
    ASSUME NEW w \in Nat \ {0}, NEW n \in Nat, n % w = 0, NEW i \in Nat
    PROVE  (n + i) % w = i % w
<1> DEFINE a == i \div w
           c == n \div w
           r == i % w
<1>1. /\ i = w * a + r /\ r \in 0 .. (w - 1) /\ a \in Nat
      /\ n = w * c /\ c \in Nat
  <2>1. i = w * a + r /\ r \in 0 .. (w - 1) /\ a \in Nat
    BY QuotientIs
  <2>2. n = w * c + 0 /\ c \in Nat
    BY QuotientIs
  <2>3. w * c \in Nat
    BY <2>2
  <2> QED BY <2>1, <2>2, <2>3
<1> HIDE DEF a, c, r
<1>2. n + i = w * (c + a) + r
  <2>1. w * (c + a) = w * c + w * a
    BY <1>1
  <2>2. w * a \in Nat /\ w * c \in Nat
    BY <1>1
  <2> QED BY <1>1, <2>1, <2>2
<1>3. (w * (c + a) + r) % w = r
  BY <1>1, RemainderIs
<1> QED BY <1>2, <1>3 DEF r

LEMMA MultipleOfMultiple ==
    ASSUME NEW w \in Nat \ {0}, NEW b \in Nat \ {0}, NEW p \in Nat, p % b = 0, b % w = 0
    PROVE  p % w = 0
<1> DEFINE q == p \div b
           c == b \div w
<1>1. p = b * q /\ q \in Nat /\ b = w * c /\ c \in Nat
  BY QuotientIs
<1> HIDE DEF q, c
<1>2. p = w * (c * q) /\ c * q \in Nat
  BY <1>1
<1>3. 0 \in 0 .. (w - 1)
  OBVIOUS
<1>4. (w * (c * q) + 0) % w = 0
  <2> DEFINE k == c * q
  <2> HIDE DEF k
  <2>1. k \in Nat
    BY <1>2 DEF k
  <2>2. (w * k + 0) % w = 0
    BY <1>3, <2>1, RemainderIs
  <2> QED BY <2>2 DEF k
<1>5. w * (c * q) + 0 = p
  <2>1. p + 0 = p
    OBVIOUS
  <2> QED BY <1>2, <2>1
<1> QED BY <1>4, <1>5

LEMMA InBuffer ==
    ASSUME NEW b \in Nat \ {0}, NEW p \in Nat, p % b = 0, NEW j \in 0 .. (b - 1)
    PROVE  (p + j) % b = j
OBVIOUS

LEMMA WordIn ==
    ASSUME NEW i \in Nat
    PROVE  WordAt(i) \in 0 .. i /\ (i % WordSize) \in 0 .. (WordSize - 1)
           /\ i = WordAt(i) + (i % WordSize)
<1>1. (i % WordSize) \in 0 .. (WordSize - 1) /\ i % WordSize <= i
  <2>1. WordSize \in Nat \ {0}
    BY AlgorithmAssumption
  <2> DEFINE q == i \div WordSize
             r == i % WordSize
  <2>2. i = WordSize * q + r /\ r \in 0 .. (WordSize - 1) /\ q \in Nat
    BY <2>1, QuotientIs
  <2>3. WordSize * q \in Nat
    BY <2>1, <2>2
  <2> HIDE DEF q, r
  <2>4. r <= i
    BY <2>1, <2>2, <2>3
  <2> QED BY <2>2, <2>4 DEF r
<1> QED BY <1>1, AlgorithmAssumption DEF WordAt

\* A word of a buffer, and what the algorithm makes of it.
LEMMA WordOf ==
    ASSUME NEW n \in Nat, NEW in \in [0 .. (n - 1) -> Values], NEW i \in Nat,
           WordAt(i) + WordSize <= n
    PROVE  /\ [b \in 0 .. (WordSize - 1) |-> in[WordAt(i) + b]] \in Word
           /\ Algorithm[[b \in 0 .. (WordSize - 1) |-> in[WordAt(i) + b]]][i % WordSize] \in Values
<1> DEFINE w == [b \in 0 .. (WordSize - 1) |-> in[WordAt(i) + b]]
<1>1. WordAt(i) \in Nat /\ (i % WordSize) \in 0 .. (WordSize - 1) /\ WordSize \in Nat \ {0}
  BY WordIn, AlgorithmAssumption
<1>2. \A b \in 0 .. (WordSize - 1) : WordAt(i) + b \in 0 .. (n - 1)
  BY <1>1
<1>3. w \in Word
  BY <1>2 DEF Word
<1> HIDE DEF w
<1>4. Algorithm[w] \in Word
  BY <1>3, AlgorithmAssumption
<1>5. Algorithm[w][i % WordSize] \in Values
  BY <1>1, <1>4 DEF Word
<1> QED BY <1>3, <1>5 DEF w

LEMMA AlgorithmType ==
    ASSUME NEW n \in Nat, NEW in \in [0 .. (n - 1) -> Values], NEW out \in [0 .. (n - 1) -> Values],
           NEW size \in 0 .. n
    PROVE  AlgorithmInOut(in, size, out) \in [0 .. (n - 1) -> Values]
<1> DEFINE r == AlgorithmInOut(in, size, out)
<1>1. r = [i \in 0 .. (n - 1) |->
             IF WordAt(i) + WordSize <= size
             THEN Algorithm[[b \in 0 .. (WordSize - 1) |-> in[WordAt(i) + b]]][i % WordSize]
             ELSE out[i]]
  BY DEF AlgorithmInOut
<1>2. ASSUME NEW i \in 0 .. (n - 1) PROVE r[i] \in Values
  <2>1. CASE WordAt(i) + WordSize <= size
    <3>1. i \in Nat /\ WordAt(i) \in 0 .. i
      <4>1. i \in Nat
        OBVIOUS
      <4> QED BY <4>1, WordIn
    <3>2. WordAt(i) + WordSize <= n
      BY <2>1, <3>1, AlgorithmAssumption
    <3>3. Algorithm[[b \in 0 .. (WordSize - 1) |-> in[WordAt(i) + b]]][i % WordSize] \in Values
      BY <3>1, <3>2, WordOf
    <3> QED BY <1>1, <2>1, <3>3
  <2>2. CASE ~(WordAt(i) + WordSize <= size)
    BY <1>1, <2>2
  <2> QED BY <2>1, <2>2
<1> QED BY <1>1, <1>2

LEMMA ReturnsType ==
    ASSUME NEW wi, wi.size \in Nat, NEW block, NEW r \in ClientReturns(wi, block)
    PROVE  r \in [0 .. (wi.size - 1) -> Values]
<1>1. PICK in \in [0 .. (wi.size - 1) -> Values], out \in [0 .. (wi.size - 1) -> Values] :
         r = AlgorithmInOut(in, wi.size, out)
  BY DEF ClientReturns
<1>2. wi.size \in 0 .. wi.size
  OBVIOUS
<1> QED BY <1>1, <1>2, AlgorithmType

-----------------------------------------------------------------------------
(* Results and bytes *)

RawResult == UNION {[0 .. (n - 1) -> Values] : n \in Nat}

\* Each chunk has its result, and what was written is one of them.
ResultsInv ==
    /\ content \in [0 .. (FileLength - 1) -> Values]
    /\ result \in Seq(RawResult) /\ Len(result) = Len(issued)
    /\ \A k \in DOMAIN issued : result[k] \in [0 .. (issued[k].size - 1) -> Values]
    /\ \A c \in calls : c.index < Len(issued) /\ c.size = issued[c.index + 1].size

\* A result that is written is not read again: the bytes of the output keep their
\* values.
LEMMA ReadsKeep ==
    ASSUME ReaderInv, ReaderInv', OutputInv, ResultsInv, ReadNew \/ ReadAgain
    PROVE  ResultsInv' /\ NewData' = NewData /\ UNCHANGED <<vars, content, verifyVars>>
<1>1. /\ UNCHANGED <<vars, content, verifyVars>>
      /\ UNCHANGED <<newFile, calls>>
  BY DEF ReadNew, ReadAgain, vars, writeVars
<1>2. /\ issued \in Seq(R!WorkInfo) /\ Len(issued) \in Nat /\ DOMAIN issued = 1 .. Len(issued)
      /\ \A k \in 1 .. Len(issued) : issued[k].size \in Nat \ {0}
  BY IssuedIs
<1>3. /\ issued' \in Seq(R!WorkInfo) /\ Len(issued') \in Nat /\ DOMAIN issued' = 1 .. Len(issued')
      /\ \A k \in 1 .. Len(issued') : issued'[k].size \in Nat \ {0}
  <2>1. issued' \in Seq(R!WorkInfo)
    BY DEF ReaderInv, R!TypeOK
  <2>2. Len(issued') \in Nat /\ DOMAIN issued' = 1 .. Len(issued')
    BY <2>1
  <2>3. \A k \in 1 .. Len(issued') : issued'[k].size \in Nat \ {0}
    <3>1. R!chunkSize \in Nat
      BY LengthAssumption, VerifyAssumption DEF R!chunkSize
    <3>2. \A k \in DOMAIN issued' : issued'[k].size \in 1 .. R!chunkSize
      BY DEF ReaderInv, R!IssuedBytes, R!BlocksFollow, R!chunkSize
    <3> QED BY <2>2, <3>1, <3>2
  <2> QED BY <2>1, <2>2, <2>3
<1>4. /\ result \in Seq(RawResult) /\ Len(result) = Len(issued)
      /\ \A k \in 1 .. Len(issued) : result[k] \in [0 .. (issued[k].size - 1) -> Values]
      /\ \A c \in calls : c.index < Len(issued) /\ c.size = issued[c.index + 1].size
  BY <1>2 DEF ResultsInv
<1>5. \A c \in calls : c.index \in Nat
  BY DEF OutputInv, WriteInv, CallsInv, Entry
<1>6. /\ result' \in Seq(RawResult) /\ Len(result') = Len(issued')
      /\ \A k \in 1 .. Len(issued') : result'[k] \in [0 .. (issued'[k].size - 1) -> Values]
      /\ \A c \in calls : /\ c.index < Len(issued') /\ c.size = issued'[c.index + 1].size
                          /\ result'[c.index + 1] = result[c.index + 1]
  <2>1. CASE ReadNew
    <3> DEFINE n == Len(issued)
               wi == Reader!GetClientWork(data).wi
               block == Reader!GetClientWork(data).block
    <3>1. issued' = Append(issued, wi)
      BY <2>1 DEF ReadNew, Reader!ReadNew
    <3>2. PICK r \in ClientReturns(wi, block) : result' = Append(result, r)
      BY <2>1 DEF ReadNew
    <3> HIDE DEF wi, block
    <3>3. Len(issued') = n + 1 /\ issued'[n + 1] = wi /\ \A k \in 1 .. n : issued'[k] = issued[k]
      BY <1>2, <3>1
    <3>4. wi.size \in Nat
      BY <1>2, <1>3, <3>3
    <3>5. r \in [0 .. (wi.size - 1) -> Values] /\ r \in RawResult
      <4>1. r \in [0 .. (wi.size - 1) -> Values]
        BY <3>2, <3>4, ReturnsType
      <4> QED BY <3>4, <4>1 DEF RawResult
    <3>6. /\ result' \in Seq(RawResult) /\ Len(result') = n + 1
          /\ result'[n + 1] = r /\ \A k \in 1 .. n : result'[k] = result[k]
      BY <1>4, <3>2, <3>5
    <3>7. \A c \in calls : c.index + 1 \in 1 .. n
      BY <1>2, <1>4, <1>5
    <3>8. \A c \in calls : c.index < Len(issued') /\ c.size = issued'[c.index + 1].size
                           /\ result'[c.index + 1] = result[c.index + 1]
      BY <1>2, <1>4, <1>5, <3>3, <3>6, <3>7
    <3>9. \A k \in 1 .. (n + 1) : result'[k] \in [0 .. (issued'[k].size - 1) -> Values]
      <4>1. \A k \in 1 .. (n + 1) : k \in 1 .. n \/ k = n + 1
        BY <1>2
      <4>2. result'[n + 1] \in [0 .. (issued'[n + 1].size - 1) -> Values]
        BY <3>3, <3>5, <3>6
      <4> QED BY <1>4, <3>3, <3>6, <4>1, <4>2
    <3> QED BY <3>3, <3>6, <3>8, <3>9
  <2>2. CASE ReadAgain
    <3>1. PICK k \in 1 .. Len(issued) :
            /\ k - 1 \notin {c.index : c \in calls}
            /\ \E r \in ClientReturns(issued[k], Reader!GetClientWorkPrev(data, issued[k]).block) :
                 result' = [result EXCEPT ![k] = r]
            /\ issued' = issued
      BY <1>2, <2>2 DEF ReadAgain, Reader!ReadAgain
    <3>2. PICK r \in ClientReturns(issued[k], Reader!GetClientWorkPrev(data, issued[k]).block) :
            result' = [result EXCEPT ![k] = r]
      BY <3>1
    <3>3. r \in [0 .. (issued[k].size - 1) -> Values]
      BY <1>2, <3>2, ReturnsType
    <3>4. r \in RawResult
      BY <1>2, <3>3 DEF RawResult
    <3>5. /\ result' \in Seq(RawResult) /\ Len(result') = Len(result)
          /\ \A j \in 1 .. Len(issued) : result'[j] = IF j = k THEN r ELSE result[j]
      BY <1>4, <3>1, <3>2, <3>4
    <3>6. \A c \in calls : c.index + 1 \in 1 .. Len(issued) /\ c.index + 1 # k
      BY <1>2, <1>4, <1>5, <3>1, SMTT(30)
    <3> QED BY <1>4, <3>1, <3>3, <3>5, <3>6
  <2> QED BY <2>1, <2>2
<1>7. ResultsInv'
  BY <1>1, <1>3, <1>6 DEF ResultsInv
<1>8. NewData' = NewData
  <2>1. ASSUME NEW i \in DOMAIN newFile PROVE Value(newFile[i])' = Value(newFile[i])
    <3>1. CASE newFile[i] = Unset
      BY <1>1, <3>1 DEF Value
    <3>2. CASE newFile[i] # Unset
      <4>1. newFile[i] \in CallBytes
        BY <3>2 DEF OutputInv, WriteInv, BytesOfCalls
      <4>2. PICK c \in calls : newFile[i][1] = c.index
        BY <4>1 DEF CallBytes
      <4> QED BY <1>1, <1>6, <4>2 DEF Value
    <3> QED BY <3>1, <3>2
  <2> QED BY <1>1, <2>1 DEF NewData
<1> QED BY <1>1, <1>7, <1>8

\* The output that is compared.
LEMMA NewDataIs ==
    ASSUME ReaderInv, OutputInv, ResultsInv, rpc = "closed"
    PROVE  \E n \in Nat : NewData \in [0 .. (n - 1) -> Values] /\ DOMAIN newFile = 0 .. (n - 1)
<1>1. /\ DOMAIN newFile = DOMAIN tempFile
      /\ \A i \in DOMAIN newFile : newFile[i] = Unset \/ newFile[i] \in CallBytes
      /\ calls \subseteq Entry
  BY DEF OutputInv, WriteInv, BytesOfCalls, CallsInv
<1>2. PICK n \in Nat : DOMAIN newFile = 0 .. (n - 1)
  BY <1>1 DEF OutputInv, CopyTypes
<1>3. ASSUME NEW i \in DOMAIN newFile PROVE Value(newFile[i]) \in Values
  <2>1. CASE newFile[i] = Unset
    BY <2>1, VerifyAssumption DEF Value
  <2>2. CASE newFile[i] # Unset
    <3>1. newFile[i] \in CallBytes
      BY <1>1, <2>2
    <3>2. PICK c \in calls : \E o \in 0 .. (c.size - 1) : newFile[i] = <<c.index, o>>
      BY <3>1 DEF CallBytes
    <3>3. PICK o \in 0 .. (c.size - 1) : newFile[i] = <<c.index, o>>
      BY <3>2
    <3>4. c.index + 1 \in DOMAIN issued /\ c.size = issued[c.index + 1].size
      BY <1>1, IssuedIs DEF ResultsInv, Entry
    <3>5. result[c.index + 1] \in [0 .. (c.size - 1) -> Values]
      BY <3>4 DEF ResultsInv
    <3>6. Value(newFile[i]) = result[c.index + 1][o]
      BY <2>2, <3>3 DEF Value
    <3> QED BY <3>3, <3>5, <3>6
  <2> QED BY <2>1, <2>2
<1> QED BY <1>2, <1>3 DEF NewData

\* A step of writing and reordering, in which the results fit.
LEMMA OutputSteps ==
    ASSUME OneView, ReaderInv, OutputInv, ResultsInv, (\E k \in Results : Write(k)) \/ ReorderFileData
    PROVE  OutputInv' /\ ResultsInv' /\ UNCHANGED <<readVars, content, verifyVars>>
<1>1. UNCHANGED <<readVars, content, verifyVars>> /\ UNCHANGED <<issued, result, content>>
  BY DEF Write, ReorderFileData, readVars
<1>2. CASE \E k \in Results : BeginWrite(k, issued[k + 1].size) /\ k < Len(issued)
  <2>1. PICK k \in Results : BeginWrite(k, issued[k + 1].size) /\ k < Len(issued)
    BY <1>2
  <2> DEFINE size == issued[k + 1].size
             call == [index |-> k, pos |-> Written, size |-> size]
  <2>2. size \in Nat \ {0} /\ k \in Nat
    <3>1. k + 1 \in 1 .. Len(issued) /\ k \in Nat
      BY <2>1, ResultsAssumption, IssuedIs DEF Results
    <3> QED BY <3>1, IssuedIs
  <2>3. /\ wpc = "idle" /\ calls' = calls \cup {call} /\ \A c \in calls : c.index # k
    BY <2>1 DEF BeginWrite, Written
  <2>4. /\ calls \in SUBSET Entry /\ IsFiniteSet(calls) /\ TotalSize(calls) = Written
        /\ \A c, d \in calls : c.index = d.index => c = d
        /\ Written \in Nat
    <3>1. InWindow(writer, FileLength) /\ CallsInv
      BY DEF OutputInv, WriteInv
    <3>2. Written \in Nat
      BY <3>1, LengthAssumption, WindowPos DEF Written
    <3> QED BY <2>3, <3>1, <3>2 DEF CallsInv, End
  <2>5. \A c \in calls \cup {call} : c.index < Len(issued) /\ c.size = issued[c.index + 1].size
    BY <2>1 DEF ResultsInv
  <2>6. call \in Entry /\ call \notin calls
    BY <2>2, <2>3, <2>4 DEF Entry
  <2> HIDE DEF size
  <2>7. TotalSize(calls \cup {call}) = Written + size
    BY <2>4, <2>6, TotalWithOne
  <2>8. TotalSize(calls \cup {call}) <= FileLength
    <3>1. calls \cup {call} \in SUBSET Entry /\ IsFiniteSet(calls \cup {call})
      BY <2>4, <2>6, FS_AddElement
    <3>2. \A c, d \in calls \cup {call} : c.index = d.index => c = d
      BY <2>3, <2>4
    <3> HIDE DEF call
    <3> QED BY <2>5, <3>1, <3>2, ResultsFit
  <2>9. OutputInv'
    BY <2>1, <2>2, <2>7, <2>8, BeginWriteInv DEF size
  <2>10. ResultsInv'
    BY <1>1, <2>3, <2>5 DEF ResultsInv
  <2> QED BY <1>1, <2>9, <2>10
<1>3. CASE MapFirstView \/ WriteRound \/ BeginReorder \/ BeginCopy \/ CopyRound \/ EndReorder
  <2>1. OutputInv'
    BY <1>3, OutputStep
  <2>2. UNCHANGED calls
    BY <1>3 DEF MapFirstView, WriteRound, BeginReorder, BeginCopy, CopyRound, EndReorder, writeVars
  <2> QED BY <1>1, <2>1, <2>2 DEF ResultsInv
<1> QED BY <1>2, <1>3 DEF Write, ReorderFileData

-----------------------------------------------------------------------------
(* VerifyNewData: the buffers *)

\* What a read returns of a file of a given length.
LEMMA ReadCountIs ==
    ASSUME NEW file, NEW len \in Nat, DOMAIN file = 0 .. (len - 1), NEW pos \in 0 .. len
    PROVE  /\ ReadCount(file, pos) = IF buffSize <= len - pos THEN buffSize ELSE len - pos
           /\ ReadCount(file, pos) \in 0 .. buffSize /\ pos + ReadCount(file, pos) \in 0 .. len
<1>1. Cardinality(0 .. (len - 1)) = len
  BY FS_Interval
<1> QED BY <1>1, VerifyAssumption DEF ReadCount, Lesser

LEMMA FilledIs ==
    ASSUME NEW file, NEW len \in Nat, file \in [0 .. (len - 1) -> Values], NEW pos \in 0 .. len,
           NEW buff \in [0 .. (buffSize - 1) -> Values]
    PROVE  /\ Filled(buff, file, pos) \in [0 .. (buffSize - 1) -> Values]
           /\ \A i \in 0 .. (buffSize - 1) :
                Filled(buff, file, pos)[i] = IF i < ReadCount(file, pos) THEN file[pos + i] ELSE buff[i]
<1>1. ReadCount(file, pos) \in Nat /\ pos + ReadCount(file, pos) <= len
  BY ReadCountIs, VerifyAssumption
<1>2. ASSUME NEW i \in 0 .. (buffSize - 1), i < ReadCount(file, pos)
      PROVE  file[pos + i] \in Values
  <2>1. pos + i \in 0 .. (len - 1)
    BY <1>1, <1>2, VerifyAssumption
  <2> QED BY <2>1
<1>3. DOMAIN buff = 0 .. (buffSize - 1)
  OBVIOUS
<1>4. Filled(buff, file, pos)
        = [i \in 0 .. (buffSize - 1) |-> IF i < ReadCount(file, pos) THEN file[pos + i] ELSE buff[i]]
  BY <1>3 DEF Filled
<1> QED BY <1>2, <1>4

\* A multiple of the buffer's size that is not 0 has one before it.
LEMMA BufferBefore ==
    ASSUME NEW p \in Nat, p % buffSize = 0, p # 0
    PROVE  p >= buffSize /\ (p - buffSize) % buffSize = 0
<1>1. buffSize \in Nat \ {0}
  BY VerifyAssumption
<1>2. p >= buffSize
  <2> SUFFICES ASSUME p < buffSize PROVE FALSE
    BY <1>1
  <2>1. p \in 0 .. (buffSize - 1) /\ 0 % buffSize = 0
    BY <1>1
  <2>2. (0 + p) % buffSize = p
    BY <1>1, <2>1, InBuffer
  <2> QED BY <2>2
<1>3. (p - buffSize) % buffSize = 0
  <2> DEFINE q == p - buffSize
  <2>1. q \in Nat /\ buffSize + q = p
    BY <1>1, <1>2
  <2>2. buffSize % buffSize = 0
    BY <1>1
  <2> HIDE DEF q
  <2>3. (buffSize + q) % buffSize = q % buffSize
    BY <1>1, <2>1, <2>2, WordMoved
  <2> QED BY <2>1, <2>3 DEF q
<1> QED BY <1>2, <1>3

LEMMA BufferType ==
    ASSUME content \in [0 .. (FileLength - 1) -> Values],
           NEW p \in 0 .. FileLength, p % buffSize = 0
    PROVE  BufferAt(p) \in [0 .. (buffSize - 1) -> Values]
<1>1. FileLength \in Nat /\ buffSize \in Nat \ {0} /\ 0 \in Values /\ p \in Nat
  BY LengthAssumption, VerifyAssumption
<1>2. ASSUME NEW i \in 0 .. (buffSize - 1)
      PROVE  (IF p + i < FileLength THEN content[p + i]
              ELSE IF p = 0 THEN 0 ELSE content[p + i - buffSize]) \in Values
  <2>1. CASE p + i < FileLength
    <3>1. p + i \in 0 .. (FileLength - 1)
      BY <1>1, <2>1
    <3> QED BY <2>1, <3>1
  <2>2. CASE ~(p + i < FileLength) /\ p # 0
    <3>1. p >= buffSize
      BY <1>1, <2>2, BufferBefore
    <3>2. p + i - buffSize \in 0 .. (FileLength - 1)
      BY <1>1, <3>1
    <3> QED BY <2>2, <3>2
  <2> QED BY <1>1, <2>1, <2>2
<1> QED BY <1>2 DEF BufferAt

\* A buffer holds whole words, so all of what was in the other is written over.
LEMMA WholeBuffer ==
    ASSUME NEW in \in [0 .. (buffSize - 1) -> Values], NEW out \in [0 .. (buffSize - 1) -> Values],
           NEW j \in 0 .. (buffSize - 1)
    PROVE  /\ AlgorithmInOut(in, buffSize, out)[j]
                = Algorithm[[b \in 0 .. (WordSize - 1) |-> in[WordAt(j) + b]]][j % WordSize]
           /\ WordAt(j) \in Nat /\ WordAt(j) + WordSize <= buffSize
           /\ (j % WordSize) \in 0 .. (WordSize - 1)
<1>1. buffSize \in Nat \ {0} /\ WordSize \in Nat \ {0} /\ buffSize % WordSize = 0
  BY VerifyAssumption, AlgorithmAssumption
<1>2. j \in Nat /\ j < buffSize
  BY <1>1
<1>3. j - (j % WordSize) + WordSize <= buffSize
  BY <1>1, <1>2, WordsApart
<1>4. WordAt(j) + WordSize <= buffSize
  BY <1>3 DEF WordAt
<1>5. WordAt(j) \in 0 .. j /\ (j % WordSize) \in 0 .. (WordSize - 1)
  BY <1>2, WordIn
<1> QED BY <1>4, <1>5 DEF AlgorithmInOut

LEMMA ZerosType == Zeros \in [0 .. (buffSize - 1) -> Values]
BY VerifyAssumption DEF Zeros

\* What is expected of the bytes of a buffer.
LEMMA ExpectedIs ==
    ASSUME NEW p \in Nat, p % buffSize = 0, NEW j \in 0 .. (buffSize - 1)
    PROVE  Expected(p + j) = AlgorithmInOut(BufferAt(p), buffSize, Zeros)[j]
<1>1. buffSize \in Nat \ {0}
  BY VerifyAssumption
<1>2. (p + j) % buffSize = j
  BY <1>1, InBuffer
<1>3. BeginOf(p + j) = p
  BY <1>1, <1>2 DEF BeginOf
<1> QED BY <1>2, <1>3 DEF Expected

LEMMA ExpectedWord ==
    ASSUME content \in [0 .. (FileLength - 1) -> Values],
           NEW p \in 0 .. FileLength, p % buffSize = 0, NEW j \in 0 .. (buffSize - 1)
    PROVE  Expected(p + j)
             = Algorithm[[b \in 0 .. (WordSize - 1) |-> BufferAt(p)[WordAt(j) + b]]][j % WordSize]
<1>1. p \in Nat
  BY LengthAssumption
<1>2. BufferAt(p) \in [0 .. (buffSize - 1) -> Values]
  BY BufferType
<1>3. Expected(p + j) = AlgorithmInOut(BufferAt(p), buffSize, Zeros)[j]
  BY <1>1, ExpectedIs
<1> QED BY <1>2, <1>3, WholeBuffer, ZerosType

\* Behind an input of whole words, the last buffer makes what the one before it made
\* there.
LEMMA EndRepeats ==
    ASSUME content \in [0 .. (FileLength - 1) -> Values], FileLength % WordSize = 0,
           NEW p \in 0 .. FileLength, p % buffSize = 0,
           NEW j \in 0 .. (buffSize - 1), p + j >= FileLength
    PROVE  Expected(p + j) = IF p = 0 THEN 0 ELSE Expected((p - buffSize) + j)
<1> DEFINE n == FileLength - p
           at == WordAt(j)
<1>1. /\ buffSize \in Nat \ {0} /\ WordSize \in Nat \ {0} /\ buffSize % WordSize = 0
      /\ FileLength \in Nat /\ p \in Nat /\ j \in Nat
  BY VerifyAssumption, AlgorithmAssumption, LengthAssumption
<1>2. n \in Nat /\ p + n = FileLength /\ j >= n
  BY <1>1
<1>3. n % WordSize = 0
  <2> HIDE DEF n
  <2>1. p % WordSize = 0
    BY <1>1, MultipleOfMultiple
  <2>2. (p + n) % WordSize = n % WordSize
    BY <1>1, <1>2, <2>1, WordMoved
  <2> QED BY <1>2, <2>2
<1>4. at >= n /\ at \in Nat /\ at + WordSize <= buffSize /\ (j % WordSize) \in 0 .. (WordSize - 1)
  <2> HIDE DEF n
  <2>1. j - (j % WordSize) >= n
    BY <1>1, <1>2, <1>3, WordsApart
  <2>2. at \in Nat /\ at + WordSize <= buffSize /\ (j % WordSize) \in 0 .. (WordSize - 1)
    BY ZerosType, WholeBuffer
  <2> QED BY <2>1, <2>2 DEF WordAt
<1>5. \A b \in 0 .. (WordSize - 1) : at + b \in 0 .. (buffSize - 1) /\ ~(p + (at + b) < FileLength)
  <2> HIDE DEF at, n
  <2> QED BY <1>1, <1>2, <1>4
<1> HIDE DEF at, n
<1>6. Expected(p + j) = Algorithm[[b \in 0 .. (WordSize - 1) |-> BufferAt(p)[at + b]]][j % WordSize]
  BY ExpectedWord DEF at
<1>7. CASE p = 0
  <2>1. \A b \in 0 .. (WordSize - 1) : BufferAt(p)[at + b] = 0
    BY <1>5, <1>7 DEF BufferAt
  <2>2. [b \in 0 .. (WordSize - 1) |-> BufferAt(p)[at + b]] = ZeroWord
    BY <2>1 DEF ZeroWord
  <2>3. Expected(p + j) = ZeroWord[j % WordSize]
    BY <1>6, <2>2, AlgorithmAssumption
  <2> QED BY <1>4, <1>7, <2>3 DEF ZeroWord
<1>8. CASE p # 0
  <2> DEFINE q == p - buffSize
  <2>1. q \in 0 .. FileLength /\ q % buffSize = 0 /\ p = q + buffSize
    <3>1. p >= buffSize /\ (p - buffSize) % buffSize = 0
      BY <1>1, <1>8, BufferBefore
    <3>2. q % buffSize = 0 /\ q >= 0 /\ q = p - buffSize
      BY <1>1, <3>1
    <3> HIDE DEF q
    <3> QED BY <1>1, <3>1, <3>2
  <2> HIDE DEF q
  <2>2. ASSUME NEW b \in 0 .. (WordSize - 1)
        PROVE  BufferAt(p)[at + b] = BufferAt(q)[at + b]
    <3> DEFINE o == at + b
    <3>1. o \in 0 .. (buffSize - 1) /\ ~(p + o < FileLength)
      BY <1>5
    <3> HIDE DEF o
    <3>2. BufferAt(p)[o] = content[p + o - buffSize]
      BY <1>8, <3>1 DEF BufferAt
    <3>3. p + o - buffSize = q + o /\ q + o < FileLength
      BY <1>1, <2>1, <3>1
    <3>4. BufferAt(q)[o] = content[q + o]
      BY <3>1, <3>3 DEF BufferAt
    <3> QED BY <3>2, <3>3, <3>4 DEF o
  <2>3. Expected(q + j) = Algorithm[[b \in 0 .. (WordSize - 1) |-> BufferAt(q)[at + b]]][j % WordSize]
    BY <2>1, ExpectedWord DEF at
  <2>4. [b \in 0 .. (WordSize - 1) |-> BufferAt(p)[at + b]]
          = [b \in 0 .. (WordSize - 1) |-> BufferAt(q)[at + b]]
    BY <2>2
  <2> QED BY <1>6, <1>8, <2>3, <2>4 DEF q
<1> QED BY <1>7, <1>8

-----------------------------------------------------------------------------
(* VerifyNewData: the loop *)

OutputLength == Cardinality(DOMAIN newFile)

Matches(n) == \A i \in 0 .. (n - 1) : NewData[i] = Expected(i)

\* Whole buffers were read of both files, and found equal.
SameSoFar ==
    /\ oldPos = newPos /\ newPos % buffSize = 0
    /\ newPos <= OutputLength /\ newPos <= FileLength
    /\ Matches(newPos)
    /\ IF newPos = 0 THEN oldBuff = Zeros /\ newBuff = Zeros
       ELSE \A j \in 0 .. (buffSize - 1) :
              /\ oldBuff[j] = content[(newPos - buffSize) + j]
              /\ newBuff[j] = Expected((newPos - buffSize) + j)

\* The output has ended, before the input.
OutputEnded ==
    /\ newPos = OutputLength /\ newPos <= oldPos
    /\ Matches(newPos)
    /\ \A i \in newPos .. (oldPos - 1) : Repeats(i)

\* The input has ended, and all of it was compared.
InputEnded ==
    /\ oldPos = FileLength /\ FileLength <= newPos /\ newPos <= OutputLength
    /\ Matches(FileLength)

CompareTypes ==
    /\ verdict \in {"none", "verified", "not verified"}
    /\ oldPos \in 0 .. FileLength /\ newPos \in Nat
    /\ {oldBuff, tempBuff, newBuff} \subseteq [0 .. (buffSize - 1) -> Values]

CompareInv ==
    /\ CompareTypes
    /\ rpc # "closed" =>
         /\ verdict = "none" /\ oldPos = 0 /\ newPos = 0
         /\ oldBuff = Zeros /\ tempBuff = Zeros /\ newBuff = Zeros
    /\ rpc = "closed" /\ verdict = "none" => SameSoFar \/ OutputEnded \/ InputEnded
    /\ VerifiedIsOrdered /\ OrderedIsVerified

PathInv == OutputInv /\ ResultsInv /\ CompareInv

\* The names of one round of the loop.
NewCount == ReadCount(NewData, newPos)
OldCount == ReadCount(content, oldPos)
OldRead == Filled(oldBuff, content, oldPos)
Temp == IF OldCount = 0 THEN tempBuff ELSE AlgorithmInOut(OldRead, buffSize, tempBuff)
NewRead == Filled(newBuff, NewData, newPos)

\* What a round may start from.
Comparing ==
    /\ content \in [0 .. (FileLength - 1) -> Values]
    /\ OutputLength \in Nat /\ NewData \in [0 .. (OutputLength - 1) -> Values]
    /\ CompareTypes /\ newPos <= OutputLength

LEMMA ComparingIs ==
    ASSUME ReaderInv, OutputInv, ResultsInv, CompareInv, rpc = "closed", verdict = "none"
    PROVE  Comparing
<1>1. PICK n \in Nat : NewData \in [0 .. (n - 1) -> Values] /\ DOMAIN newFile = 0 .. (n - 1)
  BY NewDataIs
<1>2. Cardinality(0 .. (n - 1)) = n
  BY FS_Interval
<1>3. OutputLength = n
  BY <1>1, <1>2 DEF OutputLength
<1>4. newPos <= OutputLength
  BY <1>1, <1>3 DEF CompareInv, CompareTypes, SameSoFar, OutputEnded, InputEnded
<1> QED BY <1>1, <1>3, <1>4 DEF Comparing, ResultsInv, CompareInv

LEMMA CountsAre ==
    ASSUME Comparing
    PROVE  /\ buffSize \in Nat \ {0} /\ FileLength \in Nat \ {0}
           /\ oldPos \in 0 .. FileLength /\ oldPos \in Nat
           /\ newPos \in 0 .. OutputLength /\ newPos \in Nat /\ OutputLength \in Nat
           /\ NewCount = IF buffSize <= OutputLength - newPos THEN buffSize ELSE OutputLength - newPos
           /\ OldCount = IF buffSize <= FileLength - oldPos THEN buffSize ELSE FileLength - oldPos
           /\ NewCount \in 0 .. buffSize /\ OldCount \in 0 .. buffSize
           /\ newPos + NewCount \in 0 .. OutputLength /\ oldPos + OldCount \in 0 .. FileLength
<1>1. /\ buffSize \in Nat \ {0} /\ FileLength \in Nat \ {0} /\ OutputLength \in Nat
      /\ oldPos \in 0 .. FileLength /\ newPos \in 0 .. OutputLength
      /\ DOMAIN NewData = 0 .. (OutputLength - 1) /\ DOMAIN content = 0 .. (FileLength - 1)
  <2>1. oldPos \in 0 .. FileLength /\ newPos \in Nat
    BY DEF Comparing, CompareTypes
  <2>2. /\ OutputLength \in Nat /\ newPos <= OutputLength
        /\ DOMAIN NewData = 0 .. (OutputLength - 1) /\ DOMAIN content = 0 .. (FileLength - 1)
    BY DEF Comparing
  <2>3. buffSize \in Nat \ {0} /\ FileLength \in Nat \ {0}
    BY LengthAssumption, VerifyAssumption
  <2> QED BY <2>1, <2>2, <2>3
<1>2. /\ NewCount = IF buffSize <= OutputLength - newPos THEN buffSize ELSE OutputLength - newPos
      /\ NewCount \in 0 .. buffSize /\ newPos + NewCount \in 0 .. OutputLength
  BY <1>1, ReadCountIs DEF NewCount
<1>3. /\ OldCount = IF buffSize <= FileLength - oldPos THEN buffSize ELSE FileLength - oldPos
      /\ OldCount \in 0 .. buffSize /\ oldPos + OldCount \in 0 .. FileLength
  <2>1. FileLength \in Nat
    BY <1>1
  <2> QED BY <1>1, <2>1, ReadCountIs DEF OldCount
<1>4. oldPos \in Nat /\ newPos \in Nat
  BY <1>1
<1> QED BY <1>1, <1>2, <1>3, <1>4

LEMMA ReadsAre ==
    ASSUME Comparing
    PROVE  /\ OldRead \in [0 .. (buffSize - 1) -> Values]
           /\ NewRead \in [0 .. (buffSize - 1) -> Values]
           /\ Temp \in [0 .. (buffSize - 1) -> Values]
           /\ \A j \in 0 .. (buffSize - 1) :
                /\ OldRead[j] = IF j < OldCount THEN content[oldPos + j] ELSE oldBuff[j]
                /\ NewRead[j] = IF j < NewCount THEN NewData[newPos + j] ELSE newBuff[j]
<1>1. /\ content \in [0 .. (FileLength - 1) -> Values] /\ FileLength \in Nat
      /\ NewData \in [0 .. (OutputLength - 1) -> Values] /\ OutputLength \in Nat
      /\ oldPos \in 0 .. FileLength /\ newPos \in 0 .. OutputLength
      /\ oldBuff \in [0 .. (buffSize - 1) -> Values] /\ newBuff \in [0 .. (buffSize - 1) -> Values]
      /\ tempBuff \in [0 .. (buffSize - 1) -> Values]
  <2>1. {oldBuff, tempBuff, newBuff} \subseteq [0 .. (buffSize - 1) -> Values]
    BY DEF Comparing, CompareTypes
  <2>2. FileLength \in Nat /\ oldPos \in 0 .. FileLength /\ newPos \in 0 .. OutputLength
    BY CountsAre
  <2> QED BY <2>1, <2>2 DEF Comparing
<1>2. /\ OldRead \in [0 .. (buffSize - 1) -> Values]
      /\ \A j \in 0 .. (buffSize - 1) :
           OldRead[j] = IF j < OldCount THEN content[oldPos + j] ELSE oldBuff[j]
  BY <1>1, FilledIs DEF OldRead, OldCount
<1>3. /\ NewRead \in [0 .. (buffSize - 1) -> Values]
      /\ \A j \in 0 .. (buffSize - 1) :
           NewRead[j] = IF j < NewCount THEN NewData[newPos + j] ELSE newBuff[j]
  BY <1>1, FilledIs DEF NewRead, NewCount
<1>4. Temp \in [0 .. (buffSize - 1) -> Values]
  <2>1. buffSize \in Nat /\ buffSize \in 0 .. buffSize
    BY VerifyAssumption
  <2>2. AlgorithmInOut(OldRead, buffSize, tempBuff) \in [0 .. (buffSize - 1) -> Values]
    BY <1>1, <1>2, <2>1, AlgorithmType
  <2> QED BY <1>1, <2>2 DEF Temp
<1> QED BY <1>2, <1>3, <1>4

\* While the files are the same and the input goes on, tempBuff is what is expected.
LEMMA TempIs ==
    ASSUME Comparing, SameSoFar, oldPos < FileLength, NEW j \in 0 .. (buffSize - 1)
    PROVE  Temp[j] = Expected(newPos + j)
<1>1. /\ buffSize \in Nat \ {0} /\ FileLength \in Nat /\ newPos \in 0 .. FileLength /\ newPos \in Nat
      /\ newPos % buffSize = 0 /\ oldPos = newPos /\ OldCount # 0
      /\ \A i \in 0 .. (buffSize - 1) : i < OldCount <=> newPos + i < FileLength
  BY CountsAre DEF SameSoFar
<1>2. content \in [0 .. (FileLength - 1) -> Values]
  BY DEF Comparing
<1>3. BufferAt(newPos) \in [0 .. (buffSize - 1) -> Values]
  BY <1>1, <1>2, BufferType
<1>4. ASSUME NEW i \in 0 .. (buffSize - 1) PROVE OldRead[i] = BufferAt(newPos)[i]
  <2>1. OldRead[i] = IF newPos + i < FileLength THEN content[newPos + i] ELSE oldBuff[i]
    BY <1>1, ReadsAre
  <2>2. newPos = 0 => oldBuff[i] = 0
    BY DEF SameSoFar, Zeros
  <2>3. newPos # 0 => oldBuff[i] = content[newPos + i - buffSize]
    <3>1. newPos # 0 => oldBuff[i] = content[(newPos - buffSize) + i]
      BY DEF SameSoFar
    <3>2. (newPos - buffSize) + i = newPos + i - buffSize
      BY <1>1
    <3> QED BY <3>1, <3>2
  <2> QED BY <2>1, <2>2, <2>3 DEF BufferAt
<1>5. OldRead = BufferAt(newPos)
  <2>1. OldRead \in [0 .. (buffSize - 1) -> Values]
    BY ReadsAre
  <2> DEFINE a == OldRead
             b == BufferAt(newPos)
  <2> HIDE DEF a, b
  <2>2. a = [i \in 0 .. (buffSize - 1) |-> a[i]] /\ b = [i \in 0 .. (buffSize - 1) |-> b[i]]
    BY <1>3, <2>1 DEF a, b
  <2>3. \A i \in 0 .. (buffSize - 1) : a[i] = b[i]
    BY <1>4 DEF a, b
  <2>4. a = b
    BY <2>2, <2>3
  <2> QED BY <2>4 DEF a, b
<1>6. Temp = AlgorithmInOut(BufferAt(newPos), buffSize, tempBuff)
  BY <1>1, <1>5 DEF Temp
<1>7. tempBuff \in [0 .. (buffSize - 1) -> Values]
  BY DEF Comparing, CompareTypes
<1>8. Temp[j] = Algorithm[[b \in 0 .. (WordSize - 1) |-> BufferAt(newPos)[WordAt(j) + b]]][j % WordSize]
  BY <1>3, <1>6, <1>7, WholeBuffer
<1> QED BY <1>1, <1>2, <1>8, ExpectedWord

\* What is left in newBuff behind the end of the output.
LEMMA NewLeft ==
    ASSUME Comparing, SameSoFar, NEW j \in 0 .. (buffSize - 1), ~(j < NewCount)
    PROVE  NewRead[j] = IF newPos = 0 THEN 0 ELSE Expected((newPos - buffSize) + j)
<1>1. NewRead[j] = newBuff[j]
  BY ReadsAre
<1> QED BY <1>1 DEF SameSoFar, Zeros

\* An output that is right makes the same buffer.
LEMMA RightIsSame ==
    ASSUME Comparing, SameSoFar, oldPos < FileLength, FileLength % WordSize = 0,
           NewData = [i \in DOMAIN content |-> Expected(i)]
    PROVE  Temp = NewRead
<1>1. DOMAIN NewData = 0 .. (OutputLength - 1) /\ DOMAIN NewData = 0 .. (FileLength - 1)
      /\ content \in [0 .. (FileLength - 1) -> Values]
  BY DEF Comparing
<1>2. OutputLength = FileLength
  <2>1. FileLength \in Nat /\ OutputLength \in Nat
    BY CountsAre
  <2>2. Cardinality(0 .. (FileLength - 1)) = FileLength
    BY <2>1, FS_Interval
  <2>3. Cardinality(0 .. (OutputLength - 1)) = OutputLength
    BY <2>1, FS_Interval
  <2> QED BY <1>1, <2>2, <2>3
<1>3. /\ buffSize \in Nat \ {0} /\ FileLength \in Nat /\ newPos \in 0 .. FileLength /\ newPos \in Nat
      /\ newPos % buffSize = 0
      /\ \A i \in 0 .. (buffSize - 1) : i < NewCount <=> newPos + i < FileLength
  BY <1>2, CountsAre DEF SameSoFar
<1>4. ASSUME NEW j \in 0 .. (buffSize - 1) PROVE NewRead[j] = Temp[j]
  <2>1. Temp[j] = Expected(newPos + j)
    BY TempIs
  <2>2. CASE j < NewCount
    <3>1. newPos + j \in DOMAIN content
      BY <1>1, <1>3, <2>2
    <3>2. NewRead[j] = NewData[newPos + j]
      BY <2>2, ReadsAre
    <3> QED BY <2>1, <3>1, <3>2
  <2>3. CASE ~(j < NewCount)
    <3>1. newPos + j >= FileLength
      BY <1>3, <2>3
    <3>2. Expected(newPos + j) = IF newPos = 0 THEN 0 ELSE Expected((newPos - buffSize) + j)
      BY <1>1, <1>3, <3>1, EndRepeats
    <3> QED BY <2>1, <2>3, <3>2, NewLeft
  <2> QED BY <2>2, <2>3
<1>5. NewRead \in [0 .. (buffSize - 1) -> Values] /\ Temp \in [0 .. (buffSize - 1) -> Values]
  BY ReadsAre
<1> DEFINE a == Temp
           b == NewRead
<1> HIDE DEF a, b
<1>6. a = [i \in 0 .. (buffSize - 1) |-> a[i]] /\ b = [i \in 0 .. (buffSize - 1) |-> b[i]]
  BY <1>5 DEF a, b
<1>7. \A i \in 0 .. (buffSize - 1) : a[i] = b[i]
  BY <1>4 DEF a, b
<1>8. a = b
  BY <1>6, <1>7
<1> QED BY <1>8 DEF a, b

\* A round that finds the buffers equal has found the bytes of the output that it read
\* to be right.
LEMMA EqualMatches ==
    ASSUME Comparing, SameSoFar, oldPos < FileLength, Temp = NewRead,
           NEW n \in 0 .. (newPos + NewCount)
    PROVE  Matches(n)
<1>1. newPos \in Nat /\ NewCount \in 0 .. buffSize /\ buffSize \in Nat
  BY CountsAre
<1> SUFFICES ASSUME NEW i \in 0 .. (n - 1) PROVE NewData[i] = Expected(i)
  BY DEF Matches
<1>2. CASE i < newPos
  <2>1. i \in 0 .. (newPos - 1)
    BY <1>1, <1>2
  <2> QED BY <2>1 DEF SameSoFar, Matches
<1>3. CASE ~(i < newPos)
  <2> DEFINE j == i - newPos
  <2>1. j \in 0 .. (buffSize - 1) /\ j < NewCount /\ newPos + j = i
    BY <1>1, <1>3
  <2> HIDE DEF j
  <2>2. NewRead[j] = NewData[newPos + j]
    BY <2>1, ReadsAre
  <2>3. Temp[j] = Expected(newPos + j)
    BY <2>1, TempIs
  <2> QED BY <2>1, <2>2, <2>3
<1> QED BY <1>2, <1>3

\* And what it did not find in the output to repeat what was there one buffer before.
LEMMA EqualRepeats ==
    ASSUME Comparing, SameSoFar, oldPos < FileLength, Temp = NewRead,
           NEW i \in Nat, newPos + NewCount <= i, i < newPos + buffSize
    PROVE  Repeats(i)
<1>1. /\ newPos \in Nat /\ NewCount \in 0 .. buffSize /\ buffSize \in Nat \ {0}
      /\ newPos % buffSize = 0
  BY CountsAre DEF SameSoFar
<1> DEFINE j == i - newPos
<1>2. j \in 0 .. (buffSize - 1) /\ ~(j < NewCount) /\ newPos + j = i
  BY <1>1
<1> HIDE DEF j
<1>3. Temp[j] = Expected(newPos + j)
  BY <1>2, TempIs
<1>4. NewRead[j] = IF newPos = 0 THEN 0 ELSE Expected((newPos - buffSize) + j)
  BY <1>2, NewLeft
<1>5. CASE newPos = 0
  <2>1. i < buffSize
    BY <1>1, <1>5
  <2> QED BY <1>2, <1>3, <1>4, <1>5, <2>1 DEF Repeats
<1>6. CASE newPos # 0
  <2>1. newPos >= buffSize
    BY <1>1, <1>6, BufferBefore
  <2>2. (newPos - buffSize) + j = i - buffSize /\ ~(i < buffSize)
    BY <1>1, <1>2, <2>1
  <2> QED BY <1>2, <1>3, <1>4, <1>6, <2>2 DEF Repeats
<1> QED BY <1>5, <1>6

\* What does not change with a round.
LEMMA RoundKeeps ==
    ASSUME UNCHANGED <<newFile, result, content>>
    PROVE  /\ NewData' = NewData /\ OutputLength' = OutputLength
           /\ \A i : Expected(i)' = Expected(i)
           /\ \A i : Repeats(i)' <=> Repeats(i)
<1>1. \A x : Value(x)' = Value(x)
  BY DEF Value
<1>2. \A p : BufferAt(p)' = BufferAt(p)
  BY DEF BufferAt
<1>3. \A i : Expected(i)' = Expected(i)
  BY <1>2 DEF Expected
<1> QED BY <1>1, <1>3 DEF NewData, OutputLength, Repeats

\* All of the input is found in an output that is not shorter, or is missing at its
\* end.
LEMMA EndVerified ==
    ASSUME Comparing, SameSoFar \/ OutputEnded \/ InputEnded, NewCount = 0, OldCount = 0
    PROVE  \A i \in DOMAIN content :
             IF i \in DOMAIN NewData THEN NewData[i] = Expected(i) ELSE Repeats(i)
<1>1. /\ newPos = OutputLength /\ oldPos = FileLength
      /\ newPos \in Nat /\ FileLength \in Nat /\ OutputLength \in Nat
  BY CountsAre
<1>2. DOMAIN content = 0 .. (FileLength - 1) /\ DOMAIN NewData = 0 .. (OutputLength - 1)
  BY DEF Comparing
<1>3. CASE SameSoFar
  <2>1. newPos = FileLength /\ \A i \in 0 .. (newPos - 1) : NewData[i] = Expected(i)
    BY <1>1, <1>3 DEF SameSoFar, Matches
  <2> QED BY <1>1, <1>2, <2>1
<1>4. CASE OutputEnded
  <2>1. /\ \A i \in 0 .. (newPos - 1) : NewData[i] = Expected(i)
        /\ \A i \in newPos .. (oldPos - 1) : Repeats(i)
    BY <1>4 DEF OutputEnded, Matches
  <2> QED BY <1>1, <1>2, <2>1
<1>5. CASE InputEnded
  <2>1. FileLength <= newPos /\ \A i \in 0 .. (FileLength - 1) : NewData[i] = Expected(i)
    BY <1>5 DEF InputEnded, Matches
  <2> QED BY <1>1, <1>2, <2>1
<1> QED BY <1>3, <1>4, <1>5

\* A file of another length is not the one expected.
LEMMA OtherLength ==
    ASSUME Comparing, OutputLength # FileLength
    PROVE  NewData # [i \in DOMAIN content |-> Expected(i)]
<1> SUFFICES ASSUME NewData = [i \in DOMAIN content |-> Expected(i)] PROVE FALSE
  OBVIOUS
<1>1. 0 .. (OutputLength - 1) = 0 .. (FileLength - 1)
  <2>1. DOMAIN content = 0 .. (FileLength - 1) /\ DOMAIN NewData = 0 .. (OutputLength - 1)
    BY DEF Comparing
  <2>2. DOMAIN NewData = DOMAIN content
    OBVIOUS
  <2> QED BY <2>1, <2>2
<1>2. FileLength \in Nat /\ OutputLength \in Nat
  BY CountsAre
<1>3. Cardinality(0 .. (FileLength - 1)) = FileLength
  BY <1>2, FS_Interval
<1>4. Cardinality(0 .. (OutputLength - 1)) = OutputLength
  BY <1>2, FS_Interval
<1> QED BY <1>1, <1>3, <1>4

\* A verdict that an output is not verified is given for one that is wrong.
LEMMA NotVerified ==
    ASSUME Comparing, SameSoFar \/ OutputEnded \/ InputEnded, FileLength % WordSize = 0,
           IF NewCount = 0 THEN OldCount # 0 ELSE Temp # NewRead
    PROVE  NewData # [i \in DOMAIN content |-> Expected(i)]
<1>1. /\ newPos \in Nat /\ FileLength \in Nat /\ OutputLength \in Nat /\ oldPos \in 0 .. FileLength
      /\ buffSize \in Nat \ {0} /\ (NewCount = 0 <=> newPos = OutputLength)
      /\ newPos <= OutputLength /\ (OldCount = 0 <=> oldPos = FileLength)
  BY CountsAre
<1>2. CASE SameSoFar /\ oldPos < FileLength /\ NewCount # 0
  <2>1. Temp # NewRead
    BY <1>2
  <2> QED BY <1>2, <2>1, RightIsSame
<1>3. CASE ~(SameSoFar /\ oldPos < FileLength /\ NewCount # 0)
  <2>1. OutputLength # FileLength
    BY <1>1, <1>3 DEF SameSoFar, OutputEnded, InputEnded
  <2> QED BY <2>1, OtherLength
<1> QED BY <1>2, <1>3

\* A round that goes on.
LEMMA RoundGoesOn ==
    ASSUME Comparing, SameSoFar \/ OutputEnded \/ InputEnded, NewCount # 0, Temp = NewRead,
           UNCHANGED <<newFile, result, content>>,
           oldPos' = oldPos + OldCount, newPos' = newPos + NewCount,
           oldBuff' = OldRead, newBuff' = NewRead
    PROVE  (SameSoFar \/ OutputEnded \/ InputEnded)'
<1>1. /\ newPos \in Nat /\ FileLength \in Nat /\ OutputLength \in Nat /\ oldPos \in 0 .. FileLength
      /\ buffSize \in Nat \ {0} /\ newPos <= OutputLength
      /\ NewCount = (IF buffSize <= OutputLength - newPos THEN buffSize ELSE OutputLength - newPos)
      /\ OldCount = (IF buffSize <= FileLength - oldPos THEN buffSize ELSE FileLength - oldPos)
  BY CountsAre
<1>2. /\ NewData' = NewData /\ OutputLength' = OutputLength /\ content' = content
      /\ \A i : Expected(i)' = Expected(i)
      /\ \A i : Repeats(i)' <=> Repeats(i)
  BY RoundKeeps
<1>3. ASSUME NEW n, Matches(n) PROVE \A i \in 0 .. (n - 1) : NewData'[i] = Expected(i)'
  BY <1>2, <1>3 DEF Matches
<1>4. ~OutputEnded
  BY <1>1 DEF OutputEnded
<1>5. CASE oldPos = FileLength
  <2>1. FileLength <= newPos /\ Matches(FileLength)
    BY <1>1, <1>4, <1>5 DEF SameSoFar, InputEnded
  <2>2. oldPos' = FileLength /\ FileLength <= newPos' /\ newPos' <= OutputLength'
    BY <1>1, <1>2, <1>5, <2>1
  <2>3. Matches(FileLength)'
    BY <1>3, <2>1 DEF Matches
  <2> QED BY <2>2, <2>3 DEF InputEnded
<1>6. CASE oldPos # FileLength
  <2>1. SameSoFar /\ oldPos < FileLength
    BY <1>1, <1>4, <1>6 DEF InputEnded
  <2>2. oldPos = newPos /\ newPos % buffSize = 0
    BY <2>1 DEF SameSoFar
  <2>3. ASSUME NEW n \in 0 .. (newPos + NewCount)
        PROVE  \A i \in 0 .. (n - 1) : NewData'[i] = Expected(i)'
    BY <1>3, <2>1, <2>3, EqualMatches
  <2>4. CASE NewCount = buffSize /\ OldCount = buffSize
    <3>1. /\ oldPos' = newPos' /\ newPos' <= OutputLength' /\ newPos' <= FileLength
          /\ newPos' = newPos + buffSize /\ newPos' \in Nat /\ newPos' # 0
      BY <1>1, <1>2, <2>2, <2>4
    <3>2. newPos' % buffSize = 0
      <4>1. buffSize % buffSize = 0 /\ buffSize + newPos = newPos'
        BY <1>1, <3>1
      <4>2. (buffSize + newPos) % buffSize = newPos % buffSize
        BY <1>1, <4>1, WordMoved
      <4> QED BY <2>2, <4>1, <4>2
    <3>3. Matches(newPos)'
      <4>1. newPos' \in 0 .. (newPos + NewCount)
        BY <2>4, <3>1
      <4> QED BY <2>3, <4>1 DEF Matches
    <3>4. ASSUME NEW j \in 0 .. (buffSize - 1)
          PROVE  /\ (oldBuff[j] = content[(newPos - buffSize) + j])'
                 /\ (newBuff[j] = Expected((newPos - buffSize) + j))'
      <4>1. (newPos' - buffSize) + j = newPos + j
        BY <1>1, <3>1
      <4>2. OldRead[j] = content[newPos + j]
        BY <1>1, <2>2, <2>4, ReadsAre
      <4>3. NewRead[j] = Expected(newPos + j)
        BY <2>1, TempIs
      <4>4. (Expected((newPos - buffSize) + j))' = Expected(newPos + j)
        BY <1>2, <4>1 DEF Expected, BufferAt
      <4> QED BY <1>2, <4>1, <4>2, <4>3, <4>4
    <3> QED BY <3>1, <3>2, <3>3, <3>4 DEF SameSoFar
  <2>5. CASE FileLength <= newPos + NewCount /\ OldCount # buffSize
    <3>1. oldPos' = FileLength /\ FileLength <= newPos' /\ newPos' <= OutputLength'
      BY <1>1, <1>2, <2>5
    <3>2. Matches(FileLength)'
      <4>1. FileLength \in 0 .. (newPos + NewCount)
        BY <1>1, <2>5
      <4> QED BY <2>3, <4>1 DEF Matches
    <3> QED BY <3>1, <3>2 DEF InputEnded
  <2>6. CASE FileLength <= newPos + NewCount /\ OldCount = buffSize /\ NewCount # buffSize
    BY <1>1, <2>2, <2>6
  <2>7. CASE ~(FileLength <= newPos + NewCount) /\ NewCount # buffSize
    <3>1. newPos' = OutputLength' /\ newPos' <= oldPos' /\ newPos' = newPos + NewCount
          /\ oldPos' = newPos + OldCount /\ OldCount <= buffSize
      BY <1>1, <1>2, <2>2, <2>7
    <3>2. Matches(newPos)'
      <4>1. newPos' \in 0 .. (newPos + NewCount)
        BY <1>1, <3>1
      <4> QED BY <2>3, <4>1 DEF Matches
    <3>3. ASSUME NEW i \in newPos' .. (oldPos' - 1) PROVE Repeats(i)'
      <4>1. i \in Nat /\ newPos + NewCount <= i /\ i < newPos + buffSize
        BY <1>1, <3>1
      <4>2. Repeats(i)
        BY <2>1, <4>1, EqualRepeats
      <4> QED BY <1>2, <4>2
    <3> QED BY <3>1, <3>2, <3>3 DEF OutputEnded
  <2>8. CASE ~(FileLength <= newPos + NewCount) /\ NewCount = buffSize /\ OldCount # buffSize
    BY <1>1, <2>2, <2>8
  <2> QED BY <2>4, <2>5, <2>6, <2>7, <2>8
<1> QED BY <1>5, <1>6

LEMMA VerifyKeeps ==
    ASSUME OneView, ReaderInv, PathInv, VerifyNewData
    PROVE  PathInv'
<1>1. OutputInv /\ ResultsInv /\ CompareInv
  BY DEF PathInv
<1>2. /\ rpc = "closed" /\ verdict = "none"
      /\ UNCHANGED <<vars, readVars, content>>
  BY DEF VerifyNewData
<1>3. /\ oldBuff' = OldRead /\ tempBuff' = Temp /\ newBuff' = NewRead
      /\ oldPos' = oldPos + OldCount /\ newPos' = newPos + NewCount
  BY DEF VerifyNewData, OldRead, Temp, NewRead, OldCount, NewCount
<1>4. verdict' = IF NewCount = 0 THEN IF OldCount = 0 THEN "verified" ELSE "not verified"
                 ELSE IF Temp = NewRead THEN "none" ELSE "not verified"
  BY DEF VerifyNewData, Equal, OldRead, Temp, NewRead, OldCount, NewCount
<1>5. Comparing /\ (SameSoFar \/ OutputEnded \/ InputEnded)
  BY <1>1, <1>2, ComparingIs DEF CompareInv
<1>6. UNCHANGED <<rpc, newFile, calls, issued, result, content>> /\ UNCHANGED vars
  BY <1>2 DEF vars, writeVars, reorderVars, readVars
<1>7. OutputInv' /\ ResultsInv'
  <2>1. OutputInv'
    BY <1>1, <1>6, OutputStep
  <2> QED BY <1>1, <1>6, <2>1 DEF ResultsInv
<1>8. CompareTypes'
  <2>1. oldPos' \in 0 .. FileLength /\ newPos' \in Nat
    BY <1>3, <1>5, CountsAre
  <2>2. oldBuff' \in [0 .. (buffSize - 1) -> Values] /\ tempBuff' \in [0 .. (buffSize - 1) -> Values]
        /\ newBuff' \in [0 .. (buffSize - 1) -> Values]
    BY <1>3, <1>5, ReadsAre
  <2> QED BY <1>4, <2>1, <2>2 DEF CompareTypes
<1>9. NewData' = NewData /\ \A i : Expected(i)' = Expected(i) /\ (Repeats(i)' <=> Repeats(i))
  BY <1>6, RoundKeeps
<1>10. VerifiedIsOrdered'
  <2> SUFFICES ASSUME verdict' = "verified"
               PROVE  \A i \in DOMAIN content' :
                        IF i \in DOMAIN NewData' THEN NewData'[i] = Expected(i)' ELSE Repeats(i)'
    BY DEF VerifiedIsOrdered
  <2>1. NewCount = 0 /\ OldCount = 0
    BY <1>4
  <2>2. \A i \in DOMAIN content :
          IF i \in DOMAIN NewData THEN NewData[i] = Expected(i) ELSE Repeats(i)
    BY <1>5, <2>1, EndVerified
  <2> QED BY <1>6, <1>9, <2>2
<1>11. OrderedIsVerified'
  <2> SUFFICES ASSUME verdict' = "not verified", FileLength % WordSize = 0
               PROVE  NewData' # [i \in DOMAIN content' |-> Expected(i)']
    BY DEF OrderedIsVerified
  <2>1. IF NewCount = 0 THEN OldCount # 0 ELSE Temp # NewRead
    BY <1>4
  <2>2. NewData # [i \in DOMAIN content |-> Expected(i)]
    BY <1>5, <2>1, NotVerified
  <2> QED BY <1>6, <1>9, <2>2
<1>12. verdict' = "none" => (SameSoFar \/ OutputEnded \/ InputEnded)'
  <2> SUFFICES ASSUME verdict' = "none" PROVE (SameSoFar \/ OutputEnded \/ InputEnded)'
    OBVIOUS
  <2>1. NewCount # 0 /\ Temp = NewRead
    BY <1>4
  <2> QED BY <1>3, <1>5, <1>6, <2>1, RoundGoesOn
<1>13. CompareInv'
  BY <1>2, <1>6, <1>8, <1>10, <1>11, <1>12 DEF CompareInv
<1> QED BY <1>7, <1>13 DEF PathInv

\* What the comparison depends on does not change.
LEMMA CompareKept ==
    ASSUME CompareInv, UNCHANGED <<rpc, newFile, content, verdict, oldPos, newPos>>,
           UNCHANGED <<oldBuff, tempBuff, newBuff>>, NewData' = NewData
    PROVE  CompareInv'
<1>1. OutputLength' = OutputLength
  BY DEF OutputLength
<1>2. \A p : BufferAt(p)' = BufferAt(p)
  BY DEF BufferAt
<1>3. \A i : Expected(i)' = Expected(i)
  BY <1>2 DEF Expected
<1>4. \A i : Repeats(i)' <=> Repeats(i)
  BY <1>3 DEF Repeats
<1>5. \A n : Matches(n)' <=> Matches(n)
  BY <1>3 DEF Matches
<1>6. Matches(newPos)' <=> Matches(newPos)
  BY <1>3 DEF Matches
<1>7. Matches(FileLength)' <=> Matches(FileLength)
  BY <1>3 DEF Matches
<1>8. SameSoFar' <=> SameSoFar
  <2>1. \A j : Expected((newPos - buffSize) + j)' = Expected((newPos - buffSize) + j)
    BY <1>3
  <2> QED BY <1>1, <1>6, <2>1 DEF SameSoFar
<1>9. OutputEnded' <=> OutputEnded
  BY <1>1, <1>4, <1>6 DEF OutputEnded
<1>10. InputEnded' <=> InputEnded
  BY <1>1, <1>7 DEF InputEnded
<1>11. VerifiedIsOrdered' <=> VerifiedIsOrdered
  BY <1>3, <1>4 DEF VerifiedIsOrdered
<1>12. OrderedIsVerified' <=> OrderedIsVerified
  <2>1. [i \in DOMAIN content |-> Expected(i)]' = [i \in DOMAIN content |-> Expected(i)]
    BY <1>3
  <2> QED BY <2>1 DEF OrderedIsVerified
<1>13. CompareTypes' <=> CompareTypes
  BY DEF CompareTypes
<1> QED BY <1>8, <1>9, <1>10, <1>11, <1>12, <1>13 DEF CompareInv

LEMMA WritesKeep ==
    ASSUME OneView, ReaderInv, PathInv, (\E k \in Results : Write(k)) \/ ReorderFileData
    PROVE  PathInv'
<1>1. OutputInv' /\ ResultsInv' /\ UNCHANGED <<readVars, content, verifyVars>>
  BY OutputSteps DEF PathInv
<1>2. UNCHANGED <<result, content, verdict, oldPos, newPos>> /\ UNCHANGED <<oldBuff, tempBuff, newBuff>>
  BY <1>1 DEF readVars, verifyVars
<1>3. CompareInv
  BY DEF PathInv
<1>4. CASE rpc' # "closed"
  <2>1. rpc # "closed"
    BY <1>4 DEF Write, ReorderFileData, BeginWrite, MapFirstView, WriteRound, BeginReorder,
                BeginCopy, CopyRound, EndReorder, reorderVars
  <2>2. verdict = "none"
    BY <1>3, <2>1 DEF CompareInv
  <2>3. VerifiedIsOrdered' /\ OrderedIsVerified'
    BY <1>2, <2>2 DEF VerifiedIsOrdered, OrderedIsVerified
  <2>4. CompareTypes'
    BY <1>2, <1>3 DEF CompareInv, CompareTypes
  <2> QED BY <1>1, <1>2, <1>3, <1>4, <2>1, <2>3, <2>4 DEF PathInv, CompareInv
<1>5. CASE rpc = "closed"
  <2>1. UNCHANGED <<rpc, newFile>>
    BY <1>5 DEF Write, ReorderFileData, BeginWrite, MapFirstView, WriteRound, RoundInView,
                BeginReorder, BeginCopy, CopyRound, EndReorder, reorderVars
  <2>2. \A x : Value(x)' = Value(x)
    BY <1>2 DEF Value
  <2>3. NewData' = NewData
    BY <2>1, <2>2 DEF NewData
  <2>4. CompareInv'
    BY <1>2, <1>3, <2>1, <2>3, CompareKept
  <2> QED BY <1>1, <2>4 DEF PathInv
<1>6. CASE rpc # "closed" /\ rpc' = "closed"
  <2>1. /\ verdict = "none" /\ oldPos = 0 /\ newPos = 0 /\ oldBuff = Zeros /\ newBuff = Zeros
        /\ CompareTypes
    BY <1>3, <1>6 DEF CompareInv
  <2>2. OutputLength' \in Nat
    <3>1. DOMAIN newFile' = DOMAIN tempFile' /\ \E n \in Nat : DOMAIN tempFile' = 0 .. (n - 1)
      BY <1>1, <1>6 DEF OutputInv, WriteInv, CopyTypes
    <3>2. PICK n \in Nat : DOMAIN newFile' = 0 .. (n - 1)
      BY <3>1
    <3>3. Cardinality(0 .. (n - 1)) = n
      BY FS_Interval
    <3> QED BY <3>2, <3>3 DEF OutputLength
  <2>3. SameSoFar'
    <3>1. 0 % buffSize = 0 /\ FileLength \in Nat
      BY VerifyAssumption, LengthAssumption
    <3>2. oldPos' = 0 /\ newPos' = 0 /\ oldBuff' = Zeros' /\ newBuff' = Zeros'
      BY <1>2, <2>1 DEF Zeros
    <3>3. Matches(newPos)'
      BY <3>2 DEF Matches
    <3> QED BY <2>2, <3>1, <3>2, <3>3 DEF SameSoFar
  <2>4. VerifiedIsOrdered' /\ OrderedIsVerified'
    BY <1>2, <2>1 DEF VerifiedIsOrdered, OrderedIsVerified
  <2>5. CompareTypes'
    BY <1>2, <2>1 DEF CompareTypes
  <2> QED BY <1>1, <1>6, <2>3, <2>4, <2>5 DEF PathInv, CompareInv
<1> QED BY <1>4, <1>5, <1>6

-----------------------------------------------------------------------------
(* The specification *)

LEMMA PathInvInit ==
    PathInit => PathInv
<1> SUFFICES ASSUME PathInit PROVE PathInv
  OBVIOUS
<1>1. OutputInv
  BY OutputInit DEF PathInit
<1>2. /\ result = <<>> /\ issued = <<>> /\ calls = {} /\ rpc = "none"
      /\ content \in [0 .. (FileLength - 1) -> Values]
      /\ verdict = "none" /\ oldPos = 0 /\ newPos = 0
      /\ oldBuff = Zeros /\ tempBuff = Zeros /\ newBuff = Zeros
  BY InputsAssumption DEF PathInit, Init, Reader!Init
<1>3. ResultsInv
  BY <1>2 DEF ResultsInv
<1>4. CompareTypes
  BY <1>2, LengthAssumption, ZerosType DEF CompareTypes
<1>5. CompareInv
  BY <1>2, <1>4 DEF CompareInv, VerifiedIsOrdered, OrderedIsVerified
<1> QED BY <1>1, <1>3, <1>5 DEF PathInv

LEMMA PathInvStep ==
    ASSUME OneView, ReaderInv, ReaderInv', PathInv, [PathNext]_pathVars
    PROVE  PathInv'
<1>1. CASE ReadNew \/ ReadAgain \/ UNCHANGED pathVars
  <2>1. ResultsInv' /\ NewData' = NewData /\ UNCHANGED <<vars, content, verifyVars>>
    <3>1. CASE ReadNew \/ ReadAgain
      BY <3>1, ReadsKeep DEF PathInv
    <3>2. CASE UNCHANGED pathVars
      <4>1. UNCHANGED <<vars, content, verifyVars>> /\ UNCHANGED <<newFile, result, issued, calls>>
        BY <3>2 DEF pathVars, vars, writeVars, readVars
      <4>2. \A x : Value(x)' = Value(x)
        BY <4>1 DEF Value
      <4>3. NewData' = NewData
        BY <4>1, <4>2 DEF NewData
      <4>4. ResultsInv'
        BY <4>1 DEF PathInv, ResultsInv
      <4> QED BY <4>1, <4>3, <4>4
    <3> QED BY <1>1, <3>1, <3>2
  <2>2. OutputInv'
    BY <2>1, OutputStep DEF PathInv
  <2>3. UNCHANGED <<rpc, newFile, content, verdict, oldPos, newPos>>
        /\ UNCHANGED <<oldBuff, tempBuff, newBuff>>
    BY <2>1 DEF vars, writeVars, reorderVars, verifyVars
  <2>4. CompareInv'
    BY <2>1, <2>3, CompareKept DEF PathInv
  <2> QED BY <2>1, <2>2, <2>4 DEF PathInv
<1>2. CASE (\E k \in Results : Write(k)) \/ ReorderFileData
  BY <1>2, WritesKeep
<1>3. CASE VerifyNewData
  BY <1>3, VerifyKeeps
<1> QED BY <1>1, <1>2, <1>3 DEF PathNext

LEMMA PathInvHolds ==
    ASSUME OneView
    PROVE  PathSpec => [](ReaderInv /\ PathInv)
<1>1. ReaderInv /\ ReaderInv' /\ PathInv /\ [PathNext]_pathVars => PathInv'
  BY PathInvStep
<1> QED BY <1>1, PathReader, PathInvInit, PTL DEF PathSpec

\* What the invariant says of the types.
LEMMA PathInvTypes ==
    ASSUME ReaderInv, PathInv
    PROVE  PathTypeOK
<1>1. TypeOK
  BY OutputInvShows DEF PathInv
<1>2. Reader!TypeOK
  BY ReaderShows
<1> QED BY <1>1, <1>2 DEF PathInv, ResultsInv, CompareInv, CompareTypes, PathTypeOK

\* Of the way of the data, for every file, chunk size, algorithm and buffer size,
\* when the output fits into a view (FileMappingIndexed): every variable keeps its
\* type, with results that come in while the file is reordered and after it.
THEOREM PathTypes ==
    ASSUME OneView
    PROVE  PathSpec => []PathTypeOK
BY PathInvHolds, PathInvTypes, PTL

\* A result is found where its index entry says until the file is replaced, whatever
\* is written after it or copied meanwhile (FileMappingChunkRW::Write), in an output
\* of one view.
THEOREM PathWrittenInPlace ==
    ASSUME OneView
    PROVE  PathSpec => []WrittenInPlace
<1>1. PathInv => WrittenInPlace
  BY OutputInvShows DEF PathInv
<1> QED BY <1>1, PathInvHolds, PTL

\* If no Write overlapped with ReorderFileData or came after it, it has copied what
\* every index entry stands for, in the order of the entries, one behind the other,
\* in an output of one view.  OnCompletion does not make sure that none does.
THEOREM PathReorderCopies ==
    ASSUME OneView
    PROVE  PathSpec => []ReorderCopies
<1>1. PathInv => ReorderCopies
  BY OutputInvShows DEF PathInv
<1> QED BY <1>1, PathInvHolds, PTL

\* In an output of one view, a write or copy leaves its view only if a Write
\* overlapped with ReorderFileData or came after it: the results of the chunks fit
\* into the file, and what was written into the copy of it.
THEOREM PathStaysInView ==
    ASSUME OneView
    PROVE  PathSpec => []StaysInView
<1>1. PathInv => StaysInView
  BY OutputInvShows DEF PathInv
<1> QED BY <1>1, PathInvHolds, PTL

\* "Data Verified" (VerifyNewData) is shown only if every byte of the output is what
\* becomes of the byte of the input, and bytes that are missing at the end repeat
\* those one buffer before them: for files, words and buffers of any length, and
\* whatever results were lost, misplaced or written while the file was reordered.
THEOREM VerifiedTheorem ==
    ASSUME OneView
    PROVE  PathSpec => []VerifiedIsOrdered
<1>1. PathInv => VerifiedIsOrdered
  BY DEF PathInv, CompareInv
<1> QED BY <1>1, PathInvHolds, PTL

\* An output that is right is not found wrong (VerifyNewData) if the input is a
\* number of whole words, although whole buffers are compared at the end, where the
\* files fill only part of them.
THEOREM OrderedTheorem ==
    ASSUME OneView
    PROVE  PathSpec => []OrderedIsVerified
<1>1. PathInv => OrderedIsVerified
  BY DEF PathInv, CompareInv
<1> QED BY <1>1, PathInvHolds, PTL

=============================================================================
