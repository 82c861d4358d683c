------------------------- MODULE LockFreeQueueProofs -------------------------
(* Theorems about LockFreeQueue, for any number of threads and elements and for  *)
(* as many calls as the tags last: no node is in two places, and the queue is one.  *)
EXTENDS LockFreeQueue, SequenceTheorems, FiniteSetTheorems, TLAPS

-----------------------------------------------------------------------------
(* The invariant *)

\* No tag comes back: each call changes a tag of a word at most twice.
TagsLast == 2 * MaxCalls + 1 < TagModulus

\* The nodes from index h on, to the end, following the links nx.
Linked(nx, h, s) ==
    /\ s \in Seq(Nodes) /\ IsInjective(s)
    /\ h = IF s = <<>> THEN null_handle ELSE s[1]
    /\ \A i \in 1 .. Len(s) : nx[s[i]].index = IF i = Len(s) THEN null_handle ELSE s[i + 1]

EndOf(q, n) == n \in ToSet(q) /\ next[n].index = null_handle

Lists(q, f) ==
    /\ Linked(next, head_.index, q) /\ tail_.index \in ToSet(q)
    /\ Linked(next, pool_.index, f)
    /\ ToSet(q) \cap ToSet(f) = {}

Owners == {t \in Threads : local[t].pc \in Owns}

Owned(q, f) ==
    /\ \A t \in Owners : /\ local[t].n \in Nodes
                         /\ local[t].n \notin ToSet(q) /\ local[t].n \notin ToSet(f)
    /\ \A t, u \in Owners : local[t].n = local[u].n => t = u
    /\ \A n \in Nodes : \/ n \in ToSet(q) \/ n \in ToSet(f)
                        \/ \E t \in Owners : local[t].n = n

\* What a thread with the local variables l knows while it allocates a node: the
\* first free node it read is still free, and links to the same node, as long as
\* none was allocated.
AllocInv(l, f) ==
    l.pc \in {"allocNext", "allocCas"} =>
      /\ l.first.index \in Nodes /\ l.first.tag <= pool_.tag
      /\ l.first.tag = pool_.tag =>
           /\ l.first.index \in ToSet(f)
           /\ l.pc = "allocCas" => next[l.first.index].index = l.after.index

\* While it links its node: a node that was the last, read with the tail
\* unchanged, is still the last if its link was not changed; a is how often it was.
PushInv(l, q, a) ==
    /\ l.pc = "constructNext" => next[l.n].tag = l.after.tag
    /\ l.pc \in {"pushNext", "pushCheck", "pushLink", "pushHelp", "pushSwing"} =>
         l.first.index \in Nodes /\ l.first.tag <= tail_.tag
    /\ l.pc \in {"pushTail", "pushNext", "pushCheck", "pushLink", "pushHelp"} =>
         next[l.n].index = null_handle
    /\ l.pc \in {"pushCheck", "pushHelp"} /\ tail_ = l.first /\ l.after.index # null_handle =>
         next[l.first.index].index = l.after.index
    /\ l.pc = "pushHelp" => l.after.index # null_handle
    /\ l.pc = "pushLink" => l.after.index = null_handle
    /\ l.pc \in {"pushCheck", "pushLink"} =>
         next[l.first.index].tag = (l.after.tag + a) % TagModulus
    /\ l.pc = "pushCheck" /\ tail_ = l.first /\ l.after.index = null_handle /\ a = 0 =>
         EndOf(q, l.first.index)
    /\ l.pc = "pushLink" /\ a = 0 => EndOf(q, l.first.index)
    /\ l.pc = "pushSwing" => l.n \in Nodes
    /\ l.pc = "pushSwing" /\ tail_ = l.first => next[l.first.index].index = l.n

\* While it takes a node out: as long as the head is what it read, the head links to
\* the node it read, and is not the last node once that was seen.
PopInv(l) ==
    /\ l.pc \in {"popTail", "popNext", "popCheck", "popHelp", "popData", "popCas"} =>
         l.first.index \in Nodes /\ l.first.tag <= head_.tag
    /\ l.pc \in {"popNext", "popCheck", "popHelp"} => l.second.tag <= tail_.tag
    /\ l.pc \in {"popNext", "popCheck"} /\ head_ = l.first /\ l.second.index # l.first.index =>
         tail_.index # head_.index
    /\ l.pc \in {"popCheck", "popData", "popCas"} /\ head_ = l.first
         /\ l.after.index # null_handle => next[l.first.index].index = l.after.index
    /\ l.pc \in {"popData", "popCas", "popHelp"} => l.after.index # null_handle
    /\ l.pc \in {"popData", "popCas"} /\ head_ = l.first => tail_.index # head_.index
    /\ l.pc \in {"popCheck", "popHelp"} /\ tail_ = l.second /\ l.second.index = l.first.index
         /\ l.after.index # null_handle => next[l.first.index].index = l.after.index
    /\ l.pc = "popHelp" => l.second.index = l.first.index
    /\ l.pc = "freeCas" => next[l.n].index = l.first.index

ThreadInv(l, q, f, a) == AllocInv(l, f) /\ PushInv(l, q, a) /\ PopInv(l)

\* The calls that may still allocate, construct, link or take a node.
Allocating == {"allocate", "allocNext", "allocCas"}
Building == Allocating \cup {"construct", "constructNext"}
Linking == PushPlaces \ {"pushSwing"}
Taking == PopPlaces \ FreePlaces

In(S) == {t \in Threads : local[t].pc \in S}
Count(S) == Cardinality(In(S))

\* w is how often links were changed, at most.
Counts(q, w) ==
    /\ IsFiniteSet({t \in Threads : local[t].pc # "idle"})
    /\ pool_.tag + Count(Allocating) <= 1 + calls
    /\ head_.tag + Count(Taking) <= calls
    /\ w + Count(Building) + Count(Linking) <= 2 * calls
    /\ \E p \in 1 .. Len(q) :
         q[p] = tail_.index /\ tail_.tag + (Len(q) - p) + Count(Linking) <= calls

QueueInv(q, f, w) ==
    /\ TypeOK /\ Lists(q, f) /\ Owned(q, f) /\ w \in Nat /\ Counts(q, w)
    /\ \A t \in Threads : \E a \in 0 .. w : ThreadInv(local[t], q, f, a)

NodesInv == \E q, f, w : QueueInv(q, f, w)

-----------------------------------------------------------------------------
(* Lists of nodes *)

LEMMA ConstantsAre ==
    /\ Capacity \in Nat \ {0} /\ TagModulus \in Nat \ {0} /\ MaxCalls \in Nat
    /\ NodeCount \in Nat /\ NodeCount = Capacity + 1 /\ null_handle = NodeCount
    /\ null_handle \notin Nodes /\ Nodes = 0 .. Capacity
    /\ \A i \in 0 .. NodeCount : i # null_handle => i \in Nodes
BY QueueAssumption DEF NodeCount, null_handle, Nodes

LEMMA LinkedIs ==
    ASSUME NEW nx, NEW h, NEW s, Linked(nx, h, s)
    PROVE  /\ Len(s) \in Nat /\ DOMAIN s = 1 .. Len(s) /\ (s = <<>> <=> Len(s) = 0)
           /\ \A i \in 1 .. Len(s) : s[i] \in Nodes
           /\ \A n : n \in ToSet(s) <=> \E i \in 1 .. Len(s) : s[i] = n
           /\ \A i, j \in 1 .. Len(s) : s[i] = s[j] => i = j
           /\ ToSet(s) \subseteq Nodes
           /\ h # null_handle => s # <<>> /\ h = s[1] /\ h \in ToSet(s)
           /\ s # <<>> => h = s[1] /\ h \in ToSet(s)
<1>1. s \in Seq(Nodes) /\ IsInjective(s) /\ h = IF s = <<>> THEN null_handle ELSE s[1]
  BY DEF Linked
<1>2. Len(s) \in Nat /\ DOMAIN s = 1 .. Len(s) /\ \A i \in 1 .. Len(s) : s[i] \in Nodes
  BY <1>1, LenProperties, ElementOfSeq
<1>3. s = <<>> <=> Len(s) = 0
  BY <1>1, EmptySeq
<1>4. \A n : n \in ToSet(s) <=> \E i \in 1 .. Len(s) : s[i] = n
  BY <1>2 DEF ToSet
<1>5. \A i, j \in 1 .. Len(s) : s[i] = s[j] => i = j
  BY <1>1, <1>2 DEF IsInjective
<1>6. ToSet(s) \subseteq Nodes
  BY <1>2, <1>4
<1>7. s # <<>> => 1 \in 1 .. Len(s)
  BY <1>2, <1>3
<1> QED BY <1>1, <1>2, <1>3, <1>4, <1>5, <1>6, <1>7

\* The links of other nodes do not matter.
LEMMA LinkedKept ==
    ASSUME NEW nx, NEW ny, NEW h, NEW s, Linked(nx, h, s),
           \A n \in ToSet(s) : ny[n].index = nx[n].index
    PROVE  Linked(ny, h, s)
<1>1. \A i \in 1 .. Len(s) : s[i] \in ToSet(s)
  BY LinkedIs
<1> QED BY <1>1 DEF Linked

\* What a node of a list links to is in it.
LEMMA LinkInList ==
    ASSUME NEW nx, NEW h, NEW s, Linked(nx, h, s), NEW i \in 1 .. Len(s)
    PROVE  /\ nx[s[i]].index = null_handle <=> i = Len(s)
           /\ i # Len(s) => i + 1 \in 1 .. Len(s) /\ nx[s[i]].index = s[i + 1]
           /\ nx[s[i]].index # null_handle => nx[s[i]].index \in ToSet(s)
<1>1. /\ Len(s) \in Nat /\ \A j \in 1 .. Len(s) : s[j] \in Nodes
      /\ \A n : n \in ToSet(s) <=> \E j \in 1 .. Len(s) : s[j] = n
  BY LinkedIs
<1>2. nx[s[i]].index = IF i = Len(s) THEN null_handle ELSE s[i + 1]
  BY DEF Linked
<1>3. i # Len(s) => i + 1 \in 1 .. Len(s)
  BY <1>1
<1> QED BY <1>1, <1>2, <1>3, ConstantsAre

LEMMA LinkedTake ==
    ASSUME NEW nx, NEW h, NEW s, Linked(nx, h, s), s # <<>>
    PROVE  /\ Linked(nx, nx[h].index, Tail(s)) /\ ToSet(Tail(s)) = ToSet(s) \ {h}
           /\ Len(Tail(s)) = Len(s) - 1
           /\ \A i \in 1 .. Len(Tail(s)) : Tail(s)[i] = s[i + 1]
<1> DEFINE n == Len(s)
           t == Tail(s)
<1>1. /\ n \in Nat /\ (s = <<>> <=> n = 0) /\ DOMAIN s = 1 .. n /\ h = s[1]
      /\ \A i \in 1 .. n : s[i] \in Nodes
      /\ \A m : m \in ToSet(s) <=> \E i \in 1 .. n : s[i] = m
      /\ \A i, j \in 1 .. n : s[i] = s[j] => i = j
  BY LinkedIs
<1>2. s \in Seq(Nodes) /\ \A i \in 1 .. n : nx[s[i]].index = IF i = n THEN null_handle ELSE s[i + 1]
  BY DEF Linked
<1>3. /\ t \in Seq(Nodes) /\ Len(t) = n - 1 /\ \A i \in 1 .. (n - 1) : t[i] = s[i + 1]
  <2>1. /\ t \in Seq(Nodes) /\ Len(t) = n - 1
        /\ \A i \in 1 .. Len(t) : t[i] = s[i + 1]
    BY <1>2, HeadTailProperties
  <2> QED BY <2>1
<1> HIDE DEF n, t
<1>4. n # 0 /\ n - 1 \in Nat /\ DOMAIN t = 1 .. (n - 1) /\ (t = <<>> <=> n - 1 = 0)
  BY <1>1, <1>3, LenProperties, EmptySeq
<1>5. IsInjective(t)
  <2> SUFFICES ASSUME NEW i \in 1 .. (n - 1), NEW j \in 1 .. (n - 1), t[i] = t[j] PROVE i = j
    BY <1>4 DEF IsInjective
  <2>1. i + 1 \in 1 .. n /\ j + 1 \in 1 .. n /\ s[i + 1] = s[j + 1]
    BY <1>1, <1>3
  <2>2. i + 1 = j + 1
    BY <1>1, <2>1
  <2> QED BY <2>2
<1>6. nx[h].index = IF t = <<>> THEN null_handle ELSE t[1]
  <2>1. nx[s[1]].index = IF 1 = n THEN null_handle ELSE s[1 + 1]
    BY <1>1, <1>2, <1>4
  <2>2. t # <<>> => 1 \in 1 .. (n - 1)
    BY <1>4
  <2>3. t = <<>> <=> 1 = n
    BY <1>1, <1>4
  <2> QED BY <1>1, <1>3, <2>1, <2>2, <2>3
<1>7. \A i \in 1 .. (n - 1) : nx[t[i]].index = IF i = n - 1 THEN null_handle ELSE t[i + 1]
  <2> SUFFICES ASSUME NEW i \in 1 .. (n - 1)
               PROVE  nx[t[i]].index = IF i = n - 1 THEN null_handle ELSE t[i + 1]
    OBVIOUS
  <2>1. i + 1 \in 1 .. n /\ (i + 1 = n <=> i = n - 1) /\ t[i] = s[i + 1]
    BY <1>1, <1>3
  <2>2. nx[s[i + 1]].index = IF i + 1 = n THEN null_handle ELSE s[i + 1 + 1]
    BY <1>2, <2>1
  <2>3. i # n - 1 => t[i + 1] = s[i + 1 + 1]
    <3>1. i # n - 1 => i + 1 \in 1 .. (n - 1)
      BY <1>1
    <3> QED BY <1>3, <3>1
  <2> QED BY <2>1, <2>2, <2>3
<1>8. Linked(nx, nx[h].index, t)
  BY <1>3, <1>5, <1>6, <1>7 DEF Linked
<1>9. ToSet(t) = ToSet(s) \ {h}
  <2>1. 1 \in 1 .. n
    BY <1>1, <1>4
  <2>2. ASSUME NEW m \in ToSet(s), m # h PROVE m \in ToSet(t)
    <3>1. PICK i \in 1 .. n : s[i] = m
      BY <1>1
    <3>2. i - 1 \in DOMAIN t /\ i - 1 + 1 = i /\ i - 1 \in 1 .. (n - 1)
      BY <1>1, <1>4, <2>2, <3>1
    <3>3. t[i - 1] = m
      BY <1>3, <3>1, <3>2
    <3> QED BY <3>2, <3>3 DEF ToSet
  <2>3. ASSUME NEW m \in ToSet(t) PROVE m \in ToSet(s) /\ m # h
    <3>1. PICK i \in 1 .. (n - 1) : t[i] = m
      BY <1>4 DEF ToSet
    <3>2. i + 1 \in 1 .. n /\ i + 1 # 1 /\ s[i + 1] = m
      BY <1>1, <1>3, <3>1
    <3> QED BY <1>1, <2>1, <3>2
  <2> QED BY <2>2, <2>3
<1> QED BY <1>3, <1>8, <1>9 DEF n, t

LEMMA LinkedPush ==
    ASSUME NEW nx, NEW h, NEW s, Linked(nx, h, s),
           NEW n \in Nodes, n \notin ToSet(s), nx[n].index = h
    PROVE  Linked(nx, n, <<n>> \o s) /\ ToSet(<<n>> \o s) = ToSet(s) \cup {n}
<1> DEFINE k == Len(s)
           t == <<n>> \o s
<1>1. /\ k \in Nat /\ (s = <<>> <=> k = 0) /\ DOMAIN s = 1 .. k
      /\ \A i \in 1 .. k : s[i] \in Nodes
      /\ \A m : m \in ToSet(s) <=> \E i \in 1 .. k : s[i] = m
      /\ \A i, j \in 1 .. k : s[i] = s[j] => i = j
  BY LinkedIs
<1>2. /\ s \in Seq(Nodes) /\ h = IF s = <<>> THEN null_handle ELSE s[1]
      /\ \A i \in 1 .. k : nx[s[i]].index = IF i = k THEN null_handle ELSE s[i + 1]
  BY DEF Linked
<1>3. /\ t \in Seq(Nodes) /\ Len(t) = k + 1 /\ DOMAIN t = 1 .. (k + 1)
      /\ \A i \in 1 .. (k + 1) : t[i] = IF i = 1 THEN n ELSE s[i - 1]
  <2>1. <<n>> \in Seq(Nodes) /\ Len(<<n>>) = 1 /\ <<n>>[1] = n
    OBVIOUS
  <2>2. /\ t \in Seq(Nodes) /\ Len(t) = Len(<<n>>) + k
        /\ \A i \in 1 .. (Len(<<n>>) + k) : t[i] = IF i <= Len(<<n>>) THEN <<n>>[i]
                                                    ELSE s[i - Len(<<n>>)]
    BY <1>2, <2>1, ConcatProperties
  <2>3. 1 + k = k + 1
    BY <1>1
  <2>4. Len(t) = k + 1 /\ DOMAIN t = 1 .. (k + 1)
    BY <2>1, <2>2, <2>3, LenProperties
  <2>5. \A i \in 1 .. (k + 1) : t[i] = IF i = 1 THEN n ELSE s[i - 1]
    <3> HIDE DEF t
    <3> SUFFICES ASSUME NEW i \in 1 .. (k + 1) PROVE t[i] = IF i = 1 THEN n ELSE s[i - 1]
      OBVIOUS
    <3>1. t[i] = IF i <= 1 THEN <<n>>[i] ELSE s[i - 1]
      BY <2>1, <2>2, <2>3
    <3> QED BY <1>1, <2>1, <3>1
  <2> QED BY <2>2, <2>4, <2>5
<1>4. \A i \in 1 .. k : s[i] # n
  BY <1>1
<1> HIDE DEF k, t
<1>5. IsInjective(t)
  <2> SUFFICES ASSUME NEW i \in 1 .. (k + 1), NEW j \in 1 .. (k + 1), t[i] = t[j] PROVE i = j
    BY <1>3 DEF IsInjective
  <2>1. i # 1 => i - 1 \in 1 .. k
    BY <1>1
  <2>2. j # 1 => j - 1 \in 1 .. k
    BY <1>1
  <2>3. CASE i = 1 \/ j = 1
    BY <1>3, <1>4, <2>1, <2>2, <2>3
  <2>4. CASE i # 1 /\ j # 1
    <3>1. s[i - 1] = s[j - 1]
      BY <1>3, <2>4
    <3>2. i - 1 = j - 1
      BY <1>1, <2>1, <2>2, <2>4, <3>1
    <3> QED BY <3>2
  <2> QED BY <2>3, <2>4
<1>6. \A i \in 1 .. (k + 1) : nx[t[i]].index = IF i = k + 1 THEN null_handle ELSE t[i + 1]
  <2> SUFFICES ASSUME NEW i \in 1 .. (k + 1)
               PROVE  nx[t[i]].index = IF i = k + 1 THEN null_handle ELSE t[i + 1]
    OBVIOUS
  <2>1. i # k + 1 => i + 1 \in 1 .. (k + 1) /\ i + 1 # 1 /\ i + 1 - 1 = i
    BY <1>1
  <2>2. i # k + 1 => t[i + 1] = s[i]
    BY <1>3, <2>1
  <2>3. CASE i = 1
    BY <1>1, <1>2, <1>3, <2>2, <2>3
  <2>4. CASE i # 1
    <3>1. i - 1 \in 1 .. k /\ t[i] = s[i - 1] /\ i - 1 + 1 = i /\ (i - 1 = k <=> i = k + 1)
      BY <1>1, <1>3, <2>4
    <3> QED BY <1>2, <2>2, <3>1
  <2> QED BY <2>3, <2>4
<1>7. t # <<>> /\ t[1] = n
  <2>1. 1 \in 1 .. (k + 1) /\ k + 1 # 0
    BY <1>1
  <2> QED BY <1>3, <2>1, EmptySeq
<1>8. Linked(nx, n, t)
  BY <1>3, <1>5, <1>6, <1>7 DEF Linked
<1>9. ToSet(t) = ToSet(s) \cup {n}
  <2>1. ASSUME NEW m \in ToSet(t) PROVE m \in ToSet(s) \cup {n}
    <3>1. PICK i \in 1 .. (k + 1) : m = t[i]
      BY <1>3 DEF ToSet
    <3>2. i # 1 => i - 1 \in 1 .. k
      BY <1>1
    <3> QED BY <1>1, <1>3, <3>1, <3>2
  <2>2. ASSUME NEW m \in ToSet(s) PROVE m \in ToSet(t)
    <3>1. PICK i \in 1 .. k : s[i] = m
      BY <1>1
    <3>2. i + 1 \in 1 .. (k + 1) /\ i + 1 # 1 /\ i + 1 - 1 = i
      BY <1>1
    <3>3. t[i + 1] = m
      BY <1>3, <3>1, <3>2
    <3> QED BY <1>3, <3>2, <3>3 DEF ToSet
  <2>3. n \in ToSet(t)
    <3>1. 1 \in 1 .. (k + 1)
      BY <1>1
    <3> QED BY <1>3, <3>1 DEF ToSet
  <2> QED BY <2>1, <2>2, <2>3
<1> QED BY <1>8, <1>9 DEF t

LEMMA LinkedAppend ==
    ASSUME NEW nx, NEW h, NEW s, Linked(nx, h, s),
           NEW last \in ToSet(s), nx[last].index = null_handle,
           NEW n \in Nodes, n \notin ToSet(s), nx[n].index = null_handle,
           NEW ny, ny[last].index = n, \A m \in Nodes : m # last => ny[m] = nx[m]
    PROVE  /\ Linked(ny, h, Append(s, n)) /\ ToSet(Append(s, n)) = ToSet(s) \cup {n}
           /\ Len(Append(s, n)) = Len(s) + 1
           /\ \A i \in 1 .. Len(s) : Append(s, n)[i] = s[i]
<1> DEFINE k == Len(s)
           t == Append(s, n)
<1>1. /\ k \in Nat /\ (s = <<>> <=> k = 0) /\ DOMAIN s = 1 .. k
      /\ \A i \in 1 .. k : s[i] \in Nodes
      /\ \A m : m \in ToSet(s) <=> \E i \in 1 .. k : s[i] = m
      /\ \A i, j \in 1 .. k : s[i] = s[j] => i = j
      /\ ToSet(s) \subseteq Nodes
  BY LinkedIs
<1>2. /\ s \in Seq(Nodes) /\ h = IF s = <<>> THEN null_handle ELSE s[1]
      /\ \A i \in 1 .. k : nx[s[i]].index = IF i = k THEN null_handle ELSE s[i + 1]
  BY DEF Linked
<1>3. /\ t \in Seq(Nodes) /\ Len(t) = k + 1
      /\ \A i \in 1 .. k : t[i] = s[i]
      /\ t[k + 1] = n
  BY <1>2, AppendProperties
<1>4. DOMAIN t = 1 .. (k + 1)
  BY <1>3, LenProperties
<1>5. k # 0 /\ last = s[k]
  <2>1. PICK i \in 1 .. k : s[i] = last
    BY <1>1
  <2>2. i = k
    BY <2>1, LinkInList
  <2> QED BY <1>1, <2>1, <2>2
<1>6. ny[last].index = n /\ \A m \in Nodes : m # last => ny[m] = nx[m]
  OBVIOUS
<1> HIDE DEF k, t
<1>7. IsInjective(t)
  <2> SUFFICES ASSUME NEW i \in 1 .. (k + 1), NEW j \in 1 .. (k + 1), t[i] = t[j] PROVE i = j
    BY <1>4 DEF IsInjective
  <2>1. i # k + 1 => i \in 1 .. k
    BY <1>1
  <2>2. j # k + 1 => j \in 1 .. k
    BY <1>1
  <2> QED BY <1>1, <1>3, <2>1, <2>2
<1>8. \A i \in 1 .. (k + 1) : ny[t[i]].index = IF i = k + 1 THEN null_handle ELSE t[i + 1]
  <2> SUFFICES ASSUME NEW i \in 1 .. (k + 1)
               PROVE  ny[t[i]].index = IF i = k + 1 THEN null_handle ELSE t[i + 1]
    OBVIOUS
  <2>1. CASE i = k + 1
    BY <1>1, <1>3, <1>6, <2>1
  <2>2. CASE i = k
    BY <1>1, <1>3, <1>5, <1>6, <2>2
  <2>3. CASE i # k + 1 /\ i # k
    <3>1. i \in 1 .. k /\ i + 1 \in 1 .. k /\ k \in 1 .. k
      BY <1>1, <1>5, <2>3
    <3>2. t[i] = s[i] /\ t[i + 1] = s[i + 1] /\ s[i] # last /\ s[i] \in Nodes
      BY <1>1, <1>3, <1>5, <2>3, <3>1
    <3> QED BY <1>2, <1>6, <2>3, <3>1, <3>2
  <2> QED BY <2>1, <2>2, <2>3
<1>9. Linked(ny, h, t)
  <2>1. t # <<>> /\ s # <<>> /\ t[1] = s[1]
    <3>1. 1 \in 1 .. k /\ k + 1 # 0
      BY <1>1, <1>5
    <3> QED BY <1>1, <1>3, <1>5, <3>1, EmptySeq
  <2> QED BY <1>2, <1>3, <1>7, <1>8, <2>1 DEF Linked
<1>10. ToSet(t) = ToSet(s) \cup {n}
  <2>1. ASSUME NEW m \in ToSet(t) PROVE m \in ToSet(s) \cup {n}
    <3>1. PICK i \in 1 .. (k + 1) : m = t[i]
      BY <1>4 DEF ToSet
    <3>2. i # k + 1 => i \in 1 .. k
      BY <1>1
    <3> QED BY <1>1, <1>3, <3>1, <3>2
  <2>2. ASSUME NEW m \in ToSet(s) PROVE m \in ToSet(t)
    <3>1. PICK i \in 1 .. k : s[i] = m
      BY <1>1
    <3>2. i \in 1 .. (k + 1) /\ t[i] = m
      BY <1>1, <1>3, <3>1
    <3> QED BY <1>4, <3>2 DEF ToSet
  <2>3. n \in ToSet(t)
    <3>1. k + 1 \in 1 .. (k + 1)
      BY <1>1
    <3> QED BY <1>3, <1>4, <3>1 DEF ToSet
  <2> QED BY <2>1, <2>2, <2>3
<1> QED BY <1>3, <1>9, <1>10 DEF k, t

-----------------------------------------------------------------------------
(* Tags *)

LEMMA ModUpTo ==
    ASSUME NEW x \in Nat, x < 2 * TagModulus
    PROVE  x % TagModulus = IF x < TagModulus THEN x ELSE x - TagModulus
<1>1. TagModulus \in Nat \ {0}
  BY ConstantsAre
<1>2. ASSUME NEW m \in Nat \ {0}, NEW y \in 0 .. (m - 1) PROVE y % m = y
  OBVIOUS
<1>3. ASSUME NEW m \in Nat \ {0}, NEW y \in m .. (2 * m - 1) PROVE y % m = y - m
  OBVIOUS
<1>4. CASE x < TagModulus
  <2>1. x \in 0 .. (TagModulus - 1)
    BY <1>1, <1>4
  <2> QED BY <1>1, <1>2, <1>4, <2>1
<1>5. CASE ~(x < TagModulus)
  <2>1. x \in TagModulus .. (2 * TagModulus - 1)
    BY <1>1, <1>5
  <2> QED BY <1>1, <1>3, <1>5, <2>1
<1> QED BY <1>4, <1>5

\* A tag that is what it was has not been changed.
LEMMA TagSame ==
    ASSUME NEW tag \in 0 .. (TagModulus - 1), NEW a \in Nat, a < TagModulus,
           (tag + a) % TagModulus = tag
    PROVE  a = 0
<1>1. TagModulus \in Nat \ {0}
  BY ConstantsAre
<1>2. (tag + a) % TagModulus = IF tag + a < TagModulus THEN tag + a ELSE tag + a - TagModulus
  BY <1>1, ModUpTo
<1> QED BY <1>1, <1>2

LEMMA TagStep ==
    ASSUME NEW tag \in 0 .. (TagModulus - 1), NEW a \in Nat, a + 1 < TagModulus
    PROVE  (((tag + a) % TagModulus) + 1) % TagModulus = (tag + (a + 1)) % TagModulus
<1>1. TagModulus \in Nat \ {0}
  BY ConstantsAre
<1>2. (tag + a) % TagModulus = IF tag + a < TagModulus THEN tag + a ELSE tag + a - TagModulus
  BY <1>1, ModUpTo
<1>3. (tag + (a + 1)) % TagModulus
        = IF tag + a + 1 < TagModulus THEN tag + a + 1 ELSE tag + a + 1 - TagModulus
  BY <1>1, ModUpTo
<1> DEFINE r == (tag + a) % TagModulus
<1>4. r \in 0 .. (TagModulus - 1)
  BY <1>1, <1>2
<1>5. (r + 1) % TagModulus = IF r + 1 < TagModulus THEN r + 1 ELSE r + 1 - TagModulus
  <2>1. r + 1 \in Nat /\ r + 1 < 2 * TagModulus
    BY <1>1, <1>4
  <2>2. PICK x \in Nat : x = r + 1 /\ x < 2 * TagModulus
    BY <2>1
  <2>3. x % TagModulus = IF x < TagModulus THEN x ELSE x - TagModulus
    BY <2>2, ModUpTo
  <2> HIDE DEF r
  <2> QED BY <1>1, <1>4, <2>2, <2>3
<1> QED BY <1>1, <1>2, <1>3, <1>4, <1>5

LEMMA HandleIs ==
    ASSUME NEW i \in 0 .. NodeCount, NEW h \in tagged_index
    PROVE  /\ Handle(i, get_next_tag(h)) \in tagged_index
           /\ Handle(i, h.tag) \in tagged_index
           /\ Handle(i, get_next_tag(h)).index = i
           /\ Handle(i, h.tag).index = i /\ Handle(i, h.tag).tag = h.tag
           /\ Handle(i, get_next_tag(h)).tag = (h.tag + 1) % TagModulus
           /\ h.tag + 1 < TagModulus => Handle(i, get_next_tag(h)).tag = h.tag + 1
<1>1. TagModulus \in Nat \ {0} /\ h.tag \in 0 .. (TagModulus - 1)
  BY ConstantsAre DEF tagged_index
<1>2. (h.tag + 1) % TagModulus = IF h.tag + 1 < TagModulus THEN h.tag + 1 ELSE h.tag + 1 - TagModulus
  BY <1>1, ModUpTo
<1>3. (h.tag + 1) % TagModulus \in 0 .. (TagModulus - 1)
  BY <1>1, <1>2
<1> QED BY <1>1, <1>2, <1>3 DEF Handle, get_next_tag, tagged_index

-----------------------------------------------------------------------------
(* Threads *)

Locals ==
    [pc : {"idle"} \cup PushPlaces \cup PopPlaces,
     arg : 0 .. MaxCalls, n : 0 .. NodeCount, first : tagged_index,
     second : tagged_index, after : tagged_index]

Busy == {t \in Threads : local[t].pc # "idle"}

LEMMA CountIs ==
    ASSUME NEW S, "idle" \notin S, IsFiniteSet(Busy)
    PROVE  IsFiniteSet(In(S)) /\ Count(S) \in Nat
<1>1. In(S) \subseteq Busy
  BY DEF In, Busy
<1> QED BY <1>1, FS_Subset, FS_CardinalityType DEF Count

\* A thread that goes from one place to another is in one set and the other.
LEMMA CountMoves ==
    ASSUME NEW S, "idle" \notin S, IsFiniteSet(Busy), local \in [Threads -> Locals],
           NEW t \in Threads, NEW l, local' = [local EXCEPT ![t] = l]
    PROVE  /\ Count(S) \in Nat /\ Count(S)' \in Nat
           /\ (l.pc \in S <=> local[t].pc \in S) => Count(S)' = Count(S)
           /\ l.pc \notin S /\ local[t].pc \in S => Count(S)' = Count(S) - 1
           /\ l.pc \in S /\ local[t].pc \notin S => Count(S)' = Count(S) + 1
<1>1. IsFiniteSet(In(S)) /\ Count(S) \in Nat
  BY CountIs
<1>2. local'[t] = l /\ \A u \in Threads : u # t => local'[u] = local[u]
  OBVIOUS
<1>3. CASE l.pc \in S <=> local[t].pc \in S
  <2>1. In(S)' = In(S)
    BY <1>2, <1>3 DEF In
  <2> QED BY <1>1, <1>3, <2>1 DEF Count
<1>4. CASE l.pc \notin S /\ local[t].pc \in S
  <2>1. In(S)' = In(S) \ {t} /\ t \in In(S)
    BY <1>2, <1>4 DEF In
  <2>2. Cardinality(In(S) \ {t}) = Cardinality(In(S)) - 1 /\ Cardinality(In(S) \ {t}) \in Nat
    BY <1>1, <2>1, FS_RemoveElement, FS_CardinalityType
  <2> QED BY <1>1, <1>4, <2>1, <2>2 DEF Count
<1>5. CASE l.pc \in S /\ local[t].pc \notin S
  <2>1. In(S)' = In(S) \cup {t} /\ t \notin In(S)
    BY <1>2, <1>5 DEF In
  <2>2. Cardinality(In(S) \cup {t}) = Cardinality(In(S)) + 1
    BY <1>1, <2>1, FS_AddElement
  <2> QED BY <1>1, <1>5, <2>1, <2>2 DEF Count
<1> QED BY <1>1, <1>3, <1>4, <1>5

LEMMA BusyMoves ==
    ASSUME IsFiniteSet(Busy), NEW t \in Threads, local \in [Threads -> Locals],
           NEW l, local' = [local EXCEPT ![t] = l]
    PROVE  IsFiniteSet(Busy)'
<1>1. Busy' \subseteq Busy \cup {t}
  BY DEF Busy
<1>2. IsFiniteSet(Busy \cup {t})
  BY FS_AddElement
<1> QED BY <1>1, <1>2, FS_Subset


-----------------------------------------------------------------------------
(* The parts of the invariant after a step *)

LEMMA InvIs ==
    ASSUME NEW q, NEW f, NEW w, QueueInv(q, f, w), TagsLast
    PROVE  /\ local \in [Threads -> Locals] /\ IsFiniteSet(Busy)
           /\ head_ \in tagged_index /\ tail_ \in tagged_index /\ pool_ \in tagged_index
           /\ next \in [Nodes -> tagged_index] /\ data \in [Nodes -> 0 .. MaxCalls]
           /\ answer \in [Threads -> 0 .. MaxCalls]
           /\ calls \in 0 .. MaxCalls /\ MaxCalls \in Nat /\ w \in Nat
           /\ \A h \in tagged_index : h.index \in 0 .. NodeCount /\ h.tag \in 0 .. (TagModulus - 1)
           /\ 2 * MaxCalls + 1 < TagModulus /\ TagModulus \in Nat
           /\ Count(Allocating) \in Nat /\ Count(Taking) \in Nat
           /\ Count(Building) \in Nat /\ Count(Linking) \in Nat
           /\ w <= 2 * calls /\ w + 1 < TagModulus
<1>1. /\ local \in [Threads -> Locals] /\ head_ \in tagged_index /\ tail_ \in tagged_index
      /\ pool_ \in tagged_index /\ next \in [Nodes -> tagged_index]
      /\ data \in [Nodes -> 0 .. MaxCalls] /\ answer \in [Threads -> 0 .. MaxCalls]
      /\ calls \in 0 .. MaxCalls /\ w \in Nat
  BY DEF QueueInv, TypeOK, Locals
<1>2. IsFiniteSet(Busy) /\ w + Count(Building) + Count(Linking) <= 2 * calls
  BY DEF QueueInv, Counts, Busy
<1>3. /\ "idle" \notin Allocating /\ "idle" \notin Building
      /\ "idle" \notin Linking /\ "idle" \notin Taking
  BY DEF Allocating, Building, Linking, Taking, PushPlaces, PopPlaces, FreePlaces
<1>4. /\ Count(Allocating) \in Nat /\ Count(Taking) \in Nat
      /\ Count(Building) \in Nat /\ Count(Linking) \in Nat
  BY <1>2, <1>3, CountIs
<1>5. \A h \in tagged_index : h.index \in 0 .. NodeCount /\ h.tag \in 0 .. (TagModulus - 1)
  BY DEF tagged_index
<1>6. MaxCalls \in Nat /\ TagModulus \in Nat /\ 2 * MaxCalls + 1 < TagModulus
  BY ConstantsAre DEF TagsLast
<1>7. w <= 2 * calls /\ w + 1 < TagModulus
  BY <1>1, <1>2, <1>4, <1>6
<1> QED BY <1>1, <1>2, <1>4, <1>5, <1>6, <1>7

\* Ownership, when a thread keeps, gets or gives away its node.
LEMMA OwnedKept ==
    ASSUME NEW q, NEW f, NEW p, NEW e, Owned(q, f), local \in [Threads -> Locals],
           NEW t \in Threads, NEW l, local' = [local EXCEPT ![t] = l],
           l.pc \in Owns <=> local[t].pc \in Owns, l.pc \in Owns => l.n = local[t].n,
           ToSet(p) \cup ToSet(e) = ToSet(q) \cup ToSet(f)
    PROVE  Owned(p, e)'
<1>1. local'[t] = l /\ \A u \in Threads : u # t => local'[u] = local[u]
  OBVIOUS
<1>2. Owners' = Owners /\ \A u \in Owners : local'[u].n = local[u].n
  BY <1>1 DEF Owners
<1> QED BY <1>2 DEF Owned

LEMMA OwnedTaken ==
    ASSUME NEW q, NEW f, NEW p, NEW e, Owned(q, f), local \in [Threads -> Locals],
           NEW t \in Threads, NEW l, local' = [local EXCEPT ![t] = l],
           l.pc \in Owns, local[t].pc \notin Owns,
           l.n \in Nodes, l.n \in ToSet(q) \cup ToSet(f),
           ToSet(p) \cup ToSet(e) = (ToSet(q) \cup ToSet(f)) \ {l.n}
    PROVE  Owned(p, e)'
<1>1. local'[t] = l /\ \A u \in Threads : u # t => local'[u] = local[u]
  OBVIOUS
<1>2. Owners' = Owners \cup {t} /\ t \notin Owners /\ \A u \in Owners : local'[u] = local[u]
  BY <1>1 DEF Owners
<1>3. \A u \in Owners : local[u].n # l.n
  BY DEF Owned
<1>4. \A u \in Owners' : /\ local'[u].n \in Nodes
                         /\ local'[u].n \notin ToSet(p) /\ local'[u].n \notin ToSet(e)
  BY <1>1, <1>2 DEF Owned
<1>5. \A u, v \in Owners' : local'[u].n = local'[v].n => u = v
  BY <1>1, <1>2, <1>3 DEF Owned
<1>6. \A n \in Nodes : n \in ToSet(p) \/ n \in ToSet(e) \/ \E u \in Owners' : local'[u].n = n
  BY <1>1, <1>2 DEF Owned
<1> QED BY <1>4, <1>5, <1>6 DEF Owned

LEMMA OwnedGiven ==
    ASSUME NEW q, NEW f, NEW p, NEW e, Owned(q, f), local \in [Threads -> Locals],
           NEW t \in Threads, NEW l, local' = [local EXCEPT ![t] = l],
           l.pc \notin Owns, local[t].pc \in Owns,
           ToSet(p) \cup ToSet(e) = ToSet(q) \cup ToSet(f) \cup {local[t].n}
    PROVE  Owned(p, e)'
<1>1. local'[t] = l /\ \A u \in Threads : u # t => local'[u] = local[u]
  OBVIOUS
<1>2. Owners' = Owners \ {t} /\ t \in Owners /\ \A u \in Owners' : local'[u] = local[u]
  BY <1>1 DEF Owners
<1>3. \A u \in Owners' : local[u].n # local[t].n
  BY <1>2 DEF Owned
<1>4. \A u \in Owners' : /\ local'[u].n \in Nodes
                         /\ local'[u].n \notin ToSet(p) /\ local'[u].n \notin ToSet(e)
  BY <1>2, <1>3 DEF Owned
<1>5. \A u, v \in Owners' : local'[u].n = local'[v].n => u = v
  BY <1>2 DEF Owned
<1>6. \A n \in Nodes : n \in ToSet(p) \/ n \in ToSet(e) \/ \E u \in Owners' : local'[u].n = n
  BY <1>2 DEF Owned
<1> QED BY <1>4, <1>5, <1>6 DEF Owned

\* A step of thread t puts the parts together.
LEMMA InvAfter ==
    ASSUME NEW q, NEW f, NEW w, QueueInv(q, f, w), TagsLast,
           NEW p, NEW e, NEW v \in Nat,
           NEW t \in Threads, NEW l, local' = [local EXCEPT ![t] = l],
           TypeOK', Lists(p, e)', Owned(p, e)', Counts(p, v)',
           \E a \in 0 .. v : ThreadInv(l, p, e, a)',
           \A u \in Threads \ {t} : \A x : x = local[u] => \E a \in 0 .. v : ThreadInv(x, p, e, a)'
    PROVE  NodesInv'
<1>1. local'[t] = l /\ \A u \in Threads : u # t => local'[u] = local[u]
  BY InvIs
<1>2. \A u \in Threads : \A x : x = local'[u] => \E a \in 0 .. v : ThreadInv(x, p, e, a)'
  <2> SUFFICES ASSUME NEW u \in Threads, NEW x, x = local'[u]
               PROVE  \E a \in 0 .. v : ThreadInv(x, p, e, a)'
    OBVIOUS
  <2>1. CASE u = t
    <3>1. x = l
      BY <1>1, <2>1
    <3> QED BY <3>1
  <2>2. CASE u # t
    <3>1. x = local[u]
      BY <1>1, <2>2
    <3> QED BY <2>2, <3>1
  <2> QED BY <2>1, <2>2
<1>3. \A u \in Threads : \E a \in 0 .. v : ThreadInv(local[u], p, e, a)'
  <2> SUFFICES ASSUME NEW u \in Threads PROVE \E a \in 0 .. v : ThreadInv(local[u], p, e, a)'
    OBVIOUS
  <2>1. \A x : x = local'[u] => \E a \in 0 .. v : ThreadInv(x, p, e, a)'
    BY <1>2
  <2> QED BY <2>1 DEF ThreadInv, AllocInv, PushInv, PopInv, EndOf
<1>4. QueueInv(p, e, v)'
  BY <1>3 DEF QueueInv
<1> QED BY <1>4 DEF NodesInv

-----------------------------------------------------------------------------
(* Steps that change no link, no word and no list *)

LEMMA CountsFall ==
    ASSUME NEW q, NEW f, NEW w, QueueInv(q, f, w), TagsLast,
           NEW t \in Threads, NEW l, local' = [local EXCEPT ![t] = l]
    PROVE  /\ IsFiniteSet(Busy)'
           /\ \A S \in {Allocating, Building, Linking, Taking} :
                /\ Count(S) \in Nat /\ Count(S)' \in Nat
                /\ (l.pc \in S => local[t].pc \in S) => Count(S)' <= Count(S)
                /\ l.pc \notin S /\ local[t].pc \in S => Count(S)' = Count(S) - 1
                /\ l.pc \in S /\ local[t].pc \notin S => Count(S)' = Count(S) + 1
                /\ (l.pc \in S <=> local[t].pc \in S) => Count(S)' = Count(S)
<1>1. IsFiniteSet(Busy) /\ local \in [Threads -> Locals]
  BY InvIs
<1>2. IsFiniteSet(Busy)'
  BY <1>1, BusyMoves
<1>3. ASSUME NEW S, "idle" \notin S
      PROVE  /\ Count(S) \in Nat /\ Count(S)' \in Nat
             /\ (l.pc \in S => local[t].pc \in S) => Count(S)' <= Count(S)
             /\ l.pc \notin S /\ local[t].pc \in S => Count(S)' = Count(S) - 1
             /\ l.pc \in S /\ local[t].pc \notin S => Count(S)' = Count(S) + 1
             /\ (l.pc \in S <=> local[t].pc \in S) => Count(S)' = Count(S)
  <2>1. /\ Count(S) \in Nat /\ Count(S)' \in Nat
        /\ (l.pc \in S <=> local[t].pc \in S) => Count(S)' = Count(S)
        /\ l.pc \notin S /\ local[t].pc \in S => Count(S)' = Count(S) - 1
        /\ l.pc \in S /\ local[t].pc \notin S => Count(S)' = Count(S) + 1
    BY <1>1, <1>3, CountMoves
  <2> QED BY <2>1
<1>4. /\ "idle" \notin Allocating /\ "idle" \notin Building
      /\ "idle" \notin Linking /\ "idle" \notin Taking
  BY DEF Allocating, Building, Linking, Taking, PushPlaces, PopPlaces, FreePlaces
<1> QED BY <1>2, <1>3, <1>4

LEMMA QuietStep ==
    ASSUME NEW q, NEW f, NEW w, QueueInv(q, f, w), TagsLast,
           NEW t \in Threads, NEW l \in Locals, local' = [local EXCEPT ![t] = l],
           head_' = head_, tail_' = tail_, pool_' = pool_, next' = next, calls' = calls,
           data' \in [Nodes -> 0 .. MaxCalls], answer' \in [Threads -> 0 .. MaxCalls],
           l.pc \in Owns <=> local[t].pc \in Owns, l.pc \in Owns => l.n = local[t].n,
           l.pc \in Allocating => local[t].pc \in Allocating,
           l.pc \in Building => local[t].pc \in Building,
           l.pc \in Linking => local[t].pc \in Linking,
           l.pc \in Taking => local[t].pc \in Taking,
           \E a \in 0 .. w : ThreadInv(l, q, f, a)
    PROVE  NodesInv'
<1>1. /\ local \in [Threads -> Locals] /\ IsFiniteSet(Busy) /\ w \in Nat /\ calls \in Nat
      /\ Lists(q, f) /\ Owned(q, f) /\ Counts(q, w) /\ TypeOK
      /\ \A u \in Threads : \E a \in 0 .. w : ThreadInv(local[u], q, f, a)
      /\ head_.tag \in Nat /\ tail_.tag \in Nat /\ pool_.tag \in Nat
  BY InvIs DEF QueueInv
<1>2. TypeOK'
  <2>1. local' \in [Threads -> Locals]
    BY <1>1
  <2> QED BY <1>1, <2>1 DEF TypeOK, Locals
<1>3. Lists(q, f)'
  BY <1>1 DEF Lists
<1>4. Owned(q, f)'
  BY <1>1, OwnedKept
<1>5. Counts(q, w)'
  <2>1. /\ IsFiniteSet(Busy)'
        /\ Count(Allocating)' <= Count(Allocating) /\ Count(Building)' <= Count(Building)
        /\ Count(Linking)' <= Count(Linking) /\ Count(Taking)' <= Count(Taking)
    BY CountsFall
  <2>2. /\ Count(Allocating) \in Nat /\ Count(Building) \in Nat
        /\ Count(Linking) \in Nat /\ Count(Taking) \in Nat
        /\ Count(Allocating)' \in Nat /\ Count(Building)' \in Nat
        /\ Count(Linking)' \in Nat /\ Count(Taking)' \in Nat
    BY CountsFall
  <2>3. /\ (pool_.tag + Count(Allocating) <= 1 + calls)'
        /\ (head_.tag + Count(Taking) <= calls)'
        /\ (w + Count(Building) + Count(Linking) <= 2 * calls)'
    <3>1. /\ pool_.tag + Count(Allocating) <= 1 + calls
          /\ head_.tag + Count(Taking) <= calls
          /\ w + Count(Building) + Count(Linking) <= 2 * calls
      BY <1>1 DEF Counts
    <3> QED BY <1>1, <2>1, <2>2, <3>1
  <2>4. PICK p \in 1 .. Len(q) :
          q[p] = tail_.index /\ tail_.tag + (Len(q) - p) + Count(Linking) <= calls
    BY <1>1 DEF Counts
  <2>5. Len(q) \in Nat
    BY <1>1, LinkedIs DEF Lists
  <2>6. q[p] = tail_'.index /\ tail_'.tag + (Len(q) - p) + Count(Linking)' <= calls'
    <3>1. /\ tail_'.tag = tail_.tag /\ tail_'.index = tail_.index /\ tail_.tag \in Nat
          /\ calls' = calls /\ calls \in Nat /\ Len(q) \in Nat /\ p \in 1 .. Len(q)
      BY <1>1, <2>5
    <3>2. Len(q) - p \in Nat
      BY <3>1
    <3>3. \A x, y, z, u \in Nat : x + y + z <= calls /\ u <= z => x + y + u <= calls
      BY <3>1
    <3>4. tail_.tag + (Len(q) - p) + Count(Linking)' <= calls
      BY <2>1, <2>2, <2>4, <3>1, <3>2, <3>3
    <3> QED BY <2>4, <3>1, <3>4
  <2> QED BY <2>1, <2>3, <2>6 DEF Counts, Busy
<1>6. \E a \in 0 .. w : ThreadInv(l, q, f, a)'
  BY DEF ThreadInv, AllocInv, PushInv, PopInv, EndOf
<1>7. \A u \in Threads \ {t} : \A x : x = local[u] => \E a \in 0 .. w : ThreadInv(x, q, f, a)'
  <2> SUFFICES ASSUME NEW u \in Threads \ {t}, NEW x, x = local[u]
               PROVE  \E a \in 0 .. w : ThreadInv(x, q, f, a)'
    OBVIOUS
  <2>1. PICK a \in 0 .. w : ThreadInv(x, q, f, a)
    BY <1>1
  <2>2. ThreadInv(x, q, f, a)'
    BY <2>1 DEF ThreadInv, AllocInv, PushInv, PopInv, EndOf
  <2> QED BY <2>2
<1> QED BY <1>1, <1>2, <1>3, <1>4, <1>5, <1>6, <1>7, InvAfter


LEMMA IdleIs ==
    Idle \in Locals /\ Idle.pc = "idle" /\ "idle" \notin Owns /\ "idle" \notin Allocating
    /\ "idle" \notin Building /\ "idle" \notin Linking /\ "idle" \notin Taking
<1>1. Idle.pc = "idle" /\ "idle" \notin Owns /\ "idle" \notin Allocating /\ "idle" \notin Building
      /\ "idle" \notin Linking /\ "idle" \notin Taking
  BY DEF Idle, Owns, Allocating, Building, Linking, Taking, PushPlaces, PopPlaces, FreePlaces
<1>2. Nothing \in tagged_index
  BY ConstantsAre DEF Nothing, Handle, tagged_index
<1>3. Idle \in Locals
  <2>1. 0 \in 0 .. MaxCalls /\ null_handle \in 0 .. NodeCount
    BY ConstantsAre
  <2> QED BY <1>2, <2>1 DEF Idle, Locals
<1> QED BY <1>1, <1>3

\* A call returns, and no word changes.
LEMMA ReturnStep ==
    ASSUME NEW q, NEW f, NEW w, QueueInv(q, f, w), TagsLast,
           NEW t \in Threads, NEW value \in 0 .. MaxCalls, Return(t, value),
           local[t].pc \notin Owns,
           head_' = head_, tail_' = tail_, pool_' = pool_, next' = next, calls' = calls,
           data' = data
    PROVE  NodesInv'
<1>1. local' = [local EXCEPT ![t] = Idle] /\ answer' \in [Threads -> 0 .. MaxCalls]
      /\ data' \in [Nodes -> 0 .. MaxCalls] /\ w \in Nat
  BY InvIs DEF Return
<1>2. ThreadInv(Idle, q, f, 0) /\ 0 \in 0 .. w
  BY <1>1, IdleIs DEF ThreadInv, AllocInv, PushInv, PopInv
<1> QED BY <1>1, <1>2, IdleIs, QuietStep

\* What an action finds: the thread's variables, and what it knows.
LEMMA ThreadIs ==
    ASSUME NEW q, NEW f, NEW w, QueueInv(q, f, w), TagsLast, NEW t \in Threads
    PROVE  /\ local[t] \in Locals /\ w \in Nat
           /\ \A m \in Locals : /\ m.first \in tagged_index /\ m.second \in tagged_index
                                /\ m.after \in tagged_index
                                /\ m.arg \in 0 .. MaxCalls /\ m.n \in 0 .. NodeCount
           /\ \E a \in 0 .. w : ThreadInv(local[t], q, f, a)
           /\ local[t].pc \in Owns => local[t].n \in Nodes
<1>1. local \in [Threads -> Locals] /\ w \in Nat
  BY InvIs
<1>2. \A m \in Locals : /\ m.first \in tagged_index /\ m.second \in tagged_index
                        /\ m.after \in tagged_index
                        /\ m.arg \in 0 .. MaxCalls /\ m.n \in 0 .. NodeCount
  BY DEF Locals
<1>3. local[t].pc \in Owns => local[t].n \in Nodes
  BY DEF QueueInv, Owned, Owners
<1> QED BY <1>1, <1>2, <1>3 DEF QueueInv

LEMMA AllocatedStep ==
    ASSUME NEW q, NEW f, NEW w, QueueInv(q, f, w), TagsLast,
           NEW t \in Threads, local[t].pc \in {"allocate", "allocCas"}, Allocated(t, pool_),
           head_' = head_, tail_' = tail_, pool_' = pool_, next' = next, calls' = calls,
           data' = data
    PROVE  NodesInv'
<1>1. local[t].pc \notin Owns
  BY DEF Owns, PushPlaces, FreePlaces
<1>2. CASE Return(t, 0)
  <2>1. 0 \in 0 .. MaxCalls
    BY ConstantsAre
  <2> QED BY <1>1, <1>2, <2>1, ReturnStep
<1>3. CASE pool_.index # null_handle
           /\ Go(t, [local[t] EXCEPT !.pc = "allocNext", !.first = pool_])
  <2> DEFINE l == [local[t] EXCEPT !.pc = "allocNext", !.first = pool_]
  <2>1. local[t] \in Locals /\ pool_ \in tagged_index /\ w \in Nat
    BY ThreadIs, InvIs
  <2>2. l \in Locals /\ l.pc = "allocNext" /\ l.first = pool_
    BY <2>1 DEF Locals, PushPlaces
  <2>3. local' = [local EXCEPT ![t] = l] /\ answer' = answer
    BY <1>3 DEF Go
  <2>4. pool_.index \in Nodes /\ pool_.tag \in Nat /\ pool_.index \in ToSet(f)
    BY <1>3, <2>1, LinkedIs, ConstantsAre DEF QueueInv, Lists, tagged_index
  <2> HIDE DEF l
  <2>5. ThreadInv(l, q, f, 0) /\ 0 \in 0 .. w
    BY <2>1, <2>2, <2>4 DEF ThreadInv, AllocInv, PushInv, PopInv
  <2>6. /\ l.pc \notin Owns
        /\ l.pc \in Allocating => local[t].pc \in Allocating
        /\ l.pc \in Building => local[t].pc \in Building
        /\ l.pc \in Linking => local[t].pc \in Linking
        /\ l.pc \notin Taking
    BY <2>2 DEF Owns, Allocating, Building, Linking, Taking, PushPlaces, PopPlaces, FreePlaces
  <2>7. answer' \in [Threads -> 0 .. MaxCalls] /\ data' \in [Nodes -> 0 .. MaxCalls]
    BY <2>3, InvIs
  <2> QED BY <1>1, <2>2, <2>3, <2>5, <2>6, <2>7, QuietStep
<1> QED BY <1>2, <1>3 DEF Allocated


Joining == {"pushTail", "pushNext", "pushCheck", "pushLink", "pushHelp"}

\* A thread goes on with the same part of its call, and keeps its node.
LEMMA GoStep ==
    ASSUME NEW q, NEW f, NEW w, QueueInv(q, f, w), TagsLast,
           NEW t \in Threads, NEW l \in Locals, Go(t, l), l.n = local[t].n,
           head_' = head_, tail_' = tail_, pool_' = pool_, next' = next, calls' = calls,
           data' \in [Nodes -> 0 .. MaxCalls],
           \E S \in {Allocating, {"construct", "constructNext"}, Joining, Taking, FreePlaces} :
               l.pc \in S /\ local[t].pc \in S,
           \E a \in 0 .. w : ThreadInv(l, q, f, a)
    PROVE  NodesInv'
<1>1. local' = [local EXCEPT ![t] = l] /\ answer' \in [Threads -> 0 .. MaxCalls]
  BY InvIs DEF Go
<1>2. /\ l.pc \in Owns <=> local[t].pc \in Owns
      /\ l.pc \in Allocating => local[t].pc \in Allocating
      /\ l.pc \in Building => local[t].pc \in Building
      /\ l.pc \in Linking => local[t].pc \in Linking
      /\ l.pc \in Taking => local[t].pc \in Taking
  BY DEF Joining, Owns, Allocating, Building, Linking, Taking, PushPlaces, PopPlaces, FreePlaces
<1> QED BY <1>1, <1>2, QuietStep

LEMMA AllocNextStep ==
    ASSUME NEW q, NEW f, NEW w, QueueInv(q, f, w), TagsLast,
           NEW t \in Threads, AllocNext(t), calls' = calls
    PROVE  NodesInv'
<1> DEFINE m == local[t]
           l == [m EXCEPT !.pc = "allocCas", !.after = next[m.first.index]]
<1>1. m \in Locals /\ w \in Nat /\ m.pc = "allocNext" /\ \E a \in 0 .. w : ThreadInv(m, q, f, a)
      /\ next \in [Nodes -> tagged_index] /\ data \in [Nodes -> 0 .. MaxCalls]
  BY ThreadIs, InvIs DEF AllocNext, At
<1>2. Go(t, l) /\ head_' = head_ /\ tail_' = tail_ /\ pool_' = pool_ /\ next' = next /\ data' = data
  BY DEF AllocNext
<1> HIDE DEF m
<1>3. AllocInv(m, f) /\ m.first.index \in Nodes
  BY <1>1 DEF ThreadInv, AllocInv
<1>4. l \in Locals /\ l.pc = "allocCas" /\ l.first = m.first /\ l.n = m.n
      /\ l.after = next[m.first.index]
  BY <1>1, <1>3 DEF Locals, PushPlaces
<1> HIDE DEF l
<1>5. ThreadInv(l, q, f, 0) /\ 0 \in 0 .. w
  BY <1>1, <1>3, <1>4 DEF ThreadInv, AllocInv, PushInv, PopInv
<1>6. m.pc \in Allocating /\ l.pc \in Allocating
  BY <1>1, <1>4 DEF Allocating
<1> USE DEF m
<1> QED BY <1>1, <1>2, <1>4, <1>5, <1>6, GoStep

LEMMA ConstructStep ==
    ASSUME NEW q, NEW f, NEW w, QueueInv(q, f, w), TagsLast,
           NEW t \in Threads, Construct(t), calls' = calls
    PROVE  NodesInv'
<1> DEFINE m == local[t]
           l == [m EXCEPT !.pc = "constructNext", !.after = next[m.n]]
<1>1. m \in Locals /\ w \in Nat /\ m.pc = "construct" /\ m.n \in Nodes /\ m.arg \in 0 .. MaxCalls
      /\ next \in [Nodes -> tagged_index] /\ data \in [Nodes -> 0 .. MaxCalls]
  <2>1. m.pc = "construct" /\ m.pc \in Owns
    BY DEF Construct, At, Owns, PushPlaces
  <2> QED BY <2>1, ThreadIs, InvIs
<1>2. Go(t, l) /\ head_' = head_ /\ tail_' = tail_ /\ pool_' = pool_ /\ next' = next
      /\ data' = [data EXCEPT ![m.n] = m.arg]
  BY DEF Construct
<1> HIDE DEF m
<1>3. l \in Locals /\ l.pc = "constructNext" /\ l.n = m.n /\ l.after = next[m.n]
  BY <1>1 DEF Locals, PushPlaces
<1>4. data' \in [Nodes -> 0 .. MaxCalls]
  BY <1>1, <1>2
<1> HIDE DEF l
<1>5. ThreadInv(l, q, f, 0) /\ 0 \in 0 .. w
  BY <1>1, <1>3 DEF ThreadInv, AllocInv, PushInv, PopInv
<1>6. m.pc \in {"construct", "constructNext"} /\ l.pc \in {"construct", "constructNext"}
  BY <1>1, <1>3
<1> USE DEF m
<1> QED BY <1>2, <1>3, <1>4, <1>5, <1>6, GoStep

LEMMA PushTailStep ==
    ASSUME NEW q, NEW f, NEW w, QueueInv(q, f, w), TagsLast,
           NEW t \in Threads, PushTail(t), calls' = calls
    PROVE  NodesInv'
<1> DEFINE m == local[t]
           l == [m EXCEPT !.pc = "pushNext", !.first = tail_]
<1>1. m \in Locals /\ w \in Nat /\ m.pc = "pushTail" /\ \E a \in 0 .. w : ThreadInv(m, q, f, a)
      /\ tail_ \in tagged_index /\ tail_.tag \in Nat /\ data \in [Nodes -> 0 .. MaxCalls]
  BY ThreadIs, InvIs DEF PushTail, At
<1>2. Go(t, l) /\ head_' = head_ /\ tail_' = tail_ /\ pool_' = pool_ /\ next' = next /\ data' = data
  BY DEF PushTail
<1>3. tail_.index \in Nodes
  BY LinkedIs DEF QueueInv, Lists
<1> HIDE DEF m
<1>4. next[m.n].index = null_handle
  BY <1>1 DEF ThreadInv, PushInv
<1>5. l \in Locals /\ l.pc = "pushNext" /\ l.first = tail_ /\ l.n = m.n
  BY <1>1 DEF Locals, PushPlaces
<1> HIDE DEF l
<1>6. ThreadInv(l, q, f, 0) /\ 0 \in 0 .. w
  BY <1>1, <1>3, <1>4, <1>5 DEF ThreadInv, AllocInv, PushInv, PopInv
<1>7. m.pc \in Joining /\ l.pc \in Joining
  BY <1>1, <1>5 DEF Joining
<1> USE DEF m
<1> QED BY <1>1, <1>2, <1>5, <1>6, <1>7, GoStep


LEMMA PushNextStep ==
    ASSUME NEW q, NEW f, NEW w, QueueInv(q, f, w), TagsLast,
           NEW t \in Threads, PushNext(t), calls' = calls
    PROVE  NodesInv'
<1> DEFINE m == local[t]
           l == [m EXCEPT !.pc = "pushCheck", !.after = next[m.first.index]]
<1>1. m \in Locals /\ w \in Nat /\ m.pc = "pushNext" /\ \E a \in 0 .. w : ThreadInv(m, q, f, a)
      /\ next \in [Nodes -> tagged_index] /\ data \in [Nodes -> 0 .. MaxCalls]
  BY ThreadIs, InvIs DEF PushNext, At
<1>2. Go(t, l) /\ head_' = head_ /\ tail_' = tail_ /\ pool_' = pool_ /\ next' = next /\ data' = data
  BY DEF PushNext
<1> HIDE DEF m
<1>3. /\ m.first.index \in Nodes /\ m.first.tag <= tail_.tag
      /\ next[m.n].index = null_handle
  BY <1>1 DEF ThreadInv, PushInv
<1>4. l \in Locals /\ l.pc = "pushCheck" /\ l.first = m.first /\ l.n = m.n
      /\ l.after = next[m.first.index]
  BY <1>1, <1>3 DEF Locals, PushPlaces
<1> HIDE DEF l
<1>5. tail_.index \in ToSet(q)
  BY DEF QueueInv, Lists
<1>6. (l.after.tag + 0) % TagModulus = l.after.tag
  <2>1. l.after.tag \in 0 .. (TagModulus - 1) /\ TagModulus \in Nat
    BY <1>1, <1>3, <1>4, InvIs
  <2> QED BY <2>1, ModUpTo
<1>7. ThreadInv(l, q, f, 0) /\ 0 \in 0 .. w
  <2>1. tail_ = l.first /\ l.after.index = null_handle => EndOf(q, l.first.index)
    BY <1>4, <1>5 DEF EndOf
  <2> QED BY <1>1, <1>3, <1>4, <1>6, <2>1 DEF ThreadInv, AllocInv, PushInv, PopInv
<1>8. m.pc \in Joining /\ l.pc \in Joining
  BY <1>1, <1>4 DEF Joining
<1> USE DEF m
<1> QED BY <1>1, <1>2, <1>4, <1>7, <1>8, GoStep

LEMMA PushCheckStep ==
    ASSUME NEW q, NEW f, NEW w, QueueInv(q, f, w), TagsLast,
           NEW t \in Threads, PushCheck(t), calls' = calls
    PROVE  NodesInv'
<1> DEFINE m == local[t]
           place == IF tail_ # m.first THEN "pushTail"
                    ELSE IF m.after.index = null_handle THEN "pushLink" ELSE "pushHelp"
           l == [m EXCEPT !.pc = place]
<1>1. m \in Locals /\ w \in Nat /\ m.pc = "pushCheck" /\ \E a \in 0 .. w : ThreadInv(m, q, f, a)
      /\ data \in [Nodes -> 0 .. MaxCalls]
  BY ThreadIs, InvIs DEF PushCheck, At
<1>2. Go(t, l) /\ head_' = head_ /\ tail_' = tail_ /\ pool_' = pool_ /\ next' = next /\ data' = data
  BY DEF PushCheck, GoTo
<1> HIDE DEF m
<1>3. l \in Locals /\ l.pc = place /\ l.first = m.first /\ l.n = m.n /\ l.after = m.after
  BY <1>1 DEF Locals, PushPlaces
<1> HIDE DEF l
<1>4. PICK a \in 0 .. w : ThreadInv(m, q, f, a)
  BY <1>1
<1>5. ThreadInv(l, q, f, a)
  <2>1. CASE l.pc = "pushTail"
    BY <1>1, <1>3, <1>4, <2>1 DEF ThreadInv, AllocInv, PushInv, PopInv
  <2>2. CASE l.pc = "pushLink" /\ tail_ = m.first /\ m.after.index = null_handle
    BY <1>1, <1>3, <1>4, <2>2 DEF ThreadInv, AllocInv, PushInv, PopInv
  <2>3. CASE l.pc = "pushHelp" /\ tail_ = m.first /\ m.after.index # null_handle
    BY <1>1, <1>3, <1>4, <2>3 DEF ThreadInv, AllocInv, PushInv, PopInv
  <2> QED BY <1>3, <2>1, <2>2, <2>3
<1>6. m.pc \in Joining /\ l.pc \in Joining
  BY <1>1, <1>3 DEF Joining
<1> USE DEF m
<1> QED BY <1>1, <1>2, <1>3, <1>5, <1>6, GoStep

\* The queue has its dummy node.
LEMMA HeadIs ==
    ASSUME NEW q, NEW f, NEW w, QueueInv(q, f, w)
    PROVE  head_.index \in Nodes /\ head_.index \in ToSet(q) /\ q # <<>> /\ q[1] = head_.index
<1>1. Linked(next, head_.index, q) /\ tail_.index \in ToSet(q)
  BY DEF QueueInv, Lists
<1>2. Len(q) # 0 /\ Len(q) \in Nat
  BY <1>1, LinkedIs
<1> QED BY <1>1, <1>2, LinkedIs

LEMMA PopHeadStep ==
    ASSUME NEW q, NEW f, NEW w, QueueInv(q, f, w), TagsLast,
           NEW t \in Threads, PopHead(t), calls' = calls
    PROVE  NodesInv'
<1> DEFINE m == local[t]
           l == [m EXCEPT !.pc = "popTail", !.first = head_]
<1>1. m \in Locals /\ w \in Nat /\ m.pc = "popHead" /\ data \in [Nodes -> 0 .. MaxCalls]
      /\ head_ \in tagged_index /\ head_.tag \in Nat /\ head_.index \in Nodes
  BY ThreadIs, InvIs, HeadIs DEF PopHead, At
<1>2. Go(t, l) /\ head_' = head_ /\ tail_' = tail_ /\ pool_' = pool_ /\ next' = next /\ data' = data
  BY DEF PopHead
<1> HIDE DEF m
<1>3. l \in Locals /\ l.pc = "popTail" /\ l.first = head_ /\ l.n = m.n
  BY <1>1 DEF Locals, PopPlaces
<1> HIDE DEF l
<1>4. ThreadInv(l, q, f, 0) /\ 0 \in 0 .. w
  BY <1>1, <1>3 DEF ThreadInv, AllocInv, PushInv, PopInv
<1>5. m.pc \in Taking /\ l.pc \in Taking
  BY <1>1, <1>3 DEF Taking, PopPlaces, FreePlaces
<1> USE DEF m
<1> QED BY <1>1, <1>2, <1>3, <1>4, <1>5, GoStep

LEMMA PopTailStep ==
    ASSUME NEW q, NEW f, NEW w, QueueInv(q, f, w), TagsLast,
           NEW t \in Threads, PopTail(t), calls' = calls
    PROVE  NodesInv'
<1> DEFINE m == local[t]
           l == [m EXCEPT !.pc = "popNext", !.second = tail_]
<1>1. m \in Locals /\ w \in Nat /\ m.pc = "popTail" /\ \E a \in 0 .. w : ThreadInv(m, q, f, a)
      /\ tail_ \in tagged_index /\ tail_.tag \in Nat /\ data \in [Nodes -> 0 .. MaxCalls]
  BY ThreadIs, InvIs DEF PopTail, At
<1>2. Go(t, l) /\ head_' = head_ /\ tail_' = tail_ /\ pool_' = pool_ /\ next' = next /\ data' = data
  BY DEF PopTail
<1> HIDE DEF m
<1>3. l \in Locals /\ l.pc = "popNext" /\ l.first = m.first /\ l.second = tail_ /\ l.n = m.n
  BY <1>1 DEF Locals, PopPlaces
<1> HIDE DEF l
<1>4. ThreadInv(l, q, f, 0) /\ 0 \in 0 .. w
  <2>1. m.first.index \in Nodes /\ m.first.tag <= head_.tag
    BY <1>1 DEF ThreadInv, PopInv
  <2> QED BY <1>1, <1>3, <2>1 DEF ThreadInv, AllocInv, PushInv, PopInv
<1>5. m.pc \in Taking /\ l.pc \in Taking
  BY <1>1, <1>3 DEF Taking, PopPlaces, FreePlaces
<1> USE DEF m
<1> QED BY <1>1, <1>2, <1>3, <1>4, <1>5, GoStep

LEMMA PopNextStep ==
    ASSUME NEW q, NEW f, NEW w, QueueInv(q, f, w), TagsLast,
           NEW t \in Threads, PopNext(t), calls' = calls
    PROVE  NodesInv'
<1> DEFINE m == local[t]
           l == [m EXCEPT !.pc = "popCheck", !.after = next[m.first.index]]
<1>1. m \in Locals /\ w \in Nat /\ m.pc = "popNext" /\ \E a \in 0 .. w : ThreadInv(m, q, f, a)
      /\ next \in [Nodes -> tagged_index] /\ data \in [Nodes -> 0 .. MaxCalls]
  BY ThreadIs, InvIs DEF PopNext, At
<1>2. Go(t, l) /\ head_' = head_ /\ tail_' = tail_ /\ pool_' = pool_ /\ next' = next /\ data' = data
  BY DEF PopNext
<1> HIDE DEF m
<1>3. PopInv(m) /\ m.first.index \in Nodes
  BY <1>1 DEF ThreadInv, PopInv
<1>4. l \in Locals /\ l.pc = "popCheck" /\ l.first = m.first /\ l.second = m.second /\ l.n = m.n
      /\ l.after = next[m.first.index]
  BY <1>1, <1>3 DEF Locals, PopPlaces
<1> HIDE DEF l
<1>5. ThreadInv(l, q, f, 0) /\ 0 \in 0 .. w
  BY <1>1, <1>3, <1>4 DEF ThreadInv, AllocInv, PushInv, PopInv
<1>6. m.pc \in Taking /\ l.pc \in Taking
  BY <1>1, <1>4 DEF Taking, PopPlaces, FreePlaces
<1> USE DEF m
<1> QED BY <1>1, <1>2, <1>4, <1>5, <1>6, GoStep

LEMMA PopCheckStep ==
    ASSUME NEW q, NEW f, NEW w, QueueInv(q, f, w), TagsLast,
           NEW t \in Threads, PopCheck(t), calls' = calls
    PROVE  NodesInv'
<1> DEFINE m == local[t]
           l(place) == [m EXCEPT !.pc = place]
<1>1. m \in Locals /\ w \in Nat /\ m.pc = "popCheck" /\ \E a \in 0 .. w : ThreadInv(m, q, f, a)
      /\ data \in [Nodes -> 0 .. MaxCalls] /\ 0 \in 0 .. MaxCalls
  BY ThreadIs, InvIs DEF PopCheck, At
<1>2. head_' = head_ /\ tail_' = tail_ /\ pool_' = pool_ /\ next' = next /\ data' = data
  BY DEF PopCheck
<1>3. CASE Return(t, 0)
  <2>1. m.pc \notin Owns
    BY <1>1 DEF Owns, PushPlaces, FreePlaces
  <2> QED BY <1>1, <1>2, <1>3, <2>1, ReturnStep
<1>4. PopInv(m)
  BY <1>1 DEF ThreadInv
<1>5. ASSUME NEW place \in {"popHelp", "popData", "popHead"}, Go(t, l(place)),
             PopInv(l(place))
      PROVE  NodesInv'
  <2> HIDE DEF m
  <2>1. l(place) \in Locals /\ l(place).pc = place /\ l(place).n = m.n
    BY <1>1 DEF Locals, PopPlaces
  <2>2. m.pc \in Taking /\ place \in Taking
    BY <1>1 DEF Taking, PopPlaces, FreePlaces
  <2> HIDE DEF l
  <2>3. ThreadInv(l(place), q, f, 0) /\ 0 \in 0 .. w
    BY <1>1, <1>5, <2>1 DEF ThreadInv, AllocInv, PushInv
  <2> USE DEF m
  <2> QED BY <1>1, <1>2, <1>5, <2>1, <2>2, <2>3, GoStep
<1>6. ASSUME NEW place \in {"popHelp", "popData", "popHead"}, NEW x, x = l(place)
      PROVE  x.pc = place /\ x.first = m.first /\ x.second = m.second /\ x.after = m.after
  <2> HIDE DEF m
  <2> QED BY <1>1, <1>6 DEF Locals
<1>7. CASE head_ = m.first /\ m.first.index = m.second.index /\ m.after.index # null_handle
           /\ GoTo(t, "popHelp")
  <2> DEFINE x == l("popHelp")
  <2>1. x.pc = "popHelp" /\ x.first = m.first /\ x.second = m.second /\ x.after = m.after
    BY <1>6
  <2> HIDE DEF x, m
  <2>2. PopInv(x)
    BY <1>1, <1>4, <1>7, <2>1 DEF PopInv
  <2> USE DEF x, m
  <2> QED BY <1>5, <1>7, <2>2 DEF GoTo
<1>8. CASE head_ = m.first /\ m.first.index # m.second.index /\ m.after.index # null_handle
           /\ GoTo(t, "popData")
  <2> DEFINE x == l("popData")
  <2>1. x.pc = "popData" /\ x.first = m.first /\ x.second = m.second /\ x.after = m.after
    BY <1>6
  <2> HIDE DEF x, m
  <2>2. PopInv(x)
    BY <1>1, <1>4, <1>8, <2>1 DEF PopInv
  <2> USE DEF x, m
  <2> QED BY <1>5, <1>8, <2>2 DEF GoTo
<1>9. CASE GoTo(t, "popHead")
  <2> DEFINE x == l("popHead")
  <2>1. x.pc = "popHead"
    BY <1>6
  <2> HIDE DEF x, m
  <2>2. PopInv(x)
    BY <2>1 DEF PopInv
  <2> USE DEF x, m
  <2> QED BY <1>5, <1>9, <2>2 DEF GoTo
<1> QED BY <1>3, <1>7, <1>8, <1>9 DEF PopCheck

LEMMA PopDataStep ==
    ASSUME NEW q, NEW f, NEW w, QueueInv(q, f, w), TagsLast,
           NEW t \in Threads, PopData(t), calls' = calls
    PROVE  NodesInv'
<1> DEFINE m == local[t]
           l == [m EXCEPT !.pc = "popCas", !.arg = data[m.after.index]]
<1>1. m \in Locals /\ w \in Nat /\ m.pc = "popData" /\ \E a \in 0 .. w : ThreadInv(m, q, f, a)
      /\ data \in [Nodes -> 0 .. MaxCalls]
  BY ThreadIs, InvIs DEF PopData, At
<1>2. Go(t, l) /\ head_' = head_ /\ tail_' = tail_ /\ pool_' = pool_ /\ next' = next /\ data' = data
  BY DEF PopData
<1>3. m.after.index \in 0 .. NodeCount
  BY <1>1, ThreadIs, InvIs
<1> HIDE DEF m
<1>4. PopInv(m) /\ m.after.index \in Nodes
  <2>1. PopInv(m)
    BY <1>1 DEF ThreadInv
  <2>2. m.after.index # null_handle
    BY <1>1, <2>1 DEF PopInv
  <2> QED BY <1>3, <2>1, <2>2, ConstantsAre
<1>5. l \in Locals /\ l.pc = "popCas" /\ l.first = m.first /\ l.second = m.second /\ l.n = m.n
      /\ l.after = m.after
  <2>1. data[m.after.index] \in 0 .. MaxCalls
    BY <1>1, <1>4
  <2> QED BY <1>1, <2>1 DEF Locals, PopPlaces
<1> HIDE DEF l
<1>6. ThreadInv(l, q, f, 0) /\ 0 \in 0 .. w
  BY <1>1, <1>4, <1>5 DEF ThreadInv, AllocInv, PushInv, PopInv
<1>7. m.pc \in Taking /\ l.pc \in Taking
  BY <1>1, <1>5 DEF Taking, PopPlaces, FreePlaces
<1> USE DEF m
<1> QED BY <1>1, <1>2, <1>5, <1>6, <1>7, GoStep

\* A thread reads the pool again, to free its node.
LEMMA FreeAgainStep ==
    ASSUME NEW q, NEW f, NEW w, QueueInv(q, f, w), TagsLast,
           NEW t \in Threads, local[t].pc \in {"free", "freeCas"},
           Go(t, [local[t] EXCEPT !.pc = "freeNext", !.first = pool_]),
           head_' = head_, tail_' = tail_, pool_' = pool_, next' = next, calls' = calls,
           data' = data
    PROVE  NodesInv'
<1> DEFINE m == local[t]
           l == [m EXCEPT !.pc = "freeNext", !.first = pool_]
<1>1. m \in Locals /\ w \in Nat /\ data \in [Nodes -> 0 .. MaxCalls] /\ pool_ \in tagged_index
      /\ m.pc \in {"free", "freeCas"}
  BY ThreadIs, InvIs
<1>2. Go(t, l)
  OBVIOUS
<1> HIDE DEF m
<1>3. l \in Locals /\ l.pc = "freeNext" /\ l.n = m.n
  BY <1>1 DEF Locals, PopPlaces, FreePlaces
<1> HIDE DEF l
<1>4. ThreadInv(l, q, f, 0) /\ 0 \in 0 .. w
  BY <1>1, <1>3 DEF ThreadInv, AllocInv, PushInv, PopInv
<1>5. m.pc \in FreePlaces /\ l.pc \in FreePlaces
  BY <1>1, <1>3 DEF FreePlaces
<1> USE DEF m
<1> QED BY <1>1, <1>2, <1>3, <1>4, <1>5, GoStep

\* A thread begins the loop of push or of pop again.
LEMMA AgainStep ==
    ASSUME NEW q, NEW f, NEW w, QueueInv(q, f, w), TagsLast,
           NEW t \in Threads, NEW place,
           \/ place = "pushTail" /\ local[t].pc \in {"pushLink", "pushHelp"}
           \/ place = "popHead" /\ local[t].pc \in {"popHelp", "popCas"},
           GoTo(t, place),
           head_' = head_, tail_' = tail_, pool_' = pool_, next' = next, calls' = calls,
           data' = data
    PROVE  NodesInv'
<1> DEFINE m == local[t]
           l == [m EXCEPT !.pc = place]
<1>1. m \in Locals /\ w \in Nat /\ data \in [Nodes -> 0 .. MaxCalls]
      /\ \E a \in 0 .. w : ThreadInv(m, q, f, a)
  BY ThreadIs, InvIs
<1>2. Go(t, l)
  BY DEF GoTo
<1>3. \/ place = "pushTail" /\ m.pc \in {"pushLink", "pushHelp"}
      \/ place = "popHead" /\ m.pc \in {"popHelp", "popCas"}
  OBVIOUS
<1> HIDE DEF m
<1>4. l \in Locals /\ l.pc = place /\ l.n = m.n
  BY <1>1, <1>3 DEF Locals, PushPlaces, PopPlaces
<1> HIDE DEF l
<1>5. ThreadInv(l, q, f, 0) /\ 0 \in 0 .. w
  <2>1. place = "pushTail" => next[m.n].index = null_handle
    BY <1>1, <1>3 DEF ThreadInv, PushInv
  <2> QED BY <1>1, <1>3, <1>4, <2>1 DEF ThreadInv, AllocInv, PushInv, PopInv
<1>6. (m.pc \in Taking /\ l.pc \in Taking) \/ (m.pc \in Joining /\ l.pc \in Joining)
  BY <1>3, <1>4 DEF Taking, PopPlaces, FreePlaces, Joining
<1> USE DEF m
<1> QED BY <1>1, <1>2, <1>4, <1>5, <1>6, GoStep


-----------------------------------------------------------------------------
(* The free list *)

\* The other threads, when the tag of the pool or the list of free nodes grows.
LEMMA PoolOthers ==
    ASSUME NEW q, NEW f, NEW w, QueueInv(q, f, w), TagsLast, NEW e,
           pool_' \in tagged_index,
           \/ pool_.tag < pool_'.tag
           \/ pool_.tag = pool_'.tag /\ ToSet(f) \subseteq ToSet(e),
           head_' = head_, tail_' = tail_, next' = next, NEW t \in Threads
    PROVE  \A u \in Threads \ {t} : \A x : x = local[u] => \E a \in 0 .. w : ThreadInv(x, q, e, a)'
<1> SUFFICES ASSUME NEW u \in Threads \ {t}, NEW x, x = local[u]
             PROVE  \E a \in 0 .. w : ThreadInv(x, q, e, a)'
  OBVIOUS
<1>1. x \in Locals /\ \E a \in 0 .. w : ThreadInv(x, q, f, a)
  BY ThreadIs
<1>2. PICK a \in 0 .. w : ThreadInv(x, q, f, a)
  BY <1>1
<1>3. x.first.tag \in Nat /\ pool_.tag \in Nat /\ pool_'.tag \in Nat
  BY <1>1, InvIs, ThreadIs
<1>4. AllocInv(x, e)'
  BY <1>2, <1>3 DEF ThreadInv, AllocInv
<1>5. PushInv(x, q, a)' /\ PopInv(x)'
  BY <1>2 DEF ThreadInv, PushInv, PopInv, EndOf
<1> QED BY <1>4, <1>5 DEF ThreadInv

LEMMA AllocCasStep ==
    ASSUME NEW q, NEW f, NEW w, QueueInv(q, f, w), TagsLast,
           NEW t \in Threads, AllocCas(t), calls' = calls
    PROVE  NodesInv'
<1> DEFINE m == local[t]
<1>0. PICK l : l = [m EXCEPT !.pc = "construct", !.n = m.first.index]
  OBVIOUS
<1>1. m.pc = "allocCas" /\ head_' = head_ /\ tail_' = tail_ /\ next' = next /\ data' = data
  BY DEF AllocCas, At
<1>2. CASE pool_ # m.first /\ Allocated(t, pool_) /\ pool_' = pool_
  BY <1>1, <1>2, AllocatedStep
<1>3. CASE /\ pool_ = m.first /\ pool_' = Handle(m.after.index, get_next_tag(m.first))
           /\ Go(t, [m EXCEPT !.pc = "construct", !.n = m.first.index])
  <2>1. m \in Locals /\ w \in Nat /\ \E a \in 0 .. w : ThreadInv(m, q, f, a)
        /\ local \in [Threads -> Locals] /\ pool_ \in tagged_index
        /\ pool_.index \in 0 .. NodeCount /\ pool_.tag \in Nat
        /\ m.after.index \in 0 .. NodeCount /\ m.after \in tagged_index
    BY ThreadIs, InvIs
  <2>2. local' = [local EXCEPT ![t] = l] /\ answer' = answer
    BY <1>0, <1>3 DEF Go
  <2> HIDE DEF m
  <2>3. /\ m.first.index \in ToSet(f) /\ m.first.index \in Nodes
        /\ next[m.first.index].index = m.after.index
    BY <1>1, <1>3, <2>1 DEF ThreadInv, AllocInv
  <2>4. l \in Locals /\ l.pc = "construct" /\ l.n = pool_.index
    BY <1>0, <1>3, <2>1 DEF Locals, PushPlaces
  <2>5. /\ l.pc \notin Allocating /\ m.pc \in Allocating /\ l.pc \in Building /\ m.pc \in Building
        /\ l.pc \in Linking /\ m.pc \in Linking /\ l.pc \notin Taking /\ m.pc \notin Taking
        /\ l.pc \in Owns /\ m.pc \notin Owns
    BY <1>1, <2>4 DEF Owns, Allocating, Building, Linking, Taking, PushPlaces, PopPlaces, FreePlaces
  <2>6. /\ IsFiniteSet(Busy)'
        /\ Count(Allocating) \in Nat /\ Count(Allocating)' = Count(Allocating) - 1
        /\ Count(Allocating)' \in Nat
        /\ Count(Building)' = Count(Building) /\ Count(Linking)' = Count(Linking)
        /\ Count(Taking)' = Count(Taking)
    <3> USE DEF m
    <3> QED BY <2>2, <2>5, CountsFall
  <2>7. pool_.tag + Count(Allocating) <= 1 + calls /\ calls \in 0 .. MaxCalls
        /\ 2 * MaxCalls + 1 < TagModulus /\ MaxCalls \in Nat /\ TagModulus \in Nat
    BY InvIs DEF QueueInv, Counts
  <2>8. pool_.tag + 1 < TagModulus
    BY <2>1, <2>6, <2>7
  <2>9. pool_' \in tagged_index /\ pool_'.index = m.after.index /\ pool_'.tag = pool_.tag + 1
    BY <1>3, <2>1, <2>8, HandleIs
  <2>10. Lists(q, f) /\ Owned(q, f) /\ Counts(q, w) /\ TypeOK
    BY DEF QueueInv
  <2>11. /\ Linked(next, m.after.index, Tail(f)) /\ ToSet(Tail(f)) = ToSet(f) \ {pool_.index}
         /\ pool_.index \in ToSet(f) /\ f # <<>>
    <3>1. Linked(next, pool_.index, f) /\ pool_.index \in Nodes /\ pool_.index # null_handle
          /\ next[pool_.index].index = m.after.index
      BY <1>3, <2>3, <2>10, ConstantsAre DEF Lists
    <3>2. f # <<>> /\ pool_.index \in ToSet(f)
      BY <3>1, LinkedIs
    <3> QED BY <3>1, <3>2, LinkedTake
  <2>12. Lists(q, Tail(f))'
    BY <1>1, <2>9, <2>10, <2>11 DEF Lists
  <2>13. Owned(q, Tail(f))'
    <3>1. ToSet(q) \cup ToSet(Tail(f)) = (ToSet(q) \cup ToSet(f)) \ {l.n}
      BY <2>4, <2>10, <2>11 DEF Lists
    <3>2. l.n \in Nodes /\ l.n \in ToSet(q) \cup ToSet(f)
      BY <1>3, <2>3, <2>4
    <3> USE DEF m
    <3> QED BY <2>1, <2>2, <2>5, <2>10, <3>1, <3>2, OwnedTaken
  <2>14. Counts(q, w)'
    <3>1. (pool_.tag + Count(Allocating) <= 1 + calls)'
      BY <2>1, <2>6, <2>7, <2>9
    <3>2. /\ (head_.tag + Count(Taking) <= calls)'
          /\ (w + Count(Building) + Count(Linking) <= 2 * calls)'
          /\ (\E p \in 1 .. Len(q) :
                q[p] = tail_.index /\ tail_.tag + (Len(q) - p) + Count(Linking) <= calls)'
      BY <1>1, <2>6, <2>10 DEF Counts
    <3> QED BY <2>6, <3>1, <3>2 DEF Counts, Busy
  <2>15. TypeOK'
    <3>1. local' \in [Threads -> Locals]
      BY <2>1, <2>2, <2>4
    <3> QED BY <1>1, <2>2, <2>9, <2>10, <3>1 DEF TypeOK, Locals
  <2>16. \E a \in 0 .. w : ThreadInv(l, q, Tail(f), a)'
    <3>1. ThreadInv(l, q, Tail(f), 0)' /\ 0 \in 0 .. w
      BY <2>1, <2>4 DEF ThreadInv, AllocInv, PushInv, PopInv
    <3> QED BY <3>1
  <2>17. \A u \in Threads \ {t} :
           \A x : x = local[u] => \E a \in 0 .. w : ThreadInv(x, q, Tail(f), a)'
    <3>1. pool_.tag < pool_'.tag
      BY <2>1, <2>9
    <3> QED BY <1>1, <2>9, <3>1, PoolOthers
  <2> QED BY <2>1, <2>2, <2>12, <2>13, <2>14, <2>15, <2>16, <2>17, InvAfter
<1> QED BY <1>2, <1>3 DEF AllocCas

LEMMA FreeCasStep ==
    ASSUME NEW q, NEW f, NEW w, QueueInv(q, f, w), TagsLast,
           NEW t \in Threads, FreeCas(t), calls' = calls
    PROVE  NodesInv'
<1> DEFINE m == local[t]
<1>0. PICK e : e = <<m.n>> \o f
  OBVIOUS
<1>1. m.pc = "freeCas" /\ head_' = head_ /\ tail_' = tail_ /\ next' = next /\ data' = data
  BY DEF FreeCas, At
<1>2. CASE /\ pool_ # m.first /\ Go(t, [m EXCEPT !.pc = "freeNext", !.first = pool_])
           /\ pool_' = pool_
  BY <1>1, <1>2, FreeAgainStep
<1>3. CASE pool_ = m.first /\ Return(t, m.arg) /\ pool_' = Handle(m.n, m.first.tag)
  <2>1. m \in Locals /\ w \in Nat /\ \E a \in 0 .. w : ThreadInv(m, q, f, a)
        /\ local \in [Threads -> Locals] /\ pool_ \in tagged_index
        /\ m.n \in 0 .. NodeCount /\ m.arg \in 0 .. MaxCalls
        /\ answer \in [Threads -> 0 .. MaxCalls]
    BY ThreadIs, InvIs
  <2>2. local' = [local EXCEPT ![t] = Idle] /\ answer' = [answer EXCEPT ![t] = m.arg]
    BY <1>3 DEF Return
  <2>3. /\ m.pc \in Owns /\ m.pc \notin Allocating /\ m.pc \notin Building
        /\ m.pc \notin Linking /\ m.pc \notin Taking
    BY <1>1 DEF Owns, Allocating, Building, Linking, Taking, PushPlaces, PopPlaces, FreePlaces
  <2>4. Lists(q, f) /\ Owned(q, f) /\ Counts(q, w) /\ TypeOK
    BY DEF QueueInv
  <2>5. m.n \in Nodes /\ m.n \notin ToSet(q) /\ m.n \notin ToSet(f)
    BY <2>3, <2>4 DEF Owned, Owners
  <2> HIDE DEF m
  <2>6. next[m.n].index = pool_.index
    BY <1>1, <1>3, <2>1 DEF ThreadInv, PopInv
  <2>7. pool_' \in tagged_index /\ pool_'.index = m.n /\ pool_'.tag = pool_.tag
    BY <1>3, <2>1, HandleIs
  <2>8. Linked(next, m.n, e) /\ ToSet(e) = ToSet(f) \cup {m.n}
    BY <1>0, <2>4, <2>5, <2>6, LinkedPush DEF Lists
  <2>9. Lists(q, e)'
    BY <1>1, <2>4, <2>5, <2>7, <2>8 DEF Lists
  <2>10. Owned(q, e)'
    <3>1. ToSet(q) \cup ToSet(e) = ToSet(q) \cup ToSet(f) \cup {m.n}
      BY <2>8
    <3>2. Idle.pc \notin Owns
      BY IdleIs
    <3> USE DEF m
    <3> QED BY <2>1, <2>2, <2>3, <2>4, <3>1, <3>2, OwnedGiven
  <2>11. Counts(q, w)'
    <3>1. /\ IsFiniteSet(Busy)'
          /\ Count(Allocating)' = Count(Allocating) /\ Count(Building)' = Count(Building)
          /\ Count(Linking)' = Count(Linking) /\ Count(Taking)' = Count(Taking)
      <4> USE DEF m
      <4> QED BY <2>2, <2>3, IdleIs, CountsFall
    <3> QED BY <1>1, <2>4, <2>7, <3>1 DEF Counts, Busy
  <2>12. TypeOK'
    <3>1. local' \in [Threads -> Locals] /\ answer' \in [Threads -> 0 .. MaxCalls]
      BY <2>1, <2>2, IdleIs
    <3> QED BY <1>1, <2>4, <2>7, <3>1 DEF TypeOK, Locals
  <2>13. \E a \in 0 .. w : ThreadInv(Idle, q, e, a)'
    <3>1. ThreadInv(Idle, q, e, 0)' /\ 0 \in 0 .. w
      BY <2>1, IdleIs DEF ThreadInv, AllocInv, PushInv, PopInv
    <3> QED BY <3>1
  <2>14. \A u \in Threads \ {t} :
           \A x : x = local[u] => \E a \in 0 .. w : ThreadInv(x, q, e, a)'
    BY <1>1, <2>7, <2>8, PoolOthers
  <2> QED BY <2>1, <2>2, <2>9, <2>10, <2>11, <2>12, <2>13, <2>14, InvAfter
<1> QED BY <1>2, <1>3 DEF FreeCas


-----------------------------------------------------------------------------
(* A link changes *)

\* The new link of n has the tag it had, or the next one.
LinkChange(q, p, w, n, h, v) ==
    /\ next'[n] = h /\ \A m \in Nodes : m # n => next'[m] = next[m]
    /\ ToSet(q) \subseteq ToSet(p)
    /\ \/ n \notin ToSet(q) /\ h.tag = next[n].tag /\ v = w
       \/ h.tag = (next[n].tag + 1) % TagModulus /\ v = w + 1

\* The other threads, when the link of a node n changes that none of them has,
\* that is not free, and that is in the queue only as its last node.
LEMMA LinkOthers ==
    ASSUME NEW q, NEW f, NEW w, QueueInv(q, f, w), TagsLast, NEW p, NEW v,
           NEW t \in Threads, NEW n \in Nodes, NEW h \in tagged_index,
           head_' = head_, tail_' = tail_, pool_' = pool_,
           n \notin ToSet(f), n \in ToSet(q) => next[n].index = null_handle,
           LinkChange(q, p, w, n, h, v), \A u \in Owners \ {t} : local[u].n # n
    PROVE  \A u \in Threads \ {t} : \A x : x = local[u] => \E b \in 0 .. v : ThreadInv(x, p, f, b)'
<1> SUFFICES ASSUME NEW u \in Threads \ {t}, NEW x, x = local[u]
             PROVE  \E b \in 0 .. v : ThreadInv(x, p, f, b)'
  OBVIOUS
<1>1. x \in Locals /\ (\E a \in 0 .. w : ThreadInv(x, q, f, a))
      /\ (x.pc \in Owns => x.n \in Nodes /\ x.n # n) /\ w \in Nat /\ w + 1 < TagModulus
      /\ next \in [Nodes -> tagged_index] /\ TagModulus \in Nat
      /\ x.after.tag \in 0 .. (TagModulus - 1)
  BY ThreadIs, InvIs DEF Owners
<1>2. PICK a \in 0 .. w : ThreadInv(x, q, f, a)
  BY <1>1
<1>3. /\ next'[n] = h /\ \A m \in Nodes : m # n => next'[m] = next[m]
      /\ ToSet(q) \subseteq ToSet(p)
  BY DEF LinkChange
<1>4. tail_.index \in ToSet(q) /\ head_.index \in ToSet(q) /\ ToSet(f) \subseteq Nodes
      /\ ToSet(q) \subseteq Nodes
  BY HeadIs, LinkedIs DEF QueueInv, Lists
<1>5. AllocInv(x, f)'
  BY <1>2, <1>3, <1>4 DEF ThreadInv, AllocInv
<1>6. PopInv(x)'
  <2>1. PopInv(x)
    BY <1>2 DEF ThreadInv
  <2>2. x.pc \in FreePlaces => next'[x.n] = next[x.n]
    BY <1>1, <1>3 DEF Owns
  <2>3. x.pc = "freeCas" => x.pc \in FreePlaces
    BY DEF FreePlaces
  <2>4. ASSUME NEW m \in ToSet(q), next[m].index # null_handle PROVE next'[m] = next[m]
    BY <1>3, <1>4, <2>4
  <2> QED BY <1>4, <2>1, <2>2, <2>3, <2>4 DEF PopInv
<1>7. \E b \in 0 .. v : PushInv(x, p, b)'
  <2>1. PushInv(x, q, a)
    BY <1>2 DEF ThreadInv
  <2>2. x.pc \in {"constructNext"} \cup Joining => next'[x.n] = next[x.n]
    <3>1. x.pc \in {"constructNext"} \cup Joining => x.pc \in Owns
      BY DEF Joining, Owns, PushPlaces
    <3> QED BY <1>1, <1>3, <3>1
  <2>3. ASSUME NEW m \in ToSet(q), next[m].index # null_handle PROVE next'[m] = next[m]
    BY <1>3, <1>4, <2>3
  <2>4. x.pc \in {"pushNext", "pushCheck", "pushLink", "pushHelp", "pushSwing"} =>
          x.first.index \in Nodes
    BY <2>1 DEF PushInv
  <2>5. ASSUME NEW b,
               x.pc \in {"pushCheck", "pushLink"} =>
                 next'[x.first.index].tag = (x.after.tag + b) % TagModulus,
               x.pc \in {"pushCheck", "pushLink"} /\ b = 0 => a = 0 /\ next'[x.first.index] = next[x.first.index]
        PROVE  PushInv(x, p, b)'
    <3>1. /\ x.pc = "constructNext" => next'[x.n].tag = x.after.tag
          /\ x.pc \in {"pushNext", "pushCheck", "pushLink", "pushHelp", "pushSwing"} =>
               x.first.index \in Nodes /\ x.first.tag <= tail_'.tag
          /\ x.pc \in {"pushTail", "pushNext", "pushCheck", "pushLink", "pushHelp"} =>
               next'[x.n].index = null_handle
          /\ x.pc = "pushHelp" => x.after.index # null_handle
          /\ x.pc = "pushLink" => x.after.index = null_handle
          /\ x.pc = "pushSwing" => x.n \in Nodes
      BY <2>1, <2>2 DEF PushInv, Joining
    <3>2. x.pc \in {"pushCheck", "pushHelp"} /\ tail_' = x.first /\ x.after.index # null_handle =>
            next'[x.first.index].index = x.after.index
      BY <1>4, <2>1, <2>3 DEF PushInv
    <3>3. x.pc = "pushSwing" /\ tail_' = x.first => next'[x.first.index].index = x.n
      BY <1>4, <2>1, <2>3, ConstantsAre DEF PushInv
    <3>4. x.pc = "pushCheck" /\ tail_' = x.first /\ x.after.index = null_handle /\ b = 0 =>
            EndOf(p, x.first.index)'
      BY <1>3, <2>1, <2>5 DEF PushInv, EndOf
    <3>5. x.pc = "pushLink" /\ b = 0 => EndOf(p, x.first.index)'
      BY <1>3, <2>1, <2>5 DEF PushInv, EndOf
    <3> QED BY <2>5, <3>1, <3>2, <3>3, <3>4, <3>5 DEF PushInv
  <2>6. x.pc \in {"pushCheck", "pushLink"} =>
          next[x.first.index].tag = (x.after.tag + a) % TagModulus
    BY <2>1 DEF PushInv
  <2>7. CASE ~(x.pc \in {"pushCheck", "pushLink"} /\ x.first.index = n)
    <3>1. x.pc \in {"pushCheck", "pushLink"} => next'[x.first.index] = next[x.first.index]
      BY <1>3, <2>4, <2>7
    <3>2. PushInv(x, p, a)'
      BY <2>5, <2>6, <3>1
    <3>3. a \in 0 .. v
      BY <1>1 DEF LinkChange
    <3> QED BY <3>2, <3>3
  <2>8. CASE x.pc \in {"pushCheck", "pushLink"} /\ x.first.index = n
             /\ n \notin ToSet(q) /\ h.tag = next[n].tag /\ v = w
    <3>1. next'[x.first.index].tag = (x.after.tag + a) % TagModulus
      BY <1>3, <2>6, <2>8
    <3>2. x.pc \in {"pushLink"} => a # 0
      BY <2>1, <2>8 DEF PushInv, EndOf
    <3>3. tail_ # x.first
      BY <1>4, <2>8
    <3>4. PushInv(x, p, a)'
      BY <1>3, <2>1, <2>2, <2>4, <2>8, <3>1, <3>2, <3>3 DEF PushInv, Joining
    <3> QED BY <2>8, <3>4
  <2>9. CASE x.pc \in {"pushCheck", "pushLink"} /\ x.first.index = n
             /\ h.tag = (next[n].tag + 1) % TagModulus /\ v = w + 1
    <3>1. h.tag = (x.after.tag + (a + 1)) % TagModulus
      <4>1. a \in Nat /\ a + 1 < TagModulus
        BY <1>1
      <4> QED BY <1>1, <2>6, <2>9, <4>1, TagStep
    <3>2. next'[x.first.index].tag = (x.after.tag + (a + 1)) % TagModulus
      BY <1>3, <2>9, <3>1
    <3>3. a + 1 \in 0 .. v /\ a + 1 # 0
      BY <1>1, <2>9
    <3>4. PushInv(x, p, a + 1)'
      BY <2>5, <3>2, <3>3
    <3> QED BY <3>3, <3>4
  <2> QED BY <2>7, <2>8, <2>9 DEF LinkChange
<1> QED BY <1>5, <1>6, <1>7 DEF ThreadInv


LEMMA ConstructNextStep ==
    ASSUME NEW q, NEW f, NEW w, QueueInv(q, f, w), TagsLast,
           NEW t \in Threads, ConstructNext(t), calls' = calls
    PROVE  NodesInv'
<1> DEFINE m == local[t]
<1>0. PICK l, n, h, v : l = [m EXCEPT !.pc = "pushTail"] /\ n = m.n
                     /\ h = Handle(null_handle, get_next_tag(m.after)) /\ v = w + 1
  BY Zenon
<1>1. /\ m.pc = "constructNext" /\ Go(t, l) /\ next' = [next EXCEPT ![n] = h]
      /\ head_' = head_ /\ tail_' = tail_ /\ pool_' = pool_ /\ data' = data
  BY <1>0 DEF ConstructNext, At, GoTo
<1>2. m \in Locals /\ w \in Nat /\ (\E a \in 0 .. w : ThreadInv(m, q, f, a))
      /\ local \in [Threads -> Locals] /\ m.after \in tagged_index
      /\ next \in [Nodes -> tagged_index] /\ calls \in 0 .. MaxCalls /\ MaxCalls \in Nat
      /\ null_handle \in 0 .. NodeCount
  BY ThreadIs, InvIs, ConstantsAre, SMTT(30)
<1>3. local' = [local EXCEPT ![t] = l] /\ answer' = answer
  BY <1>1 DEF Go
<1>4. Lists(q, f) /\ Owned(q, f) /\ Counts(q, w) /\ TypeOK
  BY DEF QueueInv
<1>5. m.pc \in Owns /\ t \in Owners
  BY <1>1 DEF Owns, PushPlaces, Owners
<1>6. n \in Nodes /\ n \notin ToSet(q) /\ n \notin ToSet(f) /\ \A u \in Owners \ {t} : local[u].n # n
  BY <1>0, <1>4, <1>5 DEF Owned
<1> HIDE DEF m
<1>7. next[n].tag = m.after.tag
  BY <1>0, <1>1, <1>2 DEF ThreadInv, PushInv
<1>8. h \in tagged_index /\ h.index = null_handle /\ h.tag = (next[n].tag + 1) % TagModulus
  BY <1>0, <1>2, <1>7, HandleIs
<1>9. next' \in [Nodes -> tagged_index] /\ next'[n] = h
      /\ \A k \in Nodes : k # n => next'[k] = next[k]
  BY <1>1, <1>2, <1>6, <1>8
<1>10. l \in Locals /\ l.pc = "pushTail" /\ l.n = n
  BY <1>0, <1>2 DEF Locals, PushPlaces
<1>11. /\ l.pc \in Owns /\ l.pc \notin Allocating /\ m.pc \notin Allocating
       /\ l.pc \notin Building /\ m.pc \in Building
       /\ l.pc \in Linking /\ m.pc \in Linking /\ l.pc \notin Taking /\ m.pc \notin Taking
  BY <1>1, <1>10 DEF Owns, Allocating, Building, Linking, Taking, PushPlaces, PopPlaces, FreePlaces
<1>12. Lists(q, f)'
  <2>1. Linked(next', head_.index, q) /\ Linked(next', pool_.index, f)
    <3>1. /\ ToSet(q) \subseteq Nodes /\ ToSet(f) \subseteq Nodes
          /\ Linked(next, head_.index, q) /\ Linked(next, pool_.index, f)
      BY <1>4, LinkedIs DEF Lists
    <3> QED BY <1>6, <1>9, <3>1, LinkedKept
  <2> QED BY <1>1, <1>4, <2>1 DEF Lists
<1>13. Owned(q, f)'
  <2> USE DEF m
  <2> QED BY <1>0, <1>2, <1>3, <1>4, <1>5, <1>10, <1>11, OwnedKept
<1>14. Counts(q, v)'
  <2>1. /\ IsFiniteSet(Busy)'
        /\ Count(Allocating)' = Count(Allocating) /\ Count(Building)' = Count(Building) - 1
        /\ Count(Linking)' = Count(Linking) /\ Count(Taking)' = Count(Taking)
        /\ Count(Building) \in Nat /\ Count(Building)' \in Nat /\ Count(Linking) \in Nat
    <3> USE DEF m
    <3> QED BY <1>3, <1>11, CountsFall
  <2>2. v + Count(Building)' + Count(Linking)' <= 2 * calls'
    <3>1. w + Count(Building) + Count(Linking) <= 2 * calls
      BY <1>4 DEF Counts
    <3> QED BY <1>0, <1>2, <2>1, <3>1
  <2> QED BY <1>1, <1>4, <2>1, <2>2 DEF Counts, Busy
<1>15. TypeOK'
  <2>1. local' \in [Threads -> Locals]
    BY <1>2, <1>3, <1>10
  <2> QED BY <1>1, <1>3, <1>4, <1>9, <2>1 DEF TypeOK, Locals
<1>16. \E a \in 0 .. v : ThreadInv(l, q, f, a)'
  <2>1. next'[l.n].index = null_handle
    BY <1>8, <1>9, <1>10
  <2>2. ThreadInv(l, q, f, 0)' /\ 0 \in 0 .. v
    BY <1>0, <1>2, <1>10, <2>1 DEF ThreadInv, AllocInv, PushInv, PopInv
  <2> QED BY <2>2
<1>17. \A u \in Threads \ {t} :
         \A x : x = local[u] => \E a \in 0 .. v : ThreadInv(x, q, f, a)'
  <2>1. LinkChange(q, q, w, n, h, v)
    BY <1>0, <1>8, <1>9 DEF LinkChange
  <2> QED BY <1>1, <1>6, <1>8, <2>1, LinkOthers
<1>18. v \in Nat
  BY <1>0, <1>2
<1> QED BY <1>3, <1>12, <1>13, <1>14, <1>15, <1>16, <1>17, <1>18, InvAfter

LEMMA FreeNextStep ==
    ASSUME NEW q, NEW f, NEW w, QueueInv(q, f, w), TagsLast,
           NEW t \in Threads, FreeNext(t), calls' = calls
    PROVE  NodesInv'
<1> DEFINE m == local[t]
<1>0. PICK l, n, h : l = [m EXCEPT !.pc = "freeCas"] /\ n = m.n
                     /\ h = [next[n] EXCEPT !.index = m.first.index]
  OBVIOUS
<1>1. /\ m.pc = "freeNext" /\ Go(t, l) /\ next' = [next EXCEPT ![n] = h]
      /\ head_' = head_ /\ tail_' = tail_ /\ pool_' = pool_ /\ data' = data
  BY <1>0 DEF FreeNext, At, GoTo
<1>2. m \in Locals /\ w \in Nat /\ local \in [Threads -> Locals] /\ m.first \in tagged_index
      /\ next \in [Nodes -> tagged_index]
  BY ThreadIs, InvIs
<1>3. local' = [local EXCEPT ![t] = l] /\ answer' = answer
  BY <1>1 DEF Go
<1>4. Lists(q, f) /\ Owned(q, f) /\ Counts(q, w) /\ TypeOK
  BY DEF QueueInv
<1>5. m.pc \in Owns /\ t \in Owners
  BY <1>1 DEF Owns, FreePlaces, Owners
<1>6. n \in Nodes /\ n \notin ToSet(q) /\ n \notin ToSet(f) /\ \A u \in Owners \ {t} : local[u].n # n
  BY <1>0, <1>4, <1>5 DEF Owned
<1> HIDE DEF m
<1>7. h \in tagged_index /\ h.index = m.first.index /\ h.tag = next[n].tag
  <2>1. next[n] \in tagged_index /\ m.first.index \in 0 .. NodeCount
    BY <1>2, <1>6, InvIs
  <2> QED BY <1>0, <2>1 DEF tagged_index
<1>8. next' \in [Nodes -> tagged_index] /\ next'[n] = h
      /\ \A k \in Nodes : k # n => next'[k] = next[k]
  BY <1>1, <1>2, <1>6, <1>7
<1>9. l \in Locals /\ l.pc = "freeCas" /\ l.n = n /\ l.first = m.first
  BY <1>0, <1>2 DEF Locals, PopPlaces, FreePlaces
<1>10. /\ l.pc \in Owns /\ l.pc \notin Allocating /\ m.pc \notin Allocating
       /\ l.pc \notin Building /\ m.pc \notin Building
       /\ l.pc \notin Linking /\ m.pc \notin Linking /\ l.pc \notin Taking /\ m.pc \notin Taking
  BY <1>1, <1>9 DEF Owns, Allocating, Building, Linking, Taking, PushPlaces, PopPlaces, FreePlaces
<1>11. Lists(q, f)'
  <2>1. Linked(next', head_.index, q) /\ Linked(next', pool_.index, f)
    <3>1. /\ ToSet(q) \subseteq Nodes /\ ToSet(f) \subseteq Nodes
          /\ Linked(next, head_.index, q) /\ Linked(next, pool_.index, f)
      BY <1>4, LinkedIs DEF Lists
    <3> QED BY <1>6, <1>8, <3>1, LinkedKept
  <2> QED BY <1>1, <1>4, <2>1 DEF Lists
<1>12. Owned(q, f)'
  <2> USE DEF m
  <2> QED BY <1>0, <1>2, <1>3, <1>4, <1>5, <1>9, <1>10, OwnedKept
<1>13. Counts(q, w)'
  <2>1. /\ IsFiniteSet(Busy)'
        /\ Count(Allocating)' = Count(Allocating) /\ Count(Building)' = Count(Building)
        /\ Count(Linking)' = Count(Linking) /\ Count(Taking)' = Count(Taking)
    <3> USE DEF m
    <3> QED BY <1>3, <1>10, CountsFall
  <2> QED BY <1>1, <1>4, <2>1 DEF Counts, Busy
<1>14. TypeOK'
  <2>1. local' \in [Threads -> Locals]
    BY <1>2, <1>3, <1>9
  <2> QED BY <1>1, <1>3, <1>4, <1>8, <2>1 DEF TypeOK, Locals
<1>15. \E a \in 0 .. w : ThreadInv(l, q, f, a)'
  <2>1. next'[l.n].index = l.first.index
    BY <1>7, <1>8, <1>9
  <2>2. ThreadInv(l, q, f, 0)' /\ 0 \in 0 .. w
    BY <1>2, <1>9, <2>1 DEF ThreadInv, AllocInv, PushInv, PopInv
  <2> QED BY <2>2
<1>16. \A u \in Threads \ {t} :
         \A x : x = local[u] => \E a \in 0 .. w : ThreadInv(x, q, f, a)'
  <2>1. LinkChange(q, q, w, n, h, w)
    BY <1>6, <1>7, <1>8 DEF LinkChange
  <2> QED BY <1>1, <1>6, <1>7, <2>1, LinkOthers
<1> QED BY <1>2, <1>3, <1>11, <1>12, <1>13, <1>14, <1>15, <1>16, InvAfter

LEMMA PushLinkStep ==
    ASSUME NEW q, NEW f, NEW w, QueueInv(q, f, w), TagsLast,
           NEW t \in Threads, PushLink(t), calls' = calls
    PROVE  NodesInv'
<1> DEFINE m == local[t]
           last == m.first.index
<1>1. m.pc = "pushLink" /\ head_' = head_ /\ tail_' = tail_ /\ pool_' = pool_ /\ data' = data
  BY DEF PushLink, At
<1>2. CASE next[last] # m.after /\ GoTo(t, "pushTail") /\ next' = next
  BY <1>1, <1>2, AgainStep
<1>3. CASE /\ next[last] = m.after /\ GoTo(t, "pushSwing")
           /\ next' = [next EXCEPT ![last] = Handle(m.n, get_next_tag(m.after))]
  <2>1. PICK l, k, n, h, p, v :
          /\ l = [m EXCEPT !.pc = "pushSwing"] /\ k = last /\ n = m.n
          /\ h = Handle(n, get_next_tag(m.after)) /\ p = Append(q, n)
          /\ v = w + 1
    OBVIOUS
  <2>2. m \in Locals /\ w \in Nat /\ (\E a \in 0 .. w : ThreadInv(m, q, f, a))
        /\ w + 1 < TagModulus /\ TagModulus \in Nat
        /\ local \in [Threads -> Locals] /\ m.after \in tagged_index
        /\ m.after.tag \in 0 .. (TagModulus - 1)
        /\ next \in [Nodes -> tagged_index] /\ calls \in 0 .. MaxCalls /\ MaxCalls \in Nat
    BY ThreadIs, InvIs
  <2>3. local' = [local EXCEPT ![t] = l] /\ answer' = answer /\ next' = [next EXCEPT ![k] = h]
    BY <1>3, <2>1 DEF GoTo, Go
  <2>4. Lists(q, f) /\ Owned(q, f) /\ Counts(q, w) /\ TypeOK
    BY DEF QueueInv
  <2>5. m.pc \in Owns /\ t \in Owners
    BY <1>1 DEF Owns, PushPlaces, Owners
  <2>6. n \in Nodes /\ n \notin ToSet(q) /\ n \notin ToSet(f)
    BY <2>1, <2>4, <2>5 DEF Owned
  <2> HIDE DEF m
  <2>7. k \in ToSet(q) /\ next[k].index = null_handle /\ next[k] = m.after
        /\ m.first.tag <= tail_.tag /\ next[n].index = null_handle
    <3>1. PICK a \in 0 .. w : ThreadInv(m, q, f, a)
      BY <2>2
    <3>2. /\ next[k].tag = (m.after.tag + a) % TagModulus
          /\ a = 0 => EndOf(q, k)
          /\ m.first.tag <= tail_.tag /\ next[n].index = null_handle
      BY <1>1, <2>1, <3>1 DEF ThreadInv, PushInv
    <3>3. (m.after.tag + a) % TagModulus = m.after.tag
      BY <1>3, <2>1, <3>2
    <3>4. a = 0
      <4>1. a \in Nat /\ a < TagModulus
        BY <2>2
      <4> QED BY <2>2, <3>3, <4>1, TagSame
    <3> QED BY <1>3, <2>1, <3>2, <3>4 DEF EndOf
  <2>8. k \in Nodes /\ k \notin ToSet(f) /\ \A u \in Owners \ {t} : local[u].n # k
    <3>1. k \in Nodes /\ k \notin ToSet(f)
      BY <2>4, <2>7, LinkedIs DEF Lists
    <3> QED BY <2>4, <2>7, <3>1 DEF Owned
  <2>9. h \in tagged_index /\ h.index = n /\ h.tag = (next[k].tag + 1) % TagModulus
    <3>1. n \in 0 .. NodeCount
      BY <2>6, ConstantsAre
    <3> QED BY <2>1, <2>2, <2>7, <3>1, HandleIs
  <2>10. next' \in [Nodes -> tagged_index] /\ next'[k] = h
         /\ \A i \in Nodes : i # k => next'[i] = next[i]
    BY <2>2, <2>3, <2>8, <2>9
  <2>11. l \in Locals /\ l.pc = "pushSwing" /\ l.n = n /\ l.first = m.first
    BY <2>1, <2>2 DEF Locals, PushPlaces
  <2>12. /\ l.pc \notin Owns /\ l.pc \notin Allocating /\ m.pc \notin Allocating
         /\ l.pc \notin Building /\ m.pc \notin Building
         /\ l.pc \notin Linking /\ m.pc \in Linking /\ l.pc \notin Taking /\ m.pc \notin Taking
    BY <1>1, <2>11 DEF Owns, Allocating, Building, Linking, Taking, PushPlaces, PopPlaces, FreePlaces
  <2>13. /\ Linked(next', head_.index, p) /\ ToSet(p) = ToSet(q) \cup {n}
         /\ Len(p) = Len(q) + 1 /\ \A i \in 1 .. Len(q) : p[i] = q[i]
         /\ Len(q) \in Nat
    <3>1. Linked(next, head_.index, q)
      BY <2>4 DEF Lists
    <3>2. Len(q) \in Nat
      BY <3>1, LinkedIs
    <3>3. /\ Linked(next', head_.index, Append(q, n))
          /\ ToSet(Append(q, n)) = ToSet(q) \cup {n}
          /\ Len(Append(q, n)) = Len(q) + 1 /\ \A i \in 1 .. Len(q) : Append(q, n)[i] = q[i]
      BY <2>6, <2>7, <2>9, <2>10, <3>1, LinkedAppend
    <3> QED BY <2>1, <2>3, <3>2, <3>3
  <2>14. Lists(p, f)'
    <3>1. Linked(next', pool_.index, f)
      <4>1. ToSet(f) \subseteq Nodes /\ Linked(next, pool_.index, f)
        BY <2>4, LinkedIs DEF Lists
      <4> QED BY <2>8, <2>10, <4>1, LinkedKept
    <3> QED BY <1>1, <2>4, <2>6, <2>13, <3>1 DEF Lists
  <2>15. Owned(p, f)'
    <3>1. ToSet(p) \cup ToSet(f) = ToSet(q) \cup ToSet(f) \cup {local[t].n}
      BY <2>1, <2>13 DEF m
    <3> USE DEF m
    <3> QED BY <2>2, <2>3, <2>4, <2>5, <2>12, <3>1, OwnedGiven
  <2>16. Counts(p, v)'
    <3>1. /\ IsFiniteSet(Busy)'
          /\ Count(Allocating)' = Count(Allocating) /\ Count(Building)' = Count(Building)
          /\ Count(Linking)' = Count(Linking) - 1 /\ Count(Taking)' = Count(Taking)
          /\ Count(Linking) \in Nat /\ Count(Linking)' \in Nat /\ Count(Building) \in Nat
      <4> USE DEF m
      <4> QED BY <2>3, <2>12, CountsFall
    <3>2. v + Count(Building)' + Count(Linking)' <= 2 * calls'
      <4>1. w + Count(Building) + Count(Linking) <= 2 * calls
        BY <2>4 DEF Counts
      <4> QED BY <2>1, <2>2, <3>1, <4>1
    <3>3. \E i \in 1 .. Len(p) :
            p[i] = tail_'.index /\ tail_'.tag + (Len(p) - i) + Count(Linking)' <= calls'
      <4>1. PICK i \in 1 .. Len(q) :
              q[i] = tail_.index /\ tail_.tag + (Len(q) - i) + Count(Linking) <= calls
        BY <2>4 DEF Counts
      <4>2. i \in 1 .. Len(p) /\ p[i] = tail_.index
        BY <2>13, <4>1
      <4>3. tail_.tag \in Nat
        BY InvIs
      <4>4. tail_.tag + (Len(p) - i) + Count(Linking)' <= calls
        <5>1. Len(q) \in Nat /\ Len(p) = Len(q) + 1 /\ calls \in Nat
          BY <2>2, <2>13
        <5>2. Count(Linking)' = Count(Linking) - 1 /\ Count(Linking) \in Nat
          BY <3>1
        <5> QED BY <4>1, <4>3, <5>1, <5>2
      <4> QED BY <1>1, <4>2, <4>4
    <3> QED BY <1>1, <2>4, <3>1, <3>2, <3>3 DEF Counts, Busy
  <2>17. TypeOK'
    <3>1. local' \in [Threads -> Locals]
      BY <2>2, <2>3, <2>11
    <3> QED BY <1>1, <2>3, <2>4, <2>10, <3>1 DEF TypeOK, Locals
  <2>18. \E a \in 0 .. v : ThreadInv(l, p, f, a)'
    <3>1. l.first.index = k /\ next'[l.first.index].index = l.n /\ l.first.tag <= tail_'.tag
      BY <1>1, <2>1, <2>7, <2>9, <2>10, <2>11
    <3>2. ThreadInv(l, p, f, 0)' /\ 0 \in 0 .. v
      BY <2>1, <2>2, <2>6, <2>8, <2>11, <3>1 DEF ThreadInv, AllocInv, PushInv, PopInv
    <3> QED BY <3>2
  <2>19. \A u \in Threads \ {t} :
           \A x : x = local[u] => \E a \in 0 .. v : ThreadInv(x, p, f, a)'
    <3>1. LinkChange(q, p, w, k, h, v)
      BY <2>1, <2>9, <2>10, <2>13 DEF LinkChange
    <3> QED BY <1>1, <2>3, <2>7, <2>8, <2>9, <3>1, LinkOthers
  <2>20. v \in Nat
    BY <2>1, <2>2
  <2> QED BY <2>3, <2>14, <2>15, <2>16, <2>17, <2>18, <2>19, <2>20, InvAfter
<1> QED BY <1>2, <1>3 DEF PushLink


-----------------------------------------------------------------------------
(* The tail *)

\* The tail goes on to the node it links to, in a step of thread t that then
\* returns or begins its loop again.
LEMMA SwingStep ==
    ASSUME NEW q, NEW f, NEW w, QueueInv(q, f, w), TagsLast,
           NEW t \in Threads, NEW l \in Locals, local' = [local EXCEPT ![t] = l],
           NEW to \in Nodes, next[tail_.index].index = to,
           tail_' = Handle(to, get_next_tag(tail_)),
           head_' = head_, pool_' = pool_, next' = next, calls' = calls, data' = data,
           answer' \in [Threads -> 0 .. MaxCalls],
           l.pc \in {"idle", "pushTail", "popHead"},
           l.pc \in Owns <=> local[t].pc \in Owns, l.pc \in Owns => l.n = local[t].n,
           l.pc \in Allocating => local[t].pc \in Allocating,
           l.pc \in Building => local[t].pc \in Building,
           l.pc \in Linking => local[t].pc \in Linking,
           l.pc \in Taking => local[t].pc \in Taking,
           l.pc = "pushTail" => next[l.n].index = null_handle
    PROVE  NodesInv'
<1>1. /\ local \in [Threads -> Locals] /\ w \in Nat /\ calls \in 0 .. MaxCalls
      /\ MaxCalls \in Nat /\ TagModulus \in Nat /\ 2 * MaxCalls + 1 < TagModulus
      /\ tail_ \in tagged_index /\ tail_.tag \in Nat /\ to \in 0 .. NodeCount
      /\ Lists(q, f) /\ Owned(q, f) /\ Counts(q, w) /\ TypeOK
  BY InvIs, ConstantsAre DEF QueueInv
<1>n. /\ calls \in Nat /\ calls <= MaxCalls /\ MaxCalls \in Nat /\ TagModulus \in Nat
      /\ 2 * MaxCalls + 1 < TagModulus /\ tail_.tag \in Nat /\ w \in Nat /\ calls' = calls
  BY <1>1
<1>m. calls \in Nat /\ calls' = calls /\ w \in Nat
  BY <1>n
<1>2. /\ IsFiniteSet(Busy)'
      /\ Count(Allocating)' <= Count(Allocating) /\ Count(Building)' <= Count(Building)
      /\ Count(Linking)' <= Count(Linking) /\ Count(Taking)' <= Count(Taking)
  BY CountsFall
<1>3. /\ Count(Allocating) \in Nat /\ Count(Building) \in Nat
      /\ Count(Linking) \in Nat /\ Count(Taking) \in Nat
      /\ Count(Allocating)' \in Nat /\ Count(Building)' \in Nat
      /\ Count(Linking)' \in Nat /\ Count(Taking)' \in Nat
  BY CountsFall
<1>4. PICK p \in 1 .. Len(q) :
        q[p] = tail_.index /\ tail_.tag + (Len(q) - p) + Count(Linking) <= calls
  BY <1>1 DEF Counts
<1>5. Len(q) \in Nat /\ p # Len(q) /\ p + 1 \in 1 .. Len(q) /\ q[p + 1] = to
      /\ q[p + 1] \in ToSet(q)
  <2>1. Linked(next, head_.index, q)
    BY <1>1 DEF Lists
  <2>2. p # Len(q)
    BY <1>4, <2>1, LinkInList, ConstantsAre
  <2>3. p + 1 \in 1 .. Len(q) /\ q[p + 1] = to
    BY <1>4, <2>1, <2>2, LinkInList
  <2> QED BY <2>1, <2>2, <2>3, LinkedIs
<1>6. tail_.tag + 1 < TagModulus
  <2>1. Len(q) - p \in Nat /\ Len(q) - p >= 1
    BY <1>5
  <2>2. Count(Linking) \in Nat /\ tail_.tag + (Len(q) - p) + Count(Linking) <= calls
    BY <1>3, <1>4
  <2> QED BY <1>n, <2>1, <2>2
<1>7. tail_' \in tagged_index /\ tail_'.index = to /\ tail_'.tag = tail_.tag + 1
  BY <1>1, <1>6, HandleIs
<1>8. tail_'.index # head_.index
  <2>1. q[1] = head_.index /\ 1 \in 1 .. Len(q) /\ p + 1 # 1
    BY <1>5, HeadIs
  <2>2. \A i, j \in 1 .. Len(q) : q[i] = q[j] => i = j
    BY <1>1, LinkedIs DEF Lists
  <2> QED BY <1>5, <1>7, <2>1, <2>2
<1>9. TypeOK'
  <2>1. local' \in [Threads -> Locals]
    BY <1>1
  <2> QED BY <1>1, <1>7, <2>1 DEF TypeOK, Locals
<1>10. Lists(q, f)'
  BY <1>1, <1>5, <1>7 DEF Lists
<1>11. Owned(q, f)'
  BY <1>1, OwnedKept
<1>12. Counts(q, w)'
  <2>1. /\ (pool_.tag + Count(Allocating) <= 1 + calls)'
        /\ (head_.tag + Count(Taking) <= calls)'
        /\ (w + Count(Building) + Count(Linking) <= 2 * calls)'
    <3>1. /\ pool_.tag + Count(Allocating) <= 1 + calls
          /\ head_.tag + Count(Taking) <= calls
          /\ w + Count(Building) + Count(Linking) <= 2 * calls
      BY <1>1 DEF Counts
    <3>2. pool_.tag \in Nat /\ head_.tag \in Nat
      BY InvIs
    <3>3. pool_'.tag = pool_.tag /\ head_'.tag = head_.tag
      OBVIOUS
    <3>4. (pool_.tag + Count(Allocating) <= 1 + calls)'
      <4>1. \A x, y, z \in Nat : x + y <= 1 + calls /\ z <= y => x + z <= 1 + calls
        BY <1>m
      <4>2. pool_.tag + Count(Allocating)' <= 1 + calls
        BY <1>2, <1>3, <3>1, <3>2, <4>1
      <4> QED BY <1>m, <3>3, <4>2
    <3>5. (head_.tag + Count(Taking) <= calls)'
      <4>1. \A x, y, z \in Nat : x + y <= calls /\ z <= y => x + z <= calls
        BY <1>m
      <4>2. head_.tag + Count(Taking)' <= calls
        BY <1>2, <1>3, <3>1, <3>2, <4>1
      <4> QED BY <1>m, <3>3, <4>2
    <3>6. (w + Count(Building) + Count(Linking) <= 2 * calls)'
      BY <1>m, <1>2, <1>3, <3>1
    <3> QED BY <3>4, <3>5, <3>6
  <2>2. tail_'.tag + (Len(q) - (p + 1)) + Count(Linking)' <= calls'
    <3>1. Len(q) - p \in Nat /\ Len(q) - (p + 1) = (Len(q) - p) - 1
      BY <1>5
    <3>2. tail_'.tag = tail_.tag + 1 /\ tail_.tag + (Len(q) - p) + Count(Linking) <= calls
      BY <1>4, <1>7
    <3>3. tail_.tag \in Nat
      BY <1>n
    <3>4. \A x, y, z, u, v \in Nat : x + y + z <= v /\ u <= z => x + 1 + (y - 1) + u <= v
      OBVIOUS
    <3>5. tail_.tag + 1 + ((Len(q) - p) - 1) + Count(Linking)' <= calls
      BY <1>m, <1>2, <1>3, <3>1, <3>2, <3>3, <3>4
    <3> QED BY <1>m, <3>1, <3>2, <3>5
  <2> QED BY <1>2, <1>5, <1>7, <2>1, <2>2 DEF Counts, Busy
<1>13. \E a \in 0 .. w : ThreadInv(l, q, f, a)'
  <2>1. ThreadInv(l, q, f, 0)' /\ 0 \in 0 .. w
    BY <1>1 DEF ThreadInv, AllocInv, PushInv, PopInv
  <2> QED BY <2>1
<1>14. \A u \in Threads \ {t} : \A x : x = local[u] => \E a \in 0 .. w : ThreadInv(x, q, f, a)'
  <2> SUFFICES ASSUME NEW u \in Threads \ {t}, NEW x, x = local[u]
               PROVE  \E a \in 0 .. w : ThreadInv(x, q, f, a)'
    OBVIOUS
  <2>1. x \in Locals /\ \E a \in 0 .. w : ThreadInv(x, q, f, a)
    BY ThreadIs
  <2>2. PICK a \in 0 .. w : ThreadInv(x, q, f, a)
    BY <2>1
  <2>3. x.first.tag \in Nat /\ x.second.tag \in Nat /\ tail_.tag \in Nat
    <3>1. x.first \in tagged_index /\ x.second \in tagged_index
      BY <2>1, ThreadIs
    <3>2. x.first.tag \in 0 .. (TagModulus - 1) /\ x.second.tag \in 0 .. (TagModulus - 1)
      BY <3>1, InvIs
    <3> QED BY <1>n, <3>2
  <2>4. /\ x.first.tag <= tail_.tag => x.first.tag <= tail_'.tag /\ tail_' # x.first
        /\ x.second.tag <= tail_.tag => x.second.tag <= tail_'.tag /\ tail_' # x.second
    BY <1>7, <2>3
  <2>5. AllocInv(x, f)'
    BY <2>2 DEF ThreadInv, AllocInv
  <2>6. PushInv(x, q, a)'
    BY <2>2, <2>4 DEF ThreadInv, PushInv, EndOf
  <2>7. PopInv(x)'
    BY <1>8, <2>2, <2>4 DEF ThreadInv, PopInv
  <2> QED BY <2>5, <2>6, <2>7 DEF ThreadInv
<1> QED BY <1>1, <1>9, <1>10, <1>11, <1>12, <1>13, <1>14, InvAfter

LEMMA PushSwingStep ==
    ASSUME NEW q, NEW f, NEW w, QueueInv(q, f, w), TagsLast,
           NEW t \in Threads, PushSwing(t), calls' = calls
    PROVE  NodesInv'
<1> DEFINE m == local[t]
<1>1. /\ m.pc = "pushSwing" /\ Return(t, m.arg) /\ SwingTail(m.first, m.n)
      /\ head_' = head_ /\ pool_' = pool_ /\ next' = next /\ data' = data
  BY DEF PushSwing, At
<1>2. m \in Locals /\ m.arg \in 0 .. MaxCalls /\ answer \in [Threads -> 0 .. MaxCalls]
      /\ \E a \in 0 .. w : ThreadInv(m, q, f, a)
  BY ThreadIs, InvIs
<1>3. m.pc \notin Owns
  BY <1>1 DEF Owns, PushPlaces, FreePlaces
<1>4. local' = [local EXCEPT ![t] = Idle] /\ answer' \in [Threads -> 0 .. MaxCalls]
  BY <1>1, <1>2 DEF Return
<1>5. CASE tail_ # m.first
  <2>1. tail_' = tail_
    BY <1>1, <1>5 DEF SwingTail
  <2> QED BY <1>1, <1>2, <1>3, <2>1, ReturnStep
<1>6. CASE tail_ = m.first
  <2>1. tail_' = Handle(m.n, get_next_tag(tail_))
    BY <1>1, <1>6 DEF SwingTail
  <2>2. m.n \in Nodes /\ next[tail_.index].index = m.n
    <3> HIDE DEF m
    <3> QED BY <1>1, <1>2, <1>6 DEF ThreadInv, PushInv
  <2> HIDE DEF m
  <2>3. Idle.pc \in {"idle", "pushTail", "popHead"} /\ Idle.pc # "pushTail"
    BY IdleIs
  <2> USE DEF m
  <2> QED BY <1>1, <1>3, <1>4, <2>1, <2>2, <2>3, IdleIs, SwingStep
<1> QED BY <1>5, <1>6

LEMMA PushHelpStep ==
    ASSUME NEW q, NEW f, NEW w, QueueInv(q, f, w), TagsLast,
           NEW t \in Threads, PushHelp(t), calls' = calls
    PROVE  NodesInv'
<1> DEFINE m == local[t]
<1>0. PICK l : l = [m EXCEPT !.pc = "pushTail"]
  OBVIOUS
<1>1. /\ m.pc = "pushHelp" /\ GoTo(t, "pushTail") /\ SwingTail(m.first, m.after.index)
      /\ head_' = head_ /\ pool_' = pool_ /\ next' = next /\ data' = data
  BY DEF PushHelp, At
<1>2. m \in Locals /\ m.after.index \in 0 .. NodeCount /\ answer \in [Threads -> 0 .. MaxCalls]
      /\ \E a \in 0 .. w : ThreadInv(m, q, f, a)
  BY ThreadIs, InvIs
<1>3. local' = [local EXCEPT ![t] = l] /\ answer' \in [Threads -> 0 .. MaxCalls]
  BY <1>0, <1>1, <1>2 DEF GoTo, Go
<1>4. CASE tail_ # m.first
  <2>1. tail_' = tail_
    BY <1>1, <1>4 DEF SwingTail
  <2> QED BY <1>1, <2>1, AgainStep
<1>5. CASE tail_ = m.first
  <2> HIDE DEF m
  <2>1. tail_' = Handle(m.after.index, get_next_tag(tail_))
    BY <1>1, <1>5 DEF SwingTail
  <2>2. m.after.index # null_handle /\ next[tail_.index].index = m.after.index
        /\ next[m.n].index = null_handle
    BY <1>1, <1>2, <1>5 DEF ThreadInv, PushInv
  <2>3. m.after.index \in Nodes
    BY <1>2, <2>2, ConstantsAre
  <2>4. l \in Locals /\ l.pc = "pushTail" /\ l.n = m.n
    BY <1>0, <1>2 DEF Locals, PushPlaces
  <2>5. /\ l.pc \in Owns /\ m.pc \in Owns /\ l.pc \notin Allocating
        /\ l.pc \notin Building /\ l.pc \in Linking /\ m.pc \in Linking /\ l.pc \notin Taking
    BY <1>1, <2>4 DEF Owns, Allocating, Building, Linking, Taking, PushPlaces, PopPlaces, FreePlaces
  <2>6. l.pc \in {"idle", "pushTail", "popHead"}
    BY <2>4
  <2> USE DEF m
  <2> QED BY <1>1, <1>3, <2>1, <2>2, <2>3, <2>4, <2>5, <2>6, SwingStep
<1> QED BY <1>4, <1>5

LEMMA PopHelpStep ==
    ASSUME NEW q, NEW f, NEW w, QueueInv(q, f, w), TagsLast,
           NEW t \in Threads, PopHelp(t), calls' = calls
    PROVE  NodesInv'
<1> DEFINE m == local[t]
<1>0. PICK l : l = [m EXCEPT !.pc = "popHead"]
  OBVIOUS
<1>1. /\ m.pc = "popHelp" /\ GoTo(t, "popHead") /\ SwingTail(m.second, m.after.index)
      /\ head_' = head_ /\ pool_' = pool_ /\ next' = next /\ data' = data
  BY DEF PopHelp, At
<1>2. m \in Locals /\ m.after.index \in 0 .. NodeCount /\ answer \in [Threads -> 0 .. MaxCalls]
      /\ \E a \in 0 .. w : ThreadInv(m, q, f, a)
  BY ThreadIs, InvIs
<1>3. local' = [local EXCEPT ![t] = l] /\ answer' \in [Threads -> 0 .. MaxCalls]
  BY <1>0, <1>1, <1>2 DEF GoTo, Go
<1>4. CASE tail_ # m.second
  <2>1. tail_' = tail_
    BY <1>1, <1>4 DEF SwingTail
  <2> QED BY <1>1, <2>1, AgainStep
<1>5. CASE tail_ = m.second
  <2> HIDE DEF m
  <2>1. tail_' = Handle(m.after.index, get_next_tag(tail_))
    BY <1>1, <1>5 DEF SwingTail
  <2>2. m.after.index # null_handle /\ next[tail_.index].index = m.after.index
    BY <1>1, <1>2, <1>5 DEF ThreadInv, PopInv
  <2>3. m.after.index \in Nodes
    BY <1>2, <2>2, ConstantsAre
  <2>4. l \in Locals /\ l.pc = "popHead" /\ l.n = m.n
    BY <1>0, <1>2 DEF Locals, PopPlaces
  <2>5. /\ l.pc \notin Owns /\ m.pc \notin Owns /\ l.pc \notin Allocating
        /\ l.pc \notin Building /\ l.pc \notin Linking /\ l.pc \in Taking /\ m.pc \in Taking
    BY <1>1, <2>4 DEF Owns, Allocating, Building, Linking, Taking, PushPlaces, PopPlaces, FreePlaces
  <2>6. l.pc \in {"idle", "pushTail", "popHead"} /\ l.pc # "pushTail"
    BY <2>4
  <2> USE DEF m
  <2> QED BY <1>1, <1>3, <2>1, <2>2, <2>3, <2>4, <2>5, <2>6, SwingStep
<1> QED BY <1>4, <1>5


-----------------------------------------------------------------------------
(* The head, and the first step of a call *)

LEMMA PopCasStep ==
    ASSUME NEW q, NEW f, NEW w, QueueInv(q, f, w), TagsLast,
           NEW t \in Threads, PopCas(t), calls' = calls
    PROVE  NodesInv'
<1> DEFINE m == local[t]
<1>1. m.pc = "popCas" /\ tail_' = tail_ /\ pool_' = pool_ /\ next' = next /\ data' = data
  BY DEF PopCas, At
<1>2. CASE head_ # m.first /\ GoTo(t, "popHead") /\ head_' = head_
  BY <1>1, <1>2, AgainStep
<1>3. CASE /\ head_ = m.first /\ Go(t, [m EXCEPT !.pc = "free", !.n = m.first.index])
           /\ head_' = Handle(m.after.index, get_next_tag(m.first))
  <2>1. PICK l, p : l = [m EXCEPT !.pc = "free", !.n = m.first.index] /\ p = Tail(q)
    OBVIOUS
  <2>2. m \in Locals /\ w \in Nat /\ (\E a \in 0 .. w : ThreadInv(m, q, f, a))
        /\ local \in [Threads -> Locals] /\ head_ \in tagged_index /\ head_.tag \in Nat
        /\ m.after.index \in 0 .. NodeCount
    BY ThreadIs, InvIs
  <2>3. local' = [local EXCEPT ![t] = l] /\ answer' = answer
    BY <1>3, <2>1 DEF Go
  <2>4. Lists(q, f) /\ Owned(q, f) /\ Counts(q, w) /\ TypeOK
    BY DEF QueueInv
  <2>5. head_.index \in Nodes /\ head_.index \in ToSet(q) /\ q # <<>> /\ q[1] = head_.index
    BY HeadIs
  <2> HIDE DEF m
  <2>6. /\ m.after.index # null_handle /\ tail_.index # head_.index
        /\ next[head_.index].index = m.after.index
    BY <1>1, <1>3, <2>2 DEF ThreadInv, PopInv
  <2>7. l \in Locals /\ l.pc = "free" /\ l.n = head_.index
    <3>1. head_.index \in 0 .. NodeCount
      BY <2>2, InvIs
    <3> QED BY <1>3, <2>1, <2>2, <3>1 DEF Locals, PopPlaces, FreePlaces
  <2>8. /\ l.pc \in Owns /\ m.pc \notin Owns /\ l.pc \notin Allocating /\ m.pc \notin Allocating
        /\ l.pc \notin Building /\ m.pc \notin Building
        /\ l.pc \notin Linking /\ m.pc \notin Linking /\ l.pc \notin Taking /\ m.pc \in Taking
    BY <1>1, <2>7 DEF Owns, Allocating, Building, Linking, Taking, PushPlaces, PopPlaces, FreePlaces
  <2>9. /\ IsFiniteSet(Busy)'
        /\ Count(Allocating)' = Count(Allocating) /\ Count(Building)' = Count(Building)
        /\ Count(Linking)' = Count(Linking) /\ Count(Taking)' = Count(Taking) - 1
        /\ Count(Taking) \in Nat /\ Count(Taking)' \in Nat /\ Count(Linking) \in Nat
    <3> USE DEF m
    <3> QED BY <2>3, <2>8, CountsFall
  <2>10. head_.tag + Count(Taking) <= calls /\ calls \in Nat /\ calls <= MaxCalls
         /\ 2 * MaxCalls + 1 < TagModulus /\ MaxCalls \in Nat /\ TagModulus \in Nat
    BY <2>4, InvIs DEF Counts
  <2>11. head_.tag + 1 < TagModulus
    BY <2>2, <2>9, <2>10
  <2>12. head_' \in tagged_index /\ head_'.index = m.after.index /\ head_'.tag = head_.tag + 1
    BY <1>3, <2>2, <2>11, HandleIs
  <2>13. /\ Linked(next, m.after.index, p) /\ ToSet(p) = ToSet(q) \ {head_.index}
         /\ Len(p) = Len(q) - 1 /\ \A i \in 1 .. Len(p) : p[i] = q[i + 1]
         /\ Len(q) \in Nat /\ Len(p) \in Nat
    <3>1. Linked(next, head_.index, q)
      BY <2>4 DEF Lists
    <3>2. /\ Linked(next, next[head_.index].index, Tail(q)) /\ ToSet(Tail(q)) = ToSet(q) \ {head_.index}
          /\ Len(Tail(q)) = Len(q) - 1 /\ \A i \in 1 .. Len(Tail(q)) : Tail(q)[i] = q[i + 1]
      BY <2>5, <3>1, LinkedTake
    <3>3. Linked(next, m.after.index, p)
      BY <2>1, <2>6, <3>2
    <3>4. Len(q) \in Nat /\ Len(p) \in Nat
      BY <3>1, <3>3, LinkedIs
    <3> QED BY <2>1, <3>2, <3>3, <3>4
  <2>14. Lists(p, f)'
    <3>1. tail_.index \in ToSet(p) /\ ToSet(p) \cap ToSet(f) = {} /\ Linked(next, pool_.index, f)
      BY <2>4, <2>6, <2>13 DEF Lists
    <3> QED BY <1>1, <2>12, <2>13, <3>1 DEF Lists
  <2>15. Owned(p, f)'
    <3>1. ToSet(p) \cup ToSet(f) = (ToSet(q) \cup ToSet(f)) \ {l.n}
      BY <2>4, <2>5, <2>7, <2>13 DEF Lists
    <3>2. l.n \in Nodes /\ l.n \in ToSet(q) \cup ToSet(f)
      BY <2>5, <2>7
    <3> USE DEF m
    <3> QED BY <2>2, <2>3, <2>4, <2>8, <3>1, <3>2, OwnedTaken
  <2>16. Counts(p, w)'
    <3>1. head_'.tag + Count(Taking)' <= calls
      BY <2>2, <2>9, <2>10, <2>12
    <3>2. \E i \in 1 .. Len(p) :
            p[i] = tail_'.index /\ tail_'.tag + (Len(p) - i) + Count(Linking)' <= calls'
      <4>1. PICK i \in 1 .. Len(q) :
              q[i] = tail_.index /\ tail_.tag + (Len(q) - i) + Count(Linking) <= calls
        BY <2>4 DEF Counts
      <4>2. i # 1
        BY <2>5, <2>6, <4>1
      <4>3. i - 1 \in 1 .. Len(p) /\ i - 1 + 1 = i /\ Len(p) - (i - 1) = Len(q) - i
        BY <2>13, <4>1, <4>2
      <4>4. p[i - 1] = tail_.index
        BY <2>13, <4>1, <4>3
      <4>5. tail_.tag + (Len(p) - (i - 1)) + Count(Linking)' <= calls
        BY <2>9, <4>1, <4>3
      <4> QED BY <1>1, <4>3, <4>4, <4>5
    <3>3. /\ (pool_.tag + Count(Allocating) <= 1 + calls)'
          /\ (w + Count(Building) + Count(Linking) <= 2 * calls)'
      BY <1>1, <2>4, <2>9 DEF Counts
    <3> QED BY <2>9, <3>1, <3>2, <3>3 DEF Counts, Busy
  <2>17. TypeOK'
    <3>1. local' \in [Threads -> Locals]
      BY <2>2, <2>3, <2>7
    <3> QED BY <1>1, <2>3, <2>4, <2>12, <3>1 DEF TypeOK, Locals
  <2>18. \E a \in 0 .. w : ThreadInv(l, p, f, a)'
    <3>1. ThreadInv(l, p, f, 0)' /\ 0 \in 0 .. w
      BY <2>2, <2>7 DEF ThreadInv, AllocInv, PushInv, PopInv
    <3> QED BY <3>1
  <2>19. \A u \in Threads \ {t} : \A x : x = local[u] => \E a \in 0 .. w : ThreadInv(x, p, f, a)'
    <3> SUFFICES ASSUME NEW u \in Threads \ {t}, NEW x, x = local[u]
                 PROVE  \E a \in 0 .. w : ThreadInv(x, p, f, a)'
      OBVIOUS
    <3>1. x \in Locals /\ \E a \in 0 .. w : ThreadInv(x, q, f, a)
      BY ThreadIs
    <3>2. PICK a \in 0 .. w : ThreadInv(x, q, f, a)
      BY <3>1
    <3>3. x.first.tag \in Nat
      <4>1. x.first \in tagged_index
        BY <3>1, ThreadIs
      <4>2. x.first.tag \in 0 .. (TagModulus - 1)
        BY <4>1, InvIs
      <4> QED BY <4>2
    <3>4. x.first.tag <= head_.tag => x.first.tag <= head_'.tag /\ head_' # x.first
      BY <2>2, <2>12, <3>3
    <3>5. AllocInv(x, f)'
      BY <1>1, <3>2 DEF ThreadInv, AllocInv
    <3>6. \A n : EndOf(q, n) => EndOf(p, n)'
      BY <1>1, <2>6, <2>13 DEF EndOf
    <3>7. PushInv(x, p, a)'
      BY <1>1, <3>2, <3>6 DEF ThreadInv, PushInv
    <3>8. PopInv(x)'
      BY <1>1, <3>2, <3>4 DEF ThreadInv, PopInv
    <3> QED BY <3>5, <3>7, <3>8 DEF ThreadInv
  <2> QED BY <2>2, <2>3, <2>14, <2>15, <2>16, <2>17, <2>18, <2>19, InvAfter
<1> QED BY <1>2, <1>3 DEF PopCas

LEMMA BeginStep ==
    ASSUME NEW q, NEW f, NEW w, QueueInv(q, f, w), TagsLast,
           NEW t \in Threads, Begin(t)
    PROVE  NodesInv'
<1> DEFINE m == local[t]
<1>1. /\ m.pc = "idle" /\ calls < MaxCalls /\ calls' = calls + 1 /\ answer' = answer
      /\ head_' = head_ /\ tail_' = tail_ /\ pool_' = pool_ /\ next' = next /\ data' = data
  BY DEF Begin, At, GoTo, Go
<1>2. m \in Locals /\ local \in [Threads -> Locals] /\ w \in Nat /\ calls \in 0 .. MaxCalls
      /\ calls \in Nat /\ MaxCalls \in Nat
  BY ThreadIs, InvIs
<1>3. PICK l : /\ local' = [local EXCEPT ![t] = l]
               /\ \/ l = [m EXCEPT !.pc = "allocate", !.arg = calls + 1]
                  \/ l = [m EXCEPT !.pc = "popHead"]
  BY DEF Begin, GoTo, Go
<1>4. Lists(q, f) /\ Owned(q, f) /\ Counts(q, w) /\ TypeOK
  BY DEF QueueInv
<1> HIDE DEF m
<1>5. l \in Locals /\ l.pc \in {"allocate", "popHead"}
  <2>1. calls + 1 \in 0 .. MaxCalls
    BY <1>1, <1>2
  <2> QED BY <1>2, <1>3, <2>1 DEF Locals, PushPlaces, PopPlaces
<1>6. /\ l.pc \notin Owns /\ m.pc \notin Owns /\ m.pc \notin Allocating /\ m.pc \notin Building
      /\ m.pc \notin Linking /\ m.pc \notin Taking
      /\ l.pc \in Allocating <=> l.pc = "allocate"
      /\ l.pc \in Building <=> l.pc = "allocate"
      /\ l.pc \in Linking <=> l.pc = "allocate"
      /\ l.pc \in Taking <=> l.pc # "allocate"
  BY <1>1, <1>5 DEF Owns, Allocating, Building, Linking, Taking, PushPlaces, PopPlaces, FreePlaces
<1>7. /\ IsFiniteSet(Busy)'
      /\ Count(Allocating) \in Nat /\ Count(Building) \in Nat
      /\ Count(Linking) \in Nat /\ Count(Taking) \in Nat
      /\ Count(Allocating)' \in Nat /\ Count(Building)' \in Nat
      /\ Count(Linking)' \in Nat /\ Count(Taking)' \in Nat
      /\ Count(Allocating)' <= Count(Allocating) + 1 /\ Count(Building)' <= Count(Building) + 1
      /\ Count(Linking)' <= Count(Linking) + 1 /\ Count(Taking)' <= Count(Taking) + 1
  <2> USE DEF m
  <2>1. CASE l.pc = "allocate"
    <3>1. /\ l.pc \in Allocating /\ m.pc \notin Allocating /\ l.pc \in Building /\ m.pc \notin Building
          /\ l.pc \in Linking /\ m.pc \notin Linking /\ l.pc \notin Taking /\ m.pc \notin Taking
      BY <1>6, <2>1
    <3>2. /\ IsFiniteSet(Busy)'
          /\ Count(Allocating)' = Count(Allocating) + 1 /\ Count(Building)' = Count(Building) + 1
          /\ Count(Linking)' = Count(Linking) + 1 /\ Count(Taking)' = Count(Taking)
          /\ Count(Allocating) \in Nat /\ Count(Building) \in Nat
          /\ Count(Linking) \in Nat /\ Count(Taking) \in Nat
      BY <1>3, <3>1, CountsFall
    <3> QED BY <3>2
  <2>2. CASE l.pc = "popHead"
    <3>1. /\ l.pc \notin Allocating /\ m.pc \notin Allocating /\ l.pc \notin Building /\ m.pc \notin Building
          /\ l.pc \notin Linking /\ m.pc \notin Linking /\ l.pc \in Taking /\ m.pc \notin Taking
      BY <1>6, <2>2
    <3>2. /\ IsFiniteSet(Busy)'
          /\ Count(Allocating)' = Count(Allocating) /\ Count(Building)' = Count(Building)
          /\ Count(Linking)' = Count(Linking) /\ Count(Taking)' = Count(Taking) + 1
          /\ Count(Allocating) \in Nat /\ Count(Building) \in Nat
          /\ Count(Linking) \in Nat /\ Count(Taking) \in Nat
      BY <1>3, <3>1, CountsFall
    <3> QED BY <3>2
  <2> QED BY <1>5, <2>1, <2>2
<1>8. Lists(q, f)'
  BY <1>1, <1>4 DEF Lists
<1>9. Owned(q, f)'
  <2> USE DEF m
  <2> QED BY <1>2, <1>3, <1>4, <1>6, OwnedKept
<1>10. Counts(q, w)'
  <2>1. /\ pool_.tag + Count(Allocating) <= 1 + calls
        /\ head_.tag + Count(Taking) <= calls
        /\ w + Count(Building) + Count(Linking) <= 2 * calls
    BY <1>4 DEF Counts
  <2>2. pool_.tag \in Nat /\ head_.tag \in Nat /\ tail_.tag \in Nat
    BY InvIs
  <2>3. pool_.tag + Count(Allocating)' <= 1 + (calls + 1)
    BY <1>2, <1>7, <2>1, <2>2
  <2>4. head_.tag + Count(Taking)' <= calls + 1
    BY <1>2, <1>7, <2>1, <2>2
  <2>5. w + Count(Building)' + Count(Linking)' <= 2 * (calls + 1)
    BY <1>2, <1>7, <2>1
  <2>6. \E p \in 1 .. Len(q) :
          q[p] = tail_'.index /\ tail_'.tag + (Len(q) - p) + Count(Linking)' <= calls'
    <3>1. PICK p \in 1 .. Len(q) :
            q[p] = tail_.index /\ tail_.tag + (Len(q) - p) + Count(Linking) <= calls
      BY <1>4 DEF Counts
    <3>2. Len(q) \in Nat
      BY <1>4, LinkedIs DEF Lists
    <3>3. Len(q) - p \in Nat
      BY <3>2
    <3>4. tail_.tag + (Len(q) - p) + Count(Linking)' <= calls + 1
      <4>1. \A x, y, z \in Nat : x + y <= calls /\ z <= y + 1 => x + z <= calls + 1
        BY <1>2
      <4>2. tail_.tag + (Len(q) - p) \in Nat
        BY <2>2, <3>3
      <4> QED BY <1>7, <3>1, <4>1, <4>2
    <3> QED BY <1>1, <3>1, <3>4
  <2> QED BY <1>1, <1>7, <2>3, <2>4, <2>5, <2>6 DEF Counts, Busy
<1>11. TypeOK'
  <2>1. local' \in [Threads -> Locals] /\ calls' \in 0 .. MaxCalls
    BY <1>1, <1>2, <1>3, <1>5
  <2> QED BY <1>1, <1>4, <2>1 DEF TypeOK, Locals
<1>12. \E a \in 0 .. w : ThreadInv(l, q, f, a)'
  <2>1. ThreadInv(l, q, f, 0)' /\ 0 \in 0 .. w
    BY <1>2, <1>5 DEF ThreadInv, AllocInv, PushInv, PopInv
  <2> QED BY <2>1
<1>13. \A u \in Threads \ {t} : \A x : x = local[u] => \E a \in 0 .. w : ThreadInv(x, q, f, a)'
  <2> SUFFICES ASSUME NEW u \in Threads \ {t}, NEW x, x = local[u]
               PROVE  \E a \in 0 .. w : ThreadInv(x, q, f, a)'
    OBVIOUS
  <2>1. PICK a \in 0 .. w : ThreadInv(x, q, f, a)
    BY ThreadIs
  <2>2. ThreadInv(x, q, f, a)'
    BY <1>1, <2>1 DEF ThreadInv, AllocInv, PushInv, PopInv, EndOf
  <2> QED BY <2>2
<1> QED BY <1>2, <1>3, <1>8, <1>9, <1>10, <1>11, <1>12, <1>13, InvAfter

LEMMA NodesNext == TagsLast /\ NodesInv /\ [Next]_vars => NodesInv'
<1> SUFFICES ASSUME TagsLast, NodesInv, [Next]_vars PROVE NodesInv'
  OBVIOUS
<1>1. PICK q, f, w : QueueInv(q, f, w)
  BY DEF NodesInv
<1>2. CASE UNCHANGED vars
  <2>1. /\ UNCHANGED <<head_, tail_, pool_, next, data, local, answer, calls>>
        /\ TypeOK /\ Lists(q, f) /\ Owned(q, f) /\ w \in Nat /\ Counts(q, w)
    BY <1>1, <1>2 DEF vars, QueueInv
  <2>2. ASSUME NEW t \in Threads PROVE \E a \in 0 .. w : ThreadInv(local[t], q, f, a)'
    <3>1. PICK a \in 0 .. w : ThreadInv(local[t], q, f, a)
      BY <1>1 DEF QueueInv
    <3>2. ThreadInv(local[t], q, f, a)'
      BY <1>2, <3>1 DEF vars, ThreadInv, AllocInv, PushInv, PopInv, EndOf
    <3> QED BY <3>2
  <2>3. TypeOK' /\ Lists(q, f)' /\ Owned(q, f)'
    BY <2>1 DEF TypeOK, Lists, Owned, Owners
  <2>4. Counts(q, w)'
    BY <2>1 DEF Counts, Count, In
  <2>5. QueueInv(q, f, w)'
    BY <2>1, <2>2, <2>3, <2>4 DEF QueueInv
  <2> QED BY <2>5 DEF NodesInv
<1>3. ASSUME NEW t \in Threads, Begin(t) PROVE NodesInv'
  BY <1>1, <1>3, BeginStep
<1>4. ASSUME NEW t \in Threads, Push(t), calls' = calls PROVE NodesInv'
  <2>1. CASE AllocLoad(t)
    <3>1. local[t].pc \in {"allocate", "allocCas"}
      BY <2>1 DEF AllocLoad, At
    <3> QED BY <1>1, <1>4, <2>1, <3>1, AllocatedStep DEF AllocLoad
  <2>2. CASE AllocNext(t)
    BY <1>1, <1>4, <2>2, AllocNextStep
  <2>3. CASE AllocCas(t)
    BY <1>1, <1>4, <2>3, AllocCasStep
  <2>4. CASE Construct(t)
    BY <1>1, <1>4, <2>4, ConstructStep
  <2>5. CASE ConstructNext(t)
    BY <1>1, <1>4, <2>5, ConstructNextStep
  <2>6. CASE PushTail(t)
    BY <1>1, <1>4, <2>6, PushTailStep
  <2>7. CASE PushNext(t)
    BY <1>1, <1>4, <2>7, PushNextStep
  <2>8. CASE PushCheck(t)
    BY <1>1, <1>4, <2>8, PushCheckStep
  <2>9. CASE PushLink(t)
    BY <1>1, <1>4, <2>9, PushLinkStep
  <2>10. CASE PushSwing(t)
    BY <1>1, <1>4, <2>10, PushSwingStep
  <2>11. CASE PushHelp(t)
    BY <1>1, <1>4, <2>11, PushHelpStep
  <2> QED BY <1>4, <2>1, <2>2, <2>3, <2>4, <2>5, <2>6, <2>7, <2>8, <2>9, <2>10, <2>11 DEF Push
<1>5. ASSUME NEW t \in Threads, Pop(t), calls' = calls PROVE NodesInv'
  <2>1. CASE PopHead(t)
    BY <1>1, <1>5, <2>1, PopHeadStep
  <2>2. CASE PopTail(t)
    BY <1>1, <1>5, <2>2, PopTailStep
  <2>3. CASE PopNext(t)
    BY <1>1, <1>5, <2>3, PopNextStep
  <2>4. CASE PopCheck(t)
    BY <1>1, <1>5, <2>4, PopCheckStep
  <2>5. CASE PopHelp(t)
    BY <1>1, <1>5, <2>5, PopHelpStep
  <2>6. CASE PopData(t)
    BY <1>1, <1>5, <2>6, PopDataStep
  <2>7. CASE PopCas(t)
    BY <1>1, <1>5, <2>7, PopCasStep
  <2>8. CASE FreeLoad(t)
    <3>1. local[t].pc \in {"free", "freeCas"}
      BY <2>8 DEF FreeLoad, At
    <3> QED BY <1>1, <1>5, <2>8, <3>1, FreeAgainStep DEF FreeLoad
  <2>9. CASE FreeNext(t)
    BY <1>1, <1>5, <2>9, FreeNextStep
  <2>10. CASE FreeCas(t)
    BY <1>1, <1>5, <2>10, FreeCasStep
  <2> QED BY <1>5, <2>1, <2>2, <2>3, <2>4, <2>5, <2>6, <2>7, <2>8, <2>9, <2>10 DEF Pop
<1> QED BY <1>2, <1>3, <1>4, <1>5 DEF Next, Calling, Running


-----------------------------------------------------------------------------
(* The first state *)

LEMMA NodesInit == TagsLast /\ Init => NodesInv
<1> SUFFICES ASSUME TagsLast, Init PROVE NodesInv
  OBVIOUS
<1>1. /\ Capacity \in Nat /\ Capacity >= 1 /\ NodeCount = Capacity + 1 /\ Nodes = 0 .. Capacity
      /\ null_handle = Capacity + 1 /\ TagModulus \in Nat /\ TagModulus > 1 /\ MaxCalls \in Nat
  BY ConstantsAre DEF TagsLast
<1>2. PICK g \in [Nodes -> Garbage] :
        next = [i \in Nodes |-> IF i = NodeCount - 1 THEN Handle(null_handle, 0)
                                ELSE Handle(IF i = 0 THEN null_handle ELSE i - 1, g[i])]
  BY DEF Init
<1>3. /\ head_ = Handle(Capacity, 0) /\ tail_ = Handle(Capacity, 0)
      /\ pool_ = Handle(Capacity - 1, 1) /\ data = [i \in Nodes |-> 0]
      /\ local = [t \in Threads |-> Idle] /\ answer = [t \in Threads |-> 0] /\ calls = 0
  <2>1. 1 % TagModulus = 1
    BY <1>1, ModUpTo
  <2>2. NodeCount - 1 = Capacity /\ NodeCount - 2 = Capacity - 1
    BY <1>1
  <2> QED BY <2>1, <2>2 DEF Init
<1>4. \A i \in 0 .. NodeCount, k \in 0 .. (TagModulus - 1) :
        Handle(i, k) \in tagged_index /\ Handle(i, k).index = i /\ Handle(i, k).tag = k
  BY DEF Handle, tagged_index
<1>5. /\ head_ \in tagged_index /\ tail_ \in tagged_index /\ pool_ \in tagged_index
      /\ head_.index = Capacity /\ tail_.index = Capacity /\ pool_.index = Capacity - 1
      /\ head_.tag = 0 /\ tail_.tag = 0 /\ pool_.tag = 1
  <2>1. Capacity \in 0 .. NodeCount /\ Capacity - 1 \in 0 .. NodeCount
        /\ 0 \in 0 .. (TagModulus - 1) /\ 1 \in 0 .. (TagModulus - 1)
    BY <1>1
  <2> QED BY <1>3, <1>4, <2>1
<1>6. \A i \in Nodes : /\ next[i] \in tagged_index
                       /\ next[i].index = IF i = Capacity \/ i = 0 THEN null_handle ELSE i - 1
  <2> SUFFICES ASSUME NEW i \in Nodes
               PROVE  /\ next[i] \in tagged_index
                      /\ next[i].index = IF i = Capacity \/ i = 0 THEN null_handle ELSE i - 1
    OBVIOUS
  <2>1. g[i] \in 0 .. (TagModulus - 1) /\ 0 \in 0 .. (TagModulus - 1)
    <3>1. g[i] \in Garbage /\ Garbage \subseteq 0 .. (TagModulus - 1)
      BY QueueAssumption
    <3>2. 0 \in 0 .. (TagModulus - 1)
      BY <1>1
    <3>3. g[i] \in 0 .. (TagModulus - 1)
      BY <3>1
    <3> QED BY <3>2, <3>3
  <2>2. null_handle \in 0 .. NodeCount /\ (i # 0 => i - 1 \in 0 .. NodeCount)
        /\ NodeCount - 1 = Capacity
    BY <1>1
  <2> QED BY <1>2, <1>4, <2>1, <2>2
<1>7. next \in [Nodes -> tagged_index]
  <2>1. next = [i \in Nodes |-> next[i]]
    BY <1>2
  <2> QED BY <1>6, <2>1
<1>8. TypeOK
  <2>1. 0 \in 0 .. MaxCalls
    BY <1>1
  <2>2. local \in [Threads -> Locals] /\ answer \in [Threads -> 0 .. MaxCalls]
        /\ data \in [Nodes -> 0 .. MaxCalls] /\ calls \in 0 .. MaxCalls
    BY <1>3, <2>1, IdleIs
  <2> QED BY <1>5, <1>7, <2>2 DEF TypeOK, Locals
<1>9. PICK q, f : q = <<Capacity>> /\ f = [i \in 1 .. Capacity |-> Capacity - i]
  OBVIOUS
<1>10. Linked(next, head_.index, q) /\ Len(q) = 1 /\ q[1] = Capacity /\ ToSet(q) = {Capacity}
  <2>1. q \in Seq(Nodes) /\ Len(q) = 1 /\ q[1] = Capacity /\ q # <<>> /\ DOMAIN q = 1 .. 1
    BY <1>1, <1>9
  <2>2. \A i \in 1 .. 1 : i = 1
    OBVIOUS
  <2>3. IsInjective(q)
    BY <2>1, <2>2 DEF IsInjective
  <2>4. ToSet(q) = {Capacity}
    BY <2>1, <2>2 DEF ToSet
  <2>5. next[Capacity].index = null_handle
    BY <1>1, <1>6
  <2> QED BY <1>5, <2>1, <2>2, <2>3, <2>4, <2>5 DEF Linked
<1>11. Linked(next, pool_.index, f) /\ ToSet(f) = 0 .. (Capacity - 1)
  <2>1. f \in Seq(Nodes) /\ Len(f) = Capacity /\ DOMAIN f = 1 .. Capacity
        /\ \A i \in 1 .. Capacity : f[i] = Capacity - i
    <3>1. \A i \in 1 .. Capacity : Capacity - i \in Nodes
      BY <1>1
    <3> QED BY <1>1, <1>9, <3>1, IsASeq
  <2>2. f # <<>> /\ f[1] = Capacity - 1
    <3>1. Capacity # 0 /\ 1 \in 1 .. Capacity
      BY <1>1
    <3> QED BY <2>1, <3>1, EmptySeq
  <2>3. IsInjective(f)
    BY <1>1, <2>1 DEF IsInjective
  <2>4. ToSet(f) = 0 .. (Capacity - 1)
    <3>1. ASSUME NEW n \in 0 .. (Capacity - 1) PROVE n \in ToSet(f)
      <4>1. Capacity - n \in 1 .. Capacity /\ Capacity - (Capacity - n) = n
        BY <1>1
      <4> QED BY <2>1, <4>1 DEF ToSet
    <3>2. ASSUME NEW n \in ToSet(f) PROVE n \in 0 .. (Capacity - 1)
      <4>1. PICK i \in 1 .. Capacity : n = Capacity - i
        BY <2>1 DEF ToSet
      <4> QED BY <1>1, <4>1
    <3> QED BY <3>1, <3>2
  <2>5. \A i \in 1 .. Capacity :
          next[f[i]].index = IF i = Capacity THEN null_handle ELSE f[i + 1]
    <3> SUFFICES ASSUME NEW i \in 1 .. Capacity
                 PROVE  next[f[i]].index = IF i = Capacity THEN null_handle ELSE f[i + 1]
      OBVIOUS
    <3>1. f[i] = Capacity - i /\ Capacity - i \in Nodes /\ Capacity - i # Capacity
          /\ (Capacity - i = 0 <=> i = Capacity)
      BY <1>1, <2>1
    <3>2. i # Capacity => i + 1 \in 1 .. Capacity /\ Capacity - (i + 1) = Capacity - i - 1
      BY <1>1
    <3> QED BY <1>6, <2>1, <3>1, <3>2
  <2> QED BY <1>5, <2>1, <2>2, <2>3, <2>4, <2>5 DEF Linked
<1>12. Lists(q, f)
  <2>1. {Capacity} \cap (0 .. (Capacity - 1)) = {}
    BY <1>1
  <2> QED BY <1>5, <1>10, <1>11, <2>1 DEF Lists
<1>13. Owned(q, f)
  <2>1. Owners = {}
    BY <1>3, IdleIs DEF Owners
  <2>2. \A n \in Nodes : n = Capacity \/ n \in 0 .. (Capacity - 1)
    BY <1>1
  <2> QED BY <1>10, <1>11, <2>1, <2>2 DEF Owned
<1>14. Counts(q, 0)
  <2>1. \A t \in Threads : local[t].pc = "idle"
    BY <1>3, IdleIs
  <2>2. {t \in Threads : local[t].pc # "idle"} = {} /\ In(Allocating) = {} /\ In(Building) = {}
        /\ In(Linking) = {} /\ In(Taking) = {}
    BY <2>1, IdleIs DEF In
  <2>3. Count(Allocating) = 0 /\ Count(Building) = 0 /\ Count(Linking) = 0 /\ Count(Taking) = 0
    BY <2>2, FS_EmptySet DEF Count
  <2>4. 1 \in 1 .. Len(q) /\ tail_.tag + (Len(q) - 1) + Count(Linking) <= calls
    BY <1>3, <1>5, <1>10, <2>3
  <2>5. IsFiniteSet({t \in Threads : local[t].pc # "idle"})
    BY <2>2, FS_EmptySet
  <2>6. /\ pool_.tag + Count(Allocating) <= 1 + calls
        /\ head_.tag + Count(Taking) <= calls
        /\ 0 + Count(Building) + Count(Linking) <= 2 * calls
    BY <1>3, <1>5, <2>3
  <2> QED BY <1>5, <1>10, <2>4, <2>5, <2>6 DEF Counts
<1>15. \A t \in Threads : \E a \in 0 .. 0 : ThreadInv(local[t], q, f, a)
  <2> SUFFICES ASSUME NEW t \in Threads PROVE ThreadInv(local[t], q, f, 0)
    OBVIOUS
  <2>1. local[t].pc = "idle"
    BY <1>3, IdleIs
  <2> QED BY <2>1 DEF ThreadInv, AllocInv, PushInv, PopInv
<1>16. QueueInv(q, f, 0)
  BY <1>8, <1>12, <1>13, <1>14, <1>15 DEF QueueInv
<1> QED BY <1>16 DEF NodesInv


-----------------------------------------------------------------------------
(* The lists that Chain finds *)

SmallerPairs == {ss \in Nat \X Nat : ss[1] < ss[2]}

LEMMA LeastNumber ==
    ASSUME NEW S \in SUBSET Nat, S # {}
    PROVE  \E n \in S : \A m \in S : n <= m
<1>1. IsWellFoundedOn(SmallerPairs, Nat)
  BY NatLessThanWellFounded DEF OpToRel, SmallerPairs
<1>2. PICK n \in S : \A m \in S : <<m, n>> \notin SmallerPairs
  BY <1>1, WFMin
<1>3. ASSUME NEW m \in S PROVE n <= m
  <2>1. <<m, n>> \in Nat \X Nat /\ <<m, n>> \notin SmallerPairs /\ m \in Nat /\ n \in Nat
    BY <1>2
  <2>2. ~(<<m, n>>[1] < <<m, n>>[2])
    BY <2>1 DEF SmallerPairs
  <2> QED BY <2>1, <2>2
<1> QED BY <1>3

\* The first k nodes, at most, that the links lead to from each node.
Row(k, from) ==
    [i \in 0 .. NodeCount |->
       IF k = 0 \/ i = null_handle THEN <<>> ELSE <<i>> \o from[k - 1][next[i].index]]

LEMMA RowsExist ==
    ASSUME NEW n \in Nat
    PROVE  \E f : f = [k \in 0 .. n |-> Row(k, f)]
<1> DEFINE Bad == {m \in Nat : ~ \E f : f = [k \in 0 .. m |-> Row(k, f)]}
<1>1. Bad = {}
  <2> SUFFICES ASSUME Bad # {} PROVE FALSE
    OBVIOUS
  <2>1. Bad \in SUBSET Nat
    OBVIOUS
  <2> HIDE DEF Bad
  <2>2. PICK m \in Bad : \A l \in Bad : m <= l
    BY <2>1, LeastNumber
  <2>3. m \in Nat
    BY <2>1
  <2>4. CASE m = 0
    <3> DEFINE f == [k \in 0 .. 0 |-> Row(0, <<>>)]
    <3>1. \A g, h : Row(0, g) = Row(0, h)
      BY DEF Row
    <3>2. f = [k \in 0 .. 0 |-> Row(k, f)]
      BY <3>1
    <3>3. m \notin Bad
      BY <2>4, <3>2 DEF Bad
    <3> QED BY <3>3
  <2>5. CASE m # 0
    <3>1. m - 1 \in Nat /\ m - 1 \notin Bad
      BY <2>2, <2>3, <2>5
    <3>2. PICK f : f = [k \in 0 .. (m - 1) |-> Row(k, f)]
      BY <3>1 DEF Bad
    <3> DEFINE g == [k \in 0 .. m |-> IF k = m THEN Row(m, f) ELSE f[k]]
    <3>3. \A k \in 0 .. (m - 1) : g[k] = f[k]
      BY <2>3
    <3>4. \A k \in 0 .. m : Row(k, g) = Row(k, f)
      <4> SUFFICES ASSUME NEW k \in 0 .. m PROVE Row(k, g) = Row(k, f)
        OBVIOUS
      <4>1. k = 0 \/ g[k - 1] = f[k - 1]
        BY <2>3, <3>3
      <4> HIDE DEF g
      <4> QED BY <4>1 DEF Row
    <3>5. \A k \in 0 .. m : g[k] = Row(k, g)
      <4> SUFFICES ASSUME NEW k \in 0 .. m PROVE g[k] = Row(k, f)
        BY <3>4
      <4>1. k # m => k \in 0 .. (m - 1)
        BY <2>3
      <4>2. \A l \in 0 .. (m - 1) : f[l] = Row(l, f)
        BY <3>2
      <4> QED BY <4>1, <4>2
    <3>6. g = [k \in 0 .. m |-> Row(k, g)]
      <4>1. g = [k \in 0 .. m |-> g[k]]
        OBVIOUS
      <4> HIDE DEF g
      <4> QED BY <3>5, <4>1
    <3>7. m \notin Bad
      BY <2>3, <3>6 DEF Bad
    <3> QED BY <3>7
  <2> QED BY <2>4, <2>5
<1> QED BY <1>1

LEMMA ChainRows ==
    \E f : f = [k \in 0 .. NodeCount |-> Row(k, f)] /\ Chain = f[NodeCount]
<1> DEFINE f == CHOOSE f : f = [k \in 0 .. NodeCount |-> Row(k, f)]
<1>1. f = [k \in 0 .. NodeCount |-> Row(k, f)]
  BY RowsExist, ConstantsAre
<1>2. Chain = f[NodeCount]
  BY Zenon DEF Chain, Row
<1> HIDE DEF f
<1> QED BY <1>1, <1>2

LEMMA ChainIsList ==
    ASSUME NEW h, NEW s, Linked(next, h, s)
    PROVE  Chain[h] = s
<1> DEFINE n == Len(s)
           top == NodeCount
<1>1. top \in Nat /\ null_handle = top /\ Nodes \subseteq 0 .. top /\ null_handle \notin Nodes
  BY ConstantsAre
<1>2. /\ s \in Seq(Nodes) /\ IsInjective(s) /\ h = IF s = <<>> THEN null_handle ELSE s[1]
      /\ \A i \in 1 .. n : next[s[i]].index = IF i = n THEN null_handle ELSE s[i + 1]
  BY DEF Linked
<1>3. /\ n \in Nat /\ DOMAIN s = 1 .. n /\ \A i \in 1 .. n : s[i] \in Nodes
      /\ s \in [1 .. n -> Nodes]
  BY <1>2, LenProperties, ElementOfSeq
<1>4. n <= top
  <2>1. s \in Injection(1 .. n, Nodes)
    BY <1>2, <1>3 DEF Injection
  <2>2. IsFiniteSet(Nodes) /\ Cardinality(Nodes) = top /\ Cardinality(1 .. n) = n
    <3>1. 1 \in Int /\ 0 \in Int /\ Capacity \in Int /\ Capacity >= 0 /\ n \in Int
          /\ top = Capacity + 1 /\ Nodes = 0 .. Capacity
      BY <1>3, ConstantsAre
    <3>2. IsFiniteSet(0 .. Capacity)
          /\ Cardinality(0 .. Capacity) = IF 0 > Capacity THEN 0 ELSE Capacity - 0 + 1
      BY <3>1, FS_Interval
    <3>3. Cardinality(1 .. n) = IF 1 > n THEN 0 ELSE n - 1 + 1
      BY <3>1, FS_Interval
    <3> HIDE DEF n, top
    <3> QED BY <1>3, <3>1, <3>2, <3>3
  <2>3. Cardinality(1 .. n) <= Cardinality(Nodes)
    BY <2>1, <2>2, FS_Injection
  <2> QED BY <2>2, <2>3
<1>5. PICK f : f = [k \in 0 .. top |-> Row(k, f)] /\ Chain = f[top]
  BY ChainRows
<1> HIDE DEF n, top
<1>6. \A k \in 0 .. top, e \in 0 .. top :
        f[k][e] = IF k = 0 \/ e = null_handle THEN <<>> ELSE <<e>> \o f[k - 1][next[e].index]
  <2> SUFFICES ASSUME NEW k \in 0 .. top, NEW e \in 0 .. top
               PROVE  f[k][e] = IF k = 0 \/ e = null_handle THEN <<>>
                                ELSE <<e>> \o f[k - 1][next[e].index]
    OBVIOUS
  <2>1. f[k] = Row(k, f)
    BY <1>5
  <2> QED BY <2>1 DEF Row, top
<1> DEFINE Bad == {m \in Nat : m < n /\ f[top + 1 - (n - m)][s[n - m]] # SubSeq(s, n - m, n)}
<1>7. Bad = {}
  <2> SUFFICES ASSUME Bad # {} PROVE FALSE
    OBVIOUS
  <2>1. Bad \in SUBSET Nat
    OBVIOUS
  <2>2. PICK m \in Bad : \A l \in Bad : m <= l
    BY <2>1, LeastNumber
  <2> DEFINE i == n - m
             k == top + 1 - i
  <2>3. m \in Nat /\ m < n /\ f[k][s[i]] # SubSeq(s, i, n)
    BY <2>2
  <2>4. i \in 1 .. n /\ i \in Int /\ i <= n /\ k \in 1 .. top /\ k - 1 \in 0 .. top
    BY <1>1, <1>3, <1>4, <2>3
  <2>5. m # 0 => f[top + 1 - (i + 1)][s[i + 1]] = SubSeq(s, i + 1, n)
    <3> SUFFICES ASSUME m # 0
                 PROVE  f[top + 1 - (i + 1)][s[i + 1]] = SubSeq(s, i + 1, n)
      OBVIOUS
    <3>1. m - 1 \in Nat /\ m - 1 < n /\ n - (m - 1) = i + 1 /\ ~(m <= m - 1)
      BY <1>3, <2>3
    <3>2. m - 1 \notin Bad
      BY <2>2, <3>1
    <3>3. f[top + 1 - (n - (m - 1))][s[n - (m - 1)]] = SubSeq(s, n - (m - 1), n)
      BY <3>1, <3>2
    <3> HIDE DEF i
    <3> QED BY <3>1, <3>3
  <2>6. top + 1 - (i + 1) = k - 1 /\ (m = 0 <=> i = n)
    <3>1. m \in Nat /\ n \in Nat /\ top \in Nat
      BY <1>1, <1>3, <2>3
    <3>2. m = 0 <=> n - m = n
      BY <3>1
    <3>3. top + 1 - ((n - m) + 1) = (top + 1 - (n - m)) - 1
      BY <3>1
    <3> QED BY <3>2, <3>3
  <2> HIDE DEF Bad, i, k
  <2>7. f[k][s[i]] = <<s[i]>> \o f[k - 1][next[s[i]].index]
    <3>1. s[i] \in 0 .. top /\ s[i] # null_handle
      BY <1>1, <1>3, <2>4
    <3>2. k \in 0 .. top /\ k # 0
      BY <1>1, <2>4
    <3> QED BY <1>6, <3>1, <3>2
  <2>8. f[k - 1][next[s[i]].index] = SubSeq(s, i + 1, n)
    <3>1. CASE i = n
      <4>1. next[s[i]].index = null_handle /\ null_handle \in 0 .. top
        BY <1>1, <1>2, <2>4, <3>1 DEF n
      <4>2. f[k - 1][null_handle] = <<>>
        BY <1>6, <2>4, <4>1
      <4>3. SubSeq(s, i + 1, n) = <<>>
        <5>1. i + 1 \in Int /\ n \in Int /\ n < i + 1
          BY <1>3, <2>4, <3>1
        <5> QED BY <5>1, SubSeqEmpty
      <4> QED BY <4>1, <4>2, <4>3
    <3>2. CASE i # n
      BY <1>2, <2>4, <2>5, <2>6, <3>2 DEF n
    <3> QED BY <3>1, <3>2
  <2>9. SubSeq(s, i, n) = <<s[i]>> \o SubSeq(s, i + 1, n)
    <3>1. i \in 1 .. n /\ n \in i .. n
      BY <1>3, <2>4
    <3>2. i \in 1 .. Len(s) /\ n \in i .. Len(s) /\ s \in Seq(Nodes)
      BY <1>2, <3>1 DEF n
    <3> QED BY <3>2, SubSeqRecursiveFirst
  <2> QED BY <2>3, <2>7, <2>8, <2>9
<1>8. CASE s = <<>>
  <2>1. h = null_handle /\ null_handle \in 0 .. top /\ top \in 0 .. top
    BY <1>1, <1>2, <1>8
  <2>2. f[top][null_handle] = <<>>
    BY <1>6, <2>1
  <2> QED BY <1>5, <1>8, <2>1, <2>2
<1>9. CASE s # <<>>
  <2>1. n # 0
    BY <1>2, <1>9, EmptySeq DEF n
  <2>2. n - 1 \in Nat /\ n - 1 < n /\ n - (n - 1) = 1 /\ top + 1 - 1 = top
    BY <1>1, <1>3, <2>1
  <2>3. n - 1 \notin Bad
    BY <1>7
  <2>4. f[top + 1 - (n - (n - 1))][s[n - (n - 1)]] = SubSeq(s, n - (n - 1), n)
    BY <2>2, <2>3
  <2>5. f[top][s[1]] = SubSeq(s, 1, n)
    BY <2>2, <2>4
  <2>6. SubSeq(s, 1, n) = s
    BY <1>2, SubSeqFull DEF n
  <2> QED BY <1>2, <1>5, <1>9, <2>5, <2>6
<1> QED BY <1>8, <1>9

\* A list is as long as the set of its nodes is large.
LEMMA LinkedSize ==
    ASSUME NEW h, NEW s, Linked(next, h, s)
    PROVE  Len(s) = Cardinality(ToSet(s))
<1> DEFINE n == Len(s)
<1>1. n \in Nat /\ DOMAIN s = 1 .. n /\ IsInjective(s) /\ s \in Seq(Nodes)
      /\ \A m : m \in ToSet(s) <=> \E i \in 1 .. n : s[i] = m
  BY LinkedIs DEF Linked
<1>2. s \in [1 .. n -> ToSet(s)]
  <2>1. s = [i \in 1 .. n |-> s[i]]
    BY <1>1, LenProperties
  <2> QED BY <1>1, <2>1
<1>3. s \in Bijection(1 .. n, ToSet(s))
  BY <1>1, <1>2 DEF Bijection, Injection, Surjection
<1>4. IsFiniteSet(1 .. n) /\ Cardinality(1 .. n) = n
  <2>1. 1 \in Int /\ n \in Int
    BY <1>1
  <2>2. IsFiniteSet(1 .. n) /\ Cardinality(1 .. n) = IF 1 > n THEN 0 ELSE n - 1 + 1
    BY <2>1, FS_Interval
  <2> HIDE DEF n
  <2> QED BY <1>1, <2>2
<1>5. Cardinality(ToSet(s)) = Cardinality(1 .. n)
  BY <1>3, <1>4, FS_Bijection DEF ExistsBijection
<1> QED BY <1>4, <1>5

LEMMA InvNodesApart == NodesInv => TypeOK /\ NodesApart
<1> SUFFICES ASSUME NodesInv PROVE TypeOK /\ NodesApart
  OBVIOUS
<1>1. PICK q, f, w : QueueInv(q, f, w)
  BY DEF NodesInv
<1>2. TypeOK /\ Lists(q, f) /\ Owned(q, f) /\ Counts(q, w)
  BY <1>1 DEF QueueInv
<1>3. /\ Linked(next, head_.index, q) /\ Linked(next, pool_.index, f)
      /\ tail_.index \in ToSet(q) /\ ToSet(q) \cap ToSet(f) = {}
  BY <1>2 DEF Lists
<1>4. QueueNodes = q /\ FreeNodes = f
  BY <1>3, ChainIsList DEF QueueNodes, FreeNodes
<1>5. Len(q) = Cardinality(ToSet(q)) /\ Len(f) = Cardinality(ToSet(f))
  BY <1>3, LinkedSize
<1> DEFINE owned == {local[t].n : t \in Owners}
<1>6. Cardinality(owned) = Cardinality(Owners)
  <2> DEFINE b == [t \in Owners |-> local[t].n]
  <2>1. IsFiniteSet(Owners)
    <3>1. Owners \subseteq {t \in Threads : local[t].pc # "idle"}
      BY IdleIs DEF Owners
    <3> QED BY <1>2, <3>1, FS_Subset DEF Counts
  <2>2. \A t, u \in Owners : local[t].n = local[u].n => t = u
    BY <1>2 DEF Owned
  <2>3. b \in Bijection(Owners, owned)
    BY <2>2 DEF Bijection, Injection, IsInjective, Surjection
  <2>4. ExistsBijection(Owners, owned)
    BY <2>3 DEF ExistsBijection
  <2> HIDE DEF owned
  <2> QED BY <2>1, <2>4, FS_Bijection
<1>7. ToSet(q) \subseteq Nodes /\ ToSet(f) \subseteq Nodes
  BY <1>3, LinkedIs
<1>8. ToSet(q) \cap owned = {} /\ ToSet(f) \cap owned = {}
  BY <1>2 DEF Owned
<1>9. ToSet(q) \cup ToSet(f) \cup owned = Nodes
  <2>1. owned \subseteq Nodes
    BY <1>2 DEF Owned
  <2>2. \A n \in Nodes : n \in ToSet(q) \/ n \in ToSet(f) \/ n \in owned
    BY <1>2 DEF Owned
  <2> QED BY <1>7, <2>1, <2>2
<1> QED BY <1>2, <1>3, <1>4, <1>5, <1>6, <1>8, <1>9 DEF NodesApart, Owners

-----------------------------------------------------------------------------
(* The queue implements the abstract one: the invariant *)

\* Places where the node that a thread has holds what it pushes.
Holding == {"constructNext", "pushTail", "pushNext", "pushCheck", "pushLink", "pushHelp"}

\* The elements of the nodes q, of which the first is the dummy.
ItemsOf(q, d) == [k \in 1 .. (Len(q) - 1) |-> d[q[k + 1]]]

IdleInv == \A t \in Threads : local[t].pc = "idle" => local[t] = Idle

\* A call knows when the queue was empty while it ran.
WatchInv ==
    /\ sawEmpty \in [Threads -> BOOLEAN]
    /\ \A t \in Threads :
         /\ sawEmpty[t] => local[t].pc # "idle"
         /\ local[t].pc # "idle" /\ Items = <<>> => sawEmpty[t]

\* A node that is ready to be linked holds what is pushed; what was read of the first
\* element is that while the head is as it was; and the queue was empty if the
\* link of the head was null.
ElementInv(t) ==
    /\ local[t].pc \in Holding => data[local[t].n] = local[t].arg
    /\ local[t].pc = "popCas" /\ head_ = local[t].first =>
         local[t].arg = data[local[t].after.index]
    /\ local[t].pc = "popCheck" /\ head_ = local[t].first
         /\ local[t].after.index = null_handle => sawEmpty[t]

ElementsInv == IdleInv /\ WatchInv /\ \A t \in Threads : ElementInv(t)

-----------------------------------------------------------------------------
(* Elements *)

LEMMA ChainAll == \A h, s : Linked(next, h, s) => Chain[h] = s
BY ChainIsList

LEMMA ChainThen == (\A h, s : Linked(next, h, s) => Chain[h] = s)'
BY ChainAll, PTL

LEMMA ItemsAre ==
    ASSUME NEW q, NEW f, NEW w, QueueInv(q, f, w)
    PROVE  Items = ItemsOf(q, data)
<1>1. QueueNodes = q
  BY ChainAll DEF QueueInv, Lists, QueueNodes
<1> QED BY <1>1 DEF Items, ItemsOf

LEMMA ItemsThen ==
    ASSUME NEW p, Linked(next', head_'.index, p)
    PROVE  Items' = ItemsOf(p, data')
<1>1. QueueNodes' = p
  BY ChainThen DEF QueueNodes
<1> QED BY <1>1 DEF Items, ItemsOf

LEMMA ItemsKept ==
    ASSUME NEW q, NEW f, NEW w, QueueInv(q, f, w), head_' = head_,
           \A n \in ToSet(q) : next'[n].index = next[n].index /\ data'[n] = data[n]
    PROVE  Items' = Items
<1>1. Linked(next, head_.index, q)
  BY DEF QueueInv, Lists
<1>2. Linked(next', head_'.index, q)
  BY <1>1, LinkedKept
<1>3. Items' = ItemsOf(q, data') /\ Items = ItemsOf(q, data)
  BY <1>2, ItemsThen, ItemsAre
<1>4. \A k \in 1 .. (Len(q) - 1) : q[k + 1] \in ToSet(q)
  <2>1. Len(q) \in Nat /\ \A i \in 1 .. Len(q) : q[i] \in ToSet(q)
    BY <1>1, LinkedIs
  <2> QED BY <2>1
<1> QED BY <1>3, <1>4 DEF ItemsOf

LEMMA ItemsLen ==
    ASSUME NEW q, NEW f, NEW w, QueueInv(q, f, w)
    PROVE  /\ Len(q) \in Nat /\ Len(q) >= 1 /\ Len(Items) = Len(q) - 1
           /\ (Items = <<>> <=> Len(q) = 1)
<1>1. Len(q) \in Nat /\ Len(q) >= 1
  <2>1. Linked(next, head_.index, q) /\ q # <<>>
    BY HeadIs DEF QueueInv, Lists
  <2>2. Len(q) \in Nat /\ Len(q) # 0
    BY <2>1, LinkedIs
  <2> QED BY <2>2
<1>2. PICK n \in Nat : n = Len(q) - 1
  BY <1>1
<1>3. Items = [k \in 1 .. n |-> data[q[k + 1]]]
  BY <1>2, ItemsAre DEF ItemsOf
<1>4. Len(Items) = n
  BY <1>3
<1>5. n = 0 => Items = <<>>
  BY <1>3
<1> QED BY <1>1, <1>2, <1>4, <1>5

-----------------------------------------------------------------------------
(* Calls *)

CallIs(l) ==
    [op |-> IF l.pc \in PushPlaces THEN "push"
            ELSE IF l.pc \in PopPlaces THEN "pop" ELSE "none",
     arg |-> IF l.pc \in PushPlaces \cup FreePlaces THEN l.arg ELSE 0,
     done |-> l.pc \in {"pushSwing"} \cup FreePlaces]

Calls == [t \in Threads |-> CallOf(t)]

LEMMA CallIsIdle ==
    ASSUME NEW l \in Locals
    PROVE  CallIs(l) = Abstract!Idle <=> l.pc = "idle"
<1>1. l.pc \in {"idle"} \cup PushPlaces \cup PopPlaces
  BY DEF Locals
<1>2. l.pc = "idle" => l.pc \notin PushPlaces /\ l.pc \notin PopPlaces /\ l.pc \notin FreePlaces
  BY DEF PushPlaces, PopPlaces, FreePlaces
<1>3. CASE l.pc = "idle"
  <2>1. l.pc \notin {"pushSwing"} \cup FreePlaces
    BY <1>2, <1>3
  <2>2. (l.pc \in {"pushSwing"} \cup FreePlaces) = FALSE
    BY <2>1
  <2>3. CallIs(l) = [op |-> "none", arg |-> 0, done |-> FALSE]
    BY <1>2, <1>3, <2>2, Zenon DEF CallIs
  <2> QED BY <1>3, <2>3 DEF Abstract!Idle
<1>4. CASE l.pc # "idle"
  <2>1. CallIs(l).op \in {"push", "pop"}
    BY <1>1, <1>4 DEF CallIs
  <2>2. Abstract!Idle.op = "none"
    BY DEF Abstract!Idle
  <2> QED BY <1>4, <2>1, <2>2
<1> QED BY <1>3, <1>4

\* What a call is, by its place.
LEMMA CallAt ==
    ASSUME NEW l
    PROVE  /\ l.pc \in Linking => CallIs(l) = [op |-> "push", arg |-> l.arg, done |-> FALSE]
           /\ l.pc = "pushSwing" => CallIs(l) = [op |-> "push", arg |-> l.arg, done |-> TRUE]
           /\ l.pc \in Taking => CallIs(l) = [op |-> "pop", arg |-> 0, done |-> FALSE]
           /\ l.pc \in FreePlaces => CallIs(l) = [op |-> "pop", arg |-> l.arg, done |-> TRUE]
<1>1. \A x \in Linking : x \in PushPlaces /\ x \notin {"pushSwing"} \cup FreePlaces
  BY DEF Linking, PushPlaces, FreePlaces
<1>2. \A x \in Taking : /\ x \in PopPlaces /\ x \notin PushPlaces
                        /\ x \notin {"pushSwing"} \cup FreePlaces
                        /\ x \notin PushPlaces \cup FreePlaces
  BY DEF Taking, PushPlaces, PopPlaces, FreePlaces
<1>3. \A x \in FreePlaces : x \in PopPlaces /\ x \notin PushPlaces
  BY DEF PushPlaces, PopPlaces, FreePlaces
<1>4. "pushSwing" \in PushPlaces
  BY DEF PushPlaces
<1>5. CASE l.pc \in Linking
  <2>1. (l.pc \in {"pushSwing"} \cup FreePlaces) = FALSE /\ l.pc \in PushPlaces
    BY <1>1, <1>5
  <2>2. l.pc # "pushSwing" /\ l.pc \notin Taking /\ l.pc \notin FreePlaces
    BY <1>1, <1>2, <1>5
  <2> QED BY <2>1, <2>2, Zenon DEF CallIs
<1>6. CASE l.pc = "pushSwing"
  <2>1. (l.pc \in {"pushSwing"} \cup FreePlaces) = TRUE /\ l.pc \in PushPlaces
    BY <1>4, <1>6
  <2>2. l.pc \notin Linking /\ l.pc \notin Taking /\ l.pc \notin FreePlaces
    BY <1>1, <1>2, <1>3, <1>4, <1>6
  <2> QED BY <2>1, <2>2, Zenon DEF CallIs
<1>7. CASE l.pc \in Taking
  <2>1. /\ (l.pc \in {"pushSwing"} \cup FreePlaces) = FALSE /\ l.pc \notin PushPlaces
        /\ l.pc \in PopPlaces /\ l.pc \notin PushPlaces \cup FreePlaces
    BY <1>2, <1>7
  <2>2. l.pc \notin Linking /\ l.pc # "pushSwing" /\ l.pc \notin FreePlaces
    BY <1>1, <1>2, <1>7
  <2> QED BY <2>1, <2>2, Zenon DEF CallIs
<1>8. CASE l.pc \in FreePlaces
  <2>1. /\ (l.pc \in {"pushSwing"} \cup FreePlaces) = TRUE /\ l.pc \notin PushPlaces
        /\ l.pc \in PopPlaces
    BY <1>3, <1>8
  <2>2. l.pc \notin Linking /\ l.pc # "pushSwing" /\ l.pc \notin Taking
    BY <1>1, <1>2, <1>3, <1>4, <1>8
  <2> QED BY <2>1, <2>2, Zenon DEF CallIs
<1> QED BY <1>5, <1>6, <1>7, <1>8

\* What a step of thread t, to l, means for the calls.
LEMMA WatchStep ==
    ASSUME local \in [Threads -> Locals], IdleInv, WatchInv, Watch,
           NEW t \in Threads, NEW l \in Locals, local' = [local EXCEPT ![t] = l],
           l.pc = "idle" => l = Idle
    PROVE  /\ IdleInv' /\ WatchInv' /\ Abstract!Watch
           /\ Calls' = [Calls EXCEPT ![t] = CallIs(l)]
           /\ Calls[t] = CallIs(local[t])
           /\ \A u \in Threads : sawEmpty[u] /\ local'[u].pc # "idle" => sawEmpty'[u]
           /\ (l.pc = "idle" <=> local[t].pc = "idle") /\ Items' = Items => sawEmpty' = sawEmpty
<1>1. /\ local'[t] = l /\ \A u \in Threads \ {t} : local'[u] = local[u]
      /\ \A u \in Threads : local[u] \in Locals /\ local'[u] \in Locals
  OBVIOUS
<1>2. IdleInv'
  BY <1>1 DEF IdleInv
<1>3. \A u \in Threads : /\ local[u] = Idle <=> local[u].pc = "idle"
                         /\ local'[u] = Idle <=> local'[u].pc = "idle"
  BY <1>2 DEF IdleInv, Idle
<1>4. \A u \in Threads : Calls[u] = CallIs(local[u]) /\ Calls'[u] = CallIs(local'[u])
  BY DEF Calls, CallOf, CallIs
<1>5. \A u \in Threads : /\ Calls[u] = Abstract!Idle <=> local[u].pc = "idle"
                         /\ Calls'[u] = Abstract!Idle <=> local'[u].pc = "idle"
  BY <1>1, <1>4, CallIsIdle
<1>6. sawEmpty' = [u \in Threads |->
                     /\ local'[u].pc # "idle"
                     /\ Items' = <<>> \/ (local[u].pc # "idle" /\ sawEmpty[u])]
  BY <1>3 DEF Watch
<1>7. sawEmpty' \in [Threads -> BOOLEAN]
  BY <1>6
<1>8. WatchInv'
  BY <1>6, <1>7 DEF WatchInv
<1>9. Abstract!Watch
  BY <1>5, <1>6 DEF Abstract!Watch, Calls
<1>10. Calls' = [Calls EXCEPT ![t] = CallIs(l)]
  BY <1>1, <1>4 DEF Calls
<1>11. \A u \in Threads : sawEmpty[u] /\ local'[u].pc # "idle" => sawEmpty'[u]
  BY <1>6 DEF WatchInv
<1>12. ASSUME l.pc = "idle" <=> local[t].pc = "idle", Items' = Items
       PROVE  sawEmpty' = sawEmpty
  <2>1. \A u \in Threads : sawEmpty'[u] = sawEmpty[u]
    <3> TAKE u \in Threads
    <3>1. local'[u].pc = "idle" <=> local[u].pc = "idle"
      BY <1>1, <1>12
    <3>2. /\ sawEmpty[u] \in BOOLEAN /\ (sawEmpty[u] => local[u].pc # "idle")
          /\ local[u].pc # "idle" /\ Items = <<>> => sawEmpty[u]
      BY DEF WatchInv
    <3>3. sawEmpty'[u] = (/\ local'[u].pc # "idle"
                          /\ Items' = <<>> \/ (local[u].pc # "idle" /\ sawEmpty[u]))
      BY <1>6
    <3>4. sawEmpty'[u] <=> sawEmpty[u]
      BY <1>12, <3>1, <3>2, <3>3
    <3>5. sawEmpty'[u] \in BOOLEAN
      BY <1>7
    <3>6. \A a, b \in BOOLEAN : (a <=> b) => a = b
      OBVIOUS
    <3> QED BY <3>2, <3>4, <3>5, <3>6, Zenon
  <2>2. sawEmpty = [u \in Threads |-> sawEmpty[u]] /\ sawEmpty' = [u \in Threads |-> sawEmpty'[u]]
    BY <1>7, Zenon DEF WatchInv
  <2> QED BY <2>1, <2>2, Zenon
<1> QED BY <1>2, <1>4, <1>8, <1>9, <1>10, <1>11, <1>12

-----------------------------------------------------------------------------
(* Steps *)

\* What each step does to the elements: it keeps the invariant, and it is a step of
\* the abstract queue, or nothing to it.
Refines == ElementsInv' /\ [Abstract!QueueNext]_(Abstract!qvars)

\* A step of thread t that changes no element of the queue, nor those of the nodes
\* that others have.
LEMMA ElementsAfter ==
    ASSUME NEW q, NEW f, NEW w, QueueInv(q, f, w), TagsLast, ElementsInv, Watch,
           NEW t \in Threads, NEW l \in Locals, local' = [local EXCEPT ![t] = l],
           l.pc = "idle" => l = Idle,
           \A h \in tagged_index : h.tag <= head_.tag /\ head_' = h => head_ = h,
           \A n \in ToSet(q) : data'[n] = data[n],
           \A u \in Owners \ {t} : data'[local[u].n] = data[local[u].n],
           ElementInv(t)'
    PROVE  ElementsInv'
<1>1. local \in [Threads -> Locals]
  BY InvIs
<1>2. local'[t] = l /\ \A u \in Threads \ {t} : local'[u] = local[u]
  BY <1>1
<1>3. /\ IdleInv' /\ WatchInv'
      /\ \A u \in Threads : sawEmpty[u] /\ local'[u].pc # "idle" => sawEmpty'[u]
  BY <1>1, WatchStep DEF ElementsInv
<1>4. ASSUME NEW u \in Threads \ {t} PROVE ElementInv(u)'
  <2>1. PICK m : m = local[u]
    OBVIOUS
  <2>2. m \in Locals /\ m.first \in tagged_index /\ local'[u] = m /\ (\E a \in 0 .. w : ThreadInv(m, q, f, a))
    BY <1>1, <1>2, <2>1, ThreadIs
  <2>3. ElementInv(u) /\ PopInv(m)
    BY <2>2 DEF ElementsInv, ThreadInv
  <2>4. m.pc \in Holding => data'[m.n] = m.arg
    <3>1. m.pc \in Holding => u \in Owners
      BY <2>1 DEF Holding, Owners, Owns, PushPlaces
    <3> QED BY <2>1, <2>3, <3>1 DEF ElementInv
  <2>5. ASSUME m.pc \in {"popCas", "popCheck"}, head_' = m.first PROVE head_ = m.first
    BY <2>2, <2>3, <2>5 DEF PopInv
  <2>6. ASSUME m.pc = "popCas", head_' = m.first PROVE m.arg = data'[m.after.index]
    <3>1. head_ = m.first /\ m.arg = data[m.after.index]
      BY <2>1, <2>3, <2>5, <2>6 DEF ElementInv
    <3>2. next[head_.index].index = m.after.index /\ m.after.index # null_handle
      BY <2>3, <2>6, <3>1 DEF PopInv
    <3>3. Linked(next, head_.index, q) /\ q[1] = head_.index /\ 1 \in 1 .. Len(q)
      <4>1. Linked(next, head_.index, q) /\ q # <<>> /\ q[1] = head_.index
        BY HeadIs DEF QueueInv, Lists
      <4>2. Len(q) \in Nat /\ Len(q) # 0
        BY <4>1, LinkedIs
      <4> QED BY <4>1, <4>2
    <3>4. m.after.index \in ToSet(q)
      BY <3>2, <3>3, LinkInList
    <3> QED BY <3>1, <3>4
  <2>7. ASSUME m.pc = "popCheck", head_' = m.first, m.after.index = null_handle PROVE sawEmpty'[u]
    <3>1. sawEmpty[u]
      BY <2>1, <2>3, <2>5, <2>7 DEF ElementInv
    <3> QED BY <1>3, <2>2, <2>7, <3>1
  <2> QED BY <2>2, <2>4, <2>6, <2>7 DEF ElementInv
<1> QED BY <1>3, <1>4 DEF ElementsInv

\* A step inside a call that does nothing to the abstract queue.
LEMMA StillStep ==
    ASSUME NEW q, NEW f, NEW w, QueueInv(q, f, w), TagsLast, ElementsInv, Watch,
           NEW t \in Threads, NEW l \in Locals, Go(t, l),
           l.pc # "idle", local[t].pc # "idle", CallIs(l) = CallIs(local[t]),
           head_' = head_, Items' = Items,
           \A n \in ToSet(q) : data'[n] = data[n],
           \A u \in Owners \ {t} : data'[local[u].n] = data[local[u].n],
           sawEmpty' = sawEmpty => ElementInv(t)'
    PROVE  Refines
<1>1. local' = [local EXCEPT ![t] = l] /\ answer' = answer /\ local \in [Threads -> Locals]
  BY InvIs DEF Go
<1>2. /\ Calls' = [Calls EXCEPT ![t] = CallIs(l)] /\ Calls[t] = CallIs(local[t])
      /\ sawEmpty' = sawEmpty
  BY <1>1, WatchStep DEF ElementsInv
<1>3. Calls' = Calls
  <2>1. Calls = [u \in Threads |-> Calls[u]]
    BY DEF Calls
  <2> QED BY <1>2, <2>1
<1>4. UNCHANGED Abstract!qvars
  BY <1>1, <1>2, <1>3 DEF Abstract!qvars, Calls
<1>5. ElementsInv'
  BY <1>1, <1>2, ElementsAfter
<1> QED BY <1>4, <1>5 DEF Refines

\* It goes on with its part of the call, and changes nothing that is shared but the
\* tail or the pool.
LEMMA GoStill ==
    ASSUME NEW q, NEW f, NEW w, QueueInv(q, f, w), TagsLast, ElementsInv, Watch,
           NEW t \in Threads, NEW l \in Locals, Go(t, l),
           head_' = head_, next' = next, data' = data,
           \/ /\ local[t].pc \in Linking /\ l.pc \in Linking /\ l.arg = local[t].arg
              /\ l.pc \in Holding => local[t].pc \in Holding /\ l.n = local[t].n
           \/ local[t].pc \in Taking /\ l.pc \in Taking
           \/ local[t].pc \in FreePlaces /\ l.pc \in FreePlaces /\ l.arg = local[t].arg,
           l.pc = "popCas" /\ head_ = l.first => l.arg = data[l.after.index],
           l.pc = "popCheck" /\ head_ = l.first /\ l.after.index = null_handle => sawEmpty[t]
    PROVE  Refines
<1>1. local'[t] = l /\ local[t] \in Locals
  BY InvIs DEF Go
<1>2. Items' = Items
  BY ItemsKept
<1>3. l.pc # "idle" /\ local[t].pc # "idle"
  BY DEF Linking, Taking, PushPlaces, PopPlaces, FreePlaces
<1>4. CallIs(l) = CallIs(local[t])
  BY CallAt
<1>5. sawEmpty' = sawEmpty => ElementInv(t)'
  <2>1. ElementInv(t)
    BY DEF ElementsInv
  <2>2. \A x \in Holding : x \notin Taking /\ x \notin FreePlaces
    BY DEF Holding, Taking, PushPlaces, PopPlaces, FreePlaces
  <2>3. l.pc \in Holding => data[l.n] = l.arg
    BY <2>1, <2>2 DEF ElementInv
  <2> QED BY <1>1, <2>3 DEF ElementInv
<1> QED BY <1>2, <1>3, <1>4, <1>5, StillStep


\* The node that a thread reads the link of.
LEMMA ReadsNode ==
    ASSUME NEW q, NEW f, NEW w, QueueInv(q, f, w), TagsLast, NEW t \in Threads,
           local[t].pc \in {"allocNext", "allocCas", "pushNext", "pushLink", "popNext",
                            "popData", "popCas"}
    PROVE  /\ local[t].first.index \in Nodes /\ next[local[t].first.index] \in tagged_index
           /\ local[t].pc \in {"popData", "popCas"} =>
                local[t].after.index \in Nodes /\ data[local[t].after.index] \in 0 .. MaxCalls
<1>1. PICK m : m = local[t]
  OBVIOUS
<1>2. /\ m \in Locals /\ (\E a \in 0 .. w : ThreadInv(m, q, f, a))
      /\ next \in [Nodes -> tagged_index] /\ data \in [Nodes -> 0 .. MaxCalls]
      /\ m.after.index \in 0 .. NodeCount
  <2>1. m \in Locals /\ m.after \in tagged_index
    BY <1>1, ThreadIs
  <2>2. m.after.index \in 0 .. NodeCount
    BY <2>1, InvIs
  <2> QED BY <1>1, <2>1, <2>2, ThreadIs, InvIs
<1>3. AllocInv(m, f) /\ PopInv(m) /\ \E a \in 0 .. w : PushInv(m, q, a)
  BY <1>2 DEF ThreadInv
<1>4. m.first.index \in Nodes
  BY <1>1, <1>3 DEF AllocInv, PushInv, PopInv
<1>5. m.pc \in {"popData", "popCas"} => m.after.index \in Nodes
  BY <1>2, <1>3, ConstantsAre DEF PopInv
<1> QED BY <1>1, <1>2, <1>4, <1>5

\* A push looks for a node, or for the end of the queue.
LEMMA PushesStill ==
    ASSUME NEW q, NEW f, NEW w, QueueInv(q, f, w), TagsLast, ElementsInv, Watch,
           NEW t \in Threads,
           \/ /\ \/ AllocLoad(t) \/ (AllocCas(t) /\ pool_ # local[t].first)
              /\ pool_.index # null_handle
           \/ AllocNext(t)
           \/ AllocCas(t) /\ pool_ = local[t].first
           \/ PushTail(t) \/ PushNext(t) \/ PushCheck(t) \/ PushHelp(t)
           \/ PushLink(t) /\ next[local[t].first.index] # local[t].after
    PROVE  Refines
<1>1. PICK m : m = local[t]
  OBVIOUS
<1>2. m \in Locals /\ tail_ \in tagged_index /\ pool_ \in tagged_index
  BY <1>1, ThreadIs, InvIs
<1>3. ASSUME NEW l \in Locals, Go(t, l), head_' = head_, next' = next, data' = data,
             m.pc \in Linking, l.pc \in Linking, l.arg = m.arg,
             l.pc \in Holding => m.pc \in Holding /\ l.n = m.n
      PROVE  Refines
  <2>1. l.pc # "popCas" /\ l.pc # "popCheck"
    BY <1>3 DEF Linking, PushPlaces
  <2> QED BY <1>1, <1>3, <2>1, GoStill
<1>4. CASE /\ AllocLoad(t) \/ (AllocCas(t) /\ pool_ # local[t].first)
           /\ pool_.index # null_handle
  <2>1. PICK l : l = [m EXCEPT !.pc = "allocNext", !.first = pool_]
    OBVIOUS
  <2>2. Go(t, l) /\ head_' = head_ /\ next' = next /\ data' = data /\ m.pc \in {"allocate", "allocCas"}
    BY <1>1, <1>4, <2>1 DEF AllocLoad, AllocCas, Allocated, At
  <2>3. l \in Locals /\ l.pc = "allocNext" /\ l.arg = m.arg
    <3>1. "allocNext" \in PushPlaces
      BY DEF PushPlaces
    <3> QED BY <1>2, <2>1, <3>1 DEF Locals
  <2>4. m.pc \in Linking /\ l.pc \in Linking /\ l.pc \notin Holding
    BY <2>2, <2>3 DEF Linking, PushPlaces, Holding
  <2> QED BY <1>3, <2>2, <2>3, <2>4
<1>5. CASE AllocNext(t)
  <2>1. PICK l : l = [m EXCEPT !.pc = "allocCas", !.after = next[m.first.index]]
    OBVIOUS
  <2>2. Go(t, l) /\ head_' = head_ /\ next' = next /\ data' = data /\ m.pc = "allocNext"
    BY <1>1, <1>5, <2>1 DEF AllocNext, At
  <2>3. next[m.first.index] \in tagged_index
    BY <1>1, <2>2, ReadsNode
  <2>4. l \in Locals /\ l.pc = "allocCas" /\ l.arg = m.arg
    <3>1. "allocCas" \in PushPlaces
      BY DEF PushPlaces
    <3> QED BY <1>2, <2>1, <2>3, <3>1 DEF Locals
  <2>5. m.pc \in Linking /\ l.pc \in Linking /\ l.pc \notin Holding
    BY <2>2, <2>4 DEF Linking, PushPlaces, Holding
  <2> QED BY <1>3, <2>2, <2>4, <2>5
<1>6. CASE AllocCas(t) /\ pool_ = local[t].first
  <2>1. PICK l : l = [m EXCEPT !.pc = "construct", !.n = m.first.index]
    OBVIOUS
  <2>2. Go(t, l) /\ head_' = head_ /\ next' = next /\ data' = data /\ m.pc = "allocCas"
    BY <1>1, <1>6, <2>1 DEF AllocCas, At
  <2>3. m.first.index \in 0 .. NodeCount
    BY <1>1, <2>2, ReadsNode, ConstantsAre
  <2>4. l \in Locals /\ l.pc = "construct" /\ l.arg = m.arg
    <3>1. "construct" \in PushPlaces
      BY DEF PushPlaces
    <3> QED BY <1>2, <2>1, <2>3, <3>1 DEF Locals
  <2>5. m.pc \in Linking /\ l.pc \in Linking /\ l.pc \notin Holding
    BY <2>2, <2>4 DEF Linking, PushPlaces, Holding
  <2> QED BY <1>3, <2>2, <2>4, <2>5
<1>7. CASE PushTail(t)
  <2>1. PICK l : l = [m EXCEPT !.pc = "pushNext", !.first = tail_]
    OBVIOUS
  <2>2. Go(t, l) /\ head_' = head_ /\ next' = next /\ data' = data /\ m.pc = "pushTail"
    BY <1>1, <1>7, <2>1 DEF PushTail, At
  <2>3. l \in Locals /\ l.pc = "pushNext" /\ l.arg = m.arg /\ l.n = m.n
    <3>1. "pushNext" \in PushPlaces
      BY DEF PushPlaces
    <3> QED BY <1>2, <2>1, <3>1 DEF Locals
  <2>4. m.pc \in Linking /\ l.pc \in Linking /\ m.pc \in Holding
    BY <2>2, <2>3 DEF Linking, PushPlaces, Holding
  <2> QED BY <1>3, <2>2, <2>3, <2>4
<1>8. CASE PushNext(t)
  <2>1. PICK l : l = [m EXCEPT !.pc = "pushCheck", !.after = next[m.first.index]]
    OBVIOUS
  <2>2. Go(t, l) /\ head_' = head_ /\ next' = next /\ data' = data /\ m.pc = "pushNext"
    BY <1>1, <1>8, <2>1 DEF PushNext, At
  <2>3. next[m.first.index] \in tagged_index
    BY <1>1, <2>2, ReadsNode
  <2>4. l \in Locals /\ l.pc = "pushCheck" /\ l.arg = m.arg /\ l.n = m.n
    <3>1. "pushCheck" \in PushPlaces
      BY DEF PushPlaces
    <3> QED BY <1>2, <2>1, <2>3, <3>1 DEF Locals
  <2>5. m.pc \in Linking /\ l.pc \in Linking /\ m.pc \in Holding
    BY <2>2, <2>4 DEF Linking, PushPlaces, Holding
  <2> QED BY <1>3, <2>2, <2>4, <2>5
<1>9. ASSUME NEW place \in {"pushTail", "pushLink", "pushHelp"}, GoTo(t, place),
             head_' = head_, next' = next, data' = data,
             m.pc \in {"pushCheck", "pushLink", "pushHelp"}
      PROVE  Refines
  <2>1. PICK l : l = [m EXCEPT !.pc = place]
    OBVIOUS
  <2>2. Go(t, l)
    BY <1>1, <1>9, <2>1 DEF GoTo
  <2>3. place \in PushPlaces
    BY DEF PushPlaces
  <2>4. l \in Locals /\ l.pc = place /\ l.arg = m.arg /\ l.n = m.n
    BY <1>2, <2>1, <2>3 DEF Locals
  <2>5. m.pc \in Linking /\ l.pc \in Linking /\ m.pc \in Holding
    BY <1>9, <2>4 DEF Linking, PushPlaces, Holding
  <2> QED BY <1>3, <1>9, <2>2, <2>4, <2>5
<1>10. CASE PushCheck(t)
  BY <1>1, <1>9, <1>10 DEF PushCheck, At
<1>11. CASE PushHelp(t)
  BY <1>1, <1>9, <1>11 DEF PushHelp, At
<1>12. CASE PushLink(t) /\ next[local[t].first.index] # local[t].after
  BY <1>1, <1>9, <1>12 DEF PushLink, At
<1> QED BY <1>4, <1>5, <1>6, <1>7, <1>8, <1>10, <1>11, <1>12


\* A pop looks for the first element, or for the place of its node in the free list.
LEMMA PopsStill ==
    ASSUME NEW q, NEW f, NEW w, QueueInv(q, f, w), TagsLast, ElementsInv, Watch,
           NEW t \in Threads,
           \/ PopHead(t) \/ PopTail(t) \/ PopNext(t) \/ PopHelp(t) \/ PopData(t)
           \/ PopCheck(t) /\ ~Return(t, 0)
           \/ PopCas(t) /\ head_ # local[t].first
           \/ FreeLoad(t)
           \/ FreeCas(t) /\ pool_ # local[t].first
    PROVE  Refines
<1>1. PICK m : m = local[t]
  OBVIOUS
<1>2. /\ m \in Locals /\ head_ \in tagged_index /\ tail_ \in tagged_index
      /\ pool_ \in tagged_index /\ ElementInv(t)
  BY <1>1, ThreadIs, InvIs DEF ElementsInv
<1>3. ASSUME NEW l \in Locals, Go(t, l), head_' = head_, next' = next, data' = data,
             \/ m.pc \in Taking /\ l.pc \in Taking
             \/ m.pc \in FreePlaces /\ l.pc \in FreePlaces /\ l.arg = m.arg,
             l.pc = "popCas" => l.arg = data[l.after.index],
             l.pc = "popCheck" /\ head_ = l.first /\ l.after.index = null_handle => sawEmpty[t]
      PROVE  Refines
  BY <1>1, <1>3, GoStill
<1>4. CASE PopHead(t)
  <2>1. PICK l : l = [m EXCEPT !.pc = "popTail", !.first = head_]
    OBVIOUS
  <2>2. Go(t, l) /\ head_' = head_ /\ next' = next /\ data' = data /\ m.pc = "popHead"
    BY <1>1, <1>4, <2>1 DEF PopHead, At
  <2>3. l \in Locals /\ l.pc = "popTail"
    <3>1. "popTail" \in PopPlaces
      BY DEF PopPlaces
    <3> QED BY <1>2, <2>1, <3>1 DEF Locals
  <2>4. m.pc \in Taking /\ l.pc \in Taking
    BY <2>2, <2>3 DEF Taking, PopPlaces, FreePlaces
  <2> QED BY <1>3, <2>2, <2>3, <2>4
<1>5. CASE PopTail(t)
  <2>1. PICK l : l = [m EXCEPT !.pc = "popNext", !.second = tail_]
    OBVIOUS
  <2>2. Go(t, l) /\ head_' = head_ /\ next' = next /\ data' = data /\ m.pc = "popTail"
    BY <1>1, <1>5, <2>1 DEF PopTail, At
  <2>3. l \in Locals /\ l.pc = "popNext"
    <3>1. "popNext" \in PopPlaces
      BY DEF PopPlaces
    <3> QED BY <1>2, <2>1, <3>1 DEF Locals
  <2>4. m.pc \in Taking /\ l.pc \in Taking
    BY <2>2, <2>3 DEF Taking, PopPlaces, FreePlaces
  <2> QED BY <1>3, <2>2, <2>3, <2>4
<1>6. CASE PopNext(t)
  <2>1. PICK l : l = [m EXCEPT !.pc = "popCheck", !.after = next[m.first.index]]
    OBVIOUS
  <2>2. Go(t, l) /\ head_' = head_ /\ next' = next /\ data' = data /\ m.pc = "popNext"
    BY <1>1, <1>6, <2>1 DEF PopNext, At
  <2>3. next[m.first.index] \in tagged_index
    BY <1>1, <2>2, ReadsNode
  <2>4. l \in Locals /\ l.pc = "popCheck" /\ l.first = m.first /\ l.after = next[m.first.index]
    <3>1. "popCheck" \in PopPlaces
      BY DEF PopPlaces
    <3> QED BY <1>2, <2>1, <2>3, <3>1 DEF Locals
  <2>5. m.pc \in Taking /\ l.pc \in Taking
    BY <2>2, <2>4 DEF Taking, PopPlaces, FreePlaces
  \* The node of the head is the last one: there is no element.
  <2>6. ASSUME head_ = l.first, l.after.index = null_handle PROVE sawEmpty[t]
    <3>1. Linked(next, head_.index, q) /\ q[1] = head_.index /\ 1 \in 1 .. Len(q)
      <4>1. Linked(next, head_.index, q) /\ q # <<>> /\ q[1] = head_.index
        BY HeadIs DEF QueueInv, Lists
      <4>2. Len(q) \in Nat /\ Len(q) # 0
        BY <4>1, LinkedIs
      <4> QED BY <4>1, <4>2
    <3>2. next[q[1]].index = null_handle
      BY <2>4, <2>6, <3>1
    <3>3. next[q[1]].index = null_handle <=> 1 = Len(q)
      <4>1. PICK i \in 1 .. Len(q) : i = 1
        BY <3>1
      <4>2. next[q[i]].index = null_handle <=> i = Len(q)
        <5>1. Linked(next, head_.index, q)
          BY <3>1
        <5> QED BY <5>1, LinkInList
      <4> QED BY <4>1, <4>2
    <3>4. Items = <<>>
      BY <3>2, <3>3, ItemsLen
    <3> QED BY <1>1, <2>2, <3>4 DEF ElementsInv, WatchInv
  <2> QED BY <1>3, <2>2, <2>4, <2>5, <2>6
<1>7. ASSUME NEW place \in {"popHelp", "popData", "popHead"}, GoTo(t, place),
             head_' = head_, next' = next, data' = data,
             m.pc \in {"popCheck", "popHelp", "popCas"}
      PROVE  Refines
  <2>1. PICK l : l = [m EXCEPT !.pc = place]
    OBVIOUS
  <2>2. Go(t, l)
    BY <1>1, <1>7, <2>1 DEF GoTo
  <2>3. place \in PopPlaces
    BY DEF PopPlaces
  <2>4. l \in Locals /\ l.pc = place
    BY <1>2, <2>1, <2>3 DEF Locals
  <2>5. m.pc \in Taking /\ l.pc \in Taking
    BY <1>7, <2>4 DEF Taking, PopPlaces, FreePlaces
  <2> QED BY <1>3, <1>7, <2>2, <2>4, <2>5
<1>8. CASE PopCheck(t) /\ ~Return(t, 0)
  BY <1>1, <1>7, <1>8 DEF PopCheck, At
<1>9. CASE PopHelp(t)
  BY <1>1, <1>7, <1>9 DEF PopHelp, At
<1>10. CASE PopCas(t) /\ head_ # local[t].first
  BY <1>1, <1>7, <1>10 DEF PopCas, At
<1>11. CASE PopData(t)
  <2>1. PICK l : l = [m EXCEPT !.pc = "popCas", !.arg = data[m.after.index]]
    OBVIOUS
  <2>2. Go(t, l) /\ head_' = head_ /\ next' = next /\ data' = data /\ m.pc = "popData"
    BY <1>1, <1>11, <2>1 DEF PopData, At
  <2>3. data[m.after.index] \in 0 .. MaxCalls
    BY <1>1, <2>2, ReadsNode
  <2>4. l \in Locals /\ l.pc = "popCas" /\ l.arg = data[l.after.index]
    <3>1. "popCas" \in PopPlaces
      BY DEF PopPlaces
    <3> QED BY <1>2, <2>1, <2>3, <3>1 DEF Locals
  <2>5. m.pc \in Taking /\ l.pc \in Taking
    BY <2>2, <2>4 DEF Taking, PopPlaces, FreePlaces
  <2> QED BY <1>3, <2>2, <2>4, <2>5
<1>12. CASE FreeLoad(t) \/ (FreeCas(t) /\ pool_ # local[t].first)
  <2>1. PICK l : l = [m EXCEPT !.pc = "freeNext", !.first = pool_]
    OBVIOUS
  <2>2. /\ Go(t, l) /\ head_' = head_ /\ next' = next /\ data' = data
        /\ m.pc \in {"free", "freeCas"}
    BY <1>1, <1>12, <2>1 DEF FreeLoad, FreeCas, At
  <2>3. l \in Locals /\ l.pc = "freeNext" /\ l.arg = m.arg
    <3>1. "freeNext" \in PopPlaces
      BY DEF PopPlaces, FreePlaces
    <3> QED BY <1>2, <2>1, <3>1 DEF Locals
  <2>4. m.pc \in FreePlaces /\ l.pc \in FreePlaces
    BY <2>2, <2>3 DEF FreePlaces
  <2> QED BY <1>3, <2>2, <2>3, <2>4
<1> QED BY <1>4, <1>5, <1>6, <1>8, <1>9, <1>10, <1>11, <1>12

\* A thread writes to the node that it has, which is not in the queue.
LEMMA OwnNodeStill ==
    ASSUME NEW q, NEW f, NEW w, QueueInv(q, f, w), TagsLast, ElementsInv, Watch,
           NEW t \in Threads, Construct(t) \/ ConstructNext(t) \/ FreeNext(t)
    PROVE  Refines
<1>1. PICK m, n : m = local[t] /\ n = m.n
  OBVIOUS
<1>2. /\ m \in Locals /\ local \in [Threads -> Locals]
      /\ next \in [Nodes -> tagged_index] /\ data \in [Nodes -> 0 .. MaxCalls]
  BY <1>1, ThreadIs, InvIs
<1>3. /\ m.pc \in {"construct", "constructNext", "freeNext"} /\ head_' = head_ /\ answer' = answer
  BY <1>1 DEF Construct, ConstructNext, FreeNext, At, GoTo, Go
<1>4. /\ n \in Nodes /\ n \notin ToSet(q) /\ \A u \in Owners \ {t} : local[u].n # n
  <2>1. t \in Owners
    BY <1>1, <1>3 DEF Owners, Owns, PushPlaces, FreePlaces
  <2> QED BY <1>1, <2>1 DEF QueueInv, Owned
<1>5. /\ ToSet(q) \subseteq Nodes /\ \A u \in Owners : local[u].n \in Nodes
  BY LinkedIs DEF QueueInv, Lists, Owned
<1>6. ASSUME NEW l \in Locals, Go(t, l), l.pc # "idle", CallIs(l) = CallIs(m),
             \A i \in Nodes \ {n} : next'[i].index = next[i].index /\ data'[i] = data[i],
             sawEmpty' = sawEmpty => ElementInv(t)'
      PROVE  Refines
  <2>1. \A i \in ToSet(q) : next'[i].index = next[i].index /\ data'[i] = data[i]
    BY <1>4, <1>5, <1>6
  <2>2. \A u \in Owners \ {t} : data'[local[u].n] = data[local[u].n]
    BY <1>4, <1>5, <1>6
  <2>3. Items' = Items
    BY <1>3, <2>1, ItemsKept
  <2>4. local[t].pc # "idle" /\ CallIs(l) = CallIs(local[t])
    BY <1>1, <1>3, <1>6
  <2> QED BY <1>3, <1>6, <2>1, <2>2, <2>3, <2>4, StillStep
<1>7. ElementInv(t)
  BY DEF ElementsInv
<1>8. CASE Construct(t)
  <2>1. PICK l : l = [m EXCEPT !.pc = "constructNext", !.after = next[n]]
    OBVIOUS
  <2>2. /\ Go(t, l) /\ next' = next /\ m.pc = "construct" /\ data' = [data EXCEPT ![n] = m.arg]
    BY <1>1, <1>8, <2>1 DEF Construct, At
  <2>3. l \in Locals /\ l.pc = "constructNext" /\ l.n = n /\ l.arg = m.arg
    <3>1. next[n] \in tagged_index
      BY <1>2, <1>4
    <3>2. "constructNext" \in PushPlaces
      BY DEF PushPlaces
    <3> QED BY <1>1, <1>2, <2>1, <3>1, <3>2 DEF Locals
  <2>4. \A i \in Nodes \ {n} : next'[i].index = next[i].index /\ data'[i] = data[i]
    BY <1>2, <2>2
  <2>5. ElementInv(t)'
    <3>1. local'[t] = l /\ data'[n] = m.arg
      BY <1>2, <1>4, <2>2 DEF Go
    <3> QED BY <2>3, <3>1 DEF ElementInv
  <2>6. CallIs(l) = CallIs(m)
    <3>1. l.pc \in Linking /\ m.pc \in Linking
      BY <2>2, <2>3 DEF Linking, PushPlaces
    <3> QED BY <2>3, <3>1, CallAt
  <2> QED BY <1>6, <2>2, <2>3, <2>4, <2>5, <2>6
<1>9. CASE ConstructNext(t)
  <2>1. PICK l, h : /\ l = [m EXCEPT !.pc = "pushTail"]
                    /\ h = Handle(null_handle, get_next_tag(m.after))
    OBVIOUS
  <2>2. /\ Go(t, l) /\ data' = data /\ m.pc = "constructNext" /\ next' = [next EXCEPT ![n] = h]
    BY <1>1, <1>9, <2>1 DEF ConstructNext, At, GoTo
  <2>3. l \in Locals /\ l.pc = "pushTail" /\ l.n = n /\ l.arg = m.arg
    <3>1. "pushTail" \in PushPlaces
      BY DEF PushPlaces
    <3> QED BY <1>1, <1>2, <2>1, <3>1 DEF Locals
  <2>4. \A i \in Nodes \ {n} : next'[i].index = next[i].index /\ data'[i] = data[i]
    BY <1>2, <2>2
  <2>5. ElementInv(t)'
    <3>1. local'[t] = l /\ data[n] = m.arg
      BY <1>1, <1>2, <1>7, <2>2 DEF Go, ElementInv, Holding
    <3> QED BY <2>2, <2>3, <3>1 DEF ElementInv
  <2>6. CallIs(l) = CallIs(m)
    <3>1. l.pc \in Linking /\ m.pc \in Linking
      BY <2>2, <2>3 DEF Linking, PushPlaces
    <3> QED BY <2>3, <3>1, CallAt
  <2> QED BY <1>6, <2>2, <2>3, <2>4, <2>5, <2>6
<1>10. CASE FreeNext(t)
  <2>1. PICK l, h : /\ l = [m EXCEPT !.pc = "freeCas"]
                    /\ h = [next[n] EXCEPT !.index = m.first.index]
    OBVIOUS
  <2>2. /\ Go(t, l) /\ data' = data /\ m.pc = "freeNext" /\ next' = [next EXCEPT ![n] = h]
    BY <1>1, <1>10, <2>1 DEF FreeNext, At, GoTo
  <2>3. l \in Locals /\ l.pc = "freeCas" /\ l.arg = m.arg
    <3>1. "freeCas" \in PopPlaces
      BY DEF PopPlaces, FreePlaces
    <3>2. l \in Locals
      BY <1>2, <2>1, <3>1 DEF Locals
    <3> QED BY <1>2, <2>1, <3>2 DEF Locals
  <2>4. \A i \in Nodes \ {n} : next'[i].index = next[i].index /\ data'[i] = data[i]
    BY <1>2, <2>2
  <2>5. ElementInv(t)'
    <3>1. local'[t] = l
      BY <1>2, <2>2 DEF Go
    <3> QED BY <2>3, <3>1 DEF ElementInv, Holding
  <2>6. CallIs(l) = CallIs(m)
    <3>1. l.pc \in FreePlaces /\ m.pc \in FreePlaces
      BY <2>2, <2>3 DEF FreePlaces
    <3> QED BY <2>3, <3>1, CallAt
  <2> QED BY <1>6, <2>2, <2>3, <2>4, <2>5, <2>6
<1> QED BY <1>8, <1>9, <1>10


\* A call begins.
LEMMA BeginRefines ==
    ASSUME NEW q, NEW f, NEW w, QueueInv(q, f, w), TagsLast, ElementsInv, Watch,
           NEW t \in Threads, Begin(t)
    PROVE  Refines
<1>1. PICK m : m = local[t]
  OBVIOUS
<1>2. /\ m \in Locals /\ m.pc = "idle" /\ m = Idle /\ calls + 1 \in 1 .. MaxCalls
      /\ local \in [Threads -> Locals] /\ calls < MaxCalls
  <2>1. m \in Locals /\ m.pc = "idle" /\ m = Idle
    BY <1>1, ThreadIs DEF Begin, At, ElementsInv, IdleInv
  <2>2. calls \in 0 .. MaxCalls /\ MaxCalls \in Nat /\ calls < MaxCalls
    BY InvIs DEF Begin
  <2> QED BY <2>1, <2>2, InvIs
<1>3. /\ head_' = head_ /\ next' = next /\ data' = data /\ answer' = answer
  BY DEF Begin, GoTo, Go
<1>4. PICK l : /\ local' = [local EXCEPT ![t] = l]
               /\ \/ l = [m EXCEPT !.pc = "allocate", !.arg = calls + 1]
                  \/ l = [m EXCEPT !.pc = "popHead"]
  BY <1>1 DEF Begin, GoTo, Go
<1>5. /\ l \in Locals
      /\ \/ l.pc = "allocate" /\ l.arg = calls + 1
         \/ l.pc = "popHead"
  <2>1. "allocate" \in PushPlaces /\ "popHead" \in PopPlaces
    BY DEF PushPlaces, PopPlaces
  <2>2. calls + 1 \in 0 .. MaxCalls
    BY <1>2
  <2>3. CASE l = [m EXCEPT !.pc = "allocate", !.arg = calls + 1]
    BY <1>2, <2>1, <2>2, <2>3 DEF Locals
  <2>4. CASE l = [m EXCEPT !.pc = "popHead"]
    BY <1>2, <2>1, <2>4 DEF Locals
  <2> QED BY <1>4, <2>3, <2>4
<1>6. Items' = Items
  BY <1>3, ItemsKept
<1>7. /\ Abstract!Watch
      /\ Calls' = [Calls EXCEPT ![t] = CallIs(l)] /\ Calls[t] = CallIs(m)
  <2>1. IdleInv /\ WatchInv /\ l.pc # "idle"
    BY <1>5 DEF ElementsInv
  <2> QED BY <1>1, <1>2, <1>4, <1>5, <2>1, WatchStep
<1>8. Calls[t] = Abstract!Idle
  BY <1>2, <1>7, CallIsIdle
<1>9. \/ \E e \in 1 .. MaxCalls : CallIs(l) = Abstract!Call("push", e)
      \/ CallIs(l) = Abstract!Call("pop", 0)
  <2>1. CASE l.pc = "allocate" /\ l.arg = calls + 1
    <3>1. l.pc \in Linking
      BY <2>1 DEF Linking, PushPlaces
    <3>2. CallIs(l) = [op |-> "push", arg |-> calls + 1, done |-> FALSE]
      BY <2>1, <3>1, CallAt
    <3>3. CallIs(l) = Abstract!Call("push", calls + 1)
      BY <3>2, Zenon DEF Abstract!Call
    <3> QED BY <1>2, <3>3
  <2>2. CASE l.pc = "popHead"
    <3>1. l.pc \in Taking
      BY <2>2 DEF Taking, PopPlaces, FreePlaces
    <3>2. CallIs(l) = [op |-> "pop", arg |-> 0, done |-> FALSE]
      BY <3>1, CallAt
    <3> QED BY <3>2, Zenon DEF Abstract!Call
  <2> QED BY <1>5, <2>1, <2>2
<1>10. Abstract!Invoke(t)
  BY <1>3, <1>6, <1>7, <1>8, <1>9 DEF Abstract!Invoke, Calls
<1>11. ElementInv(t)'
  <2>1. local'[t] = l
    BY <1>2, <1>4
  <2> QED BY <1>5, <2>1 DEF ElementInv, Holding
<1>12. ElementsInv'
  <2>1. l.pc # "idle" /\ \A n : data'[n] = data[n]
    BY <1>3, <1>5
  <2> QED BY <1>3, <1>4, <1>5, <1>11, <2>1, ElementsAfter
<1> QED BY <1>7, <1>10, <1>12 DEF Refines, Abstract!QueueNext

\* A call ends: what is left of it.
LEMMA EndOfCall ==
    ASSUME NEW q, NEW f, NEW w, QueueInv(q, f, w), TagsLast, ElementsInv, Watch,
           NEW t \in Threads, NEW v, Return(t, v),
           head_' = head_, next' = next, data' = data
    PROVE  /\ ElementsInv' /\ Items' = Items /\ Abstract!Watch
           /\ Calls' = [Calls EXCEPT ![t] = Abstract!Idle] /\ Calls[t] = CallIs(local[t])
           /\ answer' = [answer EXCEPT ![t] = v]
<1>1. /\ local' = [local EXCEPT ![t] = Idle] /\ answer' = [answer EXCEPT ![t] = v]
      /\ local \in [Threads -> Locals] /\ Idle \in Locals /\ Idle.pc = "idle"
  BY InvIs, IdleIs DEF Return
<1>2. Items' = Items
  BY ItemsKept
<1>3. ElementInv(t)'
  <2>1. local'[t].pc = "idle"
    BY <1>1
  <2> QED BY <2>1 DEF ElementInv, Holding
<1>4. ElementsInv'
  <2>1. \A n : data'[n] = data[n]
    OBVIOUS
  <2> QED BY <1>1, <1>3, <2>1, ElementsAfter
<1>5. /\ Abstract!Watch
      /\ Calls' = [Calls EXCEPT ![t] = CallIs(Idle)] /\ Calls[t] = CallIs(local[t])
  <2>1. IdleInv /\ WatchInv
    BY DEF ElementsInv
  <2> QED BY <1>1, <2>1, WatchStep
<1>6. CallIs(Idle) = Abstract!Idle
  BY <1>1, CallIsIdle
<1> QED BY <1>1, <1>2, <1>4, <1>5, <1>6

\* A call that took effect returns.
LEMMA ReturnRefines ==
    ASSUME NEW q, NEW f, NEW w, QueueInv(q, f, w), TagsLast, ElementsInv, Watch,
           NEW t \in Threads, local[t].pc \in {"pushSwing", "freeCas"}, Return(t, local[t].arg),
           head_' = head_, next' = next, data' = data
    PROVE  Refines
<1>1. /\ ElementsInv' /\ Items' = Items /\ Abstract!Watch
      /\ Calls' = [Calls EXCEPT ![t] = Abstract!Idle] /\ Calls[t] = CallIs(local[t])
      /\ answer' = [answer EXCEPT ![t] = local[t].arg]
  BY EndOfCall
<1>2. Calls[t].done /\ Calls[t].arg = local[t].arg
  <2>1. local[t].pc = "pushSwing" \/ local[t].pc \in FreePlaces
    BY DEF FreePlaces
  <2> QED BY <1>1, <2>1, CallAt
<1>3. Abstract!Return(t)
  BY <1>1, <1>2 DEF Abstract!Return, Calls
<1> QED BY <1>1, <1>3 DEF Refines, Abstract!QueueNext

\* A pop that finds nothing: the queue was empty at some moment of the call.
LEMMA EmptyRefines ==
    ASSUME NEW q, NEW f, NEW w, QueueInv(q, f, w), TagsLast, ElementsInv, Watch,
           NEW t \in Threads, PopCheck(t), Return(t, 0)
    PROVE  Refines
<1>1. /\ ElementsInv' /\ Items' = Items /\ Abstract!Watch
      /\ Calls' = [Calls EXCEPT ![t] = Abstract!Idle] /\ Calls[t] = CallIs(local[t])
      /\ answer' = [answer EXCEPT ![t] = 0]
  BY EndOfCall DEF PopCheck
<1>2. local[t].pc = "popCheck" /\ local[t] \in Locals
  BY ThreadIs DEF PopCheck, At
<1>3. head_ = local[t].first /\ local[t].after.index = null_handle
  <2>1. local' = [local EXCEPT ![t] = Idle] /\ local \in [Threads -> Locals]
    BY InvIs DEF Return
  <2>2. local'[t].pc = "idle"
    BY <2>1, IdleIs
  <2>3. \A place : GoTo(t, place) => local'[t].pc = place
    BY <1>2, <2>1 DEF GoTo, Go, Locals
  <2> QED BY <2>2, <2>3 DEF PopCheck
<1>4. sawEmpty[t]
  BY <1>2, <1>3 DEF ElementsInv, ElementInv
<1>5. Calls[t].op = "pop" /\ ~Calls[t].done
  <2>1. local[t].pc \in Taking
    BY <1>2 DEF Taking, PopPlaces, FreePlaces
  <2> QED BY <1>1, <2>1, CallAt
<1>6. Abstract!Refuse(t)
  BY <1>1, <1>4, <1>5 DEF Abstract!Refuse, Abstract!Pending, Calls
<1> QED BY <1>1, <1>6 DEF Refines, Abstract!QueueNext


\* A push that finds no node: the elements and the nodes that others have are all.
LEMMA FullRefines ==
    ASSUME NEW q, NEW f, NEW w, QueueInv(q, f, w), TagsLast, ElementsInv, Watch,
           NEW t \in Threads, local[t].pc \in {"allocate", "allocCas"}, Return(t, 0),
           pool_.index = null_handle, head_' = head_, next' = next, data' = data
    PROVE  Refines
<1>1. /\ ElementsInv' /\ Items' = Items /\ Abstract!Watch
      /\ Calls' = [Calls EXCEPT ![t] = Abstract!Idle] /\ Calls[t] = CallIs(local[t])
      /\ answer' = [answer EXCEPT ![t] = 0]
  BY EndOfCall
<1>2. Calls[t].op = "push" /\ ~Calls[t].done
  <2>1. local[t].pc \in Linking
    BY DEF Linking, PushPlaces
  <2> QED BY <1>1, <2>1, CallAt
<1>3. /\ Linked(next, head_.index, q) /\ Linked(next, pool_.index, f) /\ Owned(q, f)
      /\ IsFiniteSet(Busy)
  BY DEF QueueInv, Lists, Counts, Busy
<1>4. ToSet(f) = {}
  <2>1. f = <<>>
    BY <1>3, LinkedIs, ConstantsAre
  <2> QED BY <1>3, <2>1, LinkedIs
<1> DEFINE others == Abstract!Others(t)
           owned == {local[u].n : u \in Owners}
<1>5. others \subseteq Busy /\ Owners \subseteq others
  <2>1. \A u \in Threads : Calls[u] = CallIs(local[u]) /\ local[u] \in Locals
    BY ThreadIs DEF Calls, CallOf, CallIs
  <2>2. \A u \in Threads : Calls[u] = Abstract!Idle <=> local[u].pc = "idle"
    BY <2>1, CallIsIdle
  <2>3. others = {u \in Threads \ {t} : Calls[u] # Abstract!Idle}
    BY DEF Abstract!Others, Calls
  <2>4. t \notin Owners /\ \A u \in Owners : u \in Threads /\ local[u].pc # "idle"
    BY IdleIs DEF Owners, Owns, PushPlaces, FreePlaces
  <2> QED BY <2>2, <2>3, <2>4 DEF Busy
<1> HIDE DEF others
<1>6. /\ IsFiniteSet(others) /\ IsFiniteSet(Owners)
      /\ Cardinality(Owners) <= Cardinality(others) /\ Cardinality(Owners) \in Nat
      /\ Cardinality(others) \in Nat
  <2>1. IsFiniteSet(others)
    BY <1>3, <1>5, FS_Subset
  <2> QED BY <1>5, <2>1, FS_Subset, FS_CardinalityType
<1>7. IsFiniteSet(owned) /\ Cardinality(owned) = Cardinality(Owners)
  <2> DEFINE b == [u \in Owners |-> local[u].n]
  <2>1. \A u, v \in Owners : local[u].n = local[v].n => u = v
    BY <1>3 DEF Owned
  <2>2. b \in Bijection(Owners, owned)
    BY <2>1 DEF Bijection, Injection, IsInjective, Surjection
  <2>3. ExistsBijection(Owners, owned)
    BY <2>2 DEF ExistsBijection
  <2> HIDE DEF owned
  <2> QED BY <1>6, <2>3, FS_Bijection
<1>8. Nodes = ToSet(q) \cup owned
  <2>1. ToSet(q) \subseteq Nodes
    BY <1>3, LinkedIs
  <2>2. owned \subseteq Nodes /\ \A n \in Nodes : n \in ToSet(q) \/ n \in owned
    BY <1>3, <1>4 DEF Owned
  <2> QED BY <2>1, <2>2
<1>9. IsFiniteSet(Nodes) /\ Cardinality(Nodes) = Capacity + 1
  <2>1. Nodes = 0 .. Capacity /\ Capacity \in Nat
    BY ConstantsAre
  <2>2. IsFiniteSet(0 .. Capacity) /\ Cardinality(0 .. Capacity) = IF 0 > Capacity THEN 0 ELSE Capacity - 0 + 1
    BY <2>1, FS_Interval
  <2> QED BY <2>1, <2>2
<1>10. /\ IsFiniteSet(ToSet(q)) /\ Len(q) = Cardinality(ToSet(q)) /\ Len(q) \in Nat
       /\ Len(Items) = Len(q) - 1
  <2>1. IsFiniteSet(ToSet(q))
    BY <1>8, <1>9, FS_Subset
  <2> QED BY <1>3, <2>1, LinkedSize, ItemsLen
<1> HIDE DEF owned
<1>11. Cardinality(Nodes) <= Len(q) + Cardinality(owned)
  <2>1. Cardinality(Nodes) = Cardinality(ToSet(q)) + Cardinality(owned)
                              - Cardinality(ToSet(q) \cap owned)
    BY <1>7, <1>8, <1>10, FS_Union
  <2>2. IsFiniteSet(ToSet(q) \cap owned)
    BY <1>10, FS_Subset
  <2>3. Cardinality(ToSet(q) \cap owned) \in Nat /\ Cardinality(owned) \in Nat
    BY <1>7, <2>2, FS_CardinalityType
  <2> QED BY <1>10, <2>1, <2>3
<1>12. Len(Items) + Cardinality(others) >= Capacity
  <2>1. Capacity \in Nat
    BY ConstantsAre
  <2> QED BY <1>6, <1>7, <1>9, <1>10, <1>11, <2>1
<1>13. Abstract!Refuse(t)
  <2>1. Len(Items) + Abstract!Cardinality(Abstract!Others(t)) >= Capacity
    <3>1. Abstract!Cardinality(others) = Cardinality(others)
      BY Zenon DEF Abstract!Cardinality, Cardinality
    <3> QED BY <1>12, <3>1 DEF others
  <2>2. Abstract!Pending(t, "push")
    BY <1>2 DEF Abstract!Pending, Calls
  <2>3. /\ answer' = [answer EXCEPT ![t] = 0] /\ Items' = Items
        /\ Calls' = [Calls EXCEPT ![t] = Abstract!Idle]
    BY <1>1
  <2> QED BY <2>1, <2>2, <2>3, Zenon DEF Abstract!Refuse, Calls
<1> QED BY <1>1, <1>13 DEF Refines, Abstract!QueueNext

\* The elements as a sequence.
LEMMA ItemsSeq ==
    ASSUME NEW q, NEW f, NEW w, QueueInv(q, f, w)
    PROVE  /\ Items \in Seq(0 .. MaxCalls)
           /\ \A k \in 1 .. Len(Items) : k + 1 \in 1 .. Len(q) /\ Items[k] = data[q[k + 1]]
<1>1. Len(q) \in Nat /\ Len(Items) = Len(q) - 1 /\ Len(q) >= 1
  BY ItemsLen
<1>2. PICK n \in Nat : n = Len(q) - 1
  BY <1>1
<1>3. Items = [k \in 1 .. n |-> data[q[k + 1]]]
  BY <1>2, ItemsAre DEF ItemsOf
<1>4. \A k \in 1 .. n : k + 1 \in 1 .. Len(q)
  BY <1>1, <1>2
<1>5. \A k \in 1 .. n : data[q[k + 1]] \in 0 .. MaxCalls
  <2>1. \A i \in 1 .. Len(q) : q[i] \in Nodes
    BY LinkedIs DEF QueueInv, Lists
  <2>2. data \in [Nodes -> 0 .. MaxCalls]
    BY DEF QueueInv, TypeOK
  <2> QED BY <1>4, <2>1, <2>2
<1>6. Items \in Seq(0 .. MaxCalls)
  <2>1. Items \in [1 .. n -> 0 .. MaxCalls]
    BY <1>3, <1>5
  <2> QED BY <2>1, SeqDef
<1> QED BY <1>1, <1>2, <1>3, <1>4, <1>6


\* A push links its node to the last one.
LEMMA LinkRefines ==
    ASSUME NEW q, NEW f, NEW w, QueueInv(q, f, w), TagsLast, ElementsInv, Watch,
           NEW t \in Threads, PushLink(t), next[local[t].first.index] = local[t].after
    PROVE  Refines
<1>1. PICK m, last, n, l, p, h :
        /\ m = local[t] /\ last = m.first.index /\ n = m.n /\ l = [m EXCEPT !.pc = "pushSwing"]
        /\ p = Append(q, n) /\ h = Handle(n, get_next_tag(m.after))
  OBVIOUS
<1>2. /\ m \in Locals /\ m.pc = "pushLink" /\ local \in [Threads -> Locals]
      /\ next \in [Nodes -> tagged_index] /\ (\E a \in 0 .. w : ThreadInv(m, q, f, a))
      /\ m.after \in tagged_index /\ m.after.tag \in 0 .. (TagModulus - 1)
      /\ next[last] = m.after /\ w + 1 < TagModulus /\ w \in Nat /\ TagModulus \in Nat
  <2>1. m \in Locals /\ m.pc = "pushLink" /\ next[last] = m.after
    BY <1>1, ThreadIs DEF PushLink, At
  <2>2. m.after \in tagged_index
    BY <2>1, ThreadIs
  <2> QED BY <1>1, <2>1, <2>2, ThreadIs, InvIs
<1>3. /\ Go(t, l) /\ answer' = answer /\ head_' = head_ /\ data' = data
      /\ next' = [next EXCEPT ![last] = h]
  BY <1>1 DEF PushLink, GoTo, Go
<1>4. n \in Nodes /\ n \notin ToSet(q) /\ h.index = n
  <2>1. t \in Owners
    BY <1>1, <1>2 DEF Owners, Owns, PushPlaces
  <2>2. n \in Nodes /\ n \notin ToSet(q)
    BY <1>1, <2>1 DEF QueueInv, Owned
  <2>3. n \in 0 .. NodeCount
    BY <2>2, ConstantsAre
  <2> QED BY <1>1, <1>2, <2>2, <2>3, HandleIs
<1>5. last \in ToSet(q) /\ next[last].index = null_handle /\ next[n].index = null_handle
  <2>1. PICK a \in 0 .. w : ThreadInv(m, q, f, a)
    BY <1>2
  <2>2. /\ next[last].tag = (m.after.tag + a) % TagModulus
        /\ a = 0 => EndOf(q, last)
        /\ next[n].index = null_handle
    BY <1>1, <1>2, <2>1 DEF ThreadInv, PushInv
  <2>3. (m.after.tag + a) % TagModulus = m.after.tag
    BY <1>2, <2>2
  <2>4. a = 0
    <3>1. a \in Nat /\ a < TagModulus
      BY <1>2
    <3> QED BY <1>2, <2>3, <3>1, TagSame
  <2> QED BY <2>2, <2>4 DEF EndOf
<1>6. /\ Linked(next', head_.index, p) /\ Len(p) = Len(q) + 1 /\ Len(q) \in Nat
      /\ \A i \in 1 .. Len(q) : p[i] = q[i]
      /\ p[Len(q) + 1] = n
  <2>1. Linked(next, head_.index, q) /\ last \in Nodes
    BY <1>5, LinkedIs DEF QueueInv, Lists
  <2>2. next'[last].index = n /\ \A i \in Nodes : i # last => next'[i] = next[i]
    BY <1>2, <1>3, <1>4, <2>1
  <2>3. /\ Linked(next', head_.index, Append(q, n))
        /\ Len(Append(q, n)) = Len(q) + 1
        /\ \A i \in 1 .. Len(q) : Append(q, n)[i] = q[i]
    BY <1>4, <1>5, <2>1, <2>2, LinkedAppend
  <2>4. q \in Seq(Nodes)
    BY <2>1 DEF Linked
  <2>5. Len(q) \in Nat /\ Append(q, n)[Len(q) + 1] = n
    BY <1>4, <2>4, LenProperties, AppendProperties
  <2> QED BY <1>1, <2>3, <2>5
<1>7. l \in Locals /\ l.pc = "pushSwing" /\ l.arg = m.arg
  <2>1. "pushSwing" \in PushPlaces
    BY DEF PushPlaces
  <2> QED BY <1>1, <1>2, <2>1 DEF Locals
<1>8. m.arg \in 0 .. MaxCalls /\ data[n] = m.arg
  <2>1. ElementInv(t)
    BY DEF ElementsInv
  <2> QED BY <1>1, <1>2, <2>1, ThreadIs DEF ElementInv, Holding
<1>9. Items' = Append(Items, m.arg)
  <2>1. PICK k : k = Len(q) /\ k \in Nat /\ k >= 1 /\ Len(Items) = k - 1
    BY ItemsLen
  <2>2. Items \in Seq(0 .. MaxCalls) /\ \A i \in 1 .. (k - 1) : Items[i] = data[q[i + 1]]
    BY <2>1, ItemsSeq
  <2>3. /\ Append(Items, m.arg) \in Seq(0 .. MaxCalls) /\ Len(Append(Items, m.arg)) = k
        /\ \A i \in 1 .. (k - 1) : Append(Items, m.arg)[i] = data[q[i + 1]]
        /\ Append(Items, m.arg)[k] = m.arg
    <3>1. /\ Append(Items, m.arg) \in Seq(0 .. MaxCalls)
          /\ Len(Append(Items, m.arg)) = Len(Items) + 1
          /\ \A i \in 1 .. Len(Items) : Append(Items, m.arg)[i] = Items[i]
          /\ Append(Items, m.arg)[Len(Items) + 1] = m.arg
      BY <1>8, <2>2, AppendProperties
    <3>2. Len(Items) + 1 = k
      BY <2>1
    <3> QED BY <2>1, <2>2, <3>1, <3>2
  <2>4. Items' = [i \in 1 .. k |-> data[p[i + 1]]]
    <3>1. Items' = ItemsOf(p, data) /\ Len(p) - 1 = k
      <4>1. Linked(next', head_'.index, p)
        BY <1>3, <1>6
      <4>2. Items' = ItemsOf(p, data')
        BY <4>1, ItemsThen
      <4> QED BY <1>3, <1>6, <2>1, <4>2
    <3> QED BY <3>1 DEF ItemsOf
  <2>5. \A i \in 1 .. k : Append(Items, m.arg)[i] = data[p[i + 1]]
    <3> SUFFICES ASSUME NEW i \in 1 .. k PROVE Append(Items, m.arg)[i] = data[p[i + 1]]
      OBVIOUS
    <3>1. CASE i = k
      BY <1>6, <1>8, <2>1, <2>3, <3>1
    <3>2. CASE i # k
      <4>1. i \in 1 .. (k - 1) /\ i + 1 \in 1 .. k
        BY <2>1, <3>2
      <4> QED BY <1>6, <2>1, <2>3, <4>1
    <3> QED BY <3>1, <3>2
  <2>6. Append(Items, m.arg) = [i \in 1 .. k |-> Append(Items, m.arg)[i]]
    BY <2>3, LenProperties
  <2> QED BY <2>4, <2>5, <2>6
<1>10. /\ Abstract!Watch
       /\ Calls' = [Calls EXCEPT ![t] = CallIs(l)] /\ Calls[t] = CallIs(m)
  <2>1. IdleInv /\ WatchInv /\ l.pc # "idle" /\ local' = [local EXCEPT ![t] = l]
    BY <1>3, <1>7 DEF ElementsInv, Go
  <2> QED BY <1>1, <1>2, <1>7, <2>1, WatchStep
<1>11. /\ CallIs(m) = [op |-> "push", arg |-> m.arg, done |-> FALSE]
       /\ CallIs(l) = [op |-> "push", arg |-> m.arg, done |-> TRUE]
  <2>1. m.pc \in Linking
    BY <1>2 DEF Linking, PushPlaces
  <2> QED BY <1>7, <2>1, CallAt
<1>12. Abstract!Append_(t)
  <2>1. Calls' = [Calls EXCEPT ![t].done = TRUE]
    <3>1. [CallIs(m) EXCEPT !.done = TRUE] = CallIs(l)
      <4>1. PICK r, x, y, e : r = CallIs(m) /\ x = FALSE /\ y = TRUE /\ e = m.arg
        OBVIOUS
      <4>2. r = [op |-> "push", arg |-> e, done |-> x]
        BY <1>11, <4>1, Zenon
      <4>3. [r EXCEPT !.done = y] = [op |-> "push", arg |-> e, done |-> y]
        BY <4>2
      <4> QED BY <1>11, <4>1, <4>3, Zenon
    <3> QED BY <1>10, <3>1
  <2>2. Abstract!Pending(t, "push") /\ Calls[t].arg = m.arg
    BY <1>10, <1>11 DEF Abstract!Pending, Calls
  <2> QED BY <1>3, <1>9, <2>1, <2>2 DEF Abstract!Append_, Calls
<1>13. ElementsInv'
  <2>1. local' = [local EXCEPT ![t] = l] /\ local'[t] = l
    BY <1>2, <1>3 DEF Go
  <2>2. ElementInv(t)'
    BY <1>7, <2>1 DEF ElementInv, Holding
  <2>3. l.pc # "idle" /\ \A i : data'[i] = data[i]
    BY <1>3, <1>7
  <2> QED BY <1>3, <1>7, <2>1, <2>2, <2>3, ElementsAfter
<1> QED BY <1>10, <1>12, <1>13 DEF Refines, Abstract!QueueNext


\* A pop takes the first element.
LEMMA TakeRefines ==
    ASSUME NEW q, NEW f, NEW w, QueueInv(q, f, w), TagsLast, ElementsInv, Watch,
           NEW t \in Threads, PopCas(t), head_ = local[t].first
    PROVE  Refines
<1>1. PICK m, l, p : /\ m = local[t] /\ l = [m EXCEPT !.pc = "free", !.n = m.first.index]
                     /\ p = Tail(q)
  OBVIOUS
<1>2. /\ m \in Locals /\ m.pc = "popCas" /\ local \in [Threads -> Locals]
      /\ head_ = m.first /\ m.first.index \in 0 .. NodeCount /\ m.after.index \in 0 .. NodeCount
      /\ head_ \in tagged_index /\ PopInv(m) /\ m.arg \in 0 .. MaxCalls
  <2>1. m \in Locals /\ m.pc = "popCas" /\ head_ = m.first
    BY <1>1, ThreadIs DEF PopCas, At
  <2>2. m.first \in tagged_index /\ m.after \in tagged_index /\ m.arg \in 0 .. MaxCalls
    BY <2>1, ThreadIs
  <2>3. PopInv(m)
    BY <1>1, ThreadIs DEF ThreadInv
  <2> QED BY <2>1, <2>2, <2>3, InvIs
<1>3. /\ Go(t, l) /\ answer' = answer /\ next' = next /\ data' = data
      /\ head_' = Handle(m.after.index, get_next_tag(head_))
  BY <1>1, <1>2 DEF PopCas, Go
<1>4. /\ m.after.index # null_handle /\ next[head_.index].index = m.after.index
      /\ m.arg = data[m.after.index]
  <2>1. ElementInv(t)
    BY DEF ElementsInv
  <2> QED BY <1>1, <1>2, <2>1 DEF PopInv, ElementInv
<1>5. l \in Locals /\ l.pc = "free" /\ l.arg = m.arg
  <2>1. "free" \in PopPlaces
    BY DEF PopPlaces, FreePlaces
  <2> QED BY <1>1, <1>2, <2>1 DEF Locals
<1>6. head_'.index = m.after.index /\ head_'.tag = head_.tag + 1 /\ head_.tag \in Nat
  <2>1. head_.tag + Count(Taking) <= calls /\ calls \in Nat /\ calls <= MaxCalls
        /\ 2 * MaxCalls + 1 < TagModulus /\ MaxCalls \in Nat /\ TagModulus \in Nat
        /\ Count(Taking) \in Nat /\ head_.tag \in Nat
    <3>1. head_.tag + Count(Taking) <= calls
      BY DEF QueueInv, Counts
    <3> QED BY <3>1, InvIs
  <2>2. Count(Taking)' \in Nat /\ Count(Taking)' = Count(Taking) - 1
    <3>1. l.pc \notin Taking /\ local[t].pc \in Taking /\ local' = [local EXCEPT ![t] = l]
      BY <1>1, <1>2, <1>3, <1>5 DEF Taking, PopPlaces, FreePlaces, Go
    <3> QED BY <3>1, CountsFall
  <2>3. head_.tag + 1 < TagModulus
    BY <2>1, <2>2
  <2> QED BY <1>2, <1>3, <2>1, <2>3, HandleIs
<1>7. PICK k \in Nat : k >= 1 /\ Len(q) = k
  BY ItemsLen
<1>8. /\ Linked(next, m.after.index, p) /\ Len(p) = k - 1
      /\ \A i \in 1 .. (k - 1) : p[i] = q[i + 1]
      /\ k # 1 /\ m.after.index = q[2]
  <2>1. Linked(next, head_.index, q) /\ q # <<>> /\ q[1] = head_.index
    BY HeadIs DEF QueueInv, Lists
  <2>2. /\ Linked(next, next[head_.index].index, Tail(q)) /\ Len(Tail(q)) = Len(q) - 1
        /\ \A i \in 1 .. Len(Tail(q)) : Tail(q)[i] = q[i + 1]
    BY <2>1, LinkedTake
  <2>3. next[q[1]].index = IF 1 = k THEN null_handle ELSE q[1 + 1]
    BY <1>7, <2>1 DEF Linked
  <2>4. k # 1 /\ m.after.index = q[2]
    BY <1>4, <2>1, <2>3
  <2> QED BY <1>1, <1>4, <1>7, <2>2, <2>4
<1>9. Items # <<>> /\ Items' = Tail(Items) /\ Head(Items) = m.arg
  <2>1. /\ Items \in Seq(0 .. MaxCalls) /\ Len(Items) = k - 1 /\ Items # <<>>
        /\ \A i \in 1 .. (k - 1) : Items[i] = data[q[i + 1]]
    BY <1>7, <1>8, ItemsLen, ItemsSeq
  <2>2. /\ Tail(Items) \in Seq(0 .. MaxCalls) /\ Len(Tail(Items)) = k - 2
        /\ \A i \in 1 .. (k - 2) : Tail(Items)[i] = Items[i + 1]
    <3>1. /\ Tail(Items) \in Seq(0 .. MaxCalls) /\ Len(Tail(Items)) = Len(Items) - 1
          /\ \A i \in 1 .. Len(Tail(Items)) : Tail(Items)[i] = Items[i + 1]
      BY <2>1, HeadTailProperties
    <3>2. Len(Items) - 1 = k - 2
      BY <2>1
    <3> QED BY <3>1, <3>2
  <2>3. Items' = [i \in 1 .. (k - 2) |-> data[p[i + 1]]]
    <3>1. Linked(next', head_'.index, p)
      BY <1>3, <1>6, <1>8
    <3>2. Items' = ItemsOf(p, data') /\ Len(p) - 1 = k - 2
      BY <1>8, <3>1, ItemsThen
    <3> QED BY <1>3, <3>2 DEF ItemsOf
  <2>4. \A i \in 1 .. (k - 2) : Tail(Items)[i] = data[p[i + 1]]
    <3> SUFFICES ASSUME NEW i \in 1 .. (k - 2) PROVE Tail(Items)[i] = data[p[i + 1]]
      OBVIOUS
    <3>1. i + 1 \in 1 .. (k - 1)
      OBVIOUS
    <3> QED BY <1>8, <2>1, <2>2, <3>1
  <2>5. Tail(Items) = [i \in 1 .. (k - 2) |-> Tail(Items)[i]]
    BY <2>2, LenProperties
  <2>6. Head(Items) = m.arg
    <3>1. 1 \in 1 .. (k - 1)
      BY <1>8
    <3>2. Items[1] = data[q[1 + 1]]
      BY <2>1, <3>1
    <3> QED BY <1>4, <1>8, <3>2
  <2> QED BY <2>1, <2>3, <2>4, <2>5, <2>6
<1>10. /\ Abstract!Watch
       /\ Calls' = [Calls EXCEPT ![t] = CallIs(l)] /\ Calls[t] = CallIs(m)
  <2>1. IdleInv /\ WatchInv /\ l.pc # "idle" /\ local' = [local EXCEPT ![t] = l]
    BY <1>3, <1>5 DEF ElementsInv, Go
  <2> QED BY <1>1, <1>2, <1>5, <2>1, WatchStep
<1>11. /\ CallIs(m) = [op |-> "pop", arg |-> 0, done |-> FALSE]
       /\ CallIs(l) = [op |-> "pop", arg |-> m.arg, done |-> TRUE]
  <2>1. m.pc \in Taking /\ l.pc \in FreePlaces
    BY <1>2, <1>5 DEF Taking, PopPlaces, FreePlaces
  <2> QED BY <1>5, <2>1, CallAt
<1>12. Abstract!Take(t)
  <2>1. Abstract!Pending(t, "pop")
    BY <1>10, <1>11 DEF Abstract!Pending, Calls
  <2>2. Calls' = [Calls EXCEPT ![t] = [op |-> "pop", arg |-> Head(Items), done |-> TRUE]]
    BY <1>9, <1>10, <1>11, Zenon
  <2> QED BY <1>3, <1>9, <2>1, <2>2 DEF Abstract!Take, Calls
<1>13. ElementsInv'
  <2>1. local' = [local EXCEPT ![t] = l] /\ local'[t] = l
    BY <1>2, <1>3 DEF Go
  <2>2. ElementInv(t)'
    BY <1>5, <2>1 DEF ElementInv, Holding
  <2>3. l.pc # "idle" /\ \A i : data'[i] = data[i]
    BY <1>3, <1>5
  \* No thread read the new head: its tag is new.
  <2>4. \A h \in tagged_index : h.tag <= head_.tag /\ head_' = h => head_ = h
    BY <1>6
  <2> QED BY <1>5, <2>1, <2>2, <2>3, <2>4, ElementsAfter
<1> QED BY <1>10, <1>12, <1>13 DEF Refines, Abstract!QueueNext

LEMMA RefinesNext == TagsLast /\ NodesInv /\ ElementsInv /\ [Next]_vars => Refines
<1> SUFFICES ASSUME TagsLast, NodesInv, ElementsInv, [Next]_vars PROVE Refines
  OBVIOUS
<1>1. PICK q, f, w : QueueInv(q, f, w)
  BY DEF NodesInv
<1>2. CASE UNCHANGED vars
  <2>1. UNCHANGED <<head_, tail_, pool_, next, data, local, answer, calls, sawEmpty>>
    BY <1>2 DEF vars
  <2>2. Items' = Items
    BY <1>1, <2>1, ItemsKept
  <2>3. IdleInv' /\ WatchInv' /\ \A t \in Threads : ElementInv(t)'
    BY <2>1, <2>2 DEF ElementsInv, IdleInv, WatchInv, ElementInv
  <2>4. Calls' = Calls
    BY <2>1 DEF Calls, CallOf
  <2>5. UNCHANGED Abstract!qvars
    BY <2>1, <2>2, <2>4 DEF Abstract!qvars, Calls
  <2> QED BY <2>3, <2>5 DEF Refines, ElementsInv
<1>3. ASSUME NEW t \in Threads, Begin(t), Watch PROVE Refines
  BY <1>1, <1>3, BeginRefines
<1>4. ASSUME NEW t \in Threads, Watch, local[t].pc \in {"allocate", "allocCas"},
             Allocated(t, pool_), AllocLoad(t) \/ (AllocCas(t) /\ pool_ # local[t].first),
             head_' = head_, next' = next, data' = data
      PROVE  Refines
  <2>1. CASE pool_.index = null_handle
    <3>1. Return(t, 0)
      BY <1>4, <2>1 DEF Allocated
    <3> QED BY <1>1, <1>4, <2>1, <3>1, FullRefines
  <2>2. CASE pool_.index # null_handle
    BY <1>1, <1>4, <2>2, PushesStill
  <2> QED BY <2>1, <2>2
<1>5. ASSUME NEW t \in Threads, Push(t), Watch PROVE Refines
  <2>1. CASE AllocLoad(t)
    BY <1>4, <1>5, <2>1 DEF AllocLoad, At
  <2>2. CASE AllocCas(t)
    <3>1. CASE pool_ = local[t].first
      BY <1>1, <1>5, <2>2, <3>1, PushesStill
    <3>2. CASE pool_ # local[t].first
      BY <1>4, <1>5, <2>2, <3>2 DEF AllocCas, At
    <3> QED BY <3>1, <3>2
  <2>3. CASE \/ AllocNext(t) \/ PushTail(t) \/ PushNext(t) \/ PushCheck(t) \/ PushHelp(t)
    BY <1>1, <1>5, <2>3, PushesStill
  <2>4. CASE Construct(t) \/ ConstructNext(t)
    BY <1>1, <1>5, <2>4, OwnNodeStill
  <2>5. CASE PushLink(t)
    <3>1. CASE next[local[t].first.index] = local[t].after
      BY <1>1, <1>5, <2>5, <3>1, LinkRefines
    <3>2. CASE next[local[t].first.index] # local[t].after
      BY <1>1, <1>5, <2>5, <3>2, PushesStill
    <3> QED BY <3>1, <3>2
  <2>6. CASE PushSwing(t)
    BY <1>1, <1>5, <2>6, ReturnRefines DEF PushSwing, At
  <2> QED BY <1>5, <2>1, <2>2, <2>3, <2>4, <2>5, <2>6 DEF Push
<1>6. ASSUME NEW t \in Threads, Pop(t), Watch PROVE Refines
  <2>1. CASE PopHead(t) \/ PopTail(t) \/ PopNext(t) \/ PopHelp(t) \/ PopData(t) \/ FreeLoad(t)
    BY <1>1, <1>6, <2>1, PopsStill
  <2>2. CASE PopCheck(t)
    <3>1. CASE Return(t, 0)
      BY <1>1, <1>6, <2>2, <3>1, EmptyRefines
    <3>2. CASE ~Return(t, 0)
      BY <1>1, <1>6, <2>2, <3>2, PopsStill
    <3> QED BY <3>1, <3>2
  <2>3. CASE PopCas(t)
    <3>1. CASE head_ = local[t].first
      BY <1>1, <1>6, <2>3, <3>1, TakeRefines
    <3>2. CASE head_ # local[t].first
      BY <1>1, <1>6, <2>3, <3>2, PopsStill
    <3> QED BY <3>1, <3>2
  <2>4. CASE FreeNext(t)
    BY <1>1, <1>6, <2>4, OwnNodeStill
  <2>5. CASE FreeCas(t)
    <3>1. CASE pool_ = local[t].first
      <4>1. /\ local[t].pc \in {"pushSwing", "freeCas"} /\ Return(t, local[t].arg)
            /\ head_' = head_ /\ next' = next /\ data' = data
        BY <2>5, <3>1 DEF FreeCas, At
      <4> QED BY <1>1, <1>6, <4>1, ReturnRefines
    <3>2. CASE pool_ # local[t].first
      BY <1>1, <1>6, <2>5, <3>2, PopsStill
    <3> QED BY <3>1, <3>2
  <2> QED BY <1>6, <2>1, <2>2, <2>3, <2>4, <2>5 DEF Pop
<1> QED BY <1>2, <1>3, <1>5, <1>6 DEF Next, Calling, Running

LEMMA RefinesInit == TagsLast /\ Init => ElementsInv /\ Abstract!QueueInit
<1> SUFFICES ASSUME TagsLast, Init PROVE ElementsInv /\ Abstract!QueueInit
  OBVIOUS
<1>1. PICK q, f, w : QueueInv(q, f, w)
  BY NodesInit DEF NodesInv
<1>2. /\ local = [t \in Threads |-> Idle] /\ answer = [t \in Threads |-> 0]
      /\ sawEmpty = [t \in Threads |-> FALSE]
      /\ head_.index = NodeCount - 1
  BY DEF Init, Handle
<1>3. Items = <<>>
  <2>1. Linked(next, head_.index, q) /\ q[1] = head_.index /\ q # <<>>
    BY <1>1, HeadIs DEF QueueInv, Lists
  <2>2. NodeCount - 1 \in Nodes
    BY ConstantsAre
  <2>3. next[NodeCount - 1].index = null_handle
    BY <2>2 DEF Init, Handle
  <2>4. PICK i \in 1 .. Len(q) : i = 1
    BY <2>1, LinkedIs
  <2>5. next[q[i]].index = null_handle <=> i = Len(q)
    <3>1. Linked(next, head_.index, q)
      BY <2>1
    <3> QED BY <3>1, LinkInList
  <2>6. Len(q) = 1
    BY <1>2, <2>1, <2>3, <2>4, <2>5
  <2> QED BY <1>1, <2>6, ItemsLen
<1>4. \A t \in Threads : local[t] = Idle /\ Idle.pc = "idle"
  BY <1>2, IdleIs
<1>5. IdleInv
  BY <1>4 DEF IdleInv
<1>6. WatchInv
  BY <1>2, <1>4 DEF WatchInv
<1>7. \A t \in Threads : ElementInv(t)
  BY <1>4 DEF ElementInv, Holding
<1>8. Calls = [t \in Threads |-> Abstract!Idle]
  <2>1. \A t \in Threads : CallOf(t) = CallIs(Idle)
    BY <1>4 DEF CallOf, CallIs
  <2>2. CallIs(Idle) = Abstract!Idle
    BY <1>4, IdleIs, CallIsIdle
  <2> QED BY <2>1, <2>2 DEF Calls
<1>9. Abstract!QueueInit
  BY <1>2, <1>3, <1>8 DEF Abstract!QueueInit, Calls
<1> QED BY <1>5, <1>6, <1>7, <1>9 DEF ElementsInv

-----------------------------------------------------------------------------
(* Theorems *)

LEMMA NodesTheorem ==
    ASSUME TagsLast
    PROVE  Spec => []NodesInv
<1>1. Init => NodesInv
  BY NodesInit
<1>2. NodesInv /\ [Next]_vars => NodesInv'
  BY NodesNext
<1> QED BY <1>1, <1>2, PTL DEF Spec

\* In every interleaving of pushes and pops of any number of threads, of which any
\* may be suspended, a node is once in the queue, once in the free list, or one
\* thread's, and the tail is in the queue: as long as no tag comes back, no
\* compare-and-swap succeeds on a node that was freed and used again.
THEOREM NodesApartTheorem ==
    ASSUME TagsLast
    PROVE  Spec => []NodesApart
BY NodesTheorem, InvNodesApart, PTL

\* The indices and tags that the threads read and write are such, and no element
\* is one that was not pushed.
THEOREM QueueTypes ==
    ASSUME TagsLast
    PROVE  Spec => []TypeOK
BY NodesTheorem, InvNodesApart, PTL

\* The queue is a first-in first-out queue to its threads: in every interleaving of
\* their accesses to memory, a push appends its element at the moment it links its
\* node, a pop takes the first element at the moment it moves the head, a pop finds
\* nothing only if the queue was empty while it ran, and a push is refused only when
\* the elements and the other calls fill the capacity.
THEOREM QueueImplemented ==
    ASSUME TagsLast
    PROVE  Spec => ImplementsBoundedQueue
<1>1. Init => NodesInv /\ ElementsInv /\ Abstract!QueueInit
  BY NodesInit, RefinesInit
<1>2. NodesInv /\ ElementsInv /\ [Next]_vars
        => NodesInv' /\ ElementsInv' /\ [Abstract!QueueNext]_(Abstract!qvars)
  BY NodesNext, RefinesNext DEF Refines
<1> QED BY <1>1, <1>2, PTL DEF Spec, ImplementsBoundedQueue, Abstract!QueueSpec

=============================================================================
