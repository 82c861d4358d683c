-------------------------- MODULE ClientTimesProofs --------------------------
(* Theorems about ClientTimes, for any number of clients, workers and TimePoints: *)
(* the pool gives a TimePoint to one client at a time, however often it grows; and *)
(* for any size of the batches, the mean and the deviation are those of the times  *)
(* counted, so that few of these can be called too slow, or fast.                  *)
EXTENDS ClientTimes, SequenceTheorems, FiniteSetTheorems, TLAPS

-----------------------------------------------------------------------------
(* The pool *)

PoolOK(p) ==
    /\ p \in Pools /\ p.capacity >= 1
    /\ p.next \in [1 .. p.capacity -> 0 .. p.capacity]
    /\ p.avail \in 0 .. p.capacity

\* The links lead through the elements of s, in this order, and end there.
Chain(p, s) ==
    /\ s \in Seq(1 .. p.capacity) /\ IsInjective(s)
    /\ p.avail = IF s = <<>> THEN 0 ELSE s[1]
    /\ \A i \in 1 .. Len(s) : p.next[s[i]] = IF i = Len(s) THEN 0 ELSE s[i + 1]

LEMMA PoolIs ==
    ASSUME NEW p, PoolOK(p)
    PROVE  /\ p.capacity \in Nat /\ p.next \in Seq(Nat) /\ Len(p.next) = p.capacity
           /\ p = [capacity |-> p.capacity, avail |-> p.avail, next |-> p.next]
<1>1. p \in Pools /\ p.capacity \in Nat /\ p.next \in Seq(Nat)
  BY DEF PoolOK, Pools
<1>2. DOMAIN p.next = 1 .. p.capacity /\ DOMAIN p.next = 1 .. Len(p.next) /\ Len(p.next) \in Nat
  BY <1>1 DEF PoolOK
<1>3. Len(p.next) = p.capacity
  BY <1>1, <1>2
<1> QED BY <1>1, <1>3 DEF Pools

\* The element that is given is the first of the chain.
LEMMA TakeIs ==
    ASSUME NEW p, PoolOK(p), NEW s, Chain(p, s), s # <<>>
    PROVE  LET q == [p EXCEPT !.avail = p.next[p.avail]] IN
           /\ PoolOK(q) /\ q.capacity = p.capacity
           /\ Chain(q, Tail(s)) /\ ToSet(Tail(s)) = ToSet(s) \ {p.avail}
           /\ p.avail \in ToSet(s) /\ p.avail \in 1 .. p.capacity
<1> DEFINE n == Len(s)
           t == Tail(s)
           q == [p EXCEPT !.avail = p.next[p.avail]]
<1>1. /\ p.capacity \in Nat
      /\ p = [capacity |-> p.capacity, avail |-> p.avail, next |-> p.next]
  BY PoolIs
<1>2. /\ s \in Seq(1 .. p.capacity) /\ IsInjective(s) /\ p.avail = s[1]
      /\ \A i \in 1 .. n : p.next[s[i]] = IF i = n THEN 0 ELSE s[i + 1]
  BY DEF Chain
<1>3. /\ n \in Nat \ {0} /\ DOMAIN s = 1 .. n /\ \A i \in 1 .. n : s[i] \in 1 .. p.capacity
      /\ t \in Seq(1 .. p.capacity) /\ Len(t) = n - 1 /\ DOMAIN t = 1 .. (n - 1)
      /\ \A i \in 1 .. (n - 1) : t[i] = s[i + 1]
  <2>1. n \in Nat /\ DOMAIN s = 1 .. n /\ \A i \in 1 .. n : s[i] \in 1 .. p.capacity
    BY <1>2, LenProperties, ElementOfSeq
  <2>2. n # 0
    BY <1>2, EmptySeq
  <2>3. /\ t \in Seq(1 .. p.capacity) /\ Len(t) = n - 1
        /\ \A i \in 1 .. Len(t) : t[i] = s[i + 1]
    BY <1>2, HeadTailProperties
  <2>4. DOMAIN t = 1 .. Len(t)
    BY <2>3
  <2> QED BY <2>1, <2>2, <2>3, <2>4
<1>4. p.avail \in 1 .. p.capacity /\ p.avail \in ToSet(s)
  <2>1. 1 \in 1 .. n
    BY <1>3
  <2> QED BY <1>2, <1>3, <2>1 DEF ToSet
<1>5. p.next[p.avail] \in 0 .. p.capacity
  BY <1>4 DEF PoolOK
<1>6. q = [capacity |-> p.capacity, avail |-> p.next[p.avail], next |-> p.next]
  BY <1>1
<1>7. PoolOK(q) /\ q.capacity = p.capacity
  BY <1>1, <1>5, <1>6 DEF PoolOK, Pools
<1> HIDE DEF n, t
<1>8. t = <<>> <=> n = 1
  BY <1>3
<1>9. IsInjective(t)
  <2> SUFFICES ASSUME NEW i \in DOMAIN t, NEW j \in DOMAIN t, t[i] = t[j] PROVE i = j
    BY DEF IsInjective
  <2>1. i + 1 \in 1 .. n /\ j + 1 \in 1 .. n /\ s[i + 1] = s[j + 1]
    BY <1>3
  <2>2. i + 1 = j + 1
    BY <1>2, <1>3, <2>1 DEF IsInjective
  <2> QED BY <1>3, <2>2
<1>10. p.next[p.avail] = IF t = <<>> THEN 0 ELSE t[1]
  <2>1. p.next[s[1]] = IF 1 = n THEN 0 ELSE s[1 + 1]
    BY <1>2, <1>3
  <2>2. n # 1 => 1 \in 1 .. (n - 1)
    BY <1>3
  <2> QED BY <1>2, <1>3, <1>8, <2>1, <2>2
<1>11. \A i \in 1 .. Len(t) : p.next[t[i]] = IF i = Len(t) THEN 0 ELSE t[i + 1]
  <2> SUFFICES ASSUME NEW i \in 1 .. (n - 1)
               PROVE  p.next[t[i]] = IF i = n - 1 THEN 0 ELSE t[i + 1]
    BY <1>3
  <2>1. i + 1 \in 1 .. n /\ t[i] = s[i + 1] /\ (i + 1 = n <=> i = n - 1)
    BY <1>3
  <2>2. p.next[s[i + 1]] = IF i + 1 = n THEN 0 ELSE s[i + 1 + 1]
    BY <1>2, <2>1
  <2>3. i # n - 1 => t[i + 1] = s[i + 1 + 1]
    BY <1>3
  <2> QED BY <2>1, <2>2, <2>3
<1>12. Chain(q, t)
  BY <1>3, <1>6, <1>9, <1>10, <1>11 DEF Chain
<1>13. ToSet(t) = ToSet(s) \ {p.avail}
  <2>1. 1 \in DOMAIN s
    BY <1>3
  <2>2. ASSUME NEW e \in ToSet(s), e # s[1] PROVE e \in ToSet(t)
    <3>1. PICK i \in 1 .. n : e = s[i]
      BY <1>3 DEF ToSet
    <3>2. i - 1 \in DOMAIN t /\ t[i - 1] = s[i - 1 + 1] /\ i - 1 + 1 = i
      BY <1>3, <2>2, <3>1
    <3> QED BY <3>1, <3>2 DEF ToSet
  <2>3. ASSUME NEW e \in ToSet(t) PROVE e \in ToSet(s) /\ e # s[1]
    <3>1. PICK i \in 1 .. (n - 1) : e = t[i]
      BY <1>3 DEF ToSet
    <3>2. i + 1 \in DOMAIN s /\ i + 1 # 1 /\ e = s[i + 1]
      BY <1>3, <3>1
    <3>3. s[i + 1] # s[1]
      BY <1>2, <2>1, <3>2 DEF IsInjective
    <3> QED BY <3>2, <3>3 DEF ToSet
  <2> QED BY <1>2, <2>2, <2>3
<1> QED BY <1>4, <1>7, <1>12, <1>13 DEF t

\* The element that is freed is the first of the chain from then on.
LEMMA PushIs ==
    ASSUME NEW p, PoolOK(p), NEW s, Chain(p, s), NEW e \in 1 .. p.capacity, e \notin ToSet(s)
    PROVE  LET q == PushAvail(p, e) IN
           /\ PoolOK(q) /\ q.capacity = p.capacity
           /\ \E t : Chain(q, t) /\ ToSet(t) = ToSet(s) \cup {e}
<1> DEFINE n == Len(s)
           t == <<e>> \o s
           q == PushAvail(p, e)
<1>1. /\ p.capacity \in Nat /\ p.next \in Seq(Nat) /\ Len(p.next) = p.capacity
      /\ p = [capacity |-> p.capacity, avail |-> p.avail, next |-> p.next]
  BY PoolIs
<1>2. /\ s \in Seq(1 .. p.capacity) /\ IsInjective(s)
      /\ p.avail = IF s = <<>> THEN 0 ELSE s[1]
      /\ \A i \in 1 .. n : p.next[s[i]] = IF i = n THEN 0 ELSE s[i + 1]
  BY DEF Chain
<1>3. n \in Nat /\ DOMAIN s = 1 .. n /\ \A i \in 1 .. n : s[i] \in 1 .. p.capacity
  BY <1>2, LenProperties, ElementOfSeq
<1>4. s = <<>> <=> n = 0
  BY <1>2, EmptySeq
<1>5. /\ t \in Seq(1 .. p.capacity) /\ Len(t) = n + 1 /\ DOMAIN t = 1 .. (n + 1)
      /\ \A i \in 1 .. (n + 1) : t[i] = IF i = 1 THEN e ELSE s[i - 1]
  <2>1. <<e>> \in Seq(1 .. p.capacity) /\ Len(<<e>>) = 1 /\ <<e>>[1] = e
    OBVIOUS
  <2>2. /\ t \in Seq(1 .. p.capacity) /\ Len(t) = Len(<<e>>) + n
        /\ \A i \in 1 .. (Len(<<e>>) + n) : t[i] = IF i <= Len(<<e>>) THEN <<e>>[i]
                                                    ELSE s[i - Len(<<e>>)]
    BY <1>2, <2>1, ConcatProperties
  <2>3. 1 + n = n + 1
    BY <1>3
  <2>4. Len(t) = n + 1 /\ DOMAIN t = 1 .. (n + 1)
    BY <2>1, <2>2, <2>3, LenProperties
  <2>5. \A i \in 1 .. (n + 1) : t[i] = IF i = 1 THEN e ELSE s[i - 1]
    <3> HIDE DEF t
    <3> SUFFICES ASSUME NEW i \in 1 .. (n + 1) PROVE t[i] = IF i = 1 THEN e ELSE s[i - 1]
      OBVIOUS
    <3>1. t[i] = IF i <= 1 THEN <<e>>[i] ELSE s[i - 1]
      BY <2>1, <2>2, <2>3
    <3> QED BY <1>3, <2>1, <3>1
  <2> QED BY <2>2, <2>4, <2>5
<1>6. \A i \in 1 .. n : s[i] # e
  BY <1>3 DEF ToSet
<1>7. /\ q \in Pools /\ q.capacity = p.capacity /\ q.avail = e
      /\ q.next = [p.next EXCEPT ![e] = p.avail]
  <2>1. p \in Pools /\ e \in Nat
    BY <1>1 DEF PoolOK
  <2>2. [p.next EXCEPT ![e] = p.avail] \in Seq(Nat)
    BY <1>1, <2>1, ExceptSeq DEF Pools
  <2> QED BY <2>1, <2>2 DEF PushAvail, Pools
<1>8. PoolOK(q) /\ q.capacity = p.capacity
  <2>1. [p.next EXCEPT ![e] = p.avail] \in [1 .. p.capacity -> 0 .. p.capacity]
    BY DEF PoolOK
  <2>2. p.capacity >= 1
    BY DEF PoolOK
  <2> HIDE DEF q
  <2> QED BY <1>1, <1>7, <2>1, <2>2 DEF PoolOK
<1>9. p.next \in [1 .. p.capacity -> 0 .. p.capacity]
  BY DEF PoolOK
<1> HIDE DEF n, t, q
<1>10. IsInjective(t)
  <2> SUFFICES ASSUME NEW i \in 1 .. (n + 1), NEW j \in 1 .. (n + 1), t[i] = t[j] PROVE i = j
    BY <1>5 DEF IsInjective
  <2>1. CASE i = 1 \/ j = 1
    <3>1. i # 1 => i - 1 \in 1 .. n
      BY <1>3
    <3>2. j # 1 => j - 1 \in 1 .. n
      BY <1>3
    <3> QED BY <1>5, <1>6, <2>1, <3>1, <3>2
  <2>2. CASE i # 1 /\ j # 1
    <3>1. i - 1 \in 1 .. n /\ j - 1 \in 1 .. n
      BY <1>3, <2>2
    <3>2. s[i - 1] = s[j - 1]
      BY <1>5, <2>2
    <3>3. i - 1 = j - 1
      BY <1>2, <1>3, <3>1, <3>2 DEF IsInjective
    <3> QED BY <3>3
  <2> QED BY <2>1, <2>2
<1>11. \A i \in 1 .. Len(t) : q.next[t[i]] = IF i = Len(t) THEN 0 ELSE t[i + 1]
  <2> SUFFICES ASSUME NEW i \in 1 .. (n + 1)
               PROVE  q.next[t[i]] = IF i = n + 1 THEN 0 ELSE t[i + 1]
    BY <1>5
  <2>1. \A x \in 1 .. p.capacity : q.next[x] = IF x = e THEN p.avail ELSE p.next[x]
    BY <1>7, <1>9
  <2>2. CASE i = 1
    <3>1. t[i] = e /\ q.next[t[i]] = p.avail
      BY <1>5, <2>1, <2>2
    <3>2. n # 0 => t[i + 1] = s[1]
      <4>1. n # 0 => i + 1 \in 1 .. (n + 1) /\ i + 1 # 1 /\ i + 1 - 1 = 1
        BY <1>3, <2>2
      <4> QED BY <1>5, <4>1
    <3> QED BY <1>2, <1>3, <1>4, <2>2, <3>1, <3>2
  <2>3. CASE i # 1
    <3>1. i - 1 \in 1 .. n /\ t[i] = s[i - 1] /\ i - 1 + 1 = i /\ (i - 1 = n <=> i = n + 1)
      BY <1>3, <1>5, <2>3
    <3>2. q.next[t[i]] = p.next[s[i - 1]]
      BY <1>3, <1>6, <2>1, <3>1
    <3>3. p.next[s[i - 1]] = IF i = n + 1 THEN 0 ELSE s[i]
      BY <1>2, <3>1
    <3>4. i # n + 1 => t[i + 1] = s[i]
      <4>1. i # n + 1 => i + 1 \in 1 .. (n + 1) /\ i + 1 # 1 /\ i + 1 - 1 = i
        BY <1>3
      <4> QED BY <1>5, <4>1
    <3> QED BY <3>2, <3>3, <3>4
  <2> QED BY <2>2, <2>3
<1>12. Chain(q, t)
  <2>1. t # <<>> /\ t[1] = e
    <3>1. 1 \in 1 .. (n + 1) /\ n + 1 # 0
      BY <1>3
    <3> QED BY <1>5, <3>1, EmptySeq
  <2>2. q.avail = e /\ q.capacity = p.capacity
    BY <1>7
  <2> QED BY <1>5, <1>10, <1>11, <2>1, <2>2 DEF Chain
<1>13. ToSet(t) = ToSet(s) \cup {e}
  <2>1. ASSUME NEW x \in ToSet(t) PROVE x \in ToSet(s) \cup {e}
    <3>1. PICK i \in 1 .. (n + 1) : x = t[i]
      BY <1>5 DEF ToSet
    <3>2. i # 1 => i - 1 \in DOMAIN s
      BY <1>3
    <3> QED BY <1>5, <3>1, <3>2 DEF ToSet
  <2>2. ASSUME NEW x \in ToSet(s) PROVE x \in ToSet(t)
    <3>1. PICK i \in 1 .. n : x = s[i]
      BY <1>3 DEF ToSet
    <3>2. i + 1 \in 1 .. (n + 1) /\ i + 1 # 1 /\ i + 1 - 1 = i
      BY <1>3
    <3>3. t[i + 1] = x
      BY <1>5, <3>1, <3>2
    <3> QED BY <1>5, <3>2, <3>3 DEF ToSet
  <2>3. e \in ToSet(t)
    <3>1. 1 \in 1 .. (n + 1)
      BY <1>3
    <3> QED BY <1>5, <3>1 DEF ToSet
  <2> QED BY <2>1, <2>2, <2>3
<1> QED BY <1>8, <1>12, <1>13 DEF q


\* The new elements are free, in the order of their numbers.
LEMMA LinkIs ==
    ASSUME NEW cap \in Nat, NEW next \in Seq(Nat), next \in [1 .. cap -> 0 .. cap],
           NEW n \in Nat \ {0}
    PROVE  LET q == Link([capacity |-> cap, avail |-> 0, next |-> next], n) IN
           /\ PoolOK(q) /\ q.capacity = cap + n
           /\ \E t : Chain(q, t) /\ t # <<>> /\ ToSet(t) = (cap + 1) .. (cap + n)
<1> DEFINE q == Link([capacity |-> cap, avail |-> 0, next |-> next], n)
           new == [k \in 1 .. n |-> IF k = n THEN 0 ELSE cap + k + 1]
           t == [k \in 1 .. n |-> cap + k]
<1>1. q = [capacity |-> cap + n, avail |-> cap + 1, next |-> next \o new]
  BY DEF Link
<1>2. new \in Seq(Nat) /\ Len(new) = n
  OBVIOUS
<1>3. Len(next) = cap
  <2>1. Len(next) \in Nat /\ DOMAIN next = 1 .. Len(next) /\ DOMAIN next = 1 .. cap
    BY LenProperties
  <2> QED BY <2>1
<1>4. /\ next \o new \in Seq(Nat) /\ Len(next \o new) = cap + n
      /\ \A i \in 1 .. (cap + n) : (next \o new)[i] = IF i <= cap THEN next[i] ELSE new[i - cap]
  <2> HIDE DEF new
  <2>1. /\ next \o new \in Seq(Nat) /\ Len(next \o new) = Len(next) + Len(new)
        /\ \A i \in 1 .. (Len(next) + Len(new)) :
               (next \o new)[i] = IF i <= Len(next) THEN next[i] ELSE new[i - Len(next)]
    BY <1>2, ConcatProperties
  <2> QED BY <1>2, <1>3, <2>1
<1>5. DOMAIN (next \o new) = 1 .. (cap + n)
  BY <1>4, LenProperties
<1>6. \A i \in 1 .. (cap + n) : (next \o new)[i] \in 0 .. (cap + n)
  <2> SUFFICES ASSUME NEW i \in 1 .. (cap + n) PROVE (next \o new)[i] \in 0 .. (cap + n)
    OBVIOUS
  <2>1. CASE i <= cap
    <3>1. i \in 1 .. cap /\ next[i] \in 0 .. cap
      BY <2>1
    <3> QED BY <1>4, <2>1, <3>1
  <2>2. CASE ~(i <= cap)
    <3>1. i - cap \in 1 .. n
      BY <2>2
    <3>2. new[i - cap] \in 0 .. (cap + n)
      BY <3>1
    <3> QED BY <1>4, <2>2, <3>2
  <2> QED BY <2>1, <2>2
<1>7. PoolOK(q) /\ q.capacity = cap + n
  <2>1. next \o new \in [1 .. (cap + n) -> 0 .. (cap + n)]
    <3> DEFINE f == next \o new
    <3>1. f \in Seq(Nat) /\ DOMAIN f = 1 .. (cap + n)
      BY <1>4, <1>5
    <3>2. \A i \in 1 .. (cap + n) : f[i] \in 0 .. (cap + n)
      BY <1>6
    <3> HIDE DEF f
    <3>3. f = [i \in 1 .. (cap + n) |-> f[i]]
      BY <3>1
    <3>4. f \in [1 .. (cap + n) -> 0 .. (cap + n)]
      BY <3>2, <3>3
    <3> QED BY <3>4 DEF f
  <2> HIDE DEF q, new
  <2> QED BY <1>1, <1>4, <2>1 DEF PoolOK, Pools
<1>8. /\ t \in Seq(1 .. (cap + n)) /\ Len(t) = n /\ DOMAIN t = 1 .. n
      /\ \A k \in 1 .. n : t[k] = cap + k
  OBVIOUS
<1>9. \A k \in 1 .. n : (next \o new)[cap + k] = IF k = n THEN 0 ELSE cap + k + 1
  <2> SUFFICES ASSUME NEW k \in 1 .. n
               PROVE  (next \o new)[cap + k] = IF k = n THEN 0 ELSE cap + k + 1
    OBVIOUS
  <2>1. cap + k \in 1 .. (cap + n) /\ ~(cap + k <= cap) /\ cap + k - cap = k
    OBVIOUS
  <2>2. (next \o new)[cap + k] = new[k]
    BY <1>4, <2>1
  <2> QED BY <2>2
<1> HIDE DEF q, t, new
<1>10. IsInjective(t)
  BY <1>8 DEF IsInjective
<1>11. t # <<>> /\ t[1] = cap + 1
  <2>1. n # 0 /\ 1 \in 1 .. n
    OBVIOUS
  <2> QED BY <1>8, <2>1, EmptySeq
<1>12. Chain(q, t)
  <2>1. \A i \in 1 .. n : q.next[t[i]] = IF i = n THEN 0 ELSE t[i + 1]
    <3> SUFFICES ASSUME NEW i \in 1 .. n
                 PROVE  q.next[t[i]] = IF i = n THEN 0 ELSE t[i + 1]
      OBVIOUS
    <3>1. q.next[t[i]] = IF i = n THEN 0 ELSE cap + i + 1
      BY <1>1, <1>8, <1>9
    <3>2. i # n => t[i + 1] = cap + i + 1
      <4>1. i # n => i + 1 \in 1 .. n /\ cap + (i + 1) = cap + i + 1
        OBVIOUS
      <4> QED BY <1>8, <4>1
    <3> QED BY <3>1, <3>2
  <2>2. q.capacity = cap + n /\ q.avail = cap + 1
    BY <1>1
  <2> QED BY <1>8, <1>10, <1>11, <2>1, <2>2 DEF Chain
<1>13. ToSet(t) = (cap + 1) .. (cap + n)
  <2>1. ASSUME NEW e \in (cap + 1) .. (cap + n) PROVE e \in ToSet(t)
    <3>1. e - cap \in 1 .. n /\ cap + (e - cap) = e
      OBVIOUS
    <3> QED BY <1>8, <3>1 DEF ToSet
  <2>2. ASSUME NEW e \in ToSet(t) PROVE e \in (cap + 1) .. (cap + n)
    <3>1. PICK k \in 1 .. n : e = t[k]
      BY <1>8, <2>2 DEF ToSet
    <3> QED BY <1>8, <3>1
  <2> QED BY <2>1, <2>2
<1> QED BY <1>7, <1>11, <1>12, <1>13 DEF q

\* The element that is given was free, or is one of those the pool grows by.
LEMMA AllocIs ==
    ASSUME NEW p, PoolOK(p), NEW s, Chain(p, s)
    PROVE  LET q == PoolAlloc(p)
               e == Allocated(p)
           IN  /\ PoolOK(q) /\ q.capacity \in Nat /\ q.capacity >= p.capacity
               /\ e \in 1 .. q.capacity /\ (e \in ToSet(s) \/ e > p.capacity)
               /\ \E t : /\ Chain(q, t)
                         /\ ToSet(t) = (ToSet(s) \cup (p.capacity + 1) .. q.capacity) \ {e}
<1> DEFINE q == PoolAlloc(p)
           e == Allocated(p)
           r == Ready(p)
<1>1. /\ p.capacity \in Nat /\ p.next \in Seq(Nat) /\ Len(p.next) = p.capacity
      /\ p = [capacity |-> p.capacity, avail |-> p.avail, next |-> p.next]
      /\ p.capacity >= 1 /\ p.next \in [1 .. p.capacity -> 0 .. p.capacity]
  BY PoolIs DEF PoolOK
<1>2. /\ s \in Seq(1 .. p.capacity)
      /\ p.avail = IF s = <<>> THEN 0 ELSE s[1]
  BY DEF Chain
<1>3. PICK u : /\ PoolOK(r) /\ r.capacity \in Nat /\ r.capacity >= p.capacity
               /\ Chain(r, u) /\ u # <<>>
               /\ ToSet(u) = ToSet(s) \cup (p.capacity + 1) .. r.capacity
  <2>1. CASE s = <<>>
    <3>1. r = Link([capacity |-> p.capacity, avail |-> 0, next |-> p.next], p.capacity)
      BY <1>1, <1>2, <2>1 DEF Ready, IsFull, Grow
    <3>2. p.capacity \in Nat \ {0}
      BY <1>1
    <3>3. /\ PoolOK(r) /\ r.capacity = p.capacity + p.capacity
          /\ \E t : /\ Chain(r, t) /\ t # <<>>
                    /\ ToSet(t) = (p.capacity + 1) .. (p.capacity + p.capacity)
      BY <1>1, <3>1, <3>2, LinkIs
    <3>4. ToSet(s) = {}
      BY <2>1 DEF ToSet
    <3>5. r.capacity \in Nat /\ r.capacity >= p.capacity
      BY <1>1, <3>3
    <3> QED BY <3>3, <3>4, <3>5
  <2>2. CASE s # <<>>
    <3>1. s[1] \in 1 .. p.capacity
      <4>1. Len(s) \in Nat /\ Len(s) # 0
        BY <1>2, <2>2, EmptySeq, LenProperties
      <4>2. 1 \in 1 .. Len(s)
        BY <4>1
      <4> QED BY <1>2, <4>2, ElementOfSeq
    <3>2. r = p
      BY <1>1, <1>2, <2>2, <3>1 DEF Ready, IsFull
    <3>3. (p.capacity + 1) .. p.capacity = {}
      BY <1>1
    <3> QED BY <1>1, <2>2, <3>2, <3>3
  <2> QED BY <2>1, <2>2
<1>4. q = [r EXCEPT !.avail = r.next[r.avail]] /\ e = r.avail
  BY DEF PoolAlloc, Allocated
<1>5. /\ PoolOK(q) /\ q.capacity = r.capacity
      /\ Chain(q, Tail(u)) /\ ToSet(Tail(u)) = ToSet(u) \ {e}
      /\ e \in ToSet(u) /\ e \in 1 .. r.capacity
  BY <1>3, <1>4, TakeIs
<1>6. e \in ToSet(s) \/ e > p.capacity
  BY <1>1, <1>3, <1>5
<1> HIDE DEF q, e, r
<1>7. Chain(q, Tail(u)) /\ ToSet(Tail(u)) = (ToSet(s) \cup (p.capacity + 1) .. q.capacity) \ {e}
  BY <1>3, <1>5
<1> QED BY <1>3, <1>5, <1>6, <1>7 DEF q, e


-----------------------------------------------------------------------------
(* The elements of a chain *)

SmallerPairs == {ss \in Nat \X Nat : ss[1] < ss[2]}

LEMMA LeastNumber ==
    ASSUME NEW S \in SUBSET Nat, S # {}
    PROVE  \E n \in S : \A m \in S : n <= m
<1>1. IsWellFoundedOn(SmallerPairs, Nat)
  BY NatLessThanWellFounded DEF OpToRel, SmallerPairs
<1>2. PICK n \in S : \A m \in S : <<m, n>> \notin SmallerPairs
  BY <1>1, WFMin
<1>3. ASSUME NEW m \in S PROVE n <= m
  <2>1. <<m, n>> \in Nat \X Nat /\ <<m, n>> \notin SmallerPairs /\ m \in Nat /\ n \in Nat
    BY <1>2
  <2>2. ~(<<m, n>>[1] < <<m, n>>[2])
    BY <2>1 DEF SmallerPairs
  <2> QED BY <2>1, <2>2
<1> QED BY <1>3

\* The first k elements, at most, that the links lead to from each element.
Row(p, k, f) ==
    [e \in 0 .. p.capacity |-> IF k = 0 \/ e = 0 THEN <<>> ELSE <<e>> \o f[k - 1][p.next[e]]]

LEMMA RowsExist ==
    ASSUME NEW p, NEW n \in Nat
    PROVE  \E f : f = [k \in 0 .. n |-> Row(p, k, f)]
<1> DEFINE Bad == {m \in Nat : ~ \E f : f = [k \in 0 .. m |-> Row(p, k, f)]}
<1>1. Bad = {}
  <2> SUFFICES ASSUME Bad # {} PROVE FALSE
    OBVIOUS
  <2>1. Bad \in SUBSET Nat
    OBVIOUS
  <2> HIDE DEF Bad
  <2>2. PICK m \in Bad : \A l \in Bad : m <= l
    BY <2>1, LeastNumber
  <2>3. m \in Nat
    BY <2>1
  <2>4. CASE m = 0
    <3> DEFINE f == [k \in 0 .. 0 |-> Row(p, 0, <<>>)]
    <3>1. \A g, h : Row(p, 0, g) = Row(p, 0, h)
      BY DEF Row
    <3>2. f = [k \in 0 .. 0 |-> Row(p, k, f)]
      BY <3>1
    <3>3. m \notin Bad
      BY <2>4, <3>2 DEF Bad
    <3> QED BY <3>3
  <2>5. CASE m # 0
    <3>1. m - 1 \in Nat /\ m - 1 \notin Bad
      BY <2>2, <2>3, <2>5
    <3>2. PICK f : f = [k \in 0 .. (m - 1) |-> Row(p, k, f)]
      BY <3>1 DEF Bad
    <3> DEFINE g == [k \in 0 .. m |-> IF k = m THEN Row(p, m, f) ELSE f[k]]
    <3>3. \A k \in 0 .. (m - 1) : g[k] = f[k]
      BY <2>3
    <3>4. \A k \in 0 .. m : Row(p, k, g) = Row(p, k, f)
      <4> SUFFICES ASSUME NEW k \in 0 .. m PROVE Row(p, k, g) = Row(p, k, f)
        OBVIOUS
      <4>1. k = 0 \/ g[k - 1] = f[k - 1]
        BY <2>3, <3>3
      <4> HIDE DEF g
      <4> QED BY <4>1 DEF Row
    <3>5. \A k \in 0 .. m : g[k] = Row(p, k, g)
      <4> SUFFICES ASSUME NEW k \in 0 .. m PROVE g[k] = Row(p, k, f)
        BY <3>4
      <4>1. k # m => k \in 0 .. (m - 1)
        BY <2>3
      <4>2. \A l \in 0 .. (m - 1) : f[l] = Row(p, l, f)
        BY <3>2
      <4> QED BY <4>1, <4>2
    <3>6. g = [k \in 0 .. m |-> Row(p, k, g)]
      <4>1. g = [k \in 0 .. m |-> g[k]]
        OBVIOUS
      <4> HIDE DEF g
      <4> QED BY <3>5, <4>1
    <3>7. m \notin Bad
      BY <2>3, <3>6 DEF Bad
    <3> QED BY <3>7
  <2> QED BY <2>4, <2>5
<1> QED BY <1>1

LEMMA FreeListRows ==
    ASSUME NEW p, p.capacity \in Nat
    PROVE  \E f : /\ f = [k \in 0 .. p.capacity + 1 |-> Row(p, k, f)]
                  /\ FreeList(p) = f[p.capacity + 1][p.avail]
<1> DEFINE f == CHOOSE f : f = [k \in 0 .. p.capacity + 1 |-> Row(p, k, f)]
<1>1. f = [k \in 0 .. p.capacity + 1 |-> Row(p, k, f)]
  BY RowsExist
<1>2. FreeList(p) = f[p.capacity + 1][p.avail]
  BY Zenon DEF FreeList, Row
<1> HIDE DEF f
<1> QED BY <1>1, <1>2

\* An element is only once in a chain, so that the list goes to its end.
LEMMA ChainIsList ==
    ASSUME NEW p, PoolOK(p), NEW s, Chain(p, s)
    PROVE  FreeList(p) = s
<1> DEFINE n == Len(s)
           cap == p.capacity
<1>1. cap \in Nat /\ p.next \in [1 .. cap -> 0 .. cap]
  BY PoolIs DEF PoolOK
<1>2. /\ s \in Seq(1 .. cap) /\ IsInjective(s) /\ p.avail = IF s = <<>> THEN 0 ELSE s[1]
      /\ \A i \in 1 .. n : p.next[s[i]] = IF i = n THEN 0 ELSE s[i + 1]
  BY DEF Chain
<1>3. /\ n \in Nat /\ DOMAIN s = 1 .. n /\ \A i \in 1 .. n : s[i] \in 1 .. cap
      /\ s \in [1 .. n -> 1 .. cap]
  BY <1>2, LenProperties, ElementOfSeq
<1>4. n <= cap
  <2>1. s \in Injection(1 .. n, 1 .. cap)
    BY <1>2, <1>3 DEF Injection
  <2>2. IsFiniteSet(1 .. cap) /\ Cardinality(1 .. cap) = cap /\ Cardinality(1 .. n) = n
    <3>1. 1 \in Int /\ cap \in Int /\ n \in Int
      BY <1>1, <1>3
    <3>2. IsFiniteSet(1 .. cap) /\ Cardinality(1 .. cap) = IF 1 > cap THEN 0 ELSE cap - 1 + 1
      BY <3>1, FS_Interval
    <3>3. Cardinality(1 .. n) = IF 1 > n THEN 0 ELSE n - 1 + 1
      BY <3>1, FS_Interval
    <3> HIDE DEF n, cap
    <3> QED BY <1>1, <1>3, <3>2, <3>3
  <2>3. Cardinality(1 .. n) <= Cardinality(1 .. cap)
    BY <2>1, <2>2, FS_Injection
  <2> QED BY <2>2, <2>3
<1>5. PICK f : /\ f = [k \in 0 .. cap + 1 |-> Row(p, k, f)]
               /\ FreeList(p) = f[cap + 1][p.avail]
  BY <1>1, FreeListRows
<1> HIDE DEF n, cap
<1>6. \A k \in 0 .. cap + 1, e \in 0 .. cap :
        f[k][e] = IF k = 0 \/ e = 0 THEN <<>> ELSE <<e>> \o f[k - 1][p.next[e]]
  <2> SUFFICES ASSUME NEW k \in 0 .. cap + 1, NEW e \in 0 .. cap
               PROVE  f[k][e] = IF k = 0 \/ e = 0 THEN <<>> ELSE <<e>> \o f[k - 1][p.next[e]]
    OBVIOUS
  <2>1. f[k] = Row(p, k, f)
    BY <1>5
  <2> QED BY <2>1 DEF Row, cap
<1> DEFINE Bad == {m \in Nat : m < n /\ f[cap + 2 - (n - m)][s[n - m]] # SubSeq(s, n - m, n)}
<1>7. Bad = {}
  <2> SUFFICES ASSUME Bad # {} PROVE FALSE
    OBVIOUS
  <2>1. Bad \in SUBSET Nat
    OBVIOUS
  <2>2. PICK m \in Bad : \A l \in Bad : m <= l
    BY <2>1, LeastNumber
  <2> DEFINE i == n - m
             k == cap + 2 - i
  <2>3. m \in Nat /\ m < n /\ f[k][s[i]] # SubSeq(s, i, n)
    BY <2>2
  <2>4. i \in 1 .. n /\ i \in Int /\ i <= n /\ k \in 1 .. cap + 1 /\ k - 1 \in 0 .. cap + 1
    BY <1>1, <1>3, <1>4, <2>3
  <2>5. m # 0 => f[cap + 2 - (i + 1)][s[i + 1]] = SubSeq(s, i + 1, n)
    <3> SUFFICES ASSUME m # 0
                 PROVE  f[cap + 2 - (i + 1)][s[i + 1]] = SubSeq(s, i + 1, n)
      OBVIOUS
    <3>1. m - 1 \in Nat /\ m - 1 < n /\ n - (m - 1) = i + 1 /\ ~(m <= m - 1)
      BY <1>3, <2>3
    <3>2. m - 1 \notin Bad
      BY <2>2, <3>1
    <3>3. f[cap + 2 - (n - (m - 1))][s[n - (m - 1)]] = SubSeq(s, n - (m - 1), n)
      BY <3>1, <3>2
    <3> HIDE DEF i
    <3> QED BY <3>1, <3>3
  <2>6. cap + 2 - (i + 1) = k - 1 /\ (m = 0 <=> i = n)
    BY <1>1, <1>3, <2>3
  <2> HIDE DEF Bad, i, k
  <2>7. f[k][s[i]] = <<s[i]>> \o f[k - 1][p.next[s[i]]]
    <3>1. s[i] \in 0 .. cap /\ s[i] # 0
      BY <1>1, <1>3, <2>4
    <3>2. k \in 0 .. cap + 1 /\ k # 0
      BY <1>1, <2>4
    <3> QED BY <1>6, <3>1, <3>2
  <2>8. f[k - 1][p.next[s[i]]] = SubSeq(s, i + 1, n)
    <3>1. CASE i = n
      <4>1. p.next[s[i]] = 0 /\ 0 \in 0 .. cap
        BY <1>1, <1>2, <2>4, <3>1 DEF n
      <4>2. f[k - 1][0] = <<>>
        BY <1>6, <2>4, <4>1
      <4>3. SubSeq(s, i + 1, n) = <<>>
        <5>1. i + 1 \in Int /\ n \in Int /\ n < i + 1
          BY <1>3, <2>4, <3>1
        <5> QED BY <5>1, SubSeqEmpty
      <4> QED BY <4>1, <4>2, <4>3
    <3>2. CASE i # n
      BY <1>2, <2>4, <2>5, <2>6, <3>2 DEF n
    <3> QED BY <3>1, <3>2
  <2>9. SubSeq(s, i, n) = <<s[i]>> \o SubSeq(s, i + 1, n)
    <3>1. i \in 1 .. n /\ n \in i .. n
      BY <1>3, <2>4
    <3>2. i \in 1 .. Len(s) /\ n \in i .. Len(s) /\ s \in Seq(1 .. cap)
      BY <1>2, <3>1 DEF n
    <3> QED BY <3>2, SubSeqRecursiveFirst
  <2> QED BY <2>3, <2>7, <2>8, <2>9
<1>8. CASE s = <<>>
  <2>1. p.avail = 0 /\ 0 \in 0 .. cap /\ cap + 1 \in 0 .. cap + 1
    BY <1>1, <1>2, <1>8
  <2>2. f[cap + 1][0] = <<>>
    BY <1>6, <2>1
  <2> QED BY <1>5, <1>8, <2>1, <2>2
<1>9. CASE s # <<>>
  <2>1. n # 0
    BY <1>2, <1>9, EmptySeq DEF n
  <2>2. n - 1 \in Nat /\ n - 1 < n /\ n - (n - 1) = 1 /\ cap + 2 - 1 = cap + 1
    BY <1>1, <1>3, <2>1
  <2>3. n - 1 \notin Bad
    BY <1>7
  <2>4. f[cap + 2 - (n - (n - 1))][s[n - (n - 1)]] = SubSeq(s, n - (n - 1), n)
    BY <2>2, <2>3
  <2>5. f[cap + 1][s[1]] = SubSeq(s, 1, n)
    BY <2>2, <2>4
  <2>6. SubSeq(s, 1, n) = s
    BY <1>2, SubSeqFull DEF n
  <2> QED BY <1>2, <1>5, <1>9, <2>5, <2>6
<1> QED BY <1>8, <1>9

-----------------------------------------------------------------------------
(* The inductive invariant *)

TimeTypes ==
    /\ PoolOK(timePool)
    /\ obj \in [Clients -> 0 .. timePool.capacity]
    /\ stampedFor \in [1 .. timePool.capacity -> Clients \cup {NoClient}]
    /\ at \in [Clients -> {"away", "connected", "leaving", "freed", "gone"}]
    /\ working \in [Clients -> Nat]
    /\ picked \in [Workers -> Clients \cup {NoClient}]
    /\ pointer \in [Workers -> 0 .. timePool.capacity]
    /\ fastClients \in Seq(Clients) /\ otherClients \in Seq(Clients)

\* The free TimePoints are those that no client has, and no two have the same.
FreeAre(s) == Chain(timePool, s) /\ ToSet(s) = (1 .. timePool.capacity) \ {obj[c] : c \in Holders}

HoldInv ==
    /\ \A c, d \in Holders : obj[c] = obj[d] => c = d
    /\ \E s : FreeAre(s)

\* A client that works has a TimePoint.  A pointer that was loaded is still that
\* of the client, freed or not, unless the client is gone.
WorkInv ==
    /\ \A c \in Connected : working[c] > 0 => obj[c] # 0
    /\ \A c \in Clients : at[c] = "away" => working[c] = 0
    /\ \A w \in Workers :
         pointer[w] # 0 => /\ picked[w] \in Clients
                           /\ obj[picked[w]] = pointer[w] \/ at[picked[w]] = "gone"

TimesInv == TimeTypes /\ HoldInv /\ WorkInv /\ TimeIsOwn

LEMMA HoldKept ==
    ASSUME HoldInv, timePool' = timePool, obj' = obj, Holders' = Holders
    PROVE  HoldInv'
BY DEF HoldInv, FreeAre

LEMMA TimesInit == Init => TimesInv
<1> SUFFICES ASSUME Init PROVE TimesInv
  OBVIOUS
<1>1. MAXCLIENTS \in Nat \ {0} /\ NoClient \notin Clients
  BY MaxClientsAssumption, NoClientAssumption
<1>2. timePool = Link([capacity |-> 0, avail |-> 0, next |-> <<>>], MAXCLIENTS)
  BY DEF Init, NewPool
<1>3. <<>> \in Seq(Nat) /\ <<>> \in [1 .. 0 -> 0 .. 0]
  OBVIOUS
<1>4. PICK s : /\ PoolOK(timePool) /\ timePool.capacity = 0 + MAXCLIENTS
               /\ Chain(timePool, s) /\ ToSet(s) = (0 + 1) .. (0 + MAXCLIENTS)
  BY <1>1, <1>2, <1>3, LinkIs
<1>5. timePool.capacity = MAXCLIENTS /\ ToSet(s) = 1 .. MAXCLIENTS
  BY <1>1, <1>4
<1>6. Holders = {} /\ Connected = {}
  BY DEF Init, Holders, Connected
<1>7. TimeTypes
  <2>1. obj \in [Clients -> 0 .. MAXCLIENTS] /\ pointer \in [Workers -> 0 .. MAXCLIENTS]
    BY <1>1 DEF Init
  <2> QED BY <1>4, <1>5, <2>1 DEF Init, TimeTypes
<1>8. HoldInv
  BY <1>4, <1>5, <1>6 DEF HoldInv, FreeAre
<1>9. WorkInv
  BY <1>6 DEF WorkInv, Init
<1>10. TimeIsOwn
  BY <1>6 DEF TimeIsOwn
<1> QED BY <1>7, <1>8, <1>9, <1>10 DEF TimesInv

-----------------------------------------------------------------------------
(* Every action *)

LEMMA ConnectStep ==
    ASSUME TimesInv, NEW c \in Clients, Connect(c)
    PROVE  TimesInv'
<1>1. /\ at[c] = "away" /\ at' = [at EXCEPT ![c] = "connected"]
      /\ UNCHANGED <<timePool, obj, stampedFor, fastClients, otherClients, working,
                     picked, pointer>>
  BY DEF Connect
<1>2. TimeTypes'
  BY <1>1 DEF TimesInv, TimeTypes
<1>3. at \in [Clients -> {"away", "connected", "leaving", "freed", "gone"}]
  BY DEF TimesInv, TimeTypes
<1>4. \A d \in Clients : d # c => at'[d] = at[d]
  BY <1>1, <1>3
<1>5. at'[c] = "connected"
  BY <1>1, <1>3
<1>6. Holders' = Holders
  BY <1>1, <1>4, <1>5 DEF Holders
<1>7. HoldInv'
  BY <1>1, <1>6, HoldKept DEF TimesInv
<1>8. working[c] = 0
  BY <1>1 DEF TimesInv, WorkInv
<1>9. Connected' = Connected \cup {c}
  BY <1>4, <1>5 DEF Connected
<1>10. WorkInv'
  BY <1>1, <1>4, <1>5, <1>8, <1>9 DEF TimesInv, WorkInv
<1>11. TimeIsOwn'
  <2> SUFFICES ASSUME NEW d \in Connected', (working[d] > 0)'
               PROVE  (\/ stampedFor[obj[d]] = d
                       \/ /\ stampedFor[obj[d]] # NoClient
                          /\ at[stampedFor[obj[d]]] \in {"leaving", "freed", "gone"})'
    BY DEF TimeIsOwn
  <2>1. d # c /\ d \in Connected /\ working[d] > 0
    BY <1>1, <1>8, <1>9
  <2>2. \/ stampedFor[obj[d]] = d
        \/ /\ stampedFor[obj[d]] # NoClient
           /\ at[stampedFor[obj[d]]] \in {"leaving", "freed", "gone"}
    BY <2>1 DEF TimesInv, TimeIsOwn
  <2>3. at[stampedFor[obj[d]]] \in {"leaving", "freed", "gone"} => stampedFor[obj[d]] # c
    BY <1>1
  <2>4. at' = [at EXCEPT ![c] = "connected"]
    BY <1>1
  <2> QED BY <1>1, <1>3, <2>2, <2>3, <2>4
<1> QED BY <1>2, <1>7, <1>10, <1>11 DEF TimesInv

\* A client that stays or begins to leave.
LEMMA LeavingKeeps ==
    ASSUME TimesInv, NEW c \in Clients, at[c] = "connected",
           \/ at' = at
           \/ at' = [at EXCEPT ![c] = "leaving"],
           \A d \in Clients : working'[d] \in Nat /\ working'[d] <= working[d],
           UNCHANGED <<timePool, obj, stampedFor, picked, pointer>>
    PROVE  HoldInv' /\ WorkInv' /\ TimeIsOwn'
<1>1. /\ at \in [Clients -> {"away", "connected", "leaving", "freed", "gone"}]
      /\ working \in [Clients -> Nat]
      /\ stampedFor \in [1 .. timePool.capacity -> Clients \cup {NoClient}]
      /\ obj \in [Clients -> 0 .. timePool.capacity]
      /\ timePool.capacity \in Nat /\ NoClient \notin Clients
  BY NoClientAssumption, PoolIs DEF TimesInv, TimeTypes
<1>2. \A d \in Clients : d # c => at'[d] = at[d]
  BY <1>1
<1>3. at'[c] \in {"connected", "leaving"}
  BY <1>1
<1>4. Holders' = Holders
  BY <1>2, <1>3 DEF Holders
<1>5. HoldInv'
  BY <1>4, HoldKept DEF TimesInv
<1>6. Connected' \subseteq Connected
  BY <1>2, <1>3 DEF Connected
<1>7. \A d \in Clients : (at'[d] = "away" => at[d] = "away") /\ (at[d] = "gone" => at'[d] = "gone")
  BY <1>2, <1>3
<1>8. \A d \in Clients : working'[d] > 0 => working[d] > 0
  BY <1>1
<1>9. \A d \in Clients : working[d] = 0 => working'[d] = 0
  BY <1>1
<1>10. WorkInv'
  <2>1. \A d \in Connected' : working'[d] > 0 => obj'[d] # 0
    BY <1>6, <1>8 DEF TimesInv, WorkInv, Connected
  <2>2. \A d \in Clients : at'[d] = "away" => working'[d] = 0
    BY <1>7, <1>9 DEF TimesInv, WorkInv
  <2>3. \A w \in Workers :
          pointer'[w] # 0 => /\ picked'[w] \in Clients
                             /\ obj'[picked'[w]] = pointer'[w] \/ at'[picked'[w]] = "gone"
    BY <1>7 DEF TimesInv, WorkInv
  <2> QED BY <2>1, <2>2, <2>3 DEF WorkInv
<1>11. TimeIsOwn'
  <2> SUFFICES ASSUME NEW d \in Connected', (working[d] > 0)'
               PROVE  (\/ stampedFor[obj[d]] = d
                       \/ /\ stampedFor[obj[d]] # NoClient
                          /\ at[stampedFor[obj[d]]] \in {"leaving", "freed", "gone"})'
    BY DEF TimeIsOwn
  <2>1. d \in Clients /\ d \in Connected /\ working[d] > 0
    BY <1>6, <1>8 DEF Connected
  <2>2. \/ stampedFor[obj[d]] = d
        \/ /\ stampedFor[obj[d]] # NoClient
           /\ at[stampedFor[obj[d]]] \in {"leaving", "freed", "gone"}
    BY <2>1 DEF TimesInv, TimeIsOwn
  <2>3. obj[d] \in 1 .. timePool.capacity
    BY <1>1, <2>1 DEF TimesInv, WorkInv
  <2>4. CASE stampedFor[obj[d]] # NoClient /\ at[stampedFor[obj[d]]] \in {"leaving", "freed", "gone"}
    <3>1. stampedFor[obj[d]] \in Clients /\ stampedFor[obj[d]] # c
      BY <1>1, <2>3, <2>4
    <3>2. at'[stampedFor[obj[d]]] = at[stampedFor[obj[d]]]
      BY <1>2, <3>1
    <3> QED BY <2>4, <3>2
  <2> QED BY <2>2, <2>4
<1> QED BY <1>5, <1>10, <1>11

LEMMA LeaveStep ==
    ASSUME TimesInv, NEW c \in Clients, Leave(c)
    PROVE  TimesInv'
<1>1. /\ at[c] = "connected" /\ at' = [at EXCEPT ![c] = "leaving"]
      /\ UNCHANGED <<timePool, obj, stampedFor, fastClients, otherClients, working,
                     picked, pointer>>
  BY DEF Leave
<1>2. TimeTypes'
  BY <1>1 DEF TimesInv, TimeTypes
<1>3. \A d \in Clients : working'[d] \in Nat /\ working'[d] <= working[d]
  BY <1>1 DEF TimesInv, TimeTypes
<1>4. HoldInv' /\ WorkInv' /\ TimeIsOwn'
  BY <1>1, <1>3, LeavingKeeps
<1> QED BY <1>2, <1>4 DEF TimesInv

\* A queue takes a client, or refuses it.
LEMMA PushClient ==
    ASSUME NEW q \in Seq(Clients), NEW c \in Clients, NEW held, NEW p \in Push(q, c, held)
    PROVE  p \in Seq(Clients)
<1>1. Append(q, c) \in Seq(Clients)
  BY AppendProperties
<1> QED BY <1>1 DEF Push

LEMMA RequeuedClient ==
    ASSUME NEW q \in Seq(Clients), NEW c \in Clients, NEW really, NEW p \in Requeued(q, c, really)
    PROVE  p \in Seq(Clients)
BY PushClient DEF Requeued

LEMMA EvaluateStep ==
    ASSUME TimesInv, NEW c \in Clients, NEW time \in Times, EvaluateClient(c, time)
    PROVE  TimesInv'
<1> DEFINE status == Status(Calculate(sd, time), time)
<1>1. /\ at[c] = "connected" /\ working[c] > 0
      /\ working' = [working EXCEPT ![c] = @ - 1]
      /\ fastClients' \in Requeued(fastClients, c, status = "FAST")
      /\ otherClients' \in Requeued(otherClients, c, status = "NORMAL")
      /\ at' = IF status = "TOOSLOW" THEN [at EXCEPT ![c] = "leaving"] ELSE at
      /\ UNCHANGED <<timePool, obj, stampedFor, picked, pointer>>
  BY DEF EvaluateClient
<1> HIDE DEF status
<1>2. working \in [Clients -> Nat]
  BY DEF TimesInv, TimeTypes
<1>3. \A d \in Clients : working'[d] \in Nat /\ working'[d] <= working[d]
  BY <1>1, <1>2
<1>4. working' \in [Clients -> Nat]
  BY <1>1, <1>2, <1>3
<1>5. at' = at \/ at' = [at EXCEPT ![c] = "leaving"]
  BY <1>1
<1>6. HoldInv' /\ WorkInv' /\ TimeIsOwn'
  BY <1>1, <1>3, <1>5, LeavingKeeps
<1>7. fastClients' \in Seq(Clients) /\ otherClients' \in Seq(Clients)
  BY <1>1, RequeuedClient DEF TimesInv, TimeTypes
<1>8. at' \in [Clients -> {"away", "connected", "leaving", "freed", "gone"}]
  BY <1>5 DEF TimesInv, TimeTypes
<1>9. TimeTypes'
  BY <1>1, <1>4, <1>7, <1>8 DEF TimesInv, TimeTypes
<1> QED BY <1>6, <1>9 DEF TimesInv


LEMMA FreeStep ==
    ASSUME TimesInv, NEW c \in Clients, FreeTime(c)
    PROVE  TimesInv'
<1>1. /\ at[c] = "leaving" /\ at' = [at EXCEPT ![c] = "freed"]
      /\ timePool' = IF obj[c] = 0 THEN timePool ELSE PushAvail(timePool, obj[c])
      /\ UNCHANGED <<obj, stampedFor, fastClients, otherClients, working, picked, pointer>>
  BY DEF FreeTime
<1>2. /\ at \in [Clients -> {"away", "connected", "leaving", "freed", "gone"}]
      /\ obj \in [Clients -> 0 .. timePool.capacity]
      /\ stampedFor \in [1 .. timePool.capacity -> Clients \cup {NoClient}]
      /\ timePool.capacity \in Nat /\ NoClient \notin Clients /\ PoolOK(timePool)
  BY NoClientAssumption, PoolIs DEF TimesInv, TimeTypes
<1>3. at'[c] = "freed" /\ \A d \in Clients : d # c => at'[d] = at[d]
  BY <1>1, <1>2
<1>4. Holders' = Holders \ {c}
  BY <1>1, <1>3 DEF Holders
<1>5. Connected' = Connected
  BY <1>1, <1>3 DEF Connected
<1>6. PICK s : FreeAre(s)
  BY DEF TimesInv, HoldInv
<1>7. \A a, b \in Holders : obj[a] = obj[b] => a = b
  BY DEF TimesInv, HoldInv
<1>8. /\ PoolOK(timePool') /\ timePool'.capacity = timePool.capacity
      /\ \E t : /\ Chain(timePool', t)
                /\ ToSet(t) = (1 .. timePool.capacity) \ {obj[d] : d \in Holders'}
  <2>1. CASE obj[c] = 0
    <3>1. Holders' = Holders /\ timePool' = timePool
      BY <1>1, <1>4, <2>1 DEF Holders
    <3> QED BY <1>2, <1>6, <3>1 DEF FreeAre
  <2>2. CASE obj[c] # 0
    <3>1. c \in Holders
      BY <1>1, <2>2 DEF Holders
    <3>2. obj[c] \in 1 .. timePool.capacity
      BY <1>2, <2>2
    <3>3. obj[c] \notin ToSet(s)
      BY <1>6, <3>1 DEF FreeAre
    <3>4. timePool' = PushAvail(timePool, obj[c])
      BY <1>1, <2>2
    <3>5. PICK t : /\ PoolOK(timePool') /\ timePool'.capacity = timePool.capacity
                   /\ Chain(timePool', t) /\ ToSet(t) = ToSet(s) \cup {obj[c]}
      <4>1. PoolOK(timePool) /\ Chain(timePool, s)
        BY <1>2, <1>6 DEF FreeAre
      <4>2. LET q == PushAvail(timePool, obj[c]) IN
            /\ PoolOK(q) /\ q.capacity = timePool.capacity
            /\ \E t : Chain(q, t) /\ ToSet(t) = ToSet(s) \cup {obj[c]}
        BY <3>2, <3>3, <4>1, PushIs
      <4> QED BY <3>4, <4>2
    <3>6. ToSet(t) = (1 .. timePool.capacity) \ {obj[d] : d \in Holders \ {c}}
      <4>1. ToSet(s) = (1 .. timePool.capacity) \ {obj[d] : d \in Holders}
        BY <1>6 DEF FreeAre
      <4>2. \A d \in Holders \ {c} : obj[d] # obj[c]
        BY <1>7, <3>1
      <4> QED BY <3>1, <3>2, <3>5, <4>1, <4>2
    <3> QED BY <1>4, <3>5, <3>6
  <2> QED BY <2>1, <2>2
<1>9. HoldInv'
  <2>1. \A a, b \in Holders' : obj'[a] = obj'[b] => a = b
    BY <1>1, <1>4, <1>7
  <2>2. {obj'[d] : d \in Holders'} = {obj[d] : d \in Holders'}
    BY <1>1
  <2> QED BY <1>8, <2>1, <2>2 DEF HoldInv, FreeAre
<1>10. TimeTypes'
  BY <1>1, <1>2, <1>8 DEF TimesInv, TimeTypes
<1>11. WorkInv'
  <2>1. \A d \in Clients : (at'[d] = "away" => at[d] = "away") /\ (at[d] = "gone" => at'[d] = "gone")
    BY <1>1, <1>3
  <2> QED BY <1>1, <1>5, <2>1 DEF TimesInv, WorkInv
<1>12. TimeIsOwn'
  <2> SUFFICES ASSUME NEW d \in Connected', (working[d] > 0)'
               PROVE  (\/ stampedFor[obj[d]] = d
                       \/ /\ stampedFor[obj[d]] # NoClient
                          /\ at[stampedFor[obj[d]]] \in {"leaving", "freed", "gone"})'
    BY DEF TimeIsOwn
  <2>1. d \in Clients /\ d \in Connected /\ working[d] > 0
    BY <1>1, <1>5 DEF Connected
  <2>2. \/ stampedFor[obj[d]] = d
        \/ /\ stampedFor[obj[d]] # NoClient
           /\ at[stampedFor[obj[d]]] \in {"leaving", "freed", "gone"}
    BY <2>1 DEF TimesInv, TimeIsOwn
  <2>3. obj[d] \in 1 .. timePool.capacity
    BY <1>2, <2>1 DEF TimesInv, WorkInv
  <2>4. CASE stampedFor[obj[d]] # NoClient /\ at[stampedFor[obj[d]]] \in {"leaving", "freed", "gone"}
    <3>1. stampedFor[obj[d]] \in Clients
      BY <1>2, <2>3, <2>4
    <3>2. at'[stampedFor[obj[d]]] \in {"leaving", "freed", "gone"}
      BY <1>3, <2>4, <3>1
    <3> QED BY <1>1, <2>4, <3>2
  <2> QED BY <1>1, <2>2, <2>4
<1> QED BY <1>9, <1>10, <1>11, <1>12 DEF TimesInv

LEMMA NullStep ==
    ASSUME TimesInv, NEW c \in Clients, NullTime(c)
    PROVE  TimesInv'
<1>1. /\ at[c] = "freed" /\ at' = [at EXCEPT ![c] = "gone"] /\ obj' = [obj EXCEPT ![c] = 0]
      /\ UNCHANGED <<timePool, stampedFor, fastClients, otherClients, working, picked, pointer>>
  BY DEF NullTime
<1>2. /\ at \in [Clients -> {"away", "connected", "leaving", "freed", "gone"}]
      /\ obj \in [Clients -> 0 .. timePool.capacity]
      /\ stampedFor \in [1 .. timePool.capacity -> Clients \cup {NoClient}]
      /\ timePool.capacity \in Nat /\ NoClient \notin Clients
  BY NoClientAssumption, PoolIs DEF TimesInv, TimeTypes
<1>3. /\ at'[c] = "gone" /\ obj'[c] = 0
      /\ \A d \in Clients : d # c => at'[d] = at[d] /\ obj'[d] = obj[d]
  BY <1>1, <1>2
<1>4. Holders' = Holders /\ c \notin Holders
  BY <1>1, <1>3 DEF Holders
<1>5. Connected' = Connected /\ c \notin Connected
  BY <1>1, <1>3 DEF Connected
<1>6. \A d \in Holders : d \in Clients /\ d # c /\ obj'[d] = obj[d]
  BY <1>3, <1>4 DEF Holders
<1>7. HoldInv'
  <2>1. \A a, b \in Holders' : obj'[a] = obj'[b] => a = b
    BY <1>4, <1>6 DEF TimesInv, HoldInv
  <2>2. {obj'[d] : d \in Holders'} = {obj[d] : d \in Holders}
    BY <1>4, <1>6
  <2>3. PICK s : FreeAre(s)
    BY DEF TimesInv, HoldInv
  <2>4. FreeAre(s)'
    BY <1>1, <2>2, <2>3 DEF FreeAre
  <2> QED BY <2>1, <2>4 DEF HoldInv
<1>8. TimeTypes'
  <2>1. obj' \in [Clients -> 0 .. timePool.capacity]
    BY <1>1, <1>2
  <2> QED BY <1>1, <2>1 DEF TimesInv, TimeTypes
<1>9. WorkInv'
  <2>1. \A d \in Connected : d \in Clients /\ d # c
    BY <1>5 DEF Connected
  <2>2. \A d \in Connected' : working'[d] > 0 => obj'[d] # 0
    BY <1>1, <1>3, <1>5, <2>1 DEF TimesInv, WorkInv
  <2>3. \A d \in Clients : at'[d] = "away" => working'[d] = 0
    <3>1. \A d \in Clients : at'[d] = "away" => at[d] = "away"
      BY <1>3
    <3> QED BY <1>1, <3>1 DEF TimesInv, WorkInv
  <2>4. \A w \in Workers :
          pointer'[w] # 0 => /\ picked'[w] \in Clients
                             /\ obj'[picked'[w]] = pointer'[w] \/ at'[picked'[w]] = "gone"
    <3> SUFFICES ASSUME NEW w \in Workers, pointer[w] # 0
                 PROVE  /\ picked[w] \in Clients
                        /\ obj'[picked[w]] = pointer[w] \/ at'[picked[w]] = "gone"
      BY <1>1
    <3>1. picked[w] \in Clients /\ (obj[picked[w]] = pointer[w] \/ at[picked[w]] = "gone")
      BY DEF TimesInv, WorkInv
    <3> QED BY <1>3, <3>1
  <2> QED BY <2>2, <2>3, <2>4 DEF WorkInv
<1>10. TimeIsOwn'
  <2> SUFFICES ASSUME NEW d \in Connected', (working[d] > 0)'
               PROVE  (\/ stampedFor[obj[d]] = d
                       \/ /\ stampedFor[obj[d]] # NoClient
                          /\ at[stampedFor[obj[d]]] \in {"leaving", "freed", "gone"})'
    BY DEF TimeIsOwn
  <2>1. d \in Clients /\ d # c /\ d \in Connected /\ working[d] > 0 /\ obj'[d] = obj[d]
    BY <1>1, <1>3, <1>5 DEF Connected
  <2>2. \/ stampedFor[obj[d]] = d
        \/ /\ stampedFor[obj[d]] # NoClient
           /\ at[stampedFor[obj[d]]] \in {"leaving", "freed", "gone"}
    BY <2>1 DEF TimesInv, TimeIsOwn
  <2>3. obj[d] \in 1 .. timePool.capacity
    BY <1>2, <2>1 DEF TimesInv, WorkInv
  <2>4. CASE stampedFor[obj[d]] # NoClient /\ at[stampedFor[obj[d]]] \in {"leaving", "freed", "gone"}
    <3>1. stampedFor[obj[d]] \in Clients
      BY <1>2, <2>3, <2>4
    <3>2. at'[stampedFor[obj[d]]] \in {"leaving", "freed", "gone"}
      BY <1>3, <2>4, <3>1
    <3> QED BY <1>1, <2>1, <2>4, <3>2
  <2> QED BY <1>1, <2>1, <2>2, <2>4
<1> QED BY <1>7, <1>8, <1>9, <1>10 DEF TimesInv

\* A worker takes a client from a queue.
LEMMA FindStep ==
    ASSUME TimesInv, NEW w \in Workers, FindClientForWork(w)
    PROVE  TimesInv'
<1>1. /\ picked[w] = NoClient
      /\ \/ /\ fastClients # <<>>
            /\ picked' = [picked EXCEPT ![w] = Head(fastClients)]
            /\ fastClients' = Tail(fastClients) /\ otherClients' = otherClients
         \/ /\ otherClients # <<>>
            /\ picked' = [picked EXCEPT ![w] = Head(otherClients)]
            /\ otherClients' = Tail(otherClients) /\ fastClients' = fastClients
      /\ UNCHANGED <<timePool, obj, stampedFor, at, working, pointer>>
  BY DEF FindClientForWork
<1>2. /\ fastClients \in Seq(Clients) /\ otherClients \in Seq(Clients)
      /\ picked \in [Workers -> Clients \cup {NoClient}] /\ NoClient \notin Clients
  BY NoClientAssumption DEF TimesInv, TimeTypes
<1>3. PICK c \in Clients : picked' = [picked EXCEPT ![w] = c]
  BY <1>1, <1>2, HeadTailProperties
<1>4. fastClients' \in Seq(Clients) /\ otherClients' \in Seq(Clients)
  <2>1. CASE fastClients # <<>> /\ fastClients' = Tail(fastClients) /\ otherClients' = otherClients
    BY <1>2, <2>1, HeadTailProperties
  <2>2. CASE otherClients # <<>> /\ otherClients' = Tail(otherClients) /\ fastClients' = fastClients
    BY <1>2, <2>2, HeadTailProperties
  <2> QED BY <1>1, <2>1, <2>2
<1>5. picked' \in [Workers -> Clients \cup {NoClient}]
  BY <1>2, <1>3
<1>6. TimeTypes'
  BY <1>1, <1>4, <1>5 DEF TimesInv, TimeTypes
<1>7. Holders' = Holders /\ Connected' = Connected
  BY <1>1 DEF Holders, Connected
<1>8. HoldInv'
  BY <1>1, <1>7, HoldKept DEF TimesInv
<1>9. \A v \in Workers : pointer[v] # 0 => picked'[v] = picked[v]
  <2>1. pointer[w] = 0
    BY <1>1, <1>2 DEF TimesInv, WorkInv
  <2> QED BY <1>2, <1>3, <2>1
<1>10. WorkInv'
  BY <1>1, <1>7, <1>9 DEF TimesInv, WorkInv
<1>11. TimeIsOwn'
  BY <1>1, <1>7 DEF TimesInv, TimeIsOwn
<1> QED BY <1>6, <1>8, <1>10, <1>11 DEF TimesInv

LEMMA LoadStep ==
    ASSUME TimesInv, NEW w \in Workers, LoadTime(w)
    PROVE  TimesInv'
<1>1. /\ picked[w] # NoClient /\ pointer' = [pointer EXCEPT ![w] = obj[picked[w]]]
      /\ UNCHANGED <<timePool, obj, stampedFor, fastClients, otherClients, at, working, picked>>
  BY DEF LoadTime
<1>2. /\ picked \in [Workers -> Clients \cup {NoClient}]
      /\ pointer \in [Workers -> 0 .. timePool.capacity]
      /\ obj \in [Clients -> 0 .. timePool.capacity]
  BY DEF TimesInv, TimeTypes
<1>3. picked[w] \in Clients /\ obj[picked[w]] \in 0 .. timePool.capacity
  BY <1>1, <1>2
<1>4. pointer' \in [Workers -> 0 .. timePool.capacity]
  BY <1>1, <1>2, <1>3
<1>5. TimeTypes'
  BY <1>1, <1>4 DEF TimesInv, TimeTypes
<1>6. Holders' = Holders /\ Connected' = Connected
  BY <1>1 DEF Holders, Connected
<1>7. HoldInv'
  BY <1>1, <1>6, HoldKept DEF TimesInv
<1>8. \A v \in Workers : pointer'[v] = IF v = w THEN obj[picked[w]] ELSE pointer[v]
  BY <1>1, <1>2
<1>9. WorkInv'
  BY <1>1, <1>3, <1>6, <1>8 DEF TimesInv, WorkInv
<1>10. TimeIsOwn'
  BY <1>1, <1>6 DEF TimesInv, TimeIsOwn
<1> QED BY <1>5, <1>7, <1>9, <1>10 DEF TimesInv


\* The time is stored where the client's TimePoint is or was; only one client
\* has a TimePoint, and the client it was may have is not connected any more.
LEMMA StoreStep ==
    ASSUME TimesInv, NEW w \in Workers, StoreTime(w)
    PROVE  TimesInv'
<1> DEFINE c == picked[w]
           e == pointer[w]
<1>1. /\ e # 0 /\ stampedFor' = [stampedFor EXCEPT ![e] = c]
      /\ working' = IF at[c] = "connected" THEN [working EXCEPT ![c] = @ + 1] ELSE working
      /\ pointer' = [pointer EXCEPT ![w] = 0] /\ picked' = [picked EXCEPT ![w] = NoClient]
      /\ UNCHANGED <<timePool, obj, fastClients, otherClients, at>>
  BY DEF StoreTime
<1>2. /\ at \in [Clients -> {"away", "connected", "leaving", "freed", "gone"}]
      /\ obj \in [Clients -> 0 .. timePool.capacity]
      /\ stampedFor \in [1 .. timePool.capacity -> Clients \cup {NoClient}]
      /\ working \in [Clients -> Nat]
      /\ picked \in [Workers -> Clients \cup {NoClient}]
      /\ pointer \in [Workers -> 0 .. timePool.capacity]
      /\ timePool.capacity \in Nat /\ NoClient \notin Clients
  BY NoClientAssumption, PoolIs DEF TimesInv, TimeTypes
<1>3. c \in Clients /\ (obj[c] = e \/ at[c] = "gone")
  BY <1>1 DEF TimesInv, WorkInv
<1>4. e \in 1 .. timePool.capacity
  BY <1>1, <1>2
<1> HIDE DEF c, e
<1>5. /\ working' \in [Clients -> Nat]
      /\ \A d \in Clients : d # c => working'[d] = working[d]
      /\ at[c] # "connected" => working' = working
  BY <1>1, <1>2, <1>3
<1>6. TimeTypes'
  <2>1. stampedFor' \in [1 .. timePool.capacity -> Clients \cup {NoClient}]
    BY <1>1, <1>2, <1>3, <1>4
  <2>2. /\ picked' \in [Workers -> Clients \cup {NoClient}]
        /\ pointer' \in [Workers -> 0 .. timePool.capacity]
    BY <1>1, <1>2
  <2> QED BY <1>1, <1>5, <2>1, <2>2 DEF TimesInv, TimeTypes
<1>7. Holders' = Holders /\ Connected' = Connected
  BY <1>1 DEF Holders, Connected
<1>8. HoldInv'
  BY <1>1, <1>7, HoldKept DEF TimesInv
<1>9. at[c] = "connected" => obj[c] = e
  BY <1>3
<1>10. WorkInv'
  <2>1. \A d \in Connected' : working'[d] > 0 => obj'[d] # 0
    <3> SUFFICES ASSUME NEW d \in Connected, working'[d] > 0 PROVE obj[d] # 0
      BY <1>1, <1>7
    <3>1. CASE d = c
      BY <1>1, <1>9, <3>1 DEF Connected
    <3>2. CASE d # c
      BY <1>5, <3>2 DEF TimesInv, WorkInv, Connected
    <3> QED BY <3>1, <3>2
  <2>2. \A d \in Clients : at'[d] = "away" => working'[d] = 0
    <3> SUFFICES ASSUME NEW d \in Clients, at[d] = "away" PROVE working'[d] = 0
      BY <1>1
    <3>1. working[d] = 0
      BY DEF TimesInv, WorkInv
    <3> QED BY <1>5, <3>1
  <2>3. \A v \in Workers : pointer'[v] # 0 => v # w /\ pointer'[v] = pointer[v] /\ picked'[v] = picked[v]
    BY <1>1, <1>2
  <2>4. \A v \in Workers :
          pointer'[v] # 0 => /\ picked'[v] \in Clients
                             /\ obj'[picked'[v]] = pointer'[v] \/ at'[picked'[v]] = "gone"
    BY <1>1, <2>3 DEF TimesInv, WorkInv
  <2> QED BY <2>1, <2>2, <2>4 DEF WorkInv
<1>11. TimeIsOwn'
  <2> SUFFICES ASSUME NEW d \in Connected', (working[d] > 0)'
               PROVE  (\/ stampedFor[obj[d]] = d
                       \/ /\ stampedFor[obj[d]] # NoClient
                          /\ at[stampedFor[obj[d]]] \in {"leaving", "freed", "gone"})'
    BY DEF TimeIsOwn
  <2>1. d \in Clients /\ d \in Connected /\ at[d] = "connected"
    BY <1>7 DEF Connected
  <2>2. obj[d] \in 1 .. timePool.capacity
    <3>1. obj'[d] # 0
      BY <1>10 DEF WorkInv
    <3> QED BY <1>1, <1>2, <2>1, <3>1
  <2>3. CASE obj[d] = e
    <3>1. stampedFor'[obj[d]] = c
      BY <1>1, <1>2, <2>2, <2>3
    <3>2. CASE c \in Holders
      <4>1. d \in Holders
        BY <2>1, <2>2, <1>2 DEF Holders
      <4>2. obj[c] = e \/ at[c] = "gone"
        BY <1>3
      <4>3. obj[c] = e => c = d
        BY <2>3, <3>2, <4>1 DEF TimesInv, HoldInv
      <4> QED BY <1>1, <1>2, <1>3, <3>1, <4>2, <4>3
    <3>3. CASE c \notin Holders
      <4>1. at[c] \in {"freed", "gone"}
        BY <1>2, <1>3, <1>4, <3>3 DEF Holders
      <4> QED BY <1>1, <1>2, <1>3, <3>1, <4>1
    <3> QED BY <3>2, <3>3
  <2>4. CASE obj[d] # e
    <3>1. stampedFor'[obj[d]] = stampedFor[obj[d]]
      BY <1>1, <1>2, <2>2, <2>4
    <3>2. d # c
      BY <1>9, <2>1, <2>4
    <3>3. working[d] > 0
      BY <1>5, <2>1, <3>2
    <3>4. \/ stampedFor[obj[d]] = d
          \/ /\ stampedFor[obj[d]] # NoClient
             /\ at[stampedFor[obj[d]]] \in {"leaving", "freed", "gone"}
      BY <2>1, <3>3 DEF TimesInv, TimeIsOwn
    <3> QED BY <1>1, <3>1, <3>4
  <2> QED BY <2>3, <2>4
<1> QED BY <1>6, <1>8, <1>10, <1>11 DEF TimesInv

\* The TimePoint of a new client was free or did not exist.
LEMMA NewTimeStep ==
    ASSUME TimesInv, NEW c \in Clients, at[c] = "connected", obj[c] = 0, NewTime(c),
           UNCHANGED <<at, working, picked, pointer, fastClients>>,
           otherClients' \in Seq(Clients)
    PROVE  TimesInv'
<1> DEFINE e == Allocated(timePool)
           cap == timePool.capacity
<1>1. /\ timePool' = PoolAlloc(timePool) /\ obj' = [obj EXCEPT ![c] = e]
      /\ stampedFor' = [x \in 1 .. timePool'.capacity |->
                          IF x = obj'[c] \/ x > cap THEN NoClient ELSE stampedFor[x]]
  BY DEF NewTime
<1>2. /\ at \in [Clients -> {"away", "connected", "leaving", "freed", "gone"}]
      /\ obj \in [Clients -> 0 .. cap]
      /\ stampedFor \in [1 .. cap -> Clients \cup {NoClient}]
      /\ working \in [Clients -> Nat]
      /\ picked \in [Workers -> Clients \cup {NoClient}]
      /\ pointer \in [Workers -> 0 .. cap]
      /\ cap \in Nat /\ NoClient \notin Clients /\ PoolOK(timePool)
  BY NoClientAssumption, PoolIs DEF TimesInv, TimeTypes
<1>3. PICK s : Chain(timePool, s) /\ ToSet(s) = (1 .. cap) \ {obj[d] : d \in Holders}
  BY DEF TimesInv, HoldInv, FreeAre
<1>4. PICK t : /\ PoolOK(timePool') /\ timePool'.capacity \in Nat /\ timePool'.capacity >= cap
               /\ e \in 1 .. timePool'.capacity /\ (e \in ToSet(s) \/ e > cap)
               /\ Chain(timePool', t)
               /\ ToSet(t) = (ToSet(s) \cup (cap + 1) .. timePool'.capacity) \ {e}
  <2>1. LET q == PoolAlloc(timePool) IN
        /\ PoolOK(q) /\ q.capacity \in Nat /\ q.capacity >= cap
        /\ e \in 1 .. q.capacity /\ (e \in ToSet(s) \/ e > cap)
        /\ \E t : /\ Chain(q, t)
                  /\ ToSet(t) = (ToSet(s) \cup (cap + 1) .. q.capacity) \ {e}
    BY <1>2, <1>3, AllocIs
  <2> QED BY <1>1, <2>1
<1> HIDE DEF e, cap
<1>5. obj'[c] = e /\ \A d \in Clients : d # c => obj'[d] = obj[d]
  BY <1>1, <1>2
<1>6. e # 0 /\ Holders' = Holders \cup {c} /\ c \notin Holders
  <2>1. e # 0
    BY <1>4
  <2> QED BY <1>5, <2>1 DEF Holders
<1>7. \A d \in Holders : d \in Clients /\ d # c /\ obj'[d] = obj[d] /\ obj[d] \in 1 .. cap
  BY <1>2, <1>5, <1>6 DEF Holders
<1>8. \A d \in Holders : obj[d] # e
  BY <1>2, <1>3, <1>4, <1>7
<1>9. HoldInv'
  <2>1. \A a, b \in Holders' : obj'[a] = obj'[b] => a = b
    BY <1>5, <1>6, <1>7, <1>8 DEF TimesInv, HoldInv
  <2>2. {obj'[d] : d \in Holders'} = {obj[d] : d \in Holders} \cup {e}
    BY <1>5, <1>6, <1>7
  <2>3. ToSet(t) = (1 .. timePool'.capacity) \ {obj'[d] : d \in Holders'}
    <3>1. 1 .. timePool'.capacity = (1 .. cap) \cup (cap + 1) .. timePool'.capacity
      BY <1>2, <1>4
    <3>2. \A x \in (cap + 1) .. timePool'.capacity : x \notin {obj[d] : d \in Holders}
      BY <1>2, <1>7
    <3> QED BY <1>3, <1>4, <2>2, <3>1, <3>2
  <2>4. FreeAre(t)'
    BY <1>4, <2>3 DEF FreeAre
  <2> QED BY <2>1, <2>4 DEF HoldInv
<1>10. TimeTypes'
  <2>1. obj' \in [Clients -> 0 .. timePool'.capacity]
    BY <1>1, <1>2, <1>4
  <2>2. pointer' \in [Workers -> 0 .. timePool'.capacity]
    BY <1>2, <1>4
  <2>3. stampedFor' \in [1 .. timePool'.capacity -> Clients \cup {NoClient}]
    BY <1>1, <1>2, <1>4
  <2> QED BY <1>2, <1>4, <2>1, <2>2, <2>3 DEF TimesInv, TimeTypes
<1>11. Connected' = Connected
  BY DEF Connected
<1>12. working[c] = 0
  <2>1. c \in Connected
    BY DEF Connected
  <2> QED BY <1>2, <2>1 DEF TimesInv, WorkInv
<1>13. WorkInv'
  <2>1. \A d \in Connected' : working'[d] > 0 => obj'[d] # 0
    <3> SUFFICES ASSUME NEW d \in Connected, working[d] > 0 PROVE obj'[d] # 0
      BY <1>11
    <3>1. d # c /\ d \in Clients /\ obj[d] # 0
      BY <1>12 DEF TimesInv, WorkInv, Connected
    <3> QED BY <1>5, <3>1
  <2>2. \A v \in Workers :
          pointer'[v] # 0 => /\ picked'[v] \in Clients
                             /\ obj'[picked'[v]] = pointer'[v] \/ at'[picked'[v]] = "gone"
    <3> SUFFICES ASSUME NEW v \in Workers, pointer[v] # 0
                 PROVE  /\ picked[v] \in Clients
                        /\ obj'[picked[v]] = pointer[v] \/ at[picked[v]] = "gone"
      OBVIOUS
    <3>1. picked[v] \in Clients /\ (obj[picked[v]] = pointer[v] \/ at[picked[v]] = "gone")
      BY DEF TimesInv, WorkInv
    <3> QED BY <1>5, <3>1
  <2> QED BY <2>1, <2>2 DEF TimesInv, WorkInv
<1>14. TimeIsOwn'
  <2> SUFFICES ASSUME NEW d \in Connected', (working[d] > 0)'
               PROVE  (\/ stampedFor[obj[d]] = d
                       \/ /\ stampedFor[obj[d]] # NoClient
                          /\ at[stampedFor[obj[d]]] \in {"leaving", "freed", "gone"})'
    BY DEF TimeIsOwn
  <2>1. d \in Clients /\ d \in Connected /\ at[d] = "connected" /\ working[d] > 0 /\ d # c
    BY <1>11, <1>12 DEF Connected
  <2>2. d \in Holders
    BY <2>1 DEF TimesInv, WorkInv, Holders
  <2>3. obj'[d] = obj[d] /\ obj[d] \in 1 .. cap /\ obj[d] # e
    BY <1>7, <1>8, <2>2
  <2>4. stampedFor'[obj[d]] = stampedFor[obj[d]]
    <3>1. obj[d] \in 1 .. timePool'.capacity /\ ~(obj[d] > cap)
      BY <1>2, <1>4, <2>3
    <3> QED BY <1>1, <1>5, <2>3, <3>1
  <2>5. \/ stampedFor[obj[d]] = d
        \/ /\ stampedFor[obj[d]] # NoClient
           /\ at[stampedFor[obj[d]]] \in {"leaving", "freed", "gone"}
    BY <2>1 DEF TimesInv, TimeIsOwn
  <2> QED BY <2>3, <2>4, <2>5
<1> QED BY <1>9, <1>10, <1>13, <1>14 DEF TimesInv

LEMMA AddStep ==
    ASSUME TimesInv, NEW c \in Clients, AddClient(c)
    PROVE  TimesInv'
<1>1. /\ at[c] = "connected" /\ Construct(c) /\ otherClients' \in Push(otherClients, c, QueueCalls(c))
      /\ UNCHANGED <<fastClients, at, working, picked, pointer>>
  BY DEF AddClient
<1>2. otherClients' \in Seq(Clients)
  BY <1>1, PushClient DEF TimesInv, TimeTypes
<1>3. CASE obj[c] = 0 /\ NewTime(c)
  BY <1>1, <1>2, <1>3, NewTimeStep
<1>4. CASE UNCHANGED <<timePool, obj, stampedFor>>
  <2>1. TimeTypes'
    BY <1>1, <1>2, <1>4 DEF TimesInv, TimeTypes
  <2>2. \A d \in Clients : working'[d] \in Nat /\ working'[d] <= working[d]
    BY <1>1 DEF TimesInv, TimeTypes
  <2>3. HoldInv' /\ WorkInv' /\ TimeIsOwn'
    BY <1>1, <1>4, <2>2, LeavingKeeps
  <2> QED BY <2>1, <2>3 DEF TimesInv
<1> QED BY <1>1, <1>3, <1>4 DEF Construct

LEMMA TimesStep == TimesInv /\ [Next]_vars => TimesInv'
<1> SUFFICES ASSUME TimesInv, [Next]_vars PROVE TimesInv'
  OBVIOUS
<1>1. ASSUME NEW c \in Clients, Connect(c) PROVE TimesInv'
  BY <1>1, ConnectStep
<1>2. ASSUME NEW c \in Clients, AddClient(c) PROVE TimesInv'
  BY <1>2, AddStep
<1>3. ASSUME NEW c \in Clients, Leave(c) PROVE TimesInv'
  BY <1>3, LeaveStep
<1>4. ASSUME NEW c \in Clients, FreeTime(c) PROVE TimesInv'
  BY <1>4, FreeStep
<1>5. ASSUME NEW c \in Clients, NullTime(c) PROVE TimesInv'
  BY <1>5, NullStep
<1>6. ASSUME NEW c \in Clients, NEW time \in Times, EvaluateClient(c, time) PROVE TimesInv'
  BY <1>6, EvaluateStep
<1>7. ASSUME NEW w \in Workers, FindClientForWork(w) PROVE TimesInv'
  BY <1>7, FindStep
<1>8. ASSUME NEW w \in Workers, LoadTime(w) PROVE TimesInv'
  BY <1>8, LoadStep
<1>9. ASSUME NEW w \in Workers, StoreTime(w) PROVE TimesInv'
  BY <1>9, StoreStep
<1>10. CASE UNCHANGED vars
  <2>1. UNCHANGED <<timePool, obj, stampedFor, fastClients, otherClients, at, working,
                    picked, pointer>>
    BY <1>10 DEF vars
  <2>2. Holders' = Holders /\ Connected' = Connected
    BY <2>1 DEF Holders, Connected
  <2>3. HoldInv'
    BY <2>1, <2>2, HoldKept DEF TimesInv
  <2>4. TimeTypes' /\ WorkInv' /\ TimeIsOwn'
    BY <2>1, <2>2 DEF TimesInv, TimeTypes, WorkInv, TimeIsOwn
  <2> QED BY <2>3, <2>4 DEF TimesInv
<1> QED BY <1>1, <1>2, <1>3, <1>4, <1>5, <1>6, <1>7, <1>8, <1>9, <1>10 DEF Next

\* TimesInv is an invariant of the clients and their times.
THEOREM TimesTheorem == Spec => []TimesInv
BY TimesInit, TimesStep, PTL DEF Spec

\* A client is judged by the time since it was given work itself, unless a worker
\* that had taken up a client that is leaving has stored through its old pointer.
THEOREM TimeIsOwnTheorem == Spec => []TimeIsOwn
<1>1. TimesInv => TimeIsOwn
  BY DEF TimesInv
<1> QED BY <1>1, TimesTheorem, PTL


\* No two clients have one TimePoint, so there are as many of them as clients.
LEMMA HeldOnce ==
    ASSUME TimesInv
    PROVE  Cardinality({obj[c] : c \in Holders}) = Cardinality(Holders)
<1> DEFINE held == {obj[c] : c \in Holders}
           f == [c \in Holders |-> obj[c]]
<1>1. \A c \in Holders : obj[c] \in 1 .. timePool.capacity
  BY PoolIs DEF TimesInv, TimeTypes, Holders
<1>2. \A c, d \in Holders : obj[c] = obj[d] => c = d
  BY DEF TimesInv, HoldInv
<1>3. f \in Injection(Holders, 1 .. timePool.capacity)
  BY <1>1, <1>2 DEF Injection, IsInjective
<1>4. IsFiniteSet(Holders)
  <2>1. IsFiniteSet(1 .. timePool.capacity)
    <3>1. 1 \in Int /\ timePool.capacity \in Int
      BY PoolIs DEF TimesInv, TimeTypes
    <3> QED BY <3>1, FS_Interval
  <2> QED BY <1>3, <2>1, FS_Injection
<1>5. f \in Bijection(Holders, held)
  BY <1>2 DEF Bijection, Injection, IsInjective, Surjection
<1>6. ExistsBijection(Holders, held)
  BY <1>5 DEF ExistsBijection
<1> HIDE DEF held
<1>7. Cardinality(held) = Cardinality(Holders)
  BY <1>4, <1>6, FS_Bijection
<1> QED BY <1>7 DEF held

LEMMA TimesApart == TimesInv => TimePointsApart
<1> SUFFICES ASSUME TimesInv PROVE TimePointsApart
  OBVIOUS
<1>1. PICK s : /\ Chain(timePool, s)
               /\ ToSet(s) = (1 .. timePool.capacity) \ {obj[c] : c \in Holders}
  BY DEF TimesInv, HoldInv, FreeAre
<1>2. FreeList(timePool) = s
  BY <1>1, ChainIsList DEF TimesInv, TimeTypes
<1>3. IsInjective(s)
  BY <1>1 DEF Chain
<1>4. {obj[c] : c \in Holders} \subseteq 1 .. timePool.capacity
  BY PoolIs DEF TimesInv, TimeTypes, Holders
<1> QED BY <1>1, <1>2, <1>3, <1>4, HeldOnce DEF TimePointsApart

\* Whatever is constructed and freed, in whatever order, and however often the
\* pool grows, a TimePoint is free, once, or one client's.
THEOREM TimePointsTheorem == Spec => []TimePointsApart
BY TimesTheorem, TimesApart, PTL

-----------------------------------------------------------------------------
(* Sums *)

Some(S) == CHOOSE x \in S : TRUE

\* The function the sum of f over S is a value of: for each subset what the
\* values of its elements, taken in some order, add up to.
AddsUp(sum, f, S) ==
    sum = [T \in SUBSET S |-> IF T = {} THEN 0 ELSE f[Some(T)] + sum[T \ {Some(T)}]]
SumOn(f, S) == CHOOSE sum : AddsUp(sum, f, S)

LEMMA SumIs == \A f, S : SumFunctionOnSet(f, S) = SumOn(f, S)[S]
BY DEF SumFunctionOnSet, FoldFunctionOnSet, MapThenFoldSet, SumOn, AddsUp, Some

\* Among sets of subsets of a finite set there is one without smaller ones.
LEMMA SmallestSet ==
    ASSUME NEW S, IsFiniteSet(S), NEW B \in SUBSET (SUBSET S), B # {}
    PROVE  \E T \in B : \A U \in SUBSET T : U # T => U \notin B
<1>1. IsWellFoundedOn(StrictSubsetOrdering(S), SUBSET S)
  BY FS_StrictSubsetOrderingWellFounded, FS_FiniteSubsetsOfFinite
<1>2. PICK T \in B : \A U \in B : <<U, T>> \notin StrictSubsetOrdering(S)
  BY <1>1, WFMin
<1>3. ASSUME NEW U \in SUBSET T, U # T, U \in B PROVE FALSE
  <2>1. <<U, T>> \in (SUBSET S) \X (SUBSET S) /\ <<U, T>>[1] = U /\ <<U, T>>[2] = T
    BY <1>3
  <2> QED BY <1>2, <1>3, <2>1 DEF StrictSubsetOrdering
<1> QED BY <1>3

\* Two such functions agree where both are defined.
LEMMA SumUnique ==
    ASSUME NEW v, NEW S, NEW U, IsFiniteSet(S), IsFiniteSet(U),
           NEW f, NEW g, AddsUp(f, v, S), AddsUp(g, v, U),
           NEW T, T \in SUBSET S, T \in SUBSET U
    PROVE  f[T] = g[T]
<1> DEFINE B == {V \in SUBSET T : f[V] # g[V]}
<1> SUFFICES ASSUME B # {} PROVE FALSE
  OBVIOUS
<1>1. IsFiniteSet(T) /\ T \subseteq S /\ T \subseteq U
  BY FS_Subset
<1>2. PICK V \in B : \A W \in SUBSET V : W # V => W \notin B
  <2>1. B \in SUBSET (SUBSET T)
    OBVIOUS
  <2> HIDE DEF B
  <2> QED BY <1>1, <2>1, SmallestSet
<1>3. V \in SUBSET S /\ V \in SUBSET U /\ V \subseteq T
  BY <1>1, <1>2
<1>4. /\ f[V] = IF V = {} THEN 0 ELSE v[Some(V)] + f[V \ {Some(V)}]
      /\ g[V] = IF V = {} THEN 0 ELSE v[Some(V)] + g[V \ {Some(V)}]
  BY <1>3 DEF AddsUp
<1>5. CASE V = {}
  BY <1>2, <1>4, <1>5
<1>6. CASE V # {}
  <2>1. Some(V) \in V
    BY <1>6 DEF Some
  <2>2. f[V \ {Some(V)}] = g[V \ {Some(V)}]
    BY <1>2, <2>1
  <2> QED BY <1>2, <1>4, <1>6, <2>2
<1> QED BY <1>5, <1>6

LEMMA SumExists ==
    ASSUME NEW f, NEW S, IsFiniteSet(S)
    PROVE  AddsUp(SumOn(f, S), f, S)
<1> DEFINE B == {T \in SUBSET S : ~ \E sum : AddsUp(sum, f, T)}
<1>1. SUFFICES B = {}
  BY DEF SumOn
<1> SUFFICES ASSUME B # {} PROVE FALSE
  OBVIOUS
<1>2. PICK T \in B : \A U \in SUBSET T : U # T => U \notin B
  <2>1. B \in SUBSET (SUBSET S)
    OBVIOUS
  <2> HIDE DEF B
  <2> QED BY <2>1, SmallestSet
<1>3. \A U \in SUBSET T : U # T => AddsUp(SumOn(f, U), f, U)
  BY <1>2 DEF SumOn
<1>4. \A U \in SUBSET T : IsFiniteSet(U)
  BY FS_Subset
<1> DEFINE sum == [U \in SUBSET T |->
                     IF U = {} THEN 0
                     ELSE f[Some(U)] + SumOn(f, U \ {Some(U)})[U \ {Some(U)}]]
<1>5. ASSUME NEW U \in SUBSET T, U # T PROVE sum[U] = SumOn(f, U)[U]
  <2>1. U \in SUBSET U
    OBVIOUS
  <2>2. SumOn(f, U)[U] = IF U = {} THEN 0 ELSE f[Some(U)] + SumOn(f, U)[U \ {Some(U)}]
    BY <1>3, <1>5, <2>1 DEF AddsUp
  <2>3. CASE U = {}
    BY <2>2, <2>3
  <2>4. CASE U # {}
    <3> DEFINE V == U \ {Some(U)}
    <3>1. V \in SUBSET T /\ V # T /\ V \in SUBSET U /\ V \in SUBSET V
      BY <1>5, <2>4 DEF Some
    <3>2. SumOn(f, U)[V] = SumOn(f, V)[V]
      <4> HIDE DEF V
      <4> QED BY <1>3, <1>4, <1>5, <3>1, SumUnique
    <3> QED BY <2>2, <2>4, <3>2
  <2> QED BY <2>3, <2>4
<1>6. ASSUME NEW U \in SUBSET T
      PROVE  sum[U] = IF U = {} THEN 0 ELSE f[Some(U)] + sum[U \ {Some(U)}]
  <2>1. CASE U # {}
    <3>1. Some(U) \in U /\ U \ {Some(U)} \in SUBSET T /\ U \ {Some(U)} # T
      BY <2>1 DEF Some
    <3>2. sum[U \ {Some(U)}] = SumOn(f, U \ {Some(U)})[U \ {Some(U)}]
      BY <1>5, <3>1
    <3>3. sum[U] = f[Some(U)] + SumOn(f, U \ {Some(U)})[U \ {Some(U)}]
      BY <2>1
    <3> QED BY <2>1, <3>2, <3>3
  <2>2. CASE U = {}
    BY <2>2
  <2> QED BY <2>1, <2>2
<1>7. AddsUp(sum, f, T)
  <2>1. sum = [U \in SUBSET T |-> sum[U]]
    OBVIOUS
  <2> HIDE DEF sum
  <2> QED BY <1>6, <2>1 DEF AddsUp
<1> QED BY <1>2, <1>7

\* One element, some, and the rest.
LEMMA SumOfSome ==
    ASSUME NEW f, NEW S, IsFiniteSet(S), S # {}
    PROVE  SumFunctionOnSet(f, S) = f[Some(S)] + SumFunctionOnSet(f, S \ {Some(S)})
<1> DEFINE T == S \ {Some(S)}
<1>1. IsFiniteSet(T) /\ T \in SUBSET S
  BY FS_Subset
<1>2. AddsUp(SumOn(f, S), f, S) /\ AddsUp(SumOn(f, T), f, T)
  BY <1>1, SumExists
<1>3. SumOn(f, S)[S] = f[Some(S)] + SumOn(f, S)[T]
  BY <1>2 DEF AddsUp
<1>4. SumOn(f, S)[T] = SumOn(f, T)[T]
  <2>1. T \in SUBSET S /\ T \in SUBSET T
    BY <1>1
  <2> DEFINE g == SumOn(f, S)
             h == SumOn(f, T)
  <2>2. AddsUp(g, f, S) /\ AddsUp(h, f, T)
    BY <1>2
  <2> HIDE DEF T, g, h
  <2>3. g[T] = h[T]
    BY <1>1, <2>1, <2>2, SumUnique, Z3
  <2> QED BY <2>3 DEF g, h
<1> QED BY <1>3, <1>4, SumIs

LEMMA SumOfNone == \A f : SumFunctionOnSet(f, {}) = 0
<1> SUFFICES ASSUME NEW f PROVE SumFunctionOnSet(f, {}) = 0
  OBVIOUS
<1>1. AddsUp(SumOn(f, {}), f, {})
  BY SumExists, FS_EmptySet
<1> QED BY <1>1, SumIs DEF AddsUp

LEMMA SumIsInt ==
    ASSUME NEW f, NEW S, IsFiniteSet(S), \A x \in S : f[x] \in Int
    PROVE  SumFunctionOnSet(f, S) \in Int
<1> DEFINE B == {T \in SUBSET S : SumFunctionOnSet(f, T) \notin Int}
<1> SUFFICES ASSUME B # {} PROVE FALSE
  OBVIOUS
<1>1. PICK T \in B : \A U \in SUBSET T : U # T => U \notin B
  <2>1. B \in SUBSET (SUBSET S)
    OBVIOUS
  <2> HIDE DEF B
  <2> QED BY <2>1, SmallestSet
<1>2. T # {} /\ IsFiniteSet(T) /\ T \in SUBSET S
  <2>1. SumFunctionOnSet(f, T) \notin Int /\ T \in SUBSET S
    BY <1>1
  <2>2. T # {}
    BY <2>1, SumOfNone
  <2>3. IsFiniteSet(T)
    BY <2>1, FS_Subset
  <2> QED BY <2>1, <2>2, <2>3
<1>3. Some(T) \in T
  BY <1>2 DEF Some
<1>4. SumFunctionOnSet(f, T \ {Some(T)}) \in Int /\ f[Some(T)] \in Int
  BY <1>1, <1>2, <1>3
<1>5. SumFunctionOnSet(f, T) \in Int
  BY <1>2, <1>4, SumOfSome
<1> QED BY <1>1, <1>5

\* Whichever element is taken out.
LEMMA SumOfRest ==
    ASSUME NEW f, NEW S, IsFiniteSet(S), \A x \in S : f[x] \in Int, NEW e \in S
    PROVE  SumFunctionOnSet(f, S) = SumFunctionOnSet(f, S \ {e}) + f[e]
<1> DEFINE Sum(T) == SumFunctionOnSet(f, T)
           B == {T \in SUBSET S : \E x \in T : Sum(T) # Sum(T \ {x}) + f[x]}
<1> SUFFICES ASSUME B # {} PROVE FALSE
  OBVIOUS
<1>1. PICK T \in B : \A U \in SUBSET T : U # T => U \notin B
  <2>1. B \in SUBSET (SUBSET S)
    OBVIOUS
  <2> HIDE DEF B
  <2> QED BY <2>1, SmallestSet
<1>2. PICK x \in T : Sum(T) # Sum(T \ {x}) + f[x]
  BY <1>1
<1> DEFINE p == Some(T)
<1>3. /\ T \in SUBSET S /\ IsFiniteSet(T) /\ T # {} /\ p \in T
      /\ \A U \in SUBSET T : Sum(U) \in Int
      /\ \A y \in T : f[y] \in Int
  <2>1. T \in SUBSET S /\ IsFiniteSet(T) /\ T # {}
    BY <1>1, <1>2, FS_Subset
  <2>2. \A U \in SUBSET T : Sum(U) \in Int
    BY <2>1, SumIsInt, FS_Subset
  <2> QED BY <2>1, <2>2 DEF Some
<1>4. Sum(T) = f[p] + Sum(T \ {p})
  BY <1>3, SumOfSome
<1> HIDE DEF p
<1>5. x # p
  <2>1. f[p] + Sum(T \ {p}) = Sum(T \ {p}) + f[p]
    BY <1>3
  <2> QED BY <1>2, <1>4, <2>1
<1>6. Sum(T \ {p}) = Sum((T \ {p}) \ {x}) + f[x]
  BY <1>1, <1>3, <1>5
<1>7. Sum(T \ {x}) = Sum((T \ {x}) \ {p}) + f[p]
  BY <1>1, <1>3, <1>5
<1>8. (T \ {p}) \ {x} = (T \ {x}) \ {p}
  OBVIOUS
<1>9. Sum((T \ {p}) \ {x}) \in Int /\ f[x] \in Int /\ f[p] \in Int
  BY <1>3
<1>10. Sum(T) = Sum(T \ {x}) + f[x]
  <2>1. \A n, i, j \in Int : i + (n + j) = (n + i) + j
    OBVIOUS
  <2>2. Sum(T \ {x}) = Sum((T \ {p}) \ {x}) + f[p]
    BY <1>7, <1>8, Zenon
  <2>3. Sum(T) = f[p] + (Sum((T \ {p}) \ {x}) + f[x])
    BY <1>4, <1>6, Zenon
  <2>4. f[p] + (Sum((T \ {p}) \ {x}) + f[x]) = (Sum((T \ {p}) \ {x}) + f[p]) + f[x]
    BY <1>9, <2>1, Zenon
  <2> QED BY <2>2, <2>3, <2>4, Zenon
<1> QED BY <1>2, <1>10

-----------------------------------------------------------------------------
(* Sums of the first values of a sequence *)

\* The first k values of a sequence, added up.
Prefix(f, k) == SumFunctionOnSet(f, 1 .. k)

\* The first k values of f are numbers.
Numbers(f, k) == \A i \in 1 .. k : f[i] \in Int

LEMMA PrefixIs ==
    ASSUME NEW f, NEW k \in Nat, Numbers(f, k)
    PROVE  /\ Prefix(f, k) \in Int
           /\ Prefix(f, 0) = 0
           /\ k # 0 => Prefix(f, k) = Prefix(f, k - 1) + f[k]
<1>1. IsFiniteSet(1 .. k)
  <2>1. 1 \in Int /\ k \in Int
    OBVIOUS
  <2> QED BY <2>1, FS_Interval
<1>2. \A i \in 1 .. k : f[i] \in Int
  BY DEF Numbers
<1>3. Prefix(f, k) \in Int
  BY <1>1, <1>2, SumIsInt DEF Prefix
<1>4. Prefix(f, 0) = 0
  <2>1. 1 .. 0 = {}
    OBVIOUS
  <2> QED BY <2>1, SumOfNone DEF Prefix
<1>5. ASSUME k # 0 PROVE Prefix(f, k) = Prefix(f, k - 1) + f[k]
  <2>1. k \in 1 .. k /\ (1 .. k) \ {k} = 1 .. (k - 1)
    BY <1>5
  <2>2. SumFunctionOnSet(f, 1 .. k) = SumFunctionOnSet(f, (1 .. k) \ {k}) + f[k]
    BY <1>1, <1>2, <2>1, SumOfRest
  <2> QED BY <2>1, <2>2 DEF Prefix
<1> QED BY <1>3, <1>4, <1>5

LEMMA TotalIs ==
    ASSUME NEW f, NEW n \in Nat, DOMAIN f = 1 .. n
    PROVE  Total(f) = Prefix(f, n)
BY DEF Total, SumFunction, Prefix

\* A property of the sums of the first k values that each next value keeps.
LEMMA EveryPrefix ==
    ASSUME NEW n \in Nat, NEW Good \in SUBSET Nat, 0 \in Good,
           \A k \in 1 .. n : k - 1 \in Good => k \in Good
    PROVE  \A k \in 0 .. n : k \in Good
<1> DEFINE Bad == {k \in 0 .. n : k \notin Good}
<1> SUFFICES ASSUME Bad # {} PROVE FALSE
  OBVIOUS
<1>1. Bad \in SUBSET Nat
  OBVIOUS
<1>2. PICK k \in Bad : \A m \in Bad : k <= m
  <2> HIDE DEF Bad
  <2> QED BY <1>1, LeastNumber
<1>3. k \in 1 .. n /\ k - 1 \in 0 .. n /\ k - 1 \notin Bad
  <2>1. k \in 0 .. n /\ k # 0
    BY <1>2
  <2>2. k \in 1 .. n /\ k - 1 \in 0 .. n /\ ~(k <= k - 1)
    BY <2>1
  <2> HIDE DEF Bad
  <2> QED BY <1>2, <2>2
<1>4. k - 1 \in Good
  BY <1>3
<1>5. k \in Good
  BY <1>3, <1>4
<1> QED BY <1>2, <1>5

AreCombined(h, a, f, b, g, c, n) == \A i \in 1 .. n : h[i] = a * f[i] + b * g[i] + c

\* Sums are linear.
LEMMA PrefixAdds ==
    ASSUME NEW n \in Nat, NEW f, NEW g, NEW h, Numbers(f, n), Numbers(g, n),
           NEW a \in Int, NEW b \in Int, NEW c \in Int,
           AreCombined(h, a, f, b, g, c, n)
    PROVE  Prefix(h, n) = a * Prefix(f, n) + b * Prefix(g, n) + c * n
<1>1. /\ \A i \in 1 .. n : f[i] \in Int /\ g[i] \in Int /\ h[i] = a * f[i] + b * g[i] + c
      /\ \A k \in 0 .. n : Numbers(f, k) /\ Numbers(g, k)
  BY DEF Numbers, AreCombined
<1>2. \A i \in 1 .. n : h[i] \in Int
  <2>1. \A x, y \in Int : a * x + b * y + c \in Int
    OBVIOUS
  <2> QED BY <1>1, <2>1
<1>3. \A k \in 0 .. n : Numbers(h, k)
  BY <1>2 DEF Numbers
<1> DEFINE Good == {k \in Nat : k <= n /\ Prefix(h, k) = a * Prefix(f, k) + b * Prefix(g, k) + c * k}
<1>4. 0 \in Good
  <2>1. Prefix(h, 0) = 0 /\ Prefix(f, 0) = 0 /\ Prefix(g, 0) = 0
    BY <1>1, <1>3, PrefixIs
  <2>2. 0 = a * 0 + b * 0 + c * 0
    OBVIOUS
  <2> QED BY <2>1, <2>2
<1>5. ASSUME NEW k \in 1 .. n, k - 1 \in Good PROVE k \in Good
  <2>1. k \in Nat /\ k # 0 /\ k - 1 \in Nat /\ k <= n
    BY <1>5
  <2>2. /\ Prefix(f, k) = Prefix(f, k - 1) + f[k] /\ Prefix(f, k - 1) \in Int
        /\ Prefix(g, k) = Prefix(g, k - 1) + g[k] /\ Prefix(g, k - 1) \in Int
        /\ Prefix(h, k) = Prefix(h, k - 1) + h[k] /\ Prefix(h, k - 1) \in Int
    BY <1>1, <1>3, <2>1, PrefixIs
  <2>3. Prefix(h, k - 1) = a * Prefix(f, k - 1) + b * Prefix(g, k - 1) + c * (k - 1)
    BY <1>5
  <2>4. h[k] = a * f[k] + b * g[k] + c /\ f[k] \in Int /\ g[k] \in Int
    BY <1>1
  <2>5. \A p, q, x, y \in Int :
          (a * p + b * q + c * (k - 1)) + (a * x + b * y + c) = a * (p + x) + b * (q + y) + c * k
    BY <2>1
  <2>6. Prefix(h, k) = a * Prefix(f, k) + b * Prefix(g, k) + c * k
    BY <2>2, <2>3, <2>4, <2>5
  <2> QED BY <2>1, <2>6
<1>6. Good \in SUBSET Nat /\ n \in 0 .. n
  OBVIOUS
<1>7. n \in Good
  <2> HIDE DEF Good
  <2> QED BY <1>4, <1>5, <1>6, EveryPrefix
<1> QED BY <1>7

\* The first n values, and those from there on.
LEMMA PrefixSplits ==
    ASSUME NEW n \in Nat, NEW m \in Nat, NEW f, NEW g, Numbers(f, n + m),
           \A i \in 1 .. m : g[i] = f[n + i]
    PROVE  Prefix(f, n + m) = Prefix(f, n) + Prefix(g, m)
<1>1. \A k \in 0 .. m : n + k \in Nat /\ Numbers(f, n + k) /\ Numbers(g, k)
  <2> SUFFICES ASSUME NEW k \in 0 .. m PROVE n + k \in Nat /\ Numbers(f, n + k) /\ Numbers(g, k)
    OBVIOUS
  <2>1. \A i \in 1 .. (n + k) : i \in 1 .. (n + m)
    OBVIOUS
  <2>2. \A i \in 1 .. k : i \in 1 .. m /\ n + i \in 1 .. (n + m)
    OBVIOUS
  <2> QED BY <2>1, <2>2 DEF Numbers
<1> DEFINE Good == {k \in Nat : k <= m /\ Prefix(f, n + k) = Prefix(f, n) + Prefix(g, k)}
<1>2. 0 \in Good
  <2>1. Prefix(g, 0) = 0 /\ n + 0 = n /\ 0 \in 0 .. m
    BY <1>1, PrefixIs
  <2>2. Prefix(f, n) \in Int
    BY <1>1, <2>1, PrefixIs
  <2> QED BY <2>1, <2>2
<1>3. ASSUME NEW k \in 1 .. m, k - 1 \in Good PROVE k \in Good
  <2>1. /\ k \in Nat /\ k # 0 /\ k - 1 \in Nat /\ k <= m
        /\ n + k \in Nat /\ n + k # 0 /\ n + k - 1 = n + (k - 1)
        /\ k \in 0 .. m /\ k - 1 \in 0 .. m /\ 0 \in 0 .. m /\ n + 0 = n
    BY <1>3
  <2>2. /\ Prefix(f, n + k) = Prefix(f, n + k - 1) + f[n + k]
        /\ Prefix(g, k) = Prefix(g, k - 1) + g[k]
    BY <1>1, <2>1, PrefixIs
  <2>3. Prefix(f, n) \in Int /\ Prefix(g, k - 1) \in Int
    BY <1>1, <2>1, PrefixIs
  <2>4. g[k] = f[n + k] /\ g[k] \in Int
    <3>1. k \in 1 .. k
      BY <2>1
    <3> QED BY <1>1, <2>1, <3>1 DEF Numbers
  <2>5. Prefix(f, n + (k - 1)) = Prefix(f, n) + Prefix(g, k - 1)
    BY <1>3
  <2>6. \A x, y, z \in Int : (x + y) + z = x + (y + z)
    OBVIOUS
  <2>7. Prefix(f, n + k) = Prefix(f, n) + Prefix(g, k)
    BY <2>1, <2>2, <2>3, <2>4, <2>5, <2>6
  <2> QED BY <2>1, <2>7
<1>4. Good \in SUBSET Nat /\ m \in 0 .. m
  OBVIOUS
<1>5. m \in Good
  <2> HIDE DEF Good
  <2> QED BY <1>2, <1>3, <1>4, EveryPrefix
<1> QED BY <1>5

\* Values that are nowhere negative, and at least c on P.
LEMMA PrefixAtLeast ==
    ASSUME NEW n \in Nat, NEW f, NEW P, NEW c \in Nat,
           \A i \in 1 .. n : f[i] \in Nat,
           \A i \in (1 .. n) \cap P : f[i] >= c
    PROVE  /\ Prefix(f, n) >= Cardinality((1 .. n) \cap P) * c
           /\ Prefix(f, n) \in Nat /\ Cardinality((1 .. n) \cap P) \in 0 .. n
<1> DEFINE Of(k) == (1 .. k) \cap P
           Good == {k \in Nat : /\ k <= n /\ Cardinality(Of(k)) \in 0 .. k
                                /\ Prefix(f, k) \in Nat /\ Prefix(f, k) >= Cardinality(Of(k)) * c}
<1>1. \A k \in 0 .. n : Numbers(f, k)
  BY DEF Numbers
<1>2. 0 \in Good
  <2>1. Of(0) = {}
    OBVIOUS
  <2>2. Cardinality(Of(0)) = 0
    BY <2>1, FS_EmptySet
  <2>3. Prefix(f, 0) = 0
    BY <1>1, PrefixIs
  <2> HIDE DEF Of
  <2>4. 0 \in 0 .. 0 /\ 0 >= 0 * c
    OBVIOUS
  <2> QED BY <2>2, <2>3, <2>4
<1>3. ASSUME NEW k \in 1 .. n, k - 1 \in Good PROVE k \in Good
  <2>1. k \in Nat /\ k # 0 /\ k - 1 \in Nat /\ k <= n
    BY <1>3
  <2>2. Prefix(f, k) = Prefix(f, k - 1) + f[k]
    BY <1>1, <2>1, PrefixIs
  <2>3. IsFiniteSet(Of(k - 1)) /\ k \notin Of(k - 1)
    <3>1. IsFiniteSet(1 .. (k - 1))
      <4>1. 1 \in Int /\ k - 1 \in Int
        BY <2>1
      <4> QED BY <4>1, FS_Interval
    <3> QED BY <2>1, <3>1, FS_Subset
  <2>4. Of(k) = IF k \in P THEN Of(k - 1) \cup {k} ELSE Of(k - 1)
    <3>1. 1 .. k = (1 .. (k - 1)) \cup {k}
      BY <2>1
    <3> QED BY <3>1
  <2> HIDE DEF Of
  <2>5. /\ Prefix(f, k - 1) \in Nat /\ Cardinality(Of(k - 1)) \in 0 .. (k - 1)
        /\ Prefix(f, k - 1) >= Cardinality(Of(k - 1)) * c /\ f[k] \in Nat
    BY <1>3
  <2>6. CASE k \in P
    <3>1. Cardinality(Of(k)) = Cardinality(Of(k - 1)) + 1
      BY <2>3, <2>4, <2>6, FS_AddElement
    <3>2. f[k] >= c
      BY <2>6
    <3>3. \A x, y \in Nat, s \in Nat : x >= s * c /\ y >= c => x + y >= (s + 1) * c
      OBVIOUS
    <3>4. Prefix(f, k) >= Cardinality(Of(k)) * c
      BY <2>2, <2>5, <3>1, <3>2, <3>3
    <3> QED BY <2>1, <2>2, <2>5, <3>1, <3>4
  <2>7. CASE k \notin P
    <3>1. Of(k) = Of(k - 1)
      BY <2>4, <2>7
    <3>2. \A x, y \in Nat, s \in Nat : x >= s * c => x + y >= s * c
      OBVIOUS
    <3>3. Prefix(f, k) >= Cardinality(Of(k)) * c
      BY <2>2, <2>5, <3>1, <3>2
    <3> QED BY <2>1, <2>2, <2>5, <3>1, <3>3
  <2> QED BY <2>6, <2>7
<1>4. Good \in SUBSET Nat /\ n \in 0 .. n
  OBVIOUS
<1>5. n \in Good
  <2> HIDE DEF Good
  <2> QED BY <1>2, <1>3, <1>4, EveryPrefix
<1> QED BY <1>5

Squares(f) == [i \in DOMAIN f |-> f[i] * f[i]]

AreSquares(q, f, n) == \A i \in 1 .. n : q[i] = f[i] * f[i]
AreProducts(h, f, x, y, n) == \A i \in 1 .. n : h[i] = (f[i] - x) * (f[i] - y)
AreMultiples(f, u, n) == \A i \in 1 .. n : \E x \in Nat : f[i] = u * x
AreDifferences(h, f, x, n) == \A i \in 1 .. n : h[i] = f[i] - x

LEMMA PrefixSame ==
    ASSUME NEW n \in Nat, NEW f, NEW g, Numbers(f, n), \A i \in 1 .. n : g[i] = f[i]
    PROVE  Prefix(g, n) = Prefix(f, n)
<1>1. PICK a \in Int, b \in Int, c \in Int : a = 1 /\ b = 0 /\ c = 0
  OBVIOUS
<1>2. AreCombined(g, a, f, b, f, c, n)
  BY <1>1 DEF Numbers, AreCombined
<1>3. Prefix(g, n) = a * Prefix(f, n) + b * Prefix(f, n) + c * n
  BY <1>2, PrefixAdds
<1>4. Prefix(f, n) \in Int
  BY PrefixIs
<1> QED BY <1>1, <1>3, <1>4

LEMMA PrefixMinus ==
    ASSUME NEW n \in Nat, NEW f, NEW h, Numbers(f, n), NEW x \in Int, AreDifferences(h, f, x, n)
    PROVE  Numbers(h, n) /\ Prefix(h, n) = Prefix(f, n) - x * n
<1>1. \A i \in 1 .. n : f[i] \in Int /\ h[i] = f[i] - x
  BY DEF Numbers, AreDifferences
<1>2. PICK a \in Int, b \in Int, c \in Int : a = 1 /\ b = 0 /\ c = 0 - x
  OBVIOUS
<1>3. AreCombined(h, a, f, b, f, c, n)
  BY <1>1, <1>2 DEF AreCombined
<1>4. Prefix(h, n) = a * Prefix(f, n) + b * Prefix(f, n) + c * n
  BY <1>3, PrefixAdds
<1>5. Prefix(f, n) \in Int
  BY PrefixIs
<1>6. \A y \in Int : 1 * y + 0 * y + (0 - x) * n = y - x * n
  OBVIOUS
<1>7. Numbers(h, n)
  BY <1>1 DEF Numbers
<1> QED BY <1>2, <1>4, <1>5, <1>6, <1>7

\* What multiples of u add up to is one.
LEMMA PrefixMultiple ==
    ASSUME NEW n \in Nat, NEW u \in Nat, NEW f, AreMultiples(f, u, n)
    PROVE  \E x \in Nat : Prefix(f, n) = u * x
<1> DEFINE g == [i \in 1 .. n |-> CHOOSE x \in Nat : f[i] = u * x]
<1>1. \A i \in 1 .. n : g[i] \in Nat /\ f[i] = u * g[i]
  BY DEF AreMultiples
<1> HIDE DEF g
<1>2. Numbers(g, n)
  BY <1>1 DEF Numbers
<1>3. PICK b \in Int : b = 0
  OBVIOUS
<1>4. Prefix(f, n) = u * Prefix(g, n) + 0 * Prefix(g, n) + 0 * n
  <2>1. AreCombined(f, u, g, b, g, b, n)
    BY <1>1, <1>3 DEF AreCombined
  <2>2. u \in Int
    OBVIOUS
  <2>3. Prefix(f, n) = u * Prefix(g, n) + b * Prefix(g, n) + b * n
    BY <1>2, <2>1, <2>2, PrefixAdds
  <2> QED BY <1>3, <2>3
<1>5. Prefix(g, n) \in Nat
  <2>1. \A i \in (1 .. n) \cap {} : g[i] >= 0
    OBVIOUS
  <2> QED BY <1>1, <2>1, PrefixAtLeast
<1>6. Prefix(f, n) = u * Prefix(g, n)
  BY <1>4, <1>5
<1> QED BY <1>5, <1>6

\* Products of the differences to two numbers.
LEMMA PrefixProducts ==
    ASSUME NEW n \in Nat, NEW f, NEW q, NEW h, Numbers(f, n), NEW x \in Int, NEW y \in Int,
           AreSquares(q, f, n), AreProducts(h, f, x, y, n)
    PROVE  Prefix(h, n) = Prefix(q, n) - (x + y) * Prefix(f, n) + x * y * n
<1>1. /\ \A i \in 1 .. n : f[i] \in Int /\ q[i] = f[i] * f[i]
      /\ \A i \in 1 .. n : h[i] = (f[i] - x) * (f[i] - y)
  BY DEF Numbers, AreSquares, AreProducts
<1>2. Numbers(q, n)
  BY <1>1 DEF Numbers
<1>3. \A i \in 1 .. n : h[i] = 1 * q[i] + (0 - (x + y)) * f[i] + x * y
  <2>1. \A z \in Int : (z - x) * (z - y) = 1 * (z * z) + (0 - (x + y)) * z + x * y
    OBVIOUS
  <2> QED BY <1>1, <2>1
<1>4. PICK a \in Int, b \in Int, c \in Int : a = 1 /\ b = 0 - (x + y) /\ c = x * y
  OBVIOUS
<1>5. Prefix(h, n) = 1 * Prefix(q, n) + (0 - (x + y)) * Prefix(f, n) + (x * y) * n
  <2>1. AreCombined(h, a, q, b, f, c, n)
    BY <1>3, <1>4 DEF AreCombined
  <2>2. Prefix(h, n) = a * Prefix(q, n) + b * Prefix(f, n) + c * n
    BY <1>2, <2>1, PrefixAdds
  <2> QED BY <1>4, <2>2
<1>6. Prefix(q, n) \in Int /\ Prefix(f, n) \in Int
  BY <1>2, PrefixIs
<1>7. \A v, w \in Int : 1 * v + (0 - (x + y)) * w + (x * y) * n = v - (x + y) * w + x * y * n
  OBVIOUS
<1> QED BY <1>5, <1>6, <1>7

\* Squares of the values, scaled and shifted.
LEMMA PrefixSquares ==
    ASSUME NEW n \in Nat, NEW f, NEW q, NEW g, Numbers(f, n), NEW a \in Int, NEW s \in Int,
           AreSquares(q, f, n),
           \A i \in 1 .. n : g[i] = (a * f[i] + s) * (a * f[i] + s)
    PROVE  Prefix(g, n) = (a * a) * Prefix(q, n) + (2 * a * s) * Prefix(f, n) + (s * s) * n
<1>1. \A i \in 1 .. n : f[i] \in Int /\ q[i] = f[i] * f[i]
  BY DEF Numbers, AreSquares
<1>2. Numbers(q, n)
  BY <1>1 DEF Numbers
<1>3. \A i \in 1 .. n : g[i] = (a * a) * q[i] + (2 * a * s) * f[i] + s * s
  <2>1. \A x \in Int : (a * x + s) * (a * x + s) = (a * a) * (x * x) + (2 * a * s) * x + s * s
    OBVIOUS
  <2> QED BY <1>1, <2>1
<1>4. PICK x \in Int, y \in Int, z \in Int : x = a * a /\ y = 2 * a * s /\ z = s * s
  OBVIOUS
<1>5. AreCombined(g, x, q, y, f, z, n)
  BY <1>3, <1>4 DEF AreCombined
<1>6. Prefix(g, n) = x * Prefix(q, n) + y * Prefix(f, n) + z * n
  BY <1>2, <1>5, PrefixAdds
<1> QED BY <1>4, <1>6

\* Cantelli: of n values that add up to zero, and their squares to s, the p that
\* are off or more are a small part.
LEMMA FewFarOff ==
    ASSUME NEW n \in Nat, NEW f, Numbers(f, n), Prefix(f, n) = 0,
           NEW q, AreSquares(q, f, n),
           NEW P, NEW off \in Nat \ {0}, \A i \in (1 .. n) \cap P : f[i] >= off
    PROVE  LET s == Prefix(q, n)
               p == Cardinality((1 .. n) \cap P)
           IN  s \in Nat /\ p \in 0 .. n /\ p * (n * off * off + s) <= n * s
<1> DEFINE s == Prefix(q, n)
           p == Cardinality((1 .. n) \cap P)
           w == n * off * off + s
           a == n * off
           g == [i \in 1 .. n |-> (a * f[i] + s) * (a * f[i] + s)]
<1>1. \A i \in 1 .. n : f[i] \in Int /\ q[i] = f[i] * f[i]
  BY DEF Numbers, AreSquares
<1>2. \A i \in 1 .. n : q[i] \in Nat
  <2>1. \A x \in Int : x * x \in Nat
    OBVIOUS
  <2> QED BY <1>1, <2>1
<1>3. s \in Nat /\ Numbers(q, n)
  <2>1. \A i \in (1 .. n) \cap {} : q[i] >= 0
    OBVIOUS
  <2>2. Prefix(q, n) \in Nat
    BY <1>2, <2>1, PrefixAtLeast
  <2> QED BY <1>2, <2>2 DEF Numbers
<1>4. a \in Nat /\ w \in Nat /\ w = a * off + s
  <2>1. n * off \in Nat /\ (n * off) * off \in Nat
    OBVIOUS
  <2> HIDE DEF s
  <2> QED BY <1>3, <2>1
<1>5. \A i \in 1 .. n : g[i] = (a * f[i] + s) * (a * f[i] + s)
  OBVIOUS
<1> HIDE DEF s, w, a, g
<1>6. \A i \in 1 .. n : g[i] \in Nat
  <2>1. \A x \in Int : (a * x + s) * (a * x + s) \in Nat
    <3>1. \A x \in Int : a * x + s \in Int
      BY <1>3, <1>4
    <3>2. \A x \in Int : x * x \in Nat
      OBVIOUS
    <3> QED BY <3>1, <3>2
  <2> QED BY <1>1, <1>5, <2>1
<1>7. \A i \in (1 .. n) \cap P : g[i] >= w * w
  <2> SUFFICES ASSUME NEW i \in (1 .. n) \cap P PROVE g[i] >= w * w
    OBVIOUS
  <2>1. f[i] >= off /\ f[i] \in Int
    BY <1>1
  <2>2. \A x \in Int : x >= off => a * x >= a * off
    BY <1>4
  <2>3. a * f[i] + s >= w /\ a * f[i] + s \in Int
    BY <1>3, <1>4, <2>1, <2>2
  <2>4. \A x \in Int : x >= w => x * x >= w * w
    BY <1>4
  <2> QED BY <1>5, <2>3, <2>4
<1>8. w * w \in Nat
  BY <1>4
<1>9. Prefix(g, n) >= p * (w * w) /\ p \in 0 .. n
  BY <1>6, <1>7, <1>8, PrefixAtLeast
<1>10. Prefix(g, n) = n * s * w
  <2>3. Prefix(g, n) = (a * a) * Prefix(q, n) + (2 * a * s) * Prefix(f, n) + (s * s) * n
    <3>1. a \in Int /\ s \in Int
      BY <1>3, <1>4
    <3> QED BY <1>5, <3>1, PrefixSquares
  <2>4. Prefix(g, n) = (a * a) * s + (2 * a * s) * 0 + (s * s) * n
    BY <2>3 DEF s
  <2>5. (a * a) * s + (2 * a * s) * 0 + (s * s) * n = n * s * (n * off * off + s)
    <3>1. \A x \in Nat, y \in Nat, z \in Nat :
            ((x * y) * (x * y)) * z + (2 * (x * y) * z) * 0 + (z * z) * x = x * z * (x * y * y + z)
      OBVIOUS
    <3> QED BY <1>3, <3>1 DEF a
  <2> QED BY <2>4, <2>5 DEF w
<1> HIDE DEF p
<1>11. p * w <= n * s
  <2>1. p * (w * w) <= (n * s) * w
    BY <1>9, <1>10, <1>6
  <2>2. CASE w # 0
    <3>1. \A x, y \in Nat : x * (w * w) <= y * w => x * w <= y
      <4> SUFFICES ASSUME NEW x \in Nat, NEW y \in Nat, ~(x * w <= y) PROVE ~(x * (w * w) <= y * w)
        OBVIOUS
      <4>1. x * w \in Nat /\ x * w >= y + 1
        BY <1>4
      <4>2. \A z \in Nat : z >= y + 1 => z * w >= (y + 1) * w
        BY <1>4
      <4>3. (x * w) * w >= (y + 1) * w /\ (x * w) * w = x * (w * w) /\ (y + 1) * w > y * w
        BY <1>4, <2>2, <4>1, <4>2
      <4> QED BY <1>4, <4>3
    <3>2. p \in Nat /\ n * s \in Nat
      BY <1>3, <1>9
    <3> QED BY <2>1, <3>1, <3>2
  <2>3. CASE w = 0
    <3>1. p * w = 0 /\ n * s \in Nat
      BY <1>3, <1>9, <2>3
    <3> QED BY <3>1
  <2> QED BY <2>2, <2>3
<1> QED BY <1>3, <1>9, <1>11 DEF s, p, w

\* How small a part, when off is k deviations.
LEMMA PartIs ==
    ASSUME NEW n \in Nat \ {0}, NEW p \in Nat, NEW s \in Nat, NEW k \in Nat,
           NEW off \in Nat \ {0}, p * (n * off * off + s) <= n * s
    PROVE  /\ off * off * n >= k * k * s => (1 + k * k) * p <= n
           /\ off * off * n > k * k * s => (1 + k * k) * p < n
<1> DEFINE v == off * off * n
           j == k * k
<1>1. v \in Nat \ {0} /\ j \in Nat
  <2>1. off * off \in Nat \ {0}
    OBVIOUS
  <2>2. \A x, y \in Nat \ {0} : x * y \in Nat \ {0}
    OBVIOUS
  <2> QED BY <2>1, <2>2
<1>2. p * v + p * s <= n * s
  <2>1. n * off * off = v
    OBVIOUS
  <2>2. \A x \in Nat : p * (x + s) = p * x + p * s
    OBVIOUS
  <2> HIDE DEF v
  <2> QED BY <1>1, <2>1, <2>2
<1> HIDE DEF v, j
<1>3. CASE p = 0
  <2>1. (1 + j) * p = 0
    BY <1>1, <1>3
  <2> QED BY <2>1 DEF j
<1>4. CASE p # 0
  <2>1. s # 0
    <3>1. ASSUME s = 0 PROVE FALSE
      <4>1. p * v <= 0
        BY <1>1, <1>2, <3>1
      <4>2. \A x, y \in Nat \ {0} : x * y \in Nat \ {0}
        OBVIOUS
      <4> QED BY <1>1, <1>4, <4>1, <4>2
    <3> QED BY <3>1
  <2>2. \A x, y \in Nat : x * s <= y * s => x <= y
    BY <2>1
  <2>3. \A x, y \in Nat : x * s < y * s => x < y
    BY <2>1
  <2>4. (1 + j) * p \in Nat /\ ((1 + j) * p) * s = p * s + p * (j * s)
    BY <1>1
  <2>5. p * s \in Nat /\ j * s \in Nat /\ p * (j * s) \in Nat /\ p * v \in Nat /\ n * s \in Nat
    BY <1>1
  <2>6. ASSUME v >= j * s PROVE (1 + j) * p <= n
    <3>1. \A x, y \in Nat : x >= y => p * x >= p * y
      OBVIOUS
    <3>2. p * v >= p * (j * s)
      BY <1>1, <2>5, <2>6, <3>1
    <3>3. ((1 + j) * p) * s <= n * s
      BY <1>2, <2>4, <2>5, <3>2
    <3> QED BY <2>2, <2>4, <3>3
  <2>7. ASSUME v > j * s PROVE (1 + j) * p < n
    <3>1. \A x, y \in Nat : x > y => p * x > p * y
      BY <1>4
    <3>2. p * v > p * (j * s)
      BY <1>1, <2>5, <2>7, <3>1
    <3>3. ((1 + j) * p) * s < n * s
      BY <1>2, <2>4, <2>5, <3>2
    <3> QED BY <2>3, <2>4, <3>3
  <2> QED BY <2>6, <2>7 DEF v, j
<1> QED BY <1>3, <1>4

-----------------------------------------------------------------------------
(* Quotients and multiples *)

LEMMA QuotientIs == \A b \in Nat \ {0}, a \in Int : (b * a) \div b = a
<1> SUFFICES ASSUME NEW b \in Nat \ {0}, NEW a \in Int PROVE (b * a) \div b = a
  OBVIOUS
<1>1. PICK x \in Int : x = b * a
  OBVIOUS
<1> DEFINE q == x \div b
<1>2. q \in Int /\ b * q <= x /\ x < b * q + b
  OBVIOUS
<1> HIDE DEF q
<1>3. ~(q < a)
  <2>1. \A y, z \in Int : y <= z => b * y <= b * z
    OBVIOUS
  <2>2. q < a => b * (q + 1) <= b * a
    BY <1>2, <2>1
  <2>3. b * (q + 1) = b * q + b
    BY <1>2
  <2> QED BY <1>1, <1>2, <2>2, <2>3
<1>4. ~(q > a)
  <2>1. \A y, z \in Int : y <= z => b * y <= b * z
    OBVIOUS
  <2>2. q > a => b * (a + 1) <= b * q
    BY <1>2, <2>1
  <2>3. b * (a + 1) = b * a + b
    OBVIOUS
  <2> QED BY <1>1, <1>2, <2>2, <2>3
<1>5. q = a
  BY <1>2, <1>3, <1>4
<1> QED BY <1>1, <1>5 DEF q

LEMMA RemainderIs ==
    ASSUME NEW m \in Nat \ {0}, NEW q \in Nat, NEW t \in Nat, t < m
    PROVE  (q * m + t) % m = t
<1>1. PICK x \in Nat : x = q * m + t
  OBVIOUS
<1> DEFINE d == x \div m
           r == x % m
<1>2. d \in Int /\ r \in Int /\ x = m * d + r /\ 0 <= r /\ r < m
  OBVIOUS
<1> HIDE DEF d, r
<1>3. m * d + r = m * q + t
  BY <1>1, <1>2
<1>4. \A y, z \in Int : y <= z => m * y <= m * z
  OBVIOUS
<1>5. d < q => m * (d + 1) <= m * q
  BY <1>2, <1>4
<1>6. q < d => m * (q + 1) <= m * d
  BY <1>2, <1>4
<1>7. m * (d + 1) = m * d + m /\ m * (q + 1) = m * q + m /\ m * d \in Int /\ m * q \in Int
  BY <1>2
<1>8. d = q
  BY <1>2, <1>3, <1>5, <1>6, <1>7
<1>9. r = t
  BY <1>2, <1>3, <1>7, <1>8
<1> QED BY <1>1, <1>9 DEF r

LEMMA MultipleIs ==
    ASSUME NEW a \in Nat, NEW b \in Nat \ {0}, a % b = 0
    PROVE  \E x \in Nat : a = b * x
<1> DEFINE x == a \div b
<1>1. x \in Int /\ a = b * x + (a % b)
  OBVIOUS
<1> HIDE DEF x
<1>2. a = b * x
  BY <1>1
<1>3. x \in Nat
  <2>1. x < 0 => b * x <= b * (0 - 1)
    <3>1. \A y, z \in Int : y <= z => b * y <= b * z
      OBVIOUS
    <3>2. x < 0 => x <= 0 - 1
      BY <1>1
    <3> QED BY <1>1, <3>1, <3>2
  <2>2. b * (0 - 1) < 0
    OBVIOUS
  <2> QED BY <1>1, <1>2, <2>1, <2>2
<1> QED BY <1>2, <1>3

LEMMA FineUnitIs ==
    ASSUME NEW u, FineUnit(u)
    PROVE  /\ u \in Nat \ {0}
           /\ \A time \in Times : \E x \in Nat : time = u * x
           /\ \A q \in Nat \ {0} :
                 q * maxResults <= MaxAnswers => \E x \in Nat : u = (q * maxResults) * x
<1>1. u \in Nat \ {0}
  BY DEF FineUnit
<1>2. ASSUME NEW time \in Times PROVE \E x \in Nat : time = u * x
  <2>1. time \in Nat /\ time % u = 0
    BY TimesAssumption DEF FineUnit
  <2> QED BY <1>1, <2>1, MultipleIs
<1>3. ASSUME NEW q \in Nat \ {0}, q * maxResults <= MaxAnswers
      PROVE  \E x \in Nat : u = (q * maxResults) * x
  <2>1. PICK m \in Nat \ {0} : m = maxResults
    BY ModelAssumption
  <2>2. PICK n \in Nat \ {0} : n = q * m
    <3>1. \A x, y \in Nat \ {0} : x * y \in Nat \ {0}
      OBVIOUS
    <3> QED BY <3>1
  <2>3. n % m = 0
    <3>1. (q * m + 0) % m = 0
      BY <2>1, RemainderIs
    <3>2. q * m + 0 = n
      BY <2>2
    <3> QED BY <3>1, <3>2
  <2>4. n \in 1 .. MaxAnswers
    BY <1>3, <2>1, <2>2, TimesAssumption
  <2>5. u % n = 0
    BY <2>1, <2>3, <2>4 DEF FineUnit
  <2>6. \E x \in Nat : u = n * x
    BY <1>1, <2>2, <2>5, MultipleIs
  <2> QED BY <2>1, <2>2, <2>6
<1> QED BY <1>1, <1>2, <1>3

-----------------------------------------------------------------------------
(* The mean and the deviation of the times *)

\* What d says of the times r, of which it has those of an unfinished batch.
StatsAre(d, r) ==
    /\ r \in Seq(Times) /\ Len(r) <= MaxAnswers
    /\ d \in [mean : Nat, sqDiff : Int, resultCount : Nat, times : Seq(Times)]
    /\ Len(d.times) < maxResults /\ Len(r) = d.resultCount + Len(d.times)
    /\ \E q \in Nat : d.resultCount = q * maxResults
    /\ \A i \in 1 .. Len(d.times) : d.times[i] = r[d.resultCount + i]
    /\ d.mean * d.resultCount = Prefix(r, d.resultCount)
    /\ d.sqDiff = Prefix(Squares(r), d.resultCount) - d.mean * d.mean * d.resultCount

LEMMA AppendIs ==
    ASSUME NEW r \in Seq(Times), NEW time \in Times
    PROVE  LET s == Append(r, time) IN
           /\ s \in Seq(Times) /\ Len(s) = Len(r) + 1 /\ Len(r) \in Nat
           /\ \A i \in 1 .. Len(r) : s[i] = r[i]
           /\ s[Len(r) + 1] = time
BY AppendProperties, LenProperties

LEMMA SeqNumbers ==
    ASSUME NEW r \in Seq(Times), NEW n \in Nat, n <= Len(r)
    PROVE  /\ Numbers(r, n) /\ Numbers(Squares(r), n)
           /\ \A i \in 1 .. n : r[i] \in Times /\ r[i] \in Nat /\ Squares(r)[i] = r[i] * r[i]
<1>1. DOMAIN r = 1 .. Len(r) /\ Len(r) \in Nat /\ \A i \in 1 .. Len(r) : r[i] \in Times
  BY LenProperties, ElementOfSeq
<1>2. \A i \in 1 .. n : i \in 1 .. Len(r)
  BY <1>1
<1>3. \A i \in 1 .. n : r[i] \in Times /\ r[i] \in Nat /\ Squares(r)[i] = r[i] * r[i]
  BY <1>1, <1>2, TimesAssumption DEF Squares
<1>4. \A x \in Nat : x * x \in Int /\ x \in Int
  OBVIOUS
<1> QED BY <1>3, <1>4 DEF Numbers

\* Values that are the same add up to the same, and their squares do.
LEMMA SeqSame ==
    ASSUME NEW r \in Seq(Times), NEW s \in Seq(Times), NEW n \in Nat, n <= Len(r), n <= Len(s),
           \A i \in 1 .. n : s[i] = r[i]
    PROVE  Prefix(s, n) = Prefix(r, n) /\ Prefix(Squares(s), n) = Prefix(Squares(r), n)
<1>1. /\ Numbers(r, n) /\ Numbers(Squares(r), n)
      /\ \A i \in 1 .. n : Squares(r)[i] = r[i] * r[i]
  BY SeqNumbers
<1>2. \A i \in 1 .. n : Squares(s)[i] = s[i] * s[i]
  BY SeqNumbers
<1>3. \A i \in 1 .. n : Squares(s)[i] = Squares(r)[i]
  BY <1>1, <1>2
<1> QED BY <1>1, <1>3, PrefixSame

Moves(n, old, m, t, k, x) == k = n + m /\ old * n + Prefix(t, m) = k * x

\* A batch t moves the mean to x, when n times had the mean old before.
LEMMA BatchMean ==
    ASSUME NEW n \in Nat, NEW m \in Nat \ {0}, NEW k, NEW old \in Nat, NEW x \in Nat,
           NEW t, Numbers(t, m), Moves(n, old, m, t, k, x),
           NEW h, DOMAIN h = 1 .. m, AreDifferences(h, t, old, m)
    PROVE  old + Total(h) \div k = x
<1>1. m \in Nat /\ old \in Int
  OBVIOUS
<1>2. Total(h) = Prefix(h, m)
  BY <1>1, TotalIs
<1>3. Prefix(h, m) = Prefix(t, m) - old * m
  BY <1>1, PrefixMinus
<1>4. PICK P \in Int : P = Prefix(t, m)
  BY <1>1, PrefixIs
<1>5. P - old * m = k * (x - old)
  <2>1. old * n + P = (n + m) * x /\ k = n + m
    BY <1>4 DEF Moves
  <2>2. P - old * m = (n + m) * (x - old)
    BY <1>1, <2>1
  <2> QED BY <2>1, <2>2
<1>6. k \in Nat \ {0} /\ x - old \in Int /\ old + (x - old) = x
  BY DEF Moves
<1>7. (k * (x - old)) \div k = x - old
  BY <1>6, QuotientIs
<1> QED BY <1>2, <1>3, <1>4, <1>5, <1>6, <1>7

\* The squares of the differences to the old mean, and the products of those to
\* the old and the new one, are the squares of the differences to the new one.
LEMMA BatchSquares ==
    ASSUME NEW n \in Nat, NEW m \in Nat, NEW k, NEW old \in Nat, NEW x \in Nat,
           NEW t, Numbers(t, m), Moves(n, old, m, t, k, x),
           NEW q, AreSquares(q, t, m),
           NEW h, DOMAIN h = 1 .. m, AreProducts(h, t, x, old, m),
           NEW S \in Int
    PROVE  (S - old * old * n) + Total(h) = (S + Prefix(q, m)) - x * x * k
<1>1. Total(h) = Prefix(h, m)
  BY TotalIs
<1>2. PICK P \in Int : P = Prefix(t, m)
  BY PrefixIs
<1>3. PICK Q \in Int : Q = Prefix(q, m)
  <2>1. \A i \in 1 .. m : t[i] \in Int
    BY DEF Numbers
  <2>2. \A i \in 1 .. m : q[i] \in Int
    BY <2>1 DEF AreSquares
  <2>3. Numbers(q, m)
    BY <2>2 DEF Numbers
  <2> QED BY <2>3, PrefixIs
<1>4. x \in Int /\ old \in Int
  OBVIOUS
<1>5. Prefix(h, m) = Q - (x + old) * P + x * old * m
  BY <1>2, <1>3, <1>4, PrefixProducts
<1>6. P = (n + m) * x - old * n
  <2>1. old * n + P = (n + m) * x
    BY <1>2 DEF Moves
  <2> QED BY <2>1
<1>7. (x + old) * P - x * old * m = x * x * (n + m) - old * old * n
  <2>1. (x + old) * ((n + m) * x - old * n) - x * old * m
          = x * x * (n + m) - old * old * n
    OBVIOUS
  <2> QED BY <1>6, <2>1
<1>8. /\ (x + old) * P \in Int /\ x * old * m \in Int
      /\ x * x * (n + m) \in Int /\ old * old * n \in Int
  OBVIOUS
<1>9. \A a, b, c, d \in Int : a - b = c - d => (S - d) + (Q - a + b) = (S + Q) - c
  OBVIOUS
<1>10. (S - old * old * n) + (Q - (x + old) * P + x * old * m) = (S + Q) - x * x * (n + m)
  BY <1>7, <1>8, <1>9
<1> QED BY <1>1, <1>3, <1>5, <1>10 DEF Moves

\* The mean and the deviation of the counted times stay what they are when a time
\* is taken in, and are those of all times when it fills the batch.
LEMMA CalculateIs ==
    ASSUME NEW u, FineUnit(u), NEW d, NEW r, StatsAre(d, r), Len(r) < MaxAnswers,
           NEW time \in Times
    PROVE  StatsAre(Calculate(d, time), Append(r, time))
<1> DEFINE n == d.resultCount
           m == maxResults
           r2 == Append(r, time)
           t2 == Append(d.times, time)
<1>1. /\ r \in Seq(Times) /\ Len(r) \in Nat /\ n \in Nat /\ d.mean \in Nat /\ d.sqDiff \in Int
      /\ d.times \in Seq(Times) /\ Len(d.times) \in Nat
      /\ Len(d.times) < m /\ Len(r) = n + Len(d.times)
      /\ \A i \in 1 .. Len(d.times) : d.times[i] = r[n + i]
      /\ d.mean * n = Prefix(r, n)
      /\ d.sqDiff = Prefix(Squares(r), n) - d.mean * d.mean * n
      /\ d = [mean |-> d.mean, sqDiff |-> d.sqDiff, resultCount |-> n, times |-> d.times]
  BY LenProperties DEF StatsAre
<1>2. m \in Nat \ {0} /\ MaxAnswers \in Nat
  BY ModelAssumption, TimesAssumption
<1>3. /\ r2 \in Seq(Times) /\ Len(r2) = Len(r) + 1 /\ Len(r2) <= MaxAnswers
      /\ \A i \in 1 .. Len(r) : r2[i] = r[i]
      /\ r2[Len(r) + 1] = time
  BY <1>1, <1>2, AppendIs
<1>4. /\ t2 \in Seq(Times) /\ Len(t2) = Len(d.times) + 1
      /\ \A i \in 1 .. Len(d.times) : t2[i] = d.times[i]
      /\ t2[Len(d.times) + 1] = time
  BY <1>1, AppendIs
<1>5. PICK q \in Nat : n = q * m
  BY DEF StatsAre
<1>6. Calculate(d, time) = IF Len(t2) = m THEN Batch(d, t2) ELSE [d EXCEPT !.times = t2]
  BY DEF Calculate
<1> HIDE DEF n, m, r2, t2
<1>7. Len(r2) = n + Len(t2) /\ n <= Len(r) /\ n <= Len(r2)
  BY <1>1, <1>3, <1>4
<1>8. \A i \in 1 .. Len(t2) : t2[i] = r2[n + i]
  <2> SUFFICES ASSUME NEW i \in 1 .. Len(t2) PROVE t2[i] = r2[n + i]
    OBVIOUS
  <2>1. CASE i = Len(d.times) + 1
    <3>1. n + i = Len(r) + 1
      BY <1>1, <2>1
    <3> QED BY <1>3, <1>4, <2>1, <3>1
  <2>2. CASE i # Len(d.times) + 1
    <3>1. i \in 1 .. Len(d.times) /\ n + i \in 1 .. Len(r)
      BY <1>1, <1>4, <2>2
    <3> QED BY <1>1, <1>3, <1>4, <3>1
  <2> QED BY <2>1, <2>2
<1>9. Prefix(r2, n) = Prefix(r, n) /\ Prefix(Squares(r2), n) = Prefix(Squares(r), n)
  <2>1. \A i \in 1 .. n : r2[i] = r[i]
    BY <1>1, <1>3
  <2> QED BY <1>1, <1>3, <1>7, <2>1, SeqSame
<1>10. CASE Len(t2) # m
  <2> DEFINE e == [d EXCEPT !.times = t2]
  <2>1. e = [mean |-> d.mean, sqDiff |-> d.sqDiff, resultCount |-> n, times |-> t2]
    <3>1. d = [mean |-> d.mean, sqDiff |-> d.sqDiff, resultCount |-> n, times |-> d.times]
      BY <1>1
    <3> QED BY <3>1
  <2>2. Calculate(d, time) = e
    BY <1>6, <1>10
  <2> HIDE DEF e
  <2>3. /\ e.mean = d.mean /\ e.sqDiff = d.sqDiff /\ e.resultCount = n /\ e.times = t2
        /\ e \in [mean : Nat, sqDiff : Int, resultCount : Nat, times : Seq(Times)]
    BY <1>1, <1>4, <2>1
  <2>4. Len(t2) < m
    BY <1>1, <1>2, <1>4, <1>10
  <2>5. StatsAre(e, r2)
    BY <1>1, <1>3, <1>5, <1>7, <1>8, <1>9, <2>3, <2>4 DEF StatsAre, m
  <2> QED BY <2>2, <2>5 DEF r2
<1>11. CASE Len(t2) = m
  <2> DEFINE k == n + m
             oldDiffs == [i \in 1 .. m |-> t2[i] - d.mean]
             mean == d.mean + Total(oldDiffs) \div k
             dev == Deviations(t2, d.mean, mean)
             e == [mean |-> mean, sqDiff |-> d.sqDiff + dev, resultCount |-> k, times |-> <<>>]
  <2>1. Calculate(d, time) = e
    BY <1>6, <1>11 DEF Batch, n, m
  <2>2. k \in Nat \ {0} /\ Len(r2) = k /\ k = (q + 1) * m /\ q + 1 \in Nat \ {0}
    <3>1. q * m + m = (q + 1) * m
      BY <1>2
    <3>2. n \in Nat /\ Len(r2) = n + m
      BY <1>1, <1>7, <1>11
    <3>3. n + m \in Nat \ {0} /\ q + 1 \in Nat \ {0}
      BY <1>2, <3>2
    <3> QED BY <1>5, <3>1, <3>2, <3>3
  <2>3. /\ Numbers(r2, k) /\ Numbers(Squares(r2), k)
        /\ \A i \in 1 .. k : r2[i] \in Times /\ Squares(r2)[i] = r2[i] * r2[i]
    <3> HIDE DEF k
    <3> QED BY <1>3, <2>2, SeqNumbers
  <2>4. /\ Numbers(t2, m) /\ Numbers(Squares(t2), m)
        /\ \A i \in 1 .. m : t2[i] \in Nat /\ Squares(t2)[i] = t2[i] * t2[i]
    <3>1. t2 \in Seq(Times) /\ m \in Nat /\ m <= Len(t2)
      BY <1>2, <1>4, <1>11
    <3> QED BY <3>1, SeqNumbers
  <2> DEFINE P == Prefix(t2, m)
             Q == Prefix(Squares(t2), m)
             A == Prefix(r2, k)
  <2>5. A = Prefix(r, n) + P /\ Prefix(Squares(r2), k) = Prefix(Squares(r), n) + Q
    <3>1. \A i \in 1 .. m : t2[i] = r2[n + i]
      BY <1>8, <1>11
    <3>2. \A i \in 1 .. m : Squares(t2)[i] = Squares(r2)[n + i]
      <4> SUFFICES ASSUME NEW i \in 1 .. m PROVE Squares(t2)[i] = Squares(r2)[n + i]
        OBVIOUS
      <4>1. n + i \in 1 .. k
        BY <1>1, <1>2
      <4>2. Squares(r2)[n + i] = r2[n + i] * r2[n + i]
        BY <2>3, <4>1
      <4>3. Squares(t2)[i] = t2[i] * t2[i] /\ t2[i] = r2[n + i]
        BY <2>4, <3>1
      <4> QED BY <4>2, <4>3
    <3>3. Prefix(r2, n + m) = Prefix(r2, n) + Prefix(t2, m)
      BY <1>1, <1>2, <2>3, <3>1, PrefixSplits
    <3>4. Prefix(Squares(r2), n + m) = Prefix(Squares(r2), n) + Prefix(Squares(t2), m)
      BY <1>1, <1>2, <2>3, <3>2, PrefixSplits
    <3> QED BY <1>9, <3>3, <3>4
  <2>6. P \in Int /\ Q \in Int
    BY <1>2, <2>4, PrefixIs
  <2>7. PICK x \in Nat : A = k * x
    <3>1. AreMultiples(r2, u, k)
      BY <2>3, FineUnitIs DEF AreMultiples
    <3>2. PICK y \in Nat : A = u * y
      <4>1. u \in Nat /\ k \in Nat
        BY <2>2, FineUnitIs
      <4> HIDE DEF k, A
      <4>2. \A f, i : AreMultiples(f, u, i) /\ i \in Nat => \E y \in Nat : Prefix(f, i) = u * y
        BY <4>1, PrefixMultiple
      <4> QED BY <3>1, <4>1, <4>2 DEF A
    <3>3. PICK z \in Nat : u = k * z
      <4>1. (q + 1) * m <= MaxAnswers
        BY <1>3, <2>2
      <4> QED BY <2>2, <4>1, FineUnitIs DEF m
    <3>4. \A a, b, c \in Nat : (a * b) * c = a * (b * c) /\ b * c \in Nat
      OBVIOUS
    <3>5. A = k * (z * y) /\ z * y \in Nat
      BY <2>2, <3>2, <3>3, <3>4
    <3> HIDE DEF A, k
    <3> QED BY <3>5
  <2> HIDE DEF P, Q, A, k
  <2>8. k = n + m /\ d.mean * n + Prefix(t2, m) = k * x
    BY <1>1, <2>5, <2>7 DEF P, k
  <2>9. mean = x
    <3>1. DOMAIN oldDiffs = 1 .. m /\ \A i \in 1 .. m : oldDiffs[i] = t2[i] - d.mean
      OBVIOUS
    <3> HIDE DEF oldDiffs
    <3>2. PICK old \in Nat : old = d.mean
      BY <1>1
    <3>3. /\ n \in Nat /\ m \in Nat \ {0} /\ Numbers(t2, m) /\ Moves(n, old, m, t2, k, x)
          /\ DOMAIN oldDiffs = 1 .. m /\ AreDifferences(oldDiffs, t2, old, m)
      BY <1>1, <1>2, <2>4, <2>8, <3>1, <3>2 DEF Moves, AreDifferences
    <3>4. old + Total(oldDiffs) \div k = x
      BY <3>3, BatchMean
    <3> QED BY <3>2, <3>4
  <2>11. d.sqDiff + dev = Prefix(Squares(r2), k) - x * x * k
    <3> DEFINE h == [i \in 1 .. m |-> (t2[i] - x) * (t2[i] - d.mean)]
               S == Prefix(Squares(r), n)
    <3>1. dev = Total(h)
      <4> HIDE DEF mean
      <4>1. dev = Total([i \in 1 .. m |-> (t2[i] - mean) * (t2[i] - d.mean)])
        BY DEF Deviations, m
      <4> HIDE DEF dev
      <4> QED BY <2>9, <4>1
    <3>2. DOMAIN h = 1 .. m /\ \A i \in 1 .. m : h[i] = (t2[i] - x) * (t2[i] - d.mean)
      OBVIOUS
    <3> HIDE DEF h, dev, mean
    <3>3. S \in Int
      <4>1. Numbers(Squares(r), n)
        BY <1>1, <1>7, SeqNumbers
      <4> QED BY <1>1, <4>1, PrefixIs
    <3> HIDE DEF S
    <3>4. PICK old \in Nat : old = d.mean
      BY <1>1
    <3>5. /\ n \in Nat /\ m \in Nat /\ Numbers(t2, m) /\ Moves(n, old, m, t2, k, x)
          /\ AreSquares(Squares(t2), t2, m)
          /\ DOMAIN h = 1 .. m /\ AreProducts(h, t2, x, old, m)
      BY <1>1, <1>2, <2>4, <2>8, <3>2, <3>4 DEF Moves, AreSquares, AreProducts
    <3>6. (S - old * old * n) + Total(h) = (S + Prefix(Squares(t2), m)) - x * x * k
      BY <3>3, <3>5, BatchSquares
    <3>7. d.sqDiff = S - old * old * n /\ Prefix(Squares(r2), k) = S + Prefix(Squares(t2), m)
      BY <1>1, <2>5, <3>4 DEF S, Q
    <3> QED BY <3>1, <3>6, <3>7
  <2> HIDE DEF mean, dev, e
  <2>12. x * k = Prefix(r2, k)
    <3>1. x * k = k * x
      BY <2>2
    <3> QED BY <2>7, <3>1 DEF A
  <2>13. d.sqDiff + dev \in Int
    <3>1. Prefix(Squares(r2), k) \in Int
      <4> HIDE DEF k
      <4> QED BY <2>2, <2>3, PrefixIs
    <3>2. x * x * k \in Int
      BY <2>2
    <3> HIDE DEF k
    <3> QED BY <2>11, <3>1, <3>2
  <2> HIDE DEF k
  <2>14. /\ e.mean = x /\ e.sqDiff = d.sqDiff + dev /\ e.resultCount = k /\ e.times = <<>>
         /\ e \in [mean : Nat, sqDiff : Int, resultCount : Nat, times : Seq(Times)]
    <3>1. <<>> \in Seq(Times)
      OBVIOUS
    <3> QED BY <2>2, <2>9, <2>13, <3>1 DEF e
  <2>15. Len(<<>>) = 0 /\ 0 < m /\ Len(r2) = k + 0 /\ 1 .. 0 = {}
    BY <1>2, <2>2
  <2>16. StatsAre(e, r2)
    BY <1>3, <2>2, <2>11, <2>12, <2>14, <2>15 DEF StatsAre, m
  <2> QED BY <2>1, <2>16 DEF r2
<1> QED BY <1>10, <1>11

StatsInv == StatsAre(sd, results) /\ readies \in [Clients -> 0 .. MaxReady]

LEMMA StatsInit == Init => StatsInv
<1> SUFFICES ASSUME Init PROVE StatsInv
  OBVIOUS
<1>1. /\ results = <<>> /\ readies = [c \in Clients |-> 0]
      /\ sd = [mean |-> 0, sqDiff |-> 0, resultCount |-> 0, times |-> <<>>]
  BY DEF Init, NoResults
<1>2. maxResults \in Nat \ {0} /\ MaxAnswers \in Nat /\ MaxReady \in Nat
  BY ModelAssumption, TimesAssumption
<1>3. <<>> \in Seq(Times) /\ Len(<<>>) = 0 /\ 1 .. 0 = {} /\ 0 = 0 * maxResults
  BY <1>2
<1>4. Prefix(<<>>, 0) = 0 /\ Prefix(Squares(<<>>), 0) = 0
  <2>1. Numbers(<<>>, 0) /\ Numbers(Squares(<<>>), 0)
    BY <1>3 DEF Numbers
  <2> QED BY <2>1, PrefixIs
<1>5. StatsAre(sd, results)
  <2>1. /\ sd.mean = 0 /\ sd.sqDiff = 0 /\ sd.resultCount = 0 /\ sd.times = <<>>
        /\ sd \in [mean : Nat, sqDiff : Int, resultCount : Nat, times : Seq(Times)]
    BY <1>1, <1>3
  <2>2. 0 * 0 = 0 /\ 0 = 0 - 0 * 0 * 0 /\ 0 <= MaxAnswers /\ 0 < maxResults /\ 0 = 0 + 0
    BY <1>2
  <2> QED BY <1>1, <1>3, <1>4, <2>1, <2>2 DEF StatsAre
<1>6. readies \in [Clients -> 0 .. MaxReady]
  BY <1>1, <1>2
<1> QED BY <1>5, <1>6 DEF StatsInv

LEMMA StatsStep ==
    ASSUME NEW u, FineUnit(u), StatsInv, [Next]_vars
    PROVE  StatsInv'
<1>1. StatsAre(sd, results) /\ readies \in [Clients -> 0 .. MaxReady]
  BY DEF StatsInv
<1>2. ASSUME UNCHANGED <<sd, results, readies>> PROVE StatsInv'
  BY <1>1, <1>2 DEF StatsInv
<1>3. CASE UNCHANGED vars
  BY <1>2, <1>3 DEF vars
<1>4. ASSUME NEW c \in Clients, Connect(c) \/ Leave(c) \/ FreeTime(c) \/ NullTime(c)
      PROVE  StatsInv'
  BY <1>2, <1>4 DEF Connect, Leave, FreeTime, NullTime
<1>5. ASSUME NEW w \in Workers, FindClientForWork(w) \/ LoadTime(w) \/ StoreTime(w)
      PROVE  StatsInv'
  BY <1>2, <1>5 DEF FindClientForWork, LoadTime, StoreTime
<1>6. ASSUME NEW c \in Clients, AddClient(c) PROVE StatsInv'
  <2>1. /\ readies[c] < MaxReady /\ readies' = [readies EXCEPT ![c] = @ + 1]
        /\ sd' = sd /\ results' = results
    BY <1>6 DEF AddClient
  <2>2. readies[c] \in 0 .. MaxReady /\ MaxReady \in Nat
    BY <1>1, TimesAssumption
  <2>3. readies[c] + 1 \in 0 .. MaxReady
    BY <2>1, <2>2
  <2>4. readies' \in [Clients -> 0 .. MaxReady]
    BY <1>1, <2>1, <2>3
  <2> QED BY <1>1, <2>1, <2>4 DEF StatsInv
<1>7. ASSUME NEW c \in Clients, NEW time \in Times, EvaluateClient(c, time) PROVE StatsInv'
  <2>1. /\ Len(results) < MaxAnswers /\ sd' = Calculate(sd, time)
        /\ results' = Append(results, time) /\ readies' = readies
    BY <1>7 DEF EvaluateClient
  <2>2. StatsAre(Calculate(sd, time), Append(results, time))
    BY <1>1, <2>1, CalculateIs
  <2> QED BY <1>1, <2>1, <2>2 DEF StatsInv
<1> QED BY <1>3, <1>4, <1>5, <1>6, <1>7 DEF Next

\* The mean and the deviation are at all times those of the times of the full
\* batches, and the others wait for the next one.
THEOREM StatsTheorem ==
    ASSUME NEW CONSTANT u, FineUnit(u)
    PROVE  Spec => []StatsInv
<1>1. StatsInv /\ [Next]_vars => StatsInv'
  BY StatsStep
<1> QED BY <1>1, StatsInit, PTL DEF Spec

-----------------------------------------------------------------------------
(* What the invariant says *)

\* The differences of the counted times to their mean, and the squares of them.
LEMMA CountedAre ==
    ASSUME StatsInv
    PROVE  LET n == sd.resultCount
               m == sd.mean
           IN  /\ n \in Nat /\ m \in Nat /\ results \in Seq(Times)
               /\ n <= Len(results) /\ Len(results) \in Nat
               /\ Numbers(results, n) /\ \A i \in 1 .. n : results[i] \in Nat
               /\ Prefix(results, n) = m * n
               /\ \A h : AreProducts(h, results, m, m, n) => sd.sqDiff = Prefix(h, n)
               /\ sd \in [mean : Nat, sqDiff : Int, resultCount : Nat, times : Seq(Times)]
<1> DEFINE n == sd.resultCount
           m == sd.mean
<1>1. /\ n \in Nat /\ m \in Nat /\ results \in Seq(Times) /\ Len(sd.times) \in Nat
      /\ Len(results) = n + Len(sd.times) /\ Prefix(results, n) = m * n
      /\ sd.sqDiff = Prefix(Squares(results), n) - m * m * n
      /\ sd \in [mean : Nat, sqDiff : Int, resultCount : Nat, times : Seq(Times)]
  BY LenProperties DEF StatsInv, StatsAre
<1>2. n <= Len(results) /\ Len(results) \in Nat
  BY <1>1
<1>3. /\ Numbers(results, n) /\ Numbers(Squares(results), n)
      /\ \A i \in 1 .. n : results[i] \in Nat /\ Squares(results)[i] = results[i] * results[i]
  BY <1>1, <1>2, SeqNumbers
<1>4. AreSquares(Squares(results), results, n)
  BY <1>3 DEF AreSquares
<1> HIDE DEF n, m
<1>5. ASSUME NEW h, AreProducts(h, results, m, m, n) PROVE sd.sqDiff = Prefix(h, n)
  <2>1. m \in Int
    BY <1>1
  <2>2. Prefix(h, n) = Prefix(Squares(results), n) - (m + m) * Prefix(results, n) + m * m * n
    BY <1>1, <1>3, <1>4, <1>5, <2>1, PrefixProducts
  <2>3. PICK S \in Int : S = Prefix(Squares(results), n)
    BY <1>1, <1>3, PrefixIs
  <2>4. S - (m + m) * (m * n) + m * m * n = S - m * m * n
    BY <1>1
  <2> QED BY <1>1, <2>2, <2>3, <2>4
<1> QED BY <1>1, <1>2, <1>3, <1>5 DEF n, m

LEMMA CountedSeq ==
    ASSUME StatsInv
    PROVE  /\ Counted \in Seq(Times) /\ Len(Counted) = sd.resultCount
           /\ DOMAIN Counted = 1 .. sd.resultCount
           /\ \A i \in 1 .. sd.resultCount : Counted[i] = results[i]
<1> DEFINE n == sd.resultCount
<1>1. /\ n \in Nat /\ results \in Seq(Times) /\ n <= Len(results) /\ Len(results) \in Nat
  BY CountedAre
<1>2. \A i \in 1 .. n : results[i] \in Times
  BY <1>1, SeqNumbers
<1>3. /\ SubSeq(results, 1, n) \in Seq(Times)
      /\ Len(SubSeq(results, 1, n)) = IF 1 <= n THEN n - 1 + 1 ELSE 0
      /\ \A i \in 1 .. (n - 1 + 1) : SubSeq(results, 1, n)[i] = results[1 + i - 1]
  <2>1. 1 \in Int /\ n \in Int
    BY <1>1
  <2> HIDE DEF n
  <2> QED BY <1>2, <2>1, SubSeqProperties
<1>4. n - 1 + 1 = n /\ (1 <= n \/ n = 0) /\ \A i \in 1 .. n : 1 + i - 1 = i
  BY <1>1
<1> HIDE DEF n
<1>5. /\ Counted \in Seq(Times) /\ Len(Counted) = n
      /\ \A i \in 1 .. n : Counted[i] = results[i]
  <2>1. Counted = SubSeq(results, 1, n)
    BY DEF Counted, n
  <2> QED BY <1>3, <1>4, <2>1
<1> QED BY <1>5, LenProperties DEF n

LEMMA StatsExact == StatsInv => ExactMoments
<1> SUFFICES ASSUME StatsInv PROVE ExactMoments
  OBVIOUS
<1> DEFINE n == sd.resultCount
           m == sd.mean
           count == Len(results) - (Len(results) % maxResults)
           h == [i \in 1 .. n |-> (results[i] - m) * (results[i] - m)]
<1>1. /\ n \in Nat /\ m \in Nat /\ Numbers(results, n)
      /\ Prefix(results, n) = m * n
      /\ \A g : AreProducts(g, results, m, m, n) => sd.sqDiff = Prefix(g, n)
  BY CountedAre
<1>2. count = n
  <2>1. PICK q \in Nat : n = q * maxResults
    BY DEF StatsInv, StatsAre
  <2>2. /\ maxResults \in Nat \ {0} /\ Len(sd.times) \in Nat /\ Len(sd.times) < maxResults
        /\ Len(results) = n + Len(sd.times)
    BY ModelAssumption, LenProperties DEF StatsInv, StatsAre
  <2> HIDE DEF n
  <2>3. Len(results) % maxResults = Len(sd.times)
    BY <2>1, <2>2, RemainderIs
  <2>4. count = Len(results) - Len(sd.times)
    BY <2>3, Zenon
  <2> HIDE DEF count
  <2> QED BY <1>1, <2>2, <2>4
<1>3. Total(Counted) = Prefix(results, n)
  <2>1. DOMAIN Counted = 1 .. n /\ \A i \in 1 .. n : Counted[i] = results[i]
    BY CountedSeq
  <2> HIDE DEF n
  <2>2. Total(Counted) = Prefix(Counted, n) /\ Prefix(Counted, n) = Prefix(results, n)
    BY <1>1, <2>1, TotalIs, PrefixSame
  <2> QED BY <2>2
<1>4. sd.sqDiff = Total(h)
  <2>1. DOMAIN h = 1 .. n /\ AreProducts(h, results, m, m, n)
    BY DEF AreProducts
  <2> HIDE DEF n, m, h
  <2>2. Total(h) = Prefix(h, n)
    BY <1>1, <2>1, TotalIs
  <2> QED BY <1>1, <2>1, <2>2
<1>5. /\ n = count /\ m * count = Total(Counted)
      /\ sd.sqDiff = Total([i \in 1 .. count |-> (results[i] - m) * (results[i] - m)])
  <2> HIDE DEF count, n
  <2>1. sd.sqDiff = Total([i \in 1 .. n |-> (results[i] - m) * (results[i] - m)])
    BY <1>4
  <2> QED BY <1>1, <1>2, <1>3, <2>1
<1> QED BY <1>5, Zenon DEF ExactMoments

LEMMA SquaresAreNat == StatsInv => sd.sqDiff \in Nat
<1> SUFFICES ASSUME StatsInv PROVE sd.sqDiff \in Nat
  OBVIOUS
<1> DEFINE n == sd.resultCount
           m == sd.mean
           h == [i \in 1 .. n |-> (results[i] - m) * (results[i] - m)]
<1>1. /\ n \in Nat /\ m \in Nat /\ \A i \in 1 .. n : results[i] \in Nat
      /\ \A g : AreProducts(g, results, m, m, n) => sd.sqDiff = Prefix(g, n)
  BY CountedAre
<1>2. AreProducts(h, results, m, m, n)
  BY DEF AreProducts
<1>3. \A i \in 1 .. n : h[i] \in Nat
  <2>1. \A x, y \in Nat : (x - y) * (x - y) \in Nat
    <3>1. \A z \in Int : z * z \in Nat
      OBVIOUS
    <3> QED BY <3>1
  <2> QED BY <1>1, <2>1
<1> HIDE DEF n, m, h
<1>4. Prefix(h, n) \in Nat
  <2>1. \A i \in (1 .. n) \cap {} : h[i] >= 0
    OBVIOUS
  <2> QED BY <1>1, <1>3, <2>1, PrefixAtLeast
<1> QED BY <1>1, <1>2, <1>4

LEMMA StatsTypes == TimesInv /\ StatsInv => TypeOK
<1> SUFFICES ASSUME TimesInv, StatsInv PROVE TypeOK
  OBVIOUS
<1>1. /\ PoolOK(timePool) /\ obj \in [Clients -> 0 .. timePool.capacity]
      /\ stampedFor \in [1 .. timePool.capacity -> Clients \cup {NoClient}]
      /\ at \in [Clients -> {"away", "connected", "leaving", "freed", "gone"}]
      /\ working \in [Clients -> Nat] /\ picked \in [Workers -> Clients \cup {NoClient}]
      /\ pointer \in [Workers -> 0 .. timePool.capacity]
      /\ fastClients \in Seq(Clients) /\ otherClients \in Seq(Clients)
  BY DEF TimesInv, TimeTypes
<1>2. /\ timePool \in Pools /\ timePool.capacity \in Nat
      /\ timePool.next \in [1 .. timePool.capacity -> 0 .. timePool.capacity]
      /\ timePool.avail <= timePool.capacity
  BY <1>1, PoolIs DEF PoolOK
<1>3. sd \in [mean : Nat, sqDiff : Nat, resultCount : Nat, times : Seq(Times)]
  <2>1. sd \in [mean : Nat, sqDiff : Int, resultCount : Nat, times : Seq(Times)]
    BY DEF StatsInv, StatsAre
  <2>2. sd.sqDiff \in Nat
    BY SquaresAreNat
  <2> QED BY <2>1, <2>2
<1>4. Len(sd.times) < maxResults /\ results \in Seq(Times) /\ readies \in [Clients -> 0 .. MaxReady]
  BY DEF StatsInv, StatsAre
<1> QED BY <1>1, <1>2, <1>3, <1>4 DEF TypeOK

\* Of the times counted, those that are off the mean or more, to either side.
LEMMA FewCounted ==
    ASSUME StatsInv, sd.resultCount # 0, NEW off \in Nat \ {0}, NEW k \in Nat, NEW P,
           \/ \A i \in (1 .. sd.resultCount) \cap P : results[i] - sd.mean >= off
           \/ \A i \in (1 .. sd.resultCount) \cap P : sd.mean - results[i] >= off
    PROVE  LET n == sd.resultCount
               p == Cardinality((1 .. n) \cap P)
           IN  /\ off * off * n >= k * k * sd.sqDiff => (1 + k * k) * p <= n
               /\ off * off * n > k * k * sd.sqDiff => (1 + k * k) * p < n
<1> DEFINE n == sd.resultCount
           m == sd.mean
           p == Cardinality((1 .. n) \cap P)
           h == [i \in 1 .. n |-> (results[i] - m) * (results[i] - m)]
           above == [i \in 1 .. n |-> results[i] - m]
           below == [i \in 1 .. n |-> m - results[i]]
<1>1. /\ n \in Nat \ {0} /\ m \in Nat /\ Numbers(results, n)
      /\ \A i \in 1 .. n : results[i] \in Nat
      /\ Prefix(results, n) = m * n
      /\ \A g : AreProducts(g, results, m, m, n) => sd.sqDiff = Prefix(g, n)
  BY CountedAre
<1>2. sd.sqDiff = Prefix(h, n)
  <2>1. AreProducts(h, results, m, m, n)
    BY DEF AreProducts
  <2> HIDE DEF h, n, m
  <2> QED BY <1>1, <2>1
<1>3. Numbers(above, n) /\ Prefix(above, n) = 0 /\ AreSquares(h, above, n)
  <2>1. AreDifferences(above, results, m, n) /\ AreSquares(h, above, n)
    BY DEF AreDifferences, AreSquares
  <2> HIDE DEF h, n, m, above
  <2>2. m \in Int /\ n \in Nat
    BY <1>1
  <2>3. Numbers(above, n) /\ Prefix(above, n) = Prefix(results, n) - m * n
    BY <1>1, <2>1, <2>2, PrefixMinus
  <2>4. m * n - m * n = 0
    BY <2>2
  <2> QED BY <1>1, <2>1, <2>3, <2>4
<1>4. Numbers(below, n) /\ Prefix(below, n) = 0 /\ AreSquares(h, below, n)
  <2>1. AreSquares(h, below, n)
    <3>1. \A x, y \in Nat : (x - y) * (x - y) = (y - x) * (y - x)
      OBVIOUS
    <3> QED BY <1>1, <3>1 DEF AreSquares
  <2>2. PICK a \in Int, b \in Int, c \in Int : a = 0 - 1 /\ b = 0 /\ c = m
    BY <1>1
  <2>3. AreCombined(below, a, results, b, results, c, n)
    BY <1>1, <2>2 DEF AreCombined
  <2>4. Numbers(below, n)
    BY <1>1 DEF Numbers
  <2> HIDE DEF h, n, m, below
  <2>5. Prefix(below, n) = a * Prefix(results, n) + b * Prefix(results, n) + c * n
    BY <1>1, <2>3, PrefixAdds
  <2>6. (0 - 1) * (m * n) + 0 * (m * n) + m * n = 0
    BY <1>1
  <2> QED BY <1>1, <2>1, <2>2, <2>4, <2>5, <2>6
<1>5. PICK f : /\ Numbers(f, n) /\ Prefix(f, n) = 0 /\ AreSquares(h, f, n)
               /\ \A i \in (1 .. n) \cap P : f[i] >= off
  <2>1. CASE \A i \in (1 .. n) \cap P : results[i] - m >= off
    <3>1. \A i \in (1 .. n) \cap P : above[i] >= off
      BY <2>1
    <3> HIDE DEF h, n, m, above
    <3> QED BY <1>3, <3>1
  <2>2. CASE \A i \in (1 .. n) \cap P : m - results[i] >= off
    <3>1. \A i \in (1 .. n) \cap P : below[i] >= off
      BY <2>2
    <3> HIDE DEF h, n, m, below
    <3> QED BY <1>4, <3>1
  <2> QED BY <2>1, <2>2
<1> HIDE DEF h, n, m
<1>6. Prefix(h, n) \in Nat /\ p \in Nat /\ p * (n * off * off + Prefix(h, n)) <= n * Prefix(h, n)
  <2>1. n \in Nat
    BY <1>1
  <2>2. /\ Prefix(h, n) \in Nat /\ p \in 0 .. n
        /\ p * (n * off * off + Prefix(h, n)) <= n * Prefix(h, n)
    BY <1>5, <2>1, FewFarOff
  <2> QED BY <2>1, <2>2
<1> HIDE DEF p
<1>7. PICK s \in Nat : s = sd.sqDiff /\ p * (n * off * off + s) <= n * s
  BY <1>2, <1>6
<1>8. /\ off * off * n >= k * k * s => (1 + k * k) * p <= n
      /\ off * off * n > k * k * s => (1 + k * k) * p < n
  BY <1>1, <1>6, <1>7, PartIs
<1> QED BY <1>7, <1>8 DEF n, p

LEMMA StatsVerdicts == StatsInv => VerdictsAreOutliers
<1> SUFFICES ASSUME StatsInv, results # <<>> PROVE
        LET time == Last(results)
            status == Status(sd, time)
            longer == {i \in DOMAIN Counted : Counted[i] >= time}
            shorter == {i \in DOMAIN Counted : Counted[i] < time}
        IN  /\ status = "TOOSLOW" =>
                 (1 + nSDLow * nSDLow) * Cardinality(longer) < Len(Counted)
            /\ status = "FAST" =>
                 (1 + nSDHigh * nSDHigh) * Cardinality(shorter) <= Len(Counted)
  BY DEF VerdictsAreOutliers
<1> DEFINE n == sd.resultCount
           m == sd.mean
           time == Last(results)
           longer == {i \in DOMAIN Counted : Counted[i] >= time}
           shorter == {i \in DOMAIN Counted : Counted[i] < time}
<1>1. /\ n \in Nat /\ m \in Nat /\ results \in Seq(Times) /\ Len(results) \in Nat
      /\ \A i \in 1 .. n : results[i] \in Nat
      /\ Prefix(results, n) = m * n
  BY CountedAre
<1>2. time \in Nat
  <2>1. Len(results) # 0
    BY <1>1, EmptySeq
  <2>2. Len(results) \in 1 .. Len(results)
    BY <1>1, <2>1
  <2> QED BY <1>1, <2>2, SeqNumbers DEF Last
<1>3. /\ Len(Counted) = n /\ DOMAIN Counted = 1 .. n
      /\ \A i \in 1 .. n : Counted[i] = results[i]
  BY CountedSeq
<1>4. nSDLow \in Nat /\ nSDHigh \in Nat
  BY ModelAssumption
<1>5. sd.sqDiff \in Nat
  BY SquaresAreNat
<1>6. ASSUME Status(sd, time) = "TOOSLOW"
      PROVE  (1 + nSDLow * nSDLow) * Cardinality(longer) < Len(Counted)
  <2> DEFINE off == time - m
  <2>1. off > 0 /\ off * off * n > nSDLow * nSDLow * sd.sqDiff
    BY <1>6 DEF Status, MoreThan
  <2>2. off \in Nat \ {0}
    BY <1>1, <1>2, <2>1
  <2>3. longer \subseteq 1 .. n /\ \A i \in longer : results[i] >= time
    BY <1>3
  <2>4. \A i \in (1 .. n) \cap longer : results[i] - m >= off
    BY <1>1, <1>2, <2>3
  <2> HIDE DEF off, longer, n, m, time
  <2>5. n # 0
    <3>1. ASSUME n = 0 PROVE FALSE
      <4>1. off * off * 0 = 0
        BY <2>2
      <4>2. PICK y \in Nat : y = nSDLow * nSDLow * sd.sqDiff
        BY <1>4, <1>5
      <4>3. 0 > y
        BY <2>1, <3>1, <4>1, <4>2, Zenon
      <4> QED BY <4>3
    <3> QED BY <3>1
  <2>6. (1 + nSDLow * nSDLow) * Cardinality((1 .. n) \cap longer) < n
    BY <1>4, <2>1, <2>2, <2>4, <2>5, FewCounted DEF n, m
  <2>7. (1 .. n) \cap longer = longer
    BY <2>3
  <2> QED BY <1>3, <2>6, <2>7
<1>7. ASSUME Status(sd, time) = "FAST"
      PROVE  (1 + nSDHigh * nSDHigh) * Cardinality(shorter) <= Len(Counted)
  <2> DEFINE far == m - time
             off == far + 1
  <2>1. m # 0 /\ far >= 0 /\ far * far * n >= nSDHigh * nSDHigh * sd.sqDiff
    BY <1>7 DEF Status, AtLeast
  <2>2. far \in Nat /\ off \in Nat \ {0}
    BY <1>1, <1>2, <2>1
  <2>3. shorter \subseteq 1 .. n /\ \A i \in shorter : results[i] < time
    BY <1>3
  <2>4. \A i \in (1 .. n) \cap shorter : m - results[i] >= off
    BY <1>1, <1>2, <2>3
  <2>5. off * off * n >= nSDHigh * nSDHigh * sd.sqDiff
    <3> HIDE DEF far, n, m
    <3>1. (far + 1) * (far + 1) >= far * far
      BY <2>2
    <3>2. \A x, y \in Nat : x >= y => x * n >= y * n
      BY <1>1
    <3>3. (far + 1) * (far + 1) * n >= far * far * n
      <4>1. (far + 1) * (far + 1) \in Nat /\ far * far \in Nat
        BY <2>2
      <4> QED BY <3>1, <3>2, <4>1
    <3>4. /\ (far + 1) * (far + 1) * n \in Int /\ far * far * n \in Int
          /\ nSDHigh * nSDHigh * sd.sqDiff \in Int
      BY <1>1, <1>4, <1>5, <2>2
    <3> QED BY <2>1, <3>3, <3>4
  <2> HIDE DEF off, far, shorter, n, m, time
  <2>6. (1 .. n) \cap shorter = shorter
    BY <2>3
  <2>7. CASE n # 0
    <3>1. (1 + nSDHigh * nSDHigh) * Cardinality((1 .. n) \cap shorter) <= n
      BY <1>4, <2>2, <2>4, <2>5, <2>7, FewCounted DEF n, m
    <3> QED BY <1>3, <2>6, <3>1
  <2>8. CASE n = 0
    <3>1. shorter = {}
      BY <2>3, <2>8
    <3>2. Cardinality(shorter) = 0
      BY <3>1, FS_EmptySet
    <3>3. (1 + nSDHigh * nSDHigh) * 0 = 0
      BY <1>4
    <3> QED BY <1>3, <2>8, <3>2, <3>3
  <2> QED BY <2>7, <2>8
<1> QED BY <1>6, <1>7

-----------------------------------------------------------------------------
(* Theorems about the times *)

\* Every variable has its type: the deviation that the root is taken of is not
\* negative, and a client is ready and a batch is long at most as often as bounded.
THEOREM TypeTheorem ==
    ASSUME NEW CONSTANT u, FineUnit(u)
    PROVE  Spec => []TypeOK
<1>1. Spec => []StatsInv
  BY StatsTheorem
<1> QED BY <1>1, TimesTheorem, StatsTypes, PTL

\* Updated by whole batches from the old mean and the old deviation, the mean and
\* the deviation are those of all times in these batches.
THEOREM MomentsTheorem ==
    ASSUME NEW CONSTANT u, FineUnit(u)
    PROVE  Spec => []ExactMoments
<1>1. Spec => []StatsInv
  BY StatsTheorem
<1> QED BY <1>1, StatsExact, PTL

\* However the times fall, of those counted less than one in 1 + nSDLow^2 is as long
\* as one that a client is kicked for, and at most one in 1 + nSDHigh^2 is shorter
\* than one that makes it a fast client.
THEOREM VerdictsTheorem ==
    ASSUME NEW CONSTANT u, FineUnit(u)
    PROVE  Spec => []VerdictsAreOutliers
<1>1. Spec => []StatsInv
  BY StatsTheorem
<1> QED BY <1>1, StatsVerdicts, PTL

=============================================================================
