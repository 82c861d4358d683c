-------------------------------- MODULE MemPool --------------------------------
(***************************************************************************)
(* CNLIB/MemPool.h: elements of one size, those that are free in a list.   *)
(* Elements are numbered from 1 and 0 is nullptr.  The link of an element  *)
(* lies behind its data and keeps its value while the element is in use.   *)
(*                                                                         *)
(* Each call is one step of a caller: MemPoolSync holds its critical       *)
(* section around PoolAlloc and PoolDealloc.                               *)
(***************************************************************************)
EXTENDS Integers, Sequences

\* The elements 1 .. capacity, the first free one, and the links.
Pools == [capacity : Nat, avail : Nat, next : Seq(Nat)]

\* Mutated form: the last of the new elements is linked to the one behind it.
Link_PastEnd(pool, n) ==
    [capacity |-> pool.capacity + n,
     avail |-> pool.capacity + 1,
     next |-> pool.next \o [k \in 1 .. n |-> pool.capacity + k + 1]]

\* A node of n more elements, linked in front of the free ones.
Link(pool, n) ==
    LET begin == pool.capacity + 1
        end == pool.capacity + n
    IN  [capacity |-> end,
         avail |-> begin,
         next |-> pool.next \o
                  [k \in 1 .. n |-> IF k = n THEN pool.avail ELSE pool.capacity + k + 1]]

NewPool(n) == Link([capacity |-> 0, avail |-> 0, next |-> <<>>], n)

Grow(pool) == Link(pool, pool.capacity)

IsFull(pool) == pool.avail = 0

\* The pool when there is an element to give, and after it was given.
Ready(pool) == IF IsFull(pool) THEN Grow(pool) ELSE pool

PoolAlloc(pool) == LET p == Ready(pool) IN [p EXCEPT !.avail = p.next[p.avail]]
Allocated(pool) == Ready(pool).avail

\* Mutated form: the element is not linked to the free ones.
PushAvail_Alone(pool, element) == [pool EXCEPT !.avail = element]

PushAvail(pool, element) ==
    [pool EXCEPT !.avail = element, !.next[element] = pool.avail]

\* The free elements in the order they will be given.
FreeList(pool) ==
    LET from[k \in 0 .. pool.capacity + 1] ==
          [e \in 0 .. pool.capacity |->
             IF k = 0 \/ e = 0 THEN <<>> ELSE <<e>> \o from[k - 1][pool.next[e]]]
    IN  from[pool.capacity + 1][pool.avail]

=============================================================================
