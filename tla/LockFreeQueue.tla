----------------------------- MODULE LockFreeQueue -----------------------------
(***************************************************************************)
(* boost::lockfree::queue<T, fixed_sized<true>> as ClientQueue, Server and *)
(* FileSend use it: push and pop by any thread at any time                 *)
(* (boost/lockfree/queue.hpp), on a fixed array of nodes kept in a free    *)
(* list (boost/lockfree/detail/freelist.hpp, fixed_size_freelist).         *)
(*                                                                         *)
(* One action is one access to shared memory.  A handle is an index and a  *)
(* tag, and the word of a node that links it in the queue links it in the  *)
(* free list too.  Memory is sequentially consistent, and                  *)
(* compare_exchange_weak does not fail by itself, as on x86.               *)
(***************************************************************************)
EXTENDS Sequences, Integers, FiniteSets, SequencesExt

CONSTANTS
    Threads,
    Stalled,       \* threads that may be suspended for ever
    Capacity,      \* the argument of the constructor: MAXCLIENTS
    TagModulus,    \* 2^16: tags are uint16_t
    Garbage,       \* tags the uninitialized nodes may hold
    MaxCalls       \* bound: calls of all threads

ASSUME QueueAssumption ==
    /\ Capacity \in Nat \ {0} /\ TagModulus \in Nat \ {0} /\ MaxCalls \in Nat
    /\ Garbage \subseteq 0 .. (TagModulus - 1) /\ Stalled \subseteq Threads

\* One node more than elements: the dummy.
NodeCount == Capacity + 1
Nodes == 0 .. (NodeCount - 1)
null_handle == NodeCount

tagged_index == [index : 0 .. NodeCount, tag : 0 .. (TagModulus - 1)]
Handle(i, tag) == [index |-> i, tag |-> tag]

\* Mutated form: the tag is not cut to its width.
get_next_tag_Wide(h) == h.tag + 1

\* Mutated form: tags are never changed.
get_next_tag_Same(h) == h.tag

get_next_tag(h) == (h.tag + 1) % TagModulus

VARIABLES
    head_, tail_,  \* the dummy node, and the last node or the one before it
    pool_,         \* the first free node
    next,          \* per node: node::next, or freelist_node::next
    data,          \* per node: node::data
    local,         \* per thread: where it is, and its local variables
    answer,        \* per thread: what its last call returned, 0 for false
    calls,         \* calls begun so far
    sawEmpty       \* (history) per thread: was the queue empty since it began?

vars == <<head_, tail_, pool_, next, data, local, answer, calls, sawEmpty>>

Nothing == Handle(null_handle, 0)

\* arg: what the thread pushes, or popped; n: the node it took out of the free
\* list or the queue; first: old_pool, or the tail of push, or the head of pop;
\* second: the tail of pop; after: next.
Idle == [pc |-> "idle", arg |-> 0, n |-> null_handle,
         first |-> Nothing, second |-> Nothing, after |-> Nothing]

\* The constructor frees every node in turn, and takes the last as the dummy.
Init ==
    /\ \E g \in [Nodes -> Garbage] :
         next = [i \in Nodes |-> IF i = NodeCount - 1 THEN Handle(null_handle, 0)
                                 ELSE Handle(IF i = 0 THEN null_handle ELSE i - 1, g[i])]
    /\ head_ = Handle(NodeCount - 1, 0) /\ tail_ = Handle(NodeCount - 1, 0)
    /\ pool_ = Handle(NodeCount - 2, 1 % TagModulus)
    /\ data = [i \in Nodes |-> 0]
    /\ local = [t \in Threads |-> Idle]
    /\ answer = [t \in Threads |-> 0]
    /\ calls = 0
    /\ sawEmpty = [t \in Threads |-> FALSE]

At(t, place) == local[t].pc = place

\* The thread goes on, with its place and its local variables as they are now.
Go(t, now) == local' = [local EXCEPT ![t] = now] /\ UNCHANGED answer
GoTo(t, place) == Go(t, [local[t] EXCEPT !.pc = place])

Return(t, value) ==
    /\ local' = [local EXCEPT ![t] = Idle]
    /\ answer' = [answer EXCEPT ![t] = value]

\* A push of an element no one has pushed before, or a pop.
Begin(t) ==
    /\ At(t, "idle") /\ calls < MaxCalls
    /\ calls' = calls + 1
    /\ Go(t, [local[t] EXCEPT !.pc = "allocate", !.arg = calls + 1]) \/ GoTo(t, "popHead")
    /\ UNCHANGED <<head_, tail_, pool_, next, data>>

-----------------------------------------------------------------------------
(* push: allocate_impl and the constructor of node *)

\* With no node left push returns false, else the next one is looked up.
Allocated(t, old) ==
    \/ old.index = null_handle /\ Return(t, 0)
    \/ old.index # null_handle /\ Go(t, [local[t] EXCEPT !.pc = "allocNext", !.first = old])

AllocLoad(t) ==
    /\ At(t, "allocate") /\ Allocated(t, pool_)
    /\ UNCHANGED <<head_, tail_, pool_, next, data>>

AllocNext(t) ==
    /\ At(t, "allocNext")
    /\ Go(t, [local[t] EXCEPT !.pc = "allocCas", !.after = next[local[t].first.index]])
    /\ UNCHANGED <<head_, tail_, pool_, next, data>>

AllocCas(t) ==
    LET old == local[t].first IN
    /\ At(t, "allocCas")
    /\ \/ /\ pool_ = old
          /\ pool_' = Handle(local[t].after.index, get_next_tag(old))
          /\ Go(t, [local[t] EXCEPT !.pc = "construct", !.n = old.index])
       \/ pool_ # old /\ Allocated(t, pool_) /\ UNCHANGED pool_
    /\ UNCHANGED <<head_, tail_, next, data>>

\* node(v, null_handle): the data, and the tag that is there
Construct(t) ==
    /\ At(t, "construct")
    /\ data' = [data EXCEPT ![local[t].n] = local[t].arg]
    /\ Go(t, [local[t] EXCEPT !.pc = "constructNext", !.after = next[local[t].n]])
    /\ UNCHANGED <<head_, tail_, pool_, next>>

ConstructNext(t) ==
    /\ At(t, "constructNext") /\ GoTo(t, "pushTail")
    /\ next' = [next EXCEPT ![local[t].n] = Handle(null_handle, get_next_tag(local[t].after))]
    /\ UNCHANGED <<head_, tail_, pool_, data>>

-----------------------------------------------------------------------------
(* push: do_push *)

PushTail(t) ==
    /\ At(t, "pushTail") /\ Go(t, [local[t] EXCEPT !.pc = "pushNext", !.first = tail_])
    /\ UNCHANGED <<head_, tail_, pool_, next, data>>

PushNext(t) ==
    /\ At(t, "pushNext")
    /\ Go(t, [local[t] EXCEPT !.pc = "pushCheck", !.after = next[local[t].first.index]])
    /\ UNCHANGED <<head_, tail_, pool_, next, data>>

PushCheck(t) ==
    /\ At(t, "pushCheck")
    /\ GoTo(t, IF tail_ # local[t].first THEN "pushTail"
               ELSE IF local[t].after.index = null_handle THEN "pushLink" ELSE "pushHelp")
    /\ UNCHANGED <<head_, tail_, pool_, next, data>>

PushLink(t) ==
    LET last == local[t].first.index
        end == local[t].after
    IN
    /\ At(t, "pushLink")
    /\ \/ /\ next[last] = end /\ GoTo(t, "pushSwing")
          /\ next' = [next EXCEPT ![last] = Handle(local[t].n, get_next_tag(end))]
       \/ next[last] # end /\ GoTo(t, "pushTail") /\ UNCHANGED next
    /\ UNCHANGED <<head_, tail_, pool_, data>>

\* tail_.compare_exchange_strong(from, to): whether it succeeds does not matter.
SwingTail(from, to) ==
    tail_' = IF tail_ = from THEN Handle(to, get_next_tag(from)) ELSE tail_

PushSwing(t) ==
    /\ At(t, "pushSwing") /\ Return(t, local[t].arg)
    /\ SwingTail(local[t].first, local[t].n)
    /\ UNCHANGED <<head_, pool_, next, data>>

PushHelp(t) ==
    /\ At(t, "pushHelp") /\ GoTo(t, "pushTail")
    /\ SwingTail(local[t].first, local[t].after.index)
    /\ UNCHANGED <<head_, pool_, next, data>>

-----------------------------------------------------------------------------
(* pop *)

PopHead(t) ==
    /\ At(t, "popHead") /\ Go(t, [local[t] EXCEPT !.pc = "popTail", !.first = head_])
    /\ UNCHANGED <<head_, tail_, pool_, next, data>>

PopTail(t) ==
    /\ At(t, "popTail") /\ Go(t, [local[t] EXCEPT !.pc = "popNext", !.second = tail_])
    /\ UNCHANGED <<head_, tail_, pool_, next, data>>

PopNext(t) ==
    /\ At(t, "popNext")
    /\ Go(t, [local[t] EXCEPT !.pc = "popCheck", !.after = next[local[t].first.index]])
    /\ UNCHANGED <<head_, tail_, pool_, next, data>>

\* The queue is empty, or its tail lags behind, or there is an element.  A null
\* link to a node that is not the last is one that was allocated again.
PopCheck(t) ==
    LET same == head_ = local[t].first
        last == local[t].first.index = local[t].second.index
        null == local[t].after.index = null_handle
    IN
    /\ At(t, "popCheck")
    /\ \/ same /\ last /\ null /\ Return(t, 0)
       \/ same /\ last /\ ~null /\ GoTo(t, "popHelp")
       \/ same /\ ~last /\ ~null /\ GoTo(t, "popData")
       \/ (~same \/ (~last /\ null)) /\ GoTo(t, "popHead")
    /\ UNCHANGED <<head_, tail_, pool_, next, data>>

\* Mutated form: a pop waits for the push to swing the tail.
PopHelp_Waits(t) ==
    /\ At(t, "popHelp") /\ GoTo(t, "popHead")
    /\ UNCHANGED <<head_, tail_, pool_, next, data>>

PopHelp(t) ==
    /\ At(t, "popHelp") /\ GoTo(t, "popHead")
    /\ SwingTail(local[t].second, local[t].after.index)
    /\ UNCHANGED <<head_, pool_, next, data>>

\* copy_payload, before the node is taken
PopData(t) ==
    /\ At(t, "popData")
    /\ Go(t, [local[t] EXCEPT !.pc = "popCas", !.arg = data[local[t].after.index]])
    /\ UNCHANGED <<head_, tail_, pool_, next, data>>

PopCas(t) ==
    LET head == local[t].first IN
    /\ At(t, "popCas")
    /\ \/ /\ head_ = head /\ Go(t, [local[t] EXCEPT !.pc = "free", !.n = head.index])
          /\ head_' = Handle(local[t].after.index, get_next_tag(head))
       \/ head_ # head /\ GoTo(t, "popHead") /\ UNCHANGED head_
    /\ UNCHANGED <<tail_, pool_, next, data>>

-----------------------------------------------------------------------------
(* pop: deallocate_impl *)

FreeLoad(t) ==
    /\ At(t, "free") /\ Go(t, [local[t] EXCEPT !.pc = "freeNext", !.first = pool_])
    /\ UNCHANGED <<head_, tail_, pool_, next, data>>

\* set_index: the tag stays.
FreeNext(t) ==
    /\ At(t, "freeNext") /\ GoTo(t, "freeCas")
    /\ next' = [next EXCEPT ![local[t].n].index = local[t].first.index]
    /\ UNCHANGED <<head_, tail_, pool_, data>>

\* Mutated form: the pool is set without looking whether it has changed.
FreeCas_Blind(t) ==
    /\ At(t, "freeCas") /\ Return(t, local[t].arg)
    /\ pool_' = Handle(local[t].n, local[t].first.tag)
    /\ UNCHANGED <<head_, tail_, next, data>>

FreeCas(t) ==
    LET old == local[t].first IN
    /\ At(t, "freeCas")
    /\ \/ /\ pool_ = old /\ Return(t, local[t].arg)
          /\ pool_' = Handle(local[t].n, old.tag)
       \/ pool_ # old /\ Go(t, [local[t] EXCEPT !.pc = "freeNext", !.first = pool_]) /\ UNCHANGED pool_
    /\ UNCHANGED <<head_, tail_, next, data>>

-----------------------------------------------------------------------------
(* The lists in memory *)

\* The nodes from node i on, following next.
Chain ==
    LET from[k \in 0 .. NodeCount] ==
          [i \in 0 .. NodeCount |->
             IF k = 0 \/ i = null_handle THEN <<>> ELSE <<i>> \o from[k - 1][next[i].index]]
    IN  from[NodeCount]

\* The dummy node and those of the elements; the free nodes.
QueueNodes == Chain[head_.index]
FreeNodes == Chain[pool_.index]

Items == [k \in 1 .. (Len(QueueNodes) - 1) |-> data[QueueNodes[k + 1]]]

FreePlaces == {"free", "freeNext", "freeCas"}
PushPlaces == {"allocate", "allocNext", "allocCas", "construct", "constructNext",
               "pushTail", "pushNext", "pushCheck", "pushLink", "pushHelp", "pushSwing"}
PopPlaces == {"popHead", "popTail", "popNext", "popCheck", "popHelp", "popData", "popCas"}
             \cup FreePlaces

\* Where a thread has a node that no one else has.
Owns == (PushPlaces \ {"allocate", "allocNext", "allocCas", "pushSwing"}) \cup FreePlaces

-----------------------------------------------------------------------------

Push(t) == \/ AllocLoad(t) \/ AllocNext(t) \/ AllocCas(t) \/ Construct(t)
           \/ ConstructNext(t) \/ PushTail(t) \/ PushNext(t) \/ PushCheck(t)
           \/ PushLink(t) \/ PushSwing(t) \/ PushHelp(t)
Pop(t) == \/ PopHead(t) \/ PopTail(t) \/ PopNext(t) \/ PopCheck(t) \/ PopHelp(t)
          \/ PopData(t) \/ PopCas(t) \/ FreeLoad(t) \/ FreeNext(t) \/ FreeCas(t)

\* Whether the queue was empty at some moment of the call.
Watch == sawEmpty' = [t \in Threads |-> /\ local'[t] # Idle
                                        /\ Items' = <<>> \/ (local[t] # Idle /\ sawEmpty[t])]

Calling(t) == Begin(t) /\ Watch
Running(t) == (Push(t) \/ Pop(t)) /\ UNCHANGED calls /\ Watch

Next == \E t \in Threads : Calling(t) \/ Running(t)

Spec == Init /\ [][Next]_vars

\* Threads are scheduled, but for those that are suspended; no one has to call.
FairSpec == Spec /\ \A t \in Threads \ Stalled : WF_vars(Running(t))

-----------------------------------------------------------------------------
(* Properties *)

\* Every variable has its type.
TypeOK ==
    /\ head_ \in tagged_index /\ tail_ \in tagged_index /\ pool_ \in tagged_index
    /\ next \in [Nodes -> tagged_index]
    /\ data \in [Nodes -> 0 .. MaxCalls]
    /\ local \in [Threads -> [pc : {"idle"} \cup PushPlaces \cup PopPlaces,
                            arg : 0 .. MaxCalls, n : 0 .. NodeCount, first : tagged_index,
                            second : tagged_index, after : tagged_index]]
    /\ answer \in [Threads -> 0 .. MaxCalls]
    /\ calls \in 0 .. MaxCalls

\* Every node is in one place: in the queue, in the free list, or with one
\* thread that took it out of either; and the tail is a node of the queue.
NodesApart ==
    LET owners == {t \in Threads : local[t].pc \in Owns}
        owned == {local[t].n : t \in owners}
        queued == ToSet(QueueNodes)
        free == ToSet(FreeNodes)
    IN  /\ Cardinality(owned) = Cardinality(owners)
        /\ queued \cap free = {} /\ queued \cap owned = {} /\ free \cap owned = {}
        /\ queued \cup free \cup owned = Nodes
        /\ Len(QueueNodes) = Cardinality(queued) /\ Len(FreeNodes) = Cardinality(free)
        /\ tail_.index \in queued

\* What a call is, for the abstract queue.
CallOf(t) ==
    LET place == local[t].pc IN
    [op |-> IF place \in PushPlaces THEN "push"
            ELSE IF place \in PopPlaces THEN "pop" ELSE "none",
     arg |-> IF place \in PushPlaces \cup FreePlaces THEN local[t].arg ELSE 0,
     done |-> place \in {"pushSwing"} \cup FreePlaces]

Abstract == INSTANCE BoundedQueue WITH
                Elements <- 1 .. MaxCalls,
                items <- Items,
                call <- [t \in Threads |-> CallOf(t)]

\* The queue is a first-in first-out queue to all threads: an element is popped
\* once, in the order of the pushes, whatever nodes are freed and used again in
\* between; an element is refused only when the others and the calls under way
\* fill the capacity, and only an empty queue has nothing.
ImplementsBoundedQueue == Abstract!QueueSpec

\* No thread waits for another: as there are finitely many calls, each returns,
\* also when other threads are suspended in the middle of theirs.
CallsReturn == \A t \in Threads \ Stalled : local[t] # Idle ~> local[t] = Idle

=============================================================================
