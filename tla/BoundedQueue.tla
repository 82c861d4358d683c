----------------------------- MODULE BoundedQueue -----------------------------
(***************************************************************************)
(* What a queue of fixed capacity promises to the threads that push to it  *)
(* and pop from it, each at any time: a call takes effect at one moment    *)
(* between its begin and its return.  A push may be refused when the       *)
(* elements and the other calls under way fill the capacity, and a pop may *)
(* find nothing when the queue was empty at some moment of the call.       *)
(***************************************************************************)
EXTENDS Sequences, Integers, FiniteSets

CONSTANTS Threads, Capacity, Elements

VARIABLES
    items,      \* the elements in the queue
    call,       \* per thread: the call under way, and whether it took effect
    answer,     \* per thread: what its last call returned
    sawEmpty    \* per thread: was the queue empty since its call began?

qvars == <<items, call, answer, sawEmpty>>

Idle == [op |-> "none", arg |-> 0, done |-> FALSE]
Call(op, arg) == [op |-> op, arg |-> arg, done |-> FALSE]

QueueInit ==
    /\ items = <<>>
    /\ call = [t \in Threads |-> Idle]
    /\ answer = [t \in Threads |-> 0]
    /\ sawEmpty = [t \in Threads |-> FALSE]

Pending(t, op) == call[t].op = op /\ ~call[t].done
Others(t) == {u \in Threads \ {t} : call[u] # Idle}

Invoke(t) ==
    /\ call[t] = Idle
    /\ \/ \E e \in Elements : call' = [call EXCEPT ![t] = Call("push", e)]
       \/ call' = [call EXCEPT ![t] = Call("pop", 0)]
    /\ UNCHANGED <<items, answer>>

Append_(t) ==
    /\ Pending(t, "push")
    /\ items' = Append(items, call[t].arg)
    /\ call' = [call EXCEPT ![t].done = TRUE]
    /\ UNCHANGED answer

Take(t) ==
    /\ Pending(t, "pop") /\ items # <<>>
    /\ items' = Tail(items)
    /\ call' = [call EXCEPT ![t] = [op |-> "pop", arg |-> Head(items), done |-> TRUE]]
    /\ UNCHANGED answer

\* A call that took effect returns the element.
Return(t) ==
    /\ call[t].done
    /\ answer' = [answer EXCEPT ![t] = call[t].arg]
    /\ call' = [call EXCEPT ![t] = Idle]
    /\ UNCHANGED items

\* A call that could not take effect returns false: 0.
Refuse(t) ==
    /\ \/ Pending(t, "push") /\ Len(items) + Cardinality(Others(t)) >= Capacity
       \/ Pending(t, "pop") /\ sawEmpty[t]
    /\ answer' = [answer EXCEPT ![t] = 0]
    /\ call' = [call EXCEPT ![t] = Idle]
    /\ UNCHANGED items

Watch == sawEmpty' = [t \in Threads |-> /\ call'[t] # Idle
                                        /\ items' = <<>> \/ (call[t] # Idle /\ sawEmpty[t])]

QueueNext ==
    /\ \E t \in Threads : Invoke(t) \/ Append_(t) \/ Take(t) \/ Return(t) \/ Refuse(t)
    /\ Watch

QueueSpec == QueueInit /\ [][QueueNext]_qvars

=============================================================================
