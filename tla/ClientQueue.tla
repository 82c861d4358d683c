----------------------------- MODULE ClientQueue -----------------------------
(***************************************************************************)
(* The clients that are free for work (Server/ClientQueue.cpp): two        *)
(* lock-free queues of fixed capacity.  push and pop are single atomic     *)
(* steps.  A push that finds no free node returns false, which every       *)
(* caller in the server ignores, so the element is dropped.                *)
(***************************************************************************)
EXTENDS Sequences, Integers

CONSTANTS
    MAXCLIENTS,    \* capacity of every queue, and of the TCP server
    SlowClients    \* clients the performance model may find too slow

ASSUME MaxClientsAssumption == MAXCLIENTS \in Nat \ {0}

\* Mutated form: one element too few.
Push_OffByOne(q, e, held) == IF Len(q) + 1 < MAXCLIENTS THEN {Append(q, e)} ELSE {q}

\* boost::lockfree::queue<T, fixed_sized<true>>::push, its result ignored: what the
\* queue may be after it.  Each element has a node, and each of the other calls that
\* are under way may hold one (LockFreeQueue).
Push(q, e, held) ==
    (IF Len(q) < MAXCLIENTS THEN {Append(q, e)} ELSE {})
    \cup (IF Len(q) + held >= MAXCLIENTS THEN {q} ELSE {})

(***************************************************************************)
(* PerformanceModel::EvaluateTime.  The measured times are not modelled:   *)
(* any client may come out FAST or NORMAL, and those of SlowClients        *)
(* TOOSLOW as well.                                                        *)
(***************************************************************************)
Verdicts(c) == {"FAST", "NORMAL"} \cup (IF c \in SlowClients THEN {"TOOSLOW"} ELSE {})

=============================================================================
