------------------------------ MODULE MCDataPath ------------------------------
(* DataPath for TLC: a byte is a bit, and a word has two. *)
EXTENDS DataPath, TLC

\* Like the logarithm of Algorithm.cpp the result depends on the whole word and is 0
\* for 0.  Its last byte is the one that tells.
Logarithm(w) == [b \in 0 .. 1 |-> IF b = 1 /\ (w[0] = 1 \/ w[1] = 1) THEN 1 ELSE 0]
MCAlgorithm == [w \in [0 .. 1 -> {0, 1}] |-> Logarithm(w)]

\* Files of zeros and then ones.  All words of the first have the same result.
Step(n) == [i \in 0 .. (FileLength - 1) |-> IF i < n THEN 0 ELSE 1]
MCInputs == {Step(1), Step(4)}

=============================================================================
