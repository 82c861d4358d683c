------------------------------- MODULE WorkPool -------------------------------
(***************************************************************************)
(* What the server promises about the chunks of the file, whoever works on *)
(* them: chunks are issued in order, each is outstanding until its result  *)
(* is written, and it is written once.  A lossy pool may also lose an      *)
(* outstanding chunk for good; it never loses a result that was written,   *)
(* and a lost chunk never comes back.                                      *)
(***************************************************************************)
EXTENDS Integers

CONSTANTS MaxChunks,   \* more chunks than the file has
          Lossy        \* whether chunks may be lost

VARIABLE status

Chunks == 0 .. (MaxChunks - 1)

PoolTypeOK ==
    status \in [Chunks -> {"unissued", "outstanding", "written", "lost"}]

PoolInit == status = [i \in Chunks |-> "unissued"]

Issue(i) ==
    /\ status[i] = "unissued"
    /\ \A j \in 0 .. (i - 1) : status[j] # "unissued"
    /\ status' = [status EXCEPT ![i] = "outstanding"]

WriteResult(i) ==
    /\ status[i] = "outstanding"
    /\ status' = [status EXCEPT ![i] = "written"]

Lose(i) ==
    /\ Lossy
    /\ status[i] = "outstanding"
    /\ status' = [status EXCEPT ![i] = "lost"]

PoolNext == \E i \in Chunks : Issue(i) \/ WriteResult(i) \/ Lose(i)

PoolSpec == PoolInit /\ [][PoolNext]_status

=============================================================================
