------------------------------- MODULE ChunkRW -------------------------------
(***************************************************************************)
(* The window through which FileMappingChunkRW writes a mapped file        *)
(* (Common/FileMappingChunkRW.h).  A window is a record m:                 *)
(*   m.view   is a view mapped (writeBeg # nullptr)?                       *)
(*   m.at     the position of the file the view was mapped at              *)
(*   m.pos    writePos                                                     *)
(*   m.cur    writeCur - writeBeg                                          *)
(* W is chunkMapSize, the size of a view, and len the size of the file.    *)
(***************************************************************************)
EXTENDS Integers

Window == [view : BOOLEAN, at : Nat, pos : Nat, cur : Nat]

NoView == [view |-> FALSE, at |-> 0, pos |-> 0, cur |-> 0]

\* Mutated form: the view is mapped after the position has moved on.
Remap_Ahead(m, W, len) ==
    [view |-> m.pos + 2 * W <= len, at |-> m.pos + W,
     pos |-> IF m.view THEN m.pos + W ELSE m.pos, cur |-> 0]

\* RemapWrite: map a view at writePos, then move writePos on by the size of the
\* view, unless this is the first view.  Mapping beyond the file fails.
Remap(m, W, len) ==
    [view |-> m.pos + W <= len, at |-> m.pos,
     pos |-> IF m.view THEN m.pos + W ELSE m.pos, cur |-> 0]

\* if (!writeBeg) RemapWrite();
Ready(m, W, len) == IF m.view THEN m ELSE Remap(m, W, len)

\* The bytes the next round of the loop copies of n: when they do not all fit,
\* as many as do not fit.
Part(m, W, n) == IF m.cur + n > W THEN m.cur + n - W ELSE n

\* The round stays inside the view.
InView(m, W, n) == m.view /\ m.cur + Part(m, W, n) <= W

\* Mutated form: the position in the view does not move.
Advance_Stays(m, W, len, n) == IF m.cur + n >= W THEN Remap(m, W, len) ELSE m

\* Where the window is after the round.
Advance(m, W, len, n) ==
    IF m.cur + n >= W THEN Remap(m, W, len) ELSE [m EXCEPT !.cur = @ + n]

\* GetWritePos, and where in the file the next byte really goes.
WritePos(m) == m.pos + m.cur
ViewPos(m) == m.at + m.cur

=============================================================================
