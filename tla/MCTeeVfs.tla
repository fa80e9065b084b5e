------------------------------ MODULE MCTeeVfs ------------------------------
(***************************************************************************)
(* TeeVfs on a small file: a buffer shorter than the file, so that a write *)
(* fills it, overruns it and misses it.                                    *)
(***************************************************************************)
EXTENDS TeeVfs

CONSTANT MaxWrites      \* BOUND: the calls of xWrite in a behaviour

VARIABLE writes         \* the calls of xWrite so far

\* A byte string with a zero and a non-zero in it, so that what a write leaves at
\* an offset depends on where it started.
MCPayloads == {[k \in Offsets |-> IF k = 1 THEN 0 ELSE 1]}

MCInit == Init /\ writes = 0

MCNext ==
    /\ Next
    /\ writes' = IF call = NoCall /\ call'.op = "write" THEN writes + 1 ELSE writes
    /\ writes' <= MaxWrites

MCSpec == MCInit /\ [][MCNext]_<<vars, writes>> /\ WF_<<vars, writes>>(Step /\ MCNext)
=============================================================================
