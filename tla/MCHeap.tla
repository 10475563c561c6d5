-------------------------------- MODULE MCHeap --------------------------------
(* Small instances of Heap for TLC: frames of 16 words, at most 9 of them    *)
(* for a small request.                                                      *)
EXTENDS Heap

\* Frame 1, and frames 3 and 4.
SplitMap == << [usable |-> TRUE, base |-> 4, length |-> 4],
               [usable |-> TRUE, base |-> 12, length |-> 8] >>
=============================================================================
