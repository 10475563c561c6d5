----------------------------- MODULE MCFreeList ------------------------------
(* Small instances of FreeList for TLC: pages of 4 bytes.                    *)
EXTENDS FreeList

\* Frames 1 and 2, a hole that is not usable, frames 4 to 6.
TwoRegions == << [usable |-> TRUE,  base |-> 4,  length |-> 8],
                 [usable |-> FALSE, base |-> 12, length |-> 3],
                 [usable |-> TRUE,  base |-> 16, length |-> 12] >>

\* One region of eight frames.
OneRegion == << [usable |-> TRUE, base |-> 4, length |-> 32] >>
=============================================================================
