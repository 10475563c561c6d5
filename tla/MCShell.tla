------------------------------- MODULE MCShell -------------------------------
(* A small instance of Shell for TLC.                                        *)
EXTENDS Shell

\* Frames 1 and 2, a hole, frames 4 to 6; pages of 4 bytes.
TwoRegions == << [usable |-> TRUE,  base |-> 4,  length |-> 8],
                 [usable |-> TRUE,  base |-> 16, length |-> 12] >>
=============================================================================
