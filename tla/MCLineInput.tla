----------------------------- MODULE MCLineInput ------------------------------
(* A small instance of LineInput for TLC: two letters and the blank, words   *)
(* that begin others as "free" does "freeframe", lines of up to three keys.  *)
EXTENDS LineInput

P == 112
G == 103

Words == { <<P>>, <<P, G>>, <<P, G, P>> }
AllKeys == {P, G, SPACE, BS, DEL, CR, LF}
=============================================================================
