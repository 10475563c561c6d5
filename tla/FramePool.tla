------------------------------ MODULE FramePool ------------------------------
(* What the physical frame allocator promises its callers: a run of frames   *)
(* it hands out was free, is nobody else's until it is given back, and comes *)
(* back whole. It may refuse any request.                                    *)
EXTENDS Naturals

CONSTANT Frame   \* the frames the bootloader reported usable, as numbers

VARIABLES
  free,  \* the frames nobody owns
  live   \* the runs handed out and not given back

poolVars == <<free, live>>

Span(run) == run.base .. (run.base + run.length - 1)

Init == free = Frame /\ live = {}

Allocate(run) ==
  /\ run.length > 0
  /\ Span(run) \subseteq free
  /\ free' = free \ Span(run)
  /\ live' = live \cup {run}

Free(run) ==
  /\ run \in live
  /\ free' = free \cup Span(run)
  /\ live' = live \ {run}

Next ==
  \/ \E b, e \in Frame : Allocate([base |-> b, length |-> (e + 1) - b])
  \/ \E run \in live : Free(run)

PoolSpec == Init /\ [][Next]_poolVars
=============================================================================
