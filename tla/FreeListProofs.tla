---------------------------- MODULE FreeListProofs ----------------------------
(* The safety of FreeList for any memory map, page size and width of the     *)
(* cursor, and that it implements FramePool.                                 *)
EXTENDS FreeList, TLAPS

\* The bounds of the types.
LEMMA Bounds ==
  /\ PAGE \in Nat \ {0} /\ Half \in Nat \ {0} /\ MaxRun \in Nat
  /\ UINT8_MAX \in Nat \ {0} /\ Usable \subseteq 1 .. Len(MemoryMap) /\ Len(MemoryMap) \in Nat
BY FreeListAssumption DEF UINT8_MAX, Usable

LEMMA SpanMembers ==
  ASSUME NEW run \in Segment, NEW f
  PROVE  f \in Span(run) <=> f \in Nat /\ run.base <= f /\ f < run.base + run.length
BY DEF Span, Segment

\* Membership in the three unions the conservation of frames is about, in this state and
\* the next.
LEMMA InListFrames ==
  /\ \A f : f \in ListFrames <=> \E i \in Listed : f \in Span(segments[i])
  /\ \A f : f \in ListFrames' <=> \E i \in Listed' : f \in Span(segments'[i])
BY DEF ListFrames

LEMMA InLaterFrames ==
  /\ \A f : f \in LaterFrames <=> \E k \in Later : f \in LaterSpan(k)
  /\ \A f : f \in LaterFrames' <=> \E k \in Later' : f \in LaterSpan(k)
BY DEF LaterFrames, LaterSpan

LEMMA InLiveFrames ==
  /\ \A f : f \in LiveFrames <=> \E run \in live : f \in Span(run)
  /\ \A f : f \in LiveFrames' <=> \E run \in live' : f \in Span(run)
BY DEF LiveFrames

\* Take cuts the segment it finds in two, and the run it returns is the upper part.
LEMMA TakeCuts ==
  ASSUME TypeOK, NonNull, NEW count \in Nat \ {0}, NEW physical, Take(count, physical)
  PROVE  \E i \in Listed :
           /\ [base |-> physical, length |-> count] \in Segment /\ physical > 0
           /\ segments' \in [Index -> Segment]
           /\ segments'[i].base = segments[i].base
           /\ \A j \in Index \ {i} : segments'[j] = segments[j]
           /\ Span(segments[i]) = Span(segments'[i]) \cup Span([base |-> physical, length |-> count])
           /\ Span(segments'[i]) \cap Span([base |-> physical, length |-> count]) = {}
<1>1. PICK i \in Fits(count) :
        /\ physical = segments[i].base + (segments[i].length - count)
        /\ segments' = [segments EXCEPT ![i].length = @ - count]
  BY DEF Take, memory_nth_segment
<1>2. i \in Listed /\ i \in Index /\ segments[i].length >= count
  <2>1. i \in 0 .. Signed(cursor) - 1 /\ segments[i].length >= count
    BY <1>1 DEF Fits
  <2>2. cursor \in 0 .. UINT8_MAX /\ cursor \in Nat /\ UINT8_MAX \in Nat /\ Half \in Nat
    BY Bounds DEF TypeOK
  <2>3. Signed(cursor) \in Int /\ Signed(cursor) <= cursor
    BY <2>2 DEF Signed
  <2>4. i \in 0 .. cursor - 1 /\ i \in 0 .. UINT8_MAX - 1
    BY <2>1, <2>2, <2>3
  <2> QED BY <2>1, <2>4 DEF Listed, Index
<1>3. segments[i] \in Segment /\ segments[i].base > 0
  BY <1>2 DEF TypeOK, NonNull
<1> DEFINE run == [base |-> physical, length |-> count]
           low == [base |-> segments[i].base, length |-> segments[i].length - count]
<1>4. run \in Segment /\ physical > 0 /\ low \in Segment
  BY <1>1, <1>2, <1>3 DEF Segment
<1>a. [segments[i] EXCEPT !.length = @ - count] = low
  BY <1>3 DEF Segment
<1>5. segments' = [segments EXCEPT ![i] = low]
  BY <1>1, <1>2, <1>a DEF TypeOK
<1>6. segments' \in [Index -> Segment] /\ segments'[i] = low
      /\ \A j \in Index \ {i} : segments'[j] = segments[j]
  BY <1>2, <1>4, <1>5 DEF TypeOK
<1>7. \A f : f \in Span(segments[i]) <=> f \in Span(low) \/ f \in Span(run)
  BY <1>1, <1>2, <1>3, <1>4, SpanMembers DEF Segment
<1>8. \A f : ~(f \in Span(low) /\ f \in Span(run))
  BY <1>1, <1>2, <1>3, <1>4, SpanMembers DEF Segment
<1> HIDE DEF run, low
<1>9. /\ segments'[i].base = segments[i].base
      /\ Span(segments[i]) = Span(segments'[i]) \cup Span(run)
      /\ Span(segments'[i]) \cap Span(run) = {}
  BY <1>6, <1>7, <1>8 DEF low
<1> QED BY <1>2, <1>4, <1>6, <1>9 DEF run

\* Handing the run out keeps the invariant.
LEMMA TakeKeeps ==
  ASSUME IInv, NEW count \in Nat \ {0}, NEW physical, Take(count, physical), Hand(physical, count),
         UNCHANGED <<cursor, overrun, parsed>>
  PROVE  IInv'
<1> DEFINE run == [base |-> physical, length |-> count]
<1>1. PICK i \in Listed :
           /\ run \in Segment /\ physical > 0
           /\ segments' \in [Index -> Segment]
           /\ segments'[i].base = segments[i].base
           /\ \A j \in Index \ {i} : segments'[j] = segments[j]
           /\ Span(segments[i]) = Span(segments'[i]) \cup Span(run)
           /\ Span(segments'[i]) \cap Span(run) = {}
  BY TakeCuts DEF IInv
<1>2. live' = live \cup {run} /\ run.base > 0 /\ run.length > 0
  BY <1>1 DEF Hand
<1> HIDE DEF run
<1>3. Listed' = Listed /\ Later' = Later /\ Listed \subseteq Index
  BY Bounds DEF Listed, Later, IInv, TypeOK, Index
<1>4. TypeOK'
  BY <1>1, <1>2 DEF IInv, TypeOK, Segment
<1>5. NonNull'
  BY <1>1, <1>2, <1>3 DEF IInv, NonNull
<1>6. \A j \in Listed : Span(segments'[j]) \subseteq Span(segments[j])
  BY <1>1, <1>3
<1>7. \A j \in Listed : Span(segments'[j]) \cap Span(run) = {}
  BY <1>1, <1>3 DEF IInv, FramesDisjoint
<1>8. FramesDisjoint'
  <2>1. \A other \in live : Span(other) \cap Span(run) = {}
    BY <1>1 DEF IInv, FramesDisjoint
  <2> QED BY <1>2, <1>3, <1>6, <1>7, <2>1 DEF IInv, FramesDisjoint
<1>9. UnparsedDisjoint'
  BY <1>1, <1>2, <1>3, <1>6 DEF IInv, UnparsedDisjoint, LaterSpan
<1>10. FramesConserved'
  <2>1. LaterFrames' = LaterFrames
    BY <1>3 DEF LaterFrames
  <2>2. ListFrames = ListFrames' \cup Span(run)
    <3>1. ASSUME NEW f, f \in ListFrames PROVE f \in Span(run) \/ f \in ListFrames'
      <4>1. PICK j \in Listed : f \in Span(segments[j])
        BY <3>1, InListFrames
      <4>2. f \in Span(run) \/ f \in Span(segments'[j])
        BY <1>1, <1>3, <4>1
      <4> QED BY <1>3, <4>1, <4>2, InListFrames
    <3>2. ASSUME NEW f, f \in ListFrames' PROVE f \in ListFrames
      <4>1. PICK j \in Listed : f \in Span(segments'[j])
        BY <1>3, <3>2, InListFrames
      <4> QED BY <1>6, <4>1, InListFrames
    <3>3. ASSUME NEW f, f \in Span(run) PROVE f \in ListFrames
      BY <1>1, <3>3, InListFrames
    <3> QED BY <3>1, <3>2, <3>3
  <2>3. LiveFrames' = LiveFrames \cup Span(run)
    BY <1>2, InLiveFrames
  <2> HIDE DEF IInv
  <2>4. FramesConserved
    BY DEF IInv
  <2> QED BY <2>1, <2>2, <2>3, <2>4 DEF FramesConserved, Free, MapFrames
<1> QED BY <1>4, <1>5, <1>8, <1>9, <1>10 DEF IInv

\* Giving a run back to one segment, new or grown, keeps the invariant.
LEMMA GiveBackKeeps ==
  ASSUME IInv, TypeOK', NEW run \in live, NEW i \in Listed',
         Listed' = Listed \cup {i},
         \A j \in Listed \ {i} : segments'[j] = segments[j],
         \A f : f \in Span(segments'[i]) <=> f \in Span(run) \/ (i \in Listed /\ f \in Span(segments[i])),
         segments'[i].base > 0, live' = live \ {run}, parsed' = parsed
  PROVE  IInv'
<1>1. NonNull'
  BY DEF IInv, NonNull
<1>2. \A other \in live' : other \in live /\ other # run /\ Span(other) \cap Span(run) = {}
  BY DEF IInv, FramesDisjoint
<1>3. \A j \in Listed' : j # i => /\ j \in Listed /\ segments'[j] = segments[j]
                                  /\ Span(segments[j]) \cap Span(run) = {}
  BY DEF IInv, FramesDisjoint
<1>4. FramesDisjoint'
  <2>1. \A j \in Listed' : j # i => Span(segments'[j]) \cap Span(segments'[i]) = {}
    BY <1>3 DEF IInv, FramesDisjoint
  <2>2. \A j \in Listed' : \A other \in live' : Span(segments'[j]) \cap Span(other) = {}
    BY <1>2, <1>3 DEF IInv, FramesDisjoint
  <2>3. \A j, k \in Listed' : j # k => Span(segments'[j]) \cap Span(segments'[k]) = {}
    <3>1. \A j, k \in Listed' : j # k /\ j # i /\ k # i => Span(segments'[j]) \cap Span(segments'[k]) = {}
      BY <1>3 DEF IInv, FramesDisjoint
    <3> QED BY <2>1, <3>1
  <2> QED BY <1>2, <2>2, <2>3 DEF IInv, FramesDisjoint
<1>5. Later' = Later
  BY DEF Later
<1>6. UnparsedDisjoint'
  BY <1>2, <1>3, <1>5 DEF IInv, UnparsedDisjoint, LaterSpan
<1>7. FramesConserved'
  <2>1. LaterFrames' = LaterFrames
    BY <1>5 DEF LaterFrames
  <2>2. \A f : f \in ListFrames' <=> f \in ListFrames \/ f \in Span(run)
    <3>1. ASSUME NEW f, f \in ListFrames' PROVE f \in ListFrames \/ f \in Span(run)
      BY <1>3, <3>1, InListFrames
    <3>2. ASSUME NEW f, f \in ListFrames \/ f \in Span(run) PROVE f \in ListFrames'
      BY <3>2, InListFrames
    <3> QED BY <3>1, <3>2
  <2>3. \A f : f \in LiveFrames <=> f \in LiveFrames' \/ f \in Span(run)
    BY InLiveFrames
  <2>4. FramesConserved
    BY DEF IInv
  <2> QED BY <2>1, <2>2, <2>3, <2>4 DEF FramesConserved, Free, MapFrames
<1> QED BY <1>1, <1>4, <1>6, <1>7 DEF IInv

\* A step that only sets overrun.
LEMMA OverrunKeeps ==
  ASSUME IInv, UNCHANGED <<segments, cursor, parsed, live>>, overrun' \in BOOLEAN
  PROVE  IInv'
<1>1. Listed' = Listed /\ Later' = Later
  BY DEF Listed, Later
<1>2. ListFrames' = ListFrames /\ LaterFrames' = LaterFrames /\ LiveFrames' = LiveFrames
  BY <1>1 DEF ListFrames, LaterFrames, LiveFrames
<1>3. TypeOK'
  BY DEF IInv, TypeOK
<1>4. NonNull' /\ FramesDisjoint'
  BY <1>1 DEF IInv, NonNull, FramesDisjoint
<1>5. UnparsedDisjoint'
  BY <1>1 DEF IInv, UnparsedDisjoint, LaterSpan
<1>6. FramesConserved'
  BY <1>2 DEF IInv, FramesConserved, Free, MapFrames
<1> QED BY <1>3, <1>4, <1>5, <1>6 DEF IInv

\* A segment appended at the cursor.
LEMMA AppendKeeps ==
  ASSUME IInv, NEW run \in live, AppendSegment(run.base, run.length), parsed' = parsed, ~overrun,
         live' = IF overrun' THEN live ELSE live \ {run}
  PROVE  IInv'
<1>1. CASE cursor = UINT8_MAX
  <2>1. UNCHANGED <<segments, cursor, parsed, live>> /\ overrun' \in BOOLEAN
    BY <1>1 DEF AppendSegment
  <2> QED BY <2>1, OverrunKeeps
<1>2. CASE cursor # UINT8_MAX
  <2>1. /\ segments' = [segments EXCEPT ![cursor] = [base |-> run.base, length |-> run.length]]
        /\ cursor' = cursor + 1 /\ overrun' = overrun
    BY <1>2 DEF AppendSegment
  <2>2. cursor \in Index /\ run \in Segment /\ cursor \in Nat /\ run.base > 0
    BY <1>2, Bounds DEF IInv, TypeOK, NonNull, Index, Segment
  <2>a. [base |-> run.base, length |-> run.length] \in Segment
    BY <2>2 DEF Segment
  <2>b. segments' \in [Index -> Segment]
    BY <2>1, <2>2, <2>a DEF IInv, TypeOK
  <2>c. cursor' \in 0 .. UINT8_MAX
    BY <2>1, <2>2, Bounds DEF Index
  <2>3. TypeOK'
    BY <2>1, <2>b, <2>c DEF IInv, TypeOK
  <2>d. Listed' = 0 .. cursor
    BY <2>1, <2>2 DEF Listed
  <2>4. /\ Listed' = Listed \cup {cursor} /\ cursor \notin Listed /\ cursor \in Listed'
        /\ \A j \in Listed : j \in Index /\ j # cursor
    BY <2>1, <2>2, <2>d, Bounds DEF Listed, Index
  <2>5. \A j \in Listed : segments'[j] = segments[j]
    BY <2>1, <2>4 DEF IInv, TypeOK
  <2>6. segments'[cursor] = [base |-> run.base, length |-> run.length]
    BY <2>1, <2>2 DEF IInv, TypeOK
  <2>7. Span(segments'[cursor]) = Span(run)
    BY <2>6 DEF Span
  <2> QED BY <2>1, <2>2, <2>3, <2>4, <2>5, <2>6, <2>7, GiveBackKeeps
<1> QED BY <1>1, <1>2

\* A segment grown by one frame, at its end or at its start.
LEMMA GrowKeeps ==
  ASSUME IInv, NEW run \in live, run.length = 1, NEW i \in Listed, Touches(i, run.base), Grow(i, run.base),
         live' = live \ {run}, UNCHANGED <<cursor, overrun, parsed>>
  PROVE  IInv'
<1> DEFINE new == [base |-> IF EndAdjacent(i, run.base) THEN segments[i].base ELSE run.base,
                   length |-> segments[i].length + 1]
<1>1. /\ run \in Segment /\ run.base > 0 /\ i \in Index /\ segments[i] \in Segment /\ segments[i].base > 0
      /\ Listed' = Listed /\ Listed \subseteq Index
  BY Bounds DEF IInv, TypeOK, NonNull, Listed, Index, Segment
<1>2. segments' = [segments EXCEPT ![i] = new] /\ new \in Segment /\ new.base > 0
  BY <1>1 DEF Grow, Segment
<1>3. \A f : f \in Span(new) <=> f \in Span(run) \/ f \in Span(segments[i])
  BY <1>1, <1>2, SpanMembers DEF Touches, EndAdjacent, StartAdjacent, Segment
<1> HIDE DEF new
<1>4. segments'[i] = new /\ TypeOK' /\ \A j \in Listed \ {i} : segments'[j] = segments[j]
  BY <1>1, <1>2 DEF IInv, TypeOK
<1> QED BY <1>1, <1>2, <1>3, <1>4, GiveBackKeeps

\* kmain's loop: the entry's segment is appended, skipped, or past what the cursor can count.
LEMMA ParseKeeps ==
  ASSUME IInv, ParseEntry
  PROVE  IInv'
<1> DEFINE k == parsed + 1
           entry == MemoryMap[k]
<1>1. /\ k \in 1 .. Len(MemoryMap) /\ live' = live /\ parsed \in Nat
      /\ k \in Usable <=> entry.usable
      /\ \A l \in Usable : l \in Nat /\ (l > k <=> l > parsed /\ l # k)
  BY Bounds DEF ParseEntry, IInv, TypeOK, Usable
<1>2. CASE overrun' = TRUE /\ UNCHANGED <<segments, cursor, parsed>>
  BY <1>1, <1>2, OverrunKeeps
<1>3. CASE /\ ~entry.usable \/ AlignedStart(entry) = AlignedEnd(entry)
           /\ parsed' = k /\ UNCHANGED <<segments, cursor, overrun>>
  <2>1. TypeOK'
    BY <1>1, <1>3 DEF IInv, TypeOK
  <2>2. NonNull' /\ FramesDisjoint'
    BY <1>1, <1>3 DEF IInv, NonNull, FramesDisjoint, Listed
  <2>3. Later' = Later \ {k}
    BY <1>1, <1>3 DEF Later
  <2>4. UnparsedDisjoint'
    BY <1>1, <1>3, <2>3 DEF IInv, UnparsedDisjoint, Listed, LaterSpan
  <2>5. k \in Later => LaterSpan(k) = {}
    <3>1. k \in Usable => MapSegment(entry) \in Segment
      BY FreeListAssumption
    <3>2. k \in Usable => MapSegment(entry).length = 0
      BY <1>1, <1>3, <3>1 DEF MapSegment, Segment
    <3> QED BY <3>1, <3>2, SpanMembers DEF Later, LaterSpan, Segment
  <2>6. LaterFrames' = LaterFrames
    BY <2>3, <2>5, InLaterFrames
  <2>7. ListFrames' = ListFrames /\ LiveFrames' = LiveFrames
    BY <1>1, <1>3 DEF ListFrames, LiveFrames, Listed
  <2> QED BY <2>1, <2>2, <2>4, <2>6, <2>7 DEF IInv, FramesConserved, Free, MapFrames
<1>4. CASE /\ entry.usable /\ Signed(cursor) >= 0
           /\ segments' = [segments EXCEPT ![cursor] = MapSegment(entry)]
           /\ cursor' = cursor + 1 /\ parsed' = k /\ UNCHANGED overrun
  <2>1. MapSegment(entry) \in Segment /\ MapSegment(entry).base > 0 /\ k \in Later
    BY <1>1, <1>4, FreeListAssumption DEF MapSegment, Later
  <2>2. cursor \in Index /\ cursor \in Nat
    BY <1>4, Bounds DEF IInv, TypeOK, Index, Signed, UINT8_MAX
  <2>3. TypeOK'
    BY <1>1, <1>4, <2>1, <2>2, Bounds DEF IInv, TypeOK, Index
  <2>a. Listed' = 0 .. cursor
    BY <1>4, <2>2 DEF Listed
  <2>b. /\ Listed' = Listed \cup {cursor} /\ cursor \notin Listed
        /\ \A j \in Listed : j \in Index /\ j # cursor
    BY <1>4, <2>2, <2>a, Bounds DEF Listed, Index
  <2>4. /\ Listed' = Listed \cup {cursor} /\ cursor \notin Listed
        /\ \A j \in Listed : j \in Index /\ segments'[j] = segments[j]
        /\ segments'[cursor] = MapSegment(entry)
    BY <1>4, <2>2, <2>b DEF IInv, TypeOK
  <2>5. Later' = Later \ {k}
    BY <1>1, <1>4 DEF Later
  <2>6. NonNull'
    BY <1>1, <2>1, <2>4 DEF IInv, NonNull
  <2>7. /\ \A j \in Listed : Span(segments'[j]) \cap Span(segments'[cursor]) = {}
        /\ \A run \in live : Span(run) \cap Span(segments'[cursor]) = {}
    BY <2>1, <2>4 DEF IInv, UnparsedDisjoint, LaterSpan
  <2>8. FramesDisjoint'
    BY <1>1, <2>4, <2>7 DEF IInv, FramesDisjoint
  <2>9. UnparsedDisjoint'
    <3>1. \A l \in Later' : LaterSpan(l) \cap Span(segments'[cursor]) = {}
      BY <2>1, <2>4, <2>5, FreeListAssumption DEF LaterSpan, Later
    <3> QED BY <1>1, <2>4, <2>5, <3>1 DEF IInv, UnparsedDisjoint, LaterSpan
  <2>10. FramesConserved'
    <3>1. \A f : f \in LaterFrames <=> f \in LaterFrames' \/ f \in LaterSpan(k)
      BY <2>1, <2>5, InLaterFrames
    <3>2. \A f : f \in ListFrames' <=> f \in ListFrames \/ f \in LaterSpan(k)
      <4>1. Span(segments'[cursor]) = LaterSpan(k)
        BY <2>4 DEF LaterSpan
      <4> QED BY <2>4, <4>1, InListFrames
    <3>3. LiveFrames' = LiveFrames
      BY <1>1 DEF LiveFrames
    <3>4. FramesConserved
      BY DEF IInv
    <3> QED BY <3>1, <3>2, <3>3, <3>4 DEF FramesConserved, Free, MapFrames
  <2> QED BY <2>3, <2>6, <2>8, <2>9, <2>10 DEF IInv
<1>5. cursor \in Int /\ Signed(cursor) \in Int
  BY Bounds DEF IInv, TypeOK, Signed
<1>6. IF ~entry.usable \/ AlignedStart(entry) = AlignedEnd(entry)
      THEN parsed' = k /\ UNCHANGED <<segments, cursor, overrun>>
      ELSE IF Signed(cursor) < 0
      THEN overrun' = TRUE /\ UNCHANGED <<segments, cursor, parsed>>
      ELSE /\ segments' = [segments EXCEPT ![cursor] = MapSegment(entry)]
           /\ cursor' = cursor + 1 /\ parsed' = k /\ UNCHANGED overrun
  BY DEF ParseEntry
<1> HIDE DEF k, entry
<1>7. CASE ~entry.usable \/ AlignedStart(entry) = AlignedEnd(entry)
  BY <1>3, <1>6, <1>7
<1>8. CASE ~(~entry.usable \/ AlignedStart(entry) = AlignedEnd(entry)) /\ Signed(cursor) < 0
  BY <1>2, <1>6, <1>8
<1>9. CASE ~(~entry.usable \/ AlignedStart(entry) = AlignedEnd(entry)) /\ ~(Signed(cursor) < 0)
  <2>1. Signed(cursor) >= 0
    BY <1>5, <1>9
  <2> QED BY <1>4, <1>6, <1>9, <2>1
<1> QED BY <1>7, <1>8, <1>9

-----------------------------------------------------------------------------

LEMMA IInvInit == Init => IInv
<1> SUFFICES ASSUME Init PROVE IInv
  OBVIOUS
<1>1. Listed = {} /\ Later = Usable /\ live = {}
  <2>1. cursor = 0 /\ parsed = 0 /\ live = {}
    BY DEF Init
  <2>2. \A k \in Usable : k > 0
    BY Bounds
  <2> QED BY <2>1, <2>2 DEF Listed, Later
<1>2. TypeOK
  <2>1. [base |-> 0, length |-> 0] \in Segment
    BY DEF Segment
  <2>2. segments \in [Index -> Segment]
    BY <2>1 DEF Init
  <2>3. cursor = 0 /\ overrun = FALSE /\ parsed = 0 /\ live = {}
    BY DEF Init
  <2>4. 0 \in 0 .. UINT8_MAX /\ 0 \in 0 .. Len(MemoryMap)
    BY Bounds
  <2>5. live \in SUBSET [base : Nat, length : Nat]
    BY <2>3
  <2> QED BY <2>2, <2>3, <2>4, <2>5 DEF TypeOK
<1>3. NonNull /\ FramesDisjoint /\ UnparsedDisjoint
  BY <1>1 DEF NonNull, FramesDisjoint, UnparsedDisjoint
<1>4. FramesConserved
  <2>1. ListFrames = {} /\ LiveFrames = {}
    BY <1>1, InListFrames, InLiveFrames
  <2>2. LaterFrames = MapFrames
    BY <1>1 DEF LaterFrames, MapFrames
  <2> QED BY <2>1, <2>2 DEF FramesConserved, Free
<1> QED BY <1>2, <1>3, <1>4 DEF IInv

\* What each operation does to live, apart from keeping the invariant.
LEMMA IInvStep ==
  ASSUME IInv, Next
  PROVE  /\ IInv'
         /\ \/ live' = live
            \/ \E run \in live' : live' = live \cup {run}
            \/ \E run \in live : live' = live \ {run}
<1>1. CASE ParseEntry
  BY <1>1, ParseKeeps DEF ParseEntry
<1>2. ASSUME NEW count \in Nat \ {0}, NEW physical, memory_allocate_frames(count, physical),
             Hand(physical, count), UNCHANGED parsed
      PROVE  IInv' /\ (live' = live \/ \E run \in live' : live' = live \cup {run})
  <2>1. CASE Take(count, physical)
    BY <1>2, <2>1, TakeKeeps DEF memory_allocate_frames, Hand
  <2>2. CASE NoFit(count, physical)
    <3>1. UNCHANGED <<segments, cursor, parsed, live>> /\ overrun' \in BOOLEAN
      BY <1>2, <2>2 DEF memory_allocate_frames, NoFit, Hand, IInv, TypeOK
    <3> QED BY <3>1, OverrunKeeps
  <2> QED BY <1>2, <2>1, <2>2 DEF memory_allocate_frames
<1>3. CASE AllocateFrame
  BY <1>2, <1>3 DEF AllocateFrame, TakeFrame
<1>4. CASE AllocateFrames
  BY <1>2, <1>4, Bounds DEF AllocateFrames
<1>5. CASE FreeFrame
  <2>1. PICK run \in live, ok \in BOOLEAN :
          /\ run.length = 1 /\ memory_free_frame(run.base, ok) /\ ~overrun /\ parsed' = parsed
          /\ live' = IF ok THEN live \ {run} ELSE live
    BY <1>5 DEF FreeFrame, Ready
  <2>2. ASSUME NEW i \in Listed, Touches(i, run.base), Grow(i, run.base), ok, UNCHANGED <<cursor, overrun>>
        PROVE  IInv'
    BY <2>1, <2>2, GrowKeeps
  <2>3. CASE ok /\ cursor # UINT8_MAX /\ AppendSegment(run.base, 1)
    <3>1. overrun' = overrun
      BY <2>3 DEF AppendSegment
    <3> QED BY <2>1, <2>3, <3>1, AppendKeeps
  <2>4. CASE ~ok /\ UNCHANGED <<segments, cursor, overrun>>
    <3>1. UNCHANGED <<segments, cursor, parsed, live>> /\ overrun' \in BOOLEAN
      BY <2>1, <2>4 DEF IInv, TypeOK
    <3> QED BY <3>1, OverrunKeeps, <2>1, <2>4
  <2> QED BY <2>1, <2>2, <2>3, <2>4 DEF memory_free_frame
<1>6. CASE FreeFrames
  <2>1. PICK run \in live :
          /\ AppendSegment(run.base, run.length) /\ ~overrun /\ parsed' = parsed
          /\ live' = IF overrun' THEN live ELSE live \ {run}
    BY <1>6 DEF FreeFrames, Ready, memory_free_frames
  <2> QED BY <2>1, AppendKeeps
<1> QED BY <1>1, <1>3, <1>4, <1>5, <1>6 DEF Next

LEMMA IInvUnchanged ==
  ASSUME IInv, UNCHANGED freeListVars
  PROVE  IInv'
<1>1. UNCHANGED <<segments, cursor, parsed, live>> /\ overrun' \in BOOLEAN
  BY DEF freeListVars, IInv, TypeOK
<1> QED BY <1>1, OverrunKeeps

\* The inductive invariant of the frame allocator and its callers.
THEOREM FreeListInductive == FreeListSpec => []IInv
<1>1. IInv /\ [Next]_freeListVars => IInv'
  BY IInvUnchanged, IInvStep
<1> QED BY IInvInit, <1>1, PTL DEF FreeListSpec

\* Type correctness: the cursor never leaves its byte, nor a segment its array.
THEOREM FreeListTypes == FreeListSpec => []TypeOK
<1>1. IInv => TypeOK BY DEF IInv
<1> QED BY <1>1, FreeListInductive, PTL

\* No frame is free twice, owned twice, or free and owned.
THEOREM FreeListDisjoint == FreeListSpec => []FramesDisjoint
<1>1. IInv => FramesDisjoint BY DEF IInv
<1> QED BY <1>1, FreeListInductive, PTL

\* No frame is lost.
THEOREM FreeListConserves == FreeListSpec => []FramesConserved
<1>1. IInv => FramesConserved BY DEF IInv
<1> QED BY <1>1, FreeListInductive, PTL

-----------------------------------------------------------------------------
(* What the callers' proofs need.                                            *)

\* Two runs handed out do not begin at the same frame.
LEMMA BasesApart ==
  ASSUME IInv, NEW run \in live, NEW other \in live, run.base = other.base
  PROVE  run = other
<1>1. /\ run \in Segment /\ run.length > 0
      /\ other \in Segment /\ other.length > 0
  BY DEF IInv, TypeOK, NonNull, Segment
<1>2. run.base \in Span(run) /\ run.base \in Span(other)
  BY <1>1, SpanMembers DEF Segment
<1> QED BY <1>2 DEF IInv, FramesDisjoint

\* A run the allocator hands out begins where none that is out does.
LEMMA FreshBase ==
  ASSUME IInv, NEW count \in Nat \ {0}, NEW physical,
         memory_allocate_frames(count, physical), Hand(physical, count)
  PROVE  \/ physical = 0 /\ live' = live
         \/ /\ physical \in Nat \ {0}
            /\ live' = live \cup {[base |-> physical, length |-> count]}
            /\ \A run \in live : run.base # physical
<1>1. CASE NoFit(count, physical)
  BY <1>1 DEF NoFit, Hand
<1>2. CASE Take(count, physical)
  <2> DEFINE new == [base |-> physical, length |-> count]
  <2>1. PICK i \in Listed : new \in Segment /\ physical > 0 /\ Span(new) \subseteq Span(segments[i])
    BY <1>2, TakeCuts DEF IInv
  <2>2. physical \in Nat \ {0} /\ physical \in Span(new)
    BY <2>1, SpanMembers DEF Segment
  <2>3. ASSUME NEW run \in live, run.base = physical PROVE FALSE
    <3>1. run \in Segment /\ run.length > 0
      BY DEF IInv, TypeOK, NonNull, Segment
    <3>2. physical \in Span(run)
      BY <2>3, <3>1, SpanMembers DEF Segment
    <3>3. Span(segments[i]) \cap Span(run) = {}
      BY DEF IInv, FramesDisjoint
    <3> HIDE DEF new
    <3> QED BY <2>1, <2>2, <3>2, <3>3
  <2> QED BY <2>2, <2>3 DEF Hand
<1> QED BY <1>1, <1>2 DEF memory_allocate_frames

-----------------------------------------------------------------------------
(* The refinement. Conservation and disjointness make the free frames the    *)
(* rest of the memory map, so what a step does to live says what it does to  *)
(* them.                                                                     *)

LEMMA FreeIsRest ==
  /\ IInv => Free = MapFrames \ LiveFrames
  /\ IInv' => Free' = MapFrames \ LiveFrames'
<1>1. ASSUME IInv PROVE \A f : f \in Free => f \notin LiveFrames
  BY <1>1, InListFrames, InLaterFrames, InLiveFrames DEF IInv, FramesDisjoint, UnparsedDisjoint, Free
<1>2. ASSUME IInv' PROVE \A f : f \in Free' => f \notin LiveFrames'
  BY <1>2, InListFrames, InLaterFrames, InLiveFrames DEF IInv, FramesDisjoint, UnparsedDisjoint, Free, LaterSpan
<1>3. IInv => Free \cup LiveFrames = MapFrames
  BY DEF IInv, FramesConserved
<1>4. IInv' => Free' \cup LiveFrames' = MapFrames
  BY DEF IInv, FramesConserved, MapFrames
<1> QED BY <1>1, <1>2, <1>3, <1>4

LEMMA PoolInit == Init => Pool!Init
<1> SUFFICES ASSUME Init PROVE Free = MapFrames /\ live = {}
  BY DEF Pool!Init
<1>1. live = {} /\ IInv
  BY IInvInit DEF Init
<1>2. LiveFrames = {}
  BY <1>1, InLiveFrames
<1> QED BY <1>1, <1>2, FreeIsRest

LEMMA PoolStep ==
  ASSUME IInv, Next
  PROVE  [Pool!Next]_<<Free, live>>
<1>1. IInv' /\ Free = MapFrames \ LiveFrames /\ Free' = MapFrames \ LiveFrames'
  BY IInvStep, FreeIsRest
<1>2. CASE live' = live
  <2>1. LiveFrames' = LiveFrames
    BY <1>2 DEF LiveFrames
  <2> QED BY <1>1, <1>2, <2>1
<1>3. ASSUME NEW run \in live', live' = live \cup {run}, run \notin live
      PROVE  Pool!Next
  <2>1. run \in Segment /\ run.base > 0 /\ run.length > 0
    BY <1>1 DEF IInv, TypeOK, NonNull, Segment
  <2>2. \A f : f \in LiveFrames' <=> f \in LiveFrames \/ f \in Span(run)
    BY <1>3, InLiveFrames
  <2>3. \A f : f \in Span(run) => f \notin LiveFrames
    BY <1>1, <1>3, InLiveFrames DEF IInv, FramesDisjoint
  <2>4. Span(run) \subseteq MapFrames
    BY <1>1, <2>2 DEF IInv, FramesConserved, MapFrames
  <2>5. run.base \in Span(run) /\ run.base + run.length - 1 \in Span(run)
    BY <2>1, SpanMembers DEF Segment
  <2> DEFINE e == run.base + run.length - 1
  <2>6. run = [base |-> run.base, length |-> (e + 1) - run.base]
    BY <2>1 DEF Segment
  <2>7. Pool!Span(run) = Span(run)
    BY DEF Pool!Span, Span
  <2>8. Pool!Allocate(run)
    BY <1>1, <1>3, <2>1, <2>2, <2>3, <2>4, <2>7 DEF Pool!Allocate
  <2>9. run.base \in MapFrames /\ e \in MapFrames
    BY <2>4, <2>5
  <2> HIDE DEF e
  <2> QED BY <2>6, <2>8, <2>9 DEF Pool!Next
<1>4. ASSUME NEW run \in live, live' = live \ {run}
      PROVE  Pool!Next
  <2>1. \A f : f \in LiveFrames <=> f \in LiveFrames' \/ f \in Span(run)
    BY <1>4, InLiveFrames
  <2>2. \A f : f \in Span(run) => f \notin LiveFrames'
    BY <1>4, InLiveFrames DEF IInv, FramesDisjoint
  <2>3. Span(run) \subseteq MapFrames
    BY <2>1 DEF IInv, FramesConserved
  <2>4. Pool!Span(run) = Span(run)
    BY DEF Pool!Span, Span
  <2>5. Pool!Free(run)
    BY <1>1, <1>4, <2>1, <2>2, <2>3, <2>4 DEF Pool!Free
  <2> QED BY <2>5 DEF Pool!Next
<1> QED BY <1>2, <1>3, <1>4, IInvStep

\* The free list implements the pool of frames: every behaviour of the allocator and
\* its callers is one of FramePool, whatever the map and the cursor's width.
THEOREM FreeListImplementsPool == FreeListSpec => PoolSpec
<1>1. IInv /\ [Next]_freeListVars => [Pool!Next]_(Pool!poolVars)
  <2> SUFFICES ASSUME IInv, [Next]_freeListVars PROVE [Pool!Next]_<<Free, live>>
    BY DEF Pool!poolVars
  <2>1. CASE UNCHANGED freeListVars
    BY <2>1 DEF freeListVars, Free, ListFrames, LaterFrames, Listed, Later
  <2> QED BY <2>1, PoolStep
<1> QED BY <1>1, PoolInit, FreeListInductive, PTL DEF FreeListSpec, PoolSpec, Pool!PoolSpec
=============================================================================
