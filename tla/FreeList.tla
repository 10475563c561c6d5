------------------------------- MODULE FreeList -------------------------------
(* The physical frame allocator: kmain parses the bootloader's memory map    *)
(* into Memory.freelist, and memory_allocate_frame(s) and                    *)
(* memory_free_frame(s) take frames from its segments and give them back.    *)
(* Addresses of frames are frame numbers (address / SIZE_4KB); 0 is what the *)
(* code returns for "no frame". memory_lock makes each operation one step.   *)
EXTENDS Integers, Sequences

CONSTANTS
  PAGE,       \* SIZE_4KB
  Half,       \* values of an int8_t below zero; 128 in the code
  MemoryMap,  \* the entries of memmap_request.response, in bytes
  MaxRun      \* the longest run a caller asks for, in frames

UINT8_MAX == 2 * Half - 1
Index == 0 .. UINT8_MAX - 1        \* the places of segments[255]
Segment == [base : Nat, length : Nat]

\* A byte read through an int8_t lvalue.
Signed(byte) == IF byte < Half THEN byte ELSE byte - 2 * Half

\* kmain's rounding of an address up to a frame, on a usable entry's first and last byte.
AlignUp(address) == (address + PAGE - 1) \div PAGE
AlignedStart(entry) == AlignUp(entry.base)
AlignedEnd(entry) == AlignUp(entry.base + entry.length - 1)
MapSegment(entry) ==
  [base |-> AlignedStart(entry), length |-> AlignedEnd(entry) - AlignedStart(entry)]

Usable == {i \in 1 .. Len(MemoryMap) : MemoryMap[i].usable}

Span(run) == run.base .. (run.base + run.length - 1)

\* The bootloader promises usable entries that are page aligned and do not overlap, and
\* none at address 0. What the allocator needs of that:
ASSUME FreeListAssumption ==
  /\ PAGE \in Nat \ {0} /\ Half \in Nat \ {0} /\ MaxRun \in Nat
  /\ MemoryMap \in Seq([usable : BOOLEAN, base : Nat, length : Nat])
  /\ \A i \in Usable : MapSegment(MemoryMap[i]) \in Segment /\ AlignedStart(MemoryMap[i]) > 0
  /\ \A i, j \in Usable :
       i # j => Span(MapSegment(MemoryMap[i])) \cap Span(MapSegment(MemoryMap[j])) = {}

VARIABLES
  segments,    \* Memory.freelist.segments
  cursor,      \* Memory.freelist.cursor, as the byte in memory
  overrun,     \* a write outside segments has happened: the model stops there
  parsed,      \* how many entries of the memory map kmain has parsed
  live         \* history: the runs handed out and not given back

freeListVars == <<segments, cursor, overrun, parsed, live>>

Init ==
  /\ segments = [i \in Index |-> [base |-> 0, length |-> 0]]
  /\ cursor = 0
  /\ overrun = FALSE
  /\ parsed = 0
  /\ live = {}

-----------------------------------------------------------------------------
(* kmain: one turn of the loop over the memory map, which indexes segments   *)
(* by the cursor as an int8_t.                                               *)

ParseEntry ==
  /\ parsed < Len(MemoryMap) /\ ~overrun
  /\ LET entry == MemoryMap[parsed + 1] IN
       IF ~entry.usable \/ AlignedStart(entry) = AlignedEnd(entry)
       THEN parsed' = parsed + 1 /\ UNCHANGED <<segments, cursor, overrun>>
       ELSE IF Signed(cursor) < 0
       THEN overrun' = TRUE /\ UNCHANGED <<segments, cursor, parsed>>
       ELSE /\ segments' = [segments EXCEPT ![cursor] = MapSegment(entry)]
            /\ cursor' = cursor + 1
            /\ parsed' = parsed + 1
            /\ UNCHANGED overrun
  /\ UNCHANGED live

-----------------------------------------------------------------------------
(* Allocation scans the segments below the cursor read as an int8_t, and     *)
(* takes from the end of the first one that is long enough.                  *)

Fits(count) == {i \in 0 .. Signed(cursor) - 1 : segments[i].length >= count}

memory_nth_segment(seg, n) == seg.base + n

\* Mutant: the frames taken are the first of the segment, which keeps its base.
TakeFront(count, physical) ==
  \E i \in Fits(count) :
    /\ \A j \in Fits(count) : i <= j
    /\ physical = memory_nth_segment(segments[i], 0)
    /\ segments' = [segments EXCEPT ![i].length = @ - count]

Take(count, physical) ==
  \E i \in Fits(count) :
    /\ \A j \in Fits(count) : i <= j
    /\ physical = memory_nth_segment(segments[i], segments[i].length - count)
    /\ segments' = [segments EXCEPT ![i].length = @ - count]

NoFit(count, physical) == Fits(count) = {} /\ physical = 0 /\ UNCHANGED segments

memory_allocate_frames(count, physical) ==
  /\ Take(count, physical) \/ NoFit(count, physical)
  /\ UNCHANGED <<cursor, overrun>>

\* The single frame comes the same way; what becomes of it as a heap page is module
\* Heap's affair.
TakeFrame(physical) == memory_allocate_frames(1, physical)

-----------------------------------------------------------------------------
(* Freeing reads the cursor through a uint8_t pointer.                       *)

Listed == 0 .. cursor - 1
EndAdjacent(i, physical) == segments[i].base + segments[i].length = physical
StartAdjacent(i, physical) == physical + 1 = segments[i].base
Touches(i, physical) == EndAdjacent(i, physical) \/ StartAdjacent(i, physical)

\* Mutant: a segment that grows downward keeps its base.
ForgetBase(i, physical) ==
  segments' = [segments EXCEPT ![i].length = @ + 1]

Grow(i, physical) ==
  segments' = [segments EXCEPT ![i] =
    [base |-> IF EndAdjacent(i, physical) THEN @.base ELSE physical, length |-> @.length + 1]]

\* Mutant: the cursor is bumped whether the list is full or not.
AppendUnbounded(physical, count) ==
  /\ segments' = [segments EXCEPT ![cursor] = [base |-> physical, length |-> count]]
  /\ cursor' = cursor + 1
  /\ UNCHANGED overrun

\* Mutant: the cursor is not bumped.
AppendForgotten(physical, count) ==
  /\ segments' = [segments EXCEPT ![cursor] = [base |-> physical, length |-> count]]
  /\ UNCHANGED <<cursor, overrun>>

\* One more segment at the cursor; past the end of the array it lands on the cursor
\* and on heap_pages, which follow the array in Memory.
AppendSegment(physical, count) ==
  IF cursor = UINT8_MAX
  THEN overrun' = TRUE /\ UNCHANGED <<segments, cursor>>
  ELSE /\ segments' = [segments EXCEPT ![cursor] = [base |-> physical, length |-> count]]
       /\ cursor' = cursor + 1
       /\ UNCHANGED overrun

memory_free_frame(physical, ok) ==
  \/ \E i \in Listed :
       /\ Touches(i, physical)
       /\ \A j \in 0 .. i - 1 : ~Touches(j, physical)
       /\ Grow(i, physical)
       /\ ok
       /\ UNCHANGED <<cursor, overrun>>
  \/ /\ \A i \in Listed : ~Touches(i, physical)
     /\ IF cursor = UINT8_MAX
        THEN ~ok /\ UNCHANGED <<segments, cursor, overrun>>
        ELSE ok /\ AppendSegment(physical, 1)

memory_free_frames(physical, count) == AppendSegment(physical, count)

-----------------------------------------------------------------------------
(* Callers that give back what they were given, once. The shell's frame      *)
(* commands leave that to the user (module Heap has kmalloc and kfree).      *)

Ready == parsed = Len(MemoryMap) /\ ~overrun

Hand(physical, count) ==
  live' = IF physical = 0 THEN live ELSE live \cup {[base |-> physical, length |-> count]}

Reachable == UNION {Span(segments[i]) : i \in Listed} \cup {0}

AllocateFrame ==
  /\ Ready
  /\ \E physical \in Reachable : TakeFrame(physical) /\ Hand(physical, 1)
  /\ UNCHANGED parsed

AllocateFrames ==
  /\ Ready
  /\ \E count \in 1 .. MaxRun, physical \in Reachable :
       memory_allocate_frames(count, physical) /\ Hand(physical, count)
  /\ UNCHANGED parsed

FreeFrame ==
  /\ Ready
  /\ \E run \in live, ok \in BOOLEAN :
       /\ run.length = 1
       /\ memory_free_frame(run.base, ok)
       /\ live' = IF ok THEN live \ {run} ELSE live
  /\ UNCHANGED parsed

FreeFrames ==
  /\ Ready
  /\ \E run \in live :
       /\ memory_free_frames(run.base, run.length)
       /\ live' = IF overrun' THEN live ELSE live \ {run}
  /\ UNCHANGED parsed

Next == ParseEntry \/ AllocateFrame \/ AllocateFrames \/ FreeFrame \/ FreeFrames

FreeListSpec == Init /\ [][Next]_freeListVars

-----------------------------------------------------------------------------

TypeOK ==
  /\ segments \in [Index -> Segment]
  /\ cursor \in 0 .. UINT8_MAX
  /\ overrun \in BOOLEAN
  /\ parsed \in 0 .. Len(MemoryMap)
  /\ live \in SUBSET [base : Nat, length : Nat]

\* No frame is in two segments of the free list, in a segment and handed out, or handed
\* out twice, through any order of allocating and freeing.
FramesDisjoint ==
  /\ \A i, j \in Listed : i # j => Span(segments[i]) \cap Span(segments[j]) = {}
  /\ \A i \in Listed : \A run \in live : Span(segments[i]) \cap Span(run) = {}
  /\ \A run, other \in live : run # other => Span(run) \cap Span(other) = {}

\* The frames on the list, of the entries kmain has not parsed yet, handed out, and of the
\* whole memory map.
Later == {k \in Usable : k > parsed}
ListFrames  == UNION {Span(segments[i]) : i \in Listed}
LaterFrames == UNION {Span(MapSegment(MemoryMap[k])) : k \in Later}
LiveFrames  == UNION {Span(run) : run \in live}
MapFrames   == UNION {Span(MapSegment(MemoryMap[k])) : k \in Usable}
Free == ListFrames \cup LaterFrames

\* The free list implements a pool of frames.
Pool == INSTANCE FramePool WITH Frame <- MapFrames, free <- Free, live <- live
PoolSpec == Pool!PoolSpec

\* No frame is lost: each is on the list, handed out or yet to be parsed.
FramesConserved == Free \cup LiveFrames = MapFrames

\* segments has room for 255 and memory_free_frame refuses a frame only when the cursor
\* is UINT8_MAX, so the list may hold up to 255 segments; then an allocation fails only
\* if none of them is long enough.
AllocationFindsSpace ==
  \A count \in 1 .. MaxRun : (\E i \in Listed : segments[i].length >= count) => Fits(count) # {}

-----------------------------------------------------------------------------
(* The inductive invariant behind the safety properties (FreeListProofs).    *)

LaterSpan(k) == Span(MapSegment(MemoryMap[k]))

UnparsedDisjoint ==
  \A k \in Later :
    /\ \A i \in Listed : Span(segments[i]) \cap LaterSpan(k) = {}
    /\ \A run \in live : Span(run) \cap LaterSpan(k) = {}

NonNull ==
  /\ \A i \in Listed : segments[i].base > 0
  /\ \A run \in live : run.base > 0 /\ run.length > 0

IInv == TypeOK /\ NonNull /\ FramesDisjoint /\ UnparsedDisjoint /\ FramesConserved
=============================================================================
