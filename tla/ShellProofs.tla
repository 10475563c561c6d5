----------------------------- MODULE ShellProofs ------------------------------
(* For any memory map and store: the shell's pointers are of runs it owns,   *)
(* its use of the frame allocator is legal, so that what FreeListProofs      *)
(* proves holds under it, and the list of heap pages is what it should be.   *)
EXTENDS Shell, FreeListProofs, ListFacts, FiniteSetTheorems

LEMMA Lengths ==
  /\ MALLOC \in 1 .. MaxRun /\ RUN \in 1 .. MaxRun /\ MaxRun \in Nat /\ RUN # 1
  /\ MALLOC \in Nat \ {0} /\ RUN \in Nat \ {0}
BY ShellAssumption, Bounds

-----------------------------------------------------------------------------
(* Every command that reaches the allocator is one of its callers' steps.    *)

LEMMA CommandIsLegal ==
  ASSUME ShellIInv, ShellNext
  PROVE  [Next]_freeListVars
<1>1. CASE ShellParse
  BY <1>1 DEF ShellParse, Next
<1>2. CASE DumpPage
  BY <1>2 DEF DumpPage
<1>3. CASE kshell
  <2> USE <1>3 DEF kshell, Prompt
  <2>1. CASE malloc
    <3>1. AllocateFrames
      BY <2>1, Lengths DEF malloc, AllocateFrames
    <3> QED BY <3>1 DEF Next
  <2>2. CASE free
    <3>1. PointerStore # <<>> /\ Len(PointerStore) \in DOMAIN PointerStore
      BY <2>2 DEF free, ShellIInv
    <3>2. CASE Last(PointerStore) = 0
      BY <2>2, <3>2 DEF free, freeListVars
    <3>3. CASE Last(PointerStore) # 0
      <4>1. [base |-> Last(PointerStore), length |-> MALLOC] \in live
        BY <3>1, <3>3 DEF ShellIInv, StoreOwns, Stored, StoredRun, Last
      <4>2. FreeFrames
        BY <2>2, <3>3, <4>1 DEF free, FreeFrames
      <4> QED BY <4>2 DEF Next
    <3> QED BY <3>2, <3>3
  <2>3. CASE memory_allocate_frame
    <3>1. AllocateFrame
      BY <2>3 DEF memory_allocate_frame, AllocateFrame
    <3> QED BY <3>1 DEF Next
  <2>4. CASE frames
    <3>1. AllocateFrames
      BY <2>4, Lengths DEF frames, AllocateFrames
    <3> QED BY <3>1 DEF Next
  <2>5. CASE freeframe
    <3>1. [base |-> frame, length |-> 1] \in live
      BY <2>5 DEF freeframe, ShellIInv, StoreOwns
    <3>2. FreeFrame
      BY <2>5, <3>1 DEF freeframe, FreeFrame
    <3> QED BY <3>2 DEF Next
  <2>6. CASE freeframes
    <3>1. [base |-> frame, length |-> RUN] \in live
      BY <2>6, Lengths DEF freeframes, ShellIInv, StoreOwns
    <3>2. FreeFrames
      BY <2>6, <3>1 DEF freeframes, FreeFrames
    <3> QED BY <3>2 DEF Next
  <2>7. CASE NoAllocToFree \/ Misuse \/ heapdump
    BY <2>7 DEF NoAllocToFree, Misuse, heapdump, freeListVars
  <2> QED BY <2>1, <2>2, <2>3, <2>4, <2>5, <2>6, <2>7
<1> QED BY <1>1, <1>2, <1>3 DEF ShellNext

-----------------------------------------------------------------------------
(* The store's pointers are of runs handed out.                              *)

\* StoreOwns in terms of values.
Owns(store, runs, at, count) ==
  /\ store \in Seq(Nat) /\ count \in {0, 1, RUN}
  /\ \A k \in 1 .. Len(store) : store[k] # 0 => [base |-> store[k], length |-> MALLOC] \in runs
  /\ \A k, l \in 1 .. Len(store) : k # l /\ store[k] # 0 => store[k] # store[l]
  /\ count # 0 => \A k \in 1 .. Len(store) : store[k] # 0 => store[k] # at
  /\ count # 0 => [base |-> at, length |-> count] \in runs

LEMMA OwnsStore ==
  /\ PointerStore \in Seq(Nat) /\ mine \in {0, 1, RUN} /\ StoreOwns
       <=> Owns(PointerStore, live, frame, mine)
  /\ PointerStore' \in Seq(Nat) /\ mine' \in {0, 1, RUN} /\ StoreOwns'
       <=> Owns(PointerStore', live', frame', mine')
<1>1. ASSUME PointerStore \in Seq(Nat)
      PROVE  StoreOwns /\ mine \in {0, 1, RUN} <=> Owns(PointerStore, live, frame, mine)
  <2>1. DOMAIN PointerStore = 1 .. Len(PointerStore)
    BY <1>1
  <2> QED BY <1>1, <2>1 DEF Owns, StoreOwns, Stored, StoredRun
<1>2. ASSUME PointerStore' \in Seq(Nat)
      PROVE  StoreOwns' /\ mine' \in {0, 1, RUN} <=> Owns(PointerStore', live', frame', mine')
  <2>1. DOMAIN PointerStore' = 1 .. Len(PointerStore')
    BY <1>2
  <2> QED BY <1>2, <2>1 DEF Owns, StoreOwns, Stored, StoredRun
<1>3. /\ Owns(PointerStore, live, frame, mine) => PointerStore \in Seq(Nat)
      /\ Owns(PointerStore', live', frame', mine') => PointerStore' \in Seq(Nat)
  BY DEF Owns
<1> QED BY <1>1, <1>2, <1>3

\* The same pointers, over runs of which none of theirs is missing.
LEMMA OwnsKept ==
  ASSUME NEW store, NEW runs, NEW at, NEW count, Owns(store, runs, at, count),
         NEW more, runs \subseteq more
  PROVE  Owns(store, more, at, count)
BY DEF Owns

\* A pointer more: of a failed request, or of a run that begins where none else does.
LEMMA OwnsPushed ==
  ASSUME NEW store, NEW runs, NEW at, NEW count, Owns(store, runs, at, count), NEW physical,
         NEW more, runs \subseteq more,
         \/ physical = 0
         \/ /\ physical \in Nat \ {0}
            /\ [base |-> physical, length |-> MALLOC] \in more
            /\ \A run \in runs : run.base # physical
  PROVE  Owns(Append(store, physical), more, at, count)
<1> DEFINE new == Append(store, physical)
<1>1. /\ store \in Seq(Nat) /\ new \in Seq(Nat) /\ Len(store) \in Nat /\ physical \in Nat
      /\ Len(new) = Len(store) + 1
      /\ \A k \in 1 .. Len(new) : \/ k \in 1 .. Len(store) /\ new[k] = store[k]
                                  \/ k = Len(store) + 1 /\ new[k] = physical
  BY DEF Owns
<1>2. \A k \in 1 .. Len(store) : store[k] # 0 /\ physical # 0 => store[k] # physical
  <2> SUFFICES ASSUME NEW k \in 1 .. Len(store), store[k] # 0, physical # 0 PROVE store[k] # physical
    OBVIOUS
  <2>1. [base |-> store[k], length |-> MALLOC] \in runs
    BY DEF Owns
  <2>2. [base |-> store[k], length |-> MALLOC].base = store[k]
    OBVIOUS
  <2> QED BY <2>1, <2>2
<1>3. count # 0 /\ physical # 0 => physical # at
  <2> SUFFICES ASSUME count # 0, physical # 0 PROVE physical # at
    OBVIOUS
  <2>1. [base |-> at, length |-> count] \in runs
    BY DEF Owns
  <2>2. [base |-> at, length |-> count].base = at
    OBVIOUS
  <2> QED BY <2>1, <2>2
<1> HIDE DEF new
<1>4. \A k \in 1 .. Len(new) : new[k] # 0 => [base |-> new[k], length |-> MALLOC] \in more
  BY <1>1 DEF Owns
<1>5. \A k, l \in 1 .. Len(new) : k # l /\ new[k] # 0 => new[k] # new[l]
  BY <1>1, <1>2 DEF Owns
<1>6. count # 0 => \A k \in 1 .. Len(new) : new[k] # 0 => new[k] # at
  BY <1>1, <1>3 DEF Owns
<1>7. count # 0 => [base |-> at, length |-> count] \in more
  BY DEF Owns
<1>8. Owns(new, more, at, count)
  BY <1>1, <1>4, <1>5, <1>6, <1>7 DEF Owns
<1> QED BY <1>8 DEF new

\* The last pointer less, and its run with it.
LEMMA OwnsPopped ==
  ASSUME NEW store, NEW runs, NEW at, NEW count, Owns(store, runs, at, count), store # <<>>,
         NEW less, \/ less = runs
                   \/ /\ Last(store) # 0
                      /\ less = runs \ {[base |-> Last(store), length |-> MALLOC]}
  PROVE  Owns(Front(store), less, at, count)
<1> DEFINE new == Front(store)
           gone == [base |-> Last(store), length |-> MALLOC]
<1>1. /\ store \in Seq(Nat) /\ Len(store) \in Nat \ {0} /\ new \in Seq(Nat) /\ Len(new) = Len(store) - 1
      /\ \A k \in 1 .. Len(new) : k \in 1 .. Len(store) /\ new[k] = store[k] /\ k # Len(store)
      /\ Last(store) = store[Len(store)] /\ Len(store) \in 1 .. Len(store)
  <2>1. store \in Seq(Nat) /\ Len(store) \in Nat \ {0}
    BY DEF Owns
  <2>2. new = [k \in 1 .. Len(store) - 1 |-> store[k]]
    BY <2>1 DEF Front
  <2>3. \A k \in 1 .. Len(store) - 1 : k \in 1 .. Len(store) /\ store[k] \in Nat /\ k # Len(store)
    BY <2>1
  <2>4. new \in Seq(Nat) /\ Len(new) = Len(store) - 1
    BY <2>1, <2>2, <2>3
  <2> QED BY <2>1, <2>2, <2>3, <2>4 DEF Last
<1>2. /\ \A b : [base |-> b, length |-> MALLOC] = gone => b = Last(store)
      /\ \A b, n : [base |-> b, length |-> n] = gone => b = Last(store)
  <2> HIDE DEF gone
  <2>1. ASSUME NEW b, NEW n, [base |-> b, length |-> n] = gone PROVE b = Last(store)
    <3>1. [base |-> b, length |-> n].base = gone.base
      BY <2>1
    <3>2. gone.base = Last(store) /\ [base |-> b, length |-> n].base = b
      BY DEF gone
    <3> QED BY <3>1, <3>2
  <2> QED BY <2>1
<1>3. \A run \in runs : run \in less \/ (run = gone /\ Last(store) # 0)
  <2>1. less = runs \/ (Last(store) # 0 /\ less = runs \ {gone})
    OBVIOUS
  <2> HIDE DEF gone
  <2> QED BY <2>1
<1> HIDE DEF new, gone
<1>4. \A k \in 1 .. Len(new) : new[k] # 0 => [base |-> new[k], length |-> MALLOC] \in less
  <2> SUFFICES ASSUME NEW k \in 1 .. Len(new), new[k] # 0 PROVE [base |-> new[k], length |-> MALLOC] \in less
    OBVIOUS
  <2>1. [base |-> new[k], length |-> MALLOC] \in runs /\ new[k] # Last(store)
    BY <1>1 DEF Owns
  <2> QED BY <1>2, <1>3, <2>1
<1>5. \A k, l \in 1 .. Len(new) : k # l /\ new[k] # 0 => new[k] # new[l]
  BY <1>1 DEF Owns
<1>6. count # 0 => \A k \in 1 .. Len(new) : new[k] # 0 => new[k] # at
  BY <1>1 DEF Owns
<1>7. count # 0 => [base |-> at, length |-> count] \in less
  <2> SUFFICES ASSUME count # 0 PROVE [base |-> at, length |-> count] \in less
    OBVIOUS
  <2>1. [base |-> at, length |-> count] \in runs /\ (Last(store) # 0 => Last(store) # at)
    BY <1>1 DEF Owns
  <2> QED BY <1>2, <1>3, <2>1
<1>8. Owns(new, less, at, count)
  BY <1>1, <1>4, <1>5, <1>6, <1>7 DEF Owns
<1> QED BY <1>8 DEF new

\* Each command keeps the pointers in order: a run allocated begins where no other does,
\* a run freed is not in the store any more.
LEMMA CommandKeepsOwners ==
  ASSUME ShellIInv, ShellNext
  PROVE  Owns(PointerStore', live', frame', mine')
<1>1. IInv /\ Owns(PointerStore, live, frame, mine)
  BY OwnsStore DEF ShellIInv
<1> DEFINE Same == Owns(PointerStore', live', frame', mine')
<1>2. ASSUME UNCHANGED <<PointerStore, live, frame, mine>> PROVE Same
  BY <1>1, <1>2
<1>3. CASE ShellParse
  BY <1>2, <1>3 DEF ShellParse, ParseEntry, shellVars
<1>4. CASE DumpPage
  BY <1>2, <1>4 DEF DumpPage, freeListVars
<1>5. CASE malloc
  <2>1. PICK physical \in Reachable :
          /\ memory_allocate_frames(MALLOC, physical)
          /\ Hand(physical, MALLOC)
          /\ pointer_push(physical)
    BY <1>5 DEF malloc
  <2>2. frame' = frame /\ mine' = mine
    BY <1>5 DEF malloc
  <2>3. \/ physical = 0 /\ live' = live
        \/ /\ physical \in Nat \ {0} /\ live' = live \cup {[base |-> physical, length |-> MALLOC]}
           /\ \A run \in live : run.base # physical
    BY <1>1, <2>1, FreshBase, Lengths
  <2>4. live \subseteq live'
    BY <2>3
  <2>5. CASE PointerStore' = PointerStore
    BY <1>1, <2>2, <2>4, <2>5, OwnsKept
  <2>6. CASE PointerStore' = Append(PointerStore, physical)
    BY <1>1, <2>2, <2>3, <2>4, <2>6, OwnsPushed
  <2> QED BY <2>1, <2>5, <2>6 DEF pointer_push
<1>6. CASE free
  <2>1. /\ PointerStore # <<>> /\ PointerStore' = Front(PointerStore)
        /\ frame' = frame /\ mine' = mine
    BY <1>6 DEF free, pointer_pop
  <2>2. \/ live' = live
        \/ /\ Last(PointerStore) # 0
           /\ live' = live \ {[base |-> Last(PointerStore), length |-> MALLOC]}
    BY <1>6 DEF free
  <2> QED BY <1>1, <2>1, <2>2, OwnsPopped
\* The frame commands: what the variable frame named before is of no account.
<1>7. ASSUME NEW physical, NEW count \in {1, RUN},
             memory_allocate_frames(count, physical), Hand(physical, count),
             frame' = physical, mine' = IF physical = 0 THEN 0 ELSE count,
             PointerStore' = PointerStore
      PROVE  Same
  <2>1. \/ physical = 0 /\ live' = live
        \/ /\ physical \in Nat \ {0} /\ live' = live \cup {[base |-> physical, length |-> count]}
           /\ \A run \in live : run.base # physical
    BY <1>1, <1>7, FreshBase, Lengths
  <2>2. Owns(PointerStore, live', frame, mine)
    BY <1>1, <2>1, OwnsKept
  <2>3. CASE physical = 0
    BY <1>7, <2>2, <2>3 DEF Owns
  <2>4. CASE physical # 0
    <3>1. \A k \in 1 .. Len(PointerStore) : PointerStore[k] # 0 => PointerStore[k] # physical
      <4> SUFFICES ASSUME NEW k \in 1 .. Len(PointerStore), PointerStore[k] # 0
                   PROVE  PointerStore[k] # physical
        OBVIOUS
      <4>1. [base |-> PointerStore[k], length |-> MALLOC] \in live
        BY <1>1 DEF Owns
      <4>2. [base |-> PointerStore[k], length |-> MALLOC].base = PointerStore[k]
        OBVIOUS
      <4> QED BY <2>1, <2>4, <4>1, <4>2
    <3>2. [base |-> physical, length |-> count] \in live'
      BY <2>1, <2>4
    <3> QED BY <1>7, <2>2, <2>4, <3>1, <3>2 DEF Owns
  <2> QED BY <2>3, <2>4
<1>8. CASE memory_allocate_frame
  BY <1>7, <1>8 DEF memory_allocate_frame, TakeFrame
<1>9. CASE frames
  BY <1>7, <1>9 DEF frames
<1>10. ASSUME mine # 0, live' = live \/ (mine' = 0 /\ live' = live \ {[base |-> frame, length |-> mine]}),
              mine' \in {0, mine}, frame' = frame, PointerStore' = PointerStore
       PROVE  Same
  <2>1. CASE live' = live
    BY <1>1, <1>10, <2>1 DEF Owns
  <2>2. CASE mine' = 0 /\ live' = live \ {[base |-> frame, length |-> mine]}
    <3>1. ASSUME NEW k \in 1 .. Len(PointerStore), PointerStore[k] # 0
          PROVE  [base |-> PointerStore[k], length |-> MALLOC] \in live'
      <4>1. [base |-> PointerStore[k], length |-> MALLOC] \in live /\ PointerStore[k] # frame
        BY <1>1, <1>10, <3>1 DEF Owns
      <4>2. /\ [base |-> PointerStore[k], length |-> MALLOC].base = PointerStore[k]
            /\ [base |-> frame, length |-> mine].base = frame
        OBVIOUS
      <4>3. [base |-> PointerStore[k], length |-> MALLOC] # [base |-> frame, length |-> mine]
        BY <4>1, <4>2
      <4> QED BY <2>2, <4>1, <4>3
    <3> QED BY <1>1, <1>10, <2>2, <3>1 DEF Owns
  <2> QED BY <1>10, <2>1, <2>2
<1>11. CASE freeframe
  BY <1>10, <1>11 DEF freeframe
<1>12. CASE freeframes
  BY <1>10, <1>12, Lengths DEF freeframes
<1>13. CASE NoAllocToFree \/ Misuse \/ heapdump
  BY <1>2, <1>13 DEF NoAllocToFree, Misuse, heapdump, freeListVars, shellVars
<1> QED BY <1>3, <1>4, <1>5, <1>6, <1>8, <1>9, <1>11, <1>12, <1>13 DEF ShellNext, kshell

-----------------------------------------------------------------------------

LEMMA ShellInductive == ShellSpec => []ShellIInv
<1>1. ShellInit => ShellIInv
  BY IInvInit DEF ShellInit, ShellIInv, StoreOwns, Stored
<1>2. ShellIInv /\ [ShellNext]_<<freeListVars, shellVars>> => ShellIInv'
  <2> SUFFICES ASSUME ShellIInv, [ShellNext]_<<freeListVars, shellVars>> PROVE ShellIInv'
    OBVIOUS
  <2>1. CASE ShellNext
    <3>1. IInv'
      <4>1. CASE Next
        BY <4>1, IInvStep DEF ShellIInv
      <4>2. CASE UNCHANGED freeListVars
        BY <4>2, IInvUnchanged DEF ShellIInv
      <4> QED BY <2>1, <4>1, <4>2, CommandIsLegal
    <3> QED BY <2>1, <3>1, CommandKeepsOwners, OwnsStore DEF ShellIInv
  <2>2. CASE UNCHANGED <<freeListVars, shellVars>>
    <3>1. IInv'
      BY <2>2, IInvUnchanged DEF ShellIInv
    <3> QED BY <2>2, <3>1 DEF ShellIInv, StoreOwns, Stored, StoredRun, freeListVars, shellVars
  <2> QED BY <2>1, <2>2
<1> QED BY <1>1, <1>2, PTL DEF ShellSpec

\* Whatever is typed, every stored pointer is of a run of its own that the allocator has
\* handed out and that only free can give back.
THEOREM ShellStore == ShellSpec => []StoreOwns
<1>1. ShellIInv => StoreOwns
  BY DEF ShellIInv
<1> QED BY <1>1, ShellInductive, PTL

\* The shell is a legal client of the frame allocator, so that with FreeListImplementsPool
\* its commands never hand out a frame twice or lose one.
THEOREM ShellUsesFreeList == ShellSpec => FreeListSpec
<1>1. ShellInit => Init
  BY DEF ShellInit
<1>2. ShellIInv /\ [ShellNext]_<<freeListVars, shellVars>> => [Next]_freeListVars
  BY CommandIsLegal
<1> QED BY <1>1, <1>2, ShellInductive, PTL DEF ShellSpec, FreeListSpec
-----------------------------------------------------------------------------
(* The list of heap pages.                                                   *)

\* The memory map has finitely many frames, and none of them is frame 0.
LEMMA FramesFinite ==
  /\ IsFiniteSet(Frames) /\ Frames \subseteq Nat \ {0} /\ Cardinality(Frames) \in Nat
  /\ Frames = MapFrames
<1> DEFINE Of == [k \in Usable |-> Span(MapSegment(MemoryMap[k]))]
           S == {Span(MapSegment(MemoryMap[k])) : k \in Usable}
<1>1. IsFiniteSet(Usable)
  <2>1. IsFiniteSet(1 .. Len(MemoryMap))
    BY Bounds, FS_Interval
  <2> QED BY <2>1, Bounds, FS_Subset
<1>2. Of \in Surjection(Usable, S)
  BY DEF Surjection
<1>3. \A k \in Usable : MapSegment(MemoryMap[k]) \in Segment /\ MapSegment(MemoryMap[k]).base > 0
  BY FreeListAssumption DEF MapSegment
<1>4. IsFiniteSet(S)
  <2> HIDE DEF Of, S
  <2> QED BY <1>1, <1>2, FS_Surjection
<1>5. \A T \in S : IsFiniteSet(T)
  <2> SUFFICES ASSUME NEW k \in Usable PROVE IsFiniteSet(Span(MapSegment(MemoryMap[k])))
    OBVIOUS
  <2>1. PICK run \in Segment : run = MapSegment(MemoryMap[k])
    BY <1>3
  <2>2. run.base \in Int /\ run.base + run.length - 1 \in Int
    BY DEF Segment
  <2> QED BY <2>1, <2>2, FS_Interval DEF Span
<1>6. IsFiniteSet(UNION S)
  <2> HIDE DEF S
  <2> QED BY <1>4, <1>5, FS_UNION
<1>7. Frames = UNION S /\ Frames = MapFrames
  BY DEF Frames, MapFrames
<1>8. Frames \subseteq Nat \ {0}
  <2> SUFFICES ASSUME NEW k \in Usable, NEW f \in Span(MapSegment(MemoryMap[k])) PROVE f \in Nat \ {0}
    BY DEF Frames
  <2>1. PICK run \in Segment : run = MapSegment(MemoryMap[k]) /\ run.base > 0
    BY <1>3
  <2> QED BY <2>1, SpanMembers DEF Segment
<1> HIDE DEF S
<1> QED BY <1>6, <1>7, <1>8, FS_CardinalityType

\* What is handed out is of the memory map.
LEMMA LiveInFrames ==
  /\ IInv => \A run \in live : Span(run) \subseteq Frames /\ run.base \in Span(run) /\ run.base \in Frames
  /\ IInv' => \A run \in live' : Span(run) \subseteq Frames /\ run.base \in Span(run) /\ run.base \in Frames
<1>1. ASSUME NEW run \in Segment, run.length > 0 PROVE run.base \in Span(run)
  BY <1>1, SpanMembers DEF Segment
<1>2. ASSUME IInv, NEW run \in live PROVE Span(run) \subseteq Frames /\ run.base \in Span(run)
  <2>1. run \in Segment /\ run.length > 0
    BY <1>2 DEF IInv, TypeOK, NonNull, Segment
  <2>2. Span(run) \subseteq MapFrames
    BY <1>2, InLiveFrames DEF IInv, FramesConserved
  <2> QED BY <1>1, <2>1, <2>2, FramesFinite
<1>3. ASSUME IInv', NEW run \in live' PROVE Span(run) \subseteq Frames /\ run.base \in Span(run)
  <2>1. run \in Segment /\ run.length > 0
    BY <1>3 DEF IInv, TypeOK, NonNull, Segment
  <2>2. LiveFrames' \subseteq MapFrames
    BY <1>3 DEF IInv, FramesConserved, MapFrames
  <2>3. Span(run) \subseteq MapFrames
    BY <1>3, <2>2, InLiveFrames
  <2> QED BY <1>1, <2>1, <2>3, FramesFinite
<1> QED BY <1>2, <1>3

LEMMA PagesFinite ==
  /\ IInv => Pages \subseteq Frames /\ IsFiniteSet(Pages) /\ Cardinality(Pages) \in Nat /\ Cardinality(Pages) <= Cardinality(Frames)
  /\ \A f : f \in Pages <=> \E run \in live : run.length = 1 /\ run.base = f
  /\ \A f : f \in Pages' <=> \E run \in live' : run.length = 1 /\ run.base = f
<1>1. \A f : f \in Pages <=> \E run \in live : run.length = 1 /\ run.base = f
  BY DEF Pages
<1>2. \A f : f \in Pages' <=> \E run \in live' : run.length = 1 /\ run.base = f
  BY DEF Pages
<1>3. ASSUME IInv
      PROVE  Pages \subseteq Frames /\ IsFiniteSet(Pages) /\ Cardinality(Pages) \in Nat /\ Cardinality(Pages) <= Cardinality(Frames)
  <2>1. Pages \in SUBSET Frames
    BY <1>1, <1>3, LiveInFrames
  <2>2. IsFiniteSet(Pages) /\ Cardinality(Pages) <= Cardinality(Frames)
    BY <2>1, FramesFinite, FS_Subset
  <2> QED BY <2>1, <2>2, FS_CardinalityType
<1> QED BY <1>1, <1>2, <1>3

\* What an allocation returns, and what its memset leaves of the links.
LEMMA Allocated ==
  ASSUME IInv, IInv', NEW count \in Nat \ {0}, NEW physical,
         memory_allocate_frames(count, physical), Hand(physical, count)
  PROVE  /\ physical \in Frames \cup {0}
         /\ physical = 0 => live' = live
         /\ physical # 0 => live' = live \cup {[base |-> physical, length |-> count]}
         /\ physical # 0 => \A run \in live : run.base # physical /\ run.base \notin physical .. physical + count - 1
<1> DEFINE new == [base |-> physical, length |-> count]
<1>1. \/ physical = 0 /\ live' = live
      \/ /\ physical \in Nat \ {0} /\ live' = live \cup {new}
         /\ \A run \in live : run.base # physical
  BY FreshBase
<1>2. new.base = physical /\ new.length = count /\ Span(new) = physical .. physical + count - 1
  BY DEF Span
<1> HIDE DEF new
<1>3. CASE physical = 0
  BY <1>1, <1>3
<1>4. CASE physical # 0
  <2>1. new \in live' /\ live \subseteq live' /\ \A run \in live : run # new
    BY <1>1, <1>2, <1>4
  <2>2. physical \in Frames
    BY <1>2, <2>1, LiveInFrames
  <2>3. \A run \in live : Span(run) \cap Span(new) = {}
    BY <2>1 DEF IInv, FramesDisjoint
  <2>4. \A run \in live : run.base \in Span(run)
    BY LiveInFrames
  <2> QED BY <1>1, <1>2, <1>4, <2>2, <2>3, <2>4 DEF new
<1> QED BY <1>3, <1>4

\* The list is as long as before where its pages are the same and keep their links.
LEMMA ListKept ==
  ASSUME IInv, NEW path \in [1 .. Cardinality(Pages) + 1 -> Pages \cup {0}], Linked(path),
         Pages' = Pages, heap_pages' = heap_pages, \A p \in Pages : next'[p] = next[p]
  PROVE  \E way \in [1 .. Cardinality(Pages') + 1 -> Pages' \cup {0}] : Linked(way)'
<1>1. Linked(path)'
  BY DEF Linked
<1> QED BY <1>1

\* A page linked in front.
LEMMA ListGrown ==
  ASSUME IInv, NEW path \in [1 .. Cardinality(Pages) + 1 -> Pages \cup {0}], Linked(path),
         NEW physical, physical \notin Pages, physical # 0, Pages' = Pages \cup {physical},
         heap_pages' = physical, next'[physical] = heap_pages, \A p \in Pages : next'[p] = next[p]
  PROVE  \E way \in [1 .. Cardinality(Pages') + 1 -> Pages' \cup {0}] : Linked(way)'
<1>1. PICK n \in Nat : n = Cardinality(Pages)
  BY PagesFinite
<1>2. Cardinality(Pages') = n + 1
  BY <1>1, PagesFinite, FS_AddElement
<1> DEFINE way == [i \in 1 .. n + 2 |-> IF i = 1 THEN physical ELSE path[i - 1]]
<1>3. /\ path[1] = heap_pages /\ path[n + 1] = 0
      /\ \A i \in 1 .. n : path[i] \in Pages /\ next[path[i]] = path[i + 1]
      /\ \A p \in Pages : \E i \in 1 .. n : path[i] = p
      /\ \A i \in 1 .. n + 1 : path[i] \in Pages \cup {0}
  BY <1>1 DEF Linked
<1>4. \A i \in 1 .. n + 2 : i = 1 \/ (i # 1 /\ i - 1 \in 1 .. n + 1)
  OBVIOUS
<1>5. way \in [1 .. n + 2 -> Pages' \cup {0}]
  <2>1. \A i \in 1 .. n + 2 : (IF i = 1 THEN physical ELSE path[i - 1]) \in Pages' \cup {0}
    BY <1>3, <1>4
  <2> QED BY <2>1
<1>6. way[1] = physical /\ \A i \in 1 .. n + 1 : i + 1 \in 1 .. n + 2 /\ way[i + 1] = path[i]
  BY <1>1
<1>7. n + 1 \in 1 .. n + 1 /\ 1 \in 1 .. n + 1 /\ (n + 1) + 1 = n + 2
  OBVIOUS
<1> HIDE DEF way
<1>8. way[n + 2] = 0 /\ way[2] = heap_pages
  <2>1. way[(n + 1) + 1] = path[n + 1] /\ way[1 + 1] = path[1]
    BY <1>6, <1>7
  <2> QED BY <1>3, <2>1
<1>9. ASSUME NEW i \in 1 .. n + 1 PROVE way[i] \in Pages' /\ next'[way[i]] = way[i + 1]
  <2>1. CASE i = 1
    BY <1>6, <1>8, <2>1
  <2>2. CASE i # 1
    <3>1. PICK j \in 1 .. n : i = j + 1
      <4>1. i - 1 \in 1 .. n /\ i = (i - 1) + 1
        BY <2>2
      <4> QED BY <4>1
    <3>2. j \in 1 .. n + 1 /\ j + 1 \in 1 .. n + 1
      OBVIOUS
    <3>3. way[i] = path[j] /\ way[i + 1] = path[j + 1]
      BY <1>6, <3>1, <3>2
    <3>4. path[j] \in Pages /\ next[path[j]] = path[j + 1]
      BY <1>3
    <3> QED BY <3>3, <3>4
  <2> QED BY <2>1, <2>2
<1>10. ASSUME NEW p \in Pages' PROVE \E i \in 1 .. n + 1 : way[i] = p
  <2>1. CASE p = physical
    BY <1>6, <1>7, <2>1
  <2>2. CASE p # physical
    <3>1. PICK j \in 1 .. n : path[j] = p
      BY <1>3, <2>2
    <3>2. j + 1 \in 1 .. n + 1 /\ j \in 1 .. n + 1
      OBVIOUS
    <3> QED BY <1>6, <3>1, <3>2
  <2> QED BY <2>1, <2>2
<1>11. Linked(way)'
  <2>1. (n + 1) + 1 = n + 2
    OBVIOUS
  <2> QED BY <1>2, <1>6, <1>8, <1>9, <1>10, <2>1 DEF Linked
<1> QED BY <1>2, <1>5, <1>7, <1>11

LEMMA ListInit == ShellInit => ListIInv
<1> SUFFICES ASSUME ShellInit PROVE ListIInv
  OBVIOUS
<1>1. IInv /\ TypeOK /\ live = {}
  BY IInvInit DEF ShellInit, Init, IInv
<1>2. Pages = {}
  BY <1>1, PagesFinite
<1>3. Cardinality(Pages) = 0
  BY <1>2, FS_EmptySet
<1>4. next = [f \in Frames |-> 0] /\ PointerStore = <<>>
  BY DEF ShellInit
<1>5. ShellTypeOK
  <2>1. PointerStore \in Seq(Frames \cup {0}) /\ Len(PointerStore) <= ENTRIES
    BY <1>4, ShellAssumption
  <2>2. next \in [Frames -> Frames \cup {0}]
    BY <1>4
  <2> QED BY <1>1, <2>1, <2>2 DEF ShellTypeOK, ShellInit
<1> DEFINE path == [i \in 1 .. 1 |-> 0]
<1>6. path \in [1 .. 0 + 1 -> Pages \cup {0}] /\ path[1] = 0 /\ 0 + 1 = 1
  OBVIOUS
<1>7. Linked(path)
  <2> HIDE DEF path
  <2> QED BY <1>2, <1>3, <1>6 DEF Linked, ShellInit
<1> HIDE DEF path
<1> QED BY <1>3, <1>5, <1>6, <1>7 DEF ListIInv

LEMMA ZeroedTyped ==
  ASSUME ShellTypeOK, NEW physical, NEW count
  PROVE  /\ Zeroed(physical, count) \in [Frames -> Frames \cup {0}]
         /\ \A p \in Frames : ~(physical # 0 /\ p \in physical .. physical + count - 1)
                                => Zeroed(physical, count)[p] = next[p]
<1>1. next \in [Frames -> Frames \cup {0}]
  BY DEF ShellTypeOK
<1> QED BY <1>1 DEF Zeroed

\* The types.
LEMMA CommandTyped ==
  ASSUME ShellIInv, ShellTypeOK, IInv', ShellNext
  PROVE  ShellTypeOK'
<1>1. IInv /\ TypeOK' /\ FALSE \in BOOLEAN
  BY DEF ShellIInv, IInv
<1>2. /\ PointerStore \in Seq(Frames \cup {0}) /\ Len(PointerStore) <= ENTRIES
      /\ frame \in Frames \cup {0} /\ heap_pages \in Frames \cup {0}
      /\ next \in [Frames -> Frames \cup {0}] /\ dumping \in Frames \cup {0}
      /\ mine \in {0, 1, RUN} /\ unsound \in BOOLEAN /\ wild \in BOOLEAN
  BY DEF ShellTypeOK
<1> DEFINE Small == /\ frame' \in Frames \cup {0} /\ heap_pages' \in Frames \cup {0}
                    /\ dumping' \in Frames \cup {0} /\ mine' \in {0, 1, RUN}
           Store == PointerStore' \in Seq(Frames \cup {0}) /\ Len(PointerStore') <= ENTRIES
           Links == next' \in [Frames -> Frames \cup {0}]
           Flags == unsound' \in BOOLEAN /\ wild' \in BOOLEAN
<1>3. SUFFICES Small /\ Store /\ Links /\ Flags
  BY <1>1 DEF ShellTypeOK
<1>4. CASE ShellParse \/ NoAllocToFree
  BY <1>2, <1>4 DEF ShellParse, NoAllocToFree, shellVars
<1>5. CASE DumpPage
  <2>1. dumping \in Frames /\ next[dumping] \in Frames \cup {0}
    BY <1>2, <1>5 DEF DumpPage
  <2> QED BY <1>2, <1>5, <2>1 DEF DumpPage
<1>6. CASE malloc
  <2>1. PICK physical \in Reachable :
          /\ memory_allocate_frames(MALLOC, physical)
          /\ Hand(physical, MALLOC)
          /\ next' = Zeroed(physical, MALLOC)
          /\ pointer_push(physical)
    BY <1>6 DEF malloc
  <2>2. physical \in Frames \cup {0}
    BY <1>1, <2>1, Allocated, Lengths
  <2>3. Store
    <3>1. CASE Len(PointerStore) = ENTRIES
      BY <1>2, <2>1, <3>1 DEF pointer_push
    <3>2. CASE Len(PointerStore) # ENTRIES
      <4>1. PointerStore' = Append(PointerStore, physical)
        BY <2>1, <3>2 DEF pointer_push
      <4> QED BY <1>2, <2>2, <3>2, <4>1, ShellAssumption
    <3> QED BY <3>1, <3>2
  <2>4. Links
    BY <2>1, ZeroedTyped
  <2> QED BY <1>2, <1>6, <2>3, <2>4 DEF malloc
<1>7. CASE free
  <2>1. PointerStore # <<>> /\ PointerStore' = Front(PointerStore)
    BY <1>7 DEF free, pointer_pop
  <2>2. Store
    <3>1. PICK n \in Nat \ {0} : n = Len(PointerStore)
      BY <1>2, <2>1
    <3>2. \A k \in 1 .. n - 1 : k \in 1 .. n /\ PointerStore[k] \in Frames \cup {0}
      BY <1>2, <3>1
    <3>3. PointerStore' = [k \in 1 .. n - 1 |-> PointerStore[k]]
      BY <2>1, <3>1 DEF Front
    <3>4. n - 1 \in Nat /\ n <= ENTRIES
      BY <1>2, <3>1
    <3> QED BY <3>2, <3>3, <3>4, ShellAssumption
  <2>3. Flags
    BY <1>2, <1>7 DEF free
  <2> QED BY <1>2, <1>7, <2>2, <2>3 DEF free
<1>8. CASE memory_allocate_frame
  <2>1. PICK physical \in Reachable :
          /\ memory_allocate_frames(1, physical)
          /\ Hand(physical, 1)
          /\ IF physical = 0 THEN UNCHANGED <<heap_pages, next>> ELSE LinkPage(physical)
          /\ frame' = physical
          /\ mine' = IF physical = 0 THEN 0 ELSE 1
    BY <1>8 DEF memory_allocate_frame, TakeFrame
  <2>2. physical \in Frames \cup {0}
    BY <1>1, <2>1, Allocated
  <2>3. Links /\ heap_pages' \in Frames \cup {0}
    <3>1. CASE physical = 0
      BY <1>2, <2>1, <3>1
    <3>2. CASE physical # 0
      BY <1>2, <2>1, <2>2, <3>2, ZeroedTyped DEF LinkPage
    <3> QED BY <3>1, <3>2
  <2> QED BY <1>2, <1>8, <2>1, <2>2, <2>3 DEF memory_allocate_frame
<1>9. CASE frames
  <2>1. PICK physical \in Reachable :
          /\ memory_allocate_frames(RUN, physical)
          /\ Hand(physical, RUN)
          /\ next' = Zeroed(physical, RUN)
          /\ frame' = physical
          /\ mine' = IF physical = 0 THEN 0 ELSE RUN
    BY <1>9 DEF frames
  <2>2. physical \in Frames \cup {0}
    BY <1>1, <2>1, Allocated, Lengths
  <2>3. Links
    BY <2>1, ZeroedTyped
  <2> QED BY <1>2, <1>9, <2>1, <2>2, <2>3 DEF frames
<1>10. CASE freeframe
  <2>1. Flags
    BY <1>2, <1>10 DEF freeframe
  <2>2. mine' \in {0, 1, RUN}
    BY <1>2, <1>10 DEF freeframe
  <2> QED BY <1>2, <1>10, <2>1, <2>2 DEF freeframe
<1>11. CASE freeframes
  BY <1>2, <1>11 DEF freeframes
<1>12. CASE Misuse
  BY <1>2, <1>12 DEF Misuse
<1>13. CASE heapdump
  BY <1>2, <1>13 DEF heapdump
<1> QED BY <1>4, <1>5, <1>6, <1>7, <1>8, <1>9, <1>10, <1>11, <1>12, <1>13 DEF ShellNext, kshell

\* Each command keeps the list a way through the pages, freeframe apart.
LEMMA CommandKeepsList ==
  ASSUME ShellIInv, ListIInv, IInv', ShellNext, ~unsound'
  PROVE  \E way \in [1 .. Cardinality(Pages') + 1 -> Pages' \cup {0}] : Linked(way)'
<1>1. IInv /\ ShellTypeOK /\ heap_pages \in Frames \cup {0} /\ Pages \subseteq Frames /\ 0 \notin Frames
  BY PagesFinite, FramesFinite DEF ShellIInv, ListIInv, ShellTypeOK
<1> DEFINE Goal == \E way \in [1 .. Cardinality(Pages') + 1 -> Pages' \cup {0}] : Linked(way)'
\* A run of more than one frame comes or goes, or none.
<1>2. ASSUME ~unsound, heap_pages' = heap_pages, \A p \in Pages : next'[p] = next[p],
             \A run : run.length = 1 => (run \in live' <=> run \in live)
      PROVE  Goal
  <2>1. PICK path \in [1 .. Cardinality(Pages) + 1 -> Pages \cup {0}] : Linked(path)
    BY <1>2 DEF ListIInv
  <2>2. Pages' = Pages
    BY <1>2, PagesFinite
  <2> QED BY <1>1, <1>2, <2>1, <2>2, ListKept
<1>3. CASE ShellParse
  BY <1>2, <1>3 DEF ShellParse, ParseEntry, shellVars
<1>4. CASE DumpPage \/ NoAllocToFree \/ Misuse \/ heapdump
  BY <1>2, <1>4 DEF DumpPage, NoAllocToFree, Misuse, heapdump, freeListVars, shellVars
\* The memset of a run of frames does not reach a page handed out.
<1>5. ASSUME NEW count \in {MALLOC, RUN}, NEW physical,
             memory_allocate_frames(count, physical), Hand(physical, count),
             next' = Zeroed(physical, count), unsound' = unsound, heap_pages' = heap_pages
      PROVE  Goal
  <2>1. count \in Nat \ {0} /\ count # 1
    BY Lengths, ShellAssumption
  <2>2. /\ physical = 0 => live' = live
        /\ physical # 0 => live' = live \cup {[base |-> physical, length |-> count]}
        /\ physical # 0 => \A run \in live : run.base \notin physical .. physical + count - 1
    BY <1>1, <1>5, <2>1, Allocated
  <2>3. \A p \in Pages : next'[p] = next[p]
    <3> SUFFICES ASSUME NEW p \in Pages PROVE next'[p] = next[p]
      OBVIOUS
    <3>1. PICK run \in live : run.base = p
      BY PagesFinite
    <3> QED BY <1>1, <1>5, <2>2, <3>1, ZeroedTyped
  <2>4. \A run : run.length = 1 => (run \in live' <=> run \in live)
    <3> SUFFICES ASSUME NEW run, run.length = 1, run = [base |-> physical, length |-> count] PROVE FALSE
      BY <2>2
    <3>1. [base |-> physical, length |-> count].length = count
      OBVIOUS
    <3> QED BY <2>1, <3>1
  <2> QED BY <1>2, <1>5, <2>3, <2>4
<1>6. CASE malloc
  BY <1>5, <1>6 DEF malloc
<1>7. CASE frames
  BY <1>5, <1>7 DEF frames
\* A run goes back.
<1>8. ASSUME NEW base, NEW count \in {MALLOC, RUN}, UNCHANGED <<heap_pages, next, unsound>>,
             live' = live \/ live' = live \ {[base |-> base, length |-> count]}
      PROVE  Goal
  <2>1. count # 1
    BY Lengths, ShellAssumption
  <2>2. \A run : run.length = 1 => (run \in live' <=> run \in live)
    <3> SUFFICES ASSUME NEW run, run.length = 1, run = [base |-> base, length |-> count] PROVE FALSE
      BY <1>8
    <3>1. [base |-> base, length |-> count].length = count
      OBVIOUS
    <3> QED BY <2>1, <3>1
  <2> QED BY <1>2, <1>8, <2>2
<1>9. CASE free
  <2>1. live' = live \/ live' = live \ {[base |-> Last(PointerStore), length |-> MALLOC]}
    BY <1>9 DEF free
  <2>2. UNCHANGED <<heap_pages, next, unsound>>
    BY <1>9 DEF free
  <2> QED BY <1>8, <2>1, <2>2
<1>10. CASE freeframes
  <2>1. live' = live \/ live' = live \ {[base |-> frame, length |-> RUN]}
    BY <1>10 DEF freeframes
  <2>2. UNCHANGED <<heap_pages, next, unsound>>
    BY <1>10 DEF freeframes
  <2> QED BY <1>8, <2>1, <2>2
<1>11. CASE freeframe
  <2>1. ~unsound /\ live' = live /\ UNCHANGED <<heap_pages, next>>
    BY <1>11 DEF freeframe
  <2> QED BY <1>2, <2>1
<1>12. CASE memory_allocate_frame
  <2>1. PICK physical \in Reachable :
          /\ memory_allocate_frames(1, physical)
          /\ Hand(physical, 1)
          /\ IF physical = 0 THEN UNCHANGED <<heap_pages, next>> ELSE LinkPage(physical)
    BY <1>12 DEF memory_allocate_frame, TakeFrame
  <2>2. ~unsound
    BY <1>12 DEF memory_allocate_frame
  <2>3. /\ physical \in Frames \cup {0}
        /\ physical = 0 => live' = live
        /\ physical # 0 => live' = live \cup {[base |-> physical, length |-> 1]}
        /\ physical # 0 => \A run \in live : run.base # physical
    BY <1>1, <2>1, Allocated
  <2>4. CASE physical = 0
    BY <1>2, <2>1, <2>2, <2>3, <2>4
  <2>5. CASE physical # 0
    <3>1. PICK path \in [1 .. Cardinality(Pages) + 1 -> Pages \cup {0}] : Linked(path)
      BY <2>2 DEF ListIInv
    <3>2. physical \in Frames /\ physical \notin Pages
      BY <2>3, <2>5, PagesFinite
    <3>3. Pages' = Pages \cup {physical}
      <4>1. \A f : f \in Pages' <=> f \in Pages \/ f = physical
        <5> DEFINE new == [base |-> physical, length |-> 1]
        <5>1. new.base = physical /\ new.length = 1 /\ live' = live \cup {new}
          BY <2>3, <2>5
        <5> HIDE DEF new
        <5> QED BY <5>1, PagesFinite
      <4> QED BY <4>1
    <3>4. Zeroed(physical, 1) \in [Frames -> Frames \cup {0}]
      BY <1>1, ZeroedTyped
    <3>5. /\ heap_pages' = physical /\ next' = [Zeroed(physical, 1) EXCEPT ![physical] = heap_pages]
      BY <2>1, <2>5 DEF LinkPage
    <3>6. next'[physical] = heap_pages
      BY <3>2, <3>4, <3>5
    <3>7. ASSUME NEW p \in Pages PROVE next'[p] = next[p]
      <4>1. p \in Frames /\ p # physical /\ p \in Nat /\ physical \in Nat
        BY <1>1, <3>2, FramesFinite
      <4>2. p \notin physical .. physical + 1 - 1
        BY <4>1
      <4>3. Zeroed(physical, 1)[p] = next[p]
        BY <1>1, <4>1, <4>2, ZeroedTyped
      <4> QED BY <3>4, <3>5, <4>1, <4>3
    <3> QED BY <1>1, <2>5, <3>1, <3>2, <3>3, <3>5, <3>6, <3>7, ListGrown
  <2> QED BY <2>4, <2>5
<1> QED BY <1>3, <1>4, <1>6, <1>7, <1>9, <1>10, <1>11, <1>12 DEF ShellNext, kshell

LEMMA ListInductive == ShellSpec => [](ShellIInv /\ ListIInv)
<1>1. ASSUME ShellIInv, ShellIInv', ListIInv, [ShellNext]_<<freeListVars, shellVars>> PROVE ListIInv'
  <2>1. IInv' /\ (unsound' \/ ~unsound')
    BY <1>1 DEF ShellIInv
  <2>2. CASE ShellNext
    <3>1. ShellTypeOK'
      BY <1>1, <2>1, <2>2, CommandTyped DEF ListIInv
    <3>2. ~unsound' => \E way \in [1 .. Cardinality(Pages') + 1 -> Pages' \cup {0}] : Linked(way)'
      BY <1>1, <2>1, <2>2, CommandKeepsList
    <3> QED BY <3>1, <3>2 DEF ListIInv
  <2>3. CASE UNCHANGED <<freeListVars, shellVars>>
    <3>1. UNCHANGED <<PointerStore, frame, heap_pages, next, dumping, mine, unsound, wild, live>>
      BY <2>3 DEF freeListVars, shellVars
    <3>2. ShellTypeOK'
      BY <1>1, <2>1, <3>1 DEF ListIInv, ShellTypeOK, IInv
    <3>3. Pages' = Pages
      BY <3>1 DEF Pages
    <3>4. ~unsound' => \E path \in [1 .. Cardinality(Pages') + 1 -> Pages' \cup {0}] : Linked(path)'
      BY <1>1, <3>1, <3>3, ListKept DEF ListIInv, ShellIInv
    <3> QED BY <3>2, <3>4 DEF ListIInv
  <2> QED BY <1>1, <2>2, <2>3
<1> QED BY <1>1, ListInit, ShellInductive, PTL DEF ShellSpec

-----------------------------------------------------------------------------
(* The walk along the list.                                                  *)

Paths == {path \in Seq(Frames \cup {0}) : path # <<>>}
Onward(path) == IF Last(path) = 0 THEN path ELSE Append(path, next[Last(path)])

\* The paths after each of n steps, and a way of m pages.
Walked(n, h) ==
  /\ h \in [0 .. n -> Paths]
  /\ h[0] = <<heap_pages>>
  /\ \A k \in 1 .. n : h[k] = Onward(h[k - 1])

Way(m, path) ==
  /\ path \in [1 .. m + 1 -> Frames \cup {0}]
  /\ path[1] = heap_pages /\ path[m + 1] = 0
  /\ \A i \in 1 .. m : path[i] \in Frames /\ next[path[i]] = path[i + 1]

\* What of a way has been walked.
Upto(s, path, c) == Len(s) = c /\ \A i \in 1 .. c : s[i] = path[i]

LEMMA OnwardTyped ==
  ASSUME ShellTypeOK, NEW path \in Paths
  PROVE  Onward(path) \in Paths
<1>1. path \in Seq(Frames \cup {0}) /\ Len(path) \in Nat /\ Len(path) \in 1 .. Len(path)
  BY DEF Paths
<1>2. Last(path) \in Frames \cup {0}
  BY <1>1 DEF Last
<1>3. Last(path) # 0 => next[Last(path)] \in Frames \cup {0}
  BY <1>2 DEF ShellTypeOK
<1> QED BY <1>1, <1>3 DEF Onward, Paths

\* Walk goes from page to page, one step for each frame there is and one more.
LEMMA WalkFold ==
  ASSUME ShellTypeOK, NEW n \in Nat, n = Cardinality(Frames) + 1
  PROVE  \E h : Walked(n, h) /\ Walk = h[n]
<1> DEFINE base == <<heap_pages>>
           l == [k \in 1 .. n |-> k]
           it == CHOOSE iter : iter = [s \in SUBSET DOMAIN l |->
                   IF s = {} THEN base ELSE Onward(iter[s \ {Max(s)}])]
           F == [p \in Paths \X (1 .. n) |-> Onward(p[1])]
<1>1. Walk = it[DOMAIN l]
  BY DEF Walk, Onward, FoldLeft, MapThenFoldSet
<1>2. DOMAIN l = 1 .. n
  OBVIOUS
<1>3. \A k \in 1 .. n, v \in Paths : F[<<v, k>>] = Onward(v) /\ F[<<v, k>>] \in Paths
  BY OnwardTyped
<1>b. base \in Paths
  BY DEF Paths, ShellTypeOK
<1> HIDE DEF F, l, base
<1>4. PICK g : FoldOf(n, Paths, base, F, g)
  BY <1>3, <1>b, FoldExists
<1>5. ASSUME NEW s \in SUBSET (1 .. n), s # {}
      PROVE  g[s] = Onward(g[s \ {Max(s)}])
  <2>1. Max(s) \in s
    BY <1>5, FiniteMax
  <2>2. g[s] = F[<<g[s \ {Max(s)}], Max(s)>>] /\ g[s \ {Max(s)}] \in Paths
    BY <1>4, <1>5 DEF FoldOf
  <2> QED BY <1>3, <2>1, <2>2
<1>6. g = [s \in SUBSET (1 .. n) |-> g[s]] /\ g[{}] = base
  BY <1>4 DEF FoldOf
<1>7. g = [s \in SUBSET (1 .. n) |-> IF s = {} THEN base ELSE Onward(g[s \ {Max(s)}])]
  BY <1>5, <1>6
<1>8. it = [s \in SUBSET (1 .. n) |-> IF s = {} THEN base ELSE Onward(it[s \ {Max(s)}])]
  BY <1>2, <1>7
<1> HIDE DEF it
<1>9. it[{}] = base
  BY <1>8
<1>10. FoldsInto(n, Paths, base, F, it)
  <2>1. ASSUME NEW s \in SUBSET (1 .. n), s # {}, it[s \ {Max(s)}] \in Paths
        PROVE  it[s] = F[<<it[s \ {Max(s)}], Max(s)>>]
    <3>1. Max(s) \in 1 .. n
      BY <2>1, FiniteMax
    <3> QED BY <1>3, <1>8, <2>1, <3>1
  <2> QED BY <1>9, <2>1 DEF FoldsInto
<1>11. PICK path : PathOf(n, Paths, base, F, it, path)
  BY <1>3, <1>10, <1>b, FoldSteps
<1>12. PICK h \in [0 .. n -> Paths] :
         h[0] = base /\ (\A k \in 1 .. n : h[k] = F[<<h[k - 1], k>>]) /\ h[n] = it[1 .. n]
  BY <1>11 DEF PathOf
<1>13. \A k \in 1 .. n : h[k] = Onward(h[k - 1])
  <2> SUFFICES ASSUME NEW k \in 1 .. n PROVE h[k] = Onward(h[k - 1])
    OBVIOUS
  <2>1. k - 1 \in 0 .. n
    OBVIOUS
  <2> QED BY <1>3, <1>12, <2>1
<1> QED BY <1>1, <1>2, <1>12, <1>13 DEF base, Walked

\* Along a way that ends there it goes to the end, and stays.
LEMMA WalkAlong ==
  ASSUME ShellTypeOK, 0 \notin Frames, NEW m \in Nat, NEW n \in Nat, m <= n,
         NEW path, Way(m, path), NEW h, Walked(n, h)
  PROVE  Upto(h[n], path, m + 1)
<1> DEFINE P == {k \in Nat : k <= n => Upto(h[k], path, IF k <= m THEN k + 1 ELSE m + 1)}
<1>a. /\ path \in [1 .. m + 1 -> Frames \cup {0}]
      /\ path[1] = heap_pages /\ path[m + 1] = 0
      /\ \A i \in 1 .. m : path[i] \in Frames /\ next[path[i]] = path[i + 1]
  BY DEF Way
<1>b. h \in [0 .. n -> Paths] /\ h[0] = <<heap_pages>> /\ \A k \in 1 .. n : h[k] = Onward(h[k - 1])
  BY DEF Walked
<1> USE <1>a, <1>b
<1>1. 0 \in P
  <2>1. Len(<<heap_pages>>) = 1 /\ <<heap_pages>>[1] = heap_pages /\ 0 + 1 = 1 /\ \A i \in 1 .. 1 : i = 1
    OBVIOUS
  <2>2. (IF 0 <= m THEN 0 + 1 ELSE m + 1) = 1
    OBVIOUS
  <2>3. Upto(h[0], path, 1)
    BY <2>1 DEF Upto
  <2>4. Upto(h[0], path, IF 0 <= m THEN 0 + 1 ELSE m + 1)
    BY <2>2, <2>3
  <2> QED BY <2>4
<1>2. ASSUME NEW k \in Nat, k \in P PROVE k + 1 \in P
  <2> SUFFICES ASSUME k + 1 <= n PROVE Upto(h[k + 1], path, IF k + 1 <= m THEN (k + 1) + 1 ELSE m + 1)
    OBVIOUS
  <2>1. h[k + 1] = Onward(h[k]) /\ h[k] \in Paths
    <3>1. k + 1 \in 1 .. n /\ (k + 1) - 1 = k /\ k \in 0 .. n
      OBVIOUS
    <3> QED BY <3>1
  <2>2. PICK s \in Seq(Frames \cup {0}) : s = h[k] /\ s # <<>>
    BY <2>1 DEF Paths
  <2>3. Last(s) = s[Len(s)]
    BY DEF Last
  <2>4. CASE k + 1 <= m
    <3>1. Upto(s, path, k + 1)
      BY <1>2, <2>2, <2>4
    <3>2. k + 1 \in 1 .. m /\ k + 1 \in 1 .. k + 1 /\ (k + 1) + 1 \in 1 .. m + 1
      BY <2>4
    <3>3. Last(s) = path[k + 1] /\ path[k + 1] # 0 /\ next[path[k + 1]] = path[(k + 1) + 1]
      BY <2>3, <3>1, <3>2 DEF Upto
    <3>4. h[k + 1] = Append(s, path[(k + 1) + 1])
      BY <2>1, <2>2, <3>3 DEF Onward
    <3>5. path[(k + 1) + 1] \in Frames \cup {0}
      BY <3>2
    <3> DEFINE t == Append(s, path[(k + 1) + 1])
    <3>6. Len(t) = (k + 1) + 1 /\ \A i \in 1 .. (k + 1) + 1 : t[i] = IF i = (k + 1) + 1 THEN path[(k + 1) + 1] ELSE s[i]
      BY <3>1, <3>5 DEF Upto
    <3> HIDE DEF t
    <3>7. \A i \in 1 .. (k + 1) + 1 : i = (k + 1) + 1 \/ (i # (k + 1) + 1 /\ i \in 1 .. k + 1)
      OBVIOUS
    <3>8. Upto(t, path, (k + 1) + 1)
      BY <3>1, <3>6, <3>7 DEF Upto
    <3> QED BY <2>4, <3>4, <3>8 DEF t
  <2>5. CASE ~(k + 1 <= m)
    <3>1. Upto(s, path, m + 1)
      <4>1. ~(k <= m) \/ k = m
        BY <2>5
      <4> QED BY <1>2, <2>2, <4>1
    <3>2. m + 1 \in 1 .. m + 1
      OBVIOUS
    <3>3. Last(s) = 0
      BY <2>3, <3>1, <3>2 DEF Upto
    <3>4. h[k + 1] = s
      BY <2>1, <2>2, <3>3 DEF Onward
    <3> QED BY <2>5, <3>1, <3>4
  <2> QED BY <2>4, <2>5
<1>3. n \in P
  <2> HIDE DEF P
  <2> QED BY <1>1, <1>2, SetInduction
<1>4. Upto(h[n], path, IF n <= m THEN n + 1 ELSE m + 1)
  <2> QED BY <1>3
<1>5. (IF n <= m THEN n + 1 ELSE m + 1) = m + 1
  OBVIOUS
<1> QED BY <1>4, <1>5

LEMMA ListSound ==
  ASSUME ShellIInv, ListIInv
  PROVE  HeapListSound
<1> SUFFICES ASSUME ~unsound
             PROVE  /\ Last(Walk) = 0
                    /\ ToSet(Front(Walk)) = Pages
                    /\ Len(Walk) = Cardinality(Pages) + 1
  BY DEF HeapListSound
<1>1. /\ ShellTypeOK /\ 0 \notin Frames /\ Cardinality(Frames) \in Nat /\ Pages \subseteq Frames
      /\ Cardinality(Pages) <= Cardinality(Frames)
  BY PagesFinite, FramesFinite DEF ShellIInv, ListIInv
<1>2. PICK m, n \in Nat : m = Cardinality(Pages) /\ n = Cardinality(Frames) + 1 /\ m <= n
  BY <1>1, PagesFinite DEF ShellIInv
<1>3. PICK path \in [1 .. m + 1 -> Pages \cup {0}] : Linked(path)
  BY <1>2 DEF ListIInv
<1>4. /\ path[1] = heap_pages /\ path[m + 1] = 0
      /\ \A i \in 1 .. m : path[i] \in Pages /\ next[path[i]] = path[i + 1]
      /\ \A p \in Pages : \E i \in 1 .. m : path[i] = p
  BY <1>2, <1>3 DEF Linked
<1>5. path \in [1 .. m + 1 -> Frames \cup {0}] /\ \A i \in 1 .. m : path[i] \in Frames
  BY <1>1, <1>3, <1>4
<1>6. PICK h : Walked(n, h) /\ Walk = h[n]
  BY <1>1, <1>2, WalkFold
<1>7. Len(Walk) = m + 1 /\ \A i \in 1 .. m + 1 : Walk[i] = path[i]
  <2>1. Way(m, path)
    BY <1>4, <1>5 DEF Way
  <2>2. Upto(h[n], path, m + 1)
    BY <1>1, <1>2, <1>6, <2>1, WalkAlong
  <2> QED BY <1>6, <2>2 DEF Upto
<1>8. m + 1 \in 1 .. m + 1 /\ (m + 1) - 1 = m /\ \A i \in 1 .. m : i \in 1 .. m + 1
  OBVIOUS
<1>9. Last(Walk) = 0
  BY <1>4, <1>7, <1>8 DEF Last
<1>10. Front(Walk) = [i \in 1 .. m |-> path[i]]
  BY <1>7, <1>8 DEF Front
<1>11. ToSet(Front(Walk)) = {path[i] : i \in 1 .. m}
  BY <1>10 DEF ToSet
<1>12. {path[i] : i \in 1 .. m} = Pages
  BY <1>4
<1> QED BY <1>2, <1>7, <1>9, <1>11, <1>12

\* The pointers, the links and heapdump's page are of the memory map, or 0.
THEOREM ShellTypes == ShellSpec => []ShellTypeOK
<1>1. ListIInv => ShellTypeOK
  BY DEF ListIInv
<1> QED BY <1>1, ListInductive, PTL

\* Until freeframe has given back a linked page, the list of heap pages ends and goes
\* through every page handed out by frame, and nothing else, whatever else the shell does.
THEOREM ShellHeapList == ShellSpec => []HeapListSound
<1>1. ShellIInv /\ ListIInv => HeapListSound
  BY ListSound
<1> QED BY <1>1, ListInductive, PTL
=============================================================================
