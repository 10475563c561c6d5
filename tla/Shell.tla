-------------------------------- MODULE Shell --------------------------------
(* The commands of kshell over the frame allocator: malloc and free through  *)
(* PointerStore, the frame commands through the variable frame, and heapdump *)
(* over the list of heap pages, whose links lie in the pages themselves. The *)
(* shell runs on the boot processor alone, once every task is created. kmain *)
(* halts before its loop at present; the commands are modelled as they stand.*)
EXTENDS FreeList, FiniteSets, SequencesExt

CONSTANTS
  MALLOC,   \* frames of the 5000 bytes of the malloc command, headers included; 2
  RUN,      \* frames of the frames commands; 5
  ENTRIES   \* the room in PointerStore; UINT8_MAX in the code

ASSUME ShellAssumption ==
  MALLOC \in 2 .. MaxRun /\ RUN \in 2 .. MaxRun /\ ENTRIES \in Nat

VARIABLES
  PointerStore,  \* the frames the stored pointers are in
  frame,         \* the file-scope variable frame
  heap_pages,    \* Memory.heap_pages
  next,          \* page->next of the HeapPage at the start of each frame
  dumping,       \* heapdump's variable page; 0 when it is not in its loop
  mine,          \* history: how many frames at frame are the user's to give back
  unsound,       \* history: freeframe has given back a page that is linked
  wild           \* free got a failed malloc's pointer, or the user gave back what they
                 \* did not have: the model stops

shellVars == <<PointerStore, frame, heap_pages, next, dumping, mine, unsound, wild>>

Frames == UNION {Span(MapSegment(MemoryMap[k])) : k \in Usable}

ShellInit ==
  /\ Init
  /\ PointerStore = <<>>
  /\ frame = 0 /\ mine = 0
  /\ heap_pages = 0
  /\ next = [f \in Frames |-> 0]
  /\ dumping = 0
  /\ unsound = FALSE
  /\ wild = FALSE

Prompt == Ready /\ ~wild /\ dumping = 0

ShellParse == ParseEntry /\ UNCHANGED shellVars

-----------------------------------------------------------------------------

\* The memset of the frames handed out.
Zeroed(physical, count) ==
  [f \in Frames |-> IF physical # 0 /\ f \in physical .. physical + count - 1 THEN 0 ELSE next[f]]

\* Mutant: the store is not tested for room.
PushUnbounded(physical) == PointerStore' = Append(PointerStore, physical)

pointer_push(physical) ==
  IF Len(PointerStore) = ENTRIES THEN UNCHANGED PointerStore
  ELSE PointerStore' = Append(PointerStore, physical)

\* kmalloc of a big size: the pointer of a request that failed, into frame 0, is not NULL
\* and is stored like any other. A pointer that finds no room is forgotten.
malloc ==
  /\ \E physical \in Reachable :
       /\ memory_allocate_frames(MALLOC, physical)
       /\ Hand(physical, MALLOC)
       /\ next' = Zeroed(physical, MALLOC)
       /\ pointer_push(physical)
  /\ UNCHANGED <<parsed, frame, heap_pages, dumping, mine, unsound, wild>>

\* Mutant: the cursor of the store is not moved back.
PopKept == UNCHANGED PointerStore

pointer_pop == PointerStore' = Front(PointerStore)

\* kfree of the last pointer. What it finds in frame 0 is anybody's guess.
free ==
  /\ PointerStore # <<>>
  /\ pointer_pop
  /\ IF Last(PointerStore) = 0
     THEN wild' = TRUE /\ UNCHANGED <<segments, cursor, overrun, live>>
     ELSE /\ memory_free_frames(Last(PointerStore), MALLOC)
          /\ live' = IF overrun' THEN live ELSE live \ {[base |-> Last(PointerStore), length |-> MALLOC]}
          /\ UNCHANGED wild
  /\ UNCHANGED <<parsed, frame, heap_pages, next, dumping, mine, unsound>>

NoAllocToFree == PointerStore = <<>> /\ UNCHANGED <<freeListVars, shellVars>>

-----------------------------------------------------------------------------
(* The frame commands remember one result.                                   *)

\* Mutant: the page is linked before the link to the rest of the list is taken.
LinkLate(physical) ==
  /\ heap_pages' = physical
  /\ next' = [Zeroed(physical, 1) EXCEPT ![physical] = heap_pages']

\* Mutant: the page is zeroed after it has been linked.
ZeroLate(physical) ==
  /\ heap_pages' = physical
  /\ next' = Zeroed(physical, 1)

LinkPage(physical) ==
  /\ heap_pages' = physical
  /\ next' = [Zeroed(physical, 1) EXCEPT ![physical] = heap_pages]

memory_allocate_frame ==
  /\ \E physical \in Reachable :
       /\ TakeFrame(physical)
       /\ Hand(physical, 1)
       /\ IF physical = 0 THEN UNCHANGED <<heap_pages, next>> ELSE LinkPage(physical)
       /\ frame' = physical
       /\ mine' = IF physical = 0 THEN 0 ELSE 1
  /\ UNCHANGED <<parsed, PointerStore, dumping, unsound, wild>>

frames ==
  /\ \E physical \in Reachable :
       /\ memory_allocate_frames(RUN, physical)
       /\ Hand(physical, RUN)
       /\ next' = Zeroed(physical, RUN)
       /\ frame' = physical
       /\ mine' = IF physical = 0 THEN 0 ELSE RUN
  /\ UNCHANGED <<parsed, PointerStore, heap_pages, dumping, unsound, wild>>

\* The frame goes back to the free list and stays on the list of heap pages.
freeframe ==
  /\ mine = 1
  /\ \E ok \in BOOLEAN :
       /\ memory_free_frame(frame, ok)
       /\ live' = IF ok THEN live \ {[base |-> frame, length |-> 1]} ELSE live
       /\ mine' = IF ok THEN 0 ELSE mine
       /\ unsound' = (unsound \/ ok)
  /\ UNCHANGED <<parsed, PointerStore, frame, heap_pages, next, dumping, wild>>

\* Mutant: freeframes gives back one frame more.
FreeOneMore ==
  /\ mine = RUN
  /\ memory_free_frames(frame, RUN + 1)
  /\ live' = IF overrun' THEN live ELSE live \ {[base |-> frame, length |-> RUN]}
  /\ mine' = 0
  /\ UNCHANGED <<parsed, PointerStore, frame, heap_pages, next, dumping, unsound, wild>>

freeframes ==
  /\ mine = RUN
  /\ memory_free_frames(frame, RUN)
  /\ live' = IF overrun' THEN live ELSE live \ {[base |-> frame, length |-> RUN]}
  /\ mine' = 0
  /\ UNCHANGED <<parsed, PointerStore, frame, heap_pages, next, dumping, unsound, wild>>

\* freeframe or freeframes without what they free: nothing checks.
Misuse ==
  /\ wild' = TRUE
  /\ UNCHANGED <<freeListVars, PointerStore, frame, heap_pages, next, dumping, mine, unsound>>

-----------------------------------------------------------------------------

heapdump ==
  /\ dumping' = heap_pages
  /\ UNCHANGED <<freeListVars, PointerStore, frame, heap_pages, next, mine, unsound, wild>>

DumpPage ==
  /\ dumping # 0
  /\ dumping' = next[dumping]
  /\ UNCHANGED <<freeListVars, PointerStore, frame, heap_pages, next, mine, unsound, wild>>

kshell ==
  /\ Prompt
  /\ malloc \/ free \/ NoAllocToFree \/ memory_allocate_frame \/ frames \/ freeframe \/ freeframes
       \/ Misuse \/ heapdump

ShellNext == ShellParse \/ kshell \/ DumpPage

ShellSpec == ShellInit /\ [][ShellNext]_<<freeListVars, shellVars>>

\* The boot processor keeps executing a command it has begun.
FairShellSpec == ShellSpec /\ WF_<<freeListVars, shellVars>>(DumpPage)

-----------------------------------------------------------------------------

ShellTypeOK ==
  /\ TypeOK
  /\ PointerStore \in Seq(Frames \cup {0}) /\ Len(PointerStore) <= ENTRIES
  /\ frame \in Frames \cup {0}
  /\ heap_pages \in Frames \cup {0}
  /\ next \in [Frames -> Frames \cup {0}]
  /\ dumping \in Frames \cup {0}
  /\ mine \in {0, 1, RUN}
  /\ unsound \in BOOLEAN /\ wild \in BOOLEAN

Stored == {k \in DOMAIN PointerStore : PointerStore[k] # 0}
StoredRun(k) == [base |-> PointerStore[k], length |-> MALLOC]

\* Every pointer in the store that is not a failed malloc's is of a run the allocator has
\* handed out, stored once, and is not what the frame commands may give back.
StoreOwns ==
  /\ \A k \in Stored : StoredRun(k) \in live
  /\ \A k, l \in Stored : k # l => PointerStore[k] # PointerStore[l]
  /\ mine # 0 => \A k \in Stored : PointerStore[k] # frame
  /\ mine # 0 => [base |-> frame, length |-> mine] \in live

\* The pages handed out one by one, and the walk of the list that heapdump and kmalloc
\* make: page after page, at most one more than there are frames.
Pages == {run.base : run \in {r \in live : r.length = 1}}
Walk == FoldLeft(LAMBDA path, k : IF Last(path) = 0 THEN path ELSE Append(path, next[Last(path)]),
                 <<heap_pages>>, [k \in 1 .. Cardinality(Frames) + 1 |-> k])

\* Unless freeframe has given back a linked page, the list ends, and it goes through every
\* page handed out by frame once and through nothing else, whatever malloc, free and the
\* runs of frames zero and reuse in between.
HeapListSound ==
  ~unsound => /\ Last(Walk) = 0
              /\ ToSet(Front(Walk)) = Pages
              /\ Len(Walk) = Cardinality(Pages) + 1

\* heapdump comes back to the prompt, unless freeframe has given back a linked page.
DumpEnds == (dumping # 0 /\ ~unsound) ~> dumping = 0

-----------------------------------------------------------------------------
(* The inductive invariants behind the safety properties (ShellProofs).      *)

\* The store, over the invariant of the free list.
ShellIInv ==
  /\ IInv
  /\ PointerStore \in Seq(Nat) /\ mine \in {0, 1, RUN}
  /\ StoreOwns

\* The way from heap_pages through the pages handed out one by one, to 0.
Linked(path) ==
  /\ path[1] = heap_pages /\ path[Cardinality(Pages) + 1] = 0
  /\ \A i \in 1 .. Cardinality(Pages) : path[i] \in Pages /\ next[path[i]] = path[i + 1]
  /\ \A p \in Pages : \E i \in 1 .. Cardinality(Pages) : path[i] = p

\* The list, over ShellIInv.
ListIInv ==
  /\ ShellTypeOK
  /\ ~unsound => \E path \in [1 .. Cardinality(Pages) + 1 -> Pages \cup {0}] : Linked(path)
=============================================================================
