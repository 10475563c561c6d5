--------------------------------- MODULE Heap ---------------------------------
(* kmalloc and kfree over the frame allocator of FreeList. Sizes and offsets *)
(* are in words of 8 bytes: every size the kernel asks for is a multiple of  *)
(* 8. A small request is carved from the free nodes of a heap page, one      *)
(* frame; a larger one gets frames of its own. Both hold memory_lock from    *)
(* their first statement to their last, so each call is one step.            *)
EXTENDS FreeList, FiniteSets, SequencesExt

CONSTANTS
  FrameWords,  \* SIZE_4KB in words; 512 in the code
  Sizes        \* the sizes callers ask for

HEAP_PAGE == 4   \* sizeof(HeapPage)
HEAP_NODE == 2   \* sizeof(HeapNode)
HEADER    == 1   \* the size word before a block

SMALL_PAGE_MAXIMUM_SIZE == FrameWords - HEAP_PAGE - HEAP_NODE - HEADER

\* Mutant: the header is left out of the size.
FramesWithoutHeader(size) == (HEAP_PAGE + size + FrameWords - 1) \div FrameWords

FramesFor(size) == (HEAP_PAGE + HEADER + size + FrameWords - 1) \div FrameWords

\* Small pages have room for a request, and MaxRun is no bound on what the heap asks for.
ASSUME HeapAssumption ==
  /\ FrameWords \in Nat /\ SMALL_PAGE_MAXIMUM_SIZE > 0
  /\ Sizes \subseteq Nat \ {0}
  /\ \A size \in Sizes : size > SMALL_PAGE_MAXIMUM_SIZE => FramesFor(size) <= MaxRun
  /\ MaxRun > 0

VARIABLES
  heap_pages,  \* Memory.heap_pages, head first, as frame numbers
  page,        \* the HeapPage at the start of each frame on it, with its free nodes
  blocks,      \* what kmalloc returned and kfree has not had back, with the header word
  wild         \* kmalloc has gone on with frame 0 for want of frames: the model stops

heapVars == <<heap_pages, page, blocks, wild>>

Node  == [at : Nat, length : Nat]   \* at: where in its frame the HeapNode is
Block == [frame : Nat, base : Nat, size : Nat, header : Nat]   \* base: where the header is

HeapInit ==
  /\ Init
  /\ heap_pages = <<>>
  /\ page = <<>>
  /\ blocks = {}
  /\ wild = FALSE

HeapReady == Ready /\ ~wild

HeapParse == ParseEntry /\ UNCHANGED heapVars

-----------------------------------------------------------------------------
(* A big request: a run of frames with a HeapPage nobody links and the size  *)
(* header after it. A run that cannot be had is not noticed: the pointer     *)
(* returned then points into frame 0.                                        *)

KmallocBig(size) ==
  /\ size > SMALL_PAGE_MAXIMUM_SIZE
  /\ \E physical \in Reachable :
       /\ memory_allocate_frames(FramesFor(size), physical)
       /\ Hand(physical, FramesFor(size))
       /\ blocks' = blocks \cup
            {[frame |-> physical, base |-> HEAP_PAGE, size |-> size,
              header |-> FrameWords * FramesFor(size) - HEAP_PAGE - HEADER]}
       /\ wild' = (physical = 0)
  /\ UNCHANGED <<parsed, heap_pages, page>>

-----------------------------------------------------------------------------
(* A small request.                                                          *)

MaxLength(freelist) == Max({freelist[i].length : i \in DOMAIN freelist} \cup {0})

FreshPage ==
  LET length == FrameWords - HEAP_PAGE - HEAP_NODE IN
  [freelist |-> <<[at |-> HEAP_PAGE, length |-> length]>>, largest |-> length]

\* Mutant: only a rest of nothing is too small to split off.
TooSmallIfEmpty(remaining) == remaining = 0

TooSmall(remaining) == remaining < HEAP_NODE

BlockHeader(size, remaining) == IF TooSmall(remaining) THEN size + remaining ELSE size

\* Mutant: the rest of a node starts at the block's last word.
RestOneShort(node, size) ==
  [at |-> node.at + HEAP_NODE + size, length |-> node.length - (size + HEADER) - HEAP_NODE]

Rest(node, size) ==
  [at |-> node.at + HEAP_NODE + HEADER + size, length |-> node.length - (size + HEADER) - HEAP_NODE]

\* Mutant: the page's largest is what is left of the node, whatever the others are.
LargestFirst(freelist) == IF freelist = <<>> THEN 0 ELSE Head(freelist).length + HEAP_NODE

\* The recomputation of page->largest at the end of kmalloc.
NewLargest(freelist) == MaxLength(freelist)

\* First fit in a page: the node is split when a HeapNode fits in the rest. No node that
\* is long enough: kmalloc returns NULL and the page is as it was.
Carve(frame, pg, size) ==
  LET i == SelectInSeq(pg.freelist, LAMBDA node : node.length >= size + HEADER) IN
  IF i = 0
  THEN blocks' = blocks /\ page' = [f \in DOMAIN page \cup {frame} |-> IF f = frame THEN pg ELSE page[f]]
  ELSE LET node == pg.freelist[i]
           remaining == node.length - (size + HEADER)
           freelist == IF TooSmall(remaining) THEN RemoveAt(pg.freelist, i)
                       ELSE ReplaceAt(pg.freelist, i, Rest(node, size))
       IN /\ blocks' = blocks \cup
               {[frame |-> frame, base |-> node.at + HEAP_NODE, size |-> size,
                 header |-> BlockHeader(size, remaining)]}
          /\ page' = [f \in DOMAIN page \cup {frame} |->
               IF f = frame THEN [freelist |-> freelist, largest |-> NewLargest(freelist)] ELSE page[f]]

PagesFor(size) == {k \in DOMAIN heap_pages : page[heap_pages[k]].largest >= size + HEADER}

KmallocFromPage(size) ==
  /\ size <= SMALL_PAGE_MAXIMUM_SIZE
  /\ PagesFor(size) # {}
  /\ LET frame == heap_pages[Min(PagesFor(size))] IN Carve(frame, page[frame], size)
  /\ UNCHANGED <<segments, cursor, overrun, parsed, live, heap_pages, wild>>

\* memory_allocate_frame makes the frame a heap page and links it in front.
memory_allocate_frame(physical) ==
  /\ TakeFrame(physical)
  /\ heap_pages' = IF physical = 0 THEN heap_pages ELSE <<physical>> \o heap_pages

\* With no frame left, what is at physical address 0 is taken for a heap page.
KmallocFromNewPage(size) ==
  /\ size <= SMALL_PAGE_MAXIMUM_SIZE
  /\ PagesFor(size) = {}
  /\ \E physical \in Reachable :
       /\ memory_allocate_frame(physical)
       /\ Hand(physical, 1)
       /\ IF physical = 0 THEN wild' = TRUE /\ UNCHANGED <<page, blocks>>
          ELSE Carve(physical, FreshPage, size) /\ UNCHANGED wild
  /\ UNCHANGED parsed

-----------------------------------------------------------------------------
(* kfree knows the address only: its frame, and the header word before it.   *)

FrameOf(b) == (b.frame * FrameWords + b.base + HEADER) \div FrameWords

\* Mutant: the frames are counted from the block alone, without the words before it.
FreeWithoutHeader(b) ==
  /\ b.header > SMALL_PAGE_MAXIMUM_SIZE
  /\ memory_free_frames(FrameOf(b), b.header \div FrameWords)
  /\ IF overrun' THEN UNCHANGED <<live, blocks>>
     ELSE /\ live' = live \ {[base |-> FrameOf(b), length |-> b.header \div FrameWords]}
          /\ blocks' = blocks \ {b}
  /\ UNCHANGED <<parsed, heap_pages, page, wild>>

KfreeBig(b) ==
  /\ b.header > SMALL_PAGE_MAXIMUM_SIZE
  /\ memory_free_frames(FrameOf(b), FramesFor(b.header))
  /\ IF overrun' THEN UNCHANGED <<live, blocks>>
     ELSE /\ live' = live \ {[base |-> FrameOf(b), length |-> FramesFor(b.header)]}
          /\ blocks' = blocks \ {b}
  /\ UNCHANGED <<parsed, heap_pages, page, wild>>

Adjacent(node, next) == node.at + HEAP_NODE + node.length + HEADER = next.at

\* Mutant: the HeapNode of the node that disappears is not counted.
MergeForgetsNode(list, next) ==
  IF Adjacent(Last(list), next)
  THEN ReplaceAt(list, Len(list), [Last(list) EXCEPT !.length = @ + next.length])
  ELSE Append(list, next)

Merge(list, next) ==
  IF Adjacent(Last(list), next)
  THEN ReplaceAt(list, Len(list), [Last(list) EXCEPT !.length = @ + HEAP_NODE + next.length])
  ELSE Append(list, next)

\* Mutant: the freed node goes to the front whatever its address.
InsertFront(freelist, node) == <<node>> \o freelist

\* The freed node goes in by address; merging starts at its predecessor.
Insert(freelist, node) ==
  LET after == SelectInSeq(freelist, LAMBDA n : n.at >= node.at)
      place == IF after = 0 THEN Len(freelist) + 1 ELSE after
      list  == InsertAt(freelist, place, node)
      start == Max({1, place - 1})
  IN FoldLeft(Merge, SubSeq(list, 1, start), SubSeq(list, start + 1, Len(list)))

\* The freed node's length is the header: the header word itself is not given back, and
\* page->largest stays what it was.
KfreeSmall(b) ==
  /\ b.header <= SMALL_PAGE_MAXIMUM_SIZE
  /\ page' = [page EXCEPT ![FrameOf(b)].freelist =
                Insert(@, [at |-> b.base - HEAP_NODE, length |-> b.header])]
  /\ blocks' = blocks \ {b}
  /\ UNCHANGED <<segments, cursor, overrun, parsed, live, heap_pages, wild>>

HeapNext ==
  \/ HeapParse
  \/ HeapReady /\ \E size \in Sizes :
       KmallocBig(size) \/ KmallocFromPage(size) \/ KmallocFromNewPage(size)
  \/ HeapReady /\ \E b \in blocks : KfreeBig(b) \/ KfreeSmall(b)

HeapSpec == HeapInit /\ [][HeapNext]_<<freeListVars, heapVars>>

-----------------------------------------------------------------------------

PageFrames == ToSet(heap_pages)

HeapTypeOK ==
  /\ TypeOK
  /\ heap_pages \in Seq(Nat)
  /\ DOMAIN page = PageFrames
  /\ \A f \in PageFrames : page[f].largest \in Nat /\ page[f].freelist \in Seq(Node)
  /\ blocks \subseteq Block
  /\ wild \in BOOLEAN

\* The words a block or a free node takes up, counted from the start of memory: a small
\* block begins with the HeapNode it was carved as, a big one with its HeapPage.
Words(b) ==
  b.frame * FrameWords + (IF b.header > SMALL_PAGE_MAXIMUM_SIZE THEN 0 ELSE b.base - HEAP_NODE)
    .. b.frame * FrameWords + b.base + b.size
NodeWords(f, i) ==
  LET node == page[f].freelist[i] IN
  f * FrameWords + node.at .. f * FrameWords + node.at + HEAP_NODE + node.length - 1
PageWords(f) == f * FrameWords .. f * FrameWords + HEAP_PAGE - 1
FrameSpan(run) == run.base * FrameWords .. (run.base + run.length) * FrameWords - 1

Owned == {b \in blocks : b.frame # 0}

\* Whatever is allocated and freed in whatever order, no two blocks share a word, no
\* block shares one with a free node or a page header, and each lies in frames the
\* allocator has handed out.
BlocksDisjoint ==
  /\ \A b, c \in Owned : b # c => Words(b) \cap Words(c) = {}
  /\ \A b \in Owned : \A f \in PageFrames :
       /\ Words(b) \cap PageWords(f) = {}
       /\ \A i \in DOMAIN page[f].freelist : Words(b) \cap NodeWords(f, i) = {}
  /\ \A b \in Owned : \E run \in live : Words(b) \subseteq FrameSpan(run)

\* Each page's list of free nodes is sorted by address, and its nodes are disjoint and
\* inside the frame, after the HeapPage: what kfree's walk and merge rely on.
NodesOrdered ==
  \A f \in PageFrames :
    LET list == page[f].freelist IN
    /\ \A i \in DOMAIN list :
         HEAP_PAGE <= list[i].at /\ list[i].at + HEAP_NODE + list[i].length <= FrameWords
    /\ \A i, j \in DOMAIN list : i < j => list[i].at + HEAP_NODE + list[i].length <= list[j].at

\* page->largest never promises more than the page has, though kfree leaves it stale: so
\* a page kmalloc picks has a node for it, and the NULL it returns when the walk of the
\* free nodes fails is never reached.
LargestNotOverstated ==
  \A f \in PageFrames : page[f].largest <= MaxLength(page[f].freelist)

\* kfree tells big from small by the header alone, and the frames it computes from a big
\* block's header are the run that block was given: allocator and blocks agree.
HeadersDecide ==
  \A b \in Owned :
    /\ b.size <= b.header
    /\ b.header <= SMALL_PAGE_MAXIMUM_SIZE <=> b.frame \in PageFrames
    /\ b.header > SMALL_PAGE_MAXIMUM_SIZE =>
         [base |-> FrameOf(b), length |-> FramesFor(b.header)] \in live

\* What blocks and free nodes take up in a page.
Room(f) ==
  SumFunction([i \in DOMAIN page[f].freelist |-> HEAP_NODE + page[f].freelist[i].length])
  + SumFunction([b \in {c \in blocks : c.frame = f} |-> HEAP_NODE + HEADER + b.header])

\* kfree makes a node that is a header word shorter than the node kmalloc carved: each
\* kfree costs its page one word for good, so that a freed block is too short for the
\* same size again. That is all that is lost: splitting, taking a node whole and merging
\* neither lose nor make room, in whatever order they come.
OneWordLost ==
  [][\A f \in PageFrames :
       Room(f)' = Room(f) - Cardinality({b \in blocks \ blocks' : b.frame = f})]_<<freeListVars, heapVars>>

\* kmalloc says of page->largest "update max_size for heap page": the longest free node.
LargestIsMax ==
  \A f \in PageFrames : page[f].largest = MaxLength(page[f].freelist)

\* The shell tests kmalloc's pointer and prints "malloc failed": a request that cannot
\* be met gets NULL, never a pointer into frame 0.
FailureIsNull == \A b \in blocks : b.frame # 0

-----------------------------------------------------------------------------
(* The inductive invariant behind the safety properties (HeapProofs). It is  *)
(* about the words a block has by its header, which are more than it asked   *)
(* for when the node was taken whole, and about the word between two nodes.  *)

Small(b)  == b.header <= SMALL_PAGE_MAXIMUM_SIZE
Start(b)  == b.base - HEAP_NODE
Stop(b)   == b.base + HEADER + b.header
End(node) == node.at + HEAP_NODE + node.length

\* Free nodes never touch: the header word that kfree leaves out is between them.
Spaced(list) ==
  /\ \A i \in DOMAIN list : HEAP_PAGE <= list[i].at /\ End(list[i]) <= FrameWords
  /\ \A i, j \in DOMAIN list : i < j => End(list[i]) + HEADER <= list[j].at

\* Nor does a free node touch the block behind it, whose node it may become.
Clear(list, b) == \A i \in DOMAIN list : End(list[i]) + HEADER <= Start(b) \/ Stop(b) <= list[i].at

PagesSound ==
  /\ page \in [PageFrames -> [freelist : Seq(Node), largest : Nat]]
  /\ \A f \in PageFrames : [base |-> f, length |-> 1] \in live /\ Spaced(page[f].freelist)

SmallSound(b) ==
  /\ b.frame \in PageFrames
  /\ HEAP_PAGE <= Start(b) /\ Stop(b) <= FrameWords
  /\ Clear(page[b.frame].freelist, b)

BigSound(b) ==
  /\ b.frame \notin PageFrames
  /\ b.base = HEAP_PAGE /\ b.header = FrameWords * FramesFor(b.size) - HEAP_PAGE - HEADER
  /\ b.frame # 0 => [base |-> b.frame, length |-> FramesFor(b.size)] \in live

BlocksSound ==
  \A b \in blocks :
    /\ 0 < b.size /\ b.size <= b.header
    /\ IF Small(b) THEN SmallSound(b) ELSE BigSound(b)

Apart(b, c) == Small(b) /\ Small(c) /\ (Stop(b) <= Start(c) \/ Stop(c) <= Start(b))

HeapIInv ==
  /\ IInv
  /\ heap_pages \in Seq(Nat) /\ blocks \subseteq Block /\ wild \in BOOLEAN
  /\ PagesSound
  /\ BlocksSound
  /\ \A b, c \in blocks : b # c /\ b.frame = c.frame => Apart(b, c)
  /\ LargestNotOverstated
  /\ ~wild => \A b \in blocks : b.frame # 0
=============================================================================
