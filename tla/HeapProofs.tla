------------------------------ MODULE HeapProofs ------------------------------
(* The safety of Heap for any memory map, frame size and sizes asked for: the *)
(* inductive invariant HeapIInv, what it implies, and that the heap is a      *)
(* legal client of the frame allocator.                                       *)
EXTENDS Heap, FreeListProofs, ListFacts

-----------------------------------------------------------------------------
(* Words and frames.                                                         *)

LEMMA Room4 ==
  /\ FrameWords \in Nat \ {0} /\ FrameWords >= 8
  /\ SMALL_PAGE_MAXIMUM_SIZE = FrameWords - 7 /\ SMALL_PAGE_MAXIMUM_SIZE \in Nat
  /\ Sizes \subseteq Nat \ {0} /\ HEAP_PAGE = 4 /\ HEAP_NODE = 2 /\ HEADER = 1
BY HeapAssumption DEF SMALL_PAGE_MAXIMUM_SIZE, HEAP_PAGE, HEAP_NODE, HEADER

\* The frames of a big request hold it, its HeapPage and its header, and no whole frame more.
LEMMA FramesForBounds ==
  ASSUME NEW size \in Nat
  PROVE  /\ FramesFor(size) \in Nat \ {0}
         /\ size + 5 <= FrameWords * FramesFor(size)
         /\ FrameWords * FramesFor(size) < size + 5 + FrameWords
<1> DEFINE a == HEAP_PAGE + HEADER + size + FrameWords - 1
           k == FramesFor(size)
<1>1. a \in Int /\ a = size + 4 + FrameWords /\ k = a \div FrameWords
  BY Room4 DEF FramesFor
<1>2. k \in Int /\ FrameWords * k <= a /\ a < FrameWords * k + FrameWords
  <2> HIDE DEF a, k
  <2> QED BY <1>1, DivBounds, Room4
<1> DEFINE w == FrameWords * k
<1>3. w \in Int /\ w <= a /\ a < w + FrameWords
  BY <1>2, Room4
<1>4. size + 5 <= w /\ w < size + 5 + FrameWords
  <2> HIDE DEF a, k, w
  <2> QED BY <1>1, <1>3, Room4
<1>5. k > 0
  <2> HIDE DEF a, k
  <2>1. CASE k <= 0
    <3>1. FrameWords * k <= 0
      BY <1>2, <2>1, Room4
    <3> QED BY <1>2, <1>4, <3>1, Room4
  <2> QED BY <1>2, <2>1
<1> QED BY <1>2, <1>4, <1>5

\* kfree computes from the header of a big block the number of frames it was given.
LEMMA FramesForHeader ==
  ASSUME NEW k \in Nat
  PROVE  FramesFor(FrameWords * k - HEAP_PAGE - HEADER) = k
<1> DEFINE w == FrameWords * k
<1>1. w \in Int /\ w = FrameWords * k
  BY Room4
<1> HIDE DEF w
<1>2. HEAP_PAGE + HEADER + (w - HEAP_PAGE - HEADER) + FrameWords - 1 = w + FrameWords - 1
  BY <1>1, Room4
<1>3. (w + FrameWords - 1) \div FrameWords = k
  <2>1. w + FrameWords - 1 \in Int /\ FrameWords * k <= w + FrameWords - 1
        /\ w + FrameWords - 1 < FrameWords * k + FrameWords
    BY <1>1, Room4
  <2> QED BY <2>1, DivIs, Room4
<1> QED BY <1>1, <1>2, <1>3 DEF FramesFor

\* And from the address of a block the frame its base is in.
LEMMA FrameOfBlock ==
  ASSUME NEW b \in Block, b.base + HEADER < FrameWords
  PROVE  FrameOf(b) = b.frame
<1>1. b.frame \in Nat /\ b.base \in Nat
  BY DEF Block
<1> DEFINE w == b.frame * FrameWords
<1>2. w \in Int /\ w = FrameWords * b.frame
  BY <1>1, Room4
<1> HIDE DEF w
<1>3. (w + b.base + HEADER) \div FrameWords = b.frame
  <2> DEFINE a == w + b.base + HEADER
             f == b.frame
  <2>1. a \in Int /\ f \in Int /\ FrameWords * f <= a /\ a < FrameWords * f + FrameWords
    BY <1>1, <1>2, Room4
  <2>2. a \div FrameWords = f
    <3> HIDE DEF a, f
    <3> QED BY <2>1, DivIs, Room4
  <2> QED BY <2>2
<1> QED BY <1>3 DEF FrameOf, w

-----------------------------------------------------------------------------
(* Lists of free nodes.                                                      *)

NodeClear(node, b) == End(node) + HEADER <= Start(b) \/ Stop(b) <= node.at

LEMMA NodeTypes ==
  ASSUME NEW node \in Node
  PROVE  /\ node.at \in Nat /\ node.length \in Nat /\ End(node) \in Nat
         /\ End(node) = node.at + 2 + node.length
BY Room4 DEF Node, End

LEMMA BlockTypes ==
  ASSUME NEW b \in Block
  PROVE  /\ b.frame \in Nat /\ b.base \in Nat /\ b.size \in Nat /\ b.header \in Nat
         /\ Start(b) = b.base - 2 /\ Stop(b) = b.base + 1 + b.header /\ Start(b) < Stop(b)
         /\ Start(b) \in Int /\ Stop(b) \in Int
BY Room4 DEF Block, Start, Stop

\* The longest free node.
LEMMA MaxLengthIs ==
  ASSUME NEW list \in Seq(Node)
  PROVE  /\ MaxLength(list) \in Nat
         /\ \A i \in DOMAIN list : list[i].length <= MaxLength(list)
         /\ MaxLength(list) = 0 \/ \E i \in DOMAIN list : MaxLength(list) = list[i].length
<1> DEFINE n == Len(list)
           v == [i \in 1 .. n |-> list[i].length]
           S == {v[i] : i \in 1 .. n} \cup {0}
<1>1. n \in Nat /\ DOMAIN list = 1 .. n /\ v \in [1 .. n -> Nat]
  <2>1. \A i \in 1 .. n : list[i] \in Node
    OBVIOUS
  <2>2. \A i \in 1 .. n : list[i].length \in Nat
    BY <2>1 DEF Node
  <2> QED BY <2>2
<1>2. Max(S) \in Nat /\ Max(S) \in S /\ \A i \in 1 .. n : v[i] <= Max(S)
  <2> HIDE DEF n, v
  <2> QED BY <1>1, MaxOfValues
<1>3. {list[i].length : i \in DOMAIN list} = {v[i] : i \in 1 .. n}
  <2>1. \A i \in 1 .. n : v[i] = list[i].length
    OBVIOUS
  <2> HIDE DEF v, n
  <2> QED BY <1>1, <2>1
<1>4. MaxLength(list) = Max(S)
  <2> HIDE DEF v, n
  <2> QED BY <1>3 DEF MaxLength
<1> QED BY <1>1, <1>2, <1>4

\* Every free node of the one list has one in the other that is as long.
AsLong(list, other) == \A i \in DOMAIN list : \E j \in DOMAIN other : list[i].length <= other[j].length

LEMMA MaxLengthGrows ==
  ASSUME NEW list \in Seq(Node), NEW other \in Seq(Node), AsLong(list, other)
  PROVE  MaxLength(list) <= MaxLength(other)
<1>1. CASE MaxLength(list) = 0
  BY <1>1, MaxLengthIs
<1>2. ASSUME NEW i \in DOMAIN list, MaxLength(list) = list[i].length
      PROVE  MaxLength(list) <= MaxLength(other)
  <2>1. PICK j \in DOMAIN other : list[i].length <= other[j].length
    BY DEF AsLong
  <2>2. other[j].length <= MaxLength(other) /\ MaxLength(other) \in Nat
    BY MaxLengthIs
  <2>3. other[j].length \in Nat /\ list[i].length \in Nat
    <3>1. other[j] \in Node /\ list[i] \in Node
      OBVIOUS
    <3> QED BY <3>1 DEF Node
  <2> QED BY <1>2, <2>1, <2>2, <2>3
<1> QED BY <1>1, <1>2, MaxLengthIs

LEMMA NodeGrown ==
  ASSUME NEW node \in Node, NEW k \in Nat
  PROVE  [node EXCEPT !.length = @ + HEAP_NODE + k] = [at |-> node.at, length |-> node.length + 2 + k]
BY Room4 DEF Node

LEMMA NodeMade ==
  ASSUME NEW a \in Nat, NEW l \in Nat
  PROVE  LET node == [at |-> a, length |-> l] IN
         node \in Node /\ node.at = a /\ node.length = l /\ End(node) = a + 2 + l
BY Room4 DEF Node, End

LEMMA LastReplaced ==
  ASSUME NEW list \in Seq(Node), list # <<>>, NEW e \in Node
  PROVE  LET new == ReplaceAt(list, Len(list), e) IN
         /\ new \in Seq(Node) /\ Len(new) = Len(list)
         /\ \A k \in 1 .. Len(list) : new[k] = IF k = Len(list) THEN e ELSE list[k]
<1>1. PICK n \in 1 .. Len(list) : n = Len(list)
  OBVIOUS
<1> DEFINE new == ReplaceAt(list, n, e)
<1>2. /\ new \in Seq(Node) /\ Len(new) = Len(list)
      /\ \A k \in 1 .. Len(list) : new[k] = IF k = n THEN e ELSE list[k]
  BY ReplaceAtElements
<1> HIDE DEF new
<1>3. new = ReplaceAt(list, Len(list), e)
  BY <1>1 DEF new
<1> QED BY <1>1, <1>2, <1>3

\* What merging keeps of a list: its order, the words between its nodes, and the blocks
\* it is clear of.
LEMMA MergeKeeps ==
  ASSUME NEW list \in Seq(Node), list # <<>>, Spaced(list), NEW next \in Node,
         End(Last(list)) + HEADER <= next.at, End(next) <= FrameWords
  PROVE  /\ Merge(list, next) \in Seq(Node) /\ Merge(list, next) # <<>>
         /\ Spaced(Merge(list, next))
         /\ End(Last(Merge(list, next))) <= End(next)
         /\ \A b \in Block : Clear(list, b) /\ NodeClear(next, b) => Clear(Merge(list, next), b)
         /\ AsLong(list, Merge(list, next))
         /\ \E j \in DOMAIN Merge(list, next) : next.length <= Merge(list, next)[j].length
<1> DEFINE n == Len(list)
           last == Last(list)
<1>1. n \in Nat \ {0} /\ DOMAIN list = 1 .. n /\ n \in 1 .. n /\ last = list[n] /\ last \in Node
  BY DEF Last
<1> HIDE DEF n, last
<1>2. /\ \A i \in 1 .. n : list[i] \in Node
      /\ \A i \in 1 .. n : HEAP_PAGE <= list[i].at /\ End(list[i]) <= FrameWords
      /\ \A i, j \in 1 .. n : i < j => End(list[i]) + HEADER <= list[j].at
      /\ End(last) + HEADER <= next.at
  BY <1>1 DEF Spaced, last
<1>3. CASE Adjacent(last, next)
  <2> DEFINE e == [last EXCEPT !.length = @ + HEAP_NODE + next.length]
             new == ReplaceAt(list, n, e)
  <2>1. PICK a, l, m \in Nat :
          /\ last.at = a /\ last.length = l /\ End(last) = a + 2 + l
          /\ next.at = a + 2 + l + 1 /\ next.length = m /\ End(next) = a + 2 + l + 1 + 2 + m
    <3>1. PICK a, l \in Nat : last.at = a /\ last.length = l /\ End(last) = a + 2 + l
      BY <1>1, NodeTypes
    <3>2. PICK c, m \in Nat : next.at = c /\ next.length = m /\ End(next) = c + 2 + m
      BY NodeTypes
    <3>3. a + 2 + l + 1 = c
      BY <1>3, <3>1, <3>2, Room4 DEF Adjacent
    <3> QED BY <3>1, <3>2, <3>3
  <2>2. e = [at |-> last.at, length |-> last.length + 2 + next.length]
    BY <1>1, <2>1, NodeGrown
  <2>3. e \in Node /\ e.at = a /\ e.length = l + 2 + m /\ End(e) = a + 2 + (l + 2 + m)
    <3>1. e = [at |-> a, length |-> l + 2 + m] /\ l + 2 + m \in Nat
      BY <2>1, <2>2
    <3> HIDE DEF e
    <3> QED BY <3>1, NodeMade
  <2>b. Merge(list, next) = new
    BY <1>3 DEF Merge, last, n
  <2> HIDE DEF e
  <2>4. new \in Seq(Node) /\ Len(new) = n /\ \A k \in 1 .. n : new[k] = IF k = n THEN e ELSE list[k]
    BY <2>3, LastReplaced DEF n
  <2> HIDE DEF new
  <2>5. new # <<>> /\ DOMAIN new = 1 .. n /\ Last(new) = e
    BY <1>1, <2>4 DEF Last
  <2>7. End(e) + 1 = End(next) /\ End(e) <= End(next) /\ End(e) \in Int /\ End(next) \in Int
        /\ last.length <= e.length /\ next.length <= e.length
    BY <2>1, <2>3
  <2>8. Spaced(new)
    <3>1. HEAP_PAGE <= e.at /\ End(e) <= FrameWords
      BY <1>1, <1>2, <2>1, <2>3, <2>7, Room4
    <3>2. \A i \in 1 .. n : HEAP_PAGE <= new[i].at /\ End(new[i]) <= FrameWords
      BY <1>2, <2>4, <3>1
    <3>3. ASSUME NEW i \in 1 .. n, NEW j \in 1 .. n, i < j PROVE End(new[i]) + HEADER <= new[j].at
      <4>1. new[i] = list[i] /\ (j # n => new[j] = list[j]) /\ (j = n => new[j] = e /\ list[j] = last)
        BY <1>1, <2>4, <3>3
      <4>2. new[j].at = list[j].at
        BY <2>1, <2>3, <4>1
      <4> QED BY <1>2, <3>3, <4>1, <4>2
    <3> QED BY <2>5, <3>2, <3>3 DEF Spaced
  <2>9. ASSUME NEW b \in Block, Clear(list, b), NodeClear(next, b) PROVE Clear(new, b)
    <3>1. \A i \in 1 .. n : NodeClear(list[i], b)
      BY <1>1, <2>9 DEF Clear, NodeClear
    <3>2. NodeClear(e, b)
      <4>1. NodeClear(last, b) /\ NodeClear(next, b)
        BY <1>1, <2>9, <3>1
      <4>2. PICK x, y \in Int : Start(b) = x /\ Stop(b) = y /\ x < y
        BY BlockTypes
      <4>3. /\ a + 2 + l + 1 <= x \/ y <= a
            /\ a + 2 + l + 1 + 2 + m + 1 <= x \/ y <= a + 2 + l + 1
        BY <2>1, <4>1, <4>2, Room4 DEF NodeClear
      <4>4. a + 2 + (l + 2 + m) + 1 <= x \/ y <= a
        BY <2>1, <4>2, <4>3
      <4> QED BY <2>3, <4>2, <4>4, Room4 DEF NodeClear
    <3> QED BY <2>4, <2>5, <3>1, <3>2 DEF Clear, NodeClear
  <2>10. AsLong(list, new)
    <3>1. ASSUME NEW i \in 1 .. n PROVE \E j \in 1 .. n : list[i].length <= new[j].length
      <4>1. CASE i = n
        BY <1>1, <2>4, <2>7, <4>1
      <4>2. CASE i # n
        <5>1. new[i] = list[i] /\ list[i].length \in Nat
          BY <1>2, <2>4, <4>2 DEF Node
        <5> QED BY <5>1
      <4> QED BY <4>1, <4>2
    <3> QED BY <1>1, <2>5, <3>1 DEF AsLong
  <2>11. n \in DOMAIN new /\ next.length <= new[n].length
    BY <1>1, <2>4, <2>5, <2>7
  <2> QED BY <2>b, <2>4, <2>5, <2>7, <2>8, <2>9, <2>10, <2>11
<1>4. CASE ~Adjacent(last, next)
  <2> DEFINE new == Append(list, next)
  <2>1. Merge(list, next) = new
    BY <1>4 DEF Merge, last
  <2>2. /\ new \in Seq(Node) /\ Len(new) = n + 1
        /\ \A k \in 1 .. n + 1 : new[k] = IF k = n + 1 THEN next ELSE list[k]
    BY <1>1 DEF n
  <2> HIDE DEF new
  <2>3. new # <<>> /\ DOMAIN new = 1 .. n + 1 /\ n + 1 \in 1 .. n + 1 /\ Last(new) = next
    BY <1>1, <2>2 DEF Last
  <2>4. \A k \in 1 .. n + 1 : (k \in 1 .. n /\ new[k] = list[k]) \/ (k = n + 1 /\ new[k] = next)
    BY <1>1, <2>2
  <2>5. \A i \in 1 .. n : End(list[i]) + HEADER <= next.at
    <3> SUFFICES ASSUME NEW i \in 1 .. n PROVE End(list[i]) + HEADER <= next.at
      OBVIOUS
    <3>1. CASE i = n
      BY <1>1, <1>2, <3>1
    <3>2. CASE i < n
      <4>1. End(list[i]) + HEADER <= last.at
        BY <1>1, <1>2, <3>2
      <4>2. last.at <= End(last) /\ End(last) \in Int /\ last.at \in Int /\ next.at \in Int
        <5>1. PICK a, l \in Nat : last.at = a /\ End(last) = a + 2 + l
          BY <1>1, NodeTypes
        <5>2. next.at \in Nat
          BY NodeTypes
        <5> QED BY <5>1, <5>2
      <4>3. End(list[i]) \in Int
        <5>1. list[i] \in Node
          BY <1>2
        <5>2. PICK a, l \in Nat : list[i].at = a /\ End(list[i]) = a + 2 + l
          BY <5>1, NodeTypes
        <5> QED BY <5>2
      <4>4. PICK e, a, b, x \in Int : /\ e = End(list[i]) /\ a = last.at /\ b = End(last) /\ x = next.at
                                     /\ e + HEADER <= a /\ a <= b /\ b + HEADER <= x
        BY <1>2, <4>1, <4>2, <4>3
      <4> QED BY <4>4, Room4
    <3> QED BY <1>1, <3>1, <3>2
  <2>6. HEAP_PAGE <= next.at
    <3>1. HEAP_PAGE <= last.at
      BY <1>1, <1>2
    <3>2. PICK a, l, x \in Nat : last.at = a /\ End(last) = a + 2 + l /\ next.at = x
      BY <1>1, NodeTypes
    <3>3. HEAP_PAGE <= a /\ a + 2 + l + HEADER <= x
      BY <1>2, <3>1, <3>2
    <3>4. HEAP_PAGE <= x
      BY <3>2, <3>3, Room4
    <3> QED BY <3>2, <3>4
  <2>7. Spaced(new)
    <3>1. \A i \in 1 .. n + 1 : HEAP_PAGE <= new[i].at /\ End(new[i]) <= FrameWords
      BY <1>2, <2>4, <2>6
    <3>2. \A i, j \in 1 .. n + 1 : i < j => End(new[i]) + HEADER <= new[j].at
      BY <1>1, <1>2, <2>4, <2>5
    <3> QED BY <2>3, <3>1, <3>2 DEF Spaced
  <2>8. ASSUME NEW b \in Block, Clear(list, b), NodeClear(next, b) PROVE Clear(new, b)
    BY <1>1, <2>3, <2>4, <2>8 DEF Clear, NodeClear
  <2>9. AsLong(list, new)
    <3>1. \A i \in 1 .. n : i \in 1 .. n + 1 /\ new[i] = list[i] /\ list[i].length \in Nat
      BY <1>1, <1>2, <2>2 DEF Node
    <3> QED BY <1>1, <2>3, <3>1 DEF AsLong
  <2>10. next.length <= new[n + 1].length /\ End(Last(new)) <= End(next)
    <3>1. new[n + 1] = next /\ next.length \in Nat /\ End(next) \in Int
      BY <2>2, <2>3, NodeTypes
    <3> QED BY <2>3, <3>1
  <2> QED BY <2>1, <2>2, <2>3, <2>7, <2>8, <2>9, <2>10
<1> QED BY <1>3, <1>4

-----------------------------------------------------------------------------
(* Insertion: the node goes in by address, then the fold merges.             *)

NonEmpty == Seq(Node) \ {<<>>}

LEMMA MergeTyped ==
  ASSUME NEW list \in NonEmpty, NEW next \in Node
  PROVE  Merge(list, next) \in NonEmpty
<1>1. list \in Seq(Node) /\ list # <<>> /\ Last(list) \in Node
  BY DEF NonEmpty, Last
<1>2. CASE Adjacent(Last(list), next)
  <2> DEFINE e == [Last(list) EXCEPT !.length = @ + HEAP_NODE + next.length]
  <2>1. next.length \in Nat /\ Last(list).at \in Nat /\ Last(list).length \in Nat
    BY <1>1, NodeTypes
  <2>2. e = [at |-> Last(list).at, length |-> Last(list).length + 2 + next.length]
    BY <1>1, <2>1, NodeGrown
  <2>3. e \in Node
    BY <2>1, <2>2 DEF Node
  <2>4. Merge(list, next) = ReplaceAt(list, Len(list), e)
    BY <1>2 DEF Merge
  <2> HIDE DEF e
  <2>5. Merge(list, next) \in Seq(Node) /\ Len(Merge(list, next)) = Len(list)
    BY <1>1, <2>3, <2>4, LastReplaced
  <2> QED BY <1>1, <2>5 DEF NonEmpty
<1>3. CASE ~Adjacent(Last(list), next)
  BY <1>1, <1>3 DEF Merge, NonEmpty
<1> QED BY <1>2, <1>3

\* The fold is Merge element after element.
LEMMA MergeFold ==
  ASSUME NEW base \in NonEmpty, NEW l \in Seq(Node)
  PROVE  \E h \in [0 .. Len(l) -> NonEmpty] :
           /\ h[0] = base
           /\ \A k \in 1 .. Len(l) : h[k] = Merge(h[k - 1], l[k])
           /\ FoldLeft(Merge, base, l) = h[Len(l)]
<1>0. PICK n \in Nat : n = Len(l)
  OBVIOUS
<1> DEFINE it == CHOOSE iter : iter = [s \in SUBSET DOMAIN l |->
                   IF s = {} THEN base ELSE Merge(iter[s \ {Max(s)}], l[Max(s)])]
           F == [p \in NonEmpty \X (1 .. n) |-> Merge(p[1], l[p[2]])]
<1>1. FoldLeft(Merge, base, l) = it[DOMAIN l]
  BY DEF FoldLeft, MapThenFoldSet
<1>2. n \in Nat /\ DOMAIN l = 1 .. n /\ \A k \in 1 .. n : l[k] \in Node
  BY <1>0
<1>3. \A k \in 1 .. n, v \in NonEmpty : F[<<v, k>>] = Merge(v, l[k]) /\ F[<<v, k>>] \in NonEmpty
  BY <1>2, MergeTyped
<1> HIDE DEF F
<1>4. PICK g : FoldOf(n, NonEmpty, base, F, g)
  BY <1>3, FoldExists
<1>5. ASSUME NEW s \in SUBSET (1 .. n), s # {}
      PROVE  g[s] = Merge(g[s \ {Max(s)}], l[Max(s)])
  <2>1. Max(s) \in s
    BY <1>5, FiniteMax
  <2>2. g[s] = F[<<g[s \ {Max(s)}], Max(s)>>] /\ g[s \ {Max(s)}] \in NonEmpty
    BY <1>4, <1>5 DEF FoldOf
  <2> QED BY <1>3, <2>1, <2>2
<1>6. g = [s \in SUBSET (1 .. n) |-> g[s]] /\ g[{}] = base
  BY <1>4 DEF FoldOf
<1>7. g = [s \in SUBSET (1 .. n) |-> IF s = {} THEN base ELSE Merge(g[s \ {Max(s)}], l[Max(s)])]
  BY <1>5, <1>6
<1>8. it = [s \in SUBSET (1 .. n) |-> IF s = {} THEN base ELSE Merge(it[s \ {Max(s)}], l[Max(s)])]
  BY <1>2, <1>7
<1> HIDE DEF it
<1>9. it[{}] = base
  BY <1>8
<1>10. FoldsInto(n, NonEmpty, base, F, it)
  <2>1. ASSUME NEW s \in SUBSET (1 .. n), s # {}, it[s \ {Max(s)}] \in NonEmpty
        PROVE  it[s] = F[<<it[s \ {Max(s)}], Max(s)>>]
    <3>1. Max(s) \in 1 .. n
      BY <2>1, FiniteMax
    <3> QED BY <1>3, <1>8, <2>1, <3>1
  <2> QED BY <1>9, <2>1 DEF FoldsInto
<1>a. PICK path : PathOf(n, NonEmpty, base, F, it, path)
  BY <1>3, <1>10, FoldSteps
<1>11. PICK h \in [0 .. n -> NonEmpty] :
         h[0] = base /\ (\A k \in 1 .. n : h[k] = F[<<h[k - 1], k>>]) /\ h[n] = it[1 .. n]
  BY <1>a DEF PathOf
<1>12. \A k \in 1 .. n : h[k] = Merge(h[k - 1], l[k])
  <2> SUFFICES ASSUME NEW k \in 1 .. n PROVE h[k] = Merge(h[k - 1], l[k])
    OBVIOUS
  <2>1. h[k - 1] \in NonEmpty
    BY <1>11
  <2> QED BY <1>3, <1>11, <2>1
<1> QED BY <1>0, <1>1, <1>2, <1>11, <1>12

\* Where the nodes are in the list with one inserted.
Inserted(list, place, node, new) ==
  /\ new \in Seq(Node) /\ Len(new) = Len(list) + 1
  /\ \A k \in 1 .. Len(list) + 1 : new[k] = IF k < place THEN list[k] ELSE IF k = place THEN node ELSE list[k - 1]

LEMMA NodeInserted ==
  ASSUME NEW list \in Seq(Node), NEW node \in Node, NEW place \in 1 .. Len(list) + 1
  PROVE  Inserted(list, place, node, InsertAt(list, place, node))
<1>1. /\ InsertAt(list, place, node) \in Seq(Node) /\ Len(InsertAt(list, place, node)) = Len(list) + 1
      /\ \A k \in 1 .. Len(list) + 1 :
           InsertAt(list, place, node)[k] = IF k < place THEN list[k] ELSE IF k = place THEN node ELSE list[k - 1]
  BY InsertAtElements
<1> QED BY <1>1 DEF Inserted

\* The list with the node inserted, before anything is merged.
LEMMA PlaceKeeps ==
  ASSUME NEW list \in Seq(Node), Spaced(list), NEW node \in Node,
         HEAP_PAGE <= node.at, End(node) <= FrameWords,
         \A i \in DOMAIN list : End(list[i]) + HEADER <= node.at \/ End(node) + HEADER <= list[i].at,
         NEW place \in 1 .. Len(list) + 1,
         \A i \in DOMAIN list : i < place => list[i].at < node.at,
         \A i \in DOMAIN list : i >= place => list[i].at >= node.at
  PROVE  LET new == InsertAt(list, place, node) IN
         /\ new \in Seq(Node) /\ Len(new) = Len(list) + 1 /\ Spaced(new)
         /\ \A b \in Block : Clear(list, b) /\ NodeClear(node, b) => Clear(new, b)
         /\ AsLong(list, new)
<1> DEFINE new == InsertAt(list, place, node)
<1>1. PICK n \in Nat : n = Len(list) /\ DOMAIN list = 1 .. n
  OBVIOUS
<1>2. /\ new \in Seq(Node) /\ Len(new) = Len(list) + 1
      /\ \A k \in 1 .. Len(list) + 1 : new[k] = IF k < place THEN list[k] ELSE IF k = place THEN node ELSE list[k - 1]
  <2>1. Inserted(list, place, node, new)
    BY NodeInserted
  <2> HIDE DEF new
  <2> QED BY <2>1 DEF Inserted
<1> HIDE DEF new
<1>3. DOMAIN new = 1 .. n + 1 /\ place \in 1 .. n + 1
  BY <1>1, <1>2
<1>4. ASSUME NEW k \in 1 .. n + 1
      PROVE  \/ k < place /\ k \in 1 .. n /\ new[k] = list[k]
             \/ k = place /\ new[k] = node
             \/ k > place /\ k - 1 \in 1 .. n /\ k - 1 >= place /\ new[k] = list[k - 1]
  BY <1>1, <1>2
<1>5. \A i \in 1 .. n : list[i] \in Node /\ list[i].at \in Nat /\ End(list[i]) \in Nat /\ list[i].at < End(list[i])
  <2> SUFFICES ASSUME NEW i \in 1 .. n
               PROVE  list[i] \in Node /\ list[i].at \in Nat /\ End(list[i]) \in Nat /\ list[i].at < End(list[i])
    OBVIOUS
  <2>1. PICK m \in Node : m = list[i]
    BY <1>1
  <2>2. PICK a, l \in Nat : a = m.at /\ l = m.length /\ End(m) = a + 2 + l
    BY NodeTypes
  <2>3. End(m) \in Nat /\ m.at < End(m)
    BY <2>2
  <2> QED BY <2>1, <2>2, <2>3
<1>6. node.at \in Nat /\ End(node) \in Nat /\ node.at < End(node)
  BY NodeTypes
<1>7. /\ \A i \in 1 .. n : i < place => End(list[i]) + HEADER <= node.at
      /\ \A i \in 1 .. n : i >= place => End(node) + HEADER <= list[i].at
  <2> SUFFICES ASSUME NEW i \in 1 .. n
               PROVE  /\ i < place => End(list[i]) + HEADER <= node.at
                      /\ i >= place => End(node) + HEADER <= list[i].at
    OBVIOUS
  <2>1. PICK x, y, z, w \in Nat : list[i].at = x /\ End(list[i]) = y /\ node.at = z /\ End(node) = w
    BY <1>5, <1>6
  <2>2. /\ x < y /\ z < w /\ (y + 1 <= z \/ w + 1 <= x)
        /\ (i < place => x < z) /\ (i >= place => x >= z)
    BY <1>1, <1>5, <1>6, <2>1, Room4
  <2>3. (i < place => y + 1 <= z) /\ (i >= place => w + 1 <= x)
    BY <2>2
  <2> QED BY <2>1, <2>3, Room4
<1>8. Spaced(new)
  <2>1. \A i \in 1 .. n : HEAP_PAGE <= list[i].at /\ End(list[i]) <= FrameWords
    BY <1>1 DEF Spaced
  <2>2. \A i, j \in 1 .. n : i < j => End(list[i]) + HEADER <= list[j].at
    BY <1>1 DEF Spaced
  <2>3. \A k \in 1 .. n + 1 : HEAP_PAGE <= new[k].at /\ End(new[k]) <= FrameWords
    BY <1>4, <2>1
  <2>4. ASSUME NEW j \in 1 .. n + 1, NEW k \in 1 .. n + 1, j < k
        PROVE  End(new[j]) + HEADER <= new[k].at
    <3>1. CASE k < place
      BY <1>3, <1>4, <2>2, <2>4, <3>1
    <3>2. CASE k = place
      BY <1>3, <1>4, <1>7, <2>4, <3>2
    <3>3. CASE k > place /\ j < place
      BY <1>3, <1>4, <2>2, <2>4, <3>3
    <3>4. CASE k > place /\ j = place
      <4>1. PICK l \in 1 .. n : l >= place /\ new[k] = list[l]
        BY <1>3, <1>4, <3>4
      <4>2. new[j] = node
        BY <1>3, <1>4, <3>4
      <4> QED BY <1>7, <4>1, <4>2
    <3>5. CASE k > place /\ j > place
      <4>1. PICK l, m \in 1 .. n : l = j - 1 /\ m = k - 1 /\ new[j] = list[l] /\ new[k] = list[m]
        BY <1>3, <1>4, <3>5
      <4>2. l < m
        BY <2>4, <4>1
      <4> QED BY <2>2, <4>1, <4>2
    <3> QED BY <1>3, <3>1, <3>2, <3>3, <3>4, <3>5
  <2> QED BY <1>3, <2>3, <2>4 DEF Spaced
<1>9. ASSUME NEW b \in Block, Clear(list, b), NodeClear(node, b) PROVE Clear(new, b)
  <2>1. \A i \in 1 .. n : NodeClear(list[i], b)
    BY <1>1, <1>9 DEF Clear, NodeClear
  <2>2. \A k \in 1 .. n + 1 : NodeClear(new[k], b)
    BY <1>4, <1>9, <2>1
  <2> QED BY <1>3, <2>2 DEF Clear, NodeClear
<1>10. AsLong(list, new)
  <2>1. ASSUME NEW i \in 1 .. n PROVE \E j \in 1 .. n + 1 : list[i].length <= new[j].length
    <3>1. list[i].length \in Nat
      <4>1. PICK m \in Node : m = list[i]
        BY <1>5
      <4> QED BY <4>1, NodeTypes
    <3>2. PICK j \in 1 .. n + 1 : j = IF i < place THEN i ELSE i + 1
      OBVIOUS
    <3>3. new[j] = list[i]
      BY <1>1, <1>2, <1>3, <3>2
    <3> QED BY <3>1, <3>3
  <2> QED BY <1>1, <1>3, <2>1 DEF AsLong
<1> QED BY <1>2, <1>8, <1>9, <1>10 DEF new

\* Merging from a place on.
LEMMA MergesKeep ==
  ASSUME NEW list \in Seq(Node), Spaced(list), NEW start \in 1 .. Len(list)
  PROVE  LET new == FoldLeft(Merge, SubSeq(list, 1, start), SubSeq(list, start + 1, Len(list))) IN
         /\ new \in Seq(Node) /\ Spaced(new)
         /\ \A b \in Block : Clear(list, b) => Clear(new, b)
         /\ AsLong(list, new)
<1> DEFINE base == SubSeq(list, 1, start)
           rest == SubSeq(list, start + 1, Len(list))
<1>1. PICK n, m \in Nat : n = Len(list) /\ n = start + m /\ DOMAIN list = 1 .. n
  <2>1. PICK n \in Nat : n = Len(list) /\ DOMAIN list = 1 .. n
    OBVIOUS
  <2>2. PICK m \in Nat : n = start + m
    <3>1. n - start \in Nat /\ n = start + (n - start)
      BY <2>1
    <3> QED BY <3>1
  <2> QED BY <2>1, <2>2
<1>2. /\ base \in Seq(Node) /\ Len(base) = start /\ \A k \in 1 .. start : base[k] = list[k]
      /\ rest \in Seq(Node) /\ Len(rest) = m /\ \A k \in 1 .. m : rest[k] = list[start + k]
  <2>1. Len(list) - start = m
    BY <1>1
  <2> QED BY <2>1, SplitElements
<1> HIDE DEF base, rest
<1>3. base \in NonEmpty /\ DOMAIN base = 1 .. start /\ Last(base) = list[start]
  BY <1>2 DEF NonEmpty, Last
<1>4. PICK h \in [0 .. m -> NonEmpty] :
        /\ h[0] = base
        /\ \A k \in 1 .. m : h[k] = Merge(h[k - 1], rest[k])
        /\ FoldLeft(Merge, base, rest) = h[m]
  BY <1>2, <1>3, MergeFold
<1> DEFINE Good(k) ==
             /\ Spaced(h[k]) /\ End(Last(h[k])) <= End(list[start + k])
             /\ \A b \in Block : Clear(list, b) => Clear(h[k], b)
             /\ \A i \in 1 .. start + k : \E j \in DOMAIN h[k] : list[i].length <= h[k][j].length
           P == {k \in Nat : k <= m => Good(k)}
<1>5. \A i \in 1 .. n : list[i] \in Node /\ list[i].at \in Nat /\ End(list[i]) \in Nat /\ list[i].length \in Nat
  <2> SUFFICES ASSUME NEW i \in 1 .. n
               PROVE  list[i] \in Node /\ list[i].at \in Nat /\ End(list[i]) \in Nat /\ list[i].length \in Nat
    OBVIOUS
  <2>1. PICK e \in Node : e = list[i]
    BY <1>1
  <2>2. e.at \in Nat /\ e.length \in Nat /\ End(e) \in Nat
    BY NodeTypes
  <2> QED BY <2>1, <2>2
<1>6. Good(0)
  <2>1. Spaced(base)
    <3>1. \A i \in 1 .. start : i \in 1 .. n /\ base[i] = list[i]
      BY <1>1, <1>2
    <3> QED BY <1>1, <1>3, <3>1 DEF Spaced
  <2>2. End(Last(base)) <= End(list[start + 0])
    <3>1. start + 0 = start /\ start \in 1 .. n /\ End(list[start]) \in Nat
      BY <1>1, <1>5
    <3> QED BY <1>3, <3>1
  <2>3. \A b \in Block : Clear(list, b) => Clear(base, b)
    <3>1. \A i \in 1 .. start : i \in 1 .. n /\ base[i] = list[i]
      BY <1>1, <1>2
    <3> QED BY <1>1, <1>3, <3>1 DEF Clear
  <2>4. \A i \in 1 .. start + 0 : \E j \in DOMAIN base : list[i].length <= base[j].length
    <3>1. \A i \in 1 .. start : i \in 1 .. n /\ base[i] = list[i]
      BY <1>1, <1>2
    <3>2. \A i \in 1 .. start : list[i].length <= base[i].length
      BY <1>5, <3>1
    <3>3. 1 .. start + 0 = 1 .. start
      OBVIOUS
    <3> QED BY <1>3, <3>2, <3>3
  <2> QED BY <1>4, <2>1, <2>2, <2>3, <2>4
<1>7. ASSUME NEW k \in Nat, k + 1 <= m, Good(k) PROVE Good(k + 1)
  <2>1. PICK w \in NonEmpty : w = h[k]
    BY <1>4, <1>7
  <2>2. PICK p, q \in 1 .. n : p = start + k /\ q = start + (k + 1)
    BY <1>1, <1>7
  <2>3. PICK next \in Node : next = list[q]
    BY <1>5
  <2>4. h[k + 1] = Merge(w, next)
    <3>1. k + 1 \in 1 .. m /\ (k + 1) - 1 = k
      BY <1>7
    <3> QED BY <1>2, <1>4, <2>1, <2>2, <2>3, <3>1
  <2>5. w \in Seq(Node) /\ w # <<>> /\ Spaced(w) /\ End(Last(w)) <= End(list[p])
    BY <1>7, <2>1, <2>2 DEF NonEmpty
  <2>6. End(Last(w)) + HEADER <= next.at /\ End(next) <= FrameWords
    <3>1. p < q /\ End(list[p]) + HEADER <= next.at /\ End(next) <= FrameWords
      BY <1>1, <2>2, <2>3 DEF Spaced
    <3>2. PICK e \in Node : e = Last(w)
      BY <2>5 DEF Last
    <3>3. PICK x, y, z \in Nat : End(e) = x /\ End(list[p]) = y /\ next.at = z
      BY <1>5, <2>3, <3>2, NodeTypes
    <3> QED BY <2>5, <3>1, <3>2, <3>3, Room4
  <2>7. /\ Spaced(Merge(w, next)) /\ End(Last(Merge(w, next))) <= End(next)
        /\ \A b \in Block : Clear(w, b) /\ NodeClear(next, b) => Clear(Merge(w, next), b)
        /\ AsLong(w, Merge(w, next))
        /\ \E j \in DOMAIN Merge(w, next) : next.length <= Merge(w, next)[j].length
    BY <2>5, <2>6, MergeKeeps
  <2>8. PICK v \in NonEmpty : v = Merge(w, next)
    BY <2>1, MergeTyped
  <2>9. \A b \in Block : Clear(list, b) => Clear(v, b)
    <3>1. \A b \in Block : Clear(list, b) => Clear(w, b) /\ NodeClear(next, b)
      BY <1>1, <1>7, <2>1, <2>2, <2>3 DEF Clear, NodeClear
    <3> QED BY <2>7, <2>8, <3>1
  <2>10. ASSUME NEW i \in 1 .. start + (k + 1) PROVE \E j \in DOMAIN v : list[i].length <= v[j].length
    <3>1. CASE i = q
      BY <2>3, <2>7, <2>8, <3>1
    <3>2. CASE i # q
      <4>1. i \in 1 .. start + k /\ i \in 1 .. n
        BY <2>2, <3>2
      <4>2. PICK j \in DOMAIN w : list[i].length <= w[j].length
        BY <1>7, <2>1, <4>1
      <4>3. PICK l \in DOMAIN v : w[j].length <= v[l].length
        BY <2>7, <2>8 DEF AsLong
      <4>4. PICK x, y, z \in Nat : list[i].length = x /\ w[j].length = y /\ v[l].length = z
        <5>1. PICK e, f \in Node : e = w[j] /\ f = v[l]
          BY <2>1, <2>8 DEF NonEmpty
        <5> QED BY <1>5, <4>1, <5>1, NodeTypes
      <4>5. x <= z
        BY <4>2, <4>3, <4>4
      <4> QED BY <4>4, <4>5
    <3> QED BY <3>1, <3>2
  <2> QED BY <2>2, <2>3, <2>4, <2>7, <2>8, <2>9, <2>10
<1>8. \A k \in Nat : k \in P
  <2> HIDE DEF Good
  <2>1. 0 \in P
    BY <1>6
  <2>2. ASSUME NEW k \in Nat, k \in P PROVE k + 1 \in P
    BY <1>7, <2>2
  <2> HIDE DEF P
  <2> QED BY <2>1, <2>2, SetInduction
<1>9. Good(m)
  <2> HIDE DEF Good
  <2> QED BY <1>8
<1>10. FoldLeft(Merge, base, rest) \in Seq(Node) /\ FoldLeft(Merge, base, rest) = h[m]
  BY <1>4 DEF NonEmpty
<1>11. AsLong(list, h[m])
  BY <1>1, <1>9 DEF AsLong
<1> QED BY <1>9, <1>10, <1>11 DEF base, rest

\* Where kfree's insertion puts the node: in front of the first that is not before it, or at
\* the end; and the merging starts in the list.
LEMMA InsertPlace ==
  ASSUME NEW list \in Seq(Node), NEW node \in Node
  PROVE  \E p \in 1 .. Len(list) + 1, first \in 1 .. Len(list) + 1, placed \in Seq(Node) :
           /\ placed = InsertAt(list, p, node) /\ Len(placed) = Len(list) + 1
           /\ Insert(list, node) =
                FoldLeft(Merge, SubSeq(placed, 1, first), SubSeq(placed, first + 1, Len(placed)))
           /\ \A i \in 1 .. Len(list) : i < p => list[i].at < node.at
           /\ p \in 1 .. Len(list) => list[p].at >= node.at
<1> DEFINE I == {i \in 1 .. Len(list) : list[i].at >= node.at}
           after == SelectInSeq(list, LAMBDA n : n.at >= node.at)
           place == IF after = 0 THEN Len(list) + 1 ELSE after
           start == Max({1, place - 1})
<1>0. Len(list) \in Nat /\ DOMAIN list = 1 .. Len(list)
  OBVIOUS
<1>1. after = IF I # {} THEN Min(I) ELSE 0
  BY DEF SelectInSeq
<1>2. I \in SUBSET Nat /\ I \subseteq 1 .. Len(list)
  OBVIOUS
<1>3. I # {} => after \in I /\ \A i \in I : after <= i
  <2> HIDE DEF I, after
  <2> QED BY <1>1, <1>2, MinExists
<1>4. I = {} => after = 0
  BY <1>1
<1>a. \A i \in 1 .. Len(list) : list[i].at \in Nat /\ (i \in I <=> list[i].at >= node.at)
  <2> SUFFICES ASSUME NEW i \in 1 .. Len(list) PROVE list[i].at \in Nat
    OBVIOUS
  <2>1. PICK e \in Node : e = list[i]
    BY <1>0
  <2> QED BY <2>1, NodeTypes
<1>b. node.at \in Nat
  BY NodeTypes
<1> HIDE DEF I, after
<1>5. PICK p \in 1 .. Len(list) + 1 : p = place
  <2>1. CASE I = {}
    BY <1>0, <1>4, <2>1
  <2>2. CASE I # {}
    <3>1. after \in 1 .. Len(list) /\ after # 0
      <4>1. after \in I
        BY <1>3, <2>2
      <4>2. after \in 1 .. Len(list)
        BY <1>2, <4>1
      <4> QED BY <1>0, <4>2
    <3> QED BY <1>0, <3>1
  <2> QED BY <2>1, <2>2
<1>6. /\ \A i \in 1 .. Len(list) : i < p => list[i].at < node.at
      /\ p \in 1 .. Len(list) => list[p].at >= node.at
  <2>1. CASE I = {}
    <3>1. p = Len(list) + 1
      BY <1>4, <1>5, <2>1
    <3> QED BY <1>0, <1>a, <1>b, <2>1, <3>1
  <2>2. CASE I # {}
    <3>1. p \in I /\ p \in 1 .. Len(list) /\ \A i \in I : p <= i
      BY <1>2, <1>3, <1>5, <2>2
    <3>2. ASSUME NEW i \in 1 .. Len(list), i < p PROVE list[i].at < node.at
      <4>1. i \notin I
        BY <1>0, <3>1, <3>2
      <4> QED BY <1>a, <1>b, <4>1
    <3> QED BY <1>a, <3>1, <3>2
  <2> QED BY <2>1, <2>2
<1>7. PICK placed \in Seq(Node) : placed = InsertAt(list, p, node) /\ Len(placed) = Len(list) + 1
  BY InsertAtElements
<1>8. PICK first \in 1 .. Len(list) + 1 : first = start
  <2>0. start = Max({1, p - 1})
    BY <1>5
  <2> HIDE DEF start, place
  <2>1. CASE p <= 2
    <3>1. {1, p - 1} \in SUBSET Int /\ 1 \in {1, p - 1} /\ \A y \in {1, p - 1} : y <= 1
      BY <2>1
    <3>2. Max({1, p - 1}) = 1
      BY <3>1, MaxIs
    <3> QED BY <1>0, <2>0, <3>2
  <2>2. CASE p > 2
    <3>1. {1, p - 1} \in SUBSET Int /\ p - 1 \in {1, p - 1} /\ \A y \in {1, p - 1} : y <= p - 1
      BY <2>2
    <3>2. Max({1, p - 1}) = p - 1
      BY <3>1, MaxIs
    <3> QED BY <1>0, <2>0, <2>2, <3>2
  <2> QED BY <2>1, <2>2
<1>9. Insert(list, node) = FoldLeft(Merge, SubSeq(placed, 1, first), SubSeq(placed, first + 1, Len(placed)))
  BY <1>5, <1>7, <1>8 DEF Insert, after
<1> QED BY <1>6, <1>7, <1>9

\* What kfree's insertion keeps of a page's list: with the node, it is as it should be,
\* and no shorter than it was.
LEMMA InsertKeeps ==
  ASSUME NEW list \in Seq(Node), Spaced(list), NEW node \in Node,
         HEAP_PAGE <= node.at, End(node) <= FrameWords,
         \A i \in DOMAIN list : End(list[i]) + HEADER <= node.at \/ End(node) + HEADER <= list[i].at
  PROVE  LET new == Insert(list, node) IN
         /\ new \in Seq(Node) /\ Spaced(new)
         /\ \A b \in Block : Clear(list, b) /\ NodeClear(node, b) => Clear(new, b)
         /\ AsLong(list, new)
<1>1. Len(list) \in Nat /\ DOMAIN list = 1 .. Len(list) /\ node.at \in Nat
  BY NodeTypes
<1>2. PICK p \in 1 .. Len(list) + 1, first \in 1 .. Len(list) + 1, whole \in Seq(Node) :
        /\ whole = InsertAt(list, p, node) /\ Len(whole) = Len(list) + 1
        /\ Insert(list, node) = FoldLeft(Merge, SubSeq(whole, 1, first), SubSeq(whole, first + 1, Len(whole)))
        /\ \A i \in 1 .. Len(list) : i < p => list[i].at < node.at
        /\ p \in 1 .. Len(list) => list[p].at >= node.at
  BY InsertPlace
<1>3. ASSUME NEW i \in DOMAIN list, i >= p PROVE list[i].at >= node.at
  <2>1. p \in 1 .. Len(list) /\ list[p].at >= node.at
    BY <1>1, <1>2, <1>3
  <2>2. CASE i = p
    BY <2>1, <2>2
  <2>3. CASE i > p
    <3>1. End(list[p]) + HEADER <= list[i].at
      BY <1>1, <2>1, <2>3 DEF Spaced
    <3>2. PICK e, d \in Node : e = list[p] /\ d = list[i]
      BY <1>1, <2>1
    <3>3. PICK x, y, z, l \in Nat : list[p].at = x /\ node.at = y /\ list[i].at = z /\ End(list[p]) = x + 2 + l
      <4>1. e.at \in Nat /\ e.length \in Nat /\ End(e) = e.at + 2 + e.length /\ d.at \in Nat
        BY NodeTypes
      <4> QED BY <1>1, <3>2, <4>1
    <3>4. x >= y /\ x + 2 + l + 1 <= z
      BY <2>1, <3>1, <3>3, Room4
    <3>5. z >= y
      BY <3>4
    <3> QED BY <3>3, <3>5
  <2> QED BY <1>1, <1>3, <2>2, <2>3
<1>7. PICK placed \in Seq(Node) :
        /\ placed = InsertAt(list, p, node)
        /\ Len(placed) = Len(list) + 1 /\ Spaced(placed)
        /\ \A b \in Block : Clear(list, b) /\ NodeClear(node, b) => Clear(placed, b)
        /\ AsLong(list, placed)
  <2>1. \A i \in DOMAIN list : i < p => list[i].at < node.at
    BY <1>1, <1>2
  <2>2. \A i \in DOMAIN list : i >= p => list[i].at >= node.at
    BY <1>3
  <2> QED BY <2>1, <2>2, PlaceKeeps
<1>8. first \in 1 .. Len(placed)
  BY <1>1, <1>7
<1>9. Insert(list, node) = FoldLeft(Merge, SubSeq(placed, 1, first), SubSeq(placed, first + 1, Len(placed)))
  BY <1>2, <1>7
<1>10. PICK new \in Seq(Node) :
         /\ new = Insert(list, node) /\ Spaced(new)
         /\ \A b \in Block : Clear(placed, b) => Clear(new, b)
         /\ AsLong(placed, new)
  BY <1>7, <1>8, <1>9, MergesKeep
<1>11. AsLong(list, new)
  <2> SUFFICES ASSUME NEW i \in DOMAIN list PROVE \E j \in DOMAIN new : list[i].length <= new[j].length
    BY DEF AsLong
  <2>1. PICK k \in DOMAIN placed : list[i].length <= placed[k].length
    BY <1>7 DEF AsLong
  <2>2. PICK j \in DOMAIN new : placed[k].length <= new[j].length
    BY <1>10 DEF AsLong
  <2>3. PICK x, y, z \in Nat : list[i].length = x /\ placed[k].length = y /\ new[j].length = z
    <3>1. PICK e, f, g \in Node : e = list[i] /\ f = placed[k] /\ g = new[j]
      OBVIOUS
    <3> QED BY <3>1, NodeTypes
  <2>4. x <= z
    BY <2>1, <2>2, <2>3
  <2> QED BY <2>3, <2>4
<1> QED BY <1>7, <1>10, <1>11

-----------------------------------------------------------------------------
(* Carving: the block begins where the node did, and the node that remains   *)
(* ends where the node did.                                                  *)

\* kmalloc's first fit.
LEMMA FirstFit ==
  ASSUME NEW list \in Seq(Node), NEW size \in Nat
  PROVE  LET i == SelectInSeq(list, LAMBDA node : node.length >= size + HEADER) IN
         \/ i = 0 /\ \A k \in 1 .. Len(list) : list[k].length < size + HEADER
         \/ i \in 1 .. Len(list) /\ list[i].length >= size + HEADER
<1> DEFINE I == {k \in 1 .. Len(list) : list[k].length >= size + HEADER}
           i == SelectInSeq(list, LAMBDA node : node.length >= size + HEADER)
<1>1. i = IF I # {} THEN Min(I) ELSE 0
  BY DEF SelectInSeq
<1>2. I \in SUBSET Nat
  OBVIOUS
<1>3. I # {} => i \in I
  <2> HIDE DEF I, i
  <2> QED BY <1>1, <1>2, MinExists
<1>4. \/ i = 0 /\ \A k \in 1 .. Len(list) : list[k].length < size + HEADER
      \/ i \in 1 .. Len(list) /\ list[i].length >= size + HEADER
  <2> HIDE DEF i
  <2>1. ASSUME NEW k \in 1 .. Len(list), k \notin I PROVE list[k].length < size + HEADER
    <3>1. PICK e \in Node : e = list[k]
      OBVIOUS
    <3>2. e.length \in Nat /\ size + HEADER \in Nat
      BY NodeTypes, Room4
    <3> QED BY <2>1, <3>1, <3>2
  <2> QED BY <1>1, <1>3, <2>1
<1> QED BY <1>4

Carved(list, i, size) ==
  LET remaining == list[i].length - (size + HEADER) IN
  IF TooSmall(remaining) THEN RemoveAt(list, i) ELSE ReplaceAt(list, i, Rest(list[i], size))

LEMMA CarveKeeps ==
  ASSUME NEW list \in Seq(Node), Spaced(list), NEW size \in Nat \ {0}, NEW frame \in Nat,
         NEW i \in 1 .. Len(list), list[i].length >= size + HEADER
  PROVE  LET new == Carved(list, i, size)
             b == [frame |-> frame, base |-> list[i].at + HEAP_NODE, size |-> size,
                   header |-> BlockHeader(size, list[i].length - (size + HEADER))]
         IN /\ new \in Seq(Node) /\ Spaced(new)
            /\ b \in Block /\ Small(b) /\ b.size <= b.header
            /\ HEAP_PAGE <= Start(b) /\ Stop(b) <= FrameWords
            /\ Clear(new, b)
            /\ \A c \in Block : Clear(list, c) => Clear(new, c) /\ (Stop(b) <= Start(c) \/ Stop(c) <= Start(b))
<1> DEFINE new == Carved(list, i, size)
           b == [frame |-> frame, base |-> list[i].at + HEAP_NODE, size |-> size,
                 header |-> BlockHeader(size, list[i].length - (size + HEADER))]
<1>1. PICK n \in Nat : n = Len(list) /\ DOMAIN list = 1 .. n
  OBVIOUS
<1>2. PICK a, l, s \in Nat :
        list[i].at = a /\ list[i].length = l /\ End(list[i]) = a + 2 + l /\ s = size /\ s > 0 /\ l >= s + 1
  <2>1. PICK e \in Node : e = list[i]
    OBVIOUS
  <2>2. PICK a, l \in Nat : e.at = a /\ e.length = l /\ End(e) = a + 2 + l
    BY NodeTypes
  <2>3. l >= size + 1 /\ size > 0
    BY <2>1, <2>2, Room4
  <2> QED BY <2>1, <2>2, <2>3
<1>3. 4 <= a /\ a + 2 + l <= FrameWords
  BY <1>1, <1>2, Room4 DEF Spaced
<1>4. PICK h \in Nat : /\ h = BlockHeader(size, list[i].length - (size + HEADER))
                       /\ h = (IF l < s + 3 THEN l - 1 ELSE s)
  BY <1>2, Room4 DEF BlockHeader, TooSmall
<1>5. /\ b \in Block /\ b.frame = frame /\ b.base = a + 2 /\ b.size = s /\ b.header = h
      /\ Start(b) = a /\ Stop(b) = a + 3 + h
  <2>1. b = [frame |-> frame, base |-> a + 2, size |-> s, header |-> h]
    BY <1>2, <1>4, Room4
  <2> HIDE DEF b
  <2>2. b \in Block /\ b.frame = frame /\ b.base = a + 2 /\ b.size = s /\ b.header = h
    BY <1>2, <1>4, <2>1 DEF Block
  <2>3. Start(b) = (a + 2) - 2 /\ Stop(b) = (a + 2) + 1 + h
    BY <2>2, BlockTypes
  <2> QED BY <2>2, <2>3
<1> HIDE DEF b
<1>6. /\ s <= h /\ h <= FrameWords - 7 /\ a + 3 + h <= a + 2 + l
      /\ 4 <= a /\ a + 3 + h <= FrameWords
  <2>1. FrameWords \in Nat /\ l >= s + 1
    BY <1>2, Room4
  <2>2. CASE l < s + 3
    <3>1. h = l - 1
      BY <1>4, <2>2
    <3> QED BY <1>3, <2>1, <3>1
  <2>3. CASE ~(l < s + 3)
    <3>1. h = s
      BY <1>4, <2>3
    <3> QED BY <1>3, <2>1, <2>3, <3>1
  <2> QED BY <2>2, <2>3
<1>7. /\ Small(b) /\ b.size <= b.header /\ HEAP_PAGE <= Start(b) /\ Stop(b) <= FrameWords
  BY <1>5, <1>6, Room4 DEF Small
<1>8. ASSUME NEW c \in Block, Clear(list, c) PROVE Stop(b) <= Start(c) \/ Stop(c) <= Start(b)
  <2>1. End(list[i]) + HEADER <= Start(c) \/ Stop(c) <= list[i].at
    BY <1>1, <1>8 DEF Clear
  <2>2. PICK x, y \in Int : Start(c) = x /\ Stop(c) = y
    BY BlockTypes
  <2>3. a + 2 + l + 1 <= x \/ y <= a
    BY <1>2, <2>1, <2>2, Room4
  <2>4. a + 3 + h <= x \/ y <= a
    BY <1>6, <2>2, <2>3
  <2> QED BY <1>5, <2>2, <2>4
\* The other nodes are as far from the block as they were from its node.
<1>9. \A j \in 1 .. n : j # i => NodeClear(list[j], b)
  <2> SUFFICES ASSUME NEW j \in 1 .. n, j # i PROVE NodeClear(list[j], b)
    OBVIOUS
  <2>1. PICK x, y \in Nat : list[j].at = x /\ End(list[j]) = y
    <3>1. PICK e \in Node : e = list[j]
      BY <1>1
    <3> QED BY <3>1, NodeTypes
  <2>2. y + 1 <= a \/ a + 2 + l + 1 <= x
    <3>1. CASE j < i
      BY <1>1, <1>2, <2>1, <3>1, Room4 DEF Spaced
    <3>2. CASE i < j
      BY <1>1, <1>2, <2>1, <3>2, Room4 DEF Spaced
    <3> QED BY <1>1, <3>1, <3>2
  <2>3. y + 1 <= a \/ a + 3 + h <= x
    <3>1. a + 3 + h <= a + 2 + l + 1
      BY <1>6
    <3> QED BY <2>2, <3>1
  <2> QED BY <1>5, <2>1, <2>3, Room4 DEF NodeClear
<1>10. CASE TooSmall(list[i].length - (size + HEADER))
  <2>1. /\ new \in Seq(Node) /\ Len(new) = Len(list) - 1
        /\ \A k \in 1 .. Len(list) - 1 : new[k] = IF k < i THEN list[k] ELSE list[k + 1]
    BY <1>10, RemoveAtElements DEF Carved
  <2> HIDE DEF new
  <2>2. DOMAIN new = 1 .. n - 1
    BY <1>1, <2>1
  <2>3. ASSUME NEW k \in 1 .. n - 1
        PROVE  \E j \in 1 .. n : j # i /\ new[k] = list[j] /\ j = IF k < i THEN k ELSE k + 1
    <3>1. PICK j \in 1 .. n : j = IF k < i THEN k ELSE k + 1
      BY <1>1
    <3> QED BY <1>1, <2>1, <3>1
  <2>4. Spaced(new)
    <3>1. \A k \in 1 .. n - 1 : HEAP_PAGE <= new[k].at /\ End(new[k]) <= FrameWords
      BY <1>1, <2>3 DEF Spaced
    <3>2. ASSUME NEW j \in 1 .. n - 1, NEW k \in 1 .. n - 1, j < k PROVE End(new[j]) + HEADER <= new[k].at
      <4>1. PICK p \in 1 .. n : new[j] = list[p] /\ p = IF j < i THEN j ELSE j + 1
        BY <2>3
      <4>2. PICK q \in 1 .. n : new[k] = list[q] /\ q = IF k < i THEN k ELSE k + 1
        BY <2>3
      <4>3. p < q
        BY <3>2, <4>1, <4>2
      <4>4. End(list[p]) + HEADER <= list[q].at
        BY <1>1, <4>3 DEF Spaced
      <4> QED BY <4>1, <4>2, <4>4
    <3> QED BY <2>2, <3>1, <3>2 DEF Spaced
  <2>5. Clear(new, b)
    BY <1>9, <2>2, <2>3 DEF Clear, NodeClear
  <2>6. ASSUME NEW c \in Block, Clear(list, c) PROVE Clear(new, c)
    <3>1. \A j \in 1 .. n : NodeClear(list[j], c)
      BY <1>1, <2>6 DEF Clear, NodeClear
    <3>2. \A k \in 1 .. n - 1 : NodeClear(new[k], c)
      BY <2>3, <3>1
    <3> QED BY <2>2, <3>2 DEF Clear, NodeClear
  <2> QED BY <1>5, <1>7, <1>8, <2>1, <2>4, <2>5, <2>6 DEF new, b
<1>11. CASE ~TooSmall(list[i].length - (size + HEADER))
  <2> DEFINE e == Rest(list[i], size)
  <2>1. PICK m \in Nat : l = s + 3 + m /\ h = s
    <3>1. l >= s + 3
      BY <1>2, <1>11, Room4 DEF TooSmall
    <3>2. l - (s + 3) \in Nat /\ l = s + 3 + (l - (s + 3)) /\ h = s
      BY <1>2, <1>4, <3>1
    <3> QED BY <3>2
  <2>2. e \in Node /\ e.at = a + 3 + s /\ End(e) = a + 2 + l
    <3>1. e = [at |-> a + 3 + s, length |-> m]
      BY <1>2, <2>1, Room4 DEF Rest
    <3>2. e \in Node /\ e.at = a + 3 + s /\ End(e) = (a + 3 + s) + 2 + m
      <4>1. a + 3 + s \in Nat
        OBVIOUS
      <4> HIDE DEF e
      <4> QED BY <3>1, <4>1, NodeMade
    <3> HIDE DEF e
    <3> QED BY <2>1, <3>2
  <2>3. /\ new \in Seq(Node) /\ Len(new) = Len(list)
        /\ \A k \in 1 .. Len(list) : new[k] = IF k = i THEN e ELSE list[k]
    <3>1. PICK rest \in Node : rest = e
      BY <2>2
    <3>2. new = ReplaceAt(list, i, rest)
      BY <1>11, <3>1 DEF Carved
    <3>3. /\ ReplaceAt(list, i, rest) \in Seq(Node) /\ Len(ReplaceAt(list, i, rest)) = Len(list)
          /\ \A k \in 1 .. Len(list) : ReplaceAt(list, i, rest)[k] = IF k = i THEN rest ELSE list[k]
      BY ReplaceAtElements
    <3> HIDE DEF new, e
    <3> QED BY <3>1, <3>2, <3>3
  <2> HIDE DEF new, e
  <2>4. DOMAIN new = 1 .. n /\ \A k \in 1 .. n : (k = i /\ new[k] = e) \/ (k # i /\ new[k] = list[k])
    BY <1>1, <2>3
  <2>5. Spaced(new)
    <3>1. \A k \in 1 .. n : HEAP_PAGE <= list[k].at /\ End(list[k]) <= FrameWords
      BY <1>1 DEF Spaced
    <3>2. \A k \in 1 .. n : HEAP_PAGE <= new[k].at /\ End(new[k]) <= FrameWords
      <4>1. HEAP_PAGE <= e.at /\ End(e) <= FrameWords
        BY <1>3, <2>2, Room4
      <4> QED BY <2>4, <3>1, <4>1
    <3>3. ASSUME NEW j \in 1 .. n, NEW k \in 1 .. n, j < k PROVE End(new[j]) + HEADER <= new[k].at
      <4>1. End(list[j]) + HEADER <= list[k].at
        BY <1>1, <3>3 DEF Spaced
      <4>2. CASE j = i
        <5>1. new[j] = e /\ new[k] = list[k] /\ End(list[i]) = End(e)
          BY <1>2, <2>2, <2>4, <3>3, <4>2
        <5> QED BY <4>1, <4>2, <5>1
      <4>3. CASE k = i
        <5>1. PICK x \in Nat : End(list[j]) = x
          <6>1. PICK f \in Node : f = list[j]
            BY <1>1
          <6> QED BY <6>1, NodeTypes
        <5>2. x + 1 <= a /\ new[j] = list[j] /\ new[k].at = a + 3 + s
          <6>1. End(list[j]) + 1 <= list[i].at
            BY <4>1, <4>3, Room4
          <6>2. new[j] = list[j] /\ new[k] = e
            BY <2>4, <3>3, <4>3
          <6> QED BY <1>2, <2>2, <5>1, <6>1, <6>2
        <5>3. x + 1 <= a + 3 + s
          BY <5>2
        <5> QED BY <5>1, <5>2, <5>3, Room4
      <4>4. CASE j # i /\ k # i
        BY <2>4, <4>1, <4>4
      <4> QED BY <4>2, <4>3, <4>4
    <3> QED BY <2>4, <3>2, <3>3 DEF Spaced
  <2>6. Clear(new, b)
    <3>1. NodeClear(e, b)
      BY <1>5, <2>1, <2>2 DEF NodeClear
    <3>2. \A k \in 1 .. n : NodeClear(new[k], b)
      BY <1>9, <2>4, <3>1
    <3> QED BY <2>4, <3>2 DEF Clear, NodeClear
  <2>7. ASSUME NEW c \in Block, Clear(list, c) PROVE Clear(new, c)
    <3>1. \A k \in 1 .. n : NodeClear(list[k], c)
      BY <1>1, <2>7 DEF Clear, NodeClear
    <3>2. NodeClear(e, c)
      <4>1. PICK x, y \in Int : Start(c) = x /\ Stop(c) = y
        BY BlockTypes
      <4>2. a + 2 + l + 1 <= x \/ y <= a
        BY <1>1, <1>2, <3>1, <4>1, Room4 DEF NodeClear
      <4>3. a + 2 + l + 1 <= x \/ y <= a + 3 + s
        BY <4>1, <4>2
      <4> QED BY <2>2, <4>1, <4>3, Room4 DEF NodeClear
    <3>3. \A k \in 1 .. n : NodeClear(new[k], c)
      BY <2>4, <3>1, <3>2
    <3> QED BY <2>4, <3>3 DEF Clear, NodeClear
  <2> QED BY <1>5, <1>7, <1>8, <2>3, <2>5, <2>6, <2>7 DEF new, b
<1> QED BY <1>10, <1>11

-----------------------------------------------------------------------------
(* The inductive invariant.                                                  *)

HeapPage == [freelist : Seq(Node), largest : Nat]

LEMMA PageFrameTypes ==
  ASSUME HeapIInv, NEW f \in PageFrames
  PROVE  /\ f \in Nat \ {0} /\ [base |-> f, length |-> 1] \in live
         /\ page[f] \in HeapPage /\ page[f].freelist \in Seq(Node) /\ page[f].largest \in Nat
         /\ Spaced(page[f].freelist)
         /\ page[f].largest <= MaxLength(page[f].freelist)
<1>1. [base |-> f, length |-> 1] \in live /\ Spaced(page[f].freelist) /\ page[f] \in HeapPage
  BY DEF HeapIInv, PagesSound, HeapPage
<1>2. f \in Nat /\ f > 0
  BY <1>1 DEF HeapIInv, IInv, TypeOK, NonNull
<1>3. page[f].freelist \in Seq(Node) /\ page[f].largest \in Nat
  BY <1>1 DEF HeapPage
<1> QED BY <1>1, <1>2, <1>3 DEF HeapIInv, LargestNotOverstated

\* A frame that a block or a page begins at is out, unless it is frame 0.
LEMMA BlockFrames ==
  ASSUME HeapIInv, NEW b \in blocks
  PROVE  /\ b \in Block /\ 0 < b.size /\ b.size <= b.header
         /\ Small(b) => SmallSound(b)
         /\ ~Small(b) => BigSound(b)
         /\ b.frame # 0 => \E run \in live : run.base = b.frame
<1>1. b \in Block /\ 0 < b.size /\ b.size <= b.header
  BY DEF HeapIInv, BlocksSound
<1>2. (Small(b) => SmallSound(b)) /\ (~Small(b) => BigSound(b))
  BY DEF HeapIInv, BlocksSound
<1>3. CASE Small(b)
  <2>1. [base |-> b.frame, length |-> 1] \in live
    BY <1>2, <1>3, PageFrameTypes DEF SmallSound
  <2> QED BY <1>1, <1>2, <2>1
<1>4. CASE ~Small(b)
  <2>1. b.frame # 0 => [base |-> b.frame, length |-> FramesFor(b.size)] \in live
    BY <1>2, <1>4 DEF BigSound
  <2> QED BY <1>1, <1>2, <2>1
<1> QED BY <1>3, <1>4

LEMMA HeapIInvInit == HeapInit => HeapIInv
<1> SUFFICES ASSUME HeapInit PROVE HeapIInv
  OBVIOUS
<1>1. IInv
  BY IInvInit DEF HeapInit
<1>2. heap_pages = <<>> /\ page = <<>> /\ blocks = {} /\ wild = FALSE
  BY DEF HeapInit
<1>3. PageFrames = {}
  BY <1>2 DEF PageFrames, ToSet
<1>4. page \in [PageFrames -> [freelist : Seq(Node), largest : Nat]]
  <2>1. <<>> \in [1 .. 0 -> [freelist : Seq(Node), largest : Nat]]
    OBVIOUS
  <2>2. 1 .. 0 = {}
    OBVIOUS
  <2> QED BY <1>2, <1>3, <2>1, <2>2
<1>5. heap_pages \in Seq(Nat) /\ blocks \subseteq Block /\ wild \in BOOLEAN
  <2>1. heap_pages \in Seq(Nat)
    BY <1>2
  <2>2. blocks \subseteq Block
    BY <1>2
  <2>3. wild \in BOOLEAN
    BY <1>2, Zenon
  <2> QED BY <2>1, <2>2, <2>3
<1>6. PagesSound /\ BlocksSound /\ LargestNotOverstated
  BY <1>2, <1>3, <1>4 DEF PagesSound, BlocksSound, LargestNotOverstated
<1> QED BY <1>1, <1>2, <1>5, <1>6 DEF HeapIInv

LEMMA HeapUnchanged ==
  ASSUME HeapIInv, IInv', UNCHANGED live, UNCHANGED heapVars
  PROVE  HeapIInv'
BY DEF HeapIInv, heapVars, PagesSound, BlocksSound, SmallSound, BigSound, LargestNotOverstated, PageFrames

\* The frame allocator's steps, with the heap as it was.
LEMMA ParseKeepsHeap ==
  ASSUME HeapIInv, HeapParse
  PROVE  HeapIInv' /\ [Next]_freeListVars
<1>1. Next /\ UNCHANGED live /\ UNCHANGED heapVars
  BY DEF HeapParse, ParseEntry, Next
<1>2. IInv'
  BY <1>1, IInvStep DEF HeapIInv
<1> QED BY <1>1, <1>2, HeapUnchanged

\* A big block gets a run of its own, or frame 0.
LEMMA KmallocBigKeeps ==
  ASSUME HeapIInv, HeapReady, NEW size \in Sizes, KmallocBig(size)
  PROVE  HeapIInv' /\ [Next]_freeListVars
<1>1. PICK physical \in Reachable :
        /\ memory_allocate_frames(FramesFor(size), physical)
        /\ Hand(physical, FramesFor(size))
        /\ blocks' = blocks \cup
             {[frame |-> physical, base |-> HEAP_PAGE, size |-> size,
               header |-> FrameWords * FramesFor(size) - HEAP_PAGE - HEADER]}
        /\ wild' = (physical = 0)
  BY DEF KmallocBig
<1>2. size > SMALL_PAGE_MAXIMUM_SIZE /\ UNCHANGED <<parsed, heap_pages, page>> /\ size \in Nat \ {0}
  BY Room4 DEF KmallocBig
<1>3. PICK k \in Nat \ {0} : k = FramesFor(size) /\ k \in 1 .. MaxRun
  <2>1. FramesFor(size) \in Nat \ {0} /\ FramesFor(size) <= MaxRun
    BY <1>2, FramesForBounds, HeapAssumption
  <2> QED BY <2>1, FreeListAssumption
<1>4. Next
  BY <1>1, <1>2, <1>3 DEF Next, AllocateFrames, HeapReady
<1>5. IInv'
  BY <1>4, IInvStep DEF HeapIInv
<1>6. /\ physical \in Nat /\ live \subseteq live'
      /\ physical # 0 => [base |-> physical, length |-> k] \in live' /\ \A run \in live : run.base # physical
  <2>1. IInv
    BY DEF HeapIInv
  <2>2. memory_allocate_frames(k, physical) /\ Hand(physical, k)
    BY <1>1, <1>3
  <2> QED BY <2>1, <2>2, FreshBase
<1>7. PICK w \in Nat : w = FrameWords * k - HEAP_PAGE - HEADER /\ w >= size
  <2>1. PICK v \in Nat : v = FrameWords * k
    BY Room4
  <2>2. size + 5 <= v
    BY <1>2, <1>3, <2>1, FramesForBounds
  <2> QED BY <1>2, <2>1, <2>2, Room4
<1> DEFINE new == [frame |-> physical, base |-> HEAP_PAGE, size |-> size, header |-> w]
<1>8. /\ blocks' = blocks \cup {new} /\ new \in Block
      /\ new.frame = physical /\ new.base = HEAP_PAGE /\ new.size = size /\ new.header = w
  BY <1>1, <1>2, <1>3, <1>6, <1>7, Room4 DEF Block
<1> HIDE DEF new
<1>9. ~Small(new) /\ 0 < new.size /\ new.size <= new.header
  BY <1>2, <1>7, <1>8, Room4 DEF Small
<1>10. PageFrames' = PageFrames
  BY <1>2 DEF PageFrames
<1>11. physical \notin PageFrames
  <2> SUFFICES ASSUME physical \in PageFrames PROVE FALSE
    OBVIOUS
  <2>1. physical # 0 /\ [base |-> physical, length |-> 1] \in live
    BY PageFrameTypes
  <2> QED BY <1>6, <2>1
<1>12. \A c \in blocks : c.frame # physical
  <2> SUFFICES ASSUME NEW c \in blocks, c.frame = physical PROVE FALSE
    OBVIOUS
  <2>1. c.frame # 0
    BY DEF HeapReady, HeapIInv
  <2> QED BY <1>6, <2>1, BlockFrames
<1>13. BigSound(new)'
  BY <1>3, <1>6, <1>7, <1>8, <1>10, <1>11 DEF BigSound
<1>14. ASSUME NEW c \in blocks
       PROVE  /\ 0 < c.size /\ c.size <= c.header
              /\ IF Small(c) THEN SmallSound(c)' ELSE BigSound(c)'
  BY <1>2, <1>6, <1>10, BlockFrames DEF SmallSound, BigSound
<1>15. BlocksSound'
  BY <1>8, <1>9, <1>13, <1>14 DEF BlocksSound
<1>16. PagesSound' /\ LargestNotOverstated'
  BY <1>2, <1>6, <1>10 DEF HeapIInv, PagesSound, LargestNotOverstated
<1>17. \A b, c \in blocks' : b # c /\ b.frame = c.frame => Apart(b, c)
  BY <1>8, <1>12 DEF HeapIInv
<1>18. ~wild' => \A b \in blocks' : b.frame # 0
  BY <1>1, <1>8 DEF HeapIInv, HeapReady
<1>19. heap_pages' \in Seq(Nat) /\ blocks' \subseteq Block /\ wild' \in BOOLEAN
  BY <1>1, <1>2, <1>8 DEF HeapIInv
<1> QED BY <1>4, <1>5, <1>15, <1>16, <1>17, <1>18, <1>19 DEF HeapIInv

\* A big block's address and header say which run it is.
LEMMA KfreeBigKeeps ==
  ASSUME HeapIInv, HeapReady, NEW b \in blocks, KfreeBig(b)
  PROVE  HeapIInv' /\ [Next]_freeListVars
<1>1. /\ b.header > SMALL_PAGE_MAXIMUM_SIZE /\ UNCHANGED <<parsed, heap_pages, page, wild>>
      /\ memory_free_frames(FrameOf(b), FramesFor(b.header))
      /\ IF overrun' THEN UNCHANGED <<live, blocks>>
         ELSE /\ live' = live \ {[base |-> FrameOf(b), length |-> FramesFor(b.header)]}
              /\ blocks' = blocks \ {b}
  BY DEF KfreeBig
<1>2. b \in Block /\ b.frame # 0 /\ BigSound(b) /\ ~Small(b)
  <2>1. ~Small(b)
    <3>1. b.header \in Nat
      BY BlockFrames, BlockTypes
    <3> QED BY <1>1, <3>1, Room4 DEF Small
  <2> QED BY <2>1, BlockFrames DEF HeapReady, HeapIInv
<1>3. PICK k \in Nat : k = FramesFor(b.size)
  BY <1>2, BlockTypes, FramesForBounds
<1>4. FrameOf(b) = b.frame
  <2>1. b.base + HEADER < FrameWords
    BY <1>2, Room4 DEF BigSound
  <2> QED BY <1>2, <2>1, FrameOfBlock
<1>5. FramesFor(b.header) = k
  BY <1>2, <1>3, FramesForHeader DEF BigSound
<1>6. PICK run \in live : run = [base |-> b.frame, length |-> k]
  BY <1>2, <1>3 DEF BigSound
<1>7. run.base = FrameOf(b) /\ run.length = FramesFor(b.header)
  BY <1>4, <1>5, <1>6
<1>8. Next
  <2>1. FreeFrames
    BY <1>1, <1>4, <1>5, <1>6, <1>7 DEF FreeFrames, HeapReady
  <2> QED BY <2>1 DEF Next
<1>9. IInv'
  BY <1>8, IInvStep DEF HeapIInv
<1>10. CASE overrun'
  <2>1. UNCHANGED live /\ UNCHANGED heapVars
    BY <1>1, <1>10 DEF heapVars
  <2> QED BY <1>8, <1>9, <2>1, HeapUnchanged
<1>11. CASE ~overrun'
  <2>1. blocks' = blocks \ {b} /\ live' = live \ {run} /\ PageFrames' = PageFrames
    BY <1>1, <1>4, <1>5, <1>6, <1>11 DEF PageFrames
  <2>2. \A other \in live : other.base # b.frame => other \in live'
    BY <1>6, <2>1
  <2>3. \A f \in PageFrames : f # b.frame
    BY <1>2 DEF BigSound
  <2>4. PagesSound' /\ LargestNotOverstated'
    BY <1>1, <2>1, <2>2, <2>3 DEF HeapIInv, PagesSound, LargestNotOverstated
  <2>5. ASSUME NEW c \in blocks' PROVE /\ 0 < c.size /\ c.size <= c.header
                                        /\ IF Small(c) THEN SmallSound(c)' ELSE BigSound(c)'
    <3>1. c \in blocks /\ c # b
      BY <2>1
    <3>2. c.frame # b.frame
      BY <1>2, <3>1 DEF HeapIInv, Apart
    <3>3. CASE Small(c)
      BY <1>1, <2>1, <3>1, <3>3, BlockFrames DEF SmallSound
    <3>4. CASE ~Small(c)
      BY <2>1, <2>2, <3>1, <3>2, <3>4, BlockFrames DEF BigSound
    <3> QED BY <3>1, <3>3, <3>4, BlockFrames
  <2>6. BlocksSound'
    BY <2>5 DEF BlocksSound
  <2> QED BY <1>1, <1>8, <1>9, <2>1, <2>4, <2>6 DEF HeapIInv
<1> QED BY <1>10, <1>11

\* kfree finds the page and the node of a small block by its address.
LEMMA KfreeSmallKeeps ==
  ASSUME HeapIInv, HeapReady, NEW b \in blocks, KfreeSmall(b)
  PROVE  HeapIInv' /\ [Next]_freeListVars
<1> DEFINE f == b.frame
           list == page[f].freelist
           node == [at |-> b.base - HEAP_NODE, length |-> b.header]
           new == Insert(list, node)
<1>1. b.header <= SMALL_PAGE_MAXIMUM_SIZE /\ UNCHANGED freeListVars /\ UNCHANGED <<heap_pages, wild>>
      /\ page' = [page EXCEPT ![FrameOf(b)].freelist = Insert(@, node)]
      /\ blocks' = blocks \ {b}
  BY DEF KfreeSmall, freeListVars
<1>2. b \in Block /\ Small(b) /\ f \in PageFrames /\ Clear(list, b)
  BY <1>1, BlockFrames DEF Small, SmallSound
<1>3. PICK x, h \in Nat : /\ b.base = x + 2 /\ b.header = h /\ h > 0
                          /\ Start(b) = x /\ Stop(b) = x + 3 + h
                          /\ 4 <= x /\ x + 3 + h <= FrameWords
  <2>1. PICK y, h, z \in Nat : /\ b.base = y /\ b.header = h /\ b.size = z
                             /\ Start(b) = y - 2 /\ Stop(b) = y + 1 + h
    BY <1>2, BlockTypes
  <2>2. 4 <= y - 2 /\ y + 1 + h <= FrameWords
    BY <1>2, <2>1, BlockFrames, Room4 DEF SmallSound
  <2>3. 0 < z /\ z <= h
    BY <2>1, BlockFrames
  <2>4. PICK w \in Nat : y = w + 2
    <3>1. y - 2 \in Nat /\ y = (y - 2) + 2
      BY <2>2
    <3> QED BY <3>1
  <2>5. h > 0 /\ y - 2 = w /\ y + 1 + h = w + 3 + h
    BY <2>3, <2>4
  <2> QED BY <2>1, <2>2, <2>4, <2>5
<1>4. node \in Node /\ node.at = x /\ End(node) = x + 2 + h
  <2>1. node = [at |-> x, length |-> h]
    BY <1>3, Room4
  <2> HIDE DEF node
  <2> QED BY <2>1, NodeMade
<1>5. FrameOf(b) = f
  <2>1. b.base + HEADER < FrameWords
    BY <1>3, Room4
  <2> QED BY <1>2, <2>1, FrameOfBlock
<1>6. /\ list \in Seq(Node) /\ Spaced(list) /\ page[f] \in HeapPage
      /\ page[f].largest \in Nat /\ page[f].largest <= MaxLength(list)
  BY <1>2, PageFrameTypes
<1>7. PICK made \in Node : made = node
  BY <1>4
<1> HIDE DEF node, list, new
<1>8. PICK inserted \in Seq(Node) :
        /\ inserted = new /\ Spaced(inserted)
        /\ \A c \in Block : Clear(list, c) /\ NodeClear(node, c) => Clear(inserted, c)
        /\ AsLong(list, inserted)
  <2>1. HEAP_PAGE <= made.at /\ End(made) <= FrameWords
    BY <1>3, <1>4, <1>7, Room4
  <2>2. ASSUME NEW i \in DOMAIN list
        PROVE  End(list[i]) + HEADER <= made.at \/ End(made) + HEADER <= list[i].at
    <3>1. End(list[i]) + HEADER <= Start(b) \/ Stop(b) <= list[i].at
      BY <1>2 DEF Clear
    <3>2. End(made) + HEADER = Stop(b)
      BY <1>3, <1>4, <1>7, Room4
    <3> QED BY <1>3, <1>4, <1>7, <3>1, <3>2
  <2>3. LET other == Insert(list, made) IN
         /\ other \in Seq(Node) /\ Spaced(other)
         /\ \A c \in Block : Clear(list, c) /\ NodeClear(made, c) => Clear(other, c)
         /\ AsLong(list, other)
    BY <1>6, <2>1, <2>2, InsertKeeps
  <2> QED BY <1>7, <2>3 DEF new
<1>9. MaxLength(list) <= MaxLength(inserted) /\ MaxLength(list) \in Nat /\ MaxLength(inserted) \in Nat
  BY <1>6, <1>8, MaxLengthGrows, MaxLengthIs
<1>10. PageFrames' = PageFrames /\ live' = live
  BY <1>1 DEF PageFrames, freeListVars
<1>11. page \in [PageFrames -> HeapPage]
  BY DEF HeapIInv, PagesSound, HeapPage
<1>12. /\ page' \in [PageFrames -> HeapPage]
       /\ \A g \in PageFrames \ {f} : page'[g] = page[g]
       /\ page'[f].freelist = inserted /\ page'[f].largest = page[f].largest
  <2>1. page' = [page EXCEPT ![f] = [@ EXCEPT !.freelist = inserted]]
    BY <1>1, <1>5, <1>8 DEF new, list
  <2>2. [page[f] EXCEPT !.freelist = inserted] \in HeapPage
        /\ [page[f] EXCEPT !.freelist = inserted].freelist = inserted
        /\ [page[f] EXCEPT !.freelist = inserted].largest = page[f].largest
    BY <1>6 DEF HeapPage
  <2> QED BY <1>2, <1>11, <2>1, <2>2
<1>13. PagesSound'
  BY <1>8, <1>10, <1>12 DEF PagesSound, HeapPage, HeapIInv
<1>14. LargestNotOverstated'
  <2>1. page'[f].largest <= MaxLength(page'[f].freelist)
    BY <1>6, <1>9, <1>12
  <2> QED BY <1>10, <1>12, <2>1, PageFrameTypes DEF LargestNotOverstated
<1>15. BlocksSound'
  <2> SUFFICES ASSUME NEW c \in blocks'
               PROVE  /\ 0 < c.size /\ c.size <= c.header
                      /\ IF Small(c) THEN SmallSound(c)' ELSE BigSound(c)'
    BY DEF BlocksSound
  <2>1. c \in blocks /\ c # b /\ c \in Block
    BY <1>1, BlockFrames
  <2>2. CASE ~Small(c)
    BY <1>10, <2>1, <2>2, BlockFrames DEF BigSound
  <2>3. CASE Small(c) /\ c.frame # f
    BY <1>10, <1>12, <2>1, <2>3, BlockFrames DEF SmallSound
  <2>4. CASE Small(c) /\ c.frame = f
    <3>1. SmallSound(c) /\ Clear(list, c)
      BY <2>1, <2>4, BlockFrames DEF SmallSound, list
    <3>2. Stop(b) <= Start(c) \/ Stop(c) <= Start(b)
      BY <1>2, <2>1, <2>4 DEF HeapIInv, Apart
    <3>3. NodeClear(node, c)
      <4>1. Start(c) \in Int /\ Stop(c) \in Int
        BY <2>1, BlockTypes
      <4>2. End(node) + HEADER = Stop(b)
        BY <1>3, <1>4, Room4
      <4> QED BY <1>3, <1>4, <3>2, <4>1, <4>2 DEF NodeClear
    <3>4. Clear(inserted, c)
      BY <1>8, <2>1, <3>1, <3>3
    <3>5. SmallSound(c)'
      BY <1>10, <1>12, <2>4, <3>1, <3>4 DEF SmallSound
    <3> QED BY <2>1, <2>4, <3>5, BlockFrames
  <2> QED BY <2>2, <2>3, <2>4
<1>16. IInv'
  BY <1>1, IInvUnchanged DEF HeapIInv
<1> QED BY <1>1, <1>10, <1>13, <1>14, <1>15, <1>16 DEF HeapIInv

Takes(frame, pg, size, p) ==
  LET new == Carved(pg.freelist, p, size)
      b == [frame |-> frame, base |-> pg.freelist[p].at + HEAP_NODE, size |-> size,
            header |-> BlockHeader(size, pg.freelist[p].length - (size + HEADER))]
  IN /\ pg.freelist[p].length >= size + HEADER
     /\ blocks' = blocks \cup {b}
     /\ page' = [f \in DOMAIN page \cup {frame} |->
                  IF f = frame THEN [freelist |-> new, largest |-> NewLargest(new)] ELSE page[f]]

\* The first free node that is long enough becomes the block. There always is one, so
\* kmalloc's walk of the nodes does not fail.
LEMMA CarveTakes ==
  ASSUME NEW frame, NEW pg \in HeapPage, NEW size \in Nat \ {0},
         pg.largest <= MaxLength(pg.freelist), size + HEADER <= pg.largest,
         Carve(frame, pg, size)
  PROVE  \E p \in 1 .. Len(pg.freelist) : Takes(frame, pg, size, p)
<1> DEFINE list == pg.freelist
           i == SelectInSeq(list, LAMBDA node : node.length >= size + HEADER)
<1>1. list \in Seq(Node) /\ pg.largest \in Nat
  BY DEF HeapPage
<1>2. PICK p \in 1 .. Len(list) : p = i /\ list[p].length >= size + HEADER
  <2>1. \/ i = 0 /\ \A k \in 1 .. Len(list) : list[k].length < size + HEADER
        \/ i \in 1 .. Len(list) /\ list[i].length >= size + HEADER
    <3> HIDE DEF list
    <3> QED BY <1>1, FirstFit
  <2> HIDE DEF i, list
  <2>2. ASSUME i = 0, \A k \in 1 .. Len(list) : list[k].length < size + HEADER PROVE FALSE
    <3>1. PICK m, s, g \in Nat : m = MaxLength(list) /\ s = size + HEADER /\ s > 0 /\ g = pg.largest
      <4>1. MaxLength(list) \in Nat
        BY <1>1, MaxLengthIs
      <4>2. size + HEADER \in Nat /\ size + HEADER > 0
        BY Room4
      <4> QED BY <1>1, <4>1, <4>2
    <3>2. m >= s
      BY <3>1 DEF list
    <3>3. PICK k \in 1 .. Len(list) : list[k].length = m
      BY <1>1, <3>1, <3>2, MaxLengthIs
    <3>4. m < s
      BY <2>2, <3>1, <3>3
    <3> QED BY <3>1, <3>2, <3>4
  <2> QED BY <2>1, <2>2
<1> DEFINE remaining == list[p].length - (size + HEADER)
           new == Carved(list, p, size)
           b == [frame |-> frame, base |-> list[p].at + HEAP_NODE, size |-> size,
                 header |-> BlockHeader(size, remaining)]
<1>3. /\ blocks' = blocks \cup {b}
      /\ page' = [f \in DOMAIN page \cup {frame} |->
                   IF f = frame THEN [freelist |-> new, largest |-> NewLargest(new)] ELSE page[f]]
  <2>1. i = p /\ p # 0
    BY <1>2
  <2> QED BY <2>1 DEF Carve, Carved
<1> QED BY <1>2, <1>3 DEF Takes

\* The page a new block is carved from.
LEMMA CarveStep ==
  ASSUME HeapIInv, IInv', ~wild, UNCHANGED wild,
         NEW frame \in Nat \ {0}, NEW pg \in HeapPage, NEW size \in Nat \ {0},
         Spaced(pg.freelist), pg.largest <= MaxLength(pg.freelist), size + HEADER <= pg.largest,
         frame \in PageFrames => page[frame] = pg,
         frame \notin PageFrames => \A c \in blocks : c.frame # frame,
         PageFrames' = PageFrames \cup {frame}, heap_pages' \in Seq(Nat),
         live \subseteq live', [base |-> frame, length |-> 1] \in live',
         Carve(frame, pg, size)
  PROVE  HeapIInv'
<1> DEFINE list == pg.freelist
<1>1. list \in Seq(Node) /\ Spaced(list) /\ pg.largest \in Nat
  BY DEF HeapPage
<1>a. PICK p \in 1 .. Len(list) : Takes(frame, pg, size, p)
  BY CarveTakes
<1>2. list[p].length >= size + HEADER
  BY <1>a DEF Takes
<1> DEFINE remaining == list[p].length - (size + HEADER)
           new == Carved(list, p, size)
           b == [frame |-> frame, base |-> list[p].at + HEAP_NODE, size |-> size,
                 header |-> BlockHeader(size, remaining)]
<1>3. /\ blocks' = blocks \cup {b}
      /\ page' = [f \in DOMAIN page \cup {frame} |->
                   IF f = frame THEN [freelist |-> new, largest |-> NewLargest(new)] ELSE page[f]]
  BY <1>a DEF Takes
<1>4. /\ new \in Seq(Node) /\ Spaced(new)
      /\ b \in Block /\ Small(b) /\ b.size <= b.header
      /\ HEAP_PAGE <= Start(b) /\ Stop(b) <= FrameWords
      /\ Clear(new, b)
      /\ \A c \in Block : Clear(list, c) => Clear(new, c) /\ (Stop(b) <= Start(c) \/ Stop(c) <= Start(b))
  <2> HIDE DEF list
  <2> QED BY <1>1, <1>2, CarveKeeps
<1>5. b.frame = frame /\ b.size = size /\ 0 < b.size
  OBVIOUS
<1> HIDE DEF new, b, list
<1>6. MaxLength(new) \in Nat /\ NewLargest(new) = MaxLength(new)
  BY <1>4, MaxLengthIs DEF NewLargest
<1>7. page \in [PageFrames -> HeapPage]
  BY DEF HeapIInv, PagesSound, HeapPage
<1>8. /\ page' \in [PageFrames' -> HeapPage]
      /\ \A f \in PageFrames' \ {frame} : f \in PageFrames /\ page'[f] = page[f]
      /\ page'[frame].freelist = new /\ page'[frame].largest = MaxLength(new)
  <2> DEFINE made == [freelist |-> new, largest |-> MaxLength(new)]
  <2>1. made \in HeapPage /\ made.freelist = new /\ made.largest = MaxLength(new)
    BY <1>4, <1>6 DEF HeapPage
  <2>2. page' = [f \in PageFrames' |-> IF f = frame THEN made ELSE page[f]]
    BY <1>3, <1>6, <1>7
  <2> HIDE DEF made
  <2> QED BY <1>7, <2>1, <2>2
<1>9. PagesSound'
  <2>1. \A f \in PageFrames' : ([base |-> f, length |-> 1] \in live /\ Spaced(page[f].freelist))'
    BY <1>4, <1>8, PageFrameTypes
  <2> QED BY <1>8, <2>1 DEF PagesSound, HeapPage
<1>10. LargestNotOverstated'
  <2>1. page'[frame].largest <= MaxLength(page'[frame].freelist)
    BY <1>6, <1>8
  <2> QED BY <1>8, <2>1, PageFrameTypes DEF LargestNotOverstated
\* The blocks that were there before.
<1>11. ASSUME NEW c \in blocks, Small(c), c.frame = frame
       PROVE  SmallSound(c) /\ c \in Block /\ Clear(list, c)
  BY <1>11, BlockFrames DEF SmallSound, list
<1>12. ASSUME NEW c \in blocks
       PROVE  /\ 0 < c.size /\ c.size <= c.header
              /\ IF Small(c) THEN SmallSound(c)' ELSE BigSound(c)'
  <2>1. CASE Small(c) /\ c.frame = frame
    <3>1. Clear(page'[frame].freelist, c)
      BY <1>4, <1>8, <1>11, <2>1
    <3> QED BY <1>11, <2>1, <3>1, BlockFrames DEF SmallSound
  <2>2. CASE Small(c) /\ c.frame # frame
    BY <1>8, <2>2, BlockFrames DEF SmallSound
  <2>3. CASE ~Small(c)
    <3>1. c.frame # frame
      BY <2>3, BlockFrames DEF BigSound
    <3> QED BY <2>3, <3>1, BlockFrames DEF BigSound
  <2> QED BY <2>1, <2>2, <2>3
<1>13. SmallSound(b)'
  BY <1>4, <1>5, <1>8 DEF SmallSound
<1>14. BlocksSound'
  BY <1>3, <1>4, <1>5, <1>12, <1>13 DEF BlocksSound
<1>15. ASSUME NEW c \in blocks, c.frame = frame PROVE Apart(b, c) /\ Apart(c, b)
  <2>1. Small(c)
    BY <1>15, BlockFrames DEF BigSound
  <2> QED BY <1>4, <1>11, <1>15, <2>1 DEF Apart
<1>16. \A c, d \in blocks' : c # d /\ c.frame = d.frame => Apart(c, d)
  BY <1>3, <1>5, <1>15 DEF HeapIInv
<1>17. ~wild' => \A c \in blocks' : c.frame # 0
  BY <1>3, <1>5 DEF HeapIInv
<1>18. blocks' \subseteq Block /\ wild' \in BOOLEAN
  BY <1>3, <1>4 DEF HeapIInv
<1> QED BY <1>9, <1>10, <1>14, <1>16, <1>17, <1>18 DEF HeapIInv

LEMMA KmallocFromPageKeeps ==
  ASSUME HeapIInv, HeapReady, NEW size \in Sizes, KmallocFromPage(size)
  PROVE  HeapIInv' /\ [Next]_freeListVars
<1> DEFINE k == Min(PagesFor(size))
           frame == heap_pages[k]
<1>1. /\ PagesFor(size) # {} /\ Carve(frame, page[frame], size)
      /\ UNCHANGED freeListVars /\ UNCHANGED <<heap_pages, wild>>
  BY DEF KmallocFromPage, freeListVars
<1>2. k \in PagesFor(size)
  <2>1. PagesFor(size) \in SUBSET Nat
    BY DEF PagesFor, HeapIInv
  <2> QED BY <1>1, <2>1, MinExists
<1>3. frame \in PageFrames /\ page[frame].largest >= size + HEADER
  BY <1>2 DEF PagesFor, PageFrames, ToSet
<1> HIDE DEF k, frame
<1>4. PICK f \in PageFrames : f = frame
  BY <1>3
<1>5. IInv'
  BY <1>1, IInvUnchanged DEF HeapIInv
<1>6. /\ f \in Nat \ {0} /\ [base |-> f, length |-> 1] \in live
      /\ page[f] \in HeapPage /\ page[f].largest \in Nat
      /\ Spaced(page[f].freelist) /\ page[f].largest <= MaxLength(page[f].freelist)
  BY PageFrameTypes
<1>7. PICK g \in Nat \ {0}, pg \in HeapPage, s \in Nat \ {0} : g = f /\ pg = page[f] /\ s = size
  BY <1>6, Room4
<1>8. PageFrames' = PageFrames /\ live' = live /\ g \in PageFrames /\ PageFrames' = PageFrames \cup {g}
  BY <1>1, <1>7 DEF PageFrames, freeListVars
<1>9. Spaced(pg.freelist) /\ pg.largest <= MaxLength(pg.freelist) /\ s + HEADER <= pg.largest
  <2>1. s + HEADER \in Nat
    BY Room4
  <2> QED BY <1>3, <1>4, <1>6, <1>7, <2>1
<1>10. HeapIInv'
  <2>1. ~wild /\ UNCHANGED wild /\ heap_pages' \in Seq(Nat)
    BY <1>1 DEF HeapReady, HeapIInv
  <2>2. Carve(g, pg, s)
    BY <1>1, <1>4, <1>7
  <2>3. live \subseteq live' /\ [base |-> g, length |-> 1] \in live'
    BY <1>6, <1>7, <1>8
  <2> QED BY <1>5, <1>7, <1>8, <1>9, <2>1, <2>2, <2>3, CarveStep
<1> QED BY <1>1, <1>10

LEMMA KmallocFromNewPageKeeps ==
  ASSUME HeapIInv, HeapReady, NEW size \in Sizes, KmallocFromNewPage(size)
  PROVE  HeapIInv' /\ [Next]_freeListVars
<1>1. PICK physical \in Reachable :
        /\ TakeFrame(physical) /\ Hand(physical, 1)
        /\ heap_pages' = IF physical = 0 THEN heap_pages ELSE <<physical>> \o heap_pages
        /\ IF physical = 0 THEN wild' = TRUE /\ UNCHANGED <<page, blocks>>
           ELSE Carve(physical, FreshPage, size) /\ UNCHANGED wild
  BY DEF KmallocFromNewPage, memory_allocate_frame
<1>2. size <= SMALL_PAGE_MAXIMUM_SIZE /\ size \in Nat \ {0} /\ UNCHANGED parsed
  BY Room4 DEF KmallocFromNewPage
<1>3. Next
  BY <1>1, <1>2 DEF Next, AllocateFrame, HeapReady
<1>4. IInv /\ IInv'
  BY <1>3, IInvStep DEF HeapIInv
<1>5. \/ physical = 0 /\ live' = live
      \/ /\ physical \in Nat \ {0}
         /\ live' = live \cup {[base |-> physical, length |-> 1]}
         /\ \A run \in live : run.base # physical
  <2>1. memory_allocate_frames(1, physical) /\ 1 \in Nat \ {0}
    BY <1>1 DEF TakeFrame
  <2> QED BY <1>1, <1>4, <2>1, FreshBase
<1>6. CASE physical = 0
  <2>1. UNCHANGED <<live, heap_pages, page, blocks>> /\ wild' = TRUE
    BY <1>1, <1>5, <1>6
  <2>2. PagesSound' /\ BlocksSound' /\ LargestNotOverstated'
    BY <2>1 DEF HeapIInv, PagesSound, BlocksSound, SmallSound, BigSound, LargestNotOverstated, PageFrames
  <2>3. heap_pages' \in Seq(Nat) /\ blocks' \subseteq Block /\ wild' \in BOOLEAN
    BY <2>1 DEF HeapIInv
  <2>4. \A b, c \in blocks' : b # c /\ b.frame = c.frame => Apart(b, c)
    BY <2>1 DEF HeapIInv
  <2> QED BY <1>3, <1>4, <2>1, <2>2, <2>3, <2>4 DEF HeapIInv
<1>7. CASE physical # 0
  <2>1. PICK g \in Nat \ {0}, s \in Nat \ {0} : g = physical /\ s = size
    BY <1>2, <1>5, <1>7
  <2>2. live' = live \cup {[base |-> g, length |-> 1]} /\ \A run \in live : run.base # g
    BY <1>5, <1>7, <2>1
  <2>3. heap_pages' = <<g>> \o heap_pages /\ heap_pages \in Seq(Nat)
    BY <1>1, <1>7, <2>1 DEF HeapIInv
  <2>4. heap_pages' \in Seq(Nat) /\ PageFrames' = PageFrames \cup {g}
    <3>1. <<g>> \in Seq(Nat) /\ Len(<<g>>) = 1 /\ <<g>>[1] = g
      OBVIOUS
    <3>2. /\ heap_pages' \in Seq(Nat) /\ Len(heap_pages') = 1 + Len(heap_pages)
          /\ \A k \in 1 .. 1 + Len(heap_pages) :
               heap_pages'[k] = IF k <= 1 THEN <<g>>[k] ELSE heap_pages[k - 1]
      BY <2>3, <3>1, ConcatElements
    <3>3. \A f \in PageFrames' : f = g \/ f \in PageFrames
      BY <2>3, <3>1, <3>2 DEF PageFrames, ToSet
    <3>4. g \in PageFrames'
      BY <2>3, <3>1, <3>2 DEF PageFrames, ToSet
    <3>5. ASSUME NEW f \in PageFrames PROVE f \in PageFrames'
      <4>1. PICK k \in 1 .. Len(heap_pages) : heap_pages[k] = f
        <5>1. PICK k \in DOMAIN heap_pages : heap_pages[k] = f
          BY DEF PageFrames, ToSet
        <5>2. DOMAIN heap_pages = 1 .. Len(heap_pages)
          BY <2>3
        <5> QED BY <5>1, <5>2
      <4>2. k + 1 \in 1 .. 1 + Len(heap_pages) /\ ~(k + 1 <= 1) /\ (k + 1) - 1 = k
        BY <2>3
      <4>3. heap_pages'[k + 1] = f /\ k + 1 \in DOMAIN heap_pages'
        BY <2>3, <3>2, <4>1, <4>2
      <4> QED BY <4>3 DEF PageFrames, ToSet
    <3> QED BY <3>2, <3>3, <3>4, <3>5
  <2>5. g \notin PageFrames
    BY <2>2, PageFrameTypes
  <2>6. \A c \in blocks : c.frame # g
    BY <2>1, <2>2, BlockFrames
  <2>7. PICK pg \in HeapPage : /\ pg = FreshPage /\ Spaced(pg.freelist)
                               /\ pg.largest <= MaxLength(pg.freelist) /\ s + HEADER <= pg.largest
    <3>1. PICK l \in Nat : l = FrameWords - HEAP_PAGE - HEAP_NODE /\ l = FrameWords - 6
      BY Room4
    <3> DEFINE e == [at |-> 4, length |-> l]
               fresh == [freelist |-> <<e>>, largest |-> l]
    <3>2. e \in Node /\ e.at = 4 /\ e.length = l /\ End(e) = 4 + 2 + l
      BY NodeMade
    <3>3. FreshPage = fresh
      BY <3>1, Room4 DEF FreshPage
    <3> HIDE DEF e
    <3>4. <<e>> \in Seq(Node) /\ Len(<<e>>) = 1 /\ <<e>>[1] = e /\ DOMAIN <<e>> = 1 .. 1
      BY <3>2
    <3>5. fresh \in HeapPage /\ fresh.freelist = <<e>> /\ fresh.largest = l
      BY <3>4 DEF HeapPage
    <3> DEFINE one == <<e>>
    <3>6. one \in Seq(Node) /\ DOMAIN one = 1 .. 1 /\ one[1] = e
      BY <3>4
    <3> HIDE DEF one, fresh
    <3>7. Spaced(one)
      <4>1. \A i \in 1 .. 1 : i = 1
        OBVIOUS
      <4>2. HEAP_PAGE <= e.at /\ End(e) <= FrameWords
        BY <3>1, <3>2, Room4
      <4> QED BY <3>6, <4>1, <4>2 DEF Spaced
    <3>8. l <= MaxLength(one)
      <4>1. 1 \in DOMAIN one
        BY <3>6
      <4> QED BY <3>2, <3>6, <4>1, MaxLengthIs
    <3>9. s + HEADER <= l
      BY <1>2, <2>1, <3>1, Room4
    <3> QED BY <3>3, <3>5, <3>7, <3>8, <3>9 DEF one
  <2>8. HeapIInv'
    <3>1. ~wild /\ UNCHANGED wild
      BY <1>1, <1>7 DEF HeapReady
    <3>2. Carve(g, pg, s)
      BY <1>1, <1>7, <2>1, <2>7
    <3>3. live \subseteq live' /\ [base |-> g, length |-> 1] \in live'
      BY <2>2
    <3> QED BY <1>4, <2>4, <2>5, <2>6, <2>7, <3>1, <3>2, <3>3, CarveStep
  <2> QED BY <1>3, <2>8
<1> QED BY <1>6, <1>7

LEMMA HeapStep ==
  ASSUME HeapIInv, [HeapNext]_<<freeListVars, heapVars>>
  PROVE  HeapIInv' /\ [Next]_freeListVars
<1>1. CASE HeapParse
  BY <1>1, ParseKeepsHeap
<1>2. ASSUME HeapReady, NEW size \in Sizes,
             KmallocBig(size) \/ KmallocFromPage(size) \/ KmallocFromNewPage(size)
      PROVE  HeapIInv' /\ [Next]_freeListVars
  BY <1>2, KmallocBigKeeps, KmallocFromPageKeeps, KmallocFromNewPageKeeps
<1>3. ASSUME HeapReady, NEW b \in blocks, KfreeBig(b) \/ KfreeSmall(b)
      PROVE  HeapIInv' /\ [Next]_freeListVars
  BY <1>3, KfreeBigKeeps, KfreeSmallKeeps
<1>4. CASE UNCHANGED <<freeListVars, heapVars>>
  <2>1. IInv' /\ UNCHANGED live /\ UNCHANGED heapVars
    BY <1>4, IInvUnchanged DEF HeapIInv, freeListVars
  <2> QED BY <1>4, <2>1, HeapUnchanged
<1> QED BY <1>1, <1>2, <1>3, <1>4 DEF HeapNext

\* The inductive invariant of the heap: through any order of kmalloc and kfree the free
\* nodes of each page, the blocks in it and the runs of the frame allocator stay as
\* module Heap says under "inductive invariant".
THEOREM HeapInductive == HeapSpec => []HeapIInv
<1>1. HeapInit => HeapIInv
  BY HeapIInvInit
<1>2. HeapIInv /\ [HeapNext]_<<freeListVars, heapVars>> => HeapIInv'
  BY HeapStep
<1> QED BY <1>1, <1>2, PTL DEF HeapSpec

\* The heap is a legal client of the frame allocator: it gives back the runs it was given,
\* each once and with the length it asked for, though kfree only has an address and a
\* header to go by. So all that is proved of FreeList holds below the heap.
THEOREM HeapUsesFreeList == HeapSpec => FreeListSpec
<1>1. HeapInit => Init
  BY DEF HeapInit
<1>2. HeapIInv /\ [HeapNext]_<<freeListVars, heapVars>> => [Next]_freeListVars
  BY HeapStep
<1> QED BY <1>1, <1>2, HeapInductive, PTL DEF HeapSpec, FreeListSpec

\* Type correctness; in it, that every page on the list has its HeapPage and no other has.
THEOREM HeapTypes == HeapSpec => []HeapTypeOK
<1>1. HeapIInv => HeapTypeOK
  <2> SUFFICES ASSUME HeapIInv PROVE HeapTypeOK
    OBVIOUS
  <2>1. TypeOK
    BY DEF HeapIInv, IInv
  <2>2. DOMAIN page = PageFrames
    BY DEF HeapIInv, PagesSound
  <2> QED BY <2>1, <2>2, PageFrameTypes DEF HeapIInv, HeapTypeOK
<1> QED BY <1>1, HeapInductive, PTL

\* Each page's free nodes are sorted, disjoint and inside the frame, which kfree's walk
\* and merge rely on.
THEOREM HeapNodes == HeapSpec => []NodesOrdered
<1>1. HeapIInv => NodesOrdered
  <2> SUFFICES ASSUME HeapIInv, NEW f \in PageFrames
               PROVE  LET list == page[f].freelist IN
                      /\ \A i \in DOMAIN list :
                           HEAP_PAGE <= list[i].at /\ list[i].at + HEAP_NODE + list[i].length <= FrameWords
                      /\ \A i, j \in DOMAIN list :
                           i < j => list[i].at + HEAP_NODE + list[i].length <= list[j].at
    BY DEF NodesOrdered
  <2> DEFINE list == page[f].freelist
  <2>1. list \in Seq(Node) /\ Spaced(list)
    BY PageFrameTypes
  <2> HIDE DEF list
  <2>2. \A i \in DOMAIN list :
          HEAP_PAGE <= list[i].at /\ list[i].at + HEAP_NODE + list[i].length <= FrameWords
    BY <2>1 DEF Spaced, End
  <2>3. ASSUME NEW i \in DOMAIN list, NEW j \in DOMAIN list, i < j
        PROVE  list[i].at + HEAP_NODE + list[i].length <= list[j].at
    <3>1. PICK x, y \in Nat : End(list[i]) = x /\ list[j].at = y
      <4>1. PICK d, e \in Node : d = list[i] /\ e = list[j]
        BY <2>1
      <4> QED BY <4>1, NodeTypes
    <3>2. x + 1 <= y
      BY <2>1, <2>3, <3>1, Room4 DEF Spaced
    <3>3. x <= y
      BY <3>2
    <3> QED BY <3>1, <3>3 DEF End
  <2> QED BY <2>2, <2>3 DEF list
<1> QED BY <1>1, HeapInductive, PTL

\* A page's largest never promises more than the page has, so the walk of the free nodes
\* of the page kmalloc picks does not fail.
THEOREM HeapLargest == HeapSpec => []LargestNotOverstated
<1>1. HeapIInv => LargestNotOverstated
  BY DEF HeapIInv
<1> QED BY <1>1, HeapInductive, PTL

\* kfree tells big from small by the header, and computes from a big block's header the
\* run it was given.
THEOREM HeapHeaders == HeapSpec => []HeadersDecide
<1>1. HeapIInv => HeadersDecide
  <2> SUFFICES ASSUME HeapIInv, NEW b \in Owned
               PROVE  /\ b.size <= b.header
                      /\ b.header <= SMALL_PAGE_MAXIMUM_SIZE <=> b.frame \in PageFrames
                      /\ b.header > SMALL_PAGE_MAXIMUM_SIZE =>
                           [base |-> FrameOf(b), length |-> FramesFor(b.header)] \in live
    BY DEF HeadersDecide
  <2>1. b \in blocks /\ b.frame # 0 /\ b \in Block
    BY BlockFrames DEF Owned
  <2>2. b.header > SMALL_PAGE_MAXIMUM_SIZE <=> ~Small(b)
    <3>1. b.header \in Nat
      BY <2>1, BlockTypes
    <3> QED BY <3>1, Room4 DEF Small
  <2>3. Small(b) <=> b.frame \in PageFrames
    BY <2>1, BlockFrames DEF SmallSound, BigSound
  <2>4. ASSUME ~Small(b)
        PROVE  [base |-> FrameOf(b), length |-> FramesFor(b.header)] \in live
    <3>1. BigSound(b)
      BY <2>1, <2>4, BlockFrames
    <3>2. FrameOf(b) = b.frame
      <4>1. b.base + HEADER < FrameWords
        BY <3>1, Room4 DEF BigSound
      <4> QED BY <2>1, <4>1, FrameOfBlock
    <3>3. FramesFor(b.header) = FramesFor(b.size)
      <4>1. PICK k \in Nat : k = FramesFor(b.size)
        BY <2>1, BlockTypes, FramesForBounds
      <4> QED BY <3>1, <4>1, FramesForHeader DEF BigSound
    <3> QED BY <2>1, <3>1, <3>2, <3>3 DEF BigSound
  <2>5. b.size <= b.header
    BY <2>1, BlockFrames
  <2>6. b.header <= SMALL_PAGE_MAXIMUM_SIZE <=> Small(b)
    BY DEF Small
  <2> QED BY <2>2, <2>3, <2>4, <2>5, <2>6
<1> QED BY <1>1, HeapInductive, PTL

-----------------------------------------------------------------------------
(* The words of memory.                                                      *)

\* A block begins where its carved node or its HeapPage does, and ends before the word
\* its header says.
LEMMA BlockWords ==
  ASSUME HeapIInv, NEW b \in Owned
  PROVE  \E o, x, y \in Nat :
           /\ o = b.frame * FrameWords
           /\ \A w : w \in Words(b) <=> w \in Int /\ o + x <= w /\ w <= o + y
           /\ Small(b) => x = Start(b) /\ y < Stop(b) /\ HEAP_PAGE <= x /\ y < FrameWords
           /\ ~Small(b) => x = 0 /\ y < FrameWords * FramesFor(b.size)
<1>1. b \in blocks /\ b.frame # 0 /\ b \in Block
  BY BlockFrames DEF Owned
<1>2. PICK f, p, s, h \in Nat : /\ b.frame = f /\ b.base = p /\ b.size = s /\ b.header = h
                                /\ Start(b) = p - 2 /\ Stop(b) = p + 1 + h
  BY <1>1, BlockTypes
<1>3. s <= h
  BY <1>1, <1>2, BlockFrames
<1>4. PICK o \in Nat : o = b.frame * FrameWords
  BY <1>2, Room4
<1>5. CASE Small(b)
  <2>1. 4 <= p - 2 /\ p + 1 + h <= FrameWords
    BY <1>1, <1>2, <1>5, BlockFrames, Room4 DEF SmallSound
  <2>2. Words(b) = o + (p - 2) .. o + p + s
    BY <1>2, <1>4, <1>5, Room4 DEF Words, Small
  <2>3. PICK x, y \in Nat : x = p - 2 /\ y = p + s
    BY <2>1
  <2>4. \A w : w \in Words(b) <=> w \in Int /\ o + x <= w /\ w <= o + y
    BY <2>2, <2>3
  <2>5. y < Stop(b) /\ HEAP_PAGE <= x /\ y < FrameWords
    BY <1>2, <1>3, <2>1, <2>3, Room4
  <2> QED BY <1>2, <1>4, <1>5, <2>3, <2>4, <2>5
<1>6. CASE ~Small(b)
  <2>1. p = 4
    BY <1>1, <1>2, <1>6, BlockFrames, Room4 DEF BigSound
  <2>2. b.header > SMALL_PAGE_MAXIMUM_SIZE
    BY <1>2, <1>6, Room4 DEF Small
  <2>3. Words(b) = o .. o + 4 + s
    BY <1>2, <1>4, <2>1, <2>2, Room4 DEF Words
  <2>4. PICK v \in Nat : v = FrameWords * FramesFor(b.size) /\ s + 5 <= v
    <3>1. FramesFor(s) \in Nat /\ s + 5 <= FrameWords * FramesFor(s)
      BY FramesForBounds
    <3> QED BY <1>2, <3>1, Room4
  <2>5. PICK x, y \in Nat : x = 0 /\ y = 4 + s
    OBVIOUS
  <2>6. \A w : w \in Words(b) <=> w \in Int /\ o + x <= w /\ w <= o + y
    BY <2>3, <2>5
  <2>7. y < v
    BY <2>4, <2>5
  <2> QED BY <1>4, <1>6, <2>4, <2>5, <2>6, <2>7
<1> QED BY <1>5, <1>6

\* Two runs that are out have no word in common.
LEMMA RunsApart ==
  ASSUME IInv, NEW run \in live, NEW other \in live, run # other
  PROVE  FrameSpan(run) \cap FrameSpan(other) = {}
<1>1. PICK a, m, b, n \in Nat : /\ run.base = a /\ run.length = m /\ other.base = b /\ other.length = n
                                /\ m > 0 /\ n > 0
  BY DEF IInv, TypeOK, NonNull
<1>2. run \in Segment /\ other \in Segment
  BY DEF IInv, TypeOK, Segment
<1>3. a + m <= b \/ b + n <= a
  <2>1. Span(run) \cap Span(other) = {}
    BY DEF IInv, FramesDisjoint
  <2>2. CASE a <= b
    <3>1. b \in Span(other)
      BY <1>1, <1>2, SpanMembers
    <3>2. b \notin Span(run)
      BY <2>1, <3>1
    <3> QED BY <1>1, <1>2, <2>2, <3>2, SpanMembers
  <2>3. CASE b <= a
    <3>1. a \in Span(run)
      BY <1>1, <1>2, SpanMembers
    <3>2. a \notin Span(other)
      BY <2>1, <3>1
    <3> QED BY <1>1, <1>2, <2>3, <3>2, SpanMembers
  <2> QED BY <1>1, <2>2, <2>3
<1>4. PICK p, q, r, t \in Int : /\ p = a * FrameWords /\ q = (a + m) * FrameWords
                                /\ r = b * FrameWords /\ t = (b + n) * FrameWords
  BY <1>1, Room4
<1>5. FrameSpan(run) = p .. q - 1 /\ FrameSpan(other) = r .. t - 1
  BY <1>1, <1>4 DEF FrameSpan
<1>6. q <= r \/ t <= p
  <2>1. CASE a + m <= b
    BY <1>4, <2>1, MulMonotone, Room4
  <2>2. CASE b + n <= a
    BY <1>4, <2>2, MulMonotone, Room4
  <2> QED BY <1>3, <2>1, <2>2
<1> QED BY <1>5, <1>6

\* A block lies in the run that begins where it does.
LEMMA BlockRun ==
  ASSUME HeapIInv, NEW b \in Owned
  PROVE  \E run \in live : run.base = b.frame /\ Words(b) \subseteq FrameSpan(run)
<1>1. b \in blocks /\ b.frame # 0 /\ b \in Block
  BY BlockFrames DEF Owned
<1>2. PICK o, x, y \in Nat :
           /\ o = b.frame * FrameWords
           /\ \A w : w \in Words(b) <=> w \in Int /\ o + x <= w /\ w <= o + y
           /\ Small(b) => x = Start(b) /\ y < Stop(b) /\ HEAP_PAGE <= x /\ y < FrameWords
           /\ ~Small(b) => x = 0 /\ y < FrameWords * FramesFor(b.size)
  BY BlockWords
<1>3. PICK run \in live, k \in Nat : run = [base |-> b.frame, length |-> k] /\ y < FrameWords * k
  <2>1. CASE Small(b)
    <3>1. [base |-> b.frame, length |-> 1] \in live
      BY <1>1, <2>1, BlockFrames, PageFrameTypes DEF SmallSound
    <3>2. y < FrameWords * 1
      BY <1>2, <2>1, Room4
    <3> QED BY <3>1, <3>2
  <2>2. CASE ~Small(b)
    <3>1. [base |-> b.frame, length |-> FramesFor(b.size)] \in live
      BY <1>1, <2>2, BlockFrames DEF BigSound
    <3>2. FramesFor(b.size) \in Nat
      BY <1>1, BlockTypes, FramesForBounds
    <3> QED BY <1>2, <2>2, <3>1, <3>2
  <2> QED BY <2>1, <2>2
<1>4. PICK f \in Nat : f = b.frame
  BY <1>1, BlockTypes
<1>5. (f + k) * FrameWords = f * FrameWords + FrameWords * k
  BY Room4
<1>6. PICK v \in Int : v = FrameWords * k
  BY Room4
<1>7. FrameSpan(run) = o .. (o + v) - 1
  BY <1>2, <1>3, <1>4, <1>5, <1>6 DEF FrameSpan
<1>8. y < v
  BY <1>3, <1>6
<1>9. \A w \in Int : o + x <= w /\ w <= o + y => o <= w /\ w <= (o + v) - 1
  BY <1>6, <1>8
<1> QED BY <1>2, <1>3, <1>7, <1>9

\* No word is in two blocks, in a block and a free node, or in a block and a HeapPage,
\* and each block is in frames the allocator handed out: for any memory map, frame size
\* and order of requests.
THEOREM HeapBlocksDisjoint == HeapSpec => []BlocksDisjoint
<1>1. HeapIInv => BlocksDisjoint
  <2> SUFFICES ASSUME HeapIInv PROVE BlocksDisjoint
    OBVIOUS
  <2>0. IInv
    BY DEF HeapIInv
  <2>1. ASSUME NEW b \in Owned, NEW c \in Owned, b # c PROVE Words(b) \cap Words(c) = {}
    <3>1. CASE b.frame = c.frame
      <4>1. Apart(b, c)
        BY <2>1, <3>1 DEF HeapIInv, Owned
      <4>2. PICK o, x, y \in Nat :
              /\ o = b.frame * FrameWords
              /\ \A w : w \in Words(b) <=> w \in Int /\ o + x <= w /\ w <= o + y
              /\ x = Start(b) /\ y < Stop(b)
        BY <4>1, BlockWords DEF Apart
      <4>3. PICK p, u, v \in Nat :
              /\ p = c.frame * FrameWords
              /\ \A w : w \in Words(c) <=> w \in Int /\ p + u <= w /\ w <= p + v
              /\ u = Start(c) /\ v < Stop(c)
        BY <4>1, BlockWords DEF Apart
      <4>4. Stop(b) \in Int /\ Stop(c) \in Int
        BY BlockFrames, BlockTypes DEF Owned
      <4>5. o = p /\ (y < u \/ v < x)
        BY <3>1, <4>1, <4>2, <4>3, <4>4 DEF Apart
      <4> QED BY <4>2, <4>3, <4>5
    <3>2. CASE b.frame # c.frame
      <4>1. PICK run \in live : run.base = b.frame /\ Words(b) \subseteq FrameSpan(run)
        BY BlockRun
      <4>2. PICK other \in live : other.base = c.frame /\ Words(c) \subseteq FrameSpan(other)
        BY BlockRun
      <4>3. FrameSpan(run) \cap FrameSpan(other) = {}
        BY <2>0, <3>2, <4>1, <4>2, RunsApart
      <4> QED BY <4>1, <4>2, <4>3
    <3> QED BY <3>1, <3>2
  <2>2. ASSUME NEW b \in Owned, NEW f \in PageFrames, NEW u \in Int, NEW v \in Int,
               0 <= u, v < FrameWords,
               b.frame = f /\ Small(b) => v < Start(b) \/ Stop(b) <= u
        PROVE  Words(b) \cap (f * FrameWords + u .. f * FrameWords + v) = {}
    <3>1. f \in Nat /\ [base |-> f, length |-> 1] \in live
      BY PageFrameTypes
    <3>2. CASE b.frame = f
      <4>1. Small(b)
        BY <3>2, BlockFrames DEF Owned, BigSound
      <4>2. PICK o, x, y \in Nat :
              /\ o = f * FrameWords
              /\ \A w : w \in Words(b) <=> w \in Int /\ o + x <= w /\ w <= o + y
              /\ x = Start(b) /\ y < Stop(b)
        BY <3>2, <4>1, BlockWords
      <4>3. Stop(b) \in Int
        BY BlockFrames, BlockTypes DEF Owned
      <4>4. v < x \/ y < u
        BY <2>2, <3>2, <4>1, <4>2, <4>3
      <4> QED BY <4>2, <4>4
    <3>3. CASE b.frame # f
      <4>1. PICK run \in live : run.base = b.frame /\ Words(b) \subseteq FrameSpan(run)
        BY BlockRun
      <4>2. PICK other \in live : other = [base |-> f, length |-> 1]
        BY <3>1
      <4>3. FrameSpan(run) \cap FrameSpan(other) = {}
        BY <2>0, <3>3, <4>1, <4>2, RunsApart
      <4>4. PICK o \in Int : o = f * FrameWords /\ (f + 1) * FrameWords = o + FrameWords
        BY <3>1, Room4
      <4>5. FrameSpan(other) = o .. (o + FrameWords) - 1
        BY <4>2, <4>4 DEF FrameSpan
      <4>6. o + u .. o + v \subseteq FrameSpan(other)
        BY <2>2, <4>5, Room4
      <4> QED BY <4>1, <4>3, <4>4, <4>6
    <3> QED BY <3>2, <3>3
  <2>3. ASSUME NEW b \in Owned, NEW f \in PageFrames PROVE Words(b) \cap PageWords(f) = {}
    <3>1. PageWords(f) = f * FrameWords + 0 .. f * FrameWords + 3
      <4>1. PICK o \in Int : o = f * FrameWords
        <5>1. f \in Nat
          BY PageFrameTypes
        <5> QED BY <5>1, Room4
      <4>2. PageWords(f) = o .. (o + 4) - 1
        BY <4>1, Room4 DEF PageWords
      <4> QED BY <4>1, <4>2
    <3>2. Small(b) => 3 < Start(b)
      <4>1. b \in blocks /\ Start(b) \in Int
        BY BlockFrames, BlockTypes DEF Owned
      <4> QED BY <4>1, BlockFrames, Room4 DEF SmallSound
    <3>3. 0 \in Int /\ 3 \in Int /\ 0 <= 0 /\ 3 < FrameWords
      BY Room4
    <3> QED BY <2>2, <3>1, <3>2, <3>3
  <2>4. ASSUME NEW b \in Owned, NEW f \in PageFrames, NEW i \in DOMAIN page[f].freelist
        PROVE  Words(b) \cap NodeWords(f, i) = {}
    <3>0. f \in Nat /\ page[f].freelist \in Seq(Node)
      BY PageFrameTypes
    <3>1. PICK node \in Node : node = page[f].freelist[i]
      BY <3>0
    <3>2. PICK a, l \in Nat : node.at = a /\ node.length = l /\ End(node) = a + 2 + l
      BY NodeTypes
    <3>3. 4 <= a /\ a + 2 + l <= FrameWords
      BY <3>1, <3>2, PageFrameTypes, Room4 DEF Spaced
    <3>4. PICK o \in Int : o = f * FrameWords
      BY <3>0, Room4
    <3>5. PICK u, v \in Int : u = a /\ v = a + 1 + l
      OBVIOUS
    <3>6. NodeWords(f, i) = o + u .. o + v
      <4>1. NodeWords(f, i) = o + a .. o + a + 2 + l - 1
        BY <3>1, <3>2, <3>4, Room4 DEF NodeWords
      <4>2. o + a + 2 + l - 1 = o + v
        BY <3>5
      <4> QED BY <3>5, <4>1, <4>2
    <3>7. b.frame = f /\ Small(b) => v < Start(b) \/ Stop(b) <= u
      <4> SUFFICES ASSUME b.frame = f, Small(b) PROVE v < Start(b) \/ Stop(b) <= u
        OBVIOUS
      <4>1. Start(b) \in Int
        BY BlockFrames, BlockTypes DEF Owned
      <4>2. End(node) + HEADER <= Start(b) \/ Stop(b) <= node.at
        BY <3>1, BlockFrames DEF Owned, SmallSound, Clear
      <4> QED BY <3>2, <3>5, <4>1, <4>2, Room4
    <3>8. 0 <= u /\ v < FrameWords
      BY <3>3, <3>5, Room4
    <3> QED BY <2>2, <3>4, <3>6, <3>7, <3>8
  <2> QED BY <2>1, <2>3, <2>4, BlockRun DEF BlocksDisjoint
<1> QED BY <1>1, HeapInductive, PTL
-----------------------------------------------------------------------------
(* What a page has room for. A list's nodes and their HeapNodes are summed   *)
(* from place to place.                                                      *)

Weights(list) == [i \in DOMAIN list |-> HEAP_NODE + list[i].length]
NodesRoom(list) == SumFunction(Weights(list))

LEMMA NodesRoomIs ==
  ASSUME NEW list \in Seq(Node)
  PROVE  /\ NodesRoom(list) = SumTo(Weights(list), Len(list)) /\ NodesRoom(list) \in Nat
         /\ \A i \in 1 .. Len(list) : Weights(list)[i] \in Nat /\ Weights(list)[i] = 2 + list[i].length
<1>1. PICK n \in Nat : n = Len(list) /\ DOMAIN list = 1 .. n
  OBVIOUS
<1>2. DOMAIN Weights(list) = 1 .. n
  BY <1>1 DEF Weights
<1>3. ASSUME NEW i \in 1 .. n PROVE Weights(list)[i] \in Nat /\ Weights(list)[i] = 2 + list[i].length
  <2>1. PICK e \in Node : e = list[i]
    BY <1>1
  <2>2. Weights(list)[i] = 2 + e.length
    BY <1>1, <2>1, Room4 DEF Weights
  <2> QED BY <2>1, <2>2, NodeTypes
<1>4. NodesRoom(list) = SumTo(Weights(list), n)
  BY <1>2 DEF NodesRoom, SumFunction, SumFunctionOnSet, SumTo
<1>5. SumTo(Weights(list), n) \in Nat
  BY <1>3, SumToNat
<1> QED BY <1>1, <1>3, <1>4, <1>5

LEMMA RoomDropped ==
  ASSUME NEW list \in Seq(Node), NEW other \in Seq(Node), NEW i \in 1 .. Len(list),
         Len(other) = Len(list) - 1,
         \A k \in 1 .. Len(list) - 1 : other[k] = IF k < i THEN list[k] ELSE list[k + 1]
  PROVE  NodesRoom(list) = NodesRoom(other) + 2 + list[i].length
<1>0. PICK n \in Nat : n = Len(list)
  OBVIOUS
<1>1. PICK q \in 1 .. n : q = i /\ n = Len(list) /\ DOMAIN list = 1 .. n
  BY <1>0
<1>2. PICK v, w : v = Weights(other) /\ w = Weights(list)
  OBVIOUS
<1>3. /\ NodesRoom(list) = SumTo(w, n)
      /\ \A k \in 1 .. n : w[k] \in Nat /\ w[k] = 2 + list[k].length
  BY <1>1, <1>2, NodesRoomIs
<1>4. /\ NodesRoom(other) = SumTo(v, n - 1)
      /\ \A k \in 1 .. n - 1 : v[k] = 2 + other[k].length
  BY <1>1, <1>2, NodesRoomIs
<1>5. \A k \in 1 .. n - 1 : v[k] = IF k < q THEN w[k] ELSE w[k + 1]
  <2> SUFFICES ASSUME NEW k \in 1 .. n - 1 PROVE v[k] = IF k < q THEN w[k] ELSE w[k + 1]
    OBVIOUS
  <2>1. k \in 1 .. n /\ k + 1 \in 1 .. n
    BY <1>1
  <2>2. other[k] = IF k < q THEN list[k] ELSE list[k + 1]
    BY <1>1
  <2> QED BY <1>3, <1>4, <2>1, <2>2
<1>6. SumTo(v, n - 1) \in Nat /\ SumTo(w, n) = SumTo(v, n - 1) + w[q]
  <2>1. \A k \in 1 .. n : w[k] \in Nat
    BY <1>3
  <2>2. LeftOut(v, w, n, q)
    BY <1>5, <2>1 DEF LeftOut
  <2> QED BY <2>2, SumDropped
<1>7. PICK e \in Node : e = list[q]
  BY <1>1
<1>8. PICK l \in Nat : l = list[i].length /\ w[q] = 2 + l
  BY <1>1, <1>3, <1>7, NodeTypes
<1>9. PICK x, y \in Nat : x = NodesRoom(list) /\ y = NodesRoom(other) /\ x = y + (2 + l)
  BY <1>3, <1>4, <1>6, <1>8, NodesRoomIs
<1>10. NodesRoom(list) = NodesRoom(other) + 2 + l
  BY <1>9
<1> QED BY <1>8, <1>10

LEMMA RoomReplaced ==
  ASSUME NEW list \in Seq(Node), NEW i \in 1 .. Len(list), NEW e \in Node
  PROVE  /\ ReplaceAt(list, i, e) \in Seq(Node)
         /\ NodesRoom(ReplaceAt(list, i, e)) + list[i].length = NodesRoom(list) + e.length
<1>0. PICK n \in Nat : n = Len(list)
  OBVIOUS
<1>1. PICK q \in 1 .. n : q = i /\ n = Len(list) /\ DOMAIN list = 1 .. n
  BY <1>0
<1>2. PICK other \in Seq(Node) : /\ other = ReplaceAt(list, i, e) /\ Len(other) = n
                                 /\ \A k \in 1 .. n : other[k] = IF k = q THEN e ELSE list[k]
  <2>1. /\ ReplaceAt(list, i, e) \in Seq(Node) /\ Len(ReplaceAt(list, i, e)) = Len(list)
        /\ \A k \in 1 .. Len(list) : ReplaceAt(list, i, e)[k] = IF k = i THEN e ELSE list[k]
    BY DEF ReplaceAt
  <2> QED BY <1>1, <2>1
<1>3. PICK v, w : v = Weights(other) /\ w = Weights(list)
  OBVIOUS
<1>4. /\ NodesRoom(list) = SumTo(w, n) /\ NodesRoom(list) \in Nat
      /\ \A k \in 1 .. n : w[k] \in Nat /\ w[k] = 2 + list[k].length
  BY <1>1, <1>3, NodesRoomIs
<1>5. /\ NodesRoom(other) = SumTo(v, n) /\ NodesRoom(other) \in Nat
      /\ \A k \in 1 .. n : v[k] \in Nat /\ v[k] = 2 + other[k].length
  BY <1>2, <1>3, NodesRoomIs
<1>6. SumTo(v, n) + w[q] = SumTo(w, n) + v[q]
  <2>1. (\A k \in 1 .. n : w[k] \in Nat) /\ (\A k \in 1 .. n : v[k] \in Nat)
    BY <1>4, <1>5
  <2>2. ASSUME NEW k \in 1 .. n, k # q PROVE v[k] = w[k]
    <3>1. other[k] = list[k]
      BY <1>2, <2>2
    <3> QED BY <1>4, <1>5, <3>1
  <2>3. Changed(v, w, n, q)
    BY <2>1, <2>2 DEF Changed
  <2> QED BY <2>3, SumChanged
<1>7. PICK d \in Node : d = list[q]
  BY <1>1
<1>8. PICK l, m \in Nat : l = list[i].length /\ m = e.length /\ w[q] = 2 + l /\ v[q] = 2 + m
  <2>1. d.length \in Nat /\ e.length \in Nat
    BY NodeTypes
  <2>2. w[q] = 2 + list[q].length /\ v[q] = 2 + other[q].length /\ other[q] = e
    BY <1>2, <1>4, <1>5
  <2> QED BY <1>1, <1>7, <2>1, <2>2
<1>9. PICK x, y \in Nat : x = NodesRoom(list) /\ y = NodesRoom(other) /\ y + (2 + l) = x + (2 + m)
  BY <1>4, <1>5, <1>6, <1>8
<1>10. y + l = x + m
  <2>1. \A a, b \in Nat : b + (2 + l) = a + (2 + m) => b + l = a + m
    OBVIOUS
  <2> QED BY <1>9, <2>1
<1> QED BY <1>2, <1>8, <1>9, <1>10

LEMMA RoomRemoved ==
  ASSUME NEW list \in Seq(Node), NEW i \in 1 .. Len(list)
  PROVE  /\ RemoveAt(list, i) \in Seq(Node)
         /\ NodesRoom(list) = NodesRoom(RemoveAt(list, i)) + 2 + list[i].length
BY RemoveAtElements, RoomDropped

LEMMA RoomInserted ==
  ASSUME NEW list \in Seq(Node), NEW p \in 1 .. Len(list) + 1, NEW e \in Node
  PROVE  NodesRoom(InsertAt(list, p, e)) = NodesRoom(list) + 2 + e.length
<1>1. PICK placed \in Seq(Node) :
        /\ placed = InsertAt(list, p, e) /\ Len(placed) = Len(list) + 1
        /\ \A k \in 1 .. Len(list) + 1 : placed[k] = IF k < p THEN list[k] ELSE IF k = p THEN e ELSE list[k - 1]
  BY InsertAtElements
<1>2. PICK i \in 1 .. Len(placed) : i = p
  BY <1>1
<1>3. Len(list) = Len(placed) - 1 /\ placed[i] = e
  BY <1>1, <1>2
<1>4. ASSUME NEW k \in 1 .. Len(placed) - 1 PROVE list[k] = IF k < i THEN placed[k] ELSE placed[k + 1]
  <2>1. k \in 1 .. Len(list) + 1 /\ k + 1 \in 1 .. Len(list) + 1 /\ (k + 1) - 1 = k
    BY <1>1, <1>4
  <2> QED BY <1>1, <1>2, <2>1
<1>5. NodesRoom(placed) = NodesRoom(list) + 2 + placed[i].length
  BY <1>3, <1>4, RoomDropped
<1> QED BY <1>1, <1>3, <1>5

LEMMA RoomSplit ==
  ASSUME NEW list \in Seq(Node), NEW start \in 1 .. Len(list)
  PROVE  LET base == SubSeq(list, 1, start)
             rest == SubSeq(list, start + 1, Len(list))
         IN /\ base \in NonEmpty /\ rest \in Seq(Node)
            /\ NodesRoom(list) = NodesRoom(base) + NodesRoom(rest)
<1>1. PICK n, m, s \in Nat : n = Len(list) /\ s = start /\ n = s + m /\ m = n - s
  <2>1. Len(list) \in Nat /\ start \in Nat /\ Len(list) - start \in Nat /\ Len(list) = start + (Len(list) - start)
    OBVIOUS
  <2> QED BY <2>1
<1> DEFINE base == SubSeq(list, 1, start)
           rest == SubSeq(list, start + 1, Len(list))
<1>2. /\ base \in Seq(Node) /\ Len(base) = s /\ \A k \in 1 .. s : base[k] = list[k]
      /\ rest \in Seq(Node) /\ Len(rest) = m /\ \A k \in 1 .. m : rest[k] = list[s + k]
  <2>1. /\ base \in Seq(Node) /\ Len(base) = start /\ \A k \in 1 .. start : base[k] = list[k]
        /\ rest \in Seq(Node) /\ Len(rest) = Len(list) - start
        /\ \A k \in 1 .. Len(list) - start : rest[k] = list[start + k]
    BY SplitElements
  <2> HIDE DEF base, rest
  <2> QED BY <1>1, <2>1
<1> HIDE DEF base, rest
<1>3. base \in NonEmpty
  <2>1. s # 0
    BY <1>1
  <2>2. base # <<>>
    BY <1>2, <2>1
  <2> QED BY <1>2, <2>2 DEF NonEmpty
<1>4. PICK u, v, w : u = Weights(base) /\ v = Weights(rest) /\ w = Weights(list)
  OBVIOUS
<1>5. NodesRoom(base) = SumTo(u, s) /\ NodesRoom(base) \in Nat /\ \A k \in 1 .. s : u[k] = 2 + base[k].length
  BY <1>2, <1>4, NodesRoomIs
<1>6. /\ NodesRoom(rest) = SumTo(v, m) /\ NodesRoom(rest) \in Nat
      /\ \A k \in 1 .. m : v[k] \in Nat /\ v[k] = 2 + rest[k].length
  BY <1>2, <1>4, NodesRoomIs
<1>7. /\ NodesRoom(list) = SumTo(w, s + m) /\ NodesRoom(list) \in Nat
      /\ \A k \in 1 .. s + m : w[k] \in Nat /\ w[k] = 2 + list[k].length
  BY <1>1, <1>4, NodesRoomIs
<1>8. SumTo(w, s) = SumTo(u, s)
  <2>1. ASSUME NEW k \in 1 .. s PROVE w[k] \in Nat /\ w[k] = u[k]
    <3>1. k \in 1 .. s + m
      OBVIOUS
    <3>2. w[k] \in Nat /\ w[k] = 2 + list[k].length
      BY <1>7, <3>1
    <3>3. u[k] = 2 + base[k].length
      BY <1>5
    <3>4. base[k] = list[k]
      BY <1>2
    <3> QED BY <3>2, <3>3, <3>4
  <2>2. IsFiniteSet(1 .. s)
    BY FS_Interval
  <2> QED BY <2>1, <2>2, SumSame DEF SumTo
<1>9. PICK z \in Nat : z = 0
  OBVIOUS
<1>10. Stretch(w, s, v, z, m)
  <2>1. \A k \in 1 .. z + m : v[k] \in Nat
    BY <1>6, <1>9
  <2>2. ASSUME NEW k \in 1 .. m PROVE w[s + k] = v[z + k]
    <3>1. PICK q \in 1 .. s + m : q = s + k /\ z + k = k
      BY <1>9
    <3>2. rest[k] = list[q]
      BY <1>2, <3>1
    <3>3. w[q] = 2 + list[q].length /\ v[k] = 2 + rest[k].length
      BY <1>6, <1>7
    <3> QED BY <3>1, <3>2, <3>3
  <2> QED BY <1>7, <2>1, <2>2 DEF Stretch
<1>11. SumTo(w, s + m) + SumTo(v, z) = SumTo(v, z + m) + SumTo(w, s)
  BY <1>10, SumStretch
<1>12. SumTo(v, z) = 0 /\ z + m = m
  BY <1>9, SumToNone
<1>13. NodesRoom(list) = NodesRoom(base) + NodesRoom(rest)
  BY <1>5, <1>6, <1>7, <1>8, <1>11, <1>12
<1> QED BY <1>2, <1>3, <1>13 DEF base, rest

\* Merging neither loses nor makes room: the HeapNode of the node that disappears becomes
\* part of the length of the other.
LEMMA RoomMerged ==
  ASSUME NEW list \in NonEmpty, NEW next \in Node
  PROVE  NodesRoom(Merge(list, next)) = NodesRoom(list) + (2 + next.length)
<1>1. PICK n \in Nat \ {0} : n = Len(list) /\ list \in Seq(Node) /\ Last(list) = list[n] /\ DOMAIN list = 1 .. n
  BY DEF NonEmpty, Last
<1>2. PICK last \in Node : last = Last(list)
  BY <1>1
<1>3. PICK x, l, m \in Nat : x = last.at /\ l = last.length /\ m = next.length
  BY NodeTypes
<1>4. CASE Adjacent(Last(list), next)
  <2> DEFINE e == [at |-> x, length |-> l + 2 + m]
  <2>1. [Last(list) EXCEPT !.length = @ + HEAP_NODE + next.length] = e
    BY <1>2, <1>3, NodeGrown
  <2>2. e \in Node /\ e.length = l + 2 + m
    BY NodeMade
  <2> HIDE DEF e
  <2>3. PICK i \in 1 .. Len(list) : i = Len(list)
    BY <1>1
  <2>4. Merge(list, next) = ReplaceAt(list, i, e)
    BY <1>4, <2>1, <2>3 DEF Merge
  <2>5. NodesRoom(ReplaceAt(list, i, e)) + list[i].length = NodesRoom(list) + e.length
        /\ ReplaceAt(list, i, e) \in Seq(Node)
    BY <1>1, <2>2, RoomReplaced
  <2>6. NodesRoom(ReplaceAt(list, i, e)) \in Nat /\ NodesRoom(list) \in Nat
    BY <1>1, <2>5, NodesRoomIs
  <2>7. list[i].length = l
    BY <1>1, <1>2, <1>3, <2>3
  <2>8. PICK r, t \in Nat : r = NodesRoom(ReplaceAt(list, i, e)) /\ t = NodesRoom(list) /\ r + l = t + (l + 2 + m)
    BY <2>2, <2>5, <2>6, <2>7
  <2>9. r = t + (2 + m)
    <3>1. \A a, b \in Nat : a + l = b + (l + 2 + m) => a = b + (2 + m)
      OBVIOUS
    <3> QED BY <2>8, <3>1
  <2> QED BY <1>3, <2>4, <2>8, <2>9
<1>5. CASE ~Adjacent(Last(list), next)
  <2>1. Merge(list, next) = Append(list, next)
    BY <1>5 DEF Merge
  <2>2. PICK other \in Seq(Node) : /\ other = Append(list, next) /\ Len(other) = n + 1 /\ other[n + 1] = next
                                   /\ \A k \in 1 .. n : other[k] = list[k]
    <3>1. list \in Seq(Node) /\ Len(list) = n
      BY <1>1
    <3>2. /\ Append(list, next) \in Seq(Node) /\ Len(Append(list, next)) = Len(list) + 1
          /\ Append(list, next)[Len(list) + 1] = next
          /\ \A k \in 1 .. Len(list) : Append(list, next)[k] = list[k]
      BY <3>1
    <3> QED BY <3>1, <3>2
  <2>3. PICK i \in 1 .. Len(other) : i = n + 1
    BY <2>2
  <2>4. Len(list) = Len(other) - 1
    BY <1>1, <2>2
  <2>5. ASSUME NEW k \in 1 .. Len(other) - 1 PROVE list[k] = IF k < i THEN other[k] ELSE other[k + 1]
    <3>1. k \in 1 .. n /\ k < i
      BY <2>2, <2>3
    <3> QED BY <2>2, <3>1
  <2>6. NodesRoom(other) = NodesRoom(list) + 2 + other[i].length
    BY <1>1, <2>4, <2>5, RoomDropped
  <2>7. other[i].length = m /\ NodesRoom(list) \in Nat
    BY <1>1, <1>3, <2>2, <2>3, NodesRoomIs
  <2>8. NodesRoom(other) = NodesRoom(list) + (2 + m)
    BY <2>6, <2>7
  <2> QED BY <1>3, <2>1, <2>2, <2>8
<1> QED BY <1>4, <1>5

LEMMA RoomFolded ==
  ASSUME NEW base \in NonEmpty, NEW rest \in Seq(Node)
  PROVE  NodesRoom(FoldLeft(Merge, base, rest)) = NodesRoom(base) + NodesRoom(rest)
<1>1. PICK m \in Nat : m = Len(rest) /\ DOMAIN rest = 1 .. m
  OBVIOUS
<1>2. PICK h \in [0 .. m -> NonEmpty] :
        h[0] = base /\ (\A k \in 1 .. m : h[k] = Merge(h[k - 1], rest[k])) /\ FoldLeft(Merge, base, rest) = h[m]
  BY <1>1, MergeFold
<1>3. PICK v : v = Weights(rest)
  OBVIOUS
<1>4. NodesRoom(rest) = SumTo(v, m) /\ \A k \in 1 .. m : v[k] \in Nat /\ v[k] = 2 + rest[k].length
  BY <1>1, <1>3, NodesRoomIs
<1>5. NodesRoom(base) \in Nat
  BY NodesRoomIs DEF NonEmpty
<1> DEFINE P == {k \in Nat : k <= m => NodesRoom(h[k]) = NodesRoom(base) + SumTo(v, k)}
<1>6. 0 \in P
  BY <1>2, <1>5, SumToNone
<1>7. ASSUME NEW k \in Nat, k \in P PROVE k + 1 \in P
  <2> SUFFICES ASSUME k + 1 <= m PROVE NodesRoom(h[k + 1]) = NodesRoom(base) + SumTo(v, k + 1)
    OBVIOUS
  <2>1. k + 1 \in 1 .. m /\ (k + 1) - 1 = k /\ k \in 0 .. m
    OBVIOUS
  <2>2. PICK w \in NonEmpty, next \in Node : w = h[k] /\ next = rest[k + 1] /\ h[k + 1] = Merge(w, next)
    BY <1>1, <1>2, <2>1
  <2>3. NodesRoom(h[k + 1]) = NodesRoom(w) + (2 + next.length)
    BY <2>2, RoomMerged
  <2>4. \A i \in 1 .. k + 1 : v[i] \in Nat
    BY <1>4
  <2>5. SumTo(v, k) \in Nat /\ SumTo(v, k + 1) = SumTo(v, k) + v[k + 1]
    BY <2>4, SumToNext
  <2>6. v[k + 1] = 2 + next.length /\ v[k + 1] \in Nat
    BY <1>4, <2>1, <2>2
  <2>7. NodesRoom(w) = NodesRoom(base) + SumTo(v, k)
    BY <1>7, <2>2
  <2> HIDE DEF P
  <2> QED BY <1>5, <2>3, <2>5, <2>6, <2>7
<1>8. m \in P
  <2> HIDE DEF P
  <2> QED BY <1>6, <1>7, SetInduction
<1> QED BY <1>2, <1>4, <1>8

\* kfree's walk makes room for the node and takes none.
LEMMA InsertRoom ==
  ASSUME NEW list \in Seq(Node), NEW node \in Node
  PROVE  NodesRoom(Insert(list, node)) = NodesRoom(list) + 2 + node.length
<1>1. PICK p \in 1 .. Len(list) + 1, first \in 1 .. Len(list) + 1, placed \in Seq(Node) :
        /\ placed = InsertAt(list, p, node) /\ Len(placed) = Len(list) + 1
        /\ Insert(list, node) = FoldLeft(Merge, SubSeq(placed, 1, first), SubSeq(placed, first + 1, Len(placed)))
  BY InsertPlace
<1>2. PICK start \in 1 .. Len(placed) : start = first
  BY <1>1
<1>3. PICK base \in NonEmpty, rest \in Seq(Node) :
        /\ base = SubSeq(placed, 1, start) /\ rest = SubSeq(placed, start + 1, Len(placed))
        /\ NodesRoom(placed) = NodesRoom(base) + NodesRoom(rest)
  BY RoomSplit
<1>4. NodesRoom(FoldLeft(Merge, base, rest)) = NodesRoom(base) + NodesRoom(rest)
  BY RoomFolded
<1>5. NodesRoom(placed) = NodesRoom(list) + 2 + node.length
  BY <1>1, RoomInserted
<1> QED BY <1>1, <1>2, <1>3, <1>4, <1>5

BlocksRoom(B) == SumFunction([b \in B |-> HEAP_NODE + HEADER + b.header])
BlocksIn(f) == {c \in blocks : c.frame = f}
Freed(f) == {b \in blocks \ blocks' : b.frame = f}

LEMMA BlockTaken ==
  ASSUME NEW B \in SUBSET Block, IsFiniteSet(B), NEW b \in B
  PROVE  /\ BlocksRoom(B \ {b}) \in Nat
         /\ BlocksRoom(B) = BlocksRoom(B \ {b}) + (3 + b.header)
<1> DEFINE w == [c \in B |-> HEAP_NODE + HEADER + c.header]
           v == [c \in B \ {b} |-> HEAP_NODE + HEADER + c.header]
<1>1. \A c \in B : w[c] \in Nat /\ w[c] = 3 + c.header
  <2> SUFFICES ASSUME NEW c \in B PROVE w[c] \in Nat /\ w[c] = 3 + c.header
    OBVIOUS
  <2>1. c.header \in Nat
    BY BlockTypes
  <2> QED BY <2>1, Room4
<1>2. \A c \in B \ {b} : v[c] = w[c]
  OBVIOUS
<1>3. BlocksRoom(B) = SumFunctionOnSet(w, B)
  BY DEF BlocksRoom, SumFunction, SumFunctionOnSet
<1>4. BlocksRoom(B \ {b}) = SumFunctionOnSet(v, B \ {b})
  BY DEF BlocksRoom, SumFunction, SumFunctionOnSet
<1> HIDE DEF w, v
<1>5. /\ SumFunctionOnSet(v, B \ {b}) \in Nat
      /\ SumFunctionOnSet(w, B) = w[b] + SumFunctionOnSet(v, B \ {b})
  BY <1>1, <1>2, SumWithout
<1>6. PICK h \in Nat : h = b.header /\ w[b] = 3 + h
  BY <1>1, BlockTypes
<1> QED BY <1>3, <1>4, <1>5, <1>6

LEMMA BlocksRoomNat ==
  ASSUME NEW B \in SUBSET Block, IsFiniteSet(B)
  PROVE  BlocksRoom(B) \in Nat
<1> DEFINE w == [c \in B |-> HEAP_NODE + HEADER + c.header]
<1>1. \A c \in B : w[c] \in Nat /\ w[c] = w[c]
  <2> SUFFICES ASSUME NEW c \in B PROVE w[c] \in Nat
    OBVIOUS
  <2>1. c.header \in Nat
    BY BlockTypes
  <2> QED BY <2>1, Room4
<1>2. BlocksRoom(B) = SumFunctionOnSet(w, B)
  BY DEF BlocksRoom, SumFunction, SumFunctionOnSet
<1> HIDE DEF w
<1> QED BY <1>1, <1>2, SumSame

LEMMA RoomIs ==
  ASSUME NEW f
  PROVE  /\ Room(f) = NodesRoom(page[f].freelist) + BlocksRoom(BlocksIn(f))
         /\ Room(f)' = NodesRoom(page'[f].freelist) + BlocksRoom(BlocksIn(f)')
BY DEF Room, NodesRoom, Weights, BlocksRoom, BlocksIn

\* Only finitely many blocks are ever out, so that they can be summed.
LEMMA BlocksFinite ==
  ASSUME IsFiniteSet(blocks), [HeapNext]_<<freeListVars, heapVars>>
  PROVE  IsFiniteSet(blocks')
<1>1. ASSUME NEW b PROVE IsFiniteSet(blocks \cup {b}) /\ IsFiniteSet(blocks \ {b})
  BY FS_AddElement, FS_RemoveElement
<1>2. CASE HeapParse
  BY <1>2 DEF HeapParse, heapVars
<1>3. ASSUME NEW frame, NEW pg, NEW size, Carve(frame, pg, size) PROVE IsFiniteSet(blocks')
  BY <1>1, <1>3 DEF Carve
<1>4. ASSUME NEW size \in Sizes, KmallocBig(size) \/ KmallocFromPage(size) \/ KmallocFromNewPage(size)
      PROVE  IsFiniteSet(blocks')
  <2>1. CASE KmallocBig(size)
    BY <1>1, <2>1 DEF KmallocBig
  <2>2. CASE KmallocFromPage(size)
    BY <1>3, <2>2 DEF KmallocFromPage
  <2>3. CASE KmallocFromNewPage(size)
    BY <1>3, <2>3 DEF KmallocFromNewPage
  <2> QED BY <1>4, <2>1, <2>2, <2>3
<1>5. ASSUME NEW b \in blocks, KfreeBig(b) \/ KfreeSmall(b) PROVE IsFiniteSet(blocks')
  BY <1>1, <1>5 DEF KfreeBig, KfreeSmall
<1>6. CASE UNCHANGED <<freeListVars, heapVars>>
  BY <1>6 DEF heapVars
<1> QED BY <1>2, <1>4, <1>5, <1>6 DEF HeapNext

LEMMA RoomTypes ==
  ASSUME HeapIInv, IsFiniteSet(blocks), NEW f \in PageFrames
  PROVE  /\ NodesRoom(page[f].freelist) \in Nat /\ BlocksRoom(BlocksIn(f)) \in Nat
         /\ IsFiniteSet(BlocksIn(f)) /\ BlocksIn(f) \in SUBSET Block
<1>1. BlocksIn(f) \in SUBSET blocks /\ blocks \in SUBSET Block
  BY DEF BlocksIn, HeapIInv
<1>2. IsFiniteSet(BlocksIn(f))
  BY <1>1, FS_Subset
<1>3. BlocksIn(f) \in SUBSET Block
  BY <1>1
<1>4. page[f].freelist \in Seq(Node)
  BY PageFrameTypes
<1> QED BY <1>2, <1>3, <1>4, NodesRoomIs, BlocksRoomNat

\* What a step does that does not touch the page.
LEMMA RoomKept ==
  ASSUME HeapIInv, IsFiniteSet(blocks), NEW f \in PageFrames,
         page'[f].freelist = page[f].freelist, BlocksIn(f)' = BlocksIn(f)
  PROVE  Room(f)' = Room(f) - Cardinality(Freed(f))
<1>1. Freed(f) = {}
  BY DEF Freed, BlocksIn
<1>2. Cardinality(Freed(f)) = 0
  BY <1>1, FS_EmptySet
<1>3. Room(f)' = Room(f) /\ Room(f) \in Nat
  BY RoomIs, RoomTypes
<1> QED BY <1>2, <1>3

\* kmalloc: the node's words become the block and the rest.
LEMMA CarveRoom ==
  ASSUME NEW list \in Seq(Node), NEW size \in Nat, NEW i \in 1 .. Len(list), list[i].length >= size + HEADER
  PROVE  LET h == BlockHeader(size, list[i].length - (size + HEADER)) IN
         NodesRoom(list) = NodesRoom(Carved(list, i, size)) + (3 + h)
<1>1. PICK node \in Node : node = list[i]
  OBVIOUS
<1>2. PICK a, l, s \in Nat : a = node.at /\ l = node.length /\ s = size /\ l >= s + 1
  BY <1>1, NodeTypes, Room4
<1>3. PICK r \in Nat : r = list[i].length - (size + HEADER) /\ l = s + 1 + r
  <2>1. l - (s + 1) \in Nat /\ l = s + 1 + (l - (s + 1))
    BY <1>2
  <2> QED BY <1>1, <1>2, <2>1, Room4
<1>4. NodesRoom(list) \in Nat
  BY NodesRoomIs
<1>5. CASE TooSmall(r)
  <2>1. Carved(list, i, size) = RemoveAt(list, i) /\ BlockHeader(size, r) = s + r
    BY <1>2, <1>3, <1>5 DEF Carved, BlockHeader
  <2>2. RemoveAt(list, i) \in Seq(Node) /\ NodesRoom(list) = NodesRoom(RemoveAt(list, i)) + 2 + list[i].length
    BY RoomRemoved
  <2>3. PICK x \in Nat : x = NodesRoom(RemoveAt(list, i)) /\ NodesRoom(list) = x + 2 + l
    BY <1>1, <1>2, <2>2, NodesRoomIs
  <2>4. x + 2 + l = x + (3 + (s + r))
    BY <1>3
  <2>5. BlockHeader(size, list[i].length - (size + HEADER)) = s + r
    BY <1>3, <2>1
  <2>6. x = NodesRoom(Carved(list, i, size))
    BY <2>1, <2>3
  <2> QED BY <2>3, <2>4, <2>5, <2>6
<1>6. CASE ~TooSmall(r)
  <2>1. PICK m \in Nat : r = m + 2
    <3>1. r - 2 \in Nat /\ r = (r - 2) + 2
      BY <1>6, Room4 DEF TooSmall
    <3> QED BY <3>1
  <2> DEFINE e == [at |-> a + 3 + s, length |-> m]
  <2>2. Rest(list[i], size) = e
    <3>1. a + 2 + 1 + s = a + 3 + s /\ l - (s + 1) - 2 = m
      <4>1. l = s + 1 + (m + 2)
        BY <1>3, <2>1
      <4> QED BY <4>1
    <3> QED BY <1>1, <1>2, <3>1, Room4 DEF Rest
  <2>3. e \in Node /\ e.length = m
    <3>1. a + 3 + s \in Nat
      OBVIOUS
    <3> QED BY <3>1 DEF Node
  <2> HIDE DEF e
  <2>4. Carved(list, i, size) = ReplaceAt(list, i, e) /\ BlockHeader(size, r) = s
    BY <1>2, <1>3, <1>6, <2>2 DEF Carved, BlockHeader
  <2>5. ReplaceAt(list, i, e) \in Seq(Node)
        /\ NodesRoom(ReplaceAt(list, i, e)) + list[i].length = NodesRoom(list) + e.length
    BY <2>3, RoomReplaced
  <2>6. PICK x, y \in Nat : /\ x = NodesRoom(ReplaceAt(list, i, e)) /\ y = NodesRoom(list)
                            /\ x + l = y + m
    BY <1>1, <1>2, <1>4, <2>3, <2>5, NodesRoomIs
  <2>7. y = x + (3 + s)
    <3>1. x + (s + 1 + (m + 2)) = y + m
      BY <1>3, <2>1, <2>6
    <3> QED BY <3>1
  <2> QED BY <1>3, <2>4, <2>6, <2>7
<1> QED BY <1>5, <1>6

LEMMA KmallocRoom ==
  ASSUME HeapIInv, IsFiniteSet(blocks), NEW f \in PageFrames,
         NEW pg \in HeapPage, pg = page[f], NEW size \in Nat \ {0}, size + HEADER <= pg.largest,
         Carve(f, pg, size)
  PROVE  Room(f)' = Room(f) - Cardinality(Freed(f))
<1> DEFINE list == pg.freelist
<1>1. f \in Nat /\ list \in Seq(Node) /\ Spaced(list) /\ pg.largest <= MaxLength(pg.freelist)
  BY PageFrameTypes
<1>2. PICK p \in 1 .. Len(list) : Takes(f, pg, size, p)
  BY <1>1, CarveTakes
<1> DEFINE new == Carved(list, p, size)
           h == BlockHeader(size, list[p].length - (size + HEADER))
           b == [frame |-> f, base |-> list[p].at + HEAP_NODE, size |-> size, header |-> h]
<1>3. /\ list[p].length >= size + HEADER
      /\ blocks' = blocks \cup {b}
      /\ page' = [g \in DOMAIN page \cup {f} |->
                   IF g = f THEN [freelist |-> new, largest |-> NewLargest(new)] ELSE page[g]]
  BY <1>2 DEF Takes
<1>4. /\ new \in Seq(Node) /\ b \in Block
      /\ \A c \in Block : Clear(list, c) => Stop(b) <= Start(c) \/ Stop(c) <= Start(b)
  <2> HIDE DEF list
  <2> QED BY <1>1, <1>3, CarveKeeps
<1>5. NodesRoom(list) = NodesRoom(new) + (3 + h)
  <2> HIDE DEF list
  <2> QED BY <1>1, <1>3, CarveRoom
<1>6. b.frame = f /\ b.header = h
  OBVIOUS
<1>7. page'[f].freelist = new
  BY <1>3
<1> HIDE DEF b, h, new
<1>8. b \notin blocks
  <2> SUFFICES ASSUME b \in blocks PROVE FALSE
    OBVIOUS
  <2>1. Small(b)
    BY <1>6, BlockFrames DEF BigSound
  <2>2. Clear(list, b)
    BY <1>6, <2>1, BlockFrames DEF SmallSound
  <2>3. Stop(b) <= Start(b)
    BY <1>4, <2>2
  <2> QED BY <1>4, <2>3, BlockTypes
<1> DEFINE B == BlocksIn(f) \cup {b}
<1>9. BlocksIn(f)' = B /\ B \ {b} = BlocksIn(f) /\ Freed(f) = {}
  BY <1>3, <1>6, <1>8 DEF BlocksIn, Freed
<1>10. IsFiniteSet(B) /\ B \in SUBSET Block /\ b \in B
  BY <1>4, RoomTypes, FS_AddElement
<1> HIDE DEF B
<1>11. BlocksRoom(B \ {b}) \in Nat /\ BlocksRoom(B) = BlocksRoom(B \ {b}) + (3 + b.header)
  BY <1>10, BlockTaken
<1>12. PICK k \in Nat : k = h
  BY <1>4, <1>6, BlockTypes
<1>13. PICK x, y \in Nat : x = NodesRoom(new) /\ y = BlocksRoom(BlocksIn(f))
  BY <1>4, NodesRoomIs, RoomTypes
<1>14. Room(f) = x + (3 + k) + y
  BY <1>1, <1>5, <1>12, <1>13, RoomIs
<1>15. Room(f)' = x + (y + (3 + k))
  BY <1>6, <1>7, <1>9, <1>11, <1>12, <1>13, RoomIs
<1>16. Cardinality(Freed(f)) = 0
  BY <1>9, FS_EmptySet
<1> QED BY <1>14, <1>15, <1>16

LEMMA KfreeRoom ==
  ASSUME HeapIInv, IsFiniteSet(blocks), NEW b \in blocks, KfreeSmall(b), NEW f \in PageFrames, f = b.frame
  PROVE  Room(f)' = Room(f) - Cardinality(Freed(f))
<1> DEFINE list == page[f].freelist
           node == [at |-> b.base - HEAP_NODE, length |-> b.header]
<1>1. /\ page' = [page EXCEPT ![FrameOf(b)].freelist = Insert(@, node)]
      /\ blocks' = blocks \ {b} /\ b.header <= SMALL_PAGE_MAXIMUM_SIZE
  BY DEF KfreeSmall
<1>2. b \in Block /\ Small(b) /\ SmallSound(b)
  BY <1>1, BlockFrames DEF Small
<1>3. PICK x, h \in Nat : b.base = x + 2 /\ b.header = h /\ x + 3 + h <= FrameWords
  <2>1. PICK y, h \in Nat : b.base = y /\ b.header = h /\ Start(b) = y - 2 /\ Stop(b) = y + 1 + h
    BY <1>2, BlockTypes
  <2>2. 4 <= y - 2 /\ y + 1 + h <= FrameWords
    BY <1>2, <2>1, Room4 DEF SmallSound
  <2>3. y - 2 \in Nat /\ y = (y - 2) + 2 /\ (y - 2) + 3 + h = y + 1 + h
    BY <2>2
  <2> QED BY <2>1, <2>2, <2>3
<1>4. FrameOf(b) = f
  <2>1. b.base + HEADER < FrameWords
    <3>1. h > 0
      BY <1>3, BlockFrames, BlockTypes
    <3>2. FrameWords \in Nat
      BY Room4
    <3> QED BY <1>3, <3>1, <3>2, Room4
  <2> QED BY <1>2, <2>1, FrameOfBlock
<1>5. PICK made \in Node : made = node /\ made.length = h
  <2>1. node = [at |-> x, length |-> h]
    BY <1>3, Room4
  <2> HIDE DEF node
  <2> QED BY <2>1, NodeMade
<1>6. list \in Seq(Node) /\ page[f] \in HeapPage
  BY PageFrameTypes
<1>7. page'[f].freelist = Insert(list, made)
  <2>1. page \in [PageFrames -> HeapPage]
    BY DEF HeapIInv, PagesSound, HeapPage
  <2> HIDE DEF node
  <2> QED BY <1>1, <1>4, <1>5, <1>6, <2>1 DEF HeapPage
<1>8. NodesRoom(Insert(list, made)) = NodesRoom(list) + 2 + h
  <2> HIDE DEF list
  <2> QED BY <1>5, <1>6, InsertRoom
<1> DEFINE B == BlocksIn(f)
<1>9. BlocksIn(f)' = B \ {b} /\ b \in B /\ Freed(f) = {b}
  BY <1>1 DEF BlocksIn, Freed
<1>10. IsFiniteSet(B) /\ B \in SUBSET Block
  BY RoomTypes
<1> HIDE DEF B
<1>11. BlocksRoom(B \ {b}) \in Nat /\ BlocksRoom(B) = BlocksRoom(B \ {b}) + (3 + b.header)
  BY <1>9, <1>10, BlockTaken
<1>12. PICK y, z \in Nat : y = NodesRoom(list) /\ z = BlocksRoom(B \ {b})
  BY <1>6, <1>11, NodesRoomIs
<1>13. Room(f) = y + (z + (3 + h))
  BY <1>3, <1>11, <1>12, RoomIs DEF B
<1>14. Room(f)' = (y + 2 + h) + z
  BY <1>7, <1>8, <1>9, <1>12, RoomIs
<1>15. Cardinality(Freed(f)) = 1
  BY <1>9, FS_Singleton
<1>16. (y + 2 + h) + z = (y + (z + (3 + h))) - 1
  OBVIOUS
<1> QED BY <1>13, <1>14, <1>15, <1>16

\* Carving in one page leaves the others alone.
LEMMA CarveElsewhere ==
  ASSUME NEW frame, NEW pg, NEW size, Carve(frame, pg, size), NEW f \in DOMAIN page, frame # f
  PROVE  BlocksIn(f)' = BlocksIn(f) /\ page'[f] = page[f]
<1> DEFINE i == SelectInSeq(pg.freelist, LAMBDA node : node.length >= size + HEADER)
<1>1. CASE i = 0
  BY <1>1 DEF Carve, BlocksIn
<1>2. CASE i # 0
  <2> DEFINE new == Carved(pg.freelist, i, size)
             b == [frame |-> frame, base |-> pg.freelist[i].at + HEAP_NODE, size |-> size,
                   header |-> BlockHeader(size, pg.freelist[i].length - (size + HEADER))]
  <2>1. /\ blocks' = blocks \cup {b}
        /\ page' = [g \in DOMAIN page \cup {frame} |->
                     IF g = frame THEN [freelist |-> new, largest |-> NewLargest(new)] ELSE page[g]]
    BY <1>2 DEF Carve, Carved
  <2>2. b.frame = frame
    OBVIOUS
  <2> HIDE DEF b, new
  <2> QED BY <2>1, <2>2 DEF BlocksIn
<1> QED BY <1>1, <1>2

LEMMA RoomStep ==
  ASSUME HeapIInv, IsFiniteSet(blocks), [HeapNext]_<<freeListVars, heapVars>>, NEW f \in PageFrames
  PROVE  Room(f)' = Room(f) - Cardinality(Freed(f))
<1>1. CASE HeapParse
  BY <1>1, RoomKept DEF HeapParse, heapVars, BlocksIn
<1>2. CASE UNCHANGED <<freeListVars, heapVars>>
  BY <1>2, RoomKept DEF heapVars, BlocksIn
<1>3. f \in Nat \ {0} /\ [base |-> f, length |-> 1] \in live /\ page[f] \in HeapPage /\ page[f].largest \in Nat
  BY PageFrameTypes
<1>4. ASSUME HeapReady, NEW size \in Sizes, KmallocBig(size)
      PROVE  Room(f)' = Room(f) - Cardinality(Freed(f))
  <2>1. PICK physical \in Reachable :
          /\ memory_allocate_frames(FramesFor(size), physical)
          /\ Hand(physical, FramesFor(size))
          /\ blocks' = blocks \cup
               {[frame |-> physical, base |-> HEAP_PAGE, size |-> size,
                 header |-> FrameWords * FramesFor(size) - HEAP_PAGE - HEADER]}
    BY <1>4 DEF KmallocBig
  <2>2. PICK k \in Nat \ {0} : k = FramesFor(size)
    BY <1>4, FramesForBounds, Room4 DEF KmallocBig
  <2>3. physical # f
    <3>1. IInv /\ memory_allocate_frames(k, physical) /\ Hand(physical, k)
      BY <2>1, <2>2 DEF HeapIInv
    <3>2. physical = 0 \/ \A run \in live : run.base # physical
      BY <3>1, FreshBase
    <3> QED BY <1>3, <3>2
  <2>4. BlocksIn(f)' = BlocksIn(f) /\ page' = page
    BY <1>4, <2>1, <2>3 DEF BlocksIn, KmallocBig
  <2> QED BY <2>4, RoomKept
<1>5. ASSUME HeapReady, NEW size \in Sizes, KmallocFromPage(size)
      PROVE  Room(f)' = Room(f) - Cardinality(Freed(f))
  <2> DEFINE k == Min(PagesFor(size))
             frame == heap_pages[k]
  <2>1. PagesFor(size) # {} /\ Carve(frame, page[frame], size)
    BY <1>5 DEF KmallocFromPage
  <2>2. k \in PagesFor(size)
    <3>1. PagesFor(size) \in SUBSET Nat
      BY DEF PagesFor, HeapIInv
    <3> QED BY <2>1, <3>1, MinExists
  <2>3. frame \in PageFrames /\ page[frame].largest >= size + HEADER
    BY <2>2 DEF PagesFor, PageFrames, ToSet
  <2> HIDE DEF k, frame
  <2>4. size \in Nat \ {0} /\ size + HEADER \in Nat
    BY Room4
  <2>5. CASE frame = f
    <3>1. PICK pg \in HeapPage : pg = page[f]
      BY <1>3
    <3>2. size + HEADER <= pg.largest /\ Carve(f, pg, size)
      BY <1>3, <2>1, <2>3, <2>4, <2>5, <3>1
    <3> QED BY <2>4, <3>1, <3>2, KmallocRoom
  <2>6. CASE frame # f
    <3>1. DOMAIN page = PageFrames
      BY DEF HeapIInv, PagesSound
    <3>2. BlocksIn(f)' = BlocksIn(f) /\ page'[f] = page[f]
      BY <2>1, <2>6, <3>1, CarveElsewhere
    <3> QED BY <3>2, RoomKept
  <2> QED BY <2>5, <2>6
<1>6. ASSUME HeapReady, NEW size \in Sizes, KmallocFromNewPage(size)
      PROVE  Room(f)' = Room(f) - Cardinality(Freed(f))
  <2>1. PICK physical \in Reachable :
          /\ TakeFrame(physical) /\ Hand(physical, 1)
          /\ IF physical = 0 THEN wild' = TRUE /\ UNCHANGED <<page, blocks>>
             ELSE Carve(physical, FreshPage, size) /\ UNCHANGED wild
    BY <1>6 DEF KmallocFromNewPage, memory_allocate_frame
  <2>2. CASE physical = 0
    BY <2>1, <2>2, RoomKept DEF BlocksIn
  <2>3. CASE physical # 0
    <3>1. IInv /\ memory_allocate_frames(1, physical) /\ 1 \in Nat \ {0}
      BY <2>1 DEF HeapIInv, TakeFrame
    <3>2. \A run \in live : run.base # physical
      BY <2>1, <2>3, <3>1, FreshBase
    <3>3. physical # f
      BY <1>3, <3>2
    <3>4. DOMAIN page = PageFrames
      BY DEF HeapIInv, PagesSound
    <3>5. BlocksIn(f)' = BlocksIn(f) /\ page'[f] = page[f]
      BY <2>1, <2>3, <3>3, <3>4, CarveElsewhere
    <3> QED BY <3>5, RoomKept
  <2> QED BY <2>2, <2>3
<1>7. ASSUME HeapReady, NEW b \in blocks, KfreeBig(b)
      PROVE  Room(f)' = Room(f) - Cardinality(Freed(f))
  <2>1. b.header > SMALL_PAGE_MAXIMUM_SIZE /\ page' = page /\ (blocks' = blocks \/ blocks' = blocks \ {b})
    BY <1>7 DEF KfreeBig
  <2>2. ~Small(b)
    <3>1. b.header \in Nat
      BY BlockFrames, BlockTypes
    <3> QED BY <2>1, <3>1, Room4 DEF Small
  <2>3. b.frame # f
    BY <2>2, BlockFrames DEF BigSound
  <2>4. BlocksIn(f)' = BlocksIn(f)
    BY <2>1, <2>3 DEF BlocksIn
  <2> QED BY <2>1, <2>4, RoomKept
<1>8. ASSUME HeapReady, NEW b \in blocks, KfreeSmall(b)
      PROVE  Room(f)' = Room(f) - Cardinality(Freed(f))
  <2>1. CASE b.frame = f
    BY <1>8, <2>1, KfreeRoom
  <2>2. CASE b.frame # f
    <3>1. b \in Block /\ Small(b) /\ SmallSound(b)
      BY <1>8, BlockFrames DEF Small, KfreeSmall
    <3>2. FrameOf(b) # f
      <4>1. b.base + HEADER < FrameWords
        <5>1. PICK y, h \in Nat : b.base = y /\ b.header = h /\ Stop(b) = y + 1 + h /\ h > 0
          BY <3>1, BlockFrames, BlockTypes
        <5>2. y + 1 + h <= FrameWords /\ FrameWords \in Nat
          BY <3>1, <5>1, Room4 DEF SmallSound
        <5> QED BY <5>1, <5>2, Room4
      <4> QED BY <2>2, <3>1, <4>1, FrameOfBlock
    <3>3. page'[f] = page[f] /\ blocks' = blocks \ {b}
      <4>1. DOMAIN page = PageFrames
        BY DEF HeapIInv, PagesSound
      <4> QED BY <1>8, <3>2, <4>1 DEF KfreeSmall
    <3>4. BlocksIn(f)' = BlocksIn(f)
      BY <2>2, <3>3 DEF BlocksIn
    <3> QED BY <3>3, <3>4, RoomKept
  <2> QED BY <2>1, <2>2
<1> QED BY <1>1, <1>2, <1>4, <1>5, <1>6, <1>7, <1>8 DEF HeapNext

\* kfree costs its page one word per block and nothing else costs any, for every size of
\* frame and of request: splitting, taking a node whole, inserting and merging neither lose
\* nor make room, however long the list that kfree walks.
THEOREM HeapLosesOneWord == HeapSpec => OneWordLost
<1> DEFINE Step == \A f \in PageFrames :
                     Room(f)' = Room(f) - Cardinality({b \in blocks \ blocks' : b.frame = f})
<1>1. HeapInit => IsFiniteSet(blocks)
  BY FS_EmptySet DEF HeapInit
<1>2. IsFiniteSet(blocks) /\ [HeapNext]_<<freeListVars, heapVars>> => IsFiniteSet(blocks)'
  BY BlocksFinite
<1>3. HeapIInv /\ IsFiniteSet(blocks) /\ [HeapNext]_<<freeListVars, heapVars>> => [Step]_<<freeListVars, heapVars>>
  BY RoomStep DEF Freed
<1>4. HeapSpec => [][Step]_<<freeListVars, heapVars>>
  <2> HIDE DEF Step
  <2> QED BY <1>1, <1>2, <1>3, HeapInductive, PTL DEF HeapSpec
<1> QED BY <1>4, PTL DEF OneWordLost

=============================================================================
