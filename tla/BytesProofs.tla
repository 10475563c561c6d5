----------------------------- MODULE BytesProofs ------------------------------
(* What the copies and comparisons of Bytes do, whatever is in the memory.   *)
EXTENDS Bytes, ListFacts

-----------------------------------------------------------------------------
(* Copies, one byte after the other.                                         *)

Memory(m) == [0 .. m -> 0 .. 255]
CopyByte(mem, dest, src, i) == [mem EXCEPT ![dest + i] = mem[src + i]]

\* The memory after each of a copy's writes.
Copies(m, mem, dest, src, indices, h) ==
  /\ h \in [0 .. Len(indices) -> Memory(m)]
  /\ h[0] = mem
  /\ \A k \in 1 .. Len(indices) : h[k] = CopyByte(h[k - 1], dest, src, indices[k])

LEMMA CopyTyped ==
  ASSUME NEW m \in Nat, NEW mem \in Memory(m), NEW dest \in Nat, NEW src \in Nat, NEW i \in Nat,
         dest + i <= m, src + i <= m
  PROVE  CopyByte(mem, dest, src, i) \in Memory(m)
<1>1. src + i \in 0 .. m
  OBVIOUS
<1>2. mem[src + i] \in 0 .. 255
  BY <1>1 DEF Memory
<1> QED BY <1>2 DEF Memory, CopyByte

\* The places a copy goes through are within the memory.
Within(m, dest, src, indices) ==
  \A k \in 1 .. Len(indices) : dest + indices[k] <= m /\ src + indices[k] <= m

LEMMA CopyFold ==
  ASSUME NEW m \in Nat, NEW mem \in Memory(m), NEW dest \in Nat, NEW src \in Nat,
         NEW l \in Seq(Nat), Within(m, dest, src, l)
  PROVE  \E h : Copies(m, mem, dest, src, l, h) /\ CopyEach(mem, dest, src, l) = h[Len(l)]
<1>0. PICK n \in Nat : n = Len(l)
  OBVIOUS
<1> DEFINE V == Memory(m)
           Step(v, i) == CopyByte(v, dest, src, i)
           it == CHOOSE iter : iter = [s \in SUBSET DOMAIN l |->
                   IF s = {} THEN mem ELSE Step(iter[s \ {Max(s)}], l[Max(s)])]
           F == [p \in V \X (1 .. n) |-> Step(p[1], l[p[2]])]
<1>1. CopyEach(mem, dest, src, l) = it[DOMAIN l]
  BY DEF CopyEach, CopyByte, FoldLeft, MapThenFoldSet
<1>2. DOMAIN l = 1 .. n /\ \A k \in 1 .. n : l[k] \in Nat /\ dest + l[k] <= m /\ src + l[k] <= m
  BY <1>0 DEF Within
<1> HIDE DEF V
<1>a. \A k \in 1 .. n, v \in V : Step(v, l[k]) \in V
  BY <1>2, CopyTyped DEF V
<1>3. \A k \in 1 .. n, v \in V : F[<<v, k>>] = Step(v, l[k]) /\ F[<<v, k>>] \in V
  <2> HIDE DEF Step
  <2> QED BY <1>a
<1>b. mem \in V
  BY DEF V
<1> HIDE DEF F, Step
<1>4. PICK g : FoldOf(n, V, mem, F, g)
  BY <1>3, <1>b, FoldExists
<1>5. ASSUME NEW s \in SUBSET (1 .. n), s # {}
      PROVE  g[s] = Step(g[s \ {Max(s)}], l[Max(s)])
  <2>1. Max(s) \in s
    BY <1>5, FiniteMax
  <2>2. g[s] = F[<<g[s \ {Max(s)}], Max(s)>>] /\ g[s \ {Max(s)}] \in V
    BY <1>4, <1>5 DEF FoldOf
  <2> QED BY <1>3, <2>1, <2>2
<1>6. g = [s \in SUBSET (1 .. n) |-> g[s]] /\ g[{}] = mem
  BY <1>4 DEF FoldOf
<1>7. g = [s \in SUBSET (1 .. n) |-> IF s = {} THEN mem ELSE Step(g[s \ {Max(s)}], l[Max(s)])]
  BY <1>5, <1>6
<1>8. it = [s \in SUBSET (1 .. n) |-> IF s = {} THEN mem ELSE Step(it[s \ {Max(s)}], l[Max(s)])]
  BY <1>2, <1>7
<1> HIDE DEF it
<1>9. it[{}] = mem
  BY <1>8
<1>10. FoldsInto(n, V, mem, F, it)
  <2>1. ASSUME NEW s \in SUBSET (1 .. n), s # {}, it[s \ {Max(s)}] \in V
        PROVE  it[s] = F[<<it[s \ {Max(s)}], Max(s)>>]
    <3>1. Max(s) \in 1 .. n
      BY <2>1, FiniteMax
    <3> QED BY <1>3, <1>8, <2>1, <3>1
  <2> QED BY <1>9, <2>1 DEF FoldsInto
<1>11. PICK path : PathOf(n, V, mem, F, it, path)
  BY <1>3, <1>10, <1>b, FoldSteps
<1>12. PICK h \in [0 .. n -> V] :
         h[0] = mem /\ (\A k \in 1 .. n : h[k] = F[<<h[k - 1], k>>]) /\ h[n] = it[1 .. n]
  BY <1>11 DEF PathOf
<1>13. \A k \in 1 .. n : h[k] = Step(h[k - 1], l[k])
  <2> SUFFICES ASSUME NEW k \in 1 .. n PROVE h[k] = Step(h[k - 1], l[k])
    OBVIOUS
  <2>1. k - 1 \in 0 .. n
    OBVIOUS
  <2> QED BY <1>3, <1>12, <2>1
<1> QED BY <1>0, <1>1, <1>2, <1>12, <1>13 DEF Copies, Step, V

\* The bytes from lo to hi of the block copied already, as in one step.
Part(m, mem, dest, src, lo, hi) ==
  [a \in 0 .. m |-> IF a \in dest + lo .. dest + hi - 1 THEN mem[src + (a - dest)] ELSE mem[a]]

\* One byte more, read where nothing has been written yet.
LEMMA PartGrows ==
  ASSUME NEW m \in Nat, NEW mem \in Memory(m), NEW dest \in Nat, NEW src \in Nat,
         NEW lo \in Nat, NEW hi \in Nat, lo <= hi, NEW i \in Nat, dest + i <= m, src + i <= m,
         src + i \notin dest + lo .. dest + hi - 1,
         NEW low \in Nat, NEW high \in Nat, (i = hi /\ low = lo /\ high = hi + 1) \/ (i = lo - 1 /\ low = lo - 1 /\ high = hi)
  PROVE  CopyByte(Part(m, mem, dest, src, lo, hi), dest, src, i) = Part(m, mem, dest, src, low, high)
<1> DEFINE old == Part(m, mem, dest, src, lo, hi)
           new == Part(m, mem, dest, src, low, high)
<1>1. src + i \in 0 .. m /\ dest + i \in 0 .. m /\ src + ((dest + i) - dest) = src + i
  OBVIOUS
<1>2. old[src + i] = mem[src + i]
  BY <1>1 DEF Part
<1>3. CopyByte(old, dest, src, i) = [a \in 0 .. m |-> IF a = dest + i THEN mem[src + i] ELSE old[a]]
  <2>1. DOMAIN old = 0 .. m
    BY DEF Part
  <2> HIDE DEF old
  <2> QED BY <1>1, <1>2, <2>1 DEF CopyByte
<1>4. ASSUME NEW a \in 0 .. m
      PROVE  new[a] = IF a = dest + i THEN mem[src + i] ELSE old[a]
  <2>1. a \in dest + low .. dest + high - 1 <=> a = dest + i \/ a \in dest + lo .. dest + hi - 1
    OBVIOUS
  <2>2. CASE a = dest + i
    <3>1. new[a] = mem[src + (a - dest)]
      BY <2>1, <2>2 DEF Part
    <3> QED BY <1>1, <2>2, <3>1
  <2>3. CASE a # dest + i
    BY <2>1, <2>3 DEF Part
  <2> QED BY <2>2, <2>3
<1>5. new = [a \in 0 .. m |-> new[a]]
  BY DEF Part
<1> HIDE DEF old, new
<1>6. CopyByte(old, dest, src, i) = new
  BY <1>3, <1>4, <1>5
<1> QED BY <1>6 DEF old, new

\* The copy of the whole block in one step.
Whole(m, mem, dest, src, n) == Part(m, mem, dest, src, 0, n)

LEMMA NothingCopied ==
  ASSUME NEW m \in Nat, NEW mem \in Memory(m), NEW dest \in Nat, NEW src \in Nat, NEW lo \in Nat
  PROVE  Part(m, mem, dest, src, lo, lo) = mem
<1>1. \A a : a \notin dest + lo .. dest + lo - 1
  OBVIOUS
<1> QED BY <1>1 DEF Part, Memory

\* From the front: the source is behind the destination, or ends before it.
LEMMA CopyUp ==
  ASSUME NEW m \in Nat, NEW mem \in Memory(m), NEW dest \in Nat, NEW src \in Nat, NEW n \in Nat,
         dest + n <= m + 1, src + n <= m + 1, dest <= src \/ src + n <= dest
  PROVE  CopyEach(mem, dest, src, Up(n)) = Whole(m, mem, dest, src, n)
<1>1. PICK l \in Seq(Nat) :
        /\ l = Up(n) /\ Len(l) = n
        /\ \A k \in 1 .. n : l[k] = k - 1 /\ dest + l[k] <= m /\ src + l[k] <= m
  <2> DEFINE up == Up(n)
  <2>1. /\ up \in Seq(Nat) /\ Len(up) = n
        /\ \A k \in 1 .. n : up[k] = k - 1 /\ dest + up[k] <= m /\ src + up[k] <= m
    BY DEF Up
  <2> HIDE DEF up
  <2>2. up = Up(n)
    BY DEF up
  <2> QED BY <2>1, <2>2
<1>2. PICK h : Copies(m, mem, dest, src, l, h) /\ CopyEach(mem, dest, src, l) = h[n]
  <2>1. Within(m, dest, src, l)
    BY <1>1 DEF Within
  <2>2. PICK h : Copies(m, mem, dest, src, l, h) /\ CopyEach(mem, dest, src, l) = h[Len(l)]
    BY <1>1, <2>1, CopyFold
  <2> QED BY <1>1, <2>2
<1> DEFINE P == {k \in Nat : k <= n => h[k] = Part(m, mem, dest, src, 0, k)}
<1>3. 0 \in P
  BY <1>2, NothingCopied DEF Copies
<1>4. ASSUME NEW k \in Nat, k \in P PROVE k + 1 \in P
  <2> SUFFICES ASSUME k + 1 <= n PROVE h[k + 1] = Part(m, mem, dest, src, 0, k + 1)
    OBVIOUS
  <2>1. k + 1 \in 1 .. n /\ (k + 1) - 1 = k
    OBVIOUS
  <2>2. h[k + 1] = CopyByte(h[k], dest, src, k)
    BY <1>1, <1>2, <2>1 DEF Copies
  <2>3. h[k] = Part(m, mem, dest, src, 0, k)
    BY <1>4
  <2>4. dest + k <= m /\ src + k <= m /\ src + k \notin dest + 0 .. dest + k - 1 /\ 0 <= k
    OBVIOUS
  <2>5. CopyByte(Part(m, mem, dest, src, 0, k), dest, src, k) = Part(m, mem, dest, src, 0, k + 1)
    <3>1. PICK z, i, u \in Nat : z = 0 /\ i = k /\ u = k + 1
      OBVIOUS
    <3>2. src + i \notin dest + z .. dest + i - 1 /\ dest + i <= m /\ src + i <= m /\ z <= i
      BY <2>4, <3>1
    <3>3. i = i /\ z = z /\ u = i + 1
      BY <3>1
    <3> HIDE DEF P
    <3>4. CopyByte(Part(m, mem, dest, src, z, i), dest, src, i) = Part(m, mem, dest, src, z, u)
      BY <3>2, <3>3, PartGrows
    <3> QED BY <3>1, <3>4
  <2> QED BY <2>2, <2>3, <2>5
<1>5. n \in P
  <2> HIDE DEF P
  <2> QED BY <1>3, <1>4, SetInduction
<1> QED BY <1>2, <1>1, <1>5 DEF Whole

\* From the back: the source is not behind the destination.
LEMMA CopyDown ==
  ASSUME NEW m \in Nat, NEW mem \in Memory(m), NEW dest \in Nat, NEW src \in Nat, NEW n \in Nat,
         dest + n <= m + 1, src + n <= m + 1, src <= dest
  PROVE  CopyEach(mem, dest, src, Down(n)) = Whole(m, mem, dest, src, n)
<1>1. PICK l \in Seq(Nat) :
        /\ l = Down(n) /\ Len(l) = n
        /\ \A k \in 1 .. n : l[k] = n - k /\ dest + l[k] <= m /\ src + l[k] <= m
  <2> DEFINE up == Down(n)
  <2>1. /\ up \in Seq(Nat) /\ Len(up) = n
        /\ \A k \in 1 .. n : up[k] = n - k /\ dest + up[k] <= m /\ src + up[k] <= m
    BY DEF Down
  <2> HIDE DEF up
  <2>2. up = Down(n)
    BY DEF up
  <2> QED BY <2>1, <2>2
<1>2. PICK h : Copies(m, mem, dest, src, l, h) /\ CopyEach(mem, dest, src, l) = h[n]
  <2>1. Within(m, dest, src, l)
    BY <1>1 DEF Within
  <2>2. PICK h : Copies(m, mem, dest, src, l, h) /\ CopyEach(mem, dest, src, l) = h[Len(l)]
    BY <2>1, CopyFold
  <2> QED BY <1>1, <2>2
<1> DEFINE P == {k \in Nat : k <= n => h[k] = Part(m, mem, dest, src, n - k, n)}
<1>3. 0 \in P
  <2>1. n - 0 = n
    OBVIOUS
  <2> QED BY <1>2, <2>1, NothingCopied DEF Copies
<1>4. ASSUME NEW k \in Nat, k \in P PROVE k + 1 \in P
  <2> SUFFICES ASSUME k + 1 <= n PROVE h[k + 1] = Part(m, mem, dest, src, n - (k + 1), n)
    OBVIOUS
  <2>1. PICK i, lo \in Nat : i = n - (k + 1) /\ lo = n - k /\ i = lo - 1
    <3>1. n - (k + 1) \in Nat /\ n - k \in Nat /\ n - (k + 1) = (n - k) - 1
      OBVIOUS
    <3> QED BY <3>1
  <2>2. k + 1 \in 1 .. n /\ (k + 1) - 1 = k
    OBVIOUS
  <2>3. h[k + 1] = CopyByte(h[k], dest, src, i)
    BY <1>1, <1>2, <2>1, <2>2 DEF Copies
  <2>4. h[k] = Part(m, mem, dest, src, lo, n)
    BY <1>4, <2>1
  <2>5. dest + i <= m /\ src + i <= m /\ src + i \notin dest + lo .. dest + n - 1 /\ lo <= n
    BY <2>1
  <2>6. CopyByte(Part(m, mem, dest, src, lo, n), dest, src, i) = Part(m, mem, dest, src, i, n)
    <3> HIDE DEF P
    <3> QED BY <2>1, <2>5, PartGrows
  <2> QED BY <2>1, <2>3, <2>4, <2>6
<1>5. n \in P
  <2> HIDE DEF P
  <2> QED BY <1>3, <1>4, SetInduction
<1>6. n - n = 0
  OBVIOUS
<1> QED BY <1>2, <1>1, <1>5, <1>6 DEF Whole

LEMMA MoveIsWhole ==
  ASSUME NEW m \in Nat, NEW mem \in Memory(m), NEW dest \in Nat, NEW src \in Nat, NEW n \in Nat,
         dest + n <= m + 1, src + n <= m + 1
  PROVE  /\ memmove(mem, dest, src, n) = Whole(m, mem, dest, src, n)
         /\ (dest + n <= src \/ src + n <= dest) =>
              memcpy(mem, dest, src, n) = Whole(m, mem, dest, src, n)
<1>1. CASE src > dest
  <2>1. CopyEach(mem, dest, src, Up(n)) = Whole(m, mem, dest, src, n)
    BY <1>1, CopyUp
  <2> QED BY <1>1, <2>1 DEF memmove, memcpy
<1>2. CASE src < dest
  <2>1. CopyEach(mem, dest, src, Down(n)) = Whole(m, mem, dest, src, n)
    BY <1>2, CopyDown
  <2>2. memmove(mem, dest, src, n) = Whole(m, mem, dest, src, n)
    BY <1>2, <2>1 DEF memmove
  <2>3. ASSUME dest + n <= src \/ src + n <= dest
        PROVE  memcpy(mem, dest, src, n) = Whole(m, mem, dest, src, n)
    <3>1. src + n <= dest
      BY <1>2, <2>3
    <3> QED BY <3>1, CopyUp DEF memcpy
  <2> QED BY <2>2, <2>3
<1>3. CASE src = dest
  <2>1. \A a \in 0 .. m : src + (a - dest) = a
    BY <1>3
  <2>2. Whole(m, mem, dest, src, n) = mem
    BY <2>1 DEF Whole, Part, Memory
  <2>3. memmove(mem, dest, src, n) = mem
    BY <1>3 DEF memmove
  <2>4. memcpy(mem, dest, src, n) = Whole(m, mem, dest, src, n)
    BY <1>3, CopyUp DEF memcpy
  <2> QED BY <2>2, <2>3, <2>4
<1> QED BY <1>1, <1>2, <1>3

-----------------------------------------------------------------------------
(* Comparisons.                                                              *)

SameBlock(mem, s, t, n) == \A i \in 0 .. n - 1 : mem[s + i] = mem[t + i]

LEMMA CompareIs ==
  ASSUME NEW m \in Nat, NEW mem \in Memory(m), NEW s \in Nat, NEW t \in Nat, NEW n \in Nat,
         s + n <= m + 1, t + n <= m + 1
  PROVE  /\ memcmp(mem, s, t, n) = 0 <=> SameBlock(mem, s, t, n)
         /\ memcmp(mem, s, t, n) = -memcmp(mem, t, s, n)
<1> DEFINE D == {i \in 0 .. n - 1 : mem[s + i] # mem[t + i]}
           E == {i \in 0 .. n - 1 : mem[t + i] # mem[s + i]}
<1>1. D = E
  OBVIOUS
<1>2. /\ memcmp(mem, s, t, n) = IF D = {} THEN 0 ELSE IF mem[s + Min(D)] < mem[t + Min(D)] THEN -1 ELSE 1
      /\ memcmp(mem, t, s, n) = IF D = {} THEN 0 ELSE IF mem[t + Min(D)] < mem[s + Min(D)] THEN -1 ELSE 1
  BY <1>1 DEF memcmp
<1>3. D = {} <=> SameBlock(mem, s, t, n)
  BY DEF SameBlock
<1>4. CASE D = {}
  <2>1. memcmp(mem, s, t, n) = 0 /\ memcmp(mem, t, s, n) = 0
    BY <1>2, <1>4
  <2> HIDE DEF D
  <2>2. PICK x \in Int : x = memcmp(mem, t, s, n) /\ x <= 0 /\ 0 <= x
    BY <2>1
  <2>3. -x <= 0 /\ 0 <= -x /\ -x \in Int
    BY <2>2
  <2>4. memcmp(mem, s, t, n) = -x
    BY <2>1, <2>3
  <2> QED BY <1>3, <1>4, <2>1, <2>2, <2>4
<1>5. CASE D # {}
  <2>1. D \in SUBSET Nat
    OBVIOUS
  <2>2. Min(D) \in D
    <3> HIDE DEF D
    <3> QED BY <1>5, <2>1, MinExists
  <2>3. PICK i \in 0 .. n - 1 : i = Min(D) /\ mem[s + i] # mem[t + i]
    BY <2>2
  <2>4. s + i \in 0 .. m /\ t + i \in 0 .. m
    OBVIOUS
  <2>5. PICK x, y \in 0 .. 255 : x = mem[s + i] /\ y = mem[t + i] /\ x # y
    <3> HIDE DEF D
    <3>1. mem[s + i] \in 0 .. 255 /\ mem[t + i] \in 0 .. 255
      BY <2>4 DEF Memory
    <3> QED BY <2>3, <3>1
  <2> HIDE DEF D
  <2>6. /\ memcmp(mem, s, t, n) = IF x < y THEN -1 ELSE 1
        /\ memcmp(mem, t, s, n) = IF y < x THEN -1 ELSE 1
    BY <1>2, <1>5, <2>3, <2>5
  <2> QED BY <1>3, <1>5, <2>5, <2>6
<1> QED BY <1>4, <1>5

\* A block equals another exactly when copying it there changes nothing.
LEMMA CompareIsMove ==
  ASSUME NEW m \in Nat, NEW mem \in Memory(m), NEW s \in Nat, NEW t \in Nat, NEW n \in Nat,
         s + n <= m + 1, t + n <= m + 1
  PROVE  memcmp(mem, s, t, n) = 0 <=> memmove(mem, s, t, n) = mem
<1>1. memmove(mem, s, t, n) = Whole(m, mem, s, t, n)
  BY MoveIsWhole
<1>2. ASSUME \A i \in 0 .. n - 1 : mem[s + i] = mem[t + i] PROVE Whole(m, mem, s, t, n) = mem
  <2>1. ASSUME NEW a \in 0 .. m, a \in s + 0 .. s + n - 1 PROVE mem[t + (a - s)] = mem[a]
    <3>1. a - s \in 0 .. n - 1 /\ s + (a - s) = a
      BY <2>1
    <3>2. mem[s + (a - s)] = mem[t + (a - s)]
      BY <1>2, <3>1
    <3> QED BY <3>1, <3>2
  <2> QED BY <2>1 DEF Whole, Part, Memory
<1>3. ASSUME Whole(m, mem, s, t, n) = mem, NEW i \in 0 .. n - 1 PROVE mem[s + i] = mem[t + i]
  <2>1. s + i \in 0 .. m /\ s + i \in s + 0 .. s + n - 1 /\ t + ((s + i) - s) = t + i
    OBVIOUS
  <2>2. Whole(m, mem, s, t, n)[s + i] = mem[t + i]
    BY <2>1 DEF Whole, Part
  <2> QED BY <1>3, <2>2
<1>4. Whole(m, mem, s, t, n) = mem <=> SameBlock(mem, s, t, n)
  BY <1>2, <1>3 DEF SameBlock
<1>5. memcmp(mem, s, t, n) = 0 <=> SameBlock(mem, s, t, n)
  BY CompareIs
<1> QED BY <1>1, <1>4, <1>5

\* Two strings are equal to strcmp when they are the same up to a terminator.
SameString(a, b, m) ==
  \E stop \in 0 .. m : /\ a[stop] = NUL /\ b[stop] = NUL
                       /\ \A i \in 0 .. stop - 1 : a[i] = b[i] /\ a[i] # NUL

LEMMA StrcmpZero ==
  ASSUME NEW m \in Nat, NEW a \in [0 .. m -> 0 .. 255], NEW b \in [0 .. m -> 0 .. 255],
         NEW e \in 0 .. m, a[e] = NUL
  PROVE  strcmp(a, b) = 0 <=> SameString(a, b, m)
<1> DEFINE D == {i \in DOMAIN a : a[i] = NUL \/ a[i] # b[i]}
           stop == Min(D)
<1>1. D \in SUBSET Nat /\ D \subseteq 0 .. m /\ e \in D
  OBVIOUS
<1>2. stop \in D /\ \A i \in D : stop <= i
  <2> HIDE DEF D
  <2> QED BY <1>1, MinExists
<1>3. strcmp(a, b) = a[stop] - b[stop]
  BY DEF strcmp
<1>4. /\ stop \in 0 .. m /\ (a[stop] = NUL \/ a[stop] # b[stop])
      /\ a[stop] \in 0 .. 255 /\ b[stop] \in 0 .. 255
  <2> HIDE DEF stop
  <2>1. stop \in 0 .. m
    BY <1>1, <1>2
  <2>2. a[stop] = NUL \/ a[stop] # b[stop]
    BY <1>2
  <2> HIDE DEF D
  <2> QED BY <2>1, <2>2
<1>5. \A i \in 0 .. stop - 1 : a[i] = b[i] /\ a[i] # NUL
  <2> SUFFICES ASSUME NEW i \in 0 .. stop - 1 PROVE a[i] = b[i] /\ a[i] # NUL
    OBVIOUS
  <2>1. i \in 0 .. m /\ ~(stop <= i)
    <3> HIDE DEF stop
    <3> QED BY <1>4
  <2>2. i \notin D
    BY <1>2, <2>1
  <2> QED BY <2>1, <2>2
<1>6. ASSUME strcmp(a, b) = 0 PROVE SameString(a, b, m)
  <2>1. a[stop] = b[stop]
    <3> HIDE DEF stop
    <3>1. PICK x, y \in 0 .. 255 : x = a[stop] /\ y = b[stop] /\ x - y = 0
      BY <1>3, <1>4, <1>6
    <3> QED BY <3>1
  <2> QED BY <1>4, <1>5, <2>1 DEF SameString
<1>7. ASSUME SameString(a, b, m) PROVE strcmp(a, b) = 0
  <2>1. PICK s \in 0 .. m : a[s] = NUL /\ b[s] = NUL /\ \A i \in 0 .. s - 1 : a[i] = b[i] /\ a[i] # NUL
    BY <1>7 DEF SameString
  <2>2. s \in D
    BY <2>1
  <2>3. stop <= s
    BY <1>2, <2>2
  <2>4. ~(stop < s)
    <3> SUFFICES ASSUME stop < s PROVE FALSE
      OBVIOUS
    <3> HIDE DEF stop
    <3>1. stop \in 0 .. s - 1
      BY <1>4
    <3> QED BY <1>4, <2>1, <3>1
  <2>5. stop = s
    <3> HIDE DEF stop
    <3> QED BY <1>4, <2>3, <2>4
  <2> HIDE DEF stop
  <2> QED BY <1>3, <2>1, <2>5 DEF NUL
<1> QED BY <1>6, <1>7

LEMMA SameStringSymmetric ==
  ASSUME NEW a, NEW b, NEW m
  PROVE  SameString(a, b, m) <=> SameString(b, a, m)
<1>1. ASSUME NEW x, NEW y, SameString(x, y, m) PROVE SameString(y, x, m)
  <2>1. PICK stop \in 0 .. m : /\ x[stop] = NUL /\ y[stop] = NUL
                               /\ \A i \in 0 .. stop - 1 : x[i] = y[i] /\ x[i] # NUL
    BY <1>1 DEF SameString
  <2>2. \A i \in 0 .. stop - 1 : y[i] = x[i] /\ y[i] # NUL
    BY <2>1
  <2> QED BY <2>1, <2>2 DEF SameString
<1> QED BY <1>1

-----------------------------------------------------------------------------
(* kputhex.                                                                  *)

\* The k-th of the four nibbles of a value, the most significant first, and what kputhex
\* makes of it.
Nibble(value, k) == (value \div 16^(4 - k)) % 16
Digit(value, out, k) ==
  IF out = <<>> /\ Nibble(value, k) = 0 /\ k # 4 THEN out ELSE Append(out, Nibble(value, k))

FourNibbles(value, n1, n2, n3, n4) == value = 4096 * n1 + 256 * n2 + 16 * n3 + n4

LEMMA NibblesAre ==
  ASSUME NEW value \in Nat, NEW n1 \in 0 .. 15, NEW n2 \in 0 .. 15, NEW n3 \in 0 .. 15, NEW n4 \in 0 .. 15,
         FourNibbles(value, n1, n2, n3, n4)
  PROVE  /\ Nibble(value, 1) = n1 /\ Nibble(value, 2) = n2
         /\ Nibble(value, 3) = n3 /\ Nibble(value, 4) = n4
<1>0. \A q \in Int, r \in 0 .. 15 : (16 * q + r) % 16 = r
  OBVIOUS
<1> USE DEF FourNibbles
<1>1. Nibble(value, 1) = n1
  <2>1. 16^(4 - 1) = 4096
    OBVIOUS
  <2>2. value \div 4096 = n1
    OBVIOUS
  <2>3. n1 % 16 = n1
    OBVIOUS
  <2> QED BY <2>1, <2>2, <2>3 DEF Nibble
<1>2. Nibble(value, 2) = n2
  <2>1. 16^(4 - 2) = 256
    OBVIOUS
  <2>2. value \div 256 = 16 * n1 + n2
    OBVIOUS
  <2>3. (16 * n1 + n2) % 16 = n2
    BY <1>0
  <2> QED BY <2>1, <2>2, <2>3 DEF Nibble
<1>3. Nibble(value, 3) = n3
  <2>1. 16^(4 - 3) = 16
    OBVIOUS
  <2>2. value \div 16 = 16 * (16 * n1 + n2) + n3
    OBVIOUS
  <2>3. 16 * n1 + n2 \in Int
    OBVIOUS
  <2>4. (16 * (16 * n1 + n2) + n3) % 16 = n3
    BY <1>0, <2>3
  <2> QED BY <2>1, <2>2, <2>4 DEF Nibble
<1>4. Nibble(value, 4) = n4
  <2>1. 16^(4 - 4) = 1
    OBVIOUS
  <2>2. value \div 1 = 16 * (256 * n1 + 16 * n2 + n3) + n4
    OBVIOUS
  <2>3. 256 * n1 + 16 * n2 + n3 \in Int
    OBVIOUS
  <2>4. (16 * (256 * n1 + 16 * n2 + n3) + n4) % 16 = n4
    BY <1>0, <2>3
  <2> QED BY <2>1, <2>2, <2>4 DEF Nibble
<1> QED BY <1>1, <1>2, <1>3, <1>4

LEMMA HexFold ==
  ASSUME NEW value \in Nat, \A k \in 1 .. 4 : Nibble(value, k) \in Nat
  PROVE  kputhex(value, 4)
           = Digit(value, Digit(value, Digit(value, Digit(value, <<>>, 1), 2), 3), 4)
<1> DEFINE n == 4
           V == Seq(Nat)
           l == [k \in 1 .. 4 |-> k]
           Step(v, k) == Digit(value, v, k)
           it == CHOOSE iter : iter = [s \in SUBSET DOMAIN l |->
                   IF s = {} THEN <<>> ELSE Step(iter[s \ {Max(s)}], l[Max(s)])]
           F == [p \in V \X (1 .. n) |-> Step(p[1], p[2])]
<1>1. kputhex(value, 4) = it[DOMAIN l]
  BY DEF kputhex, Digit, Nibble, FoldLeft, MapThenFoldSet
<1>2. DOMAIN l = 1 .. n /\ \A k \in 1 .. n : l[k] = k
  OBVIOUS
<1>a. \A k \in 1 .. n, v \in V : Step(v, k) \in V
  BY DEF Digit
<1>b. <<>> \in V /\ n \in Nat
  OBVIOUS
<1>3. \A k \in 1 .. n, v \in V : F[<<v, k>>] = Step(v, k) /\ F[<<v, k>>] \in V
  <2> HIDE DEF Step
  <2> QED BY <1>a
<1> HIDE DEF F, Step, l, n, V
<1>4. PICK g : FoldOf(n, V, <<>>, F, g)
  BY <1>3, <1>b, FoldExists
<1>5. ASSUME NEW s \in SUBSET (1 .. n), s # {}
      PROVE  g[s] = Step(g[s \ {Max(s)}], l[Max(s)])
  <2>1. Max(s) \in s
    BY <1>5, <1>b, FiniteMax
  <2>2. g[s] = F[<<g[s \ {Max(s)}], Max(s)>>] /\ g[s \ {Max(s)}] \in V
    BY <1>4, <1>5 DEF FoldOf
  <2> QED BY <1>2, <1>3, <2>1, <2>2
<1>6. g = [s \in SUBSET (1 .. n) |-> g[s]] /\ g[{}] = <<>>
  BY <1>4 DEF FoldOf
<1>7. g = [s \in SUBSET (1 .. n) |-> IF s = {} THEN <<>> ELSE Step(g[s \ {Max(s)}], l[Max(s)])]
  BY <1>5, <1>6
<1>8. it = [s \in SUBSET (1 .. n) |-> IF s = {} THEN <<>> ELSE Step(it[s \ {Max(s)}], l[Max(s)])]
  BY <1>2, <1>7
<1> HIDE DEF it
<1>9. it[{}] = <<>>
  BY <1>8
<1>10. FoldsInto(n, V, <<>>, F, it)
  <2>1. ASSUME NEW s \in SUBSET (1 .. n), s # {}, it[s \ {Max(s)}] \in V
        PROVE  it[s] = F[<<it[s \ {Max(s)}], Max(s)>>]
    <3>1. Max(s) \in 1 .. n
      BY <2>1, <1>b, FiniteMax
    <3>2. it[s] = Step(it[s \ {Max(s)}], l[Max(s)])
      BY <1>8, <2>1
    <3>3. l[Max(s)] = Max(s) /\ F[<<it[s \ {Max(s)}], Max(s)>>] = Step(it[s \ {Max(s)}], Max(s))
      BY <1>2, <1>3, <2>1, <3>1
    <3> QED BY <3>2, <3>3
  <2> QED BY <1>9, <2>1 DEF FoldsInto
<1>11. PICK path : PathOf(n, V, <<>>, F, it, path)
  BY <1>3, <1>10, <1>b, FoldSteps
<1>12. PICK h \in [0 .. n -> V] :
         h[0] = <<>> /\ (\A k \in 1 .. n : h[k] = F[<<h[k - 1], k>>]) /\ h[n] = it[1 .. n]
  BY <1>11 DEF PathOf
<1>13. \A k \in 1 .. n : h[k] = Step(h[k - 1], k)
  <2> SUFFICES ASSUME NEW k \in 1 .. n PROVE h[k] = Step(h[k - 1], k)
    OBVIOUS
  <2>1. k - 1 \in 0 .. n
    BY DEF n
  <2> QED BY <1>3, <1>12, <2>1
<1>14. h[1] = Step(h[0], 1) /\ h[2] = Step(h[1], 2) /\ h[3] = Step(h[2], 3) /\ h[4] = Step(h[3], 4)
  BY <1>13 DEF n
<1> QED BY <1>1, <1>2, <1>12, <1>14 DEF n, Step

\* Sequences written out.
LEMMA Pair ==
  ASSUME NEW a \in Nat, NEW b \in Nat
  PROVE  Append(<<a>>, b) = <<a, b>> /\ <<a>> # <<>>
<1> DEFINE s == Append(<<a>>, b)
           t == <<a, b>>
<1>1. s \in Seq(Nat) /\ Len(s) = 2 /\ s[1] = a /\ s[2] = b
  OBVIOUS
<1>2. t \in Seq(Nat) /\ Len(t) = 2 /\ t[1] = a /\ t[2] = b
  OBVIOUS
<1>3. \A i \in 1 .. 2 : i = 1 \/ i = 2
  OBVIOUS
<1> HIDE DEF s, t
<1>4. s = t
  BY <1>1, <1>2, <1>3, SeqEqual
<1>5. <<a>> # <<>>
  OBVIOUS
<1> QED BY <1>4, <1>5 DEF s, t

LEMMA Triple ==
  ASSUME NEW a \in Nat, NEW b \in Nat, NEW c \in Nat
  PROVE  Append(<<a, b>>, c) = <<a, b, c>> /\ <<a, b>> # <<>>
<1> DEFINE s == Append(<<a, b>>, c)
           t == <<a, b, c>>
<1>1. s \in Seq(Nat) /\ Len(s) = 3 /\ s[1] = a /\ s[2] = b /\ s[3] = c
  OBVIOUS
<1>2. t \in Seq(Nat) /\ Len(t) = 3 /\ t[1] = a /\ t[2] = b /\ t[3] = c
  OBVIOUS
<1>3. \A i \in 1 .. 3 : i = 1 \/ i = 2 \/ i = 3
  OBVIOUS
<1> HIDE DEF s, t
<1>4. s = t
  BY <1>1, <1>2, <1>3, SeqEqual
<1>5. <<a, b>> # <<>>
  OBVIOUS
<1> QED BY <1>4, <1>5 DEF s, t

LEMMA Quadruple ==
  ASSUME NEW a \in Nat, NEW b \in Nat, NEW c \in Nat, NEW d \in Nat
  PROVE  Append(<<a, b, c>>, d) = <<a, b, c, d>> /\ <<a, b, c>> # <<>>
<1> DEFINE s == Append(<<a, b, c>>, d)
           t == <<a, b, c, d>>
<1>1. s \in Seq(Nat) /\ Len(s) = 4 /\ s[1] = a /\ s[2] = b /\ s[3] = c /\ s[4] = d
  OBVIOUS
<1>2. t \in Seq(Nat) /\ Len(t) = 4 /\ t[1] = a /\ t[2] = b /\ t[3] = c /\ t[4] = d
  OBVIOUS
<1>3. \A i \in 1 .. 4 : i = 1 \/ i = 2 \/ i = 3 \/ i = 4
  OBVIOUS
<1> HIDE DEF s, t
<1>4. s = t
  BY <1>1, <1>2, <1>3, SeqEqual
<1>5. <<a, b, c>> # <<>>
  OBVIOUS
<1> QED BY <1>4, <1>5 DEF s, t

LEMMA DigitMore ==
  ASSUME NEW value, NEW k, NEW out, out # <<>>
  PROVE  Digit(value, out, k) = Append(out, Nibble(value, k))
BY DEF Digit

\* The nibbles from the first that is not 0 on, and the last in any case.
DigitsOf(n1, n2, n3, n4) ==
  IF n1 # 0 THEN <<n1, n2, n3, n4>>
  ELSE IF n2 # 0 THEN <<n2, n3, n4>>
  ELSE IF n3 # 0 THEN <<n3, n4>> ELSE <<n4>>

\* They are what kputhex writes.
LEMMA DigitsAre ==
  ASSUME NEW value \in Nat, NEW n1 \in 0 .. 15, NEW n2 \in 0 .. 15, NEW n3 \in 0 .. 15, NEW n4 \in 0 .. 15,
         FourNibbles(value, n1, n2, n3, n4)
  PROVE  kputhex(value, 4) = DigitsOf(n1, n2, n3, n4)
<1>1. /\ Nibble(value, 1) = n1 /\ Nibble(value, 2) = n2
      /\ Nibble(value, 3) = n3 /\ Nibble(value, 4) = n4
  BY NibblesAre
<1>a. n1 \in Nat /\ n2 \in Nat /\ n3 \in Nat /\ n4 \in Nat
  OBVIOUS
<1>2. \A k \in 1 .. 4 : Nibble(value, k) \in Nat
  <2>1. \A k \in 1 .. 4 : k = 1 \/ k = 2 \/ k = 3 \/ k = 4
    OBVIOUS
  <2> QED BY <1>1, <2>1
<1>3. kputhex(value, 4) = Digit(value, Digit(value, Digit(value, Digit(value, <<>>, 1), 2), 3), 4)
  BY <1>2, HexFold
<1>5. CASE n1 # 0
  <2>1. Digit(value, <<>>, 1) = <<n1>>
    BY <1>1, <1>5 DEF Digit
  <2>2. Digit(value, <<n1>>, 2) = <<n1, n2>>
    <3>1. Append(<<n1>>, n2) = <<n1, n2>> /\ <<n1>> # <<>>
      BY <1>a, Pair
    <3>2. Digit(value, <<n1>>, 2) = Append(<<n1>>, Nibble(value, 2))
      BY <3>1, DigitMore
    <3> QED BY <1>1, <3>1, <3>2
  <2>3. Digit(value, <<n1, n2>>, 3) = <<n1, n2, n3>>
    <3>1. Append(<<n1, n2>>, n3) = <<n1, n2, n3>> /\ <<n1, n2>> # <<>>
      BY <1>a, Triple
    <3>2. Digit(value, <<n1, n2>>, 3) = Append(<<n1, n2>>, Nibble(value, 3))
      BY <3>1, DigitMore
    <3> QED BY <1>1, <3>1, <3>2
  <2>4. Digit(value, <<n1, n2, n3>>, 4) = <<n1, n2, n3, n4>>
    <3>1. Append(<<n1, n2, n3>>, n4) = <<n1, n2, n3, n4>> /\ <<n1, n2, n3>> # <<>>
      BY <1>a, Quadruple
    <3>2. Digit(value, <<n1, n2, n3>>, 4) = Append(<<n1, n2, n3>>, Nibble(value, 4))
      BY <3>1, DigitMore
    <3> QED BY <1>1, <3>1, <3>2
  <2> QED BY <1>3, <1>5, <2>1, <2>2, <2>3, <2>4 DEF DigitsOf
<1>6. CASE n1 = 0 /\ n2 # 0
  <2>1. Digit(value, <<>>, 1) = <<>>
    BY <1>1, <1>6 DEF Digit
  <2>2. Digit(value, <<>>, 2) = <<n2>>
    BY <1>1, <1>6 DEF Digit
  <2>3. Digit(value, <<n2>>, 3) = <<n2, n3>>
    <3>1. Append(<<n2>>, n3) = <<n2, n3>> /\ <<n2>> # <<>>
      BY <1>a, Pair
    <3>2. Digit(value, <<n2>>, 3) = Append(<<n2>>, Nibble(value, 3))
      BY <3>1, DigitMore
    <3> QED BY <1>1, <3>1, <3>2
  <2>4. Digit(value, <<n2, n3>>, 4) = <<n2, n3, n4>>
    <3>1. Append(<<n2, n3>>, n4) = <<n2, n3, n4>> /\ <<n2, n3>> # <<>>
      BY <1>a, Triple
    <3>2. Digit(value, <<n2, n3>>, 4) = Append(<<n2, n3>>, Nibble(value, 4))
      BY <3>1, DigitMore
    <3> QED BY <1>1, <3>1, <3>2
  <2> QED BY <1>3, <1>6, <2>1, <2>2, <2>3, <2>4 DEF DigitsOf
<1>7. CASE n1 = 0 /\ n2 = 0 /\ n3 # 0
  <2>1. Digit(value, <<>>, 1) = <<>>
    BY <1>1, <1>7 DEF Digit
  <2>2. Digit(value, <<>>, 2) = <<>>
    BY <1>1, <1>7 DEF Digit
  <2>3. Digit(value, <<>>, 3) = <<n3>>
    BY <1>1, <1>7 DEF Digit
  <2>4. Digit(value, <<n3>>, 4) = <<n3, n4>>
    <3>1. Append(<<n3>>, n4) = <<n3, n4>> /\ <<n3>> # <<>>
      BY <1>a, Pair
    <3>2. Digit(value, <<n3>>, 4) = Append(<<n3>>, Nibble(value, 4))
      BY <3>1, DigitMore
    <3> QED BY <1>1, <3>1, <3>2
  <2> QED BY <1>3, <1>7, <2>1, <2>2, <2>3, <2>4 DEF DigitsOf
<1>8. CASE n1 = 0 /\ n2 = 0 /\ n3 = 0
  <2>1. Digit(value, <<>>, 1) = <<>>
    BY <1>1, <1>8 DEF Digit
  <2>2. Digit(value, <<>>, 2) = <<>>
    BY <1>1, <1>8 DEF Digit
  <2>3. Digit(value, <<>>, 3) = <<>>
    BY <1>1, <1>8 DEF Digit
  <2>4. Digit(value, <<>>, 4) = <<n4>>
    BY <1>1, <1>8 DEF Digit
  <2> QED BY <1>3, <1>8, <2>1, <2>2, <2>3, <2>4 DEF DigitsOf
<1> QED BY <1>5, <1>6, <1>7, <1>8
=============================================================================
