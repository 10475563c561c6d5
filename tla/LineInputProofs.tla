--------------------------- MODULE LineInputProofs ----------------------------
(* The command buffer of LineInput for any keys, words and length of line.   *)
EXTENDS LineInput, BytesProofs

LEMMA Bounds == max_len \in Nat \ {0} /\ Keys \subseteq 1 .. 255
BY LineInputAssumption

LEMMA KeyTaken ==
  ASSUME BufferTyped, ClearBehindIndex, NEW key \in Keys,
         Erase(key) \/ Store(key) \/ Full(key) \/ Enter(key)
  PROVE  BufferTyped' /\ ClearBehindIndex'
<1> USE Bounds DEF BufferTyped, ClearBehindIndex, NUL
<1>1. CASE Erase(key)
  BY <1>1 DEF Erase, Rubout
<1>2. CASE Store(key)
  <2>1. /\ index < max_len /\ index' = index + 1
        /\ buffer' = [buffer EXCEPT ![index] = key, ![index + 1] = 0]
    BY <1>2 DEF Store
  <2>2. buffer' \in [0 .. max_len -> 0 .. 255] /\ index' \in 0 .. max_len
    <3>1. key \in 0 .. 255 /\ 0 \in 0 .. 255
      OBVIOUS
    <3> DEFINE stored == [buffer EXCEPT ![index] = key]
    <3>2. stored \in [0 .. max_len -> 0 .. 255]
      BY <2>1, <3>1
    <3>3. buffer' = [stored EXCEPT ![index + 1] = 0] /\ index + 1 \in 0 .. max_len
      BY <2>1
    <3> HIDE DEF stored
    <3>4. buffer' \in [0 .. max_len -> 0 .. 255]
      BY <3>1, <3>2, <3>3
    <3> QED BY <2>1, <3>3, <3>4
  <2>3. ASSUME NEW i \in index' .. max_len PROVE buffer'[i] = 0
    <3>1. i \in 0 .. max_len /\ index + 1 \in 0 .. max_len /\ i > index
      BY <2>1, <2>3
    <3>2. CASE i = index + 1
      BY <2>1, <3>1, <3>2
    <3>3. CASE i > index + 1
      <4>1. buffer[i] = 0 /\ i # index /\ i # index + 1
        BY <3>1, <3>3
      <4> QED BY <2>1, <3>1, <4>1
    <3> QED BY <2>1, <2>3, <3>2, <3>3
  <2> QED BY <2>2, <2>3
<1>3. CASE Full(key)
  BY <1>3 DEF Full, vars
<1>4. CASE Enter(key)
  <2>1. buffer' = [buffer EXCEPT ![index] = 0] /\ index' = index
    BY <1>4 DEF Enter
  <2>2. buffer' = buffer
    BY <2>1
  <2> QED BY <2>1, <2>2
<1> QED BY <1>1, <1>2, <1>3, <1>4

\* However the line is typed, corrected, filled to its last character and entered, the
\* terminator and all behind it are 0, the byte past the array included.
THEOREM LineTerminated == Spec => [](BufferTyped /\ ClearBehindIndex)
<1>1. Init => BufferTyped /\ ClearBehindIndex
  BY Bounds DEF Init, BufferTyped, ClearBehindIndex, NUL
<1>2. BufferTyped /\ ClearBehindIndex /\ [Next]_vars => (BufferTyped /\ ClearBehindIndex)'
  <2> SUFFICES ASSUME BufferTyped, ClearBehindIndex, [Next]_vars
               PROVE  BufferTyped' /\ ClearBehindIndex'
    OBVIOUS
  <2>1. CASE serial_read_str
    BY <2>1, KeyTaken DEF serial_read_str
  <2>2. CASE Reset
    BY <2>2, Bounds DEF Reset, memset, NUL, BufferTyped, ClearBehindIndex
  <2>3. CASE UNCHANGED vars
    BY <2>3 DEF vars, BufferTyped, ClearBehindIndex
  <2> QED BY <2>1, <2>2, <2>3 DEF Next
<1> QED BY <1>1, <1>2, PTL DEF Spec

-----------------------------------------------------------------------------
(* The terminal.                                                             *)

Cell == 1 .. 255
Screen == {s \in [row : Seq(Cell), column : Nat] : s.column <= Len(s.row)}

LEMMA ScreenTypes ==
  ASSUME NEW s \in Screen
  PROVE  s.row \in Seq(Cell) /\ Len(s.row) \in Nat /\ s.column \in 0 .. Len(s.row)
BY DEF Screen

LEMMA ScreenMade ==
  ASSUME NEW cells \in Seq(Cell), NEW c \in 0 .. Len(cells)
  PROVE  LET s == [row |-> cells, column |-> c] IN s \in Screen /\ s.row = cells /\ s.column = c
BY DEF Screen

\* A backspace moves the column back; any other character is put at it.
LEMMA ShowBackspace ==
  ASSUME NEW s \in Screen
  PROVE  /\ Show(s, BS) \in Screen /\ Show(s, BS).row = s.row
         /\ Show(s, BS).column = IF s.column > 0 THEN s.column - 1 ELSE 0
<1> DEFINE c == IF s.column > 0 THEN s.column - 1 ELSE 0
           new == [row |-> s.row, column |-> c]
<1>1. s.row \in Seq(Cell) /\ Len(s.row) \in Nat /\ s.column \in 0 .. Len(s.row)
  BY ScreenTypes
<1>2. Show(s, BS) = new
  BY <1>1 DEF Show, Screen
<1>3. c \in 0 .. Len(s.row)
  BY <1>1
<1> HIDE DEF c
<1>4. new \in Screen /\ new.row = s.row /\ new.column = c
  BY <1>1, <1>3, ScreenMade
<1> HIDE DEF new
<1> QED BY <1>2, <1>4 DEF c

LEMMA ShowOther ==
  ASSUME NEW s \in Screen, NEW c \in Cell, c # BS
  PROVE  /\ Show(s, c) \in Screen /\ Show(s, c).column = s.column + 1
         /\ Len(Show(s, c).row) = IF s.column < Len(s.row) THEN Len(s.row) ELSE s.column + 1
         /\ \A k \in 1 .. Len(Show(s, c).row) :
              Show(s, c).row[k] = IF k = s.column + 1 THEN c ELSE s.row[k]
<1>1. PICK n, m \in Nat : n = Len(s.row) /\ m = s.column /\ m <= n /\ s.row \in Seq(Cell)
  BY ScreenTypes
<1> DEFINE top == IF m < n THEN n ELSE m + 1
           cells == [k \in 1 .. top |-> IF k = m + 1 THEN c ELSE s.row[k]]
<1>2. Max({n, m + 1}) = top
  <2>1. {n, m + 1} \in SUBSET Int /\ top \in {n, m + 1} /\ \A y \in {n, m + 1} : y <= top
    BY <1>1
  <2> HIDE DEF top
  <2> QED BY <2>1, MaxIs
<1>3. Show(s, c) = [row |-> cells, column |-> m + 1]
  <2> HIDE DEF top
  <2> QED BY <1>1, <1>2 DEF Show
<1>4. \A k \in 1 .. top : k = m + 1 \/ k \in 1 .. n
  BY <1>1
<1>5. top \in Nat /\ m + 1 \in 0 .. top
  BY <1>1
<1> HIDE DEF top
<1>6. \A k \in 1 .. top : (IF k = m + 1 THEN c ELSE s.row[k]) \in Cell
  BY <1>1, <1>4
<1>7. /\ cells \in Seq(Cell) /\ Len(cells) = top
      /\ \A k \in 1 .. top : cells[k] = IF k = m + 1 THEN c ELSE s.row[k]
  BY <1>5, <1>6
<1> HIDE DEF cells
<1>8. PICK d \in 0 .. Len(cells) : d = m + 1
  BY <1>5, <1>7
<1>9. Show(s, c) \in Screen /\ Show(s, c).row = cells /\ Show(s, c).column = m + 1
  BY <1>3, <1>7, <1>8, ScreenMade
<1> QED BY <1>1, <1>7, <1>9 DEF top

LEMMA ShowTyped ==
  ASSUME NEW s \in Screen, NEW c \in Cell
  PROVE  Show(s, c) \in Screen
BY ShowBackspace, ShowOther

\* serial_write's fold, character by character.
LEMMA ShowFold ==
  ASSUME NEW base \in Screen, NEW l \in Seq(Cell)
  PROVE  \E h \in [0 .. Len(l) -> Screen] :
           /\ h[0] = base
           /\ \A k \in 1 .. Len(l) : h[k] = Show(h[k - 1], l[k])
           /\ FoldLeft(Show, base, l) = h[Len(l)]
<1>0. PICK n \in Nat : n = Len(l)
  OBVIOUS
<1> DEFINE it == CHOOSE iter : iter = [s \in SUBSET DOMAIN l |->
                   IF s = {} THEN base ELSE Show(iter[s \ {Max(s)}], l[Max(s)])]
           F == [p \in Screen \X (1 .. n) |-> Show(p[1], l[p[2]])]
<1>1. FoldLeft(Show, base, l) = it[DOMAIN l]
  BY DEF FoldLeft, MapThenFoldSet
<1>2. n \in Nat /\ DOMAIN l = 1 .. n /\ \A k \in 1 .. n : l[k] \in Cell
  BY <1>0
<1>3. \A k \in 1 .. n, v \in Screen : F[<<v, k>>] = Show(v, l[k]) /\ F[<<v, k>>] \in Screen
  BY <1>2, ShowTyped
<1> HIDE DEF F
<1>4. PICK g : FoldOf(n, Screen, base, F, g)
  BY <1>3, FoldExists
<1>5. ASSUME NEW s \in SUBSET (1 .. n), s # {}
      PROVE  g[s] = Show(g[s \ {Max(s)}], l[Max(s)])
  <2>1. Max(s) \in s
    BY <1>5, FiniteMax
  <2>2. g[s] = F[<<g[s \ {Max(s)}], Max(s)>>] /\ g[s \ {Max(s)}] \in Screen
    BY <1>4, <1>5 DEF FoldOf
  <2> QED BY <1>3, <2>1, <2>2
<1>6. g = [s \in SUBSET (1 .. n) |-> g[s]] /\ g[{}] = base
  BY <1>4 DEF FoldOf
<1>7. g = [s \in SUBSET (1 .. n) |-> IF s = {} THEN base ELSE Show(g[s \ {Max(s)}], l[Max(s)])]
  BY <1>5, <1>6
<1>8. it = [s \in SUBSET (1 .. n) |-> IF s = {} THEN base ELSE Show(it[s \ {Max(s)}], l[Max(s)])]
  BY <1>2, <1>7
<1> HIDE DEF it
<1>9. it[{}] = base
  BY <1>8
<1>10. FoldsInto(n, Screen, base, F, it)
  <2>1. ASSUME NEW s \in SUBSET (1 .. n), s # {}, it[s \ {Max(s)}] \in Screen
        PROVE  it[s] = F[<<it[s \ {Max(s)}], Max(s)>>]
    <3>1. Max(s) \in 1 .. n
      BY <2>1, FiniteMax
    <3> QED BY <1>3, <1>8, <2>1, <3>1
  <2> QED BY <1>9, <2>1 DEF FoldsInto
<1>11. PICK path : PathOf(n, Screen, base, F, it, path)
  BY <1>3, <1>10, FoldSteps
<1>12. PICK h \in [0 .. n -> Screen] :
         h[0] = base /\ (\A k \in 1 .. n : h[k] = F[<<h[k - 1], k>>]) /\ h[n] = it[1 .. n]
  BY <1>11 DEF PathOf
<1>13. \A k \in 1 .. n : h[k] = Show(h[k - 1], l[k])
  <2> SUFFICES ASSUME NEW k \in 1 .. n PROVE h[k] = Show(h[k - 1], l[k])
    OBVIOUS
  <2>1. h[k - 1] \in Screen
    BY <1>12
  <2> QED BY <1>3, <1>12, <2>1
<1> QED BY <1>0, <1>1, <1>2, <1>12, <1>13

LEMMA ShowOne ==
  ASSUME NEW s \in Screen, NEW c \in Cell
  PROVE  FoldLeft(Show, s, <<c>>) = Show(s, c)
<1> DEFINE l == <<c>>
<1>1. l \in Seq(Cell) /\ Len(l) = 1 /\ l[1] = c
  OBVIOUS
<1> HIDE DEF l
<1>2. PICK h \in [0 .. Len(l) -> Screen] :
           /\ h[0] = s
           /\ \A k \in 1 .. Len(l) : h[k] = Show(h[k - 1], l[k])
           /\ FoldLeft(Show, s, l) = h[Len(l)]
  BY <1>1, ShowFold
<1>3. 1 \in 1 .. Len(l) /\ 1 - 1 = 0
  BY <1>1
<1> QED BY <1>1, <1>2, <1>3 DEF l

LEMMA ShowThree ==
  ASSUME NEW s \in Screen, NEW c \in Cell, NEW d \in Cell, NEW e \in Cell
  PROVE  FoldLeft(Show, s, <<c, d, e>>) = Show(Show(Show(s, c), d), e)
<1> DEFINE l == <<c, d, e>>
<1>1. l \in Seq(Cell) /\ Len(l) = 3 /\ l[1] = c /\ l[2] = d /\ l[3] = e
  OBVIOUS
<1> HIDE DEF l
<1>2. PICK h \in [0 .. Len(l) -> Screen] :
           /\ h[0] = s
           /\ \A k \in 1 .. Len(l) : h[k] = Show(h[k - 1], l[k])
           /\ FoldLeft(Show, s, l) = h[Len(l)]
  BY <1>1, ShowFold
<1>3. /\ 1 \in 1 .. Len(l) /\ 2 \in 1 .. Len(l) /\ 3 \in 1 .. Len(l)
      /\ 1 - 1 = 0 /\ 2 - 1 = 1 /\ 3 - 1 = 2
  BY <1>1
<1>4. h[1] = Show(s, c) /\ h[2] = Show(h[1], d) /\ h[3] = Show(h[2], e)
  BY <1>1, <1>2, <1>3
<1> QED BY <1>1, <1>2, <1>4 DEF l

-----------------------------------------------------------------------------
(* What the terminal shows is what is in the buffer.                         *)

LEMMA Written ==
  ASSUME LineIInv, NEW l \in Seq(Cell), serial_write(l), NEW s \in Screen,
         FoldLeft(Show, [row |-> row, column |-> column], l) = s
  PROVE  /\ row' = s.row /\ column' = s.column
         /\ row' \in Seq(1 .. 255) /\ column' \in 0 .. Len(row')
BY ScreenTypes DEF serial_write, Cell

LEMMA NowOnScreen ==
  ASSUME LineIInv
  PROVE  \E s \in Screen : s = [row |-> row, column |-> column] /\ s.row = row /\ s.column = column
BY ScreenMade DEF LineIInv, Cell

LEMMA BufferKept ==
  ASSUME LineIInv, NEW key \in Keys, Erase(key) \/ Store(key) \/ Full(key) \/ Enter(key)
  PROVE  BufferTyped' /\ ClearBehindIndex'
BY KeyTaken DEF LineIInv

\* Rubbing out: the last cell becomes blank and the column stands on it.
LEMMA EraseKeeps ==
  ASSUME LineIInv, NEW key \in Keys, reading, Erase(key)
  PROVE  LineIInv'
<1>1. /\ index > 0 /\ serial_write(<<BS, SPACE, BS>>) /\ index' = index - 1
      /\ buffer' = [buffer EXCEPT ![index - 1] = NUL]
      /\ UNCHANGED <<reading, entered, backed>>
  BY DEF Erase, Rubout
<1>2. BufferTyped' /\ ClearBehindIndex'
  BY BufferKept
<1>3. PICK s \in Screen : s = [row |-> row, column |-> column] /\ s.row = row /\ s.column = column
  BY NowOnScreen
<1>4. BS \in Cell /\ SPACE \in Cell /\ SPACE # BS /\ <<BS, SPACE, BS>> \in Seq(Cell)
  BY DEF BS, SPACE, Cell
<1>5. PICK u \in Screen : u = Show(s, BS) /\ u.row = row /\ u.column = IF column > 0 THEN column - 1 ELSE 0
  BY <1>3, ShowBackspace
<1>6. PICK v \in Screen :
        /\ v = Show(u, SPACE) /\ v.column = u.column + 1
        /\ Len(v.row) = IF u.column < Len(u.row) THEN Len(u.row) ELSE u.column + 1
        /\ \A k \in 1 .. Len(v.row) : v.row[k] = IF k = u.column + 1 THEN SPACE ELSE u.row[k]
  BY <1>4, ShowOther
<1>7. PICK w \in Screen : w = Show(v, BS) /\ w.row = v.row /\ w.column = IF v.column > 0 THEN v.column - 1 ELSE 0
  BY ShowBackspace
<1>8. row' = w.row /\ column' = w.column /\ row' \in Seq(1 .. 255) /\ column' \in 0 .. Len(row')
  <2>1. PICK c, d \in Cell : c = BS /\ d = SPACE
    BY <1>4
  <2>2. FoldLeft(Show, s, <<c, d, c>>) = Show(Show(Show(s, c), d), c)
    BY ShowThree
  <2>3. FoldLeft(Show, [row |-> row, column |-> column], <<BS, SPACE, BS>>) = w
    BY <1>3, <1>5, <1>6, <1>7, <2>1, <2>2
  <2> QED BY <1>1, <1>4, <2>3, Written
<1>9. /\ index \in 1 .. max_len /\ index' \in 0 .. max_len /\ max_len \in Nat
      /\ \A i \in 0 .. index' - 1 : i \in 0 .. index - 1 /\ buffer'[i] = buffer[i]
  BY <1>1, Bounds DEF LineIInv, BufferTyped
<1>10. \A i \in 0 .. index' - 1 : buffer'[i] # NUL
  BY <1>9 DEF LineIInv
<1>11. ASSUME reading', ~backed'
       PROVE  /\ column' = index' + 1 /\ Shows(row)'
              /\ \A k \in column' + 1 .. Len(row') : row'[k] = SPACE
  <2>1. /\ column = index + 1 /\ Shows(row) /\ \A k \in column + 1 .. Len(row) : row[k] = SPACE
    BY <1>1, <1>11 DEF LineIInv
  <2>2. PICK n \in Nat : n = Len(row) /\ column <= n
    BY <1>3, ScreenTypes
  <2>3. u.column = index /\ v.column = index + 1 /\ w.column = index /\ index < n
    BY <1>5, <1>6, <1>7, <1>9, <2>1, <2>2
  <2>4. Len(row') = n /\ \A k \in 1 .. n : row'[k] = IF k = index + 1 THEN SPACE ELSE row[k]
    BY <1>5, <1>6, <1>7, <1>8, <2>2, <2>3
  <2>5. column' = index' + 1
    BY <1>1, <1>8, <1>9, <2>3
  <2>6. Shows(row)'
    <3>1. Len(row') > index' /\ row'[1] = PROMPT
      <4>1. 1 \in 1 .. n /\ 1 # index + 1 /\ n > index'
        BY <1>1, <1>9, <2>3
      <4> QED BY <2>1, <2>4, <4>1 DEF Shows
    <3>2. ASSUME NEW k \in 1 .. index' PROVE row'[k + 1] = buffer'[k - 1]
      <4>1. k \in 1 .. index /\ k + 1 \in 1 .. n /\ k + 1 # index + 1 /\ k - 1 \in 0 .. index' - 1
        BY <1>1, <1>9, <2>3
      <4>2. row[k + 1] = buffer[k - 1]
        BY <2>1, <4>1 DEF Shows
      <4> QED BY <1>9, <2>4, <4>1, <4>2
    <3> QED BY <3>1, <3>2 DEF Shows
  <2>7. ASSUME NEW k \in column' + 1 .. Len(row') PROVE row'[k] = SPACE
    <3>1. k \in 1 .. n /\ k >= index + 1
      BY <1>1, <1>9, <2>4, <2>5
    <3>2. k # index + 1 => k \in column + 1 .. Len(row)
      BY <1>9, <2>1, <2>2, <3>1
    <3> QED BY <2>1, <2>4, <3>1, <3>2
  <2> QED BY <2>5, <2>6, <2>7
<1>12. reading'
  BY <1>1
<1> QED BY <1>1, <1>2, <1>8, <1>10, <1>11, <1>12 DEF LineIInv

\* A character typed is put at the column and into the buffer.
LEMMA StoreKeeps ==
  ASSUME LineIInv, NEW key \in Keys, reading, Store(key)
  PROVE  LineIInv'
<1>1. /\ Plain(key) /\ index < max_len /\ serial_write(<<key>>) /\ index' = index + 1
      /\ buffer' = [buffer EXCEPT ![index] = key, ![index + 1] = NUL]
      /\ backed' = (backed \/ key \in {BS, DEL})
      /\ UNCHANGED <<reading, entered>>
  BY DEF Store
<1>2. BufferTyped' /\ ClearBehindIndex'
  BY BufferKept
<1>3. PICK s \in Screen : s = [row |-> row, column |-> column] /\ s.row = row /\ s.column = column
  BY NowOnScreen
<1>4. key \in Cell /\ <<key>> \in Seq(Cell)
  BY Bounds DEF Cell
<1>5. PICK v \in Screen : v = Show(s, key)
  BY <1>4, ShowTyped
<1>6. row' = v.row /\ column' = v.column /\ row' \in Seq(1 .. 255) /\ column' \in 0 .. Len(row')
  <2>1. FoldLeft(Show, [row |-> row, column |-> column], <<key>>) = v
    BY <1>3, <1>4, <1>5, ShowOne
  <2> QED BY <1>1, <1>4, <2>1, Written
<1>7. PICK m \in Nat : m = index /\ m + 1 \in 0 .. max_len /\ m \in 0 .. max_len /\ max_len \in Nat
  BY <1>1, Bounds DEF LineIInv, BufferTyped
<1>8. /\ buffer \in [0 .. max_len -> 0 .. 255] /\ buffer'[m] = key
      /\ \A i \in 0 .. m - 1 : buffer'[i] = buffer[i] /\ i \in 0 .. index - 1
  <2>1. buffer \in [0 .. max_len -> 0 .. 255]
    BY DEF LineIInv, BufferTyped
  <2>2. m # m + 1 /\ \A i \in 0 .. m - 1 : i \in 0 .. max_len /\ i # m /\ i # m + 1 /\ i \in 0 .. index - 1
    BY <1>7
  <2>3. buffer' = [buffer EXCEPT ![m] = key, ![m + 1] = NUL]
    BY <1>1, <1>7
  <2> QED BY <1>7, <2>1, <2>2, <2>3
<1>9. \A i \in 0 .. index' - 1 : buffer'[i] # NUL
  <2> SUFFICES ASSUME NEW i \in 0 .. index' - 1 PROVE buffer'[i] # NUL
    OBVIOUS
  <2>1. i = m \/ i \in 0 .. m - 1
    BY <1>1, <1>7
  <2>2. key # NUL
    BY <1>4 DEF Cell, NUL
  <2>3. i \in 0 .. m - 1 => buffer[i] # NUL
    BY <1>8 DEF LineIInv
  <2> QED BY <1>8, <2>1, <2>2, <2>3
<1>10. ASSUME reading', ~backed'
       PROVE  /\ column' = index' + 1 /\ Shows(row)'
              /\ \A k \in column' + 1 .. Len(row') : row'[k] = SPACE
  <2>1. ~backed /\ key # BS
    BY <1>1, <1>10
  <2>2. /\ column = m + 1 /\ Shows(row) /\ \A k \in column + 1 .. Len(row) : row[k] = SPACE
    BY <1>7, <2>1 DEF LineIInv
  <2>3. PICK n \in Nat : n = Len(row) /\ column <= n
    BY <1>3, ScreenTypes
  <2>4. /\ v.column = m + 2 /\ Len(v.row) = IF m + 1 < n THEN n ELSE m + 2
        /\ \A k \in 1 .. Len(v.row) : v.row[k] = IF k = m + 2 THEN key ELSE row[k]
    <3>1. /\ v.column = s.column + 1
          /\ Len(v.row) = IF s.column < Len(s.row) THEN Len(s.row) ELSE s.column + 1
          /\ \A k \in 1 .. Len(v.row) : v.row[k] = IF k = s.column + 1 THEN key ELSE s.row[k]
      BY <1>4, <1>5, <2>1, ShowOther
    <3>2. s.column + 1 = m + 2
      BY <1>3, <2>2
    <3> QED BY <1>3, <2>2, <2>3, <3>1, <3>2
  <2>5. PICK z \in Nat : z = Len(row') /\ z >= m + 2 /\ z >= n /\ (z = n \/ z = m + 2)
    BY <1>6, <2>2, <2>3, <2>4
  <2>6. \A k \in 1 .. z : row'[k] = IF k = m + 2 THEN key ELSE row[k]
    BY <1>6, <2>4, <2>5
  <2>7. column' = index' + 1
    BY <1>1, <1>6, <1>7, <2>4
  <2>8. Shows(row)'
    <3>1. Len(row') > index' /\ row'[1] = PROMPT
      <4>1. 1 \in 1 .. z /\ 1 # m + 2
        BY <2>5
      <4> QED BY <1>1, <1>7, <2>2, <2>5, <2>6, <4>1 DEF Shows
    <3>2. ASSUME NEW k \in 1 .. index' PROVE row'[k + 1] = buffer'[k - 1]
      <4>1. CASE k = m + 1
        <5>1. k + 1 \in 1 .. z /\ k + 1 = m + 2 /\ k - 1 = m
          BY <2>5, <4>1
        <5> QED BY <1>8, <2>6, <5>1
      <4>2. CASE k # m + 1
        <5>1. /\ k \in 1 .. index /\ k + 1 \in 1 .. z /\ k + 1 # m + 2 /\ k - 1 \in 0 .. m - 1
          BY <1>1, <1>7, <2>5, <4>2
        <5>2. row[k + 1] = buffer[k - 1]
          BY <2>2, <5>1 DEF Shows
        <5> QED BY <1>8, <2>6, <5>1, <5>2
      <4> QED BY <4>1, <4>2
    <3> QED BY <3>1, <3>2 DEF Shows
  <2>9. ASSUME NEW k \in column' + 1 .. Len(row') PROVE row'[k] = SPACE
    <3>1. k \in 1 .. z /\ k >= m + 3
      BY <1>1, <1>7, <2>5, <2>7
    <3>2. z = n /\ k # m + 2 /\ k \in column + 1 .. Len(row)
      BY <2>2, <2>3, <2>5, <3>1
    <3> QED BY <2>2, <2>6, <3>1, <3>2
  <2> QED BY <2>7, <2>8, <2>9
<1>11. backed' \in BOOLEAN
  BY <1>1, Zenon DEF LineIInv
<1>12. reading' \in BOOLEAN /\ entered' \in Seq(1 .. 255) /\ reading'
  BY <1>1 DEF LineIInv
<1> QED BY <1>2, <1>6, <1>9, <1>10, <1>11, <1>12 DEF LineIInv

\* What stands before the column is what the line is entered as.
LEMMA EnterKeeps ==
  ASSUME LineIInv, NEW key \in Keys, reading, Enter(key)
  PROVE  LineIInv'
<1>1. /\ entered' = SubSeq(row, 1, column) /\ row' = <<>> /\ column' = 0
      /\ buffer' = [buffer EXCEPT ![index] = NUL] /\ reading' = FALSE
      /\ UNCHANGED <<index, backed>>
  BY DEF Enter
<1>2. BufferTyped' /\ ClearBehindIndex'
  BY BufferKept
<1>3. PICK c \in Nat : c = column /\ c <= Len(row) /\ row \in Seq(1 .. 255)
  BY DEF LineIInv
<1>4. PICK m \in Nat : m = index /\ m \in 0 .. max_len /\ max_len \in Nat
  BY Bounds DEF LineIInv, BufferTyped
<1>5. buffer' = buffer
  <2>1. buffer \in [0 .. max_len -> 0 .. 255] /\ buffer[m] = NUL
    BY <1>4 DEF LineIInv, BufferTyped, ClearBehindIndex
  <2> QED BY <1>1, <1>4, <2>1
<1>6. PICK cells \in Seq(1 .. 255) :
        cells = SubSeq(row, 1, c) /\ Len(cells) = c /\ \A k \in 1 .. c : cells[k] = row[k]
  <2>1. PICK r \in Seq(1 .. 255) : r = row /\ c \in 0 .. Len(r)
    BY <1>3
  <2>2. FrontOf(1 .. 255, r, c, SubSeq(r, 1, c))
    BY <2>1, Halves
  <2>3. PICK cells : cells = SubSeq(row, 1, c) /\ FrontOf(1 .. 255, row, c, cells)
    BY <2>1, <2>2
  <2> QED BY <2>3 DEF FrontOf
<1>7. ASSUME ~backed' PROVE (Shows(entered) /\ Len(entered) = index + 1)'
  <2>1. c = m + 1 /\ Shows(row)
    BY <1>1, <1>3, <1>4, <1>7 DEF LineIInv
  <2>2. entered' = cells /\ index' = m
    BY <1>1, <1>3, <1>4, <1>6
  <2>3. cells[1] = PROMPT /\ \A k \in 1 .. m : cells[k + 1] = buffer[k - 1]
    <3>1. 1 \in 1 .. c /\ \A k \in 1 .. m : k + 1 \in 1 .. c
      BY <2>1
    <3> QED BY <1>4, <1>6, <2>1, <3>1 DEF Shows
  <2> QED BY <1>5, <1>6, <2>1, <2>2, <2>3 DEF Shows
<1>8. \A i \in 0 .. index' - 1 : buffer'[i] # NUL
  BY <1>1, <1>5 DEF LineIInv
<1>9. row' \in Seq(1 .. 255) /\ column' \in 0 .. Len(row') /\ entered' \in Seq(1 .. 255)
  <2>1. <<>> \in Seq(1 .. 255) /\ Len(<<>>) = 0
    OBVIOUS
  <2> QED BY <1>1, <1>3, <1>6, <2>1
<1>10. reading' \in BOOLEAN /\ backed' \in BOOLEAN /\ ~reading'
  BY <1>1, Zenon DEF LineIInv
<1> QED BY <1>2, <1>7, <1>8, <1>9, <1>10 DEF LineIInv

LEMMA ResetKeeps ==
  ASSUME LineIInv, Reset
  PROVE  LineIInv'
<1>1. /\ ~reading /\ buffer' = memset(buffer, 0, NUL, max_len + 1) /\ index' = 0 /\ reading' = TRUE
      /\ row' = <<PROMPT>> /\ column' = 1 /\ backed' = FALSE /\ UNCHANGED entered
  BY DEF Reset
<1>2. BufferTyped' /\ ClearBehindIndex'
  BY <1>1, Bounds DEF memset, NUL, LineIInv, BufferTyped, ClearBehindIndex
<1>3. <<PROMPT>> \in Seq(1 .. 255) /\ Len(<<PROMPT>>) = 1 /\ <<PROMPT>>[1] = PROMPT
  BY DEF PROMPT
<1>4. row' \in Seq(1 .. 255) /\ column' \in 0 .. Len(row') /\ entered' \in Seq(1 .. 255)
  BY <1>1, <1>3 DEF LineIInv
<1>5. Shows(row)' /\ column' = index' + 1 /\ \A k \in column' + 1 .. Len(row') : row'[k] = SPACE
  BY <1>1, <1>3 DEF Shows
<1>6. reading' \in BOOLEAN /\ backed' \in BOOLEAN /\ reading'
  BY <1>1, Zenon
<1>7. \A i \in 0 .. index' - 1 : buffer'[i] # NUL
  BY <1>1
<1> QED BY <1>2, <1>4, <1>5, <1>6, <1>7 DEF LineIInv

\* The inductive invariant of the line: however it is typed and corrected, terminal,
\* buffer and index agree.
THEOREM LineInductive == Spec => []LineIInv
<1>1. Init => LineIInv
  <2> SUFFICES ASSUME Init PROVE LineIInv
    OBVIOUS
  <2>1. BufferTyped /\ ClearBehindIndex
    BY Bounds DEF Init, BufferTyped, ClearBehindIndex, NUL
  <2>2. index = 0 /\ reading = TRUE /\ row = <<PROMPT>> /\ column = 1 /\ entered = <<>> /\ backed = FALSE
    BY DEF Init
  <2>3. <<PROMPT>> \in Seq(1 .. 255) /\ Len(<<PROMPT>>) = 1 /\ <<PROMPT>>[1] = PROMPT
    BY DEF PROMPT
  <2>4. row \in Seq(1 .. 255) /\ column \in 0 .. Len(row)
    BY <2>2, <2>3
  <2>5. entered \in Seq(1 .. 255)
    BY <2>2
  <2>6. Shows(row) /\ column = index + 1 /\ \A k \in column + 1 .. Len(row) : row[k] = SPACE
    BY <2>2, <2>3 DEF Shows
  <2>7. reading \in BOOLEAN /\ backed \in BOOLEAN /\ reading
    BY <2>2, Zenon
  <2>8. \A i \in 0 .. index - 1 : buffer[i] # NUL
    BY <2>2
  <2> QED BY <2>1, <2>4, <2>5, <2>6, <2>7, <2>8 DEF LineIInv
<1>2. LineIInv /\ [Next]_vars => LineIInv'
  <2> SUFFICES ASSUME LineIInv, [Next]_vars PROVE LineIInv'
    OBVIOUS
  <2>1. CASE UNCHANGED vars
    BY <2>1 DEF vars, LineIInv, BufferTyped, ClearBehindIndex, Shows
  <2>2. ASSUME reading, NEW key \in Keys, Erase(key) \/ Store(key) \/ Full(key) \/ Enter(key)
        PROVE  LineIInv'
    <3>1. CASE Full(key)
      BY <2>1, <3>1 DEF Full
    <3> QED BY <2>2, <3>1, EraseKeeps, StoreKeeps, EnterKeeps
  <2>3. CASE Reset
    BY <2>3, ResetKeeps
  <2> QED BY <2>1, <2>2, <2>3 DEF Next, serial_read_str
<1> QED BY <1>1, <1>2, PTL DEF Spec

\* Type correctness; in it, that the index stays within the buffer and the column within
\* the row.
THEOREM LineTypes == Spec => []LineTypeOK
<1>1. LineIInv => LineTypeOK
  BY DEF LineIInv, LineTypeOK, BufferTyped
<1> QED BY <1>1, LineInductive, PTL

-----------------------------------------------------------------------------
(* Cells, words and the comparison of kshell.                                *)

LEMMA TypedIs ==
  ASSUME LineIInv
  PROVE  /\ Typed \in Seq(0 .. 255) /\ Len(Typed) = index /\ index \in Nat
         /\ \A k \in 1 .. index : Typed[k] = buffer[k - 1] /\ Typed[k] # NUL
<1>1. index \in Nat /\ index <= max_len /\ max_len \in Nat
  BY Bounds DEF LineIInv, BufferTyped
<1>2. \A k \in 1 .. index : k - 1 \in 0 .. index - 1 /\ k - 1 \in 0 .. max_len
  BY <1>1
<1>3. \A k \in 1 .. index : buffer[k - 1] \in 0 .. 255 /\ buffer[k - 1] # NUL
  BY <1>2 DEF LineIInv, BufferTyped
<1> QED BY <1>1, <1>3 DEF Typed

\* The prompt and a word, cell by cell.
LEMMA Prompted ==
  ASSUME NEW word \in Seq(0 .. 255)
  PROVE  /\ <<PROMPT>> \o word \in Seq(0 .. 255) /\ Len(<<PROMPT>> \o word) = Len(word) + 1
         /\ (<<PROMPT>> \o word)[1] = PROMPT
         /\ \A k \in 1 .. Len(word) : (<<PROMPT>> \o word)[k + 1] = word[k]
<1> DEFINE one == <<PROMPT>>
<1>1. one \in Seq(0 .. 255) /\ Len(one) = 1 /\ one[1] = PROMPT
  BY DEF PROMPT
<1> HIDE DEF one
<1>2. PICK n \in Nat : n = Len(word)
  OBVIOUS
<1>3. /\ one \o word \in Seq(0 .. 255) /\ Len(one \o word) = 1 + n
      /\ \A k \in 1 .. 1 + n : (one \o word)[k] = IF k <= 1 THEN one[k] ELSE word[k - 1]
  <2>1. PICK o \in Seq(0 .. 255) : o = one
    BY <1>1
  <2>2. /\ o \o word \in Seq(0 .. 255) /\ Len(o \o word) = Len(o) + Len(word)
        /\ \A k \in 1 .. Len(o) + Len(word) : (o \o word)[k] = IF k <= Len(o) THEN o[k] ELSE word[k - Len(o)]
    BY ConcatElements
  <2> QED BY <1>1, <1>2, <2>1, <2>2
<1>4. 1 \in 1 .. 1 + n /\ \A k \in 1 .. n : k + 1 \in 1 .. 1 + n /\ ~(k + 1 <= 1) /\ (k + 1) - 1 = k
  BY <1>2
<1>5. (one \o word)[1] = PROMPT
  BY <1>1, <1>3, <1>4
<1>6. \A k \in 1 .. n : (one \o word)[k + 1] = word[k]
  BY <1>3, <1>4
<1> QED BY <1>2, <1>3, <1>5, <1>6 DEF one

LEMMA CellsAre ==
  ASSUME LineIInv, NEW cells \in Seq(1 .. 255), Len(cells) = index + 1, Shows(cells)
  PROVE  cells = <<PROMPT>> \o Typed
<1>1. PICK word \in Seq(0 .. 255), n \in Nat :
        word = Typed /\ n = index /\ Len(word) = n /\ \A k \in 1 .. n : word[k] = buffer[k - 1]
  BY TypedIs
<1>2. PICK full \in Seq(0 .. 255) :
         /\ full = <<PROMPT>> \o word /\ Len(full) = n + 1
         /\ full[1] = PROMPT /\ \A k \in 1 .. n : full[k + 1] = word[k]
  <2>1. /\ <<PROMPT>> \o word \in Seq(0 .. 255) /\ Len(<<PROMPT>> \o word) = Len(word) + 1
        /\ (<<PROMPT>> \o word)[1] = PROMPT
        /\ \A k \in 1 .. Len(word) : (<<PROMPT>> \o word)[k + 1] = word[k]
    BY Prompted
  <2> QED BY <1>1, <2>1
<1>3. \A k \in 1 .. n + 1 : k = 1 \/ (k - 1 \in 1 .. n /\ (k - 1) + 1 = k)
  BY <1>1
<1>4. \A k \in 1 .. n + 1 : cells[k] = full[k]
  <2> SUFFICES ASSUME NEW k \in 1 .. n + 1 PROVE cells[k] = full[k]
    OBVIOUS
  <2>1. CASE k = 1
    BY <1>2, <2>1 DEF Shows
  <2>2. CASE k # 1
    <3>1. PICK j \in 1 .. n : k = j + 1
      BY <1>1, <1>3, <2>2
    <3>2. cells[j + 1] = buffer[j - 1]
      BY <1>1 DEF Shows
    <3> QED BY <1>1, <1>2, <3>1, <3>2
  <2> QED BY <2>1, <2>2
<1>5. cells \in Seq(0 .. 255)
  OBVIOUS
<1> QED BY <1>1, <1>2, <1>4, <1>5, SeqEqual

LEMMA LiteralIs ==
  ASSUME NEW c \in Commands
  PROVE  /\ c \in Seq(Keys) /\ c \in Seq(0 .. 255) /\ Len(c) \in 0 .. max_len
         /\ Literal(c) \in [0 .. max_len -> 0 .. 255]
         /\ \A i \in 0 .. Len(c) - 1 : Literal(c)[i] = c[i + 1] /\ Literal(c)[i] # NUL
         /\ \A i \in Len(c) .. max_len : Literal(c)[i] = NUL
<1>1. c \in Seq(Keys) /\ Len(c) \in Nat /\ Len(c) <= max_len /\ max_len \in Nat
  BY LineInputAssumption
<1>2. \A i \in 0 .. Len(c) - 1 : i + 1 \in 1 .. Len(c) /\ i \in 0 .. max_len /\ i < Len(c)
  BY <1>1
<1>3. \A k \in 1 .. Len(c) : c[k] \in Keys /\ c[k] \in 1 .. 255
  <2>1. \A k \in 1 .. Len(c) : c[k] \in Keys
    BY <1>1, ElementOfSeq
  <2> QED BY <2>1, Bounds
<1>4. c \in Seq(0 .. 255)
  <2>1. \A k \in 1 .. Len(c) : c[k] \in 0 .. 255
    BY <1>3
  <2> DEFINE word == [k \in 1 .. Len(c) |-> c[k]]
  <2>2. c = word
    BY <1>1
  <2>3. word \in Seq(0 .. 255)
    BY <1>1, <2>1
  <2> QED BY <2>2, <2>3
<1>5. \A i \in 0 .. max_len : i \in 0 .. Len(c) - 1 \/ ~(i < Len(c))
  BY <1>1
<1>6. Literal(c) \in [0 .. max_len -> 0 .. 255]
  <2>1. \A i \in 0 .. max_len : (IF i < Len(c) THEN c[i + 1] ELSE 0) \in 0 .. 255
    BY <1>1, <1>2, <1>3, <1>5
  <2> QED BY <2>1 DEF Literal, NUL
<1>7. \A i \in 0 .. Len(c) - 1 : Literal(c)[i] = c[i + 1] /\ Literal(c)[i] # NUL
  <2> SUFFICES ASSUME NEW i \in 0 .. Len(c) - 1 PROVE Literal(c)[i] = c[i + 1] /\ Literal(c)[i] # NUL
    OBVIOUS
  <2>1. Literal(c)[i] = c[i + 1]
    BY <1>2 DEF Literal
  <2>2. PICK x \in 1 .. 255 : x = c[i + 1]
    BY <1>2, <1>3
  <2>3. x # NUL
    BY DEF NUL
  <2> QED BY <2>1, <2>2, <2>3
<1>8. \A i \in Len(c) .. max_len : i \in 0 .. max_len /\ ~(i < Len(c))
  BY <1>1
<1>9. \A i \in Len(c) .. max_len : Literal(c)[i] = NUL
  BY <1>8 DEF Literal
<1> QED BY <1>1, <1>4, <1>6, <1>7, <1>9

\* kshell's comparison holds of the word in the buffer alone.
LEMMA MatchesTyped ==
  ASSUME LineIInv, NEW c \in Commands
  PROVE  Matches(c) <=> Typed = c
<1>1. PICK m, n, l \in Nat :
        /\ m = max_len /\ n = index /\ n \in 0 .. m /\ l = Len(c) /\ l \in 0 .. m
        /\ buffer \in [0 .. m -> 0 .. 255] /\ Literal(c) \in [0 .. m -> 0 .. 255]
  <2>1. max_len \in Nat /\ index \in 0 .. max_len /\ buffer \in [0 .. max_len -> 0 .. 255]
    BY Bounds DEF LineIInv, BufferTyped
  <2>2. Len(c) \in 0 .. max_len /\ Literal(c) \in [0 .. max_len -> 0 .. 255]
    BY LiteralIs
  <2>3. index \in Nat /\ Len(c) \in Nat
    BY <2>1, <2>2
  <2> QED BY <2>1, <2>2, <2>3
<1> DEFINE b == Literal(c)
<1>2. /\ \A i \in 0 .. l - 1 : b[i] = c[i + 1] /\ b[i] # NUL
      /\ \A i \in l .. m : b[i] = NUL
  BY <1>1, LiteralIs
<1>3. /\ \A i \in 0 .. n - 1 : buffer[i] # NUL
      /\ \A i \in n .. m : buffer[i] = NUL
  BY <1>1 DEF LineIInv, ClearBehindIndex
<1>4. /\ Typed \in Seq(0 .. 255) /\ Len(Typed) = n /\ c \in Seq(0 .. 255)
      /\ \A k \in 1 .. n : Typed[k] = buffer[k - 1]
  BY <1>1, TypedIs, LiteralIs
<1> HIDE DEF b
<1>5. strcmp(buffer, b) = 0 <=> SameString(buffer, b, m)
  <2>1. n \in 0 .. m /\ buffer[n] = NUL /\ b \in [0 .. m -> 0 .. 255]
    <3>1. n \in n .. m /\ n \in 0 .. m
      BY <1>1
    <3> QED BY <1>1, <1>3, <3>1 DEF b
  <2>2. PICK a \in [0 .. m -> 0 .. 255], d \in [0 .. m -> 0 .. 255] : a = buffer /\ d = b
    BY <1>1, <2>1
  <2>3. a[n] = NUL
    BY <2>1, <2>2
  <2>4. strcmp(a, d) = 0 <=> SameString(a, d, m)
    BY <2>1, <2>3, StrcmpZero
  <2> QED BY <2>2, <2>4
<1>6. ASSUME SameString(buffer, b, m) PROVE Typed = c
  <2>1. PICK s \in 0 .. m :
          buffer[s] = NUL /\ b[s] = NUL /\ \A i \in 0 .. s - 1 : buffer[i] = b[i] /\ buffer[i] # NUL
    BY <1>6 DEF SameString
  <2>2. s = n
    <3>1. ~(s < n)
      BY <1>1, <1>3, <2>1
    <3>2. ~(n < s)
      <4> SUFFICES ASSUME n < s PROVE FALSE
        OBVIOUS
      <4>1. n \in 0 .. s - 1 /\ n \in n .. m
        BY <1>1, <2>1
      <4> QED BY <1>3, <2>1, <4>1
    <3> QED BY <3>1, <3>2
  <2>3. s = l
    <3>1. ~(s < l)
      BY <1>1, <1>2, <2>1
    <3>2. ~(l < s)
      <4> SUFFICES ASSUME l < s PROVE FALSE
        OBVIOUS
      <4>1. l \in 0 .. s - 1 /\ l \in l .. m
        BY <1>1, <2>1
      <4> QED BY <1>2, <2>1, <4>1
    <3> QED BY <3>1, <3>2
  <2>4. ASSUME NEW k \in 1 .. n PROVE Typed[k] = c[k]
    <3>1. k - 1 \in 0 .. s - 1 /\ k - 1 \in 0 .. l - 1 /\ (k - 1) + 1 = k
      BY <2>2, <2>3
    <3>2. Typed[k] = buffer[k - 1]
      BY <1>4
    <3>3. buffer[k - 1] = b[k - 1]
      BY <2>1, <3>1
    <3>4. b[k - 1] = c[(k - 1) + 1]
      BY <1>2, <3>1
    <3> QED BY <3>1, <3>2, <3>3, <3>4
  <2> QED BY <1>1, <1>4, <2>2, <2>3, <2>4, SeqEqual
<1>7. ASSUME Typed = c PROVE SameString(buffer, b, m)
  <2>1. n = l
    BY <1>1, <1>4, <1>7
  <2>2. n \in 0 .. m /\ n \in n .. m
    BY <1>1
  <2>3. ASSUME NEW i \in 0 .. n - 1 PROVE buffer[i] = b[i] /\ buffer[i] # NUL
    <3>1. i + 1 \in 1 .. n /\ (i + 1) - 1 = i
      OBVIOUS
    <3> QED BY <1>2, <1>3, <1>4, <1>7, <2>1, <3>1
  <2> QED BY <1>2, <1>3, <2>1, <2>2, <2>3 DEF SameString
<1> QED BY <1>5, <1>6, <1>7 DEF Matches, b

\* The terminal shows the prompt and the buffer, and nothing else, however the line has
\* been typed and corrected.
THEOREM LineShown == Spec => []ShowsBuffer
<1>1. LineIInv => ShowsBuffer
  <2> SUFFICES ASSUME LineIInv, reading, ~backed
               PROVE  /\ column = index + 1
                      /\ SubSeq(row, 1, column) = <<PROMPT>> \o Typed
                      /\ Blank(SubSeq(row, column + 1, Len(row)))
    BY DEF ShowsBuffer
  <2>1. PICK cells \in Seq(1 .. 255), n, c \in Nat :
          /\ cells = row /\ n = Len(cells) /\ c = column /\ c <= n /\ c = index + 1 /\ Shows(cells)
          /\ \A k \in c + 1 .. n : cells[k] = SPACE
    BY DEF LineIInv
  <2>2. c \in 0 .. Len(cells) /\ FrontOf(1 .. 255, cells, c, SubSeq(cells, 1, c))
        /\ RestOf(1 .. 255, cells, c, SubSeq(cells, c + 1, Len(cells)))
    <3>1. c \in 0 .. Len(cells)
      BY <2>1
    <3> QED BY <3>1, Halves
  <2>3. PICK left \in Seq(1 .. 255) :
          left = SubSeq(cells, 1, c) /\ Len(left) = c /\ \A k \in 1 .. c : left[k] = cells[k]
    <3>1. PICK part : part = SubSeq(cells, 1, c) /\ FrontOf(1 .. 255, cells, c, part)
      BY <2>2
    <3> QED BY <3>1 DEF FrontOf
  <2>4. left = <<PROMPT>> \o Typed
    <3>1. Shows(left)
      <4>1. index \in Nat /\ \A k \in 1 .. index : k + 1 \in 1 .. c
        BY <2>1, TypedIs
      <4>2. 1 \in 1 .. c
        BY <2>1, TypedIs
      <4> QED BY <2>1, <2>3, <4>1, <4>2 DEF Shows
    <3> QED BY <2>1, <2>3, <3>1, CellsAre
  <2>5. Blank(SubSeq(cells, c + 1, Len(cells)))
    <3>1. PICK part : part = SubSeq(cells, c + 1, Len(cells)) /\ RestOf(1 .. 255, cells, c, part)
      BY <2>2
    <3>2. DOMAIN part = 1 .. n - c /\ \A k \in 1 .. n - c : part[k] = cells[c + k]
      BY <2>1, <3>1 DEF RestOf
    <3>3. \A k \in 1 .. n - c : c + k \in c + 1 .. n
      BY <2>1
    <3>4. \A k \in DOMAIN part : part[k] = SPACE
      BY <2>1, <3>2, <3>3
    <3> QED BY <3>1, <3>4 DEF Blank
  <2> QED BY <2>1, <2>2, <2>3, <2>4, <2>5
<1> QED BY <1>1, LineInductive, PTL

\* kshell runs a command exactly when its word is what the terminal showed.
THEOREM LineRuns == Spec => []RunsWhatWasShown
<1>1. LineIInv => RunsWhatWasShown
  <2> SUFFICES ASSUME LineIInv, ~reading, ~backed, NEW c \in Commands
               PROVE  Matches(c) <=> entered = <<PROMPT>> \o c
    BY DEF RunsWhatWasShown
  <2>1. entered = <<PROMPT>> \o Typed
    <3>1. PICK cells \in Seq(1 .. 255) : cells = entered
      BY DEF LineIInv
    <3>2. Shows(cells) /\ Len(cells) = index + 1
      BY <3>1 DEF LineIInv
    <3> QED BY <3>1, <3>2, CellsAre
  <2>2. PICK w \in Seq(0 .. 255), d \in Seq(0 .. 255) : w = Typed /\ d = c
    BY TypedIs, LiteralIs
  <2>3. ASSUME <<PROMPT>> \o w = <<PROMPT>> \o d PROVE w = d
    <3>1. Len(w) + 1 = Len(d) + 1
      BY <2>3, Prompted
    <3>2. Len(w) = Len(d) /\ Len(w) \in Nat
      BY <3>1
    <3>3. ASSUME NEW k \in 1 .. Len(w) PROVE w[k] = d[k]
      <4>1. (<<PROMPT>> \o w)[k + 1] = w[k]
        BY Prompted
      <4>2. (<<PROMPT>> \o d)[k + 1] = d[k]
        BY <3>2, Prompted
      <4> QED BY <2>3, <4>1, <4>2
    <3> QED BY <3>2, <3>3, SeqEqual
  <2> QED BY <2>1, <2>2, <2>3, MatchesTyped
<1> QED BY <1>1, LineInductive, PTL

-----------------------------------------------------------------------------
(* The functions of Bytes on the buffer.                                     *)

LEMMA BlockFits ==
  ASSUME NEW x \in Address, NEW y \in Address, NEW n \in 0 .. max_len + 1 - Max({x, y})
  PROVE  n \in Nat /\ x + n <= max_len + 1 /\ y + n <= max_len + 1
<1>1. max_len \in Nat /\ x \in Int /\ y \in Int /\ n \in Int
  BY Bounds DEF Address
<1>2. CASE x <= y
  <2>1. {x, y} \in SUBSET Int /\ y \in {x, y} /\ \A z \in {x, y} : z <= y
    BY <1>1, <1>2
  <2>2. Max({x, y}) = y
    BY <2>1, MaxIs
  <2> QED BY <1>1, <1>2, <2>2
<1>3. CASE y <= x
  <2>1. {x, y} \in SUBSET Int /\ x \in {x, y} /\ \A z \in {x, y} : z <= x
    BY <1>1, <1>3
  <2>2. Max({x, y}) = x
    BY <2>1, MaxIs
  <2> QED BY <1>1, <1>3, <2>2
<1> QED BY <1>1, <1>2, <1>3

LEMMA BufferMoves ==
  ASSUME LineIInv
  PROVE  MoveIsSimultaneous /\ ComparesContents
<1>1. /\ max_len \in Nat /\ buffer \in Memory(max_len) /\ index \in 0 .. max_len
      /\ buffer \in [0 .. max_len -> 0 .. 255] /\ buffer[index] = NUL
  <2>1. index \in index .. max_len
    BY Bounds DEF LineIInv, BufferTyped
  <2> QED BY <2>1, Bounds DEF LineIInv, BufferTyped, ClearBehindIndex, Memory
<1>2. ASSUME NEW x \in Address, NEW y \in Address, NEW n \in 0 .. max_len + 1 - Max({x, y})
      PROVE  /\ memmove(buffer, x, y, n) = Moved(buffer, x, y, n)
             /\ (x + n <= y \/ y + n <= x) => memcpy(buffer, x, y, n) = Moved(buffer, x, y, n)
             /\ memcmp(buffer, x, y, n) = -memcmp(buffer, y, x, n)
             /\ memcmp(buffer, x, y, n) = 0 <=> memmove(buffer, x, y, n) = buffer
  <2>1. PICK m, a, b, c \in Nat : /\ m = max_len /\ a = x /\ b = y /\ c = n
                                  /\ a + c <= m + 1 /\ b + c <= m + 1
    BY <1>1, BlockFits DEF Address
  <2>2. PICK mem \in Memory(m) : mem = buffer
    BY <1>1, <2>1
  <2>3. Whole(m, mem, a, b, c) = Moved(buffer, x, y, n)
    BY <2>1, <2>2 DEF Whole, Part, Moved, Address
  <2>4. /\ memmove(mem, a, b, c) = Whole(m, mem, a, b, c)
        /\ (a + c <= b \/ b + c <= a) => memcpy(mem, a, b, c) = Whole(m, mem, a, b, c)
    BY <2>1, MoveIsWhole
  <2>5. memcmp(mem, a, b, c) = -memcmp(mem, b, a, c)
    BY <2>1, CompareIs
  <2>6. memcmp(mem, a, b, c) = 0 <=> memmove(mem, a, b, c) = mem
    BY <2>1, CompareIsMove
  <2> QED BY <2>1, <2>2, <2>3, <2>4, <2>5, <2>6
<1>3. MoveIsSimultaneous
  BY <1>2 DEF MoveIsSimultaneous
<1>4. ASSUME NEW c \in Commands PROVE strcmp(buffer, Literal(c)) = 0 <=> strcmp(Literal(c), buffer) = 0
  <2>1. Literal(c) \in [0 .. max_len -> 0 .. 255] /\ Len(c) \in 0 .. max_len
    BY LiteralIs
  <2>2. Literal(c)[Len(c)] = NUL
    <3>1. Len(c) \in Len(c) .. max_len
      BY <1>1, <2>1
    <3> QED BY <3>1, LiteralIs
  <2>3. PICK m \in Nat : m = max_len
    BY <1>1
  <2>4. PICK e \in 0 .. m, f \in 0 .. m, a \in [0 .. m -> 0 .. 255], b \in [0 .. m -> 0 .. 255] :
          e = index /\ f = Len(c) /\ a = buffer /\ b = Literal(c)
    <3>1. index \in 0 .. m /\ Len(c) \in 0 .. m
      BY <1>1, <2>1, <2>3
    <3>2. buffer \in [0 .. m -> 0 .. 255] /\ Literal(c) \in [0 .. m -> 0 .. 255]
      BY <1>1, <2>1, <2>3
    <3> QED BY <3>1, <3>2, Zenon
  <2>5. a[e] = NUL /\ b[f] = NUL
    BY <1>1, <2>2, <2>4
  <2>6. strcmp(a, b) = 0 <=> SameString(a, b, m)
    BY <2>5, StrcmpZero
  <2>7. strcmp(b, a) = 0 <=> SameString(b, a, m)
    BY <2>5, StrcmpZero
  <2> QED BY <2>4, <2>6, <2>7, SameStringSymmetric
<1> QED BY <1>2, <1>3, <1>4 DEF ComparesContents

\* The value spelt, digit by digit.
Spells(l, h) ==
  /\ h \in [0 .. Len(l) -> Nat]
  /\ h[0] = 0
  /\ \A k \in 1 .. Len(l) : h[k] = 16 * h[k - 1] + l[k]

LEMMA SpellFold ==
  ASSUME NEW l \in Seq(Nat)
  PROVE  \E h : Spells(l, h) /\ Spelt(l) = h[Len(l)]
<1>0. PICK n \in Nat : n = Len(l)
  OBVIOUS
<1> DEFINE Step(v, d) == 16 * v + d
           it == CHOOSE iter : iter = [s \in SUBSET DOMAIN l |->
                   IF s = {} THEN 0 ELSE Step(iter[s \ {Max(s)}], l[Max(s)])]
           F == [p \in Nat \X (1 .. n) |-> Step(p[1], l[p[2]])]
<1>1. Spelt(l) = it[DOMAIN l]
  BY DEF Spelt, FoldLeft, MapThenFoldSet
<1>2. DOMAIN l = 1 .. n /\ \A k \in 1 .. n : l[k] \in Nat
  BY <1>0
<1>a. \A v \in Nat, d \in Nat : Step(v, d) \in Nat
  OBVIOUS
<1> HIDE DEF Step
<1>3. \A k \in 1 .. n, v \in Nat : F[<<v, k>>] = Step(v, l[k]) /\ F[<<v, k>>] \in Nat
  BY <1>2, <1>a
<1> HIDE DEF F
<1>4. PICK g : FoldOf(n, Nat, 0, F, g)
  BY <1>3, FoldExists
<1>5. ASSUME NEW s \in SUBSET (1 .. n), s # {}
      PROVE  g[s] = Step(g[s \ {Max(s)}], l[Max(s)])
  <2>1. Max(s) \in s
    BY <1>5, FiniteMax
  <2>2. g[s] = F[<<g[s \ {Max(s)}], Max(s)>>] /\ g[s \ {Max(s)}] \in Nat
    BY <1>4, <1>5 DEF FoldOf
  <2> QED BY <1>3, <2>1, <2>2
<1>6. g = [s \in SUBSET (1 .. n) |-> g[s]] /\ g[{}] = 0
  BY <1>4 DEF FoldOf
<1>7. g = [s \in SUBSET (1 .. n) |-> IF s = {} THEN 0 ELSE Step(g[s \ {Max(s)}], l[Max(s)])]
  BY <1>5, <1>6
<1>8. it = [s \in SUBSET (1 .. n) |-> IF s = {} THEN 0 ELSE Step(it[s \ {Max(s)}], l[Max(s)])]
  BY <1>2, <1>7
<1> HIDE DEF it
<1>9. it[{}] = 0
  BY <1>8
<1>10. FoldsInto(n, Nat, 0, F, it)
  <2>1. ASSUME NEW s \in SUBSET (1 .. n), s # {}, it[s \ {Max(s)}] \in Nat
        PROVE  it[s] = F[<<it[s \ {Max(s)}], Max(s)>>]
    <3>1. Max(s) \in 1 .. n
      BY <2>1, FiniteMax
    <3> QED BY <1>3, <1>8, <2>1, <3>1
  <2> QED BY <1>9, <2>1 DEF FoldsInto
<1>11. PICK path : PathOf(n, Nat, 0, F, it, path)
  BY <1>3, <1>10, FoldSteps
<1>12. PICK h \in [0 .. n -> Nat] :
         h[0] = 0 /\ (\A k \in 1 .. n : h[k] = F[<<h[k - 1], k>>]) /\ h[n] = it[1 .. n]
  BY <1>11 DEF PathOf
<1>13. \A k \in 1 .. n : h[k] = 16 * h[k - 1] + l[k]
  <2> SUFFICES ASSUME NEW k \in 1 .. n PROVE h[k] = 16 * h[k - 1] + l[k]
    OBVIOUS
  <2>1. k - 1 \in 0 .. n
    OBVIOUS
  <2>2. h[k] = Step(h[k - 1], l[k])
    BY <1>3, <1>12, <2>1
  <2> QED BY <2>2 DEF Step
<1> QED BY <1>0, <1>1, <1>2, <1>12, <1>13 DEF Spells

LEMMA Spelt1 ==
  ASSUME NEW a \in Nat
  PROVE  Spelt(<<a>>) = a
<1>0. <<a>> \in Seq(Nat) /\ Len(<<a>>) = 1 /\ <<a>>[1] = a
  OBVIOUS
<1>1. PICK l \in Seq(Nat) : l = <<a>> /\ Len(l) = 1 /\ l[1] = a
  BY <1>0
<1>2. PICK h : Spells(l, h) /\ Spelt(l) = h[Len(l)]
  BY SpellFold
<1>3. h[0] = 0 /\ \A k \in 1 .. 1 : h[k] = 16 * h[k - 1] + l[k]
  BY <1>1, <1>2 DEF Spells
<1>4. h[1] = a
  <2>1. h[1] = 16 * h[0] + a
    BY <1>1, <1>3
  <2> QED BY <2>1, <1>3
<1> QED BY <1>1, <1>2, <1>4

LEMMA Spelt2 ==
  ASSUME NEW a \in Nat, NEW b \in Nat
  PROVE  Spelt(<<a, b>>) = 16 * a + b
<1>0. <<a, b>> \in Seq(Nat) /\ Len(<<a, b>>) = 2 /\ <<a, b>>[1] = a /\ <<a, b>>[2] = b
  OBVIOUS
<1>1. PICK l \in Seq(Nat) : l = <<a, b>> /\ Len(l) = 2 /\ l[1] = a /\ l[2] = b
  BY <1>0
<1>2. PICK h : Spells(l, h) /\ Spelt(l) = h[Len(l)]
  BY SpellFold
<1>3. h[0] = 0 /\ \A k \in 1 .. 2 : h[k] = 16 * h[k - 1] + l[k]
  BY <1>1, <1>2 DEF Spells
<1>4. h[1] = a
  <2>1. h[1] = 16 * h[0] + a
    BY <1>1, <1>3
  <2> QED BY <2>1, <1>3
<1>5. h[2] = 16 * a + b
  <2>1. h[2] = 16 * h[1] + b
    BY <1>1, <1>3
  <2> QED BY <2>1, <1>4
<1> QED BY <1>1, <1>2, <1>5

LEMMA Spelt3 ==
  ASSUME NEW a \in Nat, NEW b \in Nat, NEW c \in Nat
  PROVE  Spelt(<<a, b, c>>) = 256 * a + 16 * b + c
<1>0. <<a, b, c>> \in Seq(Nat) /\ Len(<<a, b, c>>) = 3 /\ <<a, b, c>>[1] = a /\ <<a, b, c>>[2] = b /\ <<a, b, c>>[3] = c
  OBVIOUS
<1>1. PICK l \in Seq(Nat) : l = <<a, b, c>> /\ Len(l) = 3 /\ l[1] = a /\ l[2] = b /\ l[3] = c
  BY <1>0
<1>2. PICK h : Spells(l, h) /\ Spelt(l) = h[Len(l)]
  BY SpellFold
<1>3. h[0] = 0 /\ \A k \in 1 .. 3 : h[k] = 16 * h[k - 1] + l[k]
  BY <1>1, <1>2 DEF Spells
<1>4. h[1] = a
  <2>1. h[1] = 16 * h[0] + a
    BY <1>1, <1>3
  <2> QED BY <2>1, <1>3
<1>5. h[2] = 16 * a + b
  <2>1. h[2] = 16 * h[1] + b
    BY <1>1, <1>3
  <2> QED BY <2>1, <1>4
<1>6. h[3] = 256 * a + 16 * b + c
  <2>1. h[3] = 16 * h[2] + c
    BY <1>1, <1>3
  <2> QED BY <2>1, <1>5
<1> QED BY <1>1, <1>2, <1>6

LEMMA Spelt4 ==
  ASSUME NEW a \in Nat, NEW b \in Nat, NEW c \in Nat, NEW d \in Nat
  PROVE  Spelt(<<a, b, c, d>>) = 4096 * a + 256 * b + 16 * c + d
<1>0. <<a, b, c, d>> \in Seq(Nat) /\ Len(<<a, b, c, d>>) = 4 /\ <<a, b, c, d>>[1] = a /\ <<a, b, c, d>>[2] = b /\ <<a, b, c, d>>[3] = c /\ <<a, b, c, d>>[4] = d
  OBVIOUS
<1>1. PICK l \in Seq(Nat) : l = <<a, b, c, d>> /\ Len(l) = 4 /\ l[1] = a /\ l[2] = b /\ l[3] = c /\ l[4] = d
  BY <1>0
<1>2. PICK h : Spells(l, h) /\ Spelt(l) = h[Len(l)]
  BY SpellFold
<1>3. h[0] = 0 /\ \A k \in 1 .. 4 : h[k] = 16 * h[k - 1] + l[k]
  BY <1>1, <1>2 DEF Spells
<1>4. h[1] = a
  <2>1. h[1] = 16 * h[0] + a
    BY <1>1, <1>3
  <2> QED BY <2>1, <1>3
<1>5. h[2] = 16 * a + b
  <2>1. h[2] = 16 * h[1] + b
    BY <1>1, <1>3
  <2> QED BY <2>1, <1>4
<1>6. h[3] = 256 * a + 16 * b + c
  <2>1. h[3] = 16 * h[2] + c
    BY <1>1, <1>3
  <2> QED BY <2>1, <1>5
<1>7. h[4] = 4096 * a + 256 * b + 16 * c + d
  <2>1. h[4] = 16 * h[3] + d
    BY <1>1, <1>3
  <2> QED BY <2>1, <1>6
<1> QED BY <1>1, <1>2, <1>7

TwoBytes(value, x, y) == value = 256 * x + y
Reads(digits, value) == digits # <<>> /\ Spelt(digits) = value /\ (digits[1] = 0 => value = 0)

\* Two bytes are four nibbles, and spelling what kputhex writes gives them back.
LEMMA HexSpelt ==
  ASSUME NEW x \in 0 .. 255, NEW y \in 0 .. 255, NEW value \in Nat, TwoBytes(value, x, y)
  PROVE  Reads(kputhex(value, 4), value)
<1>1. PICK n1, n2 \in 0 .. 15 : x = 16 * n1 + n2
  <2>1. x \div 16 \in 0 .. 15 /\ x % 16 \in 0 .. 15 /\ x = 16 * (x \div 16) + (x % 16)
    OBVIOUS
  <2> QED BY <2>1
<1>2. PICK n3, n4 \in 0 .. 15 : y = 16 * n3 + n4
  <2>1. y \div 16 \in 0 .. 15 /\ y % 16 \in 0 .. 15 /\ y = 16 * (y \div 16) + (y % 16)
    OBVIOUS
  <2> QED BY <2>1
<1>3. FourNibbles(value, n1, n2, n3, n4) /\ value = 4096 * n1 + 256 * n2 + 16 * n3 + n4
  BY <1>1, <1>2 DEF FourNibbles, TwoBytes
<1>4. n1 \in Nat /\ n2 \in Nat /\ n3 \in Nat /\ n4 \in Nat
  OBVIOUS
<1>5. kputhex(value, 4) = DigitsOf(n1, n2, n3, n4)
  <2>1. FourNibbles(value, n1, n2, n3, n4)
    BY <1>3
  <2> QED BY <2>1, DigitsAre
<1>6. CASE n1 # 0
  <2>1. kputhex(value, 4) = <<n1, n2, n3, n4>>
    BY <1>5, <1>6 DEF DigitsOf
  <2>2. Spelt(<<n1, n2, n3, n4>>) = value
    <3>1. Spelt(<<n1, n2, n3, n4>>) = 4096 * n1 + 256 * n2 + 16 * n3 + n4
      BY <1>4, Spelt4
    <3> QED BY <1>3, <3>1
  <2>3. <<n1, n2, n3, n4>> # <<>> /\ <<n1, n2, n3, n4>>[1] # 0
    BY <1>6
  <2> QED BY <2>1, <2>2, <2>3 DEF Reads
<1>7. CASE n1 = 0 /\ n2 # 0
  <2>1. kputhex(value, 4) = <<n2, n3, n4>>
    BY <1>5, <1>7 DEF DigitsOf
  <2>2. Spelt(<<n2, n3, n4>>) = value
    BY <1>3, <1>4, <1>7, Spelt3
  <2>3. <<n2, n3, n4>> # <<>> /\ <<n2, n3, n4>>[1] # 0
    BY <1>7
  <2> QED BY <2>1, <2>2, <2>3 DEF Reads
<1>8. CASE n1 = 0 /\ n2 = 0 /\ n3 # 0
  <2>1. kputhex(value, 4) = <<n3, n4>>
    BY <1>5, <1>8 DEF DigitsOf
  <2>2. Spelt(<<n3, n4>>) = value
    BY <1>3, <1>4, <1>8, Spelt2
  <2>3. <<n3, n4>> # <<>> /\ <<n3, n4>>[1] # 0
    BY <1>8
  <2> QED BY <2>1, <2>2, <2>3 DEF Reads
<1>9. CASE n1 = 0 /\ n2 = 0 /\ n3 = 0
  <2>1. kputhex(value, 4) = <<n4>>
    BY <1>5, <1>9 DEF DigitsOf
  <2>2. Spelt(<<n4>>) = value /\ value = n4
    BY <1>3, <1>4, <1>9, Spelt1
  <2>3. <<n4>> # <<>> /\ <<n4>>[1] = n4
    OBVIOUS
  <2> QED BY <2>1, <2>2, <2>3 DEF Reads
<1> QED BY <1>6, <1>7, <1>8, <1>9

\* memmove copies as if all at once whatever overlaps, memcpy where nothing does, for any
\* length of buffer and whatever has been typed into it.
THEOREM LineMoves == Spec => []MoveIsSimultaneous
<1>1. LineIInv => MoveIsSimultaneous
  BY BufferMoves
<1> QED BY <1>1, LineInductive, PTL

\* memcmp and strcmp find two blocks equal exactly when they are, and in either order.
THEOREM LineCompares == Spec => []ComparesContents
<1>1. LineIInv => ComparesContents
  BY BufferMoves
<1> QED BY <1>1, LineInductive, PTL

\* Whatever two bytes kputhex is given, what it writes spells their value, and begins with
\* a 0 only if that is all it writes.
THEOREM LineHex == Spec => []HexReads
<1>1. LineIInv => HexReads
  <2> SUFFICES ASSUME LineIInv, NEW i \in 0 .. max_len - 1
               PROVE  LET value == 256 * buffer[i] + buffer[i + 1]
                          digits == kputhex(value, 4)
                      IN digits # <<>> /\ Spelt(digits) = value /\ (digits[1] = 0 => value = 0)
    BY DEF HexReads
  <2>1. i \in 0 .. max_len /\ i + 1 \in 0 .. max_len
    BY Bounds
  <2>2. PICK x, y \in 0 .. 255 : x = buffer[i] /\ y = buffer[i + 1]
    BY <2>1 DEF LineIInv, BufferTyped
  <2>3. PICK value \in Nat : value = 256 * x + y
    OBVIOUS
  <2>4. Reads(kputhex(value, 4), value)
    <3>1. TwoBytes(value, x, y)
      BY <2>3 DEF TwoBytes
    <3> QED BY <3>1, HexSpelt
  <2> QED BY <2>2, <2>3, <2>4 DEF Reads
<1> QED BY <1>1, LineInductive, PTL
=============================================================================
