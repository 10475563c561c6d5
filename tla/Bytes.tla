-------------------------------- MODULE Bytes ---------------------------------
(* The memory and string functions the kernel brings along (the compiler     *)
(* calls the first four for copies and initialisers, the shell strcmp) and   *)
(* kputhex. A memory is a function from addresses to bytes; a copy is a fold *)
(* over the indices it goes through, one write at a time.                    *)
EXTENDS Integers, SequencesExt

NUL == 0

Up(n)   == [k \in 1 .. n |-> k - 1]       \* for (i = 0; i < n; i++)
Down(n) == [k \in 1 .. n |-> n - k]       \* for (i = n; i > 0; i--), index i - 1

CopyEach(mem, dest, src, indices) ==
  FoldLeft(LAMBDA m, i : [m EXCEPT ![dest + i] = m[src + i]], mem, indices)

memcpy(mem, dest, src, n) == CopyEach(mem, dest, src, Up(n))

memset(mem, s, c, n) == [a \in DOMAIN mem |-> IF a \in s .. s + n - 1 THEN c % 256 ELSE mem[a]]

\* Mutant: always from the front.
MoveUp(mem, dest, src, n) == CopyEach(mem, dest, src, Up(n))

memmove(mem, dest, src, n) ==
  IF src > dest THEN CopyEach(mem, dest, src, Up(n))
  ELSE IF src < dest THEN CopyEach(mem, dest, src, Down(n))
  ELSE mem

memcmp(mem, s1, s2, n) ==
  LET differ == {i \in 0 .. n - 1 : mem[s1 + i] # mem[s2 + i]} IN
  IF differ = {} THEN 0
  ELSE IF mem[s1 + Min(differ)] < mem[s2 + Min(differ)] THEN -1 ELSE 1

\* Mutant: the end of a is enough, as for a prefix.
PrefixCompare(a, b) ==
  LET stop == Min({i \in DOMAIN a : a[i] = NUL \/ a[i] # b[i]}) IN
  IF a[stop] = NUL THEN 0 ELSE a[stop] - b[stop]

strcmp(a, b) ==
  LET stop == Min({i \in DOMAIN a : a[i] = NUL \/ a[i] # b[i]}) IN a[stop] - b[stop]

\* Mutant: leading zeros are skipped at the last digit too.
HexAllSkipped(value, digits) ==
  LET step(out, k) ==
        LET nibble == (value \div 16^(digits - k)) % 16 IN
        IF out = <<>> /\ nibble = 0 THEN out ELSE Append(out, nibble)
  IN FoldLeft(step, <<>>, [k \in 1 .. digits |-> k])

\* The digits kputhex writes after 0x, of a value of that many nibbles.
kputhex(value, digits) ==
  LET step(out, k) ==
        LET nibble == (value \div 16^(digits - k)) % 16 IN
        IF out = <<>> /\ nibble = 0 /\ k # digits THEN out ELSE Append(out, nibble)
  IN FoldLeft(step, <<>>, [k \in 1 .. digits |-> k])
=============================================================================
