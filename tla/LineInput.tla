------------------------------ MODULE LineInput -------------------------------
(* serial_read_str and the shell's loop around it: a prompt, one key at a    *)
(* time into CommandContext.command with its echo, the comparisons of kshell *)
(* and the reset. kmain halts before this loop at present; it is modelled as *)
(* it stands. The terminal at the other end of the wire is external: a row   *)
(* of characters and a column.                                               *)
EXTENDS Bytes

CONSTANTS
  Keys,      \* the characters that are typed
  max_len,   \* 255: the length of command, and the bound of serial_read_str
  Commands   \* the words kshell compares with

BS == 8
LF == 10
CR == 13
DEL == 127
SPACE == 32
PROMPT == 62

ASSUME LineInputAssumption ==
  /\ max_len \in Nat \ {0}
  /\ Keys \subseteq 1 .. 255
  /\ Commands \subseteq Seq(Keys)
  /\ \A c \in Commands : Len(c) <= max_len

VARIABLES
  buffer,   \* command, and behind it, at max_len, the byte of CommandContext.cursor
  index,    \* serial_read_str's local variable
  reading,  \* in serial_read_str, or about to run kshell on what it read
  row,      \* the characters of the terminal's last row
  column,   \* where the next one goes, from 0
  entered,  \* history: what stood before the terminal's column when the line was entered
  backed    \* history: a backspace was typed on an empty line since the prompt

vars == <<buffer, index, reading, row, column, entered, backed>>

Init ==
  /\ buffer = [i \in 0 .. max_len |-> NUL]
  /\ index = 0
  /\ reading = TRUE
  /\ row = <<PROMPT>>
  /\ column = 1
  /\ entered = <<>>
  /\ backed = FALSE

-----------------------------------------------------------------------------
(* The terminal.                                                             *)

Show(screen, c) ==
  IF c = BS THEN [screen EXCEPT !.column = IF @ > 0 THEN @ - 1 ELSE 0]
  ELSE [row    |-> [k \in 1 .. Max({Len(screen.row), screen.column + 1}) |->
                      IF k = screen.column + 1 THEN c ELSE screen.row[k]],
        column |-> screen.column + 1]

serial_write(characters) ==
  LET screen == FoldLeft(Show, [row |-> row, column |-> column], characters) IN
  row' = screen.row /\ column' = screen.column

-----------------------------------------------------------------------------
(* One turn of serial_read_str's loop per key.                               *)

Rubout(key) == key \in {BS, DEL} /\ index > 0

\* Mutant: the terminal rubs out and the index stays.
EraseShownOnly(key) ==
  /\ Rubout(key)
  /\ serial_write(<<BS, SPACE, BS>>)
  /\ buffer' = [buffer EXCEPT ![index - 1] = NUL]
  /\ UNCHANGED <<index, reading, entered, backed>>

Erase(key) ==
  /\ Rubout(key)
  /\ serial_write(<<BS, SPACE, BS>>)
  /\ index' = index - 1
  /\ buffer' = [buffer EXCEPT ![index - 1] = NUL]
  /\ UNCHANGED <<reading, entered, backed>>

Plain(key) == key \notin {CR, LF} /\ ~Rubout(key)

\* Mutant: the bound lets one more in.
StorePastEnd(key) ==
  /\ Plain(key) /\ index <= max_len
  /\ serial_write(<<key>>)
  /\ buffer' = [buffer EXCEPT ![index] = key]
  /\ index' = index + 1
  /\ backed' = (backed \/ key \in {BS, DEL})
  /\ UNCHANGED <<reading, entered>>

\* On an empty line a backspace is a character like any other. The terminator may land on
\* the byte behind the array.
Store(key) ==
  /\ Plain(key) /\ index < max_len
  /\ serial_write(<<key>>)
  /\ buffer' = [buffer EXCEPT ![index] = key, ![index + 1] = NUL]
  /\ index' = index + 1
  /\ backed' = (backed \/ key \in {BS, DEL})
  /\ UNCHANGED <<reading, entered>>

\* The line is full: the loop turns without an effect.
Full(key) == Plain(key) /\ index >= max_len /\ UNCHANGED vars

Enter(key) ==
  /\ key \in {CR, LF}
  /\ entered' = SubSeq(row, 1, column)
  /\ row' = <<>> /\ column' = 0
  /\ buffer' = [buffer EXCEPT ![index] = NUL]
  /\ reading' = FALSE
  /\ UNCHANGED <<index, backed>>

serial_read_str == reading /\ \E key \in Keys : Erase(key) \/ Store(key) \/ Full(key) \/ Enter(key)

\* A string literal: its characters and the terminator.
Literal(c) == [i \in 0 .. max_len |-> IF i < Len(c) THEN c[i + 1] ELSE NUL]

Matches(c) == strcmp(buffer, Literal(c)) = 0

\* Mutant: only the first byte of the command is cleared.
ResetFirst ==
  /\ ~reading
  /\ buffer' = [buffer EXCEPT ![0] = NUL]
  /\ index' = 0
  /\ reading' = TRUE
  /\ row' = <<PROMPT>> /\ column' = 1
  /\ backed' = FALSE
  /\ UNCHANGED entered

\* kshell has run: it clears the command, kmain's loop ends the row and prompts.
Reset ==
  /\ ~reading
  /\ buffer' = memset(buffer, 0, NUL, max_len + 1)
  /\ index' = 0
  /\ reading' = TRUE
  /\ row' = <<PROMPT>> /\ column' = 1
  /\ backed' = FALSE
  /\ UNCHANGED entered

Next == serial_read_str \/ Reset

Spec == Init /\ [][Next]_vars

-----------------------------------------------------------------------------

LineTypeOK ==
  /\ buffer \in [0 .. max_len -> 0 .. 255]
  /\ index \in 0 .. max_len
  /\ reading \in BOOLEAN /\ backed \in BOOLEAN
  /\ row \in Seq(1 .. 255) /\ entered \in Seq(1 .. 255)
  /\ column \in 0 .. Len(row)

\* With a full line the terminator goes one byte past the array, onto a field nobody
\* reads: it is 0 at all times, and so is every byte from the index on.
ClearBehindIndex == \A i \in index .. max_len : buffer[i] = NUL

Typed == [k \in 1 .. index |-> buffer[k - 1]]
Blank(cells) == \A k \in DOMAIN cells : cells[k] = SPACE

\* While a line is typed and corrected, the terminal shows the prompt, what is in the
\* buffer and nothing else, with the column at its end; unless a backspace was typed on
\* an empty line.
ShowsBuffer ==
  reading /\ ~backed =>
    /\ column = index + 1
    /\ SubSeq(row, 1, column) = <<PROMPT>> \o Typed
    /\ Blank(SubSeq(row, column + 1, Len(row)))

\* kshell takes a line for a command when, and only when, that word is what the terminal
\* showed up to its column: no rest of an earlier line or of erased characters takes part,
\* no word is taken for one it begins or that begins it.
RunsWhatWasShown ==
  ~reading /\ ~backed => \A c \in Commands : Matches(c) <=> entered = <<PROMPT>> \o c

Address == 0 .. max_len
Moved(mem, dest, src, n) ==
  [a \in Address |-> IF a \in dest .. dest + n - 1 THEN mem[src + (a - dest)] ELSE mem[a]]

\* memmove is the simultaneous copy however source and destination overlap, memcpy where
\* they do not.
MoveIsSimultaneous ==
  \A dest, src \in Address : \A n \in 0 .. max_len + 1 - Max({dest, src}) :
    /\ memmove(buffer, dest, src, n) = Moved(buffer, dest, src, n)
    /\ (dest + n <= src \/ src + n <= dest) =>
         memcpy(buffer, dest, src, n) = Moved(buffer, dest, src, n)

\* memcmp is 0 exactly where one block is a copy of the other, and changes its sign with
\* its arguments; on the strings of the buffer strcmp says the same.
ComparesContents ==
  /\ \A s, t \in Address : \A n \in 0 .. max_len + 1 - Max({s, t}) :
       /\ memcmp(buffer, s, t, n) = -memcmp(buffer, t, s, n)
       /\ memcmp(buffer, s, t, n) = 0 <=> memmove(buffer, s, t, n) = buffer
  /\ \A c \in Commands : strcmp(buffer, Literal(c)) = 0 <=> strcmp(Literal(c), buffer) = 0

\* kputhex spells its value, with no zero in front unless the value is 0.
Spelt(digits) == FoldLeft(LAMBDA value, nibble : 16 * value + nibble, 0, digits)
HexReads ==
  \A i \in 0 .. max_len - 1 :
    LET value == 256 * buffer[i] + buffer[i + 1]
        digits == kputhex(value, 4)
    IN digits # <<>> /\ Spelt(digits) = value /\ (digits[1] = 0 => value = 0)

-----------------------------------------------------------------------------
(* The inductive invariant behind the safety properties (LineInputProofs).   *)

\* The buffer is bytes, and the index is within the array or at its end.
BufferTyped == buffer \in [0 .. max_len -> 0 .. 255] /\ index \in 0 .. max_len

\* Cells that show the prompt and what is in the buffer.
Shows(cells) ==
  /\ Len(cells) > index
  /\ cells[1] = PROMPT
  /\ \A k \in 1 .. index : cells[k + 1] = buffer[k - 1]

LineIInv ==
  /\ BufferTyped /\ ClearBehindIndex
  /\ reading \in BOOLEAN /\ backed \in BOOLEAN
  /\ row \in Seq(1 .. 255) /\ entered \in Seq(1 .. 255)
  /\ column \in 0 .. Len(row)
  /\ \A i \in 0 .. index - 1 : buffer[i] # NUL
  /\ reading /\ ~backed =>
       column = index + 1 /\ Shows(row) /\ \A k \in column + 1 .. Len(row) : row[k] = SPACE
  /\ ~reading /\ ~backed => Shows(entered) /\ Len(entered) = index + 1
=============================================================================
