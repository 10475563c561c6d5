# Verification of side-hOS

side-hOS is a small x86-64 kernel: the Limine bootloader enters `kmain` on the
boot processor, the kernel sets up a physical frame allocator and a heap,
creates a couple of thousand tasks, starts the other processors, and those run
the tasks cooperatively until none is left. This directory holds TLA+ models of
it, the TLC configurations that check them, and proofs checked by TLAPS.
Paths below are relative to the repository; line numbers are of `src/kernel.c`
unless another file is named.

## 1. Inventory

| Component | State | Operations | Interacts with |
|---|---|---|---|
| Task creation and start-up: `kmain` 145-228, `ap_entry` 133-143, `task_init` 462-490 | `tasks`, each `Task`, its stack | create a task, start a processor, greet, halt | heap (kmalloc), task list, console |
| Scheduler and switch: `idle_task_entry` 93-131, `task_exit` 492-499, `task.S` | `tasks`, `CPULocal`, saved `Context`s, the stacks | take a task, save, restore, exit | every processor shares `tasks` |
| Spin locks: 380-400 | one byte each: `task_lock`, `memory_lock`, `serial_lock` | acquire, release | all of the above |
| Frame allocator: 515-624, memory-map loop 157-175 | `Memory.freelist`: 255 segments and a cursor | parse, allocate one or many frames, free one or many | called by the heap (and the shell) |
| Heap: `kmalloc` 626-707, `kfree` 709-769 | `heap_pages`, the page and free-node headers inside frames, a size word before each block | allocate, free | frame allocator below, under `memory_lock` |
| Serial console: `serial.c` 1-37 | the UART's registers: divisor latch, divisor, holding register | init, write a byte, write a string | tasks print under `serial_lock` |
| Line input: `serial.c` 39-70, `kgets` | `CommandContext.command`, a local index | read a line with editing | shell |
| Debug shell: `kshell` 230-350, `pointer_push/pop` | `CommandContext`, `PointerStore`, `frame` | one command per line | heap, frame allocator, without `memory_lock` for the latter |
| Pure helpers: `kputhex`, string and memory functions in `kernel.h`, `factorial`, `fibonacci` | none | | |
| Boot protocol header, font, build files | none | | |

There is no interrupt handling and no preemption: a processor switches task
only in the idle loop and in `task_exit`. Nothing is persisted. What is hard:
eleven processors (`Makefile`, `-smp 11`) interleave at every instruction
outside three hand-placed locks; contexts and stacks are exchanged by hand in
assembly; the allocators are pointer arithmetic over in-band headers whose
correctness depends on long series of calls; and the limits (a full segment
list, memory running out) are places nobody goes by accident.
`PROJECT.json` lists each hazard at its line.

What makes each component correct:

- scheduler: no task lost, duplicated or run by two processors at once; a
  context saved is a context of the task it is saved in; all work gets done;
- locks: exclusion, and released on every path;
- frame allocator: no frame in two places and none lost, i.e. it implements a
  pool of frames; it refuses only when it has to;
- heap: blocks, free nodes and page headers never overlap; its book-keeping
  never promises what it does not have; failure is reported;
- console: a line printed under the lock is never mixed with another, and comes
  out whole if it is begun after the port has been set up;
- line input: the line is always terminated and what lies behind the buffer keeps
  its value; what the terminal shows is what is in the buffer, and kshell runs it;
- shell: what it frees is what it allocated, once; the list of heap pages keeps
  every page and ends.

## 2. Plan

Done in the order of importance to the running system:

1. `Scheduler` (processors, tasks, locks), `SchedulerProofs` - done.
2. `FramePool` (abstract), `FreeList` implementing it, `FreeListProofs` - done.
3. `Heap`, composed with `FreeList` (it EXTENDS it and is checked and proved to be
   a legal client of it), `HeapProofs` - done.
4. `Console`, `ConsoleProofs`: the UART with its divisor latch, `serial_init` on
   the boot processor against processors already printing (they are started at
   line 208, before `init_hardware` at 212), lines under `serial_lock` - done.
5. `Bytes`, `LineInput`, `LineInputProofs`: the pure functions against reference
   definitions, the command buffer and the byte behind it - done.
6. `Shell`, composed with `FreeList`, and `ShellProofs`: the pointer store, the
   frame commands against the list of heap pages - done.

Left:

7. `Shell` over `Heap` instead of over `FreeList` alone (section 7), so that a heap
   page given back by `freeframe` is followed into the blocks carved out of it.

## 3. Modules

| Module | What it is |
|---|---|
| `Scheduler` | processors, task list, locks, contexts, stacks |
| `SchedulerProofs` | its inductive invariants and nine theorems |
| `MCScheduler` | TLC: symmetry over processors and over tasks |
| `FramePool` | what a frame allocator promises |
| `FreeList` | the segment list and its cursor |
| `FreeListProofs` | its inductive invariant, three invariants and the refinement |
| `MCFreeList` | TLC: memory maps |
| `Heap` | kmalloc and kfree over `FreeList` |
| `HeapProofs` | its inductive invariant, its six properties, the use of the allocator |
| `MCHeap` | TLC: a memory map for it |
| `Console` | serial port, `serial_init`, lines under `serial_lock` |
| `ConsoleProofs` | its inductive invariant and its five invariants |
| `Bytes` | memory and string functions, `kputhex` |
| `BytesProofs` | lemmas: what they do to and find in any memory |
| `LineInput` | `serial_read_str`, the loop around `kshell`, the terminal |
| `LineInputProofs` | its inductive invariant and its seven invariants |
| `MCLineInput` | TLC: keys and command words |
| `Shell` | the commands over `FreeList` and the list of heap pages |
| `ShellProofs` | types, the store's ownership, the list of heap pages, the use of the allocator |
| `MCShell` | TLC: a memory map for it |
| `ListFacts` | lemmas: induction, folds, sums, sequences, division |

### Scheduler

State: `pc` says where each processor is; `lock` the three lock bytes; `tasks`
the linked list, as a sequence; `current` is `cpu_local->current_task`; `picked`
the idle loop's local `t`; `context` the saved rsp of each task; `words` whether
the four words `task_init` leaves on a new stack are still there; `made`,
`making` the progress of kmain's creation loop; `done` the history of finished
tasks. `rsp[c]` is the task whose stack processor c executes on; other registers
are left out because nothing decides on them. The idle task of processor c is
called c; `cpu_local->idle_task` never changes and is c itself.

One action is one stretch of code between two points where another processor
can matter: an acquire, what is done inside, a release, a save, a switch. A
failed `cmpxchgb` changes nothing and is no step. `kmalloc` is only its lock
here. kmain creates each work task in any order (the code alternates
factorial and fibonacci; they do not differ in what is modelled). The two spins
on `task_lock` in the idle loop lead to the same test and share `LoopLock`.

Switching is `Load`: it sets the stack pointer and returns through the word it
finds. A context made by `task_init` returns into `task_trampoline`, once. One
made by `save_context` returns into the idle loop: the word under the saved rsp
has meanwhile been overwritten by the call of `restore_context`, whose return
address is the end of the loop body, so that is where it goes. Only idle tasks
save a context (work tasks run to their end), which the proof establishes.

A processor that returns through words or a frame that another processor has
overwritten or is executing on is `wild`, and the model stops: what happens
next depends on stack contents and no fault handler is installed. Every safety
property is about all behaviours up to and including that state. Reaching it
takes the list to run dry while a second processor's idle task is on it
(`SchedulerStolenIdle`).

### FramePool and FreeList

`FreeList` keeps `segments` and `cursor` as in memory, the cursor as a byte:
`Signed(cursor)` is what allocation and the memory-map loop read, the byte
itself what freeing reads. `Half` is 128 in the code; with a smaller value both
the wrap of the sign and the full list come within reach of TLC. `overrun` is a
write outside the array (on the cursor and `heap_pages` behind it) and ends the
behaviour. `parsed` drives the loop over the memory map, `live` is history: the
runs handed out. `Listed` includes segments the allocator cannot see, since
freeing does. `memory_lock` is held by kmalloc and kfree throughout, so one
call is one step; that the lock excludes is `LockExclusion`. The contents of
frames are left to `Heap`.

`FramePool` has a set `free` and the runs `live`; a run is handed out only if
all of it is free, and comes back whole. `FreeList` implements it with `free` =
the frames of listed and still unparsed segments. The pool may refuse anything,
so when the implementation refuses is a property of its own
(`AllocationFindsSpace`).

What is assumed of the bootloader (`FreeListAssumption`): usable entries are
page aligned enough that the segments made of them do not overlap, and none
contains frame 0, which the code uses as "no frame". What is assumed of the
callers: they give back what they were given, once.

### Heap

Sizes and offsets are in words of 8 bytes (every size the kernel asks for is a
multiple of 8). `page` maps each heap frame to its free nodes (`at`, `length`)
and its `largest`; `blocks` is what is allocated: the frame, the place and value
of the size word, and the size asked for. Small and big blocks, the whole-node
case, splitting, first fit over pages and nodes, insertion by address and the
merging walk are as in the code. A freed block comes back without its header
word, as in the code: alone it is too short for its own size, and a merged node
ends short of the block behind it and never merges with it. `OneWordLost` says that
this is all that gets lost: `Room(f)` adds up what the free nodes and the blocks of
frame f take, headers included, and falls by one for each kfree there and at no other
step. `wild` marks a request
that went on with frame 0.

The heap's calls of the frame allocator are the operators of `FreeList`, and
`FreeListSpec` is checked of the heap as a property: with the theorem
`FreeListImplementsPool` this puts the heap on top of the abstract pool.

What is assumed (`HeapAssumption`): a frame has room for a page header, a node and
a block (512 words in the code); sizes are not 0; and no request asks for more frames
at once than the allocator is ever asked for (`MaxRun`, a bound of `FreeList` on the
runs its callers ask for, which is no limit of the code).

### Console

The port is external: a 16550, of which the model keeps what `serial.c` relies
on. Register 0 is the holding register or, while bit 7 of register 3 (`latch`)
is set, the low byte of the `divisor`; writing 199 to register 2 empties the
FIFO. `Transmit` moves a byte from `holding` to `wire` at any time.
`serial_init` is one action per `outb`, in the order of `InitWrites`; it does
not take `serial_lock`. A writer is a task on a processor of its own, or kmain
with its greeting after `serial_init`. It takes the lock (`Start`), and for each
byte polls (`CanSend`) and writes (`Send`), two actions because two port accesses
are two moments; then it releases (`Finish`). A byte that a writer sends while
the latch is open becomes the divisor, and one that waits when the FIFO is
emptied is lost: both are in the model. `early` is history: the writers that sent
a byte before `serial_init` was over. The firmware is assumed to leave the latch
closed.

### Bytes and LineInput

`Bytes` has the functions of `kernel.h` that the compiler or the shell call. A
memory is a function from addresses to bytes. `memcpy` and `memmove` write one
byte at a time in the order the code does, as folds over the indices, so that
overlap matters. `memcmp` and `strcmp` stop at the first difference. `kputhex`
gives digits as numbers; their letters are left out.

`LineInput` keeps `buffer`, which is `command` and, at `max_len`, the byte behind
it (`CommandContext.cursor`, which nobody reads), and `index`, the local variable
of `serial_read_str`. One action is one turn of its loop with its echo:
`Erase`, `Store`, `Full`, `Enter`. `Reset` is the end of `kshell` and kmain's
loop: the `memset`, the new row, the prompt. The terminal is external: a `row` of
characters and a `column`, which a backspace moves left without erasing, the
reason the code sends backspace, space, backspace. A backspace on an empty line
is stored like a letter, as in the code; `backed` is history that this has
happened since the prompt. `entered` is history too: what the terminal showed up to
the cursor when the line was entered. A NUL is not among the keys.

### Shell

`Shell` EXTENDS `FreeList`: the commands call its operators. `PointerStore` holds
the frames of the pointers (one `malloc` of 5000 bytes takes `MALLOC` frames with
its headers, 2 in the code), `frame` the variable of that name, `heap_pages` and
`next` the linked list of heap pages, whose links lie in the pages themselves:
zeroing a run that was handed out sets them to 0, as the `memset` does.
`malloc`, `free`, `memory_allocate_frame` (the frame command), `frames`,
`freeframe` and `freeframes` are one action each, since the shell runs after all
tasks have been created on the one processor that allocates; `heapdump` begins a
walk of which `DumpPage` is one turn of the outer loop.

The code checks nothing of what the user gives back. `mine` is history: how many
frames at `frame` the user may give back; `freeframe` and `freeframes` without
them is `Misuse`, and `free` of a failed malloc's pointer reads frame 0: both set
`wild`, after which the model makes no step. `freeframe` after `frame` is legal
for the user, and leaves a free frame on the list of heap pages; `unsound`
records it, and the two properties of that list say nothing afterwards.

## 4. Runs

| Run | Bounds | Shows |
|---|---|---|
| `SchedulerThree` | 3 processors, 2 tasks, symmetry | the seven safety invariants |
| `SchedulerTwo` | 2 processors, 2 tasks | liveness, under fairness |
| `SchedulerOne` | 1 processor, 3 tasks | the trampoline is sound with one processor; no deadlock |
| `SchedulerStolenIdle` | 2 processors, 1 task | **violation**: two processors share an idle task |
| `FreeListPool` | 5 frames in 2 segments, 7 places, runs of up to 3 | type, disjointness, conservation, refinement |
| `FreeListCursor` | 8 frames, 3 places, signed from 2 | **violation**: allocation goes blind past half of the list |
| `HeapBlocks` | 3 frames of 16 words; sizes 1, 8 and 12 words | the block, node and header invariants; what kfree loses; legal client of the allocator |
| `HeapLargest` | same | **violation**: `largest` is stale after kfree |
| `HeapExhausted` | same | **violation**: exhaustion returns a non-NULL pointer |
| `Console` | kmain and 2 tasks, lines of 3 bytes | the four safety properties, every line transmitted |
| `LineInput` | lines of up to 3, two letters and the blank, three words | buffer, display and command agree; the functions of `Bytes` are right on every buffer reached |
| `Shell` | 5 frames in 2 segments, 2 pointers, runs of 2 and 3 | ownership, the list of heap pages, legal client of the allocator, heapdump ends |

Why the bounds are enough. Scheduler: two processors make every pairwise race,
the third makes a lock held while two wait, and a thief whose victim is robbed
too; two tasks exercise order, the third adds nothing new. The theorems remove
the bound for safety. Free list: runs of 1 to 3 frames split and join two
segments with a gap between them, growth at both ends and into a new segment
occur, and the cursor crosses the sign; with `Half` 4 the list also fills up and
overruns. The theorems remove these bounds too. Heap: in a frame of 16 words a
page has 10 words of room. Size 1 allows several blocks and every kind of merge,
size 8 leaves one word (taken whole), size 1 after others leaves exactly a node
or nothing, size 12 takes two frames of its own; three frames can run out in
both ways. Console: two tasks can wait for the lock while kmain is anywhere in
`serial_init`, and a line of three bytes has a first, an inner and a last one,
each of which can meet every state of the latch. Line input: a line can be empty,
full, and overfull by one key, and end in blanks; every command word of the instance begins the next
one, as `free` does `freeframe` and `freeframes`, and the longest fills the
buffer, so that its terminator is the byte behind it. The byte functions are evaluated on
all offsets and lengths of every buffer reached. Shell: the store fills up with a
third malloc, memory runs out under each command, and a frame on the heap list
can be freed, taken again by `frame`, `frames` or `malloc`.

Deadlock is checked in `SchedulerOne`. With several processors a wild one
ends the model, in the allocators an overrun or a use of frame 0 does, and in the
shell misuse does; in `Console` the program ends when all lines are out. Those
runs do not ask for it.

Properties, beyond one type invariant per module:

- `LockExclusion`: a lock byte is set exactly when one processor is between
  acquire and release.
- `WorkInOnePlace`: each created work task is on the list, with one processor,
  or finished, and in one of them only.
- `WorkBeforeIdle`: all work is ahead of all idle tasks on the list, so an idle
  task can be stolen only once all work has been handed out.
- `SavesOwnContext`: a saved context leads to its own task's stack, and
  `current_task` is the task whose stack the processor is on.
- `OnlyIdleStacksShared`: only idle stacks are ever shared.
- `AstrayOnlyWhenDry`: no processor is on another's idle stack, returns into words
  already popped or runs wild before the list has been emptied of work. This bounds
  the damage of finding 1: every task is handed out first.
- `TrampolineFindsEntry`: the words task.S pops are there (one processor: holds;
  two: violated).
- `AllWorkDone`, `KmainHalts`: liveness, unless a processor runs wild.
- `FramesDisjoint`, `FramesConserved`, `PoolSpec`, `AllocationFindsSpace`.
- `BlocksDisjoint`, `NodesOrdered`, `LargestNotOverstated` (so the `return 0` of
  line 663 is never reached), `HeadersDecide`, `FreeListSpec`, `LargestIsMax`,
  `FailureIsNull`. `OneWordLost`: a kfree costs its page one word and nothing
  else does.
- `LinesUnbroken`: between two bytes of a line come only bytes of that line, in
  order, even while `serial_init` runs. `NothingOverwritten`: what the poll found
  still holds at the write. `LateLinesWhole`: nothing of a line begun after
  `serial_init` is lost. `RateKept`: `serial_init` leaves the latch closed, and
  its own divisor unless a task printed meanwhile. `AllPrinted`: liveness.
- `ClearBehindIndex`: from the index on, the byte behind the array included, all
  is 0. `ShowsBuffer`: the terminal shows the prompt, the buffer and blanks.
  `RunsWhatWasShown`: kshell takes a line for a command exactly when the terminal
  showed the prompt, that word and nothing more, up to the cursor, when it was
  entered; a blank typed behind the word counts, though it cannot be seen. Both except after a backspace on an empty
  line.
- `MoveIsSimultaneous`, `ComparesContents`, `HexReads`: the byte functions against
  what they are to compute.
- `StoreOwns`: every stored pointer is of a run of its own that is handed out and
  is not the one the frame commands may give back. `HeapListSound`: the list of
  heap pages ends and goes through exactly the pages handed out. `FreeListSpec`,
  `DumpEnds`: the shell uses the allocator legally; heapdump returns.

Every property of a passing run has a mutant in `PROJECT.json`: a definition
altered as a plausible slip of the code would alter it, with which TLC finds the
property violated. The altered definitions stand next to the true ones, marked
"Mutant", and are used nowhere.

### Fairness

`Fairness` is weak fairness of each processor's next step and no more: each
processor executes instructions. The locks are not fair, and a processor that
spins is not promised the lock (its step is disabled whenever the lock is held).
Nevertheless `AllWorkDone` holds: if one processor never gets `task_lock` or
`serial_lock`, then because others get them, and those run the tasks.
`KmainHalts` holds since `serial_lock` is taken only finitely often (once per
task), so kmain cannot be overtaken for ever. That an application processor ever
finishes its start-up is not promised and not claimed: it may lose every race
for `task_lock` to idle loops polling an empty list.

`Console`'s `FairSpec` is weak fairness of the port's `Transmit` (hardware: a
byte in the holding register goes out), of `serial_init` and of each writer. The
lock is not fair there either; `AllPrinted` holds because each line is printed
once, so that a writer can be overtaken only finitely often. `FairShellSpec` is
weak fairness of `DumpPage` only: a command that has begun goes on; that the user
types anything is not assumed.

## 5. Findings

1. **Idle tasks are on the run list** (`SchedulerStolenIdle`, line 136).
   `ap_entry` uses `task_init`, which also appends to the global list. A second
   processor can take the idle task of the first and run on its stack.
2. **The cursor is signed for allocation** (`FreeListCursor`, lines 518, 550;
   `kernel.h` 67). From 128 segments on every allocation fails.
3. **`largest` is not kept by kfree** (`HeapLargest`, line 709). Memory is
   wasted, never corrupted: `LargestNotOverstated` holds.
4. **A failed big kmalloc is not NULL** (`HeapExhausted`, line 633).

## 6. Proofs

`SchedulerProofs` proves, for any sets of processors and tasks that satisfy
`SchedulerAssumption` (the names are distinct), `Spec => []IInv` and from it
`TypeOK`, `LockExclusion`, `WorkInOnePlace`, `WorkBeforeIdle`, `SavesOwnContext`
and `OnlyIdleStacksShared`. None of these but `TypeOK` and `LockExclusion` is
inductive alone. That work is ahead of idle tasks needs to know that kmain has
listed all work before it starts a processor (`Phases`). That two processors
never share the stack of a work task needs to know which code a processor on
that stack is in (`OnStack`), that the context it was loaded from leads to that
stack (`Contexts`), and that a work task's context is never saved over, so that
it is entered once with its words intact (`Intact`). Each conjunct of `IInv` has
a lemma that it is kept by every action, one step per action, and `IInvNext`
joins them. `SchedulerAlone` proves `TrampolineFindsEntry` for one application
processor and any tasks: `Alone` adds to `IInv` that whenever the processor is
not in its idle loop it has saved a context there, so its idle task's words are
popped once. `SchedulerAstray` proves `AstrayOnlyWhenDry` for any number of
processors: each of them is `Alone`, and holds no idle task, as long as there is
work on the list (`AtHome`, `HomeUntilDry`), because the head of the list is then
work (`WorkBeforeIdle`), and a list without work stays so (`DryKept`). Two lemmas
say what `Append` and `Tail` do to a queue.

`FreeListProofs` proves, for every page size, cursor width, memory map and run
length that satisfy `FreeListAssumption`, `FreeListSpec => []IInv`, hence
`TypeOK`, `FramesDisjoint` and `FramesConserved`, and that the specification
implements `FramePool` (`FreeListImplementsPool`): initial states map to initial
states, an allocation to `Allocate` (or a stutter if it fails), a freeing to
`Free`, a parsed entry to a stutter. `IInv` adds to the properties that no
listed or handed-out run contains frame 0 (`NonNull`; else a success would look
like a failure) and that unparsed entries are disjoint from all of them. The
lemmas follow the operators: what taking cuts off a segment (`TakeCuts`), what
appending or growing adds.

`ConsoleProofs` proves, for any set of tasks and any line length, `Spec => []IInv`
and from it `ConsoleTypeOK`, `LinesUnbroken`, `NothingOverwritten`, `LateLinesWhole` and
`RateKept`. The argument: at most one writer is inside the lock (`LockHeld`); the
latch is open exactly while `serial_init` has made two to four of its writes, and
the divisor is its own from the third on if nobody was early (`Port`); who is not
early has sent nothing before `serial_init` was over, so the emptied FIFO and
the latch can only take bytes of early writers; and the bytes of the line in
progress are the last that have come out (`LineLast`), so the next one cannot
break up another line. kmain is never early since it prints after its own
`serial_init`. A lemma per action keeps the invariant; most of them are about
what is appended to, or taken from the end of, `Out`.

`HeapProofs` proves, for every frame size, memory map and set of request sizes that
satisfy `HeapAssumption` and `FreeListAssumption`, `HeapSpec => []HeapIInv` and from
it `HeapTypeOK`, `NodesOrdered`, `LargestNotOverstated`, `HeadersDecide`,
`BlocksDisjoint` and that every behaviour of the heap is one of the free list
(`HeapUsesFreeList`). The properties speak of the words a caller asked for; none is enough by
itself. `HeapIInv` speaks of the words a block has by its header, which are more
when its node was taken whole, and adds: two free nodes never touch (`Spaced`) nor
does a node touch the block behind it (`Clear`), since the header word that kfree
leaves out lies between them, so a node that is merged swallows no live word; a small
block is inside a page on the list (`SmallSound`), a big one has exactly the run that
kfree will compute from its header (`BigSound`), so that the header tells the two
apart. The lemmas follow the code: where a node is carved and what is left of it,
where the walk of kfree inserts, what it merges. `BlocksDisjoint` further needs that
two runs handed out share no frame, which is `FramesDisjoint` below.

`HeapLosesOneWord` proves the action property `OneWordLost`. `Room` is a sum over
the free nodes of a page and the blocks in it; the lemmas `RoomDropped`,
`RoomReplaced`, `RoomInserted`, `RoomSplit`, `RoomMerged`, `RoomFolded` say what each
change of the node list does to its sum, so that carving (`CarveRoom`) moves words from
nodes to a block and freeing (`KfreeRoom`) moves all but one back, whatever the
length of the list.

`LineInputProofs` proves, for every buffer length and any keys and words without 0
that satisfy `LineInputAssumption`, `Spec => []LineIInv` and from it all properties
of line input. (The code's buffer is where `max_len` is 255.) `LineTerminated`
needs only the buffer: the one write past the array writes the 0 that was there.
`ShowsBuffer` and `RunsWhatWasShown` need that no key stored is 0, so that the first 0
is at the index, and that the terminal's row has the prompt, the buffer and only
blanks behind the cursor (`Shows`). In proving the second it turned out that the line
must be compared up to the cursor, and not up to the last character that is not a
blank: a word with a blank behind it looks like the command on the terminal and
is not. `MoveIsSimultaneous`, `ComparesContents` and `HexReads` are facts about the
functions of `Bytes`, which `BytesProofs` proves for any memory of any size: a fold is
the last of a sequence of memories, one per byte written (`Copies`), and a copy upwards
or downwards never reads a byte it has written.

`ShellProofs` proves, for every memory map, store size and run lengths from 2 on,
`StoreOwns` and that every behaviour of the shell is one of the free list
(`ShellUsesFreeList`). The second needs the first: a command may give back only a
run that is handed out, in whole. The first needs that a run handed out is
disjoint from those that are (`FramesDisjoint`, from the invariant of
`FreeListProofs`, which the shell keeps because its steps are the free list's),
hence begins at a frame that is neither in the store nor in `frame`. With
`FreeListImplementsPool` this puts the shell on top of the abstract pool.

`ShellHeapList` proves `HeapListSound`: from `heap_pages` the links make a path
without repetition through exactly the pages handed out (`Linked`, `ListIInv`), a
new page goes before its first, and zeroing a run that was handed out touches no page
of it. `ShellTypes` proves `ShellTypeOK`.

Each of these invariants (`IInv`, `HeapIInv`, `LineIInv`, `ShellIInv` and `ListIInv`,
`HomeUntilDry`) was checked by TLC on the instances above before it was proved.

`ListFacts` has what the proofs share. The library's induction theorems take the
property as an operator, which the installed provers cannot instantiate; with the
property as a set of numbers (`SetInduction`) induction goes through, and with it
the facts about folds, minima, sums over finite sets and sums along sequences that
the walks of kfree, the byte functions and `Room` need. The models use no RECURSIVE operators.

Every invariant and every action property of a passing run is thus proved for all
values of the constants, `TrampolineFindsEntry` for one application processor (with
two it is false, finding 1). Only model-checked: the liveness properties
`AllWorkDone`, `KmainHalts`, `AllPrinted` and `DumpEnds`, which this proof system does
not reach. The four violations are TLC's counterexamples.

## 7. Not modelled

The shell and line input are not reached at this commit, as `kmain` halts at line
218 before its command loop; they are modelled as they stand. Of the shell, the
commands that only print (their texts, the register values) and heapdump's inner
walk over the free nodes of a page are left out, and `Shell` and `Heap` are
composed with the frame allocator separately: that the small blocks of `kmalloc`
come out of a page the shell has given back is the reason for `unsound` and is
not followed further.

`factorial` and `fibonacci`: their values are printed and decide nothing (100! is
0 modulo 2^64). `serial_write_str` indexes with an int8_t; every string of the
kernel is shorter than 128 bytes. The font and the paging constants are not used
by any code. `heapnode_is_empty` is called nowhere. The boot protocol header is
the bootloader's; what it promises is an assumption, as is what the firmware
leaves in the port and what a terminal does with a backspace. Register contents
other than the stack pointer and the text that tasks print are left out. Memory
is sequentially consistent in the models: every shared variable of the code is
accessed under a lock taken by a locked instruction, except a lock's own release
store.
