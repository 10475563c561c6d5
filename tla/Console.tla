------------------------------- MODULE Console -------------------------------
(* The serial console: serial_init on the boot processor, and the lines that *)
(* tasks on the application processors, and kmain itself, print under        *)
(* serial_lock. The application processors run before serial_init does, and  *)
(* serial_init does not take the lock. The port is a 16550: one register     *)
(* address holds the next byte or, while the latch bit is set, the divisor.  *)
EXTENDS Naturals, Sequences

CONSTANTS
  Task,  \* tasks that print, each on a processor of its own
  BSP,   \* the boot processor
  LINE,  \* the bytes of a line
  None   \* no byte

Writer == Task \cup {BSP}

ASSUME ConsoleAssumption ==
  BSP \notin Task /\ LINE \in Nat \ {0} /\ "serial_init" \notin Writer
  /\ None \notin [from : Writer \cup {"serial_init"}, n : Nat]

VARIABLES
  pc,           \* where each writer is
  sent,         \* how many bytes of its line it has written
  inited,       \* how many of its writes serial_init has made
  serial_lock,
  latch,        \* the port's divisor latch bit
  divisor,      \* its divisor, None while the firmware's
  holding,      \* its holding register, a byte or None
  wire,         \* the bytes it has transmitted
  early         \* history: who wrote a byte before serial_init was over

vars == <<pc, sent, inited, serial_lock, latch, divisor, holding, wire, early>>

Byte == [from : Writer \cup {"serial_init"}, n : Nat]
Value(n) == [from |-> "serial_init", n |-> n]

\* Mutant: the word format is written without clearing the latch bit.
LatchLeftOpen == << <<1, 0>>, <<3, 128>>, <<0, 3>>, <<1, 0>>, <<3, 131>>, <<2, 199>>, <<4, 11>> >>

\* Mutant: the divisor before the latch.
DivisorFirst == << <<1, 0>>, <<0, 3>>, <<3, 128>>, <<1, 0>>, <<3, 3>>, <<2, 199>>, <<4, 11>> >>

\* Offset from COM1 and value.
InitWrites == << <<1, 0>>, <<3, 128>>, <<0, 3>>, <<1, 0>>, <<3, 3>>, <<2, 199>>, <<4, 11>> >>

Initialised == inited = Len(InitWrites)

Init ==
  /\ pc = [w \in Writer |-> IF w = BSP THEN "init" ELSE "start"]
  /\ sent = [w \in Writer |-> 0]
  /\ inited = 0
  /\ serial_lock = 0
  /\ latch = FALSE
  /\ divisor = None
  /\ holding = None
  /\ wire = <<>>
  /\ early = {}

-----------------------------------------------------------------------------
(* The port. Writing 199 to the FIFO control register empties the FIFO.      *)

outb(offset, byte) ==
  /\ latch'   = IF offset = 3 THEN byte.n >= 128 ELSE latch
  /\ divisor' = IF offset = 0 /\ latch THEN byte ELSE divisor
  /\ holding' = IF offset = 0 /\ ~latch THEN byte ELSE IF offset = 2 THEN None ELSE holding

Transmit ==
  /\ holding # None
  /\ wire' = Append(wire, holding)
  /\ holding' = None
  /\ UNCHANGED <<pc, sent, inited, serial_lock, latch, divisor, early>>

-----------------------------------------------------------------------------

serial_init ==
  /\ pc[BSP] = "init"
  /\ LET write == InitWrites[inited + 1] IN outb(write[1], Value(write[2]))
  /\ inited' = inited + 1
  /\ pc' = IF inited + 1 = Len(InitWrites) THEN [pc EXCEPT ![BSP] = "start"] ELSE pc
  /\ UNCHANGED <<sent, serial_lock, wire, early>>

\* Mutant: printing without the lock.
StartUnlocked(w) ==
  /\ pc[w] = "start"
  /\ pc' = [pc EXCEPT ![w] = "wait"]
  /\ UNCHANGED <<sent, inited, serial_lock, latch, divisor, holding, wire, early>>

Start(w) ==
  /\ pc[w] = "start"
  /\ serial_lock = 0
  /\ serial_lock' = 1
  /\ pc' = [pc EXCEPT ![w] = "wait"]
  /\ UNCHANGED <<sent, inited, latch, divisor, holding, wire, early>>

\* serial_write polls until serial_can_send says that the port has room.
CanSend(w) ==
  /\ pc[w] = "wait"
  /\ holding = None
  /\ pc' = [pc EXCEPT ![w] = "send"]
  /\ UNCHANGED <<sent, inited, serial_lock, latch, divisor, holding, wire, early>>

\* Mutant: one test of the port for two bytes.
SendTwo(w) ==
  /\ pc[w] = "send"
  /\ outb(0, [from |-> w, n |-> sent[w] + 1])
  /\ sent' = [sent EXCEPT ![w] = @ + 1]
  /\ pc' = [pc EXCEPT ![w] = IF sent'[w] = LINE THEN "printed" ELSE IF sent'[w] % 2 = 1 THEN "send" ELSE "wait"]
  /\ early' = IF Initialised THEN early ELSE early \cup {w}
  /\ UNCHANGED <<inited, serial_lock, wire>>

\* Mutant: the byte that ends the string is sent as well.
SendTerminator(w) ==
  /\ pc[w] = "send"
  /\ outb(0, [from |-> w, n |-> sent[w] + 1])
  /\ sent' = [sent EXCEPT ![w] = @ + 1]
  /\ pc' = [pc EXCEPT ![w] = IF sent[w] = LINE THEN "printed" ELSE "wait"]
  /\ early' = IF Initialised THEN early ELSE early \cup {w}
  /\ UNCHANGED <<inited, serial_lock, wire>>

Send(w) ==
  /\ pc[w] = "send"
  /\ outb(0, [from |-> w, n |-> sent[w] + 1])
  /\ sent' = [sent EXCEPT ![w] = @ + 1]
  /\ pc' = [pc EXCEPT ![w] = IF sent'[w] = LINE THEN "printed" ELSE "wait"]
  /\ early' = IF Initialised THEN early ELSE early \cup {w}
  /\ UNCHANGED <<inited, serial_lock, wire>>

\* Mutant: the lock is kept.
FinishLocked(w) ==
  /\ pc[w] = "printed"
  /\ pc' = [pc EXCEPT ![w] = "done"]
  /\ UNCHANGED <<sent, inited, serial_lock, latch, divisor, holding, wire, early>>

Finish(w) ==
  /\ pc[w] = "printed"
  /\ serial_lock' = 0
  /\ pc' = [pc EXCEPT ![w] = "done"]
  /\ UNCHANGED <<sent, inited, latch, divisor, holding, wire, early>>

PrintLine(w) == Start(w) \/ CanSend(w) \/ Send(w) \/ Finish(w)

Next == Transmit \/ serial_init \/ \E w \in Writer : PrintLine(w)

Spec == Init /\ [][Next]_vars

\* The port transmits, and every processor keeps executing.
FairSpec ==
  /\ Spec
  /\ WF_vars(Transmit) /\ WF_vars(serial_init)
  /\ \A w \in Writer : WF_vars(PrintLine(w))

-----------------------------------------------------------------------------

ConsoleTypeOK ==
  /\ pc \in [Writer -> {"init", "start", "wait", "send", "printed", "done"}]
  /\ sent \in [Writer -> 0 .. LINE]
  /\ inited \in 0 .. Len(InitWrites)
  /\ serial_lock \in {0, 1}
  /\ latch \in BOOLEAN
  /\ divisor \in Byte \cup {None} /\ holding \in Byte \cup {None}
  /\ wire \in Seq(Byte)
  /\ early \in SUBSET Task

\* Everything that has got past the divisor latch, in order.
Out == IF holding = None THEN wire ELSE Append(wire, holding)

\* No two lines are mixed: what comes out between two bytes of a line is of that line,
\* and its bytes keep their order, even those of lines printed while serial_init runs.
LinesUnbroken ==
  \A i, j \in 1 .. Len(Out) :
    i < j /\ Out[i].from = Out[j].from =>
      /\ Out[i].n < Out[j].n
      /\ \A k \in i .. j : Out[k].from = Out[i].from

\* serial_write tests the port and writes to it in two steps; what it found is still so
\* when it writes: no byte is put on top of one that waits.
NothingOverwritten == \A w \in Writer : pc[w] = "send" => holding = None

\* A line that was begun after serial_init comes out whole, kmain's greeting always,
\* whatever was going on before.
LateLinesWhole ==
  \A w \in Writer \ early : \A n \in 1 .. sent[w] :
    \E i \in 1 .. Len(Out) : Out[i] = [from |-> w, n |-> n]

\* serial_init leaves the port at its divisor and the latch closed, unless a task printed
\* while it was at it.
RateKept == Initialised => ~latch /\ (early = {} => divisor = Value(3))

\* Every line is printed and transmitted in the end.
AllPrinted == <>[](holding = None /\ \A w \in Writer : pc[w] = "done")

-----------------------------------------------------------------------------
(* The inductive invariant behind the safety properties (ConsoleProofs).     *)

Inside(w) == pc[w] \in {"wait", "send", "printed"}

LockHeld ==
  /\ \A w \in Writer : Inside(w) => serial_lock = 1
  /\ \A v, w \in Writer : Inside(v) /\ Inside(w) => v = w

Progress ==
  /\ \A w \in Writer : pc[w] \in {"init", "start"} => sent[w] = 0
  /\ \A w \in Writer : pc[w] \in {"wait", "send"} => sent[w] < LINE
  /\ \A t \in Task : pc[t] # "init"
  /\ pc[BSP] = "init" <=> ~Initialised

\* What serial_init has done to the port so far, and who has got a byte to it meanwhile.
Port ==
  /\ latch <=> inited \in 2 .. 4
  /\ inited >= 3 /\ early = {} => divisor = Value(3)
  /\ ~Initialised => \A w \in Writer \ early : sent[w] = 0

\* Only writers' bytes come out, none ahead of its turn, and those of a line that is being
\* printed are the last ones.
LineLast ==
  /\ \A i \in 1 .. Len(Out) : Out[i].from \in Writer /\ Out[i].n \in 1 .. sent[Out[i].from]
  /\ \A i, j \in 1 .. Len(Out) : i < j /\ Inside(Out[i].from) => Out[j].from = Out[i].from

IInv ==
  /\ ConsoleTypeOK /\ LockHeld /\ Progress /\ Port /\ LineLast
  /\ LinesUnbroken /\ NothingOverwritten /\ LateLinesWhole
=============================================================================
