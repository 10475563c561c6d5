---------------------------- MODULE ConsoleProofs -----------------------------
(* The safety of Console for any tasks and any length of line: the inductive *)
(* invariant IInv and the properties that follow from it.                    *)
EXTENDS Console, TLAPS

USE ConsoleAssumption DEF Writer

\* What serial_init's seven writes are.
LEMMA Writes ==
  /\ Len(InitWrites) = 7
  /\ InitWrites[1] = <<1, 0>> /\ InitWrites[2] = <<3, 128>> /\ InitWrites[3] = <<0, 3>>
  /\ InitWrites[4] = <<1, 0>> /\ InitWrites[5] = <<3, 3>> /\ InitWrites[6] = <<2, 199>>
  /\ InitWrites[7] = <<4, 11>>
BY DEF InitWrites

\* What a write of serial_init does to the port.
LEMMA WriteValue ==
  ASSUME NEW offset \in Nat, NEW n \in Nat, outb(offset, Value(n))
  PROVE  /\ latch' = IF offset = 3 THEN n >= 128 ELSE latch
         /\ divisor' = IF offset = 0 /\ latch THEN Value(n) ELSE divisor
         /\ offset = 0 /\ latch => holding' = holding
         /\ offset \notin {0, 2} => holding' = holding
         /\ offset = 2 => holding' = None
<1>1. Value(n).n = n
  BY DEF Value
<1>2. latch' = IF offset = 3 THEN n >= 128 ELSE latch
  BY <1>1 DEF outb
<1>3. divisor' = IF offset = 0 /\ latch THEN Value(n) ELSE divisor
  BY DEF outb
<1>4. holding' = IF offset = 0 /\ ~latch THEN Value(n) ELSE IF offset = 2 THEN None ELSE holding
  BY DEF outb
<1>5. offset = 0 /\ latch => holding' = holding
  BY <1>4
<1>6. offset \notin {0, 2} => holding' = holding
  BY <1>4
<1>7. offset = 2 => holding' = None
  BY <1>4
<1> QED BY <1>2, <1>3, <1>5, <1>6, <1>7

\* What one step of serial_init does to the port, by the number of writes made.
LEMMA InitStep ==
  ASSUME ConsoleTypeOK, Progress, Port, serial_init
  PROVE  /\ inited \in 0 .. 6 /\ inited' = inited + 1
         /\ latch' \in BOOLEAN /\ (latch' <=> inited' \in 2 .. 4)
         /\ divisor' = IF inited = 2 THEN Value(3) ELSE divisor
         /\ holding' = IF inited = 5 THEN None ELSE holding
<1>1. inited \in 0 .. 6 /\ inited' = inited + 1
  BY Writes DEF serial_init, Progress, ConsoleTypeOK, Initialised
<1>2. \A k \in 0 .. 6 : inited = k => outb(InitWrites[k + 1][1], Value(InitWrites[k + 1][2]))
  BY DEF serial_init
<1>3. latch \in BOOLEAN /\ (latch <=> inited \in 2 .. 4)
  BY DEF Port, ConsoleTypeOK
<1>4. CASE inited = 0
  <2>1. outb(1, Value(0))
    BY <1>2, <1>4, Writes
  <2>2. latch' = latch
    BY <2>1, WriteValue
  <2>3. divisor' = divisor /\ holding' = holding
    BY <1>3, <1>4, <2>1, WriteValue
  <2> QED BY <1>1, <1>3, <1>4, <2>2, <2>3
<1>5. CASE inited = 1
  <2>1. outb(3, Value(128))
    BY <1>2, <1>5, Writes
  <2>2. latch' = TRUE
    <3>1. (128 >= 128) = TRUE
      OBVIOUS
    <3> QED BY <2>1, <3>1, WriteValue
  <2>3. divisor' = divisor /\ holding' = holding
    BY <1>3, <1>5, <2>1, WriteValue
  <2> QED BY <1>1, <1>3, <1>5, <2>2, <2>3
<1>6. CASE inited = 2
  <2>1. outb(0, Value(3))
    BY <1>2, <1>6, Writes
  <2>2. latch' = latch
    BY <2>1, WriteValue
  <2>3. divisor' = Value(3) /\ holding' = holding
    <3>1. latch = TRUE
      BY <1>3, <1>6
    <3> QED BY <2>1, <3>1, WriteValue
  <2> QED BY <1>1, <1>3, <1>6, <2>2, <2>3
<1>7. CASE inited = 3
  <2>1. outb(1, Value(0))
    BY <1>2, <1>7, Writes
  <2>2. latch' = latch
    BY <2>1, WriteValue
  <2>3. divisor' = divisor /\ holding' = holding
    <3>1. 1 # 0 /\ 1 \notin {0, 2}
      OBVIOUS
    <3> QED BY <2>1, <3>1, WriteValue
  <2> QED BY <1>1, <1>3, <1>7, <2>2, <2>3
<1>8. CASE inited = 4
  <2>1. outb(3, Value(3))
    BY <1>2, <1>8, Writes
  <2>2. latch' = FALSE
    <3>1. (3 >= 128) = FALSE
      OBVIOUS
    <3> QED BY <2>1, <3>1, WriteValue
  <2>3. divisor' = divisor /\ holding' = holding
    <3>1. 3 # 0 /\ 3 \notin {0, 2}
      OBVIOUS
    <3> QED BY <2>1, <3>1, WriteValue
  <2>4. inited' = 5 /\ ~(5 \in 2 .. 4) /\ 4 # 2 /\ 4 # 5
    BY <1>1, <1>8
  <2> QED BY <1>1, <1>8, <2>2, <2>3, <2>4
<1>9. CASE inited = 5
  <2>1. outb(2, Value(199))
    BY <1>2, <1>9, Writes
  <2>2. latch' = latch
    BY <2>1, WriteValue
  <2>3. divisor' = divisor /\ holding' = None
    BY <1>3, <1>9, <2>1, WriteValue
  <2> QED BY <1>1, <1>3, <1>9, <2>2, <2>3
<1>10. CASE inited = 6
  <2>1. outb(4, Value(11))
    BY <1>2, <1>10, Writes
  <2>2. latch' = latch
    BY <2>1, WriteValue
  <2>3. divisor' = divisor /\ holding' = holding
    BY <1>3, <1>10, <2>1, WriteValue
  <2> QED BY <1>1, <1>3, <1>10, <2>2, <2>3
<1> QED BY <1>1, <1>4, <1>5, <1>6, <1>7, <1>8, <1>9, <1>10

LEMMA Types ==
  ASSUME IInv, Next
  PROVE  ConsoleTypeOK'
<1>0. ConsoleTypeOK /\ Progress /\ Port
  BY DEF IInv
<1> USE <1>0, Writes DEF ConsoleTypeOK
<1>1. CASE Transmit
  BY <1>1 DEF Transmit
<1>2. CASE serial_init
  <2>1. Value(3) \in Byte
    BY DEF Value, Byte
  <2>2. /\ inited' = inited + 1 /\ inited \in 0 .. 6 /\ latch' \in BOOLEAN
        /\ divisor' \in Byte \cup {None} /\ holding' \in Byte \cup {None}
    BY <1>2, <2>1, InitStep
  <2>3. pc' \in [Writer -> {"init", "start", "wait", "send", "printed", "done"}]
    BY <1>2 DEF serial_init
  <2> QED BY <1>2, <2>2, <2>3 DEF serial_init
<1>3. ASSUME NEW w \in Writer, PrintLine(w) PROVE ConsoleTypeOK'
  <2>1. CASE Start(w) BY <2>1 DEF Start
  <2>2. CASE CanSend(w) BY <2>2 DEF CanSend
  <2>3. CASE Send(w)
    <3>1. sent[w] + 1 \in 0 .. LINE /\ [from |-> w, n |-> sent[w] + 1] \in Byte
      BY <2>3 DEF Send, Progress, Byte
    <3>2. ~Initialised => w \in Task
      BY <2>3 DEF Send, Progress
    <3> QED BY <2>3, <3>1, <3>2 DEF Send, outb
  <2>4. CASE Finish(w) BY <2>4 DEF Finish
  <2> QED BY <1>3, <2>1, <2>2, <2>3, <2>4 DEF PrintLine
<1> QED BY <1>1, <1>2, <1>3 DEF Next

LEMMA LockAndProgress ==
  ASSUME IInv, Next
  PROVE  LockHeld' /\ Progress'
<1>0. ConsoleTypeOK /\ LockHeld /\ Progress
  BY DEF IInv
<1> USE <1>0, Writes DEF ConsoleTypeOK, LockHeld, Progress, Inside, Initialised
<1>1. CASE Transmit
  BY <1>1 DEF Transmit
<1>2. CASE serial_init
  BY <1>2 DEF serial_init
<1>3. ASSUME NEW w \in Writer, PrintLine(w) PROVE LockHeld' /\ Progress'
  <2>1. CASE Start(w)
    <3>1. LockHeld' BY <2>1 DEF Start
    <3>2. Progress' BY <2>1 DEF Start
    <3> QED BY <3>1, <3>2
  <2>2. CASE CanSend(w) BY <2>2 DEF CanSend
  <2>3. CASE Send(w)
    <3>1. LockHeld' BY <2>3 DEF Send
    <3>2. Progress' BY <2>3 DEF Send
    <3> QED BY <3>1, <3>2
  <2>4. CASE Finish(w) BY <2>4 DEF Finish
  <2> QED BY <1>3, <2>1, <2>2, <2>3, <2>4 DEF PrintLine
<1> QED BY <1>1, <1>2, <1>3 DEF Next

LEMMA PortKept ==
  ASSUME IInv, Next
  PROVE  Port'
<1>0. ConsoleTypeOK /\ Progress /\ Port
  BY DEF IInv
<1> USE <1>0, Writes DEF Port
<1>1. CASE Transmit
  BY <1>1 DEF Transmit, Initialised
<1>2. CASE serial_init
  <2>1. early' = early /\ sent' = sent
    BY <1>2 DEF serial_init
  <2> QED BY <1>2, <2>1, InitStep DEF Initialised, ConsoleTypeOK
<1>3. ASSUME NEW w \in Writer, PrintLine(w) PROVE Port'
  <2>1. CASE Start(w) BY <2>1 DEF Start, Initialised
  <2>2. CASE CanSend(w) BY <2>2 DEF CanSend, Initialised
  <2>3. CASE Send(w)
    <3>1. latch' = latch /\ inited' = inited
      BY <2>3 DEF Send, outb
    <3>2. early' = {} => divisor' = divisor /\ early = {}
      <4>1. SUFFICES ASSUME early' = {} PROVE divisor' = divisor /\ early = {}
        OBVIOUS
      <4>2. Initialised /\ early = {}
        BY <2>3, <4>1 DEF Send
      <4>3. latch = FALSE
        BY <4>2 DEF Initialised, ConsoleTypeOK
      <4> QED BY <2>3, <4>2, <4>3 DEF Send, outb
    <3>3. ~Initialised' => \A v \in Writer \ early' : sent'[v] = 0
      BY <2>3, <3>1 DEF Send, Initialised, ConsoleTypeOK
    <3> QED BY <3>1, <3>2, <3>3
  <2>4. CASE Finish(w) BY <2>4 DEF Finish, Initialised
  <2> QED BY <1>3, <2>1, <2>2, <2>3, <2>4 DEF PrintLine
<1> QED BY <1>1, <1>2, <1>3 DEF Next

\* No byte is put on top of one that waits, by a writer or by serial_init.
LEMMA NothingOverwrittenKept ==
  ASSUME IInv, Next
  PROVE  NothingOverwritten'
<1>0. ConsoleTypeOK /\ LockHeld /\ Progress /\ Port /\ NothingOverwritten
  BY DEF IInv
<1> USE <1>0 DEF NothingOverwritten
<1>1. CASE Transmit
  BY <1>1 DEF Transmit
<1>2. CASE serial_init
  <2>1. \A w \in Writer : pc'[w] = "send" => pc[w] = "send"
    BY <1>2 DEF serial_init, ConsoleTypeOK
  <2> QED BY <1>2, <2>1, InitStep
<1>3. ASSUME NEW w \in Writer, PrintLine(w) PROVE NothingOverwritten'
  <2>1. CASE Start(w) BY <2>1 DEF Start, ConsoleTypeOK
  <2>2. CASE CanSend(w) BY <2>2 DEF CanSend, ConsoleTypeOK
  <2>3. CASE Send(w)
    <3>1. \A v \in Writer : pc'[v] # "send"
      BY <2>3 DEF Send, LockHeld, Inside, ConsoleTypeOK
    <3> QED BY <3>1
  <2>4. CASE Finish(w) BY <2>4 DEF Finish, ConsoleTypeOK
  <2> QED BY <1>3, <2>1, <2>2, <2>3, <2>4 DEF PrintLine
<1> QED BY <1>1, <1>2, <1>3 DEF Next

-----------------------------------------------------------------------------
(* What has come out of the port.                                            *)

Sent(w) == [from |-> w, n |-> sent[w] + 1]

LEMMA OutType ==
  ASSUME ConsoleTypeOK
  PROVE  Out \in Seq(Byte) /\ None \notin Byte
<1>1. None \notin Byte
  BY DEF Byte
<1> QED BY <1>1 DEF Out, ConsoleTypeOK

\* The transmitter, and every step of serial_init but one, leave what has come out alone.
LEMMA OutOfTransmit ==
  ASSUME ConsoleTypeOK, Transmit
  PROVE  Out' = Out
BY DEF Out, Transmit

\* Emptying the FIFO takes at most the last byte away.
LEMMA OutOfInit ==
  ASSUME IInv, serial_init
  PROVE  /\ Out' \in Seq(Byte)
         /\ \/ Out' = Out
            \/ /\ inited = 5
               /\ Len(Out') \in Nat /\ Len(Out) = Len(Out') + 1
               /\ \A i \in 1 .. Len(Out') : Out'[i] = Out[i]
<1>1. wire \in Seq(Byte) /\ wire' = wire /\ holding \in Byte \cup {None} /\ None \notin Byte
  BY OutType DEF IInv, ConsoleTypeOK, serial_init
<1>2. holding' = IF inited = 5 THEN None ELSE holding
  BY InitStep DEF IInv
<1>3. CASE holding' = holding
  BY <1>1, <1>3, OutType DEF Out, IInv
<1>4. CASE inited = 5 /\ holding # None
  <2>1. Out' = wire /\ Out = Append(wire, holding)
    BY <1>1, <1>2, <1>4 DEF Out
  <2> QED BY <1>1, <1>4, <2>1
<1> QED BY <1>2, <1>3, <1>4

\* A byte sent comes out last, unless it goes to the divisor.
LEMMA OutOfSend ==
  ASSUME IInv, NEW w \in Writer, Send(w)
  PROVE  IF latch THEN Out' = Out ELSE Out' = Append(Out, Sent(w))
<1>1. holding = None /\ wire' = wire /\ Sent(w) \in Byte
  BY DEF IInv, NothingOverwritten, Send, Sent, Byte, ConsoleTypeOK
<1>2. holding' = IF latch THEN holding ELSE Sent(w)
  BY DEF Send, outb, Sent
<1>3. Sent(w) # None
  BY <1>1, OutType DEF IInv
<1> QED BY <1>1, <1>2, <1>3 DEF Out

\* A line begun after serial_init is whole: until then nothing has been sent by a writer
\* that is not in early, and nothing is lost any more afterwards.
LEMMA LateLinesKept ==
  ASSUME IInv, Next
  PROVE  LateLinesWhole'
<1>0. ConsoleTypeOK /\ Port /\ LateLinesWhole /\ Out \in Seq(Byte)
  BY OutType DEF IInv
<1>a. ASSUME Out' = Out, sent' = sent, early \subseteq early' PROVE LateLinesWhole'
  BY <1>0, <1>a DEF LateLinesWhole
<1>1. CASE Transmit
  BY <1>0, <1>1, <1>a, OutOfTransmit DEF Transmit
<1>2. CASE serial_init
  <2>1. sent' = sent /\ early' = early
    BY <1>2 DEF serial_init
  <2>2. CASE Out' = Out
    BY <1>a, <2>1, <2>2
  <2>3. CASE inited = 5
    <3>1. \A w \in Writer \ early : sent[w] = 0
      BY <1>0, <2>3, Writes DEF Port, Initialised
    <3> QED BY <2>1, <3>1 DEF LateLinesWhole
  <2> QED BY <1>2, <2>2, <2>3, OutOfInit
<1>3. ASSUME NEW w \in Writer, PrintLine(w) PROVE LateLinesWhole'
  <2>1. CASE Start(w) BY <2>1, <1>a DEF Start, Out
  <2>2. CASE CanSend(w) BY <2>2, <1>a DEF CanSend, Out
  <2>3. CASE Send(w)
    <3>1. sent' = [sent EXCEPT ![w] = @ + 1] /\ early \subseteq early'
      BY <2>3 DEF Send
    <3>2. latch => ~Initialised
      BY <1>0, Writes DEF Port, Initialised
    <3>3. CASE latch
      <4>1. Out' = Out /\ w \in early'
        BY <2>3, <3>2, <3>3, OutOfSend DEF Send
      <4> QED BY <1>0, <3>1, <4>1 DEF LateLinesWhole, ConsoleTypeOK
    <3>4. CASE ~latch
      <4>1. Out' = Append(Out, Sent(w)) /\ Sent(w) \in Byte
        BY <1>0, <2>3, <3>4, OutOfSend DEF Sent, Byte, ConsoleTypeOK
      <4>2. /\ Len(Out') = Len(Out) + 1 /\ Len(Out) \in Nat
            /\ Out'[Len(Out) + 1] = Sent(w)
            /\ \A i \in 1 .. Len(Out) : Out'[i] = Out[i]
        BY <1>0, <4>1
      <4> SUFFICES ASSUME NEW v \in Writer \ early', NEW n \in 1 .. sent'[v]
                   PROVE  \E i \in 1 .. Len(Out') : Out'[i] = [from |-> v, n |-> n]
        BY DEF LateLinesWhole
      <4>3. CASE n \in 1 .. sent[v]
        <5>1. PICK i \in 1 .. Len(Out) : Out[i] = [from |-> v, n |-> n]
          BY <1>0, <3>1, <4>3 DEF LateLinesWhole
        <5>2. i \in 1 .. Len(Out') /\ Out'[i] = [from |-> v, n |-> n]
          BY <4>2, <5>1
        <5> QED BY <5>2
      <4>4. CASE n \notin 1 .. sent[v]
        <5>1. v = w /\ n = sent[w] + 1
          BY <1>0, <3>1, <4>4 DEF ConsoleTypeOK
        <5>2. Out'[Len(Out) + 1] = [from |-> v, n |-> n] /\ Len(Out) + 1 \in 1 .. Len(Out')
          BY <4>2, <5>1 DEF Sent
        <5> QED BY <5>2
      <4> QED BY <4>3, <4>4
    <3> QED BY <3>3, <3>4
  <2>4. CASE Finish(w) BY <2>4, <1>a DEF Finish, Out
  <2> QED BY <1>3, <2>1, <2>2, <2>3, <2>4 DEF PrintLine
<1> QED BY <1>1, <1>2, <1>3 DEF Next

\* The bytes of a line in progress are the last ones, so that nothing gets between them
\* and the next.
LEMMA LinesKept ==
  ASSUME IInv, Next
  PROVE  LineLast' /\ LinesUnbroken'
<1>0. /\ ConsoleTypeOK /\ LockHeld /\ Progress /\ LineLast /\ LinesUnbroken
      /\ Out \in Seq(Byte) /\ Len(Out) \in Nat
  BY OutType DEF IInv
\* A step that adds nothing to what has come out, and puts no writer into its line that
\* has sent anything.
<1>a. ASSUME Len(Out') \in Nat, Len(Out') <= Len(Out),
             \A i \in 1 .. Len(Out') : Out'[i] = Out[i],
             \A v \in Writer : sent'[v] = sent[v] \/ sent'[v] = sent[v] + 1,
             \A v \in Writer : Inside(v)' => Inside(v) \/ sent[v] = 0
      PROVE  LineLast' /\ LinesUnbroken'
  <2>1. \A i \in 1 .. Len(Out') : i \in 1 .. Len(Out) /\ Out'[i] = Out[i]
    BY <1>0, <1>a
  <2>2. ASSUME NEW i \in 1 .. Len(Out')
        PROVE  /\ Out'[i].from \in Writer /\ Out'[i].n \in 1 .. sent'[Out'[i].from]
               /\ sent[Out'[i].from] # 0
    <3>1. Out[i].from \in Writer /\ Out[i].n \in 1 .. sent[Out[i].from] /\ Out'[i] = Out[i]
      BY <1>0, <2>1 DEF LineLast
    <3>2. sent[Out[i].from] \in Nat
      BY <1>0, <3>1 DEF ConsoleTypeOK
    <3> QED BY <1>a, <3>1, <3>2
  <2>3. ASSUME NEW i \in 1 .. Len(Out'), NEW j \in 1 .. Len(Out'), i < j, pc'[Out'[i].from] \in {"wait", "send", "printed"}
        PROVE  Out'[j].from = Out'[i].from
    <3>1. Inside(Out'[i].from)
      BY <1>a, <2>2, <2>3 DEF Inside
    <3> QED BY <1>0, <2>1, <2>3, <3>1 DEF LineLast
  <2>4. LineLast'
    BY <2>2, <2>3 DEF LineLast, Inside
  <2>5. LinesUnbroken'
    <3> SUFFICES ASSUME NEW i \in 1 .. Len(Out'), NEW j \in 1 .. Len(Out'),
                        i < j, Out'[i].from = Out'[j].from
                 PROVE  /\ Out'[i].n < Out'[j].n
                        /\ \A k \in i .. j : Out'[k].from = Out'[i].from
      BY DEF LinesUnbroken
    <3>1. /\ Out[i].n < Out[j].n
          /\ \A k \in i .. j : Out[k].from = Out[i].from
      BY <1>0, <2>1 DEF LinesUnbroken
    <3>2. \A k \in i .. j : k \in 1 .. Len(Out')
      BY <1>a
    <3> QED BY <2>1, <3>1, <3>2
  <2> QED BY <2>4, <2>5
<1>1. CASE Transmit
  <2>1. Out' = Out /\ sent' = sent /\ pc' = pc
    BY <1>0, <1>1, OutOfTransmit DEF Transmit
  <2> QED BY <1>0, <1>a, <2>1 DEF Inside
<1>2. CASE serial_init
  <2>1. sent' = sent
    BY <1>2 DEF serial_init
  <2>2. \A v \in Writer : Inside(v)' => Inside(v)
    BY <1>0, <1>2 DEF serial_init, Inside, ConsoleTypeOK
  <2> QED BY <1>0, <1>2, <1>a, <2>1, <2>2, OutOfInit
<1>3. ASSUME NEW w \in Writer, PrintLine(w) PROVE LineLast' /\ LinesUnbroken'
  <2>1. CASE Start(w)
    <3>1. Out' = Out /\ sent' = sent /\ sent[w] = 0
      BY <1>0, <2>1 DEF Start, Out, Progress
    <3>2. \A v \in Writer : Inside(v)' => Inside(v) \/ v = w
      BY <1>0, <2>1 DEF Start, Inside, ConsoleTypeOK
    <3> QED BY <1>0, <1>a, <3>1, <3>2
  <2>2. CASE CanSend(w)
    <3>1. Out' = Out /\ sent' = sent
      BY <2>2 DEF CanSend, Out
    <3>2. \A v \in Writer : Inside(v)' => Inside(v)
      BY <1>0, <2>2 DEF CanSend, Inside, ConsoleTypeOK
    <3> QED BY <1>0, <1>a, <3>1, <3>2
  <2>3. CASE Send(w)
    <3>1. /\ sent' = [sent EXCEPT ![w] = sent[w] + 1] /\ sent[w] \in Nat
          /\ \A v \in Writer : sent[v] \in Nat /\ (sent'[v] = sent[v] \/ sent'[v] = sent[v] + 1)
      BY <1>0, <2>3 DEF Send, ConsoleTypeOK
    <3>2. Inside(w) /\ \A v \in Writer : Inside(v)' => Inside(v)
      BY <1>0, <2>3 DEF Send, Inside, ConsoleTypeOK
    <3>3. \A v \in Writer : Inside(v) => v = w
      BY <1>0, <3>2 DEF LockHeld
    <3>4. CASE latch
      BY <1>0, <1>a, <2>3, <3>1, <3>2, <3>4, OutOfSend
    <3>5. CASE ~latch
      <4>1. Out' = Append(Out, Sent(w)) /\ Sent(w) \in Byte
        BY <1>0, <2>3, <3>1, <3>5, OutOfSend DEF Sent, Byte
      <4>2. Sent(w).from = w /\ Sent(w).n = sent[w] + 1
        BY DEF Sent
      <4>3. /\ Len(Out') = Len(Out) + 1
            /\ \A i \in 1 .. Len(Out') :
                 \/ i \in 1 .. Len(Out) /\ Out'[i] = Out[i]
                 \/ i = Len(Out) + 1 /\ Out'[i] = Sent(w)
        BY <1>0, <4>1
      <4>4. \A i \in 1 .. Len(Out) : Out[i].from \in Writer /\ Out[i].n \in 1 .. sent[Out[i].from]
        BY <1>0 DEF LineLast
      <4>5. \A i, j \in 1 .. Len(Out) : i < j /\ Out[i].from = w => Out[j].from = w
        BY <1>0, <3>2 DEF LineLast
      <4>6. ASSUME NEW i \in 1 .. Len(Out')
            PROVE  Out'[i].from \in Writer /\ Out'[i].n \in 1 .. sent'[Out'[i].from]
        <5>1. CASE i \in 1 .. Len(Out) /\ Out'[i] = Out[i]
          BY <3>1, <4>4, <5>1
        <5>2. CASE Out'[i] = Sent(w)
          <6>1. sent'[w] = sent[w] + 1
            BY <1>0, <3>1 DEF ConsoleTypeOK
          <6> QED BY <3>1, <4>2, <5>2, <6>1
        <5> QED BY <4>3, <5>1, <5>2
      <4>7. ASSUME NEW i \in 1 .. Len(Out'), NEW j \in 1 .. Len(Out'), i < j, pc'[Out'[i].from] \in {"wait", "send", "printed"}
            PROVE  Out'[j].from = Out'[i].from
        <5>1. Out'[i].from = w
          BY <3>2, <3>3, <4>6, <4>7 DEF Inside
        <5>2. i \in 1 .. Len(Out) /\ Out'[i] = Out[i]
          BY <1>0, <4>3, <4>7
        <5> QED BY <4>2, <4>3, <4>5, <4>7, <5>1, <5>2
      <4>8. ASSUME NEW i \in 1 .. Len(Out'), NEW j \in 1 .. Len(Out'),
                   i < j, Out'[i].from = Out'[j].from
            PROVE  /\ Out'[i].n < Out'[j].n
                   /\ \A k \in i .. j : Out'[k].from = Out'[i].from
        <5>1. i \in 1 .. Len(Out) /\ Out'[i] = Out[i]
          BY <1>0, <4>3, <4>8
        <5>2. CASE j \in 1 .. Len(Out) /\ Out'[j] = Out[j]
          <6>1. \A k \in i .. j : k \in 1 .. Len(Out) /\ k \in 1 .. Len(Out') /\ k # Len(Out) + 1
            BY <1>0, <4>3, <5>1, <5>2
          <6>2. /\ Out[i].n < Out[j].n
                /\ \A k \in i .. j : Out[k].from = Out[i].from
            BY <1>0, <4>8, <5>1, <5>2 DEF LinesUnbroken
          <6> QED BY <4>3, <5>1, <5>2, <6>1, <6>2
        <5>3. CASE j = Len(Out) + 1 /\ Out'[j] = Sent(w)
          <6>1. Out[i].from = w /\ Out[i].n <= sent[w] /\ Out[i].n \in Nat
            BY <3>1, <4>2, <4>4, <4>8, <5>1, <5>3
          <6>2. ASSUME NEW k \in i .. j PROVE Out'[k].from = w
            <7>1. k \in 1 .. Len(Out') /\ (k = i \/ i < k)
              BY <1>0, <4>3, <5>1, <5>3
            <7> QED BY <4>2, <4>3, <4>5, <5>1, <6>1, <7>1
          <6> QED BY <3>1, <4>2, <5>1, <5>3, <6>1, <6>2
        <5> QED BY <4>3, <5>2, <5>3
      <4>9. LineLast'
        BY <4>6, <4>7 DEF LineLast, Inside
      <4>10. LinesUnbroken'
        BY <4>8 DEF LinesUnbroken
      <4> QED BY <4>9, <4>10
    <3> QED BY <3>4, <3>5
  <2>4. CASE Finish(w)
    <3>1. Out' = Out /\ sent' = sent
      BY <2>4 DEF Finish, Out
    <3>2. \A v \in Writer : Inside(v)' => Inside(v)
      BY <1>0, <2>4 DEF Finish, Inside, ConsoleTypeOK
    <3> QED BY <1>0, <1>a, <3>1, <3>2
  <2> QED BY <1>3, <2>1, <2>2, <2>3, <2>4 DEF PrintLine
<1> QED BY <1>1, <1>2, <1>3 DEF Next

-----------------------------------------------------------------------------

LEMMA InitInductive == Init => IInv
<1> SUFFICES ASSUME Init PROVE IInv
  OBVIOUS
<1>1. Len(InitWrites) = 7
  BY Writes
<1>2. pc = [w \in Writer |-> IF w = BSP THEN "init" ELSE "start"] /\ sent = [w \in Writer |-> 0]
  BY DEF Init
<1>3. /\ pc[BSP] = "init" /\ \A t \in Task : pc[t] = "start"
      /\ \A w \in Writer : sent[w] = 0 /\ pc[w] \in {"init", "start"}
  BY <1>2
<1>4. ~Initialised
  BY <1>1 DEF Init, Initialised
<1>5. /\ pc \in [Writer -> {"init", "start", "wait", "send", "printed", "done"}]
      /\ sent \in [Writer -> 0 .. LINE]
  BY <1>2
<1>6. inited \in 0 .. Len(InitWrites) /\ serial_lock \in {0, 1} /\ wire \in Seq(Byte)
  BY <1>1 DEF Init
<1>7. /\ latch \in BOOLEAN /\ early \in SUBSET Task
      /\ divisor \in Byte \cup {None} /\ holding \in Byte \cup {None}
  BY DEF Init
<1>8. ConsoleTypeOK
  BY <1>5, <1>6, <1>7 DEF ConsoleTypeOK
<1>9. LockHeld /\ Progress
  BY <1>3, <1>4 DEF LockHeld, Progress, Inside
<1>10. latch = FALSE /\ inited = 0 /\ 0 \notin 2 .. 4 /\ ~(0 >= 3)
  BY DEF Init
<1>11. Port
  BY <1>3, <1>10 DEF Port
<1>12. Out = <<>> /\ Len(Out) = 0
  BY DEF Init, Out
<1>13. LineLast /\ LinesUnbroken /\ NothingOverwritten /\ LateLinesWhole
  BY <1>12 DEF Init, LineLast, LinesUnbroken, NothingOverwritten, LateLinesWhole
<1> QED BY <1>8, <1>13, <1>9, <1>11 DEF IInv

\* The inductive invariant of the console: the lock, the port as serial_init has left it
\* so far, and what has come out of it.
THEOREM ConsoleInductive == Spec => []IInv
<1>1. IInv /\ [Next]_vars => IInv'
  <2> SUFFICES ASSUME IInv, [Next]_vars PROVE IInv'
    OBVIOUS
  <2>1. CASE Next
    BY <2>1, Types, LockAndProgress, PortKept, NothingOverwrittenKept, LateLinesKept, LinesKept DEF IInv
  <2>2. CASE UNCHANGED vars
    <3> USE <2>2 DEF vars, IInv
    <3>1. ConsoleTypeOK' /\ LockHeld' /\ Progress'
      BY DEF ConsoleTypeOK, LockHeld, Progress, Inside, Initialised
    <3>2. Port' /\ NothingOverwritten'
      BY DEF Port, NothingOverwritten, Initialised
    <3>3. Out' = Out
      BY DEF Out
    <3>4. LineLast'
      BY <3>3 DEF LineLast, Inside
    <3>5. LinesUnbroken' /\ LateLinesWhole'
      BY <3>3 DEF LinesUnbroken, LateLinesWhole
    <3> QED BY <3>1, <3>2, <3>4, <3>5
  <2> QED BY <2>1, <2>2
<1> QED BY <1>1, InitInductive, PTL DEF Spec

\* Every byte written, waiting or transmitted is one the kernel wrote, and no line grows
\* beyond its length.
THEOREM ConsoleTypes == Spec => []ConsoleTypeOK
<1>1. IInv => ConsoleTypeOK
  BY DEF IInv
<1> QED BY <1>1, ConsoleInductive, PTL

\* Lines printed under serial_lock are never mixed, whatever serial_init does meanwhile.
THEOREM ConsoleLines == Spec => []LinesUnbroken
<1>1. IInv => LinesUnbroken
  BY DEF IInv
<1> QED BY <1>1, ConsoleInductive, PTL

\* The port is still ready when serial_write writes to it.
THEOREM ConsoleKeepsBytes == Spec => []NothingOverwritten
<1>1. IInv => NothingOverwritten
  BY DEF IInv
<1> QED BY <1>1, ConsoleInductive, PTL

\* A line begun after serial_init comes out whole.
THEOREM ConsoleLateLines == Spec => []LateLinesWhole
<1>1. IInv => LateLinesWhole
  BY DEF IInv
<1> QED BY <1>1, ConsoleInductive, PTL

\* serial_init leaves the latch closed, and its divisor unless a task printed meanwhile.
THEOREM ConsoleRate == Spec => []RateKept
<1>1. IInv => RateKept
  BY Writes DEF IInv, Port, RateKept, Initialised
<1> QED BY <1>1, ConsoleInductive, PTL
=============================================================================
