------------------------------ MODULE Scheduler ------------------------------
(***************************************************************************)
(* The cooperative multiprocessor scheduler of the kernel: kmain creates   *)
(* the work tasks on the boot processor and releases the application       *)
(* processors; each of them creates its own idle task in ap_entry, and its *)
(* idle loop takes tasks off the one global list, switches to them and is  *)
(* switched back to by task_exit.                                          *)
(*                                                                         *)
(* The idle task of processor c is named c.  Registers are abstracted to   *)
(* the one that decides who runs where: rsp[c] is the task into whose      *)
(* stack processor c's stack pointer points.                               *)
(***************************************************************************)
EXTENDS Naturals, Sequences

CONSTANTS
  CPU,   \* the application processors; each is also the name of its idle task
  Work,  \* the factorial and fibonacci tasks that kmain creates
  BSP,   \* the boot processor
  None   \* no task (NULL), or the bootloader's stack

Proc == CPU \cup {BSP}
Task == CPU \cup Work

\* A saved context: the stack its rsp points into, and what its return reaches there:
\* the trampoline words or the idle loop.
Context == [stack : Task, at : {"entry", "loop"}]

ASSUME SchedulerAssumption ==
  /\ CPU \cap Work = {}
  /\ BSP \notin CPU \cup Work
  /\ None \notin CPU \cup Work \cup {BSP}
  /\ None \notin Context

VARIABLES
  pc,       \* where each processor is in the code
  lock,     \* the byte of each of the three spin locks
  tasks,    \* the global list of runnable tasks, head first
  made,     \* the work tasks kmain's loop has put on the list
  making,   \* the work task kmain's loop is creating, or None
  current,  \* cpu_local->current_task of each application processor
  rsp,      \* the task whose stack each application processor is running on
  picked,   \* the idle loop's local variable t
  context,  \* the saved context of each task, None until task_init sets rsp in it
  words,    \* the four words task_init leaves on a task's stack
  done      \* history: the tasks that reached task_exit (its local variable done)

vars == <<pc, lock, tasks, made, making, current, rsp, picked, context, words, done>>

Lock == {"task_lock", "memory_lock", "serial_lock"}

-----------------------------------------------------------------------------
(* Program points. A point in a critical section is one the processor only   *)
(* leaves by releasing the lock.                                             *)

InKmalloc    == {"in_cpulocal", "in_task", "in_stack"}
InTaskLock   == {"append", "appended", "check", "unlock"}
InSerialLock == {"print", "greet"}

Inside(p, l) == \/ l = "memory_lock" /\ pc[p] \in InKmalloc
                \/ l = "task_lock"   /\ pc[p] \in InTaskLock
                \/ l = "serial_lock" /\ pc[p] \in InSerialLock

Creating == {"kmalloc_cpulocal", "kmalloc_task", "kmalloc_stack", "task_init", "enqueue"}
              \cup InKmalloc
IdlePoint == {"loop", "check", "unlock", "save", "restore"}
WorkPoint == {"compute", "print", "exit"}
Label == Creating \cup IdlePoint \cup WorkPoint \cup
         {"create", "append", "appended", "start_aps", "hello", "greet", "halted",
          "parked", "setup", "run", "trampoline", "wild"}

Init ==
  /\ pc      = [p \in Proc |-> IF p = BSP THEN "create" ELSE "parked"]
  /\ lock    = [l \in Lock |-> 0]
  /\ tasks   = <<>>
  /\ made    = {}
  /\ making  = None
  /\ current = [c \in CPU |-> None]
  /\ rsp     = [c \in CPU |-> None]
  /\ picked  = [c \in CPU |-> None]
  /\ context = [t \in Task |-> None]
  /\ words   = [t \in Task |-> "none"]
  /\ done    = {}

Goto(p, label) == pc' = [pc EXCEPT ![p] = label]

-----------------------------------------------------------------------------
(* Spin locks. A failed lock cmpxchgb leaves the byte as it is and the caller *)
(* tries again, so only the successful try is a step.                        *)

\* Mutant: a locked add whose result nobody looks at.
AcquireAlways(l) == lock' = [lock EXCEPT ![l] = @ + 1]

lock_acquire(l) == lock[l] = 0 /\ lock' = [lock EXCEPT ![l] = 1]
lock_release(l) == lock' = [lock EXCEPT ![l] = 0]

-----------------------------------------------------------------------------
(* Task creation, run by kmain for the work tasks and by ap_entry for the    *)
(* idle tasks: kmalloc the Task and its stack, fill the stack, append.       *)

Subject(p) == IF p = BSP THEN making ELSE p

NextTask ==      \* the head of kmain's creation loop
  /\ pc[BSP] = "create"
  /\ \/ \E w \in Work \ made : making' = w /\ Goto(BSP, "kmalloc_task")
     \/ made = Work /\ making' = None /\ Goto(BSP, "start_aps")
  /\ UNCHANGED <<lock, tasks, made, current, rsp, picked, context, words, done>>

\* kmalloc holds memory_lock from its first statement to its last; what it returns is
\* the allocator's affair (module Heap).
KmallocEnter(p) ==
  /\ lock_acquire("memory_lock")
  /\ \/ pc[p] = "kmalloc_cpulocal" /\ Goto(p, "in_cpulocal")
     \/ pc[p] = "kmalloc_task"     /\ Goto(p, "in_task")
     \/ pc[p] = "kmalloc_stack"    /\ Goto(p, "in_stack")
  /\ UNCHANGED <<tasks, made, making, current, rsp, picked, context, words, done>>

KmallocReturn(p) ==
  /\ lock_release("memory_lock")
  /\ \/ pc[p] = "in_cpulocal" /\ Goto(p, "kmalloc_task")
     \/ pc[p] = "in_task"     /\ Goto(p, "kmalloc_stack")
     \/ pc[p] = "in_stack"    /\ Goto(p, "task_init")
  /\ UNCHANGED <<tasks, made, making, current, rsp, picked, context, words, done>>

PrepareStack(p) ==
  /\ pc[p] = "task_init"
  /\ words'   = [words EXCEPT ![Subject(p)] = "intact"]
  /\ context' = [context EXCEPT ![Subject(p)] = [stack |-> Subject(p), at |-> "entry"]]
  /\ Goto(p, "enqueue")
  /\ UNCHANGED <<lock, tasks, made, making, current, rsp, picked, done>>

EnqueueLock(p) ==
  /\ pc[p] = "enqueue"
  /\ lock_acquire("task_lock")
  /\ Goto(p, "append")
  /\ UNCHANGED <<tasks, made, making, current, rsp, picked, context, words, done>>

\* Mutant: push at the head, the O(1) way to link a task.
PushTask(p) ==
  /\ pc[p] = "append"
  /\ tasks' = <<Subject(p)>> \o tasks
  /\ made'  = IF p = BSP THEN made \cup {making} ELSE made
  /\ Goto(p, "appended")
  /\ UNCHANGED <<lock, making, current, rsp, picked, context, words, done>>

AppendTask(p) ==
  /\ pc[p] = "append"
  /\ tasks' = Append(tasks, Subject(p))
  /\ made'  = IF p = BSP THEN made \cup {making} ELSE made
  /\ Goto(p, "appended")
  /\ UNCHANGED <<lock, making, current, rsp, picked, context, words, done>>

EnqueueUnlock(p) ==
  /\ pc[p] = "appended"
  /\ lock_release("task_lock")
  /\ Goto(p, IF p = BSP THEN "create" ELSE "setup")
  /\ UNCHANGED <<tasks, made, making, current, rsp, picked, context, words, done>>

-----------------------------------------------------------------------------
(* The rest of kmain: goto_address of each application processor, then the   *)
(* greeting under serial_lock, then halt. init_hardware, between the two,    *)
(* touches the serial port only.                                             *)

StartAP(c) ==
  /\ pc[BSP] = "start_aps"
  /\ pc[c] = "parked"
  /\ Goto(c, "kmalloc_cpulocal")
  /\ UNCHANGED <<lock, tasks, made, making, current, rsp, picked, context, words, done>>

AllStarted ==
  /\ pc[BSP] = "start_aps"
  /\ \A c \in CPU : pc[c] # "parked"
  /\ Goto(BSP, "hello")
  /\ UNCHANGED <<lock, tasks, made, making, current, rsp, picked, context, words, done>>

Hello ==
  /\ pc[BSP] = "hello"
  /\ lock_acquire("serial_lock")
  /\ Goto(BSP, "greet")
  /\ UNCHANGED <<tasks, made, making, current, rsp, picked, context, words, done>>

\* Mutant: the greeting is printed and the lock kept.
HaltLocked ==
  /\ pc[BSP] = "greet"
  /\ Goto(BSP, "halted")
  /\ UNCHANGED <<lock, tasks, made, making, current, rsp, picked, context, words, done>>

Halt ==
  /\ pc[BSP] = "greet"
  /\ lock_release("serial_lock")
  /\ Goto(BSP, "halted")
  /\ UNCHANGED <<tasks, made, making, current, rsp, picked, context, words, done>>

-----------------------------------------------------------------------------
(* Switching. Loading a context moves the stack pointer and returns through  *)
(* the word found there: into the trampoline for a context task_init made,   *)
(* to the top of the idle loop for one save_context made (the return word    *)
(* under a saved rsp is overwritten by the call to restore_context that      *)
(* follows, so it is that call which returns). A processor that loads a      *)
(* "loop" context onto a stack another processor is executing on returns     *)
(* through that processor's live frame: "wild".                              *)

Occupied(c, s) == \E d \in CPU \ {c} : rsp[d] = s

Load(c, t) ==
  LET s == context[t].stack IN
  /\ rsp' = [rsp EXCEPT ![c] = s]
  /\ Goto(c, IF context[t].at = "entry" THEN "trampoline"
             ELSE IF Occupied(c, s)     THEN "wild"
             ELSE "loop")

SetupCPULocal(c) ==
  /\ pc[c] = "setup"
  /\ current' = [current EXCEPT ![c] = c]
  /\ Goto(c, "run")
  /\ UNCHANGED <<lock, tasks, made, making, rsp, picked, context, words, done>>

task_run(c) ==
  /\ pc[c] = "run"
  /\ Load(c, c)
  /\ UNCHANGED <<lock, tasks, made, making, current, picked, context, words, done>>

\* The trampoline pops entry, task and task_exit; the entry's prologue then overwrites
\* the place of the second, so the words serve once. On words already overwritten the
\* processor jumps to a stale stack word.
task_trampoline(c) ==
  /\ pc[c] = "trampoline"
  /\ words' = [words EXCEPT ![rsp[c]] = "consumed"]
  /\ Goto(c, IF words[rsp[c]] # "intact" THEN "wild"
             ELSE IF rsp[c] \in CPU      THEN "loop"
             ELSE "compute")
  /\ UNCHANGED <<lock, tasks, made, making, current, rsp, picked, context, done>>

-----------------------------------------------------------------------------
(* idle_task_entry. The two spins on task_lock, at the top of the loop and   *)
(* inside the wait for a non-empty list, lead to the same test.              *)

LoopLock(c) ==
  /\ pc[c] = "loop"
  /\ lock_acquire("task_lock")
  /\ Goto(c, "check")
  /\ UNCHANGED <<tasks, made, making, current, rsp, picked, context, words, done>>

EmptyUnlock(c) ==
  /\ pc[c] = "check" /\ tasks = <<>>
  /\ lock_release("task_lock")
  /\ Goto(c, "loop")
  /\ UNCHANGED <<tasks, made, making, current, rsp, picked, context, words, done>>

\* Mutant: the head is read and left on the list.
Peek(c) ==
  /\ pc[c] = "check" /\ tasks # <<>>
  /\ picked' = [picked EXCEPT ![c] = Head(tasks)]
  /\ Goto(c, "unlock")
  /\ UNCHANGED <<lock, tasks, made, making, current, rsp, context, words, done>>

Dequeue(c) ==
  /\ pc[c] = "check" /\ tasks # <<>>
  /\ picked' = [picked EXCEPT ![c] = Head(tasks)]
  /\ tasks'  = Tail(tasks)
  /\ Goto(c, "unlock")
  /\ UNCHANGED <<lock, made, making, current, rsp, context, words, done>>

DequeueUnlock(c) ==
  /\ pc[c] = "unlock"
  /\ lock_release("task_lock")
  /\ Goto(c, "save")
  /\ UNCHANGED <<tasks, made, making, current, rsp, picked, context, words, done>>

\* Mutant: the registers are pushed and popped and never stored.
SkipSave(c) ==
  /\ pc[c] = "save"
  /\ Goto(c, "restore")
  /\ UNCHANGED <<lock, tasks, made, making, current, rsp, picked, context, words, done>>

\* Mutant: the context goes to the processor's idle task, not to its current task.
SaveToIdle(c) ==
  /\ pc[c] = "save"
  /\ context' = [context EXCEPT ![c] = [stack |-> rsp[c], at |-> "loop"]]
  /\ Goto(c, "restore")
  /\ UNCHANGED <<lock, tasks, made, making, current, rsp, picked, words, done>>

save_context(c) ==
  /\ pc[c] = "save"
  /\ context' = [context EXCEPT ![current[c]] = [stack |-> rsp[c], at |-> "loop"]]
  /\ Goto(c, "restore")
  /\ UNCHANGED <<lock, tasks, made, making, current, rsp, picked, words, done>>

SwitchTo(c) ==
  /\ pc[c] = "restore"
  /\ current' = [current EXCEPT ![c] = picked[c]]
  /\ Load(c, picked[c])
  /\ UNCHANGED <<lock, tasks, made, making, picked, context, words, done>>

-----------------------------------------------------------------------------
(* A work task: compute, print the result under serial_lock, return into     *)
(* task_exit.                                                                *)

PrintLock(c) ==
  /\ pc[c] = "compute"
  /\ lock_acquire("serial_lock")
  /\ Goto(c, "print")
  /\ UNCHANGED <<tasks, made, making, current, rsp, picked, context, words, done>>

\* Mutant: a return path that keeps the lock.
PrintKeep(c) ==
  /\ pc[c] = "print"
  /\ Goto(c, "exit")
  /\ UNCHANGED <<lock, tasks, made, making, current, rsp, picked, context, words, done>>

PrintUnlock(c) ==
  /\ pc[c] = "print"
  /\ lock_release("serial_lock")
  /\ Goto(c, "exit")
  /\ UNCHANGED <<tasks, made, making, current, rsp, picked, context, words, done>>

task_exit(c) ==
  /\ pc[c] = "exit"
  /\ done' = done \cup {current[c]}
  /\ current' = [current EXCEPT ![c] = c]
  /\ Load(c, c)
  /\ UNCHANGED <<lock, tasks, made, making, picked, context, words>>

-----------------------------------------------------------------------------
(* What a wild processor does next depends on the call the other processor   *)
(* made last and on two processors writing one frame, and no interrupt       *)
(* descriptor table is loaded to catch a fault: the model ends there.        *)

Wild == \E c \in CPU : pc[c] = "wild"

Create(p) ==
  \/ KmallocEnter(p) \/ KmallocReturn(p) \/ PrepareStack(p)
  \/ EnqueueLock(p)  \/ AppendTask(p)    \/ EnqueueUnlock(p)

BSPStep ==
  /\ ~Wild
  /\ \/ Create(BSP) \/ NextTask
     \/ \E c \in CPU : StartAP(c)
     \/ AllStarted \/ Hello \/ Halt

CPUStep(c) ==
  /\ ~Wild
  /\ \/ Create(c)     \/ SetupCPULocal(c) \/ task_run(c)  \/ task_trampoline(c)
     \/ LoopLock(c)   \/ EmptyUnlock(c)   \/ Dequeue(c)   \/ DequeueUnlock(c)
     \/ save_context(c) \/ SwitchTo(c)
     \/ PrintLock(c)  \/ PrintUnlock(c)   \/ task_exit(c)

Next == BSPStep \/ \E c \in CPU : CPUStep(c)

Spec == Init /\ [][Next]_vars

\* Every processor keeps executing instructions. A processor that spins on a held lock
\* is not promised the lock: weak fairness of its next step is all the hardware gives.
Fairness == WF_vars(BSPStep) /\ \A c \in CPU : WF_vars(CPUStep(c))

FairSpec == Spec /\ Fairness

-----------------------------------------------------------------------------

TypeOK ==
  /\ pc \in [Proc -> Label]
  /\ lock \in [Lock -> {0, 1}]
  /\ tasks \in Seq(Task)
  /\ made \in SUBSET Work
  /\ making \in Work \cup {None}
  /\ current \in [CPU -> Task \cup {None}]
  /\ rsp \in [CPU -> Task \cup {None}]
  /\ picked \in [CPU -> Task \cup {None}]
  /\ context \in [Task -> Context \cup {None}]
  /\ words \in [Task -> {"none", "intact", "consumed"}]
  /\ done \in SUBSET Task

\* A lock byte is set exactly while some processor is between its acquire and its
\* release, and never two at once: the three spin locks of lock_acquire/lock_release
\* give mutual exclusion, and no return path keeps a lock.
LockExclusion ==
  \A l \in Lock :
    /\ lock[l] = 1 <=> \E p \in Proc : Inside(p, l)
    /\ \A p, q \in Proc : Inside(p, l) /\ Inside(q, l) => p = q

\* Between the idle loop's dequeue and the end of its switch, a processor holds the
\* task it took.
Claims(c, t) == picked[c] = t /\ pc[c] \in {"unlock", "save", "restore"}
Holds(c, t) == Claims(c, t) \/ rsp[c] = t
Queued(t) == \E i \in 1..Len(tasks) : tasks[i] = t

\* Every work task kmain has listed is in exactly one place: on the list (once), held by
\* one idle loop, on one processor's stack pointer, or finished. So no task is lost
\* between the list and a processor, none runs twice, and no two processors ever share
\* the stack of a work task.
WorkInOnePlace ==
  \A w \in Work :
    /\ w \in made <=> Queued(w) \/ w \in done \/ \E c \in CPU : Holds(c, w)
    /\ ~(Queued(w) /\ w \in done)
    /\ \A i, j \in 1..Len(tasks) : tasks[i] = w /\ tasks[j] = w => i = j
    /\ \A c \in CPU : Holds(c, w) => ~Queued(w) /\ w \notin done
    /\ \A c, d \in CPU : Holds(c, w) /\ Holds(d, w) => c = d

\* ap_entry puts the idle task of its processor on the global list through task_init.
\* The list is first-in first-out and kmain fills it before any processor starts, so
\* every work task is ahead of every idle task: one processor can take another's idle
\* task only when no work is left to hand out.
WorkBeforeIdle ==
  \A i, j \in 1..Len(tasks) : tasks[i] \in Work /\ tasks[j] \in CPU => i < j

\* save_context stores into current_task's context: that is the task whose stack the
\* processor is on, so a saved context always leads back to its own task's stack.
SavesOwnContext ==
  /\ \A t \in Task : context[t] # None => context[t].stack = t
  /\ \A c \in CPU : pc[c] \in IdlePoint \cup WorkPoint => current[c] = rsp[c]

\* The only stacks two processors can find themselves on at once, and the only ones on
\* which a processor can run wild, are stacks of idle tasks.
OnlyIdleStacksShared ==
  \A c \in CPU :
    /\ pc[c] = "wild" => rsp[c] \in CPU
    /\ rsp[c] \in Work => ~Occupied(c, rsp[c])

\* task.S says what task_trampoline finds on the stack: "save entry", "save task arg",
\* "get task_exit". The words are there whenever a processor returns into it.
TrampolineFindsEntry ==
  \A c \in CPU : pc[c] = "trampoline" => words[rsp[c]] = "intact"

\* A processor has gone astray when it runs on the idle stack of another one, returns
\* into trampoline words already popped, or has run wild.
Astray(c) ==
  \/ rsp[c] \in CPU \ {c}
  \/ pc[c] = "trampoline" /\ words[rsp[c]] # "intact"
  \/ pc[c] = "wild"

\* However many processors race through idle_task_entry and task_exit, none goes astray
\* before the list has been emptied of work: what ap_entry's task_init of the idle task
\* breaks, it breaks after the last work task has been handed out.
Dry == made = Work /\ \A i \in 1..Len(tasks) : tasks[i] \notin Work
AstrayOnlyWhenDry == (\E c \in CPU : Astray(c)) => Dry

\* Every work task kmain creates is run to its task_exit, unless a processor runs wild
\* first (which takes a second application processor).
AllWorkDone == <>(done = Work \/ Wild)

\* kmain gets serial_lock, greets and halts, whatever the tasks print meanwhile.
KmainHalts == <>(pc[BSP] = "halted" \/ Wild)

-----------------------------------------------------------------------------
(* The inductive invariant behind the safety properties (SchedulerProofs).   *)

Building == {"kmalloc_task", "in_task", "kmalloc_stack", "in_stack", "task_init",
             "enqueue", "append"}
BSPCreates == Building \cup {"create", "appended"}
BSPLabel == BSPCreates \cup {"start_aps", "hello", "greet", "halted"}
APUnready == {"parked", "kmalloc_cpulocal", "in_cpulocal", "kmalloc_task", "in_task",
              "kmalloc_stack", "in_stack", "task_init"}
APBoot == APUnready \cup {"enqueue", "append", "appended", "setup", "run"}
Running == IdlePoint \cup WorkPoint \cup {"trampoline"}

\* kmain creates tasks while every other processor is parked, and has created them all
\* by the time it starts one.
Phases ==
  /\ pc[BSP] \in BSPLabel
  /\ \A c \in CPU : pc[c] \in APBoot \cup Running \cup {"wild"}
  /\ pc[BSP] \in Building => making \in Work \ made
  /\ IF pc[BSP] \in BSPCreates
     THEN /\ \A c \in CPU : pc[c] = "parked"
          /\ \A i \in 1..Len(tasks) : tasks[i] \in Work
     ELSE made = Work

\* Which stack a processor is on decides what code it is in.
OnStack ==
  \A c \in CPU :
    /\ pc[c] \in APBoot     => rsp[c] = None
    /\ pc[c] = "run"        => current[c] = c
    /\ pc[c] \in Running    => rsp[c] \in Task /\ current[c] = rsp[c]
    /\ pc[c] \in IdlePoint \cup {"wild"} => rsp[c] \in CPU
    /\ pc[c] \in WorkPoint  => rsp[c] \in Work

\* A task has a context from task_init on; the context of a work task is never saved
\* over, and its words are on its stack until the trampoline pops them.
Prepared(t) == context[t] # None

Contexts ==
  /\ \A t \in Task : context[t] # None => context[t].stack = t
  /\ \A w \in Work : context[w] # None => context[w].at = "entry"
  /\ \A c \in CPU : pc[c] \notin APUnready => Prepared(c)
  /\ \A i \in 1..Len(tasks) : Prepared(tasks[i])
  /\ \A c \in CPU : pc[c] \in {"unlock", "save", "restore"} => picked[c] \in Task /\ Prepared(picked[c])
  /\ pc[BSP] \in {"enqueue", "append"} => Prepared(making)

Intact ==
  /\ pc[BSP] \in {"enqueue", "append"} => words[making] = "intact"
  /\ \A i \in 1..Len(tasks) : tasks[i] \in Work => words[tasks[i]] = "intact"
  /\ \A c \in CPU :
       /\ pc[c] \in {"unlock", "save", "restore"} /\ picked[c] \in Work
            => words[picked[c]] = "intact"
       /\ pc[c] = "trampoline" /\ rsp[c] \in Work => words[rsp[c]] = "intact"

IInv ==
  /\ TypeOK /\ Phases /\ OnStack /\ Contexts /\ Intact
  /\ LockExclusion /\ WorkInOnePlace /\ WorkBeforeIdle

\* A processor alone on its idle stack: the words of its idle task are intact until the
\* trampoline pops them, and whenever it has left its idle loop it has saved a context
\* there.
Booted == {"enqueue", "append", "appended", "setup", "run"}

Alone(c) ==
  /\ pc[c] \in Booted => words[c] = "intact"
  /\ pc[c] = "trampoline" => words[rsp[c]] = "intact"
  /\ pc[c] = "restore" \/ (pc[c] \in Running /\ rsp[c] \in Work) => context[c].at = "loop"

\* A processor at home has not taken an idle task off the list, nor ended up on the stack
\* of another one.  All processors are, until the list is dry.
AtHome(c) ==
  /\ Alone(c)
  /\ \A t \in CPU : ~Claims(c, t) /\ (rsp[c] = t => t = c)
  /\ pc[c] # "wild"

HomeUntilDry == Dry \/ \A c \in CPU : AtHome(c)
=============================================================================
