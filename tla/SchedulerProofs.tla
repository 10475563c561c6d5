--------------------------- MODULE SchedulerProofs ---------------------------
(* The safety of Scheduler for any number of processors and work tasks: the  *)
(* inductive invariant IInv, one lemma for each of its conjuncts with one    *)
(* step for each action, and the theorems that follow.                       *)
EXTENDS Scheduler, TLAPS

USE SchedulerAssumption DEF Proc, Task, Lock

\* Linking a task at the tail of the list: what is on it, and where.
LEMMA AppendQueue ==
  ASSUME NEW S, NEW s \in Seq(S), NEW e \in S
  PROVE  /\ \A k \in 1..Len(Append(s, e)) :
              \/ k \in 1..Len(s) /\ Append(s, e)[k] = s[k]
              \/ k = Len(s) + 1 /\ Append(s, e)[k] = e
         /\ \A t : (\E i \in 1..Len(Append(s, e)) : Append(s, e)[i] = t)
                     <=> t = e \/ \E i \in 1..Len(s) : s[i] = t
<1>1. Len(s) \in Nat /\ Len(Append(s, e)) = Len(s) + 1
  OBVIOUS
<1>2. \A k \in 1..Len(s) : Append(s, e)[k] = s[k] /\ k \in 1..Len(Append(s, e))
  BY <1>1
<1>3. Append(s, e)[Len(s) + 1] = e /\ Len(s) + 1 \in 1..Len(Append(s, e))
  BY <1>1
<1>4. \A k \in 1..Len(Append(s, e)) : k \in 1..Len(s) \/ k = Len(s) + 1
  BY <1>1
<1> QED BY <1>2, <1>3, <1>4

\* Taking the head off the list: what is left, and where.
LEMMA TailQueue ==
  ASSUME NEW S, NEW s \in Seq(S), s # << >>
  PROVE  /\ Head(s) = s[1] /\ 1 \in 1..Len(s)
         /\ \A i \in 1..Len(Tail(s)) : i + 1 \in 1..Len(s) /\ Tail(s)[i] = s[i + 1] /\ i + 1 # 1
         /\ \A t : (\E i \in 1..Len(s) : s[i] = t)
                     <=> Head(s) = t \/ \E i \in 1..Len(Tail(s)) : Tail(s)[i] = t
<1>1. Len(s) \in Nat \ {0} /\ Len(Tail(s)) = Len(s) - 1 /\ Head(s) = s[1]
  OBVIOUS
<1>2. \A i \in 1..Len(Tail(s)) : i + 1 \in 1..Len(s) /\ Tail(s)[i] = s[i + 1] /\ i + 1 # 1
  BY <1>1
<1>3. ASSUME NEW i \in 1..Len(s), i # 1
      PROVE  i - 1 \in 1..Len(Tail(s)) /\ Tail(s)[i - 1] = s[i]
  <2>1. i - 1 \in 1..Len(Tail(s)) /\ (i - 1) + 1 = i
    BY <1>1, <1>3
  <2> QED BY <1>2, <2>1
<1>4. 1 \in 1..Len(s)
  BY <1>1
<1>5. ASSUME NEW t, NEW i \in 1..Len(s), s[i] = t
      PROVE  Head(s) = t \/ \E k \in 1..Len(Tail(s)) : Tail(s)[k] = t
  BY <1>1, <1>3, <1>5
<1>6. ASSUME NEW t, NEW k \in 1..Len(Tail(s)), Tail(s)[k] = t
      PROVE  \E i \in 1..Len(s) : s[i] = t
  BY <1>2, <1>6
<1> QED BY <1>1, <1>2, <1>4, <1>5, <1>6

\* Every label is in at most one critical section, entered by the acquire and left by the
\* release of that section's lock.
LEMMA LockExclusionKept ==
  ASSUME IInv, Next
  PROVE  LockExclusion'
<1>0. /\ pc \in [Proc -> Label] /\ lock \in [Lock -> {0, 1}] /\ LockExclusion
  BY DEF IInv, TypeOK
<1> USE <1>0 DEF LockExclusion, Inside, InKmalloc, InTaskLock, InSerialLock, Goto, lock_acquire, lock_release
<1>1. ASSUME NEW p \in Proc, Create(p) PROVE LockExclusion'
  <2>1. CASE KmallocEnter(p) BY <2>1 DEF KmallocEnter
  <2>2. CASE KmallocReturn(p) BY <2>2 DEF KmallocReturn
  <2>3. CASE PrepareStack(p) BY <2>3 DEF PrepareStack
  <2>4. CASE EnqueueLock(p) BY <2>4 DEF EnqueueLock
  <2>5. CASE AppendTask(p) BY <2>5 DEF AppendTask
  <2>6. CASE EnqueueUnlock(p) BY <2>6 DEF EnqueueUnlock
  <2> QED BY <1>1, <2>1, <2>2, <2>3, <2>4, <2>5, <2>6 DEF Create
<1>2. CASE NextTask BY <1>2 DEF NextTask
<1>3. CASE AllStarted BY <1>3 DEF AllStarted
<1>4. CASE Hello BY <1>4 DEF Hello
<1>5. CASE Halt BY <1>5 DEF Halt
<1>6. ASSUME NEW c \in CPU, StartAP(c) PROVE LockExclusion' BY <1>6 DEF StartAP
<1>7. ASSUME NEW c \in CPU, CPUStep(c) PROVE LockExclusion'
  <2>1. CASE Create(c) BY <2>1, <1>1
  <2>2. CASE SetupCPULocal(c) BY <2>2 DEF SetupCPULocal
  <2>3. CASE task_run(c) BY <2>3 DEF task_run, Load
  <2>4. CASE task_trampoline(c) BY <2>4 DEF task_trampoline
  <2>5. CASE LoopLock(c) BY <2>5 DEF LoopLock
  <2>6. CASE EmptyUnlock(c) BY <2>6 DEF EmptyUnlock
  <2>7. CASE Dequeue(c) BY <2>7 DEF Dequeue
  <2>8. CASE DequeueUnlock(c) BY <2>8 DEF DequeueUnlock
  <2>9. CASE save_context(c) BY <2>9 DEF save_context
  <2>10. CASE SwitchTo(c) BY <2>10 DEF SwitchTo, Load
  <2>11. CASE PrintLock(c) BY <2>11 DEF PrintLock
  <2>12. CASE PrintUnlock(c) BY <2>12 DEF PrintUnlock
  <2>13. CASE task_exit(c) BY <2>13 DEF task_exit, Load
  <2> QED BY <1>7, <2>1, <2>2, <2>3, <2>4, <2>5, <2>6, <2>7, <2>8, <2>9, <2>10, <2>11, <2>12, <2>13 DEF CPUStep
<1> QED BY <1>1, <1>2, <1>3, <1>4, <1>5, <1>6, <1>7 DEF Next, BSPStep

\* Types: the only steps that need more than TypeOK are those that go by a task's saved
\* context or by the task kmain is making.
LEMMA TypeOKKept ==
  ASSUME IInv, Next
  PROVE  TypeOK'
<1>0. TypeOK
  BY DEF IInv
<1>a. \A p \in Proc : pc[p] \in {"task_init", "append"} => Subject(p) \in Task /\ (p = BSP => making \in Work)
  BY DEF IInv, Phases, BSPLabel, BSPCreates, Building, Subject
<1>b. \A c \in CPU : \A t \in Task : context[t] # None => context[t] \in Context /\ context[t].stack = t
  BY <1>0 DEF IInv, Contexts, TypeOK
<1>c. \A c \in CPU : /\ pc[c] \in {"run", "exit"} => context[c] # None
                     /\ pc[c] = "restore" => picked[c] \in Task /\ context[picked[c]] # None
                     /\ pc[c] \in {"save", "exit", "trampoline"} => current[c] \in Task /\ rsp[c] \in Task
  BY DEF IInv, Contexts, OnStack, Prepared, APUnready, Running, IdlePoint, WorkPoint
<1> USE <1>0 DEF TypeOK, Goto, Label, Creating, InKmalloc, IdlePoint, WorkPoint, lock_acquire, lock_release
<1>1. ASSUME NEW p \in Proc, Create(p) PROVE TypeOK'
  <2>1. CASE KmallocEnter(p) BY <2>1 DEF KmallocEnter
  <2>2. CASE KmallocReturn(p)
    <3>1. \E l \in Label : pc' = [pc EXCEPT ![p] = l]
      BY <2>2 DEF KmallocReturn
    <3>2. pc' \in [Proc -> Label] /\ lock' \in [Lock -> {0, 1}]
      BY <2>2, <3>1 DEF KmallocReturn
    <3> QED BY <2>2, <3>2 DEF KmallocReturn
  <2>3. CASE PrepareStack(p) BY <2>3, <1>a DEF PrepareStack, Context
  <2>4. CASE EnqueueLock(p) BY <2>4 DEF EnqueueLock
  <2>5. CASE AppendTask(p) BY <2>5, <1>a DEF AppendTask
  <2>6. CASE EnqueueUnlock(p) BY <2>6 DEF EnqueueUnlock
  <2> QED BY <1>1, <2>1, <2>2, <2>3, <2>4, <2>5, <2>6 DEF Create
<1>2. CASE NextTask BY <1>2 DEF NextTask
<1>3. CASE AllStarted BY <1>3 DEF AllStarted
<1>4. CASE Hello BY <1>4 DEF Hello
<1>5. CASE Halt BY <1>5 DEF Halt
<1>6. ASSUME NEW c \in CPU, StartAP(c) PROVE TypeOK' BY <1>6 DEF StartAP
<1>7. ASSUME NEW c \in CPU, CPUStep(c) PROVE TypeOK'
  <2>1. CASE Create(c) BY <2>1, <1>1
  <2>2. CASE SetupCPULocal(c) BY <2>2 DEF SetupCPULocal
  <2>3. CASE task_run(c) BY <2>3, <1>b, <1>c DEF task_run, Load
  <2>4. CASE task_trampoline(c) BY <2>4, <1>c DEF task_trampoline
  <2>5. CASE LoopLock(c) BY <2>5 DEF LoopLock
  <2>6. CASE EmptyUnlock(c) BY <2>6 DEF EmptyUnlock
  <2>7. CASE Dequeue(c) BY <2>7 DEF Dequeue
  <2>8. CASE DequeueUnlock(c) BY <2>8 DEF DequeueUnlock
  <2>9. CASE save_context(c) BY <2>9, <1>c DEF save_context, Context
  <2>10. CASE SwitchTo(c) BY <2>10, <1>b, <1>c DEF SwitchTo, Load
  <2>11. CASE PrintLock(c) BY <2>11 DEF PrintLock
  <2>12. CASE PrintUnlock(c) BY <2>12 DEF PrintUnlock
  <2>13. CASE task_exit(c) BY <2>13, <1>b, <1>c DEF task_exit, Load
  <2> QED BY <1>7, <2>1, <2>2, <2>3, <2>4, <2>5, <2>6, <2>7, <2>8, <2>9, <2>10, <2>11, <2>12, <2>13 DEF CPUStep
<1> QED BY <1>1, <1>2, <1>3, <1>4, <1>5, <1>6, <1>7 DEF Next, BSPStep

\* kmain's phases, and the labels each kind of processor can be at.
LEMMA PhasesKept ==
  ASSUME IInv, TypeOK', Next
  PROVE  Phases'
<1>0. TypeOK /\ Phases
  BY DEF IInv
<1> USE <1>0 DEF TypeOK, Phases, BSPLabel, BSPCreates, Building, APBoot, APUnready, Running, IdlePoint, WorkPoint, InKmalloc, Goto
<1>1. ASSUME NEW p \in Proc, Create(p) PROVE Phases'
  <2>1. CASE KmallocEnter(p) BY <2>1 DEF KmallocEnter
  <2>2. CASE KmallocReturn(p) BY <2>2 DEF KmallocReturn
  <2>3. CASE PrepareStack(p) BY <2>3 DEF PrepareStack
  <2>4. CASE EnqueueLock(p) BY <2>4 DEF EnqueueLock
  <2>5. CASE AppendTask(p) BY <2>5, AppendQueue DEF AppendTask, Subject
  <2>6. CASE EnqueueUnlock(p) BY <2>6 DEF EnqueueUnlock
  <2> QED BY <1>1, <2>1, <2>2, <2>3, <2>4, <2>5, <2>6 DEF Create
<1>2. CASE NextTask BY <1>2 DEF NextTask
<1>3. CASE AllStarted BY <1>3 DEF AllStarted
<1>4. CASE Hello BY <1>4 DEF Hello
<1>5. CASE Halt BY <1>5 DEF Halt
<1>6. ASSUME NEW c \in CPU, StartAP(c) PROVE Phases' BY <1>6 DEF StartAP
<1>7. ASSUME NEW c \in CPU, CPUStep(c) PROVE Phases'
  <2>1. CASE Create(c) BY <2>1, <1>1
  <2>2. CASE SetupCPULocal(c) BY <2>2 DEF SetupCPULocal
  <2>3. CASE task_run(c) BY <2>3 DEF task_run, Load
  <2>4. CASE task_trampoline(c) BY <2>4 DEF task_trampoline
  <2>5. CASE LoopLock(c) BY <2>5 DEF LoopLock
  <2>6. CASE EmptyUnlock(c) BY <2>6 DEF EmptyUnlock
  <2>7. CASE Dequeue(c) BY <2>7 DEF Dequeue
  <2>8. CASE DequeueUnlock(c) BY <2>8 DEF DequeueUnlock
  <2>9. CASE save_context(c) BY <2>9 DEF save_context
  <2>10. CASE SwitchTo(c) BY <2>10 DEF SwitchTo, Load
  <2>11. CASE PrintLock(c) BY <2>11 DEF PrintLock
  <2>12. CASE PrintUnlock(c) BY <2>12 DEF PrintUnlock
  <2>13. CASE task_exit(c) BY <2>13 DEF task_exit, Load
  <2> QED BY <1>7, <2>1, <2>2, <2>3, <2>4, <2>5, <2>6, <2>7, <2>8, <2>9, <2>10, <2>11, <2>12, <2>13 DEF CPUStep
<1> QED BY <1>1, <1>2, <1>3, <1>4, <1>5, <1>6, <1>7 DEF Next, BSPStep

\* The stack a processor is on.
LEMMA OnStackKept ==
  ASSUME IInv, TypeOK', Phases', Next
  PROVE  OnStack'
<1>0. TypeOK /\ Phases /\ OnStack
  BY DEF IInv
<1>a. \A c \in CPU : \A t \in Task : context[t] # None =>
        /\ context[t].stack = t
        /\ t \in Work => context[t].at = "entry"
  BY DEF IInv, Contexts
<1>b. \A c \in CPU : /\ pc[c] \in {"run", "exit"} => context[c] # None
                     /\ pc[c] = "restore" => picked[c] \in Task /\ context[picked[c]] # None
                     /\ pc[c] = "trampoline" /\ rsp[c] \in Work => words[rsp[c]] = "intact"
  BY DEF IInv, Contexts, Intact, Prepared, APUnready
<1> USE <1>0 DEF TypeOK, Phases, OnStack, Goto, BSPLabel, BSPCreates, Building, APBoot, APUnready, Running, IdlePoint, WorkPoint
<1>1. ASSUME NEW p \in Proc, Create(p) PROVE OnStack'
  <2>1. CASE KmallocEnter(p) BY <2>1 DEF KmallocEnter
  <2>2. CASE KmallocReturn(p) BY <2>2 DEF KmallocReturn
  <2>3. CASE PrepareStack(p) BY <2>3 DEF PrepareStack
  <2>4. CASE EnqueueLock(p) BY <2>4 DEF EnqueueLock
  <2>5. CASE AppendTask(p) BY <2>5 DEF AppendTask
  <2>6. CASE EnqueueUnlock(p) BY <2>6 DEF EnqueueUnlock
  <2> QED BY <1>1, <2>1, <2>2, <2>3, <2>4, <2>5, <2>6 DEF Create
<1>2. CASE NextTask BY <1>2 DEF NextTask
<1>3. CASE AllStarted BY <1>3 DEF AllStarted
<1>4. CASE Hello BY <1>4 DEF Hello
<1>5. CASE Halt BY <1>5 DEF Halt
<1>6. ASSUME NEW c \in CPU, StartAP(c) PROVE OnStack' BY <1>6 DEF StartAP
<1>7. ASSUME NEW c \in CPU, CPUStep(c) PROVE OnStack'
  <2>1. CASE Create(c) BY <2>1, <1>1
  <2>2. CASE SetupCPULocal(c) BY <2>2 DEF SetupCPULocal
  <2>3. CASE task_run(c) BY <2>3, <1>a, <1>b DEF task_run, Load
  <2>4. CASE task_trampoline(c) BY <2>4, <1>b DEF task_trampoline
  <2>5. CASE LoopLock(c) BY <2>5 DEF LoopLock
  <2>6. CASE EmptyUnlock(c) BY <2>6 DEF EmptyUnlock
  <2>7. CASE Dequeue(c) BY <2>7 DEF Dequeue
  <2>8. CASE DequeueUnlock(c) BY <2>8 DEF DequeueUnlock
  <2>9. CASE save_context(c) BY <2>9 DEF save_context
  <2>10. CASE SwitchTo(c) BY <2>10, <1>a, <1>b DEF SwitchTo, Load
  <2>11. CASE PrintLock(c) BY <2>11 DEF PrintLock
  <2>12. CASE PrintUnlock(c) BY <2>12 DEF PrintUnlock
  <2>13. CASE task_exit(c) BY <2>13, <1>a, <1>b DEF task_exit, Load
  <2> QED BY <1>7, <2>1, <2>2, <2>3, <2>4, <2>5, <2>6, <2>7, <2>8, <2>9, <2>10, <2>11, <2>12, <2>13 DEF CPUStep
<1> QED BY <1>1, <1>2, <1>3, <1>4, <1>5, <1>6, <1>7 DEF Next, BSPStep

\* Contexts: once prepared a task stays so, and what save_context stores is the processor's
\* own, idle, task.
LEMMA ContextsKept ==
  ASSUME IInv, TypeOK', Phases', Next
  PROVE  Contexts'
<1>0. TypeOK /\ Phases /\ OnStack /\ Contexts
  BY DEF IInv
<1> USE <1>0 DEF TypeOK, Phases, Contexts, Prepared, Goto, BSPLabel, BSPCreates, Building, APUnready
<1>1. ASSUME NEW p \in Proc, Create(p) PROVE Contexts'
  <2>1. CASE KmallocEnter(p) BY <2>1 DEF KmallocEnter
  <2>2. CASE KmallocReturn(p) BY <2>2 DEF KmallocReturn
  <2>3. CASE PrepareStack(p)
    <3>1. context' = [context EXCEPT ![Subject(p)] = [stack |-> Subject(p), at |-> "entry"]]
          /\ Subject(p) \in Task /\ UNCHANGED <<tasks, picked, making>>
      BY <2>3 DEF PrepareStack, Subject
    <3>2. /\ \A t \in Task : context'[t] # None => context'[t].stack = t
          /\ \A w \in Work : context'[w] # None => context'[w].at = "entry"
      BY <3>1
    <3>3. \A t \in Task : t = Subject(p) \/ context[t] # None => context'[t] # None
      BY <3>1 DEF Context
    <3>4. \A c \in CPU : pc'[c] \notin APUnready => c = Subject(p) \/ pc[c] \notin APUnready
      BY <2>3 DEF PrepareStack, Subject
    <3>5. pc'[BSP] \in {"enqueue", "append"} => making = Subject(p) \/ pc[BSP] \in {"enqueue", "append"}
      BY <2>3 DEF PrepareStack, Subject
    <3>6. \A i \in 1..Len(tasks) : tasks[i] \in Task
      OBVIOUS
    <3>7. \A c \in CPU : pc'[c] \in {"unlock", "save", "restore"} => pc[c] \in {"unlock", "save", "restore"}
      BY <2>3 DEF PrepareStack
    <3> QED BY <3>1, <3>2, <3>3, <3>4, <3>5, <3>6, <3>7
  <2>4. CASE EnqueueLock(p) BY <2>4 DEF EnqueueLock
  <2>5. CASE AppendTask(p)
    <3>1. tasks' = Append(tasks, Subject(p)) /\ Subject(p) \in Task /\ context[Subject(p)] # None
          /\ UNCHANGED <<context, picked, making>>
      BY <2>5 DEF AppendTask, Subject
    <3>2. \A i \in 1..Len(tasks') : context[tasks'[i]] # None
      BY <3>1, AppendQueue
    <3> QED BY <2>5, <3>1, <3>2 DEF AppendTask
  <2>6. CASE EnqueueUnlock(p) BY <2>6 DEF EnqueueUnlock
  <2> QED BY <1>1, <2>1, <2>2, <2>3, <2>4, <2>5, <2>6 DEF Create
<1>2. CASE NextTask BY <1>2 DEF NextTask
<1>3. CASE AllStarted BY <1>3 DEF AllStarted
<1>4. CASE Hello BY <1>4 DEF Hello
<1>5. CASE Halt BY <1>5 DEF Halt
<1>6. ASSUME NEW c \in CPU, StartAP(c) PROVE Contexts' BY <1>6 DEF StartAP
<1>7. ASSUME NEW c \in CPU, CPUStep(c) PROVE Contexts'
  <2>1. CASE Create(c) BY <2>1, <1>1
  <2>2. CASE SetupCPULocal(c) BY <2>2 DEF SetupCPULocal
  <2>3. CASE task_run(c) BY <2>3 DEF task_run, Load
  <2>4. CASE task_trampoline(c) BY <2>4 DEF task_trampoline
  <2>5. CASE LoopLock(c) BY <2>5 DEF LoopLock
  <2>6. CASE EmptyUnlock(c) BY <2>6 DEF EmptyUnlock
  <2>7. CASE Dequeue(c)
    <3>1. tasks' = Tail(tasks) /\ picked' = [picked EXCEPT ![c] = Head(tasks)] /\ tasks # << >>
          /\ UNCHANGED <<context, making>>
      BY <2>7 DEF Dequeue
    <3>2. \A i \in 1..Len(tasks') : context[tasks'[i]] # None
      BY <3>1, TailQueue
    <3>3. Head(tasks) \in Task /\ context[Head(tasks)] # None
      BY <3>1, TailQueue
    <3> QED BY <2>7, <3>1, <3>2, <3>3 DEF Dequeue
  <2>8. CASE DequeueUnlock(c) BY <2>8 DEF DequeueUnlock
  <2>9. CASE save_context(c)
    <3>1. context' = [context EXCEPT ![rsp[c]] = [stack |-> rsp[c], at |-> "loop"]]
          /\ rsp[c] \in CPU /\ UNCHANGED <<tasks, picked, making>>
      BY <2>9 DEF save_context, OnStack, Running, IdlePoint
    <3>2. /\ \A t \in Task : context'[t] # None => context'[t].stack = t
          /\ \A w \in Work : context'[w] # None => context'[w].at = "entry"
      BY <3>1
    <3>3. \A t \in Task : context[t] # None => context'[t] # None
      BY <3>1 DEF Context
    <3>4. \A i \in 1..Len(tasks) : tasks[i] \in Task
      OBVIOUS
    <3> QED BY <2>9, <3>1, <3>2, <3>3, <3>4 DEF save_context
  <2>10. CASE SwitchTo(c) BY <2>10 DEF SwitchTo, Load
  <2>11. CASE PrintLock(c) BY <2>11 DEF PrintLock
  <2>12. CASE PrintUnlock(c) BY <2>12 DEF PrintUnlock
  <2>13. CASE task_exit(c) BY <2>13 DEF task_exit, Load
  <2> QED BY <1>7, <2>1, <2>2, <2>3, <2>4, <2>5, <2>6, <2>7, <2>8, <2>9, <2>10, <2>11, <2>12, <2>13 DEF CPUStep
<1> QED BY <1>1, <1>2, <1>3, <1>4, <1>5, <1>6, <1>7 DEF Next, BSPStep

\* The words of a work task: the trampoline that pops them is run by the one processor
\* that holds the task.
LEMMA IntactKept ==
  ASSUME IInv, TypeOK', Phases', Next
  PROVE  Intact'
<1>0. TypeOK /\ Phases /\ OnStack /\ Intact
  BY DEF IInv
<1>a. \A c \in CPU : /\ pc[c] \in {"run", "exit"} => context[c] # None
                     /\ pc[c] = "restore" => picked[c] \in Task /\ context[picked[c]] # None
  BY DEF IInv, Contexts, Prepared, APUnready
<1>b. \A t \in Task : context[t] # None => context[t].stack = t
  BY DEF IInv, Contexts
<1> USE <1>0 DEF TypeOK, Phases, Intact, Goto, BSPLabel, BSPCreates, Building
<1>1. ASSUME NEW p \in Proc, Create(p) PROVE Intact'
  <2>1. CASE KmallocEnter(p) BY <2>1 DEF KmallocEnter
  <2>2. CASE KmallocReturn(p) BY <2>2 DEF KmallocReturn
  <2>3. CASE PrepareStack(p)
    <3>1. words' = [words EXCEPT ![Subject(p)] = "intact"] /\ Subject(p) \in Task
          /\ UNCHANGED <<tasks, picked, making, rsp>>
      BY <2>3 DEF PrepareStack, Subject
    <3>2. \A t \in Task : words[t] = "intact" \/ t = Subject(p) => words'[t] = "intact"
      BY <3>1
    <3>3. \A i \in 1..Len(tasks) : tasks[i] \in Task
      OBVIOUS
    <3> QED BY <2>3, <3>1, <3>2, <3>3 DEF PrepareStack, Subject
  <2>4. CASE EnqueueLock(p) BY <2>4 DEF EnqueueLock
  <2>5. CASE AppendTask(p)
    <3>1. tasks' = Append(tasks, Subject(p)) /\ Subject(p) \in Task
          /\ (Subject(p) \in Work => words[Subject(p)] = "intact")
          /\ UNCHANGED <<words, picked, making, rsp>>
      BY <2>5 DEF AppendTask, Subject
    <3>2. \A i \in 1..Len(tasks') : tasks'[i] \in Work => words[tasks'[i]] = "intact"
      BY <3>1, AppendQueue
    <3> QED BY <2>5, <3>1, <3>2 DEF AppendTask
  <2>6. CASE EnqueueUnlock(p) BY <2>6 DEF EnqueueUnlock
  <2> QED BY <1>1, <2>1, <2>2, <2>3, <2>4, <2>5, <2>6 DEF Create
<1>2. CASE NextTask BY <1>2 DEF NextTask
<1>3. CASE AllStarted BY <1>3 DEF AllStarted
<1>4. CASE Hello BY <1>4 DEF Hello
<1>5. CASE Halt BY <1>5 DEF Halt
<1>6. ASSUME NEW c \in CPU, StartAP(c) PROVE Intact' BY <1>6 DEF StartAP
<1>7. ASSUME NEW c \in CPU, CPUStep(c) PROVE Intact'
  <2>1. CASE Create(c) BY <2>1, <1>1
  <2>2. CASE SetupCPULocal(c) BY <2>2 DEF SetupCPULocal
  <2>3. CASE task_run(c) BY <2>3, <1>a, <1>b DEF task_run, Load
  <2>4. CASE task_trampoline(c)
    <3>1. words' = [words EXCEPT ![rsp[c]] = "consumed"] /\ rsp[c] \in Task
          /\ UNCHANGED <<tasks, picked, making, rsp>>
      BY <2>4 DEF task_trampoline, OnStack, Running
    <3>2. \A t \in Task : t # rsp[c] => words'[t] = words[t]
      BY <3>1
    <3>3. rsp[c] \in Work => /\ rsp[c] \in made /\ ~Queued(rsp[c])
                             /\ \A d \in CPU : Holds(d, rsp[c]) => d = c
      BY DEF IInv, WorkInOnePlace, Holds
    <3>4. pc[BSP] \in {"enqueue", "append"} => making \in Work \ made
      OBVIOUS
    <3>5. \A i \in 1..Len(tasks) : tasks[i] \in Work => tasks[i] # rsp[c] /\ tasks[i] \in Task
      BY <3>3 DEF Queued
    <3>6. \A d \in CPU : /\ pc'[d] \in {"unlock", "save", "restore"} => pc[d] = pc'[d] /\ d # c
                         /\ pc'[d] = "trampoline" => pc[d] = "trampoline" /\ d # c
      BY <2>4 DEF task_trampoline
    <3>7. \A d \in CPU : /\ pc[d] \in {"unlock", "save", "restore"} /\ d # c /\ picked[d] \in Work => picked[d] # rsp[c]
                         /\ d # c /\ rsp[d] \in Work => rsp[d] # rsp[c]
      BY <3>3 DEF Holds, Claims
    <3>8. pc'[BSP] = pc[BSP]
      BY <2>4 DEF task_trampoline
    <3> QED BY <3>1, <3>2, <3>3, <3>4, <3>5, <3>6, <3>7, <3>8
  <2>5. CASE LoopLock(c) BY <2>5 DEF LoopLock
  <2>6. CASE EmptyUnlock(c) BY <2>6 DEF EmptyUnlock
  <2>7. CASE Dequeue(c)
    <3>1. tasks' = Tail(tasks) /\ picked' = [picked EXCEPT ![c] = Head(tasks)] /\ tasks # << >>
          /\ UNCHANGED <<words, making, rsp>>
      BY <2>7 DEF Dequeue
    <3>2. \A i \in 1..Len(tasks') : tasks'[i] \in Work => words[tasks'[i]] = "intact"
      BY <3>1, TailQueue
    <3>3. Head(tasks) \in Work => words[Head(tasks)] = "intact"
      BY <3>1, TailQueue
    <3> QED BY <2>7, <3>1, <3>2, <3>3 DEF Dequeue
  <2>8. CASE DequeueUnlock(c) BY <2>8 DEF DequeueUnlock
  <2>9. CASE save_context(c) BY <2>9 DEF save_context
  <2>10. CASE SwitchTo(c) BY <2>10, <1>a, <1>b DEF SwitchTo, Load
  <2>11. CASE PrintLock(c) BY <2>11 DEF PrintLock
  <2>12. CASE PrintUnlock(c) BY <2>12 DEF PrintUnlock
  <2>13. CASE task_exit(c) BY <2>13, <1>a, <1>b DEF task_exit, Load
  <2> QED BY <1>7, <2>1, <2>2, <2>3, <2>4, <2>5, <2>6, <2>7, <2>8, <2>9, <2>10, <2>11, <2>12, <2>13 DEF CPUStep
<1> QED BY <1>1, <1>2, <1>3, <1>4, <1>5, <1>6, <1>7 DEF Next, BSPStep

\* WorkInOnePlace is about the list, the made and the finished tasks, and what each
\* processor holds.
LEMMA PlacesUntouched ==
  ASSUME WorkInOnePlace, UNCHANGED <<tasks, made, done>>,
         \A c \in CPU, w \in Work : Holds(c, w)' <=> Holds(c, w)
  PROVE  WorkInOnePlace'
BY DEF WorkInOnePlace, Queued

\* Each work task in one place: a task moves only from kmain to the list, from the list to
\* the processor that takes it, and from that processor's stack to done.
LEMMA WorkInOnePlaceKept ==
  ASSUME IInv, Next
  PROVE  WorkInOnePlace'
<1>0. TypeOK /\ Phases /\ OnStack /\ WorkInOnePlace
  BY DEF IInv
<1>a. \A t \in Task : context[t] # None => context[t].stack = t
  BY DEF IInv, Contexts
<1>b. \A c \in CPU : /\ pc[c] \in {"run", "exit"} => context[c] # None
                     /\ pc[c] = "restore" => picked[c] \in Task /\ context[picked[c]] # None
  BY DEF IInv, Contexts, Prepared, APUnready
<1> USE <1>0 DEF TypeOK, Goto
<1>1. ASSUME NEW p \in Proc, Create(p) PROVE WorkInOnePlace'
  <2>1. CASE KmallocEnter(p)
    <3>1. \A d \in CPU : pc[d] \in {"unlock", "save", "restore"} <=> pc'[d] \in {"unlock", "save", "restore"}
      BY <2>1 DEF KmallocEnter
    <3> QED BY <2>1, <3>1, PlacesUntouched DEF KmallocEnter, Holds, Claims
  <2>2. CASE KmallocReturn(p)
    <3>1. \A d \in CPU : pc[d] \in {"unlock", "save", "restore"} <=> pc'[d] \in {"unlock", "save", "restore"}
      BY <2>2 DEF KmallocReturn
    <3> QED BY <2>2, <3>1, PlacesUntouched DEF KmallocReturn, Holds, Claims
  <2>3. CASE PrepareStack(p)
    <3>1. \A d \in CPU : pc[d] \in {"unlock", "save", "restore"} <=> pc'[d] \in {"unlock", "save", "restore"}
      BY <2>3 DEF PrepareStack
    <3> QED BY <2>3, <3>1, PlacesUntouched DEF PrepareStack, Holds, Claims
  <2>4. CASE EnqueueLock(p)
    <3>1. \A d \in CPU : pc[d] \in {"unlock", "save", "restore"} <=> pc'[d] \in {"unlock", "save", "restore"}
      BY <2>4 DEF EnqueueLock
    <3> QED BY <2>4, <3>1, PlacesUntouched DEF EnqueueLock, Holds, Claims
  <2>5. CASE AppendTask(p)
    <3>1. /\ tasks' = Append(tasks, Subject(p)) /\ Subject(p) \in Task
          /\ UNCHANGED <<done, rsp, picked>>
          /\ p = BSP  => making \in Work \ made /\ Subject(p) = making /\ made' = made \cup {making}
          /\ p # BSP => Subject(p) \in CPU /\ made' = made
      <4>1. tasks' = Append(tasks, Subject(p)) /\ UNCHANGED <<done, rsp, picked>>
        BY <2>5 DEF AppendTask
      <4>2. p = BSP  => making \in Work \ made /\ Subject(p) = making /\ made' = made \cup {making}
        BY <2>5 DEF AppendTask, Subject, Phases, Building
      <4>3. p # BSP => Subject(p) \in CPU /\ made' = made
        BY <2>5 DEF AppendTask, Subject, Phases
      <4>4. Subject(p) \in Task
        BY <4>2, <4>3
      <4> QED BY <4>1, <4>2, <4>3, <4>4
    <3>2. \A d \in CPU : pc[d] \in {"unlock", "save", "restore"} <=> pc'[d] \in {"unlock", "save", "restore"}
      BY <2>5 DEF AppendTask
    <3>3. \A d \in CPU, w \in Work : Holds(d, w)' <=> Holds(d, w)
      BY <3>1, <3>2 DEF Holds, Claims
    <3>4. \A w \in Work : Queued(w)' <=> Queued(w) \/ w = Subject(p)
      <4>1. PICK t \in Task : t = Subject(p) /\ tasks' = Append(tasks, t)
        BY <3>1
      <4>2. \A w : (\E i \in 1..Len(tasks') : tasks'[i] = w) <=> w = t \/ \E i \in 1..Len(tasks) : tasks[i] = w
        BY <4>1, AppendQueue
      <4> QED BY <4>1, <4>2 DEF Queued
    <3>5. \A w \in Work : \A i, j \in 1..Len(tasks') : tasks'[i] = w /\ tasks'[j] = w => i = j
      <4>1. TAKE w \in Work
      <4>2. TAKE i, j \in 1..Len(tasks')
      <4>3. \A k \in 1..Len(tasks') : \/ k \in 1..Len(tasks) /\ tasks'[k] = tasks[k]
                                      \/ k = Len(tasks) + 1 /\ tasks'[k] = Subject(p)
        BY <3>1, AppendQueue
      <4>4. w = Subject(p) => ~Queued(w)
        BY <3>1 DEF WorkInOnePlace
      <4> QED BY <4>3, <4>4 DEF WorkInOnePlace, Queued
    <3> QED BY <3>1, <3>3, <3>4, <3>5 DEF WorkInOnePlace
  <2>6. CASE EnqueueUnlock(p)
    <3>1. \A d \in CPU : pc[d] \in {"unlock", "save", "restore"} <=> pc'[d] \in {"unlock", "save", "restore"}
      BY <2>6 DEF EnqueueUnlock
    <3> QED BY <2>6, <3>1, PlacesUntouched DEF EnqueueUnlock, Holds, Claims
  <2> QED BY <1>1, <2>1, <2>2, <2>3, <2>4, <2>5, <2>6 DEF Create
<1>2. CASE NextTask
    <3>1. \A d \in CPU : pc[d] \in {"unlock", "save", "restore"} <=> pc'[d] \in {"unlock", "save", "restore"}
      BY <1>2 DEF NextTask
    <3> QED BY <1>2, <3>1, PlacesUntouched DEF NextTask, Holds, Claims
<1>3. CASE AllStarted
    <3>1. \A d \in CPU : pc[d] \in {"unlock", "save", "restore"} <=> pc'[d] \in {"unlock", "save", "restore"}
      BY <1>3 DEF AllStarted
    <3> QED BY <1>3, <3>1, PlacesUntouched DEF AllStarted, Holds, Claims
<1>4. CASE Hello
    <3>1. \A d \in CPU : pc[d] \in {"unlock", "save", "restore"} <=> pc'[d] \in {"unlock", "save", "restore"}
      BY <1>4 DEF Hello
    <3> QED BY <1>4, <3>1, PlacesUntouched DEF Hello, Holds, Claims
<1>5. CASE Halt
    <3>1. \A d \in CPU : pc[d] \in {"unlock", "save", "restore"} <=> pc'[d] \in {"unlock", "save", "restore"}
      BY <1>5 DEF Halt
    <3> QED BY <1>5, <3>1, PlacesUntouched DEF Halt, Holds, Claims
<1>6. ASSUME NEW c \in CPU, StartAP(c) PROVE WorkInOnePlace'
    <3>1. \A d \in CPU : pc[d] \in {"unlock", "save", "restore"} <=> pc'[d] \in {"unlock", "save", "restore"}
      BY <1>6 DEF StartAP
    <3> QED BY <1>6, <3>1, PlacesUntouched DEF StartAP, Holds, Claims
<1>7. ASSUME NEW c \in CPU, CPUStep(c) PROVE WorkInOnePlace'
  <2>1. CASE Create(c) BY <2>1, <1>1
  <2>2. CASE SetupCPULocal(c)
    <3>1. \A d \in CPU : pc[d] \in {"unlock", "save", "restore"} <=> pc'[d] \in {"unlock", "save", "restore"}
      BY <2>2 DEF SetupCPULocal
    <3> QED BY <2>2, <3>1, PlacesUntouched DEF SetupCPULocal, Holds, Claims
  <2>3. CASE task_run(c)
    <3>1. /\ rsp[c] = None /\ rsp' = [rsp EXCEPT ![c] = c]
          /\ UNCHANGED <<tasks, made, done, picked>>
      BY <2>3, <1>a, <1>b DEF task_run, Load, OnStack, APBoot
    <3>2. \A d \in CPU \ {c} : pc'[d] = pc[d]
      BY <2>3 DEF task_run, Load
    <3>3. pc[c] = "run" /\ pc'[c] \notin {"unlock", "save", "restore"}
      BY <2>3 DEF task_run, Load
    <3> QED BY <3>1, <3>2, <3>3, PlacesUntouched DEF Holds, Claims
  <2>4. CASE task_trampoline(c)
    <3>1. \A d \in CPU : pc[d] \in {"unlock", "save", "restore"} <=> pc'[d] \in {"unlock", "save", "restore"}
      BY <2>4 DEF task_trampoline
    <3> QED BY <2>4, <3>1, PlacesUntouched DEF task_trampoline, Holds, Claims
  <2>5. CASE LoopLock(c)
    <3>1. \A d \in CPU : pc[d] \in {"unlock", "save", "restore"} <=> pc'[d] \in {"unlock", "save", "restore"}
      BY <2>5 DEF LoopLock
    <3> QED BY <2>5, <3>1, PlacesUntouched DEF LoopLock, Holds, Claims
  <2>6. CASE EmptyUnlock(c)
    <3>1. \A d \in CPU : pc[d] \in {"unlock", "save", "restore"} <=> pc'[d] \in {"unlock", "save", "restore"}
      BY <2>6 DEF EmptyUnlock
    <3> QED BY <2>6, <3>1, PlacesUntouched DEF EmptyUnlock, Holds, Claims
  <2>7. CASE Dequeue(c)
    <3>0. /\ tasks' = Tail(tasks) /\ picked' = [picked EXCEPT ![c] = Head(tasks)]
          /\ tasks # << >> /\ UNCHANGED <<made, done, rsp>>
      BY <2>7 DEF Dequeue
    <3>9. tasks \in Seq(Task) /\ tasks # << >>
      BY <3>0
    <3>a. \A w : (\E i \in 1..Len(tasks) : tasks[i] = w)
                    <=> Head(tasks) = w \/ \E i \in 1..Len(Tail(tasks)) : Tail(tasks)[i] = w
      <4> HIDE <1>0
      <4> QED BY <3>9, TailQueue
    <3>1. \A w \in Work : Queued(w) <=> Queued(w)' \/ Head(tasks) = w
      BY <3>0, <3>a DEF Queued
    <3>2. \A w \in Work : \A i \in 1..Len(tasks') : tasks'[i] = w => i + 1 \in 1..Len(tasks) /\ tasks[i + 1] = w /\ i \in Nat
      BY <3>0, TailQueue
    <3>3. \A w \in Work : Queued(w)' => Head(tasks) # w
      BY <3>0, <3>2, TailQueue DEF Queued, WorkInOnePlace
    <3>4. \A w \in Work : \A i, j \in 1..Len(tasks') : tasks'[i] = w /\ tasks'[j] = w => i = j
      BY <3>2 DEF WorkInOnePlace
    <3>5. \A w \in Work : /\ ~Holds(c, w)
                          /\ Holds(c, w)' <=> Head(tasks) = w
                          /\ \A d \in CPU \ {c} : Holds(d, w)' <=> Holds(d, w)
      BY <2>7, <3>0 DEF Dequeue, Holds, Claims, OnStack, IdlePoint
    <3> HIDE DEF TypeOK, Goto
    <3>6. SUFFICES ASSUME NEW w \in Work
                   PROVE  /\ w \in made' <=> Queued(w)' \/ w \in done' \/ \E d \in CPU : Holds(d, w)'
                          /\ ~(Queued(w)' /\ w \in done')
                          /\ \A d \in CPU : Holds(d, w)' => ~Queued(w)' /\ w \notin done'
                          /\ \A d, e \in CPU : Holds(d, w)' /\ Holds(e, w)' => d = e
      BY <3>4 DEF WorkInOnePlace
    <3>7. CASE Head(tasks) = w
      BY <3>0, <3>1, <3>3, <3>5, <3>7 DEF WorkInOnePlace
    <3>8. CASE Head(tasks) # w
      BY <3>0, <3>1, <3>5, <3>8 DEF WorkInOnePlace
    <3> QED BY <3>7, <3>8
  <2>8. CASE DequeueUnlock(c)
    <3>1. \A d \in CPU : pc[d] \in {"unlock", "save", "restore"} <=> pc'[d] \in {"unlock", "save", "restore"}
      BY <2>8 DEF DequeueUnlock
    <3> QED BY <2>8, <3>1, PlacesUntouched DEF DequeueUnlock, Holds, Claims
  <2>9. CASE save_context(c)
    <3>1. \A d \in CPU : pc[d] \in {"unlock", "save", "restore"} <=> pc'[d] \in {"unlock", "save", "restore"}
      BY <2>9 DEF save_context
    <3> QED BY <2>9, <3>1, PlacesUntouched DEF save_context, Holds, Claims
  <2>10. CASE SwitchTo(c)
    <3>1. /\ rsp[c] \in CPU /\ picked[c] \in Task /\ rsp' = [rsp EXCEPT ![c] = picked[c]]
          /\ UNCHANGED <<tasks, made, done, picked>>
      <4>1. rsp[c] \in CPU
        BY <2>10 DEF SwitchTo, OnStack, IdlePoint
      <4>2. picked[c] \in Task /\ context[picked[c]].stack = picked[c]
        BY <2>10, <1>a, <1>b DEF SwitchTo
      <4> QED BY <2>10, <4>1, <4>2 DEF SwitchTo, Load
    <3>2. \A d \in CPU \ {c} : pc'[d] = pc[d]
      BY <2>10 DEF SwitchTo, Load
    <3>3. pc[c] = "restore" /\ pc'[c] \notin {"unlock", "save", "restore"}
      BY <2>10 DEF SwitchTo, Load
    <3> QED BY <3>1, <3>2, <3>3, PlacesUntouched DEF Holds, Claims
  <2>11. CASE PrintLock(c)
    <3>1. \A d \in CPU : pc[d] \in {"unlock", "save", "restore"} <=> pc'[d] \in {"unlock", "save", "restore"}
      BY <2>11 DEF PrintLock
    <3> QED BY <2>11, <3>1, PlacesUntouched DEF PrintLock, Holds, Claims
  <2>12. CASE PrintUnlock(c)
    <3>1. \A d \in CPU : pc[d] \in {"unlock", "save", "restore"} <=> pc'[d] \in {"unlock", "save", "restore"}
      BY <2>12 DEF PrintUnlock
    <3> QED BY <2>12, <3>1, PlacesUntouched DEF PrintUnlock, Holds, Claims
  <2>13. CASE task_exit(c)
    <3>1. /\ rsp[c] \in Work /\ done' = done \cup {rsp[c]}
          /\ rsp' = [rsp EXCEPT ![c] = c] /\ UNCHANGED <<tasks, made, picked>>
      BY <2>13, <1>a, <1>b DEF task_exit, Load, OnStack, WorkPoint, Running
    <3>2. \A d \in CPU \ {c} : pc'[d] = pc[d]
      BY <2>13 DEF task_exit, Load
    <3>3. pc[c] = "exit" /\ pc'[c] \notin {"unlock", "save", "restore"}
      BY <2>13 DEF task_exit, Load
    <3>4. \A w \in Work : /\ Holds(c, w) <=> rsp[c] = w
                          /\ ~Holds(c, w)'
                          /\ \A d \in CPU \ {c} : Holds(d, w)' <=> Holds(d, w)
      BY <3>1, <3>2, <3>3 DEF Holds, Claims
    <3>5. \A w \in Work : Queued(w)' <=> Queued(w)
      BY <3>1 DEF Queued
    <3>6. \A w \in Work : w \in done' <=> w \in done \/ Holds(c, w)
      BY <3>1, <3>4
    <3>7. ASSUME NEW w \in Work
          PROVE  /\ w \in made' <=> Queued(w)' \/ w \in done' \/ \E d \in CPU : Holds(d, w)'
                 /\ ~(Queued(w)' /\ w \in done')
      BY <3>1, <3>4, <3>5, <3>6 DEF WorkInOnePlace
    <3>8. ASSUME NEW w \in Work
          PROVE  /\ \A d \in CPU : Holds(d, w)' => ~Queued(w)' /\ w \notin done'
                 /\ \A d, e \in CPU : Holds(d, w)' /\ Holds(e, w)' => d = e
      BY <3>4, <3>5, <3>6 DEF WorkInOnePlace
    <3> QED BY <3>1, <3>7, <3>8 DEF WorkInOnePlace
  <2> QED BY <1>7, <2>1, <2>2, <2>3, <2>4, <2>5, <2>6, <2>7, <2>8, <2>9, <2>10, <2>11, <2>12, <2>13 DEF CPUStep
<1> QED BY <1>1, <1>2, <1>3, <1>4, <1>5, <1>6, <1>7 DEF Next, BSPStep

\* Work before idle tasks: only kmain appends work, and it does so while no processor has
\* started.
LEMMA WorkBeforeIdleKept ==
  ASSUME IInv, Next
  PROVE  WorkBeforeIdle'
<1>0. /\ TypeOK /\ Phases /\ WorkBeforeIdle
  BY DEF IInv
<1> USE <1>0 DEF TypeOK, WorkBeforeIdle
<1>1. ASSUME NEW p \in Proc, Create(p) PROVE WorkBeforeIdle'
  <2>1. CASE KmallocEnter(p) BY <2>1 DEF KmallocEnter
  <2>2. CASE KmallocReturn(p) BY <2>2 DEF KmallocReturn
  <2>3. CASE PrepareStack(p) BY <2>3 DEF PrepareStack
  <2>4. CASE EnqueueLock(p) BY <2>4 DEF EnqueueLock
  <2>5. CASE AppendTask(p)
    <3>1. \/ \A i \in 1..Len(tasks) : tasks[i] \in Work
          \/ Subject(p) \in CPU
      BY <2>5 DEF AppendTask, Subject, Phases, BSPCreates, Building
    <3>2. tasks' = Append(tasks, Subject(p)) /\ Subject(p) \in Task
      BY <2>5 DEF AppendTask, Subject, Phases, Building
    <3>3. \A k \in 1..Len(tasks') : \/ k \in 1..Len(tasks) /\ tasks'[k] = tasks[k]
                                    \/ k = Len(tasks) + 1 /\ tasks'[k] = Subject(p)
      BY <3>2, AppendQueue
    <3> QED BY <3>1, <3>3
  <2>6. CASE EnqueueUnlock(p) BY <2>6 DEF EnqueueUnlock
  <2> QED BY <1>1, <2>1, <2>2, <2>3, <2>4, <2>5, <2>6 DEF Create
<1>2. CASE NextTask BY <1>2 DEF NextTask
<1>3. CASE AllStarted BY <1>3 DEF AllStarted
<1>4. CASE Hello BY <1>4 DEF Hello
<1>5. CASE Halt BY <1>5 DEF Halt
<1>6. ASSUME NEW c \in CPU, StartAP(c) PROVE WorkBeforeIdle' BY <1>6 DEF StartAP
<1>7. ASSUME NEW c \in CPU, CPUStep(c) PROVE WorkBeforeIdle'
  <2>1. CASE Create(c) BY <2>1, <1>1
  <2>2. CASE SetupCPULocal(c) BY <2>2 DEF SetupCPULocal
  <2>3. CASE task_run(c) BY <2>3 DEF task_run
  <2>4. CASE task_trampoline(c) BY <2>4 DEF task_trampoline
  <2>5. CASE LoopLock(c) BY <2>5 DEF LoopLock
  <2>6. CASE EmptyUnlock(c) BY <2>6 DEF EmptyUnlock
  <2>7. CASE Dequeue(c)
    <3>1. tasks' = Tail(tasks) /\ tasks # << >>
      BY <2>7 DEF Dequeue
    <3>2. \A i \in 1..Len(tasks') : i + 1 \in 1..Len(tasks) /\ tasks'[i] = tasks[i + 1]
      BY <3>1, TailQueue
    <3> QED BY <3>2
  <2>8. CASE DequeueUnlock(c) BY <2>8 DEF DequeueUnlock
  <2>9. CASE save_context(c) BY <2>9 DEF save_context
  <2>10. CASE SwitchTo(c) BY <2>10 DEF SwitchTo
  <2>11. CASE PrintLock(c) BY <2>11 DEF PrintLock
  <2>12. CASE PrintUnlock(c) BY <2>12 DEF PrintUnlock
  <2>13. CASE task_exit(c) BY <2>13 DEF task_exit
  <2> QED BY <1>7, <2>1, <2>2, <2>3, <2>4, <2>5, <2>6, <2>7, <2>8, <2>9, <2>10, <2>11, <2>12, <2>13 DEF CPUStep
<1> QED BY <1>1, <1>2, <1>3, <1>4, <1>5, <1>6, <1>7 DEF Next, BSPStep
-----------------------------------------------------------------------------

\* IInv holds initially.
LEMMA IInvInit == Init => IInv
<1> SUFFICES ASSUME Init PROVE IInv
  OBVIOUS
<1> USE DEF Init
<1>1. TypeOK BY DEF TypeOK, Label, Creating
<1>2. Phases /\ OnStack /\ Contexts /\ Intact
  BY DEF Phases, OnStack, Contexts, Intact, Prepared, BSPLabel, BSPCreates, Building,
         APBoot, APUnready, Running, IdlePoint, WorkPoint
<1>3. LockExclusion
  <2>1. /\ \A l \in Lock : lock[l] = 0
        /\ \A p \in Proc : pc[p] \in {"create", "parked"}
    OBVIOUS
  <2> HIDE DEF Init, Proc, Lock
  <2>2. \A p \in Proc, l \in Lock : ~Inside(p, l)
    BY <2>1 DEF Inside, InKmalloc, InTaskLock, InSerialLock
  <2> QED BY <2>1, <2>2 DEF LockExclusion
<1>4. WorkInOnePlace /\ WorkBeforeIdle
  BY DEF WorkInOnePlace, WorkBeforeIdle, Queued, Holds, Claims
<1> QED BY <1>1, <1>2, <1>3, <1>4 DEF IInv

\* Every step keeps IInv.
LEMMA IInvNext == IInv /\ [Next]_vars => IInv'
<1> SUFFICES ASSUME IInv, [Next]_vars PROVE IInv'
  OBVIOUS
<1>1. CASE Next
  BY <1>1, TypeOKKept, PhasesKept, OnStackKept, ContextsKept, IntactKept,
     LockExclusionKept, WorkInOnePlaceKept, WorkBeforeIdleKept DEF IInv
<1>2. CASE UNCHANGED vars
  BY <1>2 DEF vars, IInv, TypeOK, Phases, OnStack, Contexts, Intact, LockExclusion, WorkInOnePlace,
     WorkBeforeIdle, Prepared, Inside, Queued, Holds, Claims
<1> QED BY <1>1, <1>2

\* The inductive invariant of the scheduler: what each program point means for the locks,
\* the list, the stacks, the contexts and the trampoline words.
THEOREM SchedulerInductive == Spec => []IInv
BY IInvInit, IInvNext, PTL DEF Spec

\* Type correctness.
THEOREM SchedulerTypes == Spec => []TypeOK
<1>1. IInv => TypeOK BY DEF IInv
<1> QED BY <1>1, SchedulerInductive, PTL

\* The three spin locks give mutual exclusion, and every critical section ends by
\* releasing its lock.
THEOREM SchedulerLocks == Spec => []LockExclusion
<1>1. IInv => LockExclusion BY DEF IInv
<1> QED BY <1>1, SchedulerInductive, PTL

\* No work task is lost between the list and a processor, or on two of them.
THEOREM SchedulerWork == Spec => []WorkInOnePlace
<1>1. IInv => WorkInOnePlace BY DEF IInv
<1> QED BY <1>1, SchedulerInductive, PTL

\* An idle task is never handed out before a work task.
THEOREM SchedulerOrder == Spec => []WorkBeforeIdle
<1>1. IInv => WorkBeforeIdle BY DEF IInv
<1> QED BY <1>1, SchedulerInductive, PTL

\* Every saved context leads back to its own task's stack.
THEOREM SchedulerContexts == Spec => []SavesOwnContext
<1>1. IInv => SavesOwnContext BY DEF IInv, SavesOwnContext, Contexts, OnStack, Running
<1> QED BY <1>1, SchedulerInductive, PTL

\* Two processors can only ever meet on the stack of an idle task.
THEOREM SchedulerStacks == Spec => []OnlyIdleStacksShared
<1>1. IInv => OnlyIdleStacksShared
  BY DEF IInv, OnlyIdleStacksShared, OnStack, WorkInOnePlace, Holds, Occupied
<1> QED BY <1>1, SchedulerInductive, PTL

-----------------------------------------------------------------------------
(* Whose idle stack is whose: a processor that takes no other's idle task,   *)
(* and whose own nobody takes, finds its idle stack as it left it.           *)

\* The idle tasks a processor has to do with are its own.
Own(c) == \A t \in CPU : Claims(c, t) \/ rsp[c] = t => t = c

LEMMA AloneKept ==
  ASSUME NEW c \in CPU, IInv, Own(c), Alone(c), BSPStep \/ CPUStep(c)
  PROVE  Alone(c)'
<1>0. TypeOK /\ Phases /\ OnStack /\ Contexts /\ Intact
  BY DEF IInv
<1>a. \A t \in Task : context[t] # None =>
        /\ context[t].stack = t
        /\ t \in Work => context[t].at = "entry"
  BY <1>0 DEF Contexts
<1>b. /\ pc[c] \in {"run", "exit"} => context[c] # None
      /\ pc[c] = "restore" => picked[c] \in Work \cup {c} /\ context[picked[c]] # None
      /\ pc[c] = "restore" /\ picked[c] \in Work => words[picked[c]] = "intact"
  BY <1>0 DEF Contexts, Intact, Prepared, APUnready, Own, Claims, Task
<1>c. /\ pc[c] \in {"run", "exit", "restore"} => current[c] \in Task
      /\ pc[c] \in IdlePoint => rsp[c] = c /\ current[c] = c
      /\ pc[c] \in WorkPoint => rsp[c] \in Work
      /\ pc[c] \in APBoot => rsp[c] = None
      /\ pc[BSP] = "task_init" => making \in Work /\ pc[c] = "parked"
  BY <1>0 DEF OnStack, Phases, Running, IdlePoint, WorkPoint, Building, BSPCreates, Own
<1>d. /\ pc \in [Proc -> Label] /\ words \in [Task -> {"none", "intact", "consumed"}]
      /\ rsp \in [CPU -> Task \cup {None}] /\ context \in [Task -> Context \cup {None}]
      /\ current \in [CPU -> Task \cup {None}] /\ making \in Work \cup {None}
  BY <1>0 DEF TypeOK
<1> USE <1>c, <1>d DEF Alone, Goto, Booted, Running, IdlePoint, WorkPoint, APBoot, APUnready
<1>1. CASE Create(BSP)
  <2>1. CASE KmallocEnter(BSP) BY <2>1 DEF KmallocEnter
  <2>2. CASE KmallocReturn(BSP) BY <2>2 DEF KmallocReturn
  <2>3. CASE PrepareStack(BSP) BY <2>3 DEF PrepareStack, Subject
  <2>4. CASE EnqueueLock(BSP) BY <2>4 DEF EnqueueLock
  <2>5. CASE AppendTask(BSP) BY <2>5 DEF AppendTask
  <2>6. CASE EnqueueUnlock(BSP) BY <2>6 DEF EnqueueUnlock
  <2> QED BY <1>1, <2>1, <2>2, <2>3, <2>4, <2>5, <2>6 DEF Create
<1>2. CASE Create(c)
  <2>1. CASE KmallocEnter(c) BY <2>1 DEF KmallocEnter
  <2>2. CASE KmallocReturn(c) BY <2>2 DEF KmallocReturn
  <2>3. CASE PrepareStack(c) BY <2>3 DEF PrepareStack, Subject
  <2>4. CASE EnqueueLock(c) BY <2>4 DEF EnqueueLock
  <2>5. CASE AppendTask(c) BY <2>5 DEF AppendTask
  <2>6. CASE EnqueueUnlock(c) BY <2>6 DEF EnqueueUnlock
  <2> QED BY <1>2, <2>1, <2>2, <2>3, <2>4, <2>5, <2>6 DEF Create
<1>3. CASE NextTask BY <1>3 DEF NextTask
<1>4. ASSUME NEW d \in CPU, StartAP(d) PROVE Alone(c)' BY <1>4 DEF StartAP
<1>5. CASE AllStarted \/ Hello \/ Halt BY <1>5 DEF AllStarted, Hello, Halt
<1>6. CASE SetupCPULocal(c) BY <1>6 DEF SetupCPULocal
<1>7. CASE task_run(c)
  BY <1>7, <1>a, <1>b DEF task_run, Load
<1>8. CASE task_trampoline(c) BY <1>8 DEF task_trampoline
<1>9. CASE LoopLock(c) \/ EmptyUnlock(c) \/ Dequeue(c) \/ DequeueUnlock(c)
  BY <1>9 DEF LoopLock, EmptyUnlock, Dequeue, DequeueUnlock
<1>10. CASE save_context(c) BY <1>10 DEF save_context
<1>11. CASE SwitchTo(c)
  <2>1. context[c].at = "loop" /\ context' = context /\ words' = words
    BY <1>11 DEF SwitchTo
  <2>2. rsp'[c] = picked[c]
    BY <1>11, <1>a, <1>b DEF SwitchTo, Load
  <2>3. CASE picked[c] \in Work
    BY <1>11, <1>b, <2>1, <2>2, <2>3 DEF SwitchTo, Load
  <2>4. CASE picked[c] = c
    BY <1>11, <2>1, <2>2, <2>4 DEF SwitchTo, Load
  <2> QED BY <1>11, <1>b, <2>3, <2>4 DEF SwitchTo
<1>12. CASE PrintLock(c) \/ PrintUnlock(c) BY <1>12 DEF PrintLock, PrintUnlock
<1>13. CASE task_exit(c)
  BY <1>13, <1>a, <1>b DEF task_exit, Load
<1> QED BY <1>1, <1>2, <1>3, <1>4, <1>5, <1>6, <1>7, <1>8, <1>9, <1>10, <1>11, <1>12, <1>13
       DEF BSPStep, CPUStep

\* The step of another processor d leaves c alone, if each keeps to its own idle task.
LEMMA AloneElsewhere ==
  ASSUME NEW c \in CPU, NEW d \in CPU, d # c, IInv, Own(c), Own(d), Alone(c), CPUStep(d)
  PROVE  Alone(c)'
<1>0. TypeOK /\ Phases /\ OnStack /\ WorkInOnePlace
  BY DEF IInv
<1>1. /\ pc'[c] = pc[c] /\ rsp'[c] = rsp[c]
      /\ \/ words' = words
         \/ pc[d] = "task_init" /\ words' = [words EXCEPT ![d] = "intact"]
         \/ pc[d] = "trampoline" /\ words' = [words EXCEPT ![rsp[d]] = "consumed"]
      /\ \/ context' = context
         \/ pc[d] = "task_init" /\ context' = [context EXCEPT ![d] = [stack |-> d, at |-> "entry"]]
         \/ pc[d] = "save" /\ context' = [context EXCEPT ![current[d]] = [stack |-> rsp[d], at |-> "loop"]]
  <2> USE <1>0 DEF TypeOK, Goto, Load
  <2>1. CASE Create(d)
    <3> USE DEF Subject
    <3>1. CASE KmallocEnter(d) BY <3>1 DEF KmallocEnter
    <3>2. CASE KmallocReturn(d) BY <3>2 DEF KmallocReturn
    <3>3. CASE PrepareStack(d) BY <3>3 DEF PrepareStack
    <3>4. CASE EnqueueLock(d) BY <3>4 DEF EnqueueLock
    <3>5. CASE AppendTask(d) BY <3>5 DEF AppendTask
    <3>6. CASE EnqueueUnlock(d) BY <3>6 DEF EnqueueUnlock
    <3> QED BY <2>1, <3>1, <3>2, <3>3, <3>4, <3>5, <3>6 DEF Create
  <2>2. CASE SetupCPULocal(d) \/ task_run(d) BY <2>2 DEF SetupCPULocal, task_run
  <2>3. CASE task_trampoline(d) BY <2>3 DEF task_trampoline
  <2>4. CASE LoopLock(d) \/ EmptyUnlock(d) \/ Dequeue(d) \/ DequeueUnlock(d)
    BY <2>4 DEF LoopLock, EmptyUnlock, Dequeue, DequeueUnlock
  <2>5. CASE save_context(d) BY <2>5 DEF save_context
  <2>6. CASE SwitchTo(d) BY <2>6 DEF SwitchTo
  <2>7. CASE PrintLock(d) \/ PrintUnlock(d) BY <2>7 DEF PrintLock, PrintUnlock
  <2>8. CASE task_exit(d) BY <2>8 DEF task_exit
  <2> QED BY <2>1, <2>2, <2>3, <2>4, <2>5, <2>6, <2>7, <2>8 DEF CPUStep
\* d pops the words of its own idle task or of a work task that only d is on
<1>2. pc[d] = "trampoline" => rsp[d] # c /\ (pc[c] = "trampoline" => rsp[d] # rsp[c])
  <2>1. \A e \in {c, d} : pc[e] = "trampoline" => rsp[e] \in Work \cup {e}
    BY <1>0 DEF OnStack, Running, Own, Task
  <2>2. rsp[c] \in Work => rsp[d] # rsp[c]
    BY <1>0 DEF WorkInOnePlace, Holds
  <2> QED BY <2>1, <2>2, SchedulerAssumption
\* and saves into its own
<1>3. pc[d] = "save" => current[d] # c
  BY <1>0 DEF OnStack, Running, IdlePoint, Own
<1>4. words'[c] = words[c] \/ words'[c] = "intact"
  BY <1>0, <1>1, <1>2 DEF TypeOK, Task
<1>5. pc[c] = "trampoline" => words'[rsp[c]] = words[rsp[c]] \/ words'[rsp[c]] = "intact"
  BY <1>0, <1>1, <1>2 DEF TypeOK, OnStack, Running
<1>6. context'[c] = context[c]
  BY <1>0, <1>1, <1>3 DEF TypeOK, Task
<1> QED BY <1>1, <1>4, <1>5, <1>6 DEF Alone

\* With one application processor the trampoline always finds the words task_init left:
\* only a second processor can enter a task whose words have been popped.
THEOREM SchedulerAlone ==
  ASSUME NEW c \in CPU, CPU = {c}
  PROVE  Spec => []TrampolineFindsEntry
<1>1. Init => Alone(c)
  BY DEF Init, Alone, Booted, Running, IdlePoint, WorkPoint
<1>2. IInv /\ Alone(c) /\ [Next]_vars => Alone(c)'
  BY AloneKept DEF vars, Alone, Next, Own
<1>3. Alone(c) => TrampolineFindsEntry
  BY DEF Alone, TrampolineFindsEntry
<1> QED BY <1>1, <1>2, <1>3, SchedulerInductive, PTL DEF Spec

\* What another processor's step, or kmain's, leaves of a processor's registers.
LEMMA HomeElsewhere ==
  ASSUME NEW c \in CPU, IInv, AtHome(c), BSPStep \/ \E d \in CPU \ {c} : CPUStep(d)
  PROVE  /\ \A t \in CPU : ~Claims(c, t)' /\ (rsp'[c] = t => t = c)
         /\ pc'[c] # "wild"
<1>0. TypeOK
  BY DEF IInv
<1> DEFINE Left ==
  /\ pc'[c] = pc[c] \/ pc'[c] = "kmalloc_cpulocal"
  /\ rsp'[c] = rsp[c] /\ picked'[c] = picked[c]
<1>1. Left
  <2> USE <1>0 DEF TypeOK, Goto, Load
  <2>1. ASSUME NEW p \in Proc \ {c}, Create(p) PROVE Left
    <3>1. CASE KmallocEnter(p) BY <3>1 DEF KmallocEnter
    <3>2. CASE KmallocReturn(p) BY <3>2 DEF KmallocReturn
    <3>3. CASE PrepareStack(p) BY <3>3 DEF PrepareStack
    <3>4. CASE EnqueueLock(p) BY <3>4 DEF EnqueueLock
    <3>5. CASE AppendTask(p) BY <3>5 DEF AppendTask
    <3>6. CASE EnqueueUnlock(p) BY <3>6 DEF EnqueueUnlock
    <3> QED BY <2>1, <3>1, <3>2, <3>3, <3>4, <3>5, <3>6 DEF Create
  <2>2. CASE BSPStep
    <3>1. BSP \in Proc \ {c}
      BY SchedulerAssumption DEF Proc
    <3>2. CASE Create(BSP) BY <3>1, <3>2, <2>1
    <3>3. CASE NextTask BY <3>1, <3>3 DEF NextTask
    <3>4. ASSUME NEW d \in CPU, StartAP(d) PROVE Left BY <3>4 DEF StartAP
    <3>5. CASE AllStarted \/ Hello \/ Halt BY <3>1, <3>5 DEF AllStarted, Hello, Halt
    <3> QED BY <2>2, <3>2, <3>3, <3>4, <3>5 DEF BSPStep
  <2>3. ASSUME NEW d \in CPU \ {c}, CPUStep(d) PROVE Left
    <3>1. CASE Create(d) BY <3>1, <2>1 DEF Proc
    <3>2. CASE SetupCPULocal(d) \/ task_run(d) \/ task_trampoline(d)
      BY <3>2 DEF SetupCPULocal, task_run, task_trampoline
    <3>3. CASE LoopLock(d) \/ EmptyUnlock(d) \/ Dequeue(d) \/ DequeueUnlock(d)
      BY <3>3 DEF LoopLock, EmptyUnlock, Dequeue, DequeueUnlock
    <3>4. CASE save_context(d) \/ SwitchTo(d)
      BY <3>4 DEF save_context, SwitchTo
    <3>5. CASE PrintLock(d) \/ PrintUnlock(d) \/ task_exit(d)
      BY <3>5 DEF PrintLock, PrintUnlock, task_exit
    <3> QED BY <2>3, <3>1, <3>2, <3>3, <3>4, <3>5 DEF CPUStep
  <2> QED BY <2>2, <2>3
<1> QED BY <1>1 DEF AtHome, Claims

\* A processor at home stays there while the list holds work: what it takes off the list
\* is work, and what it returns into is fresh words or a frame of its own.
LEMMA HomeKept ==
  ASSUME NEW c \in CPU, IInv, ~Dry, \A d \in CPU : AtHome(d), CPUStep(c)
  PROVE  /\ \A t \in CPU : ~Claims(c, t)' /\ (rsp'[c] = t => t = c)
         /\ pc'[c] # "wild"
<1>0. TypeOK /\ Phases /\ OnStack /\ Contexts /\ WorkBeforeIdle
  BY DEF IInv
<1>1. /\ AtHome(c) /\ pc[c] # "wild"
      /\ \A d \in CPU \ {c} : rsp[d] # c
  BY DEF AtHome
<1>2. \A t \in CPU : ~Claims(c, t) /\ (rsp[c] = t => t = c)
  BY <1>1 DEF AtHome
<1> DEFINE Stays ==
  /\ \A t \in CPU : ~Claims(c, t)' /\ (rsp'[c] = t => t = c)
  /\ pc'[c] # "wild"
\* steps that neither take a task nor move the stack pointer
<1>3. ASSUME rsp'[c] = rsp[c], picked'[c] = picked[c], pc'[c] # "wild",
             pc'[c] \in {"unlock", "save", "restore"} => pc[c] \in {"unlock", "save", "restore"}
      PROVE  Stays
  BY <1>2, <1>3 DEF Claims
<1>4. CASE Create(c) \/ SetupCPULocal(c) \/ LoopLock(c) \/ EmptyUnlock(c) \/ DequeueUnlock(c)
           \/ save_context(c) \/ PrintLock(c) \/ PrintUnlock(c)
  <2> USE <1>0, <1>3 DEF TypeOK, Goto, Proc
  <2>1. CASE KmallocEnter(c) \/ KmallocReturn(c) \/ PrepareStack(c)
    BY <2>1 DEF KmallocEnter, KmallocReturn, PrepareStack
  <2>2. CASE EnqueueLock(c) \/ AppendTask(c) \/ EnqueueUnlock(c)
    BY <2>2, SchedulerAssumption DEF EnqueueLock, AppendTask, EnqueueUnlock
  <2>3. CASE SetupCPULocal(c) \/ LoopLock(c) \/ EmptyUnlock(c) \/ DequeueUnlock(c)
    BY <2>3 DEF SetupCPULocal, LoopLock, EmptyUnlock, DequeueUnlock
  <2>4. CASE save_context(c) \/ PrintLock(c) \/ PrintUnlock(c)
    BY <2>4 DEF save_context, PrintLock, PrintUnlock
  <2> QED BY <1>4, <2>1, <2>2, <2>3, <2>4 DEF Create
<1>5. CASE task_trampoline(c)
  <2>1. words[rsp[c]] = "intact"
    BY <1>1, <1>5 DEF AtHome, Alone, task_trampoline
  <2> QED BY <1>0, <1>3, <1>5, <2>1 DEF task_trampoline, TypeOK, Goto, Proc
<1>6. CASE Dequeue(c)
  <2>1. pc[BSP] \notin BSPCreates /\ made = Work
    BY <1>0, <1>6 DEF Phases, Dequeue
  <2>2. PICK i \in 1..Len(tasks) : tasks[i] \in Work
    BY <2>1 DEF Dry
  <2>3. tasks # <<>> /\ Head(tasks) = tasks[1] /\ tasks[1] \in Task /\ 1 \in 1..Len(tasks)
    BY <1>0, <1>6, <2>2 DEF Dequeue, TypeOK
  <2>4. Head(tasks) \in Work
    BY <1>0, <2>2, <2>3 DEF WorkBeforeIdle, Task
  <2> QED BY <1>0, <1>2, <1>6, <2>4, SchedulerAssumption DEF Dequeue, TypeOK, Goto, Proc, Claims
\* the two ways of moving the stack pointer: onto its own idle stack ...
<1>7. ASSUME Load(c, c), picked' = picked, context[c] # None
      PROVE  Stays
  BY <1>0, <1>1, <1>7 DEF Load, Occupied, Contexts, TypeOK, Goto, Proc, Claims, Task
<1>8. CASE task_run(c) \/ task_exit(c)
  BY <1>0, <1>7, <1>8 DEF task_run, task_exit, Contexts, Prepared, APUnready
\* ... and onto that of a work task
<1>9. CASE SwitchTo(c)
  <2>1. picked[c] \in Work /\ context[picked[c]] # None
    BY <1>0, <1>2, <1>9 DEF SwitchTo, Claims, Contexts, Prepared, Task
  <2>2. context[picked[c]].stack = picked[c] /\ context[picked[c]].at = "entry"
    BY <1>0, <2>1 DEF Contexts, Task
  <2> QED BY <1>0, <1>9, <2>1, <2>2, SchedulerAssumption
          DEF SwitchTo, Load, TypeOK, Goto, Proc, Claims, Task
<1> QED BY <1>4, <1>5, <1>6, <1>8, <1>9 DEF CPUStep

\* Once the last work task is off the list, it stays dry: kmain has none left to make.
LEMMA DryKept ==
  ASSUME IInv, Dry, Next
  PROVE  Dry'
<1>0. TypeOK /\ Phases
  BY DEF IInv
<1>1. pc[BSP] \notin Building
  BY <1>0 DEF Phases, Dry
<1> USE <1>0 DEF TypeOK
<1>2. ASSUME UNCHANGED <<tasks, made>> PROVE Dry'
  BY <1>2 DEF Dry
<1>3. ASSUME NEW p \in Proc, Create(p) PROVE Dry'
  <2>1. CASE KmallocEnter(p) \/ KmallocReturn(p) \/ PrepareStack(p) \/ EnqueueLock(p) \/ EnqueueUnlock(p)
    BY <1>2, <2>1 DEF KmallocEnter, KmallocReturn, PrepareStack, EnqueueLock, EnqueueUnlock
  <2>2. CASE AppendTask(p)
    <3>1. p \in CPU /\ p # BSP /\ p \notin Work
      BY <1>1, <2>2, SchedulerAssumption DEF AppendTask, Building, Proc
    <3>2. tasks' = Append(tasks, p) /\ made' = made
      BY <2>2, <3>1 DEF AppendTask, Subject
    <3>3. \A k \in 1..Len(tasks') : \/ k \in 1..Len(tasks) /\ tasks'[k] = tasks[k]
                                    \/ k = Len(tasks) + 1 /\ tasks'[k] = p
      BY <3>1, <3>2, AppendQueue DEF Task
    <3> QED BY <3>1, <3>2, <3>3 DEF Dry
  <2> QED BY <1>3, <2>1, <2>2 DEF Create
<1>4. CASE NextTask \/ AllStarted \/ Hello \/ Halt \/ \E c \in CPU : StartAP(c)
  BY <1>2, <1>4 DEF NextTask, AllStarted, Hello, Halt, StartAP
<1>5. ASSUME NEW c \in CPU, Dequeue(c) PROVE Dry'
  <2>1. tasks' = Tail(tasks) /\ tasks # << >> /\ made' = made
    BY <1>5 DEF Dequeue
  <2>2. \A i \in 1..Len(tasks') : i + 1 \in 1..Len(tasks) /\ tasks'[i] = tasks[i + 1]
    BY <2>1, TailQueue
  <2> QED BY <2>1, <2>2 DEF Dry
<1>6. ASSUME NEW c \in CPU, CPUStep(c) PROVE Dry'
  <2>1. CASE Create(c) BY <1>3, <2>1 DEF Proc
  <2>2. CASE SetupCPULocal(c) \/ task_run(c) \/ task_trampoline(c) \/ LoopLock(c)
    BY <1>2, <2>2 DEF SetupCPULocal, task_run, task_trampoline, LoopLock
  <2>3. CASE EmptyUnlock(c) \/ DequeueUnlock(c) \/ save_context(c) \/ SwitchTo(c)
    BY <1>2, <2>3 DEF EmptyUnlock, DequeueUnlock, save_context, SwitchTo
  <2>4. CASE PrintLock(c) \/ PrintUnlock(c) \/ task_exit(c)
    BY <1>2, <2>4 DEF PrintLock, PrintUnlock, task_exit
  <2>5. CASE Dequeue(c) BY <1>5, <2>5
  <2> QED BY <1>6, <2>1, <2>2, <2>3, <2>4, <2>5 DEF CPUStep
<1> QED BY <1>3, <1>4, <1>6 DEF Next, BSPStep, Proc

\* Until the last work task is off the list every processor stays at home.
LEMMA HomeUntilDryNext == IInv /\ HomeUntilDry /\ [Next]_vars => HomeUntilDry'
<1> SUFFICES ASSUME IInv, HomeUntilDry, [Next]_vars PROVE HomeUntilDry'
  OBVIOUS
<1>1. CASE UNCHANGED vars
  BY <1>1 DEF vars, HomeUntilDry, Dry, AtHome, Alone, Claims
<1>2. CASE Next /\ Dry
  BY <1>2, DryKept DEF HomeUntilDry
<1>3. CASE Next /\ ~Dry
  <2> SUFFICES ASSUME NEW c \in CPU PROVE AtHome(c)'
    BY DEF HomeUntilDry
  <2>1. \A d \in CPU : AtHome(d) /\ Alone(d) /\ Own(d)
    BY <1>3 DEF HomeUntilDry, AtHome, Own
  <2>2. CASE BSPStep
    BY <2>1, <2>2, AloneKept, HomeElsewhere DEF AtHome
  <2>3. CASE CPUStep(c)
    BY <1>3, <2>1, <2>3, AloneKept, HomeKept DEF AtHome
  <2>4. ASSUME NEW d \in CPU, d # c, CPUStep(d) PROVE AtHome(c)'
    BY <2>1, <2>4, AloneElsewhere, HomeElsewhere DEF AtHome
  <2> QED BY <1>3, <2>2, <2>3, <2>4 DEF Next
<1> QED BY <1>1, <1>2, <1>3

\* With any number of processors, none runs on another's idle stack, returns into words
\* already popped or runs wild before the last work task has been taken off the list.
THEOREM SchedulerAstray == Spec => []AstrayOnlyWhenDry
<1>1. Init => HomeUntilDry
  BY SchedulerAssumption DEF Init, HomeUntilDry, AtHome, Alone, Claims, Booted, Running, IdlePoint, WorkPoint, Proc
<1>2. HomeUntilDry => AstrayOnlyWhenDry
  BY DEF HomeUntilDry, AtHome, Alone, AstrayOnlyWhenDry, Astray
<1> QED BY <1>1, <1>2, HomeUntilDryNext, SchedulerInductive, PTL DEF Spec
=============================================================================
