--------------------------- MODULE TaskingProofs ---------------------------
(***************************************************************************)
(* Proofs about Tasking, for any set of user tasks, any bounds and any     *)
(* behaviour of save_irqdisable.                                           *)
(***************************************************************************)
EXTENDS Tasking, TLAPS, SequenceTheorems

-----------------------------------------------------------------------------
(* The operations on the frames of one stack.                               *)

\* An interrupt or a call adds one frame on top.
LEMMA PushFrames ==
  ASSUME NEW s \in Seq(Frame), NEW f \in Frame
  PROVE  /\ Push(s, f) \in Seq(Frame)
         /\ Len(Push(s, f)) = Len(s) + 1
         /\ \A i \in 1..Len(s) : Push(s, f)[i] = s[i]
         /\ Push(s, f)[Len(s) + 1] = f
BY DEF Push

\* A return takes the top frame away.
LEMMA PopFrames ==
  ASSUME NEW s \in Seq(Frame), Len(s) > 0
  PROVE  /\ Pop(s) \in Seq(Frame)
         /\ Len(Pop(s)) = Len(s) - 1
         /\ \A i \in 1..Len(s) - 1 : Pop(s)[i] = s[i]
<1>1. Len(s) - 1 \in Nat /\ \A i \in 1..Len(s) - 1 : s[i] \in Frame
  OBVIOUS
<1>2. /\ SubSeq(s, 1, Len(s) - 1) \in Seq(Frame)
      /\ Len(SubSeq(s, 1, Len(s) - 1)) =
           IF 1 <= Len(s) - 1 THEN Len(s) - 1 - 1 + 1 ELSE 0
      /\ \A i \in 1..Len(s) - 1 - 1 + 1 :
            SubSeq(s, 1, Len(s) - 1)[i] = s[1 + i - 1]
  BY <1>1, SubSeqProperties
<1>3. Len(SubSeq(s, 1, Len(s) - 1)) = Len(s) - 1
  <2>1. Len(s) \in Nat
    OBVIOUS
  <2>2. \A n \in Nat : n > 0 => (IF 1 <= n - 1 THEN n - 1 - 1 + 1 ELSE 0) = n - 1
    OBVIOUS
  <2>3. QED
    BY <1>2, <2>1, <2>2
<1>4. ASSUME NEW i \in 1..Len(s) - 1
      PROVE  SubSeq(s, 1, Len(s) - 1)[i] = s[i]
  <2>1. i \in 1..Len(s) - 1 - 1 + 1 /\ 1 + i - 1 = i
    BY <1>1
  <2>2. QED
    BY <1>2, <2>1
<1>5. QED
  BY <1>2, <1>3, <1>4 DEF Pop

\* Only the top frame changes.
LEMMA SetTopFrames ==
  ASSUME NEW s \in Seq(Frame), NEW f \in Frame, Len(s) > 0
  PROVE  /\ SetTop(s, f) \in Seq(Frame)
         /\ Len(SetTop(s, f)) = Len(s)
         /\ \A i \in 1..Len(s) - 1 : SetTop(s, f)[i] = s[i]
         /\ SetTop(s, f)[Len(s)] = f
BY DEF SetTop

\* A jump changes only where the top frame stands.
LEMMA GotoFrames ==
  ASSUME NEW s \in Seq(Frame), Len(s) > 0, NEW l \in Pc
  PROVE  /\ Goto(s, l) \in Seq(Frame)
         /\ Len(Goto(s, l)) = Len(s)
         /\ \A i \in 1..Len(s) - 1 : Goto(s, l)[i] = s[i]
         /\ Goto(s, l)[Len(s)] = [s[Len(s)] EXCEPT !.pc = l]
<1>1. s[Len(s)] \in Frame /\ [s[Len(s)] EXCEPT !.pc = l] \in Frame
  <2>1. s[Len(s)] \in Frame
    OBVIOUS
  <2>2. QED
    BY <2>1 DEF Frame
<1> DEFINE f == [s[Len(s)] EXCEPT !.pc = l]
<1>2. Goto(s, l) = SetTop(s, f)
  BY DEF Goto, Top
<1> HIDE DEF f
<1>3. f \in Frame
  BY <1>1 DEF f
<1>4. /\ SetTop(s, f) \in Seq(Frame)
      /\ Len(SetTop(s, f)) = Len(s)
      /\ \A i \in 1..Len(s) - 1 : SetTop(s, f)[i] = s[i]
      /\ SetTop(s, f)[Len(s)] = f
  BY <1>3, SetTopFrames
<1>5. QED
  BY <1>2, <1>4 DEF f

\* New frames have the type of frames.
LEMMA NewFrames ==
  ASSUME NEW l \in Pc, NEW f \in BOOLEAN
  PROVE  /\ At(l) \in Frame /\ At(l).pc = l
         /\ Isr(l, f) \in Frame /\ Isr(l, f).pc = l /\ Isr(l, f).eflags = f
BY DEF At, Isr, Frame

-----------------------------------------------------------------------------
(* What a step does to the stacks, as facts about single frames.            *)

\* c executes and has n frames, the top one at l.
Runs(c, n, l) == /\ c \in Task /\ n \in Nat /\ n > 0
                 /\ cpu = c /\ Len(stack[c]) = n /\ stack[c][n].pc = l

\* Only the stack of c changes, and its first m frames do not.
Keeps(c, m) ==
  /\ stack' \in [Task -> Seq(Frame)]
  /\ \A t \in Task : t # c => stack'[t] = stack[t]
  /\ \A i \in 1..m : stack'[c][i] = stack[c][i]

LEMMA JumpStep ==
  ASSUME TypeOK, NEW c, NEW n, NEW k, Runs(c, n, k), NEW l \in Pc, JumpTo(l)
  PROVE  /\ Keeps(c, n - 1)
         /\ Len(stack'[c]) = n
         /\ stack'[c][n] = [stack[c][n] EXCEPT !.pc = l]
         /\ stack'[c][n].pc = l
<1>1. stack[c] \in Seq(Frame) /\ stack[c][n] \in Frame
  BY DEF TypeOK, Runs
<1>2. [stack[c][n] EXCEPT !.pc = l].pc = l
  BY <1>1 DEF Frame
<1>3. /\ Goto(stack[c], l) \in Seq(Frame)
      /\ Len(Goto(stack[c], l)) = n
      /\ \A i \in 1..n - 1 : Goto(stack[c], l)[i] = stack[c][i]
      /\ Goto(stack[c], l)[n] = [stack[c][n] EXCEPT !.pc = l]
  BY <1>1, GotoFrames DEF Runs
<1>4. stack' = [stack EXCEPT ![c] = Goto(stack[c], l)]
  BY DEF JumpTo, OnStack, Runs
<1>5. QED
  BY <1>2, <1>3, <1>4 DEF TypeOK, Keeps, Runs

LEMMA ReturnStep ==
  ASSUME TypeOK, NEW c, NEW n, NEW k, Runs(c, n, k), Return
  PROVE  /\ Keeps(c, n - 1)
         /\ Len(stack'[c]) = n - 1
<1> DEFINE g == Pop(stack[c])
<1>1. stack \in [Task -> Seq(Frame)] /\ stack[c] \in Seq(Frame) /\ Len(stack[c]) = n /\ n > 0
  BY DEF TypeOK, Runs
<1>2. g \in Seq(Frame) /\ Len(g) = n - 1 /\ \A i \in 1..n - 1 : g[i] = stack[c][i]
  BY <1>1, PopFrames
<1>3. stack' = [stack EXCEPT ![c] = g]
  BY DEF Return, OnStack, Runs
<1> HIDE DEF g
<1>4. /\ stack'[c] = g
      /\ stack' \in [Task -> Seq(Frame)]
      /\ \A t \in Task : t # c => stack'[t] = stack[t]
  BY <1>1, <1>2, <1>3 DEF Runs
<1>5. QED
  BY <1>2, <1>4 DEF Keeps

LEMMA CallStep ==
  ASSUME TypeOK, NEW c, NEW n, NEW k, Runs(c, n, k),
         NEW l \in Pc, NEW b \in Pc, Call(l, b)
  PROVE  /\ Keeps(c, n - 1)
         /\ Len(stack'[c]) = n + 1
         /\ stack'[c][n] = [stack[c][n] EXCEPT !.pc = b]
         /\ stack'[c][n].pc = b
         /\ stack'[c][n + 1] = At(l)
         /\ stack'[c][n + 1].pc = l
<1> DEFINE g == Goto(stack[c], b)
           h == Push(g, At(l))
<1>1. stack[c] \in Seq(Frame) /\ At(l) \in Frame /\ At(l).pc = l
  BY NewFrames DEF TypeOK, Runs
<1>2. /\ g \in Seq(Frame)
      /\ Len(g) = n
      /\ \A i \in 1..n - 1 : g[i] = stack[c][i]
      /\ g[n] = [stack[c][n] EXCEPT !.pc = b]
  BY <1>1, GotoFrames DEF Runs
<1>3. stack' = [stack EXCEPT ![c] = h]
  BY DEF Call, OnStack, Runs
<1> HIDE DEF g
<1>4. /\ h \in Seq(Frame)
      /\ Len(h) = Len(g) + 1
      /\ \A i \in 1..Len(g) : h[i] = g[i]
      /\ h[Len(g) + 1] = At(l)
  BY <1>1, <1>2, PushFrames
<1> HIDE DEF h
<1>5. /\ stack'[c] = h
      /\ stack' \in [Task -> Seq(Frame)]
      /\ \A t \in Task : t # c => stack'[t] = stack[t]
  BY <1>3, <1>4 DEF TypeOK, Runs
<1>6. /\ Len(h) = n + 1
      /\ h[n + 1] = At(l)
      /\ \A i \in 1..n : h[i] = g[i]
  BY <1>2, <1>4
<1>7. /\ h[n] = [stack[c][n] EXCEPT !.pc = b]
      /\ \A i \in 1..n - 1 : h[i] = stack[c][i]
  BY <1>1, <1>2, <1>6 DEF Runs
<1>8. stack[c][n] \in Frame
  BY <1>1 DEF Runs
<1>9. h[n].pc = b
  BY <1>7, <1>8 DEF Frame
<1>10. QED
  BY <1>1, <1>5, <1>6, <1>7, <1>9 DEF Keeps

LEMMA PushStep ==
  ASSUME TypeOK, NEW c, NEW n, NEW k, Runs(c, n, k),
         NEW l \in Pc, OnStack(Push(stack[c], Isr(l, TRUE)))
  PROVE  /\ Keeps(c, n)
         /\ Len(stack'[c]) = n + 1
         /\ stack'[c][n + 1].pc = l
         /\ stack'[c][n + 1].eflags
<1>1. /\ stack[c] \in Seq(Frame)
      /\ Isr(l, TRUE) \in Frame /\ Isr(l, TRUE).pc = l /\ Isr(l, TRUE).eflags
  BY NewFrames DEF TypeOK, Runs
<1> DEFINE f == Isr(l, TRUE)
           g == Push(stack[c], f)
<1>2. stack \in [Task -> Seq(Frame)] /\ Len(stack[c]) = n /\ n \in Nat
  BY DEF TypeOK, Runs
<1>3. g \in Seq(Frame) /\ Len(g) = n + 1 /\ g[n + 1] = f /\ \A i \in 1..n : g[i] = stack[c][i]
  BY <1>1, <1>2, PushFrames
<1>4. stack' = [stack EXCEPT ![c] = g]
  BY DEF OnStack, Runs
<1> HIDE DEF f, g
<1>5. /\ stack'[c] = g
      /\ stack' \in [Task -> Seq(Frame)]
      /\ \A t \in Task : t # c => stack'[t] = stack[t]
  BY <1>2, <1>3, <1>4 DEF Runs
<1>6. stack'[c][n + 1].pc = l /\ stack'[c][n + 1].eflags
  BY <1>1, <1>3, <1>5 DEF f
<1>7. QED
  BY <1>3, <1>5, <1>6 DEF Keeps

-----------------------------------------------------------------------------
(* What the invariant says of the frame that executes, and what a step of   *)
(* the same flow keeps of it.                                               *)

LEMMA TopFrame ==
  ASSUME IInv
  PROVE  /\ Runs(cpu, Len(stack[cpu]), pc)
         /\ FrameInv(cpu, Len(stack[cpu]))
         /\ stack[cpu] \in Seq(Frame)
         /\ stack[cpu][Len(stack[cpu])] \in Frame
         /\ pc # "boot_tasking" => tasking_ready
<1>1. stack[cpu] \in Seq(Frame) /\ Len(stack[cpu]) > 0 /\ cpu \in Task
  BY DEF IInv, TypeOK, MachineInv
<1>2. Len(stack[cpu]) \in 1..Len(stack[cpu]) /\ Len(stack[cpu]) \in Nat
  BY <1>1
<1>3. stack[cpu][Len(stack[cpu])] \in Frame
  BY <1>1
<1>4. FrameInv(cpu, Len(stack[cpu]))
  BY <1>1, <1>2 DEF IInv, StackInv
<1>5. ~tasking_ready => pc = "boot_tasking"
  BY DEF IInv, BootInv, pc, Top, At
<1>6. QED
  BY <1>1, <1>2, <1>3, <1>4, <1>5 DEF pc, Top, Runs

\* The step of a flow starts from a frame that is right.
LEMMA Running ==
  ASSUME IInv, NEW l, pc = l
  PROVE  \E c, n : /\ Runs(c, n, l) /\ FrameInv(c, n)
                   /\ stack[c] \in Seq(Frame) /\ stack[c][n] \in Frame
                   /\ l # "boot_tasking" => tasking_ready
BY TopFrame

\* Frames that stay where they are stay right, so only the others matter.
LEMMA StackKept ==
  ASSUME StackInv, NEW c \in Task, NEW m \in Nat, m <= Len(stack[c]),
         Keeps(c, m),
         \A i \in m + 1..Len(stack'[c]) : FrameInv(c, i)'
  PROVE  StackInv'
<1> SUFFICES ASSUME NEW t \in Task, NEW i \in 1..Len(stack'[t])
             PROVE  FrameInv(t, i)'
  BY DEF StackInv
<1>1. CASE t # c
  BY <1>1 DEF StackInv, FrameInv, Keeps
<1>2. CASE t = c /\ i \in m + 1..Len(stack'[c])
  BY <1>2
<1>3. CASE t = c /\ i \in 1..m
  BY <1>3 DEF StackInv, FrameInv, Keeps, YieldAt
<1>4. QED
  BY <1>1, <1>2, <1>3 DEF Keeps

LEMMA ContextKept ==
  ASSUME ContextIntact, tasks' = tasks, NEW c, cpu = c, cpu' = c,
         \A t \in Task : t # c => stack'[t] = stack[t] /\ regs'[t] = regs[t]
  PROVE  ContextIntact'
BY DEF ContextIntact, Created, Parked, Top

LEMMA ListKept ==
  ASSUME ListInv, tasks' = tasks, cpu' = cpu
  PROVE  ListInv'
BY DEF ListInv, Created

LEMMA SuccKept ==
  ASSUME tasks' = tasks, cpu' = cpu
  PROVE  Succ(cpu)' = Succ(cpu)
BY DEF Succ

\* A step of one flow that is no step of yield() keeps the invariant if it
\* leaves yield's frame alone and lets the interrupts in where it must.
LEMMA QuietStep ==
  ASSUME IInv, NEW c \in Task, cpu = c, cpu' = c, tasking_ready,
         UNCHANGED <<tasks, running_task, tasking_ready, tasking_lock, cr3, esp0>>,
         \/ regs' = regs
         \/ /\ YieldOf(c) \notin YieldPc
            /\ \A t \in Task : t # c => regs'[t] = regs[t],
         YieldOf(c) \in YieldPc \/ YieldOf(c)' \in YieldPc =>
           /\ YieldOf(c)' = YieldOf(c)
           /\ stack'[c][YieldAt(c)] = stack[c][YieldAt(c)],
         YieldOf(c) \notin {"y_pick", "y_popf"},
         \A t \in Task : t # c => stack'[t] = stack[t],
         stack'[main_task][1].pc = stack[main_task][1].pc,
         Len(stack'[c]) > 0,
         pc' \in UserPc \cup {"y_load"} => iflag',
         "timer" \in inservice' => pc' = "t_entry",
         "keyboard" \in inservice' =>
           \E i \in 1..Len(stack'[c]) : stack'[c][i].pc = "k_entry",
         TypeOK', StackInv', TidIsCallers'
  PROVE  IInv'
<1>1. YieldOf(cpu) = YieldOf(c) /\ YieldOf(cpu)' = YieldOf(c)' /\ YieldAt(cpu)' = YieldAt(c)
  BY DEF YieldOf, YieldAt
<1>2. HandingOver' <=> HandingOver
  BY <1>1 DEF HandingOver, Handing, YieldPc
<1>3. BootInv'
  BY <1>2 DEF IInv, BootInv
<1>4. ListInv' /\ ContextIntact'
  BY ListKept, ContextKept DEF IInv
<1>5. YieldInv'
  <2>1. YieldInv
    BY DEF IInv
  <2>2. CASE YieldOf(c) \in YieldPc
    <3>1. /\ YieldOf(c)' = YieldOf(c)
          /\ stack'[c][YieldAt(c)] = stack[c][YieldAt(c)]
          /\ regs' = regs
      BY <2>2
    <3>2. QED
      BY <1>1, <1>2, <2>1, <2>2, <3>1, SuccKept DEF YieldInv, Created
  <2>3. CASE YieldOf(c) \notin YieldPc
    <3>1. YieldOf(c)' \notin YieldPc
      BY <2>3
    <3>2. QED
      BY <1>1, <1>2, <2>1, <2>3, <3>1 DEF YieldInv, HandingOver, Handing, Locking, YieldPc
  <2>4. QED
    BY <2>2, <2>3
<1>6. MachineInv'
  BY <1>2 DEF IInv, MachineInv
<1>7. QED
  BY <1>3, <1>4, <1>5, <1>6 DEF IInv

\* A step inside yield() moves its one frame, which is on top, and meets no
\* interrupt in service.
LEMMA YieldStep ==
  ASSUME IInv, NEW c, NEW n, NEW k \in YieldPc, Runs(c, n, k), FrameInv(c, n),
         NEW l \in YieldPc, cpu' = c, Keeps(c, n - 1), Len(stack'[c]) = n,
         stack'[c][n].pc = l
  PROVE  /\ n = YieldAt(c) /\ YieldAt(cpu) = n /\ YieldAt(cpu)' = n
         /\ pc = k /\ pc' = l /\ YieldOf(cpu) = k /\ YieldOf(cpu)' = l
         /\ stack'[main_task][1].pc = stack[main_task][1].pc
         /\ inservice = {}
         /\ StackInv'
<1>1. /\ c \in Task /\ n = YieldAt(c) /\ cpu = c /\ n \in {2, 3}
      /\ Len(stack[c]) = n /\ stack[c][n].pc = k
  BY DEF FrameInv, Runs, YieldAt
<1>2. /\ YieldAt(cpu) = n /\ YieldAt(cpu)' = n /\ pc = k /\ pc' = l
      /\ YieldOf(cpu) = k /\ YieldOf(cpu)' = l
  BY <1>1 DEF YieldAt, YieldOf, pc, Top
<1>3. stack'[main_task][1].pc = stack[main_task][1].pc
  BY <1>1 DEF Keeps, Task
<1>4. inservice = {}
  <2>1. "timer" \notin inservice
    BY <1>2 DEF IInv, MachineInv, YieldPc
  <2>2. \A i \in 1..Len(stack[cpu]) : stack[cpu][i].pc # "k_entry"
    BY <1>1 DEF FrameInv, YieldAt, YieldPc, UserPc
  <2>3. QED
    BY <2>1, <2>2 DEF IInv, MachineInv, TypeOK, Line
<1>5. StackInv'
  <2>1. FrameInv(c, n)'
    BY <1>1 DEF FrameInv, BootPc, UserPc, IsrPc, YieldPc, YieldAt, Keeps
  <2>2. QED
    BY <1>1, <2>1, StackKept DEF IInv
<1>6. QED
  BY <1>1, <1>2, <1>3, <1>4, <1>5

\* If no frame above the first j is yield's, before or after a step, the step
\* leaves yield's frame alone.
LEMMA YieldFrameKept ==
  ASSUME NEW c \in Task, NEW n \in Nat, NEW m \in Nat, NEW j \in Nat,
         Len(stack[c]) = n, Len(stack'[c]) = m, j <= n, j <= m, Keeps(c, j),
         c = main_task => j > 0,
         \A i \in j + 1..n : stack[c][i].pc \notin YieldPc,
         \A i \in j + 1..m : stack'[c][i].pc \notin YieldPc
  PROVE  /\ YieldOf(c) \in YieldPc \/ YieldOf(c)' \in YieldPc =>
              /\ YieldOf(c)' = YieldOf(c)
              /\ stack'[c][YieldAt(c)] = stack[c][YieldAt(c)]
         /\ stack'[main_task][1].pc = stack[main_task][1].pc
         /\ \A t \in Task : t # c => stack'[t] = stack[t]
<1> DEFINE y == YieldAt(c)
<1>1. y \in {2, 3} /\ y \in Nat
  BY DEF YieldAt
<1>2. CASE y <= j
  <2>1. /\ YieldOf(c) = stack[c][y].pc /\ YieldOf(c)' = stack'[c][y].pc
        /\ stack'[c][y] = stack[c][y]
    BY <1>1, <1>2 DEF YieldOf, YieldAt, Keeps
  <2>2. QED
    BY <2>1, <1>1 DEF Keeps, Task
<1>3. CASE j < y
  <2>1. YieldOf(c) \notin YieldPc
    BY <1>1, <1>3 DEF YieldOf, YieldPc
  <2>2. YieldOf(c)' \notin YieldPc
    <3>1. y' = y
      BY DEF YieldAt
    <3>2. CASE y <= m
      BY <1>1, <1>3, <3>1, <3>2 DEF YieldOf
    <3>3. CASE m < y
      BY <1>1, <1>3, <3>1, <3>3 DEF YieldOf, YieldPc
    <3>4. QED
      BY <1>1, <3>2, <3>3
  <2>3. QED
    BY <2>1, <2>2, <1>1 DEF Keeps, Task
<1>4. QED
  BY <1>1, <1>2, <1>3

-----------------------------------------------------------------------------
(* Every action keeps the invariant: the interrupts and their handlers.     *)

\* A handler's frame that moves to another place of a handler, whatever it
\* does to the flag and to the lines in service.
LEMMA HandlerJump ==
  ASSUME IInv, NEW c, NEW n, NEW k \in IsrPc, Runs(c, n, k), FrameInv(c, n),
         tasking_ready, NEW l \in {"t_sti", "iret"}, JumpTo(l), cpu' = c,
         UNCHANGED <<tasks, running_task, tasking_ready, tasking_lock, cr3, esp0>>,
         \/ regs' = regs
         \/ YieldOf(c) \notin YieldPc /\ \A t \in Task : t # c => regs'[t] = regs[t],
         inservice' \subseteq inservice,
         "timer" \notin inservice',
         k = "k_entry" => "keyboard" \notin inservice',
         TypeOK', TidIsCallers'
  PROVE  IInv'
<1>1. /\ Keeps(c, n - 1) /\ Len(stack'[c]) = n
      /\ stack'[c][n] = [stack[c][n] EXCEPT !.pc = l]
      /\ stack'[c][n].pc = l
  BY JumpStep DEF IInv, Pc, IsrPc
<1>2. /\ c \in Task /\ n \in Nat /\ n > 1 /\ cpu = c /\ Len(stack[c]) = n
      /\ stack[c][n].pc = k /\ stack[c][n].eflags /\ stack[c][n] \in Frame
  BY DEF FrameInv, Runs, IInv, TypeOK
<1>3. stack'[c][n].eflags
  BY <1>1, <1>2 DEF Frame
<1>4. StackInv'
  <2>1. FrameInv(c, n)'
    BY <1>1, <1>2, <1>3 DEF FrameInv, BootPc, UserPc, IsrPc, YieldPc
  <2>2. n - 1 \in Nat /\ n - 1 <= Len(stack[c])
        /\ \A i \in n - 1 + 1..Len(stack'[c]) : FrameInv(c, i)'
    BY <1>1, <1>2, <2>1
  <2>3. QED
    BY <1>1, <1>2, <2>2, StackKept DEF IInv
<1>5. /\ YieldOf(c) \in YieldPc \/ YieldOf(c)' \in YieldPc =>
           /\ YieldOf(c)' = YieldOf(c)
           /\ stack'[c][YieldAt(c)] = stack[c][YieldAt(c)]
      /\ stack'[main_task][1].pc = stack[main_task][1].pc
      /\ \A t \in Task : t # c => stack'[t] = stack[t]
  <2>1. /\ n - 1 \in Nat /\ n - 1 <= n /\ n - 1 > 0
        /\ \A i \in n - 1 + 1..n : stack[c][i].pc \notin YieldPc
        /\ \A i \in n - 1 + 1..n : stack'[c][i].pc \notin YieldPc
    <3>1. k \notin YieldPc /\ l \notin YieldPc
      BY DEF IsrPc, YieldPc
    <3>2. n - 1 \in Nat /\ n - 1 <= n /\ n - 1 > 0
      BY <1>2
    <3>3. ASSUME NEW i \in n - 1 + 1..n
          PROVE  stack[c][i].pc \notin YieldPc /\ stack'[c][i].pc \notin YieldPc
      <4>1. i = n
        BY <1>2
      <4>2. QED
        BY <1>1, <1>2, <3>1, <4>1
    <3>4. QED
      BY <3>2, <3>3
  <2>2. QED
    BY <1>1, <1>2, <2>1, YieldFrameKept
<1>6. pc' = l /\ YieldOf(c) \notin {"y_pick", "y_popf"}
  <2>1. pc' = l
    BY <1>1 DEF pc, Top
  <2>2. CASE YieldAt(c) = n
    <3>1. k \notin {"y_pick", "y_popf"}
      BY DEF IsrPc
    <3>2. YieldOf(c) = k
      BY <1>2, <2>2 DEF YieldOf
    <3>3. QED
      BY <2>1, <3>1, <3>2
  <2>3. CASE YieldAt(c) # n
    <3>1. YieldOf(c) \in {"y_pick", "y_popf"} => Len(stack[c]) = YieldAt(c)
      BY <1>2 DEF IInv, YieldInv
    <3>2. QED
      BY <1>2, <2>1, <2>3, <3>1
  <2>4. QED
    BY <2>1, <2>2, <2>3
<1>7. "keyboard" \in inservice' =>
        \E i \in 1..n : stack'[c][i].pc = "k_entry"
  <2>1. SUFFICES ASSUME "keyboard" \in inservice', NEW i \in 1..n,
                        stack[c][i].pc = "k_entry"
                 PROVE  stack'[c][i].pc = "k_entry"
    BY <1>2 DEF IInv, MachineInv
  <2>2. i \in 1..n - 1
    BY <1>2, <2>1
  <2>3. QED
    BY <1>1, <2>1, <2>2 DEF Keeps
<1>8. QED
  BY <1>1, <1>2, <1>4, <1>5, <1>6, <1>7, QuietStep DEF UserPc

LEMMA TimerStiInv ==
  ASSUME IInv, TimerSti
  PROVE  IInv'
<1>1. PICK c, n : /\ Runs(c, n, "t_sti") /\ FrameInv(c, n)
                  /\ stack[c][n] \in Frame /\ tasking_ready
  BY Running DEF TimerSti
<1>2. /\ JumpTo("iret") /\ cpu = c /\ cpu' = c /\ regs' = regs
      /\ UNCHANGED <<tasks, running_task, tasking_ready, tasking_lock, cr3, esp0>>
      /\ inservice' = inservice /\ tid' = tid
  BY <1>1 DEF TimerSti, sched, user, Runs
<1>3. "timer" \notin inservice
  BY <1>1, <1>2 DEF IInv, MachineInv, pc, Top, Runs
<1>4. Keeps(c, n - 1)
  BY <1>1, <1>2, JumpStep DEF IInv, Pc, IsrPc
<1>5. TypeOK' /\ TidIsCallers'
  BY <1>2, <1>4 DEF IInv, TypeOK, TidIsCallers, TimerSti, sched, user, Keeps
<1>6. QED
  BY <1>1, <1>2, <1>3, <1>5, HandlerJump DEF IsrPc

LEMMA KbdHandleInv ==
  ASSUME IInv, KbdHandle
  PROVE  IInv'
<1>1. PICK c, n : /\ Runs(c, n, "k_entry") /\ FrameInv(c, n)
                  /\ stack[c][n] \in Frame /\ tasking_ready
  BY Running DEF KbdHandle
<1>2. /\ JumpTo("iret") /\ cpu = c /\ cpu' = c /\ regs' = regs
      /\ UNCHANGED <<tasks, running_task, tasking_ready, tasking_lock, cr3, esp0>>
      /\ inservice' = Eoi /\ tid' = tid
  BY <1>1 DEF KbdHandle, sched, user, Runs
<1>3. "timer" \notin inservice
  BY <1>1, <1>2 DEF IInv, MachineInv, pc, Top, Runs
<1>4. Keeps(c, n - 1)
  BY <1>1, <1>2, JumpStep DEF IInv, Pc, IsrPc
<1>5. /\ inservice' \subseteq inservice
      /\ "timer" \notin inservice' /\ "keyboard" \notin inservice'
  BY <1>2, <1>3 DEF Eoi
<1>6. TypeOK' /\ TidIsCallers'
  BY <1>2, <1>4, <1>5 DEF IInv, TypeOK, TidIsCallers, KbdHandle, sched, user, Keeps
<1>7. QED
  BY <1>1, <1>2, <1>5, <1>6, HandlerJump DEF IsrPc

LEMMA SyscallInv ==
  ASSUME IInv, NEW no \in SyscallNo, Syscall(no)
  PROVE  IInv'
<1>1. PICK c, n : /\ Runs(c, n, "s_entry") /\ FrameInv(c, n)
                  /\ stack[c] \in Seq(Frame)
                  /\ stack[c][n] \in Frame /\ tasking_ready
  BY Running DEF Syscall
<1>2. /\ JumpTo("iret") /\ cpu = c /\ cpu' = c
      /\ UNCHANGED <<tasks, running_task, tasking_ready, tasking_lock, cr3, esp0>>
      /\ inservice' = inservice
  BY <1>1 DEF Syscall, Runs
<1>3. n = 2 /\ c \in UserTask /\ YieldOf(c) = "none" /\ stack[c][1].pc = "user"
  <2>1. n = 2 /\ stack[c][1].pc = "user"
    BY <1>1 DEF FrameInv, Runs
  <2>2. c # main_task
    BY <1>1, <2>1 DEF IInv, StackInv, FrameInv, Runs, UserPc
  <2>3. QED
    BY <1>1, <2>1, <2>2 DEF Runs, Task, YieldOf, YieldAt
<1>4. running_task = c
  BY <1>1, <1>2, <1>3 DEF IInv, BootInv, HandingOver, Handing
<1>5. "timer" \notin inservice
  BY <1>1, <1>2 DEF IInv, MachineInv, pc, Top, Runs
<1>6. Keeps(c, n - 1)
  BY <1>1, <1>2, JumpStep DEF IInv, Pc, IsrPc
<1>7. /\ regs' \in [Task -> Regs]
      /\ \A t \in Task : t # c => regs'[t] = regs[t]
  <2>1. FrameEip = "user"
    BY <1>1, <1>2, <1>3 DEF FrameEip, Runs
  <2>2. regs' = regs \/ regs' = [regs EXCEPT ![c].eip = "user"]
    BY <1>4, <2>1 DEF Syscall
  <2>3. "user" \in Pc
    BY DEF Pc, UserPc
  <2>4. regs \in [Task -> Regs] /\ regs[c] \in Regs
    BY <1>1 DEF IInv, TypeOK, Runs
  <2>5. [regs[c] EXCEPT !.eip = "user"] \in Regs
    BY <2>3, <2>4 DEF Regs
  <2>6. QED
    BY <2>2, <2>4, <2>5
<1>8. tid' = tid \/ tid' = [tid EXCEPT ![c] = c]
  BY <1>2, <1>4 DEF Syscall
<1>9. TidIsCallers'
  BY <1>3, <1>8 DEF IInv, TypeOK, TidIsCallers
<1>10. TypeOK'
  BY SMTT(30), <1>2, <1>3, <1>6, <1>7, <1>8 DEF IInv, TypeOK, Syscall, Keeps, Task
<1>11. QED
  BY <1>1, <1>2, <1>3, <1>5, <1>7, <1>9, <1>10, HandlerJump DEF IsrPc, YieldPc

\* An interrupt or a system call adds a handler's frame.
LEMMA HandlerEntry ==
  ASSUME IInv, NEW c, NEW n, NEW k, Runs(c, n, k), tasking_ready, iflag,
         NEW l \in {"t_entry", "k_entry", "s_entry"},
         l = "s_entry" => k = "user",
         OnStack(Push(stack[c], Isr(l, TRUE))),
         UNCHANGED <<sched, tid, cpu, iflag, cr3, esp0>>,
         "timer" \in inservice' => l = "t_entry",
         "keyboard" \in inservice' => "keyboard" \in inservice \/ l = "k_entry",
         TypeOK'
  PROVE  IInv'
<1>1. /\ Keeps(c, n) /\ Len(stack'[c]) = n + 1
      /\ stack'[c][n + 1].pc = l /\ stack'[c][n + 1].eflags
  BY PushStep DEF IInv, Pc, IsrPc
<1>2. /\ c \in Task /\ n \in Nat /\ n > 0 /\ cpu = c /\ cpu' = c
      /\ Len(stack[c]) = n /\ stack[c][n].pc = k /\ pc = k
      /\ l \in IsrPc /\ l \notin YieldPc
  BY DEF Runs, pc, Top, IsrPc, YieldPc
<1>3. StackInv'
  <2>1. l = "s_entry" => n = 1
    BY <1>2 DEF IInv, StackInv, FrameInv, UserPc
  <2>2. FrameInv(c, n + 1)'
    BY <1>1, <1>2, <2>1 DEF FrameInv, BootPc, UserPc, IsrPc, YieldPc, Keeps
  <2>3. \A i \in n + 1..Len(stack'[c]) : FrameInv(c, i)'
    BY <1>1, <1>2, <2>2
  <2>4. QED
    BY <1>1, <1>2, <2>3, StackKept DEF IInv
<1>4. /\ YieldOf(c) \in YieldPc \/ YieldOf(c)' \in YieldPc =>
           /\ YieldOf(c)' = YieldOf(c)
           /\ stack'[c][YieldAt(c)] = stack[c][YieldAt(c)]
      /\ stack'[main_task][1].pc = stack[main_task][1].pc
      /\ \A t \in Task : t # c => stack'[t] = stack[t]
  <2>1. \A i \in n + 1..n : stack[c][i].pc \notin YieldPc
    BY <1>2
  <2>2. \A i \in n + 1..n + 1 : stack'[c][i].pc \notin YieldPc
    BY <1>1, <1>2
  <2>3. QED
    BY <1>1, <1>2, <2>1, <2>2, YieldFrameKept
<1>5. pc' = l /\ YieldOf(c) \notin {"y_pick", "y_popf"}
  BY <1>1, <1>2 DEF pc, Top, IInv, YieldInv
<1>6. "keyboard" \in inservice' =>
        \E i \in 1..n + 1 : stack'[c][i].pc = "k_entry"
  <2>1. CASE l = "k_entry"
    BY <1>1, <1>2, <2>1
  <2>2. CASE l # "k_entry"
    BY <1>1, <1>2, <2>2 DEF IInv, MachineInv, Keeps
  <2>3. QED
    BY <2>1, <2>2
<1>7. TidIsCallers'
  BY DEF IInv, TidIsCallers
<1>8. QED
  BY <1>1, <1>2, <1>3, <1>4, <1>5, <1>6, <1>7, QuietStep DEF UserPc, sched

LEMMA TimerIrqInv ==
  ASSUME IInv, TimerIrq
  PROVE  IInv'
<1>1. PICK c, n : Runs(c, n, pc)
  BY TopFrame
<1>2. /\ iflag /\ cpu = c /\ inservice' = inservice \cup {"timer"}
      /\ OnStack(Push(stack[c], Isr("t_entry", TRUE)))
      /\ UNCHANGED <<sched, user, cpu, iflag, cr3, esp0>>
  BY <1>1 DEF TimerIrq, Interrupt, Runs, IInv, TypeOK
<1>3. tasking_ready
  BY <1>2 DEF IInv, BootInv
<1>4. Keeps(c, n)
  BY <1>1, <1>2, PushStep DEF IInv, Pc, IsrPc
<1>5. TypeOK'
  BY <1>2, <1>4 DEF IInv, TypeOK, sched, user, Keeps, Line
<1>6. QED
  BY <1>1, <1>2, <1>3, <1>5, HandlerEntry DEF user

LEMMA KbdIrqInv ==
  ASSUME IInv, KbdIrq
  PROVE  IInv'
<1>1. PICK c, n : Runs(c, n, pc)
  BY TopFrame
<1>2. /\ iflag /\ cpu = c /\ inservice' = {"keyboard"}
      /\ OnStack(Push(stack[c], Isr("k_entry", TRUE)))
      /\ UNCHANGED <<sched, user, cpu, iflag, cr3, esp0>>
  BY <1>1 DEF KbdIrq, Interrupt, Runs, IInv, TypeOK
<1>3. tasking_ready
  BY <1>2 DEF IInv, BootInv
<1>4. Keeps(c, n)
  BY <1>1, <1>2, PushStep DEF IInv, Pc, IsrPc
<1>5. TypeOK'
  BY <1>2, <1>4 DEF IInv, TypeOK, sched, user, Keeps, Line
<1>6. QED
  BY <1>1, <1>2, <1>3, <1>5, HandlerEntry DEF user

LEMMA Int80Inv ==
  ASSUME IInv, Int80
  PROVE  IInv'
<1>1. PICK c, n : Runs(c, n, "user") /\ FrameInv(c, n) /\ tasking_ready
  BY Running DEF Int80
<1>2. pc = "user" /\ cpu = c
  BY <1>1 DEF Int80, Runs
<1>3. iflag = TRUE
  BY <1>2 DEF IInv, MachineInv, TypeOK, UserPc
<1>4. c \in UserTask
  BY <1>1 DEF FrameInv, Runs, UserPc, Task
<1>5. /\ OnStack(Push(stack[c], Isr("s_entry", TRUE)))
      /\ UNCHANGED <<sched, tid, cpu, iflag, cr3, esp0, inservice>>
  BY <1>2, <1>3 DEF Int80
<1>6. Keeps(c, n)
  BY <1>1, <1>5, PushStep DEF IInv, Pc, IsrPc
<1>7. calls' \in [UserTask -> Nat]
  BY <1>2, <1>4 DEF Int80, IInv, TypeOK
<1>8. TypeOK'
  BY <1>5, <1>6, <1>7 DEF IInv, TypeOK, sched, Keeps
<1>9. "timer" \notin inservice
  BY <1>2 DEF IInv, MachineInv
<1>10. QED
  BY <1>1, <1>3, <1>5, <1>8, <1>9, HandlerEntry

\* Every frame of a handler has the flags of code it could interrupt, so the
\* interrupts are on again after iret.
LEMMA IretInv ==
  ASSUME IInv, Iret
  PROVE  IInv'
<1>1. PICK c, n : /\ Runs(c, n, "iret") /\ FrameInv(c, n)
                  /\ stack[c] \in Seq(Frame) /\ tasking_ready
  BY Running DEF Iret
<1>2. /\ c \in Task /\ n \in Nat /\ n > 1 /\ cpu = c /\ cpu' = c
      /\ Len(stack[c]) = n /\ stack[c][n].pc = "iret" /\ stack[c][n].eflags
      /\ pc = "iret"
  BY <1>1 DEF FrameInv, Runs, IsrPc, Iret, pc, Top
<1>3. /\ Return /\ iflag' = TRUE
      /\ UNCHANGED <<sched, user, cr3, esp0, inservice>>
  <2>1. stack[c][n] \in Frame
    BY <1>1, <1>2
  <2>2. QED
    BY <1>2, <2>1 DEF Iret, IretFlags, Top, Frame
<1>4. Keeps(c, n - 1) /\ Len(stack'[c]) = n - 1
  BY <1>1, <1>3, ReturnStep DEF IInv
<1>5. TypeOK' /\ TidIsCallers'
  BY <1>2, <1>3, <1>4 DEF IInv, TypeOK, TidIsCallers, sched, user, Keeps
<1>6. StackInv'
  <2>1. \A i \in n - 1 + 1..n - 1 : FrameInv(c, i)'
    BY <1>2
  <2>2. QED
    BY <1>2, <1>4, <2>1, StackKept DEF IInv
<1>7. /\ YieldOf(c) \in YieldPc \/ YieldOf(c)' \in YieldPc =>
           /\ YieldOf(c)' = YieldOf(c)
           /\ stack'[c][YieldAt(c)] = stack[c][YieldAt(c)]
      /\ stack'[main_task][1].pc = stack[main_task][1].pc
      /\ \A t \in Task : t # c => stack'[t] = stack[t]
  <2>1. \A i \in n - 1 + 1..n : stack[c][i].pc \notin YieldPc
    <3>1. \A i \in n - 1 + 1..n : i = n
      BY <1>2
    <3>2. "iret" \notin YieldPc
      BY DEF YieldPc
    <3>3. QED
      BY <1>2, <3>1, <3>2
  <2>2. \A i \in n - 1 + 1..n - 1 : stack'[c][i].pc \notin YieldPc
    BY <1>2
  <2>3. n - 1 \in Nat /\ n - 1 <= n /\ n - 1 > 0
    BY <1>2
  <2>4. QED
    BY <1>2, <1>4, <2>1, <2>2, <2>3, YieldFrameKept
<1>8. YieldOf(c) \notin {"y_pick", "y_popf"}
  <2>1. YieldOf(c) \in {"y_pick", "y_popf"} =>
           Len(stack[c]) = YieldAt(c) /\ YieldOf(c) = stack[c][n].pc
    BY <1>2 DEF IInv, YieldInv, YieldOf
  <2>2. QED
    BY <1>2, <2>1
<1>9. /\ "timer" \notin inservice'
      /\ "keyboard" \in inservice' =>
           \E i \in 1..n - 1 : stack'[c][i].pc = "k_entry"
  <2>1. "timer" \notin inservice'
    BY <1>2, <1>3 DEF IInv, MachineInv
  <2>2. SUFFICES ASSUME NEW i \in 1..n, stack[c][i].pc = "k_entry"
                 PROVE  i \in 1..n - 1 /\ stack'[c][i].pc = "k_entry"
    BY <1>2, <1>3, <2>1 DEF IInv, MachineInv
  <2>3. i \in 1..n - 1
    BY <1>2, <2>2
  <2>4. QED
    BY <1>4, <2>2, <2>3 DEF Keeps
<1>10. n - 1 > 0
  BY <1>2
<1>11. QED
  BY <1>1, <1>2, <1>3, <1>4, <1>5, <1>6, <1>7, <1>8, <1>9, <1>10, QuietStep
     DEF sched

\* The prologue's iret leaves ring 0 with the interrupts on.
LEMMA StartIretInv ==
  ASSUME IInv, StartIret
  PROVE  IInv'
<1>1. PICK c, n : /\ Runs(c, n, "start") /\ FrameInv(c, n) /\ tasking_ready
  BY Running DEF StartIret
<1>2. /\ c \in Task /\ c # main_task /\ n = 1 /\ cpu = c /\ cpu' = c
      /\ Len(stack[c]) = 1 /\ stack[c][1].pc = "start" /\ pc = "start"
  BY <1>1 DEF FrameInv, Runs, UserPc, StartIret, pc, Top
<1>3. /\ JumpTo("user")
      /\ UNCHANGED <<sched, user, iflag, cr3, esp0, inservice>>
  BY DEF StartIret
<1>4. /\ Keeps(c, 0) /\ Len(stack'[c]) = 1 /\ stack'[c][1].pc = "user"
  <2>1. Keeps(c, n - 1) /\ Len(stack'[c]) = n /\ stack'[c][n].pc = "user"
    BY <1>1, <1>3, JumpStep DEF IInv, Pc, UserPc
  <2>2. QED
    BY <1>2, <2>1 DEF Keeps
<1>5. TypeOK' /\ TidIsCallers'
  BY <1>2, <1>3, <1>4 DEF IInv, TypeOK, TidIsCallers, sched, user, Keeps
<1>6. StackInv'
  <2>1. FrameInv(c, 1)'
    BY <1>2, <1>4 DEF FrameInv, BootPc, UserPc, IsrPc, YieldPc
  <2>2. PICK m \in Nat : m = 0
    OBVIOUS
  <2>3. /\ m <= Len(stack[c]) /\ Keeps(c, m)
        /\ \A i \in m + 1..Len(stack'[c]) : FrameInv(c, i)'
    BY <1>2, <1>4, <2>1, <2>2
  <2>4. QED
    BY <1>2, <2>3, StackKept DEF IInv
<1>7. /\ YieldOf(c) = "none" /\ YieldOf(c)' = "none"
      /\ stack'[main_task][1].pc = stack[main_task][1].pc
  BY <1>2, <1>4 DEF YieldOf, YieldAt, Keeps, Task
<1>8. "timer" \notin inservice' /\ "keyboard" \notin inservice'
  BY <1>2, <1>3 DEF IInv, MachineInv
<1>9. iflag'
  BY <1>2, <1>3 DEF IInv, MachineInv, UserPc
<1>10. QED
  BY <1>1, <1>2, <1>3, <1>4, <1>5, <1>6, <1>7, <1>8, <1>9, QuietStep
     DEF sched, YieldPc, Keeps

-----------------------------------------------------------------------------
(* The steps of yield().                                                    *)

\* Only the frame of yield() holds the lock, so the attempt succeeds.
LEMMA YieldTryInv ==
  ASSUME IInv, YieldTry
  PROVE  IInv'
<1>1. PICK c, n : Runs(c, n, "y_try") /\ FrameInv(c, n) /\ tasking_ready
  BY Running DEF YieldTry
<1>2. n = YieldAt(c) /\ cpu = c /\ YieldOf(cpu) = "y_try"
  BY <1>1 DEF FrameInv, Runs, YieldPc, YieldOf, YieldAt
<1>3. ~tasking_lock.locked
  BY <1>2 DEF IInv, YieldInv, Locking
<1>4. /\ tasking_lock' = [tasking_lock EXCEPT !.locked = TRUE]
      /\ JumpTo("y_cli") /\ cpu' = c
      /\ UNCHANGED <<tasks, running_task, regs, tasking_ready, callback, user,
                     cpu, iflag, cr3, esp0, inservice>>
  BY <1>1, <1>2, <1>3 DEF YieldTry
<1>5. /\ Keeps(c, n - 1) /\ Len(stack'[c]) = n /\ stack'[c][n].pc = "y_cli"
  BY <1>1, <1>4, JumpStep DEF IInv, YieldPc, Pc
<1>6. /\ YieldAt(cpu) = n /\ YieldAt(cpu)' = n /\ pc' = "y_cli"
      /\ YieldOf(cpu) = "y_try" /\ YieldOf(cpu)' = "y_cli"
      /\ stack'[main_task][1].pc = stack[main_task][1].pc
      /\ inservice = {}
      /\ StackInv'
  BY <1>1, <1>4, <1>5, YieldStep DEF YieldPc
<1>7. TypeOK' /\ TidIsCallers'
  BY <1>4, <1>5 DEF IInv, TypeOK, TidIsCallers, user, Keeps
<1>8. tasking_lock'.locked
  BY <1>4 DEF IInv, TypeOK
<1>9. ~HandingOver /\ ~HandingOver'
  BY <1>6 DEF HandingOver, Handing
<1>10. ListInv' /\ ContextIntact'
  BY <1>2, <1>4, <1>5, ListKept, ContextKept DEF IInv, Keeps
<1>11. BootInv'
  BY <1>1, <1>4, <1>6, <1>9 DEF IInv, BootInv
<1>12. YieldInv'
  BY <1>4, <1>6, <1>8, <1>9 DEF YieldInv, Locking
<1>13. MachineInv'
  BY <1>1, <1>2, <1>4, <1>5, <1>6, <1>9 DEF IInv, MachineInv, UserPc, Runs
<1>14. QED
  BY <1>6, <1>7, <1>10, <1>11, <1>12, <1>13 DEF IInv

LEMMA YieldCliInv ==
  ASSUME IInv, YieldCli
  PROVE  IInv'
<1>1. PICK c, n : Runs(c, n, "y_cli") /\ FrameInv(c, n) /\ tasking_ready
  BY Running DEF YieldCli
<1>2. cpu = c
  BY <1>1 DEF Runs
<1>3. /\ JumpTo("y_pick") /\ cpu' = c /\ ~iflag'
      /\ tasking_lock' \in [locked : {tasking_lock.locked}, f : BOOLEAN]
      /\ UNCHANGED <<tasks, running_task, regs, tasking_ready, callback, user,
                     cpu, cr3, esp0, inservice>>
  BY <1>2, GarbageAssumption DEF YieldCli, IInv, TypeOK
<1>4. /\ Keeps(c, n - 1) /\ Len(stack'[c]) = n /\ stack'[c][n].pc = "y_pick"
  BY <1>1, <1>3, JumpStep DEF IInv, YieldPc, Pc
<1>5. /\ YieldAt(cpu) = n /\ YieldAt(cpu)' = n /\ pc' = "y_pick"
      /\ YieldOf(cpu) = "y_cli" /\ YieldOf(cpu)' = "y_pick"
      /\ stack'[main_task][1].pc = stack[main_task][1].pc
      /\ inservice = {}
      /\ StackInv'
  BY <1>1, <1>3, <1>4, YieldStep DEF YieldPc
<1>6. TypeOK' /\ TidIsCallers'
  BY ZenonT(60), <1>3, <1>4 DEF YieldCli, IInv, TypeOK, TidIsCallers, user, Keeps
<1>7. tasking_lock'.locked
  BY <1>3, <1>5 DEF IInv, YieldInv, Locking
<1>8. ~HandingOver /\ ~HandingOver'
  BY <1>5 DEF HandingOver, Handing
<1>9. ListInv' /\ ContextIntact'
  BY <1>2, <1>3, <1>4, ListKept, ContextKept DEF IInv, Keeps
<1>10. BootInv'
  BY <1>1, <1>3, <1>5, <1>8 DEF IInv, BootInv
<1>11. YieldInv'
  BY <1>3, <1>4, <1>5, <1>7, <1>8 DEF YieldInv, Locking
<1>12. MachineInv'
  BY <1>1, <1>2, <1>3, <1>4, <1>5, <1>8 DEF IInv, MachineInv, UserPc, Runs
<1>13. QED
  BY <1>5, <1>6, <1>9, <1>10, <1>11, <1>12 DEF IInv

\* The successor of a task of the list is another task of the list.
LEMMA SuccInList ==
  ASSUME TypeOK, ListInv, Len(tasks) > 1, NEW t, Created(t)
  PROVE  Succ(t) \in Task /\ Created(Succ(t)) /\ Succ(t) # t
<1> DEFINE i == CHOOSE j \in 1..Len(tasks) : tasks[j] = t
<1>1. i \in 1..Len(tasks) /\ tasks[i] = t
  BY DEF Created
<1>2. Succ(t) = IF i = Len(tasks) THEN main_task ELSE tasks[i + 1]
  BY DEF Succ
<1> HIDE DEF i
<1>3. Len(tasks) \in Nat /\ tasks[1] = main_task /\ 1 \in 1..Len(tasks)
  BY DEF TypeOK, ListInv
<1>4. CASE i = Len(tasks)
  <2>1. Succ(t) = tasks[1] /\ 1 # i
    BY <1>2, <1>3, <1>4
  <2>2. QED
    BY <1>1, <1>3, <2>1 DEF TypeOK, ListInv, Created
<1>5. CASE i # Len(tasks)
  <2>1. Succ(t) = tasks[i + 1] /\ i + 1 \in 1..Len(tasks) /\ i + 1 # i
    BY <1>1, <1>2, <1>3, <1>5
  <2>2. tasks[i + 1] # tasks[i]
    BY <1>1, <2>1 DEF ListInv
  <2>3. tasks[i + 1] \in Task
    BY <2>1 DEF TypeOK
  <2>4. QED
    BY <1>1, <2>1, <2>2, <2>3 DEF Created
<1>6. QED
  BY <1>4, <1>5

\* The next task is another one and parked, so its directory is the user's.
LEMMA YieldPickInv ==
  ASSUME IInv, YieldPick
  PROVE  IInv'
<1>1. PICK c, n : /\ Runs(c, n, "y_pick") /\ FrameInv(c, n) /\ tasking_ready
                  /\ stack[c] \in Seq(Frame) /\ stack[c][n] \in Frame
  BY Running DEF YieldPick
<1> DEFINE f == [stack[c][n] EXCEPT !.pc = "y_popf", !.last = running_task]
<1>2. n = YieldAt(c) /\ c \in Task /\ cpu = c /\ cpu' = c /\ YieldOf(cpu) = "y_pick"
  BY <1>1 DEF FrameInv, Runs, YieldPc, YieldOf, YieldAt, YieldPick
<1>3. running_task = c
  BY <1>1, <1>2 DEF IInv, BootInv, HandingOver, Handing
<1>4. Len(tasks) > 1
  <2>1. CASE c = main_task
    BY <1>1, <2>1 DEF IInv, BootInv, FrameInv, Runs, YieldPc
  <2>2. CASE c # main_task
    <3>1. Created(main_task)
      BY DEF IInv, ListInv, Created
    <3>2. stack[main_task][1].pc = "idle"
      BY <1>2, <2>2, <3>1 DEF IInv, ContextIntact, Parked, Task
    <3>3. QED
      BY <3>2 DEF IInv, BootInv
  <2>3. QED
    BY <2>1, <2>2
<1>5. PICK r \in Task : /\ r = Succ(running_task)
                       /\ Created(r) /\ r # c /\ regs[r].cr3 = "user_proc_dir"
  <2>1. LET r == Succ(running_task) IN r \in Task /\ Created(r) /\ r # c
    BY <1>2, <1>3, <1>4, SuccInList DEF IInv, ListInv
  <2>2. QED
    BY <1>2, <2>1 DEF IInv, ContextIntact, Parked
<1>6. /\ running_task' = r /\ cr3' = "user_proc_dir" /\ esp0' = r
      /\ stack' = [stack EXCEPT ![c] = SetTop(stack[c], f)]
      /\ UNCHANGED <<tasks, regs, tasking_ready, tasking_lock, callback, user,
                     iflag, inservice>>
  BY <1>1, <1>2, <1>5 DEF YieldPick, KernelStackOf, OnStack, Top, Runs
<1>7. f \in Frame /\ f.pc = "y_popf" /\ f.last = c
  BY <1>1, <1>2, <1>3 DEF Frame, Pc, YieldPc
<1> HIDE DEF f
<1>8. /\ Keeps(c, n - 1) /\ Len(stack'[c]) = n
      /\ stack'[c][n].pc = "y_popf" /\ stack'[c][n].last = c
  <2>1. /\ SetTop(stack[c], f) \in Seq(Frame)
        /\ Len(SetTop(stack[c], f)) = n
        /\ \A i \in 1..n - 1 : SetTop(stack[c], f)[i] = stack[c][i]
        /\ SetTop(stack[c], f)[n] = f
    BY <1>1, <1>7, SetTopFrames DEF Runs
  <2>2. QED
    BY <1>2, <1>6, <1>7, <2>1 DEF IInv, TypeOK, Keeps
<1>9. /\ YieldAt(cpu) = n /\ YieldAt(cpu)' = n /\ pc' = "y_popf" /\ pc = "y_pick"
      /\ YieldOf(cpu)' = "y_popf"
      /\ stack'[main_task][1].pc = stack[main_task][1].pc
      /\ inservice = {}
      /\ StackInv'
  BY <1>1, <1>2, <1>8, YieldStep DEF YieldPc
<1>10. TypeOK' /\ TidIsCallers'
  BY <1>2, <1>5, <1>6, <1>8 DEF IInv, TypeOK, TidIsCallers, user, Keeps, Dir
<1>11. HandingOver' /\ Created(r)'
  BY <1>5, <1>6, <1>9 DEF HandingOver, Handing, Created
<1>12. ListInv' /\ ContextIntact'
  BY <1>2, <1>6, <1>8, ListKept, ContextKept DEF IInv, Keeps
<1>13. BootInv'
  BY <1>1, <1>6, <1>9, <1>11 DEF IInv, BootInv
<1>14. ~iflag' /\ tasking_lock'.locked
  BY <1>2, <1>6, <1>9 DEF IInv, YieldInv, Locking
<1>15. YieldInv'
  <2>1. running_task' = Succ(cpu)'
    BY <1>2, <1>3, <1>5, <1>6, SuccKept
  <2>2. QED
    BY <1>2, <1>5, <1>6, <1>8, <1>9, <1>11, <1>14, <2>1 DEF YieldInv, Locking
<1>16. MachineInv'
  BY <1>1, <1>2, <1>6, <1>8, <1>9 DEF MachineInv, UserPc, Runs
<1>17. QED
  BY <1>9, <1>10, <1>12, <1>13, <1>15, <1>16 DEF IInv

LEMMA YieldRestoreInv ==
  ASSUME IInv, YieldRestore
  PROVE  IInv'
<1>1. PICK c, n : /\ Runs(c, n, "y_popf") /\ FrameInv(c, n) /\ tasking_ready
                  /\ stack[c][n] \in Frame
  BY Running DEF YieldRestore
<1>2. n = YieldAt(c) /\ cpu = c /\ cpu' = c /\ YieldOf(cpu) = "y_popf"
  BY <1>1 DEF FrameInv, Runs, YieldPc, YieldOf, YieldAt, YieldRestore
<1>3. /\ JumpTo("y_unlock") /\ tasking_lock'.locked = TRUE
      /\ tasking_lock' \in [locked : BOOLEAN, f : BOOLEAN] /\ iflag' \in BOOLEAN
      /\ UNCHANGED <<tasks, running_task, regs, tasking_ready, callback, user,
                     cr3, esp0, inservice>>
  BY <1>2 DEF YieldRestore, sched, IInv, TypeOK, YieldInv, Locking
<1>4. /\ Keeps(c, n - 1) /\ Len(stack'[c]) = n
      /\ stack'[c][n] = [stack[c][n] EXCEPT !.pc = "y_unlock"]
      /\ stack'[c][n].pc = "y_unlock"
  BY <1>1, <1>3, JumpStep DEF IInv, YieldPc, Pc
<1>5. stack'[c][n].last = stack[c][n].last
  BY <1>1, <1>4 DEF Frame
<1>6. /\ YieldAt(cpu) = n /\ YieldAt(cpu)' = n /\ pc' = "y_unlock" /\ pc = "y_popf"
      /\ YieldOf(cpu)' = "y_unlock"
      /\ stack'[main_task][1].pc = stack[main_task][1].pc
      /\ inservice = {}
      /\ StackInv'
  BY <1>1, <1>2, <1>4, YieldStep DEF YieldPc
<1>7. TypeOK' /\ TidIsCallers'
  BY <1>2, <1>3, <1>4 DEF IInv, TypeOK, TidIsCallers, user, Keeps
<1>8. HandingOver /\ HandingOver'
  BY <1>2, <1>6 DEF HandingOver, Handing
<1>9. ListInv' /\ ContextIntact'
  BY <1>2, <1>3, <1>4, ListKept, ContextKept DEF IInv, Keeps
<1>10. BootInv'
  BY <1>1, <1>3, <1>6, <1>8 DEF IInv, BootInv
<1>11. /\ Created(running_task)' /\ running_task' # cpu' /\ stack[c][n].last = c
       /\ running_task' = Succ(cpu)'
  BY <1>2, <1>3, <1>8, SuccKept DEF IInv, YieldInv, Created
<1>12. YieldInv'
  BY <1>2, <1>3, <1>5, <1>6, <1>11 DEF YieldInv, Locking
<1>13. MachineInv'
  BY <1>1, <1>2, <1>3, <1>4, <1>6, <1>8 DEF IInv, MachineInv, UserPc, Runs
<1>14. QED
  BY <1>6, <1>7, <1>9, <1>10, <1>12, <1>13 DEF IInv

LEMMA YieldUnlockInv ==
  ASSUME IInv, YieldUnlock
  PROVE  IInv'
<1>1. PICK c, n : /\ Runs(c, n, "y_unlock") /\ FrameInv(c, n) /\ tasking_ready
                  /\ stack[c][n] \in Frame
  BY Running DEF YieldUnlock
<1>2. n = YieldAt(c) /\ cpu = c /\ cpu' = c /\ YieldOf(cpu) = "y_unlock"
  BY <1>1 DEF FrameInv, Runs, YieldPc, YieldOf, YieldAt, YieldUnlock
<1>3. /\ JumpTo("y_switch") /\ tasking_lock'.locked = FALSE
      /\ tasking_lock' \in [locked : BOOLEAN, f : BOOLEAN] /\ iflag' \in BOOLEAN
      /\ UNCHANGED <<tasks, running_task, regs, tasking_ready, callback, user,
                     cr3, esp0, inservice>>
  BY <1>2 DEF YieldUnlock, sched, IInv, TypeOK, YieldInv, Locking
<1>4. /\ Keeps(c, n - 1) /\ Len(stack'[c]) = n
      /\ stack'[c][n] = [stack[c][n] EXCEPT !.pc = "y_switch"]
      /\ stack'[c][n].pc = "y_switch"
  BY <1>1, <1>3, JumpStep DEF IInv, YieldPc, Pc
<1>5. stack'[c][n].last = stack[c][n].last
  BY <1>1, <1>4 DEF Frame
<1>6. /\ YieldAt(cpu) = n /\ YieldAt(cpu)' = n /\ pc' = "y_switch" /\ pc = "y_unlock"
      /\ YieldOf(cpu)' = "y_switch"
      /\ stack'[main_task][1].pc = stack[main_task][1].pc
      /\ inservice = {}
      /\ StackInv'
  BY <1>1, <1>2, <1>4, YieldStep DEF YieldPc
<1>7. TypeOK' /\ TidIsCallers'
  BY <1>2, <1>3, <1>4 DEF IInv, TypeOK, TidIsCallers, user, Keeps
<1>8. HandingOver /\ HandingOver'
  BY <1>2, <1>6 DEF HandingOver, Handing
<1>9. ListInv' /\ ContextIntact'
  BY <1>2, <1>3, <1>4, ListKept, ContextKept DEF IInv, Keeps
<1>10. BootInv'
  BY <1>1, <1>3, <1>6, <1>8 DEF IInv, BootInv
<1>11. /\ Created(running_task)' /\ running_task' # cpu' /\ stack[c][n].last = c
       /\ running_task' = Succ(cpu)'
  BY <1>2, <1>3, <1>8, SuccKept DEF IInv, YieldInv, Created
<1>12. YieldInv'
  BY <1>2, <1>3, <1>5, <1>6, <1>11 DEF YieldInv, Locking
<1>13. MachineInv'
  BY <1>1, <1>2, <1>3, <1>4, <1>6, <1>8 DEF IInv, MachineInv, UserPc, Runs
<1>14. QED
  BY <1>6, <1>7, <1>9, <1>10, <1>12, <1>13 DEF IInv

\* switch_to_task saves the context of the flow that executes in its own
\* block, and the flags it loads are right for the next one.
LEMMA SwitchSaveInv ==
  ASSUME IInv, SwitchSave
  PROVE  IInv'
<1>1. PICK c, n : /\ Runs(c, n, "y_switch") /\ FrameInv(c, n) /\ tasking_ready
                  /\ stack[c] \in Seq(Frame) /\ stack[c][n] \in Frame
  BY Running DEF SwitchSave
<1>2. n = YieldAt(c) /\ c \in Task /\ cpu = c /\ cpu' = c /\ YieldOf(cpu) = "y_switch"
  BY <1>1 DEF FrameInv, Runs, YieldPc, YieldOf, YieldAt, SwitchSave
<1>3. HandingOver
  BY <1>2 DEF HandingOver, Handing
<1>4. PICK r \in Task : r = running_task /\ Created(r) /\ r # c
  <2>1. Created(running_task) /\ running_task # c
    BY <1>2, <1>3 DEF IInv, YieldInv
  <2>2. running_task \in Task
    BY <2>1 DEF IInv, TypeOK, Created
  <2>3. QED
    BY <2>1, <2>2
<1>5. stack[c][n].last = c /\ Parked(r) /\ cr3 = "user_proc_dir" /\ esp0 = r
  BY <1>2, <1>3, <1>4 DEF IInv, YieldInv, ContextIntact, MachineInv
<1> DEFINE f == [stack[c][n] EXCEPT !.pc = "y_load", !.new = r]
           x == [eip |-> "y_ret", esp |-> c, eflags |-> iflag, cr3 |-> cr3]
<1>6. /\ regs' = [regs EXCEPT ![c] = x]
      /\ iflag' = regs'[r].eflags
      /\ stack' = [stack EXCEPT ![c] = SetTop(stack[c], f)]
      /\ UNCHANGED <<tasks, running_task, tasking_ready, tasking_lock, callback,
                     user, cr3, esp0, inservice>>
  BY <1>1, <1>2, <1>4, <1>5 DEF SwitchSave, SwitchNew, OnStack, Top, Runs
<1>7. f \in Frame /\ f.pc = "y_load" /\ f.last = c /\ f.new = r
  BY <1>1, <1>2, <1>4, <1>5 DEF Frame, Pc, YieldPc
<1>8. x \in Regs /\ x.eip = "y_ret" /\ x.esp = c /\ x.cr3 = "user_proc_dir"
  BY <1>2, <1>5 DEF IInv, TypeOK, Regs, Pc, YieldPc, Dir
<1> HIDE DEF f, x
<1>9. /\ Keeps(c, n - 1) /\ Len(stack'[c]) = n /\ stack'[c][n].pc = "y_load"
      /\ stack'[c][n].last = c /\ stack'[c][n].new = r
  <2>1. /\ SetTop(stack[c], f) \in Seq(Frame)
        /\ Len(SetTop(stack[c], f)) = n
        /\ \A i \in 1..n - 1 : SetTop(stack[c], f)[i] = stack[c][i]
        /\ SetTop(stack[c], f)[n] = f
    BY <1>1, <1>7, SetTopFrames DEF Runs
  <2>2. QED
    BY <1>2, <1>6, <1>7, <2>1 DEF IInv, TypeOK, Keeps
<1>10. /\ regs' \in [Task -> Regs]
       /\ regs'[c].eip = "y_ret" /\ regs'[c].esp = c
       /\ regs'[c].cr3 = "user_proc_dir"
       /\ \A t \in Task : t # c => regs'[t] = regs[t]
  BY <1>2, <1>6, <1>8 DEF IInv, TypeOK
<1>11. iflag' \in BOOLEAN /\ (regs'[r].eip = "start" => iflag')
  <2>1. iflag' = regs[r].eflags /\ regs[r] \in Regs
    BY <1>4, <1>6, <1>10 DEF IInv, TypeOK
  <2>2. QED
    BY <1>4, <1>5, <1>10, <2>1 DEF Parked, Regs
<1>12. /\ YieldAt(cpu) = n /\ YieldAt(cpu)' = n /\ pc' = "y_load"
       /\ YieldOf(cpu)' = "y_load"
       /\ stack'[main_task][1].pc = stack[main_task][1].pc
       /\ inservice = {}
       /\ StackInv'
  BY <1>1, <1>2, <1>9, YieldStep DEF YieldPc
<1>13. TypeOK' /\ TidIsCallers'
  BY <1>2, <1>6, <1>9, <1>10, <1>11 DEF IInv, TypeOK, TidIsCallers, user, Keeps
<1>14. HandingOver' /\ ~tasking_lock.locked
  BY <1>2, <1>12 DEF HandingOver, Handing, IInv, YieldInv, Locking
<1>15. ListInv' /\ ContextIntact'
  BY <1>2, <1>6, <1>9, <1>10, ListKept, ContextKept DEF IInv, Keeps
<1>16. BootInv'
  BY <1>1, <1>6, <1>12, <1>14 DEF IInv, BootInv
<1>17. running_task' = r /\ Created(r)' /\ running_task' = Succ(cpu)'
  BY <1>2, <1>3, <1>4, <1>6, SuccKept DEF IInv, YieldInv, Created
<1>18. YieldInv'
  BY <1>2, <1>4, <1>6, <1>9, <1>10, <1>11, <1>12, <1>14, <1>17
     DEF YieldInv, Locking
<1>19. MachineInv'
  BY <1>1, <1>2, <1>4, <1>5, <1>6, <1>9, <1>12 DEF MachineInv, UserPc, Runs
<1>20. QED
  BY <1>12, <1>13, <1>15, <1>16, <1>18, <1>19 DEF IInv

\* The flow that loses the processor is parked, the one that gets it was.
LEMMA SwitchLoadInv ==
  ASSUME IInv, SwitchLoad
  PROVE  IInv'
<1>1. PICK c, n : /\ Runs(c, n, "y_load") /\ FrameInv(c, n) /\ tasking_ready
  BY Running DEF SwitchLoad
<1>2. /\ n = YieldAt(c) /\ c \in Task /\ cpu = c /\ Len(stack[c]) = n
      /\ stack[c][n].pc = "y_load"
      /\ YieldOf(cpu) = "y_load" /\ pc = "y_load"
  BY <1>1 DEF FrameInv, Runs, YieldPc, YieldOf, YieldAt, SwitchLoad
<1>3. HandingOver
  BY <1>2 DEF HandingOver, Handing
<1>4. PICK r \in Task : r = running_task /\ Created(r) /\ r # c
  <2>1. Created(running_task) /\ running_task # c
    BY <1>2, <1>3 DEF IInv, YieldInv
  <2>2. running_task \in Task
    BY <2>1 DEF IInv, TypeOK, Created
  <2>3. QED
    BY <2>1, <2>2
<1>5. /\ stack[c][n].new = r
      /\ regs[c].eip = "y_ret" /\ regs[c].esp = c /\ regs[c].cr3 = "user_proc_dir"
      /\ regs[r].eip = "start" => iflag
      /\ Parked(r)
  BY <1>2, <1>4 DEF IInv, YieldInv, ContextIntact
<1>6. PICK m : m = Len(stack[r])
  OBVIOUS
<1>7. /\ m \in Nat /\ m > 0 /\ stack[r] \in Seq(Frame) /\ stack[r][m] \in Frame
  <2>1. stack[r] \in Seq(Frame)
    BY DEF IInv, TypeOK
  <2>2. m > 0 /\ m \in Nat
    <3>1. stack[r] = <<At("start")>> \/ m = 2 \/ m = 3
      BY <1>5, <1>6 DEF Parked
    <3>2. stack[r] = <<At("start")>> => m = 1
      BY <1>6
    <3>3. QED
      BY <3>1, <3>2
  <2>3. QED
    BY <1>6, <2>1, <2>2
<1>8. PICK l \in Pc : l = regs[r].eip
  BY <1>5 DEF Parked, Pc, UserPc, YieldPc
<1>9. /\ cpu' = r /\ cr3' = "user_proc_dir"
      /\ stack' = [stack EXCEPT ![r] = Goto(stack[r], l)]
      /\ UNCHANGED <<sched, user, iflag, esp0, inservice>>
  BY <1>1, <1>2, <1>5, <1>8 DEF SwitchLoad, Top, Parked
<1>10. /\ stack' \in [Task -> Seq(Frame)]
       /\ \A t \in Task : t # r => stack'[t] = stack[t]
       /\ Len(stack'[r]) = m
       /\ \A i \in 1..m - 1 : stack'[r][i] = stack[r][i]
       /\ stack'[r][m].pc = l
  <2>1. /\ Goto(stack[r], l) \in Seq(Frame)
        /\ Len(Goto(stack[r], l)) = m
        /\ \A i \in 1..m - 1 : Goto(stack[r], l)[i] = stack[r][i]
        /\ Goto(stack[r], l)[m] = [stack[r][m] EXCEPT !.pc = l]
    BY <1>6, <1>7, GotoFrames
  <2>2. [stack[r][m] EXCEPT !.pc = l].pc = l
    BY <1>7 DEF Frame
  <2>3. QED
    BY <1>9, <2>1, <2>2 DEF IInv, TypeOK
\* What the stack of r is now: fresh, or back in yield().
<1>11. \/ /\ r # main_task /\ m = 1 /\ l = "start" /\ iflag
       \/ /\ r = main_task /\ m = 2 /\ l = "y_ret" /\ stack'[r][1].pc = "idle"
       \/ /\ r # main_task /\ m = 3 /\ l = "y_ret"
          /\ stack'[r][1].pc \in UserPc /\ stack'[r][2].pc = "t_sti"
          /\ stack'[r][2].eflags
  <2>1. CASE regs[r].eip = "start"
    BY <1>5, <1>6, <1>7, <1>8, <2>1 DEF Parked, At
  <2>2. CASE regs[r].eip = "y_ret" /\ r = main_task
    <3>1. m = 2 /\ stack[r][1].pc = "idle"
      BY <1>5, <1>6, <2>2 DEF Parked
    <3>2. 1 \in 1..m - 1
      BY <3>1
    <3>3. QED
      BY <1>8, <1>10, <2>2, <3>1, <3>2
  <2>3. CASE regs[r].eip = "y_ret" /\ r # main_task
    <3>1. m = 3 /\ stack[r][1].pc \in UserPc /\ stack[r][2].pc = "t_sti"
      BY <1>5, <1>6, <2>3 DEF Parked
    <3>2. 1 \in 1..m - 1 /\ 2 \in 1..m - 1 /\ 2 \in 1..Len(stack[r])
      BY <1>6, <3>1
    <3>3. stack[r][2].eflags
      <4>1. FrameInv(r, 2)
        BY <3>2 DEF IInv, StackInv
      <4>2. QED
        BY <3>1, <4>1 DEF FrameInv, IsrPc
    <3>4. QED
      BY <1>8, <1>10, <2>3, <3>1, <3>2, <3>3
  <2>4. QED
    BY <1>5, <2>1, <2>2, <2>3 DEF Parked
<1>12. YieldOf(cpu)' \in {"none", "y_ret"} /\ pc' = l
  <2>1. YieldOf(r)' \in {"none", "y_ret"}
    BY <1>10, <1>11 DEF YieldOf, YieldAt
  <2>2. YieldOf(cpu)' = YieldOf(r)'
    BY <1>9 DEF YieldOf, YieldAt
  <2>3. QED
    BY <1>9, <1>10, <2>1, <2>2 DEF pc, Top
<1>13. ~HandingOver' /\ ~tasking_lock'.locked
  BY <1>2, <1>9, <1>12 DEF HandingOver, Handing, IInv, YieldInv, Locking, sched
<1>14. inservice' = {}
  <2>1. /\ "timer" \notin inservice
        /\ \A i \in 1..Len(stack[cpu]) : stack[cpu][i].pc # "k_entry"
    BY <1>1, <1>2 DEF IInv, MachineInv, FrameInv, YieldAt, YieldPc, UserPc
  <2>2. QED
    BY <1>9, <2>1 DEF IInv, MachineInv, TypeOK, Line
<1>15. TypeOK'
  BY <1>9, <1>10 DEF IInv, TypeOK, sched, user, Dir
<1>16. StackInv'
  <2>1. ASSUME NEW i \in 1..Len(stack'[r])
        PROVE  FrameInv(r, i)'
    BY <1>10, <1>11 DEF FrameInv, BootPc, UserPc, IsrPc, YieldPc, YieldAt
  <2>2. ASSUME NEW t \in Task, t # r, NEW i \in 1..Len(stack'[t])
        PROVE  FrameInv(t, i)'
    BY <1>10, <2>2 DEF IInv, StackInv, FrameInv
  <2>3. QED
    BY <2>1, <2>2 DEF StackInv
<1>17. Created(cpu)' /\ ListInv' /\ TidIsCallers'
  BY <1>4, <1>9 DEF IInv, ListInv, Created, TidIsCallers, sched, user
<1>18. ContextIntact'
  <2>1. stack'[c] = stack[c] /\ regs' = regs
    BY <1>2, <1>4, <1>9, <1>10 DEF sched
  <2>2. Parked(c)'
    BY ZenonT(60), <1>1, <1>2, <1>5, <2>1 DEF Parked, FrameInv, YieldAt, YieldPc, Top
  <2>3. ASSUME NEW t \in Task, Created(t)', t # r, t # c
        PROVE  Parked(t)'
    <3>1. Parked(t)
      BY <1>2, <1>9, <2>3 DEF IInv, ContextIntact, Created, sched
    <3>2. QED
      BY <1>10, <2>1, <2>3, <3>1 DEF Parked, Top
  <2>4. QED
    BY <1>9, <2>2, <2>3 DEF ContextIntact
<1>19. BootInv'
  <2>1. stack'[main_task][1].pc \in {stack[main_task][1].pc, "idle"}
    BY <1>10, <1>11 DEF Task
  <2>2. stack'[main_task][1].pc = "idle" => Len(tasks) > 1
    <3>1. stack[main_task][1].pc = "idle"
      BY <1>1, <1>2, <1>4, <1>5 DEF FrameInv, YieldPc, Parked, IInv,
           ContextIntact, ListInv, Created, Task
    <3>2. QED
      BY <3>1 DEF IInv, BootInv
  <2>3. stack'[main_task][1].pc # "boot_tasking"
    BY <1>1, <2>1 DEF IInv, BootInv
  <2>4. QED
    BY <1>1, <1>4, <1>9, <1>13, <2>2, <2>3 DEF BootInv, sched
<1>20. YieldInv'
  BY <1>8, <1>11, <1>12, <1>13 DEF YieldInv, Locking
<1>21. MachineInv'
  <2>1. esp0' = running_task' /\ iflag' = iflag
    BY <1>3, <1>9 DEF IInv, MachineInv, sched
  <2>2. Len(stack'[cpu']) > 0
    BY <1>7, <1>9, <1>10
  <2>3. pc' \in UserPc => iflag'
    BY <1>11, <1>12, <2>1 DEF UserPc
  <2>4. QED
    BY <1>9, <1>14, <2>1, <2>2, <2>3 DEF MachineInv
<1>22. QED
  BY <1>15, <1>16, <1>17, <1>18, <1>19, <1>20, <1>21 DEF IInv

-----------------------------------------------------------------------------
(* The calls of yield() and its return.                                     *)

\* A step that calls yield() or returns from it holds no lock, before or
\* after, and is not in the middle of a switch.
LEMMA EdgeStep ==
  ASSUME IInv, NEW c \in Task, cpu = c, cpu' = c, tasking_ready,
         UNCHANGED <<sched, cr3, esp0>>,
         YieldOf(c) \in {"none", "y_try", "y_ret"},
         YieldOf(c)' \in {"none", "y_try", "y_ret"},
         \A t \in Task : t # c => stack'[t] = stack[t],
         stack'[main_task][1].pc = stack[main_task][1].pc,
         Len(stack'[c]) > 0,
         pc' \notin UserPc, pc' # "y_load", inservice' = {},
         TypeOK', StackInv', TidIsCallers'
  PROVE  IInv'
<1>1. /\ YieldOf(cpu) \in {"none", "y_try", "y_ret"}
      /\ YieldOf(cpu)' \in {"none", "y_try", "y_ret"}
  BY DEF YieldOf, YieldAt
<1>2. ~HandingOver /\ ~HandingOver'
  BY <1>1 DEF HandingOver, Handing
<1>3. BootInv'
  BY <1>2 DEF IInv, BootInv, sched
<1>4. ListInv' /\ ContextIntact'
  BY ListKept, ContextKept DEF IInv, sched
<1>5. YieldInv'
  BY <1>1, <1>2 DEF IInv, YieldInv, Locking, sched
<1>6. MachineInv'
  BY <1>2 DEF IInv, MachineInv, sched
<1>7. QED
  BY <1>3, <1>4, <1>5, <1>6 DEF IInv

LEMMA YieldReturnInv ==
  ASSUME IInv, YieldReturn
  PROVE  IInv'
<1>1. PICK c, n : Runs(c, n, "y_ret") /\ FrameInv(c, n) /\ tasking_ready
  BY Running DEF YieldReturn
<1>2. /\ c \in Task /\ n = YieldAt(c) /\ n \in {2, 3} /\ cpu = c /\ cpu' = c
      /\ Len(stack[c]) = n /\ stack[c][n].pc = "y_ret" /\ pc = "y_ret"
      /\ YieldOf(c) = "y_ret"
  BY <1>1 DEF FrameInv, Runs, YieldPc, YieldOf, YieldAt, YieldReturn, pc, Top
<1>3. /\ Return
      /\ UNCHANGED <<sched, user, iflag, cr3, esp0, inservice>>
  BY DEF YieldReturn
<1>4. Keeps(c, n - 1) /\ Len(stack'[c]) = n - 1
  BY <1>1, <1>3, ReturnStep DEF IInv
<1>5. TypeOK' /\ TidIsCallers'
  BY <1>2, <1>3, <1>4 DEF IInv, TypeOK, TidIsCallers, sched, user, Keeps
<1>6. StackInv'
  <2>1. /\ n - 1 \in Nat /\ n - 1 <= Len(stack[c])
        /\ \A i \in n - 1 + 1..Len(stack'[c]) : FrameInv(c, i)'
    BY <1>2, <1>4
  <2>2. QED
    BY <1>2, <1>4, <2>1, StackKept DEF IInv
<1>7. YieldOf(c)' = "none" /\ pc' \in {"idle", "t_sti"}
  <2>1. stack[c][n - 1].pc \in {"idle", "t_sti"}
    BY <1>1, <1>2 DEF FrameInv, YieldPc, YieldAt
  <2>2. stack'[c][n - 1] = stack[c][n - 1]
    BY <1>2, <1>4 DEF Keeps
  <2>3. pc' = stack'[c][n - 1].pc
    BY <1>2, <1>4 DEF pc, Top
  <2>4. QED
    BY <1>2, <1>4, <2>1, <2>2, <2>3 DEF YieldOf, YieldAt
<1>8. stack'[main_task][1].pc = stack[main_task][1].pc
  <2>1. CASE c = main_task
    <3>1. 1 \in 1..n - 1
      BY <1>2
    <3>2. QED
      BY <1>4, <2>1, <3>1 DEF Keeps
  <2>2. CASE c # main_task
    BY <1>4, <2>2 DEF Keeps, Task
  <2>3. QED
    BY <2>1, <2>2
<1>9. inservice = {}
  <2>1. "timer" \notin inservice
    BY <1>2 DEF IInv, MachineInv
  <2>2. \A i \in 1..Len(stack[cpu]) : stack[cpu][i].pc # "k_entry"
    BY <1>1, <1>2 DEF FrameInv, YieldAt, YieldPc, UserPc
  <2>3. QED
    BY <2>1, <2>2 DEF IInv, MachineInv, TypeOK, Line
<1>10. n - 1 > 0
  BY <1>2
<1>11. QED
  BY <1>1, <1>2, <1>3, <1>4, <1>5, <1>6, <1>7, <1>8, <1>9, <1>10, EdgeStep
     DEF Keeps, UserPc

\* The idle loop calls yield() with nothing above its one frame.
LEMMA IdleYieldInv ==
  ASSUME IInv, IdleYield
  PROVE  IInv'
<1>1. PICK c, n : Runs(c, n, "idle") /\ FrameInv(c, n) /\ tasking_ready
  BY Running DEF IdleYield
<1>2. /\ c \in Task /\ c = main_task /\ n = 1 /\ cpu = c /\ cpu' = c
      /\ Len(stack[c]) = 1 /\ stack[c][1].pc = "idle" /\ pc = "idle"
  BY <1>1 DEF FrameInv, Runs, IdleYield, pc, Top
<1>3. /\ Call("y_try", "idle")
      /\ UNCHANGED <<sched, user, iflag, cr3, esp0, inservice>>
  BY DEF IdleYield
<1>4. /\ Keeps(c, 0) /\ Len(stack'[c]) = 2 /\ stack'[c][1].pc = "idle"
      /\ stack'[c][2].pc = "y_try"
  <2>1. /\ Keeps(c, n - 1) /\ Len(stack'[c]) = n + 1 /\ stack'[c][n].pc = "idle"
        /\ stack'[c][n + 1].pc = "y_try"
    <3>1. TypeOK /\ "y_try" \in Pc /\ "idle" \in Pc
      BY DEF IInv, Pc, YieldPc
    <3>2. Runs(c, n, "idle") /\ Call("y_try", "idle")
      BY <1>1, <1>3
    <3>3. /\ Keeps(c, n - 1) /\ Len(stack'[c]) = n + 1
          /\ stack'[c][n] = [stack[c][n] EXCEPT !.pc = "idle"]
          /\ stack'[c][n].pc = "idle" /\ stack'[c][n + 1].pc = "y_try"
      BY <3>1, <3>2, CallStep
    <3>4. QED
      BY <3>3
  <2>2. QED
    BY <1>2, <2>1
<1>5. TypeOK' /\ TidIsCallers'
  BY <1>2, <1>3, <1>4 DEF IInv, TypeOK, TidIsCallers, sched, user, Keeps
<1>6. StackInv'
  <2>1. FrameInv(c, 1)' /\ FrameInv(c, 2)'
    BY <1>2, <1>4 DEF FrameInv, BootPc, UserPc, IsrPc, YieldPc, YieldAt
  <2>2. PICK m \in Nat : m = 0
    OBVIOUS
  <2>3. /\ m <= Len(stack[c]) /\ Keeps(c, m)
        /\ \A i \in m + 1..Len(stack'[c]) : i \in {1, 2}
    BY <1>2, <1>4, <2>2
  <2>4. QED
    BY <1>2, <2>1, <2>3, StackKept DEF IInv
<1>7. /\ YieldOf(c) = "none" /\ YieldOf(c)' = "y_try" /\ pc' = "y_try"
      /\ stack'[main_task][1].pc = stack[main_task][1].pc
  BY <1>2, <1>4 DEF YieldOf, YieldAt, pc, Top
<1>8. inservice = {}
  <2>1. "timer" \notin inservice
    BY <1>2 DEF IInv, MachineInv
  <2>2. \A i \in 1..Len(stack[cpu]) : stack[cpu][i].pc # "k_entry"
    BY <1>2
  <2>3. QED
    BY <2>1, <2>2 DEF IInv, MachineInv, TypeOK, Line
<1>9. Len(stack'[c]) > 0
  BY <1>4
<1>10. QED
  BY <1>1, <1>2, <1>3, <1>4, <1>5, <1>6, <1>7, <1>8, <1>9, EdgeStep
     DEF Keeps, UserPc

\* The tick calls yield() only when the frame below its own is the user
\* code's, so no frame of yield() or of the keyboard is in the stack.
LEMMA TimerHandleInv ==
  ASSUME IInv, TimerHandle
  PROVE  IInv'
<1>1. PICK c, n : /\ Runs(c, n, "t_entry") /\ FrameInv(c, n)
                  /\ stack[c][n] \in Frame /\ tasking_ready
  BY Running DEF TimerHandle
<1>2. /\ c \in Task /\ n \in Nat /\ n > 1 /\ cpu = c /\ cpu' = c
      /\ Len(stack[c]) = n /\ stack[c][n].pc = "t_entry" /\ pc = "t_entry"
      /\ stack[c][n].eflags
  BY <1>1 DEF FrameInv, Runs, IsrPc, TimerHandle, pc, Top
<1>3. /\ iflag' = FALSE /\ inservice' = Eoi
      /\ UNCHANGED <<sched, user, cr3, esp0>>
  BY DEF TimerHandle
<1>4. inservice' \subseteq inservice /\ "timer" \notin inservice'
  BY <1>3 DEF Eoi
<1>5. TidIsCallers'
  BY <1>3 DEF IInv, TidIsCallers, user
<1>6. CASE JumpTo("t_sti")
  <2>1. Keeps(c, n - 1)
    BY <1>1, <1>6, JumpStep DEF IInv, Pc, IsrPc
  <2>2. TypeOK'
    BY <1>2, <1>3, <1>4, <2>1 DEF IInv, TypeOK, sched, user, Keeps
  <2>3. QED
    BY <1>1, <1>2, <1>3, <1>4, <1>5, <1>6, <2>2, HandlerJump DEF IsrPc, sched
<1>7. CASE TickInUserCode /\ Call("y_try", "t_sti")
  <2>1. stack[c][n - 1].pc \in UserPc
    BY <1>2, <1>7 DEF TickInUserCode, FrameEip
  <2>2. n = 2 /\ c # main_task /\ stack[c][1].pc \in UserPc
    <3>1. n - 1 \in 1..Len(stack[c])
      BY <1>2
    <3>2. FrameInv(c, n - 1)
      BY <1>2, <3>1 DEF IInv, StackInv
    <3>3. c # main_task /\ n - 1 = 1
      BY <2>1, <3>2 DEF FrameInv
    <3>4. QED
      BY <1>2, <2>1, <3>3
  <2>3. /\ Keeps(c, n - 1) /\ Len(stack'[c]) = n + 1
        /\ stack'[c][n] = [stack[c][n] EXCEPT !.pc = "t_sti"]
        /\ stack'[c][n].pc = "t_sti" /\ stack'[c][n + 1].pc = "y_try"
    <3>1. TypeOK /\ "y_try" \in Pc /\ "t_sti" \in Pc
      BY DEF IInv, Pc, IsrPc, YieldPc
    <3>2. QED
      BY <1>1, <1>7, <3>1, CallStep
  <2>4. stack'[c][n].eflags
    BY <1>1, <1>2, <2>3 DEF Frame
  <2>5. /\ Len(stack[c]) = 2 /\ Len(stack'[c]) = 3 /\ Keeps(c, 1)
        /\ stack'[c][1] = stack[c][1] /\ stack'[c][2].pc = "t_sti"
        /\ stack'[c][2].eflags /\ stack'[c][3].pc = "y_try"
    BY <1>2, <2>2, <2>3, <2>4 DEF Keeps
  <2>6. TypeOK'
    BY <1>2, <1>3, <1>4, <2>5 DEF IInv, TypeOK, sched, user, Keeps
  <2>7. StackInv'
    <3>1. FrameInv(c, 2)' /\ FrameInv(c, 3)'
      BY <2>2, <2>5 DEF FrameInv, BootPc, UserPc, IsrPc, YieldPc, YieldAt
    <3>2. PICK m \in Nat : m = 1
      OBVIOUS
    <3>3. /\ m <= Len(stack[c]) /\ Keeps(c, m)
          /\ \A i \in m + 1..Len(stack'[c]) : i \in {2, 3}
      BY <2>5, <3>2
    <3>4. QED
      BY <1>2, <3>1, <3>3, StackKept DEF IInv
  <2>8. /\ YieldOf(c) = "none" /\ YieldOf(c)' = "y_try" /\ pc' = "y_try"
        /\ stack'[main_task][1].pc = stack[main_task][1].pc
    BY <1>2, <2>2, <2>5 DEF YieldOf, YieldAt, pc, Top, Keeps, Task
  <2>9. inservice' = {}
    <3>1. \A i \in 1..Len(stack[cpu]) : stack[cpu][i].pc # "k_entry"
      BY <1>2, <2>2 DEF UserPc
    <3>2. QED
      BY <1>4, <3>1 DEF IInv, MachineInv, TypeOK, Line
  <2>10. Len(stack'[c]) > 0
    BY <2>5
  <2>11. QED
    BY <1>1, <1>2, <1>3, <1>5, <2>5, <2>6, <2>7, <2>8, <2>9, <2>10, EdgeStep
       DEF Keeps, UserPc
<1>8. QED
  BY <1>6, <1>7 DEF TimerHandle

-----------------------------------------------------------------------------
(* Boot.                                                                    *)

LEMMA InitInv ==
  ASSUME Init
  PROVE  IInv
<1>1. main_task \in Task /\ main_task \notin UserTask
  BY TaskAssumption DEF Task
<1>2. stack[main_task] = <<At("boot_tasking")>> /\ Len(stack[main_task]) = 1
      /\ stack[main_task][1] = At("boot_tasking")
  BY <1>1 DEF Init
<1>3. At("boot_tasking") \in Frame /\ At("boot_tasking").pc = "boot_tasking"
  BY NewFrames DEF Pc, BootPc
<1>4. \A t \in Task : t # main_task => stack[t] = <<>> /\ Len(stack[t]) = 0
  BY DEF Init
<1>5. stack \in [Task -> Seq(Frame)]
  BY <1>1, <1>3 DEF Init
<1>6. NoRegs \in Regs
  BY DEF NoRegs, Regs
<1>7. TypeOK
  <2>1. tasks \in Seq(Task) /\ regs \in [Task -> Regs]
    BY <1>1, <1>6 DEF Init
  <2>2. /\ tasking_lock \in [locked : BOOLEAN, f : BOOLEAN]
        /\ cr3 \in Dir \cup {"none"}
    BY DEF Init, Dir
  <2>3. calls \in [UserTask -> Nat] /\ tid \in [UserTask -> Task \cup {NULL}]
    BY DEF Init
  <2>4. QED
    BY <1>1, <1>5, <2>1, <2>2, <2>3 DEF Init, TypeOK
<1>8. StackInv
  <2>1. FrameInv(main_task, 1)
    BY <1>2, <1>3 DEF FrameInv, BootPc, UserPc, IsrPc, YieldPc
  <2>2. ASSUME NEW t \in Task, NEW i \in 1..Len(stack[t])
        PROVE  t = main_task /\ i = 1
    <3>1. t # main_task => 1..Len(stack[t]) = {}
      BY <1>4
    <3>2. t = main_task /\ i \in 1..1
      BY <1>2, <3>1
    <3>3. QED
      BY <3>1, <3>2
  <2>3. QED
    BY <2>1, <2>2 DEF StackInv
<1>9. YieldOf(cpu) = "none" /\ pc = "boot_tasking"
  BY <1>2, <1>3 DEF Init, YieldOf, YieldAt, pc, Top
<1>10. ~HandingOver
  BY <1>9 DEF HandingOver, Handing
<1>11. Len(tasks) = 1 /\ tasks[1] = main_task /\ cpu = main_task
  BY DEF Init
<1>12. BootInv /\ ListInv
  BY <1>1, <1>2, <1>3, <1>11 DEF Init, BootInv, ListInv, Created
<1>13. YieldInv
  BY <1>9, <1>10 DEF Init, YieldInv, Locking
<1>14. MachineInv
  BY <1>2, <1>9, <1>10, <1>11 DEF Init, MachineInv, UserPc
<1>15. ContextIntact /\ TidIsCallers
  BY <1>11 DEF Init, ContextIntact, Created, TidIsCallers
<1>16. QED
  BY <1>7, <1>8, <1>12, <1>13, <1>14, <1>15 DEF IInv

\* While kmain boots, its flow has one frame and yield() was never called.
LEMMA Booting ==
  ASSUME IInv, pc \in BootPc
  PROVE  /\ cpu = main_task /\ Runs(cpu, 1, pc)
         /\ YieldOf(cpu) = "none" /\ ~HandingOver
         /\ ~tasking_lock.locked
         /\ "timer" \notin inservice
         /\ pc = "boot_tasking" <=> ~tasking_ready
<1>1. Runs(cpu, Len(stack[cpu]), pc) /\ FrameInv(cpu, Len(stack[cpu]))
  BY TopFrame
<1>2. /\ cpu = main_task /\ Len(stack[cpu]) = 1
      /\ stack[main_task][1].pc = pc
  BY <1>1 DEF FrameInv, Runs
<1>3. YieldOf(cpu) = "none"
  BY <1>2 DEF YieldOf, YieldAt
<1>4. ~HandingOver /\ ~tasking_lock.locked
  BY <1>3 DEF HandingOver, Handing, Locking, IInv, YieldInv
<1>5. "timer" \notin inservice
  BY DEF IInv, MachineInv, BootPc
<1>6. pc = "boot_tasking" <=> ~tasking_ready
  BY <1>2, TopFrame DEF IInv, BootInv
<1>7. QED
  BY <1>1, <1>2, <1>3, <1>4, <1>5, <1>6

LEMMA InitTaskingInv ==
  ASSUME IInv, InitTasking
  PROVE  IInv'
<1>1. PICK c : c = main_task
  OBVIOUS
<1>2. /\ c \in Task /\ cpu = c /\ cpu' = c /\ Runs(c, 1, "boot_tasking")
      /\ YieldOf(c) = "none"
      /\ ~tasking_lock.locked /\ "timer" \notin inservice /\ ~tasking_ready
  BY <1>1, Booting DEF InitTasking, BootPc, Runs
<1>3. tasks = <<main_task>> /\ ~iflag
  BY <1>2 DEF IInv, BootInv
<1>4. /\ JumpTo("boot_user") /\ tasks' = tasks /\ running_task' = c
      /\ tasking_lock' = [tasking_lock EXCEPT !.locked = FALSE]
      /\ tasking_ready' = TRUE
      /\ UNCHANGED <<regs, callback, user, iflag, cr3, esp0, inservice>>
  BY <1>1, <1>3 DEF InitTasking
<1>5. PICK m \in Nat : m = 0
  OBVIOUS
<1>6. Keeps(c, m) /\ Len(stack'[c]) = 1 /\ stack'[c][1].pc = "boot_user"
  <2>1. TypeOK /\ "boot_user" \in Pc /\ 1 - 1 = m
    BY <1>5 DEF IInv, Pc, BootPc
  <2>2. QED
    BY <1>2, <1>4, <2>1, JumpStep
<1>7. TypeOK' /\ TidIsCallers'
  BY <1>2, <1>4, <1>6 DEF IInv, TypeOK, TidIsCallers, user, Keeps
<1>8. /\ YieldOf(cpu)' = "none" /\ pc' = "boot_user"
      /\ tasking_lock'.locked = FALSE
  BY <1>2, <1>4, <1>6 DEF YieldOf, YieldAt, pc, Top, IInv, TypeOK
<1>9. StackInv'
  <2>1. FrameInv(c, 1)'
    BY <1>1, <1>6 DEF FrameInv, BootPc, UserPc, IsrPc, YieldPc
  <2>2. m <= Len(stack[c]) /\ \A i \in m + 1..Len(stack'[c]) : i = 1
    BY <1>2, <1>5, <1>6 DEF Runs
  <2>3. QED
    BY <1>2, <1>6, <2>1, <2>2, StackKept DEF IInv
<1>10. ~HandingOver'
  BY <1>8 DEF HandingOver, Handing
<1>11. BootInv'
  BY <1>1, <1>2, <1>4, <1>6, <1>10 DEF BootInv
<1>12. ListInv' /\ ContextIntact'
  <2>1. \A t \in Task : t # c => stack'[t] = stack[t] /\ regs'[t] = regs[t]
    BY <1>4, <1>6 DEF Keeps
  <2>2. QED
    BY <1>2, <1>4, <2>1, ListKept, ContextKept DEF IInv
<1>13. YieldInv'
  BY <1>8, <1>10 DEF YieldInv, Locking
<1>14. MachineInv'
  <2>1. \A i \in 1..Len(stack[cpu]) : stack[cpu][i].pc # "k_entry"
    BY <1>2 DEF Runs
  <2>2. "keyboard" \notin inservice
    BY <2>1 DEF IInv, MachineInv
  <2>3. QED
    BY <1>1, <1>2, <1>4, <1>6, <1>8, <1>10, <2>2 DEF MachineInv, UserPc
<1>15. QED
  BY <1>7, <1>9, <1>11, <1>12, <1>13, <1>14 DEF IInv

\* The idle loop starts when there is a task to yield to.
LEMMA FinishBootInv ==
  ASSUME IInv, FinishBoot
  PROVE  IInv'
<1>1. PICK c : c = main_task
  OBVIOUS
<1>2. /\ c \in Task /\ cpu = c /\ cpu' = c /\ Runs(c, 1, "boot_user")
      /\ YieldOf(c) = "none" /\ ~HandingOver
      /\ ~tasking_lock.locked /\ "timer" \notin inservice /\ tasking_ready
  BY <1>1, Booting DEF FinishBoot, BootPc, Runs
<1>3. /\ JumpTo("idle") /\ callback' = TRUE /\ iflag' = TRUE
      /\ UNCHANGED <<tasks, running_task, regs, tasking_ready, tasking_lock,
                     user, cr3, esp0, inservice>>
      /\ Len(tasks) > 1
  BY DEF FinishBoot
<1>4. PICK m \in Nat : m = 0
  OBVIOUS
<1>5. Keeps(c, m) /\ Len(stack'[c]) = 1 /\ stack'[c][1].pc = "idle"
  <2>1. TypeOK /\ "idle" \in Pc /\ 1 - 1 = m
    BY <1>4 DEF IInv, Pc
  <2>2. QED
    BY <1>2, <1>3, <2>1, JumpStep
<1>6. TypeOK' /\ TidIsCallers'
  BY <1>2, <1>3, <1>5 DEF IInv, TypeOK, TidIsCallers, user, Keeps
<1>7. YieldOf(cpu)' = "none" /\ pc' = "idle"
  BY <1>2, <1>5 DEF YieldOf, YieldAt, pc, Top
<1>8. StackInv'
  <2>1. FrameInv(c, 1)'
    BY <1>1, <1>5 DEF FrameInv, BootPc, UserPc, IsrPc, YieldPc
  <2>2. m <= Len(stack[c]) /\ \A i \in m + 1..Len(stack'[c]) : i = 1
    BY <1>2, <1>4, <1>5 DEF Runs
  <2>3. QED
    BY <1>2, <1>5, <2>1, <2>2, StackKept DEF IInv
<1>9. ~HandingOver'
  BY <1>7 DEF HandingOver, Handing
<1>10. BootInv'
  BY <1>1, <1>2, <1>3, <1>5, <1>9 DEF IInv, BootInv
<1>11. ListInv' /\ ContextIntact'
  <2>1. \A t \in Task : t # c => stack'[t] = stack[t] /\ regs'[t] = regs[t]
    BY <1>3, <1>5 DEF Keeps
  <2>2. QED
    BY <1>2, <1>3, <2>1, ListKept, ContextKept DEF IInv
<1>12. YieldInv'
  BY <1>2, <1>3, <1>7, <1>9 DEF YieldInv, Locking
<1>13. MachineInv'
  <2>1. \A i \in 1..Len(stack[cpu]) : stack[cpu][i].pc # "k_entry"
    BY <1>2 DEF Runs
  <2>2. "keyboard" \notin inservice
    BY <2>1 DEF IInv, MachineInv
  <2>3. QED
    BY <1>1, <1>2, <1>3, <1>5, <1>7, <1>9, <2>2 DEF MachineInv, UserPc
<1>14. QED
  BY <1>6, <1>8, <1>10, <1>11, <1>12, <1>13 DEF IInv

\* A new task joins the list parked, with a context of its own.
LEMMA SetupUsercodeInv ==
  ASSUME IInv, NEW t \in UserTask, SetupUsercode(t)
  PROVE  IInv'
<1>1. PICK c : c = main_task
  OBVIOUS
<1>2. /\ c \in Task /\ cpu = c /\ cpu' = c /\ Runs(c, 1, "boot_user")
      /\ YieldOf(c) = "none" /\ ~HandingOver
      /\ "timer" \notin inservice /\ tasking_ready
  BY <1>1, Booting DEF SetupUsercode, BootPc, Runs
<1>3. t \in Task /\ t # c /\ ~Created(t)
  BY <1>1, TaskAssumption DEF Task, SetupUsercode, Created
<1>4. /\ regs' = [regs EXCEPT ![t] = FreshContext(t)]
      /\ stack' = [stack EXCEPT ![t] = <<At("start")>>]
      /\ tasks' = Append(tasks, t)
      /\ tasking_lock' \in [locked : {FALSE}, f : BOOLEAN] /\ iflag' \in BOOLEAN
      /\ UNCHANGED <<running_task, tasking_ready, callback, user, cr3, esp0,
                     inservice>>
  BY GarbageAssumption DEF SetupUsercode, IInv, TypeOK
<1>5. At("start") \in Frame /\ At("start").pc = "start"
  BY NewFrames DEF Pc, UserPc
<1>6. FreshContext(t) \in Regs
  BY <1>3 DEF FreshContext, Regs, Pc, UserPc, Dir
<1>7. /\ stack' \in [Task -> Seq(Frame)]
      /\ stack'[t] = <<At("start")>>
      /\ \A u \in Task : u # t => stack'[u] = stack[u]
  BY <1>3, <1>4, <1>5 DEF IInv, TypeOK
<1>8. /\ regs' \in [Task -> Regs]
      /\ regs'[t] = FreshContext(t)
      /\ \A u \in Task : u # t => regs'[u] = regs[u]
  BY <1>3, <1>4, <1>6 DEF IInv, TypeOK
<1>9. PICK k \in Nat : k = Len(tasks)
  BY DEF IInv, TypeOK
<1>10. /\ tasks' \in Seq(Task) /\ Len(tasks') = k + 1 /\ tasks'[k + 1] = t
       /\ \A i \in 1..k : tasks'[i] = tasks[i]
  BY <1>3, <1>4, <1>9 DEF IInv, TypeOK
<1>11. TypeOK' /\ TidIsCallers'
  BY <1>2, <1>4, <1>7, <1>8, <1>10 DEF IInv, TypeOK, TidIsCallers, user
<1>12. StackInv'
  <2>1. Len(stack'[t]) = 1 /\ stack'[t][1].pc = "start"
    BY <1>5, <1>7
  <2>2. FrameInv(t, 1)'
    BY <1>1, <1>3, <2>1 DEF FrameInv, BootPc, UserPc, IsrPc, YieldPc
  <2>3. ASSUME NEW u \in Task, u # t, NEW i \in 1..Len(stack'[u])
        PROVE  FrameInv(u, i)'
    BY <1>7, <2>3 DEF IInv, StackInv, FrameInv, YieldAt
  <2>4. ASSUME NEW i \in 1..Len(stack'[t])
        PROVE  i = 1
    BY <2>1
  <2>5. QED
    BY <2>2, <2>3, <2>4 DEF StackInv
<1>13. stack'[c] = stack[c] /\ YieldOf(cpu)' = "none" /\ pc' = pc
  BY <1>2, <1>3, <1>7 DEF YieldOf, YieldAt, pc
<1>14. pc = "boot_user"
  BY DEF SetupUsercode
<1>15. ~HandingOver'
  BY <1>13 DEF HandingOver, Handing
<1>16. BootInv'
  BY <1>1, <1>2, <1>4, <1>9, <1>10, <1>13, <1>15 DEF IInv, BootInv
<1>17. \A u : Created(u)' <=> Created(u) \/ u = t
  BY <1>9, <1>10 DEF Created
<1>18. ListInv'
  <2>1. Len(tasks') > 0 /\ tasks'[1] = main_task /\ Created(cpu)'
    BY <1>2, <1>9, <1>10, <1>17 DEF IInv, ListInv
  <2>2. ASSUME NEW i \in 1..k + 1, NEW j \in 1..k + 1, tasks'[i] = tasks'[j]
        PROVE  i = j
    <3>1. \A x \in 1..k : tasks'[x] # t
      BY <1>3, <1>9, <1>10 DEF Created
    <3>2. CASE i \in 1..k /\ j \in 1..k
      BY <1>9, <1>10, <2>2, <3>2 DEF IInv, ListInv
    <3>3. CASE i = k + 1
      BY <1>10, <2>2, <3>1, <3>3
    <3>4. CASE j = k + 1
      BY <1>10, <2>2, <3>1, <3>4
    <3>5. QED
      BY <3>2, <3>3, <3>4
  <2>3. QED
    BY <1>10, <2>1, <2>2 DEF ListInv
<1>19. ContextIntact'
  <2>1. Parked(t)'
    BY <1>1, <1>3, <1>7, <1>8 DEF Parked, FreshContext
  <2>2. ASSUME NEW u \in Task, Created(u)', u # c, u # t
        PROVE  Parked(u)'
    <3>1. Parked(u)
      BY <1>2, <1>17, <2>2 DEF IInv, ContextIntact
    <3>2. QED
      BY <1>7, <1>8, <2>2, <3>1 DEF Parked, Top
  <2>3. QED
    BY <1>2, <2>1, <2>2 DEF ContextIntact
<1>20. YieldInv'
  <2>1. tasking_lock'.locked = FALSE
    BY <1>4
  <2>2. QED
    BY <1>13, <1>14, <1>15, <2>1 DEF YieldInv, Locking
<1>21. MachineInv'
  <2>1. \A i \in 1..Len(stack[cpu]) : stack[cpu][i].pc # "k_entry"
    BY <1>2 DEF Runs
  <2>2. "keyboard" \notin inservice
    BY <2>1 DEF IInv, MachineInv
  <2>3. Len(stack[c]) > 0
    BY <1>2 DEF Runs
  <2>4. QED
    BY <1>1, <1>2, <1>4, <1>13, <1>14, <1>15, <2>2, <2>3 DEF MachineInv, UserPc
<1>22. QED
  BY <1>11, <1>12, <1>16, <1>18, <1>19, <1>20, <1>21 DEF IInv

\* A step of the specification that changes nothing.
LEMMA StutterInv ==
  ASSUME IInv, UNCHANGED vars
  PROVE  IInv'
<1>1. UNCHANGED <<tasks, running_task, regs, tasking_ready, tasking_lock, callback,
                  calls, tid, cpu, stack, iflag, cr3, esp0, inservice>>
  BY DEF vars, sched, user
<1>2. pc' = pc /\ YieldOf(cpu)' = YieldOf(cpu) /\ (HandingOver' <=> HandingOver)
  BY <1>1 DEF pc, YieldOf, YieldAt, HandingOver
<1>3. TypeOK' /\ ListInv' /\ ContextIntact' /\ TidIsCallers'
  BY <1>1 DEF IInv, TypeOK, ListInv, Created, ContextIntact, Parked, TidIsCallers
<1>4. StackInv' /\ BootInv'
  BY <1>1, <1>2 DEF IInv, StackInv, FrameInv, YieldAt, BootInv
<1>5. YieldInv' /\ MachineInv'
  BY <1>1, <1>2, SuccKept DEF IInv, YieldInv, YieldAt, Created, MachineInv
<1>6. QED
  BY <1>3, <1>4, <1>5 DEF IInv

LEMMA NextInv ==
  ASSUME IInv, [Next]_vars
  PROVE  IInv'
<1>1. CASE Boot
  BY <1>1, InitTaskingInv, SetupUsercodeInv, FinishBootInv DEF Boot
<1>2. CASE Switch
  BY <1>2, YieldTryInv, YieldCliInv, YieldPickInv, YieldRestoreInv,
     YieldUnlockInv, SwitchSaveInv, SwitchLoadInv, YieldReturnInv DEF Switch
<1>3. CASE Handler
  BY <1>3, TimerHandleInv, TimerStiInv, KbdHandleInv, IretInv, SyscallInv DEF Handler
<1>4. CASE IdleYield \/ StartIret \/ Int80 \/ TimerIrq \/ KbdIrq
  BY <1>4, IdleYieldInv, StartIretInv, Int80Inv, TimerIrqInv, KbdIrqInv
<1>5. CASE UNCHANGED vars
  BY <1>5, StutterInv
<1>6. QED
  BY <1>1, <1>2, <1>3, <1>4, <1>5 DEF Next, CpuStep

-----------------------------------------------------------------------------
(* The theorems.                                                            *)

\* The inductive invariant of the scheduler holds in every state: the shape
\* of the stacks, of the list, of yield()'s frame and lock, of the machine.
THEOREM InvariantHolds == Spec => []IInv
<1>1. Init => IInv
  BY InitInv
<1>2. IInv /\ [Next]_vars => IInv'
  BY NextInv
<1>3. QED
  BY <1>1, <1>2, PTL DEF Spec

\* What a state that satisfies the invariant satisfies.
LEMMA InvariantImplies ==
  ASSUME IInv
  PROVE  /\ TypeOK /\ RunningTaskIsExecuting /\ ContextIntact /\ TidIsCallers
         /\ KernelStackOwn /\ UserEnvironment /\ LockNeverContended
         /\ NothingInServiceAtSwitch
<1>1. PICK c, n : /\ Runs(c, n, pc) /\ FrameInv(c, n)
                  /\ pc # "boot_tasking" => tasking_ready
  BY TopFrame
<1>2. TypeOK /\ ContextIntact /\ TidIsCallers
  BY DEF IInv
<1>3. RunningTaskIsExecuting
  BY DEF IInv, BootInv, RunningTaskIsExecuting
\* User code is alone in its stack: no yield() is in progress.
<1>4. pc \in UserPc => /\ cpu # main_task /\ ~HandingOver /\ tasking_ready
                       /\ YieldOf(cpu) = "none"
  <2>1. SUFFICES ASSUME pc \in UserPc
                 PROVE  /\ cpu # main_task /\ ~HandingOver /\ tasking_ready
                        /\ YieldOf(cpu) = "none"
    OBVIOUS
  <2>2. n = 1 /\ c # main_task /\ cpu = c /\ Len(stack[c]) = 1
    BY <1>1, <2>1 DEF FrameInv, Runs
  <2>3. YieldOf(cpu) = "none"
    BY <2>2 DEF YieldOf, YieldAt
  <2>4. pc # "boot_tasking"
    BY <2>1 DEF UserPc
  <2>5. QED
    BY <1>1, <2>2, <2>3, <2>4 DEF HandingOver, Handing
<1>5. KernelStackOwn
  <2>1. SUFFICES ASSUME pc = "user"
                 PROVE  esp0 = cpu
    BY DEF KernelStackOwn
  <2>2. cpu # main_task /\ ~HandingOver /\ tasking_ready
    BY <1>4, <2>1 DEF UserPc
  <2>3. running_task = cpu
    BY <2>2 DEF IInv, BootInv
  <2>4. QED
    BY <2>2, <2>3 DEF IInv, MachineInv
<1>6. UserEnvironment
  BY <1>4 DEF IInv, MachineInv, UserEnvironment
\* yield()'s frame is on top wherever yield() executes.
<1>7. pc \in YieldPc => YieldOf(cpu) = pc
  BY <1>1 DEF FrameInv, Runs, YieldOf, YieldAt
<1>8. LockNeverContended
  BY <1>7 DEF IInv, YieldInv, Locking, YieldPc, LockNeverContended
<1>9. NothingInServiceAtSwitch
  <2>1. SUFFICES ASSUME pc \in YieldPc
                 PROVE  inservice = {}
    BY DEF NothingInServiceAtSwitch, YieldPc
  <2>2. "timer" \notin inservice
    BY <2>1 DEF IInv, MachineInv, YieldPc
  <2>3. \A i \in 1..Len(stack[cpu]) : stack[cpu][i].pc # "k_entry"
    BY <1>1, <2>1 DEF FrameInv, Runs, YieldAt, YieldPc, UserPc
  <2>4. QED
    BY <2>2, <2>3 DEF IInv, MachineInv, TypeOK, Line
<1>10. QED
  BY <1>2, <1>3, <1>5, <1>6, <1>8, <1>9

\* Every variable of the scheduler keeps its type.
THEOREM TypeCorrect == Spec => []TypeOK
BY InvariantHolds, InvariantImplies, PTL

\* running_task is the flow that executes wherever the kernel reads it to
\* know its caller.
THEOREM RunningTaskCorrect == Spec => []RunningTaskIsExecuting
BY InvariantHolds, InvariantImplies, PTL

\* The saved context of a task that waits for the processor can be resumed.
THEOREM ContextsCorrect == Spec => []ContextIntact
BY InvariantHolds, InvariantImplies, PTL

\* No task is interrupted onto the kernel stack of another.
THEOREM KernelStackCorrect == Spec => []KernelStackOwn
BY InvariantHolds, InvariantImplies, PTL

\* User code never runs with interrupts off or in another directory, so the
\* timer can always take the processor back.
THEOREM UserCodePreemptible == Spec => []UserEnvironment
BY InvariantHolds, InvariantImplies, PTL

\* yield() never meets a held lock, whatever save_irqdisable returns.
THEOREM LockCorrect == Spec => []LockNeverContended
BY InvariantHolds, InvariantImplies, PTL

\* No interrupt is left in service across a context switch.
THEOREM EoiCorrect == Spec => []NothingInServiceAtSwitch
BY InvariantHolds, InvariantImplies, PTL

\* sys_get_tid answers with the tid of its caller.
THEOREM TidCorrect == Spec => []TidIsCallers
BY InvariantHolds, InvariantImplies, PTL

-----------------------------------------------------------------------------
(* The processor changes hands in one place only.                           *)

LEMMA OnlySwitchLoad ==
  ASSUME Next, cpu' # cpu
  PROVE  SwitchLoad
<1>1. ~Boot
  BY DEF Boot, InitTasking, SetupUsercode, FinishBoot
<1>2. ~IdleYield /\ ~StartIret /\ ~Int80
  BY DEF IdleYield, StartIret, Int80
<1>3. ~TimerIrq /\ ~KbdIrq
  BY DEF TimerIrq, KbdIrq, Interrupt
<1>4. ~Handler
  BY DEF Handler, TimerHandle, TimerSti, KbdHandle, Iret, Syscall
<1>5. Switch => SwitchLoad
  BY DEF Switch, YieldTry, YieldCli, YieldPick, YieldRestore, YieldUnlock,
         SwitchSave, YieldReturn
<1>6. QED
  BY <1>1, <1>2, <1>3, <1>4, <1>5 DEF Next, CpuStep

\* What switch_to_task does to the processor.
LEMMA SwitchLoadGives ==
  ASSUME IInv, SwitchLoad
  PROVE  /\ tasks' = tasks /\ cpu' = Succ(cpu)
         /\ \/ cpu = main_task /\ stack[cpu][Len(stack[cpu]) - 1].pc = "idle"
            \/ Len(stack[cpu]) = 3 /\ stack[cpu][1].pc \in UserPc
<1>1. PICK c, n : Runs(c, n, "y_load") /\ FrameInv(c, n)
  BY Running DEF SwitchLoad
<1>2. /\ n = YieldAt(c) /\ c \in Task /\ cpu = c /\ Len(stack[c]) = n
      /\ stack[c][n].pc = "y_load" /\ YieldOf(cpu) = "y_load"
      /\ IF c = main_task THEN n = 2 /\ stack[c][1].pc = "idle"
                          ELSE n = 3 /\ stack[c][1].pc \in UserPc
  BY <1>1 DEF FrameInv, Runs, YieldPc, YieldOf, YieldAt
<1>3. HandingOver
  BY <1>2 DEF HandingOver, Handing
<1>4. PICK r \in Task : r = running_task /\ Created(r) /\ r # c /\ r = Succ(cpu)
  <2>1. Created(running_task) /\ running_task # c /\ running_task = Succ(cpu)
    BY <1>2, <1>3 DEF IInv, YieldInv
  <2>2. running_task \in Task
    BY <2>1 DEF IInv, TypeOK, Created
  <2>3. QED
    BY <2>1, <2>2
<1>5. stack[c][n].new = r /\ regs[r].esp = r
  BY <1>2, <1>4 DEF IInv, YieldInv, ContextIntact, Parked
<1>6. cpu' = r /\ tasks' = tasks
  BY <1>2, <1>5 DEF SwitchLoad, Top, sched
<1>7. \/ cpu = main_task /\ stack[cpu][Len(stack[cpu]) - 1].pc = "idle"
      \/ Len(stack[cpu]) = 3 /\ stack[cpu][1].pc \in UserPc
  BY <1>2
<1>8. QED
  BY <1>4, <1>6, <1>7

\* The kernel is never preempted: the processor leaves a flow only from the
\* idle loop's yield() or from a tick in user code.
THEOREM KernelNotPreemptible == Spec => KernelNotPreempted
<1> DEFINE Leaves ==
      \/ cpu = main_task /\ stack[cpu][Len(stack[cpu]) - 1].pc = "idle"
      \/ Len(stack[cpu]) = 3 /\ stack[cpu][1].pc \in UserPc
<1>1. IInv /\ [Next]_vars => [cpu' # cpu => Leaves]_vars
  BY OnlySwitchLoad, SwitchLoadGives
<1>2. Spec => [][cpu' # cpu => Leaves]_vars
  BY <1>1, InvariantHolds, PTL DEF Spec
<1>3. QED
  BY <1>2 DEF KernelNotPreempted

-----------------------------------------------------------------------------
(* Tasking implements RoundRobin.                                           *)

\* The flow after cpu in the circular order takes its turn.
LEMMA TurnStep ==
  ASSUME IInv, tasks' = tasks, cpu' = Succ(cpu)
  PROVE  RR!Turn
<1> DEFINE i == CHOOSE j \in 1..Len(tasks) : tasks[j] = cpu
<1>1. i \in 1..Len(tasks) /\ tasks[i] = cpu
  BY DEF IInv, ListInv, Created
<1>2. Succ(cpu) = IF i = Len(tasks) THEN main_task ELSE tasks[i + 1]
  BY DEF Succ
<1>3. tasks[1] = main_task
  BY DEF IInv, ListInv
<1> HIDE DEF i
<1>4. Succ(cpu) = tasks[IF i = Len(tasks) THEN 1 ELSE i + 1]
  BY <1>2, <1>3
<1>5. QED
  BY <1>1, <1>4 DEF RR!Turn

\* The list only grows by a task that is not in it.
LEMMA ListStep ==
  ASSUME IInv, Next, cpu' = cpu
  PROVE  tasks' = tasks \/ \E t \in Task : RR!Join(t)
<1>1. CASE InitTasking
  <2>1. ~tasking_ready
    BY <1>1, Booting DEF InitTasking, BootPc
  <2>2. QED
    BY <1>1, <2>1 DEF IInv, BootInv, InitTasking
<1>2. ASSUME NEW t \in UserTask, SetupUsercode(t)
      PROVE  RR!Join(t) /\ t \in Task
  BY <1>2 DEF SetupUsercode, RR!Join, Task
<1>3. CASE FinishBoot \/ IdleYield \/ StartIret \/ Int80
  BY <1>3 DEF FinishBoot, IdleYield, StartIret, Int80, sched
<1>4. CASE TimerIrq \/ KbdIrq
  BY <1>4 DEF TimerIrq, KbdIrq, Interrupt, sched
<1>5. CASE Handler
  BY <1>5 DEF Handler, TimerHandle, TimerSti, KbdHandle, Iret, Syscall, sched
<1>6. CASE Switch
  BY <1>6 DEF Switch, YieldTry, YieldCli, YieldPick, YieldRestore, YieldUnlock,
       SwitchSave, SwitchLoad, YieldReturn, sched
<1>7. QED
  BY <1>1, <1>2, <1>3, <1>4, <1>5, <1>6 DEF Next, CpuStep, Boot

\* The flows share the processor in the fixed circular order of the list:
\* no interrupt, no lost yield and no new task makes one jump the queue.
THEOREM ImplementsRoundRobin == Spec => RoundRobin
<1>1. Init => RR!Init
  BY DEF Init, RR!Init
<1>2. IInv /\ [Next]_vars => [RR!Next]_<<tasks, cpu>>
  <2>1. SUFFICES ASSUME IInv, Next
                 PROVE  RR!Next \/ UNCHANGED <<tasks, cpu>>
    BY DEF vars, sched
  <2>2. CASE cpu' # cpu
    BY <2>1, <2>2, OnlySwitchLoad, SwitchLoadGives, TurnStep DEF RR!Next
  <2>3. CASE cpu' = cpu
    BY <2>1, <2>3, ListStep DEF RR!Next
  <2>4. QED
    BY <2>2, <2>3
<1>3. QED
  BY <1>1, <1>2, InvariantHolds, PTL DEF Spec, RoundRobin, RR!Spec

=============================================================================
