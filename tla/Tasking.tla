------------------------------ MODULE Tasking ------------------------------
(***************************************************************************)
(* The scheduler of the kernel on its single processor: the task list, the *)
(* timer, keyboard and system-call interrupts, yield() and the context     *)
(* switch (tasking.c, switch_to_task.s, spinlock.c, the handlers of        *)
(* x86_enter.c, ps2kbd.c and syscalls.c, and the end of kmain.c).          *)
(*                                                                         *)
(* A task is a flow of control with a stack of activation frames, the last *)
(* one on top.  The processor executes the top frame of one flow, cpu:     *)
(* that is where its esp and eip really point.  running_task is only what  *)
(* the kernel believes is executing.  A step is a piece of code that no    *)
(* interrupt can divide, or whose division nobody can tell; wherever the   *)
(* interrupt flag can be set, an interrupt can come between two steps.     *)
(***************************************************************************)
EXTENDS Naturals, Sequences

CONSTANTS
  UserTask,    \* the task control blocks that setup_usercode may set up
  main_task,   \* the control block of the boot flow, later the idle loop
  NULL,
  Garbage,     \* what else save_irqdisable may return, for it has no return
               \* statement: {} is the -O0 build of make.conf, which leaves
               \* the flags in eax; BOOLEAN is any build
  MaxDepth,    \* bound: the frames of a stack an interrupt may add to
  MaxCalls     \* bound: the system calls a user task makes before it loops

Task == UserTask \cup {main_task}

ASSUME TaskAssumption == main_task \notin UserTask /\ NULL \notin Task
ASSUME GarbageAssumption == Garbage \subseteq BOOLEAN
ASSUME BoundAssumption == MaxDepth \in Nat /\ MaxCalls \in Nat

VARIABLES
  tasks,          \* the list from main_task on, linked by next
  running_task,
  regs,           \* task->regs, filled by create_task and switch_to_task
  tasking_ready,
  tasking_lock,   \* [locked, f]
  callback,       \* whether timer.callback is set
  cpu,            \* the flow whose stack esp points into
  stack,          \* the activation frames of every flow
  iflag,          \* the interrupt flag of the processor
  cr3,            \* the page directory in use
  esp0,           \* whose kernel_stack the TSS holds; NULL is stack_end
  inservice,      \* the interrupt lines the PIC has in service
  calls,          \* how many system calls each user task has made
  tid             \* what sys_get_tid last put on the task's user stack

sched == <<tasks, running_task, regs, tasking_ready, tasking_lock, callback>>
user  == <<calls, tid>>
vars  == <<sched, user, cpu, stack, iflag, cr3, esp0, inservice>>

-----------------------------------------------------------------------------
(* Where a frame stands.  UserPc is below 0xC0000000: "start" is the ring 0 *)
(* prologue of usercode.s, "user" its ring 3 part.                          *)
BootPc  == {"boot_tasking", "boot_user"}
UserPc  == {"start", "user"}
YieldPc == {"y_try", "y_cli", "y_pick", "y_popf", "y_unlock", "y_switch",
            "y_load", "y_ret"}
IsrPc   == {"t_entry", "t_sti", "k_entry", "s_entry", "iret"}
Pc      == BootPc \cup {"idle"} \cup UserPc \cup YieldPc \cup IsrPc

Line == {"timer", "keyboard"}
Dir  == {"kernel_page_dir", "user_proc_dir"}

\* eflags: what an interrupt pushed; last, new: the locals of yield.
Frame == [pc : Pc, eflags : BOOLEAN, last : Task \cup {NULL},
          new : Task \cup {NULL}]
At(l) == [pc |-> l, eflags |-> FALSE, last |-> NULL, new |-> NULL]
Isr(l, f) == [At(l) EXCEPT !.eflags = f]

\* esp is named by the flow it points into.  The block of main_task is zero
\* until its first switch.
Regs == [eip : Pc \cup {"none"}, esp : Task \cup {NULL}, eflags : BOOLEAN,
         cr3 : Dir \cup {"none"}]
NoRegs == [eip |-> "none", esp |-> NULL, eflags |-> FALSE, cr3 |-> "none"]

Top(s)       == s[Len(s)]
Push(s, f)   == Append(s, f)
Pop(s)       == SubSeq(s, 1, Len(s) - 1)
SetTop(s, f) == [s EXCEPT ![Len(s)] = f]
Goto(s, l)   == SetTop(s, [Top(s) EXCEPT !.pc = l])

pc       == Top(stack[cpu]).pc
\* frame->eip of a handler is where the frame below it stands.
FrameEip == stack[cpu][Len(stack[cpu]) - 1].pc

OnStack(s)    == stack' = [stack EXCEPT ![cpu] = s]
JumpTo(l)     == OnStack(Goto(stack[cpu], l))
Return        == OnStack(Pop(stack[cpu]))
Call(l, back) == OnStack(Push(Goto(stack[cpu], back), At(l)))

-----------------------------------------------------------------------------
(* Boot: the end of kmain().  x86_enter cleared the interrupt flag, and the *)
(* kernel's page directory is loaded.                                       *)
Init ==
  /\ tasks = <<main_task>>
  /\ running_task = NULL
  /\ regs = [t \in Task |-> NoRegs]
  /\ tasking_ready = FALSE
  /\ tasking_lock = [locked |-> FALSE, f |-> FALSE]
  /\ callback = FALSE
  /\ cpu = main_task
  /\ stack = [t \in Task |->
                IF t = main_task THEN <<At("boot_tasking")>> ELSE <<>>]
  /\ iflag = FALSE
  /\ cr3 = "kernel_page_dir"
  /\ esp0 = NULL
  /\ inservice = {}
  /\ calls = [t \in UserTask |-> 0]
  /\ tid = [t \in UserTask |-> NULL]

InitTasking ==
  /\ pc = "boot_tasking"
  /\ tasks' = <<main_task>>
  /\ running_task' = main_task
  /\ tasking_lock' = [tasking_lock EXCEPT !.locked = FALSE]
  /\ tasking_ready' = TRUE
  /\ JumpTo("boot_user")
  /\ UNCHANGED <<regs, callback, user, cpu, iflag, cr3, esp0, inservice>>

\* What create_task leaves in task->regs for the entry 0x00200000; kalloc'ed
\* stacks are its own.
VirtualCr3Context(t) ==    \* mutant: &user_proc_dir without V2P
  [eip |-> "start", esp |-> t, eflags |-> TRUE, cr3 |-> "V(user_proc_dir)"]
FreshContext(t) ==
  [eip |-> "start", esp |-> t, eflags |-> TRUE, cr3 |-> "user_proc_dir"]

\* create_task and add_task.  acquire_lock repeats try_acquire_lock while it
\* succeeds, so alone it acquires once, fails once and goes on.
SetupUsercode(t) ==
  /\ pc = "boot_user"
  /\ \A i \in 1..Len(tasks) : tasks[i] # t
  /\ regs' = [regs EXCEPT ![t] = FreshContext(t)]
  /\ stack' = [stack EXCEPT ![t] = <<At("start")>>]
  /\ tasks' = Append(tasks, t)
  /\ \E f \in {iflag} \cup Garbage :
        /\ tasking_lock' = [locked |-> FALSE, f |-> f]
        /\ iflag' = f
  /\ UNCHANGED <<running_task, tasking_ready, callback, user, cpu, cr3, esp0,
                 inservice>>

\* setup_timer, then sti and the idle loop.  kmain has set up a task by now.
FinishBoot ==
  /\ pc = "boot_user"
  /\ Len(tasks) > 1
  /\ callback' = TRUE
  /\ iflag' = TRUE
  /\ JumpTo("idle")
  /\ UNCHANGED <<tasks, running_task, regs, tasking_ready, tasking_lock, user,
                 cpu, cr3, esp0, inservice>>

IdleYield ==
  /\ pc = "idle"
  /\ Call("y_try", "idle")
  /\ UNCHANGED <<sched, user, cpu, iflag, cr3, esp0, inservice>>

-----------------------------------------------------------------------------
(* yield() and switch_to_task().                                            *)

\* The tests of tasking_ready and of the lock, by test-and-set.
YieldTry ==
  /\ pc = "y_try"
  /\ IF tasking_ready /\ ~tasking_lock.locked
       THEN /\ tasking_lock' = [tasking_lock EXCEPT !.locked = TRUE]
            /\ JumpTo("y_cli")
       ELSE /\ UNCHANGED tasking_lock
            /\ Return
  /\ UNCHANGED <<tasks, running_task, regs, tasking_ready, callback, user, cpu,
                 iflag, cr3, esp0, inservice>>

\* l->f = save_irqdisable(): the lock is taken before interrupts are off.
YieldCli ==
  /\ pc = "y_cli"
  /\ \E f \in {iflag} \cup Garbage :
        tasking_lock' = [tasking_lock EXCEPT !.f = f]
  /\ iflag' = FALSE
  /\ JumpTo("y_pick")
  /\ UNCHANGED <<tasks, running_task, regs, tasking_ready, callback, user, cpu,
                 cr3, esp0, inservice>>

\* running_task->next, and the main task after the last one.
SuccBeforeLast(t) ==       \* mutant: wraps one task too early
  LET i == CHOOSE j \in 1..Len(tasks) : tasks[j] = t
  IN  IF i + 1 >= Len(tasks) THEN main_task ELSE tasks[i + 1]
Succ(t) ==
  LET i == CHOOSE j \in 1..Len(tasks) : tasks[j] = t
  IN  IF i = Len(tasks) THEN main_task ELSE tasks[i + 1]

\* The task whose kernel stack set_kernel_stack puts in the TSS.
KernelStackUnchanged(t) == esp0   \* mutant: no set_kernel_stack
KernelStackOf(t) == t

\* With interrupts off: load_page_directory before the old cr3 is saved.
YieldPick ==
  /\ pc = "y_pick"
  /\ running_task' = Succ(running_task)
  /\ cr3' = regs[running_task'].cr3
  /\ esp0' = KernelStackOf(running_task')
  /\ OnStack(SetTop(stack[cpu],
               [Top(stack[cpu]) EXCEPT !.pc = "y_popf", !.last = running_task]))
  /\ UNCHANGED <<tasks, regs, tasking_ready, tasking_lock, callback, user, cpu,
                 iflag, inservice>>

\* release_lock: the flags come back before the lock is cleared.
YieldRestore ==
  /\ pc = "y_popf"
  /\ iflag' = tasking_lock.f
  /\ JumpTo("y_unlock")
  /\ UNCHANGED <<sched, user, cpu, cr3, esp0, inservice>>

YieldUnlock ==
  /\ pc = "y_unlock"
  /\ tasking_lock' = [tasking_lock EXCEPT !.locked = FALSE]
  /\ JumpTo("y_switch")
  /\ UNCHANGED <<tasks, running_task, regs, tasking_ready, callback, user, cpu,
                 iflag, cr3, esp0, inservice>>

\* The second argument of switch_to_task: running_task is read again.
SwitchOldTwice == Top(stack[cpu]).last      \* mutant: the old task again
SwitchNewNext == Succ(running_task)         \* mutant: one task too far
SwitchNew == running_task

\* switch_to_task up to popf: the old registers are saved, the new flags are
\* loaded while esp is still in the old stack.
SwitchSave ==
  /\ pc = "y_switch"
  /\ regs' = [regs EXCEPT ![Top(stack[cpu]).last] =
                [eip |-> "y_ret", esp |-> cpu, eflags |-> iflag, cr3 |-> cr3]]
  /\ iflag' = regs'[SwitchNew].eflags
  /\ OnStack(SetTop(stack[cpu],
               [Top(stack[cpu]) EXCEPT !.pc = "y_load", !.new = SwitchNew]))
  /\ UNCHANGED <<tasks, running_task, tasking_ready, tasking_lock, callback,
                 user, cpu, cr3, esp0, inservice>>

\* The rest of it: esp, cr3 and eip of the new task.
SwitchLoad ==
  /\ pc = "y_load"
  /\ LET new == Top(stack[cpu]).new IN
       /\ cpu' = regs[new].esp
       /\ cr3' = regs[new].cr3
       /\ stack' = [stack EXCEPT ![cpu'] = Goto(@, regs[new].eip)]
  /\ UNCHANGED <<sched, user, iflag, esp0, inservice>>

YieldReturn ==
  /\ pc = "y_ret"
  /\ Return
  /\ UNCHANGED <<sched, user, cpu, iflag, cr3, esp0, inservice>>

-----------------------------------------------------------------------------
(* User code and its system calls.                                          *)

\* The iret of the prologue, from ring 0 to ring 3.
StartIret ==
  /\ pc = "start"
  /\ JumpTo("user")
  /\ UNCHANGED <<sched, user, cpu, iflag, cr3, esp0, inservice>>

\* int 0x80 goes through a trap gate: interrupts stay on.
Int80 ==
  /\ pc = "user"
  /\ calls[cpu] < MaxCalls
  /\ calls' = [calls EXCEPT ![cpu] = @ + 1]
  /\ OnStack(Push(stack[cpu], Isr("s_entry", iflag)))
  /\ UNCHANGED <<sched, tid, cpu, iflag, cr3, esp0, inservice>>

\* A known call first overwrites running_task->regs.eip with the return
\* address of the handler; sys_get_tid reads running_task.
SyscallNo == {"sys_debug_out", "sys_debug_out_num", "sys_get_tid", "unknown"}
Syscall(no) ==
  /\ pc = "s_entry"
  /\ IF no = "unknown"
       THEN UNCHANGED regs
       ELSE regs' = [regs EXCEPT ![running_task].eip = FrameEip]
  /\ IF no = "sys_get_tid"
       THEN tid' = [tid EXCEPT ![cpu] = running_task]
       ELSE UNCHANGED tid
  /\ JumpTo("iret")
  /\ UNCHANGED <<tasks, running_task, tasking_ready, tasking_lock, callback,
                 calls, cpu, iflag, cr3, esp0, inservice>>

-----------------------------------------------------------------------------
(* Hardware interrupts, through trap gates as well.  The PIC holds back a   *)
(* line while it or a line of higher priority is in service: the timer is   *)
(* line 0, the keyboard line 1.  From ring 3 the frame goes to the kernel   *)
(* stack the TSS names: KernelStackOwn says that it is the flow's own.      *)
Interrupt(line, handler) ==
  /\ iflag
  /\ Len(stack[cpu]) < MaxDepth
  /\ inservice' = inservice \cup {line}
  /\ OnStack(Push(stack[cpu], Isr(handler, iflag)))
  /\ UNCHANGED <<sched, user, cpu, iflag, cr3, esp0>>

TimerIrq == "timer" \notin inservice /\ Interrupt("timer", "t_entry")
KbdIrq   == inservice = {} /\ Interrupt("keyboard", "k_entry")

\* outb(0x20, 0x20), a non-specific EOI: the line of highest priority ends.
NoEoi == inservice         \* mutant
Eoi == IF "timer" \in inservice THEN inservice \ {"timer"}
                                ELSE inservice \ {"keyboard"}

\* frame->eip < 0xC0000000: the tick came while user code executed.
TickAnywhere == TRUE       \* mutant: no test of frame->eip
TickInUserCode == FrameEip \in UserPc

\* timer_handler: cli, EOI, and timer_cb, which yields if tasking is ready.
TimerHandle ==
  /\ pc = "t_entry"
  /\ iflag' = FALSE
  /\ inservice' = Eoi
  /\ IF TickInUserCode /\ callback /\ tasking_ready
       THEN Call("y_try", "t_sti")
       ELSE JumpTo("t_sti")
  /\ UNCHANGED <<sched, user, cpu, cr3, esp0>>

TimerSti ==
  /\ pc = "t_sti"
  /\ iflag' = TRUE
  /\ JumpTo("iret")
  /\ UNCHANGED <<sched, user, cpu, cr3, esp0, inservice>>

KbdHandle ==
  /\ pc = "k_entry"
  /\ inservice' = Eoi
  /\ JumpTo("iret")
  /\ UNCHANGED <<sched, user, cpu, iflag, cr3, esp0>>

IretMasked == FALSE        \* mutant: interrupts stay off after iret
IretFlags == Top(stack[cpu]).eflags

Iret ==
  /\ pc = "iret"
  /\ iflag' = IretFlags
  /\ Return
  /\ UNCHANGED <<sched, user, cpu, cr3, esp0, inservice>>

-----------------------------------------------------------------------------
Boot    == InitTasking \/ (\E t \in UserTask : SetupUsercode(t)) \/ FinishBoot
Switch  == \/ YieldTry \/ YieldCli \/ YieldPick \/ YieldRestore \/ YieldUnlock
           \/ SwitchSave \/ SwitchLoad \/ YieldReturn
Handler == \/ TimerHandle \/ TimerSti \/ KbdHandle \/ Iret
           \/ \E no \in SyscallNo : Syscall(no)
CpuStep == Boot \/ IdleYield \/ Switch \/ StartIret \/ Int80 \/ Handler

Next == CpuStep \/ TimerIrq \/ KbdIrq
Spec == Init /\ [][Next]_vars

(* The PIT ticks every millisecond, which is many instructions.  So the     *)
(* code at every depth of the stack gets on, however often handlers         *)
(* interrupt it; a task that is resumed in its prologue again and again     *)
(* gets through it; and user code is interrupted by the timer.              *)
Fairness ==
  /\ \A d \in 1..MaxDepth : SF_vars(CpuStep /\ Len(stack[cpu]) = d)
  /\ \A t \in UserTask : SF_vars(StartIret /\ cpu = t)
  /\ SF_vars(TimerIrq /\ pc \in UserPc)
FairSpec == Spec /\ Fairness

-----------------------------------------------------------------------------
(* Properties.                                                              *)

TypeOK ==
  /\ tasks \in Seq(Task)
  /\ running_task \in Task \cup {NULL}
  /\ regs \in [Task -> Regs]
  /\ tasking_ready \in BOOLEAN
  /\ tasking_lock \in [locked : BOOLEAN, f : BOOLEAN]
  /\ callback \in BOOLEAN
  /\ cpu \in Task
  /\ stack \in [Task -> Seq(Frame)]
  /\ iflag \in BOOLEAN
  /\ cr3 \in Dir \cup {"none"}
  /\ esp0 \in Task \cup {NULL}
  /\ inservice \in SUBSET Line
  /\ calls \in [UserTask -> Nat]
  /\ tid \in [UserTask -> Task \cup {NULL}]

Created(t) == \E i \in 1..Len(tasks) : tasks[i] = t

\* Where yield() stands in the stack of t: it is called by the idle loop, or
\* by the tick that interrupted user code.
YieldAt(t) == IF t = main_task THEN 2 ELSE 3
YieldOf(t) ==
  IF YieldAt(t) <= Len(stack[t]) THEN stack[t][YieldAt(t)].pc ELSE "none"

\* yield() holds the lock; yield() has taken the next task and not yet
\* loaded its esp.
Locking     == {"y_cli", "y_pick", "y_popf", "y_unlock"}
Handing     == {"y_popf", "y_unlock", "y_switch", "y_load"}
HandingOver == YieldOf(cpu) \in Handing

\* Once tasking is ready, running_task is the flow that executes, except
\* from the assignment in yield() to the end of switch_to_task: what
\* sys_get_tid, the syscall handler and add_task read is right there.
RunningTaskIsExecuting ==
  tasking_ready /\ ~HandingOver => running_task = cpu

\* A created task that does not execute can be resumed: its saved esp is
\* its own, its saved eip is where its stack stands (never the user address
\* that a system call writes into regs.eip), the flags of a fresh task let
\* the timer in, and under yield's frame are only those yield was called
\* from.  The directory is the user's even for the idle loop: yield() loads
\* the next task's directory before switch_to_task saves cr3.
Parked(t) ==
  /\ regs[t].esp = t
  /\ regs[t].cr3 = "user_proc_dir"
  /\ \/ /\ t # main_task
        /\ stack[t] = <<At("start")>>
        /\ regs[t].eip = "start"
        /\ regs[t].eflags
     \/ /\ regs[t].eip = "y_ret"
        /\ Top(stack[t]).pc = "y_load"
        /\ IF t = main_task
             THEN Len(stack[t]) = 2 /\ stack[t][1].pc = "idle"
             ELSE Len(stack[t]) = 3 /\ stack[t][2].pc = "t_sti"
                                    /\ stack[t][1].pc \in UserPc
ContextIntact == \A t \in Task : Created(t) /\ t # cpu => Parked(t)

\* In ring 3 the TSS holds the kernel stack of the task that executes, so
\* that the next interrupt cannot overwrite the frames of another task.
KernelStackOwn == pc = "user" => esp0 = cpu

\* User code executes in its own directory and with interrupts on: nothing
\* else than the timer takes the processor from it.
UserEnvironment == pc \in UserPc => cr3 = "user_proc_dir" /\ iflag

\* The lock is free whenever yield() tries it: no yield is lost to a
\* preempted holder, and acquire_lock's loop never meets a held lock.
LockNeverContended == pc = "y_try" => ~tasking_lock.locked

\* The PIC has no line in service when the processor leaves a stack: an EOI
\* left to the resumed task would hold back every tick until then.
NothingInServiceAtSwitch ==
  pc \in {"y_pick", "y_popf", "y_unlock", "y_switch", "y_load"} => inservice = {}

\* sys_get_tid gives every task its own tid, whatever interrupts it.
TidIsCallers == \A t \in UserTask : tid[t] \in {NULL, t}

\* The kernel is never preempted: a flow loses the processor in the idle
\* loop's own yield or in a tick that interrupted user code.
KernelNotPreempted ==
  [][cpu' # cpu => LET s == stack[cpu] IN
       \/ cpu = main_task /\ s[Len(s) - 1].pc = "idle"
       \/ Len(s) = 3 /\ s[1].pc \in UserPc]_vars

\* Every task that kmain created executes user code again and again.
EveryTaskRunsAgain ==
  \A t \in UserTask : []<>(Created(t) => cpu = t /\ pc = "user")

-----------------------------------------------------------------------------
(* The inductive invariant.                                                 *)

\* Where each kind of frame can be in the stack of t: the boot, idle and user
\* code at the bottom, one call of yield() at most, above the idle loop or
\* above a tick in user code.
FrameInv(t, i) ==
  LET s == stack[t]  l == s[i].pc IN
  /\ l \in BootPc \cup {"idle"} => t = main_task /\ i = 1
  /\ l \in UserPc => t # main_task /\ i = 1
  /\ l \in IsrPc => i > 1 /\ s[i].eflags
  /\ l = "s_entry" => i = 2 /\ s[1].pc = "user"
  /\ l \in YieldPc => /\ i = YieldAt(t)
                      /\ IF t = main_task
                           THEN s[1].pc = "idle"
                           ELSE s[1].pc \in UserPc /\ s[2].pc = "t_sti"
StackInv == \A t \in Task : \A i \in 1..Len(stack[t]) : FrameInv(t, i)

BootInv ==
  /\ tasking_ready =>
       /\ stack[main_task][1].pc # "boot_tasking"
       /\ ~HandingOver => running_task = cpu
  /\ ~tasking_ready =>
       /\ cpu = main_task
       /\ stack[main_task] = <<At("boot_tasking")>>
       /\ tasks = <<main_task>>
       /\ ~iflag
  /\ stack[main_task][1].pc = "idle" => Len(tasks) > 1

ListInv ==
  /\ Len(tasks) > 0
  /\ tasks[1] = main_task
  /\ \A i, j \in 1..Len(tasks) : tasks[i] = tasks[j] => i = j
  /\ Created(cpu)

\* The frame of yield() in the flow that executes.
YieldInv ==
  LET y == YieldAt(cpu) IN
  /\ tasking_lock.locked <=> YieldOf(cpu) \in Locking
  /\ YieldOf(cpu) \in {"y_pick", "y_popf"} => ~iflag /\ Len(stack[cpu]) = y
  /\ HandingOver => /\ Created(running_task)
                    /\ running_task # cpu
                    /\ running_task = Succ(cpu)
                    /\ stack[cpu][y].last = cpu
  /\ YieldOf(cpu) = "y_load" => /\ stack[cpu][y].new = running_task
                                /\ regs[cpu].eip = "y_ret"
                                /\ regs[cpu].esp = cpu
                                /\ regs[cpu].cr3 = "user_proc_dir"
  /\ pc = "y_load" /\ regs[running_task].eip = "start" => iflag

MachineInv ==
  /\ Len(stack[cpu]) > 0
  /\ cpu # main_task \/ HandingOver =>
       cr3 = "user_proc_dir" /\ esp0 = running_task
  /\ pc \in UserPc => iflag
  /\ "timer" \in inservice => pc = "t_entry"
  /\ "keyboard" \in inservice =>
       \E i \in 1..Len(stack[cpu]) : stack[cpu][i].pc = "k_entry"

IInv ==
  /\ TypeOK /\ StackInv /\ BootInv /\ ListInv /\ YieldInv /\ MachineInv
  /\ ContextIntact /\ TidIsCallers

-----------------------------------------------------------------------------
\* The flows take the processor in the order of the list.
RR == INSTANCE RoundRobin WITH order <- tasks, current <- cpu
RoundRobin == RR!Spec

=============================================================================
