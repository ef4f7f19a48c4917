# A verification project for AMIX

AMIX (`src/kernel`) is a small i386 kernel.  A multiboot loader starts it, it
finds memory, turns paging on, sets up one user task, and from then on one
processor is shared between that task, further tasks of the same kind and the
idle loop, driven by a timer that ticks a thousand times a second.  There are
no tests in the repository; the kernel says what it does by its code, a few
comments and the drawing in `MEMLAYOUT`.

This directory holds TLA+ modules that model the kernel, TLC configurations
that check them on small instances, and proofs for every instance that TLAPS
checks.  `PROJECT.json` maps every definition to the lines it models.

## 1. Inventory

| component | state it keeps | operations | interacts with |
|---|---|---|---|
| scheduler (`tasking.c`, `switch_to_task.s`) | `main_task`, `running_task`, the list by `next`, each `task->regs`, `tasking_ready`, `tasking_lock` | `init_tasking`, `create_task`, `add_task`, `yield`, `switch_to_task` | called by the idle loop and by the timer callback; loads cr3 (`mmu.c`), the TSS (`gdt.c`); allocates stacks (`kalloc.c`) |
| spinlock (`spinlock.c`) | `locked`, `f` (saved flags) | `init_lock`, `try_acquire_lock`, `acquire_lock`, `release_lock` | changes the interrupt flag of the processor |
| interrupt handlers (`x86_enter.c`, `ps2kbd.c`, `idt.c`, `pic.c`, `pit.c`) | the PIC's lines in service, `timer.callback` | `timer_handler`, `kbd_handler`, fault handlers | the timer handler calls `timer_cb`, which calls `yield` |
| system calls (`syscalls.c`, `syscalls.def`) | `running_task->regs.eip`, the user's stack | `sys_debug_out`, `sys_debug_out_num`, `sys_get_tid` | read `running_task` |
| user code (`usercode.s`) | its stack, the tid it asked for | the ring 0 prologue, three system calls, an endless loop | `int 0x80`, preempted by the timer |
| physical pages (`kalloc.c`) | `kmem.freelist`, linked through the free pages | `freerange`, `kfree`, `kalloc` | fed by `kmain` from `static_pool` and the boot memory map |
| memory map (`x86_enter.c`) | `alloc_pool`, `alloc_pool_size` | `handle_mmap`, `handle_ram`, `handle_cmdline` | the pool goes to `kmain` |
| paging (`mmu.c`, `kmain.c`, `boot.s`) | the page directories and tables | `clear_page_directory`, `mmu_map_page`, `V2P`, `setup_paging`, `setup_usercode` | takes tables from `kalloc` |
| module start (`kmain.c`, `modules.h`, `dummy_mod.c`) | `state` and resolved prerequisites of each module | `init_modules`, `resolve_module`, `init_module`, `fini_module` | calls each module's `init` |
| region allocator (`page_alloc.c`) | a sorted list of free regions | `page_alloc_init_region`, `page_alloc`, `page_alloc_free`, `page_alloc_count_free_pages` | not linked into the kernel (`kernel/Makefile` does not list it) |
| console (`debug_output.c`) | `is_init`, the serial port; `cursor_x`, `cursor_y`, video memory | `kprintf`, `console_write`; `console_put`, `scroll`, `move_cursor`, which nothing calls | called from everywhere, the keyboard's handler included |
| `printf.c` | none | `snprintf`, `vsnprintf` and their relatives | called by `kprintf` and `handle_cmdline` |
| descriptor tables and interrupt controllers (`gdt.c`, `idt.c`, `pic.c`) | GDT, TSS, IDT, the registers of the two 8259 | `init_gdt`, `init_idt`, `init_pic`, `set_kernel_stack` | the processor reads them at every trap; `yield` sets the stack in the TSS |

What is hard here is interleaving.  `yield()` is called by the idle loop with
interrupts on and by the timer handler with interrupts off.  It takes its lock
*before* it disables interrupts, changes `running_task`, the page directory and
the TSS long before the stack, and turns interrupts on again *before* it
switches; `switch_to_task` loads the new task's flags while it is still on the
old stack.  All gates are trap gates, so interrupts nest.  That all this works
rests on one test in the timer handler, `frame->eip < 0xC0000000`, and on the
order of a dozen assignments.  `PROJECT.json` lists each such place under
`hazards`, with the properties that would catch it going wrong.

What makes each component correct:

* scheduler: `running_task` is the flow that executes wherever it is read; a
  waiting task can be resumed where it left off; nobody runs on another task's
  kernel stack; tasks take turns in a fixed order; everyone runs again.
* spinlock: never contended, because `acquire_lock` does not wait.
* physical pages: no page is on the list twice, or both free and in use; no
  page of the kernel image is handed out; no free page is out of reach.
* paging: what was mapped stays mapped; the user's directory has all of the
  kernel's mappings; the self-map shows the directory in use.
* module start: every module is started once, after everything it requires.
* region allocator: free memory that touches is one region; a request fails only
  when there is no run of free memory for it.
* console: what is printed arrives whole and in order, whoever interrupts; the
  screen shows what was typed last.
* printf: a text never leaves its buffer, is what its directives promise, and
  its full length is returned.
* descriptor tables: every trap reaches its handler in ring 0 on the right stack,
  and the handler's return is the interrupted code.

## 2. The modules

`Tasking.tla` models the scheduler, its lock, the handlers, the system calls
and user code.  A *flow* is `main_task` (boot, later the idle loop) or a user
task.  `stack[t]` is the sequence of activation frames of flow `t`, each with
its place in the code (`pc`), the flags an interrupt pushed (`eflags`) and the
locals of `yield` (`last`, `new`).  `cpu` is the flow whose stack `esp` points
into, the truth that `running_task` should agree with.  `regs[t]` is what
`create_task` and `switch_to_task` keep of `t`, with `esp` named by the flow it
points into.  The other variables are the processor's interrupt flag, `cr3`, the
kernel stack in the TSS and the lines that the PIC has in service.

Every action is one stretch of code which nothing can divide, or whose division
nobody can tell:

| action | code |
|---|---|
| `InitTasking`, `SetupUsercode`, `FinishBoot` | `kmain` from `init_tasking` to `sti` |
| `IdleYield` | the idle loop |
| `YieldTry` | `tasking_ready` and the test-and-set of `try_acquire_lock` |
| `YieldCli` | `l->f = save_irqdisable()` |
| `YieldPick` | `running_task`, `load_page_directory`, `set_kernel_stack` |
| `YieldRestore`, `YieldUnlock` | the two halves of `release_lock` |
| `SwitchSave`, `SwitchLoad` | `switch_to_task` up to `popf`, and after it |
| `YieldReturn` | the return of `yield` in the resumed flow |
| `StartIret`, `Int80`, `Syscall` | user code and `syscall_i80_handler` |
| `TimerIrq`, `TimerHandle`, `TimerSti` | `timer_handler` with `timer_cb` |
| `KbdIrq`, `KbdHandle`, `Iret` | `kbd_handler`, the end of every handler |

An interrupt can come between any two of them when the flag is set.
`save_irqdisable` has no return statement: what it returns is undefined.  The
constant `Garbage` says what else than the real flags it may be.  `{}` is the
build the repository has (`-O0` leaves the popped flags in the result
register); `{TRUE, FALSE}` is any build, and the safety properties are checked
and proved for any.

`RoundRobin.tla` is the abstract specification: the flows of a list share the
processor in circular order, a new one joins at the end.  `Tasking` implements
it under the mapping `order <- tasks`, `current <- cpu`.

`MCTasking.tla` gives `Tasking` its constants for TLC.  `TaskingProofs.tla`
holds the theorems and their proofs.

`Kalloc.tla` models `kfree` and `kalloc`.  `next[p]` is the first word of page
`p`, the link of the free list while the page is free and its owner's data
otherwise (`Use` writes anything there).  `chain` is a history: the pages that
were freed and not allocated since.  The properties compare it with what the
links say.  One `kfree` or `kalloc` is one action: every caller has interrupts
off.  `PagePool.tla` is the abstract specification, a set of free pages and a
set of pages in use; `Kalloc` implements it with `free <- Members(chain)`.

`BootMem.tla` models how the allocator gets its pages: the loop of
`handle_mmap`, one action per entry, then `freerange` for `static_pool`, the one
page that `setup_paging` takes, `freerange` for the pool of the memory map, one
action per page, and the pages that `setup_usercode` and `create_task` take.
Addresses are words that wrap.  It composes `Kalloc` (`K!Kfree`, `K!Kalloc`), and
`UsesAllocator` says that what the boot does is a behaviour of `Kalloc`, which
allows no page to be freed that is free.

`Paging.tla` models the address spaces from `boot.s` to the first load of the
user's directory.  `mem` holds the directories and tables, `cr3` the one in use,
`chain` the free list, which `BootMem` and `Kalloc` justify, and `slot` what lies
in the place of the local variable `table` of `mmu_map_page`.  That variable is
read uninitialised when the table exists already.  With `-O0`, which `make.conf`
sets, gcc gives it a place in the stack that keeps the value of the call before
when the same function calls again, that `kalloc` does not touch, and that `pd`
of `V2P` shares, so that after a `V2P` it points to the directory in use.  That
is what the model has.  The directory that `create_task` passes by mistake is one
word, `stray`, with or without the present bit.  `mmu_map_page` has the low bits of
the address that it ORs into an entry (`Low`), which are not 0 for the kernel's
text.  `asked` is a history of what it was asked for.

`ModuleInit.tla` models `init_modules`.  `stack` is the recursion of
`init_module`: for each call the module and the prerequisite that its two loops
are at.  `log` is a history of the `init` functions that were called.  The
declarations of the modules are chosen at the start from the constant `Decls`.

A module's theorems are in a module of their own: `TaskingProofs`, `KallocProofs`,
`BootMemProofs`, `PagingProofs`, `PageAllocProofs`, `ModuleInitProofs`,
`TrapsProofs` and `ConsoleProofs`, which has those of `Screen` and `Printf` too.

`Kalloc`, `BootMem`, `Paging` and `ModuleInit` are parts of `kmain`'s one
sequence, with interrupts off; `Tasking` starts where it ends.

`PageAlloc.tla` models the region allocator.  `header[a]` is what lies in the
first bytes of page `a`, a region's link and length while it begins a region and
its owner's data otherwise (`Use`); `Regions` follows the links as the loops of
the code do.  `free`, `owned`, `asked` and `answer` are histories.  `AddMemory`,
`FreePhysical` and `FreeReturned` are the three ways to call
`page_alloc_init_region`: with memory that is new, with the physical address of
memory that was taken, and with the address that `page_alloc` returned.
`FreeRuns.tla` is the abstract specification, a set of free memory without
regions: a request takes some run of free pages, and is refused only when none is
long enough.  `PageAlloc` implements it (`GivesRuns`).

`Screen.tla` models `console_put`, with `scroll` and `move_cursor`, as one action:
the characters are a printable one, backspace, tab, return and new line.  `paper`
is a history, what the same characters leave on a teletype.  `PutFaults` is
`console_put` up to a write behind the page at `0xC03FF000`, which nothing maps.  `Console.tla`
extends it with `kprintf`.  `stack` holds the calls of `kprintf` and
`console_write` that are not finished: a flow's, its first one's own text
inside it, and those of the keyboard's handler, which can come at every place
once interrupts are on.  `Test` and `Out` are the two halves of the loop of
`console_write`; `Transmit` is the port.  A byte is named by the text it belongs
to and its place in it, so that `line` says what arrived of whose text.

`Printf.tla` models `_vsnprintf`: `Literal` and `Directive` are the two sides of
its loop, `Finish` its end.  `Read` reads flags, width, precision and length from
the format as the code does, character by character, and `Convert` gives what the
specifier outputs, numbers in reverse through a buffer of `NtoaSize` places.  A
call also has the directives that its format was written from, which the actions
do not look at: `Promised` says what they promise, as C does, without the
code's buffer and its order of steps.  `Regular` names the directives for which
the code is known to do something else; see section 5.

`Traps.tla` models `init_gdt`, `init_idt` and `init_pic`, and then what the
processor and the controllers do with what these wrote: an exception, an
interrupt line, a spurious one or `int 0x80` enters a gate, finds its handler and
its stack by way of the fields into which the code cut addresses and limits, and
`Return` takes off the stack what the handler was compiled to take off.
`Tasking` takes for granted what is checked here: that the gates lead to the
handlers and the TSS to the stack.

## 3. The runs

| run | configuration | question |
|---|---|---|
| `boot_memory` | every size of memory up to 3 GB, in half pages | which pages does the allocator get, and which machines boot? |
| `kalloc_safety` | four pages, one kind of data | does the free list stay whole, whatever is written into pages? |
| `paging` | windows of 20 frames | does every mapping stay, and is it right? |
| `paging_selfmap` | the same | is the last entry of the directory in use that directory? (No.) |
| `module_init` | three modules | is each started once, in order, and does it end? |
| `tasking_safety` | two user tasks, `Garbage = {TRUE, FALSE}`, `MaxDepth = 5`, `MaxCalls = 2` | does anything go wrong in any interleaving? |
| `page_alloc` | five pages of two units, one kind of data | is the list the free memory, whatever the order, and is no request refused in vain? |
| `console` | two keys, three texts of 0 or 2 bytes; a screen of 4 x 3 | does every byte arrive, does everyone return, does the screen show what was typed? |
| `printf` | 14 260 calls, words of 6 bits | is the text what C promises, in its buffer, and its length returned? |
| `printf_truncated` | the same | is the size returned when a text is cut? (No.) |
| `traps` | bytes of 4 values, three stacks | does every trap get to its handler, and back? |
| `tasking_live` | two user tasks, `Garbage = {}`, `MaxDepth = 4`, `MaxCalls = 1`, `FairSpec` | does every task run again and again? |

`tasking_safety` checks type correctness, that `running_task` is right where it
is read (`RunningTaskIsExecuting`), that every waiting task can be resumed
(`ContextIntact`), that the TSS names the executing task's own stack
(`KernelStackOwn`), that user code can be preempted (`UserEnvironment`), that
the lock is never found taken (`LockNeverContended`), that no interrupt line is
in service across a switch (`NothingInServiceAtSwitch`), that `sys_get_tid`
answers its caller (`TidIsCallers`), that the kernel is not preempted
(`KernelNotPreempted`), and that the scheduler implements `RoundRobin`.

Bounds.  Three flows are the fewest for which the next task, the task after it
and the previous one differ, and for which a task is added while another
already waits.  `MaxDepth` bounds the frames of a stack which an interrupt may
still add to: 5 is the frame of user code, the tick that interrupted it,
`yield`, and two handlers nested in it, the keyboard's under the timer's or two
ticks.  `MaxCalls` bounds the system calls of a task; the second one comes
after the task was switched in the middle of the first one or not.  The proofs
do without these bounds.

`kalloc_safety` checks that `freelist` is a pointer (`TypeOK`), that the links
lead once through all free pages and no other (`ListSound`) and that the
allocator implements `PagePool` (`PoolSpec`).  Four pages are enough for a list
with a first, two inner and a last page, with each of them owned or free in any
order; initial contents of the pages are arbitrary.

`boot_memory` checks that only `static_pool` of the kernel's image is given
away (`KernelKept`), that every page given away is memory (`PagesAreMemory`;
the last page of the window is left out there, which shows the text buffer and is
freed all the same when the memory ends in it: see `paging`), that none is given twice (`GivenOnce`), that the boot is a behaviour of `Kalloc`
(`UsesAllocator`), and for which memory sizes it ends in the idle loop and for
which in a page fault (`MemoryDecides`).  The answer is that a machine with one
region of memory boots when its pool ends within the mapped 4 MB, or when the
pool's end wraps, from about 1 GB on; then no page of the pool is freed and the
kernel lives on `static_pool`.  `make run-qemu` starts it with 4 GB.  In between,
`kfree` faults.  The maps are those of a PC: low memory, BIOS, flash memory at
the end of the address space, and between them nothing, one region of each size,
one with ACPI data after it, or two with a hole.  The window has ten pages and
the image five, so that, as in the machine, a pool that starts behind a second
region's beginning is never in the window; half pages are the unit, so that
regions need not end at a page.

`paging` checks that what the kernel executes and touches is mapped where it
believes (`KernelReachable`), that each of `mmu_map_page`'s mappings is there and
stays (`MappedAsAsked`), that the user's pages are its own and its task has the
right directory (`UserSpaceOwn`), that the code is read-only and user code
confined (`Protected`), and that the processor's TLB is never stale although
nothing flushes it (`TlbCoherent`).  Two mistakes of the code are written into
these properties, so that they say how far each one goes:

* The text begins 12 bytes into its first page, behind the multiboot header
  (`linker.ld:12-13`).  `kmain.c:38-40` passes such addresses and `mmu.c:40` ORs them
  into the entries as they are: `0x00D` where `0x001` is asked for.  So user code can
  read and execute the kernel's text.  `MappedAsAsked` and `Protected` say that this
  is the only entry with a right that nobody asked for, and that none is writable.
* When the memory ends within the last page of the window, that page is freed too
  (`kalloc.c:33`, `kmain.c:224`), although the window shows the text buffer there
  (`kmain.c:51`).  It is then the first that `kalloc` gives, to `setup_usercode`
  (`kmain.c:85`): the user's code lies in the text buffer.  `KernelReachable` and
  `UserSpaceOwn` say that this page is no other than that one, and never a table, a
  directory or a stack.

The behaviour is one sequence with few choices (the stray word, the pages of the
memory map), so the run is small.  The numbers of the frames are in the order of the
machine's; as there, what `boot.s` would map ends behind the window
(`BootSlack = 5`), and the memory map adds no page, one, two, the window's last page
alone, or that page and two more.

`paging_selfmap` refutes `SelfMapShowsDirectory`.  `mmu.c:12` and `MEMLAYOUT:7`
say that the last entry of the directory in use is that directory.
`setup_usercode` copies the kernel's directory, the last entry included, so with
the user's directory loaded the self-map shows the kernel's.  Nothing uses the
self-map after that.

`module_init` checks that a module's `init` is called once, after those of its
prerequisites, except in a cycle (`StartedInOrder`), that the recursion is never
deeper than there are modules (`DepthBounded`), that `init_modules` returns with
everything started or stops for something that is missing (`ReturnsComplete`),
and that it does one or the other (`EndsAsItMust`).  The
first module requires up to two names, the others up to one, one of the three may
have one to load after; names may be missing or be shared by two modules.  So
there are cycles of one, two and three, with tails, and diamonds.

The configurations of these runs say `CHECK_DEADLOCK FALSE`: the boot ends, in
the idle loop, in a halt or in a panic.

`page_alloc` checks that the list's regions are the free memory, in order and
never touching (`ListSound`), that the allocator faults when it is passed what it
returned and never otherwise (`FaultsOnReturnedOnly`), and that it implements
`FreeRuns` (`GivesRuns`).  Five pages are enough for two free regions with an owned
one between them and memory on both sides; a request is for one unit, which is
rounded up to a page, or for three pages.  A fault ends the run.

`console` checks that the bytes of a text arrive once and in order
(`TextsArrive`), that the screen shows the end of what was typed (`ShowsPaper`),
and that every `kprintf` returns (`KprintfReturns`).  An interrupted write may lose a byte, but,
as `TextsArrive` says, only the last one of a handler's text: the flow's next
byte, for which the port was tested before the interrupt, overwrites it.  Two keys
nest two handlers over a flow's text or over each other; two bytes are a first and
a last one.  The screen has two tabs in a row and three rows, so that scrolling
moves a row which is neither the first nor the last; five lines scroll it
twice.  The first `kprintf` computes a row from the controller's position by a
division by 25 where 80 is meant (`debug_output.c:98`), up to 79 on a screen of 25.
From a row below the screen, a tab, a return or a new line brings the cursor to the
last row; a character is lost, and `ShowsPaper` has a blank in its place; and a
write behind the page of the text buffer, of a character or of the blank of a
backspace (`CELLS`: 2048 cells in the machine, 14
here, two more than the screen has) is a page fault, after which nothing goes on.
`ShowsPaper` says that a fault happens only there and as the first thing that is
drawn.  Drawing and printing touch different state, so a behaviour does one or the
other after the first text.  A run ends when the texts and keys are used up.

`printf` checks that what is written is the beginning of what the directives
promise, as much as fits, ended by a NUL, and that nothing is written behind it
(`StringIsPrefix`), and that the full length is returned (`ReturnsFullLength`).
The calls have every set of flags with widths and precisions below, at and above
the number of digits, every specifier with a value of each sign and 0, lengths
that cut the value, `*` with negative widths and precisions, and two directives in a row, of
which the second reads its argument where the first stopped, into 0, 2, 5 and 20
characters, an output function and nothing.  Words of six bits have values with
one and two digits in base 10 and 16 and six in base 2, and a conversion buffer of
eight places is filled by these and the base, as one of 32 nearly is in the
machine.

`printf_truncated` refutes `TruncationReturnsCount`.  `printf.h:79` says that the
size of the buffer is returned if the text was cut; `printf.c:718` returns the
length of the whole text.  The two callers in the kernel do not use what is
returned as an index.

`traps` checks that every trap finds a handler, in ring 0 and on the stack that
`set_kernel_stack` set last or, from ring 0, the interrupted one
(`KernelEntered`), and that every interrupt line is acknowledged and every handler
that does not halt returns to the interrupted code (`TrapsReturn`), except
`default_handler`, for vectors without an error code: that it goes astray there is
written into the property, with the vectors.  A byte of four values cuts an address of 256 in the
same pieces as the machine's, and each handler's address differs from the others
in every piece that the tables keep.  A handler that halts, or goes astray, ends the
run.

Fairness.  In `BootMem` and `ModuleInit` it is weak fairness of `Next`: nothing
else runs and nothing interrupts.  In `Tasking`: the PIT interrupts every millisecond, which is many instructions.
So the code at every depth of a stack gets on, however often it is interrupted
(strong fairness of `CpuStep` per depth: interrupts disable it only while their
handler runs); a task whose prologue is interrupted each time it is resumed gets
through it in the end; and ticks keep coming while user code executes.  Nothing
is assumed of the keyboard.  In `Console` the processor goes on (weak fairness of
`Processor`) and the port sends what it holds (weak fairness of `Transmit`);
nobody has to print or to press a key.

## 4. The proofs

`TaskingProofs` proves, for any set of user tasks, any nesting of interrupts,
any number of system calls and any value that `save_irqdisable` returns:

* `InvariantHolds`: `Spec => []IInv`;
* from it, each of the safety properties above, `KernelNotPreempted`, and
  `ImplementsRoundRobin`: `Spec => RoundRobin`.

None of the properties is inductive alone.  That `running_task` is right needs
that a switch hands over to a parked task; that needs the shape of its stack;
and that needs that `yield` was called once at most in it, which needs that the
lock was free and the tick came over user code.  `IInv` says where each kind of
frame can be in a stack (`StackInv`), what holds before the scheduler is ready
(`BootInv`), that the list has no task twice and contains the executing one
(`ListInv`), what `yield`'s one frame implies of the lock, the flags, its locals
and `running_task` (`YieldInv`), and what the processor and the PIC hold
(`MachineInv`).

The proof has one lemma per action.  Below them are lemmas on sequences of
frames, on what a jump, a call, a return and a push do to a stack (`JumpStep`,
`CallStep`, `ReturnStep`, `PushStep`), and on the three kinds of step: one that
leaves `yield` alone (`QuietStep`), one inside it (`YieldStep`), and one that
calls it or returns from it (`EdgeStep`).  `OnlySwitchLoad` and `SwitchLoadGives`
then give the action property and the refinement.

`KallocProofs` proves, for any set of pages and any data, `KallocInvariant`:
`Spec => []KInv`, where `KInv` is `TypeOK /\ ListSound`; from it
`KallocTypeCorrect`, `FreeListSound` and `ImplementsPagePool`.  `TypeOK` alone is
not inductive: the new head that `kalloc` takes is whatever the old head's first
word says, and only `ListSound` says that this is a pointer.

`ModuleInitProofs` proves, for any number of modules and any declarations,
`StartInvariant`: `Spec => []IInv`; and from it `StartTypeCorrect`,
`StartComplete`, `StartDepthBounded` and `StartOrderCorrect`.  `IInv` says that a
module is marked when it was started or is on the stack, and is there once
(`MarkInv`), that the loops have left nothing unstarted behind them (`LoopInv`),
that the array's loop has not either (`WalkInv`), that what `resolve_module` found
is what is there (`ResolveInv`), and that on the stack the rank goes down for any
ranking that shows the prerequisites free of cycles (`RankInv`).  The bound of the
depth follows from `MarkInv` by the pigeonhole principle, the order from `RankInv`:
a prerequisite that is not started yet is lower on the stack, which with a ranking
is a contradiction.  That there is always such a ranking when there is no cycle is
not proved; `Acyclic` is defined by it.

The assumptions on constants: `NULL` is no page and no module, there is at least
one module, and declarations name modules and their prerequisites by names.

`ConsoleProofs` proves `EveryTextArrives` and `ScreenShowsPaper`, for any number of
keys and texts, any lengths, any size of the screen and of the page that holds it,
and any nesting of handlers.  The invariant
of the first says for every call on `stack` how much of its text has left the port,
which call the port's byte belongs to, and that of all the calls that have tested
the port and not written to it yet only the innermost can find it full: so a byte
that is overwritten is a handler's last one.  The second compares the video memory
with the last rows of `paper`, row by row, through `scroll`, but for the one
character that can be lost below the screen; and a cell behind the page is always
below the screen (`BehindIsBelow`), where the cursor can be only before anything was
drawn.

`BootMemProofs` proves, for any width of words and any map that `MapAssumption`
allows, `BootInvariant`: `Spec => []BInv`; and from it `BootTypeCorrect`,
`KernelImageKept`, `PagesUsable`, `PagesGivenOnce` and `AllocatorUsed`.  `BInv` says
that a page that was given is in `static_pool` or in the region that begins where
the kernel does, behind the kernel and below where `freerange` got to (`PagesInv`);
that needs which region `handle_mmap` chose (`PoolChosen`), where the loop stands
(`LoopInv`), and that the sum of the lengths, which may be far beyond the region or
wrap, is never reached by an address that is mapped.  `AllocatorUsed` makes the
theorems of `KallocProofs` true of the boot.  `MapAssumption` names what was said of
the maps in words before: the kernel's start is the start of a region of usable
memory that holds it, other usable regions lie behind the kernel, none so high that
its first pages lie behind the last address, and they come in order.

`PagingProofs` proves, for directories of any size, any layout of the image, any
free list and any pages of the memory map, `PagingInvariant`: `Spec => []PInv`; and
from it `KernelStaysReachable`, `MappingsStay`, `UserSpaceIsOwn`,
`KernelProtected` and `TlbStaysCoherent`.  `PInv` says for each place of the boot
which entries each directory has and which table they lead to (`BootInv`,
`KernelDirInv`, `UserDirInv`), what the window's table and the user's show
(`WindowInv`, `UserTableInv`), how far the loops are, which pages of the free list
were taken (`TakenInv`), and, what all the rest hangs on, that where
`mmu_map_page` reads its unset variable the slot leads, through the directory in
use at that moment, to the very table that the call means (`ListInv`, `TakenInv`).
What is assumed of the layout (`LayoutAssumption`) holds of the machine: the image
begins behind the text buffer and ends before the last page of the window, the
directories and tables are in its `.bss`; nothing is asked of how far `boot.s` maps.
Of the free list (`PoolAssumption`) it is assumed that the pages are different, which
is `GivenOnce` of `BootMem`, and in `static_pool` or behind the image, which is
`KernelKept`; and that the window's last page, if it is free, is the first of the
list.  `BootMemProofs` does not show this last part: it is so because `freerange` frees
pages in the order of their addresses and `kfree` puts each at the head.

`PageAllocProofs` proves, for memory and pages of any size, any requests and
anything that owners write, `ListInvariant`: `Spec => []ListInv`; and from it
`ListStaysSound`, `NoOtherFault` and the refinement `KeepsPromise`: `Spec =>
GivesRuns`.  `ListInv` says that there are a sequence of addresses and one of
lengths, in order and apart (`Sorted`), which the links in memory lead through
(`Linked`) and which are the free memory (`Cover`), that owners have none of it, and
what has faulted.  An operation replaces some regions by one (`Spliced`) or leaves
one out (`Without`).  For each of the two, order, links and memory are lemmas of
their own, and `Given` and `Taken` show that the code's pointer writes are one of
them, case by case: joined to the front, to the back, to both, between, at the end.
That what is written into owned memory cannot break the list is `UseStep`; it needs
that headers lie in free memory only.  `Regions` and `CountFreePages` are recursive
functions: `RegionsAre` shows that the first walks the sequence, `CountIsFree` that
the second adds up to the free memory, both by a smallest counterexample.  A refusal
is right because a run of free memory cannot cross from a region to another
(`RunInRegion`).  The assumption is `LayoutAssumption`: what `memlayout.h` says of
the window, and sizes that are multiples of a page.

The last part of `ConsoleProofs` proves `WritesInside`: `PrintfSpec =>
[]NothingBehind`, for any calls, also those which `Regular` leaves out, and any size
of buffer: no character is written behind it.  `NothingBehind` is the first part of
`StringIsPrefix`.  The proof needs nothing of what a directive outputs: `out` drops
what does not fit, character by character, and the place of the NUL is below the
size or nowhere.

`TrapsProofs` proves, for bytes of any size, any handlers and any place of
`tss_entry` that `TrapsAssumption` allows, `TrapsInvariant`: `Spec => []TInv`; and
from it `KernelIsEntered` and `HandlersReturn`.  `TInv` says what the processor will
read: the privilege and the kind of the segments, base and limit of the TSS
(`SegmentsRight`), the gates (`GatesRight`), the two controllers before and after
`init_pic`; and, of a trap that is handled, that its handler is its vector's, that it
has an error code if the vector pushes one, that its stack is the one in the TSS, and
that the line in service is the one which that handler acknowledges (`TrapInv`): the
two properties need this of the step before they can be violated.  That an address
comes together again from its fields is arithmetic (`BaseKept`, `LimitKept`,
`TargetKept`), which rests on division having one result (`CutOnce`) and on cutting
twice being cutting at the product (`CutTwice`).  The limit of the TSS is where the
assumption is needed: of base plus size the descriptor keeps the low bits.

`EndsAsItMust`, `MemoryDecides` and `KprintfReturns` are liveness and only
model-checked.  So is what `Printf` says of the text (`StringIsPrefix`,
`ReturnsFullLength`): it is computed digit by digit, and holds of formats that were
written from the directives that a call names, which is what `MCPrintf` does and
`Printf` does not assume.

In `TaskingProofs` the assumptions are those of `Tasking`: `main_task` is no user task, `NULL` no
task, `Garbage` a set of flags, the bounds natural numbers.  Liveness
(`EveryTaskRunsAgain`) is model-checked only.

## 5. Limits of the model

* The tasks of `UserTask` do not share a user stack.  That is so for the one
  task that `kmain` sets up.  `setup_usercode` gives every task the physical
  address of `user_proc_dir` and the entry stack of `first_user_proc`, so the
  loop that `kmain` has in a comment would make them share one.
* General registers, the numeric tid and the contents of user memory are not
  modelled; `tid` records whose tid a task was given.
* Fault handlers print and halt, or return; they are not part of `Tasking`, and
  in `BootMem` a page fault is the end.  `Traps` has whether they return, one trap
  at a time: nesting is in `Tasking` and `Console`.
* The two `mmu_map_page` calls at the end of `create_task` get the address of a
  parameter as a directory.  `Paging` has what they write to tables; that the
  first of them may also write a pointer to an unknown place of the stack or
  behind it is not followed further.  The second one overwrites an entry of
  `kernel_page_dir`, the one with the number of the kernel stack's frame.
  `Paging` assumes (`FreeListAssumption`) that this is no entry in use.  In the
  machine it would be the kernel's own, 768, only if `static_pool` began six or
  seven pages after the kernel's start; the boot stack and boot tables alone,
  which `boot.s` puts before it, take six, besides code and data.
* `Paging` knows one build, that of `make.conf`.  With optimisation, the
  uninitialised `table` may be anything.
* The write-through bit that the kernel's text gets together with `USER` is not
  modelled.
* By the flags that `clear_page_directory` gives the last entry, user code can
  reach the tables through it; `Protected` leaves the last entry out.
* `BootMem` has no region of usable memory that contains the kernel's start
  without beginning there, and none that starts at 1020 MB, where the pool would
  fall on the self-map (`MapAssumption`); no boot loader of a PC reports such a
  map.
* `PageAlloc` takes an operation for one step.  The code holds the allocator's
  lock, but only if its creator asks for one, and `page_alloc` prints the list's
  head before it takes it.  A region or a length that is no multiple of a page, a
  request of 0 bytes and one within a page of 2^32, which the rounding makes 0, are
  left out; nothing calls the allocator, so nothing says whether they can be asked
  for.  `page_alloc_count_free_pages` has an assertion that the list is not empty.
* `Console` has two kinds of flows, the one that prints and the keyboard's handler.
  That two flows' `kprintf`s do not interleave otherwise is `KernelNotPreempted` of
  `Tasking`.  A text of a `kprintf` is given by its length; a text is below the 1024
  characters of the buffer, which cuts it otherwise as `Printf` says.
* A key that is released gives a negative index into the table of characters
  (`ps2kbd.c:48`).  `Console` has a character or none for it.
* `Printf` leaves out formats that end within a directive, behind whose end the
  code reads on, and arguments of another type than the directive's; the formats
  of the kernel have neither.  `_putchar` is commented out, so `printf_` prints
  nothing.
* Where `printf.c` is known not to do what C says (`Regular`): a negative
  precision that `*` takes from the arguments is 0, not as if there were none
  (`printf.c:514-515`): no digits for 0, no zeros up to the width, an empty text.  A
  precision with the flag `-` adds no zeros.  `#` drops the first digits of a number
  that fills its width, of one that fills it but for one place in base 16 with the
  flag `0`, is one place too wide with `0` in base 2, and adds a 0 in base 8 even
  where the precision gave one.  Sign, base and zeros beyond the conversion buffer are
  dropped.  `ll` and `j` print nothing and take no argument, because the line that
  would define `PRINTF_SUPPORT_LONG_LONG` is commented out (`printf.c:70`).  `%p`
  ignores its width.  The kernel uses none of these.
* `Traps` assumes that `tss_entry` lies where the low 20 bits of its end are at
  least the end of the fields that the processor reads (`TrapsAssumption`): that is
  what is left of the limit in `gdt.c:27`.
* What `handle_cmdline` and `handle_ram` do is print.  `fini_module` is never
  called.  What a module's `init` answers is printed and dropped.

## 6. Plan

In this order.

1. *Done*: `Tasking` with `RoundRobin`, `Kalloc` with `PagePool`, and `ModuleInit`,
   with their runs and proofs.
2. *Done*: `BootMem`, `Paging`, `Screen` and `Console`, with their runs and proofs.
3. *Done*: `PageAlloc` with `FreeRuns`, with its run and proofs.
4. *Done*: `Printf` and `Traps`, with their runs and the proofs of `Traps`.  Of
   `Printf` it is proved, for any format, that nothing is written behind the buffer.

Not modelled: `portio.c`, `memset.c`, `strcmp.c` and `pit.c`'s divisor (single port
accesses and loops without state of their own), `utstack.h` and `cpuid.h` (used by
nothing), `multiboot.h` (declarations, of which `BootMem` has the memory map's).
