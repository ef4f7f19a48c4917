------------------------------- MODULE Traps -------------------------------
(***************************************************************************)
(* How the processor enters and leaves the kernel: the descriptor tables   *)
(* (gdt.c, idt.c), the interrupt controllers (pic.c) and the handlers'     *)
(* frames (idt.h).  What the processor and the controllers do with what    *)
(* the code gives them is external.  A trap here is one that nothing       *)
(* interrupts; Tasking has the nested ones.                                *)
(*                                                                         *)
(* Addresses are scaled: a byte is BYTE, so that a descriptor's fields cut *)
(* an address of BYTE^4 and a limit of BYTE^2 * NIBBLE in pieces.          *)
(***************************************************************************)
EXTENDS Integers, Sequences

CONSTANTS
  BYTE, NIBBLE,
  TssAt, TssSize,  \* where tss_entry lies, and sizeof(tss_entry)
  TssStackEnd,     \* the end of its fields esp0 and ss0
  HandlerAt,       \* the address of each handler
  Stacks, BootStack, \* kernel stacks, and stack_end
  Unused           \* a vector that nothing uses, for all of them

WORD  == BYTE * BYTE
LIMIT == WORD * NIBBLE   \* a limit has 20 bits

Handler == {"default_handler", "div_zero_handler", "debug_handler", "nmi_handler",
            "breakpoint_handler", "invalid_opcode_handler", "double_fault_handler",
            "gpf_handler", "page_fault", "timer_handler", "kbd_handler",
            "syscall_i80_handler"}

\* The exceptions of the processor, those which push an error code, and the
\* vectors of the gates; no other vector is raised.
Exceptions == {0, 1, 3, 4, 5, 6, 7, 8, 10, 11, 12, 13, 14, 16, 17, 19}
ErrorCodes == {8, 10, 11, 12, 13, 14, 17}
NMI        == 2
Vectors    == Exceptions \cup {NMI, 128, Unused} \cup 32 .. 47

\* The last one is where the code does not look: write_tss takes base + sizeof for
\* a limit, of which a descriptor keeps the low bits.
ASSUME TrapsAssumption ==
  /\ {BYTE, NIBBLE, TssSize, TssStackEnd} \subseteq Nat \ {0}
  /\ TssAt \in 0 .. WORD * WORD - 1
  /\ HandlerAt \in [Handler -> 0 .. WORD * WORD - 1]
  /\ \A h, i \in Handler : HandlerAt[h] = HandlerAt[i] => h = i
  /\ BootStack \in Stacks
  /\ Unused \in 20 .. 31 \cup 48 .. 127 \cup 129 .. 255
  /\ (TssAt + TssSize) % LIMIT >= TssStackEnd

VARIABLES
  pc,         \* what x86_enter does next: "gdt", "idt", "pic", "run"
  gdt, idt,   \* gdt_entries, idt_entries
  tss,        \* tss_entry
  pic,        \* both controllers
  inService,  \* the lines that were not acknowledged
  ring,       \* the privilege of the code that executes
  trap        \* the trap that is handled, or NoTrap

vars == <<pc, gdt, idt, tss, pic, inService, ring, trap>>

NoTrap == [vector |-> -1]
-----------------------------------------------------------------------------
\* mutant: the top byte of the base is left out.
SegmentShort(base, limit, access, gran) ==
  [base_low |-> base % WORD, base_middle |-> (base \div WORD) % BYTE, base_high |-> 0,
   limit_low |-> limit % WORD, limit_high |-> (limit \div WORD) % NIBBLE,
   granularity |-> gran, access |-> access]

\* gdt_set_gate: the granularity byte has the high bits of the limit and the
\* four flags in gran.
Segment(base, limit, access, gran) ==
  [base_low |-> base % WORD, base_middle |-> (base \div WORD) % BYTE,
   base_high |-> (base \div (WORD * BYTE)) % BYTE,
   limit_low |-> limit % WORD, limit_high |-> (limit \div WORD) % NIBBLE,
   granularity |-> gran, access |-> access]

\* init_gdt with write_tss.  4G - 1 is all ones.
All == WORD * WORD - 1
InitGdt ==
  /\ pc = "gdt"
  /\ pc' = "idt"
  /\ gdt' = <<Segment(0, 0, 0, 0),
              Segment(0, All, \h9A, \hC0), Segment(0, All, \h92, \hC0),
              Segment(0, All, \hFA, \hC0), Segment(0, All, \hF2, \hC0),
              Segment(TssAt, TssAt + TssSize, \hE9, 0)>>
  /\ tss' = [ss0 |-> \h10, esp0 |-> BootStack]
  /\ UNCHANGED <<idt, pic, inService, ring, trap>>

\* The fields of an access byte, or of the flags of a gate.
Present(a) == a \div 128 = 1
Dpl(a)     == (a \div 32) % 4
IsCode(a)  == (a \div 8) % 4 = 3
IsData(a)  == (a \div 8) % 4 = 2

\* idt_set_gate: flags | 0x60 is the flags with a privilege of 3.
Gate(h, sel, flags) ==
  [base_lo |-> HandlerAt[h] % WORD, base_hi |-> (HandlerAt[h] \div WORD) % WORD,
   sel |-> sel, flags |-> flags + 32 * (3 - Dpl(flags))]

\* mutant: the timer is on the vector that the controllers have after a reset.
HandlerOfAtReset(v) ==
  CASE v = 0  -> "div_zero_handler"       [] v = 1  -> "debug_handler"
    [] v = 2  -> "nmi_handler"            [] v = 3  -> "breakpoint_handler"
    [] v = 4  -> "invalid_opcode_handler" [] v = 13 -> "gpf_handler"
    [] v = 14 -> "page_fault"             [] v = 8  -> "timer_handler"
    [] v = 9  -> "kbd_handler"            [] v = 128 -> "syscall_i80_handler"
    [] OTHER  -> "default_handler"

\* init_idt sets the default gate for all vectors, and then these.
HandlerOf(v) ==
  CASE v = 0  -> "div_zero_handler"       [] v = 1  -> "debug_handler"
    [] v = 2  -> "nmi_handler"            [] v = 3  -> "breakpoint_handler"
    [] v = 4  -> "invalid_opcode_handler" [] v = 8  -> "double_fault_handler"
    [] v = 13 -> "gpf_handler"            [] v = 14 -> "page_fault"
    [] v = 32 -> "timer_handler"          [] v = 33 -> "kbd_handler"
    [] v = 128 -> "syscall_i80_handler"   [] OTHER  -> "default_handler"

InitIdt ==
  /\ pc = "idt"
  /\ pc' = "pic"
  /\ idt' = [v \in Vectors |-> Gate(HandlerOf(v), 8, \h8F)]
  /\ UNCHANGED <<gdt, tss, pic, inService, ring, trap>>

-----------------------------------------------------------------------------
\* A controller after a write: the command ICW1 starts an initialisation, whose
\* three words come through the data port; otherwise that sets the mask.
Controller(icw, offset, mask) == [icw |-> icw, offset |-> offset, mask |-> mask]

Write8259(c, port, value) ==
  CASE port = "command"              -> Controller(2, c.offset, 0)
    [] port = "data" /\ c.icw = 2    -> Controller(3, value, c.mask)
    [] port = "data" /\ c.icw = 3    -> Controller(4, c.offset, c.mask)
    [] port = "data" /\ c.icw = 4    -> Controller(0, c.offset, c.mask)
    [] OTHER                         -> Controller(0, c.offset, value)

\* What PIC_remap and init_pic write to a controller, in that order: the command, its
\* vectors, how the two are connected, its mode, the mask it had, and its mask.
Data(c, value) == Write8259(c, "data", value)
Remapped(c, offset, cascade, mask) ==
  Data(Data(Data(Data(Data(Write8259(c, "command", \h11), offset), cascade), 1), c.mask), mask)

InitPic ==
  /\ pc = "pic"
  /\ pc' = "run"
  /\ pic' = <<Remapped(pic[1], 32, 4, \hFC), Remapped(pic[2], 40, 2, \hFF)>>
  /\ UNCHANGED <<gdt, idt, tss, inService, ring, trap>>

-----------------------------------------------------------------------------
\* What the processor reads from the tables.
Descriptor(sel) == gdt[(sel \div 8) + 1]
Base(d)    == d.base_low + WORD * d.base_middle + WORD * BYTE * d.base_high
Limit(d)   == d.limit_low + WORD * d.limit_high

Wild == "wild"
Target(g) ==
  LET at == {h \in Handler : HandlerAt[h] = g.base_lo + WORD * g.base_hi}
  IN  IF at = {} THEN Wild ELSE CHOOSE h \in at : TRUE

\* The stack that a trap from user code is handled on: the task register names
\* descriptor 5.
TssStack ==
  LET d == Descriptor(\h2B) IN
  IF Base(d) = TssAt /\ Limit(d) + 1 >= TssStackEnd /\ IsData(Descriptor(tss.ss0).access)
  THEN tss.esp0 ELSE Wild

\* The processor enters a gate; error says whether it pushes an error code.
Enter(v, error) ==
  LET g == idt[v] IN
  /\ pc = "run" /\ trap = NoTrap
  /\ ring' = Dpl(Descriptor(g.sel).access)
  /\ trap' = [vector |-> v, handler |-> IF Present(g.flags) THEN Target(g) ELSE Wild,
              error |-> error, from |-> ring, astray |-> FALSE,
              stack |-> IF ring = 3 THEN TssStack ELSE "same"]
  /\ UNCHANGED <<pc, gdt, idt, tss, pic>>

Exception(v) == Enter(v, v \in ErrorCodes) /\ UNCHANGED inService
Nmi          == Enter(NMI, FALSE) /\ UNCHANGED inService

\* int 0x80 in user code.
Syscall == ring = 3 /\ Dpl(idt[128].flags) = 3 /\ Enter(128, FALSE) /\ UNCHANGED inService

\* A line that is not masked; the lines of the second controller come through
\* line 2 of the first.
PowersOf2 == <<1, 2, 4, 8, 16, 32, 64, 128>>
Unmasked(c, l) == (pic[c].mask \div PowersOf2[l + 1]) % 2 = 0

Irq(c, l) ==
  /\ pc = "run" /\ Unmasked(c, l) /\ (c = 2 => Unmasked(1, 2))
  /\ l + 8 * (c - 1) \notin inService
  /\ inService' = inService \cup (IF c = 1 THEN {l} ELSE {2, 8 + l})
  /\ Enter(pic[c].offset + l, FALSE)

\* A controller whose request went away answers with its line 7, masked or not.
Spurious == pc = "run" /\ Enter(pic[1].offset + 7, FALSE) /\ UNCHANGED inService

\* The handlers that are declared ISR_FAULT, which take an error code off the
\* stack, and those that end in a loop.
FaultHandlers == {"default_handler", "gpf_handler", "page_fault", "double_fault_handler"}
Halting == {"nmi_handler", "breakpoint_handler", "gpf_handler", "page_fault", "double_fault_handler"}

\* The lines that a handler acknowledges: the first of each controller.
Acknowledged(h) ==
  LET first(S) == {l \in S \cap inService : \A k \in S \cap inService : l <= k}
  IN  CASE h = "timer_handler" -> first(0 .. 7)
        [] h = "kbd_handler"   -> first(0 .. 7) \cup first(8 .. 15)
        [] OTHER               -> {}

\* A handler returns, to what lies where it takes the frame to be.
Return ==
  /\ trap # NoTrap /\ ~trap.astray
  /\ trap.handler \in Handler \ Halting
  /\ inService' = inService \ Acknowledged(trap.handler)
  /\ IF trap.error = (trap.handler \in FaultHandlers)
     THEN trap' = NoTrap /\ ring' = trap.from
     ELSE trap' = [trap EXCEPT !.astray = TRUE] /\ UNCHANGED ring
  /\ UNCHANGED <<pc, gdt, idt, tss, pic>>

\* set_kernel_stack: the idle loop, or the handler of a tick in user code, is
\* about to switch to the flow with that stack, and to go on there.
SetKernelStack(s) ==
  /\ pc = "run" /\ ring = 0
  /\ tss' = [tss EXCEPT !.esp0 = s]
  /\ \/ trap = NoTrap /\ UNCHANGED trap
     \/ /\ trap # NoTrap /\ trap.handler = "timer_handler" /\ trap.from = 3
        /\ trap' = [trap EXCEPT !.stack = s]
  /\ UNCHANGED <<pc, gdt, idt, pic, inService, ring>>

\* The iret of usercode.s, with the selectors 0x1B and 0x23.
StartUser ==
  /\ pc = "run" /\ ring = 0 /\ trap = NoTrap
  /\ IsCode(Descriptor(\h1B).access) /\ IsData(Descriptor(\h23).access)
  /\ Dpl(Descriptor(\h1B).access) = Dpl(Descriptor(\h23).access)
  /\ ring' = Dpl(Descriptor(\h1B).access)
  /\ UNCHANGED <<pc, gdt, idt, tss, pic, inService, trap>>

Init ==
  /\ pc = "gdt"
  /\ gdt = <<>> /\ idt = <<>> /\ tss = <<>>
  /\ \E a1, a2 \in 0 .. 1 :
       pic = <<Controller(0, 8, a1), Controller(0, 112, a2)>>
  /\ inService = {}
  /\ ring = 0
  /\ trap = NoTrap

Next ==
  \/ InitGdt \/ InitIdt \/ InitPic
  \/ \E v \in Exceptions : Exception(v)
  \/ \E c \in {1, 2}, l \in 0 .. 7 : Irq(c, l)
  \/ \E s \in Stacks : SetKernelStack(s)
  \/ Nmi \/ Syscall \/ Spurious \/ Return \/ StartUser

Spec == Init /\ [][Next]_vars

-----------------------------------------------------------------------------
\* A handler runs in ring 0 on the right stack: the interrupted code's own, or the
\* one that set_kernel_stack set last, when that code was the user's; every gate
\* leads to a handler, and when it returns user code is in ring 3 again.  All of
\* it goes through fields that gdt_set_gate and idt_set_gate cut in pieces.
KernelEntered ==
  /\ trap # NoTrap =>
       /\ ring = 0
       /\ trap.handler # Wild
       /\ trap.stack = IF trap.from = 3 THEN tss.esp0 ELSE "same"
  /\ ring \in {0, 3}

\* Every interrupt that the controllers let through is acknowledged, by a handler
\* of its own, and every handler that does not halt returns to the interrupted
\* code, except default_handler, which takes an error code off the stack (idt.c:24): where
\* none was pushed, for an invalid opcode (whose handler is on vector 4,
\* idt.c:111) or a spurious interrupt, it goes astray.
TrapsReturn ==
  /\ trap = NoTrap => inService = {}
  /\ trap # NoTrap /\ inService # {} => trap.handler # "default_handler"
  /\ trap # NoTrap /\ trap.astray =>
       /\ trap.handler = "default_handler"
       /\ trap.vector \notin {v \in Vectors : idt[v] # idt[Unused]}

=============================================================================
