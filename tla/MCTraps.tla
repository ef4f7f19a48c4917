------------------------------ MODULE MCTraps ------------------------------
(* Values for TLC: a byte has 4 values, so addresses have 256.               *)
EXTENDS Traps

CONSTANTS s1, s2, s3

\* Handlers all over memory, so that both halves of their addresses matter.
HandlersAt ==
  [default_handler |-> 23, div_zero_handler |-> 42, debug_handler |-> 61, nmi_handler |-> 80,
   breakpoint_handler |-> 99, invalid_opcode_handler |-> 118, double_fault_handler |-> 137,
   gpf_handler |-> 156, page_fault |-> 175, timer_handler |-> 194, kbd_handler |-> 213,
   syscall_i80_handler |-> 232]

=============================================================================
