---------------------------- MODULE MCPageAlloc ----------------------------
(* A small memory for TLC: a page is two units.                             *)
EXTENDS PageAlloc

\* Half a page, which is rounded up, and three pages.
SomeSizes == {PAGESIZE \div 2, 3 * PAGESIZE}

\* Data that looks like a region.
SomeStray == {[next |-> KERN_BASE + PAGESIZE, len |-> 2 * PAGESIZE]}

=============================================================================
