------------------------------- MODULE Kalloc -------------------------------
(***************************************************************************)
(* The allocator of physical pages (kalloc.c): a list of free pages,       *)
(* linked through the first word of each.  Nothing else remembers which    *)
(* pages are free, and the owner of a page may write anything into it, so  *)
(* one page freed twice, one lost link or one write after a kfree and two  *)
(* owners share a page.                                                    *)
(*                                                                         *)
(* Every caller has interrupts off, and the boot flow is the only one that *)
(* allocates, so kfree and kalloc are one step each.                       *)
(***************************************************************************)
EXTENDS Naturals, Sequences

CONSTANTS
  Page,    \* the pages the allocator may be given
  NULL,
  Data     \* what else than a pointer the first word of a page may hold

ASSUME PageAssumption == NULL \notin Page

Pointer == Page \cup {NULL}
Word    == Pointer \cup Data

VARIABLES
  freelist,  \* kmem.freelist
  next,      \* the first word of every page, r->next while it is free
  used,      \* the pages that were allocated and not freed
  halted,    \* whether kalloc ran out of memory and stopped the kernel
  chain      \* history: the free pages, the last one freed first

kvars == <<freelist, next, used, halted, chain>>

Members(s) == {s[i] : i \in 1..Len(s)}

Init ==
  /\ freelist = NULL
  /\ next \in [Page -> Word]
  /\ used = {}
  /\ halted = FALSE
  /\ chain = <<>>

\* mutant: r->next = NULL, whatever was free before is lost.
KfreeForgetsList(v) ==
  /\ ~halted
  /\ next' = [next EXCEPT ![v] = NULL]
  /\ freelist' = v
  /\ used' = used \ {v}
  /\ chain' = <<v>> \o chain
  /\ UNCHANGED halted

\* mutant: the link is not written: what the owner left there is followed.
KfreeUnlinked(v) ==
  /\ ~halted
  /\ freelist' = v
  /\ used' = used \ {v}
  /\ chain' = <<v>> \o chain
  /\ UNCHANGED <<next, halted>>

\* kfree: neither v nor what it holds is looked at.
Kfree(v) ==
  /\ ~halted
  /\ next' = [next EXCEPT ![v] = freelist]
  /\ freelist' = v
  /\ used' = used \ {v}
  /\ chain' = <<v>> \o chain
  /\ UNCHANGED halted

\* mutant: the free list stays where it is.
KallocKeepsHead(r) ==
  /\ ~halted
  /\ r = freelist
  /\ r # NULL
  /\ used' = used \cup {r}
  /\ chain' = IF chain = <<>> THEN chain ELSE Tail(chain)
  /\ UNCHANGED <<freelist, next, halted>>

\* kalloc when it finds a page, r.
Kalloc(r) ==
  /\ ~halted
  /\ r = freelist
  /\ r # NULL
  /\ freelist' = next[r]
  /\ used' = used \cup {r}
  /\ chain' = Tail(chain)
  /\ UNCHANGED <<next, halted>>

\* kalloc when it finds none: cli; hlt for ever, with the lock held.
OutOfMemory ==
  /\ ~halted
  /\ freelist = NULL
  /\ halted' = TRUE
  /\ UNCHANGED <<freelist, next, used, chain>>

\* The owner of a page writes into its first word; a pointer to a page is as
\* good a value as any.
Use(p, w) ==
  /\ ~halted
  /\ p \in used
  /\ next' = [next EXCEPT ![p] = w]
  /\ UNCHANGED <<freelist, used, halted, chain>>

\* Callers free what they own, and freerange what nobody had before.
Next ==
  \/ \E p \in Page \ Members(chain) : Kfree(p)
  \/ \E r \in Page : Kalloc(r)
  \/ OutOfMemory
  \/ \E p \in Page, w \in Word : Use(p, w)

Spec == Init /\ [][Next]_kvars

-----------------------------------------------------------------------------
\* Whatever the owners write into their pages, freelist is a pointer.
TypeOK ==
  /\ freelist \in Pointer
  /\ next \in [Page -> Word]
  /\ used \in SUBSET Page
  /\ halted \in BOOLEAN
  /\ chain \in Seq(Page)

\* From freelist, the links lead through every page that was freed and not
\* allocated since, each once, and to NULL; no page of the list has an owner
\* who could overwrite its link.  (kfree writes the link into memory that was
\* its caller's a moment ago, kalloc trusts the link it finds there.)
ListSound ==
  /\ freelist = IF chain = <<>> THEN NULL ELSE chain[1]
  /\ \A i \in 1..Len(chain) :
       next[chain[i]] = IF i = Len(chain) THEN NULL ELSE chain[i + 1]
  /\ \A i, j \in 1..Len(chain) : chain[i] = chain[j] => i = j
  /\ Members(chain) \cap used = {}

\* kalloc and kfree implement the pool: no page has two owners, and the kernel
\* stops for want of memory only when every page has one.
Pool == INSTANCE PagePool WITH free <- Members(chain)
PoolSpec == Pool!Spec

=============================================================================
