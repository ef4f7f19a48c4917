----------------------------- MODULE PageAlloc -----------------------------
(***************************************************************************)
(* The allocator of regions (page_alloc.c): a list of free regions sorted  *)
(* by address, each with a header, its length and the next region, in its  *)
(* own first bytes.  Neighbours are joined when memory is given, so that a  *)
(* request fails only when there is no run of free memory for it.          *)
(*                                                                         *)
(* Memory is counted in units of which PAGESIZE make a page.  The physical *)
(* memory 0 .. MemSize-1 is mapped at KERN_BASE, nothing else is; addresses *)
(* wrap at AddressSpace.  An operation is one step: the allocator's lock,  *)
(* where the caller of page_alloc_init asks for one, is held from its first *)
(* access to the list to its last.                                         *)
(***************************************************************************)
EXTENDS Integers, Sequences, FiniteSetsExt, Functions

CONSTANTS MemSize, PAGESIZE, KERN_BASE, AddressSpace,
          Sizes,    \* what may be passed to page_alloc
          Stray     \* the headers that owners' data may look like

NULL == 0

ASSUME LayoutAssumption ==
  /\ {MemSize, PAGESIZE, KERN_BASE, AddressSpace} \subseteq Nat \ {0}
  /\ 4 * KERN_BASE = 3 * AddressSpace
  /\ KERN_BASE + MemSize <= AddressSpace
  /\ \A n \in {MemSize, KERN_BASE, AddressSpace} : n % PAGESIZE = 0
  /\ Sizes \subseteq 1 .. MemSize

Mapped   == KERN_BASE .. KERN_BASE + MemSize - 1
Physical == {p \in 0 .. MemSize - 1 : p % PAGESIZE = 0}
Lengths  == {n \in 1 .. MemSize : n % PAGESIZE = 0}
Run(a, n) == a .. a + n - 1

VARIABLES
  freelist,  \* allocator->freelist
  header,    \* what lies at the beginning of every page
  free,      \* history: the memory that was given to the allocator
  owned,     \*   and the memory that was taken from it
  asked,     \* history: what page_alloc was asked for, if it was the last call,
  answer,    \*   and what it returned
  misused,   \* history: whether page_alloc_free got an address that page_alloc returned
  fault      \* whether an access went to unmapped memory

vars == <<freelist, header, free, owned, asked, answer, misused, fault>>

Init ==
  /\ freelist = NULL
  /\ header \in [{a \in Mapped : a % PAGESIZE = 0} -> Stray]
  /\ free = {}
  /\ owned = {}
  /\ asked = 0
  /\ answer = NULL
  /\ misused = FALSE
  /\ fault = FALSE

-----------------------------------------------------------------------------
\* The regions of the list, as the links say; no more than there is room for.
Regions ==
  LET follow[n \in 0 .. MemSize] ==
        IF n = 0 THEN IF freelist = NULL THEN <<>> ELSE <<freelist>>
        ELSE LET s == follow[n - 1] IN
             IF s = <<>> THEN s
             ELSE IF header[s[Len(s)]].next = NULL THEN s
             ELSE Append(s, header[s[Len(s)]].next)
  IN  follow[MemSize \div PAGESIZE]

End(r) == r + header[r].len

\* *rp = r, where rp is the pointer that leads to the k-th region.
SetLink(regions, k, r, h) ==
  IF k = 1
  THEN freelist' = r /\ header' = h
  ELSE freelist' = freelist /\ header' = [h EXCEPT ![regions[k - 1]].next = r]

\* Where the loop of page_alloc_init_region stops for a region from p to pend:
\* at a neighbour of it, or at the first region behind it.
Neighbour(r, p, pend) == End(r) = p \/ pend = r

Place(regions, p, pend) ==
  Min({Len(regions) + 1} \cup
      {k \in 1 .. Len(regions) : regions[k] > pend \/ Neighbour(regions[k], p, pend)})

\* mutant: what follows the enlarged region is not looked at.
GrowOnly(r, len, pend) == [header EXCEPT ![r].len = @ + len]

\* r before p: r takes p in, and what follows r when it touches now.
Grow(r, len, pend) ==
  LET n == header[r].next IN
  IF n # NULL /\ n = pend
  THEN [header EXCEPT ![r] = [next |-> header[n].next, len |-> @.len + len + header[n].len]]
  ELSE [header EXCEPT ![r].len = @ + len]

\* mutant: the address is used as it was passed.
AsPassed(start) == start

\* region_start += KERN_BASE
Virtual(start) == (start + KERN_BASE) % AddressSpace

\* page_alloc_init_region, which page_alloc_free is too: start is a physical
\* address; the header of the region is written where it is mapped.
InitRegion(start, len) ==
  LET p       == Virtual(start)
      pend    == p + len
      regions == Regions
      k       == Place(regions, p, pend)
      r       == IF k > Len(regions) THEN NULL ELSE regions[k]
  IN  IF r # NULL /\ End(r) = p
      THEN /\ header' = Grow(r, len, pend)
           /\ UNCHANGED <<freelist, fault>>
      ELSE IF p \notin Mapped
      THEN /\ fault' = TRUE
           /\ UNCHANGED <<freelist, header>>
      ELSE /\ IF r # NULL /\ pend = r
              THEN SetLink(regions, k, p, [header EXCEPT ![p] = [next |-> header[r].next, len |-> len + header[r].len]])
              ELSE SetLink(regions, k, p, [header EXCEPT ![p] = [next |-> r, len |-> len]])
           /\ UNCHANGED fault

\* The history of the last request is kept until the next call.
Forget == asked' = 0 /\ answer' = NULL

\* The machine gives memory that nobody had.
AddMemory(start, len) ==
  /\ ~fault
  /\ Run(start, len) \cap (free \cup owned) = {}
  /\ InitRegion(start, len)
  /\ free' = free \cup Run(start, len)
  /\ Forget
  /\ UNCHANGED <<owned, misused>>

\* page_alloc_free, by an owner who passes the physical address of what it has,
\* or of a part of it.
FreePhysical(start, len) ==
  /\ ~fault
  /\ Run(start, len) \subseteq owned
  /\ InitRegion(start, len)
  /\ free' = free \cup Run(start, len)
  /\ owned' = owned \ Run(start, len)
  /\ Forget
  /\ UNCHANGED misused

\* page_alloc_free, by an owner who passes what page_alloc returned.
FreeReturned(start, len) ==
  /\ ~fault
  /\ Run(start - KERN_BASE, len) \subseteq owned
  /\ InitRegion(start, len)
  /\ misused' = TRUE
  /\ UNCHANGED <<free, owned, asked, answer>>

Fits(r, len) == header[r].len >= len

Unlink(regions, k, r, h) ==
  IF h[r].len = 0 THEN SetLink(regions, k, h[r].next, h) ELSE UNCHANGED freelist /\ header' = h

RoundUp(len) == IF len % PAGESIZE = 0 THEN len ELSE len - (len % PAGESIZE) + PAGESIZE

\* mutant: the front of the region is handed out, where its header lies.
CarveFront(r, len) == r

\* The end of the region is handed out.
Carve(r, len) == r + header[r].len - len

\* page_alloc: the first region that is long enough gives its end away.
Alloc(wanted) ==
  LET len     == RoundUp(wanted)
      regions == Regions
      fitting == {k \in 1 .. Len(regions) : Fits(regions[k], len)}
  IN  /\ ~fault
      /\ asked' = wanted
      /\ IF fitting = {}
         THEN /\ answer' = NULL
              /\ UNCHANGED <<freelist, header, free, owned>>
         ELSE LET k == Min(fitting)
                  r == regions[k]
                  p == Carve(r, len)
              IN  /\ Unlink(regions, k, r, [header EXCEPT ![r].len = @ - len])
                  /\ answer' = p
                  /\ free' = free \ Run(p - KERN_BASE, len)
                  /\ owned' = owned \cup Run(p - KERN_BASE, len)
      /\ UNCHANGED <<misused, fault>>

\* An owner writes into the first bytes of a page that it has.
Use(p, h) ==
  /\ ~fault
  /\ p \in owned
  /\ header' = [header EXCEPT ![p + KERN_BASE] = h]
  /\ UNCHANGED <<freelist, free, owned, asked, answer, misused, fault>>

Next ==
  \/ \E p \in Physical, n \in Lengths :
       /\ p + n <= MemSize
       /\ AddMemory(p, n) \/ FreePhysical(p, n) \/ FreeReturned(p + KERN_BASE, n)
  \/ \E n \in Sizes : Alloc(n)
  \/ \E p \in Physical, h \in Stray : Use(p, h)

Spec == Init /\ [][Next]_vars

\* page_alloc_count_free_pages, which wants a list that is not empty.
CountFreePages ==
  LET regions == Regions
      pages(k) == header[regions[k]].len \div PAGESIZE
  IN  MapThenSumSet(pages, 1 .. Len(regions))

-----------------------------------------------------------------------------
\* The regions of the list are the free memory, none is lost and no header lies
\* where an owner's write would change the list; the list goes up, and between
\* two of its regions is memory that is not free: regions that touch were joined,
\* whatever order they came in (page_alloc.c:32-45), and the pages are counted
\* right.
ListSound ==
  LET regions == Regions IN
  /\ \A k \in 1 .. Len(regions) :
       /\ header[regions[k]].len > 0
       /\ k < Len(regions) => End(regions[k]) < regions[k + 1]
  /\ UNION {Run(r - KERN_BASE, header[r].len) : r \in Range(regions)} = free
  /\ free \cap owned = {}
  /\ CountFreePages * PAGESIZE = Cardinality(free)

\* What page_alloc returns cannot be passed to page_alloc_free: it adds
\* KERN_BASE to the address once more (page_alloc.c:19, 57), which gives one
\* where nothing is mapped; and nothing but that makes the allocator fault.
FaultsOnReturnedOnly == fault = misused

\* The allocator gives runs of free memory to one owner at a time, and refuses
\* a request only when there is no free run of that length.
Promise == INSTANCE FreeRuns WITH
  Address <- 0 .. MemSize - 1, PageSize <- PAGESIZE, Size <- 1 .. MemSize,
  answer <- IF answer = NULL THEN -1 ELSE answer - KERN_BASE, NULL <- -1
GivesRuns == Promise!Spec

=============================================================================
