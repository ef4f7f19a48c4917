------------------------------ MODULE BootMem ------------------------------
(***************************************************************************)
(* Which pages the allocator gets (x86_enter.c, kmain.c, kalloc.c).        *)
(* handle_mmap walks the memory map of the boot loader and leaves the      *)
(* start of one pool and a size; kmain frees the pages of static_pool,     *)
(* builds the kernel's mapping of the first 4 MB, and frees the pages of   *)
(* the other pool through that mapping.  All of it is arithmetic on 32-bit *)
(* words that wrap.  Addresses are words of W values; nothing but their    *)
(* order of size is that of the machine.                                   *)
(***************************************************************************)
EXTENDS Naturals, Sequences

CONSTANTS
  W,             \* 2^32
  PGSIZE,        \* 4096
  KERN_BASE,     \* 3 GB: where physical address 0 is mapped
  OneMiB,        \* where the kernel is loaded, and the end of low memory
  kernel_size,   \* of the image, static_pool included
  static_pool,   \* its virtual address
  StaticSize,    \* and its size
  Window,        \* how much physical memory setup_paging maps, 4 MB
  UserPages,     \* the pages that setup_usercode and create_task take
  Maps           \* the memory maps: sequences of [base, length, type]

ASSUME WordAssumption ==
  /\ {W, PGSIZE, KERN_BASE, OneMiB, kernel_size, static_pool, StaticSize,
      Window, UserPages} \subseteq Nat
  /\ PGSIZE > 0 /\ W % PGSIZE = 0 /\ KERN_BASE % PGSIZE = 0
  /\ OneMiB % PGSIZE = 0 /\ Window % PGSIZE = 0
  /\ Window <= KERN_BASE /\ KERN_BASE + Window < W
\* linker.ld: the image is made of whole pages and contains the pool.
ASSUME ImageAssumption ==
  /\ kernel_size % PGSIZE = 0 /\ static_pool % PGSIZE = 0
  /\ StaticSize % PGSIZE = 0
  /\ KERN_BASE + OneMiB <= static_pool
  /\ static_pool + StaticSize <= KERN_BASE + OneMiB + kernel_size
  /\ OneMiB + kernel_size < Window
\* The tables and the first task fit in the pool; the image is more than half
\* of the window.
ASSUME SizeAssumption ==
  /\ StaticSize >= (UserPages + 1) * PGSIZE
  /\ OneMiB + 2 * kernel_size > Window

NULL  == 0
Word  == 0..W - 1
Page  == {v \in Word \ {NULL} : v % PGSIZE = 0}

VARIABLES
  mmap,             \* the memory map
  i,                \* handle_mmap's entry; later the pages taken
  alloc_pool, free_space, alloc_pool_size,
  pc,               \* where the boot is
  p, vend,          \* freerange's variables
  freelist, next, used, halted, chain   \* those of the allocator

kvars == <<freelist, next, used, halted, chain>>
bvars == <<mmap, i, alloc_pool, free_space, alloc_pool_size, pc, p, vend>>
vars  == <<bvars, kvars>>

K == INSTANCE Kalloc WITH Data <- {}

\* mutant: words that do not wrap.
PlusWide(x, y) == x + y

Plus(x, y)   == (x + y) % W
Minus(x, y)  == (x + W - y) % W
PGROUNDUP(v) == LET u == Plus(v, PGSIZE - 1) IN u - (u % PGSIZE)

Init ==
  /\ mmap \in Maps
  /\ i = 1
  /\ alloc_pool = NULL /\ free_space = 0 /\ alloc_pool_size = 0
  /\ pc = "handle_mmap"
  /\ p = NULL /\ vend = NULL
  /\ freelist = NULL /\ next = [v \in Page |-> NULL] /\ used = {}
  /\ halted = FALSE /\ chain = <<>>

\* The type of an entry: low memory is taken for reserved.
TypeOf(e) ==
  LET sum == Plus(e.base, e.length)
      end == IF sum < e.base THEN W - 1 ELSE sum
  IN e.type + (IF end < OneMiB THEN 1 ELSE 0) + (IF e.base = 0 THEN 1 ELSE 0)

\* What a boot loader reports: the kernel was loaded at the start of a usable
\* region, and no other one that is usable begins below its end; those that are
\* usable come in order; none is at the end of the address space.
ASSUME MapAssumption ==
  \A map \in Maps :
    /\ map \in Seq([base : Word, length : Word, type : Nat \ {0}])
    /\ \A l \in 1..Len(map) : TypeOf(map[l]) = 1 =>
         /\ \/ map[l].base = OneMiB /\ map[l].length >= kernel_size
            \/ map[l].base >= OneMiB + kernel_size
         /\ map[l].base + kernel_size + 2 * PGSIZE <= W
         /\ \A m \in 1..l - 1 : TypeOf(map[m]) = 1 => map[m].base < map[l].base

\* mutant: the pool starts one page after the start of the kernel.
StartInKernel(e) ==
  IF e.base >= OneMiB THEN Plus(e.base, PGSIZE) ELSE e.base

\* Where the pool of an entry starts, and how much it adds: whatever starts at
\* or above the kernel is shortened as if it contained the kernel.
StartOf(e) ==
  IF e.base >= OneMiB THEN Plus(e.base, kernel_size + PGSIZE) ELSE e.base

\* mutant: the length is left as it was.
LengthWhole(e) == e.length

LengthOf(e) ==
  IF e.base >= OneMiB THEN Minus(e.length, kernel_size) ELSE e.length

\* One turn of the loop of handle_mmap.
ReadEntry ==
  /\ pc = "handle_mmap"
  /\ i <= Len(mmap)
  /\ IF TypeOf(mmap[i]) = 1
       THEN /\ alloc_pool' = StartOf(mmap[i])
            /\ free_space' = Plus(free_space, LengthOf(mmap[i]))
       ELSE UNCHANGED <<alloc_pool, free_space>>
  /\ i' = i + 1
  /\ UNCHANGED <<mmap, alloc_pool_size, pc, p, vend, kvars>>

\* freerange is called for size bytes from start on.
CallFreerange(start, size) ==
  /\ p' = PGROUNDUP(start)
  /\ vend' = Plus(start, size)

\* The end of handle_mmap, and kmain as far as the static pool.
EndMap ==
  /\ pc = "handle_mmap"
  /\ i > Len(mmap)
  /\ alloc_pool_size' = Minus(free_space, kernel_size)
  /\ pc' = "static"
  /\ CallFreerange(static_pool, StaticSize)
  /\ UNCHANGED <<mmap, i, alloc_pool, free_space, kvars>>

AnotherPage  == pc \in {"static", "pool"} /\ Plus(p, PGSIZE) <= vend
Reachable(v) == KERN_BASE <= v /\ v < KERN_BASE + Window

\* One turn of freerange's loop.
FreePage ==
  /\ AnotherPage
  /\ Reachable(p)
  /\ K!Kfree(p)
  /\ p' = Plus(p, PGSIZE)
  /\ UNCHANGED <<mmap, i, alloc_pool, free_space, alloc_pool_size, pc, vend>>

\* kfree writes to a page that is not mapped: page_fault prints and halts.
Fault ==
  /\ AnotherPage
  /\ ~Reachable(p)
  /\ pc' = "fault"
  /\ UNCHANGED <<mmap, i, alloc_pool, free_space, alloc_pool_size, p, vend,
                 kvars>>

\* setup_paging takes one page, for the table of the window; then comes the
\* pool of the memory map.
SetupPaging ==
  /\ pc = "static" /\ ~AnotherPage
  /\ \E r \in Page : K!Kalloc(r)
  /\ pc' = "pool"
  /\ CallFreerange(Plus(alloc_pool, KERN_BASE), alloc_pool_size)
  /\ UNCHANGED <<mmap, i, alloc_pool, free_space, alloc_pool_size>>

\* init_tasking.
SetupTasks ==
  /\ pc = "pool" /\ ~AnotherPage
  /\ pc' = "usercode"
  /\ i' = 0
  /\ UNCHANGED <<mmap, alloc_pool, free_space, alloc_pool_size, p, vend, kvars>>

\* setup_usercode and create_task take their pages.  (Where there is none, here
\* and in SetupPaging, kalloc halts; MemoryDecides says that this is never so.)
TakePage ==
  /\ pc = "usercode" /\ i < UserPages
  /\ \E r \in Page : K!Kalloc(r)
  /\ i' = i + 1
  /\ UNCHANGED <<mmap, alloc_pool, free_space, alloc_pool_size, pc, p, vend>>

Idle ==
  /\ pc = "usercode" /\ i = UserPages
  /\ pc' = "idle"
  /\ UNCHANGED <<mmap, i, alloc_pool, free_space, alloc_pool_size, p, vend,
                 kvars>>

Next == \/ ReadEntry \/ EndMap \/ FreePage \/ Fault \/ SetupPaging
        \/ SetupTasks \/ TakePage \/ Idle

Spec == Init /\ [][Next]_vars
\* Nothing else runs, and nothing interrupts.
FairSpec == Spec /\ WF_vars(Next)

-----------------------------------------------------------------------------
Given == K!Members(chain) \cup used

\* Every address and size is a word.
TypeOK ==
  /\ mmap \in Maps
  /\ i \in Nat
  /\ {alloc_pool, free_space, alloc_pool_size, p, vend} \subseteq Word
  /\ pc \in {"handle_mmap", "static", "pool", "usercode", "idle", "fault"}
  /\ K!TypeOK

\* The boot uses the allocator as its callers must: no page is freed that is
\* on the free list already.
UsesAllocator == K!Spec

\* The second pool has no page of the first one, nor the page table that was
\* taken from it in between: a page is given to the allocator once.
GivenOnce ==
  [][\A v \in Page : chain' = <<v>> \o chain => v \notin Given]_vars

\* Of the kernel's image, only static_pool is ever given away.
KernelKept ==
  \A v \in Given :
    \/ v < KERN_BASE + OneMiB \/ v >= KERN_BASE + OneMiB + kernel_size
    \/ v >= static_pool /\ v < static_pool + StaticSize

\* Every page is memory that the map called usable, or static_pool.  (The last
\* page of the window is not: there setup_paging puts the VGA buffer.)
PagesAreMemory ==
  \A v \in Given :
    \/ v >= static_pool /\ v < static_pool + StaticSize
    \/ v = KERN_BASE + Window - PGSIZE
    \/ \E l \in 1..Len(mmap) :
         /\ mmap[l].type = 1
         /\ KERN_BASE + mmap[l].base <= v
         /\ v + PGSIZE <= KERN_BASE + mmap[l].base + mmap[l].length

\* The entries that end up in the pool.
Usable == {l \in 1..Len(mmap) : TypeOf(mmap[l]) = 1}

\* What becomes of a boot with one usable region [OneMiB, top): the pool ends
\* at top + PGSIZE - kernel_size.  Its pages are freed if they are all in the
\* window; none is if the end wraps at 4 GB; otherwise the kernel faults.
Boots(top) ==
  \/ top + PGSIZE < Window + PGSIZE + kernel_size
  \/ top + PGSIZE + KERN_BASE >= W + kernel_size

Outcomes ==
  IF Usable = {} THEN {"idle"}
  ELSE IF \E l \in Usable : Usable = {l} /\ mmap[l].base = OneMiB
    THEN LET l == CHOOSE l \in Usable : TRUE
         IN IF Boots(OneMiB + mmap[l].length) THEN {"idle"} ELSE {"fault"}
    ELSE {"idle", "fault"}

\* Whether the boot reaches the idle loop depends on the size of the memory in
\* that way; without a usable region it does, with several it may not, but it
\* ends in any case.  No boot ends in kalloc for want of memory.
MemoryDecides == <>(pc \in Outcomes)

=============================================================================
