------------------------------- MODULE Paging -------------------------------
(***************************************************************************)
(* The address spaces (boot.s, mmu.c, kmain.c, create_task): the boot      *)
(* table, the kernel's directory, and the user's, a copy of it with three  *)
(* pages of its own.  mmu_map_page sets its local variable table only when *)
(* it makes a new table; otherwise it writes through whatever the slot of  *)
(* that variable on the stack was left with.                               *)
(*                                                                         *)
(* A directory and a table have E entries, 1024 in the machine.  A frame   *)
(* is a page of the first E, those that the kernel maps at KERN_BASE; a    *)
(* virtual page is a pair of indices <<pde, pte>>.  Interrupts are off.    *)
(***************************************************************************)
EXTENDS Naturals, Sequences

CONSTANTS
  E,
  KPDE,                  \* PAGE_DIRECTORY_INDEX(KERN_BASE), 768
  VGA,                   \* the frame of the text buffer, 0xB8
  code, ecode,           \* frames: the first of the code, the one after it
  data, edata,           \* the same of the data
  kernel_page_dir, user_proc_dir, boot_page_directory, boot_page_table1,
  KernelEnd,             \* the frame after the image
  BootSlack,             \* how much more boot.s maps at most, 0xFFFFF bytes
  UserPage,              \* index of the user's first page, 512
  StaticList, Pools      \* the free list of kalloc: the pages of static_pool,
                         \* and those that the memory map may add to it

Index == 0..E - 1
Frame == Index
Self  == E - 1
NONE  == E               \* no frame
Unset == <<E, E>>        \* no virtual page
V     == Index \X Index
Dirs  == {kernel_page_dir, user_proc_dir}
Image == code..KernelEnd - 1
BootTable == {boot_page_directory, boot_page_table1}

\* The image is behind the text buffer and within the window, less its last
\* page; the directories, the boot tables and static_pool are in its .bss.
ASSUME LayoutAssumption ==
  /\ {E, KPDE, VGA, code, ecode, data, edata, KernelEnd, BootSlack, UserPage}
       \subseteq Nat
  /\ E > 1 /\ KPDE # 0 /\ KPDE < Self /\ UserPage + 2 < Self
  /\ VGA < code /\ code < ecode /\ ecode <= data /\ data < edata
  /\ edata <= KernelEnd /\ KernelEnd <= Self
  /\ Dirs \cup BootTable \subseteq edata..KernelEnd - 1
  /\ kernel_page_dir # user_proc_dir
  /\ boot_page_directory # boot_page_table1
  /\ Dirs \cap BootTable = {}
\* The pages of the memory map lie behind the image, and none is there twice
\* (KernelKept and GivenOnce of BootMem).  kfree puts each before the ones that
\* were freed earlier, in the order of their addresses: the last page of the
\* window, which is free when the memory ends in it, is the first of the list.
ASSUME PoolAssumption ==
  /\ StaticList # <<>>
  /\ StaticList \in Seq((edata..KernelEnd - 1) \ (Dirs \cup BootTable))
  /\ \A x, y \in 1..Len(StaticList) : StaticList[x] = StaticList[y] => x = y
  /\ \A pool \in Pools :
       /\ pool \in Seq(KernelEnd..Self)
       /\ \A x, y \in 1..Len(pool) : pool[x] = pool[y] => x = y
       /\ \A x \in 2..Len(pool) : pool[x] # Self
\* What create_task writes by mistake falls on entries that nothing uses: its
\* two stacks, the fifth and sixth page taken after the pool was freed, have
\* not the numbers of the entries in use.
ASSUME FreeListAssumption ==
  \A pool \in Pools :
    LET c == pool \o Tail(StaticList) IN
    /\ c \in Seq(Frame) /\ Len(c) >= 7
    /\ {c[5], c[6]} \cap ({0, KPDE} \cup UserPage..UserPage + 2) = {}

\* An entry: present, the frame, writable, user.
Entry(f, w, u) == [p |-> TRUE, f |-> f, w |-> w, u |-> u]
Absent(w, u)   == [p |-> FALSE, f |-> 0, w |-> w, u |-> u]
Zeroed         == [x \in Index |-> Absent(FALSE, FALSE)]
Garbage        == [x \in Index |-> Entry(0, TRUE, TRUE)]

VARIABLES
  pc,        \* where the boot is
  n,         \* its loops
  mem,       \* what the frames hold, as directories and tables
  cr3,       \* the directory in use; NONE: paging is off
  slot,      \* the virtual page that table points to, or Unset: unknown
  chain,     \* the free list of kalloc
  stray,     \* the word that create_task takes for a directory entry
  got,       \* the pages that setup_usercode and create_task took
  tcb_cr3,   \* regs.cr3 of the task
  asked      \* history: what mmu_map_page was asked for, by directory

vars == <<pc, n, mem, cr3, slot, chain, stray, got, tcb_cr3, asked>>

Init ==
  /\ pc = "boot" /\ n = 0
  /\ mem = [f \in Frame |-> IF f < KernelEnd THEN Zeroed ELSE Garbage]
  /\ cr3 = NONE
  /\ slot = Unset
  /\ chain = StaticList
  /\ stray \in {Absent(FALSE, FALSE), Entry(VGA, TRUE, TRUE)}
  /\ got = <<>>
  /\ tcb_cr3 = NONE
  /\ asked = [d \in Dirs |-> <<>>]

-----------------------------------------------------------------------------
(* The processor.                                                           *)

\* The frame of a virtual page in the directory d.
Walk(d, v) ==
  LET e == mem[d][v[1]] IN
  IF e.p /\ mem[e.f][v[2]].p THEN mem[e.f][v[2]].f ELSE NONE

Rights(d, v) == LET e == mem[d][v[1]]
                    t == mem[e.f][v[2]]
                IN [w |-> e.w /\ t.w, u |-> e.u /\ t.u]

\* The page of the kernel's window for a frame, and what the window shows there:
\* its last page is the text buffer's.
High(f)  == <<KPDE, f>>
Shown(f) == IF f = Self THEN VGA ELSE f

-----------------------------------------------------------------------------
(* boot.s.                                                                  *)

\* The boot table, used for the low addresses and for the kernel's.
BootTables ==
  /\ pc = "boot"
  /\ mem' = [mem EXCEPT
       ![boot_page_table1] = [x \in Index |->
          IF x = Self THEN Entry(VGA, TRUE, FALSE)
          ELSE IF x < KernelEnd + BootSlack THEN Entry(x, TRUE, FALSE)
          ELSE Absent(FALSE, FALSE)],
       ![boot_page_directory] = [x \in Index |->
          IF x \in {0, KPDE} THEN Entry(boot_page_table1, TRUE, FALSE)
          ELSE Absent(FALSE, FALSE)]]
  /\ pc' = "enable"
  /\ UNCHANGED <<n, cr3, slot, chain, stray, got, tcb_cr3, asked>>

\* Paging is on; the next instruction is at a low address.
EnablePaging ==
  /\ pc = "enable"
  /\ cr3' = boot_page_directory
  /\ pc' = "low"
  /\ UNCHANGED <<n, mem, slot, chain, stray, got, tcb_cr3, asked>>

\* The jump to the high address of label 4, and the low mapping goes.
JumpHigh ==
  /\ pc = "low"
  /\ pc' = "high"
  /\ UNCHANGED <<n, mem, cr3, slot, chain, stray, got, tcb_cr3, asked>>

UnmapLow ==
  /\ pc = "high"
  /\ mem' = [mem EXCEPT ![boot_page_directory][0] = Absent(FALSE, FALSE)]
  /\ pc' = "clear"
  /\ UNCHANGED <<n, cr3, slot, chain, stray, got, tcb_cr3, asked>>

-----------------------------------------------------------------------------
(* mmu.c.                                                                   *)

\* clear_page_table
NewTable(r) == [x \in Index |-> Absent(TRUE, FALSE)]

\* mutant: every call makes a table.
TablePresentNever(e) == FALSE

TablePresent(e) == e.p

\* The bits of an address that an entry takes for WRITABLE and USER.
Low(x)  == [w |-> (x \div 2) % 2 = 1, u |-> (x \div 4) % 2 = 1]
Aligned == Low(0)

\* mmu_map_page(d, phys_addr, v, flags) when phys_addr is the frame f and the
\* bits low, which are ORed in like the flags, free is the list of free pages
\* and table what the stack slot holds.
mmu_map_page(d, f, low, v, flags, free, table) ==
  LET pte  == Entry(f, flags.w \/ low.w, flags.u \/ low.u)
      wish == Entry(f, flags.w, flags.u)
      r    == Head(free)
  IN
  /\ IF TablePresent(mem[d][v[1]])
       THEN /\ mem' = [mem EXCEPT ![Walk(cr3, table)][v[2]] = pte]
            /\ chain' = free
            /\ slot' = table
       ELSE /\ mem' = [mem EXCEPT ![r] = [NewTable(r) EXCEPT ![v[2]] = pte],
                                  ![d][v[1]] = Entry(r, TRUE, TRUE)]
            /\ chain' = Tail(free)
            /\ slot' = High(r)
  /\ asked' = [asked EXCEPT ![d] =
       [u \in DOMAIN asked[d] \cup {v} |-> IF u = v THEN wish ELSE asked[d][u]]]

KernelRW == [w |-> TRUE,  u |-> FALSE]
KernelRO == [w |-> FALSE, u |-> FALSE]
UserRW   == [w |-> TRUE,  u |-> TRUE]
UserRO   == [w |-> FALSE, u |-> TRUE]

\* V2P reads the table through the last entry of the directory in use.
V2P(v) == mem[Walk(cr3, <<Self, v[1]>>)][v[2]].f

\* At -O0 the slot keeps its value from one call of mmu_map_page to the next
\* one in the same function, kalloc does not touch it, and V2P's own pd lies in
\* the same place.
AfterV2P == <<Self, Self>>

-----------------------------------------------------------------------------
(* setup_paging.                                                            *)

\* clear_page_directory: the last entry shows the directory itself.
ClearDirectory ==
  /\ pc = "clear"
  /\ mem' = [mem EXCEPT ![kernel_page_dir] = [x \in Index |->
       IF x = Self THEN Entry(kernel_page_dir, TRUE, TRUE)
                   ELSE Absent(TRUE, TRUE)]]
  /\ pc' = "window" /\ n' = 0
  /\ UNCHANGED <<cr3, slot, chain, stray, got, tcb_cr3, asked>>

\* A loop over the frames up to last, from an address with the bits low, and
\* what comes after it.
MapFrames(at, last, low, flags, after, start) ==
  /\ pc = at
  /\ mmu_map_page(kernel_page_dir, n, low, High(n), flags, chain, slot)
  /\ IF n + 1 < last THEN pc' = at    /\ n' = n + 1
                     ELSE pc' = after /\ n' = start
  /\ UNCHANGED <<cr3, stray, got, tcb_cr3>>

\* mutant: only the image is mapped.
MapWindowImage == MapFrames("window", KernelEnd, Aligned, KernelRW, "code", code)
MapWindow == MapFrames("window", E, Aligned, KernelRW, "code", code)

\* The symbol code is behind the three words of the multiboot header, and the
\* loop passes the addresses as they are: 12 looks like USER (and like a flag
\* of the cache).
CodeOffset == 12

\* mutant: the code is mapped like the rest.
MapCodeWritable == MapFrames("code", ecode, Low(CodeOffset), KernelRW, "data", data)
MapCode   == MapFrames("code", ecode, Low(CodeOffset), KernelRO, "data", data)
\* mutant: the directory is loaded before it is complete.
MapDataAndLoad ==
  /\ pc = "data"
  /\ mmu_map_page(kernel_page_dir, n, Aligned, High(n), KernelRW, chain, slot)
  /\ IF n + 1 < edata THEN pc' = pc    /\ n' = n + 1
                      ELSE pc' = "vga" /\ n' = 0
  /\ cr3' = kernel_page_dir
  /\ UNCHANGED <<stray, got, tcb_cr3>>
MapData   == MapFrames("data", edata, Aligned, KernelRW, "vga", 0)

MapVga ==
  /\ pc = "vga"
  /\ mmu_map_page(kernel_page_dir, VGA, Aligned, High(Self), UserRW, chain, slot)
  /\ pc' = "load"
  /\ UNCHANGED <<n, cr3, stray, got, tcb_cr3>>

LoadKernelDirectory ==
  /\ pc = "load"
  /\ cr3' = kernel_page_dir
  /\ pc' = "pool"
  /\ UNCHANGED <<n, mem, slot, chain, stray, got, tcb_cr3, asked>>

\* kmain frees the pages that the memory map has, if any.
FreePool ==
  /\ pc = "pool"
  /\ \E pool \in Pools : chain' = pool \o chain
  /\ pc' = "copy"
  /\ UNCHANGED <<n, mem, cr3, slot, stray, got, tcb_cr3, asked>>

-----------------------------------------------------------------------------
(* setup_usercode and create_task.                                          *)

\* memcpy of the directory, and the page that the code is copied into.
CopyDirectory ==
  /\ pc = "copy"
  /\ mem' = [mem EXCEPT ![user_proc_dir] = mem[kernel_page_dir]]
  /\ asked' = [asked EXCEPT ![user_proc_dir] = asked[kernel_page_dir]]
  /\ got' = <<Head(chain)>>
  /\ chain' = Tail(chain)
  /\ slot' = Unset
  /\ pc' = "usercode"
  /\ UNCHANGED <<n, cr3, stray, tcb_cr3>>

MapUserCode ==
  /\ pc = "usercode"
  /\ mmu_map_page(user_proc_dir, V2P(High(got[1])), Aligned, <<0, UserPage>>,
                  UserRO, chain, AfterV2P)
  /\ pc' = "stack" /\ n' = 1
  /\ UNCHANGED <<cr3, stray, got, tcb_cr3>>

\* mutant: the second page of the stack is mapped over the first.
MapUserStackTwice ==
  /\ pc = "stack"
  /\ mmu_map_page(user_proc_dir, Head(chain), Aligned, <<0, UserPage + 1>>,
                  UserRW, Tail(chain), slot)
  /\ got' = Append(got, Head(chain))
  /\ IF n = 1 THEN pc' = pc /\ n' = 2 ELSE pc' = "create_task" /\ n' = n
  /\ UNCHANGED <<cr3, stray, tcb_cr3>>

\* The two pages of the user's stack; EARLY_V2P of what kalloc gives.
MapUserStack ==
  /\ pc = "stack"
  /\ mmu_map_page(user_proc_dir, Head(chain), Aligned, <<0, UserPage + n>>,
                  UserRW, Tail(chain), slot)
  /\ got' = Append(got, Head(chain))
  /\ IF n = 1 THEN pc' = pc /\ n' = 2 ELSE pc' = "create_task" /\ n' = n
  /\ UNCHANGED <<cr3, stray, tcb_cr3>>

\* create_task is given the directory's physical address and takes its two
\* stacks.
CreateTask ==
  /\ pc = "create_task"
  /\ tcb_cr3' = V2P(High(user_proc_dir))
  /\ got' = got \o SubSeq(chain, 1, 2)
  /\ chain' = SubSeq(chain, 3, Len(chain))
  /\ slot' = Unset
  /\ pc' = "stray" /\ n' = 4
  /\ UNCHANGED <<mem, cr3, stray, asked>>

\* mmu_map_page(&pagedir, ...) for each of the stacks: the directory is the
\* caller's stack frame and what comes after it, where an entry may happen to
\* look present or not.
MapStray ==
  /\ pc = "stray"
  /\ LET f   == V2P(High(got[n]))
         pte == Entry(f, TRUE, n = 4)
     IN IF stray.p
          THEN /\ mem' = [mem EXCEPT ![Walk(cr3, AfterV2P)][got[n]] = pte]
               /\ slot' = AfterV2P
               /\ UNCHANGED <<chain, stray>>
          ELSE LET r == Head(chain) IN
               /\ mem' = [mem EXCEPT
                    ![r] = [NewTable(r) EXCEPT ![got[n]] = pte]]
               /\ stray' = Entry(r, TRUE, TRUE)
               /\ slot' = High(r)
               /\ chain' = Tail(chain)
  /\ IF n = 4 THEN pc' = pc /\ n' = 5 ELSE pc' = "yield" /\ n' = n
  /\ UNCHANGED <<cr3, got, tcb_cr3, asked>>

\* yield loads the directory of the task.
LoadUserDirectory ==
  /\ pc = "yield"
  /\ cr3' = tcb_cr3
  /\ pc' = "user"
  /\ UNCHANGED <<n, mem, slot, chain, stray, got, tcb_cr3, asked>>

Next == \/ BootTables \/ EnablePaging \/ JumpHigh \/ UnmapLow
        \/ ClearDirectory \/ MapWindow \/ MapCode \/ MapData \/ MapVga
        \/ LoadKernelDirectory \/ FreePool \/ CopyDirectory \/ MapUserCode
        \/ MapUserStack \/ CreateTask \/ MapStray \/ LoadUserDirectory

Spec == Init /\ [][Next]_vars

-----------------------------------------------------------------------------
Members(s) == {s[x] : x \in 1..Len(s)}

\* From the instruction that turns paging on, the code that runs is mapped
\* where it runs, and the image and every free page where KERN_BASE says: what
\* boot.s, mmu_map_page, kfree and kalloc write to is what they mean.  The one
\* page that is not there is the window's last, which shows the text buffer:
\* when it is free it is the next one that kalloc gives, to setup_usercode, so
\* that no table and no stack is ever made of it.
KernelReachable ==
  /\ pc = "low" => \A f \in code..ecode - 1 : Walk(cr3, <<0, f>>) = f
  /\ cr3 # NONE => \A f \in Image \cup Members(chain) : Walk(cr3, High(f)) = Shown(f)
  /\ \A x \in 1..Len(chain) : chain[x] = Self => pc = "copy" /\ x = 1

\* In either directory, what mmu_map_page was last asked for is what there is:
\* no call undoes another one's mapping, not even through a table pointer that
\* nobody set.  The kernel's text alone gets a right that nobody asked for, the
\* USER of its unaligned address (mmu.c:40).
MappedAsAsked ==
  \A d \in Dirs : \A v \in DOMAIN asked[d] :
    LET wish == asked[d][v]
        text == ~wish.w /\ \E f \in code..ecode - 1 : v = High(f)
    IN  Walk(d, v) = wish.f /\ Rights(d, v) = [w |-> wish.w, u |-> wish.u \/ text]

\* The task gets pages which nobody else has, and the directory in which they
\* are mapped.  When the memory ends in the window's last page, the page of its
\* code is not memory but the text buffer; no other page is ever that.
UserSpaceOwn ==
  pc \in {"yield", "user"} =>
    LET page == [x \in 1..Len(got) |-> Shown(got[x])] IN
    /\ tcb_cr3 = user_proc_dir
    /\ \A x \in 0..2 : Walk(user_proc_dir, <<0, UserPage + x>>) = page[x + 1]
    /\ \A x, y \in 1..Len(got) : page[x] = page[y] => x = y
    /\ \A x \in 1..Len(got) : page[x] = VGA => x = 1
    /\ \A d \in Dirs : \A v \in DOMAIN asked[d] :
         mem[d][v[1]].f \notin Members(page) \cup Members(chain)
    /\ Members(page) \cap Members(chain) = {}

\* Once the kernel has its own directory, the code cannot be written, the data
\* can.  User code writes no frame but the two of its stack and the text
\* buffer, and reads besides only the page of its code and the kernel's text,
\* which is open to it by mistake (mmu.c:40, linker.ld:13): none of the data,
\* the directories, the tables, the free pages or the task's kernel stack.  (By
\* the flags of clear_page_directory it also reaches the tables in the last
\* entry.)
Protected ==
  cr3 \in Dirs =>
    /\ \A f \in code..ecode - 1 : ~Rights(cr3, High(f)).w
    /\ \A f \in data..edata - 1 : Rights(cr3, High(f)).w
    /\ cr3 = user_proc_dir =>
         \A v \in V : v[1] # Self /\ Walk(cr3, v) # NONE /\ Rights(cr3, v).u =>
           \/ Walk(cr3, v) \in {got[2], got[3], VGA}
           \/ /\ ~Rights(cr3, v).w
              /\ Walk(cr3, v) \in {got[1]} \cup code..ecode - 1

\* mmu_flush_tlb is never called: no entry of the directory in use ever
\* changes once it is present, unless cr3 is loaded with the change, as boot.s
\* does when it takes the low mapping away.
TlbCoherent ==
  [][cr3 # NONE /\ cr3' = cr3 /\ pc # "high" =>
       \A v \in V : v[1] # Self /\ Walk(cr3, v) # NONE =>
         /\ Walk(cr3, v)' = Walk(cr3, v)
         /\ Rights(cr3, v)' = Rights(cr3, v)]_vars

\* mmu.c:12 and MEMLAYOUT:8: the last entry of the directory in use is the
\* directory itself.  (The user's directory has the entry of the kernel's.)
SelfMapShowsDirectory ==
  cr3 \in Dirs => Walk(cr3, <<Self, Self>>) = cr3

=============================================================================
