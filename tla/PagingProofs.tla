---------------------------- MODULE PagingProofs ----------------------------
(***************************************************************************)
(* Proofs about Paging: for directories of any size, any layout of the     *)
(* image, any list of free pages and any pool of the memory map that the   *)
(* assumptions allow.                                                      *)
(***************************************************************************)
EXTENDS Paging, TLAPS, SequenceTheorems

-----------------------------------------------------------------------------
(* The inductive invariant.                                                 *)

T0        == StaticList[1]
FreeLists == {pool \o Tail(StaticList) : pool \in Pools}
From(s, k) == SubSeq(s, k, Len(s))

PTE == [p : BOOLEAN, f : Frame, w : BOOLEAN, u : BOOLEAN]

BootPlaces == {"low", "high", "clear", "window", "code", "data", "vga", "load"}
KernPlaces == {"pool", "copy", "usercode", "stack", "create_task", "stray", "yield"}
Mapping    == {"window", "code", "data", "vga"}
Early      == {"boot", "enable", "low", "high", "clear"}
Copied     == {"usercode", "stack", "create_task", "stray", "yield", "user"}

Typing ==
  /\ pc \in {"boot", "enable", "user"} \cup BootPlaces \cup KernPlaces
  /\ n \in Nat
  /\ mem \in [Frame -> [Index -> PTE]]
  /\ DOMAIN asked = Dirs

\* The window's table is made by the first call.
HasWindow == pc \notin Early /\ (pc = "window" => n # 0)

Loops ==
  /\ pc = "window" => n \in Index
  /\ pc = "code" => n \in code..ecode - 1
  /\ pc = "data" => n \in data..edata - 1
  /\ pc = "stack" => n \in {1, 2}
  /\ pc = "stray" => n \in {4, 5}

Cr3Inv ==
  /\ pc \in {"boot", "enable"} => cr3 = NONE
  /\ pc \in BootPlaces => cr3 = boot_page_directory
  /\ pc \in KernPlaces => cr3 = kernel_page_dir
  /\ pc = "user" => cr3 = user_proc_dir
  /\ pc \in {"stray", "yield", "user"} => tcb_cr3 = user_proc_dir

BootInv ==
  pc # "boot" =>
    /\ \A x \in Index : mem[boot_page_directory][x].p =>
         x \in {0, KPDE} /\ mem[boot_page_directory][x].f = boot_page_table1
    /\ mem[boot_page_directory][KPDE].p
    /\ pc \in {"enable", "low"} => mem[boot_page_directory][0].p
    /\ \A x \in Index : x < KernelEnd + BootSlack /\ x # Self =>
         mem[boot_page_table1][x].p /\ mem[boot_page_table1][x].f = x

\* A directory's entry for a table.
Leads(d, x, t) ==
  mem[d][x].p /\ mem[d][x].f = t /\ mem[d][x].w /\ mem[d][x].u

KernelDirInv ==
  /\ pc \notin Early => mem[kernel_page_dir][Self].p
                       /\ mem[kernel_page_dir][Self].f = kernel_page_dir
  /\ pc = "window" /\ n = 0 =>
       \A x \in Index : mem[kernel_page_dir][x].p => x = Self
  /\ HasWindow => Leads(kernel_page_dir, KPDE, T0)
  /\ HasWindow /\ pc \notin {"stray", "yield", "user"} =>
       \A x \in Index : mem[kernel_page_dir][x].p => x \in {KPDE, Self}

WindowInv ==
  HasWindow => \A x \in Index :
    /\ mem[T0][x].p <=> (pc = "window" => x < n)
    /\ mem[T0][x].p /\ x # Self => mem[T0][x].f = x
    /\ x = Self /\ pc \notin Mapping => mem[T0][x].f = VGA
    /\ mem[T0][x].p /\ mem[T0][x].u => x = Self \/ x \in code..ecode - 1
    /\ mem[T0][x].p /\ x \in data..edata - 1 => mem[T0][x].w
    /\ x \in code..ecode - 1 /\ pc # "window" /\ (pc = "code" => x < n) =>
         ~mem[T0][x].w

\* The entry is what was asked for, and user code's if more.
Grants(e, wish, more) ==
  e.p /\ e.f = wish.f /\ e.w = wish.w /\ e.u = (wish.u \/ more)

\* The read-only entries of the text, which come out as user code's.
Text(x, wish) == ~wish.w /\ x \in code..ecode - 1

AskedHigh(d) ==
  \A v \in DOMAIN asked[d] : v[1] = KPDE =>
    /\ HasWindow /\ v = High(v[2]) /\ v[2] \in Index
    /\ Grants(mem[T0][v[2]], asked[d][v], Text(v[2], asked[d][v]))

AskedInv ==
  /\ AskedHigh(kernel_page_dir)
  /\ AskedHigh(user_proc_dir)
  /\ \A v \in DOMAIN asked[kernel_page_dir] : v[1] = KPDE
  /\ pc \notin Copied => DOMAIN asked[user_proc_dir] = {}

ListInv ==
  /\ pc \in Early \/ (pc = "window" /\ n = 0) => chain = StaticList
  /\ HasWindow /\ pc \notin Copied \cup {"copy"} => chain = Tail(StaticList)
  /\ HasWindow /\ pc \in {"window", "code", "data", "vga"} => slot = High(T0)

\* The pages that were taken of the list c.
Gets(c, k) ==
  /\ got \in Seq(Frame) /\ Len(got) = k
  /\ \A x \in 1..k : got[x] = IF x = 1 THEN c[1] ELSE c[x + 1]

TakenInv(c) ==
  /\ pc = "copy" => chain = c
  /\ pc = "usercode" => chain = From(c, 2) /\ Gets(c, 1)
  /\ pc = "stack" => chain = From(c, n + 2) /\ Gets(c, n) /\ slot = High(c[2])
  /\ pc = "create_task" => chain = From(c, 5) /\ Gets(c, 3)
  /\ pc = "stray" /\ n = 4 => chain = From(c, 7)
  /\ pc \in {"stray", "yield", "user"} =>
       Gets(c, 5) /\ chain \in {From(c, 7), From(c, 8)}

UserDirInv(c) ==
  pc \in Copied =>
    /\ Leads(user_proc_dir, KPDE, T0)
    /\ pc # "usercode" => Leads(user_proc_dir, 0, c[2])
    /\ \A x \in Index : mem[user_proc_dir][x].p =>
         x \in {KPDE, Self} \/ (x = 0 /\ pc # "usercode")

\* The user's table.
UserTableInv(c) ==
  pc \in Copied \ {"usercode"} =>
    /\ \A x \in Index : mem[c[2]][x].p =>
         x \in UserPage..UserPage + 2 /\ x - UserPage < Len(got)
    /\ \A y \in 0..2 : y < Len(got) =>
         mem[c[2]][UserPage + y].p /\ mem[c[2]][UserPage + y].f = Shown(got[y + 1])
    /\ ~mem[c[2]][UserPage].w

AskedLow(c) ==
  \A v \in DOMAIN asked[user_proc_dir] : v[1] # KPDE =>
    /\ pc # "usercode" /\ v = <<0, v[2]>> /\ v[2] \in Index
    /\ Grants(mem[c[2]][v[2]], asked[user_proc_dir][v], FALSE)

\* What create_task writes into the kernel's directory.
StrayInv(c) ==
  /\ pc = "stray" /\ n = 5 => stray.p
  /\ pc \in {"stray", "yield", "user"} =>
       \A x \in Index : mem[kernel_page_dir][x].p =>
         \/ x \in {KPDE, Self}
         \/ pc = "stray" /\ n = 5 /\ x = c[5] /\ mem[kernel_page_dir][x].f = c[5]
         \/ pc # "stray" /\ x \in {c[5], c[6]}

UserInv ==
  pc \in Copied \cup {"copy"} =>
    \E c \in FreeLists :
      /\ TakenInv(c) /\ UserDirInv(c) /\ UserTableInv(c)
      /\ AskedLow(c) /\ StrayInv(c)

PInv == /\ Typing /\ Loops /\ Cr3Inv /\ BootInv /\ KernelDirInv /\ WindowInv
        /\ AskedInv /\ ListInv /\ UserInv

-----------------------------------------------------------------------------
(* The constants.                                                           *)

\* What the sizes of the machine and of the image give.
LEMMA Layout ==
  /\ E \in Nat /\ E > 1 /\ KPDE \in Nat /\ VGA \in Nat /\ UserPage \in Nat
  /\ code \in Nat /\ ecode \in Nat /\ data \in Nat /\ edata \in Nat
  /\ KernelEnd \in Nat /\ BootSlack \in Nat
  /\ Self = E - 1 /\ Self \in Index /\ 0 \in Index /\ KPDE \in Index /\ VGA \in Index
  /\ KPDE # 0 /\ KPDE # Self /\ Self # 0 /\ VGA # Self
  /\ UserPage \in Index /\ UserPage + 1 \in Index /\ UserPage + 2 \in Index
  /\ VGA < code /\ code < ecode /\ ecode <= data /\ data < edata
  /\ edata <= KernelEnd /\ KernelEnd <= Self
  /\ \A x \in Index : x \in Nat /\ x <= Self
  /\ \A x \in Nat : x <= Self => x \in Index
<1>1. /\ E \in Nat /\ KPDE \in Nat /\ VGA \in Nat /\ UserPage \in Nat
      /\ code \in Nat /\ ecode \in Nat /\ data \in Nat /\ edata \in Nat
      /\ KernelEnd \in Nat /\ BootSlack \in Nat
  BY LayoutAssumption
<1>2. QED
  BY <1>1, LayoutAssumption DEF Index, Self

\* The frames of the tables, all in the image and all different.
LEMMA Tables ==
  /\ kernel_page_dir \in Frame /\ user_proc_dir \in Frame
  /\ boot_page_directory \in Frame /\ boot_page_table1 \in Frame
  /\ kernel_page_dir < KernelEnd /\ user_proc_dir < KernelEnd
  /\ boot_page_directory < KernelEnd /\ boot_page_table1 < KernelEnd
  /\ kernel_page_dir # user_proc_dir /\ boot_page_directory # boot_page_table1
  /\ boot_page_directory # kernel_page_dir /\ boot_page_directory # user_proc_dir
  /\ boot_page_table1 # kernel_page_dir /\ boot_page_table1 # user_proc_dir
  /\ T0 \in Frame /\ T0 < KernelEnd /\ T0 # VGA
  /\ T0 \notin {kernel_page_dir, user_proc_dir, boot_page_directory, boot_page_table1}
<1>1. \A x \in edata..KernelEnd - 1 : x \in Frame /\ x < KernelEnd /\ x # VGA
  BY Layout DEF Frame
<1>2. Dirs \cup BootTable \subseteq edata..KernelEnd - 1
  BY LayoutAssumption
<1>3. T0 \in (edata..KernelEnd - 1) \ (Dirs \cup BootTable)
  <2>1. ASSUME NEW S, NEW s \in Seq(S), s # <<>> PROVE s[1] \in S
    BY <2>1
  <2>2. QED
    BY <2>1, PoolAssumption DEF T0
<1>4. QED
  BY <1>1, <1>2, <1>3, LayoutAssumption DEF Dirs, BootTable

\* The free list after the pool was freed: different pages, and none of them a
\* table or the text buffer; only the first may be the window's last page.
LEMMA Lists ==
  ASSUME NEW c \in FreeLists
  PROVE  /\ c \in Seq(Frame) /\ Len(c) \in Nat /\ Len(c) >= 7
         /\ \A x \in 1..Len(c) :
              /\ c[x] \in Frame /\ c[x] # VGA /\ (x # 1 => c[x] # Self)
              /\ c[x] \notin {kernel_page_dir, user_proc_dir, boot_page_directory,
                              boot_page_table1, T0}
         /\ \A x, y \in 1..Len(c) : c[x] = c[y] => x = y
         /\ c[5] \notin {0, KPDE} /\ c[6] \notin {0, KPDE}
         /\ c[5] \notin UserPage..UserPage + 2 /\ c[6] \notin UserPage..UserPage + 2
<1>1. PICK pool \in Pools : c = pool \o Tail(StaticList)
  BY DEF FreeLists
<1>2. PICK S : S = (edata..KernelEnd - 1) \ (Dirs \cup BootTable)
  OBVIOUS
<1>3. PICK P : P = KernelEnd..Self
  OBVIOUS
<1>4. /\ StaticList # <<>> /\ StaticList \in Seq(S) /\ pool \in Seq(P)
      /\ \A x, y \in 1..Len(StaticList) : StaticList[x] = StaticList[y] => x = y
      /\ \A x, y \in 1..Len(pool) : pool[x] = pool[y] => x = y
      /\ \A x \in 2..Len(pool) : pool[x] # Self
  BY <1>2, <1>3, PoolAssumption
<1>5. PICK t : t = Tail(StaticList)
  OBVIOUS
<1>6. /\ Len(t) \in Nat /\ Len(StaticList) = Len(t) + 1 /\ t \in Seq(S)
      /\ \A x \in 1..Len(t) : t[x] = StaticList[x + 1]
  BY <1>4, <1>5
<1>7. \A x \in 1..Len(t) : t[x] \in S /\ t[x] # T0
  <2>1. SUFFICES ASSUME NEW x \in 1..Len(t) PROVE t[x] \in S /\ t[x] # T0
    OBVIOUS
  <2>2. x + 1 \in 1..Len(StaticList) /\ 1 \in 1..Len(StaticList) /\ x + 1 # 1
    BY <1>6
  <2>3. StaticList[x + 1] # StaticList[1]
    BY <1>4, <2>2
  <2>4. QED
    BY <1>6, <2>3 DEF T0
<1>8. \A x, y \in 1..Len(t) : t[x] = t[y] => x = y
  <2>1. SUFFICES ASSUME NEW x \in 1..Len(t), NEW y \in 1..Len(t), t[x] = t[y]
                 PROVE  x = y
    OBVIOUS
  <2>2. x + 1 \in 1..Len(StaticList) /\ y + 1 \in 1..Len(StaticList)
    BY <1>6
  <2>3. x + 1 = y + 1
    BY <1>4, <1>6, <2>1, <2>2
  <2>4. QED
    BY <2>3
<1>9. /\ \A x \in S : /\ x \in Nat /\ x < KernelEnd /\ x \in Frame /\ x # Self
                     /\ x # VGA
                     /\ x \notin {kernel_page_dir, user_proc_dir,
                                  boot_page_directory, boot_page_table1}
      /\ \A x \in P : x \in Nat /\ x >= KernelEnd /\ x \in Frame /\ x # VGA
  BY <1>2, <1>3, Layout DEF Frame, Dirs, BootTable
<1>10. /\ Len(c) = Len(pool) + Len(t) /\ Len(pool) \in Nat
       /\ \A x \in 1..Len(pool) : c[x] = pool[x] /\ c[x] \in P
       /\ \A x \in 1..Len(c) : x > Len(pool) =>
            x - Len(pool) \in 1..Len(t) /\ c[x] = t[x - Len(pool)]
  BY <1>1, <1>4, <1>5, <1>6
<1>11. \A x \in 1..Len(c) :
         /\ x <= Len(pool) => /\ x \in 1..Len(pool) /\ c[x] \in P
                              /\ x # 1 => c[x] # Self
         /\ x > Len(pool) => c[x] \in S /\ c[x] # T0
  BY <1>4, <1>7, <1>10
<1>12. \A x \in 1..Len(c) :
         /\ c[x] \in Frame /\ c[x] # VGA /\ (x # 1 => c[x] # Self)
         /\ c[x] \notin {kernel_page_dir, user_proc_dir, boot_page_directory,
                         boot_page_table1, T0}
  <2>1. SUFFICES ASSUME NEW x \in 1..Len(c)
                 PROVE  /\ c[x] \in Frame /\ c[x] # VGA /\ (x # 1 => c[x] # Self)
                        /\ c[x] \notin {kernel_page_dir, user_proc_dir,
                                        boot_page_directory, boot_page_table1, T0}
    OBVIOUS
  <2>2. CASE x <= Len(pool)
    BY <1>9, <1>11, <2>2, Tables, Layout, SMTT(30) DEF Frame
  <2>3. CASE x > Len(pool)
    BY <1>9, <1>11, <2>3
  <2>4. QED
    BY <1>10, <2>2, <2>3
<1>13. \A x, y \in 1..Len(c) : c[x] = c[y] => x = y
  <2>1. SUFFICES ASSUME NEW x \in 1..Len(c), NEW y \in 1..Len(c), c[x] = c[y]
                 PROVE  x = y
    OBVIOUS
  <2>2. CASE x <= Len(pool) /\ y <= Len(pool)
    BY <1>4, <1>10, <1>11, <2>1, <2>2
  <2>3. CASE x > Len(pool) /\ y > Len(pool)
    <3>1. x - Len(pool) = y - Len(pool)
      BY <1>8, <1>10, <2>1, <2>3
    <3>2. QED
      BY <1>10, <3>1
  <2>7. \A a \in P, b \in S : a # b
    BY <1>9, Layout
  <2>4. CASE x <= Len(pool) /\ y > Len(pool)
    <3>1. c[x] \in P /\ c[y] \in S
      BY <1>11, <2>4
    <3>2. QED
      BY <2>1, <2>7, <3>1
  <2>5. CASE x > Len(pool) /\ y <= Len(pool)
    <3>1. c[x] \in S /\ c[y] \in P
      BY <1>11, <2>5
    <3>2. QED
      BY <2>1, <2>7, <3>1
  <2>6. QED
    BY <1>10, <2>2, <2>3, <2>4, <2>5
<1>14. c \in Seq(Frame) /\ Len(c) \in Nat
  <2>1. /\ \A x \in S : x \in Frame
        /\ \A x \in P : x \in Frame
    BY <1>9
  <2>2. t \in Seq(Frame) /\ pool \in Seq(Frame)
    BY <1>4, <1>6, <2>1
  <2>3. QED
    BY <1>1, <1>5, <2>2
<1>15. /\ Len(c) >= 7
       /\ {c[5], c[6]} \cap ({0, KPDE} \cup UserPage..UserPage + 2) = {}
  BY <1>1, FreeListAssumption
<1>16. QED
  BY <1>12, <1>13, <1>14, <1>15

-----------------------------------------------------------------------------
(* Entries, tables and what the frames hold.                                *)

\* The fields of an entry.
LEMMA EntryIs ==
  ASSUME NEW f \in Frame, NEW w \in BOOLEAN, NEW u \in BOOLEAN
  PROVE  /\ Entry(f, w, u) \in PTE
         /\ Entry(f, w, u).p
         /\ Entry(f, w, u).f = f
         /\ Entry(f, w, u).w = w
         /\ Entry(f, w, u).u = u
BY DEF Entry, PTE

\* Entries as the boot writes them.
Seen(f)   == Entry(f, TRUE, FALSE)
Shared(f) == Entry(f, TRUE, TRUE)
Nothing   == Absent(FALSE, FALSE)
Vacant    == Absent(TRUE, TRUE)

\* The entries that the boot writes have them.
LEMMA EntriesAre ==
  /\ \A f \in Frame : /\ Seen(f) \in PTE /\ Seen(f).p /\ Seen(f).f = f
                     /\ Shared(f) \in PTE /\ Shared(f).p /\ Shared(f).f = f
                     /\ Shared(f).w /\ Shared(f).u
  /\ Nothing \in PTE /\ ~Nothing.p /\ Vacant \in PTE /\ ~Vacant.p
BY Layout DEF Seen, Shared, Nothing, Vacant, Entry, Absent, PTE, Frame

\* An entry that is not present.
LEMMA AbsentIs ==
  ASSUME NEW w \in BOOLEAN, NEW u \in BOOLEAN
  PROVE  Absent(w, u) \in PTE /\ ~Absent(w, u).p
BY Layout DEF Absent, PTE, Frame

Memory == [Frame -> [Index -> PTE]]

\* What a step makes of the memory.
Keeps(S) == \A a \in Frame, b \in Index : a \notin S => mem'[a][b] = mem[a][b]
CellBecomes(m2, m, a, i, e) == m2 = [m EXCEPT ![a][i] = e]
TableBecomes(m2, m, a, t)   == m2 = [m EXCEPT ![a] = t]
TableAdded(m2, m, r, i, e, d, j, g) ==
  m2 = [m EXCEPT ![r] = [NewTable(r) EXCEPT ![i] = e], ![d][j] = g]

\* One entry is written and no other.
LEMMA CellWritten ==
  ASSUME NEW m \in Memory, NEW a \in Frame, NEW i \in Index, NEW e \in PTE,
         NEW m2, CellBecomes(m2, m, a, i, e)
  PROVE  /\ m2 \in Memory /\ m2[a][i] = e
         /\ \A x \in Frame, y \in Index : x # a \/ y # i => m2[x][y] = m[x][y]
BY DEF Memory, CellBecomes

\* One frame is written and no other.
LEMMA TableWritten ==
  ASSUME NEW m \in Memory, NEW a \in Frame, NEW t \in [Index -> PTE],
         NEW m2, TableBecomes(m2, m, a, t)
  PROVE  /\ m2 \in Memory /\ m2[a] = t
         /\ \A x \in Frame : x # a => m2[x] = m[x]
BY DEF Memory, TableBecomes

\* A new table r with an entry e, in the entry j of the directory d.
LEMMA TableMade ==
  ASSUME NEW m \in Memory, NEW r \in Frame, NEW d \in Frame, r # d,
         NEW i \in Index, NEW j \in Index, NEW e \in PTE, NEW g \in PTE,
         NEW m2, TableAdded(m2, m, r, i, e, d, j, g)
  PROVE  /\ m2 \in Memory /\ m2[r][i] = e /\ m2[d][j] = g
         /\ \A y \in Index : y # i => ~m2[r][y].p
         /\ \A y \in Index : y # j => m2[d][y] = m[d][y]
         /\ \A x \in Frame : x \notin {r, d} => m2[x] = m[x]
<1>1. NewTable(r) \in [Index -> PTE] /\ \A y \in Index : ~NewTable(r)[y].p
  BY AbsentIs DEF NewTable
<1>2. PICK t : t = [NewTable(r) EXCEPT ![i] = e]
  OBVIOUS
<1>3. t \in [Index -> PTE] /\ t[i] = e /\ \A y \in Index : y # i => ~t[y].p
  BY <1>1, <1>2
<1>4. PICK m1 : m1 = [m EXCEPT ![r] = t]
  OBVIOUS
<1>5. m1 \in Memory /\ m1[r] = t /\ \A x \in Frame : x # r => m1[x] = m[x]
  BY <1>3, <1>4 DEF Memory
<1>6. m2 = [m1 EXCEPT ![d][j] = g]
  BY <1>2, <1>4 DEF TableAdded
<1>7. /\ m2 \in Memory /\ m2[d][j] = g
      /\ \A y \in Index : y # j => m2[d][y] = m[d][y]
      /\ \A x \in Frame : x # d => m2[x] = m1[x]
  <2>1. PICK h : h = [m1[d] EXCEPT ![j] = g]
    OBVIOUS
  <2>2. m2 = [m1 EXCEPT ![d] = h]
    BY <1>6, <2>1
  <2>3. m1[d] = m[d] /\ m1[d] \in [Index -> PTE]
    BY <1>5 DEF Memory
  <2>4. h \in [Index -> PTE] /\ h[j] = g /\ \A y \in Index : y # j => h[y] = m[d][y]
    BY <2>1, <2>3
  <2>5. QED
    BY <1>5, <2>2, <2>4 DEF Memory
<1>8. m2[r] = t
  BY <1>5, <1>7
<1>9. QED
  BY <1>3, <1>5, <1>7, <1>8

\* What the processor finds where both entries are present.
LEMMA WalkIs ==
  ASSUME NEW d, NEW x, NEW y, mem[d][x].p, mem[mem[d][x].f][y].p
  PROVE  /\ Walk(d, <<x, y>>) = mem[mem[d][x].f][y].f
         /\ Rights(d, <<x, y>>) =
              [w |-> mem[d][x].w /\ mem[mem[d][x].f][y].w,
               u |-> mem[d][x].u /\ mem[mem[d][x].f][y].u]
BY DEF Walk, Rights

\* The history after a call for the page v of the directory d.
AskedFor(d, v, e) ==
  /\ DOMAIN asked' = Dirs
  /\ DOMAIN asked'[d] = DOMAIN asked[d] \cup {v}
  /\ asked'[d][v] = e
  /\ \A u \in DOMAIN asked[d] : u # v => asked'[d][u] = asked[d][u]
  /\ \A b \in Dirs : b # d => asked'[b] = asked[b]

\* The history of mmu_map_page after a call.
LEMMA AskedIs ==
  ASSUME DOMAIN asked = Dirs, NEW d \in Dirs, NEW v, NEW e,
         asked' = [asked EXCEPT ![d] =
           [u \in DOMAIN asked[d] \cup {v} |-> IF u = v THEN e ELSE asked[d][u]]]
  PROVE  AskedFor(d, v, e)
<1>1. PICK g : g = [u \in DOMAIN asked[d] \cup {v} |->
                      IF u = v THEN e ELSE asked[d][u]]
  OBVIOUS
<1>2. asked' = [asked EXCEPT ![d] = g]
  BY <1>1
<1>3. /\ DOMAIN asked' = Dirs /\ asked'[d] = g
      /\ \A b \in Dirs : b # d => asked'[b] = asked[b]
  BY <1>2
<1>4. /\ DOMAIN g = DOMAIN asked[d] \cup {v} /\ g[v] = e
      /\ \A u \in DOMAIN asked[d] : u # v => g[u] = asked[d][u]
  BY <1>1
<1>5. QED
  BY <1>3, <1>4 DEF AskedFor

\* The rights in the low bits of the addresses that the boot passes.
LEMMA LowIs ==
  /\ Aligned.w = FALSE /\ Aligned.u = FALSE
  /\ Low(CodeOffset).w = FALSE /\ Low(CodeOffset).u = TRUE
<1>1. /\ (0 \div 2) % 2 = 0 /\ (0 \div 4) % 2 = 0
      /\ (12 \div 2) % 2 = 0 /\ (12 \div 4) % 2 = 1
  <2>1. 0 \div 2 = 0 /\ 0 \div 4 = 0 /\ 12 \div 2 = 6 /\ 12 \div 4 = 3
    OBVIOUS
  <2>2. 0 % 2 = 0 /\ 6 % 2 = 0 /\ 3 % 2 = 1
    OBVIOUS
  <2>3. QED
    BY <2>1, <2>2
<1>2. /\ ~((0 \div 2) % 2 = 1) /\ ~((0 \div 4) % 2 = 1)
      /\ ~((12 \div 2) % 2 = 1) /\ (12 \div 4) % 2 = 1
  BY <1>1
<1>3. ASSUME NEW x
      PROVE  /\ Low(x).w = ((x \div 2) % 2 = 1)
             /\ Low(x).u = ((x \div 4) % 2 = 1)
  BY DEF Low
<1>4. QED
  BY <1>2, <1>3 DEF Aligned, CodeOffset

\* What a call asks for, and the entry that it makes of it.
Made(f, low, fl, e, wish) ==
  /\ e \in PTE /\ e.p /\ e.f = f /\ e.w = (fl.w \/ low.w) /\ e.u = (fl.u \/ low.u)
  /\ wish \in PTE /\ wish.f = f /\ wish.w = fl.w /\ wish.u = fl.u

\* The two entries of a call are such.
LEMMA MadeIs ==
  ASSUME NEW f \in Frame, NEW fl, fl.w \in BOOLEAN, fl.u \in BOOLEAN,
         NEW low, low.w \in BOOLEAN, low.u \in BOOLEAN
  PROVE  Made(f, low, fl, Entry(f, fl.w \/ low.w, fl.u \/ low.u), Entry(f, fl.w, fl.u))
<1>1. PICK w, u : w = (fl.w \/ low.w) /\ u = (fl.u \/ low.u)
  OBVIOUS
<1>2. w \in BOOLEAN /\ u \in BOOLEAN
  BY <1>1
<1>3. /\ Entry(f, w, u) \in PTE /\ Entry(f, w, u).p /\ Entry(f, w, u).f = f
      /\ Entry(f, w, u).w = w /\ Entry(f, w, u).u = u
  BY <1>2, EntryIs
<1>4. /\ Entry(f, fl.w, fl.u) \in PTE /\ Entry(f, fl.w, fl.u).f = f
      /\ Entry(f, fl.w, fl.u).w = fl.w /\ Entry(f, fl.w, fl.u).u = fl.u
  BY EntryIs
<1>5. QED
  BY <1>1, <1>3, <1>4 DEF Made

\* A call that finds the table writes to where the pointer leads.
LEMMA MapPresent ==
  ASSUME Typing, NEW d \in Dirs, NEW f \in Frame, NEW x \in Index, NEW y \in Index,
         NEW fl, fl.w \in BOOLEAN, fl.u \in BOOLEAN,
         NEW low, low.w \in BOOLEAN, low.u \in BOOLEAN, NEW free, NEW table,
         NEW t \in Frame, mmu_map_page(d, f, low, <<x, y>>, fl, free, table),
         mem[d][x].p, Walk(cr3, table) = t
  PROVE  \E e, wish \in PTE :
           /\ Made(f, low, fl, e, wish)
           /\ mem' \in Memory /\ mem'[t][y] = e
           /\ \A a \in Frame, b \in Index : a # t \/ b # y => mem'[a][b] = mem[a][b]
           /\ chain' = free /\ slot' = table
           /\ AskedFor(d, <<x, y>>, wish)
<1>1. PICK e, wish : /\ e = Entry(f, fl.w \/ low.w, fl.u \/ low.u)
                    /\ wish = Entry(f, fl.w, fl.u)
  OBVIOUS
<1>2. Made(f, low, fl, e, wish) /\ e \in PTE /\ wish \in PTE
  <2>1. Made(f, low, fl, e, wish)
    BY <1>1, MadeIs
  <2>2. QED
    BY <2>1 DEF Made
<1>3. /\ mem' = [mem EXCEPT ![t][y] = e] /\ chain' = free /\ slot' = table
      /\ asked' = [asked EXCEPT ![d] =
           [u \in DOMAIN asked[d] \cup {<<x, y>>} |->
              IF u = <<x, y>> THEN wish ELSE asked[d][u]]]
  BY <1>1 DEF mmu_map_page, TablePresent
<1>4. PICK v : v = <<x, y>>
  OBVIOUS
<1>5. AskedFor(d, v, wish)
  BY <1>3, <1>4, AskedIs DEF Typing
<1>6. mem \in Memory /\ CellBecomes(mem', mem, t, y, e)
  BY <1>3 DEF Typing, Memory, CellBecomes
<1>7. /\ mem' \in Memory /\ mem'[t][y] = e
      /\ \A a \in Frame, b \in Index : a # t \/ b # y => mem'[a][b] = mem[a][b]
  BY <1>2, <1>6, CellWritten
<1>8. QED
  BY <1>2, <1>3, <1>4, <1>5, <1>7

\* A table is made of the page r, and d leads to it.
MakesTable(d, f, low, x, y, fl, free, r) ==
  \E e, wish \in PTE :
    /\ Made(f, low, fl, e, wish)
    /\ mem' \in Memory /\ mem'[r][y] = e
    /\ \A b \in Index : b # y => ~mem'[r][b].p
    /\ mem'[d][x].p /\ mem'[d][x].f = r /\ mem'[d][x].w /\ mem'[d][x].u
    /\ \A b \in Index : b # x => mem'[d][b] = mem[d][b]
    /\ \A a \in Frame : a \notin {r, d} => mem'[a] = mem[a]
    /\ chain' = Tail(free) /\ slot' = High(r)
    /\ AskedFor(d, <<x, y>>, wish)

\* A call that finds none makes it of the first free page.
LEMMA MapAbsent ==
  ASSUME Typing, NEW d \in Dirs, NEW f \in Frame, NEW x \in Index, NEW y \in Index,
         NEW fl, fl.w \in BOOLEAN, fl.u \in BOOLEAN,
         NEW low, low.w \in BOOLEAN, low.u \in BOOLEAN, NEW free, NEW table,
         mmu_map_page(d, f, low, <<x, y>>, fl, free, table), ~mem[d][x].p,
         NEW r \in Frame, r = Head(free), r # d
  PROVE  MakesTable(d, f, low, x, y, fl, free, r)
<1>1. PICK e, wish, g : /\ e = Entry(f, fl.w \/ low.w, fl.u \/ low.u)
                       /\ wish = Entry(f, fl.w, fl.u)
                       /\ g = Entry(r, TRUE, TRUE)
  OBVIOUS
<1>2. /\ Made(f, low, fl, e, wish) /\ e \in PTE /\ wish \in PTE
      /\ g \in PTE /\ g.p /\ g.f = r /\ g.w /\ g.u
  <2>1. Made(f, low, fl, e, wish) /\ e \in PTE /\ wish \in PTE
    <3>1. Made(f, low, fl, e, wish)
      BY <1>1, MadeIs
    <3>2. QED
      BY <3>1 DEF Made
  <2>2. /\ g \in PTE /\ g.p /\ g.f = r /\ g.w /\ g.u
    BY <1>1 DEF Entry, PTE
  <2>3. QED
    BY <2>1, <2>2
<1>3. /\ mem' = [mem EXCEPT ![r] = [NewTable(r) EXCEPT ![y] = e], ![d][x] = g]
      /\ chain' = Tail(free) /\ slot' = High(r)
      /\ asked' = [asked EXCEPT ![d] =
           [u \in DOMAIN asked[d] \cup {<<x, y>>} |->
              IF u = <<x, y>> THEN wish ELSE asked[d][u]]]
  BY <1>1 DEF mmu_map_page, TablePresent
<1>4. PICK v : v = <<x, y>>
  OBVIOUS
<1>5. AskedFor(d, v, wish)
  BY <1>3, <1>4, AskedIs DEF Typing
<1>6. mem \in Memory /\ d \in Frame /\ TableAdded(mem', mem, r, y, e, d, x, g)
  BY <1>3, Tables DEF Typing, Memory, Dirs, TableAdded
<1>7. /\ mem' \in Memory /\ mem'[r][y] = e /\ mem'[d][x] = g
      /\ \A b \in Index : b # y => ~mem'[r][b].p
      /\ \A b \in Index : b # x => mem'[d][b] = mem[d][b]
      /\ \A a \in Frame : a \notin {r, d} => mem'[a] = mem[a]
  BY <1>2, <1>6, TableMade
<1>8. mem'[d][x].p /\ mem'[d][x].f = r /\ mem'[d][x].w /\ mem'[d][x].u
  BY <1>2, <1>7
<1>9. QED
  BY <1>2, <1>3, <1>4, <1>5, <1>7, <1>8 DEF MakesTable

-----------------------------------------------------------------------------
(* The steps up to the kernel's directory.                                  *)

\* The state in which the loader starts the kernel.
LEMMA InitPInv == Init => PInv
<1> SUFFICES ASSUME Init PROVE PInv
  OBVIOUS
<1>1. /\ pc = "boot" /\ n = 0 /\ cr3 = NONE /\ chain = StaticList
      /\ mem = [f \in Frame |-> IF f < KernelEnd THEN Zeroed ELSE Garbage]
      /\ asked = [d \in Dirs |-> <<>>]
  BY DEF Init
<1>2. Zeroed \in [Index -> PTE] /\ Garbage \in [Index -> PTE]
  <2>1. Absent(FALSE, FALSE) \in PTE /\ Entry(0, TRUE, TRUE) \in PTE
    BY Layout DEF Absent, Entry, PTE, Frame
  <2>2. QED
    BY <2>1 DEF Zeroed, Garbage
<1>3. Typing
  BY <1>1, <1>2 DEF Typing
<1>4. DOMAIN asked[kernel_page_dir] = {} /\ DOMAIN asked[user_proc_dir] = {}
  <2>1. DOMAIN <<>> = {}
    OBVIOUS
  <2>2. QED
    BY <1>1, <2>1 DEF Dirs
<1>5. QED
  BY <1>1, <1>3, <1>4
     DEF PInv, Loops, Cr3Inv, BootInv, KernelDirInv, WindowInv, AskedInv, AskedHigh,
         ListInv, UserInv, HasWindow, Early, BootPlaces, KernPlaces, Copied

\* What the steps before the first call of mmu_map_page have to show.
LEMMA EarlyStep ==
  ASSUME PInv, pc \in Early, UNCHANGED <<chain, asked>>,
         pc' \in Early \/ (pc' = "window" /\ n' = 0), n' \in Nat,
         mem' \in Memory, Cr3Inv', BootInv', KernelDirInv'
  PROVE  PInv'
<1>1. Typing /\ AskedInv /\ ListInv
  BY DEF PInv
<1>2. ~HasWindow /\ ~HasWindow'
  BY DEF HasWindow, Early
<1>3. DOMAIN asked[kernel_page_dir] = {} /\ DOMAIN asked[user_proc_dir] = {}
  BY <1>1, <1>2 DEF AskedInv, AskedHigh, Early, Copied
<1>4. Typing'
  BY <1>1 DEF Typing, Memory, Early, BootPlaces
<1>5. AskedInv'
  BY <1>3 DEF AskedInv, AskedHigh
<1>6. ListInv'
  BY <1>1, <1>2 DEF ListInv
<1>7. Loops'
  BY Layout DEF Loops, Early
<1>8. QED
  BY <1>2, <1>4, <1>5, <1>6, <1>7 DEF PInv, WindowInv, UserInv, Early, Copied

\* The boot table shows the image, and both entries lead to it.
LEMMA BootTablesStep ==
  ASSUME PInv, BootTables
  PROVE  PInv'
<1> DEFINE bt(x) == IF x = Self THEN Seen(VGA)
                    ELSE IF x < KernelEnd + BootSlack THEN Seen(x) ELSE Nothing
           bd(x) == IF x \in {0, KPDE} THEN Seen(boot_page_table1) ELSE Nothing
<1>1. Typing /\ Cr3Inv
  BY DEF PInv
<1>2. PICK t, d : t = [x \in Index |-> bt(x)] /\ d = [x \in Index |-> bd(x)]
  OBVIOUS
<1>3. /\ pc = "boot" /\ pc' = "enable" /\ UNCHANGED <<n, cr3, chain, asked>>
      /\ mem' = [mem EXCEPT ![boot_page_table1] = t, ![boot_page_directory] = d]
  BY <1>2 DEF BootTables, Seen, Nothing
<1>4. /\ \A x \in Index : Seen(x) \in PTE /\ Seen(x).p /\ Seen(x).f = x
      /\ Nothing \in PTE /\ ~Nothing.p
  BY EntriesAre DEF Frame
<1>5. VGA \in Index /\ boot_page_table1 \in Index /\ boot_page_directory \in Index
  BY Layout, Tables DEF Frame
<1>6. \A x \in Index :
        /\ bt(x) \in PTE /\ bd(x) \in PTE
        /\ x < KernelEnd + BootSlack /\ x # Self => bt(x).p /\ bt(x).f = x
        /\ bd(x).p => x \in {0, KPDE} /\ bd(x).f = boot_page_table1
        /\ x \in {0, KPDE} => bd(x).p
  BY <1>4, <1>5, Layout
<1> HIDE DEF bt, bd
<1>7. t \in [Index -> PTE] /\ d \in [Index -> PTE]
      /\ \A x \in Index : t[x] = bt(x) /\ d[x] = bd(x)
  BY <1>2, <1>6
<1>8. /\ mem' \in Memory /\ mem'[boot_page_table1] = t
      /\ mem'[boot_page_directory] = d
  BY <1>1, <1>3, <1>7, Tables DEF Memory, Typing
<1>9. BootInv'
  <2>1. \A x \in Index : mem'[boot_page_table1][x] = bt(x)
                      /\ mem'[boot_page_directory][x] = bd(x)
    BY <1>7, <1>8
  <2>2. 0 \in Index /\ KPDE \in Index
    BY Layout
  <2>3. QED
    BY <1>6, <2>1, <2>2 DEF BootInv
<1>10. Cr3Inv' /\ KernelDirInv'
  BY <1>1, <1>3 DEF Cr3Inv, KernelDirInv, HasWindow, Early, BootPlaces, KernPlaces
<1>11. QED
  BY <1>1, <1>3, <1>8, <1>9, <1>10, EarlyStep DEF Early, Typing

\* Turning paging on, and the jump, change no table.
LEMMA EnablePagingStep ==
  ASSUME PInv, EnablePaging \/ JumpHigh
  PROVE  PInv'
<1>1. Typing /\ Cr3Inv /\ BootInv
  BY DEF PInv
<1>2. /\ pc \in {"enable", "low"} /\ pc' \in {"low", "high"}
      /\ cr3' = boot_page_directory /\ UNCHANGED <<n, mem, chain, asked>>
      /\ pc = "low" => pc' = "high"
  BY <1>1 DEF EnablePaging, JumpHigh, Cr3Inv, BootPlaces
<1>3. mem' \in Memory /\ n' \in Nat
  BY <1>1, <1>2 DEF Typing, Memory
<1>4. BootInv'
  BY <1>1, <1>2 DEF BootInv
<1>5. Cr3Inv' /\ KernelDirInv'
  BY <1>2 DEF Cr3Inv, KernelDirInv, HasWindow, Early, BootPlaces, KernPlaces
<1>6. QED
  BY <1>2, <1>3, <1>4, <1>5, EarlyStep DEF Early

\* The entry for the low addresses goes, the kernel's stays.
LEMMA UnmapLowStep ==
  ASSUME PInv, UnmapLow
  PROVE  PInv'
<1>1. Typing /\ Cr3Inv /\ BootInv
  BY DEF PInv
<1>2. PICK e : e = Nothing
  OBVIOUS
<1>3. /\ pc = "high" /\ pc' = "clear" /\ UNCHANGED <<n, cr3, chain, asked>>
      /\ CellBecomes(mem', mem, boot_page_directory, 0, e)
  BY <1>2 DEF UnmapLow, CellBecomes, Nothing
<1>4. e \in PTE /\ ~e.p
  BY <1>2, EntriesAre
<1>5. mem \in Memory
  BY <1>1 DEF Typing, Memory
<1>6. /\ mem' \in Memory /\ mem'[boot_page_directory][0] = e
      /\ \A x \in Frame, y \in Index : x # boot_page_directory \/ y # 0 =>
           mem'[x][y] = mem[x][y]
  BY <1>3, <1>4, <1>5, CellWritten, Tables, Layout
<1>7. BootInv'
  BY <1>1, <1>3, <1>4, <1>6, Tables, Layout DEF BootInv
<1>8. Cr3Inv' /\ KernelDirInv'
  BY <1>1, <1>3 DEF Cr3Inv, KernelDirInv, HasWindow, Early, BootPlaces, KernPlaces
<1>9. QED
  BY <1>1, <1>3, <1>6, <1>7, <1>8, EarlyStep DEF Early, Typing

\* The new directory shows itself and nothing else.
LEMMA ClearDirectoryStep ==
  ASSUME PInv, ClearDirectory
  PROVE  PInv'
<1> DEFINE dir(x) == IF x = Self THEN Shared(kernel_page_dir) ELSE Vacant
<1>1. Typing /\ Cr3Inv /\ BootInv
  BY DEF PInv
<1>2. PICK t : t = [x \in Index |-> dir(x)]
  OBVIOUS
<1>3. /\ pc = "clear" /\ pc' = "window" /\ n' = 0 /\ UNCHANGED <<cr3, chain, asked>>
      /\ TableBecomes(mem', mem, kernel_page_dir, t)
  BY <1>2 DEF ClearDirectory, TableBecomes, Shared, Vacant
<1>4. /\ dir(Self) = Shared(kernel_page_dir)
      /\ \A x \in Index : x # Self => dir(x) = Vacant
  OBVIOUS
<1> HIDE DEF dir
<1>12. \A x \in Index : dir(x) \in PTE
  BY <1>4, Layout, Tables, EntriesAre
<1>5. t \in [Index -> PTE] /\ \A x \in Index : t[x] = dir(x)
  BY <1>2, <1>12
<1>6. mem \in Memory
  BY <1>1 DEF Typing, Memory
<1>7. /\ mem' \in Memory /\ mem'[kernel_page_dir] = t
      /\ \A x \in Frame : x # kernel_page_dir => mem'[x] = mem[x]
  BY <1>3, <1>5, <1>6, TableWritten, Tables
<1>8. BootInv'
  BY <1>1, <1>3, <1>7, Tables DEF BootInv
<1>9. KernelDirInv'
  <2>1. /\ mem'[kernel_page_dir][Self].p
        /\ mem'[kernel_page_dir][Self].f = kernel_page_dir
        /\ \A x \in Index : mem'[kernel_page_dir][x].p => x = Self
    BY <1>4, <1>5, <1>7, Layout, Tables, EntriesAre
  <2>2. QED
    BY <1>3, <2>1 DEF KernelDirInv, HasWindow
<1>10. Cr3Inv'
  BY <1>1, <1>3 DEF Cr3Inv, BootPlaces, KernPlaces
<1>11. QED
  BY <1>3, <1>7, <1>8, <1>9, <1>10, EarlyStep DEF Early

-----------------------------------------------------------------------------
(* The window.                                                              *)

\* The boot table shows the image where KERN_BASE says.
LEMMA WalkBoot ==
  ASSUME BootInv, pc # "boot", NEW f \in Index, f < KernelEnd
  PROVE  Walk(boot_page_directory, High(f)) = f
<1>3. f < KernelEnd + BootSlack /\ f # Self
  BY Layout
<1>1. /\ mem[boot_page_directory][KPDE].p
      /\ mem[boot_page_directory][KPDE].f = boot_page_table1
      /\ mem[boot_page_table1][f].p /\ mem[boot_page_table1][f].f = f
  BY <1>3, Layout DEF BootInv
<1>2. QED
  BY <1>1 DEF High, Walk

\* The first call of mmu_map_page makes the window's table.
LEMMA FirstCallStep ==
  ASSUME PInv, MapWindow, n = 0
  PROVE  PInv' /\ Keeps({T0, kernel_page_dir})
<1>1. Typing /\ Cr3Inv /\ BootInv /\ KernelDirInv /\ AskedInv /\ ListInv
  BY DEF PInv
<1>2. /\ pc = "window" /\ pc' = "window" /\ n' = 1 /\ UNCHANGED cr3
      /\ mmu_map_page(kernel_page_dir, 0, Aligned, <<KPDE, 0>>, KernelRW, chain, slot)
  BY Layout DEF MapWindow, MapFrames, High
<1>3. ~HasWindow /\ HasWindow'
  BY <1>2 DEF HasWindow, Early
<1>4. PICK fl : fl = KernelRW
  OBVIOUS
<1>5. fl.w \in BOOLEAN /\ fl.u \in BOOLEAN /\ fl.w /\ ~fl.u
  BY <1>4 DEF KernelRW
<1>6. /\ kernel_page_dir \in Dirs /\ 0 \in Frame /\ KPDE \in Index /\ 0 \in Index
      /\ T0 \in Frame /\ T0 # kernel_page_dir /\ kernel_page_dir \in Frame
  BY Layout, Tables DEF Dirs, Frame
<1>7. chain = StaticList /\ T0 = Head(chain)
  <2>1. ASSUME NEW S, NEW s \in Seq(S), s # <<>> PROVE Head(s) = s[1]
    BY <2>1
  <2>2. QED
    BY <1>1, <1>2, <2>1, PoolAssumption DEF ListInv, T0
<1>8. ~mem[kernel_page_dir][KPDE].p
  BY <1>1, <1>2, Layout DEF KernelDirInv
<1>9. PICK e, wish \in PTE :
        /\ Made(0, Aligned, fl, e, wish)
        /\ mem' \in Memory /\ mem'[T0][0] = e
        /\ \A b \in Index : b # 0 => ~mem'[T0][b].p
        /\ mem'[kernel_page_dir][KPDE].p /\ mem'[kernel_page_dir][KPDE].f = T0
        /\ mem'[kernel_page_dir][KPDE].w /\ mem'[kernel_page_dir][KPDE].u
        /\ \A b \in Index : b # KPDE => mem'[kernel_page_dir][b] = mem[kernel_page_dir][b]
        /\ \A a \in Frame : a \notin {T0, kernel_page_dir} => mem'[a] = mem[a]
        /\ chain' = Tail(chain) /\ slot' = High(T0)
        /\ AskedFor(kernel_page_dir, <<KPDE, 0>>, wish)
  <2>1. mmu_map_page(kernel_page_dir, 0, Aligned, <<KPDE, 0>>, fl, chain, slot)
    BY <1>2, <1>4
  <2>2. PICK d, f, low, x, y, r, free, table :
          /\ d = kernel_page_dir /\ f = 0 /\ low = Aligned /\ x = KPDE /\ y = 0
          /\ r = T0 /\ free = chain /\ table = slot
    OBVIOUS
  <2>3. /\ mmu_map_page(d, f, low, <<x, y>>, fl, free, table)
        /\ d \in Dirs /\ f \in Frame /\ x \in Index /\ y \in Index
        /\ r \in Frame /\ r = Head(free) /\ r # d /\ Typing /\ ~mem[d][x].p
    BY <1>1, <1>6, <1>7, <1>8, <2>1, <2>2
  <2>4. MakesTable(d, f, low, x, y, fl, free, r)
    <3>1. fl.w \in BOOLEAN /\ fl.u \in BOOLEAN /\ low.w \in BOOLEAN /\ low.u \in BOOLEAN
      BY <1>5, <2>2, LowIs
    <3>2. QED
      BY ONLY <2>3, <3>1, MapAbsent
  <2>5. QED
    BY <2>2, <2>4 DEF MakesTable
<1>10. Typing'
  BY <1>2, <1>9 DEF Typing, Memory, AskedFor, BootPlaces
<1>11. Loops' /\ Cr3Inv'
  BY <1>1, <1>2, Layout DEF Loops, Cr3Inv, BootPlaces, KernPlaces
<1>12. BootInv'
  BY <1>1, <1>2, <1>9, Tables DEF BootInv
<1>13. KernelDirInv'
  <2>1. \A x \in Index : mem'[kernel_page_dir][x].p => x \in {KPDE, Self}
    BY <1>1, <1>2, <1>9 DEF KernelDirInv
  <2>2. mem'[kernel_page_dir][Self] = mem[kernel_page_dir][Self]
    BY <1>9, Layout
  <2>3. QED
    BY <1>1, <1>2, <1>9, <2>1, <2>2 DEF KernelDirInv, Early, Leads
<1>14. WindowInv'
  <2>1. mem'[T0][0] = e /\ \A x \in Index : x # 0 => ~mem'[T0][x].p
    BY <1>9
  <2>2. e.p /\ e.f = 0 /\ e.w /\ ~e.u
    BY <1>5, <1>9, LowIs DEF Made
  <2>3. ASSUME NEW x \in Index
        PROVE  /\ mem'[T0][x].p => x < n'
               /\ x < n' => mem'[T0][x].p
               /\ mem'[T0][x].p => mem'[T0][x].f = x /\ ~mem'[T0][x].u /\ mem'[T0][x].w
    <3>1. PICK g : g = mem'[T0][x]
      OBVIOUS
    <3>2. CASE x = 0
      <4>4. g = e
        BY <2>1, <3>1, <3>2
      <4>1. g.p /\ g.f = x /\ g.w /\ ~g.u
        BY <2>2, <3>2, <4>4
      <4>2. x < n'
        BY <1>2, <3>2
      <4>3. QED
        BY <3>1, <4>1, <4>2
    <3>3. CASE x # 0
      <4>1. ~g.p
        BY <2>1, <3>1, <3>3
      <4>2. ~(x < n')
        BY <1>2, <3>3, Layout
      <4>3. QED
        BY <3>1, <4>1, <4>2
    <3>4. QED
      BY <3>2, <3>3
  <2>4. QED
    BY <1>2, <2>3 DEF WindowInv, Mapping
<1>15. AskedInv'
  <2>1. DOMAIN asked[kernel_page_dir] = {} /\ DOMAIN asked[user_proc_dir] = {}
    BY <1>1, <1>2, <1>3 DEF AskedInv, AskedHigh, Copied
  <2>2. /\ DOMAIN asked'[kernel_page_dir] = {<<KPDE, 0>>}
        /\ asked'[kernel_page_dir][<<KPDE, 0>>] = wish
        /\ DOMAIN asked'[user_proc_dir] = {}
    BY <1>9, <2>1, Tables DEF AskedFor, Dirs
  <2>5. Grants(e, wish, Text(0, wish))
    BY <1>5, <1>9, LowIs DEF Made, Grants, Text
  <2>6. \A v \in DOMAIN asked'[kernel_page_dir] :
          /\ v = High(v[2]) /\ v[2] = 0 /\ v[2] \in Index
          /\ asked'[kernel_page_dir][v] = wish
    BY <1>6, <2>2 DEF High
  <2>3. AskedHigh(kernel_page_dir)'
    <3>1. SUFFICES ASSUME NEW v \in DOMAIN asked'[kernel_page_dir], v[1] = KPDE
                   PROVE  /\ v = High(v[2]) /\ v[2] \in Index
                          /\ Grants(mem'[T0][v[2]], asked'[kernel_page_dir][v],
                                    Text(v[2], asked'[kernel_page_dir][v]))
      BY <1>3 DEF AskedHigh
    <3>2. mem'[T0][v[2]] = e /\ asked'[kernel_page_dir][v] = wish /\ v[2] = 0
      BY <1>9, <2>6, <3>1
    <3>3. QED
      BY <2>5, <2>6, <3>1, <3>2
  <2>4. QED
    BY <2>2, <2>3 DEF AskedInv, AskedHigh
<1>16. ListInv'
  BY <1>2, <1>7, <1>9 DEF ListInv, Early
<1>17. UserInv'
  BY <1>2 DEF UserInv, Copied
<1>18. Keeps({T0, kernel_page_dir})
  BY <1>9 DEF Keeps
<1>19. QED
  BY <1>18, <1>10, <1>11, <1>12, <1>13, <1>14, <1>15, <1>16, <1>17 DEF PInv

\* A later one writes into that table, through the pointer that the first one
\* left in the slot and the tables of boot.s.
LEMMA HighCall ==
  ASSUME PInv, HasWindow, pc \in {"window", "code", "data", "vga"},
         NEW f \in Frame, NEW x \in Index, NEW fl, fl.w \in BOOLEAN, fl.u \in BOOLEAN,
         NEW low, low.w \in BOOLEAN, low.u \in BOOLEAN,
         mmu_map_page(kernel_page_dir, f, low, High(x), fl, chain, slot)
  PROVE  \E e, wish \in PTE :
           /\ Made(f, low, fl, e, wish)
           /\ mem' \in Memory /\ mem'[T0][x] = e
           /\ \A a \in Frame, b \in Index : a # T0 \/ b # x => mem'[a][b] = mem[a][b]
           /\ chain' = chain /\ slot' = slot
           /\ AskedFor(kernel_page_dir, High(x), wish)
<1>1. Typing /\ Cr3Inv /\ BootInv /\ KernelDirInv /\ ListInv
  BY DEF PInv
<1>2. slot = High(T0) /\ cr3 = boot_page_directory /\ pc # "boot"
  BY <1>1 DEF ListInv, Cr3Inv, BootPlaces
<1>3. T0 \in Index /\ T0 < KernelEnd /\ T0 \in Frame
  BY Tables, Layout DEF Frame
<1>4. Walk(cr3, slot) = T0
  BY <1>1, <1>2, <1>3, WalkBoot
<1>5. mem[kernel_page_dir][KPDE].p
  BY <1>1 DEF KernelDirInv, Leads
<1>6. kernel_page_dir \in Dirs /\ KPDE \in Index
  BY Layout DEF Dirs
<1>7. High(x) = <<KPDE, x>>
  BY DEF High
<1>8. QED
  BY <1>1, <1>3, <1>4, <1>5, <1>6, <1>7, MapPresent

\* A call for the window keeps all of the invariant but what it says of the
\* window itself.
LEMMA MappingStep ==
  ASSUME PInv, HasWindow, pc \in {"window", "code", "data", "vga"},
         NEW x \in Index, NEW e \in PTE, NEW wish, Grants(e, wish, Text(x, wish)),
         mem' \in Memory, mem'[T0][x] = e,
         \A a \in Frame, b \in Index : a # T0 \/ b # x => mem'[a][b] = mem[a][b],
         chain' = chain, slot' = slot, AskedFor(kernel_page_dir, High(x), wish),
         UNCHANGED cr3, pc' \in {"window", "code", "data", "vga", "load"},
         HasWindow', n' \in Nat, Loops', WindowInv'
  PROVE  PInv'
<1>1. Typing /\ Cr3Inv /\ BootInv /\ KernelDirInv /\ AskedInv /\ ListInv
  BY DEF PInv
<1>2. Typing'
  BY DEF Typing, Memory, AskedFor, BootPlaces
<1>3. Cr3Inv'
  BY <1>1 DEF Cr3Inv, BootPlaces, KernPlaces
<1>4. BootInv'
  BY <1>1, Tables, Layout DEF BootInv
<1>5. KernelDirInv'
  <2>1. \A b \in Index : mem'[kernel_page_dir][b] = mem[kernel_page_dir][b]
    BY Tables
  <2>2. QED
    BY <1>1, <2>1, Layout DEF KernelDirInv, Leads, Early, HasWindow
<1>6. AskedInv'
  <2>1. /\ DOMAIN asked'[kernel_page_dir] = DOMAIN asked[kernel_page_dir] \cup {High(x)}
        /\ asked'[kernel_page_dir][High(x)] = wish
        /\ \A u \in DOMAIN asked[kernel_page_dir] : u # High(x) =>
             asked'[kernel_page_dir][u] = asked[kernel_page_dir][u]
        /\ asked'[user_proc_dir] = asked[user_proc_dir]
    BY Tables DEF AskedFor, Dirs
  <2>2. DOMAIN asked'[user_proc_dir] = {}
    BY <1>1, <2>1 DEF AskedInv, Copied
  <2>3. High(x)[1] = KPDE /\ High(x)[2] = x
    BY DEF High
  <2>4. ASSUME NEW v \in DOMAIN asked'[kernel_page_dir]
        PROVE  /\ v[1] = KPDE /\ v = High(v[2]) /\ v[2] \in Index
               /\ Grants(mem'[T0][v[2]], asked'[kernel_page_dir][v],
                         Text(v[2], asked'[kernel_page_dir][v]))
    <3>1. CASE v = High(x)
      BY <2>1, <2>3, <3>1
    <3>2. CASE v # High(x)
      <4>1. v \in DOMAIN asked[kernel_page_dir]
        BY <2>1, <3>2
      <4>2. /\ v[1] = KPDE /\ v = High(v[2]) /\ v[2] \in Index
            /\ Grants(mem[T0][v[2]], asked[kernel_page_dir][v],
                      Text(v[2], asked[kernel_page_dir][v]))
        BY <1>1, <4>1 DEF AskedInv, AskedHigh
      <4>3. v[2] # x
        BY <3>2, <4>2
      <4>4. mem'[T0][v[2]] = mem[T0][v[2]]
        BY <4>2, <4>3, Tables
      <4>5. QED
        BY <2>1, <3>2, <4>1, <4>2, <4>4
    <3>3. QED
      BY <3>1, <3>2
  <2>5. QED
    BY <2>2, <2>4 DEF AskedInv, AskedHigh
<1>7. ListInv'
  BY <1>1 DEF ListInv, Early, HasWindow, Copied
<1>8. UserInv'
  BY DEF UserInv, Copied
<1>9. QED
  BY <1>2, <1>3, <1>4, <1>5, <1>6, <1>7, <1>8 DEF PInv

\* What a call for the page x of the window does to what it shows.
LEMMA WindowKept ==
  ASSUME WindowInv, HasWindow, NEW x \in Index, NEW e \in PTE, e.p, mem'[T0][x] = e,
         \A a \in Frame, b \in Index : a # T0 \/ b # x => mem'[a][b] = mem[a][b],
         x # Self => e.f = x,
         pc' \notin Mapping => x = Self /\ e.f = VGA,
         e.u => x = Self \/ x \in code..ecode - 1,
         x \in data..edata - 1 => e.w,
         \A y \in Index :
           (pc' = "window" => y < n') <=> (y = x \/ (pc = "window" => y < n)),
         \A y \in Index :
           y \in code..ecode - 1 /\ pc' # "window" /\ (pc' = "code" => y < n') =>
             \/ y = x /\ ~e.w
             \/ y # x /\ pc # "window" /\ (pc = "code" => y < n)
  PROVE  WindowInv'
<1>1. SUFFICES ASSUME NEW y \in Index
               PROVE  /\ mem'[T0][y].p <=> (pc' = "window" => y < n')
                      /\ mem'[T0][y].p /\ y # Self => mem'[T0][y].f = y
                      /\ y = Self /\ pc' \notin Mapping => mem'[T0][y].f = VGA
                      /\ mem'[T0][y].p /\ mem'[T0][y].u =>
                           y = Self \/ y \in code..ecode - 1
                      /\ mem'[T0][y].p /\ y \in data..edata - 1 => mem'[T0][y].w
                      /\ y \in code..ecode - 1 /\ pc' # "window"
                           /\ (pc' = "code" => y < n') => ~mem'[T0][y].w
  BY DEF WindowInv
<1>2. PICK g : g = mem'[T0][y]
  OBVIOUS
<1>3. CASE y = x
  <2>1. g = e
    BY <1>2, <1>3
  <2>2. QED
    BY <1>2, <1>3, <2>1
<1>4. CASE y # x
  <2>1. g = mem[T0][y]
    BY <1>2, <1>4, Tables
  <2>2. /\ g.p <=> (pc = "window" => y < n)
        /\ g.p /\ y # Self => g.f = y
        /\ g.p /\ g.u => y = Self \/ y \in code..ecode - 1
        /\ g.p /\ y \in data..edata - 1 => g.w
        /\ y \in code..ecode - 1 /\ pc # "window" /\ (pc = "code" => y < n) => ~g.w
    BY <2>1 DEF WindowInv
  <2>3. QED
    BY <1>2, <1>4, <2>2
<1>5. QED
  BY <1>3, <1>4

\* Each later call of the first loop shows one frame more.
LEMMA MapWindowStep ==
  ASSUME PInv, MapWindow, n # 0
  PROVE  PInv' /\ Keeps({T0})
<1>1. Typing /\ Loops /\ WindowInv
  BY DEF PInv
<1>2. PICK fl, low : fl = KernelRW /\ low = Aligned
  OBVIOUS
<1>3. /\ fl.w \in BOOLEAN /\ fl.u \in BOOLEAN
      /\ low.w \in BOOLEAN /\ low.u \in BOOLEAN
  BY <1>2, LowIs DEF KernelRW
<1>4. fl.w /\ ~fl.u
  BY <1>2 DEF KernelRW
<1>5. /\ pc = "window" /\ UNCHANGED cr3 /\ n \in Index /\ n \in Nat
      /\ mmu_map_page(kernel_page_dir, n, low, High(n), fl, chain, slot)
      /\ IF n + 1 < E THEN pc' = "window" /\ n' = n + 1 ELSE pc' = "code" /\ n' = code
  BY <1>1, <1>2 DEF MapWindow, MapFrames, Typing, Loops
<1>6. HasWindow /\ HasWindow'
  BY <1>5 DEF HasWindow, Early
<1>7. PICK x \in Index : x = n
  BY <1>5
<1>8. PICK e, wish \in PTE :
        /\ Made(x, low, fl, e, wish)
        /\ mem' \in Memory /\ mem'[T0][x] = e
        /\ \A a \in Frame, b \in Index : a # T0 \/ b # x => mem'[a][b] = mem[a][b]
        /\ chain' = chain /\ slot' = slot
        /\ AskedFor(kernel_page_dir, High(x), wish)
  BY <1>3, <1>5, <1>6, <1>7, HighCall DEF Frame
<1>15. e.p /\ e.f = x /\ e.w /\ ~e.u
  BY <1>2, <1>4, <1>8, LowIs DEF Made
<1>16. Grants(e, wish, Text(x, wish))
  BY <1>2, <1>4, <1>8, LowIs DEF Made, Grants, Text
<1>17. pc' \in Mapping
  BY <1>5 DEF Mapping
<1>9. Loops' /\ n' \in Nat
  BY <1>5, Layout DEF Loops
<1>10. \A y \in Index :
         (pc' = "window" => y < n') <=> (y = x \/ (pc = "window" => y < n))
  BY <1>5, <1>7, Layout DEF Index
<1>11. \A y \in Index :
         ~(y \in code..ecode - 1 /\ pc' # "window" /\ (pc' = "code" => y < n'))
  BY <1>5, Layout
<1>12. WindowInv'
  BY <1>1, <1>6, <1>8, <1>10, <1>11, <1>15, <1>17, WindowKept
<1>13. Keeps({T0})
  BY <1>8 DEF Keeps
<1>14. QED
  BY <1>13, <1>5, <1>6, <1>8, <1>9, <1>12, <1>16, MappingStep

\* The code's pages are shown again, read-only.
LEMMA MapCodeStep ==
  ASSUME PInv, MapCode
  PROVE  PInv' /\ Keeps({T0})
<1>1. Typing /\ Loops /\ WindowInv
  BY DEF PInv
<1>2. PICK fl, low : fl = KernelRO /\ low = Low(CodeOffset)
  OBVIOUS
<1>3. /\ fl.w \in BOOLEAN /\ fl.u \in BOOLEAN
      /\ low.w \in BOOLEAN /\ low.u \in BOOLEAN
  BY <1>2, LowIs DEF KernelRO
<1>4. ~fl.w /\ ~fl.u
  BY <1>2 DEF KernelRO
<1>5. /\ pc = "code" /\ UNCHANGED cr3 /\ n \in code..ecode - 1 /\ n \in Nat
      /\ mmu_map_page(kernel_page_dir, n, low, High(n), fl, chain, slot)
      /\ IF n + 1 < ecode THEN pc' = "code" /\ n' = n + 1 ELSE pc' = "data" /\ n' = data
  BY <1>1, <1>2 DEF MapCode, MapFrames, Typing, Loops
<1>6. HasWindow /\ HasWindow'
  BY <1>5 DEF HasWindow, Early
<1>7. PICK x \in Index : x = n
  BY <1>5, Layout
<1>8. PICK e, wish \in PTE :
        /\ Made(x, low, fl, e, wish)
        /\ mem' \in Memory /\ mem'[T0][x] = e
        /\ \A a \in Frame, b \in Index : a # T0 \/ b # x => mem'[a][b] = mem[a][b]
        /\ chain' = chain /\ slot' = slot
        /\ AskedFor(kernel_page_dir, High(x), wish)
  BY <1>3, <1>5, <1>6, <1>7, HighCall DEF Frame
<1>15. e.p /\ e.f = x /\ ~e.w /\ e.u
  BY <1>2, <1>4, <1>8, LowIs DEF Made
<1>16. Grants(e, wish, Text(x, wish))
  <2>1. x \in code..ecode - 1
    BY <1>5, <1>7
  <2>2. ~wish.w /\ wish.u = FALSE /\ wish.f = x
    BY <1>4, <1>8 DEF Made
  <2>3. QED
    BY <1>8, <1>15, <2>1, <2>2 DEF Grants, Text, PTE
<1>17. pc' \in Mapping
  BY <1>5 DEF Mapping
<1>9. Loops' /\ n' \in Nat
  BY <1>5, Layout DEF Loops
<1>10. x \notin data..edata - 1
  BY <1>5, <1>7, Layout
<1>11. \A y \in Index :
         y \in code..ecode - 1 /\ pc' # "window" /\ (pc' = "code" => y < n') =>
           y = x \/ y < n
  BY <1>5, <1>7, Layout
<1>12. WindowInv'
  BY <1>1, <1>5, <1>6, <1>7, <1>8, <1>10, <1>11, <1>15, <1>17, WindowKept
<1>13. Keeps({T0})
  BY <1>8 DEF Keeps
<1>14. QED
  BY <1>13, <1>5, <1>6, <1>8, <1>9, <1>12, <1>16, MappingStep

\* The data's pages are shown again, writable.
LEMMA MapDataStep ==
  ASSUME PInv, MapData
  PROVE  PInv' /\ Keeps({T0})
<1>1. Typing /\ Loops /\ WindowInv
  BY DEF PInv
<1>2. PICK fl, low : fl = KernelRW /\ low = Aligned
  OBVIOUS
<1>3. /\ fl.w \in BOOLEAN /\ fl.u \in BOOLEAN
      /\ low.w \in BOOLEAN /\ low.u \in BOOLEAN
  BY <1>2, LowIs DEF KernelRW
<1>4. fl.w /\ ~fl.u
  BY <1>2 DEF KernelRW
<1>5. /\ pc = "data" /\ UNCHANGED cr3 /\ n \in data..edata - 1 /\ n \in Nat
      /\ mmu_map_page(kernel_page_dir, n, low, High(n), fl, chain, slot)
      /\ IF n + 1 < edata THEN pc' = "data" /\ n' = n + 1 ELSE pc' = "vga" /\ n' = 0
  BY <1>1, <1>2 DEF MapData, MapFrames, Typing, Loops
<1>6. HasWindow /\ HasWindow'
  BY <1>5 DEF HasWindow, Early
<1>7. PICK x \in Index : x = n
  BY <1>5, Layout
<1>8. PICK e, wish \in PTE :
        /\ Made(x, low, fl, e, wish)
        /\ mem' \in Memory /\ mem'[T0][x] = e
        /\ \A a \in Frame, b \in Index : a # T0 \/ b # x => mem'[a][b] = mem[a][b]
        /\ chain' = chain /\ slot' = slot
        /\ AskedFor(kernel_page_dir, High(x), wish)
  BY <1>3, <1>5, <1>6, <1>7, HighCall DEF Frame
<1>15. e.p /\ e.f = x /\ e.w /\ ~e.u
  BY <1>2, <1>4, <1>8, LowIs DEF Made
<1>16. Grants(e, wish, Text(x, wish))
  BY <1>2, <1>4, <1>8, LowIs DEF Made, Grants, Text
<1>17. pc' \in Mapping
  BY <1>5 DEF Mapping
<1>9. Loops' /\ n' \in Nat
  BY <1>5, Layout DEF Loops
<1>10. x \notin code..ecode - 1
  BY <1>5, <1>7, Layout
<1>11. WindowInv'
  BY <1>1, <1>5, <1>6, <1>8, <1>10, <1>15, <1>17, WindowKept
<1>12. Keeps({T0})
  BY <1>8 DEF Keeps
<1>13. QED
  BY <1>12, <1>5, <1>6, <1>8, <1>9, <1>11, <1>16, MappingStep

\* The text buffer is shown in the last page of the window.
LEMMA MapVgaStep ==
  ASSUME PInv, MapVga
  PROVE  PInv' /\ Keeps({T0})
<1>1. Typing /\ Loops /\ WindowInv
  BY DEF PInv
<1>2. PICK fl, low : fl = UserRW /\ low = Aligned
  OBVIOUS
<1>3. /\ fl.w \in BOOLEAN /\ fl.u \in BOOLEAN
      /\ low.w \in BOOLEAN /\ low.u \in BOOLEAN
  BY <1>2, LowIs DEF UserRW
<1>4. fl.w
  BY <1>2 DEF UserRW
<1>5. PICK x \in Index : x = Self
  BY Layout
<1>6. /\ pc = "vga" /\ pc' = "load" /\ UNCHANGED <<n, cr3>> /\ n \in Nat
      /\ mmu_map_page(kernel_page_dir, VGA, low, High(x), fl, chain, slot)
  BY <1>1, <1>2, <1>5, Layout DEF MapVga, Typing
<1>7. HasWindow /\ HasWindow'
  BY <1>6 DEF HasWindow, Early
<1>8. PICK e, wish \in PTE :
        /\ Made(VGA, low, fl, e, wish)
        /\ mem' \in Memory /\ mem'[T0][x] = e
        /\ \A a \in Frame, b \in Index : a # T0 \/ b # x => mem'[a][b] = mem[a][b]
        /\ chain' = chain /\ slot' = slot
        /\ AskedFor(kernel_page_dir, High(x), wish)
  BY <1>3, <1>6, <1>7, HighCall, Layout DEF Frame
<1>15. e.p /\ e.f = VGA /\ e.w
  BY <1>2, <1>4, <1>8, LowIs DEF Made
<1>16. Grants(e, wish, Text(x, wish))
  BY <1>2, <1>4, <1>8, LowIs DEF Made, Grants, Text
<1>9. Loops'
  BY <1>6 DEF Loops
<1>10. x \notin code..ecode - 1
  BY <1>5, Layout
<1>11. WindowInv'
  BY <1>1, <1>5, <1>6, <1>7, <1>8, <1>10, <1>15, WindowKept
<1>12. Keeps({T0})
  BY <1>8 DEF Keeps
<1>13. QED
  BY <1>12, <1>6, <1>7, <1>8, <1>9, <1>11, <1>16, MappingStep

-----------------------------------------------------------------------------
(* The user's directory and the task.                                       *)

\* Steps that change no table.
LEMMA QuietStep ==
  ASSUME PInv, UNCHANGED <<mem, asked>>, n' \in Nat,
         \/ pc = "load" /\ pc' = "pool"
         \/ pc = "pool" /\ pc' = "copy"
         \/ pc = "create_task" /\ pc' = "stray"
         \/ pc = "yield" /\ pc' = "user",
         Loops', Cr3Inv', ListInv', UserInv'
  PROVE  PInv'
<1>1. Typing /\ BootInv /\ KernelDirInv /\ WindowInv /\ AskedInv
  BY DEF PInv
<1>2. HasWindow /\ HasWindow' /\ pc # "window" /\ pc' # "window" /\ pc # "code"
      /\ pc' # "code" /\ pc \notin Early /\ pc' \notin Early
      /\ pc \notin Mapping /\ pc' \notin Mapping
  BY DEF HasWindow, Early, Mapping
<1>3. Typing'
  BY <1>1 DEF Typing, BootPlaces, KernPlaces
<1>4. BootInv'
  BY <1>1 DEF BootInv
<1>5. KernelDirInv'
  BY <1>1, <1>2 DEF KernelDirInv, Leads
<1>6. WindowInv'
  BY <1>1, <1>2 DEF WindowInv
<1>7. AskedInv'
  BY <1>1, <1>2 DEF AskedInv, AskedHigh, Copied
<1>8. QED
  BY <1>3, <1>4, <1>5, <1>6, <1>7 DEF PInv

\* cr3 is loaded when the window is complete.
LEMMA LoadKernelDirectoryStep ==
  ASSUME PInv, LoadKernelDirectory
  PROVE  PInv'
<1>1. Typing /\ Cr3Inv /\ ListInv
  BY DEF PInv
<1>2. /\ pc = "load" /\ pc' = "pool" /\ cr3' = kernel_page_dir
      /\ UNCHANGED <<n, mem, slot, chain, stray, got, tcb_cr3, asked>>
  BY DEF LoadKernelDirectory
<1>3. Cr3Inv' /\ Loops' /\ UserInv'
  BY <1>2 DEF Cr3Inv, Loops, UserInv, BootPlaces, KernPlaces, Copied
<1>4. ListInv'
  BY <1>1, <1>2 DEF ListInv, HasWindow, Early, Copied
<1>5. QED
  BY <1>1, <1>2, <1>3, <1>4, QuietStep DEF Typing

\* The pages of the memory map come before what static_pool has left.
LEMMA FreePoolStep ==
  ASSUME PInv, FreePool
  PROVE  PInv'
<1>1. Typing /\ Cr3Inv /\ ListInv /\ AskedInv
  BY DEF PInv
<1>2. /\ pc = "pool" /\ pc' = "copy"
      /\ UNCHANGED <<n, mem, cr3, slot, stray, got, tcb_cr3, asked>>
  BY DEF FreePool
<1>3. PICK pool \in Pools : chain' = pool \o chain
  BY DEF FreePool
<1>4. chain = Tail(StaticList)
  BY <1>1, <1>2 DEF ListInv, HasWindow, Early, Copied
<1>5. PICK c \in FreeLists : chain' = c
  BY <1>3, <1>4 DEF FreeLists
<1>6. DOMAIN asked'[user_proc_dir] = {}
  BY <1>1, <1>2 DEF AskedInv, Copied
<1>7. /\ TakenInv(c)' /\ UserDirInv(c)' /\ UserTableInv(c)'
      /\ AskedLow(c)' /\ StrayInv(c)'
  BY <1>2, <1>5, <1>6
     DEF TakenInv, UserDirInv, UserTableInv, AskedLow, StrayInv, Copied
<1>8. UserInv'
  BY <1>7 DEF UserInv
<1>9. Cr3Inv' /\ Loops' /\ ListInv'
  BY <1>1, <1>2 DEF Cr3Inv, Loops, ListInv, BootPlaces, KernPlaces, Copied, Early
<1>10. QED
  BY <1>1, <1>2, <1>8, <1>9, QuietStep DEF Typing

\* The user's directory begins as a copy, with the window in it.
LEMMA CopyDirectoryStep ==
  ASSUME PInv, CopyDirectory
  PROVE  PInv' /\ Keeps({user_proc_dir})
<1>1. Typing /\ Cr3Inv /\ BootInv /\ KernelDirInv /\ WindowInv /\ AskedInv /\ UserInv
  BY DEF PInv
<1>2. PICK t, g : t = mem[kernel_page_dir] /\ g = asked[kernel_page_dir]
  OBVIOUS
<1>3. /\ pc = "copy" /\ pc' = "usercode" /\ UNCHANGED <<n, cr3, stray, tcb_cr3>>
      /\ TableBecomes(mem', mem, user_proc_dir, t)
      /\ asked' = [asked EXCEPT ![user_proc_dir] = g]
      /\ got' = <<Head(chain)>> /\ chain' = Tail(chain)
  BY <1>2 DEF CopyDirectory, TableBecomes
<1>4. /\ mem \in Memory /\ t \in [Index -> PTE]
  BY <1>1, <1>2, Tables DEF Typing, Memory
<1>5. /\ mem' \in Memory /\ mem'[user_proc_dir] = t
      /\ \A x \in Frame : x # user_proc_dir => mem'[x] = mem[x]
  BY <1>3, <1>4, TableWritten, Tables
<1>6. /\ DOMAIN asked' = Dirs /\ asked'[user_proc_dir] = g
      /\ asked'[kernel_page_dir] = g
  BY <1>1, <1>2, <1>3, Tables DEF Typing, Dirs
<1>7. /\ HasWindow /\ HasWindow' /\ pc' # "window" /\ pc' # "code"
      /\ pc \notin Mapping /\ pc' \notin Mapping
  BY <1>3 DEF HasWindow, Early, Mapping
<1>8. Typing'
  BY <1>1, <1>3, <1>5, <1>6 DEF Typing, Memory, KernPlaces
<1>9. Loops' /\ Cr3Inv' /\ ListInv'
  BY <1>1, <1>3 DEF Loops, Cr3Inv, ListInv, BootPlaces, KernPlaces, Early, Copied
<1>10. BootInv'
  BY <1>1, <1>3, <1>5, Tables DEF BootInv
<1>11. KernelDirInv'
  BY <1>1, <1>3, <1>5, <1>7, Tables DEF KernelDirInv, Leads, Early
<1>12. WindowInv'
  BY <1>1, <1>3, <1>5, <1>7, Tables DEF WindowInv
<1>13. AskedInv'
  <2>1. \A v \in DOMAIN g : /\ v[1] = KPDE /\ v = High(v[2]) /\ v[2] \in Index
                           /\ Grants(mem[T0][v[2]], g[v], Text(v[2], g[v]))
    BY <1>1, <1>2 DEF AskedInv, AskedHigh
  <2>2. mem'[T0] = mem[T0]
    BY <1>5, Tables
  <2>3. QED
    BY <1>3, <1>6, <1>7, <2>1, <2>2 DEF AskedInv, AskedHigh, Copied
<1>14. UserInv'
  <2>1. PICK c \in FreeLists : chain = c
    BY <1>1, <1>3 DEF UserInv, TakenInv
  <2>2. TakenInv(c)'
    <3>1. c \in Seq(Frame) /\ Len(c) >= 7
      BY Lists
    <3>2. got' = <<c[1]>> /\ chain' = From(c, 2)
      <4>1. Head(c) = c[1] /\ Tail(c) = SubSeq(c, 2, Len(c))
        BY <3>1
      <4>2. QED
        BY <1>3, <2>1, <4>1 DEF From
    <3>3. Gets(c, 1)'
      BY <3>1, <3>2, Lists DEF Gets
    <3>4. QED
      BY <1>3, <3>2, <3>3 DEF TakenInv
  <2>3. UserDirInv(c)'
    <3>1. \A x \in Index : mem'[user_proc_dir][x] = mem[kernel_page_dir][x]
      BY <1>2, <1>5
    <3>2. QED
      BY <1>1, <1>3, <1>7, <3>1, Layout DEF UserDirInv, KernelDirInv, Leads
  <2>4. AskedLow(c)'
    BY <1>1, <1>2, <1>6 DEF AskedLow, AskedInv
  <2>5. UserTableInv(c)' /\ StrayInv(c)'
    BY <1>3 DEF UserTableInv, StrayInv, Copied
  <2>6. QED
    BY <2>2, <2>3, <2>4, <2>5 DEF UserInv
<1>15. Keeps({user_proc_dir})
  BY <1>5 DEF Keeps
<1>16. QED
  BY <1>8, <1>9, <1>10, <1>11, <1>12, <1>13, <1>14, <1>15 DEF PInv

\* Through its last entry the kernel's directory shows its own tables.
LEMMA V2PIs ==
  ASSUME KernelDirInv, WindowInv, HasWindow, pc \notin Mapping, cr3 = kernel_page_dir,
         NEW f \in Index
  PROVE  /\ V2P(High(f)) = Shown(f)
         /\ Walk(cr3, High(f)) = Shown(f)
         /\ Walk(cr3, <<Self, Self>>) = kernel_page_dir
<1>1. /\ mem[kernel_page_dir][Self].p /\ mem[kernel_page_dir][Self].f = kernel_page_dir
      /\ mem[kernel_page_dir][KPDE].p /\ mem[kernel_page_dir][KPDE].f = T0
  BY DEF KernelDirInv, HasWindow, Leads
<1>2. mem[T0][f].p /\ mem[T0][f].f = Shown(f)
  BY DEF WindowInv, Mapping, Shown
<1>3. /\ Walk(cr3, <<Self, KPDE>>) = T0
      /\ Walk(cr3, <<KPDE, f>>) = Shown(f)
      /\ Walk(cr3, <<Self, Self>>) = kernel_page_dir
  BY <1>1, <1>2 DEF Walk
<1>4. QED
  BY <1>2, <1>3 DEF V2P, High

\* The calls for the user's pages write to the user's directory and its table.
LEMMA UserStep ==
  ASSUME PInv, pc \in {"usercode", "stack"}, pc' \in {"stack", "create_task"},
         NEW c \in FreeLists, NEW y \in Index, NEW wish, UNCHANGED cr3,
         mem' \in Memory, Keeps({c[2], user_proc_dir}),
         AskedFor(user_proc_dir, <<0, y>>, wish), n' \in Nat, Loops',
         TakenInv(c)', UserDirInv(c)', UserTableInv(c)', AskedLow(c)'
  PROVE  PInv'
<1>1. Typing /\ Cr3Inv /\ BootInv /\ KernelDirInv /\ WindowInv /\ AskedInv
  BY DEF PInv
<1>2. \A x \in Index :
        /\ mem'[kernel_page_dir][x] = mem[kernel_page_dir][x]
        /\ mem'[boot_page_directory][x] = mem[boot_page_directory][x]
        /\ mem'[boot_page_table1][x] = mem[boot_page_table1][x]
        /\ mem'[T0][x] = mem[T0][x]
  <2>1. 2 \in 1..Len(c)
    BY Lists
  <2>2. c[2] \notin {kernel_page_dir, boot_page_directory, boot_page_table1, T0}
    BY <2>1, Lists
  <2>3. QED
    BY <2>2, Tables DEF Keeps
<1>3. /\ pc # "window" /\ pc' # "window" /\ pc # "code" /\ pc' # "code" /\ pc # "boot"
      /\ pc \notin Early /\ pc' \notin Early /\ pc' \in KernPlaces /\ pc' \in Copied
      /\ pc' \notin BootPlaces /\ pc' \notin {"boot", "enable", "low", "stray", "yield", "user"}
      /\ pc \notin {"boot", "enable", "low", "stray", "yield", "user"} /\ pc \in KernPlaces
      /\ pc \notin Mapping /\ pc' \notin Mapping
  BY DEF Early, KernPlaces, BootPlaces, Copied, Mapping
<1>4. HasWindow /\ HasWindow'
  BY <1>3 DEF HasWindow
<1>5. Typing'
  BY <1>1, <1>3 DEF Typing, Memory, AskedFor
<1>6. Cr3Inv'
  BY <1>1, <1>3 DEF Cr3Inv
<1>7. BootInv'
  BY <1>1, <1>2, <1>3, Layout DEF BootInv
<1>8. KernelDirInv'
  BY <1>1, <1>2, <1>3, <1>4, Layout DEF KernelDirInv, Leads
<1>9. WindowInv'
  BY <1>1, <1>2, <1>3, <1>4 DEF WindowInv
<1>10. AskedInv'
  <2>1. /\ DOMAIN asked'[user_proc_dir] = DOMAIN asked[user_proc_dir] \cup {<<0, y>>}
        /\ \A u \in DOMAIN asked[user_proc_dir] : u # <<0, y>> =>
             asked'[user_proc_dir][u] = asked[user_proc_dir][u]
        /\ asked'[kernel_page_dir] = asked[kernel_page_dir]
    BY Tables DEF AskedFor, Dirs
  <2>2. AskedHigh(kernel_page_dir)'
    BY <1>1, <1>2, <1>4, <2>1 DEF AskedInv, AskedHigh
  <2>3. AskedHigh(user_proc_dir)'
    <3>1. SUFFICES ASSUME NEW v \in DOMAIN asked'[user_proc_dir], v[1] = KPDE
                   PROVE  /\ v = High(v[2]) /\ v[2] \in Index
                          /\ Grants(mem'[T0][v[2]], asked'[user_proc_dir][v],
                                    Text(v[2], asked'[user_proc_dir][v]))
      BY <1>4 DEF AskedHigh
    <3>2. v # <<0, y>>
      BY <3>1, Layout
    <3>3. v \in DOMAIN asked[user_proc_dir]
          /\ asked'[user_proc_dir][v] = asked[user_proc_dir][v]
      BY <2>1, <3>2
    <3>4. /\ v = High(v[2]) /\ v[2] \in Index
          /\ Grants(mem[T0][v[2]], asked[user_proc_dir][v],
                    Text(v[2], asked[user_proc_dir][v]))
      BY <1>1, <3>1, <3>3 DEF AskedInv, AskedHigh
    <3>5. QED
      BY <1>2, <3>3, <3>4
  <2>4. QED
    BY <1>1, <1>3, <2>1, <2>2, <2>3 DEF AskedInv
<1>11. ListInv'
  BY <1>3 DEF ListInv
<1>12. StrayInv(c)'
  BY <1>3 DEF StrayInv
<1>13. UserInv'
  BY <1>12 DEF UserInv
<1>14. QED
  BY <1>5, <1>6, <1>7, <1>8, <1>9, <1>10, <1>11, <1>13 DEF PInv

\* The indices of the list that setup_usercode and create_task reach.
LEMMA ListHeads ==
  ASSUME NEW c \in FreeLists
  PROVE  \A k \in 1..7 : Head(From(c, k)) = c[k] /\ Tail(From(c, k)) = From(c, k + 1)
<1>1. c \in Seq(Frame) /\ Len(c) \in Nat /\ Len(c) >= 7
  BY Lists
<1>2. ASSUME NEW S, NEW s \in Seq(S), NEW k \in 1..7, Len(s) >= 7
      PROVE  Head(SubSeq(s, k, Len(s))) = s[k]
             /\ Tail(SubSeq(s, k, Len(s))) = SubSeq(s, k + 1, Len(s))
  BY <1>2
<1>3. QED
  BY <1>1, <1>2 DEF From

\* The code's page is mapped by the call that makes the user's table.
LEMMA MapUserCodeStep ==
  ASSUME PInv, MapUserCode
  PROVE  PInv' /\ \E c \in FreeLists : Keeps({c[2], user_proc_dir}) /\ TakenInv(c)
<1>1. Typing /\ Cr3Inv /\ KernelDirInv /\ WindowInv /\ AskedInv /\ UserInv
  BY DEF PInv
<1>2. pc = "usercode" /\ pc' = "stack" /\ n' = 1 /\ UNCHANGED <<cr3, stray, got, tcb_cr3>>
  BY DEF MapUserCode
<1>3. PICK c \in FreeLists : /\ TakenInv(c) /\ UserDirInv(c) /\ AskedLow(c)
  BY <1>1, <1>2 DEF UserInv, Copied
<1>4. /\ chain = From(c, 2) /\ Gets(c, 1)
  BY <1>2, <1>3 DEF TakenInv
<1>5. PICK f, r : f = c[1] /\ r = c[2]
  OBVIOUS
<1>6. /\ f \in Frame /\ r \in Frame
      /\ r \notin {kernel_page_dir, user_proc_dir, boot_page_directory,
                   boot_page_table1, T0}
  <2>1. 1 \in 1..Len(c) /\ 2 \in 1..Len(c)
    BY Lists
  <2>2. QED
    BY <1>5, <2>1, Lists
<1>7. got[1] = f
  BY <1>4, <1>5 DEF Gets
<1>8. HasWindow /\ pc \notin Mapping /\ cr3 = kernel_page_dir
  BY <1>1, <1>2 DEF HasWindow, Early, Cr3Inv, KernPlaces, Mapping
<1>25. PICK g : g = Shown(f)
  OBVIOUS
<1>26. g \in Frame
  BY <1>6, <1>25, Layout DEF Shown, Frame
<1>9. V2P(High(got[1])) = g
  BY <1>1, <1>6, <1>7, <1>8, <1>25, V2PIs DEF Frame
<1>10. r = Head(chain) /\ Tail(chain) = From(c, 3)
  BY <1>4, <1>5, ListHeads
<1>11. PICK fl, low, x, y, table :
         /\ fl = UserRO /\ low = Aligned /\ x = 0 /\ y = UserPage /\ table = AfterV2P
  OBVIOUS
<1>12. /\ fl.w \in BOOLEAN /\ fl.u \in BOOLEAN /\ ~fl.w
       /\ low.w = FALSE /\ low.u = FALSE
  BY <1>11, LowIs DEF UserRO
<1>13. /\ mmu_map_page(user_proc_dir, g, low, <<x, y>>, fl, chain, table)
       /\ x \in Index /\ y \in Index /\ user_proc_dir \in Dirs
  BY <1>9, <1>11, Layout DEF MapUserCode, Dirs
<1>14. ~mem[user_proc_dir][x].p
  BY <1>2, <1>3, <1>11, Layout DEF UserDirInv, Copied
<1>15. MakesTable(user_proc_dir, g, low, x, y, fl, chain, r)
  <2>1. PICK d : d = user_proc_dir
    OBVIOUS
  <2>2. /\ mmu_map_page(d, g, low, <<x, y>>, fl, chain, table)
        /\ d \in Dirs /\ ~mem[d][x].p /\ r # d
    BY <1>6, <1>13, <1>14, <2>1
  <2>5. low.w \in BOOLEAN /\ low.u \in BOOLEAN
    BY <1>12
  <2>3. MakesTable(d, g, low, x, y, fl, chain, r)
    BY <1>1, <1>6, <1>26, <1>10, <1>12, <1>13, <2>2, <2>5, MapAbsent
  <2>4. QED
    BY <2>1, <2>3
<1>16. PICK e, wish \in PTE :
         /\ Made(g, low, fl, e, wish) /\ mem' \in Memory /\ mem'[r][y] = e
         /\ \A b \in Index : b # y => ~mem'[r][b].p
         /\ mem'[user_proc_dir][x].p /\ mem'[user_proc_dir][x].f = r
         /\ mem'[user_proc_dir][x].w /\ mem'[user_proc_dir][x].u
         /\ \A b \in Index : b # x => mem'[user_proc_dir][b] = mem[user_proc_dir][b]
         /\ \A a \in Frame : a \notin {r, user_proc_dir} => mem'[a] = mem[a]
         /\ chain' = From(c, 3) /\ slot' = High(r)
         /\ AskedFor(user_proc_dir, <<x, y>>, wish)
  BY <1>10, <1>15 DEF MakesTable
<1>27. e.p /\ e.f = g /\ ~e.w /\ Grants(e, wish, FALSE)
  BY <1>12, <1>16 DEF Made, Grants
<1>17. Keeps({c[2], user_proc_dir})
  BY <1>5, <1>16 DEF Keeps
<1>18. TakenInv(c)'
  BY <1>2, <1>4, <1>5, <1>16 DEF TakenInv, Gets
<1>19. UserDirInv(c)'
  <2>1. x = 0 /\ x # KPDE /\ KPDE \in Index
    BY <1>11, Layout
  <2>2. mem'[user_proc_dir][KPDE] = mem[user_proc_dir][KPDE]
    BY <1>16, <2>1
  <2>3. QED
    BY <1>2, <1>3, <1>5, <1>16, <2>1, <2>2 DEF UserDirInv, Leads, Copied
<1>20. UserTableInv(c)'
  <2>1. Len(got') = 1 /\ got'[1] = f
    BY <1>2, <1>4, <1>7 DEF Gets
  <2>2. /\ \A b \in Index : mem'[c[2]][b].p => b = UserPage
        /\ mem'[c[2]][UserPage].p /\ mem'[c[2]][UserPage].f = Shown(f)
        /\ ~mem'[c[2]][UserPage].w
    BY <1>5, <1>11, <1>16, <1>25, <1>27
  <2>3. \A b \in 0..2 : b < 1 => b = 0
    OBVIOUS
  <2>4. UserPage \in Nat /\ UserPage + 0 = UserPage
    BY Layout
  <2>5. \A b \in Index : mem'[c[2]][b].p =>
          b \in UserPage..UserPage + 2 /\ b - UserPage < Len(got')
    BY <2>1, <2>2, <2>4
  <2>6. \A b \in 0..2 : b < Len(got') =>
          mem'[c[2]][UserPage + b].p /\ mem'[c[2]][UserPage + b].f = Shown(got'[b + 1])
    <3>1. SUFFICES ASSUME NEW b \in 0..2, b < Len(got')
                   PROVE  mem'[c[2]][UserPage + b].p
                          /\ mem'[c[2]][UserPage + b].f = Shown(got'[b + 1])
      OBVIOUS
    <3>2. UserPage + b = UserPage /\ b + 1 = 1
      BY <2>1, <2>3, <2>4, <3>1
    <3>3. QED
      BY <2>1, <2>2, <3>2
  <2>7. QED
    BY <2>2, <2>5, <2>6 DEF UserTableInv
<1>21. AskedLow(c)'
  <2>1. /\ DOMAIN asked'[user_proc_dir] = DOMAIN asked[user_proc_dir] \cup {<<x, y>>}
        /\ asked'[user_proc_dir][<<x, y>>] = wish
    BY <1>16 DEF AskedFor
  <2>2. \A v \in DOMAIN asked[user_proc_dir] : v[1] = KPDE
    BY <1>2, <1>3 DEF AskedLow
  <2>3. \A v \in DOMAIN asked'[user_proc_dir] : v[1] # KPDE => v = <<x, y>>
    BY <2>1, <2>2
  <2>4. QED
    <3>1. SUFFICES ASSUME NEW v \in DOMAIN asked'[user_proc_dir], v[1] # KPDE
                   PROVE  /\ v = <<0, v[2]>> /\ v[2] \in Index
                          /\ Grants(mem'[c[2]][v[2]], asked'[user_proc_dir][v], FALSE)
      BY <1>2 DEF AskedLow
    <3>2. v = <<0, y>> /\ v[2] = y
      BY <1>11, <2>3, <3>1
    <3>3. mem'[c[2]][v[2]] = e /\ asked'[user_proc_dir][v] = wish
      BY <1>5, <1>11, <1>16, <2>1, <3>2
    <3>4. QED
      BY <1>13, <1>27, <3>2, <3>3
<1>22. Loops' /\ n' \in Nat
  BY <1>2 DEF Loops
<1>23. PInv'
  BY <1>2, <1>11, <1>13, <1>16, <1>17, <1>18, <1>19, <1>20, <1>21, <1>22, UserStep
<1>24. QED
  BY <1>3, <1>17, <1>23

\* The two pages of the stack are mapped through the pointer that it left.
LEMMA MapUserStackStep ==
  ASSUME PInv, MapUserStack
  PROVE  PInv' /\ \E c \in FreeLists : Keeps({c[2], user_proc_dir}) /\ TakenInv(c)
<1>1. Typing /\ Loops /\ Cr3Inv /\ KernelDirInv /\ WindowInv /\ AskedInv /\ UserInv
  BY DEF PInv
<1>2. /\ pc = "stack" /\ n \in {1, 2} /\ UNCHANGED <<cr3, stray, tcb_cr3>>
      /\ IF n = 1 THEN pc' = "stack" /\ n' = 2 ELSE pc' = "create_task" /\ n' = n
  BY <1>1 DEF MapUserStack, Loops
<1>3. PICK c \in FreeLists :
        TakenInv(c) /\ UserDirInv(c) /\ UserTableInv(c) /\ AskedLow(c)
  BY <1>1, <1>2 DEF UserInv, Copied
<1>4. chain = From(c, n + 2) /\ Gets(c, n) /\ slot = High(c[2])
  BY <1>2, <1>3 DEF TakenInv
<1>5. PICK k, f, r : k = n + 2 /\ f = c[k] /\ r = c[2]
  OBVIOUS
<1>6. /\ f \in Frame /\ f # Self /\ r \in Frame /\ r # Self
      /\ r \notin {kernel_page_dir, user_proc_dir, boot_page_directory,
                   boot_page_table1, T0}
  <2>1. k \in 1..Len(c) /\ 2 \in 1..Len(c)
    BY <1>2, <1>5, Lists
  <2>3. k # 1 /\ 2 # 1
    BY <1>2, <1>5
  <2>2. QED
    BY <1>5, <2>1, <2>3, Lists
<1>7. HasWindow /\ pc \notin Mapping /\ cr3 = kernel_page_dir
  BY <1>1, <1>2 DEF HasWindow, Early, Cr3Inv, KernPlaces, Mapping
<1>8. Walk(cr3, slot) = r
  BY <1>1, <1>4, <1>5, <1>6, <1>7, V2PIs DEF Frame, Shown
<1>9. /\ f = Head(chain) /\ Tail(chain) = From(c, k + 1)
  BY <1>2, <1>4, <1>5, ListHeads
<1>10. PICK fl, low, x, y, free :
         /\ fl = UserRW /\ low = Aligned /\ x = 0 /\ y = UserPage + n /\ free = Tail(chain)
  OBVIOUS
<1>11. /\ fl.w \in BOOLEAN /\ fl.u \in BOOLEAN
       /\ low.w = FALSE /\ low.u = FALSE
  BY <1>10, LowIs DEF UserRW
<1>12. /\ mmu_map_page(user_proc_dir, f, low, <<x, y>>, fl, free, slot)
       /\ x \in Index /\ y \in Index /\ user_proc_dir \in Dirs
       /\ got' = Append(got, f)
  <2>1. x \in Index /\ y \in Index
    BY <1>2, <1>10, Layout
  <2>2. QED
    BY <1>9, <1>10, <2>1 DEF MapUserStack, Dirs
<1>13. /\ mem[user_proc_dir][x].p /\ mem[user_proc_dir][x].f = r
       /\ mem[user_proc_dir][x].w /\ mem[user_proc_dir][x].u
  BY <1>2, <1>3, <1>5, <1>10 DEF UserDirInv, Copied, Leads
<1>14. PICK e, wish \in PTE :
         /\ Made(f, low, fl, e, wish) /\ mem' \in Memory /\ mem'[r][y] = e
         /\ \A a \in Frame, b \in Index : a # r \/ b # y => mem'[a][b] = mem[a][b]
         /\ chain' = free /\ AskedFor(user_proc_dir, <<x, y>>, wish) /\ slot' = slot
  <2>1. PICK d : d = user_proc_dir
    OBVIOUS
  <2>2. /\ mmu_map_page(d, f, low, <<x, y>>, fl, free, slot)
        /\ d \in Dirs /\ mem[d][x].p
    BY <1>12, <1>13, <2>1
  <2>5. low.w \in BOOLEAN /\ low.u \in BOOLEAN
    BY <1>11
  <2>3. \E e, wish \in PTE :
         /\ Made(f, low, fl, e, wish)
         /\ mem' \in Memory /\ mem'[r][y] = e
         /\ \A a \in Frame, b \in Index : a # r \/ b # y => mem'[a][b] = mem[a][b]
         /\ chain' = free /\ slot' = slot
         /\ AskedFor(d, <<x, y>>, wish)
    BY <1>1, <1>6, <1>8, <1>11, <1>12, <2>2, <2>5, MapPresent
  <2>4. QED
    BY <2>1, <2>3
<1>25. e.p /\ e.f = f /\ Grants(e, wish, FALSE)
  BY <1>11, <1>14 DEF Made, Grants
<1>26. Shown(f) = f
  BY <1>6 DEF Shown
<1>15. Keeps({c[2], user_proc_dir})
  BY <1>5, <1>14 DEF Keeps
<1>16. /\ Len(got') = n + 1 /\ Len(got) = n /\ got' \in Seq(Frame)
       /\ \A j \in 1..n + 1 : got'[j] = IF j = 1 THEN c[1] ELSE c[j + 1]
  <2>1. Len(got) = n /\ \A j \in 1..n : got[j] = IF j = 1 THEN c[1] ELSE c[j + 1]
    BY <1>4 DEF Gets
  <2>2. Len(got') = n + 1 /\ got'[n + 1] = f /\ \A j \in 1..n : got'[j] = got[j]
    BY <1>2, <1>12, <2>1
  <2>3. f = c[(n + 1) + 1] /\ n + 1 # 1
    BY <1>2, <1>5
  <2>4. \A j \in 1..n + 1 : j \in 1..n \/ j = n + 1
    BY <1>2
  <2>5. got' \in Seq(Frame)
    BY <1>4, <1>6, <1>12 DEF Gets
  <2>6. QED
    BY <2>1, <2>2, <2>3, <2>4, <2>5
<1>17. TakenInv(c)'
  <2>1. CASE n = 1
    <3>1. pc' = "stack" /\ n' = 2
      BY <1>2, <2>1
    <3>2. chain' = From(c, 4)
      BY <1>5, <1>9, <1>10, <1>14, <2>1
    <3>3. Gets(c, 2)'
      BY <1>16, <2>1 DEF Gets
    <3>4. slot' = High(c[2])
      BY <1>4, <1>14
    <3>5. QED
      BY <3>1, <3>2, <3>3, <3>4 DEF TakenInv
  <2>2. CASE n = 2
    <3>1. pc' = "create_task"
      BY <1>2, <2>2
    <3>2. chain' = From(c, 5)
      BY <1>5, <1>9, <1>10, <1>14, <2>2
    <3>3. Gets(c, 3)'
      BY <1>16, <2>2 DEF Gets
    <3>4. QED
      BY <3>1, <3>2, <3>3 DEF TakenInv
  <2>3. QED
    BY <1>2, <2>1, <2>2
<1>18. \A b \in Index : mem'[user_proc_dir][b] = mem[user_proc_dir][b]
  BY <1>6, <1>14, Tables
<1>19. UserDirInv(c)'
  BY <1>2, <1>3, <1>18, Layout DEF UserDirInv, Leads, Copied
<1>20. UserTableInv(c)'
  <2>1. /\ \A b \in Index : mem[r][b].p =>
             b \in UserPage..UserPage + 2 /\ b - UserPage < n
        /\ ~mem[r][UserPage].w
        /\ \A j \in 0..2 : j < n =>
             mem[r][UserPage + j].p /\ mem[r][UserPage + j].f = Shown(got[j + 1])
    BY <1>2, <1>3, <1>5, <1>16 DEF UserTableInv, Copied
  <2>2. \A b \in Index : b # y => mem'[r][b] = mem[r][b]
    BY <1>6, <1>14
  <2>3. y = UserPage + n /\ UserPage \in Nat
    BY <1>10, Layout
  <2>4. \A b \in Index : mem'[r][b].p =>
          b \in UserPage..UserPage + 2 /\ b - UserPage < n + 1
    BY <1>2, <2>1, <2>2, <2>3, Layout
  <2>5. ASSUME NEW j \in 0..2, j < n + 1
        PROVE  mem'[r][UserPage + j].p /\ mem'[r][UserPage + j].f = Shown(got'[j + 1])
    <3>1. CASE j = n
      <4>1. got'[j + 1] = f
        <5>1. Len(got') = n + 1 /\ got'[n + 1] = f
          BY <1>2, <1>12, <1>16, <1>4 DEF Gets
        <5>2. QED
          BY <3>1, <5>1
      <4>2. mem'[r][UserPage + j] = e
        BY <1>14, <2>3, <3>1
      <4>3. QED
        BY <1>25, <1>26, <4>1, <4>2
    <3>2. CASE j < n
      <4>1. UserPage + j \in Index /\ UserPage + j # y
        BY <1>2, <2>3, <2>5, <3>2, Layout
      <4>2. mem'[r][UserPage + j] = mem[r][UserPage + j]
        BY <2>2, <4>1
      <4>3. mem[r][UserPage + j].p /\ mem[r][UserPage + j].f = Shown(got[j + 1])
        BY <2>1, <2>5, <3>2
      <4>4. got'[j + 1] = got[j + 1]
        BY <1>2, <1>12, <1>16, <2>5, <3>2
      <4>5. QED
        BY <4>2, <4>3, <4>4
    <3>3. QED
      BY <1>2, <2>5, <3>1, <3>2
  <2>7. ~mem'[r][UserPage].w
    <3>1. UserPage # y /\ UserPage \in Index
      BY <1>2, <2>3, Layout
    <3>2. QED
      BY <2>1, <2>2, <3>1
  <2>6. QED
    BY <1>5, <1>16, <2>4, <2>5, <2>7 DEF UserTableInv
<1>21. AskedLow(c)'
  <2>1. /\ DOMAIN asked'[user_proc_dir] = DOMAIN asked[user_proc_dir] \cup {<<x, y>>}
        /\ asked'[user_proc_dir][<<x, y>>] = wish
        /\ \A v \in DOMAIN asked[user_proc_dir] : v # <<x, y>> =>
             asked'[user_proc_dir][v] = asked[user_proc_dir][v]
    BY <1>14 DEF AskedFor
  <2>2. pc' # "usercode"
    BY <1>2
  <2>3. ASSUME NEW v \in DOMAIN asked'[user_proc_dir], v[1] # KPDE
        PROVE  /\ v = <<0, v[2]>> /\ v[2] \in Index
               /\ Grants(mem'[r][v[2]], asked'[user_proc_dir][v], FALSE)
    <3>1. CASE v = <<x, y>>
      <4>1. v = <<0, y>> /\ v[2] = y /\ asked'[user_proc_dir][v] = wish
        BY <1>10, <2>1, <3>1
      <4>2. QED
        BY <1>12, <1>14, <1>25, <4>1
    <3>2. CASE v # <<x, y>>
      <4>1. v \in DOMAIN asked[user_proc_dir]
            /\ asked'[user_proc_dir][v] = asked[user_proc_dir][v]
        BY <2>1, <3>2
      <4>2. /\ v = <<0, v[2]>> /\ v[2] \in Index
            /\ Grants(mem[r][v[2]], asked[user_proc_dir][v], FALSE)
        BY <1>3, <1>5, <2>3, <4>1 DEF AskedLow
      <4>3. v[2] # y
        BY <1>10, <3>2, <4>2
      <4>4. mem'[r][v[2]] = mem[r][v[2]]
        BY <1>6, <1>14, <4>2, <4>3
      <4>5. QED
        BY <4>1, <4>2, <4>4
    <3>3. QED
      BY <3>1, <3>2
  <2>4. QED
    BY <1>5, <2>2, <2>3 DEF AskedLow
<1>22. Loops' /\ n' \in Nat
  BY <1>2 DEF Loops
<1>23. PInv'
  <2>1. AskedFor(user_proc_dir, <<0, y>>, wish)
    BY <1>10, <1>14
  <2>2. pc' \in {"stack", "create_task"} /\ UNCHANGED cr3
    BY <1>2
  <2>3. QED
    BY <1>2, <1>12, <1>14, <1>15, <1>17, <1>19, <1>20, <1>21, <1>22, <2>1, <2>2, UserStep
<1>24. QED
  BY <1>3, <1>15, <1>23

\* create_task finds the directory's physical address and takes two pages.
LEMMA CreateTaskStep ==
  ASSUME PInv, CreateTask
  PROVE  PInv'
<1>1. Typing /\ Loops /\ Cr3Inv /\ KernelDirInv /\ WindowInv /\ UserInv
  BY DEF PInv
<1>2. /\ pc = "create_task" /\ pc' = "stray" /\ n' = 4
      /\ UNCHANGED <<mem, cr3, stray, asked>>
      /\ got' = got \o SubSeq(chain, 1, 2) /\ chain' = SubSeq(chain, 3, Len(chain))
      /\ tcb_cr3' = V2P(High(user_proc_dir))
  BY DEF CreateTask
<1>3. PICK c \in FreeLists :
        TakenInv(c) /\ UserDirInv(c) /\ UserTableInv(c) /\ AskedLow(c)
  BY <1>1, <1>2 DEF UserInv, Copied
<1>4. chain = From(c, 5) /\ Gets(c, 3)
  BY <1>2, <1>3 DEF TakenInv
<1>5. HasWindow /\ pc \notin Mapping /\ cr3 = kernel_page_dir
  BY <1>1, <1>2 DEF HasWindow, Early, Cr3Inv, KernPlaces, Mapping
<1>6. tcb_cr3' = user_proc_dir
  <2>1. user_proc_dir \in Index /\ user_proc_dir # Self
    BY Tables, Layout DEF Frame
  <2>2. QED
    BY <1>1, <1>2, <1>5, <2>1, V2PIs DEF Shown
<1>7. c \in Seq(Frame) /\ Len(c) \in Nat /\ Len(c) >= 7
  BY Lists
<1>8. /\ Len(SubSeq(chain, 1, 2)) = 2
      /\ SubSeq(chain, 1, 2)[1] = c[5] /\ SubSeq(chain, 1, 2)[2] = c[6]
      /\ chain' = From(c, 7)
  <2>1. ASSUME NEW S, NEW s \in Seq(S), Len(s) >= 7, NEW t, t = SubSeq(s, 5, Len(s))
        PROVE  /\ t \in Seq(S) /\ Len(t) = Len(s) - 4
               /\ \A x \in 1..Len(t) : t[x] = s[x + 4]
    BY <2>1
  <2>2. /\ chain \in Seq(Frame) /\ Len(chain) = Len(c) - 4
        /\ \A x \in 1..Len(chain) : chain[x] = c[x + 4]
    BY <1>4, <1>7, <2>1 DEF From
  <2>3. ASSUME NEW S, NEW t \in Seq(S), Len(t) >= 3
        PROVE  /\ Len(SubSeq(t, 1, 2)) = 2 /\ SubSeq(t, 1, 2)[1] = t[1]
               /\ SubSeq(t, 1, 2)[2] = t[2]
    BY <2>3
  <2>4. chain[1] = c[5] /\ chain[2] = c[6]
    BY <1>7, <2>2
  <2>5. SubSeq(chain, 3, Len(chain)) = SubSeq(c, 7, Len(c))
    <3>1. ASSUME NEW S, NEW s \in Seq(S), Len(s) >= 7
          PROVE  SubSeq(SubSeq(s, 5, Len(s)), 3, Len(s) - 4) = SubSeq(s, 7, Len(s))
      BY <3>1
    <3>2. SubSeq(SubSeq(c, 5, Len(c)), 3, Len(c) - 4) = SubSeq(c, 7, Len(c))
      BY <1>7, <3>1
    <3>3. QED
      BY <1>4, <2>2, <3>2 DEF From
  <2>6. QED
    BY <1>2, <1>7, <2>2, <2>3, <2>4, <2>5 DEF From
<1>9. Gets(c, 5)'
  <2>1. PICK t : t = SubSeq(chain, 1, 2)
    OBVIOUS
  <2>2. Len(got) = 3 /\ got[1] = c[1] /\ got[2] = c[3] /\ got[3] = c[4]
    BY <1>4 DEF Gets
  <2>9. got \in Seq(Frame) /\ t \in Seq(Frame) /\ got \o t \in Seq(Frame) /\ Len(t) = 2
    <3>1. ASSUME NEW S, NEW s \in Seq(S), Len(s) >= 7
          PROVE  SubSeq(SubSeq(s, 5, Len(s)), 1, 2) \in Seq(S)
      BY <3>1
    <3>2. QED
      BY <1>4, <1>7, <1>8, <2>1, <3>1 DEF Gets, From
  <2>3. /\ Len(got \o t) = 5 /\ (got \o t)[1] = got[1] /\ (got \o t)[2] = got[2]
        /\ (got \o t)[3] = got[3] /\ (got \o t)[4] = t[1] /\ (got \o t)[5] = t[2]
    <3>1. ASSUME NEW S, NEW s \in Seq(S), NEW z \in Seq(S), Len(s) = 3, Len(z) = 2
          PROVE  /\ Len(s \o z) = 5 /\ (s \o z)[1] = s[1] /\ (s \o z)[2] = s[2]
                 /\ (s \o z)[3] = s[3] /\ (s \o z)[4] = z[1] /\ (s \o z)[5] = z[2]
      <4>1. PICK v : v = s \o z
        OBVIOUS
      <4>2. /\ Len(v) = 5
            /\ \A i \in 1..5 : v[i] = IF i <= 3 THEN s[i] ELSE z[i - 3]
        <5>1. /\ Len(v) = Len(s) + Len(z)
              /\ \A i \in 1..Len(s) + Len(z) :
                   v[i] = IF i <= Len(s) THEN s[i] ELSE z[i - Len(s)]
          BY <4>1, ConcatProperties
        <5>2. QED
          BY <3>1, <5>1
      <4>3. QED
        BY SMTT(30), <4>1, <4>2
    <3>2. QED
      BY <2>2, <2>9, <3>1
  <2>4. \A x \in 1..5 : x = 1 \/ x = 2 \/ x = 3 \/ x = 4 \/ x = 5
    OBVIOUS
  <2>5. /\ Len(got') = 5 /\ got'[1] = c[1] /\ got'[2] = c[3] /\ got'[3] = c[4]
        /\ got'[4] = c[5] /\ got'[5] = c[6]
    BY <1>2, <1>8, <2>1, <2>2, <2>3, <2>9
  <2>6. ASSUME NEW x \in 1..5 PROVE got'[x] = IF x = 1 THEN c[1] ELSE c[x + 1]
    BY <2>4, <2>5
  <2>7. QED
    BY <1>2, <2>1, <2>5, <2>6, <2>9 DEF Gets
<1>10. TakenInv(c)'
  BY <1>2, <1>8, <1>9 DEF TakenInv
<1>11. UserDirInv(c)' /\ AskedLow(c)'
  BY <1>2, <1>3 DEF UserDirInv, AskedLow, Leads, Copied
<1>12. UserTableInv(c)'
  <2>1. Len(got) = 3 /\ Len(got') = 5 /\ got'[1] = got[1] /\ got'[2] = got[2]
        /\ got'[3] = got[3]
    BY <1>4, <1>9 DEF Gets
  <2>5. \A x \in Index : mem[c[2]][x].p => x \in UserPage..UserPage + 2
    BY <1>2, <1>3 DEF UserTableInv, Copied
  <2>6. \A y \in 0..2 : /\ mem[c[2]][UserPage + y].p
                       /\ mem[c[2]][UserPage + y].f = Shown(got[y + 1])
    <3>1. \A y \in 0..2 : y < Len(got)
      BY <2>1
    <3>2. QED
      BY <1>2, <1>3, <3>1 DEF UserTableInv, Copied
  <2>7. \A x \in UserPage..UserPage + 2 : x - UserPage < 5
    BY Layout
  <2>2. /\ \A x \in Index : mem[c[2]][x].p =>
             x \in UserPage..UserPage + 2 /\ x - UserPage < 5
        /\ \A y \in 0..2 : mem[c[2]][UserPage + y].p
             /\ mem[c[2]][UserPage + y].f = Shown(got[y + 1])
    BY <2>5, <2>6, <2>7
  <2>3. \A y \in 0..2 : got'[y + 1] = got[y + 1]
    BY <2>1
  <2>4. QED
    BY <1>2, <1>3, <2>1, <2>2, <2>3 DEF UserTableInv, Copied
<1>13. StrayInv(c)'
  BY <1>1, <1>2, <1>5 DEF StrayInv, KernelDirInv, Mapping
<1>14. UserInv'
  BY <1>10, <1>11, <1>12, <1>13 DEF UserInv
<1>15. Loops' /\ Cr3Inv' /\ ListInv'
  BY <1>1, <1>2, <1>6 DEF Loops, Cr3Inv, ListInv, BootPlaces, KernPlaces, Copied, Early
<1>16. QED
  BY <1>2, <1>14, <1>15, QuietStep

\* yield loads the directory that create_task found.
LEMMA LoadUserDirectoryStep ==
  ASSUME PInv, LoadUserDirectory
  PROVE  PInv'
<1>1. Typing /\ Cr3Inv /\ UserInv
  BY DEF PInv
<1>2. /\ pc = "yield" /\ pc' = "user" /\ cr3' = tcb_cr3
      /\ UNCHANGED <<n, mem, slot, chain, stray, got, tcb_cr3, asked>>
  BY DEF LoadUserDirectory
<1>3. tcb_cr3 = user_proc_dir
  BY <1>1, <1>2 DEF Cr3Inv
<1>4. PICK c \in FreeLists : /\ TakenInv(c) /\ UserDirInv(c) /\ UserTableInv(c)
                            /\ AskedLow(c) /\ StrayInv(c)
  BY <1>1, <1>2 DEF UserInv, Copied
<1>5. TakenInv(c)' /\ UserDirInv(c)'
  BY <1>2, <1>4 DEF TakenInv, Gets, UserDirInv, Leads, Copied
<1>6. UserTableInv(c)' /\ AskedLow(c)' /\ StrayInv(c)'
  BY <1>2, <1>4 DEF UserTableInv, AskedLow, StrayInv, Copied
<1>7. UserInv'
  BY <1>5, <1>6 DEF UserInv
<1>8. Loops' /\ Cr3Inv' /\ ListInv'
  BY <1>2, <1>3 DEF Loops, Cr3Inv, ListInv, BootPlaces, KernPlaces, Copied, Early
<1>9. QED
  BY <1>1, <1>2, <1>7, <1>8, QuietStep DEF Typing

\* The tables that a directory shows, but for itself, stay what they are.
Coherent(d) ==
  \A x \in Index : x # Self /\ mem[d][x].p =>
    /\ mem'[d][x] = mem[d][x]
    /\ \A y \in Index : mem'[mem[d][x].f][y] = mem[mem[d][x].f][y]

\* What MapStray has to show once the memory is known: it writes one entry of
\* the kernel's directory, or one free page.
LEMMA StrayStep ==
  ASSUME PInv, pc = "stray", NEW c \in FreeLists, NEW i \in Index, NEW r \in Frame,
         mem' \in Memory, UNCHANGED <<cr3, got, tcb_cr3, asked>>,
         TakenInv(c), UserDirInv(c), UserTableInv(c), AskedLow(c),
         r \notin {user_proc_dir, boot_page_directory, boot_page_table1, T0, c[2]},
         \A a \in Frame, b \in Index : a # r \/ (r = kernel_page_dir /\ b # i) =>
           mem'[a][b] = mem[a][b],
         i \notin {KPDE, Self},
         (pc' = "stray" /\ n' = 5) \/ (pc' = "yield" /\ n' = n),
         TakenInv(c)', StrayInv(c)'
  PROVE  PInv'
<1>1. Typing /\ Cr3Inv /\ BootInv /\ KernelDirInv /\ WindowInv /\ AskedInv
  BY DEF PInv
<1>2. \A b \in Index :
        /\ mem'[boot_page_directory][b] = mem[boot_page_directory][b]
        /\ mem'[boot_page_table1][b] = mem[boot_page_table1][b]
        /\ mem'[T0][b] = mem[T0][b]
        /\ mem'[user_proc_dir][b] = mem[user_proc_dir][b]
        /\ mem'[c[2]][b] = mem[c[2]][b]
  <2>1. 2 \in 1..Len(c)
    BY Lists
  <2>2. c[2] \in Frame
    BY <2>1, Lists
  <2>3. QED
    BY <2>2, Tables
<1>3. /\ mem'[kernel_page_dir][Self] = mem[kernel_page_dir][Self]
      /\ mem'[kernel_page_dir][KPDE] = mem[kernel_page_dir][KPDE]
  BY Tables, Layout
<1>4. HasWindow /\ HasWindow' /\ pc' # "window" /\ pc' # "code" /\ pc # "window"
      /\ pc # "code" /\ pc # "boot" /\ pc' \in {"stray", "yield"} /\ pc' \notin Early
      /\ pc \notin Early /\ pc \notin Mapping /\ pc' \notin Mapping
  BY DEF HasWindow, Early, Mapping
<1>5. Typing'
  BY <1>1, <1>4 DEF Typing, Memory, KernPlaces
<1>6. Cr3Inv' /\ Loops' /\ ListInv'
  BY <1>1, <1>4 DEF Cr3Inv, Loops, ListInv, BootPlaces, KernPlaces, Copied, Early
<1>7. BootInv'
  BY <1>1, <1>2, <1>4, Layout DEF BootInv
<1>8. KernelDirInv'
  BY <1>1, <1>3, <1>4 DEF KernelDirInv, Leads
<1>9. WindowInv'
  BY <1>1, <1>2, <1>4 DEF WindowInv
<1>10. AskedInv'
  BY <1>1, <1>2, <1>4 DEF AskedInv, AskedHigh, Copied
<1>11. UserDirInv(c)'
  BY <1>2, <1>4, Layout DEF UserDirInv, Leads, Copied
<1>12. UserTableInv(c)'
  <2>1. \A y \in 0..2 : UserPage + y \in Index
    BY Layout
  <2>3. UserPage \in Index
    BY Layout
  <2>4. /\ \A x \in Index : mem[c[2]][x].p =>
             x \in UserPage..UserPage + 2 /\ x - UserPage < Len(got)
        /\ \A y \in 0..2 : y < Len(got) =>
             mem[c[2]][UserPage + y].p /\ mem[c[2]][UserPage + y].f = Shown(got[y + 1])
        /\ ~mem[c[2]][UserPage].w
    BY <1>4 DEF UserTableInv, Copied
  <2>2. QED
    BY <1>2, <1>4, <2>1, <2>3, <2>4 DEF UserTableInv
<1>13. AskedLow(c)'
  BY <1>2, <1>4 DEF AskedLow
<1>14. UserInv'
  BY <1>11, <1>12, <1>13 DEF UserInv
<1>15. QED
  BY <1>5, <1>6, <1>7, <1>8, <1>9, <1>10, <1>14 DEF PInv

\* What create_task maps by mistake changes no page that a directory shows.
LEMMA MapStrayStep ==
  ASSUME PInv, MapStray
  PROVE  PInv' /\ Coherent(kernel_page_dir)
<1>1. Typing /\ Loops /\ Cr3Inv /\ KernelDirInv /\ WindowInv /\ UserInv
  BY DEF PInv
<1>2. /\ pc = "stray" /\ n \in {4, 5} /\ UNCHANGED <<cr3, got, tcb_cr3, asked>>
      /\ IF n = 4 THEN pc' = "stray" /\ n' = 5 ELSE pc' = "yield" /\ n' = n
  BY <1>1 DEF MapStray, Loops
<1>3. PICK c \in FreeLists : /\ TakenInv(c) /\ UserDirInv(c) /\ UserTableInv(c)
                            /\ AskedLow(c) /\ StrayInv(c)
  BY <1>1, <1>2 DEF UserInv, Copied
<1>4. /\ Gets(c, 5) /\ chain \in {From(c, 7), From(c, 8)}
      /\ n = 4 => chain = From(c, 7)
  BY <1>2, <1>3 DEF TakenInv
<1>5. PICK i, r : i = got[n] /\ r = c[7]
  OBVIOUS
<1>6. i = IF n = 4 THEN c[5] ELSE c[6]
  BY <1>2, <1>4, <1>5 DEF Gets
<1>7. /\ i \in Index /\ i \notin {0, KPDE, Self} /\ r \in Frame
      /\ r \notin {kernel_page_dir, user_proc_dir, boot_page_directory,
                   boot_page_table1, T0, c[2]}
      /\ c[2] # kernel_page_dir
      /\ c[5] # c[6] /\ c[5] \in Frame /\ c[5] # kernel_page_dir /\ c[5] # r
  <2>1. /\ 2 \in 1..Len(c) /\ 5 \in 1..Len(c) /\ 6 \in 1..Len(c) /\ 7 \in 1..Len(c)
    BY Lists
  <2>2. \A x, y \in 1..Len(c) : c[x] = c[y] => x = y
    BY Lists
  <2>3. /\ c[5] \in Frame /\ c[5] # Self /\ c[6] \in Frame /\ c[6] # Self
        /\ c[5] # kernel_page_dir /\ c[2] # kernel_page_dir
        /\ c[7] \in Frame
        /\ c[7] \notin {kernel_page_dir, user_proc_dir, boot_page_directory,
                        boot_page_table1, T0}
    BY <2>1, Lists
  <2>4. c[5] # c[6] /\ c[5] # c[7] /\ c[2] # c[7]
    BY <2>1, <2>2
  <2>5. c[5] \notin {0, KPDE} /\ c[6] \notin {0, KPDE}
    BY Lists
  <2>6. QED
    BY <1>5, <1>6, <2>3, <2>4, <2>5 DEF Frame
<1>8. HasWindow /\ pc \notin Mapping /\ cr3 = kernel_page_dir
  BY <1>1, <1>2 DEF HasWindow, Early, Cr3Inv, KernPlaces, Mapping
<1>9. V2P(High(i)) = i /\ Walk(cr3, AfterV2P) = kernel_page_dir
  BY <1>1, <1>7, <1>8, V2PIs DEF AfterV2P, Shown
<1>10. PICK pte : pte = Entry(i, TRUE, n = 4)
  OBVIOUS
<1>11. pte \in PTE /\ pte.p /\ pte.f = i
  <2>1. (n = 4) \in BOOLEAN /\ TRUE \in BOOLEAN /\ i \in Frame
    BY <1>7 DEF Frame
  <2>2. QED
    BY <1>10, <2>1 DEF Entry, PTE
<1>12. mem \in Memory
  BY <1>1 DEF Typing, Memory
<1>13. \A x \in Index : x # Self /\ mem[kernel_page_dir][x].p =>
         /\ x # i /\ mem[kernel_page_dir][x].f \in Frame
         /\ mem[kernel_page_dir][x].f \notin {kernel_page_dir, r}
  <2>1. mem[kernel_page_dir][KPDE].f = T0
    BY <1>1, <1>8 DEF KernelDirInv, Leads
  <2>2. SUFFICES ASSUME NEW x \in Index, x # Self, mem[kernel_page_dir][x].p
                 PROVE  /\ x # i /\ mem[kernel_page_dir][x].f \in Frame
                        /\ mem[kernel_page_dir][x].f \notin {kernel_page_dir, r}
    OBVIOUS
  <2>3. x = KPDE \/ (n = 5 /\ x = c[5] /\ mem[kernel_page_dir][x].f = c[5])
    BY <1>2, <1>3, <2>2 DEF StrayInv
  <2>4. CASE x = KPDE
    BY <1>7, <2>1, <2>4, Tables
  <2>5. CASE n = 5 /\ x = c[5] /\ mem[kernel_page_dir][x].f = c[5]
    BY <1>6, <1>7, <2>5
  <2>6. QED
    BY <2>3, <2>4, <2>5
<1>17. (pc' = "stray" /\ n' = 5) \/ (pc' = "yield" /\ n' = n)
  <2>1. CASE n = 4
    BY <1>2, <2>1
  <2>2. CASE n # 4
    BY <1>2, <2>2
  <2>3. QED
    BY <2>1, <2>2
<1>14. CASE stray.p
  <2>1. /\ CellBecomes(mem', mem, kernel_page_dir, i, pte)
        /\ UNCHANGED <<chain, stray>>
    BY <1>5, <1>9, <1>10, <1>14 DEF MapStray, CellBecomes
  <2>2. /\ mem' \in Memory /\ mem'[kernel_page_dir][i] = pte
        /\ \A a \in Frame, b \in Index :
             a # kernel_page_dir \/ b # i => mem'[a][b] = mem[a][b]
    BY <1>7, <1>11, <1>12, <2>1, CellWritten, Tables
  <2>3. TakenInv(c)'
    BY <1>2, <1>4, <2>1 DEF TakenInv, Gets
  <2>4. StrayInv(c)'
    <3>1. \A x \in Index : x # i =>
            mem'[kernel_page_dir][x] = mem[kernel_page_dir][x]
      BY <2>2, Tables
    <3>2. CASE n = 4
      BY <1>2, <1>3, <1>6, <1>11, <1>14, <2>1, <2>2, <3>1, <3>2 DEF StrayInv
    <3>3. CASE n = 5
      BY <1>2, <1>3, <1>6, <3>1, <3>3 DEF StrayInv
    <3>4. QED
      BY <1>2, <3>2, <3>3
  <2>5. Coherent(kernel_page_dir)
    BY <1>13, <2>2, Tables DEF Coherent
  <2>6. PInv'
    <3>1. PICK q : q = kernel_page_dir
      OBVIOUS
    <3>2. q \notin {user_proc_dir, boot_page_directory, boot_page_table1, T0, c[2]}
          /\ q \in Frame
      BY <1>7, <3>1, Tables
    <3>3. \A a \in Frame, b \in Index : a # q \/ (q = kernel_page_dir /\ b # i) =>
            mem'[a][b] = mem[a][b]
      BY <2>2, <3>1
    <3>5. QED
      BY <1>2, <1>3, <1>7, <2>2, <2>3, <2>4, <3>2, <3>3, <1>17, StrayStep
  <2>7. QED
    BY <2>5, <2>6
<1>15. CASE ~stray.p
  <2>1. n = 4 /\ pc' = "stray" /\ n' = 5
    BY <1>2, <1>3, <1>15 DEF StrayInv
  <2>2. r = Head(chain) /\ Tail(chain) = From(c, 8)
    BY <1>4, <1>5, <2>1, ListHeads
  <2>3. PICK t : t = [NewTable(r) EXCEPT ![i] = pte]
    OBVIOUS
  <2>4. /\ TableBecomes(mem', mem, r, t) /\ chain' = From(c, 8)
        /\ stray' = Entry(r, TRUE, TRUE)
    BY <1>5, <1>9, <1>10, <1>15, <2>2, <2>3 DEF MapStray, TableBecomes
  <2>5. t \in [Index -> PTE]
    <3>1. NewTable(r) \in [Index -> PTE]
      BY AbsentIs DEF NewTable
    <3>2. QED
      BY <1>11, <2>3, <3>1
  <2>6. /\ mem' \in Memory
        /\ \A a \in Frame : a # r => mem'[a] = mem[a]
    BY <1>7, <1>12, <2>4, <2>5, TableWritten
  <2>7. stray'.p
    BY <2>4 DEF Entry
  <2>8. TakenInv(c)'
    BY <1>2, <1>4, <2>1, <2>4 DEF TakenInv, Gets
  <2>9. mem'[kernel_page_dir] = mem[kernel_page_dir]
    BY <1>7, <2>6, Tables
  <2>10. StrayInv(c)'
    BY <1>2, <1>3, <2>1, <2>7, <2>9 DEF StrayInv
  <2>11. Coherent(kernel_page_dir)
    BY <1>13, <2>6, <2>9 DEF Coherent
  <2>12. PInv'
    <3>1. r \notin {user_proc_dir, boot_page_directory, boot_page_table1, T0, c[2]}
      BY <1>7
    <3>2. \A a \in Frame, b \in Index : a # r \/ (r = kernel_page_dir /\ b # i) =>
            mem'[a][b] = mem[a][b]
      BY <1>7, <2>6
    <3>3. QED
      BY <1>2, <1>3, <1>7, <1>17, <2>6, <2>8, <2>10, <3>1, <3>2, StrayStep
  <2>13. QED
    BY <2>11, <2>12
<1>16. QED
  BY <1>14, <1>15

\* Every step keeps the invariant.
LEMMA PStep == PInv /\ [Next]_vars => PInv'
<1> SUFFICES ASSUME PInv, [Next]_vars PROVE PInv'
  OBVIOUS
<1>1. CASE BootTables
  BY <1>1, BootTablesStep
<1>2. CASE EnablePaging \/ JumpHigh
  BY <1>2, EnablePagingStep
<1>3. CASE UnmapLow
  BY <1>3, UnmapLowStep
<1>4. CASE ClearDirectory
  BY <1>4, ClearDirectoryStep
<1>5. CASE MapWindow
  BY <1>5, FirstCallStep, MapWindowStep
<1>6. CASE MapCode
  BY <1>6, MapCodeStep
<1>7. CASE MapData
  BY <1>7, MapDataStep
<1>8. CASE MapVga
  BY <1>8, MapVgaStep
<1>9. CASE LoadKernelDirectory
  BY <1>9, LoadKernelDirectoryStep
<1>10. CASE FreePool
  BY <1>10, FreePoolStep
<1>11. CASE CopyDirectory
  BY <1>11, CopyDirectoryStep
<1>12. CASE MapUserCode
  BY <1>12, MapUserCodeStep
<1>13. CASE MapUserStack
  BY <1>13, MapUserStackStep
<1>14. CASE CreateTask
  BY <1>14, CreateTaskStep
<1>15. CASE MapStray
  BY <1>15, MapStrayStep
<1>16. CASE LoadUserDirectory
  BY <1>16, LoadUserDirectoryStep
<1>17. CASE UNCHANGED vars
  <2>1. UNCHANGED <<pc, n, mem, cr3, slot, chain, stray, got, tcb_cr3, asked>>
    BY <1>17 DEF vars
  <2>2. /\ Typing' /\ Loops' /\ Cr3Inv' /\ BootInv'
    BY <2>1 DEF PInv, Typing, Loops, Cr3Inv, BootInv
  <2>3. /\ KernelDirInv' /\ WindowInv' /\ AskedInv' /\ ListInv'
    BY <2>1 DEF PInv, KernelDirInv, WindowInv, AskedInv, ListInv, HasWindow, Leads,
                AskedHigh
  <2>4. ASSUME NEW c \in FreeLists
        PROVE  /\ TakenInv(c) => TakenInv(c)'
               /\ UserDirInv(c) => UserDirInv(c)'
               /\ UserTableInv(c) => UserTableInv(c)'
               /\ AskedLow(c) => AskedLow(c)'
               /\ StrayInv(c) => StrayInv(c)'
    <3>1. TakenInv(c) => TakenInv(c)'
      BY <2>1 DEF TakenInv, Gets
    <3>2. /\ UserDirInv(c) => UserDirInv(c)'
          /\ UserTableInv(c) => UserTableInv(c)'
      BY <2>1 DEF UserDirInv, UserTableInv, Leads
    <3>3. /\ AskedLow(c) => AskedLow(c)'
          /\ StrayInv(c) => StrayInv(c)'
      BY <2>1 DEF AskedLow, StrayInv
    <3>4. QED
      BY <3>1, <3>2, <3>3
  <2>5. UserInv'
    BY <2>1, <2>4 DEF UserInv, PInv
  <2>6. QED
    BY <2>2, <2>3, <2>5 DEF PInv
<1>18. QED
  BY <1>1, <1>2, <1>3, <1>4, <1>5, <1>6, <1>7, <1>8, <1>9, <1>10, <1>11, <1>12,
     <1>13, <1>14, <1>15, <1>16, <1>17 DEF Next

-----------------------------------------------------------------------------
(* The theorems.                                                            *)

\* Every directory that the boot uses is what the steps so far made of it, and
\* the table pointer that mmu_map_page leaves unset leads to the table that the
\* next call means.
THEOREM PagingInvariant == Spec => []PInv
<1>1. PInv /\ [Next]_vars => PInv'
  BY PStep
<1>2. QED
  BY InitPInv, <1>1, PTL DEF Spec

\* What is in the free list: pages of static_pool, and of the memory map once
\* the kernel's directory is in use; the window's last page only until the next
\* kalloc.
LEMMA ListBelow ==
  ASSUME PInv
  PROVE  /\ Members(chain) \subseteq Index
         /\ pc \notin KernPlaces \cup {"user"} => Members(chain) \subseteq Image
         /\ \A x \in 1..Len(chain) : chain[x] = Self => pc = "copy" /\ x = 1
<1>1. ListInv /\ UserInv /\ Typing
  BY DEF PInv
<1>2. /\ Members(StaticList) \subseteq Image
      /\ Members(Tail(StaticList)) \subseteq Image
  <2>1. ASSUME NEW S, NEW s \in Seq(S), s # <<>>
        PROVE  /\ \A x \in 1..Len(s) : s[x] \in S
               /\ \A x \in 1..Len(Tail(s)) : Tail(s)[x] \in S
    BY <2>1
  <2>2. PICK S : S = (edata..KernelEnd - 1) \ (Dirs \cup BootTable)
    OBVIOUS
  <2>3. StaticList \in Seq(S) /\ StaticList # <<>>
    BY <2>2, PoolAssumption
  <2>4. /\ \A x \in 1..Len(StaticList) : StaticList[x] \in S
        /\ \A x \in 1..Len(Tail(StaticList)) : Tail(StaticList)[x] \in S
    BY <2>1, <2>3
  <2>5. S \subseteq Image
    BY <2>2, Layout DEF Image
  <2>6. QED
    BY <2>4, <2>5 DEF Members
<1>3. Image \subseteq Index \ {Self}
  BY Layout DEF Image
<1>4. CASE pc \notin Copied \cup {"copy"}
  <2>1. chain = StaticList \/ chain = Tail(StaticList)
    BY <1>1, <1>4 DEF ListInv, HasWindow
  <2>2. Members(chain) \subseteq Image
    BY <1>2, <2>1
  <2>3. \A x \in 1..Len(chain) : chain[x] # Self
    BY <1>3, <2>2 DEF Members
  <2>4. QED
    BY <1>3, <2>2, <2>3
<1>5. CASE pc \in Copied \cup {"copy"}
  <2>1. PICK c \in FreeLists : TakenInv(c)
    BY <1>1, <1>5 DEF UserInv
  <2>2. c \in Seq(Frame) /\ Len(c) >= 7 /\ Len(c) \in Nat
        /\ \A x \in 1..Len(c) : c[x] \in Frame /\ (x # 1 => c[x] # Self)
    BY Lists
  <2>3. \E k \in 1..8 : chain = From(c, k) /\ (k = 1 => pc = "copy")
    <3>1. \/ pc = "copy" /\ chain = c
          \/ chain = From(c, 2) \/ (n \in {1, 2} /\ chain = From(c, n + 2))
          \/ chain = From(c, 5) \/ chain = From(c, 7) \/ chain = From(c, 8)
      BY <1>5, <2>1 DEF TakenInv, Copied, PInv, Loops
    <3>2. c = From(c, 1)
      <4>1. ASSUME NEW S, NEW s \in Seq(S) PROVE s = SubSeq(s, 1, Len(s))
        BY <4>1
      <4>2. QED
        BY <2>2, <4>1 DEF From
    <3>3. n \in {1, 2} => n + 2 \in 2..8
      OBVIOUS
    <3>4. QED
      BY <3>1, <3>2, <3>3
  <2>4. PICK k \in 1..8 : chain = From(c, k) /\ (k = 1 => pc = "copy")
    BY <2>3
  <2>5. ASSUME NEW S, NEW s \in Seq(S), Len(s) >= 7,
               NEW x \in 1..Len(SubSeq(s, k, Len(s)))
        PROVE  /\ x + k - 1 \in 1..Len(s)
               /\ SubSeq(s, k, Len(s))[x] = s[x + k - 1]
    BY <2>5
  <2>6. \A x \in 1..Len(chain) : x + k - 1 \in 1..Len(c) /\ chain[x] = c[x + k - 1]
    BY <2>2, <2>4, <2>5 DEF From
  <2>7. Members(chain) \subseteq Index
    BY <2>2, <2>6 DEF Members, Frame
  <2>8. ASSUME NEW x \in 1..Len(chain), chain[x] = Self PROVE pc = "copy" /\ x = 1
    <3>1. x + k - 1 = 1
      BY <2>2, <2>6, <2>8
    <3>2. k = 1 /\ x = 1
      <4>1. x \in Nat /\ x >= 1
        OBVIOUS
      <4>2. QED
        BY <3>1, <4>1
    <3>3. QED
      BY <2>4, <3>2
  <2>9. QED
    BY <1>5, <2>7, <2>8 DEF Copied, KernPlaces
<1>6. QED
  BY <1>4, <1>5

\* In any directory of the kernel the window shows all frames, but the text
\* buffer in the place of the last.
LEMMA WindowShows ==
  ASSUME PInv, pc \in KernPlaces \cup {"user"}, NEW f \in Index
  PROVE  /\ Walk(cr3, High(f)) = Shown(f)
         /\ Rights(cr3, High(f)) = [w |-> mem[T0][f].w, u |-> mem[T0][f].u]
<1>1. Typing /\ Cr3Inv /\ KernelDirInv /\ WindowInv /\ UserInv
  BY DEF PInv
<1>2. HasWindow /\ pc \notin Mapping
  BY DEF HasWindow, KernPlaces, Early, Mapping
<1>3. Leads(cr3, KPDE, T0)
  <2>1. CASE pc \in KernPlaces
    BY <1>1, <1>2, <2>1 DEF Cr3Inv, KernelDirInv
  <2>2. CASE pc = "user"
    BY <1>1, <2>2 DEF Cr3Inv, UserInv, UserDirInv, Copied
  <2>3. QED
    BY <2>1, <2>2
<1>4. mem[T0][f].p /\ mem[T0][f].f = Shown(f)
  BY <1>1, <1>2 DEF WindowInv, Mapping, Shown
<1>5. mem[T0][f].w \in BOOLEAN /\ mem[T0][f].u \in BOOLEAN
  BY <1>1, Tables DEF Typing, PTE, Frame
<1>6. QED
  BY <1>3, <1>4, <1>5 DEF Walk, Rights, High, Leads

\* Turning paging on does not pull the code from under itself, and from then on
\* the image and each free page lie where KERN_BASE says; a free page behind the
\* text buffer is the first of the list, and gone with the next kalloc.
THEOREM KernelStaysReachable == Spec => []KernelReachable
<1>1. ASSUME PInv PROVE KernelReachable
  <2>1. Typing /\ Cr3Inv /\ BootInv
    BY <1>1 DEF PInv
  <2>2. Image \subseteq Index \ {Self}
    BY Layout DEF Image
  <2>3. \A f \in Image : f \in Nat /\ f < KernelEnd /\ Shown(f) = f
    BY Layout DEF Image, Shown
  <2>4. ASSUME pc = "low", NEW f \in code..ecode - 1 PROVE Walk(cr3, <<0, f>>) = f
    <3>1. f \in Index /\ f < KernelEnd + BootSlack /\ f # Self
      BY Layout
    <3>2. cr3 = boot_page_directory
      BY <2>1, <2>4 DEF Cr3Inv, BootPlaces
    <3>3. /\ mem[boot_page_directory][0].p
          /\ mem[boot_page_directory][0].f = boot_page_table1
          /\ mem[boot_page_table1][f].p /\ mem[boot_page_table1][f].f = f
      BY <2>1, <2>4, <3>1, Layout DEF BootInv
    <3>4. QED
      BY <3>2, <3>3 DEF Walk
  <2>5. ASSUME cr3 # NONE, NEW f \in Image \cup Members(chain)
        PROVE  Walk(cr3, High(f)) = Shown(f)
    <3>1. CASE pc \in BootPlaces
      <4>1. f \in Image
        BY <1>1, <3>1, ListBelow DEF BootPlaces, KernPlaces
      <4>2. cr3 = boot_page_directory /\ pc # "boot"
        BY <2>1, <3>1 DEF Cr3Inv, BootPlaces
      <4>3. QED
        BY <2>1, <2>2, <2>3, <4>1, <4>2, WalkBoot
    <3>2. CASE pc \in KernPlaces \cup {"user"}
      BY <1>1, <2>2, <3>2, ListBelow, WindowShows
    <3>3. pc \notin {"boot", "enable"}
      BY <2>1, <2>5 DEF Cr3Inv
    <3>4. QED
      BY <2>1, <3>1, <3>2, <3>3 DEF Typing
  <2>6. \A x \in 1..Len(chain) : chain[x] = Self => pc = "copy" /\ x = 1
    BY <1>1, ListBelow
  <2>7. QED
    BY <2>4, <2>5, <2>6 DEF KernelReachable
<1>2. QED
  BY PagingInvariant, <1>1, PTL

\* No call of mmu_map_page undoes another one's mapping; what it grants beyond
\* what it was asked for is USER, to the kernel's text and to nothing else.
THEOREM MappingsStay == Spec => []MappedAsAsked
<1>1. ASSUME PInv PROVE MappedAsAsked
  <2>1. Typing /\ KernelDirInv /\ AskedInv /\ UserInv
    BY <1>1 DEF PInv
  <2>2. ASSUME NEW d, NEW x, NEW y, NEW t \in Frame, NEW wish, NEW more, y \in Index,
               Leads(d, x, t), Grants(mem[t][y], wish, more)
        PROVE  /\ Walk(d, <<x, y>>) = wish.f
               /\ Rights(d, <<x, y>>) = [w |-> wish.w, u |-> wish.u \/ more]
    <3>1. PICK e \in PTE : e = mem[t][y]
      BY <2>1, <2>2 DEF Typing
    <3>2. /\ e.p /\ e.f = wish.f /\ e.w = wish.w /\ e.u = (wish.u \/ more)
          /\ e.w \in BOOLEAN /\ e.u \in BOOLEAN
      BY <2>2, <3>1 DEF Grants, PTE
    <3>3. /\ Walk(d, <<x, y>>) = e.f
          /\ Rights(d, <<x, y>>) = [w |-> e.w, u |-> e.u]
      BY <2>2, <3>1, <3>2 DEF Walk, Rights, Leads
    <3>4. QED
      BY <3>2, <3>3
  <2>3. ASSUME NEW d \in Dirs, NEW v \in DOMAIN asked[d], NEW text,
               text = (~asked[d][v].w /\ \E f \in code..ecode - 1 : v = High(f))
        PROVE  /\ Walk(d, v) = asked[d][v].f
               /\ Rights(d, v) = [w |-> asked[d][v].w, u |-> asked[d][v].u \/ text]
    <3>1. d = kernel_page_dir \/ d = user_proc_dir
      BY DEF Dirs
    <3>2. CASE v[1] = KPDE
      <4>1. /\ v = High(v[2]) /\ v[2] \in Index /\ HasWindow
            /\ Grants(mem[T0][v[2]], asked[d][v], Text(v[2], asked[d][v]))
        BY <2>1, <2>3, <3>1, <3>2 DEF AskedInv, AskedHigh
      <4>2. Leads(d, KPDE, T0)
        <5>1. CASE d = kernel_page_dir
          BY <2>1, <4>1, <5>1 DEF KernelDirInv
        <5>2. CASE d = user_proc_dir
          <6>1. pc \in Copied
            BY <2>1, <2>3, <5>2 DEF AskedInv
          <6>2. QED
            BY <2>1, <5>2, <6>1 DEF UserInv, UserDirInv
        <5>3. QED
          BY <3>1, <5>1, <5>2
      <4>4. text = Text(v[2], asked[d][v])
        <5>1. (\E f \in code..ecode - 1 : v = High(f)) <=> v[2] \in code..ecode - 1
          BY <4>1 DEF High
        <5>2. QED
          BY <2>3, <5>1 DEF Text
      <4>3. QED
        <5>1. PICK x, y, t, wish :
                x = KPDE /\ y = v[2] /\ t = T0 /\ wish = asked[d][v]
          OBVIOUS
        <5>2. /\ v = <<x, y>> /\ y \in Index /\ t \in Frame
              /\ Leads(d, x, t) /\ Grants(mem[t][y], wish, text)
          BY <4>1, <4>2, <4>4, Tables, <5>1 DEF High
        <5>3. /\ Walk(d, <<x, y>>) = wish.f
              /\ Rights(d, <<x, y>>) = [w |-> wish.w, u |-> wish.u \/ text]
          BY <2>2, <5>2
        <5>4. QED
          BY <5>1, <5>2, <5>3
    <3>3. CASE v[1] # KPDE
      <4>1. d = user_proc_dir /\ pc \in Copied
        BY <2>1, <2>3, <3>1, <3>3 DEF AskedInv
      <4>2. PICK c \in FreeLists : UserDirInv(c) /\ AskedLow(c)
        BY <2>1, <4>1 DEF UserInv
      <4>3. /\ pc # "usercode" /\ v = <<0, v[2]>> /\ v[2] \in Index
            /\ Grants(mem[c[2]][v[2]], asked[d][v], FALSE)
        BY <2>3, <3>3, <4>1, <4>2 DEF AskedLow
      <4>4. Leads(d, 0, c[2]) /\ c[2] \in Frame
        <5>1. 2 \in 1..Len(c)
          BY Lists
        <5>2. QED
          BY <4>1, <4>2, <4>3, <5>1, Lists DEF UserDirInv
      <4>6. text = FALSE
        <5>1. ASSUME NEW f, v = High(f) PROVE FALSE
          BY <3>3, <5>1 DEF High
        <5>2. QED
          BY <2>3, <5>1
      <4>5. QED
        <5>1. PICK x, y, t, wish : x = 0 /\ y = v[2] /\ t = c[2] /\ wish = asked[d][v]
          OBVIOUS
        <5>2. /\ v = <<x, y>> /\ y \in Index /\ t \in Frame
              /\ Leads(d, x, t) /\ Grants(mem[t][y], wish, text)
          BY <4>3, <4>4, <4>6, <5>1
        <5>3. /\ Walk(d, <<x, y>>) = wish.f
              /\ Rights(d, <<x, y>>) = [w |-> wish.w, u |-> wish.u \/ text]
          BY <2>2, <5>2
        <5>4. QED
          BY <5>1, <5>2, <5>3
    <3>4. QED
      BY <3>2, <3>3
  <2>4. QED
    BY <2>3 DEF MappedAsAsked
<1>2. QED
  BY PagingInvariant, <1>1, PTL

\* The task that main starts has three pages and two stacks of its own, and the
\* directory that shows them; only the page of its code can be the text buffer.
THEOREM UserSpaceIsOwn == Spec => []UserSpaceOwn
<1>1. ASSUME PInv PROVE UserSpaceOwn
  <2>1. SUFFICES ASSUME pc \in {"yield", "user"} PROVE UserSpaceOwn
    BY DEF UserSpaceOwn
  <2>2. Cr3Inv /\ KernelDirInv /\ AskedInv /\ UserInv
    BY <1>1 DEF PInv
  <2>3. PICK c \in FreeLists :
          TakenInv(c) /\ UserDirInv(c) /\ UserTableInv(c) /\ AskedLow(c)
    BY <2>1, <2>2 DEF UserInv, Copied
  <2>4. Gets(c, 5) /\ chain \in {From(c, 7), From(c, 8)}
    BY <2>1, <2>3 DEF TakenInv
  <2>5. Len(got) = 5 /\ \A x \in 1..5 : got[x] = IF x = 1 THEN c[1] ELSE c[x + 1]
    BY <2>4 DEF Gets
  <2>6. /\ Leads(user_proc_dir, KPDE, T0) /\ Leads(user_proc_dir, 0, c[2])
        /\ Leads(kernel_page_dir, KPDE, T0)
    BY <2>1, <2>2, <2>3 DEF UserDirInv, KernelDirInv, HasWindow, Early, Copied
  <2>7. tcb_cr3 = user_proc_dir
    BY <2>1, <2>2 DEF Cr3Inv
  <2>9. Len(c) \in Nat /\ Len(c) >= 7 /\ c \in Seq(Frame)
        /\ \A x, y \in 1..Len(c) : c[x] = c[y] => x = y
    BY Lists
  <2>18. PICK page : page = [x \in 1..Len(got) |-> Shown(got[x])]
    OBVIOUS
  \* Of the list all pages are shown but the first, which may be the text buffer.
  <2>19. \A i \in 1..Len(c) : c[i] # VGA /\ (i # 1 => Shown(c[i]) = c[i])
    BY Lists DEF Shown
  <2>20. Shown(c[1]) \in {VGA, c[1]}
    BY DEF Shown
  <2>21. /\ Len(page) = 5 /\ DOMAIN page = 1..5 /\ page[1] \in {VGA, c[1]}
         /\ \A x \in 2..5 : page[x] = c[x + 1] /\ page[x] # VGA
    <3>1. page = [x \in 1..5 |-> Shown(got[x])]
      BY <2>5, <2>18
    <3>2. page[1] = Shown(c[1])
      BY <2>5, <3>1
    <3>3. \A x \in 2..5 : page[x] = Shown(c[x + 1])
      BY <2>5, <3>1
    <3>4. \A x \in 2..5 : x + 1 \in 1..Len(c) /\ x + 1 # 1
      BY <2>9
    <3>5. page \in Seq({Shown(got[x]) : x \in 1..5}) /\ Len(page) = 5
      BY <3>1
    <3>6. QED
      BY <2>19, <2>20, <3>1, <3>2, <3>3, <3>4, <3>5
  <2>8. ASSUME NEW x \in 0..2
        PROVE  Walk(user_proc_dir, <<0, UserPage + x>>) = page[x + 1]
    <3>1. PICK y : y = UserPage + x
      OBVIOUS
    <3>2. mem[c[2]][y].p /\ mem[c[2]][y].f = Shown(got[x + 1])
      BY <2>1, <2>3, <2>5, <3>1 DEF UserTableInv, Copied
    <3>5. Shown(got[x + 1]) = page[x + 1]
      BY <2>5, <2>18
    <3>3. Walk(user_proc_dir, <<0, y>>) = page[x + 1]
      BY <2>6, <3>2, <3>5 DEF Walk, Leads
    <3>4. QED
      BY <3>1, <3>3
  <2>10. \A x, y \in 1..Len(page) : page[x] = page[y] => x = y
    <3>1. ASSUME NEW x \in 2..5, NEW y \in 2..5, page[x] = page[y] PROVE x = y
      <4>1. x + 1 \in 1..Len(c) /\ y + 1 \in 1..Len(c) /\ c[x + 1] = c[y + 1]
        BY <2>9, <2>21, <3>1
      <4>2. x + 1 = y + 1
        BY <2>9, <4>1
      <4>3. QED
        BY <4>2
    <3>2. ASSUME NEW y \in 2..5 PROVE page[1] # page[y]
      <4>1. 1 \in 1..Len(c) /\ y + 1 \in 1..Len(c) /\ y + 1 # 1
        BY <2>9
      <4>2. c[1] # c[y + 1]
        BY <2>9, <4>1
      <4>3. QED
        BY <2>21, <4>2
    <3>3. SUFFICES ASSUME NEW x \in 1..5, NEW y \in 1..5, page[x] = page[y] PROVE x = y
      BY <2>21
    <3>4. (x = 1 \/ x \in 2..5) /\ (y = 1 \/ y \in 2..5)
      OBVIOUS
    <3>5. QED
      BY <3>1, <3>2, <3>3, <3>4
  <2>22. \A x \in 1..Len(page) : page[x] = VGA => x = 1
    BY <2>21
  <2>11. \A p \in Members(page) : p = VGA \/ \E i \in 1..6 : i # 2 /\ p = c[i]
    <3>1. SUFFICES ASSUME NEW x \in 1..5
                   PROVE  page[x] = VGA \/ \E i \in 1..6 : i # 2 /\ page[x] = c[i]
      BY <2>21 DEF Members
    <3>2. CASE x = 1
      BY <2>21, <3>2
    <3>3. CASE x \in 2..5
      <4>1. x + 1 \in 1..6 /\ x + 1 # 2
        BY <3>3
      <4>2. QED
        BY <2>21, <3>3, <4>1
    <3>4. QED
      BY <3>2, <3>3
  <2>12. \A p \in Members(chain) : \E i \in 7..Len(c) : p = c[i]
    <3>1. ASSUME NEW S, NEW s \in Seq(S), Len(s) >= 7, NEW k \in 7..8,
                 NEW x \in 1..Len(SubSeq(s, k, Len(s)))
          PROVE  \E y \in 7..Len(s) : SubSeq(s, k, Len(s))[x] = s[y]
      BY <3>1
    <3>2. PICK k \in 7..8 : chain = SubSeq(c, k, Len(c))
      BY <2>4 DEF From
    <3>3. \A x \in 1..Len(chain) : \E y \in 7..Len(c) : chain[x] = c[y]
      BY <2>9, <3>1, <3>2
    <3>4. QED
      BY <3>3 DEF Members
  <2>13. Members(page) \cap Members(chain) = {}
    <3>1. SUFFICES ASSUME NEW p, p \in Members(page), p \in Members(chain) PROVE FALSE
      OBVIOUS
    <3>3. PICK j \in 7..Len(c) : p = c[j]
      BY <2>12, <3>1
    <3>6. p # VGA
      BY <2>9, <2>19, <3>3
    <3>2. PICK i \in 1..6 : p = c[i]
      BY <2>11, <3>1, <3>6
    <3>4. i \in 1..Len(c) /\ j \in 1..Len(c) /\ i # j
      BY <2>9
    <3>5. QED
      BY <2>9, <3>2, <3>3, <3>4
  <2>14. \A p \in Members(page) \cup Members(chain) : p # T0 /\ p # c[2]
    <3>1. SUFFICES ASSUME NEW p \in Members(page) \cup Members(chain)
                   PROVE  p # T0 /\ p # c[2]
      OBVIOUS
    <3>3. 2 \in 1..Len(c)
      BY <2>9
    <3>5. CASE p = VGA
      <4>1. c[2] # VGA
        BY <2>19, <3>3
      <4>2. T0 # VGA
        BY Tables, Layout
      <4>3. QED
        BY <3>5, <4>1, <4>2
    <3>6. CASE p # VGA
      <4>1. PICK i \in 1..Len(c) : i # 2 /\ p = c[i]
        BY <2>9, <2>11, <2>12, <3>6
      <4>2. QED
        BY <2>9, <3>3, <4>1, Lists
    <3>4. QED
      BY <3>5, <3>6
  <2>15. ASSUME NEW d \in Dirs, NEW v \in DOMAIN asked[d]
         PROVE  mem[d][v[1]].f \in {T0, c[2]}
    <3>1. d = kernel_page_dir \/ d = user_proc_dir
      BY DEF Dirs
    <3>2. CASE v[1] = KPDE
      BY <2>6, <3>1, <3>2 DEF Leads
    <3>3. CASE v[1] # KPDE
      <4>1. d = user_proc_dir
        BY <2>2, <2>15, <3>1, <3>3 DEF AskedInv
      <4>2. v = <<0, v[2]>>
        BY <2>3, <2>15, <3>3, <4>1 DEF AskedLow
      <4>3. v[1] = 0
        BY <4>2
      <4>4. QED
        BY <2>6, <4>1, <4>3 DEF Leads
    <3>4. QED
      BY <3>2, <3>3
  <2>16. \A d \in Dirs : \A v \in DOMAIN asked[d] :
           mem[d][v[1]].f \notin Members(page) \cup Members(chain)
    <3>1. SUFFICES ASSUME NEW d \in Dirs, NEW v \in DOMAIN asked[d]
                   PROVE  mem[d][v[1]].f \notin Members(page) \cup Members(chain)
      OBVIOUS
    <3>2. QED
      BY <2>14, <2>15
  <2>23. Len(got) = Len(page)
    BY <2>5, <2>21
  <2>17. QED
    BY <2>7, <2>8, <2>10, <2>13, <2>16, <2>18, <2>22, <2>23 DEF UserSpaceOwn
<1>2. QED
  BY PagingInvariant, <1>1, PTL

\* The code stays read-only, the data writable; user code writes its stack and
\* the text buffer only, and reads besides its own code and the kernel's.
THEOREM KernelProtected == Spec => []Protected
<1>1. ASSUME PInv PROVE Protected
  <2>1. SUFFICES ASSUME cr3 \in Dirs PROVE Protected
    BY DEF Protected
  <2>2. Typing /\ Cr3Inv /\ KernelDirInv /\ WindowInv /\ UserInv
    BY <1>1 DEF PInv
  <2>3. pc \in KernPlaces \cup {"user"}
    <3>1. NONE \notin Dirs /\ boot_page_directory \notin Dirs
      BY Tables, Layout DEF NONE, Dirs, Frame, Index
    <3>2. QED
      BY <2>1, <2>2, <3>1 DEF Cr3Inv, Typing
  <2>4. HasWindow /\ pc \notin Mapping
    BY <2>3 DEF HasWindow, KernPlaces, Early, Mapping
  <2>5. ASSUME NEW f \in code..ecode - 1 PROVE ~Rights(cr3, High(f)).w
    <3>1. f \in Index
      BY Layout
    <3>2. ~mem[T0][f].w
      BY <2>2, <2>4, <3>1 DEF WindowInv, Mapping
    <3>3. Rights(cr3, High(f)) = [w |-> mem[T0][f].w, u |-> mem[T0][f].u]
      BY <1>1, <2>3, <3>1, WindowShows
    <3>4. QED
      BY <3>2, <3>3
  <2>6. ASSUME NEW f \in data..edata - 1 PROVE Rights(cr3, High(f)).w
    <3>1. f \in Index
      BY Layout
    <3>2. mem[T0][f].w
      BY <2>2, <2>4, <3>1 DEF WindowInv, Mapping
    <3>3. Rights(cr3, High(f)) = [w |-> mem[T0][f].w, u |-> mem[T0][f].u]
      BY <1>1, <2>3, <3>1, WindowShows
    <3>4. QED
      BY <3>2, <3>3
  <2>7. ASSUME cr3 = user_proc_dir, NEW x \in Index, NEW y \in Index, x # Self,
               Walk(cr3, <<x, y>>) # NONE, Rights(cr3, <<x, y>>).u
        PROVE  \/ Walk(cr3, <<x, y>>) \in {got[2], got[3], VGA}
               \/ /\ ~Rights(cr3, <<x, y>>).w
                  /\ Walk(cr3, <<x, y>>) \in {got[1]} \cup code..ecode - 1
    <3>1. pc = "user"
      BY <2>2, <2>3, <2>7, Tables DEF Cr3Inv
    <3>2. PICK c \in FreeLists : TakenInv(c) /\ UserDirInv(c) /\ UserTableInv(c)
      BY <2>2, <3>1 DEF UserInv, Copied
    <3>9. PICK t : t = mem[user_proc_dir][x].f
      OBVIOUS
    <3>3. mem[user_proc_dir][x].p /\ mem[t][y].p
      BY <2>7, <3>9 DEF Walk
    <3>4. /\ mem[t][y].u /\ (~mem[t][y].w => ~Rights(cr3, <<x, y>>).w)
      BY <2>7, <3>9 DEF Rights
    <3>10. Walk(cr3, <<x, y>>) = mem[t][y].f
      BY <2>7, <3>3, <3>9 DEF Walk
    <3>5. x = KPDE \/ x = 0
      BY <2>7, <3>1, <3>2, <3>3 DEF UserDirInv, Copied
    <3>6. CASE x = KPDE
      <4>1. t = T0
        BY <3>1, <3>2, <3>6, <3>9 DEF UserDirInv, Leads, Copied
      <4>2. y = Self \/ y \in code..ecode - 1
        BY <2>2, <2>4, <3>3, <3>4, <4>1 DEF WindowInv
      <4>3. CASE y = Self
        BY <2>2, <2>4, <3>10, <4>1, <4>3 DEF WindowInv
      <4>4. CASE y \in code..ecode - 1
        <5>1. y # Self
          BY <4>4, Layout
        <5>2. mem[T0][y].f = y /\ ~mem[T0][y].w
          BY <2>2, <2>4, <3>3, <4>1, <4>4, <5>1 DEF WindowInv, Mapping
        <5>3. QED
          BY <3>4, <3>10, <4>1, <4>4, <5>2
      <4>5. QED
        BY <4>2, <4>3, <4>4
    <3>7. CASE x = 0
      <4>1. t = c[2]
        BY <3>1, <3>2, <3>7, <3>9 DEF UserDirInv, Leads, Copied
      <4>2. mem[c[2]][y].p
        BY <3>3, <4>1
      <4>3. y \in UserPage..UserPage + 2
        BY <3>1, <3>2, <4>2 DEF UserTableInv, Copied
      <4>4. PICK z \in 0..2 : y = UserPage + z
        <5>1. y - UserPage \in 0..2 /\ y = UserPage + (y - UserPage)
          BY <4>3, Layout
        <5>2. QED
          BY <5>1
      <4>5. Gets(c, 5)
        BY <3>1, <3>2 DEF TakenInv
      <4>6. mem[c[2]][y].f = Shown(got[z + 1])
        BY <3>1, <3>2, <4>4, <4>5 DEF UserTableInv, Copied, Gets
      <4>7. CASE z = 0
        <5>1. ~mem[c[2]][y].w
          BY <3>1, <3>2, <4>4, <4>7, Layout DEF UserTableInv, Copied
        <5>2. mem[c[2]][y].f \in {got[1], VGA}
          BY <4>6, <4>7 DEF Shown
        <5>3. QED
          BY <3>4, <3>10, <4>1, <5>1, <5>2
      <4>8. CASE z \in {1, 2}
        <5>1. got[z + 1] = c[z + 2]
          BY <4>5, <4>8 DEF Gets
        <5>2. c[z + 2] # Self
          <6>1. z + 2 \in 1..Len(c) /\ z + 2 # 1
            BY <4>8, Lists
          <6>2. QED
            BY <6>1, Lists
        <5>3. mem[c[2]][y].f \in {got[2], got[3]}
          BY <4>6, <4>8, <5>1, <5>2 DEF Shown
        <5>4. QED
          BY <3>10, <4>1, <5>3
      <4>9. QED
        BY <4>7, <4>8
    <3>8. QED
      BY <3>5, <3>6, <3>7
  <2>8. ASSUME cr3 = user_proc_dir, NEW v \in V, v[1] # Self, Walk(cr3, v) # NONE,
               Rights(cr3, v).u
        PROVE  \/ Walk(cr3, v) \in {got[2], got[3], VGA}
               \/ /\ ~Rights(cr3, v).w
                  /\ Walk(cr3, v) \in {got[1]} \cup code..ecode - 1
    <3>1. PICK x \in Index, y \in Index : v = <<x, y>>
      BY DEF V
    <3>2. x # Self /\ Walk(cr3, <<x, y>>) # NONE /\ Rights(cr3, <<x, y>>).u
      BY <2>8, <3>1
    <3>3. QED
      BY <2>7, <2>8, <3>1, <3>2
  <2>9. QED
    BY <2>5, <2>6, <2>8 DEF Protected
<1>2. QED
  BY PagingInvariant, <1>1, PTL

\* While the boot's directory is in use no other frame matters.
LEMMA BootKept ==
  ASSUME PInv, pc \in BootPlaces, NEW S, Keeps(S),
         boot_page_directory \notin S, boot_page_table1 \notin S
  PROVE  Coherent(cr3)
<1>1. Cr3Inv /\ BootInv
  BY DEF PInv
<1>2. cr3 = boot_page_directory /\ pc # "boot"
  BY <1>1 DEF Cr3Inv, BootPlaces
<1>3. Typing /\ boot_page_directory \in Frame /\ boot_page_table1 \in Frame
  BY Tables DEF PInv
<1>4. \A x \in Index : mem[boot_page_directory][x].p =>
        mem[boot_page_directory][x].f = boot_page_table1
  BY <1>1, <1>2 DEF BootInv
<1>5. \A x \in Index :
        /\ mem'[boot_page_directory][x] = mem[boot_page_directory][x]
        /\ mem'[boot_page_table1][x] = mem[boot_page_table1][x]
  BY <1>3 DEF Keeps
<1>6. QED
  BY <1>2, <1>4, <1>5 DEF Coherent

\* The same for the kernel's directory.
LEMMA KernelKeptDir ==
  ASSUME PInv, pc \in {"pool", "copy", "usercode", "stack", "create_task"},
         NEW S, Keeps(S), kernel_page_dir \notin S, T0 \notin S
  PROVE  Coherent(cr3)
<1>1. Cr3Inv /\ KernelDirInv
  BY DEF PInv
<1>2. cr3 = kernel_page_dir
  BY <1>1 DEF Cr3Inv, KernPlaces
<1>3. \A x \in Index : x # Self /\ mem[kernel_page_dir][x].p =>
        mem[kernel_page_dir][x].f = T0
  BY <1>1 DEF KernelDirInv, HasWindow, Early, Leads
<1>4. \A x \in Index : /\ mem'[kernel_page_dir][x] = mem[kernel_page_dir][x]
                      /\ mem'[T0][x] = mem[T0][x]
  BY Tables DEF Keeps
<1>5. QED
  BY <1>2, <1>3, <1>4 DEF Coherent

\* No step but boot.s's at label 4 changes a table that is in use.
LEMMA TlbStep ==
  ASSUME PInv, Next, cr3 # NONE, pc # "high"
  PROVE  Coherent(cr3)
<1>1. Typing /\ Cr3Inv /\ UserInv
  BY DEF PInv
<1>2. CASE BootTables \/ EnablePaging \/ UnmapLow
  BY <1>1, <1>2 DEF BootTables, EnablePaging, UnmapLow, Cr3Inv
<1>3. CASE UNCHANGED mem
  BY <1>3 DEF Coherent
<1>4. CASE ClearDirectory
  <2>1. \A a \in Frame : a # kernel_page_dir => mem'[a] = mem[a]
    BY <1>1, <1>4 DEF ClearDirectory, Typing
  <2>2. Keeps({kernel_page_dir})
    BY <2>1 DEF Keeps
  <2>3. pc \in BootPlaces
    BY <1>4 DEF ClearDirectory, BootPlaces
  <2>4. QED
    BY <2>2, <2>3, BootKept, Tables
<1>5. CASE MapWindow \/ MapCode \/ MapData \/ MapVga
  <2>1. pc \in BootPlaces
    BY <1>5 DEF MapWindow, MapCode, MapData, MapVga, MapFrames, BootPlaces
  <2>2. Keeps({T0, kernel_page_dir}) \/ Keeps({T0})
    BY <1>5, FirstCallStep, MapWindowStep, MapCodeStep, MapDataStep, MapVgaStep
  <2>3. QED
    BY <2>1, <2>2, BootKept, Tables
<1>6. CASE CopyDirectory
  <2>1. pc = "copy" /\ Keeps({user_proc_dir})
    BY <1>6, CopyDirectoryStep DEF CopyDirectory
  <2>2. QED
    BY <2>1, KernelKeptDir, Tables
<1>7. CASE MapUserCode \/ MapUserStack
  <2>1. pc \in {"usercode", "stack"}
    BY <1>7 DEF MapUserCode, MapUserStack
  <2>2. PICK c \in FreeLists : Keeps({c[2], user_proc_dir})
    BY <1>7, MapUserCodeStep, MapUserStackStep
  <2>3. c[2] # kernel_page_dir /\ c[2] # T0
    <3>1. 2 \in 1..Len(c)
      BY Lists
    <3>2. QED
      BY <3>1, Lists
  <2>4. QED
    BY <2>1, <2>2, <2>3, KernelKeptDir, Tables
<1>8. CASE MapStray
  <2>1. cr3 = kernel_page_dir
    BY <1>1, <1>8 DEF MapStray, Cr3Inv, KernPlaces
  <2>2. QED
    BY <1>8, <2>1, MapStrayStep
<1>9. QED
  BY <1>2, <1>3, <1>4, <1>5, <1>6, <1>7, <1>8
     DEF Next, JumpHigh, LoadKernelDirectory, FreePool, CreateTask, LoadUserDirectory

\* Without mmu_flush_tlb, no page that the directory in use shows ever changes,
\* but at the one place where boot.s loads cr3 again.
THEOREM TlbStaysCoherent == Spec => TlbCoherent
<1>1. ASSUME PInv, [Next]_vars
      PROVE  (cr3 # NONE /\ cr3' = cr3 /\ pc # "high" =>
                \A v \in V : v[1] # Self /\ Walk(cr3, v) # NONE =>
                  /\ Walk(cr3, v)' = Walk(cr3, v)
                  /\ Rights(cr3, v)' = Rights(cr3, v)) \/ UNCHANGED vars
  <2>1. SUFFICES ASSUME Next, cr3 # NONE, cr3' = cr3, pc # "high",
                        NEW v \in V, v[1] # Self, Walk(cr3, v) # NONE
                 PROVE  /\ Walk(cr3, v)' = Walk(cr3, v)
                        /\ Rights(cr3, v)' = Rights(cr3, v)
    BY <1>1
  <2>2. PICK x \in Index, y \in Index : v = <<x, y>>
    BY DEF V
  <2>3. x # Self
    BY <2>1, <2>2
  <2>4. mem[cr3][x].p
    BY <2>1, <2>2 DEF Walk
  <2>5. Coherent(cr3)
    BY <1>1, <2>1, TlbStep
  <2>6. PICK d, t : d = cr3 /\ t = mem[cr3][x].f
    OBVIOUS
  <2>7. mem'[d][x] = mem[d][x] /\ mem'[t][y] = mem[t][y] /\ t = mem[d][x].f
    BY <2>3, <2>4, <2>5, <2>6 DEF Coherent
  <2>8. /\ Walk(cr3, v)' = IF mem'[d][x].p /\ mem'[mem'[d][x].f][y].p
                             THEN mem'[mem'[d][x].f][y].f ELSE NONE
        /\ Walk(cr3, v) = IF mem[d][x].p /\ mem[mem[d][x].f][y].p
                             THEN mem[mem[d][x].f][y].f ELSE NONE
    BY <2>1, <2>2, <2>6 DEF Walk
  <2>9. /\ Rights(cr3, v)' = [w |-> mem'[d][x].w /\ mem'[mem'[d][x].f][y].w,
                              u |-> mem'[d][x].u /\ mem'[mem'[d][x].f][y].u]
        /\ Rights(cr3, v) = [w |-> mem[d][x].w /\ mem[mem[d][x].f][y].w,
                             u |-> mem[d][x].u /\ mem[mem[d][x].f][y].u]
    BY <2>1, <2>2, <2>6 DEF Rights
  <2>10. QED
    BY <2>7, <2>8, <2>9
<1>2. QED
  BY PagingInvariant, <1>1, PTL DEF Spec, TlbCoherent
=============================================================================
