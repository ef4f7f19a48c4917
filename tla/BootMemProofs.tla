--------------------------- MODULE BootMemProofs ---------------------------
(***************************************************************************)
(* Proofs about BootMem: for any memory map that MapAssumption allows, any *)
(* sizes of pages, kernel and window, and words of any width.              *)
(***************************************************************************)
EXTENDS BootMem, TLAPS, SequenceTheorems

KP == INSTANCE KallocProofs WITH Data <- {}

-----------------------------------------------------------------------------
(* Multiples of the page size.                                              *)

\* The quotient and the rest of a division.
LEMMA Div == \A P \in Nat \ {0}, x \in Nat : x \div P \in Nat /\ x = P * (x \div P) + (x % P)
OBVIOUS
\* A multiple leaves no rest,
LEMMA Mul == \A P \in Nat \ {0}, q \in Nat : (P * q) % P = 0
<1> SUFFICES ASSUME NEW P \in Nat \ {0}, NEW q \in Nat PROVE (P * q) % P = 0
  OBVIOUS
<1>1. PICK d \in Nat, r \in 0..P-1 : r = (P*q) % P /\ P * q = P * d + r /\ d = (P*q) \div P
  BY Div
<1>2. r = P * (q - d)
  BY <1>1
<1>3. CASE q <= d
  <2>1. P * (q-d) <= 0
    BY <1>3
  <2>. QED BY <2>1, <1>2, <1>1
<1>4. CASE q > d
  <2>1. PICK k \in Nat : k = q - d - 1
    BY <1>4, <1>1
  <2>2. q - d = k + 1
    BY <2>1, <1>1
  <2>3. P * (k+1) = P * k + P
    OBVIOUS
  <2>4. P * k >= 0
    OBVIOUS
  <2>. QED BY <2>2, <2>3, <2>4, <1>2, <1>1
<1>. QED BY <1>3, <1>4, <1>1

\* and what leaves none is a multiple.
LEMMA Multiple == ASSUME NEW P \in Nat \ {0}, NEW x \in Nat, x % P = 0
                  PROVE \E q \in Nat : x = P * q
<1>1. x \div P \in Nat /\ x = P * (x \div P) + 0
  BY Div
<1>2. x = P * (x \div P)
  BY <1>1
<1>. QED BY <1>1, <1>2

\* Sums and differences of multiples; between two there is a whole page.
LEMMA Multiples ==
  ASSUME NEW P \in Nat \ {0}, NEW x \in Nat, NEW y \in Nat,
         x % P = 0, y % P = 0
  PROVE  /\ (x + y) % P = 0
         /\ x >= y => (x - y) % P = 0
         /\ x > y => x >= y + P
<1>1. PICK a \in Nat : x = P * a
  BY Multiple
<1>2. PICK b \in Nat : y = P * b
  BY Multiple
<1>3. (x + y) % P = 0
  <2>2. PICK c \in Nat : c = a + b
    OBVIOUS
  <2>1. x + y = P * c
    BY <1>1, <1>2, <2>2
  <2>. QED BY <2>1, Mul
<1>4. x >= y => (x - y) % P = 0 /\ (x > y => x >= y + P)
  <2>. SUFFICES ASSUME x >= y PROVE (x - y) % P = 0 /\ (x > y => x >= y + P)
    OBVIOUS
  <2>1. a >= b \/ x = y
    <3>. SUFFICES ASSUME a < b PROVE x = y
      BY <1>1, <1>2
    <3>1. PICK c \in Nat : b = a + c
      <4>. b - a \in Nat /\ b = a + (b - a)
        OBVIOUS
      <4>. QED OBVIOUS
    <3>2. P * b = P * a + P * c /\ P * c >= 0
      BY <3>1
    <3>. QED BY <1>1, <1>2, <3>2
  <2>2. CASE x = y
    BY <2>2, Mul
  <2>3. CASE a >= b
    <3>1. PICK c \in Nat : a = b + c
      BY <2>3
    <3>2. P * a = P * b + P * c
      BY <3>1
    <3>3. x - y = P * c
      BY <3>2, <1>1, <1>2
    <3>4. c # 0 => P * c >= P
      <4>1. SUFFICES ASSUME c # 0 PROVE P * c >= P
        OBVIOUS
      <4>2. PICK d \in Nat : c = d + 1
        BY <4>1
      <4>3. P * c = P * d + P /\ P * d >= 0
        BY <4>2
      <4>. QED BY <4>3
    <3>5. c = 0 => P * c = 0
      OBVIOUS
    <3>. QED BY <3>3, <3>4, <3>5, Mul
  <2>. QED BY <2>1, <2>2, <2>3
<1>. QED BY <1>3, <1>4

\* Rounding down to a multiple.
LEMMA RoundDown == ASSUME NEW P \in Nat \ {0}, NEW x \in Nat
  PROVE /\ (x - (x % P)) % P = 0 /\ x - (x % P) \in Nat
        /\ x - (x % P) > x - P /\ x - (x % P) <= x
<1>1. PICK q \in Nat, r \in 0..P-1 : r = x % P /\ x = P * q + r
  <2>1. x \div P \in Nat /\ x = P * (x \div P) + (x % P) /\ x % P \in 0..P-1
    BY Div
  <2>. QED BY <2>1
<1>2. PICK z \in Nat : z = P * q
  OBVIOUS
<1>3. x - (x % P) = z
  BY <1>1, <1>2
<1>4. z % P = 0
  BY <1>2, Mul
<1>. QED BY <1>1, <1>2, <1>3, <1>4
-----------------------------------------------------------------------------
(* The inductive invariant.                                                 *)

KernelEnd == KERN_BASE + OneMiB + kernel_size
Static(v) == v >= static_pool /\ v < static_pool + StaticSize

\* The region that the kernel was loaded into.
Home(l) == l \in Usable /\ mmap[l].base = OneMiB

\* The pool that the map has given so far: none, one beyond the window, or the
\* rest of the kernel's own region, which is then the only one.
PoolChosen ==
  \/ alloc_pool = NULL /\ free_space = 0
  \/ \E l \in 1..Len(mmap) :
       /\ l \in Usable
       /\ pc = "handle_mmap" => l < i
       /\ alloc_pool = StartOf(mmap[l])
       /\ \/ mmap[l].base >= OneMiB + kernel_size
          \/ Home(l) /\ free_space = Minus(mmap[l].length, kernel_size)

\* A page of the kernel's region behind the kernel.
FromMap(v) ==
  \E l \in 1..Len(mmap) :
    /\ Home(l)
    /\ KernelEnd <= v
    /\ v + PGSIZE <= KERN_BASE + OneMiB + mmap[l].length

\* What the allocator has, and how far freerange got with it.
PagesInv ==
  \A v \in Given :
    /\ Static(v) \/ FromMap(v)
    /\ pc # "handle_mmap"
    /\ pc = "static" => Static(v) /\ v < p
    /\ pc = "pool" => Static(v) \/ v < p

\* Where a page that freerange can write to is going to be.
LoopInv ==
  /\ pc = "handle_mmap" => i # 0
  /\ pc = "static" =>
       /\ alloc_pool_size = Minus(free_space, kernel_size)
       /\ p % PGSIZE = 0 /\ static_pool <= p
       /\ p <= vend /\ vend = static_pool + StaticSize
  /\ pc = "pool" =>
       /\ p % PGSIZE = 0
       /\ AnotherPage /\ Reachable(p) =>
            /\ KernelEnd <= p
            /\ \E l \in 1..Len(mmap) :
                 Home(l) /\ vend <= KERN_BASE + OneMiB + mmap[l].length

BInv == TypeOK /\ K!ListSound /\ PoolChosen /\ PagesInv /\ LoopInv

-----------------------------------------------------------------------------
(* Words.                                                                   *)

\* The assumptions on the constants.
LEMMA Numbers ==
  /\ W \in Nat /\ PGSIZE \in Nat \ {0} /\ KERN_BASE \in Nat /\ OneMiB \in Nat
  /\ kernel_size \in Nat /\ static_pool \in Nat /\ StaticSize \in Nat
  /\ Window \in Nat /\ UserPages \in Nat
  /\ W % PGSIZE = 0 /\ KERN_BASE % PGSIZE = 0 /\ OneMiB % PGSIZE = 0
  /\ kernel_size % PGSIZE = 0 /\ static_pool % PGSIZE = 0
  /\ StaticSize % PGSIZE = 0 /\ Window % PGSIZE = 0
  /\ Window <= KERN_BASE /\ KERN_BASE + Window < W
  /\ KERN_BASE + OneMiB <= static_pool
  /\ static_pool + StaticSize <= KERN_BASE + OneMiB + kernel_size
  /\ OneMiB + kernel_size < Window
  /\ OneMiB + 2 * kernel_size > Window
  /\ StaticSize >= PGSIZE
<1>1. /\ W \in Nat /\ PGSIZE \in Nat \ {0} /\ KERN_BASE \in Nat /\ OneMiB \in Nat
      /\ kernel_size \in Nat /\ static_pool \in Nat /\ StaticSize \in Nat
      /\ Window \in Nat /\ UserPages \in Nat
  BY WordAssumption
<1>2. (UserPages + 1) * PGSIZE = UserPages * PGSIZE + PGSIZE
  BY <1>1
<1>3. UserPages * PGSIZE >= 0
  BY <1>1
<1>4. StaticSize >= PGSIZE
  BY <1>1, <1>2, <1>3, SizeAssumption
<1>5. QED
  BY <1>1, <1>4, WordAssumption, ImageAssumption, SizeAssumption

\* A sum of words is right or wraps once;
LEMMA PlusIs ==
  ASSUME NEW x \in Word, NEW y \in Word
  PROVE  /\ Plus(x, y) \in Word
         /\ x + y < W => Plus(x, y) = x + y
         /\ x + y >= W => Plus(x, y) = x + y - W
<1>1. W \in Nat \ {0} /\ x \in Nat /\ y \in Nat /\ x < W /\ y < W
  BY Numbers DEF Word
<1>2. x + y < W => (x + y) % W = x + y
  BY <1>1
<1>3. x + y >= W => (x + y) % W = x + y - W
  BY <1>1
<1>4. QED
  BY <1>1, <1>2, <1>3 DEF Plus, Word

\* so is a difference.
LEMMA MinusIs ==
  ASSUME NEW x \in Word, NEW y \in Word
  PROVE  /\ Minus(x, y) \in Word
         /\ x >= y => Minus(x, y) = x - y
         /\ x < y => Minus(x, y) = x + W - y
<1>1. W \in Nat \ {0} /\ x \in Nat /\ y \in Nat /\ x < W /\ y < W
  BY Numbers DEF Word
<1>2. x < y => (x + W - y) % W = x + W - y
  BY <1>1
<1>3. x >= y => (x + W - y) % W = x - y
  BY <1>1
<1>4. QED
  BY <1>1, <1>2, <1>3 DEF Minus, Word

\* The first page from an address on, which wraps in the last page.
LEMMA RoundUp ==
  ASSUME NEW v \in Word
  PROVE  /\ PGROUNDUP(v) \in Word
         /\ PGROUNDUP(v) % PGSIZE = 0
         /\ v + PGSIZE <= W => PGROUNDUP(v) >= v /\ PGROUNDUP(v) < v + PGSIZE
         /\ v + PGSIZE > W => PGROUNDUP(v) < PGSIZE
<1>1. /\ W \in Nat \ {0} /\ v \in Nat /\ v < W
      /\ PGSIZE \in Nat \ {0} /\ PGSIZE < W
  BY Numbers DEF Word
<1>2. PICK u \in Word : u = Plus(v, PGSIZE - 1)
  BY <1>1, PlusIs DEF Word
<1>3. /\ v + PGSIZE <= W => u = v + PGSIZE - 1
      /\ v + PGSIZE > W => u = v + PGSIZE - 1 - W
  <2>1. PICK b \in Word : b = PGSIZE - 1
    BY <1>1 DEF Word
  <2>2. /\ v + b < W => u = v + b
        /\ v + b >= W => u = v + b - W
    BY <1>2, <2>1, PlusIs
  <2>3. QED
    BY <1>1, <2>1, <2>2
<1>4. u \in Nat /\ u < W
  BY <1>1 DEF Word
<1>5. PICK r \in Nat : r = u - (u % PGSIZE) /\ r % PGSIZE = 0
                        /\ r > u - PGSIZE /\ r <= u
  BY <1>1, <1>4, RoundDown
<1>6. PGROUNDUP(v) = r
  BY <1>2, <1>5 DEF PGROUNDUP
<1>7. QED
  BY <1>1, <1>3, <1>4, <1>5, <1>6 DEF Word

\* A page is put in front of the free list, or taken from it.
LEMMA KfreeIs ==
  ASSUME K!TypeOK, K!ListSound, NEW v \in Page, v \notin Given, K!Kfree(v)
  PROVE  K!TypeOK' /\ K!ListSound' /\ Given' = Given \cup {v}
<1> USE DEF KP!TypeOK, K!TypeOK, KP!ListSound, K!ListSound, KP!Members,
            K!Members, K!Pointer, KP!Pointer, KP!Word, K!Word
<1>1. KP!KInv /\ v \in Page \ KP!Members(chain) /\ KP!Kfree(v)
  BY DEF KP!KInv, K!Kfree, KP!Kfree, Given
<1>2. NULL \notin Page
  BY DEF Page
<1>3. KP!KInv'
  BY ONLY <1>1, <1>2, KP!KfreeStep
<1>4. KP!Members(<<v>> \o chain) = KP!Members(chain) \cup {v}
  BY ONLY <1>1, KP!ConsMembers DEF KP!KInv, KP!TypeOK
<1>5. K!Members(chain)' = K!Members(chain) \cup {v}
  BY <1>4 DEF K!Kfree
<1>6. QED
  BY <1>3, <1>5 DEF KP!KInv, K!Kfree, Given

LEMMA KallocIs ==
  ASSUME K!TypeOK, K!ListSound, NEW r \in Page, K!Kalloc(r)
  PROVE  K!TypeOK' /\ K!ListSound' /\ Given' = Given
<1> USE DEF KP!TypeOK, K!TypeOK, KP!ListSound, K!ListSound, KP!Members,
            K!Members, K!Pointer, KP!Pointer, KP!Word, K!Word
<1>1. KP!KInv /\ KP!Kalloc(r)
  BY DEF KP!KInv, K!Kalloc, KP!Kalloc
<1>2. NULL \notin Page
  BY DEF Page
<1>3. KP!KInv' /\ KP!Pool!Take(r)
  BY ONLY <1>1, <1>2, KP!KallocStep, r \in Page
<1>4. /\ r \in KP!Members(chain)
      /\ KP!Members(chain)' = KP!Members(chain) \ {r}
      /\ used' = used \cup {r}
  BY ONLY <1>3 DEF KP!Pool!Take
<1>5. K!TypeOK' /\ K!ListSound'
  BY <1>3 DEF KP!KInv
<1>6. Given' = Given
  BY <1>4 DEF Given
<1>7. QED
  BY <1>5, <1>6

\* What the allocator has is pages.
LEMMA GivenPages ==
  ASSUME K!TypeOK, NEW v \in Given
  PROVE  v \in Page /\ v \in Nat
<1>1. chain \in Seq(Page) /\ used \subseteq Page
  BY DEF K!TypeOK
<1>2. K!Members(chain) \subseteq Page
  BY <1>1 DEF K!Members
<1>3. QED
  <2>1. v \in Page
    BY <1>1, <1>2 DEF Given
  <2>2. \A u \in Word : u \in Nat
    BY Numbers DEF Word
  <2>3. QED
    BY <2>1, <2>2 DEF Page

\* Before the first kfree it has none.
LEMMA NothingGiven ==
  ASSUME chain = <<>>, used = {}
  PROVE  Given = {}
BY DEF Given, K!Members

-----------------------------------------------------------------------------
(* The steps.                                                               *)

\* The invariant holds at first.
LEMMA InitBInv == Init => BInv
<1> SUFFICES ASSUME Init PROVE BInv
  OBVIOUS
<1>1. W \in Nat /\ W > 0 /\ 0 \in Word
  BY Numbers DEF Word
<1>2. Given = {}
  BY NothingGiven DEF Init
<1>3. K!TypeOK
  <2>1. <<>> \in Seq(Page)
    OBVIOUS
  <2>2. QED
    BY <2>1 DEF Init, K!TypeOK, K!Pointer, K!Word
<1>4. K!ListSound
  BY DEF Init, K!ListSound, K!Members
<1>5. TypeOK
  BY <1>1, <1>3 DEF Init, TypeOK, NULL
<1>6. QED
  BY <1>2, <1>4, <1>5 DEF Init, BInv, PoolChosen, PagesInv, LoopInv

\* What MapAssumption says of the entries of the map.
LEMMA Entries ==
  ASSUME TypeOK, NEW l \in 1..Len(mmap)
  PROVE  /\ mmap[l] \in [base : Word, length : Word, type : Nat \ {0}]
         /\ Len(mmap) \in Nat
         /\ l \in Usable =>
              /\ TypeOf(mmap[l]) = 1
              /\ \/ mmap[l].base = OneMiB /\ mmap[l].length >= kernel_size
                 \/ mmap[l].base >= OneMiB + kernel_size
              /\ mmap[l].base + kernel_size + 2 * PGSIZE <= W
              /\ \A m \in 1..l - 1 : m \in Usable => mmap[m].base < mmap[l].base
<1>1. mmap \in Maps
  BY DEF TypeOK
<1>2. mmap \in Seq([base : Word, length : Word, type : Nat \ {0}])
  BY <1>1, MapAssumption
<1>3. mmap[l] \in [base : Word, length : Word, type : Nat \ {0}] /\ Len(mmap) \in Nat
  <2>1. ASSUME NEW S, NEW s \in Seq(S), NEW k \in 1..Len(s)
        PROVE  s[k] \in S /\ Len(s) \in Nat
    BY <2>1
  <2>2. QED
    BY <1>2, <2>1
<1>4. QED
  BY <1>1, <1>3, MapAssumption DEF Usable

\* Only the kernel's own region or one beyond the window becomes the pool.
LEMMA ReadEntryStep ==
  ASSUME BInv, ReadEntry
  PROVE  BInv'
<1>1. TypeOK /\ K!TypeOK /\ K!ListSound /\ PoolChosen /\ PagesInv /\ LoopInv
  BY DEF BInv, TypeOK
<1>2. /\ pc = "handle_mmap" /\ i \in 1..Len(mmap) /\ i' = i + 1
      /\ UNCHANGED <<mmap, alloc_pool_size, pc, p, vend>>
      /\ UNCHANGED <<freelist, next, used, halted, chain>>
  BY <1>1 DEF ReadEntry, kvars, TypeOK, LoopInv
<1>3. PICK e : e = mmap[i]
  OBVIOUS
<1>4. e \in [base : Word, length : Word, type : Nat \ {0}] /\ Len(mmap) \in Nat
  BY <1>1, <1>2, <1>3, Entries
<1>5. Given' = Given /\ Given = {}
  BY <1>1, <1>2 DEF Given, PagesInv
<1>6. K!TypeOK' /\ K!ListSound'
  BY <1>1, <1>2 DEF K!TypeOK, K!ListSound, K!Members
<1>7. PagesInv' /\ LoopInv'
  BY <1>1, <1>2, <1>5 DEF PagesInv, LoopInv, TypeOK
<1>8. Usable' = Usable
  BY <1>2 DEF Usable
<1>9. CASE TypeOf(e) # 1
  <2>1. UNCHANGED <<alloc_pool, free_space>>
    BY <1>3, <1>9 DEF ReadEntry
  <2>2. TypeOK'
    BY <1>1, <1>2, <1>6, <2>1 DEF TypeOK
  <2>3. PoolChosen'
    BY <1>1, <1>2, <1>8, <2>1 DEF PoolChosen, Home, TypeOK
  <2>4. QED
    BY <1>6, <1>7, <2>2, <2>3 DEF BInv
<1>10. CASE TypeOf(e) = 1
  <2>1. /\ alloc_pool' = StartOf(e)
        /\ free_space' = Plus(free_space, LengthOf(e))
    BY <1>3, <1>10 DEF ReadEntry
  <2>2. i \in Usable
    BY <1>2, <1>3, <1>10 DEF Usable
  <2>3. /\ \/ e.base = OneMiB /\ e.length >= kernel_size
           \/ e.base >= OneMiB + kernel_size
        /\ e.base + kernel_size + 2 * PGSIZE <= W
        /\ \A m \in 1..i - 1 : m \in Usable => mmap[m].base < e.base
    BY <1>1, <1>2, <1>3, <2>2, Entries
  <2>4. e.base \in Word /\ e.length \in Word /\ kernel_size \in Word
        /\ kernel_size + PGSIZE \in Word /\ free_space \in Word
    <3>1. e.base \in Word /\ e.length \in Word
      BY <1>4
    <3>2. free_space \in Word
      BY <1>1 DEF TypeOK
    <3>3. PICK b \in Word : b = e.base
      BY <3>1
    <3>4. b + kernel_size + 2 * PGSIZE <= W
      BY <2>3, <3>3
    <3>5. kernel_size \in Word /\ kernel_size + PGSIZE \in Word
      BY <3>4, Numbers DEF Word
    <3>6. QED
      BY <3>1, <3>2, <3>5
  <2>5. Minus(e.length, kernel_size) \in Word
    BY <2>4, MinusIs
  <2>6. LengthOf(e) = Minus(e.length, kernel_size)
    BY <2>3, <2>4, Numbers DEF LengthOf, Word
  <2>7. StartOf(e) \in Word
    BY <2>4, PlusIs DEF StartOf
  <2>8. Plus(free_space, LengthOf(e)) \in Word
    BY <2>4, <2>5, <2>6, PlusIs
  <2>9. TypeOK'
    BY <1>1, <1>2, <1>6, <2>1, <2>7, <2>8 DEF TypeOK
  <2>10. e.base = OneMiB => free_space' = Minus(e.length, kernel_size)
    <3>1. SUFFICES ASSUME e.base = OneMiB
                   PROVE  free_space' = Minus(e.length, kernel_size)
      OBVIOUS
    <3>2. ASSUME NEW l \in 1..Len(mmap), l \in Usable, l < i
          PROVE  FALSE
      <4>1. l \in 1..i - 1
        BY <1>2, <3>2
      <4>2. mmap[l].base < OneMiB
        BY <2>3, <3>1, <3>2, <4>1
      <4>3. \/ mmap[l].base = OneMiB
            \/ mmap[l].base >= OneMiB + kernel_size
        BY <1>1, <3>2, Entries
      <4>4. mmap[l].base \in Word
        BY <1>1, Entries
      <4>5. QED
        BY <4>2, <4>3, <4>4, Numbers DEF Word
    <3>3. free_space = 0
      BY <1>1, <1>2, <3>2 DEF PoolChosen
    <3>4. 0 \in Word /\ 0 + Minus(e.length, kernel_size) < W
      BY <2>5, Numbers DEF Word
    <3>5. QED
      BY <2>1, <2>5, <2>6, <3>3, <3>4, PlusIs DEF Word
  <2>11. PoolChosen'
    <3>1. /\ i \in 1..Len(mmap') /\ i \in Usable' /\ i < i'
          /\ alloc_pool' = StartOf(mmap'[i])
          /\ \/ mmap'[i].base >= OneMiB + kernel_size
             \/ /\ mmap'[i].base = OneMiB
                /\ free_space' = Minus(mmap'[i].length, kernel_size)
      BY <1>2, <1>3, <1>8, <2>1, <2>2, <2>3, <2>10
    <3>2. QED
      BY <3>1 DEF PoolChosen, Home
  <2>12. QED
    BY <1>6, <1>7, <2>9, <2>11 DEF BInv
<1>11. QED
  BY <1>9, <1>10

\* static_pool is where it is and does not wrap.
LEMMA EndMapStep ==
  ASSUME BInv, EndMap
  PROVE  BInv'
<1>1. TypeOK /\ K!TypeOK /\ K!ListSound /\ PoolChosen /\ PagesInv /\ LoopInv
  BY DEF BInv, TypeOK
<1>2. /\ pc = "handle_mmap" /\ pc' = "static"
      /\ alloc_pool_size' = Minus(free_space, kernel_size)
      /\ p' = PGROUNDUP(static_pool) /\ vend' = Plus(static_pool, StaticSize)
      /\ UNCHANGED <<mmap, i, alloc_pool, free_space>>
      /\ UNCHANGED <<freelist, next, used, halted, chain>>
  BY DEF EndMap, CallFreerange, kvars
<1>3. K!TypeOK' /\ K!ListSound'
  BY <1>1, <1>2 DEF K!TypeOK, K!ListSound, K!Members
<1>4. Given' = {}
  BY <1>1, <1>2 DEF Given, PagesInv
<1>5. /\ static_pool \in Word /\ StaticSize \in Word /\ kernel_size \in Word
      /\ static_pool + StaticSize < W /\ static_pool + PGSIZE <= W
  BY Numbers DEF Word
<1>6. p' = static_pool /\ p' % PGSIZE = 0
  <2>1. PICK q \in Nat : q = PGROUNDUP(static_pool)
    BY <1>5, RoundUp DEF Word
  <2>2. /\ q % PGSIZE = 0 /\ q >= static_pool /\ q < static_pool + PGSIZE
    BY <1>5, <2>1, RoundUp
  <2>3. q > static_pool => q >= static_pool + PGSIZE
    BY <2>2, Multiples, Numbers
  <2>4. QED
    BY <1>2, <2>1, <2>2, <2>3, Numbers
<1>7. vend' = static_pool + StaticSize /\ vend' \in Word
  BY <1>2, <1>5, PlusIs
<1>8. free_space \in Word
  BY <1>1 DEF TypeOK
<1>9. alloc_pool_size' \in Word
  BY <1>2, <1>5, <1>8, MinusIs
<1>10. TypeOK'
  BY <1>1, <1>2, <1>3, <1>5, <1>6, <1>7, <1>9 DEF TypeOK
<1>11. PoolChosen'
  BY <1>1, <1>2 DEF PoolChosen, Home, Usable
<1>12. PagesInv'
  BY <1>4 DEF PagesInv
<1>13. LoopInv'
  BY <1>2, <1>6, <1>7, Numbers DEF LoopInv
<1>14. QED
  BY <1>3, <1>10, <1>11, <1>12, <1>13 DEF BInv

\* The page that freerange frees is new to the allocator.
LEMMA FreePageStep ==
  ASSUME BInv, FreePage
  PROVE  BInv' /\ p \in Page /\ p \notin Given
<1>1. TypeOK /\ K!TypeOK /\ K!ListSound /\ PoolChosen /\ PagesInv /\ LoopInv
  BY DEF BInv, TypeOK
<1>2. /\ pc \in {"static", "pool"} /\ Plus(p, PGSIZE) <= vend
      /\ Reachable(p) /\ K!Kfree(p) /\ p' = Plus(p, PGSIZE)
      /\ UNCHANGED <<mmap, i, alloc_pool, free_space, alloc_pool_size, pc, vend>>
  BY DEF FreePage, AnotherPage
<1>3. p \in Word /\ vend \in Word /\ p \in Nat /\ vend \in Nat
  BY <1>1 DEF TypeOK, Word
<1>4. p % PGSIZE = 0 /\ KERN_BASE <= p /\ p < KERN_BASE + Window
  BY <1>1, <1>2 DEF LoopInv, Reachable
<1>5. p + PGSIZE <= KERN_BASE + Window
  <2>1. PICK z \in Nat : z = KERN_BASE + Window
    BY Numbers
  <2>2. z % PGSIZE = 0
    BY <2>1, Multiples, Numbers
  <2>3. z > p => z >= p + PGSIZE
    BY <1>3, <1>4, <2>2, Multiples, Numbers
  <2>4. QED
    BY <1>4, <2>1, <2>3
<1>6. p' = p + PGSIZE /\ p' \in Word /\ p' <= vend
  <2>1. PGSIZE \in Word /\ p + PGSIZE < W
    BY <1>3, <1>5, Numbers DEF Word
  <2>2. QED
    BY <1>2, <1>3, <2>1, PlusIs
<1>7. p' % PGSIZE = 0
  <2>1. PGSIZE % PGSIZE = 0
    BY Numbers
  <2>2. QED
    BY <1>3, <1>4, <1>6, <2>1, Multiples, Numbers
<1>8. p \in Page
  BY <1>3, <1>4, Numbers DEF Page, NULL
<1>9. \A v : /\ Static(v) => Static(v)'
             /\ FromMap(v) => FromMap(v)'
  BY <1>2 DEF Static, FromMap, Home, Usable
<1>10. /\ pc = "static" => Static(p)
       /\ pc = "pool" => FromMap(p) /\ ~Static(p)
  <2>1. pc = "static" => Static(p)
    BY <1>1, <1>3, <1>6, Numbers DEF LoopInv, Static
  <2>2. CASE pc = "pool"
    <3>1. PICK l \in 1..Len(mmap) :
            Home(l) /\ vend <= KERN_BASE + OneMiB + mmap[l].length
      BY <1>1, <1>2, <2>2 DEF LoopInv, AnotherPage
    <3>2. KernelEnd <= p
      BY <1>1, <1>2, <2>2 DEF LoopInv, AnotherPage
    <3>3. mmap[l].length \in Word
      BY <1>1, Entries
    <3>4. PICK b \in Nat : b = mmap[l].length
      BY <3>3 DEF Word
    <3>5. p + PGSIZE <= KERN_BASE + OneMiB + b
      BY <1>3, <1>6, <3>1, <3>4, Numbers
    <3>6. FromMap(p)
      BY <3>1, <3>2, <3>4, <3>5 DEF FromMap
    <3>7. ~Static(p)
      BY <1>3, <3>2, Numbers DEF Static, KernelEnd
    <3>8. QED
      BY <2>2, <3>6, <3>7
  <2>3. QED
    BY <2>1, <2>2
<1>11. p \notin Given
  BY <1>1, <1>2, <1>3, <1>10 DEF PagesInv
<1>12. K!TypeOK' /\ K!ListSound' /\ Given' = Given \cup {p}
  BY <1>1, <1>2, <1>8, <1>11, KfreeIs
<1>13. TypeOK'
  BY <1>1, <1>2, <1>6, <1>12 DEF TypeOK
<1>14. PoolChosen'
  BY <1>1, <1>2 DEF PoolChosen, Home, Usable
<1>15. PagesInv'
  <2>1. SUFFICES ASSUME NEW v \in Given'
                 PROVE  /\ Static(v)' \/ FromMap(v)'
                        /\ pc' = "static" => Static(v)' /\ v < p'
                        /\ pc' = "pool" => Static(v)' \/ v < p'
    BY <1>2 DEF PagesInv
  <2>2. CASE v = p
    BY <1>2, <1>3, <1>6, <1>9, <1>10, <2>2, Numbers
  <2>3. CASE v \in Given
    <3>1. v \in Nat
      BY <1>1, <2>3, GivenPages
    <3>2. v < p => v < p'
      BY <1>3, <1>6, <3>1, Numbers
    <3>3. QED
      BY <1>1, <1>2, <1>9, <2>3, <3>2 DEF PagesInv
  <2>4. QED
    BY <1>12, <2>1, <2>2, <2>3
<1>16. LoopInv'
  <2>1. /\ pc = "static" => /\ alloc_pool_size' = Minus(free_space', kernel_size)
                            /\ static_pool <= p' /\ p' <= vend'
                            /\ vend' = static_pool + StaticSize
    BY <1>1, <1>2, <1>3, <1>6, Numbers DEF LoopInv
  <2>2. CASE pc = "pool"
    <3>1. PICK l \in 1..Len(mmap) :
            Home(l) /\ vend <= KERN_BASE + OneMiB + mmap[l].length
      BY <1>1, <1>2, <2>2 DEF LoopInv, AnotherPage
    <3>2. KernelEnd <= p
      BY <1>1, <1>2, <2>2 DEF LoopInv, AnotherPage
    <3>3. KernelEnd <= p'
      BY <1>3, <1>6, <3>2, Numbers DEF KernelEnd
    <3>4. Home(l)' /\ l \in 1..Len(mmap') /\ mmap' = mmap /\ vend' = vend
      BY <1>2, <3>1 DEF Home, Usable
    <3>5. QED
      BY <1>2, <1>7, <2>2, <3>1, <3>3, <3>4 DEF LoopInv, KernelEnd
  <2>3. CASE pc = "static"
    BY <1>2, <1>7, <2>1, <2>3 DEF LoopInv
  <2>4. QED
    BY <1>2, <2>2, <2>3
<1>17. QED
  BY <1>8, <1>11, <1>12, <1>13, <1>14, <1>15, <1>16 DEF BInv

\* Where freerange starts when it is given the pool of the memory map, and where
\* it ends, if there is a page in between that it can write to.
LEMMA PoolStart ==
  ASSUME TypeOK, PoolChosen, alloc_pool_size = Minus(free_space, kernel_size),
         NEW s, s = Plus(alloc_pool, KERN_BASE),
         NEW q, q = PGROUNDUP(s),
         NEW z, z = Plus(s, alloc_pool_size)
  PROVE  /\ s \in Word /\ q \in Word /\ z \in Word /\ q % PGSIZE = 0
         /\ Plus(q, PGSIZE) <= z /\ Reachable(q) =>
              /\ KernelEnd <= q
              /\ \E l \in 1..Len(mmap) :
                   Home(l) /\ z <= KERN_BASE + OneMiB + mmap[l].length
<1>1. /\ alloc_pool \in Word /\ free_space \in Word /\ alloc_pool_size \in Word
  BY DEF TypeOK
<1>2. KERN_BASE \in Word /\ kernel_size \in Word /\ PGSIZE \in Word
  BY Numbers DEF Word
<1>3. s \in Word /\ q \in Word /\ z \in Word /\ q % PGSIZE = 0
  BY <1>1, <1>2, PlusIs, RoundUp
<1>4. /\ alloc_pool \in Nat /\ alloc_pool < W
      /\ s \in Nat /\ s < W /\ q \in Nat /\ q < W /\ z \in Nat /\ z < W
      /\ alloc_pool_size \in Nat /\ alloc_pool_size < W
      /\ free_space \in Nat /\ free_space < W
  BY <1>1, <1>3, Numbers DEF Word
<1>5. /\ alloc_pool + KERN_BASE < W => s = alloc_pool + KERN_BASE
      /\ alloc_pool + KERN_BASE >= W => s = alloc_pool + KERN_BASE - W
  BY <1>1, <1>2, PlusIs
<1>6. /\ s + alloc_pool_size < W => z = s + alloc_pool_size
      /\ s + alloc_pool_size >= W => z = s + alloc_pool_size - W
  BY <1>1, <1>3, PlusIs
<1>7. /\ free_space >= kernel_size => alloc_pool_size = free_space - kernel_size
      /\ free_space < kernel_size => alloc_pool_size = free_space + W - kernel_size
  BY <1>1, <1>2, MinusIs
<1>8. /\ s + PGSIZE <= W => q >= s /\ q < s + PGSIZE
      /\ s + PGSIZE > W => q < PGSIZE
  BY <1>3, RoundUp
<1>9. PGSIZE <= kernel_size
  BY Numbers
<1>10. CASE alloc_pool = NULL /\ free_space = 0
  <2>1. s = KERN_BASE /\ alloc_pool_size = W - kernel_size
    BY <1>4, <1>5, <1>7, <1>9, <1>10, Numbers DEF NULL
  <2>2. z = KERN_BASE - kernel_size
    BY <1>4, <1>6, <2>1, Numbers
  <2>3. q >= KERN_BASE /\ q < KERN_BASE + PGSIZE
    BY <1>8, <2>1, Numbers
  <2>4. Plus(q, PGSIZE) = q + PGSIZE
    <3>1. q > KERN_BASE => q >= KERN_BASE + PGSIZE
      BY <1>3, <1>4, Multiples, Numbers
    <3>2. q + PGSIZE < W
      BY <1>4, <2>3, <3>1, Numbers
    <3>3. QED
      BY <1>2, <1>3, <3>2, PlusIs
  <2>5. QED
    BY SMTT(30), <1>3, <1>4, <2>2, <2>3, <2>4, Numbers
<1>11. ASSUME NEW l \in 1..Len(mmap), l \in Usable, alloc_pool = StartOf(mmap[l]),
              \/ mmap[l].base >= OneMiB + kernel_size
              \/ Home(l) /\ free_space = Minus(mmap[l].length, kernel_size)
       PROVE  Plus(q, PGSIZE) <= z /\ Reachable(q) =>
                KernelEnd <= q /\ Home(l)
                /\ z <= KERN_BASE + OneMiB + mmap[l].length
  <2>1. mmap[l].base \in Word /\ mmap[l].length \in Word
    BY Entries
  <2>2. PICK b \in Nat : b = mmap[l].base
    BY <2>1 DEF Word
  <2>3. PICK n \in Nat : n = mmap[l].length /\ n < W /\ n \in Word
    BY <2>1, Numbers DEF Word
  <2>4. /\ (b = OneMiB /\ n >= kernel_size) \/ b >= OneMiB + kernel_size
        /\ b + kernel_size + 2 * PGSIZE <= W
    BY <1>11, <2>2, <2>3, Entries
  <2>5. alloc_pool = b + kernel_size + PGSIZE
    <3>1. PICK k \in Word : k = kernel_size + PGSIZE
      BY <2>4, Numbers DEF Word
    <3>2. b >= OneMiB /\ b + k < W
      BY <2>4, <3>1, Numbers
    <3>3. alloc_pool = Plus(b, k)
      BY <1>11, <2>2, <3>1, <3>2 DEF StartOf
    <3>4. Plus(b, k) = b + k
      BY <2>1, <2>2, <3>1, <3>2, PlusIs
    <3>5. QED
      BY <3>1, <3>3, <3>4, Numbers
  <2>6. Reachable(q) => /\ s = alloc_pool + KERN_BASE /\ s + PGSIZE <= W
                        /\ q >= s /\ q < KERN_BASE + Window
    <3>1. ASSUME alloc_pool + KERN_BASE >= W
          PROVE  q < KERN_BASE
      <4>1. s <= KERN_BASE - PGSIZE
        BY <1>4, <1>5, <2>4, <2>5, <3>1, Numbers
      <4>2. QED
        BY SMTT(30), <1>4, <1>8, <4>1, Numbers
    <3>2. ASSUME s + PGSIZE > W
          PROVE  q < KERN_BASE
      BY <1>4, <1>8, <3>2, Numbers
    <3>3. QED
      BY SMTT(30), <1>4, <1>5, <1>8, <3>1, <3>2, Numbers DEF Reachable
  <2>7. CASE b >= OneMiB + kernel_size
    <3>1. ~Reachable(q)
      BY SMTT(30), <1>4, <2>5, <2>6, <2>7, Numbers
    <3>2. QED
      BY <3>1
  <2>8. CASE b = OneMiB /\ n >= kernel_size
    <3>1. Home(l)
      BY <1>11, <2>2, <2>8 DEF Home
    <3>2. Reachable(q) => KernelEnd <= q
      BY SMTT(30), <1>4, <2>5, <2>6, <2>8, Numbers DEF KernelEnd
    <3>3. free_space = n - kernel_size
      <4>1. ~(b >= OneMiB + kernel_size)
        BY <2>8, <1>9, Numbers
      <4>2. free_space = Minus(n, kernel_size)
        BY <1>11, <2>2, <2>3, <4>1
      <4>3. QED
        BY <1>2, <2>3, <2>8, <4>2, MinusIs
    <3>4. Reachable(q) => z <= KERN_BASE + OneMiB + n
      <4>1. SUFFICES ASSUME Reachable(q) PROVE z <= KERN_BASE + OneMiB + n
        OBVIOUS
      <4>2. s = KERN_BASE + OneMiB + kernel_size + PGSIZE
        BY <2>5, <2>6, <2>8, <4>1, Numbers
      <4>3. CASE free_space >= kernel_size
        BY SMTT(30), <1>4, <1>6, <1>7, <1>9, <3>3, <4>2, <4>3, Numbers
      <4>4. CASE free_space < kernel_size
        BY SMTT(30), <1>4, <1>6, <1>7, <1>9, <2>8, <3>3, <4>2, <4>4, Numbers
      <4>5. QED
        BY <1>4, <4>3, <4>4, Numbers
    <3>5. QED
      BY <2>3, <3>1, <3>2, <3>4
  <2>9. QED
    BY <2>4, <2>7, <2>8
<1>12. QED
  BY <1>3, <1>10, <1>11 DEF PoolChosen

\* Between the pools a page is taken, which stays given.
LEMMA SetupPagingStep ==
  ASSUME BInv, SetupPaging
  PROVE  BInv'
<1>1. TypeOK /\ K!TypeOK /\ K!ListSound /\ PoolChosen /\ PagesInv /\ LoopInv
  BY DEF BInv, TypeOK
<1>2. /\ pc = "static" /\ pc' = "pool"
      /\ p' = PGROUNDUP(Plus(alloc_pool, KERN_BASE))
      /\ vend' = Plus(Plus(alloc_pool, KERN_BASE), alloc_pool_size)
      /\ UNCHANGED <<mmap, i, alloc_pool, free_space, alloc_pool_size>>
  BY DEF SetupPaging, CallFreerange
<1>3. K!TypeOK' /\ K!ListSound' /\ Given' = Given
  <2>1. PICK r \in Page : K!Kalloc(r)
    BY DEF SetupPaging
  <2>2. QED
    BY <1>1, <2>1, KallocIs
<1>4. PICK s, q, z : /\ s = Plus(alloc_pool, KERN_BASE) /\ q = PGROUNDUP(s)
                     /\ z = Plus(s, alloc_pool_size)
  OBVIOUS
<1>5. alloc_pool_size = Minus(free_space, kernel_size)
  BY <1>1, <1>2 DEF LoopInv
<1>6. /\ q \in Word /\ z \in Word /\ q % PGSIZE = 0
      /\ Plus(q, PGSIZE) <= z /\ Reachable(q) =>
           /\ KernelEnd <= q
           /\ \E l \in 1..Len(mmap) :
                Home(l) /\ z <= KERN_BASE + OneMiB + mmap[l].length
  BY <1>1, <1>4, <1>5, PoolStart
<1>7. p' = q /\ vend' = z
  BY <1>2, <1>4
<1>8. TypeOK'
  BY <1>1, <1>2, <1>3, <1>6, <1>7 DEF TypeOK
<1>9. PoolChosen'
  BY <1>1, <1>2 DEF PoolChosen, Home, Usable
<1>10. PagesInv'
  BY <1>1, <1>2, <1>3 DEF PagesInv, Static, FromMap, Home, Usable
<1>11. LoopInv'
  <2>1. ASSUME AnotherPage', Reachable(p')
        PROVE  /\ KernelEnd <= p'
               /\ \E l \in 1..Len(mmap') :
                    Home(l)' /\ vend' <= KERN_BASE + OneMiB + mmap'[l].length
    <3>1. Plus(q, PGSIZE) <= z /\ Reachable(q)
      BY <1>7, <2>1 DEF AnotherPage
    <3>2. QED
      BY <1>2, <1>6, <1>7, <3>1 DEF Home, Usable
  <2>2. QED
    BY <1>2, <1>6, <1>7, <2>1 DEF LoopInv
<1>12. QED
  BY <1>3, <1>8, <1>9, <1>10, <1>11 DEF BInv

\* SetupTasks, Fault, Idle, TakePage: no page is given, and freerange's loop is
\* not entered again.
LEMMA LaterStep ==
  ASSUME BInv,
         \/ UNCHANGED kvars \/ \E r \in Page : K!Kalloc(r),
         UNCHANGED <<mmap, alloc_pool, free_space, alloc_pool_size, p, vend>>,
         i' \in Nat, pc # "handle_mmap", pc' \in {"usercode", "idle", "fault"}
  PROVE  BInv' /\ Given' = Given
<1>1. TypeOK /\ K!TypeOK /\ K!ListSound /\ PoolChosen /\ PagesInv /\ LoopInv
  BY DEF BInv, TypeOK
<1>2. K!TypeOK' /\ K!ListSound' /\ Given' = Given
  <2>1. CASE UNCHANGED kvars
    BY <1>1, <2>1 DEF kvars, K!TypeOK, K!ListSound, K!Members, Given
  <2>2. ASSUME NEW r \in Page, K!Kalloc(r)
        PROVE  K!TypeOK' /\ K!ListSound' /\ Given' = Given
    BY <1>1, <2>2, KallocIs
  <2>3. QED
    BY <2>1, <2>2
<1>3. TypeOK'
  BY <1>1, <1>2 DEF TypeOK
<1>4. PoolChosen'
  BY <1>1 DEF PoolChosen, Home, Usable
<1>5. PagesInv'
  BY <1>1, <1>2 DEF PagesInv, Static, FromMap, Home, Usable
<1>6. LoopInv'
  BY DEF LoopInv
<1>7. QED
  BY <1>2, <1>3, <1>4, <1>5, <1>6 DEF BInv

\* Nothing changes.
LEMMA StutterStep ==
  ASSUME BInv, UNCHANGED vars
  PROVE  BInv' /\ Given' = Given
BY DEF BInv, vars, bvars, kvars, TypeOK, K!TypeOK, K!ListSound, K!Members, PoolChosen,
       Home, Usable, PagesInv, Given, Static, FromMap, LoopInv, AnotherPage

\* Every step keeps the invariant; freerange's loop alone gives a page, and one
\* that the allocator has not had.
LEMMA BStep ==
  ASSUME BInv, [Next]_vars
  PROVE  /\ BInv'
         /\ \/ p \in Page \ Given /\ K!Kfree(p)
            \/ \E r \in Page : K!Kalloc(r)
            \/ UNCHANGED kvars
<1>1. CASE ReadEntry
  BY <1>1, ReadEntryStep DEF ReadEntry
<1>2. CASE EndMap
  BY <1>2, EndMapStep DEF EndMap
<1>3. CASE FreePage
  BY <1>3, FreePageStep DEF FreePage
<1>4. CASE SetupPaging
  BY <1>4, SetupPagingStep DEF SetupPaging
<1>5. i \in Nat /\ pc \in {"handle_mmap", "static", "pool", "usercode", "idle", "fault"}
  BY DEF BInv, TypeOK
<1>6. CASE Fault
  BY <1>5, <1>6, LaterStep DEF Fault, AnotherPage
<1>7. CASE SetupTasks
  BY <1>5, <1>7, LaterStep DEF SetupTasks
<1>8. CASE TakePage
  BY <1>5, <1>8, LaterStep DEF TakePage
<1>9. CASE Idle
  BY <1>5, <1>9, LaterStep DEF Idle
<1>10. CASE UNCHANGED vars
  BY <1>10, StutterStep DEF vars
<1>11. QED
  BY <1>1, <1>2, <1>3, <1>4, <1>6, <1>7, <1>8, <1>9, <1>10 DEF Next

-----------------------------------------------------------------------------
(* The theorems.                                                            *)

\* The pages given away are static_pool's and those of the kernel's own region
\* behind the kernel, below where freerange got to.
THEOREM BootInvariant == Spec => []BInv
<1>1. BInv /\ [Next]_vars => BInv'
  BY BStep
<1>2. QED
  BY InitBInv, <1>1, PTL DEF Spec

\* handle_mmap, kmain and freerange compute words, and the allocator's list is
\* made of pages.
THEOREM BootTypeCorrect == Spec => []TypeOK
<1>1. BInv => TypeOK
  BY DEF BInv
<1>2. QED
  BY BootInvariant, <1>1, PTL

\* Of the kernel's image, freerange gives away static_pool and nothing else.
THEOREM KernelImageKept == Spec => []KernelKept
<1>1. ASSUME BInv PROVE KernelKept
  <2>1. SUFFICES ASSUME NEW v \in Given
                 PROVE  \/ v < KERN_BASE + OneMiB
                        \/ v >= KERN_BASE + OneMiB + kernel_size
                        \/ v >= static_pool /\ v < static_pool + StaticSize
    BY DEF KernelKept
  <2>2. Static(v) \/ FromMap(v)
    BY <1>1 DEF BInv, PagesInv
  <2>3. QED
    BY <2>2 DEF Static, FromMap, KernelEnd
<1>2. QED
  BY BootInvariant, <1>1, PTL

\* Every page that freerange gives away is in static_pool or in memory that the
\* map calls usable, with the words that wrap and the regions that handle_mmap
\* shortens.
THEOREM PagesUsable == Spec => []PagesAreMemory
<1>1. ASSUME BInv PROVE PagesAreMemory
  <2>1. SUFFICES ASSUME NEW v \in Given, ~Static(v)
                 PROVE  \E l \in 1..Len(mmap) :
                          /\ mmap[l].type = 1
                          /\ KERN_BASE + mmap[l].base <= v
                          /\ v + PGSIZE <= KERN_BASE + mmap[l].base + mmap[l].length
    BY DEF PagesAreMemory, Static
  <2>2. PICK l \in 1..Len(mmap) :
          /\ Home(l) /\ KernelEnd <= v
          /\ v + PGSIZE <= KERN_BASE + OneMiB + mmap[l].length
    BY <1>1, <2>1 DEF BInv, PagesInv, FromMap
  <2>3. TypeOK
    BY <1>1 DEF BInv
  <2>4. mmap[l].base = OneMiB /\ TypeOf(mmap[l]) = 1
    BY <2>2 DEF Home, Usable
  <2>5. mmap[l] \in [base : Word, length : Word, type : Nat \ {0}]
    BY <2>3, Entries
  <2>6. PICK n \in Nat \ {0} : n = mmap[l].type
    BY <2>5
  <2>7. n = 1
    BY <2>4, <2>6 DEF TypeOf
  <2>8. v \in Nat
    BY <2>1, <2>3, GivenPages DEF TypeOK
  <2>9. KERN_BASE + OneMiB <= v
    BY <2>2, <2>8, Numbers DEF KernelEnd
  <2>10. QED
    BY <2>2, <2>4, <2>6, <2>7, <2>9
<1>2. QED
  BY BootInvariant, <1>1, PTL

\* kfree, as freerange calls it, meets what kalloc.c asks of its callers: a
\* page that it has already is not freed.
THEOREM AllocatorUsed == Spec => UsesAllocator
<1>1. Init => K!Init
  <2>1. SUFFICES ASSUME Init PROVE K!Init
    OBVIOUS
  <2>2. /\ freelist = NULL /\ used = {} /\ halted = FALSE /\ chain = <<>>
        /\ next = [v \in Page |-> NULL]
    BY <2>1 DEF Init
  <2>3. NULL \in K!Word
    BY DEF K!Word, K!Pointer
  <2>4. next \in [Page -> K!Word]
    BY <2>2, <2>3
  <2>5. QED
    BY <2>2, <2>4 DEF K!Init
<1>2. BInv /\ [Next]_vars => [K!Next]_(K!kvars)
  <2>1. SUFFICES ASSUME BInv, [Next]_vars PROVE K!Next \/ UNCHANGED K!kvars
    OBVIOUS
  <2>2. \/ p \in Page \ Given /\ K!Kfree(p)
        \/ \E r \in Page : K!Kalloc(r)
        \/ UNCHANGED kvars
    BY <2>1, BStep
  <2>3. QED
    BY <2>2 DEF K!Next, kvars, K!kvars, Given
<1>3. QED
  BY BootInvariant, <1>1, <1>2, PTL DEF Spec, UsesAllocator, K!Spec

\* No page is given to the allocator twice: not by the two calls of freerange,
\* nor after it was taken for a page table.
THEOREM PagesGivenOnce == Spec => GivenOnce
<1> DEFINE Once == \A v \in Page : chain' = <<v>> \o chain => v \notin Given
<1>1. BInv /\ [Next]_vars => [Once]_vars
  <2>1. SUFFICES ASSUME BInv, [Next]_vars,
                        NEW v \in Page, chain' = <<v>> \o chain
                 PROVE  v \notin Given
    OBVIOUS
  <2>2. chain \in Seq(Page)
    BY <2>1 DEF BInv, TypeOK, K!TypeOK
  <2>3. Len(<<v>> \o chain) = Len(chain) + 1 /\ (<<v>> \o chain)[1] = v
    BY <2>2
  <2>4. CASE p \in Page \ Given /\ K!Kfree(p)
    <3>1. (<<p>> \o chain)[1] = p
      BY <2>2, <2>4
    <3>2. chain' = <<p>> \o chain
      BY <2>4 DEF K!Kfree
    <3>3. QED
      BY <2>1, <2>3, <2>4, <3>1, <3>2
  <2>5. ASSUME NEW r \in Page, K!Kalloc(r) PROVE FALSE
    <3>1. chain' = Tail(chain) /\ chain # <<>>
      BY <2>1, <2>5 DEF BInv, K!Kalloc, K!ListSound
    <3>2. Len(Tail(chain)) = Len(chain) - 1
      BY <2>2, <3>1
    <3>3. QED
      BY <2>1, <2>2, <2>3, <3>1, <3>2
  <2>6. CASE UNCHANGED kvars
    BY <2>1, <2>2, <2>3, <2>6 DEF kvars
  <2>7. QED
    BY <2>1, <2>4, <2>5, <2>6, BStep
<1>2. QED
  BY BootInvariant, <1>1, PTL DEF Spec, GivenOnce
=============================================================================
