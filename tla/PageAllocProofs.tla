-------------------------- MODULE PageAllocProofs --------------------------
(***************************************************************************)
(* Proofs about PageAlloc: for any size of memory and of pages, any place  *)
(* of the window that LayoutAssumption allows, any requests, and whatever  *)
(* owners write into their pages.                                          *)
(*                                                                         *)
(* The list in memory is described by two sequences, the addresses s of    *)
(* its regions and their lengths l, and an operation by what it does to    *)
(* them: a region in the place of some (Spliced), or one left out          *)
(* (Without).  What the code does to the links and headers is shown to be  *)
(* that; order, links and the memory of the regions are kept apart in      *)
(* lemmas of their own.                                                    *)
(***************************************************************************)
EXTENDS PageAlloc, TLAPS, SequenceTheorems, FiniteSetTheorems, WellFoundedInduction

-----------------------------------------------------------------------------
(* Numbers and sequences.                                                   *)

\* The quotient and the rest of a division.
LEMMA Div == \A P \in Nat \ {0}, x \in Nat : x \div P \in Nat /\ x = P * (x \div P) + (x % P)
OBVIOUS

\* A multiple leaves no rest,
LEMMA Mul == \A P \in Nat \ {0}, q \in Nat : (P * q) % P = 0
<1> SUFFICES ASSUME NEW P \in Nat \ {0}, NEW q \in Nat PROVE (P * q) % P = 0
  OBVIOUS
<1>1. PICK d \in Nat, r \in 0..P-1 : r = (P*q) % P /\ P * q = P * d + r /\ d = (P*q) \div P
  BY Div
<1>2. r = P * (q - d)
  BY <1>1
<1>3. CASE q <= d
  <2>1. P * (q-d) <= 0
    BY <1>3
  <2>. QED BY <2>1, <1>2, <1>1
<1>4. CASE q > d
  <2>1. PICK k \in Nat : k = q - d - 1
    BY <1>4, <1>1
  <2>2. q - d = k + 1
    BY <2>1, <1>1
  <2>3. P * (k+1) = P * k + P
    OBVIOUS
  <2>4. P * k >= 0
    OBVIOUS
  <2>. QED BY <2>2, <2>3, <2>4, <1>2, <1>1
<1>. QED BY <1>3, <1>4, <1>1

\* and what leaves none is a multiple.
LEMMA Multiple == ASSUME NEW P \in Nat \ {0}, NEW x \in Nat, x % P = 0
                  PROVE \E q \in Nat : x = P * q
<1>1. x \div P \in Nat /\ x = P * (x \div P) + 0
  BY Div
<1>2. x = P * (x \div P)
  BY <1>1
<1>. QED BY <1>1, <1>2

\* Sums and differences of multiples; between two there is a whole page.
LEMMA Multiples ==
  ASSUME NEW P \in Nat \ {0}, NEW x \in Nat, NEW y \in Nat,
         x % P = 0, y % P = 0
  PROVE  /\ (x + y) % P = 0
         /\ x >= y => (x - y) % P = 0
         /\ x > y => x >= y + P
<1>1. PICK a \in Nat : x = P * a
  BY Multiple
<1>2. PICK b \in Nat : y = P * b
  BY Multiple
<1>3. (x + y) % P = 0
  <2>2. PICK c \in Nat : c = a + b
    OBVIOUS
  <2>1. x + y = P * c
    BY <1>1, <1>2, <2>2
  <2>. QED BY <2>1, Mul
<1>4. x >= y => (x - y) % P = 0 /\ (x > y => x >= y + P)
  <2>. SUFFICES ASSUME x >= y PROVE (x - y) % P = 0 /\ (x > y => x >= y + P)
    OBVIOUS
  <2>1. a >= b \/ x = y
    <3>. SUFFICES ASSUME a < b PROVE x = y
      BY <1>1, <1>2
    <3>1. PICK c \in Nat : b = a + c
      <4>. b - a \in Nat /\ b = a + (b - a)
        OBVIOUS
      <4>. QED OBVIOUS
    <3>2. P * b = P * a + P * c /\ P * c >= 0
      BY <3>1
    <3>. QED BY <1>1, <1>2, <3>2
  <2>2. CASE x = y
    BY <2>2, Mul
  <2>3. CASE a >= b
    <3>1. PICK c \in Nat : a = b + c
      BY <2>3
    <3>2. P * a = P * b + P * c
      BY <3>1
    <3>3. x - y = P * c
      BY <3>2, <1>1, <1>2
    <3>4. c # 0 => P * c >= P
      <4>1. SUFFICES ASSUME c # 0 PROVE P * c >= P
        OBVIOUS
      <4>2. PICK d \in Nat : c = d + 1
        BY <4>1
      <4>3. P * c = P * d + P /\ P * d >= 0
        BY <4>2
      <4>. QED BY <4>3
    <3>5. c = 0 => P * c = 0
      OBVIOUS
    <3>. QED BY <3>3, <3>4, <3>5, Mul
  <2>. QED BY <2>1, <2>2, <2>3
<1>. QED BY <1>3, <1>4

\* Rounding down to a multiple.
LEMMA RoundDown == ASSUME NEW P \in Nat \ {0}, NEW x \in Nat
  PROVE /\ (x - (x % P)) % P = 0 /\ x - (x % P) \in Nat
        /\ x - (x % P) > x - P /\ x - (x % P) <= x
<1>1. PICK q \in Nat, r \in 0..P-1 : r = x % P /\ x = P * q + r
  <2>1. x \div P \in Nat /\ x = P * (x \div P) + (x % P) /\ x % P \in 0..P-1
    BY Div
  <2>. QED BY <2>1
<1>2. PICK z \in Nat : z = P * q
  OBVIOUS
<1>3. x - (x % P) = z
  BY <1>1, <1>2
<1>4. z % P = 0
  BY <1>2, Mul
<1>. QED BY <1>1, <1>2, <1>3, <1>4

\* A set of numbers has a least one.
LEMMA Least ==
  ASSUME NEW T, T \subseteq Nat, T # {}
  PROVE  \E x \in T : \A y \in T : x <= y
<1>1. IsWellFoundedOn(OpToRel(<, Nat), Nat)
  BY NatLessThanWellFounded
<1>2. PICK x \in T : \A y \in T : <<y, x>> \notin OpToRel(<, Nat)
  BY <1>1, WFMin
<1>3. \A y \in T : x <= y
  <2>. SUFFICES ASSUME NEW y \in T, y < x PROVE FALSE
    OBVIOUS
  <2>1. <<y, x>> \in Nat \X Nat
    OBVIOUS
  <2>2. <<y, x>>[1] = y /\ <<y, x>>[2] = x
    OBVIOUS
  <2>3. <<y, x>> \in OpToRel(<, Nat)
    BY <2>1, <2>2 DEF OpToRel
  <2>. QED BY <2>3, <1>2
<1>. QED BY <1>3

\* Min is the least element.
LEMMA MinIs ==
  ASSUME NEW T, T \subseteq Nat, T # {}
  PROVE  Min(T) \in T /\ \A y \in T : Min(T) <= y
BY Least DEF Min

\* A function on 1 .. n is a sequence of length n.
LEMMA Table == ASSUME NEW S, NEW n \in Nat, NEW f \in [1..n -> S]
  PROVE f \in Seq(S) /\ Len(f) = n /\ DOMAIN f = 1..n
<1>1. f \in Seq(S)
  BY IsASeq, SeqDef
<1>2. Len(f) \in Nat /\ DOMAIN f = 1..Len(f)
  BY <1>1, LenProperties
<1>3. 1..Len(f) = 1..n
  BY <1>2
<1>4. Len(f) = n
  <2>1. CASE Len(f) > n
    <3>1. Len(f) \in 1..Len(f)
      BY <2>1, <1>2
    <3>. QED BY <1>3, <3>1, <2>1
  <2>2. CASE n > Len(f)
    <3>1. n \in 1..n
      BY <2>2, <1>2
    <3>. QED BY <1>3, <3>1, <2>2
  <2>. QED BY <2>1, <2>2, <1>2
<1>. QED BY <1>1, <1>2, <1>4


-----------------------------------------------------------------------------
(* The list, and what Regions makes of it.                                  *)

\* The end of the mapped memory, and where headers may lie.
Top   == KERN_BASE + MemSize
Heads == {a \in Mapped : a % PAGESIZE = 0}

\* Regions by their addresses s and their lengths l: in order, and apart.
Sorted(s, l) ==
  /\ s \in Seq(Heads) /\ l \in Seq(Lengths) /\ Len(l) = Len(s)
  /\ \A i \in 1 .. Len(s) : s[i] + l[i] <= Top
  /\ \A i, j \in 1 .. Len(s) : i < j => s[i] + l[i] < s[j]

\* What follows the region i, or the head of the list for 0.
After(s, i) == IF i = Len(s) THEN NULL ELSE s[i + 1]

\* The list of freelist fl and headers h has these regions.
Linked(s, l, fl, h) ==
  /\ fl = After(s, 0)
  /\ \A i \in 1 .. Len(s) : h[s[i]] = [next |-> After(s, i), len |-> l[i]]

\* The recursive function of Regions: how it starts, and one step of it.
Link(s) == IF s = <<>> THEN s
           ELSE IF header[s[Len(s)]].next = NULL THEN s
           ELSE Append(s, header[s[Len(s)]].next)
Start == IF freelist = NULL THEN <<>> ELSE <<freelist>>
\* f is such a function.
Follows(f) == f = [n \in 0 .. MemSize |-> IF n = 0 THEN Start ELSE Link(f[n - 1])]

\* It has the first n + 1 regions at n, or all that there are.
Upto(s, n) == IF n < Len(s) THEN n + 1 ELSE Len(s)
Prefixes(s) == [n \in 0 .. MemSize |-> [i \in 1 .. Upto(s, n) |-> s[i]]]

\* No header lies at NULL, and all lie in the window.
LEMMA HeadsAre == \A a \in Heads : a \in Nat /\ a # NULL /\ a >= KERN_BASE /\ a < Top /\ a % PAGESIZE = 0
BY LayoutAssumption DEF Heads, Mapped, Top, NULL

\* The first regions of a list, for every n, are such a function,
LEMMA PrefixesFollow ==
  ASSUME NEW s, NEW l, Sorted(s, l), Linked(s, l, freelist, header)
  PROVE  Follows(Prefixes(s))
<1>0. s \in Seq(Heads) /\ Len(s) \in Nat /\ MemSize \in Nat
  BY LenProperties, LayoutAssumption DEF Sorted
<1> DEFINE f == Prefixes(s)
<1>1. ASSUME NEW n \in 0 .. MemSize
      PROVE  /\ f[n] = [i \in 1 .. Upto(s, n) |-> s[i]]
             /\ f[n] \in Seq(Heads) /\ Len(f[n]) = Upto(s, n)
  <2>1. f[n] = [i \in 1 .. Upto(s, n) |-> s[i]]
    BY DEF Prefixes
  <2>2. Upto(s, n) \in Nat /\ Upto(s, n) <= Len(s)
    BY <1>0 DEF Upto
  <2>3. f[n] \in [1 .. Upto(s, n) -> Heads]
    <3>1. \A i \in 1 .. Upto(s, n) : s[i] \in Heads
      BY <2>2, <1>0
    <3>. QED BY <3>1, <2>1
  <2>. QED BY <2>1, <2>2, <2>3, Table
<1>2. f[0] = Start
  <2>0. 0 \in 0 .. MemSize
    BY <1>0
  <2>1. CASE Len(s) = 0
    <3>1. freelist = NULL
      BY <2>1 DEF Linked, After
    <3>. HIDE DEF f
    <3>4. Upto(s, 0) = 0
      BY <2>1 DEF Upto
    <3>2. f[0] \in Seq(Heads) /\ Len(f[0]) = 0
      BY <2>0, <1>1, <3>4
    <3>3. f[0] = <<>>
      BY <3>2, EmptySeq
    <3>. QED BY <3>1, <3>3 DEF Start
  <2>2. CASE Len(s) # 0
    <3>1. s[1] \in Heads /\ Upto(s, 0) = 1
      BY <2>2, <1>0 DEF Upto
    <3>2. freelist = s[1] /\ freelist # NULL
      BY <2>2, <3>1, HeadsAre, <1>0 DEF Linked, After
    <3>3. f[0] = [i \in 1 .. 1 |-> s[i]] /\ f[0] \in Seq(Heads) /\ Len(f[0]) = 1
      BY <2>0, <1>1, <3>1
    <3>. HIDE DEF f
    <3>4. f[0][1] = s[1]
      BY <3>3
    <3>5. <<s[1]>> \in Seq(Heads) /\ Len(<<s[1]>>) = 1 /\ <<s[1]>>[1] = s[1]
      BY <3>1
    <3>6. f[0] = <<s[1]>>
      BY <3>3, <3>4, <3>5, SeqEqual
    <3>. QED BY <3>2, <3>6 DEF Start
  <2>. QED BY <2>1, <2>2
<1>3. ASSUME NEW n \in 0 .. MemSize, n # 0
      PROVE  f[n] = Link(f[n - 1])
  <2>0. n - 1 \in 0 .. MemSize /\ n - 1 \in Nat /\ n \in Nat
    BY <1>3, <1>0
  <2> DEFINE m == Upto(s, n - 1)
  <2>1. /\ f[n - 1] = [i \in 1 .. m |-> s[i]]
        /\ f[n - 1] \in Seq(Heads) /\ Len(f[n - 1]) = m
        /\ f[n] = [i \in 1 .. Upto(s, n) |-> s[i]]
        /\ f[n] \in Seq(Heads) /\ Len(f[n]) = Upto(s, n)
    BY <2>0, <1>1
  <2>2. m \in Nat /\ m <= Len(s) /\ (m = 0 => Len(s) = 0)
    BY <2>0, <1>0 DEF Upto
  <2>. HIDE DEF f
  <2>3. CASE m = 0
    <3>1. Upto(s, n) = 0
      BY <2>3, <2>2, <2>0 DEF Upto
    <3>2. f[n] = <<>> /\ f[n - 1] = <<>>
      BY <3>1, <2>1, <2>3, EmptySeq
    <3>. QED BY <3>2 DEF Link
  <2>4. CASE m # 0
    <3>1. f[n - 1] # <<>>
      BY <2>1, <2>4, EmptySeq
    <3>2. f[n - 1][m] = s[m]
      BY <2>1, <2>2, <2>4
    <3>3. header[s[m]].next = After(s, m)
      <4>1. m \in 1 .. Len(s)
        BY <2>2, <2>4, <1>0
      <4>2. header[s[m]] = [next |-> After(s, m), len |-> l[m]]
        BY <4>1 DEF Linked
      <4>. QED BY <4>2
    <3>4. CASE m = Len(s)
      <4>1. Upto(s, n) = m
        BY <3>4, <2>0, <1>0 DEF Upto
      <4>2. f[n] = f[n - 1]
        BY <4>1, <2>1
      <4>3. header[s[m]].next = NULL
        BY <3>3, <3>4 DEF After
      <4>. QED BY <4>2, <4>3, <3>1, <3>2, <2>1 DEF Link
    <3>5. CASE m # Len(s)
      <4>1. m = n /\ Upto(s, n) = m + 1 /\ m + 1 \in 1 .. Len(s)
        BY <3>5, <2>0, <1>0, <2>2 DEF Upto
      <4>2. s[m + 1] \in Heads /\ s[m + 1] # NULL
        BY <4>1, <1>0, HeadsAre
      <4>3. header[s[m]].next = s[m + 1]
        BY <3>3, <3>5 DEF After
      <4>4. Link(f[n - 1]) = Append(f[n - 1], s[m + 1])
        BY <4>2, <4>3, <3>1, <3>2, <2>1 DEF Link
      <4> DEFINE g == Append(f[n - 1], s[m + 1])
      <4>5. g \in Seq(Heads) /\ Len(g) = m + 1 /\ \A i \in 1 .. m + 1 : g[i] = IF i <= m THEN f[n - 1][i] ELSE s[m + 1]
        BY <2>1, <4>2, <2>2, AppendProperties
      <4>. HIDE DEF g
      <4>6. \A i \in 1 .. m + 1 : g[i] = f[n][i]
        BY <4>5, <2>1, <4>1, <2>2
      <4>7. g = f[n]
        BY <4>5, <4>6, <2>1, <4>1, SeqEqual
      <4>. QED BY <4>4, <4>7 DEF g
    <3>. QED BY <3>4, <3>5
  <2>. QED BY <2>3, <2>4, <2>2
<1>4. f = [n \in 0 .. MemSize |-> f[n]]
  BY DEF Prefixes
<1>. HIDE DEF f
<1>5. \A n \in 0 .. MemSize : f[n] = IF n = 0 THEN Start ELSE Link(f[n - 1])
  BY <1>2, <1>3
<1>6. [n \in 0 .. MemSize |-> f[n]] = [n \in 0 .. MemSize |-> IF n = 0 THEN Start ELSE Link(f[n - 1])]
  BY <1>5
<1>7. Follows(f)
  BY <1>4, <1>6 DEF Follows
<1>. QED BY <1>7 DEF f

\* and there is only one: the first n at which two differ is no start and no step.
LEMMA FollowsOnce ==
  ASSUME NEW f, Follows(f), NEW g, Follows(g)
  PROVE  \A n \in 0 .. MemSize : f[n] = g[n]
<1>0. MemSize \in Nat
  BY LayoutAssumption
<1>1. \A n \in 0 .. MemSize : /\ f[n] = (IF n = 0 THEN Start ELSE Link(f[n - 1]))
                              /\ g[n] = (IF n = 0 THEN Start ELSE Link(g[n - 1]))
  <2>1. ASSUME NEW n \in 0 .. MemSize PROVE f[n] = (IF n = 0 THEN Start ELSE Link(f[n - 1]))
    BY Zenon DEF Follows
  <2>2. ASSUME NEW n \in 0 .. MemSize PROVE g[n] = (IF n = 0 THEN Start ELSE Link(g[n - 1]))
    BY Zenon DEF Follows
  <2>. QED BY <2>1, <2>2
<1>. SUFFICES ASSUME NEW n0 \in 0 .. MemSize, f[n0] # g[n0] PROVE FALSE
  OBVIOUS
<1> DEFINE T == {n \in 0 .. MemSize : f[n] # g[n]}
<1>2. PICK n \in T : \A y \in T : n <= y
  <2>1. T \subseteq Nat /\ T # {}
    BY <1>0
  <2>. QED BY <2>1, Least
<1>3. n \in 0 .. MemSize /\ f[n] # g[n]
  OBVIOUS
<1>4. n # 0
  BY <1>1, <1>3
<1>5. n - 1 \in 0 .. MemSize /\ n - 1 \notin T
  BY <1>2, <1>3, <1>4, <1>0
<1>6. f[n - 1] = g[n - 1]
  BY <1>5
<1>. QED BY <1>1, <1>3, <1>4, <1>6

\* Regions is the value of one, when there is one.
LEMMA RegionsFollow ==
  ASSUME NEW f, Follows(f)
  PROVE  \E g : Follows(g) /\ Regions = g[MemSize \div PAGESIZE]
BY Zenon DEF Regions, Link, Start, Follows

\* The last place of a list that is not empty is one of its places
LEMMA LastPlace ==
  ASSUME NEW n \in Nat, n > 0
  PROVE  n \in 1 .. n
  OBVIOUS

\* The list has no more regions than Regions follows links.
LEMMA FewRegions ==
  ASSUME NEW s, NEW l, Sorted(s, l)
  PROVE  MemSize \div PAGESIZE \in 0 .. MemSize /\ Len(s) <= MemSize \div PAGESIZE
<1>0. /\ s \in Seq(Heads) /\ Len(s) \in Nat /\ MemSize \in Nat /\ PAGESIZE \in Nat \ {0}
      /\ KERN_BASE \in Nat
      /\ \A i \in 1 .. Len(s) : s[i] \in Nat /\ s[i] >= KERN_BASE /\ s[i] < KERN_BASE + MemSize
  <2>1. s \in Seq(Heads) /\ Len(s) \in Nat /\ MemSize \in Nat /\ PAGESIZE \in Nat \ {0} /\ KERN_BASE \in Nat
    BY LenProperties, LayoutAssumption DEF Sorted
  <2>2. \A i \in 1 .. Len(s) : s[i] \in Heads
    BY <2>1
  <2>. QED BY <2>1, <2>2, HeadsAre DEF Top
<1>1. PICK q \in Nat : q = MemSize \div PAGESIZE /\ MemSize = PAGESIZE * q
  <2>1. MemSize \div PAGESIZE \in Nat /\ MemSize = PAGESIZE * (MemSize \div PAGESIZE) + (MemSize % PAGESIZE)
    BY <1>0, Div
  <2>2. MemSize % PAGESIZE = 0
    BY LayoutAssumption
  <2>3. MemSize = PAGESIZE * (MemSize \div PAGESIZE) + 0
    BY <2>1, <2>2
  <2>4. MemSize = PAGESIZE * (MemSize \div PAGESIZE)
    BY <2>1, <2>3, <1>0
  <2>. QED BY <2>1, <2>4
<1>2. q \in 0 .. MemSize
  <2>1. PAGESIZE * q >= q
    <3>1. PICK c \in Nat : PAGESIZE = c + 1
      <4>. PAGESIZE - 1 \in Nat /\ PAGESIZE = (PAGESIZE - 1) + 1
        BY <1>0
      <4>. QED OBVIOUS
    <3>2. PAGESIZE * q = c * q + q /\ c * q >= 0
      BY <3>1
    <3>. QED BY <3>2
  <2>. QED BY <2>1, <1>1, <1>0
<1>3. \A i \in 1 .. Len(s) : s[i] >= KERN_BASE + PAGESIZE * (i - 1)
  <2>. SUFFICES ASSUME NEW i0 \in 1 .. Len(s), ~(s[i0] >= KERN_BASE + PAGESIZE * (i0 - 1)) PROVE FALSE
    OBVIOUS
  <2> DEFINE T == {i \in 1 .. Len(s) : ~(s[i] >= KERN_BASE + PAGESIZE * (i - 1))}
  <2>1. PICK i \in T : \A y \in T : i <= y
    <3>1. T \subseteq Nat /\ T # {}
      OBVIOUS
    <3>. HIDE DEF T
    <3>. QED BY <3>1, Least
  <2>2. i \in 1 .. Len(s) /\ i \in Nat /\ ~(s[i] >= KERN_BASE + PAGESIZE * (i - 1))
    OBVIOUS
  <2>3. i # 1
    <3>1. PAGESIZE * 0 = 0
      BY <1>0
    <3>2. i = 1 => PAGESIZE * (i - 1) = 0
      BY <3>1
    <3>. QED BY <3>2, <2>2, <1>0
  <2>4. PICK j \in 1 .. Len(s) : i = j + 1
    <3>. i - 1 \in 1 .. Len(s)
      BY <2>2, <2>3, <1>0
    <3>. QED BY <2>2
  <2>5. j \notin T
    BY <2>1, <2>4, <2>2
  <2>6. s[j] >= KERN_BASE + PAGESIZE * (j - 1)
    BY <2>5
  <2>7. s[j] + l[j] < s[i] /\ l[j] \in Lengths
    <3>1. j < i
      BY <2>4
    <3>2. l \in Seq(Lengths) /\ Len(l) = Len(s)
      BY DEF Sorted
    <3>3. l[j] \in Lengths
      BY <3>2
    <3>. QED BY <2>2, <3>1, <3>3 DEF Sorted
  <2>8. l[j] \in Nat /\ l[j] >= PAGESIZE
    <3>0. l[j] \in Lengths /\ MemSize \in Nat
      BY <2>7, <1>0
    <3>1. l[j] \in Nat /\ l[j] > 0 /\ l[j] % PAGESIZE = 0
      BY <3>0 DEF Lengths
    <3>2. 0 % PAGESIZE = 0
      BY <1>0
    <3>. QED BY <3>1, <3>2, <1>0, Multiples
  <2>9. PICK a \in Nat : a = PAGESIZE * (j - 1)
    <3>. j - 1 \in Nat
      OBVIOUS
    <3>. QED BY <1>0
  <2>10. PAGESIZE * (i - 1) = a + PAGESIZE
    <3>1. PICK c \in Nat : c = j - 1
      OBVIOUS
    <3>2. PAGESIZE * (c + 1) = PAGESIZE * c + PAGESIZE
      BY <1>0
    <3>3. i - 1 = c + 1
      BY <3>1, <2>4
    <3>. QED BY <3>1, <3>2, <3>3, <2>9
  <2>. HIDE DEF T
  <2>11. s[j] >= KERN_BASE + a
    BY <2>6, <2>9
  <2>12. s[i] >= KERN_BASE + (a + PAGESIZE)
    <3>1. s[i] \in Nat /\ s[j] \in Nat
      BY <2>2, <1>0
    <3>2. PICK x \in Nat, y \in Nat, z \in Nat : x = s[i] /\ y = s[j] /\ z = l[j]
      BY <3>1, <2>8
    <3>3. y + z < x /\ z >= PAGESIZE /\ y >= KERN_BASE + a
      BY <3>2, <2>7, <2>8, <2>11
    <3>4. KERN_BASE \in Nat /\ PAGESIZE \in Nat
      BY <1>0
    <3>5. x >= KERN_BASE + (a + PAGESIZE)
      BY <3>3, <3>4
    <3>. QED BY <3>2, <3>5
  <2>13. s[i] >= KERN_BASE + PAGESIZE * (i - 1)
    BY <2>10, <2>12
  <2>. QED BY <2>2, <2>13
<1>4. Len(s) <= q
  <2>. SUFFICES ASSUME Len(s) > q PROVE FALSE
    BY <1>0
  <2>0. Len(s) > 0
    BY <1>0
  <2>1. Len(s) \in 1 .. Len(s)
    BY <1>0, <2>0, LastPlace, ZenonT(60)
  <2>2. PICK c \in Nat : Len(s) - 1 = q + c
    <3>. Len(s) - 1 - q \in Nat /\ Len(s) - 1 = q + (Len(s) - 1 - q)
      BY <1>0
    <3>. QED OBVIOUS
  <2>3. PAGESIZE * (q + c) = PAGESIZE * q + PAGESIZE * c /\ PAGESIZE * c >= 0 /\ PAGESIZE * c \in Nat
    BY <1>0
  <2>4. s[Len(s)] >= KERN_BASE + PAGESIZE * (q + c)
    BY <2>1, <2>2, <1>3
  <2>5. PICK b \in Nat : b = PAGESIZE * c
    BY <2>3
  <2>6. s[Len(s)] >= KERN_BASE + MemSize + b
    <3>1. PAGESIZE * (q + c) = MemSize + b
      BY <2>3, <2>5, <1>1
    <3>2. s[Len(s)] >= KERN_BASE + (MemSize + b)
      BY <2>4, <3>1
    <3>. QED BY <3>2, <1>0
  <2>7. s[Len(s)] \in Nat /\ s[Len(s)] < KERN_BASE + MemSize
    BY <2>1, <1>0
  <2>8. PICK x \in Nat : x = s[Len(s)] /\ x < KERN_BASE + MemSize /\ x >= KERN_BASE + MemSize + b
    BY <2>6, <2>7
  <2>9. KERN_BASE + MemSize \in Nat
    BY <1>0
  <2>. QED BY <2>8, <2>9
<1>. QED BY <1>1, <1>2, <1>4

\* What the links of the list lead to.
LEMMA RegionsAre ==
  ASSUME NEW s, NEW l, Sorted(s, l), Linked(s, l, freelist, header)
  PROVE  Regions = s
<1> DEFINE q == MemSize \div PAGESIZE
<1>1. q \in 0 .. MemSize /\ Len(s) <= q
  BY FewRegions
<1>2. s \in Seq(Heads) /\ Len(s) \in Nat
  BY LenProperties DEF Sorted
<1>3. PICK g : Follows(g) /\ Regions = g[q]
  BY PrefixesFollow, RegionsFollow
<1>4. Regions = Prefixes(s)[q]
  BY <1>1, <1>3, PrefixesFollow, FollowsOnce
<1>. HIDE DEF q
<1>5. Upto(s, q) = Len(s)
  BY <1>1, <1>2, LayoutAssumption DEF Upto
<1>6. Prefixes(s)[q] = [i \in 1 .. Len(s) |-> s[i]]
  BY <1>1, <1>5 DEF Prefixes
<1> DEFINE t == [i \in 1 .. Len(s) |-> s[i]]
<1>7. t \in [1 .. Len(s) -> Heads]
  BY <1>2
<1>8. t \in Seq(Heads) /\ Len(t) = Len(s)
  BY <1>7, <1>2, Table
<1>9. t = s
  BY <1>2, <1>8, SeqEqual
<1>. QED BY <1>4, <1>6, <1>9

-----------------------------------------------------------------------------
(* Changes of the list.                                                     *)

\* The physical address x is in the region from a, of length b.
Within(a, b, x) == a <= x + KERN_BASE /\ x + KERN_BASE < a + b

\* The memory of the regions.
Cover(s, l) == {x \in 0 .. MemSize - 1 : \E i \in 1 .. Len(s) : Within(s[i], l[i], x)}

\* The sequence s with a in the place of all between the i-th and the j-th,
Spliced(s, i, a, j) ==
  [x \in 1 .. i + 1 + (Len(s) + 1 - j) |->
     IF x <= i THEN s[x] ELSE IF x = i + 1 THEN a ELSE s[x - i - 2 + j]]

\* and nothing in the place of the k-th.
Without(s, k) == [x \in 1 .. Len(s) - 1 |-> IF x < k THEN s[x] ELSE s[x + 1]]

\* t is s with a in that place.
IsSpliced(s, i, a, j, t) ==
  /\ Len(t) = i + 1 + (Len(s) + 1 - j)
  /\ \A x \in 1 .. i + 1 + (Len(s) + 1 - j) :
       t[x] = IF x <= i THEN s[x] ELSE IF x = i + 1 THEN a ELSE s[x - i - 2 + j]

\* Spliced is, and a sequence of the same set.
LEMMA SplicedSeq ==
  ASSUME NEW S, NEW s \in Seq(S), NEW i \in 0 .. Len(s), NEW j \in i + 1 .. Len(s) + 1, NEW a \in S
  PROVE  Spliced(s, i, a, j) \in Seq(S) /\ IsSpliced(s, i, a, j, Spliced(s, i, a, j))
<1> DEFINE n == i + 1 + (Len(s) + 1 - j)
           f == Spliced(s, i, a, j)
<1>0. Len(s) \in Nat /\ i \in Nat /\ j \in Nat /\ i <= Len(s) /\ i < j /\ j <= Len(s) + 1 /\ n \in Nat
  BY LenProperties
<1>1. f = [x \in 1 .. n |-> IF x <= i THEN s[x] ELSE IF x = i + 1 THEN a ELSE s[x - i - 2 + j]]
  BY DEF Spliced
<1>2. \A x \in 1 .. n : (IF x <= i THEN s[x] ELSE IF x = i + 1 THEN a ELSE s[x - i - 2 + j]) \in S
  <2>. SUFFICES ASSUME NEW x \in 1 .. n PROVE (IF x <= i THEN s[x] ELSE IF x = i + 1 THEN a ELSE s[x - i - 2 + j]) \in S
    OBVIOUS
  <2>1. x <= i => x \in 1 .. Len(s)
    BY <1>0
  <2>2. x > i /\ x # i + 1 => x - i - 2 + j \in 1 .. Len(s)
    BY <1>0
  <2>3. \A y \in 1 .. Len(s) : s[y] \in S
    OBVIOUS
  <2>. QED BY <2>1, <2>2, <2>3, <1>0
<1>. HIDE DEF n, f
<1>3. f \in [1 .. n -> S]
  BY <1>1, <1>2
<1>4. f \in Seq(S) /\ Len(f) = n
  BY <1>0, <1>3, Table
<1>5. \A x \in 1 .. n : f[x] = IF x <= i THEN s[x] ELSE IF x = i + 1 THEN a ELSE s[x - i - 2 + j]
  BY <1>1
<1>. QED BY <1>4, <1>5 DEF n, f, IsSpliced

\* Without is one too; it has one element less.
LEMMA WithoutSeq ==
  ASSUME NEW S, NEW s \in Seq(S), NEW k \in 1 .. Len(s)
  PROVE  /\ Without(s, k) \in Seq(S)
         /\ Len(Without(s, k)) = Len(s) - 1
         /\ \A x \in 1 .. Len(s) - 1 : Without(s, k)[x] = IF x < k THEN s[x] ELSE s[x + 1]
<1> DEFINE f == Without(s, k)
<1>0. Len(s) \in Nat /\ Len(s) - 1 \in Nat
  BY LenProperties
<1>1. f = [x \in 1 .. Len(s) - 1 |-> IF x < k THEN s[x] ELSE s[x + 1]]
  BY DEF Without
<1>2. \A x \in 1 .. Len(s) - 1 : (IF x < k THEN s[x] ELSE s[x + 1]) \in S
  <2>1. \A x \in 1 .. Len(s) - 1 : x \in 1 .. Len(s) /\ x + 1 \in 1 .. Len(s)
    BY <1>0
  <2>2. \A y \in 1 .. Len(s) : s[y] \in S
    OBVIOUS
  <2>. QED BY <2>1, <2>2
<1>. HIDE DEF f
<1>3. f \in [1 .. Len(s) - 1 -> S]
  BY <1>1, <1>2
<1>4. f \in Seq(S) /\ Len(f) = Len(s) - 1
  BY <1>0, <1>3, Table
<1>. QED BY <1>1, <1>4 DEF f

\* What Sorted says of single regions.
LEMMA SortedAt ==
  ASSUME NEW s, NEW l, Sorted(s, l)
  PROVE  /\ s \in Seq(Heads) /\ l \in Seq(Lengths) /\ Len(s) \in Nat /\ Len(l) = Len(s)
         /\ \A i \in 1 .. Len(s) :
              /\ s[i] \in Heads /\ s[i] \in Nat /\ s[i] >= KERN_BASE /\ s[i] # NULL
              /\ l[i] \in Lengths /\ l[i] \in Nat /\ l[i] > 0 /\ s[i] + l[i] <= Top
<1>1. s \in Seq(Heads) /\ l \in Seq(Lengths) /\ Len(s) \in Nat /\ Len(l) = Len(s)
  BY LenProperties DEF Sorted
<1>2. ASSUME NEW i \in 1 .. Len(s)
      PROVE  /\ s[i] \in Heads /\ s[i] \in Nat /\ s[i] >= KERN_BASE /\ s[i] # NULL
             /\ l[i] \in Lengths /\ l[i] \in Nat /\ l[i] > 0 /\ s[i] + l[i] <= Top
  <2>1. s[i] \in Heads /\ l[i] \in Lengths
    BY <1>1
  <2>2. s[i] + l[i] <= Top
    BY DEF Sorted
  <2>. QED BY SMTT(30), <2>1, <2>2, HeadsAre, LayoutAssumption DEF Lengths
<1>. QED BY <1>1, <1>2

\* A region is put in where there is room for it.
LEMMA SpliceSorted ==
  ASSUME NEW s, NEW l, Sorted(s, l),
         NEW i \in 0 .. Len(s), NEW j \in i + 1 .. Len(s) + 1,
         NEW a \in Heads, NEW b \in Lengths, a + b <= Top,
         \A x \in 1 .. i : s[x] + l[x] < a,
         \A x \in j .. Len(s) : a + b < s[x]
  PROVE  Sorted(Spliced(s, i, a, j), Spliced(l, i, b, j))
<1> DEFINE s2 == Spliced(s, i, a, j)
           l2 == Spliced(l, i, b, j)
           n == i + 1 + (Len(s) + 1 - j)
<1>0. /\ Len(s) \in Nat /\ i \in Nat /\ j \in Nat /\ i <= Len(s) /\ i < j /\ j <= Len(s) + 1 /\ n \in Nat
      /\ a \in Nat /\ b \in Nat /\ b > 0 /\ Top \in Nat
  BY SMTT(30), SortedAt, HeadsAre, LayoutAssumption DEF Lengths, Top
<1>1. /\ s2 \in Seq(Heads) /\ Len(s2) = n
      /\ \A x \in 1 .. n : s2[x] = IF x <= i THEN s[x] ELSE IF x = i + 1 THEN a ELSE s[x - i - 2 + j]
  <2>1. s \in Seq(Heads)
    BY SortedAt
  <2>2. s2 \in Seq(Heads) /\ IsSpliced(s, i, a, j, s2)
    BY <2>1, SplicedSeq
  <2>. QED BY <2>2 DEF IsSpliced
<1>2. /\ l2 \in Seq(Lengths) /\ Len(l2) = n
      /\ \A x \in 1 .. n : l2[x] = IF x <= i THEN l[x] ELSE IF x = i + 1 THEN b ELSE l[x - i - 2 + j]
  <2>1. l \in Seq(Lengths) /\ Len(l) = Len(s)
    BY SortedAt
  <2>2. i \in 0 .. Len(l) /\ j \in i + 1 .. Len(l) + 1
    BY <2>1
  <2>3. l2 \in Seq(Lengths) /\ IsSpliced(l, i, b, j, l2)
    BY <2>1, <2>2, SplicedSeq
  <2>. QED BY <2>1, <2>3 DEF IsSpliced
<1>. HIDE DEF s2, l2, n
<1>3. ASSUME NEW x \in 1 .. n
      PROVE  \/ x \in 1 .. i /\ x \in 1 .. Len(s) /\ s2[x] = s[x] /\ l2[x] = l[x]
             \/ x = i + 1 /\ s2[x] = a /\ l2[x] = b
             \/ \E y \in j .. Len(s) : y \in 1 .. Len(s) /\ x > i + 1 /\ y = x - i - 2 + j /\ s2[x] = s[y] /\ l2[x] = l[y]
  <2>1. CASE x <= i
    BY <2>1, <1>0, <1>1, <1>2
  <2>2. CASE x = i + 1
    BY <2>2, <1>0, <1>1, <1>2
  <2>3. CASE x > i + 1
    <3>1. x - i - 2 + j \in j .. Len(s) /\ x - i - 2 + j \in 1 .. Len(s)
      BY <2>3, <1>0 DEF n
    <3>2. s2[x] = s[x - i - 2 + j] /\ l2[x] = l[x - i - 2 + j]
      BY <2>3, <1>0, <1>1, <1>2
    <3>. QED BY <3>1, <3>2, <2>3
  <2>. QED BY <2>1, <2>2, <2>3, <1>0
<1>4. ASSUME NEW x \in 1 .. n PROVE s2[x] + l2[x] <= Top
  BY <1>3, SortedAt
<1>5. ASSUME NEW x \in 1 .. n, NEW y \in 1 .. n, x < y PROVE s2[x] + l2[x] < s2[y]
  <2>0. \A u, v \in 1 .. Len(s) : u < v => s[u] + l[u] < s[v]
    BY DEF Sorted
  <2>0a. \A u \in 1 .. Len(s) : s[u] \in Nat /\ l[u] \in Nat
    BY SortedAt
  <2>1. CASE x \in 1 .. i /\ x \in 1 .. Len(s) /\ s2[x] = s[x] /\ l2[x] = l[x]
    <3>1. CASE y \in 1 .. i /\ y \in 1 .. Len(s) /\ s2[y] = s[y]
      BY <2>1, <3>1, <2>0, <1>5
    <3>2. CASE y = i + 1 /\ s2[y] = a
      BY <2>1, <3>2
    <3>3. CASE \E z \in j .. Len(s) : z \in 1 .. Len(s) /\ s2[y] = s[z]
      <4>1. PICK z \in j .. Len(s) : z \in 1 .. Len(s) /\ s2[y] = s[z]
        BY <3>3
      <4>2. x < z
        BY <2>1, <4>1, <1>0
      <4>. QED BY <2>1, <4>1, <4>2, <2>0
    <3>. QED BY <3>1, <3>2, <3>3, <1>3
  <2>2. CASE x = i + 1 /\ s2[x] = a /\ l2[x] = b
    <3>1. PICK z \in j .. Len(s) : s2[y] = s[z]
      BY <1>3, <1>5, <2>2, <1>0
    <3>. QED BY <3>1, <2>2
  <2>3. CASE \E z \in j .. Len(s) : z \in 1 .. Len(s) /\ x > i + 1 /\ z = x - i - 2 + j /\ s2[x] = s[z] /\ l2[x] = l[z]
    <3>1. PICK z \in j .. Len(s) : z \in 1 .. Len(s) /\ x > i + 1 /\ z = x - i - 2 + j /\ s2[x] = s[z] /\ l2[x] = l[z]
      BY <2>3
    <3>2. PICK w \in j .. Len(s) : w \in 1 .. Len(s) /\ w = y - i - 2 + j /\ s2[y] = s[w]
      <4>1. y > i + 1 /\ y \notin 1 .. i /\ y # i + 1
        BY <1>5, <3>1, <1>0 DEF n
      <4>. QED BY <1>3, <4>1
    <3>3. z < w
      BY <3>1, <3>2, <1>5, <1>0
    <3>. QED BY <3>1, <3>2, <3>3, <2>0
  <2>. QED BY <1>3, <2>1, <2>2, <2>3
<1>6. Sorted(s2, l2)
  BY <1>1, <1>2, <1>4, <1>5 DEF Sorted
<1>. QED BY <1>6 DEF s2, l2

\* The links that make room for a region
Links(s, l, i, j, a, b, fl, h, fl2, h2) ==
  /\ fl2 = IF i = 0 THEN a ELSE fl
  /\ i > 0 => h2[s[i]] = [next |-> a, len |-> l[i]]
  /\ h2[a] = [next |-> After(s, j - 1), len |-> b]
  /\ \A x \in 1 .. i - 1 : h2[s[x]] = h[s[x]]
  /\ \A x \in j .. Len(s) : h2[s[x]] = h[s[x]]

\* lead through the list with it,
LEMMA SpliceLinked ==
  ASSUME NEW s, NEW l, Sorted(s, l), NEW fl, NEW h, Linked(s, l, fl, h),
         NEW i \in 0 .. Len(s), NEW j \in i + 1 .. Len(s) + 1,
         NEW a \in Heads, NEW b \in Lengths, NEW fl2, NEW h2,
         Links(s, l, i, j, a, b, fl, h, fl2, h2)
  PROVE  Linked(Spliced(s, i, a, j), Spliced(l, i, b, j), fl2, h2)
<1> DEFINE s2 == Spliced(s, i, a, j)
           l2 == Spliced(l, i, b, j)
           n == i + 1 + (Len(s) + 1 - j)
<1>l. /\ fl2 = IF i = 0 THEN a ELSE fl
      /\ i > 0 => h2[s[i]] = [next |-> a, len |-> l[i]]
      /\ h2[a] = [next |-> After(s, j - 1), len |-> b]
      /\ \A x \in 1 .. i - 1 : h2[s[x]] = h[s[x]]
      /\ \A x \in j .. Len(s) : h2[s[x]] = h[s[x]]
  BY DEF Links
<1>0. Len(s) \in Nat /\ i \in Nat /\ j \in Nat /\ i <= Len(s) /\ i < j /\ j <= Len(s) + 1 /\ n \in Nat
  BY SortedAt
<1>1. /\ Len(s2) = n
      /\ \A x \in 1 .. n : s2[x] = IF x <= i THEN s[x] ELSE IF x = i + 1 THEN a ELSE s[x - i - 2 + j]
  <2>1. s \in Seq(Heads)
    BY SortedAt
  <2>2. s2 \in Seq(Heads) /\ IsSpliced(s, i, a, j, s2)
    BY <2>1, SplicedSeq
  <2>. QED BY <2>2 DEF IsSpliced
<1>2. \A x \in 1 .. n : l2[x] = IF x <= i THEN l[x] ELSE IF x = i + 1 THEN b ELSE l[x - i - 2 + j]
  <2>1. l \in Seq(Lengths) /\ Len(l) = Len(s)
    BY SortedAt
  <2>2. i \in 0 .. Len(l) /\ j \in i + 1 .. Len(l) + 1
    BY <2>1
  <2>3. l2 \in Seq(Lengths) /\ IsSpliced(l, i, b, j, l2)
    BY <2>1, <2>2, SplicedSeq
  <2>. QED BY <2>1, <2>3 DEF IsSpliced
<1>. HIDE DEF s2, l2
<1>3. fl2 = After(s2, 0)
  <2>1. s2[1] = (IF i = 0 THEN a ELSE s[1]) /\ n # 0 /\ 0 + 1 = 1
    BY <1>0, <1>1
  <2>2. After(s2, 0) = s2[1]
    BY <2>1, <1>1 DEF After
  <2>3. i # 0 => fl = s[1]
    BY <1>0 DEF Linked, After
  <2>. QED BY <2>1, <2>2, <2>3, <1>l
<1>4. ASSUME NEW x \in 1 .. n PROVE h2[s2[x]] = [next |-> After(s2, x), len |-> l2[x]]
  <2>1. CASE x < i
    <3>1. s2[x] = s[x] /\ l2[x] = l[x] /\ s2[x + 1] = s[x + 1] /\ x # n /\ x \in 1 .. i - 1 /\ x \in 1 .. Len(s) /\ x # Len(s)
      BY <2>1, <1>0, <1>1, <1>2
    <3>2. After(s2, x) = After(s, x)
      BY <3>1, <1>1 DEF After
    <3>3. h[s[x]] = [next |-> After(s, x), len |-> l[x]] /\ h2[s[x]] = h[s[x]]
      BY <3>1, <1>l DEF Linked
    <3>. QED BY <3>1, <3>2, <3>3
  <2>2. CASE x = i
    <3>1. s2[x] = s[i] /\ l2[x] = l[i] /\ s2[x + 1] = a /\ x # n /\ i > 0
      <4>1. x + 1 \in 1 .. n /\ x <= i /\ x + 1 = i + 1 /\ ~(x + 1 <= i) /\ x # n /\ i > 0
        BY <2>2, <1>0
      <4>2. s2[x] = s[x] /\ l2[x] = l[x]
        BY <4>1, <1>1, <1>2
      <4>3. s2[x + 1] = a
        BY <4>1, <1>1
      <4>. QED BY <4>1, <4>2, <4>3, <2>2
    <3>2. After(s2, x) = a
      BY <3>1, <1>1 DEF After
    <3>. QED BY <3>1, <3>2, <2>2, <1>l
  <2>3. CASE x = i + 1
    <3>1. s2[x] = a /\ l2[x] = b
      BY SMTT(30), <2>3, <1>0, <1>1, <1>2
    <3>2. After(s2, x) = After(s, j - 1)
      <4>1. CASE j = Len(s) + 1
        <5>1. x = n /\ j - 1 = Len(s)
          BY <4>1, <2>3, <1>0
        <5>. QED BY <5>1, <1>1 DEF After
      <4>2. CASE j # Len(s) + 1
        <5>1. x # n /\ j - 1 # Len(s) /\ x + 1 \in 1 .. n /\ x + 1 > i + 1 /\ (x + 1) - i - 2 + j = (j - 1) + 1
          BY <4>2, <2>3, <1>0
        <5>2. s2[x + 1] = s[(x + 1) - i - 2 + j]
          <6>. ~(x + 1 <= i) /\ x + 1 # i + 1
            BY <5>1, <1>0
          <6>. QED BY <5>1, <1>1
        <5>. QED BY <5>1, <5>2, <1>1 DEF After
      <4>. QED BY <4>1, <4>2
    <3>. QED BY <3>1, <3>2, <1>l
  <2>4. CASE x > i + 1
    <3>1. PICK y \in j .. Len(s) : y = x - i - 2 + j /\ y \in 1 .. Len(s)
      BY <2>4, <1>0
    <3>2. s2[x] = s[y] /\ l2[x] = l[y]
      BY <3>1, <2>4, <1>0, <1>1, <1>2
    <3>3. After(s2, x) = After(s, y)
      <4>1. CASE y = Len(s)
        <5>1. x = n
          BY <4>1, <3>1, <1>0
        <5>. QED BY <4>1, <5>1, <1>1 DEF After
      <4>2. CASE y # Len(s)
        <5>1. x # n /\ x + 1 \in 1 .. n /\ x + 1 > i + 1 /\ (x + 1) - i - 2 + j = y + 1
          BY <4>2, <3>1, <2>4, <1>0
        <5>2. s2[x + 1] = s[(x + 1) - i - 2 + j]
          BY <5>1, <1>0, <1>1
        <5>. QED BY <4>2, <5>1, <5>2, <1>1 DEF After
      <4>. QED BY <4>1, <4>2
    <3>4. h[s[y]] = [next |-> After(s, y), len |-> l[y]] /\ h2[s[y]] = h[s[y]]
      BY <3>1, <1>l DEF Linked
    <3>. QED BY <3>2, <3>3, <3>4
  <2>. QED BY <2>1, <2>2, <2>3, <2>4, <1>0
<1>5. Linked(s2, l2, fl2, h2)
  BY <1>1, <1>3, <1>4 DEF Linked
<1>. QED BY <1>5 DEF s2, l2

\* and its memory is added to that of the regions that stay.
LEMMA SpliceCover ==
  ASSUME NEW s, NEW l, Sorted(s, l),
         NEW i \in 0 .. Len(s), NEW j \in i + 1 .. Len(s) + 1, NEW a \in Heads, NEW b \in Lengths
  PROVE  Cover(Spliced(s, i, a, j), Spliced(l, i, b, j)) =
           {x \in 0 .. MemSize - 1 : \/ Within(a, b, x)
                                     \/ \E y \in 1 .. i : Within(s[y], l[y], x)
                                     \/ \E y \in j .. Len(s) : Within(s[y], l[y], x)}
<1> DEFINE s2 == Spliced(s, i, a, j)
           l2 == Spliced(l, i, b, j)
           n == i + 1 + (Len(s) + 1 - j)
<1>0. Len(s) \in Nat /\ i \in Nat /\ j \in Nat /\ i <= Len(s) /\ i < j /\ j <= Len(s) + 1 /\ n \in Nat
  BY SortedAt
<1>1. /\ Len(s2) = n
      /\ \A x \in 1 .. n : s2[x] = IF x <= i THEN s[x] ELSE IF x = i + 1 THEN a ELSE s[x - i - 2 + j]
  <2>1. s \in Seq(Heads)
    BY SortedAt
  <2>2. s2 \in Seq(Heads) /\ IsSpliced(s, i, a, j, s2)
    BY <2>1, SplicedSeq
  <2>. QED BY <2>2 DEF IsSpliced
<1>2. \A x \in 1 .. n : l2[x] = IF x <= i THEN l[x] ELSE IF x = i + 1 THEN b ELSE l[x - i - 2 + j]
  <2>1. l \in Seq(Lengths) /\ Len(l) = Len(s)
    BY SortedAt
  <2>2. i \in 0 .. Len(l) /\ j \in i + 1 .. Len(l) + 1
    BY <2>1
  <2>3. l2 \in Seq(Lengths) /\ IsSpliced(l, i, b, j, l2)
    BY <2>1, <2>2, SplicedSeq
  <2>. QED BY <2>1, <2>3 DEF IsSpliced
<1>. HIDE DEF s2, l2
<1>3. ASSUME NEW x \in 0 .. MemSize - 1
      PROVE  (\E z \in 1 .. n : Within(s2[z], l2[z], x)) <=>
               \/ Within(a, b, x)
               \/ \E y \in 1 .. i : Within(s[y], l[y], x)
               \/ \E y \in j .. Len(s) : Within(s[y], l[y], x)
  <2>1. ASSUME NEW z \in 1 .. n, Within(s2[z], l2[z], x)
        PROVE  \/ Within(a, b, x)
               \/ \E y \in 1 .. i : Within(s[y], l[y], x)
               \/ \E y \in j .. Len(s) : Within(s[y], l[y], x)
    <3>1. CASE z <= i
      <4>1. z \in 1 .. i /\ s2[z] = s[z] /\ l2[z] = l[z]
        BY <3>1, <1>0, <1>1, <1>2
      <4>. QED BY <4>1, <2>1
    <3>2. CASE z = i + 1
      BY <3>2, <2>1, <1>0, <1>1, <1>2
    <3>3. CASE z > i + 1
      <4>1. z - i - 2 + j \in j .. Len(s)
        BY <3>3, <1>0
      <4>2. s2[z] = s[z - i - 2 + j] /\ l2[z] = l[z - i - 2 + j]
        BY <3>3, <1>0, <1>1, <1>2
      <4>. QED BY <4>1, <4>2, <2>1
    <3>. QED BY <3>1, <3>2, <3>3, <1>0
  <2>2. ASSUME Within(a, b, x) PROVE \E z \in 1 .. n : Within(s2[z], l2[z], x)
    <3>1. i + 1 \in 1 .. n /\ s2[i + 1] = a /\ l2[i + 1] = b
      BY <1>0, <1>1, <1>2
    <3>. QED BY <3>1, <2>2
  <2>3. ASSUME NEW y \in 1 .. i, Within(s[y], l[y], x) PROVE \E z \in 1 .. n : Within(s2[z], l2[z], x)
    <3>1. y \in 1 .. n /\ s2[y] = s[y] /\ l2[y] = l[y]
      BY <1>0, <1>1, <1>2
    <3>. QED BY <3>1, <2>3
  <2>4. ASSUME NEW y \in j .. Len(s), Within(s[y], l[y], x) PROVE \E z \in 1 .. n : Within(s2[z], l2[z], x)
    <3>1. PICK z \in 1 .. n : z = y + i + 2 - j
      BY <1>0
    <3>2. z > i + 1 /\ z - i - 2 + j = y
      BY <3>1, <1>0
    <3>3. s2[z] = s[z - i - 2 + j] /\ l2[z] = l[z - i - 2 + j]
      BY <3>2, <1>0, <1>1, <1>2
    <3>. QED BY <3>2, <3>3, <2>4
  <2>. QED BY <2>1, <2>2, <2>3, <2>4
<1>. HIDE DEF n
<1>4. Cover(s2, l2) = {x \in 0 .. MemSize - 1 : \E z \in 1 .. n : Within(s2[z], l2[z], x)}
  BY <1>1 DEF Cover
<1>. QED BY <1>3, <1>4 DEF s2, l2

\* A region is taken out.
LEMMA WithoutSorted ==
  ASSUME NEW s, NEW l, Sorted(s, l), NEW k \in 1 .. Len(s)
  PROVE  Sorted(Without(s, k), Without(l, k))
<1> DEFINE s2 == Without(s, k)
           l2 == Without(l, k)
<1>0. Len(s) \in Nat /\ Len(s) - 1 \in Nat /\ k \in Nat
  BY SortedAt
<1>1. /\ s2 \in Seq(Heads) /\ Len(s2) = Len(s) - 1
      /\ \A x \in 1 .. Len(s) - 1 : s2[x] = IF x < k THEN s[x] ELSE s[x + 1]
  BY SortedAt, WithoutSeq
<1>2. /\ l2 \in Seq(Lengths) /\ Len(l2) = Len(s) - 1
      /\ \A x \in 1 .. Len(s) - 1 : l2[x] = IF x < k THEN l[x] ELSE l[x + 1]
  BY SortedAt, WithoutSeq
<1>. HIDE DEF s2, l2
<1>3. ASSUME NEW x \in 1 .. Len(s) - 1 PROVE s2[x] + l2[x] <= Top
  <2>1. x \in 1 .. Len(s) /\ x + 1 \in 1 .. Len(s)
    BY <1>0
  <2>. QED BY <2>1, <1>1, <1>2, SortedAt
<1>4. ASSUME NEW x \in 1 .. Len(s) - 1, NEW y \in 1 .. Len(s) - 1, x < y PROVE s2[x] + l2[x] < s2[y]
  <2>1. PICK u \in 1 .. Len(s) : u = (IF x < k THEN x ELSE x + 1) /\ s2[x] = s[u] /\ l2[x] = l[u]
    <3>1. x \in 1 .. Len(s) /\ x + 1 \in 1 .. Len(s)
      BY <1>0
    <3>. QED BY <3>1, <1>1, <1>2
  <2>2. PICK v \in 1 .. Len(s) : v = (IF y < k THEN y ELSE y + 1) /\ s2[y] = s[v]
    <3>1. y \in 1 .. Len(s) /\ y + 1 \in 1 .. Len(s)
      BY <1>0
    <3>. QED BY <3>1, <1>1
  <2>3. u < v
    BY <2>1, <2>2, <1>4, <1>0
  <2>. QED BY <2>1, <2>2, <2>3 DEF Sorted
<1>5. Sorted(s2, l2)
  BY <1>1, <1>2, <1>3, <1>4 DEF Sorted
<1>. QED BY <1>5 DEF s2, l2

\* The links that leave it out lead through the others,
LEMMA WithoutLinked ==
  ASSUME NEW s, NEW l, Sorted(s, l), NEW fl, NEW h, Linked(s, l, fl, h),
         NEW k \in 1 .. Len(s), NEW fl2, NEW h2,
         fl2 = IF k = 1 THEN After(s, 1) ELSE fl,
         k > 1 => h2[s[k - 1]] = [next |-> After(s, k), len |-> l[k - 1]],
         \A x \in 1 .. Len(s) : x # k /\ x # k - 1 => h2[s[x]] = h[s[x]]
  PROVE  Linked(Without(s, k), Without(l, k), fl2, h2)
<1> DEFINE s2 == Without(s, k)
           l2 == Without(l, k)
<1>0. Len(s) \in Nat /\ Len(s) - 1 \in Nat /\ k \in Nat
  BY SortedAt
<1>1. /\ Len(s2) = Len(s) - 1
      /\ \A x \in 1 .. Len(s) - 1 : s2[x] = IF x < k THEN s[x] ELSE s[x + 1]
  BY SortedAt, WithoutSeq
<1>2. \A x \in 1 .. Len(s) - 1 : l2[x] = IF x < k THEN l[x] ELSE l[x + 1]
  <2>1. l \in Seq(Lengths) /\ Len(l) = Len(s)
    BY SortedAt
  <2>. QED BY SMTT(30), <2>1, WithoutSeq
<1>. HIDE DEF s2, l2
<1>3. fl2 = After(s2, 0)
  <2>1. CASE Len(s) = 1
    <3>1. k = 1 /\ Len(s2) = 0
      BY <2>1, <1>1
    <3>. QED BY <2>1, <3>1 DEF After
  <2>2. CASE Len(s) # 1
    <3>1. 1 \in 1 .. Len(s) - 1 /\ Len(s2) # 0 /\ Len(s) # 0
      BY <2>2, <1>0, <1>1
    <3>2. After(s2, 0) = s2[1]
      BY <3>1 DEF After
    <3>3. CASE k = 1
      <4>1. s2[1] = s[1 + 1]
        BY <3>1, <3>3, <1>1
      <4>. QED BY <4>1, <3>2, <3>3, <2>2 DEF After
    <3>4. CASE k # 1
      <4>1. s2[1] = s[1]
        BY <3>1, <3>4, <1>1
      <4>2. fl = s[1]
        BY <3>1 DEF Linked, After
      <4>. QED BY <4>1, <4>2, <3>2, <3>4
    <3>. QED BY <3>3, <3>4
  <2>. QED BY <2>1, <2>2
<1>4. ASSUME NEW x \in 1 .. Len(s) - 1 PROVE h2[s2[x]] = [next |-> After(s2, x), len |-> l2[x]]
  <2>1. CASE x >= k
    <3>1. x + 1 \in 1 .. Len(s) /\ x + 1 # k /\ x + 1 # k - 1
      BY <2>1, <1>0
    <3>2. s2[x] = s[x + 1] /\ l2[x] = l[x + 1]
      BY <2>1, <1>0, <1>1, <1>2
    <3>3. After(s2, x) = After(s, x + 1)
      <4>1. CASE x = Len(s) - 1
        BY <4>1, <1>0, <1>1 DEF After
      <4>2. CASE x # Len(s) - 1
        <5>0. x \in Nat /\ x + 1 > k
          BY <2>1, <1>0
        <5>1. x + 1 \in 1 .. Len(s) - 1 /\ ~(x + 1 < k)
          BY <4>2, <5>0, <1>0
        <5>2. s2[x + 1] = s[x + 1 + 1]
          BY <5>1, <1>1
        <5>. QED BY <4>2, <5>2, <1>0, <1>1 DEF After
      <4>. QED BY <4>1, <4>2
    <3>4. h[s[x + 1]] = [next |-> After(s, x + 1), len |-> l[x + 1]] /\ h2[s[x + 1]] = h[s[x + 1]]
      BY <3>1 DEF Linked
    <3>. QED BY <3>2, <3>3, <3>4
  <2>2. CASE x = k - 1
    <3>1. x \in 1 .. Len(s) /\ x < k /\ k > 1 /\ k - 1 = x
      BY <2>2, <1>0
    <3>2. s2[x] = s[x] /\ l2[x] = l[x]
      BY <3>1, <1>1, <1>2
    <3>3. After(s2, x) = After(s, k)
      <4>1. CASE k = Len(s)
        BY <4>1, <2>2, <1>0, <1>1 DEF After
      <4>2. CASE k # Len(s)
        <5>1. k \in 1 .. Len(s) - 1 /\ x + 1 = k /\ x # Len(s) - 1
          BY <4>2, <2>2, <1>0
        <5>2. s2[k] = s[k + 1]
          BY <5>1, <1>1
        <5>. QED BY <4>2, <5>1, <5>2, <1>1 DEF After
      <4>. QED BY <4>1, <4>2
    <3>. QED BY <3>1, <3>2, <3>3
  <2>3. CASE x < k - 1
    <3>1. x \in 1 .. Len(s) /\ x # k /\ x # k - 1 /\ x < k /\ x + 1 < k /\ x + 1 \in 1 .. Len(s) - 1 /\ x # Len(s) /\ x # Len(s) - 1
      BY <2>3, <1>0
    <3>2. s2[x] = s[x] /\ l2[x] = l[x] /\ s2[x + 1] = s[x + 1]
      BY <3>1, <1>1, <1>2
    <3>3. After(s2, x) = After(s, x)
      BY <3>1, <3>2, <1>1 DEF After
    <3>4. h[s[x]] = [next |-> After(s, x), len |-> l[x]] /\ h2[s[x]] = h[s[x]]
      BY <3>1 DEF Linked
    <3>. QED BY <3>2, <3>3, <3>4
  <2>. QED BY <2>1, <2>2, <2>3, <1>0
<1>5. Linked(s2, l2, fl2, h2)
  BY <1>1, <1>3, <1>4 DEF Linked
<1>. QED BY <1>5 DEF s2, l2

\* and its memory is no region's then.
LEMMA WithoutCover ==
  ASSUME NEW s, NEW l, Sorted(s, l), NEW k \in 1 .. Len(s)
  PROVE  Cover(Without(s, k), Without(l, k)) =
           {x \in 0 .. MemSize - 1 : \E y \in 1 .. Len(s) : y # k /\ Within(s[y], l[y], x)}
<1> DEFINE s2 == Without(s, k)
           l2 == Without(l, k)
<1>0. Len(s) \in Nat /\ Len(s) - 1 \in Nat /\ k \in Nat
  BY SortedAt
<1>1. /\ Len(s2) = Len(s) - 1
      /\ \A x \in 1 .. Len(s) - 1 : s2[x] = IF x < k THEN s[x] ELSE s[x + 1]
  BY SortedAt, WithoutSeq
<1>2. \A x \in 1 .. Len(s) - 1 : l2[x] = IF x < k THEN l[x] ELSE l[x + 1]
  <2>1. l \in Seq(Lengths) /\ Len(l) = Len(s)
    BY SortedAt
  <2>. QED BY <2>1, WithoutSeq
<1>. HIDE DEF s2, l2
<1>3. ASSUME NEW x \in 0 .. MemSize - 1
      PROVE  (\E z \in 1 .. Len(s) - 1 : Within(s2[z], l2[z], x)) <=>
               \E y \in 1 .. Len(s) : y # k /\ Within(s[y], l[y], x)
  <2>1. ASSUME NEW z \in 1 .. Len(s) - 1, Within(s2[z], l2[z], x)
        PROVE  \E y \in 1 .. Len(s) : y # k /\ Within(s[y], l[y], x)
    <3>1. CASE z < k
      <4>1. z \in 1 .. Len(s) /\ z # k /\ s2[z] = s[z] /\ l2[z] = l[z]
        BY <3>1, <1>0, <1>1, <1>2
      <4>. QED BY <4>1, <2>1
    <3>2. CASE ~(z < k)
      <4>1. z + 1 \in 1 .. Len(s) /\ z + 1 # k /\ s2[z] = s[z + 1] /\ l2[z] = l[z + 1]
        BY <3>2, <1>0, <1>1, <1>2
      <4>. QED BY <4>1, <2>1
    <3>. QED BY <3>1, <3>2
  <2>2. ASSUME NEW y \in 1 .. Len(s), y # k, Within(s[y], l[y], x)
        PROVE  \E z \in 1 .. Len(s) - 1 : Within(s2[z], l2[z], x)
    <3>1. CASE y < k
      <4>1. y \in 1 .. Len(s) - 1 /\ s2[y] = s[y] /\ l2[y] = l[y]
        BY <3>1, <1>0, <1>1, <1>2
      <4>. QED BY <4>1, <2>2
    <3>2. CASE y > k
      <4>1. PICK z \in 1 .. Len(s) - 1 : y = z + 1 /\ ~(z < k)
        <5>. y - 1 \in 1 .. Len(s) - 1 /\ y = (y - 1) + 1 /\ ~(y - 1 < k)
          BY <3>2, <1>0
        <5>. QED OBVIOUS
      <4>2. s2[z] = s[y] /\ l2[z] = l[y]
        BY <4>1, <1>1, <1>2
      <4>. QED BY <4>2, <2>2
    <3>. QED BY <3>1, <3>2, <2>2, <1>0
  <2>. QED BY <2>1, <2>2
<1>4. Cover(s2, l2) = {x \in 0 .. MemSize - 1 : \E z \in 1 .. Len(s) - 1 : Within(s2[z], l2[z], x)}
  BY <1>1 DEF Cover
<1>. QED BY <1>3, <1>4 DEF s2, l2

\* A region from a, of length b, in the place of those between the i-th and the
\* j-th, and of memory R that was in none: the room for it, the links, the memory.
HasRoom(s, l, i, j, a, b) ==
  /\ i \in 0 .. Len(s) /\ j \in i + 1 .. Len(s) + 1
  /\ a \in Heads /\ b \in Lengths /\ a + b <= Top
  /\ \A x \in 1 .. i : s[x] + l[x] < a
  /\ \A x \in j .. Len(s) : a + b < s[x]

Takes(s, l, i, j, a, b, R) ==
  /\ R \subseteq 0 .. MemSize - 1
  /\ \A x \in 0 .. MemSize - 1 :
       Within(a, b, x) <=> x \in R \/ \E y \in i + 1 .. j - 1 : Within(s[y], l[y], x)

\* With room, links and memory for a region, the list is a list with it.
LEMMA Splice ==
  ASSUME NEW s, NEW l, Sorted(s, l), NEW fl, NEW h, Linked(s, l, fl, h),
         NEW i, NEW j, NEW a, NEW b, NEW fl2, NEW h2, NEW R,
         HasRoom(s, l, i, j, a, b),
         Links(s, l, i, j, a, b, fl, h, fl2, h2),
         Takes(s, l, i, j, a, b, R)
  PROVE  \E s2, l2 : Sorted(s2, l2) /\ Linked(s2, l2, fl2, h2) /\ Cover(s2, l2) = Cover(s, l) \cup R
<1>0. i \in 0 .. Len(s) /\ j \in i + 1 .. Len(s) + 1 /\ a \in Heads /\ b \in Lengths
  BY DEF HasRoom
<1>1. Sorted(Spliced(s, i, a, j), Spliced(l, i, b, j))
  BY <1>0, SpliceSorted DEF HasRoom
<1>2. Linked(Spliced(s, i, a, j), Spliced(l, i, b, j), fl2, h2)
  BY <1>0, SpliceLinked
<1>3. Cover(Spliced(s, i, a, j), Spliced(l, i, b, j)) =
           {x \in 0 .. MemSize - 1 : \/ Within(a, b, x)
                                     \/ \E y \in 1 .. i : Within(s[y], l[y], x)
                                     \/ \E y \in j .. Len(s) : Within(s[y], l[y], x)}
  BY <1>0, SpliceCover
<1>4. ASSUME NEW x \in 0 .. MemSize - 1
      PROVE  (\E y \in 1 .. Len(s) : Within(s[y], l[y], x)) <=>
                \/ \E y \in 1 .. i : Within(s[y], l[y], x)
                \/ \E y \in i + 1 .. j - 1 : Within(s[y], l[y], x)
                \/ \E y \in j .. Len(s) : Within(s[y], l[y], x)
  <2>0. Len(s) \in Nat
    BY SortedAt
  <2>1. \A y \in 1 .. Len(s) : y \in 1 .. i \/ y \in i + 1 .. j - 1 \/ y \in j .. Len(s)
    BY <1>0, <2>0
  <2>2. /\ \A y \in 1 .. i : y \in 1 .. Len(s)
        /\ \A y \in i + 1 .. j - 1 : y \in 1 .. Len(s)
        /\ \A y \in j .. Len(s) : y \in 1 .. Len(s)
    BY <1>0, <2>0
  <2>. QED BY <2>1, <2>2
<1>5. Cover(Spliced(s, i, a, j), Spliced(l, i, b, j)) = Cover(s, l) \cup R
  BY <1>3, <1>4 DEF Cover, Takes
<1>. QED BY <1>1, <1>2, <1>5

\* Headers lie at Heads and nowhere else.
IsTable(h) == h = [a \in Heads |-> h[a]]

\* What *rp = r does.
LEMMA LinkSet ==
  ASSUME NEW s \in Seq(Heads), NEW k \in 1 .. Len(s) + 1, NEW r, NEW h, IsTable(h), SetLink(s, k, r, h)
  PROVE  /\ IsTable(header')
         /\ freelist' = IF k = 1 THEN r ELSE freelist
         /\ k > 1 => header'[s[k - 1]] = [h[s[k - 1]] EXCEPT !.next = r]
         /\ \A a \in Heads : (k > 1 => a # s[k - 1]) => header'[a] = h[a]
<1>0. Len(s) \in Nat
  BY LenProperties
<1>1. CASE k = 1
  <2>1. header' = h /\ freelist' = r
    BY <1>1 DEF SetLink
  <2>. QED BY <1>1, <2>1
<1>2. CASE k # 1
  <2>1. header' = [h EXCEPT ![s[k - 1]].next = r] /\ freelist' = freelist
    BY <1>2 DEF SetLink
  <2>2. k - 1 \in 1 .. Len(s) /\ s[k - 1] \in Heads
    <3>1. k - 1 \in 1 .. Len(s)
      BY <1>2, <1>0
    <3>. QED BY <3>1
  <2>3. \A a \in Heads : header'[a] = IF a = s[k - 1] THEN [h[a] EXCEPT !.next = r] ELSE h[a]
    BY <2>1, <2>2 DEF IsTable
  <2>4. IsTable(header')
    BY <2>1, <2>2 DEF IsTable
  <2>. QED BY <1>2, <2>1, <2>2, <2>3, <2>4
<1>. QED BY <1>1, <1>2

\* Memory that is given becomes a region, or a part of its neighbours.
LEMMA Given ==
  ASSUME NEW s, NEW l, Sorted(s, l), Linked(s, l, freelist, header), IsTable(header),
         NEW start \in Physical, NEW n \in Lengths, start + n <= MemSize,
         Run(start, n) \cap Cover(s, l) = {},
         InitRegion(start, n)
  PROVE  /\ IsTable(header')
         /\ fault' = fault
         /\ \E s2, l2 : /\ Sorted(s2, l2) /\ Linked(s2, l2, freelist', header')
                        /\ Cover(s2, l2) = Cover(s, l) \cup Run(start, n)
<1> DEFINE p == start + KERN_BASE
           pend == p + n
           k == Place(s, p, pend)
           R == Run(start, n)
<1>0. /\ start \in Nat /\ n \in Nat /\ n > 0 /\ KERN_BASE \in Nat /\ KERN_BASE > 0 /\ MemSize \in Nat
      /\ PAGESIZE \in Nat \ {0} /\ Len(s) \in Nat
      /\ start < MemSize /\ Top = KERN_BASE + MemSize /\ p \in Nat /\ pend \in Nat
      /\ p = start + KERN_BASE /\ pend = p + n /\ pend <= Top
  BY SMTT(30), SortedAt, LayoutAssumption DEF Physical, Lengths, Top
<1>0a. start % PAGESIZE = 0 /\ n % PAGESIZE = 0 /\ KERN_BASE % PAGESIZE = 0
  BY LayoutAssumption DEF Physical, Lengths
<1>1. Virtual(start) = p /\ p \in Heads /\ p \in Mapped /\ pend <= Top
  <2>1. p < AddressSpace /\ AddressSpace \in Nat \ {0}
    BY <1>0, LayoutAssumption
  <2>2. p % AddressSpace = p
    BY <2>1, <1>0
  <2>3. p % PAGESIZE = 0
    BY <1>0, <1>0a, Multiples
  <2>. QED BY <2>2, <2>3, <1>0 DEF Virtual, Heads, Mapped
<1>2. Regions = s
  BY RegionsAre
<1>3. \A x \in 1 .. Len(s) : /\ s[x] \in Nat /\ s[x] >= KERN_BASE
                             /\ l[x] \in Nat /\ l[x] > 0 /\ s[x] + l[x] <= Top
  BY SortedAt
<1>3a. \A x \in 1 .. Len(s) : s[x] \in Heads /\ l[x] \in Lengths /\ s[x] # NULL
  BY SortedAt
<1>3b. \A x \in 1 .. Len(s) : header[s[x]] = [next |-> After(s, x), len |-> l[x]]
  BY DEF Linked
<1>3c. \A x \in 1 .. Len(s) : End(s[x]) = s[x] + l[x]
  <2>. SUFFICES ASSUME NEW x \in 1 .. Len(s) PROVE End(s[x]) = s[x] + l[x]
    OBVIOUS
  <2>1. header[s[x]] = [next |-> After(s, x), len |-> l[x]]
    BY <1>3b
  <2>2. header[s[x]].len = l[x]
    BY <2>1
  <2>. QED BY <2>2 DEF End
<1>4. \A x, y \in 1 .. Len(s) : x < y => s[x] + l[x] < s[y]
  BY DEF Sorted
<1>. HIDE DEF p, pend
<1>5. ASSUME NEW x \in 1 .. Len(s) PROVE s[x] + l[x] <= p \/ pend <= s[x]
  <2>. SUFFICES ASSUME p < s[x] + l[x], s[x] < pend PROVE FALSE
    BY <1>0, <1>3
  <2>1. PICK y \in Nat : /\ y >= s[x] /\ y >= p /\ y < s[x] + l[x] /\ y < pend
    <3>0. s[x] \in Nat /\ l[x] \in Nat /\ l[x] > 0
      BY <1>3
    <3>1. CASE s[x] >= p
      BY <3>0, <3>1
    <3>2. CASE s[x] < p
      BY <3>0, <3>2, <1>0
    <3>. QED BY <3>0, <3>1, <3>2, <1>0
  <2>2. PICK z \in 0 .. MemSize - 1 : y = z + KERN_BASE
    <3>1. y - KERN_BASE \in 0 .. MemSize - 1 /\ y = (y - KERN_BASE) + KERN_BASE
      BY <2>1, <1>0, <1>3
    <3>. QED BY <3>1
  <2>3. z \in R
    BY <2>1, <2>2, <1>0 DEF p, pend, Run
  <2>4. z \in Cover(s, l)
    BY <2>1, <2>2 DEF Cover, Within
  <2>. QED BY <2>3, <2>4
<1>6. /\ k \in 1 .. Len(s) + 1
      /\ k <= Len(s) => s[k] > pend \/ s[k] + l[k] = p \/ s[k] = pend
      /\ \A x \in 1 .. Len(s) : x < k => s[x] + l[x] < p
  <2> DEFINE T == {Len(s) + 1} \cup {x \in 1 .. Len(s) : s[x] > pend \/ Neighbour(s[x], p, pend)}
  <2>1. k = Min(T)
    BY DEF Place
  <2>2. T \subseteq Nat /\ T # {} /\ T \subseteq 1 .. Len(s) + 1
    BY <1>0
  <2>3. k \in T /\ \A y \in T : k <= y
    <3>. HIDE DEF T, k
    <3>. QED BY <2>1, <2>2, MinIs
  <2>. HIDE DEF k
  <2>4. k \in 1 .. Len(s) + 1
    BY <2>2, <2>3
  <2>5. k <= Len(s) => s[k] > pend \/ s[k] + l[k] = p \/ s[k] = pend
    <3>. SUFFICES ASSUME k <= Len(s) PROVE s[k] > pend \/ s[k] + l[k] = p \/ s[k] = pend
      OBVIOUS
    <3>1. k \in 1 .. Len(s) /\ k # Len(s) + 1
      BY <2>4, <1>0
    <3>2. s[k] > pend \/ Neighbour(s[k], p, pend)
      BY <3>1, <2>3
    <3>. QED BY <3>1, <3>2, <1>3c DEF Neighbour
  <2>6. ASSUME NEW x \in 1 .. Len(s), x < k PROVE s[x] + l[x] < p
    <3>1. x \notin T
      BY <2>3, <2>4, <2>6
    <3>2. ~(s[x] > pend) /\ ~(s[x] + l[x] = p) /\ ~(s[x] = pend)
      BY <3>1, <1>3c DEF Neighbour
    <3>3. s[x] + l[x] <= p \/ pend <= s[x]
      BY <1>5
    <3>4. s[x] \in Nat /\ l[x] \in Nat
      BY <1>3
    <3>5. PICK y \in Nat, z \in Nat : y = s[x] /\ z = l[x]
      BY <3>4
    <3>6. ~(y > pend) /\ ~(y + z = p) /\ ~(y = pend) /\ (y + z <= p \/ pend <= y)
      BY <3>2, <3>3, <3>5
    <3>7. p \in Nat /\ pend \in Nat
      BY <1>0
    <3>8. y + z < p
      <4>. HIDE DEF p, pend
      <4>. QED BY <3>6, <3>7
    <3>. QED BY <3>5, <3>8
  <2>. QED BY <2>4, <2>5, <2>6
<1>. HIDE DEF k, R
<1>7. CASE k <= Len(s) /\ s[k] + l[k] = p
  <2>0. k \in 1 .. Len(s) /\ k - 1 \in 0 .. Len(s) /\ k \in Nat
    BY <1>6, <1>7, <1>0
  <2>1. header' = Grow(s[k], n, pend) /\ freelist' = freelist /\ fault' = fault
    <3>1. s[k] # NULL /\ End(s[k]) = p /\ ~(k > Len(s))
      BY <1>3a, <1>3c, <2>0, <1>7, <1>0
    <3>. QED BY <3>1, <1>1, <1>2 DEF InitRegion, k, p, pend
  <2>2. \A x \in k + 1 .. Len(s) : x \in 1 .. Len(s) /\ s[x] >= pend
    <3>. SUFFICES ASSUME NEW x \in k + 1 .. Len(s) PROVE x \in 1 .. Len(s) /\ s[x] >= pend
      OBVIOUS
    <3>1. x \in 1 .. Len(s) /\ k < x
      BY <2>0, <1>0
    <3>2. s[k] + l[k] < s[x] /\ s[x] \in Nat /\ l[x] \in Nat /\ l[x] > 0 /\ (s[x] + l[x] <= p \/ pend <= s[x])
      BY <3>1, <2>0, <1>3, <1>4, <1>5
    <3>. QED BY <3>1, <3>2, <1>7, <1>0
  <2>3. /\ \A x \in 1 .. k - 1 : x \in 1 .. Len(s) /\ s[x] + l[x] < s[k] /\ s[x] # s[k]
        /\ \A x \in k + 1 .. Len(s) : s[x] # s[k]
    <3>1. ASSUME NEW x \in 1 .. k - 1 PROVE x \in 1 .. Len(s) /\ s[x] + l[x] < s[k] /\ s[x] # s[k]
      <4>1. x \in 1 .. Len(s) /\ x < k
        BY <2>0, <1>0
      <4>2. s[x] + l[x] < s[k] /\ s[x] \in Nat /\ l[x] \in Nat /\ l[x] > 0
        BY <4>1, <2>0, <1>3, <1>4
      <4>. QED BY <4>1, <4>2
    <3>2. ASSUME NEW x \in k + 1 .. Len(s) PROVE s[x] # s[k]
      <4>1. x \in 1 .. Len(s) /\ k < x
        BY <2>0, <1>0
      <4>2. s[k] + l[k] < s[x] /\ s[k] \in Nat /\ l[k] \in Nat /\ l[k] > 0
        BY <4>1, <2>0, <1>3, <1>4
      <4>. QED BY <4>2
    <3>. QED BY <3>1, <3>2
  <2>4. /\ k - 1 > 0 => header[s[k - 1]] = [next |-> s[k], len |-> l[k - 1]]
        /\ freelist = IF k - 1 = 0 THEN s[k] ELSE freelist
    <3>1. k - 1 > 0 => k - 1 \in 1 .. Len(s) /\ After(s, k - 1) = s[k]
      BY <2>0, <1>0 DEF After
    <3>2. k - 1 = 0 => k = 1 /\ After(s, 0) = s[k]
      BY <2>0, <1>0 DEF After
    <3>. QED BY <3>1, <3>2, <1>3b DEF Linked
  <2>5. header[s[k]] = [next |-> After(s, k), len |-> l[k]]
    BY <2>0, <1>3b
  <2>5a. PICK u \in Nat, v \in Nat : u = s[k] /\ v = l[k] /\ v > 0 /\ u >= KERN_BASE /\ u + v = p
    BY <2>0, <1>3, <1>7
  <2>6. CASE After(s, k) = pend
    <3>1. k + 1 \in 1 .. Len(s) /\ s[k + 1] = pend
      <4>1. k # Len(s)
        BY <2>6, <1>0 DEF After, NULL, pend, p
      <4>. QED BY <4>1, <2>0, <2>6, <1>0 DEF After
    <3>1a. PICK u1 \in Nat, v1 \in Nat : u1 = s[k + 1] /\ v1 = l[k + 1] /\ v1 > 0 /\ u1 = pend /\ u1 + v1 <= Top
      BY <3>1, <1>3
    <3> DEFINE b == l[k] + n + l[k + 1]
    <3>2. header[pend] = [next |-> After(s, k + 1), len |-> l[k + 1]]
      BY <3>1, <1>3b
    <3>3. header' = [header EXCEPT ![s[k]] = [next |-> After(s, k + 1), len |-> b]]
      <4>1. pend # NULL
        BY <1>0 DEF NULL, pend, p
      <4>2. header[s[k]].next = pend /\ header[s[k]].len = l[k]
        BY <2>5, <2>6
      <4>3. header[pend].next = After(s, k + 1) /\ header[pend].len = l[k + 1]
        BY <3>2
      <4>4. header' = [header EXCEPT ![s[k]] = [next |-> header[pend].next, len |-> @.len + n + header[pend].len]]
        BY <2>1, <4>1, <4>2 DEF Grow
      <4>. QED BY <4>2, <4>3, <4>4
    <3>4. s[k] \in Heads
      BY <2>0, <1>3a
    <3>5. IsTable(header')
      BY <3>3, <3>4 DEF IsTable
    <3>6. /\ header'[s[k]] = [next |-> After(s, k + 1), len |-> b]
          /\ \A a \in Heads : a # s[k] => header'[a] = header[a]
      BY <3>3, <3>4 DEF IsTable
    <3>7. b \in Lengths /\ s[k] + b <= Top /\ s[k] + b = s[k + 1] + l[k + 1]
      <4>1. s[k] + b = s[k + 1] + l[k + 1]
        <5>1. n \in Nat /\ p \in Nat /\ pend = p + n
          BY <1>0
        <5>2. u + (v + n + v1) = u1 + v1
          BY <5>1, <2>5a, <3>1a
        <5>3. s[k] + (v + n + v1) = u1 + v1
          BY <5>2, <2>5a
        <5>4. s[k] + (l[k] + n + v1) = u1 + v1
          BY <5>3, <2>5a
        <5>5. s[k] + (l[k] + n + l[k+1]) = u1 + l[k+1]
          BY <5>4, <3>1a
        <5>. QED BY <5>5, <3>1a
      <4>2. b \in Nat /\ b > 0 /\ b <= MemSize
        <5>1. n \in Nat /\ n > 0 /\ p \in Nat /\ pend = p + n /\ Top = KERN_BASE + MemSize /\ MemSize \in Nat /\ KERN_BASE \in Nat
          BY <1>0
        <5>2. PICK w \in Nat : w = v + n + v1
          BY <5>1
        <5>3. w > 0 /\ w <= MemSize
          BY <5>1, <5>2, <2>5a, <3>1a
        <5>4. b = w
          BY <5>2, <2>5a, <3>1a
        <5>. QED BY <5>2, <5>3, <5>4
      <4>3. l[k] % PAGESIZE = 0 /\ l[k + 1] % PAGESIZE = 0
        BY <2>0, <3>1, <1>3a DEF Lengths
      <4>4. (l[k] + n) % PAGESIZE = 0 /\ l[k] + n \in Nat
        <5>1. v % PAGESIZE = 0
          BY <4>3, <2>5a
        <5>2. (v + n) % PAGESIZE = 0
          BY <5>1, <1>0, <1>0a, Multiples
        <5>3. n \in Nat /\ v + n \in Nat /\ l[k] = v
          BY <2>5a, <1>0
        <5>. QED BY <5>2, <5>3
      <4>5. b % PAGESIZE = 0
        BY <4>4, <4>3, <3>1, <1>3, <1>0, Multiples
      <4>. QED BY <4>1, <4>2, <4>5, <3>1, <1>3 DEF Lengths
    <3>8. \A x \in k + 2 .. Len(s) : s[k] + b < s[x] /\ s[x] # s[k] /\ x \in 1 .. Len(s)
      <4>1. \A x \in k + 2 .. Len(s) : x \in 1 .. Len(s) /\ k + 1 < x /\ x \in k + 1 .. Len(s)
        BY <2>0, <1>0
      <4>. QED BY <4>1, <3>1, <3>7, <1>4, <2>3
    <3>9. ASSUME NEW x \in 0 .. MemSize - 1
          PROVE  Within(s[k], b, x) <=> x \in R \/ \E y \in k .. k + 1 : Within(s[y], l[y], x)
      <4>1. Within(s[k], b, x) <=> x \in R \/ Within(s[k], l[k], x) \/ Within(s[k + 1], l[k + 1], x)
        <5>1. Within(u, v + n + v1, x) <=> x \in R \/ Within(u, v, x) \/ Within(u1, v1, x)
          <6>1. PICK y \in Nat : y = x + KERN_BASE
            BY <1>0
          <6>2. x \in R <=> p <= y /\ y < pend
            BY <6>1, <1>0 DEF R, Run
          <6>3. n \in Nat /\ n > 0 /\ p \in Nat /\ pend = p + n
            BY <1>0
          <6>4. (u <= y /\ y < u + (v + n + v1)) <=> (p <= y /\ y < pend) \/ (u <= y /\ y < u + v) \/ (u1 <= y /\ y < u1 + v1)
            BY <6>3, <2>5a, <3>1a
          <6>. QED BY <6>1, <6>2, <6>4 DEF Within
        <5>. QED BY <5>1, <2>5a, <3>1a
      <4>2. \A y \in k .. k + 1 : y = k \/ y = k + 1
        BY <2>0
      <4>3. k \in k .. k + 1 /\ k + 1 \in k .. k + 1
        BY <2>0
      <4>. QED BY <4>1, <4>2, <4>3
    <3>. HIDE DEF b
    <3>10. \A x \in 1 .. k - 1 : s[x] \in Heads
      BY <2>3, <1>3a
    <3>11. \A x \in k + 2 .. Len(s) : s[x] \in Heads
      BY <3>8, <1>3a
    <3>12. PICK i \in Nat, j \in Nat : i \in 0 .. Len(s) /\ j \in i + 1 .. Len(s) + 1 /\ i = k - 1 /\ j = k + 2 /\ i + 1 = k /\ j - 1 = k + 1
      <4>1. k - 1 \in Nat /\ k + 2 \in Nat /\ k - 1 \in 0 .. Len(s) /\ k + 2 \in (k - 1) + 1 .. Len(s) + 1 /\ (k - 1) + 1 = k /\ (k + 2) - 1 = k + 1
        BY <2>0, <3>1, <1>0
      <4>. QED BY <4>1
    <3>13. HasRoom(s, l, i, j, s[k], b)
      BY <3>4, <3>7, <3>8, <2>3, <3>12 DEF HasRoom
    <3>14. Links(s, l, i, j, s[k], b, freelist, header, freelist', header')
      <4>1. freelist' = IF i = 0 THEN s[k] ELSE freelist
        BY <2>1, <2>4, <3>12
      <4>2. i > 0 => header'[s[i]] = [next |-> s[k], len |-> l[i]]
        <5>1. i > 0 => i \in 1 .. k - 1
          BY <3>12
        <5>. QED BY <5>1, <2>3, <2>4, <3>6, <3>10, <3>12
      <4>3. \A x \in 1 .. i - 1 : header'[s[x]] = header[s[x]]
        <5>1. \A x \in 1 .. i - 1 : x \in 1 .. k - 1
          BY <3>12
        <5>. QED BY <5>1, <2>3, <3>6, <3>10
      <4>4. \A x \in j .. Len(s) : header'[s[x]] = header[s[x]]
        BY <3>6, <3>8, <3>11, <3>12
      <4>5. header'[s[k]] = [next |-> After(s, j - 1), len |-> b]
        BY <3>6, <3>12
      <4>. QED BY <4>1, <4>2, <4>3, <4>4, <4>5 DEF Links
    <3>15. Takes(s, l, i, j, s[k], b, R)
      <4>1. R \subseteq 0 .. MemSize - 1
        BY <1>0 DEF R, Run
      <4>. QED BY <4>1, <3>9, <3>12 DEF Takes
    <3>18. \E s2, l2 : Sorted(s2, l2) /\ Linked(s2, l2, freelist', header') /\ Cover(s2, l2) = Cover(s, l) \cup R
      BY <3>13, <3>14, <3>15, Splice
    <3>. QED BY <3>5, <3>18, <2>1 DEF R
  <2>7. CASE After(s, k) # pend
    <3>1. \A x \in k + 1 .. Len(s) : x \in 1 .. Len(s) /\ pend < s[x]
      <4>. SUFFICES ASSUME NEW x \in k + 1 .. Len(s) PROVE x \in 1 .. Len(s) /\ pend < s[x]
        OBVIOUS
      <4>1. k + 1 \in 1 .. Len(s) /\ x \in 1 .. Len(s) /\ k + 1 \in k + 1 .. Len(s) /\ k # Len(s)
        BY <2>0, <1>0
      <4>2. s[k + 1] # pend /\ s[k + 1] \in Nat /\ s[k + 1] >= pend
        BY <4>1, <2>2, <2>7, <1>3 DEF After
      <4>3. s[x] \in Nat /\ (k + 1 < x => s[k + 1] < s[x])
        BY <4>1, <1>3, <1>4
      <4>. QED BY <4>1, <4>2, <4>3, <2>0, <1>0
    <3> DEFINE b == l[k] + n
    <3>3. header' = [header EXCEPT ![s[k]] = [next |-> After(s, k), len |-> b]]
      <4>1. header[s[k]].next = After(s, k) /\ header[s[k]].len = l[k]
        BY <2>5
      <4>2. header' = [header EXCEPT ![s[k]].len = @ + n]
        BY <2>1, <2>7, <4>1 DEF Grow
      <4>3. [header[s[k]] EXCEPT !.len = @ + n] = [next |-> After(s, k), len |-> b]
        BY <2>5
      <4>4. header' = [header EXCEPT ![s[k]] = [header[s[k]] EXCEPT !.len = @ + n]]
        BY <4>2
      <4>. QED BY <4>3, <4>4
    <3>4. s[k] \in Heads
      BY <2>0, <1>3a
    <3>5. IsTable(header')
      BY <3>3, <3>4 DEF IsTable
    <3>6. /\ header'[s[k]] = [next |-> After(s, k), len |-> b]
          /\ \A a \in Heads : a # s[k] => header'[a] = header[a]
      BY <3>3, <3>4 DEF IsTable
    <3>7. b \in Lengths /\ s[k] + b <= Top /\ s[k] + b = pend
      <4>1. PICK w \in Nat : w = v + n
        BY <1>0
      <4>2. n \in Nat /\ n > 0 /\ p \in Nat /\ pend = p + n /\ pend <= Top /\ Top = KERN_BASE + MemSize /\ MemSize \in Nat /\ KERN_BASE \in Nat
        BY <1>0
      <4>3. w > 0 /\ w <= MemSize /\ u + w = pend
        BY <4>1, <4>2, <2>5a
      <4>4. w % PAGESIZE = 0
        <5>1. l[k] % PAGESIZE = 0
          BY <2>0, <1>3a DEF Lengths
        <5>2. v % PAGESIZE = 0
          BY <5>1, <2>5a
        <5>3. n \in Nat /\ PAGESIZE \in Nat \ {0} /\ n % PAGESIZE = 0
          BY <1>0, <1>0a
        <5>4. (v + n) % PAGESIZE = 0 /\ (n + v) % PAGESIZE = 0
          BY <5>2, <5>3, Multiples
        <5>. QED BY <4>1, <5>4
      <4>5. b = w
        BY <4>1, <2>5a
      <4>. QED BY <4>2, <4>3, <4>4, <4>5, <2>5a DEF Lengths
    <3>9. ASSUME NEW x \in 0 .. MemSize - 1
          PROVE  Within(s[k], b, x) <=> x \in R \/ \E y \in k .. k : Within(s[y], l[y], x)
      <4>1. Within(s[k], b, x) <=> x \in R \/ Within(s[k], l[k], x)
        <5>1. Within(u, v + n, x) <=> x \in R \/ Within(u, v, x)
          <6>1. PICK y \in Nat : y = x + KERN_BASE
            BY <1>0
          <6>2. x \in R <=> p <= y /\ y < pend
            BY <6>1, <1>0 DEF R, Run
          <6>3. n \in Nat /\ n > 0 /\ p \in Nat /\ pend = p + n
            BY <1>0
          <6>4. (u <= y /\ y < u + (v + n)) <=> (p <= y /\ y < pend) \/ (u <= y /\ y < u + v)
            BY <6>3, <2>5a
          <6>. QED BY <6>1, <6>2, <6>4 DEF Within
        <5>. QED BY <5>1, <2>5a
      <4>2. \A y \in k .. k : y = k
        BY <2>0
      <4>3. k \in k .. k
        BY <2>0
      <4>. QED BY <4>1, <4>2, <4>3
    <3>. HIDE DEF b
    <3>12. PICK i \in Nat, j \in Nat : i \in 0 .. Len(s) /\ j \in i + 1 .. Len(s) + 1 /\ i = k - 1 /\ j = k + 1 /\ i + 1 = k /\ j - 1 = k
      <4>1. k - 1 \in Nat /\ k + 1 \in Nat /\ k - 1 \in 0 .. Len(s) /\ k + 1 \in (k - 1) + 1 .. Len(s) + 1 /\ (k - 1) + 1 = k /\ (k + 1) - 1 = k
        BY <2>0, <1>0
      <4>. QED BY <4>1
    <3>13. HasRoom(s, l, i, j, s[k], b)
      BY <3>1, <3>4, <3>7, <2>3, <3>12 DEF HasRoom
    <3>14. Links(s, l, i, j, s[k], b, freelist, header, freelist', header')
      <4>1. freelist' = IF i = 0 THEN s[k] ELSE freelist
        BY <2>1, <2>4, <3>12
      <4>2. i > 0 => header'[s[i]] = [next |-> s[k], len |-> l[i]]
        <5>1. i > 0 => i \in 1 .. k - 1
          BY <3>12
        <5>2. i > 0 => s[i] \in Heads
          BY <5>1, <2>3, <1>3a
        <5>. QED BY <5>1, <5>2, <2>3, <2>4, <3>6, <3>12
      <4>3. \A x \in 1 .. i - 1 : header'[s[x]] = header[s[x]]
        <5>1. \A x \in 1 .. i - 1 : x \in 1 .. k - 1
          BY <3>12
        <5>. QED BY <5>1, <2>3, <3>6, <1>3a
      <4>4. \A x \in j .. Len(s) : header'[s[x]] = header[s[x]]
        BY <3>6, <3>1, <2>3, <1>3a, <3>12
      <4>5. header'[s[k]] = [next |-> After(s, j - 1), len |-> b]
        BY <3>6, <3>12
      <4>. QED BY <4>1, <4>2, <4>3, <4>4, <4>5 DEF Links
    <3>15. Takes(s, l, i, j, s[k], b, R)
      <4>1. R \subseteq 0 .. MemSize - 1
        BY <1>0 DEF R, Run
      <4>. QED BY <4>1, <3>9, <3>12 DEF Takes
    <3>18. \E s2, l2 : Sorted(s2, l2) /\ Linked(s2, l2, freelist', header') /\ Cover(s2, l2) = Cover(s, l) \cup R
      BY <3>13, <3>14, <3>15, Splice
    <3>. QED BY <3>5, <3>18, <2>1 DEF R
  <2>. QED BY <2>6, <2>7
<1>8. ASSUME NEW b, NEW nx, NEW j, b \in Lengths, p + b <= Top,
             j \in k .. Len(s) + 1, j >= 1, nx = After(s, j - 1),
             \A x \in j .. Len(s) : p + b < s[x],
             SetLink(s, k, p, [header EXCEPT ![p] = [next |-> nx, len |-> b]]),
             fault' = fault,
             \A x \in 0 .. MemSize - 1 : Within(p, b, x) <=> x \in R \/ \E y \in k .. j - 1 : Within(s[y], l[y], x)
      PROVE  /\ IsTable(header')
             /\ \E s2, l2 : Sorted(s2, l2) /\ Linked(s2, l2, freelist', header') /\ Cover(s2, l2) = Cover(s, l) \cup R
  <2> DEFINE H == [header EXCEPT ![p] = [next |-> nx, len |-> b]]
  <2>0. k \in Nat /\ j \in Nat /\ k - 1 \in Nat /\ k >= 1 /\ k - 1 <= Len(s) /\ j >= k
    BY <1>6, <1>8, <1>0
  <2>0b. b \in Nat /\ b > 0
    BY <1>8, <1>0 DEF Lengths
  <2>1. /\ IsTable(H) /\ H[p] = [next |-> nx, len |-> b]
        /\ \A a \in Heads : a # p => H[a] = header[a]
    BY <1>1 DEF IsTable
  <2>2. /\ IsTable(header')
        /\ freelist' = IF k = 1 THEN p ELSE freelist
        /\ k > 1 => header'[s[k - 1]] = [H[s[k - 1]] EXCEPT !.next = p]
        /\ \A a \in Heads : (k > 1 => a # s[k - 1]) => header'[a] = H[a]
    <3>1. s \in Seq(Heads)
      BY SortedAt
    <3>2. SetLink(s, k, p, H)
      BY <1>8
    <3>. HIDE DEF H
    <3>. QED BY <3>1, <3>2, <2>1, <1>6, LinkSet
  <2>. HIDE DEF H
  <2>3. \A x \in 1 .. k - 1 : x \in 1 .. Len(s) /\ s[x] \in Heads /\ s[x] # p /\ s[x] + l[x] < p
    <3>. SUFFICES ASSUME NEW x \in 1 .. k - 1 PROVE x \in 1 .. Len(s) /\ s[x] \in Heads /\ s[x] # p /\ s[x] + l[x] < p
      OBVIOUS
    <3>1. x \in 1 .. Len(s) /\ x < k
      BY <2>0, <1>0
    <3>2. s[x] \in Heads /\ s[x] \in Nat /\ l[x] \in Nat /\ l[x] > 0 /\ s[x] + l[x] < p
      BY <3>1, <1>3, <1>3a, <1>6
    <3>. QED BY <3>1, <3>2, <1>0
  <2>4. \A x \in j .. Len(s) : x \in 1 .. Len(s) /\ s[x] \in Heads /\ s[x] # p /\ (k > 1 => s[x] # s[k - 1])
    <3>. SUFFICES ASSUME NEW x \in j .. Len(s) PROVE x \in 1 .. Len(s) /\ s[x] \in Heads /\ s[x] # p /\ (k > 1 => s[x] # s[k - 1])
      OBVIOUS
    <3>1. x \in 1 .. Len(s)
      BY <2>0, <1>0
    <3>2. s[x] \in Heads /\ s[x] \in Nat /\ p + b < s[x]
      BY <3>1, <1>3, <1>3a, <1>8
    <3>3. k > 1 => k - 1 \in 1 .. k - 1
      BY <2>0
    <3>4. k > 1 => s[k - 1] \in Nat /\ l[k - 1] \in Nat /\ s[k - 1] + l[k - 1] < p
      BY <3>3, <2>3, <1>3
    <3>. QED BY <3>1, <3>2, <3>4, <2>0b, <1>0
  <2>5. PICK i \in Nat : i = k - 1 /\ i \in 0 .. Len(s) /\ j \in i + 1 .. Len(s) + 1 /\ i + 1 = k
    BY <2>0, <1>8, <1>0
  <2>6. HasRoom(s, l, i, j, p, b)
    BY <2>3, <2>5, <1>1, <1>8 DEF HasRoom
  <2>7. Links(s, l, i, j, p, b, freelist, header, freelist', header')
    <3>1. freelist' = IF i = 0 THEN p ELSE freelist
      BY <2>2, <2>5
    <3>2. i > 0 => header'[s[i]] = [next |-> p, len |-> l[i]]
      <4>. SUFFICES ASSUME i > 0 PROVE header'[s[i]] = [next |-> p, len |-> l[i]]
        OBVIOUS
      <4>1. k > 1 /\ i \in 1 .. k - 1
        BY <2>5
      <4>2. s[i] \in Heads /\ s[i] # p /\ i \in 1 .. Len(s)
        BY <4>1, <2>3
      <4>3. H[s[i]] = [next |-> After(s, i), len |-> l[i]]
        BY <4>2, <2>1, <1>3b
      <4>. QED BY <4>1, <4>3, <2>2, <2>5
    <3>3. ASSUME NEW x \in 1 .. i - 1 PROVE header'[s[x]] = header[s[x]]
      <4>1. x \in 1 .. k - 1 /\ k - 1 \in 1 .. k - 1 /\ x < k - 1 /\ k > 1
        BY <2>5
      <4>2. s[x] \in Nat /\ l[x] \in Nat /\ s[x] + l[x] < s[k - 1] /\ l[x] > 0
        BY <4>1, <2>3, <1>3, <1>4
      <4>3. s[x] # s[k - 1]
        BY <4>2
      <4>. QED BY <4>1, <4>3, <2>1, <2>2, <2>3
    <3>4. \A x \in j .. Len(s) : header'[s[x]] = header[s[x]]
      BY <2>1, <2>2, <2>4
    <3>5. header'[p] = [next |-> After(s, j - 1), len |-> b]
      <4>1. k > 1 => k - 1 \in 1 .. k - 1
        BY <2>0
      <4>2. k > 1 => s[k - 1] # p
        BY <4>1, <2>3
      <4>. QED BY <4>2, <2>1, <2>2, <1>1, <1>8
    <3>. QED BY <3>1, <3>2, <3>3, <3>4, <3>5 DEF Links
  <2>8. Takes(s, l, i, j, p, b, R)
    <3>1. R \subseteq 0 .. MemSize - 1
      BY <1>0 DEF R, Run, p, pend
    <3>. QED BY <3>1, <2>5, <1>8 DEF Takes
  <2>9. \E s2, l2 : Sorted(s2, l2) /\ Linked(s2, l2, freelist', header') /\ Cover(s2, l2) = Cover(s, l) \cup R
    BY <2>6, <2>7, <2>8, Splice
  <2>. QED BY <2>2, <2>9
<1>9. CASE k <= Len(s) /\ s[k] + l[k] # p /\ s[k] = pend
  <2>0. k \in 1 .. Len(s) /\ k \in Nat
    BY <1>6, <1>9, <1>0
  <2>5a. PICK v \in Nat : v = l[k] /\ v > 0 /\ s[k] = pend /\ s[k] + v <= Top /\ p + (n + v) <= Top /\ s[k] + v = p + (n + v)
    BY <2>0, <1>3, <1>9, <1>0
  <2>1. /\ SetLink(s, k, p, [header EXCEPT ![p] = [next |-> After(s, k), len |-> n + v]])
        /\ fault' = fault
    <3>1. s[k] # NULL /\ End(s[k]) # p /\ ~(k > Len(s)) /\ header[s[k]].next = After(s, k) /\ header[s[k]].len = v
      <4>1. header[s[k]] = [next |-> After(s, k), len |-> v]
        BY <2>0, <1>3b, <2>5a
      <4>2. End(s[k]) = s[k] + l[k] /\ s[k] # NULL
        BY <2>0, <1>3a, <1>3c
      <4>3. ~(k > Len(s))
        BY <2>0, <1>0
      <4>. QED BY <4>1, <4>2, <4>3, <1>9
    <3>. QED BY <3>1, <1>1, <1>2, <1>9 DEF InitRegion, k, p, pend
  <2>2. ASSUME NEW x \in k + 1 .. Len(s) PROVE p + (n + v) < s[x]
    <3>1. x \in 1 .. Len(s) /\ k < x
      BY <2>0, <1>0
    <3>2. s[k] + v < s[x]
      BY <3>1, <2>0, <2>5a, <1>4
    <3>. QED BY <3>2, <2>5a
  <2>3. ASSUME NEW x \in 0 .. MemSize - 1
        PROVE  Within(p, n + v, x) <=> x \in R \/ \E y \in k .. k : Within(s[y], l[y], x)
    <3>1. Within(p, n + v, x) <=> x \in R \/ Within(pend, v, x)
      <4>1. PICK y \in Nat : y = x + KERN_BASE
        BY <1>0
      <4>2. x \in R <=> p <= y /\ y < pend
        BY <4>1, <1>0 DEF R, Run
      <4>3. n \in Nat /\ n > 0 /\ p \in Nat /\ pend = p + n
        BY <1>0
      <4>4. (p <= y /\ y < p + (n + v)) <=> (p <= y /\ y < pend) \/ (pend <= y /\ y < pend + v)
        BY <4>3, <2>5a
      <4>. QED BY <4>1, <4>2, <4>4 DEF Within
    <3>2. \A y \in k .. k : y = k
      BY <2>0
    <3>3. k \in k .. k
      BY <2>0
    <3>. QED BY <3>1, <3>2, <3>3, <2>5a
  <2>4. n + v \in Lengths
    <3>1. l[k] % PAGESIZE = 0
      BY <2>0, <1>3a DEF Lengths
    <3>2. v % PAGESIZE = 0
      BY <3>1, <2>5a
    <3>3. (n + v) % PAGESIZE = 0
      BY <3>2, <1>0, <1>0a, Multiples
    <3>4. n + v \in 1 .. MemSize
      BY SMTT(30), <2>5a, <1>0
    <3>. QED BY <3>3, <3>4 DEF Lengths
  <2>5. PICK j \in Nat : j = k + 1 /\ j - 1 = k /\ j \in k .. Len(s) + 1 /\ j >= 1
    BY <2>0, <1>0
  <2>6. \A x \in j .. Len(s) : p + (n + v) < s[x]
    BY <2>2, <2>5
  <2>. QED BY <1>8, <2>1, <2>3, <2>4, <2>5, <2>5a, <2>6 DEF R
<1>10. CASE k > Len(s) \/ s[k] > pend
  <2>0. k \in Nat /\ k >= 1 /\ k <= Len(s) + 1
    BY <1>6, <1>0
  <2>1. /\ SetLink(s, k, p, [header EXCEPT ![p] = [next |-> After(s, k - 1), len |-> n]])
        /\ fault' = fault
    <3>1. CASE k > Len(s)
      <4>1. k - 1 = Len(s) /\ After(s, k - 1) = NULL
        BY <3>1, <2>0, <1>0 DEF After
      <4>. QED BY <3>1, <4>1, <1>1, <1>2 DEF InitRegion, k, p, pend
    <3>2. CASE ~(k > Len(s))
      <4>1. k \in 1 .. Len(s) /\ k - 1 # Len(s) /\ (k - 1) + 1 = k
        BY <3>2, <2>0, <1>0
      <4>2. After(s, k - 1) = s[k]
        BY <4>1 DEF After
      <4>3. s[k] # NULL /\ End(s[k]) # p /\ s[k] # pend
        <5>1. s[k] \in Nat /\ l[k] \in Nat /\ s[k] > pend /\ End(s[k]) = s[k] + l[k]
          BY <4>1, <1>3, <1>3c, <1>10, <3>2
        <5>. QED BY <5>1, <1>0, <4>1, <1>3a
      <4>. QED BY <3>2, <4>2, <4>3, <1>1, <1>2 DEF InitRegion, k, p, pend
    <3>. QED BY <3>1, <3>2
  <2>2. ASSUME NEW x \in k .. Len(s) PROVE p + n < s[x]
    <3>1. k \in 1 .. Len(s) /\ x \in 1 .. Len(s) /\ (k = x \/ k < x) /\ ~(k > Len(s))
      BY <2>0, <1>0
    <3>2. s[k] > pend /\ s[k] \in Nat /\ l[k] \in Nat /\ s[x] \in Nat /\ (k < x => s[k] + l[k] < s[x])
      BY <3>1, <1>3, <1>4, <1>10
    <3>. QED BY <3>1, <3>2, <1>0
  <2>3. ASSUME NEW x \in 0 .. MemSize - 1
        PROVE  Within(p, n, x) <=> x \in R \/ \E y \in k .. k - 1 : Within(s[y], l[y], x)
    <3>1. Within(p, n, x) <=> x \in R
      BY <1>0 DEF R, Run, Within
    <3>2. k .. k - 1 = {}
      BY <2>0
    <3>. QED BY <3>1, <3>2
  <2>4. k \in k .. Len(s) + 1 /\ p + n <= Top
    BY <2>0, <1>0
  <2>. QED BY <1>8, <2>0, <2>1, <2>2, <2>3, <2>4 DEF R
<1>. QED BY <1>6, <1>7, <1>9, <1>10

\* Memory is in one region at most.
LEMMA Apart ==
  ASSUME NEW s, NEW l, Sorted(s, l), NEW y \in 1 .. Len(s), NEW z \in 1 .. Len(s),
         NEW x \in 0 .. MemSize - 1, Within(s[y], l[y], x), Within(s[z], l[z], x)
  PROVE  y = z
<1>1. /\ s[y] \in Nat /\ l[y] \in Nat /\ s[z] \in Nat /\ l[z] \in Nat /\ KERN_BASE \in Nat /\ Len(s) \in Nat
      /\ x \in Nat
  BY SortedAt, LayoutAssumption
<1>2. (y < z => s[y] + l[y] < s[z]) /\ (z < y => s[z] + l[z] < s[y])
  BY DEF Sorted
<1>. QED BY SMTT(30), <1>1, <1>2 DEF Within

\* A request is rounded up to whole pages, by less than a page
\* (page_alloc.c:80-82).
LEMMA RoundedUp ==
  ASSUME NEW wanted \in Sizes
  PROVE  /\ RoundUp(wanted) \in Nat /\ RoundUp(wanted) > 0 /\ RoundUp(wanted) % PAGESIZE = 0
         /\ wanted \in 1 .. MemSize
         /\ wanted \in Nat /\ wanted <= RoundUp(wanted) /\ RoundUp(wanted) <= wanted + PAGESIZE - 1
<1>0. wanted \in 1 .. MemSize /\ wanted \in Nat /\ wanted > 0 /\ PAGESIZE \in Nat \ {0}
  BY LayoutAssumption
<1>1. CASE wanted % PAGESIZE = 0
  BY <1>0, <1>1 DEF RoundUp
<1>2. CASE wanted % PAGESIZE # 0
  <2>1. PICK a \in Nat : a = wanted - (wanted % PAGESIZE) /\ a % PAGESIZE = 0 /\ a > wanted - PAGESIZE /\ a <= wanted
    BY <1>0, RoundDown
  <2>2. a # wanted
    BY <2>1, <1>2
  <2>3. (a + PAGESIZE) % PAGESIZE = 0
    <3>1. PAGESIZE % PAGESIZE = 0
      <4>1. (PAGESIZE * 1) % PAGESIZE = 0
        BY <1>0, Mul
      <4>2. PAGESIZE * 1 = PAGESIZE
        BY <1>0
      <4>. QED BY <4>1, <4>2
    <3>. QED BY <3>1, <2>1, <1>0, Multiples
  <2>4. RoundUp(wanted) = a + PAGESIZE
    BY <1>2, <2>1 DEF RoundUp
  <2>. QED BY <2>1, <2>2, <2>3, <2>4, <1>0
<1>. QED BY <1>1, <1>2

\* The pages of length m at the end of the k-th region begin at a.
EndOf(s, l, k, m, a) == /\ m > 0 /\ m % PAGESIZE = 0 /\ l[k] >= m
                        /\ a = s[k] + l[k] - m - KERN_BASE

\* What page_alloc does to the list for them.
CutEnd(s, k, m) == Unlink(s, k, s[k], [header EXCEPT ![s[k]].len = @ - m])

\* A request takes the end of a region that is long enough.
LEMMA Taken ==
  ASSUME NEW s, NEW l, Sorted(s, l), Linked(s, l, freelist, header), IsTable(header),
         NEW m \in Nat, NEW k \in 1 .. Len(s),
         CutEnd(s, k, m),
         NEW a, EndOf(s, l, k, m, a)
  PROVE  /\ IsTable(header')
         /\ a \in 0 .. MemSize - 1 /\ a % PAGESIZE = 0
         /\ Run(a, m) \subseteq Cover(s, l)
         /\ \E s2, l2 : /\ Sorted(s2, l2) /\ Linked(s2, l2, freelist', header')
                        /\ Cover(s2, l2) = Cover(s, l) \ Run(a, m)
<1> DEFINE H == [header EXCEPT ![s[k]].len = @ - m]
           R == Run(a, m)
<1>. HIDE DEF H, R
<1>0. /\ KERN_BASE \in Nat /\ KERN_BASE > 0 /\ MemSize \in Nat /\ PAGESIZE \in Nat \ {0}
      /\ Len(s) \in Nat /\ Top = KERN_BASE + MemSize /\ k \in Nat
  BY SortedAt, LayoutAssumption DEF Top
<1>1. PICK u \in Nat, v \in Nat, b \in Nat :
        /\ u = s[k] /\ v = l[k] /\ b = v - m /\ v = b + m /\ u >= KERN_BASE /\ u + v <= Top
        /\ a = u + b - KERN_BASE /\ m > 0
  <2>1. s[k] \in Nat /\ l[k] \in Nat /\ s[k] >= KERN_BASE /\ s[k] + l[k] <= Top
    BY SortedAt
  <2>2. l[k] - m \in Nat /\ l[k] = (l[k] - m) + m
    BY <2>1 DEF EndOf
  <2>3. m > 0 /\ m \in Nat /\ a = s[k] + l[k] - m - KERN_BASE
    BY DEF EndOf
  <2>. QED BY <2>1, <2>2, <2>3, <1>0
<1>1a. u + v <= Top /\ v = b + m /\ a = u + b - KERN_BASE /\ m > 0 /\ u >= KERN_BASE
  BY <1>1
<1>2. s[k] \in Heads /\ l[k] \in Lengths /\ s \in Seq(Heads)
  BY SortedAt
<1>2a. s[k] % PAGESIZE = 0 /\ l[k] % PAGESIZE = 0 /\ m % PAGESIZE = 0
  BY <1>2, HeadsAre DEF Lengths, EndOf
<1>3. b % PAGESIZE = 0 /\ a % PAGESIZE = 0
  <2>1. v % PAGESIZE = 0 /\ u % PAGESIZE = 0 /\ KERN_BASE % PAGESIZE = 0
    BY <1>1, <1>2a, LayoutAssumption
  <2>2. (v - m) % PAGESIZE = 0
    <3>1. v >= m /\ PAGESIZE \in Nat \ {0}
      BY <1>0, <1>1a
    <3>. QED BY <2>1, <3>1, <1>2a, Multiples
  <2>3. b % PAGESIZE = 0
    BY <2>2, <1>1
  <2>4. (u + b) % PAGESIZE = 0
    BY <2>1, <2>3, <1>0, Multiples
  <2>5. ((u + b) - KERN_BASE) % PAGESIZE = 0
    <3>1. u + b >= KERN_BASE /\ PAGESIZE \in Nat \ {0} /\ KERN_BASE \in Nat /\ u + b \in Nat
      BY <1>0, <1>1a
    <3>. QED BY <2>1, <2>4, <3>1, Multiples
  <2>6. a = (u + b) - KERN_BASE
    BY <1>0, <1>1a
  <2>. QED BY <2>3, <2>5, <2>6
<1>4. a \in 0 .. MemSize - 1
  BY <1>0, <1>1a
<1>5. header[s[k]] = [next |-> After(s, k), len |-> v]
  BY <1>1 DEF Linked
<1>6. /\ IsTable(H) /\ H[s[k]] = [next |-> After(s, k), len |-> b]
      /\ \A c \in Heads : c # s[k] => H[c] = header[c]
  <2>1. [header[s[k]] EXCEPT !.len = @ - m] = [next |-> After(s, k), len |-> b]
    BY <1>1, <1>5
  <2>2. H = [header EXCEPT ![s[k]] = [header[s[k]] EXCEPT !.len = @ - m]]
    BY DEF H
  <2>3. H = [header EXCEPT ![s[k]] = [next |-> After(s, k), len |-> b]]
    BY <2>1, <2>2
  <2>. QED BY <2>3, <1>2 DEF IsTable
<1>7. ASSUME NEW x \in 0 .. MemSize - 1
      PROVE  /\ Within(s[k], l[k], x) <=> Within(s[k], b, x) \/ x \in R
             /\ ~(Within(s[k], b, x) /\ x \in R)
  <2>1. PICK y \in Nat : y = x + KERN_BASE
    BY <1>0
  <2>2. x \in R <=> u + b <= y /\ y < u + b + m
    BY <2>1, <1>0, <1>1a DEF R, Run
  <2>3. /\ (u <= y /\ y < u + v) <=> (u <= y /\ y < u + b) \/ (u + b <= y /\ y < u + b + m)
        /\ ~((u <= y /\ y < u + b) /\ (u + b <= y /\ y < u + b + m))
    BY <1>1a
  <2>. QED BY <2>1, <2>2, <2>3, <1>1 DEF Within
<1>8. \A x \in 0 .. MemSize - 1, y \in 1 .. Len(s) : y # k /\ Within(s[y], l[y], x) => x \notin R
  BY <1>7, Apart
<1>9. R \subseteq 0 .. MemSize - 1
  BY <1>0, <1>1a DEF R, Run
<1>10. R \subseteq Cover(s, l)
  BY <1>7, <1>9 DEF Cover
<1>11. Unlink(s, k, s[k], H)
  BY DEF H, CutEnd
<1>12. CASE b = 0
  <2>1. SetLink(s, k, After(s, k), H)
    BY <1>6, <1>11, <1>12 DEF Unlink
  <2>2. k \in 1 .. Len(s) + 1
    BY <1>0
  <2>3. /\ IsTable(header')
        /\ freelist' = IF k = 1 THEN After(s, k) ELSE freelist
        /\ k > 1 => header'[s[k - 1]] = [H[s[k - 1]] EXCEPT !.next = After(s, k)]
        /\ \A c \in Heads : (k > 1 => c # s[k - 1]) => header'[c] = H[c]
    BY <2>1, <2>2, <1>2, <1>6, LinkSet
  <2>4. freelist' = IF k = 1 THEN After(s, 1) ELSE freelist
    BY <2>3
  <2>5. \A x, y \in 1 .. Len(s) : x # y => s[x] # s[y]
    <3>. SUFFICES ASSUME NEW x \in 1 .. Len(s), NEW y \in 1 .. Len(s), x # y PROVE s[x] # s[y]
      OBVIOUS
    <3>1. s[x] \in Nat /\ l[x] \in Nat /\ l[x] > 0 /\ s[y] \in Nat /\ l[y] \in Nat /\ l[y] > 0
      BY SortedAt
    <3>2. (x < y => s[x] + l[x] < s[y]) /\ (y < x => s[y] + l[y] < s[x])
      BY DEF Sorted
    <3>. QED BY <3>1, <3>2
  <2>6. k > 1 => header'[s[k - 1]] = [next |-> After(s, k), len |-> l[k - 1]]
    <3>. SUFFICES ASSUME k > 1 PROVE header'[s[k - 1]] = [next |-> After(s, k), len |-> l[k - 1]]
      OBVIOUS
    <3>1. k - 1 \in 1 .. Len(s) /\ k - 1 # k
      BY <1>0
    <3>2. s[k - 1] # s[k] /\ s[k - 1] \in Heads
      BY <3>1, <2>5, SortedAt
    <3>3. header[s[k - 1]] = [next |-> After(s, k - 1), len |-> l[k - 1]]
      BY <3>1 DEF Linked
    <3>4. H[s[k - 1]] = [next |-> After(s, k - 1), len |-> l[k - 1]]
      BY <3>2, <3>3, <1>6
    <3>. QED BY <3>4, <2>3
  <2>7. \A x \in 1 .. Len(s) : x # k /\ x # k - 1 => header'[s[x]] = header[s[x]]
    <3>. SUFFICES ASSUME NEW x \in 1 .. Len(s), x # k, x # k - 1 PROVE header'[s[x]] = header[s[x]]
      OBVIOUS
    <3>1. k > 1 => k - 1 \in 1 .. Len(s)
      BY <1>0
    <3>2. s[x] # s[k] /\ (k > 1 => s[x] # s[k - 1]) /\ s[x] \in Heads
      BY <3>1, <2>5, SortedAt
    <3>. QED BY <3>2, <2>3, <1>6
  <2>8. Linked(Without(s, k), Without(l, k), freelist', header')
    BY <2>4, <2>6, <2>7, WithoutLinked
  <2>9. Sorted(Without(s, k), Without(l, k))
    BY WithoutSorted
  <2>10. Cover(Without(s, k), Without(l, k)) = Cover(s, l) \ R
    <3>1. \A x \in 0 .. MemSize - 1 : ~Within(s[k], b, x)
      BY <1>12, <1>0, <1>1 DEF Within
    <3>2. \A x \in 0 .. MemSize - 1 : (\E y \in 1 .. Len(s) : y # k /\ Within(s[y], l[y], x))
                                      <=> (\E y \in 1 .. Len(s) : Within(s[y], l[y], x)) /\ x \notin R
      BY <3>1, <1>7, <1>8
    <3>. QED BY <3>2, WithoutCover DEF Cover
  <2>. QED BY <2>3, <2>8, <2>9, <2>10, <1>3, <1>4, <1>10 DEF R
<1>13. CASE b # 0
  <2>1. header' = H /\ freelist' = freelist
    BY <1>6, <1>11, <1>13 DEF Unlink
  <2>2. PICK i \in Nat, j \in Nat : i \in 0 .. Len(s) /\ j \in i + 1 .. Len(s) + 1 /\ i = k - 1 /\ j = k + 1 /\ i + 1 = k /\ j - 1 = k
    <3>1. k - 1 \in Nat /\ k + 1 \in Nat /\ k - 1 \in 0 .. Len(s) /\ k + 1 \in (k - 1) + 1 .. Len(s) + 1 /\ (k - 1) + 1 = k /\ (k + 1) - 1 = k
      BY <1>0
    <3>. QED BY <3>1
  <2>3. b \in Lengths /\ s[k] + b <= Top
    <3>1. b \in 1 .. MemSize /\ u + b <= Top
      BY <1>0, <1>1a, <1>13
    <3>. QED BY <3>1, <1>1, <1>3 DEF Lengths
  <2>4. ASSUME NEW x \in 1 .. i PROVE x \in 1 .. Len(s) /\ s[x] + l[x] < s[k] /\ s[x] # s[k] /\ s[x] \in Heads
    <3>1. x \in 1 .. Len(s) /\ x < k
      BY <2>2, <1>0
    <3>2. s[x] \in Nat /\ l[x] \in Nat /\ l[x] > 0 /\ s[x] \in Heads
      BY <3>1, SortedAt
    <3>3. s[x] + l[x] < s[k]
      BY <3>1 DEF Sorted
    <3>4. s[k] \in Nat
      BY <1>1
    <3>5. s[x] # s[k]
      BY <3>2, <3>3, <3>4
    <3>. QED BY <3>1, <3>2, <3>3, <3>5
  <2>5. ASSUME NEW x \in j .. Len(s) PROVE x \in 1 .. Len(s) /\ s[k] + b < s[x] /\ s[x] # s[k] /\ s[x] \in Heads
    <3>1. x \in 1 .. Len(s) /\ k < x
      BY <2>2, <1>0
    <3>2. s[x] \in Nat /\ s[x] \in Heads
      BY <3>1, SortedAt
    <3>3. s[k] + l[k] < s[x]
      BY <3>1 DEF Sorted
    <3>4. s[k] = u /\ l[k] = v
      BY <1>1
    <3>5. u + v < s[x]
      BY <3>3, <3>4
    <3>6. u + b < s[x] /\ s[x] # u
      BY <3>2, <3>5, <1>1a
    <3>. QED BY <3>1, <3>2, <3>4, <3>6
  <2>6. Sorted(Spliced(s, i, s[k], j), Spliced(l, i, b, j))
    BY <2>2, <2>3, <2>4, <2>5, <1>2, SpliceSorted
  <2>7. Linked(Spliced(s, i, s[k], j), Spliced(l, i, b, j), freelist', header')
    <3>1. freelist' = IF i = 0 THEN s[k] ELSE freelist
      <4>1. i = 0 => After(s, 0) = s[k]
        BY <2>2, <1>0 DEF After
      <4>. QED BY <4>1, <2>1 DEF Linked
    <3>2. i > 0 => header'[s[i]] = [next |-> s[k], len |-> l[i]]
      <4>. SUFFICES ASSUME i > 0 PROVE header'[s[i]] = [next |-> s[k], len |-> l[i]]
        OBVIOUS
      <4>1. i \in 1 .. i
        OBVIOUS
      <4>2. After(s, i) = s[k]
        BY <2>2, <1>0 DEF After
      <4>3. header[s[i]] = [next |-> After(s, i), len |-> l[i]]
        BY <4>1, <2>4 DEF Linked
      <4>. QED BY <4>1, <4>2, <4>3, <2>1, <2>4, <1>6
    <3>3. header'[s[k]] = [next |-> After(s, j - 1), len |-> b]
      BY <2>1, <2>2, <1>6
    <3>4. \A x \in 1 .. i - 1 : header'[s[x]] = header[s[x]]
      <4>1. \A x \in 1 .. i - 1 : x \in 1 .. i
        BY <2>2
      <4>. QED BY <4>1, <2>1, <2>4, <1>6
    <3>5. \A x \in j .. Len(s) : header'[s[x]] = header[s[x]]
      BY <2>1, <2>5, <1>6
    <3>6. Links(s, l, i, j, s[k], b, freelist, header, freelist', header')
      BY <3>1, <3>2, <3>3, <3>4, <3>5 DEF Links
    <3>. QED BY <3>6, <2>2, <2>3, <1>2, SpliceLinked
  <2>8. Cover(Spliced(s, i, s[k], j), Spliced(l, i, b, j)) = Cover(s, l) \ R
    <3>1. Cover(Spliced(s, i, s[k], j), Spliced(l, i, b, j)) =
            {x \in 0 .. MemSize - 1 : \/ Within(s[k], b, x)
                                      \/ \E y \in 1 .. i : Within(s[y], l[y], x)
                                      \/ \E y \in j .. Len(s) : Within(s[y], l[y], x)}
      BY SMTT(30), <2>2, <2>3, <1>2, SpliceCover
    <3>2. \A y \in 1 .. Len(s) : y = k \/ y \in 1 .. i \/ y \in j .. Len(s)
      BY <2>2, <1>0
    <3>3. /\ \A y \in 1 .. i : y \in 1 .. Len(s) /\ y # k
          /\ \A y \in j .. Len(s) : y \in 1 .. Len(s) /\ y # k
      BY <2>2, <1>0
    <3>4. ASSUME NEW x \in 0 .. MemSize - 1
          PROVE  (\/ Within(s[k], b, x)
                  \/ \E y \in 1 .. i : Within(s[y], l[y], x)
                  \/ \E y \in j .. Len(s) : Within(s[y], l[y], x))
                 <=> (\E y \in 1 .. Len(s) : Within(s[y], l[y], x)) /\ x \notin R
      BY <3>2, <3>3, <1>7, <1>8
    <3>. QED BY <3>1, <3>4 DEF Cover
  <2>. QED BY <2>1, <2>6, <2>7, <2>8, <1>3, <1>4, <1>6, <1>10 DEF R
<1>. QED BY <1>12, <1>13

-----------------------------------------------------------------------------
(* The inductive invariant, and the steps.                                  *)

\* The list has these regions, and they are the free memory.
IsList(s, l) == Sorted(s, l) /\ Linked(s, l, freelist, header) /\ free = Cover(s, l)

\* There are such regions, no memory has two owners, and the only fault is that
\* of an address that page_alloc returned.
ListInv ==
  /\ IsTable(header)
  /\ owned \subseteq 0 .. MemSize - 1
  /\ free \cap owned = {}
  /\ fault = misused
  /\ \E s, l : IsList(s, l)

\* The list is empty at first.
LEMMA InitList == Init => ListInv
<1>. SUFFICES ASSUME Init PROVE ListInv
  OBVIOUS
<1>1. IsTable(header)
  BY DEF Init, IsTable, Heads
<1> DEFINE e == <<>>
<1>2. Sorted(e, e)
  <2>1. e \in Seq(Heads) /\ e \in Seq(Lengths) /\ Len(e) = 0
    OBVIOUS
  <2>. QED BY <2>1 DEF Sorted
<1>3. Linked(e, e, freelist, header)
  BY DEF Linked, After, Init
<1>4. free = Cover(e, e)
  BY DEF Cover, Init
<1>5. IsList(e, e)
  BY <1>2, <1>3, <1>4 DEF IsList
<1>. HIDE DEF e
<1>6. \E s, l : IsList(s, l)
  BY <1>5
<1>. QED BY <1>1, <1>6 DEF ListInv, Init

\* Memory is given.
LEMMA GivenStep ==
  ASSUME ListInv, NEW p \in Physical, NEW n \in Lengths, p + n <= MemSize, ~fault,
         Run(p, n) \cap free = {}, InitRegion(p, n), free' = free \cup Run(p, n),
         owned' = owned \ Run(p, n), misused' = misused
  PROVE  ListInv'
<1>1. PICK s, l : IsList(s, l)
  BY DEF ListInv
<1>2. /\ IsTable(header')
      /\ fault' = fault
      /\ \E s2, l2 : /\ Sorted(s2, l2) /\ Linked(s2, l2, freelist', header')
                     /\ Cover(s2, l2) = Cover(s, l) \cup Run(p, n)
  <2>1. Run(p, n) \cap Cover(s, l) = {}
    BY <1>1 DEF IsList
  <2>. QED BY <1>1, <2>1, Given DEF IsList, ListInv
<1>3. \E s2, l2 : IsList(s2, l2)'
  BY <1>1, <1>2 DEF IsList
<1>. QED BY <1>2, <1>3 DEF ListInv

\* What page_alloc returned is no physical address: nothing is mapped there.
LEMMA ReturnedStep ==
  ASSUME ListInv, NEW p \in Physical, NEW n \in Lengths, InitRegion(p + KERN_BASE, n)
  PROVE  fault' = TRUE /\ UNCHANGED <<freelist, header>>
<1>1. PICK s, l : IsList(s, l)
  BY DEF ListInv
<1>2. Regions = s
  BY <1>1, RegionsAre DEF IsList
<1> DEFINE q == Virtual(p + KERN_BASE)
           k == Place(s, q, q + n)
<1>3. q \in Nat /\ q < KERN_BASE
  <2>1. PICK K \in Nat, A \in Nat, M \in Nat : K = KERN_BASE /\ A = AddressSpace /\ M = MemSize
    BY LayoutAssumption
  <2>2. 4 * K = 3 * A /\ K + M <= A /\ p \in Nat /\ p < M /\ M > 0
    BY <2>1, LayoutAssumption DEF Physical
  <2>3. PICK c \in Nat : c = p + K + K - A /\ c < A /\ c < K
    <3>1. p + K + K - A \in Nat /\ p + K + K - A < A /\ p + K + K - A < K
      BY <2>2
    <3>. QED BY <3>1
  <2>4. p + K + K = c + A
    BY <2>2, <2>3
  <2>5. (c + A) % A = c
    <3>1. A \in Nat \ {0}
      BY <2>2
    <3>2. (c + A) \div A \in Nat /\ c + A = A * ((c + A) \div A) + ((c + A) % A) /\ (c + A) % A \in 0 .. A - 1
      BY <3>1, Div
    <3>. QED BY <3>1, <2>3
  <2>6. q = (p + K + K) % A
    BY <2>1 DEF Virtual
  <2>. QED BY <2>1, <2>3, <2>4, <2>5, <2>6
<1>4. q \notin Mapped
  BY <1>3, LayoutAssumption DEF Mapped
<1>5. ASSUME NEW x \in 1 .. Len(s) PROVE End(s[x]) # q
  <2>1. s[x] \in Nat /\ s[x] >= KERN_BASE /\ l[x] \in Nat
    BY <1>1, SortedAt DEF IsList
  <2>2. header[s[x]] = [next |-> After(s, x), len |-> l[x]]
    BY <1>1 DEF IsList, Linked
  <2>3. End(s[x]) = s[x] + l[x]
    <3>1. header[s[x]].len = l[x]
      BY <2>2
    <3>. QED BY <3>1 DEF End
  <2>. QED BY SMTT(30), <2>1, <2>3, <1>3, LayoutAssumption
<1>6. k \in 1 .. Len(s) + 1 /\ Len(s) \in Nat
  <2> DEFINE T == {Len(s) + 1} \cup {x \in 1 .. Len(s) : s[x] > q + n \/ Neighbour(s[x], q, q + n)}
  <2>1. k = Min(T)
    BY DEF Place
  <2>2. Len(s) \in Nat
    BY <1>1, SortedAt DEF IsList
  <2>3. T \subseteq Nat /\ T # {} /\ T \subseteq 1 .. Len(s) + 1
    BY <2>2
  <2>. HIDE DEF T, k
  <2>4. k \in T
    BY <2>1, <2>3, MinIs
  <2>. QED BY <2>2, <2>3, <2>4
<1>7. ~(k > Len(s)) => k \in 1 .. Len(s)
  BY <1>6
<1>8. ~(k > Len(s)) => End(s[k]) # q
  BY <1>5, <1>7
<1>. QED BY <1>2, <1>4, <1>8 DEF InitRegion

\* A request is refused when no region is long enough, and takes the end of one
\* that is.
Refused(s, l, m) ==
  /\ \A k \in 1 .. Len(s) : l[k] < m
  /\ answer' = NULL
  /\ UNCHANGED <<freelist, header, free, owned>>

\* The end of the k-th region, from the physical address a, is handed out.
Granted(s, l, m, k, a) ==
  /\ EndOf(s, l, k, m, a)
  /\ CutEnd(s, k, m)
  /\ answer' = a + KERN_BASE
  /\ free' = free \ Run(a, m)
  /\ owned' = owned \cup Run(a, m)

\* page_alloc does one or the other.
LEMMA AllocStep ==
  ASSUME NEW s, NEW l, IsList(s, l), NEW wanted \in Sizes, Alloc(wanted)
  PROVE  \/ Refused(s, l, RoundUp(wanted))
         \/ \E k \in 1 .. Len(s), a \in Int : Granted(s, l, RoundUp(wanted), k, a)
<1> DEFINE m == RoundUp(wanted)
           F == {k \in 1 .. Len(s) : Fits(s[k], m)}
<1>0. Regions = s /\ Len(s) \in Nat
  BY RegionsAre, SortedAt DEF IsList
<1>1. m \in Nat /\ m > 0 /\ m % PAGESIZE = 0
  BY RoundedUp
<1>2. ASSUME NEW k \in 1 .. Len(s)
      PROVE  /\ s[k] \in Nat /\ l[k] \in Nat /\ s[k] # NULL
             /\ header[s[k]].len = l[k]
             /\ k \in F <=> l[k] >= m
  <2>1. s[k] \in Nat /\ l[k] \in Nat /\ s[k] # NULL
    BY SortedAt DEF IsList
  <2>2. header[s[k]] = [next |-> After(s, k), len |-> l[k]]
    BY DEF IsList, Linked
  <2>3. header[s[k]].len = l[k]
    BY <2>2
  <2>. QED BY <2>1, <2>3 DEF Fits
<1>3. CASE F = {}
  <2>1. answer' = NULL /\ UNCHANGED <<freelist, header, free, owned>>
    BY <1>0, <1>3 DEF Alloc
  <2>2. \A k \in 1 .. Len(s) : l[k] < m
    <3>. HIDE DEF m
    <3>. SUFFICES ASSUME NEW k \in 1 .. Len(s) PROVE l[k] < m
      OBVIOUS
    <3>. QED BY <1>1, <1>2, <1>3
  <2>. QED BY <2>1, <2>2 DEF Refused
<1>4. CASE F # {}
  <2> DEFINE k == Min(F)
             a == s[k] + l[k] - m - KERN_BASE
  <2>1. k \in F
    <3>. F \subseteq Nat
      OBVIOUS
    <3>. HIDE DEF F
    <3>. QED BY <1>4, MinIs
  <2>2. k \in 1 .. Len(s)
    BY <2>1
  <2>3. /\ Unlink(s, k, s[k], [header EXCEPT ![s[k]].len = @ - m])
        /\ answer' = Carve(s[k], m)
        /\ free' = free \ Run(Carve(s[k], m) - KERN_BASE, m)
        /\ owned' = owned \cup Run(Carve(s[k], m) - KERN_BASE, m)
    BY <1>0, <1>4 DEF Alloc
  <2>. HIDE DEF k, m, F
  <2>4. l[k] >= m /\ s[k] \in Nat /\ l[k] \in Nat /\ header[s[k]].len = l[k]
    BY <2>1, <2>2, <1>2
  <2>5. Carve(s[k], m) = s[k] + l[k] - m
    BY <2>4 DEF Carve
  <2>6. KERN_BASE \in Nat
    BY LayoutAssumption
  <2>7. a \in Int /\ Carve(s[k], m) = a + KERN_BASE /\ Carve(s[k], m) - KERN_BASE = a
    BY <2>4, <2>5, <2>6, <1>1
  <2>8. EndOf(s, l, k, m, a)
    BY <1>1, <2>4 DEF EndOf
  <2>. HIDE DEF a
  <2>9. Granted(s, l, m, k, a)
    BY <2>3, <2>7, <2>8 DEF Granted, CutEnd
  <2>. QED BY <2>2, <2>7, <2>9 DEF m
<1>. QED BY <1>3, <1>4

\* What is handed out was free, whole pages, and leaves a list.
LEMMA GrantedStep ==
  ASSUME ListInv, NEW s, NEW l, IsList(s, l), NEW m \in Nat, NEW k \in 1 .. Len(s), NEW a \in Int,
         Granted(s, l, m, k, a), UNCHANGED <<misused, fault>>
  PROVE  /\ ListInv'
         /\ a \in 0 .. MemSize - 1 /\ a % PAGESIZE = 0
         /\ Run(a, m) \subseteq free
<1>1. EndOf(s, l, k, m, a) /\ CutEnd(s, k, m) /\ free' = free \ Run(a, m) /\ owned' = owned \cup Run(a, m)
  BY DEF Granted
<1>2. /\ IsTable(header')
      /\ a \in 0 .. MemSize - 1 /\ a % PAGESIZE = 0
      /\ Run(a, m) \subseteq Cover(s, l)
      /\ \E s2, l2 : /\ Sorted(s2, l2) /\ Linked(s2, l2, freelist', header')
                     /\ Cover(s2, l2) = Cover(s, l) \ Run(a, m)
  BY <1>1, Taken DEF IsList, ListInv
<1>3. \E s2, l2 : IsList(s2, l2)'
  BY <1>1, <1>2 DEF IsList
<1>4. Run(a, m) \subseteq free /\ Run(a, m) \subseteq 0 .. MemSize - 1
  BY <1>2 DEF IsList, Cover
<1>5. owned' \subseteq 0 .. MemSize - 1 /\ free' \cap owned' = {}
  BY <1>1, <1>4 DEF ListInv
<1>. QED BY <1>2, <1>3, <1>4, <1>5 DEF ListInv

\* An owner's page is the header of no region.
LEMMA UseStep ==
  ASSUME ListInv, NEW p \in Physical, NEW h, Use(p, h)
  PROVE  ListInv'
<1>1. PICK s, l : IsList(s, l)
  BY DEF ListInv
<1>2. p \in owned /\ header' = [header EXCEPT ![p + KERN_BASE] = h] /\ UNCHANGED <<freelist, free, owned, misused, fault>>
  BY DEF Use
<1>3. ASSUME NEW x \in 1 .. Len(s) PROVE s[x] # p + KERN_BASE
  <2>. SUFFICES ASSUME s[x] = p + KERN_BASE PROVE FALSE
    OBVIOUS
  <2>1. l[x] \in Nat /\ l[x] > 0
    BY <1>1, SortedAt DEF IsList
  <2>2. p \in Nat /\ KERN_BASE \in Nat /\ p \in 0 .. MemSize - 1
    BY LayoutAssumption DEF Physical
  <2>3. Within(s[x], l[x], p)
    BY <2>1, <2>2 DEF Within
  <2>4. p \in Cover(s, l)
    BY <2>2, <2>3 DEF Cover
  <2>. QED BY <1>1, <1>2, <2>4 DEF IsList, ListInv
<1>4. p + KERN_BASE \in Heads
  <2>1. /\ p \in Nat /\ KERN_BASE \in Nat /\ PAGESIZE \in Nat \ {0} /\ MemSize \in Nat
        /\ p < MemSize /\ p % PAGESIZE = 0 /\ KERN_BASE % PAGESIZE = 0
    BY LayoutAssumption DEF Physical
  <2>2. (p + KERN_BASE) % PAGESIZE = 0
    BY <2>1, Multiples
  <2>. QED BY <2>1, <2>2 DEF Heads, Mapped
<1>5. IsTable(header') /\ \A a \in Heads : a # p + KERN_BASE => header'[a] = header[a]
  BY <1>2, <1>4 DEF ListInv, IsTable
<1>6. ASSUME NEW x \in 1 .. Len(s) PROVE header'[s[x]] = header[s[x]]
  <2>1. s[x] \in Heads
    BY <1>1, SortedAt DEF IsList
  <2>. QED BY <2>1, <1>3, <1>5
<1>7. Linked(s, l, freelist', header')
  BY <1>1, <1>2, <1>6 DEF IsList, Linked
<1>8. IsList(s, l)'
  BY <1>1, <1>2, <1>7 DEF IsList
<1>9. \E s2, l2 : IsList(s2, l2)'
  BY <1>8
<1>. QED BY <1>2, <1>5, <1>9 DEF ListInv

\* Nothing of the list changes.
LEMMA SameStep ==
  ASSUME ListInv, UNCHANGED <<freelist, header, free, owned>>, fault' = misused'
  PROVE  ListInv'
<1>1. PICK s, l : IsList(s, l)
  BY DEF ListInv
<1>2. IsList(s, l)'
  BY <1>1 DEF IsList
<1>3. \E s2, l2 : IsList(s2, l2)'
  BY <1>2
<1>. QED BY <1>3 DEF ListInv

\* One step of every kind.
LEMMA NextList == ListInv /\ [Next]_vars => ListInv'
<1>. SUFFICES ASSUME ListInv, [Next]_vars PROVE ListInv'
  OBVIOUS
<1>1. ASSUME NEW p \in Physical, NEW n \in Lengths, p + n <= MemSize, AddMemory(p, n) PROVE ListInv'
  <2>1. /\ ~fault /\ InitRegion(p, n) /\ free' = free \cup Run(p, n) /\ UNCHANGED <<owned, misused>>
        /\ Run(p, n) \cap free = {} /\ owned' = owned \ Run(p, n)
    BY <1>1 DEF AddMemory
  <2>. QED BY <1>1, <2>1, GivenStep
<1>2. ASSUME NEW p \in Physical, NEW n \in Lengths, p + n <= MemSize, FreePhysical(p, n) PROVE ListInv'
  <2>1. /\ ~fault /\ InitRegion(p, n) /\ free' = free \cup Run(p, n) /\ owned' = owned \ Run(p, n) /\ misused' = misused
        /\ Run(p, n) \cap free = {}
    BY <1>2 DEF FreePhysical, ListInv
  <2>. QED BY <1>2, <2>1, GivenStep
<1>3. ASSUME NEW p \in Physical, NEW n \in Lengths, FreeReturned(p + KERN_BASE, n) PROVE ListInv'
  <2>1. InitRegion(p + KERN_BASE, n) /\ misused' = TRUE /\ UNCHANGED <<free, owned>>
    BY <1>3 DEF FreeReturned
  <2>2. fault' = TRUE /\ UNCHANGED <<freelist, header>>
    BY <2>1, ReturnedStep
  <2>. QED BY <2>1, <2>2, SameStep
<1>4. ASSUME NEW n \in Sizes, Alloc(n) PROVE ListInv'
  <2>1. PICK s, l : IsList(s, l)
    BY DEF ListInv
  <2>2. UNCHANGED <<misused, fault>>
    BY <1>4 DEF Alloc
  <2>3. CASE Refused(s, l, RoundUp(n))
    BY <2>2, <2>3, SameStep DEF Refused, ListInv
  <2>4. CASE \E k \in 1 .. Len(s), a \in Int : Granted(s, l, RoundUp(n), k, a)
    <3>1. PICK k \in 1 .. Len(s), a \in Int : Granted(s, l, RoundUp(n), k, a)
      BY <2>4
    <3>2. RoundUp(n) \in Nat
      BY RoundedUp
    <3>. QED BY <2>1, <2>2, <3>1, <3>2, GrantedStep
  <2>. QED BY <1>4, <2>1, <2>3, <2>4, AllocStep
<1>5. ASSUME NEW p \in Physical, NEW h \in Stray, Use(p, h) PROVE ListInv'
  BY <1>5, UseStep
<1>6. CASE UNCHANGED vars
  BY <1>6, SameStep DEF vars, ListInv
<1>. QED BY <1>1, <1>2, <1>3, <1>4, <1>5, <1>6 DEF Next

\* At any time there are regions in order, apart and inside of the memory that
\* the links lead to; they are the free memory, and no owner has any of it. No
\* order of giving, taking and writing breaks the list, which lies in the memory
\* that it describes (page_alloc.c:17-54, 72-99).
THEOREM ListInvariant == Spec => []ListInv
<1>1. Init => ListInv
  BY InitList
<1>2. ListInv /\ [Next]_vars => ListInv'
  BY NextList
<1>. QED BY <1>1, <1>2, PTL DEF Spec

\* The allocator never reads or writes where nothing is mapped, unless somebody
\* passes page_alloc_free what page_alloc returned: then it does
\* (page_alloc.c:19, 57).
THEOREM NoOtherFault == Spec => []FaultsOnReturnedOnly
<1>1. ListInv => FaultsOnReturnedOnly
  BY DEF ListInv, FaultsOnReturnedOnly
<1>. QED BY <1>1, ListInvariant, PTL

-----------------------------------------------------------------------------
(* The promise.                                                             *)

\* Free memory is not cut by the borders of regions: a run of it lies in one.
LEMMA RunInRegion ==
  ASSUME NEW s, NEW l, Sorted(s, l), NEW m \in Nat, m > 0, NEW a \in 0 .. MemSize - 1,
         Run(a, m) \subseteq Cover(s, l)
  PROVE  \E k \in 1 .. Len(s) : l[k] >= m
<1>0. KERN_BASE \in Nat /\ MemSize \in Nat /\ Len(s) \in Nat /\ a \in Nat
  BY LayoutAssumption, SortedAt
<1>1. PICK k \in 1 .. Len(s) : Within(s[k], l[k], a)
  <2>1. a \in Run(a, m)
    BY <1>0 DEF Run
  <2>. QED BY <2>1 DEF Cover
<1>. SUFFICES ASSUME ~(l[k] >= m) PROVE FALSE
  OBVIOUS
<1>2. PICK u \in Nat, v \in Nat : u = s[k] /\ v = l[k] /\ v < m /\ u <= a + KERN_BASE /\ a + KERN_BASE < u + v /\ u >= KERN_BASE
  <2>1. s[k] \in Nat /\ l[k] \in Nat /\ s[k] >= KERN_BASE
    BY SortedAt
  <2>. QED BY <2>1, <1>0, <1>1 DEF Within
<1>3. PICK x \in Nat : x + KERN_BASE = u + v
  <2>1. u + v - KERN_BASE \in Nat /\ (u + v - KERN_BASE) + KERN_BASE = u + v
    BY SMTT(30), <1>0, <1>2
  <2>. QED BY <2>1
<1>4. x \in Run(a, m)
  BY <1>0, <1>2, <1>3 DEF Run
<1>5. PICK y \in 1 .. Len(s) : Within(s[y], l[y], x)
  BY <1>4 DEF Cover
<1>6. PICK w \in Nat, z \in Nat : w = s[y] /\ z = l[y] /\ w <= u + v /\ u + v < w + z
  <2>1. s[y] \in Nat /\ l[y] \in Nat
    BY SortedAt
  <2>. QED BY <2>1, <1>3, <1>5 DEF Within
<1>7. (k < y => u + v < w) /\ (y < k => w + z < u)
  <2>1. (k < y => s[k] + l[k] < s[y]) /\ (y < k => s[y] + l[y] < s[k])
    BY DEF Sorted
  <2>. QED BY <2>1, <1>2, <1>6
<1>8. k = y => z = v /\ w = u
  BY <1>2, <1>6
<1>. QED BY <1>6, <1>7, <1>8

\* What the callers see: NULL is -1 there, and addresses are physical.
Answer == IF answer = NULL THEN -1 ELSE answer - KERN_BASE

\* There is no memory at first.
LEMMA PromiseInit == Init => Promise!Init
BY DEF Init, Promise!Init, NULL

\* Memory that is added or given back is a Give.
LEMMA PromiseGive ==
  ASSUME NEW p \in Physical, NEW n \in Lengths, Run(p, n) \cap free = {},
         free' = free \cup Run(p, n), owned' = owned \ Run(p, n), Forget
  PROVE  Promise!Next
<1>1. Promise!Run(p, n) = Run(p, n)
  BY DEF Promise!Run, Run
<1>2. Promise!Give(p, n)
  BY <1>1 DEF Promise!Give, Forget, NULL
<1>3. p \in 0 .. MemSize - 1 /\ n \in 1 .. MemSize
  BY DEF Physical, Lengths
<1>. QED BY <1>2, <1>3 DEF Promise!Next

\* A call of page_alloc is a Request: it is refused only when no free run is long
\* enough, because regions that touch were joined.
LEMMA PromiseAlloc ==
  ASSUME ListInv, NEW n \in Sizes, Alloc(n)
  PROVE  Promise!Next
<1>1. PICK s, l : IsList(s, l)
  BY DEF ListInv
<1>2. PICK m \in Nat : m = RoundUp(n) /\ m > 0 /\ m % PAGESIZE = 0 /\ n \in 1 .. MemSize /\ n <= m /\ m <= n + PAGESIZE - 1
  BY RoundedUp
<1>3. m \in n .. n + PAGESIZE - 1
  BY <1>2, LayoutAssumption
<1>4. Promise!Whole(n, m)
  BY <1>2, <1>3 DEF Promise!Whole
<1>5. \A a : Promise!Run(a, m) = Run(a, m)
  BY DEF Promise!Run, Run
<1>6. asked' = n /\ UNCHANGED <<misused, fault>>
  BY DEF Alloc
<1>7. CASE Refused(s, l, m)
  <2>1. \A a \in 0 .. MemSize - 1 : ~(Run(a, m) \subseteq free)
    <3>. SUFFICES ASSUME NEW a \in 0 .. MemSize - 1, Run(a, m) \subseteq free PROVE FALSE
      OBVIOUS
    <3>1. PICK k \in 1 .. Len(s) : l[k] >= m
      BY <1>1, <1>2, RunInRegion DEF IsList
    <3>2. l[k] \in Nat /\ l[k] < m
      BY <1>1, <1>7, SortedAt DEF IsList, Refused
    <3>. QED BY <3>1, <3>2
  <2>2. Promise!Refuse(m)
    BY <2>1, <1>5, <1>7 DEF Promise!Refuse, Refused, NULL
  <2>. QED BY <2>2, <1>2, <1>3, <1>4, <1>6 DEF Promise!Next, Promise!Request
<1>8. CASE \E k \in 1 .. Len(s), a \in Int : Granted(s, l, m, k, a)
  <2>1. PICK k \in 1 .. Len(s), a \in Int : Granted(s, l, m, k, a)
    BY <1>8
  <2>2. a \in 0 .. MemSize - 1 /\ a % PAGESIZE = 0 /\ Run(a, m) \subseteq free
    BY <1>1, <1>6, <2>1, GrantedStep
  <2>3. answer' = a + KERN_BASE /\ answer' # NULL /\ answer' - KERN_BASE = a
    BY SMTT(30), <2>1, <2>2, LayoutAssumption DEF Granted, NULL
  <2>4. Promise!Take(a, m)
    BY <2>1, <2>2, <2>3, <1>5 DEF Promise!Take, Granted
  <2>. QED BY <2>2, <2>4, <1>2, <1>3, <1>4, <1>6 DEF Promise!Next, Promise!Request
<1>. QED BY <1>1, <1>2, <1>7, <1>8, AllocStep

\* Every step of the allocator is one of the promise, or changes nothing that the
\* callers see.
LEMMA PromiseStep == ListInv /\ [Next]_vars => [Promise!Next]_(<<free, owned, asked, Answer>>)
<1>. SUFFICES ASSUME ListInv, [Next]_vars PROVE Promise!Next \/ UNCHANGED <<free, owned, asked, Answer>>
  OBVIOUS
<1>1. ASSUME NEW p \in Physical, NEW n \in Lengths, AddMemory(p, n) PROVE Promise!Next
  <2>1. Run(p, n) \cap free = {} /\ free' = free \cup Run(p, n) /\ owned' = owned \ Run(p, n) /\ Forget
    BY <1>1 DEF AddMemory
  <2>. QED BY <2>1, PromiseGive
<1>2. ASSUME NEW p \in Physical, NEW n \in Lengths, FreePhysical(p, n) PROVE Promise!Next
  <2>1. Run(p, n) \cap free = {} /\ free' = free \cup Run(p, n) /\ owned' = owned \ Run(p, n) /\ Forget
    BY <1>2 DEF FreePhysical, ListInv
  <2>. QED BY <2>1, PromiseGive
<1>3. ASSUME NEW p \in Physical, NEW n \in Lengths, FreeReturned(p + KERN_BASE, n)
      PROVE  UNCHANGED <<free, owned, asked, Answer>>
  BY <1>3 DEF FreeReturned, Answer
<1>4. ASSUME NEW n \in Sizes, Alloc(n) PROVE Promise!Next
  BY <1>4, PromiseAlloc
<1>5. ASSUME NEW p \in Physical, NEW h \in Stray, Use(p, h) PROVE UNCHANGED <<free, owned, asked, Answer>>
  BY <1>5 DEF Use, Answer
<1>6. CASE UNCHANGED vars
  BY <1>6 DEF vars, Answer
<1>. QED BY <1>1, <1>2, <1>3, <1>4, <1>5, <1>6 DEF Next

\* The allocator keeps the promise of FreeRuns: whatever order memory came in, was
\* cut up and came back, page_alloc hands out a free run of whole pages, and
\* refuses only when there is none (page_alloc.c:32-45, 85-94).
THEOREM KeepsPromise == Spec => GivesRuns
<1>1. Init => Promise!Init
  BY PromiseInit
<1>2. ListInv /\ [Next]_vars => [Promise!Next]_(<<free, owned, asked, Answer>>)
  BY PromiseStep
<1>. QED BY <1>1, <1>2, ListInvariant, PTL DEF Spec, GivesRuns, Promise!Spec, Answer

-----------------------------------------------------------------------------
(* The list as page_alloc.c's other functions see it.                       *)

\* The memory of the regions t of the list.
Memory(s, l, t) == {x \in 0 .. MemSize - 1 : \E i \in t : Within(s[i], l[i], x)}

\* One region's memory is counted with that of others.
LEMMA MemoryWith ==
  ASSUME NEW s, NEW l, Sorted(s, l), NEW t \in SUBSET (1 .. Len(s)), NEW k \in t
  PROVE  /\ Cardinality(Memory(s, l, t)) = l[k] + Cardinality(Memory(s, l, t \ {k}))
         /\ Cardinality(Memory(s, l, t \ {k})) \in Nat
<1>0. KERN_BASE \in Nat /\ MemSize \in Nat /\ Len(s) \in Nat /\ Top = KERN_BASE + MemSize
  BY LayoutAssumption, SortedAt DEF Top
<1>1. PICK u \in Nat, v \in Nat : u = s[k] /\ v = l[k] /\ v > 0 /\ u >= KERN_BASE /\ u + v <= Top
  <2>1. s[k] \in Nat /\ l[k] \in Nat /\ l[k] > 0 /\ s[k] >= KERN_BASE /\ s[k] + l[k] <= Top
    BY SortedAt
  <2>. QED BY <2>1
<1>2. PICK a \in Nat : u = a + KERN_BASE /\ a + v <= MemSize
  <2>1. u - KERN_BASE \in Nat /\ u = (u - KERN_BASE) + KERN_BASE /\ (u - KERN_BASE) + v <= MemSize
    BY <1>0, <1>1
  <2>. QED BY <2>1
<1> DEFINE A == Run(a, v)
           B == Memory(s, l, t \ {k})
<1>3. A \subseteq 0 .. MemSize - 1 /\ \A x \in 0 .. MemSize - 1 : x \in A <=> Within(s[k], l[k], x)
  <2>1. A \subseteq 0 .. MemSize - 1
    BY <1>0, <1>2 DEF Run
  <2>2. ASSUME NEW x \in 0 .. MemSize - 1 PROVE x \in A <=> Within(u, v, x)
    BY <1>0, <1>2 DEF Run, Within
  <2>. QED BY <2>1, <2>2, <1>1
<1>4. Memory(s, l, t) = A \cup B
  BY <1>3 DEF Memory
<1>5. A \cap B = {}
  <2>. SUFFICES ASSUME NEW x \in A, x \in B PROVE FALSE
    OBVIOUS
  <2>1. x \in 0 .. MemSize - 1 /\ Within(s[k], l[k], x)
    BY <1>3
  <2>2. PICK i \in t \ {k} : Within(s[i], l[i], x)
    BY DEF Memory
  <2>. QED BY <2>1, <2>2, Apart
<1>6. IsFiniteSet(A) /\ Cardinality(A) = v
  <2>1. a \in Int /\ a + v - 1 \in Int /\ ~(a > a + v - 1) /\ (a + v - 1) - a + 1 = v
    BY <1>1
  <2>. QED BY <2>1, FS_Interval DEF Run
<1>7. IsFiniteSet(B) /\ Cardinality(B) \in Nat
  <2>1. IsFiniteSet(0 .. MemSize - 1)
    BY <1>0, FS_Interval
  <2>2. B \in SUBSET (0 .. MemSize - 1)
    BY DEF Memory
  <2>3. IsFiniteSet(B)
    BY <2>1, <2>2, FS_Subset
  <2>. QED BY <2>3, FS_CardinalityType
<1>. HIDE DEF A, B
<1>8. Cardinality(A \cup B) = Cardinality(A) + Cardinality(B)
  <2>1. Cardinality(A \cup B) = Cardinality(A) + Cardinality(B) - Cardinality(A \cap B)
    BY <1>6, <1>7, FS_Union
  <2>2. Cardinality(A \cap B) = 0
    BY <1>5, FS_EmptySet
  <2>. QED BY <2>1, <2>2, <1>6, <1>7
<1>. QED BY <1>1, <1>4, <1>6, <1>7, <1>8 DEF B

\* The pages of a region, and the recursive function of CountFreePages: the pages
\* of a set of regions.
Pages(k) == header[Regions[k]].len \div PAGESIZE
IsCount(g) ==
  g = [t \in SUBSET (1 .. Len(Regions)) |->
         IF t = {} THEN 0
         ELSE LET k == CHOOSE i \in t : TRUE IN Pages(k) + g[t \ {k}]]

\* Where there is such a function, the count is the value of one.
LEMMA CountIs ==
  ASSUME NEW f, IsCount(f)
  PROVE  \E g : IsCount(g) /\ CountFreePages = g[1 .. Len(Regions)]
BY Zenon DEF IsCount, Pages, CountFreePages, MapThenSumSet, MapThenFoldSet

\* A region's pages are a quotient without a rest, and go into a sum.
LEMMA PageCount ==
  ASSUME NEW v \in Nat, v % PAGESIZE = 0, NEW c \in Nat, c % PAGESIZE = 0
  PROVE  /\ v \div PAGESIZE \in Nat /\ (v \div PAGESIZE) * PAGESIZE = v
         /\ (v + c) % PAGESIZE = 0
         /\ (v + c) \div PAGESIZE = v \div PAGESIZE + c \div PAGESIZE
<1>0. PAGESIZE \in Nat \ {0}
  BY LayoutAssumption
<1>1. PICK d \in Nat : d = v \div PAGESIZE /\ v = PAGESIZE * d
  <2>1. v \div PAGESIZE \in Nat /\ v = PAGESIZE * (v \div PAGESIZE) + (v % PAGESIZE)
    BY <1>0, Div
  <2>. QED BY <2>1, <1>0
<1>2. PICK e \in Nat : e = c \div PAGESIZE /\ c = PAGESIZE * e
  <2>1. c \div PAGESIZE \in Nat /\ c = PAGESIZE * (c \div PAGESIZE) + (c % PAGESIZE)
    BY <1>0, Div
  <2>. QED BY <2>1, <1>0
<1>3. PICK x \in Nat : x = v + c
  OBVIOUS
<1>4. x % PAGESIZE = 0
  BY <1>0, <1>3, Multiples
<1>5. PICK f \in Nat : f = x \div PAGESIZE /\ x = PAGESIZE * f
  <2>1. x \div PAGESIZE \in Nat /\ x = PAGESIZE * (x \div PAGESIZE) + (x % PAGESIZE)
    BY <1>0, Div
  <2>. QED BY <2>1, <1>0, <1>4
<1>6. PAGESIZE * f = PAGESIZE * (d + e)
  BY <1>0, <1>1, <1>2, <1>3, <1>5
<1>7. f = d + e
  <2>1. CASE f > d + e
    <3>1. PICK y \in Nat : f = (d + e) + (y + 1)
      <4>1. f - (d + e) - 1 \in Nat /\ f = (d + e) + ((f - (d + e) - 1) + 1)
        BY <2>1
      <4>. QED BY <4>1
    <3>2. PAGESIZE * f = PAGESIZE * (d + e) + (PAGESIZE * y + PAGESIZE) /\ PAGESIZE * y >= 0
      BY <3>1, <1>0
    <3>. QED BY <3>2, <1>6, <1>0
  <2>2. CASE d + e > f
    <3>1. PICK y \in Nat : d + e = f + (y + 1)
      <4>1. (d + e) - f - 1 \in Nat /\ d + e = f + (((d + e) - f - 1) + 1)
        BY <2>2
      <4>. QED BY <4>1
    <3>2. PAGESIZE * (d + e) = PAGESIZE * f + (PAGESIZE * y + PAGESIZE) /\ PAGESIZE * y >= 0
      BY <3>1, <1>0
    <3>. QED BY <3>2, <1>6, <1>0
  <2>. QED BY <2>1, <2>2
<1>8. (v \div PAGESIZE) * PAGESIZE = v
  BY <1>0, <1>1
<1>. QED BY <1>1, <1>2, <1>3, <1>4, <1>5, <1>7, <1>8

\* What the regions t of a list have together.
Amount(s, l, t) == Cardinality(Memory(s, l, t))

\* A set of regions has a finite number of elements, and what it has is a
\* number; no region has nothing.
LEMMA AmountIs ==
  ASSUME NEW s, NEW l, Sorted(s, l), NEW t \in SUBSET (1 .. Len(s))
  PROVE  /\ IsFiniteSet(t) /\ Cardinality(t) \in Nat
         /\ Amount(s, l, t) \in Nat
         /\ t = {} => Amount(s, l, t) = 0
<1>0. Len(s) \in Nat /\ MemSize \in Nat
  BY LayoutAssumption, SortedAt
<1>1. IsFiniteSet(t)
  <2>1. IsFiniteSet(1 .. Len(s))
    BY <1>0, FS_Interval
  <2>. QED BY <2>1, FS_Subset
<1>2. IsFiniteSet(Memory(s, l, t))
  <2>1. IsFiniteSet(0 .. MemSize - 1)
    BY <1>0, FS_Interval
  <2>2. Memory(s, l, t) \in SUBSET (0 .. MemSize - 1)
    BY DEF Memory
  <2>. QED BY <2>1, <2>2, FS_Subset
<1>3. t = {} => Memory(s, l, t) = {}
  BY DEF Memory
<1>. QED BY <1>1, <1>2, <1>3, FS_CardinalityType, FS_EmptySet DEF Amount

\* The regions of any set have whole pages: a smallest set that had not would
\* have a region, and not be the smallest.
LEMMA WholePages ==
  ASSUME NEW s, NEW l, Sorted(s, l)
  PROVE  \A t \in SUBSET (1 .. Len(s)) : Amount(s, l, t) % PAGESIZE = 0
<1>. SUFFICES ASSUME NEW t0 \in SUBSET (1 .. Len(s)), Amount(s, l, t0) % PAGESIZE # 0 PROVE FALSE
  OBVIOUS
<1> DEFINE Bad == {t \in SUBSET (1 .. Len(s)) : Amount(s, l, t) % PAGESIZE # 0}
           T   == {Cardinality(t) : t \in Bad}
<1>1. PICK t \in Bad : \A u \in Bad : Cardinality(t) <= Cardinality(u)
  <2>1. T \subseteq Nat /\ T # {}
    BY AmountIs
  <2>2. PICK n \in T : \A m \in T : n <= m
    BY <2>1, Least
  <2>. QED BY <2>2
<1>2. t # {}
  <2>1. 0 % PAGESIZE = 0
    BY LayoutAssumption
  <2>. QED BY <2>1, AmountIs
<1>3. PICK k \in t : TRUE
  BY <1>2
<1>4. t \ {k} \notin Bad
  <2>1. Cardinality(t \ {k}) = Cardinality(t) - 1 /\ Cardinality(t) \in Nat
    BY AmountIs, FS_RemoveElement
  <2>2. ~(Cardinality(t) <= Cardinality(t \ {k}))
    BY <2>1
  <2>. QED BY <2>2, <1>1
<1>5. k \in 1 .. Len(s) /\ t \ {k} \in SUBSET (1 .. Len(s))
  OBVIOUS
<1>6. Amount(s, l, t \ {k}) % PAGESIZE = 0 /\ Amount(s, l, t \ {k}) \in Nat
  BY <1>4, <1>5, AmountIs
<1>7. l[k] \in Nat /\ l[k] % PAGESIZE = 0
  <2>1. l[k] \in Lengths /\ l[k] \in Nat
    BY <1>5, SortedAt
  <2>. QED BY <2>1 DEF Lengths
<1>8. Amount(s, l, t) = l[k] + Amount(s, l, t \ {k})
  BY MemoryWith DEF Amount
<1>9. Amount(s, l, t) % PAGESIZE = 0
  BY <1>6, <1>7, <1>8, PageCount
<1>. QED BY <1>9

\* The pages of what the regions of a set have together.
Sums(s, l) == [t \in SUBSET (1 .. Len(s)) |-> Amount(s, l, t) \div PAGESIZE]

\* They are such a function.
LEMMA SumsCount ==
  ASSUME NEW s, NEW l, IsList(s, l)
  PROVE  IsCount(Sums(s, l))
<1>1. Sorted(s, l) /\ Regions = s
  BY RegionsAre DEF IsList
<1>2. ASSUME NEW t \in SUBSET (1 .. Len(s)), t # {}, NEW k \in t
      PROVE  Amount(s, l, t) \div PAGESIZE = Pages(k) + Amount(s, l, t \ {k}) \div PAGESIZE
  <2>1. k \in 1 .. Len(s) /\ t \ {k} \in SUBSET (1 .. Len(s))
    OBVIOUS
  <2>2. Amount(s, l, t \ {k}) % PAGESIZE = 0 /\ Amount(s, l, t \ {k}) \in Nat
    BY <1>1, <2>1, AmountIs, WholePages
  <2>3. l[k] \in Nat /\ l[k] % PAGESIZE = 0
    <3>1. l[k] \in Lengths /\ l[k] \in Nat
      BY <1>1, <2>1, SortedAt
    <3>. QED BY <3>1 DEF Lengths
  <2>4. Amount(s, l, t) = l[k] + Amount(s, l, t \ {k})
    BY <1>1, MemoryWith DEF Amount
  <2>5. Pages(k) = l[k] \div PAGESIZE
    <3>1. header[s[k]] = [next |-> After(s, k), len |-> l[k]]
      BY <2>1 DEF IsList, Linked
    <3>2. header[Regions[k]].len = l[k]
      BY <3>1, <1>1
    <3>. QED BY <3>2 DEF Pages
  <2>. QED BY <2>2, <2>3, <2>4, <2>5, PageCount
<1>3. Amount(s, l, {}) \div PAGESIZE = 0
  <2>1. Amount(s, l, {}) = 0
    BY <1>1, AmountIs
  <2>2. 0 \div PAGESIZE = 0
    BY LayoutAssumption
  <2>. QED BY <2>1, <2>2
<1> DEFINE g == Sums(s, l)
           Next1(t) == IF t = {} THEN 0
                       ELSE LET k == CHOOSE i \in t : TRUE IN Pages(k) + g[t \ {k}]
<1>4. ASSUME NEW t \in SUBSET (1 .. Len(s)) PROVE g[t] = Next1(t)
  <2>1. g[t] = Amount(s, l, t) \div PAGESIZE
    BY DEF Sums
  <2>2. CASE t = {}
    BY <2>1, <2>2, <1>3
  <2>3. CASE t # {}
    <3>1. PICK k \in t : k = CHOOSE i \in t : TRUE
      BY <2>3
    <3>2. g[t \ {k}] = Amount(s, l, t \ {k}) \div PAGESIZE
      BY DEF Sums
    <3>3. g[t] = Pages(k) + g[t \ {k}]
      BY <1>2, <2>1, <2>3, <3>2
    <3>. HIDE DEF g
    <3>. QED BY <2>3, <3>1, <3>3
  <2>. QED BY <2>2, <2>3
<1>5. g = [t \in SUBSET (1 .. Len(s)) |-> g[t]]
  BY DEF Sums
<1>. HIDE DEF g
<1>6. g = [t \in SUBSET (1 .. Len(s)) |-> Next1(t)]
  BY <1>4, <1>5
<1>7. IsCount(g)
  BY <1>1, <1>6 DEF IsCount
<1>. QED BY <1>7 DEF g

\* Every function that counts counts the same.
LEMMA CountOnce ==
  ASSUME NEW s, NEW l, IsList(s, l), NEW f, IsCount(f), NEW g, IsCount(g)
  PROVE  \A t \in SUBSET (1 .. Len(s)) : f[t] = g[t]
<1>1. Sorted(s, l) /\ Regions = s
  BY RegionsAre DEF IsList
<1>2. ASSUME NEW h, IsCount(h), NEW t \in SUBSET (1 .. Len(s))
      PROVE  h[t] = IF t = {} THEN 0
                    ELSE LET k == CHOOSE i \in t : TRUE IN Pages(k) + h[t \ {k}]
  BY Zenon, <1>1, <1>2 DEF IsCount
<1>. SUFFICES ASSUME NEW t0 \in SUBSET (1 .. Len(s)), f[t0] # g[t0] PROVE FALSE
  OBVIOUS
<1> DEFINE Bad == {t \in SUBSET (1 .. Len(s)) : f[t] # g[t]}
           T   == {Cardinality(t) : t \in Bad}
<1>3. PICK t \in Bad : \A u \in Bad : Cardinality(t) <= Cardinality(u)
  <2>1. T \subseteq Nat /\ T # {}
    BY <1>1, AmountIs
  <2>2. PICK n \in T : \A m \in T : n <= m
    BY <2>1, Least
  <2>. QED BY <2>2
<1>4. t \in SUBSET (1 .. Len(s)) /\ f[t] # g[t]
  OBVIOUS
<1>5. t # {}
  BY <1>2, <1>4
<1>6. PICK k \in t : k = CHOOSE i \in t : TRUE
  BY <1>5
<1>7. t \ {k} \notin Bad
  <2>1. Cardinality(t \ {k}) = Cardinality(t) - 1 /\ Cardinality(t) \in Nat
    BY <1>1, AmountIs, FS_RemoveElement
  <2>2. ~(Cardinality(t) <= Cardinality(t \ {k}))
    BY <2>1
  <2>. QED BY <2>2, <1>3
<1>8. f[t \ {k}] = g[t \ {k}]
  BY <1>7
<1>9. f[t] = Pages(k) + f[t \ {k}] /\ g[t] = Pages(k) + g[t \ {k}]
  BY <1>2, <1>4, <1>5, <1>6, ZenonT(60)
<1>. QED BY <1>4, <1>8, <1>9

\* page_alloc_count_free_pages counts the free memory.
LEMMA CountIsFree ==
  ASSUME NEW s, NEW l, IsList(s, l)
  PROVE  CountFreePages * PAGESIZE = Cardinality(free)
<1>1. Sorted(s, l) /\ Regions = s /\ free = Cover(s, l)
  BY RegionsAre DEF IsList
<1> DEFINE S == 1 .. Len(s)
<1>2. free = Memory(s, l, S)
  BY <1>1 DEF Cover, Memory
<1>3. PICK g : IsCount(g) /\ CountFreePages = g[S]
  BY <1>1, SumsCount, CountIs
<1>4. g[S] = Sums(s, l)[S]
  BY <1>3, SumsCount, CountOnce
<1>5. Sums(s, l)[S] = Amount(s, l, S) \div PAGESIZE
  BY DEF Sums
<1>6. Amount(s, l, S) \in Nat /\ Amount(s, l, S) % PAGESIZE = 0
  BY <1>1, AmountIs, WholePages
<1>7. (Amount(s, l, S) \div PAGESIZE) * PAGESIZE = Amount(s, l, S)
  <2>1. 0 \in Nat /\ 0 % PAGESIZE = 0
    BY LayoutAssumption
  <2>. QED BY <1>6, <2>1, PageCount
<1>8. Cardinality(free) = Amount(s, l, S)
  BY <1>2 DEF Amount
<1>. QED BY <1>3, <1>4, <1>5, <1>7, <1>8

\* The list of the invariant is sound.
LEMMA ListIsSound == ListInv => ListSound
<1>. SUFFICES ASSUME ListInv PROVE ListSound
  OBVIOUS
<1>1. PICK s, l : IsList(s, l)
  BY DEF ListInv
<1>2. Sorted(s, l) /\ Regions = s /\ free = Cover(s, l)
  BY <1>1, RegionsAre DEF IsList
<1>3. s \in Seq(Heads) /\ Len(s) \in Nat /\ DOMAIN s = 1 .. Len(s)
  BY <1>2, SortedAt, LenProperties
<1>4. ASSUME NEW k \in 1 .. Len(s)
      PROVE  header[s[k]].len = l[k]
  <2>1. header[s[k]] = [next |-> After(s, k), len |-> l[k]]
    BY <1>1 DEF IsList, Linked
  <2>. QED BY <2>1
<1>5. ASSUME NEW k \in 1 .. Len(s)
      PROVE  header[s[k]].len > 0 /\ (k < Len(s) => End(s[k]) < s[k + 1])
  <2>1. l[k] > 0
    BY <1>2, SortedAt
  <2>2. ASSUME k < Len(s) PROVE s[k] + l[k] < s[k + 1]
    <3>1. k + 1 \in 1 .. Len(s) /\ k < k + 1
      BY <2>2, <1>3
    <3>. QED BY <3>1, <1>2 DEF Sorted
  <2>. QED BY <2>1, <2>2, <1>4 DEF End
<1>6. ASSUME NEW k \in 1 .. Len(s), NEW x
      PROVE  x \in Run(s[k] - KERN_BASE, header[s[k]].len) <=> x \in 0 .. MemSize - 1 /\ Within(s[k], l[k], x)
  <2>1. PICK u \in Nat, v \in Nat : u = s[k] /\ v = l[k] /\ u >= KERN_BASE /\ u + v <= Top
    <3>1. s[k] \in Nat /\ l[k] \in Nat /\ s[k] >= KERN_BASE /\ s[k] + l[k] <= Top
      BY <1>2, SortedAt
    <3>. QED BY <3>1
  <2>2. x \in Run(u - KERN_BASE, v) <=> x \in 0 .. MemSize - 1 /\ Within(u, v, x)
    <3>1. KERN_BASE \in Nat /\ MemSize \in Nat /\ Top = KERN_BASE + MemSize
      BY LayoutAssumption DEF Top
    <3>2. PICK a \in Nat : a = u - KERN_BASE /\ u = a + KERN_BASE /\ a + v <= MemSize
      <4>1. u - KERN_BASE \in Nat /\ u = (u - KERN_BASE) + KERN_BASE /\ (u - KERN_BASE) + v <= MemSize
        BY SMTT(30), <2>1, <3>1
      <4>. QED BY <4>1
    <3>3. x \in a .. a + v - 1 <=> x \in 0 .. MemSize - 1 /\ a <= x /\ x < a + v
      BY <3>1, <3>2
    <3>4. ASSUME NEW y \in 0 .. MemSize - 1 PROVE a <= y /\ y < a + v <=> Within(a + KERN_BASE, v, y)
      BY <3>1 DEF Within
    <3>. QED BY <3>2, <3>3, <3>4 DEF Run
  <2>. QED BY <2>1, <2>2, <1>4
<1>7. UNION {Run(r - KERN_BASE, header[r].len) : r \in Range(s)} = Cover(s, l)
  <2>1. Range(s) = {s[k] : k \in 1 .. Len(s)}
    BY <1>3 DEF Range
  <2>2. UNION {Run(r - KERN_BASE, header[r].len) : r \in Range(s)}
          = UNION {Run(s[k] - KERN_BASE, header[s[k]].len) : k \in 1 .. Len(s)}
    BY <2>1
  <2>3. ASSUME NEW x
        PROVE  x \in UNION {Run(s[k] - KERN_BASE, header[s[k]].len) : k \in 1 .. Len(s)}
                 <=> \E k \in 1 .. Len(s) : x \in Run(s[k] - KERN_BASE, header[s[k]].len)
    OBVIOUS
  <2>. QED BY <2>2, <2>3, <1>6 DEF Cover
<1>8. free \cap owned = {} /\ CountFreePages * PAGESIZE = Cardinality(free)
  BY <1>1, CountIsFree DEF ListInv
<1>. QED BY <1>2, <1>5, <1>7, <1>8 DEF ListSound

\* What the code relies on when it walks the list, at any time: regions are not
\* empty, go up and never touch, they are the free memory and owners have none of
\* it, and page_alloc_count_free_pages counts it (page_alloc.c:17-54, 60-70).
THEOREM ListStaysSound == Spec => []ListSound
BY ListInvariant, ListIsSound, PTL

=============================================================================
