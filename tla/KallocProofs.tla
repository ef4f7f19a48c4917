---------------------------- MODULE KallocProofs ----------------------------
(***************************************************************************)
(* Proofs about Kalloc, for any set of pages and anything their owners     *)
(* write into them.                                                        *)
(***************************************************************************)
EXTENDS Kalloc, TLAPS, SequenceTheorems

\* The free pages after one more is put in front.
LEMMA ConsMembers ==
  ASSUME NEW S, NEW s \in Seq(S), NEW v \in S
  PROVE  /\ <<v>> \o s \in Seq(S)
         /\ Len(<<v>> \o s) = Len(s) + 1
         /\ (<<v>> \o s)[1] = v
         /\ \A i \in 1..Len(s) : (<<v>> \o s)[i + 1] = s[i]
         /\ \A i \in 2..Len(s) + 1 : (<<v>> \o s)[i] = s[i - 1]
         /\ Members(<<v>> \o s) = Members(s) \cup {v}
<1> DEFINE c == <<v>> \o s
<1>1. /\ c \in Seq(S)
      /\ Len(c) = Len(s) + 1
      /\ c[1] = v
      /\ \A i \in 1..Len(s) : c[i + 1] = s[i]
      /\ \A i \in 2..Len(s) + 1 : c[i] = s[i - 1]
  OBVIOUS
<1>2. Members(c) \subseteq Members(s) \cup {v}
  <2>1. SUFFICES ASSUME NEW i \in 1..Len(c)
                 PROVE  c[i] \in Members(s) \cup {v}
    BY DEF Members
  <2>2. CASE i = 1
    BY <1>1, <2>2
  <2>3. CASE i # 1
    <3>1. i \in 2..Len(s) + 1 /\ i - 1 \in 1..Len(s)
      BY <1>1, <2>3
    <3>2. QED
      BY <1>1, <3>1 DEF Members
  <2>4. QED
    BY <2>2, <2>3
<1>3. Members(s) \cup {v} \subseteq Members(c)
  <2>1. v \in Members(c)
    <3>1. 1 \in 1..Len(c)
      BY <1>1
    <3>2. QED
      BY <1>1, <3>1 DEF Members
  <2>2. ASSUME NEW i \in 1..Len(s)
        PROVE  s[i] \in Members(c)
    <3>1. i + 1 \in 1..Len(c)
      BY <1>1
    <3>2. QED
      BY <1>1, <3>1 DEF Members
  <2>3. QED
    BY <2>1, <2>2 DEF Members
<1>4. QED
  BY <1>1, <1>2, <1>3

\* The free pages after the first is taken away.
LEMMA TailMembers ==
  ASSUME NEW S, NEW s \in Seq(S), s # <<>>,
         \A i, j \in 1..Len(s) : s[i] = s[j] => i = j
  PROVE  /\ Tail(s) \in Seq(S)
         /\ Len(Tail(s)) = Len(s) - 1
         /\ \A i \in 1..Len(s) - 1 : Tail(s)[i] = s[i + 1]
         /\ s[1] \in Members(s)
         /\ Members(Tail(s)) = Members(s) \ {s[1]}
<1> DEFINE t == Tail(s)
<1>1. /\ t \in Seq(S)
      /\ Len(t) = Len(s) - 1
      /\ \A i \in 1..Len(s) - 1 : t[i] = s[i + 1]
      /\ 1 \in 1..Len(s)
  OBVIOUS
<1>2. s[1] \in Members(s)
  BY <1>1 DEF Members
<1>3. Members(t) \subseteq Members(s) \ {s[1]}
  <2>1. SUFFICES ASSUME NEW i \in 1..Len(t)
                 PROVE  t[i] \in Members(s) \ {s[1]}
    BY DEF Members
  <2>2. i + 1 \in 1..Len(s) /\ i + 1 # 1 /\ t[i] = s[i + 1]
    BY <1>1
  <2>3. QED
    BY <1>1, <2>2 DEF Members
<1>4. Members(s) \ {s[1]} \subseteq Members(t)
  <2>1. SUFFICES ASSUME NEW i \in 1..Len(s), s[i] # s[1]
                 PROVE  s[i] \in Members(t)
    BY DEF Members
  <2>2. i - 1 \in 1..Len(t) /\ t[i - 1] = s[i]
    <3>1. i # 1
      BY <2>1
    <3>2. i - 1 \in 1..Len(s) - 1 /\ (i - 1) + 1 = i
      BY <3>1
    <3>3. QED
      BY <1>1, <3>2
  <2>3. QED
    BY <2>2 DEF Members
<1>5. QED
  BY <1>1, <1>2, <1>3, <1>4

-----------------------------------------------------------------------------
\* The inductive invariant: a kalloc gives freelist what a page holds, so that
\* freelist is a pointer only because the list is sound.
KInv == TypeOK /\ ListSound

LEMMA InitKInv == Init => KInv
<1>1. SUFFICES ASSUME Init
               PROVE  KInv
  OBVIOUS
<1>2. chain = <<>> /\ Len(chain) = 0 /\ 1..Len(chain) = {}
  BY <1>1 DEF Init
<1>3. Members(chain) = {}
  BY <1>2 DEF Members
<1>4. TypeOK
  <2>1. <<>> \in Seq(Page)
    OBVIOUS
  <2>2. QED
    BY <1>1, <2>1 DEF Init, TypeOK, Pointer
<1>5. ListSound
  BY <1>1, <1>2, <1>3 DEF Init, ListSound
<1>6. QED
  BY <1>4, <1>5 DEF KInv

\* The list is NULL exactly when no page is free.
LEMMA EmptyChain ==
  ASSUME KInv
  PROVE  /\ freelist = NULL <=> chain = <<>>
         /\ chain # <<>> => chain[1] \in Page /\ freelist = chain[1]
         /\ Members(chain) = {} <=> chain = <<>>
<1>1. chain \in Seq(Page) /\ (chain # <<>> => 1 \in 1..Len(chain))
  BY DEF KInv, TypeOK
<1>2. chain # <<>> => chain[1] \in Page /\ freelist = chain[1]
  BY <1>1 DEF KInv, ListSound
<1>3. chain = <<>> => freelist = NULL /\ Members(chain) = {}
  BY DEF KInv, ListSound, Members
<1>4. chain # <<>> => chain[1] \in Members(chain)
  BY <1>1 DEF Members
<1>5. QED
  BY <1>2, <1>3, <1>4, PageAssumption

\* A page that is not on the list goes to its head.
LEMMA KfreeStep ==
  ASSUME KInv, NEW v \in Page \ Members(chain), Kfree(v)
  PROVE  KInv' /\ Pool!Give(v)
<1> DEFINE c == <<v>> \o chain
<1>1. /\ ~halted /\ halted' = halted
      /\ next' = [next EXCEPT ![v] = freelist]
      /\ freelist' = v
      /\ used' = used \ {v}
      /\ chain' = c
  BY DEF Kfree
<1>2. /\ chain \in Seq(Page)
      /\ next \in [Page -> Word]
      /\ freelist \in Pointer
      /\ used \in SUBSET Page
  BY DEF KInv, TypeOK
<1>3. /\ c \in Seq(Page)
      /\ Len(c) = Len(chain) + 1
      /\ c[1] = v
      /\ \A i \in 2..Len(chain) + 1 : c[i] = chain[i - 1]
      /\ Members(c) = Members(chain) \cup {v}
  BY <1>2, ConsMembers
<1>4. TypeOK'
  BY <1>1, <1>2, <1>3 DEF TypeOK, KInv, Pointer, Word
<1>5. \A i \in 1..Len(chain) : chain[i] \in Page /\ chain[i] # v
  BY <1>2 DEF Members
<1>6. ListSound'
  <2>1. freelist' = IF c = <<>> THEN NULL ELSE c[1]
    BY <1>1, <1>3
  <2>2. ASSUME NEW i \in 1..Len(c)
        PROVE  next'[c[i]] = IF i = Len(c) THEN NULL ELSE c[i + 1]
    <3>1. CASE i = 1
      <4>1. next'[c[i]] = freelist
        BY <1>1, <1>2, <1>3, <3>1
      <4>2. CASE chain = <<>>
        BY <4>1, <4>2, <1>3, <3>1 DEF KInv, ListSound
      <4>3. CASE chain # <<>>
        <5>1. Len(chain) > 0 /\ c[2] = chain[1]
          BY <4>3, <1>2, <1>3
        <5>2. QED
          BY <4>1, <4>3, <5>1, <1>2, <1>3, <3>1 DEF KInv, ListSound
      <4>4. QED
        BY <4>2, <4>3
    <3>2. CASE i # 1
      <4> DEFINE j == i - 1
      <4>1. j \in 1..Len(chain) /\ i \in 2..Len(chain) + 1
        BY <1>2, <1>3, <3>2
      <4>2. c[i] = chain[j] /\ chain[j] \in Page /\ chain[j] # v
        BY <4>1, <1>3, <1>5
      <4>3. next'[c[i]] = IF j = Len(chain) THEN NULL ELSE chain[j + 1]
        BY <4>1, <4>2, <1>1, <1>2 DEF KInv, ListSound
      <4>4. i # Len(c) => c[i + 1] = chain[j + 1]
        <5>1. i # Len(c) => i + 1 \in 2..Len(chain) + 1 /\ (i + 1) - 1 = j + 1
          BY <4>1, <1>2, <1>3
        <5>2. QED
          BY <5>1, <1>3
      <4>5. i = Len(c) <=> j = Len(chain)
        BY <4>1, <1>2, <1>3
      <4>6. QED
        BY <4>3, <4>4, <4>5
    <3>3. QED
      BY <3>1, <3>2
  <2>3. ASSUME NEW i \in 1..Len(c), NEW j \in 1..Len(c), c[i] = c[j]
        PROVE  i = j
    <3>1. ASSUME NEW k \in 1..Len(c), k # 1
          PROVE  k - 1 \in 1..Len(chain) /\ c[k] = chain[k - 1] /\ c[k] # v
      <4>1. k - 1 \in 1..Len(chain) /\ k \in 2..Len(chain) + 1
        BY <3>1, <1>2, <1>3
      <4>2. QED
        BY <4>1, <1>3, <1>5
    <3>2. CASE i = 1 \/ j = 1
      BY <3>1, <3>2, <2>3, <1>3
    <3>3. CASE i # 1 /\ j # 1
      <4>1. chain[i - 1] = chain[j - 1]
        BY <3>1, <3>3, <2>3
      <4>2. i - 1 = j - 1
        BY <4>1, <3>1, <3>3 DEF KInv, ListSound
      <4>3. QED
        BY <4>2
    <3>4. QED
      BY <3>2, <3>3
  <2>4. Members(c) \cap used' = {}
    BY <1>1, <1>3 DEF KInv, ListSound
  <2>5. QED
    BY <1>1, <2>1, <2>2, <2>3, <2>4 DEF ListSound
<1>7. Pool!Give(v)
  BY <1>1, <1>3 DEF Pool!Give
<1>8. QED
  BY <1>4, <1>6, <1>7 DEF KInv

\* The head of the list gets an owner, and the list loses nothing else.
LEMMA KallocStep ==
  ASSUME KInv, NEW r \in Page, Kalloc(r)
  PROVE  KInv' /\ Pool!Take(r)
<1> DEFINE t == Tail(chain)
<1>1. /\ ~halted /\ UNCHANGED <<next, halted>>
      /\ freelist = r /\ freelist' = next[r]
      /\ used' = used \cup {r}
      /\ chain' = t
  BY DEF Kalloc
<1>2. /\ chain \in Seq(Page)
      /\ \A i, j \in 1..Len(chain) : chain[i] = chain[j] => i = j
      /\ \A i \in 1..Len(chain) :
           next[chain[i]] = IF i = Len(chain) THEN NULL ELSE chain[i + 1]
      /\ Members(chain) \cap used = {}
  BY DEF KInv, TypeOK, ListSound
<1>3. chain # <<>> /\ chain[1] = r
  BY <1>1, EmptyChain, PageAssumption
<1>4. /\ t \in Seq(Page)
      /\ Len(t) = Len(chain) - 1
      /\ \A i \in 1..Len(chain) - 1 : t[i] = chain[i + 1]
      /\ r \in Members(chain)
      /\ Members(t) = Members(chain) \ {r}
  BY <1>2, <1>3, TailMembers
<1> HIDE DEF t
<1>5. Len(chain) \in Nat /\ Len(chain) > 0 /\ 1 \in 1..Len(chain)
  BY <1>2, <1>3
<1>6. freelist' = IF t = <<>> THEN NULL ELSE t[1]
  <2>1. CASE Len(chain) = 1
    BY <2>1, <1>1, <1>2, <1>3, <1>4, <1>5
  <2>2. CASE Len(chain) # 1
    <3>1. Len(chain) - 1 > 0 /\ 1 \in 1..Len(chain) - 1 /\ 1 + 1 = 2
      <4>1. PICK n \in Nat : n = Len(chain)
        BY <1>5
      <4>2. n > 0 /\ n # 1
        BY <4>1, <2>2, <1>5
      <4>3. n - 1 > 0 /\ 1 \in 1..n - 1 /\ 1 + 1 = 2
        BY <4>2
      <4>4. QED
        BY <4>1, <4>3
    <3>2. Len(t) > 0 /\ t # <<>> /\ t[1] = chain[2]
      BY <3>1, <1>4
    <3>3. next[chain[1]] = chain[2]
      BY <2>2, <3>1, <1>2, <1>5
    <3>4. QED
      BY <3>2, <3>3, <1>1, <1>3
  <2>3. QED
    BY <2>1, <2>2
<1>7. TypeOK'
  <2>1. freelist' \in Pointer
    <3>1. CASE t = <<>>
      BY <3>1, <1>6 DEF Pointer
    <3>2. CASE t # <<>>
      <4>1. t[1] \in Page
        BY <3>2, <1>4
      <4>2. QED
        BY <4>1, <3>2, <1>6 DEF Pointer
    <3>3. QED
      BY <3>1, <3>2
  <2>2. QED
    BY <2>1, <1>1, <1>4 DEF KInv, TypeOK
<1>8. ListSound'
  <2>1. ASSUME NEW i \in 1..Len(t)
        PROVE  next[t[i]] = IF i = Len(t) THEN NULL ELSE t[i + 1]
    <3>1. i \in 1..Len(chain) - 1 /\ i + 1 \in 1..Len(chain)
      BY <1>4, <1>5
    <3>2. /\ t[i] = chain[i + 1]
          /\ next[chain[i + 1]] = IF i + 1 = Len(chain) THEN NULL
                                  ELSE chain[i + 1 + 1]
      BY <3>1, <1>2, <1>4
    <3>3. i = Len(t) <=> i + 1 = Len(chain)
      BY <3>1, <1>4, <1>5
    <3>4. i # Len(t) => t[i + 1] = chain[i + 1 + 1]
      <4>1. i # Len(t) => i + 1 \in 1..Len(chain) - 1
        BY <3>1, <1>4, <1>5
      <4>2. QED
        BY <4>1, <1>4
    <3>5. QED
      BY <3>2, <3>3, <3>4
  <2>2. ASSUME NEW i \in 1..Len(t), NEW j \in 1..Len(t), t[i] = t[j]
        PROVE  i = j
    <3>1. /\ i \in 1..Len(chain) - 1 /\ i + 1 \in 1..Len(chain)
          /\ j \in 1..Len(chain) - 1 /\ j + 1 \in 1..Len(chain)
      BY <1>4, <1>5
    <3>2. chain[i + 1] = chain[j + 1]
      BY <2>2, <3>1, <1>4
    <3>3. i + 1 = j + 1
      BY <3>1, <3>2, <1>2
    <3>4. QED
      BY <3>1, <3>3
  <2>3. Members(t) \cap used' = {}
    BY <1>1, <1>2, <1>4
  <2>4. QED
    BY <1>1, <1>6, <2>1, <2>2, <2>3 DEF ListSound
<1>9. Pool!Take(r)
  BY <1>1, <1>4 DEF Pool!Take
<1>10. QED
  BY <1>7, <1>8, <1>9 DEF KInv

\* No owner reaches a link.
LEMMA UseStep ==
  ASSUME KInv, NEW p \in Page, NEW w \in Word, Use(p, w)
  PROVE  KInv' /\ UNCHANGED <<Members(chain), used, halted>>
<1>1. /\ p \in used
      /\ next' = [next EXCEPT ![p] = w]
      /\ UNCHANGED <<freelist, used, halted, chain>>
  BY DEF Use
<1>2. TypeOK'
  BY <1>1 DEF KInv, TypeOK
<1>3. ASSUME NEW i \in 1..Len(chain)
      PROVE  next'[chain[i]] = next[chain[i]]
  <2>1. chain[i] \in Members(chain) /\ chain[i] \in Page
    BY DEF Members, KInv, TypeOK
  <2>2. chain[i] # p
    BY <2>1, <1>1 DEF KInv, ListSound
  <2>3. QED
    BY <2>1, <2>2, <1>1 DEF KInv, TypeOK
<1>4. Members(chain)' = Members(chain)
  BY <1>1 DEF Members
<1>5. ListSound'
  BY <1>1, <1>3, <1>4 DEF KInv, ListSound
<1>6. QED
  BY <1>1, <1>2, <1>4, <1>5 DEF KInv

LEMMA OutOfMemoryStep ==
  ASSUME KInv, OutOfMemory
  PROVE  KInv' /\ Pool!Stop
<1>1. /\ ~halted /\ halted' = TRUE
      /\ freelist = NULL
      /\ UNCHANGED <<freelist, next, used, chain>>
  BY DEF OutOfMemory
<1>2. Members(chain) = {} /\ Members(chain)' = Members(chain)
  BY <1>1, EmptyChain DEF Members
<1>3. KInv'
  BY <1>1, <1>2 DEF KInv, TypeOK, ListSound
<1>4. QED
  BY <1>1, <1>2, <1>3 DEF Pool!Stop

\* Every step keeps the list sound and is a step of the pool, or none.
LEMMA KStep ==
  ASSUME KInv, [Next]_kvars
  PROVE  KInv' /\ [Pool!Next]_<<Members(chain), used, halted>>
<1>1. ASSUME NEW p \in Page \ Members(chain), Kfree(p)
      PROVE  KInv' /\ Pool!Next
  BY <1>1, KfreeStep DEF Pool!Next
<1>2. ASSUME NEW r \in Page, Kalloc(r)
      PROVE  KInv' /\ Pool!Next
  BY <1>2, KallocStep DEF Pool!Next
<1>3. CASE OutOfMemory
  BY <1>3, OutOfMemoryStep DEF Pool!Next
<1>4. ASSUME NEW p \in Page, NEW w \in Word, Use(p, w)
      PROVE  KInv' /\ UNCHANGED <<Members(chain), used, halted>>
  BY <1>4, UseStep
<1>5. CASE UNCHANGED kvars
  BY <1>5 DEF kvars, KInv, TypeOK, ListSound, Members
<1>6. QED
  BY <1>1, <1>2, <1>3, <1>4, <1>5 DEF Next

-----------------------------------------------------------------------------
\* Whatever is freed, allocated and written, the list is sound.
THEOREM KallocInvariant == Spec => []KInv
<1>1. KInv /\ [Next]_kvars => KInv'
  BY KStep
<1>2. QED
  BY InitKInv, <1>1, PTL DEF Spec

\* kmem.freelist is always a pointer that kalloc may follow.
THEOREM KallocTypeCorrect == Spec => []TypeOK
<1>1. KInv => TypeOK
  BY DEF KInv
<1>2. QED
  BY KallocInvariant, <1>1, PTL

\* The links from kmem.freelist lead through every free page once, and no free
\* page has an owner.
THEOREM FreeListSound == Spec => []ListSound
<1>1. KInv => ListSound
  BY DEF KInv
<1>2. QED
  BY KallocInvariant, <1>1, PTL

\* kalloc and kfree implement the pool of pages: no page has two owners, and
\* the kernel stops for want of memory only when every page has one.
THEOREM ImplementsPagePool == Spec => PoolSpec
<1>1. Init => Pool!Init
  BY DEF Init, Pool!Init, Members
<1>2. KInv /\ [Next]_kvars => [Pool!Next]_<<Members(chain), used, halted>>
  BY KStep
<1>3. QED
  BY KallocInvariant, <1>1, <1>2, PTL DEF Spec, PoolSpec, Pool!Spec

=============================================================================
