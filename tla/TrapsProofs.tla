---------------------------- MODULE TrapsProofs ----------------------------
(***************************************************************************)
(* Proofs about Traps, for bytes of any size, any place of tss_entry that  *)
(* TrapsAssumption allows, and any handlers: what the code cut into the    *)
(* fields of a descriptor is what the processor puts together again, so    *)
(* every trap gets to its handler, and every handler but one back.         *)
(***************************************************************************)
EXTENDS Traps, TLAPS

-----------------------------------------------------------------------------
(* Division, for the fields that addresses and limits are cut into.         *)

LEMMA ProductIsNat ==
  ASSUME NEW m \in Nat, NEW n \in Nat
  PROVE  m * n \in Nat
  OBVIOUS

\* The places of a number under a unit D.
LEMMA Cut ==
  ASSUME NEW D \in Nat \ {0}, NEW x \in Nat
  PROVE  /\ x \div D \in Nat /\ x % D \in Nat
         /\ x % D < D
         /\ x = D * (x \div D) + (x % D)
  OBVIOUS

\* No multiple of D lies between two that follow each other.
LEMMA NextMultiple ==
  ASSUME NEW D \in Nat \ {0}, NEW a \in Nat, NEW b \in Nat, a < b
  PROVE  D * b >= D * a + D
<1>1. PICK c \in Nat : b = a + (1 + c)
  <2>1. b - a - 1 \in Nat /\ b = a + (1 + (b - a - 1))
    OBVIOUS
  <2>. QED BY <2>1
<1>2. D * (a + (1 + c)) = D * a + (D + D * c) /\ D * c >= 0
  OBVIOUS
<1>. QED BY <1>1, <1>2

\* A number is cut in one way only.
LEMMA CutOnce ==
  ASSUME NEW D \in Nat \ {0}, NEW x \in Nat, NEW t \in Nat, NEW r \in Nat,
         x = D * t + r, r < D
  PROVE  x \div D = t /\ x % D = r
<1>1. PICK e \in Nat, s \in Nat : e = x \div D /\ s = x % D
  BY Cut
<1>2. x = D * e + s /\ s < D
  BY <1>1, Cut
<1>3. PICK u \in Nat, v \in Nat : u = D * t /\ v = D * e
  OBVIOUS
<1>4. ~(e < t)
  <2>. SUFFICES ASSUME e < t PROVE FALSE
    OBVIOUS
  <2>1. u >= v + D
    BY <1>3, NextMultiple
  <2>. QED BY <2>1, <1>2, <1>3
<1>5. ~(t < e)
  <2>. SUFFICES ASSUME t < e PROVE FALSE
    OBVIOUS
  <2>1. v >= u + D
    BY <1>3, NextMultiple
  <2>. QED BY <2>1, <1>2, <1>3
<1>6. e = t
  BY <1>4, <1>5
<1>7. s = r
  BY <1>2, <1>6
<1>. QED BY <1>1, <1>6, <1>7

\* The part above D of a number below D * E is below E.
LEMMA HighPart ==
  ASSUME NEW D \in Nat \ {0}, NEW E \in Nat, NEW x \in Nat, x < D * E
  PROVE  x \div D < E /\ x \div D \in Nat
<1>1. PICK q \in Nat, s \in Nat : q = x \div D /\ s = x % D /\ x = D * q + s
  BY Cut
<1>2. ~(E <= q)
  <2>. SUFFICES ASSUME E <= q PROVE FALSE
    OBVIOUS
  <2>1. PICK c \in Nat : q = E + c
    <3>1. q - E \in Nat /\ q = E + (q - E)
      OBVIOUS
    <3>. QED BY <3>1
  <2>2. D * (E + c) = D * E + D * c /\ D * c \in Nat /\ D * E \in Nat
    OBVIOUS
  <2>. QED BY <2>1, <2>2, <1>1
<1>. QED BY <1>1, <1>2

\* A number below the unit has nothing above it.
LEMMA Small ==
  ASSUME NEW D \in Nat \ {0}, NEW x \in Nat, x < D
  PROVE  x % D = x
  OBVIOUS

\* Cutting twice is cutting at the product.
LEMMA CutTwice ==
  ASSUME NEW D \in Nat \ {0}, NEW E \in Nat \ {0}, NEW x \in Nat
  PROVE  /\ x \div (D * E) = (x \div D) \div E
         /\ x % (D * E) = (x % D) + D * ((x \div D) % E)
<1>1. PICK q \in Nat, r \in Nat : q = x \div D /\ r = x % D /\ r < D /\ x = D * q + r
  BY Cut
<1>2. PICK p \in Nat, s \in Nat : p = q \div E /\ s = q % E /\ s < E /\ q = E * p + s
  BY Cut
<1>3. D * E \in Nat \ {0} /\ D * s \in Nat /\ D * s + r \in Nat
  OBVIOUS
<1>4. x = (D * E) * p + (D * s + r)
  <2>1. D * (E * p + s) = (D * E) * p + D * s
    OBVIOUS
  <2>2. x = D * (E * p + s) + r
    BY <1>1, <1>2, Zenon
  <2>3. PICK a \in Nat, b \in Nat : a = (D * E) * p /\ b = D * s
    OBVIOUS
  <2>4. x = (a + b) + r
    BY <2>1, <2>2, <2>3, Zenon
  <2>5. x = a + (b + r)
    BY <2>4
  <2>. QED BY <2>3, <2>5, Zenon
<1>5. D * s + r < D * E
  <2>1. D * E >= D * s + D
    BY <1>2, NextMultiple
  <2>. QED BY <2>1, <1>1, <1>3
<1>6. x \div (D * E) = p /\ x % (D * E) = D * s + r
  BY <1>3, <1>4, <1>5, CutOnce
<1>7. x % (D * E) = r + D * s
  BY <1>3, <1>6
<1>. QED BY <1>1, <1>2, <1>6, <1>7, Zenon

-----------------------------------------------------------------------------
(* What the processor reads from a descriptor and a gate is what was set.   *)

LEMMA Units ==
  /\ BYTE \in Nat \ {0} /\ NIBBLE \in Nat \ {0} /\ WORD \in Nat \ {0}
  /\ WORD = BYTE * BYTE /\ LIMIT = WORD * NIBBLE
  /\ TssAt \in Nat /\ TssAt < WORD * WORD /\ TssAt + TssSize \in Nat /\ TssStackEnd \in Nat
  /\ (TssAt + TssSize) % LIMIT >= TssStackEnd
<1>1. BYTE \in Nat \ {0} /\ NIBBLE \in Nat \ {0} /\ TssSize \in Nat /\ TssStackEnd \in Nat
  BY TrapsAssumption
<1>2. BYTE * BYTE \in Nat \ {0}
  BY <1>1
<1>3. WORD \in Nat \ {0}
  BY <1>2 DEF WORD
<1>4. WORD * WORD \in Nat
  BY <1>3
<1>5. TssAt \in Nat /\ TssAt < WORD * WORD
  BY <1>4, TrapsAssumption
<1>6. TssAt + TssSize \in Nat
  BY <1>1, <1>5
<1>7. (TssAt + TssSize) % LIMIT >= TssStackEnd
  BY TrapsAssumption
<1>. QED BY <1>1, <1>3, <1>5, <1>6, <1>7, Zenon DEF WORD, LIMIT

\* A segment's base comes together again from three fields.
LEMMA BaseKept ==
  ASSUME NEW x \in Nat, x < WORD * WORD, NEW l, NEW a, NEW g
  PROVE  Base(Segment(x, l, a, g)) = x
<1> DEFINE q == x \div WORD
<1>1. q \in Nat /\ q < WORD /\ x = WORD * q + (x % WORD) /\ x % WORD \in Nat
  BY Units, Cut, HighPart, Zenon
<1>. HIDE DEF q
<1>2. x \div (WORD * BYTE) = q \div BYTE
  BY Units, CutTwice, Zenon DEF q
<1>3. q \div BYTE < BYTE /\ q \div BYTE \in Nat
  <2>1. q < BYTE * BYTE
    BY <1>1, Units, Zenon
  <2>. QED BY <2>1, <1>1, Units, HighPart, Zenon
<1>4. (q \div BYTE) % BYTE = q \div BYTE
  BY <1>3, Units, Small, Zenon
<1>5. q = BYTE * (q \div BYTE) + (q % BYTE) /\ q % BYTE \in Nat
  BY <1>1, Units, Cut, Zenon
<1>6. Base(Segment(x, l, a, g)) = (x % WORD) + WORD * (q % BYTE) + WORD * BYTE * (q \div BYTE)
  <2>1. Base(Segment(x, l, a, g))
          = (x % WORD) + WORD * (q % BYTE) + WORD * BYTE * ((x \div (WORD * BYTE)) % BYTE)
    BY DEF Base, Segment, q
  <2>. QED BY <2>1, <1>2, <1>4, Zenon
<1>7. PICK u \in Nat, m \in Nat, r \in Nat : u = q \div BYTE /\ m = q % BYTE /\ r = x % WORD
  BY <1>1, <1>3, <1>5
<1>8. WORD * (BYTE * u + m) = WORD * m + WORD * BYTE * u
  BY Units
<1>9. x = WORD * (BYTE * u + m) + r
  BY <1>1, <1>5, <1>7, Zenon
<1>10. Base(Segment(x, l, a, g)) = r + WORD * m + WORD * BYTE * u
  BY <1>6, <1>7, Zenon
<1>11. PICK y \in Nat, z \in Nat : y = WORD * m /\ z = WORD * BYTE * u
  BY Units
<1>12. x = (y + z) + r
  BY <1>8, <1>9, <1>11, Zenon
<1>13. Base(Segment(x, l, a, g)) = r + y + z
  BY <1>10, <1>11, Zenon
<1>14. r + y + z = (y + z) + r
  OBVIOUS
<1>. QED BY <1>12, <1>13, <1>14, Zenon

\* Of a segment's limit the descriptor keeps the low bits.
LEMMA LimitKept ==
  ASSUME NEW x \in Nat, NEW b, NEW a, NEW g
  PROVE  Limit(Segment(b, x, a, g)) = x % LIMIT
<1>1. Limit(Segment(b, x, a, g)) = (x % WORD) + WORD * ((x \div WORD) % NIBBLE)
  BY DEF Limit, Segment
<1>2. x % (WORD * NIBBLE) = (x % WORD) + WORD * ((x \div WORD) % NIBBLE)
  BY Units, CutTwice, Zenon
<1>. QED BY <1>1, <1>2, Units, Zenon

\* A gate leads to the handler that it was set for.
LEMMA TargetKept ==
  ASSUME NEW h \in Handler, NEW sel, NEW flags
  PROVE  Target(Gate(h, sel, flags)) = h
<1>1. PICK x \in Nat : x = HandlerAt[h] /\ x < WORD * WORD
  <2>1. WORD * WORD \in Nat
    BY Units
  <2>2. HandlerAt[h] \in 0 .. WORD * WORD - 1
    BY TrapsAssumption
  <2>. QED BY <2>1, <2>2
<1>2. x \div WORD \in Nat /\ x \div WORD < WORD /\ x % WORD \in Nat
      /\ x = WORD * (x \div WORD) + (x % WORD)
  BY <1>1, Units, Cut, HighPart, Zenon
<1>3. (x \div WORD) % WORD = x \div WORD
  BY <1>2, Units, Small, Zenon
<1> DEFINE g == Gate(h, sel, flags)
<1>4. g.base_lo = x % WORD /\ g.base_hi = x \div WORD
  BY <1>1, <1>3 DEF Gate
<1>. HIDE DEF g
<1>5. g.base_lo + WORD * g.base_hi = x
  <2>1. PICK y \in Nat, z \in Nat : y = x % WORD /\ z = WORD * (x \div WORD)
    <3>1. WORD * (x \div WORD) \in Nat
      BY <1>2, Units, ProductIsNat, Zenon
    <3>. QED BY <3>1, <1>2, Zenon
  <2>2. x = z + y /\ g.base_lo + WORD * g.base_hi = y + z
    BY <2>1, <1>2, <1>4, Zenon
  <2>. QED BY <2>2
<1> DEFINE at == {i \in Handler : HandlerAt[i] = g.base_lo + WORD * g.base_hi}
<1>6. at = {h}
  BY <1>1, <1>5, TrapsAssumption, Zenon
<1>7. Target(g) = IF at = {} THEN Wild ELSE CHOOSE i \in at : TRUE
  BY DEF Target
<1>. HIDE DEF at
<1>. QED BY <1>6, <1>7, Zenon DEF g

-----------------------------------------------------------------------------
(* The inductive invariant.                                                 *)

\* The segments that the selectors 0x08, 0x1B and 0x10 name, and the TSS.
SegmentsRight ==
  /\ Dpl(Descriptor(\h8).access) = 0
  /\ Dpl(Descriptor(\h1B).access) = 3
  /\ IsData(Descriptor(\h10).access)
  /\ Base(Descriptor(\h2B)) = TssAt
  /\ Limit(Descriptor(\h2B)) + 1 >= TssStackEnd

\* The gates, as init_idt leaves them.
GatesRight == idt = [v \in Vectors |-> Gate(HandlerOf(v), \h8, \h8F)]

\* The controllers before and after init_pic: then only lines 0 and 1 come through.
PicReset ==
  \E a1, a2 \in 0 .. 1 :
     pic = <<Controller(0, 8, a1), Controller(0, 112, a2)>>
PicSet == pic = <<Controller(0, 32, \hFC), Controller(0, 40, \hFF)>>

TrapRecord ==
  [vector : Vectors, handler : Handler, error : BOOLEAN, from : {0, 3}, astray : BOOLEAN,
   stack : Stacks \cup {"same"}]

\* The line in service that a handler was called for.
InService(h) ==
  CASE h = "timer_handler" -> {0} [] h = "kbd_handler" -> {1} [] OTHER -> {}

\* What is handled: by the vector's handler, with an error code if the vector has
\* one, and with the line in service that the handler acknowledges.
TrapInv ==
  /\ trap \in TrapRecord
  /\ ring = 0
  /\ trap.handler = HandlerOf(trap.vector)
  /\ trap.error = (trap.vector \in ErrorCodes)
  /\ trap.stack = IF trap.from = 3 THEN tss.esp0 ELSE "same"
  /\ trap.astray => trap.handler = "default_handler"
  /\ inService = InService(trap.handler)

TInv ==
  /\ pc \in {"gdt", "idt", "pic", "run"} /\ ring \in {0, 3}
  /\ pc # "gdt" => SegmentsRight /\ tss \in [ss0 : {\h10}, esp0 : Stacks]
  /\ pc \in {"pic", "run"} => GatesRight
  /\ IF pc = "run" THEN PicSet ELSE PicReset /\ trap = NoTrap /\ ring = 0
  /\ IF trap = NoTrap THEN inService = {} ELSE TrapInv

-----------------------------------------------------------------------------
(* The steps.                                                               *)

\* Every gate leads from where it was found to a handler in ring 0, and user code
\* may use it.
LEMMA GateRead ==
  ASSUME GatesRight, NEW v \in Vectors
  PROVE  /\ HandlerOf(v) \in Handler
         /\ idt[v].sel = \h8
         /\ Present(idt[v].flags) /\ Dpl(idt[v].flags) = 3
         /\ Target(idt[v]) = HandlerOf(v)
         /\ idt[v] = Gate(HandlerOf(v), \h8, \h8F)
<1>1. HandlerOf(v) \in Handler
  BY DEF HandlerOf, Handler
<1>2. idt[v] = Gate(HandlerOf(v), \h8, \h8F)
  BY DEF GatesRight
<1>3. idt[v].sel = \h8 /\ idt[v].flags = 239
  BY <1>2 DEF Gate, Dpl
<1>4. Present(idt[v].flags) /\ Dpl(idt[v].flags) = 3
  BY <1>3 DEF Present, Dpl
<1>5. Target(idt[v]) = HandlerOf(v)
  BY <1>1, <1>2, TargetKept
<1>. QED BY <1>1, <1>2, <1>3, <1>4, <1>5, Zenon

\* The task register leads to the stack that set_kernel_stack set.
LEMMA StackFound ==
  ASSUME SegmentsRight, tss \in [ss0 : {\h10}, esp0 : Stacks]
  PROVE  TssStack = tss.esp0
<1>1. tss.ss0 = \h10
  OBVIOUS
<1>2. Base(Descriptor(\h2B)) = TssAt /\ Limit(Descriptor(\h2B)) + 1 >= TssStackEnd
      /\ IsData(Descriptor(tss.ss0).access)
  BY <1>1, Zenon DEF SegmentsRight
<1>. QED BY <1>2, Zenon DEF TssStack

LEMMA InitTInv == ASSUME Init PROVE TInv
BY DEF Init, TInv, PicReset

LEMMA InitGdtStep == ASSUME TInv, InitGdt PROVE TInv'
<1>1. gdt' = <<Segment(0, 0, 0, 0),
               Segment(0, All, \h9A, \hC0), Segment(0, All, \h92, \hC0),
               Segment(0, All, \hFA, \hC0), Segment(0, All, \hF2, \hC0),
               Segment(TssAt, TssAt + TssSize, \hE9, 0)>>
  BY DEF InitGdt
<1>2. /\ Descriptor(\h8)' = Segment(0, All, \h9A, \hC0)
      /\ Descriptor(\h1B)' = Segment(0, All, \hFA, \hC0)
      /\ Descriptor(\h10)' = Segment(0, All, \h92, \hC0)
      /\ Descriptor(\h2B)' = Segment(TssAt, TssAt + TssSize, \hE9, 0)
  BY <1>1 DEF Descriptor
<1>3. /\ Descriptor(\h8)'.access = \h9A
      /\ Descriptor(\h1B)'.access = \hFA
      /\ Descriptor(\h10)'.access = \h92
  BY <1>2 DEF Segment
<1>4. Base(Descriptor(\h2B)') = TssAt
  BY <1>2, BaseKept, Units
<1>5. Limit(Descriptor(\h2B)') = (TssAt + TssSize) % LIMIT
  BY <1>2, LimitKept, Units
<1>6. Limit(Descriptor(\h2B)') + 1 >= TssStackEnd
  <2>1. LIMIT \in Nat \ {0}
    BY Units
  <2>2. (TssAt + TssSize) % LIMIT \in Nat
    BY <2>1, Units, Cut, Zenon
  <2>3. PICK m \in Nat : m = (TssAt + TssSize) % LIMIT /\ m >= TssStackEnd
    BY <2>2, Units, Zenon
  <2>4. m + 1 >= TssStackEnd
    BY <2>3, Units
  <2>. QED BY <2>3, <2>4, <1>5, Zenon
<1>7. SegmentsRight'
  <2>1. Dpl(Descriptor(\h8)'.access) = 0 /\ Dpl(Descriptor(\h1B)'.access) = 3
        /\ IsData(Descriptor(\h10)'.access)
    BY <1>3 DEF Dpl, IsData
  <2>. QED BY <2>1, <1>4, <1>6 DEF SegmentsRight
<1>8. tss' \in [ss0 : {\h10}, esp0 : Stacks]
  BY TrapsAssumption DEF InitGdt
<1>. QED BY <1>7, <1>8 DEF TInv, InitGdt, PicReset

LEMMA InitIdtStep == ASSUME TInv, InitIdt PROVE TInv'
<1>1. GatesRight'
  BY DEF InitIdt, GatesRight
<1>2. SegmentsRight' /\ tss' \in [ss0 : {\h10}, esp0 : Stacks]
  BY DEF TInv, InitIdt, SegmentsRight, Descriptor
<1>. QED BY <1>1, <1>2 DEF TInv, InitIdt, PicReset

\* What a port does with a value, by the word that is expected.
LEMMA Words ==
  ASSUME NEW offset, NEW mask, NEW value, NEW icw
  PROVE  /\ Write8259(Controller(icw, offset, mask), "command", value) = Controller(2, offset, 0)
         /\ Data(Controller(2, offset, mask), value) = Controller(3, value, mask)
         /\ Data(Controller(3, offset, mask), value) = Controller(4, offset, mask)
         /\ Data(Controller(4, offset, mask), value) = Controller(0, offset, mask)
         /\ Data(Controller(0, offset, mask), value) = Controller(0, offset, value)
<1>1. Write8259(Controller(icw, offset, mask), "command", value) = Controller(2, offset, 0)
  BY DEF Write8259, Controller
<1>2. ASSUME NEW i, NEW c, c = Controller(i, offset, mask)
      PROVE  c.icw = i /\ c.offset = offset /\ c.mask = mask
  BY <1>2 DEF Controller
<1>3. Data(Controller(2, offset, mask), value) = Controller(3, value, mask)
  <2>1. PICK c : c = Controller(2, offset, mask)
    OBVIOUS
  <2>2. c.icw = 2 /\ c.offset = offset /\ c.mask = mask
    BY <1>2, <2>1
  <2>3. Write8259(c, "data", value) = Controller(3, value, c.mask)
    BY <2>2 DEF Write8259
  <2>. QED BY <2>1, <2>2, <2>3 DEF Data
<1>4. Data(Controller(3, offset, mask), value) = Controller(4, offset, mask)
  <2>1. PICK c : c = Controller(3, offset, mask)
    OBVIOUS
  <2>2. c.icw = 3 /\ c.offset = offset /\ c.mask = mask
    BY <1>2, <2>1
  <2>3. Write8259(c, "data", value) = Controller(4, c.offset, c.mask)
    BY <2>2 DEF Write8259
  <2>. QED BY <2>1, <2>2, <2>3 DEF Data
<1>5. Data(Controller(4, offset, mask), value) = Controller(0, offset, mask)
  <2>1. PICK c : c = Controller(4, offset, mask)
    OBVIOUS
  <2>2. c.icw = 4 /\ c.offset = offset /\ c.mask = mask
    BY <1>2, <2>1
  <2>3. Write8259(c, "data", value) = Controller(0, c.offset, c.mask)
    BY <2>2 DEF Write8259
  <2>. QED BY <2>1, <2>2, <2>3 DEF Data
<1>6. Data(Controller(0, offset, mask), value) = Controller(0, offset, value)
  <2>1. PICK c : c = Controller(0, offset, mask)
    OBVIOUS
  <2>2. c.icw = 0 /\ c.offset = offset /\ c.mask = mask
    BY <1>2, <2>1
  <2>3. Write8259(c, "data", value) = Controller(0, c.offset, value)
    BY <2>2 DEF Write8259
  <2>. QED BY <2>1, <2>2, <2>3 DEF Data
<1>. QED BY <1>1, <1>3, <1>4, <1>5, <1>6

\* After its three words and the masks a controller has its vectors and its mask.
LEMMA ControllerSet ==
  ASSUME NEW icw, NEW old, NEW a, NEW offset, NEW cascade, NEW mask
  PROVE  Remapped(Controller(icw, old, a), offset, cascade, mask) = Controller(0, offset, mask)
<1>1. PICK c : c = Controller(icw, old, a)
  OBVIOUS
<1>2. Write8259(c, "command", \h11) = Controller(2, old, 0)
  BY <1>1, Words
<1>3. Data(Controller(2, old, 0), offset) = Controller(3, offset, 0)
  BY Words
<1>4. Data(Controller(3, offset, 0), cascade) = Controller(4, offset, 0)
  BY Words
<1>5. Data(Controller(4, offset, 0), 1) = Controller(0, offset, 0)
  BY Words
<1>6. Data(Controller(0, offset, 0), c.mask) = Controller(0, offset, c.mask)
  BY Words
<1>7. Data(Controller(0, offset, c.mask), mask) = Controller(0, offset, mask)
  BY Words
<1>8. Remapped(c, offset, cascade, mask)
        = Data(Data(Data(Data(Data(Write8259(c, "command", \h11), offset), cascade), 1),
                    c.mask), mask)
  BY DEF Remapped
<1>. QED BY <1>1, <1>2, <1>3, <1>4, <1>5, <1>6, <1>7, <1>8

LEMMA InitPicStep == ASSUME TInv, InitPic PROVE TInv'
<1>1. PICK a1, a2 : pic = <<Controller(0, 8, a1), Controller(0, 112, a2)>>
  BY DEF TInv, InitPic, PicReset
<1>2. pic[1] = Controller(0, 8, a1) /\ pic[2] = Controller(0, 112, a2)
  BY <1>1
<1>3. /\ Remapped(pic[1], 32, 4, \hFC) = Controller(0, 32, \hFC)
      /\ Remapped(pic[2], 40, 2, \hFF) = Controller(0, 40, \hFF)
  BY <1>2, ControllerSet
<1>4. PicSet'
  BY <1>3 DEF InitPic, PicSet
<1>5. SegmentsRight' /\ tss' \in [ss0 : {\h10}, esp0 : Stacks] /\ GatesRight'
  BY DEF TInv, InitPic, SegmentsRight, Descriptor, GatesRight
<1>. QED BY <1>4, <1>5 DEF TInv, InitPic

\* The processor enters a gate.
LEMMA EnterStep ==
  ASSUME TInv, NEW v \in Vectors, Enter(v, v \in ErrorCodes),
         inService' = InService(HandlerOf(v))
  PROVE  TInv'
<1>1. pc = "run" /\ trap = NoTrap /\ PicSet /\ SegmentsRight /\ GatesRight
      /\ tss \in [ss0 : {\h10}, esp0 : Stacks] /\ ring \in {0, 3}
  BY DEF TInv, Enter
<1>2. HandlerOf(v) \in Handler /\ idt[v].sel = \h8 /\ Present(idt[v].flags)
      /\ Target(idt[v]) = HandlerOf(v)
  BY <1>1, GateRead
<1>3. TssStack = tss.esp0
  BY <1>1, StackFound
<1>4. ring' = 0
  BY <1>1, <1>2 DEF Enter, SegmentsRight
<1>5. trap' = [vector |-> v, handler |-> HandlerOf(v), error |-> (v \in ErrorCodes),
               from |-> ring, astray |-> FALSE,
               stack |-> IF ring = 3 THEN tss.esp0 ELSE "same"]
  BY <1>2, <1>3 DEF Enter
<1>6. UNCHANGED <<pc, gdt, idt, tss, pic>>
  BY DEF Enter
<1>7. tss.esp0 \in Stacks
  BY <1>1
<1>8. trap' \in TrapRecord
  BY <1>1, <1>2, <1>5, <1>7 DEF TrapRecord
<1>9. TrapInv'
  BY <1>4, <1>5, <1>6, <1>8 DEF TrapInv, InService
<1>10. trap' # NoTrap
  <2>1. trap'.vector = v
    BY <1>5
  <2>2. v # -1
    BY TrapsAssumption DEF Vectors, Exceptions, NMI
  <2>. QED BY <2>1, <2>2 DEF NoTrap
<1>11. PicSet' /\ SegmentsRight' /\ GatesRight' /\ (tss \in [ss0 : {\h10}, esp0 : Stacks])'
  BY <1>1, <1>6 DEF PicSet, SegmentsRight, GatesRight, Descriptor
<1>. QED BY <1>1, <1>4, <1>6, <1>9, <1>10, <1>11 DEF TInv

\* No exception comes to the handlers of the two lines.
LEMMA ExceptionStep == ASSUME TInv, NEW v \in Exceptions, Exception(v) PROVE TInv'
<1>1. v \in Vectors /\ v # 32 /\ v # 33
  BY DEF Vectors, Exceptions
<1>2. HandlerOf(v) \notin {"timer_handler", "kbd_handler"}
  BY <1>1 DEF HandlerOf
<1>3. inService' = InService(HandlerOf(v))
  BY <1>2 DEF Exception, TInv, Enter, InService
<1>. QED BY <1>1, <1>3, EnterStep DEF Exception

LEMMA NmiStep == ASSUME TInv, Nmi PROVE TInv'
<1>1. NMI \in Vectors /\ (NMI \in ErrorCodes) = FALSE
  BY DEF Vectors, NMI, ErrorCodes
<1>2. HandlerOf(NMI) = "nmi_handler"
  BY DEF HandlerOf, NMI
<1>3. inService' = InService(HandlerOf(NMI))
  BY <1>2 DEF Nmi, TInv, Enter, InService
<1>. QED BY <1>1, <1>3, EnterStep DEF Nmi

LEMMA SyscallStep == ASSUME TInv, Syscall PROVE TInv'
<1>1. 128 \in Vectors /\ (128 \in ErrorCodes) = FALSE
  BY DEF Vectors, ErrorCodes
<1>2. HandlerOf(128) = "syscall_i80_handler"
  BY DEF HandlerOf
<1>3. inService' = InService(HandlerOf(128))
  BY <1>2 DEF Syscall, TInv, Enter, InService
<1>. QED BY <1>1, <1>3, EnterStep DEF Syscall

\* A spurious interrupt comes on vector 39, which has the default gate.
LEMMA SpuriousStep == ASSUME TInv, Spurious PROVE TInv'
<1>1. 39 \in Vectors /\ (39 \in ErrorCodes) = FALSE
  BY DEF Vectors, ErrorCodes
<1>2. HandlerOf(39) = "default_handler"
  BY DEF HandlerOf
<1>3. pic[1].offset + 7 = 39
  BY DEF Spurious, TInv, PicSet, Controller
<1>4. inService' = InService(HandlerOf(39))
  BY <1>2 DEF Spurious, TInv, Enter, InService
<1>. QED BY <1>1, <1>3, <1>4, EnterStep DEF Spurious

\* The masks let two lines through, the timer's and the keyboard's.
LEMMA IrqStep == ASSUME TInv, NEW c \in {1, 2}, NEW l \in 0 .. 7, Irq(c, l) PROVE TInv'
<1>1. pic[1].mask = 252 /\ pic[2].mask = 255 /\ pic[1].offset = 32
  BY DEF TInv, Irq, PicSet, Controller
<1>2. c = 1
  <2>. SUFFICES ASSUME c = 2 PROVE FALSE
    OBVIOUS
  <2>1. (252 \div PowersOf2[2 + 1]) % 2 = 0
    BY <1>1 DEF Irq, Unmasked
  <2>. QED BY <2>1 DEF PowersOf2
<1>3. l \in {0, 1}
  <2>1. (252 \div PowersOf2[l + 1]) % 2 = 0
    BY <1>1, <1>2 DEF Irq, Unmasked
  <2>2. l \in {0, 1, 2, 3, 4, 5, 6, 7}
    OBVIOUS
  <2>. QED BY <2>1, <2>2 DEF PowersOf2
<1>4. trap = NoTrap /\ inService = {}
  BY DEF Irq, Enter, TInv
<1>5. inService' = {l} /\ Enter(32 + l, FALSE)
  BY <1>1, <1>2, <1>4 DEF Irq
<1>6. CASE l = 0
  <2>1. 32 \in Vectors /\ (32 \in ErrorCodes) = FALSE
    BY DEF Vectors, ErrorCodes
  <2>2. inService' = InService(HandlerOf(32))
    BY <1>5, <1>6 DEF HandlerOf, InService
  <2>3. 32 + l = 32
    BY <1>6
  <2>4. Enter(32, FALSE)
    BY <1>5, <2>3
  <2>5. Enter(32, 32 \in ErrorCodes)
    BY <2>1, <2>4
  <2>. QED BY <2>1, <2>2, <2>5, EnterStep
<1>7. CASE l = 1
  <2>1. 33 \in Vectors /\ (33 \in ErrorCodes) = FALSE
    BY DEF Vectors, ErrorCodes
  <2>2. inService' = InService(HandlerOf(33))
    BY <1>5, <1>7 DEF HandlerOf, InService
  <2>3. 32 + l = 33
    BY <1>7
  <2>4. Enter(33, FALSE)
    BY <1>5, <2>3
  <2>5. Enter(33, 33 \in ErrorCodes)
    BY <2>1, <2>4
  <2>. QED BY <2>1, <2>2, <2>5, EnterStep
<1>. QED BY <1>3, <1>6, <1>7

\* A handler acknowledges the line that it was called for, and returns to where the
\* trap came from, unless an error code is missing.
LEMMA ReturnStep == ASSUME TInv, Return PROVE TInv'
<1>1. trap # NoTrap /\ TrapInv /\ pc = "run" /\ PicSet /\ SegmentsRight /\ GatesRight
      /\ tss \in [ss0 : {\h10}, esp0 : Stacks]
  BY DEF TInv, Return
<1>2. UNCHANGED <<pc, gdt, idt, tss, pic>>
  BY DEF Return
<1>3. PicSet' /\ SegmentsRight' /\ GatesRight' /\ (tss \in [ss0 : {\h10}, esp0 : Stacks])'
  BY <1>1, <1>2 DEF PicSet, SegmentsRight, GatesRight, Descriptor
<1>4. trap.vector \in Vectors /\ trap.handler = HandlerOf(trap.vector)
      /\ trap.error = (trap.vector \in ErrorCodes) /\ trap.handler \in Handler \ Halting
      /\ trap.from \in {0, 3}
  BY <1>1 DEF TrapInv, TrapRecord, Return
<1>5. inService' = {}
  <2>1. inService = InService(trap.handler) /\ inService' = inService \ Acknowledged(trap.handler)
    BY <1>1 DEF TrapInv, Return
  <2>2. CASE trap.handler = "timer_handler"
    <3>1. inService = {0}
      BY <2>1, <2>2 DEF InService
    <3>2. 0 \in Acknowledged(trap.handler)
      BY <3>1, <2>2 DEF Acknowledged
    <3>. QED BY <2>1, <3>1, <3>2
  <2>3. CASE trap.handler = "kbd_handler"
    <3>1. inService = {1}
      BY <2>1, <2>3 DEF InService
    <3>2. 1 \in Acknowledged(trap.handler)
      BY <3>1, <2>3 DEF Acknowledged
    <3>. QED BY <2>1, <3>1, <3>2
  <2>4. CASE trap.handler \notin {"timer_handler", "kbd_handler"}
    <3>1. inService = {}
      BY <2>1, <2>4 DEF InService
    <3>. QED BY <2>1, <3>1
  <2>. QED BY <2>2, <2>3, <2>4
<1>6. CASE trap.error = (trap.handler \in FaultHandlers)
  <2>1. trap' = NoTrap /\ ring' = trap.from
    BY <1>6 DEF Return
  <2>. QED BY <1>1, <1>2, <1>3, <1>4, <1>5, <2>1 DEF TInv
<1>7. CASE trap.error # (trap.handler \in FaultHandlers)
  <2>1. trap' = [trap EXCEPT !.astray = TRUE] /\ ring' = ring
    BY <1>7 DEF Return
  <2>2. trap.handler = "default_handler"
    BY <1>4, <1>7 DEF HandlerOf, ErrorCodes, FaultHandlers, Halting
  <2>3. trap' \in TrapRecord /\ trap'.vector = trap.vector /\ trap'.handler = trap.handler
        /\ trap'.error = trap.error /\ trap'.stack = trap.stack /\ trap'.from = trap.from
    BY <1>1, <2>1 DEF TrapInv, TrapRecord
  <2>4. inService' = InService(trap'.handler)
    BY <1>5, <2>2, <2>3 DEF InService
  <2>5. TrapInv'
    BY <1>1, <1>2, <2>1, <2>2, <2>3, <2>4 DEF TrapInv
  <2>6. trap' # NoTrap
    <3>1. trap'.vector \in Vectors
      BY <2>3, <1>4
    <3>2. trap'.vector # -1
      BY <3>1, TrapsAssumption DEF Vectors, Exceptions, NMI
    <3>. QED BY <3>2 DEF NoTrap
  <2>. QED BY <1>1, <1>2, <1>3, <2>1, <2>5, <2>6 DEF TInv, TrapInv
<1>. QED BY <1>6, <1>7

LEMMA SetKernelStackStep == ASSUME TInv, NEW s \in Stacks, SetKernelStack(s) PROVE TInv'
<1>1. pc = "run" /\ PicSet /\ SegmentsRight /\ GatesRight /\ ring = 0
      /\ tss \in [ss0 : {\h10}, esp0 : Stacks]
  BY DEF TInv, SetKernelStack
<1>2. UNCHANGED <<pc, gdt, idt, pic, inService, ring>>
  BY DEF SetKernelStack
<1>3. PicSet' /\ SegmentsRight' /\ GatesRight'
  BY <1>1, <1>2 DEF PicSet, SegmentsRight, GatesRight, Descriptor
<1>4. tss' \in [ss0 : {\h10}, esp0 : Stacks] /\ tss'.esp0 = s
  BY <1>1 DEF SetKernelStack
<1>5. CASE trap = NoTrap
  <2>1. trap' = NoTrap
    BY <1>5 DEF SetKernelStack
  <2>. QED BY <1>1, <1>2, <1>3, <1>4, <1>5, <2>1 DEF TInv
<1>6. CASE trap # NoTrap
  <2>1. trap.from = 3 /\ trap' = [trap EXCEPT !.stack = s] /\ TrapInv
    BY <1>6 DEF SetKernelStack, TInv
  <2>2. trap' \in TrapRecord /\ trap'.vector = trap.vector /\ trap'.handler = trap.handler
        /\ trap'.error = trap.error /\ trap'.stack = s /\ trap'.from = 3
        /\ trap'.astray = trap.astray
    BY <2>1 DEF TrapInv, TrapRecord
  <2>3. TrapInv'
    BY <1>2, <1>4, <2>1, <2>2 DEF TrapInv
  <2>4. trap' # NoTrap
    <3>1. trap'.vector \in Vectors
      BY <2>1, <2>2 DEF TrapInv, TrapRecord
    <3>2. trap'.vector # -1
      BY <3>1, TrapsAssumption DEF Vectors, Exceptions, NMI
    <3>. QED BY <3>2 DEF NoTrap
  <2>. QED BY <1>1, <1>2, <1>3, <1>4, <2>3, <2>4 DEF TInv
<1>. QED BY <1>5, <1>6

\* User code starts in ring 3.
LEMMA StartUserStep == ASSUME TInv, StartUser PROVE TInv'
<1>1. ring' = 3
  BY DEF StartUser, TInv, SegmentsRight
<1>2. SegmentsRight' /\ PicSet' /\ GatesRight'
  BY DEF StartUser, TInv, SegmentsRight, Descriptor, PicSet, GatesRight
<1>. QED BY <1>1, <1>2 DEF StartUser, TInv

LEMMA TStep == ASSUME TInv, [Next]_vars PROVE TInv'
<1>1. CASE UNCHANGED vars
  BY <1>1 DEF TInv, vars, SegmentsRight, Descriptor, GatesRight, PicSet, PicReset, TrapInv
<1>2. CASE Next
  BY <1>2, InitGdtStep, InitIdtStep, InitPicStep, ExceptionStep, IrqStep, SetKernelStackStep,
     NmiStep, SyscallStep, SpuriousStep, ReturnStep, StartUserStep DEF Next
<1>. QED BY <1>1, <1>2

\* The tables, the controllers and the trap are as the code means them, always.
THEOREM TrapsInvariant == Spec => []TInv
<1>1. Init => TInv
  BY InitTInv
<1>2. TInv /\ [Next]_vars => TInv'
  BY TStep
<1>. QED BY <1>1, <1>2, PTL DEF Spec

\* KernelEntered: every trap is handled in ring 0, by the handler of its vector, on the
\* stack that set_kernel_stack set last or on the interrupted code's (gdt.c:48,
\* idt.c:10), wherever tss_entry and the handlers lie.
THEOREM KernelIsEntered == Spec => []KernelEntered
<1>1. TInv => KernelEntered
  <2>1. SUFFICES ASSUME TInv PROVE KernelEntered
    OBVIOUS
  <2>2. CASE trap # NoTrap
    <3>1. TrapInv
      BY <2>1, <2>2 DEF TInv
    <3>2. trap.handler \in Handler
      BY <3>1 DEF TrapInv, TrapRecord
    <3>3. trap.handler # Wild
      BY <3>2 DEF Handler, Wild
    <3>. QED BY <2>1, <3>1, <3>3 DEF KernelEntered, TrapInv, TInv
  <2>3. CASE trap = NoTrap
    BY <2>1, <2>3 DEF KernelEntered, TInv
  <2>. QED BY <2>2, <2>3
<1>. QED BY <1>1, TrapsInvariant, PTL

\* TrapsReturn: every interrupt line that was let through is acknowledged before its
\* handler returns, and only default_handler, on a vector that has no gate of its own,
\* can miss the interrupted code (idt.c:24, 103).
THEOREM HandlersReturn == Spec => []TrapsReturn
<1>1. TInv => TrapsReturn
  <2>1. SUFFICES ASSUME TInv PROVE TrapsReturn
    OBVIOUS
  <2>2. CASE trap # NoTrap
    <3>1. TrapInv
      BY <2>1, <2>2 DEF TInv
    <3>2. GatesRight
      BY <2>1, <2>2 DEF TInv
    <3>3. inService # {} => trap.handler # "default_handler"
      BY <3>1 DEF TrapInv, InService
    <3>4. Unused \in Vectors /\ HandlerOf(Unused) = "default_handler"
      BY TrapsAssumption DEF Vectors, HandlerOf
    <3>5. ASSUME trap.astray
          PROVE  trap.handler = "default_handler"
                 /\ trap.vector \notin {v \in Vectors : idt[v] # idt[Unused]}
      <4>1. trap.vector \in Vectors /\ HandlerOf(trap.vector) = "default_handler"
            /\ trap.handler = "default_handler"
        BY <3>1, <3>5 DEF TrapInv, TrapRecord
      <4>2. idt[trap.vector] = idt[Unused]
        BY <3>2, <3>4, <4>1, GateRead
      <4>. QED BY <4>1, <4>2
    <3>. QED BY <2>2, <3>3, <3>5 DEF TrapsReturn
  <2>3. CASE trap = NoTrap
    BY <2>1, <2>3 DEF TrapsReturn, TInv
  <2>. QED BY <2>2, <2>3
<1>. QED BY <1>1, TrapsInvariant, PTL

=============================================================================
