-------------------------- MODULE ModuleInitProofs --------------------------
(***************************************************************************)
(* Proofs about ModuleInit, for any number of modules and any              *)
(* declarations, cycles and missing names included.                        *)
(***************************************************************************)
EXTENDS ModuleInit, TLAPS, SequenceTheorems, FiniteSetTheorems,
        WellFoundedInduction

Call  == [m : Module, i : Nat \ {0}]
Mark  == {"NOT_INITIALISED", "PREREQS_RESOLVED", "INIT_RUN"}
First(p) == [m |-> p, i |-> 1]

\* The parts of the invariant that speak of the stack, for any stack s, marks
\* st, log l, targets tg and required names rq.
In(s) == {s[j].m : j \in 1..Len(s)}

Marks(st, s, l) ==
  /\ \A m \in Module : st[m] = "INIT_RUN" <=> m \in Members(l) \/ m \in In(s)
  /\ \A m \in In(s) : m \notin Members(l)
  /\ \A a, b \in 1..Len(s) : s[a].m = s[b].m => a = b
  /\ \A a, b \in 1..Len(l) : l[a] = l[b] => a = b

Loops(st, s, tg, rq) ==
  \A j \in 1..Len(s) :
    /\ s[j].i <= Len(tg[s[j].m]) + 1
    /\ \A i \in 1..s[j].i - 1 :
         /\ tg[s[j].m][i] = NULL => i > Len(rq[s[j].m])
         /\ tg[s[j].m][i] # NULL => st[tg[s[j].m][i]] = "INIT_RUN"

Descends(s, rank) ==
  \A a, b \in 1..Len(s) : a < b => rank[s[b].m] < rank[s[a].m]

-----------------------------------------------------------------------------
(* The operations on the stack and the log.                                 *)

\* The index of the last call goes on by one.
LEMMA AdvancedCalls ==
  ASSUME NEW s \in Seq(Call), s # <<>>
  PROVE  /\ Advanced(s) \in Seq(Call)
         /\ Len(Advanced(s)) = Len(s)
         /\ \A j \in 1..Len(s) : Advanced(s)[j].m = s[j].m
         /\ \A j \in 1..Len(s) - 1 : Advanced(s)[j] = s[j]
         /\ Advanced(s)[Len(s)].i = s[Len(s)].i + 1
         /\ Advanced(s) # <<>>
<1>1. Len(s) \in Nat /\ Len(s) > 0 /\ Len(s) \in 1..Len(s) /\ DOMAIN s = 1..Len(s)
  OBVIOUS
<1>2. PICK c \in Call : c = s[Len(s)]
  BY <1>1
<1>3. c.m \in Module /\ c.i \in Nat \ {0} /\ c = [m |-> c.m, i |-> c.i]
  BY <1>2 DEF Call
<1> DEFINE d == [c EXCEPT !.i = @ + 1]
<1>4. d \in Call /\ d.m = c.m /\ d.i = c.i + 1
  BY SMTT(30), <1>3 DEF Call
<1>5. Advanced(s) = [s EXCEPT ![Len(s)] = d]
  BY <1>2 DEF Advanced
<1> HIDE DEF d
<1>6. /\ Advanced(s) \in Seq(Call)
      /\ Len(Advanced(s)) = Len(s)
      /\ \A j \in 1..Len(s) : Advanced(s)[j] = IF j = Len(s) THEN d ELSE s[j]
  BY <1>1, <1>4, <1>5
<1>7. \A j \in 1..Len(s) - 1 : j \in 1..Len(s) /\ j # Len(s)
  <2>1. \A n \in Nat : \A j \in 1..n - 1 : j \in 1..n /\ j # n
    OBVIOUS
  <2>2. QED
    BY <2>1, <1>1
<1>8. \A j \in 1..Len(s) : Advanced(s)[j].m = s[j].m
  BY SMTT(30), <1>2, <1>4, <1>6
<1>9. Advanced(s)[Len(s)].i = s[Len(s)].i + 1
  BY <1>1, <1>2, <1>4, <1>6
<1>10. Advanced(s) # <<>>
  <2>1. Len(<<>>) = 0
    OBVIOUS
  <2>2. Len(Advanced(s)) = Len(s)
    BY <1>6
  <2>3. Len(s) # 0
    OBVIOUS
  <2>4. QED
    BY <2>1, <2>2, <2>3
<1>11. QED
  BY <1>6, <1>7, <1>8, <1>9, <1>10

\* A call on top.
LEMMA PushedCalls ==
  ASSUME NEW s \in Seq(Call), NEW p \in Module
  PROVE  /\ Append(s, First(p)) \in Seq(Call)
         /\ Len(Append(s, First(p))) = Len(s) + 1
         /\ \A j \in 1..Len(s) : Append(s, First(p))[j] = s[j]
         /\ Append(s, First(p))[Len(s) + 1] = First(p)
         /\ First(p).m = p /\ First(p).i = 1
         /\ In(Append(s, First(p))) = In(s) \cup {p}
<1>1. First(p) \in Call /\ First(p).m = p /\ First(p).i = 1
  BY DEF First, Call
<1> DEFINE t == Append(s, First(p))
<1>2. /\ t \in Seq(Call)
      /\ Len(t) = Len(s) + 1
      /\ \A j \in 1..Len(s) : t[j] = s[j]
      /\ t[Len(s) + 1] = First(p)
  BY <1>1
<1> HIDE DEF t
<1>3. In(t) = In(s) \cup {p}
  <2>1. ASSUME NEW j \in 1..Len(t)
        PROVE  t[j].m \in In(s) \cup {p}
    <3>1. j \in 1..Len(s) \/ j = Len(s) + 1
      BY <1>2
    <3>2. QED
      BY <3>1, <1>1, <1>2 DEF In
  <2>2. ASSUME NEW j \in 1..Len(s)
        PROVE  s[j].m \in In(t)
    <3>1. j \in 1..Len(t) /\ t[j] = s[j]
      BY <1>2
    <3>2. QED
      BY <3>1 DEF In
  <2>3. p \in In(t)
    <3>1. Len(s) + 1 \in 1..Len(t)
      BY <1>2
    <3>2. QED
      BY <3>1, <1>1, <1>2 DEF In
  <2>4. QED
    BY <2>1, <2>2, <2>3 DEF In
<1>4. QED
  BY <1>1, <1>2, <1>3 DEF t

\* The last call returns.
LEMMA BelowCalls ==
  ASSUME NEW s \in Seq(Call), s # <<>>,
         \A a, b \in 1..Len(s) : s[a].m = s[b].m => a = b
  PROVE  /\ Below(s) \in Seq(Call)
         /\ Len(Below(s)) = Len(s) - 1
         /\ \A j \in 1..Len(s) - 1 : Below(s)[j] = s[j]
         /\ s[Len(s)] \in Call
         /\ In(Below(s)) = In(s) \ {s[Len(s)].m}
         /\ s[Len(s)].m \in In(s)
<1>1. PICK n \in Nat : n = Len(s)
  OBVIOUS
<1>2. n > 0 /\ n \in 1..n /\ n - 1 \in Nat
  BY <1>1
<1>3. \A j \in 1..n : s[j] \in Call
  BY <1>1
<1> DEFINE t == SubSeq(s, 1, n - 1)
<1>4. /\ t \in Seq(Call)
      /\ Len(t) = n - 1
      /\ \A j \in 1..n - 1 : t[j] = s[j]
  <2>1. \A j \in 1..n - 1 : s[j] \in Call
    BY <1>2, <1>3
  <2>2. /\ t \in Seq(Call)
        /\ Len(t) = IF 1 <= n - 1 THEN n - 1 - 1 + 1 ELSE 0
        /\ \A j \in 1..n - 1 - 1 + 1 : t[j] = s[1 + j - 1]
    BY <2>1, <1>2, SubSeqProperties
  <2>3. n - 1 - 1 + 1 = n - 1 /\ (~(1 <= n - 1) => n - 1 = 0)
    BY <1>2
  <2>4. \A j \in 1..n - 1 : 1 + j - 1 = j
    OBVIOUS
  <2>5. QED
    BY <2>2, <2>3, <2>4
<1> HIDE DEF t
<1>5. Below(s) = t
  BY <1>1 DEF Below, t
<1>6. In(t) = In(s) \ {s[n].m}
  <2>1. ASSUME NEW j \in 1..Len(t)
        PROVE  t[j].m \in In(s) \ {s[n].m}
    <3>1. j \in 1..n - 1 /\ j \in 1..n /\ j # n /\ t[j] = s[j]
      BY <1>2, <1>4
    <3>2. QED
      BY <3>1, <1>1, <1>2 DEF In
  <2>2. ASSUME NEW j \in 1..n, s[j].m # s[n].m
        PROVE  s[j].m \in In(t)
    <3>1. j \in 1..Len(t) /\ t[j] = s[j]
      <4>1. j # n
        BY <2>2
      <4>2. QED
        BY <4>1, <1>2, <1>4
    <3>2. QED
      BY <3>1 DEF In
  <2>3. QED
    BY SMTT(30), <2>1, <2>2, <1>1 DEF In
<1>7. s[n].m \in In(s)
  BY <1>1, <1>2 DEF In
<1>8. QED
  BY <1>1, <1>2, <1>3, <1>4, <1>5, <1>6, <1>7

\* One more module in the log.
LEMMA LoggedModules ==
  ASSUME NEW l \in Seq(Module), NEW m \in Module
  PROVE  /\ Append(l, m) \in Seq(Module)
         /\ Members(Append(l, m)) = Members(l) \cup {m}
         /\ Len(Append(l, m)) = Len(l) + 1
         /\ \A j \in 1..Len(l) : Append(l, m)[j] = l[j]
         /\ Append(l, m)[Len(l) + 1] = m
<1> DEFINE t == Append(l, m)
<1>1. /\ t \in Seq(Module)
      /\ Len(t) = Len(l) + 1
      /\ \A j \in 1..Len(l) : t[j] = l[j]
      /\ t[Len(l) + 1] = m
      /\ Len(l) \in Nat
  OBVIOUS
<1> HIDE DEF t
<1>2. ASSUME NEW j \in 1..Len(t)
      PROVE  t[j] \in Members(l) \cup {m}
  <2>1. j \in 1..Len(l) \/ j = Len(l) + 1
    BY <1>1
  <2>2. QED
    BY <2>1, <1>1 DEF Members
<1>3. ASSUME NEW j \in 1..Len(l)
      PROVE  l[j] \in Members(t)
  <2>1. j \in 1..Len(t) /\ t[j] = l[j]
    BY <1>1
  <2>2. QED
    BY <2>1 DEF Members
<1>4. m \in Members(t)
  <2>1. Len(l) + 1 \in 1..Len(t)
    BY <1>1
  <2>2. QED
    BY <2>1, <1>1 DEF Members
<1>5. Members(t) = Members(l) \cup {m}
  BY <1>2, <1>3, <1>4 DEF Members
<1>6. QED
  BY <1>1, <1>5 DEF t

-----------------------------------------------------------------------------
(* What they do to the parts of the invariant.                              *)

\* The modules of the stack are those of the advanced stack.
LEMMA AdvanceMarks ==
  ASSUME NEW st, NEW s \in Seq(Call), s # <<>>, NEW l, Marks(st, s, l)
  PROVE  Marks(st, Advanced(s), l) /\ In(Advanced(s)) = In(s)
<1> DEFINE d == Advanced(s)
<1>1. Len(d) = Len(s) /\ \A j \in 1..Len(s) : d[j].m = s[j].m
  BY AdvancedCalls
<1> HIDE DEF d
<1>2. In(d) = In(s)
  BY <1>1 DEF In
<1>3. Marks(st, d, l)
  BY <1>1, <1>2 DEF Marks
<1>4. QED
  BY <1>2, <1>3 DEF d

\* A module that was not marked is marked and called.
LEMMA PushMarks ==
  ASSUME NEW st \in [Module -> Mark], NEW s \in Seq(Call), NEW l,
         Marks(st, s, l), NEW p \in Module, st[p] # "INIT_RUN"
  PROVE  Marks([st EXCEPT ![p] = "INIT_RUN"], Append(s, First(p)), l)
<1> DEFINE t == Append(s, First(p))
           u == [st EXCEPT ![p] = "INIT_RUN"]
<1>1. /\ Len(t) = Len(s) + 1
      /\ \A j \in 1..Len(s) : t[j] = s[j]
      /\ t[Len(s) + 1].m = p
      /\ In(t) = In(s) \cup {p}
      /\ Len(s) \in Nat
  BY PushedCalls
<1>2. \A m \in Module : u[m] = IF m = p THEN "INIT_RUN" ELSE st[m]
  OBVIOUS
<1> HIDE DEF t, u
<1>3. p \notin Members(l) /\ p \notin In(s)
  BY DEF Marks
<1>4. \A m \in Module : u[m] = "INIT_RUN" <=> m \in Members(l) \/ m \in In(t)
  BY <1>1, <1>2 DEF Marks
<1>5. \A m \in In(t) : m \notin Members(l)
  BY <1>1, <1>3 DEF Marks
<1>6. ASSUME NEW a \in 1..Len(t), NEW b \in 1..Len(t), t[a].m = t[b].m
      PROVE  a = b
  <2>1. ASSUME NEW j \in 1..Len(t), j # Len(s) + 1
        PROVE  j \in 1..Len(s) /\ t[j] = s[j] /\ t[j].m # p
    <3>1. j \in 1..Len(s)
      BY <2>1, <1>1
    <3>2. s[j].m \in In(s)
      BY <3>1 DEF In
    <3>3. QED
      BY <3>1, <3>2, <1>1, <1>3
  <2>2. CASE a = Len(s) + 1 \/ b = Len(s) + 1
    BY <2>1, <2>2, <1>1, <1>6
  <2>3. CASE a # Len(s) + 1 /\ b # Len(s) + 1
    BY <2>1, <2>3, <1>6 DEF Marks
  <2>4. QED
    BY <2>2, <2>3
<1>7. \A a, b \in 1..Len(l) : l[a] = l[b] => a = b
  BY DEF Marks
<1>8. Marks(u, t, l)
  BY <1>4, <1>5, <1>6, <1>7 DEF Marks
<1>9. QED
  BY <1>8 DEF t, u

\* The module of the last call goes to the log.
LEMMA PopMarks ==
  ASSUME NEW st, NEW s \in Seq(Call), s # <<>>, NEW l \in Seq(Module),
         Marks(st, s, l)
  PROVE  Marks(st, Below(s), Append(l, s[Len(s)].m))
<1> DEFINE t == Below(s)
           m == s[Len(s)].m
           g == Append(l, m)
<1>1. \A a, b \in 1..Len(s) : s[a].m = s[b].m => a = b
  BY DEF Marks
<1>2. /\ Len(t) = Len(s) - 1
      /\ \A j \in 1..Len(s) - 1 : t[j] = s[j]
      /\ s[Len(s)] \in Call
      /\ In(t) = In(s) \ {m}
      /\ m \in In(s)
  BY <1>1, BelowCalls
<1>3. m \in Module
  BY <1>2 DEF Call
<1> HIDE DEF m
<1>4. /\ Members(g) = Members(l) \cup {m}
      /\ Len(g) = Len(l) + 1
      /\ \A j \in 1..Len(l) : g[j] = l[j]
      /\ g[Len(l) + 1] = m
      /\ Len(l) \in Nat
  BY <1>3, LoggedModules
<1> HIDE DEF t, g
<1>5. m \notin Members(l)
  BY <1>2 DEF Marks
<1>6. \A x \in Module : st[x] = "INIT_RUN" <=> x \in Members(g) \/ x \in In(t)
  BY <1>2, <1>4 DEF Marks
<1>7. \A x \in In(t) : x \notin Members(g)
  BY <1>2, <1>4 DEF Marks
<1>8. ASSUME NEW a \in 1..Len(t), NEW b \in 1..Len(t), t[a].m = t[b].m
      PROVE  a = b
  <2>1. PICK n \in Nat : n = Len(s)
    OBVIOUS
  <2>2. a \in 1..n - 1 /\ b \in 1..n - 1 /\ a \in 1..n /\ b \in 1..n
    BY <2>1, <1>2
  <2>3. s[a].m = s[b].m
    BY <2>1, <2>2, <1>2, <1>8
  <2>4. QED
    BY <2>1, <2>2, <2>3, <1>1
<1>9. ASSUME NEW a \in 1..Len(g), NEW b \in 1..Len(g), g[a] = g[b]
      PROVE  a = b
  <2>1. ASSUME NEW j \in 1..Len(g), j # Len(l) + 1
        PROVE  j \in 1..Len(l) /\ g[j] = l[j] /\ g[j] # m
    <3>1. j \in 1..Len(l)
      BY <2>1, <1>4
    <3>2. l[j] \in Members(l)
      BY <3>1 DEF Members
    <3>3. QED
      BY <3>1, <3>2, <1>4, <1>5
  <2>2. CASE a = Len(l) + 1 \/ b = Len(l) + 1
    BY <2>1, <2>2, <1>4, <1>9
  <2>3. CASE a # Len(l) + 1 /\ b # Len(l) + 1
    BY <2>1, <2>3, <1>9 DEF Marks
  <2>4. QED
    BY <2>2, <2>3
<1>10. Marks(st, t, g)
  BY <1>6, <1>7, <1>8, <1>9 DEF Marks
<1>11. QED
  BY <1>10 DEF t, g, m

\* The loops of the last call pass one prerequisite.
LEMMA AdvanceLoops ==
  ASSUME NEW st, NEW s \in Seq(Call), s # <<>>, NEW rq,
         NEW tg \in [Module -> Seq(Module \cup {NULL})],
         Loops(st, s, tg, rq),
         NEW c, c = s[Len(s)],
         c.i <= Len(tg[c.m]),
         tg[c.m][c.i] = NULL => c.i > Len(rq[c.m]),
         tg[c.m][c.i] # NULL => st[tg[c.m][c.i]] = "INIT_RUN"
  PROVE  Loops(st, Advanced(s), tg, rq)
<1> DEFINE d == Advanced(s)
<1>1. /\ Len(d) = Len(s)
      /\ \A j \in 1..Len(s) : d[j].m = s[j].m
      /\ \A j \in 1..Len(s) - 1 : d[j] = s[j]
      /\ d[Len(s)].i = c.i + 1
      /\ Len(s) \in Nat /\ Len(s) \in 1..Len(s)
      /\ c \in Call
  BY AdvancedCalls
<1>2. c.i \in Nat \ {0} /\ c.m \in Module /\ Len(tg[c.m]) \in Nat
  BY <1>1 DEF Call
<1> HIDE DEF d
<1>3. ASSUME NEW j \in 1..Len(s)
      PROVE  /\ d[j].i <= Len(tg[s[j].m]) + 1
             /\ \A i \in 1..d[j].i - 1 :
                  /\ tg[s[j].m][i] = NULL => i > Len(rq[s[j].m])
                  /\ tg[s[j].m][i] # NULL => st[tg[s[j].m][i]] = "INIT_RUN"
  <2>1. CASE j # Len(s)
    <3>1. d[j] = s[j]
      BY <1>1, <2>1
    <3>2. QED
      BY <3>1 DEF Loops
  <2>2. CASE j = Len(s)
    <3>1. d[j].i = c.i + 1 /\ s[j] = c
      BY <1>1, <2>2
    <3>2. c.i + 1 <= Len(tg[c.m]) + 1
      BY <1>2
    <3>3. ASSUME NEW i \in 1..c.i
          PROVE  /\ tg[c.m][i] = NULL => i > Len(rq[c.m])
                 /\ tg[c.m][i] # NULL => st[tg[c.m][i]] = "INIT_RUN"
      <4>1. CASE i = c.i
        BY <4>1
      <4>2. CASE i # c.i
        <5>1. i \in 1..c.i - 1
          BY <4>2, <1>2
        <5>2. QED
          BY <5>1, <3>1 DEF Loops
      <4>3. QED
        BY <4>1, <4>2
    <3>4. (c.i + 1) - 1 = c.i
      BY <1>2
    <3>5. QED
      BY <3>1, <3>2, <3>3, <3>4
  <2>3. QED
    BY <2>1, <2>2
<1>4. Loops(st, d, tg, rq)
  BY SMTT(30), <1>1, <1>3 DEF Loops
<1>5. QED
  BY <1>4 DEF d

\* A new call has passed none.
LEMMA PushLoops ==
  ASSUME NEW st, NEW s \in Seq(Call), NEW rq,
         NEW tg \in [Module -> Seq(Module \cup {NULL})],
         Loops(st, s, tg, rq),
         NEW p \in Module
  PROVE  Loops(st, Append(s, First(p)), tg, rq)
<1> DEFINE t == Append(s, First(p))
<1>1. /\ Len(t) = Len(s) + 1
      /\ \A j \in 1..Len(s) : t[j] = s[j]
      /\ t[Len(s) + 1].m = p /\ t[Len(s) + 1].i = 1
      /\ Len(s) \in Nat
  BY PushedCalls
<1> HIDE DEF t
<1>2. ASSUME NEW j \in 1..Len(t)
      PROVE  /\ t[j].i <= Len(tg[t[j].m]) + 1
             /\ \A i \in 1..t[j].i - 1 :
                  /\ tg[t[j].m][i] = NULL => i > Len(rq[t[j].m])
                  /\ tg[t[j].m][i] # NULL => st[tg[t[j].m][i]] = "INIT_RUN"
  <2>1. CASE j = Len(s) + 1
    <3>1. Len(tg[p]) \in Nat /\ 1..1 - 1 = {}
      OBVIOUS
    <3>2. QED
      BY <3>1, <1>1, <2>1
  <2>2. CASE j # Len(s) + 1
    <3>1. j \in 1..Len(s) /\ t[j] = s[j]
      BY <1>1, <2>2
    <3>2. QED
      BY <3>1 DEF Loops
  <2>3. QED
    BY <2>1, <2>2
<1>3. Loops(st, t, tg, rq)
  BY <1>2 DEF Loops
<1>4. QED
  BY <1>3 DEF t

\* A mark is never taken away.
LEMMA MarkLoops ==
  ASSUME NEW st \in [Module -> Mark], NEW s \in Seq(Call), NEW rq,
         NEW tg \in [Module -> Seq(Module \cup {NULL})],
         Loops(st, s, tg, rq),
         NEW p \in Module
  PROVE  Loops([st EXCEPT ![p] = "INIT_RUN"], s, tg, rq)
<1> DEFINE u == [st EXCEPT ![p] = "INIT_RUN"]
<1>1. \A m : st[m] = "INIT_RUN" /\ m \in Module => u[m] = "INIT_RUN"
  OBVIOUS
<1> HIDE DEF u
<1>2. ASSUME NEW j \in 1..Len(s)
      PROVE  /\ s[j].i <= Len(tg[s[j].m]) + 1
             /\ \A i \in 1..s[j].i - 1 :
                  /\ tg[s[j].m][i] = NULL => i > Len(rq[s[j].m])
                  /\ tg[s[j].m][i] # NULL => u[tg[s[j].m][i]] = "INIT_RUN"
  <2>1. s[j] \in Call
    OBVIOUS
  <2>2. /\ s[j].m \in Module /\ s[j].i \in Nat
        /\ tg[s[j].m] \in Seq(Module \cup {NULL})
        /\ s[j].i <= Len(tg[s[j].m]) + 1
    BY <2>1 DEF Call, Loops
  <2>3. ASSUME NEW i \in 1..s[j].i - 1
        PROVE  tg[s[j].m][i] \in Module \cup {NULL}
    <3>1. i \in 1..Len(tg[s[j].m])
      BY <2>2
    <3>2. QED
      BY <3>1, <2>2
  <2>4. QED
    BY <2>2, <2>3, <1>1 DEF Loops
<1>3. Loops(u, s, tg, rq)
  BY <1>2 DEF Loops
<1>4. QED
  BY <1>3 DEF u

\* The calls below the last one keep what they have passed.
LEMMA PopLoops ==
  ASSUME NEW st, NEW s \in Seq(Call), s # <<>>, NEW tg, NEW rq, NEW l,
         Loops(st, s, tg, rq), Marks(st, s, l)
  PROVE  Loops(st, Below(s), tg, rq)
<1>1. /\ Len(Below(s)) = Len(s) - 1
      /\ \A j \in 1..Len(s) - 1 : Below(s)[j] = s[j] /\ j \in 1..Len(s)
  BY BelowCalls DEF Marks
<1> DEFINE Passed(c) ==
      /\ c.i <= Len(tg[c.m]) + 1
      /\ \A i \in 1..c.i - 1 :
           /\ tg[c.m][i] = NULL => i > Len(rq[c.m])
           /\ tg[c.m][i] # NULL => st[tg[c.m][i]] = "INIT_RUN"
<1>2. \A j \in 1..Len(s) : Passed(s[j])
  BY DEF Loops
<1> HIDE DEF Passed
<1>3. \A j \in 1..Len(Below(s)) : Passed(Below(s)[j])
  BY <1>1, <1>2
<1>4. QED
  BY <1>3 DEF Loops, Passed

\* The rank of the new call is below those of all the others.
LEMMA PushDescends ==
  ASSUME NEW s \in Seq(Call), NEW p \in Module, NEW rank \in Rank,
         Descends(s, rank),
         s # <<>> => rank[p] < rank[s[Len(s)].m]
  PROVE  Descends(Append(s, First(p)), rank)
<1> DEFINE t == Append(s, First(p))
<1>1. /\ Len(t) = Len(s) + 1
      /\ \A j \in 1..Len(s) : t[j] = s[j]
      /\ t[Len(s) + 1].m = p
      /\ Len(s) \in Nat
  BY PushedCalls
<1>2. \A j \in 1..Len(s) : s[j].m \in Module /\ rank[s[j].m] \in Nat
  <2>1. \A j \in 1..Len(s) : s[j] \in Call
    OBVIOUS
  <2>2. QED
    BY <2>1, SizeAssumption DEF Call, Rank
<1>3. rank[p] \in Nat
  BY SizeAssumption DEF Rank
<1> HIDE DEF t
<1>4. ASSUME NEW a \in 1..Len(t), NEW b \in 1..Len(t), a < b
      PROVE  rank[t[b].m] < rank[t[a].m]
  <2>1. a \in 1..Len(s) /\ t[a] = s[a]
    BY <1>1, <1>4
  <2>2. CASE b = Len(s) + 1
    <3>1. rank[p] < rank[s[Len(s)].m] /\ Len(s) \in 1..Len(s)
      BY <2>1, <1>1
    <3>2. a = Len(s) \/ rank[s[Len(s)].m] < rank[s[a].m]
      BY <2>1, <1>1 DEF Descends
    <3>3. rank[p] < rank[s[a].m]
      BY <3>1, <3>2, <2>1, <1>2, <1>3
    <3>4. QED
      BY <3>3, <2>1, <2>2, <1>1
  <2>3. CASE b # Len(s) + 1
    <3>1. b \in 1..Len(s) /\ t[b] = s[b]
      BY <2>3, <1>1
    <3>2. QED
      BY <3>1, <2>1, <1>4 DEF Descends
  <2>4. QED
    BY <2>2, <2>3
<1>5. QED
  BY <1>4 DEF Descends, t

LEMMA AdvanceDescends ==
  ASSUME NEW s \in Seq(Call), s # <<>>, NEW rank, Descends(s, rank)
  PROVE  Descends(Advanced(s), rank)
BY AdvancedCalls DEF Descends

LEMMA PopDescends ==
  ASSUME NEW s \in Seq(Call), s # <<>>, NEW st, NEW l, Marks(st, s, l),
         NEW rank, Descends(s, rank)
  PROVE  Descends(Below(s), rank)
<1>1. /\ Len(Below(s)) = Len(s) - 1
      /\ \A j \in 1..Len(s) - 1 : Below(s)[j] = s[j] /\ j \in 1..Len(s)
  BY BelowCalls DEF Marks
<1>2. QED
  BY <1>1 DEF Descends

-----------------------------------------------------------------------------
(* What the declarations resolve to.                                        *)

\* A search of the array ends at a module or at NULL.
LEMMA FindType ==
  ASSUME NEW n
  PROVE  find_module(n) \in Module \cup {NULL}
<1>1. CASE ~ \E m \in Module : decl.name[m] = n
  BY <1>1 DEF find_module
<1>2. CASE \E m \in Module : decl.name[m] = n
  <2> DEFINE T == {m \in Module : decl.name[m] = n}
  <2>1. T \subseteq Nat /\ T # {}
    BY <1>2, SizeAssumption DEF Module
  <2>2. PICK m \in T : \A l \in T : ~(<<l, m>> \in OpToRel(<, Nat))
    BY <2>1, NatLessThanWellFounded, WFMin
  <2>3. \A l \in T : ~(l < m)
    BY <2>1, <2>2 DEF OpToRel
  <2>4. \A l \in 1..m - 1 : l \in Module /\ l < m
    <3>1. m \in 1..N
      BY DEF Module
    <3> HIDE DEF T
    <3>2. QED
      BY <3>1, SizeAssumption DEF Module
  <2>5. \A l \in 1..m - 1 : decl.name[l] # n
    BY <2>3, <2>4
  <2>6. QED
    BY <1>2, <2>2, <2>5 DEF find_module
<1>3. QED
  BY <1>1, <1>2

LEMMA Concat ==
  ASSUME NEW S, NEW r \in Seq(S), NEW a \in Seq(S)
  PROVE  /\ r \o a \in Seq(S)
         /\ Len(r) <= Len(r \o a)
         /\ \A i \in 1..Len(r) : (r \o a)[i] = r[i]
<1>1. /\ r \o a \in Seq(S)
      /\ Len(r \o a) = Len(r) + Len(a)
      /\ \A i \in 1..Len(r) : (r \o a)[i] = r[i]
  OBVIOUS
<1>2. Len(r) \in Nat /\ Len(a) \in Nat
  OBVIOUS
<1>3. Len(r) <= Len(r) + Len(a)
  BY <1>2
<1>4. QED
  BY <1>1, <1>3

\* The names of the required modules come first.
LEMMA PrereqsType ==
  ASSUME decl \in Decls, NEW m \in Module
  PROVE  /\ decl.required[m] \in Seq(Name)
         /\ Prereqs(m) \in Seq(Name)
         /\ Len(decl.required[m]) \in Nat
         /\ Len(decl.required[m]) <= Len(Prereqs(m))
         /\ \A i \in 1..Len(decl.required[m]) :
              Prereqs(m)[i] = decl.required[m][i]
         /\ Len(Resolved(m)) = Len(Prereqs(m))
         /\ \A i \in 1..Len(Prereqs(m)) :
              Resolved(m)[i] = find_module(Prereqs(m)[i])
         /\ Resolved(m) \in Seq(Module \cup {NULL})
<1>1. decl.required[m] \in Seq(Name) /\ decl.load_after[m] \in Seq(Name)
  BY DeclsAssumption
<1> DEFINE r == decl.required[m]
           a == decl.load_after[m]
<1>2. /\ Prereqs(m) \in Seq(Name)
      /\ Len(r) \in Nat
      /\ Len(r) <= Len(Prereqs(m))
      /\ \A i \in 1..Len(r) : Prereqs(m)[i] = r[i]
  <2>1. /\ r \o a \in Seq(Name)
        /\ Len(r) <= Len(r \o a)
        /\ \A i \in 1..Len(r) : (r \o a)[i] = r[i]
    BY <1>1, Concat
  <2>2. Len(r) \in Nat
    BY <1>1
  <2>3. QED
    BY <2>1, <2>2 DEF Prereqs
<1>3. /\ Len(Resolved(m)) = Len(Prereqs(m))
      /\ \A i \in 1..Len(Prereqs(m)) :
           Resolved(m)[i] = find_module(Prereqs(m)[i])
      /\ Resolved(m) \in Seq(Module \cup {NULL})
  <2>1. \A i \in 1..Len(Prereqs(m)) :
          find_module(Prereqs(m)[i]) \in Module \cup {NULL}
    BY FindType
  <2>2. Len(Prereqs(m)) \in Nat
    BY <1>2
  <2> DEFINE f(i) == find_module(Prereqs(m)[i])
             n == Len(Prereqs(m))
  <2> HIDE DEF f, n
  <2>3. /\ \A i \in 1..n : f(i) \in Module \cup {NULL}
        /\ n \in Nat
    BY <2>1, <2>2 DEF f, n
  <2>4. /\ [i \in 1..n |-> f(i)] \in Seq(Module \cup {NULL})
        /\ Len([i \in 1..n |-> f(i)]) = n
        /\ \A i \in 1..n : [j \in 1..n |-> f(j)][i] = f(i)
    BY <2>3
  <2>5. QED
    BY <2>4 DEF Resolved, f, n
<1>4. QED
  BY <1>1, <1>2, <1>3

\* The declarations do not change, nor what is defined by them.
LEMMA DeclStep ==
  ASSUME decl' = decl
  PROVE  /\ \A m : Prereqs(m)' = Prereqs(m)
         /\ \A n : find_module(n)' = find_module(n)
         /\ \A m : Resolved(m)' = Resolved(m)
         /\ \A rank : IsRank(rank)' <=> IsRank(rank)
         /\ Incomplete' <=> Incomplete
<1>1. \A m : Prereqs(m)' = Prereqs(m)
  BY DEF Prereqs
<1>2. \A n : find_module(n)' = find_module(n)
  BY DEF find_module
<1>3. \A m : Resolved(m)' = Resolved(m)
  BY DEF Resolved, Prereqs, find_module
<1>4. \A rank : IsRank(rank)' <=> IsRank(rank)
  BY DEF IsRank, Prereqs, find_module
<1>5. Incomplete' <=> Incomplete
  BY DEF Incomplete, find_module
<1>6. QED
  BY <1>1, <1>2, <1>3, <1>4, <1>5

\* The parts of the invariant in terms of the operators above.
LEMMA Parts ==
  /\ Starting = In(stack)
  /\ MarkInv <=> Marks(state, stack, log)
  /\ LoopInv <=> Loops(state, stack, target, decl.required)
  /\ RankInv <=> \A rank \in Rank : IsRank(rank) => Descends(stack, rank)
<1>1. Starting = In(stack)
  BY DEF Starting, In
<1>2. MarkInv <=> Marks(state, stack, log)
  BY <1>1 DEF MarkInv, Marks, Started
<1>3. LoopInv <=> Loops(state, stack, target, decl.required)
  BY DEF LoopInv, Loops, Started
<1>4. RankInv <=> \A rank \in Rank : IsRank(rank) => Descends(stack, rank)
  BY DEF RankInv, Descends
<1>5. QED
  BY <1>1, <1>2, <1>3, <1>4

LEMMA NextParts ==
  /\ Starting' = In(stack')
  /\ MarkInv' <=> Marks(state', stack', log')
  /\ LoopInv' <=> Loops(state', stack', target', decl.required')
  /\ RankInv' <=> \A rank \in Rank : IsRank(rank)' => Descends(stack', rank)
<1>1. Starting' = In(stack')
  BY DEF Starting, In
<1>2. MarkInv' <=> Marks(state', stack', log')
  BY <1>1 DEF MarkInv, Marks, Started
<1>3. LoopInv' <=> Loops(state', stack', target', decl.required')
  BY DEF LoopInv, Loops, Started
<1>4. RankInv' <=> \A rank \in Rank : IsRank(rank)' => Descends(stack', rank)
  BY DEF RankInv, Descends
<1>5. QED
  BY <1>1, <1>2, <1>3, <1>4

\* What is known where an init_module is running.
LEMMA AtTop ==
  ASSUME IInv, phase = "init", stack # <<>>
  PROVE  /\ stack \in Seq(Call) /\ Top \in Call /\ Top.m \in Module
         /\ Top.i \in Nat \ {0}
         /\ Top.m \in Starting
         /\ target[Top.m] = Resolved(Top.m)
         /\ Len(target[Top.m]) = Len(Prereqs(Top.m))
         /\ Top.i <= Len(target[Top.m]) + 1
         /\ \A i \in 1..Len(target[Top.m]) :
              /\ target[Top.m][i] = find_module(Prereqs(Top.m)[i])
              /\ target[Top.m][i] \in Module \cup {NULL}
         /\ \A i \in 1..Top.i - 1 :
              /\ target[Top.m][i] = NULL => i > Len(decl.required[Top.m])
              /\ target[Top.m][i] # NULL => Started(target[Top.m][i])
<1>1. stack \in Seq(Call) /\ Len(stack) \in 1..Len(stack) /\ Top \in Call
  <2>1. stack \in Seq(Call)
    BY DEF IInv, TypeOK, Call
  <2>2. QED
    BY <2>1 DEF Top
<1>2. Top.m \in Module /\ Top.i \in Nat \ {0}
  BY <1>1 DEF Call
<1>3. Top.m \in Starting
  BY <1>1 DEF Top, Starting
<1>4. target[Top.m] = Resolved(Top.m)
  BY <1>2 DEF IInv, ResolveInv
<1>5. /\ Len(target[Top.m]) = Len(Prereqs(Top.m))
      /\ \A i \in 1..Len(target[Top.m]) :
           target[Top.m][i] = find_module(Prereqs(Top.m)[i])
  BY <1>2, <1>4, PrereqsType DEF IInv, TypeOK
<1>6. /\ Top.i <= Len(target[Top.m]) + 1
      /\ \A i \in 1..Top.i - 1 :
           /\ target[Top.m][i] = NULL => i > Len(decl.required[Top.m])
           /\ target[Top.m][i] # NULL => Started(target[Top.m][i])
  BY <1>1 DEF IInv, LoopInv, Top
<1>7. \A i \in 1..Len(target[Top.m]) : target[Top.m][i] \in Module \cup {NULL}
  BY <1>5, FindType
<1>8. QED
  BY <1>1, <1>2, <1>3, <1>4, <1>5, <1>6, <1>7

-----------------------------------------------------------------------------
(* The steps.                                                               *)

LEMMA InitInv == Init => IInv
<1>1. SUFFICES ASSUME Init
               PROVE  IInv
  OBVIOUS
<1>2. /\ stack = <<>> /\ log = <<>>
      /\ 1..Len(stack) = {} /\ 1..Len(log) = {} /\ Len(stack) = 0
  BY <1>1 DEF Init
<1>3. Starting = {} /\ Members(log) = {}
  BY <1>2 DEF Starting, Members
<1>4. TypeOK
  <2>1. <<>> \in Seq([m : Module, i : Nat \ {0}]) /\ <<>> \in Seq(Module)
    OBVIOUS
  <2>2. <<>> \in Seq(Module \cup {NULL})
    OBVIOUS
  <2>3. 1 \in 1..N + 1
    BY SizeAssumption
  <2>4. QED
    BY <1>1, <2>1, <2>2, <2>3 DEF Init, TypeOK
<1>5. ResolveInv
  <2>1. 1 <= N /\ 1..1 - 1 = {}
    BY SizeAssumption
  <2>2. QED
    BY <1>1, <2>1 DEF Init, ResolveInv, Started
<1>6. MarkInv
  BY <1>1, <1>2, <1>3 DEF Init, MarkInv, Started
<1>7. LoopInv /\ RankInv
  BY <1>2 DEF LoopInv, RankInv
<1>8. WalkInv /\ ReturnsComplete
  BY <1>1, <1>3 DEF Init, WalkInv, ReturnsComplete
<1>9. QED
  BY <1>4, <1>5, <1>6, <1>7, <1>8 DEF IInv

\* One module more is resolved, and none started.
LEMMA ResolveStep ==
  ASSUME IInv, Resolve
  PROVE  IInv'
<1>1. /\ phase = "resolve"
      /\ target' = [target EXCEPT ![k] = Resolved(k)]
      /\ state' = [state EXCEPT ![k] = "PREREQS_RESOLVED"]
      /\ IF k = N THEN phase' = "init" /\ k' = 1
                  ELSE phase' = phase  /\ k' = k + 1
      /\ decl' = decl /\ stack' = stack /\ log' = log
  BY DEF Resolve
<1>2. /\ k <= N /\ stack = <<>> /\ log = <<>>
      /\ \A m \in Module : ~Started(m)
      /\ \A m \in 1..k - 1 : target[m] = Resolved(m)
  BY <1>1 DEF IInv, ResolveInv
<1>3. N \in Nat /\ k \in Nat /\ k \in 1..N /\ k \in Module
  BY <1>2, SizeAssumption DEF IInv, TypeOK, Module
<1>4. /\ decl \in Decls
      /\ target \in [Module -> Seq(Module \cup {NULL})]
      /\ state \in [Module -> Mark]
  BY DEF IInv, TypeOK, Mark
<1>5. Resolved(k) \in Seq(Module \cup {NULL})
  BY <1>3, <1>4, PrereqsType
<1>6. k' \in 1..N + 1 /\ phase' \in {"resolve", "init"}
  BY <1>1, <1>3
<1>7. TypeOK'
  <2>1. target' \in [Module -> Seq(Module \cup {NULL})]
    BY <1>1, <1>4, <1>5
  <2>2. state' \in [Module -> Mark]
    BY <1>1, <1>4 DEF Mark
  <2>3. QED
    BY <1>1, <1>6, <2>1, <2>2 DEF IInv, TypeOK, Mark
<1>8. \A m \in Module : ~Started(m)'
  <2>1. \A m \in Module : state[m] # "INIT_RUN"
    BY <1>2 DEF Started
  <2>2. \A m \in Module : state'[m] # "INIT_RUN"
    BY <2>1, <1>1, <1>4
  <2>3. QED
    BY <2>2 DEF Started
<1>9. \A m \in 1..k : target'[m] = Resolved(m)'
  <2>1. \A m \in 1..k : m \in Module /\ (m = k \/ m \in 1..k - 1)
    BY <1>3 DEF Module
  <2>2. \A m \in 1..k : target'[m] = Resolved(m)
    BY <2>1, <1>1, <1>2, <1>4
  <2>3. QED
    BY <2>2, <1>1, DeclStep
<1>10. ResolveInv'
  <2>1. CASE k = N
    <3>1. phase' = "init"
      BY <1>1, <2>1
    <3>2. QED
      BY <3>1, <2>1, <1>9 DEF ResolveInv, Module
  <2>2. CASE k # N
    <3>1. phase' = "resolve" /\ k' = k + 1 /\ k' <= N /\ k' - 1 = k
      BY <1>1, <1>3, <2>2
    <3>2. QED
      BY <3>1, <1>1, <1>2, <1>8, <1>9 DEF ResolveInv
  <2>3. QED
    BY <2>1, <2>2
<1>11. /\ stack' = <<>> /\ log' = <<>>
       /\ 1..Len(stack') = {} /\ 1..Len(log') = {}
  BY <1>1, <1>2
<1>12. Starting' = {} /\ Members(log)' = {}
  BY <1>11 DEF Starting, Members
<1>13. MarkInv'
  BY <1>8, <1>11, <1>12 DEF MarkInv
<1>14. LoopInv' /\ RankInv'
  BY <1>11 DEF LoopInv, RankInv
<1>15. WalkInv' /\ ReturnsComplete'
  <2>1. phase' = "init" => k' = 1 /\ 1..k' - 1 = {}
    BY <1>1
  <2>2. phase' # "done" /\ phase' # "panic"
    BY <1>6
  <2>3. QED
    BY <2>1, <2>2, <1>12 DEF WalkInv, ReturnsComplete
<1>16. QED
  BY <1>7, <1>10, <1>13, <1>14, <1>15 DEF IInv

\* init_module(p) is called over the calls s.
LEMMA EnterStep ==
  ASSUME IInv, phase = "init", UNCHANGED <<decl, target, phase, log>>,
         NEW p \in Module, NEW s \in Seq(Call),
         Enter(p, s),
         Marks(state, s, log),
         Loops(state', s, target, decl.required),
         \A rank \in Rank : IsRank(rank) =>
           Descends(s, rank) /\ (s # <<>> => rank[p] < rank[s[Len(s)].m]),
         k' \in 1..N + 1,
         \A m \in 1..k' - 1 : Started(m) \/ m = p
  PROVE  IInv'
<1>1. /\ decl' = decl /\ target' = target /\ phase' = "init" /\ log' = log
      /\ decl \in Decls /\ log \in Seq(Module)
      /\ target \in [Module -> Seq(Module \cup {NULL})]
      /\ state \in [Module -> Mark]
  BY DEF IInv, TypeOK, Mark
<1>2. /\ stack' \in Seq(Call)
      /\ state' \in [Module -> Mark]
      /\ Marks(state', stack', log)
      /\ Loops(state', stack', target, decl.required)
      /\ \A rank \in Rank : IsRank(rank) => Descends(stack', rank)
      /\ state'[p] = "INIT_RUN"
      /\ \A m \in Module : Started(m) => state'[m] = "INIT_RUN"
  <2>1. CASE Started(p)
    <3>1. stack' = s /\ state' = state
      BY <2>1 DEF Enter
    <3>2. QED
      BY <3>1, <2>1, <1>1 DEF Started
  <2>2. CASE ~Started(p)
    <3>1. /\ stack' = Append(s, First(p))
          /\ state' = [state EXCEPT ![p] = "INIT_RUN"]
      BY <2>2 DEF Enter, First
    <3>2. stack' \in Seq(Call)
      BY <3>1, PushedCalls
    <3>3. /\ state' \in [Module -> Mark]
          /\ state'[p] = "INIT_RUN"
          /\ \A m \in Module : Started(m) => state'[m] = "INIT_RUN"
      BY <3>1, <1>1 DEF Started, Mark
    <3>4. Marks(state', stack', log)
      BY <3>1, <2>2, <1>1, PushMarks DEF Started
    <3>5. Loops(state', stack', target, decl.required)
      BY <3>1, <1>1, PushLoops
    <3>6. \A rank \in Rank : IsRank(rank) => Descends(stack', rank)
      BY <3>1, PushDescends
    <3>7. QED
      BY <3>2, <3>3, <3>4, <3>5, <3>6
  <2>3. QED
    BY <2>1, <2>2
<1>3. TypeOK'
  BY <1>1, <1>2 DEF IInv, TypeOK, Mark, Call
<1>4. ResolveInv'
  BY <1>1, DeclStep DEF IInv, ResolveInv
<1>5. MarkInv' /\ LoopInv'
  BY <1>1, <1>2, NextParts
<1>6. RankInv'
  BY <1>1, <1>2, NextParts, DeclStep
<1>7. WalkInv' /\ ReturnsComplete'
  <2>1. \A m \in 1..k' - 1 : m \in Module
    BY SizeAssumption DEF Module
  <2>2. \A m \in 1..k' - 1 : Started(m)'
    BY <2>1, <1>2 DEF Started
  <2>3. Members(log)' = Members(log)
    BY <1>1 DEF Members
  <2>4. \A m \in Members(log) : \A i \in 1..Len(decl.required[m]) :
          find_module(decl.required[m][i])' # NULL
    BY <1>1, DeclStep DEF IInv, WalkInv
  <2>5. QED
    BY <1>1, <2>2, <2>3, <2>4 DEF WalkInv, ReturnsComplete
<1>8. QED
  BY <1>3, <1>4, <1>5, <1>6, <1>7 DEF IInv

LEMMA InitModuleStep ==
  ASSUME IInv, InitModule
  PROVE  IInv'
<1>1. /\ phase = "init" /\ stack = <<>> /\ k <= N
      /\ Enter(k, stack) /\ k' = k + 1
      /\ UNCHANGED <<decl, target, phase, log>>
  BY DEF InitModule
<1>2. k \in Module /\ k' \in 1..N + 1
  BY <1>1, SizeAssumption DEF IInv, TypeOK, Module
<1>3. PICK p \in Module : p = k
  BY <1>2
<1>4. PICK s \in Seq(Call) : s = stack
  BY DEF IInv, TypeOK, Call
<1>5. Enter(p, s)
  BY <1>1, <1>3, <1>4
<1>6. Marks(state, s, log)
  BY <1>4, Parts DEF IInv
<1>7. 1..Len(s) = {} /\ s = <<>>
  BY <1>1, <1>4
<1>8. Loops(state', s, target, decl.required)
  BY <1>7 DEF Loops
<1>9. \A rank \in Rank : IsRank(rank) =>
        Descends(s, rank) /\ (s # <<>> => rank[p] < rank[s[Len(s)].m])
  BY <1>7 DEF Descends
<1>10. \A m \in 1..k' - 1 : Started(m) \/ m = p
  <2>1. k' - 1 = k /\ k \in Nat
    BY <1>1, <1>2, SizeAssumption DEF Module
  <2>2. \A m \in 1..k : m = k \/ m \in 1..k - 1
    BY <2>1
  <2>3. \A m \in 1..k - 1 : Started(m)
    BY <1>1 DEF IInv, WalkInv
  <2>4. QED
    BY <2>1, <2>2, <2>3, <1>3
<1>11. QED
  BY <1>1, <1>2, <1>5, <1>6, <1>8, <1>9, <1>10, EnterStep

LEMMA StartPrereqStep ==
  ASSUME IInv, StartPrereq
  PROVE  IInv'
<1>1. /\ phase = "init" /\ stack # <<>> /\ Top.i <= Len(target[Top.m])
      /\ target[Top.m][Top.i] # NULL
      /\ Enter(target[Top.m][Top.i], Advanced(stack))
      /\ UNCHANGED <<decl, target, phase, k, log>>
  BY DEF StartPrereq, AtPrereq
<1>2. /\ stack \in Seq(Call) /\ Top \in Call /\ Top.m \in Module
      /\ Top.i \in Nat \ {0}
      /\ Len(target[Top.m]) = Len(Prereqs(Top.m))
      /\ \A i \in 1..Len(target[Top.m]) :
           /\ target[Top.m][i] = find_module(Prereqs(Top.m)[i])
           /\ target[Top.m][i] \in Module \cup {NULL}
  BY <1>1, AtTop
<1>3. /\ state \in [Module -> Mark] /\ log \in Seq(Module)
      /\ target \in [Module -> Seq(Module \cup {NULL})]
  BY DEF IInv, TypeOK, Mark
<1>4. Top.i \in 1..Len(target[Top.m])
  BY <1>1, <1>2, <1>3
<1>5. PICK p \in Module : p = target[Top.m][Top.i]
  BY <1>1, <1>2, <1>4
<1>6. PICK c \in Call : c = Top
  BY <1>2
<1>7. PICK s \in Seq(Call) : s = Advanced(stack)
  BY <1>1, <1>2, AdvancedCalls
<1>8. c = stack[Len(stack)]
  BY <1>6 DEF Top
<1>9. Enter(p, s)
  BY <1>1, <1>5, <1>7
<1>10. Marks(state, s, log)
  BY <1>1, <1>2, <1>7, Parts, AdvanceMarks DEF IInv
<1>11. state' = [state EXCEPT ![p] = "INIT_RUN"] /\ state'[p] = "INIT_RUN"
  <2>1. CASE Started(p)
    <3>1. state' = state /\ state[p] = "INIT_RUN"
      BY <2>1, <1>9 DEF Enter, Started
    <3>2. QED
      BY <3>1, <1>3
  <2>2. CASE ~Started(p)
    BY <2>2, <1>3, <1>9 DEF Enter
  <2>3. QED
    BY <2>1, <2>2
<1>12. Loops(state', stack, target, decl.required)
  BY <1>2, <1>3, <1>11, Parts, MarkLoops DEF IInv
<1>13. Loops(state', s, target, decl.required)
  <2>1. c.i <= Len(target[c.m]) /\ target[c.m][c.i] = p /\ p # NULL
    BY <1>1, <1>5, <1>6
  <2>2. QED
    BY <2>1, <1>1, <1>2, <1>3, <1>7, <1>8, <1>11, <1>12, AdvanceLoops
<1>14. s # <<>> /\ Len(s) = Len(stack) /\ s[Len(s)].m = c.m
  <2>1. Len(stack) \in 1..Len(stack)
    BY <1>1, <1>2
  <2>2. QED
    BY <2>1, <1>1, <1>2, <1>7, <1>8, AdvancedCalls
<1>15. ASSUME NEW rank \in Rank, IsRank(rank)
       PROVE  Descends(s, rank) /\ rank[p] < rank[s[Len(s)].m]
  <2>1. Descends(stack, rank)
    BY <1>15, Parts DEF IInv
  <2>2. Descends(s, rank)
    BY <2>1, <1>1, <1>2, <1>7, AdvanceDescends
  <2>3. c.m \in Module /\ c.i \in 1..Len(Prereqs(c.m))
        /\ find_module(Prereqs(c.m)[c.i]) = p /\ p # NULL
    BY <1>1, <1>2, <1>4, <1>5, <1>6
  <2>4. rank[p] < rank[c.m]
    BY <2>3, <1>15 DEF IsRank
  <2>5. QED
    BY <2>2, <2>4, <1>14
<1>16. k' \in 1..N + 1 /\ \A m \in 1..k' - 1 : Started(m) \/ m = p
  BY <1>1 DEF IInv, TypeOK, WalkInv
<1>17. QED
  BY <1>1, <1>9, <1>10, <1>13, <1>15, <1>16, EnterStep

LEMMA SkipPrereqStep ==
  ASSUME IInv, SkipPrereq
  PROVE  IInv'
<1>1. /\ phase = "init" /\ stack # <<>> /\ Top.i <= Len(target[Top.m])
      /\ target[Top.m][Top.i] = NULL
      /\ Top.i > Len(decl.required[Top.m])
      /\ stack' = Advanced(stack)
      /\ UNCHANGED <<decl, state, target, phase, k, log>>
  BY DEF SkipPrereq, AtPrereq
<1>2. /\ stack \in Seq(Call) /\ Top \in Call
      /\ target \in [Module -> Seq(Module \cup {NULL})]
  BY <1>1, AtTop DEF IInv, TypeOK
<1>3. PICK c \in Call : c = Top
  BY <1>2
<1>4. c = stack[Len(stack)]
  BY <1>3 DEF Top
<1>5. stack' \in Seq(Call)
  BY <1>1, <1>2, AdvancedCalls
<1>6. Marks(state, stack', log)
  BY <1>1, <1>2, Parts, AdvanceMarks DEF IInv
<1>7. Loops(state, stack', target, decl.required)
  <2>1. Loops(state, stack, target, decl.required)
    BY Parts DEF IInv
  <2>2. /\ c.i <= Len(target[c.m]) /\ target[c.m][c.i] = NULL
        /\ c.i > Len(decl.required[c.m])
    BY <1>1, <1>3
  <2>3. QED
    BY <2>1, <2>2, <1>1, <1>2, <1>4, AdvanceLoops
<1>8. \A rank \in Rank : IsRank(rank) => Descends(stack', rank)
  BY <1>1, <1>2, Parts, AdvanceDescends DEF IInv
<1>9. TypeOK'
  BY <1>1, <1>5 DEF IInv, TypeOK, Call
<1>10. ResolveInv'
  BY <1>1, DeclStep DEF IInv, ResolveInv, Started
<1>11. MarkInv' /\ LoopInv' /\ RankInv'
  BY <1>1, <1>6, <1>7, <1>8, NextParts, DeclStep
<1>12. WalkInv' /\ ReturnsComplete'
  <2>1. Members(log)' = Members(log)
    BY <1>1 DEF Members
  <2>2. \A m \in Module : Started(m)' <=> Started(m)
    BY <1>1 DEF Started
  <2>3. \A m \in 1..k - 1 : Started(m)' <=> Started(m)
    BY <1>1 DEF Started
  <2>4. \A m \in Members(log) : \A i \in 1..Len(decl.required[m]) :
          find_module(decl.required[m][i])' # NULL
    BY <1>1, DeclStep DEF IInv, WalkInv
  <2>5. QED
    BY <1>1, <2>1, <2>2, <2>3, <2>4 DEF IInv, WalkInv, ReturnsComplete
<1>13. QED
  BY <1>9, <1>10, <1>11, <1>12 DEF IInv

\* Only the phase changes.
LEMMA PhaseStep ==
  ASSUME IInv, UNCHANGED <<decl, state, target, k, stack, log>>,
         phase = "init", phase' \in {"done", "panic"},
         phase' = "done" => stack = <<>> /\ \A m \in Module : Started(m),
         ReturnsComplete'
  PROVE  IInv'
<1>1. TypeOK'
  BY DEF IInv, TypeOK
<1>2. ResolveInv'
  BY DeclStep DEF IInv, ResolveInv
<1>3. MarkInv' /\ LoopInv' /\ RankInv'
  BY Parts, NextParts, DeclStep DEF IInv
<1>4. WalkInv'
  <2>1. Members(log)' = Members(log)
    BY DEF Members
  <2>2. \A m \in Members(log) : \A i \in 1..Len(decl.required[m]) :
          find_module(decl.required[m][i])' # NULL
    BY DeclStep DEF IInv, WalkInv
  <2>3. \A m \in Module : Started(m)' <=> Started(m)
    BY DEF Started
  <2>4. phase' # "init"
    OBVIOUS
  <2>5. QED
    BY <2>1, <2>2, <2>3, <2>4 DEF WalkInv
<1>5. QED
  BY <1>1, <1>2, <1>3, <1>4 DEF IInv

\* The module that is required and missing shows that the declarations are
\* incomplete.
LEMMA PanicStep ==
  ASSUME IInv, Panic
  PROVE  IInv'
<1>1. /\ phase = "init" /\ stack # <<>> /\ Top.i <= Len(target[Top.m])
      /\ target[Top.m][Top.i] = NULL
      /\ Top.i <= Len(decl.required[Top.m])
      /\ phase' = "panic"
      /\ UNCHANGED <<decl, state, target, k, stack, log>>
  BY DEF Panic, AtPrereq
<1>2. /\ Top.m \in Module /\ Top.i \in Nat \ {0}
      /\ \A i \in 1..Len(target[Top.m]) :
           target[Top.m][i] = find_module(Prereqs(Top.m)[i])
  BY <1>1, AtTop
<1>3. /\ Len(decl.required[Top.m]) \in Nat
      /\ \A i \in 1..Len(decl.required[Top.m]) :
           Prereqs(Top.m)[i] = decl.required[Top.m][i]
  BY <1>2, PrereqsType DEF IInv, TypeOK
<1>4. Top.i \in 1..Len(decl.required[Top.m])
  BY <1>1, <1>2, <1>3
<1>5. Len(target[Top.m]) \in Nat
  BY <1>2 DEF IInv, TypeOK
<1>6. Top.i \in 1..Len(target[Top.m])
  BY <1>1, <1>2, <1>5
<1>7. find_module(decl.required[Top.m][Top.i]) = NULL
  BY <1>1, <1>2, <1>3, <1>4, <1>6
<1>8. Incomplete
  BY <1>2, <1>4, <1>7 DEF Incomplete
<1>9. ReturnsComplete'
  BY <1>1, <1>8, DeclStep DEF ReturnsComplete
<1>10. QED
  BY <1>1, <1>9, PhaseStep

\* The array is at its end and nothing is on the stack: all is started.
LEMMA FinishStep ==
  ASSUME IInv, Finish
  PROVE  IInv'
<1>1. /\ phase = "init" /\ stack = <<>> /\ k > N /\ phase' = "done"
      /\ UNCHANGED <<decl, state, target, k, stack, log>>
  BY DEF Finish
<1>2. \A m \in Module : Started(m)
  <2>1. \A m \in Module : m \in 1..k - 1
    BY <1>1, SizeAssumption DEF IInv, TypeOK, Module
  <2>2. QED
    BY <2>1, <1>1 DEF IInv, WalkInv
<1>3. Starting = {}
  <2>1. 1..Len(stack) = {}
    BY <1>1
  <2>2. QED
    BY <2>1 DEF Starting
<1>4. Members(log) = Module
  <2>1. Module \subseteq Members(log)
    BY <1>2, <1>3 DEF IInv, MarkInv
  <2>2. Members(log) \subseteq Module
    BY DEF IInv, TypeOK, Members
  <2>3. QED
    BY <2>1, <2>2
<1>5. ~Incomplete
  BY <1>4 DEF IInv, WalkInv, Incomplete
<1>6. ReturnsComplete'
  <2>1. Members(log)' = Members(log)
    BY <1>1 DEF Members
  <2>2. phase' # "panic"
    BY <1>1
  <2>3. QED
    BY <2>1, <2>2, <1>1, <1>4, <1>5, DeclStep DEF ReturnsComplete
<1>7. QED
  BY <1>1, <1>2, <1>6, PhaseStep

\* The module is started when all its prerequisites are passed.
LEMMA RunInitFacts ==
  ASSUME IInv, RunInit
  PROVE  /\ Top.m \in Module
         /\ log' = Append(log, Top.m)
         /\ Top.m \notin Members(log)
         /\ \A i \in 1..Len(Prereqs(Top.m)) :
              LET p == find_module(Prereqs(Top.m)[i]) IN
              /\ p = NULL => i > Len(decl.required[Top.m])
              /\ p # NULL => p \in Module /\ Started(p)
<1>1. /\ phase = "init" /\ stack # <<>>
      /\ ~(Top.i <= Len(target[Top.m]))
      /\ log' = Append(log, Top.m)
  BY DEF RunInit, AtPrereq
<1>2. /\ Top.m \in Module /\ Top.i \in Nat \ {0}
      /\ Top.m \in Starting
      /\ Len(target[Top.m]) = Len(Prereqs(Top.m))
      /\ Top.i <= Len(target[Top.m]) + 1
      /\ \A i \in 1..Len(target[Top.m]) :
           /\ target[Top.m][i] = find_module(Prereqs(Top.m)[i])
           /\ target[Top.m][i] \in Module \cup {NULL}
      /\ \A i \in 1..Top.i - 1 :
           /\ target[Top.m][i] = NULL => i > Len(decl.required[Top.m])
           /\ target[Top.m][i] # NULL => Started(target[Top.m][i])
  BY <1>1, AtTop
<1>3. Top.m \notin Members(log)
  BY <1>2 DEF IInv, MarkInv
<1>4. Len(target[Top.m]) \in Nat
  BY <1>2 DEF IInv, TypeOK
<1>5. \A i \in 1..Len(Prereqs(Top.m)) :
        i \in 1..Len(target[Top.m]) /\ i \in 1..Top.i - 1
  BY <1>1, <1>2, <1>4
<1>6. QED
  BY <1>1, <1>2, <1>3, <1>5

LEMMA RunInitStep ==
  ASSUME IInv, RunInit
  PROVE  IInv'
<1>1. /\ phase = "init" /\ stack # <<>>
      /\ log' = Append(log, Top.m)
      /\ stack' = Below(stack)
      /\ UNCHANGED <<decl, state, target, phase, k>>
  BY DEF RunInit
<1>2. /\ stack \in Seq(Call) /\ Top.m \in Module
      /\ log \in Seq(Module)
  BY <1>1, AtTop DEF IInv, TypeOK
<1>3. PICK m \in Module : m = Top.m
  BY <1>2
<1>4. m = stack[Len(stack)].m
  BY <1>3 DEF Top
<1>5. Marks(state, stack, log) /\ Loops(state, stack, target, decl.required)
  BY Parts DEF IInv
<1>6. stack' \in Seq(Call)
  BY <1>1, <1>2, <1>5, BelowCalls DEF Marks
<1>7. /\ log' \in Seq(Module)
      /\ Members(log') = Members(log) \cup {m}
  BY <1>1, <1>2, <1>3, LoggedModules
<1>8. Marks(state, stack', log')
  BY <1>1, <1>2, <1>3, <1>4, <1>5, PopMarks
<1>9. Loops(state, stack', target, decl.required)
  BY <1>1, <1>2, <1>5, PopLoops
<1>10. \A rank \in Rank : IsRank(rank) => Descends(stack', rank)
  BY <1>1, <1>2, <1>5, Parts, PopDescends DEF IInv
<1>11. TypeOK'
  BY <1>1, <1>6, <1>7 DEF IInv, TypeOK, Call
<1>12. ResolveInv'
  BY <1>1, DeclStep DEF IInv, ResolveInv, Started
<1>13. MarkInv' /\ LoopInv' /\ RankInv'
  BY <1>1, <1>8, <1>9, <1>10, NextParts, DeclStep
<1>14. WalkInv' /\ ReturnsComplete'
  <2>1. \A i \in 1..Len(decl.required[m]) :
          find_module(decl.required[m][i]) # NULL
    <3>1. /\ Len(decl.required[m]) \in Nat
          /\ Len(decl.required[m]) <= Len(Prereqs(m))
          /\ Len(Prereqs(m)) \in Nat
          /\ \A i \in 1..Len(decl.required[m]) :
               Prereqs(m)[i] = decl.required[m][i]
      BY PrereqsType DEF IInv, TypeOK
    <3>2. \A i \in 1..Len(Prereqs(m)) :
            find_module(Prereqs(m)[i]) = NULL => i > Len(decl.required[m])
      BY <1>3, RunInitFacts
    <3>3. \A i \in 1..Len(decl.required[m]) :
            i \in 1..Len(Prereqs(m)) /\ ~(i > Len(decl.required[m]))
      BY <3>1
    <3>4. QED
      BY <3>1, <3>2, <3>3
  <2>2. \A x \in Members(log') : \A i \in 1..Len(decl.required[x]) :
          find_module(decl.required[x][i]) # NULL
    BY <2>1, <1>7 DEF IInv, WalkInv
  <2>3. \A x \in Members(log)' : \A i \in 1..Len(decl.required[x])' :
          find_module(decl.required[x][i])' # NULL
    <3>1. Members(log)' = Members(log')
      BY DEF Members
    <3>2. QED
      BY <3>1, <2>2, <1>1, DeclStep
  <2>4. \A x : Started(x)' <=> Started(x)
    BY <1>1 DEF Started
  <2>5. QED
    BY <1>1, <2>3, <2>4 DEF IInv, WalkInv, ReturnsComplete
<1>15. QED
  BY <1>11, <1>12, <1>13, <1>14 DEF IInv

LEMMA StutterStep ==
  ASSUME IInv, UNCHANGED vars
  PROVE  IInv'
<1>1. UNCHANGED <<decl, state, target, phase, k, stack, log>>
  BY DEF vars
<1>2. TypeOK' /\ ResolveInv'
  BY <1>1, DeclStep DEF IInv, TypeOK, ResolveInv, Started
<1>3. MarkInv' /\ LoopInv' /\ RankInv'
  BY <1>1, Parts, NextParts, DeclStep DEF IInv
<1>4. Members(log)' = Members(log) /\ \A x : Started(x)' <=> Started(x)
  BY <1>1 DEF Members, Started
<1>5. \A m \in Members(log) : \A i \in 1..Len(decl.required[m]) :
        find_module(decl.required[m][i])' # NULL
  BY <1>1, DeclStep DEF IInv, WalkInv
<1>6. WalkInv' /\ ReturnsComplete'
  BY <1>1, <1>4, <1>5, DeclStep DEF IInv, WalkInv, ReturnsComplete
<1>7. QED
  BY <1>2, <1>3, <1>6 DEF IInv

-----------------------------------------------------------------------------
\* The inductive invariant holds for any declarations.
THEOREM StartInvariant == Spec => []IInv
<1>1. IInv /\ [Next]_vars => IInv'
  BY ResolveStep, InitModuleStep, FinishStep, StartPrereqStep, SkipPrereqStep,
     PanicStep, RunInitStep, StutterStep DEF Next
<1>2. QED
  BY InitInv, <1>1, PTL DEF Spec

\* Every variable keeps its type.
THEOREM StartTypeCorrect == Spec => []TypeOK
<1>1. IInv => TypeOK
  BY DEF IInv
<1>2. QED
  BY StartInvariant, <1>1, PTL

\* init_modules returns with every module started, or stops for a module that
\* is really missing.
THEOREM StartComplete == Spec => []ReturnsComplete
<1>1. IInv => ReturnsComplete
  BY DEF IInv
<1>2. QED
  BY StartInvariant, <1>1, PTL

\* The recursion is never deeper than there are modules: no module is on the
\* stack twice.
THEOREM StartDepthBounded == Spec => []DepthBounded
<1>1. IInv => DepthBounded
  <2>1. SUFFICES ASSUME IInv
                 PROVE  Len(stack) <= N
    BY DEF DepthBounded
  <2>2. stack \in Seq(Call) /\ Len(stack) \in Nat
    <3>1. stack \in Seq(Call)
      BY <2>1 DEF IInv, TypeOK, Call
    <3>2. QED
      BY <3>1
  <2>3. PICK n \in Nat : n = Len(stack)
    BY <2>2
  <2> DEFINE f == [j \in 1..n |-> stack[j].m]
  <2>4. f \in [1..n -> 1..N]
    <3>1. \A j \in 1..n : stack[j] \in Call
      BY <2>2, <2>3
    <3>2. QED
      BY <3>1 DEF Call, Module
  <2>5. /\ IsFiniteSet(1..n) /\ Cardinality(1..n) = n
        /\ IsFiniteSet(1..N) /\ Cardinality(1..N) = N
    <3>1. N \in Nat /\ 1 \in Int /\ n \in Int /\ N \in Int
      BY SizeAssumption
    <3>2. /\ IsFiniteSet(1..n)
          /\ Cardinality(1..n) = IF 1 > n THEN 0 ELSE n - 1 + 1
          /\ IsFiniteSet(1..N)
          /\ Cardinality(1..N) = IF 1 > N THEN 0 ELSE N - 1 + 1
      BY <3>1, FS_Interval
    <3>3. /\ (IF 1 > n THEN 0 ELSE n - 1 + 1) = n
          /\ (IF 1 > N THEN 0 ELSE N - 1 + 1) = N
      BY <3>1
    <3>4. QED
      BY <3>2, <3>3
  <2>6. \A a, b \in 1..n : f[a] = f[b] => a = b
    <3>1. \A a, b \in 1..n : stack[a].m = stack[b].m => a = b
      BY <2>1, <2>3 DEF IInv, MarkInv
    <3>2. QED
      BY <3>1
  <2> HIDE DEF f
  <2>7. ~(N < n)
    <3>1. SUFFICES ASSUME N < n
                   PROVE  FALSE
      OBVIOUS
    <3>2. Cardinality(1..N) < Cardinality(1..n)
      BY <3>1, <2>5
    <3>3. \E a, b \in 1..n : a # b /\ f[a] = f[b]
      BY <3>2, <2>4, <2>5, FS_PigeonHole, Zenon
    <3>4. QED
      BY <3>3, <2>6
  <2>8. QED
    BY <2>3, <2>7, SizeAssumption
<1>2. QED
  BY StartInvariant, <1>1, PTL

\* Every module is started once, after its prerequisites; in a cycle, after
\* those that are not themselves waiting for it.
THEOREM StartOrderCorrect == Spec => StartedInOrder
<1> DEFINE Ordered ==
      log' # log =>
        \E m \in Module :
          /\ log' = Append(log, m)
          /\ m \notin Members(log)
          /\ \A i \in 1..Len(Prereqs(m)) :
               LET p == find_module(Prereqs(m)[i]) IN
               /\ p = NULL => i > Len(decl.required[m])
               /\ p # NULL => \/ p \in Members(log)
                              \/ p \in Starting /\ ~Acyclic
<1>1. ASSUME IInv, RunInit
      PROVE  Ordered
  <2>1. PICK m \in Module : m = Top.m
    BY <1>1, RunInitFacts
  <2>2. /\ log' = Append(log, m)
        /\ m \notin Members(log)
        /\ \A i \in 1..Len(Prereqs(m)) :
             LET p == find_module(Prereqs(m)[i]) IN
             /\ p = NULL => i > Len(decl.required[m])
             /\ p # NULL => p \in Module /\ Started(p)
    BY <1>1, <2>1, RunInitFacts
  <2>3. ASSUME NEW i \in 1..Len(Prereqs(m)),
               NEW p \in Module, p = find_module(Prereqs(m)[i]),
               p \notin Members(log)
        PROVE  p \in Starting /\ ~Acyclic
    <3>1. p # NULL
      BY NullAssumption
    <3>2. p \in Starting
      BY <3>1, <2>2, <2>3, <1>1 DEF IInv, MarkInv
    <3>3. SUFFICES ASSUME NEW rank \in Rank, IsRank(rank)
                   PROVE  FALSE
      BY <3>2 DEF Acyclic
    <3>4. rank[p] < rank[m]
      BY <3>1, <3>3, <2>3 DEF IsRank
    <3>5. PICK a \in 1..Len(stack) : stack[a].m = p
      BY <3>2 DEF Starting
    <3>6. stack \in Seq(Call) /\ stack # <<>>
      BY <1>1 DEF IInv, TypeOK, Call, RunInit
    <3>7. PICK n \in Nat : n = Len(stack)
      BY <3>6
    <3>8. stack[n].m = m
      BY <3>7, <2>1 DEF Top
    <3>9. a \in 1..n /\ (a = n \/ a < n) /\ n \in 1..n
      BY <3>5, <3>7
    <3>10. rank[p] \in Nat /\ rank[m] \in Nat
      BY SizeAssumption DEF Rank
    <3>11. a < n => rank[m] < rank[p]
      BY <3>3, <3>5, <3>7, <3>8, <3>9, <1>1 DEF IInv, RankInv
    <3>12. QED
      BY <3>4, <3>5, <3>8, <3>9, <3>10, <3>11
  <2>4. \A i \in 1..Len(Prereqs(m)) :
          LET p == find_module(Prereqs(m)[i]) IN
          /\ p = NULL => i > Len(decl.required[m])
          /\ p # NULL => \/ p \in Members(log)
                         \/ p \in Starting /\ ~Acyclic
    <3>1. SUFFICES ASSUME NEW i \in 1..Len(Prereqs(m))
                   PROVE  LET p == find_module(Prereqs(m)[i]) IN
                          /\ p = NULL => i > Len(decl.required[m])
                          /\ p # NULL => \/ p \in Members(log)
                                         \/ p \in Starting /\ ~Acyclic
      OBVIOUS
    <3> DEFINE q == find_module(Prereqs(m)[i])
    <3>2. /\ q = NULL => i > Len(decl.required[m])
          /\ q # NULL => q \in Module /\ Started(q)
      BY <2>2
    <3>3. ASSUME q # NULL, q \notin Members(log)
          PROVE  q \in Starting /\ ~Acyclic
      BY <3>2, <3>3, <2>3
    <3>4. QED
      BY <3>2, <3>3
  <2>5. QED
    BY <2>2, <2>4
<1>2. ASSUME IInv, [Next]_vars, ~RunInit
      PROVE  log' = log
  BY <1>2 DEF Next, vars, Resolve, InitModule, Finish, StartPrereq, SkipPrereq,
              Panic
<1>3. IInv /\ [Next]_vars => [Ordered]_vars
  BY <1>1, <1>2
<1>4. QED
  BY StartInvariant, <1>3, PTL DEF Spec, StartedInOrder

=============================================================================
