----------------------------- MODULE ModuleInit -----------------------------
(***************************************************************************)
(* How the kernel starts its modules (kmain.c, modules.h).  The linker     *)
(* puts the module_t of every module into one array.  init_modules walks   *)
(* it; init_module first starts what a module requires and what it wants   *)
(* to load after, by recursion, and marks the module as started before it  *)
(* does so, which is what stops the recursion when prerequisites form a    *)
(* cycle.  It runs before interrupts are turned on, alone.                 *)
(***************************************************************************)
EXTENDS Naturals, Sequences

CONSTANTS
  N,         \* the number of modules; a module is its index in the array
  Name,      \* the names that modules have, or that prerequisites give
  NULL,
  Decls      \* what the modules may declare

Module == 1..N

ASSUME SizeAssumption == N \in Nat \ {0}
ASSUME NullAssumption == NULL \notin Module
ASSUME DeclsAssumption ==
  \A d \in Decls : /\ d.name \in [Module -> Name]
                   /\ d.required \in [Module -> Seq(Name)]
                   /\ d.load_after \in [Module -> Seq(Name)]

VARIABLES
  decl,    \* the declarations; never changed
  state,   \* m->state
  target,  \* p->module for the prerequisites p of every module, in the
           \* order of init_module's two loops: required, then load_after
  phase,   \* which loop of init_modules runs; or done, or earlypanic
  k,       \* the module that the loop is at
  stack,   \* the calls of init_module: the module m, and the prerequisite i
           \* that the loops are at
  log      \* history: the modules whose init was called (or is NULL)

vars == <<decl, state, target, phase, k, stack, log>>

Members(s) == {s[i] : i \in 1..Len(s)}

\* The names of the prerequisites of m.
Prereqs(m) == decl.required[m] \o decl.load_after[m]

\* The first module of that name: the array is searched from its start.
find_module(n) ==
  IF \E m \in Module : decl.name[m] = n
    THEN CHOOSE m \in Module : /\ decl.name[m] = n
                               /\ \A l \in 1..m - 1 : decl.name[l] # n
    ELSE NULL

Resolved(m) == [i \in 1..Len(Prereqs(m)) |-> find_module(Prereqs(m)[i])]

Init ==
  /\ decl \in Decls
  /\ state = [m \in Module |-> "NOT_INITIALISED"]
  /\ target = [m \in Module |-> <<>>]
  /\ phase = "resolve"
  /\ k = 1
  /\ stack = <<>>
  /\ log = <<>>

\* The second loop of init_modules, with resolve_module.
Resolve ==
  /\ phase = "resolve"
  /\ target' = [target EXCEPT ![k] = Resolved(k)]
  /\ state' = [state EXCEPT ![k] = "PREREQS_RESOLVED"]
  /\ IF k = N THEN phase' = "init" /\ k' = 1
              ELSE phase' = phase  /\ k' = k + 1
  /\ UNCHANGED <<decl, stack, log>>

Started(m) == state[m] = "INIT_RUN"

\* mutant: the loops over the prerequisites start one too early.
EnterFromZero(m, s) ==
  IF Started(m)
    THEN stack' = s /\ UNCHANGED state
    ELSE /\ stack' = Append(s, [m |-> m, i |-> 0])
         /\ state' = [state EXCEPT ![m] = "INIT_RUN"]

\* mutant: the module is not marked before its prerequisites are started.
EnterUnmarked(m, s) ==
  IF Started(m)
    THEN stack' = s /\ UNCHANGED state
    ELSE /\ stack' = Append(s, [m |-> m, i |-> 1])
         /\ UNCHANGED state

\* The call of init_module(m) over the calls s: it returns at once when m is
\* started, or being started.
Enter(m, s) ==
  IF Started(m)
    THEN stack' = s /\ UNCHANGED state
    ELSE /\ stack' = Append(s, [m |-> m, i |-> 1])
         /\ state' = [state EXCEPT ![m] = "INIT_RUN"]

\* The third loop of init_modules.
InitModule ==
  /\ phase = "init"
  /\ stack = <<>>
  /\ k <= N
  /\ Enter(k, stack)
  /\ k' = k + 1
  /\ UNCHANGED <<decl, target, phase, log>>

\* mutant: the loop leaves the last module out.
FinishEarly ==
  /\ phase = "init"
  /\ stack = <<>>
  /\ k >= N
  /\ phase' = "done"
  /\ UNCHANGED <<decl, state, target, k, stack, log>>

\* The end of the array.
Finish ==
  /\ phase = "init"
  /\ stack = <<>>
  /\ k > N
  /\ phase' = "done"
  /\ UNCHANGED <<decl, state, target, k, stack, log>>

Top         == stack[Len(stack)]
Advanced(s) == [s EXCEPT ![Len(s)].i = @ + 1]
Below(s)    == SubSeq(s, 1, Len(s) - 1)

\* mutant: the loops leave the last prerequisite out.
AtPrereqShort == phase = "init" /\ stack # <<>> /\ Top.i < Len(target[Top.m])

\* The running init_module is at one of its prerequisites.
AtPrereq == phase = "init" /\ stack # <<>> /\ Top.i <= Len(target[Top.m])

\* A prerequisite that was found is started first.
StartPrereq ==
  /\ AtPrereq
  /\ target[Top.m][Top.i] # NULL
  /\ Enter(target[Top.m][Top.i], Advanced(stack))
  /\ UNCHANGED <<decl, target, phase, k, log>>

\* load_after names a module that is not there.
SkipPrereq ==
  /\ AtPrereq
  /\ target[Top.m][Top.i] = NULL
  /\ Top.i > Len(decl.required[Top.m])
  /\ stack' = Advanced(stack)
  /\ UNCHANGED <<decl, state, target, phase, k, log>>

\* mutant: load_after is taken for required.
PanicOnAny ==
  /\ AtPrereq
  /\ target[Top.m][Top.i] = NULL
  /\ phase' = "panic"
  /\ UNCHANGED <<decl, state, target, k, stack, log>>

\* required names a module that is not there: the kernel stops.
Panic ==
  /\ AtPrereq
  /\ target[Top.m][Top.i] = NULL
  /\ Top.i <= Len(decl.required[Top.m])
  /\ phase' = "panic"
  /\ UNCHANGED <<decl, state, target, k, stack, log>>

\* m->init(), whatever it answers, and the return.
RunInit ==
  /\ phase = "init"
  /\ stack # <<>>
  /\ ~AtPrereq
  /\ log' = Append(log, Top.m)
  /\ stack' = Below(stack)
  /\ UNCHANGED <<decl, state, target, phase, k>>

Next == \/ Resolve \/ InitModule \/ Finish
        \/ StartPrereq \/ SkipPrereq \/ Panic \/ RunInit

Spec == Init /\ [][Next]_vars
\* Nothing else runs, and nothing interrupts.
FairSpec == Spec /\ WF_vars(Next)

-----------------------------------------------------------------------------
Starting == {stack[j].m : j \in 1..Len(stack)}

TypeOK ==
  /\ decl \in Decls
  /\ state \in [Module -> {"NOT_INITIALISED", "PREREQS_RESOLVED", "INIT_RUN"}]
  /\ target \in [Module -> Seq(Module \cup {NULL})]
  /\ phase \in {"resolve", "init", "done", "panic"}
  /\ k \in 1..N + 1
  /\ stack \in Seq([m : Module, i : Nat \ {0}])
  /\ log \in Seq(Module)

\* rank shows that no module is, through others, a prerequisite of itself.
IsRank(rank) ==
  \A m \in Module : \A i \in 1..Len(Prereqs(m)) :
    LET p == find_module(Prereqs(m)[i]) IN p # NULL => rank[p] < rank[m]
Rank    == [Module -> 0..N - 1]
Acyclic == \E rank \in Rank : IsRank(rank)

\* Some module requires one that is not there.
Incomplete ==
  \E m \in Module : \E i \in 1..Len(decl.required[m]) :
    find_module(decl.required[m][i]) = NULL

\* A module's init is called once, after those of all its prerequisites; in a
\* cycle, after those that are not themselves waiting for it.
StartedInOrder ==
  [][log' # log =>
       \E m \in Module :
         /\ log' = Append(log, m)
         /\ m \notin Members(log)
         /\ \A i \in 1..Len(Prereqs(m)) :
              LET p == find_module(Prereqs(m)[i]) IN
              /\ p = NULL => i > Len(decl.required[m])
              /\ p # NULL => \/ p \in Members(log)
                             \/ p \in Starting /\ ~Acyclic]_vars

\* The recursion is no deeper than there are modules, cycles or not: it stays
\* on the 16 KiB stack of the boot code.
DepthBounded == Len(stack) <= N

\* init_modules returns with every module started, or stops for a module that
\* is really missing.
ReturnsComplete ==
  /\ phase = "done" => Members(log) = Module /\ ~Incomplete
  /\ phase = "panic" => Incomplete

\* It does one or the other: no cycle keeps it for ever.
EndsAsItMust == <>(phase = IF Incomplete THEN "panic" ELSE "done")

-----------------------------------------------------------------------------
(* The inductive invariant.                                                 *)

ResolveInv ==
  /\ phase = "resolve" =>
       /\ k <= N /\ stack = <<>> /\ log = <<>>
       /\ \A m \in Module : ~Started(m)
       /\ \A m \in 1..k - 1 : target[m] = Resolved(m)
  /\ phase # "resolve" => \A m \in Module : target[m] = Resolved(m)

\* What is marked is started or on the stack, once.
MarkInv ==
  /\ \A m \in Module : Started(m) <=> m \in Members(log) \/ m \in Starting
  /\ \A m \in Starting : m \notin Members(log)
  /\ \A a, b \in 1..Len(stack) : stack[a].m = stack[b].m => a = b
  /\ \A a, b \in 1..Len(log) : log[a] = log[b] => a = b

\* The loops behind their index: what was found is started or being started.
LoopInv ==
  \A j \in 1..Len(stack) :
    LET m == stack[j].m IN
    /\ stack[j].i <= Len(target[m]) + 1
    /\ \A i \in 1..stack[j].i - 1 :
         /\ target[m][i] = NULL => i > Len(decl.required[m])
         /\ target[m][i] # NULL => Started(target[m][i])

\* Every call on the stack is made for a prerequisite of the one below: ranks
\* go down.
RankInv ==
  \A rank \in Rank : IsRank(rank) =>
    \A a, b \in 1..Len(stack) : a < b => rank[stack[b].m] < rank[stack[a].m]

WalkInv ==
  /\ phase = "init" => \A m \in 1..k - 1 : Started(m)
  /\ phase = "done" => stack = <<>> /\ \A m \in Module : Started(m)
  /\ \A m \in Members(log) : \A i \in 1..Len(decl.required[m]) :
       find_module(decl.required[m][i]) # NULL

IInv == /\ TypeOK /\ ResolveInv /\ MarkInv /\ LoopInv /\ RankInv /\ WalkInv
        /\ ReturnsComplete

=============================================================================
