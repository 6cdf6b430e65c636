---------------------------- MODULE DshTurnProofs ----------------------------
(***************************************************************************)
(* Proofs about DshTurn, for any tools, budgets, packages, extensions and  *)
(* turns: the worker's tools stay within their limits, a successful turn   *)
(* reports the calls that were made, a failed one its first failure, a     *)
(* worker loads what was audited, and a run that is over leaves nothing.   *)
(***************************************************************************)
EXTENDS DshTurn, FiniteSetTheorems, WellFoundedInduction, TLAPS

-----------------------------------------------------------------------------
(* Sums *)

\* What a sum is over a set, given what it is over smaller ones.
Summed(f, g, s) == IF s = {} THEN 0 ELSE LET x == CHOOSE x \in s : TRUE IN f[x] + g[s \ {x}]

SumStep(f, g) == [s \in SUBSET (DOMAIN f) |-> Summed(f, g, s)]

Sums(f) == CHOOSE g : g = SumStep(f, g)

LEMMA TotalIsSum == ASSUME NEW f PROVE Total(f) = Sums(f)[DOMAIN f]
BY DEF Total, FoldFunction, FoldFunctionOnSet, MapThenFoldSet, Plus, Sums, SumStep, Summed

\* The smallest of a set of numbers, and of a set of sets.
LEMMA LeastNatural ==
    ASSUME NEW I \in SUBSET Nat, I # {}
    PROVE  \E x \in I : \A y \in I : x <= y
<1> DEFINE R == OpToRel(<, Nat)
<1>1. IsWellFoundedOn(R, Nat)
  BY NatLessThanWellFounded
<1>2. R = {ss \in Nat \X Nat : ss[1] < ss[2]}
  BY DEF OpToRel
<1> HIDE DEF R
<1>3. PICK x \in I : \A y \in I : ~(<<y, x>> \in R)
  BY <1>1, WFMin
<1>4. \A k, l \in Nat : l < k => <<l, k>> \in R
  BY <1>2
<1>5. \A y \in I : x \in Nat /\ y \in Nat /\ ~(y < x)
  BY <1>3, <1>4
<1>6. \A y \in I : x <= y
  BY <1>5
<1> QED BY <1>6

LEMMA SmallestSet ==
    ASSUME NEW D, IsFiniteSet(D), NEW B, B \subseteq SUBSET D, B # {}
    PROVE  \E s \in B : \A r \in B : ~ (r \subseteq s /\ r # s)
<1>1. B \subseteq FiniteSubsetsOf(D)
  BY FS_Subset DEF FiniteSubsetsOf
<1>2. PICK s \in B : \A r \in B : ~ (<<r, s>> \in StrictSubsetOrdering(D))
  BY <1>1, WFMin, FS_StrictSubsetOrderingWellFounded
<1> QED
  BY <1>2 DEF StrictSubsetOrdering

LEMMA Chosen ==
    ASSUME NEW s, s # {}
    PROVE  (CHOOSE x \in s : TRUE) \in s
OBVIOUS

\* A function with the sums of all sets of at most n elements.
Layer(f, n) ==
    \E g \in [SUBSET (DOMAIN f) -> Nat] :
        \A s \in SUBSET (DOMAIN f) : Cardinality(s) <= n => g[s] = Summed(f, g, s)

LEMMA SummedType ==
    ASSUME NEW f, f \in [DOMAIN f -> Nat], NEW g \in [SUBSET (DOMAIN f) -> Nat],
           NEW s \in SUBSET (DOMAIN f)
    PROVE  Summed(f, g, s) \in Nat
<1>1. CASE s = {}
  BY <1>1 DEF Summed
<1>2. CASE s # {}
  <2>1. PICK x \in s : x = CHOOSE y \in s : TRUE
    BY <1>2, Chosen
  <2>2. f[x] \in Nat /\ g[s \ {x}] \in Nat
    OBVIOUS
  <2> QED
    BY <1>2, <2>1, <2>2 DEF Summed
<1> QED
  BY <1>1, <1>2

\* Only the sums of smaller sets count.
LEMMA SummedSame ==
    ASSUME NEW f, NEW s, NEW g, NEW h,
           \A x \in s : g[s \ {x}] = h[s \ {x}]
    PROVE  Summed(f, g, s) = Summed(f, h, s)
<1>1. CASE s = {}
  BY <1>1 DEF Summed
<1>2. CASE s # {}
  <2>1. PICK x \in s : x = CHOOSE y \in s : TRUE
    BY <1>2, Chosen
  <2> QED
    BY <1>2, <2>1 DEF Summed
<1> QED
  BY <1>1, <1>2

LEMMA NextLayer ==
    ASSUME NEW f, f \in [DOMAIN f -> Nat], IsFiniteSet(DOMAIN f), NEW n \in Nat, Layer(f, n)
    PROVE  Layer(f, n + 1)
<1>1. PICK g \in [SUBSET (DOMAIN f) -> Nat] :
          \A s \in SUBSET (DOMAIN f) : Cardinality(s) <= n => g[s] = Summed(f, g, s)
  BY DEF Layer
<1> DEFINE h == [s \in SUBSET (DOMAIN f) |->
                    IF Cardinality(s) <= n THEN g[s] ELSE Summed(f, g, s)]
<1>2. h \in [SUBSET (DOMAIN f) -> Nat]
  BY SummedType
<1>3. ASSUME NEW s \in SUBSET (DOMAIN f), Cardinality(s) <= n + 1
      PROVE  h[s] = Summed(f, h, s)
  <2>1. h[s] = Summed(f, g, s)
    BY <1>1
  <2>2. ASSUME NEW x \in s PROVE g[s \ {x}] = h[s \ {x}]
    <3>1. IsFiniteSet(s) /\ Cardinality(s) \in Nat
      BY FS_Subset, FS_CardinalityType
    <3>2. Cardinality(s \ {x}) = Cardinality(s) - 1
      BY <3>1, FS_RemoveElement
    <3>3. Cardinality(s \ {x}) <= n
      BY <1>3, <3>1, <3>2
    <3>4. s \ {x} \in SUBSET (DOMAIN f)
      OBVIOUS
    <3> QED
      BY <3>3, <3>4
  <2>3. Summed(f, g, s) = Summed(f, h, s)
    BY <2>2, SummedSame
  <2> QED
    BY <2>1, <2>3
<1> QED
  BY <1>2, <1>3 DEF Layer

LEMMA AllLayers ==
    ASSUME NEW f, f \in [DOMAIN f -> Nat], IsFiniteSet(DOMAIN f), NEW n \in Nat
    PROVE  Layer(f, n)
<1> DEFINE Bad == {k \in Nat : ~Layer(f, k)}
<1> SUFFICES ASSUME Bad # {} PROVE FALSE
  OBVIOUS
<1>1. PICK k \in Bad : \A j \in Bad : k <= j
  BY LeastNatural
<1>2. CASE k = 0
  <2> DEFINE g == [s \in SUBSET (DOMAIN f) |-> 0]
  <2>1. ASSUME NEW s \in SUBSET (DOMAIN f), Cardinality(s) <= 0 PROVE g[s] = Summed(f, g, s)
    <3>1. IsFiniteSet(s) /\ Cardinality(s) \in Nat
      BY FS_Subset, FS_CardinalityType
    <3>2. s = {}
      BY <2>1, <3>1, FS_EmptySet
    <3> QED
      BY <3>2 DEF Summed
  <2>2. Layer(f, 0)
    BY <2>1 DEF Layer
  <2> QED
    BY <1>2, <2>2
<1>3. CASE k # 0
  <2>1. k - 1 \in Nat /\ ~ (k <= k - 1) /\ (k - 1) + 1 = k
    BY <1>3
  <2>2. Layer(f, k - 1)
    BY <1>1, <2>1
  <2>3. Layer(f, k)
    BY <2>1, <2>2, NextLayer
  <2> QED
    BY <2>3
<1> QED
  BY <1>2, <1>3

LEMMA SumsExist ==
    ASSUME NEW f, f \in [DOMAIN f -> Nat], IsFiniteSet(DOMAIN f)
    PROVE  /\ Sums(f) \in [SUBSET (DOMAIN f) -> Nat]
           /\ \A s \in SUBSET (DOMAIN f) : Sums(f)[s] = Summed(f, Sums(f), s)
<1>1. Cardinality(DOMAIN f) \in Nat
  BY FS_CardinalityType
<1>2. PICK g \in [SUBSET (DOMAIN f) -> Nat] :
          \A s \in SUBSET (DOMAIN f) : Cardinality(s) <= Cardinality(DOMAIN f) => g[s] = Summed(f, g, s)
  BY <1>1, AllLayers DEF Layer
<1>3. \A s \in SUBSET (DOMAIN f) : g[s] = Summed(f, g, s)
  BY <1>2, FS_Subset
<1>4. g = SumStep(f, g)
  BY <1>3 DEF SumStep
<1>5. Sums(f) = SumStep(f, Sums(f))
  BY <1>4 DEF Sums
<1>6. \A s \in SUBSET (DOMAIN f) : Sums(f)[s] = Summed(f, Sums(f), s)
  BY <1>5 DEF SumStep
<1>7. \A s \in SUBSET (DOMAIN f) : Sums(f)[s] \in Nat
  <2> DEFINE Bad == {s \in SUBSET (DOMAIN f) : Sums(f)[s] \notin Nat}
  <2> SUFFICES ASSUME Bad # {} PROVE FALSE
    OBVIOUS
  <2>0. /\ Bad \subseteq SUBSET (DOMAIN f)
        /\ \A s \in SUBSET (DOMAIN f) : s \in Bad <=> Sums(f)[s] \notin Nat
    OBVIOUS
  <2> HIDE DEF Bad
  <2>1. PICK s \in Bad : \A r \in Bad : ~ (r \subseteq s /\ r # s)
    BY <2>0, SmallestSet
  <2>2. CASE s = {}
    BY <1>6, <2>0, <2>2 DEF Summed
  <2>3. CASE s # {}
    <3>1. PICK x \in s : x = CHOOSE y \in s : TRUE
      BY <2>3, Chosen
    <3>2. Sums(f)[s \ {x}] \in Nat /\ f[x] \in Nat
      BY <2>0, <2>1
    <3> QED
      BY <1>6, <2>0, <2>3, <3>1, <3>2 DEF Summed
  <2> QED
    BY <2>2, <2>3
<1>8. Sums(f) \in [SUBSET (DOMAIN f) -> Nat]
  BY <1>5, <1>7 DEF SumStep
<1> QED
  BY <1>6, <1>8

\* Any element of a set may be the first of its sum.
LEMMA AnyFirst ==
    ASSUME NEW f, f \in [DOMAIN f -> Nat], IsFiniteSet(DOMAIN f),
           NEW s \in SUBSET (DOMAIN f), NEW y \in s
    PROVE  Sums(f)[s] = f[y] + Sums(f)[s \ {y}]
<1> DEFINE G == Sums(f)
           Fits(r) == \A z \in r : G[r] = f[z] + G[r \ {z}]
           Bad == {r \in SUBSET (DOMAIN f) : ~Fits(r)}
<1> SUFFICES ASSUME Bad # {} PROVE FALSE
  OBVIOUS
<1>0. /\ Bad \subseteq SUBSET (DOMAIN f)
      /\ \A r \in SUBSET (DOMAIN f) : r \in Bad <=> ~Fits(r)
  OBVIOUS
<1> HIDE DEF Bad
<1>1. PICK r \in Bad : \A q \in Bad : ~ (q \subseteq r /\ q # r)
  BY <1>0, SmallestSet
<1>2. PICK z \in r : G[r] # f[z] + G[r \ {z}]
  BY <1>0, <1>1
<1>3. /\ G \in [SUBSET (DOMAIN f) -> Nat]
      /\ \A q \in SUBSET (DOMAIN f) : G[q] = Summed(f, G, q)
  BY SumsExist
<1> HIDE DEF G
<1>4. PICK x \in r : x = CHOOSE y_1 \in r : TRUE
  BY <1>2, Chosen
<1>5. G[r] = f[x] + G[r \ {x}]
  BY <1>0, <1>1, <1>2, <1>3, <1>4 DEF Summed
<1>6. x # z
  BY <1>2, <1>5
<1>7. Fits(r \ {x}) /\ Fits(r \ {z})
  <2>1. r \subseteq DOMAIN f
    BY <1>0
  <2>2. ASSUME NEW q \in r PROVE Fits(r \ {q})
    <3>1. r \ {q} \in SUBSET (DOMAIN f) /\ r \ {q} \subseteq r /\ r \ {q} # r
      BY <2>1
    <3>2. r \ {q} \notin Bad
      BY <1>1, <3>1
    <3> QED
      BY <1>0, <3>1, <3>2
  <2> QED
    BY <2>2
<1>8. G[r \ {x}] = f[z] + G[(r \ {x}) \ {z}] /\ G[r \ {z}] = f[x] + G[(r \ {z}) \ {x}]
  BY <1>2, <1>6, <1>7
<1>9. PICK w \in Nat : w = G[(r \ {z}) \ {x}] /\ w = G[(r \ {x}) \ {z}]
  <2>1. (r \ {x}) \ {z} = (r \ {z}) \ {x} /\ (r \ {z}) \ {x} \in SUBSET (DOMAIN f)
    BY <1>0
  <2> QED
    BY <1>3, <2>1
<1>10. f[x] \in Nat /\ f[z] \in Nat
  BY <1>0, <1>2
<1>11. G[r] = f[x] + (f[z] + w) /\ f[z] + G[r \ {z}] = f[z] + (f[x] + w)
  BY <1>5, <1>8, <1>9
<1> QED
  BY <1>2, <1>10, <1>11

LEMMA SumOfNothing ==
    ASSUME NEW f, f \in [DOMAIN f -> Nat], IsFiniteSet(DOMAIN f)
    PROVE  Sums(f)[{}] = 0
BY SumsExist DEF Summed

\* A sum grows with its terms.
LEMMA SumsGrow ==
    ASSUME NEW S, IsFiniteSet(S), NEW f \in [S -> Nat], NEW h \in [S -> Nat],
           NEW s \in SUBSET S, \A x \in s : f[x] <= h[x]
    PROVE  Sums(f)[s] <= Sums(h)[s]
<1> DEFINE F == Sums(f)
           H == Sums(h)
           Bad == {r \in SUBSET s : ~ (F[r] <= H[r])}
<1> SUFFICES ASSUME Bad # {} PROVE FALSE
  OBVIOUS
<1>0. /\ Bad \subseteq SUBSET s
      /\ \A r \in SUBSET s : r \in Bad <=> ~ (F[r] <= H[r])
      /\ DOMAIN f = S /\ DOMAIN h = S
  OBVIOUS
<1> HIDE DEF Bad
<1>1. IsFiniteSet(s)
  BY FS_Subset
<1>2. PICK r \in Bad : \A q \in Bad : ~ (q \subseteq r /\ q # r)
  BY <1>0, <1>1, SmallestSet
<1>3. /\ F \in [SUBSET S -> Nat] /\ H \in [SUBSET S -> Nat]
      /\ F[{}] = 0 /\ H[{}] = 0
  BY <1>0, SumsExist, SumOfNothing
<1>4. ASSUME NEW q \in SUBSET S, NEW z \in q
      PROVE  F[q] = f[z] + F[q \ {z}] /\ H[q] = h[z] + H[q \ {z}]
  <2>1. F[q] = f[z] + F[q \ {z}]
    BY <1>0, AnyFirst
  <2>2. H[q] = h[z] + H[q \ {z}]
    BY <1>0, AnyFirst
  <2> QED
    BY <2>1, <2>2
<1> HIDE DEF F, H
<1>5. PICK z \in r : TRUE
  <2>1. r # {}
    <3> SUFFICES ASSUME r = {} PROVE FALSE
      OBVIOUS
    <3> QED
      BY <1>0, <1>2, <1>3
  <2> QED
    BY <2>1
<1>6. F[r] = f[z] + F[r \ {z}] /\ H[r] = h[z] + H[r \ {z}]
  BY <1>0, <1>2, <1>4
<1>7. F[r \ {z}] <= H[r \ {z}] /\ F[r \ {z}] \in Nat /\ H[r \ {z}] \in Nat
  BY <1>0, <1>2, <1>3
<1>8. f[z] <= h[z] /\ f[z] \in Nat /\ h[z] \in Nat
  BY <1>0, <1>2
<1>9. F[r] <= H[r]
  BY <1>6, <1>7, <1>8
<1> QED
  BY <1>0, <1>2, <1>9

-----------------------------------------------------------------------------
(* Totals *)

LEMMA TotalType ==
    ASSUME NEW S, IsFiniteSet(S), NEW f \in [S -> Nat]
    PROVE  Total(f) \in Nat
BY TotalIsSum, SumsExist

LEMMA TotalGrows ==
    ASSUME NEW S, IsFiniteSet(S), NEW f \in [S -> Nat], NEW h \in [S -> Nat],
           \A x \in S : f[x] <= h[x]
    PROVE  Total(f) <= Total(h)
BY TotalIsSum, SumsGrow

LEMMA TotalOfZeros ==
    ASSUME NEW S, IsFiniteSet(S), NEW f \in [S -> Nat], \A x \in S : f[x] = 0
    PROVE  Total(f) = 0
<1> DEFINE F == Sums(f)
           Bad == {r \in SUBSET S : F[r] # 0}
<1> SUFFICES ASSUME Bad # {} PROVE FALSE
  BY TotalIsSum
<1>0. /\ Bad \subseteq SUBSET S /\ DOMAIN f = S
      /\ \A r \in SUBSET S : r \in Bad <=> F[r] # 0
  OBVIOUS
<1> HIDE DEF Bad
<1>1. PICK r \in Bad : \A q \in Bad : ~ (q \subseteq r /\ q # r)
  BY <1>0, SmallestSet
<1>2. PICK z \in r : TRUE
  BY <1>0, <1>1, SumOfNothing
<1>3. F[r] = f[z] + F[r \ {z}]
  BY <1>0, <1>2, AnyFirst
<1>4. F[r \ {z}] = 0
  BY <1>0, <1>1, <1>2
<1>5. f[z] = 0
  BY <1>0, <1>2
<1> QED
  BY <1>0, <1>1, <1>3, <1>4, <1>5

LEMMA TotalOfFirst ==
    ASSUME NEW S, IsFiniteSet(S), NEW f \in [S -> Nat], NEW x \in S
    PROVE  Total(f) = f[x] + Sums(f)[S \ {x}]
<1>1. DOMAIN f = S /\ S \in SUBSET S
  OBVIOUS
<1>2. Sums(f)[S] = f[x] + Sums(f)[S \ {x}]
  BY <1>1, AnyFirst
<1> QED
  BY <1>1, <1>2, TotalIsSum

\* One more of one term is one more in all.
LEMMA TotalOfOneMore ==
    ASSUME NEW S, IsFiniteSet(S), NEW f \in [S -> Nat], NEW x \in S
    PROVE  Total([f EXCEPT ![x] = @ + 1]) = Total(f) + 1
<1> SUFFICES ASSUME NEW h, h = [f EXCEPT ![x] = @ + 1]
             PROVE  Total(h) = Total(f) + 1
  OBVIOUS
<1>1. /\ h \in [S -> Nat] /\ h[x] = f[x] + 1 /\ \A z \in S \ {x} : h[z] = f[z]
      /\ DOMAIN h = S /\ DOMAIN f = S
  OBVIOUS
<1>0. /\ f[x] \in Nat /\ h[x] \in Nat /\ S \ {x} \in SUBSET S
      /\ \A z \in S \ {x} : f[z] <= h[z] /\ h[z] <= f[z]
  BY <1>1
<1>2. Total(f) = f[x] + Sums(f)[S \ {x}] /\ Total(h) = h[x] + Sums(h)[S \ {x}]
  BY <1>1, TotalOfFirst
<1>3. Sums(f)[S \ {x}] <= Sums(h)[S \ {x}] /\ Sums(h)[S \ {x}] <= Sums(f)[S \ {x}]
  BY <1>0, <1>1, SumsGrow
<1>4. Sums(f)[S \ {x}] \in Nat /\ Sums(h)[S \ {x}] \in Nat /\ f[x] \in Nat
  BY <1>1, SumsExist
<1> QED
  BY <1>1, <1>2, <1>3, <1>4

-----------------------------------------------------------------------------
(* The inductive invariant *)

\* What a turn has met so far is what it will be told to have failed with.
Told ==
    /\ at # "run" => stopped = "none" /\ exit = "none"
    /\ at \in {"setup", "repair", "between"} => failure = "none" /\ cause = "none"
    /\ at = "run" => failure = "none" /\ cause = stopped
    /\ at \in {"observe", "audit", "counts", "cleanup", "over"} => failure = cause
    /\ at \notin {"setup", "over"} => step = "prepare"

\* Only a process that was stopped may go on behind its turn.
Ended ==
    /\ failure = "none" /\ at # "run" => ~alive
    /\ ~alive => request = "none"

Creating == at = "setup" /\ step = "create"

Gone ==
    /\ Creating => runtime = "none" /\ network = "none"
    /\ ~Creating /\ at # "over" => runtime = "ready"
    /\ at = "over" => /\ runtime \in {"disposed", "abandoned"}
                      /\ failure = "none" => runtime = "disposed"
    /\ network = "up" => named /\ at \notin {"between", "over"}
    /\ network = "late" => failure # "none"
    /\ at = "over" => request \in {"none", "unheeded"}

\* The proxy is there while the turn needs it.
ProxyKept ==
    /\ at = "setup" => proxy = IF step = "measure" THEN "open" ELSE "none"
    /\ at \in {"run", "repair", "observe", "audit", "counts"} => proxy = "open"
    /\ at = "cleanup" /\ failure = "none" => proxy = "open"
    /\ at = "between" => proxy = "closed"
    /\ at = "over" => /\ proxy # "open"
                      /\ failure = "none" => proxy = "closed"

\* What a worker may load.
RuntimeIn ==
    \A n \in RuntimePackages :
        /\ n \in DOMAIN modules /\ modules[n].exact /\ modules[n].name = n
        /\ n \in DOMAIN lock.packages /\ lock.packages[n] = ProperEntry

ExtensionsIn ==
    /\ Verified(modules)
    /\ \A d \in Dependencies : d \in DOMAIN lock.packages /\ lock.packages[d] = ProperEntry
    /\ lock.dependencies = RuntimePackages \cup Dependencies

Audited == RuntimeIn /\ ExtensionsIn
Loadable == Audited /\ PluginsWithin(modules)

PlainModules == [n \in RuntimePackages |-> Proper(n)]
PlainLock == [dependencies |-> RuntimePackages,
              packages |-> [n \in RuntimePackages |-> ProperEntry]]
Plain == modules = PlainModules /\ lock = PlainLock

Recorded == baseline = IF Dependencies = {} THEN {}
                       ELSE {[inventory |-> Inventory(PlainModules), lock |-> Snapshot(PlainLock)]}

Left == modules \in ModulesLeft /\ lock \in LocksLeft

\* The packages at each phase of setup; the audit is done once.
In(phases) == at = "setup" /\ step \in phases
Known == Dependencies # {} => auditedLock # {}
Unaudited == auditedLock = {}

Packages ==
    /\ specifiers => PluginsWithin(modules)
    /\ auditedLock # {} => Dependencies # {} /\ Audited
    /\ In({"create", "prepare", "bind"}) => (modules = Nothing /\ Unaudited) \/ (Loadable /\ Known)
    /\ In({"install"}) => modules = Nothing /\ Unaudited
    /\ In({"baseline"}) => Plain /\ Unaudited
    /\ In({"compose"}) => (Plain /\ Recorded /\ Unaudited) \/ (Loadable /\ Known)
    /\ In({"extend"}) => Plain /\ Recorded /\ Unaudited /\ Dependencies # {}
    /\ In({"verify"}) => Dependencies # {} /\ (Audited \/ (Left /\ Recorded))
    /\ In({"finalize"}) => Audited /\ Known
    /\ In({"network", "inspect", "proxy", "measure"}) => Loadable /\ Known
    /\ at # "setup" /\ failure = "none" => Loadable /\ Known
    /\ alive => Loadable

\* Reservations on disk are never behind what was started, and those in memory never behind them.
InGroup(g) == {t \in Tools : GroupOf[t] = g}
Started(g) == Total([t \in InGroup(g) |-> ran[t]])
Pending(S) == IF \E x \in charging : x[2] \in S THEN 1 ELSE 0

Reserves(made, onDisk, inMemory, max) ==
    /\ made <= onDisk /\ onDisk <= max
    /\ alive => onDisk <= inMemory /\ inMemory <= max

ToolBudgets == \A t \in Tools :
    Reserves(ran[t] + Pending({t}), disk.tools[t], memory.tools[t], MaxCalls[t])
GroupBudgets == \A g \in Groups :
    Reserves(Started(g) + Pending(InGroup(g)), disk.groups[g], memory.groups[g], GroupMaxCalls[g])

Budgets == (\A x, y \in charging : x = y) /\ ToolBudgets /\ GroupBudgets

\* The account of a turn: its lines in the log, its calls, its charges.
Auditing == at \in {"run", "repair", "observe", "audit", "counts"}

Lines == (offset + 1)..Len(log)
Starts == {i \in Lines : log[i].phase = "started"}
Spent == Total(disk.tools) - Total(before.tools)

StartsCounted == \A i \in Lines : log[i].phase = "started" => log[i].counted
CallsLogged == \A x \in running \cup finished :
    \E i \in Lines : log[i] = Line("started", x[1], x[2], TRUE)

\* A result of a call that was never admitted; its charge has no other line.
Stray == \E i \in Lines : /\ log[i].phase = "completed" /\ log[i].counted
                          /\ <<log[i].call, log[i].tool>> \notin finished
Charges ==
    /\ Cardinality(Starts) + Pending(Tools) <= Spent
    /\ Stray => Cardinality(Starts) + Pending(Tools) + 1 <= Spent

Kept == offset <= Len(log) /\ StartsCounted /\ CallsLogged /\ Charges
Account ==
    /\ Auditing => Kept
    /\ at = "counts" /\ failure = "none" => events = Gained(offset) /\ WellFormed(events)

TrueAccount ==
    /\ {<<r.call, r.tool>> : r \in CountedIn(receipts)} = finished
    /\ \A r \in receipts : r.completed
    /\ Spent = Cardinality(finished)

Reconciled == at = "between" \/ (at = "cleanup" /\ failure = "none") => TrueAccount

TurnInv ==
    /\ TypeOK /\ Told /\ Ended /\ Gone /\ ProxyKept
    /\ Packages /\ Budgets /\ Account /\ Reconciled

-----------------------------------------------------------------------------
(* Types *)

\* The tools of a worker leave the audit's files well typed.
LEMMA LineType ==
    ASSUME NEW phase \in {"started", "completed"}, NEW c \in CallIds, NEW t \in Tools,
           NEW isCounted \in BOOLEAN
    PROVE  Line(phase, c, t, isCounted) \in Event
BY Zenon DEF Line, Event

LEMMA LogsType ==
    ASSUME AuditTypeOK, NEW phase \in {"started", "completed"}, NEW c \in CallIds, NEW t \in Tools,
           NEW isCounted \in BOOLEAN, Logs(phase, c, t, isCounted)
    PROVE  log' \in Seq(Event) /\ Len(log') <= MaxEvents
<1>1. Line(phase, c, t, isCounted) \in Event
  BY LineType
<1> QED
  BY <1>1, AuditAssumption DEF Logs, AuditTypeOK

LEMMA ChargedType ==
    ASSUME memory \in Counts, NEW t \in Tools
    PROVE  Charged(t) \in Counts
<1>1. memory.tools \in [Tools -> Nat] /\ memory.groups \in [Groups -> Nat]
  BY DEF Counts
<1>2. [memory.tools EXCEPT ![t] = @ + 1] \in [Tools -> Nat]
  BY <1>1
<1>3. [memory.groups EXCEPT ![GroupOf[t]] = @ + 1] \in [Groups -> Nat]
  BY <1>1, AuditAssumption
<1> QED
  BY <1>2, <1>3 DEF Charged, Counts

LEMMA CallsType ==
    ASSUME AuditTypeOK, Calls
    PROVE  AuditTypeOK'
<1> USE AuditAssumption
<1>0. PICK c \in CallIds, t \in Tools :
        \/ Refuse(c, t) \/ Charge(c, t) \/ ChargeFails(c, t)
        \/ Admit(c, t) \/ AdmitFails(c, t)
        \/ Finish(c, t) \/ FinishUnwritten(c, t)
  BY DEF Calls
<1>1. /\ alive' \in BOOLEAN /\ torn' \in BOOLEAN
  BY <1>0, Zenon DEF AuditTypeOK, Refuse, Charge, ChargeFails, Admit, AdmitFails, Finish,
     FinishUnwritten, workerVars
<1>2. memory' \in Counts /\ disk' \in Counts
  BY <1>0, ChargedType DEF AuditTypeOK, Refuse, Charge, ChargeFails, Admit, AdmitFails, Finish,
     FinishUnwritten, workerVars
<1>3. charging' \subseteq Call /\ running' \subseteq Call /\ counted' \subseteq CallIds
  <2>1. <<c, t>> \in Call
    BY DEF Call
  <2>2. charging' \in {charging, {}, {<<c, t>>}}
    BY <1>0, Zenon DEF Refuse, Charge, ChargeFails, Admit, AdmitFails, Finish, FinishUnwritten,
       workerVars
  <2>3. running' \in {running, running \cup {<<c, t>>}, running \ {<<c, t>>}}
    BY <1>0, Zenon DEF Refuse, Charge, ChargeFails, Admit, AdmitFails, Finish, FinishUnwritten,
       workerVars
  <2>4. counted' \in {counted, counted \cup {c}, counted \ {c}}
    BY <1>0, Zenon DEF Refuse, Charge, ChargeFails, Admit, AdmitFails, Finish, FinishUnwritten,
       workerVars
  <2> QED
    BY <2>1, <2>2, <2>3, <2>4 DEF AuditTypeOK
<1>4. log' \in Seq(Event) /\ Len(log') <= MaxEvents
  <2>1. (c \in counted) \in BOOLEAN
    OBVIOUS
  <2>2. UNCHANGED log \/ \E phase \in {"started", "completed"}, b \in BOOLEAN : Logs(phase, c, t, b)
    BY <1>0, <2>1, Zenon DEF Refuse, Charge, ChargeFails, Admit, AdmitFails, Finish, FinishUnwritten
  <2> QED
    BY <2>2, LogsType DEF AuditTypeOK
<1>5. writeFaults' \in 0..MaxWriteFaults
  <2>1. UNCHANGED writeFaults \/ Fault
    BY <1>0, Zenon DEF Refuse, Charge, ChargeFails, Admit, AdmitFails, Finish, FinishUnwritten
  <2> QED
    BY <2>1 DEF AuditTypeOK, Fault
<1>6. ran' \in [Tools -> Nat]
  <2>1. UNCHANGED ran \/ ran' = [ran EXCEPT ![t] = @ + 1]
    BY <1>0, Zenon DEF Refuse, Charge, ChargeFails, Admit, AdmitFails, Finish, FinishUnwritten
  <2>2. ran \in [Tools -> Nat]
    BY DEF AuditTypeOK
  <2> QED
    BY <2>1, <2>2
<1> QED
  BY <1>1, <1>2, <1>3, <1>4, <1>5, <1>6 DEF AuditTypeOK

LEMMA AuditSame ==
    ASSUME AuditTypeOK, UNCHANGED auditVars
    PROVE  AuditTypeOK'
BY Zenon DEF AuditTypeOK, auditVars, workerVars, fileVars

LEMMA WorkerEndsType ==
    ASSUME AuditTypeOK, WorkerEnds
    PROVE  AuditTypeOK'
<1>1. torn' \in BOOLEAN /\ alive' \in BOOLEAN
  BY Zenon DEF AuditTypeOK, WorkerEnds
<1> QED
  BY <1>1, Zenon DEF AuditTypeOK, WorkerEnds

LEMMA PackagesSame ==
    ASSUME PackageTypeOK, UNCHANGED packageVars
    PROVE  PackageTypeOK'
BY Zenon DEF PackageTypeOK, packageVars

-----------------------------------------------------------------------------
(* The kinds of steps *)

\* What a step does with the tools' files, with the packages, and with what is around a worker.
LEMMA AuditSteps ==
    ASSUME [Next]_vars
    PROVE  UNCHANGED auditVars \/ WorkerCalls \/ WorkerExits \/ OrphanEnds \/ StartWorker
  BY Zenon DEF Next, Supervisor, SetUp, CreateRuntime, Prepare, Bind, Install, Baseline,
     Compose, Extend, Verify, Finalize, CreateNetwork, InspectNetwork, StartProxy,
     SetUpFails, TimesOut, Close, Repaired, RepairFails, Observe, ReadReceipts, Reconcile,
     AuditFails, AuditGivenUp, CleanUp, NextTurn, LoopEnds, Overflows, RunAborts,
     WorkerAsks, Elsewhere, Passes, auditVars, vars, Stop

LEMMA PackageSteps ==
    ASSUME [Next]_vars
    PROVE  UNCHANGED packageVars \/ Install \/ Baseline \/ Extend \/ Verify \/ Finalize
  BY Zenon DEF Next, Supervisor, SetUp, CreateRuntime, Prepare, Bind, Compose,
     CreateNetwork, InspectNetwork, StartProxy, StartWorker, SetUpFails, TimesOut, Close,
     Repaired, RepairFails, Observe, ReadReceipts, Reconcile, AuditFails, AuditGivenUp,
     CleanUp, NextTurn, LoopEnds, Overflows, RunAborts, WorkerCalls, WorkerAsks,
     WorkerExits, OrphanEnds, Elsewhere, Passes, aroundVars, packageVars, vars

LEMMA ResourceSteps ==
    ASSUME [Next]_vars
    PROVE  \/ UNCHANGED resourceVars
           \/ CreateRuntime \/ Bind \/ CreateNetwork \/ StartProxy \/ SetUpFails
           \/ CleanUp \/ NextTurn \/ LoopEnds
           \/ WorkerAsks \/ WorkerExits \/ OrphanEnds \/ Elsewhere
  BY Zenon DEF Next, Supervisor, SetUp, Prepare, Install, Baseline, Compose, Extend, Verify,
     Finalize, InspectNetwork, StartWorker, TimesOut, Close, Repaired, RepairFails, Observe,
     ReadReceipts, Reconcile, AuditFails, AuditGivenUp, Overflows, RunAborts, WorkerCalls,
     Passes, aroundVars, resourceVars, vars

-----------------------------------------------------------------------------
(* Types, step by step *)

\* What npm may leave is well typed, and so is what the lock installs.
LEMMA ProperType ==
    ASSUME NEW n \in Manifest
    PROVE  Proper(n) \in Installed /\ ProperEntry \in Entry
<1>1. TRUE \in BOOLEAN
  OBVIOUS
<1> QED
  BY <1>1, Zenon DEF Proper, ProperEntry, Installed, Entry

LEMMA ModulesLeftType ==
    ASSUME NEW m \in ModulesLeft
    PROVE  DOMAIN m \subseteq Manifest /\ \A n \in DOMAIN m : m[n] \in Installed
<1> DEFINE right == [n \in Manifest |-> Proper(n)]
<1>0. right \in [Manifest -> Installed]
  BY ProperType
<1>1. CASE m = right
  BY <1>0, <1>1
<1>2. CASE \E n \in Manifest : m = Without(n, right)
  BY <1>0, <1>2 DEF Without, Restrict
<1>3. CASE \E n \in Manifest, p \in Installed : m = [right EXCEPT ![n] = p]
  BY <1>0, <1>3
<1> QED
  BY <1>1, <1>2, <1>3 DEF ModulesLeft

LEMMA LocksLeftType ==
    ASSUME NEW l \in LocksLeft
    PROVE  /\ l.dependencies \subseteq Manifest
           /\ DOMAIN l.packages \subseteq Manifest
           /\ \A n \in DOMAIN l.packages : l.packages[n] \in Entry
<1> DEFINE right == [n \in Manifest |-> ProperEntry]
<1>0. right \in [Manifest -> Entry]
  BY ProperType
<1>1. CASE \E d \in SUBSET Manifest : l = [dependencies |-> d, packages |-> right]
  BY <1>0, <1>1
<1>2. CASE \E n \in Manifest : l = [dependencies |-> Manifest, packages |-> Without(n, right)]
  BY <1>0, <1>2 DEF Without, Restrict
<1>3. CASE \E n \in Manifest, e \in Entry :
              l = [dependencies |-> Manifest, packages |-> [right EXCEPT ![n] = e]]
  BY <1>0, <1>3
<1> QED
  BY <1>1, <1>2, <1>3 DEF LocksLeft

LEMMA AtMostOne ==
    ASSUME NEW x
    PROVE  Cardinality({}) <= 1 /\ Cardinality({x}) <= 1
<1>1. Cardinality({}) = 0 /\ Cardinality({x}) = 1
  BY FS_EmptySet, FS_Singleton, Zenon
<1> QED
  BY <1>1

LEMMA PackageTypeStep ==
    ASSUME PackageTypeOK, [Next]_vars
    PROVE  PackageTypeOK'
<1>1. CASE Install
  <2>1. \A n \in RuntimePackages : n \in Manifest
    BY DEF Manifest
  <2>2. modules' = [n \in RuntimePackages |-> Proper(n)]
    BY <1>1 DEF Install, InstallsRuntime
  <2>3. lock' = [dependencies |-> RuntimePackages,
                 packages |-> [n \in RuntimePackages |-> ProperEntry]]
    BY <1>1 DEF Install, InstallsRuntime
  <2>4. UNCHANGED <<baseline, auditedLock, specifiers>>
    BY <1>1 DEF Install
  <2>5. lock'.dependencies \subseteq Manifest /\ \A n \in DOMAIN lock'.packages : lock'.packages[n] \in Entry
    BY <2>1, <2>3, ProperType
  <2>6. DOMAIN modules' \subseteq Manifest /\ \A n \in DOMAIN modules' : modules'[n] \in Installed
    BY <2>1, <2>2, ProperType
  <2> QED
    BY <2>4, <2>5, <2>6, Zenon DEF PackageTypeOK
<1>2. CASE Baseline
  <2>1. baseline' = {} \/ \E b : baseline' = {b}
    BY <1>2, Zenon DEF Baseline, CaptureBaseline
  <2>2. Cardinality(baseline') <= 1
    BY <2>1, AtMostOne
  <2> QED
    BY <1>2, <2>2, Zenon DEF PackageTypeOK, Baseline, CaptureBaseline
<1>3. CASE Extend
  <2>1. modules' \in ModulesLeft /\ lock' \in LocksLeft /\ UNCHANGED <<baseline, auditedLock, specifiers>>
    BY <1>3 DEF Extend, InstallsExtensions
  <2>2. DOMAIN modules' \subseteq Manifest /\ \A n \in DOMAIN modules' : modules'[n] \in Installed
    BY <2>1, ModulesLeftType
  <2>3. lock'.dependencies \subseteq Manifest /\ \A n \in DOMAIN lock'.packages : lock'.packages[n] \in Entry
    BY <2>1, LocksLeftType
  <2> QED
    BY <2>1, <2>2, <2>3, Zenon DEF PackageTypeOK
<1>4. CASE Verify
  <2>1. Cardinality(auditedLock') <= 1
    BY <1>4, AtMostOne DEF Verify
  <2> QED
    BY <1>4, <2>1, Zenon DEF PackageTypeOK, Verify
<1>5. CASE Finalize
  <2>1. specifiers' \in BOOLEAN
    BY <1>5, Zenon DEF Finalize
  <2> QED
    BY <1>5, <2>1, Zenon DEF PackageTypeOK, Finalize
<1> QED
  BY <1>1, <1>2, <1>3, <1>4, <1>5, PackageSteps, PackagesSame, Zenon

LEMMA AuditTypeStep ==
    ASSUME AuditTypeOK, [Next]_vars
    PROVE  AuditTypeOK'
<1>1. CASE StartWorker
  <2>1. alive' \in BOOLEAN
    BY <1>1, Zenon DEF StartWorker, WorkerStarts
  <2>2. /\ memory' = disk /\ charging' = {} /\ running' = {} /\ counted' = {}
        /\ UNCHANGED <<disk, log, torn, writeFaults, ran>>
    BY <1>1, Zenon DEF StartWorker, WorkerStarts, fileVars
  <2>3. charging' \subseteq Call /\ running' \subseteq Call /\ counted' \subseteq CallIds
    BY <2>2
  <2> QED
    BY <2>1, <2>2, <2>3, Zenon DEF AuditTypeOK
<1> QED
  BY <1>1, AuditSteps, AuditSame, CallsType, WorkerEndsType, Zenon DEF WorkerCalls, WorkerExits,
     OrphanEnds

LEMMA ResourceTypeStep ==
    ASSUME ResourceTypeOK, at \in {"setup", "between"} => turn \in DOMAIN Requests, [Next]_vars
    PROVE  ResourceTypeOK'
<1>1. runtime' \in {"none", "ready", "abandoned", "disposed"}
  BY ResourceSteps DEF ResourceTypeOK, resourceVars, CreateRuntime, RuntimeReady, Bind,
     CreateNetwork,
     StartProxy, SetUpFails, Leaves, RuntimeFails, RuntimeAbandoned, CleanUp, DisposeRuntime, NextTurn,
     LoopEnds, WorkerAsks, RequestArrives, WorkerExits, OrphanEnds, Elsewhere, BodyRead, RequestEnds,
     RuntimeArrives, NetworkArrives, ProxyArrives
<1>2. network' \in {"none", "up", "late", "kept"}
  BY ResourceSteps DEF ResourceTypeOK, resourceVars, CreateRuntime, Bind, CreateNetwork,
     NetworkCreated,
     StartProxy, SetUpFails, Leaves, NetworkRefused, CleanUp, RemoveNetwork, NextTurn,
     LoopEnds, WorkerAsks, RequestArrives, WorkerExits, OrphanEnds, Elsewhere, BodyRead, RequestEnds,
     RuntimeArrives, NetworkArrives, ProxyArrives
<1>3. named' \in BOOLEAN
  BY ResourceSteps, Zenon DEF ResourceTypeOK, resourceVars, CreateRuntime, Bind, CreateNetwork,
     NetworkCreated,
     StartProxy, SetUpFails, Leaves, NetworkRefused, CleanUp, RemoveNetwork, NextTurn,
     LoopEnds, WorkerAsks, RequestArrives, WorkerExits, OrphanEnds, Elsewhere, BodyRead, RequestEnds,
     RuntimeArrives, NetworkArrives, ProxyArrives
<1>4. proxy' \in {"none", "open", "abandoned", "closed"}
  BY ResourceSteps DEF ResourceTypeOK, resourceVars, CreateRuntime, Bind, CreateNetwork,
     StartProxy, ProxyOpens, SetUpFails, Leaves, ProxyAbandoned, CleanUp, CloseProxy, NextTurn,
     LoopEnds, WorkerAsks, RequestArrives, WorkerExits, OrphanEnds, Elsewhere, BodyRead, RequestEnds,
     RuntimeArrives, NetworkArrives, ProxyArrives
<1>5. request' \in {"none", "reading", "upstream", "unheeded"}
  BY ResourceSteps DEF ResourceTypeOK, resourceVars, CreateRuntime, Bind, CreateNetwork,
     StartProxy, SetUpFails, Leaves, CleanUp, CloseProxy, NextTurn, ConnectionLost,
     LoopEnds, WorkerAsks, RequestArrives, WorkerExits, OrphanEnds, Elsewhere, BodyRead, RequestEnds,
     RuntimeArrives, NetworkArrives, ProxyArrives
<1>6. binding' \subseteq Binding /\ Cardinality(binding') <= 1
  <2>1. CASE Bind
    <3>1. PICK b \in Requests[turn] : binding' = {b}
      BY <2>1 DEF Bind, Binds
    <3>2. turn \in DOMAIN Requests
      BY <2>1 DEF Bind, Passes
    <3> QED
      BY <3>1, <3>2, ResourceAssumption, AtMostOne
  <2>2. UNCHANGED binding \/ Bind
    BY ResourceSteps, Zenon DEF resourceVars, CreateRuntime, CreateNetwork,
       StartProxy, SetUpFails, Leaves, CleanUp, NextTurn,
       LoopEnds, WorkerAsks, RequestArrives, WorkerExits, OrphanEnds, Elsewhere, BodyRead, RequestEnds,
       RuntimeArrives, NetworkArrives, ProxyArrives
  <2> QED
    BY <2>1, <2>2, Zenon DEF ResourceTypeOK
<1> QED
  BY <1>1, <1>2, <1>3, <1>4, <1>5, <1>6 DEF ResourceTypeOK

\* The rest of the Controller's state.
LEMMA ControllerTypeStep ==
    ASSUME TypeOK, [Next]_vars
    PROVE  /\ at' \in {"setup", "run", "repair", "observe", "audit", "counts", "cleanup", "between", "over"}
           /\ step' \in Range(Steps)
           /\ turn' \in 1..MaxTurns
           /\ stopped' \in Stops \cup {"none"}
           /\ exit' \in Exits \cup {"none"}
           /\ failure' \in Failures \cup {"none"} /\ cause' \in Failures \cup {"none"}
           /\ aborted' \in BOOLEAN
<1>0. Range(Steps) = {"create", "prepare", "bind", "install", "baseline", "compose", "extend",
                      "verify", "finalize", "network", "inspect", "proxy", "measure"}
  <2>1. DOMAIN Steps = 1..13
    BY DEF Steps
  <2>2. \A i \in 1..13 : i \in {1, 2, 3, 4, 5, 6, 7, 8, 9, 10, 11, 12, 13}
    OBVIOUS
  <2> QED
    BY <2>1, <2>2 DEF Steps, Range
<1>1. at' \in {"setup", "run", "repair", "observe", "audit", "counts", "cleanup", "between", "over"}
  BY DEF TypeOK,
     Next, Supervisor, SetUp, CreateRuntime, Prepare, Bind, Install, Baseline, Compose,
     Extend, Verify, Finalize, CreateNetwork, InspectNetwork, StartProxy, StartWorker,
     SetUpFails, TimesOut, Close, Repaired, RepairFails, Observe, ReadReceipts, Reconcile,
     AuditFails, AuditGivenUp, CleanUp, NextTurn, LoopEnds, Overflows, RunAborts,
     WorkerCalls, WorkerAsks, WorkerExits, OrphanEnds, Elsewhere, Passes, turnVars, vars,
     outcomeVars, measureVars
<1>2. step' \in Range(Steps)
  BY <1>0 DEF TypeOK,
     Next, Supervisor, SetUp, CreateRuntime, Prepare, Bind, Install, Baseline, Compose,
     Extend, Verify, Finalize, CreateNetwork, InspectNetwork, StartProxy, StartWorker,
     SetUpFails, TimesOut, Close, Repaired, RepairFails, Observe, ReadReceipts, Reconcile,
     AuditFails, AuditGivenUp, CleanUp, NextTurn, LoopEnds, Overflows, RunAborts,
     WorkerCalls, WorkerAsks, WorkerExits, OrphanEnds, Elsewhere, Passes, turnVars, vars,
     outcomeVars, measureVars
<1>3. turn' \in 1..MaxTurns
  <2>1. UNCHANGED turn \/ NextTurn
    BY Zenon DEF
       Next, Supervisor, SetUp, CreateRuntime, Prepare, Bind, Install, Baseline, Compose,
       Extend, Verify, Finalize, CreateNetwork, InspectNetwork, StartProxy, StartWorker,
       SetUpFails, TimesOut, Close, Repaired, RepairFails, Observe, ReadReceipts, Reconcile,
       AuditFails, AuditGivenUp, CleanUp, LoopEnds, Overflows, RunAborts, WorkerCalls,
       WorkerAsks, WorkerExits, OrphanEnds, Elsewhere, Passes, turnVars, vars, outcomeVars,
       measureVars
  <2> QED
    BY <2>1, TurnAssumption DEF TypeOK, NextTurn
<1>4. stopped' \in Stops \cup {"none"}
  BY DEF TypeOK, Stop, Stops,
     Next, Supervisor, SetUp, CreateRuntime, Prepare, Bind, Install, Baseline, Compose,
     Extend, Verify, Finalize, CreateNetwork, InspectNetwork, StartProxy, StartWorker,
     SetUpFails, TimesOut, Close, Repaired, RepairFails, Observe, ReadReceipts, Reconcile,
     AuditFails, AuditGivenUp, CleanUp, NextTurn, LoopEnds, Overflows, RunAborts,
     WorkerCalls, WorkerAsks, WorkerExits, OrphanEnds, Elsewhere, Passes, turnVars, vars,
     outcomeVars, measureVars
<1>5. exit' \in Exits \cup {"none"}
  BY DEF TypeOK, Exits, Clean,
     Next, Supervisor, SetUp, CreateRuntime, Prepare, Bind, Install, Baseline, Compose,
     Extend, Verify, Finalize, CreateNetwork, InspectNetwork, StartProxy, StartWorker,
     SetUpFails, TimesOut, Close, Repaired, RepairFails, Observe, ReadReceipts, Reconcile,
     AuditFails, AuditGivenUp, CleanUp, NextTurn, LoopEnds, Overflows, RunAborts,
     WorkerCalls, WorkerAsks, WorkerExits, OrphanEnds, Elsewhere, Passes, turnVars, vars,
     outcomeVars, measureVars
<1>6. failure' \in Failures \cup {"none"} /\ cause' \in Failures \cup {"none"}
  BY DEF TypeOK, Failures, Stops, Stop, Meets, First, PhaseErrors, LaterFailure, ProcessFailure,
     Next, Supervisor, SetUp, CreateRuntime, Prepare, Bind, Install, Baseline, Compose,
     Extend, Verify, Finalize, CreateNetwork, InspectNetwork, StartProxy, StartWorker,
     SetUpFails, TimesOut, Close, Repaired, RepairFails, Observe, ReadReceipts, Reconcile,
     AuditFails, AuditGivenUp, CleanUp, NextTurn, LoopEnds, Overflows, RunAborts,
     WorkerCalls, WorkerAsks, WorkerExits, OrphanEnds, Elsewhere, Passes, turnVars, vars,
     outcomeVars, measureVars
<1>7. aborted' \in BOOLEAN
  BY Zenon DEF TypeOK,
     Next, Supervisor, SetUp, CreateRuntime, Prepare, Bind, Install, Baseline, Compose,
     Extend, Verify, Finalize, CreateNetwork, InspectNetwork, StartProxy, StartWorker,
     SetUpFails, TimesOut, Close, Repaired, RepairFails, Observe, ReadReceipts, Reconcile,
     AuditFails, AuditGivenUp, CleanUp, NextTurn, LoopEnds, Overflows, RunAborts,
     WorkerCalls, WorkerAsks, WorkerExits, OrphanEnds, Elsewhere, Passes, turnVars, vars,
     outcomeVars, measureVars
<1> QED
  BY <1>1, <1>2, <1>3, <1>4, <1>5, <1>6, <1>7

\* And of what it has measured and read.
LEMMA MeasureTypeStep ==
    ASSUME TypeOK, [Next]_vars
    PROVE  /\ offset' \in 0..MaxEvents /\ before' \in Counts
           /\ events' \in Seq(Event) /\ receipts' \subseteq Receipt
           /\ finished' \subseteq Call
<1>1. UNCHANGED <<offset, before>> \/ StartWorker
  BY Zenon DEF
     Next, Supervisor, SetUp, CreateRuntime, Prepare, Bind, Install, Baseline, Compose,
     Extend, Verify, Finalize, CreateNetwork, InspectNetwork, StartProxy, SetUpFails,
     TimesOut, Close, Repaired, RepairFails, Observe, ReadReceipts, Reconcile, AuditFails,
     AuditGivenUp, CleanUp, NextTurn, LoopEnds, Overflows, RunAborts, WorkerCalls,
     WorkerAsks, WorkerExits, OrphanEnds, Elsewhere, Passes, turnVars, vars, outcomeVars,
     measureVars
<1>2. offset' \in 0..MaxEvents /\ before' \in Counts
  BY <1>1, AuditAssumption DEF TypeOK, AuditTypeOK, StartWorker
<1>3. events' = events \/ events' = <<>> \/ events' = Gained(offset)
  BY Zenon DEF
     Next, Supervisor, SetUp, CreateRuntime, Prepare, Bind, Install, Baseline, Compose,
     Extend, Verify, Finalize, CreateNetwork, InspectNetwork, StartProxy, StartWorker,
     SetUpFails, TimesOut, Close, Repaired, RepairFails, Observe, ReadReceipts, Reconcile,
     AuditFails, AuditGivenUp, CleanUp, NextTurn, LoopEnds, Overflows, RunAborts,
     WorkerCalls, WorkerAsks, WorkerExits, OrphanEnds, Elsewhere, Passes, turnVars, vars,
     outcomeVars, measureVars
<1>4. Gained(offset) \in Seq(Event)
  BY AuditAssumption DEF Gained, TypeOK, AuditTypeOK
<1>5. receipts' = receipts \/ receipts' = {} \/ receipts' = ReceiptsOf(events)
  BY Zenon DEF
     Next, Supervisor, SetUp, CreateRuntime, Prepare, Bind, Install, Baseline, Compose,
     Extend, Verify, Finalize, CreateNetwork, InspectNetwork, StartProxy, StartWorker,
     SetUpFails, TimesOut, Close, Repaired, RepairFails, Observe, ReadReceipts, Reconcile,
     AuditFails, AuditGivenUp, CleanUp, NextTurn, LoopEnds, Overflows, RunAborts,
     WorkerCalls, WorkerAsks, WorkerExits, OrphanEnds, Elsewhere, Passes, turnVars, vars,
     outcomeVars, measureVars
<1>6. ReceiptsOf(events) \subseteq Receipt
  <2>1. SUFFICES ASSUME NEW e \in Range(events), NEW b \in BOOLEAN
                 PROVE  [call |-> e.call, tool |-> e.tool, counted |-> e.counted, completed |-> b]
                          \in Receipt
    <3>1. \A e : ([e EXCEPT !.phase = "completed"] \in Range(events)) \in BOOLEAN
      OBVIOUS
    <3> QED
      BY <2>1, <3>1, Zenon DEF ReceiptsOf
  <2>2. e \in Event
    BY DEF Range, TypeOK
  <2> QED
    BY <2>2, Zenon DEF Event, Receipt
<1>7. finished' = finished \/ finished' = {} \/ (WorkerCalls /\ finished' = finished \cup (running \ running'))
  BY Zenon DEF
     Next, Supervisor, SetUp, CreateRuntime, Prepare, Bind, Install, Baseline, Compose,
     Extend, Verify, Finalize, CreateNetwork, InspectNetwork, StartProxy, StartWorker,
     SetUpFails, TimesOut, Close, Repaired, RepairFails, Observe, ReadReceipts, Reconcile,
     AuditFails, AuditGivenUp, CleanUp, NextTurn, LoopEnds, Overflows, RunAborts,
     WorkerCalls, WorkerAsks, WorkerExits, OrphanEnds, Elsewhere, Passes, turnVars, vars,
     outcomeVars, measureVars
<1>8. events \in Seq(Event) /\ receipts \subseteq Receipt /\ finished \subseteq Call /\ running \subseteq Call
  BY Zenon DEF TypeOK, AuditTypeOK
<1>9. events' \in Seq(Event)
  <2>1. <<>> \in Seq(Event)
    OBVIOUS
  <2> QED
    BY <1>3, <1>4, <1>8, <2>1, Zenon
<1>10. receipts' \subseteq Receipt
  BY <1>5, <1>6, <1>8
<1>11. finished' \subseteq Call
  BY <1>7, <1>8
<1> QED
  BY <1>2, <1>9, <1>10, <1>11

LEMMA TypeStep == TypeOK /\ [Next]_vars => TypeOK'
<1> SUFFICES ASSUME TypeOK, [Next]_vars PROVE TypeOK'
  OBVIOUS
<1>1. turn \in DOMAIN Requests
  BY TurnAssumption DEF TypeOK
<1>2. AuditTypeOK' /\ PackageTypeOK' /\ ResourceTypeOK'
  BY <1>1, AuditTypeStep, PackageTypeStep, ResourceTypeStep DEF TypeOK
<1> QED
  BY <1>2, ControllerTypeStep, MeasureTypeStep, Zenon DEF TypeOK

LEMMA TypeInit == Init => TypeOK
<1> SUFFICES ASSUME Init PROVE TypeOK
  OBVIOUS
<1>1. AuditTypeOK
  <2>1. NoCalls \in Counts /\ [t \in Tools |-> 0] \in [Tools -> Nat]
    BY DEF NoCalls, Counts
  <2>2. alive \in BOOLEAN /\ torn \in BOOLEAN
    BY Zenon DEF Init, AuditInit
  <2>3. log \in Seq(Event) /\ Len(log) <= MaxEvents /\ writeFaults \in 0..MaxWriteFaults
    BY AuditAssumption DEF Init, AuditInit
  <2> QED
    BY <2>1, <2>2, <2>3 DEF Init, AuditInit, AuditTypeOK
<1>2. PackageTypeOK
  <2>1. specifiers \in BOOLEAN
    BY Zenon DEF Init, PackageInit
  <2>2. Cardinality({}) <= 1
    BY AtMostOne
  <2> QED
    BY <2>1, <2>2 DEF Init, PackageInit, PackageTypeOK, Nothing, NoLock
<1>3. ResourceTypeOK
  <2>1. named \in BOOLEAN
    BY Zenon DEF Init, ResourceInit
  <2> QED
    BY <2>1, AtMostOne DEF Init, ResourceInit, ResourceTypeOK
<1>4. aborted \in BOOLEAN
  BY Zenon DEF Init
<1>5. step \in Range(Steps)
  BY DEF Init, Range, Steps
<1>6. turn \in 1..MaxTurns /\ offset \in 0..MaxEvents
  BY TurnAssumption, AuditAssumption DEF Init
<1>7. before \in Counts
  BY DEF Init, NoCalls, Counts
<1> QED
  BY <1>1, <1>2, <1>3, <1>4, <1>5, <1>6, <1>7 DEF Init, TypeOK

-----------------------------------------------------------------------------
(* Failures, and what is around a worker *)

LEMMA ToldStep == TypeOK /\ Told /\ [Next]_vars => Told'
<1> SUFFICES ASSUME TypeOK, Told, [Next]_vars PROVE Told'
  OBVIOUS
<1>1. CASE SetUp
  BY <1>1 DEF Told, SetUp, CreateRuntime, Prepare, Bind, Install, Baseline, Compose, Extend, Verify,
     Finalize, CreateNetwork, InspectNetwork, StartProxy, StartWorker, Passes, outcomeVars
<1>2. CASE SetUpFails
  BY <1>2 DEF Told, SetUpFails, PhaseErrors, Meets, First
<1>3. CASE TimesOut \/ Overflows \/ RunAborts
  BY <1>3 DEF Told, TimesOut, Overflows, RunAborts, Stop, Meets, First
<1>4. CASE Close
  <2>1. stopped # "none" => ProcessFailure = stopped
    BY DEF ProcessFailure
  <2>2. at = "run" /\ failure = "none" /\ cause = stopped /\ step = "prepare"
    BY <1>4 DEF Close, Told
  <2>3. /\ at' \in {"repair", "observe"} /\ stopped' = "none" /\ exit' = "none"
        /\ step' = "prepare"
    BY <1>4, <2>2 DEF Close
  <2>4. CASE UNCHANGED <<failure, cause>> /\ ProcessFailure = "none"
    BY <2>1, <2>2, <2>3, <2>4 DEF Told
  <2>5. CASE \E error : /\ stopped # "none" => error = stopped
                        /\ at' = "observe" /\ failure' = error /\ Meets(error)
    BY <2>2, <2>3, <2>5 DEF Told, Meets, First
  <2>6. ProcessFailure = "none" \/ ~UNCHANGED <<failure, cause>> \/ at' = "observe"
    BY <1>4 DEF Close
  <2> QED
    BY <1>4, <2>1, <2>4, <2>5 DEF Close
<1>5. CASE Repaired \/ RepairFails \/ Observe
  BY <1>5 DEF Told, Repaired, RepairFails, Observe, PhaseErrors, Meets, First, LaterFailure
<1>6. CASE ReadReceipts \/ Reconcile \/ AuditFails \/ AuditGivenUp
  BY <1>6 DEF Told, ReadReceipts, Reconcile, AuditFails, AuditGivenUp, PhaseErrors, Meets, First,
     LaterFailure
<1>7. CASE CleanUp \/ NextTurn \/ LoopEnds
  BY <1>7 DEF Told, CleanUp, NextTurn, LoopEnds, outcomeVars
<1>8. CASE WorkerCalls \/ WorkerExits
  BY <1>8 DEF Told, WorkerCalls, WorkerExits, outcomeVars
<1>9. CASE UNCHANGED turnVars
  BY <1>9 DEF Told, turnVars
<1> QED
  <2>1. WorkerAsks \/ OrphanEnds \/ Elsewhere \/ UNCHANGED vars => UNCHANGED turnVars
    BY Zenon DEF WorkerAsks, OrphanEnds, Elsewhere, vars
  <2> QED
    BY <1>1, <1>2, <1>3, <1>4, <1>5, <1>6, <1>7, <1>8, <1>9, <2>1 DEF Next, Supervisor

\* A turn that has met no failure has waited for its worker.
LEMMA EndedStep == TypeOK /\ Told /\ Ended /\ [Next]_vars => Ended'
<1> SUFFICES ASSUME TypeOK, Told, Ended, [Next]_vars PROVE Ended'
  OBVIOUS
<1>1. CASE SetUp
  BY <1>1 DEF Told, Ended, SetUp, CreateRuntime, Prepare, Bind, Install, Baseline, Compose,
     Extend, Verify,
     Finalize, CreateNetwork, InspectNetwork, StartProxy, StartWorker, Passes, outcomeVars, auditVars,
     workerVars, WorkerStarts, resourceVars, aroundVars
<1>2. CASE SetUpFails
  BY <1>2 DEF Told, Ended, SetUpFails, PhaseErrors, Leaves, auditVars, workerVars, resourceVars
<1>3. CASE TimesOut \/ Overflows \/ RunAborts
  BY <1>3 DEF Ended, TimesOut, Overflows, RunAborts, Stop, auditVars, workerVars, aroundVars,
     resourceVars
<1>4. CASE Close
  BY <1>4 DEF Told, Ended, Close, Meets, First, ProcessFailure, TypeOK, Exits, Clean, Stops,
     ClientGone,
     auditVars, workerVars, aroundVars, resourceVars
<1>5. CASE Repaired \/ RepairFails \/ Observe
  BY <1>5 DEF Told, Ended, Repaired, RepairFails, Observe, PhaseErrors, LaterFailure, First,
     auditVars, workerVars, aroundVars, resourceVars
<1>6. CASE ReadReceipts \/ Reconcile \/ AuditFails \/ AuditGivenUp
  BY <1>6 DEF Ended, ReadReceipts, Reconcile, AuditFails, AuditGivenUp, PhaseErrors, First,
     LaterFailure, auditVars, workerVars, aroundVars, resourceVars
<1>7. CASE CleanUp \/ NextTurn \/ LoopEnds
  BY <1>7 DEF Ended, CleanUp, NextTurn, LoopEnds, CloseProxy, outcomeVars, auditVars, workerVars
<1>8. CASE WorkerCalls
  <2>1. UNCHANGED <<at, alive, request, failure>>
    BY <1>8 DEF WorkerCalls, Calls, Refuse, Charge, ChargeFails, Admit, AdmitFails, Finish,
       FinishUnwritten, workerVars, aroundVars, resourceVars, outcomeVars
  <2> QED
    BY <2>1 DEF Ended
<1>9. CASE WorkerExits \/ OrphanEnds
  BY <1>9 DEF Ended, WorkerExits, OrphanEnds, WorkerEnds, ConnectionLost
<1>10. CASE WorkerAsks \/ Elsewhere
  BY <1>10 DEF Ended, WorkerAsks, Elsewhere, RequestArrives, BodyRead, RequestEnds, RuntimeArrives,
     NetworkArrives, ProxyArrives, turnVars, auditVars, workerVars
<1>11. CASE UNCHANGED vars
  BY <1>11 DEF Ended, vars, turnVars, auditVars, workerVars, aroundVars, resourceVars
<1> QED
  BY <1>1, <1>2, <1>3, <1>4, <1>5, <1>6, <1>7, <1>8, <1>9, <1>10, <1>11 DEF Next, Supervisor

LEMMA GoneStep == TypeOK /\ Told /\ Ended /\ Gone /\ ProxyKept /\ [Next]_vars => Gone' /\ ProxyKept'
<1> SUFFICES ASSUME TypeOK, Told, Ended, Gone, ProxyKept, [Next]_vars PROVE Gone' /\ ProxyKept'
  OBVIOUS
<1>1. CASE SetUp
  <2>1. CASE CreateRuntime
    BY <2>1 DEF Told, Gone, ProxyKept, Creating, CreateRuntime, RuntimeReady, Passes, outcomeVars
  <2>2. CASE Prepare \/ Bind \/ Install \/ Baseline
    BY <2>2 DEF Told, Gone, ProxyKept, Creating, Prepare, Bind, Install, Baseline, Passes,
       outcomeVars,
       aroundVars, resourceVars
  <2>3. CASE Compose \/ Extend \/ Verify \/ Finalize
    BY <2>3 DEF Told, Gone, ProxyKept, Creating, Compose, Extend, Verify, Finalize, Passes,
       outcomeVars,
       aroundVars, resourceVars
  <2>4. CASE CreateNetwork \/ InspectNetwork
    BY <2>4 DEF Told, Gone, ProxyKept, Creating, CreateNetwork, InspectNetwork, NetworkCreated,
       Passes, outcomeVars, aroundVars, resourceVars
  <2>5. CASE StartProxy \/ StartWorker
    BY <2>5 DEF Told, Gone, ProxyKept, Creating, StartProxy, ProxyOpens, StartWorker,
       Passes, outcomeVars, aroundVars, resourceVars
  <2> QED
    BY <1>1, <2>1, <2>2, <2>3, <2>4, <2>5 DEF SetUp
<1>2. CASE SetUpFails
  BY <1>2 DEF Told, Ended, Gone, ProxyKept, Creating, SetUpFails, PhaseErrors, Leaves,
     RuntimeAbandoned,
     RuntimeFails, NetworkRefused, ProxyAbandoned, resourceVars
<1>3. CASE TimesOut \/ Overflows \/ RunAborts
  BY <1>3 DEF Gone, ProxyKept, Creating, TimesOut, Overflows, RunAborts, Stop, aroundVars,
     resourceVars
<1>4. CASE Close
  BY <1>4 DEF Told, Gone, ProxyKept, Creating, Close, Meets, First, aroundVars, resourceVars
<1>5. CASE Repaired \/ RepairFails \/ Observe
  BY <1>5 DEF Told, Gone, ProxyKept, Creating, Repaired, RepairFails, Observe, PhaseErrors,
     LaterFailure,
     First, aroundVars, resourceVars
<1>6. CASE ReadReceipts \/ Reconcile \/ AuditFails \/ AuditGivenUp
  BY <1>6 DEF Gone, ProxyKept, Creating, ReadReceipts, Reconcile, AuditFails, AuditGivenUp,
     PhaseErrors,
     First, LaterFailure, aroundVars, resourceVars
<1>7. CASE CleanUp
  BY <1>7 DEF Told, Gone, ProxyKept, Creating, CleanUp, CloseProxy, RemoveNetwork, DisposeRuntime,
     outcomeVars, TypeOK, ResourceTypeOK
<1>8. CASE NextTurn \/ LoopEnds
  BY <1>8 DEF Told, Ended, Gone, ProxyKept, Creating, NextTurn, LoopEnds, DisposeRuntime,
     outcomeVars
<1>9. CASE WorkerCalls
  BY <1>9 DEF Gone, ProxyKept, Creating, WorkerCalls, outcomeVars, aroundVars, resourceVars
<1>10. CASE WorkerExits \/ OrphanEnds
  BY <1>10 DEF Gone, ProxyKept, Creating, WorkerExits, OrphanEnds, ConnectionLost, turnVars
<1>11. CASE WorkerAsks
  BY <1>11 DEF Gone, ProxyKept, Creating, WorkerAsks, RequestArrives, turnVars
<1>12. CASE Elsewhere
  BY <1>12 DEF Gone, ProxyKept, Creating, Elsewhere, BodyRead, RequestEnds, RuntimeArrives,
     NetworkArrives, ProxyArrives, turnVars
<1>13. CASE UNCHANGED vars
  BY <1>13 DEF Gone, ProxyKept, Creating, vars, turnVars, aroundVars, resourceVars
<1> QED
  BY <1>1, <1>2, <1>3, <1>4, <1>5, <1>6, <1>7, <1>8, <1>9, <1>10, <1>11, <1>12, <1>13
     DEF Next, Supervisor

-----------------------------------------------------------------------------
(* The packages a worker loads *)

\* npm leaves each package under its own name, but for one at most, and the inventory allows no
\* other place for a package of the runtime.
LEMMA PackageAtItsPlace ==
    ASSUME NEW m \in ModulesLeft, Unambiguous(m), NEW n \in RuntimePackages,
           [name |-> n, exact |-> TRUE] \in Inventory(m)
    PROVE  n \in DOMAIN m /\ m[n].exact /\ m[n].name = n
<1> DEFINE right == [o \in Manifest |-> Proper(o)]
<1>1. PICK k \in DOMAIN m : [name |-> n, exact |-> TRUE] = [name |-> m[k].name, exact |-> m[k].exact]
  BY DEF Inventory
<1>2. m[k].name = n /\ m[k].exact
  BY <1>1
<1>3. n \in Manifest
  BY DEF Manifest
<1>4. k = n
  <2>1. CASE m = right
    BY <1>2, <2>1 DEF Proper
  <2>2. CASE \E o \in Manifest : m = Without(o, right)
    BY <1>2, <2>2 DEF Without, Restrict, Proper
  <2>3. CASE \E o \in Manifest, p \in Installed : m = [right EXCEPT ![o] = p]
    <3>1. PICK o \in Manifest, p \in Installed : m = [right EXCEPT ![o] = p]
      BY <2>3
    <3>2. DOMAIN m = Manifest /\ \A q \in Manifest \ {o} : m[q].name = q
      BY <3>1 DEF Proper
    <3>3. CASE n = o
      BY <1>2, <3>2, <3>3
    <3>4. CASE n # o
      BY <1>2, <1>3, <3>2, <3>4 DEF Unambiguous
    <3> QED
      BY <3>3, <3>4
  <2> QED
    BY <2>1, <2>2, <2>3 DEF ModulesLeft
<1> QED
  BY <1>2, <1>4

\* What passes the audit of a fresh installation is what the plan and the lock of the action name.
LEMMA FreshIsAudited ==
    ASSUME PackageTypeOK, Left, Recorded, FreshHolds
    PROVE  Audited
<1>1. PICK b \in baseline :
        /\ InventoryUnchanged(b.inventory, modules)
        /\ Verified(modules)
        /\ LockHolds(lock, b.lock)
  BY DEF FreshHolds
<1>2. b.inventory = Inventory(PlainModules) /\ b.lock = Snapshot(PlainLock)
  BY <1>1 DEF Recorded
<1>3. /\ b.lock.dependencies = RuntimePackages
      /\ DOMAIN b.lock.packages = RuntimePackages
      /\ \A n \in RuntimePackages : b.lock.packages[n] = ProperEntry
  BY <1>2 DEF Snapshot, PlainLock
<1>4. \A n \in RuntimePackages : [name |-> n, exact |-> TRUE] \in Inventory(PlainModules)
  <2>1. SUFFICES ASSUME NEW n \in RuntimePackages
                 PROVE  [name |-> n, exact |-> TRUE] \in Inventory(PlainModules)
    OBVIOUS
  <2>2. n \in DOMAIN PlainModules /\ PlainModules[n].name = n /\ PlainModules[n].exact = TRUE
    BY DEF PlainModules, Proper
  <2> QED
    BY <2>2, Zenon DEF Inventory
<1>5. RuntimeIn
  <2>1. SUFFICES ASSUME NEW n \in RuntimePackages
                 PROVE  /\ n \in DOMAIN modules /\ modules[n].exact /\ modules[n].name = n
                        /\ n \in DOMAIN lock.packages /\ lock.packages[n] = ProperEntry
    BY DEF RuntimeIn
  <2>2. [name |-> n, exact |-> TRUE] \in Inventory(modules) /\ Unambiguous(modules)
    BY <1>1, <1>2, <1>4 DEF InventoryUnchanged
  <2>3. n \in DOMAIN modules /\ modules[n].exact /\ modules[n].name = n
    BY <2>2, PackageAtItsPlace DEF Left
  <2> QED
    BY <1>1, <1>3, <2>3 DEF LockHolds, EntriesUnchanged
<1>6. ASSUME NEW d \in Dependencies
      PROVE  d \in DOMAIN lock.packages /\ lock.packages[d] = ProperEntry
  <2>1. d \in DOMAIN lock.packages /\ lock.packages[d].exact /\ lock.packages[d].fixed
    BY <1>1 DEF LockHolds, DirectLocks, Immutable
  <2>2. lock.packages[d] \in Entry
    BY <2>1 DEF PackageTypeOK
  <2> QED
    BY <2>1, <2>2 DEF Entry, ProperEntry
<1>7. lock.dependencies = RuntimePackages \cup Dependencies
  BY <1>1, <1>3 DEF LockHolds, DirectLocks
<1> QED
  BY <1>1, <1>5, <1>6, <1>7 DEF Audited, ExtensionsIn

LEMMA PlainIsAudited ==
    ASSUME Plain, Dependencies = {}
    PROVE  Audited
<1>1. RuntimeIn
  BY DEF Plain, PlainModules, PlainLock, RuntimeIn, Proper
<1>2. ExtensionsIn
  BY DEF Plain, PlainLock, ExtensionsIn, Verified
<1> QED
  BY <1>1, <1>2 DEF Audited

LEMMA PackagesFrame ==
    ASSUME UNCHANGED <<modules, lock, baseline>>
    PROVE  /\ Audited' = Audited /\ Loadable' = Loadable /\ Plain' = Plain
           /\ Left' = Left /\ Recorded' = Recorded
           /\ PluginsWithin(modules)' = PluginsWithin(modules)
<1>1. RuntimeIn' = RuntimeIn /\ ExtensionsIn' = ExtensionsIn
  BY Zenon DEF RuntimeIn, ExtensionsIn, Verified
<1>2. PluginsWithin(modules)' = PluginsWithin(modules)
  BY Zenon DEF PluginsWithin
<1>3. Audited' = Audited
  BY <1>1, Zenon DEF Audited
<1>4. Loadable' = Loadable
  BY <1>2, <1>3, Zenon DEF Loadable
<1> QED
  BY <1>2, <1>3, <1>4, Zenon DEF Plain, Left, Recorded

\* Steps that keep the packages, and the phase or what it has shown of them.
LEMMA PackagesKept ==
    ASSUME Packages, UNCHANGED packageVars, alive' => alive \/ Loadable,
           \/ UNCHANGED <<at, step, failure>>
           \/ at' # "setup" /\ (failure' = "none" => Loadable /\ Known)
           \/ at' = "setup" /\ step' \in {"create", "prepare", "bind"} /\ Loadable /\ Known
    PROVE  Packages'
<1>1. /\ Audited' = Audited /\ Loadable' = Loadable /\ Plain' = Plain
      /\ Left' = Left /\ Recorded' = Recorded
      /\ PluginsWithin(modules)' = PluginsWithin(modules)
  BY PackagesFrame DEF packageVars
<1>2. Known' = Known /\ Unaudited' = Unaudited
  BY Zenon DEF Known, Unaudited, packageVars
<1>3. specifiers' = specifiers /\ auditedLock' = auditedLock /\ modules' = modules
  BY DEF packageVars
<1> QED
  BY <1>1, <1>2, <1>3 DEF Packages, In

LEMMA PackagesStep ==
    TypeOK /\ Told /\ Ended /\ Packages /\ [Next]_vars => Packages'
<1> SUFFICES ASSUME TypeOK, Told, Ended, Packages, [Next]_vars PROVE Packages'
  OBVIOUS
<1>0. at = "setup" => ~alive /\ failure = "none"
  BY DEF Told, Ended
<1>1. CASE SetUp
  <2>0. at = "setup" /\ ~alive
    BY <1>0, <1>1 DEF SetUp, CreateRuntime, Prepare, Bind, Install, Baseline, Compose, Extend,
       Verify,
       Finalize, CreateNetwork, InspectNetwork, StartProxy, StartWorker, Passes
  <2>1. CASE CreateRuntime \/ Prepare
    <3>1. UNCHANGED <<at, packageVars, failure, alive>> /\ In({"create", "prepare", "bind"})
            /\ step' \in {"create", "prepare", "bind"}
      BY <2>1 DEF CreateRuntime, Prepare, Passes, outcomeVars, aroundVars, In, auditVars, workerVars
    <3> HIDE DEF In
    <3>2. (modules = Nothing /\ Unaudited) \/ (Loadable /\ Known)
      BY <3>1 DEF Packages
    <3>3. In({"create", "prepare", "bind"})'
      BY <3>1, <2>0 DEF In
    <3> QED
      BY <3>1, <3>2, <3>3, <2>0, PackagesFrame DEF Packages, In, packageVars, Known, Unaudited
  <2>2. CASE Bind
    <3>1. /\ UNCHANGED <<at, packageVars, failure, alive>> /\ step = "bind"
          /\ step' = IF modules = Nothing THEN "install" ELSE "compose"
      BY <2>2 DEF Bind, Passes, outcomeVars, In, auditVars, workerVars
    <3>2. (modules = Nothing /\ Unaudited) \/ (Loadable /\ Known)
      BY <3>1, <2>0 DEF Packages, In
    <3>3. modules = Nothing => Unaudited
      <4>1. modules = Nothing /\ Audited => Dependencies = {}
        BY DEF Audited, ExtensionsIn, Verified, Nothing
      <4> QED
        BY <4>1 DEF Packages, Unaudited
    <3> QED
      BY <3>1, <3>2, <3>3, <2>0, PackagesFrame DEF Packages, In, packageVars, Known, Unaudited
  <2>3. CASE Install
    <3>1. UNCHANGED <<at, failure, alive, auditedLock, specifiers>> /\ step = "install" /\ step' = "baseline"
      BY <2>3 DEF Install, Passes, outcomeVars, auditVars, workerVars
    <3>2. Plain'
      BY <2>3 DEF Install, InstallsRuntime, Plain, PlainModules, PlainLock
    <3>3. Unaudited /\ modules = Nothing
      BY <3>1, <2>0 DEF Packages, In
    <3>4. specifiers => Plugins = {}
      BY <3>3 DEF Packages, PluginsWithin, Nothing
    <3>5. specifiers' => PluginsWithin(modules)'
      BY <3>1, <3>4 DEF PluginsWithin
    <3> QED
      BY <3>1, <3>2, <3>3, <3>5, <2>0 DEF Packages, In, Unaudited
  <2>4. CASE Baseline
    <3>1. /\ UNCHANGED <<at, failure, alive, auditedLock, specifiers, modules, lock>>
          /\ step = "baseline" /\ step' = "compose"
      BY <2>4 DEF Baseline, CaptureBaseline, Passes, outcomeVars, auditVars, workerVars
    <3>2. Plain /\ Unaudited
      BY <3>1, <2>0 DEF Packages, In
    <3>3. baseline' = IF Dependencies = {} THEN {}
                      ELSE {[inventory |-> Inventory(modules), lock |-> Snapshot(lock)]}
      BY <2>4 DEF Baseline, CaptureBaseline
    <3>4. Recorded'
      BY <3>2, <3>3, Zenon DEF Recorded, Plain
    <3>5. Plain' /\ Unaudited'
      BY <3>1, <3>2 DEF Plain, Unaudited
    <3>6. specifiers' => PluginsWithin(modules)'
      BY <3>1 DEF Packages, PluginsWithin
    <3> QED
      BY <3>1, <3>4, <3>5, <3>6, <2>0 DEF Packages, In, Unaudited
  <2>5. CASE Compose
    <3>1. /\ UNCHANGED <<at, packageVars, failure, alive>> /\ step = "compose"
          /\ step' = IF Dependencies = {} THEN "finalize"
                     ELSE IF auditedLock = {} THEN "extend" ELSE "verify"
      BY <2>5 DEF Compose, Passes, outcomeVars, aroundVars, auditVars, workerVars
    <3>2. (Plain /\ Recorded /\ Unaudited) \/ (Loadable /\ Known)
      BY <3>1, <2>0 DEF Packages, In
    <3>3. Dependencies = {} => Audited /\ Known
      BY <3>2, PlainIsAudited DEF Loadable, Known
    <3> QED
      BY <3>1, <3>2, <3>3, <2>0, PackagesFrame DEF Packages, In, packageVars, Known, Unaudited
  <2>6. CASE Extend
    <3>1. /\ UNCHANGED <<at, failure, alive, auditedLock, specifiers, baseline>>
          /\ step = "extend" /\ step' = "verify" /\ MayExtend
          /\ modules' \in ModulesLeft /\ lock' \in LocksLeft
      BY <2>6 DEF Extend, InstallsExtensions, Passes, outcomeVars, auditVars, workerVars
    <3>2. Plain /\ Recorded /\ Unaudited /\ Dependencies # {}
      BY <3>1, <2>0 DEF Packages, In
    <3>3. Left' /\ Recorded'
      BY <3>1, <3>2 DEF Left, Recorded
    <3>4. specifiers => Plugins = {}
      <4>1. SUFFICES ASSUME NEW p \in Plugins, p \in DOMAIN modules, modules[p].name = p PROVE FALSE
        BY DEF Packages, PluginsWithin
      <4>2. PICK b \in baseline : ~Shadows(b.inventory)
        BY <3>1 DEF MayExtend
      <4>3. b.inventory = Inventory(modules)
        BY <4>2, <3>2 DEF Recorded, Plain
      <4>4. [name |-> modules[p].name, exact |-> modules[p].exact] \in Inventory(modules)
        BY <4>1 DEF Inventory
      <4> QED
        BY <4>1, <4>2, <4>3, <4>4 DEF Shadows, Dependencies
    <3>5. specifiers' => PluginsWithin(modules)'
      BY <3>1, <3>4 DEF PluginsWithin
    <3> QED
      BY <3>1, <3>2, <3>3, <3>5, <2>0 DEF Packages, In, Unaudited
  <2>7. CASE Verify
    <3>1. /\ UNCHANGED <<at, failure, alive, specifiers, baseline, modules, lock>>
          /\ step = "verify" /\ step' = "finalize" /\ auditedLock' = {lock}
          /\ auditedLock = {} => FreshHolds
      BY <2>7 DEF Verify, Passes, outcomeVars, auditVars, workerVars
    <3>2. Dependencies # {} /\ (Audited \/ (Left /\ Recorded))
      BY <3>1, <2>0 DEF Packages, In
    <3>3. Audited
      BY <3>1, <3>2, FreshIsAudited DEF Packages, TypeOK
    <3>4. Audited' /\ PluginsWithin(modules)' = PluginsWithin(modules)
      BY <3>1, <3>3, PackagesFrame
    <3> QED
      BY <3>1, <3>2, <3>4, <2>0 DEF Packages, In, Known
  <2>8. CASE Finalize
    <3>1. /\ UNCHANGED <<at, failure, alive, auditedLock, baseline, modules, lock>>
          /\ step = "finalize" /\ step' \in {"network", "proxy"}
          /\ specifiers \/ PluginsWithin(modules)
      BY <2>8 DEF Finalize, Passes, outcomeVars, auditVars, workerVars
    <3>2. Audited /\ Known
      BY <3>1, <2>0 DEF Packages, In
    <3>3. Loadable
      BY <3>1, <3>2 DEF Packages, Loadable
    <3> QED
      BY <3>1, <3>2, <3>3, <2>0, PackagesFrame DEF Packages, In, Known, Loadable
  <2>9. CASE CreateNetwork \/ InspectNetwork \/ StartProxy
    <3>1. /\ UNCHANGED <<at, packageVars, failure, alive>>
          /\ step \in {"network", "inspect", "proxy", "measure"} /\ step' \in {"network", "inspect", "proxy", "measure"}
      BY <2>9 DEF CreateNetwork, InspectNetwork, StartProxy, Passes, outcomeVars, aroundVars,
         auditVars, workerVars
    <3>2. Loadable /\ Known
      BY <3>1, <2>0 DEF Packages, In
    <3> QED
      BY <3>1, <3>2, <2>0, PackagesFrame DEF Packages, In, packageVars, Known
  <2>10. CASE StartWorker
    <3>1. UNCHANGED packageVars /\ at' = "run" /\ step = "measure"
      BY <2>10 DEF StartWorker, aroundVars
    <3>2. Loadable /\ Known
      BY <3>1, <2>0 DEF Packages, In
    <3> QED
      BY <3>1, <3>2, PackagesKept
  <2> QED
    BY <1>1, <2>1, <2>2, <2>3, <2>4, <2>5, <2>6, <2>7, <2>8, <2>9, <2>10 DEF SetUp
<1>2. CASE SetUpFails
  <2>1. UNCHANGED <<packageVars, alive>> /\ at' # "setup" /\ failure' # "none"
    BY <1>2 DEF SetUpFails, PhaseErrors, auditVars, workerVars
  <2> QED
    BY <2>1, PackagesKept
<1>3. CASE TimesOut \/ Overflows \/ RunAborts
  <2>1. UNCHANGED <<at, step, failure, packageVars, alive>>
    BY <1>3 DEF TimesOut, Overflows, RunAborts, aroundVars, auditVars, workerVars
  <2> QED
    BY <2>1, PackagesKept
<1>4. CASE Close \/ Repaired \/ RepairFails \/ Observe
  <2>1. UNCHANGED <<packageVars, alive>> /\ at' # "setup" /\ at # "setup" /\ (failure' = "none" => failure = "none")
    BY <1>4 DEF Close, Repaired, RepairFails, Observe, PhaseErrors, LaterFailure, First, aroundVars,
       auditVars, workerVars, Told
  <2> QED
    BY <2>1, PackagesKept DEF Packages
<1>5. CASE ReadReceipts \/ Reconcile \/ AuditFails \/ AuditGivenUp
  <2>1. UNCHANGED <<packageVars, alive>> /\ at' # "setup" /\ at # "setup" /\ (failure' = "none" => failure = "none")
    BY <1>5 DEF ReadReceipts, Reconcile, AuditFails, AuditGivenUp, PhaseErrors, LaterFailure,
       First, aroundVars,
       auditVars, workerVars
  <2> QED
    BY <2>1, PackagesKept DEF Packages
<1>6. CASE CleanUp \/ LoopEnds
  <2>1. UNCHANGED <<packageVars, alive>> /\ at' # "setup" /\ at # "setup" /\ failure' = failure
    BY <1>6 DEF CleanUp, LoopEnds, outcomeVars, auditVars, workerVars
  <2> QED
    BY <2>1, PackagesKept DEF Packages
<1>7. CASE NextTurn
  <2>1. /\ UNCHANGED <<packageVars, alive>> /\ at' = "setup" /\ at = "between"
        /\ step = "prepare" /\ step' = step /\ failure = "none"
    BY <1>7 DEF NextTurn, outcomeVars, auditVars, workerVars, Told
  <2>2. Loadable /\ Known /\ alive' = alive
    BY <2>1 DEF Packages
  <2>3. UNCHANGED packageVars /\ at' = "setup" /\ step' \in {"create", "prepare", "bind"}
    BY <2>1
  <2> QED
    BY <2>2, <2>3, PackagesKept
<1>8. CASE WorkerCalls \/ WorkerExits
  <2>1. UNCHANGED <<at, step, failure, packageVars>> /\ alive' \in {alive, FALSE}
    BY <1>8 DEF WorkerCalls, Calls, Refuse, Charge, ChargeFails, Admit, AdmitFails, Finish,
       FinishUnwritten, workerVars, aroundVars, outcomeVars, WorkerExits, WorkerEnds
  <2>2. alive' => alive
    BY <2>1, Zenon
  <2> QED
    BY <2>1, <2>2, PackagesKept
<1>9. CASE WorkerAsks \/ OrphanEnds \/ Elsewhere \/ UNCHANGED vars
  <2>1. UNCHANGED <<at, step, failure, packageVars>> /\ alive' \in {alive, FALSE}
    BY <1>9 DEF WorkerAsks, OrphanEnds, Elsewhere, WorkerEnds, vars, turnVars, outcomeVars,
       auditVars,
       workerVars, aroundVars
  <2>2. alive' => alive
    BY <2>1, Zenon
  <2> QED
    BY <2>1, <2>2, PackagesKept
<1> QED
  BY <1>1, <1>2, <1>3, <1>4, <1>5, <1>6, <1>7, <1>8, <1>9 DEF Next, Supervisor

-----------------------------------------------------------------------------
(* Budgets *)

LEMMA StartedType ==
    ASSUME NEW f \in [Tools -> Nat], NEW g
    PROVE  Total([t \in InGroup(g) |-> f[t]]) \in Nat /\ IsFiniteSet(InGroup(g))
<1>1. IsFiniteSet(InGroup(g))
  BY AuditAssumption, FS_Subset DEF InGroup
<1>2. [t \in InGroup(g) |-> f[t]] \in [InGroup(g) -> Nat]
  BY DEF InGroup
<1> QED
  BY <1>1, <1>2, TotalType

\* One more call of a tool is one more of its group, and of no other.
LEMMA StartedOnce ==
    ASSUME NEW f \in [Tools -> Nat], NEW t \in Tools, NEW g
    PROVE  Total([u \in InGroup(g) |-> [f EXCEPT ![t] = @ + 1][u]])
             = Total([u \in InGroup(g) |-> f[u]]) + IF GroupOf[t] = g THEN 1 ELSE 0
<1> DEFINE h == [u \in InGroup(g) |-> f[u]]
<1>1. CASE GroupOf[t] = g
  <2>1. h \in [InGroup(g) -> Nat] /\ t \in InGroup(g) /\ IsFiniteSet(InGroup(g))
    BY <1>1, StartedType DEF InGroup
  <2>2. [u \in InGroup(g) |-> [f EXCEPT ![t] = @ + 1][u]] = [h EXCEPT ![t] = @ + 1]
    BY <2>1 DEF InGroup
  <2> HIDE DEF h
  <2>3. Total([h EXCEPT ![t] = @ + 1]) = Total(h) + 1
    BY <2>1, TotalOfOneMore
  <2> QED
    BY <1>1, <2>2, <2>3 DEF h
<1>2. CASE GroupOf[t] # g
  <2>1. [u \in InGroup(g) |-> [f EXCEPT ![t] = @ + 1][u]] = h
    BY <1>2 DEF InGroup
  <2>2. Total(h) \in Nat
    BY StartedType
  <2> QED
    BY <1>2, <2>1, <2>2
<1> QED
  BY <1>1, <1>2

LEMMA CountsOf ==
    ASSUME NEW n \in Counts
    PROVE  n.tools \in [Tools -> Nat] /\ n.groups \in [Groups -> Nat]
BY DEF Counts

LEMMA ChargedIs ==
    ASSUME memory \in Counts, NEW t \in Tools
    PROVE  /\ \A u \in Tools : Charged(t).tools[u] = memory.tools[u] + IF u = t THEN 1 ELSE 0
           /\ \A g \in Groups :
                 Charged(t).groups[g] = memory.groups[g] + IF g = GroupOf[t] THEN 1 ELSE 0
<1>1. memory.tools \in [Tools -> Nat] /\ memory.groups \in [Groups -> Nat]
  BY CountsOf
<1>2. Charged(t).tools = [memory.tools EXCEPT ![t] = @ + 1]
  BY DEF Charged
<1>3. Charged(t).groups = [memory.groups EXCEPT ![GroupOf[t]] = @ + 1]
  BY DEF Charged
<1> QED
  BY <1>1, <1>2, <1>3, AuditAssumption

LEMMA PendingIs ==
    /\ charging = {} => \A S : Pending(S) = 0
    /\ \A c, t, S : charging = {<<c, t>>} => Pending(S) = IF t \in S THEN 1 ELSE 0
    /\ \A S : Pending(S) \in {0, 1}
<1>1. ASSUME NEW c, NEW t, NEW S, charging = {<<c, t>>}
      PROVE  Pending(S) = IF t \in S THEN 1 ELSE 0
  <2>1. (\E x \in charging : x[2] \in S) <=> t \in S
    BY <1>1
  <2> QED
    BY <2>1 DEF Pending
<1>2. charging = {} => \A S : Pending(S) = 0
  BY DEF Pending
<1>3. \A S : Pending(S) \in {0, 1}
  BY DEF Pending
<1> QED
  BY <1>1, <1>2, <1>3

LEMMA BudgetsFrame ==
    ASSUME Budgets, UNCHANGED <<ran, disk, memory, charging>>, alive' => alive
    PROVE  Budgets'
<1>1. \A S : Pending(S)' = Pending(S)
  BY DEF Pending
<1>2. \A g : Started(g)' = Started(g)
  BY DEF Started
<1> QED
  BY <1>1, <1>2 DEF Budgets, ToolBudgets, GroupBudgets, Reserves

LEMMA BudgetsStep == TypeOK /\ Budgets /\ [Next]_vars => Budgets'
<1> SUFFICES ASSUME TypeOK, Budgets, [Next]_vars PROVE Budgets'
  OBVIOUS
<1> USE AuditAssumption
<1>0. /\ memory \in Counts /\ disk \in Counts /\ ran \in [Tools -> Nat]
      /\ memory' \in Counts /\ disk' \in Counts /\ ran' \in [Tools -> Nat]
  BY TypeStep DEF TypeOK, AuditTypeOK
<1>t. /\ memory.tools \in [Tools -> Nat] /\ memory.groups \in [Groups -> Nat]
      /\ disk.tools \in [Tools -> Nat] /\ disk.groups \in [Groups -> Nat]
  BY <1>0, CountsOf
<1>s. \A g : Started(g) \in Nat
  BY <1>0, StartedType DEF Started
<1>1. CASE UNCHANGED auditVars
  BY <1>1, BudgetsFrame DEF auditVars, workerVars, fileVars
<1>2. CASE WorkerExits \/ OrphanEnds
  <2>1. WorkerEnds
    BY <1>2 DEF WorkerExits, OrphanEnds
  <2> QED
    BY <2>1, BudgetsFrame DEF WorkerEnds
<1>3. CASE StartWorker
  <2>1. charging' = {} /\ memory' = disk /\ disk' = disk /\ ran' = ran
    BY <1>3 DEF StartWorker, WorkerStarts, fileVars
  <2>2. \A S : Pending(S)' = 0 /\ Pending(S) \in {0, 1}
    BY <2>1, PendingIs DEF Pending
  <2>3. \A g : Started(g)' = Started(g)
    BY <2>1 DEF Started
  <2>4. ToolBudgets'
    BY <2>1, <2>2, <1>0, <1>t DEF Budgets, ToolBudgets, Reserves
  <2>5. GroupBudgets'
    BY <2>1, <2>2, <2>3, <1>0, <1>t, <1>s DEF Budgets, GroupBudgets, Reserves
  <2> QED
    BY <2>1, <2>4, <2>5 DEF Budgets
<1>4. CASE WorkerCalls
  <2>0. PICK c \in CallIds, t \in Tools :
          \/ Refuse(c, t) \/ Charge(c, t) \/ ChargeFails(c, t)
          \/ Admit(c, t) \/ AdmitFails(c, t)
          \/ Finish(c, t) \/ FinishUnwritten(c, t)
    BY <1>4 DEF WorkerCalls, Calls
  <2>1. CASE Refuse(c, t) \/ Finish(c, t) \/ FinishUnwritten(c, t)
    <3>1. UNCHANGED <<ran, disk, memory, charging, alive>>
      BY <2>1 DEF Refuse, Finish, FinishUnwritten, workerVars
    <3> QED
      BY <3>1, BudgetsFrame
  <2>2. CASE Charge(c, t)
    <3>1. /\ alive /\ alive' = alive /\ charging = {} /\ charging' = {<<c, t>>} /\ ran' = ran
          /\ memory' = Charged(t) /\ disk' = Charged(t)
      BY <2>2 DEF Charge, Free
    <3>2. memory.tools[t] < MaxCalls[t] /\ memory.groups[GroupOf[t]] < GroupMaxCalls[GroupOf[t]]
      BY <2>2 DEF Charge, WithinLimits
    <3>3. \A S : Pending(S) = 0 /\ Pending(S)' = IF t \in S THEN 1 ELSE 0
      BY <3>1, PendingIs DEF Pending
    <3>4. \A g : Started(g)' = Started(g)
      BY <3>1 DEF Started
    <3>5. ToolBudgets'
      <4>1. SUFFICES ASSUME NEW u \in Tools
                     PROVE  Reserves(ran[u] + Pending({u}), disk.tools[u], memory.tools[u], MaxCalls[u])'
        BY DEF ToolBudgets
      <4>2. Pending({u})' = (IF u = t THEN 1 ELSE 0) /\ Pending({u}) = 0
        BY <3>3
      <4>3. memory'.tools[u] = memory.tools[u] + (IF u = t THEN 1 ELSE 0) /\ disk'.tools[u] = memory'.tools[u]
        BY <3>1, <1>0, ChargedIs
      <4>4. ran[u] \in Nat /\ disk.tools[u] \in Nat /\ memory.tools[u] \in Nat /\ MaxCalls[u] \in Nat
        BY <1>0, <1>t
      <4>5. /\ ran[u] + Pending({u}) <= disk.tools[u]
            /\ disk.tools[u] <= memory.tools[u] /\ memory.tools[u] <= MaxCalls[u]
        BY <3>1 DEF Budgets, ToolBudgets, Reserves
      <4> QED
        BY <3>1, <3>2, <4>2, <4>3, <4>4, <4>5 DEF Reserves
    <3>6. \A g : t \in InGroup(g) <=> GroupOf[t] = g
      BY DEF InGroup
    <3>7. GroupBudgets'
      BY <3>1, <3>2, <3>3, <3>4, <3>6, <1>0, <1>t, <1>s, ChargedIs DEF Budgets, GroupBudgets,
         Reserves
    <3> QED
      BY <3>1, <3>5, <3>7 DEF Budgets
  <2>3. CASE ChargeFails(c, t)
    <3>1. /\ alive /\ alive' = alive /\ charging' = charging /\ ran' = ran /\ disk' = disk
          /\ memory' = Charged(t)
      BY <2>3 DEF ChargeFails, Free
    <3>2. memory.tools[t] < MaxCalls[t] /\ memory.groups[GroupOf[t]] < GroupMaxCalls[GroupOf[t]]
      BY <2>3 DEF ChargeFails, WithinLimits
    <3>3. \A S : Pending(S)' = Pending(S) /\ Pending(S) \in {0, 1}
      BY <3>1, PendingIs DEF Pending
    <3>4. \A g : Started(g)' = Started(g)
      BY <3>1 DEF Started
    <3>5. ToolBudgets'
      BY <3>1, <3>2, <3>3, <1>0, <1>t, ChargedIs DEF Budgets, ToolBudgets, Reserves
    <3>7. GroupBudgets'
      BY <3>1, <3>2, <3>3, <3>4, <1>0, <1>t, <1>s, ChargedIs DEF Budgets, GroupBudgets, Reserves
    <3> QED
      BY <3>1, <3>5, <3>7 DEF Budgets
  <2>4. CASE Admit(c, t)
    <3>1. /\ alive' = alive /\ <<c, t>> \in charging /\ charging' = {} /\ UNCHANGED <<memory, disk>>
          /\ ran' = [ran EXCEPT ![t] = @ + 1]
      BY <2>4 DEF Admit
    <3>2. charging = {<<c, t>>}
      BY <3>1 DEF Budgets
    <3>3. \A S : Pending(S)' = 0 /\ Pending(S) = IF t \in S THEN 1 ELSE 0
      BY <3>1, <3>2, PendingIs DEF Pending
    <3>4. \A g : Started(g)' = Started(g) + IF GroupOf[t] = g THEN 1 ELSE 0
      BY <3>1, <1>0, StartedOnce DEF Started
    <3>5. ToolBudgets'
      BY <3>1, <3>3, <1>0, <1>t DEF Budgets, ToolBudgets, Reserves
    <3>6. \A g : t \in InGroup(g) <=> GroupOf[t] = g
      BY DEF InGroup
    <3>7. GroupBudgets'
      BY <3>1, <3>3, <3>4, <3>6, <1>0, <1>t, <1>s DEF Budgets, GroupBudgets, Reserves
    <3> QED
      BY <3>1, <3>5, <3>7 DEF Budgets
  <2>5. CASE AdmitFails(c, t)
    <3>1. alive' = alive /\ charging' = {} /\ UNCHANGED <<memory, disk, ran>>
      BY <2>5 DEF AdmitFails
    <3>3. \A S : Pending(S)' = 0 /\ Pending(S) \in {0, 1}
      BY <3>1, PendingIs DEF Pending
    <3>4. \A g : Started(g)' = Started(g)
      BY <3>1 DEF Started
    <3>5. ToolBudgets'
      BY <3>1, <3>3, <1>0, <1>t DEF Budgets, ToolBudgets, Reserves
    <3>6. GroupBudgets'
      BY <3>1, <3>3, <3>4, <1>0, <1>t, <1>s DEF Budgets, GroupBudgets, Reserves
    <3> QED
      BY <3>1, <3>5, <3>6 DEF Budgets
  <2> QED
    BY <2>0, <2>1, <2>2, <2>3, <2>4, <2>5
<1> QED
  BY <1>1, <1>2, <1>3, <1>4, AuditSteps

-----------------------------------------------------------------------------
(* The account of a turn *)

LEMMA LinesAreFinite ==
    ASSUME TypeOK
    PROVE  /\ IsFiniteSet(Starts) /\ Cardinality(Starts) \in Nat
           /\ \A i \in Lines : i \in 1..Len(log) /\ log[i] \in Event
           /\ log \in Seq(Event) /\ Len(log) \in Nat /\ offset \in Nat
<1>1. log \in Seq(Event) /\ Len(log) \in Nat /\ offset \in Nat
  BY AuditAssumption DEF TypeOK, AuditTypeOK
<1>2. \A i \in Lines : i \in 1..Len(log) /\ log[i] \in Event
  BY <1>1 DEF Lines
<1>3. IsFiniteSet(1..Len(log))
  BY <1>1, FS_Interval
<1>4. Starts \subseteq 1..Len(log)
  BY <1>2 DEF Starts
<1>5. IsFiniteSet(Starts)
  BY <1>3, <1>4, FS_Subset
<1>6. Cardinality(Starts) \in Nat
  BY <1>5, FS_CardinalityType
<1> QED
  BY <1>1, <1>2, <1>5, <1>6

LEMMA SpentType ==
    ASSUME NEW m \in Counts
    PROVE  Total(m.tools) \in Nat
BY AuditAssumption, CountsOf, TotalType

\* A line more in the log.
LEMMA LogGrows ==
    ASSUME TypeOK, NEW e \in Event, log' = Append(log, e), offset' = offset, offset <= Len(log)
    PROVE  /\ Lines' = Lines \cup {Len(log) + 1} /\ Len(log) + 1 \notin Lines
           /\ \A i \in Lines : log'[i] = log[i]
           /\ log'[Len(log) + 1] = e
           /\ Cardinality(Starts)' = Cardinality(Starts) + IF e.phase = "started" THEN 1 ELSE 0
           /\ offset' <= Len(log)'
<1>1. log \in Seq(Event) /\ Len(log) \in Nat /\ offset \in Nat /\ IsFiniteSet(Starts)
  BY LinesAreFinite
<1>2. /\ Len(log)' = Len(log) + 1 /\ \A i \in 1..Len(log) : log'[i] = log[i]
      /\ log'[Len(log) + 1] = e
  BY <1>1
<1>3. Lines' = Lines \cup {Len(log) + 1} /\ Len(log) + 1 \notin Lines
  BY <1>1, <1>2 DEF Lines
<1>4. \A i \in Lines : log'[i] = log[i]
  BY <1>1, <1>2 DEF Lines
<1>5. Starts' = IF e.phase = "started" THEN Starts \cup {Len(log) + 1} ELSE Starts
  BY <1>2, <1>3, <1>4 DEF Starts
<1>6. Len(log) + 1 \notin Starts
  BY <1>3 DEF Starts
<1>7. /\ Cardinality(Starts \cup {Len(log) + 1}) = Cardinality(Starts) + 1
      /\ Cardinality(Starts) \in Nat
  BY <1>1, <1>6, FS_AddElement, FS_CardinalityType
<1>8. Cardinality(Starts)' = Cardinality(Starts) + IF e.phase = "started" THEN 1 ELSE 0
  BY <1>5, <1>7
<1>9. offset' <= Len(log)'
  BY <1>1, <1>2
<1> QED
  BY <1>2, <1>3, <1>4, <1>8, <1>9, Zenon

LEMMA KeptFrame ==
    ASSUME Kept, UNCHANGED <<log, offset, before, disk, charging, running, finished>>
    PROVE  Kept'
<1>1. Lines' = Lines /\ Starts' = Starts /\ Spent' = Spent /\ Pending(Tools)' = Pending(Tools)
  BY DEF Lines, Starts, Spent, Pending
<1>2. Stray' = Stray
  BY <1>1, Zenon DEF Stray
<1>3. Charges'
  BY <1>1, <1>2, Zenon DEF Kept, Charges
<1>4. StartsCounted' /\ CallsLogged'
  BY <1>1 DEF Kept, StartsCounted, CallsLogged
<1> QED
  BY <1>3, <1>4 DEF Kept

\* A line about a result that adds to no charge: of a call that was refused, or that was not admitted,
\* or that is done.
LEMMA KeptByResult ==
    ASSUME TypeOK, TypeOK', Kept, NEW c \in CallIds, NEW t \in Tools, NEW isCounted \in BOOLEAN,
           Logs("completed", c, t, isCounted), UNCHANGED <<offset, before, disk>>,
           finished \subseteq finished', running' \cup finished' \subseteq running \cup finished,
           \/ charging' = charging /\ (isCounted => <<c, t>> \in finished')
           \/ Pending(Tools) = 1 /\ charging' = {}
    PROVE  Kept'
<1> DEFINE e == Line("completed", c, t, isCounted)
<1>1. e \in Event /\ e.phase = "completed" /\ e.call = c /\ e.tool = t /\ e.counted = isCounted
  BY LineType DEF Line
<1>2. log' = Append(log, e)
  BY DEF Logs
<1> HIDE DEF e
<1>3. /\ Lines' = Lines \cup {Len(log) + 1} /\ Len(log) + 1 \notin Lines
      /\ \A i \in Lines : log'[i] = log[i]
      /\ log'[Len(log) + 1] = e
      /\ Cardinality(Starts)' = Cardinality(Starts)
      /\ offset' <= Len(log)'
  BY <1>1, <1>2, LogGrows, LinesAreFinite DEF Kept
<1>4. StartsCounted'
  BY <1>1, <1>3 DEF Kept, StartsCounted
<1>5. CallsLogged'
  BY <1>3 DEF Kept, CallsLogged
<1>6. Spent' = Spent /\ Spent \in Int /\ Cardinality(Starts) \in Nat
  BY SpentType, LinesAreFinite DEF Spent, TypeOK, AuditTypeOK
<1>7. CASE charging' = charging /\ (isCounted => <<c, t>> \in finished')
  <2>1. Stray' => Stray
    <3>1. SUFFICES ASSUME NEW i \in Lines', log'[i].phase = "completed", log'[i].counted,
                          <<log'[i].call, log'[i].tool>> \notin finished'
                   PROVE  Stray
      BY DEF Stray
    <3>2. i \in Lines
      BY <1>1, <1>3, <1>7, <3>1
    <3> QED
      BY <1>3, <3>1, <3>2 DEF Stray
  <2>2. Pending(Tools)' = Pending(Tools)
    BY <1>7 DEF Pending
  <2> QED
    BY <1>3, <1>4, <1>5, <1>6, <2>1, <2>2 DEF Kept, Charges
<1>8. CASE Pending(Tools) = 1 /\ charging' = {}
  <2>1. Pending(Tools)' = 0
    BY <1>8 DEF Pending
  <2> QED
    BY <1>3, <1>4, <1>5, <1>6, <1>8, <2>1 DEF Kept, Charges
<1> QED
  BY <1>7, <1>8

\* What a call in memory costs on disk, once it is written.
LEMMA ChargeCosts ==
    ASSUME TypeOK, Budgets, alive, NEW t \in Tools, disk' = Charged(t), before' = before
    PROVE  Spent' >= Spent + 1
<1>1. /\ memory.tools \in [Tools -> Nat] /\ disk.tools \in [Tools -> Nat] /\ before.tools \in [Tools -> Nat]
  BY CountsOf DEF TypeOK, AuditTypeOK
<1>2. \A u \in Tools : disk.tools[u] <= memory.tools[u]
  BY DEF Budgets, ToolBudgets, Reserves
<1>3. Total(disk.tools) <= Total(memory.tools)
  BY <1>1, <1>2, TotalGrows, AuditAssumption
<1>4. disk'.tools = [memory.tools EXCEPT ![t] = @ + 1]
  BY DEF Charged
<1>5. Total(disk'.tools) = Total(memory.tools) + 1
  BY <1>1, <1>4, TotalOfOneMore, AuditAssumption
<1>6. Total(disk.tools) \in Nat /\ Total(memory.tools) \in Nat /\ Total(before.tools) \in Nat
  BY <1>1, TotalType, AuditAssumption
<1>7. Spent' = Total(disk'.tools) - Total(before.tools)
  BY DEF Spent
<1> QED
  BY <1>3, <1>5, <1>6, <1>7 DEF Spent

LEMMA KeptByCalls ==
    ASSUME TypeOK, TypeOK', Budgets, Kept, Calls, UNCHANGED <<offset, before>>,
           finished' = finished \cup (running \ running')
    PROVE  Kept'
<1>0. PICK c \in CallIds, t \in Tools :
        \/ Refuse(c, t) \/ Charge(c, t) \/ ChargeFails(c, t)
        \/ Admit(c, t) \/ AdmitFails(c, t)
        \/ Finish(c, t) \/ FinishUnwritten(c, t)
  BY DEF Calls
<1>a. FALSE \in BOOLEAN /\ TRUE \in BOOLEAN /\ (c \in counted) \in BOOLEAN
  OBVIOUS
<1>b. charging \in {{}, {<<c, t>>}} => Pending(Tools) = IF charging = {} THEN 0 ELSE 1
  BY PendingIs
<1>c. Spent \in Int /\ Cardinality(Starts) \in Nat
  <2>1. disk \in Counts /\ before \in Counts
    BY Zenon DEF TypeOK, AuditTypeOK
  <2>2. Total(disk.tools) \in Nat /\ Total(before.tools) \in Nat
    BY <2>1, SpentType
  <2>3. Cardinality(Starts) \in Nat
    BY LinesAreFinite, Zenon
  <2> QED BY <2>2, <2>3 DEF Spent
<1>1. CASE Refuse(c, t) \/ ChargeFails(c, t)
  <2>1. Logs("completed", c, t, FALSE) /\ UNCHANGED <<charging, running, disk>>
    BY <1>1 DEF Refuse, ChargeFails, workerVars
  <2>2. finished' = finished
    BY <2>1
  <2> QED
    BY <2>1, <2>2, <1>a, KeptByResult
<1>2. CASE Charge(c, t)
  <2>1. /\ alive /\ charging = {} /\ charging' = {<<c, t>>} /\ disk' = Charged(t)
        /\ UNCHANGED <<running, log>>
    BY <1>2 DEF Charge, Free
  <2>0. disk' \in Counts /\ before' \in Counts
    BY DEF TypeOK, AuditTypeOK
  <2>a. Total(disk'.tools) \in Nat /\ Total(before'.tools) \in Nat
    BY <2>0, SpentType
  <2>b. Spent' = Total(disk'.tools) - Total(before'.tools)
    BY DEF Spent
  <2>2. Spent' >= Spent + 1 /\ Spent' \in Int
    BY <2>1, <2>a, <2>b, ChargeCosts
  <2>3. Pending(Tools) = 0 /\ Pending(Tools)' \in {0, 1}
    BY <2>1, PendingIs DEF Pending
  <2>4. finished' = finished /\ Lines' = Lines /\ Starts' = Starts
    BY <2>1 DEF Lines, Starts
  <2>5. Stray' = Stray
    BY <2>1, <2>4, Zenon DEF Stray
  <2>6. Charges'
    BY <1>c, <2>2, <2>3, <2>4, <2>5 DEF Kept, Charges
  <2>7. StartsCounted' /\ CallsLogged'
    BY <2>1, <2>4 DEF Kept, StartsCounted, CallsLogged
  <2> QED
    BY <2>1, <2>6, <2>7 DEF Kept
<1>3. CASE Admit(c, t)
  <2> DEFINE e == Line("started", c, t, TRUE)
  <2>1. /\ <<c, t>> \in charging /\ charging' = {} /\ log' = Append(log, e)
        /\ running' = running \cup {<<c, t>>} /\ disk' = disk
    BY <1>3 DEF Admit, Logs
  <2>2. e \in Event /\ e.phase = "started" /\ e.counted = TRUE
    BY LineType DEF Line
  <2>e. e = Line("started", c, t, TRUE)
    OBVIOUS
  <2> HIDE DEF e
  <2>3. /\ Lines' = Lines \cup {Len(log) + 1} /\ Len(log) + 1 \notin Lines
        /\ \A i \in Lines : log'[i] = log[i]
        /\ log'[Len(log) + 1] = e
        /\ Cardinality(Starts)' = Cardinality(Starts) + 1
        /\ offset' <= Len(log)'
    BY <2>1, <2>2, <1>c, LogGrows DEF Kept
  <2>4. Pending(Tools) = 1 /\ Pending(Tools)' = 0
    BY <2>1 DEF Pending
  <2>5. finished' = finished
    BY <2>1
  <2>6. Stray' => Stray
    BY <2>2, <2>3, <2>5 DEF Stray
  <2>7. Spent' = Spent
    BY <2>1 DEF Spent
  <2>8. Charges'
    BY <1>c, <2>3, <2>4, <2>6, <2>7 DEF Kept, Charges
  <2>9. StartsCounted'
    BY <2>2, <2>3 DEF Kept, StartsCounted
  <2>10. CallsLogged'
    <3>1. SUFFICES ASSUME NEW x \in running' \cup finished'
                   PROVE  \E i \in Lines' : log'[i] = Line("started", x[1], x[2], TRUE)
      BY DEF CallsLogged
    <3>2. CASE x \in running \cup finished
      BY <2>3, <3>2 DEF Kept, CallsLogged
    <3>3. CASE x = <<c, t>>
      BY <2>3, <2>e, <3>3
    <3> QED
      BY <2>1, <2>5, <3>2, <3>3
  <2> QED
    BY <2>3, <2>8, <2>9, <2>10 DEF Kept
<1>4. CASE AdmitFails(c, t)
  <2>1. /\ Logs("completed", c, t, TRUE) /\ <<c, t>> \in charging /\ charging' = {}
        /\ UNCHANGED <<running, disk>>
    BY <1>4 DEF AdmitFails
  <2>2. finished' = finished /\ Pending(Tools) = 1
    BY <2>1 DEF Pending
  <2> QED
    BY <2>1, <2>2, <1>a, KeptByResult
<1>5. CASE Finish(c, t)
  <2>1. /\ Logs("completed", c, t, c \in counted) /\ <<c, t>> \in running
        /\ running' = running \ {<<c, t>>} /\ UNCHANGED <<charging, disk>>
    BY <1>5 DEF Finish
  <2>2. finished' = finished \cup {<<c, t>>}
    BY <2>1
  <2>3. running' \cup finished' \subseteq running \cup finished
    BY <2>1, <2>2
  <2> QED
    BY <2>1, <2>2, <2>3, <1>a, KeptByResult
<1>6. CASE FinishUnwritten(c, t)
  <2>1. /\ <<c, t>> \in running /\ running' = running \ {<<c, t>>}
        /\ UNCHANGED <<charging, disk, log>>
    BY <1>6 DEF FinishUnwritten
  <2>2. finished' = finished \cup {<<c, t>>}
    BY <2>1
  <2>3. Lines' = Lines /\ Starts' = Starts /\ Spent' = Spent /\ Pending(Tools)' = Pending(Tools)
    BY <2>1 DEF Lines, Starts, Spent, Pending
  <2>4. Stray' => Stray
    BY <2>1, <2>2, <2>3 DEF Stray
  <2>5. Charges'
    BY <2>3, <2>4 DEF Kept, Charges
  <2>6. StartsCounted' /\ CallsLogged'
    BY <2>1, <2>2, <2>3 DEF Kept, StartsCounted, CallsLogged
  <2> QED
    BY <2>1, <2>5, <2>6 DEF Kept
<1> QED
  BY <1>0, <1>1, <1>2, <1>3, <1>4, <1>5, <1>6

\* Steps of the Controller and of what is around a worker keep the account, and so does a worker
\* that ends.
LEMMA AccountStep == TypeOK /\ Told /\ Ended /\ Budgets /\ Account /\ [Next]_vars => Account'
<1> SUFFICES ASSUME TypeOK, Told, Ended, Budgets, Account, [Next]_vars PROVE Account'
  OBVIOUS
<1>0. TypeOK'
  BY TypeStep
<1>1. CASE StartWorker
  <2>1. /\ offset' = Len(log) /\ log' = log /\ before' = disk /\ disk' = disk
        /\ charging' = {} /\ running' = {} /\ finished' = {} /\ at' = "run"
    BY <1>1 DEF StartWorker, WorkerStarts, fileVars
  <2>2. Len(log) \in Nat
    BY LinesAreFinite
  <2>3. Lines' = {}
    BY <2>1, <2>2 DEF Lines
  <2>4. Starts' = {} /\ ~Stray'
    BY <2>3 DEF Starts, Stray
  <2>5. Cardinality(Starts)' = 0 /\ Pending(Tools)' = 0
    BY <2>1, <2>4, FS_EmptySet DEF Pending
  <2>6. Spent' = 0
    <3>1. Total(disk.tools) \in Nat
      BY SpentType DEF TypeOK, AuditTypeOK
    <3>2. Spent' = Total(disk.tools) - Total(disk.tools)
      BY <2>1 DEF Spent
    <3> QED
      BY <3>1, <3>2
  <2>7. Charges'
    BY <2>4, <2>5, <2>6 DEF Charges
  <2>8. StartsCounted' /\ CallsLogged'
    BY <2>1, <2>3 DEF StartsCounted, CallsLogged
  <2>9. offset' <= Len(log)'
    BY <2>1, <2>2
  <2> QED
    BY <2>1, <2>7, <2>8, <2>9 DEF Account, Kept
<1>2. CASE WorkerCalls
  <2>1. Calls /\ UNCHANGED <<at, failure, offset, before, events>> /\ finished' = finished \cup (running \ running')
    BY <1>2 DEF WorkerCalls, outcomeVars, measureVars
  <2>2. ~(at = "counts" /\ failure = "none")
    <3>1. alive
      BY <2>1 DEF Calls, Refuse, Charge, ChargeFails, Admit, AdmitFails, Finish, FinishUnwritten,
         Free
    <3> QED
      BY <3>1 DEF Ended
  <2> QED
    BY <1>0, <2>1, <2>2, KeptByCalls DEF Account, Auditing
<1>3. CASE WorkerExits \/ OrphanEnds
  <2>1. /\ UNCHANGED <<log, offset, before, disk, charging, running, finished>>
        /\ UNCHANGED <<at, failure, events>>
    BY <1>3 DEF WorkerExits, OrphanEnds, WorkerEnds, turnVars, measureVars
  <2>2. Gained(offset)' = Gained(offset)
    BY <2>1 DEF Gained
  <2>3. WellFormed(events)' = WellFormed(events)
    BY <2>1 DEF WellFormed
  <2> QED
    BY <2>1, <2>2, <2>3, KeptFrame DEF Account, Auditing
<1>4. CASE UNCHANGED auditVars
  <2>1. UNCHANGED <<log, disk, charging, running>>
    BY <1>4 DEF auditVars, workerVars, fileVars
  <2>2. CASE UNCHANGED turnVars
    <3>1. UNCHANGED <<at, failure, events, offset, before, finished>>
      BY <2>2 DEF turnVars
    <3>2. Gained(offset)' = Gained(offset)
      BY <2>1, <3>1 DEF Gained
    <3>3. WellFormed(events)' = WellFormed(events)
      BY <3>1 DEF WellFormed
    <3> QED
      BY <2>1, <3>1, <3>2, <3>3, KeptFrame DEF Account, Auditing
  <2>3. CASE ReadReceipts
    <3>1. /\ UNCHANGED <<offset, before, finished>> /\ at = "audit"
          /\ WellFormed(Gained(offset)) /\ events' = Gained(offset)
      BY <2>3 DEF ReadReceipts
    <3>2. events' = Gained(offset)'
      BY <2>1, <3>1 DEF Gained
    <3>3. WellFormed(events)'
      BY <3>1 DEF WellFormed
    <3> QED
      BY <2>1, <3>1, <3>2, <3>3, KeptFrame DEF Account, Auditing
  <2>4. CASE at' \notin {"run", "repair", "observe", "audit", "counts"}
    BY <2>4 DEF Account, Auditing
  <2>5. CASE /\ UNCHANGED <<offset, before, finished>>
             /\ at \in {"run", "repair", "observe"} /\ at' # "counts"
    BY <2>1, <2>5, KeptFrame DEF Account, Auditing
  <2>6. CASE RunAborts
    <3>1. UNCHANGED <<at, failure, events, offset, before, finished>>
      BY <2>6 DEF RunAborts, measureVars
    <3>2. Gained(offset)' = Gained(offset)
      BY <2>1, <3>1 DEF Gained
    <3>3. WellFormed(events)' = WellFormed(events)
      BY <3>1 DEF WellFormed
    <3> QED
      BY <2>1, <3>1, <3>2, <3>3, KeptFrame DEF Account, Auditing
  <2>7. SetUp => at' = "setup" \/ StartWorker
    BY DEF SetUp, CreateRuntime, Prepare, Bind, Install, Baseline, Compose, Extend, Verify,
       Finalize, CreateNetwork, InspectNetwork, StartProxy, Passes
  <2>8. SetUpFails \/ Reconcile \/ AuditFails \/ AuditGivenUp \/ CleanUp \/ NextTurn \/ LoopEnds
          => at' \notin {"run", "repair", "observe", "audit", "counts"}
    BY DEF SetUpFails, Reconcile, AuditFails, AuditGivenUp, CleanUp, NextTurn, LoopEnds
  <2>9. TimesOut \/ Overflows \/ Close \/ Repaired \/ RepairFails \/ Observe
          => /\ UNCHANGED <<offset, before, finished>>
             /\ at \in {"run", "repair", "observe"} /\ at' # "counts"
    BY DEF TimesOut, Overflows, Stop, Close, Repaired, RepairFails, Observe, measureVars
  <2>10. WorkerAsks \/ Elsewhere \/ UNCHANGED vars => UNCHANGED turnVars
    BY Zenon DEF WorkerAsks, Elsewhere, vars
  <2> QED
    BY <1>1, <1>2, <1>3, <2>2, <2>3, <2>4, <2>5, <2>6, <2>7, <2>8, <2>9, <2>10 DEF Next, Supervisor
<1> QED
  BY <1>1, <1>2, <1>3, <1>4, AuditSteps

-----------------------------------------------------------------------------
(* The reconciliation *)

LEMMA GainedIs ==
    ASSUME TypeOK, offset <= Len(log)
    PROVE  /\ \A e : e \in Range(Gained(offset)) <=> \E i \in Lines : log[i] = e
           /\ \A e \in Range(Gained(offset)) : e \in Event
<1>1. log \in Seq(Event) /\ Len(log) \in Nat /\ offset \in Nat
  BY LinesAreFinite
<1>2. DOMAIN Gained(offset) = 1..(Len(log) - offset)
  BY <1>1 DEF Gained
<1>3. \A j \in 1..(Len(log) - offset) : Gained(offset)[j] = log[offset + j]
  BY <1>1 DEF Gained
<1>4. ASSUME NEW e, e \in Range(Gained(offset)) PROVE \E i \in Lines : log[i] = e
  <2>1. PICK j \in 1..(Len(log) - offset) : Gained(offset)[j] = e
    BY <1>2, <1>4 DEF Range
  <2>2. offset + j \in Lines /\ log[offset + j] = e
    BY <1>1, <1>3, <2>1 DEF Lines
  <2> QED
    BY <2>2
<1>5. ASSUME NEW i \in Lines PROVE log[i] \in Range(Gained(offset))
  <2>1. i - offset \in 1..(Len(log) - offset) /\ offset + (i - offset) = i
    BY <1>1, <1>5 DEF Lines
  <2>2. Gained(offset)[i - offset] = log[i]
    BY <1>3, <2>1
  <2> QED
    BY <1>2, <2>1, <2>2 DEF Range
<1>6. \A i \in Lines : log[i] \in Event
  BY LinesAreFinite
<1> QED
  BY <1>4, <1>5, <1>6

LEMMA EventIs ==
    ASSUME NEW e \in Event
    PROVE  /\ e.phase \in {"started", "completed"} /\ e.call \in CallIds /\ e.tool \in Tools
           /\ e.counted \in BOOLEAN
           /\ e = Line(e.phase, e.call, e.tool, e.counted)
           /\ [e EXCEPT !.phase = "started"] = Line("started", e.call, e.tool, e.counted)
           /\ [e EXCEPT !.phase = "completed"] = Line("completed", e.call, e.tool, e.counted)
BY DEF Event, Line

\* The receipt of a call.
ReceiptOf(c, t, b, done) == [call |-> c, tool |-> t, counted |-> b, completed |-> done]

\* A turn whose receipts reconcile with the counts, each of them completed, has reported its calls.
LEMMA ReconciledIsTrue ==
    ASSUME TypeOK, Kept, WellFormed(Gained(offset)),
           NEW R, R = ReceiptsOf(Gained(offset)),
           Spent = Cardinality(CountedIn(R)), \A r \in CountedIn(R) : r.completed
    PROVE  /\ {<<r.call, r.tool>> : r \in CountedIn(R)} = finished
           /\ \A r \in R : r.completed
           /\ Spent = Cardinality(finished)
<1> DEFINE E == Range(Gained(offset))
           C == CountedIn(R)
           Done(c, t, b) == Line("completed", c, t, b) \in E
<1>1. /\ \A e : e \in E <=> \E i \in Lines : log[i] = e
      /\ \A e \in E : e \in Event
  BY GainedIs DEF Kept
<1>2. \A e \in E : e.phase = "completed" /\ e.counted => Line("started", e.call, e.tool, TRUE) \in E
  <2>1. SUFFICES ASSUME NEW e \in E, e.phase = "completed", e.counted
                 PROVE  Line("started", e.call, e.tool, TRUE) \in E
    OBVIOUS
  <2>2. [e EXCEPT !.phase = "started"] \in E
    BY <2>1 DEF WellFormed
  <2>3. e.counted = TRUE
    BY <1>1, <2>1, EventIs
  <2> QED
    BY <1>1, <2>2, <2>3, EventIs
<1>3. \A e \in E : e.phase = "started" => e.counted
  BY <1>1 DEF Kept, StartsCounted
<1>4. \A r : r \in R <=> \E e \in E : r = ReceiptOf(e.call, e.tool, e.counted, Done(e.call, e.tool, e.counted))
  <2>1. \A e \in E : [e EXCEPT !.phase = "completed"] = Line("completed", e.call, e.tool, e.counted)
    BY <1>1, EventIs
  <2> QED
    BY <2>1 DEF ReceiptsOf, ReceiptOf
<1> HIDE DEF E, Done
<1>5. \A r : r \in C <=> \E c \in CallIds, t \in Tools :
                           Line("started", c, t, TRUE) \in E /\ r = ReceiptOf(c, t, TRUE, Done(c, t, TRUE))
  <2>1. ASSUME NEW r \in C
        PROVE  \E c \in CallIds, t \in Tools :
                  Line("started", c, t, TRUE) \in E /\ r = ReceiptOf(c, t, TRUE, Done(c, t, TRUE))
    <3>1. PICK e \in E : r = ReceiptOf(e.call, e.tool, e.counted, Done(e.call, e.tool, e.counted)) /\ r.counted
      BY <1>4, <2>1 DEF CountedIn
    <3>2. e.counted = TRUE /\ e \in Event
      BY <1>1, <3>1, EventIs DEF ReceiptOf
    <3>3. Line("started", e.call, e.tool, TRUE) \in E
      BY <1>2, <3>2, EventIs
    <3> QED
      BY <3>1, <3>2, <3>3, EventIs
  <2>2. ASSUME NEW c \in CallIds, NEW t \in Tools, Line("started", c, t, TRUE) \in E
        PROVE  ReceiptOf(c, t, TRUE, Done(c, t, TRUE)) \in C
    <3>1. ReceiptOf(c, t, TRUE, Done(c, t, TRUE)) \in R
      BY <1>4, <2>2 DEF Line
    <3> QED
      BY <3>1 DEF CountedIn, ReceiptOf
  <2> QED
    BY <2>1, <2>2
<1>6. IsFiniteSet(C) /\ Cardinality(C) <= Cardinality(Starts)
  <2> DEFINE f == [i \in Starts |-> ReceiptOf(log[i].call, log[i].tool, TRUE,
                                              Done(log[i].call, log[i].tool, TRUE))]
  <2>1. \A i \in Starts : /\ log[i].call \in CallIds /\ log[i].tool \in Tools
                          /\ Line("started", log[i].call, log[i].tool, TRUE) \in E
    <3>1. SUFFICES ASSUME NEW i \in Starts
                   PROVE  /\ log[i].call \in CallIds /\ log[i].tool \in Tools
                          /\ Line("started", log[i].call, log[i].tool, TRUE) \in E
      OBVIOUS
    <3>2. i \in Lines /\ log[i].phase = "started" /\ log[i].counted
      BY DEF Starts, Kept, StartsCounted
    <3>3. log[i] \in E /\ log[i] \in Event
      BY <1>1, <3>2
    <3> QED
      BY <3>2, <3>3, EventIs
  <2>2. \A i \in Starts : f[i] \in C
    BY <1>5, <2>1
  <2>3. \A r \in C : \E i \in Starts : f[i] = r
    <3>1. SUFFICES ASSUME NEW r \in C PROVE \E i \in Starts : f[i] = r
      OBVIOUS
    <3>2. PICK c \in CallIds, t \in Tools :
            Line("started", c, t, TRUE) \in E /\ r = ReceiptOf(c, t, TRUE, Done(c, t, TRUE))
      BY <1>5
    <3>3. PICK i \in Lines : log[i] = Line("started", c, t, TRUE)
      BY <1>1, <3>2
    <3>4. i \in Starts /\ log[i].call = c /\ log[i].tool = t
      BY <3>3 DEF Starts, Line
    <3> QED
      BY <3>2, <3>4
  <2> HIDE DEF f, C
  <2>4. f \in Surjection(Starts, C)
    <3>1. f \in [Starts -> C]
      BY <2>2 DEF f
    <3> QED
      BY <3>1, <2>3 DEF Surjection
  <2> QED
    BY <2>4, FS_Surjection, LinesAreFinite
<1>7. ~Stray
  <2>1. Cardinality(Starts) \in Nat /\ Cardinality(C) \in Nat /\ Pending(Tools) \in {0, 1}
    BY <1>6, LinesAreFinite, FS_CardinalityType, PendingIs
  <2>2. Spent = Cardinality(C)
    OBVIOUS
  <2> HIDE DEF C
  <2> QED
    BY <1>6, <2>1, <2>2 DEF Kept, Charges
<1>8. \A r \in C : r.completed = TRUE /\ <<r.call, r.tool>> \in finished
  <2>1. SUFFICES ASSUME NEW r \in C PROVE r.completed = TRUE /\ <<r.call, r.tool>> \in finished
    OBVIOUS
  <2>2. PICK c \in CallIds, t \in Tools : r = ReceiptOf(c, t, TRUE, Done(c, t, TRUE))
    BY <1>5
  <2>3. Done(c, t, TRUE)
    BY <2>1, <2>2 DEF ReceiptOf
  <2>4. PICK i \in Lines : log[i] = Line("completed", c, t, TRUE)
    BY <1>1, <2>3 DEF Done
  <2>5. <<c, t>> \in finished
    BY <1>7, <2>4 DEF Stray, Line
  <2>6. r.completed = Done(c, t, TRUE) /\ r.call = c /\ r.tool = t
    BY <2>2 DEF ReceiptOf
  <2>7. Done(c, t, TRUE) = TRUE
    BY <2>3 DEF Done
  <2> QED
    BY <2>5, <2>6, <2>7
<1>9. \A x \in finished : \E r \in C : x = <<r.call, r.tool>>
  <2>1. SUFFICES ASSUME NEW x \in finished PROVE \E r \in C : x = <<r.call, r.tool>>
    OBVIOUS
  <2>2. PICK c \in CallIds, t \in Tools : x = <<c, t>>
    BY DEF TypeOK, Call
  <2>3. PICK i \in Lines : log[i] = Line("started", x[1], x[2], TRUE)
    BY DEF Kept, CallsLogged
  <2>4. Line("started", c, t, TRUE) \in E
    BY <1>1, <2>2, <2>3
  <2>5. ReceiptOf(c, t, TRUE, Done(c, t, TRUE)) \in C
    BY <1>5, <2>4
  <2>6. LET r == ReceiptOf(c, t, TRUE, Done(c, t, TRUE)) IN x = <<r.call, r.tool>>
    BY <2>2 DEF ReceiptOf
  <2> QED
    BY <2>5, <2>6
<1>10. {<<r.call, r.tool>> : r \in C} = finished
  BY <1>8, <1>9
<1>11. \A r \in R : r.completed
  <2>1. SUFFICES ASSUME NEW r \in R, ~r.counted PROVE r.completed
    BY DEF CountedIn
  <2>2. PICK e \in E : r = ReceiptOf(e.call, e.tool, e.counted, Done(e.call, e.tool, e.counted))
    BY <1>4
  <2>3. e \in Event /\ ~e.counted
    BY <1>1, <2>1, <2>2 DEF ReceiptOf
  <2>4. e.phase = "completed"
    BY <1>3, <2>3, EventIs
  <2>5. Done(e.call, e.tool, e.counted)
    BY <2>3, <2>4, EventIs DEF Done
  <2> QED
    BY <2>2, <2>5 DEF ReceiptOf
<1>12. Cardinality(finished) = Cardinality(C)
  <2> DEFINE f == [r \in C |-> <<r.call, r.tool>>]
  <2>1. f \in [C -> finished] /\ \A x \in finished : \E r \in C : f[r] = x
    BY <1>8, <1>9
  <2>2. \A r, q \in C : f[r] = f[q] => r = q
    <3>1. SUFFICES ASSUME NEW r \in C, NEW q \in C, r.call = q.call, r.tool = q.tool PROVE r = q
      OBVIOUS
    <3>2. PICK c \in CallIds, t \in Tools : r = ReceiptOf(c, t, TRUE, Done(c, t, TRUE))
      BY <1>5
    <3>3. PICK d \in CallIds, u \in Tools : q = ReceiptOf(d, u, TRUE, Done(d, u, TRUE))
      BY <1>5
    <3>4. c = d /\ t = u
      BY <3>1, <3>2, <3>3 DEF ReceiptOf
    <3> QED
      BY <3>2, <3>3, <3>4
  <2> HIDE DEF f, C
  <2>3. f \in Bijection(C, finished)
    BY <2>1, <2>2 DEF Bijection, Injection, IsInjective, Surjection
  <2>4. ExistsBijection(C, finished)
    BY <2>3 DEF ExistsBijection
  <2> QED
    BY <1>6, <2>4, FS_Bijection
<1> QED
  BY <1>10, <1>11, <1>12

LEMMA ReconciledStep ==
    TypeOK /\ Told /\ Ended /\ Account /\ Reconciled /\ [Next]_vars => Reconciled'
<1> SUFFICES ASSUME TypeOK, Told, Ended, Account, Reconciled, [Next]_vars PROVE Reconciled'
  OBVIOUS
<1>0. ASSUME UNCHANGED <<receipts, finished, disk, before>>, TrueAccount
      PROVE  TrueAccount'
  BY <1>0 DEF TrueAccount, Spent, CountedIn
<1>1. CASE Reconcile
  <2>1. SUFFICES ASSUME failure = "none" PROVE TrueAccount'
    BY <1>1 DEF Reconciled, Reconcile
  <2>2. Kept /\ events = Gained(offset) /\ WellFormed(Gained(offset))
    BY <1>1, <2>1 DEF Reconcile, Account, Auditing
  <2>3. /\ receipts' = ReceiptsOf(Gained(offset)) /\ Reconciles(before, disk, receipts', TRUE)
        /\ UNCHANGED <<before, disk, finished>>
    BY <1>1, <2>1, <2>2 DEF Reconcile, auditVars, fileVars
  <2>4. Spent = Cardinality(CountedIn(receipts')) /\ \A r \in CountedIn(receipts') : r.completed
    BY <2>3 DEF Reconciles, Spent
  <2>5. /\ {<<r.call, r.tool>> : r \in CountedIn(receipts')} = finished
        /\ \A r \in receipts' : r.completed
        /\ Spent = Cardinality(finished)
    BY <2>2, <2>3, <2>4, ReconciledIsTrue
  <2>6. Spent' = Spent /\ finished' = finished
    BY <2>3 DEF Spent
  <2> QED
    BY <2>5, <2>6 DEF TrueAccount, CountedIn
<1>2. CASE CleanUp
  <2>1. /\ UNCHANGED <<receipts, finished, disk, before, failure>> /\ at = "cleanup"
        /\ at' \in {"between", "over"} /\ (at' = "between" => failure = "none")
    BY <1>2 DEF CleanUp, outcomeVars, measureVars, auditVars, fileVars
  <2> QED
    BY <1>0, <2>1 DEF Reconciled
<1>3. CASE at' \notin {"between", "cleanup"} \/ (at' = "cleanup" /\ failure' # "none")
  BY <1>3 DEF Reconciled
<1>4. CASE UNCHANGED <<at, failure, receipts, finished, disk, before>>
  BY <1>0, <1>4 DEF Reconciled
<1>5. SetUp => at' \in {"setup", "run"}
  BY DEF SetUp, CreateRuntime, Prepare, Bind, Install, Baseline, Compose, Extend, Verify,
     Finalize, CreateNetwork, InspectNetwork, StartProxy, StartWorker, Passes
<1>6. SetUpFails \/ AuditFails \/ AuditGivenUp =>
        at' \notin {"between", "cleanup"} \/ (at' = "cleanup" /\ failure' # "none")
  BY DEF SetUpFails, AuditFails, AuditGivenUp, PhaseErrors, LaterFailure, First
<1>7. TimesOut \/ Overflows \/ Close \/ Repaired \/ RepairFails \/ Observe \/ ReadReceipts
        \/ NextTurn \/ LoopEnds => at' \notin {"between", "cleanup"}
  BY DEF TimesOut, Overflows, Stop, Close, Repaired, RepairFails, Observe, ReadReceipts, NextTurn,
     LoopEnds
<1>8. RunAborts => UNCHANGED <<at, failure, receipts, finished, disk, before>>
  BY DEF RunAborts, measureVars, auditVars, fileVars
<1>9. WorkerAsks \/ Elsewhere \/ UNCHANGED vars => UNCHANGED <<at, failure, receipts, finished, disk, before>>
  BY DEF WorkerAsks, Elsewhere, vars, turnVars, auditVars, fileVars
<1>10. WorkerExits \/ OrphanEnds => UNCHANGED <<at, failure, receipts, finished, disk, before>>
  BY DEF WorkerExits, OrphanEnds, WorkerEnds, turnVars, measureVars
<1>11. CASE WorkerCalls
  <2>1. alive /\ UNCHANGED <<at, failure>>
    BY <1>11 DEF WorkerCalls, outcomeVars, Calls, Refuse, Charge, ChargeFails, Admit, AdmitFails,
       Finish,
       FinishUnwritten, Free
  <2>2. ~(at = "between" \/ (at = "cleanup" /\ failure = "none"))
    BY <2>1 DEF Ended, Told
  <2> QED
    BY <2>1, <2>2 DEF Reconciled
<1> QED
  BY <1>1, <1>2, <1>3, <1>4, <1>5, <1>6, <1>7, <1>8, <1>9, <1>10, <1>11 DEF Next, Supervisor

-----------------------------------------------------------------------------
(* The invariant *)

LEMMA TurnInit == Init => TurnInv
<1> SUFFICES ASSUME Init PROVE TurnInv
  OBVIOUS
<1>1. TypeOK
  BY TypeInit
<1>2. Told /\ Ended /\ Gone /\ ProxyKept
  BY DEF Init, Told, Ended, Gone, ProxyKept, Creating, AuditInit, ResourceInit
<1>3. Packages
  BY DEF Init, Packages, In, Unaudited, PackageInit, AuditInit
<1>4. Budgets
  <2>1. /\ charging = {} /\ ran = [t \in Tools |-> 0] /\ disk = NoCalls /\ ~alive
    BY DEF Init, AuditInit
  <2>2. \A S : Pending(S) = 0
    BY <2>1, PendingIs
  <2>3. \A g : Started(g) = 0
    <3>1. SUFFICES ASSUME NEW g PROVE Total([t \in InGroup(g) |-> ran[t]]) = 0
      BY DEF Started
    <3>2. IsFiniteSet(InGroup(g))
      BY AuditAssumption, FS_Subset DEF InGroup
    <3>3. [t \in InGroup(g) |-> ran[t]] \in [InGroup(g) -> Nat]
      BY <2>1 DEF InGroup
    <3>4. \A t \in InGroup(g) : ran[t] = 0
      BY <2>1 DEF InGroup
    <3> QED
      BY <3>2, <3>3, <3>4, TotalOfZeros
  <2>4. ToolBudgets /\ GroupBudgets
    BY <2>1, <2>2, <2>3, AuditAssumption DEF ToolBudgets, GroupBudgets, Reserves, NoCalls
  <2> QED
    BY <2>1, <2>4 DEF Budgets
<1>5. Account /\ Reconciled
  BY DEF Init, Account, Auditing, Reconciled
<1> QED
  BY <1>1, <1>2, <1>3, <1>4, <1>5 DEF TurnInv

LEMMA TurnStep == TurnInv /\ [Next]_vars => TurnInv'
BY TypeStep, ToldStep, EndedStep, GoneStep, PackagesStep, BudgetsStep, AccountStep, ReconciledStep
   DEF TurnInv

\* At every point of every turn of a run: what has failed, what is there, what is installed, what was
\* charged and what the log has of it fit together (runner.ts:541-840, receipts.ts:155-305).
THEOREM TurnInvariance == Spec => []TurnInv
<1>1. Init => TurnInv
  BY TurnInit
<1>2. TurnInv /\ [Next]_vars => TurnInv'
  BY TurnStep
<1> QED
  BY <1>1, <1>2, PTL DEF Spec

\* Every variable of the turns keeps its type (runner.ts:541-840).
THEOREM TurnTypeCorrect == Spec => []TypeOK
<1>1. TurnInv => TypeOK
  BY DEF TurnInv
<1> QED
  BY <1>1, TurnInvariance, PTL

\* A turn fails with the first failure that the Controller met, and with no other
\* (process.ts:146-200, runner.ts:713-758).
THEOREM FailureIsFirst == Spec => []FirstFailureTold
<1>1. TurnInv => FirstFailureTold
  BY DEF TurnInv, Told, FirstFailureTold
<1> QED
  BY <1>1, TurnInvariance, PTL

\* When a run is over, what it has made is gone or will be taken away, and after a success nothing is
\* still to come (loop.ts:222-230, runner.ts:785-826, proxy.ts:338-353).
THEOREM NothingStays == Spec => []NothingOutlives
<1>1. TurnInv => NothingOutlives
  <2> SUFFICES ASSUME TurnInv, at = "over" PROVE NothingOutlives
    BY DEF NothingOutlives
  <2>1. /\ runtime \in {"disposed", "abandoned"} /\ (failure = "none" => runtime = "disposed")
        /\ network # "up" /\ (network = "late" => failure # "none")
        /\ request \in {"none", "unheeded"}
        /\ proxy # "open" /\ (failure = "none" => proxy = "closed")
    BY DEF TurnInv, Gone, ProxyKept
  <2>2. network \in {"none", "up", "late", "kept"} /\ proxy \in {"none", "open", "abandoned", "closed"}
    BY DEF TurnInv, TypeOK, ResourceTypeOK
  <2>3. failure = "none" => request = "none"
    BY DEF TurnInv, Ended
  <2> QED
    BY <2>1, <2>2, <2>3 DEF NothingOutlives
<1> QED
  BY <1>1, TurnInvariance, PTL

\* A worker loads the runtime that the lock of the action pins and the extensions of the plan, whatever
\* npm has left (install.ts:168-250, runtime-lock.ts:281-410).
THEOREM WorkerLoadsAudited == Spec => []WorkerOnAuditedTree
<1>1. TurnInv => WorkerOnAuditedTree
  <2> SUFFICES ASSUME TurnInv, alive PROVE WorkerOnAuditedTree
    BY DEF WorkerOnAuditedTree
  <2>1. RuntimeIn /\ ExtensionsIn /\ PluginsWithin(modules)
    BY DEF TurnInv, Packages, Loadable, Audited
  <2>2. \A d \in Dependencies : d \in DOMAIN modules /\ modules[d].name = d /\ modules[d].within
    BY <2>1 DEF ExtensionsIn, Verified, PluginsWithin, Dependencies
  <2> QED
    BY <2>1, <2>2 DEF WorkerOnAuditedTree, RuntimeIn, ExtensionsIn
<1> QED
  BY <1>1, TurnInvariance, PTL

\* No tool, and no group of tools, is started more often than its limit, over all workers of a run,
\* whichever of them crashed and whichever write failed (action-policy.mjs, guard and apply).
THEOREM CallsWithinLimits == Spec => []LimitsHold
<1>1. TurnInv => LimitsHold
  <2> SUFFICES ASSUME TurnInv PROVE LimitsHold
    OBVIOUS
  <2>1. /\ disk.tools \in [Tools -> Nat] /\ disk.groups \in [Groups -> Nat] /\ ran \in [Tools -> Nat]
    BY CountsOf DEF TurnInv, TypeOK, AuditTypeOK
  <2>2. \A S : Pending(S) \in {0, 1}
    BY PendingIs
  <2>3. ASSUME NEW t \in Tools PROVE ran[t] <= MaxCalls[t]
    <3>1. ran[t] + Pending({t}) <= disk.tools[t] /\ disk.tools[t] <= MaxCalls[t]
      BY DEF TurnInv, Budgets, ToolBudgets, Reserves
    <3>2. ran[t] \in Nat /\ disk.tools[t] \in Nat /\ MaxCalls[t] \in Nat
      BY <2>1, AuditAssumption
    <3> QED
      BY <3>1, <3>2, <2>2
  <2>4. ASSUME NEW g \in Groups PROVE Started(g) <= GroupMaxCalls[g]
    <3>1. Started(g) \in Nat
      BY <2>1, StartedType DEF Started
    <3> QED
      BY <3>1, <2>1, <2>2, AuditAssumption DEF TurnInv, Budgets, GroupBudgets, Reserves
  <2> QED
    BY <2>3, <2>4, Zenon DEF LimitsHold, Started, InGroup
<1> QED
  BY <1>1, TurnInvariance, PTL

\* A turn that succeeds reports exactly the calls that its worker made, each of them once and
\* completed (receipts.ts:288-305).
THEOREM SuccessReportsCalls == Spec => []SuccessIsAudited
<1>1. TurnInv => SuccessIsAudited
  BY DEF TurnInv, Reconciled, TrueAccount, Spent, SuccessIsAudited
<1> QED
  BY <1>1, TurnInvariance, PTL

=============================================================================
