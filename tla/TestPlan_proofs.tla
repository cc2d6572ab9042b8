-------------------------- MODULE TestPlan_proofs --------------------------
(***************************************************************************)
(* The verdict of a test plan and the safe concurrency it reports.         *)
(*                                                                         *)
(* Both are computed by recursion over a set: the sums of the aggregates,  *)
(* and the loop over the tiers.  The library's induction theorems take an  *)
(* operator, so the inductions are carried out here from the well-founded  *)
(* order of the numbers.                                                   *)
(***************************************************************************)
EXTENDS TestPlan, FiniteSetTheorems, SequenceTheorems, WellFoundedInduction, TLAPS

\* A set of numbers that is not empty has a smallest one: the order is well
\* founded.
LEMMA LeastNumber ==
  ASSUME NEW S \in SUBSET Nat, S # {}
  PROVE  \E n \in S : \A m \in S : n <= m
<1>1. PICK n \in S : \A m \in S : <<m, n>> \notin OpToRel(<, Nat)
  BY WFMin, NatLessThanWellFounded, Zenon
<1>2. \A m \in S : ~(m < n)
  BY <1>1, Zenon DEF OpToRel
<1> QED BY <1>2

\* Induction over the numbers, for a set: otherwise a smallest number would be
\* missing from it.
LEMMA SetInduction ==
  ASSUME NEW S, 0 \in S, \A n \in Nat : n \in S => n + 1 \in S
  PROVE  \A n \in Nat : n \in S
<1>1. SUFFICES ASSUME NEW k \in Nat, k \notin S PROVE FALSE
  OBVIOUS
<1> DEFINE T == {n \in Nat : n \notin S}
<1>2. PICK n \in T : \A m \in T : n <= m
  BY <1>1, LeastNumber
<1>3. n # 0 /\ n - 1 \in Nat /\ n - 1 \notin T
  BY <1>2
<1> QED BY <1>2, <1>3

\* One step of SumFunction's recursion over the subsets of a domain, and the
\* function that takes it everywhere.
SumsTo(fun, s, iter) ==
    IF s = {} THEN 0
    ELSE fun[CHOOSE x \in s : TRUE] + iter[s \ {CHOOSE x \in s : TRUE}]

IsSum(fun, S, iter) == iter = [s \in SUBSET S |-> SumsTo(fun, s, iter)]

\* SumFunction picks such a function.
LEMMA SumUnfolds ==
  ASSUME NEW fun
  PROVE  SumFunction(fun) = (CHOOSE iter : IsSum(fun, DOMAIN fun, iter))[DOMAIN fun]
BY Zenon DEF SumFunction, SumFunctionOnSet, FoldFunctionOnSet, MapThenFoldSet, IsSum, SumsTo

\* There is one on every finite domain, built from the smaller subsets upwards.
LEMMA SumExists ==
  ASSUME NEW S, IsFiniteSet(S), NEW fun
  PROVE  \E iter : IsSum(fun, S, iter)
<1> DEFINE Parts(k) == {s \in SUBSET S : Cardinality(s) <= k}
           Sums == {k \in Nat : \E f : f = [s \in Parts(k) |-> SumsTo(fun, s, f)]}
<1>1. \A s \in SUBSET S : IsFiniteSet(s) /\ Cardinality(s) \in Nat
  BY FS_Subset, FS_CardinalityType
<1>2. 0 \in Sums
  <2>1. \A s \in Parts(0) : s = {}
    BY <1>1, FS_EmptySet
  <2>2. [s \in Parts(0) |-> 0] = [s \in Parts(0) |-> SumsTo(fun, s, [t \in Parts(0) |-> 0])]
    BY <2>1 DEF SumsTo
  <2> QED BY <2>2
<1>3. ASSUME NEW k \in Nat, k \in Sums
      PROVE  k + 1 \in Sums
  <2>1. PICK f : f = [s \in Parts(k) |-> SumsTo(fun, s, f)]
    BY <1>3
  <2> DEFINE g == [s \in Parts(k + 1) |-> SumsTo(fun, s, f)]
  <2>2. \A s \in Parts(k) : s \in Parts(k + 1) /\ g[s] = f[s]
    <3>1. Parts(k) \subseteq Parts(k + 1)
      BY <1>1
    <3>2. \A s \in Parts(k) : f[s] = SumsTo(fun, s, f)
      BY <2>1
    <3> QED BY <3>1, <3>2
  <2>3. ASSUME NEW s \in Parts(k + 1)
        PROVE  SumsTo(fun, s, g) = SumsTo(fun, s, f)
    <3>1. CASE s = {}
      BY <3>1 DEF SumsTo
    <3>2. CASE s # {}
      <4> DEFINE x == CHOOSE x \in s : TRUE
      <4>1. x \in s
        BY <3>2
      <4>2. s \in SUBSET S /\ Cardinality(s) \in Nat /\ Cardinality(s) <= k + 1 /\ IsFiniteSet(s)
        BY <1>1
      <4>3. Cardinality(s \ {x}) = Cardinality(s) - 1
        BY <4>1, <4>2, FS_RemoveElement
      <4>4. s \ {x} \in Parts(k)
        BY <4>2, <4>3
      <4>5. g[s \ {x}] = f[s \ {x}]
        BY <2>2, <4>4
      <4> QED BY <3>2, <4>5 DEF SumsTo
    <3> QED BY <3>1, <3>2
  <2>4. g = [s \in Parts(k + 1) |-> SumsTo(fun, s, g)]
    BY <2>3
  <2> HIDE DEF g
  <2>5. \E h : h = [s \in Parts(k + 1) |-> SumsTo(fun, s, h)]
    BY <2>4
  <2> QED BY <2>5
<1> HIDE DEF Sums
<1>4. Cardinality(S) \in Sums
  BY <1>1, <1>2, <1>3, SetInduction
<1>5. Parts(Cardinality(S)) = SUBSET S
  BY <1>1, FS_Subset
<1> QED BY <1>4, <1>5 DEF Sums, IsSum

\* The sum of numbers is one, no term exceeds it, and a single term is its own
\* sum.
LEMMA SumFacts ==
  ASSUME NEW S, IsFiniteSet(S), NEW fun \in [S -> Nat]
  PROVE  /\ SumFunction(fun) \in Nat
         /\ \A x \in S : fun[x] <= SumFunction(fun)
         /\ \A x : S = {x} => SumFunction(fun) = fun[x]
<1> DEFINE iter == CHOOSE iter : IsSum(fun, S, iter)
           Parts(k) == {s \in SUBSET S : Cardinality(s) <= k}
           Right(s) == iter[s] \in Nat /\ \A x \in s : fun[x] <= iter[s]
           Rights == {k \in Nat : \A s \in Parts(k) : Right(s)}
<1>1. IsSum(fun, S, iter)
  BY SumExists
<1>2. SumFunction(fun) = iter[S]
  BY SumUnfolds
<1> HIDE DEF iter
<1>3. \A s \in SUBSET S : iter[s] = SumsTo(fun, s, iter)
  BY <1>1, Zenon DEF IsSum
<1>4. \A s \in SUBSET S : IsFiniteSet(s) /\ Cardinality(s) \in Nat
  BY FS_Subset, FS_CardinalityType
<1>5. 0 \in Rights
  <2>1. \A s \in Parts(0) : s = {}
    BY <1>4, FS_EmptySet
  <2>2. iter[{}] = 0
    BY <1>3 DEF SumsTo
  <2> QED BY <2>1, <2>2
<1>6. ASSUME NEW k \in Nat, k \in Rights
      PROVE  k + 1 \in Rights
  <2>1. ASSUME NEW s \in Parts(k + 1), s # {}
        PROVE  Right(s)
    <3> DEFINE y == CHOOSE x \in s : TRUE
               rest == s \ {y}
    <3>1. y \in s
      BY <2>1
    <3>2. rest \in Parts(k)
      <4>1. s \in SUBSET S /\ Cardinality(s) \in Nat /\ Cardinality(s) <= k + 1 /\ IsFiniteSet(s)
        BY <1>4
      <4>2. Cardinality(rest) = Cardinality(s) - 1
        BY <3>1, <4>1, FS_RemoveElement
      <4> QED BY <4>1, <4>2
    <3>3. Right(rest)
      BY <1>6, <3>2
    <3>4. iter[s] = fun[y] + iter[rest] /\ fun[y] \in Nat
      BY <1>3, <2>1, <3>1 DEF SumsTo
    <3>5. \A x \in s : x = y \/ x \in rest
      OBVIOUS
    <3>6. \A x \in s : fun[x] \in Nat
      OBVIOUS
    <3> HIDE DEF y, rest
    <3> QED BY <3>3, <3>4, <3>5, <3>6
  <2>2. Right({})
    BY <1>3 DEF SumsTo
  <2> HIDE DEF Right
  <2>3. \A s \in Parts(k + 1) : Right(s)
    BY <2>1, <2>2
  <2> QED BY <2>3
<1> HIDE DEF Rights
<1>7. Cardinality(S) \in Rights
  BY <1>4, <1>5, <1>6, SetInduction
<1>8. Right(S)
  BY <1>4, <1>7 DEF Rights
<1>9. ASSUME NEW x, S = {x}
      PROVE  iter[S] = fun[x]
  <2>1. (CHOOSE y \in S : TRUE) = x /\ S \ {x} = {}
    BY <1>9
  <2>2. iter[{}] = 0 /\ iter[S] = fun[x] + iter[{}]
    BY <1>3, <1>9, <2>1 DEF SumsTo
  <2> QED BY <1>9, <2>2
<1> QED BY <1>2, <1>8, <1>9

\* What the quotient leaves of the dividend is less than the divisor.
LEMMA Quotient ==
  ASSUME NEW a \in Int, NEW b \in Nat \ {0}
  PROVE  /\ a \div b \in Int
         /\ a < b * (a \div b) + b
OBVIOUS

\* The loop's step at a tier, from where it stood below.
TierNext(m, c, below) ==
    IF c \notin Tested(m) THEN below
    ELSE IF PassesSLA(m[c]) /\ ~below.broken
         THEN [below EXCEPT !.safe = c]
         ELSE [below EXCEPT !.broken = TRUE]

\* Its whole step, the entry before the first tier included, and the function
\* that takes it at every tier.
TierStep(m, c, at) ==
    IF c = 0 THEN [safe |-> IF Failed(m) = Total(m) THEN 0 ELSE 1, broken |-> FALSE]
    ELSE TierNext(m, c, at[c - 1])

IsLoop(m, at) == at = [c \in 0..Users |-> TierStep(m, c, at)]

\* SafeLoop reads such a function at the largest tier.
LEMMA LoopUnfolds ==
  ASSUME NEW m
  PROVE  SafeLoop(m) = (CHOOSE at : IsLoop(m, at))[Users]
BY Zenon DEF SafeLoop, IsLoop, TierStep, TierNext

\* There is one, built tier by tier.
LEMMA LoopExists ==
  ASSUME NEW m, TestPlanAssumption
  PROVE  \E at : IsLoop(m, at)
<1> DEFINE Done == {k \in Nat : \E at : at = [c \in 0..k |-> TierStep(m, c, at)]}
<1>1. 0 \in Done
  <2> DEFINE first == [c \in 0..0 |-> TierStep(m, 0, <<>>)]
  <2>1. first = [c \in 0..0 |-> TierStep(m, c, first)]
    BY DEF TierStep
  <2> HIDE DEF first
  <2>2. \E at : at = [c \in 0..0 |-> TierStep(m, c, at)]
    BY <2>1
  <2> QED BY <2>2
<1>2. ASSUME NEW k \in Nat, k \in Done
      PROVE  k + 1 \in Done
  <2>1. PICK f : f = [c \in 0..k |-> TierStep(m, c, f)]
    BY <1>2
  <2> DEFINE g == [c \in 0..(k + 1) |-> TierStep(m, c, f)]
  <2>2. \A c \in 0..k : g[c] = f[c]
    <3>1. \A c \in 0..k : f[c] = TierStep(m, c, f)
      BY <2>1
    <3> QED BY <3>1
  <2>3. ASSUME NEW c \in 0..(k + 1)
        PROVE  TierStep(m, c, g) = TierStep(m, c, f)
    <3>1. CASE c = 0
      BY <3>1 DEF TierStep
    <3>2. CASE c # 0
      <4> HIDE DEF g
      <4>1. g[c - 1] = f[c - 1]
        BY <2>2, <3>2
      <4> QED BY <3>2, <4>1 DEF TierStep
    <3> QED BY <3>1, <3>2
  <2>4. g = [c \in 0..(k + 1) |-> TierStep(m, c, g)]
    BY <2>3
  <2> HIDE DEF g
  <2>5. \E h : h = [c \in 0..(k + 1) |-> TierStep(m, c, h)]
    BY <2>4
  <2> QED BY <2>5
<1> HIDE DEF Done
<1>3. Users \in Done
  BY <1>1, <1>2, SetInduction, TestPlanAssumption
<1> QED BY <1>3 DEF Done, IsLoop

\* The tiers that were tested up to c, and those of them that count as safe.
TestedTo(m, c) == {d \in Tested(m) : d <= c}
SafeTo(m, c) == {d \in TestedTo(m, c) : \A e \in Tested(m) : e <= d => PassesSLA(m[e])}

\* After every tier, the loop holds the largest tier that counts as safe so far,
\* and whether one broke the SLA: at the last tier this is what
\* SafeMaxIsTheLimit says of what is reported.
LEMMA SafeLoopIsRight ==
  ASSUME NEW m, TestPlanAssumption
  PROVE  LET safe == {c \in Tested(m) : \A d \in Tested(m) : d <= c => PassesSLA(m[d])}
         IN  /\ IF safe # {} THEN SafeLoop(m).safe = Max(safe)
                   ELSE SafeLoop(m).safe \in {0, 1}
             /\ SafeLoop(m).broken \in BOOLEAN
             /\ SafeLoop(m).broken <=> safe # Tested(m)
<1> DEFINE at == CHOOSE at : IsLoop(m, at)
           Right(c) == /\ at[c] \in [safe : Int, broken : BOOLEAN]
                       /\ IF SafeTo(m, c) # {} THEN at[c].safe = Max(SafeTo(m, c))
                          ELSE at[c].safe \in {0, 1}
                       /\ at[c].broken <=> SafeTo(m, c) # TestedTo(m, c)
           Rights == {c \in Nat : c <= Users => Right(c)}
<1>1. IsLoop(m, at)
  BY LoopExists
<1>2. SafeLoop(m) = at[Users]
  BY LoopUnfolds
<1> HIDE DEF at
<1>3. \A c \in 0..Users : at[c] = TierStep(m, c, at)
  BY <1>1, Zenon DEF IsLoop
<1>4. Tested(m) \subseteq 1..Users /\ Users \in Nat
  BY TestPlanAssumption DEF Tested
<1>5. 0 \in Rights
  <2>1. TestedTo(m, 0) = {} /\ SafeTo(m, 0) = {}
    BY <1>4 DEF TestedTo, SafeTo
  <2>2. at[0] = [safe |-> IF Failed(m) = Total(m) THEN 0 ELSE 1, broken |-> FALSE]
    <3>1. at[0] = TierStep(m, 0, at)
      BY <1>3, <1>4
    <3> QED BY <3>1, Zenon DEF TierStep
  <2>3. Right(0)
    BY <2>1, <2>2
  <2> QED BY <2>3
<1>6. ASSUME NEW k \in Nat, k \in Rights
      PROVE  k + 1 \in Rights
  <2> HIDE DEF Right
  <2> SUFFICES ASSUME k + 1 <= Users
               PROVE  Right(k + 1)
    OBVIOUS
  <2> USE DEF Right
  <2> DEFINE c == k + 1
  <2>1. Right(k)
    BY <1>4, <1>6
  <2>2. c \in 1..Users /\ c - 1 = k /\ c # 0 /\ c \in 0..Users
    BY <1>4
  <2>3. \A d \in Tested(m) : d <= c <=> d <= k \/ d = c
    BY <1>4, <2>2
  <2>4. CASE c \notin Tested(m)
    <3>1. at[c] = at[k]
      BY <1>3, <2>2, <2>4 DEF TierStep, TierNext
    <3>2. TestedTo(m, c) = TestedTo(m, k) /\ SafeTo(m, c) = SafeTo(m, k)
      BY <2>3, <2>4 DEF TestedTo, SafeTo
    <3> QED BY <2>1, <3>1, <3>2
  <2>5. CASE c \in Tested(m) /\ PassesSLA(m[c]) /\ ~at[k].broken
    <3>1. at[c] = [at[k] EXCEPT !.safe = c]
      BY <1>3, <2>2, <2>5 DEF TierStep, TierNext
    <3>2. SafeTo(m, k) = TestedTo(m, k)
      BY <2>1, <2>5
    <3>3. \A e \in Tested(m) : e <= c => PassesSLA(m[e])
      BY <2>3, <2>5, <3>2, <1>4 DEF SafeTo, TestedTo
    <3>4. SafeTo(m, c) = TestedTo(m, c) /\ c \in SafeTo(m, c)
      BY <1>4, <2>2, <2>5, <3>3 DEF SafeTo, TestedTo
    <3>5. Max(SafeTo(m, c)) = c
      <4>1. \A d \in SafeTo(m, c) : d \in Int /\ c >= d
        BY <1>4 DEF SafeTo, TestedTo
      <4> QED BY <2>2, <3>4, <4>1 DEF Max
    <3>6. at[c].safe = c /\ at[c].broken = FALSE /\ at[c] \in [safe : Int, broken : BOOLEAN]
      BY <2>1, <2>2, <2>5, <3>1
    <3> HIDE DEF c
    <3> QED BY <3>4, <3>5, <3>6 DEF c
  <2>6. CASE c \in Tested(m) /\ (~PassesSLA(m[c]) \/ at[k].broken)
    <3>1. at[c] = [at[k] EXCEPT !.broken = TRUE]
      BY <1>3, <2>2, <2>6 DEF TierStep, TierNext
    <3>2. \E e \in Tested(m) : e <= c /\ ~PassesSLA(m[e])
      <4>1. CASE at[k].broken
        BY <1>4, <2>1, <2>2, <4>1 DEF SafeTo, TestedTo
      <4> QED BY <2>2, <2>6, <4>1
    <3>3. c \notin SafeTo(m, c) /\ c \in TestedTo(m, c)
      BY <2>2, <2>6, <3>2 DEF SafeTo, TestedTo
    <3>4. SafeTo(m, c) = SafeTo(m, k)
      BY <2>3, <3>3 DEF SafeTo, TestedTo
    <3>5. at[c].safe = at[k].safe /\ at[c].broken = TRUE /\ at[c] \in [safe : Int, broken : BOOLEAN]
      BY <2>1, <3>1
    <3> HIDE DEF c
    <3> QED BY <2>1, <3>3, <3>4, <3>5 DEF c
  <2> QED BY <2>4, <2>5, <2>6
<1> HIDE DEF Rights
<1>7. Users \in Rights
  BY <1>4, <1>5, <1>6, SetInduction
<1>8. Right(Users)
  BY <1>4, <1>7 DEF Rights
<1>9. /\ TestedTo(m, Users) = Tested(m)
      /\ SafeTo(m, Users) = {c \in Tested(m) : \A d \in Tested(m) : d <= c => PassesSLA(m[d])}
  BY <1>4 DEF TestedTo, SafeTo
<1> QED BY <1>2, <1>8, <1>9

-----------------------------------------------------------------------------
\* What is announced, and where a group may stand.
Kinds == {"plan_started", "plan_thread_group_start", "plan_completed", "plan_error"}
GroupStates == {"idle", "ready", "engine", "done", "crashed"}

\* The types of the variables the verdict depends on.
TypeInv ==
    /\ enabled \subseteq Group /\ limit \in Limits \cup {Absent, Omitted}
    /\ group \in [Group -> GroupStates] /\ measured \in [Group -> Measurement]
    /\ events \in Seq(Kinds)

\* No group that is not enabled is touched; the plan is judged when all that are
\* enabled are over, so that nothing is measured after the verdict, which is
\* what was computed from what the engines measured.
VerdictInv ==
    /\ \A g \in Group \ enabled : group[g] = "idle"
    /\ task \in {"judging", "reporting"} \/ Completed
           => \A g \in enabled : group[g] \in {"done", "crashed"}
    /\ Completed => task = "done"
    /\ task = "reporting" \/ Completed => ~Raises /\ passed = OverallPassed

\* The inductive invariant.
PlanInv == TypeInv /\ VerdictInv

\* A run's totals are numbers.
LEMMA Counted ==
  ASSUME TestPlanAssumption, NEW m \in Measurement
  PROVE  Total(m) \in Nat /\ Failed(m) \in Nat
<1>1. IsFiniteSet(1..Users)
  BY FS_Interval, TestPlanAssumption
<1>2. \A t \in Tiers \cup {Untested} : t.n \in Nat /\ t.failed \in Nat
  BY TestPlanAssumption DEF Untested
<1>3. \A c \in 1..Users : m[c] \in Tiers \cup {Untested}
  BY DEF Measurement
<1> DEFINE n == [c \in 1..Users |-> m[c].n]
           f == [c \in 1..Users |-> m[c].failed]
<1>4. n \in [1..Users -> Nat] /\ f \in [1..Users -> Nat]
  BY <1>2, <1>3
<1> HIDE DEF n, f
<1>5. SumFunction(n) \in Nat /\ SumFunction(f) \in Nat
  BY <1>1, <1>4, SumFacts
<1> QED BY <1>5 DEF Total, Failed, n, f

\* A percentage that is rounded to at most limit is no more than a hundredth of
\* a percent above it.
LEMMA Rounded ==
  ASSUME NEW n \in Nat \ {0}, NEW f \in Nat, NEW max \in Nat,
         (20000 * f + n) \div (2 * n) <= 100 * max
  PROVE  10000 * f <= (100 * max + 1) * n
<1> DEFINE q == (20000 * f + n) \div (2 * n)
<1>1. 2 * n \in Nat \ {0} /\ 20000 * f + n \in Int
  OBVIOUS
<1>2. q \in Int /\ 20000 * f + n < (2 * n) * q + 2 * n
  <2> DEFINE a == 20000 * f + n
             b == 2 * n
  <2>1. a \in Int /\ b \in Nat \ {0}
    BY <1>1
  <2> HIDE DEF a, b
  <2>2. a \div b \in Int /\ a < b * (a \div b) + b
    BY <2>1, Quotient
  <2> QED BY <2>2 DEF a, b
<1>3. q <= 100 * max
  OBVIOUS
<1> HIDE DEF q
<1>4. PICK d \in Nat : 100 * max = q + d
  BY <1>2, <1>3
<1>5. n * d \in Nat /\ n * q \in Int
  BY <1>2, <1>4
<1>6. (100 * max + 1) * n = n * q + n * d + n
  <2>1. d \in Int /\ q \in Int /\ n \in Int
    BY <1>2, <1>4
  <2>2. \A i, j, k \in Int : (i + j + 1) * k = k * i + k * j + k
    OBVIOUS
  <2>3. (q + d + 1) * n = n * q + n * d + n
    BY <2>1, <2>2
  <2> QED BY <1>4, <2>3
<1>7. (2 * n) * q = 2 * (n * q)
  <2>1. \A i, j \in Int : (2 * i) * j = 2 * (i * j)
    OBVIOUS
  <2> QED BY <1>2, <2>1
<1> QED BY <1>2, <1>5, <1>6, <1>7

\* In the state in which the plan is completed, the verdict is that of the
\* groups' own counts: merging one group passes them on, merging several sums
\* them, and a group that raised or has no request is unhealthy.
LEMMA VerdictFollows ==
  ASSUME TestPlanAssumption, PlanInv
  PROVE  VerdictIsSound
<1> DEFINE asked == IF scope \in enabled THEN {scope} ELSE enabled
           totals(S) == [g \in S |-> Total(measured[g])]
           fails(S) == [g \in S |-> Failed(measured[g])]
           n == SumFunction(totals(asked))
           f == SumFunction(fails(asked))
<1>1. SUFFICES ASSUME Completed, passed
               PROVE  /\ \A g \in enabled : group[g] = "done" /\ Total(measured[g]) > 0
                      /\ limit # Absent => n > 0 /\ 10000 * f <= (100 * limit + 1) * n
  BY DEF VerdictIsSound
<1>2. ~Raises /\ OverallPassed /\ (\A g \in enabled : group[g] \in {"done", "crashed"})
  BY <1>1 DEF PlanInv, VerdictInv
<1>3. \A g \in enabled : measured[g] \in Measurement
  BY DEF PlanInv, TypeInv
<1>4. \A g \in enabled : Total(measured[g]) \in Nat /\ Failed(measured[g]) \in Nat
  BY <1>3, TestPlanAssumption, Counted
<1>5. ASSUME NEW g \in enabled
      PROVE  /\ group[g] = "done" /\ Total(measured[g]) > 0
             /\ Result(g).total = Total(measured[g]) /\ Result(g).failed = Failed(measured[g])
  <2>1. ~Result(g).error /\ Result(g).total # 0
    BY <1>2 DEF OverallPassed, Unhealthy
  <2>2. group[g] # "crashed"
    BY <2>1 DEF Result, Crashed
  <2>3. Result(g) = Aggregates(measured[g])
    BY <2>2 DEF Result
  <2>4. Result(g).total = Total(measured[g]) /\ Result(g).failed = Failed(measured[g])
    BY <2>3 DEF Aggregates
  <2> QED BY <1>2, <1>4, <2>1, <2>2, <2>4
<1>6. IsFiniteSet(enabled)
  <2>1. IsFiniteSet(Group)
    BY FS_Interval, TestPlanAssumption DEF Group
  <2> QED BY <2>1, FS_Subset DEF PlanInv, TypeInv
<1>7. ASSUME limit # Absent
      PROVE  n > 0 /\ 10000 * f <= (100 * limit + 1) * n
  <2>1. limit \in Nat
    BY <1>2, <1>7, TestPlanAssumption DEF PlanInv, TypeInv, Raises
  <2>2. Target.rated /\ Percent(Target) <= 100 * limit
    BY <1>2, <1>7 DEF OverallPassed, Holds
  <2>3. ASSUME NEW S \in SUBSET enabled
        PROVE  /\ IsFiniteSet(S)
               /\ totals(S) \in [S -> Nat] /\ fails(S) \in [S -> Nat]
    BY <1>4, <1>6, FS_Subset
  <2>4. /\ n \in Nat /\ f \in Nat /\ \A g \in asked : Total(measured[g]) <= n
        /\ \A g : asked = {g} => n = Total(measured[g]) /\ f = Failed(measured[g])
    <3>1. asked \in SUBSET enabled
      OBVIOUS
    <3> HIDE DEF asked
    <3>2. totals(asked) \in [asked -> Nat] /\ fails(asked) \in [asked -> Nat] /\ IsFiniteSet(asked)
      BY <2>3, <3>1
    <3>3. \A g \in asked : totals(asked)[g] = Total(measured[g]) /\ fails(asked)[g] = Failed(measured[g])
      OBVIOUS
    <3> HIDE DEF totals, fails
    <3>4. n \in Nat /\ f \in Nat /\ \A g \in asked : totals(asked)[g] <= n
      BY <3>2, SumFacts
    <3>5. \A g : asked = {g} => n = totals(asked)[g] /\ f = fails(asked)[g]
      BY <3>2, SumFacts
    <3> QED BY <3>3, <3>4, <3>5
  <2>5. asked # {} /\ Target.total = n /\ Target.failed = f
    <3>1. CASE scope \in enabled
      <4>1. asked = {scope} /\ Target = Result(scope)
        BY <3>1 DEF Target
      <4> QED BY <1>5, <2>4, <3>1, <4>1
    <3>2. CASE scope \notin enabled /\ Cardinality(enabled) = 1
      <4>1. PICK g : enabled = {g}
        BY <1>6, <3>2, FS_Singleton
      <4>2. asked = {g} /\ Target = Result(g) /\ g \in enabled
        BY <3>2, <4>1 DEF Target, Merged
      <4> QED BY <1>5, <2>4, <4>2
    <3>3. CASE scope \notin enabled /\ Cardinality(enabled) # 1
      <4>1. asked = enabled
        BY <3>3
      <4>2. Target = [total  |-> SumFunction([g \in enabled |-> Result(g).total]),
                      failed |-> SumFunction([g \in enabled |-> Result(g).failed]),
                      rated  |-> enabled # {}]
        BY <3>3 DEF Target, Merged, Sum
      <4>3. /\ [g \in enabled |-> Result(g).total] = totals(enabled)
            /\ [g \in enabled |-> Result(g).failed] = fails(enabled)
        BY <1>5
      <4> QED BY <2>2, <4>1, <4>2, <4>3
    <3> QED BY <3>1, <3>2, <3>3
  <2>6. n > 0
    <3>1. PICK g \in asked : TRUE
      BY <2>5
    <3>2. g \in enabled
      OBVIOUS
    <3> HIDE DEF n
    <3> QED BY <1>4, <1>5, <2>4, <3>1, <3>2
  <2>7. (20000 * f + n) \div (2 * n) <= 100 * limit
    <3> HIDE DEF n, f
    <3> QED BY <2>2, <2>4, <2>5, <2>6 DEF Percent
  <2> HIDE DEF n, f
  <2> QED BY <2>1, <2>4, <2>6, <2>7, Rounded
<1> QED BY <1>5, <1>7

-----------------------------------------------------------------------------
\* It holds of every plan that is about to be run.
LEMMA StartsRight ==
  ASSUME TestPlanAssumption, Init
  PROVE  PlanInv
<1>1. enabled \subseteq Group /\ limit \in Limits \cup {Absent, Omitted}
  BY DEF Init
<1>2. group \in [Group -> GroupStates] /\ \A g \in Group : group[g] = "idle"
  BY DEF Init, GroupStates
<1>3. measured \in [Group -> Measurement]
  BY DEF Init, Measurement
<1>4. events \in Seq(Kinds) /\ ~Completed /\ task = "none"
  BY DEF Init, Completed, Happened
<1> QED BY <1>1, <1>2, <1>3, <1>4 DEF PlanInv, TypeInv, VerdictInv

\* Which announcement completes the plan.
LEMMA Announced ==
  ASSUME TypeInv, NEW kind \in Kinds, events' = Append(events, kind)
  PROVE  events' \in Seq(Kinds) /\ (Completed' <=> Completed \/ kind = "plan_completed")
<1>1. events \in Seq(Kinds)
  BY DEF TypeInv
<1>2. /\ events' \in Seq(Kinds) /\ Len(events') = Len(events) + 1
      /\ \A i \in 1..Len(events) : events'[i] = events[i]
      /\ events'[Len(events) + 1] = kind
  BY <1>1, AppendProperties
<1>3. Len(events) \in Nat /\ DOMAIN events = 1..Len(events) /\ DOMAIN events' = 1..Len(events')
  BY <1>1, <1>2, LenProperties
<1>4. DOMAIN events' = DOMAIN events \cup {Len(events) + 1}
  BY <1>2, <1>3
<1> QED BY <1>2, <1>3, <1>4 DEF Completed, Happened

\* The verdict is computed from the plan, the ends of the groups and what was
\* measured.
LEMMA VerdictStays ==
  ASSUME UNCHANGED <<planVars, group, measured>>
  PROVE  OverallPassed' = OverallPassed /\ Raises' = Raises
<1>1. \A g : Result(g)' = Result(g)
  BY DEF Result, planVars
<1>2. Merged' = Merged
  BY <1>1 DEF Merged, Sum, Result, planVars
<1>3. Target' = Target
  BY <1>1, <1>2 DEF Target, Result, planVars
<1> QED BY <1>1, <1>3 DEF OverallPassed, Unhealthy, Holds, Raises, Result, planVars

\* RunPlan keeps it: asking for it changes nothing the verdict depends on.
LEMMA RunPlanKeeps ==
  ASSUME TestPlanAssumption, PlanInv, RunPlan
  PROVE  PlanInv'
<1>1. UNCHANGED <<planVars, group, measured, passed, events>> /\ task = "none" /\ task' = "resolving"
  BY DEF RunPlan
<1>2. TypeInv'
  BY <1>1 DEF PlanInv, TypeInv, planVars
<1>3. ~Completed'
  BY <1>1 DEF PlanInv, VerdictInv, Completed, Happened
<1> QED BY <1>1, <1>2, <1>3 DEF PlanInv, VerdictInv, planVars

\* Resolve keeps it: nor does looking up the runtimes.
LEMMA ResolveKeeps ==
  ASSUME TestPlanAssumption, PlanInv, Resolve
  PROVE  PlanInv'
<1>1. UNCHANGED <<planVars, group, measured, passed, events>>
  BY DEF Resolve
<1>2. task = "resolving" /\ task' \in {"erring", "starting", "resolving"}
  BY DEF Resolve
<1>3. TypeInv'
  BY <1>1 DEF PlanInv, TypeInv, planVars
<1>4. ~Completed'
  BY <1>1, <1>2 DEF PlanInv, VerdictInv, Completed, Happened
<1> QED BY <1>1, <1>2, <1>3, <1>4 DEF PlanInv, VerdictInv, planVars

\* StartPlan keeps it: a plan without an enabled group is judged at once, another starts
\* enabled groups only.
LEMMA StartPlanKeeps ==
  ASSUME TestPlanAssumption, PlanInv, StartPlan
  PROVE  PlanInv'
<1>1. /\ UNCHANGED <<planVars, measured, passed>> /\ Broadcast("plan_started") /\ task = "starting"
      /\ group' = [g \in Group |-> IF g \in FirstGroups THEN "ready" ELSE "idle"]
      /\ task' = IF enabled = {} THEN "judging" ELSE "running"
  BY DEF StartPlan
<1>2. events' \in Seq(Kinds) /\ ~Completed'
  <2>1. events' = Append(events, "plan_started")
    BY <1>1, Zenon DEF Broadcast
  <2>2. ~Completed
    BY <1>1 DEF PlanInv, VerdictInv
  <2> QED BY <2>1, <2>2, Announced DEF PlanInv, Kinds
<1>3. FirstGroups \subseteq enabled
  BY DEF FirstGroups
<1>4. TypeInv'
  BY <1>1, <1>2 DEF PlanInv, TypeInv, planVars, GroupStates
<1> QED BY <1>1, <1>2, <1>3, <1>4 DEF PlanInv, VerdictInv, planVars

\* While a group is on its way, no verdict has been given.
LEMMA GroupUnderWay ==
  ASSUME PlanInv, NEW g \in Group, group[g] \in {"ready", "engine"}
  PROVE  g \in enabled /\ task \notin {"judging", "reporting"} /\ ~Completed
BY DEF PlanInv, VerdictInv

\* StartGroup keeps it: the group is enabled, and no verdict has been given.
LEMMA StartGroupKeeps ==
  ASSUME TestPlanAssumption, PlanInv, NEW g \in Group, StartGroup(g)
  PROVE  PlanInv'
<1>1. /\ UNCHANGED <<planVars, measured, passed>> /\ group[g] = "ready"
      /\ \E how \in {"idle", "engine"} : group' = [group EXCEPT ![g] = how]
      /\ task' \in {task, "erring"}
      /\ UNCHANGED events \/ Broadcast("plan_thread_group_start")
  BY DEF StartGroup
<1>2. g \in enabled /\ task \notin {"judging", "reporting"} /\ ~Completed
  BY <1>1, GroupUnderWay
<1>3. events' \in Seq(Kinds) /\ ~Completed'
  <2>1. CASE UNCHANGED events
    BY <1>2, <2>1 DEF PlanInv, TypeInv, Completed, Happened
  <2>2. CASE Broadcast("plan_thread_group_start")
    <3>1. events' = Append(events, "plan_thread_group_start")
      BY <2>2, Zenon DEF Broadcast
    <3> QED BY <1>2, <3>1, Announced DEF PlanInv, Kinds
  <2> QED BY <1>1, <2>1, <2>2
<1>4. TypeInv'
  BY <1>1, <1>3 DEF PlanInv, TypeInv, planVars, GroupStates
<1> QED BY <1>1, <1>2, <1>3, <1>4 DEF PlanInv, TypeInv, VerdictInv, planVars

\* The end of a group keeps it: the group that follows is enabled, and the plan
\* is judged only when every one is over.
LEMMA EndGroupKeeps ==
  ASSUME TestPlanAssumption, PlanInv, NEW g \in Group, group[g] = "engine",
         NEW how \in {"done", "crashed"}, EndGroup(g, how),
         measured' \in [Group -> Measurement],
         UNCHANGED <<planVars, next, passed, events>>
  PROVE  PlanInv'
<1> DEFINE later == {h \in enabled : serialize /\ h > g}
           ended == [group EXCEPT ![g] = how]
<1>1. g \in enabled /\ task \notin {"judging", "reporting"} /\ ~Completed
  BY GroupUnderWay
<1>2. ended \in [Group -> GroupStates] /\ \A h \in Group \ enabled : ended[h] = "idle"
  BY <1>1 DEF PlanInv, TypeInv, VerdictInv, GroupStates
<1>3. ASSUME later # {}
      PROVE  Min(later) \in enabled
  <2>1. later \subseteq enabled /\ enabled \subseteq Nat
    BY DEF PlanInv, TypeInv, Group
  <2> HIDE DEF later
  <2>2. PICK n \in later : \A h \in later : n <= h
    BY <1>3, <2>1, LeastNumber
  <2>3. Min(later) \in later
    BY <2>2 DEF Min
  <2> QED BY <2>1, <2>3
<1>4. group' = IF later = {} THEN ended ELSE [ended EXCEPT ![Min(later)] = "ready"]
  BY DEF EndGroup
<1>5. task' = IF \A h \in enabled : group'[h] \in {"done", "crashed"} THEN "judging" ELSE task
  BY DEF EndGroup
<1> HIDE DEF later, ended
<1>6. group' \in [Group -> GroupStates] /\ \A h \in Group \ enabled : group'[h] = "idle"
  BY <1>2, <1>3, <1>4 DEF PlanInv, TypeInv, GroupStates
<1>7. ~Completed'
  BY <1>1 DEF Completed, Happened
<1>8. TypeInv'
  BY <1>6 DEF PlanInv, TypeInv, planVars
<1>9. task' = "judging" => \A h \in enabled : group'[h] \in {"done", "crashed"}
  BY <1>1, <1>5
<1>10. task' # "reporting"
  BY <1>1, <1>5
<1> QED BY <1>6, <1>7, <1>8, <1>9, <1>10 DEF PlanInv, VerdictInv, planVars

\* Judge keeps it: what is passed is what was measured, and it is not judged if
\* the evaluation raises.
LEMMA JudgeKeeps ==
  ASSUME TestPlanAssumption, PlanInv, Judge
  PROVE  PlanInv'
<1>1. UNCHANGED <<planVars, group, measured, events>> /\ task = "judging"
  BY DEF Judge
<1>2. task' = "erring" \/ (task' = "reporting" /\ ~Raises /\ passed' = OverallPassed)
  BY DEF Judge
<1>3. OverallPassed' = OverallPassed /\ Raises' = Raises
  BY <1>1, VerdictStays
<1>4. TypeInv'
  BY <1>1 DEF PlanInv, TypeInv, planVars
<1>5. ~Completed'
  BY <1>1 DEF PlanInv, VerdictInv, Completed, Happened
<1>6. \A h \in enabled : group[h] \in {"done", "crashed"}
  BY <1>1 DEF PlanInv, VerdictInv
<1> QED BY <1>1, <1>2, <1>3, <1>4, <1>5, <1>6 DEF PlanInv, VerdictInv, planVars

\* Report keeps it: only a plan that was judged is completed.
LEMMA ReportKeeps ==
  ASSUME TestPlanAssumption, PlanInv, Report
  PROVE  PlanInv'
<1>1. /\ UNCHANGED <<planVars, group, measured, passed>> /\ task \in {"reporting", "erring"}
      /\ task' = "done"
      /\ Broadcast(IF task = "reporting" THEN "plan_completed" ELSE "plan_error")
  BY DEF Report
<1>2. ~Completed
  BY <1>1 DEF PlanInv, VerdictInv
<1>3. events' \in Seq(Kinds) /\ (Completed' => task = "reporting")
  <2>1. CASE task = "reporting"
    <3>1. events' = Append(events, "plan_completed")
      BY <1>1, <2>1, Zenon DEF Broadcast
    <3> QED BY <2>1, <3>1, Announced DEF PlanInv, Kinds
  <2>2. CASE task = "erring"
    <3>1. task # "reporting"
      BY <2>2
    <3>2. events' = Append(events, "plan_error")
      BY <1>1, <3>1, Zenon DEF Broadcast
    <3> QED BY <1>2, <3>2, Announced DEF PlanInv, Kinds
  <2> QED BY <1>1, <2>1, <2>2
<1>4. TypeInv'
  BY <1>1, <1>3 DEF PlanInv, TypeInv, planVars
<1>5. OverallPassed' = OverallPassed /\ Raises' = Raises
  BY <1>1, VerdictStays
<1> QED BY <1>1, <1>3, <1>4, <1>5 DEF PlanInv, VerdictInv, planVars

\* So every step does.
LEMMA PlanInvKept ==
  ASSUME TestPlanAssumption, PlanInv, [Next]_vars
  PROVE  PlanInv'
<1>1. CASE RunPlan
  BY <1>1, RunPlanKeeps, TestPlanAssumption
<1>2. CASE Plan
  BY <1>2, ResolveKeeps, StartPlanKeeps, JudgeKeeps, ReportKeeps, TestPlanAssumption DEF Plan
<1>3. ASSUME NEW g \in Group, StartGroup(g)
      PROVE  PlanInv'
  BY <1>3, StartGroupKeeps, TestPlanAssumption
<1>4. ASSUME NEW g \in Group, EngineReturns(g)
      PROVE  PlanInv'
  <2>1. PICK m \in Measurement : measured' = [measured EXCEPT ![g] = m]
    BY <1>4 DEF EngineReturns
  <2>2. measured' \in [Group -> Measurement]
    BY <2>1 DEF PlanInv, TypeInv
  <2>3. group[g] = "engine" /\ EndGroup(g, "done") /\ UNCHANGED <<planVars, next, passed, events>>
    BY <1>4 DEF EngineReturns
  <2> QED BY <2>2, <2>3, EndGroupKeeps, TestPlanAssumption
<1>5. ASSUME NEW g \in Group, EngineRaises(g)
      PROVE  PlanInv'
  <2>1. /\ group[g] = "engine" /\ EndGroup(g, "crashed")
        /\ UNCHANGED <<planVars, next, measured, passed, events>>
    BY <1>5 DEF EngineRaises
  <2>2. measured' \in [Group -> Measurement]
    BY <2>1 DEF PlanInv, TypeInv
  <2> QED BY <2>1, <2>2, EndGroupKeeps, TestPlanAssumption
<1>6. CASE UNCHANGED vars
  <2>1. UNCHANGED <<planVars, task, group, measured, passed, events>>
    BY <1>6 DEF vars
  <2>2. OverallPassed' = OverallPassed /\ Raises' = Raises
    BY <2>1, VerdictStays
  <2> QED BY <2>1, <2>2 DEF PlanInv, TypeInv, VerdictInv, Completed, Happened, planVars
<1> QED BY <1>1, <1>2, <1>3, <1>4, <1>5, <1>6 DEF Next

\* Whatever the engines return, the plan is judged only after its groups, on
\* what they measured, and completed with that verdict.
THEOREM PlanInvariant == Spec => []PlanInv
<1>1. Init => PlanInv
  BY StartsRight, TestPlanAssumption
<1>2. PlanInv /\ [Next]_vars => PlanInv'
  BY PlanInvKept, TestPlanAssumption
<1> QED BY <1>1, <1>2, PTL DEF Spec

\* For every number of groups, tiers and thresholds: a plan is reported as
\* passed only if every enabled group ran and answered, and the counts its
\* assertion is about, the engines' own, respect the threshold.
THEOREM VerdictCorrect == Spec => []VerdictIsSound
<1>1. PlanInv => VerdictIsSound
  BY VerdictFollows, TestPlanAssumption
<1> QED BY <1>1, PlanInvariant, PTL

\* What the loop computes is what a group's result reports.
LEMMA SafeMaxFollows ==
  ASSUME TestPlanAssumption
  PROVE  SafeMaxIsTheLimit
<1>1. SUFFICES ASSUME NEW g \in Group, group[g] = "done", Total(measured[g]) > 0
               PROVE  LET m    == measured[g]
                          safe == {c \in Tested(m) : \A d \in Tested(m) : d <= c => PassesSLA(m[d])}
                      IN  /\ IF safe # {} THEN Result(g).safe = Max(safe) ELSE Result(g).safe \in {0, 1}
                          /\ Result(g).ceiling <=> safe # Tested(m)
  BY DEF SafeMaxIsTheLimit
<1> DEFINE m == measured[g]
<1>2. Result(g) = Aggregates(m)
  BY <1>1 DEF Result
<1>3. Result(g).safe = SafeLoop(m).safe /\ (Result(g).ceiling <=> SafeLoop(m).broken)
  <2>1. Total(m) # 0 /\ (Total(m) > 0) = TRUE
    BY <1>1
  <2> HIDE DEF m
  <2>2. /\ Result(g).safe = IF Total(m) = 0 THEN None ELSE SafeLoop(m).safe
        /\ Result(g).ceiling = (Total(m) > 0 /\ SafeLoop(m).broken)
    BY <1>2 DEF Aggregates
  <2> QED BY <2>1, <2>2, Zenon
<1> QED BY <1>3, SafeLoopIsRight, TestPlanAssumption

\* For every number of tiers and whatever was measured: the reported safe
\* concurrency is the largest tier up to which every tested one meets the SLA,
\* and it is called a ceiling exactly when one does not.
THEOREM SafeMaxCorrect == Spec => []SafeMaxIsTheLimit
<1>1. SafeMaxIsTheLimit
  BY SafeMaxFollows, TestPlanAssumption
<1> QED BY <1>1, PTL
=============================================================================
