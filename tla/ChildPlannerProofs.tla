-------------------------- MODULE ChildPlannerProofs --------------------------
(***************************************************************************)
(* Theorems about the planner of child work (ChildPlanner), for any paths, *)
(* documents, sizes, packets and limits.                                   *)
(*                                                                         *)
(* The first half is about the planner's operators, without a state: the   *)
(* stable order, the greedy groups, the splitting of long prompts.  Each   *)
(* is a loop of the code, and what it computes is shown by induction on    *)
(* the position the loop has reached.  The second half is about the calls  *)
(* and the obligations.                                                    *)
(***************************************************************************)
EXTENDS ChildPlanner, SequenceTheorems, FiniteSetTheorems, WellFoundedInduction, TLAPS

-----------------------------------------------------------------------------
(***************************************************************************)
(* Induction, for sets of numbers and for loops.                           *)
(***************************************************************************)
(* A set of natural numbers that is not empty has a least element. *)
LEMMA LeastElement ==
    ASSUME NEW T, T \subseteq Nat, T # {}
    PROVE  \E n \in T : \A m \in T : n <= m
<1> DEFINE R == OpToRel(<, Nat)
<1>1. IsWellFoundedOn(R, Nat)
  BY NatLessThanWellFounded
<1>2. \A x, y \in Nat : x < y => <<x, y>> \in R
  BY DEF OpToRel
<1> HIDE DEF R
<1>3. PICK n \in T : \A m \in T : ~ (<<m, n>> \in R)
  BY <1>1, WFMin
<1>4. \A m \in T : m \in Nat /\ n \in Nat /\ ~ (m < n)
  BY <1>2, <1>3
<1> QED BY <1>4

(* What holds of 0, and of n + 1 whenever of n, holds of every number. *)
LEMMA Induction ==
    ASSUME NEW T, T \subseteq Nat, 0 \in T, \A n \in T : n + 1 \in T
    PROVE  T = Nat
<1>1. SUFFICES ASSUME Nat \ T # {} PROVE FALSE
  OBVIOUS
<1>2. PICK n \in Nat \ T : \A m \in Nat \ T : n <= m
  <2>1. Nat \ T \subseteq Nat OBVIOUS
  <2>. QED BY <1>1, <2>1, LeastElement
<1>3. n # 0 OBVIOUS
<1>4. n - 1 \in Nat /\ ~ (n <= n - 1) /\ n - 1 + 1 = n BY <1>3
<1>5. n - 1 \in T BY <1>2, <1>4
<1> QED BY <1>4, <1>5

(* The same up to a bound. *)
LEMMA InductionTo ==
    ASSUME NEW n \in Nat, NEW T, 0 \in T, \A i \in 0..(n - 1) : i \in T => i + 1 \in T
    PROVE  0..n \subseteq T
<1> DEFINE S == {i \in Nat : i <= n => i \in T}
<1>1. 0 \in S OBVIOUS
<1>2. ASSUME NEW i \in S PROVE i + 1 \in S
  <2>1. ASSUME i + 1 <= n PROVE i + 1 \in T
    <3>1. i \in 0..(n - 1) /\ i <= n BY <2>1
    <3>2. i \in T BY <3>1
    <3>. QED BY <3>1, <3>2
  <2>. QED BY <2>1
<1>3. S \subseteq Nat OBVIOUS
<1>4. S = Nat
  <2> HIDE DEF S
  <2>. QED BY <1>1, <1>2, <1>3, Induction
<1> QED BY <1>4

(* Among finitely many positions below a bound one is the greatest. *)
LEMMA GreatestElement ==
    ASSUME NEW n \in Nat, NEW T, T \subseteq 0..n, T # {}
    PROVE  \E m \in T : \A i \in T : i <= m
<1> DEFINE S == {n - i : i \in T}
<1>1. S \subseteq Nat /\ S # {}
  <2>1. PICK i \in T : TRUE OBVIOUS
  <2>2. n - i \in S OBVIOUS
  <2>. QED BY <2>2
<1>2. PICK d \in S : \A e \in S : d <= e
  <2> HIDE DEF S
  <2>. QED BY <1>1, LeastElement
<1>3. PICK m \in T : d = n - m OBVIOUS
<1>4. ASSUME NEW i \in T PROVE i <= m
  <2>1. n - i \in S OBVIOUS
  <2>2. d <= n - i BY <1>2, <2>1
  <2>3. n \in Nat /\ i \in Nat /\ m \in Nat OBVIOUS
  <2> HIDE DEF S
  <2>. QED BY <1>3, <2>2, <2>3
<1> QED BY <1>4

(* A loop of n steps has a value after each of them. *)
Runs(f, base, step, n) == f[0] = base /\ \A i \in 1..n : f[i] = step[i][f[i - 1]]

LEMMA Iteration ==
    ASSUME NEW A, NEW base \in A, NEW step \in [Nat -> [A -> A]], NEW n \in Nat
    PROVE  \E f \in [0..n -> A] : Runs(f, base, step, n)
<1> USE DEF Runs
<1> DEFINE T == {k \in Nat : \E f \in [0..k -> A] : Runs(f, base, step, k)}
<1>1. 0 \in T
  <2>1. [i \in 0..0 |-> base] \in [0..0 -> A] /\ Runs([i \in 0..0 |-> base], base, step, 0)
    OBVIOUS
  <2>. QED BY <2>1
<1>2. ASSUME NEW k \in T PROVE k + 1 \in T
  <2>1. PICK f \in [0..k -> A] : Runs(f, base, step, k) OBVIOUS
  <2>2. k \in Nat /\ k \in 0..k /\ k + 1 \in Nat OBVIOUS
  <2> DEFINE g == [i \in 0..(k + 1) |-> IF i = k + 1 THEN step[k + 1][f[k]] ELSE f[i]]
  <2>3. step[k + 1][f[k]] \in A BY <2>2
  <2>4. g \in [0..(k + 1) -> A]
    <3>1. ASSUME NEW i \in 0..(k + 1), i # k + 1 PROVE f[i] \in A
      <4>1. i \in 0..k BY <2>2, <3>1
      <4>. QED BY <4>1
    <3>. QED BY <2>3, <3>1
  <2>5. g[0] = base BY <2>1, <2>2
  <2>6. ASSUME NEW i \in 1..(k + 1) PROVE g[i] = step[i][g[i - 1]]
    <3>1. CASE i = k + 1
      <4>1. i - 1 = k /\ k \in 0..(k + 1) /\ k # k + 1 BY <2>2, <3>1
      <4>. QED BY <4>1, <3>1
    <3>2. CASE i # k + 1
      <4>1. i \in 1..k /\ i \in 0..(k + 1) /\ i - 1 \in 0..(k + 1) /\ i - 1 # k + 1
        BY <2>2, <3>2
      <4>2. g[i] = f[i] /\ g[i - 1] = f[i - 1] BY <3>2, <4>1
      <4>. QED BY <2>1, <4>1, <4>2
    <3>. QED BY <3>1, <3>2
  <2> HIDE DEF g
  <2>. QED BY <2>2, <2>4, <2>5, <2>6
<1>3. T \subseteq Nat OBVIOUS
<1>4. T = Nat
  <2> HIDE DEF T
  <2>. QED BY <1>1, <1>2, <1>3, Induction
<1> QED BY <1>4

-----------------------------------------------------------------------------
(***************************************************************************)
(* Targets: what is measured of them, what they cost and how they compare. *)
(***************************************************************************)
TargetRecords == [path : Paths, file : Nat, metrics : [diff : Nat, hunks : Nat]]

(* The targets of one call: measured, no path twice. *)
Distinct(targets) ==
    \A i, j \in DOMAIN targets : targets[i].path = targets[j].path => i = j

Requests == {targets \in Seq(TargetRecords) : Distinct(targets)}

LEMMA CeilTyped ==
    ASSUME NEW a \in Nat
    PROVE  Ceil(a, 60000) \in Nat /\ Ceil(a, 12000) \in Nat /\ Ceil(a, 8) \in Nat
BY DEF Ceil

LEMMA CostTyped ==
    ASSUME NEW t \in TargetRecords
    PROVE  targetCost(t) \in Nat
<1>1. t.file \in Nat /\ t.metrics.diff \in Nat /\ t.metrics.hunks \in Nat
  BY DEF TargetRecords
<1>2. EffectiveBytes(t) \in Nat
  BY <1>1 DEF EffectiveBytes, LesserOf
<1>3. /\ Ceil(EffectiveBytes(t), 60000) \in Nat
      /\ Ceil(t.metrics.diff, 12000) \in Nat
      /\ Ceil(t.metrics.hunks, 8) \in Nat
  BY <1>1, <1>2, CeilTyped
<1> QED BY <1>3 DEF targetCost

LEMMA MeasuredTyped ==
    ASSUME NEW path \in Paths, disk \in [Paths -> Measures]
    PROVE  Measured(path) \in TargetRecords /\ Measured(path).path = path
<1>1. /\ disk[path].file \in Nat /\ disk[path].hunks \in Nat
      /\ disk[path].patch \in Nat \cup {FailedPatch}
  BY DEF Measures
<1>2. targetDiffMetrics(path) \in [diff : Nat, hunks : Nat]
  <2>1. CASE bound /\ disk[path].patch = FailedPatch
    <3>1. GreaterOf(disk[path].file, LargestPatch) \in Nat
      BY <1>1 DEF GreaterOf, LargestPatch
    <3>2. targetDiffMetrics(path) =
             [diff |-> GreaterOf(disk[path].file, LargestPatch), hunks |-> 1024]
      BY <2>1 DEF targetDiffMetrics, FailedPatch
    <3>. QED BY <3>1, <3>2
  <2>2. CASE ~ (bound /\ disk[path].patch = FailedPatch)
    BY <1>1, <2>2 DEF targetDiffMetrics
  <2>. QED BY <2>1, <2>2
<1> QED BY <1>1, <1>2 DEF Measured, TargetRecords

(* The comparison of the sort is a strict order, total on different paths. *)
LEMMA BeforeIsAnOrder ==
    /\ \A a, b \in TargetRecords :
          /\ Before(a, b) => ~ Before(b, a)
          /\ a.path = b.path \/ Before(a, b) \/ Before(b, a)
    /\ \A a, b, c \in TargetRecords : Before(a, b) /\ Before(b, c) => Before(a, c)
<1>1. \A a \in TargetRecords : a.path \in Int
  BY PlannerAssumption DEF TargetRecords
<1>2. ASSUME NEW a \in TargetRecords, NEW b \in TargetRecords
      PROVE  /\ Before(a, b) => ~ Before(b, a)
             /\ a.path = b.path \/ Before(a, b) \/ Before(b, a)
  <2> DEFINE A == a.path \in Documents
             B == b.path \in Documents
  <2>1. a.path \in Int /\ b.path \in Int BY <1>1
  <2>. QED BY <2>1 DEF Before
<1>3. ASSUME NEW a \in TargetRecords, NEW b \in TargetRecords, NEW c \in TargetRecords,
             Before(a, b), Before(b, c)
      PROVE  Before(a, c)
  <2>1. a.path \in Int /\ b.path \in Int /\ c.path \in Int BY <1>1
  <2>. QED BY <1>3, <2>1 DEF Before
<1> QED BY <1>2, <1>3

-----------------------------------------------------------------------------
(***************************************************************************)
(* The stable order of a request: there is one, and only one.              *)
(***************************************************************************)
Sorts(order, targets) ==
    /\ order \in [DOMAIN targets -> ToSet(targets)]
    /\ ToSet(order) = ToSet(targets)
    /\ InStableOrder(order)

(* A sorted sequence takes one more target, before the first one that comes *)
(* after it.                                                               *)
LEMMA Insertion ==
    ASSUME NEW n \in Nat, NEW s \in [1..n -> TargetRecords], InStableOrder(s),
           NEW t \in TargetRecords, \A i \in 1..n : s[i].path # t.path
    PROVE  \E order \in [1..(n + 1) -> TargetRecords] :
              /\ InStableOrder(order)
              /\ ToSet(order) = ToSet(s) \cup {t}
<1> DEFINE Later == {i \in 1..n : Before(t, s[i])} \cup {n + 1}
<1>1. PICK p \in Later : \A i \in Later : p <= i
  <2>1. Later \subseteq Nat /\ n + 1 \in Later OBVIOUS
  <2> HIDE DEF Later
  <2>. QED BY <2>1, LeastElement
<1>2. p \in 1..(n + 1) OBVIOUS
<1>3. ASSUME NEW i \in 1..n, i < p PROVE Before(s[i], t)
  <2>1. i \notin Later BY <1>1, <1>3
  <2>2. ~ Before(t, s[i]) BY <2>1
  <2>3. s[i] \in TargetRecords /\ s[i].path # t.path OBVIOUS
  <2>. QED BY <2>2, <2>3, BeforeIsAnOrder
<1>4. ASSUME NEW i \in 1..n, p <= i PROVE Before(t, s[i])
  <2>1. p \in 1..n /\ p # n + 1 BY <1>2, <1>4
  <2>2. Before(t, s[p]) BY <2>1
  <2>3. p = i \/ Before(s[p], s[i])
    <3>1. DOMAIN s = 1..n OBVIOUS
    <3>. QED BY <1>4, <2>1, <3>1 DEF InStableOrder
  <2>4. s[p] \in TargetRecords /\ s[i] \in TargetRecords BY <2>1
  <2>. QED BY <2>2, <2>3, <2>4, BeforeIsAnOrder
<1> HIDE DEF Later
<1> DEFINE order == [i \in 1..(n + 1) |-> IF i < p THEN s[i]
                                        ELSE IF i = p THEN t ELSE s[i - 1]]
<1>5. \A i \in 1..(n + 1) : /\ i < p => i \in 1..n
                           /\ i > p => i - 1 \in 1..n /\ p <= i - 1
  BY <1>2
<1>6. /\ DOMAIN order = 1..(n + 1)
      /\ \A i \in 1..(n + 1) : /\ i < p => order[i] = s[i]
                               /\ i = p => order[i] = t
                               /\ i > p => order[i] = s[i - 1]
  BY <1>2
<1>7. order \in [1..(n + 1) -> TargetRecords]
  BY <1>2, <1>5
<1> HIDE DEF order
<1>8. InStableOrder(order)
  <2> SUFFICES ASSUME NEW i \in 1..(n + 1), NEW j \in 1..(n + 1), i < j
               PROVE  Before(order[i], order[j])
    BY <1>6 DEF InStableOrder
  <2>1. \A a, b \in 1..n : a < b => Before(s[a], s[b])
    <3>1. DOMAIN s = 1..n OBVIOUS
    <3>. QED BY <3>1 DEF InStableOrder
  <2>2. CASE j < p BY <1>2, <1>5, <1>6, <2>1, <2>2
  <2>3. CASE j = p BY <1>2, <1>3, <1>5, <1>6, <2>3
  <2>4. CASE j > p /\ i < p
    <3>1. i \in 1..n /\ j - 1 \in 1..n /\ i < j - 1 BY <1>2, <1>5, <2>4
    <3>. QED BY <1>6, <2>1, <2>4, <3>1
  <2>5. CASE j > p /\ i = p BY <1>2, <1>4, <1>5, <1>6, <2>5
  <2>6. CASE j > p /\ i > p
    <3>1. i - 1 \in 1..n /\ j - 1 \in 1..n /\ i - 1 < j - 1 BY <1>2, <1>5, <2>6
    <3>. QED BY <1>6, <2>1, <2>6, <3>1
  <2>. QED BY <1>2, <2>2, <2>3, <2>4, <2>5, <2>6
<1>9. ToSet(order) = ToSet(s) \cup {t}
  <2>1. ASSUME NEW i \in 1..(n + 1) PROVE order[i] \in ToSet(s) \cup {t}
    BY <1>2, <1>5, <1>6 DEF ToSet
  <2>2. ASSUME NEW i \in 1..n PROVE s[i] \in ToSet(order)
    <3>1. CASE i < p BY <1>6, <3>1 DEF ToSet
    <3>2. CASE p <= i
      <4>1. i + 1 \in 1..(n + 1) /\ i + 1 > p /\ (i + 1) - 1 = i BY <1>2, <3>2
      <4>. QED BY <1>6, <4>1 DEF ToSet
    <3>. QED BY <1>2, <3>1, <3>2
  <2>3. t \in ToSet(order) BY <1>2, <1>6 DEF ToSet
  <2>4. ToSet(s) = {s[i] : i \in 1..n} /\ ToSet(order) = {order[i] : i \in 1..(n + 1)}
    BY <1>6 DEF ToSet
  <2>. QED BY <2>1, <2>2, <2>3, <2>4
<1> QED BY <1>7, <1>8, <1>9

(* Every request has a sorted order. *)
LEMMA OrderExists ==
    ASSUME NEW targets \in Requests
    PROVE  \E order : Sorts(order, targets)
<1> DEFINE T == {n \in Nat : \A s \in [1..n -> TargetRecords] : Distinct(s) =>
                    \E order \in [1..n -> TargetRecords] :
                       InStableOrder(order) /\ ToSet(order) = ToSet(s)}
<1>1. 0 \in T
  <2>1. ASSUME NEW s \in [1..0 -> TargetRecords] PROVE InStableOrder(s)
    <3>1. DOMAIN s = {} OBVIOUS
    <3>. QED BY <3>1 DEF InStableOrder
  <2>. QED BY <2>1
<1>2. ASSUME NEW n \in T PROVE n + 1 \in T
  <2>1. n \in Nat OBVIOUS
  <2> SUFFICES ASSUME NEW s \in [1..(n + 1) -> TargetRecords], Distinct(s)
               PROVE  \E order \in [1..(n + 1) -> TargetRecords] :
                         InStableOrder(order) /\ ToSet(order) = ToSet(s)
    BY <2>1
  <2> DEFINE front == [i \in 1..n |-> s[i]]
             t == s[n + 1]
  <2>2. front \in [1..n -> TargetRecords] /\ t \in TargetRecords BY <2>1
  <2>3. DOMAIN s = 1..(n + 1) /\ DOMAIN front = 1..n BY <2>1
  <2>4. Distinct(front) BY <2>1, <2>3 DEF Distinct
  <2>5. PICK sorted \in [1..n -> TargetRecords] :
           InStableOrder(sorted) /\ ToSet(sorted) = ToSet(front)
    <3> HIDE DEF front
    <3>. QED BY <2>2, <2>4
  <2>6. ASSUME NEW i \in 1..n PROVE sorted[i].path # t.path
    <3>1. sorted[i] \in ToSet(front) BY <2>5 DEF ToSet
    <3>2. PICK j \in 1..n : sorted[i] = s[j] BY <3>1 DEF ToSet
    <3>3. j \in DOMAIN s /\ n + 1 \in DOMAIN s /\ j # n + 1 BY <2>1, <2>3
    <3>. QED BY <3>2, <3>3 DEF Distinct
  <2>7. PICK order \in [1..(n + 1) -> TargetRecords] :
           InStableOrder(order) /\ ToSet(order) = ToSet(sorted) \cup {t}
    <3> HIDE DEF front, t
    <3>. QED BY <2>1, <2>2, <2>5, <2>6, Insertion, ZenonT(60)
  <2>8. ToSet(s) = ToSet(front) \cup {t} BY <2>1, <2>3 DEF ToSet
  <2>. QED BY <2>5, <2>7, <2>8
<1>3. T \subseteq Nat OBVIOUS
<1>4. T = Nat
  <2> HIDE DEF T
  <2>. QED BY <1>1, <1>2, <1>3, Induction
<1>5. /\ Len(targets) \in Nat /\ DOMAIN targets = 1..Len(targets)
      /\ targets \in [1..Len(targets) -> TargetRecords] /\ Distinct(targets)
  BY DEF Requests
<1>6. PICK order \in [1..Len(targets) -> TargetRecords] :
         InStableOrder(order) /\ ToSet(order) = ToSet(targets)
  BY <1>4, <1>5
<1>7. order \in [DOMAIN targets -> ToSet(targets)]
  <2>1. \A i \in 1..Len(targets) : order[i] \in ToSet(order) BY DEF ToSet
  <2>. QED BY <1>5, <1>6, <2>1
<1> QED BY <1>6, <1>7 DEF Sorts

LEMMA StableOrder ==
    ASSUME NEW targets \in Requests
    PROVE  /\ Sorts(stableTargetOrder(targets), targets)
           /\ stableTargetOrder(targets) \in Seq(TargetRecords)
           /\ Len(stableTargetOrder(targets)) = Len(targets)
<1> DEFINE order == stableTargetOrder(targets)
<1>1. \E s \in [DOMAIN targets -> ToSet(targets)] :
         ToSet(s) = ToSet(targets) /\ InStableOrder(s)
  BY OrderExists DEF Sorts
<1>2. Sorts(order, targets)
  BY <1>1, Zenon DEF Sorts, stableTargetOrder
<1>3. /\ targets \in Seq(TargetRecords) /\ Len(targets) \in Nat
      /\ DOMAIN targets = 1..Len(targets)
      /\ \A t \in ToSet(targets) : t \in TargetRecords
  BY DEF Requests, ToSet
<1> HIDE DEF order
<1>4. order \in [1..Len(targets) -> TargetRecords]
  BY <1>2, <1>3 DEF Sorts
<1>5. order \in Seq(TargetRecords) /\ Len(order) = Len(targets)
  BY <1>3, <1>4, LenProperties, SeqDef
<1> QED BY <1>2, <1>5 DEF order

(* A request that is already sorted is its own stable order. *)
LEMMA SortedIsStable ==
    ASSUME NEW targets \in Requests, InStableOrder(targets)
    PROVE  stableTargetOrder(targets) = targets
<1> DEFINE order == stableTargetOrder(targets)
           n == Len(targets)
           Differ == {i \in 1..n : order[i] # targets[i]}
<1>1. /\ n \in Nat /\ DOMAIN targets = 1..n /\ DOMAIN order = 1..n
      /\ \A i \in 1..n : order[i] \in TargetRecords /\ targets[i] \in TargetRecords
      /\ order \in Seq(TargetRecords) /\ Len(order) = n
      /\ ToSet(order) = ToSet(targets) /\ InStableOrder(order)
  BY StableOrder DEF Requests, Sorts
<1> HIDE DEF order, n
<1>2. SUFFICES ASSUME Differ # {} PROVE FALSE
  <2>1. ASSUME Differ = {} PROVE order = targets
    <3>1. \A i \in 1..n : order[i] = targets[i] BY <2>1
    <3>2. targets \in Seq(TargetRecords) /\ Len(targets) = n BY DEF Requests, n
    <3>. QED BY <1>1, <3>1, <3>2, SeqEqual
  <2>. QED BY <2>1 DEF order
<1>3. PICK i \in Differ : \A j \in Differ : i <= j
  <2>1. Differ \subseteq Nat OBVIOUS
  <2> HIDE DEF Differ
  <2>. QED BY <1>2, <2>1, LeastElement
<1>4. i \in 1..n /\ order[i] # targets[i] OBVIOUS
<1>5. \A j \in 1..n : j < i => order[j] = targets[j] BY <1>1, <1>3
<1> HIDE DEF Differ
<1>6. Before(targets[i], order[i])
  <2>1. PICK j \in 1..n : order[i] = targets[j] BY <1>1, <1>4 DEF ToSet
  <2>2. ~ (j < i)
    <3>1. ASSUME j < i PROVE FALSE
      <4>1. order[j] = order[i] BY <1>5, <2>1, <3>1
      <4>2. Before(order[j], order[i]) BY <1>1, <1>4, <3>1 DEF InStableOrder
      <4>. QED BY <1>1, <1>4, <4>1, <4>2, BeforeIsAnOrder
    <3>. QED BY <3>1
  <2>3. i < j BY <1>1, <1>4, <2>1, <2>2
  <2>. QED BY <1>1, <1>4, <2>1, <2>3 DEF InStableOrder
<1>7. Before(order[i], targets[i])
  <2>1. PICK j \in 1..n : targets[i] = order[j] BY <1>1, <1>4 DEF ToSet
  <2>2. ~ (j < i)
    <3>1. ASSUME j < i PROVE FALSE
      <4>1. targets[j] = targets[i] BY <1>5, <2>1, <3>1
      <4>2. Before(targets[j], targets[i]) BY <1>1, <1>4, <3>1 DEF InStableOrder
      <4>. QED BY <1>1, <1>4, <4>1, <4>2, BeforeIsAnOrder
    <3>. QED BY <3>1
  <2>3. i < j BY <1>1, <1>4, <2>1, <2>2
  <2>. QED BY <1>1, <1>4, <2>1, <2>3 DEF InStableOrder
<1> QED BY <1>1, <1>4, <1>6, <1>7, BeforeIsAnOrder

-----------------------------------------------------------------------------
(***************************************************************************)
(* The cost of a sequence of targets, and of its parts.                    *)
(***************************************************************************)
SumsOf(sum, targets) ==
    /\ sum \in [0..Len(targets) -> Nat]
    /\ sum[0] = 0
    /\ \A i \in 1..Len(targets) : sum[i] = sum[i - 1] + targetCost(targets[i])

LEMMA CostIsASum ==
    ASSUME NEW targets \in Seq(TargetRecords)
    PROVE  \E sum : SumsOf(sum, targets) /\ CostOf(targets) = sum[Len(targets)]
<1> DEFINE n == Len(targets)
           costs == [i \in Nat |-> IF i \in 1..n THEN targetCost(targets[i]) ELSE 0]
           step == [i \in Nat |-> [sum \in Nat |-> sum + costs[i]]]
           Sum(f) == f = [i \in 0..n |-> IF i = 0 THEN 0
                                         ELSE f[i - 1] + targetCost(targets[i])]
<1>1. n \in Nat OBVIOUS
<1>2. costs \in [Nat -> Nat]
  <2>1. \A i \in 1..n : targets[i] \in TargetRecords BY ElementOfSeq
  <2>. QED BY <2>1, CostTyped
<1>3. step \in [Nat -> [Nat -> Nat]]
  <2> HIDE DEF costs
  <2>. QED BY <1>2, SMTT(30)
<1> HIDE DEF costs, step, n
<1>4. PICK f \in [0..n -> Nat] : f[0] = 0 /\ \A i \in 1..n : f[i] = step[i][f[i - 1]]
  <2> DEFINE A == Nat
             base == 0
  <2>1. base \in A /\ step \in [Nat -> [A -> A]] BY <1>3
  <2> HIDE DEF A, base
  <2>2. \E f \in [0..n -> A] : Runs(f, base, step, n)
    BY <1>1, <2>1, Iteration
  <2>. QED BY <2>2 DEF A, base, Runs
<1>5. \A i \in 1..n : i \in 0..n /\ i # 0 /\ i - 1 \in 0..n /\ i \in Nat
  BY <1>1
<1>6. ASSUME NEW i \in 1..n PROVE step[i][f[i - 1]] = f[i - 1] + targetCost(targets[i])
  <2>1. i \in Nat /\ f[i - 1] \in Nat BY <1>5
  <2>2. costs[i] = targetCost(targets[i]) BY <2>1 DEF costs
  <2>. QED BY <2>1, <2>2 DEF step
<1>7. Sum(f)
  <2>1. \A i \in 0..n : f[i] = IF i = 0 THEN 0 ELSE f[i - 1] + targetCost(targets[i])
    BY <1>1, <1>4, <1>6
  <2>. QED BY <2>1
<1> DEFINE sum == CHOOSE g : Sum(g)
<1>8. Sum(sum) BY <1>7
<1>9. CostOf(targets) = sum[n] BY DEF CostOf, n
<1> HIDE DEF sum
<1>10. sum[0] = 0 /\ \A i \in 1..n : sum[i] = sum[i - 1] + targetCost(targets[i])
  <2>1. ASSUME NEW i \in 1..n PROVE i \in 0..n /\ i # 0 BY <1>1
  <2>2. 0 \in 0..n BY <1>1
  <2>. QED BY <1>8, <2>1, <2>2
<1>11. sum \in [0..n -> Nat]
  <2> DEFINE T == {i \in 0..n : sum[i] \in Nat}
  <2>1. 0 \in T BY <1>1, <1>10
  <2>2. ASSUME NEW i \in 0..(n - 1), i \in T PROVE i + 1 \in T
    <3>1. i + 1 \in 1..n /\ i + 1 \in 0..n /\ (i + 1) - 1 = i BY <1>1
    <3>2. targetCost(targets[i + 1]) \in Nat BY <3>1, ElementOfSeq, CostTyped DEF n
    <3>. QED BY <1>10, <2>2, <3>1, <3>2
  <2>3. 0..n \subseteq T
    <3> HIDE DEF T
    <3>. QED BY <1>1, <2>1, <2>2, InductionTo
  <2>4. \A i \in 0..n : sum[i] \in Nat BY <2>3
  <2>. QED BY <1>8, <2>4
<1> QED BY <1>9, <1>10, <1>11 DEF SumsOf, n

LEMMA SumsGrow ==
    ASSUME NEW targets \in Seq(TargetRecords), NEW sum, SumsOf(sum, targets),
           NEW a \in 0..Len(targets), NEW b \in a..Len(targets)
    PROVE  sum[a] <= sum[b]
<1> DEFINE n == Len(targets)
           T == {i \in Nat : a + i <= n => sum[a] <= sum[a + i]}
<1>1. n \in Nat /\ a \in Nat /\ sum[a] \in Nat BY DEF SumsOf
<1>2. 0 \in T BY <1>1
<1>3. ASSUME NEW i \in T PROVE i + 1 \in T
  <2> SUFFICES ASSUME a + (i + 1) <= n PROVE sum[a] <= sum[a + (i + 1)]
    OBVIOUS
  <2>1. a + i <= n /\ a + (i + 1) \in 1..n /\ (a + (i + 1)) - 1 = a + i /\ a + i \in 0..n
    BY <1>1
  <2>2. sum[a] <= sum[a + i] BY <2>1
  <2>3. targetCost(targets[a + (i + 1)]) \in Nat BY <2>1, ElementOfSeq, CostTyped
  <2>4. sum[a + (i + 1)] = sum[a + i] + targetCost(targets[a + (i + 1)]) /\ sum[a + i] \in Nat
    BY <2>1 DEF SumsOf
  <2>. QED BY <1>1, <2>2, <2>3, <2>4
<1>4. T = Nat
  <2>1. T \subseteq Nat OBVIOUS
  <2> HIDE DEF T
  <2>. QED BY <1>2, <1>3, <2>1, Induction
<1>5. b - a \in Nat /\ a + (b - a) = b /\ b <= n BY <1>1
<1> QED BY <1>4, <1>5

(* The cost of the targets from position a + 1 to position b. *)
LEMMA CostOfPart ==
    ASSUME NEW targets \in Seq(TargetRecords), NEW sum, SumsOf(sum, targets),
           NEW a \in 0..Len(targets), NEW b \in a..Len(targets)
    PROVE  /\ SubSeq(targets, a + 1, b) \in Seq(TargetRecords)
           /\ Len(SubSeq(targets, a + 1, b)) = b - a
           /\ CostOf(SubSeq(targets, a + 1, b)) = sum[b] - sum[a]
<1> DEFINE n == Len(targets)
           part == SubSeq(targets, a + 1, b)
<1>1. n \in Nat /\ a \in Nat /\ b \in Nat /\ a <= b /\ b <= n OBVIOUS
<1>2. \A i \in (a + 1)..b : targets[i] \in TargetRecords
  BY <1>1, ElementOfSeq
<1>3. /\ part \in Seq(TargetRecords) /\ Len(part) = b - a
      /\ \A i \in 1..(b - a) : part[i] = targets[a + i]
  <2>1. a + 1 \in Int /\ b \in Int /\ b - (a + 1) + 1 = b - a BY <1>1
  <2>2. /\ SubSeq(targets, a + 1, b) \in Seq(TargetRecords)
        /\ Len(SubSeq(targets, a + 1, b)) = IF a + 1 <= b THEN b - (a + 1) + 1 ELSE 0
        /\ \A i \in 1..(b - (a + 1) + 1) : SubSeq(targets, a + 1, b)[i] = targets[(a + 1) + i - 1]
    BY <1>2, <2>1, SubSeqProperties
  <2>3. \A i \in 1..(b - a) : (a + 1) + i - 1 = a + i BY <1>1
  <2>. QED BY <1>1, <2>1, <2>2, <2>3
<1> HIDE DEF part, n
<1>4. PICK own : SumsOf(own, part) /\ CostOf(part) = own[Len(part)]
  BY <1>3, CostIsASum
<1>5. sum[a] \in Nat BY <1>1 DEF SumsOf, n
<1> DEFINE T == {i \in Nat : i <= b - a => own[i] = sum[a + i] - sum[a]}
<1>6. 0 \in T BY <1>1, <1>4, <1>5 DEF SumsOf
<1>7. ASSUME NEW i \in T PROVE i + 1 \in T
  <2> SUFFICES ASSUME i + 1 <= b - a PROVE own[i + 1] = sum[a + (i + 1)] - sum[a]
    OBVIOUS
  <2>1. /\ i <= b - a /\ i + 1 \in 1..(b - a) /\ (i + 1) - 1 = i
        /\ a + (i + 1) \in 1..n /\ (a + (i + 1)) - 1 = a + i /\ a + i \in 0..n
    BY <1>1
  <2>2. own[i] = sum[a + i] - sum[a] BY <2>1
  <2>3. own[i + 1] = own[i] + targetCost(part[i + 1]) BY <1>3, <1>4, <2>1 DEF SumsOf
  <2>4. sum[a + (i + 1)] = sum[a + i] + targetCost(targets[a + (i + 1)])
    BY <2>1 DEF SumsOf, n
  <2>5. part[i + 1] = targets[a + (i + 1)] BY <1>3, <2>1
  <2>6. sum[a + i] \in Nat /\ targetCost(targets[a + (i + 1)]) \in Nat
    BY <2>1, ElementOfSeq, CostTyped DEF SumsOf, n
  <2>. QED BY <1>5, <2>2, <2>3, <2>4, <2>5, <2>6
<1>8. T = Nat
  <2>1. T \subseteq Nat OBVIOUS
  <2> HIDE DEF T
  <2>. QED BY <1>6, <1>7, <2>1, Induction
<1>9. own[b - a] = sum[a + (b - a)] - sum[a]
  <2>1. b - a \in T BY <1>1, <1>8
  <2>. QED BY <1>1, <2>1
<1>10. a + (b - a) = b BY <1>1
<1> QED BY <1>3, <1>4, <1>9, <1>10 DEF part

-----------------------------------------------------------------------------
(***************************************************************************)
(* The greedy groups.  Groups are described by the positions at which they *)
(* end: group j holds the targets after ends[j - 1] up to ends[j].         *)
(***************************************************************************)
Accumulators == [groups : Seq(Seq(TargetRecords)), current : Seq(TargetRecords), cost : Nat]

(* The targets after a up to b are within the limits of the role. *)
Within(sum, role, a, b) ==
    /\ b - a <= TargetLimit[role]
    /\ sum[b] - sum[a] <= roleComplexityLimit(role)

(* What the loop has built when it has placed i targets: every group is cut *)
(* from the order, is within the limits and had no room for one more.       *)
Greedy(acc, ends, order, sum, role, i) ==
    LET m == Len(acc.groups) IN
    /\ ends \in [0..m -> 0..i]
    /\ ends[0] = 0
    /\ i > 0 => ends[m] < i
    /\ acc.current = SubSeq(order, ends[m] + 1, i)
    /\ acc.cost = sum[i] - sum[ends[m]]
    /\ Within(sum, role, ends[m], i)
    /\ \A j \in 1..m : /\ ends[j - 1] < ends[j]
                       /\ acc.groups[j] = SubSeq(order, ends[j - 1] + 1, ends[j])
                       /\ Within(sum, role, ends[j - 1], ends[j])
                       /\ ~ Within(sum, role, ends[j - 1], ends[j] + 1)

LEMMA LimitsTyped ==
    ASSUME NEW role \in Roles
    PROVE  roleComplexityLimit(role) \in Nat /\ TargetLimit[role] \in Nat \ {0}
BY PlannerAssumption DEF Roles, roleComplexityLimit

LEMMA PlaceTyped ==
    ASSUME NEW acc \in Accumulators, NEW t \in TargetRecords, NEW role
    PROVE  Place(acc, t, role) \in Accumulators
<1>1. /\ acc.groups \in Seq(Seq(TargetRecords)) /\ acc.current \in Seq(TargetRecords)
      /\ acc.cost \in Nat /\ targetCost(t) \in Nat /\ <<t>> \in Seq(TargetRecords)
      /\ acc = [groups |-> acc.groups, current |-> acc.current, cost |-> acc.cost]
  BY CostTyped DEF Accumulators
<1>2. /\ Append(acc.groups, acc.current) \in Seq(Seq(TargetRecords))
      /\ Append(acc.current, t) \in Seq(TargetRecords)
      /\ acc.cost + targetCost(t) \in Nat
  BY <1>1
<1> QED BY <1>1, <1>2 DEF Place, Accumulators

LEMMA PlaceIsGreedy ==
    ASSUME NEW order \in Seq(TargetRecords), NEW role \in Roles,
           NEW sum, SumsOf(sum, order),
           \A i \in 1..Len(order) : targetCost(order[i]) <= roleComplexityLimit(role),
           NEW i \in 0..(Len(order) - 1), NEW acc \in Accumulators,
           NEW ends, Greedy(acc, ends, order, sum, role, i)
    PROVE  \E e : Greedy(Place(acc, order[i + 1], role), e, order, sum, role, i + 1)
<1> DEFINE m == Len(acc.groups)
           p == ends[m]
           t == order[i + 1]
           L == roleComplexityLimit(role)
<1>1. /\ m \in Nat /\ Len(order) \in Nat /\ i \in Nat /\ i + 1 \in 1..Len(order)
      /\ L \in Nat /\ TargetLimit[role] \in Nat \ {0}
      /\ acc.groups \in Seq(Seq(TargetRecords)) /\ acc.current \in Seq(TargetRecords)
  BY LimitsTyped DEF Accumulators
<1>2. /\ ends \in [0..m -> 0..i] /\ ends[0] = 0 /\ (i > 0 => p < i)
      /\ acc.current = SubSeq(order, p + 1, i) /\ acc.cost = sum[i] - sum[p]
      /\ Within(sum, role, p, i)
      /\ \A j \in 1..m : /\ ends[j - 1] < ends[j]
                         /\ acc.groups[j] = SubSeq(order, ends[j - 1] + 1, ends[j])
                         /\ Within(sum, role, ends[j - 1], ends[j])
                         /\ ~ Within(sum, role, ends[j - 1], ends[j] + 1)
  BY DEF Greedy
<1>3. p \in 0..i /\ p \in 0..Len(order) /\ i \in p..Len(order) /\ p <= i
  <2>1. m \in 0..m BY <1>1
  <2>2. p \in 0..i BY <1>2, <2>1
  <2>. QED BY <1>1, <2>2
<1>4. t \in TargetRecords /\ targetCost(t) \in Nat /\ targetCost(t) <= L
  BY <1>1, ElementOfSeq, CostTyped
<1>5. /\ sum[i] \in Nat /\ sum[p] \in Nat /\ sum[i + 1] \in Nat
      /\ sum[i + 1] = sum[i] + targetCost(t)
  <2>1. i \in 0..Len(order) /\ i + 1 \in 0..Len(order) /\ (i + 1) - 1 = i BY <1>1
  <2>. QED BY <1>1, <1>3, <2>1 DEF SumsOf
<1>6. Len(acc.current) = i - p
  BY <1>2, <1>3, CostOfPart
<1>7. acc.current # <<>> <=> i > 0
  <2>1. acc.current = <<>> <=> Len(acc.current) = 0 BY <1>1, EmptySeq
  <2>2. i = 0 => p = 0 BY <1>3
  <2>. QED BY <1>1, <1>2, <1>3, <1>6, <2>1, <2>2
<1> HIDE DEF m, p, t
<1>8. Len(acc.current) >= TargetLimit[role] \/ acc.cost + targetCost(t) > L
         <=> ~ Within(sum, role, p, i + 1)
  <2>1. i - p \in Nat /\ (i + 1) - p = (i - p) + 1 BY <1>1, <1>3
  <2>2. sum[i + 1] - sum[p] = (sum[i] - sum[p]) + targetCost(t) BY <1>4, <1>5
  <2>3. acc.cost = sum[i] - sum[p] BY <1>2
  <2>4. i - p >= TargetLimit[role] <=> ~ ((i + 1) - p <= TargetLimit[role])
    BY <1>1, <2>1
  <2>5. acc.cost + targetCost(t) > L <=> ~ (sum[i + 1] - sum[p] <= L)
    BY <1>1, <1>4, <1>5, <2>2, <2>3, SMTT(30)
  <2>. QED BY <1>6, <2>4, <2>5 DEF Within
<1> DEFINE full == i > 0 /\ ~ Within(sum, role, p, i + 1)
<1> HIDE DEF L
<1>9. Place(acc, t, role) =
        IF full
        THEN [groups |-> Append(acc.groups, acc.current), current |-> <<t>>,
              cost |-> targetCost(t)]
        ELSE [acc EXCEPT !.current = Append(@, t), !.cost = @ + targetCost(t)]
  BY <1>7, <1>8 DEF Place, L
<1> HIDE DEF full
<1>10. CASE full
  <2> DEFINE e == [j \in 0..(m + 1) |-> IF j = m + 1 THEN i ELSE ends[j]]
             new == Place(acc, t, role)
  <2>1. /\ new.groups = Append(acc.groups, acc.current) /\ new.current = <<t>>
        /\ new.cost = targetCost(t)
    BY <1>9, <1>10
  <2>2. /\ Len(new.groups) = m + 1
        /\ \A j \in 1..m : new.groups[j] = acc.groups[j]
        /\ new.groups[m + 1] = acc.current
    <3>1. acc.current \in Seq(TargetRecords) BY <1>1
    <3>. QED BY <1>1, <2>1, <3>1, AppendProperties DEF m
  <2>3. /\ \A j \in 0..m : e[j] = ends[j] /\ ends[j] \in 0..i
        /\ e[m + 1] = i /\ e[m] = p
    BY <1>1, <1>2, SMTT(30) DEF p
  <2>4. e \in [0..(m + 1) -> 0..(i + 1)] /\ e[0] = 0
    <3>1. \A j \in 0..(m + 1) : j # m + 1 => j \in 0..m BY <1>1
    <3>2. i \in 0..(i + 1) /\ \A x \in 0..i : x \in 0..(i + 1) BY <1>1
    <3>3. 0 \in 0..m BY <1>1
    <3>. QED BY <1>2, <2>3, <3>1, <3>2, <3>3
  <2> HIDE DEF e, new
  <2>5. new.current = SubSeq(order, e[m + 1] + 1, i + 1)
    <3>1. SubSeq(order, i + 1, i + 1) = <<order[i + 1]>>
      <4>1. i + 1 \in (i + 1)..Len(order) /\ (i + 1) - 1 = i /\ i < i + 1 BY <1>1
      <4>2. SubSeq(order, i + 1, i + 1) = SubSeq(order, i + 1, i) \o <<order[i + 1]>>
        BY <1>1, <4>1, SubSeqRecursiveSecond
      <4>3. SubSeq(order, i + 1, i) = <<>> BY <1>1, <4>1, SubSeqEmpty
      <4>4. <<order[i + 1]>> \in Seq(TargetRecords) BY <1>4 DEF t
      <4>. QED BY <4>2, <4>3, <4>4, ConcatEmptySeq
    <3>. QED BY <2>1, <2>3, <3>1 DEF t
  <2>6. new.cost = sum[i + 1] - sum[e[m + 1]] BY <1>4, <1>5, <2>1, <2>3
  <2>7. Within(sum, role, e[m + 1], i + 1)
    <3>1. (i + 1) - i = 1 /\ 1 <= TargetLimit[role] BY <1>1
    <3>. QED BY <1>4, <1>5, <2>3, <3>1 DEF Within, L
  <2>8. ASSUME NEW j \in 1..(m + 1)
        PROVE  /\ e[j - 1] < e[j]
               /\ new.groups[j] = SubSeq(order, e[j - 1] + 1, e[j])
               /\ Within(sum, role, e[j - 1], e[j])
               /\ ~ Within(sum, role, e[j - 1], e[j] + 1)
    <3>1. CASE j = m + 1
      <4>1. j - 1 = m BY <1>1, <3>1
      <4>2. e[j - 1] = p /\ e[j] = i BY <2>3, <3>1, <4>1
      <4>. QED BY <1>2, <1>10, <2>2, <3>1, <4>2 DEF full
    <3>2. CASE j # m + 1
      <4>1. j \in 1..m /\ j \in 0..m /\ j - 1 \in 0..m BY <1>1, <3>2
      <4>2. e[j] = ends[j] /\ e[j - 1] = ends[j - 1] /\ new.groups[j] = acc.groups[j]
        BY <2>2, <2>3, <4>1
      <4>. QED BY <1>2, <4>1, <4>2
    <3>. QED BY <3>1, <3>2
  <2>9. i + 1 > 0 => e[m + 1] < i + 1 BY <1>1, <2>3
  <2>10. Greedy(new, e, order, sum, role, i + 1)
    BY <2>2, <2>4, <2>5, <2>6, <2>7, <2>8, <2>9 DEF Greedy
  <2>. QED BY <2>10 DEF new, t
<1>11. CASE ~ full
  <2> DEFINE new == Place(acc, t, role)
  <2>1. /\ new.groups = acc.groups /\ new.current = Append(acc.current, t)
        /\ new.cost = acc.cost + targetCost(t)
    BY <1>9, <1>11 DEF Accumulators
  <2> HIDE DEF new
  <2>2. ends \in [0..m -> 0..(i + 1)]
    <3>1. \A x \in 0..i : x \in 0..(i + 1) BY <1>1
    <3>. QED BY <1>2, <3>1
  <2>3. p < i + 1 BY <1>1, <1>3
  <2>4. new.current = SubSeq(order, p + 1, i + 1)
    <3>1. p + 1 \in 1..(i + 1) /\ i + 1 \in (p + 1)..Len(order) /\ (i + 1) - 1 = i
          /\ p + 1 \in 1..Len(order)
      BY <1>1, <1>3
    <3>2. SubSeq(order, p + 1, i + 1) = SubSeq(order, p + 1, i) \o <<order[i + 1]>>
      BY <3>1, SubSeqRecursiveSecond
    <3>3. Append(acc.current, t) = acc.current \o <<t>>
      BY <1>1, <1>4, AppendIsConcat
    <3>. QED BY <1>2, <2>1, <3>2, <3>3 DEF t
  <2>5. new.cost = sum[i + 1] - sum[p] BY <1>2, <1>4, <1>5, <2>1, SMTT(30)
  <2>6. Within(sum, role, p, i + 1)
    <3>1. CASE i > 0 BY <1>11, <3>1 DEF full
    <3>2. CASE ~ (i > 0)
      <4>1. i = 0 /\ p = 0 BY <1>1, <1>3, <3>2
      <4>2. (i + 1) - p = 1 /\ 1 <= TargetLimit[role] BY <1>1, <4>1
      <4>3. sum[i + 1] - sum[p] = targetCost(t) BY <1>4, <1>5, <4>1, SMTT(30)
      <4>. QED BY <1>4, <4>2, <4>3 DEF Within, L
    <3>. QED BY <3>1, <3>2
  <2>7. Greedy(new, ends, order, sum, role, i + 1)
    BY <1>2, <2>1, <2>2, <2>3, <2>4, <2>5, <2>6 DEF Greedy, m, p
  <2>. QED BY <2>7 DEF new, t
<1> QED BY <1>10, <1>11

(* The loop of makeTargetPartitions. *)
Nothing == [groups |-> <<>>, current |-> <<>>, cost |-> 0]

Placed(after, order, role) ==
    /\ after \in [0..Len(order) -> Accumulators]
    /\ after[0] = Nothing
    /\ \A i \in 1..Len(order) : after[i] = Place(after[i - 1], order[i], role)

LEMMA Placements ==
    ASSUME NEW targets \in Requests, NEW role
    PROVE  \E after :
              /\ Placed(after, stableTargetOrder(targets), role)
              /\ makeTargetPartitions(targets, role) =
                    LET done == after[Len(stableTargetOrder(targets))]
                    IN  Append(done.groups, done.current)
<1> DEFINE order == stableTargetOrder(targets)
           n == Len(order)
           step == [i \in Nat |-> [acc \in Accumulators |->
                      IF i \in 1..n THEN Place(acc, order[i], role) ELSE acc]]
           Loop(f) == f = [i \in 0..n |-> IF i = 0 THEN Nothing
                                          ELSE Place(f[i - 1], order[i], role)]
<1>1. order \in Seq(TargetRecords) /\ n \in Nat
  BY StableOrder
<1>2. Nothing \in Accumulators
  <2>1. <<>> \in Seq(Seq(TargetRecords)) /\ <<>> \in Seq(TargetRecords) BY EmptySeq
  <2>. QED BY <2>1 DEF Nothing, Accumulators
<1> HIDE DEF order
<1>3. step \in [Nat -> [Accumulators -> Accumulators]]
  <2>1. ASSUME NEW i \in Nat, NEW acc \in Accumulators, i \in 1..n
        PROVE  Place(acc, order[i], role) \in Accumulators
    BY <1>1, <2>1, ElementOfSeq, PlaceTyped
  <2> HIDE DEF n
  <2>. QED BY <2>1
<1> HIDE DEF n, step
<1>4. PICK f \in [0..n -> Accumulators] : Runs(f, Nothing, step, n)
  BY <1>1, <1>2, <1>3, Iteration
<1>5. \A i \in 1..n : i \in 0..n /\ i # 0 /\ i - 1 \in 0..n /\ i \in Nat
  BY <1>1
<1>6. \A i \in 1..n : step[i][f[i - 1]] = Place(f[i - 1], order[i], role)
  <2> SUFFICES ASSUME NEW i \in 1..n
               PROVE  step[i][f[i - 1]] = Place(f[i - 1], order[i], role)
    OBVIOUS
  <2>1. i \in Nat /\ f[i - 1] \in Accumulators BY <1>5
  <2>. QED BY <2>1 DEF step
<1>7. Loop(f)
  <2>1. \A i \in 0..n : f[i] = IF i = 0 THEN Nothing ELSE Place(f[i - 1], order[i], role)
    BY <1>1, <1>4, <1>6 DEF Runs
  <2>. QED BY <2>1
<1> DEFINE after == CHOOSE g : Loop(g)
<1>8. Loop(after) BY <1>7
<1>9. makeTargetPartitions(targets, role) = Append(after[n].groups, after[n].current)
  BY DEF makeTargetPartitions, Nothing, n, order
<1> HIDE DEF after
<1>10. after[0] = Nothing /\ \A i \in 1..n : after[i] = Place(after[i - 1], order[i], role)
  <2>1. 0 \in 0..n BY <1>1
  <2>. QED BY <1>5, <1>8, <2>1
<1>11. after \in [0..n -> Accumulators]
  <2> DEFINE T == {i \in 0..n : after[i] \in Accumulators}
  <2>1. 0 \in T BY <1>1, <1>2, <1>10
  <2>2. ASSUME NEW i \in 0..(n - 1), i \in T PROVE i + 1 \in T
    <3>1. i + 1 \in 1..n /\ i + 1 \in 0..n /\ (i + 1) - 1 = i BY <1>1
    <3>2. order[i + 1] \in TargetRecords BY <1>1, <3>1, ElementOfSeq DEF n
    <3>3. Place(after[i], order[i + 1], role) \in Accumulators BY <2>2, <3>2, PlaceTyped
    <3>. QED BY <1>10, <3>1, <3>3
  <2>3. 0..n \subseteq T
    <3> HIDE DEF T
    <3>. QED BY <1>1, <2>1, <2>2, InductionTo
  <2>4. \A i \in 0..n : after[i] \in Accumulators BY <2>3
  <2>. QED BY <1>8, <2>4
<1>12. Placed(after, order, role) BY <1>10, <1>11 DEF Placed, n
<1> QED BY <1>9, <1>12 DEF n, order

(* The groups are the order, cut at the ends, none of them empty. *)
Cuts(groups, ends, s) ==
    /\ ends \in [0..Len(groups) -> 0..Len(s)]
    /\ ends[0] = 0 /\ ends[Len(groups)] = Len(s)
    /\ \A j \in 1..Len(groups) : /\ ends[j - 1] < ends[j]
                                 /\ groups[j] = SubSeq(s, ends[j - 1] + 1, ends[j])

(* makeTargetPartitions cuts the stable order into groups within the limits, *)
(* each of which had no room for the first target of the next.              *)
LEMMA GreedyGroups ==
    ASSUME NEW targets \in Requests, targets # <<>>, NEW role \in Roles,
           NEW sum, SumsOf(sum, stableTargetOrder(targets)),
           \A i \in DOMAIN targets : targetCost(targets[i]) <= roleComplexityLimit(role)
    PROVE  LET groups == makeTargetPartitions(targets, role) IN
           /\ groups \in Seq(Seq(TargetRecords))
           /\ \E ends :
                 /\ Cuts(groups, ends, stableTargetOrder(targets))
                 /\ \A j \in 1..Len(groups) :
                       /\ Within(sum, role, ends[j - 1], ends[j])
                       /\ j < Len(groups) => ~ Within(sum, role, ends[j - 1], ends[j] + 1)
<1> DEFINE order == stableTargetOrder(targets)
           n == Len(order)
<1>1. /\ order \in Seq(TargetRecords) /\ n \in Nat \ {0}
      /\ \A i \in 1..n : targetCost(order[i]) <= roleComplexityLimit(role)
  <2>1. order \in Seq(TargetRecords) /\ n = Len(targets) /\ ToSet(order) = ToSet(targets)
    BY StableOrder DEF Sorts
  <2>2. n \in Nat \ {0} BY <2>1, EmptySeq DEF Requests
  <2>3. ASSUME NEW i \in 1..n PROVE targetCost(order[i]) <= roleComplexityLimit(role)
    <3>1. order[i] \in ToSet(targets) BY <2>1 DEF ToSet
    <3>. QED BY <3>1 DEF ToSet
  <2>. QED BY <2>1, <2>2, <2>3
<1>2. PICK after : /\ Placed(after, order, role)
                   /\ makeTargetPartitions(targets, role) =
                         Append(after[n].groups, after[n].current)
  BY Placements
<1>3. SumsOf(sum, order) OBVIOUS
<1> HIDE DEF order
<1> DEFINE T == {i \in 0..n : \E ends : Greedy(after[i], ends, order, sum, role, i)}
<1>4. 0 \in T
  <2> DEFINE ends == [j \in 0..0 |-> 0]
  <2>1. after[0].groups = <<>> /\ after[0].current = <<>> /\ after[0].cost = 0
    BY <1>2 DEF Placed, Nothing
  <2>2. Len(after[0].groups) = 0 BY <2>1
  <2>3. SubSeq(order, 1, 0) = <<>> BY SubSeqEmpty
  <2>4. sum[0] = 0 BY <1>3 DEF SumsOf
  <2>5. Within(sum, role, 0, 0) BY <2>4, LimitsTyped DEF Within
  <2>6. ends \in [0..0 -> 0..0] /\ ends[0] = 0 OBVIOUS
  <2> HIDE DEF ends
  <2>7. Greedy(after[0], ends, order, sum, role, 0)
    BY <2>1, <2>2, <2>3, <2>4, <2>5, <2>6 DEF Greedy
  <2>. QED BY <1>1, <2>7
<1>5. ASSUME NEW i \in 0..(n - 1), i \in T PROVE i + 1 \in T
  <2>1. i \in 0..n /\ i + 1 \in 1..n /\ i + 1 \in 0..n /\ (i + 1) - 1 = i BY <1>1
  <2>2. PICK ends : Greedy(after[i], ends, order, sum, role, i) BY <1>5
  <2>3. after[i] \in Accumulators /\ after[i + 1] = Place(after[i], order[i + 1], role)
    BY <1>2, <2>1 DEF Placed
  <2>4. \E e : Greedy(Place(after[i], order[i + 1], role), e, order, sum, role, i + 1)
    BY <1>1, <1>3, <2>2, <2>3, PlaceIsGreedy
  <2>. QED BY <2>1, <2>3, <2>4
<1>6. n \in T
  <2>1. 0..n \subseteq T
    <3> HIDE DEF T
    <3>. QED BY <1>1, <1>4, <1>5, InductionTo
  <2>. QED BY <1>1, <2>1
<1> DEFINE acc == after[n]
           m == Len(acc.groups)
           groups == Append(acc.groups, acc.current)
<1>7. PICK ends : Greedy(acc, ends, order, sum, role, n) BY <1>6
<1>8. acc \in Accumulators BY <1>1, <1>2 DEF Placed
<1>9. /\ groups \in Seq(Seq(TargetRecords)) /\ Len(groups) = m + 1 /\ m \in Nat
      /\ \A j \in 1..m : groups[j] = acc.groups[j]
      /\ groups[m + 1] = acc.current
  <2>1. acc.groups \in Seq(Seq(TargetRecords)) /\ acc.current \in Seq(TargetRecords)
    BY <1>8 DEF Accumulators
  <2> HIDE DEF acc
  <2>. QED BY <2>1, AppendProperties
<1>10. /\ ends \in [0..m -> 0..n] /\ ends[0] = 0 /\ ends[m] < n
       /\ acc.current = SubSeq(order, ends[m] + 1, n)
       /\ Within(sum, role, ends[m], n)
       /\ \A j \in 1..m : /\ ends[j - 1] < ends[j]
                          /\ acc.groups[j] = SubSeq(order, ends[j - 1] + 1, ends[j])
                          /\ Within(sum, role, ends[j - 1], ends[j])
                          /\ ~ Within(sum, role, ends[j - 1], ends[j] + 1)
  <2> HIDE DEF acc
  <2>. QED BY <1>1, <1>7 DEF Greedy
<1> HIDE DEF acc, m, groups, n
<1> DEFINE e == [j \in 0..(m + 1) |-> IF j = m + 1 THEN n ELSE ends[j]]
<1>11. /\ \A j \in 0..m : e[j] = ends[j]
       /\ e[m + 1] = n /\ e \in [0..(m + 1) -> 0..n] /\ e[0] = 0
  <2>1. \A j \in 0..(m + 1) : j # m + 1 => j \in 0..m BY <1>9
  <2>2. \A j \in 0..m : j \in 0..(m + 1) /\ j # m + 1 BY <1>9
  <2>3. n \in 0..n /\ 0 \in 0..m /\ m + 1 \in 0..(m + 1) BY <1>1, <1>9
  <2>. QED BY <1>10, <2>1, <2>2, <2>3
<1> HIDE DEF e
<1>12. ASSUME NEW j \in 1..(m + 1)
       PROVE  /\ e[j - 1] < e[j]
              /\ groups[j] = SubSeq(order, e[j - 1] + 1, e[j])
              /\ Within(sum, role, e[j - 1], e[j])
              /\ j < m + 1 => ~ Within(sum, role, e[j - 1], e[j] + 1)
  <2>1. CASE j = m + 1
    <3>1. j - 1 = m /\ m \in 0..m BY <1>9, <2>1
    <3>2. e[j - 1] = ends[m] /\ e[j] = n BY <1>11, <2>1, <3>1
    <3>. QED BY <1>9, <1>10, <2>1, <3>2
  <2>2. CASE j # m + 1
    <3>1. j \in 1..m /\ j \in 0..m /\ j - 1 \in 0..m BY <1>9, <2>2
    <3>2. e[j] = ends[j] /\ e[j - 1] = ends[j - 1] /\ groups[j] = acc.groups[j]
      BY <1>9, <1>11, <3>1
    <3>. QED BY <1>10, <3>1, <3>2
  <2>. QED BY <2>1, <2>2
<1>13. Cuts(groups, e, order) BY <1>9, <1>11, <1>12 DEF Cuts, n
<1>14. makeTargetPartitions(targets, role) = groups BY <1>2 DEF acc, groups
<1> QED BY <1>9, <1>12, <1>13, <1>14 DEF order

-----------------------------------------------------------------------------
(***************************************************************************)
(* Splitting for the length of a prompt.                                   *)
(***************************************************************************)
(* A sequence with element i replaced by two. *)
Spliced(groups, i, h1, h2) ==
    SubSeq(groups, 1, i - 1) \o <<h1, h2>> \o SubSeq(groups, i + 1, Len(groups))

IsSpliced(new, groups, i, h1, h2) ==
    /\ Len(new) = Len(groups) + 1
    /\ \A j \in 1..(Len(groups) + 1) :
          /\ j < i => new[j] = groups[j]
          /\ j = i => new[j] = h1
          /\ j = i + 1 => new[j] = h2
          /\ j > i + 1 => new[j] = groups[j - 1]

LEMMA Splice ==
    ASSUME NEW S, NEW groups \in Seq(S), NEW i \in 1..Len(groups), NEW h1 \in S, NEW h2 \in S
    PROVE  /\ Spliced(groups, i, h1, h2) \in Seq(S)
           /\ IsSpliced(Spliced(groups, i, h1, h2), groups, i, h1, h2)
<1> DEFINE m == Len(groups)
           before == SubSeq(groups, 1, i - 1)
           halves == <<h1, h2>>
           behind == SubSeq(groups, i + 1, m)
           front == before \o halves
           new == front \o behind
<1>1. m \in Nat /\ i \in Nat /\ i >= 1 /\ i <= m OBVIOUS
<1>2. \A j \in 1..m : groups[j] \in S BY ElementOfSeq
<1>3. /\ before \in Seq(S) /\ Len(before) = i - 1
      /\ \A j \in 1..(i - 1) : before[j] = groups[j]
  <2>1. 1 \in Int /\ i - 1 \in Int /\ (i - 1) - 1 + 1 = i - 1 BY <1>1
  <2>2. \A j \in 1..(i - 1) : groups[j] \in S BY <1>1, <1>2
  <2>3. /\ SubSeq(groups, 1, i - 1) \in Seq(S)
        /\ Len(SubSeq(groups, 1, i - 1)) = IF 1 <= i - 1 THEN (i - 1) - 1 + 1 ELSE 0
        /\ \A j \in 1..((i - 1) - 1 + 1) : SubSeq(groups, 1, i - 1)[j] = groups[1 + j - 1]
    BY <2>1, <2>2, SubSeqProperties
  <2>4. \A j \in 1..(i - 1) : 1 + j - 1 = j BY <1>1
  <2>. QED BY <1>1, <2>1, <2>3, <2>4
<1>4. /\ behind \in Seq(S) /\ Len(behind) = m - i
      /\ \A j \in 1..(m - i) : behind[j] = groups[i + j]
  <2>1. i + 1 \in Int /\ m \in Int /\ m - (i + 1) + 1 = m - i BY <1>1
  <2>2. \A j \in (i + 1)..m : groups[j] \in S BY <1>1, <1>2
  <2>3. /\ SubSeq(groups, i + 1, m) \in Seq(S)
        /\ Len(SubSeq(groups, i + 1, m)) = IF i + 1 <= m THEN m - (i + 1) + 1 ELSE 0
        /\ \A j \in 1..(m - (i + 1) + 1) : SubSeq(groups, i + 1, m)[j] = groups[(i + 1) + j - 1]
    BY <2>1, <2>2, SubSeqProperties
  <2>4. \A j \in 1..(m - i) : (i + 1) + j - 1 = i + j BY <1>1
  <2>5. Len(SubSeq(groups, i + 1, m)) = m - i
    <3>1. CASE i + 1 <= m BY <2>1, <2>3, <3>1
    <3>2. CASE ~ (i + 1 <= m)
      <4>1. m - i = 0 BY <1>1, <3>2
      <4>. QED BY <2>3, <3>2, <4>1
    <3>. QED BY <3>1, <3>2
  <2> HIDE DEF m
  <2>. QED BY <2>1, <2>3, <2>4, <2>5
<1>5. halves \in Seq(S) /\ Len(halves) = 2 /\ halves[1] = h1 /\ halves[2] = h2
  OBVIOUS
<1> HIDE DEF before, halves, behind, m
<1>6. /\ front \in Seq(S) /\ Len(front) = i + 1
      /\ \A j \in 1..(i + 1) : front[j] = IF j <= i - 1 THEN before[j] ELSE halves[j - (i - 1)]
  <2>1. (i - 1) + 2 = i + 1 BY <1>1
  <2>2. /\ before \o halves \in Seq(S)
        /\ Len(before \o halves) = Len(before) + Len(halves)
        /\ \A j \in 1..(Len(before) + Len(halves)) : (before \o halves)[j] =
              IF j <= Len(before) THEN before[j] ELSE halves[j - Len(before)]
    BY <1>3, <1>5, ConcatProperties
  <2>. QED BY <1>3, <1>5, <2>1, <2>2
<1> HIDE DEF front
<1>7. /\ new \in Seq(S) /\ Len(new) = m + 1
      /\ \A j \in 1..(m + 1) : new[j] = IF j <= i + 1 THEN front[j] ELSE behind[j - (i + 1)]
  <2>1. (i + 1) + (m - i) = m + 1 BY <1>1 DEF m
  <2>2. /\ front \o behind \in Seq(S)
        /\ Len(front \o behind) = Len(front) + Len(behind)
        /\ \A j \in 1..(Len(front) + Len(behind)) : (front \o behind)[j] =
              IF j <= Len(front) THEN front[j] ELSE behind[j - Len(front)]
    BY <1>4, <1>6, ConcatProperties
  <2>. QED BY <1>4, <1>6, <2>1, <2>2
<1> HIDE DEF new
<1>8. ASSUME NEW j \in 1..(m + 1)
      PROVE  /\ j < i => new[j] = groups[j]
             /\ j = i => new[j] = h1
             /\ j = i + 1 => new[j] = h2
             /\ j > i + 1 => new[j] = groups[j - 1]
  <2>1. CASE j < i
    <3>1. j \in 1..(i + 1) /\ j \in 1..(i - 1) /\ j <= i + 1 /\ j <= i - 1 BY <1>1, <2>1
    <3>. QED BY <1>1, <1>3, <1>6, <1>7, <2>1, <3>1
  <2>2. CASE j = i
    <3>1. j \in 1..(i + 1) /\ ~ (j <= i - 1) /\ j - (i - 1) = 1 /\ j <= i + 1 BY <1>1, <2>2
    <3>. QED BY <1>1, <1>5, <1>6, <1>7, <2>2, <3>1
  <2>3. CASE j = i + 1
    <3>1. j \in 1..(i + 1) /\ ~ (j <= i - 1) /\ j - (i - 1) = 2 /\ j <= i + 1 BY <1>1, <2>3
    <3>. QED BY <1>1, <1>5, <1>6, <1>7, <2>3, <3>1
  <2>4. CASE j > i + 1
    <3>1. ~ (j <= i + 1) /\ j - (i + 1) \in 1..(m - i) /\ i + (j - (i + 1)) = j - 1
      BY <1>1, <2>4
    <3>. QED BY <1>1, <1>4, <1>7, <2>4, <3>1
  <2>. QED BY <1>1, <2>1, <2>2, <2>3, <2>4
<1>9. new = Spliced(groups, i, h1, h2)
  BY DEF Spliced, new, front, before, halves, behind, m
<1> QED BY <1>7, <1>8, <1>9 DEF IsSpliced, m

(* Every group of the one cut lies within a group of the other. *)
Refines(e, groups, ends, coarse) ==
    \A j \in 1..Len(groups) : \E i \in 1..Len(coarse) :
        ends[i - 1] <= e[j - 1] /\ e[j] <= ends[i]

LEMMA FirstIsFirst ==
    ASSUME NEW places, places \subseteq Nat, places # {}
    PROVE  First(places) \in places /\ \A j \in places : First(places) <= j
BY LeastElement DEF First

(* The ends of a cut are positions, and the parts are where they say. *)
LEMMA CutFacts ==
    ASSUME NEW S, NEW s \in Seq(S), NEW groups \in Seq(Seq(S)), NEW ends,
           Cuts(groups, ends, s), NEW j \in 1..Len(groups)
    PROVE  /\ ends[j - 1] \in 0..Len(s) /\ ends[j] \in 0..Len(s)
           /\ ends[j - 1] \in Nat /\ ends[j] \in Nat /\ ends[j - 1] < ends[j]
           /\ groups[j] = SubSeq(s, ends[j - 1] + 1, ends[j])
           /\ Len(groups[j]) = ends[j] - ends[j - 1]
           /\ \A k \in 1..(ends[j] - ends[j - 1]) : groups[j][k] = s[ends[j - 1] + k]
<1>1. Len(groups) \in Nat /\ Len(s) \in Nat OBVIOUS
<1>2. j \in 0..Len(groups) /\ j - 1 \in 0..Len(groups) BY <1>1
<1>3. /\ ends[j - 1] \in 0..Len(s) /\ ends[j] \in 0..Len(s) /\ ends[j - 1] < ends[j]
      /\ groups[j] = SubSeq(s, ends[j - 1] + 1, ends[j])
  BY <1>2 DEF Cuts
<1> DEFINE a == ends[j - 1]
           b == ends[j]
<1>4. a \in Nat /\ b \in Nat /\ a < b /\ b <= Len(s) BY <1>1, <1>3
<1>5. groups[j] = SubSeq(s, a + 1, b) BY <1>3
<1> HIDE DEF a, b
<1>6. a + 1 \in Int /\ b \in Int /\ b - (a + 1) + 1 = b - a /\ a + 1 <= b BY <1>4
<1>7. \A k \in (a + 1)..b : s[k] \in S BY <1>1, <1>4, ElementOfSeq
<1>8. /\ Len(SubSeq(s, a + 1, b)) = IF a + 1 <= b THEN b - (a + 1) + 1 ELSE 0
      /\ \A k \in 1..(b - (a + 1) + 1) : SubSeq(s, a + 1, b)[k] = s[(a + 1) + k - 1]
  BY <1>6, <1>7, SubSeqProperties
<1>9. \A k \in 1..(b - a) : (a + 1) + k - 1 = a + k BY <1>4
<1>10. Len(groups[j]) = b - a /\ \A k \in 1..(b - a) : groups[j][k] = s[a + k]
  BY <1>5, <1>6, <1>8, <1>9
<1> QED BY <1>3, <1>4, <1>10 DEF a, b

LEMMA CutParts ==
    ASSUME NEW S, NEW s \in Seq(S), NEW groups \in Seq(Seq(S)), NEW ends,
           Cuts(groups, ends, s)
    PROVE  \A j \in 1..Len(groups) :
              /\ ends[j - 1] \in 0..Len(s) /\ ends[j] \in 0..Len(s)
              /\ ends[j - 1] \in Nat /\ ends[j] \in Nat /\ ends[j - 1] < ends[j]
              /\ groups[j] = SubSeq(s, ends[j - 1] + 1, ends[j])
              /\ Len(groups[j]) = ends[j] - ends[j - 1]
<1> TAKE j \in 1..Len(groups)
<1> QED BY CutFacts

LEMMA PartOfPart ==
    ASSUME NEW S, NEW s \in Seq(S), NEW a \in Nat, NEW b \in Nat, a < b, b <= Len(s),
           NEW x \in 1..(b - a), NEW y \in 1..(b - a)
    PROVE  SubSeq(SubSeq(s, a + 1, b), x, y) = SubSeq(s, a + x, a + y)
<1> DEFINE i == a + 1
<1>1. Len(s) \in Nat OBVIOUS
<1>2. /\ i \in 1..Len(s) /\ b \in 1..Len(s) /\ x \in 1..(b - i + 1) /\ y \in 1..(b - i + 1)
      /\ i + x - 1 = a + x /\ i + y - 1 = a + y
  BY <1>1
<1> HIDE DEF i
<1>3. SubSeq(SubSeq(s, i, b), x, y) = SubSeq(s, i + x - 1, i + y - 1)
  BY <1>2, SubSeqOfSubSeq
<1> QED BY <1>2, <1>3 DEF i

(* One step of the queue cuts the same sequence, finer. *)
LEMMA SplitCuts ==
    ASSUME NEW S, NEW s \in Seq(S), NEW groups \in Seq(Seq(S)), NEW ends,
           Cuts(groups, ends, s), NEW room \in Int
    PROVE  /\ SplitFirst(groups, room) \in Seq(Seq(S))
           /\ \E e : /\ Cuts(SplitFirst(groups, room), e, s)
                     /\ Refines(e, SplitFirst(groups, room), ends, groups)
           /\ Long(groups, room) # {} => Len(SplitFirst(groups, room)) = Len(groups) + 1
<1>0. \A j \in 1..Len(groups) :
         /\ ends[j - 1] \in 0..Len(s) /\ ends[j] \in 0..Len(s)
         /\ ends[j - 1] \in Nat /\ ends[j] \in Nat /\ ends[j - 1] < ends[j]
         /\ groups[j] = SubSeq(s, ends[j - 1] + 1, ends[j])
         /\ Len(groups[j]) = ends[j] - ends[j - 1]
  BY CutParts
<1> DEFINE m == Len(groups)
           long == Long(groups, room)
           i == First(long)
           a == ends[i - 1]
           b == ends[i]
           middle == Ceil(Len(groups[i]), 2)
           h1 == SubSeq(groups[i], 1, middle)
           h2 == SubSeq(groups[i], middle + 1, Len(groups[i]))
           new == SplitFirst(groups, room)
<1>1. m \in Nat /\ DOMAIN groups = 1..m /\ \A j \in 1..m : groups[j] \in Seq(S)
  BY ElementOfSeq
<1>2. CASE long = {}
  <2>1. new = groups BY <1>2, Zenon DEF SplitFirst
  <2>2. Refines(ends, groups, ends, groups)
    <3>1. \A j \in 1..m : ends[j - 1] <= ends[j - 1] /\ ends[j] <= ends[j]
      BY <1>0
    <3>. QED BY <3>1 DEF Refines
  <2>. QED BY <1>2, <2>1, <2>2
<1>3. CASE long # {}
  <2>1. i \in long
    <3>1. long \subseteq Nat BY <1>1 DEF Long
    <3> HIDE DEF long
    <3>. QED BY <1>3, <3>1, FirstIsFirst
  <2>2. i \in 1..m /\ Len(groups[i]) > 1 BY <1>1, <2>1 DEF Long
  <2>3. new = SubSeq(groups, 1, i - 1) \o <<h1, h2>> \o SubSeq(groups, i + 1, m)
    BY <1>3, Zenon DEF SplitFirst
  <2> HIDE DEF long, i, new
  <2>4. /\ a \in Nat /\ b \in Nat /\ a < b /\ b <= Len(s) /\ Len(s) \in Nat
        /\ groups[i] = SubSeq(s, a + 1, b) /\ Len(groups[i]) = b - a
    <3>1. Len(s) \in Nat OBVIOUS
    <3> HIDE DEF m
    <3>. QED BY <1>0, <2>2, <3>1 DEF m
  <2> DEFINE d == b - a
  <2> HIDE DEF a, b
  <2>5. d \in Nat /\ d > 1 /\ middle = (d + 2 - 1) \div 2 BY <2>2, <2>4 DEF Ceil
  <2>6. middle \in 1..(d - 1)
    <3> HIDE DEF middle, d
    <3>. QED BY <2>5
  <2> DEFINE c == a + middle
  <2>7. /\ c \in Nat /\ a < c /\ c < b /\ c \in 0..Len(s) /\ middle \in Nat
        /\ Len(groups[i]) = b - a
    BY <2>4, <2>6
  <2>8. h1 = SubSeq(s, a + 1, c) /\ h2 = SubSeq(s, c + 1, b)
    <3> HIDE DEF middle
    <3>1. /\ 1 \in 1..(b - a) /\ middle \in 1..(b - a) /\ middle + 1 \in 1..(b - a)
          /\ b - a \in 1..(b - a) /\ a + (middle + 1) = c + 1 /\ a + (b - a) = b
      BY <2>4, <2>6
    <3>2. SubSeq(SubSeq(s, a + 1, b), 1, middle) = SubSeq(s, a + 1, a + middle)
      BY <2>4, <3>1, PartOfPart
    <3>3. SubSeq(SubSeq(s, a + 1, b), middle + 1, b - a) = SubSeq(s, a + (middle + 1), a + (b - a))
      BY <2>4, <3>1, PartOfPart
    <3>. QED BY <2>4, <3>1, <3>2, <3>3
  <2>9. h1 \in Seq(S) /\ h2 \in Seq(S)
    <3> HIDE DEF c, h1, h2
    <3>1. /\ \A k \in (a + 1)..c : s[k] \in S
          /\ \A k \in (c + 1)..b : s[k] \in S
          /\ a + 1 \in Int /\ c \in Int /\ c + 1 \in Int /\ b \in Int
      BY <2>4, <2>7, ElementOfSeq, SMTT(30)
    <3>. QED BY <2>8, <3>1, SubSeqProperties
  <2> HIDE DEF c, d, h1, h2, middle
  <2>10. /\ new \in Seq(Seq(S)) /\ Len(new) = m + 1
         /\ \A j \in 1..(m + 1) : /\ j < i => new[j] = groups[j]
                                  /\ j = i => new[j] = h1
                                  /\ j = i + 1 => new[j] = h2
                                  /\ j > i + 1 => new[j] = groups[j - 1]
    <3> DEFINE Parts == Seq(S)
    <3>1. groups \in Seq(Parts) /\ h1 \in Parts /\ h2 \in Parts BY <2>9
    <3> HIDE DEF Parts
    <3>2. /\ Spliced(groups, i, h1, h2) \in Seq(Parts)
          /\ IsSpliced(Spliced(groups, i, h1, h2), groups, i, h1, h2)
      BY <2>2, <3>1, Splice
    <3>3. new = Spliced(groups, i, h1, h2) BY <2>3 DEF Spliced
    <3>4. new \in Seq(Seq(S)) BY <3>2, <3>3 DEF Parts
    <3>5. IsSpliced(new, groups, i, h1, h2) BY <3>2, <3>3
    <3>6. Len(new) = m + 1 BY <3>5 DEF IsSpliced
    <3>7. ASSUME NEW j \in 1..(m + 1)
          PROVE  /\ j < i => new[j] = groups[j]
                 /\ j = i => new[j] = h1
                 /\ j = i + 1 => new[j] = h2
                 /\ j > i + 1 => new[j] = groups[j - 1]
      BY <3>5 DEF IsSpliced
    <3>. QED BY <3>4, <3>6, <3>7
  <2> HIDE DEF m
  <2> DEFINE e == [j \in 0..(m + 1) |-> IF j < i THEN ends[j]
                                        ELSE IF j = i THEN c ELSE ends[j - 1]]
  <2>11. \A j \in 0..(m + 1) : /\ j < i => e[j] = ends[j] /\ j \in 0..m
                               /\ j = i => e[j] = c
                               /\ j > i => e[j] = ends[j - 1] /\ j - 1 \in 0..m
    BY <1>1, <2>2
  <2>12. e \in [0..(m + 1) -> 0..Len(s)] /\ e[0] = 0 /\ e[m + 1] = Len(s)
    <3>1. ends \in [0..m -> 0..Len(s)] /\ ends[0] = 0 /\ ends[m] = Len(s) BY DEF Cuts, m
    <3>2. \A j \in 0..(m + 1) : e[j] \in 0..Len(s) BY <1>1, <2>2, <2>7, <2>11, <3>1
    <3>3. 0 \in 0..(m + 1) /\ 0 < i /\ m + 1 \in 0..(m + 1) /\ m + 1 > i /\ (m + 1) - 1 = m
      BY <1>1, <2>2
    <3>. QED BY <2>11, <3>1, <3>2, <3>3
  <2> HIDE DEF e
  <2>13. ASSUME NEW j \in 1..(m + 1)
         PROVE  /\ e[j - 1] < e[j]
                /\ new[j] = SubSeq(s, e[j - 1] + 1, e[j])
                /\ \E k \in 1..m : ends[k - 1] <= e[j - 1] /\ e[j] <= ends[k]
    <3>1. j \in 0..(m + 1) /\ j - 1 \in 0..(m + 1) /\ m \in Nat /\ i \in 1..m
      BY <1>1, <2>2
    <3>2. CASE j < i
      <4>1. j - 1 < i /\ j \in 1..m BY <3>1, <3>2
      <4>2. e[j - 1] = ends[j - 1] /\ e[j] = ends[j] /\ new[j] = groups[j]
        BY <2>10, <2>11, <3>1, <3>2, <4>1
      <4>3. /\ ends[j - 1] < ends[j] /\ groups[j] = SubSeq(s, ends[j - 1] + 1, ends[j])
            /\ ends[j - 1] \in Nat /\ ends[j] \in Nat
        BY <1>0, <4>1 DEF m
      <4>4. ends[j - 1] <= e[j - 1] /\ e[j] <= ends[j] BY <4>2, <4>3
      <4>. QED BY <4>1, <4>2, <4>3, <4>4
    <3>3. CASE j = i
      <4>1. j - 1 < i BY <3>1, <3>3
      <4>2. e[j - 1] = a /\ e[j] = c /\ new[j] = h1
        BY <2>10, <2>11, <3>1, <3>3, <4>1 DEF a
      <4>3. ends[i - 1] <= e[j - 1] /\ e[j] <= ends[i] BY <2>4, <2>7, <4>2 DEF a, b
      <4>. QED BY <2>7, <2>8, <3>1, <4>2, <4>3
    <3>4. CASE j = i + 1
      <4>1. j > i /\ j - 1 = i BY <3>1, <3>4
      <4>2. e[j - 1] = c /\ e[j] = b /\ new[j] = h2
        BY <2>10, <2>11, <3>1, <3>4, <4>1 DEF b
      <4>3. ends[i - 1] <= e[j - 1] /\ e[j] <= ends[i] BY <2>4, <2>7, <4>2 DEF a, b
      <4>. QED BY <2>7, <2>8, <3>1, <4>2, <4>3
    <3>5. CASE j > i + 1
      <4> DEFINE k == j - 1
      <4>1. k \in 1..m /\ j > i /\ k > i BY <3>1, <3>5
      <4>2. e[j - 1] = ends[k - 1] /\ e[j] = ends[k] /\ new[j] = groups[k]
        BY <2>10, <2>11, <3>1, <3>5, <4>1
      <4> HIDE DEF k
      <4>3. /\ ends[k - 1] < ends[k] /\ groups[k] = SubSeq(s, ends[k - 1] + 1, ends[k])
            /\ ends[k - 1] \in Nat /\ ends[k] \in Nat
        BY <1>0, <4>1 DEF m
      <4>4. ends[k - 1] <= e[j - 1] /\ e[j] <= ends[k] BY <4>2, <4>3
      <4>. QED BY <4>1, <4>2, <4>3, <4>4
    <3>. QED BY <3>1, <3>2, <3>3, <3>4, <3>5
  <2>14. Cuts(new, e, s) BY <2>10, <2>12, <2>13 DEF Cuts
  <2>15. Refines(e, new, ends, groups) BY <2>10, <2>13 DEF Refines, m
  <2>. QED BY <2>10, <2>14, <2>15 DEF new, m
<1> QED BY <1>2, <1>3

FinerCut(new, s, groups, ends) ==
    \E e : Cuts(new, e, s) /\ Refines(e, new, ends, groups)

LEMMA RefinesItself ==
    ASSUME NEW S, NEW s \in Seq(S), NEW groups \in Seq(Seq(S)), NEW ends,
           Cuts(groups, ends, s)
    PROVE  FinerCut(groups, s, groups, ends)
<1>1. \A j \in 1..Len(groups) : ends[j - 1] \in Nat /\ ends[j] \in Nat
  BY CutFacts
<1>2. \A j \in 1..Len(groups) : ends[j - 1] <= ends[j - 1] /\ ends[j] <= ends[j]
  BY <1>1
<1>3. Refines(ends, groups, ends, groups) BY <1>2 DEF Refines
<1> QED BY <1>3 DEF FinerCut

LEMMA SplitIsFiner ==
    ASSUME NEW S, NEW s \in Seq(S), NEW groups \in Seq(Seq(S)), NEW ends,
           Cuts(groups, ends, s), NEW room \in Int,
           NEW g \in Seq(Seq(S)), FinerCut(g, s, groups, ends)
    PROVE  SplitFirst(g, room) \in Seq(Seq(S)) /\ FinerCut(SplitFirst(g, room), s, groups, ends)
<1> DEFINE new == SplitFirst(g, room)
<1>1. PICK e : Cuts(g, e, s) /\ Refines(e, g, ends, groups) BY DEF FinerCut
<1>2. new \in Seq(Seq(S)) /\ \E f : Cuts(new, f, s) /\ Refines(f, new, e, g)
  BY <1>1, SplitCuts
<1> HIDE DEF new
<1>3. PICK f : Cuts(new, f, s) /\ Refines(f, new, e, g) BY <1>2
<1>4. ASSUME NEW j \in 1..Len(new)
      PROVE  \E k \in 1..Len(groups) : ends[k - 1] <= f[j - 1] /\ f[j] <= ends[k]
  <2>1. PICK i \in 1..Len(g) : e[i - 1] <= f[j - 1] /\ f[j] <= e[i] BY <1>3 DEF Refines
  <2>2. PICK k \in 1..Len(groups) : ends[k - 1] <= e[i - 1] /\ e[i] <= ends[k]
    BY <1>1 DEF Refines
  <2>3. f[j - 1] \in Nat /\ f[j] \in Nat BY <1>2, <1>3, CutFacts
  <2>4. e[i - 1] \in Nat /\ e[i] \in Nat BY <1>1, CutFacts
  <2>5. ends[k - 1] \in Nat /\ ends[k] \in Nat BY CutFacts
  <2> DEFINE a == ends[k - 1]
             b == ends[k]
             c == e[i - 1]
             d == e[i]
             x == f[j - 1]
             y == f[j]
  <2>6. /\ a \in Nat /\ b \in Nat /\ c \in Nat /\ d \in Nat /\ x \in Nat /\ y \in Nat
        /\ a <= c /\ c <= x /\ y <= d /\ d <= b
    BY <2>1, <2>2, <2>3, <2>4, <2>5, Zenon
  <2> HIDE DEF a, b, c, d, x, y
  <2>7. a <= x /\ y <= b BY <2>6
  <2>. QED BY <2>7 DEF a, b, x, y
<1>5. FinerCut(new, s, groups, ends) BY <1>3, <1>4 DEF FinerCut, Refines
<1> QED BY <1>2, <1>5 DEF new

(* The loop of fitPromptPartitions. *)
Splits(queue, groups, room, n) ==
    /\ DOMAIN queue = 0..n /\ queue[0] = groups
    /\ \A i \in 1..n : queue[i] = SplitFirst(queue[i - 1], room)

LEMMA FitLoop ==
    ASSUME NEW S, NEW s \in Seq(S), NEW groups \in Seq(Seq(S)), NEW ends,
           Cuts(groups, ends, s), NEW room \in Int, NEW n \in Nat
    PROVE  \E queue : /\ Splits(queue, groups, room, n)
                      /\ fitPromptPartitions(groups, room, n) = queue[n]
<1> DEFINE A == {g \in Seq(Seq(S)) : FinerCut(g, s, groups, ends)}
           step == [i \in Nat |-> [g \in A |-> SplitFirst(g, room)]]
           Loop(f) == f = [i \in 0..n |-> IF i = 0 THEN groups ELSE SplitFirst(f[i - 1], room)]
<1>1. groups \in A BY RefinesItself
<1>2. \A g \in A : SplitFirst(g, room) \in A
  <2> SUFFICES ASSUME NEW g \in A PROVE SplitFirst(g, room) \in A OBVIOUS
  <2>1. g \in Seq(Seq(S)) /\ FinerCut(g, s, groups, ends) OBVIOUS
  <2>2. SplitFirst(g, room) \in Seq(Seq(S)) /\ FinerCut(SplitFirst(g, room), s, groups, ends)
    BY <2>1, SplitIsFiner
  <2>. QED BY <2>2
<1> HIDE DEF A
<1>3. step \in [Nat -> [A -> A]] BY <1>2
<1> HIDE DEF step
<1>4. PICK f \in [0..n -> A] : Runs(f, groups, step, n) BY <1>1, <1>3, Iteration
<1>5. \A i \in 1..n : i \in 0..n /\ i # 0 /\ i - 1 \in 0..n /\ i \in Nat
  OBVIOUS
<1>6. \A i \in 1..n : step[i][f[i - 1]] = SplitFirst(f[i - 1], room)
  <2> SUFFICES ASSUME NEW i \in 1..n PROVE step[i][f[i - 1]] = SplitFirst(f[i - 1], room)
    OBVIOUS
  <2>1. i \in Nat /\ f[i - 1] \in A BY <1>5
  <2>. QED BY <2>1 DEF step
<1>7. Loop(f)
  <2>1. \A i \in 0..n : f[i] = IF i = 0 THEN groups ELSE SplitFirst(f[i - 1], room)
    BY <1>4, <1>6 DEF Runs
  <2>. QED BY <2>1
<1> DEFINE queue == CHOOSE g : Loop(g)
<1>8. Loop(queue) BY <1>7
<1>9. fitPromptPartitions(groups, room, n) = queue[n] BY DEF fitPromptPartitions
<1> HIDE DEF queue
<1>10. queue[0] = groups /\ \A i \in 1..n : queue[i] = SplitFirst(queue[i - 1], room)
  <2>1. 0 \in 0..n OBVIOUS
  <2>. QED BY <1>5, <1>8, <2>1
<1>11. DOMAIN queue = 0..n BY <1>8
<1> QED BY <1>9, <1>10, <1>11 DEF Splits

(* The packets that fit are the same sequence, cut finer. *)
LEMMA FitCuts ==
    ASSUME NEW S, NEW s \in Seq(S), NEW groups \in Seq(Seq(S)), NEW ends,
           Cuts(groups, ends, s), NEW room \in Int, NEW n \in Nat
    PROVE  /\ fitPromptPartitions(groups, room, n) \in Seq(Seq(S))
           /\ FinerCut(fitPromptPartitions(groups, room, n), s, groups, ends)
<1>1. PICK queue : /\ Splits(queue, groups, room, n)
                   /\ fitPromptPartitions(groups, room, n) = queue[n]
  BY FitLoop
<1> DEFINE T == {i \in 0..n : queue[i] \in Seq(Seq(S)) /\ FinerCut(queue[i], s, groups, ends)}
<1>2. 0 \in T BY <1>1, RefinesItself DEF Splits
<1>3. ASSUME NEW i \in 0..(n - 1), i \in T PROVE i + 1 \in T
  <2>1. i + 1 \in 1..n /\ i + 1 \in 0..n /\ (i + 1) - 1 = i OBVIOUS
  <2>2. queue[i + 1] = SplitFirst(queue[i], room) BY <1>1, <2>1 DEF Splits
  <2>3. queue[i] \in Seq(Seq(S)) /\ FinerCut(queue[i], s, groups, ends) BY <1>3
  <2>4. /\ SplitFirst(queue[i], room) \in Seq(Seq(S))
        /\ FinerCut(SplitFirst(queue[i], room), s, groups, ends)
    BY <2>3, SplitIsFiner
  <2>. QED BY <2>1, <2>2, <2>4
<1>4. 0..n \subseteq T
  <2> HIDE DEF T
  <2>. QED BY <1>2, <1>3, InductionTo
<1>5. n \in T BY <1>4
<1> QED BY <1>1, <1>5

(* A cut has no more parts than there are elements. *)
LEMMA CutIsShort ==
    ASSUME NEW S, NEW s \in Seq(S), NEW groups \in Seq(Seq(S)), NEW ends,
           Cuts(groups, ends, s)
    PROVE  Len(groups) \in Nat /\ Len(s) \in Nat /\ Len(groups) <= Len(s)
<1> DEFINE m == Len(groups)
           T == {d \in 0..m : ends[d] \in Nat /\ d <= ends[d]}
<1>1. m \in Nat /\ Len(s) \in Nat OBVIOUS
<1>2. ends[0] = 0 /\ ends[m] = Len(s) BY DEF Cuts
<1>3. 0 \in T BY <1>1, <1>2
<1>4. ASSUME NEW d \in 0..(m - 1), d \in T PROVE d + 1 \in T
  <2>1. d + 1 \in 1..m /\ (d + 1) - 1 = d BY <1>1
  <2>2. ends[d + 1] \in Nat /\ ends[d] < ends[d + 1] BY <2>1, CutFacts
  <2>3. ends[d] \in Nat /\ d <= ends[d] BY <1>4
  <2>. QED BY <1>1, <2>1, <2>2, <2>3
<1>5. 0..m \subseteq T
  <2> HIDE DEF T, m
  <2>. QED BY <1>1, <1>3, <1>4, InductionTo
<1>6. m \in T BY <1>1, <1>5
<1>7. m <= ends[m] BY <1>6
<1> QED BY <1>1, <1>2, <1>7

(* What fits is left alone, and what does not becomes one group more: after *)
(* as many steps as there are targets nothing is left to split, so that the *)
(* steps the model takes are those after which the code's queue is empty    *)
(* (fitPromptPartitions).                                                   *)
THEOREM SplittingEnds ==
    ASSUME NEW S, NEW s \in Seq(S), NEW groups \in Seq(Seq(S)), NEW ends,
           Cuts(groups, ends, s), NEW room \in Int, NEW n \in Nat, Len(s) <= n
    PROVE  Long(fitPromptPartitions(groups, room, n), room) = {}
<1>1. PICK queue : /\ Splits(queue, groups, room, n)
                   /\ fitPromptPartitions(groups, room, n) = queue[n]
  BY FitLoop
<1> DEFINE Known(i) == queue[i] \in Seq(Seq(S)) /\ FinerCut(queue[i], s, groups, ends)
           T == {i \in 0..n : /\ Known(i)
                              /\ Long(queue[i], room) = {} \/ Len(queue[i]) > i}
<1>2. 0 \in T
  <2>1. queue[0] = groups BY <1>1 DEF Splits
  <2>2. Known(0) BY <2>1, RefinesItself
  <2>3. Long(groups, room) = {} \/ Len(groups) > 0
    <3>1. Len(groups) \in Nat /\ DOMAIN groups = 1..Len(groups) OBVIOUS
    <3>. QED BY <3>1 DEF Long
  <2> HIDE DEF Known
  <2>. QED BY <2>1, <2>2, <2>3
<1>3. ASSUME NEW i \in 0..(n - 1), i \in T PROVE i + 1 \in T
  <2> DEFINE g == queue[i]
  <2>1. i + 1 \in 1..n /\ i + 1 \in 0..n /\ (i + 1) - 1 = i /\ i \in Nat OBVIOUS
  <2>2. queue[i + 1] = SplitFirst(g, room) BY <1>1, <2>1 DEF Splits
  <2>3. /\ g \in Seq(Seq(S)) /\ FinerCut(g, s, groups, ends)
        /\ Long(g, room) = {} \/ Len(g) > i
    BY <1>3
  <2> HIDE DEF g
  <2>4. /\ SplitFirst(g, room) \in Seq(Seq(S))
        /\ FinerCut(SplitFirst(g, room), s, groups, ends)
    BY <2>3, SplitIsFiner
  <2>5. Known(i + 1) BY <2>2, <2>4
  <2>6. CASE Long(g, room) = {}
    <3>1. SplitFirst(g, room) = g BY <2>6, Zenon DEF SplitFirst
    <3> HIDE DEF Known
    <3>. QED BY <2>1, <2>2, <2>5, <2>6, <3>1
  <2>7. CASE Long(g, room) # {}
    <3>1. PICK e : Cuts(g, e, s) BY <2>3 DEF FinerCut
    <3>2. Len(SplitFirst(g, room)) = Len(g) + 1 BY <2>3, <2>7, <3>1, SplitCuts
    <3>3. Len(g) \in Nat /\ Len(g) > i BY <2>3, <2>7
    <3>4. Len(queue[i + 1]) > i + 1 BY <2>1, <2>2, <3>2, <3>3
    <3> HIDE DEF Known
    <3>. QED BY <2>1, <2>5, <3>4
  <2>. QED BY <2>6, <2>7
<1>4. n \in T
  <2>1. 0..n \subseteq T
    <3> HIDE DEF T
    <3>. QED BY <1>2, <1>3, InductionTo
  <2>2. n \in 0..n OBVIOUS
  <2>. QED BY <2>1, <2>2
<1>5. ~ (Len(queue[n]) > n)
  <2>1. queue[n] \in Seq(Seq(S)) /\ FinerCut(queue[n], s, groups, ends) BY <1>4
  <2>2. PICK e : Cuts(queue[n], e, s) BY <2>1 DEF FinerCut
  <2>3. Len(queue[n]) \in Nat /\ Len(s) \in Nat /\ Len(queue[n]) <= Len(s)
    BY <2>1, <2>2, CutIsShort
  <2>. QED BY <2>3
<1> QED BY <1>1, <1>4, <1>5

(* Groups that fit are left alone. *)
LEMMA FitShort ==
    ASSUME NEW S, NEW s \in Seq(S), NEW groups \in Seq(Seq(S)), NEW ends,
           Cuts(groups, ends, s), NEW room \in Int, NEW n \in Nat,
           \A j \in 1..Len(groups) : Len(groups[j]) <= room
    PROVE  fitPromptPartitions(groups, room, n) = groups
<1>1. PICK queue : /\ Splits(queue, groups, room, n)
                   /\ fitPromptPartitions(groups, room, n) = queue[n]
  BY FitLoop
<1>2. SplitFirst(groups, room) = groups
  <2>1. \A j \in 1..Len(groups) : Len(groups[j]) \in Nat
    BY ElementOfSeq
  <2>2. DOMAIN groups = 1..Len(groups) OBVIOUS
  <2>3. Long(groups, room) = {} BY <2>1, <2>2 DEF Long
  <2>. QED BY <2>3, Zenon DEF SplitFirst
<1> DEFINE T == {i \in 0..n : queue[i] = groups}
<1>3. 0 \in T BY <1>1 DEF Splits
<1>4. ASSUME NEW i \in 0..(n - 1), i \in T PROVE i + 1 \in T
  <2>1. i + 1 \in 1..n /\ i + 1 \in 0..n /\ (i + 1) - 1 = i OBVIOUS
  <2>2. queue[i + 1] = SplitFirst(queue[i], room) BY <1>1, <2>1 DEF Splits
  <2>. QED BY <1>2, <1>4, <2>1, <2>2
<1>5. 0..n \subseteq T
  <2> HIDE DEF T
  <2>. QED BY <1>3, <1>4, InductionTo
<1>6. n \in T BY <1>5
<1> QED BY <1>1, <1>6

-----------------------------------------------------------------------------
(***************************************************************************)
(* The plan.                                                               *)
(***************************************************************************)
LEMMA PathsOfTargets ==
    ASSUME NEW targets \in Seq(TargetRecords)
    PROVE  /\ PathsOf(targets) \in Seq(Paths) /\ Len(PathsOf(targets)) = Len(targets)
           /\ \A i \in 1..Len(targets) : PathsOf(targets)[i] = targets[i].path
<1>1. DOMAIN targets = 1..Len(targets) /\ Len(targets) \in Nat OBVIOUS
<1>2. \A i \in 1..Len(targets) : targets[i].path \in Paths
  <2>1. \A i \in 1..Len(targets) : targets[i] \in TargetRecords BY ElementOfSeq
  <2>. QED BY <2>1 DEF TargetRecords
<1>3. PathsOf(targets) \in [1..Len(targets) -> Paths]
  BY <1>1, <1>2 DEF PathsOf
<1>4. PathsOf(targets) \in Seq(Paths) /\ Len(PathsOf(targets)) = Len(targets)
  BY <1>1, <1>3, SeqDef, LenProperties
<1> QED BY <1>1, <1>4 DEF PathsOf

PathGroups(groups) == [i \in DOMAIN groups |-> PathsOf(groups[i])]

(* Cutting and taking the paths commute. *)
LEMMA PathsOfCut ==
    ASSUME NEW order \in Seq(TargetRecords), NEW groups \in Seq(Seq(TargetRecords)),
           NEW ends, Cuts(groups, ends, order)
    PROVE  /\ PathGroups(groups) \in Seq(Seq(Paths))
           /\ Len(PathGroups(groups)) = Len(groups)
           /\ Cuts(PathGroups(groups), ends, PathsOf(order))
           /\ \A j \in 1..Len(groups) : Len(PathGroups(groups)[j]) = Len(groups[j])
<1> DEFINE m == Len(groups)
           new == PathGroups(groups)
           paths == PathsOf(order)
<1>0. \A j \in 1..m :
         /\ ends[j - 1] \in 0..Len(order) /\ ends[j] \in 0..Len(order)
         /\ ends[j - 1] < ends[j] /\ Len(groups[j]) = ends[j] - ends[j - 1]
         /\ \A k \in 1..(ends[j] - ends[j - 1]) : groups[j][k] = order[ends[j - 1] + k]
  BY CutFacts
<1>1. /\ m \in Nat /\ DOMAIN groups = 1..m
      /\ \A j \in 1..m : groups[j] \in Seq(TargetRecords)
  BY ElementOfSeq
<1>2. \A j \in 1..m : new[j] = PathsOf(groups[j]) /\ new[j] \in Seq(Paths)
                      /\ Len(new[j]) = Len(groups[j])
  BY <1>1, PathsOfTargets DEF PathGroups
<1>3. new \in Seq(Seq(Paths)) /\ Len(new) = m
  <2>1. new \in [1..m -> Seq(Paths)] BY <1>1, <1>2 DEF PathGroups
  <2> HIDE DEF new, m
  <2>2. new \in Seq(Seq(Paths)) BY <1>1, <2>1, SeqDef
  <2>. QED BY <1>1, <2>1, <2>2, LenProperties
<1>4. paths \in Seq(Paths) /\ Len(paths) = Len(order)
      /\ \A i \in 1..Len(order) : paths[i] = order[i].path
  BY PathsOfTargets
<1>5. ASSUME NEW j \in 1..m
      PROVE  ends[j - 1] < ends[j] /\ new[j] = SubSeq(paths, ends[j - 1] + 1, ends[j])
  <2> DEFINE a == ends[j - 1]
             b == ends[j]
  <2>1. /\ a \in Nat /\ b \in Nat /\ a < b /\ b <= Len(order) /\ Len(order) \in Nat
        /\ Len(groups[j]) = b - a
        /\ \A k \in 1..(b - a) : groups[j][k] = order[a + k]
    <3>1. Len(order) \in Nat OBVIOUS
    <3>. QED BY <1>0, <3>1
  <2> HIDE DEF a, b, new, paths
  <2>2. /\ \A i \in (a + 1)..b : paths[i] \in Paths
        /\ a + 1 \in Int /\ b \in Int /\ b - (a + 1) + 1 = b - a /\ a + 1 <= b
    BY <1>4, <2>1, ElementOfSeq
  <2>3. /\ SubSeq(paths, a + 1, b) \in Seq(Paths)
        /\ Len(SubSeq(paths, a + 1, b)) = IF a + 1 <= b THEN b - (a + 1) + 1 ELSE 0
        /\ \A k \in 1..(b - (a + 1) + 1) : SubSeq(paths, a + 1, b)[k] = paths[(a + 1) + k - 1]
    BY <2>2, SubSeqProperties, SMTT(30)
  <2>4. /\ SubSeq(paths, a + 1, b) \in Seq(Paths) /\ Len(SubSeq(paths, a + 1, b)) = b - a
        /\ \A k \in 1..(b - a) : SubSeq(paths, a + 1, b)[k] = paths[(a + 1) + k - 1]
    BY <2>2, <2>3
  <2>5. ASSUME NEW k \in 1..(b - a) PROVE new[j][k] = SubSeq(paths, a + 1, b)[k]
    <3>1. a + k \in 1..Len(order) /\ (a + 1) + k - 1 = a + k BY <2>1
    <3>2. new[j][k] = groups[j][k].path BY <1>1, <1>2, <2>1, PathsOfTargets, ZenonT(60)
    <3>. QED BY <1>4, <2>1, <2>4, <3>1, <3>2
  <2>6. new[j] = SubSeq(paths, a + 1, b)
    BY <1>2, <2>1, <2>4, <2>5, SeqEqual, SMTT(30)
  <2>. QED BY <2>1, <2>6 DEF a, b
<1>6. Cuts(new, ends, paths)
  BY <1>3, <1>4, <1>5 DEF Cuts
<1> QED BY <1>2, <1>3, <1>6

(* What a plan that has to be partitioned is made of. *)
Partitions(k, targets, groups, sum, greedy, coarse, ends) ==
    LET order == stableTargetOrder(targets) IN
    /\ SumsOf(sum, order)
    /\ greedy \in Seq(Seq(TargetRecords)) /\ Cuts(greedy, coarse, order)
    /\ \A j \in 1..Len(greedy) :
          /\ Within(sum, k.role, coarse[j - 1], coarse[j])
          /\ j < Len(greedy) => ~ Within(sum, k.role, coarse[j - 1], coarse[j] + 1)
    /\ groups \in Seq(Seq(Paths)) /\ Cuts(groups, ends, PathsOf(order))
    /\ Refines(ends, groups, coarse, greedy)
    /\ \A j \in 1..Len(groups) : /\ Len(groups[j]) <= RenderedRoom(k)
                                 /\ bound \/ Len(groups[j]) <= OriginalRoom(k)
    /\ Len(order) <= RenderedRoom(k) /\ Len(order) <= OriginalRoom(k)
          => Len(groups) = Len(greedy)

LEMMA EmptyFit ==
    ASSUME NEW groups, NEW room
    PROVE  fitPromptPartitions(groups, room, 0) = groups
<1> DEFINE Loop(f) == f = [i \in 0..0 |-> IF i = 0 THEN groups ELSE SplitFirst(f[i - 1], room)]
           f0 == [i \in 0..0 |-> groups]
           queue == CHOOSE f : Loop(f)
<1>1. Loop(f0)
  <2>1. \A i \in 0..0 : f0[i] = IF i = 0 THEN groups ELSE SplitFirst(f0[i - 1], room)
    OBVIOUS
  <2> HIDE DEF f0
  <2>2. f0 = [i \in 0..0 |-> f0[i]] BY DEF f0
  <2>. QED BY <2>1, <2>2
<1>2. Loop(queue) BY <1>1
<1>3. fitPromptPartitions(groups, room, 0) = queue[0] BY DEF fitPromptPartitions
<1> HIDE DEF queue
<1>4. queue[0] = groups BY <1>2
<1> QED BY <1>3, <1>4

LEMMA RoomsTyped ==
    ASSUME NEW k \in PacketRecords
    PROVE  RenderedRoom(k) \in Int /\ OriginalRoom(k) \in Int /\ k.role \in Roles
<1>1. k.role \in Roles /\ k.fixed \in Int /\ k.context \in Int BY DEF PacketRecords
<1>2. PromptLimit[k.role] \in Int BY <1>1, PlannerAssumption
<1> QED BY <1>1, <1>2 DEF RenderedRoom, OriginalRoom

LEMMA StatusOfPartitioned ==
    ASSUME NEW groups
    PROVE  /\ Partitioned(groups).status =
                 IF Len(groups) <= 1 THEN "READY" ELSE "PARTITION_REQUIRED"
           /\ Partitioned(groups).groups = PathGroups(groups)
BY DEF Partitioned, PathGroups

(* Without targets there is one group, which is empty. *)
LEMMA NoTargetsPlan ==
    ASSUME NEW k, NEW evidence
    PROVE  planChildWork(k, <<>>, evidence).status # "PARTITION_REQUIRED"
<1> DEFINE targets == <<>>
           groups == makeTargetPartitions(targets, k.role)
           fitted == fitPromptPartitions(groups, RenderedRoom(k), Len(targets))
<1>1. targets \in Requests /\ Len(targets) = 0
  <2>1. <<>> \in Seq(TargetRecords) BY EmptySeq
  <2>2. Distinct(<<>>) BY DEF Distinct
  <2>. QED BY <2>1, <2>2 DEF Requests
<1> HIDE DEF targets
<1>2. Len(stableTargetOrder(targets)) = 0 BY <1>1, StableOrder
<1>3. PICK after : /\ Placed(after, stableTargetOrder(targets), k.role)
                   /\ groups = Append(after[0].groups, after[0].current)
  BY <1>1, <1>2, Placements
<1>4. after[0].groups = <<>> /\ after[0].current = <<>>
  BY <1>3 DEF Placed, Nothing
<1>5. Len(groups) = 1
  <2>1. groups = Append(<<>>, <<>>) BY <1>3, <1>4
  <2>. QED BY <2>1
<1> HIDE DEF groups
<1>6. fitted = groups BY <1>1, EmptyFit
<1> HIDE DEF fitted
<1>7. Partitioned(fitted).status = "READY"
  <2>1. Len(fitted) <= 1
    <3>1. Len(fitted) = 1 BY <1>5, <1>6, Zenon
    <3>. QED BY <3>1
  <2>2. Partitioned(fitted).status =
           IF Len(fitted) <= 1 THEN "READY" ELSE "PARTITION_REQUIRED"
    BY StatusOfPartitioned
  <2>. QED BY <2>1, <2>2, Zenon
<1>8. planChildWork(k, targets, evidence).status \in {"ELIDED", "UNREPRESENTABLE", "READY"}
  <2>1. \/ planChildWork(k, targets, evidence).status = "ELIDED"
        \/ planChildWork(k, targets, evidence) = Unrepresentable
        \/ planChildWork(k, targets, evidence) = Partitioned(fitted)
    BY Zenon DEF planChildWork, fitted, groups
  <2>. QED BY <1>7, <2>1 DEF Unrepresentable
<1> QED BY <1>8 DEF targets

(* No group is longer than what it is cut from, and none of a finer cut is *)
(* longer than every group of the coarser one.                             *)
LEMMA GroupsAreShort ==
    ASSUME NEW S, NEW s \in Seq(S), NEW groups \in Seq(Seq(S)), NEW ends,
           Cuts(groups, ends, s)
    PROVE  \A j \in 1..Len(groups) : Len(groups[j]) <= Len(s)
<1> SUFFICES ASSUME NEW j \in 1..Len(groups) PROVE Len(groups[j]) <= Len(s)
  OBVIOUS
<1> DEFINE a == ends[j - 1]
           b == ends[j]
           n == Len(s)
<1>1. n \in Nat OBVIOUS
<1>2. a \in Nat /\ b \in 0..n /\ Len(groups[j]) = b - a BY CutFacts
<1> HIDE DEF a, b, n
<1>3. b - a <= n BY <1>1, <1>2
<1> QED BY <1>2, <1>3 DEF n

LEMMA RefinesFurther ==
    ASSUME NEW S, NEW s \in Seq(S), NEW new \in Seq(Seq(S)), NEW f, Cuts(new, f, s),
           NEW g \in Seq(Seq(S)), NEW e, Cuts(g, e, s), Refines(f, new, e, g),
           NEW R, NEW r \in Seq(R), NEW groups \in Seq(Seq(R)), NEW ends,
           Cuts(groups, ends, r), Refines(e, g, ends, groups)
    PROVE  Refines(f, new, ends, groups)
<1>1. ASSUME NEW j \in 1..Len(new)
      PROVE  \E k \in 1..Len(groups) : ends[k - 1] <= f[j - 1] /\ f[j] <= ends[k]
  <2>1. PICK i \in 1..Len(g) : e[i - 1] <= f[j - 1] /\ f[j] <= e[i] BY DEF Refines
  <2>2. PICK k \in 1..Len(groups) : ends[k - 1] <= e[i - 1] /\ e[i] <= ends[k]
    BY DEF Refines
  <2>3. f[j - 1] \in Nat /\ f[j] \in Nat BY CutFacts
  <2>4. e[i - 1] \in Nat /\ e[i] \in Nat BY CutFacts
  <2>5. ends[k - 1] \in Nat /\ ends[k] \in Nat BY CutFacts
  <2> DEFINE a == ends[k - 1]
             b == ends[k]
             c == e[i - 1]
             d == e[i]
             x == f[j - 1]
             y == f[j]
  <2>6. /\ a \in Nat /\ b \in Nat /\ c \in Nat /\ d \in Nat /\ x \in Nat /\ y \in Nat
        /\ a <= c /\ c <= x /\ y <= d /\ d <= b
    BY <2>1, <2>2, <2>3, <2>4, <2>5, Zenon
  <2> HIDE DEF a, b, c, d, x, y
  <2>7. a <= x /\ y <= b BY <2>6
  <2>. QED BY <2>7 DEF a, b, x, y
<1> QED BY <1>1 DEF Refines

LEMMA FinerIsShorter ==
    ASSUME NEW S, NEW s \in Seq(S), NEW new \in Seq(Seq(S)), NEW e, Cuts(new, e, s),
           NEW groups \in Seq(Seq(S)), NEW ends, Cuts(groups, ends, s),
           Refines(e, new, ends, groups), NEW room \in Int,
           \A i \in 1..Len(groups) : Len(groups[i]) <= room
    PROVE  \A j \in 1..Len(new) : Len(new[j]) <= room
<1> SUFFICES ASSUME NEW j \in 1..Len(new) PROVE Len(new[j]) <= room
  OBVIOUS
<1>1. PICK i \in 1..Len(groups) : ends[i - 1] <= e[j - 1] /\ e[j] <= ends[i] BY DEF Refines
<1> DEFINE a == ends[i - 1]
           b == ends[i]
           c == e[j - 1]
           d == e[j]
<1>2. a \in Nat /\ b \in Nat /\ Len(groups[i]) = b - a BY CutFacts
<1>3. c \in Nat /\ d \in Nat /\ Len(new[j]) = d - c BY CutFacts
<1>4. a <= c /\ d <= b /\ b - a <= room
  <2>1. Len(groups[i]) <= room OBVIOUS
  <2>. QED BY <1>1, <1>2, <2>1, Zenon
<1> HIDE DEF a, b, c, d
<1>5. d - c <= room BY <1>2, <1>3, <1>4
<1> QED BY <1>3, <1>5

(* A plan that has to be partitioned: what was checked, and what it holds. *)
LEMMA PartitionPlan ==
    ASSUME NEW k \in PacketRecords, NEW targets \in Requests, Len(k.targets) = Len(targets),
           NEW evidence,
           deterministicTaskPlan(k, targets, evidence).status = "PARTITION_REQUIRED"
    PROVE  /\ k.targets # <<>> /\ targets # <<>> /\ k.lossless /\ k.questions <= 3
           /\ ~ evidence /\ (bound \/ k.finite)
           /\ Len(deterministicTaskPlan(k, targets, evidence).groups) > 1
           /\ \E sum, greedy, coarse, ends :
                 Partitions(k, targets, deterministicTaskPlan(k, targets, evidence).groups,
                            sum, greedy, coarse, ends)
<1> DEFINE plan == planChildWork(k, targets, evidence)
           full == deterministicTaskPlan(k, targets, evidence)
           greedy == makeTargetPartitions(targets, k.role)
           fitted == fitPromptPartitions(greedy, RenderedRoom(k), Len(targets))
           split == fitPromptPartitions(plan.groups, OriginalRoom(k), Len(k.targets))
           order == stableTargetOrder(targets)
           n == Len(targets)
<1> HIDE DEF plan, full, greedy, fitted, split, order, n
<1>1. /\ k.targets \in Seq(Paths) /\ targets \in Seq(TargetRecords) /\ k.role \in Roles
      /\ RenderedRoom(k) \in Int /\ OriginalRoom(k) \in Int
      /\ n \in Nat /\ n = Len(targets) /\ n = Len(k.targets)
      /\ DOMAIN targets = 1..n
      /\ order \in Seq(TargetRecords) /\ Len(order) = n
  BY RoomsTyped, StableOrder DEF Requests, PacketRecords, n, order
<1>2. full = preservePlannerPartitionContext(k, plan) /\ (bound \/ k.finite)
  <2>1. Unrepresentable.status # "PARTITION_REQUIRED" BY DEF Unrepresentable
  <2>2. ~ (~ bound /\ ~ k.finite)
    BY <2>1, Zenon DEF deterministicTaskPlan
  <2>. QED BY <2>2, Zenon DEF deterministicTaskPlan, full, plan
<1>3. full.status = "PARTITION_REQUIRED" BY DEF full
<1>4. k.targets # <<>> /\ targets # <<>>
  <2>1. CASE k.targets = <<>>
    <3>1. full = plan BY <1>2, <2>1, Zenon DEF preservePlannerPartitionContext
    <3>2. n = 0 BY <1>1, <2>1
    <3>3. targets = <<>> BY <1>1, <3>2, EmptySeq
    <3>. QED BY <1>3, <3>1, <3>3, NoTargetsPlan DEF plan
  <2>2. CASE k.targets # <<>>
    <3>1. n # 0 BY <1>1, <2>2, EmptySeq
    <3>. QED BY <1>1, <2>2, <3>1, EmptySeq
  <2>. QED BY <2>1, <2>2
<1>5. /\ plan.status \in {"READY", "PARTITION_REQUIRED"}
      /\ IF bound
         THEN full = plan /\ (plan.status = "READY" \/ k.lossless)
         ELSE /\ k.lossless /\ Fits(split, OriginalRoom(k))
              /\ full = [status |-> IF Len(split) <= 1 THEN "READY" ELSE "PARTITION_REQUIRED",
                         groups |-> split]
  <2>1. Unrepresentable.status # "PARTITION_REQUIRED" BY DEF Unrepresentable
  <2>2. plan.status \in {"READY", "PARTITION_REQUIRED"}
    <3>1. ASSUME plan.status \notin {"READY", "PARTITION_REQUIRED"} PROVE FALSE
      <4>1. full = plan BY <1>2, <3>1, Zenon DEF preservePlannerPartitionContext
      <4>. QED BY <1>3, <3>1, <4>1
    <3>. QED BY <3>1
  <2>3. full = IF bound
               THEN IF plan.status = "READY" \/ k.lossless THEN plan ELSE Unrepresentable
               ELSE IF ~ k.lossless \/ ~ Fits(split, OriginalRoom(k)) THEN Unrepresentable
               ELSE [status |-> IF Len(split) <= 1 THEN "READY" ELSE "PARTITION_REQUIRED",
                     groups |-> split]
    BY <1>2, <1>4, <2>2, Zenon DEF preservePlannerPartitionContext, split
  <2>. QED BY <1>3, <2>1, <2>2, <2>3, Zenon
<1>6. /\ plan = Partitioned(fitted) /\ ~ evidence /\ k.questions <= 3
      /\ \A i \in DOMAIN targets : ~ (targetCost(targets[i]) > roleComplexityLimit(k.role))
      /\ Fits(fitted, RenderedRoom(k))
  <2>1. /\ Unrepresentable.status \notin {"READY", "PARTITION_REQUIRED"}
        /\ [status |-> "ELIDED", reason |-> "central-owned-semantic-review"].status = "ELIDED"
        /\ [status |-> "ELIDED", reason |-> "trusted-actions-receipt-reused"].status = "ELIDED"
    BY DEF Unrepresentable
  <2>2. ~ (k.role = "fresh-review" /\ central)
    <3>1. ASSUME k.role = "fresh-review" /\ central PROVE FALSE
      <4>1. plan = [status |-> "ELIDED", reason |-> "central-owned-semantic-review"]
        BY <3>1, Zenon DEF planChildWork, plan
      <4>. QED BY <1>5, <2>1, <4>1
    <3>. QED BY <3>1
  <2>3. ~ evidence
    <3>1. ASSUME evidence PROVE FALSE
      <4>1. plan = [status |-> "ELIDED", reason |-> "trusted-actions-receipt-reused"]
        BY <2>2, <3>1, Zenon DEF planChildWork, plan
      <4>. QED BY <1>5, <2>1, <4>1
    <3>. QED BY <3>1
  <2>4. plan = IF \/ k.questions > 3
                  \/ \E i \in DOMAIN targets :
                        targetCost(targets[i]) > roleComplexityLimit(k.role)
                  \/ ~ Fits(fitted, RenderedRoom(k))
               THEN Unrepresentable
               ELSE Partitioned(fitted)
    BY <2>2, <2>3, Zenon DEF planChildWork, plan, fitted, greedy
  <2>5. plan # Unrepresentable
    BY <1>5, <2>1, Zenon
  <2>6. ~ (k.questions > 3) => k.questions <= 3 BY DEF PacketRecords
  <2>. QED BY <2>3, <2>4, <2>5, <2>6, Zenon
<1>7. k.lossless
  <2>1. CASE bound
    <3>1. full = plan /\ (plan.status = "READY" \/ k.lossless) BY <1>5, <2>1, Zenon
    <3>. QED BY <1>3, <3>1
  <2>2. CASE ~ bound BY <1>5, <2>2, Zenon
  <2>. QED BY <2>1, <2>2
<1>8. \A i \in DOMAIN targets : targetCost(targets[i]) <= roleComplexityLimit(k.role)
  <2> SUFFICES ASSUME NEW i \in 1..n
               PROVE  targetCost(targets[i]) <= roleComplexityLimit(k.role)
    BY <1>1
  <2>1. targetCost(targets[i]) \in Nat BY <1>1, ElementOfSeq, CostTyped
  <2>2. roleComplexityLimit(k.role) \in Nat BY <1>1, LimitsTyped
  <2>3. ~ (targetCost(targets[i]) > roleComplexityLimit(k.role)) BY <1>1, <1>6
  <2>. QED BY <2>1, <2>2, <2>3
<1>9. PICK sum : SumsOf(sum, order) BY <1>1, CostIsASum
<1>10. PICK coarse :
          /\ greedy \in Seq(Seq(TargetRecords)) /\ Cuts(greedy, coarse, order)
          /\ \A j \in 1..Len(greedy) :
                /\ Within(sum, k.role, coarse[j - 1], coarse[j])
                /\ j < Len(greedy) => ~ Within(sum, k.role, coarse[j - 1], coarse[j] + 1)
  BY <1>1, <1>4, <1>8, <1>9, GreedyGroups DEF order, greedy
<1>11. PICK e : /\ fitted \in Seq(Seq(TargetRecords)) /\ Cuts(fitted, e, order)
                /\ Refines(e, fitted, coarse, greedy)
  <2>1. fitted \in Seq(Seq(TargetRecords)) /\ FinerCut(fitted, order, greedy, coarse)
    BY <1>1, <1>10, FitCuts DEF fitted, n
  <2>. QED BY <2>1 DEF FinerCut
<1>12. plan.groups = PathGroups(fitted) BY <1>6, StatusOfPartitioned
<1>13. /\ plan.groups \in Seq(Seq(Paths)) /\ Len(plan.groups) = Len(fitted)
       /\ Cuts(plan.groups, e, PathsOf(order))
       /\ \A j \in 1..Len(fitted) : Len(plan.groups[j]) = Len(fitted[j])
  BY <1>1, <1>11, <1>12, PathsOfCut
<1>14. \A j \in 1..Len(fitted) : Len(fitted[j]) <= RenderedRoom(k)
  <2>1. DOMAIN fitted = 1..Len(fitted) BY <1>11
  <2>. QED BY <1>6, <2>1 DEF Fits
<1>15. PathsOf(order) \in Seq(Paths) /\ Len(PathsOf(order)) = n
  BY <1>1, PathsOfTargets
<1>16. \A j \in 1..Len(fitted) : Len(plan.groups[j]) <= RenderedRoom(k)
  BY <1>13, <1>14
<1>17. Refines(e, plan.groups, coarse, greedy)
  BY <1>11, <1>13, Zenon DEF Refines
<1>18. n <= RenderedRoom(k) => Len(fitted) = Len(greedy)
  <2> SUFFICES ASSUME n <= RenderedRoom(k) PROVE Len(fitted) = Len(greedy)
    OBVIOUS
  <2>1. \A j \in 1..Len(greedy) : Len(greedy[j]) <= RenderedRoom(k)
    <3>1. \A j \in 1..Len(greedy) : Len(greedy[j]) <= n /\ Len(greedy[j]) \in Nat
      <4>1. \A j \in 1..Len(greedy) : Len(greedy[j]) <= Len(order)
        BY <1>1, <1>10, GroupsAreShort
      <4>2. \A j \in 1..Len(greedy) : Len(greedy[j]) \in Nat BY <1>10, ElementOfSeq
      <4>. QED BY <1>1, <4>1, <4>2
    <3>. QED BY <1>1, <3>1
  <2>2. fitted = greedy BY <1>1, <1>10, <2>1, FitShort DEF fitted, n
  <2>. QED BY <2>2
<1>19. CASE bound
  <2>1. full = plan BY <1>5, <1>19, Zenon
  <2>2. Len(full.groups) > 1
    <3>1. Len(fitted) \in Nat BY <1>11
    <3>2. ~ (Len(fitted) <= 1)
      <4>1. Partitioned(fitted).status =
               IF Len(fitted) <= 1 THEN "READY" ELSE "PARTITION_REQUIRED"
        BY StatusOfPartitioned
      <4>. QED BY <1>3, <1>6, <2>1, <4>1, Zenon
    <3>3. Len(fitted) > 1 BY <3>1, <3>2
    <3>. QED BY <1>13, <2>1, <3>3
  <2>3. Partitions(k, targets, full.groups, sum, greedy, coarse, e)
    BY <1>1, <1>9, <1>10, <1>13, <1>16, <1>17, <1>18, <1>19, <2>1 DEF Partitions, order
  <2>. QED BY <1>2, <1>4, <1>6, <1>7, <2>2, <2>3 DEF full
<1>20. CASE ~ bound
  <2>1. /\ Fits(split, OriginalRoom(k))
        /\ full = [status |-> IF Len(split) <= 1 THEN "READY" ELSE "PARTITION_REQUIRED",
                   groups |-> split]
    BY <1>5, <1>20, Zenon
  <2>2. PICK f : /\ split \in Seq(Seq(Paths)) /\ Cuts(split, f, PathsOf(order))
                 /\ Refines(f, split, e, plan.groups)
    <3>1. /\ split \in Seq(Seq(Paths))
          /\ FinerCut(split, PathsOf(order), plan.groups, e)
      <4> DEFINE paths == PathsOf(order)
                 groups == plan.groups
      <4>1. paths \in Seq(Paths) /\ groups \in Seq(Seq(Paths)) /\ Cuts(groups, e, paths)
        BY <1>13, <1>15
      <4>2. split = fitPromptPartitions(groups, OriginalRoom(k), n) BY <1>1 DEF split
      <4> HIDE DEF paths, groups
      <4>3. /\ fitPromptPartitions(groups, OriginalRoom(k), n) \in Seq(Seq(Paths))
            /\ FinerCut(fitPromptPartitions(groups, OriginalRoom(k), n), paths, groups, e)
        BY <1>1, <4>1, FitCuts
      <4>. QED BY <4>2, <4>3 DEF paths, groups
    <3>. QED BY <3>1 DEF FinerCut
  <2>3. full.groups = split /\ Len(split) > 1
    <3>1. full.groups = split BY <2>1
    <3>2. ~ (Len(split) <= 1) BY <1>3, <2>1
    <3>3. Len(split) \in Nat BY <2>2
    <3>. QED BY <3>1, <3>2, <3>3
  <2>4. Refines(f, split, coarse, greedy)
    BY <1>1, <1>10, <1>13, <1>15, <1>17, <2>2, RefinesFurther
  <2>5. \A j \in 1..Len(split) : Len(split[j]) <= RenderedRoom(k)
    <3> DEFINE paths == PathsOf(order)
               groups == plan.groups
    <3>1. /\ paths \in Seq(Paths) /\ groups \in Seq(Seq(Paths)) /\ Cuts(groups, e, paths)
          /\ \A j \in 1..Len(groups) : Len(groups[j]) <= RenderedRoom(k)
      BY <1>13, <1>15, <1>16
    <3>2. /\ split \in Seq(Seq(Paths)) /\ Cuts(split, f, paths)
          /\ Refines(f, split, e, groups)
      BY <2>2
    <3> HIDE DEF paths, groups
    <3>. QED BY <1>1, <3>1, <3>2, FinerIsShorter
  <2>6. \A j \in 1..Len(split) : Len(split[j]) <= OriginalRoom(k)
    <3>1. DOMAIN split = 1..Len(split) BY <2>2
    <3>. QED BY <2>1, <3>1 DEF Fits
  <2>7. n <= RenderedRoom(k) /\ n <= OriginalRoom(k) => Len(split) = Len(greedy)
    <3> SUFFICES ASSUME n <= RenderedRoom(k), n <= OriginalRoom(k)
                 PROVE  Len(split) = Len(greedy)
      OBVIOUS
    <3> DEFINE paths == PathsOf(order)
               groups == plan.groups
    <3>1. /\ paths \in Seq(Paths) /\ Len(paths) = n
          /\ groups \in Seq(Seq(Paths)) /\ Cuts(groups, e, paths)
          /\ Len(groups) = Len(greedy)
      BY <1>13, <1>15, <1>18
    <3>2. split = fitPromptPartitions(groups, OriginalRoom(k), n) BY <1>1 DEF split
    <3> HIDE DEF paths, groups
    <3>3. \A j \in 1..Len(groups) : Len(groups[j]) <= Len(paths) BY <3>1, GroupsAreShort
    <3>4. \A j \in 1..Len(groups) : Len(groups[j]) \in Nat BY <3>1, ElementOfSeq
    <3>5. \A j \in 1..Len(groups) : Len(groups[j]) <= OriginalRoom(k)
      <4>1. \A j \in 1..Len(groups) : Len(groups[j]) <= n
        BY <3>1, <3>3, Zenon
      <4>2. n \in Nat /\ OriginalRoom(k) \in Int /\ n <= OriginalRoom(k) BY <1>1
      <4>. QED BY <3>4, <4>1, <4>2
    <3>6. fitPromptPartitions(groups, OriginalRoom(k), n) = groups
      BY <1>1, <3>1, <3>5, FitShort
    <3>. QED BY <3>1, <3>2, <3>6
  <2>8. Partitions(k, targets, full.groups, sum, greedy, coarse, f)
    BY <1>1, <1>9, <1>10, <2>2, <2>3, <2>4, <2>5, <2>6, <2>7 DEF Partitions, order
  <2>. QED BY <1>2, <1>4, <1>6, <1>7, <2>3, <2>8 DEF full
<1> QED BY <1>19, <1>20

-----------------------------------------------------------------------------
(***************************************************************************)
(* The packets of a plan.                                                  *)
(***************************************************************************)
(* The ends of a cut grow, and every position lies in one of its groups. *)
LEMMA EndsGrow ==
    ASSUME NEW S, NEW s \in Seq(S), NEW groups \in Seq(Seq(S)), NEW ends,
           Cuts(groups, ends, s), NEW i \in 0..Len(groups), NEW j \in i..Len(groups)
    PROVE  ends[i] \in 0..Len(s) /\ ends[j] \in 0..Len(s) /\ ends[i] <= ends[j]
<1> DEFINE m == Len(groups)
           n == Len(s)
           T == {d \in Nat : i + d <= m => ends[i] <= ends[i + d]}
<1>1. m \in Nat /\ n \in Nat /\ i \in Nat /\ i <= m OBVIOUS
<1>2. \A k \in 0..m : ends[k] \in 0..n BY DEF Cuts
<1>3. \A k \in 1..m : ends[k - 1] < ends[k] BY DEF Cuts
<1> HIDE DEF m, n
<1>4. ends[i] \in Nat /\ ends[i] <= ends[i] BY <1>1, <1>2
<1>5. 0 \in T BY <1>1, <1>4
<1>6. ASSUME NEW d \in T PROVE d + 1 \in T
  <2> SUFFICES ASSUME i + (d + 1) <= m PROVE ends[i] <= ends[i + (d + 1)]
    OBVIOUS
  <2>1. i + d <= m /\ i + d \in 0..m /\ i + (d + 1) \in 1..m /\ (i + (d + 1)) - 1 = i + d
    BY <1>1
  <2>2. ends[i] <= ends[i + d] BY <2>1
  <2>3. ends[i + d] < ends[i + (d + 1)] BY <1>3, <2>1
  <2>4. ends[i + d] \in Nat /\ ends[i + (d + 1)] \in Nat BY <1>1, <1>2, <2>1
  <2> DEFINE x == ends[i]
             y == ends[i + d]
             z == ends[i + (d + 1)]
  <2>5. x \in Nat /\ y \in Nat /\ z \in Nat /\ x <= y /\ y < z
    BY <1>4, <2>2, <2>3, <2>4
  <2> HIDE DEF x, y, z
  <2>6. x <= z BY <2>5
  <2>. QED BY <2>6 DEF x, z
<1>7. T = Nat
  <2>1. T \subseteq Nat OBVIOUS
  <2> HIDE DEF T
  <2>. QED BY <1>5, <1>6, <2>1, Induction
<1>8. j - i \in Nat /\ i + (j - i) = j /\ j <= m /\ j \in 0..m /\ i \in 0..m BY <1>1 DEF m
<1>9. j - i \in T BY <1>7, <1>8
<1>10. ends[i] <= ends[j] BY <1>8, <1>9
<1> QED BY <1>2, <1>8, <1>10 DEF n

LEMMA CutCovers ==
    ASSUME NEW S, NEW s \in Seq(S), NEW groups \in Seq(Seq(S)), NEW ends,
           Cuts(groups, ends, s), NEW x \in 1..Len(s)
    PROVE  \E j \in 1..Len(groups) : ends[j - 1] < x /\ x <= ends[j]
<1> DEFINE m == Len(groups)
           T == {j \in 0..m : x <= ends[j]}
<1>1. m \in Nat /\ Len(s) \in Nat OBVIOUS
<1>2. ends[0] = 0 /\ ends[m] = Len(s) /\ \A k \in 0..m : ends[k] \in 0..Len(s)
  BY DEF Cuts
<1>3. m \in T BY <1>1, <1>2
<1>4. PICK j \in T : \A i \in T : j <= i
  <2>1. T \subseteq Nat OBVIOUS
  <2> HIDE DEF T
  <2>. QED BY <1>3, <2>1, LeastElement
<1>5. j \in 0..m /\ x <= ends[j] OBVIOUS
<1>6. j # 0 BY <1>1, <1>2, <1>5
<1>7. j \in 1..m /\ j - 1 \in 0..m /\ ~ (j <= j - 1) BY <1>1, <1>5, <1>6
<1>8. j - 1 \notin T BY <1>4, <1>7
<1>9. ~ (x <= ends[j - 1]) BY <1>7, <1>8
<1>10. ends[j - 1] \in Nat /\ x \in Nat BY <1>1, <1>2, <1>7
<1> DEFINE y == ends[j - 1]
<1>11. y < x
  <2>1. ~ (x <= y) /\ y \in Nat /\ x \in Nat BY <1>9, <1>10
  <2> HIDE DEF y
  <2>. QED BY <2>1
<1> QED BY <1>5, <1>7, <1>11

(* The elements of the groups are those of the sequence. *)
LEMMA CutKeepsAll ==
    ASSUME NEW S, NEW s \in Seq(S), NEW groups \in Seq(Seq(S)), NEW ends,
           Cuts(groups, ends, s)
    PROVE  UNION {ToSet(groups[j]) : j \in 1..Len(groups)} = ToSet(s)
<1>1. \A j \in 1..Len(groups) :
         /\ ends[j - 1] \in 0..Len(s) /\ ends[j] \in 0..Len(s)
         /\ ends[j - 1] \in Nat /\ ends[j] \in Nat
         /\ Len(groups[j]) = ends[j] - ends[j - 1]
         /\ \A k \in 1..(ends[j] - ends[j - 1]) : groups[j][k] = s[ends[j - 1] + k]
  BY CutFacts
<1>2. \A j \in 1..Len(groups) : DOMAIN groups[j] = 1..Len(groups[j])
  BY ElementOfSeq
<1>3. DOMAIN s = 1..Len(s) /\ Len(s) \in Nat OBVIOUS
<1>4. ASSUME NEW j \in 1..Len(groups), NEW y \in ToSet(groups[j]) PROVE y \in ToSet(s)
  <2> DEFINE a == ends[j - 1]
             b == ends[j]
  <2>1. PICK k \in 1..(b - a) : y = groups[j][k] BY <1>1, <1>2 DEF ToSet
  <2>2. a \in Nat /\ b \in 0..Len(s) /\ y = s[a + k] BY <1>1, <2>1
  <2> HIDE DEF a, b
  <2>3. a + k \in 1..Len(s) BY <1>3, <2>2
  <2>. QED BY <1>3, <2>2, <2>3 DEF ToSet
<1>5. ASSUME NEW x \in 1..Len(s)
      PROVE  \E j \in 1..Len(groups) : s[x] \in ToSet(groups[j])
  <2>1. PICK j \in 1..Len(groups) : ends[j - 1] < x /\ x <= ends[j] BY CutCovers
  <2> DEFINE a == ends[j - 1]
             b == ends[j]
             g == groups[j]
  <2>2. /\ a \in Nat /\ b \in Nat /\ a < x /\ x <= b /\ DOMAIN g = 1..(b - a)
        /\ \A k \in 1..(b - a) : g[k] = s[a + k]
    BY <1>1, <1>2, <2>1
  <2> HIDE DEF a, b, g
  <2>3. x - a \in 1..(b - a) /\ a + (x - a) = x BY <2>2
  <2>4. s[x] = g[x - a] BY <2>2, <2>3
  <2>5. s[x] \in ToSet(g) BY <2>2, <2>3, <2>4 DEF ToSet
  <2>. QED BY <2>5 DEF g
<1>6. ASSUME NEW y \in ToSet(s) PROVE \E j \in 1..Len(groups) : y \in ToSet(groups[j])
  BY <1>3, <1>5 DEF ToSet
<1> QED BY <1>4, <1>6

(* The stable order of a request has its paths, each once. *)
LEMMA OrderOfRequest ==
    ASSUME NEW targets \in Requests
    PROVE  LET order == stableTargetOrder(targets) IN
           /\ order \in Seq(TargetRecords) /\ Len(order) = Len(targets)
           /\ Len(order) \in Nat /\ DOMAIN order = 1..Len(order)
           /\ InStableOrder(order) /\ ToSet(order) = ToSet(targets)
           /\ PathsOf(order) \in Seq(Paths) /\ Len(PathsOf(order)) = Len(order)
           /\ \A i \in 1..Len(order) : PathsOf(order)[i] = order[i].path
           /\ ToSet(PathsOf(order)) = ToSet(PathsOf(targets))
           /\ \A t, u \in ToSet(targets) : t.path = u.path => t = u
<1> DEFINE order == stableTargetOrder(targets)
<1>1. /\ order \in Seq(TargetRecords) /\ Len(order) = Len(targets)
      /\ InStableOrder(order) /\ ToSet(order) = ToSet(targets)
  BY StableOrder DEF Sorts
<1> HIDE DEF order
<1>2. Len(order) \in Nat /\ DOMAIN order = 1..Len(order) BY <1>1
<1>3. /\ PathsOf(order) \in Seq(Paths) /\ Len(PathsOf(order)) = Len(order)
      /\ \A i \in 1..Len(order) : PathsOf(order)[i] = order[i].path
  BY <1>1, PathsOfTargets
<1>4. ToSet(PathsOf(order)) = {t.path : t \in ToSet(order)}
  BY DEF ToSet, PathsOf
<1>5. ToSet(PathsOf(targets)) = {t.path : t \in ToSet(targets)}
  BY DEF ToSet, PathsOf
<1>6. \A t, u \in ToSet(targets) : t.path = u.path => t = u
  BY DEF ToSet, Requests, Distinct
<1> QED BY <1>1, <1>2, <1>3, <1>4, <1>5, <1>6 DEF order

(* Targets in the stable order are, by their paths alone. *)
LEMMA BeforeByPath ==
    ASSUME NEW t \in TargetRecords, NEW u \in TargetRecords, NEW a, NEW b,
           a = [path |-> t.path], b = [path |-> u.path]
    PROVE  Before(a, b) <=> Before(t, u)
<1>1. a.path = t.path /\ b.path = u.path OBVIOUS
<1> QED BY <1>1, Zenon DEF Before

(* The groups are the request, cut up. *)
LEMMA PartsOfRequest ==
    ASSUME NEW targets \in Requests, NEW groups \in Seq(Seq(Paths)), NEW ends,
           Cuts(groups, ends, PathsOf(stableTargetOrder(targets)))
    PROVE  /\ UNION {ToSet(groups[j]) : j \in 1..Len(groups)} = ToSet(PathsOf(targets))
           /\ \A j \in 1..Len(groups) : /\ groups[j] # <<>>
                                        /\ InStableOrder(AsTargets(groups[j]))
           /\ \A i, j \in 1..Len(groups) : i < j =>
                 \A a \in ToSet(AsTargets(groups[i])), b \in ToSet(AsTargets(groups[j])) :
                    Before(a, b)
<1> DEFINE order == stableTargetOrder(targets)
           paths == PathsOf(order)
           n == Len(order)
           m == Len(groups)
<1>1. /\ order \in Seq(TargetRecords) /\ n \in Nat /\ DOMAIN order = 1..n
      /\ InStableOrder(order) /\ paths \in Seq(Paths) /\ Len(paths) = n
      /\ \A i \in 1..n : paths[i] = order[i].path /\ order[i] \in TargetRecords
      /\ ToSet(paths) = ToSet(PathsOf(targets))
  BY OrderOfRequest, ElementOfSeq
<1>2. Cuts(groups, ends, paths) OBVIOUS
<1> HIDE DEF order, paths, n
<1>3. UNION {ToSet(groups[j]) : j \in 1..m} = ToSet(PathsOf(targets))
  BY <1>1, <1>2, CutKeepsAll
<1>4. \A j \in 1..m :
         /\ ends[j - 1] \in Nat /\ ends[j] \in Nat /\ ends[j] <= n /\ ends[j - 1] < ends[j]
         /\ Len(groups[j]) = ends[j] - ends[j - 1]
         /\ DOMAIN groups[j] = 1..Len(groups[j])
         /\ \A x \in 1..(ends[j] - ends[j - 1]) : groups[j][x] = paths[ends[j - 1] + x]
  <2>1. \A j \in 1..m :
           /\ ends[j - 1] \in Nat /\ ends[j] \in Nat /\ ends[j - 1] < ends[j]
           /\ ends[j] \in 0..n /\ Len(groups[j]) = ends[j] - ends[j - 1]
           /\ \A x \in 1..(ends[j] - ends[j - 1]) : groups[j][x] = paths[ends[j - 1] + x]
    BY <1>1, <1>2, CutFacts, SMTT(30)
  <2>2. \A j \in 1..m : DOMAIN groups[j] = 1..Len(groups[j]) BY ElementOfSeq
  <2>3. \A j \in 1..m : ends[j] <= n BY <1>1, <2>1
  <2>. QED BY <2>1, <2>2, <2>3
<1>5. ASSUME NEW j \in 1..m, NEW x \in DOMAIN groups[j]
      PROVE  /\ ends[j - 1] < ends[j - 1] + x /\ ends[j - 1] + x <= ends[j]
             /\ ends[j - 1] + x \in 1..n /\ x \in Nat
             /\ AsTargets(groups[j])[x] = [path |-> order[ends[j - 1] + x].path]
  <2> DEFINE a == ends[j - 1]
             b == ends[j]
             g == groups[j]
  <2>1. /\ a \in Nat /\ b \in Nat /\ b <= n /\ x \in 1..(b - a)
        /\ \A y \in 1..(b - a) : g[y] = paths[a + y]
    BY <1>4
  <2>2. AsTargets(g)[x] = [path |-> g[x]] BY DEF AsTargets
  <2> HIDE DEF a, b, g
  <2>3. a < a + x /\ a + x <= b /\ a + x \in 1..n /\ x \in Nat BY <1>1, <2>1
  <2>4. AsTargets(g)[x] = [path |-> order[a + x].path] BY <1>1, <2>1, <2>2, <2>3
  <2>. QED BY <2>3, <2>4 DEF a, b, g
<1>6. ASSUME NEW x \in 1..n, NEW y \in 1..n, x < y, NEW a, NEW b,
             a = [path |-> order[x].path], b = [path |-> order[y].path]
      PROVE  Before(a, b)
  <2>1. Before(order[x], order[y]) BY <1>1, <1>6 DEF InStableOrder
  <2>2. order[x] \in TargetRecords /\ order[y] \in TargetRecords BY <1>1
  <2>. QED BY <1>6, <2>1, <2>2, BeforeByPath
<1>7. ASSUME NEW j \in 1..m PROVE groups[j] # <<>> /\ InStableOrder(AsTargets(groups[j]))
  <2> DEFINE a == ends[j - 1]
             b == ends[j]
  <2>1. a \in Nat /\ b \in Nat /\ a < b /\ Len(groups[j]) = b - a BY <1>4
  <2>2. DOMAIN AsTargets(groups[j]) = DOMAIN groups[j] BY DEF AsTargets
  <2>3. ASSUME NEW x \in DOMAIN groups[j], NEW y \in DOMAIN groups[j], x < y
        PROVE  Before(AsTargets(groups[j])[x], AsTargets(groups[j])[y])
    <3>1. /\ a + x \in 1..n /\ a + y \in 1..n /\ x \in Nat /\ y \in Nat
          /\ AsTargets(groups[j])[x] = [path |-> order[a + x].path]
          /\ AsTargets(groups[j])[y] = [path |-> order[a + y].path]
      BY <1>5
    <3> HIDE DEF a
    <3>2. a + x < a + y BY <2>1, <2>3, <3>1
    <3>. QED BY <1>6, <3>1, <3>2
  <2>4. InStableOrder(AsTargets(groups[j])) BY <2>2, <2>3 DEF InStableOrder
  <2>5. Len(groups[j]) # 0
    <3> HIDE DEF a, b
    <3>1. b - a # 0 BY <2>1
    <3>. QED BY <2>1, <3>1
  <2>. QED BY <2>4, <2>5
<1>8. ASSUME NEW i \in 1..m, NEW j \in 1..m, i < j,
             NEW p \in ToSet(AsTargets(groups[i])), NEW q \in ToSet(AsTargets(groups[j]))
      PROVE  Before(p, q)
  <2>1. PICK x \in DOMAIN groups[i] : p = AsTargets(groups[i])[x] BY DEF ToSet, AsTargets
  <2>2. PICK y \in DOMAIN groups[j] : q = AsTargets(groups[j])[y] BY DEF ToSet, AsTargets
  <2> DEFINE a == ends[i - 1]
             b == ends[i]
             c == ends[j - 1]
  <2>3. m \in Nat /\ i \in 0..m /\ j - 1 \in i..m BY <1>8
  <2>4. b <= c BY <1>1, <1>2, <2>3, EndsGrow
  <2>5. a \in Nat /\ b \in Nat /\ c \in Nat BY <1>4
  <2>6. /\ a + x <= b /\ a + x \in 1..n /\ x \in Nat
        /\ p = [path |-> order[a + x].path]
    BY <1>5, <2>1
  <2>7. /\ c < c + y /\ c + y \in 1..n /\ y \in Nat
        /\ q = [path |-> order[c + y].path]
    BY <1>5, <2>2
  <2> HIDE DEF a, b, c
  <2>8. a + x < c + y BY <2>4, <2>5, <2>6, <2>7
  <2>. QED BY <1>6, <2>6, <2>7, <2>8
<1> QED BY <1>3, <1>7, <1>8

(* What was measured of some of the paths of a request is what the request *)
(* holds of them.                                                          *)
LEMMA AsMeasuredIsMeasured ==
    ASSUME NEW targets \in Requests, NEW o, o.targets = targets,
           NEW part \in Seq(TargetRecords), ToSet(part) \subseteq ToSet(targets)
    PROVE  AsMeasured(o, PathsOf(part)) = part
<1> DEFINE n == Len(part)
           paths == PathsOf(part)
           found == AsMeasured(o, paths)
<1>1. /\ n \in Nat /\ DOMAIN part = 1..n /\ paths \in Seq(Paths) /\ Len(paths) = n
      /\ \A i \in 1..n : paths[i] = part[i].path
  BY PathsOfTargets
<1>2. DOMAIN paths = 1..n BY <1>1
<1>3. \A t, u \in ToSet(targets) : t.path = u.path => t = u
  BY OrderOfRequest
<1> HIDE DEF n, paths
<1>4. found = [i \in 1..n |-> CHOOSE t \in ToSet(targets) : t.path = paths[i]]
  BY <1>2 DEF AsMeasured
<1>5. ASSUME NEW i \in 1..n
      PROVE  (CHOOSE t \in ToSet(targets) : t.path = paths[i]) = part[i]
  <2>1. part[i] \in ToSet(targets) BY <1>1 DEF ToSet
  <2>2. part[i].path = paths[i] BY <1>1
  <2> DEFINE c == CHOOSE t \in ToSet(targets) : t.path = paths[i]
  <2>3. c \in ToSet(targets) /\ c.path = paths[i] BY <2>1, <2>2
  <2> HIDE DEF c
  <2>4. c = part[i] BY <1>3, <2>1, <2>2, <2>3
  <2>. QED BY <2>4 DEF c
<1>6. part = [i \in 1..n |-> part[i]]
  <2>1. part \in [1..n -> TargetRecords] BY <1>1, SeqDef DEF n
  <2>. QED BY <2>1
<1>7. found = part BY <1>4, <1>5, <1>6
<1> QED BY <1>7 DEF paths

LEMMA PathsOfPart ==
    ASSUME NEW order \in Seq(TargetRecords),
           NEW a \in 0..Len(order), NEW b \in a..Len(order)
    PROVE  /\ PathsOf(SubSeq(order, a + 1, b)) = SubSeq(PathsOf(order), a + 1, b)
           /\ SubSeq(order, a + 1, b) \in Seq(TargetRecords)
           /\ SubSeq(PathsOf(order), a + 1, b) \in Seq(Paths)
           /\ Len(SubSeq(PathsOf(order), a + 1, b)) = b - a
           /\ ToSet(SubSeq(order, a + 1, b)) \subseteq ToSet(order)
<1> DEFINE n == Len(order)
           paths == PathsOf(order)
           part == SubSeq(order, a + 1, b)
           names == SubSeq(paths, a + 1, b)
<1>1. n \in Nat /\ a \in Nat /\ b \in Nat /\ a <= b /\ b <= n /\ DOMAIN order = 1..n
  OBVIOUS
<1>2. paths \in Seq(Paths) /\ Len(paths) = n /\ \A i \in 1..n : paths[i] = order[i].path
  BY PathsOfTargets
<1>3. \A i \in (a + 1)..b : i \in 1..n /\ order[i] \in TargetRecords
  BY <1>1, ElementOfSeq
<1> HIDE DEF n, paths, part, names
<1>4. \A i \in (a + 1)..b : paths[i] \in Paths
  <2>1. \A i \in 1..n : paths[i] \in Paths BY <1>2, ElementOfSeq
  <2>. QED BY <1>3, <2>1
<1>5. a + 1 \in Int /\ b \in Int /\ b - (a + 1) + 1 = b - a BY <1>1
<1>6. /\ part \in Seq(TargetRecords) /\ Len(part) = b - a
      /\ \A i \in 1..(b - a) : part[i] = order[(a + 1) + i - 1]
  <2>1. /\ SubSeq(order, a + 1, b) \in Seq(TargetRecords)
        /\ Len(SubSeq(order, a + 1, b)) = IF a + 1 <= b THEN b - (a + 1) + 1 ELSE 0
        /\ \A i \in 1..(b - (a + 1) + 1) : SubSeq(order, a + 1, b)[i] = order[(a + 1) + i - 1]
    BY <1>3, <1>5, SubSeqProperties
  <2>2. (IF a + 1 <= b THEN b - (a + 1) + 1 ELSE 0) = b - a BY <1>1
  <2>. QED BY <1>5, <2>1, <2>2 DEF part
<1>7. /\ names \in Seq(Paths) /\ Len(names) = b - a
      /\ \A i \in 1..(b - a) : names[i] = paths[(a + 1) + i - 1]
  <2>1. /\ SubSeq(paths, a + 1, b) \in Seq(Paths)
        /\ Len(SubSeq(paths, a + 1, b)) = IF a + 1 <= b THEN b - (a + 1) + 1 ELSE 0
        /\ \A i \in 1..(b - (a + 1) + 1) : SubSeq(paths, a + 1, b)[i] = paths[(a + 1) + i - 1]
    BY <1>4, <1>5, SubSeqProperties
  <2>2. (IF a + 1 <= b THEN b - (a + 1) + 1 ELSE 0) = b - a BY <1>1
  <2>. QED BY <1>5, <2>1, <2>2 DEF names
<1>8. \A i \in 1..(b - a) : (a + 1) + i - 1 = a + i /\ a + i \in 1..n BY <1>1
<1>9. PathsOf(part) = names
  <2>1. /\ PathsOf(part) \in Seq(Paths) /\ Len(PathsOf(part)) = b - a
        /\ \A i \in 1..(b - a) : PathsOf(part)[i] = part[i].path
    BY <1>6, PathsOfTargets
  <2>2. \A i \in 1..(b - a) : PathsOf(part)[i] = names[i]
    BY <1>2, <1>6, <1>7, <1>8, <2>1
  <2>. QED BY <1>7, <2>1, <2>2, SeqEqual
<1>10. ToSet(part) \subseteq ToSet(order)
  <2> SUFFICES ASSUME NEW t \in ToSet(part) PROVE t \in ToSet(order)
    OBVIOUS
  <2>1. DOMAIN part = 1..(b - a) BY <1>6
  <2>2. PICK i \in 1..(b - a) : t = part[i] BY <2>1 DEF ToSet
  <2>. QED BY <1>1, <1>6, <1>8, <2>2 DEF ToSet
<1> QED BY <1>6, <1>7, <1>9, <1>10 DEF part, names, paths

(* A part of the request is affordable when its sums are within the limits. *)
LEMMA AffordableIsWithin ==
    ASSUME NEW targets \in Requests, NEW o, o.targets = targets,
           NEW sum, SumsOf(sum, stableTargetOrder(targets)),
           NEW a \in 0..Len(stableTargetOrder(targets)),
           NEW b \in a..Len(stableTargetOrder(targets))
    PROVE  Affordable(o, SubSeq(PathsOf(stableTargetOrder(targets)), a + 1, b))
              <=> Within(sum, o.role, a, b)
<1> DEFINE order == stableTargetOrder(targets)
           part == SubSeq(order, a + 1, b)
           names == SubSeq(PathsOf(order), a + 1, b)
<1>1. order \in Seq(TargetRecords) /\ ToSet(order) = ToSet(targets)
  BY OrderOfRequest
<1> HIDE DEF order
<1>2. /\ PathsOf(part) = names /\ part \in Seq(TargetRecords) /\ Len(names) = b - a
      /\ ToSet(part) \subseteq ToSet(targets)
  BY <1>1, PathsOfPart DEF order
<1>3. CostOf(part) = sum[b] - sum[a] BY <1>1, CostOfPart DEF order
<1> HIDE DEF part, names
<1>4. AsMeasured(o, names) = part BY <1>2, AsMeasuredIsMeasured
<1> QED BY <1>2, <1>3, <1>4 DEF Affordable, Within, names, order

(* Less work is within the limits when more of it is. *)
LEMMA WithinPart ==
    ASSUME NEW order \in Seq(TargetRecords), NEW sum, SumsOf(sum, order),
           NEW role \in Roles, NEW n, n = Len(order),
           NEW a \in 0..n, NEW b \in 0..n, NEW c \in 0..n, NEW d \in 0..n,
           a <= c, c <= d, d <= b, Within(sum, role, a, b)
    PROVE  Within(sum, role, c, d)
<1>1. n \in Nat OBVIOUS
<1>2. sum[a] <= sum[c] /\ sum[d] <= sum[b]
  <2>1. c \in a..n /\ b \in d..n BY <1>1
  <2>. QED BY <2>1, SumsGrow
<1>3. sum[a] \in Nat /\ sum[b] \in Nat /\ sum[c] \in Nat /\ sum[d] \in Nat
  BY DEF SumsOf
<1>4. roleComplexityLimit(role) \in Nat /\ TargetLimit[role] \in Nat BY LimitsTyped
<1>5. b - a <= TargetLimit[role] /\ sum[b] - sum[a] <= roleComplexityLimit(role)
  BY DEF Within
<1> DEFINE limit == roleComplexityLimit(role)
           most == TargetLimit[role]
           w == sum[a]
           x == sum[c]
           y == sum[d]
           z == sum[b]
<1>6. /\ w \in Nat /\ x \in Nat /\ y \in Nat /\ z \in Nat /\ limit \in Nat /\ most \in Nat
      /\ w <= x /\ y <= z /\ z - w <= limit /\ b - a <= most
  BY <1>2, <1>3, <1>4, <1>5
<1> HIDE DEF limit, most, w, x, y, z
<1>7. y - x <= limit /\ d - c <= most BY <1>1, <1>6
<1> QED BY <1>7 DEF Within, limit, most, x, y

LEMMA GroupsAreAffordable ==
    ASSUME NEW k \in PacketRecords, NEW targets \in Requests,
           NEW o, o.targets = targets, o.role = k.role,
           NEW groups, NEW sum, NEW greedy, NEW coarse, NEW ends,
           Partitions(k, targets, groups, sum, greedy, coarse, ends)
    PROVE  \A j \in 1..Len(groups) : Affordable(o, groups[j])
<1> DEFINE order == stableTargetOrder(targets)
           n == Len(order)
<1>1. /\ order \in Seq(TargetRecords) /\ n \in Nat
      /\ PathsOf(order) \in Seq(Paths) /\ Len(PathsOf(order)) = n
  BY OrderOfRequest
<1>2. /\ SumsOf(sum, order)
      /\ greedy \in Seq(Seq(TargetRecords)) /\ Cuts(greedy, coarse, order)
      /\ \A j \in 1..Len(greedy) : Within(sum, k.role, coarse[j - 1], coarse[j])
      /\ groups \in Seq(Seq(Paths)) /\ Cuts(groups, ends, PathsOf(order))
      /\ Refines(ends, groups, coarse, greedy)
  BY Zenon DEF Partitions
<1>3. k.role \in Roles BY RoomsTyped
<1> HIDE DEF order, n
<1> SUFFICES ASSUME NEW j \in 1..Len(groups) PROVE Affordable(o, groups[j])
  OBVIOUS
<1>4. PICK i \in 1..Len(greedy) : coarse[i - 1] <= ends[j - 1] /\ ends[j] <= coarse[i]
  BY <1>2 DEF Refines
<1>5. /\ ends[j - 1] \in 0..n /\ ends[j] \in 0..n /\ ends[j - 1] < ends[j]
      /\ groups[j] = SubSeq(PathsOf(order), ends[j - 1] + 1, ends[j])
  <2> DEFINE paths == PathsOf(order)
  <2>1. /\ paths \in Seq(Paths) /\ Len(paths) = n
        /\ groups \in Seq(Seq(Paths)) /\ Cuts(groups, ends, paths)
    BY <1>1, <1>2
  <2> HIDE DEF paths
  <2>2. /\ ends[j - 1] \in 0..Len(paths) /\ ends[j] \in 0..Len(paths)
        /\ ends[j - 1] < ends[j] /\ groups[j] = SubSeq(paths, ends[j - 1] + 1, ends[j])
    BY <2>1, CutFacts, SMTT(30)
  <2>. QED BY <2>1, <2>2 DEF paths
<1>6. coarse[i - 1] \in 0..n /\ coarse[i] \in 0..n BY <1>1, <1>2, CutFacts DEF n
<1>7. Within(sum, k.role, coarse[i - 1], coarse[i]) BY <1>2
<1> DEFINE a == ends[j - 1]
           b == ends[j]
           c == coarse[i - 1]
           d == coarse[i]
<1>8. /\ a \in 0..n /\ b \in 0..n /\ c \in 0..n /\ d \in 0..n /\ a < b /\ c <= a /\ b <= d
      /\ Within(sum, k.role, c, d) /\ groups[j] = SubSeq(PathsOf(order), a + 1, b)
  BY <1>4, <1>5, <1>6, <1>7, Zenon
<1> HIDE DEF a, b, c, d
<1>9. a <= b /\ b \in a..n BY <1>1, <1>8
<1>10. Within(sum, k.role, a, b)
  <2>1. n = Len(order) BY DEF n
  <2>. QED BY <1>1, <1>2, <1>3, <1>8, <1>9, <2>1, WithinPart
<1>11. Affordable(o, SubSeq(PathsOf(order), a + 1, b)) <=> Within(sum, o.role, a, b)
  BY <1>2, <1>8, <1>9, AffordableIsWithin DEF n, order
<1> QED BY <1>8, <1>10, <1>11

(* Where a group could not take one more target, every other way to cut the *)
(* request into affordable pieces must cut within that group.               *)
LEMMA CutIsForced ==
    ASSUME NEW targets \in Requests, NEW o, o.targets = targets, o.role \in Roles,
           NEW order, order = stableTargetOrder(targets),
           NEW n, n = Len(order), NEW sum, SumsOf(sum, order),
           NEW x \in 0..n, NEW y \in 0..n, x < y, y < n, ~ Within(sum, o.role, x, y + 1),
           NEW cut \in SUBSET (1..(n - 1)),
           \A piece \in Pieces(PathsOf(order), cut) : Affordable(o, piece)
    PROVE  \E c \in cut : x < c /\ c <= y
<1>1. /\ order \in Seq(TargetRecords) /\ n \in Nat
      /\ PathsOf(order) \in Seq(Paths) /\ Len(PathsOf(order)) = n
  BY OrderOfRequest
<1>2. SUFFICES ASSUME \A c \in cut : ~ (x < c /\ c <= y) PROVE FALSE
  OBVIOUS
<1>3. \A c \in cut : c \in Nat /\ c \in 0..n /\ (c <= x \/ y < c)
  BY <1>1, <1>2
<1> DEFINE Below == {c \in cut \cup {0} : c <= x}
           Above == {c \in cut \cup {n} : y < c}
<1>4. PICK a \in Below : \A c \in Below : c <= a
  <2>1. Below \subseteq 0..n
    <3>1. 0 \in 0..n BY <1>1
    <3>2. \A c \in cut : c \in 0..n BY <1>3
    <3>. QED BY <3>1, <3>2
  <2>2. 0 \in Below BY <1>1
  <2> HIDE DEF Below
  <2>. QED BY <1>1, <2>1, <2>2, GreatestElement
<1>5. PICK b \in Above : \A c \in Above : b <= c
  <2>1. Above \subseteq Nat BY <1>1, <1>3
  <2>2. n \in Above OBVIOUS
  <2> HIDE DEF Above
  <2>. QED BY <2>1, <2>2, LeastElement
<1>6. a \in cut \cup {0} /\ a <= x /\ b \in cut \cup {n} /\ y < b
  OBVIOUS
<1>7. a \in 0..n /\ b \in 0..n /\ a < b /\ a \in Nat /\ b \in Nat
  BY <1>1, <1>3, <1>6
<1>8. ASSUME NEW c \in cut PROVE c <= a \/ b <= c
  <2>1. CASE c <= x
    <3>1. c \in Below BY <2>1
    <3>. QED BY <1>4, <3>1
  <2>2. CASE y < c
    <3>1. c \in Above BY <2>2
    <3>. QED BY <1>5, <3>1
  <2>. QED BY <1>3, <2>1, <2>2
<1> HIDE DEF Below, Above
<1>9. SubSeq(PathsOf(order), a + 1, b) \in Pieces(PathsOf(order), cut)
  <2> DEFINE paths == PathsOf(order)
             gaps == {gap \in (cut \cup {0}) \X (cut \cup {Len(paths)}) :
                        /\ gap[1] < gap[2]
                        /\ \A c \in cut : c <= gap[1] \/ gap[2] <= c}
             gap == <<a, b>>
  <2>1. gap \in (cut \cup {0}) \X (cut \cup {Len(paths)}) /\ gap[1] = a /\ gap[2] = b
    BY <1>1, <1>6
  <2>2. gap \in gaps BY <1>7, <1>8, <2>1
  <2>3. Pieces(paths, cut) = {SubSeq(paths, g[1] + 1, g[2]) : g \in gaps}
    BY DEF Pieces
  <2> HIDE DEF gaps, gap, paths
  <2>4. SubSeq(paths, gap[1] + 1, gap[2]) \in Pieces(paths, cut) BY <2>2, <2>3
  <2>. QED BY <2>1, <2>4 DEF paths
<1>10. Within(sum, o.role, a, b)
  <2>1. a \in 0..Len(stableTargetOrder(targets)) /\ b \in a..Len(stableTargetOrder(targets))
    BY <1>1, <1>7
  <2>2. Affordable(o, SubSeq(PathsOf(stableTargetOrder(targets)), a + 1, b))
    BY <1>9
  <2>. QED BY <2>1, <2>2, AffordableIsWithin
<1>11. /\ x \in 0..n /\ y + 1 \in 0..n /\ a <= x /\ x <= y + 1 /\ y + 1 <= b
  BY <1>1, <1>6, <1>7
<1>12. Within(sum, o.role, x, y + 1)
  BY <1>1, <1>7, <1>10, <1>11, WithinPart
<1> QED BY <1>12

(* No way to cut the request into affordable pieces has fewer of them. *)
LEMMA FewestGroups ==
    ASSUME NEW k \in PacketRecords, NEW targets \in Requests,
           NEW o, o.targets = targets, o.role = k.role,
           NEW groups, NEW sum, NEW greedy, NEW coarse, NEW ends,
           Partitions(k, targets, groups, sum, greedy, coarse, ends),
           NEW paths, paths = PathsOf(stableTargetOrder(targets)),
           Len(paths) <= RenderedRoom(k), Len(paths) <= OriginalRoom(k),
           NEW cut \in SUBSET (1..(Len(paths) - 1)),
           \A piece \in Pieces(paths, cut) : Affordable(o, piece)
    PROVE  /\ IsFiniteSet(cut) /\ Cardinality(cut) \in Nat
           /\ Len(groups) \in Nat /\ Len(groups) <= 1 + Cardinality(cut)
<1> DEFINE order == stableTargetOrder(targets)
           n == Len(order)
           m == Len(greedy)
<1>1. /\ order \in Seq(TargetRecords) /\ n \in Nat /\ Len(paths) = n
  BY OrderOfRequest
<1>2. /\ SumsOf(sum, order)
      /\ greedy \in Seq(Seq(TargetRecords)) /\ Cuts(greedy, coarse, order)
      /\ \A j \in 1..m : j < m => ~ Within(sum, k.role, coarse[j - 1], coarse[j] + 1)
      /\ n <= RenderedRoom(k) /\ n <= OriginalRoom(k) => Len(groups) = m
  BY Zenon DEF Partitions
<1>3. k.role \in Roles BY RoomsTyped
<1>4. order = stableTargetOrder(targets) /\ n = Len(order) /\ paths = PathsOf(order)
  OBVIOUS
<1>5. Len(groups) = m /\ m \in Nat BY <1>1, <1>2
<1> HIDE DEF order, n
<1>6. cut \in SUBSET (1..(n - 1)) BY <1>1
<1>7. IsFiniteSet(cut) /\ Cardinality(cut) \in Nat
  <2>1. IsFiniteSet(1..(n - 1))
    <3>1. 1 \in Int /\ n - 1 \in Int BY <1>1
    <3>. QED BY <3>1, FS_Interval
  <2>. QED BY <1>6, <2>1, FS_Subset, FS_CardinalityType
<1>8. ASSUME NEW j \in 1..(m - 1) PROVE \E c \in cut : coarse[j - 1] < c /\ c <= coarse[j]
  <2>1. j \in 1..m /\ j < m /\ j \in 0..m /\ m \in j..m /\ j + 1 \in 1..m BY <1>5
  <2>2. coarse[j - 1] \in 0..n /\ coarse[j] \in 0..n /\ coarse[j - 1] < coarse[j]
    BY <1>1, <1>2, <2>1, CutFacts DEF n
  <2>3. coarse[j] < n
    <3> DEFINE i == j + 1
    <3>1. i \in 1..m /\ i - 1 = j BY <2>1
    <3> HIDE DEF i
    <3>2. coarse[i - 1] \in Nat /\ coarse[i] \in 0..n /\ coarse[i - 1] < coarse[i]
      BY <1>1, <1>2, <3>1, CutFacts DEF n
    <3> DEFINE x == coarse[i - 1]
               y == coarse[i]
    <3>3. x \in Nat /\ y \in 0..n /\ x < y BY <3>2
    <3>4. coarse[j] = x BY <3>1
    <3> HIDE DEF x, y
    <3>. QED BY <1>1, <3>3, <3>4
  <2>4. ~ Within(sum, k.role, coarse[j - 1], coarse[j] + 1) BY <1>2, <2>1
  <2> DEFINE x == coarse[j - 1]
             y == coarse[j]
  <2>5. /\ x \in 0..n /\ y \in 0..n /\ x < y /\ y < n /\ ~ Within(sum, o.role, x, y + 1)
        /\ o.role \in Roles
    BY <1>3, <2>2, <2>3, <2>4
  <2> HIDE DEF x, y
  <2>6. \E c \in cut : x < c /\ c <= y
    BY <1>2, <1>4, <1>6, <2>5, CutIsForced
  <2>. QED BY <2>6 DEF x, y
<1> DEFINE f == [j \in 1..(m - 1) |-> CHOOSE c \in cut : coarse[j - 1] < c /\ c <= coarse[j]]
<1>9. \A j \in 1..(m - 1) : f[j] \in cut /\ coarse[j - 1] < f[j] /\ f[j] <= coarse[j]
  BY <1>8
<1>10. f \in [1..(m - 1) -> cut] BY <1>9
<1> HIDE DEF f
<1>11. ASSUME NEW i \in 1..(m - 1), NEW j \in 1..(m - 1), i < j PROVE f[i] # f[j]
  <2>1. i \in 0..m /\ j - 1 \in i..m /\ i \in 1..m /\ j \in 1..m BY <1>5, <1>11
  <2>2. coarse[i] \in 0..n /\ coarse[j - 1] \in 0..n /\ coarse[i] <= coarse[j - 1]
    BY <1>1, <1>2, <2>1, EndsGrow DEF n
  <2>3. f[i] \in Nat /\ f[j] \in Nat
    <3>1. \A c \in cut : c \in Nat BY <1>6
    <3>. QED BY <1>9, <3>1
  <2>4. f[i] <= coarse[i] /\ coarse[j - 1] < f[j] BY <1>9
  <2> DEFINE x == coarse[i]
             y == coarse[j - 1]
  <2>5. x \in 0..n /\ y \in 0..n /\ x <= y /\ f[i] <= x /\ y < f[j] BY <2>2, <2>4
  <2> HIDE DEF x, y
  <2>. QED BY <1>1, <2>3, <2>5
<1>12. ~ (Cardinality(cut) < m - 1)
  <2>1. SUFFICES ASSUME Cardinality(cut) < m - 1 PROVE FALSE
    OBVIOUS
  <2>2. IsFiniteSet(1..(m - 1)) /\ Cardinality(1..(m - 1)) = m - 1
    <3>1. 1 \in Int /\ m - 1 \in Int /\ m - 1 >= 1 BY <1>5, <1>7, <2>1
    <3>2. /\ IsFiniteSet(1..(m - 1))
          /\ Cardinality(1..(m - 1)) = IF 1 > m - 1 THEN 0 ELSE (m - 1) - 1 + 1
      BY <3>1, FS_Interval
    <3>. QED BY <3>1, <3>2
  <2>3. PICK i, j \in 1..(m - 1) : i # j /\ f[i] = f[j]
    <3> DEFINE Boundaries == 1..(m - 1)
    <3>1. /\ IsFiniteSet(Boundaries) /\ Cardinality(cut) < Cardinality(Boundaries)
          /\ f \in [Boundaries -> cut]
      BY <1>10, <2>1, <2>2
    <3> HIDE DEF Boundaries
    <3>2. \E i, j \in Boundaries : i # j /\ f[i] = f[j]
      BY <1>7, <3>1, FS_PigeonHole
    <3>. QED BY <3>2 DEF Boundaries
  <2>4. i < j \/ j < i BY <2>3
  <2>. QED BY <1>11, <2>3, <2>4
<1>13. m <= 1 + Cardinality(cut) BY <1>5, <1>7, <1>12
<1> QED BY <1>5, <1>7, <1>13

(* Work within the limits of its role is one group. *)
LEMMA OneGroup ==
    ASSUME NEW targets \in Requests, targets # <<>>, InStableOrder(targets),
           NEW role \in Roles, Len(targets) <= TargetLimit[role],
           CostOf(targets) <= roleComplexityLimit(role)
    PROVE  /\ \A i \in DOMAIN targets : targetCost(targets[i]) <= roleComplexityLimit(role)
           /\ makeTargetPartitions(targets, role) \in Seq(Seq(TargetRecords))
           /\ Len(makeTargetPartitions(targets, role)) = 1
           /\ \E ends : Cuts(makeTargetPartitions(targets, role), ends, targets)
<1> DEFINE n == Len(targets)
           greedy == makeTargetPartitions(targets, role)
           limit == roleComplexityLimit(role)
<1>1. /\ targets \in Seq(TargetRecords) /\ n \in Nat \ {0} /\ DOMAIN targets = 1..n
      /\ stableTargetOrder(targets) = targets
  <2>1. targets \in Seq(TargetRecords) BY DEF Requests
  <2>2. n # 0 BY <2>1, EmptySeq
  <2>. QED BY <2>1, <2>2, SortedIsStable
<1>2. PICK sum : SumsOf(sum, targets) /\ CostOf(targets) = sum[n] BY <1>1, CostIsASum
<1>3. /\ \A i \in 0..n : sum[i] \in Nat
      /\ sum[0] = 0 /\ \A i \in 1..n : sum[i] = sum[i - 1] + targetCost(targets[i])
  BY <1>2 DEF SumsOf
<1>4. limit \in Nat /\ TargetLimit[role] \in Nat /\ sum[n] <= limit /\ n <= TargetLimit[role]
  BY <1>2, LimitsTyped
<1>5. ASSUME NEW i \in 1..n PROVE targetCost(targets[i]) <= limit
  <2>1. i \in 0..n /\ i - 1 \in 0..n /\ n \in i..n BY <1>1
  <2>2. sum[i] <= sum[n] BY <1>1, <1>2, <2>1, SumsGrow
  <2>3. sum[i] \in Nat /\ sum[i - 1] \in Nat /\ sum[n] \in Nat BY <1>1, <1>3, <2>1
  <2>4. sum[i] = sum[i - 1] + targetCost(targets[i]) BY <1>3
  <2>5. targetCost(targets[i]) \in Nat BY <1>1, ElementOfSeq, CostTyped
  <2> DEFINE x == sum[i - 1]
             y == sum[i]
             z == sum[n]
             c == targetCost(targets[i])
  <2>6. /\ x \in Nat /\ y \in Nat /\ z \in Nat /\ c \in Nat
        /\ y = x + c /\ y <= z /\ z <= limit
    BY <1>4, <2>2, <2>3, <2>4, <2>5
  <2> HIDE DEF x, y, z, c, limit
  <2>7. c <= limit BY <1>4, <2>6
  <2>. QED BY <2>7 DEF c
<1>6. \A i \in DOMAIN targets : targetCost(targets[i]) <= roleComplexityLimit(role)
  BY <1>1, <1>5
<1>7. /\ greedy \in Seq(Seq(TargetRecords))
      /\ \E ends :
            /\ Cuts(greedy, ends, targets)
            /\ \A j \in 1..Len(greedy) :
                  j < Len(greedy) => ~ Within(sum, role, ends[j - 1], ends[j] + 1)
  <2>1. /\ greedy \in Seq(Seq(TargetRecords))
        /\ \E ends :
              /\ Cuts(greedy, ends, stableTargetOrder(targets))
              /\ \A j \in 1..Len(greedy) :
                    /\ Within(sum, role, ends[j - 1], ends[j])
                    /\ j < Len(greedy) => ~ Within(sum, role, ends[j - 1], ends[j] + 1)
    <3>1. SumsOf(sum, stableTargetOrder(targets)) BY <1>1, <1>2
    <3>. QED BY <1>6, <3>1, GreedyGroups
  <2>. QED BY <1>1, <2>1, Zenon
<1> HIDE DEF n, greedy, limit
<1>8. PICK ends :
         /\ Cuts(greedy, ends, targets)
         /\ \A j \in 1..Len(greedy) :
               j < Len(greedy) => ~ Within(sum, role, ends[j - 1], ends[j] + 1)
  BY <1>7
<1>9. Len(greedy) \in Nat BY <1>7
<1>10. ends[0] = 0 /\ ends[Len(greedy)] = n BY <1>8 DEF Cuts, n
<1>11. Len(greedy) # 0 BY <1>1, <1>10
<1>12. Within(sum, role, 0, n) BY <1>1, <1>3, <1>4 DEF Within, limit
<1>13. ASSUME Len(greedy) > 1 PROVE FALSE
  <2> DEFINE j == 1
             i == 2
  <2>1. j \in 1..Len(greedy) /\ j < Len(greedy) /\ i \in 1..Len(greedy) BY <1>9, <1>13
  <2>2. ends[1] \in 0..n /\ ends[1] < ends[2] /\ ends[2] \in 0..n
    <3>1. /\ ends[i - 1] \in 0..Len(targets) /\ ends[i] \in 0..Len(targets)
          /\ ends[i - 1] < ends[i]
      <4> HIDE DEF i
      <4>. QED BY <1>1, <1>7, <1>8, <2>1, CutFacts
    <3>. QED BY <3>1 DEF n
  <2>3. ~ Within(sum, role, 0, ends[1] + 1) BY <1>8, <1>10, <2>1
  <2> DEFINE x == ends[1] + 1
  <2>4. x \in 0..n /\ 0 <= x /\ x <= n /\ 0 \in 0..n /\ n \in 0..n BY <1>1, <2>2
  <2> HIDE DEF x
  <2>5. Within(sum, role, 0, x)
    <3>1. n = Len(targets) /\ 0 <= 0 BY DEF n
    <3>. QED BY <1>1, <1>2, <1>12, <2>4, <3>1, WithinPart
  <2>. QED BY <2>3, <2>5 DEF x
<1>14. Len(greedy) = 1
  <2> DEFINE m == Len(greedy)
  <2>1. m \in Nat /\ m # 0 /\ ~ (m > 1) BY <1>9, <1>11, <1>13
  <2> HIDE DEF m
  <2>2. m = 1 BY <2>1
  <2>. QED BY <2>2 DEF m
<1> QED BY <1>6, <1>7, <1>8, <1>14 DEF greedy

(* A packet the planner has made is planned, whoever owns the review. *)
LEMMA CanonicalPlan ==
    ASSUME NEW k \in PacketRecords, NEW targets \in Requests, NEW evidence, ~ evidence,
           k.targets # <<>>, Len(k.targets) = Len(targets), InStableOrder(targets),
           Len(targets) <= TargetLimit[k.role],
           CostOf(targets) <= roleComplexityLimit(k.role),
           k.questions <= 3, k.lossless, Len(targets) <= RenderedRoom(k),
           bound \/ (k.finite /\ Len(targets) <= OriginalRoom(k))
    PROVE  \/ deterministicTaskPlan(k, targets, evidence).status = "READY"
           \/ deterministicTaskPlan(k, targets, evidence) =
                 [status |-> "ELIDED", reason |-> "central-owned-semantic-review"]
<1> DEFINE plan == planChildWork(k, targets, evidence)
           full == deterministicTaskPlan(k, targets, evidence)
           greedy == makeTargetPartitions(targets, k.role)
           fitted == fitPromptPartitions(greedy, RenderedRoom(k), Len(targets))
           split == fitPromptPartitions(plan.groups, OriginalRoom(k), Len(k.targets))
           n == Len(targets)
           central_owned == [status |-> "ELIDED", reason |-> "central-owned-semantic-review"]
<1>1. /\ k.targets \in Seq(Paths) /\ targets \in Seq(TargetRecords) /\ k.role \in Roles
      /\ RenderedRoom(k) \in Int /\ OriginalRoom(k) \in Int
      /\ n \in Nat /\ DOMAIN targets = 1..n
      /\ k.questions \in Nat
  BY RoomsTyped DEF Requests, PacketRecords
<1>2. targets # <<>>
  <2>1. Len(k.targets) # 0 BY <1>1, EmptySeq
  <2>. QED BY <2>1
<1>3. /\ \A i \in DOMAIN targets : targetCost(targets[i]) <= roleComplexityLimit(k.role)
      /\ greedy \in Seq(Seq(TargetRecords)) /\ Len(greedy) = 1
      /\ \E ends : Cuts(greedy, ends, targets)
  BY <1>1, <1>2, OneGroup
<1> HIDE DEF greedy, central_owned, fitted, plan, full, split
<1>4. PICK ends : Cuts(greedy, ends, targets) BY <1>3
<1>5. \A j \in 1..Len(greedy) : Len(greedy[j]) <= n
  BY <1>1, <1>3, <1>4, GroupsAreShort
<1>6. \A j \in 1..Len(greedy) : Len(greedy[j]) \in Nat BY <1>3, ElementOfSeq
<1>7. fitted = greedy
  <2>1. \A j \in 1..Len(greedy) : Len(greedy[j]) <= RenderedRoom(k)
    <3>1. n <= RenderedRoom(k) OBVIOUS
    <3> HIDE DEF n
    <3>. QED BY <1>1, <1>5, <1>6, <3>1
  <2>2. fitPromptPartitions(greedy, RenderedRoom(k), n) = greedy
    BY <1>1, <1>3, <1>4, <2>1, FitShort
  <2>. QED BY <2>2 DEF fitted
<1>8. Fits(fitted, RenderedRoom(k))
  <2>1. DOMAIN greedy = 1..Len(greedy) BY <1>3
  <2>2. n <= RenderedRoom(k) OBVIOUS
  <2> HIDE DEF n
  <2>. QED BY <1>1, <1>5, <1>6, <1>7, <2>1, <2>2 DEF Fits
<1>9. full = preservePlannerPartitionContext(k, plan)
  <2>1. ~ (~ bound /\ ~ k.finite) OBVIOUS
  <2>. QED BY <2>1, Zenon DEF deterministicTaskPlan, full, plan
<1>10. CASE k.role = "fresh-review" /\ central
  <2>1. plan = central_owned BY <1>10, Zenon DEF planChildWork, plan, central_owned
  <2>2. plan.status \notin {"READY", "PARTITION_REQUIRED"}
    BY <2>1 DEF central_owned
  <2>3. full = plan BY <1>9, <2>2, Zenon DEF preservePlannerPartitionContext
  <2>. QED BY <2>1, <2>3 DEF full, central_owned
<1>11. CASE ~ (k.role = "fresh-review" /\ central)
  <2>1. plan = Partitioned(fitted)
    <3>1. \A i \in DOMAIN targets : ~ (targetCost(targets[i]) > roleComplexityLimit(k.role))
      <4> SUFFICES ASSUME NEW i \in DOMAIN targets
                   PROVE  ~ (targetCost(targets[i]) > roleComplexityLimit(k.role))
        OBVIOUS
      <4>1. targetCost(targets[i]) \in Nat BY <1>1, ElementOfSeq, CostTyped
      <4>2. roleComplexityLimit(k.role) \in Nat BY <1>1, LimitsTyped
      <4>3. targetCost(targets[i]) <= roleComplexityLimit(k.role) BY <1>3
      <4>. QED BY <4>1, <4>2, <4>3
    <3>2. ~ (k.questions > 3) BY <1>1
    <3>3. plan = IF \/ k.questions > 3
                    \/ \E i \in DOMAIN targets :
                          targetCost(targets[i]) > roleComplexityLimit(k.role)
                    \/ ~ Fits(fitted, RenderedRoom(k))
                 THEN Unrepresentable
                 ELSE Partitioned(fitted)
      BY <1>11, Zenon DEF planChildWork, plan, fitted, greedy
    <3>. QED BY <1>8, <3>1, <3>2, <3>3, Zenon
  <2>2. plan.status = "READY" /\ plan.groups = PathGroups(greedy)
    <3>1. /\ Partitioned(fitted).status =
                IF Len(fitted) <= 1 THEN "READY" ELSE "PARTITION_REQUIRED"
          /\ Partitioned(fitted).groups = PathGroups(fitted)
      BY StatusOfPartitioned
    <3>2. Len(fitted) <= 1
      <4>1. Len(fitted) = 1 BY <1>3, <1>7, Zenon
      <4>. QED BY <4>1
    <3>. QED BY <1>7, <2>1, <3>1, <3>2, Zenon
  <2>3. CASE bound
    <3>1. full = plan
      <4>1. plan.status \in {"READY", "PARTITION_REQUIRED"} BY <2>2
      <4>2. ~ (plan.status \notin {"READY", "PARTITION_REQUIRED"} \/ k.targets = <<>>)
        BY <4>1
      <4>. QED BY <1>9, <2>2, <2>3, <4>2, Zenon DEF preservePlannerPartitionContext
    <3>. QED BY <2>2, <3>1 DEF full
  <2>4. CASE ~ bound
    <3> DEFINE groups == plan.groups
               paths == PathsOf(targets)
    <3>1. /\ groups \in Seq(Seq(Paths)) /\ Len(groups) = 1 /\ Cuts(groups, ends, paths)
          /\ \A j \in 1..Len(greedy) : Len(groups[j]) = Len(greedy[j])
      BY <1>1, <1>3, <1>4, <2>2, PathsOfCut, ZenonT(60)
    <3>2. paths \in Seq(Paths) BY <1>1, PathsOfTargets
    <3>3. split = fitPromptPartitions(groups, OriginalRoom(k), n) BY DEF split
    <3>4. n <= OriginalRoom(k) BY <2>4
    <3> HIDE DEF groups, paths, n
    <3>5. \A j \in 1..Len(groups) : Len(groups[j]) <= OriginalRoom(k)
      <4>1. \A j \in 1..Len(groups) : Len(groups[j]) <= n /\ Len(groups[j]) \in Nat
        BY <1>3, <1>5, <1>6, <3>1
      <4>. QED BY <1>1, <3>4, <4>1
    <3>6. split = groups BY <1>1, <3>1, <3>2, <3>3, <3>5, FitShort
    <3>7. Fits(split, OriginalRoom(k))
      <4>1. DOMAIN groups = 1..Len(groups) BY <3>1
      <4>. QED BY <3>5, <3>6, <4>1 DEF Fits
    <3>8. full = [status |-> IF Len(split) <= 1 THEN "READY" ELSE "PARTITION_REQUIRED",
                  groups |-> split]
      <4>1. plan.status \in {"READY", "PARTITION_REQUIRED"} BY <2>2
      <4>2. ~ (plan.status \notin {"READY", "PARTITION_REQUIRED"} \/ k.targets = <<>>)
        BY <4>1
      <4>. QED BY <1>9, <2>4, <3>7, <4>2, Zenon DEF preservePlannerPartitionContext, split
    <3>9. Len(split) <= 1
      <4>1. Len(split) = 1 BY <3>1, <3>6, Zenon
      <4>. QED BY <4>1
    <3>10. full.status = IF Len(split) <= 1 THEN "READY" ELSE "PARTITION_REQUIRED"
      BY <3>8
    <3>11. full.status = "READY" BY <3>9, <3>10, Zenon
    <3>. QED BY <3>11 DEF full
  <2>. QED BY <2>3, <2>4
<1> QED BY <1>10, <1>11

-----------------------------------------------------------------------------
(***************************************************************************)
(* The inductive invariant.                                                *)
(***************************************************************************)
Ids == [role : Roles, generation : Nat, packets : SUBSET PacketRecords]

PlanningCalls ==
    [phase : {"measuring", "planned"}, packet : PacketRecords, member : SUBSET Ids,
     targets : Seq(TargetRecords)]

RunningCalls ==
    [phase : {"running"}, packet : PacketRecords, member : SUBSET Ids, generation : Nat]

Obligations ==
    [role : Roles, generation : Nat, packets : SUBSET PacketRecords,
     completed : SUBSET PacketRecords, targets : Requests]

(* The targets measured so far are the first ones of the packet. *)
MeasuresItsPacket(call) ==
    /\ Len(call.targets) <= Len(call.packet.targets)
    /\ \A i \in 1..Len(call.targets) : call.targets[i].path = call.packet.targets[i]

(* A call and its child know an obligation by their own packet. *)
KnowsItsObligations(call) == \A id \in call.member : call.packet \in id.packets

GoodCall(call) ==
    \/ call = Idle
    \/ call \in PlanningCalls /\ KnowsItsObligations(call) /\ MeasuresItsPacket(call)
    \/ call \in RunningCalls /\ KnowsItsObligations(call)

PlannerTypeOK ==
    /\ work \subseteq PacketRecords
    /\ bound \in BOOLEAN
    /\ disk \in [Paths -> Measures]
    /\ generation \in Nat
    /\ reviewed \in [GatedRoles -> SUBSET Paths]
    /\ obligations \subseteq Obligations
    /\ calls = [c \in Calls |-> calls[c]]

(* A packet the planner made: it would be planned again as it was measured. *)
Canonical(o, p) ==
    /\ p \in PacketRecords /\ p.role = o.role
    /\ p.targets # <<>> /\ InStableOrder(AsTargets(p.targets))
    /\ ToSet(p.targets) \subseteq RequestedPaths(o)
    /\ Affordable(o, p.targets)
    /\ p.questions <= 3 /\ p.lossless
    /\ Len(p.targets) <= RenderedRoom(p)
    /\ bound \/ (p.finite /\ Len(p.targets) <= OriginalRoom(p))
    /\ ~ (bound /\ p.role = "verify" /\ p.receipt)

(* The packets of an obligation are its request, and what it counts as *)
(* completed has been reviewed in this generation.                     *)
Stands(o) ==
    /\ UNION {ToSet(p.targets) : p \in o.packets} = RequestedPaths(o)
    /\ \A p \in o.packets : Canonical(o, p)
    /\ o.completed \subseteq o.packets
    /\ o.role \in GatedRoles =>
          \A p \in o.completed : ToSet(p.targets) \subseteq reviewed[o.role]

(* Unless a call of the role was overtaken, the requests that are outstanding *)
(* are reviewed already, or lie all within one of them.                       *)
GateStands(role) ==
    \/ role \in overtaken
    \/ \A o \in Outstanding(role) : RequestedPaths(o) \subseteq reviewed[role]
    \/ \E root \in Outstanding(role) : \A o \in Outstanding(role) :
          RequestedPaths(o) \subseteq RequestedPaths(root)

PlannerInvariant ==
    /\ PlannerTypeOK
    /\ \A c \in Calls : GoodCall(calls[c])
    /\ \A o \in obligations : Stands(o)
    /\ \A role \in GatedRoles : GateStands(role)

(* What kind of call it is shows in its phase. *)
LEMMA CallOfPhase ==
    ASSUME NEW call, GoodCall(call)
    PROVE  /\ call.phase \in {"measuring", "planned"} =>
                 /\ call \in PlanningCalls /\ KnowsItsObligations(call)
                 /\ MeasuresItsPacket(call)
           /\ call.phase = "running" => call \in RunningCalls /\ KnowsItsObligations(call)
<1>1. Idle.phase = "idle" BY DEF Idle
<1>2. call \in PlanningCalls => call.phase \in {"measuring", "planned"} BY DEF PlanningCalls
<1>3. call \in RunningCalls => call.phase = "running" BY DEF RunningCalls
<1> QED BY <1>1, <1>2, <1>3 DEF GoodCall

(* The call has measured its packet: a request, with its paths. *)
LEMMA CallRequest ==
    ASSUME NEW call, GoodCall(call), AllMeasured(call)
    PROVE  /\ call \in PlanningCalls /\ call.packet \in PacketRecords /\ call.member \subseteq Ids
           /\ call.targets \in Requests
           /\ Len(call.packet.targets) = Len(call.targets)
           /\ PathsOf(call.targets) = call.packet.targets
<1>1. /\ call.phase = "measuring"
      /\ call \in PlanningCalls /\ MeasuresItsPacket(call)
  BY CallOfPhase DEF AllMeasured
<1>2. /\ call \in PlanningCalls /\ call.packet \in PacketRecords /\ call.member \subseteq Ids
      /\ call.targets \in Seq(TargetRecords)
  BY <1>1 DEF PlanningCalls
<1> DEFINE k == call.packet
           targets == call.targets
           n == Len(targets)
<1>3. /\ k.targets \in Seq(Paths) /\ Len(k.targets) = n /\ IsInjective(k.targets)
      /\ \A i \in 1..n : targets[i].path = k.targets[i]
  BY <1>1, <1>2 DEF PacketRecords, AllMeasured, MeasuresItsPacket
<1> HIDE DEF k, targets
<1>4. targets \in Seq(TargetRecords) /\ n \in Nat /\ DOMAIN targets = 1..n
      /\ DOMAIN k.targets = 1..n
  BY <1>2, <1>3 DEF targets
<1>5. PathsOf(targets) = k.targets
  <2>1. /\ PathsOf(targets) \in Seq(Paths) /\ Len(PathsOf(targets)) = n
        /\ \A i \in 1..n : PathsOf(targets)[i] = targets[i].path
    BY <1>4, PathsOfTargets
  <2>. QED BY <1>3, <2>1, SeqEqual
<1>6. Distinct(targets)
  BY <1>3, <1>4 DEF Distinct, IsInjective
<1>7. targets \in Requests BY <1>4, <1>6 DEF Requests
<1> QED BY <1>2, <1>3, <1>5, <1>7 DEF k, targets

(* A packet with other targets is the same in all else. *)
LEMMA PacketOfGroup ==
    ASSUME NEW k \in PacketRecords, NEW group \in Seq(Paths),
           NEW p, p = partitionPacketFromOriginalPrompt(k, group)
    PROVE  /\ p \in PacketRecords /\ p.targets = group
           /\ p = [k EXCEPT !.targets = p.targets]
           /\ p.role = k.role /\ p.questions = k.questions /\ p.lossless = k.lossless
           /\ p.fixed = k.fixed /\ p.context = k.context
           /\ p.finite = k.finite /\ p.receipt = k.receipt
           /\ RenderedRoom(p) = RenderedRoom(k) /\ OriginalRoom(p) = OriginalRoom(k)
<1>1. p = [k EXCEPT !.targets = group] BY DEF partitionPacketFromOriginalPrompt
<1>2. /\ p \in PacketRecords /\ p.targets = group
      /\ p.role = k.role /\ p.questions = k.questions /\ p.lossless = k.lossless
      /\ p.fixed = k.fixed /\ p.context = k.context
      /\ p.finite = k.finite /\ p.receipt = k.receipt
  BY <1>1 DEF PacketRecords
<1>3. RenderedRoom(p) = RenderedRoom(k) /\ OriginalRoom(p) = OriginalRoom(k)
  BY <1>2, Zenon DEF RenderedRoom, OriginalRoom
<1> QED BY <1>1, <1>2, <1>3

(* What a call that has to be partitioned registers. *)
LEMMA NewObligation ==
    ASSUME NEW call, GoodCall(call),
           AllMeasured(call), Answer(call).status = "PARTITION_REQUIRED",
           NEW o, o.role = call.packet.role, o.targets = call.targets,
           o.packets = CanonicalPackets(call.packet, Answer(call).groups)
    PROVE  /\ o.packets \subseteq PacketRecords
           /\ UNION {ToSet(p.targets) : p \in o.packets} = RequestedPaths(o)
           /\ RequestedPaths(o) = ToSet(call.packet.targets)
           /\ \A p \in o.packets : /\ Canonical(o, p)
                                   /\ p = [call.packet EXCEPT !.targets = p.targets]
                                   /\ bound \/ validateTaskPacket(p, TRUE)
           /\ \A p, q \in o.packets : p = q \/ Precedes(p, q) \/ Precedes(q, p)
           /\ \E groups, sum, greedy, coarse, ends :
                 /\ Partitions(call.packet, call.targets, groups, sum, greedy, coarse, ends)
                 /\ groups \in Seq(Seq(Paths))
                 /\ o.packets = CanonicalPackets(call.packet, groups)
<1> DEFINE k == call.packet
           targets == call.targets
           plan == deterministicTaskPlan(k, targets, EvidenceAnswers(k))
           groups == plan.groups
           m == Len(groups)
<1>1. /\ k \in PacketRecords /\ targets \in Requests /\ Len(k.targets) = Len(targets)
      /\ PathsOf(targets) = k.targets
  BY CallRequest
<1>2. Answer(call) = plan BY DEF Answer
<1>3. o.role = k.role /\ o.targets = targets
      /\ o.packets = {partitionPacketFromOriginalPrompt(k, groups[j]) : j \in DOMAIN groups}
  BY <1>2 DEF CanonicalPackets
<1>4. ~ EvidenceAnswers(k) => ~ (bound /\ k.role = "verify" /\ k.receipt)
  BY DEF EvidenceAnswers
<1>5. plan.status = "PARTITION_REQUIRED" BY <1>2
<1>6. o.packets = CanonicalPackets(k, groups) BY <1>2
<1> HIDE DEF k, targets
<1>7. /\ k.lossless /\ k.questions <= 3 /\ ~ EvidenceAnswers(k) /\ (bound \/ k.finite)
      /\ \E sum, greedy, coarse, ends :
            Partitions(k, targets, groups, sum, greedy, coarse, ends)
  BY <1>1, <1>5, PartitionPlan
<1> HIDE DEF plan
<1>8. PICK sum, greedy, coarse, ends :
         Partitions(k, targets, groups, sum, greedy, coarse, ends)
  BY <1>7
<1> HIDE DEF groups
<1>9. /\ groups \in Seq(Seq(Paths))
      /\ Cuts(groups, ends, PathsOf(stableTargetOrder(targets)))
      /\ \A j \in 1..m : /\ Len(groups[j]) <= RenderedRoom(k)
                         /\ bound \/ Len(groups[j]) <= OriginalRoom(k)
  BY <1>8, Zenon DEF Partitions
<1>10. m \in Nat /\ DOMAIN groups = 1..m /\ \A j \in 1..m : groups[j] \in Seq(Paths)
  BY <1>9, ElementOfSeq
<1> HIDE DEF m
<1>11. /\ UNION {ToSet(groups[j]) : j \in 1..m} = ToSet(PathsOf(targets))
       /\ \A j \in 1..m : groups[j] # <<>> /\ InStableOrder(AsTargets(groups[j]))
       /\ \A i, j \in 1..m : i < j =>
             \A a \in ToSet(AsTargets(groups[i])), b \in ToSet(AsTargets(groups[j])) :
                Before(a, b)
  BY <1>1, <1>9, PartsOfRequest DEF m
<1>12. \A j \in 1..m : Affordable(o, groups[j])
  BY <1>1, <1>3, <1>8, GroupsAreAffordable DEF m
<1>13. RequestedPaths(o) = ToSet(PathsOf(targets)) BY <1>3, Zenon DEF RequestedPaths
<1>14. \A p \in o.packets : \E j \in 1..m : p = partitionPacketFromOriginalPrompt(k, groups[j])
  BY <1>3, <1>10
<1>15. ASSUME NEW p \in o.packets, NEW j \in 1..m,
              p = partitionPacketFromOriginalPrompt(k, groups[j])
       PROVE  /\ p \in PacketRecords /\ p.targets = groups[j]
              /\ p = [k EXCEPT !.targets = p.targets]
              /\ p.role = k.role /\ p.questions = k.questions /\ p.lossless = k.lossless
              /\ p.fixed = k.fixed /\ p.context = k.context
              /\ p.finite = k.finite /\ p.receipt = k.receipt
              /\ RenderedRoom(p) = RenderedRoom(k) /\ OriginalRoom(p) = OriginalRoom(k)
  BY <1>1, <1>10, <1>15, PacketOfGroup
<1>16. UNION {ToSet(p.targets) : p \in o.packets} = RequestedPaths(o)
  <2>1. \A j \in 1..m : \E p \in o.packets : p.targets = groups[j]
    <3> SUFFICES ASSUME NEW j \in 1..m PROVE \E p \in o.packets : p.targets = groups[j]
      OBVIOUS
    <3>1. partitionPacketFromOriginalPrompt(k, groups[j]) \in o.packets BY <1>3, <1>10
    <3>. QED BY <1>15, <3>1
  <2>2. \A p \in o.packets : \E j \in 1..m : p.targets = groups[j] BY <1>14, <1>15
  <2>. QED BY <1>11, <1>13, <2>1, <2>2
<1>17. ASSUME NEW p \in o.packets
       PROVE  /\ p \in PacketRecords /\ Canonical(o, p)
              /\ p = [k EXCEPT !.targets = p.targets]
              /\ bound \/ validateTaskPacket(p, TRUE)
  <2>1. PICK j \in 1..m : p = partitionPacketFromOriginalPrompt(k, groups[j]) BY <1>14
  <2>2. /\ p \in PacketRecords /\ p.targets = groups[j]
        /\ p = [k EXCEPT !.targets = p.targets]
        /\ p.role = k.role /\ p.questions = k.questions /\ p.lossless = k.lossless
        /\ p.fixed = k.fixed /\ p.context = k.context
        /\ p.finite = k.finite /\ p.receipt = k.receipt
        /\ RenderedRoom(p) = RenderedRoom(k) /\ OriginalRoom(p) = OriginalRoom(k)
    BY <1>15, <2>1
  <2>3. ToSet(p.targets) \subseteq RequestedPaths(o) BY <1>16
  <2>4. /\ p.targets # <<>> /\ InStableOrder(AsTargets(p.targets))
        /\ Affordable(o, p.targets)
        /\ Len(p.targets) <= RenderedRoom(p)
        /\ bound \/ Len(p.targets) <= OriginalRoom(p)
    BY <1>9, <1>11, <1>12, <2>2
  <2>5. Canonical(o, p)
    BY <1>3, <1>4, <1>7, <2>2, <2>3, <2>4 DEF Canonical
  <2>6. bound \/ validateTaskPacket(p, TRUE)
    <3> SUFFICES ASSUME ~ bound PROVE validateTaskPacket(p, TRUE)
      OBVIOUS
    <3>1. Len(p.targets) <= TargetLimit[p.role]
      BY <1>3, <2>2, <2>4, Zenon DEF Affordable
    <3>2. p.fixed + p.context + Len(p.targets) <= PromptLimit[p.role]
      <4> DEFINE limit == PromptLimit[p.role]
                 n == Len(p.targets)
                 x == p.fixed
                 y == p.context
      <4>1. /\ p.role \in Roles /\ x \in Int /\ y \in Int /\ n \in Nat
        BY <2>2 DEF PacketRecords
      <4>2. limit \in Int BY <4>1, PlannerAssumption
      <4>3. n <= limit - x - y BY <2>4 DEF OriginalRoom
      <4> HIDE DEF limit, n, x, y
      <4>4. x + y + n <= limit BY <4>1, <4>2, <4>3
      <4>. QED BY <4>4 DEF limit, n, x, y
    <3>. QED BY <1>7, <2>2, <3>1, <3>2, Zenon DEF validateTaskPacket
  <2>. QED BY <2>2, <2>5, <2>6
<1>18. ASSUME NEW p \in o.packets, NEW q \in o.packets
       PROVE  p = q \/ Precedes(p, q) \/ Precedes(q, p)
  <2>1. PICK i \in 1..m : p = partitionPacketFromOriginalPrompt(k, groups[i]) BY <1>14
  <2>2. PICK j \in 1..m : q = partitionPacketFromOriginalPrompt(k, groups[j]) BY <1>14
  <2>3. p.targets = groups[i] /\ q.targets = groups[j] BY <1>15, <2>1, <2>2
  <2>4. CASE i = j BY <2>1, <2>2, <2>4
  <2>5. CASE i < j BY <1>11, <2>3, <2>5 DEF Precedes
  <2>6. CASE j < i BY <1>11, <2>3, <2>6 DEF Precedes
  <2>. QED BY <2>4, <2>5, <2>6
<1>19. RequestedPaths(o) = ToSet(k.targets) BY <1>1, <1>13
<1> QED BY <1>6, <1>8, <1>9, <1>16, <1>17, <1>18, <1>19 DEF k, targets

-----------------------------------------------------------------------------
(***************************************************************************)
(* The invariant: the initial states, then one lemma for each action.      *)
(***************************************************************************)
LEMMA InitialInvariant == Init => PlannerInvariant
<1> SUFFICES ASSUME Init PROVE PlannerInvariant
  OBVIOUS
<1>1. PlannerTypeOK
  <2>1. generation \in Nat
    <3>1. IsFiniteSet({}) /\ Cardinality({}) = 0 BY FS_EmptySet
    <3>2. Cardinality(Paths) \in Nat BY PlannerAssumption, FS_CardinalityType
    <3>3. edited = {} \/ edited = Paths BY DEF Init
    <3>. QED BY <3>1, <3>2, <3>3 DEF Init
  <2>2. disk \in [Paths -> Measures] /\ work \subseteq PacketRecords
    BY PlannerAssumption DEF Init
  <2>. QED BY <2>1, <2>2 DEF Init, PlannerTypeOK
<1>2. obligations = {} /\ \A c \in Calls : calls[c] = Idle BY DEF Init
<1>3. \A role \in GatedRoles : GateStands(role) BY <1>2 DEF GateStands, Outstanding
<1> QED BY <1>1, <1>2, <1>3 DEF PlannerInvariant, GoodCall

(* What stands goes on standing while nothing is taken from the reviewed. *)
LEMMA GoesOnStanding ==
    ASSUME NEW o, Stands(o), bound' = bound,
           \A role \in GatedRoles : reviewed[role] \subseteq reviewed'[role]
    PROVE  Stands(o)'
<1>1. \A p \in o.packets : Canonical(o, p)'
  <2> SUFFICES ASSUME NEW p \in o.packets PROVE Canonical(o, p)'
    OBVIOUS
  <2>1. Canonical(o, p) BY DEF Stands
  <2>. QED BY <2>1 DEF Canonical
<1>2. o.role \in GatedRoles =>
         \A p \in o.completed : ToSet(p.targets) \subseteq reviewed'[o.role]
  <2> SUFFICES ASSUME o.role \in GatedRoles, NEW p \in o.completed
               PROVE  ToSet(p.targets) \subseteq reviewed'[o.role]
    OBVIOUS
  <2>1. ToSet(p.targets) \subseteq reviewed[o.role] BY DEF Stands
  <2>. QED BY <2>1
<1> QED BY <1>1, <1>2 DEF Stands

(* A step that leaves the obligations. *)
LEMMA QuietStep ==
    ASSUME PlannerInvariant, bound' = bound, obligations' = obligations,
           overtaken' = overtaken,
           \A role \in GatedRoles : reviewed[role] \subseteq reviewed'[role]
    PROVE  /\ \A o \in obligations' : Stands(o)'
           /\ \A role \in GatedRoles : GateStands(role)'
<1>1. \A o \in obligations' : Stands(o)'
  BY GoesOnStanding DEF PlannerInvariant
<1>2. ASSUME NEW role \in GatedRoles PROVE GateStands(role)'
  <2>1. Outstanding(role)' = Outstanding(role) BY DEF Outstanding
  <2>2. GateStands(role) /\ reviewed[role] \subseteq reviewed'[role]
    BY DEF PlannerInvariant
  <2>3. \A o \in Outstanding(role) :
           RequestedPaths(o) \subseteq reviewed[role] => RequestedPaths(o) \subseteq reviewed'[role]
    BY <2>2
  <2>. QED BY <2>1, <2>2, <2>3 DEF GateStands
<1> QED BY <1>1, <1>2

(* The calls after a step of one of them. *)
LEMMA CallsAfterStep ==
    ASSUME PlannerInvariant, NEW c \in Calls, NEW call, GoodCall(call), Becomes(c, call)
    PROVE  /\ calls' = [d \in Calls |-> calls'[d]]
           /\ \A d \in Calls : GoodCall(calls'[d])
<1>1. calls' = [calls EXCEPT ![c] = call] BY DEF Becomes
<1>2. calls = [d \in Calls |-> calls[d]] BY DEF PlannerInvariant, PlannerTypeOK
<1>3. \A d \in Calls : calls'[d] = IF d = c THEN call ELSE calls[d] BY <1>1, <1>2
<1>4. DOMAIN calls' = Calls BY <1>1, <1>2
<1>5. calls' = [d \in Calls |-> calls'[d]] BY <1>1, <1>2, <1>4
<1> QED BY <1>3, <1>5 DEF PlannerInvariant

(* A step of a call that leaves obligations and reviews alone. *)
LEMMA CallStep ==
    ASSUME PlannerInvariant, NEW c \in Calls, NEW call, GoodCall(call), Becomes(c, call),
           UNCHANGED <<around, obligations, reviewed, overtaken>>
    PROVE  PlannerInvariant'
<1>1. UNCHANGED <<work, bound, disk, generation, obligations, reviewed, overtaken>>
  BY DEF around
<1>2. /\ calls' = [d \in Calls |-> calls'[d]]
      /\ \A d \in Calls : GoodCall(calls'[d])
  BY CallsAfterStep
<1>3. PlannerTypeOK' BY <1>1, <1>2 DEF PlannerInvariant, PlannerTypeOK
<1>4. /\ \A o \in obligations' : Stands(o)'
      /\ \A role \in GatedRoles : GateStands(role)'
  BY <1>1, QuietStep
<1> QED BY <1>2, <1>3, <1>4 DEF PlannerInvariant, GoodCall

(* An answered or refused call. *)
LEMMA CallEnds ==
    ASSUME PlannerInvariant, NEW c \in Calls, Becomes(c, Idle),
           UNCHANGED <<around, obligations, reviewed, overtaken>>
    PROVE  PlannerInvariant'
<1>1. GoodCall(Idle) BY DEF GoodCall
<1> QED BY <1>1, CallStep

LEMMA EditStep ==
    ASSUME PlannerInvariant, NEW path \in Paths, NEW size \in Sizes, Edit(path, size)
    PROVE  PlannerInvariant'
<1>1. /\ obligations' = {} /\ calls' = calls /\ work' = work /\ bound' = bound
      /\ disk' = [disk EXCEPT ![path] = size] /\ generation' = generation + 1
      /\ reviewed' = [role \in GatedRoles |-> {}]
  BY DEF Edit
<1>2. PlannerTypeOK'
  <2>1. size \in Measures BY PlannerAssumption
  <2>. QED BY <1>1, <2>1 DEF PlannerInvariant, PlannerTypeOK
<1>3. (\A role \in GatedRoles : GateStands(role))'
  BY <1>1 DEF GateStands, Outstanding
<1> QED BY <1>1, <1>2, <1>3 DEF PlannerInvariant, GoodCall

LEMMA RemeasureStep ==
    ASSUME PlannerInvariant, NEW path \in Paths, NEW size \in Sizes, Remeasure(path, size)
    PROVE  PlannerInvariant'
<1>1. /\ disk' = [disk EXCEPT ![path] = size]
      /\ UNCHANGED <<work, bound, generation, obligations, calls, reviewed, overtaken>>
  BY DEF Remeasure
<1>2. PlannerTypeOK'
  <2>1. size \in Measures BY PlannerAssumption
  <2>. QED BY <1>1, <2>1 DEF PlannerInvariant, PlannerTypeOK
<1>3. /\ \A o \in obligations' : Stands(o)'
      /\ \A role \in GatedRoles : GateStands(role)'
  BY <1>1, QuietStep
<1> QED BY <1>1, <1>2, <1>3 DEF PlannerInvariant, GoodCall

LEMMA DeclareReviewAuthorityStep ==
    ASSUME PlannerInvariant, DeclareReviewAuthority
    PROVE  PlannerInvariant'
<1>1. UNCHANGED <<work, bound, disk, generation, obligations, calls, reviewed, overtaken>>
  BY DEF DeclareReviewAuthority
<1>2. PlannerTypeOK' BY <1>1 DEF PlannerInvariant, PlannerTypeOK
<1>3. /\ \A o \in obligations' : Stands(o)'
      /\ \A role \in GatedRoles : GateStands(role)'
  BY <1>1, QuietStep
<1> QED BY <1>1, <1>2, <1>3 DEF PlannerInvariant, GoodCall

LEMMA TaskBeginStep ==
    ASSUME PlannerInvariant, NEW c \in Calls,
           NEW k \in work \cup UNION {o.packets : o \in obligations}, TaskBegin(c, k)
    PROVE  PlannerInvariant'
<1> DEFINE phase == IF Plannable(k) THEN "measuring" ELSE "planned"
           member == {IdOf(o) : o \in Membership(k)}
           call == [phase |-> phase, packet |-> k, member |-> member, targets |-> <<>>]
<1>1. /\ UNCHANGED <<around, obligations, reviewed, overtaken>>
      /\ Becomes(c, call)
  BY DEF TaskBegin
<1>2. k \in PacketRecords
  BY DEF PlannerInvariant, PlannerTypeOK, Obligations
<1>3. \A o \in Membership(k) : IdOf(o) \in Ids /\ k \in IdOf(o).packets
  BY DEF Membership, PlannerInvariant, PlannerTypeOK, Obligations, IdOf, Ids
<1>4. member \in SUBSET Ids /\ \A id \in member : k \in id.packets BY <1>3
<1>5. phase \in {"measuring", "planned"} OBVIOUS
<1>6. <<>> \in Seq(TargetRecords) BY EmptySeq
<1> HIDE DEF phase, member
<1>7. /\ call \in PlanningCalls /\ call.packet = k /\ call.member = member
      /\ call.targets = <<>>
  BY <1>2, <1>4, <1>5, <1>6 DEF PlanningCalls
<1> HIDE DEF call
<1>8. MeasuresItsPacket(call)
  <2>1. Len(call.targets) = 0 BY <1>7
  <2>2. Len(call.packet.targets) \in Nat BY <1>2, <1>7 DEF PacketRecords
  <2>. QED BY <2>1, <2>2 DEF MeasuresItsPacket
<1>9. GoodCall(call) BY <1>4, <1>7, <1>8 DEF GoodCall, KnowsItsObligations
<1> QED BY <1>1, <1>9, CallStep

LEMMA MeasureTargetStep ==
    ASSUME PlannerInvariant, NEW c \in Calls, MeasureTarget(c)
    PROVE  PlannerInvariant'
<1> DEFINE call == calls[c]
           k == call.packet
           n == Len(call.targets)
           path == k.targets[n + 1]
           more == Append(call.targets, Measured(path))
           next == [call EXCEPT !.targets = more]
<1>1. /\ call.phase = "measuring" /\ n < Len(k.targets)
      /\ Becomes(c, next)
      /\ UNCHANGED <<around, obligations, reviewed, overtaken>>
  BY DEF MeasureTarget
<1>2. call \in PlanningCalls /\ KnowsItsObligations(call) /\ MeasuresItsPacket(call)
  BY <1>1, CallOfPhase DEF PlannerInvariant
<1> HIDE DEF call
<1>3. /\ k \in PacketRecords /\ k.targets \in Seq(Paths)
      /\ call.targets \in Seq(TargetRecords) /\ n \in Nat
      /\ \A i \in 1..n : call.targets[i].path = k.targets[i]
  BY <1>2 DEF PlanningCalls, PacketRecords, MeasuresItsPacket
<1>4. path \in Paths
  <2>1. n + 1 \in 1..Len(k.targets) BY <1>1, <1>3
  <2>. QED BY <1>3, <2>1, ElementOfSeq
<1>5. Measured(path) \in TargetRecords /\ Measured(path).path = path
  <2> HIDE DEF path
  <2>. QED BY <1>4, MeasuredTyped DEF PlannerInvariant, PlannerTypeOK
<1>6. /\ more \in Seq(TargetRecords) /\ Len(more) = n + 1
      /\ \A i \in 1..(n + 1) : more[i].path = k.targets[i]
  <2>1. more \in Seq(TargetRecords) /\ Len(more) = n + 1 /\ more[n + 1] = Measured(path)
        /\ \A i \in 1..n : more[i] = call.targets[i]
    BY <1>3, <1>5, AppendProperties
  <2>2. \A i \in 1..(n + 1) : i \in 1..n \/ i = n + 1 BY <1>3
  <2> HIDE DEF more, n
  <2>. QED BY <1>3, <1>5, <2>1, <2>2 DEF path
<1> HIDE DEF more
<1>7. /\ next \in PlanningCalls /\ next.packet = k /\ next.member = call.member
      /\ next.targets = more
  BY <1>2, <1>6 DEF PlanningCalls
<1> HIDE DEF next
<1>8. MeasuresItsPacket(next)
  <2>1. n + 1 <= Len(k.targets) BY <1>1, <1>3
  <2>. QED BY <1>6, <1>7, <2>1 DEF MeasuresItsPacket
<1>9. GoodCall(next) BY <1>2, <1>7, <1>8 DEF GoodCall, KnowsItsObligations
<1> QED BY <1>1, <1>9, CallStep

LEMMA PartitionStep ==
    ASSUME PlannerInvariant, NEW c \in Calls, Partition(c)
    PROVE  PlannerInvariant'
<1> DEFINE call == calls[c]
           new == ObligationOf(call)
           packets == CanonicalPackets(call.packet, Answer(call).groups)
<1>1. /\ AllMeasured(call) /\ Answer(call).status = "PARTITION_REQUIRED" /\ Becomes(c, Idle)
      /\ \/ obligations' = obligations /\ overtaken' = overtaken
         \/ obligations' = obligations \cup {new} /\ CountOvertaken(call.packet)
      /\ UNCHANGED <<work, bound, disk, generation, reviewed>>
  BY DEF Partition, around
<1>2. GoodCall(call) /\ GoodCall(Idle) BY DEF PlannerInvariant, GoodCall
<1> HIDE DEF call
<1>3. /\ call.packet \in PacketRecords /\ call.targets \in Requests
  BY <1>1, <1>2, CallRequest
<1>4. /\ new = [role |-> call.packet.role, generation |-> generation, packets |-> packets,
                completed |-> {}, targets |-> call.targets]
  BY DEF ObligationOf
<1> HIDE DEF new, packets
<1>5. /\ new.role = call.packet.role /\ new.targets = call.targets
      /\ new.packets = packets /\ new.completed = {}
  BY <1>4
<1>6. /\ packets \subseteq PacketRecords
      /\ UNION {ToSet(p.targets) : p \in packets} = RequestedPaths(new)
      /\ RequestedPaths(new) = ToSet(call.packet.targets)
      /\ \A p \in packets : Canonical(new, p)
  <2>1. new.packets = CanonicalPackets(call.packet, Answer(call).groups) BY <1>5 DEF packets
  <2>2. /\ new.packets \subseteq PacketRecords
        /\ UNION {ToSet(p.targets) : p \in new.packets} = RequestedPaths(new)
        /\ RequestedPaths(new) = ToSet(call.packet.targets)
        /\ \A p \in new.packets : Canonical(new, p)
    BY <1>1, <1>2, <1>5, <2>1, NewObligation
  <2>. QED BY <1>5, <2>2
<1>7. Stands(new) BY <1>5, <1>6 DEF Stands
<1>8. new \in Obligations
  <2>1. call.packet.role \in Roles BY <1>3 DEF PacketRecords
  <2>2. generation \in Nat BY DEF PlannerInvariant, PlannerTypeOK
  <2>. QED BY <1>3, <1>4, <1>6, <2>1, <2>2 DEF Obligations
<1>9. \A o \in obligations' : o \in obligations \/ o = new
  BY <1>1
<1>10. /\ calls' = [d \in Calls |-> calls'[d]]
       /\ \A d \in Calls : GoodCall(calls'[d])
  BY <1>1, <1>2, CallsAfterStep
<1>11. PlannerTypeOK'
  BY <1>1, <1>8, <1>9, <1>10 DEF PlannerInvariant, PlannerTypeOK
<1>12. \A o \in obligations' : Stands(o)'
  <2> SUFFICES ASSUME NEW o \in obligations' PROVE Stands(o)'
    OBVIOUS
  <2>1. Stands(o) BY <1>7, <1>9 DEF PlannerInvariant
  <2>. QED BY <1>1, <2>1, GoesOnStanding
<1>13. ASSUME NEW role \in GatedRoles, obligations' = obligations \cup {new},
              CountOvertaken(call.packet)
       PROVE  GateStands(role)'
  <2>1. overtaken \subseteq overtaken' /\ (~ Admits(call.packet) => call.packet.role \in overtaken')
    BY <1>13 DEF CountOvertaken
  <2>2. GateStands(role) BY DEF PlannerInvariant
  <2>3. CASE role \in overtaken' BY <2>3 DEF GateStands
  <2>4. CASE call.packet.role # role
    <3>1. Outstanding(role)' = Outstanding(role) BY <1>5, <1>13, <2>4 DEF Outstanding
    <3>. QED BY <1>1, <2>1, <2>2, <3>1 DEF GateStands
  <2>5. CASE call.packet.role = role /\ role \notin overtaken'
    <3>1. Admits(call.packet) /\ role \notin overtaken BY <2>1, <2>5
    <3>2. Outstanding(role)' = Outstanding(role) \cup {new}
      BY <1>5, <1>13, <2>5 DEF Outstanding
    <3>3. CASE Outstanding(role) = {}
      <4>1. \A o \in Outstanding(role)' : RequestedPaths(o) \subseteq RequestedPaths(new)
        BY <3>2, <3>3
      <4>2. new \in Outstanding(role)' BY <3>2
      <4>. QED BY <4>1, <4>2 DEF GateStands
    <3>4. CASE Outstanding(role) # {}
      <4>1. Membership(call.packet) # {} BY <2>5, <3>1, <3>4 DEF Admits
      <4>2. PICK m \in obligations : call.packet \in m.packets BY <4>1 DEF Membership
      <4>3. Canonical(m, call.packet) BY <4>2 DEF PlannerInvariant, Stands
      <4>4. m \in Outstanding(role) /\ RequestedPaths(new) \subseteq RequestedPaths(m)
        BY <1>6, <2>5, <4>3 DEF Canonical, Outstanding
      <4>5. CASE \A o \in Outstanding(role) : RequestedPaths(o) \subseteq reviewed[role]
        <5>1. \A o \in Outstanding(role)' : RequestedPaths(o) \subseteq reviewed'[role]
          BY <1>1, <3>2, <4>4, <4>5
        <5>. QED BY <5>1 DEF GateStands
      <4>6. CASE \E root \in Outstanding(role) : \A o \in Outstanding(role) :
                    RequestedPaths(o) \subseteq RequestedPaths(root)
        <5>1. PICK root \in Outstanding(role) : \A o \in Outstanding(role) :
                 RequestedPaths(o) \subseteq RequestedPaths(root)
          BY <4>6
        <5>2. \A o \in Outstanding(role)' : RequestedPaths(o) \subseteq RequestedPaths(root)
          BY <3>2, <4>4, <5>1
        <5>3. root \in Outstanding(role)' BY <3>2
        <5>. QED BY <5>2, <5>3 DEF GateStands
      <4>. QED BY <2>2, <3>1, <4>5, <4>6 DEF GateStands
    <3>. QED BY <3>3, <3>4
  <2>. QED BY <2>3, <2>4, <2>5
<1>14. \A role \in GatedRoles : GateStands(role)'
  <2>1. CASE obligations' = obligations /\ overtaken' = overtaken
    BY <1>1, <2>1, QuietStep
  <2>. QED BY <1>1, <1>13, <2>1
<1> QED BY <1>10, <1>11, <1>12, <1>14 DEF PlannerInvariant, GoodCall

LEMMA PlanStep ==
    ASSUME PlannerInvariant, NEW c \in Calls, Plan(c)
    PROVE  PlannerInvariant'
<1> DEFINE call == calls[c]
           next == [call EXCEPT !.phase = "planned"]
<1>1. /\ call.phase = "measuring" /\ Becomes(c, next)
      /\ UNCHANGED <<around, obligations, reviewed, overtaken>>
  BY DEF Plan, AllMeasured
<1>2. call \in PlanningCalls /\ KnowsItsObligations(call) /\ MeasuresItsPacket(call)
  BY <1>1, CallOfPhase DEF PlannerInvariant
<1> HIDE DEF call
<1>3. /\ next \in PlanningCalls /\ next.packet = call.packet
      /\ next.member = call.member /\ next.targets = call.targets
  BY <1>2 DEF PlanningCalls
<1> HIDE DEF next
<1>4. GoodCall(next) BY <1>2, <1>3 DEF GoodCall, KnowsItsObligations, MeasuresItsPacket
<1> QED BY <1>1, <1>4, CallStep

LEMMA LaunchStep ==
    ASSUME PlannerInvariant, NEW c \in Calls, Launch(c)
    PROVE  PlannerInvariant'
<1> DEFINE call == calls[c]
           next == [phase |-> "running", packet |-> call.packet, member |-> call.member,
                    generation |-> generation]
<1>1. /\ call.phase = "planned" /\ Becomes(c, next)
      /\ UNCHANGED <<around, obligations, reviewed, overtaken>>
  BY DEF Launch
<1>2. call \in PlanningCalls /\ KnowsItsObligations(call)
  BY <1>1, CallOfPhase DEF PlannerInvariant
<1> HIDE DEF call
<1>3. generation \in Nat BY DEF PlannerInvariant, PlannerTypeOK
<1>4. next \in RunningCalls /\ next.packet = call.packet /\ next.member = call.member
  BY <1>2, <1>3 DEF PlanningCalls, RunningCalls
<1> HIDE DEF next
<1>5. GoodCall(next) BY <1>2, <1>4 DEF GoodCall, KnowsItsObligations
<1> QED BY <1>1, <1>5, CallStep

(* What a completed child adds to the reviewed targets of its role. *)
LEMMA ReviewedGrows ==
    ASSUME PlannerTypeOK, NEW child, GoodCall(child), child.phase = "running",
           CountReviewed(child)
    PROVE  /\ reviewed' \in [GatedRoles -> SUBSET Paths]
           /\ \A role \in GatedRoles : reviewed[role] \subseteq reviewed'[role]
           /\ child.packet.role \in GatedRoles =>
                 ToSet(child.packet.targets) \subseteq reviewed'[child.packet.role]
<1> DEFINE done == ToSet(child.packet.targets)
<1>1. done \subseteq Paths
  <2>1. child \in RunningCalls BY CallOfPhase
  <2>2. child.packet.targets \in Seq(Paths) BY <2>1 DEF RunningCalls, PacketRecords
  <2>. QED BY <2>2, ElementOfSeq DEF ToSet
<1> HIDE DEF done
<1>2. reviewed' = [role \in GatedRoles |-> reviewed[role] \cup
                     IF role = child.packet.role THEN done ELSE {}]
  BY DEF CountReviewed, done
<1>3. reviewed \in [GatedRoles -> SUBSET Paths] BY DEF PlannerTypeOK
<1> QED BY <1>1, <1>2, <1>3 DEF done

LEMMA ReportWholeStep ==
    ASSUME PlannerInvariant, NEW c \in Calls, NEW r \in Reports, ReportWhole(c, r)
    PROVE  PlannerInvariant'
<1> DEFINE child == calls[c]
<1>1. /\ child.phase = "running" /\ Becomes(c, Idle) /\ CountReviewed(child)
      /\ UNCHANGED <<work, bound, disk, generation, obligations, overtaken>>
  BY DEF ReportWhole, Complete, around
<1>2. GoodCall(child) /\ GoodCall(Idle) BY DEF PlannerInvariant, GoodCall
<1> HIDE DEF child
<1>3. /\ reviewed' \in [GatedRoles -> SUBSET Paths]
      /\ \A role \in GatedRoles : reviewed[role] \subseteq reviewed'[role]
  BY <1>1, <1>2, ReviewedGrows DEF PlannerInvariant
<1>4. /\ calls' = [d \in Calls |-> calls'[d]]
      /\ \A d \in Calls : GoodCall(calls'[d])
  BY <1>1, <1>2, CallsAfterStep
<1>5. PlannerTypeOK' BY <1>1, <1>3, <1>4 DEF PlannerInvariant, PlannerTypeOK
<1>6. /\ \A o \in obligations' : Stands(o)'
      /\ \A role \in GatedRoles : GateStands(role)'
  BY <1>1, <1>3, QuietStep
<1> QED BY <1>4, <1>5, <1>6 DEF PlannerInvariant, GoodCall

(* A packet that completes belongs to its obligation, and the last one *)
(* completes the request.                                              *)
LEMMA PacketReported ==
    ASSUME PlannerInvariant, NEW c \in Calls, NEW o \in obligations, NEW r \in Reports,
           ReportPartition(c, o, r)
    PROVE  /\ calls[c].packet \in o.packets /\ calls[c].packet.role = o.role
           /\ o \in Obligations /\ Stands(o)
           /\ reviewed' \in [GatedRoles -> SUBSET Paths]
           /\ \A role \in GatedRoles : reviewed[role] \subseteq reviewed'[role]
           /\ o.role \in GatedRoles =>
                 \A p \in o.completed \cup {calls[c].packet} :
                    ToSet(p.targets) \subseteq reviewed'[o.role]
           /\ o.role \in GatedRoles /\ o.completed \cup {calls[c].packet} = o.packets =>
                 RequestedPaths(o) \subseteq reviewed'[o.role]
<1> DEFINE child == calls[c]
<1>1. /\ child.phase = "running" /\ IdOf(o) \in child.member /\ CountReviewed(child)
      /\ GoodCall(child)
  BY DEF ReportPartition, Complete, PlannerInvariant
<1> HIDE DEF child
<1>2. child.packet \in o.packets
  BY <1>1, CallOfPhase DEF KnowsItsObligations, IdOf
<1>3. Stands(o) /\ o \in Obligations BY DEF PlannerInvariant, PlannerTypeOK
<1>4. child.packet.role = o.role BY <1>2, <1>3 DEF Stands, Canonical
<1>5. /\ reviewed' \in [GatedRoles -> SUBSET Paths]
      /\ \A role \in GatedRoles : reviewed[role] \subseteq reviewed'[role]
      /\ child.packet.role \in GatedRoles =>
            ToSet(child.packet.targets) \subseteq reviewed'[child.packet.role]
  BY <1>1, ReviewedGrows DEF PlannerInvariant
<1>6. ASSUME o.role \in GatedRoles, NEW p \in o.completed \cup {child.packet}
      PROVE  ToSet(p.targets) \subseteq reviewed'[o.role]
  <2>1. CASE p = child.packet BY <1>4, <1>5, <1>6, <2>1
  <2>2. CASE p \in o.completed
    <3>1. ToSet(p.targets) \subseteq reviewed[o.role] BY <1>3, <1>6, <2>2 DEF Stands
    <3>. QED BY <1>5, <1>6, <3>1
  <2>. QED BY <2>1, <2>2
<1>7. ASSUME o.role \in GatedRoles, o.completed \cup {child.packet} = o.packets
      PROVE  RequestedPaths(o) \subseteq reviewed'[o.role]
  <2>1. UNION {ToSet(p.targets) : p \in o.packets} = RequestedPaths(o) BY <1>3 DEF Stands
  <2>2. \A p \in o.packets : ToSet(p.targets) \subseteq reviewed'[o.role] BY <1>6, <1>7
  <2>. QED BY <2>1, <2>2
<1> QED BY <1>2, <1>3, <1>4, <1>5, <1>6, <1>7 DEF child

LEMMA ReportPartitionStep ==
    ASSUME PlannerInvariant, NEW c \in Calls, NEW o \in obligations, NEW r \in Reports,
           ReportPartition(c, o, r)
    PROVE  PlannerInvariant'
<1>0. PICK packet : packet = calls[c].packet OBVIOUS
<1> DEFINE completed == o.completed \cup {packet}
           next == [o EXCEPT !.completed = completed]
<1>1. /\ Becomes(c, Idle) /\ UNCHANGED <<work, bound, disk, generation, overtaken>>
      /\ IF completed = o.packets THEN obligations' = obligations \ {o}
         ELSE obligations' = (obligations \ {o}) \cup {next}
  BY <1>0 DEF ReportPartition, around
<1>2. /\ packet \in o.packets /\ o \in Obligations /\ Stands(o)
      /\ reviewed' \in [GatedRoles -> SUBSET Paths]
      /\ \A role \in GatedRoles : reviewed[role] \subseteq reviewed'[role]
      /\ o.role \in GatedRoles =>
            \A p \in completed : ToSet(p.targets) \subseteq reviewed'[o.role]
      /\ o.role \in GatedRoles /\ completed = o.packets =>
            RequestedPaths(o) \subseteq reviewed'[o.role]
  BY <1>0, PacketReported
<1>3. completed \subseteq o.packets BY <1>2 DEF Stands
<1>4. /\ next \in Obligations /\ next.role = o.role /\ next.packets = o.packets
      /\ next.targets = o.targets /\ next.completed = completed
  <2>1. completed \subseteq PacketRecords BY <1>2, <1>3 DEF Obligations
  <2> HIDE DEF completed
  <2>. QED BY <1>2, <2>1 DEF Obligations
<1> HIDE DEF completed, next
<1>5. RequestedPaths(next) = RequestedPaths(o) BY <1>4, Zenon DEF RequestedPaths
<1>6. \A q \in obligations' : q \in obligations \/ q = next
  BY <1>1
<1>7. /\ calls' = [d \in Calls |-> calls'[d]]
      /\ \A d \in Calls : GoodCall(calls'[d])
  BY <1>1, CallsAfterStep DEF GoodCall
<1>8. PlannerTypeOK'
  BY <1>1, <1>2, <1>4, <1>6, <1>7 DEF PlannerInvariant, PlannerTypeOK
<1>9. Stands(next)'
  <2>1. \A p \in next.packets : Canonical(next, p)'
    <3> SUFFICES ASSUME NEW p \in o.packets PROVE Canonical(next, p)'
      BY <1>4
    <3>1. Canonical(o, p) BY <1>2 DEF Stands
    <3>2. Affordable(next, p.targets)
      <4>1. Affordable(o, p.targets) BY <3>1 DEF Canonical
      <4>2. AsMeasured(next, p.targets) = AsMeasured(o, p.targets)
        <5>1. next.targets = o.targets BY <1>4
        <5> DEFINE Found(targets) == [i \in DOMAIN p.targets |->
                      CHOOSE t \in ToSet(targets) : t.path = p.targets[i]]
        <5>2. /\ AsMeasured(next, p.targets) = Found(next.targets)
              /\ AsMeasured(o, p.targets) = Found(o.targets)
          BY Zenon DEF AsMeasured
        <5> HIDE DEF Found
        <5>. QED BY <5>1, <5>2
      <4>. QED BY <1>4, <4>1, <4>2, Zenon DEF Affordable
    <3>. QED BY <1>1, <1>4, <1>5, <3>1, <3>2 DEF Canonical
  <2>2. UNION {ToSet(p.targets) : p \in next.packets} = RequestedPaths(next)
    BY <1>2, <1>4, <1>5 DEF Stands
  <2>3. next.completed \subseteq next.packets BY <1>3, <1>4
  <2>4. next.role \in GatedRoles =>
           \A p \in next.completed : ToSet(p.targets) \subseteq reviewed'[next.role]
    BY <1>2, <1>4
  <2>. QED BY <2>1, <2>2, <2>3, <2>4 DEF Stands
<1>10. \A q \in obligations' : Stands(q)'
  <2> SUFFICES ASSUME NEW q \in obligations' PROVE Stands(q)'
    OBVIOUS
  <2>1. CASE q \in obligations
    <3>1. Stands(q) BY <2>1 DEF PlannerInvariant
    <3>. QED BY <1>1, <1>2, <3>1, GoesOnStanding
  <2>. QED BY <1>6, <1>9, <2>1
<1>11. ASSUME NEW role \in GatedRoles PROVE GateStands(role)'
  <2>1. \A q \in Outstanding(role)' :
           \E p \in Outstanding(role) : RequestedPaths(q) = RequestedPaths(p)
    <3> SUFFICES ASSUME NEW q \in Outstanding(role)'
                 PROVE  \E p \in Outstanding(role) : RequestedPaths(q) = RequestedPaths(p)
      OBVIOUS
    <3>1. q \in obligations' /\ q.role = role BY DEF Outstanding
    <3>2. CASE q \in obligations BY <3>1, <3>2 DEF Outstanding
    <3>3. CASE q = next
      <4>1. o \in Outstanding(role) BY <1>4, <3>1, <3>3 DEF Outstanding
      <4>. QED BY <1>5, <3>3, <4>1
    <3>. QED BY <1>6, <3>1, <3>2, <3>3
  <2>2. GateStands(role) BY DEF PlannerInvariant
  <2>3. CASE role \in overtaken BY <1>1, <2>3 DEF GateStands
  <2>4. CASE \A q \in Outstanding(role) : RequestedPaths(q) \subseteq reviewed[role]
    <3>1. \A q \in Outstanding(role)' : RequestedPaths(q) \subseteq reviewed'[role]
      BY <1>2, <2>1, <2>4
    <3>. QED BY <3>1 DEF GateStands
  <2>5. CASE \E root \in Outstanding(role) : \A q \in Outstanding(role) :
                RequestedPaths(q) \subseteq RequestedPaths(root)
    <3>1. PICK root \in Outstanding(role) : \A q \in Outstanding(role) :
             RequestedPaths(q) \subseteq RequestedPaths(root)
      BY <2>5
    <3>2. root \in obligations /\ root.role = role BY DEF Outstanding
    <3>3. \A q \in Outstanding(role)' : RequestedPaths(q) \subseteq RequestedPaths(root)
      BY <2>1, <3>1
    <3>4. CASE root # o
      <4>1. root \in Outstanding(role)' BY <1>1, <3>2, <3>4 DEF Outstanding
      <4>. QED BY <3>3, <4>1 DEF GateStands
    <3>5. CASE root = o /\ completed # o.packets
      <4>1. next \in Outstanding(role)' BY <1>1, <1>4, <3>2, <3>5 DEF Outstanding
      <4>. QED BY <1>5, <3>3, <3>5, <4>1 DEF GateStands
    <3>6. CASE root = o /\ completed = o.packets
      <4>1. RequestedPaths(o) \subseteq reviewed'[role] BY <1>2, <3>2, <3>6
      <4>2. \A q \in Outstanding(role)' : RequestedPaths(q) \subseteq reviewed'[role]
        BY <3>3, <3>6, <4>1
      <4>. QED BY <4>2 DEF GateStands
    <3>. QED BY <3>4, <3>5, <3>6
  <2>. QED BY <2>2, <2>3, <2>4, <2>5 DEF GateStands
<1> QED BY <1>7, <1>8, <1>10, <1>11 DEF PlannerInvariant, GoodCall

(* However many calls are under way, what each has measured, the obligations *)
(* and what a role has still to review hold together in every state the      *)
(* program reaches; only an overtaken call leaves requests of a gated role   *)
(* outstanding that are neither reviewed nor inside one of them.             *)
THEOREM PlannerHolds == Spec => []PlannerInvariant
<1>1. ASSUME PlannerInvariant, [Next]_vars PROVE PlannerInvariant'
  <2>1. ASSUME NEW path \in Paths, NEW size \in Sizes, Edit(path, size)
        PROVE  PlannerInvariant'
    BY <1>1, <2>1, EditStep
  <2>2. ASSUME NEW path \in Paths, NEW size \in Sizes, Remeasure(path, size)
        PROVE  PlannerInvariant'
    BY <1>1, <2>2, RemeasureStep
  <2>3. CASE DeclareReviewAuthority BY <1>1, <2>3, DeclareReviewAuthorityStep
  <2>4. ASSUME NEW c \in Calls, NEW k \in work \cup UNION {o.packets : o \in obligations},
               TaskBegin(c, k)
        PROVE  PlannerInvariant'
    BY <1>1, <2>4, TaskBeginStep
  <2>5. ASSUME NEW c \in Calls, MeasureTarget(c) PROVE PlannerInvariant'
    BY <1>1, <2>5, MeasureTargetStep
  <2>6. ASSUME NEW c \in Calls, Partition(c) PROVE PlannerInvariant'
    BY <1>1, <2>6, PartitionStep
  <2>7. ASSUME NEW c \in Calls, ElideByReceipt(c) PROVE PlannerInvariant'
    BY <1>1, <2>7, CallEnds DEF ElideByReceipt
  <2>8. ASSUME NEW c \in Calls, Plan(c) PROVE PlannerInvariant'
    BY <1>1, <2>8, PlanStep
  <2>9. ASSUME NEW c \in Calls, RefusePlan(c) PROVE PlannerInvariant'
    BY <1>1, <2>9, CallEnds DEF RefusePlan
  <2>10. ASSUME NEW c \in Calls, Launch(c) PROVE PlannerInvariant'
    BY <1>1, <2>10, LaunchStep
  <2>11. ASSUME NEW c \in Calls, RefuseLaunch(c) PROVE PlannerInvariant'
    BY <1>1, <2>11, CallEnds DEF RefuseLaunch
  <2>12. ASSUME NEW c \in Calls, NEW r \in Reports, ReportStale(c, r)
         PROVE  PlannerInvariant'
    BY <1>1, <2>12, CallEnds DEF ReportStale
  <2>13. ASSUME NEW c \in Calls, NEW r \in Reports, ReportWhole(c, r)
         PROVE  PlannerInvariant'
    BY <1>1, <2>13, ReportWholeStep
  <2>14. ASSUME NEW c \in Calls, NEW o \in obligations, NEW r \in Reports,
                ReportPartition(c, o, r)
         PROVE  PlannerInvariant'
    BY <1>1, <2>14, ReportPartitionStep
  <2>15. CASE UNCHANGED vars
    <3>1. UNCHANGED <<work, bound, disk, generation, obligations, calls, reviewed, overtaken>>
      BY <2>15 DEF vars
    <3>2. PlannerTypeOK' BY <1>1, <3>1 DEF PlannerInvariant, PlannerTypeOK
    <3>3. /\ \A o \in obligations' : Stands(o)'
          /\ \A role \in GatedRoles : GateStands(role)'
      BY <1>1, <3>1, QuietStep
    <3>. QED BY <1>1, <3>1, <3>2, <3>3 DEF PlannerInvariant, GoodCall
  <2>. QED BY <1>1, <2>1, <2>2, <2>3, <2>4, <2>5, <2>6, <2>7, <2>8, <2>9, <2>10, <2>11,
              <2>12, <2>13, <2>14, <2>15 DEF Next
<1> QED BY InitialInvariant, <1>1, PTL DEF Spec

-----------------------------------------------------------------------------
(***************************************************************************)
(* The theorems about steps.                                               *)
(***************************************************************************)
(* Only a call that is answered PARTITION_REQUIRED registers an obligation. *)
LEMMA RegisteredByPartition ==
    ASSUME PlannerInvariant, Next, NEW o, o \in Registered
    PROVE  \E c \in Stepping :
              /\ GoodCall(calls[c]) /\ AllMeasured(calls[c])
              /\ Answer(calls[c]).status = "PARTITION_REQUIRED"
              /\ o.role = calls[c].packet.role /\ o.targets = calls[c].targets
              /\ o.packets = CanonicalPackets(calls[c].packet, Answer(calls[c]).groups)
<1>1. o \in obligations' /\ o \notin obligations /\ o.completed = {} BY DEF Registered
<1>2. ASSUME NEW c \in Calls, Partition(c)
      PROVE  /\ c \in Stepping /\ GoodCall(calls[c]) /\ AllMeasured(calls[c])
             /\ Answer(calls[c]).status = "PARTITION_REQUIRED"
             /\ o.role = calls[c].packet.role /\ o.targets = calls[c].targets
             /\ o.packets = CanonicalPackets(calls[c].packet, Answer(calls[c]).groups)
  <2> DEFINE call == calls[c]
             new == ObligationOf(call)
  <2>1. /\ AllMeasured(call) /\ Answer(call).status = "PARTITION_REQUIRED"
        /\ obligations' = obligations \/ obligations' = obligations \cup {new}
        /\ calls' = [calls EXCEPT ![c] = Idle]
    BY <1>2 DEF Partition, Becomes
  <2>2. /\ new.role = call.packet.role /\ new.targets = call.targets
        /\ new.packets = CanonicalPackets(call.packet, Answer(call).groups)
    BY DEF ObligationOf
  <2>3. calls = [d \in Calls |-> calls[d]] /\ GoodCall(call)
    BY DEF PlannerInvariant, PlannerTypeOK
  <2>4. calls'[c] = Idle BY <2>1, <2>3
  <2>5. call # Idle BY <2>1 DEF AllMeasured, Idle
  <2>6. c \in Stepping BY <2>4, <2>5 DEF Stepping
  <2> HIDE DEF new
  <2>7. o = new BY <1>1, <2>1
  <2>. QED BY <2>1, <2>2, <2>3, <2>6, <2>7
<1>3. ASSUME NEW c \in Calls, NEW q \in obligations, NEW r \in Reports,
             ReportPartition(c, q, r)
      PROVE  FALSE
  <2> DEFINE completed == q.completed \cup {calls[c].packet}
             next == [q EXCEPT !.completed = completed]
  <2>1. \/ obligations' = obligations \ {q}
        \/ obligations' = (obligations \ {q}) \cup {next}
    BY <1>3 DEF ReportPartition
  <2>2. q \in Obligations BY DEF PlannerInvariant, PlannerTypeOK
  <2>3. next.completed = completed
    <3> HIDE DEF completed
    <3>. QED BY <2>2 DEF Obligations
  <2>4. completed # {} OBVIOUS
  <2> HIDE DEF completed, next
  <2>. QED BY <1>1, <2>1, <2>3, <2>4
<1>4. obligations' = obligations \/ obligations' = {} => FALSE BY <1>1
<1>5. /\ \A path \in Paths, size \in Sizes : ~ Edit(path, size) /\ ~ Remeasure(path, size)
      /\ ~ DeclareReviewAuthority
      /\ \A c \in Calls : ~ MeasureTarget(c) /\ ~ ElideByReceipt(c) /\ ~ Plan(c)
                          /\ ~ RefusePlan(c) /\ ~ Launch(c) /\ ~ RefuseLaunch(c)
      /\ \A c \in Calls, k \in work \cup UNION {q.packets : q \in obligations} : ~ TaskBegin(c, k)
      /\ \A c \in Calls, r \in Reports : ~ ReportStale(c, r) /\ ~ ReportWhole(c, r)
  BY <1>4 DEF Edit, Remeasure, DeclareReviewAuthority, MeasureTarget, ElideByReceipt, Plan,
              RefusePlan, Launch, RefuseLaunch, TaskBegin, ReportStale, ReportWhole
<1> QED BY <1>2, <1>3, <1>5 DEF Next

(* Whatever is requested, the packets of the obligation are the request, cut *)
(* up: no target is lost, none is named twice, and nothing else of the call  *)
(* changes (planChildWork, preservePlannerPartitionContext).                 *)
THEOREM PartitionKeepsTheRequest == Spec => PacketsAreTheRequest
<1> DEFINE P(o) == \E c \in Stepping :
          /\ UNION {ToSet(p.targets) : p \in o.packets} = ToSet(calls[c].packet.targets)
          /\ \A p \in o.packets :
                /\ p = [calls[c].packet EXCEPT !.targets = p.targets]
                /\ p.targets # <<>> /\ InStableOrder(AsTargets(p.targets))
          /\ \A p, q \in o.packets : p = q \/ Precedes(p, q) \/ Precedes(q, p)
<1>1. ASSUME PlannerInvariant, Next, NEW o \in Registered PROVE P(o)
  <2>1. PICK c \in Stepping :
           /\ GoodCall(calls[c]) /\ AllMeasured(calls[c])
           /\ Answer(calls[c]).status = "PARTITION_REQUIRED"
           /\ o.role = calls[c].packet.role /\ o.targets = calls[c].targets
           /\ o.packets = CanonicalPackets(calls[c].packet, Answer(calls[c]).groups)
    BY <1>1, RegisteredByPartition
  <2> DEFINE call == calls[c]
  <2>2. /\ UNION {ToSet(p.targets) : p \in o.packets} = RequestedPaths(o)
        /\ RequestedPaths(o) = ToSet(call.packet.targets)
        /\ \A p \in o.packets : /\ Canonical(o, p)
                                /\ p = [call.packet EXCEPT !.targets = p.targets]
        /\ \A p, q \in o.packets : p = q \/ Precedes(p, q) \/ Precedes(q, p)
    BY <2>1, NewObligation
  <2>. QED BY <2>2 DEF Canonical
<1>2. PlannerInvariant /\ [Next]_vars => [\A o \in Registered : P(o)]_vars
  <2> HIDE DEF P
  <2>. QED BY <1>1
<1> QED BY <1>2, PlannerHolds, PTL DEF Spec, PacketsAreTheRequest

(* Whatever the limits, every packet is within those of its role, and where *)
(* no exact head is declared its prompt fits (makeTargetPartitions).        *)
THEOREM PartitionKeepsTheLimits == Spec => PacketsAreWithinLimits
<1> DEFINE P(o) == \A k \in o.packets :
                      /\ Affordable(o, k.targets)
                      /\ bound \/ validateTaskPacket(k, TRUE)
<1>1. ASSUME PlannerInvariant, Next, NEW o \in Registered PROVE P(o)
  <2>1. PICK c \in Stepping :
           /\ GoodCall(calls[c]) /\ AllMeasured(calls[c])
           /\ Answer(calls[c]).status = "PARTITION_REQUIRED"
           /\ o.role = calls[c].packet.role /\ o.targets = calls[c].targets
           /\ o.packets = CanonicalPackets(calls[c].packet, Answer(calls[c]).groups)
    BY <1>1, RegisteredByPartition
  <2> DEFINE call == calls[c]
  <2>2. \A p \in o.packets : Canonical(o, p) /\ (bound \/ validateTaskPacket(p, TRUE))
    BY <2>1, NewObligation
  <2>. QED BY <2>2 DEF Canonical
<1>2. PlannerInvariant /\ [Next]_vars => [\A o \in Registered : P(o)]_vars
  <2> HIDE DEF P
  <2>. QED BY <1>1
<1> QED BY <1>2, PlannerHolds, PTL DEF Spec, PacketsAreWithinLimits

(* There are no more packets than groups. *)
LEMMA PacketsOfGroups ==
    ASSUME NEW k, NEW groups \in Seq(Seq(Paths))
    PROVE  /\ Cardinality(CanonicalPackets(k, groups)) \in Nat
           /\ Cardinality(CanonicalPackets(k, groups)) <= Len(groups)
<1> DEFINE m == Len(groups)
           f == [j \in 1..m |-> partitionPacketFromOriginalPrompt(k, groups[j])]
           packets == CanonicalPackets(k, groups)
           places == 1..m
<1>1. m \in Nat /\ DOMAIN groups = places OBVIOUS
<1>2. packets = {f[j] : j \in places} BY <1>1 DEF CanonicalPackets
<1>3. IsFiniteSet(places) /\ Cardinality(places) = m
  <2>1. 1 \in Int /\ m \in Int BY <1>1
  <2>2. /\ IsFiniteSet(1..m)
        /\ Cardinality(1..m) = IF 1 > m THEN 0 ELSE m - 1 + 1
    BY <2>1, FS_Interval
  <2> HIDE DEF m
  <2>. QED BY <1>1, <2>2
<1>4. DOMAIN f = places OBVIOUS
<1> HIDE DEF f, packets
<1>5. f \in Surjection(places, packets)
  <2>1. f = [j \in places |-> f[j]] BY DEF f
  <2> HIDE DEF places
  <2>. QED BY <1>2, <2>1 DEF Surjection
<1> HIDE DEF places
<1>6. IsFiniteSet(packets) /\ Cardinality(packets) <= Cardinality(places)
  BY <1>3, <1>5, FS_Surjection
<1>7. Cardinality(packets) \in Nat BY <1>6, FS_CardinalityType
<1> QED BY <1>3, <1>6, <1>7 DEF packets

(* Whatever the request, no cut of it into affordable pieces has fewer of   *)
(* them than the planner made packets, where no prompt has to be split for  *)
(* its length (makeTargetPartitions).                                       *)
THEOREM PartitionIsLeast == Spec => AsFewPacketsAsPossible
<1> DEFINE P(o) == \E c \in Stepping :
          LET paths == PathsOf(stableTargetOrder(o.targets))
              k == calls[c].packet IN
          Len(paths) <= RenderedRoom(k) /\ Len(paths) <= OriginalRoom(k) =>
              \A cut \in SUBSET (1..(Len(paths) - 1)) :
                  (\A piece \in Pieces(paths, cut) : Affordable(o, piece))
                      => Cardinality(o.packets) <= 1 + Cardinality(cut)
<1>1. ASSUME PlannerInvariant, Next, NEW o \in Registered PROVE P(o)
  <2> DEFINE paths == PathsOf(stableTargetOrder(o.targets))
  <2>1. PICK c \in Stepping :
           /\ GoodCall(calls[c]) /\ AllMeasured(calls[c])
           /\ Answer(calls[c]).status = "PARTITION_REQUIRED"
           /\ o.role = calls[c].packet.role /\ o.targets = calls[c].targets
           /\ o.packets = CanonicalPackets(calls[c].packet, Answer(calls[c]).groups)
    BY <1>1, RegisteredByPartition
  <2> DEFINE call == calls[c]
  <2>2. PICK groups, sum, greedy, coarse, ends :
           /\ Partitions(call.packet, call.targets, groups, sum, greedy, coarse, ends)
           /\ groups \in Seq(Seq(Paths))
           /\ o.packets = CanonicalPackets(call.packet, groups)
    BY <2>1, NewObligation
  <2>3. call.packet \in PacketRecords /\ call.targets \in Requests
    BY <2>1, CallRequest
  <2>4. Cardinality(o.packets) \in Nat /\ Cardinality(o.packets) <= Len(groups)
    BY <2>2, PacketsOfGroups
  <2> SUFFICES ASSUME Len(paths) <= RenderedRoom(call.packet),
                      Len(paths) <= OriginalRoom(call.packet),
                      NEW cut \in SUBSET (1..(Len(paths) - 1)),
                      \A piece \in Pieces(paths, cut) : Affordable(o, piece)
               PROVE  Cardinality(o.packets) <= 1 + Cardinality(cut)
    BY <2>1
  <2>5. paths = PathsOf(stableTargetOrder(call.targets)) BY <2>1
  <2> HIDE DEF paths
  <2>6. /\ Cardinality(cut) \in Nat /\ Len(groups) \in Nat
        /\ Len(groups) <= 1 + Cardinality(cut)
    BY <2>1, <2>2, <2>3, <2>5, FewestGroups
  <2>. QED BY <2>4, <2>6
<1>2. PlannerInvariant /\ [Next]_vars => [\A o \in Registered : P(o)]_vars
  <2> HIDE DEF P
  <2>. QED BY <1>1
<1> QED BY <1>2, PlannerHolds, PTL DEF Spec, AsFewPacketsAsPossible

(* A canonical packet that measures what it measured when it was made is *)
(* READY, or answered by central ownership, which starts it all the same. *)
LEMMA CanonicalAnswer ==
    ASSUME PlannerInvariant, NEW o \in obligations, NEW call, GoodCall(call),
           AllMeasured(call), IdOf(o) \in call.member,
           ToSet(call.targets) \subseteq ToSet(o.targets)
    PROVE  \/ Answer(call).status = "READY"
           \/ Answer(call) = [status |-> "ELIDED", reason |-> "central-owned-semantic-review"]
<1> DEFINE k == call.packet
           targets == call.targets
           n == Len(targets)
<1>1. /\ k \in PacketRecords /\ targets \in Requests /\ Len(k.targets) = n
      /\ PathsOf(targets) = k.targets /\ call.phase = "measuring"
  BY CallRequest DEF AllMeasured
<1>2. k \in o.packets /\ o \in Obligations /\ Canonical(o, k)
  <2>1. k \in o.packets BY <1>1, CallOfPhase DEF KnowsItsObligations, IdOf
  <2>. QED BY <2>1 DEF PlannerInvariant, PlannerTypeOK, Stands
<1>3. Answer(call) = deterministicTaskPlan(k, targets, EvidenceAnswers(k)) BY DEF Answer
<1>4. ~ EvidenceAnswers(k) BY <1>2 DEF Canonical, EvidenceAnswers
<1>5. ToSet(targets) \subseteq ToSet(o.targets) OBVIOUS
<1> HIDE DEF k, targets
<1>6. /\ targets \in Seq(TargetRecords) /\ n \in Nat /\ DOMAIN targets = 1..n
      /\ DOMAIN k.targets = 1..n
      /\ \A i \in 1..n : k.targets[i] = targets[i].path /\ targets[i] \in TargetRecords
  <2>1. targets \in Seq(TargetRecords) BY <1>1 DEF Requests
  <2>2. k.targets \in Seq(Paths) BY <1>1 DEF PacketRecords
  <2>. QED BY <1>1, <2>1, <2>2, PathsOfTargets, ElementOfSeq
<1>7. InStableOrder(targets)
  <2> SUFFICES ASSUME NEW i \in 1..n, NEW j \in 1..n, i < j
               PROVE  Before(targets[i], targets[j])
    BY <1>6 DEF InStableOrder
  <2> DEFINE a == AsTargets(k.targets)[i]
             b == AsTargets(k.targets)[j]
  <2>1. InStableOrder(AsTargets(k.targets)) BY <1>2 DEF Canonical
  <2>2. DOMAIN AsTargets(k.targets) = 1..n BY <1>6 DEF AsTargets
  <2>3. Before(a, b) BY <2>1, <2>2 DEF InStableOrder
  <2>4. a = [path |-> targets[i].path] /\ b = [path |-> targets[j].path]
    BY <1>6 DEF AsTargets
  <2> HIDE DEF a, b
  <2>. QED BY <1>6, <2>3, <2>4, BeforeByPath
<1>8. AsMeasured(o, k.targets) = targets
  <2>1. o.targets \in Requests BY <1>2 DEF Obligations
  <2> DEFINE known == o.targets
  <2>2. /\ known \in Requests /\ o.targets = known /\ ToSet(targets) \subseteq ToSet(known)
    BY <1>5, <2>1
  <2> HIDE DEF known
  <2>3. AsMeasured(o, PathsOf(targets)) = targets
    BY <1>6, <2>2, AsMeasuredIsMeasured
  <2>. QED BY <1>1, <2>3
<1>9. n <= TargetLimit[k.role] /\ CostOf(targets) <= roleComplexityLimit(k.role)
  <2>1. Affordable(o, k.targets) /\ k.role = o.role BY <1>2 DEF Canonical
  <2>. QED BY <1>1, <1>8, <2>1 DEF Affordable
<1>10. /\ k.targets # <<>> /\ k.questions <= 3 /\ k.lossless
       /\ n <= RenderedRoom(k) /\ (bound \/ (k.finite /\ n <= OriginalRoom(k)))
  BY <1>1, <1>2 DEF Canonical
<1> QED BY <1>1, <1>3, <1>4, <1>7, <1>9, <1>10, CanonicalPlan

(* Whatever packet the planner made, it plans again as long as its targets   *)
(* measure the same: no packet is ever split further, refused or elided by   *)
(* the plan it came from (deterministicTaskPlan).                            *)
THEOREM PacketsArePlanned == Spec => CanonicalPacketsPlan
<1> DEFINE P(o, c) ==
          /\ AllMeasured(calls[c])
          /\ IdOf(o) \in calls[c].member
          /\ ToSet(calls[c].targets) \subseteq ToSet(o.targets)
          => calls'[c].phase = "planned"
<1>1. ASSUME PlannerInvariant, Next, NEW o \in obligations, NEW c \in Stepping PROVE P(o, c)
  <2> DEFINE call == calls[c]
  <2> SUFFICES ASSUME AllMeasured(call), IdOf(o) \in call.member,
                      ToSet(call.targets) \subseteq ToSet(o.targets)
               PROVE  calls'[c].phase = "planned"
    OBVIOUS
  <2>1. c \in Calls /\ calls'[c] # calls[c] /\ GoodCall(call)
    BY <1>1 DEF Stepping, PlannerInvariant
  <2>2. calls = [d \in Calls |-> calls[d]] BY <1>1 DEF PlannerInvariant, PlannerTypeOK
  <2>3. \/ Answer(call).status = "READY"
        \/ Answer(call) = [status |-> "ELIDED", reason |-> "central-owned-semantic-review"]
    BY <1>1, <2>1, CanonicalAnswer
  <2>4. /\ Answer(call).status \notin {"PARTITION_REQUIRED", "UNREPRESENTABLE"}
        /\ ~ (Answer(call).status = "ELIDED"
              /\ Answer(call).reason = "trusted-actions-receipt-reused")
    BY <2>3
  <2>5. /\ call.phase = "measuring" /\ call # Idle
        /\ Len(call.targets) = Len(call.packet.targets) /\ IsInjective(call.packet.targets)
    BY DEF AllMeasured, Idle
  <2>6. ~ Partition(c) /\ ~ ElideByReceipt(c) BY <2>4 DEF Partition, ElideByReceipt
  <2>7. ~ RefusePlan(c) BY <2>4, <2>5 DEF RefusePlan
  <2>8. ~ MeasureTarget(c)
    <3>1. call.targets \in Seq(TargetRecords)
      BY <2>1, <2>5, CallOfPhase DEF PlanningCalls
    <3>2. Len(call.targets) \in Nat BY <3>1
    <3>. QED BY <2>5, <3>2 DEF MeasureTarget
  <2>9. ~ Launch(c) /\ ~ RefuseLaunch(c) /\ \A k : ~ TaskBegin(c, k)
    BY <2>5 DEF Launch, RefuseLaunch, TaskBegin
  <2>10. /\ \A r : ~ ReportStale(c, r) /\ ~ ReportWhole(c, r)
         /\ \A q, r : ~ ReportPartition(c, q, r)
    BY <2>5 DEF ReportStale, ReportWhole, ReportPartition, Complete
  <2>11. ASSUME NEW d, NEW next, d # c, Becomes(d, next) PROVE FALSE
    <3>1. calls' = [calls EXCEPT ![d] = next] BY <2>11 DEF Becomes
    <3>. QED BY <2>1, <2>2, <2>11, <3>1
  <2>12. \A d : /\ Partition(d) \/ ElideByReceipt(d) \/ RefusePlan(d) \/ RefuseLaunch(d)
                      => Becomes(d, Idle)
                /\ \A r : ReportStale(d, r) \/ ReportWhole(d, r) => Becomes(d, Idle)
                /\ \A q, r : ReportPartition(d, q, r) => Becomes(d, Idle)
    BY DEF Partition, ElideByReceipt, RefusePlan, RefuseLaunch, ReportStale, ReportWhole,
           ReportPartition
  <2>13. \A d : MeasureTarget(d) \/ Plan(d) \/ Launch(d) \/ (\E k : TaskBegin(d, k))
                   => \E next : Becomes(d, next)
    BY DEF MeasureTarget, Plan, Launch, TaskBegin
  <2>14. /\ \A path, size : ~ Edit(path, size) /\ ~ Remeasure(path, size)
         /\ ~ DeclareReviewAuthority
    BY <2>1 DEF Edit, Remeasure, DeclareReviewAuthority
  <2>15. PICK d \in Calls :
            \/ \E k : TaskBegin(d, k)
            \/ MeasureTarget(d) \/ Partition(d) \/ ElideByReceipt(d) \/ Plan(d)
            \/ RefusePlan(d) \/ Launch(d) \/ RefuseLaunch(d)
            \/ \E r : ReportStale(d, r) \/ ReportWhole(d, r)
            \/ \E q, r : ReportPartition(d, q, r)
    BY <1>1, <2>14 DEF Next
  <2>16. d = c BY <2>11, <2>12, <2>13, <2>15
  <2>17. Plan(c) BY <2>6, <2>7, <2>8, <2>9, <2>10, <2>15, <2>16
  <2>18. calls'[c] = [call EXCEPT !.phase = "planned"]
    <3>1. calls' = [calls EXCEPT ![c] = [call EXCEPT !.phase = "planned"]]
      BY <2>17 DEF Plan, Becomes
    <3>. QED BY <2>1, <2>2, <3>1
  <2>19. call \in PlanningCalls BY <2>1, <2>5, CallOfPhase
  <2>. QED BY <2>18, <2>19 DEF PlanningCalls
<1>2. PlannerInvariant /\ [Next]_vars =>
         [\A o \in obligations, c \in Stepping : P(o, c)]_vars
  <2> HIDE DEF P
  <2>. QED BY <1>1
<1> QED BY <1>2, PlannerHolds, PTL DEF Spec, CanonicalPacketsPlan

(* Only the last packet of an obligation finishes it. *)
LEMMA FinishedByReport ==
    ASSUME PlannerInvariant, Next, NEW o \in obligations, Finished(o)
    PROVE  \E c \in Calls, r \in Reports :
              ReportPartition(c, o, r) /\ o.completed \cup {calls[c].packet} = o.packets
<1>1. /\ o.role \in GatedRoles /\ generation' = generation
      /\ \A n \in obligations' : IdOf(n) # IdOf(o)
  BY DEF Finished
<1>2. o \notin obligations' BY <1>1
<1>3. generation \in Nat BY DEF PlannerInvariant, PlannerTypeOK
<1>4. \A path \in Paths, size \in Sizes : ~ Edit(path, size)
  BY <1>1, <1>3 DEF Edit
<1>5. obligations' = obligations => FALSE BY <1>2
<1>6. \A c \in Calls : ~ Partition(c) BY <1>2 DEF Partition
<1>7. /\ \A path \in Paths, size \in Sizes : ~ Remeasure(path, size)
      /\ ~ DeclareReviewAuthority
      /\ \A c \in Calls : ~ MeasureTarget(c) /\ ~ ElideByReceipt(c) /\ ~ Plan(c)
                          /\ ~ RefusePlan(c) /\ ~ Launch(c) /\ ~ RefuseLaunch(c)
      /\ \A c \in Calls, k \in work \cup UNION {q.packets : q \in obligations} : ~ TaskBegin(c, k)
      /\ \A c \in Calls, r \in Reports : ~ ReportStale(c, r) /\ ~ ReportWhole(c, r)
  BY <1>5 DEF Remeasure, DeclareReviewAuthority, MeasureTarget, ElideByReceipt, Plan,
              RefusePlan, Launch, RefuseLaunch, TaskBegin, ReportStale, ReportWhole
<1>8. PICK c \in Calls, q \in obligations, r \in Reports : ReportPartition(c, q, r)
  BY <1>4, <1>6, <1>7 DEF Next
<1> DEFINE completed == q.completed \cup {calls[c].packet}
           next == [q EXCEPT !.completed = completed]
<1>9. IF completed = q.packets THEN obligations' = obligations \ {q}
      ELSE obligations' = (obligations \ {q}) \cup {next}
  BY <1>8 DEF ReportPartition
<1>10. q = o BY <1>2, <1>9
<1>11. IdOf(next) = IdOf(q)
  <2>1. q \in Obligations BY DEF PlannerInvariant, PlannerTypeOK
  <2>2. next.role = q.role /\ next.packets = q.packets /\ next.generation = q.generation
    <3> HIDE DEF completed
    <3>. QED BY <2>1 DEF Obligations
  <2> HIDE DEF next
  <2>. QED BY <2>2 DEF IdOf
<1> HIDE DEF next, completed
<1>12. completed = q.packets BY <1>1, <1>9, <1>10, <1>11
<1> QED BY <1>8, <1>10, <1>12 DEF completed

(* Whatever the requests, however many calls are planned at once and however  *)
(* their packets grow, the gate of a role never advances past a target of the *)
(* finished request; nor past one of another request of the role, unless the  *)
(* finished one was a packet of it or a call of the role was overtaken while  *)
(* it was planned (recordPlannerPartitionCompletion).                         *)
THEOREM GateSeesTheRequest == Spec => GateSeesEveryTarget
<1> DEFINE P(o) ==
          Finished(o) =>
             /\ RequestedPaths(o) \subseteq reviewed'[o.role]
             /\ ~ Nested(o) /\ o.role \notin overtaken =>
                   \A q \in Outstanding(o.role) :
                      RequestedPaths(q) \subseteq reviewed'[o.role]
<1>1. ASSUME PlannerInvariant, Next, NEW o \in obligations PROVE P(o)
  <2> SUFFICES ASSUME Finished(o)
               PROVE  /\ RequestedPaths(o) \subseteq reviewed'[o.role]
                      /\ ~ Nested(o) /\ o.role \notin overtaken =>
                            \A q \in Outstanding(o.role) :
                               RequestedPaths(q) \subseteq reviewed'[o.role]
    OBVIOUS
  <2>1. PICK c \in Calls, r \in Reports :
           ReportPartition(c, o, r) /\ o.completed \cup {calls[c].packet} = o.packets
    BY <1>1, FinishedByReport
  <2>2. o.role \in GatedRoles BY DEF Finished
  <2>3. /\ RequestedPaths(o) \subseteq reviewed'[o.role]
        /\ reviewed[o.role] \subseteq reviewed'[o.role]
    BY <1>1, <2>1, <2>2, PacketReported
  <2>4. ASSUME ~ Nested(o), o.role \notin overtaken, NEW q \in Outstanding(o.role)
        PROVE  RequestedPaths(q) \subseteq reviewed'[o.role]
    <3>1. o \in Outstanding(o.role) BY DEF Outstanding
    <3>2. GateStands(o.role) BY <1>1, <2>2 DEF PlannerInvariant
    <3>3. CASE RequestedPaths(q) \subseteq reviewed[o.role]
      BY <2>3, <3>3
    <3>4. CASE \E root \in Outstanding(o.role) : \A p \in Outstanding(o.role) :
                  RequestedPaths(p) \subseteq RequestedPaths(root)
      <4>1. PICK root \in Outstanding(o.role) : \A p \in Outstanding(o.role) :
               RequestedPaths(p) \subseteq RequestedPaths(root)
        BY <3>4
      <4>2. /\ RequestedPaths(o) \subseteq RequestedPaths(root)
            /\ RequestedPaths(q) \subseteq RequestedPaths(root)
        BY <3>1, <4>1
      <4>3. root = o BY <2>4, <4>2 DEF Nested
      <4>. QED BY <2>3, <4>2, <4>3
    <3>. QED BY <2>4, <3>2, <3>3, <3>4 DEF GateStands
  <2>. QED BY <2>3, <2>4
<1>2. PlannerInvariant /\ [Next]_vars => [\A o \in obligations : P(o)]_vars
  <2> HIDE DEF P
  <2>. QED BY <1>1
<1> QED BY <1>2, PlannerHolds, PTL DEF Spec, GateSeesEveryTarget
=============================================================================
