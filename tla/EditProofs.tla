------------------------------ MODULE EditProofs ------------------------------
(***************************************************************************)
(* The studio's functions on steps, for workflows of any length: what is   *)
(* done in the graph leaves a workflow that finishes one that does,        *)
(* orderByDependencies gives the best order, and the lines of the graph    *)
(* say all and no more.                                                    *)
(***************************************************************************)
EXTENDS Studio, FiniteSetTheorems, WellFoundedInduction, TLAPS

-----------------------------------------------------------------------------
(* Induction and recursion up to a bound *)

\* What holds of 0 and passes from every number below n to the next holds up to n.
LEMMA UpTo ==
    ASSUME NEW n \in Nat, NEW T, 0 \in T, \A k \in 0..(n-1) : k \in T => k + 1 \in T
    PROVE  \A k \in 0..n : k \in T
<1> DEFINE Bad == {k \in 0..n : k \notin T}
<1> SUFFICES ASSUME Bad # {} PROVE FALSE
    OBVIOUS
<1>1. Bad \subseteq Nat
    OBVIOUS
<1>2. PICK x \in Bad : \A y \in Bad : ~ (<<y, x>> \in OpToRel(<, Nat))
    BY <1>1, NatLessThanWellFounded, WFMin
<1>3. \A y \in Bad : ~ (y < x)
    BY <1>1, <1>2 DEF OpToRel
<1>4. x # 0 /\ x \in 0..n
    OBVIOUS
<1>5. x - 1 \in T
    BY <1>3, <1>4
<1> QED
    BY <1>4, <1>5

Ways(n, S) == [1..n -> [S -> S]]
Walk(f, n, S, a, next) ==
    /\ f \in [0..n -> S]
    /\ f[0] = a
    /\ \A k \in 1..n : f[k] = next[k][f[k-1]]

\* A first value and a way from each value to the next give a sequence of values.
LEMMA Walks ==
    ASSUME NEW n \in Nat, NEW S, NEW a \in S, NEW next \in Ways(n, S)
    PROVE  \E f : Walk(f, n, S, a, next)
<1> USE DEF Walk, Ways
<1> DEFINE T == {m \in 0..n : \E f : Walk(f, m, S, a, next)}
<1>1. 0 \in T
    <2>1. Walk([k \in 0..0 |-> a], 0, S, a, next)
        OBVIOUS
    <2> HIDE DEF Walk
    <2> QED
        BY <2>1
<1>2. ASSUME NEW m \in 0..(n-1), m \in T PROVE m + 1 \in T
    <2>1. PICK f : Walk(f, m, S, a, next)
        BY <1>2
    <2> DEFINE g == [k \in 0..(m+1) |-> IF k = m + 1 THEN next[m+1][f[m]] ELSE f[k]]
    <2>2. f[m] \in S /\ next[m+1] \in [S -> S]
        BY <2>1
    <2>3. Walk(g, m + 1, S, a, next)
        <3>1. g \in [0..(m+1) -> S]
            BY <2>1, <2>2
        <3>2. g[0] = a /\ \A k \in 1..(m+1) : g[k] = next[k][g[k-1]]
            BY <2>1
        <3> QED
            BY <3>1, <3>2
    <2> HIDE DEF Walk, g
    <2> QED
        BY <2>3
<1>3. n \in T
    <2>1. \A m \in 0..n : m \in T
        <3> HIDE DEF T
        <3> QED
            BY <1>1, <1>2, UpTo
    <2> QED
        BY <2>1
<1> QED
    BY <1>3

-----------------------------------------------------------------------------
(* Lists *)

\* What Without does with the step at k.
Keeps(list, names, k, s) == IF list[k].name \in names THEN s ELSE Append(s, list[k])

LEMMA WithoutSteps ==
    ASSUME NEW list \in Seq(Step), NEW names
    PROVE  \E kept \in [0..Len(list) -> Seq(Step)] :
              /\ kept[0] = <<>>
              /\ \A k \in 1..Len(list) : kept[k] = Keeps(list, names, k, kept[k-1])
              /\ Without(list, names) = kept[Len(list)]
<1> DEFINE n == Len(list)
           empty == <<>>
           next == [k \in 1..n |-> [s \in Seq(Step) |-> Keeps(list, names, k, s)]]
           Value(f, k) == IF k = 0 THEN empty ELSE Keeps(list, names, k, f[k-1])
           kept == CHOOSE f : f = [k \in 0..n |-> Value(f, k)]
<1>1. n \in Nat /\ empty \in Seq(Step)
    OBVIOUS
<1>2. \A k \in 1..n, s \in Seq(Step) : Keeps(list, names, k, s) \in Seq(Step)
    BY DEF Keeps
<1>3. next \in [1..n -> [Seq(Step) -> Seq(Step)]]
    BY <1>2
<1>4. Without(list, names) = kept[n]
    BY Zenon DEF Without, Keeps
<1> HIDE DEF n, empty
<1>5. PICK f : Walk(f, n, Seq(Step), empty, next)
    <2>1. next \in Ways(n, Seq(Step))
        BY <1>3 DEF Ways
    <2> HIDE DEF next
    <2> QED
        BY <1>1, <2>1, Walks, Zenon
<1>6. ASSUME NEW k \in 1..n PROVE f[k] = Keeps(list, names, k, f[k-1])
    <2>1. f[k-1] \in Seq(Step)
        BY <1>1, <1>5 DEF Walk
    <2>2. f[k] = next[k][f[k-1]]
        BY <1>5 DEF Walk
    <2> QED
        BY <2>1, <2>2, Zenon
<1>7. \A k \in 0..n : f[k] = Value(f, k)
    BY <1>1, <1>5, <1>6 DEF Walk
<1>8. f = [k \in 0..n |-> Value(f, k)]
    <2> HIDE DEF Value
    <2> QED
        BY <1>5, <1>7 DEF Walk
<1>9. kept = [k \in 0..n |-> Value(kept, k)]
    <2> HIDE DEF Value
    <2> QED
        BY <1>8, Zenon
<1> HIDE DEF kept
<1>10. kept[0] = empty /\ \A k \in 1..n : kept[k] = Keeps(list, names, k, kept[k-1])
    <2>1. \A k \in 0..n : kept[k] = Value(kept, k)
        BY <1>9, Zenon
    <2> QED
        BY <1>1, <2>1
<1>11. \A k \in 0..n : kept[k] \in Seq(Step)
    <2> DEFINE T == {k \in 0..n : kept[k] \in Seq(Step)}
    <2>1. 0 \in T
        BY <1>1, <1>10
    <2>2. ASSUME NEW k \in 0..(n-1), k \in T PROVE k + 1 \in T
        <3>1. k + 1 \in 1..n /\ (k + 1) - 1 = k /\ kept[k] \in Seq(Step)
            BY <1>1, <2>2
        <3>2. kept[k+1] = Keeps(list, names, k + 1, kept[k])
            BY <1>10, <3>1
        <3>3. kept[k+1] \in Seq(Step)
            BY <1>2, <3>1, <3>2
        <3> QED
            BY <3>1, <3>3
    <2>3. \A k \in 0..n : k \in T
        <3> HIDE DEF T
        <3> QED
            BY <1>1, <2>1, <2>2, UpTo
    <2> QED
        BY <2>3
<1>12. kept \in [0..n -> Seq(Step)]
    BY <1>9, <1>11
<1> QED
    BY <1>4, <1>10, <1>12 DEF n, empty

\* The first k steps of the list but for those of the names, taken one after the other at
\* the places that h gives, are sub.
Picked(list, names, k, sub, h) ==
    /\ h \in [1..Len(sub) -> 1..k]
    /\ \A i \in 1..Len(sub) : sub[i] = list[h[i]] /\ list[h[i]].name \notin names
    /\ \A i, j \in 1..Len(sub) : i < j => h[i] < h[j]
    /\ \A j \in 1..k : list[j].name \notin names => \E i \in 1..Len(sub) : h[i] = j

\* Without keeps the other steps, in their order, and no more.
LEMMA WithoutPicks ==
    ASSUME NEW list \in Seq(Step), NEW names
    PROVE  /\ Without(list, names) \in Seq(Step)
           /\ \E h : Picked(list, names, Len(list), Without(list, names), h)
<1>1. PICK kept \in [0..Len(list) -> Seq(Step)] :
              /\ kept[0] = <<>>
              /\ \A k \in 1..Len(list) : kept[k] = Keeps(list, names, k, kept[k-1])
              /\ Without(list, names) = kept[Len(list)]
    BY WithoutSteps
<1> DEFINE n == Len(list)
           T == {k \in 0..n : \E h : Picked(list, names, k, kept[k], h)}
<1>2. n \in Nat
    OBVIOUS
<1>3. 0 \in T
    <2>1. Len(kept[0]) = 0
        BY <1>1
    <2>2. Picked(list, names, 0, kept[0], [i \in {} |-> 0])
        BY <2>1 DEF Picked
    <2> QED
        BY <1>2, <2>2
<1>4. ASSUME NEW k \in 0..(n-1), k \in T PROVE k + 1 \in T
    <2>1. PICK h : Picked(list, names, k, kept[k], h)
        BY <1>4
    <2> DEFINE s == kept[k]
               l == Len(s)
    <2>2. k \in Nat /\ k + 1 \in 1..n /\ (k + 1) - 1 = k /\ k \in 0..n
        BY <1>2
    <2>3. kept[k+1] = Keeps(list, names, k + 1, s)
        BY <1>1, <2>2
    <2>4. s \in Seq(Step) /\ l \in Nat /\ list[k+1] \in Step
        BY <2>2
    <2>5. CASE list[k+1].name \in names
        <3>1. kept[k+1] = s
            BY <2>3, <2>5 DEF Keeps
        <3>2. Picked(list, names, k + 1, s, h)
            <4> HIDE DEF s
            <4>1. Picked(list, names, k, s, h)
                BY <2>1 DEF s
            <4> QED
                BY <4>1, <2>2, <2>4, <2>5 DEF Picked
        <3> QED
            BY <2>2, <3>1, <3>2
    <2>6. CASE list[k+1].name \notin names
        <3> DEFINE new == Append(s, list[k+1])
                   g == [i \in 1..(l+1) |-> IF i = l + 1 THEN k + 1 ELSE h[i]]
        <3>1. kept[k+1] = new
            BY <2>3, <2>6 DEF Keeps
        <3>2. Len(new) = l + 1 /\ new[l+1] = list[k+1] /\ \A i \in 1..l : new[i] = s[i]
            BY <2>4
        <3> HIDE DEF s, new, l
        <3>3. /\ h \in [1..l -> 1..k]
              /\ \A i \in 1..l : s[i] = list[h[i]] /\ list[h[i]].name \notin names
              /\ \A i, j \in 1..l : i < j => h[i] < h[j]
              /\ \A j \in 1..k : list[j].name \notin names => \E i \in 1..l : h[i] = j
            BY <2>1 DEF Picked, s, l
        <3>4. \A i \in 1..l : g[i] = h[i] /\ h[i] \in 1..k
            BY <2>4, <3>3
        <3>5. g[l+1] = k + 1
            BY <2>4
        <3>6. g \in [1..(l+1) -> 1..(k+1)]
            BY <2>2, <2>4, <3>3
        <3>7. \A i \in 1..(l+1) : i = l + 1 \/ i \in 1..l
            BY <2>4
        <3>8. ASSUME NEW i \in 1..(l+1) PROVE new[i] = list[g[i]] /\ list[g[i]].name \notin names
            BY <2>6, <3>2, <3>3, <3>4, <3>5, <3>7
        <3>9. ASSUME NEW i \in 1..(l+1), NEW j \in 1..(l+1), i < j PROVE g[i] < g[j]
            <4>1. i \in 1..l
                BY <2>4, <3>9
            <4> QED
                BY <2>2, <3>3, <3>4, <3>5, <3>7, <3>9, <4>1
        <3>10. ASSUME NEW j \in 1..(k+1), list[j].name \notin names
               PROVE  \E i \in 1..(l+1) : g[i] = j
            <4>1. CASE j = k + 1
                BY <2>4, <3>5, <4>1
            <4>2. CASE j \in 1..k
                BY <2>4, <3>3, <3>4, <3>10, <4>2
            <4> QED
                BY <2>2, <4>1, <4>2
        <3>11. Picked(list, names, k + 1, new, g)
            <4> HIDE DEF g
            <4> QED
                BY <3>2, <3>6, <3>8, <3>9, <3>10 DEF Picked
        <3> QED
            BY <2>2, <3>1, <3>11
    <2> QED
        BY <2>5, <2>6
<1>5. \A k \in 0..n : k \in T
    <2> HIDE DEF T, n
    <2> QED
        BY <1>2, <1>3, <1>4, UpTo
<1>6. n \in 0..n
    BY <1>2
<1> QED
    BY <1>1, <1>5, <1>6

-----------------------------------------------------------------------------
(* Workflows that finish, told of the steps rather than of their names *)

Distinct(list) == \A i, j \in DOMAIN list : list[i].name = list[j].name => i = j

\* What a step waits on among the names.
Wait(step, names) == ((step.deps \cup Inputs[step.name]) \cap names) \ {step.name}

\* Of any steps one waits on none of them.
Turns(list) ==
    \A S \in SUBSET NamesOf(list) :
       S # {} => \E i \in DOMAIN list : list[i].name \in S /\ Wait(list[i], NamesOf(list)) \cap S = {}

InOrder(list) ==
    \A i, j \in DOMAIN list : i < j => list[j].name \notin Wait(list[i], NamesOf(list))

LEMMA NamesAreFinite ==
    ASSUME NEW list \in Seq(Step)
    PROVE  /\ IsFiniteSet(NamesOf(list))
           /\ NamesOf(list) \subseteq Names
           /\ Unique(list) <=> Distinct(list)
<1> DEFINE n == Len(list)
           f == [i \in 1..n |-> list[i].name]
           N == NamesOf(list)
<1>1. n \in Nat /\ DOMAIN list = 1..n /\ \A i \in 1..n : list[i] \in Step
    OBVIOUS
<1>2. N \subseteq Names
    BY <1>1 DEF NamesOf, Step
<1>3. f \in [1..n -> N] /\ \A x \in N : \E i \in 1..n : f[i] = x
    BY <1>1 DEF NamesOf
<1>4. f \in Surjection(1..n, N)
    BY <1>3, Zenon DEF Surjection
<1>5. IsFiniteSet(1..n) /\ Cardinality(1..n) = n
    <2>1. 1 \in Int /\ n \in Int /\ (IF 1 > n THEN 0 ELSE n - 1 + 1) = n
        BY <1>1
    <2> HIDE DEF n
    <2> QED
        BY <2>1, FS_Interval
<1>6. /\ IsFiniteSet(N)
      /\ Cardinality(N) = Cardinality(1..n) <=> f \in Injection(1..n, N)
    <2> HIDE DEF f, N
    <2> QED
        BY <1>4, <1>5, FS_Surjection
<1>7. f \in Injection(1..n, N) <=> \A i, j \in 1..n : f[i] = f[j] => i = j
    BY <1>3 DEF Injection, IsInjective
<1>8. (\A i, j \in 1..n : f[i] = f[j] => i = j) <=> Distinct(list)
    BY <1>1 DEF Distinct
<1> QED
    BY <1>2, <1>5, <1>6, <1>7, <1>8 DEF Unique

\* In a list of distinct names a step is found by its name.
LEMMA FoundByName ==
    ASSUME NEW list \in Seq(Step), Distinct(list), NEW i \in DOMAIN list
    PROVE  First(list, list[i].name) = i /\ Last(list, list[i].name) = i
<1>1. /\ Len(list) \in Nat /\ DOMAIN list = 1..Len(list)
      /\ \A j \in DOMAIN list : list[j].name = list[i].name => j = i
    BY DEF Distinct
<1> DEFINE P(k) == list[k].name = list[i].name /\ \A j \in 1..(k-1) : list[j].name # list[i].name
           Q(k) == list[k].name = list[i].name /\ \A j \in (k+1)..Len(list) : list[j].name # list[i].name
<1>2. P(i) /\ Q(i)
    BY <1>1
<1>3. \A k \in DOMAIN list : P(k) \/ Q(k) => k = i
    BY <1>1
<1>4. (CHOOSE k \in DOMAIN list : P(k)) = i
    <2> HIDE DEF P, Q
    <2> QED
        BY <1>2, <1>3
<1>5. (CHOOSE k \in DOMAIN list : Q(k)) = i
    <2> HIDE DEF P, Q
    <2> QED
        BY <1>2, <1>3
<1> QED
    BY <1>4, <1>5 DEF First, Last

LEMMA WaitsAre ==
    ASSUME NEW list \in Seq(Step), Distinct(list)
    PROVE  /\ DOMAIN waitsOn(list) = NamesOf(list)
           /\ \A i \in DOMAIN list : waitsOn(list)[list[i].name] = Wait(list[i], NamesOf(list))
<1>1. DOMAIN waitsOn(list) = NamesOf(list)
    BY DEF waitsOn
<1>2. ASSUME NEW i \in DOMAIN list
      PROVE  waitsOn(list)[list[i].name] = Wait(list[i], NamesOf(list))
    <2>1. list[i].name \in NamesOf(list)
        BY DEF NamesOf
    <2>2. Last(list, list[i].name) = i
        BY FoundByName
    <2> QED
        BY <2>1, <2>2, Zenon DEF waitsOn, Wait
<1> QED
    BY <1>1, <1>2

LEMMA TurnsIs ==
    ASSUME NEW list \in Seq(Step), Distinct(list)
    PROVE  LoopFree(list) <=> Turns(list)
<1> DEFINE N == NamesOf(list)
           W == waitsOn(list)
<1>1. \A i \in DOMAIN list : list[i].name \in N /\ W[list[i].name] = Wait(list[i], N)
    BY WaitsAre DEF NamesOf
<1>2. \A x \in N : \E i \in DOMAIN list : list[i].name = x
    BY DEF NamesOf
<1>3. ASSUME NEW S \in SUBSET N
      PROVE  (\E x \in S : W[x] \cap S = {})
                <=> \E i \in DOMAIN list : list[i].name \in S /\ Wait(list[i], N) \cap S = {}
    <2> HIDE DEF N, W
    <2>1. ASSUME NEW x \in S, W[x] \cap S = {}
          PROVE  \E i \in DOMAIN list : list[i].name \in S /\ Wait(list[i], N) \cap S = {}
        <3>1. PICK i \in DOMAIN list : list[i].name = x
            BY <1>2
        <3> QED
            BY <1>1, <2>1, <3>1
    <2>2. ASSUME NEW i \in DOMAIN list, list[i].name \in S, Wait(list[i], N) \cap S = {}
          PROVE  \E x \in S : W[x] \cap S = {}
        BY <1>1, <2>2
    <2> QED
        BY <2>1, <2>2
<1> QED
    BY <1>3, Zenon DEF LoopFree, Turns

LEMMA FinishesIs ==
    ASSUME NEW list \in Seq(Step), NEW m
    PROVE  Finishes(list, m) <=> /\ Distinct(list) /\ NamesOthers(list) /\ Turns(list)
                                 /\ m = "StepByStep" => InOrder(list)
<1>1. Unique(list) <=> Distinct(list)
    BY NamesAreFinite
<1>2. ASSUME Distinct(list) PROVE LoopFree(list) <=> Turns(list)
    BY <1>2, TurnsIs
<1>3. ASSUME Distinct(list) PROVE forwardWaits(list) = {} <=> InOrder(list)
    <2> DEFINE N == NamesOf(list)
               W == waitsOn(list)
               At(i) == {<<list[i].name, list[j].name>> :
                           j \in {k \in DOMAIN list : k > i /\ list[k].name \in W[list[i].name]}}
    <2>1. forwardWaits(list) = UNION {At(i) : i \in DOMAIN list}
        BY DEF forwardWaits
    <2>2. \A i \in DOMAIN list : W[list[i].name] = Wait(list[i], N)
        BY <1>3, WaitsAre
    <2>3. DOMAIN list \subseteq Nat
        OBVIOUS
    <2>4. ASSUME NEW i \in DOMAIN list
          PROVE  At(i) = {} <=> \A j \in DOMAIN list : i < j => list[j].name \notin Wait(list[i], N)
        <3> HIDE DEF N, W
        <3> QED
            BY <2>2, <2>3
    <2>5. UNION {At(i) : i \in DOMAIN list} = {} <=> \A i \in DOMAIN list : At(i) = {}
        <3> HIDE DEF At
        <3> QED
            BY Zenon
    <2> HIDE DEF At
    <2> QED
        BY <2>1, <2>4, <2>5 DEF InOrder
<1> QED
    BY <1>1, <1>2, <1>3 DEF Finishes

-----------------------------------------------------------------------------
(* Steps put elsewhere, and steps that wait on less *)

\* The same steps in another order.
Rearranged(list, new) ==
    /\ Distinct(new)
    /\ NamesOf(new) = NamesOf(list)
    /\ \A i \in DOMAIN new : \E j \in DOMAIN list : new[i] = list[j]

LEMMA NamesWithin ==
    ASSUME NEW list, NEW new, \A i \in DOMAIN new : \E j \in DOMAIN list : new[i].name = list[j].name
    PROVE  NamesOf(new) \subseteq NamesOf(list)
BY DEF NamesOf

LEMMA RearrangedKeeps ==
    ASSUME NEW list, NEW new,
           Distinct(list), NamesOthers(list), Turns(list), Rearranged(list, new)
    PROVE  NamesOthers(new) /\ Turns(new)
<1>1. NamesOthers(new)
    BY DEF NamesOthers, Rearranged
<1>2. ASSUME NEW S \in SUBSET NamesOf(new), S # {}
      PROVE  \E i \in DOMAIN new : new[i].name \in S /\ Wait(new[i], NamesOf(new)) \cap S = {}
    <2>1. PICK j \in DOMAIN list : list[j].name \in S /\ Wait(list[j], NamesOf(list)) \cap S = {}
        BY <1>2 DEF Turns, Rearranged
    <2>2. PICK i \in DOMAIN new : new[i].name = list[j].name
        BY <2>1 DEF NamesOf
    <2>3. new[i] = list[j]
        BY <2>2 DEF Rearranged, Distinct
    <2> QED
        BY <2>1, <2>3 DEF Rearranged
<1> QED
    BY <1>1, <1>2 DEF Turns

\* The steps at i and j change places.
LEMMA SwapRearranges ==
    ASSUME NEW list \in Seq(Step), Distinct(list), NEW i \in DOMAIN list, NEW j \in DOMAIN list
    PROVE  /\ swap(list, i, j) \in Seq(Step)
           /\ Rearranged(list, swap(list, i, j))
<1> DEFINE new == swap(list, i, j)
           n == Len(list)
<1>1. n \in Nat /\ DOMAIN list = 1..n /\ list \in [1..n -> Step]
    OBVIOUS
<1>2. /\ new \in [1..n -> Step]
      /\ \A k \in 1..n : new[k] = IF k = j THEN list[i] ELSE IF k = i THEN list[j] ELSE list[k]
    BY <1>1 DEF swap
<1>3. new \in Seq(Step) /\ DOMAIN new = 1..n
    BY <1>1, <1>2
<1> HIDE DEF new, n
<1>4. Distinct(new)
    BY <1>1, <1>2, <1>3 DEF Distinct
<1>5. \A k \in 1..n : \E l \in 1..n : new[k] = list[l]
    BY <1>1, <1>2
<1>6. \A k \in 1..n : \E l \in 1..n : list[k] = new[l]
    BY <1>1, <1>2
<1>7. NamesOf(new) = NamesOf(list)
    <2>1. NamesOf(new) \subseteq NamesOf(list)
        BY <1>1, <1>3, <1>5, NamesWithin
    <2>2. NamesOf(list) \subseteq NamesOf(new)
        BY <1>1, <1>3, <1>6, NamesWithin
    <2> QED
        BY <2>1, <2>2
<1> QED
    BY <1>1, <1>3, <1>4, <1>5, <1>7 DEF Rearranged, new

\* A step and its neighbour, of which the later does not wait on the earlier, change places.
LEMMA MoveKeeps ==
    ASSUME NEW list \in Seq(Step), NEW i \in DOMAIN list, NEW j \in DOMAIN list,
           j = i + 1 \/ i = j + 1, canMove(list, i, j),
           Finishes(list, "StepByStep")
    PROVE  Finishes(swap(list, i, j), "StepByStep")
<1> DEFINE new == swap(list, i, j)
           n == Len(list)
           N == NamesOf(list)
           a == IF i < j THEN i ELSE j
           b == IF i < j THEN j ELSE i
<1>1. Distinct(list) /\ NamesOthers(list) /\ Turns(list) /\ InOrder(list)
    BY FinishesIs
<1>2. new \in Seq(Step) /\ Rearranged(list, new)
    BY <1>1, SwapRearranges
<1>3. n \in Nat /\ DOMAIN list = 1..n /\ list \in [1..n -> Step]
    OBVIOUS
<1>4. /\ a \in 1..n /\ b \in 1..n /\ b = a + 1
      /\ DOMAIN new = 1..n
      /\ \A k \in 1..n : new[k] = IF k = a THEN list[b] ELSE IF k = b THEN list[a] ELSE list[k]
    BY <1>3 DEF swap
<1>5. list[a].name \notin Wait(list[b], N)
    BY <1>1, <1>4, <1>3, WaitsAre DEF canMove
<1>6. NamesOf(new) = N
    BY <1>2 DEF Rearranged
<1> HIDE DEF new, a, b, n, N
<1>7. ASSUME NEW k \in 1..n, NEW l \in 1..n, k < l PROVE new[l].name \notin Wait(new[k], N)
    <2>1. \A x, y \in 1..n : x < y => list[y].name \notin Wait(list[x], N)
        BY <1>1, <1>3 DEF InOrder, N
    <2>2. CASE k = a /\ l = b
        BY <1>4, <1>5, <2>2
    <2>3. CASE ~ (k = a /\ l = b)
        <3> DEFINE p(x) == IF x = a THEN b ELSE IF x = b THEN a ELSE x
        <3>1. p(k) \in 1..n /\ p(l) \in 1..n /\ p(k) < p(l)
            BY <1>3, <1>4, <1>7, <2>3
        <3>2. new[k] = list[p(k)] /\ new[l] = list[p(l)]
            BY <1>4
        <3> HIDE DEF p
        <3> QED
            BY <2>1, <3>1, <3>2
    <2> QED
        BY <2>2, <2>3
<1>8. InOrder(new)
    BY <1>4, <1>6, <1>7 DEF InOrder
<1> QED
    BY <1>1, <1>2, <1>8, RearrangedKeeps, FinishesIs DEF Rearranged, new

\* The same names, each with at most the entries it had.
LEMMA FewerWaitsKeep ==
    ASSUME NEW list \in Seq(Step), NEW new \in Seq(Step), NEW m,
           DOMAIN new = DOMAIN list,
           \A i \in DOMAIN list : new[i].name = list[i].name /\ new[i].deps \subseteq list[i].deps,
           Finishes(list, m)
    PROVE  Finishes(new, m)
<1>1. NamesOf(new) = NamesOf(list)
    BY DEF NamesOf
<1>2. \A i \in DOMAIN list : Wait(new[i], NamesOf(new)) \subseteq Wait(list[i], NamesOf(list))
    BY <1>1 DEF Wait
<1>3. Distinct(list) /\ NamesOthers(list) /\ Turns(list) /\ (m = "StepByStep" => InOrder(list))
    BY FinishesIs
<1>4. Distinct(new)
    BY <1>3 DEF Distinct
<1>5. NamesOthers(new)
    BY <1>1, <1>3 DEF NamesOthers
<1>6. Turns(new)
    <2> SUFFICES ASSUME NEW S \in SUBSET NamesOf(new), S # {}
                 PROVE  \E i \in DOMAIN new : new[i].name \in S /\ Wait(new[i], NamesOf(new)) \cap S = {}
        BY DEF Turns
    <2>1. PICK i \in DOMAIN list : list[i].name \in S /\ Wait(list[i], NamesOf(list)) \cap S = {}
        BY <1>1, <1>3 DEF Turns
    <2> QED
        BY <1>2, <2>1
<1>7. m = "StepByStep" => InOrder(new)
    BY <1>2, <1>3 DEF InOrder
<1> QED
    BY <1>4, <1>5, <1>6, <1>7, FinishesIs

\* Steps are left with the waits they had, but for one on a step.
LEMMA UnlinkKeeps ==
    ASSUME NEW list \in Seq(Step), NEW from, NEW to, NEW m
    PROVE  /\ removeDependency(list, from, to) \in Seq(Step)
           /\ Finishes(list, m) => Finishes(removeDependency(list, from, to), m)
<1> DEFINE new == removeDependency(list, from, to)
           n == Len(list)
<1>1. n \in Nat /\ DOMAIN list = 1..n /\ \A i \in 1..n : list[i] \in Step
    OBVIOUS
<1>2. \A i \in 1..n : /\ new[i] \in Step
                      /\ new[i].name = list[i].name
                      /\ new[i].deps \subseteq list[i].deps
    BY <1>1 DEF removeDependency, Step
<1>3. new \in [1..n -> Step]
    BY <1>1, <1>2 DEF removeDependency
<1>4. new \in Seq(Step) /\ DOMAIN new = 1..n
    BY <1>1, <1>3
<1> QED
    <2> HIDE DEF new, n
    <2>1. Finishes(list, m) => Finishes(new, m)
        BY <1>1, <1>2, <1>4, FewerWaitsKeep
    <2> QED
        BY <1>4, <2>1 DEF new

-----------------------------------------------------------------------------
(* A step is taken out *)

LEMMA DeleteKeeps ==
    ASSUME NEW list \in Seq(Step), NEW x, NEW m
    PROVE  /\ withoutDependency(Without(list, {x}), x) \in Seq(Step)
           /\ Finishes(list, m) => Finishes(withoutDependency(Without(list, {x}), x), m)
<1> DEFINE n == Len(list)
           w == Without(list, {x})
           l == Len(w)
           r == withoutDependency(w, x)
           N == NamesOf(list)
<1>1. n \in Nat /\ DOMAIN list = 1..n /\ \A i \in 1..n : list[i] \in Step
    OBVIOUS
<1>2. w \in Seq(Step) /\ l \in Nat /\ DOMAIN w = 1..l /\ \A i \in 1..l : w[i] \in Step
    BY WithoutPicks
<1>3. PICK h : Picked(list, {x}, n, w, h)
    BY WithoutPicks
<1> HIDE DEF n, w
<1>4. /\ h \in [1..l -> 1..n]
      /\ \A i \in 1..l : w[i] = list[h[i]] /\ list[h[i]].name # x
      /\ \A i, j \in 1..l : i < j => h[i] < h[j]
      /\ \A j \in 1..n : list[j].name # x => \E i \in 1..l : h[i] = j
    BY <1>3 DEF Picked
<1>5. \A i \in 1..l : r[i] \in Step /\ r[i].name = w[i].name /\ r[i].deps = w[i].deps \ {x}
    BY <1>2 DEF withoutDependency, Step
<1>6. r \in [1..l -> Step]
    BY <1>2, <1>5 DEF withoutDependency
<1>7. r \in Seq(Step) /\ DOMAIN r = 1..l
    BY <1>2, <1>6
<1> HIDE DEF l, r
<1>8. \A i \in 1..l : /\ h[i] \in 1..n
                      /\ r[i].name = list[h[i]].name /\ r[i].name # x
                      /\ r[i].deps = list[h[i]].deps \ {x}
    BY <1>4, <1>5
<1>9. NamesOf(r) = N \ {x}
    <2>1. \A y \in NamesOf(r) : y \in N /\ y # x
        BY <1>1, <1>7, <1>8 DEF NamesOf
    <2>2. ASSUME NEW y \in N, y # x PROVE y \in NamesOf(r)
        <3>1. PICK j \in 1..n : list[j].name = y
            BY <1>1 DEF NamesOf
        <3>2. PICK i \in 1..l : h[i] = j
            BY <1>4, <2>2, <3>1
        <3> QED
            BY <1>7, <1>8, <3>1, <3>2 DEF NamesOf
    <2> QED
        BY <2>1, <2>2
<1>10. \A i \in 1..l : Wait(r[i], NamesOf(r)) \subseteq Wait(list[h[i]], N)
    BY <1>8, <1>9 DEF Wait
<1> HIDE DEF N
<1>11. ASSUME Finishes(list, m) PROVE Finishes(r, m)
    <2>1. Distinct(list) /\ NamesOthers(list) /\ Turns(list) /\ (m = "StepByStep" => InOrder(list))
        BY <1>11, FinishesIs
    <2>2. Distinct(r)
        <3> SUFFICES ASSUME NEW i \in 1..l, NEW j \in 1..l, r[i].name = r[j].name PROVE i = j
            BY <1>7 DEF Distinct
        <3>1. h[i] = h[j]
            BY <1>1, <1>8, <2>1 DEF Distinct
        <3>2. i \in Nat /\ j \in Nat /\ h[i] \in Nat
            BY <1>8
        <3> QED
            BY <1>4, <3>1, <3>2
    <2>3. NamesOthers(r)
        <3>1. \A i \in 1..l : list[h[i]].deps \subseteq N \ {r[i].name}
            BY <1>1, <1>8, <2>1 DEF NamesOthers, N
        <3> QED
            BY <1>7, <1>8, <1>9, <3>1 DEF NamesOthers
    <2>4. Turns(r)
        <3> SUFFICES ASSUME NEW S \in SUBSET NamesOf(r), S # {}
                     PROVE  \E i \in 1..l : r[i].name \in S /\ Wait(r[i], NamesOf(r)) \cap S = {}
            BY <1>7 DEF Turns
        <3>1. S \in SUBSET N
            BY <1>9
        <3>2. PICK j \in 1..n : list[j].name \in S /\ Wait(list[j], N) \cap S = {}
            BY <1>1, <2>1, <3>1 DEF Turns, N
        <3>3. PICK i \in 1..l : h[i] = j
            BY <1>4, <1>9, <3>2
        <3> QED
            BY <1>8, <1>10, <3>2, <3>3
    <2>5. ASSUME m = "StepByStep" PROVE InOrder(r)
        <3> SUFFICES ASSUME NEW i \in 1..l, NEW j \in 1..l, i < j
                     PROVE  r[j].name \notin Wait(r[i], NamesOf(r))
            BY <1>7 DEF InOrder
        <3>1. list[h[j]].name \notin Wait(list[h[i]], N)
            BY <1>1, <1>4, <2>1, <2>5 DEF InOrder, N
        <3> QED
            BY <1>8, <1>10, <3>1
    <2> QED
        BY <1>7, <2>2, <2>3, <2>4, <2>5, FinishesIs
<1> QED
    BY <1>7, <1>11 DEF r, w

-----------------------------------------------------------------------------
(* Steps put in order *)

LEMMA Least ==
    ASSUME NEW S \in SUBSET Nat, S # {}
    PROVE  \E x \in S : \A y \in S : x <= y
<1>1. PICK x \in S : \A y \in S : ~ (<<y, x>> \in OpToRel(<, Nat))
    BY NatLessThanWellFounded, WFMin
<1>2. \A y \in S : ~ (y < x)
    BY <1>1 DEF OpToRel
<1> QED
    BY <1>2

\* The places of the steps that may come next, once those of s have.
FreeAfter(list, s) ==
    {i \in DOMAIN list : /\ list[i].name \notin NamesOf(s)
                         /\ waitsOn(list)[list[i].name] \subseteq NamesOf(s)}

Placed(list, s) ==
    IF FreeAfter(list, s) = {} THEN s
    ELSE Append(s, list[CHOOSE i \in FreeAfter(list, s) : \A j \in FreeAfter(list, s) : i <= j])

\* The first of the free steps, if there is one, is placed.
LEMMA PlacedIs ==
    ASSUME NEW list \in Seq(Step), NEW s \in Seq(Step)
    PROVE  /\ Placed(list, s) \in Seq(Step)
           /\ FreeAfter(list, s) = {} => Placed(list, s) = s
           /\ FreeAfter(list, s) # {}
                 => \E i \in FreeAfter(list, s) : /\ \A j \in FreeAfter(list, s) : i <= j
                                                  /\ Placed(list, s) = Append(s, list[i])
<1> DEFINE F == FreeAfter(list, s)
           first == CHOOSE i \in F : \A j \in F : i <= j
<1>1. F \subseteq DOMAIN list /\ DOMAIN list = 1..Len(list) /\ Len(list) \in Nat
    BY DEF FreeAfter
<1>2. CASE F = {}
    BY <1>2 DEF Placed
<1>3. CASE F # {}
    <2>1. \E i \in F : \A j \in F : i <= j
        <3>1. F \in SUBSET Nat
            BY <1>1
        <3> HIDE DEF F
        <3> QED
            BY <1>3, <3>1, Least
    <2>2. first \in F /\ \A j \in F : first <= j
        <3> HIDE DEF F
        <3> QED
            BY <2>1
    <2>3. Placed(list, s) = Append(s, list[first])
        BY <1>3 DEF Placed
    <2>4. list[first] \in Step
        <3> HIDE DEF first
        <3> QED
            BY <1>1, <2>2
    <2> HIDE DEF first
    <2>5. Append(s, list[first]) \in Seq(Step)
        BY <2>4
    <2> QED
        BY <1>3, <2>2, <2>3, <2>5
<1> QED
    BY <1>2, <1>3

LEMMA OrderSteps ==
    ASSUME NEW list \in Seq(Step)
    PROVE  \E place \in [0..Len(list) -> Seq(Step)] :
              /\ place[0] = <<>>
              /\ \A k \in 1..Len(list) : place[k] = Placed(list, place[k-1])
              /\ orderByDependencies(list)
                   = place[Len(list)] \o Without(list, NamesOf(place[Len(list)]))
<1> DEFINE n == Len(list)
           empty == <<>>
           next == [k \in 1..n |-> [s \in Seq(Step) |-> Placed(list, s)]]
           Value(f, k) == IF k = 0 THEN empty ELSE Placed(list, f[k-1])
           place == CHOOSE f : f = [k \in 0..n |-> Value(f, k)]
<1>1. n \in Nat /\ empty \in Seq(Step)
    OBVIOUS
<1>2. \A s \in Seq(Step) : Placed(list, s) \in Seq(Step)
    BY PlacedIs
<1>3. next \in [1..n -> [Seq(Step) -> Seq(Step)]]
    BY <1>2
<1>4. orderByDependencies(list) = place[n] \o Without(list, NamesOf(place[n]))
    BY Zenon DEF orderByDependencies, Placed, FreeAfter
<1> HIDE DEF n, empty
<1>5. PICK f : Walk(f, n, Seq(Step), empty, next)
    <2>1. next \in Ways(n, Seq(Step))
        BY <1>3 DEF Ways
    <2> HIDE DEF next
    <2> QED
        BY <1>1, <2>1, Walks, Zenon
<1>6. ASSUME NEW k \in 1..n PROVE f[k] = Placed(list, f[k-1])
    <2>1. f[k-1] \in Seq(Step)
        BY <1>1, <1>5 DEF Walk
    <2>2. f[k] = next[k][f[k-1]]
        BY <1>5 DEF Walk
    <2> QED
        BY <2>1, <2>2, Zenon
<1>7. \A k \in 0..n : f[k] = Value(f, k)
    BY <1>1, <1>5, <1>6 DEF Walk
<1>8. f = [k \in 0..n |-> Value(f, k)]
    <2> HIDE DEF Value
    <2> QED
        BY <1>5, <1>7 DEF Walk
<1>9. place = [k \in 0..n |-> Value(place, k)]
    <2> HIDE DEF Value
    <2> QED
        BY <1>8, Zenon
<1> HIDE DEF place
<1>10. place[0] = empty /\ \A k \in 1..n : place[k] = Placed(list, place[k-1])
    <2>1. \A k \in 0..n : place[k] = Value(place, k)
        BY <1>9, Zenon
    <2> QED
        BY <1>1, <2>1
<1>11. \A k \in 0..n : place[k] \in Seq(Step)
    <2> DEFINE T == {k \in 0..n : place[k] \in Seq(Step)}
    <2>1. 0 \in T
        BY <1>1, <1>10
    <2>2. ASSUME NEW k \in 0..(n-1), k \in T PROVE k + 1 \in T
        <3>1. k + 1 \in 1..n /\ (k + 1) - 1 = k /\ place[k] \in Seq(Step)
            BY <1>1, <2>2
        <3>2. place[k+1] = Placed(list, place[k])
            BY <1>10, <3>1
        <3>3. place[k+1] \in Seq(Step)
            BY <1>2, <3>1, <3>2
        <3> QED
            BY <3>1, <3>3
    <2>3. \A k \in 0..n : k \in T
        <3> HIDE DEF T
        <3> QED
            BY <1>1, <2>1, <2>2, UpTo
    <2> QED
        BY <2>3
<1>12. place \in [0..n -> Seq(Step)]
    BY <1>9, <1>11
<1> QED
    BY <1>4, <1>10, <1>12 DEF n, empty

\* k steps of the list are placed, each after those it waits on.
PlacedSoFar(list, k, s) ==
    /\ Len(s) = k
    /\ Distinct(s)
    /\ \A i \in 1..k : \E j \in DOMAIN list : s[i] = list[j]
    /\ \A i \in 1..k : \A y \in Wait(s[i], NamesOf(list)) : \E j \in 1..(i-1) : s[j].name = y

LEMMA NameCount ==
    ASSUME NEW list \in Seq(Step), Distinct(list)
    PROVE  Cardinality(NamesOf(list)) = Len(list)
BY NamesAreFinite DEF Unique

\* While a step is left there is one whose turn it is.
LEMMA FreeLeft ==
    ASSUME NEW list \in Seq(Step), Distinct(list), Turns(list),
           NEW k \in 0..(Len(list) - 1), NEW s \in Seq(Step), Len(s) = k, Distinct(s)
    PROVE  FreeAfter(list, s) # {}
<1> DEFINE n == Len(list)
           N == NamesOf(list)
           S == N \ NamesOf(s)
           F == FreeAfter(list, s)
<1>1. n \in Nat /\ DOMAIN list = 1..n /\ k \in Nat /\ k < n
    OBVIOUS
<1>2. S # {}
    <2>1. Cardinality(N) = n /\ Cardinality(NamesOf(s)) = k
        BY NameCount
    <2>2. IsFiniteSet(NamesOf(s))
        BY NamesAreFinite
    <2>3. ASSUME S = {} PROVE FALSE
        <3>1. N \in SUBSET NamesOf(s)
            BY <2>3
        <3>2. Cardinality(N) <= Cardinality(NamesOf(s))
            BY <2>2, <3>1, FS_Subset
        <3> HIDE DEF n, N
        <3> QED
            BY <1>1, <2>1, <3>2
    <2> QED
        BY <2>3
<1>3. F # {}
    <2>1. PICK i \in DOMAIN list : list[i].name \in S /\ Wait(list[i], N) \cap S = {}
        BY <1>2 DEF Turns
    <2>2. Wait(list[i], N) \subseteq NamesOf(s)
        BY <2>1 DEF Wait
    <2>3. waitsOn(list)[list[i].name] = Wait(list[i], N)
        BY WaitsAre
    <2>4. i \in F
        BY <2>1, <2>2, <2>3 DEF FreeAfter
    <2> QED
        BY <2>4
<1> QED
    BY <1>3

\* It is placed after those it waits on.
LEMMA PlacesOneMore ==
    ASSUME NEW list \in Seq(Step), Distinct(list), Turns(list),
           NEW k \in 0..(Len(list) - 1), NEW s \in Seq(Step), PlacedSoFar(list, k, s)
    PROVE  PlacedSoFar(list, k + 1, Placed(list, s))
<1> DEFINE n == Len(list)
           N == NamesOf(list)
           F == FreeAfter(list, s)
<1>1. n \in Nat /\ DOMAIN list = 1..n /\ k \in Nat /\ k < n
    OBVIOUS
<1>2. /\ Len(s) = k /\ DOMAIN s = 1..k /\ Distinct(s)
      /\ \A i \in 1..k : \E j \in DOMAIN list : s[i] = list[j]
      /\ \A i \in 1..k : \A y \in Wait(s[i], N) : \E j \in 1..(i-1) : s[j].name = y
    BY DEF PlacedSoFar
<1>4. F # {}
    BY <1>2, FreeLeft
<1>5. PICK i \in F : Placed(list, s) = Append(s, list[i])
    BY <1>4, PlacedIs
<1>6. /\ i \in DOMAIN list /\ list[i] \in Step
      /\ list[i].name \notin NamesOf(s) /\ Wait(list[i], N) \subseteq NamesOf(s)
    BY WaitsAre DEF FreeAfter
<1> DEFINE new == Append(s, list[i])
<1>7. /\ new \in Seq(Step) /\ Len(new) = k + 1 /\ DOMAIN new = 1..(k+1)
      /\ new[k+1] = list[i] /\ \A j \in 1..k : new[j] = s[j]
    BY <1>1, <1>2, <1>6
<1> HIDE DEF new, N
<1>8. \A j \in 1..(k+1) : j = k + 1 \/ j \in 1..k
    BY <1>1
<1>9. \A j \in 1..k : s[j].name \in NamesOf(s)
    BY <1>2 DEF NamesOf
<1>10. Distinct(new)
    <2> SUFFICES ASSUME NEW a \in 1..(k+1), NEW b \in 1..(k+1), new[a].name = new[b].name PROVE a = b
        BY <1>7 DEF Distinct
    <2>1. CASE a \in 1..k /\ b \in 1..k
        <3>1. s[a].name = s[b].name
            BY <1>7, <2>1
        <3> QED
            BY <1>2, <2>1, <3>1 DEF Distinct
    <2>2. CASE a \in 1..k /\ b = k + 1
        <3>1. s[a].name = list[i].name
            BY <1>7, <2>2
        <3> QED
            BY <1>6, <1>9, <2>2, <3>1
    <2>3. CASE a = k + 1 /\ b \in 1..k
        <3>1. s[b].name = list[i].name
            BY <1>7, <2>3
        <3> QED
            BY <1>6, <1>9, <2>3, <3>1
    <2> QED
        BY <1>8, <2>1, <2>2, <2>3
<1>11. \A a \in 1..(k+1) : \E j \in DOMAIN list : new[a] = list[j]
    BY <1>2, <1>6, <1>7, <1>8
<1>12. ASSUME NEW a \in 1..(k+1), NEW y \in Wait(new[a], N)
       PROVE  \E j \in 1..(a-1) : new[j].name = y
    <2>1. CASE a = k + 1
        <3>1. PICK j \in 1..k : s[j].name = y
            BY <1>2, <1>6, <1>7, <1>12, <2>1 DEF NamesOf
        <3> QED
            BY <1>1, <1>7, <2>1, <3>1
    <2>2. CASE a \in 1..k
        <3>1. new[a] = s[a]
            BY <1>7, <2>2
        <3>2. PICK j \in 1..(a-1) : s[j].name = y
            BY <1>2, <1>12, <2>2, <3>1
        <3>3. j \in 1..k
            BY <1>1, <2>2
        <3> QED
            BY <1>7, <3>2, <3>3
    <2> QED
        BY <1>8, <2>1, <2>2
<1>13. PlacedSoFar(list, k + 1, new)
    <2>1. Len(new) = k + 1
        BY <1>7
    <2> QED
        BY <1>10, <1>11, <1>12, <2>1, Zenon DEF PlacedSoFar, N
<1> QED
    BY <1>5, <1>13, Zenon DEF new

\* Of a list of distinct steps without a loop every step is placed.
LEMMA OrderPlaces ==
    ASSUME NEW list \in Seq(Step), Distinct(list), Turns(list)
    PROVE  \E place \in [0..Len(list) -> Seq(Step)] :
              /\ \A k \in 1..Len(list) : place[k] = Placed(list, place[k-1])
              /\ \A k \in 0..Len(list) : PlacedSoFar(list, k, place[k])
              /\ NamesOf(place[Len(list)]) = NamesOf(list)
              /\ orderByDependencies(list) = place[Len(list)]
<1> DEFINE n == Len(list)
           N == NamesOf(list)
<1>1. PICK place \in [0..n -> Seq(Step)] :
              /\ place[0] = <<>>
              /\ \A k \in 1..n : place[k] = Placed(list, place[k-1])
              /\ orderByDependencies(list) = place[n] \o Without(list, NamesOf(place[n]))
    BY OrderSteps
<1> DEFINE s == place[n]
           w == Without(list, NamesOf(s))
<1>2. n \in Nat /\ s \in Seq(Step) /\ w \in Seq(Step) /\ DOMAIN list = 1..n
    BY WithoutPicks
<1> DEFINE T == {k \in 0..n : PlacedSoFar(list, k, place[k])}
<1>3. 0 \in T
    <2>1. Len(place[0]) = 0 /\ DOMAIN place[0] = {} /\ 1..0 = {}
        BY <1>1
    <2>2. PlacedSoFar(list, 0, place[0])
        BY <2>1 DEF PlacedSoFar, Distinct
    <2> QED
        BY <1>2, <2>2
<1>4. ASSUME NEW k \in 0..(n-1), k \in T PROVE k + 1 \in T
    <2>1. k \in 0..n /\ k + 1 \in 1..n /\ k + 1 \in 0..n /\ (k + 1) - 1 = k
        BY <1>2
    <2>2. place[k+1] = Placed(list, place[k])
        BY <1>1, <2>1
    <2>3. PlacedSoFar(list, k, place[k]) /\ place[k] \in Seq(Step)
        BY <1>4, <2>1
    <2>4. PlacedSoFar(list, k + 1, Placed(list, place[k]))
        BY <2>3, PlacesOneMore
    <2> QED
        BY <2>1, <2>2, <2>4
<1>5. \A k \in 0..n : PlacedSoFar(list, k, place[k])
    <2>1. \A k \in 0..n : k \in T
        <3> HIDE DEF T, n
        <3> QED
            BY <1>2, <1>3, <1>4, UpTo
    <2> QED
        BY <2>1
<1>6. /\ DOMAIN s = 1..n /\ Len(s) = n /\ Distinct(s)
      /\ \A i \in 1..n : \E j \in DOMAIN list : s[i] = list[j]
      /\ \A i \in 1..n : \A y \in Wait(s[i], N) : \E j \in 1..(i-1) : s[j].name = y
    <2>1. PlacedSoFar(list, n, s)
        BY <1>2, <1>5
    <2> QED
        BY <1>2, <2>1 DEF PlacedSoFar
<1> HIDE DEF s, w
<1>7. NamesOf(s) = N
    <2>1. NamesOf(s) \in SUBSET N
        BY <1>6, NamesWithin
    <2>2. Cardinality(N) = n /\ Cardinality(NamesOf(s)) = n
        BY <1>2, <1>6, NameCount
    <2>3. IsFiniteSet(N)
        BY NamesAreFinite
    <2> HIDE DEF N
    <2> QED
        BY <2>1, <2>2, <2>3, FS_Subset
<1>8. w = <<>>
    <2>1. PICK h : Picked(list, NamesOf(s), n, w, h)
        BY WithoutPicks DEF w
    <2>2. \A i \in 1..n : list[i].name \in NamesOf(s)
        BY <1>2, <1>7 DEF NamesOf
    <2>3. \A i \in 1..Len(w) : FALSE
        BY <2>1, <2>2 DEF Picked
    <2>4. Len(w) = 0
        <3>1. Len(w) \in Nat
            BY <1>2
        <3>2. ASSUME Len(w) > 0 PROVE 1 \in 1..Len(w)
            BY <3>1, <3>2
        <3> QED
            BY <2>3, <3>1, <3>2
    <2> QED
        BY <1>2, <2>4
<1>9. orderByDependencies(list) = s
    BY <1>1, <1>2, <1>8 DEF s, w
<1> QED
    BY <1>1, <1>5, <1>7, <1>9 DEF s

LEMMA OrderKeeps ==
    ASSUME NEW list \in Seq(Step)
    PROVE  /\ orderByDependencies(list) \in Seq(Step)
           /\ Distinct(list) /\ NamesOthers(list) /\ Turns(list)
                 => Finishes(orderByDependencies(list), "StepByStep")
<1> DEFINE n == Len(list)
           N == NamesOf(list)
<1>1. PICK place \in [0..n -> Seq(Step)] :
              /\ place[0] = <<>>
              /\ \A k \in 1..n : place[k] = Placed(list, place[k-1])
              /\ orderByDependencies(list) = place[n] \o Without(list, NamesOf(place[n]))
    BY OrderSteps
<1> DEFINE s == place[n]
           w == Without(list, NamesOf(s))
<1>2. n \in Nat /\ s \in Seq(Step) /\ w \in Seq(Step) /\ DOMAIN list = 1..n
    BY WithoutPicks
<1>3. orderByDependencies(list) \in Seq(Step)
    <2> HIDE DEF s, w, n
    <2>1. s \o w \in Seq(Step)
        BY <1>2
    <2> QED
        BY <1>1, <2>1 DEF s, w
<1>4. ASSUME Distinct(list), NamesOthers(list), Turns(list)
      PROVE  Finishes(orderByDependencies(list), "StepByStep")
    <2> DEFINE r == orderByDependencies(list)
    <2>1. PICK places \in [0..n -> Seq(Step)] :
              /\ \A k \in 0..n : PlacedSoFar(list, k, places[k])
              /\ NamesOf(places[n]) = N
              /\ r = places[n]
        BY <1>4, OrderPlaces
    <2>2. PlacedSoFar(list, n, r) /\ NamesOf(r) = N /\ r \in Seq(Step)
        BY <1>2, <2>1
    <2> HIDE DEF r
    <2>3. /\ DOMAIN r = 1..n /\ Distinct(r)
          /\ \A i \in 1..n : \E j \in DOMAIN list : r[i] = list[j]
          /\ \A i \in 1..n : \A y \in Wait(r[i], N) : \E j \in 1..(i-1) : r[j].name = y
        BY <1>2, <2>2 DEF PlacedSoFar
    <2>4. Rearranged(list, r)
        BY <2>2, <2>3 DEF Rearranged
    <2>5. InOrder(r)
        <3> SUFFICES ASSUME NEW i \in 1..n, NEW j \in 1..n, i < j, r[j].name \in Wait(r[i], N)
                     PROVE  FALSE
            BY <2>2, <2>3 DEF InOrder
        <3>1. PICK l \in 1..(i-1) : r[l].name = r[j].name
            BY <2>3
        <3>2. l \in 1..n /\ l # j
            BY <1>2
        <3> QED
            BY <2>3, <3>1, <3>2 DEF Distinct
    <2>6. Finishes(r, "StepByStep")
        BY <1>4, <2>2, <2>4, <2>5, RearrangedKeeps, FinishesIs DEF Rearranged
    <2> QED
        BY <2>6 DEF r
<1> QED
    BY <1>3, <1>4

-----------------------------------------------------------------------------
(* What a step waits on directly and through others *)

Grow(links, s) == s \cup {l[1] : l \in {x \in links : x[2] \in s}}
Closed(links, s) == \A l \in links : l[2] \in s => l[1] \in s

LEMMA SeenSteps ==
    ASSUME NEW links, IsFiniteSet(links), NEW a
    PROVE  \E seen :
              /\ seen[0] = {a}
              /\ \A k \in 1..Cardinality(links) : seen[k] = Grow(links, seen[k-1])
              /\ \A b : Reaches(links, a, b) <=> b \in seen[Cardinality(links)]
<1> DEFINE n == Cardinality(links)
           U == {a} \cup {l[1] : l \in links}
           next == [k \in 1..n |-> [s \in SUBSET U |-> Grow(links, s)]]
           Value(f, k) == IF k = 0 THEN {a} ELSE Grow(links, f[k-1])
           seen == CHOOSE f : f = [k \in 0..n |-> Value(f, k)]
<1>1. n \in Nat /\ {a} \in SUBSET U
    BY FS_CardinalityType
<1>2. \A s \in SUBSET U : Grow(links, s) \in SUBSET U
    BY DEF Grow
<1>3. next \in [1..n -> [SUBSET U -> SUBSET U]]
    BY <1>2
<1>4. \A b : Reaches(links, a, b) <=> b \in seen[n]
    BY Zenon DEF Reaches, Grow
<1> HIDE DEF n, U
<1>5. PICK f : Walk(f, n, SUBSET U, {a}, next)
    <2>1. next \in Ways(n, SUBSET U)
        BY <1>3 DEF Ways
    <2> HIDE DEF next
    <2> QED
        BY <1>1, <2>1, Walks, Zenon
<1>6. ASSUME NEW k \in 1..n PROVE f[k] = Grow(links, f[k-1])
    <2>1. f[k-1] \in SUBSET U
        BY <1>1, <1>5 DEF Walk
    <2>2. f[k] = next[k][f[k-1]]
        BY <1>5 DEF Walk
    <2> QED
        BY <2>1, <2>2, Zenon
<1>7. \A k \in 0..n : f[k] = Value(f, k)
    BY <1>1, <1>5, <1>6 DEF Walk
<1>8. f = [k \in 0..n |-> Value(f, k)]
    <2> HIDE DEF Value
    <2> QED
        BY <1>5, <1>7 DEF Walk
<1>9. seen = [k \in 0..n |-> Value(seen, k)]
    <2> HIDE DEF Value
    <2> QED
        BY <1>8, Zenon
<1> HIDE DEF seen
<1>10. seen[0] = {a} /\ \A k \in 1..n : seen[k] = Grow(links, seen[k-1])
    <2>1. \A k \in 0..n : seen[k] = Value(seen, k)
        BY <1>9, Zenon
    <2> QED
        BY <1>1, <2>1
<1> QED
    BY <1>4, <1>10 DEF n

\* Reaches goes on long enough: what it has seen is the least set that holds a and, with
\* a step, whatever that waits on.
LEMMA ReachesIsClosure ==
    ASSUME NEW links, IsFiniteSet(links), NEW a
    PROVE  \E R : /\ \A b : Reaches(links, a, b) <=> b \in R
                  /\ a \in R /\ Closed(links, R)
                  /\ \A Q : a \in Q /\ Closed(links, Q) => R \subseteq Q
<1> DEFINE n == Cardinality(links)
<1>1. PICK seen : /\ seen[0] = {a}
                  /\ \A k \in 1..n : seen[k] = Grow(links, seen[k-1])
                  /\ \A b : Reaches(links, a, b) <=> b \in seen[n]
    BY SeenSteps
<1> DEFINE E(k) == {l \in links : l[2] \in seen[k]}
<1>2. n \in Nat
    BY FS_CardinalityType
<1>3. \A k \in 0..(n-1) : k + 1 \in 1..n /\ (k + 1) - 1 = k
    BY <1>2
<1>4. \A k \in 0..(n-1) : seen[k+1] = Grow(links, seen[k])
    BY <1>1, <1>3
<1>5. \A k : IsFiniteSet(E(k)) /\ Cardinality(E(k)) \in Nat /\ Cardinality(E(k)) <= n
    <2> TAKE k
    <2>1. E(k) \in SUBSET links
        OBVIOUS
    <2> HIDE DEF E
    <2> QED
        BY <2>1, FS_Subset, FS_CardinalityType
<1>6. \A k \in 0..n : a \in seen[k]
    <2> DEFINE T == {k \in 0..n : a \in seen[k]}
    <2>1. 0 \in T
        BY <1>1, <1>2
    <2>2. ASSUME NEW k \in 0..(n-1), k \in T PROVE k + 1 \in T
        BY <1>2, <1>4, <2>2 DEF Grow
    <2>3. \A k \in 0..n : k \in T
        <3> HIDE DEF T, n
        <3> QED
            BY <1>2, <2>1, <2>2, UpTo
    <2> QED
        BY <2>3
<1>7. ASSUME NEW Q, a \in Q, Closed(links, Q) PROVE \A k \in 0..n : seen[k] \subseteq Q
    <2> DEFINE T == {k \in 0..n : seen[k] \subseteq Q}
    <2>1. 0 \in T
        BY <1>1, <1>2, <1>7
    <2>2. ASSUME NEW k \in 0..(n-1), k \in T PROVE k + 1 \in T
        <3>1. seen[k+1] \subseteq Q
            BY <1>4, <1>7, <2>2 DEF Grow, Closed
        <3> QED
            BY <1>2, <3>1
    <2>3. \A k \in 0..n : k \in T
        <3> HIDE DEF T, n
        <3> QED
            BY <1>2, <2>1, <2>2, UpTo
    <2> QED
        BY <2>3
<1>8. Closed(links, seen[n])
    <2> DEFINE T == {k \in 0..n : Closed(links, seen[k]) \/ Cardinality(E(k)) >= k + 1}
    <2>1. 0 \in T
        <3>1. ASSUME ~ Closed(links, seen[0]) PROVE Cardinality(E(0)) >= 1
            <4>1. E(0) # {}
                BY <3>1 DEF Closed
            <4> HIDE DEF E
            <4>2. Cardinality(E(0)) # 0
                BY <1>5, <4>1, FS_EmptySet
            <4> QED
                BY <1>5, <4>2
        <3> HIDE DEF E
        <3> QED
            BY <1>2, <3>1
    <2>2. ASSUME NEW k \in 0..(n-1), k \in T PROVE k + 1 \in T
        <3>1. seen[k+1] = Grow(links, seen[k])
            BY <1>4
        <3>2. ASSUME Closed(links, seen[k]) PROVE Closed(links, seen[k+1])
            <4>1. seen[k+1] = seen[k]
                BY <3>1, <3>2 DEF Grow, Closed
            <4> QED
                BY <3>2, <4>1
        <3>3. ASSUME Cardinality(E(k)) >= k + 1, ~ Closed(links, seen[k+1])
              PROVE  Cardinality(E(k+1)) >= (k + 1) + 1
            <4>1. PICK l \in links : l[2] \in seen[k+1] /\ l[1] \notin seen[k+1]
                BY <3>3 DEF Closed
            <4>2. seen[k] \subseteq seen[k+1] /\ \A x \in links : x[2] \in seen[k] => x[1] \in seen[k+1]
                BY <3>1 DEF Grow
            <4>3. E(k) \in SUBSET E(k+1) /\ l \in E(k+1) /\ l \notin E(k)
                BY <4>1, <4>2
            <4> HIDE DEF E
            <4>4. Cardinality(E(k)) <= Cardinality(E(k+1)) /\ Cardinality(E(k)) # Cardinality(E(k+1))
                BY <1>5, <4>3, FS_Subset
            <4>5. Cardinality(E(k)) \in Nat /\ Cardinality(E(k+1)) \in Nat
                BY <1>5
            <4> QED
                BY <1>2, <3>3, <4>4, <4>5
        <3> HIDE DEF E
        <3> QED
            BY <1>2, <2>2, <3>2, <3>3
    <2>3. n \in T
        <3>1. \A k \in 0..n : k \in T
            <4> HIDE DEF T, n
            <4> QED
                BY <1>2, <2>1, <2>2, UpTo
        <3>2. n \in 0..n
            BY <1>2
        <3> QED
            BY <3>1, <3>2
    <2>4. Cardinality(E(n)) \in Nat /\ Cardinality(E(n)) <= n
        BY <1>5
    <2> HIDE DEF E
    <2> QED
        BY <1>2, <2>3, <2>4
<1>9. n \in 0..n
    BY <1>2
<1>10. /\ \A b : Reaches(links, a, b) <=> b \in seen[n]
       /\ a \in seen[n] /\ Closed(links, seen[n])
       /\ \A Q : a \in Q /\ Closed(links, Q) => seen[n] \subseteq Q
    BY <1>1, <1>6, <1>7, <1>8, <1>9
<1> QED
    <2> HIDE DEF n
    <2> QED
        BY <1>10

LEMMA LinksAre ==
    ASSUME NEW list \in Seq(Step), Distinct(list)
    PROVE  /\ IsFiniteSet(Links(waitsOn(list)))
           /\ \A i \in DOMAIN list : \A y \in Wait(list[i], NamesOf(list)) :
                 <<y, list[i].name>> \in Links(waitsOn(list))
<1> DEFINE N == NamesOf(list)
           W == waitsOn(list)
<1>1. DOMAIN W = N /\ \A i \in DOMAIN list : list[i].name \in N /\ W[list[i].name] = Wait(list[i], N)
    BY WaitsAre DEF NamesOf
<1>2. \A x \in N : W[x] \subseteq N
    BY DEF waitsOn
<1>3. IsFiniteSet(N \X N)
    BY NamesAreFinite, FS_Product
<1> HIDE DEF N, W
<1>4. Links(W) \in SUBSET (N \X N)
    BY <1>1, <1>2 DEF Links
<1>5. ASSUME NEW i \in DOMAIN list, NEW y \in Wait(list[i], N) PROVE <<y, list[i].name>> \in Links(W)
    <2>1. list[i].name \in DOMAIN W /\ y \in W[list[i].name]
        BY <1>1, <1>5
    <2>2. <<y, list[i].name>> \in W[list[i].name] \X {list[i].name}
        BY <2>1
    <2> QED
        BY <2>1, <2>2, Zenon DEF Links
<1> QED
    BY <1>3, <1>4, <1>5, FS_Subset DEF N, W

\* A line that canDependOn allows closes no loop: what from waits on, through however many
\* steps, is kept apart from to.
LEMMA LinkKeeps ==
    ASSUME NEW list \in Seq(Step), NEW from \in Names, NEW to
    PROVE  /\ addDependency(list, from, to) \in Seq(Step)
           /\ canDependOn(list, from, to) /\ Finishes(list, "DAG")
                 => Finishes(addDependency(list, from, to), "DAG")
<1> DEFINE new == addDependency(list, from, to)
           n == Len(list)
           N == NamesOf(list)
<1>1. n \in Nat /\ DOMAIN list = 1..n /\ \A i \in 1..n : list[i] \in Step
    OBVIOUS
<1>2. \A i \in 1..n : /\ new[i] \in Step
                      /\ new[i].name = list[i].name
                      /\ new[i].deps = IF list[i].name = to THEN list[i].deps \cup {from} ELSE list[i].deps
    BY <1>1 DEF addDependency, Step
<1>3. new \in [1..n -> Step]
    BY <1>1, <1>2 DEF addDependency
<1>4. new \in Seq(Step) /\ DOMAIN new = 1..n
    BY <1>1, <1>3
<1> HIDE DEF new, n
<1>5. NamesOf(new) = N
    BY <1>1, <1>2, <1>4 DEF NamesOf
<1>6. ASSUME canDependOn(list, from, to), Finishes(list, "DAG") PROVE Finishes(new, "DAG")
    <2>1. Distinct(list) /\ NamesOthers(list) /\ Turns(list)
        BY <1>6, FinishesIs
    <2>2. from # to /\ from \in N /\ to \in N /\ ~ Reaches(Links(waitsOn(list)), from, to)
        BY <1>6 DEF canDependOn
    <2>3. PICK R : /\ \A b : Reaches(Links(waitsOn(list)), from, b) <=> b \in R
                   /\ from \in R /\ Closed(Links(waitsOn(list)), R)
        BY <2>1, LinksAre, ReachesIsClosure
    <2>4. ASSUME NEW i \in 1..n, list[i].name \in R PROVE Wait(list[i], N) \subseteq R
        <3> SUFFICES ASSUME NEW y \in Wait(list[i], N) PROVE y \in R
            OBVIOUS
        <3> DEFINE l == <<y, list[i].name>>
        <3>1. l \in Links(waitsOn(list))
            BY <1>1, <2>1, LinksAre
        <3>2. l[1] = y /\ l[2] = list[i].name
            OBVIOUS
        <3> HIDE DEF l
        <3> QED
            BY <2>3, <2>4, <3>1, <3>2 DEF Closed
    <2>5. from \in R /\ to \notin R
        BY <2>2, <2>3
    <2> HIDE DEF N
    <2>6. \A i \in 1..n : Wait(new[i], N) \subseteq Wait(list[i], N) \cup {from}
        BY <1>2 DEF Wait
    <2>7. \A i \in 1..n : list[i].name # to => Wait(new[i], N) = Wait(list[i], N)
        BY <1>2 DEF Wait
    <2>8. Distinct(new)
        BY <1>1, <1>2, <1>4, <2>1 DEF Distinct
    <2>9. NamesOthers(new)
        <3> SUFFICES ASSUME NEW i \in 1..n PROVE new[i].deps \subseteq N \ {new[i].name}
            BY <1>4, <1>5 DEF NamesOthers
        <3>1. list[i].deps \subseteq N \ {list[i].name}
            BY <1>1, <2>1 DEF NamesOthers, N
        <3> QED
            BY <1>2, <2>2, <3>1
    <2>10. Turns(new)
        <3> SUFFICES ASSUME NEW S \in SUBSET N, S # {}
                     PROVE  \E i \in 1..n : new[i].name \in S /\ Wait(new[i], N) \cap S = {}
            BY <1>4, <1>5 DEF Turns
        <3>1. \A U \in SUBSET N :
                 U # {} => \E i \in 1..n : list[i].name \in U /\ Wait(list[i], N) \cap U = {}
            BY <1>1, <2>1 DEF Turns, N
        <3>2. CASE from \notin S
            <4>1. PICK i \in 1..n : list[i].name \in S /\ Wait(list[i], N) \cap S = {}
                BY <3>1
            <4> QED
                BY <1>2, <2>6, <3>2, <4>1
        <3>3. CASE from \in S
            <4>1. S \cap R \in SUBSET N /\ S \cap R # {}
                BY <2>5, <3>3
            <4>2. PICK i \in 1..n : list[i].name \in S \cap R /\ Wait(list[i], N) \cap (S \cap R) = {}
                BY <3>1, <4>1
            <4>3. Wait(list[i], N) \cap S = {}
                BY <2>4, <4>2
            <4>4. Wait(new[i], N) = Wait(list[i], N)
                BY <2>5, <2>7, <4>2
            <4> QED
                BY <1>2, <4>2, <4>3, <4>4
        <3> QED
            BY <3>2, <3>3
    <2> QED
        BY <1>4, <2>8, <2>9, <2>10, FinishesIs
<1> QED
    BY <1>4, <1>6 DEF new

-----------------------------------------------------------------------------
(* A step is put in *)

\* new is rest with the step at p.
Inserted(rest, n, p, step, new) ==
    /\ new \in Seq(Step) /\ Len(new) = n + 1
    /\ p \in 1..(n+1) /\ new[p] = step
    /\ \A i \in 1..n : new[IF i < p THEN i ELSE i + 1] = rest[i]

\* The steps of the list, some of which name x where they named the anchor.
Redirected(list, n, anchor, x, rest) ==
    \A i \in 1..n :
       /\ rest[i].name = list[i].name
       /\ \/ rest[i].deps = list[i].deps
          \/ anchor \in list[i].deps /\ rest[i].deps = (list[i].deps \ {anchor}) \cup {x}

LEMMA FirstFound ==
    ASSUME NEW list \in Seq(Step), NEW x \in NamesOf(list)
    PROVE  First(list, x) \in DOMAIN list /\ list[First(list, x)].name = x
<1> DEFINE S == {i \in DOMAIN list : list[i].name = x}
           P(i) == list[i].name = x /\ \A j \in 1..(i-1) : list[j].name # x
<1>1. S \in SUBSET Nat /\ S # {} /\ DOMAIN list = 1..Len(list) /\ Len(list) \in Nat
    BY DEF NamesOf
<1>2. PICK i \in S : \A j \in S : i <= j
    <2> HIDE DEF S
    <2> QED
        BY <1>1, Least
<1>3. P(i)
    BY <1>1, <1>2
<1>4. First(list, x) = CHOOSE k \in DOMAIN list : P(k)
    BY DEF First
<1>5. First(list, x) \in DOMAIN list /\ P(First(list, x))
    <2> HIDE DEF P
    <2> QED
        BY <1>3, <1>4
<1> QED
    BY <1>5

LEMMA InsertIs ==
    ASSUME NEW list \in Seq(Step), NEW anchor, NEW step \in Step, NEW branch
    PROVE  \E p, rest :
              /\ Inserted(rest, Len(list), p, step, insertAfter(list, anchor, step, branch))
              /\ Redirected(list, Len(list), anchor, step.name, rest)
              /\ anchor \notin NamesOf(list) => rest = list
              /\ anchor \in NamesOf(list) => p = First(list, anchor) + 1
<1> DEFINE n == Len(list)
           new == insertAfter(list, anchor, step, branch)
<1>1. n \in Nat /\ DOMAIN list = 1..n /\ \A i \in 1..n : list[i] \in Step
    OBVIOUS
<1>2. CASE anchor \notin NamesOf(list)
    <2>1. new = Append(list, step)
        BY <1>2 DEF insertAfter
    <2>2. /\ Append(list, step) \in Seq(Step) /\ Len(Append(list, step)) = n + 1
          /\ Append(list, step)[n+1] = step /\ \A i \in 1..n : Append(list, step)[i] = list[i]
        OBVIOUS
    <2>3. Inserted(list, n, n + 1, step, Append(list, step))
        <3> DEFINE app == Append(list, step)
        <3> HIDE DEF app
        <3>1. Inserted(list, n, n + 1, step, app)
            BY <1>1, <2>2 DEF Inserted, app
        <3> QED
            BY <3>1 DEF app
    <2>4. Redirected(list, n, anchor, step.name, list)
        BY DEF Redirected
    <2> QED
        BY <1>2, <2>1, <2>3, <2>4, Zenon
<1>3. CASE anchor \in NamesOf(list)
    <2> DEFINE at == First(list, anchor)
               rest == [i \in DOMAIN list |->
                          IF ~ branch /\ anchor \in list[i].deps
                          THEN [list[i] EXCEPT !.deps = (@ \ {anchor}) \cup {step.name}]
                          ELSE list[i]]
               made == SubSeq(rest, 1, at) \o <<step>> \o SubSeq(rest, at + 1, n)
    <2>1. new = made
        BY <1>3 DEF insertAfter
    <2>2. at \in 1..n
        BY <1>3, FirstFound
    <2>3. \A i \in 1..n :
             /\ rest[i] \in Step
             /\ rest[i].name = list[i].name
             /\ \/ rest[i].deps = list[i].deps
                \/ anchor \in list[i].deps /\ rest[i].deps = (list[i].deps \ {anchor}) \cup {step.name}
        BY <1>1 DEF Step
    <2>4. Redirected(list, n, anchor, step.name, rest)
        BY <2>3 DEF Redirected
    <2>5. rest \in [1..n -> Step]
        BY <1>1, <2>3
    <2>6. rest \in Seq(Step) /\ Len(rest) = n
        BY <1>1, <2>5
    <2> HIDE DEF rest, at, n
    <2> DEFINE front == SubSeq(rest, 1, at)
               back == SubSeq(rest, at + 1, n)
               head == front \o <<step>>
    <2>7. /\ front \in Seq(Step) /\ Len(front) = at /\ \A i \in 1..at : front[i] = rest[i]
        BY <1>1, <2>2, <2>6
    <2>8. /\ back \in Seq(Step) /\ Len(back) = n - at /\ \A i \in 1..(n-at) : back[i] = rest[at+i]
        BY <1>1, <2>2, <2>6
    <2>9. <<step>> \in Seq(Step) /\ Len(<<step>>) = 1 /\ <<step>>[1] = step
        OBVIOUS
    <2> HIDE DEF front, back
    <2>10. /\ head \in Seq(Step) /\ Len(head) = at + 1
           /\ \A i \in 1..at : head[i] = rest[i]
           /\ head[at+1] = step
        BY <1>1, <2>2, <2>7, <2>9
    <2> HIDE DEF head
    <2>11. /\ made = head \o back
           /\ made \in Seq(Step) /\ Len(made) = n + 1
           /\ \A i \in 1..(at+1) : made[i] = head[i]
           /\ \A i \in (at+2)..(n+1) : made[i] = back[i - (at + 1)]
        <3>1. made = head \o back
            BY DEF head, front, back
        <3> HIDE DEF made
        <3>2. head \o back \in Seq(Step) /\ Len(head \o back) = n + 1
            <4>1. head \o back \in Seq(Step) /\ Len(head \o back) = Len(head) + Len(back)
                BY <2>8, <2>10
            <4>2. n \in Nat /\ at \in Nat /\ Len(head) = at + 1 /\ Len(back) = n - at
                BY <1>1, <2>2, <2>8, <2>10
            <4>3. (at + 1) + (n - at) = n + 1
                BY <4>2
            <4> QED
                BY <4>1, <4>2, <4>3
        <3>3. \A i \in 1..(at+1) : (head \o back)[i] = head[i]
            BY <1>1, <2>2, <2>8, <2>10
        <3>4. \A i \in (at+2)..(n+1) : (head \o back)[i] = back[i - (at + 1)]
            BY <1>1, <2>2, <2>8, <2>10
        <3> QED
            BY <3>1, <3>2, <3>3, <3>4
    <2> HIDE DEF made
    <2>12. at + 1 \in 1..(n+1) /\ made[at+1] = step
        BY <1>1, <2>2, <2>10, <2>11
    <2>13. ASSUME NEW i \in 1..n PROVE made[IF i < at + 1 THEN i ELSE i + 1] = rest[i]
        <3>1. CASE i < at + 1
            <4>1. i \in 1..at /\ i \in 1..(at+1)
                BY <1>1, <2>2, <3>1
            <4> QED
                BY <2>10, <2>11, <3>1, <4>1
        <3>2. CASE ~ (i < at + 1)
            <4>1. i + 1 \in (at+2)..(n+1) /\ (i + 1) - (at + 1) = i - at
                  /\ i - at \in 1..(n-at) /\ at + (i - at) = i
                BY <1>1, <2>2, <3>2
            <4>2. made[i+1] = back[i - at]
                BY <2>11, <4>1
            <4>3. back[i - at] = rest[i]
                BY <2>8, <4>1
            <4> QED
                BY <3>2, <4>2, <4>3
        <3> QED
            BY <3>1, <3>2
    <2>14. Inserted(rest, n, at + 1, step, made)
        BY <2>11, <2>12, <2>13 DEF Inserted
    <2> QED
        BY <1>3, <2>1, <2>4, <2>14, Zenon DEF n, at
<1> QED
    BY <1>2, <1>3

\* The step that a form offers: nothing it waits on, and nothing that waits on it, is later
\* or leads back to it.
LEMMA InsertKeeps ==
    ASSUME NEW list \in Seq(Step), NEW anchor, NEW x \in Names, NEW branch, NEW m,
           x \notin NamesOf(list),
           \A y \in NamesOf(list) : y \notin Inputs[x] /\ x \notin Inputs[y],
           Finishes(list, m)
    PROVE  Finishes(insertAfter(list, anchor, [name |-> x, deps |-> Offered(list, anchor, m)], branch), m)
<1> DEFINE n == Len(list)
           N == NamesOf(list)
           d == Offered(list, anchor, m)
           step == [name |-> x, deps |-> d]
           new == insertAfter(list, anchor, step, branch)
<1>1. n \in Nat /\ DOMAIN list = 1..n /\ \A i \in 1..n : list[i] \in Step
    OBVIOUS
<1>2. N \subseteq Names
    BY NamesAreFinite
<1>3. d = {} \/ (d = {anchor} /\ m = "DAG" /\ anchor \in N)
    BY DEF Offered
<1>4. step \in Step /\ step.name = x /\ step.deps = d
    BY <1>2, <1>3 DEF Step
<1> HIDE DEF step
<1>5. PICK p, rest : /\ Inserted(rest, n, p, step, new)
                     /\ Redirected(list, n, anchor, x, rest)
                     /\ anchor \notin N => rest = list
                     /\ anchor \in N => p = First(list, anchor) + 1
    BY <1>4, InsertIs
<1> DEFINE q(i) == IF i < p THEN i ELSE i + 1
<1>6. /\ new \in Seq(Step) /\ DOMAIN new = 1..(n+1)
      /\ p \in 1..(n+1) /\ new[p] = step
      /\ \A i \in 1..n : new[q(i)] = rest[i]
    <2>1. Inserted(rest, n, p, step, new)
        BY <1>5
    <2> HIDE DEF new, n
    <2> QED
        BY <2>1 DEF Inserted
<1>7. Distinct(list) /\ NamesOthers(list) /\ Turns(list) /\ (m = "StepByStep" => InOrder(list))
    BY FinishesIs
<1>8. \A i \in 1..n : list[i].name \in N /\ list[i].deps \subseteq N \ {list[i].name}
    BY <1>1, <1>7 DEF NamesOthers, NamesOf
<1>9. x \notin N /\ \A y \in N : y \notin Inputs[x] /\ x \notin Inputs[y]
    OBVIOUS
<1> DEFINE Turned(i) == rest[i].deps # list[i].deps
<1>10. \A i \in 1..n : /\ rest[i].name = list[i].name
                       /\ Turned(i) => /\ anchor \in list[i].deps
                                       /\ rest[i].deps = (list[i].deps \ {anchor}) \cup {x}
    BY <1>5 DEF Redirected
\* In order, the steps that named the anchor come after it.
<1>11. ASSUME m = "StepByStep", NEW i \in 1..n, Turned(i) PROVE i >= p
    <2>1. anchor \in list[i].deps /\ anchor \in N /\ anchor # list[i].name
        BY <1>8, <1>10, <1>11
    <2>2. anchor \in Wait(list[i], N)
        BY <2>1 DEF Wait
    <2>3. /\ First(list, anchor) \in 1..n /\ list[First(list, anchor)].name = anchor
          /\ p = First(list, anchor) + 1
        BY <1>1, <1>5, <2>1, FirstFound
    <2>4. ~ (i < First(list, anchor))
        BY <1>1, <1>7, <1>11, <2>2, <2>3 DEF InOrder
    <2>5. i # First(list, anchor)
        BY <2>1, <2>3
    <2> QED
        BY <1>1, <2>3, <2>4, <2>5
<1> HIDE DEF new, n, N, d
<1>12. /\ \A i \in 1..n : q(i) \in 1..(n+1) /\ q(i) # p
       /\ \A k \in 1..(n+1) : k = p \/ \E i \in 1..n : k = q(i)
       /\ \A i, j \in 1..n : q(i) < q(j) => i < j
       /\ \A i, j \in 1..n : q(i) = q(j) => i = j
       /\ \A i \in 1..n : q(i) < p => i < p
    <2>1. ASSUME NEW k \in 1..(n+1), k # p PROVE \E i \in 1..n : k = q(i)
        <3>1. CASE k < p
            <4>1. k \in 1..n /\ k = q(k)
                BY <1>1, <1>6, <3>1
            <4> QED
                BY <4>1
        <3>2. CASE k > p
            <4>1. k - 1 \in 1..n /\ k = q(k-1)
                BY <1>1, <1>6, <3>2
            <4> QED
                BY <4>1
        <3> QED
            BY <1>1, <1>6, <2>1, <3>1, <3>2
    <2>2. \A i \in 1..n : q(i) \in 1..(n+1) /\ q(i) # p /\ (q(i) < p => i < p)
        BY <1>1, <1>6
    <2>3. \A i, j \in 1..n : (q(i) < q(j) => i < j) /\ (q(i) = q(j) => i = j)
        BY <1>1, <1>6
    <2> QED
        BY <2>1, <2>2, <2>3
<1>13. \A i \in 1..n : new[q(i)] = rest[i]
    BY <1>6
<1> HIDE DEF q
<1>14. NamesOf(new) = N \cup {x}
    <2>1. ASSUME NEW k \in 1..(n+1) PROVE new[k].name \in N \cup {x}
        BY <1>4, <1>6, <1>8, <1>10, <1>12, <1>13
    <2>2. \A y \in NamesOf(new) : y \in N \cup {x}
        BY <1>6, <2>1 DEF NamesOf
    <2>3. x \in NamesOf(new)
        BY <1>4, <1>6 DEF NamesOf
    <2>4. ASSUME NEW y \in N PROVE y \in NamesOf(new)
        <3>1. PICK i \in 1..n : list[i].name = y
            BY <1>1 DEF N, NamesOf
        <3>2. new[q(i)].name = y /\ q(i) \in 1..(n+1)
            BY <1>10, <1>12, <1>13, <3>1
        <3> QED
            BY <1>6, <3>2 DEF NamesOf
    <2> QED
        BY <2>2, <2>3, <2>4
<1> DEFINE M == N \cup {x}
<1>15. Wait(step, M) \subseteq d
    BY <1>4, <1>9 DEF Wait
<1>16. ASSUME NEW i \in 1..n
       PROVE  /\ Wait(rest[i], M) \subseteq Wait(list[i], N) \cup {x}
              /\ x \in Wait(rest[i], M) => Turned(i) /\ anchor \in Wait(list[i], N)
    <2>1. list[i].name \in N /\ list[i].deps \subseteq N \ {list[i].name} /\ x \notin Inputs[list[i].name]
        BY <1>8, <1>9
    <2>2. CASE ~ Turned(i)
        BY <1>9, <1>10, <2>1, <2>2 DEF Wait
    <2>3. CASE Turned(i)
        <3>1. /\ rest[i].name = list[i].name /\ anchor \in list[i].deps
              /\ rest[i].deps = (list[i].deps \ {anchor}) \cup {x}
            BY <1>10, <2>3
        <3> QED
            BY <2>1, <2>3, <3>1 DEF Wait
    <2> QED
        BY <2>2, <2>3
<1>17. Distinct(new)
    <2> SUFFICES ASSUME NEW a \in 1..(n+1), NEW b \in 1..(n+1), new[a].name = new[b].name PROVE a = b
        BY <1>6 DEF Distinct
    <2>1. \A i \in 1..n : new[q(i)].name = list[i].name /\ new[q(i)].name # new[p].name
        BY <1>4, <1>6, <1>8, <1>9, <1>10, <1>13
    <2>2. CASE a = p \/ b = p
        BY <1>12, <2>1, <2>2
    <2>3. CASE a # p /\ b # p
        <3>1. PICK i \in 1..n : a = q(i)
            BY <1>12, <2>3
        <3>2. PICK j \in 1..n : b = q(j)
            BY <1>12, <2>3
        <3>3. list[i].name = list[j].name
            BY <2>1, <3>1, <3>2
        <3> QED
            BY <1>1, <1>7, <3>1, <3>2, <3>3 DEF Distinct
    <2> QED
        BY <2>2, <2>3
<1>18. NamesOthers(new)
    <2> SUFFICES ASSUME NEW k \in 1..(n+1) PROVE new[k].deps \subseteq M \ {new[k].name}
        BY <1>6, <1>14 DEF NamesOthers
    <2>1. CASE k = p
        BY <1>3, <1>4, <1>6, <1>9, <2>1 DEF N
    <2>2. ASSUME NEW i \in 1..n, k = q(i) PROVE new[k].deps \subseteq M \ {new[k].name}
        <3>1. new[k] = rest[i] /\ rest[i].name = list[i].name
            BY <1>10, <1>13, <2>2
        <3>2. list[i].deps \subseteq N \ {list[i].name} /\ list[i].name # x
            BY <1>8, <1>9
        <3>3. rest[i].deps \subseteq list[i].deps \cup {x}
            BY <1>10
        <3> QED
            BY <3>1, <3>2, <3>3
    <2> QED
        BY <1>12, <2>1, <2>2
<1>19. Turns(new)
    <2> SUFFICES ASSUME NEW S \in SUBSET M, S # {}
                 PROVE  \E k \in 1..(n+1) : new[k].name \in S /\ Wait(new[k], M) \cap S = {}
        BY <1>6, <1>14 DEF Turns
    <2>1. \A U \in SUBSET N :
             U # {} => \E i \in 1..n : list[i].name \in U /\ Wait(list[i], N) \cap U = {}
        BY <1>1, <1>7 DEF Turns, N
    <2>2. \A i \in 1..n : q(i) \in 1..(n+1) /\ new[q(i)] = rest[i] /\ rest[i].name = list[i].name
        BY <1>10, <1>12, <1>13
    <2>3. CASE x \notin S
        <3>1. PICK i \in 1..n : list[i].name \in S /\ Wait(list[i], N) \cap S = {}
            BY <2>1, <2>3
        <3>2. Wait(rest[i], M) \cap S = {}
            BY <1>16, <2>3, <3>1
        <3> QED
            BY <2>2, <3>1, <3>2
    <2>4. CASE x \in S /\ Wait(step, M) \cap S = {}
        BY <1>4, <1>6, <2>4
    <2>5. CASE x \in S /\ Wait(step, M) \cap S # {}
        <3>1. anchor \in S /\ anchor # x
            BY <1>3, <1>9, <1>15, <2>5 DEF N
        <3>2. S \ {x} \in SUBSET N /\ S \ {x} # {}
            BY <3>1
        <3>3. PICK i \in 1..n : list[i].name \in S \ {x} /\ Wait(list[i], N) \cap (S \ {x}) = {}
            BY <2>1, <3>2
        <3>4. anchor \notin Wait(list[i], N)
            BY <3>1, <3>3
        <3>5. Wait(rest[i], M) \cap S = {}
            BY <1>16, <3>3, <3>4
        <3> QED
            BY <2>2, <3>3, <3>5
    <2> QED
        BY <2>3, <2>4, <2>5
<1>20. ASSUME m = "StepByStep" PROVE InOrder(new)
    <2> SUFFICES ASSUME NEW a \in 1..(n+1), NEW b \in 1..(n+1), a < b, new[b].name \in Wait(new[a], M)
                 PROVE  FALSE
        BY <1>6, <1>14 DEF InOrder
    <2>1. a # p
        BY <1>3, <1>6, <1>15, <1>20
    <2>2. PICK i \in 1..n : a = q(i)
        BY <1>12, <2>1
    <2>3. new[a] = rest[i]
        BY <1>13, <2>2
    <2>4. CASE b = p
        <3>1. x \in Wait(rest[i], M)
            BY <1>4, <1>6, <2>3, <2>4
        <3>2. i >= p
            BY <1>11, <1>16, <1>20, <3>1
        <3>3. i < p
            BY <1>12, <2>2, <2>4
        <3> QED
            BY <1>1, <1>6, <3>2, <3>3
    <2>5. CASE b # p
        <3>1. PICK j \in 1..n : b = q(j)
            BY <1>12, <2>5
        <3>2. i < j
            BY <1>12, <2>2, <3>1
        <3>3. new[b].name = list[j].name /\ list[j].name # x
            BY <1>8, <1>9, <1>10, <1>13, <3>1
        <3>4. list[j].name \in Wait(list[i], N)
            BY <1>16, <2>3, <3>3
        <3> QED
            BY <1>1, <1>7, <1>20, <3>2, <3>4 DEF InOrder, N
    <2> QED
        BY <2>4, <2>5
<1>21. Finishes(new, m)
    BY <1>6, <1>17, <1>18, <1>19, <1>20, FinishesIs
<1> QED
    BY <1>21 DEF new, step, d

-----------------------------------------------------------------------------
(* The state *)

\* The name a form asks for was new to the steps it was opened over, and lines are drawn
\* only where steps run in parallel.
EditInv ==
    /\ TypeOK
    /\ doing # None => /\ doing.what = "add" => doing.name \notin NamesOf(doing.seen.steps)
                       /\ doing.what = "drag" => doing.seen.mode = "DAG"

LEMMA EditInit == Init => EditInv
<1> SUFFICES ASSUME Init PROVE EditInv
    OBVIOUS
<1>1. saved \in Pipeline
    BY StoredAssumption DEF Init, Pipeline
<1>2. saved.steps \in Seq(Step) /\ saved.mode \in Modes
    BY <1>1 DEF Pipeline
<1>3. Shown \in Pipeline
    BY <1>2 DEF Init, Shown, Pipeline
<1>4. loads \in Seq(Load) /\ sending \in Sending
    BY DEF Init, Idle, Sending
<1> QED
    BY <1>1, <1>2, <1>3, <1>4 DEF Init, EditInv, TypeOK

\* The studio hands over steps, and nothing is begun.
LEMMA ChangeTyped ==
    ASSUME EditInv, NEW list \in Seq(Step), onChange(list), edits' \in Nat,
           UNCHANGED <<mode, loaded, server>>, doing' = doing \/ doing' = None
    PROVE  EditInv'
<1>1. Shown' \in Pipeline
    BY DEF EditInv, TypeOK, Shown, Pipeline, onChange
<1>2. changed' \in BOOLEAN
    BY DEF onChange
<1>3. CASE doing' = doing
    BY <1>1, <1>2, <1>3 DEF EditInv, TypeOK, server
<1>4. CASE doing' = None
    BY <1>1, <1>2, <1>4 DEF EditInv, TypeOK, server
<1> QED
    BY <1>3, <1>4

LEMMA EditsCount == ASSUME EditInv, Edit PROVE edits' \in Nat
BY DEF EditInv, TypeOK, Edit

LEMMA AddDoing ==
    ASSUME EditInv, Adding
    PROVE  /\ doing.name \in Names /\ doing.seen \in Pipeline
           /\ doing.name \notin NamesOf(doing.seen.steps)
BY DEF EditInv, TypeOK, Adding, Doing, Broken

LEMMA DragDoing ==
    ASSUME EditInv, doing # None, doing.what = "drag"
    PROVE  doing.from \in Names /\ doing.seen \in Pipeline /\ doing.seen.mode = "DAG"
BY DEF EditInv, TypeOK, Doing, Broken

LEMMA EditNext == EditInv /\ [Next]_vars => EditInv'
<1> SUFFICES ASSUME EditInv, [Next]_vars PROVE EditInv'
    OBVIOUS
<1>1. /\ steps \in Seq(Step) /\ mode \in Modes /\ loaded \in Seq(Step)
      /\ saved.steps \in Seq(Step) /\ saved.mode \in Modes
      /\ loads \in Seq(Load) /\ sending \in Sending
    BY DEF EditInv, TypeOK, Shown, Pipeline
<1>2. CASE UNCHANGED vars
    BY <1>2 DEF vars, EditInv, TypeOK, Shown
<1>3. ASSUME NEW n \in Names, NEW anchor \in Names \cup {None}, NEW branch \in BOOLEAN,
             onAdd(n, anchor, branch)
      PROVE  EditInv'
    <2> DEFINE d == [what |-> "add", name |-> n, anchor |-> anchor, branch |-> branch, seen |-> Shown]
    <2>1. doing' = d /\ n \notin NamesOf(steps) /\ UNCHANGED <<steps, mode, loaded, changed, server>>
        BY <1>3 DEF onAdd
    <2>2. d \in Doing
        BY DEF Doing, EditInv, TypeOK
    <2>3. d.what = "add" /\ d.name = n /\ d.seen.steps = steps
        BY DEF Shown
    <2>4. edits' \in Nat
        BY <1>3, EditsCount DEF onAdd
    <2> HIDE DEF d
    <2> QED
        BY <2>1, <2>2, <2>3, <2>4 DEF EditInv, TypeOK, Shown, server
<1>4. CASE onClose
    BY <1>4 DEF onClose, EditInv, TypeOK, Shown, server
<1>5. ASSUME Adding, NEW deps \in SUBSET NamesOf(doing.seen.steps), addStep(deps) PROVE EditInv'
    <2> DEFINE step == [name |-> doing.name, deps |-> deps]
               list == insertAfter(steps, doing.anchor, step, doing.branch)
    <2>1. doing.seen.steps \in Seq(Step)
        BY <1>5, AddDoing DEF Pipeline
    <2>2. NamesOf(doing.seen.steps) \subseteq Names
        BY <2>1, NamesAreFinite
    <2>3. step \in Step
        BY <1>5, <2>2, AddDoing DEF Step
    <2>4. list \in Seq(Step)
        <3> HIDE DEF step
        <3> QED
            BY <1>1, <2>3, InsertIs DEF Inserted
    <2>5. onChange(list) /\ doing' = None /\ UNCHANGED <<mode, loaded, server, edits>>
        BY <1>5 DEF addStep
    <2>6. edits' \in Nat
        BY <2>5 DEF EditInv, TypeOK
    <2> HIDE DEF list
    <2> QED
        BY <2>4, <2>5, <2>6, ChangeTyped
<1>6. ASSUME NEW n \in Names, NEW deps \in SUBSET (NamesOf(steps) \ {n}), onUpdateStep(n, deps)
      PROVE  EditInv'
    <2> DEFINE list == [i \in DOMAIN steps |-> IF steps[i].name = n THEN [steps[i] EXCEPT !.deps = deps] ELSE steps[i]]
               l == Len(steps)
    <2>1. deps \subseteq Names
        BY <1>1, NamesAreFinite
    <2>2. DOMAIN steps = 1..l /\ l \in Nat /\ \A i \in 1..l : steps[i] \in Step
        BY <1>1
    <2>3. \A i \in 1..l : list[i] \in Step
        BY <2>1, <2>2 DEF Step
    <2>4. list \in [1..l -> Step]
        BY <2>2, <2>3
    <2>5. list \in Seq(Step)
        BY <2>2, <2>4
    <2>6. onChange(list) /\ UNCHANGED <<mode, loaded, doing, server>> /\ edits' \in Nat
        BY <1>6, EditsCount DEF onUpdateStep
    <2> HIDE DEF list
    <2> QED
        BY <2>5, <2>6, ChangeTyped
<1>7. ASSUME NEW n \in Names, onDeleteStep(n) PROVE EditInv'
    <2>1. withoutDependency(Without(steps, {n}), n) \in Seq(Step)
        BY <1>1, DeleteKeeps
    <2> QED
        BY <1>7, <2>1, EditsCount, ChangeTyped DEF onDeleteStep
<1>8. ASSUME NEW n \in Names, startDrag(n) PROVE EditInv'
    <2> DEFINE d == [what |-> "drag", from |-> n, seen |-> Shown]
    <2>1. doing' = d /\ mode = "DAG" /\ UNCHANGED <<steps, mode, loaded, changed, server>>
        BY <1>8 DEF startDrag
    <2>2. d \in Doing
        BY DEF Doing, EditInv, TypeOK
    <2>3. d.what = "drag" /\ d.seen.mode = mode
        BY DEF Shown
    <2>4. edits' \in Nat
        BY <1>8, EditsCount DEF startDrag
    <2> HIDE DEF d
    <2> QED
        BY <2>1, <2>2, <2>3, <2>4 DEF EditInv, TypeOK, Shown, server
<1>9. ASSUME NEW n \in Names, drop(n) PROVE EditInv'
    <2>1. doing.from \in Names
        BY <1>9, DragDoing DEF drop
    <2>2. doing' = None /\ UNCHANGED <<mode, loaded, server, edits>>
        BY <1>9 DEF drop
    <2>3. edits' \in Nat
        BY <2>2 DEF EditInv, TypeOK
    <2>4. CASE canDependOn(doing.seen.steps, doing.from, n)
        <3>1. addDependency(steps, doing.from, n) \in Seq(Step)
            BY <1>1, <2>1, LinkKeeps
        <3>2. onChange(addDependency(steps, doing.from, n))
            BY <1>9, <2>4 DEF drop
        <3> QED
            BY <2>2, <2>3, <3>1, <3>2, ChangeTyped
    <2>5. CASE ~ canDependOn(doing.seen.steps, doing.from, n)
        <3>1. UNCHANGED <<steps, changed>>
            BY <1>9, <2>5 DEF drop
        <3> QED
            BY <2>2, <3>1 DEF EditInv, TypeOK, Shown, server
    <2> QED
        BY <2>4, <2>5
<1>10. ASSUME NEW i \in DOMAIN steps, NEW j \in DOMAIN steps, onMove(i, j) PROVE EditInv'
    <2> DEFINE at == First(steps, steps[i].name)
               other == at + j - i
    <2>1. edits' \in Nat /\ UNCHANGED <<mode, loaded, server>>
        BY <1>10, EditsCount DEF onMove
    <2>2. CASE other \in DOMAIN steps
        <3>1. onChange(swap(steps, at, other)) /\ UNCHANGED doing
            BY <1>10, <2>2 DEF onMove
        <3>2. at \in DOMAIN steps
            BY <1>1, FirstFound DEF NamesOf
        <3> HIDE DEF at, other
        <3>3. swap(steps, at, other) \in Seq(Step)
            <4> DEFINE l == Len(steps)
                       new == swap(steps, at, other)
            <4>1. l \in Nat /\ DOMAIN steps = 1..l /\ steps \in [1..l -> Step]
                BY <1>1
            <4>2. new \in [1..l -> Step]
                BY <2>2, <3>2, <4>1 DEF swap
            <4> QED
                BY <4>1, <4>2
        <3> QED
            BY <2>1, <3>1, <3>3, ChangeTyped
    <2>3. CASE other \notin DOMAIN steps
        <3>1. doing' = Broken /\ UNCHANGED <<steps, changed>>
            BY <1>10, <2>3 DEF onMove
        <3>2. Broken \in Doing /\ Broken.what = "broken"
            BY DEF Doing, Broken
        <3> QED
            BY <2>1, <3>1, <3>2 DEF EditInv, TypeOK, Shown, server
    <2> QED
        BY <2>2, <2>3
<1>11. ASSUME NEW from \in Names, NEW to \in Names, onUnlink(from, to) PROVE EditInv'
    <2>1. removeDependency(steps, from, to) \in Seq(Step)
        BY <1>1, UnlinkKeeps
    <2> QED
        BY <1>11, <2>1, EditsCount, ChangeTyped DEF onUnlink
<1>12. ASSUME NEW m \in Modes, onApply(m) PROVE EditInv'
    <2> DEFINE list == studioUpdate(mode, m, steps)
    <2>1. list \in Seq(Step)
        BY <1>1, OrderKeeps DEF studioUpdate
    <2>2. /\ steps' = list /\ changed' \in BOOLEAN /\ mode' = m
          /\ UNCHANGED <<loaded, doing, server>> /\ edits' \in Nat
        BY <1>12, EditsCount DEF onApply, onChange
    <2> HIDE DEF list
    <2>3. Shown' \in Pipeline
        BY <2>1, <2>2 DEF Shown, Pipeline
    <2> QED
        BY <2>2, <2>3 DEF EditInv, TypeOK, server
<1>13. CASE onSave
    <2>1. sending' = [phase |-> "sent", steps |-> steps, mode |-> mode] /\ edits' \in Nat
        BY <1>13, EditsCount DEF onSave
    <2>2. sending' \in Sending
        BY <1>1, <2>1 DEF Sending
    <2> QED
        BY <1>13, <2>1, <2>2 DEF onSave, EditInv, TypeOK, Shown
<1>14. CASE updatePipeline
    <2>1. sending.steps \in Seq(Step) /\ sending.mode \in Modes
        BY <1>1, <1>14 DEF updatePipeline, Sending
    <2>2. saved' \in Pipeline /\ sending' \in Sending
        BY <1>14, <2>1 DEF updatePipeline, Sending, Pipeline, Idle, EditInv, TypeOK
    <2> QED
        BY <1>14, <2>2 DEF updatePipeline, EditInv, TypeOK, Shown
<1>15. CASE Saved
    <2>1. loads' \in Seq(Load) /\ sending' \in Sending /\ changed' \in BOOLEAN
        <3>1. [phase |-> "asked"] \in Load
            BY DEF Load
        <3>2. Append(loads, [phase |-> "asked"]) \in Seq(Load)
            BY <1>1, <3>1
        <3> QED
            BY <1>15, <3>2 DEF Saved, Sending, Idle
    <2> QED
        BY <1>15, <2>1 DEF Saved, EditInv, TypeOK, Shown
<1>16. CASE SaveLost
    BY <1>16 DEF SaveLost, EditInv, TypeOK, Shown, Sending, Idle
<1>17. CASE loadPipeline
    <2> DEFINE answer == [phase |-> "answered", steps |-> saved.steps, mode |-> saved.mode]
    <2>1. PICK i \in DOMAIN loads : loads' = [loads EXCEPT ![i] = answer]
        BY <1>17 DEF loadPipeline
    <2>2. answer \in Load
        BY <1>1 DEF Load
    <2> HIDE DEF answer
    <2>3. loads' \in Seq(Load)
        <3>1. loads' \in [1..Len(loads) -> Load] /\ Len(loads) \in Nat
            BY <1>1, <2>1, <2>2
        <3> QED
            BY <3>1
    <2> QED
        BY <1>17, <2>3 DEF loadPipeline, EditInv, TypeOK, Shown
<1>18. CASE Loaded
    <2>1. Head(loads) \in Load /\ Tail(loads) \in Seq(Load)
        BY <1>1, <1>18 DEF Loaded
    <2>2. Head(loads).steps \in Seq(Step) /\ Head(loads).mode \in Modes
        BY <1>18, <2>1 DEF Loaded, Load
    <2>3. studioUpdate(mode, Head(loads).mode, Head(loads).steps) \in Seq(Step)
        BY <2>2, OrderKeeps DEF studioUpdate
    <2>4. Shown' \in Pipeline /\ loaded' \in Seq(Step) /\ loads' \in Seq(Load)
        BY <1>18, <2>1, <2>2, <2>3 DEF Loaded, Shown, Pipeline
    <2>5. changed' \in BOOLEAN
        BY <1>18 DEF Loaded, EditInv, TypeOK
    <2> QED
        BY <1>18, <2>4, <2>5 DEF Loaded, EditInv, TypeOK
<1>19. CASE LoadFails
    <2>1. loads' \in Seq(Load)
        BY <1>1, <1>19 DEF LoadFails
    <2> QED
        BY <1>19, <2>1 DEF LoadFails, EditInv, TypeOK, Shown
<1> QED
    BY <1>2, <1>3, <1>4, <1>5, <1>6, <1>7, <1>8, <1>9, <1>10, <1>11, <1>12, <1>13, <1>14,
       <1>15, <1>16, <1>17, <1>18, <1>19
       DEF Next

\* The steps the studio shows, holds as loaded, sends and is sent are lists of steps with
\* entries that are names: no edit blanks an entry, and the ordering of a list is a list.
THEOREM StudioTyped == Spec => []TypeOK
<1>1. EditInv => TypeOK
    BY DEF EditInv
<1> QED
    BY EditInit, EditNext, <1>1, PTL DEF Spec

LEMMA GraphKeeps ==
    ASSUME EditInv, ByGraph, Undisturbed, Finishes(steps, mode)
    PROVE  Finishes(steps', mode')
<1>1. steps \in Seq(Step) /\ mode \in Modes
    BY DEF EditInv, TypeOK, Shown, Pipeline
<1>2. ASSUME Adding, addStep(Offered(doing.seen.steps, doing.anchor, mode)) PROVE Finishes(steps', mode')
    <2>1. doing.seen = Shown /\ \A n \in NamesOf(steps) : n \notin Inputs[doing.name] /\ doing.name \notin Inputs[n]
        BY <1>2 DEF Undisturbed, Adding
    <2>2. doing.seen.steps = steps
        BY <2>1 DEF Shown
    <2>3. doing.name \in Names /\ doing.name \notin NamesOf(steps)
        BY <1>2, <2>2, AddDoing
    <2>4. /\ mode' = mode
          /\ steps' = insertAfter(steps, doing.anchor,
                         [name |-> doing.name, deps |-> Offered(steps, doing.anchor, mode)], doing.branch)
        BY <1>2, <2>2 DEF addStep, onChange
    <2>5. Finishes(insertAfter(steps, doing.anchor,
                      [name |-> doing.name, deps |-> Offered(steps, doing.anchor, mode)], doing.branch), mode)
        BY <1>1, <2>1, <2>3, InsertKeeps
    <2> QED
        BY <2>4, <2>5
<1>3. ASSUME NEW n \in Names, onDeleteStep(n) PROVE Finishes(steps', mode')
    <2>1. steps' = withoutDependency(Without(steps, {n}), n) /\ mode' = mode
        BY <1>3 DEF onDeleteStep, onChange
    <2> QED
        BY <1>1, <2>1, DeleteKeeps
<1>4. ASSUME NEW n \in Names, drop(n) PROVE Finishes(steps', mode')
    <2>1. doing # None /\ doing.what = "drag" /\ mode' = mode
        BY <1>4 DEF drop
    <2>2. doing.seen = Shown
        BY <2>1 DEF Undisturbed
    <2>3. doing.seen.steps = steps /\ doing.seen.mode = mode
        BY <2>2 DEF Shown
    <2>4. doing.from \in Names /\ mode = "DAG"
        BY <2>1, <2>3, DragDoing
    <2>5. CASE canDependOn(steps, doing.from, n)
        <3>1. steps' = addDependency(steps, doing.from, n)
            BY <1>4, <2>3, <2>5 DEF drop, onChange
        <3> QED
            BY <1>1, <2>1, <2>4, <2>5, <3>1, LinkKeeps
    <2>6. CASE ~ canDependOn(steps, doing.from, n)
        <3>1. steps' = steps
            BY <1>4, <2>3, <2>6 DEF drop
        <3> QED
            BY <2>1, <3>1
    <2> QED
        BY <2>5, <2>6
<1>5. ASSUME NEW i \in DOMAIN steps, NEW j \in DOMAIN steps, j = i + 1 \/ i = j + 1, onMove(i, j)
      PROVE  Finishes(steps', mode')
    <2>1. mode = "StepByStep" /\ mode' = mode /\ canMove(steps, i, j)
        BY <1>5 DEF onMove
    <2>2. First(steps, steps[i].name) = i
        BY <1>1, FoundByName, FinishesIs
    <2>3. i + j - i = j
        BY <1>1
    <2>4. steps' = swap(steps, i, j)
        BY <1>5, <2>2, <2>3 DEF onMove, onChange
    <2> QED
        BY <1>1, <1>5, <2>1, <2>4, MoveKeeps
<1>6. ASSUME NEW from \in Names, NEW to \in Names, onUnlink(from, to) PROVE Finishes(steps', mode')
    <2>1. steps' = removeDependency(steps, from, to) /\ mode' = mode
        BY <1>6 DEF onUnlink, onChange
    <2> QED
        BY <1>1, <2>1, UnlinkKeeps
<1>7. ASSUME NEW m \in Modes, onApply(m) PROVE Finishes(steps', mode')
    <2>1. steps' = studioUpdate(mode, m, steps) /\ mode' = m
        BY <1>7 DEF onApply, onChange
    <2>2. /\ Distinct(steps) /\ NamesOthers(steps) /\ Turns(steps)
          /\ mode = "StepByStep" => InOrder(steps)
        BY <1>1, FinishesIs
    <2>3. CASE mode # "StepByStep" /\ m = "StepByStep"
        BY <1>1, <2>1, <2>2, <2>3, OrderKeeps DEF studioUpdate
    <2>4. CASE ~ (mode # "StepByStep" /\ m = "StepByStep")
        <3>1. steps' = steps
            BY <2>1, <2>4 DEF studioUpdate
        <3>2. Finishes(steps, m)
            BY <1>1, <2>2, <2>4, FinishesIs
        <3> QED
            BY <2>1, <3>1, <3>2
    <2> QED
        BY <2>3, <2>4
<1> QED
    BY <1>2, <1>3, <1>4, <1>5, <1>6, <1>7 DEF ByGraph

\* Whatever is done in the graph, a workflow whose runs finish stays one, however many
\* steps it has: a line that may be drawn closes no loop, a step that is put in or taken
\* out leaves no wait on one that is gone or comes later, and switching to run in order
\* finds an order.
THEOREM GraphKeepsFinishing == Spec => StaysFinishing
<1>1. ASSUME EditInv, [Next]_vars
      PROVE  [ByGraph /\ Undisturbed /\ Finishes(steps, mode) => Finishes(steps', mode')]_vars
    BY <1>1, GraphKeeps
<1> QED
    BY EditInit, EditNext, <1>1, PTL DEF Spec, StaysFinishing

-----------------------------------------------------------------------------
(* The order is the best there is *)

\* The places from which orderByDependencies takes the steps are an order, and no order
\* comes before it.
LEMMA OrderIsFirst ==
    ASSUME NEW list \in Seq(Step), Distinct(list), Turns(list)
    PROVE  \E p \in Orders(list) :
              /\ orderByDependencies(list) = [k \in DOMAIN list |-> list[p[k]]]
              /\ \A q \in Orders(list) : p = q \/ Before(p, q)
<1> DEFINE n == Len(list)
           D == 1..n
           N == NamesOf(list)
           W == waitsOn(list)
<1>1. n \in Nat /\ DOMAIN list = D /\ \A i \in D : list[i] \in Step
    OBVIOUS
<1>2. PICK place \in [0..n -> Seq(Step)] :
              /\ \A k \in 1..n : place[k] = Placed(list, place[k-1])
              /\ \A k \in 0..n : PlacedSoFar(list, k, place[k])
              /\ orderByDependencies(list) = place[n]
    BY OrderPlaces
<1> DEFINE F(k) == FreeAfter(list, place[k-1])
           Fits(k, i) == /\ i \in F(k)
                         /\ \A j \in F(k) : i <= j
                         /\ place[k] = Append(place[k-1], list[i])
           p == [k \in D |-> CHOOSE i : Fits(k, i)]
<1>3. \A k \in D : k - 1 \in 0..(n-1) /\ k - 1 \in 0..n /\ k \in 0..n
    BY <1>1
<1>4. \A k \in 0..n : place[k] \in Seq(Step) /\ Len(place[k]) = k /\ Distinct(place[k])
    BY <1>2 DEF PlacedSoFar
<1> HIDE DEF n
<1>5. ASSUME NEW k \in D PROVE Fits(k, p[k])
    <2>1. F(k) # {}
        BY <1>3, <1>4, FreeLeft DEF n
    <2>2. place[k] = Placed(list, place[k-1]) /\ place[k-1] \in Seq(Step)
        BY <1>2, <1>3
    <2>3. \E i : Fits(k, i)
        <3>1. PICK i \in F(k) : /\ \A j \in F(k) : i <= j
                                /\ Placed(list, place[k-1]) = Append(place[k-1], list[i])
            BY <2>1, <2>2, PlacedIs
        <3>2. Fits(k, i)
            BY <2>2, <3>1, Zenon
        <3> HIDE DEF Fits
        <3> QED
            BY <3>2
    <2>4. p[k] = CHOOSE i : Fits(k, i)
        BY Zenon
    <2> HIDE DEF Fits, p
    <2> QED
        BY <2>3, <2>4, Zenon
<1> HIDE DEF p
<1>6. \A k \in D : /\ p[k] \in D
                   /\ list[p[k]].name \notin NamesOf(place[k-1])
                   /\ W[list[p[k]].name] \subseteq NamesOf(place[k-1])
                   /\ place[k] = Append(place[k-1], list[p[k]])
    BY <1>1, <1>5 DEF FreeAfter
<1>7. p \in [D -> D]
    BY <1>6 DEF p
<1>8. \A k \in 0..n : \A i \in 1..k : place[k][i] = list[p[i]]
    <2> DEFINE T == {k \in 0..n : \A i \in 1..k : place[k][i] = list[p[i]]}
    <2>1. 0 \in T
        BY <1>1
    <2>2. ASSUME NEW k \in 0..(n-1), k \in T PROVE k + 1 \in T
        <3>1. k \in 0..n /\ k + 1 \in D /\ (k + 1) - 1 = k /\ k + 1 \in 0..n /\ k \in Nat
            BY <1>1
        <3>2. place[k+1] = Append(place[k], list[p[k+1]])
            BY <1>6, <3>1
        <3>3. place[k] \in Seq(Step) /\ Len(place[k]) = k /\ list[p[k+1]] \in Step
            BY <1>1, <1>4, <1>6, <3>1
        <3>4. place[k+1][k+1] = list[p[k+1]] /\ \A i \in 1..k : place[k+1][i] = place[k][i]
            BY <3>1, <3>2, <3>3
        <3>5. \A i \in 1..(k+1) : i = k + 1 \/ i \in 1..k
            BY <3>1
        <3> QED
            BY <2>2, <3>1, <3>4, <3>5
    <2>3. \A k \in 0..n : k \in T
        <3> HIDE DEF T
        <3> QED
            BY <1>1, <2>1, <2>2, UpTo
    <2> QED
        BY <2>3
<1>9. ASSUME NEW k \in 0..n
      PROVE  \A y : y \in NamesOf(place[k]) <=> \E i \in 1..k : list[p[i]].name = y
    <2>1. DOMAIN place[k] = 1..k
        BY <1>4
    <2>2. \A i \in 1..k : place[k][i] = list[p[i]]
        BY <1>8
    <2>3. \A y : y \in NamesOf(place[k]) <=> \E i \in 1..k : place[k][i].name = y
        BY <2>1, Zenon DEF NamesOf
    <2> QED
        BY <2>2, <2>3, Zenon
<1>10. orderByDependencies(list) = [k \in DOMAIN list |-> list[p[k]]]
    <2>1. n \in 0..n
        BY <1>1
    <2>2. place[n] \in Seq(Step) /\ Len(place[n]) = n /\ \A i \in D : place[n][i] = list[p[i]]
        BY <1>4, <1>8, <2>1
    <2>3. place[n] = [k \in D |-> list[p[k]]]
        BY <2>2
    <2> QED
        BY <1>1, <1>2, <2>3
<1>11. ASSUME NEW i \in D, NEW j \in D, i < j
       PROVE  p[i] # p[j] /\ list[p[j]].name # list[p[i]].name
    <2>1. i \in 1..(j-1) /\ j - 1 \in 0..n
        BY <1>1, <1>11
    <2>2. list[p[i]].name \in NamesOf(place[j-1])
        BY <1>9, <2>1
    <2> QED
        BY <1>6, <2>2
<1>12. ASSUME NEW i \in D, NEW j \in D, i < j, list[p[j]].name \in W[list[p[i]].name] PROVE FALSE
    <2>1. list[p[j]].name \in NamesOf(place[i-1])
        BY <1>6, <1>12
    <2>2. PICK l \in 1..(i-1) : list[p[l]].name = list[p[j]].name
        BY <1>3, <1>9, <2>1
    <2>3. l \in D /\ l < j
        BY <1>1, <1>12
    <2> QED
        BY <1>11, <2>2, <2>3
<1>13. p \in Orders(list)
    BY <1>1, <1>7, <1>11, <1>12 DEF Orders
<1>14. ASSUME NEW q \in Orders(list), p # q PROVE Before(p, q)
    <2>1. q \in [D -> D]
        BY <1>1 DEF Orders
    <2>2. \A i, j \in D : i < j => q[i] # q[j] /\ list[q[j]].name \notin W[list[q[i]].name]
        BY <1>1 DEF Orders
    <2> DEFINE Diff == {i \in D : p[i] # q[i]}
    <2>3. Diff # {}
        <3>1. ASSUME \A i \in D : p[i] = q[i] PROVE FALSE
            <4> HIDE DEF D
            <4> QED
                BY <1>7, <1>14, <2>1, <3>1
        <3> QED
            BY <3>1
    <2>4. Diff \in SUBSET Nat
        BY <1>1
    <2>5. PICK i \in Diff : \A j \in Diff : i <= j
        <3> HIDE DEF Diff
        <3> QED
            BY <2>3, <2>4, Least
    <2>6. i \in D /\ p[i] # q[i] /\ i - 1 \in 0..n
        BY <1>3, <2>5
    <2>7. \A j \in 1..(i-1) : j \in D /\ j < i /\ p[j] = q[j]
        BY <1>1, <2>5
    <2>8. list[q[i]].name \notin NamesOf(place[i-1])
        <3>1. ASSUME NEW l \in 1..(i-1), list[p[l]].name = list[q[i]].name PROVE FALSE
            <4>1. q[l] # q[i] /\ q[l] \in D /\ q[i] \in D /\ list[q[l]].name = list[q[i]].name
                BY <2>1, <2>2, <2>6, <2>7, <3>1
            <4> QED
                BY <1>1, <4>1 DEF Distinct
        <3> QED
            BY <1>9, <2>6, <3>1
    <2>9. \A z \in D : \E l \in D : q[l] = z
        <3>1. \A a, b \in D : q[a] = q[b] => a = b
            <4> SUFFICES ASSUME NEW a \in D, NEW b \in D, q[a] = q[b] PROVE a = b
                OBVIOUS
            <4>1. a \in Nat /\ b \in Nat
                BY <1>1
            <4> QED
                BY <2>2, <4>1
        <3>2. q \in Injection(D, D)
            BY <2>1, <3>1 DEF Injection, IsInjective
        <3>3. IsFiniteSet(D)
            <4>1. 1 \in Int /\ n \in Int
                BY <1>1
            <4> QED
                BY <4>1, FS_Interval
        <3> HIDE DEF D
        <3>4. q \in Surjection(D, D)
            BY <3>2, <3>3, FS_Injection
        <3> QED
            BY <3>4 DEF Surjection
    <2>10. ASSUME NEW y \in W[list[q[i]].name] PROVE y \in NamesOf(place[i-1])
        <3>1. W[list[q[i]].name] = Wait(list[q[i]], N)
            BY <1>1, <2>1, <2>6, WaitsAre
        <3>2. y \in N /\ y # list[q[i]].name
            BY <2>10, <3>1 DEF Wait
        <3>3. PICK z \in D : list[z].name = y
            BY <1>1, <3>2 DEF NamesOf
        <3>4. PICK l \in D : q[l] = z
            BY <2>9
        <3>5. ~ (i < l) /\ l # i
            BY <2>2, <2>6, <2>10, <3>2, <3>3, <3>4
        <3>6. l \in 1..(i-1)
            BY <1>1, <2>6, <3>5
        <3> QED
            BY <1>9, <2>6, <2>7, <3>3, <3>4, <3>6
    <2>11. q[i] \in F(i)
        BY <1>1, <2>1, <2>6, <2>8, <2>10 DEF FreeAfter
    <2>12. p[i] <= q[i]
        BY <1>5, <2>6, <2>11
    <2>13. p[i] < q[i]
        BY <1>1, <1>7, <2>1, <2>6, <2>12
    <2> QED
        BY <1>7, <2>6, <2>7, <2>13 DEF Before
<1> QED
    BY <1>10, <1>13, <1>14

\* Whatever steps the studio shows, orderByDependencies would give them the first of the
\* orders that have no step wait on a later one.
THEOREM OrderBest == Spec => []OrderIsBest
<1>1. ASSUME EditInv PROVE OrderIsBest
    <2> SUFFICES ASSUME Unique(steps), LoopFree(steps)
                 PROVE  LET orders == Orders(steps)
                            first == CHOOSE p \in orders : \A q \in orders : p = q \/ Before(p, q)
                        IN  orderByDependencies(steps) = [i \in DOMAIN steps |-> steps[first[i]]]
        BY DEF OrderIsBest
    <2> DEFINE First1(p) == \A q \in Orders(steps) : p = q \/ Before(p, q)
    <2>1. steps \in Seq(Step)
        BY <1>1 DEF EditInv, TypeOK, Shown, Pipeline
    <2>2. Distinct(steps) /\ Turns(steps)
        BY <2>1, NamesAreFinite, TurnsIs
    <2>3. PICK p \in Orders(steps) :
             orderByDependencies(steps) = [k \in DOMAIN steps |-> steps[p[k]]] /\ First1(p)
        BY <2>1, <2>2, OrderIsFirst
    <2>4. ASSUME NEW r \in Orders(steps), First1(r) PROVE r = p
        <3> DEFINE n == Len(steps)
        <3>1. n \in Nat /\ DOMAIN steps = 1..n
            BY <2>1
        <3>2. r \in [1..n -> 1..n] /\ p \in [1..n -> 1..n]
            BY <3>1 DEF Orders
        <3>3. ~ (Before(p, r) /\ Before(r, p))
            <4> HIDE DEF n
            <4> SUFFICES ASSUME NEW i \in 1..n, p[i] < r[i], \A k \in 1..(i-1) : p[k] = r[k],
                                NEW j \in 1..n, r[j] < p[j], \A k \in 1..(j-1) : r[k] = p[k]
                         PROVE  FALSE
                BY <3>2 DEF Before
            <4>1. i \in Nat /\ j \in Nat /\ p[i] \in Nat /\ r[i] \in Nat /\ p[j] \in Nat /\ r[j] \in Nat
                <5>1. p[i] \in 1..n /\ r[i] \in 1..n /\ p[j] \in 1..n /\ r[j] \in 1..n
                    BY <3>2
                <5>2. n \in Nat
                    BY <3>1
                <5> QED
                    BY <5>1, <5>2
            <4>2. CASE i < j
                <5>1. r[i] = p[i]
                    BY <3>1, <4>2
                <5> QED
                    BY <4>1, <5>1
            <4>3. CASE j < i
                <5>1. r[j] = p[j]
                    BY <3>1, <4>3
                <5> QED
                    BY <4>1, <5>1
            <4>4. CASE i = j
                BY <4>1, <4>4
            <4> QED
                BY <4>1, <4>2, <4>3, <4>4
        <3> QED
            BY <2>3, <2>4, <3>3
    <2>5. (CHOOSE r \in Orders(steps) : First1(r)) = p
        <3> HIDE DEF First1
        <3> QED
            BY <2>3, <2>4
    <2> QED
        BY <2>3, <2>5, Zenon
<1> QED
    BY EditInit, EditNext, <1>1, PTL DEF Spec

-----------------------------------------------------------------------------
(* The lines of the graph *)

\* Reaches, for proofs: from a step to itself and to what any step it has come to waits
\* on, and to nothing else.
LEMMA ReachesSelf ==
    ASSUME NEW links, IsFiniteSet(links), NEW a
    PROVE  Reaches(links, a, a)
BY ReachesIsClosure

LEMMA ReachesStep ==
    ASSUME NEW links, IsFiniteSet(links), NEW a, NEW l \in links, Reaches(links, a, l[2])
    PROVE  Reaches(links, a, l[1])
BY ReachesIsClosure DEF Closed

LEMMA ReachesWithin ==
    ASSUME NEW links, IsFiniteSet(links), NEW a, NEW b, NEW Q,
           Reaches(links, a, b), a \in Q, Closed(links, Q)
    PROVE  b \in Q
BY ReachesIsClosure

LEMMA ReachesOn ==
    ASSUME NEW links, IsFiniteSet(links), NEW a, NEW b, NEW c,
           Reaches(links, a, b), Reaches(links, b, c)
    PROVE  Reaches(links, a, c)
<1>1. PICK R : /\ \A x : Reaches(links, a, x) <=> x \in R
               /\ Closed(links, R)
    BY ReachesIsClosure
<1> QED
    BY <1>1, ReachesWithin

LEMMA ReachesMore ==
    ASSUME NEW links, IsFiniteSet(links), NEW fewer \in SUBSET links, NEW a, NEW b,
           Reaches(fewer, a, b)
    PROVE  Reaches(links, a, b)
<1>1. IsFiniteSet(fewer)
    BY FS_Subset
<1>2. PICK R : /\ \A x : Reaches(links, a, x) <=> x \in R
               /\ a \in R /\ Closed(links, R)
    BY ReachesIsClosure
<1>3. Closed(fewer, R)
    BY <1>2 DEF Closed
<1> QED
    BY <1>1, <1>2, <1>3, ReachesWithin

\* A step that reaches another reaches it through a step it waits on.
LEMMA ReachesThrough ==
    ASSUME NEW links, IsFiniteSet(links), NEW N, links \in SUBSET (N \X N),
           NEW fewer \in SUBSET links, NEW v, NEW b, b # v, Reaches(fewer, v, b)
    PROVE  \E u \in N : <<u, v>> \in fewer /\ Reaches(links, u, b)
<1> DEFINE Q == {v} \cup {x \in N : \E u \in N : <<u, v>> \in fewer /\ Reaches(links, u, x)}
<1>1. IsFiniteSet(fewer)
    BY FS_Subset
<1>2. ASSUME NEW l \in fewer, l[2] \in Q PROVE l[1] \in Q
    <2>1. l \in links /\ l[1] \in N /\ l = <<l[1], l[2]>>
        OBVIOUS
    <2>2. CASE l[2] = v
        <3>1. <<l[1], v>> \in fewer /\ Reaches(links, l[1], l[1])
            BY <2>1, <2>2, ReachesSelf
        <3> QED
            BY <2>1, <3>1
    <2>3. CASE l[2] # v
        <3>1. PICK u \in N : <<u, v>> \in fewer /\ Reaches(links, u, l[2])
            BY <1>2, <2>3
        <3>2. Reaches(links, u, l[1])
            BY <2>1, <3>1, ReachesStep
        <3> QED
            BY <2>1, <3>1, <3>2
    <2> QED
        BY <2>2, <2>3
<1>3. v \in Q /\ Closed(fewer, Q)
    BY <1>2 DEF Closed
<1>4. b \in Q
    <2> HIDE DEF Q
    <2> QED
        BY <1>1, <1>3, ReachesWithin
<1> QED
    BY <1>4

\* Of any steps one waits on none of them, by these links.
Sourced(links, N) == \A S \in SUBSET N : S # {} => \E v \in S : \A u \in S : <<u, v>> \notin links

\* Where there are no loops, no two steps reach one another.
LEMMA ReachesOneWay ==
    ASSUME NEW N, IsFiniteSet(N), NEW links \in SUBSET (N \X N), IsFiniteSet(links), Sourced(links, N),
           NEW a \in N, NEW b \in N, Reaches(links, a, b), Reaches(links, b, a)
    PROVE  a = b
<1> SUFFICES ASSUME a # b PROVE FALSE
    OBVIOUS
<1> DEFINE S == {w \in N : Reaches(links, a, w) /\ Reaches(links, w, a)}
<1>1. a \in S /\ b \in S
    BY ReachesSelf
<1>2. PICK v \in S : \A u \in S : <<u, v>> \notin links
    BY <1>1 DEF Sourced
<1>3. PICK w \in S : w # v
    BY <1>1
<1>4. Reaches(links, v, w)
    BY <1>2, <1>3, ReachesOn
<1>5. PICK u \in N : <<u, v>> \in links /\ Reaches(links, u, w)
    BY <1>3, <1>4, ReachesThrough
<1>6. Reaches(links, u, a)
    BY <1>3, <1>5, ReachesOn
<1>7. Reaches(links, a, u)
    <2>1. <<u, v>>[2] = v /\ <<u, v>>[1] = u
        OBVIOUS
    <2> QED
        BY <1>2, <1>5, <2>1, ReachesStep
<1> QED
    BY <1>2, <1>5, <1>6, <1>7

\* The links that no longer path implies.
Direct(links) == {l \in links : ~ Reaches(links \ {l}, l[2], l[1])}

\* Without loops they lead wherever the links do.
LEMMA DirectReaches ==
    ASSUME NEW N, IsFiniteSet(N), NEW links \in SUBSET (N \X N), Sourced(links, N),
           NEW a \in N, NEW b \in N, Reaches(links, a, b)
    PROVE  Reaches(Direct(links), a, b)
<1> DEFINE E == Direct(links)
           S == {v \in N : \E x \in N : Reaches(links, v, x) /\ ~ Reaches(E, v, x)}
<1>1. IsFiniteSet(links) /\ E \in SUBSET links /\ IsFiniteSet(E)
    <2>1. IsFiniteSet(N \X N)
        BY FS_Product
    <2>2. IsFiniteSet(links)
        BY <2>1, FS_Subset
    <2> QED
        BY <2>2, FS_Subset DEF Direct
<1> HIDE DEF E
<1> SUFFICES ASSUME S # {} PROVE FALSE
    BY DEF E
<1>2. PICK v \in S : \A u \in S : <<u, v>> \notin links
    BY DEF Sourced
<1> DEFINE P == {u \in N : <<u, v>> \in links /\ ~ Reaches(E, v, u)}
           R(u) == {x \in N : Reaches(links, u, x)}
           M == {Cardinality(N) - Cardinality(R(u)) : u \in P}
<1>3. ASSUME NEW u \in N, <<u, v>> \in links, NEW x \in N, Reaches(links, u, x), Reaches(E, v, u)
      PROVE  Reaches(E, v, x)
    <2>1. Reaches(E, u, x)
        BY <1>2, <1>3
    <2> QED
        BY <1>1, <1>3, <2>1, ReachesOn
<1>4. P # {}
    <2>1. PICK x \in N : Reaches(links, v, x) /\ ~ Reaches(E, v, x)
        BY <1>2
    <2>2. x # v
        BY <1>1, <2>1, ReachesSelf
    <2>3. PICK u \in N : <<u, v>> \in links /\ Reaches(links, u, x)
        BY <1>1, <2>1, <2>2, ReachesThrough
    <2> QED
        BY <1>3, <2>1, <2>3
<1>5. \A u : /\ IsFiniteSet(R(u)) /\ Cardinality(R(u)) \in Nat
             /\ Cardinality(R(u)) <= Cardinality(N) /\ Cardinality(N) \in Nat
    <2> SUFFICES ASSUME NEW u
                 PROVE  /\ IsFiniteSet(R(u)) /\ Cardinality(R(u)) \in Nat
                        /\ Cardinality(R(u)) <= Cardinality(N) /\ Cardinality(N) \in Nat
        OBVIOUS
    <2>1. R(u) \in SUBSET N
        OBVIOUS
    <2> HIDE DEF R
    <2> QED
        BY <2>1, FS_Subset, FS_CardinalityType
<1>6. PICK u \in P : \A w \in P : Cardinality(R(w)) <= Cardinality(R(u))
    <2> HIDE DEF P, R
    <2>1. M \in SUBSET Nat /\ M # {}
        BY <1>4, <1>5
    <2>2. PICK m \in M : \A k \in M : m <= k
        <3> HIDE DEF M
        <3> QED
            BY <2>1, Least
    <2>3. PICK u \in P : m = Cardinality(N) - Cardinality(R(u))
        BY <2>2
    <2>4. \A w \in P : Cardinality(N) - Cardinality(R(u)) <= Cardinality(N) - Cardinality(R(w))
        BY <2>2, <2>3
    <2> QED
        BY <1>5, <2>4
<1> DEFINE e == <<u, v>>
<1>7. e \in links /\ e[1] = u /\ e[2] = v /\ ~ Reaches(E, v, u)
    BY <1>6
<1>8. Reaches(links \ {e}, v, u)
    <2>1. e \notin E
        BY <1>1, <1>7, ReachesSelf, ReachesStep
    <2> QED
        BY <1>7, <2>1 DEF E, Direct
<1>9. u # v
    BY <1>1, <1>7, ReachesSelf
<1>10. PICK w \in N : <<w, v>> \in links \ {e} /\ Reaches(links, w, u)
    <2>1. (links \ {e}) \in SUBSET links
        OBVIOUS
    <2> HIDE DEF e
    <2> QED
        BY <1>1, <1>8, <1>9, <2>1, ReachesThrough
<1>11. w \in P /\ w # u /\ u \in N
    <2>1. u \in N
        BY <1>6
    <2> QED
        BY <1>3, <1>7, <1>10, <2>1
<1>12. R(u) \in SUBSET R(w) /\ w \in R(w) /\ w \notin R(u)
    <2>1. \A x \in N : Reaches(links, u, x) => Reaches(links, w, x)
        BY <1>1, <1>10, ReachesOn
    <2>2. Reaches(links, w, w)
        BY <1>1, ReachesSelf
    <2>3. ~ Reaches(links, u, w)
        BY <1>1, <1>10, <1>11, ReachesOneWay
    <2> QED
        BY <1>11, <2>1, <2>2, <2>3
<1>13. Cardinality(R(w)) <= Cardinality(R(u))
    BY <1>6, <1>11
<1> HIDE DEF R
<1>14. Cardinality(R(u)) <= Cardinality(R(w)) /\ (Cardinality(R(w)) = Cardinality(R(u)) => R(w) = R(u))
    BY <1>5, <1>12, FS_Subset
<1> QED
    BY <1>5, <1>12, <1>13, <1>14


\* The waits of a list, and the pairs of neighbours of one that is run in order, lead
\* from one of its steps to another, without loops; those that are run in order only
\* forward.
LEMMA AllLinksAre ==
    ASSUME NEW list \in Seq(Step), NEW m \in Modes, Finishes(list, m)
    PROVE  /\ AllLinks(list, m) \in SUBSET (NamesOf(list) \X NamesOf(list))
           /\ Sourced(AllLinks(list, m), NamesOf(list))
           /\ m # "DAG" => \A l \in AllLinks(list, m) : \E i, j \in DOMAIN list :
                              i < j /\ l = <<list[i].name, list[j].name>>
<1> DEFINE n == Len(list)
           N == NamesOf(list)
           W == waitsOn(list)
           L == AllLinks(list, m)
           C == {<<list[i].name, list[i+1].name>> : i \in 1..(n - 1)}
<1>1. n \in Nat /\ DOMAIN list = 1..n /\ \A i \in 1..n : list[i] \in Step /\ list[i].name \in N
    BY DEF NamesOf
<1>2. /\ Distinct(list) /\ Turns(list)
      /\ m # "DAG" => InOrder(list)
    BY FinishesIs DEF Modes
<1>3. DOMAIN W = N /\ \A i \in DOMAIN list : W[list[i].name] = Wait(list[i], N)
    BY <1>2, WaitsAre
<1>4. \A x \in N : \E i \in DOMAIN list : list[i].name = x
    BY DEF NamesOf
<1>5. L = Links(W) \cup IF m = "DAG" THEN {} ELSE {l \in C : l[1] # l[2]}
    BY Zenon DEF AllLinks
<1> HIDE DEF n, N, W, L
<1>6. \A l : l \in Links(W) => \E j \in DOMAIN list : \E y \in Wait(list[j], N) : l = <<y, list[j].name>>
    <2> SUFFICES ASSUME NEW l \in Links(W)
                 PROVE  \E j \in DOMAIN list : \E y \in Wait(list[j], N) : l = <<y, list[j].name>>
        OBVIOUS
    <2>1. PICK x \in DOMAIN W : l \in W[x] \X {x}
        BY Zenon DEF Links
    <2>2. PICK j \in DOMAIN list : list[j].name = x
        BY <1>3, <1>4, <2>1
    <2>3. PICK y \in W[x] : l = <<y, x>>
        BY <2>1
    <2> QED
        BY <1>3, <2>2, <2>3
<1>7. \A l : l \in C => \E i \in 1..(n - 1) : i \in DOMAIN list /\ i + 1 \in DOMAIN list
                                     /\ l = <<list[i].name, list[i+1].name>>
    BY <1>1
<1> HIDE DEF C
<1>8. \A j \in DOMAIN list : \A y \in Wait(list[j], N) : y \in N /\ y # list[j].name
    BY DEF Wait
<1>9. L \in SUBSET (N \X N)
    <2>1. ASSUME NEW l \in L PROVE l \in N \X N
        <3>1. CASE l \in Links(W)
            BY <1>1, <1>6, <1>8, <3>1
        <3>2. CASE l \in C
            BY <1>1, <1>7, <3>2
        <3> QED
            BY <1>5, <3>1, <3>2
    <2> QED
        BY <2>1
<1>10. ASSUME m # "DAG", NEW l \in L
       PROVE  \E i, j \in DOMAIN list : i < j /\ l = <<list[i].name, list[j].name>>
    <2>1. CASE l \in Links(W)
        <3>1. PICK j \in DOMAIN list : \E y \in Wait(list[j], N) : l = <<y, list[j].name>>
            BY <1>6, <2>1
        <3>2. PICK y \in Wait(list[j], N) : l = <<y, list[j].name>>
            BY <3>1
        <3>3. y \in N /\ y # list[j].name
            BY <1>8
        <3>4. PICK i \in DOMAIN list : list[i].name = y
            BY <1>4, <3>3
        <3>5. i # j /\ ~ (j < i)
            BY <1>2, <1>10, <3>2, <3>3, <3>4 DEF InOrder, N
        <3>6. i < j
            BY <1>1, <3>5
        <3> QED
            BY <3>2, <3>4, <3>6
    <2>2. CASE l \in C
        <3>1. PICK i \in 1..(n - 1) : /\ i \in DOMAIN list /\ i + 1 \in DOMAIN list
                                      /\ l = <<list[i].name, list[i+1].name>>
            BY <1>7, <2>2
        <3>2. i < i + 1
            BY <1>1
        <3> QED
            BY <3>1, <3>2
    <2> QED
        BY <1>5, <2>1, <2>2
<1>11. ASSUME NEW S \in SUBSET N, S # {}
       PROVE  \E v \in S : \A u \in S : <<u, v>> \notin L
    <2>1. CASE m = "DAG"
        <3>1. PICK i \in DOMAIN list : list[i].name \in S /\ Wait(list[i], N) \cap S = {}
            BY <1>2, <1>11 DEF Turns, N
        <3>2. ASSUME NEW u \in S, <<u, list[i].name>> \in L PROVE FALSE
            <4>1. <<u, list[i].name>> \in Links(W)
                BY <1>5, <2>1, <3>2
            <4>2. PICK j \in DOMAIN list : \E y \in Wait(list[j], N) : <<u, list[i].name>> = <<y, list[j].name>>
                BY <1>6, <4>1
            <4>3. u \in Wait(list[j], N) /\ list[i].name = list[j].name
                BY <4>2
            <4>4. i = j
                BY <1>2, <4>3 DEF Distinct
            <4> QED
                BY <3>1, <3>2, <4>3, <4>4
        <3> QED
            BY <3>1, <3>2
    <2>2. CASE m # "DAG"
        <3> DEFINE I == {i \in DOMAIN list : list[i].name \in S}
        <3>1. I \in SUBSET Nat /\ I # {}
            BY <1>1, <1>4, <1>11
        <3>2. PICK i \in I : \A j \in I : i <= j
            <4> HIDE DEF I
            <4> QED
                BY <3>1, Least
        <3>3. ASSUME NEW u \in S, <<u, list[i].name>> \in L PROVE FALSE
            <4>1. PICK k, j \in DOMAIN list : k < j /\ <<u, list[i].name>> = <<list[k].name, list[j].name>>
                BY <1>10, <2>2, <3>3
            <4>2. j = i /\ k \in I
                BY <1>2, <3>2, <3>3, <4>1 DEF Distinct
            <4>3. i <= k /\ k < i /\ i \in Nat /\ k \in Nat
                BY <1>1, <3>2, <4>1, <4>2
            <4> QED
                BY <4>3
        <3> QED
            BY <3>2, <3>3
    <2> QED
        BY <2>1, <2>2
<1>12. Sourced(L, N)
    BY <1>11 DEF Sourced
<1> QED
    BY <1>9, <1>10, <1>12 DEF L, N

\* Of a list that finishes no line goes backward.
LEMMA EdgesAre ==
    ASSUME NEW list \in Seq(Step), NEW m \in Modes, Finishes(list, m)
    PROVE  stepEdges(list, m) = Direct(AllLinks(list, m))
<1> DEFINE L == AllLinks(list, m)
           backward == {l \in L : m # "DAG" /\ Last(list, l[1]) > Last(list, l[2])}
<1>1. backward = {}
    <2> SUFFICES ASSUME m # "DAG", NEW l \in L, Last(list, l[1]) > Last(list, l[2]) PROVE FALSE
        OBVIOUS
    <2>1. PICK i, j \in DOMAIN list : i < j /\ l = <<list[i].name, list[j].name>>
        BY AllLinksAre
    <2>2. Distinct(list)
        BY FinishesIs
    <2>3. Last(list, l[1]) = i /\ Last(list, l[2]) = j
        BY <2>1, <2>2, FoundByName
    <2>4. i \in Nat /\ j \in Nat
        OBVIOUS
    <2> QED
        BY <2>1, <2>3, <2>4
<1>2. stepEdges(list, m)
        = backward \cup {l \in L \ backward : ~ Reaches((L \ backward) \ {l}, l[2], l[1])}
    BY Zenon DEF stepEdges
<1>3. L \ backward = L
    BY <1>1
<1> HIDE DEF L, backward
<1>4. stepEdges(list, m) = {l \in L : ~ Reaches(L \ {l}, l[2], l[1])}
    BY <1>1, <1>2, <1>3
<1> QED
    BY <1>4 DEF Direct, L

\* Of steps that are run in order each reaches those before it.
LEMMA ReachesEarlier ==
    ASSUME NEW list \in Seq(Step), NEW m \in Modes, Finishes(list, m), m # "DAG",
           NEW i \in DOMAIN list, NEW j \in DOMAIN list, i < j
    PROVE  Reaches(AllLinks(list, m), list[j].name, list[i].name)
<1> DEFINE n == j - i
           L == AllLinks(list, m)
           T == {k \in 0..n : Reaches(L, list[j].name, list[j-k].name)}
<1>1. Len(list) \in Nat /\ DOMAIN list = 1..Len(list) /\ i \in Nat /\ j \in Nat /\ n \in Nat
    OBVIOUS
<1>2. IsFiniteSet(L) /\ Distinct(list)
    <2>1. IsFiniteSet(NamesOf(list) \X NamesOf(list))
        BY NamesAreFinite, FS_Product
    <2>2. L \in SUBSET (NamesOf(list) \X NamesOf(list))
        BY AllLinksAre
    <2> HIDE DEF L
    <2> QED
        BY <2>1, <2>2, FS_Subset, FinishesIs
<1>3. 0 \in T
    <2>1. j - 0 = j /\ 0 \in 0..n
        BY <1>1
    <2> HIDE DEF L
    <2> QED
        BY <1>2, <2>1, ReachesSelf
<1>4. ASSUME NEW k \in 0..(n-1), k \in T PROVE k + 1 \in T
    <2> DEFINE b == j - (k + 1)
    <2>1. b \in 1..(Len(list) - 1) /\ b \in DOMAIN list /\ b + 1 \in DOMAIN list /\ b + 1 = j - k /\ b # b + 1
          /\ k + 1 \in 0..n
        BY <1>1
    <2> HIDE DEF b
    <2> DEFINE l == <<list[b].name, list[b+1].name>>
    <2>2. l[1] = list[b].name /\ l[2] = list[b+1].name /\ l[1] # l[2]
        BY <1>2, <2>1 DEF Distinct
    <2>3. l \in {<<list[x].name, list[x+1].name>> : x \in 1..(Len(list) - 1)}
        BY <2>1
    <2> HIDE DEF l
    <2>4. l \in L
        BY <2>2, <2>3, Zenon DEF AllLinks
    <2>5. Reaches(L, list[j].name, l[2])
        BY <1>4, <2>1, <2>2
    <2> HIDE DEF L
    <2>6. Reaches(L, list[j].name, l[1])
        BY <1>2, <2>4, <2>5, ReachesStep
    <2> QED
        BY <2>1, <2>2, <2>6 DEF b
<1>5. n \in T
    <2>1. n \in 0..n
        BY <1>1
    <2> HIDE DEF T, n
    <2> QED
        BY <1>1, <1>3, <1>4, <2>1, UpTo
<1>6. j - n = i
    BY <1>1
<1> QED
    BY <1>5, <1>6

\* The lines of the graph, of workflows of any length that finish: drawn is what no longer
\* path implies, which says where the steps wait, and in what order they run, without one
\* line too many.
THEOREM LinesTellAll == Spec => []LinesSayAll
<1>1. ASSUME EditInv PROVE LinesSayAll
    <2> DEFINE N == NamesOf(steps)
               L == AllLinks(steps, mode)
               edges == stepEdges(steps, mode)
               Earlier(p, q) == mode # "DAG" /\ First(steps, p) < First(steps, q)
               all == Links(waitsOn(steps)) \cup {l \in N \X N : Earlier(l[1], l[2])}
    <2> SUFFICES ASSUME Finishes(steps, mode)
                 PROVE  /\ edges \subseteq all
                        /\ \A l \in all : Reaches(edges, l[2], l[1])
                        /\ \A e \in edges : ~ Reaches(edges \ {e}, e[2], e[1])
        BY Zenon DEF LinesSayAll
    <2>1. steps \in Seq(Step) /\ mode \in Modes
        BY <1>1 DEF EditInv, TypeOK, Shown, Pipeline
    <2>2. Distinct(steps)
        BY <2>1, FinishesIs
    <2>3. /\ L \in SUBSET (N \X N) /\ Sourced(L, N)
          /\ mode # "DAG" => \A l \in L : \E i, j \in DOMAIN steps :
                                i < j /\ l = <<steps[i].name, steps[j].name>>
        BY <2>1, AllLinksAre
    <2>4. edges = Direct(L)
        BY <2>1, EdgesAre
    <2>5. IsFiniteSet(N) /\ IsFiniteSet(L)
        <3>1. IsFiniteSet(N)
            BY <2>1, NamesAreFinite
        <3>2. IsFiniteSet(N \X N)
            BY <3>1, FS_Product
        <3> HIDE DEF N, L
        <3> QED
            BY <2>3, <3>1, <3>2, FS_Subset
    <2>6. \A i \in DOMAIN steps : First(steps, steps[i].name) = i
        BY <2>1, <2>2, FoundByName
    <2>7. \A x \in N : \E i \in DOMAIN steps : steps[i].name = x
        BY DEF NamesOf
    <2>8. Links(waitsOn(steps)) \subseteq L /\ (mode = "DAG" => L = Links(waitsOn(steps)))
        BY DEF AllLinks
    <2> HIDE DEF N, L, edges
    <2>9. L \subseteq all
        <3>1. CASE mode = "DAG"
            BY <2>8, <3>1
        <3>2. ASSUME mode # "DAG", NEW l \in L PROVE l \in N \X N /\ Earlier(l[1], l[2])
            <4>1. PICK i, j \in DOMAIN steps : i < j /\ l = <<steps[i].name, steps[j].name>>
                BY <2>3, <3>2
            <4>2. First(steps, l[1]) = i /\ First(steps, l[2]) = j
                BY <2>6, <4>1
            <4> QED
                BY <2>3, <3>2, <4>1, <4>2
        <3> HIDE DEF Earlier
        <3> QED
            BY <3>1, <3>2
    <2>10. ASSUME NEW l \in all PROVE l[1] \in N /\ l[2] \in N /\ Reaches(L, l[2], l[1])
        <3>1. CASE l \in L
            <4>1. Reaches(L, l[2], l[1])
                BY <2>5, <3>1, ReachesSelf, ReachesStep
            <4> QED
                BY <2>3, <3>1, <4>1
        <3>2. CASE l \in N \X N /\ Earlier(l[1], l[2])
            <4>1. PICK i, j \in DOMAIN steps : l[1] = steps[i].name /\ l[2] = steps[j].name
                BY <2>7, <3>2
            <4>2. i < j
                BY <2>6, <3>2, <4>1
            <4>3. Reaches(L, steps[j].name, steps[i].name)
                BY <2>1, <3>2, <4>2, ReachesEarlier DEF L
            <4> QED
                BY <3>2, <4>1, <4>3
        <3> QED
            BY <2>8, <3>1, <3>2
    <2>11. \A l \in all : Reaches(edges, l[2], l[1])
        BY <2>3, <2>4, <2>5, <2>10, DirectReaches
    <2>12. ASSUME NEW e \in edges, Reaches(edges \ {e}, e[2], e[1]) PROVE FALSE
        <3>1. e \in L /\ ~ Reaches(L \ {e}, e[2], e[1]) /\ edges \ {e} \in SUBSET (L \ {e})
            BY <2>4 DEF Direct
        <3>2. IsFiniteSet(L \ {e})
            BY <2>5, FS_Subset
        <3> QED
            BY <2>12, <3>1, <3>2, ReachesMore
    <2>13. edges \subseteq L
        BY <2>4 DEF Direct
    <2> QED
        BY <2>9, <2>11, <2>12, <2>13
<1> QED
    BY EditInit, EditNext, <1>1, PTL DEF Spec

=============================================================================
