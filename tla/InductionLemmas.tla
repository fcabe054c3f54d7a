-------------------------- MODULE InductionLemmas --------------------------
(***************************************************************************)
(* Induction over natural numbers and over finite sets, recursive          *)
(* definitions and sums, as facts about sets and functions: a statement to *)
(* be shown by induction is the set of the values it holds for. The proofs *)
(* about components whose state is folded or built up step by step cite    *)
(* them.                                                                   *)
(***************************************************************************)
EXTENDS Integers, Functions, FiniteSetTheorems, WellFoundedInduction, TLAPS

\* Some set of a collection of finite sets has no smaller one in it.
LEMMA MinimalSet ==
  ASSUME NEW D, IsFiniteSet(D), NEW Bad, Bad \subseteq SUBSET D, Bad # {}
  PROVE  \E m \in Bad : \A T \in SUBSET m : T # m => T \notin Bad
  <1>1. IsWellFoundedOn(StrictSubsetOrdering(D), FiniteSubsetsOf(D))
    BY FS_StrictSubsetOrderingWellFounded
  <1>2. Bad \subseteq FiniteSubsetsOf(D)
    BY FS_FiniteSubsetsOfFinite
  <1>3. \E m \in Bad : \A T \in Bad : ~ (<<T, m>> \in StrictSubsetOrdering(D))
    BY <1>1, <1>2, WFMin
  <1>4. QED
    BY <1>3 DEF StrictSubsetOrdering

\* Induction over a finite set, one element at a time.
LEMMA SetInduction ==
  ASSUME NEW D, IsFiniteSet(D), NEW Good, {} \in Good,
         \A s \in SUBSET D : \A x \in s : s \ {x} \in Good => s \in Good
  PROVE  D \in Good
  <1> DEFINE Bad == (SUBSET D) \ Good
  <1>1. SUFFICES ASSUME D \notin Good PROVE FALSE
    OBVIOUS
  <1>a. Bad \subseteq SUBSET D /\ Bad # {} /\ {} \notin Bad
    BY <1>1
  <1>b. \A s \in SUBSET D : \A x \in s : s \in Bad => s \ {x} \in Bad
    OBVIOUS
  <1> HIDE DEF Bad
  <1>2. PICK m \in Bad : \A T \in SUBSET m : T # m => T \notin Bad
    BY <1>a, MinimalSet
  <1>3. PICK x : x \in m
    BY <1>a
  <1>4. m \ {x} \in SUBSET m /\ m \ {x} # m
    BY <1>3
  <1>5. QED
    BY <1>a, <1>b, <1>2, <1>3, <1>4

\* Induction over the natural numbers up to n.
LEMMA UpToInduction ==
  ASSUME NEW n \in Nat, NEW Good, 0 \in Good,
         \A i \in 0..(n - 1) : i \in Good => i + 1 \in Good
  PROVE  \A i \in 0..n : i \in Good
  <1> DEFINE Bad == {i \in 0..n : i \notin Good}
  <1>1. SUFFICES ASSUME Bad # {} PROVE FALSE
    OBVIOUS
  <1>2. IsFiniteSet(0..n)
    BY FS_Interval
  <1>3. \E i \in Bad : \A k \in Bad : i <= k
    <2> DEFINE Below == {0..i : i \in Bad}
    <2>1. Below \subseteq SUBSET (0..n) /\ Below # {}
      BY <1>1
    <2>a. \A m \in Below : \E i \in Bad : m = 0..i
      OBVIOUS
    <2>b. \A k \in Bad : 0..k \in Below
      OBVIOUS
    <2> HIDE DEF Below
    <2>2. PICK m \in Below : \A T \in SUBSET m : T # m => T \notin Below
      BY <1>2, <2>1, MinimalSet
    <2>3. PICK i \in Bad : m = 0..i
      BY <2>a
    <2>4. ASSUME NEW k \in Bad PROVE i <= k
      <3>1. 0..k \in Below
        BY <2>b
      <3>2. SUFFICES ASSUME k < i PROVE FALSE
        OBVIOUS
      <3>3. 0..k \in SUBSET (0..i) /\ i \in 0..i /\ i \notin 0..k
        BY <3>2
      <3>4. QED
        BY <2>2, <2>3, <3>1, <3>3
    <2>5. QED
      BY <2>3, <2>4
  <1>4. PICK i \in Bad : \A k \in Bad : i <= k
    BY <1>3
  <1>5. i # 0 /\ i - 1 \in 0..(n - 1) /\ i - 1 \notin Bad
    BY <1>4
  <1>6. QED
    BY <1>5

\* The same over all natural numbers.
LEMMA NatSetInduction ==
  ASSUME NEW Good, 0 \in Good, \A i \in Nat : i \in Good => i + 1 \in Good
  PROVE  Nat \subseteq Good
  <1> SUFFICES ASSUME NEW n \in Nat PROVE n \in Good
    OBVIOUS
  <1>1. \A i \in 0..n : i \in Good
    BY UpToInduction
  <1>2. QED
    BY <1>1

-----------------------------------------------------------------------------
(* Recursive definitions.                                                  *)

\* g is built step by step from base: F takes the value before and the step.
Stepwise(g, S, base, n, F) ==
  g \in [0..n -> S] /\ g[0] = base /\ \A i \in 1..n : g[i] = F[<<g[i - 1], i>>]

\* There is such a function.
LEMMA StepwiseDef ==
  ASSUME NEW S, NEW base \in S, NEW n \in Nat,
         NEW F, \A x \in S : \A i \in 1..n : F[<<x, i>>] \in S
  PROVE  \E g : Stepwise(g, S, base, n, F)
  <1> DEFINE Built(g, k) == /\ g \in [0..k -> S] /\ g[0] = base
                            /\ \A i \in 1..k : g[i] = F[<<g[i - 1], i>>]
             Good == {k \in 0..n : \E g : Built(g, k)}
  <1>1. 0 \in Good
    <2> DEFINE h == [i \in 0..0 |-> base]
    <2>1. h \in [0..0 -> S] /\ h[0] = base
      OBVIOUS
    <2>2. Built(h, 0) /\ 0 \in 0..n
      BY <2>1
    <2>3. QED
      BY <2>2
  <1>2. ASSUME NEW k \in 0..(n - 1), k \in Good PROVE k + 1 \in Good
    <2>1. PICK g : Built(g, k)
      BY <1>2
    <2> DEFINE h == [i \in 0..(k + 1) |-> IF i = k + 1 THEN F[<<g[k], k + 1>>] ELSE g[i]]
    <2>2. h \in [0..(k + 1) -> S] /\ h[0] = base
      BY <2>1
    <2>3. \A i \in 1..(k + 1) : h[i] = F[<<h[i - 1], i>>]
      <3>1. TAKE i \in 1..(k + 1)
      <3>2. i \in 0..(k + 1) /\ i - 1 \in 0..k /\ i - 1 # k + 1 /\ h[i - 1] = g[i - 1]
        OBVIOUS
      <3>3. CASE i = k + 1
        <4>1. h[i] = F[<<g[k], k + 1>>] /\ i - 1 = k
          BY <3>2, <3>3
        <4>2. QED
          BY <3>2, <3>3, <4>1
      <3>4. CASE i # k + 1
        <4>1. i \in 1..k /\ h[i] = g[i]
          BY <3>2, <3>4
        <4>2. QED
          BY <2>1, <3>2, <4>1
      <3>5. QED
        BY <3>3, <3>4
    <2> HIDE DEF h
    <2>4. Built(h, k + 1) /\ k + 1 \in 0..n
      BY <2>2, <2>3
    <2>5. QED
      BY <2>4
  <1>3. n \in Good
    <2> HIDE DEF Good
    <2>1. \A i \in 0..n : i \in Good
      BY <1>1, <1>2, UpToInduction
    <2>2. QED
      BY <2>1
  <1>4. QED
    BY <1>3 DEF Stepwise
-----------------------------------------------------------------------------
(* The fold of +, which takes the elements of a set in an order of its own. *)

SumOver(f, s) == FoldFunctionOnSet(+, 0, f, s)

AnyOf(s) == CHOOSE x \in s : TRUE

\* h is the fold of the subsets of s.
Folding(f, s, h) ==
  h = [u \in SUBSET s |-> IF u = {} THEN 0 ELSE f[AnyOf(u)] + h[u \ {AnyOf(u)}]]

\* Two folds agree on the sets they share.
LEMMA FoldingUnique ==
  ASSUME NEW f, NEW s, IsFiniteSet(s), NEW t, NEW g, NEW h, Folding(f, s, g), Folding(f, t, h)
  PROVE  \A u \in SUBSET s : u \in SUBSET t => g[u] = h[u]
  <1> DEFINE Bad == {u \in SUBSET s : u \in SUBSET t /\ g[u] # h[u]}
  <1>1. SUFFICES ASSUME Bad # {} PROVE FALSE
    OBVIOUS
  <1>2. Bad \subseteq SUBSET s
    OBVIOUS
  <1>3. \A u \in Bad : u \in SUBSET s /\ u \in SUBSET t /\ g[u] # h[u]
    OBVIOUS
  <1>4. \A u : u \in SUBSET s /\ u \in SUBSET t /\ u \notin Bad => g[u] = h[u]
    OBVIOUS
  <1> HIDE DEF Bad
  <1>5. PICK u \in Bad : \A v \in SUBSET u : v # u => v \notin Bad
    BY <1>1, <1>2, MinimalSet
  <1> DEFINE x == AnyOf(u)
             v == u \ {x}
  <1>6. /\ g[u] = IF u = {} THEN 0 ELSE f[x] + g[v]
        /\ h[u] = IF u = {} THEN 0 ELSE f[x] + h[v]
    BY <1>3 DEF Folding
  <1>7. u # {}
    BY <1>3, <1>6
  <1>8. x \in u
    BY <1>7 DEF AnyOf
  <1>9. v \in SUBSET u /\ v # u
    BY <1>8
  <1>10. v \in SUBSET s /\ v \in SUBSET t
    BY <1>3, <1>9
  <1>11. g[v] = h[v]
    BY <1>4, <1>5, <1>9, <1>10
  <1>12. QED
    BY <1>3, <1>6, <1>11

\* Every finite set has a fold.
LEMMA FoldingExists ==
  ASSUME NEW f, NEW D, IsFiniteSet(D)
  PROVE  \E h : Folding(f, D, h)
  <1> DEFINE Bad == {s \in SUBSET D : ~ \E h : Folding(f, s, h)}
  <1>1. SUFFICES ASSUME Bad # {} PROVE FALSE
    OBVIOUS
  <1>2. Bad \subseteq SUBSET D /\ \A s \in Bad : ~ \E h : Folding(f, s, h)
    OBVIOUS
  <1>3. \A s \in SUBSET D : s \notin Bad => \E h : Folding(f, s, h)
    OBVIOUS
  <1> HIDE DEF Bad
  <1>4. PICK s \in Bad : \A t \in SUBSET s : t # s => t \notin Bad
    BY <1>1, <1>2, MinimalSet
  <1> DEFINE G(t) == CHOOSE h : Folding(f, t, h)
             H == [u \in SUBSET s |-> IF u = {} THEN 0 ELSE f[AnyOf(u)] + G(u \ {AnyOf(u)})[u \ {AnyOf(u)}]]
  <1>5. ASSUME NEW t \in SUBSET s, t # s PROVE Folding(f, t, G(t)) /\ IsFiniteSet(t)
    <2>1. t \in SUBSET D
      BY <1>2
    <2>2. \E h : Folding(f, t, h)
      BY <1>3, <1>4, <1>5, <2>1
    <2>3. IsFiniteSet(t)
      BY <2>1, FS_Subset
    <2>4. QED
      BY <2>2, <2>3
  <1> HIDE DEF G
  <1>6. ASSUME NEW t \in SUBSET s, t # s PROVE H[t] = G(t)[t]
    <2>1. Folding(f, t, G(t)) /\ IsFiniteSet(t)
      BY <1>5, <1>6
    <2> DEFINE x == AnyOf(t)
               v == t \ {x}
    <2>2. /\ G(t)[t] = IF t = {} THEN 0 ELSE f[x] + G(t)[v]
          /\ H[t] = IF t = {} THEN 0 ELSE f[x] + G(v)[v]
      BY <2>1 DEF Folding
    <2>3. CASE t = {}
      BY <2>2, <2>3
    <2>4. CASE t # {}
      <3>1. x \in t
        BY <2>4 DEF AnyOf
      <3>2. v \in SUBSET s /\ v # s /\ v \in SUBSET t /\ v \in SUBSET v
        BY <3>1
      <3>3. Folding(f, v, G(v)) /\ IsFiniteSet(v)
        BY <1>5, <3>2
      <3> HIDE DEF x, v
      <3>4. G(v)[v] = G(t)[v]
        BY <2>1, <3>2, <3>3, FoldingUnique
      <3>5. QED
        BY <2>2, <2>4, <3>4
    <2>5. QED
      BY <2>3, <2>4
  <1>7. \A u \in SUBSET s : u # {} => H[u \ {AnyOf(u)}] = G(u \ {AnyOf(u)})[u \ {AnyOf(u)}]
    <2> SUFFICES ASSUME NEW u \in SUBSET s, u # {}
                 PROVE  H[u \ {AnyOf(u)}] = G(u \ {AnyOf(u)})[u \ {AnyOf(u)}]
      OBVIOUS
    <2>1. AnyOf(u) \in u
      BY DEF AnyOf
    <2> DEFINE v == u \ {AnyOf(u)}
    <2>2. v \in SUBSET s /\ v # s
      BY <2>1
    <2> HIDE DEF v, H
    <2>3. H[v] = G(v)[v]
      BY <1>6, <2>2
    <2>4. QED
      BY <2>3 DEF v
  <1>8. Folding(f, s, H)
    BY <1>7 DEF Folding
  <1>9. QED
    BY <1>2, <1>8

\* The sum over a set, by the element the fold takes first.
LEMMA SumUnfold ==
  ASSUME NEW f, NEW s, IsFiniteSet(s)
  PROVE  SumOver(f, s) = IF s = {} THEN 0 ELSE f[AnyOf(s)] + SumOver(f, s \ {AnyOf(s)})
  <1> DEFINE Fold(t) == CHOOSE h : Folding(f, t, h)
  <1>1. \A t : SumOver(f, t) = Fold(t)[t]
    BY DEF SumOver, FoldFunctionOnSet, MapThenFoldSet, Folding, AnyOf
  <1>2. ASSUME NEW t, IsFiniteSet(t) PROVE Folding(f, t, Fold(t))
    BY <1>2, FoldingExists
  <1> HIDE DEF Fold
  <1>3. Folding(f, s, Fold(s))
    BY <1>2
  <1>4. Fold(s)[s] = IF s = {} THEN 0 ELSE f[AnyOf(s)] + Fold(s)[s \ {AnyOf(s)}]
    BY <1>3 DEF Folding
  <1>5. CASE s = {}
    BY <1>1, <1>4, <1>5
  <1>6. CASE s # {}
    <2> DEFINE t == s \ {AnyOf(s)}
    <2>1. t \in SUBSET s /\ t \in SUBSET t /\ IsFiniteSet(t)
      BY FS_Subset
    <2>2. Folding(f, t, Fold(t))
      BY <1>2, <2>1
    <2> HIDE DEF t
    <2>3. Fold(s)[t] = Fold(t)[t]
      BY <1>3, <2>1, <2>2, FoldingUnique
    <2>4. QED
      BY <1>1, <1>4, <1>6, <2>3 DEF t
  <1>7. QED
    BY <1>5, <1>6
-----------------------------------------------------------------------------
(* Sums of natural numbers.                                                *)

NatOn(f, s) == IsFiniteSet(s) /\ \A x \in s : f[x] \in Nat

\* Nothing sums to zero.
LEMMA SumEmpty == ASSUME NEW f PROVE SumOver(f, {}) = 0
  BY SumUnfold, FS_EmptySet

\* The sum of natural numbers is one.
LEMMA SumType ==
  ASSUME NEW f, NEW D, NatOn(f, D)
  PROVE  SumOver(f, D) \in Nat
  <1> DEFINE Bad == {s \in SUBSET D : SumOver(f, s) \notin Nat}
  <1>1. SUFFICES ASSUME Bad # {} PROVE FALSE
    OBVIOUS
  <1>2. Bad \subseteq SUBSET D /\ \A s \in Bad : SumOver(f, s) \notin Nat
    OBVIOUS
  <1>3. \A s \in SUBSET D : s \notin Bad => SumOver(f, s) \in Nat
    OBVIOUS
  <1> HIDE DEF Bad
  <1>4. PICK s \in Bad : \A t \in SUBSET s : t # s => t \notin Bad
    BY <1>1, <1>2, MinimalSet DEF NatOn
  <1> DEFINE x == AnyOf(s)
             t == s \ {x}
  <1>5. s \in SUBSET D /\ IsFiniteSet(s)
    BY <1>2, FS_Subset DEF NatOn
  <1>6. SumOver(f, s) = IF s = {} THEN 0 ELSE f[x] + SumOver(f, t)
    BY <1>5, SumUnfold
  <1>7. s # {}
    BY <1>2, <1>6
  <1>8. x \in s
    BY <1>7 DEF AnyOf
  <1>9. t \in SUBSET s /\ t # s /\ t \in SUBSET D
    BY <1>5, <1>8
  <1>10. SumOver(f, t) \in Nat /\ f[x] \in Nat
    BY <1>3, <1>4, <1>5, <1>8, <1>9 DEF NatOn
  <1>11. QED
    BY <1>2, <1>6, <1>7, <1>10

\* The order does not matter: any element may be taken first.
LEMMA SumRemove ==
  ASSUME NEW f, NEW D, NatOn(f, D), NEW z \in D
  PROVE  SumOver(f, D) = f[z] + SumOver(f, D \ {z})
  <1> DEFINE Splits(s, x) == SumOver(f, s) = f[x] + SumOver(f, s \ {x})
             Bad == {s \in SUBSET D : \E x \in s : ~Splits(s, x)}
  <1>1. SUFFICES ASSUME Bad # {} PROVE FALSE
    OBVIOUS
  <1>2. Bad \subseteq SUBSET D /\ \A s \in Bad : \E x \in s : ~Splits(s, x)
    OBVIOUS
  <1>3. \A s \in SUBSET D : s \notin Bad => \A x \in s : Splits(s, x)
    OBVIOUS
  <1> HIDE DEF Bad
  <1>4. PICK s \in Bad : \A t \in SUBSET s : t # s => t \notin Bad
    BY <1>1, <1>2, MinimalSet DEF NatOn
  <1>5. PICK x \in s : ~Splits(s, x)
    BY <1>2
  <1> DEFINE y == AnyOf(s)
             sx == s \ {x}
             sy == s \ {y}
             sxy == s \ {x, y}
  <1>6. \A t \in SUBSET D : NatOn(f, t)
    BY FS_Subset DEF NatOn
  <1>7. s \in SUBSET D /\ IsFiniteSet(s)
    BY <1>2, <1>6 DEF NatOn
  <1>8. y \in s
    BY <1>5 DEF AnyOf
  <1>9. SumOver(f, s) = f[y] + SumOver(f, sy)
    BY <1>5, <1>7, SumUnfold
  <1>10. x # y
    BY <1>5, <1>9
  <1>11. /\ sx \in SUBSET s /\ sx # s /\ sx \in SUBSET D /\ y \in sx
         /\ sy \in SUBSET s /\ sy # s /\ sy \in SUBSET D /\ x \in sy
         /\ sxy \in SUBSET D /\ sx \ {y} = sxy /\ sy \ {x} = sxy
    BY <1>7, <1>8, <1>10
  <1>12. Splits(sx, y) /\ Splits(sy, x)
    BY <1>3, <1>4, <1>11
  <1>13. SumOver(f, sx) = f[y] + SumOver(f, sxy) /\ SumOver(f, sy) = f[x] + SumOver(f, sxy)
    BY <1>11, <1>12
  <1>14. f[x] \in Nat /\ f[y] \in Nat /\ SumOver(f, sxy) \in Nat
    BY <1>6, <1>7, <1>8, <1>11, SumType DEF NatOn
  <1>15. SumOver(f, s) = f[x] + SumOver(f, sx)
    BY <1>9, <1>13, <1>14
  <1>16. QED
    BY <1>5, <1>15

\* An element more adds its term.
LEMMA SumAdd ==
  ASSUME NEW f, NEW s, NEW z, z \notin s, NatOn(f, s \cup {z})
  PROVE  SumOver(f, s \cup {z}) = f[z] + SumOver(f, s)
  <1>1. (s \cup {z}) \ {z} = s
    OBVIOUS
  <1>2. QED
    BY <1>1, SumRemove

\* The sum of h is the sum of f and g when its terms are.
LEMMA SumPlus ==
  ASSUME NEW f, NEW g, NEW h, NEW D, NatOn(f, D), NatOn(g, D), \A x \in D : h[x] = f[x] + g[x]
  PROVE  SumOver(h, D) = SumOver(f, D) + SumOver(g, D)
  <1> DEFINE Good == {s \in SUBSET D : SumOver(h, s) = SumOver(f, s) + SumOver(g, s)}
  <1>1. {} \in Good
    BY SumEmpty
  <1>2. ASSUME NEW s \in SUBSET D, NEW x \in s, s \ {x} \in Good PROVE s \in Good
    <2> DEFINE t == s \ {x}
    <2>1. NatOn(f, s) /\ NatOn(g, s) /\ NatOn(h, s) /\ NatOn(f, t) /\ NatOn(g, t)
      BY FS_Subset DEF NatOn
    <2>2. /\ SumOver(f, s) = f[x] + SumOver(f, t)
          /\ SumOver(g, s) = g[x] + SumOver(g, t)
          /\ SumOver(h, s) = h[x] + SumOver(h, t)
      BY <2>1, SumRemove
    <2>3. SumOver(h, t) = SumOver(f, t) + SumOver(g, t)
      BY <1>2
    <2>4. /\ SumOver(f, t) \in Nat /\ SumOver(g, t) \in Nat
          /\ f[x] \in Nat /\ g[x] \in Nat /\ h[x] = f[x] + g[x]
      BY <2>1, SumType DEF NatOn
    <2>5. SumOver(h, s) = SumOver(f, s) + SumOver(g, s)
      BY <2>2, <2>3, <2>4
    <2>6. QED
      BY <2>5
  <1> HIDE DEF Good
  <1>3. D \in Good
    BY <1>1, <1>2, SetInduction DEF NatOn
  <1>4. QED
    BY <1>3 DEF Good

\* Equal terms have equal sums.
LEMMA SumEqual ==
  ASSUME NEW f, NEW g, NEW D, NatOn(f, D), \A x \in D : g[x] = f[x]
  PROVE  SumOver(g, D) = SumOver(f, D)
  <1> DEFINE Good == {s \in SUBSET D : SumOver(g, s) = SumOver(f, s)}
  <1>1. {} \in Good
    BY SumEmpty
  <1>2. ASSUME NEW s \in SUBSET D, NEW x \in s, s \ {x} \in Good PROVE s \in Good
    <2> DEFINE t == s \ {x}
    <2>1. NatOn(f, s) /\ NatOn(g, s)
      BY FS_Subset DEF NatOn
    <2>2. SumOver(f, s) = f[x] + SumOver(f, t) /\ SumOver(g, s) = g[x] + SumOver(g, t)
      BY <2>1, SumRemove
    <2>3. SumOver(g, t) = SumOver(f, t) /\ g[x] = f[x]
      BY <1>2
    <2>4. QED
      BY <2>2, <2>3
  <1> HIDE DEF Good
  <1>3. D \in Good
    BY <1>1, <1>2, SetInduction DEF NatOn
  <1>4. QED
    BY <1>3 DEF Good

\* Smaller terms have a smaller sum, and the same one only if none is smaller.
LEMMA SumLeq ==
  ASSUME NEW f, NEW g, NEW D, NatOn(f, D), NatOn(g, D), \A x \in D : f[x] <= g[x]
  PROVE  /\ SumOver(f, D) <= SumOver(g, D)
         /\ SumOver(f, D) = SumOver(g, D) => \A x \in D : f[x] = g[x]
  <1> DEFINE d == [x \in D |-> g[x] - f[x]]
  <1>1. NatOn(d, D) /\ \A x \in D : g[x] = f[x] + d[x]
    BY DEF NatOn
  <1> HIDE DEF d
  <1>2. SumOver(g, D) = SumOver(f, D) + SumOver(d, D)
    BY <1>1, SumPlus
  <1>3. SumOver(f, D) \in Nat /\ SumOver(d, D) \in Nat
    BY <1>1, SumType
  <1>4. ASSUME SumOver(f, D) = SumOver(g, D), NEW x \in D PROVE f[x] = g[x]
    <2>1. SumOver(d, D) = 0
      BY <1>2, <1>3, <1>4
    <2>2. SumOver(d, D) = d[x] + SumOver(d, D \ {x})
      BY <1>1, SumRemove
    <2>3. NatOn(d, D \ {x})
      BY <1>1, FS_Subset DEF NatOn
    <2>4. SumOver(d, D \ {x}) \in Nat /\ d[x] \in Nat
      BY <1>1, <2>3, SumType DEF NatOn
    <2>5. d[x] = 0
      BY <2>1, <2>2, <2>4
    <2>6. QED
      BY <1>1, <2>5 DEF NatOn
  <1>5. QED
    BY <1>2, <1>3, <1>4

\* Zeros may be left out.
LEMMA SumNonzero ==
  ASSUME NEW f, NEW D, NatOn(f, D), NEW s \in SUBSET D, \A x \in D \ s : f[x] = 0
  PROVE  SumOver(f, D) = SumOver(f, s)
  <1> DEFINE Good == {t \in SUBSET (D \ s) : SumOver(f, s \cup t) = SumOver(f, s)}
  <1>1. {} \in Good
    <2>1. s \cup {} = s
      OBVIOUS
    <2>2. QED
      BY <2>1
  <1>2. ASSUME NEW t \in SUBSET (D \ s), NEW x \in t, t \ {x} \in Good PROVE t \in Good
    <2>1. NatOn(f, s \cup t) /\ x \in s \cup t
      BY FS_Subset DEF NatOn
    <2>2. (s \cup t) \ {x} = s \cup (t \ {x})
      OBVIOUS
    <2>3. SumOver(f, s \cup t) = f[x] + SumOver(f, s \cup (t \ {x}))
      BY <2>1, <2>2, SumRemove
    <2>4. SumOver(f, s \cup (t \ {x})) = SumOver(f, s) /\ f[x] = 0
      BY <1>2
    <2>5. SumOver(f, s) \in Nat
      <3>1. NatOn(f, s)
        BY FS_Subset DEF NatOn
      <3>2. QED
        BY <3>1, SumType
    <2>6. SumOver(f, s \cup t) = SumOver(f, s)
      BY <2>3, <2>4, <2>5
    <2>7. QED
      BY <2>6
  <1> HIDE DEF Good
  <1>3. IsFiniteSet(D \ s)
    BY FS_Subset DEF NatOn
  <1>4. D \ s \in Good
    BY <1>1, <1>2, <1>3, SetInduction
  <1>5. s \cup (D \ s) = D
    OBVIOUS
  <1>6. QED
    BY <1>4, <1>5 DEF Good

\* A part has at most the sum of the whole, which is the sum of its two parts.
LEMMA SumParts ==
  ASSUME NEW f, NEW D, NatOn(f, D), NEW s \in SUBSET D
  PROVE  SumOver(f, D) = SumOver(f, s) + SumOver(f, D \ s)
  <1> DEFINE g == [x \in D |-> IF x \in s THEN f[x] ELSE 0]
             h == [x \in D |-> IF x \in s THEN 0 ELSE f[x]]
  <1>1. /\ NatOn(g, D) /\ NatOn(h, D) /\ \A x \in D : f[x] = g[x] + h[x]
        /\ \A x \in D \ s : g[x] = 0
        /\ \A x \in D \ (D \ s) : h[x] = 0
        /\ \A x \in s : g[x] = f[x]
        /\ \A x \in D \ s : h[x] = f[x]
    BY DEF NatOn
  <1> HIDE DEF g, h
  <1>2. NatOn(f, s) /\ NatOn(f, D \ s) /\ D \ s \in SUBSET D
    BY FS_Subset DEF NatOn
  <1>3. SumOver(f, D) = SumOver(g, D) + SumOver(h, D)
    BY <1>1, SumPlus
  <1>4. SumOver(g, D) = SumOver(g, s)
    BY <1>1, SumNonzero
  <1>5. SumOver(h, D) = SumOver(h, D \ s)
    BY <1>1, <1>2, SumNonzero
  <1>6. SumOver(g, s) = SumOver(f, s)
    BY <1>1, <1>2, SumEqual
  <1>7. SumOver(h, D \ s) = SumOver(f, D \ s)
    BY <1>1, <1>2, SumEqual
  <1>8. QED
    BY <1>3, <1>4, <1>5, <1>6, <1>7
=============================================================================
