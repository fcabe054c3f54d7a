---------------------------- MODULE Budget_proofs ----------------------------
(***************************************************************************)
(* What holds of the three copies of a key's budget for any requests,      *)
(* costs, operators and bounds: their types, that no cost is taken twice   *)
(* from the rows, and that the copies agree when nobody was overtaken.     *)
(***************************************************************************)
EXTENDS Budget, InductionLemmas

\* What an actor read of the rows: of some of them, something of their amount.
Table(f, t) ==
  DOMAIN f \subseteq DOMAIN t /\ \A i \in DOMAIN f : f[i] \in Nat /\ f[i] <= t[i].amount

\* The work of requests, of the leader and of operators between two of their steps.
WorkInv ==
  /\ DOMAIN seen = Requests
  /\ \A r \in Requests :
       /\ Table(seen[r], rows)
       /\ r \notin stamped => seen[r] = << >>
       /\ r \in stamped => pc[r] \in {"rows", "take", "load", "fill", "again", "commit", "done", "lost"}
       /\ r \in records => pc[r] = "done"
       /\ pc[r] \in {"rows", "take", "load", "fill", "again"} => r \in stamped
  /\ Table(plan.old, rows) /\ DOMAIN plan.new = DOMAIN plan.old
  /\ \A i \in DOMAIN plan.old : plan.new[i] \in Nat /\ plan.new[i] <= plan.old[i]
  /\ plan.usage \in Nat \cup {None}
  /\ counted \subseteq mark
  /\ \A a \in Admins : op[a] = "top_up" => arem[a] < Target

TInv == TypeOK /\ WorkInv

-----------------------------------------------------------------------------
(* Sums.                                                                   *)

\* A function of nothing is the empty sequence.
LEMMA EmptyFunction ==
  ASSUME NEW f, f = [i \in DOMAIN f |-> f[i]], DOMAIN f = {} PROVE f = << >>
  OBVIOUS

\* The fold behind Total.
LEMMA TotalSum == ASSUME NEW f PROVE Total(f) = SumOver(f, DOMAIN f)
  BY DEF Total, FoldFunction, SumOver

\* The total of natural numbers is one, and so is that of a table of rows.
LEMMA TotalType == ASSUME NEW f, NatOn(f, DOMAIN f) PROVE Total(f) \in Nat
  BY TotalSum, SumType

\* Equal amounts on the same domain have the same total.
LEMMA TotalRestrict ==
  ASSUME NEW f, NEW s \in SUBSET DOMAIN f, NatOn(f, DOMAIN f)
  PROVE  Total(Restrict(f, s)) = SumOver(f, s)
  <1> DEFINE g == Restrict(f, s)
  <1>1. DOMAIN g = s /\ \A x \in s : g[x] = f[x]
    BY DEF Restrict
  <1> HIDE DEF g
  <1>2. NatOn(f, s)
    BY FS_Subset DEF NatOn
  <1>3. SumOver(g, s) = SumOver(f, s)
    BY <1>1, <1>2, SumEqual
  <1>4. Total(g) = SumOver(g, s)
    BY <1>1, TotalSum
  <1>5. QED
    BY <1>3, <1>4 DEF g

\* What a set of requests costs, and what one more does.
LEMMA CostType ==
  ASSUME NEW R \in SUBSET Requests
  PROVE  CostOf(R) \in Nat /\ CostOf(R) = SumOver(Cost, R) /\ NatOn(Cost, R)
  <1> DEFINE g == [r \in R |-> Cost[r]]
  <1>1. NatOn(Cost, R)
    BY BudgetAssumption, FS_Subset DEF NatOn
  <1>2. DOMAIN g = R /\ \A x \in R : g[x] = Cost[x]
    OBVIOUS
  <1>3. CostOf(R) = Total(g)
    BY DEF CostOf
  <1> HIDE DEF g
  <1>4. SumOver(g, R) = SumOver(Cost, R)
    BY <1>1, <1>2, SumEqual
  <1>5. QED
    BY <1>1, <1>2, <1>3, <1>4, TotalSum, SumType

\* The cost of a set is that of two parts of it.
LEMMA CostParts ==
  ASSUME NEW R \in SUBSET Requests, NEW S \in SUBSET R
  PROVE  CostOf(R) = CostOf(S) + CostOf(R \ S) /\ CostOf(S) <= CostOf(R)
  <1>1. CostOf(R) = SumOver(Cost, R) /\ CostOf(S) = SumOver(Cost, S) /\ CostOf(R \ S) = SumOver(Cost, R \ S)
    BY CostType
  <1>a. NatOn(Cost, R)
    BY CostType
  <1>2. SumOver(Cost, R) = SumOver(Cost, S) + SumOver(Cost, R \ S)
    BY <1>a, SumParts
  <1>3. CostOf(S) \in Nat /\ CostOf(R \ S) \in Nat
    BY CostType
  <1>4. QED
    BY <1>1, <1>2, <1>3

\* One more request adds its cost.
LEMMA CostAdd ==
  ASSUME NEW R \in SUBSET Requests, NEW r \in Requests \ R
  PROVE  CostOf(R \cup {r}) = CostOf(R) + Cost[r] /\ Cost[r] \in Nat
  <1>1. CostOf(R) = SumOver(Cost, R) /\ CostOf(R \cup {r}) = SumOver(Cost, R \cup {r})
    BY CostType
  <1>2. NatOn(Cost, R \cup {r}) /\ CostOf(R) \in Nat /\ Cost[r] \in Nat
    BY CostType, BudgetAssumption
  <1>3. SumOver(Cost, R \cup {r}) = Cost[r] + SumOver(Cost, R)
    BY <1>2, SumAdd
  <1>4. QED
    BY <1>1, <1>2, <1>3

-----------------------------------------------------------------------------
(* Spending: _deduct_budget_records and the incremental reconciliation.    *)

\* Spending c takes c from the rows, or all they have: the oldest first, and from
\* none more than it has.
LEMMA SpendTotal ==
  ASSUME NEW n \in Nat, NEW f, DOMAIN f \subseteq 1..n, \A i \in DOMAIN f : f[i] \in Nat,
         NEW c \in Nat
  PROVE  /\ DOMAIN Spend(f, c) = DOMAIN f
         /\ \A i \in DOMAIN f : Spend(f, c)[i] \in Nat /\ Spend(f, c)[i] <= f[i]
         /\ Total(f) \in Nat
         /\ Total(Spend(f, c)) = Pos(Total(f) - c)
  <1> DEFINE g == Spend(f, c)
             D == DOMAIN f
             To(k) == {j \in D : j < k}
             Good == {k \in 0..(n + 1) : SumOver(g, To(k)) = Pos(SumOver(f, To(k)) - c)}
  <1>a. IsFiniteSet(1..n)
    BY FS_Interval
  <1>1. NatOn(f, D) /\ D \subseteq Nat
    BY <1>a, FS_Subset DEF NatOn
  <1>2. DOMAIN g = D
    BY DEF Spend
  <1>3. \A i \in D : SumOver(f, To(i)) \in Nat /\ g[i] = Pos(f[i] - Pos(c - SumOver(f, To(i))))
    <2>1. TAKE i \in D
    <2>2. To(i) \in SUBSET D
      OBVIOUS
    <2>3. NatOn(f, To(i))
      BY <1>1, FS_Subset DEF NatOn
    <2>4. Total(Restrict(f, To(i))) = SumOver(f, To(i))
      BY <1>1, <2>2, TotalRestrict
    <2>5. g[i] = Pos(f[i] - Pos(c - Total(Restrict(f, To(i)))))
      BY DEF Spend
    <2>6. QED
      BY <2>3, <2>4, <2>5, SumType
  <1> HIDE DEF g
  <1>4. ASSUME NEW i \in D PROVE g[i] \in Nat /\ g[i] <= f[i]
    <2>1. /\ SumOver(f, To(i)) \in Nat /\ f[i] \in Nat
          /\ g[i] = Pos(f[i] - Pos(c - SumOver(f, To(i))))
      BY <1>3
    <2>2. QED
      BY <2>1 DEF Pos
  <1>5. NatOn(g, D)
    BY <1>1, <1>4 DEF NatOn
  <1>6. \A k \in 0..(n + 1) : NatOn(f, To(k)) /\ NatOn(g, To(k))
    BY <1>1, <1>5, FS_Subset DEF NatOn
  <1>7. 0 \in Good
    <2>1. To(0) = {}
      OBVIOUS
    <2>2. SumOver(g, {}) = 0 /\ SumOver(f, {}) = 0
      BY SumEmpty
    <2>3. Pos(0 - c) = 0 /\ 0 \in 0..(n + 1)
      BY DEF Pos
    <2>4. QED
      BY <2>1, <2>2, <2>3
  <1>8. ASSUME NEW k \in 0..n, k \in Good PROVE k + 1 \in Good
    <2>1. SumOver(g, To(k)) = Pos(SumOver(f, To(k)) - c) /\ k + 1 \in 0..(n + 1) /\ k \in 0..(n + 1)
      BY <1>8
    <2>2. CASE k \notin D
      <3>1. To(k + 1) = To(k)
        BY <2>2, <1>1
      <3>2. QED
        BY <2>1, <3>1
    <2>3. CASE k \in D
      <3>1. To(k + 1) = To(k) \cup {k} /\ k \notin To(k)
        BY <2>3, <1>1
      <3>2. NatOn(f, To(k) \cup {k}) /\ NatOn(g, To(k) \cup {k})
        BY <1>6, <2>1, <3>1
      <3>a. SumOver(f, To(k) \cup {k}) = f[k] + SumOver(f, To(k))
        BY <3>1, <3>2, SumAdd
      <3>b. SumOver(g, To(k) \cup {k}) = g[k] + SumOver(g, To(k))
        BY <3>1, <3>2, SumAdd
      <3>3. /\ SumOver(f, To(k + 1)) = f[k] + SumOver(f, To(k))
            /\ SumOver(g, To(k + 1)) = g[k] + SumOver(g, To(k))
        BY <3>1, <3>a, <3>b
      <3>4. /\ SumOver(f, To(k)) \in Nat /\ f[k] \in Nat
            /\ g[k] = Pos(f[k] - Pos(c - SumOver(f, To(k))))
        BY <1>3, <2>3
      <3>5. SumOver(g, To(k + 1)) = Pos(SumOver(f, To(k + 1)) - c)
        BY <2>1, <3>3, <3>4 DEF Pos
      <3>6. QED
        BY <2>1, <3>5
    <2>4. QED
      BY <2>2, <2>3
  <1>9. n + 1 \in Good
    <2> HIDE DEF Good
    <2>1. \A k \in 0..(n + 1) : k \in Good
      BY <1>7, <1>8, UpToInduction
    <2>2. QED
      BY <2>1
  <1>10. To(n + 1) = D
    OBVIOUS
  <1>11. Total(f) = SumOver(f, D) /\ Total(g) = SumOver(g, D)
    BY <1>2, TotalSum
  <1>12. SumOver(g, D) = Pos(SumOver(f, D) - c)
    BY <1>9, <1>10
  <1>13. SumOver(f, D) \in Nat
    BY <1>1, SumType
  <1>14. QED
    BY <1>2, <1>4, <1>11, <1>12, <1>13 DEF g

-----------------------------------------------------------------------------
(* Rows.                                                                   *)

RowType == [amount : Nat, remaining : Nat, older : SUBSET Requests]

\* What a typed state says of one row.
LEMMA RowFacts ==
  ASSUME TypeOK
  PROVE  /\ Ids = 1..Len(rows) /\ Len(rows) \in Nat /\ IsFiniteSet(Ids)
         /\ \A i \in Ids : /\ rows[i] \in RowType
                           /\ rows[i].amount \in Nat /\ rows[i].remaining \in Nat
                           /\ rows[i].older \subseteq Requests
                           /\ rows[i].remaining <= rows[i].amount
  <1>1. rows \in Seq(RowType)
    BY DEF TypeOK, RowType
  <1>2. Ids = 1..Len(rows) /\ Len(rows) \in Nat /\ \A i \in Ids : rows[i] \in RowType
    BY <1>1 DEF Ids
  <1>3. IsFiniteSet(Ids)
    BY <1>2, FS_Interval
  <1>4. QED
    BY <1>2, <1>3 DEF TypeOK, RowType

\* What is left, as _deduct_budget_records and the sync read it.
LEMMA LeftTable ==
  ASSUME TypeOK
  PROVE  /\ Table(Left, rows) /\ NatOn(Left, DOMAIN Left) /\ DOMAIN Left \subseteq Ids \ gone
         /\ \A i \in DOMAIN Left : Left[i] = rows[i].remaining /\ Left[i] > 0
         /\ \A i \in Ids \ gone : i \notin DOMAIN Left => rows[i].remaining = 0
  <1>1. /\ DOMAIN Left = {j \in Ids \ gone : rows[j].remaining > 0}
        /\ \A i \in DOMAIN Left : Left[i] = rows[i].remaining
    BY DEF Left
  <1> HIDE DEF Left
  <1>2. DOMAIN Left \subseteq Ids \ gone /\ IsFiniteSet(DOMAIN Left)
    <2>1. DOMAIN Left \subseteq Ids
      BY <1>1
    <2>2. IsFiniteSet(DOMAIN Left)
      BY <2>1, RowFacts, FS_Subset
    <2>3. QED
      BY <1>1, <2>2
  <1>3. QED
    BY <1>1, <1>2, RowFacts DEF Ids, Table, NatOn

\* A table of some rows is one of more rows with the same amounts.
LEMMA TableKept ==
  ASSUME NEW f, NEW t, NEW u, Table(f, t), DOMAIN t \subseteq DOMAIN u,
         \A i \in DOMAIN t : u[i].amount = t[i].amount
  PROVE  Table(f, u)
  BY DEF Table

\* A table has a total, and spending from it gives a smaller one.
LEMMA TableSpend ==
  ASSUME TypeOK, NEW f, Table(f, rows), NEW c \in Nat
  PROVE  /\ NatOn(f, DOMAIN f) /\ Total(f) \in Nat
         /\ DOMAIN Spend(f, c) = DOMAIN f
         /\ \A i \in DOMAIN f : Spend(f, c)[i] \in Nat /\ Spend(f, c)[i] <= f[i]
         /\ Total(Spend(f, c)) = Pos(Total(f) - c)
  <1>1. DOMAIN f \subseteq 1..Len(rows) /\ Len(rows) \in Nat /\ \A i \in DOMAIN f : f[i] \in Nat
    BY RowFacts DEF Ids, Table
  <1>2. IsFiniteSet(DOMAIN f)
    BY RowFacts, FS_Subset DEF Ids, Table
  <1>3. QED
    BY <1>1, <1>2, SpendTotal DEF NatOn

\* Writing back what was spent keeps the rows and only lowers or restores what
\* they have left.
LEMMA WrittenRows ==
  ASSUME TypeOK, NEW old, Table(old, rows), NEW new, DOMAIN new = DOMAIN old,
         \A i \in DOMAIN old : new[i] \in Nat /\ new[i] <= old[i]
  PROVE  /\ Written(old, new) \in Seq(RowType) /\ Len(Written(old, new)) = Len(rows)
         /\ DOMAIN Written(old, new) = Ids
         /\ \A i \in Ids :
              /\ Written(old, new)[i].amount = rows[i].amount
              /\ Written(old, new)[i].older = rows[i].older
              /\ Written(old, new)[i].remaining =
                   IF i \in Changed(old, new) THEN new[i] ELSE rows[i].remaining
              /\ Written(old, new)[i].remaining \in Nat
              /\ Written(old, new)[i].remaining <= rows[i].amount
         /\ Changed(old, new) = {} => Written(old, new) = rows
  <1> DEFINE w == Written(old, new)
  <1>1. /\ DOMAIN w = Ids /\ w = [i \in Ids |-> w[i]]
        /\ \A i \in Ids : w[i] = IF i \in Changed(old, new)
                               THEN [rows[i] EXCEPT !.remaining = new[i]] ELSE rows[i]
    BY DEF Written
  <1>2. ASSUME NEW i \in Ids
        PROVE  /\ w[i] \in RowType /\ w[i].amount = rows[i].amount /\ w[i].older = rows[i].older
               /\ w[i].remaining = IF i \in Changed(old, new) THEN new[i] ELSE rows[i].remaining
               /\ w[i].remaining \in Nat /\ w[i].remaining <= rows[i].amount
    <2>1. /\ rows[i] \in RowType /\ rows[i].amount \in Nat /\ rows[i].remaining \in Nat
          /\ rows[i].remaining <= rows[i].amount
      BY RowFacts
    <2>2. CASE i \in Changed(old, new)
      <3>1. new[i] \in Nat /\ new[i] <= rows[i].amount
        <4>1. i \in DOMAIN old
          BY <2>2 DEF Changed
        <4>2. new[i] \in Nat /\ old[i] \in Nat /\ new[i] <= old[i] /\ old[i] <= rows[i].amount
          BY <4>1 DEF Ids, Table
        <4>3. QED
          BY <2>1, <4>2
      <3>2. w[i] = [rows[i] EXCEPT !.remaining = new[i]]
        BY <1>1, <2>2
      <3> HIDE DEF w
      <3>3. QED
        BY <2>1, <2>2, <3>1, <3>2 DEF RowType
    <2>3. CASE i \notin Changed(old, new)
      <3>1. w[i] = rows[i]
        BY <1>1, <2>3
      <3> HIDE DEF w
      <3>2. QED
        BY <2>1, <2>3, <3>1
    <2>4. QED
      BY <2>2, <2>3
  <1>3. Ids = 1..Len(rows) /\ Len(rows) \in Nat
    BY RowFacts
  <1>4. Changed(old, new) = {} => w = rows
    <2>1. rows = [i \in Ids |-> rows[i]]
      BY DEF TypeOK, Ids
    <2>2. QED
      BY <1>1, <2>1
  <1> HIDE DEF w
  <1>5. w \in [1..Len(rows) -> RowType]
    BY <1>1, <1>2, <1>3
  <1>6. w \in Seq(RowType) /\ Len(w) = Len(rows)
    BY <1>3, <1>5
  <1>7. QED
    BY <1>1, <1>2, <1>4, <1>6 DEF w

\* The usage a row cannot pay, carried from row to row by the full reconciliation,
\* is a natural number, and nothing is carried to the first row.
LEMMA CarriedType ==
  ASSUME TypeOK
  PROVE  Carried \in [0..Len(rows) -> Nat] /\ Carried[0] = 0
  <1> DEFINE n == Len(rows)
             Next1(c, i) == IF i \in DOMAIN Left THEN Pos(UsedSince(i) + c - rows[i].amount) ELSE c
             F == [p \in Nat \X (1..n) |-> Next1(p[1], p[2])]
             Def(c) == c = [i \in 0..n |-> IF i = 0 THEN 0 ELSE Next1(c[i - 1], i)]
  <1>1. n \in Nat /\ Ids = 1..n
    BY RowFacts
  <1>2. ASSUME NEW c \in Nat, NEW i \in 1..n PROVE Next1(c, i) \in Nat
    <2>1. rows[i].amount \in Nat
      BY <1>1, RowFacts
    <2>2. UsedSince(i) \in Nat
      <3>1. records \ rows[i].older \in SUBSET Requests
        BY DEF TypeOK
      <3>2. QED
        BY <3>1, CostType DEF UsedSince
    <2>3. QED
      BY <2>1, <2>2 DEF Pos
  <1>4. \A c \in Nat : \A i \in 1..n : F[<<c, i>>] = Next1(c, i)
    <2> HIDE DEF Next1, n
    <2>1. QED
      OBVIOUS
  <1> HIDE DEF F
  <1>5. PICK g \in [0..n -> Nat] : g[0] = 0 /\ \A i \in 1..n : g[i] = F[<<g[i - 1], i>>]
    <2> HIDE DEF n
    <2>1. \A c \in Nat : \A i \in 1..n : F[<<c, i>>] \in Nat
      BY <1>2, <1>4
    <2>2. \E g : Stepwise(g, Nat, 0, n, F)
      BY <1>1, <2>1, StepwiseDef
    <2>3. QED
      BY <2>2 DEF Stepwise
  <1>6. Def(g)
    <2> HIDE DEF Next1, n
    <2>1. ASSUME NEW i \in 0..n PROVE g[i] = IF i = 0 THEN 0 ELSE Next1(g[i - 1], i)
      <3>1. CASE i = 0
        BY <1>5, <3>1
      <3>2. CASE i # 0
        <4>1. i \in 1..n /\ g[i - 1] \in Nat
          BY <1>1, <1>5, <3>2
        <4>2. QED
          BY <1>4, <1>5, <3>2, <4>1
      <3>3. QED
        BY <3>1, <3>2
    <2>2. QED
      BY <1>5, <2>1
  <1>7. Carried = CHOOSE c : Def(c)
    BY DEF Carried
  <1> HIDE DEF Next1, n
  <1>8. ASSUME NEW c, Def(c) PROVE c \in [0..n -> Nat] /\ c[0] = 0
    <2>1. DOMAIN c = 0..n /\ c[0] = 0 /\ \A i \in 1..n : c[i] = Next1(c[i - 1], i)
      BY <1>1, <1>8
    <2> DEFINE Good == {i \in 0..n : c[i] \in Nat}
    <2>2. \A i \in 0..n : i \in Good
      <3>1. 0 \in Good
        BY <1>1, <2>1
      <3>2. ASSUME NEW i \in 0..(n - 1), i \in Good PROVE i + 1 \in Good
        <4>1. i + 1 \in 1..n /\ (i + 1) - 1 = i /\ c[i] \in Nat
          BY <1>1, <3>2
        <4>2. c[i + 1] = Next1(c[i], i + 1)
          BY <2>1, <4>1
        <4>3. c[i + 1] \in Nat
          BY <1>2, <4>1, <4>2
        <4>4. QED
          BY <4>1, <4>3
      <3> HIDE DEF Good
      <3>3. QED
        BY <1>1, <3>1, <3>2, UpToInduction
    <2>3. c = [i \in 0..n |-> c[i]]
      BY <1>8
    <2>4. QED
      BY <2>1, <2>2, <2>3
  <1> HIDE DEF Def
  <1>9. Def(Carried)
    BY <1>6, <1>7
  <1>10. QED
    BY <1>8, <1>9 DEF n

\* What the sync makes of the rows it reads is no more than they have.
LEMMA SyncReadPlan ==
  ASSUME TInv, SyncRead
  PROVE  /\ plan'.old = Left /\ DOMAIN plan'.new = DOMAIN Left
         /\ \A i \in DOMAIN Left : plan'.new[i] \in Nat /\ plan'.new[i] <= Left[i]
         /\ plan'.usage \in Nat \cup {None}
         /\ lead' = "commit"
  <1> DEFINE expected == Pos(synced - CostOf(mark \ counted))
             spent == [i \in DOMAIN Left |-> IF Recomputed(i) < Left[i] THEN Recomputed(i) ELSE Left[i]]
             c == Pos(Total(Left) - expected)
  <1>1. plan' = IF Left = << >> THEN [old |-> Left, new |-> Left, usage |-> synced]
                ELSE IF ~Incremental THEN [old |-> Left, new |-> spent, usage |-> Total(spent)]
                ELSE [old |-> Left, new |-> Spend(Left, c), usage |-> expected]
    BY DEF SyncRead
  <1>2. TypeOK /\ lead' = "commit"
    BY DEF TInv, SyncRead
  <1>3. /\ Table(Left, rows) /\ NatOn(Left, DOMAIN Left) /\ DOMAIN Left \subseteq Ids
        /\ \A i \in DOMAIN Left : Left[i] \in Nat
    BY <1>2, LeftTable DEF NatOn
  <1>4. Total(Left) \in Nat
    BY <1>3, TotalType
  <1>5. CASE Left = << >>
    <2>1. plan'.old = Left /\ plan'.new = Left /\ plan'.usage = synced
      BY <1>1, <1>5
    <2>2. synced \in Nat \cup {None}
      BY <1>2 DEF TypeOK
    <2>3. QED
      BY <1>2, <1>3, <2>1, <2>2
  <1>6. CASE Left # << >> /\ ~Incremental
    <2> HIDE DEF spent
    <2>1. plan'.old = Left /\ plan'.new = spent /\ plan'.usage = Total(spent)
      BY <1>1, <1>6
    <2>2. ASSUME NEW i \in DOMAIN Left PROVE spent[i] \in Nat /\ spent[i] <= Left[i]
      <3>1. Recomputed(i) \in Nat
        <4>1. i \in 1..Len(rows) /\ Len(rows) \in Nat /\ rows[i].amount \in Nat
          BY <1>2, <1>3, RowFacts
        <4>2. Carried[i - 1] \in Nat
          BY <1>2, <4>1, CarriedType
        <4>3. UsedSince(i) \in Nat
          <5>1. records \ rows[i].older \in SUBSET Requests
            BY <1>2 DEF TypeOK
          <5>2. QED
            BY <5>1, CostType DEF UsedSince
        <4>4. QED
          BY <4>1, <4>2, <4>3 DEF Recomputed, Pos
      <3>2. spent[i] = IF Recomputed(i) < Left[i] THEN Recomputed(i) ELSE Left[i]
        BY DEF spent
      <3>3. QED
        BY <1>3, <3>1, <3>2
    <2>3. DOMAIN spent = DOMAIN Left
      BY DEF spent
    <2>4. NatOn(spent, DOMAIN spent)
      BY <1>3, <2>2, <2>3 DEF NatOn
    <2>5. Total(spent) \in Nat
      BY <2>4, TotalType
    <2>6. QED
      BY <1>2, <2>1, <2>2, <2>3, <2>5
  <1>7. CASE Left # << >> /\ Incremental
    <2>1. expected \in Nat
      <3>1. synced \in Nat
        BY <1>2, <1>7 DEF Incremental, TypeOK
      <3>2. mark \ counted \in SUBSET Requests
        BY <1>2 DEF TypeOK
      <3>3. CostOf(mark \ counted) \in Nat
        BY <3>2, CostType
      <3>4. QED
        BY <3>1, <3>3 DEF Pos
    <2> HIDE DEF expected
    <2>2. c \in Nat
      BY <1>4, <2>1 DEF Pos
    <2> HIDE DEF c
    <2>3. plan'.old = Left /\ plan'.new = Spend(Left, c) /\ plan'.usage = expected
      BY <1>1, <1>7
    <2>4. /\ DOMAIN Spend(Left, c) = DOMAIN Left
          /\ \A i \in DOMAIN Left : Spend(Left, c)[i] \in Nat /\ Spend(Left, c)[i] <= Left[i]
      BY <1>2, <1>3, <2>2, TableSpend
    <2>5. QED
      BY <1>2, <2>1, <2>3, <2>4
  <1>8. QED
    BY <1>5, <1>6, <1>7

-----------------------------------------------------------------------------
(* Types.                                                                  *)

\* The steps of requests that leave the rows and what was read of them alone.
LEMMA RequestTypes ==
  ASSUME TInv, NEW r \in Requests,
         \/ Admit(r) \/ Remaining(r) \/ Load(r) \/ Fill(r) \/ Lookup(r) \/ Populate(r)
         \/ Answer(r) \/ Info(r) \/ ReadKey(r) \/ Take(r) \/ Fail(r)
  PROVE  TInv'
  <1> USE DEF TInv, TypeOK, WorkInv, Ids, Goto, Pcs, books, admin, leader
  <1>1. CASE Admit(r)
    BY <1>1, BudgetAssumption DEF Admit
  <1>2. CASE Remaining(r)
    <2>1. PICK w \in {"auth_load", "refused", "serving"} : pc' = [pc EXCEPT ![r] = w]
      BY <1>2 DEF Remaining, Decide
    <2>2. QED
      BY <1>2, <2>1, BudgetAssumption DEF Remaining
  <1>3. CASE Load(r)
    BY <1>3, BudgetAssumption DEF Load
  <1>4. CASE Fill(r)
    <2>1. PICK w \in {"again", "refused", "serving"} :
            pc' = [pc EXCEPT ![r] = w] /\ (w = "again" => pc[r] = "fill")
      BY <1>4 DEF Fill, Decide
    <2>2. cached' = val[r] /\ loose' \in BOOLEAN /\ pc[r] \in {"fill", "auth_fill"}
      BY <1>4 DEF Fill, Writes
    <2>3. QED
      BY <1>4, <2>1, <2>2, BudgetAssumption DEF Fill
  <1>5. CASE Lookup(r)
    BY <1>5, BudgetAssumption DEF Lookup
  <1>6. CASE Populate(r)
    BY <1>6, BudgetAssumption DEF Populate, Writes
  <1>7. CASE Answer(r)
    BY <1>7, BudgetAssumption DEF Answer
  <1>8. CASE Info(r)
    BY <1>8, BudgetAssumption DEF Info
  <1>9. CASE ReadKey(r)
    BY <1>9, BudgetAssumption DEF ReadKey
  <1>10. CASE Take(r)
    <2>1. PICK w \in {"load", "commit"} : pc' = [pc EXCEPT ![r] = w] /\ r \in stamped
      BY <1>10 DEF Take
    <2>2. cached' \in Int \cup {None} /\ loose' \in BOOLEAN /\ pc[r] \in {"take", "again"}
      <3>1. pc[r] \in {"take", "again"} /\ cached' = (IF cached = None THEN None ELSE cached - Cost[r])
        BY <1>10 DEF Take
      <3>2. Cost[r] \in Nat /\ cached \in Int \cup {None}
        BY BudgetAssumption
      <3>3. cached' \in Int \cup {None}
        BY <3>1, <3>2
      <3>4. loose' \in BOOLEAN
        BY <1>10 DEF Take, Writes
      <3>5. QED
        BY <3>1, <3>3, <3>4
    <2>3. QED
      BY <1>10, <2>1, <2>2, BudgetAssumption DEF Take
  <1>11. CASE Fail(r)
    <2>1. PICK w \in {"lost", "refused", "commit", "serving"} :
            pc' = [pc EXCEPT ![r] = w] /\ (r \in stamped => w \in {"lost", "commit"}) /\ r \notin records
      BY <1>11 DEF Fail
    <2>2. info' \in BOOLEAN
      BY <1>11 DEF Fail
    <2>3. QED
      BY <1>11, <2>1, <2>2, BudgetAssumption DEF Fail
  <1>12. QED
    BY <1>1, <1>2, <1>3, <1>4, <1>5, <1>6, <1>7, <1>8, <1>9, <1>10, <1>11

\* The same of operators.
LEMMA AdminTypes ==
  ASSUME TInv, NEW a \in Admins,
         \/ Begin(a) \/ Delete(a) \/ Refresh(a) \/ Cache(a) \/ Refill(a) \/ Reload(a)
         \/ Push(a) \/ Abort(a)
  PROVE  TInv'
  <1> USE DEF TInv, TypeOK, WorkInv, Ids, AdminPcs, books, request, leader
  <1>1. CASE Begin(a)
    BY <1>1, BudgetAssumption DEF Begin, Step
  <1>2. CASE Delete(a)
    BY <1>2, BudgetAssumption DEF Delete, Step, Writes, Pos
  <1>3. CASE Refresh(a)
    BY <1>3, BudgetAssumption DEF Refresh, Step
  <1>4. CASE Cache(a)
    BY <1>4, BudgetAssumption DEF Cache, Step, Writes
  <1>5. CASE Refill(a)
    BY <1>5, BudgetAssumption DEF Refill, Step
  <1>6. CASE Reload(a)
    BY <1>6, BudgetAssumption DEF Reload, Step, Writes
  <1>7. CASE Push(a)
    <2>1. cached' \in Int \cup {None} /\ loose' \in BOOLEAN
      <3>1. cached' \in Int \cup {None}
        BY <1>7, BudgetAssumption DEF Push
      <3>2. loose' \in BOOLEAN
        BY <1>7 DEF Push, Writes
      <3>3. QED
        BY <3>1, <3>2
    <2>2. PICK w \in {"top_up", "done"} : op' = [op EXCEPT ![a] = w] /\ (w = "top_up" => arem[a] < Target)
      BY <1>7 DEF Push, Step, Short
    <2>3. QED
      BY <1>7, <2>1, <2>2, BudgetAssumption DEF Push
  <1>8. CASE Abort(a)
    BY <1>8, BudgetAssumption DEF Abort, Step, Short
  <1>9. QED
    BY <1>1, <1>2, <1>3, <1>4, <1>5, <1>6, <1>7, <1>8

\* A transaction that reads the rows gets a table of them.
LEMMA ReadRowsTypes == ASSUME TInv, NEW r \in Requests, ReadRows(r) PROVE TInv'
  <1>1. /\ seen' = [seen EXCEPT ![r] = Left] /\ pc' = [pc EXCEPT ![r] = "take"] /\ pc[r] = "rows"
        /\ UNCHANGED <<books, cached, info, val, read, stamped, records, admin, leader, loose, faults>>
    BY DEF ReadRows, Goto
  <1>2. Table(Left, rows)
    BY LeftTable DEF TInv
  <1> HIDE DEF Left
  <1>3. QED
    BY <1>1, <1>2 DEF TInv, TypeOK, WorkInv, Ids, Pcs, books, admin, leader

\* After rows changed nothing but what they have left, tables are still tables.
LEMMA WrittenTables ==
  ASSUME TInv, NEW old, Table(old, rows), NEW new, DOMAIN new = DOMAIN old,
         \A i \in DOMAIN old : new[i] \in Nat /\ new[i] <= old[i], rows' = Written(old, new)
  PROVE  /\ rows' \in Seq(RowType) /\ Ids' = Ids
         /\ \A i \in Ids' : rows'[i].remaining <= rows'[i].amount
         /\ \A f : Table(f, rows) => Table(f, rows')
  <1> DEFINE w == Written(old, new)
  <1>1. /\ w \in Seq(RowType) /\ DOMAIN w = Ids
        /\ \A i \in Ids : /\ w[i].amount = rows[i].amount
                          /\ w[i].remaining <= rows[i].amount
    BY WrittenRows DEF TInv
  <1>2. rows' = w
    OBVIOUS
  <1> HIDE DEF w
  <1>3. \A f : Table(f, rows) => Table(f, w)
    BY <1>1, TableKept DEF Ids
  <1>4. QED
    BY <1>1, <1>2, <1>3 DEF Ids

\* A commit writes back no more than was read, and a sum of natural numbers.
LEMMA CommitTypes == ASSUME TInv, NEW r \in Requests, Commit(r) PROVE TInv'
  <1> DEFINE new == Spend(seen[r], Cost[r])
  <1>1. /\ pc[r] = "commit" /\ UNCHANGED <<gone, cached, info, val, read, seen, admin, leader, faults>>
        /\ loose' \in BOOLEAN
    BY DEF Commit, Writes
  <1>2. Cost[r] \in Nat /\ Table(seen[r], rows) /\ TypeOK
    BY BudgetAssumption DEF TInv, WorkInv
  <1>3. /\ DOMAIN new = DOMAIN seen[r] /\ Total(new) \in Nat
        /\ \A i \in DOMAIN seen[r] : new[i] \in Nat /\ new[i] <= seen[r][i]
    <2>1. /\ DOMAIN new = DOMAIN seen[r] /\ Total(new) = Pos(Total(seen[r]) - Cost[r])
          /\ \A i \in DOMAIN seen[r] : new[i] \in Nat /\ new[i] <= seen[r][i]
          /\ Total(seen[r]) \in Nat
      BY <1>2, TableSpend
    <2> HIDE DEF new
    <2>2. QED
      BY <1>2, <2>1 DEF Pos
  <1>4. CASE Changed(seen[r], new) \cap gone = {}
    <2>1. /\ rows' = Written(seen[r], new)
          /\ total' = IF seen[r] # << >> /\ Total(new) # read[r] THEN Total(new) ELSE total
          /\ stamped' = stamped \cup {r} /\ records' = records \cup {r}
          /\ pc' = [pc EXCEPT ![r] = "done"]
      BY <1>4 DEF Commit, Goto
    <2> HIDE DEF new
    <2>2. /\ rows' \in Seq(RowType) /\ Ids' = Ids
          /\ \A i \in Ids' : rows'[i].remaining <= rows'[i].amount
          /\ \A f : Table(f, rows) => Table(f, rows')
      BY <1>2, <1>3, <2>1, WrittenTables
    <2>3. total' \in Nat
      BY <1>2, <1>3, <2>1 DEF TypeOK
    <2>4. TypeOK'
      BY <1>1, <1>2, <2>1, <2>2, <2>3 DEF TypeOK, RowType, Pcs, admin, leader
    <2>5. WorkInv'
      BY <1>1, <2>1, <2>2 DEF TInv, TypeOK, WorkInv, Pcs, admin, leader
    <2>6. QED
      BY <2>4, <2>5 DEF TInv
  <1>5. CASE Changed(seen[r], new) \cap gone # {}
    <2>1. UNCHANGED <<rows, total, stamped, records>> /\ pc' = [pc EXCEPT ![r] = "lost"]
      BY <1>5 DEF Commit, Goto
    <2> HIDE DEF new
    <2>2. QED
      BY <1>1, <2>1 DEF TInv, TypeOK, WorkInv, Ids, Pcs, admin, leader
  <1>6. QED
    BY <1>4, <1>5

\* A new row has all its amount left.
LEMMA NewRow ==
  ASSUME TInv, NEW n \in Nat, rows' = Append(rows, Row(n))
  PROVE  /\ rows' \in Seq(RowType) /\ Ids' = Ids \cup {Len(rows) + 1} /\ Len(rows) + 1 \notin Ids
         /\ Len(rows') = Len(rows) + 1
         /\ \A i \in Ids : rows'[i] = rows[i]
         /\ rows'[Len(rows) + 1] = Row(n)
         /\ \A i \in Ids' : rows'[i].remaining <= rows'[i].amount
         /\ \A f : Table(f, rows) => Table(f, rows')
  <1> DEFINE u == Append(rows, Row(n))
             k == Len(rows) + 1
  <1>1. rows \in Seq(RowType) /\ Row(n) \in RowType
    BY DEF TInv, TypeOK, Row, RowType
  <1>2. Ids = 1..Len(rows) /\ Len(rows) \in Nat
    BY RowFacts DEF TInv
  <1>3. /\ u \in Seq(RowType) /\ DOMAIN u = Ids \cup {k} /\ k \notin Ids /\ Len(u) = k
        /\ \A i \in Ids : u[i] = rows[i]
        /\ u[k] = Row(n)
    BY <1>1, <1>2
  <1> HIDE DEF u
  <1>4. \A i \in DOMAIN u : u[i].remaining <= u[i].amount
    <2>1. \A i \in Ids : u[i].remaining <= u[i].amount
      BY <1>3 DEF TInv, TypeOK
    <2>2. u[k].remaining <= u[k].amount
      BY <1>3 DEF Row
    <2>3. QED
      BY <1>3, <2>1, <2>2
  <1>5. \A f : Table(f, rows) => Table(f, u)
    BY <1>3, TableKept DEF Ids
  <1>6. rows' = u
    BY DEF u
  <1>7. QED
    BY <1>3, <1>4, <1>5, <1>6 DEF Ids

\* add_budget and the refill append one.
LEMMA AppendTypes ==
  ASSUME TInv, NEW a \in Admins, Add(a) \/ TopUp(a)
  PROVE  TInv'
  <1>1. \E n \in Nat : rows' = Append(rows, Row(n))
    <2>1. CASE Add(a)
      BY <2>1, BudgetAssumption DEF Add
    <2>2. CASE TopUp(a)
      <3>1. Target - arem[a] \in Nat
        BY <2>2, BudgetAssumption DEF TopUp, TInv, TypeOK, WorkInv
      <3>2. QED
        BY <2>2, <3>1 DEF TopUp
    <2>3. QED
      BY <2>1, <2>2
  <1>2. /\ rows' \in Seq(RowType) /\ Ids \subseteq Ids'
        /\ \A i \in Ids' : rows'[i].remaining <= rows'[i].amount
        /\ \A f : Table(f, rows) => Table(f, rows')
    BY <1>1, NewRow
  <1>3. /\ total' \in Nat /\ loose' \in BOOLEAN
        /\ UNCHANGED <<gone, cached, info, request, avail, arem, leader, faults>>
    <2>1. avail[a] \in Nat /\ total \in Nat /\ loose \in BOOLEAN
      BY DEF TInv, TypeOK
    <2>2. CASE Add(a)
      BY <2>1, <2>2, BudgetAssumption DEF Add, Writes
    <2>3. CASE TopUp(a)
      BY <2>1, <2>3, BudgetAssumption DEF TopUp
    <2>4. QED
      BY <2>2, <2>3
  <1>4. PICK w \in {"refresh", "done"} : op' = [op EXCEPT ![a] = w]
    BY DEF Add, TopUp, Step
  <1>5. TypeOK'
    BY <1>2, <1>3, <1>4 DEF TInv, TypeOK, RowType, AdminPcs, request, leader
  <1>6. WorkInv'
    BY <1>2, <1>3, <1>4 DEF TInv, TypeOK, WorkInv, request, leader
  <1>7. QED
    BY <1>5, <1>6 DEF TInv

\* The cycle of the leader, and the cache's expiry.
LEMMA LeaderTypes ==
  ASSUME TInv, SyncStart \/ SyncRead \/ SyncCommit \/ Expire
  PROVE  TInv'
  <1>1. CASE SyncStart
    BY <1>1 DEF SyncStart, TInv, TypeOK, WorkInv, Ids, books, request, admin
  <1>2. CASE SyncRead
    <2>1. /\ plan'.old = Left /\ DOMAIN plan'.new = DOMAIN Left
          /\ \A i \in DOMAIN Left : plan'.new[i] \in Nat /\ plan'.new[i] <= Left[i]
          /\ plan'.usage \in Nat \cup {None} /\ lead' = "commit"
      BY <1>2, SyncReadPlan
    <2>2. Table(Left, rows)
      BY LeftTable DEF TInv
    <2>3. /\ UNCHANGED <<books, cached, info, request, admin, synced, mark, counted, taken, loose, faults>>
          /\ behind' \in BOOLEAN
      BY <1>2 DEF SyncRead, TInv, TypeOK
    <2> HIDE DEF Left
    <2>4. QED
      BY <2>1, <2>2, <2>3 DEF TInv, TypeOK, WorkInv, Ids, books, request, admin
  <1>3. CASE SyncCommit
    <2> DEFINE old == plan.old
               new == plan.new
    <2>1. /\ Table(old, rows) /\ DOMAIN new = DOMAIN old /\ TypeOK
          /\ \A i \in DOMAIN old : new[i] \in Nat /\ new[i] <= old[i]
      BY DEF TInv, WorkInv
    <2>2. /\ lead' = "idle"
          /\ UNCHANGED <<gone, total, cached, info, request, admin, mark, plan, behind, loose, faults>>
      BY <1>3 DEF SyncCommit
    <2>3. CASE Changed(old, new) \cap gone = {}
      <3>1. /\ rows' = Written(old, new) /\ synced' = plan.usage /\ counted' = mark
            /\ taken' = taken + Total(old) - Total(new)
        BY <1>3, <2>3 DEF SyncCommit
      <3>2. Total(old) \in Nat /\ Total(new) \in Nat /\ Total(new) <= Total(old)
        <4>1. NatOn(old, DOMAIN old)
          BY <2>1, TableSpend
        <4> HIDE DEF old, new
        <4>2. NatOn(new, DOMAIN old) /\ \A i \in DOMAIN old : new[i] <= old[i]
          BY <2>1, <4>1 DEF NatOn
        <4>3. SumOver(new, DOMAIN old) <= SumOver(old, DOMAIN old)
          BY <4>1, <4>2, SumLeq
        <4>4. Total(new) = SumOver(new, DOMAIN old) /\ Total(old) = SumOver(old, DOMAIN old)
          BY <2>1, TotalSum
        <4>5. QED
          BY <4>1, <4>2, <4>3, <4>4, SumType
      <3>3. taken' \in Nat
        BY <2>1, <3>1, <3>2 DEF TypeOK
      <3>4. /\ rows' \in Seq(RowType) /\ Ids' = Ids
            /\ \A i \in Ids' : rows'[i].remaining <= rows'[i].amount
            /\ \A f : Table(f, rows) => Table(f, rows')
        BY <2>1, <3>1, WrittenTables
      <3>5. TypeOK'
        BY <2>1, <2>2, <3>1, <3>3, <3>4 DEF TInv, TypeOK, WorkInv, RowType, request, admin
      <3>6. WorkInv'
        BY <2>2, <3>1, <3>4 DEF TInv, TypeOK, WorkInv, request, admin
      <3>7. QED
        BY <3>5, <3>6 DEF TInv
    <2>4. CASE Changed(old, new) \cap gone # {}
      BY <1>3, <2>2, <2>4 DEF SyncCommit, TInv, TypeOK, WorkInv, Ids, request, admin
    <2>5. QED
      BY <2>3, <2>4
  <1>4. CASE Expire
    BY <1>4 DEF Expire, TInv, TypeOK, WorkInv, Ids, books, request, admin, leader
  <1>5. QED
    BY <1>1, <1>2, <1>3, <1>4

\* TInv is inductive.
THEOREM TypeInduction == Spec => []TInv
  <1>1. Init => TInv
    <2> SUFFICES ASSUME Init PROVE TInv
      OBVIOUS
    <2>1. rows \in Seq(RowType) /\ Ids = {1} /\ rows[1].remaining <= rows[1].amount
      BY BudgetAssumption DEF Init, RowType, Ids
    <2>a. total \in Nat
      BY BudgetAssumption DEF Init
    <2>b. \A i \in Ids : rows[i].remaining <= rows[i].amount
      BY <2>1
    <2>c. gone = {} /\ synced = None /\ cached = None /\ info = FALSE
      BY DEF Init
    <2>d. /\ pc \in [Requests -> Pcs] /\ val \in [Requests -> Nat] /\ read \in [Requests -> Nat]
          /\ stamped = {} /\ records = {} /\ mark = {} /\ counted = {}
      BY DEF Init, Pcs
    <2>e. op \in [Admins -> AdminPcs] /\ avail \in [Admins -> Nat] /\ arem \in [Admins -> Int]
      BY DEF Init, AdminPcs
    <2>f. lead = "idle" /\ taken = 0 /\ behind = FALSE /\ loose = FALSE /\ faults = 0
      BY DEF Init
    <2>2. TypeOK
      BY <2>1, <2>a, <2>b, <2>c, <2>d, <2>e, <2>f DEF TypeOK, RowType
    <2>3. Table(<< >>, rows) /\ DOMAIN << >> = {}
      BY DEF Table
    <2>4. WorkInv
      BY <2>3 DEF Init, WorkInv
    <2>5. QED
      BY <2>2, <2>4 DEF TInv
  <1>2. TInv /\ [Next]_vars => TInv'
    <2> SUFFICES ASSUME TInv, [Next]_vars PROVE TInv'
      OBVIOUS
    <2>1. CASE UNCHANGED vars
      BY <2>1 DEF TInv, TypeOK, WorkInv, Ids, vars, books, request, admin, leader
    <2>2. CASE \E r \in Requests :
                 \/ Admit(r) \/ Remaining(r) \/ Load(r) \/ Fill(r) \/ Lookup(r) \/ Populate(r)
                 \/ Answer(r) \/ Info(r) \/ ReadKey(r) \/ ReadRows(r) \/ Take(r) \/ Commit(r) \/ Fail(r)
      BY <2>2, RequestTypes, ReadRowsTypes, CommitTypes
    <2>3. CASE \E a \in Admins :
                 \/ Begin(a) \/ Add(a) \/ Delete(a) \/ Refresh(a) \/ Cache(a)
                 \/ Refill(a) \/ Reload(a) \/ Push(a) \/ TopUp(a) \/ Abort(a)
      BY <2>3, AdminTypes, AppendTypes
    <2>4. CASE SyncStart \/ SyncRead \/ SyncCommit \/ Expire
      BY <2>4, LeaderTypes
    <2>5. QED
      BY <2>1, <2>2, <2>3, <2>4 DEF Next
  <1>3. QED
    BY <1>1, <1>2, PTL DEF Spec

\* Rows never have more left than their amount, nor does a row, the sum or a read
\* of them go below zero, whatever overwrites what.
THEOREM TypeCorrect == Spec => []TypeOK
  <1>1. TInv => TypeOK
    BY DEF TInv
  <1>2. QED
    BY <1>1, TypeInduction, PTL

-----------------------------------------------------------------------------
(* Consumption.                                                            *)

\* U[i] bounds what the rows, and whatever was read of them, show to be taken of
\* row i.
Shown(U, f, t) == \A i \in DOMAIN f : t[i].amount - f[i] <= U[i]

\* U charges every row with what requests and cycles took when they wrote it: the
\* rows overwrite each other, the charges add up. They add up to no more than the
\* committed records cost and the cycles took.
Charges(U) ==
  /\ U \in [Ids -> Nat]
  /\ SumOver(U, Ids) <= CostOf(records) + taken
  /\ \A i \in Ids : rows[i].amount - rows[i].remaining <= U[i]
  /\ \A r \in Requests : Shown(U, seen[r], rows)
  /\ Shown(U, plan.old, rows)

ChargeInv == \E U : Charges(U)

\* What a step does to the rows, to what was read of them and to the leader.
LEMMA StepKinds ==
  ASSUME TInv, [Next]_vars
  PROVE  \/ UNCHANGED <<rows, seen, records, leader>>
         \/ \E r \in Requests : ReadRows(r) \/ Commit(r)
         \/ UNCHANGED <<seen, records, leader>> /\ \E n \in Nat : rows' = Append(rows, Row(n))
         \/ SyncStart \/ SyncRead \/ SyncCommit
  <1>1. CASE UNCHANGED vars
    BY <1>1 DEF vars, books, request
  <1>2. CASE \E r \in Requests :
               \/ Admit(r) \/ Remaining(r) \/ Load(r) \/ Fill(r) \/ Lookup(r) \/ Populate(r)
               \/ Answer(r) \/ Info(r) \/ ReadKey(r) \/ Take(r) \/ Fail(r)
    BY <1>2 DEF Admit, Remaining, Load, Fill, Lookup, Populate, Answer, Info, ReadKey, Take, Fail, books
  <1>3. CASE \E a \in Admins :
               \/ Begin(a) \/ Delete(a) \/ Refresh(a) \/ Cache(a)
               \/ Refill(a) \/ Reload(a) \/ Push(a) \/ Abort(a)
    BY <1>3 DEF Begin, Delete, Refresh, Cache, Refill, Reload, Push, Abort, books, request
  <1>4. CASE \E a \in Admins : Add(a) \/ TopUp(a)
    <2>1. PICK a \in Admins : Add(a) \/ TopUp(a)
      BY <1>4
    <2>2. UNCHANGED <<seen, records, leader>>
      BY <2>1 DEF Add, TopUp, request
    <2>3. CASE Add(a)
      BY <2>2, <2>3, BudgetAssumption DEF Add
    <2>4. CASE TopUp(a)
      <3>1. Target - arem[a] \in Nat /\ rows' = Append(rows, Row(Target - arem[a]))
        BY <2>4, BudgetAssumption DEF TopUp, TInv, TypeOK, WorkInv
      <3>2. QED
        BY <2>2, <3>1
    <2>5. QED
      BY <2>1, <2>3, <2>4
  <1>5. CASE Expire
    BY <1>5 DEF Expire, books, request
  <1>6. QED
    BY <1>1, <1>2, <1>3, <1>4, <1>5 DEF Next

\* Writing new for old charges each row with the difference.
LEMMA ChargeMore ==
  ASSUME TInv, NEW U, Charges(U), NEW old, Table(old, rows), Shown(U, old, rows),
         NEW new, DOMAIN new = DOMAIN old,
         \A i \in DOMAIN old : new[i] \in Nat /\ new[i] <= old[i],
         rows' = Written(old, new)
  PROVE  \E V \in [Ids -> Nat] :
           /\ SumOver(V, Ids) = SumOver(U, Ids) + (Total(old) - Total(new))
           /\ \A i \in Ids : U[i] <= V[i]
           /\ \A i \in Ids : rows'[i].amount - rows'[i].remaining <= V[i]
  <1> DEFINE D == DOMAIN old
             d == [i \in Ids |-> IF i \in D THEN old[i] - new[i] ELSE 0]
             V == [i \in Ids |-> U[i] + d[i]]
  <1>1. /\ D \subseteq Ids /\ IsFiniteSet(Ids) /\ IsFiniteSet(D)
        /\ \A i \in D : old[i] \in Nat /\ new[i] \in Nat /\ new[i] <= old[i]
        /\ U \in [Ids -> Nat]
    BY RowFacts, FS_Subset DEF TInv, Table, Ids, Charges
  <1>2. NatOn(old, D) /\ NatOn(new, D) /\ NatOn(d, D) /\ NatOn(d, Ids) /\ NatOn(U, Ids)
    BY <1>1 DEF NatOn
  <1>3. \A i \in D : old[i] = new[i] + d[i]
    BY <1>1
  <1>4. /\ \A i \in Ids : V[i] = U[i] + d[i] /\ U[i] \in Nat /\ d[i] \in Nat
        /\ \A i \in Ids \ D : d[i] = 0
        /\ V \in [Ids -> Nat]
    BY <1>1
  <1>5. Total(old) = SumOver(old, D) /\ Total(new) = SumOver(new, D)
    BY TotalSum
  <1>6. ASSUME NEW i \in Ids PROVE U[i] <= V[i] /\ rows'[i].amount - rows'[i].remaining <= V[i]
    <2>1. /\ rows'[i].amount = rows[i].amount
          /\ rows'[i].remaining = IF i \in Changed(old, new) THEN new[i] ELSE rows[i].remaining
      BY WrittenRows DEF TInv
    <2>2. /\ rows[i].amount \in Nat /\ rows[i].remaining \in Nat
          /\ rows[i].amount - rows[i].remaining <= U[i]
      BY RowFacts DEF TInv, Charges
    <2>3. CASE i \in Changed(old, new)
      <3>1. i \in D /\ rows[i].amount - old[i] <= U[i]
        BY <2>3 DEF Changed, Shown
      <3>2. old[i] \in Nat /\ new[i] \in Nat /\ old[i] = new[i] + d[i]
        BY <1>1, <1>3, <3>1
      <3> HIDE DEF d, V, D
      <3>3. QED
        BY <1>4, <2>1, <2>2, <2>3, <3>1, <3>2
    <2>4. CASE i \notin Changed(old, new)
      <3> HIDE DEF d, V, D
      <3>1. QED
        BY <1>4, <2>1, <2>2, <2>4
    <2>5. QED
      BY <2>3, <2>4
  <1> HIDE DEF d, V, D
  <1>7. SumOver(V, Ids) = SumOver(U, Ids) + SumOver(d, Ids)
    BY <1>2, <1>4, SumPlus
  <1>8. SumOver(d, Ids) = SumOver(d, D)
    BY <1>1, <1>2, <1>4, SumNonzero
  <1>9. SumOver(old, D) = SumOver(new, D) + SumOver(d, D)
    BY <1>2, <1>3, SumPlus
  <1>10. SumOver(new, D) \in Nat /\ SumOver(d, D) \in Nat
    BY <1>2, SumType
  <1>11. SumOver(V, Ids) = SumOver(U, Ids) + (Total(old) - Total(new))
    BY <1>5, <1>7, <1>8, <1>9, <1>10
  <1>12. QED
    BY <1>4, <1>6, <1>11

\* A higher bound still bounds what was read, and a new row has none.
LEMMA ShownKept ==
  ASSUME NEW U, NEW V, NEW f, NEW t, NEW u, Table(f, t), Shown(U, f, t), U \in [DOMAIN t -> Nat],
         \A i \in DOMAIN t : t[i].amount \in Nat /\ u[i].amount = t[i].amount /\ V[i] \in Nat /\ U[i] <= V[i]
  PROVE  Shown(V, f, u)
  <1>1. ASSUME NEW i \in DOMAIN f PROVE u[i].amount - f[i] <= V[i]
    <2>1. i \in DOMAIN t /\ f[i] \in Nat /\ t[i].amount - f[i] <= U[i]
      BY DEF Table, Shown
    <2>2. t[i].amount \in Nat /\ u[i].amount = t[i].amount /\ V[i] \in Nat /\ U[i] <= V[i] /\ U[i] \in Nat
      BY <2>1
    <2>3. QED
      BY <2>1, <2>2
  <1>2. QED
    BY <1>1 DEF Shown

\* No interleaving of transactions charges the rows more than their costs.
LEMMA ChargeStep == ASSUME TInv, TInv', ChargeInv, [Next]_vars PROVE ChargeInv'
  <1>1. PICK U : Charges(U)
    BY DEF ChargeInv
  <1>2. /\ U \in [Ids -> Nat] /\ SumOver(U, Ids) <= CostOf(records) + taken
        /\ \A i \in Ids : rows[i].amount - rows[i].remaining <= U[i]
        /\ \A r \in Requests : Shown(U, seen[r], rows)
        /\ Shown(U, plan.old, rows)
    BY <1>1 DEF Charges
  <1>3. /\ IsFiniteSet(Ids) /\ NatOn(U, Ids) /\ SumOver(U, Ids) \in Nat
        /\ CostOf(records) \in Nat /\ taken \in Nat
    <2>1. NatOn(U, Ids)
      BY <1>2, RowFacts DEF TInv, NatOn
    <2>2. records \in SUBSET Requests /\ taken \in Nat
      BY DEF TInv, TypeOK
    <2>3. QED
      BY <2>1, <2>2, SumType, CostType DEF NatOn
  <1>4. Shown(U, Left, rows)
    <2>1. \A i \in DOMAIN Left : i \in Ids /\ Left[i] = rows[i].remaining
      BY LeftTable DEF TInv
    <2> HIDE DEF Left
    <2>2. QED
      BY <1>2, <2>1 DEF Shown
  <1>5. CASE UNCHANGED <<rows, seen, records, leader>>
    <2>1. Charges(U)'
      BY <1>2, <1>5 DEF Charges, Ids, leader, CostOf
    <2>2. QED
      BY <2>1 DEF ChargeInv
  <1>6. CASE \E r \in Requests : ReadRows(r)
    <2>1. PICK r \in Requests : ReadRows(r)
      BY <1>6
    <2>2. seen' = [seen EXCEPT ![r] = Left] /\ UNCHANGED <<rows, records, plan, taken>>
      BY <2>1 DEF ReadRows, books, leader
    <2>3. \A q \in Requests : Shown(U, seen'[q], rows)
      <3> HIDE DEF Left
      <3>1. QED
        BY <1>2, <1>4, <2>2 DEF TInv, TypeOK
    <2>4. Charges(U)'
      BY <1>2, <2>2, <2>3 DEF Charges, Ids, CostOf
    <2>5. QED
      BY <2>4 DEF ChargeInv
  <1>7. CASE SyncRead
    <2>1. plan'.old = Left /\ UNCHANGED <<rows, seen, records, taken>>
      BY <1>7, SyncReadPlan DEF SyncRead, books, request
    <2>2. Charges(U)'
      <3> HIDE DEF Left
      <3>1. QED
        BY <1>2, <1>4, <2>1 DEF Charges, Ids, CostOf
    <2>3. QED
      BY <2>2 DEF ChargeInv
  <1>8. CASE SyncStart
    <2>1. UNCHANGED <<rows, seen, records, plan, taken>>
      BY <1>8 DEF SyncStart, books, request
    <2>2. Charges(U)'
      BY <1>2, <2>1 DEF Charges, Ids, CostOf
    <2>3. QED
      BY <2>2 DEF ChargeInv
  <1>9. ASSUME NEW n \in Nat, UNCHANGED <<seen, records, leader>>, rows' = Append(rows, Row(n))
        PROVE  ChargeInv'
    <2> DEFINE k == Len(rows) + 1
    <2>1. /\ Ids' = Ids \cup {k} /\ k \notin Ids
          /\ \A i \in Ids : rows'[i] = rows[i]
          /\ rows'[k] = Row(n)
      BY <1>9, NewRow
    <2>2. PICK V \in [Ids \cup {k} -> Nat] : V[k] = 0 /\ \A i \in Ids : V[i] = U[i]
      <3> DEFINE W == [i \in Ids \cup {k} |-> IF i \in Ids THEN U[i] ELSE 0]
      <3>1. W \in [Ids \cup {k} -> Nat] /\ W[k] = 0 /\ \A i \in Ids : W[i] = U[i]
        BY <1>2, <2>1
      <3>2. QED
        BY <3>1
    <2>3. NatOn(V, Ids \cup {k})
      BY <1>3, <2>1, <2>2, FS_AddElement DEF NatOn
    <2> HIDE DEF k
    <2>4. SumOver(V, Ids') = SumOver(U, Ids)
      <3>1. SumOver(V, Ids) = SumOver(U, Ids)
        BY <1>3, <2>2, SumEqual
      <3>2. SumOver(V, Ids \cup {k}) = V[k] + SumOver(V, Ids)
        BY <2>1, <2>3, SumAdd
      <3>3. QED
        BY <1>3, <2>1, <2>2, <3>1, <3>2
    <2>5. \A i \in Ids' : rows'[i].amount - rows'[i].remaining <= V[i]
      <3>1. rows'[k].amount - rows'[k].remaining = 0
        BY <2>1 DEF Row
      <3>2. QED
        BY <1>2, <2>1, <2>2, <3>1
    <2>6. \A f : Table(f, rows) /\ Shown(U, f, rows) => Shown(V, f, rows')
      BY <1>2, <2>1, <2>2 DEF Table, Shown, Ids
    <2>7. (\A r \in Requests : Shown(V, seen'[r], rows')) /\ Shown(V, plan'.old, rows')
      BY <1>2, <1>9, <2>6 DEF TInv, WorkInv, leader
    <2>8. Charges(V)'
      <3>1. CostOf(records)' = CostOf(records) /\ taken' = taken
        BY <1>9 DEF leader, CostOf
      <3>2. QED
        BY <1>2, <2>1, <2>2, <2>4, <2>5, <2>7, <3>1 DEF Charges
    <2>9. QED
      BY <2>8 DEF ChargeInv
  <1>10. ASSUME NEW old, Table(old, rows), Shown(U, old, rows),
                NEW new, DOMAIN new = DOMAIN old,
                \A i \in DOMAIN old : new[i] \in Nat /\ new[i] <= old[i],
                rows' = Written(old, new), UNCHANGED <<seen, plan>>,
                SumOver(U, Ids) + (Total(old) - Total(new)) <= CostOf(records') + taken'
         PROVE  ChargeInv'
    <2>1. PICK V \in [Ids -> Nat] :
            /\ SumOver(V, Ids) = SumOver(U, Ids) + (Total(old) - Total(new))
            /\ \A i \in Ids : U[i] <= V[i]
            /\ \A i \in Ids : rows'[i].amount - rows'[i].remaining <= V[i]
      BY <1>1, <1>10, ChargeMore
    <2>2. Ids' = Ids /\ \A i \in Ids : rows[i].amount \in Nat /\ rows'[i].amount = rows[i].amount
      <3>1. Ids' = Ids
        BY <1>10, WrittenTables
      <3>2. \A i \in Ids : Written(old, new)[i].amount = rows[i].amount
        BY <1>10, WrittenRows DEF TInv
      <3>3. QED
        BY <1>10, <3>1, <3>2, RowFacts DEF TInv
    <2>3. \A f : Table(f, rows) /\ Shown(U, f, rows) => Shown(V, f, rows')
      BY <1>2, <2>1, <2>2, ShownKept DEF Ids
    <2>4. (\A r \in Requests : Shown(V, seen'[r], rows')) /\ Shown(V, plan'.old, rows')
      BY <1>2, <1>10, <2>3 DEF TInv, WorkInv
    <2>5. Charges(V)'
      <3>1. CostOf(records)' = CostOf(records')
        BY DEF CostOf
      <3>2. QED
        BY <1>10, <2>1, <2>2, <2>4, <3>1 DEF Charges
    <2>6. QED
      BY <2>5 DEF ChargeInv
  <1>11. CASE \E r \in Requests : Commit(r)
    <2>1. PICK r \in Requests : Commit(r)
      BY <1>11
    <2> DEFINE new == Spend(seen[r], Cost[r])
    <2>2. CASE Changed(seen[r], new) \cap gone = {}
      <3>1. /\ rows' = Written(seen[r], new) /\ records' = records \cup {r} /\ r \notin records
            /\ UNCHANGED <<seen, leader>>
        BY <2>1, <2>2 DEF Commit, TInv, WorkInv
      <3>2. Cost[r] \in Nat /\ Table(seen[r], rows) /\ TypeOK /\ Shown(U, seen[r], rows)
        BY <1>2, BudgetAssumption DEF TInv, WorkInv
      <3>3. /\ DOMAIN new = DOMAIN seen[r]
            /\ \A i \in DOMAIN seen[r] : new[i] \in Nat /\ new[i] <= seen[r][i]
            /\ Total(seen[r]) \in Nat /\ Total(new) = Pos(Total(seen[r]) - Cost[r])
        BY <3>2, TableSpend
      <3>4. CostOf(records') = CostOf(records) + Cost[r]
        BY <3>1, CostAdd DEF TInv, TypeOK
      <3> HIDE DEF new
      <3>5. Total(seen[r]) - Total(new) <= Cost[r] /\ Total(seen[r]) - Total(new) \in Int
        BY <3>2, <3>3 DEF Pos
      <3>6. SumOver(U, Ids) + (Total(seen[r]) - Total(new)) <= CostOf(records') + taken'
        BY <1>2, <1>3, <3>1, <3>2, <3>4, <3>5 DEF leader
      <3>7. UNCHANGED <<seen, plan>>
        BY <3>1 DEF leader
      <3>8. QED
        BY <1>10, <3>1, <3>2, <3>3, <3>6, <3>7
    <2>3. CASE Changed(seen[r], new) \cap gone # {}
      <3>1. UNCHANGED <<rows, seen, records, leader>>
        BY <2>1, <2>3 DEF Commit
      <3>2. QED
        BY <1>5, <3>1
    <2>4. QED
      BY <2>2, <2>3
  <1>12. CASE SyncCommit
    <2>1. CASE Changed(plan.old, plan.new) \cap gone = {}
      <3>1. /\ rows' = Written(plan.old, plan.new) /\ taken' = taken + Total(plan.old) - Total(plan.new)
            /\ UNCHANGED <<seen, plan, records>>
        BY <1>12, <2>1 DEF SyncCommit, request
      <3>2. /\ Table(plan.old, rows) /\ DOMAIN plan.new = DOMAIN plan.old
            /\ \A i \in DOMAIN plan.old : plan.new[i] \in Nat /\ plan.new[i] <= plan.old[i]
        BY DEF TInv, WorkInv
      <3>3. Total(plan.old) \in Nat /\ Total(plan.new) \in Nat
        <4>1. NatOn(plan.old, DOMAIN plan.old)
          BY <3>2, TableSpend DEF TInv
        <4>2. NatOn(plan.new, DOMAIN plan.new)
          BY <3>2, <4>1 DEF NatOn
        <4>3. QED
          BY <4>1, <4>2, TotalType
      <3>4. SumOver(U, Ids) + (Total(plan.old) - Total(plan.new)) <= CostOf(records') + taken'
        BY <1>2, <1>3, <3>1, <3>3
      <3>5. QED
        BY <1>2, <1>10, <3>1, <3>2, <3>4
    <2>2. CASE Changed(plan.old, plan.new) \cap gone # {}
      <3>1. UNCHANGED <<rows, seen, records, taken, plan>>
        BY <1>12, <2>2 DEF SyncCommit, request
      <3>2. Charges(U)'
        BY <1>2, <3>1 DEF Charges, Ids, CostOf
      <3>3. QED
        BY <3>2 DEF ChargeInv
    <2>3. QED
      BY <2>1, <2>2
  <1>13. QED
    BY <1>5, <1>6, <1>7, <1>8, <1>9, <1>11, <1>12, StepKinds

-----------------------------------------------------------------------------
(* A single row, whose reconciliation takes what no other row has paid.    *)

\* n is left of the first row, or more, when it paid for no more than R.
Explained(n, R) == rows[1].amount - n <= CostOf(R)

SingleInv ==
  /\ Len(rows) >= 1 /\ rows[1].older = {}
  /\ Len(rows) = 1 /\ ~behind =>
       /\ Explained(rows[1].remaining, records)
       /\ \A r \in Requests \ records : 1 \in DOMAIN seen[r] => Explained(seen[r][1], records)
       /\ 1 \in DOMAIN plan.new /\ lead = "commit" => Explained(plan.new[1], records)
       /\ synced # None => Explained(synced, counted)
       /\ lead = "commit" /\ plan.usage # None => Explained(plan.usage, mark)

\* The total of one row.
LEMMA OneRow ==
  ASSUME NEW f, DOMAIN f = {1}, f[1] \in Nat
  PROVE  Total(f) = f[1]
  <1>1. NatOn(f, {1})
    BY FS_Singleton DEF NatOn
  <1>2. SumOver(f, {1}) = f[1] + SumOver(f, {1} \ {1})
    BY <1>1, SumRemove
  <1>3. {1} \ {1} = {} /\ SumOver(f, {}) = 0
    BY SumEmpty
  <1>4. QED
    BY <1>2, <1>3, TotalSum

\* The reconciliation of one row takes what the records it counts cost.
LEMMA SingleRead ==
  ASSUME TInv, SingleInv, Len(rows) = 1, ~behind, records = mark, SyncRead
  PROVE  /\ 1 \in DOMAIN plan'.new => Explained(plan'.new[1], records)
         /\ plan'.usage # None => Explained(plan'.usage, mark)
  <1> DEFINE expected == Pos(synced - CostOf(mark \ counted))
             spent == [i \in DOMAIN Left |-> IF Recomputed(i) < Left[i] THEN Recomputed(i) ELSE Left[i]]
             c == Pos(Total(Left) - expected)
  <1>1. plan' = IF Left = << >> THEN [old |-> Left, new |-> Left, usage |-> synced]
                ELSE IF ~Incremental THEN [old |-> Left, new |-> spent, usage |-> Total(spent)]
                ELSE [old |-> Left, new |-> Spend(Left, c), usage |-> expected]
    BY DEF SyncRead
  <1>2. /\ TypeOK /\ counted \in SUBSET mark /\ mark \in SUBSET Requests /\ counted \in SUBSET Requests
        /\ synced \in Nat \cup {None}
    BY DEF TInv, TypeOK, WorkInv
  <1>3. /\ Ids = {1} /\ rows[1].amount \in Nat /\ rows[1].remaining \in Nat
        /\ Table(Left, rows) /\ DOMAIN Left \subseteq {1}
        /\ 1 \in DOMAIN Left => Left[1] = rows[1].remaining
    BY <1>2, RowFacts, LeftTable
  <1>4. /\ CostOf(mark) \in Nat /\ CostOf(counted) \in Nat /\ CostOf(mark \ counted) \in Nat
        /\ CostOf(mark) = CostOf(counted) + CostOf(mark \ counted)
    <2>1. mark \ counted \in SUBSET Requests
      BY <1>2
    <2>2. QED
      BY <1>2, <2>1, CostType, CostParts
  <1>5. /\ rows[1].older = {} /\ rows[1].amount - rows[1].remaining <= CostOf(mark)
        /\ synced # None => rows[1].amount - synced <= CostOf(counted)
    BY DEF SingleInv, Explained
  <1>6. CASE Left = << >>
    <2>1. plan'.new = Left /\ plan'.usage = synced /\ DOMAIN Left = {}
      BY <1>1, <1>6
    <2>2. synced # None => rows[1].amount - synced <= CostOf(mark)
      BY <1>2, <1>3, <1>4, <1>5
    <2> HIDE DEF Left
    <2>3. QED
      BY <2>1, <2>2 DEF Explained
  <1>7. CASE Left # << >>
    <2> HIDE DEF spent, c, expected
    <2>1. DOMAIN Left = {1} /\ Left[1] \in Nat
      <3>1. DOMAIN Left # {}
        <4>1. Left = [i \in DOMAIN Left |-> Left[i]]
          BY DEF Left
        <4> HIDE DEF Left
        <4>2. QED
          BY <1>7, <4>1, EmptyFunction
      <3>2. QED
        BY <1>3, <3>1 DEF Table
    <2>2. CASE ~Incremental
      <3>1. plan'.new = spent /\ plan'.usage = Total(spent)
        BY <1>1, <1>7, <2>2
      <3>2. Recomputed(1) = Pos(rows[1].amount - CostOf(mark))
        <4>1. Carried[1 - 1] = 0
          BY <1>2, CarriedType
        <4>2. UsedSince(1) = CostOf(mark)
          BY <1>5 DEF UsedSince
        <4>3. QED
          BY <1>3, <1>4, <4>1, <4>2 DEF Recomputed
      <3>3. DOMAIN spent = {1} /\ spent[1] = IF Recomputed(1) < Left[1] THEN Recomputed(1) ELSE Left[1]
        BY <2>1 DEF spent
      <3>4. spent[1] \in Nat /\ rows[1].amount - spent[1] <= CostOf(mark)
        BY <1>3, <1>4, <1>5, <2>1, <3>2, <3>3 DEF Pos
      <3>5. Total(spent) = spent[1]
        BY <3>3, <3>4, OneRow
      <3>6. QED
        BY <3>1, <3>4, <3>5 DEF Explained
    <2>3. CASE Incremental
      <3>1. plan'.new = Spend(Left, c) /\ plan'.usage = expected
        BY <1>1, <1>7, <2>3
      <3>2. expected \in Nat /\ rows[1].amount - expected <= CostOf(mark)
        <4>1. synced \in Nat /\ rows[1].amount - synced <= CostOf(counted)
          BY <1>2, <1>5, <2>3 DEF Incremental
        <4>2. QED
          BY <1>3, <1>4, <4>1 DEF expected, Pos
      <3>3. Total(Left) = Left[1]
        BY <2>1, OneRow
      <3>4. c \in Nat /\ c = Pos(Left[1] - expected)
        BY <2>1, <3>2, <3>3 DEF c, Pos
      <3>5. /\ DOMAIN Spend(Left, c) = {1} /\ Spend(Left, c)[1] \in Nat
            /\ Total(Spend(Left, c)) = Pos(Left[1] - c)
        BY <1>2, <1>3, <2>1, <3>3, <3>4, TableSpend
      <3>6. Spend(Left, c)[1] = Pos(Left[1] - c)
        BY <3>5, OneRow
      <3>7. rows[1].amount - Spend(Left, c)[1] <= CostOf(mark)
        BY <1>3, <1>4, <1>5, <2>1, <3>2, <3>4, <3>6 DEF Pos
      <3> HIDE DEF Left
      <3>8. QED
        BY <3>1, <3>2, <3>7 DEF Explained
    <2>4. QED
      BY <2>2, <2>3
  <1>8. QED
    BY <1>6, <1>7

\* While there is one row, requests and cycles together take what records cost.
LEMMA SingleStep == ASSUME TInv, TInv', SingleInv, [Next]_vars PROVE SingleInv'
  <1>1. /\ TypeOK /\ Len(rows) \in Nat /\ Len(rows) >= 1 /\ 1 \in Ids /\ rows[1].older = {}
        /\ rows[1].amount \in Nat /\ rows[1].remaining \in Nat /\ Ids = 1..Len(rows)
    BY RowFacts DEF TInv, SingleInv
  <1>2. CASE UNCHANGED <<rows, seen, records, leader>>
    BY <1>2 DEF SingleInv, Explained, CostOf, leader
  <1>3. CASE SyncStart
    BY <1>3 DEF SyncStart, SingleInv, Explained, CostOf, books, request
  <1>4. CASE \E r \in Requests : ReadRows(r)
    <2>1. PICK r \in Requests : ReadRows(r)
      BY <1>4
    <2>2. seen' = [seen EXCEPT ![r] = Left] /\ UNCHANGED <<rows, records, leader>>
      BY <2>1 DEF ReadRows, books
    <2>3. 1 \in DOMAIN Left => Left[1] = rows[1].remaining
      BY <1>1, LeftTable
    <2> HIDE DEF Left
    <2>4. ASSUME Len(rows) = 1, ~behind, NEW q \in Requests \ records, 1 \in DOMAIN seen'[q]
          PROVE  rows[1].amount - seen'[q][1] <= CostOf(records)
      <3>1. CASE q = r
        BY <2>2, <2>3, <2>4, <3>1 DEF SingleInv, Explained, TInv, WorkInv
      <3>2. CASE q # r
        BY <2>2, <2>4, <3>2 DEF SingleInv, Explained
      <3>3. QED
        BY <3>1, <3>2
    <2>5. CostOf(records)' = CostOf(records) /\ CostOf(counted)' = CostOf(counted) /\ CostOf(mark)' = CostOf(mark)
      BY <2>2 DEF CostOf, leader
    <2>6. QED
      BY <2>2, <2>4, <2>5 DEF SingleInv, Explained, leader
  <1>5. CASE SyncRead
    <2>1. /\ UNCHANGED <<rows, seen, records, synced, counted, mark>>
          /\ behind' = (behind \/ records # mark)
      BY <1>5 DEF SyncRead, books, request
    <2>2. ASSUME Len(rows) = 1, ~behind'
          PROVE  /\ 1 \in DOMAIN plan'.new => Explained(plan'.new[1], records)
                 /\ plan'.usage # None => Explained(plan'.usage, mark)
      BY <1>5, <2>1, <2>2, SingleRead
    <2>3. QED
      BY <2>1, <2>2 DEF SingleInv, Explained, CostOf
  <1>6. ASSUME NEW n \in Nat, rows' = Append(rows, Row(n)) PROVE SingleInv'
    <2>1. Len(rows') = Len(rows) + 1 /\ rows'[1] = rows[1]
      BY <1>1, <1>6, NewRow
    <2>2. Len(rows') >= 1 /\ Len(rows') # 1
      BY <1>1, <2>1
    <2>3. QED
      BY <1>1, <2>1, <2>2 DEF SingleInv
  <1>7. CASE \E r \in Requests : Commit(r)
    <2>1. PICK r \in Requests : Commit(r)
      BY <1>7
    <2> DEFINE old == seen[r]
               new == Spend(seen[r], Cost[r])
    <2>2. CASE Changed(seen[r], new) \cap gone = {}
      <3>1. /\ rows' = Written(old, new) /\ records' = records \cup {r} /\ r \notin records
            /\ UNCHANGED <<seen, leader>>
        BY <2>1, <2>2 DEF Commit, TInv, WorkInv
      <3>2. Cost[r] \in Nat /\ Table(old, rows)
        BY BudgetAssumption DEF TInv, WorkInv
      <3>3. /\ DOMAIN new = DOMAIN old
            /\ \A i \in DOMAIN old : new[i] \in Nat /\ new[i] <= old[i] /\ old[i] \in Nat
            /\ Total(new) = Pos(Total(old) - Cost[r])
        BY <1>1, <3>2, TableSpend DEF Table
      <3>4. CostOf(records') = CostOf(records) + Cost[r] /\ CostOf(records) \in Nat
        BY <3>1, CostAdd, CostType DEF TInv, TypeOK
      <3>a. CostOf(records)' = CostOf(records')
        BY DEF CostOf
      <3> HIDE DEF new
      <3>5. /\ Len(rows') = Len(rows) /\ rows'[1].older = {} /\ rows'[1].amount = rows[1].amount
            /\ rows'[1].remaining = IF 1 \in Changed(old, new) THEN new[1] ELSE rows[1].remaining
        BY <1>1, <3>1, <3>2, <3>3, WrittenRows
      <3>6. ASSUME Len(rows) = 1, 1 \in DOMAIN old PROVE new[1] = Pos(old[1] - Cost[r])
        <4>1. DOMAIN old = {1}
          BY <1>1, <3>2, <3>6 DEF Table, Ids
        <4> HIDE DEF old
        <4>2. Total(old) = old[1] /\ Total(new) = new[1]
          BY <3>3, <4>1, OneRow
        <4>3. QED
          BY <3>3, <4>2
      <3>7. ASSUME Len(rows) = 1, ~behind
            PROVE  rows[1].amount - rows'[1].remaining <= CostOf(records) + Cost[r]
        <4>1. /\ rows[1].amount - rows[1].remaining <= CostOf(records)
              /\ 1 \in DOMAIN old => rows[1].amount - old[1] <= CostOf(records)
          BY <3>1, <3>7 DEF SingleInv, Explained
        <4>2. CASE 1 \in Changed(old, new)
          <5>1. 1 \in DOMAIN old
            BY <4>2 DEF Changed
          <5>2. new[1] = Pos(old[1] - Cost[r]) /\ old[1] \in Nat
            BY <3>3, <3>6, <3>7, <5>1
          <5>3. rows'[1].remaining = new[1]
            BY <3>5, <4>2
          <5> HIDE DEF old
          <5>4. QED
            BY <1>1, <3>2, <3>4, <4>1, <5>1, <5>2, <5>3 DEF Pos
        <4>3. CASE 1 \notin Changed(old, new)
          <5>1. rows'[1].remaining = rows[1].remaining
            BY <3>5, <4>3
          <5>2. QED
            BY <1>1, <3>2, <3>4, <4>1, <5>1
        <4>4. QED
          BY <4>2, <4>3
      <3>8. ASSUME Len(rows) = 1, ~behind, NEW n \in Nat, rows[1].amount - n <= CostOf(records)
            PROVE  rows[1].amount - n <= CostOf(records) + Cost[r]
        BY <1>1, <3>2, <3>4, <3>8
      <3>9. ASSUME Len(rows) = 1, ~behind, NEW q \in Requests \ records, 1 \in DOMAIN seen[q]
            PROVE  rows[1].amount - seen[q][1] <= CostOf(records) + Cost[r]
        <4>1. seen[q][1] \in Nat
          BY <3>9 DEF TInv, WorkInv, Table
        <4>2. rows[1].amount - seen[q][1] <= CostOf(records)
          BY <3>9 DEF SingleInv, Explained
        <4>3. QED
          BY <3>8, <3>9, <4>1, <4>2
      <3>10. ASSUME Len(rows) = 1, ~behind, 1 \in DOMAIN plan.new, lead = "commit"
             PROVE  rows[1].amount - plan.new[1] <= CostOf(records) + Cost[r]
        <4>1. plan.new[1] \in Nat
          BY <3>10 DEF TInv, WorkInv
        <4>2. rows[1].amount - plan.new[1] <= CostOf(records)
          BY <3>10 DEF SingleInv, Explained
        <4>3. QED
          BY <3>8, <3>10, <4>1, <4>2
      <3>11. QED
        BY <1>1, <3>1, <3>4, <3>a, <3>5, <3>7, <3>9, <3>10 DEF SingleInv, Explained, CostOf, leader
    <2>3. CASE Changed(seen[r], new) \cap gone # {}
      <3>1. UNCHANGED <<rows, seen, records, leader>>
        BY <2>1, <2>3 DEF Commit
      <3>2. QED
        BY <1>2, <3>1
    <2>4. QED
      BY <2>2, <2>3
  <1>8. CASE SyncCommit
    <2>1. /\ UNCHANGED <<seen, records, mark, plan, behind>> /\ lead = "commit" /\ lead' = "idle"
      BY <1>8 DEF SyncCommit, request
    <2>2. CASE Changed(plan.old, plan.new) \cap gone = {}
      <3>1. rows' = Written(plan.old, plan.new) /\ synced' = plan.usage /\ counted' = mark
        BY <1>8, <2>2 DEF SyncCommit
      <3>2. /\ Table(plan.old, rows) /\ DOMAIN plan.new = DOMAIN plan.old
            /\ \A i \in DOMAIN plan.old : plan.new[i] \in Nat /\ plan.new[i] <= plan.old[i]
        BY DEF TInv, WorkInv
      <3>3. /\ Len(rows') = Len(rows) /\ rows'[1].older = {} /\ rows'[1].amount = rows[1].amount
            /\ rows'[1].remaining = IF 1 \in Changed(plan.old, plan.new) THEN plan.new[1]
                                    ELSE rows[1].remaining
        BY <1>1, <3>1, <3>2, WrittenRows
      <3>4. 1 \in Changed(plan.old, plan.new) => 1 \in DOMAIN plan.new
        BY <3>2 DEF Changed
      <3>5. QED
        BY <1>1, <2>1, <3>1, <3>3, <3>4 DEF SingleInv, Explained, CostOf
    <2>3. CASE Changed(plan.old, plan.new) \cap gone # {}
      <3>1. UNCHANGED <<rows, synced, counted>>
        BY <1>8, <2>3 DEF SyncCommit
      <3>2. QED
        BY <2>1, <3>1 DEF SingleInv, Explained, CostOf
    <2>4. QED
      BY <2>2, <2>3
  <1>9. QED
    BY <1>2, <1>3, <1>4, <1>5, <1>6, <1>7, <1>8, StepKinds

\* ChargeInv and SingleInv are inductive.
THEOREM ChargeInduction == Spec => [](ChargeInv /\ SingleInv)
  <1>1. Init => ChargeInv /\ SingleInv
    <2> SUFFICES ASSUME Init PROVE ChargeInv /\ SingleInv
      OBVIOUS
    <2>1. /\ rows = <<[amount |-> Initial, remaining |-> Initial, older |-> {}]>>
          /\ records = {} /\ taken = 0 /\ synced = None /\ lead = "idle"
          /\ \A r \in Requests : DOMAIN seen[r] = {}
          /\ DOMAIN plan.old = {}
          /\ Initial \in Nat
      BY BudgetAssumption DEF Init
    <2>2. /\ Ids = {1} /\ Len(rows) = 1 /\ rows[1].amount = Initial /\ rows[1].remaining = Initial
          /\ rows[1].older = {}
      BY <2>1 DEF Ids
    <2>3. CostOf(records) \in Nat
      BY <2>1, CostType
    <2>4. PICK U \in [{1} -> Nat] : U[1] = 0
      <3>1. [i \in {1} |-> 0] \in [{1} -> Nat] /\ [i \in {1} |-> 0][1] = 0
        OBVIOUS
      <3>2. QED
        BY <3>1
    <2>5. SumOver(U, {1}) = 0
      <3>1. Total(U) = 0 /\ DOMAIN U = {1}
        BY <2>4, OneRow
      <3>2. QED
        BY <3>1, TotalSum
    <2>6. Charges(U)
      <3>1. SumOver(U, Ids) <= CostOf(records) + taken
        BY <2>1, <2>2, <2>3, <2>5
      <3>2. rows[1].amount - rows[1].remaining <= U[1]
        BY <2>1, <2>2, <2>4
      <3>3. QED
        BY <2>1, <2>2, <2>4, <3>1, <3>2 DEF Charges, Shown
    <2>7. SingleInv
      <3>1. Explained(rows[1].remaining, records)
        BY <2>1, <2>2, <2>3 DEF Explained
      <3>2. QED
        BY <2>1, <2>2, <3>1 DEF SingleInv
    <2>8. QED
      BY <2>6, <2>7 DEF ChargeInv
  <1>2. TInv /\ TInv' /\ ChargeInv /\ SingleInv /\ [Next]_vars => ChargeInv' /\ SingleInv'
    BY ChargeStep, SingleStep
  <1>3. QED
    BY <1>1, <1>2, TypeInduction, PTL DEF Spec

\* However the transactions of requests and of the leader overwrite each other, the
\* rows pay for no more than the committed records cost and the cycles took, and
\* while there is one row for no more than the records.
THEOREM NoCostChargedTwice == Spec => []ChargedOnce
  <1>1. TInv /\ ChargeInv /\ SingleInv => ChargedOnce
    <2> SUFFICES ASSUME TInv, ChargeInv, SingleInv PROVE ChargedOnce
      OBVIOUS
    <2> DEFINE used == [i \in Ids |-> rows[i].amount - rows[i].remaining]
    <2>1. PICK U : Charges(U)
      BY DEF ChargeInv
    <2>2. /\ U \in [Ids -> Nat] /\ SumOver(U, Ids) <= CostOf(records) + taken
          /\ \A i \in Ids : used[i] <= U[i]
      BY <2>1 DEF Charges
    <2>3. IsFiniteSet(Ids) /\ \A i \in Ids : used[i] \in Nat
      BY RowFacts DEF TInv
    <2>a. DOMAIN used = Ids /\ Consumed = Total(used)
      BY DEF Consumed
    <2>b. used[1] = rows[1].amount - rows[1].remaining /\ 1 \in Ids /\ Ids = 1..Len(rows) /\ Len(rows) \in Nat
      BY RowFacts DEF TInv, SingleInv
    <2> HIDE DEF used
    <2>4. NatOn(used, Ids) /\ NatOn(U, Ids)
      BY <2>2, <2>3 DEF NatOn
    <2>5. Consumed = SumOver(used, Ids)
      BY <2>a, TotalSum
    <2>6. SumOver(used, Ids) <= SumOver(U, Ids) /\ SumOver(used, Ids) \in Nat /\ SumOver(U, Ids) \in Nat
      BY <2>2, <2>4, SumLeq, SumType
    <2>7. CostOf(records) \in Nat /\ taken \in Nat
      BY CostType DEF TInv, TypeOK
    <2>8. CASE Len(rows) = 1 /\ ~behind
      <3>1. Ids = {1} /\ used[1] <= CostOf(records)
        BY <2>8, <2>b DEF SingleInv, Explained
      <3>2. Consumed = used[1]
        BY <2>3, <2>a, <3>1, OneRow
      <3>3. QED
        BY <2>7, <2>8, <3>1, <3>2 DEF ChargedOnce
    <2>9. CASE ~(Len(rows) = 1 /\ ~behind)
      BY <2>2, <2>5, <2>6, <2>7, <2>9 DEF ChargedOnce
    <2>10. QED
      BY <2>8, <2>9
  <1>2. QED
    BY <1>1, TypeInduction, ChargeInduction, PTL

-----------------------------------------------------------------------------
(* Agreement of the three copies.                                          *)

\* What is left in rows t of those not in g.
LeftOf(t, g) == [i \in {j \in DOMAIN t \ g : t[j].remaining > 0} |-> t[i].remaining]
Remainings(t) == [i \in DOMAIN t |-> t[i].remaining]

\* The actors between their first and their last write, who have changed one copy
\* and not yet another: the cached value before the commit, or the row before the
\* cache.
Writers == {r \in stamped : pc[r] = "commit"}
             \cup {a \in Admins : op[a] \in {"refresh", "cache", "top_up"}}

\* A cached value c shows n; it may be in debt.
Agree(c, n) == c # None => Pos(c) = n

Taking(r) == r \in stamped /\ pc[r] \in {"take", "load", "fill", "again", "commit"}

\* What a request holds is what is there.
RequestCurrent(r) ==
  /\ pc[r] \in {"auth_fill", "populate", "fill"} => val[r] = total
  /\ pc[r] = "rows" => read[r] = total
  /\ Taking(r) => read[r] = total /\ seen[r] = Left
  /\ Taking(r) /\ pc[r] = "commit" => Agree(cached, Pos(total - Cost[r]))

\* So is what an operator holds; what a refill read of the cache is what the sum is
\* unless a request had already decremented it.
AdminCurrent(a) ==
  /\ op[a] \in {"add", "delete", "refill", "reload", "reloaded", "top_up", "cache"} => avail[a] = total
  /\ op[a] = "reload" => arem[a] = total
  /\ op[a] \in {"reloaded", "top_up"} /\ Writers \subseteq {a} => Pos(arem[a]) = total
  /\ op[a] = "top_up" => cached \in {None, Target}

Serial ==
  /\ total = Total(Left)
  /\ \A x, y \in Writers : x = y
  /\ Writers = {} => Agree(cached, total)
  /\ \A r \in Requests : RequestCurrent(r)
  /\ \A a \in Admins : AdminCurrent(a)

SerialInv == ~loose /\ taken = 0 /\ faults = 0 => Serial

\* What is left sums to the remainders of the rows not deleted.
LEMMA LeftOfSum ==
  ASSUME NEW t \in Seq(RowType), NEW g
  PROVE  /\ NatOn(Remainings(t), DOMAIN t) /\ NatOn(Remainings(t), DOMAIN t \ g)
         /\ Total(LeftOf(t, g)) = SumOver(Remainings(t), DOMAIN t \ g)
  <1> DEFINE f == LeftOf(t, g)
             h == Remainings(t)
             D == DOMAIN t \ g
  <1>1. /\ DOMAIN f = {j \in D : h[j] > 0} /\ \A i \in DOMAIN f : f[i] = h[i]
        /\ \A i \in DOMAIN t : h[i] \in Nat
    <2>1. \A i \in DOMAIN t : t[i].remaining \in Nat /\ h[i] = t[i].remaining
      <3>1. \A i \in DOMAIN t : t[i] \in RowType
        OBVIOUS
      <3>2. QED
        BY <3>1 DEF Remainings, RowType
    <2>2. DOMAIN f = {j \in D : t[j].remaining > 0} /\ \A i \in DOMAIN f : f[i] = t[i].remaining
      BY DEF LeftOf
    <2> HIDE DEF f, h
    <2>3. QED
      BY <2>1, <2>2
  <1>2. IsFiniteSet(DOMAIN t)
    <2>1. DOMAIN t = 1..Len(t) /\ Len(t) \in Nat
      OBVIOUS
    <2>2. QED
      BY <2>1, FS_Interval
  <1> HIDE DEF f, h
  <1>3. NatOn(h, DOMAIN t) /\ NatOn(h, D) /\ NatOn(h, DOMAIN f)
    BY <1>1, <1>2, FS_Subset DEF NatOn
  <1>4. SumOver(h, D) = SumOver(h, DOMAIN f)
    BY <1>1, <1>3, SumNonzero
  <1>5. SumOver(f, DOMAIN f) = SumOver(h, DOMAIN f)
    BY <1>1, <1>3, SumEqual
  <1>6. Total(f) = SumOver(f, DOMAIN f)
    BY TotalSum
  <1>7. QED
    BY <1>3, <1>4, <1>5, <1>6 DEF f, h

\* Left is LeftOf the rows, before and after a step.
LEMMA LeftIs ==
  /\ Left = LeftOf(rows, gone) /\ Left' = LeftOf(rows', gone')
  /\ Total(Left)' = Total(LeftOf(rows', gone'))
  <1>1. Left = LeftOf(rows, gone) /\ Left' = LeftOf(rows', gone')
    BY DEF Left, LeftOf, Ids
  <1>2. Total(Left)' = Total(Left')
    OBVIOUS
  <1>3. QED
    BY <1>1, <1>2

\* A new row adds what it has.
LEMMA LeftAppend ==
  ASSUME TInv, NEW n \in Nat, rows' = Append(rows, Row(n)), gone' = gone
  PROVE  Total(Left)' = Total(Left) + n
  <1> DEFINE k == Len(rows) + 1
             h == Remainings(rows)
             h1 == Remainings(rows')
             D == Ids \ gone
  <1>1. /\ rows \in Seq(RowType) /\ rows' \in Seq(RowType) /\ gone \subseteq Ids
        /\ DOMAIN rows' = Ids \cup {k} /\ k \notin Ids
        /\ \A i \in Ids : rows'[i] = rows[i]
        /\ rows'[k] = Row(n)
    BY NewRow DEF TInv, TypeOK, RowType, Ids
  <1>2. /\ Total(Left) = SumOver(h, D) /\ Total(Left)' = SumOver(h1, DOMAIN rows' \ gone)
        /\ NatOn(h, D) /\ NatOn(h1, DOMAIN rows' \ gone)
    BY <1>1, LeftIs, LeftOfSum DEF Ids
  <1>3. DOMAIN rows' \ gone = D \cup {k} /\ k \notin D
    BY <1>1
  <1>4. h1[k] = n /\ \A i \in D : h1[i] = h[i]
    BY <1>1 DEF Remainings, Row, Ids
  <1> HIDE DEF h, h1, D, k
  <1>5. SumOver(h1, D \cup {k}) = h1[k] + SumOver(h1, D)
    BY <1>2, <1>3, SumAdd
  <1>6. SumOver(h1, D) = SumOver(h, D) /\ SumOver(h, D) \in Nat
    BY <1>2, <1>4, SumEqual, SumType
  <1>7. SumOver(h1, DOMAIN rows' \ gone) = SumOver(h1, D \cup {k})
    BY <1>3
  <1>8. QED
    BY <1>2, <1>4, <1>5, <1>6, <1>7

\* A deleted row takes what it had.
LEMMA LeftDelete ==
  ASSUME TInv, NEW i \in Ids \ gone, rows' = rows, gone' = gone \cup {i}
  PROVE  Total(Left)' \in Nat /\ Total(Left) = rows[i].remaining + Total(Left)'
  <1> DEFINE h == Remainings(rows)
             D == Ids \ gone
  <1>1. rows \in Seq(RowType)
    BY DEF TInv, TypeOK, RowType
  <1>2. /\ Total(Left) = SumOver(h, D) /\ NatOn(h, D)
        /\ Total(Left)' = SumOver(h, Ids \ gone') /\ NatOn(h, Ids \ gone')
    BY <1>1, LeftIs, LeftOfSum DEF Ids
  <1>3. Ids \ gone' = D \ {i} /\ h[i] = rows[i].remaining
    BY DEF Remainings, Ids
  <1> HIDE DEF h, D
  <1>4. SumOver(h, D) = h[i] + SumOver(h, D \ {i})
    BY <1>2, SumRemove DEF D
  <1>5. SumOver(h, D \ {i}) \in Nat
    BY <1>2, <1>3, SumType
  <1>6. QED
    BY <1>2, <1>3, <1>4, <1>5

\* Writing new for what is left leaves new.
LEMMA LeftWritten ==
  ASSUME TInv, NEW new, DOMAIN new = DOMAIN Left,
         \A i \in DOMAIN Left : new[i] \in Nat /\ new[i] <= Left[i],
         rows' = Written(Left, new), gone' = gone
  PROVE  Total(Left)' = Total(new)
  <1> DEFINE h == Remainings(rows')
             D == DOMAIN Left
             E == Ids \ gone
  <1>1. /\ TypeOK /\ Table(Left, rows) /\ D \subseteq E
        /\ \A i \in D : Left[i] = rows[i].remaining
        /\ \A i \in E : i \notin D => rows[i].remaining = 0
    BY LeftTable DEF TInv
  <1>2. /\ rows' \in Seq(RowType) /\ DOMAIN rows' = Ids
        /\ \A i \in Ids : rows'[i].remaining = IF i \in Changed(Left, new) THEN new[i] ELSE rows[i].remaining
    BY <1>1, WrittenRows
  <1>3. \A i \in E : h[i] = IF i \in D THEN new[i] ELSE 0
    BY <1>1, <1>2 DEF Remainings, Changed
  <1>4. Total(Left)' = SumOver(h, E) /\ NatOn(h, E)
    BY <1>2, LeftIs, LeftOfSum
  <1> HIDE DEF h, D, E
  <1>5. SumOver(h, E) = SumOver(h, D)
    BY <1>1, <1>3, <1>4, SumNonzero
  <1>6. NatOn(new, D) /\ \A i \in D : h[i] = new[i]
    BY <1>1, <1>3, <1>4, FS_Subset DEF NatOn, D
  <1>7. SumOver(h, D) = SumOver(new, D)
    BY <1>6, SumEqual
  <1>8. Total(new) = SumOver(new, D)
    BY TotalSum DEF D
  <1>9. QED
    BY <1>4, <1>5, <1>7, <1>8

\* Only a holder can be a writer.
LEMMA WritersHold == TypeOK => Writers \subseteq Holding
  BY DEF Writers, Holding, TypeOK

\* A cached sum shows the sum.
LEMMA AgreeSelf == ASSUME NEW n \in Nat PROVE Agree(n, n) /\ Pos(n) = n
  BY DEF Agree, Pos

\* A request that reads leaves the agreement as it is.
LEMMA QuietRequest ==
  ASSUME Serial, NEW r \in Requests, UNCHANGED <<books, cached, admin>>, Writers' = Writers,
         \A q \in Requests \ {r} :
           /\ pc'[q] = pc[q] /\ val'[q] = val[q] /\ read'[q] = read[q] /\ seen'[q] = seen[q]
           /\ q \in stamped' <=> q \in stamped,
         RequestCurrent(r)'
  PROVE  Serial'
  <1>1. Left' = Left /\ Total(Left)' = Total(Left) /\ total' = total /\ cached' = cached
    BY DEF Left, Ids, books
  <1>2. \A q \in Requests \ {r} : RequestCurrent(q)'
    BY <1>1 DEF Serial, RequestCurrent, Taking, Agree
  <1>3. \A a \in Admins : AdminCurrent(a)'
    BY <1>1 DEF Serial, AdminCurrent, admin
  <1>4. QED
    BY <1>1, <1>2, <1>3 DEF Serial, Agree

\* So does an operator.
LEMMA QuietAdmin ==
  ASSUME Serial, NEW a \in Admins, UNCHANGED <<books, cached, request>>, Writers' = Writers,
         \A b \in Admins \ {a} : op'[b] = op[b] /\ avail'[b] = avail[b] /\ arem'[b] = arem[b],
         AdminCurrent(a)'
  PROVE  Serial'
  <1>1. Left' = Left /\ Total(Left)' = Total(Left) /\ total' = total /\ cached' = cached
    BY DEF Left, Ids, books
  <1>2. \A q \in Requests : RequestCurrent(q)'
    BY <1>1 DEF Serial, RequestCurrent, Taking, Agree, request
  <1>3. \A b \in Admins : AdminCurrent(b)'
    BY <1>1 DEF Serial, AdminCurrent
  <1>4. QED
    BY <1>1, <1>2, <1>3 DEF Serial, Agree

\* A request that writes while nobody else holds a value need only agree with itself.
LEMMA AloneRequest ==
  ASSUME TInv, TInv', NEW r \in Requests, Holding \ {r} = {}, UNCHANGED op,
         \A q \in Requests \ {r} : pc'[q] = pc[q],
         stamped' \subseteq stamped \cup {r},
         total' = Total(Left)', Writers' = {} => Agree(cached', total'), RequestCurrent(r)'
  PROVE  Serial'
  <1>1. \A q \in Requests \ {r} :
          pc[q] \notin {"auth_fill", "populate", "rows", "take", "load", "fill", "again", "commit"}
    BY DEF Holding
  <1>2. \A a \in Admins : op[a] \in {"idle", "done"}
    BY BudgetAssumption DEF Holding
  <1>3. \A q \in Requests \ {r} : RequestCurrent(q)'
    BY <1>1 DEF RequestCurrent, Taking
  <1>4. \A a \in Admins : AdminCurrent(a)'
    BY <1>2 DEF AdminCurrent
  <1>5. Writers' \subseteq {r}
    BY <1>1, <1>2 DEF Writers, TInv, TypeOK
  <1>6. QED
    BY <1>3, <1>4, <1>5 DEF Serial, Agree

\* So does an operator.
LEMMA AloneAdmin ==
  ASSUME TInv, TInv', NEW a \in Admins, Holding \ {a} = {}, UNCHANGED <<pc, stamped>>,
         \A b \in Admins \ {a} : op'[b] = op[b],
         total' = Total(Left)', Writers' = {} => Agree(cached', total'), AdminCurrent(a)'
  PROVE  Serial'
  <1>1. \A q \in Requests :
          pc[q] \notin {"auth_fill", "populate", "rows", "take", "load", "fill", "again", "commit"}
    BY BudgetAssumption DEF Holding
  <1>2. \A b \in Admins \ {a} : op[b] \in {"idle", "done"}
    BY DEF Holding
  <1>3. \A q \in Requests : RequestCurrent(q)'
    BY <1>1 DEF RequestCurrent, Taking
  <1>4. \A b \in Admins \ {a} : AdminCurrent(b)'
    BY <1>2 DEF AdminCurrent
  <1>5. Writers' \subseteq {a}
    BY <1>1, <1>2 DEF Writers, TInv, TypeOK
  <1>6. QED
    BY <1>3, <1>4, <1>5 DEF Serial, Agree

\* The steps of a request that write nothing.
LEMMA SerialRequestReads ==
  ASSUME TInv, TInv', Serial, NEW r \in Requests,
         \/ Admit(r) \/ Remaining(r) \/ Load(r) \/ Lookup(r) \/ Answer(r) \/ Info(r)
         \/ ReadKey(r) \/ ReadRows(r)
  PROVE  Serial'
  <1> USE DEF Goto
  <1>1. UNCHANGED <<books, cached, admin>>
    BY DEF Admit, Remaining, Load, Lookup, Answer, Info, ReadKey, ReadRows
  <1>2. \A q \in Requests \ {r} :
          /\ pc'[q] = pc[q] /\ val'[q] = val[q] /\ read'[q] = read[q] /\ seen'[q] = seen[q]
          /\ q \in stamped' <=> q \in stamped
    <2>1. CASE Remaining(r)
      <3>1. PICK w : pc' = [pc EXCEPT ![r] = w]
        BY <2>1 DEF Remaining, Decide
      <3>2. UNCHANGED <<val, read, seen, stamped>>
        BY <2>1 DEF Remaining
      <3>3. QED
        BY <3>1, <3>2 DEF TInv, TypeOK
    <2>2. CASE ReadRows(r)
      <3>1. /\ pc' = [pc EXCEPT ![r] = "take"] /\ seen' = [seen EXCEPT ![r] = Left]
            /\ UNCHANGED <<val, read, stamped>>
        BY <2>2 DEF ReadRows
      <3> HIDE DEF Left
      <3>2. QED
        BY <3>1 DEF TInv, TypeOK, WorkInv
    <2>3. CASE ~Remaining(r) /\ ~ReadRows(r)
      BY <2>3 DEF Admit, Load, Lookup, Answer, Info, ReadKey, TInv, TypeOK
    <2>4. QED
      BY <2>1, <2>2, <2>3
  <1>3. r \in stamped => pc[r] # "commit"
    BY DEF Admit, Remaining, Load, Lookup, Answer, Info, ReadKey, ReadRows
  <1>4. r \in stamped' => pc'[r] # "commit"
    <2>1. CASE Info(r)
      BY <2>1 DEF Info, TInv, WorkInv
    <2>2. CASE Remaining(r)
      BY <2>2 DEF Remaining, Decide, TInv, TypeOK
    <2>3. CASE Lookup(r)
      BY <2>3 DEF Lookup, TInv, TypeOK
    <2>4. QED
      BY <2>1, <2>2, <2>3 DEF Admit, Load, Answer, ReadKey, ReadRows, TInv, TypeOK
  <1>5. Writers' = Writers
    <2>1. \A q \in Requests : (q \in stamped' /\ pc'[q] = "commit") <=> (q \in stamped /\ pc[q] = "commit")
      BY <1>2, <1>3, <1>4
    <2>2. stamped \subseteq Requests /\ stamped' \subseteq Requests /\ op' = op
      BY <1>1 DEF TInv, TypeOK, admin
    <2>3. QED
      BY <2>1, <2>2 DEF Writers
  <1>6. Left' = Left /\ total' = total
    BY <1>1 DEF Left, Ids, books
  <1>7. RequestCurrent(r)'
    <2>1. RequestCurrent(r)
      BY DEF Serial
    <2>2. CASE Admit(r) \/ Remaining(r) \/ Answer(r) \/ Info(r)
      <3>1. /\ pc'[r] \in {"remaining", "lookup", "auth_load", "refused", "serving", "info", "key", "commit"}
        BY <2>2 DEF Admit, Remaining, Decide, Answer, Info, TInv, TypeOK
      <3>2. QED
        BY <1>4, <3>1 DEF RequestCurrent, Taking
    <2>3. CASE Load(r)
      <3>1. val'[r] = total /\ UNCHANGED <<read, seen, stamped>> /\ pc[r] \in {"auth_load", "load"}
        BY <2>3 DEF Load, TInv, TypeOK
      <3>2. pc'[r] = IF pc[r] = "load" THEN "fill" ELSE "auth_fill"
        BY <2>3 DEF Load, TInv, TypeOK
      <3>3. r \in stamped => pc[r] = "load"
        BY <3>1 DEF TInv, WorkInv
      <3> HIDE DEF Left
      <3>4. QED
        BY <1>6, <2>1, <3>1, <3>2, <3>3 DEF RequestCurrent, Taking
    <2>4. CASE Lookup(r)
      <3>1. val'[r] = total /\ pc'[r] \in {"refused", "populate"}
        BY <2>4 DEF Lookup, TInv, TypeOK
      <3>2. QED
        BY <1>6, <3>1 DEF RequestCurrent, Taking
    <2>5. CASE ReadKey(r)
      <3>1. read'[r] = total /\ pc'[r] = "rows"
        BY <2>5 DEF ReadKey, TInv, TypeOK
      <3>2. QED
        BY <1>6, <3>1 DEF RequestCurrent, Taking
    <2>6. CASE ReadRows(r)
      <3>1. seen'[r] = Left /\ read' = read /\ pc'[r] = "take" /\ pc[r] = "rows"
        BY <2>6 DEF ReadRows, TInv, TypeOK, WorkInv
      <3> HIDE DEF Left
      <3>2. QED
        BY <1>6, <2>1, <3>1 DEF RequestCurrent, Taking
    <2>7. QED
      BY <2>2, <2>3, <2>4, <2>5, <2>6
  <1>8. QED
    BY <1>1, <1>2, <1>5, <1>7, QuietRequest

\* The steps of a request that write, when nobody else holds a value.
LEMMA SerialRequestWrites ==
  ASSUME TInv, TInv', Serial, NEW r \in Requests, Holding \ {r} = {},
         Fill(r) \/ Populate(r) \/ Take(r)
  PROVE  Serial'
  <1> USE DEF Goto
  <1>1. UNCHANGED <<books, admin, read, seen, val, stamped>>
    BY DEF Fill, Populate, Take
  <1>2. \A q \in Requests \ {r} : pc'[q] = pc[q]
    BY DEF Fill, Decide, Populate, Take, TInv, TypeOK
  <1>3. Left' = Left /\ total' = total /\ total' = Total(Left)' /\ total \in Nat
    BY <1>1 DEF Left, Ids, books, Serial, TInv, TypeOK
  <1>4. RequestCurrent(r)
    BY DEF Serial
  <1>5. UNCHANGED op /\ stamped' \subseteq stamped \cup {r}
    BY <1>1 DEF admin
  <1> HIDE DEF Left
  <1>6. CASE Fill(r)
    <2>1. cached' = total /\ pc[r] \in {"auth_fill", "fill"}
      BY <1>4, <1>6 DEF Fill, RequestCurrent
    <2>2. pc'[r] \in {"again", "refused", "serving"} /\ (pc'[r] = "again" => pc[r] = "fill")
      BY <1>6 DEF Fill, Decide, TInv, TypeOK
    <2>3. Agree(cached', total')
      BY <1>3, <2>1, AgreeSelf
    <2>4. RequestCurrent(r)'
      BY <1>1, <1>3, <1>4, <2>2 DEF RequestCurrent, Taking
    <2>5. QED
      BY <1>2, <1>3, <1>5, <2>3, <2>4, AloneRequest
  <1>7. CASE Populate(r)
    <2>1. cached' = total /\ pc'[r] = "serving"
      BY <1>4, <1>7 DEF Populate, RequestCurrent, TInv, TypeOK
    <2>2. Agree(cached', total')
      BY <1>3, <2>1, AgreeSelf
    <2>3. RequestCurrent(r)'
      BY <2>1 DEF RequestCurrent, Taking
    <2>4. QED
      BY <1>2, <1>3, <1>5, <2>2, <2>3, AloneRequest
  <1>8. CASE Take(r)
    <2>1. /\ pc[r] \in {"take", "again"} /\ r \in stamped /\ Cost[r] \in Nat
          /\ cached' = IF cached = None THEN None ELSE cached - Cost[r]
          /\ pc'[r] = IF cached = None /\ pc[r] = "take" THEN "load" ELSE "commit"
      BY <1>8, BudgetAssumption DEF Take, TInv, TypeOK, WorkInv
    <2>2. Writers = {}
      <3>1. Writers \subseteq {r}
        BY WritersHold DEF TInv
      <3>2. r \notin Writers
        BY <2>1, BudgetAssumption DEF Writers
      <3>3. QED
        BY <3>1, <3>2
    <2>3. Agree(cached, total) /\ cached \in Int \cup {None}
      BY <2>2 DEF Serial, TInv, TypeOK
    <2>4. Agree(cached', Pos(total - Cost[r]))
      BY <1>3, <2>1, <2>3 DEF Agree, Pos
    <2>5. Writers' = {} => Agree(cached', total')
      <3>1. CASE pc'[r] = "load"
        BY <2>1, <3>1 DEF Agree
      <3>2. CASE pc'[r] = "commit"
        <4>1. r \in Writers'
          BY <1>1, <2>1, <3>2 DEF Writers
        <4>2. QED
          BY <4>1
      <3>3. QED
        BY <2>1, <3>1, <3>2
    <2>6. RequestCurrent(r)'
      BY <1>1, <1>3, <1>4, <2>1, <2>4 DEF RequestCurrent, Taking
    <2>7. QED
      BY <1>2, <1>3, <1>5, <2>5, <2>6, AloneRequest
  <1>9. QED
    BY <1>6, <1>7, <1>8

\* A commit by a request nobody overtook takes its cost from rows and sum, as it
\* did from the cached value.
LEMMA SerialCommit ==
  ASSUME TInv, TInv', Serial, NEW r \in Requests, Holding \ {r} = {}, Commit(r)
  PROVE  Serial'
  <1> DEFINE new == Spend(seen[r], Cost[r])
  <1>1. /\ pc[r] = "commit" /\ UNCHANGED <<gone, cached, admin, seen, read, val>>
        /\ Cost[r] \in Nat /\ total \in Nat /\ TypeOK
    BY BudgetAssumption DEF Commit, TInv, TypeOK
  <1>2. /\ pc'[r] \in {"done", "lost"} /\ stamped' \subseteq stamped \cup {r}
        /\ \A q \in Requests \ {r} : pc'[q] = pc[q]
    BY DEF Commit, Goto, TInv, TypeOK
  <1>3. RequestCurrent(r)'
    BY <1>2 DEF RequestCurrent, Taking
  <1>4. Writers \subseteq {r}
    BY WritersHold DEF TInv
  <1>5. CASE r \in stamped
    <2>1. /\ Taking(r) /\ read[r] = total /\ seen[r] = Left /\ total = Total(Left)
          /\ Agree(cached, Pos(total - Cost[r]))
      BY <1>1, <1>5 DEF Serial, RequestCurrent, Taking
    <2>2. Table(Left, rows) /\ DOMAIN Left \cap gone = {}
      BY <1>1, LeftTable
    <2>3. /\ DOMAIN new = DOMAIN seen[r] /\ Total(new) = Pos(total - Cost[r])
          /\ \A i \in DOMAIN seen[r] : new[i] \in Nat /\ new[i] <= seen[r][i]
      BY <1>1, <2>1, <2>2, TableSpend
    <2>4. Changed(seen[r], new) \cap gone = {}
      BY <2>1, <2>2 DEF Changed
    <2>5. /\ rows' = Written(seen[r], new)
          /\ total' = IF seen[r] # << >> /\ Total(new) # read[r] THEN Total(new) ELSE total
      BY <2>4 DEF Commit
    <2> HIDE DEF new
    <2>6. Total(Left)' = Total(new)
      BY <1>1, <2>1, <2>3, <2>5, LeftWritten
    <2>7. total' = Total(new)
      <3>1. CASE seen[r] = << >>
        <4>1. DOMAIN new = {}
          BY <2>3, <3>1
        <4>2. Total(new) = 0 /\ Total(seen[r]) = 0
          BY <2>3, <3>1, <4>1, TotalSum, SumEmpty
        <4>3. total = 0
          BY <2>1, <4>2
        <4>4. QED
          BY <2>5, <3>1, <4>2, <4>3
      <3>2. CASE seen[r] # << >>
        BY <2>1, <2>5, <3>2
      <3>3. QED
        BY <3>1, <3>2
    <2>8. Agree(cached', total')
      BY <1>1, <2>1, <2>3, <2>7 DEF Agree
    <2>9. QED
      BY <1>1, <1>2, <1>3, <2>6, <2>7, <2>8, AloneRequest DEF admin
  <1>6. CASE r \notin stamped
    <2>1. seen[r] = << >> /\ Changed(seen[r], new) = {}
      BY <1>6 DEF TInv, WorkInv, Changed
    <2>2. /\ rows' = Written(seen[r], new) /\ total' = total
      BY <2>1 DEF Commit
    <2>3. rows' = rows
      <3>1. rows = [i \in Ids |-> rows[i]]
        BY DEF TInv, TypeOK, Ids
      <3> HIDE DEF new
      <3>2. QED
        BY <2>1, <2>2, <3>1 DEF Written
    <2>4. Left' = Left /\ Total(Left)' = Total(Left)
      BY <1>1, <2>3 DEF Left, Ids
    <2>5. Writers = {}
      <3>1. r \notin Writers
        BY <1>6, BudgetAssumption DEF Writers
      <3>2. QED
        BY <1>4, <3>1
    <2>6. Agree(cached, total) /\ total = Total(Left)
      BY <2>5 DEF Serial
    <2>7. QED
      BY <1>1, <1>2, <1>3, <2>2, <2>4, <2>6, AloneRequest DEF admin, Agree
  <1>7. QED
    BY <1>5, <1>6

\* The steps of an operator that write nothing.
LEMMA SerialAdminReads ==
  ASSUME TInv, TInv', Serial, NEW a \in Admins,
         Begin(a) \/ Refresh(a) \/ Refill(a) \/ (Push(a) /\ ~Short(a))
  PROVE  Serial'
  <1> USE DEF Step
  <1>1. UNCHANGED <<books, cached, request>>
    BY DEF Begin, Refresh, Refill, Push
  <1>2. \A b \in Admins \ {a} : op'[b] = op[b] /\ avail'[b] = avail[b] /\ arem'[b] = arem[b]
    <2>1. PICK w : op' = [op EXCEPT ![a] = w]
      BY DEF Begin, Refresh, Refill, Push
    <2>2. \E n : avail' = [avail EXCEPT ![a] = n] \/ avail' = avail
      BY DEF Begin, Refresh, Refill, Push
    <2>3. \E n : arem' = [arem EXCEPT ![a] = n] \/ arem' = arem
      BY DEF Begin, Refresh, Refill, Push
    <2>4. QED
      BY <2>1, <2>2, <2>3 DEF TInv, TypeOK
  <1>3. \/ op[a] = "idle" /\ op'[a] \in {"add", "delete", "refill"} /\ avail'[a] = total
        \/ op[a] = "refresh" /\ op'[a] = "cache" /\ avail'[a] = total
        \/ /\ op[a] = "refill" /\ op'[a] = IF cached = None THEN "reload" ELSE "reloaded"
           /\ arem'[a] = (IF cached = None THEN avail[a] ELSE cached) /\ avail'[a] = avail[a]
        \/ op[a] = "reloaded" /\ op'[a] = "done"
    BY DEF Begin, Refresh, Refill, Push, TInv, TypeOK
  <1>4. op'[a] \in {"refresh", "cache", "top_up"} <=> op[a] \in {"refresh", "cache", "top_up"}
    BY <1>3
  <1>5. Writers' = Writers
    BY <1>1, <1>2, <1>4 DEF Writers, request
  <1>6. total' = total /\ cached' = cached /\ total \in Nat /\ AdminCurrent(a)
    BY <1>1 DEF books, Serial, TInv, TypeOK
  <1>7. AdminCurrent(a)'
    <2>1. CASE op[a] = "refill"
      <3>1. /\ op'[a] = (IF cached = None THEN "reload" ELSE "reloaded") /\ avail[a] = total
            /\ arem'[a] = (IF cached = None THEN avail[a] ELSE cached) /\ avail'[a] = avail[a]
        BY <1>3, <1>6, <2>1 DEF AdminCurrent
      <3>2. CASE cached = None
        BY <1>6, <3>1, <3>2 DEF AdminCurrent
      <3>3. CASE cached # None
        <4>1. Writers \subseteq {a} => Writers = {}
          <5>1. a \notin Writers
            BY <2>1, BudgetAssumption DEF Writers, TInv, TypeOK
          <5>2. QED
            BY <5>1
        <4>2. Writers \subseteq {a} => Pos(cached) = total
          BY <3>3, <4>1 DEF Serial, Agree
        <4>3. QED
          BY <1>5, <1>6, <3>1, <3>3, <4>2 DEF AdminCurrent
      <3>4. QED
        BY <3>2, <3>3
    <2>2. CASE op[a] # "refill"
      BY <1>3, <1>6, <2>2 DEF AdminCurrent
    <2>3. QED
      BY <2>1, <2>2
  <1>8. QED
    BY <1>1, <1>2, <1>5, <1>7, QuietAdmin

\* The steps of an operator that write, when nobody else holds a value.
LEMMA SerialAdminWrites ==
  ASSUME TInv, TInv', Serial, NEW a \in Admins, Holding \ {a} = {},
         \/ Add(a) \/ Delete(a) \/ Cache(a) \/ Reload(a) \/ (Push(a) /\ Short(a))
         \/ (TopUp(a) /\ arem[a] >= 0)
  PROVE  Serial'
  <1> USE DEF Step
  <1>1. UNCHANGED <<request, avail, arem>> /\ TypeOK /\ total \in Nat /\ total = Total(Left)
    BY DEF Add, Delete, Cache, Reload, Push, TopUp, Serial, TInv, TypeOK
  <1>2. UNCHANGED <<pc, stamped>>
    BY <1>1 DEF request
  <1>3. PICK w : op' = [op EXCEPT ![a] = w]
    BY DEF Add, Delete, Cache, Reload, Push, TopUp
  <1>4. op'[a] = w /\ \A b \in Admins \ {a} : op'[b] = op[b]
    BY <1>3 DEF TInv, TypeOK
  <1>5. AdminCurrent(a)
    BY DEF Serial
  <1>6. w \in {"refresh", "cache", "top_up"} => a \in Writers'
    BY <1>4 DEF Writers
  <1>7. CASE Add(a)
    <2>1. /\ op[a] = "add" /\ op'[a] = "refresh" /\ avail[a] = total /\ total' = total + Added
          /\ rows' = Append(rows, Row(Added)) /\ gone' = gone /\ Added \in Nat
      BY <1>5, <1>7, BudgetAssumption DEF Add, AdminCurrent, TInv, TypeOK
    <2>2. total' = Total(Left)'
      BY <1>1, <2>1, LeftAppend
    <2>3. Writers' # {} /\ AdminCurrent(a)'
      BY <1>4, <1>6, <2>1 DEF AdminCurrent
    <2>4. QED
      BY <1>2, <1>4, <2>2, <2>3, AloneAdmin
  <1>8. CASE Delete(a)
    <2>1. op[a] = "delete" /\ op'[a] = "refresh" /\ avail[a] = total /\ rows' = rows
      BY <1>5, <1>8 DEF Delete, AdminCurrent, TInv, TypeOK
    <2>2. PICK i \in Ids \ gone :
            /\ gone' = gone \cup {i}
            /\ LET n == Pos(avail[a] - rows[i].remaining)
               IN  total' = IF n # avail[a] THEN n ELSE total
      BY <1>8 DEF Delete
    <2>3. Total(Left)' \in Nat /\ total = rows[i].remaining + Total(Left)' /\ rows[i].remaining \in Nat
      BY <1>1, <2>1, <2>2, LeftDelete, RowFacts
    <2>4. total' = Total(Left)'
      BY <1>1, <2>1, <2>2, <2>3 DEF Pos
    <2>5. Writers' # {} /\ AdminCurrent(a)'
      BY <1>4, <1>6, <2>1 DEF AdminCurrent
    <2>6. QED
      BY <1>2, <1>4, <2>4, <2>5, AloneAdmin
  <1>9. CASE Cache(a)
    <2>1. op'[a] = "done" /\ cached' = total /\ UNCHANGED books
      BY <1>5, <1>9 DEF Cache, AdminCurrent, TInv, TypeOK
    <2>2. Left' = Left /\ total' = total
      BY <2>1 DEF Left, Ids, books
    <2>3. total' = Total(Left)' /\ Agree(cached', total') /\ AdminCurrent(a)'
      <3> HIDE DEF Left
      <3>1. QED
        BY <1>1, <2>1, <2>2, AgreeSelf DEF AdminCurrent
    <2>4. QED
      BY <1>2, <1>4, <2>3, AloneAdmin
  <1>10. CASE Reload(a)
    <2>1. /\ op'[a] = "reloaded" /\ cached' = total /\ arem[a] = total /\ avail[a] = total
          /\ UNCHANGED books
      BY <1>5, <1>10 DEF Reload, AdminCurrent, TInv, TypeOK
    <2>2. Left' = Left /\ total' = total
      BY <2>1 DEF Left, Ids, books
    <2>3. total' = Total(Left)' /\ Agree(cached', total') /\ AdminCurrent(a)'
      <3> HIDE DEF Left
      <3>1. QED
        BY <1>1, <2>1, <2>2, AgreeSelf DEF AdminCurrent
    <2>4. QED
      BY <1>2, <1>4, <2>3, AloneAdmin
  <1>11. CASE Push(a) /\ Short(a)
    <2>1. op[a] = "reloaded" /\ op'[a] = "top_up" /\ cached' = Target /\ UNCHANGED books
      BY <1>11 DEF Push, TInv, TypeOK
    <2>2. Left' = Left /\ total' = total
      BY <2>1 DEF Left, Ids, books
    <2>3. avail[a] = total /\ Pos(arem[a]) = total
      <3>1. Writers \subseteq {a}
        BY <1>1, WritersHold
      <3>2. QED
        BY <1>5, <2>1, <3>1 DEF AdminCurrent
    <2>4. total' = Total(Left)' /\ Writers' # {} /\ AdminCurrent(a)'
      <3> HIDE DEF Left
      <3>1. QED
        BY <1>1, <1>4, <1>6, <2>1, <2>2, <2>3 DEF AdminCurrent
    <2>5. QED
      BY <1>2, <1>4, <2>4, AloneAdmin
  <1>12. CASE TopUp(a) /\ arem[a] >= 0
    <2>1. /\ op[a] = "top_up" /\ op'[a] = "done" /\ rows' = Append(rows, Row(Target - arem[a]))
          /\ total' = (IF avail[a] # Target THEN Target ELSE total) /\ gone' = gone /\ cached' = cached
      BY <1>12 DEF TopUp, TInv, TypeOK
    <2>2. avail[a] = total /\ Pos(arem[a]) = total /\ cached \in {None, Target}
      <3>1. Writers \subseteq {a}
        BY <1>1, WritersHold
      <3>2. QED
        BY <1>5, <2>1, <3>1 DEF AdminCurrent
    <2>3. arem[a] = total /\ Target \in Nat /\ Target - arem[a] \in Nat
      BY <1>1, <1>12, <2>1, <2>2, BudgetAssumption DEF Pos, TInv, TypeOK, WorkInv
    <2>4. Total(Left)' = Total(Left) + (Target - arem[a])
      BY <2>1, <2>3, LeftAppend
    <2>5. total' = Target /\ total' = Total(Left)'
      BY <1>1, <2>1, <2>2, <2>3, <2>4
    <2>6. Agree(cached', total')
      BY <2>1, <2>2, <2>3, <2>5, AgreeSelf DEF Agree
    <2>7. AdminCurrent(a)'
      BY <2>1 DEF AdminCurrent
    <2>8. QED
      BY <1>2, <1>4, <2>5, <2>6, <2>7, AloneAdmin
  <1>13. QED
    BY <1>7, <1>8, <1>9, <1>10, <1>11, <1>12

\* A cycle that takes nothing changes nothing, and a cached value that expires is
\* no longer there to disagree.
LEMMA SerialOthers ==
  ASSUME TInv, TInv', Serial, taken = 0, taken' = 0,
         SyncStart \/ SyncRead \/ SyncCommit \/ Expire \/ UNCHANGED vars
  PROVE  Serial'
  <1>1. UNCHANGED <<gone, total, request, admin>> /\ (cached' = cached \/ cached' = None)
    BY DEF SyncStart, SyncRead, SyncCommit, Expire, vars, books
  <1>2. rows' = rows
    <2>1. CASE SyncCommit /\ Changed(plan.old, plan.new) \cap gone = {}
      <3>1. /\ rows' = Written(plan.old, plan.new)
            /\ taken' = taken + Total(plan.old) - Total(plan.new)
        BY <2>1 DEF SyncCommit
      <3>2. /\ Table(plan.old, rows) /\ DOMAIN plan.new = DOMAIN plan.old /\ TypeOK
            /\ \A i \in DOMAIN plan.old : plan.new[i] \in Nat /\ plan.new[i] <= plan.old[i]
        BY DEF TInv, WorkInv
      <3>3. NatOn(plan.old, DOMAIN plan.old)
        BY <3>2, TableSpend
      <3>4. NatOn(plan.new, DOMAIN plan.old)
        BY <3>2, <3>3 DEF NatOn
      <3>5. /\ Total(plan.old) = SumOver(plan.old, DOMAIN plan.old)
            /\ Total(plan.new) = SumOver(plan.new, DOMAIN plan.old)
            /\ Total(plan.old) \in Nat /\ Total(plan.new) \in Nat
        BY <3>2, <3>3, <3>4, TotalSum, SumType
      <3>6. SumOver(plan.new, DOMAIN plan.old) = SumOver(plan.old, DOMAIN plan.old)
        BY <3>1, <3>5
      <3>7. \A i \in DOMAIN plan.old : plan.new[i] = plan.old[i]
        BY <3>2, <3>3, <3>4, <3>6, SumLeq
      <3>8. Changed(plan.old, plan.new) = {}
        BY <3>7 DEF Changed
      <3>9. QED
        BY <3>1, <3>2, <3>8, WrittenRows
    <2>2. CASE ~(SyncCommit /\ Changed(plan.old, plan.new) \cap gone = {})
      BY <2>2 DEF SyncStart, SyncRead, SyncCommit, Expire, vars, books
    <2>3. QED
      BY <2>1, <2>2
  <1>3. /\ Left' = Left /\ Total(Left)' = Total(Left) /\ total' = total /\ Writers' = Writers
    BY <1>1, <1>2 DEF Left, Ids, Writers, request, admin
  <1>4. \A n : Agree(cached, n) => Agree(cached', n)
    BY <1>1 DEF Agree
  <1>5. \A q \in Requests : RequestCurrent(q)'
    <2>1. TAKE q \in Requests
    <2>2. RequestCurrent(q)
      BY DEF Serial
    <2> HIDE DEF Left
    <2>3. QED
      BY <1>1, <1>3, <1>4, <2>2 DEF RequestCurrent, Taking, request
  <1>6. \A a \in Admins : AdminCurrent(a)'
    BY <1>1, <1>3 DEF Serial, AdminCurrent, admin
  <1>7. QED
    BY <1>3, <1>4, <1>5, <1>6 DEF Serial

\* A state in which nobody was overtaken was reached from one.
LEMMA SerialStep == ASSUME TInv, TInv', SerialInv, [Next]_vars PROVE SerialInv'
  <1> SUFFICES ASSUME ~loose', taken' = 0, faults' = 0 PROVE Serial'
    BY DEF SerialInv
  <1>1. /\ loose \in BOOLEAN /\ taken \in Nat /\ faults \in Nat
        /\ loose' \in BOOLEAN /\ taken' \in Nat /\ faults' \in Nat
    BY DEF TInv, TypeOK
  <1>2. CASE \E r \in Requests :
               \/ Admit(r) \/ Remaining(r) \/ Load(r) \/ Lookup(r) \/ Answer(r) \/ Info(r)
               \/ ReadKey(r) \/ ReadRows(r)
    <2>1. PICK r \in Requests :
            \/ Admit(r) \/ Remaining(r) \/ Load(r) \/ Lookup(r) \/ Answer(r) \/ Info(r)
            \/ ReadKey(r) \/ ReadRows(r)
      BY <1>2
    <2>2. UNCHANGED <<loose, leader, faults>>
      BY <2>1 DEF Admit, Remaining, Load, Lookup, Answer, Info, ReadKey, ReadRows
    <2>3. Serial
      BY <2>2 DEF SerialInv, leader
    <2>4. QED
      BY <2>1, <2>3, SerialRequestReads
  <1>3. CASE \E r \in Requests : Fill(r) \/ Populate(r) \/ Take(r) \/ Commit(r)
    <2>1. PICK r \in Requests : Fill(r) \/ Populate(r) \/ Take(r) \/ Commit(r)
      BY <1>3
    <2>2. Writes(r) /\ UNCHANGED <<leader, faults>>
      BY <2>1 DEF Fill, Populate, Take, Commit
    <2>3. ~loose /\ Holding \ {r} = {}
      BY <2>2 DEF Writes
    <2>4. Serial
      BY <2>2, <2>3 DEF SerialInv, leader
    <2>5. QED
      BY <2>1, <2>3, <2>4, SerialRequestWrites, SerialCommit
  <1>4. CASE \E a \in Admins : Begin(a) \/ Refresh(a) \/ Refill(a) \/ (Push(a) /\ ~Short(a))
    <2>1. PICK a \in Admins : Begin(a) \/ Refresh(a) \/ Refill(a) \/ (Push(a) /\ ~Short(a))
      BY <1>4
    <2>2. UNCHANGED <<loose, leader, faults>>
      BY <2>1 DEF Begin, Refresh, Refill, Push
    <2>3. Serial
      BY <2>2 DEF SerialInv, leader
    <2>4. QED
      BY <2>1, <2>3, SerialAdminReads
  <1>5. CASE \E a \in Admins :
               Add(a) \/ Delete(a) \/ Cache(a) \/ Reload(a) \/ (Push(a) /\ Short(a)) \/ TopUp(a)
    <2>1. PICK a \in Admins :
            Add(a) \/ Delete(a) \/ Cache(a) \/ Reload(a) \/ (Push(a) /\ Short(a)) \/ TopUp(a)
      BY <1>5
    <2>2. UNCHANGED <<leader, faults>>
      BY <2>1 DEF Add, Delete, Cache, Reload, Push, TopUp
    <2>3. ~loose /\ Holding \ {a} = {} /\ (TopUp(a) => arem[a] >= 0)
      <3>1. CASE TopUp(a)
        <4>1. ~loose /\ Holding \ {a} = {} /\ ~(arem[a] < 0)
          BY <3>1 DEF TopUp
        <4>2. arem[a] \in Int
          BY DEF TInv, TypeOK
        <4>3. QED
          BY <4>1, <4>2
      <3>2. CASE ~TopUp(a)
        <4>1. Writes(a)
          BY <2>1, <3>2 DEF Add, Delete, Cache, Reload, Push
        <4>2. QED
          BY <3>2, <4>1 DEF Writes
      <3>3. QED
        BY <3>1, <3>2
    <2>4. Serial
      BY <2>2, <2>3 DEF SerialInv, leader
    <2>5. QED
      BY <2>1, <2>3, <2>4, SerialAdminWrites
  <1>6. CASE (\E r \in Requests : Fail(r)) \/ (\E a \in Admins : Abort(a))
    <2>1. faults' = faults + 1
      BY <1>6 DEF Fail, Abort
    <2>2. QED
      BY <1>1, <2>1
  <1>7. CASE SyncStart \/ SyncRead \/ SyncCommit \/ Expire \/ UNCHANGED vars
    <2>1. UNCHANGED <<loose, faults>>
      BY <1>7 DEF SyncStart, SyncRead, SyncCommit, Expire, vars
    <2>2. taken = 0
      <3>1. CASE SyncCommit /\ taken' # taken
        <4>1. taken' = taken + Total(plan.old) - Total(plan.new)
          BY <3>1 DEF SyncCommit
        <4>2. /\ Table(plan.old, rows) /\ DOMAIN plan.new = DOMAIN plan.old /\ TypeOK
              /\ \A i \in DOMAIN plan.old : plan.new[i] \in Nat /\ plan.new[i] <= plan.old[i]
          BY DEF TInv, WorkInv
        <4>3. NatOn(plan.old, DOMAIN plan.old)
          BY <4>2, TableSpend
        <4>4. NatOn(plan.new, DOMAIN plan.old)
          BY <4>2, <4>3 DEF NatOn
        <4>5. /\ Total(plan.old) = SumOver(plan.old, DOMAIN plan.old)
              /\ Total(plan.new) = SumOver(plan.new, DOMAIN plan.old)
              /\ Total(plan.old) \in Nat /\ Total(plan.new) \in Nat
          BY <4>2, <4>3, <4>4, TotalSum, SumType
        <4>6. SumOver(plan.new, DOMAIN plan.old) <= SumOver(plan.old, DOMAIN plan.old)
          BY <4>2, <4>3, <4>4, SumLeq
        <4>7. QED
          BY <1>1, <4>1, <4>5, <4>6
      <3>2. CASE ~(SyncCommit /\ taken' # taken)
        BY <1>7, <3>2 DEF SyncStart, SyncRead, Expire, vars, leader
      <3>3. QED
        BY <3>1, <3>2
    <2>3. Serial
      BY <2>1, <2>2 DEF SerialInv
    <2>4. QED
      BY <1>7, <2>2, <2>3, SerialOthers
  <1>8. QED
    BY <1>2, <1>3, <1>4, <1>5, <1>6, <1>7 DEF Next

\* SerialInv is inductive.
THEOREM SerialInduction == Spec => []SerialInv
  <1>1. Init => SerialInv
    <2> SUFFICES ASSUME Init PROVE Serial
      BY DEF SerialInv
    <2>1. /\ rows = <<[amount |-> Initial, remaining |-> Initial, older |-> {}]>> /\ gone = {}
          /\ total = Initial /\ Initial \in Nat \ {0} /\ cached = None /\ stamped = {}
          /\ \A r \in Requests : pc[r] = "start"
          /\ \A a \in Admins : op[a] = "idle"
      BY BudgetAssumption DEF Init
    <2>2. DOMAIN Left = {1} /\ Left[1] = Initial
      BY <2>1 DEF Left, Ids
    <2> HIDE DEF Left
    <2>3. Total(Left) = Initial
      BY <2>1, <2>2, OneRow
    <2>4. QED
      BY <2>1, <2>3 DEF Serial, Writers, Agree, RequestCurrent, Taking, AdminCurrent
  <1>2. TInv /\ TInv' /\ SerialInv /\ [Next]_vars => SerialInv'
    BY SerialStep
  <1>3. QED
    BY <1>1, <1>2, TypeInduction, PTL DEF Spec

\* Once nobody holds a value, rows, sum and cache agree, unless an actor overwrote
\* another, a cycle took from the rows, or something failed half way.
THEOREM BooksAgree == Spec => []SerialBooks
  <1>1. TInv /\ SerialInv => SerialBooks
    <2> SUFFICES ASSUME TInv, SerialInv, Holding = {}, ~loose, taken = 0, faults = 0
                 PROVE  total = Total(Left) /\ (cached # None => Pos(cached) = total)
      BY DEF SerialBooks
    <2>1. Serial
      BY DEF SerialInv
    <2>2. Writers = {}
      BY WritersHold DEF TInv
    <2>3. QED
      BY <2>1, <2>2 DEF Serial, Agree
  <1>2. QED
    BY <1>1, TypeInduction, SerialInduction, PTL
=============================================================================
