------------------------ MODULE RateLimiter_proofs ------------------------
(***************************************************************************)
(* The rate limiter is well typed, its counters balance, no counter grants *)
(* more than its limit and what was credited to it or lost, and a refused  *)
(* request gives back what it took: for any requests, limits and minutes.  *)
(***************************************************************************)
EXTENDS RateLimiter, FiniteSetTheorems, TLAPS

Finite ==
  \A k \in Keys :
    IsFiniteSet(debits[k]) /\ IsFiniteSet(credits[k]) /\ IsFiniteSet(lost[k])

\* Where a request stands: a reservation has passed the tiers before the one it
\* is at, a rollback owes all it passed, and both work under the minute of the
\* reservation.
Position ==
  \A r \in Requests :
    /\ stage[r] = "reserve" => /\ at[r] \in Active
                               /\ held[r] = {t \in Active : t < at[r]}
                               /\ actual[r] = 0
    /\ stage[r] = "undo" => /\ at[r] \in held[r]
                            /\ held[r] \subseteq Active
                            /\ owed[r] = held[r]
                            /\ actual[r] = 0
    /\ stage[r] = "refused" => held[r] = {}
    /\ stage[r] = "serving" => actual[r] = 0
    /\ stage[r] = "reconcile" => at[r] \in TpmTiers /\ actual[r] # 0
    /\ stage[r] \in {"reserve", "undo"} /\ step[r] # "read" => cur[r] = window[r][at[r]]

\* Request r has given nothing to key k yet; it has taken its correction, if
\* there is one, from key k.
Uncredited(r, k) ==
  \/ stage[r] \in {"reserve", "serving"}
  \/ stage[r] = "undo" /\ k[1] \in held[r]
  \/ stage[r] = "reconcile" /\ k[1] >= at[r]
Corrected(r, k) == stage[r] = "done" \/ (stage[r] = "reconcile" /\ k[1] < at[r])

\* The units a request is about to take or to give are new to the counter.
Fresh ==
  \A r \in Requests : \A k \in Keys : \A n \in Nat :
    /\ <<r, n>> \in debits[k] => /\ n >= 1
                                 /\ stage[r] = "reserve" => k[1] < at[r]
                                 /\ ~Corrected(r, k) => n <= Cost(r, k[1])
    /\ Uncredited(r, k) => <<r, n>> \notin credits[k]

\* Where the units of a request that is not granted yet are: under the keys of
\* its reservation and, once it is refused, under one more.
InPlace(r, k) ==
  (\E n \in Nat : <<r, n>> \in Charged(k)) => k[1] \in held[r] /\ window[r][k[1]] = k[2]
Owned ==
  \A r \in Requests :
    /\ stage[r] = "reserve" => \A k \in Keys : InPlace(r, k)
    /\ stage[r] \in {"undo", "refused"} => \E j \in Keys : \A k \in live : k # j => InPlace(r, k)

\* What requests hold is charged or lost, and what is charged of it fits.
Covered ==
  \A r \in Requests : \A t \in held[r] : \A n \in Nat :
    1 <= n /\ n <= Used(r, t) =>
      \/ <<r, n>> \in debits[<<t, window[r][t]>>] /\ <<r, n>> \notin credits[<<t, window[r][t]>>]
      \/ <<r, n>> \in lost[<<t, window[r][t]>>]
Bounded ==
  \A k \in Keys :
    Cardinality(Granted(k) \cap Charged(k)) <= Limit[k[1]] + Cardinality(Stray(k))

IInv == TypeOK /\ Finite /\ Position /\ Fresh /\ Owned /\ Covered /\ Balanced /\ Bounded

-----------------------------------------------------------------------------
\* The first tier of a set of tiers is its least element.
LEMMA FirstIsLeast ==
  ASSUME NEW T \in SUBSET Tiers
  PROVE  /\ T = {} <=> First(T) = none
         /\ T # {} => First(T) \in T /\ \A u \in T : First(T) <= u
  <1>1. CASE T = {}
    BY <1>1 DEF First, none
  <1>2. CASE T # {}
    <2>1. T \in SUBSET Nat
      BY DEF Tiers
    <2>2. \E t \in T : \A u \in T : t <= u
      <3>1. \A n \in 1 .. 6 : n \in T => \E t \in T : \A u \in T : t <= u
        <4>1. 1 \in T => \E t \in T : \A u \in T : t <= u
          BY DEF Tiers
        <4>2. 1 \notin T /\ 2 \in T => \E t \in T : \A u \in T : t <= u
          BY DEF Tiers
        <4>3. 1 \notin T /\ 2 \notin T /\ 3 \in T => \E t \in T : \A u \in T : t <= u
          BY DEF Tiers
        <4>4. 1 \notin T /\ 2 \notin T /\ 3 \notin T /\ 4 \in T => \E t \in T : \A u \in T : t <= u
          BY DEF Tiers
        <4>5. 1 \notin T /\ 2 \notin T /\ 3 \notin T /\ 4 \notin T /\ 5 \in T
                => \E t \in T : \A u \in T : t <= u
          BY DEF Tiers
        <4>6. T \subseteq {6} => \E t \in T : \A u \in T : t <= u
          <5>1. T \subseteq {6} => 6 \in T /\ \A u \in T : u = 6
            BY <1>2
          <5>2. QED
            BY <5>1
        <4>7. QED
          BY <4>1, <4>2, <4>3, <4>4, <4>5, <4>6 DEF Tiers
      <3>3. QED
        BY <1>2, <3>1 DEF Tiers
    <2>3. First(T) \in T /\ \A u \in T : First(T) <= u
      BY <1>2, <2>2 DEF First
    <2>4. First(T) # none
      BY <2>3 DEF none, Tiers
    <2>5. QED
      BY <1>2, <2>3, <2>4
  <1>3. QED
    BY <1>1, <1>2

\* A rollback goes on with a tier it owes.
LEMMA NextOwedIsOwed ==
  ASSUME NEW T \in SUBSET Tiers, T # {}
  PROVE  NextOwed(T) \in T
  BY FirstIsLeast DEF NextOwed

\* The tiers a rollback undoes are those before the one that refused.
LEMMA UndoneIsBefore ==
  ASSUME NEW t \in Tiers
  PROVE  Undone(t) \cap Active = {u \in Active : u < t}
  BY DEF Undone, Active, Tiers, rpm, tpm, ws_rpm, ws_tpm, ak_rpm, ak_tpm

\* Units are pairs, finitely many, as many as the amount they stand for.
LEMMA UnitsMembers ==
  ASSUME NEW r, NEW a \in Nat, NEW b \in Nat
  PROVE  /\ \A q, n : <<q, n>> \in Units(r, a, b) <=> q = r /\ n \in Nat /\ a < n /\ n <= b
         /\ \A u \in Units(r, a, b) : u = <<r, u[2]>> /\ u[2] \in Nat
         /\ IsFiniteSet(Units(r, a, b))
         /\ a <= b => Cardinality(Units(r, a, b)) = b - a
  <1>1. /\ \A q, n : <<q, n>> \in Units(r, a, b) <=> q = r /\ n \in Nat /\ a < n /\ n <= b
        /\ \A u \in Units(r, a, b) : u = <<r, u[2]>> /\ u[2] \in Nat
    BY DEF Units
  <1>2. /\ IsFiniteSet((a + 1) .. b)
        /\ a <= b => Cardinality((a + 1) .. b) = b - a
    <2>1. a + 1 \in Int /\ b \in Int
      OBVIOUS
    <2>2. /\ IsFiniteSet((a + 1) .. b)
          /\ Cardinality((a + 1) .. b) = IF a + 1 > b THEN 0 ELSE b - (a + 1) + 1
      BY <2>1, FS_Interval
    <2>3. QED
      BY <2>2
  <1>3. IsFiniteSet({r}) /\ Cardinality({r}) = 1
    BY FS_Singleton
  <1>4. /\ IsFiniteSet(Units(r, a, b))
        /\ Cardinality(Units(r, a, b)) = 1 * Cardinality((a + 1) .. b)
    BY <1>2, <1>3, FS_Product DEF Units
  <1>5. Cardinality((a + 1) .. b) \in Nat
    BY <1>2, FS_CardinalityType
  <1>6. QED
    BY <1>1, <1>2, <1>4, <1>5

\* Taking new units moves the account of a counter by their number ...
LEMMA TakeMoves ==
  ASSUME NEW D, NEW C, NEW U, IsFiniteSet(D), IsFiniteSet(C), IsFiniteSet(U),
         U \cap D = {}, U \cap C = {}
  PROVE  /\ IsFiniteSet(D \cup U)
         /\ Cardinality((D \cup U) \ C) = Cardinality(D \ C) + Cardinality(U)
         /\ C \ (D \cup U) = C \ D
         /\ (D \cup U) \ C = (D \ C) \cup U
  <1>1. (D \cup U) \ C = (D \ C) \cup U /\ C \ (D \cup U) = C \ D /\ (D \ C) \cap U = {}
    OBVIOUS
  <1>2. IsFiniteSet(D \ C)
    BY FS_Difference
  <1>3. Cardinality((D \ C) \cup U)
          = Cardinality(D \ C) + Cardinality(U) - Cardinality((D \ C) \cap U)
    BY <1>2, FS_Union
  <1>4. Cardinality((D \ C) \cap U) = 0
    BY <1>1, FS_EmptySet
  <1>5. Cardinality(D \ C) \in Nat /\ Cardinality(U) \in Nat
    BY <1>2, FS_CardinalityType
  <1>6. IsFiniteSet(D \cup U)
    BY FS_Union
  <1>7. Cardinality((D \cup U) \ C) = Cardinality((D \ C) \cup U)
    BY <1>1, Zenon
  <1>8. Cardinality((D \cup U) \ C) = Cardinality(D \ C) + Cardinality(U)
    BY <1>3, <1>4, <1>5, <1>7
  <1>9. QED
    BY <1>1, <1>6, <1>8, Zenon

\* ... and so does giving new units.
LEMMA GiveMoves ==
  ASSUME NEW D, NEW C, NEW U, IsFiniteSet(D), IsFiniteSet(C), IsFiniteSet(U), U \cap C = {}
  PROVE  /\ IsFiniteSet(C \cup U)
         /\ Cardinality((C \cup U) \ D) - Cardinality(D \ (C \cup U))
              = Cardinality(C \ D) - Cardinality(D \ C) + Cardinality(U)
         /\ Cardinality((C \cup U) \ D) >= Cardinality(C \ D)
         /\ D \ (C \cup U) \subseteq D \ C
  <1>1. /\ (C \cup U) \ D = (C \ D) \cup (U \ D)
        /\ (C \ D) \cap (U \ D) = {}
        /\ D \ (C \cup U) = (D \ C) \ U
        /\ (D \ C) \cap U = U \cap D
    OBVIOUS
  <1>2. IsFiniteSet(C \ D) /\ IsFiniteSet(U \ D) /\ IsFiniteSet(D \ C)
    BY FS_Difference
  <1>3. Cardinality((C \cup U) \ D) = Cardinality(C \ D) + Cardinality(U \ D)
    <2>1. Cardinality((C \ D) \cap (U \ D)) = 0
      BY <1>1, FS_EmptySet
    <2>2. Cardinality((C \ D) \cup (U \ D))
            = Cardinality(C \ D) + Cardinality(U \ D) - Cardinality((C \ D) \cap (U \ D))
      BY <1>2, FS_Union
    <2>3. Cardinality(C \ D) \in Nat /\ Cardinality(U \ D) \in Nat
      BY <1>2, FS_CardinalityType
    <2>4. Cardinality((C \cup U) \ D) = Cardinality((C \ D) \cup (U \ D))
      BY <1>1, Zenon
    <2>5. QED
      BY <2>1, <2>2, <2>3, <2>4
  <1>4. Cardinality(D \ (C \cup U)) = Cardinality(D \ C) - Cardinality(U \cap D)
    <2>1. Cardinality((D \ C) \ U) = Cardinality(D \ C) - Cardinality((D \ C) \cap U)
      BY <1>2, FS_Difference, Zenon
    <2>2. (D \ C) \cap U = U \cap D
      OBVIOUS
    <2>3. QED
      BY <1>1, <2>1, <2>2
  <1>5. Cardinality(U \ D) = Cardinality(U) - Cardinality(U \cap D)
    BY FS_Difference
  <1>6. /\ Cardinality(C \ D) \in Nat /\ Cardinality(U \ D) \in Nat /\ Cardinality(D \ C) \in Nat
        /\ Cardinality(U) \in Nat /\ Cardinality(U \cap D) \in Nat
    <2>1. IsFiniteSet(U \cap D)
      BY FS_Intersection
    <2>2. QED
      BY <1>2, <2>1, FS_CardinalityType
  <1>7. IsFiniteSet(C \cup U)
    BY FS_Union
  <1>8. QED
    BY <1>1, <1>3, <1>4, <1>5, <1>6, <1>7

\* What is granted and charged stays in bounds while it does not grow and the
\* counter does not lose what it was credited.
LEMMA BoundedStays ==
  ASSUME TypeOK, Finite, Bounded, NEW k \in Keys,
         Granted(k)' \cap Charged(k)' \subseteq Granted(k) \cap Charged(k),
         Cardinality(Stray(k)') \in Nat,
         Cardinality(Stray(k)') >= Cardinality(Stray(k))
  PROVE  Cardinality(Granted(k)' \cap Charged(k)') <= Limit[k[1]] + Cardinality(Stray(k)')
  <1>1. IsFiniteSet(Charged(k)) /\ IsFiniteSet(Stray(k))
    BY FS_Difference DEF Finite, Charged, Stray
  <1>2. IsFiniteSet(Granted(k) \cap Charged(k))
    BY <1>1, FS_Intersection
  <1>3. /\ IsFiniteSet(Granted(k)' \cap Charged(k)')
        /\ Cardinality(Granted(k)' \cap Charged(k)') <= Cardinality(Granted(k) \cap Charged(k))
    BY <1>2, FS_Subset
  <1>4. Limit[k[1]] \in Nat
    BY LimitAssumption DEF Keys
  <1>5. Cardinality(Granted(k) \cap Charged(k)) <= Limit[k[1]] + Cardinality(Stray(k))
    BY DEF Bounded
  <1>6. /\ Cardinality(Granted(k) \cap Charged(k)) \in Nat
        /\ Cardinality(Granted(k)' \cap Charged(k)') \in Nat
        /\ Cardinality(Stray(k)) \in Nat
    BY <1>1, <1>2, <1>3, FS_CardinalityType
  <1>7. QED
    BY <1>3, <1>4, <1>5, <1>6

\* The types of the books.
BooksType ==
  /\ left \in [Keys -> Int]
  /\ debits \in [Keys -> SUBSET (Requests \X Nat)]
  /\ credits \in [Keys -> SUBSET (Requests \X Nat)]
  /\ lost \in [Keys -> SUBSET (Requests \X Nat)]

\* Taking new units keeps the books.
LEMMA DebitBooks ==
  ASSUME TypeOK, Finite, Balanced, NEW k \in Keys, NEW U \in SUBSET (Requests \X Nat),
         IsFiniteSet(U), U \cap debits[k] = {}, U \cap credits[k] = {},
         Debit(k, U), live' = live
  PROVE  /\ BooksType' /\ Finite' /\ Balanced'
         /\ \A j \in Keys : Stray(j)' = Stray(j)
         /\ \A j \in Keys : j # k \/ k \notin live => Charged(j)' = Charged(j)
         /\ k \in live => Charged(k)' = Charged(k) \cup U
         /\ \A j \in Keys : lost[j] \subseteq lost'[j] /\ Charged(j) \subseteq Charged(j)'
         /\ k \notin live => U \subseteq lost'[k]
  <1> USE DEF TypeOK
  <1>1. Cardinality(U) \in Nat
    BY FS_CardinalityType
  <1>2. IsFiniteSet(debits[k]) /\ IsFiniteSet(credits[k]) /\ IsFiniteSet(lost[k])
    BY DEF Finite
  <1>3. /\ IsFiniteSet(debits[k] \cup U)
        /\ Cardinality((debits[k] \cup U) \ credits[k]) = Cardinality(debits[k] \ credits[k]) + Cardinality(U)
        /\ credits[k] \ (debits[k] \cup U) = credits[k] \ debits[k]
        /\ (debits[k] \cup U) \ credits[k] = (debits[k] \ credits[k]) \cup U
    BY <1>2, TakeMoves
  <1>4. IsFiniteSet(lost[k] \cup U)
    BY <1>2, FS_Union
  <1>5. credits' = credits /\ \A j \in Keys : j # k => debits'[j] = debits[j] /\ left'[j] = left[j] /\ lost'[j] = lost[j]
    BY DEF Debit
  <1>6. CASE k \in live
    <2>1. debits'[k] = debits[k] \cup U /\ left'[k] = left[k] - Cardinality(U) /\ lost' = lost
      BY <1>6 DEF Debit
    <2>2. BooksType'
      BY <1>1, <1>6 DEF Debit, BooksType
    <2>3. Finite'
      BY <1>3, <1>5, <2>1 DEF Finite
    <2>4. /\ \A j \in Keys : Stray(j)' = Stray(j)
          /\ \A j \in Keys : j # k => Charged(j)' = Charged(j)
          /\ Charged(k)' = Charged(k) \cup U
      BY <1>3, <1>5, <2>1 DEF Stray, Charged
    <2>5. Balanced'
      <3>1. SUFFICES ASSUME NEW j \in live
                     PROVE  left'[j] = Limit[j[1]] - Cardinality(Charged(j)') + Cardinality(Stray(j)')
        BY DEF Balanced
      <3>2. left[j] = Limit[j[1]] - Cardinality(Charged(j)) + Cardinality(Stray(j)) /\ j \in Keys
        BY DEF Balanced
      <3>3. CASE j # k
        BY <1>5, <2>4, <3>2, <3>3
      <3>4. CASE j = k
        <4>1. Cardinality(Charged(k)') = Cardinality(Charged(k)) + Cardinality(U)
          BY <1>3, <1>5, <2>1 DEF Charged
        <4>2. Cardinality(Charged(k)) \in Nat /\ Cardinality(Stray(k)) \in Nat
          BY <1>2, FS_Difference, FS_CardinalityType DEF Charged, Stray
        <4>3. Limit[k[1]] \in Nat
          BY LimitAssumption DEF Keys
        <4>4. Cardinality(Stray(k)') = Cardinality(Stray(k))
          BY <2>4
        <4>5. QED
          BY <1>1, <2>1, <3>2, <3>4, <4>1, <4>2, <4>3, <4>4
      <3>5. QED
        BY <3>3, <3>4
    <2>6. QED
      BY <1>5, <1>6, <2>1, <2>2, <2>3, <2>4, <2>5
  <1>7. CASE k \notin live
    <2>1. left' = left /\ debits' = debits /\ lost'[k] = lost[k] \cup U
      BY <1>7 DEF Debit
    <2>2. BooksType'
      BY <1>7 DEF Debit, BooksType
    <2>3. Finite'
      BY <1>4, <1>5, <2>1 DEF Finite
    <2>4. \A j \in Keys : Stray(j)' = Stray(j) /\ Charged(j)' = Charged(j)
      BY <1>5, <2>1 DEF Stray, Charged
    <2>5. Balanced'
      BY <1>5, <2>1 DEF Balanced, Charged, Stray
    <2>6. QED
      BY <1>5, <1>7, <2>1, <2>2, <2>3, <2>4, <2>5
  <1>8. QED
    BY <1>6, <1>7

\* Giving new units keeps the books.
LEMMA CreditBooks ==
  ASSUME TypeOK, Finite, Balanced, NEW k \in Keys, NEW U \in SUBSET (Requests \X Nat),
         IsFiniteSet(U), U \cap credits[k] = {}, Credit(k, U), live' = live
  PROVE  /\ BooksType' /\ Finite' /\ Balanced'
         /\ debits' = debits /\ lost' = lost
         /\ \A j \in Keys : j # k => credits'[j] = credits[j]
         /\ k \in live => credits'[k] = credits[k] \cup U
         /\ k \notin live => credits' = credits
         /\ \A j \in Keys : /\ Charged(j)' \subseteq Charged(j)
                            /\ Cardinality(Stray(j)') \in Nat
                            /\ Cardinality(Stray(j)') >= Cardinality(Stray(j))
  <1> USE DEF TypeOK
  <1>1. Cardinality(U) \in Nat
    BY FS_CardinalityType
  <1>2. \A j \in Keys : /\ IsFiniteSet(debits[j]) /\ IsFiniteSet(credits[j])
                        /\ Cardinality(Charged(j)) \in Nat /\ Cardinality(Stray(j)) \in Nat
    BY FS_Difference, FS_CardinalityType DEF Finite, Charged, Stray
  <1>3. /\ IsFiniteSet(credits[k] \cup U)
        /\ Cardinality((credits[k] \cup U) \ debits[k]) - Cardinality(debits[k] \ (credits[k] \cup U))
             = Cardinality(credits[k] \ debits[k]) - Cardinality(debits[k] \ credits[k]) + Cardinality(U)
        /\ Cardinality((credits[k] \cup U) \ debits[k]) >= Cardinality(credits[k] \ debits[k])
        /\ debits[k] \ (credits[k] \cup U) \subseteq debits[k] \ credits[k]
    <2>1. IsFiniteSet(debits[k]) /\ IsFiniteSet(credits[k])
      BY <1>2
    <2>2. QED
      BY ONLY <2>1, IsFiniteSet(U), U \cap credits[k] = {}, GiveMoves
  <1>4. /\ debits' = debits /\ lost' = lost
        /\ \A j \in Keys : j # k => credits'[j] = credits[j] /\ left'[j] = left[j]
        /\ k \in live => credits'[k] = credits[k] \cup U /\ left'[k] = left[k] + Cardinality(U)
        /\ k \notin live => credits' = credits /\ left' = left
    BY DEF Credit
  <1>5. BooksType'
    BY <1>1 DEF Credit, BooksType
  <1>6. Finite'
    BY <1>3, <1>4 DEF Finite
  <1>7. \A j \in Keys : j # k \/ k \notin live => Charged(j)' = Charged(j) /\ Stray(j)' = Stray(j)
    BY <1>4 DEF Charged, Stray
  <1>8. k \in live => /\ Charged(k)' = debits[k] \ (credits[k] \cup U)
                      /\ Stray(k)' = (credits[k] \cup U) \ debits[k]
    BY <1>4 DEF Charged, Stray
  <1>9. \A j \in Keys : Cardinality(Charged(j)') \in Nat /\ Cardinality(Stray(j)') \in Nat
    BY <1>6, FS_Difference, FS_CardinalityType DEF Finite, Charged, Stray
  <1>10. \A j \in Keys : Charged(j)' \subseteq Charged(j) /\ Cardinality(Stray(j)') >= Cardinality(Stray(j))
    <2>1. SUFFICES ASSUME NEW j \in Keys
                   PROVE  Charged(j)' \subseteq Charged(j) /\ Cardinality(Stray(j)') >= Cardinality(Stray(j))
      OBVIOUS
    <2>2. CASE j # k \/ k \notin live
      BY <1>2, <1>7, <2>2
    <2>3. CASE j = k /\ k \in live
      BY <1>3, <1>8, <2>3 DEF Charged, Stray
    <2>4. QED
      BY <2>2, <2>3
  <1>11. Balanced'
    <2>1. SUFFICES ASSUME NEW j \in live
                   PROVE  left'[j] = Limit[j[1]] - Cardinality(Charged(j)') + Cardinality(Stray(j)')
      BY DEF Balanced
    <2>2. left[j] = Limit[j[1]] - Cardinality(Charged(j)) + Cardinality(Stray(j)) /\ j \in Keys
      BY DEF Balanced
    <2>3. CASE j # k
      BY <1>4, <1>7, <2>2, <2>3
    <2>4. CASE j = k
      <3>1. Cardinality(Stray(k)') - Cardinality(Charged(k)')
              = Cardinality(Stray(k)) - Cardinality(Charged(k)) + Cardinality(U)
        BY <1>3, <1>8, <2>4 DEF Charged, Stray
      <3>2. Limit[k[1]] \in Nat
        BY LimitAssumption DEF Keys
      <3>3. left'[k] = left[k] + Cardinality(U)
        BY <1>4, <2>4
      <3>4. left[k] = Limit[k[1]] - Cardinality(Charged(k)) + Cardinality(Stray(k))
        BY <2>2, <2>4
      <3>5. left'[k] = Limit[k[1]] - Cardinality(Charged(k)') + Cardinality(Stray(k)')
        <4>1. /\ Cardinality(Charged(k)) \in Nat /\ Cardinality(Stray(k)) \in Nat
              /\ Cardinality(Charged(k)') \in Nat /\ Cardinality(Stray(k)') \in Nat
          BY <1>2, <1>9
        <4>2. QED
          BY ONLY <1>1, <3>1, <3>2, <3>3, <3>4, <4>1
      <3>6. QED
        BY <2>4, <3>5
    <2>5. QED
      BY <2>3, <2>4
  <1>12. QED
    BY <1>4, <1>5, <1>6, <1>9, <1>10, <1>11

-----------------------------------------------------------------------------
\* One lemma per action: it preserves the invariant.
\* The clock.
LEMMA TickStep ==
  ASSUME IInv, Tick
  PROVE  IInv'
  <1> USE DEF IInv
  <1>1. TypeOK'
    BY BoundsAssumption DEF TypeOK, Tick, history, Minutes, Stages
  <1>2. Finite'
    BY DEF Finite, Tick, history
  <1>3. Position'
    BY DEF Position, Tick, history
  <1>4. Fresh'
    BY DEF Fresh, Uncredited, Corrected, Tick, history
  <1>5. Owned'
    BY DEF Owned, InPlace, Charged, Tick, history
  <1>6. Covered'
    BY DEF Covered, Used, Tick, history
  <1>7. Balanced'
    BY DEF Balanced, Charged, Stray, Tick, history
  <1>8. Bounded'
    BY DEF Bounded, Granted, Used, Charged, Stray, Tick, history
  <1>9. QED
    BY <1>1, <1>2, <1>3, <1>4, <1>5, <1>6, <1>7, <1>8

\* A key of an earlier minute expires.
LEMMA ExpireStep ==
  ASSUME IInv, NEW x \in Keys, Expire(x)
  PROVE  IInv'
  <1> USE DEF IInv
  <1>1. TypeOK'
    BY BoundsAssumption DEF TypeOK, Expire, history, Minutes, Stages
  <1>2. Finite'
    BY DEF Finite, Expire, history
  <1>3. Position'
    BY DEF Position, Expire, history
  <1>4. Fresh'
    BY DEF Fresh, Uncredited, Corrected, Expire, history
  <1>5. Owned'
    BY DEF Owned, InPlace, Charged, Expire, history
  <1>6. Covered'
    BY DEF Covered, Used, Expire, history
  <1>7. Balanced'
    BY DEF Balanced, Charged, Stray, Expire, history
  <1>8. Bounded'
    BY DEF Bounded, Granted, Used, Charged, Stray, Expire, history
  <1>9. QED
    BY <1>1, <1>2, <1>3, <1>4, <1>5, <1>6, <1>7, <1>8

\* The cache fails.
LEMMA FailStep ==
  ASSUME IInv, NEW r \in Requests, Fail(r)
  PROVE  IInv'
  <1> USE DEF IInv
  <1>1. TypeOK'
    BY BoundsAssumption DEF TypeOK, Fail, history, Minutes, Stages
  <1>2. Finite'
    BY DEF Finite, Fail, history
  <1>3. Position'
    BY DEF Position, TypeOK, Fail, history, Stages
  <1>4. Fresh'
    BY DEF Fresh, Uncredited, Corrected, TypeOK, Fail, history, Stages, Adjusting
  <1>5. Owned'
    BY DEF Owned, InPlace, Charged, TypeOK, Fail, history
  <1>6. Covered'
    BY DEF Covered, Used, Fail, history
  <1>7. Balanced'
    BY DEF Balanced, Charged, Stray, Fail, history
  <1>8. Bounded'
    BY DEF Bounded, Granted, Used, Charged, Stray, Fail, history
  <1>9. QED
    BY <1>1, <1>2, <1>3, <1>4, <1>5, <1>6, <1>7, <1>8

\* The provider answers.
LEMMA AnswerStep ==
  ASSUME IInv, NEW r \in Requests, Answer(r)
  PROVE  IInv'
  <1> USE DEF IInv
  <1>1. TypeOK'
    <2>1. TpmTiers # {} => First(TpmTiers) \in Tiers
      BY FirstIsLeast DEF TpmTiers, Active
    <2>2. QED
      <3>1. stage' \in [Requests -> Stages]
        BY DEF TypeOK, Answer, Stages
      <3>2. at' \in [Requests -> Tiers \cup {none}]
        BY <2>1 DEF TypeOK, Answer
      <3>3. actual' \in [Requests -> 0 .. MaxActual]
        <4>1. actual' = actual \/ \E a \in 1 .. MaxActual : actual' = [actual EXCEPT ![r] = a]
          BY DEF Answer
        <4>2. ASSUME NEW a \in 1 .. MaxActual  PROVE  a \in 0 .. MaxActual
          BY BoundsAssumption
        <4>3. QED
          BY <4>1, <4>2 DEF TypeOK
      <3>4. QED
        BY <3>1, <3>2, <3>3 DEF TypeOK, Answer, history
  <1>2. Finite'
    BY DEF Finite, Answer, history
  <1>3. Position'
    <2>1. TpmTiers # {} => First(TpmTiers) \in TpmTiers
      BY FirstIsLeast DEF TpmTiers, Active
    <2>2. QED
      BY <2>1 DEF Position, TypeOK, Answer, history, Stages
  <1>4. Fresh'
    <2>1. \A q \in Requests : q # r => stage'[q] = stage[q] /\ at'[q] = at[q]
      BY DEF TypeOK, Answer
    <2>2. /\ stage[r] = "serving" /\ stage'[r] \in {"done", "reconcile"}
          /\ UNCHANGED <<held, window, live, history>>
      BY DEF TypeOK, Answer
    <2>3. QED
      BY <2>1, <2>2 DEF Fresh, Uncredited, Corrected, history
  <1>5. Owned'
    <2>1. \A q \in Requests : q # r => stage'[q] = stage[q] /\ at'[q] = at[q]
      BY DEF TypeOK, Answer
    <2>2. /\ stage[r] = "serving" /\ stage'[r] \in {"done", "reconcile"}
          /\ UNCHANGED <<held, window, live, history>>
      BY DEF TypeOK, Answer
    <2>3. QED
      BY <2>1, <2>2 DEF Owned, InPlace, Charged, history
  <1>6. Covered'
    <2>1. \A q \in Requests, t \in Tiers : Used(q, t)' \in Nat /\ Used(q, t) \in Nat /\ Used(q, t)' <= Used(q, t)
      BY RequestsAssumption DEF Used, Cost, TypeOK, Answer, Position
    <2>2. QED
      BY <2>1 DEF Covered, TypeOK, Answer, history
  <1>7. Balanced'
    BY DEF Balanced, Charged, Stray, Answer, history
  <1>8. Bounded'
    <2>1. \A k \in Keys : Charged(k)' = Charged(k) /\ Stray(k)' = Stray(k)
      BY DEF Charged, Stray, Answer, history
    <2>2. \A k \in Keys : Granted(k)' \subseteq Granted(k)
      <3>1. \A q \in Requests, t \in Tiers : Used(q, t)' \in Nat /\ Used(q, t) \in Nat /\ Used(q, t)' <= Used(q, t)
        BY RequestsAssumption DEF Used, Cost, TypeOK, Answer, Position
      <3>2. \A q \in Requests, t \in Tiers : Units(q, 0, Used(q, t))' \subseteq Units(q, 0, Used(q, t))
        BY <3>1 DEF Units
      <3>3. QED
        BY <3>2 DEF Granted, Keys, Answer
    <2>3. \A k \in Keys : Cardinality(Stray(k)) \in Nat
      BY FS_Difference, FS_CardinalityType DEF Finite, Stray
    <2>4. SUFFICES ASSUME NEW k \in Keys
                   PROVE  Cardinality(Granted(k)' \cap Charged(k)') <= Limit[k[1]] + Cardinality(Stray(k)')
      BY DEF Bounded
    <2>5. /\ Granted(k)' \cap Charged(k)' \subseteq Granted(k) \cap Charged(k)
          /\ Cardinality(Stray(k)') \in Nat
          /\ Cardinality(Stray(k)') >= Cardinality(Stray(k))
      BY <2>1, <2>2, <2>3
    <2>6. QED
      BY <2>5, BoundedStays
  <1>9. QED
    BY <1>1, <1>2, <1>3, <1>4, <1>5, <1>6, <1>7, <1>8

\* A key is read.
LEMMA ReadStep ==
  ASSUME IInv, NEW r \in Requests, Read(r)
  PROVE  IInv'
  <1> USE DEF IInv
  <1>1. TypeOK'
    BY DEF TypeOK, Read, history, Steps, Adjusting, Position, Active, TpmTiers
  <1>2. Finite'
    BY DEF Finite, Read, history
  <1>3. Position'
    BY DEF Position, TypeOK, Read, history, Adjusting, Active, Stages
  <1>4. Fresh'
    BY DEF Fresh, Uncredited, Corrected, Read, history
  <1>5. Owned'
    <2>1. \A q \in Requests : \A t \in held[q] : window'[q][t] = window[q][t]
      <3>1. stage[r] = "reserve" => at[r] \notin held[r] /\ at[r] \in Tiers
        BY DEF Position, Active, Tiers
      <3>2. QED
        BY <3>1 DEF TypeOK, Read
    <2>2. UNCHANGED <<stage, held, actual, live, history>>
      BY DEF Read
    <2>3. QED
      <3>1. \A q \in Requests, k \in Keys : InPlace(q, k) => InPlace(q, k)'
        BY <2>1, <2>2 DEF InPlace, Charged, history
      <3>2. QED
        BY <2>2, <3>1 DEF Owned, TypeOK
  <1>6. Covered'
    <2>1. \A q \in Requests : \A t \in held[q] : window'[q][t] = window[q][t]
      <3>1. stage[r] = "reserve" => at[r] \notin held[r] /\ at[r] \in Tiers
        BY DEF Position, Active, Tiers
      <3>2. QED
        BY <3>1 DEF TypeOK, Read
    <2>2. UNCHANGED <<stage, held, actual, live, history>>
      BY DEF Read
    <2>3. QED
      BY <2>1, <2>2 DEF Covered, Used, history
  <1>7. Balanced'
    BY DEF Balanced, Charged, Stray, Read, history
  <1>8. Bounded'
    <2>1. \A k \in Keys : Charged(k)' = Charged(k) /\ Stray(k)' = Stray(k)
      BY DEF Charged, Stray, Read, history
    <2>2. \A k \in Keys : Granted(k)' \subseteq Granted(k)
      <3>1. \A q \in Requests : \A t \in held[q] : window'[q][t] = window[q][t]
        <4>1. stage[r] = "reserve" => at[r] \notin held[r] /\ at[r] \in Tiers
          BY DEF Position, Active, Tiers
        <4>2. QED
          BY <4>1 DEF TypeOK, Read
      <3>2. \A q \in Requests, t \in Tiers : Used(q, t)' = Used(q, t)
        BY DEF Used, Read
      <3>3. QED
        BY <3>1, <3>2 DEF Granted, Keys, Units, Read
    <2>3. \A k \in Keys : Cardinality(Stray(k)) \in Nat
      BY FS_Difference, FS_CardinalityType DEF Finite, Stray
    <2>4. SUFFICES ASSUME NEW k \in Keys
                   PROVE  Cardinality(Granted(k)' \cap Charged(k)') <= Limit[k[1]] + Cardinality(Stray(k)')
      BY DEF Bounded
    <2>5. /\ Granted(k)' \cap Charged(k)' \subseteq Granted(k) \cap Charged(k)
          /\ Cardinality(Stray(k)') \in Nat
          /\ Cardinality(Stray(k)') >= Cardinality(Stray(k))
      BY <2>1, <2>2, <2>3
    <2>6. QED
      BY <2>5, BoundedStays
  <1>9. QED
    BY <1>1, <1>2, <1>3, <1>4, <1>5, <1>6, <1>7, <1>8

\* A key is set to its limit.
LEMMA SetKeyStep ==
  ASSUME IInv, NEW r \in Requests, SetKey(r)
  PROVE  IInv'
  <1> USE DEF IInv
  <1>0. at[r] \in Tiers /\ Key(r) \in Keys
    BY DEF SetKey, Adjusting, Position, Active, TpmTiers, TypeOK, Key, Keys
  <1> PICK k0 \in Keys : k0 = Key(r)
    BY <1>0
  <1>1. at[r] \in Tiers /\ k0 \in Keys /\ k0 = <<at[r], cur[r]>>
    BY <1>0 DEF Key
  <1>2. /\ left' = [left EXCEPT ![k0] = Limit[at[r]]]
        /\ live' = live \cup {k0}
        /\ debits' = [debits EXCEPT ![k0] = {}]
        /\ credits' = [credits EXCEPT ![k0] = {}]
        /\ lost' = [lost EXCEPT ![k0] = @ \cup Charged(k0)]
        /\ step' = [step EXCEPT ![r] = "add"]
        /\ UNCHANGED <<now, stage, at, cur, window, held, owed, actual, faults>>
    BY DEF SetKey
  <1>3. /\ Charged(k0)' = {} /\ Stray(k0)' = {}
        /\ \A j \in Keys : j # k0 => /\ Charged(j)' = Charged(j)
                                     /\ Stray(j)' = Stray(j)
                                     /\ lost'[j] = lost[j]
        /\ lost'[k0] = lost[k0] \cup Charged(k0)
    BY <1>1, <1>2 DEF Charged, Stray, TypeOK
  <1>4. \A j \in Keys : debits'[j] \subseteq debits[j] /\ credits'[j] \subseteq credits[j]
    BY <1>1, <1>2 DEF TypeOK
  <1>5. TypeOK'
    <2>1. Limit[at[r]] \in Int
      BY <1>1, LimitAssumption
    <2>2. Charged(k0) \in SUBSET (Requests \X Nat)
      BY <1>1 DEF Charged, TypeOK
    <2>3. QED
      BY <1>1, <1>2, <2>1, <2>2 DEF TypeOK, Steps
  <1>6. Finite'
    <2>1. \A j \in Keys : IsFiniteSet(debits[j]) /\ IsFiniteSet(credits[j]) /\ IsFiniteSet(lost[j])
      BY DEF Finite
    <2>2. IsFiniteSet(lost[k0] \cup Charged(k0))
      BY <1>1, <2>1, FS_Union, FS_Difference DEF Charged
    <2>3. \A j \in Keys : IsFiniteSet(debits'[j]) /\ IsFiniteSet(credits'[j])
      BY <1>4, <2>1, FS_Subset
    <2>4. \A j \in Keys : IsFiniteSet(lost'[j])
      BY <1>3, <2>1, <2>2
    <2>5. QED
      BY <2>3, <2>4 DEF Finite
  <1>7. Position'
    BY <1>2 DEF Position, TypeOK, SetKey
  <1>8. Fresh'
    BY <1>2, <1>4 DEF Fresh, Uncredited, Corrected
  <1>9. Owned'
    <2>1. \A q \in Requests, j \in Keys : InPlace(q, j) => InPlace(q, j)'
      BY <1>1, <1>2, <1>3 DEF InPlace
    <2>2. \A q \in Requests : InPlace(q, k0)'
      BY <1>3 DEF InPlace
    <2>3. live \subseteq Keys
      BY DEF TypeOK
    <2>4. QED
      BY <1>1, <1>2, <2>1, <2>2, <2>3 DEF Owned
  <1>10. Covered'
    <2>1. SUFFICES ASSUME NEW q \in Requests, NEW t \in held[q], NEW n \in Nat,
                          1 <= n, n <= Used(q, t)
                   PROVE  \/ /\ <<q, n>> \in debits'[<<t, window[q][t]>>]
                             /\ <<q, n>> \notin credits'[<<t, window[q][t]>>]
                          \/ <<q, n>> \in lost'[<<t, window[q][t]>>]
      BY <1>2 DEF Covered, Used
    <2>2. PICK k \in Keys : k = <<t, window[q][t]>>
      <3>1. t \in Tiers /\ window[q][t] \in Minutes
        BY DEF TypeOK
      <3>2. QED
        BY <3>1 DEF Keys
    <2>3. \/ <<q, n>> \in debits[k] /\ <<q, n>> \notin credits[k]
          \/ <<q, n>> \in lost[k]
      BY <2>1, <2>2 DEF Covered
    <2>4. CASE k = k0
      BY <1>3, <2>2, <2>3, <2>4 DEF Charged
    <2>5. CASE k # k0
      BY <1>2, <1>3, <2>2, <2>3, <2>5 DEF TypeOK
    <2>6. QED
      BY <2>2, <2>4, <2>5
  <1>11. Balanced'
    <2>1. Limit[k0[1]] = Limit[at[r]] /\ Limit[at[r]] \in Nat
      BY <1>1, LimitAssumption
    <2>2. left'[k0] = Limit[k0[1]] - Cardinality(Charged(k0)') + Cardinality(Stray(k0)')
      <3>1. left'[k0] = Limit[at[r]]
        BY <1>1, <1>2 DEF TypeOK
      <3>2. Cardinality(Charged(k0)') = 0 /\ Cardinality(Stray(k0)') = 0
        BY <1>3, FS_EmptySet
      <3>3. QED
        BY <2>1, <3>1, <3>2
    <2>3. \A j \in live : j # k0 => left'[j] = Limit[j[1]] - Cardinality(Charged(j)') + Cardinality(Stray(j)')
      <3>1. SUFFICES ASSUME NEW j \in live, j # k0
                     PROVE  left'[j] = Limit[j[1]] - Cardinality(Charged(j)') + Cardinality(Stray(j)')
        OBVIOUS
      <3>2. j \in Keys /\ left'[j] = left[j] /\ Charged(j)' = Charged(j) /\ Stray(j)' = Stray(j)
        BY <1>2, <1>3, <3>1 DEF TypeOK
      <3>3. left[j] = Limit[j[1]] - Cardinality(Charged(j)) + Cardinality(Stray(j))
        BY DEF Balanced
      <3>4. QED
        BY ONLY <3>2, <3>3
    <2>4. QED
      BY <1>2, <2>2, <2>3 DEF Balanced
  <1>12. Bounded'
    <2>1. SUFFICES ASSUME NEW j \in Keys
                   PROVE  Cardinality(Granted(j)' \cap Charged(j)') <= Limit[j[1]] + Cardinality(Stray(j)')
      BY DEF Bounded
    <2>2. CASE j = k0
      <3>1. Granted(j)' \cap Charged(j)' = {} /\ Stray(j)' = {}
        BY <1>3, <2>2
      <3>2. Cardinality({}) = 0 /\ Limit[j[1]] \in Nat
        BY FS_EmptySet, LimitAssumption DEF Keys
      <3>3. QED
        BY <3>1, <3>2
    <2>3. CASE j # k0
      <3>1. Granted(j)' = Granted(j)
        BY <1>2 DEF Granted, Used
      <3>2. Charged(j)' = Charged(j) /\ Stray(j)' = Stray(j)
        BY <1>3, <2>3
      <3>3. QED
        BY <3>1, <3>2 DEF Bounded
    <2>4. QED
      BY <2>2, <2>3
  <1>13. QED
    BY <1>5, <1>6, <1>7, <1>8, <1>9, <1>10, <1>11, <1>12

\* The key request r reserved tier t under is a key.
LEMMA WindowIsKey ==
  ASSUME TypeOK, NEW r \in Requests, NEW t \in held[r]
  PROVE  t \in Tiers /\ <<t, window[r][t]>> \in Keys
  <1>1. t \in Tiers /\ window[r][t] \in Minutes
    BY DEF TypeOK
  <1>2. QED
    BY <1>1 DEF Keys

\* A tier is reserved: passed, or refused with the first steps of the rollback.
LEMMA ReserveStep ==
  ASSUME IInv, NEW r \in Requests, Reserve(r)
  PROVE  IInv'
  <1> USE DEF IInv
  <1>0. at[r] \in Active /\ at[r] \in Tiers /\ Key(r) \in Keys
    BY DEF Reserve, Position, Active, TypeOK, Key, Keys
  <1> PICK k0 \in Keys : k0 = Key(r)
    BY <1>0
  <1> PICK t0 \in Tiers : t0 = at[r]
    BY <1>0
  <1>1. /\ stage[r] = "reserve" /\ step[r] = "add" /\ cur[r] = window[r][t0]
        /\ k0 = <<t0, window[r][t0]>> /\ k0[1] = t0 /\ t0 \in Active
        /\ held[r] = {t \in Active : t < t0} /\ t0 \notin held[r] /\ actual[r] = 0
    BY <1>0 DEF Reserve, Position, Key, Tiers
  <1>2. Cost(r, t0) \in Nat /\ Cost(r, t0) >= 1
    BY RequestsAssumption DEF Cost
  <1> PICK c \in Nat : c = Cost(r, t0) /\ c >= 1
    BY <1>2
  <1> PICK U : U = Units(r, 0, c)
    OBVIOUS
  <1>3. /\ \A q, n : <<q, n>> \in U <=> q = r /\ n \in Nat /\ 0 < n /\ n <= c
        /\ \A u \in U : u = <<r, u[2]>> /\ u[2] \in Nat
        /\ IsFiniteSet(U) /\ Cardinality(U) = c
        /\ U \in SUBSET (Requests \X Nat)
    <2>1. /\ \A q, n : <<q, n>> \in U <=> q = r /\ n \in Nat /\ 0 < n /\ n <= c
          /\ \A u \in U : u = <<r, u[2]>> /\ u[2] \in Nat
          /\ IsFiniteSet(U) /\ (0 <= c => Cardinality(U) = c - 0)
      BY UnitsMembers
    <2>2. QED
      BY <2>1
  <1>4. U \cap debits[k0] = {} /\ U \cap credits[k0] = {}
    <2>1. \A n \in Nat : <<r, n>> \notin debits[k0]
      BY <1>1 DEF Fresh, Tiers
    <2>2. \A n \in Nat : <<r, n>> \notin credits[k0]
      BY <1>1 DEF Fresh, Uncredited
    <2>3. QED
      BY <1>3, <2>1, <2>2
  <1>5. Debit(k0, U) /\ live' = live
    BY DEF Reserve
  <1>6. /\ BooksType' /\ Finite' /\ Balanced'
        /\ \A j \in Keys : Stray(j)' = Stray(j)
        /\ \A j \in Keys : j # k0 \/ k0 \notin live => Charged(j)' = Charged(j)
        /\ k0 \in live => Charged(k0)' = Charged(k0) \cup U
        /\ \A j \in Keys : lost[j] \subseteq lost'[j] /\ Charged(j) \subseteq Charged(j)'
        /\ k0 \notin live => U \subseteq lost'[k0]
    BY <1>3, <1>4, <1>5, DebitBooks
  <1>7. /\ UNCHANGED <<now, live, cur, window, actual, faults, credits>>
        /\ step' = [step EXCEPT ![r] = "read"]
        /\ \A j \in Keys : debits'[j] \subseteq debits[j] \cup (IF j = k0 THEN U ELSE {})
    BY DEF Reserve, Debit, TypeOK
  <1>8. ASSUME NEW q \in Requests, q # r
        PROVE  stage'[q] = stage[q] /\ at'[q] = at[q] /\ held'[q] = held[q] /\ owed'[q] = owed[q]
                 /\ step'[q] = step[q]
    BY <1>8 DEF Reserve, TypeOK
  <1> DEFINE T == Undone(t0) \cap Active
             next == First({t \in Active : t > t0})
             Refuses == /\ k0 \in live /\ left[k0] < c
                        /\ stage'[r] = IF T = {} THEN "refused" ELSE "undo"
                        /\ owed'[r] = T
                        /\ at'[r] = IF T = {} THEN t0 ELSE NextOwed(T)
                        /\ held' = held
             Passes == /\ k0 \in live => left[k0] >= c
                       /\ stage'[r] = IF next = none THEN "serving" ELSE "reserve"
                       /\ at'[r] = next
                       /\ held' = [held EXCEPT ![r] = @ \cup {t0}]
                       /\ owed' = owed
  <1>9. Refuses \/ Passes
    <2>1. Insufficient(r) <=> k0 \in live /\ left[k0] < c
      BY DEF Insufficient
    <2>2. left[k0] \in Int
      BY DEF TypeOK
    <2>3. Insufficient(r) => Refuses
      BY <2>1 DEF Reserve, TypeOK
    <2>4. ~Insufficient(r) => Passes
      BY <1>1, <2>1, <2>2 DEF Reserve, TypeOK
    <2>5. QED
      BY <2>3, <2>4
  <1>10. T = held[r] /\ T \in SUBSET Tiers /\ (T # {} => NextOwed(T) \in T)
    <2>1. T = held[r] /\ T \in SUBSET Tiers
      BY <1>1, UndoneIsBefore DEF Active
    <2>2. QED
      BY <2>1, NextOwedIsOwed
  <1>11. /\ next = none => \A t \in Active : t <= t0
         /\ next # none => /\ next \in Active /\ next > t0
                           /\ \A t \in Active : t < next <=> t <= t0
    <2> DEFINE S == {t \in Active : t > t0}
    <2>1. S \in SUBSET Tiers
      BY DEF Active
    <2>2. /\ S = {} <=> First(S) = none
          /\ S # {} => First(S) \in S /\ \A u \in S : First(S) <= u
      BY <2>1, FirstIsLeast
    <2>3. QED
      BY <2>2 DEF Active, Tiers
  <1> HIDE DEF T, next
  <1>12. TypeOK'
    <2>1. stage' \in [Requests -> Stages] /\ at' \in [Requests -> Tiers \cup {none}]
      <3>1. stage'[r] \in Stages /\ at'[r] \in Tiers \cup {none}
        BY <1>9, <1>10, <1>11 DEF Stages, Active
      <3>2. /\ stage' = [stage EXCEPT ![r] = stage'[r]]
            /\ at' = [at EXCEPT ![r] = at'[r]]
        BY DEF Reserve, TypeOK
      <3>3. QED
        BY <3>1, <3>2 DEF TypeOK
    <2>2. held' \in [Requests -> SUBSET Tiers]
      <3>1. held \in [Requests -> SUBSET Tiers]
        BY DEF TypeOK
      <3>2. held' = held \/ held' = [held EXCEPT ![r] = @ \cup {t0}]
        BY <1>9
      <3>3. QED
        BY ONLY <3>1, <3>2, t0 \in Tiers
    <2>3. owed' \in [Requests -> SUBSET Tiers]
      <3>1. owed' = owed \/ owed' = [owed EXCEPT ![r] = T]
        BY DEF Reserve, T
      <3>2. QED
        BY <1>10, <3>1 DEF TypeOK
    <2>4. QED
      BY <1>6, <1>7, <2>1, <2>2, <2>3 DEF TypeOK, BooksType, Steps
  <1>13. Position'
    <2>1. SUFFICES ASSUME NEW q \in Requests
                   PROVE  /\ stage'[q] = "reserve" => /\ at'[q] \in Active
                                                      /\ held'[q] = {t \in Active : t < at'[q]}
                                                      /\ actual'[q] = 0
                          /\ stage'[q] = "undo" => /\ at'[q] \in held'[q]
                                                   /\ held'[q] \subseteq Active
                                                   /\ owed'[q] = held'[q]
                                                   /\ actual'[q] = 0
                          /\ stage'[q] = "refused" => held'[q] = {}
                          /\ stage'[q] = "serving" => actual'[q] = 0
                          /\ stage'[q] = "reconcile" => at'[q] \in TpmTiers /\ actual'[q] # 0
                          /\ stage'[q] \in {"reserve", "undo"} /\ step'[q] # "read"
                               => cur'[q] = window'[q][at'[q]]
      BY DEF Position
    <2>2. CASE q # r
      BY <1>7, <1>8, <2>2 DEF Position
    <2>3. CASE q = r
      <3>1. step'[r] = "read" /\ actual'[r] = 0
        BY <1>1, <1>7 DEF TypeOK
      <3>2. CASE Refuses
        BY <1>1, <1>10, <2>3, <3>1, <3>2
      <3>3. CASE Passes
        <4>1. held'[r] = held[r] \cup {t0}
          BY <3>3 DEF TypeOK
        <4>2. next # none => held'[r] = {t \in Active : t < next}
          BY <1>1, <1>11, <4>1 DEF Active, Tiers
        <4>3. QED
          BY <1>11, <2>3, <3>1, <3>3, <4>2
      <3>4. QED
        BY <1>9, <3>2, <3>3
    <2>4. QED
      BY <2>2, <2>3
  <1>14. Fresh'
    <2>1. SUFFICES ASSUME NEW q \in Requests, NEW j \in Keys, NEW n \in Nat
                   PROVE  /\ <<q, n>> \in debits'[j] => /\ n >= 1
                                                        /\ stage'[q] = "reserve" => j[1] < at'[q]
                                                        /\ ~Corrected(q, j)' => n <= Cost(q, j[1])
                          /\ Uncredited(q, j)' => <<q, n>> \notin credits'[j]
      BY DEF Fresh
    <2>2. CASE q # r
      <3>1. <<q, n>> \in debits'[j] => <<q, n>> \in debits[j]
        BY <1>3, <1>7, <2>2
      <3>2. Corrected(q, j)' = Corrected(q, j) /\ Uncredited(q, j)' = Uncredited(q, j)
        BY <1>8, <2>2 DEF Corrected, Uncredited
      <3>3. QED
        BY <1>7, <1>8, <2>2, <3>1, <3>2 DEF Fresh
    <2>3. CASE q = r
      <3>1. <<r, n>> \notin credits[j]
        BY <1>1 DEF Fresh, Uncredited
      <3>2. <<r, n>> \in debits[j] => n >= 1 /\ j[1] < t0 /\ n <= Cost(r, j[1])
        BY <1>1 DEF Fresh, Corrected
      <3>3. <<r, n>> \in debits'[j] => n >= 1 /\ j[1] <= t0 /\ n <= Cost(r, j[1])
        <4>1. CASE j = k0
          <5>1. <<r, n>> \in debits'[j] => <<r, n>> \in debits[j] \/ <<r, n>> \in U
            BY <1>7, <4>1
          <5>2. j[1] = t0 /\ t0 \in Int /\ c = Cost(r, j[1])
            BY <1>1, <4>1 DEF Tiers
          <5>3. <<r, n>> \in U => n >= 1 /\ n <= c
            BY <1>3
          <5>4. QED
            BY <3>2, <5>1, <5>2, <5>3
        <4>2. CASE j # k0
          <5>1. j[1] \in Int /\ t0 \in Int
            BY DEF Keys, Tiers
          <5>2. QED
            BY <1>7, <3>2, <4>2, <5>1
        <4>3. QED
          BY <4>1, <4>2
      <3>4. stage'[r] = "reserve" => at'[r] > t0 /\ at'[r] \in Tiers
        BY <1>9, <1>11 DEF Active
      <3>5. j[1] \in Int /\ t0 \in Int
        BY DEF Keys, Tiers
      <3>6. QED
        BY <1>7, <2>3, <3>1, <3>3, <3>4, <3>5 DEF Tiers
    <2>4. QED
      BY <2>2, <2>3
  <1>15. \A j \in Keys : \A n \in Nat : <<r, n>> \in Charged(j)' =>
           \/ j = k0
           \/ j[1] \in held[r] /\ window[r][j[1]] = j[2]
    BY <1>1, <1>6 DEF Owned, InPlace
  <1>16. \A q \in Requests : q # r => \A j \in Keys : InPlace(q, j) => InPlace(q, j)'
    <2>1. SUFFICES ASSUME NEW q \in Requests, q # r, NEW j \in Keys, InPlace(q, j),
                          NEW n \in Nat, <<q, n>> \in Charged(j)'
                   PROVE  j[1] \in held'[q] /\ window'[q][j[1]] = j[2]
      BY DEF InPlace
    <2>2. <<q, n>> \in Charged(j)
      BY <1>3, <1>6, <2>1
    <2>3. QED
      BY <1>7, <1>8, <2>1, <2>2 DEF InPlace
  <1>17. Owned'
    <2>1. SUFFICES ASSUME NEW q \in Requests
                   PROVE  /\ stage'[q] = "reserve" => \A j \in Keys : InPlace(q, j)'
                          /\ stage'[q] \in {"undo", "refused"}
                               => \E i \in Keys : \A j \in live' : j # i => InPlace(q, j)'
      BY DEF Owned
    <2>2. live \subseteq Keys
      BY DEF TypeOK
    <2>3. CASE q # r
      BY <1>7, <1>8, <1>16, <2>2, <2>3 DEF Owned
    <2>4. CASE q = r
      <3>1. CASE Refuses
        <4>1. \A j \in live : j # k0 => InPlace(r, j)'
          BY <1>7, <1>15, <2>2, <3>1 DEF InPlace
        <4>2. QED
          BY <1>7, <2>4, <3>1, <4>1
      <3>2. CASE Passes
        <4>1. held'[r] = held[r] \cup {t0}
          BY <3>2 DEF TypeOK
        <4>2. \A j \in Keys : InPlace(r, j)'
          BY <1>1, <1>7, <1>15, <4>1 DEF InPlace
        <4>3. QED
          BY <2>4, <3>2, <4>2
      <3>3. QED
        BY <1>9, <3>1, <3>2
    <2>5. QED
      BY <2>3, <2>4
  <1>18. \A q \in Requests, t \in Tiers : Used(q, t)' = Used(q, t)
    BY <1>7 DEF Used
  <1>19. Covered'
    <2>1. SUFFICES ASSUME NEW q \in Requests, NEW t \in held'[q], NEW n \in Nat,
                          1 <= n, n <= Used(q, t)
                   PROVE  \/ /\ <<q, n>> \in debits'[<<t, window[q][t]>>]
                             /\ <<q, n>> \notin credits[<<t, window[q][t]>>]
                          \/ <<q, n>> \in lost'[<<t, window[q][t]>>]
      BY <1>7, <1>12, <1>18 DEF Covered, TypeOK
    <2>2. CASE t \in held[q]
      <3>1. <<t, window[q][t]>> \in Keys
        BY <2>2, WindowIsKey
      <3>2. PICK j \in Keys : j = <<t, window[q][t]>>
        BY <3>1
      <3>3. <<q, n>> \in Charged(j) \/ <<q, n>> \in lost[j]
        BY <2>1, <2>2, <3>2 DEF Covered, Charged
      <3>4. <<q, n>> \in Charged(j)' \/ <<q, n>> \in lost'[j]
        BY <1>6, <3>3
      <3>5. QED
        BY <1>7, <3>2, <3>4 DEF Charged
    <2>3. CASE t \notin held[q]
      <3>1. q = r /\ t = t0
        <4>1. q = r
          BY <1>8, <2>3
        <4>2. held'[r] = held[r] \/ held'[r] = held[r] \cup {t0}
          BY <1>9 DEF TypeOK
        <4>3. QED
          BY <2>3, <4>1, <4>2
      <3>2. Used(q, t) = c
        BY <1>1, <3>1 DEF Used
      <3>3. <<q, n>> \in U
        BY <1>3, <2>1, <3>1, <3>2
      <3>4. <<q, n>> \in Charged(k0)' \/ <<q, n>> \in lost'[k0]
        BY <1>6, <3>3
      <3>5. QED
        BY <1>1, <1>7, <3>1, <3>4 DEF Charged
    <2>4. QED
      BY <2>2, <2>3
  <1>20. \A j \in Keys : \A u \in Granted(j)' \cap Charged(j)' :
            u \in Granted(j) \cap Charged(j) \/ (j = k0 /\ Passes /\ k0 \in live)
    <2>1. SUFFICES ASSUME NEW j \in Keys, NEW u \in Granted(j)' \cap Charged(j)',
                          ~(j = k0 /\ Passes /\ k0 \in live)
                   PROVE  u \in Granted(j) /\ u \in Charged(j)
      OBVIOUS
    <2>2. PICK q \in Requests : /\ j[1] \in held'[q] /\ window[q][j[1]] = j[2]
                                /\ u \in Units(q, 0, Used(q, j[1]))
      <3>1. j[1] \in Tiers
        BY DEF Keys
      <3>2. QED
        BY <1>7, <1>18, <3>1 DEF Granted, Units
    <2>3. CASE j[1] \in held[q]
      <3>1. u \in Granted(j)
        BY <2>2, <2>3 DEF Granted
      <3>2. u \in Charged(j)
        <4>1. CASE q # r
          <5>1. u \notin U
            BY <1>3, <2>2, <4>1 DEF Units
          <5>2. QED
            BY <1>6, <5>1
        <4>2. CASE q = r
          <5>1. j # k0
            BY <1>1, <2>3, <4>2
          <5>2. QED
            BY <1>6, <5>1
        <4>3. QED
          BY <4>1, <4>2
      <3>3. QED
        BY <3>1, <3>2
    <2>4. CASE j[1] \notin held[q]
      <3>1. q = r /\ j[1] = t0 /\ Passes
        <4>1. q = r
          BY <1>8, <2>2, <2>4
        <4>2. Refuses => held'[r] = held[r]
          OBVIOUS
        <4>3. Passes => held'[r] = held[r] \cup {t0}
          BY DEF TypeOK
        <4>4. QED
          BY <1>9, <2>2, <2>4, <4>1, <4>2, <4>3
      <3>2. j = k0
        BY <1>1, <2>2, <3>1 DEF Keys
      <3>3. k0 \notin live
        BY <2>1, <3>1, <3>2
      <3>4. u \in Charged(k0)
        BY <1>6, <3>2, <3>3
      <3>5. u \in U
        <4>1. Used(r, t0) = c
          BY <1>1 DEF Used
        <4>2. QED
          BY <2>2, <3>1, <4>1
      <3>6. QED
        BY <1>4, <3>4, <3>5 DEF Charged
    <2>5. QED
      BY <2>3, <2>4
  <1>21. Bounded'
    <2>1. SUFFICES ASSUME NEW j \in Keys
                   PROVE  Cardinality(Granted(j)' \cap Charged(j)') <= Limit[j[1]] + Cardinality(Stray(j)')
      BY DEF Bounded
    <2>2. Cardinality(Stray(j)) \in Nat /\ Stray(j)' = Stray(j)
      BY <1>6, FS_Difference, FS_CardinalityType DEF Finite, Stray
    <2>3. CASE j = k0 /\ Passes /\ k0 \in live
      <3>1. left[k0] >= c /\ left[k0] \in Int
        BY <2>3 DEF TypeOK
      <3>2. left[k0] = Limit[t0] - Cardinality(Charged(k0)) + Cardinality(Stray(k0))
        BY <1>1, <2>3 DEF Balanced
      <3>3. IsFiniteSet(Charged(k0)) /\ IsFiniteSet(Charged(k0)')
        BY <1>6, FS_Difference DEF Finite, Charged
      <3>4. Cardinality(Charged(k0)') <= Cardinality(Charged(k0)) + c
        <4>1. Charged(k0)' = Charged(k0) \cup U
          BY <1>6, <2>3
        <4>2. Cardinality(Charged(k0) \cup U)
                = Cardinality(Charged(k0)) + Cardinality(U) - Cardinality(Charged(k0) \cap U)
          BY <1>3, <3>3, FS_Union
        <4>3. Cardinality(Charged(k0) \cap U) \in Nat /\ Cardinality(Charged(k0)) \in Nat
          BY <3>3, FS_Intersection, FS_CardinalityType
        <4>4. Cardinality(U) = c
          BY <1>3
        <4>5. QED
          BY ONLY c \in Nat, <4>1, <4>2, <4>3, <4>4
      <3>5. /\ Cardinality(Granted(k0)' \cap Charged(k0)') <= Cardinality(Charged(k0)')
            /\ Cardinality(Granted(k0)' \cap Charged(k0)') \in Nat
        BY <3>3, FS_Intersection, FS_CardinalityType
      <3>6. Cardinality(Charged(k0)) \in Nat /\ Cardinality(Charged(k0)') \in Nat /\ Limit[t0] \in Nat
        BY <3>3, FS_CardinalityType, LimitAssumption
      <3>7. Cardinality(Granted(k0)' \cap Charged(k0)') <= Limit[t0] + Cardinality(Stray(k0))
        <4>1. Cardinality(Stray(k0)) \in Nat
          BY <2>2, <2>3
        <4>2. QED
          BY ONLY c \in Nat, <3>1, <3>2, <3>4, <3>5, <3>6, <4>1
      <3>8. QED
        BY <1>1, <2>2, <2>3, <3>7
    <2>4. CASE ~(j = k0 /\ Passes /\ k0 \in live)
      <3>1. Granted(j)' \cap Charged(j)' \subseteq Granted(j) \cap Charged(j)
        BY <1>20, <2>4
      <3>2. Cardinality(Stray(j)') \in Nat /\ Cardinality(Stray(j)') >= Cardinality(Stray(j))
        BY <2>2
      <3>3. QED
        BY <3>1, <3>2, BoundedStays
    <2>5. QED
      BY <2>3, <2>4
  <1>22. QED
    BY <1>6, <1>12, <1>13, <1>14, <1>17, <1>19, <1>21

\* One tier of a rollback is given back.
LEMMA GiveBackStep ==
  ASSUME IInv, NEW r \in Requests, GiveBack(r)
  PROVE  IInv'
  <1> USE DEF IInv
  <1>0. at[r] \in held[r] /\ at[r] \in Tiers /\ Key(r) \in Keys
    <2>1. at[r] \in held[r] /\ at[r] \in Tiers
      BY DEF GiveBack, Position, TypeOK
    <2>2. QED
      BY <2>1 DEF Key, Keys, TypeOK
  <1> PICK k0 \in Keys : k0 = Key(r)
    BY <1>0
  <1> PICK t0 \in Tiers : t0 = at[r]
    BY <1>0
  <1>1. /\ stage[r] = "undo" /\ step[r] = "add" /\ k0 = <<t0, window[r][t0]>> /\ k0[1] = t0
        /\ t0 \in held[r] /\ owed[r] = held[r] /\ held[r] \subseteq Active /\ actual[r] = 0
    BY <1>0 DEF GiveBack, Position, Key
  <1> PICK c \in Nat : c = Cost(r, t0)
    BY RequestsAssumption DEF Cost
  <1> PICK U : U = Units(r, 0, c)
    OBVIOUS
  <1>3. /\ \A q, n : <<q, n>> \in U <=> q = r /\ n \in Nat /\ 0 < n /\ n <= c
        /\ \A u \in U : u = <<r, u[2]>> /\ u[2] \in Nat
        /\ IsFiniteSet(U) /\ U \in SUBSET (Requests \X Nat)
    <2>1. /\ \A q, n : <<q, n>> \in U <=> q = r /\ n \in Nat /\ 0 < n /\ n <= c
          /\ \A u \in U : u = <<r, u[2]>> /\ u[2] \in Nat
          /\ IsFiniteSet(U)
      BY UnitsMembers
    <2>2. QED
      BY <2>1
  <1>4. U \cap credits[k0] = {}
    <2>1. \A n \in Nat : <<r, n>> \notin credits[k0]
      BY <1>1 DEF Fresh, Uncredited
    <2>2. QED
      BY <1>3, <2>1
  <1>5. Credit(k0, U) /\ live' = live
    BY DEF GiveBack
  <1>6. /\ BooksType' /\ Finite' /\ Balanced'
        /\ debits' = debits /\ lost' = lost
        /\ \A j \in Keys : j # k0 => credits'[j] = credits[j]
        /\ k0 \in live => credits'[k0] = credits[k0] \cup U
        /\ k0 \notin live => credits' = credits
        /\ \A j \in Keys : /\ Charged(j)' \subseteq Charged(j)
                           /\ Cardinality(Stray(j)') \in Nat
                           /\ Cardinality(Stray(j)') >= Cardinality(Stray(j))
    BY <1>3, <1>4, <1>5, CreditBooks
  <1>7. /\ UNCHANGED <<now, live, cur, window, actual, faults>>
        /\ step' = [step EXCEPT ![r] = "read"]
    BY DEF GiveBack
  <1>8. ASSUME NEW q \in Requests, q # r
        PROVE  stage'[q] = stage[q] /\ at'[q] = at[q] /\ held'[q] = held[q] /\ owed'[q] = owed[q]
                 /\ step'[q] = step[q]
    BY <1>8 DEF GiveBack, TypeOK
  <1> DEFINE T == held[r] \ {t0}
  <1>9. /\ held'[r] = T /\ owed'[r] = T
        /\ T = {} => stage'[r] = "refused" /\ at'[r] = t0
        /\ T # {} => stage'[r] = "undo" /\ at'[r] = NextOwed(T)
    BY <1>1 DEF GiveBack, TypeOK
  <1>10. T \in SUBSET Tiers /\ (T # {} => NextOwed(T) \in T)
    <2>1. T \in SUBSET Tiers
      BY DEF TypeOK
    <2>2. QED
      BY <2>1, NextOwedIsOwed
  <1> HIDE DEF T
  <1>11. \A q \in Requests : held'[q] \subseteq held[q]
    BY <1>8, <1>9 DEF T
  <1>12. TypeOK'
    <2>1. stage'[r] \in Stages /\ at'[r] \in Tiers
      BY <1>9, <1>10 DEF Stages
    <2>2. /\ stage' = [stage EXCEPT ![r] = stage'[r]]
          /\ at' = [at EXCEPT ![r] = at'[r]]
          /\ held' = [held EXCEPT ![r] = held'[r]]
          /\ owed' = [owed EXCEPT ![r] = owed'[r]]
      BY DEF GiveBack, TypeOK
    <2>3. stage' \in [Requests -> Stages] /\ at' \in [Requests -> Tiers \cup {none}]
      BY <2>1, <2>2 DEF TypeOK
    <2>4. held' \in [Requests -> SUBSET Tiers] /\ owed' \in [Requests -> SUBSET Tiers]
      BY <1>9, <1>10, <2>2 DEF TypeOK
    <2>5. QED
      BY <1>6, <1>7, <2>3, <2>4 DEF TypeOK, BooksType, Steps
  <1>13. Position'
    <2>1. SUFFICES ASSUME NEW q \in Requests
                   PROVE  /\ stage'[q] = "reserve" => /\ at'[q] \in Active
                                                      /\ held'[q] = {t \in Active : t < at'[q]}
                                                      /\ actual'[q] = 0
                          /\ stage'[q] = "undo" => /\ at'[q] \in held'[q]
                                                   /\ held'[q] \subseteq Active
                                                   /\ owed'[q] = held'[q]
                                                   /\ actual'[q] = 0
                          /\ stage'[q] = "refused" => held'[q] = {}
                          /\ stage'[q] = "serving" => actual'[q] = 0
                          /\ stage'[q] = "reconcile" => at'[q] \in TpmTiers /\ actual'[q] # 0
                          /\ stage'[q] \in {"reserve", "undo"} /\ step'[q] # "read"
                               => cur'[q] = window'[q][at'[q]]
      BY DEF Position
    <2>2. CASE q # r
      BY <1>7, <1>8, <2>2 DEF Position
    <2>3. CASE q = r
      <3>1. step'[r] = "read" /\ actual'[r] = 0
        BY <1>1, <1>7 DEF TypeOK
      <3>2. T \subseteq Active
        BY <1>1 DEF T
      <3>3. QED
        BY <1>9, <1>10, <2>3, <3>1, <3>2
    <2>4. QED
      BY <2>2, <2>3
  <1>14. Fresh'
    <2>1. SUFFICES ASSUME NEW q \in Requests, NEW j \in Keys, NEW n \in Nat
                   PROVE  /\ <<q, n>> \in debits'[j] => /\ n >= 1
                                                        /\ stage'[q] = "reserve" => j[1] < at'[q]
                                                        /\ ~Corrected(q, j)' => n <= Cost(q, j[1])
                          /\ Uncredited(q, j)' => <<q, n>> \notin credits'[j]
      BY DEF Fresh
    <2>2. CASE q # r
      <3>1. <<q, n>> \in credits'[j] => <<q, n>> \in credits[j]
        BY <1>3, <1>6, <2>2
      <3>2. Corrected(q, j)' = Corrected(q, j) /\ Uncredited(q, j)' = Uncredited(q, j)
        BY <1>8, <2>2 DEF Corrected, Uncredited
      <3>3. QED
        BY <1>6, <1>8, <2>2, <3>1, <3>2 DEF Fresh
    <2>3. CASE q = r
      <3>1. <<r, n>> \in debits[j] => n >= 1 /\ n <= Cost(r, j[1])
        BY <1>1 DEF Fresh, Corrected
      <3>2. Uncredited(r, j)' => j # k0 /\ Uncredited(r, j)
        BY <1>1, <1>9 DEF Uncredited, T
      <3>3. Uncredited(r, j)' => <<r, n>> \notin credits'[j]
        BY <1>6, <3>2 DEF Fresh
      <3>4. stage'[r] # "reserve"
        BY <1>9
      <3>5. QED
        BY <1>6, <2>3, <3>1, <3>3, <3>4
    <2>4. QED
      BY <2>2, <2>3
  <1>15. Owned'
    <2>1. SUFFICES ASSUME NEW q \in Requests
                   PROVE  /\ stage'[q] = "reserve" => \A j \in Keys : InPlace(q, j)'
                          /\ stage'[q] \in {"undo", "refused"}
                               => \E i \in Keys : \A j \in live' : j # i => InPlace(q, j)'
      BY DEF Owned
    <2>2. live \subseteq Keys
      BY DEF TypeOK
    <2>3. CASE q # r
      <3>1. \A j \in Keys : InPlace(q, j) => InPlace(q, j)'
        BY <1>6, <1>7, <1>8, <2>3 DEF InPlace
      <3>2. QED
        BY <1>7, <1>8, <2>2, <2>3, <3>1 DEF Owned
    <2>4. CASE q = r
      <3>1. PICK i \in Keys : \A j \in live : j # i => InPlace(r, j)
        BY <1>1 DEF Owned
      <3>2. k0 \in live => \A n \in Nat : <<r, n>> \notin Charged(k0)'
        <4>1. SUFFICES ASSUME k0 \in live, NEW n \in Nat, <<r, n>> \in Charged(k0)'
                       PROVE  FALSE
          OBVIOUS
        <4>2. <<r, n>> \in debits[k0] /\ <<r, n>> \notin U
          BY <1>6, <4>1 DEF Charged
        <4>3. n >= 1 /\ n <= c
          BY <1>1, <4>2 DEF Fresh, Corrected
        <4>4. QED
          BY <1>3, <4>2, <4>3
      <3>3. \A j \in live : j # i => InPlace(r, j)'
        <4>1. SUFFICES ASSUME NEW j \in live, j # i, NEW n \in Nat, <<r, n>> \in Charged(j)'
                       PROVE  j[1] \in held'[r] /\ window'[r][j[1]] = j[2]
          BY DEF InPlace
        <4>2. j # k0
          BY <3>2, <4>1
        <4>3. j[1] \in held[r] /\ window[r][j[1]] = j[2]
          BY <1>6, <2>2, <3>1, <4>1 DEF InPlace
        <4>4. j[1] # t0
          BY <1>1, <2>2, <4>2, <4>3 DEF Keys
        <4>5. QED
          BY <1>7, <1>9, <4>3, <4>4 DEF T
      <3>4. stage'[r] # "reserve"
        BY <1>9
      <3>5. QED
        BY <1>7, <2>4, <3>3, <3>4
    <2>5. QED
      BY <2>3, <2>4
  <1>16. \A q \in Requests, t \in Tiers : Used(q, t)' = Used(q, t)
    BY <1>7 DEF Used
  <1>17. Covered'
    <2>1. SUFFICES ASSUME NEW q \in Requests, NEW t \in held'[q], NEW n \in Nat,
                          1 <= n, n <= Used(q, t)
                   PROVE  \/ /\ <<q, n>> \in debits[<<t, window[q][t]>>]
                             /\ <<q, n>> \notin credits'[<<t, window[q][t]>>]
                          \/ <<q, n>> \in lost[<<t, window[q][t]>>]
      BY <1>6, <1>7, <1>12, <1>16 DEF Covered, TypeOK
    <2>2. t \in held[q]
      BY <1>11
    <2>3. PICK j \in Keys : j = <<t, window[q][t]>>
      BY <2>2, WindowIsKey
    <2>4. <<q, n>> \in Charged(j) \/ <<q, n>> \in lost[j]
      BY <2>1, <2>2, <2>3 DEF Covered, Charged
    <2>5. <<q, n>> \notin credits[j] => <<q, n>> \notin credits'[j]
      <3>1. CASE q # r
        BY <1>3, <1>6, <3>1
      <3>2. CASE q = r
        <4>1. t # t0
          BY <1>9, <3>2 DEF T
        <4>2. j # k0
          BY <1>1, <2>3, <4>1
        <4>3. QED
          BY <1>6, <4>2
      <3>3. QED
        BY <3>1, <3>2
    <2>6. QED
      BY <2>3, <2>4, <2>5 DEF Charged
  <1>18. Bounded'
    <2>1. SUFFICES ASSUME NEW j \in Keys
                   PROVE  Cardinality(Granted(j)' \cap Charged(j)') <= Limit[j[1]] + Cardinality(Stray(j)')
      BY DEF Bounded
    <2>2. Granted(j)' \subseteq Granted(j)
      <3>1. j[1] \in Tiers
        BY DEF Keys
      <3>2. QED
        BY <1>7, <1>11, <1>16, <3>1 DEF Granted, Units
    <2>3. QED
      BY <1>6, <2>2, BoundedStays
  <1>19. QED
    BY <1>6, <1>12, <1>13, <1>14, <1>15, <1>17, <1>18

\* One token counter is corrected by the difference to the actual usage.
LEMMA ReconcileStep ==
  ASSUME IInv, NEW r \in Requests, Reconcile(r)
  PROVE  IInv'
  <1> USE DEF IInv
  <1>0. at[r] \in TpmTiers /\ at[r] \in Tiers /\ Key(r) \in Keys
    <2>1. at[r] \in TpmTiers /\ at[r] \in Tiers
      BY DEF Reconcile, Position, TpmTiers, Active
    <2>2. QED
      BY <2>1 DEF Key, Keys, TypeOK
  <1> PICK k0 \in Keys : k0 = Key(r)
    BY <1>0
  <1> PICK t0 \in Tiers : t0 = at[r]
    BY <1>0
  <1> PICK e \in Nat : e = Estimate[r] /\ e = Cost(r, t0)
    BY <1>0, RequestsAssumption DEF Cost, TpmTiers
  <1> PICK a \in Nat : a = actual[r] /\ a # 0
    BY DEF TypeOK, Position, Reconcile
  <1>1. /\ stage[r] = "reconcile" /\ step[r] = "add" /\ k0[1] = t0 /\ IsTpm(t0) /\ t0 \in TpmTiers
    BY <1>0 DEF Reconcile, Key, TpmTiers
  <1>2. /\ \A n \in Nat : <<r, n>> \notin credits[k0]
        /\ \A n \in Nat : <<r, n>> \in debits[k0] => n <= e
    BY <1>1 DEF Fresh, Uncredited, Corrected, Tiers
  <1>3. /\ UNCHANGED <<now, live, cur, window, held, owed, actual, faults>>
        /\ step' = [step EXCEPT ![r] = "read"]
    BY DEF Reconcile
  <1>4. ASSUME NEW q \in Requests, q # r
        PROVE  stage'[q] = stage[q] /\ at'[q] = at[q] /\ step'[q] = step[q]
    BY <1>4 DEF Reconcile, TypeOK
  <1> DEFINE next == First({t \in TpmTiers : t > t0})
  <1>5. at'[r] = next /\ stage'[r] = IF next = none THEN "done" ELSE "reconcile"
    BY <1>1 DEF Reconcile, TypeOK
  <1>6. next # none => next \in TpmTiers /\ next > t0
    <2> DEFINE S == {t \in TpmTiers : t > t0}
    <2>1. S \in SUBSET Tiers
      BY DEF Active, TpmTiers
    <2>2. /\ S = {} <=> First(S) = none
          /\ S # {} => First(S) \in S /\ \A u \in S : First(S) <= u
      BY <2>1, FirstIsLeast
    <2>3. QED
      BY <2>2
  <1>6a. next = none \/ next \in Tiers
    BY <1>6 DEF TpmTiers, Active
  <1> HIDE DEF next
  <1>7. \A q \in Requests, t \in Tiers : Used(q, t)' = Used(q, t)
    BY <1>3 DEF Used
  <1>8. \A j \in Keys : Granted(j)' = Granted(j)
    BY <1>3 DEF Granted, Used
  <1>9. stage' \in [Requests -> Stages] /\ at' \in [Requests -> Tiers \cup {none}]
    <2>1. stage'[r] \in Stages /\ at'[r] \in Tiers \cup {none}
      BY <1>5, <1>6a DEF Stages
    <2>2. /\ stage' = [stage EXCEPT ![r] = stage'[r]]
          /\ at' = [at EXCEPT ![r] = at'[r]]
      BY DEF Reconcile, TypeOK
    <2>3. QED
      BY <2>1, <2>2 DEF TypeOK
  <1>10. Position'
    <2>1. SUFFICES ASSUME NEW q \in Requests
                   PROVE  /\ stage'[q] = "reserve" => /\ at'[q] \in Active
                                                      /\ held'[q] = {t \in Active : t < at'[q]}
                                                      /\ actual'[q] = 0
                          /\ stage'[q] = "undo" => /\ at'[q] \in held'[q]
                                                   /\ held'[q] \subseteq Active
                                                   /\ owed'[q] = held'[q]
                                                   /\ actual'[q] = 0
                          /\ stage'[q] = "refused" => held'[q] = {}
                          /\ stage'[q] = "serving" => actual'[q] = 0
                          /\ stage'[q] = "reconcile" => at'[q] \in TpmTiers /\ actual'[q] # 0
                          /\ stage'[q] \in {"reserve", "undo"} /\ step'[q] # "read"
                               => cur'[q] = window'[q][at'[q]]
      BY DEF Position
    <2>2. CASE q # r
      BY <1>3, <1>4, <2>2 DEF Position
    <2>3. CASE q = r
      BY <1>3, <1>5, <1>6, <2>3
    <2>4. QED
      BY <2>2, <2>3
  <1>11. \A q \in Requests, j \in Keys :
           /\ Corrected(q, j) => Corrected(q, j)'
           /\ Uncredited(q, j)' => Uncredited(q, j) /\ (q = r => j # k0)
           /\ q = r /\ j = k0 => Corrected(q, j)'
    <2>1. SUFFICES ASSUME NEW q \in Requests, NEW j \in Keys
                   PROVE  /\ Corrected(q, j) => Corrected(q, j)'
                          /\ Uncredited(q, j)' => Uncredited(q, j) /\ (q = r => j # k0)
                          /\ q = r /\ j = k0 => Corrected(q, j)'
      OBVIOUS
    <2>2. CASE q # r
      BY <1>3, <1>4, <2>2 DEF Corrected, Uncredited
    <2>3. CASE q = r
      <3>1. j[1] \in Tiers
        BY DEF Keys
      <3>2. QED
        BY <1>1, <1>5, <1>6, <1>6a, <2>3, <3>1 DEF Corrected, Uncredited, Tiers
    <2>4. QED
      BY <2>2, <2>3
  <1>12. CASE a < e /\ Credit(k0, Units(r, a, e))
    <2> PICK U : U = Units(r, a, e)
      OBVIOUS
    <2>1. /\ \A q, n : <<q, n>> \in U <=> q = r /\ n \in Nat /\ a < n /\ n <= e
          /\ \A u \in U : u = <<r, u[2]>> /\ u[2] \in Nat
          /\ IsFiniteSet(U) /\ U \in SUBSET (Requests \X Nat)
      <3>1. /\ \A q, n : <<q, n>> \in U <=> q = r /\ n \in Nat /\ a < n /\ n <= e
            /\ \A u \in U : u = <<r, u[2]>> /\ u[2] \in Nat
            /\ IsFiniteSet(U)
        BY UnitsMembers
      <3>2. QED
        BY <3>1
    <2>2. U \cap credits[k0] = {}
      BY <1>2, <2>1
    <2>3. /\ BooksType' /\ Finite' /\ Balanced'
          /\ debits' = debits /\ lost' = lost
          /\ \A j \in Keys : j # k0 => credits'[j] = credits[j]
          /\ k0 \in live => credits'[k0] = credits[k0] \cup U
          /\ k0 \notin live => credits' = credits
          /\ \A j \in Keys : /\ Charged(j)' \subseteq Charged(j)
                             /\ Cardinality(Stray(j)') \in Nat
                             /\ Cardinality(Stray(j)') >= Cardinality(Stray(j))
      BY <1>3, <1>12, <2>1, <2>2, CreditBooks
    <2>4. TypeOK'
      BY <1>3, <1>9, <2>3 DEF TypeOK, BooksType, Steps
    <2>5. Fresh'
      <3>1. SUFFICES ASSUME NEW q \in Requests, NEW j \in Keys, NEW n \in Nat
                     PROVE  /\ <<q, n>> \in debits'[j] => /\ n >= 1
                                                          /\ stage'[q] = "reserve" => j[1] < at'[q]
                                                          /\ ~Corrected(q, j)' => n <= Cost(q, j[1])
                            /\ Uncredited(q, j)' => <<q, n>> \notin credits'[j]
        BY DEF Fresh
      <3>2. stage'[q] = "reserve" => stage[q] = "reserve" /\ at'[q] = at[q]
        BY <1>4, <1>5
      <3>3. <<q, n>> \in debits[j] => /\ n >= 1
                                      /\ stage'[q] = "reserve" => j[1] < at'[q]
                                      /\ ~Corrected(q, j)' => n <= Cost(q, j[1])
        BY <1>11, <3>2 DEF Fresh
      <3>4. Uncredited(q, j)' => <<q, n>> \notin credits'[j]
        BY <1>11, <2>1, <2>3 DEF Fresh
      <3>5. QED
        BY <2>3, <3>3, <3>4
    <2>6. Owned'
      <3>1. live \subseteq Keys
        BY DEF TypeOK
      <3>2. \A q \in Requests, j \in Keys : InPlace(q, j) => InPlace(q, j)'
        BY <1>3, <2>3 DEF InPlace
      <3>3. \A q \in Requests : stage'[q] \in {"reserve", "undo", "refused"} => stage'[q] = stage[q]
        BY <1>4, <1>5
      <3>4. QED
        BY <1>3, <3>1, <3>2, <3>3 DEF Owned
    <2>7. Covered'
      <3>1. SUFFICES ASSUME NEW q \in Requests, NEW t \in held[q], NEW n \in Nat,
                            1 <= n, n <= Used(q, t)
                     PROVE  \/ /\ <<q, n>> \in debits[<<t, window[q][t]>>]
                               /\ <<q, n>> \notin credits'[<<t, window[q][t]>>]
                            \/ <<q, n>> \in lost[<<t, window[q][t]>>]
        BY <1>3, <1>7, <2>3 DEF Covered, TypeOK
      <3>2. PICK j \in Keys : j = <<t, window[q][t]>>
        BY WindowIsKey
      <3>3. <<q, n>> \in Charged(j) \/ <<q, n>> \in lost[j]
        BY <3>1, <3>2 DEF Covered, Charged
      <3>4. ~(j = k0 /\ <<q, n>> \in U)
        <4>1. SUFFICES ASSUME j = k0, q = r, a < n
                       PROVE  FALSE
          BY <2>1
        <4>2. t = t0
          BY <1>1, <3>2, <4>1
        <4>3. Used(r, t0) = a
          BY <1>1, <1>12 DEF Used
        <4>4. QED
          BY <3>1, <4>1, <4>2, <4>3
      <3>5. QED
        BY <2>3, <3>2, <3>3, <3>4 DEF Charged
    <2>8. Bounded'
      <3>1. SUFFICES ASSUME NEW j \in Keys
                     PROVE  Cardinality(Granted(j)' \cap Charged(j)') <= Limit[j[1]] + Cardinality(Stray(j)')
        BY DEF Bounded
      <3>2. QED
        BY <1>8, <2>3, BoundedStays
    <2>9. QED
      BY <1>10, <2>3, <2>4, <2>5, <2>6, <2>7, <2>8
  <1>13. CASE a > e /\ Debit(k0, Units(r, e, a))
    <2> PICK U : U = Units(r, e, a)
      OBVIOUS
    <2>1. /\ \A q, n : <<q, n>> \in U <=> q = r /\ n \in Nat /\ e < n /\ n <= a
          /\ \A u \in U : u = <<r, u[2]>> /\ u[2] \in Nat
          /\ IsFiniteSet(U) /\ U \in SUBSET (Requests \X Nat)
      <3>1. /\ \A q, n : <<q, n>> \in U <=> q = r /\ n \in Nat /\ e < n /\ n <= a
            /\ \A u \in U : u = <<r, u[2]>> /\ u[2] \in Nat
            /\ IsFiniteSet(U)
        <4>1. /\ \A q, n : <<q, n>> \in Units(r, e, a) <=> q = r /\ n \in Nat /\ e < n /\ n <= a
              /\ \A u \in Units(r, e, a) : u = <<r, u[2]>> /\ u[2] \in Nat
              /\ IsFiniteSet(Units(r, e, a))
          BY ONLY e \in Nat, a \in Nat, UnitsMembers
        <4>2. QED
          BY <4>1
      <3>2. QED
        BY <3>1
    <2>2. U \cap credits[k0] = {} /\ U \cap debits[k0] = {}
      BY <1>2, <2>1
    <2>3. /\ BooksType' /\ Finite' /\ Balanced'
          /\ \A j \in Keys : Stray(j)' = Stray(j)
          /\ \A j \in Keys : j # k0 \/ k0 \notin live => Charged(j)' = Charged(j)
          /\ k0 \in live => Charged(k0)' = Charged(k0) \cup U
          /\ \A j \in Keys : lost[j] \subseteq lost'[j] /\ Charged(j) \subseteq Charged(j)'
          /\ k0 \notin live => U \subseteq lost'[k0]
      BY <1>3, <1>13, <2>1, <2>2, DebitBooks
    <2>4. credits' = credits /\ \A j \in Keys : debits'[j] \subseteq debits[j] \cup (IF j = k0 THEN U ELSE {})
      BY <1>13 DEF Debit, TypeOK
    <2>5. TypeOK'
      BY <1>3, <1>9, <2>3 DEF TypeOK, BooksType, Steps
    <2>6. Fresh'
      <3>1. SUFFICES ASSUME NEW q \in Requests, NEW j \in Keys, NEW n \in Nat
                     PROVE  /\ <<q, n>> \in debits'[j] => /\ n >= 1
                                                          /\ stage'[q] = "reserve" => j[1] < at'[q]
                                                          /\ ~Corrected(q, j)' => n <= Cost(q, j[1])
                            /\ Uncredited(q, j)' => <<q, n>> \notin credits'[j]
        BY DEF Fresh
      <3>2. stage'[q] = "reserve" => stage[q] = "reserve" /\ at'[q] = at[q]
        BY <1>4, <1>5
      <3>3. <<q, n>> \in debits[j] => /\ n >= 1
                                      /\ stage'[q] = "reserve" => j[1] < at'[q]
                                      /\ ~Corrected(q, j)' => n <= Cost(q, j[1])
        BY <1>11, <3>2 DEF Fresh
      <3>4. <<q, n>> \in debits'[j] => \/ <<q, n>> \in debits[j]
                                       \/ q = r /\ j = k0 /\ n >= 1
        BY <2>1, <2>4
      <3>5. Uncredited(q, j)' => <<q, n>> \notin credits'[j]
        BY <1>11, <2>4 DEF Fresh
      <3>6. QED
        <4>1. q = r => stage'[q] # "reserve"
          BY <1>5
        <4>2. QED
          BY <1>11, <3>3, <3>4, <3>5, <4>1
    <2>7. Owned'
      <3>1. live \subseteq Keys
        BY DEF TypeOK
      <3>2. \A q \in Requests, j \in Keys : q # r /\ InPlace(q, j) => InPlace(q, j)'
        <4>1. SUFFICES ASSUME NEW q \in Requests, NEW j \in Keys, q # r, InPlace(q, j),
                              NEW n \in Nat, <<q, n>> \in Charged(j)'
                       PROVE  j[1] \in held'[q] /\ window'[q][j[1]] = j[2]
          BY DEF InPlace
        <4>2. <<q, n>> \in Charged(j)
          BY <2>1, <2>3, <4>1
        <4>3. QED
          BY <1>3, <4>1, <4>2 DEF InPlace
      <3>3. \A q \in Requests : stage'[q] \in {"reserve", "undo", "refused"} => q # r /\ stage'[q] = stage[q]
        BY <1>4, <1>5
      <3>4. QED
        BY <1>3, <3>1, <3>2, <3>3 DEF Owned
    <2>8. Covered'
      <3>1. SUFFICES ASSUME NEW q \in Requests, NEW t \in held[q], NEW n \in Nat,
                            1 <= n, n <= Used(q, t)
                     PROVE  \/ /\ <<q, n>> \in debits'[<<t, window[q][t]>>]
                               /\ <<q, n>> \notin credits'[<<t, window[q][t]>>]
                            \/ <<q, n>> \in lost'[<<t, window[q][t]>>]
        BY <1>3, <1>7 DEF Covered, TypeOK
      <3>2. PICK j \in Keys : j = <<t, window[q][t]>>
        BY WindowIsKey
      <3>3. <<q, n>> \in Charged(j) \/ <<q, n>> \in lost[j]
        BY <3>1, <3>2 DEF Covered, Charged
      <3>4. <<q, n>> \in Charged(j)' \/ <<q, n>> \in lost'[j]
        BY <2>3, <3>3
      <3>5. QED
        BY <3>2, <3>4 DEF Charged
    <2>9. Bounded'
      <3>1. SUFFICES ASSUME NEW j \in Keys
                     PROVE  Cardinality(Granted(j)' \cap Charged(j)') <= Limit[j[1]] + Cardinality(Stray(j)')
        BY DEF Bounded
      <3>2. Granted(k0) \cap U = {}
        <4>1. SUFFICES ASSUME NEW u \in U, u \in Granted(k0)
                       PROVE  FALSE
          OBVIOUS
        <4>2. PICK q \in Requests : u \in Units(q, 0, Used(q, t0))
          BY <1>1, <4>1 DEF Granted
        <4>3. q = r /\ u[2] <= Used(r, t0)
          BY <2>1, <4>2 DEF Units
        <4>4. Used(r, t0) = e
          BY <1>13 DEF Used
        <4>5. u[2] > e
          BY <2>1
        <4>6. QED
          BY <2>1, <4>3, <4>4, <4>5
      <3>3. Granted(j)' \cap Charged(j)' \subseteq Granted(j) \cap Charged(j)
        BY <1>8, <2>3, <3>2
      <3>4. Cardinality(Stray(j)) \in Nat
        BY FS_Difference, FS_CardinalityType DEF Finite, Stray
      <3>5. Cardinality(Stray(j)') \in Nat /\ Cardinality(Stray(j)') >= Cardinality(Stray(j))
        <4>1. Stray(j)' = Stray(j)
          BY <2>3
        <4>2. QED
          BY <3>4, <4>1
      <3>6. QED
        BY <3>3, <3>5, BoundedStays
    <2>10. QED
      BY <1>10, <2>3, <2>5, <2>6, <2>7, <2>8, <2>9
  <1>14. QED
    BY <1>12, <1>13 DEF Reconcile

-----------------------------------------------------------------------------
LEMMA InitInv == Init => IInv
  <1>1. SUFFICES ASSUME Init PROVE IInv
    OBVIOUS
  <1> USE <1>1 DEF Init
  <1>2. Active \in SUBSET Tiers
    BY DEF Active
  <1>3. /\ First(Active) \in Tiers \cup {none}
        /\ Active # {} => First(Active) \in Active /\ \A u \in Active : First(Active) <= u
    BY <1>2, FirstIsLeast
  <1>4. TypeOK
    BY <1>3, BoundsAssumption DEF TypeOK, Stages, Steps, Minutes
  <1>5. \A k \in Keys : Charged(k) = {} /\ Stray(k) = {} /\ debits[k] = {} /\ credits[k] = {} /\ lost[k] = {}
    BY DEF Charged, Stray
  <1>6. Finite
    BY <1>5, FS_EmptySet DEF Finite
  <1>7. Position
    <2>1. \A r \in Requests : /\ stage[r] = "reserve" => at[r] \in Active /\ {t \in Active : t < at[r]} = {}
                              /\ stage[r] \in {"reserve", "serving"}
                              /\ step[r] = "read" /\ actual[r] = 0 /\ held[r] = {}
      <3>1. \A t \in Active : t \in Int /\ First(Active) \in Int
        BY <1>2, <1>3 DEF Tiers, none
      <3>2. QED
        BY <1>3, <3>1
    <2>2. QED
      BY <2>1 DEF Position
  <1>8. Fresh /\ Owned /\ Balanced
    BY <1>5 DEF Fresh, Owned, InPlace, Balanced
  <1>9. Covered
    BY DEF Covered
  <1>10. Bounded
    <2>1. \A k \in Keys : Granted(k) \cap Charged(k) = {} /\ Stray(k) = {} /\ Limit[k[1]] \in Nat
      BY <1>5, LimitAssumption DEF Keys
    <2>2. Cardinality({}) = 0
      BY FS_EmptySet
    <2>3. \A k \in Keys : /\ Cardinality(Granted(k) \cap Charged(k)) = 0
                         /\ Cardinality(Stray(k)) = 0
      BY <2>1, <2>2
    <2>4. \A k \in Keys : 0 <= Limit[k[1]] + 0
      BY <2>1
    <2>5. QED
      BY <2>3, <2>4 DEF Bounded
  <1>11. QED
    BY <1>4, <1>6, <1>7, <1>8, <1>9, <1>10 DEF IInv

LEMMA StutterStep ==
  ASSUME IInv, UNCHANGED vars
  PROVE  IInv'
  <1> USE DEF IInv, vars, history
  <1>1. TypeOK' /\ Finite' /\ Position'
    BY DEF TypeOK, Finite, Position
  <1>2. Fresh' /\ Owned' /\ Covered'
    BY DEF Fresh, Uncredited, Corrected, Owned, InPlace, Charged, Covered, Used
  <1>3. Balanced' /\ Bounded'
    BY DEF Balanced, Bounded, Charged, Stray, Granted, Used
  <1>4. QED
    BY <1>1, <1>2, <1>3

\* Every reachable state satisfies the invariant: where every request stands,
\* which units its next step takes or gives, and where those it took are.
THEOREM Induction == Spec => []IInv
  <1>1. IInv /\ [Next]_vars => IInv'
    BY ReadStep, SetKeyStep, ReserveStep, GiveBackStep, AnswerStep, ReconcileStep, FailStep,
       TickStep, ExpireStep, StutterStep DEF Next
  <1>2. QED
    BY InitInv, <1>1, PTL DEF Spec

\* The model of the limiter is well typed.
THEOREM TypeCorrect == Spec => []TypeOK
  <1>1. IInv => TypeOK
    BY DEF IInv
  <1>2. QED
    BY Induction, <1>1, PTL

\* A live counter always shows its limit less what was taken and not returned,
\* plus what was returned without having been taken: check_and_reserve, its
\* rollback and reconcile neither drop nor repeat a change.
THEOREM CountersBalance == Spec => []Balanced
  <1>1. IInv => Balanced
    BY DEF IInv
  <1>2. QED
    BY Induction, <1>1, PTL

\* What the requests of a minute were granted stays within the limit, but for
\* credits of earlier requests and units lost to a counter that was set anew.
THEOREM LimitKept == Spec => []WithinLimit
  <1>1. ASSUME IInv PROVE WithinLimit
    <2>1. SUFFICES ASSUME NEW k \in Keys
                   PROVE  Cardinality(Granted(k)) <= Limit[k[1]] + Cardinality(Stray(k)) + Cardinality(lost[k])
      BY DEF WithinLimit
    <2>2. Granted(k) \subseteq (Granted(k) \cap Charged(k)) \cup lost[k]
      <3>1. SUFFICES ASSUME NEW u \in Granted(k)
                     PROVE  u \in Charged(k) \/ u \in lost[k]
        OBVIOUS
      <3>2. PICK r \in Requests : /\ k[1] \in held[r] /\ window[r][k[1]] = k[2]
                                  /\ u \in Units(r, 0, Used(r, k[1]))
        BY DEF Granted
      <3>3. k = <<k[1], k[2]>>
        BY DEF Keys
      <3>4. u = <<r, u[2]>> /\ u[2] \in Nat /\ 1 <= u[2] /\ u[2] <= Used(r, k[1])
        <4>1. Used(r, k[1]) \in Nat
          BY <1>1, RequestsAssumption DEF Used, Cost, IInv, TypeOK
        <4>2. QED
          BY <3>2, <4>1 DEF Units
      <3>5. \/ <<r, u[2]>> \in debits[<<k[1], window[r][k[1]]>>] /\ <<r, u[2]>> \notin credits[<<k[1], window[r][k[1]]>>]
            \/ <<r, u[2]>> \in lost[<<k[1], window[r][k[1]]>>]
        BY <1>1, <3>2, <3>4 DEF IInv, Covered
      <3>6. QED
        BY <3>2, <3>3, <3>4, <3>5 DEF Charged
    <2>3. IsFiniteSet(Charged(k)) /\ IsFiniteSet(Stray(k)) /\ IsFiniteSet(lost[k])
      BY <1>1, FS_Difference DEF IInv, Finite, Charged, Stray
    <2>4. IsFiniteSet(Granted(k) \cap Charged(k))
      BY <2>3, FS_Intersection
    <2>5. /\ IsFiniteSet((Granted(k) \cap Charged(k)) \cup lost[k])
          /\ Cardinality((Granted(k) \cap Charged(k)) \cup lost[k])
               = Cardinality(Granted(k) \cap Charged(k)) + Cardinality(lost[k])
                 - Cardinality((Granted(k) \cap Charged(k)) \cap lost[k])
      BY <2>3, <2>4, FS_Union
    <2>6. /\ IsFiniteSet(Granted(k))
          /\ Cardinality(Granted(k)) <= Cardinality((Granted(k) \cap Charged(k)) \cup lost[k])
      BY <2>2, <2>5, FS_Subset
    <2>7. IsFiniteSet((Granted(k) \cap Charged(k)) \cap lost[k])
      BY <2>4, FS_Intersection
    <2>8. /\ Cardinality(Granted(k)) \in Nat /\ Cardinality(Stray(k)) \in Nat
          /\ Cardinality(lost[k]) \in Nat /\ Cardinality(Granted(k) \cap Charged(k)) \in Nat
          /\ Cardinality((Granted(k) \cap Charged(k)) \cap lost[k]) \in Nat
      BY <2>3, <2>4, <2>6, <2>7, FS_CardinalityType
    <2>9. Cardinality(Granted(k) \cap Charged(k)) <= Limit[k[1]] + Cardinality(Stray(k))
      BY <1>1 DEF IInv, Bounded
    <2>10. Limit[k[1]] \in Nat
      BY LimitAssumption DEF Keys
    <2>11. QED
      BY <2>5, <2>6, <2>8, <2>9, <2>10
  <1>2. QED
    BY Induction, <1>1, PTL

\* A refused request leaves its units in one counter at most: the one that
\* refused it, whose decrement check_and_reserve does not undo.
THEOREM RefusalGivesBack == Spec => []RefusedGivesBack
  <1>1. ASSUME IInv PROVE RefusedGivesBack
    <2>1. SUFFICES ASSUME NEW r \in Requests, stage[r] = "refused"
                   PROVE  /\ held[r] = {}
                          /\ \A j, k \in live :
                               (\E u \in Charged(j) : u[1] = r) /\ (\E u \in Charged(k) : u[1] = r) => j = k
      BY DEF RefusedGivesBack
    <2>2. held[r] = {}
      BY <1>1, <2>1 DEF IInv, Position
    <2>3. PICK i \in Keys : \A k \in live : k # i => InPlace(r, k)
      BY <1>1, <2>1 DEF IInv, Owned
    <2>4. ASSUME NEW k \in live, NEW u \in Charged(k), u[1] = r
          PROVE  k = i
      <3>1. k \in Keys /\ u \in Requests \X Nat
        BY <1>1, <2>4 DEF IInv, TypeOK, Charged
      <3>2. u = <<r, u[2]>> /\ u[2] \in Nat
        BY <2>4, <3>1
      <3>3. ~InPlace(r, k)
        BY <2>2, <2>4, <3>2 DEF InPlace
      <3>4. QED
        BY <2>3, <3>3
    <2>5. QED
      BY <2>2, <2>4
  <1>2. QED
    BY Induction, <1>1, PTL
=============================================================================
