------------------------- MODULE UsageLedger_proofs -------------------------
(***************************************************************************)
(* The usage ledger is well typed, and a key's counters are exactly the    *)
(* requests up to last_stat_id as long as no two syncs overlap, for any    *)
(* number of records, cycles and faults and any compress policy.           *)
(*                                                                         *)
(* Merging conserves requests: a pass of a compress cycle puts every       *)
(* request of its range into exactly one row, so that after any number of  *)
(* cycles that do not overlap each recorded request is part of exactly one *)
(* row.                                                                    *)
(*                                                                         *)
(* And no request is counted twice in the counters of a key, however many  *)
(* sync cycles overlap and whatever marks and counters they write back, as *)
(* long as compress cycles do not overlap: merging moves a request to a    *)
(* row with a lower id, so what was counted once stays behind the mark it  *)
(* was counted up to.                                                      *)
(***************************************************************************)
EXTENDS UsageLedger, FiniteSetTheorems, TLAPS

\* The committed rows against the mark: rows behind it hold requests behind it,
\* a row past it is the request of its own id.  A request not skipped is counted
\* when it is recorded behind the mark, and otherwise not.
LedgerInv ==
  /\ lastStat < next
  /\ \A q \in open \cup recorded : q < next
  /\ open \cap recorded = {}
  /\ \A q \in open : q <= lastStat => q \in skipped
  /\ \A i \in Records : i <= lastStat => \A q \in rows[i] : q <= lastStat
  /\ \A i \in Records : i > lastStat => rows[i] = {i} \cap recorded
  /\ \A q \in Records \ skipped : total[q] = (IF q \in recorded /\ q <= lastStat THEN 1 ELSE 0)

\* A sync in flight is alone: what it copied is current until it commits, and
\* what it is about to commit is what LedgerInv will say of its window.
SyncSound(s) ==
  /\ window[s] < next
  /\ InFlight(s) => /\ \A o \in Syncers : InFlight(o) => o = s
                    /\ lastStat < window[s]
  /\ spc[s] \in {"lock", "compute"} => ak[s] = [last |-> lastStat, total |-> total]
  /\ spc[s] = "commit" =>
       /\ ak[s].last = window[s]
       /\ \A q \in open : q <= window[s] => q \in skipped
       /\ \A q \in Records \ skipped :
            ak[s].total[q] = (IF q \in recorded /\ q <= window[s] THEN 1 ELSE 0)
SyncInv == \A s \in Syncers : SyncSound(s)

\* A compress cycle writes rows behind the mark only.
CompressInv ==
  \A c \in Compressors :
    /\ range[c].high <= lastStat
    /\ \A i \in plan[c].touched : i <= lastStat /\ \A q \in plan[c].row[i] : q <= lastStat

IInv == "sync" \notin overlapped => LedgerInv /\ SyncInv /\ CompressInv

-----------------------------------------------------------------------------
\* There are finitely many ids.
LEMMA RecordsFinite ==
  ASSUME NEW S, S \subseteq Records
  PROVE  IsFiniteSet(S) /\ Cardinality(S) \in Nat
  <1>1. IsFiniteSet(Records)
    BY BoundsAssumption, FS_Interval DEF Records
  <1>2. IsFiniteSet(S)
    BY <1>1, FS_Subset
  <1>3. QED
    BY <1>2, FS_CardinalityType

\* A pass keeps the table well typed.
LEMMA PassType ==
  ASSUME NEW t \in [Records -> SUBSET Records], NEW r, NEW limit, NEW bucketOf
  PROVE  Pass(t, r, limit, bucketOf) \in [Records -> SUBSET Records]
  BY DEF Pass, Merged, Singles, Between

\* A pass changes rows of its range only, and puts together in them what rows of
\* its range hold.
LEMMA PassBounds ==
  ASSUME NEW t \in [Records -> SUBSET Records], NEW r, NEW limit, NEW bucketOf, NEW S,
         \A i \in Between(r.low, r.high) : t[i] \subseteq S
  PROVE  /\ \A i \in Records \ Between(r.low, r.high) : Pass(t, r, limit, bucketOf)[i] = t[i]
         /\ \A i \in Between(r.low, r.high) : Pass(t, r, limit, bucketOf)[i] \subseteq S
  <1>1. Merged(t, r, limit, bucketOf) \subseteq Between(r.low, r.high)
    BY DEF Merged, Singles
  <1>2. Between(r.low, r.high) \subseteq Records
    BY DEF Between
  <1>3. QED
    BY <1>1, <1>2 DEF Pass

\* So a plan is well typed, writes rows of its range only, and puts together in
\* them what rows of its range hold.
LEMMA PlanType ==
  ASSUME NEW t \in [Records -> SUBSET Records], NEW r
  PROVE  Plan(t, r) \in [row : [Records -> SUBSET Records], touched : SUBSET Records, done : SUBSET Records]
  <1> DEFINE byMinute == Pass(t, r, PerMinute, MinuteOf)
  <1>1. byMinute \in [Records -> SUBSET Records]
    BY PassType
  <1>2. Pass(byMinute, r, PerHour, HourOf) \in [Records -> SUBSET Records]
    BY <1>1, PassType
  <1>3. Merged(t, r, PerMinute, MinuteOf) \cup Merged(byMinute, r, PerHour, HourOf) \subseteq Records
    BY DEF Merged, Singles, Between
  <1>4. QED
    BY <1>2, <1>3 DEF Plan

\* So does a plan, whose passes follow each other.
LEMMA PlanBounds ==
  ASSUME NEW t \in [Records -> SUBSET Records], NEW r, NEW S,
         \A i \in Between(r.low, r.high) : t[i] \subseteq S
  PROVE  \A i \in Plan(t, r).touched : i \in Between(r.low, r.high) /\ Plan(t, r).row[i] \subseteq S
  <1> DEFINE byMinute == Pass(t, r, PerMinute, MinuteOf)
             byHour == Pass(byMinute, r, PerHour, HourOf)
  <1>1. byMinute \in [Records -> SUBSET Records]
    BY PassType
  <1>2. /\ \A i \in Records \ Between(r.low, r.high) : byMinute[i] = t[i]
        /\ \A i \in Between(r.low, r.high) : byMinute[i] \subseteq S
    BY PassBounds
  <1>3. /\ \A i \in Records \ Between(r.low, r.high) : byHour[i] = byMinute[i]
        /\ \A i \in Between(r.low, r.high) : byHour[i] \subseteq S
    BY <1>1, <1>2, PassBounds
  <1>4. Plan(t, r).row = byHour /\ Plan(t, r).touched = {i \in Records : byHour[i] # t[i]}
    BY DEF Plan
  <1>5. QED
    BY <1>2, <1>3, <1>4

-----------------------------------------------------------------------------
\* Every variable keeps its type.
THEOREM TypeCorrect == Spec => []TypeOK
  <1> USE BoundsAssumption
  <1>a. Blank \in [last : 0..MaxRecords, total : [Records -> Nat]]
    BY DEF Blank
  <1>b. NoRange \in [low : 0..MaxRecords, high : 0..MaxRecords]
    BY DEF NoRange
  <1>c. NoPlan \in [row : [Records -> SUBSET Records], touched : SUBSET Records, done : SUBSET Records]
    BY DEF NoPlan
  <1>d. Records \subseteq 0..MaxRecords
    BY DEF Records
  <1>1. Init => TypeOK
    BY <1>a, <1>b, <1>c DEF Init, TypeOK, SyncPcs, CompressPcs
  <1>2. TypeOK /\ [Next]_vars => TypeOK'
    <2> USE DEF TypeOK
    <2> SUFFICES ASSUME TypeOK, [Next]_vars PROVE TypeOK'
      OBVIOUS
    <2>1. ASSUME Insert PROVE TypeOK'
      BY <2>1 DEF Insert, Records, keyVars, syncVars, compressVars, historyVars
    <2>2. ASSUME Age PROVE TypeOK'
      BY <2>2 DEF Age, keyVars, syncVars, compressVars, historyVars
    <2>3. ASSUME Expire PROVE TypeOK'
      BY <2>3 DEF Expire, Release, recordVars, keyVars, syncVars, compressVars, historyVars
    <2>4. ASSUME Overrun PROVE TypeOK'
      BY <2>4 DEF Overrun, Release, Lost, recordVars, keyVars, syncVars, compressVars, historyVars
    <2>5. ASSUME NEW q \in Records, CommitRecord(q) PROVE TypeOK'
      BY <2>5 DEF CommitRecord, keyVars, syncVars, compressVars
    <2>6. ASSUME NEW q \in Records, AbortRecord(q) PROVE TypeOK'
      BY <2>6 DEF AbortRecord, keyVars, syncVars, compressVars, historyVars
    <2>7. ASSUME NEW s \in Syncers, Scan(s) PROVE TypeOK'
      <3>1. window' \in [Syncers -> 0..MaxRecords]
        BY <2>7, <1>d DEF Scan, Visible
      <3>2. spc' \in [Syncers -> SyncPcs]
        BY <2>7 DEF Scan, SyncGoto, SyncPcs
      <3>3. QED
        BY <2>7, <3>1, <3>2 DEF Scan, recordVars, keyVars, compressVars, historyVars
    <2>8. ASSUME NEW s \in Syncers, Load(s) PROVE TypeOK'
      <3>1. spc' \in [Syncers -> SyncPcs]
        BY <2>8 DEF Load, SyncGoto, SyncPcs
      <3>2. [last |-> lastStat, total |-> total] \in [last : 0..MaxRecords, total : [Records -> Nat]]
        OBVIOUS
      <3>3. ak' \in [Syncers -> [last : 0..MaxRecords, total : [Records -> Nat]]]
        BY <2>8, <3>2 DEF Load
      <3>4. window' \in [Syncers -> 0..MaxRecords]
        BY <2>8 DEF Load
      <3>5. overlapped' \subseteq {"sync", "compress"}
        BY <2>8 DEF Load, historyVars
      <3>6. QED
        BY <2>8, <3>1, <3>3, <3>4, <3>5 DEF Load, recordVars, keyVars, compressVars, historyVars
    <2>9. ASSUME NEW s \in Syncers, SyncLock(s) PROVE TypeOK'
      BY <2>9 DEF SyncLock, SyncGoto, SyncPcs, Acquire, recordVars, keyVars, compressVars, historyVars
    <2>10. ASSUME NEW s \in Syncers, Compute(s) PROVE TypeOK'
      <3> DEFINE occurs(q) == {i \in Between(ak[s].last, window[s]) : q \in rows[i]}
                 counts == [q \in Records |-> ak[s].total[q] + Cardinality(occurs(q))]
      <3>1. counts \in [Records -> Nat]
        <4>1. ASSUME NEW q \in Records PROVE ak[s].total[q] + Cardinality(occurs(q)) \in Nat
          <5>1. occurs(q) \subseteq Records
            BY DEF Between
          <5> HIDE DEF occurs
          <5>2. Cardinality(occurs(q)) \in Nat
            BY <5>1, RecordsFinite
          <5>3. ak[s].total \in [Records -> Nat]
            OBVIOUS
          <5>4. QED
            BY <5>2, <5>3
        <4> HIDE DEF occurs
        <4>2. QED
          BY <4>1
      <3>2. ak' \in [Syncers -> [last : 0..MaxRecords, total : [Records -> Nat]]]
        <4> DEFINE Copy == [last : 0..MaxRecords, total : [Records -> Nat]]
                   new == [last |-> window[s], total |-> counts]
        <4>1. ak' = [ak EXCEPT ![s] = Blank] \/ ak' = [ak EXCEPT ![s] = new]
          BY <2>10 DEF Compute
        <4> HIDE DEF counts
        <4>2. new \in Copy /\ Blank \in Copy /\ ak \in [Syncers -> Copy]
          BY <3>1, <1>a
        <4> HIDE DEF new, Copy
        <4>3. ak' \in [Syncers -> Copy]
          BY <4>1, <4>2
        <4>4. QED
          BY <4>3 DEF Copy
      <3>3. spc' \in [Syncers -> SyncPcs] /\ window' \in [Syncers -> 0..MaxRecords]
        <4>1. spc' = [spc EXCEPT ![s] = "idle"] \/ spc' = [spc EXCEPT ![s] = "commit"]
          BY <2>10 DEF Compute, SyncGoto
        <4>2. window' = window \/ window' = [window EXCEPT ![s] = 0]
          BY <2>10 DEF Compute
        <4> HIDE DEF occurs, counts
        <4>3. spc' \in [Syncers -> SyncPcs]
          BY ONLY <4>1, TypeOK DEF SyncPcs, TypeOK
        <4>4. window' \in [Syncers -> 0..MaxRecords]
          BY ONLY <4>2, TypeOK, BoundsAssumption DEF TypeOK, BoundsAssumption
        <4>5. QED
          BY <4>3, <4>4
      <3>4. skipped' \subseteq Records
        <4>1. skipped' = skipped \/ \E counted : skipped' = skipped \cup (open \cap counted)
          BY <2>10 DEF Compute
        <4>2. QED
          BY <4>1
      <3>5. lock' \in SUBSET (Syncers \cup Compressors)
        BY <2>10 DEF Compute, Release
      <3>6. QED
        BY <2>10, <3>2, <3>3, <3>4, <3>5 DEF Compute, recordVars, keyVars, compressVars
    <2>11. ASSUME NEW s \in Syncers, SyncCommit(s) PROVE TypeOK'
      <3>1. ak' \in [Syncers -> [last : 0..MaxRecords, total : [Records -> Nat]]]
        BY <2>11, <1>a DEF SyncCommit
      <3>2. spc' \in [Syncers -> SyncPcs] /\ window' \in [Syncers -> 0..MaxRecords]
        BY <2>11 DEF SyncCommit, SyncGoto, SyncPcs
      <3>3. total' \in [Records -> Nat] /\ lastStat' \in 0..MaxRecords
        BY <2>11 DEF SyncCommit
      <3>4. QED
        BY <2>11, <3>1, <3>2, <3>3 DEF SyncCommit, recordVars, compressVars, historyVars
    <2>12. ASSUME NEW s \in Syncers, SyncCrash(s) PROVE TypeOK'
      <3>1. ak' \in [Syncers -> [last : 0..MaxRecords, total : [Records -> Nat]]]
        BY <2>12, <1>a DEF SyncCrash
      <3>2. spc' \in [Syncers -> SyncPcs] /\ window' \in [Syncers -> 0..MaxRecords]
        BY <2>12 DEF SyncCrash, SyncPcs
      <3>3. lock' \in SUBSET (Syncers \cup Compressors) /\ faults' \in 0..MaxFaults
        BY <2>12 DEF SyncCrash, Release, Lost
      <3>4. QED
        BY <2>12, <3>1, <3>2, <3>3 DEF SyncCrash, recordVars, keyVars, compressVars, historyVars
    <2>13. ASSUME NEW c \in Compressors, CompressLoad(c) PROVE TypeOK'
      BY <2>13 DEF CompressLoad, CompressGoto, CompressPcs, recordVars, keyVars, syncVars
    <2>14. ASSUME NEW c \in Compressors, CompressLock(c) PROVE TypeOK'
      BY <2>14 DEF CompressLock, CompressGoto, CompressPcs, Acquire, recordVars, keyVars, syncVars, historyVars
    <2>15. ASSUME NEW c \in Compressors, CompressRead(c) PROVE TypeOK'
      <3>1. Plan(rows, range[c]) \in [row : [Records -> SUBSET Records], touched : SUBSET Records, done : SUBSET Records]
        BY PlanType
      <3>2. QED
        BY <2>15, <3>1 DEF CompressRead, CompressGoto, CompressPcs, recordVars, keyVars, syncVars, historyVars
    <2>16. ASSUME NEW c \in Compressors, CompressFlush(c) PROVE TypeOK'
      BY <2>16 DEF CompressFlush, CompressGoto, CompressPcs, Release, recordVars, keyVars, syncVars, historyVars
    <2>17. ASSUME NEW c \in Compressors, CompressCommit(c) PROVE TypeOK'
      <3>1. plan' \in [Compressors ->
                   [row : [Records -> SUBSET Records], touched : SUBSET Records, done : SUBSET Records]]
        BY <2>17, <1>c DEF CompressCommit
      <3>2. cpc' \in [Compressors -> CompressPcs]
        BY <2>17 DEF CompressCommit, CompressGoto, CompressPcs
      <3>3. range' \in [Compressors -> [low : 0..MaxRecords, high : 0..MaxRecords]]
        BY <2>17, <1>b DEF CompressCommit
      <3>4. rows' \in [Records -> SUBSET Records]
        BY <2>17 DEF CompressCommit
      <3>5. lastCompress' \in 0..MaxRecords
        BY <2>17, <1>d DEF CompressCommit
      <3>6. QED
        BY <2>17, <3>1, <3>2, <3>3, <3>4, <3>5 DEF CompressCommit, syncVars, historyVars
    <2>18. ASSUME NEW c \in Compressors, CompressCrash(c) PROVE TypeOK'
      <3>1. plan' \in [Compressors ->
                   [row : [Records -> SUBSET Records], touched : SUBSET Records, done : SUBSET Records]]
        BY <2>18, <1>c DEF CompressCrash
      <3>2. cpc' \in [Compressors -> CompressPcs]
        BY <2>18 DEF CompressCrash, CompressPcs
      <3>3. range' \in [Compressors -> [low : 0..MaxRecords, high : 0..MaxRecords]]
        BY <2>18, <1>b DEF CompressCrash
      <3>4. lock' \in SUBSET (Syncers \cup Compressors) /\ faults' \in 0..MaxFaults
        BY <2>18 DEF CompressCrash, Release, Lost
      <3>5. QED
        BY <2>18, <3>1, <3>2, <3>3, <3>4 DEF CompressCrash, recordVars, keyVars, syncVars, historyVars
    <2>19. CASE UNCHANGED vars
      BY <2>19 DEF vars, recordVars, keyVars, syncVars, compressVars, historyVars
    <2>20. QED
      BY <2>1, <2>2, <2>3, <2>4, <2>5, <2>6, <2>7, <2>8, <2>9, <2>10, <2>11, <2>12, <2>13, <2>14, <2>15, <2>16, <2>17, <2>18, <2>19 DEF Next, SyncStep, CompressStep
  <1>3. QED
    BY <1>1, <1>2, PTL DEF Spec

-----------------------------------------------------------------------------
\* IInv holds before the first step, and every step keeps it.
LEMMA Induction == Spec => []IInv
  <1> USE BoundsAssumption
  <1>1. Init => IInv
    BY DEF Init, IInv, LedgerInv, SyncInv, SyncSound, CompressInv, InFlight, NoRange, NoPlan, Blank
  <1>2. TypeOK /\ IInv /\ [Next]_vars => IInv'
    <2> SUFFICES ASSUME TypeOK, IInv, [Next]_vars, "sync" \notin overlapped'
                 PROVE  LedgerInv' /\ SyncInv' /\ CompressInv'
      BY DEF IInv
    <2> USE DEF TypeOK
    <2>a. "sync" \notin overlapped
      BY DEF Next, SyncStep, CompressStep, vars, historyVars, Insert, Age, Expire, Overrun, CommitRecord,
             AbortRecord, Scan, Load, SyncLock, Compute, SyncCommit, SyncCrash, CompressLoad, CompressLock,
             CompressRead, CompressFlush, CompressCommit, CompressCrash
    <2>b. LedgerInv /\ SyncInv /\ CompressInv
      BY <2>a DEF IInv
    <2> USE <2>b
    <2>1. ASSUME Insert PROVE LedgerInv' /\ SyncInv' /\ CompressInv'
      <3>1. LedgerInv'
        BY <2>1 DEF LedgerInv, Insert, keyVars, historyVars
      <3>2. SyncInv'
        BY <2>1 DEF SyncInv, SyncSound, InFlight, Insert, keyVars, syncVars, historyVars
      <3>3. CompressInv'
        BY <2>1 DEF CompressInv, Insert, keyVars, compressVars
      <3>4. QED
        BY <3>1, <3>2, <3>3
    <2>2. ASSUME Age PROVE LedgerInv' /\ SyncInv' /\ CompressInv'
      <3>1. LedgerInv'
        BY <2>2 DEF LedgerInv, Age, keyVars, historyVars
      <3>2. SyncInv'
        BY <2>2 DEF SyncInv, SyncSound, InFlight, Age, keyVars, syncVars, historyVars
      <3>3. CompressInv'
        BY <2>2 DEF CompressInv, Age, keyVars, compressVars
      <3>4. QED
        BY <3>1, <3>2, <3>3
    <2>3. ASSUME Expire PROVE LedgerInv' /\ SyncInv' /\ CompressInv'
      <3>1. LedgerInv'
        BY <2>3 DEF LedgerInv, Expire, recordVars, keyVars, historyVars
      <3>2. SyncInv'
        BY <2>3 DEF SyncInv, SyncSound, InFlight, Expire, recordVars, keyVars, syncVars, historyVars
      <3>3. CompressInv'
        BY <2>3 DEF CompressInv, Expire, keyVars, compressVars
      <3>4. QED
        BY <3>1, <3>2, <3>3
    <2>4. ASSUME Overrun PROVE LedgerInv' /\ SyncInv' /\ CompressInv'
      <3>1. LedgerInv'
        BY <2>4 DEF LedgerInv, Overrun, recordVars, keyVars, historyVars
      <3>2. SyncInv'
        BY <2>4 DEF SyncInv, SyncSound, InFlight, Overrun, recordVars, keyVars, syncVars, historyVars
      <3>3. CompressInv'
        BY <2>4 DEF CompressInv, Overrun, keyVars, compressVars
      <3>4. QED
        BY <3>1, <3>2, <3>3
    <2>5. ASSUME NEW q \in Records, CommitRecord(q) PROVE LedgerInv' /\ SyncInv' /\ CompressInv'
      <3>1. LedgerInv'
        BY <2>5 DEF LedgerInv, CommitRecord, keyVars
      <3>2. SyncInv'
        BY <2>5 DEF SyncInv, SyncSound, InFlight, CommitRecord, keyVars, syncVars
      <3>3. CompressInv'
        BY <2>5 DEF CompressInv, CommitRecord, keyVars, compressVars
      <3>4. QED
        BY <3>1, <3>2, <3>3
    <2>6. ASSUME NEW q \in Records, AbortRecord(q) PROVE LedgerInv' /\ SyncInv' /\ CompressInv'
      <3>1. LedgerInv'
        BY <2>6 DEF LedgerInv, AbortRecord, keyVars, historyVars
      <3>2. SyncInv'
        BY <2>6 DEF SyncInv, SyncSound, InFlight, AbortRecord, keyVars, syncVars, historyVars
      <3>3. CompressInv'
        BY <2>6 DEF CompressInv, AbortRecord, keyVars, compressVars
      <3>4. QED
        BY <3>1, <3>2, <3>3
    <2>7. ASSUME NEW s \in Syncers, Scan(s) PROVE LedgerInv' /\ SyncInv' /\ CompressInv'
      <3>1. LedgerInv'
        BY <2>7 DEF LedgerInv, Scan, recordVars, keyVars, historyVars
      <3>2. SyncInv'
        <4>1. PICK top \in Visible : window' = [window EXCEPT ![s] = top]
          BY <2>7 DEF Scan
        <4>2. top \in Nat /\ top < next
          <5>1. top \in Records /\ rows[top] # {} /\ top \in Nat
            BY DEF Visible, Records
          <5>2. CASE top <= lastStat
            BY <5>1, <5>2 DEF LedgerInv
          <5>3. CASE top > lastStat
            <6>1. rows[top] = {top} \cap recorded
              BY <5>1, <5>3 DEF LedgerInv
            <6>2. top \in recorded
              BY <5>1, <6>1
            <6>3. QED
              BY <5>1, <6>2 DEF LedgerInv
          <5>4. QED
            BY <5>1, <5>2, <5>3
        <4>3. spc[s] = "idle" /\ spc' = [spc EXCEPT ![s] = "load"]
          BY <2>7 DEF Scan, SyncGoto
        <4>4. UNCHANGED <<next, open, ak, lastStat, total, recorded, skipped>>
          BY <2>7 DEF Scan, recordVars, keyVars, historyVars
        <4>5. ASSUME NEW o \in Syncers PROVE SyncSound(o)'
          <5>1. CASE o = s
            BY <4>1, <4>2, <4>3, <4>4, <5>1 DEF SyncSound, InFlight
          <5>2. CASE o # s
            <6>1. window'[o] = window[o] /\ spc'[o] = spc[o]
              BY <4>1, <4>3, <5>2
            <6>2. \A p \in Syncers : InFlight(p)' => InFlight(p)
              BY <4>3 DEF InFlight
            <6>3. SyncSound(o)
              BY DEF SyncInv
            <6>4. InFlight(o)' <=> InFlight(o)
              BY <6>1 DEF InFlight
            <6>5. QED
              BY <6>1, <6>2, <6>3, <6>4, <4>4 DEF SyncSound
          <5>3. QED
            BY <5>1, <5>2
        <4>6. QED
          BY <4>5 DEF SyncInv
      <3>3. CompressInv'
        BY <2>7 DEF CompressInv, Scan, keyVars, compressVars
      <3>4. QED
        BY <3>1, <3>2, <3>3
    <2>8. ASSUME NEW s \in Syncers, Load(s) PROVE LedgerInv' /\ SyncInv' /\ CompressInv'
      <3>1. LedgerInv'
        BY <2>8 DEF LedgerInv, Load, recordVars, keyVars, historyVars
      <3>2. SyncInv'
        <4>1. CASE lastStat >= window[s]
          <5>1. /\ spc[s] = "load" /\ spc' = [spc EXCEPT ![s] = "idle"]
                /\ window' = [window EXCEPT ![s] = 0]
                /\ UNCHANGED <<next, open, ak, lastStat, total, recorded, skipped>>
            BY <2>8, <4>1 DEF Load, SyncGoto, recordVars, keyVars, historyVars
          <5>2. QED
            BY <5>1 DEF SyncInv, SyncSound, InFlight
        <4>2. CASE lastStat < window[s]
          <5>1. /\ spc[s] = "load" /\ spc' = [spc EXCEPT ![s] = "lock"]
                /\ ak' = [ak EXCEPT ![s] = [last |-> lastStat, total |-> total]]
                /\ UNCHANGED <<next, open, window, lastStat, total, recorded, skipped>>
            BY <2>8, <4>2 DEF Load, SyncGoto, recordVars, keyVars
          <5>2. \A o \in Syncers \ {s} : ~InFlight(o)
            BY <2>8, <4>2 DEF Load
          <5>3. ASSUME NEW o \in Syncers PROVE SyncSound(o)'
            <6>1. CASE o = s
              <7>1. spc'[s] = "lock" /\ ak'[s] = [last |-> lastStat, total |-> total]
                BY <5>1
              <7>2. \A p \in Syncers : InFlight(p)' => p = s
                BY <5>1, <5>2 DEF InFlight
              <7>3. window[s] < next
                BY DEF SyncInv, SyncSound
              <7>4. QED
                BY <5>1, <7>1, <7>2, <7>3, <4>2, <6>1 DEF SyncSound
            <6>2. CASE o # s
              <7>1. ~InFlight(o)' /\ window[o] < next
                BY <5>1, <5>2, <6>2 DEF InFlight, SyncInv, SyncSound
              <7>2. QED
                BY <5>1, <7>1 DEF SyncSound, InFlight
            <6>3. QED
              BY <6>1, <6>2
          <5>4. QED
            BY <5>3 DEF SyncInv
        <4>3. QED
          BY <4>1, <4>2
      <3>3. CompressInv'
        BY <2>8 DEF CompressInv, Load, keyVars, compressVars
      <3>4. QED
        BY <3>1, <3>2, <3>3
    <2>9. ASSUME NEW s \in Syncers, SyncLock(s) PROVE LedgerInv' /\ SyncInv' /\ CompressInv'
      <3>1. LedgerInv'
        BY <2>9 DEF LedgerInv, SyncLock, recordVars, keyVars, historyVars
      <3>2. SyncInv'
        BY <2>9 DEF SyncInv, SyncSound, InFlight, SyncLock, SyncGoto, recordVars, keyVars
      <3>3. CompressInv'
        BY <2>9 DEF CompressInv, SyncLock, keyVars, compressVars
      <3>4. QED
        BY <3>1, <3>2, <3>3
    <2>10. ASSUME NEW s \in Syncers, Compute(s) PROVE LedgerInv' /\ SyncInv' /\ CompressInv'
      <3>1. LedgerInv'
        BY <2>10 DEF LedgerInv, Compute, recordVars, keyVars
      <3> DEFINE occurs(q) == {i \in Between(ak[s].last, window[s]) : q \in rows[i]}
      <3>2. SyncInv'
        <4>1. /\ UNCHANGED <<next, open, lastStat, total, recorded>>
              /\ spc[s] = "compute"
          BY <2>10 DEF Compute, SyncGoto, recordVars, keyVars
        <4>2. /\ \A o \in Syncers : InFlight(o) => o = s
              /\ ak[s].last = lastStat /\ ak[s].total = total
              /\ lastStat < window[s] /\ window[s] < next
          BY <4>1 DEF SyncInv, SyncSound, InFlight
        <4>3. ASSUME NEW q \in Records \ skipped, q \notin open \cap Between(ak[s].last, window[s])
              PROVE  ak[s].total[q] + Cardinality(occurs(q))
                       = (IF q \in recorded /\ q <= window[s] THEN 1 ELSE 0)
          <5>1. total[q] = (IF q \in recorded /\ q <= lastStat THEN 1 ELSE 0)
            BY DEF LedgerInv
          <5>2. occurs(q) = {i \in Between(lastStat, window[s]) : i = q /\ q \in recorded}
            BY <4>2 DEF LedgerInv, Between
          <5>3. CASE q \in recorded /\ lastStat < q /\ q <= window[s]
            <6>1. occurs(q) = {q}
              BY <5>2, <5>3 DEF Between
            <6>2. Cardinality(occurs(q)) = 1
              BY <6>1, FS_Singleton
            <6>3. QED
              BY <4>2, <5>1, <5>3, <6>2 DEF Records
          <5>4. CASE ~(q \in recorded /\ lastStat < q /\ q <= window[s])
            <6>1. occurs(q) = {}
              BY <5>2, <5>4 DEF Between
            <6>2. Cardinality(occurs(q)) = 0
              BY <6>1, FS_EmptySet
            <6>3. QED
              BY <4>2, <5>1, <5>4, <6>2 DEF Records
          <5>5. QED
            BY <5>3, <5>4
        <4>4. \/ /\ spc' = [spc EXCEPT ![s] = "idle"]
                 /\ window' = [window EXCEPT ![s] = 0]
                 /\ ak' = [ak EXCEPT ![s] = Blank]
                 /\ UNCHANGED skipped
              \/ /\ spc' = [spc EXCEPT ![s] = "commit"]
                 /\ ak' = [ak EXCEPT ![s] = [last |-> window[s],
                              total |-> [q \in Records |-> ak[s].total[q] + Cardinality(occurs(q))]]]
                 /\ skipped' = skipped \cup (open \cap Between(ak[s].last, window[s]))
                 /\ UNCHANGED window
          BY <2>10 DEF Compute, SyncGoto
        <4> HIDE DEF occurs
        <4>5. ASSUME NEW o \in Syncers PROVE SyncSound(o)'
          <5>1. CASE o # s
            <6>1. ~InFlight(o)' /\ window'[o] = window[o]
              BY <4>2, <4>4, <5>1 DEF InFlight
            <6>2. window[o] < next
              BY DEF SyncInv, SyncSound
            <6>3. QED
              BY <4>1, <6>1, <6>2 DEF SyncSound, InFlight
          <5>2. CASE o = s /\ spc'[s] = "idle"
            BY <4>1, <4>2, <4>4, <5>2 DEF SyncSound, InFlight
          <5>3. CASE o = s /\ spc'[s] # "idle"
            <6>1. /\ spc' = [spc EXCEPT ![s] = "commit"]
                  /\ ak' = [ak EXCEPT ![s] = [last |-> window[s],
                               total |-> [q \in Records |-> ak[s].total[q] + Cardinality(occurs(q))]]]
                  /\ skipped' = skipped \cup (open \cap Between(ak[s].last, window[s]))
                  /\ window' = window
              BY <4>4, <5>3
            <6>2. spc'[s] = "commit" /\ \A p \in Syncers : InFlight(p)' => p = s
              BY <6>1, <4>2 DEF InFlight
            <6>3. /\ ak'[s].last = window[s]
                  /\ \A q \in Records : ak'[s].total[q] = ak[s].total[q] + Cardinality(occurs(q))
              BY <6>1
            <6>4. \A q \in Records \ skipped' :
                    ak'[s].total[q] = (IF q \in recorded /\ q <= window[s] THEN 1 ELSE 0)
              BY <6>1, <6>3, <4>3
            <6>5. \A q \in open : q <= window[s] => q \in skipped'
              BY <6>1, <4>2 DEF LedgerInv, Between, Records
            <6>6. QED
              BY <4>1, <4>2, <5>3, <6>1, <6>2, <6>3, <6>4, <6>5 DEF SyncSound
          <5>4. QED
            BY <5>1, <5>2, <5>3
        <4>6. QED
          BY <4>5 DEF SyncInv
      <3>3. CompressInv'
        BY <2>10 DEF CompressInv, Compute, keyVars, compressVars
      <3>4. QED
        BY <3>1, <3>2, <3>3
    <2>11. ASSUME NEW s \in Syncers, SyncCommit(s) PROVE LedgerInv' /\ SyncInv' /\ CompressInv'
      <3>0. /\ spc[s] = "commit"
            /\ total' = ak[s].total /\ lastStat' = ak[s].last
            /\ UNCHANGED <<next, open, rows, recorded, skipped, range, plan>>
        BY <2>11 DEF SyncCommit, SyncGoto, recordVars, compressVars, historyVars
      <3>a. /\ lastStat' = window[s] /\ lastStat < window[s] /\ window[s] < next
            /\ \A q \in open : q <= window[s] => q \in skipped
            /\ \A q \in Records \ skipped :
                 total'[q] = (IF q \in recorded /\ q <= window[s] THEN 1 ELSE 0)
            /\ window[s] \in Nat
        BY <3>0 DEF SyncInv, SyncSound, InFlight
      <3>1. LedgerInv'
        <4>1. ASSUME NEW i \in Records
              PROVE  /\ i <= lastStat' => \A q \in rows[i] : q <= lastStat'
                     /\ i > lastStat' => rows[i] = {i} \cap recorded
          <5>1. i \in Nat /\ rows[i] \subseteq Nat
            BY DEF Records
          <5>2. i <= lastStat => \A q \in rows[i] : q <= lastStat
            BY DEF LedgerInv
          <5>3. i > lastStat => rows[i] = {i} \cap recorded
            BY DEF LedgerInv
          <5>4. QED
            BY <3>a, <5>1, <5>2, <5>3
        <4>2. QED
          BY <3>0, <3>a, <4>1 DEF LedgerInv
      <3>2. SyncInv'
        BY <2>11 DEF SyncInv, SyncSound, InFlight, SyncCommit, SyncGoto, recordVars
      <3>3. CompressInv'
        <4>1. ASSUME NEW c \in Compressors
              PROVE  /\ range[c].high <= lastStat'
                     /\ \A i \in plan[c].touched : i <= lastStat' /\ \A q \in plan[c].row[i] : q <= lastStat'
          <5>1. range[c].high \in Nat /\ plan[c].touched \subseteq Records /\ plan[c].row \in [Records -> SUBSET Records]
            OBVIOUS
          <5>2. QED
            BY <3>a, <5>1 DEF CompressInv, Records
        <4>2. QED
          BY <3>0, <4>1 DEF CompressInv
      <3>4. QED
        BY <3>1, <3>2, <3>3
    <2>12. ASSUME NEW s \in Syncers, SyncCrash(s) PROVE LedgerInv' /\ SyncInv' /\ CompressInv'
      <3>1. LedgerInv'
        BY <2>12 DEF LedgerInv, SyncCrash, recordVars, keyVars, historyVars
      <3>2. SyncInv'
        BY <2>12 DEF SyncInv, SyncSound, InFlight, SyncCrash, recordVars, keyVars, historyVars
      <3>3. CompressInv'
        BY <2>12 DEF CompressInv, SyncCrash, keyVars, compressVars
      <3>4. QED
        BY <3>1, <3>2, <3>3
    <2>13. ASSUME NEW c \in Compressors, CompressLoad(c) PROVE LedgerInv' /\ SyncInv' /\ CompressInv'
      <3>1. LedgerInv'
        BY <2>13 DEF LedgerInv, CompressLoad, recordVars, keyVars
      <3>2. SyncInv'
        BY <2>13 DEF SyncInv, SyncSound, InFlight, CompressLoad, recordVars, keyVars, syncVars
      <3>3. CompressInv'
        BY <2>13 DEF CompressInv, CompressLoad, keyVars
      <3>4. QED
        BY <3>1, <3>2, <3>3
    <2>14. ASSUME NEW c \in Compressors, CompressLock(c) PROVE LedgerInv' /\ SyncInv' /\ CompressInv'
      <3>1. LedgerInv'
        BY <2>14 DEF LedgerInv, CompressLock, recordVars, keyVars, historyVars
      <3>2. SyncInv'
        BY <2>14 DEF SyncInv, SyncSound, InFlight, CompressLock, recordVars, keyVars, syncVars, historyVars
      <3>3. CompressInv'
        BY <2>14 DEF CompressInv, CompressLock, keyVars
      <3>4. QED
        BY <3>1, <3>2, <3>3
    <2>15. ASSUME NEW c \in Compressors, CompressRead(c) PROVE LedgerInv' /\ SyncInv' /\ CompressInv'
      <3>1. LedgerInv'
        BY <2>15 DEF LedgerInv, CompressRead, recordVars, keyVars, historyVars
      <3>2. SyncInv'
        BY <2>15 DEF SyncInv, SyncSound, InFlight, CompressRead, recordVars, keyVars, syncVars, historyVars
      <3>3. CompressInv'
        <4>1. /\ plan' = [plan EXCEPT ![c] = Plan(rows, range[c])]
              /\ UNCHANGED <<lastStat, range>>
          BY <2>15 DEF CompressRead, keyVars
        <4> DEFINE counted == {q \in Records : q <= lastStat}
        <4>2. range[c].high <= lastStat /\ range[c].high \in Nat
          BY DEF CompressInv
        <4>3. \A i \in Between(range[c].low, range[c].high) : i <= lastStat /\ rows[i] \subseteq counted
          BY <4>2 DEF Between, Records, LedgerInv
        <4>4. \A i \in Plan(rows, range[c]).touched :
                i \in Between(range[c].low, range[c].high) /\ Plan(rows, range[c]).row[i] \subseteq counted
          BY <4>3, PlanBounds
        <4>5. \A i \in Plan(rows, range[c]).touched :
                i <= lastStat /\ \A q \in Plan(rows, range[c]).row[i] : q <= lastStat
          BY <4>3, <4>4
        <4>6. QED
          BY <4>1, <4>5 DEF CompressInv
      <3>4. QED
        BY <3>1, <3>2, <3>3
    <2>16. ASSUME NEW c \in Compressors, CompressFlush(c) PROVE LedgerInv' /\ SyncInv' /\ CompressInv'
      <3>1. LedgerInv'
        BY <2>16 DEF LedgerInv, CompressFlush, recordVars, keyVars, historyVars
      <3>2. SyncInv'
        BY <2>16 DEF SyncInv, SyncSound, InFlight, CompressFlush, recordVars, keyVars, syncVars, historyVars
      <3>3. CompressInv'
        BY <2>16 DEF CompressInv, CompressFlush, keyVars
      <3>4. QED
        BY <3>1, <3>2, <3>3
    <2>17. ASSUME NEW c \in Compressors, CompressCommit(c) PROVE LedgerInv' /\ SyncInv' /\ CompressInv'
      <3>0. /\ UNCHANGED <<next, open, total, lastStat, recorded, skipped>>
            /\ \/ rows' = [i \in Records |-> IF i \in plan[c].touched THEN plan[c].row[i] ELSE rows[i]]
               \/ rows' = rows
        BY <2>17 DEF CompressCommit, historyVars
      <3>a. \A i \in plan[c].touched : i <= lastStat /\ \A q \in plan[c].row[i] : q <= lastStat
        BY DEF CompressInv
      <3>1. LedgerInv'
        <4>1. ASSUME NEW i \in Records
              PROVE  /\ i <= lastStat => \A q \in rows'[i] : q <= lastStat
                     /\ i > lastStat => rows'[i] = {i} \cap recorded
          <5>1. rows'[i] = rows[i] \/ (i \in plan[c].touched /\ rows'[i] = plan[c].row[i])
            BY <3>0
          <5>2. QED
            BY <5>1, <3>a DEF LedgerInv, Records
        <4>2. QED
          BY <3>0, <4>1 DEF LedgerInv
      <3>2. SyncInv'
        BY <2>17 DEF SyncInv, SyncSound, InFlight, CompressCommit, syncVars, historyVars
      <3>3. CompressInv'
        BY <2>17 DEF CompressInv, CompressCommit, NoRange, NoPlan
      <3>4. QED
        BY <3>1, <3>2, <3>3
    <2>18. ASSUME NEW c \in Compressors, CompressCrash(c) PROVE LedgerInv' /\ SyncInv' /\ CompressInv'
      <3>1. LedgerInv'
        BY <2>18 DEF LedgerInv, CompressCrash, recordVars, keyVars, historyVars
      <3>2. SyncInv'
        BY <2>18 DEF SyncInv, SyncSound, InFlight, CompressCrash, recordVars, keyVars, syncVars, historyVars
      <3>3. CompressInv'
        BY <2>18 DEF CompressInv, CompressCrash, NoRange, NoPlan, keyVars
      <3>4. QED
        BY <3>1, <3>2, <3>3
    <2>19. CASE UNCHANGED vars
      BY <2>19 DEF LedgerInv, SyncInv, SyncSound, InFlight, CompressInv, vars, recordVars, keyVars, syncVars, compressVars, historyVars
    <2>20. QED
      BY <2>1, <2>2, <2>3, <2>4, <2>5, <2>6, <2>7, <2>8, <2>9, <2>10, <2>11, <2>12, <2>13, <2>14, <2>15, <2>16, <2>17, <2>18, <2>19 DEF Next, SyncStep, CompressStep
  <1>3. QED
    BY <1>1, <1>2, TypeCorrect, PTL DEF Spec

\* Without overlapping syncs the counters are exact.
THEOREM CountedExact == Spec => []CountedExactly
  <1>1. TypeOK /\ IInv => CountedExactly
    BY DEF TypeOK, IInv, LedgerInv, CountedExactly
  <1>2. QED
    BY <1>1, TypeCorrect, Induction, PTL

-----------------------------------------------------------------------------
(* Merging conserves requests.                                             *)

\* No request is part of two rows of a table, and the requests of two tables are
\* the same.
Disjoint(t) == \A i, j \in Records : \A q \in t[i] \cap t[j] : i = j
Held(t) == {q \in Records : \E i \in Records : q \in t[i]}

-----------------------------------------------------------------------------
\* Ranks in a set of ids are its first natural numbers, each once.
LEMMA RankInjective ==
  ASSUME NEW S, S \subseteq Records, NEW i \in S, NEW j \in S, i < j
  PROVE  Rank(S, i) < Rank(S, j)
  <1> DEFINE A == {k \in S : k < i}
             B == {k \in S : k < j}
  <1>1. S \subseteq Nat
    BY BoundsAssumption DEF Records
  <1>2. IsFiniteSet(A) /\ IsFiniteSet(B)
    BY RecordsFinite
  <1>3. A \cup {i} \subseteq B /\ i \notin A
    <2>1. i \in Nat /\ j \in Nat
      BY <1>1
    <2>2. \A k \in S : k \in Nat /\ (k < i => k < j) /\ ~(i < i)
      BY <1>1, <2>1
    <2>3. QED
      BY <2>2
  <1> HIDE DEF A, B
  <1>4. Cardinality(A \cup {i}) = Cardinality(A) + 1 /\ IsFiniteSet(A \cup {i})
    BY <1>2, <1>3, FS_AddElement
  <1>5. Cardinality(A \cup {i}) <= Cardinality(B)
    BY <1>2, <1>3, FS_Subset
  <1>6. Cardinality(A) \in Nat /\ Cardinality(B) \in Nat
    BY <1>2, FS_CardinalityType
  <1>7. QED
    BY <1>4, <1>5, <1>6 DEF Rank, A, B

\* A rank is below the number of ids.
LEMMA RankBound ==
  ASSUME NEW S, S \subseteq Records, NEW i \in S
  PROVE  Rank(S, i) \in 0..(Cardinality(S) - 1)
  <1> DEFINE A == {k \in S : k < i}
  <1>1. S \subseteq Nat
    BY BoundsAssumption DEF Records
  <1>2. A \subseteq S \ {i} /\ A \subseteq Records
    <2>1. i \in Nat /\ ~(i < i)
      BY <1>1
    <2>2. QED
      BY <2>1
  <1>3. IsFiniteSet(S) /\ Cardinality(S) \in Nat
    BY RecordsFinite
  <1>4. IsFiniteSet(S \ {i}) /\ Cardinality(S \ {i}) = Cardinality(S) - 1
    BY <1>3, FS_RemoveElement
  <1> HIDE DEF A
  <1>5. Cardinality(A) \in Nat
    BY <1>2, RecordsFinite
  <1>6. Cardinality(A) <= Cardinality(S \ {i})
    BY <1>2, <1>4, FS_Subset
  <1>7. QED
    BY <1>3, <1>4, <1>5, <1>6 DEF Rank, A

\* No two ids of a set have the same rank.
LEMMA RankUnique ==
  ASSUME NEW S, S \subseteq Records, NEW i \in S, NEW j \in S, Rank(S, i) = Rank(S, j)
  PROVE  i = j
  <1>1. SUFFICES ASSUME i # j PROVE FALSE
    OBVIOUS
  <1>2. i \in Nat /\ j \in Nat
    BY BoundsAssumption DEF Records
  <1>3. i < j \/ j < i
    BY <1>1, <1>2
  <1>4. Rank(S, i) \in 0..(Cardinality(S) - 1)
    BY RankBound
  <1>5. (i < j => Rank(S, i) < Rank(S, j)) /\ (j < i => Rank(S, j) < Rank(S, i))
    BY RankInjective
  <1>6. QED
    BY <1>3, <1>4, <1>5

\* Each number below that of the ids is a rank.
LEMMA RankSurjective ==
  ASSUME NEW S, S \subseteq Records, NEW n \in 0..(Cardinality(S) - 1)
  PROVE  \E i \in S : Rank(S, i) = n
  <1> DEFINE T == 0..(Cardinality(S) - 1)
             f == [i \in S |-> Rank(S, i)]
  <1>1. IsFiniteSet(S) /\ Cardinality(S) \in Nat
    BY RecordsFinite
  <1>2. IsFiniteSet(T) /\ Cardinality(T) = Cardinality(S)
    <2>1. 0 \in Int /\ Cardinality(S) - 1 \in Int
      BY <1>1
    <2>2. QED
      BY <1>1, <2>1, FS_Interval
  <1>3. f \in [S -> T]
    BY RankBound
  <1>4. \A i, j \in S : f[i] = f[j] => i = j
    BY RankUnique
  <1> HIDE DEF T, f
  <1>5. f \in Injection(S, T)
    BY <1>3, <1>4 DEF Injection, IsInjective
  <1>6. f \in Surjection(S, T)
    BY <1>2, <1>1, <1>5, FS_Injection
  <1>7. n \in T
    BY DEF T
  <1>8. QED
    BY <1>6, <1>7 DEF Surjection, f

\* The batch of a place begins at a place of its own, the only one of the batch
\* that BatchSize divides.
LEMMA BatchStart ==
  ASSUME NEW p \in Nat
  PROVE  \E n \in 0..p : n % BatchSize = 0 /\ n \div BatchSize = p \div BatchSize
  <1> DEFINE d == p \div BatchSize
             n == BatchSize * d
  <1>1. BatchSize \in Nat /\ BatchSize > 0
    BY BoundsAssumption
  <1>2. d \in Nat /\ p = BatchSize * d + (p % BatchSize) /\ p % BatchSize \in 0..(BatchSize - 1)
    BY <1>1
  <1> HIDE DEF d
  <1>3. n \in Nat /\ n <= p
    BY <1>1, <1>2
  <1>4. n % BatchSize = 0 /\ n \div BatchSize = d
    BY <1>1, <1>2
  <1>5. QED
    BY <1>3, <1>4 DEF d

\* A batch begins at one place only.
LEMMA BatchStartUnique ==
  ASSUME NEW p \in Nat, NEW n \in Nat, p % BatchSize = 0, n % BatchSize = 0,
         p \div BatchSize = n \div BatchSize
  PROVE  p = n
  <1>1. BatchSize \in Nat /\ BatchSize > 0
    BY BoundsAssumption
  <1>2. /\ p = BatchSize * (p \div BatchSize) + (p % BatchSize)
        /\ n = BatchSize * (n \div BatchSize) + (n % BatchSize)
    BY <1>1
  <1> DEFINE d == p \div BatchSize
  <1>3. d \in Int
    BY <1>1
  <1>4. p = BatchSize * d + 0 /\ n = BatchSize * d + 0
    BY <1>2
  <1> HIDE DEF d
  <1>5. QED
    BY <1>4

-----------------------------------------------------------------------------
\* A pass of a compress cycle neither loses nor copies a request, and leaves the
\* rows that are not there alone.
LEMMA PassConserves ==
  ASSUME NEW t \in [Records -> SUBSET Records], Disjoint(t), NEW r, NEW limit \in Nat, NEW bucketOf
  PROVE  /\ Disjoint(Pass(t, r, limit, bucketOf))
         /\ Held(Pass(t, r, limit, bucketOf)) = Held(t)
         /\ \A i \in Records : t[i] = {} => Pass(t, r, limit, bucketOf)[i] = {}
  <1> DEFINE M == Merged(t, r, limit, bucketOf)
             B(i) == Bucket(t, r, bucketOf, i)
             Place(i) == Rank(B(i), i)
             Heads(h, k) == /\ h \in M /\ bucketOf[h] = bucketOf[k]
                            /\ Place(h) % BatchSize = 0
                            /\ Place(k) \div BatchSize = Place(h) \div BatchSize
             P == Pass(t, r, limit, bucketOf)
  <1>1. M \subseteq Records /\ \A i \in Records : t[i] = {} => i \notin M
    <2>1. M \subseteq Singles(t, r) /\ Singles(t, r) \subseteq Records
      BY DEF Merged, Singles, Between
    <2>2. \A i \in Singles(t, r) : Cardinality(t[i]) = 1
      BY DEF Singles
    <2>3. \A i \in Singles(t, r) : t[i] # {}
      <3>1. Cardinality({}) = 0
        BY FS_EmptySet
      <3>2. QED
        BY <2>2, <3>1
    <2>4. QED
      BY <2>1, <2>3
  <1>2. \A i \in M : i \in B(i) /\ B(i) \subseteq Records /\ Place(i) + limit < Cardinality(B(i))
    BY DEF Merged, Bucket, Singles, Between
  <1>3. \A i \in M : \A k \in B(i) : B(k) = B(i) /\ bucketOf[k] = bucketOf[i]
    BY DEF Merged, Bucket
  <1>4. \A i, k \in M : bucketOf[i] = bucketOf[k] => B(i) = B(k)
    BY DEF Bucket
  <1>5. \A i \in M : Place(i) \in Nat /\ Cardinality(B(i)) \in Nat
    <2>1. TAKE i \in M
    <2>2. Place(i) \in 0..(Cardinality(B(i)) - 1)
      BY <1>2, RankBound
    <2>3. QED
      BY <2>2, <1>2, RecordsFinite
  <1>6. ASSUME NEW k \in M PROVE \E h \in M : Heads(h, k)
    <2>1. PICK n \in 0..Place(k) : n % BatchSize = 0 /\ n \div BatchSize = Place(k) \div BatchSize
      BY <1>5, BatchStart
    <2>2. n \in 0..(Cardinality(B(k)) - 1) /\ n + limit < Cardinality(B(k))
      BY <1>2, <1>5
    <2>3. PICK h \in B(k) : Rank(B(k), h) = n
      BY <2>2, <1>2, RankSurjective
    <2>4. B(h) = B(k) /\ bucketOf[h] = bucketOf[k]
      BY <1>3
    <2>5. Place(h) = n
      BY <2>3, <2>4
    <2>6. h \in Singles(t, r)
      BY DEF Bucket
    <2>7. Rank(Bucket(t, r, bucketOf, h), h) + limit < Cardinality(Bucket(t, r, bucketOf, h))
      BY <2>2, <2>4, <2>5
    <2>8. h \in M
      BY <2>6, <2>7 DEF Merged
    <2>9. QED
      BY <2>1, <2>4, <2>5, <2>8
  <1>7. ASSUME NEW k \in M, NEW g \in M, NEW h \in M, Heads(g, k), Heads(h, k) PROVE g = h
    <2>1. Place(g) = Place(h)
      BY <1>5, <1>7, BatchStartUnique
    <2>2. B(g) = B(h) /\ g \in B(g) /\ h \in B(g) /\ B(g) \subseteq Records
      BY <1>2, <1>4, <1>7
    <2>3. Rank(B(g), g) = Rank(B(g), h)
      BY <2>1, <2>2
    <2>4. QED
      BY <2>2, <2>3, RankUnique
  <1>8. \A i \in Records :
          P[i] = IF i \notin M THEN t[i]
                 ELSE IF Place(i) % BatchSize = 0
                      THEN UNION {t[k] : k \in {j \in M : bucketOf[j] = bucketOf[i]
                                                /\ Place(j) \div BatchSize = Place(i) \div BatchSize}}
                      ELSE {}
    BY DEF Pass
  <1> HIDE DEF M, B, Place, P
  <1>9. \A i \in Records : \A q : q \in P[i] <=>
          \E k \in Records : q \in t[k] /\ (IF k \in M THEN Heads(i, k) ELSE i = k)
    <2>1. ASSUME NEW i \in Records, NEW q, i \notin M
          PROVE  q \in P[i] <=>
                   \E k \in Records : q \in t[k] /\ (IF k \in M THEN Heads(i, k) ELSE i = k)
      BY <1>8, <2>1
    <2>2. ASSUME NEW i \in M, NEW q
          PROVE  q \in P[i] <=> \E k \in M : q \in t[k] /\ Heads(i, k)
      <3> DEFINE Batch == {j \in M : bucketOf[j] = bucketOf[i]
                                     /\ Place(j) \div BatchSize = Place(i) \div BatchSize}
      <3>1. P[i] = IF Place(i) % BatchSize = 0 THEN UNION {t[k] : k \in Batch} ELSE {}
        BY <1>1, <1>8, <2>2
      <3>2. \A k : k \in Batch <=> /\ k \in M /\ bucketOf[i] = bucketOf[k]
                                   /\ Place(k) \div BatchSize = Place(i) \div BatchSize
        OBVIOUS
      <3> HIDE DEF Batch
      <3>3. CASE Place(i) % BatchSize = 0
        <4>1. q \in P[i] <=> \E k \in Batch : q \in t[k]
          BY <3>1, <3>3
        <4>2. QED
          BY <3>2, <3>3, <4>1, <2>2
      <3>4. CASE Place(i) % BatchSize # 0
        BY <3>1, <3>4
      <3>5. QED
        BY <3>3, <3>4
    <2>3. QED
      BY <1>1, <2>1, <2>2
  <1>10. Disjoint(P)
    <2>1. SUFFICES ASSUME NEW i \in Records, NEW j \in Records, NEW q, q \in P[i], q \in P[j]
                   PROVE  i = j
      BY DEF Disjoint
    <2>2. PICK k \in Records : q \in t[k] /\ (IF k \in M THEN Heads(i, k) ELSE i = k)
      BY <1>9, <2>1
    <2>3. PICK l \in Records : q \in t[l] /\ (IF l \in M THEN Heads(j, l) ELSE j = l)
      BY <1>9, <2>1
    <2>4. k = l
      BY <2>2, <2>3 DEF Disjoint
    <2>5. QED
      BY <2>2, <2>3, <2>4, <1>7
  <1>11. Held(P) = Held(t)
    <2>1. \A q : (\E i \in Records : q \in P[i]) => \E k \in Records : q \in t[k]
      BY <1>9
    <2>2. ASSUME NEW q, NEW k \in Records, q \in t[k] PROVE \E i \in Records : q \in P[i]
      BY <1>1, <1>6, <1>9, <2>2
    <2>3. QED
      BY <2>1, <2>2 DEF Held
  <1>12. \A i \in Records : t[i] = {} => P[i] = {}
    BY <1>1, <1>8
  <1>13. QED
    BY <1>10, <1>11, <1>12 DEF P

\* So what a plan writes are rows that are there, and its new rows hold the
\* requests of the old ones, each once.
Exchanges(t, p) ==
  /\ \A i \in p.touched : t[i] # {}
  /\ \A i, j \in p.touched : \A q \in p.row[i] \cap p.row[j] : i = j
  /\ \A q \in Records : (\E i \in p.touched : q \in p.row[i]) <=> (\E i \in p.touched : q \in t[i])

\* A plan gives the rows it touches the requests they had.
LEMMA PlanExchanges ==
  ASSUME NEW t \in [Records -> SUBSET Records], Disjoint(t), NEW r
  PROVE  Exchanges(t, Plan(t, r))
  <1> DEFINE byMinute == Pass(t, r, PerMinute, MinuteOf)
             byHour == Pass(byMinute, r, PerHour, HourOf)
             touched == {i \in Records : byHour[i] # t[i]}
  <1>1. PerMinute \in Nat /\ PerHour \in Nat
    BY BoundsAssumption
  <1>2. byMinute \in [Records -> SUBSET Records] /\ byHour \in [Records -> SUBSET Records]
    BY PassType
  <1>3. /\ Disjoint(byMinute) /\ Held(byMinute) = Held(t)
        /\ \A i \in Records : t[i] = {} => byMinute[i] = {}
    BY <1>1, PassConserves
  <1>4. /\ Disjoint(byHour) /\ Held(byHour) = Held(byMinute)
        /\ \A i \in Records : byMinute[i] = {} => byHour[i] = {}
    BY <1>1, <1>2, <1>3, PassConserves
  <1>5. Plan(t, r).row = byHour /\ Plan(t, r).touched = touched
    BY DEF Plan
  <1> HIDE DEF byMinute, byHour
  <1>6. \A i \in touched : t[i] # {}
    BY <1>3, <1>4
  <1>7. \A i, j \in touched : \A q \in byHour[i] \cap byHour[j] : i = j
    BY <1>4 DEF Disjoint
  <1>8. ASSUME NEW q \in Records
        PROVE  (\E i \in touched : q \in byHour[i]) <=> (\E i \in touched : q \in t[i])
    <2>1. (\E i \in Records : q \in byHour[i]) <=> (\E i \in Records : q \in t[i])
      BY <1>3, <1>4 DEF Held
    <2>2. \A i \in Records \ touched : byHour[i] = t[i]
      OBVIOUS
    <2>3. \A i, j \in Records : q \in t[i] /\ q \in t[j] => i = j
      BY DEF Disjoint
    <2>4. \A i, j \in Records : q \in byHour[i] /\ q \in byHour[j] => i = j
      BY <1>4 DEF Disjoint
    <2>5. touched \subseteq Records
      OBVIOUS
    <2> HIDE DEF touched
    <2>6. QED
      BY <2>1, <2>2, <2>3, <2>4, <2>5
  <1> HIDE DEF touched
  <1>9. QED
    BY <1>5, <1>6, <1>7, <1>8 DEF Exchanges

\* A cycle without a plan exchanges nothing.
LEMMA NoExchange == \A t : Exchanges(t, NoPlan)
  BY DEF Exchanges, NoPlan

-----------------------------------------------------------------------------
\* The rows hold the recorded requests, each in one row; a request whose
\* transaction is open, and an id that is not taken yet, has an empty row.
RowsInv ==
  /\ Disjoint(rows)
  /\ Held(rows) = recorded
  /\ \A q \in Records : q \in open \/ q >= next => rows[q] = {} /\ q \notin recorded
  /\ \A q \in open : q < next

\* A compress cycle that runs is alone, and its plan exchanges rows that are
\* still what they were when it read them.
MergingInv ==
  /\ \A b, c \in Compressors : cpc[b] # "idle" /\ cpc[c] # "idle" => b = c
  /\ \A c \in Compressors : cpc[c] = "idle" => plan[c] = NoPlan
  /\ \A c \in Compressors : Exchanges(rows, plan[c])

CInv == "compress" \notin overlapped => RowsInv /\ MergingInv

\* Steps that leave the rows and the compress cycles alone.
LEMMA Untouched ==
  ASSUME RowsInv, MergingInv, UNCHANGED <<recordVars, compressVars, recorded>>
  PROVE  RowsInv' /\ MergingInv'
  BY DEF RowsInv, MergingInv, recordVars, compressVars, Disjoint, Held, Exchanges

\* CInv holds before the first step, and every step keeps it.
THEOREM MergingInduction == Spec => []CInv
  <1> USE BoundsAssumption
  <1>1. Init => CInv
    BY DEF Init, CInv, RowsInv, MergingInv, Disjoint, Held, Exchanges, NoPlan
  <1>2. TypeOK /\ CInv /\ [Next]_vars => CInv'
    <2> SUFFICES ASSUME TypeOK, CInv, [Next]_vars, "compress" \notin overlapped'
                 PROVE  RowsInv' /\ MergingInv'
      BY DEF CInv
    <2>a. "compress" \notin overlapped
      BY DEF Next, SyncStep, CompressStep, vars, historyVars, Insert, Age, Expire, Overrun, CommitRecord,
             AbortRecord, Scan, Load, SyncLock, Compute, SyncCommit, SyncCrash, CompressLoad, CompressLock,
             CompressRead, CompressFlush, CompressCommit, CompressCrash
    <2>b. RowsInv /\ MergingInv
      BY <2>a DEF CInv
    <2>1. ASSUME Insert PROVE RowsInv' /\ MergingInv'
      <3>1. RowsInv'
        <4>1. /\ next \in Nat /\ next' = next + 1 /\ open' = open \cup {next}
              /\ UNCHANGED <<rows, recorded>>
          BY <2>1 DEF Insert, Records, historyVars
        <4>2. Disjoint(rows)' /\ (Held(rows) = recorded)'
          BY <4>1, <2>b DEF RowsInv, Disjoint, Held
        <4>3. \A q \in Records : q \in open' \/ q >= next' => q \in open \/ q >= next
          BY <4>1 DEF Records
        <4>4. \A q \in open' : q < next'
          BY <4>1, <2>b DEF RowsInv, TypeOK, Records
        <4>5. QED
          BY <4>1, <4>2, <4>3, <4>4, <2>b DEF RowsInv
      <3>2. MergingInv'
        BY <2>1, <2>b DEF MergingInv, Exchanges, Insert, compressVars
      <3>3. QED
        BY <3>1, <3>2
    <2>2. ASSUME NEW q \in Records, CommitRecord(q) PROVE RowsInv' /\ MergingInv'
      <3>1. /\ q \in open /\ open' = open \ {q} /\ next' = next
            /\ rows' = [rows EXCEPT ![q] = {q}]
            /\ recorded' = recorded \cup {q}
            /\ UNCHANGED <<cpc, plan>>
        BY <2>2 DEF CommitRecord, compressVars
      <3>2. rows[q] = {} /\ q \notin recorded /\ rows \in [Records -> SUBSET Records]
        BY <3>1, <2>b DEF RowsInv, TypeOK
      <3>3. /\ rows'[q] = {q} /\ \A i \in Records \ {q} : rows'[i] = rows[i]
            /\ \A i \in Records : q \notin rows[i]
        BY <3>1, <3>2, <2>b DEF RowsInv, Held
      <3>4. Disjoint(rows')
        BY <3>3, <2>b DEF RowsInv, Disjoint
      <3>5. Held(rows') = recorded'
        <4>1. \A x \in Records : (\E i \in Records : x \in rows'[i]) <=>
                                    x = q \/ \E i \in Records : x \in rows[i]
          BY <3>2, <3>3
        <4>2. Held(rows) = recorded
          BY <2>b DEF RowsInv
        <4>3. QED
          BY <3>1, <4>1, <4>2 DEF Held
      <3>6. RowsInv'
        <4>1. q < next /\ \A x \in open : x < next
          BY <3>1, <2>b DEF RowsInv
        <4>2. ASSUME NEW x \in Records, x \in open' \/ x >= next'
              PROVE  rows'[x] = {} /\ x \notin recorded'
          <5>1. x # q /\ (x \in open \/ x >= next)
            BY <4>1, <4>2, <3>1 DEF Records, TypeOK
          <5>2. QED
            BY <5>1, <3>1, <3>3, <2>b DEF RowsInv
        <4>3. QED
          BY <3>1, <3>4, <3>5, <4>1, <4>2 DEF RowsInv
      <3>7. MergingInv'
        <4>1. ASSUME NEW c \in Compressors PROVE Exchanges(rows, plan[c])'
          <5>1. Exchanges(rows, plan[c]) /\ plan[c].touched \subseteq Records
            BY <2>b DEF MergingInv, TypeOK
          <5>2. q \notin plan[c].touched
            BY <5>1, <3>2 DEF Exchanges
          <5>3. \A i \in plan[c].touched : rows'[i] = rows[i]
            BY <5>1, <5>2, <3>3
          <5>4. QED
            BY <5>1, <5>3, <3>1 DEF Exchanges
        <4>2. QED
          BY <4>1, <3>1, <2>b DEF MergingInv
      <3>8. QED
        BY <3>6, <3>7
    <2>3. ASSUME NEW q \in Records, AbortRecord(q) PROVE RowsInv' /\ MergingInv'
      <3>1. RowsInv'
        BY <2>3, <2>b DEF RowsInv, Disjoint, Held, AbortRecord, historyVars
      <3>2. MergingInv'
        BY <2>3, <2>b DEF MergingInv, Exchanges, AbortRecord, compressVars
      <3>3. QED
        BY <3>1, <3>2
    <2>4. ASSUME Age PROVE RowsInv' /\ MergingInv'
      BY <2>4, <2>b DEF RowsInv, MergingInv, Disjoint, Held, Exchanges, Age, compressVars, historyVars
    <2>5. ASSUME Expire \/ Overrun PROVE RowsInv' /\ MergingInv'
      BY <2>5, <2>b, Untouched DEF Expire, Overrun, historyVars
    <2>6. ASSUME NEW s \in Syncers, Scan(s) \/ SyncStep(s) \/ SyncCrash(s) PROVE RowsInv' /\ MergingInv'
      BY <2>6, <2>b, Untouched
         DEF SyncStep, Scan, Load, SyncLock, Compute, SyncCommit, SyncCrash, historyVars, recordVars
    <2>7. ASSUME NEW c \in Compressors, CompressLoad(c) PROVE RowsInv' /\ MergingInv'
      <3>1. /\ cpc[c] = "idle" /\ cpc' = [cpc EXCEPT ![c] = "lock"]
            /\ \A o \in Compressors \ {c} : cpc[o] = "idle"
            /\ UNCHANGED <<next, open, rows, recorded, plan>>
        BY <2>7 DEF CompressLoad, CompressGoto, recordVars
      <3>2. RowsInv'
        BY <3>1, <2>b DEF RowsInv, Disjoint, Held
      <3>3. MergingInv'
        BY <3>1, <2>b DEF MergingInv, Exchanges, TypeOK
      <3>4. QED
        BY <3>2, <3>3
    <2>8. ASSUME NEW c \in Compressors, CompressLock(c) \/ CompressFlush(c) PROVE RowsInv' /\ MergingInv'
      <3>1. /\ cpc[c] # "idle" /\ \E to : to # "idle" /\ cpc' = [cpc EXCEPT ![c] = to]
            /\ UNCHANGED <<next, open, rows, recorded, plan>>
        BY <2>8 DEF CompressLock, CompressFlush, CompressGoto, recordVars, historyVars
      <3>2. RowsInv'
        BY <3>1, <2>b DEF RowsInv, Disjoint, Held
      <3>3. MergingInv'
        BY <3>1, <2>b DEF MergingInv, Exchanges, TypeOK
      <3>4. QED
        BY <3>2, <3>3
    <2>9. ASSUME NEW c \in Compressors, CompressRead(c) PROVE RowsInv' /\ MergingInv'
      <3>1. /\ cpc[c] # "idle" /\ cpc' = [cpc EXCEPT ![c] = "flush"]
            /\ plan' = [plan EXCEPT ![c] = Plan(rows, range[c])]
            /\ UNCHANGED <<next, open, rows, recorded>>
        BY <2>9 DEF CompressRead, CompressGoto, recordVars, historyVars
      <3>2. RowsInv'
        BY <3>1, <2>b DEF RowsInv, Disjoint, Held
      <3>3. Exchanges(rows, Plan(rows, range[c]))
        BY <2>b, PlanExchanges DEF RowsInv, TypeOK
      <3>4. ASSUME NEW o \in Compressors PROVE Exchanges(rows, plan[o])'
        <4>1. plan'[o] = IF o = c THEN Plan(rows, range[c]) ELSE plan[o]
          BY <3>1 DEF TypeOK
        <4>2. Exchanges(rows, plan'[o])
          BY <4>1, <3>3, <2>b DEF MergingInv
        <4>3. QED
          BY <4>2, <3>1 DEF Exchanges
      <3>5. MergingInv'
        BY <3>1, <3>4, <2>b DEF MergingInv, TypeOK
      <3>6. QED
        BY <3>2, <3>5
    <2>10. ASSUME NEW c \in Compressors, CompressCommit(c) PROVE RowsInv' /\ MergingInv'
      <3> DEFINE p == plan[c]
      <3>1. /\ cpc[c] # "idle" /\ cpc' = [cpc EXCEPT ![c] = "idle"]
            /\ plan' = [plan EXCEPT ![c] = NoPlan]
            /\ UNCHANGED <<next, open, recorded>>
            /\ \/ rows' = [i \in Records |-> IF i \in p.touched THEN p.row[i] ELSE rows[i]]
               \/ rows' = rows
        BY <2>10 DEF CompressCommit, CompressGoto, historyVars
      <3>2. /\ Exchanges(rows, p) /\ p.touched \subseteq Records
            /\ rows \in [Records -> SUBSET Records] /\ p.row \in [Records -> SUBSET Records]
        BY <2>b DEF MergingInv, TypeOK
      <3> HIDE DEF p
      <3>3. ASSUME rows' = [i \in Records |-> IF i \in p.touched THEN p.row[i] ELSE rows[i]]
            PROVE  /\ Disjoint(rows') /\ Held(rows') = Held(rows)
                   /\ \A i \in Records : rows[i] = {} => rows'[i] = {}
        <4>1. \A i \in Records : rows'[i] = IF i \in p.touched THEN p.row[i] ELSE rows[i]
          BY <3>3
        <4>2. Disjoint(rows)
          BY <2>b DEF RowsInv
        <4>3. ASSUME NEW q \in Records
              PROVE  (\E i \in Records : q \in rows'[i]) <=> (\E i \in Records : q \in rows[i])
          <5>1. (\E i \in p.touched : q \in p.row[i]) <=> (\E i \in p.touched : q \in rows[i])
            BY <3>2 DEF Exchanges
          <5>2. QED
            BY <5>1, <4>1, <3>2
        <4>4. Disjoint(rows')
          <5>1. SUFFICES ASSUME NEW i \in Records, NEW j \in Records, NEW q, q \in rows'[i], q \in rows'[j]
                         PROVE  i = j
            BY DEF Disjoint
          <5>2. q \in Records
            BY <5>1, <4>1, <3>2
          <5>3. CASE i \in p.touched /\ j \in p.touched
            BY <5>1, <5>3, <4>1, <3>2 DEF Exchanges
          <5>4. CASE i \notin p.touched /\ j \notin p.touched
            BY <5>1, <5>4, <4>1, <4>2 DEF Disjoint
          <5>5. ASSUME NEW k \in p.touched, NEW l \in Records \ p.touched, q \in p.row[k], q \in rows[l]
                PROVE  FALSE
            <6>1. PICK m \in p.touched : q \in rows[m]
              BY <5>2, <5>5, <3>2 DEF Exchanges
            <6>2. m = l
              BY <6>1, <5>5, <4>2, <3>2 DEF Disjoint
            <6>3. QED
              BY <6>1, <6>2, <5>5
          <5>6. QED
            BY <5>1, <5>3, <5>4, <5>5, <4>1
        <4>5. Held(rows') = Held(rows)
          BY <4>3 DEF Held
        <4>6. QED
          BY <4>1, <4>4, <4>5, <3>2 DEF Exchanges
      <3>4. /\ Disjoint(rows') /\ Held(rows') = Held(rows)
            /\ \A i \in Records : rows[i] = {} => rows'[i] = {}
        BY <3>1, <3>3, <2>b DEF RowsInv
      <3>5. RowsInv'
        BY <3>1, <3>4, <2>b DEF RowsInv
      <3>6. MergingInv'
        <4>1. \A o \in Compressors : cpc'[o] = "idle" /\ plan'[o] = NoPlan
          BY <3>1, <2>b DEF MergingInv, TypeOK
        <4>2. \A o \in Compressors : Exchanges(rows, plan[o])'
          BY <4>1, NoExchange
        <4>3. QED
          BY <4>1, <4>2 DEF MergingInv
      <3>7. QED
        BY <3>5, <3>6
    <2>11. ASSUME NEW c \in Compressors, CompressCrash(c) PROVE RowsInv' /\ MergingInv'
      <3>1. /\ cpc[c] # "idle" /\ cpc' = [cpc EXCEPT ![c] = "idle"]
            /\ plan' = [plan EXCEPT ![c] = NoPlan]
            /\ UNCHANGED <<next, open, rows, recorded>>
        BY <2>11 DEF CompressCrash, recordVars, historyVars
      <3>2. RowsInv'
        BY <3>1, <2>b DEF RowsInv, Disjoint, Held
      <3>3. MergingInv'
        <4>1. \A o \in Compressors : cpc'[o] = "idle" /\ plan'[o] = NoPlan
          BY <3>1, <2>b DEF MergingInv, TypeOK
        <4>2. \A o \in Compressors : Exchanges(rows, plan[o])'
          BY <4>1, NoExchange
        <4>3. QED
          BY <4>1, <4>2 DEF MergingInv
      <3>4. QED
        BY <3>2, <3>3
    <2>12. CASE UNCHANGED vars
      BY <2>12, <2>b, Untouched DEF vars, historyVars
    <2>13. QED
      BY <2>1, <2>2, <2>3, <2>4, <2>5, <2>6, <2>7, <2>8, <2>9, <2>10, <2>11, <2>12 DEF Next, CompressStep
  <1>3. QED
    BY <1>1, <1>2, TypeCorrect, PTL DEF Spec

\* As long as no two compress cycles of a key overlap, each recorded request is
\* part of exactly one row of ml_usage_records.
THEOREM RequestsConserved == Spec => []Conserved
  <1>1. TypeOK /\ CInv => Conserved
    <2> SUFFICES ASSUME TypeOK, RowsInv, NEW q \in recorded
                 PROVE  Cardinality({i \in Records : q \in rows[i]}) = 1
      BY DEF CInv, Conserved
    <2>1. PICK i \in Records : q \in rows[i]
      BY DEF RowsInv, Held
    <2>2. {j \in Records : q \in rows[j]} = {i}
      BY <2>1 DEF RowsInv, Disjoint
    <2>3. QED
      BY <2>2, FS_Singleton
  <1>2. QED
    BY <1>1, TypeCorrect, MergingInduction, PTL
-----------------------------------------------------------------------------
(* The counters of a key.                                                  *)

\* The counters T and the mark last belong together: a request is counted at most
\* once, and a counted one is in no row past the mark.
Consistent(T, last) ==
  \A q \in Records :
    /\ T[q] = 0 \/ T[q] = 1
    /\ T[q] = 1 => q \in recorded /\ \A i \in Records : q \in rows[i] => i <= last

\* Of the key's row and of every sync's copy of it.
CopiesInv ==
  /\ Consistent(total, lastStat)
  /\ \A s \in Syncers : /\ Consistent(ak[s].total, ak[s].last)
                        /\ spc[s] \in {"lock", "compute"} => ak[s].last <= window[s]

\* Every request of the table u is in a row of t with the same id or a higher one.
MovesDown(t, u, S) ==
  \A i \in S : \A q \in u[i] : \E k \in Records : i <= k /\ q \in t[k]

PlansInv == \A c \in Compressors : MovesDown(rows, plan[c].row, plan[c].touched)

CountingInv == "compress" \notin overlapped => CopiesInv /\ PlansInv

-----------------------------------------------------------------------------
\* The place BatchSize divides is the first of its batch.
LEMMA BatchFirst ==
  ASSUME NEW p \in Nat, NEW n \in Nat, p % BatchSize = 0, n \div BatchSize = p \div BatchSize
  PROVE  p <= n
  <1>1. BatchSize \in Nat /\ BatchSize > 0
    BY BoundsAssumption
  <1>2. /\ p = BatchSize * (p \div BatchSize) + (p % BatchSize)
        /\ n = BatchSize * (n \div BatchSize) + (n % BatchSize)
        /\ n % BatchSize \in 0..(BatchSize - 1)
    BY <1>1
  <1> DEFINE d == p \div BatchSize
  <1>3. d \in Int
    BY <1>1
  <1>4. p = BatchSize * d + 0 /\ n = BatchSize * d + (n % BatchSize)
    BY <1>2
  <1> HIDE DEF d
  <1>5. QED
    BY <1>1, <1>2, <1>3, <1>4

\* A pass merges rows into the first row of their batch.
LEMMA PassMovesDown ==
  ASSUME NEW t \in [Records -> SUBSET Records], NEW r, NEW limit, NEW bucketOf
  PROVE  MovesDown(t, Pass(t, r, limit, bucketOf), Records)
  <1> DEFINE M == Merged(t, r, limit, bucketOf)
             B(i) == Bucket(t, r, bucketOf, i)
             Place(i) == Rank(B(i), i)
             P == Pass(t, r, limit, bucketOf)
  <1>1. SUFFICES ASSUME NEW i \in Records, NEW q, q \in P[i]
                 PROVE  \E k \in Records : i <= k /\ q \in t[k]
    BY DEF MovesDown
  <1>2. i \in Nat /\ \A k \in Records : k \in Nat
    BY BoundsAssumption DEF Records
  <1>3. P[i] = IF i \notin M THEN t[i]
               ELSE IF Place(i) % BatchSize = 0
                    THEN UNION {t[k] : k \in {j \in M : bucketOf[j] = bucketOf[i]
                                              /\ Place(j) \div BatchSize = Place(i) \div BatchSize}}
                    ELSE {}
    BY DEF Pass
  <1>4. CASE i \notin M
    BY <1>1, <1>2, <1>3, <1>4
  <1>5. CASE i \in M
    <2>1. Place(i) % BatchSize = 0
      BY <1>1, <1>3, <1>5
    <2>2. PICK k \in M : /\ q \in t[k] /\ bucketOf[k] = bucketOf[i]
                         /\ Place(k) \div BatchSize = Place(i) \div BatchSize
      BY <1>1, <1>3, <1>5, <2>1
    <2>3. /\ B(i) \subseteq Records /\ i \in B(i) /\ k \in B(i) /\ B(k) = B(i)
          /\ k \in Records
      BY <1>5, <2>2 DEF Merged, Bucket, Singles, Between
    <2>4. Place(i) \in Nat /\ Place(k) \in Nat
      <3>1. Rank(B(i), i) \in 0..(Cardinality(B(i)) - 1) /\ Rank(B(i), k) \in 0..(Cardinality(B(i)) - 1)
        BY <2>3, RankBound
      <3>2. Cardinality(B(i)) \in Nat
        BY <2>3, RecordsFinite
      <3>3. QED
        BY <2>3, <3>1, <3>2
    <2>5. Place(i) <= Place(k)
      BY <2>1, <2>2, <2>4, BatchFirst
    <2>6. k < i => Rank(B(i), k) < Rank(B(i), i)
      BY <2>3, RankInjective
    <2>7. ~(k < i)
      BY <2>3, <2>4, <2>5, <2>6
    <2>8. i <= k
      BY <1>2, <2>3, <2>7
    <2>9. QED
      BY <2>2, <2>3, <2>8
  <1>6. QED
    BY <1>4, <1>5

\* What a plan writes to a row comes from it or from rows with higher ids.
LEMMA PlanMovesDown ==
  ASSUME NEW t \in [Records -> SUBSET Records], NEW r
  PROVE  MovesDown(t, Plan(t, r).row, Plan(t, r).touched)
  <1> DEFINE byMinute == Pass(t, r, PerMinute, MinuteOf)
             byHour == Pass(byMinute, r, PerHour, HourOf)
  <1>1. byMinute \in [Records -> SUBSET Records]
    BY PassType
  <1>2. MovesDown(t, byMinute, Records) /\ MovesDown(byMinute, byHour, Records)
    BY <1>1, PassMovesDown
  <1>3. Plan(t, r).row = byHour /\ Plan(t, r).touched \subseteq Records
    BY DEF Plan
  <1>4. \A i \in Records : i \in Nat
    BY BoundsAssumption DEF Records
  <1> HIDE DEF byMinute, byHour
  <1>5. ASSUME NEW i \in Records, NEW q \in byHour[i]
        PROVE  \E k \in Records : i <= k /\ q \in t[k]
    <2>1. PICK j \in Records : i <= j /\ q \in byMinute[j]
      BY <1>2 DEF MovesDown
    <2>2. PICK k \in Records : j <= k /\ q \in t[k]
      BY <1>2, <2>1 DEF MovesDown
    <2>3. i <= k
      BY <1>4, <2>1, <2>2
    <2>4. QED
      BY <2>2, <2>3
  <1>6. QED
    BY <1>3, <1>5 DEF MovesDown

-----------------------------------------------------------------------------
\* What compute_delta adds to consistent counters up to the end of the window.
LEMMA ComputeConsistent ==
  ASSUME RowsInv, TypeOK, NEW T \in [Records -> Nat], NEW last \in 0..MaxRecords,
         NEW top \in 0..MaxRecords, last <= top, Consistent(T, last),
         NEW U, \A q \in Records :
                  U[q] = T[q] + Cardinality({i \in Between(last, top) : q \in rows[i]})
  PROVE  Consistent(U, top)
  <1> SUFFICES ASSUME NEW q \in Records
               PROVE  /\ U[q] = 0 \/ U[q] = 1
                      /\ U[q] = 1 => q \in recorded /\ \A i \in Records : q \in rows[i] => i <= top
    BY DEF Consistent
  <1> DEFINE C == {i \in Between(last, top) : q \in rows[i]}
  <1>1. U[q] = T[q] + Cardinality(C) /\ T[q] \in Nat
    OBVIOUS
  <1>2. /\ last \in Nat /\ top \in Nat /\ \A i \in Records : i \in Nat
        /\ \A i : i \in C <=> i \in Records /\ last < i /\ i <= top /\ q \in rows[i]
    BY BoundsAssumption DEF Records, Between
  <1>3. T[q] = 0 \/ T[q] = 1
    BY DEF Consistent
  <1>4. \A i, j \in Records : q \in rows[i] /\ q \in rows[j] => i = j
    BY DEF RowsInv, Disjoint
  <1> HIDE DEF C
  <1>5. CASE C = {}
    <2>1. U[q] = T[q]
      BY <1>1, <1>5, FS_EmptySet
    <2>2. T[q] = 1 => q \in recorded /\ \A i \in Records : q \in rows[i] => i <= last
      BY DEF Consistent
    <2>3. QED
      BY <2>1, <2>2, <1>2, <1>3
  <1>6. ASSUME NEW k \in C PROVE U[q] = 1 /\ q \in recorded /\ \A i \in Records : q \in rows[i] => i <= top
    <2>1. k \in Records /\ last < k /\ k <= top /\ q \in rows[k]
      BY <1>2
    <2>2. C = {k}
      BY <2>1, <1>2, <1>4
    <2>3. Cardinality(C) = 1
      BY <2>2, FS_Singleton
    <2>4. T[q] = 0
      <3>1. T[q] = 1 => k <= last
        BY <2>1 DEF Consistent
      <3>2. QED
        BY <3>1, <2>1, <1>2, <1>3
    <2>5. q \in recorded
      BY <2>1 DEF RowsInv, Held
    <2>6. QED
      BY <1>1, <1>4, <2>1, <2>3, <2>4, <2>5
  <1>7. QED
    BY <1>5, <1>6

-----------------------------------------------------------------------------
\* CountingInv holds before the first step, and every step keeps it.
THEOREM CountingInduction == Spec => []CountingInv
  <1> USE BoundsAssumption
  <1>1. Init => CountingInv
    <2> SUFFICES ASSUME Init PROVE CopiesInv /\ PlansInv
      BY DEF CountingInv
    <2>1. Consistent(total, lastStat)
      BY DEF Init, Consistent
    <2>2. \A s \in Syncers : Consistent(ak[s].total, ak[s].last) /\ spc[s] = "idle"
      BY DEF Init, Consistent, Blank
    <2>3. PlansInv
      BY DEF Init, PlansInv, MovesDown, NoPlan
    <2>4. QED
      BY <2>1, <2>2, <2>3 DEF CopiesInv
  <1>2. TypeOK /\ CInv /\ CountingInv /\ [Next]_vars => CountingInv'
    <2> SUFFICES ASSUME TypeOK, CInv, CountingInv, [Next]_vars, "compress" \notin overlapped'
                 PROVE  CopiesInv' /\ PlansInv'
      BY DEF CountingInv
    <2>a. "compress" \notin overlapped
      BY DEF Next, SyncStep, CompressStep, vars, historyVars, Insert, Age, Expire, Overrun, CommitRecord,
             AbortRecord, Scan, Load, SyncLock, Compute, SyncCommit, SyncCrash, CompressLoad, CompressLock,
             CompressRead, CompressFlush, CompressCommit, CompressCrash
    <2>b. RowsInv /\ MergingInv /\ CopiesInv /\ PlansInv
      BY <2>a DEF CInv, CountingInv
    <2>c. ASSUME UNCHANGED <<rows, recorded, total, lastStat, spc, window, ak>> PROVE CopiesInv'
      BY <2>b, <2>c DEF CopiesInv, Consistent
    <2>d. ASSUME UNCHANGED <<rows, plan>> PROVE PlansInv'
      BY <2>b, <2>d DEF PlansInv, MovesDown
    <2>1. ASSUME Insert \/ Age \/ Expire \/ Overrun \/ \E q \in Records : AbortRecord(q)
          PROVE  CopiesInv' /\ PlansInv'
      BY <2>1, <2>c, <2>d DEF Insert, Age, Expire, Overrun, AbortRecord,
                              recordVars, keyVars, syncVars, compressVars, historyVars
    <2>2. ASSUME NEW q \in Records, CommitRecord(q) PROVE CopiesInv' /\ PlansInv'
      <3>1. /\ q \in open
            /\ rows' = [rows EXCEPT ![q] = {q}]
            /\ recorded' = recorded \cup {q}
            /\ UNCHANGED <<total, lastStat, spc, window, ak, plan>>
        BY <2>2 DEF CommitRecord, keyVars, syncVars, compressVars
      <3>2. rows[q] = {} /\ q \notin recorded /\ rows \in [Records -> SUBSET Records]
        BY <3>1, <2>b DEF RowsInv, TypeOK
      <3>3. rows'[q] = {q} /\ \A i \in Records \ {q} : rows'[i] = rows[i]
        BY <3>1, <3>2
      <3>4. ASSUME NEW T, NEW last, Consistent(T, last)
            PROVE  \A x \in Records :
                     /\ T[x] = 0 \/ T[x] = 1
                     /\ T[x] = 1 => /\ x \in recorded'
                                    /\ \A i \in Records : x \in rows'[i] => i <= last
        BY <3>1, <3>2, <3>3, <3>4 DEF Consistent
      <3>5. CopiesInv'
        <4>1. Consistent(total, lastStat)'
          BY <3>1, <3>4, <2>b DEF CopiesInv, Consistent
        <4>2. \A s \in Syncers : Consistent(ak[s].total, ak[s].last)'
          BY <3>1, <3>4, <2>b DEF CopiesInv, Consistent
        <4>3. QED
          BY <4>1, <4>2, <3>1, <2>b DEF CopiesInv
      <3>6. PlansInv'
        <4>1. \A k \in Records : rows[k] \subseteq rows'[k]
          BY <3>2, <3>3
        <4>2. QED
          BY <4>1, <3>1, <2>b DEF PlansInv, MovesDown
      <3>7. QED
        BY <3>5, <3>6
    <2>3. ASSUME NEW s \in Syncers, Scan(s) \/ SyncCrash(s) \/ SyncLock(s) PROVE CopiesInv' /\ PlansInv'
      <3>1. UNCHANGED <<rows, recorded, total, lastStat, plan>>
        BY <2>3 DEF Scan, SyncCrash, SyncLock, recordVars, keyVars, compressVars, historyVars
      <3>2. \A o \in Syncers :
              /\ ak'[o] = ak[o] \/ ak'[o] = Blank
              /\ spc'[o] \in {"lock", "compute"} =>
                   spc[o] \in {"lock", "compute"} /\ ak'[o] = ak[o] /\ window'[o] = window[o]
        BY <2>3 DEF Scan, SyncCrash, SyncLock, SyncGoto, TypeOK
      <3>3. \A x \in Records : Blank.total[x] = 0
        BY DEF Blank
      <3>4. CopiesInv'
        <4>1. Consistent(total, lastStat)'
          BY <3>1, <2>b DEF CopiesInv, Consistent
        <4>2. ASSUME NEW o \in Syncers PROVE Consistent(ak[o].total, ak[o].last)'
          <5>1. CASE ak'[o] = ak[o]
            BY <5>1, <3>1, <2>b DEF CopiesInv, Consistent
          <5>2. CASE ak'[o] = Blank
            BY <5>2, <3>3 DEF Consistent
          <5>3. QED
            BY <5>1, <5>2, <3>2
        <4>3. QED
          BY <4>1, <4>2, <3>2, <2>b DEF CopiesInv
      <3>5. QED
        BY <3>1, <3>4, <2>d
    <2>4. ASSUME NEW s \in Syncers, Load(s) PROVE CopiesInv' /\ PlansInv'
      <3>1. UNCHANGED <<rows, recorded, total, lastStat, plan>>
        BY <2>4 DEF Load, recordVars, keyVars, compressVars, historyVars
      <3>2. \A o \in Syncers :
              \/ /\ ak'[o] = [last |-> lastStat, total |-> total]
                 /\ lastStat < window[o] /\ window'[o] = window[o]
              \/ /\ ak'[o] = ak[o]
                 /\ spc'[o] \in {"lock", "compute"} =>
                      spc[o] \in {"lock", "compute"} /\ window'[o] = window[o]
        BY <2>4 DEF Load, SyncGoto, TypeOK
      <3>3. lastStat \in Nat /\ \A o \in Syncers : window[o] \in Nat
        BY DEF TypeOK
      <3>4. Consistent(total, lastStat)'
        BY <3>1, <2>b DEF CopiesInv, Consistent
      <3>5. ASSUME NEW o \in Syncers
            PROVE  /\ Consistent(ak[o].total, ak[o].last)'
                   /\ spc'[o] \in {"lock", "compute"} => ak'[o].last <= window'[o]
        <4>1. CASE ak'[o] = ak[o] /\ (spc'[o] \in {"lock", "compute"} =>
                                         spc[o] \in {"lock", "compute"} /\ window'[o] = window[o])
          BY <4>1, <3>1, <2>b DEF CopiesInv, Consistent
        <4>2. CASE /\ ak'[o] = [last |-> lastStat, total |-> total]
                   /\ lastStat < window[o] /\ window'[o] = window[o]
          <5>1. ak'[o].total = total /\ ak'[o].last = lastStat
            BY <4>2
          <5>2. QED
            BY <5>1, <4>2, <3>1, <3>3, <3>4 DEF Consistent
        <4>3. QED
          BY <4>1, <4>2, <3>2
      <3>6. QED
        BY <3>1, <3>4, <3>5, <2>d DEF CopiesInv
    <2>5. ASSUME NEW s \in Syncers, Compute(s) PROVE CopiesInv' /\ PlansInv'
      <3> DEFINE T == [q \in Records |-> ak[s].total[q]
                         + Cardinality({i \in Between(ak[s].last, window[s]) : q \in rows[i]})]
      <3>1. UNCHANGED <<rows, recorded, total, lastStat, plan>> /\ spc[s] = "compute" /\ spc'[s] # "compute"
            /\ spc'[s] # "lock"
        BY <2>5 DEF Compute, SyncGoto, recordVars, keyVars, compressVars, historyVars, TypeOK
      <3>2. /\ ak'[s] = Blank \/ ak'[s] = [last |-> window[s], total |-> T]
            /\ \A o \in Syncers \ {s} : ak'[o] = ak[o] /\ window'[o] = window[o] /\ spc'[o] = spc[o]
        BY <2>5 DEF Compute, SyncGoto, TypeOK
      <3>3. Consistent(T, window[s])
        <4>1. /\ ak[s].total \in [Records -> Nat] /\ ak[s].last \in 0..MaxRecords
              /\ window[s] \in 0..MaxRecords
          BY DEF TypeOK
        <4>2. ak[s].last <= window[s] /\ Consistent(ak[s].total, ak[s].last)
          BY <3>1, <2>b DEF CopiesInv
        <4>3. \A q \in Records : T[q] = ak[s].total[q]
                + Cardinality({i \in Between(ak[s].last, window[s]) : q \in rows[i]})
          OBVIOUS
        <4> HIDE DEF T
        <4>4. QED
          BY <4>1, <4>2, <4>3, <2>b, ComputeConsistent
      <3>4. Consistent(total, lastStat)'
        BY <3>1, <2>b DEF CopiesInv, Consistent
      <3> HIDE DEF T
      <3>5. Consistent(ak[s].total, ak[s].last)'
        <4>1. CASE ak'[s] = Blank
          BY <4>1 DEF Consistent, Blank
        <4>2. CASE ak'[s] = [last |-> window[s], total |-> T]
          <5>1. ak'[s].total = T /\ ak'[s].last = window[s]
            BY <4>2
          <5>2. QED
            BY <5>1, <3>1, <3>3 DEF Consistent
        <4>3. QED
          BY <4>1, <4>2, <3>2
      <3>6. ASSUME NEW o \in Syncers \ {s}
            PROVE  /\ Consistent(ak[o].total, ak[o].last)'
                   /\ spc'[o] \in {"lock", "compute"} => ak'[o].last <= window'[o]
        BY <3>1, <3>2, <2>b DEF CopiesInv, Consistent
      <3>7. QED
        BY <3>1, <3>4, <3>5, <3>6, <2>d DEF CopiesInv
    <2>6. ASSUME NEW s \in Syncers, SyncCommit(s) PROVE CopiesInv' /\ PlansInv'
      <3>1. /\ UNCHANGED <<rows, recorded, plan>>
            /\ total' = ak[s].total /\ lastStat' = ak[s].last
            /\ ak' = [ak EXCEPT ![s] = Blank]
            /\ spc' = [spc EXCEPT ![s] = "idle"] /\ window' = [window EXCEPT ![s] = 0]
        BY <2>6 DEF SyncCommit, SyncGoto, recordVars, compressVars, historyVars
      <3>2. Consistent(total, lastStat)'
        BY <3>1, <2>b DEF CopiesInv, Consistent
      <3>3. ak'[s] = Blank /\ spc'[s] = "idle"
        BY <3>1 DEF TypeOK
      <3>4. ASSUME NEW o \in Syncers \ {s}
            PROVE  /\ Consistent(ak[o].total, ak[o].last)'
                   /\ spc'[o] \in {"lock", "compute"} => ak'[o].last <= window'[o]
        <4>1. ak'[o] = ak[o] /\ spc'[o] = spc[o] /\ window'[o] = window[o]
          BY <3>1 DEF TypeOK
        <4>2. QED
          BY <4>1, <3>1, <2>b DEF CopiesInv, Consistent
      <3>5. Consistent(ak[s].total, ak[s].last)'
        BY <3>3 DEF Consistent, Blank
      <3>6. QED
        BY <3>1, <3>2, <3>3, <3>4, <3>5, <2>d DEF CopiesInv
    <2>7. ASSUME NEW c \in Compressors, CompressLoad(c) \/ CompressLock(c) \/ CompressFlush(c)
          PROVE  CopiesInv' /\ PlansInv'
      BY <2>7, <2>c, <2>d DEF CompressLoad, CompressLock, CompressFlush, recordVars, keyVars, syncVars, historyVars
    <2>8. ASSUME NEW c \in Compressors, CompressRead(c) PROVE CopiesInv' /\ PlansInv'
      <3>1. /\ UNCHANGED <<rows, recorded, total, lastStat, spc, window, ak>>
            /\ plan' = [plan EXCEPT ![c] = Plan(rows, range[c])]
        BY <2>8 DEF CompressRead, recordVars, keyVars, syncVars, historyVars
      <3>2. MovesDown(rows, Plan(rows, range[c]).row, Plan(rows, range[c]).touched)
        BY PlanMovesDown DEF TypeOK
      <3>3. ASSUME NEW o \in Compressors PROVE MovesDown(rows, plan'[o].row, plan'[o].touched)
        <4>1. plan'[o] = IF o = c THEN Plan(rows, range[c]) ELSE plan[o]
          BY <3>1 DEF TypeOK
        <4>2. QED
          BY <4>1, <3>2, <2>b DEF PlansInv
      <3>4. QED
        BY <3>1, <3>3, <2>c DEF PlansInv, MovesDown
    <2>9. ASSUME NEW c \in Compressors, CompressCommit(c) PROVE CopiesInv' /\ PlansInv'
      <3> DEFINE p == plan[c]
      <3>1. /\ cpc[c] # "idle"
            /\ plan' = [plan EXCEPT ![c] = NoPlan]
            /\ UNCHANGED <<recorded, total, lastStat, spc, window, ak>>
            /\ \/ rows' = [i \in Records |-> IF i \in p.touched THEN p.row[i] ELSE rows[i]]
               \/ rows' = rows
        BY <2>9 DEF CompressCommit, CompressGoto, historyVars, syncVars
      <3>2. MovesDown(rows, p.row, p.touched) /\ rows \in [Records -> SUBSET Records]
        BY <2>b DEF PlansInv, TypeOK
      <3> HIDE DEF p
      <3>3. \A i \in Records : i \in Nat
        BY DEF Records
      <3>4. ASSUME NEW i \in Records, NEW q \in rows'[i]
            PROVE  \E k \in Records : i <= k /\ q \in rows[k]
        <4>1. CASE rows' = rows
          BY <4>1, <3>3, <3>4
        <4>2. CASE rows' = [j \in Records |-> IF j \in p.touched THEN p.row[j] ELSE rows[j]]
          BY <4>2, <3>2, <3>3, <3>4 DEF MovesDown
        <4>3. QED
          BY <4>1, <4>2, <3>1
      <3>5. ASSUME NEW T, NEW last \in Nat, Consistent(T, last)
            PROVE  \A x \in Records :
                     /\ T[x] = 0 \/ T[x] = 1
                     /\ T[x] = 1 => /\ x \in recorded'
                                    /\ \A i \in Records : x \in rows'[i] => i <= last
        <4>1. TAKE x \in Records
        <4>2. ASSUME T[x] = 1, NEW i \in Records, x \in rows'[i] PROVE i <= last
          <5>1. PICK k \in Records : i <= k /\ x \in rows[k]
            BY <3>4, <4>2
          <5>2. k <= last
            BY <3>5, <4>2, <5>1 DEF Consistent
          <5>3. QED
            BY <3>3, <5>1, <5>2
        <4>3. QED
          BY <3>1, <3>5, <4>2 DEF Consistent
      <3>6. lastStat \in Nat /\ \A s \in Syncers : ak[s].last \in Nat
        BY DEF TypeOK
      <3>7. Consistent(total, lastStat)'
        BY <3>1, <3>5, <3>6, <2>b DEF CopiesInv, Consistent
      <3>8. \A s \in Syncers : Consistent(ak[s].total, ak[s].last)'
        BY <3>1, <3>5, <3>6, <2>b DEF CopiesInv, Consistent
      <3>9. \A o \in Compressors : plan'[o] = NoPlan
        BY <3>1, <2>b DEF MergingInv, TypeOK
      <3>10. PlansInv'
        BY <3>9 DEF PlansInv, MovesDown, NoPlan
      <3>11. QED
        BY <3>1, <3>7, <3>8, <3>10, <2>b DEF CopiesInv
    <2>10. ASSUME NEW c \in Compressors, CompressCrash(c) PROVE CopiesInv' /\ PlansInv'
      <3>1. /\ UNCHANGED <<rows, recorded, total, lastStat, spc, window, ak>>
            /\ plan' = [plan EXCEPT ![c] = NoPlan]
        BY <2>10 DEF CompressCrash, recordVars, keyVars, syncVars, historyVars
      <3>2. \A o \in Compressors : plan'[o] = NoPlan \/ plan'[o] = plan[o]
        BY <3>1 DEF TypeOK
      <3>3. PlansInv'
        BY <3>1, <3>2, <2>b DEF PlansInv, MovesDown, NoPlan
      <3>4. QED
        BY <3>1, <3>3, <2>c
    <2>11. CASE UNCHANGED vars
      BY <2>11, <2>c, <2>d DEF vars, recordVars, keyVars, syncVars, compressVars, historyVars
    <2>12. QED
      BY <2>1, <2>2, <2>3, <2>4, <2>5, <2>6, <2>7, <2>8, <2>9, <2>10, <2>11 DEF Next, SyncStep, CompressStep
  <1>3. QED
    BY <1>1, <1>2, TypeCorrect, MergingInduction, PTL DEF Spec

\* As long as no two compress cycles of a key overlap, no request is part of its
\* counters twice, whatever overlapping syncs write back.
THEOREM NoRequestCountedTwice == Spec => []CountedOnce
  <1>1. TypeOK /\ CountingInv => CountedOnce
    BY DEF TypeOK, CountingInv, CopiesInv, Consistent, CountedOnce
  <1>2. QED
    BY <1>1, TypeCorrect, CountingInduction, PTL
=============================================================================
