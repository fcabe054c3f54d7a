----------------------------- MODULE UsageLedger -----------------------------
(***************************************************************************)
(* The usage ledger of one API key.  Requests leave rows in                *)
(* ml_usage_records; a sync cycle (sync_service._do_sync) adds the rows    *)
(* after last_stat_id to the key's cumulative counters; a compress cycle   *)
(* (compress_service._compress_single_key) merges counted rows.  Cycles    *)
(* run on the leader's threads and, triggered by hand, anywhere else.      *)
(* Each holds the key's lock in Redis while it computes, and commits its   *)
(* transaction later, after the lock is released.                          *)
(*                                                                         *)
(* Database statements read what is committed when they run (PostgreSQL's  *)
(* READ COMMITTED; the README names it for production).  Row contents and  *)
(* counters are kept as the requests they add up, not as their sums: the   *)
(* compressed_count of row i is Cardinality(rows[i]), and total[q] is how  *)
(* often request q is part of the key's counters.                          *)
(***************************************************************************)
EXTENDS Naturals, FiniteSets

CONSTANTS
  MaxRecords,            \* bound on the ids handed out
  Syncers, Compressors,  \* cycles that may overlap
  PerMinute, PerHour,    \* the key's compress policy
  BatchSize,             \* BATCH_SIZE of _compress_by_granularity
  MinuteOf, HourOf,      \* bucket of a record, with its provider and model
  MaxFaults              \* bound on crashes and on locks lost while held

Records == 1..MaxRecords

ASSUME BoundsAssumption ==
  /\ MaxRecords \in Nat
  /\ PerMinute \in Nat \ {0} /\ PerHour \in Nat \ {0} /\ BatchSize \in Nat \ {0}
  /\ MaxFaults \in Nat
ASSUME CyclesAssumption == Syncers \cap Compressors = {}
ASSUME BucketsAssumption == DOMAIN MinuteOf = Records /\ DOMAIN HourOf = Records

VARIABLES
  \* ml_usage_records: next id, ids inserted in a transaction still open, the
  \* requests merged into each committed row, last id older than the lookback
  next, open, rows, horizon,
  \* the key's row in ml_api_keys
  total, lastStat, lastCompress,
  \* the Redis lock of the key: its holder, or nobody
  lock,
  \* each sync cycle: program counter, max id scanned, its copy of the key
  spc, window, ak,
  \* each compress cycle: program counter, range read, rewritten rows
  cpc, range, plan,
  \* history: requests recorded; those in a transaction still open when a sync
  \* counted past them; the kinds of cycle that have overlapped their own kind
  recorded, skipped, overlapped,
  faults

recordVars == <<next, open, rows, horizon>>
keyVars == <<total, lastStat, lastCompress>>
syncVars == <<spc, window, ak>>
compressVars == <<cpc, range, plan>>
historyVars == <<recorded, skipped, overlapped>>
vars == <<recordVars, keyVars, lock, syncVars, compressVars, historyVars, faults>>

-----------------------------------------------------------------------------
Visible == {i \in Records : rows[i] # {}}
\* Mutant: the first id of the range is counted, or merged, once more.
BetweenInclusive(low, high) == {i \in Records : low <= i /\ i <= high}
Between(low, high) == {i \in Records : low < i /\ i <= high}
Blank == [last |-> 0, total |-> [q \in Records |-> 0]]
NoRange == [low |-> 0, high |-> 0]
NoPlan == [row |-> [i \in Records |-> {}], touched |-> {}, done |-> {}]

SyncPcs == {"idle", "load", "lock", "compute", "commit"}
CompressPcs == {"idle", "lock", "read", "flush", "commit"}

TypeOK ==
  /\ next \in 1..(MaxRecords + 1)
  /\ open \subseteq Records
  /\ rows \in [Records -> SUBSET Records]
  /\ horizon \in 0..MaxRecords
  /\ total \in [Records -> Nat]
  /\ lastStat \in 0..MaxRecords
  /\ lastCompress \in 0..MaxRecords
  /\ lock \in SUBSET (Syncers \cup Compressors)
  /\ spc \in [Syncers -> SyncPcs]
  /\ window \in [Syncers -> 0..MaxRecords]
  /\ ak \in [Syncers -> [last : 0..MaxRecords, total : [Records -> Nat]]]
  /\ cpc \in [Compressors -> CompressPcs]
  /\ range \in [Compressors -> [low : 0..MaxRecords, high : 0..MaxRecords]]
  /\ plan \in [Compressors ->
                 [row : [Records -> SUBSET Records], touched : SUBSET Records, done : SUBSET Records]]
  /\ recorded \subseteq Records
  /\ skipped \subseteq Records
  /\ overlapped \subseteq {"sync", "compress"}
  /\ faults \in 0..MaxFaults

Init ==
  /\ next = 1
  /\ open = {}
  /\ rows = [i \in Records |-> {}]
  /\ horizon = 0
  /\ total = [q \in Records |-> 0]
  /\ lastStat = 0
  /\ lastCompress = 0
  /\ lock = {}
  /\ spc = [s \in Syncers |-> "idle"]
  /\ window = [s \in Syncers |-> 0]
  /\ ak = [s \in Syncers |-> Blank]
  /\ cpc = [c \in Compressors |-> "idle"]
  /\ range = [c \in Compressors |-> NoRange]
  /\ plan = [c \in Compressors |-> NoPlan]
  /\ recorded = {}
  /\ skipped = {}
  /\ overlapped = {}
  /\ faults = 0

Lost ==
  /\ faults < MaxFaults
  /\ faults' = faults + 1

-----------------------------------------------------------------------------
(* Requests.  The id is taken when the row is flushed, to look for budgets *)
(* in the same transaction; the commit comes some awaits later.            *)
Insert ==
  /\ next \in Records
  /\ next' = next + 1
  /\ open' = open \cup {next}
  /\ UNCHANGED <<rows, horizon, keyVars, lock, syncVars, compressVars, historyVars, faults>>

CommitRecord(q) ==
  /\ q \in open
  /\ open' = open \ {q}
  /\ rows' = [rows EXCEPT ![q] = {q}]
  /\ recorded' = recorded \cup {q}
  /\ UNCHANGED <<next, horizon, keyVars, lock, syncVars, compressVars, skipped, overlapped, faults>>

\* The transaction fails; _persist_usage_async logs it and the id stays unused.
AbortRecord(q) ==
  /\ q \in open
  /\ open' = open \ {q}
  /\ UNCHANGED <<next, rows, horizon, keyVars, lock, syncVars, compressVars, historyVars, faults>>

\* Time passes: one more row is older than the lookback of a scan.
Age ==
  /\ horizon + 1 < next
  /\ horizon' = horizon + 1
  /\ UNCHANGED <<next, open, rows, keyVars, lock, syncVars, compressVars, historyVars, faults>>

-----------------------------------------------------------------------------
(* The lock: SET NX EX with a random token, and a DELETE that ignores it.  *)
Acquire(p) == lock = {} /\ lock' = {p}
Release == lock' = {}

Inside(p) == IF p \in Syncers THEN spc[p] = "compute" ELSE cpc[p] \in {"read", "flush"}

\* Mutant: the lock is set without a time to live.
NoExpiry == FALSE /\ UNCHANGED vars

\* The holder died without releasing the lock, and its time to live runs out.
Expire ==
  /\ \E p \in lock : ~Inside(p)
  /\ Release
  /\ UNCHANGED <<recordVars, keyVars, syncVars, compressVars, historyVars, faults>>

\* The holder works for longer than the 30 seconds of the time to live.
Overrun ==
  /\ \E p \in lock : Inside(p)
  /\ Release
  /\ Lost
  /\ UNCHANGED <<recordVars, keyVars, syncVars, compressVars, historyVars>>

-----------------------------------------------------------------------------
(* The sync cycle.                                                         *)
SyncGoto(s, from, to) ==
  /\ spc[s] = from
  /\ spc' = [spc EXCEPT ![s] = to]

\* get_active_key_hashes: the key's max id among rows of the lookback window.
Scan(s) ==
  /\ SyncGoto(s, "idle", "load")
  /\ \E top \in Visible :
       /\ horizon < top /\ \A i \in Visible : i <= top
       /\ window' = [window EXCEPT ![s] = top]
  /\ UNCHANGED <<recordVars, keyVars, lock, ak, compressVars, historyVars, faults>>

InFlight(s) == spc[s] \in {"lock", "compute", "commit"}

\* The ApiKey is loaded once; what follows works on this copy.
Load(s) ==
  \/ /\ lastStat >= window[s]
     /\ SyncGoto(s, "load", "idle")
     /\ window' = [window EXCEPT ![s] = 0]
     /\ UNCHANGED <<recordVars, keyVars, lock, ak, compressVars, historyVars, faults>>
  \/ /\ lastStat < window[s]
     /\ SyncGoto(s, "load", "lock")
     /\ ak' = [ak EXCEPT ![s] = [last |-> lastStat, total |-> total]]
     /\ overlapped' = overlapped \cup {k \in {"sync"} : \E o \in Syncers \ {s} : InFlight(o)}
     /\ UNCHANGED <<recordVars, keyVars, lock, window, compressVars, recorded, skipped, faults>>

SyncLock(s) ==
  /\ SyncGoto(s, "lock", "compute")
  /\ Acquire(s)
  /\ UNCHANGED <<recordVars, keyVars, window, ak, compressVars, historyVars, faults>>

\* Mutant: the mark is set one past the last record counted.
ComputePastEnd(s) ==
  LET counted == Between(ak[s].last, window[s])
      Times(q) == Cardinality({i \in counted : q \in rows[i]})
  IN
  /\ counted \cap Visible # {}
  /\ Release
  /\ SyncGoto(s, "compute", "commit")
  /\ ak' = [ak EXCEPT ![s] = [last |-> window[s] + 1,
                              total |-> [q \in Records |-> ak[s].total[q] + Times(q)]]]
  /\ skipped' = skipped \cup (open \cap counted)
  /\ UNCHANGED <<recordVars, keyVars, window, compressVars, recorded, overlapped, faults>>

\* compute_delta and apply_delta_to_apikey, then the end of the lock's block.
Compute(s) ==
  LET counted == Between(ak[s].last, window[s])
      Times(q) == Cardinality({i \in counted : q \in rows[i]})
  IN
  /\ Release
  /\ \/ /\ counted \cap Visible = {}
        /\ SyncGoto(s, "compute", "idle")
        /\ ak' = [ak EXCEPT ![s] = Blank]
        /\ window' = [window EXCEPT ![s] = 0]
        /\ UNCHANGED skipped
     \/ /\ counted \cap Visible # {}
        /\ SyncGoto(s, "compute", "commit")
        /\ ak' = [ak EXCEPT ![s] = [last |-> window[s],
                                    total |-> [q \in Records |-> ak[s].total[q] + Times(q)]]]
        /\ skipped' = skipped \cup (open \cap counted)
        /\ UNCHANGED window
  /\ UNCHANGED <<recordVars, keyVars, compressVars, recorded, overlapped, faults>>

\* The ORM writes the values of its copy, not increments.
SyncCommit(s) ==
  /\ SyncGoto(s, "commit", "idle")
  /\ total' = ak[s].total
  /\ lastStat' = ak[s].last
  /\ ak' = [ak EXCEPT ![s] = Blank]
  /\ window' = [window EXCEPT ![s] = 0]
  /\ UNCHANGED <<recordVars, lastCompress, lock, compressVars, historyVars, faults>>

SyncStep(s) == Load(s) \/ SyncLock(s) \/ Compute(s) \/ SyncCommit(s)

-----------------------------------------------------------------------------
(* The compress cycle.                                                     *)
CompressGoto(c, from, to) ==
  /\ cpc[c] = from
  /\ cpc' = [cpc EXCEPT ![c] = to]

\* One pass of _compress_by_granularity over the table t: of each bucket with
\* more than limit rows not yet merged, the excess oldest ones are merged in
\* batches, each into its first row.
Singles(t, r) == {i \in Between(r.low, r.high) : Cardinality(t[i]) = 1}
Bucket(t, r, bucketOf, i) == {k \in Singles(t, r) : bucketOf[k] = bucketOf[i]}
Rank(S, i) == Cardinality({k \in S : k < i})
Merged(t, r, limit, bucketOf) ==
  {i \in Singles(t, r) :
     LET B == Bucket(t, r, bucketOf, i) IN Rank(B, i) + limit < Cardinality(B)}
\* Mutant: a batch is deleted, but for its first row, and never summed up.
PassKeepsFirst(t, r, limit, bucketOf) ==
  LET M == Merged(t, r, limit, bucketOf)
      Place(i) == Rank(Bucket(t, r, bucketOf, i), i)
  IN [i \in Records |-> IF i \in M /\ Place(i) % BatchSize # 0 THEN {} ELSE t[i]]
Pass(t, r, limit, bucketOf) ==
  LET M == Merged(t, r, limit, bucketOf)
      Place(i) == Rank(Bucket(t, r, bucketOf, i), i)
      Batch(i) == {k \in M : bucketOf[k] = bucketOf[i] /\ Place(k) \div BatchSize = Place(i) \div BatchSize}
  IN [i \in Records |->
        IF i \notin M THEN t[i]
        ELSE IF Place(i) % BatchSize = 0 THEN UNION {t[k] : k \in Batch(i)} ELSE {}]

\* The minute pass, then the hour pass on its result: what becomes of the rows,
\* which rows are written, and which ones either pass had in a batch.
Plan(t, r) ==
  LET byMinute == Pass(t, r, PerMinute, MinuteOf)
      byHour == Pass(byMinute, r, PerHour, HourOf)
  IN [row |-> byHour,
      touched |-> {i \in Records : byHour[i] # t[i]},
      done |-> Merged(t, r, PerMinute, MinuteOf) \cup Merged(byMinute, r, PerHour, HourOf)]

\* Mutant: rows no sync has counted are merged too.
CompressLoadAll(c) ==
  /\ lastStat > 0 /\ lastCompress < lastStat
  /\ CompressGoto(c, "idle", "lock")
  /\ range' = [range EXCEPT ![c] = [low |-> lastCompress, high |-> MaxRecords]]
  /\ UNCHANGED <<recordVars, keyVars, lock, syncVars, plan, historyVars, faults>>

\* The key is loaded, with the range of rows that were counted and not merged yet.
CompressLoad(c) ==
  /\ lastStat > 0 /\ lastCompress < lastStat
  /\ CompressGoto(c, "idle", "lock")
  /\ range' = [range EXCEPT ![c] = [low |-> lastCompress, high |-> lastStat]]
  /\ overlapped' = overlapped \cup
       {k \in {"compress"} : \E o \in Compressors \ {c} : cpc[o] # "idle"}
  /\ UNCHANGED <<recordVars, keyVars, lock, syncVars, plan, recorded, skipped, faults>>

CompressLock(c) ==
  /\ CompressGoto(c, "lock", "read")
  /\ Acquire(c)
  /\ UNCHANGED <<recordVars, keyVars, syncVars, range, plan, historyVars, faults>>

CompressRead(c) ==
  /\ CompressGoto(c, "read", "flush")
  /\ plan' = [plan EXCEPT ![c] = Plan(rows, range[c])]
  /\ UNCHANGED <<recordVars, keyVars, lock, syncVars, range, historyVars, faults>>

\* The statements wait for rows another open transaction has written.
CompressFlush(c) ==
  /\ \A o \in Compressors : cpc[o] = "commit" => plan[o].touched \cap plan[c].touched = {}
  /\ CompressGoto(c, "flush", "commit")
  /\ Release
  /\ UNCHANGED <<recordVars, keyVars, syncVars, range, plan, historyVars, faults>>

\* Updates set values computed from what was read.  One that finds its row gone
\* raises and everything is rolled back.  The mark becomes the highest id that was
\* in a batch, also of a batch too small to merge anything.  The loop does not commit when nothing
\* was deleted, the endpoint for one key does.
CompressCommit(c) ==
  LET p == plan[c] IN
  /\ CompressGoto(c, "commit", "idle")
  /\ range' = [range EXCEPT ![c] = NoRange]
  /\ plan' = [plan EXCEPT ![c] = NoPlan]
  /\ \/ /\ \A i \in p.touched : p.row[i] # {} => rows[i] # {}
        /\ rows' = [i \in Records |-> IF i \in p.touched THEN p.row[i] ELSE rows[i]]
        /\ \/ p.done = {} /\ UNCHANGED lastCompress
           \/ \E m \in p.done : (\A i \in p.done : i <= m) /\ lastCompress' = m
     \/ /\ p.touched = {} \/ \E i \in p.touched : p.row[i] # {} /\ rows[i] = {}
        /\ UNCHANGED <<rows, lastCompress>>
  /\ UNCHANGED <<next, open, horizon, total, lastStat, lock, syncVars, historyVars, faults>>

CompressStep(c) == CompressLock(c) \/ CompressRead(c) \/ CompressFlush(c) \/ CompressCommit(c)

-----------------------------------------------------------------------------
\* A cycle raises, or its process dies: nothing it wrote stays.  An exception
\* leaves the lock's block and releases it, a dead process leaves it to expire.
SyncCrash(s) ==
  /\ spc[s] # "idle"
  /\ spc' = [spc EXCEPT ![s] = "idle"]
  /\ ak' = [ak EXCEPT ![s] = Blank]
  /\ window' = [window EXCEPT ![s] = 0]
  /\ UNCHANGED lock \/ (Inside(s) /\ Release)
  /\ Lost
  /\ UNCHANGED <<recordVars, keyVars, compressVars, historyVars>>

CompressCrash(c) ==
  /\ cpc[c] # "idle"
  /\ cpc' = [cpc EXCEPT ![c] = "idle"]
  /\ range' = [range EXCEPT ![c] = NoRange]
  /\ plan' = [plan EXCEPT ![c] = NoPlan]
  /\ UNCHANGED lock \/ (Inside(c) /\ Release)
  /\ Lost
  /\ UNCHANGED <<recordVars, keyVars, syncVars, historyVars>>

Next ==
  \/ Insert \/ Age \/ Expire \/ Overrun
  \/ \E q \in Records : CommitRecord(q) \/ AbortRecord(q)
  \/ \E s \in Syncers : Scan(s) \/ SyncStep(s) \/ SyncCrash(s)
  \/ \E c \in Compressors : CompressLoad(c) \/ CompressStep(c) \/ CompressCrash(c)

Spec == Init /\ [][Next]_vars

(* A cycle that has begun runs on as long as its process lives, and Redis  *)
(* drops a key whose time to live is over.  Nobody is obliged to begin a   *)
(* cycle, and one that polls for the lock may find it taken every time.    *)
Fairness ==
  /\ \A s \in Syncers : WF_vars(SyncStep(s))
  /\ \A c \in Compressors : WF_vars(CompressStep(c))
  /\ WF_vars(Expire)

FairSpec == Spec /\ Fairness

-----------------------------------------------------------------------------
(* Properties.                                                             *)

\* No request is counted twice in the key's counters, even when sync cycles
\* overlap or count rows while a compress cycle merges them: a merged row keeps its
\* first id, and a sync counts each id once.  Compress cycles that overlap can leave
\* a request in two rows (see Conserved), which a sync may count both.  About
\* compute_delta's range, last_stat_id and the row _merge_into_record writes to.
CountedOnce == "compress" \notin overlapped => \A q \in Records : total[q] <= 1

\* Merging loses no request and copies none: each is part of exactly one row,
\* after any number of compress cycles of both granularities with requests
\* arriving in between, unless two compress cycles of the key have overlapped.
Conserved ==
  "compress" \notin overlapped =>
    \A q \in recorded : Cardinality({i \in Records : q \in rows[i]}) = 1

\* As long as no two syncs have overlapped, the key's counters are the requests
\* up to last_stat_id, all of them and nothing else, however syncs and compress
\* cycles interleave and die; but for requests whose transaction was still open
\* when a sync counted past them.
CountedExactly ==
  "sync" \notin overlapped =>
    \A q \in recorded \ skipped : total[q] = (IF q <= lastStat THEN 1 ELSE 0)

\* Whoever holds the key's lock, and whether it lives or not, the lock is free
\* again some day: the release at the end of the block, or the time to live.
LockIsFreed == lock # {} ~> lock = {}

\* "Re-read last_stat in case compress updated it while we waited": a sync that
\* counts starts from the key's current last_stat_id.
CountsFromCurrent == \A s \in Syncers : spc[s] = "compute" => ak[s].last = lastStat

\* "Update last_stat_id to the latest record id so the next cycle picks up where
\* this one left off": no record stays behind that mark uncounted.
NothingLeftBehind == \A q \in recorded : q <= lastStat => total[q] > 0
=============================================================================
