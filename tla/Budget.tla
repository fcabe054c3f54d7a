------------------------------- MODULE Budget -------------------------------
(***************************************************************************)
(* The budget of one API key, which the program keeps three times: as      *)
(* rows of ml_api_key_budgets (oldest spent first), as their sum in        *)
(* ml_api_keys.budget, and as a cached remaining that admits requests.     *)
(* A request is admitted on the cached value (gateway_helpers.py) and      *)
(* deducts its cost from rows, sum and cache when its usage record is      *)
(* stored (usage_service.py, budget_manager.py); operators add, delete and *)
(* refill rows (apikeys.py); the leader's sync takes from the rows what    *)
(* they show too much (sync_service.py).                                   *)
(*                                                                         *)
(* Requests and operators are coroutines of several processes: every await *)
(* on the database or the cache is a step. A transaction reads committed   *)
(* rows, computes, and writes absolute values of what it changed.          *)
(***************************************************************************)
EXTENDS Integers, Sequences, FiniteSets, Functions

CONSTANTS
  Requests,     \* requests made with the key
  Cost,         \* Cost[r], what request r costs
  Initial,      \* the budget the key is created with
  Admins,       \* operators, each good for one operation
  Added,        \* the amount an operator adds
  Threshold,    \* a refill looks at keys with less than this ...
  Target,       \* ... and fills them up to this
  MaxSyncs,     \* bound: cycles of the leader
  MaxExpiries,  \* bound: cached values that expire
  MaxFaults,    \* bound: exceptions of the cache or the database
  None          \* no cached value, no value synced yet

ASSUME NoneAssumption == None \notin Int

ASSUME BudgetAssumption ==
  /\ IsFiniteSet(Requests) /\ Requests \cap Admins = {}
  /\ Cost \in [Requests -> Nat \ {0}]
  /\ Initial \in Nat \ {0} /\ Added \in Nat \ {0}
  /\ Threshold \in Nat /\ Target \in Nat \ {0}

VARIABLES
  rows,      \* the budget rows, oldest first
  gone,      \* the rows that were deleted
  total,     \* ml_api_keys.budget
  synced,    \* ml_api_keys.last_synced_remaining
  cached,    \* the cached remaining
  info,      \* the key's info is cached
  pc,        \* where a request is
  val,       \* the sum a request loaded for the cache
  read,      \* the sum and ...
  seen,      \* ... the rows its transaction read
  stamped,   \* the records inserted, committed or not
  records,   \* the records committed
  op,        \* what an operator does, and where it is
  avail,     \* the sum it read
  arem,      \* the remaining it read, of the row or of the cache
  lead,      \* where the leader's cycle is
  mark,      \* the records the cycle counts
  counted,   \* the records counted so far
  plan,      \* the rows the cycle read and what it will make of them
  taken,     \* history: what the leader's cycles took from the rows
  behind,    \* history: a cycle read the rows after a record its mark misses
  loose,     \* history: an actor held a value that another one changed, or a
             \* refill paid a debt that only the cache shows
  syncs, expiries, faults

books == <<rows, gone, total>>
request == <<pc, val, read, seen, stamped, records>>
admin == <<op, avail, arem>>
leader == <<synced, lead, mark, counted, plan, taken, behind, syncs>>
vars == <<books, cached, info, request, admin, leader, loose, expiries, faults>>

Pcs == {"start", "remaining", "auth_load", "auth_fill", "lookup", "populate", "serving",
        "info", "key", "rows", "take", "load", "fill", "again", "commit",
        "done", "refused", "lost"}
AdminPcs == {"idle", "add", "delete", "refill", "reload", "reloaded", "top_up",
             "refresh", "cache", "done"}

Total(f) == FoldFunction(+, 0, f)
Pos(n) == IF n > 0 THEN n ELSE 0
Ids == DOMAIN rows
\* The rows with something left, as a function to what is left.
Left == [i \in {j \in Ids \ gone : rows[j].remaining > 0} |-> rows[i].remaining]

TypeOK ==
  /\ rows \in Seq([amount : Nat, remaining : Nat, older : SUBSET Requests])
  /\ \A i \in Ids : rows[i].remaining <= rows[i].amount
  /\ gone \subseteq Ids
  /\ total \in Nat
  /\ synced \in Nat \cup {None}
  /\ cached \in Int \cup {None}
  /\ info \in BOOLEAN
  /\ pc \in [Requests -> Pcs]
  /\ val \in [Requests -> Nat] /\ read \in [Requests -> Nat]
  /\ stamped \subseteq Requests /\ records \subseteq stamped
  /\ op \in [Admins -> AdminPcs]
  /\ avail \in [Admins -> Nat] /\ arem \in [Admins -> Int]
  /\ lead \in {"idle", "read", "commit"}
  /\ mark \subseteq records /\ counted \subseteq records
  /\ taken \in Nat /\ behind \in BOOLEAN /\ loose \in BOOLEAN
  /\ faults \in Nat

\* create_api_key: one row.
Init ==
  /\ rows = <<[amount |-> Initial, remaining |-> Initial, older |-> {}]>>
  /\ gone = {}
  /\ total = Initial
  /\ synced = None
  /\ cached = None
  /\ info = FALSE
  /\ pc = [r \in Requests |-> "start"]
  /\ val = [r \in Requests |-> 0]
  /\ read = [r \in Requests |-> 0]
  /\ seen = [r \in Requests |-> << >>]
  /\ stamped = {}
  /\ records = {}
  /\ op = [a \in Admins |-> "idle"]
  /\ avail = [a \in Admins |-> 0]
  /\ arem = [a \in Admins |-> 0]
  /\ lead = "idle"
  /\ mark = {}
  /\ counted = {}
  /\ plan = [old |-> << >>, new |-> << >>, usage |-> 0]
  /\ taken = 0
  /\ behind = FALSE
  /\ loose = FALSE
  /\ syncs = 0
  /\ expiries = 0
  /\ faults = 0

Goto(r, where) == pc' = [pc EXCEPT ![r] = where]

\* The actors that will still use what they have read, or have not written all yet.
Holding ==
  {r \in Requests : pc[r] \in {"auth_fill", "populate", "rows", "take", "load", "fill",
                               "again", "commit"}}
    \cup {a \in Admins : op[a] \notin {"idle", "done"}}
Writes(x) == loose' = (loose \/ Holding \ {x} # {})

-----------------------------------------------------------------------------
(* Admission *)

\* get_current_user_or_api_key
Admit(r) ==
  /\ pc[r] = "start"
  /\ Goto(r, IF info THEN "remaining" ELSE "lookup")
  /\ UNCHANGED <<books, cached, info, val, read, seen, stamped, records, admin, leader,
                 loose, expiries, faults>>

Decide(r, remaining) == Goto(r, IF remaining <= 0 THEN "refused" ELSE "serving")

\* get_remaining, the cache knows it
Remaining(r) ==
  /\ pc[r] = "remaining"
  /\ IF cached = None THEN Goto(r, "auth_load") ELSE Decide(r, cached)
  /\ UNCHANGED <<books, cached, info, val, read, seen, stamped, records, admin, leader,
                 loose, expiries, faults>>

\* _load_from_db, for an admission or for a deduction: the sum is read ...
Load(r) ==
  /\ pc[r] \in {"auth_load", "load"}
  /\ val' = [val EXCEPT ![r] = total]
  /\ Goto(r, IF pc[r] = "load" THEN "fill" ELSE "auth_fill")
  /\ UNCHANGED <<books, cached, info, read, seen, stamped, records, admin, leader,
                 loose, expiries, faults>>

\* ... and cached, whatever has happened since.
Fill(r) ==
  /\ pc[r] \in {"auth_fill", "fill"}
  /\ cached' = val[r]
  /\ IF pc[r] = "fill" THEN Goto(r, "again") ELSE Decide(r, val[r])
  /\ Writes(r)
  /\ UNCHANGED <<books, info, val, read, seen, stamped, records, admin, leader,
                 expiries, faults>>

\* The key is not cached: the row decides ...
Lookup(r) ==
  /\ pc[r] = "lookup"
  /\ val' = [val EXCEPT ![r] = total]
  /\ Goto(r, IF total <= 0 THEN "refused" ELSE "populate")
  /\ UNCHANGED <<books, cached, info, read, seen, stamped, records, admin, leader,
                 loose, expiries, faults>>

\* ... and _populate_api_key_cache fills the cache from it.
Populate(r) ==
  /\ pc[r] = "populate"
  /\ info' = TRUE
  /\ cached' = val[r]
  /\ Goto(r, "serving")
  /\ Writes(r)
  /\ UNCHANGED <<books, val, read, seen, stamped, records, admin, leader, expiries, faults>>

-----------------------------------------------------------------------------
(* _persist_record *)

\* The answer is complete and priced; a failed one is not recorded.
Answer(r) ==
  /\ pc[r] = "serving"
  /\ Goto(r, "info")
  /\ UNCHANGED <<books, cached, info, val, read, seen, stamped, records, admin, leader,
                 loose, expiries, faults>>

\* A key whose info is not cached counts as unlimited: nothing is deducted.
Info(r) ==
  /\ pc[r] = "info"
  /\ Goto(r, IF info THEN "key" ELSE "commit")
  /\ UNCHANGED <<books, cached, info, val, read, seen, stamped, records, admin, leader,
                 loose, expiries, faults>>

\* _deduct_budget_records reads the key (the record is flushed before) ...
ReadKey(r) ==
  /\ pc[r] = "key"
  /\ read' = [read EXCEPT ![r] = total]
  /\ stamped' = stamped \cup {r}
  /\ Goto(r, "rows")
  /\ UNCHANGED <<books, cached, info, val, seen, records, admin, leader, loose, expiries,
                 faults>>

\* ... and its rows.
ReadRows(r) ==
  /\ pc[r] = "rows"
  /\ seen' = [seen EXCEPT ![r] = Left]
  /\ Goto(r, "take")
  /\ UNCHANGED <<books, cached, info, val, read, stamped, records, admin, leader, loose,
                 expiries, faults>>

\* Mutant: a value that had to be loaded is not decremented.
Take_NotLoaded(r) ==
  /\ pc[r] \in {"take", "again"}
  /\ cached' = IF cached = None \/ pc[r] = "again" THEN cached ELSE cached - Cost[r]
  /\ Goto(r, IF cached = None /\ pc[r] = "take" THEN "load" ELSE "commit")
  /\ Writes(r)
  /\ UNCHANGED <<books, info, val, read, seen, stamped, records, admin, leader, expiries,
                 faults>>

\* budget_manager.deduct: the cached value is decremented before the commit,
\* once more after it was loaded if it was missing.
Take(r) ==
  /\ pc[r] \in {"take", "again"}
  /\ cached' = IF cached = None THEN None ELSE cached - Cost[r]
  /\ Goto(r, IF cached = None /\ pc[r] = "take" THEN "load" ELSE "commit")
  /\ Writes(r)
  /\ UNCHANGED <<books, info, val, read, seen, stamped, records, admin, leader, expiries,
                 faults>>

\* Mutant: the last row of a request is overdrawn.
Spend_Overdraw(f, c) ==
  [i \in DOMAIN f |-> f[i] - Pos(c - Total(Restrict(f, {j \in DOMAIN f : j < i})))]

\* Mutant: every row is charged with the whole cost.
Spend_EachRow(f, c) == [i \in DOMAIN f |-> Pos(f[i] - c)]

\* Taking c from rows f, the oldest first.
Spend(f, c) ==
  [i \in DOMAIN f |->
     LET earlier == Total(Restrict(f, {j \in DOMAIN f : j < i}))
     IN  Pos(f[i] - Pos(c - earlier))]

\* Absolute values go to the rows that changed; none of them may be deleted.
Changed(old, new) == {i \in DOMAIN old : old[i] # new[i]}
Written(old, new) ==
  [i \in Ids |-> IF i \in Changed(old, new) THEN [rows[i] EXCEPT !.remaining = new[i]] ELSE rows[i]]

\* The commit of record, rows and sum. Without rows the sum is left alone, and
\* a sum the transaction did not change is not written. A row deleted meanwhile
\* fails the transaction and the record is lost with it.
Commit(r) ==
  /\ pc[r] = "commit"
  /\ LET new == Spend(seen[r], Cost[r])
     IN  IF Changed(seen[r], new) \cap gone = {}
         THEN /\ rows' = Written(seen[r], new)
              /\ total' = IF seen[r] # << >> /\ Total(new) # read[r] THEN Total(new) ELSE total
              /\ stamped' = stamped \cup {r}
              /\ records' = records \cup {r}
              /\ Goto(r, "done")
         ELSE Goto(r, "lost") /\ UNCHANGED <<rows, total, stamped, records>>
  /\ Writes(r)
  /\ UNCHANGED <<gone, cached, info, val, read, seen, admin, leader, expiries, faults>>

\* An exception of cache or database. Before the commit it ends the transaction
\* with nothing stored, unless it is caught: what cannot be loaded refuses an
\* admission, and is not decremented after a deduction; a cache that is not
\* filled, or half, does not stop the request.
Fail(r) ==
  /\ faults < MaxFaults
  /\ faults' = faults + 1
  /\ \/ pc[r] \in {"info", "key", "rows", "take", "again", "commit"} /\ Goto(r, "lost")
     \/ pc[r] \in {"auth_load", "auth_fill"} /\ Goto(r, "refused")
     \/ pc[r] \in {"load", "fill"} /\ Goto(r, "commit")
     \/ pc[r] = "populate" /\ Goto(r, "serving")
  /\ info' \in {info, info \/ pc[r] = "populate"}
  /\ UNCHANGED <<books, cached, val, read, seen, stamped, records, admin, leader, loose,
                 expiries>>

-----------------------------------------------------------------------------
(* Operators *)

Step(a, where) == op' = [op EXCEPT ![a] = where]
Row(n) == [amount |-> n, remaining |-> n, older |-> stamped]

\* add_budget, delete_budget and auto_refill read the key.
Begin(a) ==
  /\ op[a] = "idle"
  /\ avail' = [avail EXCEPT ![a] = total]
  /\ \E what \in {"add", "delete", "refill"} : Step(a, what)
  /\ UNCHANGED <<books, cached, info, request, arem, leader, loose, expiries, faults>>

\* The row is new, the sum is the one read plus its amount.
Add(a) ==
  /\ op[a] = "add"
  /\ rows' = Append(rows, Row(Added))
  /\ total' = avail[a] + Added
  /\ Step(a, "refresh")
  /\ Writes(a)
  /\ UNCHANGED <<gone, cached, info, request, avail, arem, leader, expiries, faults>>

\* The row is deleted, the sum is the one read less what the row had left.
Delete(a) ==
  /\ op[a] = "delete"
  /\ \E i \in Ids \ gone :
       /\ gone' = gone \cup {i}
       /\ LET new == Pos(avail[a] - rows[i].remaining)
          IN  total' = IF new # avail[a] THEN new ELSE total
  /\ Step(a, "refresh")
  /\ Writes(a)
  /\ UNCHANGED <<rows, cached, info, request, avail, arem, leader, expiries, faults>>

\* Both read the key again after the commit ...
Refresh(a) ==
  /\ op[a] = "refresh"
  /\ avail' = [avail EXCEPT ![a] = total]
  /\ Step(a, "cache")
  /\ UNCHANGED <<books, cached, info, request, arem, leader, loose, expiries, faults>>

\* ... and cache the sum.
Cache(a) ==
  /\ op[a] = "cache"
  /\ cached' = avail[a]
  /\ Step(a, "done")
  /\ Writes(a)
  /\ UNCHANGED <<books, info, request, avail, arem, leader, expiries, faults>>

\* auto_refill asks for the cached value; a missing one is loaded from the row
\* the session has read already.
Refill(a) ==
  /\ op[a] = "refill"
  /\ arem' = [arem EXCEPT ![a] = IF cached = None THEN avail[a] ELSE cached]
  /\ Step(a, IF cached = None THEN "reload" ELSE "reloaded")
  /\ UNCHANGED <<books, cached, info, request, avail, leader, loose, expiries, faults>>

Reload(a) ==
  /\ op[a] = "reload"
  /\ cached' = arem[a]
  /\ Step(a, "reloaded")
  /\ Writes(a)
  /\ UNCHANGED <<books, info, request, avail, arem, leader, expiries, faults>>

\* The cache is set to the target before the row is committed.
Short(a) == arem[a] < Threshold /\ arem[a] < Target
Push(a) ==
  /\ op[a] = "reloaded"
  /\ IF Short(a)
     THEN Step(a, "top_up") /\ cached' = Target /\ Writes(a)
     ELSE Step(a, "done") /\ UNCHANGED <<cached, loose>>
  /\ UNCHANGED <<books, info, request, avail, arem, leader, expiries, faults>>

TopUp(a) ==
  /\ op[a] = "top_up"
  /\ rows' = Append(rows, Row(Target - arem[a]))
  /\ total' = IF avail[a] # Target THEN Target ELSE total
  /\ Step(a, "done")
  /\ loose' = (loose \/ Holding \ {a} # {} \/ arem[a] < 0)
  /\ UNCHANGED <<gone, cached, info, request, avail, arem, leader, expiries, faults>>

\* An exception ends the operation, but for a refill whose cache fails: it goes
\* on with the row.
Abort(a) ==
  /\ op[a] \notin {"idle", "done"}
  /\ faults < MaxFaults
  /\ faults' = faults + 1
  /\ Step(a, IF op[a] = "reload" THEN "reloaded"
             ELSE IF op[a] = "reloaded" /\ Short(a) THEN "top_up"
             ELSE "done")
  /\ UNCHANGED <<books, cached, info, request, avail, arem, leader, loose, expiries>>

-----------------------------------------------------------------------------
(* The leader's sync, _sync_all_api_keys and _reconcile_budget_for_key *)

CostOf(R) == Total([r \in R |-> Cost[r]])

\* A cycle counts the records committed when it starts.
SyncStart ==
  /\ lead = "idle"
  /\ syncs < MaxSyncs
  /\ records # counted
  /\ syncs' = syncs + 1
  /\ mark' = records
  /\ lead' = "read"
  /\ UNCHANGED <<books, cached, info, request, admin, synced, counted, plan, taken, behind,
                 loose, expiries, faults>>

\* No more rows than the last cycle left: it must have left what the new
\* records do not explain.
Incremental == synced # None /\ synced > 0 /\ Total(Left) <= synced

\* Otherwise every row is charged with all that was used since it was created,
\* and what exceeds its amount is carried to the next.
UsedSince(i) == CostOf(records \ rows[i].older)
Carried ==
  LET c[i \in 0 .. Len(rows)] ==
        IF i = 0 THEN 0
        ELSE IF i \in DOMAIN Left THEN Pos(UsedSince(i) + c[i - 1] - rows[i].amount)
        ELSE c[i - 1]
  IN  c
Recomputed(i) == Pos(rows[i].amount - UsedSince(i) - Carried[i - 1])

SyncRead ==
  /\ lead = "read"
  /\ plan' =
       LET expected == Pos(synced - CostOf(mark \ counted))
           spent == [i \in DOMAIN Left |->
                       IF Recomputed(i) < Left[i] THEN Recomputed(i) ELSE Left[i]]
       IN  IF Left = << >> THEN [old |-> Left, new |-> Left, usage |-> synced]
           ELSE IF ~Incremental THEN [old |-> Left, new |-> spent, usage |-> Total(spent)]
           ELSE [old |-> Left, new |-> Spend(Left, Pos(Total(Left) - expected)), usage |-> expected]
  /\ behind' = (behind \/ records # mark)
  /\ lead' = "commit"
  /\ UNCHANGED <<books, cached, info, request, admin, synced, mark, counted, taken, syncs,
                 loose, expiries, faults>>

SyncCommit ==
  /\ lead = "commit"
  /\ IF Changed(plan.old, plan.new) \cap gone = {}
     THEN /\ rows' = Written(plan.old, plan.new)
          /\ synced' = plan.usage
          /\ counted' = mark
          /\ taken' = taken + Total(plan.old) - Total(plan.new)
     ELSE UNCHANGED <<rows, synced, counted, taken>>
  /\ lead' = "idle"
  /\ UNCHANGED <<gone, total, cached, info, request, admin, mark, plan, behind, syncs,
                 loose, expiries, faults>>

-----------------------------------------------------------------------------
\* The entries of the cache have a time to live, each its own.
Expire ==
  /\ expiries < MaxExpiries
  /\ expiries' = expiries + 1
  /\ \/ cached # None /\ cached' = None /\ UNCHANGED info
     \/ info /\ info' = FALSE /\ UNCHANGED cached
  /\ UNCHANGED <<books, request, admin, leader, loose, faults>>

Next ==
  \/ \E r \in Requests :
       \/ Admit(r) \/ Remaining(r) \/ Load(r) \/ Fill(r) \/ Lookup(r) \/ Populate(r)
       \/ Answer(r) \/ Info(r) \/ ReadKey(r) \/ ReadRows(r) \/ Take(r) \/ Commit(r) \/ Fail(r)
  \/ \E a \in Admins :
       \/ Begin(a) \/ Add(a) \/ Delete(a) \/ Refresh(a) \/ Cache(a)
       \/ Refill(a) \/ Reload(a) \/ Push(a) \/ TopUp(a) \/ Abort(a)
  \/ SyncStart \/ SyncRead \/ SyncCommit
  \/ Expire

Spec == Init /\ [][Next]_vars

-----------------------------------------------------------------------------
(* Properties *)

\* What requests and the leader have taken from the rows.
Consumed == Total([i \in Ids |-> rows[i].amount - rows[i].remaining])

\* However the transactions of requests and of the leader overwrite each other,
\* they take no more from the rows than the committed records cost. Of the
\* requests alone that is so once there was a second row, since the leader
\* charges each row with usage the other has paid for, and after a cycle read
\* rows that showed a record behind its mark, since the next one charges it again.
ChargedOnce ==
  Consumed <= CostOf(records) + (IF Len(rows) = 1 /\ ~behind THEN 0 ELSE taken)

\* Once no actor holds a value, the three copies of the budget agree, unless an
\* actor overwrote what another one had changed, the leader took from the rows
\* (which leaves the sum alone), or something failed half way. A cached value
\* may be in debt, which the rows never are.
SerialBooks ==
  Holding = {} /\ ~loose /\ taken = 0 /\ faults = 0 =>
    /\ total = Total(Left)
    /\ cached # None => Pos(cached) = total
=============================================================================
