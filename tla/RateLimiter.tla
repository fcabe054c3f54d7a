---------------------------- MODULE RateLimiter ----------------------------
(***************************************************************************)
(* The limits of rate_limiter.py: before a request is sent upstream,       *)
(* check_and_reserve takes its share from up to six counters of the        *)
(* current minute (requests and estimated tokens, of the model in its      *)
(* group, of the workspace, of the API key); when one of them has not      *)
(* enough left the request is refused and what it took from the counters   *)
(* before is given back. After the answer, reconcile corrects the token    *)
(* counters by the difference between the estimate and the actual usage.   *)
(*                                                                         *)
(* Requests are coroutines of several processes; counters are keys of      *)
(* Redis. Every await is a step: reading the key, setting it to the limit  *)
(* when it was absent, and the atomic increment are three of them, so      *)
(* requests may interleave between any two.                                *)
(*                                                                         *)
(* What was taken is kept as a set of units: unit <<r, i>> is the i-th     *)
(* token (or the one slot) of request r, so that an amount is the size of  *)
(* a set and it is known whose it is.                                      *)
(***************************************************************************)
EXTENDS Integers, FiniteSets

CONSTANTS
  Requests,     \* the requests, all against the same model, workspace and key
  Limit,        \* Limit[t], the limit of tier t; 0 when the tier has none
  Estimate,     \* Estimate[r], the tokens estimated for request r
  MaxMinute,    \* bound: minutes 1 .. MaxMinute
  MaxActual,    \* bound: the actual usage is 1 .. MaxActual tokens
  MaxFaults     \* bound: failures of the pre-check

\* The tiers in the order of check_and_reserve.
rpm    == 1
tpm    == 2
ws_rpm == 3
ws_tpm == 4
ak_rpm == 5
ak_tpm == 6
Tiers   == 1 .. 6
Minutes == 1 .. MaxMinute
Keys    == Tiers \X Minutes

\* rpm tiers count requests, tpm tiers count tokens.
IsTpm(t) == t \in {tpm, ws_tpm, ak_tpm}

ASSUME RequestsAssumption ==
  /\ IsFiniteSet(Requests)
  /\ Estimate \in [Requests -> Nat \ {0}]
ASSUME LimitAssumption == Limit \in [Tiers -> Nat]
ASSUME BoundsAssumption ==
  /\ MaxMinute \in Nat \ {0}
  /\ MaxActual \in Nat
  /\ MaxFaults \in Nat

VARIABLES
  now,      \* the current minute
  live,     \* the keys that exist in Redis
  left,     \* the value of each key that exists
  stage,    \* what the request is doing: a pass of reservations, a rollback,
            \* the call upstream, a reconciliation
  step,     \* within one counter: read the key, set it, add to it
  at,       \* the tier the request is at
  cur,      \* the minute in the key it uses there
  window,   \* window[r][t], the minute in the key r reserved tier t under
  held,     \* the tiers r has passed and not given back
  owed,     \* the tiers a refused request has still to give back
  actual,   \* the actual usage of an answered request, 0 before
  faults,   \* failures so far
  debits,   \* history: the units taken from a key since it was last set
  credits,  \* history: the units given to a key since it was last set
  lost      \* history: units taken from a key that its counter does not show:
            \* the key was set again, or had expired

vars == <<now, live, left, stage, step, at, cur, window, held, owed, actual,
          faults, debits, credits, lost>>
history == <<debits, credits, lost>>

Stages == {"reserve", "undo", "serving", "reconcile", "done", "refused"}
Steps  == {"read", "init", "add"}

Active == {t \in Tiers : Limit[t] > 0}

none == 7

\* Mutant: the walk over the tiers runs past the last one.
First_NoEnd(T) == IF T = {} THEN 0 ELSE CHOOSE t \in T : \A u \in T : t <= u

\* The first tier of T, none when it is empty.
First(T) == IF T = {} THEN none ELSE CHOOSE t \in T : \A u \in T : t <= u

Cost(r, t) == IF IsTpm(t) THEN Estimate[r] ELSE 1

\* The units of request r from the one after a to the b-th.
Units(r, a, b) == {r} \X ((a + 1) .. b)

\* Mutant: a request the API key refuses keeps its workspace tokens.
Undone_KeepsTokens(t) ==
  CASE t = rpm    -> {}
    [] t = tpm    -> {rpm}
    [] t = ws_rpm -> {rpm, tpm}
    [] t = ws_tpm -> {ws_rpm, rpm, tpm}
    [] t = ak_rpm -> {ws_rpm, rpm, tpm}
    [] t = ak_tpm -> {ak_rpm, ws_tpm, ws_rpm, rpm, tpm}

\* What a request that tier t refuses gives back.
Undone(t) ==
  CASE t = rpm    -> {}
    [] t = tpm    -> {rpm}
    [] t = ws_rpm -> {rpm, tpm}
    [] t = ws_tpm -> {ws_rpm, rpm, tpm}
    [] t = ak_rpm -> {ws_tpm, ws_rpm, rpm, tpm}
    [] t = ak_tpm -> {ak_rpm, ws_tpm, ws_rpm, rpm, tpm}

\* Every rollback goes through its tiers in this order.
NextOwed(T) ==
  IF ak_rpm \in T THEN ak_rpm
  ELSE IF ws_tpm \in T THEN ws_tpm
  ELSE IF ws_rpm \in T THEN ws_rpm
  ELSE First(T)

Key(r) == <<at[r], cur[r]>>

\* What the counter of key k has to show for, and what it shows too much.
Charged(k) == debits[k] \ credits[k]
Stray(k)   == credits[k] \ debits[k]

TypeOK ==
  /\ now \in Minutes
  /\ live \in SUBSET Keys
  /\ left \in [Keys -> Int]
  /\ stage \in [Requests -> Stages]
  /\ step \in [Requests -> Steps]
  /\ at \in [Requests -> Tiers \cup {none}]
  /\ cur \in [Requests -> Minutes]
  /\ window \in [Requests -> [Tiers -> Minutes]]
  /\ held \in [Requests -> SUBSET Tiers]
  /\ owed \in [Requests -> SUBSET Tiers]
  /\ actual \in [Requests -> 0 .. MaxActual]
  /\ faults \in 0 .. MaxFaults
  /\ debits \in [Keys -> SUBSET (Requests \X Nat)]
  /\ credits \in [Keys -> SUBSET (Requests \X Nat)]
  /\ lost \in [Keys -> SUBSET (Requests \X Nat)]

\* Without any limit check_and_reserve returns at once.
Init ==
  /\ now = 1
  /\ live = {}
  /\ left = [k \in Keys |-> 0]
  /\ stage = [r \in Requests |-> IF Active = {} THEN "serving" ELSE "reserve"]
  /\ step = [r \in Requests |-> "read"]
  /\ at = [r \in Requests |-> First(Active)]
  /\ cur = [r \in Requests |-> 1]
  /\ window = [r \in Requests |-> [t \in Tiers |-> 1]]
  /\ held = [r \in Requests |-> {}]
  /\ owed = [r \in Requests |-> {}]
  /\ actual = [r \in Requests |-> 0]
  /\ faults = 0
  /\ debits = [k \in Keys |-> {}]
  /\ credits = [k \in Keys |-> {}]
  /\ lost = [k \in Keys |-> {}]

Adjusting(r) == stage[r] \in {"reserve", "undo", "reconcile"}

\* _init_rpm_key, _init_tpm_key: the key is read. A reservation and a
\* reconciliation build the key from the present minute, a rollback uses the
\* key of the reservation and reads it for a token counter only (_incr_rpm).
Read(r) ==
  /\ Adjusting(r)
  /\ step[r] = "read"
  /\ LET m == IF stage[r] = "undo" THEN window[r][at[r]] ELSE now
     IN  /\ cur' = [cur EXCEPT ![r] = m]
         /\ step' = [step EXCEPT ![r] =
              IF \/ <<at[r], m>> \in live
                 \/ stage[r] = "undo" /\ ~IsTpm(at[r])
              THEN "add" ELSE "init"]
         /\ window' = IF stage[r] = "reserve"
                      THEN [window EXCEPT ![r][at[r]] = m] ELSE window
  /\ UNCHANGED <<now, live, left, stage, at, held, owed, actual, faults, history>>

\* ... and set to the limit when it was absent, whatever happened since.
SetKey(r) ==
  /\ Adjusting(r)
  /\ step[r] = "init"
  /\ LET k == Key(r)
     IN  /\ left' = [left EXCEPT ![k] = Limit[at[r]]]
         /\ live' = live \cup {k}
         /\ debits' = [debits EXCEPT ![k] = {}]
         /\ credits' = [credits EXCEPT ![k] = {}]
         /\ lost' = [lost EXCEPT ![k] = @ \cup Charged(k)]
  /\ step' = [step EXCEPT ![r] = "add"]
  /\ UNCHANGED <<now, stage, at, cur, window, held, owed, actual, faults>>

\* Mutant: a token counter is decremented like a request counter.
Debit_ByOne(k, U) ==
  /\ left' = IF k \in live THEN [left EXCEPT ![k] = @ - 1] ELSE left
  /\ debits' = IF k \in live THEN [debits EXCEPT ![k] = @ \cup U] ELSE debits
  /\ lost' = IF k \in live THEN lost ELSE [lost EXCEPT ![k] = @ \cup U]
  /\ UNCHANGED credits

\* incr_float_scalar: nothing happens to a key that does not exist.
Debit(k, U) ==
  /\ left' = IF k \in live THEN [left EXCEPT ![k] = @ - Cardinality(U)] ELSE left
  /\ debits' = IF k \in live THEN [debits EXCEPT ![k] = @ \cup U] ELSE debits
  /\ lost' = IF k \in live THEN lost ELSE [lost EXCEPT ![k] = @ \cup U]
  /\ UNCHANGED credits

Credit(k, U) ==
  /\ left' = IF k \in live THEN [left EXCEPT ![k] = @ + Cardinality(U)] ELSE left
  /\ credits' = IF k \in live THEN [credits EXCEPT ![k] = @ \cup U] ELSE credits
  /\ UNCHANGED <<debits, lost>>

\* Mutant: one too many is let through.
Insufficient_OffByOne(r) ==
  /\ Key(r) \in live
  /\ left[Key(r)] < Cost(r, at[r]) - 1

\* Too little is left: the request is refused. What it took here stays taken.
Insufficient(r) ==
  /\ Key(r) \in live
  /\ left[Key(r)] < Cost(r, at[r])

\* check_and_reserve at one tier: _decr_rpm or _decr_tpm, and what follows.
Reserve(r) ==
  /\ stage[r] = "reserve"
  /\ step[r] = "add"
  /\ Debit(Key(r), Units(r, 0, Cost(r, at[r])))
  /\ step' = [step EXCEPT ![r] = "read"]
  /\ \/ /\ Insufficient(r)
        /\ LET T == Undone(at[r]) \cap Active
           IN  /\ stage' = [stage EXCEPT ![r] = IF T = {} THEN "refused" ELSE "undo"]
               /\ owed' = [owed EXCEPT ![r] = T]
               /\ at' = [at EXCEPT ![r] = IF T = {} THEN @ ELSE NextOwed(T)]
        /\ UNCHANGED held
     \/ /\ ~Insufficient(r)
        /\ LET next == First({t \in Active : t > at[r]})
           IN  /\ stage' = [stage EXCEPT ![r] = IF next = none THEN "serving" ELSE @]
               /\ at' = [at EXCEPT ![r] = next]
        /\ held' = [held EXCEPT ![r] = @ \cup {at[r]}]
        /\ UNCHANGED owed
  /\ UNCHANGED <<now, live, cur, window, actual, faults>>

\* The rollback of one tier: _incr_rpm or _incr_tpm under the reservation's key.
GiveBack(r) ==
  /\ stage[r] = "undo"
  /\ step[r] = "add"
  /\ Credit(Key(r), Units(r, 0, Cost(r, at[r])))
  /\ step' = [step EXCEPT ![r] = "read"]
  /\ LET T == owed[r] \ {at[r]}
     IN  /\ owed' = [owed EXCEPT ![r] = T]
         /\ stage' = [stage EXCEPT ![r] = IF T = {} THEN "refused" ELSE @]
         /\ at' = [at EXCEPT ![r] = IF T = {} THEN @ ELSE NextOwed(T)]
  /\ held' = [held EXCEPT ![r] = @ \ {at[r]}]
  /\ UNCHANGED <<now, live, cur, window, actual, faults>>

TpmTiers == {t \in Active : IsTpm(t)}

\* The provider answers and _reconcile_tpm is called with the actual usage. A
\* call that fails, an answer without usage and an exact estimate end here.
Answer(r) ==
  /\ stage[r] = "serving"
  /\ \/ stage' = [stage EXCEPT ![r] = "done"] /\ UNCHANGED <<actual, at>>
     \/ /\ TpmTiers # {}
        /\ \E a \in 1 .. MaxActual :
             /\ a # Estimate[r]
             /\ actual' = [actual EXCEPT ![r] = a]
        /\ stage' = [stage EXCEPT ![r] = "reconcile"]
        /\ at' = [at EXCEPT ![r] = First(TpmTiers)]
  /\ UNCHANGED <<now, live, left, step, cur, window, held, owed, faults, history>>

\* reconcile at one token counter, under the key of the present minute.
Reconcile(r) ==
  /\ stage[r] = "reconcile"
  /\ step[r] = "add"
  /\ \/ actual[r] < Estimate[r] /\ Credit(Key(r), Units(r, actual[r], Estimate[r]))
     \/ actual[r] > Estimate[r] /\ Debit(Key(r), Units(r, Estimate[r], actual[r]))
  /\ step' = [step EXCEPT ![r] = "read"]
  /\ LET next == First({t \in TpmTiers : t > at[r]})
     IN  /\ stage' = [stage EXCEPT ![r] = IF next = none THEN "done" ELSE @]
         /\ at' = [at EXCEPT ![r] = next]
  /\ UNCHANGED <<now, live, cur, window, held, owed, actual, faults>>

\* The cache fails. An exception of the pre-check is swallowed: the request is
\* sent upstream and not reconciled; one of the reconciliation ends it.
Fail(r) ==
  /\ Adjusting(r)
  /\ faults < MaxFaults
  /\ faults' = faults + 1
  /\ stage' = [stage EXCEPT ![r] = "done"]
  /\ UNCHANGED <<now, live, left, step, at, cur, window, held, owed, actual, history>>

Tick ==
  /\ now < MaxMinute
  /\ now' = now + 1
  /\ UNCHANGED <<live, left, stage, step, at, cur, window, held, owed, actual,
                 faults, history>>

\* A key outlives its minute: WINDOW_TTL and WS_WINDOW_TTL are longer.
Expire(k) ==
  /\ k \in live
  /\ k[2] < now
  /\ live' = live \ {k}
  /\ UNCHANGED <<now, left, stage, step, at, cur, window, held, owed, actual,
                 faults, history>>

Next ==
  \/ \E r \in Requests :
       \/ Read(r) \/ SetKey(r) \/ Reserve(r) \/ GiveBack(r)
       \/ Answer(r) \/ Reconcile(r) \/ Fail(r)
  \/ Tick
  \/ \E k \in Keys : Expire(k)

Spec == Init /\ [][Next]_vars

-----------------------------------------------------------------------------
(* Properties *)

\* The counter of a key is the limit less what was taken from it and not given
\* back, plus what it was given without having been taken from it: no step of
\* a reservation, a rollback or a reconciliation is lost or done twice.
Balanced ==
  \A k \in live :
    left[k] = Limit[k[1]] - Cardinality(Charged(k)) + Cardinality(Stray(k))

\* The units request r uses of a tier it passed: once the answer is known, no
\* more than the actual usage.
Used(r, t) ==
  IF IsTpm(t) /\ actual[r] # 0 /\ actual[r] < Estimate[r] THEN actual[r] ELSE Cost(r, t)

\* The units in use of the requests that passed tier k[1] in minute k[2].
Granted(k) ==
  UNION {Units(r, 0, Used(r, k[1])) :
           r \in {q \in Requests : k[1] \in held[q] /\ window[q][k[1]] = k[2]}}

\* No counter lets more through in a minute than its limit, however the
\* requests interleave, but for what requests of an earlier minute were
\* credited (reconcile uses the present key) and for units the counter never
\* showed (two requests that find the key absent both set it, lines 219-231).
WithinLimit ==
  \A k \in Keys :
    Cardinality(Granted(k)) <= Limit[k[1]] + Cardinality(Stray(k)) + Cardinality(lost[k])

\* A refused request has given back all it passed: at most one counter, the one
\* that refused it, still shows some of its units.
RefusedGivesBack ==
  \A r \in Requests : stage[r] = "refused" =>
    /\ held[r] = {}
    /\ \A j, k \in live :
         (\E u \in Charged(j) : u[1] = r) /\ (\E u \in Charged(k) : u[1] = r) => j = k
=============================================================================
