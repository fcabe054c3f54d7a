------------------------- MODULE BackgroundResponse -------------------------
(***************************************************************************)
(* A background response of the gateway: POST /v1/responses with           *)
(* background=true inserts a row and starts a worker coroutine             *)
(* (gateway_responses._run_background_response) that calls the provider,   *)
(* writes the output file and settles the row.  A resync cycle             *)
(* (background_resync_service._do_resync) scans for rows that stay         *)
(* in_progress, asks the provider about their task and settles them too.   *)
(* The worker, the leader's cycle and a manually triggered cycle           *)
(* interleave at every await.  Processes crash, and a database write whose *)
(* three attempts all fail is dropped without a word.                      *)
(***************************************************************************)
EXTENDS Naturals, FiniteSets

CONSTANTS
  Responses,   \* response ids
  Media,       \* those whose model is an image, video or 3D model
  Resyncers,   \* resync cycles that may overlap
  Leader,      \* the cycle of the leader's loop; the others are manual
  Limit,       \* LIMIT of the scan (100 in the code)
  MaxFaults    \* bound on crashes, cancelled cycles and lost writes

ASSUME ResponsesAssumption == IsFiniteSet(Responses) /\ Responses # {}
ASSUME MediaAssumption == Media \subseteq Responses
ASSUME LeaderAssumption == Leader \in Resyncers
ASSUME LimitAssumption == Limit \in Nat /\ MaxFaults \in Nat

VARIABLES
  \* the row of ml_background_responses
  status, hasTask, hasProv, age, born,
  \* the output file in the storage backend, by who wrote it last
  stored,
  \* the provider's task
  upstream,
  \* the worker: program counter, final_error set, pending task_id callback
  wpc, failing, hook,
  \* usage recorded for the response
  billed,
  \* each resync cycle: program counter, rows left, snapshot of the rows, row
  rpc, todo, snap, cur,
  \* history: the responses that hit a gap.  Two let a row be completed without
  \* output: an exception without text, an output resync could not save.  One lets
  \* it be completed without success: a final answer whose status nobody looks at
  blankError, noOutput, unchecked,
  faults

rowVars == <<status, hasTask, hasProv, age, born>>
workerVars == <<wpc, failing, hook>>
resyncVars == <<rpc, todo, snap, cur>>
gapVars == <<blankError, noOutput, unchecked>>
vars == <<rowVars, stored, upstream, workerVars, billed, resyncVars, gapVars, faults>>

-----------------------------------------------------------------------------
(* Ages of a row, as the scan and the per-row checks tell them apart.      *)
Fresh == 0      \* younger than the scan's cutoff
Scanned == 1    \* past the cutoff, younger than its category's minimum age
Aged == 2       \* past its category's minimum age
Expired == 3    \* older than 48 hours

Terminal == {"completed", "failed"}
Statuses == {"absent", "in_progress"} \cup Terminal
WorkerPcs == {"idle", "resolve", "provider", "submit", "await", "meta", "meta_pending",
              "task_pending", "poll", "format", "store", "mark", "done", "dead"}
\* "failed" is the status the gateway looks for; "stopped" stands for every other
\* end without success (cancelled, aborted, unknown to the provider).
Unsuccessful == {"failed", "stopped"}
UpstreamStates == {"none", "running", "succeeded"} \cup Unsuccessful
ResyncPcs == {"idle", "next", "check", "save", "complete", "fail"}

Row(r) == [task |-> r \in hasTask, prov |-> r \in hasProv, age |-> age[r]]
Blank == [task |-> FALSE, prov |-> FALSE, age |-> Fresh]
Rows == [task : BOOLEAN, prov : BOOLEAN, age : Fresh..Expired]

TypeOK ==
  /\ status \in [Responses -> Statuses]
  /\ hasTask \subseteq Responses
  /\ hasProv \subseteq Responses
  /\ age \in [Responses -> Fresh..Expired]
  /\ born \in [Responses -> Nat]
  /\ stored \in [Responses -> {"none", "worker", "resync"}]
  /\ upstream \in [Responses -> UpstreamStates]
  /\ wpc \in [Responses -> WorkerPcs]
  /\ failing \subseteq Responses
  /\ hook \subseteq Responses
  /\ billed \subseteq Responses
  /\ rpc \in [Resyncers -> ResyncPcs]
  /\ todo \in [Resyncers -> SUBSET Responses]
  /\ snap \in [Resyncers -> [Responses -> Rows]]
  /\ cur \in [Resyncers -> Responses]
  /\ blankError \subseteq Responses
  /\ noOutput \subseteq Responses
  /\ unchecked \subseteq Responses
  /\ faults \in Nat

Init ==
  /\ status = [r \in Responses |-> "absent"]
  /\ hasTask = {}
  /\ hasProv = {}
  /\ age = [r \in Responses |-> Fresh]
  /\ born = [r \in Responses |-> 0]
  /\ stored = [r \in Responses |-> "none"]
  /\ upstream = [r \in Responses |-> "none"]
  /\ wpc = [r \in Responses |-> "idle"]
  /\ failing = {}
  /\ hook = {}
  /\ billed = {}
  /\ rpc = [p \in Resyncers |-> "idle"]
  /\ todo = [p \in Resyncers |-> {}]
  /\ snap = [p \in Resyncers |-> [r \in Responses |-> Blank]]
  /\ cur \in [Resyncers -> {CHOOSE r \in Responses : TRUE}]
  /\ blankError = {}
  /\ noOutput = {}
  /\ unchecked = {}
  /\ faults = 0

-----------------------------------------------------------------------------
(* Database writes of background_response_dao.  Each is one UPDATE in a    *)
(* transaction of its own; after three failed attempts it returns normally *)
(* and the caller goes on as if it had happened.                           *)
Lost ==
  /\ faults < MaxFaults
  /\ faults' = faults + 1

Exists(r) == status[r] # "absent"

\* Mutant: the UPDATE without its status guard.
SettleUnguarded(r, s) ==
  \/ status' = [status EXCEPT ![r] = IF Exists(r) THEN s ELSE @] /\ UNCHANGED faults
  \/ Lost /\ UNCHANGED status

\* mark_completed_async / mark_failed_async: only a row still in_progress changes.
Settle(r, s) ==
  \/ /\ status' = [status EXCEPT ![r] = IF @ = "in_progress" THEN s ELSE @]
     /\ UNCHANGED faults
  \/ Lost /\ UNCHANGED status

\* update_task_metadata_async: COALESCE keeps what the caller leaves out.
Annotate(r, withTask, withProv) ==
  \/ /\ hasTask' = hasTask \cup {q \in {r} : withTask /\ Exists(q)}
     /\ hasProv' = hasProv \cup {q \in {r} : withProv /\ Exists(q)}
     /\ UNCHANGED faults
  \/ Lost /\ UNCHANGED <<hasTask, hasProv>>

-----------------------------------------------------------------------------
(* The request handler and the worker.                                     *)
Goto(r, from, to) ==
  /\ wpc[r] = from
  /\ wpc' = [wpc EXCEPT ![r] = to]

\* Mutant: rows start in the "queued" state that models.py names and no handler knows.
CreateQueued(r) ==
  /\ Goto(r, "idle", "resolve")
  /\ status' = [status EXCEPT ![r] = "queued"]
  /\ UNCHANGED <<hasTask, hasProv, age, born, stored, upstream, failing, hook, billed, resyncVars,
                 gapVars, faults>>

\* openai_responses, background path: the row is inserted (provider_id already
\* set when the key forces a provider) and the worker is scheduled, also when
\* the insert was lost.
Create(r) ==
  /\ Goto(r, "idle", "resolve")
  /\ \/ /\ status' = [status EXCEPT ![r] = "in_progress"]
        /\ born' = [born EXCEPT ![r] = 1 + Cardinality({q \in Responses : born[q] > 0})]
        /\ \E override \in SUBSET {r} : hasProv' = hasProv \cup override
        /\ UNCHANGED faults
     \/ Lost /\ UNCHANGED <<status, born, hasProv>>
  /\ UNCHANGED <<hasTask, age, stored, upstream, failing, hook, billed, resyncVars, gapVars>>

\* An exception inside the worker's try block: final_error = str(exc), and the
\* row is settled by whether that text is empty, not by whether it was set.
Raise(r, from, blank) ==
  /\ Goto(r, from, "mark")
  /\ failing' = failing \cup {q \in {r} : ~blank}
  /\ blankError' = blankError \cup {q \in {r} : blank}
  /\ UNCHANGED <<stored, hook, billed, resyncVars, noOutput, unchecked, faults>>

\* An answer that is not pending is taken for a result, whatever its status.
TakeFinal(r) ==
  /\ unchecked' = unchecked \cup {q \in {r} : upstream[q] \in Unsuccessful}
  /\ UNCHANGED <<blankError, noOutput>>

\* The payload is read and parsed and the model resolved, or one of them raises.
Resolve(r) ==
  \/ /\ Goto(r, "resolve", "provider")
     /\ UNCHANGED <<rowVars, stored, upstream, failing, hook, billed, resyncVars, gapVars, faults>>
  \/ Raise(r, "resolve", FALSE) /\ UNCHANGED <<rowVars, upstream>>

PersistProvider(r) ==
  /\ Goto(r, "provider", "submit")
  /\ Annotate(r, FALSE, TRUE)
  /\ UNCHANGED <<status, age, born, stored, upstream, failing, hook, billed, resyncVars, gapVars>>

\* The provider accepts the call; a media provider that works with tasks fires
\* _on_task_created, which only schedules the metadata write.  The call may also
\* raise (a timeout has no text), before or after the provider accepted it.
Submit(r) ==
  \/ /\ Goto(r, "submit", "await")
     /\ upstream' = [upstream EXCEPT ![r] = "running"]
     /\ \E tasked \in BOOLEAN :
          /\ tasked => r \in Media
          /\ hook' = hook \cup {q \in {r} : tasked}
     /\ UNCHANGED <<rowVars, stored, failing, billed, resyncVars, gapVars, faults>>
  \/ /\ \E blank \in BOOLEAN : Raise(r, "submit", blank)
     /\ \E u \in {"none", "running"} : upstream' = [upstream EXCEPT ![r] = u]
     /\ UNCHANGED rowVars

\* The scheduled metadata write of _on_task_created runs.
TaskCreated(r) ==
  /\ r \in hook
  /\ hook' = hook \ {r}
  /\ Annotate(r, TRUE, FALSE)
  /\ UNCHANGED <<status, age, born, stored, upstream, wpc, failing, billed, resyncVars, gapVars>>

\* Mutant: _upstream_status is not looked at, so a pending answer passes for a final one.
ChatPendingIsFinal(r) ==
  /\ upstream[r] \in {"running", "succeeded"}
  /\ Goto(r, "await", "meta")
  /\ UNCHANGED <<rowVars, stored, upstream, failing, hook, billed, resyncVars, gapVars, faults>>

\* chat() returns a final answer (of a Responses upstream also one with the status
\* 'failed') or a pending one, or raises: the task failed, the provider's own
\* polling gave up, the network did.
Chat(r) ==
  \/ /\ \/ upstream[r] \notin {"none", "running"} /\ Goto(r, "await", "meta") /\ TakeFinal(r)
        \/ upstream[r] = "running" /\ Goto(r, "await", "meta_pending") /\ UNCHANGED gapVars
     /\ UNCHANGED <<rowVars, stored, upstream, failing, hook, billed, resyncVars, faults>>
  \/ /\ \E blank \in BOOLEAN : Raise(r, "await", blank)
     /\ UNCHANGED <<rowVars, upstream>>

\* Metadata after chat(): the task id when the provider reported one.
PersistMeta(r) ==
  /\ Goto(r, "meta", "format") \/ Goto(r, "meta_pending", "task_pending")
  /\ \E reported \in BOOLEAN : (reported => r \in Media) /\ Annotate(r, reported, TRUE)
  /\ UNCHANGED <<status, age, born, stored, upstream, failing, hook, billed, resyncVars, gapVars>>

\* A pending upstream response: its id becomes the row's task id.
PersistUpstreamId(r) ==
  /\ Goto(r, "task_pending", "poll")
  /\ Annotate(r, TRUE, FALSE)
  /\ UNCHANGED <<status, age, born, stored, upstream, failing, hook, billed, resyncVars, gapVars>>

\* Mutant: the loop ends on any final status and 'failed' is not told apart.
PollAnyFinal(r) ==
  /\ upstream[r] \in {"succeeded", "failed"}
  /\ Goto(r, "poll", "format")
  /\ UNCHANGED <<rowVars, stored, upstream, failing, hook, billed, resyncVars, gapVars, faults>>

\* Polling ends with an answer that is neither pending nor 'failed', or raises:
\* upstream failed, 7200 seconds passed, the provider cannot be polled, the
\* network broke.
Poll(r) ==
  \/ /\ upstream[r] \in {"succeeded", "stopped"}
     /\ Goto(r, "poll", "format")
     /\ TakeFinal(r)
     /\ UNCHANGED <<rowVars, stored, upstream, failing, hook, billed, resyncVars, faults>>
  \/ /\ \E blank \in BOOLEAN : Raise(r, "poll", blank)
     /\ UNCHANGED <<rowVars, upstream>>

\* The answer is formatted, then its usage is handed to record_stream_usage; the
\* tracer may still raise after that, with the output formatted.
FormatAndBill(r) ==
  \/ /\ Goto(r, "format", "store")
     /\ billed' = billed \cup {r}
     /\ \E tracerRaised \in SUBSET {r} : failing' = failing \cup tracerRaised
     /\ UNCHANGED <<rowVars, stored, upstream, hook, resyncVars, gapVars, faults>>
  \/ Raise(r, "format", FALSE) /\ UNCHANGED <<rowVars, upstream>>

\* The output file is written before the row is settled; when that fails the
\* row is to be marked failed, if the exception has a text.
Store(r) ==
  /\ Goto(r, "store", "mark")
  /\ \/ /\ stored' = [stored EXCEPT ![r] = "worker"]
        /\ UNCHANGED <<failing, blankError>>
     \/ /\ failing' = failing \cup {r}
        /\ UNCHANGED <<stored, blankError>>
     \/ /\ failing' = failing \ {r}
        /\ blankError' = blankError \cup {r}
        /\ UNCHANGED stored
  /\ UNCHANGED <<rowVars, upstream, hook, billed, resyncVars, noOutput, unchecked, faults>>

Mark(r) ==
  /\ Goto(r, "mark", "done")
  /\ Settle(r, IF r \in failing THEN "failed" ELSE "completed")
  /\ failing' = failing \ {r}
  /\ UNCHANGED <<hasTask, hasProv, age, born, stored, upstream, hook, billed, resyncVars, gapVars>>

Worker(r) ==
  \/ Resolve(r) \/ PersistProvider(r) \/ Submit(r) \/ Chat(r) \/ PersistMeta(r)
  \/ PersistUpstreamId(r) \/ Poll(r) \/ FormatAndBill(r) \/ Store(r) \/ Mark(r)

\* The worker's process dies, and the scheduled callback with it.
Crash(r) ==
  /\ wpc[r] \notin {"idle", "done", "dead"} \/ r \in hook
  /\ wpc' = [wpc EXCEPT ![r] = "dead"]
  /\ hook' = hook \ {r}
  /\ Lost
  /\ UNCHANGED <<rowVars, stored, upstream, failing, billed, resyncVars, gapVars>>

-----------------------------------------------------------------------------
(* The resync cycle.                                                       *)
Move(p, from, to) ==
  /\ rpc[p] = from
  /\ rpc' = [rpc EXCEPT ![p] = to]

\* find_stale_in_progress_records_async: the Limit oldest rows past the cutoff.
Batch(cutoff) ==
  LET stale == {r \in Responses : status[r] = "in_progress" /\ age[r] >= cutoff}
  IN  {r \in stale : Cardinality({q \in stale : born[q] < born[r]}) < Limit}

\* One SELECT; everything decided below is decided on this snapshot.  A manual
\* cycle may pass a smaller min_age_minutes.
Scan(p) ==
  /\ \E cutoff \in {Fresh, Scanned} :
       /\ p = Leader => cutoff = Scanned
       /\ Batch(cutoff) # {}
       /\ todo' = [todo EXCEPT ![p] = Batch(cutoff)]
       /\ snap' = [snap EXCEPT ![p] =
                     [r \in Responses |-> IF r \in Batch(cutoff) THEN Row(r) ELSE Blank]]
  /\ Move(p, "idle", "next")
  /\ UNCHANGED <<rowVars, stored, upstream, workerVars, billed, cur, gapVars, faults>>

EndCycle(p) ==
  /\ todo[p] = {}
  /\ Move(p, "next", "idle")
  /\ snap' = [snap EXCEPT ![p] = [r \in Responses |-> Blank]]
  /\ UNCHANGED <<rowVars, stored, upstream, workerVars, billed, todo, cur, gapVars, faults>>

\* Mutant: no hard cutoff after 48 hours.
VerdictWithoutCutoff(r, row) ==
  IF r \notin Media \/ row.age < Aged THEN "next"
  ELSE IF row.task /\ row.prov THEN "check"
  ELSE "fail"

\* Text rows are skipped before anything else is asked, expired rows are given
\* up, young ones wait, rows without task or provider cannot be asked about.
Verdict(r, row) ==
  IF r \notin Media THEN "next"
  ELSE IF row.age = Expired THEN "fail"
  ELSE IF row.age < Aged THEN "next"
  ELSE IF row.task /\ row.prov THEN "check"
  ELSE "fail"

\* The cycle goes through its rows oldest first.
Examine(p) ==
  \E r \in todo[p] :
    /\ \A q \in todo[p] : born[r] <= born[q]
    /\ Move(p, "next", Verdict(r, snap[p][r]))
    /\ cur' = [cur EXCEPT ![p] = r]
    /\ todo' = [todo EXCEPT ![p] = @ \ {r}]
    /\ UNCHANGED <<rowVars, stored, upstream, workerVars, billed, snap, gapVars, faults>>

\* Mutant: an UNKNOWN answer counts as a failed task.
CheckUnknownFails(p) ==
  /\ Move(p, "check", "fail")
  /\ UNCHANGED <<rowVars, stored, upstream, workerVars, billed, todo, snap, cur, gapVars, faults>>

\* resolve_and_check_task_status_async: RUNNING and UNKNOWN leave the row for
\* the next cycle; COMPLETED may come without anything that can be stored.
CheckUpstream(p) ==
  LET r == cur[p] IN
  /\ \/ /\ Move(p, "check", "next")
        /\ UNCHANGED noOutput
     \/ /\ upstream[r] = "succeeded"
        /\ \/ Move(p, "check", "save") /\ UNCHANGED noOutput
           \/ /\ Move(p, "check", "complete")
              /\ noOutput' = noOutput \cup {r}
     \/ /\ upstream[r] \in Unsuccessful
        /\ Move(p, "check", "fail")
        /\ UNCHANGED noOutput
  /\ UNCHANGED <<rowVars, stored, upstream, workerVars, billed, todo, snap, cur, blankError,
                 unchecked, faults>>

\* The reduced output the cycle can build replaces whatever is stored; a failed
\* write is logged and the row is completed all the same.
SaveOutput(p) ==
  LET r == cur[p] IN
  /\ Move(p, "save", "complete")
  /\ \/ stored' = [stored EXCEPT ![r] = "resync"] /\ UNCHANGED noOutput
     \/ noOutput' = noOutput \cup {r} /\ UNCHANGED stored
  /\ UNCHANGED <<rowVars, upstream, workerVars, billed, todo, snap, cur, blankError, unchecked, faults>>

ResyncSettle(p) ==
  /\ \/ Move(p, "complete", "next") /\ Settle(cur[p], "completed")
     \/ Move(p, "fail", "next") /\ Settle(cur[p], "failed")
  /\ UNCHANGED <<hasTask, hasProv, age, born, stored, upstream, workerVars, billed, todo, snap, cur, gapVars>>

Resync(p) ==
  Scan(p) \/ EndCycle(p) \/ Examine(p) \/ CheckUpstream(p) \/ SaveOutput(p) \/ ResyncSettle(p)

\* The cycle's process dies, or stop_background_resync cancels its task.
Cancel(p) ==
  /\ rpc[p] # "idle"
  /\ rpc' = [rpc EXCEPT ![p] = "idle"]
  /\ todo' = [todo EXCEPT ![p] = {}]
  /\ snap' = [snap EXCEPT ![p] = [r \in Responses |-> Blank]]
  /\ Lost
  /\ UNCHANGED <<rowVars, stored, upstream, workerVars, billed, cur, gapVars>>

-----------------------------------------------------------------------------
(* The environment: the provider's task ends some day, or never; rows age. *)
UpstreamEnds(r) ==
  /\ upstream[r] = "running"
  /\ \E u \in {"succeeded"} \cup Unsuccessful : upstream' = [upstream EXCEPT ![r] = u]
  /\ UNCHANGED <<rowVars, stored, workerVars, billed, resyncVars, gapVars, faults>>

Tick(r) ==
  /\ status[r] = "in_progress"
  /\ age[r] < Expired
  /\ age' = [age EXCEPT ![r] = @ + 1]
  /\ UNCHANGED <<status, hasTask, hasProv, born, stored, upstream, workerVars, billed, resyncVars,
                 gapVars, faults>>

Next ==
  \/ \E r \in Responses : \/ Create(r) \/ Worker(r) \/ TaskCreated(r) \/ Crash(r)
                          \/ UpstreamEnds(r) \/ Tick(r)
  \/ \E p \in Resyncers : Resync(p) \/ Cancel(p)

Spec == Init /\ [][Next]_vars

(* A worker runs on as long as its process lives: every provider call and  *)
(* the polling loop have timeouts.  Time passes.  Some node leads and its  *)
(* loop starts a cycle every BG_RESYNC_INTERVAL seconds.  Nothing is       *)
(* assumed of the provider, of clients or of manual cycles.                *)
Fairness ==
  /\ \A r \in Responses : WF_vars(Worker(r)) /\ WF_vars(Tick(r))
  /\ WF_vars(Resync(Leader))

FairSpec == Spec /\ Fairness

-----------------------------------------------------------------------------
(* Properties.                                                             *)

\* Implementation of the abstract lifecycle: rows are settled once, by whoever
\* comes first, and as completed only with an output or a recorded gap.  It is
\* about the WHERE status='in_progress' guards and the write-before-mark order
\* in both the worker and the resync cycle.
Lifecycle == INSTANCE ResponseLifecycle WITH
  status <- status,
  readable <- {r \in Responses : stored[r] # "none"},
  excused <- blankError \cup noOutput
Implements == Lifecycle!Spec

\* A response is completed only if the provider's task succeeded, whichever of
\* worker and cycles settled it and however their reads of the provider were
\* delayed.  The exceptions are the gaps of the worker: an exception without a
\* text, and a final answer whose status is not looked at.
CompletedIsEarned ==
  \A r \in Responses :
    status[r] = "completed" /\ r \notin blankError \cup unchecked => upstream[r] = "succeeded"

\* What a client can read from the worker was handed to usage recording, and
\* nothing is billed that the provider did not deliver (but for the unchecked
\* answers): the order of polling, recording and writing survives a crash between
\* any two of them.
BilledIsEarned ==
  \A r \in Responses :
    /\ stored[r] = "worker" => r \in billed
    /\ r \in billed => upstream[r] = "succeeded" \/ r \in unchecked

\* A cycle about to fail a row that it read with task, provider and less than 48
\* hours knows that the provider's task ended without success: a running task or
\* an unreachable provider never costs a client its result.
GivesUpForCause ==
  \A p \in Resyncers :
    LET row == snap[p][cur[p]] IN
    rpc[p] = "fail" /\ row.age < Expired /\ row.task /\ row.prov =>
      upstream[cur[p]] \in Unsuccessful

\* Every media response leaves in_progress, whatever crashes or is lost, as the
\* cutoff of 48 hours gives up on what cannot be resolved; a text response does
\* so unless its worker is gone, since the resync cycle never looks at it.
Settles ==
  \A r \in Responses :
    status[r] = "in_progress" ~>
      (status[r] \in Terminal \/ (r \notin Media /\ wpc[r] \in {"done", "dead"}))

\* "Scans ml_background_responses for stale in_progress records, queries upstream
\* provider task status, and syncs completed/failed results to DB": every media
\* row is settled some day.  It is not once the Limit oldest rows are text rows
\* nobody settles.
MediaSettles ==
  \A r \in Media : status[r] = "in_progress" ~> status[r] \in Terminal

\* models.BackgroundResponse: output_key is where the formatted response is
\* stored "(when completed)".  The code completes rows without output.
CompletedIsStored ==
  \A r \in Responses : status[r] = "completed" => stored[r] # "none"
=============================================================================
