---------------------- MODULE BackgroundResponse_proofs ----------------------
(***************************************************************************)
(* BackgroundResponse is well typed, settles each row once, completes no   *)
(* row whose provider task did not succeed, bills no answer that was not   *)
(* delivered, and implements ResponseLifecycle, for any set of responses,  *)
(* any number of overlapping resync cycles and any number of faults.       *)
(***************************************************************************)
EXTENDS BackgroundResponse, FiniteSetTheorems, TLAPS

Before == {"idle", "resolve", "provider", "submit"}

\* What the worker's place in its code says about the row and the provider.
WorkerInv ==
  \A r \in Responses :
    /\ wpc[r] = "idle" => status[r] = "absent"
    /\ wpc[r] \in Before => upstream[r] = "none"
    /\ wpc[r] \in {"meta", "format", "store"} => upstream[r] = "succeeded" \/ r \in unchecked
    /\ wpc[r] = "mark" /\ r \notin failing =>
         \/ r \in blankError
         \/ stored[r] # "none" /\ (upstream[r] = "succeeded" \/ r \in unchecked)
    /\ wpc[r] = "store" => r \in billed

\* What a cycle has learnt about the row it is at stays true while it acts.
CycleInv ==
  \A p \in Resyncers :
    LET r == cur[p]
        row == snap[p][r]
    IN
    /\ rpc[p] = "save" => upstream[r] = "succeeded"
    /\ rpc[p] = "complete" =>
         /\ upstream[r] = "succeeded"
         /\ stored[r] # "none" \/ r \in noOutput
    /\ rpc[p] = "check" => row.age < Expired /\ row.task /\ row.prov
    /\ rpc[p] = "fail" =>
         row.age = Expired \/ ~row.task \/ ~row.prov \/ upstream[r] \in Unsuccessful

Earned == CompletedIsEarned /\ BilledIsEarned

IInv == WorkerInv /\ CycleInv /\ Earned

LEMMA CreatedRank ==
  1 + Cardinality({q \in Responses : born[q] > 0}) \in Nat
  <1>1. IsFiniteSet({q \in Responses : born[q] > 0})
    BY ResponsesAssumption, FS_Subset
  <1>2. QED
    BY <1>1, FS_CardinalityType

\* Every variable keeps its type.
THEOREM TypeCorrect == Spec => []TypeOK
  <1>1. Init => TypeOK
    BY ResponsesAssumption
    DEF Init, TypeOK, UpstreamStates, Statuses, WorkerPcs, ResyncPcs, Blank, Rows, Fresh, Expired
  <1>2. TypeOK /\ [Next]_vars => TypeOK'
    <2> USE DEF TypeOK
    <2> SUFFICES ASSUME TypeOK, [Next]_vars PROVE TypeOK'
      OBVIOUS
    <2>1. ASSUME NEW r \in Responses, Create(r) PROVE TypeOK'
      BY <2>1, CreatedRank DEF Create, Goto, WorkerPcs, Lost, Statuses, rowVars, workerVars, resyncVars, gapVars
    <2>2. ASSUME NEW r \in Responses, Resolve(r) PROVE TypeOK'
      BY <2>2 DEF Resolve, Goto, WorkerPcs, Raise, rowVars, workerVars, resyncVars, gapVars
    <2>3. ASSUME NEW r \in Responses, PersistProvider(r) PROVE TypeOK'
      BY <2>3 DEF PersistProvider, Goto, WorkerPcs, Annotate, Exists, Lost, rowVars, workerVars, resyncVars, gapVars
    <2>4. ASSUME NEW r \in Responses, Submit(r) PROVE TypeOK'
      <3>1. upstream' \in [Responses -> UpstreamStates]
        BY <2>4 DEF Submit, UpstreamStates
      <3>2. wpc' \in [Responses -> WorkerPcs]
        BY <2>4 DEF Submit, Goto, WorkerPcs, Raise
      <3>3. QED
        BY <2>4, <3>1, <3>2 DEF Submit, Raise, rowVars, resyncVars, gapVars
    <2>5. ASSUME NEW r \in Responses, TaskCreated(r) PROVE TypeOK'
      BY <2>5 DEF TaskCreated, Annotate, Exists, Lost, rowVars, workerVars, resyncVars, gapVars
    <2>6. ASSUME NEW r \in Responses, Chat(r) PROVE TypeOK'
      BY <2>6 DEF Chat, TakeFinal, Goto, WorkerPcs, Raise, rowVars, workerVars, resyncVars, gapVars
    <2>7. ASSUME NEW r \in Responses, PersistMeta(r) PROVE TypeOK'
      BY <2>7 DEF PersistMeta, Goto, WorkerPcs, Annotate, Exists, Lost, rowVars, workerVars, resyncVars, gapVars
    <2>8. ASSUME NEW r \in Responses, PersistUpstreamId(r) PROVE TypeOK'
      BY <2>8 DEF PersistUpstreamId, Goto, WorkerPcs, Annotate, Exists, Lost, rowVars, workerVars, resyncVars, gapVars
    <2>9. ASSUME NEW r \in Responses, Poll(r) PROVE TypeOK'
      BY <2>9 DEF Poll, TakeFinal, Goto, WorkerPcs, Raise, rowVars, workerVars, resyncVars, gapVars
    <2>10. ASSUME NEW r \in Responses, FormatAndBill(r) PROVE TypeOK'
      BY <2>10 DEF FormatAndBill, Goto, WorkerPcs, Raise, rowVars, workerVars, resyncVars, gapVars
    <2>11. ASSUME NEW r \in Responses, Store(r) PROVE TypeOK'
      BY <2>11 DEF Store, Goto, WorkerPcs, rowVars, workerVars, resyncVars, gapVars
    <2>12. ASSUME NEW r \in Responses, Mark(r) PROVE TypeOK'
      BY <2>12 DEF Mark, Goto, WorkerPcs, Settle, Lost, Statuses, Terminal, rowVars, workerVars, resyncVars, gapVars
    <2>13. ASSUME NEW r \in Responses, Crash(r) PROVE TypeOK'
      BY <2>13 DEF Crash, Lost, WorkerPcs, rowVars, workerVars, resyncVars, gapVars
    <2>14. ASSUME NEW r \in Responses, UpstreamEnds(r) PROVE TypeOK'
      BY <2>14 DEF UpstreamEnds, UpstreamStates, Unsuccessful, rowVars, workerVars, resyncVars, gapVars
    <2>15. ASSUME NEW r \in Responses, Tick(r) PROVE TypeOK'
      BY <2>15 DEF Tick, Fresh, Expired, rowVars, workerVars, resyncVars, gapVars
    <2>16. ASSUME NEW p \in Resyncers, Scan(p) PROVE TypeOK'
      BY <2>16 DEF Scan, Move, ResyncPcs, Batch, Row, Blank, Rows, Fresh, Expired, rowVars, workerVars, resyncVars, gapVars
    <2>17. ASSUME NEW p \in Resyncers, EndCycle(p) PROVE TypeOK'
      BY <2>17 DEF EndCycle, Move, ResyncPcs, Blank, Rows, Fresh, Expired, rowVars, workerVars, resyncVars, gapVars
    <2>18. ASSUME NEW p \in Resyncers, Examine(p) PROVE TypeOK'
      BY <2>18 DEF Examine, Move, ResyncPcs, Verdict, rowVars, workerVars, resyncVars, gapVars
    <2>19. ASSUME NEW p \in Resyncers, CheckUpstream(p) PROVE TypeOK'
      <3>1. cur[p] \in Responses
        OBVIOUS
      <3>2. rpc' \in [Resyncers -> ResyncPcs]
        BY <2>19 DEF CheckUpstream, Move, ResyncPcs
      <3>3. QED
        BY <2>19, <3>1, <3>2 DEF CheckUpstream, rowVars, workerVars, gapVars
    <2>20. ASSUME NEW p \in Resyncers, SaveOutput(p) PROVE TypeOK'
      <3>1. cur[p] \in Responses
        OBVIOUS
      <3>2. rpc' \in [Resyncers -> ResyncPcs]
        BY <2>20 DEF SaveOutput, Move, ResyncPcs
      <3>3. QED
        BY <2>20, <3>1, <3>2 DEF SaveOutput, rowVars, workerVars, gapVars
    <2>21. ASSUME NEW p \in Resyncers, ResyncSettle(p) PROVE TypeOK'
      <3>1. rpc' \in [Resyncers -> ResyncPcs]
        BY <2>21 DEF ResyncSettle, Move, ResyncPcs
      <3>2. status' \in [Responses -> Statuses] /\ faults' \in Nat
        <4>1. cur[p] \in Responses
          OBVIOUS
        <4>2. Settle(cur[p], "completed") \/ Settle(cur[p], "failed")
          BY <2>21 DEF ResyncSettle
        <4>3. QED
          BY <4>1, <4>2 DEF Settle, Lost, Statuses, Terminal
      <3>3. QED
        BY <2>21, <3>1, <3>2 DEF ResyncSettle, workerVars, gapVars
    <2>22. ASSUME NEW p \in Resyncers, Cancel(p) PROVE TypeOK'
      BY <2>22 DEF Cancel, Lost, ResyncPcs, Blank, Rows, Fresh, Expired, rowVars, workerVars, resyncVars, gapVars
    <2>23. CASE UNCHANGED vars
      BY <2>23 DEF vars, rowVars, workerVars, resyncVars, gapVars
    <2>24. QED
      BY <2>1, <2>2, <2>3, <2>4, <2>5, <2>6, <2>7, <2>8, <2>9, <2>10, <2>11, <2>12, <2>13, <2>14, <2>15, <2>16, <2>17, <2>18, <2>19, <2>20, <2>21, <2>22, <2>23 DEF Next, Worker, Resync
  <1>3. QED
    BY <1>1, <1>2, PTL DEF Spec

\* The strengthened invariant is inductive: one step per action, and under it
\* one per part of the invariant.
LEMMA Induction == Spec => []IInv
  <1>1. Init => IInv
    BY DEF Init, IInv, WorkerInv, CycleInv, Before, Earned, CompletedIsEarned, BilledIsEarned
  <1>2. TypeOK /\ IInv /\ [Next]_vars => IInv'
    <2> SUFFICES ASSUME TypeOK, WorkerInv, CycleInv, Earned, [Next]_vars PROVE IInv'
      BY DEF IInv
    <2>1. ASSUME NEW r \in Responses, Create(r) PROVE IInv'
      <3>1. WorkerInv'
        BY <2>1 DEF WorkerInv, Before, TypeOK, Create, Goto, Lost, rowVars, workerVars, resyncVars, gapVars
      <3>2. CycleInv'
        BY <2>1 DEF CycleInv, TypeOK, Create, Goto, Lost, rowVars, workerVars, resyncVars, gapVars
      <3>3. Earned'
        BY <2>1 DEF Earned, CompletedIsEarned, BilledIsEarned, TypeOK, Create, Goto, Lost, rowVars, workerVars, resyncVars, gapVars
      <3>4. QED
        BY <3>1, <3>2, <3>3 DEF IInv
    <2>2. ASSUME NEW r \in Responses, Resolve(r) PROVE IInv'
      <3>1. WorkerInv'
        BY <2>2 DEF WorkerInv, Before, TypeOK, Resolve, Goto, Raise, rowVars, workerVars, resyncVars, gapVars
      <3>2. CycleInv'
        BY <2>2 DEF CycleInv, TypeOK, Resolve, Goto, Raise, rowVars, workerVars, resyncVars, gapVars
      <3>3. Earned'
        BY <2>2 DEF Earned, CompletedIsEarned, BilledIsEarned, TypeOK, Resolve, Goto, Raise, rowVars, workerVars, resyncVars, gapVars
      <3>4. QED
        BY <3>1, <3>2, <3>3 DEF IInv
    <2>3. ASSUME NEW r \in Responses, PersistProvider(r) PROVE IInv'
      <3>1. WorkerInv'
        BY <2>3 DEF WorkerInv, Before, TypeOK, PersistProvider, Goto, Annotate, Exists, Lost, rowVars, workerVars, resyncVars, gapVars
      <3>2. CycleInv'
        BY <2>3 DEF CycleInv, TypeOK, PersistProvider, Goto, Annotate, Exists, Lost, rowVars, workerVars, resyncVars, gapVars
      <3>3. Earned'
        BY <2>3 DEF Earned, CompletedIsEarned, BilledIsEarned, TypeOK, PersistProvider, Goto, Annotate, Exists, Lost, rowVars, workerVars, resyncVars, gapVars
      <3>4. QED
        BY <3>1, <3>2, <3>3 DEF IInv
    <2>4. ASSUME NEW r \in Responses, Submit(r) PROVE IInv'
      <3>1. WorkerInv'
        BY <2>4 DEF WorkerInv, Before, TypeOK, Submit, Goto, Raise, rowVars, workerVars, resyncVars, gapVars
      <3>2. CycleInv'
        BY <2>4 DEF CycleInv, WorkerInv, Before, TypeOK, Unsuccessful, Submit, Goto, Raise, rowVars, workerVars, resyncVars, gapVars
      <3>3. Earned'
        BY <2>4 DEF Earned, CompletedIsEarned, BilledIsEarned, WorkerInv, Before, TypeOK, Submit, Goto, Raise, rowVars, workerVars, resyncVars, gapVars
      <3>4. QED
        BY <3>1, <3>2, <3>3 DEF IInv
    <2>5. ASSUME NEW r \in Responses, TaskCreated(r) PROVE IInv'
      <3>1. WorkerInv'
        BY <2>5 DEF WorkerInv, TypeOK, TaskCreated, Annotate, Exists, Lost, rowVars, workerVars, resyncVars, gapVars
      <3>2. CycleInv'
        BY <2>5 DEF CycleInv, TypeOK, TaskCreated, Annotate, Exists, Lost, rowVars, workerVars, resyncVars, gapVars
      <3>3. Earned'
        BY <2>5 DEF Earned, CompletedIsEarned, BilledIsEarned, TypeOK, TaskCreated, Annotate, Exists, Lost, rowVars, workerVars, resyncVars, gapVars
      <3>4. QED
        BY <3>1, <3>2, <3>3 DEF IInv
    <2>6. ASSUME NEW r \in Responses, Chat(r) PROVE IInv'
      <3>1. WorkerInv'
        BY <2>6 DEF WorkerInv, Before, TypeOK, UpstreamStates, Unsuccessful, Chat, TakeFinal, Goto, Raise, rowVars, workerVars, resyncVars, gapVars
      <3>2. CycleInv'
        BY <2>6 DEF CycleInv, TypeOK, UpstreamStates, Unsuccessful, Chat, TakeFinal, Goto, Raise, rowVars, workerVars, resyncVars, gapVars
      <3>3. Earned'
        BY <2>6 DEF Earned, CompletedIsEarned, BilledIsEarned, TypeOK, UpstreamStates, Unsuccessful, Chat, TakeFinal, Goto, Raise, rowVars, workerVars, resyncVars, gapVars
      <3>4. QED
        BY <3>1, <3>2, <3>3 DEF IInv
    <2>7. ASSUME NEW r \in Responses, PersistMeta(r) PROVE IInv'
      <3>1. WorkerInv'
        BY <2>7 DEF WorkerInv, Before, TypeOK, PersistMeta, Goto, Annotate, Exists, Lost, rowVars, workerVars, resyncVars, gapVars
      <3>2. CycleInv'
        BY <2>7 DEF CycleInv, TypeOK, PersistMeta, Goto, Annotate, Exists, Lost, rowVars, workerVars, resyncVars, gapVars
      <3>3. Earned'
        BY <2>7 DEF Earned, CompletedIsEarned, BilledIsEarned, TypeOK, PersistMeta, Goto, Annotate, Exists, Lost, rowVars, workerVars, resyncVars, gapVars
      <3>4. QED
        BY <3>1, <3>2, <3>3 DEF IInv
    <2>8. ASSUME NEW r \in Responses, PersistUpstreamId(r) PROVE IInv'
      <3>1. WorkerInv'
        BY <2>8 DEF WorkerInv, Before, TypeOK, PersistUpstreamId, Goto, Annotate, Exists, Lost, rowVars, workerVars, resyncVars, gapVars
      <3>2. CycleInv'
        BY <2>8 DEF CycleInv, TypeOK, PersistUpstreamId, Goto, Annotate, Exists, Lost, rowVars, workerVars, resyncVars, gapVars
      <3>3. Earned'
        BY <2>8 DEF Earned, CompletedIsEarned, BilledIsEarned, TypeOK, PersistUpstreamId, Goto, Annotate, Exists, Lost, rowVars, workerVars, resyncVars, gapVars
      <3>4. QED
        BY <3>1, <3>2, <3>3 DEF IInv
    <2>9. ASSUME NEW r \in Responses, Poll(r) PROVE IInv'
      <3>1. WorkerInv'
        BY <2>9 DEF WorkerInv, Before, TypeOK, UpstreamStates, Unsuccessful, Poll, TakeFinal, Goto, Raise, rowVars, workerVars, resyncVars, gapVars
      <3>2. CycleInv'
        BY <2>9 DEF CycleInv, TypeOK, UpstreamStates, Unsuccessful, Poll, TakeFinal, Goto, Raise, rowVars, workerVars, resyncVars, gapVars
      <3>3. Earned'
        BY <2>9 DEF Earned, CompletedIsEarned, BilledIsEarned, TypeOK, UpstreamStates, Unsuccessful, Poll, TakeFinal, Goto, Raise, rowVars, workerVars, resyncVars, gapVars
      <3>4. QED
        BY <3>1, <3>2, <3>3 DEF IInv
    <2>10. ASSUME NEW r \in Responses, FormatAndBill(r) PROVE IInv'
      <3>1. WorkerInv'
        BY <2>10 DEF WorkerInv, Before, TypeOK, FormatAndBill, Goto, Raise, rowVars, workerVars, resyncVars, gapVars
      <3>2. CycleInv'
        BY <2>10 DEF CycleInv, TypeOK, FormatAndBill, Goto, Raise, rowVars, workerVars, resyncVars, gapVars
      <3>3. Earned'
        BY <2>10 DEF Earned, CompletedIsEarned, BilledIsEarned, WorkerInv, TypeOK, FormatAndBill, Goto, Raise, rowVars, workerVars, resyncVars, gapVars
      <3>4. QED
        BY <3>1, <3>2, <3>3 DEF IInv
    <2>11. ASSUME NEW r \in Responses, Store(r) PROVE IInv'
      <3>1. WorkerInv'
        BY <2>11 DEF WorkerInv, Before, TypeOK, Store, Goto, rowVars, workerVars, resyncVars, gapVars
      <3>2. CycleInv'
        BY <2>11 DEF CycleInv, TypeOK, Store, Goto, rowVars, workerVars, resyncVars, gapVars
      <3>3. Earned'
        BY <2>11 DEF Earned, CompletedIsEarned, BilledIsEarned, WorkerInv, TypeOK, Store, Goto, rowVars, workerVars, resyncVars, gapVars
      <3>4. QED
        BY <3>1, <3>2, <3>3 DEF IInv
    <2>12. ASSUME NEW r \in Responses, Mark(r) PROVE IInv'
      <3>1. WorkerInv'
        BY <2>12 DEF WorkerInv, Before, TypeOK, Mark, Goto, Settle, Lost, rowVars, workerVars, resyncVars, gapVars
      <3>2. CycleInv'
        BY <2>12 DEF CycleInv, TypeOK, Mark, Goto, Settle, Lost, rowVars, workerVars, resyncVars, gapVars
      <3>3. Earned'
        BY <2>12 DEF Earned, CompletedIsEarned, BilledIsEarned, WorkerInv, TypeOK, Mark, Goto, Settle, Lost, rowVars, workerVars, resyncVars, gapVars
      <3>4. QED
        BY <3>1, <3>2, <3>3 DEF IInv
    <2>13. ASSUME NEW r \in Responses, Crash(r) PROVE IInv'
      <3>1. WorkerInv'
        BY <2>13 DEF WorkerInv, Before, TypeOK, Crash, Lost, rowVars, workerVars, resyncVars, gapVars
      <3>2. CycleInv'
        BY <2>13 DEF CycleInv, TypeOK, Crash, Lost, rowVars, workerVars, resyncVars, gapVars
      <3>3. Earned'
        BY <2>13 DEF Earned, CompletedIsEarned, BilledIsEarned, TypeOK, Crash, Lost, rowVars, workerVars, resyncVars, gapVars
      <3>4. QED
        BY <3>1, <3>2, <3>3 DEF IInv
    <2>14. ASSUME NEW r \in Responses, UpstreamEnds(r) PROVE IInv'
      <3>1. WorkerInv'
        BY <2>14 DEF WorkerInv, TypeOK, UpstreamEnds, Unsuccessful, rowVars, workerVars, resyncVars, gapVars
      <3>2. CycleInv'
        BY <2>14 DEF CycleInv, TypeOK, UpstreamEnds, Unsuccessful, rowVars, workerVars, resyncVars, gapVars
      <3>3. Earned'
        BY <2>14 DEF Earned, CompletedIsEarned, BilledIsEarned, TypeOK, UpstreamEnds, Unsuccessful, rowVars, workerVars, resyncVars, gapVars
      <3>4. QED
        BY <3>1, <3>2, <3>3 DEF IInv
    <2>15. ASSUME NEW r \in Responses, Tick(r) PROVE IInv'
      <3>1. WorkerInv'
        BY <2>15 DEF WorkerInv, TypeOK, Tick, rowVars, workerVars, resyncVars, gapVars
      <3>2. CycleInv'
        BY <2>15 DEF CycleInv, TypeOK, Tick, rowVars, workerVars, resyncVars, gapVars
      <3>3. Earned'
        BY <2>15 DEF Earned, CompletedIsEarned, BilledIsEarned, TypeOK, Tick, rowVars, workerVars, resyncVars, gapVars
      <3>4. QED
        BY <3>1, <3>2, <3>3 DEF IInv
    <2>16. ASSUME NEW p \in Resyncers, Scan(p) PROVE IInv'
      <3>1. WorkerInv'
        BY <2>16 DEF WorkerInv, TypeOK, Scan, Move, rowVars, workerVars, resyncVars, gapVars
      <3>2. CycleInv'
        BY <2>16 DEF CycleInv, TypeOK, Scan, Move, rowVars, workerVars, resyncVars, gapVars
      <3>3. Earned'
        BY <2>16 DEF Earned, CompletedIsEarned, BilledIsEarned, TypeOK, Scan, Move, rowVars, workerVars, resyncVars, gapVars
      <3>4. QED
        BY <3>1, <3>2, <3>3 DEF IInv
    <2>17. ASSUME NEW p \in Resyncers, EndCycle(p) PROVE IInv'
      <3>1. WorkerInv'
        BY <2>17 DEF WorkerInv, TypeOK, EndCycle, Move, Blank, rowVars, workerVars, resyncVars, gapVars
      <3>2. CycleInv'
        BY <2>17 DEF CycleInv, TypeOK, EndCycle, Move, Blank, rowVars, workerVars, resyncVars, gapVars
      <3>3. Earned'
        BY <2>17 DEF Earned, CompletedIsEarned, BilledIsEarned, TypeOK, EndCycle, Move, Blank, rowVars, workerVars, resyncVars, gapVars
      <3>4. QED
        BY <3>1, <3>2, <3>3 DEF IInv
    <2>18. ASSUME NEW p \in Resyncers, Examine(p) PROVE IInv'
      <3>1. WorkerInv'
        BY <2>18 DEF WorkerInv, TypeOK, Examine, Move, Verdict, Fresh, Scanned, Aged, Expired, rowVars, workerVars, resyncVars, gapVars
      <3>2. CycleInv'
        <4>1. PICK r \in todo[p] :
                /\ rpc' = [rpc EXCEPT ![p] = Verdict(r, snap[p][r])]
                /\ cur' = [cur EXCEPT ![p] = r]
          BY <2>18 DEF Examine, Move
        <4>2. UNCHANGED <<snap, upstream, stored, noOutput, blankError>>
          BY <2>18 DEF Examine, gapVars
        <4>3. r \in Responses /\ snap[p][r] \in Rows
          BY <4>1 DEF TypeOK
        <4>4. /\ Verdict(r, snap[p][r]) \in {"next", "fail", "check"}
              /\ Verdict(r, snap[p][r]) = "check" =>
                   snap[p][r].age < Expired /\ snap[p][r].task /\ snap[p][r].prov
              /\ Verdict(r, snap[p][r]) = "fail" =>
                   snap[p][r].age = Expired \/ ~snap[p][r].task \/ ~snap[p][r].prov
          BY <4>3 DEF Verdict, Rows, Fresh, Aged, Expired
        <4>5. QED
          BY <4>1, <4>2, <4>3, <4>4 DEF CycleInv, TypeOK
      <3>3. Earned'
        BY <2>18 DEF Earned, CompletedIsEarned, BilledIsEarned, TypeOK, Examine, Move, Verdict, Fresh, Scanned, Aged, Expired, rowVars, workerVars, resyncVars, gapVars
      <3>4. QED
        BY <3>1, <3>2, <3>3 DEF IInv
    <2>19. ASSUME NEW p \in Resyncers, CheckUpstream(p) PROVE IInv'
      <3>1. WorkerInv'
        BY <2>19 DEF WorkerInv, TypeOK, CheckUpstream, Move, rowVars, workerVars, resyncVars, gapVars
      <3>2. CycleInv'
        BY <2>19 DEF CycleInv, TypeOK, CheckUpstream, Move, rowVars, workerVars, resyncVars, gapVars
      <3>3. Earned'
        BY <2>19 DEF Earned, CompletedIsEarned, BilledIsEarned, TypeOK, CheckUpstream, Move, rowVars, workerVars, resyncVars, gapVars
      <3>4. QED
        BY <3>1, <3>2, <3>3 DEF IInv
    <2>20. ASSUME NEW p \in Resyncers, SaveOutput(p) PROVE IInv'
      <3>1. WorkerInv'
        BY <2>20 DEF WorkerInv, TypeOK, SaveOutput, Move, rowVars, workerVars, resyncVars, gapVars
      <3>2. CycleInv'
        BY <2>20 DEF CycleInv, TypeOK, SaveOutput, Move, rowVars, workerVars, resyncVars, gapVars
      <3>3. Earned'
        BY <2>20 DEF Earned, CompletedIsEarned, BilledIsEarned, TypeOK, SaveOutput, Move, rowVars, workerVars, resyncVars, gapVars
      <3>4. QED
        BY <3>1, <3>2, <3>3 DEF IInv
    <2>21. ASSUME NEW p \in Resyncers, ResyncSettle(p) PROVE IInv'
      <3>1. WorkerInv'
        BY <2>21 DEF WorkerInv, TypeOK, ResyncSettle, Move, Settle, Lost, rowVars, workerVars, resyncVars, gapVars
      <3>2. CycleInv'
        BY <2>21 DEF CycleInv, TypeOK, ResyncSettle, Move, Settle, Lost, rowVars, workerVars, resyncVars, gapVars
      <3>3. Earned'
        BY <2>21 DEF Earned, CompletedIsEarned, BilledIsEarned, CycleInv, TypeOK, ResyncSettle, Move, Settle, Lost, rowVars, workerVars, resyncVars, gapVars
      <3>4. QED
        BY <3>1, <3>2, <3>3 DEF IInv
    <2>22. ASSUME NEW p \in Resyncers, Cancel(p) PROVE IInv'
      <3>1. WorkerInv'
        BY <2>22 DEF WorkerInv, TypeOK, Cancel, Lost, Blank, rowVars, workerVars, resyncVars, gapVars
      <3>2. CycleInv'
        BY <2>22 DEF CycleInv, TypeOK, Cancel, Lost, Blank, rowVars, workerVars, resyncVars, gapVars
      <3>3. Earned'
        BY <2>22 DEF Earned, CompletedIsEarned, BilledIsEarned, TypeOK, Cancel, Lost, Blank, rowVars, workerVars, resyncVars, gapVars
      <3>4. QED
        BY <3>1, <3>2, <3>3 DEF IInv
    <2>23. CASE UNCHANGED vars
      BY <2>23 DEF IInv, WorkerInv, CycleInv, Earned, CompletedIsEarned, BilledIsEarned, Before, vars, rowVars, workerVars, resyncVars, gapVars
    <2>24. QED
      BY <2>1, <2>2, <2>3, <2>4, <2>5, <2>6, <2>7, <2>8, <2>9, <2>10, <2>11, <2>12, <2>13, <2>14, <2>15, <2>16, <2>17, <2>18, <2>19, <2>20, <2>21, <2>22, <2>23 DEF Next, Worker, Resync
  <1>3. QED
    BY <1>1, <1>2, TypeCorrect, PTL DEF Spec

\* CompletedIsEarned: nothing is completed that the provider did not deliver.
THEOREM CompletedEarned == Spec => []CompletedIsEarned
  BY Induction, PTL DEF IInv, Earned

\* BilledIsEarned: what can be read is billed, what is billed was delivered.
THEOREM BilledEarned == Spec => []BilledIsEarned
  BY Induction, PTL DEF IInv, Earned

\* GivesUpForCause: a row known to the provider fails only if its task did.
THEOREM GivenUpForCause == Spec => []GivesUpForCause
  <1>1. TypeOK /\ IInv => GivesUpForCause
    <2> SUFFICES ASSUME TypeOK, CycleInv, NEW p \in Resyncers, rpc[p] = "fail",
                        snap[p][cur[p]].age < Expired,
                        snap[p][cur[p]].task, snap[p][cur[p]].prov
                 PROVE  upstream[cur[p]] \in Unsuccessful
      BY DEF GivesUpForCause, IInv
    <2>1. snap[p][cur[p]].age # Expired
      BY DEF Expired
    <2>2. QED
      BY <2>1 DEF CycleInv
  <1>2. QED
    BY <1>1, Induction, TypeCorrect, PTL

\* Implements: worker, cycles, crashes and lost writes together behave like the
\* abstract lifecycle, in which a row is settled once and completed with output.
THEOREM Implementation == Spec => Implements
  <1>1. Init => Lifecycle!Init
    BY DEF Init, Lifecycle!Init
  <1>2. TypeOK /\ IInv /\ [Next]_vars => [Lifecycle!Next]_(Lifecycle!vars)
    <2> SUFFICES ASSUME TypeOK, WorkerInv, CycleInv, [Next]_vars
                 PROVE  [Lifecycle!Next]_(Lifecycle!vars)
      BY DEF IInv
    <2> USE DEF Lifecycle!Next, Lifecycle!vars, Lifecycle!Accept, Lifecycle!Publish,
                Lifecycle!Excuse, Lifecycle!Complete, Lifecycle!Fail, TypeOK
    <2>1. ASSUME NEW r \in Responses, Create(r) PROVE [Lifecycle!Next]_(Lifecycle!vars)
      BY <2>1 DEF WorkerInv, Create, Goto, Lost, rowVars, gapVars
    <2>2. ASSUME NEW r \in Responses, Resolve(r) PROVE [Lifecycle!Next]_(Lifecycle!vars)
      BY <2>2 DEF Resolve, Goto, Raise, rowVars, gapVars
    <2>3. ASSUME NEW r \in Responses, PersistProvider(r) PROVE [Lifecycle!Next]_(Lifecycle!vars)
      BY <2>3 DEF PersistProvider, Goto, Annotate, Lost, rowVars, gapVars
    <2>4. ASSUME NEW r \in Responses, Submit(r) PROVE [Lifecycle!Next]_(Lifecycle!vars)
      BY <2>4 DEF Submit, Goto, Raise, rowVars, gapVars
    <2>5. ASSUME NEW r \in Responses, TaskCreated(r) PROVE [Lifecycle!Next]_(Lifecycle!vars)
      BY <2>5 DEF TaskCreated, Annotate, Lost, rowVars, gapVars
    <2>6. ASSUME NEW r \in Responses, Chat(r) PROVE [Lifecycle!Next]_(Lifecycle!vars)
      BY <2>6 DEF Chat, TakeFinal, Goto, Raise, rowVars, gapVars
    <2>7. ASSUME NEW r \in Responses, PersistMeta(r) PROVE [Lifecycle!Next]_(Lifecycle!vars)
      BY <2>7 DEF PersistMeta, Annotate, Lost, rowVars, gapVars
    <2>8. ASSUME NEW r \in Responses, PersistUpstreamId(r) PROVE [Lifecycle!Next]_(Lifecycle!vars)
      BY <2>8 DEF PersistUpstreamId, Annotate, Lost, rowVars, gapVars
    <2>9. ASSUME NEW r \in Responses, Poll(r) PROVE [Lifecycle!Next]_(Lifecycle!vars)
      BY <2>9 DEF Poll, TakeFinal, Goto, Raise, rowVars, gapVars
    <2>10. ASSUME NEW r \in Responses, FormatAndBill(r) PROVE [Lifecycle!Next]_(Lifecycle!vars)
      BY <2>10 DEF FormatAndBill, Goto, Raise, rowVars, gapVars
    <2>11. ASSUME NEW r \in Responses, Store(r) PROVE [Lifecycle!Next]_(Lifecycle!vars)
      BY <2>11 DEF Store, Goto, rowVars, gapVars
    <2>12. ASSUME NEW r \in Responses, Mark(r) PROVE [Lifecycle!Next]_(Lifecycle!vars)
      BY <2>12 DEF WorkerInv, Mark, Goto, Settle, Lost, rowVars, gapVars
    <2>13. ASSUME NEW r \in Responses, Crash(r) PROVE [Lifecycle!Next]_(Lifecycle!vars)
      BY <2>13 DEF Crash, rowVars, gapVars
    <2>14. ASSUME NEW r \in Responses, UpstreamEnds(r) PROVE [Lifecycle!Next]_(Lifecycle!vars)
      BY <2>14 DEF UpstreamEnds, rowVars, gapVars
    <2>15. ASSUME NEW r \in Responses, Tick(r) PROVE [Lifecycle!Next]_(Lifecycle!vars)
      BY <2>15 DEF Tick, rowVars, gapVars
    <2>16. ASSUME NEW p \in Resyncers, Scan(p) PROVE [Lifecycle!Next]_(Lifecycle!vars)
      BY <2>16 DEF Scan, rowVars, gapVars
    <2>17. ASSUME NEW p \in Resyncers, EndCycle(p) PROVE [Lifecycle!Next]_(Lifecycle!vars)
      BY <2>17 DEF EndCycle, rowVars, gapVars
    <2>18. ASSUME NEW p \in Resyncers, Examine(p) PROVE [Lifecycle!Next]_(Lifecycle!vars)
      BY <2>18 DEF Examine, rowVars, gapVars
    <2>19. ASSUME NEW p \in Resyncers, CheckUpstream(p) PROVE [Lifecycle!Next]_(Lifecycle!vars)
      BY <2>19 DEF CheckUpstream, Move, rowVars, gapVars
    <2>20. ASSUME NEW p \in Resyncers, SaveOutput(p) PROVE [Lifecycle!Next]_(Lifecycle!vars)
      BY <2>20 DEF SaveOutput, Move, rowVars, gapVars
    <2>21. ASSUME NEW p \in Resyncers, ResyncSettle(p) PROVE [Lifecycle!Next]_(Lifecycle!vars)
      BY <2>21 DEF CycleInv, ResyncSettle, Move, Settle, Lost, rowVars, gapVars
    <2>22. ASSUME NEW p \in Resyncers, Cancel(p) PROVE [Lifecycle!Next]_(Lifecycle!vars)
      BY <2>22 DEF Cancel, rowVars, gapVars
    <2>23. CASE UNCHANGED vars
      BY <2>23 DEF vars, rowVars, gapVars, gapVars
    <2>24. QED
      BY <2>1, <2>2, <2>3, <2>4, <2>5, <2>6, <2>7, <2>8, <2>9, <2>10, <2>11, <2>12, <2>13, <2>14, <2>15, <2>16, <2>17, <2>18, <2>19, <2>20, <2>21, <2>22, <2>23 DEF Next, Worker, Resync
  <1>3. QED
    BY <1>1, <1>2, Induction, TypeCorrect, PTL DEF Spec, Implements, Lifecycle!Spec
=============================================================================
