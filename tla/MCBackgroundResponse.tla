------------------------ MODULE MCBackgroundResponse ------------------------
(***************************************************************************)
(* Instances of BackgroundResponse.  The safety run starts from Init with  *)
(* one media response, the leader's cycle and a manual one.  The runs      *)
(* about settling need two rows, an old one and a new one; the old one's   *)
(* own history is cut short by starting from two states it leads to.       *)
(***************************************************************************)
EXTENDS BackgroundResponse

MCResponses == {"video", "chat"}
MCMedia == {"video"}

\* The rows of the old response r, everything of the other as in Init.
After(r, st, worker, up, out, paid, f) ==
  /\ status = [q \in Responses |-> IF q = r THEN st ELSE "absent"]
  /\ hasTask = {}
  /\ hasProv = {r}
  /\ age = [q \in Responses |-> IF q = r THEN Expired ELSE Fresh]
  /\ born = [q \in Responses |-> IF q = r THEN 1 ELSE 0]
  /\ stored = [q \in Responses |-> IF q = r THEN out ELSE "none"]
  /\ upstream = [q \in Responses |-> IF q = r THEN up ELSE "none"]
  /\ wpc = [q \in Responses |-> IF q = r THEN worker ELSE "idle"]
  /\ failing = {}
  /\ hook = {}
  /\ billed = {q \in {r} : paid}
  /\ rpc = [p \in Resyncers |-> "idle"]
  /\ todo = [p \in Resyncers |-> {}]
  /\ snap = [p \in Resyncers |-> [q \in Responses |-> Blank]]
  /\ cur \in [Resyncers -> {CHOOSE q \in Responses : TRUE}]
  /\ blankError = {}
  /\ noOutput = {}
  /\ unchecked = {}
  /\ faults = f

\* The chat's worker died in the provider call and its row stayed in_progress;
\* or the video was completed by its worker and no further fault happens.
MCInit ==
  \/ After("chat", "in_progress", "dead", "failed", "none", FALSE, 1)
  \/ After("video", "completed", "done", "succeeded", "worker", TRUE, MaxFaults)

MCFairSpec == MCInit /\ [][Next]_vars /\ Fairness
=============================================================================
