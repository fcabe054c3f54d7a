-------------------------- MODULE ResponseLifecycle --------------------------
(***************************************************************************)
(* What GET /v1/responses/<id> promises about one background response,     *)
(* whoever settles it: a response is accepted, is settled exactly once,    *)
(* and is settled as completed only when its output can be read back or    *)
(* one of the known gaps (an "excuse") has been hit on the way.            *)
(* BackgroundResponse implements this specification.                       *)
(***************************************************************************)
CONSTANT Responses

VARIABLES
  status,     \* status[r]: absent, in_progress, completed or failed
  readable,   \* responses with an output file under the row's output_key
  excused     \* responses that hit one of the known gaps

vars == <<status, readable, excused>>

Init ==
  /\ status = [r \in Responses |-> "absent"]
  /\ readable = {}
  /\ excused = {}

\* POST /v1/responses with background=true leaves a row behind.
Accept(r) ==
  /\ status[r] = "absent"
  /\ status' = [status EXCEPT ![r] = "in_progress"]
  /\ UNCHANGED <<readable, excused>>

\* Somebody produced the output, or hit a gap; either may come at any time,
\* also after the response was settled by somebody else.
Publish(r) ==
  /\ readable' = readable \cup {r}
  /\ UNCHANGED <<status, excused>>

Excuse(r) ==
  /\ excused' = excused \cup {r}
  /\ UNCHANGED <<status, readable>>

Complete(r) ==
  /\ status[r] = "in_progress"
  /\ r \in readable \cup excused
  /\ status' = [status EXCEPT ![r] = "completed"]
  /\ UNCHANGED <<readable, excused>>

Fail(r) ==
  /\ status[r] = "in_progress"
  /\ status' = [status EXCEPT ![r] = "failed"]
  /\ UNCHANGED <<readable, excused>>

Next ==
  \E r \in Responses : Accept(r) \/ Publish(r) \/ Excuse(r) \/ Complete(r) \/ Fail(r)

Spec == Init /\ [][Next]_vars
=============================================================================
