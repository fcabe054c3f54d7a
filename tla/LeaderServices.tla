--------------------------- MODULE LeaderServices ---------------------------
(***************************************************************************)
(* Leader election (election_service.py) and the services of the leader:   *)
(* the usage sync and the usage compression, each a thread, and the resync *)
(* of background responses, a coroutine on the main event loop             *)
(* (__init__.py wires them as callbacks). The election thread of a node    *)
(* wins and loses the lock and starts and stops the services; an operator  *)
(* starts and stops a sync by hand; each service looks at its stop event   *)
(* and at is_leader() between its cycles and ends by itself.               *)
(*                                                                         *)
(* The callbacks of one change of leadership run one after another. As     *)
(* services share nothing, their order is left open.                       *)
(***************************************************************************)
EXTENDS Naturals, FiniteSets

CONSTANTS
  Nodes,      \* processes, each with an election thread
  Hosts,      \* those whose services are followed, the others only compete
  Threaded,   \* services that run as a thread (sync and compress) ...
  Manual,     \* ... those an operator may start and stop
  Resync,     \* the service that is a coroutine
  Slots,      \* identities of the loops of a service in one process
  MaxFaults,  \* bound: failures of the coordinator, of processes and of starts
  MaxCalls    \* bound: calls of operators

Services == Threaded \cup {Resync}
Nobody == "nobody"

ASSUME ServicesAssumption ==
  /\ Hosts \subseteq Nodes
  /\ Manual \subseteq Threaded /\ Resync \notin Threaded
  /\ Nobody \notin Slots
  /\ MaxFaults \in Nat /\ MaxCalls \in Nat

VARIABLES
  lock,        \* the election lock: its holder, or nobody
  leaders,     \* the nodes whose _is_leader is set
  standalone,  \* those that lead because they have no coordinator
  lapsed,      \* those that lost the lock and do not know
  epc,         \* where the election thread is
  todo,        \* the callbacks it has not called yet
  serving,     \* the nodes whose main event loop is known
  stop,        \* stop[n], the threaded services whose stop event is set
  loop,        \* loop[n][s][k], where loop k of a service is
  current,     \* current[n][s], the thread or future the module remembers
  checked,     \* checked[n][s], the starts that will create a loop
  missed,      \* history: starts and stops that leave a leader without service
  doubled,     \* history: services of which two starts overlapped
  faults, calls

election == <<lock, leaders, standalone, lapsed, epc, todo>>
services == <<stop, loop, current, checked, missed, doubled>>
vars == <<election, serving, services, faults, calls>>

ElectionPcs == {"down", "connect", "acquire", "beat", "won", "lost", "over"}
\* A loop in "ending" has decided to end and is still alive.
LoopPcs == {"none", "wait", "cycle", "ending", "cancelled"}
Callers == {"election", "operator"}

TypeOK ==
  /\ lock \in SUBSET Nodes /\ (\A m, n \in lock : m = n)
  /\ leaders \subseteq Nodes /\ standalone \subseteq leaders /\ lapsed \subseteq leaders
  /\ epc \in [Nodes -> ElectionPcs]
  /\ todo \in [Nodes -> SUBSET Services]
  /\ serving \subseteq Nodes
  /\ stop \in [Nodes -> SUBSET Threaded]
  /\ loop \in [Nodes -> [Services -> [Slots -> LoopPcs]]]
  /\ current \in [Nodes -> [Services -> Slots \cup {Nobody}]]
  /\ checked \in [Nodes -> [Services -> SUBSET Callers]]
  /\ missed \subseteq Nodes \X Services
  /\ doubled \subseteq Nodes \X Services
  /\ faults \in Nat /\ calls \in Nat

NoLoops == [s \in Services |-> [k \in Slots |-> "none"]]
NoCurrent == [s \in Services |-> Nobody]
NoStarts == [s \in Services |-> {}]

Init ==
  /\ lock = {} /\ leaders = {} /\ standalone = {} /\ lapsed = {}
  /\ epc = [n \in Nodes |-> "down"]
  /\ todo = [n \in Nodes |-> {}]
  /\ serving = {}
  /\ stop = [n \in Nodes |-> {}]
  /\ loop = [n \in Nodes |-> NoLoops]
  /\ current = [n \in Nodes |-> NoCurrent]
  /\ checked = [n \in Nodes |-> NoStarts]
  /\ missed = {}
  /\ doubled = {}
  /\ faults = 0 /\ calls = 0

Callbacks(n) == IF n \in Hosts THEN Services ELSE {}
Fault == faults < MaxFaults /\ faults' = faults + 1
Go(n, from, to) == epc[n] = from /\ epc' = [epc EXCEPT ![n] = to]

-----------------------------------------------------------------------------
(* A process. *)

\* create_app starts the election thread ...
Boot(n) ==
  /\ Go(n, "down", "connect")
  /\ UNCHANGED <<lock, leaders, standalone, lapsed, todo, serving, services, faults, calls>>

\* ... and the main event loop is known once the application serves.
Serve(n) ==
  /\ epc[n] # "down"
  /\ n \notin serving
  /\ serving' = serving \cup {n}
  /\ UNCHANGED <<election, services, faults, calls>>

\* The process ends, and all its threads with it; stop_election releases the
\* lock, a crash leaves it to expire.
Exit(n) ==
  /\ epc[n] # "down"
  /\ Fault
  /\ lock' \in {lock, lock \ {n}}
  /\ leaders' = leaders \ {n}
  /\ standalone' = standalone \ {n}
  /\ lapsed' = lapsed \ {n}
  /\ epc' = [epc EXCEPT ![n] = "down"]
  /\ todo' = [todo EXCEPT ![n] = {}]
  /\ serving' = serving \ {n}
  /\ stop' = [stop EXCEPT ![n] = {}]
  /\ loop' = [loop EXCEPT ![n] = NoLoops]
  /\ current' = [current EXCEPT ![n] = NoCurrent]
  /\ checked' = [checked EXCEPT ![n] = NoStarts]
  /\ missed' = missed \ ({n} \X Services)
  /\ doubled' = doubled \ ({n} \X Services)
  /\ UNCHANGED calls

\* The coordinator drops a lock: that of a dead process some day, that of a live
\* one when its heartbeats do not get through.
Expire(n) ==
  /\ n \in lock
  /\ lock' = {}
  /\ IF epc[n] = "down" THEN UNCHANGED <<lapsed, faults>>
     ELSE Fault /\ lapsed' = lapsed \cup {m \in {n} : m \in leaders}
  /\ UNCHANGED <<leaders, standalone, epc, todo, serving, services, calls>>

-----------------------------------------------------------------------------
(* The election thread *)

\* Mutant: the fallback leaves _is_leader unset.
Connect_NotLeader(n) ==
  \/ /\ Go(n, "connect", "acquire")
     /\ UNCHANGED <<leaders, standalone, todo, faults>>
     /\ UNCHANGED <<lock, lapsed, serving, services, calls>>
  \/ /\ Go(n, "connect", "won")
     /\ Fault
     /\ standalone' = standalone \cup {n}
     /\ todo' = [todo EXCEPT ![n] = Callbacks(n)]
     /\ UNCHANGED <<lock, leaders, lapsed, serving, services, calls>>

\* Without a coordinator the node leads on its own, and the thread ends.
Connect(n) ==
  \/ /\ Go(n, "connect", "acquire")
     /\ UNCHANGED <<leaders, standalone, todo, faults>>
     /\ UNCHANGED <<lock, lapsed, serving, services, calls>>
  \/ /\ Go(n, "connect", "won")
     /\ Fault
     /\ leaders' = leaders \cup {n}
     /\ standalone' = standalone \cup {n}
     /\ todo' = [todo EXCEPT ![n] = Callbacks(n)]
     /\ UNCHANGED <<lock, lapsed, serving, services, calls>>

\* Mutant: the answer of a non-blocking acquire is not looked at.
Granted_Always(n) == TRUE

\* acquire(blocking=False). Whether a backend grants the lock to the node that
\* holds it is its own affair.
Granted(n) == lock \subseteq {n}

\* _try_acquire_leadership. An exception counts as a refusal.
Acquire(n) ==
  \/ /\ Granted(n)
     /\ Go(n, "acquire", "won")
     /\ lock' = {n}
     /\ leaders' = leaders \cup {n}
     /\ todo' = [todo EXCEPT ![n] = Callbacks(n)]
     /\ UNCHANGED <<standalone, lapsed, serving, services, faults, calls>>
  \/ /\ Go(n, "acquire", "beat")
     /\ IF lock = {} THEN Fault ELSE UNCHANGED faults
     /\ UNCHANGED <<lock, leaders, standalone, lapsed, todo, serving, services, calls>>

\* Mutant: the lock is asked for once, when the thread starts.
Beat_Never(n) == FALSE

\* Only a node that is not the leader looks at the lock.
Beat(n) ==
  /\ n \notin leaders
  /\ Go(n, "beat", "acquire")
  /\ UNCHANGED <<lock, leaders, standalone, lapsed, todo, serving, services, faults, calls>>

\* A heartbeat fails: the node is no leader any more, but keeps its lock.
BeatFails(n) ==
  /\ n \in leaders
  /\ Fault
  /\ Go(n, "beat", "lost")
  /\ leaders' = leaders \ {n}
  /\ lapsed' = lapsed \ {n}
  /\ todo' = [todo EXCEPT ![n] = Callbacks(n)]
  /\ UNCHANGED <<lock, standalone, serving, services, calls>>

\* All callbacks have been called.
Fired(n) ==
  /\ todo[n] = {}
  /\ checked[n] = [s \in Services |-> checked[n][s] \ {"election"}]
  /\ \/ Go(n, "lost", "acquire")
     \/ n \notin standalone /\ Go(n, "won", "beat")
     \/ n \in standalone /\ Go(n, "won", "over")
  /\ UNCHANGED <<lock, leaders, standalone, lapsed, todo, serving, services, faults, calls>>

-----------------------------------------------------------------------------
(* Starting and stopping a service *)

Alive(n, s) == current[n][s] # Nobody /\ loop[n][s][current[n][s]] \notin {"none", "cancelled"}
\* The remembered loop will go on with its cycles.
Runs(n, s) == Alive(n, s) /\ loop[n][s][current[n][s]] # "ending" /\ s \notin stop[n]

SetLoop(n, s, k, where) == loop' = [loop EXCEPT ![n][s][k] = where]
Pending(n, s, C) == checked' = [checked EXCEPT ![n][s] = C]

\* Mutant: the event is cleared whether or not a thread is alive, and the old
\* thread goes on.
Begin_ClearsAlways(n, s, caller) ==
  /\ stop' = [stop EXCEPT ![n] = @ \ {s}]
  /\ missed' = missed
  /\ Pending(n, s, checked[n][s] \cup {caller})
  /\ doubled' = doubled

\* Mutant: the event of the last stop stays set.
Begin_KeepsEvent(n, s, caller) ==
  IF Alive(n, s)
  THEN /\ missed' = missed \cup {x \in {<<n, s>>} : caller = "election" /\ ~Runs(n, s)}
       /\ UNCHANGED <<stop, checked, doubled>>
  ELSE /\ stop' = stop
       /\ Pending(n, s, checked[n][s] \cup {caller})
       /\ doubled' = doubled \cup {x \in {<<n, s>>} : checked[n][s] # {}}
       /\ missed' = missed \ {x \in {<<n, s>>} : caller = "election"}

\* start_usage_sync and start_compress_service: nothing happens when the thread
\* is alive, be it about to end. Else the event is cleared, and the thread is
\* created after the module's lock is released.
Begin(n, s, caller) ==
  IF Alive(n, s)
  THEN /\ missed' = missed \cup {x \in {<<n, s>>} : caller = "election" /\ ~Runs(n, s)}
       /\ UNCHANGED <<stop, checked, doubled>>
  ELSE /\ stop' = [stop EXCEPT ![n] = @ \ {s}]
       /\ Pending(n, s, checked[n][s] \cup {caller})
       /\ doubled' = doubled \cup {x \in {<<n, s>>} : checked[n][s] # {}}
       /\ missed' = missed \ {x \in {<<n, s>>} : caller = "election"}

\* The callback of the election thread.
StartThread(n, s) ==
  /\ epc[n] = "won"
  /\ s \in todo[n] \cap Threaded
  /\ todo' = [todo EXCEPT ![n] = @ \ {s}]
  /\ Begin(n, s, "election")
  /\ UNCHANGED <<lock, leaders, standalone, lapsed, epc, serving, loop, current, faults, calls>>

\* A new loop, by whatever identity.
Create(n, s) ==
  LET free == {k \in Slots : loop[n][s][k] = "none"}
      k == CHOOSE j \in free : TRUE
  IN  /\ free # {}
      /\ SetLoop(n, s, k, "wait")
      /\ current' = [current EXCEPT ![n][s] = k]

Spawn(n, s, caller) ==
  /\ caller \in checked[n][s]
  /\ Create(n, s)
  /\ Pending(n, s, checked[n][s] \ {caller})
  /\ UNCHANGED <<election, serving, stop, missed, doubled, faults, calls>>

\* start_background_resync gives up when the main loop is not known yet, or does
\* not answer.
StartResync(n) ==
  /\ epc[n] = "won"
  /\ Resync \in todo[n]
  /\ todo' = [todo EXCEPT ![n] = @ \ {Resync}]
  /\ IF Alive(n, Resync)
     THEN /\ missed' = missed \cup {x \in {<<n, Resync>>} : ~Runs(n, Resync)}
          /\ UNCHANGED <<loop, current, faults>>
     ELSE \/ /\ n \in serving
             /\ Create(n, Resync)
             /\ missed' = missed \ {<<n, Resync>>}
             /\ UNCHANGED faults
          \/ /\ IF n \in serving THEN Fault ELSE UNCHANGED faults
             /\ missed' = missed \cup {<<n, Resync>>}
             /\ UNCHANGED <<loop, current>>
  /\ UNCHANGED <<lock, leaders, standalone, lapsed, epc, serving, stop, checked, doubled, calls>>

\* stop_usage_sync, stop_compress_service
StopThread(n, s) ==
  /\ epc[n] = "lost"
  /\ s \in todo[n] \cap Threaded
  /\ todo' = [todo EXCEPT ![n] = @ \ {s}]
  /\ stop' = [stop EXCEPT ![n] = @ \cup {s}]
  /\ UNCHANGED <<lock, leaders, standalone, lapsed, epc, serving, loop, current, checked,
                 missed, doubled, faults, calls>>

\* stop_background_resync: the cancelled future is done at once, its coroutine
\* ends at its next await.
StopResync(n) ==
  /\ epc[n] = "lost"
  /\ Resync \in todo[n]
  /\ todo' = [todo EXCEPT ![n] = @ \ {Resync}]
  /\ IF Alive(n, Resync) THEN SetLoop(n, Resync, current[n][Resync], "cancelled")
     ELSE UNCHANGED loop
  /\ UNCHANGED <<lock, leaders, standalone, lapsed, epc, serving, stop, current, checked,
                 missed, doubled, faults, calls>>

\* POST /api/usage/sync, on whatever node it reaches.
Call(n, s) ==
  /\ n \in serving \cap Hosts
  /\ calls < MaxCalls
  /\ calls' = calls + 1
  /\ \/ "operator" \notin checked[n][s] /\ Begin(n, s, "operator")
     \/ /\ stop' = [stop EXCEPT ![n] = @ \cup {s}]
        /\ missed' = missed \cup {<<n, s>>}
        /\ UNCHANGED <<checked, doubled>>
  /\ UNCHANGED <<election, serving, loop, current, faults>>

-----------------------------------------------------------------------------
(* The loop of a service: wait; while not stopped, and while leader: a     *)
(* cycle, wait.                                                            *)
\* Mutant: the loop does not ask whether its node leads.
Wake_Blind(n, s, k) ==
  /\ loop[n][s][k] = "wait"
  /\ SetLoop(n, s, k, IF s \in stop[n] THEN "ending" ELSE "cycle")
  /\ UNCHANGED <<election, serving, stop, current, checked, missed, doubled, faults, calls>>

\* The event and the leadership are looked at before each cycle.
Wake(n, s, k) ==
  /\ loop[n][s][k] = "wait"
  /\ SetLoop(n, s, k, IF s \in stop[n] \/ n \notin leaders THEN "ending" ELSE "cycle")
  /\ UNCHANGED <<election, serving, stop, current, checked, missed, doubled, faults, calls>>

Cycle(n, s, k) ==
  /\ loop[n][s][k] = "cycle"
  /\ SetLoop(n, s, k, "wait")
  /\ UNCHANGED <<election, serving, stop, current, checked, missed, doubled, faults, calls>>

End(n, s, k) ==
  /\ loop[n][s][k] \in {"ending", "cancelled"}
  /\ SetLoop(n, s, k, "none")
  /\ UNCHANGED <<election, serving, stop, current, checked, missed, doubled, faults, calls>>

-----------------------------------------------------------------------------
Election(n) ==
  \/ Connect(n) \/ Acquire(n) \/ Beat(n) \/ Fired(n)
  \/ \E s \in Threaded : StartThread(n, s) \/ Spawn(n, s, "election") \/ StopThread(n, s)
  \/ StartResync(n) \/ StopResync(n)

Loop(n, s, k) == Wake(n, s, k) \/ Cycle(n, s, k) \/ End(n, s, k)

Next ==
  \E n \in Nodes :
    \/ Boot(n) \/ Serve(n) \/ Exit(n) \/ Expire(n)
    \/ Election(n) \/ BeatFails(n)
    \/ \E s \in Manual : Call(n, s) \/ Spawn(n, s, "operator")
    \/ \E s \in Services, k \in Slots : Loop(n, s, k)

Spec == Init /\ [][Next]_vars

(* Threads run on, a cycle ends, and the lock of a dead process expires.    *)
Fairness ==
  \A n \in Nodes :
    /\ WF_vars(Election(n))
    /\ WF_vars(epc[n] = "down" /\ Expire(n))
    /\ \A s \in Manual : WF_vars(Spawn(n, s, "operator"))
    /\ \A s \in Services, k \in Slots : WF_vars(Loop(n, s, k))

FairSpec == Spec /\ Fairness

-----------------------------------------------------------------------------
(* Properties *)

\* A node that believes it leads holds the lock, so that no two do, unless it has
\* no coordinator or the lock was dropped under it: the code never looks at the
\* lock again while its heartbeats succeed.
LeaderHolds == \A n \in leaders : lock = {n} \/ n \in standalone \cup lapsed

\* Two loops of a service share a process only after two starts of it overlapped,
\* the second between the first one's check and its thread; a change of
\* leadership, however quick, never doubles one.
OneLoop ==
  \A n \in Nodes, s \in Services : <<n, s>> \notin doubled =>
    \A j, k \in Slots :
      loop[n][s][j] \notin {"none", "cancelled"} /\ loop[n][s][k] \notin {"none", "cancelled"}
        => j = k

\* A leader whose callbacks have run serves: each service has a loop that will go
\* on, unless a start found a loop about to end or no event loop to run on, or an
\* operator stopped it.
LeaderServes ==
  \A n \in leaders \cap Hosts : epc[n] \in {"beat", "over"} =>
    \A s \in Services : Runs(n, s) \/ <<n, s>> \in missed

\* A node that has ceased to lead ends its loops, or leads again.
Retires ==
  \A n \in Nodes : n \notin leaders ~>
    (n \in leaders \/ \A s \in Services, k \in Slots : loop[n][s][k] = "none")

\* As long as a process runs some node leads, unless a live one keeps the lock of
\* a leadership it has given up and the backend does not grant it again.
Led ==
  []<>(\/ leaders # {}
       \/ \A n \in Nodes : epc[n] = "down"
       \/ \E n \in lock : epc[n] # "down")
=============================================================================
