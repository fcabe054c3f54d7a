------------------------ MODULE LeaderServices_proofs ------------------------
(***************************************************************************)
(* Proofs about LeaderServices. The inductive invariant says where a       *)
(* leader's election thread can be, that callbacks are pending only while  *)
(* they are being called, that a live loop is the one its module remembers *)
(* and that a start in progress finds none, and that every service of a    *)
(* leader is still to be started, about to be, running, or missed.         *)
(***************************************************************************)
EXTENDS LeaderServices, TLAPS

Lively == {"wait", "cycle", "ending"}

\* Leaders are past their election, and callbacks run in two phases only.
Phases ==
  \A n \in Nodes :
    /\ n \in leaders => epc[n] \in {"won", "beat", "over"}
    /\ n \in standalone => epc[n] \in {"won", "over"}
    /\ epc[n] \notin {"won", "lost"} => todo[n] = {}
    /\ epc[n] # "won" => \A s \in Services : "election" \notin checked[n][s]
    /\ checked[n][Resync] = {}

\* Unless two starts overlapped, the live loop is the remembered one, and there is
\* none while a start is between its check and its thread.
Single ==
  \A n \in Nodes, s \in Services : <<n, s>> \notin doubled =>
    /\ \A k \in Slots : loop[n][s][k] \in Lively => k = current[n][s] /\ checked[n][s] = {}
    /\ \A c, d \in checked[n][s] : c = d

\* A service of a leader is to be started, is being started, runs, or was missed.
Served(n, s) ==
  \/ s \in todo[n]
  \/ <<n, s>> \in missed
  \/ "election" \in checked[n][s] /\ s \notin stop[n]
  \/ Runs(n, s)
ServedAll == \A n \in leaders \cap Hosts, s \in Services : Served(n, s)

IInv == TypeOK /\ LeaderHolds /\ Phases /\ Single /\ ServedAll

-----------------------------------------------------------------------------
(* Types *)

\* A start and a new loop keep the types of what they write.
LEMMA BeginType ==
  ASSUME TypeOK, NEW n \in Nodes, NEW s \in Threaded, NEW caller \in Callers, Begin(n, s, caller)
  PROVE  /\ stop' \in [Nodes -> SUBSET Threaded]
         /\ checked' \in [Nodes -> [Services -> SUBSET Callers]]
         /\ missed' \subseteq Nodes \X Services
         /\ doubled' \subseteq Nodes \X Services
<1>1. s \in Services
  BY DEF Services
<1>2. CASE Alive(n, s)
  BY <1>1, <1>2 DEF Begin, TypeOK
<1>3. CASE ~Alive(n, s)
  <2>1. stop' = [stop EXCEPT ![n] = @ \ {s}] /\ stop[n] \ {s} \in SUBSET Threaded
    BY <1>3 DEF Begin, TypeOK
  <2>2. checked' = [checked EXCEPT ![n][s] = checked[n][s] \cup {caller}]
    BY <1>3 DEF Begin, Pending
  <2>3. checked[n][s] \cup {caller} \in SUBSET Callers
    BY <1>1 DEF TypeOK
  <2>4. doubled' = doubled \cup {x \in {<<n, s>>} : checked[n][s] # {}}
    BY <1>3 DEF Begin
  <2>5. missed' \subseteq missed
    BY <1>3 DEF Begin
  <2> QED BY <1>1, <2>1, <2>2, <2>3, <2>4, <2>5 DEF TypeOK
<1> QED BY <1>2, <1>3

LEMMA CreateType ==
  ASSUME TypeOK, NEW n \in Nodes, NEW s \in Services, Create(n, s)
  PROVE  \E k \in Slots :
           /\ loop[n][s][k] = "none"
           /\ loop' = [loop EXCEPT ![n][s][k] = "wait"]
           /\ current' = [current EXCEPT ![n][s] = k]
           /\ loop' \in [Nodes -> [Services -> [Slots -> LoopPcs]]]
           /\ current' \in [Nodes -> [Services -> Slots \cup {Nobody}]]
<1> DEFINE free == {j \in Slots : loop[n][s][j] = "none"}
<1>1. PICK k \in free : k = CHOOSE j \in free : TRUE
  BY DEF Create
<1>2. k \in Slots /\ loop[n][s][k] = "none"
  BY <1>1
<1>3. loop' = [loop EXCEPT ![n][s][k] = "wait"] /\ current' = [current EXCEPT ![n][s] = k]
  BY <1>1 DEF Create, SetLoop
<1>4. "wait" \in LoopPcs
  BY DEF LoopPcs
<1>5. loop' \in [Nodes -> [Services -> [Slots -> LoopPcs]]]
  BY <1>2, <1>3, <1>4 DEF TypeOK
<1>6. current' \in [Nodes -> [Services -> Slots \cup {Nobody}]]
  BY <1>2, <1>3 DEF TypeOK
<1> QED BY <1>2, <1>3, <1>5, <1>6

LEMMA SetLoopType ==
  ASSUME TypeOK, NEW n \in Nodes, NEW s \in Services, NEW k \in Slots, NEW w \in LoopPcs,
         SetLoop(n, s, k, w)
  PROVE  loop' \in [Nodes -> [Services -> [Slots -> LoopPcs]]]
BY DEF TypeOK, SetLoop

\* Every action keeps the types.
LEMMA TypeStep == ASSUME TypeOK, Phases, [Next]_vars PROVE TypeOK'
<1> USE ServicesAssumption DEF Services
<1>1. CASE UNCHANGED vars
  BY <1>1 DEF vars, election, services, TypeOK
<1>2. ASSUME NEW n \in Nodes, Boot(n) PROVE TypeOK'
  BY <1>2 DEF Boot, Go, services, TypeOK, ElectionPcs
<1>3. ASSUME NEW n \in Nodes, Serve(n) PROVE TypeOK'
  BY <1>3 DEF Serve, election, services, TypeOK
<1>4. ASSUME NEW n \in Nodes, Exit(n) PROVE TypeOK'
  <2>1. lock' \in SUBSET Nodes /\ (\A m, l \in lock' : m = l)
    BY <1>4 DEF Exit, TypeOK
  <2>2. leaders' \subseteq Nodes /\ standalone' \subseteq leaders' /\ lapsed' \subseteq leaders'
    BY <1>4 DEF Exit, TypeOK
  <2>3. epc' \in [Nodes -> ElectionPcs] /\ todo' \in [Nodes -> SUBSET Services]
    BY <1>4 DEF Exit, TypeOK, ElectionPcs
  <2>4. serving' \subseteq Nodes /\ stop' \in [Nodes -> SUBSET Threaded]
    BY <1>4 DEF Exit, TypeOK
  <2>5. NoLoops \in [Services -> [Slots -> LoopPcs]]
    BY DEF NoLoops, LoopPcs
  <2>6. loop' \in [Nodes -> [Services -> [Slots -> LoopPcs]]]
    BY <1>4, <2>5 DEF Exit, TypeOK
  <2>7. NoCurrent \in [Services -> Slots \cup {Nobody}] /\ NoStarts \in [Services -> SUBSET Callers]
    BY DEF NoCurrent, NoStarts
  <2>8. current' \in [Nodes -> [Services -> Slots \cup {Nobody}]]
    BY <1>4, <2>7 DEF Exit, TypeOK
  <2>9. checked' \in [Nodes -> [Services -> SUBSET Callers]]
    BY <1>4, <2>7 DEF Exit, TypeOK
  <2>10. missed' \subseteq Nodes \X Services /\ doubled' \subseteq Nodes \X Services
    BY <1>4 DEF Exit, TypeOK
  <2>11. faults' \in Nat /\ calls' \in Nat
    BY <1>4 DEF Exit, Fault, TypeOK
  <2> QED BY <2>1, <2>2, <2>3, <2>4, <2>6, <2>8, <2>9, <2>10, <2>11 DEF TypeOK
<1>5. ASSUME NEW n \in Nodes, Expire(n) PROVE TypeOK'
  <2>1. lock' \in SUBSET Nodes /\ (\A m, l \in lock' : m = l)
    BY <1>5 DEF Expire, TypeOK
  <2>2. leaders' \subseteq Nodes /\ standalone' \subseteq leaders' /\ lapsed' \subseteq leaders'
    BY <1>5 DEF Expire, TypeOK
  <2>3. epc' \in [Nodes -> ElectionPcs]
    BY <1>5 DEF Expire, Go, TypeOK, ElectionPcs
  <2>4. todo' \in [Nodes -> SUBSET Services]
    BY <1>5 DEF Expire, Callbacks, TypeOK
  <2>5. faults' \in Nat
    BY <1>5 DEF Expire, Fault, TypeOK
  <2>6. UNCHANGED <<serving, services, calls>>
    BY <1>5 DEF Expire
  <2> QED BY <2>1, <2>2, <2>3, <2>4, <2>5, <2>6 DEF services, TypeOK
<1>6. ASSUME NEW n \in Nodes, Connect(n) PROVE TypeOK'
  <2>1. lock' \in SUBSET Nodes /\ (\A m, l \in lock' : m = l)
    BY <1>6 DEF Connect, TypeOK
  <2>2. leaders' \subseteq Nodes /\ standalone' \subseteq leaders' /\ lapsed' \subseteq leaders'
    BY <1>6 DEF Connect, TypeOK
  <2>3. epc' \in [Nodes -> ElectionPcs]
    BY <1>6 DEF Connect, Go, TypeOK, ElectionPcs
  <2>4. todo' \in [Nodes -> SUBSET Services]
    BY <1>6 DEF Connect, Callbacks, TypeOK
  <2>5. faults' \in Nat
    BY <1>6 DEF Connect, Fault, TypeOK
  <2>6. UNCHANGED <<serving, services, calls>>
    BY <1>6 DEF Connect
  <2> QED BY <2>1, <2>2, <2>3, <2>4, <2>5, <2>6 DEF services, TypeOK
<1>7. ASSUME NEW n \in Nodes, Acquire(n) PROVE TypeOK'
  <2>1. lock' \in SUBSET Nodes /\ (\A m, l \in lock' : m = l)
    BY <1>7 DEF Acquire, TypeOK
  <2>2. leaders' \subseteq Nodes /\ standalone' \subseteq leaders' /\ lapsed' \subseteq leaders'
    BY <1>7 DEF Acquire, TypeOK
  <2>3. epc' \in [Nodes -> ElectionPcs]
    BY <1>7 DEF Acquire, Go, TypeOK, ElectionPcs
  <2>4. todo' \in [Nodes -> SUBSET Services]
    BY <1>7 DEF Acquire, Callbacks, TypeOK
  <2>5. faults' \in Nat
    BY <1>7 DEF Acquire, Fault, TypeOK
  <2>6. UNCHANGED <<serving, services, calls>>
    BY <1>7 DEF Acquire
  <2> QED BY <2>1, <2>2, <2>3, <2>4, <2>5, <2>6 DEF services, TypeOK
<1>8. ASSUME NEW n \in Nodes, Beat(n) PROVE TypeOK'
  BY <1>8 DEF Beat, Go, services, TypeOK, ElectionPcs
<1>9. ASSUME NEW n \in Nodes, Fired(n) PROVE TypeOK'
  BY <1>9 DEF Fired, Go, services, TypeOK, ElectionPcs
<1>10. ASSUME NEW n \in Nodes, NEW s \in Threaded, StartThread(n, s) PROVE TypeOK'
  <2>1. "election" \in Callers
    BY DEF Callers
  <2>2. /\ stop' \in [Nodes -> SUBSET Threaded]
        /\ checked' \in [Nodes -> [Services -> SUBSET Callers]]
        /\ missed' \subseteq Nodes \X Services
        /\ doubled' \subseteq Nodes \X Services
    BY <1>10, <2>1, BeginType DEF StartThread
  <2> QED BY <1>10, <2>2 DEF StartThread, TypeOK
<1>11. ASSUME NEW n \in Nodes, NEW s \in Threaded, NEW c \in Callers, Spawn(n, s, c) PROVE TypeOK'
  <2>1. /\ loop' \in [Nodes -> [Services -> [Slots -> LoopPcs]]]
        /\ current' \in [Nodes -> [Services -> Slots \cup {Nobody}]]
    BY <1>11, CreateType DEF Spawn
  <2>2. checked' \in [Nodes -> [Services -> SUBSET Callers]]
    BY <1>11 DEF Spawn, Pending, TypeOK
  <2> QED BY <1>11, <2>1, <2>2 DEF Spawn, election, TypeOK
<1>12. ASSUME NEW n \in Nodes, NEW s \in Threaded, StopThread(n, s) PROVE TypeOK'
  BY <1>12 DEF StopThread, TypeOK
<1>13. ASSUME NEW n \in Nodes, StartResync(n) PROVE TypeOK'
  <2>1. /\ loop' \in [Nodes -> [Services -> [Slots -> LoopPcs]]]
        /\ current' \in [Nodes -> [Services -> Slots \cup {Nobody}]]
    <3>1. CASE Create(n, Resync)
      BY <3>1, CreateType
    <3>2. CASE UNCHANGED <<loop, current>>
      BY <3>2 DEF TypeOK
    <3> QED BY <1>13, <3>1, <3>2 DEF StartResync
  <2>2. missed' \subseteq Nodes \X Services
    BY <1>13 DEF StartResync, TypeOK
  <2>3. todo' \in [Nodes -> SUBSET Services]
    BY <1>13 DEF StartResync, TypeOK
  <2>4. faults' \in Nat
    BY <1>13 DEF StartResync, Fault, TypeOK
  <2>5. UNCHANGED <<lock, leaders, standalone, lapsed, epc, serving, stop, checked, doubled, calls>>
    BY <1>13 DEF StartResync
  <2> QED BY <2>1, <2>2, <2>3, <2>4, <2>5 DEF TypeOK
<1>14. ASSUME NEW n \in Nodes, StopResync(n) PROVE TypeOK'
  <2>1. loop' \in [Nodes -> [Services -> [Slots -> LoopPcs]]]
    <3>1. CASE Alive(n, Resync)
      <4>1. current[n][Resync] \in Slots
        BY <3>1 DEF Alive, TypeOK
      <4>2. "cancelled" \in LoopPcs
        BY DEF LoopPcs
      <4> QED BY <1>14, <3>1, <4>1, <4>2, SetLoopType DEF StopResync
    <3>2. CASE ~Alive(n, Resync)
      BY <1>14, <3>2 DEF StopResync, TypeOK
    <3> QED BY <3>1, <3>2
  <2> QED BY <1>14, <2>1 DEF StopResync, TypeOK
<1>15. ASSUME NEW n \in Nodes, BeatFails(n) PROVE TypeOK'
  <2>1. lock' \in SUBSET Nodes /\ (\A m, l \in lock' : m = l)
    BY <1>15 DEF BeatFails, TypeOK
  <2>2. leaders' \subseteq Nodes /\ standalone' \subseteq leaders' /\ lapsed' \subseteq leaders'
    BY <1>15 DEF BeatFails, Go, Phases, TypeOK
  <2>3. epc' \in [Nodes -> ElectionPcs]
    BY <1>15 DEF BeatFails, Go, TypeOK, ElectionPcs
  <2>4. todo' \in [Nodes -> SUBSET Services]
    BY <1>15 DEF BeatFails, Callbacks, TypeOK
  <2>5. faults' \in Nat
    BY <1>15 DEF BeatFails, Fault, TypeOK
  <2>6. UNCHANGED <<serving, services, calls>>
    BY <1>15 DEF BeatFails
  <2> QED BY <2>1, <2>2, <2>3, <2>4, <2>5, <2>6 DEF services, TypeOK
<1>16. ASSUME NEW n \in Nodes, NEW s \in Manual, Call(n, s) PROVE TypeOK'
  <2>1. "operator" \in Callers
    BY DEF Callers
  <2>2. /\ stop' \in [Nodes -> SUBSET Threaded]
        /\ checked' \in [Nodes -> [Services -> SUBSET Callers]]
        /\ missed' \subseteq Nodes \X Services
        /\ doubled' \subseteq Nodes \X Services
    <3>1. CASE Begin(n, s, "operator")
      BY <2>1, <3>1, BeginType
    <3>2. CASE ~Begin(n, s, "operator")
      <4>1. stop' = [stop EXCEPT ![n] = @ \cup {s}] /\ missed' = missed \cup {<<n, s>>}
        BY <1>16, <3>2 DEF Call
      <4>2. UNCHANGED <<checked, doubled>>
        BY <1>16, <3>2 DEF Call
      <4>3. s \in Threaded /\ <<n, s>> \in Nodes \X Services
        OBVIOUS
      <4> QED BY <4>1, <4>2, <4>3 DEF TypeOK
    <3> QED BY <3>1, <3>2
  <2>3. calls' \in Nat
    BY <1>16 DEF Call, TypeOK
  <2>4. UNCHANGED <<election, serving, loop, current, faults>>
    BY <1>16 DEF Call
  <2> QED BY <2>2, <2>3, <2>4 DEF election, TypeOK
<1>17. ASSUME NEW n \in Nodes, NEW s \in Services, NEW k \in Slots, Loop(n, s, k) PROVE TypeOK'
  <2>1. {"none", "wait", "cycle", "ending"} \subseteq LoopPcs
    BY DEF LoopPcs
  <2>2. loop' \in [Nodes -> [Services -> [Slots -> LoopPcs]]]
    BY <1>17, <2>1, SetLoopType DEF Loop, Wake, Cycle, End
  <2>3. UNCHANGED <<election, serving, stop, current, checked, missed, doubled, faults, calls>>
    BY <1>17 DEF Loop, Wake, Cycle, End
  <2> QED BY <2>2, <2>3 DEF election, TypeOK
<1>18. ASSUME NEW n \in Nodes, Election(n) PROVE TypeOK'
  BY <1>18, <1>6, <1>7, <1>8, <1>9, <1>10, <1>11, <1>12, <1>13, <1>14 DEF Election, Callers
<1>19. ASSUME NEW n \in Nodes, NEW s \in Manual, Spawn(n, s, "operator") PROVE TypeOK'
  BY <1>19, <1>11 DEF Callers
<1> QED
  BY <1>1, <1>2, <1>3, <1>4, <1>5, <1>15, <1>16, <1>17, <1>18, <1>19 DEF Next

-----------------------------------------------------------------------------
(* The lock *)

\* Every action keeps LeaderHolds: the lock is granted to nobody else while a
\* leader has it, and is dropped under no other leader than the marked one.
LEMMA HoldsStep == ASSUME TypeOK, Phases, LeaderHolds, [Next]_vars PROVE LeaderHolds'
<1>1. CASE UNCHANGED <<lock, leaders, standalone, lapsed>>
  BY <1>1 DEF LeaderHolds
<1>2. ASSUME NEW n \in Nodes, Exit(n) PROVE LeaderHolds'
  BY <1>2 DEF Exit, LeaderHolds
<1>3. ASSUME NEW n \in Nodes, Expire(n) PROVE LeaderHolds'
  <2>1. lock = {n}
    BY <1>3 DEF Expire, TypeOK
  <2>2. n \in leaders => n \in lapsed'
    BY <1>3 DEF Expire, Phases
  <2> QED BY <1>3, <2>1, <2>2 DEF Expire, LeaderHolds
<1>4. ASSUME NEW n \in Nodes, Connect(n) PROVE LeaderHolds'
  BY <1>4 DEF Connect, LeaderHolds
<1>5. ASSUME NEW n \in Nodes, Acquire(n) PROVE LeaderHolds'
  BY <1>5 DEF Acquire, Granted, LeaderHolds
<1>6. ASSUME NEW n \in Nodes, BeatFails(n) PROVE LeaderHolds'
  BY <1>6 DEF BeatFails, LeaderHolds
<1>7. ASSUME NEW n \in Nodes, Election(n) PROVE LeaderHolds'
  <2>1. Connect(n) \/ Acquire(n) \/ UNCHANGED <<lock, leaders, standalone, lapsed>>
    BY <1>7 DEF Election, Beat, Fired, StartThread, Spawn, StopThread, StartResync, StopResync,
                election
  <2> QED BY <1>1, <1>4, <1>5, <2>1
<1>8. ASSUME NEW n \in Nodes, NEW s \in Manual, Call(n, s) \/ Spawn(n, s, "operator")
      PROVE  LeaderHolds'
  BY <1>1, <1>8 DEF Call, Spawn, election
<1>9. ASSUME NEW n \in Nodes, NEW s \in Services, NEW k \in Slots, Loop(n, s, k) PROVE LeaderHolds'
  BY <1>1, <1>9 DEF Loop, Wake, Cycle, End, election
<1>10. ASSUME NEW n \in Nodes, Boot(n) \/ Serve(n) PROVE LeaderHolds'
  BY <1>1, <1>10 DEF Boot, Serve, election
<1>11. CASE UNCHANGED vars
  BY <1>1, <1>11 DEF vars, election
<1> QED BY <1>2, <1>3, <1>6, <1>7, <1>8, <1>9, <1>10, <1>11 DEF Next

-----------------------------------------------------------------------------
(* The phases of the election thread *)

\* A start of a thread by hand leaves the election's starts alone.
LEMMA BeginStarts ==
  ASSUME TypeOK, NEW n \in Nodes, NEW s \in Threaded, NEW caller \in Callers, Begin(n, s, caller)
  PROVE  \A m \in Nodes, t \in Services :
           \/ checked'[m][t] = checked[m][t]
           \/ m = n /\ t = s /\ checked'[m][t] = checked[n][s] \cup {caller}
<1>1. CASE UNCHANGED checked
  BY <1>1
<1>2. CASE checked' = [checked EXCEPT ![n][s] = checked[n][s] \cup {caller}]
  BY <1>2 DEF TypeOK, Services
<1> QED BY <1>1, <1>2 DEF Begin, Pending

\* Every action keeps the phases.
LEMMA PhasesStep == ASSUME TypeOK, Phases, [Next]_vars PROVE Phases'
<1> USE ServicesAssumption
<1>1. CASE UNCHANGED <<leaders, standalone, epc, todo, checked>>
  BY <1>1 DEF Phases
<1>2. ASSUME NEW n \in Nodes, Boot(n) PROVE Phases'
  BY <1>2 DEF Boot, Go, services, Phases, TypeOK
<1>3. ASSUME NEW n \in Nodes, Exit(n) PROVE Phases'
  <2>1. checked' = [checked EXCEPT ![n] = NoStarts] /\ \A s \in Services : NoStarts[s] = {}
    BY <1>3 DEF Exit, NoStarts
  <2>2. Resync \in Services
    BY DEF Services
  <2> QED BY <1>3, <2>1, <2>2 DEF Exit, Phases, TypeOK
<1>4. ASSUME NEW n \in Nodes, Connect(n) PROVE Phases'
  BY <1>4 DEF Connect, Go, services, Phases, TypeOK
<1>5. ASSUME NEW n \in Nodes, Acquire(n) PROVE Phases'
  BY <1>5 DEF Acquire, Go, services, Phases, TypeOK
<1>6. ASSUME NEW n \in Nodes, Beat(n) PROVE Phases'
  BY <1>6 DEF Beat, Go, services, Phases, TypeOK
<1>7. ASSUME NEW n \in Nodes, Fired(n) PROVE Phases'
  <2>1. \A s \in Services : "election" \notin checked[n][s]
    BY <1>7 DEF Fired
  <2>2. UNCHANGED <<leaders, standalone, todo, checked>>
    BY <1>7 DEF Fired, services
  <2>3. \/ epc[n] = "lost" /\ epc' = [epc EXCEPT ![n] = "acquire"]
        \/ epc[n] = "won" /\ n \notin standalone /\ epc' = [epc EXCEPT ![n] = "beat"]
        \/ epc[n] = "won" /\ n \in standalone /\ epc' = [epc EXCEPT ![n] = "over"]
    BY <1>7 DEF Fired, Go
  <2>4. todo[n] = {}
    BY <1>7 DEF Fired
  <2> QED BY <2>1, <2>2, <2>3, <2>4 DEF Phases, TypeOK
<1>8. ASSUME NEW n \in Nodes, BeatFails(n) PROVE Phases'
  BY <1>8 DEF BeatFails, Go, services, Phases, TypeOK
<1>9. ASSUME NEW n \in Nodes, NEW s \in Threaded, StartThread(n, s) PROVE Phases'
  <2>1. epc[n] = "won" /\ UNCHANGED <<leaders, standalone, epc>>
    BY <1>9 DEF StartThread
  <2>2. todo' = [todo EXCEPT ![n] = @ \ {s}]
    BY <1>9 DEF StartThread
  <2>3. \A m \in Nodes, t \in Services :
          \/ checked'[m][t] = checked[m][t]
          \/ m = n /\ t = s
    BY <1>9, BeginStarts DEF StartThread, Callers
  <2>4. s # Resync /\ Resync \in Services
    BY DEF Services
  <2> QED BY <2>1, <2>2, <2>3, <2>4 DEF Phases, TypeOK
<1>10. ASSUME NEW n \in Nodes, NEW s \in Threaded, NEW c \in Callers, Spawn(n, s, c) PROVE Phases'
  <2>1. UNCHANGED <<leaders, standalone, epc, todo>>
    BY <1>10 DEF Spawn, election
  <2>2. checked' = [checked EXCEPT ![n][s] = checked[n][s] \ {c}]
    BY <1>10 DEF Spawn, Pending
  <2>3. \A m \in Nodes, t \in Services : checked'[m][t] \subseteq checked[m][t]
    BY <2>2 DEF TypeOK, Services
  <2>4. Resync \in Services
    BY DEF Services
  <2> QED BY <2>1, <2>3, <2>4 DEF Phases
<1>11. ASSUME NEW n \in Nodes, NEW s \in Threaded, StopThread(n, s) PROVE Phases'
  BY <1>11 DEF StopThread, Phases, TypeOK
<1>12. ASSUME NEW n \in Nodes, StartResync(n) PROVE Phases'
  BY <1>12 DEF StartResync, Phases, TypeOK
<1>13. ASSUME NEW n \in Nodes, StopResync(n) PROVE Phases'
  BY <1>13 DEF StopResync, Phases, TypeOK
<1>14. ASSUME NEW n \in Nodes, NEW s \in Manual, Call(n, s) PROVE Phases'
  <2>1. UNCHANGED <<leaders, standalone, epc, todo>>
    BY <1>14 DEF Call, election
  <2>2. CASE Begin(n, s, "operator")
    <3>1. \A m \in Nodes, t \in Services :
            \/ checked'[m][t] = checked[m][t]
            \/ m = n /\ t = s /\ checked'[m][t] = checked[n][s] \cup {"operator"}
      BY <2>2, BeginStarts DEF Callers
    <3>2. s # Resync /\ s \in Services /\ Resync \in Services
      BY DEF Services
    <3> QED BY <2>1, <3>1, <3>2 DEF Phases
  <2>3. CASE UNCHANGED checked
    BY <2>1, <2>3, <1>1
  <2> QED BY <1>14, <2>2, <2>3 DEF Call
<1>15. ASSUME NEW n \in Nodes, Election(n) PROVE Phases'
  BY <1>15, <1>4, <1>5, <1>6, <1>7, <1>9, <1>10, <1>11, <1>12, <1>13 DEF Election, Callers
<1>16. ASSUME NEW n \in Nodes, NEW s \in Manual, Spawn(n, s, "operator") PROVE Phases'
  BY <1>16, <1>10 DEF Callers
<1>17. ASSUME NEW n \in Nodes, NEW s \in Services, NEW k \in Slots, Loop(n, s, k) PROVE Phases'
  BY <1>1, <1>17 DEF Loop, Wake, Cycle, End, election
<1>18. ASSUME NEW n \in Nodes, Serve(n) \/ Expire(n) PROVE Phases'
  BY <1>1, <1>18 DEF Serve, Expire, election, services
<1>19. CASE UNCHANGED vars
  BY <1>1, <1>19 DEF vars, election, services
<1> QED
  BY <1>2, <1>3, <1>8, <1>14, <1>15, <1>16, <1>17, <1>18, <1>19 DEF Next

-----------------------------------------------------------------------------
(* One loop *)

\* What Single says of one service.
SingleAt(n, s) ==
  <<n, s>> \notin doubled =>
    /\ \A k \in Slots : loop[n][s][k] \in Lively => k = current[n][s] /\ checked[n][s] = {}
    /\ \A c, d \in checked[n][s] : c = d

\* A service that is not alive has no live loop.
LEMMA NotAlive ==
  ASSUME TypeOK, NEW n \in Nodes, NEW s \in Services, SingleAt(n, s), <<n, s>> \notin doubled,
         ~Alive(n, s), NEW k \in Slots
  PROVE  loop[n][s][k] \notin Lively
BY ServicesAssumption DEF TypeOK, SingleAt, Alive, Lively, LoopPcs

\* A start that passes its check, or finds a loop alive, keeps Single.
LEMMA BeginSingle ==
  ASSUME TypeOK, NEW n \in Nodes, NEW s \in Threaded, NEW caller \in Callers,
         Begin(n, s, caller), UNCHANGED <<loop, current>>,
         NEW m \in Nodes, NEW t \in Services, SingleAt(m, t)
  PROVE  SingleAt(m, t)'
<1>0. s \in Services
  BY DEF Services
<1>1. CASE m = n /\ t = s /\ ~Alive(n, s)
  <2>1. checked'[n][s] = checked[n][s] \cup {caller}
    BY <1>0, <1>1 DEF Begin, Pending, TypeOK
  <2>2. doubled' = doubled \cup {x \in {<<n, s>>} : checked[n][s] # {}}
    BY <1>1 DEF Begin
  <2>3. SUFFICES ASSUME <<n, s>> \notin doubled' PROVE SingleAt(n, s)'
    BY <1>1 DEF SingleAt
  <2>4. <<n, s>> \notin doubled /\ checked[n][s] = {}
    BY <2>2, <2>3
  <2>5. \A k \in Slots : loop'[n][s][k] \notin Lively
    BY <1>0, <1>1, <2>4, NotAlive
  <2> QED BY <2>1, <2>4, <2>5 DEF SingleAt
<1>2. CASE ~(m = n /\ t = s /\ ~Alive(n, s))
  <2>1. checked'[m][t] = checked[m][t] /\ doubled \subseteq doubled'
    BY <1>0, <1>2 DEF Begin, Pending, TypeOK
  <2> QED BY <2>1 DEF SingleAt
<1> QED BY <1>1, <1>2

\* A loop created where none is live is the only live one.
LEMMA CreateSingle ==
  ASSUME TypeOK, NEW n \in Nodes, NEW s \in Services, Create(n, s),
         NEW m \in Nodes, NEW t \in Services, SingleAt(m, t),
         \A k \in Slots : loop[n][s][k] \notin Lively \/ <<n, s>> \in doubled,
         \A c, d \in checked[n][s] : c = d \/ <<n, s>> \in doubled,
         \/ UNCHANGED checked /\ checked[n][s] = {}
         \/ \E c \in checked[n][s] : checked' = [checked EXCEPT ![n][s] = checked[n][s] \ {c}],
         UNCHANGED doubled
  PROVE  SingleAt(m, t)'
<1>1. PICK k \in Slots : /\ loop' = [loop EXCEPT ![n][s][k] = "wait"]
                         /\ current' = [current EXCEPT ![n][s] = k]
  <2>1. PICK k \in Slots :
           /\ loop[n][s][k] = "none"
           /\ loop' = [loop EXCEPT ![n][s][k] = "wait"]
           /\ current' = [current EXCEPT ![n][s] = k]
           /\ loop' \in [Nodes -> [Services -> [Slots -> LoopPcs]]]
           /\ current' \in [Nodes -> [Services -> Slots \cup {Nobody}]]
    BY CreateType
  <2> QED BY <2>1
<1>2. CASE m = n /\ t = s
  <2>1. SUFFICES ASSUME <<n, s>> \notin doubled PROVE SingleAt(n, s)'
    BY <1>2 DEF SingleAt
  <2>2. checked'[n][s] = {}
    <3>1. CASE UNCHANGED checked /\ checked[n][s] = {}
      BY <3>1
    <3>2. ASSUME NEW c \in checked[n][s], checked' = [checked EXCEPT ![n][s] = checked[n][s] \ {c}]
          PROVE  checked'[n][s] = {}
      <4>1. checked'[n][s] = checked[n][s] \ {c}
        BY <3>2 DEF TypeOK
      <4>2. \A d \in checked[n][s] : d = c
        BY <2>1
      <4> QED BY <4>1, <4>2
    <3> QED BY <3>1, <3>2
  <2>3. current'[n][s] = k
    BY <1>1 DEF TypeOK
  <2>4. \A j \in Slots : loop'[n][s][j] \in Lively => j = k
    BY <1>1, <2>1 DEF TypeOK
  <2> QED BY <2>2, <2>3, <2>4 DEF SingleAt
<1>3. CASE ~(m = n /\ t = s)
  <2>1. loop'[m][t] = loop[m][t] /\ current'[m][t] = current[m][t]
    BY <1>1, <1>3 DEF TypeOK
  <2>2. checked'[m][t] = checked[m][t]
    BY <1>3 DEF TypeOK
  <2> QED BY <2>1, <2>2 DEF SingleAt
<1> QED BY <1>2, <1>3

\* A loop that moves on does not come to life.
LEMMA MoveSingle ==
  ASSUME TypeOK, NEW n \in Nodes, NEW s \in Services, NEW k \in Slots, NEW w \in LoopPcs,
         SetLoop(n, s, k, w), w \in Lively => loop[n][s][k] \in Lively,
         UNCHANGED <<current, checked, doubled>>,
         NEW m \in Nodes, NEW t \in Services, SingleAt(m, t)
  PROVE  SingleAt(m, t)'
<1>1. \A j \in Slots : loop'[m][t][j] \in Lively => loop[m][t][j] \in Lively
  BY DEF SetLoop, TypeOK
<1> QED BY <1>1 DEF SingleAt

\* Every action keeps Single.
LEMMA SingleStep == ASSUME TypeOK, Phases, Single, [Next]_vars PROVE Single'
<1> SUFFICES ASSUME NEW m \in Nodes, NEW t \in Services PROVE SingleAt(m, t)'
  BY DEF Single, SingleAt
<1>0. SingleAt(m, t) /\ \A n \in Nodes, s \in Services : SingleAt(n, s)
  BY DEF Single, SingleAt
<1>1. CASE UNCHANGED <<loop, current, checked, doubled>>
  BY <1>0, <1>1 DEF SingleAt
<1>2. ASSUME NEW n \in Nodes, Exit(n) PROVE SingleAt(m, t)'
  <2>1. CASE m = n
    <3>1. \A k \in Slots : loop'[m][t][k] = "none"
      BY <1>2, <2>1 DEF Exit, NoLoops, TypeOK
    <3>2. checked'[m][t] = {}
      BY <1>2, <2>1 DEF Exit, NoStarts, TypeOK
    <3> QED BY <3>1, <3>2 DEF SingleAt, Lively
  <2>2. CASE m # n
    <3>1. loop'[m] = loop[m] /\ current'[m] = current[m] /\ checked'[m] = checked[m]
      BY <1>2, <2>2 DEF Exit, TypeOK
    <3>2. <<m, t>> \notin doubled' => <<m, t>> \notin doubled
      BY <1>2, <2>2 DEF Exit
    <3> QED BY <1>0, <3>1, <3>2 DEF SingleAt
  <2> QED BY <2>1, <2>2
<1>3. ASSUME NEW n \in Nodes, NEW s \in Threaded, StartThread(n, s) PROVE SingleAt(m, t)'
  BY <1>0, <1>3, BeginSingle DEF StartThread, Callers
<1>4. ASSUME NEW n \in Nodes, NEW s \in Threaded, NEW c \in Callers, Spawn(n, s, c)
      PROVE  SingleAt(m, t)'
  <2>1. Create(n, s) /\ c \in checked[n][s] /\ UNCHANGED doubled
    BY <1>4 DEF Spawn
  <2>2. checked' = [checked EXCEPT ![n][s] = checked[n][s] \ {c}]
    BY <1>4 DEF Spawn, Pending
  <2>3. s \in Services
    BY DEF Services
  <2>4. /\ \A k \in Slots : loop[n][s][k] \notin Lively \/ <<n, s>> \in doubled
        /\ \A b, d \in checked[n][s] : b = d \/ <<n, s>> \in doubled
    BY <1>0, <2>1, <2>3 DEF SingleAt
  <2> QED BY <1>0, <2>1, <2>2, <2>3, <2>4, CreateSingle
<1>5. ASSUME NEW n \in Nodes, StartResync(n) PROVE SingleAt(m, t)'
  <2>1. CASE UNCHANGED loop /\ UNCHANGED current
    BY <1>1, <1>5, <2>1 DEF StartResync
  <2>2. CASE ~Alive(n, Resync) /\ Create(n, Resync)
    <3>1. Resync \in Services
      BY DEF Services
    <3>2. checked[n][Resync] = {} /\ UNCHANGED <<checked, doubled>>
      BY <1>5 DEF StartResync, Phases
    <3>3. \A k \in Slots : loop[n][Resync][k] \notin Lively \/ <<n, Resync>> \in doubled
      BY <1>0, <2>2, <3>1, NotAlive
    <3> QED BY <1>0, <2>2, <3>1, <3>2, <3>3, CreateSingle
  <2> QED BY <1>5, <2>1, <2>2 DEF StartResync
<1>6. ASSUME NEW n \in Nodes, StopResync(n) PROVE SingleAt(m, t)'
  <2>1. CASE Alive(n, Resync)
    <3>1. current[n][Resync] \in Slots /\ Resync \in Services /\ "cancelled" \in LoopPcs \ Lively
      BY <2>1 DEF Alive, TypeOK, Services, LoopPcs, Lively
    <3>2. UNCHANGED <<current, checked, doubled>>
      BY <1>6 DEF StopResync
    <3>3. SetLoop(n, Resync, current[n][Resync], "cancelled")
      BY <1>6, <2>1 DEF StopResync
    <3> QED BY <1>0, <3>1, <3>2, <3>3, MoveSingle
  <2>2. CASE ~Alive(n, Resync)
    BY <1>1, <1>6, <2>2 DEF StopResync
  <2> QED BY <2>1, <2>2
<1>7. ASSUME NEW n \in Nodes, NEW s \in Manual, Call(n, s) PROVE SingleAt(m, t)'
  <2>1. UNCHANGED <<loop, current>> /\ s \in Threaded
    BY <1>7, ServicesAssumption DEF Call
  <2>2. CASE Begin(n, s, "operator")
    BY <1>0, <2>1, <2>2, BeginSingle DEF Callers
  <2>3. CASE UNCHANGED <<checked, doubled>>
    BY <1>1, <2>1, <2>3
  <2> QED BY <1>7, <2>2, <2>3 DEF Call
<1>8. ASSUME NEW n \in Nodes, NEW s \in Services, NEW k \in Slots, Loop(n, s, k)
      PROVE  SingleAt(m, t)'
  <2>1. UNCHANGED <<current, checked, doubled>>
    BY <1>8 DEF Loop, Wake, Cycle, End
  <2>2. \E w \in LoopPcs : SetLoop(n, s, k, w) /\ (w \in Lively => loop[n][s][k] \in Lively)
    BY <1>8 DEF Loop, Wake, Cycle, End, LoopPcs, Lively
  <2> QED BY <1>0, <2>1, <2>2, MoveSingle
<1>9. ASSUME NEW n \in Nodes, Election(n) PROVE SingleAt(m, t)'
  <2>1. CASE Connect(n) \/ Acquire(n) \/ Beat(n) \/ Fired(n) \/ \E s \in Threaded : StopThread(n, s)
    BY <1>1, <2>1 DEF Connect, Acquire, Beat, Fired, StopThread, services
  <2> QED BY <1>9, <2>1, <1>3, <1>4, <1>5, <1>6 DEF Election, Callers
<1>10. ASSUME NEW n \in Nodes, NEW s \in Manual, Spawn(n, s, "operator") PROVE SingleAt(m, t)'
  BY <1>10, <1>4, ServicesAssumption DEF Callers
<1>11. ASSUME NEW n \in Nodes, Boot(n) \/ Serve(n) \/ Expire(n) \/ BeatFails(n)
       PROVE  SingleAt(m, t)'
  BY <1>1, <1>11 DEF Boot, Serve, Expire, BeatFails, services
<1>12. CASE UNCHANGED vars
  BY <1>1, <1>12 DEF vars, services
<1> QED BY <1>2, <1>7, <1>8, <1>9, <1>10, <1>11, <1>12 DEF Next

-----------------------------------------------------------------------------
(* Serving leaders *)

\* What does not touch a service leaves it served.
LEMMA ServedSame ==
  ASSUME NEW m \in Nodes, NEW t \in Services, Served(m, t),
         t \in todo[m] => t \in todo'[m], <<m, t>> \in missed => <<m, t>> \in missed',
         checked'[m][t] = checked[m][t], t \in stop'[m] => t \in stop[m],
         loop'[m][t] = loop[m][t], current'[m][t] = current[m][t]
  PROVE  Served(m, t)'
BY DEF Served, Runs, Alive

\* A service with a new loop and no stop event set is served.
LEMMA ServedNew ==
  ASSUME TypeOK, NEW n \in Nodes, NEW s \in Services, Create(n, s), s \notin stop'[n]
  PROVE  Served(n, s)'
<1>1. PICK k \in Slots :
         /\ loop[n][s][k] = "none"
         /\ loop' = [loop EXCEPT ![n][s][k] = "wait"]
         /\ current' = [current EXCEPT ![n][s] = k]
         /\ loop' \in [Nodes -> [Services -> [Slots -> LoopPcs]]]
         /\ current' \in [Nodes -> [Services -> Slots \cup {Nobody}]]
  BY CreateType
<1>2. current'[n][s] = k /\ loop'[n][s][k] = "wait" /\ k # Nobody
  BY <1>1, ServicesAssumption DEF TypeOK
<1>3. Alive(n, s)' /\ loop'[n][s][current'[n][s]] # "ending"
  BY <1>2 DEF Alive
<1> QED BY <1>3 DEF Served, Runs

\* A start leaves every service served that was.
LEMMA BeginServed ==
  ASSUME TypeOK, NEW n \in Nodes, NEW s \in Threaded, NEW caller \in Callers,
         Begin(n, s, caller), UNCHANGED <<loop, current>>,
         NEW m \in Nodes, NEW t \in Services, Served(m, t),
         t \in todo[m] => t \in todo'[m] \/ (caller = "election" /\ m = n /\ t = s)
  PROVE  Served(m, t)'
<1>0. s \in Services
  BY DEF Services
<1>1. CASE Alive(n, s)
  <2>1. UNCHANGED <<stop, checked, loop, current>>
    BY <1>1 DEF Begin
  <2>2. missed' = missed \cup {x \in {<<n, s>>} : caller = "election" /\ ~Runs(n, s)}
    BY <1>1 DEF Begin
  <2>3. CASE caller = "election" /\ m = n /\ t = s
    <3>1. CASE Runs(n, s)
      BY <2>1, <2>3, <3>1 DEF Served, Runs, Alive
    <3>2. CASE ~Runs(n, s)
      <4>1. <<m, t>> \in missed'
        BY <2>2, <2>3, <3>2
      <4> QED BY <4>1 DEF Served
    <3> QED BY <3>1, <3>2
  <2>4. CASE ~(caller = "election" /\ m = n /\ t = s)
    <3>1. <<m, t>> \in missed => <<m, t>> \in missed'
      BY <2>2
    <3> QED BY <2>1, <2>4, <3>1, ServedSame
  <2> QED BY <2>3, <2>4
<1>2. CASE ~Alive(n, s)
  <2>1. stop' = [stop EXCEPT ![n] = @ \ {s}]
    BY <1>2 DEF Begin
  <2>2. checked' = [checked EXCEPT ![n][s] = checked[n][s] \cup {caller}]
    BY <1>2 DEF Begin, Pending
  <2>3. missed' = missed \ {x \in {<<n, s>>} : caller = "election"}
    BY <1>2 DEF Begin
  <2>4. s \notin stop'[n] /\ \A x \in Threaded : x \in stop'[m] => x \in stop[m]
    BY <2>1 DEF TypeOK
  <2>5. checked'[n][s] = checked[n][s] \cup {caller}
    BY <1>0, <2>2 DEF TypeOK
  <2>6. CASE m = n /\ t = s
    <3>1. CASE caller = "election"
      BY <2>4, <2>5, <2>6, <3>1 DEF Served
    <3>2. CASE caller # "election"
      <4>1. missed' = missed
        BY <2>3, <3>2
      <4>2. ~Runs(n, s)
        BY <1>2 DEF Runs
      <4> QED BY <2>4, <2>5, <2>6, <3>2, <4>1, <4>2 DEF Served
    <3> QED BY <3>1, <3>2
  <2>7. CASE ~(m = n /\ t = s)
    <3>1. checked'[m][t] = checked[m][t]
      BY <2>2, <2>7 DEF TypeOK
    <3>2. <<m, t>> \in missed => <<m, t>> \in missed'
      BY <2>3, <2>7
    <3>3. t \in stop'[m] => t \in stop[m]
      BY <2>1 DEF TypeOK
    <3> QED BY <2>7, <3>1, <3>2, <3>3, ServedSame
  <2> QED BY <2>6, <2>7
<1> QED BY <1>1, <1>2

\* The thread of a start in progress serves.
LEMMA SpawnServed ==
  ASSUME TypeOK, NEW n \in Nodes, NEW s \in Threaded, NEW c \in Callers, Spawn(n, s, c),
         NEW m \in Nodes, NEW t \in Services, Served(m, t)
  PROVE  Served(m, t)'
<1>1. Create(n, s) /\ UNCHANGED <<todo, stop, missed>>
  BY DEF Spawn, election
<1>2. checked' = [checked EXCEPT ![n][s] = checked[n][s] \ {c}]
  BY DEF Spawn, Pending
<1>3. s \in Services
  BY DEF Services
<1>4. CASE m = n /\ t = s
  <2>1. CASE s \notin stop[n]
    <3>1. s \notin stop'[n]
      BY <1>1, <2>1
    <3> QED BY <1>1, <1>3, <1>4, <3>1, ServedNew
  <2>2. CASE s \in stop[n]
    BY <1>1, <1>4, <2>2 DEF Served, Runs
  <2> QED BY <2>1, <2>2
<1>5. CASE ~(m = n /\ t = s)
  <2>1. PICK k \in Slots :
           /\ loop[n][s][k] = "none"
           /\ loop' = [loop EXCEPT ![n][s][k] = "wait"]
           /\ current' = [current EXCEPT ![n][s] = k]
           /\ loop' \in [Nodes -> [Services -> [Slots -> LoopPcs]]]
           /\ current' \in [Nodes -> [Services -> Slots \cup {Nobody}]]
    BY <1>1, <1>3, CreateType
  <2>2. loop'[m][t] = loop[m][t] /\ current'[m][t] = current[m][t]
    BY <1>5, <2>1 DEF TypeOK
  <2>3. checked'[m][t] = checked[m][t]
    BY <1>2, <1>5 DEF TypeOK
  <2> QED BY <1>1, <2>2, <2>3, ServedSame
<1> QED BY <1>4, <1>5

\* The resync's start leaves every service served that was, and its own.
LEMMA StartResyncServed ==
  ASSUME TypeOK, NEW n \in Nodes, StartResync(n),
         NEW m \in Nodes, NEW t \in Services, Served(m, t)
  PROVE  Served(m, t)'
<1>0. Resync \in Services
  BY DEF Services
<1>1. todo' = [todo EXCEPT ![n] = @ \ {Resync}] /\ UNCHANGED <<stop, checked>>
  BY DEF StartResync
<1>2. CASE m = n /\ t = Resync
  <2>1. CASE Alive(n, Resync)
    <3>1. missed' = missed \cup {x \in {<<n, Resync>>} : ~Runs(n, Resync)}
      BY <2>1 DEF StartResync
    <3>2. UNCHANGED <<loop, current>>
      BY <2>1 DEF StartResync
    <3>3. CASE Runs(n, Resync)
      BY <1>1, <1>2, <3>2, <3>3 DEF Served, Runs, Alive
    <3>4. CASE ~Runs(n, Resync)
      <4>1. <<n, Resync>> \in missed'
        BY <3>1, <3>4
      <4> QED BY <1>2, <4>1 DEF Served
    <3> QED BY <3>3, <3>4
  <2>2. CASE Create(n, Resync)
    <3>1. Resync \notin stop'[n]
      BY <1>1, ServicesAssumption DEF TypeOK
    <3> QED BY <1>0, <1>2, <2>2, <3>1, ServedNew
  <2>3. CASE ~Alive(n, Resync) /\ ~Create(n, Resync)
    <3>1. <<n, Resync>> \in missed'
      BY <2>3 DEF StartResync
    <3> QED BY <1>2, <3>1 DEF Served
  <2> QED BY <2>1, <2>2, <2>3
<1>3. CASE ~(m = n /\ t = Resync)
  <2>1. t \in todo[m] => t \in todo'[m]
    BY <1>1, <1>3 DEF TypeOK
  <2>2. <<m, t>> \in missed => <<m, t>> \in missed'
    BY <1>3 DEF StartResync
  <2>3. loop'[m][t] = loop[m][t] /\ current'[m][t] = current[m][t]
    <3>1. CASE UNCHANGED <<loop, current>>
      BY <3>1
    <3>2. CASE Create(n, Resync)
      <4>1. PICK k \in Slots :
               /\ loop[n][Resync][k] = "none"
               /\ loop' = [loop EXCEPT ![n][Resync][k] = "wait"]
               /\ current' = [current EXCEPT ![n][Resync] = k]
               /\ loop' \in [Nodes -> [Services -> [Slots -> LoopPcs]]]
               /\ current' \in [Nodes -> [Services -> Slots \cup {Nobody}]]
        BY <1>0, <3>2, CreateType
      <4> QED BY <1>3, <4>1 DEF TypeOK
    <3> QED BY <3>1, <3>2 DEF StartResync
  <2> QED BY <1>1, <2>1, <2>2, <2>3, ServedSame
<1> QED BY <1>2, <1>3

\* The loop of a leader goes on.
LEMMA LoopServed ==
  ASSUME TypeOK, NEW n \in Nodes, NEW s \in Services, NEW k \in Slots, Loop(n, s, k),
         NEW m \in leaders, NEW t \in Services, Served(m, t)
  PROVE  Served(m, t)'
<1>0. m \in Nodes
  BY DEF TypeOK
<1>1. UNCHANGED <<todo, stop, current, checked, missed>>
  BY DEF Loop, Wake, Cycle, End, election
<1>2. PICK w \in LoopPcs : loop' = [loop EXCEPT ![n][s][k] = w]
  BY DEF Loop, Wake, Cycle, End, SetLoop, LoopPcs
<1>3. CASE m = n /\ t = s /\ Runs(n, s) /\ k = current[n][s]
  <2>1. loop'[n][s][k] \in {"wait", "cycle"}
    <3>1. loop[n][s][k] \in {"wait", "cycle"} /\ s \notin stop[n] /\ n \in leaders
      BY <1>3 DEF Runs, Alive, TypeOK, LoopPcs
    <3> QED BY <3>1 DEF Loop, Wake, Cycle, End, SetLoop, TypeOK
  <2> QED BY <1>1, <1>3, <2>1 DEF Served, Runs, Alive
<1>4. CASE m = n /\ t = s /\ Runs(n, s) /\ k # current[n][s]
  <2>1. loop'[n][s][current[n][s]] = loop[n][s][current[n][s]]
    BY <1>2, <1>4 DEF TypeOK, Runs, Alive
  <2> QED BY <1>1, <1>4, <2>1 DEF Served, Runs, Alive
<1>5. CASE m = n /\ t = s /\ ~Runs(n, s)
  BY <1>1, <1>5 DEF Served
<1>6. CASE ~(m = n /\ t = s)
  <2>1. loop'[m][t] = loop[m][t]
    BY <1>0, <1>2, <1>6 DEF TypeOK
  <2> QED BY <1>0, <1>1, <2>1, ServedSame
<1> QED BY <1>3, <1>4, <1>5, <1>6

\* Every action leaves the services of leaders served.
LEMMA ServedStep ==
  ASSUME TypeOK, Phases, ServedAll, [Next]_vars PROVE ServedAll'
<1> SUFFICES ASSUME NEW m \in leaders' \cap Hosts, NEW t \in Services PROVE Served(m, t)'
  BY DEF ServedAll
<1>0. m \in Nodes /\ m \in Hosts /\ (m \in leaders => Served(m, t))
  BY ServicesAssumption DEF ServedAll
<1>1. CASE m \in leaders /\ UNCHANGED <<todo, stop, loop, current, checked, missed>>
  BY <1>0, <1>1, ServedSame
<1>2. ASSUME NEW n \in Nodes, Exit(n) PROVE Served(m, t)'
  <2>1. m # n /\ m \in leaders
    BY <1>2 DEF Exit
  <2>2. /\ loop'[m] = loop[m] /\ current'[m] = current[m] /\ checked'[m] = checked[m]
        /\ todo'[m] = todo[m] /\ stop'[m] = stop[m]
    BY <1>0, <1>2, <2>1 DEF Exit, TypeOK
  <2>3. <<m, t>> \in missed => <<m, t>> \in missed'
    BY <1>2, <2>1 DEF Exit
  <2> QED BY <1>0, <2>1, <2>2, <2>3, ServedSame
<1>3. ASSUME NEW n \in Nodes, Connect(n) \/ Acquire(n) PROVE Served(m, t)'
  <2>1. UNCHANGED <<stop, loop, current, checked, missed>>
    BY <1>3 DEF Connect, Acquire, services
  <2>2. CASE m \in leaders /\ UNCHANGED todo
    BY <1>1, <2>1, <2>2
  <2>3. CASE todo' = [todo EXCEPT ![n] = Callbacks(n)] /\ leaders' = leaders \cup {n}
    <3>1. CASE m = n
      BY <1>0, <2>3, <3>1 DEF Served, Callbacks, TypeOK
    <3>2. CASE m # n
      <4>1. m \in leaders /\ todo'[m] = todo[m]
        BY <1>0, <2>3, <3>2 DEF TypeOK
      <4> QED BY <1>0, <2>1, <4>1, ServedSame
    <3> QED BY <3>1, <3>2
  <2> QED BY <1>3, <2>2, <2>3 DEF Connect, Acquire
<1>4. ASSUME NEW n \in Nodes, BeatFails(n) PROVE Served(m, t)'
  <2>1. m \in leaders /\ m # n /\ UNCHANGED <<stop, loop, current, checked, missed>>
    BY <1>4 DEF BeatFails, services
  <2>2. todo'[m] = todo[m]
    BY <1>0, <1>4, <2>1 DEF BeatFails, TypeOK
  <2> QED BY <1>0, <2>1, <2>2, ServedSame
<1>5. ASSUME NEW n \in Nodes, NEW s \in Threaded, StartThread(n, s) PROVE Served(m, t)'
  <2>1. m \in leaders /\ UNCHANGED <<loop, current>> /\ Begin(n, s, "election")
    BY <1>5 DEF StartThread
  <2>2. t \in todo[m] => t \in todo'[m] \/ (m = n /\ t = s)
    BY <1>0, <1>5 DEF StartThread, TypeOK
  <2> QED BY <1>0, <2>1, <2>2, BeginServed DEF Callers
<1>6. ASSUME NEW n \in Nodes, NEW s \in Threaded, NEW c \in Callers, Spawn(n, s, c)
      PROVE  Served(m, t)'
  <2>1. m \in leaders
    BY <1>6 DEF Spawn, election
  <2> QED BY <1>0, <1>6, <2>1, SpawnServed
<1>7. ASSUME NEW n \in Nodes, StartResync(n) PROVE Served(m, t)'
  <2>1. m \in leaders
    BY <1>7 DEF StartResync
  <2> QED BY <1>0, <1>7, <2>1, StartResyncServed
<1>8. ASSUME NEW n \in Nodes, NEW s \in Threaded, StopThread(n, s) PROVE Served(m, t)'
  <2>1. m \in leaders /\ m # n
    BY <1>0, <1>8 DEF StopThread, Phases
  <2>2. /\ UNCHANGED <<loop, current, checked, missed>>
        /\ todo' = [todo EXCEPT ![n] = @ \ {s}] /\ stop' = [stop EXCEPT ![n] = @ \cup {s}]
    BY <1>8 DEF StopThread
  <2>3. todo'[m] = todo[m] /\ stop'[m] = stop[m]
    BY <1>0, <2>1, <2>2 DEF TypeOK
  <2> QED BY <1>0, <2>1, <2>2, <2>3, ServedSame
<1>9. ASSUME NEW n \in Nodes, StopResync(n) PROVE Served(m, t)'
  <2>1. m \in leaders /\ m # n
    BY <1>0, <1>9 DEF StopResync, Phases
  <2>2. UNCHANGED <<stop, current, checked, missed>> /\ todo' = [todo EXCEPT ![n] = @ \ {Resync}]
    BY <1>9 DEF StopResync
  <2>3. todo'[m] = todo[m] /\ loop'[m] = loop[m]
    BY <1>0, <1>9, <2>1, <2>2 DEF StopResync, SetLoop, TypeOK
  <2> QED BY <1>0, <2>1, <2>2, <2>3, ServedSame
<1>10. ASSUME NEW n \in Nodes, NEW s \in Manual, Call(n, s) PROVE Served(m, t)'
  <2>1. /\ m \in leaders /\ s \in Threaded
        /\ UNCHANGED <<todo, loop, current>>
    BY <1>10, ServicesAssumption DEF Call, election
  <2>2. CASE Begin(n, s, "operator")
    BY <1>0, <2>1, <2>2, BeginServed DEF Callers
  <2>3. CASE ~Begin(n, s, "operator")
    <3>1. /\ stop' = [stop EXCEPT ![n] = @ \cup {s}] /\ missed' = missed \cup {<<n, s>>}
          /\ UNCHANGED checked
      BY <1>10, <2>3 DEF Call
    <3>2. CASE m = n /\ t = s
      BY <3>1, <3>2 DEF Served
    <3>3. CASE ~(m = n /\ t = s)
      <4>1. t \in stop'[m] => t \in stop[m]
        BY <1>0, <3>1, <3>3 DEF TypeOK
      <4>2. <<m, t>> \in missed => <<m, t>> \in missed'
        BY <3>1
      <4> QED BY <1>0, <2>1, <3>1, <4>1, <4>2, ServedSame
    <3> QED BY <3>2, <3>3
  <2> QED BY <2>2, <2>3
<1>11. ASSUME NEW n \in Nodes, NEW s \in Services, NEW k \in Slots, Loop(n, s, k)
       PROVE  Served(m, t)'
  <2>1. m \in leaders
    BY <1>11 DEF Loop, Wake, Cycle, End, election
  <2> QED BY <1>0, <1>11, <2>1, LoopServed
<1>12. ASSUME NEW n \in Nodes, Election(n) PROVE Served(m, t)'
  <2>1. CASE Beat(n) \/ Fired(n)
    BY <1>1, <2>1 DEF Beat, Fired, services
  <2> QED BY <1>12, <2>1, <1>3, <1>5, <1>6, <1>7, <1>8, <1>9 DEF Election, Callers
<1>13. ASSUME NEW n \in Nodes, NEW s \in Manual, Spawn(n, s, "operator") PROVE Served(m, t)'
  BY <1>13, <1>6, ServicesAssumption DEF Callers
<1>14. ASSUME NEW n \in Nodes, Boot(n) \/ Serve(n) \/ Expire(n) PROVE Served(m, t)'
  BY <1>1, <1>14 DEF Boot, Serve, Expire, services, election
<1>15. CASE UNCHANGED vars
  BY <1>1, <1>15 DEF vars, services, election
<1> QED BY <1>2, <1>4, <1>10, <1>11, <1>12, <1>13, <1>14, <1>15 DEF Next

-----------------------------------------------------------------------------
(* The theorems *)

LEMMA InitInv == Init => IInv
<1> SUFFICES ASSUME Init PROVE IInv
  OBVIOUS
<1>1. NoLoops \in [Services -> [Slots -> LoopPcs]]
  BY DEF NoLoops, LoopPcs
<1>2. NoCurrent \in [Services -> Slots \cup {Nobody}] /\ NoStarts \in [Services -> SUBSET Callers]
  BY DEF NoCurrent, NoStarts
<1>3. TypeOK
  BY <1>1, <1>2 DEF Init, TypeOK, ElectionPcs
<1>4. LeaderHolds /\ ServedAll
  BY DEF Init, LeaderHolds, ServedAll
<1>5. \A n \in Nodes, s \in Services : checked[n][s] = {} /\ \A k \in Slots : loop[n][s][k] = "none"
  BY DEF Init, NoStarts, NoLoops
<1>6. Single
  BY <1>5 DEF Single, Lively
<1>7. Phases
  BY <1>5 DEF Init, Phases, Services
<1> QED BY <1>3, <1>4, <1>6, <1>7 DEF IInv

\* The inductive invariant holds in every state.
THEOREM Induction == Spec => []IInv
<1>1. IInv /\ [Next]_vars => IInv'
  BY TypeStep, HoldsStep, PhasesStep, SingleStep, ServedStep DEF IInv
<1> QED BY InitInv, <1>1, PTL DEF Spec

\* Every variable keeps its type (TypeOK), whatever the nodes, services and bounds.
THEOREM TypeCorrect == Spec => []TypeOK
<1>1. IInv => TypeOK
  BY DEF IInv
<1> QED BY Induction, <1>1, PTL

\* A node that believes it leads holds the lock, but for standalone nodes and
\* those whose lock was dropped (LeaderHolds).
THEOREM LeadershipIsHeld == Spec => []LeaderHolds
<1>1. IInv => LeaderHolds
  BY DEF IInv
<1> QED BY Induction, <1>1, PTL

\* A change of leadership never doubles a loop (OneLoop).
THEOREM LoopsAreSingle == Spec => []OneLoop
<1>1. IInv => OneLoop
  <2> SUFFICES ASSUME IInv, NEW n \in Nodes, NEW s \in Services, <<n, s>> \notin doubled,
                      NEW j \in Slots, NEW k \in Slots,
                      loop[n][s][j] \notin {"none", "cancelled"},
                      loop[n][s][k] \notin {"none", "cancelled"}
               PROVE  j = k
    BY DEF OneLoop
  <2>1. loop[n][s][j] \in Lively /\ loop[n][s][k] \in Lively
    BY DEF IInv, TypeOK, LoopPcs, Lively
  <2> QED BY <2>1 DEF IInv, Single
<1> QED BY Induction, <1>1, PTL

\* Each service of a leader at rest has a loop that will go on, or a start or stop
\* that is on record kept it from having one (LeaderServes).
THEOREM LeadersServe == Spec => []LeaderServes
<1>1. IInv => LeaderServes
  <2> SUFFICES ASSUME IInv, NEW n \in leaders \cap Hosts, epc[n] \in {"beat", "over"},
                      NEW s \in Services
               PROVE  Runs(n, s) \/ <<n, s>> \in missed
    BY DEF LeaderServes
  <2>1. n \in Nodes /\ Served(n, s)
    BY ServicesAssumption DEF IInv, ServedAll
  <2>2. s \notin todo[n] /\ "election" \notin checked[n][s]
    BY <2>1 DEF IInv, Phases
  <2> QED BY <2>1, <2>2 DEF Served
<1> QED BY Induction, <1>1, PTL
=============================================================================
