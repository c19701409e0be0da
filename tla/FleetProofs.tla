----------------------------- MODULE FleetProofs -----------------------------
(***************************************************************************)
(* Proofs about the whole deployment, for any number of containers,        *)
(* proxies and listeners, any number of restarts of the manager and any    *)
(* retries: no browser ever serves two clients.                            *)
(***************************************************************************)
EXTENDS BrowserProxy, InstanceManagerProofs

\* The registration of i is behind it: its identifier is not registered again.
Enrolled(i) == proc[i] \in {"running", "exited"} /\ step[i] = "idle"

\* A process registers itself, once, and beats only after that.
LifeOK(i) ==
    /\ proc[i] = "starting" => step[i] = "idle" /\ i \notin registered
    /\ proc[i] = "running" => step[i] = "idle"
    /\ step[i] # "idle" => adding[i] = AddRequest(i)
    /\ type[i] = "ChromeBrowser" => i \in Browsers
    /\ health[i] # None => Enrolled(i)
Lives == \A i \in Ids : LifeOK(i)

\* What a step leaves of a claim: an entry that stays was there, with its parent.
Held(i) == i \in registered' => i \in registered /\ (parent[i] # None => parent'[i] = parent[i])
Steady == \A i \in Ids : Enrolled(i) => Enrolled(i)' /\ Held(i)

----------------------------------------------------------------------------
(* The requests of the processes.                                          *)

LEMMA RequestTypes ==
    ASSUME NEW i \in Ids
    PROVE  /\ AddRequest(i) \in Request /\ AddRequest(i).id = i
           /\ BeatRequest(i) \in Request /\ BeatRequest(i).id = i
           /\ KillRequest(i) \in Request /\ KillRequest(i).beat = FALSE
           /\ TypeOf(i) \in InstanceTypes
<1>1. "Killed" \in KillReasons
  BY DEF KillReasons
<1>2. QED
  BY <1>1 DEF AddRequest, BeatRequest, KillRequest, BlankRequest, Request, TypeOf, InstanceTypes

LEMMA ClaimTypes ==
    ASSUME NEW l \in Listeners, chosen[l] \in Browsers
    PROVE  /\ ClaimRequest(l) \in Request /\ ClaimRequest(l).id = chosen[l]
           /\ ClaimRequest(l).parent = ProxyOf(l) /\ ProxyOf(l) \in Proxies
           /\ ClaimRequest(l).children = {} /\ ClaimRequest(l).beat = FALSE
BY ProcessAssumption DEF ClaimRequest, BlankRequest, Request, Listeners, ProxyOf

LEMMA TryAddTypes ==
    ASSUME TypeOK, NEW h \in Handlers, NEW ty \in InstanceTypes, NEW r \in Request,
           TryAddInstance(h, ty, r)
    PROVE  TypeOK'
<1>1. r.id \in Ids
  BY DEF Request
<1>2. QED
  BY <1>1, TimesAssumption DEF TryAddInstance, killLoop, TypeOK, OptionalTime, Times

LEMMA UpdateTypes ==
    ASSUME TypeOK, NEW r \in Request, TryUpdateInstanceDescription(r)
    PROVE  TypeOK'
BY ApplyTypes DEF TryUpdateInstanceDescription, handlers, killLoop, TypeOK, OptionalTime, Times

----------------------------------------------------------------------------
(* What becomes of the processes and their entries.                        *)

\* An update of the table: nothing is registered, no claim is taken back, and only
\* whoever beats has a heartbeat.
LEMMA ApplyKeeps ==
    ASSUME TypeOK, Lives, NEW r \in Request, Apply(r), r.beat => Enrolled(r.id),
           UNCHANGED <<step, adding, proc>>
    PROVE  Lives' /\ Steady
<1>1. registered' = registered /\ type' = type
  BY ApplyTypes
<1>2. ASSUME NEW i \in Ids, parent[i] # None PROVE parent'[i] = parent[i]
  BY <1>2, ApplyClaims
<1>3. ASSUME NEW i \in Ids, health'[i] # None PROVE Enrolled(i)
  <2>1. health' = IF r.beat THEN [health EXCEPT ![r.id] = now] ELSE health
    BY DEF Apply, HealthAfter
  <2>2. health'[i] = health[i] \/ (i = r.id /\ r.beat)
    BY <2>1 DEF TypeOK
  <2>3. QED
    BY <1>3, <2>2 DEF Lives, LifeOK
<1>4. Steady
  BY <1>1, <1>2 DEF Steady, Held, Enrolled
<1>5. Lives'
  BY <1>1, <1>3 DEF Lives, LifeOK, Enrolled, AddRequest, BlankRequest
<1>6. QED
  BY <1>4, <1>5

\* The manager does nothing; at most one process ends.
LEMMA EndKeeps ==
    ASSUME Lives, proc \in [Ids -> {"starting", "adding", "running", "exited"}],
           UNCHANGED <<entries, handlers>>,
           proc' = proc \/ \E i \in Ids : proc' = [proc EXCEPT ![i] = "exited"]
    PROVE  Lives' /\ Steady
<1>1. UNCHANGED <<registered, type, health, parent, step, adding>>
  BY DEF entries, handlers
<1>2. \A j \in Ids : proc'[j] = proc[j] \/ proc'[j] = "exited"
  OBVIOUS
<1>3. \A j \in Ids : Enrolled(j) => Enrolled(j)'
  BY <1>1, <1>2 DEF Enrolled
<1>4. Steady
  BY <1>1, <1>3 DEF Steady, Held
<1>5. Lives'
  <2> SUFFICES ASSUME NEW j \in Ids PROVE LifeOK(j)'
    BY DEF Lives
  <2>1. LifeOK(j) /\ (Enrolled(j) => Enrolled(j)')
    BY <1>3 DEF Lives
  <2>2. QED
    BY <1>1, <1>2, <2>1 DEF LifeOK, AddRequest, BlankRequest
<1>6. QED
  BY <1>4, <1>5

LEMMA LaunchKeeps ==
    ASSUME ProcessesTypeOK, Lives, NEW i \in Ids, Launch(i)
    PROVE  ProcessesTypeOK' /\ Lives' /\ Steady
<1>1. /\ proc[i] = "starting" /\ proc' = [proc EXCEPT ![i] = "adding"]
      /\ TryAddInstance(i, TypeOf(i), AddRequest(i))
      /\ UNCHANGED <<retries, cancelled, restarts>>
  BY DEF Launch
<1>2. i \in Handlers
  BY ProcessAssumption
<1>3. ProcessesTypeOK'
  BY <1>1, <1>2, RequestTypes, TryAddTypes DEF ProcessesTypeOK
<1>4. /\ registered' = registered \cup {i} /\ type' = [type EXCEPT ![i] = TypeOf(i)]
      /\ step' = [step EXCEPT ![i] = "inserted"]
      /\ adding' = [adding EXCEPT ![i] = AddRequest(i)]
      /\ health' = health /\ parent' = parent
  BY <1>1, RequestTypes DEF TryAddInstance
<1>5. ~ Enrolled(i) /\ health[i] = None
  BY <1>1 DEF Enrolled, Lives, LifeOK
<1>6. Steady
  BY <1>1, <1>4, <1>5 DEF Steady, Held, Enrolled, ProcessesTypeOK, TypeOK
<1>7. ASSUME NEW j \in Ids PROVE LifeOK(j)'
  <2>1. CASE j = i
    <3>1. proc'[i] = "adding" /\ step'[i] = "inserted" /\ type'[i] = TypeOf(i)
          /\ adding'[i] = AddRequest(i) /\ health'[i] = None
      BY <1>1, <1>2, <1>4, <1>5 DEF ProcessesTypeOK, TypeOK
    <3>2. AddRequest(i)' = AddRequest(i)
      BY DEF AddRequest, BlankRequest
    <3>3. TypeOf(i) = "ChromeBrowser" => i \in Browsers
      BY DEF TypeOf
    <3>4. QED
      BY <2>1, <3>1, <3>2, <3>3 DEF LifeOK
  <2>2. CASE j # i
    <3>1. /\ proc'[j] = proc[j] /\ step'[j] = step[j] /\ type'[j] = type[j]
          /\ adding'[j] = adding[j] /\ health'[j] = health[j]
          /\ (j \in registered' <=> j \in registered)
      BY <1>1, <1>2, <1>4, <2>2, ProcessAssumption DEF ProcessesTypeOK, TypeOK
    <3>2. LifeOK(j)
      BY DEF Lives
    <3>3. QED
      BY <3>1, <3>2 DEF LifeOK, Enrolled, AddRequest, BlankRequest
  <2>3. QED
    BY <2>1, <2>2
<1>8. QED
  BY <1>3, <1>6, <1>7 DEF Lives

\* The end of a process.
LEMMA OverTypes ==
    ASSUME ProcessesTypeOK, NEW i \in Ids, Over(i)
    PROVE  /\ proc' \in [Ids -> {"starting", "adding", "running", "exited"}]
           /\ retries' \in [Ids -> 0 .. MaxRetries \cup {None}]
           /\ proc' = [proc EXCEPT ![i] = "exited"]
BY DEF Over, ProcessesTypeOK

LEMMA HandlerStep ==
    ASSUME TypeOK, NEW i \in Ids, CommitAdd(i) \/ RejectAdd(i) \/ RollBack(i) \/ DropAdd(i)
    PROVE  TypeOK'
BY TypeStep, ProcessAssumption DEF Next

LEMMA AcceptedKeeps ==
    ASSUME ProcessesTypeOK, Lives, NEW i \in Ids, AddAccepted(i)
    PROVE  ProcessesTypeOK' /\ Lives' /\ Steady
<1>1. /\ step[i] = "inserted" /\ Apply(AddRequest(i)) /\ Finish(i)
      /\ UNCHANGED <<cancelled, restarts>>
  BY DEF AddAccepted, CommitAdd, Lives, LifeOK
<1>2. /\ proc' = [proc EXCEPT ![i] = "running"] \/ proc' = [proc EXCEPT ![i] = "exited"]
      /\ proc' \in [Ids -> {"starting", "adding", "running", "exited"}]
      /\ retries' \in [Ids -> 0 .. MaxRetries \cup {None}]
  BY OverTypes, ProcessAssumption DEF AddAccepted, Over, ProcessesTypeOK
<1>3. ProcessesTypeOK'
  <2>1. TypeOK'
    BY HandlerStep DEF AddAccepted, ProcessesTypeOK
  <2>2. QED
    BY <1>1, <1>2, <2>1 DEF ProcessesTypeOK
<1>4. /\ registered' = registered /\ type' = type /\ health' = health
      /\ \A j \in Ids : parent[j] # None => parent'[j] = parent[j]
  <2>1. AddRequest(i) \in Request /\ TypeOK /\ AddRequest(i).beat = FALSE
    BY RequestTypes DEF ProcessesTypeOK, AddRequest, BlankRequest
  <2>2. health' = health
    BY <1>1, <2>1 DEF Apply, HealthAfter
  <2>3. QED
    BY <1>1, <2>1, <2>2, ApplyTypes, ApplyClaims
<1>5. /\ step' = [step EXCEPT ![i] = "idle"]
      /\ adding' = [adding EXCEPT ![i] = None]
  BY <1>1 DEF Finish
<1>6. Steady
  BY <1>1, <1>2, <1>4, <1>5, ProcessAssumption DEF Steady, Held, Enrolled, ProcessesTypeOK, TypeOK
<1>7. ASSUME NEW j \in Ids PROVE LifeOK(j)'
  <2>1. LifeOK(j)
    BY DEF Lives
  <2>2. CASE j = i
    <3>1. proc'[i] \in {"running", "exited"} /\ step'[i] = "idle"
      BY <1>2, <1>5, ProcessAssumption DEF ProcessesTypeOK, TypeOK
    <3>2. QED
      BY <1>4, <2>1, <2>2, <3>1 DEF LifeOK, Enrolled
  <2>3. CASE j # i
    <3>1. proc'[j] = proc[j] /\ step'[j] = step[j] /\ adding'[j] = adding[j]
      BY <1>2, <1>5, <2>3, ProcessAssumption DEF ProcessesTypeOK, TypeOK
    <3>2. QED
      BY <1>4, <2>1, <3>1 DEF LifeOK, Enrolled
  <2>4. QED
    BY <2>2, <2>3
<1>8. QED
  BY <1>3, <1>6, <1>7 DEF Lives

LEMMA RejectedKeeps ==
    ASSUME ProcessesTypeOK, Lives, NEW i \in Ids, AddRejected(i)
    PROVE  ProcessesTypeOK' /\ Lives' /\ Steady
<1>1. /\ step[i] = "inserted" /\ step' = [step EXCEPT ![i] = "rejected"]
      /\ UNCHANGED <<adding, registered, type, health, parent, proc, retries, cancelled, restarts>>
  BY DEF AddRejected, RejectAdd, entries, local
<1>2. ProcessesTypeOK'
  BY <1>1, HandlerStep DEF AddRejected, ProcessesTypeOK
<1>3. ~ Enrolled(i)
  BY <1>1 DEF Enrolled
<1>4. \A j \in Ids : j # i => step'[j] = step[j]
  BY <1>1, ProcessAssumption DEF ProcessesTypeOK, TypeOK
<1>5. Steady
  BY <1>1, <1>3, <1>4 DEF Steady, Held, Enrolled
<1>6. Lives'
  BY <1>1, <1>3, <1>4 DEF Lives, LifeOK, Enrolled
<1>7. QED
  BY <1>2, <1>5, <1>6

\* A registration that is rolled back or dropped leaves a process that is over.
LEMMA BrokenAddKeeps ==
    ASSUME ProcessesTypeOK, Lives, NEW i \in Ids, AddRolledBack(i) \/ AddDropped(i)
    PROVE  ProcessesTypeOK' /\ Lives' /\ Steady
<1>1. /\ step[i] # "idle" /\ adding[i].id = i /\ Finish(i) /\ Over(i)
      /\ UNCHANGED <<cancelled, restarts>>
  BY RequestTypes DEF AddRolledBack, AddDropped, RollBack, DropAdd, Lives, LifeOK
<1>2. ProcessesTypeOK'
  BY <1>1, HandlerStep, OverTypes DEF AddRolledBack, AddDropped, ProcessesTypeOK
<1>3. /\ proc' = [proc EXCEPT ![i] = "exited"] /\ step' = [step EXCEPT ![i] = "idle"]
      /\ adding' = [adding EXCEPT ![i] = None]
  BY <1>1 DEF Over, Finish
<1>4. \A j \in Ids : j # i =>
          /\ proc'[j] = proc[j] /\ step'[j] = step[j] /\ adding'[j] = adding[j]
          /\ j \in registered' <=> j \in registered
          /\ type'[j] = type[j] /\ health'[j] = health[j] /\ parent'[j] = parent[j]
  <2>1. CASE AddRolledBack(i)
    BY <1>1, <1>3, <2>1, ProcessAssumption
       DEF AddRolledBack, RollBack, ProcessesTypeOK, TypeOK
  <2>2. CASE AddDropped(i)
    BY <1>3, <2>2, ProcessAssumption DEF AddDropped, DropAdd, entries, ProcessesTypeOK, TypeOK
  <2>3. QED
    BY <2>1, <2>2
<1>5. type'[i] \in {type[i], None}
  BY <1>1 DEF AddRolledBack, RollBack, AddDropped, DropAdd, entries, ProcessesTypeOK, TypeOK
<1>6. ~ Enrolled(i) /\ proc'[i] = "exited" /\ step'[i] = "idle"
  BY <1>1, <1>3, ProcessAssumption DEF Enrolled, ProcessesTypeOK, TypeOK
<1>7. Steady
  BY <1>4, <1>6 DEF Steady, Held, Enrolled
<1>8. ASSUME NEW j \in Ids PROVE LifeOK(j)'
  <2>1. LifeOK(j)
    BY DEF Lives
  <2>2. CASE j = i
    BY <1>5, <1>6, <2>1, <2>2, NoneAssumption DEF LifeOK, Enrolled, InstanceTypes
  <2>3. CASE j # i
    BY <1>4, <2>1, <2>3 DEF LifeOK, Enrolled
  <2>4. QED
    BY <2>2, <2>3
<1>9. QED
  BY <1>2, <1>7, <1>8 DEF Lives

LEMMA BeatKeeps ==
    ASSUME ProcessesTypeOK, Lives, NEW i \in Ids, Beat(i) \/ BeatRefused(i) \/ BeatFails(i)
    PROVE  ProcessesTypeOK' /\ Lives' /\ Steady
<1>1. /\ Enrolled(i) /\ UNCHANGED <<proc, restarts>>
      /\ TryUpdateInstanceDescription(BeatRequest(i)) \/ UNCHANGED manager
  BY DEF Beat, BeatRefused, BeatFails, Beating, Enrolled, Lives, LifeOK
<1>2. retries' \in [Ids -> 0 .. MaxRetries \cup {None}] /\ cancelled' \in [Ids -> BOOLEAN]
  <2>1. /\ retries \in [Ids -> 0 .. MaxRetries \cup {None}] /\ MaxRetries \in Nat
        /\ cancelled \in [Ids -> BOOLEAN]
    BY ProcessAssumption DEF ProcessesTypeOK
  <2>2. \/ cancelled' = cancelled
        \/ cancelled' = [cancelled EXCEPT ![i] = TRUE]
    BY DEF Beat, BeatRefused, BeatFails, EndBeat
  <2>3. \/ retries' \in {[retries EXCEPT ![i] = 0], [retries EXCEPT ![i] = None]}
        \/ /\ retries[i] # None /\ retries[i] < MaxRetries
           /\ retries' = [retries EXCEPT ![i] = retries[i] + 1]
    BY <2>1 DEF Beat, BeatRefused, BeatFails, EndBeat, Beating
  <2>4. retries[i] # None => retries[i] \in 0 .. MaxRetries
    BY <2>1
  <2>5. cancelled' \in [Ids -> BOOLEAN]
    BY <2>1, <2>2
  <2>6. CASE retries' \in {[retries EXCEPT ![i] = 0], [retries EXCEPT ![i] = None]}
    <3>1. 0 \in 0 .. MaxRetries
      BY <2>1
    <3>2. QED
      BY <2>1, <2>5, <2>6, <3>1
  <2>7. CASE /\ retries[i] # None /\ retries[i] < MaxRetries
             /\ retries' = [retries EXCEPT ![i] = retries[i] + 1]
    <3>1. retries[i] + 1 \in 0 .. MaxRetries
      BY <2>1, <2>4, <2>7
    <3>2. QED
      BY <2>1, <2>5, <2>7, <3>1
  <2>8. QED
    BY <2>3, <2>6, <2>7
<1>3. CASE TryUpdateInstanceDescription(BeatRequest(i))
  <2>1. /\ TypeOK /\ BeatRequest(i) \in Request /\ BeatRequest(i).id = i
        /\ Apply(BeatRequest(i)) /\ UNCHANGED <<step, adding, proc>>
    BY <1>1, <1>3, RequestTypes DEF TryUpdateInstanceDescription, handlers, ProcessesTypeOK
  <2>2. Lives' /\ Steady
    BY <1>1, <2>1, ApplyKeeps
  <2>3. TypeOK'
    BY <1>3, <2>1, UpdateTypes
  <2>4. QED
    BY <1>1, <1>2, <2>2, <2>3 DEF ProcessesTypeOK
<1>4. CASE UNCHANGED manager
  <2>1. TypeOK'
    BY <1>4, TypeStep DEF manager, vars, ProcessesTypeOK
  <2>2. Lives' /\ Steady
    BY <1>1, <1>4, EndKeeps DEF manager, ProcessesTypeOK
  <2>3. QED
    BY <1>1, <1>2, <2>1, <2>2 DEF ProcessesTypeOK
<1>5. QED
  BY <1>1, <1>3, <1>4

\* The steps of a process that the manager does not see.
LEMMA LocalKeeps ==
    ASSUME ProcessesTypeOK, Lives, NEW i \in Ids,
           LaunchFails(i) \/ ChildExits(i) \/ Exit(i) \/ Crash(i)
    PROVE  ProcessesTypeOK' /\ Lives' /\ Steady
<1>1. UNCHANGED <<manager, restarts>> /\ cancelled' \in [Ids -> BOOLEAN]
  BY DEF LaunchFails, ChildExits, Exit, Crash, ProcessesTypeOK
<1>2. /\ proc' = proc \/ proc' = [proc EXCEPT ![i] = "exited"]
      /\ proc' \in [Ids -> {"starting", "adding", "running", "exited"}]
      /\ retries' \in [Ids -> 0 .. MaxRetries \cup {None}]
  BY OverTypes DEF LaunchFails, ChildExits, Exit, Crash, ProcessesTypeOK
<1>3. TypeOK'
  BY <1>1, TypeStep DEF manager, vars, ProcessesTypeOK
<1>4. Lives' /\ Steady
  BY <1>1, <1>2, EndKeeps DEF manager, ProcessesTypeOK
<1>5. QED
  BY <1>1, <1>2, <1>3, <1>4 DEF ProcessesTypeOK

\* The kill loop and the clock.
LEMMA ManagerKeeps ==
    ASSUME ProcessesTypeOK, Lives, ManagerStep
    PROVE  ProcessesTypeOK' /\ Lives' /\ Steady
<1>1. UNCHANGED <<proc, retries, cancelled, restarts>>
  BY DEF ManagerStep, local
<1>2. TypeOK'
  BY TypeStep DEF ManagerStep, Next, ProcessesTypeOK
<1>3. CASE UNCHANGED <<entries, handlers>>
  BY <1>1, <1>2, <1>3, EndKeeps DEF ProcessesTypeOK
<1>4. ASSUME NEW i \in Ids, Apply(Condemn(i)), UNCHANGED handlers
      PROVE  Lives' /\ Steady
  <2>1. TypeOK /\ Condemn(i) \in Request /\ Condemn(i).beat = FALSE
    BY CondemnType DEF ProcessesTypeOK, Condemn
  <2>2. QED
    BY <1>1, <1>4, <2>1, ApplyKeeps DEF handlers
<1>5. UNCHANGED handlers /\ (UNCHANGED entries \/ \E i \in Ids : Apply(Condemn(i)))
  BY DEF ManagerStep, KillLoopWake, KillLoopScan, KillLoopRest, KillLoopKill, Tick
<1>6. QED
  BY <1>1, <1>2, <1>3, <1>4, <1>5 DEF ProcessesTypeOK

\* A restart forgets every claim, but no process that was registered before is
\* registered again.
LEMMA RestartKeeps ==
    ASSUME ProcessesTypeOK, Lives, RestartManager
    PROVE  ProcessesTypeOK' /\ Lives' /\ Steady
<1>1. /\ registered' = {} /\ type' = [i \in Ids |-> None] /\ health' = [i \in Ids |-> None]
      /\ step' = [h \in Handlers |-> "idle"]
      /\ proc' = [i \in Ids |-> IF proc[i] = "adding" THEN "exited" ELSE proc[i]]
  BY DEF RestartManager
<1>2. TypeOK'
  <2>1. 0 \in Times /\ now' = now
    BY TimesAssumption DEF Times, RestartManager
  <2>2. QED
    BY <2>1 DEF RestartManager, ProcessesTypeOK, TypeOK, OptionalTime
<1>3. ProcessesTypeOK'
  <2>1. restarts' \in 0 .. MaxRestarts
    BY ProcessAssumption DEF RestartManager, ProcessesTypeOK
  <2>2. QED
    BY <1>1, <1>2, <2>1 DEF RestartManager, ProcessesTypeOK
<1>4. Steady
  BY <1>1, ProcessAssumption DEF Steady, Held, Enrolled
<1>5. Lives'
  BY <1>1, ProcessAssumption, NoneAssumption DEF Lives, LifeOK, Enrolled, InstanceTypes
<1>6. QED
  BY <1>3, <1>4, <1>5

\* A request of a listener or of a session, served or not.
LEMMA CallKeeps ==
    ASSUME ProcessesTypeOK, Lives, UNCHANGED <<local, restarts>>,
           \/ \E r \in Request : ~ r.beat /\ TryUpdateInstanceDescription(r)
           \/ UNCHANGED manager
    PROVE  ProcessesTypeOK' /\ Lives' /\ Steady
<1>1. UNCHANGED <<proc, retries, cancelled, restarts>>
  BY DEF local
<1>2. CASE UNCHANGED manager
  <2>1. TypeOK'
    BY <1>2, TypeStep DEF manager, vars, ProcessesTypeOK
  <2>2. QED
    BY <1>1, <1>2, <2>1, EndKeeps DEF manager, ProcessesTypeOK
<1>3. ASSUME NEW r \in Request, ~ r.beat, TryUpdateInstanceDescription(r)
      PROVE  ProcessesTypeOK' /\ Lives' /\ Steady
  <2>1. TypeOK /\ Apply(r) /\ UNCHANGED <<step, adding>>
    BY <1>3 DEF TryUpdateInstanceDescription, handlers, ProcessesTypeOK
  <2>2. Lives' /\ Steady /\ TypeOK'
    BY <1>1, <1>3, <2>1, ApplyKeeps, UpdateTypes
  <2>3. QED
    BY <1>1, <2>2 DEF ProcessesTypeOK
<1>4. QED
  BY <1>2, <1>3

----------------------------------------------------------------------------
(* Listeners and sessions.                                                 *)

\* A listener holds a browser that was registered; once it has claimed it, nobody
\* else has, nobody had it before, and the manager knows or has forgotten everything.
ListenerOK(l) ==
    /\ at[l] \in {"claim", "connect"} => chosen[l] \in Browsers /\ Enrolled(chosen[l])
    /\ at[l] = "connect" =>
          /\ served[chosen[l]] = 0
          /\ \A m \in Listeners \ {l} : at[m] = "connect" => chosen[m] # chosen[l]
          /\ chosen[l] \in registered => parent[chosen[l]] = ProxyOf(l)

\* A browser that has had its session is claimed or forgotten, and never free again.
SessionOK(b) ==
    /\ served[b] <= 1
    /\ served[b] = 1 => Enrolled(b) /\ (b \in registered => parent[b] # None)
    /\ session[b] # "none" =>
          /\ served[b] = 1 /\ host[b] \in Proxies
          /\ b \in registered => parent[b] = host[b]

Holdings == (\A l \in Listeners : ListenerOK(l)) /\ (\A b \in Browsers : SessionOK(b))

FleetInv == FleetTypeOK /\ Lives /\ Holdings

LEMMA ProxyIsNotNone == \A l \in Listeners : ProxyOf(l) \in Proxies /\ ProxyOf(l) # None
BY ProcessAssumption, NoneAssumption DEF Listeners, ProxyOf

\* Listeners and sessions that give something up, or do nothing, take nothing.
LEMMA QuietKeeps ==
    ASSUME FleetInv, Steady, UNCHANGED served,
           \A m \in Listeners : \/ at'[m] \notin {"claim", "connect"}
                                \/ at'[m] = at[m] /\ chosen'[m] = chosen[m],
           \A b \in Browsers : \/ session'[b] = "none"
                               \/ session[b] # "none" /\ host'[b] = host[b]
    PROVE  Holdings'
<1>0. /\ \A l \in Listeners : ListenerOK(l)
      /\ \A b \in Browsers : b \in Ids /\ SessionOK(b) /\ served[b] \in Nat
  BY ProcessAssumption DEF FleetInv, Holdings, FleetTypeOK
<1>1. ASSUME NEW l \in Listeners PROVE ListenerOK(l)'
  <2>1. CASE at'[l] \notin {"claim", "connect"}
    BY <2>1 DEF ListenerOK
  <2>2. CASE at'[l] \in {"claim", "connect"}
    <3>1. at'[l] = at[l] /\ chosen'[l] = chosen[l] /\ chosen[l] \in Browsers
          /\ Enrolled(chosen[l]) /\ chosen[l] \in Ids
      BY <1>0, <2>2 DEF ListenerOK
    <3>2. Enrolled(chosen[l])' /\ Held(chosen[l])
      BY <3>1 DEF Steady, Enrolled
    <3>3. at[l] = "connect" =>
              /\ served'[chosen[l]] = 0
              /\ \A m \in Listeners \ {l} : at'[m] = "connect" => chosen'[m] # chosen[l]
      BY <1>0 DEF ListenerOK
    <3>4. at[l] = "connect" /\ chosen[l] \in registered' => parent'[chosen[l]] = ProxyOf(l)
      BY <1>0, <3>2, ProxyIsNotNone DEF ListenerOK, Held
    <3>5. ProxyOf(l)' = ProxyOf(l)
      BY DEF ProxyOf
    <3>6. QED
      BY <3>1, <3>2, <3>3, <3>4, <3>5 DEF ListenerOK, Enrolled
  <2>3. QED
    BY <2>1, <2>2
<1>2. ASSUME NEW b \in Browsers PROVE SessionOK(b)'
  <2>1. SessionOK(b) /\ (Enrolled(b) => Enrolled(b)' /\ Held(b)) /\ b \in Ids
    BY <1>0 DEF Steady
  <2>2. \A q \in Proxies : q # None
    BY ProcessAssumption, NoneAssumption
  <2>3. QED
    BY <2>1, <2>2 DEF SessionOK, Held
<1>3. QED
  BY <1>1, <1>2 DEF Holdings

\* The listener turns to a browser that has sent a heartbeat, hence was registered.
LEMMA GetInstanceKeeps ==
    ASSUME FleetInv, Steady, NEW l \in Listeners, NEW b \in Browsers, GetInstance(l, b)
    PROVE  Holdings'
<1>1. UNCHANGED <<proc, step, registered, parent, sessions>> /\ UNCHANGED <<served, session, host>>
  BY DEF GetInstance, manager, local, entries, handlers, sessions
<1>2. CASE UNCHANGED <<at, chosen>>
  BY <1>1, <1>2, QuietKeeps
<1>3. CASE /\ Available(b) /\ at' = [at EXCEPT ![l] = "claim"]
           /\ chosen' = [chosen EXCEPT ![l] = b]
  <2>1. Enrolled(b) /\ Enrolled(b)'
    BY <1>1, <1>3, ProcessAssumption DEF Available, FleetInv, Lives, LifeOK, Enrolled
  <2>2. at'[l] = "claim" /\ chosen'[l] = b
    BY <1>3 DEF FleetInv, FleetTypeOK
  <2>3. \A m \in Listeners : m # l => at'[m] = at[m] /\ chosen'[m] = chosen[m]
    BY <1>3 DEF FleetInv, FleetTypeOK
  <2>4. ListenerOK(l)'
    BY <2>1, <2>2 DEF ListenerOK
  <2>5. ASSUME NEW m \in Listeners, m # l PROVE ListenerOK(m)'
    BY <1>1, <2>2, <2>3, <2>5 DEF FleetInv, Holdings, ListenerOK, Enrolled, ProxyOf
  <2>6. \A c \in Browsers : SessionOK(c)'
    BY <1>1 DEF FleetInv, Holdings, SessionOK, Enrolled
  <2>7. QED
    BY <2>4, <2>5, <2>6 DEF Holdings
<1>4. QED
  BY <1>2, <1>3 DEF GetInstance

\* The claim is granted for a free browser only: one that nobody has claimed, is
\* connecting to or was connected to.
LEMMA ClaimKeeps ==
    ASSUME FleetInv, Steady, NEW l \in Listeners, Claim(l)
    PROVE  Holdings'
<1> DEFINE b == chosen[l]
           p == ProxyOf(l)
<1>0. /\ at \in [Listeners -> {"accept", "head", "list", "choose", "claim", "connect"}]
      /\ served \in [Browsers -> Nat] /\ TypeOK
  BY DEF FleetInv, FleetTypeOK, ProcessesTypeOK
<1>1. /\ at[l] = "claim" /\ at' = [at EXCEPT ![l] = "connect"]
      /\ Apply(ClaimRequest(l)) /\ UNCHANGED <<proc, step, chosen, served, session, host>>
  BY DEF Claim, TryUpdateInstanceDescription, handlers, local, sessions
<1>2. /\ b \in Browsers /\ b \in Ids /\ Enrolled(b)
  BY <1>1, ProcessAssumption DEF FleetInv, Holdings, ListenerOK
<1>3. /\ ClaimRequest(l).id = b /\ ClaimRequest(l).parent = p /\ p # None
      /\ ClaimRequest(l).children = {} /\ p \in Proxies
  BY <1>2, ClaimTypes, ProxyIsNotNone
<1>4. b \in registered /\ parent[b] = None
  BY <1>1, <1>3 DEF Apply, Accepts, Live, ValidRelationship
<1>5. parent'[b] = p
  BY <1>1, <1>2, <1>3 DEF Apply, ParentAfter
<1>6. served[b] = 0
  <2>1. SessionOK(b) /\ served[b] \in Nat
    BY <1>0, <1>2 DEF FleetInv, Holdings
  <2>2. QED
    BY <1>4, <2>1 DEF SessionOK
<1>7. ASSUME NEW m \in Listeners, at[m] = "connect" PROVE chosen[m] # b
  <2>1. ListenerOK(m) /\ ProxyOf(m) # None
    BY ProxyIsNotNone DEF FleetInv, Holdings
  <2>2. QED
    BY <1>4, <1>7, <2>1 DEF ListenerOK
<1>8. at'[l] = "connect" /\ \A m \in Listeners \ {l} : at'[m] = at[m]
  BY <1>0, <1>1
<1>9. ListenerOK(l)'
  <2>1. Enrolled(b)'
    BY <1>1, <1>2 DEF Enrolled
  <2>2. QED
    BY <1>1, <1>2, <1>5, <1>6, <1>7, <1>8, <2>1 DEF ListenerOK, ProxyOf
<1>10. ASSUME NEW m \in Listeners, m # l PROVE ListenerOK(m)'
  <2>1. ListenerOK(m) /\ at'[m] = at[m] /\ chosen' = chosen /\ ProxyOf(m) # None
    BY <1>1, <1>8, <1>10, ProxyIsNotNone DEF FleetInv, Holdings
  <2>2. CASE at[m] \notin {"claim", "connect"}
    BY <2>1, <2>2 DEF ListenerOK
  <2>3. CASE at[m] \in {"claim", "connect"}
    <3>1. chosen[m] \in Browsers /\ chosen[m] \in Ids /\ Enrolled(chosen[m]) /\ Enrolled(chosen[m])'
      BY <1>1, <2>1, <2>3, ProcessAssumption DEF ListenerOK, Enrolled
    <3>2. Held(chosen[m])
      BY <3>1 DEF Steady
    <3>3. at[m] = "connect" => chosen[m] # b
      BY <1>7
    <3>4. QED
      BY <1>1, <1>8, <2>1, <3>1, <3>2, <3>3 DEF ListenerOK, Held, ProxyOf
  <2>4. QED
    BY <2>2, <2>3
<1>11. ASSUME NEW c \in Browsers PROVE SessionOK(c)'
  <2>1. SessionOK(c) /\ (Enrolled(c) => Enrolled(c)' /\ Held(c))
    BY ProcessAssumption DEF FleetInv, Holdings, Steady
  <2>2. \A q \in Proxies : q # None
    BY ProcessAssumption, NoneAssumption
  <2>3. QED
    BY <1>1, <2>1, <2>2 DEF SessionOK, Held
<1>12. QED
  BY <1>9, <1>10, <1>11 DEF Holdings

\* The claimed browser gets its one session.
LEMMA ConnectKeeps ==
    ASSUME FleetInv, Steady, NEW l \in Listeners, Connect(l)
    PROVE  Holdings'
<1> DEFINE b == chosen[l]
<1>0. /\ at \in [Listeners -> {"accept", "head", "list", "choose", "claim", "connect"}]
      /\ chosen \in [Listeners -> Browsers \cup {None}]
      /\ served \in [Browsers -> Nat] /\ session \in [Browsers -> {"none", "open", "closing"}]
      /\ host \in [Browsers -> Proxies \cup {None}]
  BY DEF FleetInv, FleetTypeOK
<1>1. /\ at[l] = "connect" /\ at' = [at EXCEPT ![l] = "accept"]
      /\ chosen' = [chosen EXCEPT ![l] = None]
      /\ session' = [session EXCEPT ![b] = "open"] /\ host' = [host EXCEPT ![b] = ProxyOf(l)]
      /\ served' = [served EXCEPT ![b] = served[b] + 1]
      /\ UNCHANGED <<proc, step, registered, parent>>
  BY DEF Connect, Settle, manager, entries, handlers, local
<1>2. /\ ListenerOK(l) /\ b \in Browsers /\ Enrolled(b) /\ served[b] = 0
      /\ b \in registered => parent[b] = ProxyOf(l)
  BY <1>1 DEF FleetInv, Holdings, ListenerOK
<1>3. ProxyOf(l) \in Proxies /\ ProxyOf(l) # None
  BY ProxyIsNotNone
<1>4. \A m \in Listeners : m # l => at'[m] = at[m] /\ chosen'[m] = chosen[m]
  BY <1>0, <1>1
<1>5. \A c \in Browsers : c # b => served'[c] = served[c] /\ session'[c] = session[c] /\ host'[c] = host[c]
  BY <1>0, <1>1
<1>6. served'[b] = 1 /\ session'[b] = "open" /\ host'[b] = ProxyOf(l)
  BY <1>0, <1>1, <1>2
<1>7. ASSUME NEW m \in Listeners PROVE ListenerOK(m)'
  <2>1. CASE m = l
    BY <1>0, <1>1, <2>1 DEF ListenerOK
  <2>2. CASE m # l
    <3>1. ListenerOK(m) /\ at'[m] = at[m] /\ chosen'[m] = chosen[m]
      BY <1>4, <2>2 DEF FleetInv, Holdings
    <3>2. at[m] = "connect" => chosen[m] # b /\ chosen[m] \in Browsers
      BY <1>1, <1>2, <2>2, <3>1 DEF ListenerOK
    <3>3. at[m] = "connect" => served'[chosen[m]] = served[chosen[m]]
      BY <1>5, <3>2
    <3>4. \A n \in Listeners : at'[n] = "connect" => at[n] = "connect" /\ chosen'[n] = chosen[n]
      BY <1>0, <1>1, <1>4
    <3>5. QED
      BY <1>1, <3>1, <3>3, <3>4 DEF ListenerOK, Enrolled, ProxyOf
  <2>3. QED
    BY <2>1, <2>2
<1>8. ASSUME NEW c \in Browsers PROVE SessionOK(c)'
  <2>1. CASE c = b
    BY <1>1, <1>2, <1>3, <1>6, <2>1 DEF SessionOK, Enrolled
  <2>2. CASE c # b
    <3>1. SessionOK(c)
      BY DEF FleetInv, Holdings
    <3>2. QED
      BY <1>1, <1>5, <2>2, <3>1 DEF SessionOK, Enrolled
  <2>3. QED
    BY <2>1, <2>2
<1>9. QED
  BY <1>7, <1>8 DEF Holdings

----------------------------------------------------------------------------
(* The steps of the fleet.                                                 *)

LEMMA FleetInitial == FleetInit => FleetInv
<1> SUFFICES ASSUME FleetInit PROVE FleetInv
  OBVIOUS
<1>1. ProcessesTypeOK
  BY TypeInit, ProcessAssumption DEF FleetInit, ProcessesInit, ProcessesTypeOK
<1>2. FleetTypeOK
  BY <1>1 DEF FleetInit, FleetTypeOK
<1>3. Lives
  BY ProcessAssumption, NoneAssumption
     DEF FleetInit, ProcessesInit, Init, Lives, LifeOK, Enrolled, InstanceTypes
<1>4. Holdings
  BY DEF FleetInit, Holdings, ListenerOK, SessionOK
<1>5. QED
  BY <1>2, <1>3, <1>4 DEF FleetInv

\* Processes, listeners, sessions and the manager: what a step does to the table.
LEMMA ManagedStep ==
    ASSUME FleetInv, [FleetNext]_fleet
    PROVE  ProcessesTypeOK' /\ Lives' /\ Steady
<1>0. ProcessesTypeOK /\ Lives
  BY DEF FleetInv, FleetTypeOK
<1>1. ASSUME NEW i \in Ids, ProcessStep(i) PROVE ProcessesTypeOK' /\ Lives' /\ Steady
  BY <1>0, <1>1, LaunchKeeps, AcceptedKeeps, RejectedKeeps, BrokenAddKeeps, BeatKeeps,
     LocalKeeps DEF ProcessStep
<1>2. ASSUME NEW i \in Ids, ProcessEnds(i) PROVE ProcessesTypeOK' /\ Lives' /\ Steady
  BY <1>0, <1>2, LocalKeeps DEF ProcessEnds
<1>3. ASSUME NEW l \in Listeners, ListenerStep(l) PROVE ProcessesTypeOK' /\ Lives' /\ Steady
  <2>1. UNCHANGED <<local, restarts>>
    BY <1>3 DEF ListenerStep, Accept, ReadHead, GiveUp, ListInstances, GetInstance, Claim,
                ClaimFails, Connect, ConnectFails
  <2>2. CASE Claim(l) \/ ClaimFails(l)
    <3>1. chosen[l] \in Browsers
      BY <2>2 DEF Claim, ClaimFails, FleetInv, Holdings, ListenerOK
    <3>2. ClaimRequest(l) \in Request /\ ~ ClaimRequest(l).beat
      BY <3>1, ClaimTypes
    <3>3. TryUpdateInstanceDescription(ClaimRequest(l)) \/ UNCHANGED manager
      BY <2>2 DEF Claim, ClaimFails
    <3>4. QED
      BY <1>0, <2>1, <3>2, <3>3, CallKeeps
  <2>3. CASE UNCHANGED manager
    BY <1>0, <2>1, <2>3, CallKeeps
  <2>4. QED
    BY <1>3, <2>2, <2>3 DEF ListenerStep, Accept, ReadHead, GiveUp, ListInstances,
                            GetInstance, Connect, ConnectFails
<1>4. ASSUME NEW b \in Browsers, SessionStep(b) PROVE ProcessesTypeOK' /\ Lives' /\ Steady
  <2>1. UNCHANGED <<local, restarts>>
        /\ (TryUpdateInstanceDescription(KillRequest(b)) \/ UNCHANGED manager)
    BY <1>4 DEF SessionStep, SessionCloses, OnClose, OnCloseFails
  <2>2. KillRequest(b) \in Request /\ ~ KillRequest(b).beat
    BY RequestTypes, ProcessAssumption
  <2>3. QED
    BY <1>0, <2>1, <2>2, CallKeeps
<1>5. CASE UNCHANGED fleet
  BY <1>0, <1>5, CallKeeps DEF fleet
<1>6. QED
  BY <1>0, <1>1, <1>2, <1>3, <1>4, <1>5, ManagerKeeps, RestartKeeps DEF FleetNext

\* What a step does to listeners and sessions.
LEMMA HoldingsStep ==
    ASSUME FleetInv, [FleetNext]_fleet, Steady
    PROVE  Holdings'
<1>0. /\ at \in [Listeners -> {"accept", "head", "list", "choose", "claim", "connect"}]
      /\ chosen \in [Listeners -> Browsers \cup {None}]
      /\ session \in [Browsers -> {"none", "open", "closing"}]
      /\ host \in [Browsers -> Proxies \cup {None}]
  BY DEF FleetInv, FleetTypeOK
<1>1. CASE UNCHANGED <<listeners, sessions>>
  BY <1>1, QuietKeeps DEF listeners, sessions
<1>2. ASSUME NEW i \in Ids, EndOfProxy(i) PROVE Holdings'
  BY <1>0, <1>2, QuietKeeps DEF EndOfProxy
<1>3. ASSUME NEW l \in Listeners, ListenerStep(l) PROVE Holdings'
  <2>1. CASE Accept(l) \/ ReadHead(l) \/ GiveUp(l) \/ ListInstances(l) \/ ClaimFails(l)
             \/ ConnectFails(l)
    <3>1. UNCHANGED <<served, session, host>>
      BY <2>1 DEF Accept, ReadHead, GiveUp, ListInstances, ClaimFails, ConnectFails, sessions
    <3>2. /\ \E w \in {"accept", "head", "list", "choose"} : at' = [at EXCEPT ![l] = w]
          /\ chosen' = chosen \/ chosen' = [chosen EXCEPT ![l] = None]
      BY <2>1 DEF Accept, ReadHead, GiveUp, ListInstances, ClaimFails, ConnectFails, Settle
    <3>3. \A m \in Listeners : \/ at'[m] \notin {"claim", "connect"}
                               \/ at'[m] = at[m] /\ chosen'[m] = chosen[m]
      BY <1>0, <3>2
    <3>4. QED
      BY <3>1, <3>3, QuietKeeps
  <2>2. QED
    BY <1>3, <2>1, GetInstanceKeeps, ClaimKeeps, ConnectKeeps DEF ListenerStep
<1>4. ASSUME NEW b \in Browsers, SessionStep(b) PROVE Holdings'
  <2>1. UNCHANGED <<at, chosen, served>>
    BY <1>4 DEF SessionStep, SessionCloses, OnClose, OnCloseFails, EndSession, listeners
  <2>2. \/ session' = [session EXCEPT ![b] = "none"] /\ host' = [host EXCEPT ![b] = None]
        \/ session[b] = "open" /\ session' = [session EXCEPT ![b] = "closing"] /\ host' = host
    BY <1>4 DEF SessionStep, SessionCloses, OnClose, OnCloseFails, EndSession
  <2>3. \A c \in Browsers : \/ session'[c] = "none"
                            \/ session[c] # "none" /\ host'[c] = host[c]
    BY <1>0, <2>2
  <2>4. QED
    BY <2>1, <2>3, QuietKeeps
<1>5. QED
  BY <1>1, <1>2, <1>3, <1>4 DEF FleetNext, ProcessStep, ProcessEnds, fleet

LEMMA FleetTypeStep ==
    ASSUME FleetInv, [FleetNext]_fleet, ProcessesTypeOK'
    PROVE  FleetTypeOK'
<1>0. FleetTypeOK
  BY DEF FleetInv
<1>1. CASE UNCHANGED <<listeners, sessions>>
  BY <1>0, <1>1 DEF FleetTypeOK, listeners, sessions
<1>2. ASSUME NEW i \in Ids, EndOfProxy(i) PROVE FleetTypeOK'
  BY <1>0, <1>2 DEF EndOfProxy, FleetTypeOK
<1>3. ASSUME NEW l \in Listeners, ListenerStep(l) PROVE FleetTypeOK'
  <2>1. CASE Accept(l) \/ ReadHead(l)
    BY <1>0, <2>1 DEF Accept, ReadHead, FleetTypeOK, sessions
  <2>2. CASE GiveUp(l) \/ ConnectFails(l)
    BY <1>0, <2>2 DEF GiveUp, ConnectFails, Settle, FleetTypeOK, sessions
  <2>3. CASE ListInstances(l)
    <3>1. GetAllInstances("ChromeBrowser") \subseteq Browsers
      BY <1>0 DEF GetAllInstances, Live, FleetInv, Lives, LifeOK, FleetTypeOK,
                  ProcessesTypeOK, TypeOK
    <3>2. QED
      BY <1>0, <2>3, <3>1 DEF ListInstances, FleetTypeOK, sessions
  <2>4. ASSUME NEW b \in Browsers, GetInstance(l, b) PROVE FleetTypeOK'
    BY <1>0, <2>4 DEF GetInstance, FleetTypeOK, sessions
  <2>5. CASE Claim(l) \/ ClaimFails(l)
    BY <1>0, <2>5 DEF Claim, ClaimFails, FleetTypeOK, sessions
  <2>6. CASE Connect(l)
    <3>1. /\ chosen[l] \in Browsers /\ ProxyOf(l) \in Proxies
          /\ served \in [Browsers -> Nat] /\ served[chosen[l]] + 1 \in Nat
      BY <1>0, <2>6, ProxyIsNotNone DEF Connect, FleetInv, Holdings, ListenerOK, FleetTypeOK
    <3>2. served' \in [Browsers -> Nat]
      BY <2>6, <3>1 DEF Connect
    <3>3. at' \in [Listeners -> {"accept", "head", "list", "choose", "claim", "connect"}]
          /\ todo' \in [Listeners -> SUBSET Browsers]
          /\ chosen' \in [Listeners -> Browsers \cup {None}]
      BY <1>0, <2>6 DEF Connect, Settle, FleetTypeOK
    <3>4. session' \in [Browsers -> {"none", "open", "closing"}]
          /\ host' \in [Browsers -> Proxies \cup {None}]
      BY <1>0, <2>6, <3>1 DEF Connect, FleetTypeOK
    <3>5. QED
      BY <3>2, <3>3, <3>4 DEF FleetTypeOK
  <2>7. QED
    BY <1>3, <2>1, <2>2, <2>3, <2>4, <2>5, <2>6 DEF ListenerStep
<1>4. ASSUME NEW b \in Browsers, SessionStep(b) PROVE FleetTypeOK'
  BY <1>0, <1>4 DEF SessionStep, SessionCloses, OnClose, OnCloseFails, EndSession, FleetTypeOK,
                    listeners
<1>5. QED
  BY <1>1, <1>2, <1>3, <1>4 DEF FleetNext, ProcessStep, ProcessEnds, fleet

LEMMA FleetInvariant == FleetSpec => []FleetInv
<1>1. FleetInv /\ [FleetNext]_fleet => FleetInv'
  <2> SUFFICES ASSUME FleetInv, [FleetNext]_fleet PROVE FleetInv'
    OBVIOUS
  <2>1. ProcessesTypeOK' /\ Lives' /\ Steady
    BY ManagedStep
  <2>2. FleetTypeOK' /\ Holdings'
    BY <2>1, FleetTypeStep, HoldingsStep
  <2>3. QED
    BY <2>1, <2>2 DEF FleetInv
<1>2. QED
  BY <1>1, FleetInitial, PTL DEF FleetSpec

\* Processes, listeners and sessions are well typed through crashes, lost answers
\* and restarts; a heart beat never counts beyond MAX_RETRIES.
THEOREM FleetTypeCorrect == FleetSpec => []FleetTypeOK
<1>1. FleetInv => FleetTypeOK
  BY DEF FleetInv
<1>2. QED
  BY <1>1, FleetInvariant, PTL

\* A browser is connected to one client in its life, however many proxies and
\* listeners race for it, and although the manager may forget it in between.
THEOREM BrowsersServeOnce == FleetSpec => []OneSessionPerBrowser
<1>1. FleetInv => OneSessionPerBrowser
  BY DEF FleetInv, Holdings, ListenerOK, SessionOK, OneSessionPerBrowser
<1>2. QED
  BY <1>1, FleetInvariant, PTL

\* The manager holds every browser in use for the proxy that uses it, or has
\* forgotten it.
THEOREM SessionsAreAlwaysClaims == FleetSpec => []SessionsAreClaims
<1>1. FleetInv => SessionsAreClaims
  BY DEF FleetInv, Holdings, ListenerOK, SessionOK, SessionsAreClaims
<1>2. QED
  BY <1>1, FleetInvariant, PTL

----------------------------------------------------------------------------
(* The life cycle of the containers.                                       *)

\* Only a running process has a heart beat.
Quiet == \A i \in Ids : proc[i] # "running" => retries[i] = None

\* The local state of one process is what it is, or moves on by one step of its life.
Moves(i) ==
    LET beating == retries[i] # None
        beats == retries'[i] # None
    IN  \/ proc'[i] = proc[i] /\ cancelled'[i] = cancelled[i] /\ beats = beating
        \/ proc[i] = "starting" /\ proc'[i] = "adding" /\ cancelled'[i] = cancelled[i]
           /\ beats = beating
        \/ proc[i] = "adding" /\ proc'[i] = "running" /\ cancelled'[i] = cancelled[i] /\ beats
        \/ proc[i] # "exited" /\ proc'[i] = proc[i] /\ cancelled'[i] = TRUE /\ beats = beating
        \/ beating /\ ~ beats /\ proc'[i] = proc[i] /\ cancelled'[i] = TRUE
        \/ proc'[i] = "exited" /\ ~ beats /\ cancelled'[i] = cancelled[i]

LEMMA MoveIsLife ==
    ASSUME NEW b \in Browsers, Moves(b)
    PROVE  [Container(b)!Next]_(Container(b)!life)
BY DEF Moves, Container!Next, Container!life, Container!Register, Container!Registered,
       Container!Cancel, Container!StopBeating, Container!End

\* A step of process i that leaves the others alone.
LEMMA OneMoves ==
    ASSUME Quiet, NEW i \in Ids, Moves(i), proc'[i] # "running" => retries'[i] = None,
           \A j \in Ids \ {i} : /\ proc'[j] = proc[j] /\ retries'[j] = retries[j]
                                /\ cancelled'[j] = cancelled[j]
    PROVE  Quiet' /\ \A j \in Ids : Moves(j)
BY DEF Quiet, Moves

LEMMA ProcessMoves ==
    ASSUME ProcessesTypeOK, Quiet, NEW i \in Ids, ProcessStep(i) \/ ProcessEnds(i)
    PROVE  Quiet' /\ \A j \in Ids : Moves(j)
<1>0. /\ proc \in [Ids -> {"starting", "adding", "running", "exited"}]
      /\ retries \in [Ids -> 0 .. MaxRetries \cup {None}] /\ cancelled \in [Ids -> BOOLEAN]
      /\ MaxRetries \in Nat /\ None \notin Nat
  BY ProcessAssumption, NoneAssumption DEF ProcessesTypeOK
<1>1. proc[i] # "running" => retries[i] = None
  BY DEF Quiet
<1>2. ASSUME Over(i), UNCHANGED cancelled PROVE Quiet' /\ \A j \in Ids : Moves(j)
  BY <1>0, <1>2, OneMoves DEF Over, Moves
<1>3. CASE Launch(i)
  BY <1>0, <1>1, <1>3, OneMoves DEF Launch, Moves
<1>4. CASE AddAccepted(i)
  <2>1. UNCHANGED cancelled
    BY <1>4 DEF AddAccepted
  <2>2. CASE Over(i)
    BY <1>2, <2>1, <2>2
  <2>3. CASE /\ proc[i] = "adding" /\ proc' = [proc EXCEPT ![i] = "running"]
             /\ retries' = [retries EXCEPT ![i] = 0]
    <3>1. proc'[i] = "running" /\ retries'[i] = 0 /\ 0 # None
      BY <1>0, <2>3
    <3>2. Moves(i)
      BY <2>1, <2>3, <3>1 DEF Moves
    <3>3. QED
      BY <1>0, <2>1, <2>3, <3>1, <3>2, OneMoves
  <2>4. QED
    BY <1>4, <2>2, <2>3 DEF AddAccepted
<1>5. CASE AddRejected(i)
  BY <1>1, <1>5, OneMoves DEF AddRejected, local, Moves
<1>6. CASE ChildExits(i)
  BY <1>0, <1>1, <1>6, OneMoves DEF ChildExits, Moves
<1>7. CASE Beat(i) \/ BeatRefused(i) \/ BeatFails(i)
  <2>1. /\ proc[i] = "running" /\ retries[i] # None /\ retries[i] \in Nat /\ UNCHANGED proc
    BY <1>0, <1>7 DEF Beat, BeatRefused, BeatFails, Beating
  <2>2. CASE EndBeat(i)
    BY <1>0, <2>1, <2>2, OneMoves DEF EndBeat, Moves
  <2>3. ASSUME NEW n \in Nat, retries' = [retries EXCEPT ![i] = n], UNCHANGED cancelled
        PROVE  Quiet' /\ \A j \in Ids : Moves(j)
    BY <1>0, <2>1, <2>3, OneMoves DEF Moves
  <2>4. \/ EndBeat(i)
        \/ /\ UNCHANGED cancelled
           /\ \/ retries' = [retries EXCEPT ![i] = 0]
              \/ retries' = [retries EXCEPT ![i] = retries[i] + 1]
    BY <1>7 DEF Beat, BeatRefused, BeatFails
  <2>5. 0 \in Nat /\ retries[i] + 1 \in Nat
    BY <2>1
  <2>6. QED
    BY <2>2, <2>3, <2>4, <2>5
<1>8. CASE LaunchFails(i) \/ AddRolledBack(i) \/ AddDropped(i) \/ Exit(i) \/ Crash(i)
  BY <1>2, <1>8 DEF LaunchFails, AddRolledBack, AddDropped, Exit, Crash
<1>9. QED
  BY <1>3, <1>4, <1>5, <1>6, <1>7, <1>8 DEF ProcessStep, ProcessEnds

LEMMA FleetMoves ==
    ASSUME FleetInv, Quiet, [FleetNext]_fleet
    PROVE  Quiet' /\ \A j \in Ids : Moves(j)
<1>1. ProcessesTypeOK
  BY DEF FleetInv, FleetTypeOK
<1>2. CASE UNCHANGED local
  BY <1>2 DEF local, Quiet, Moves
<1>3. CASE RestartManager
  BY <1>1, <1>3 DEF RestartManager, ProcessesTypeOK, Quiet, Moves
<1>4. CASE \E i \in Ids : ProcessStep(i) \/ ProcessEnds(i)
  BY <1>1, <1>4, ProcessMoves
<1>5. CASE (\E l \in Listeners : ListenerStep(l)) \/ (\E b \in Browsers : SessionStep(b))
           \/ ManagerStep
  BY <1>2, <1>5 DEF ListenerStep, Accept, ReadHead, GiveUp, ListInstances, GetInstance, Claim,
                    ClaimFails, Connect, ConnectFails, SessionStep, SessionCloses, OnClose,
                    OnCloseFails, ManagerStep
<1>6. QED
  BY <1>2, <1>3, <1>4, <1>5 DEF FleetNext, fleet

\* Whatever the manager, the proxies and lost answers do to them, the containers of the fleet
\* live the life that BrowserContainer is shown to keep, except that they may also be
\* killed at any moment.
THEOREM FleetContainersLive == FleetSpec => ContainersLive
<1>1. FleetInit => Quiet /\ \A b \in Browsers : Container(b)!Init
  BY ProcessAssumption DEF FleetInit, ProcessesInit, Quiet, Container!Init
<1>2. FleetInv /\ Quiet /\ [FleetNext]_fleet
          => Quiet' /\ [\A b \in Browsers : [Container(b)!Next]_(Container(b)!life)]_local
  <2> SUFFICES ASSUME FleetInv, Quiet, [FleetNext]_fleet
               PROVE  Quiet' /\ \A b \in Browsers : [Container(b)!Next]_(Container(b)!life)
    OBVIOUS
  <2>1. Quiet' /\ \A j \in Ids : Moves(j)
    BY FleetMoves
  <2>2. ASSUME NEW b \in Browsers PROVE [Container(b)!Next]_(Container(b)!life)
    BY <2>1, MoveIsLife, ProcessAssumption
  <2>3. QED
    BY <2>1, <2>2
<1>3. QED
  BY <1>1, <1>2, FleetInvariant, PTL DEF FleetSpec, ContainersLive
============================================================================
