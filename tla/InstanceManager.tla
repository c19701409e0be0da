-------------------------- MODULE InstanceManager --------------------------
(***************************************************************************)
(* The instance manager (rust-instance-manager/src/service.rs): a table of *)
(* instances behind one mutex, changed by RPC handlers and by the kill     *)
(* loop.  A critical section of the mutex is one action.  TryAddInstance   *)
(* takes the mutex up to three times and the kill loop takes it once per   *)
(* condemned instance, so each of them is several actions.                 *)
(*                                                                         *)
(* A refused request changes nothing: it is a stuttering step, and the     *)
(* guards below are the conditions under which a request is NOT refused.   *)
(***************************************************************************)
EXTENDS Descendants, Integers

CONSTANTS
    Ids,              \* instance identifiers
    Handlers,         \* concurrent executions of the TryAddInstance handler
    None,             \* an absent optional field
    Requests,         \* the requests clients send, a subset of Request
    AddTypes,         \* the instance types clients register
    HealthTimeout,    \* CHROME_BROWSER_TIMEOUT_MS, and the agent's 5 s
    SessionLifetime,  \* CHROME_BROWSER_SESSION_LIFETIME_MS
    MaxLifetime,      \* CHROME_BROWSER_MAX_LIFETIME_MS, and the agent's 24 h
    AgentGrace,       \* the agent's 60 s
    Word,             \* 2^64: timestamps are u64 and their difference wraps
    MaxTime           \* bound on the clock

\* "Unmonitored" stands for the types unhealth_instance never condemns.
InstanceTypes == {"ChromeBrowser", "FakeInstance", "Agent", "Unmonitored"}
KillReasons == {"Killed", "Timeout", "HealthCheckFailed", "ParentDead"}
Times == 0 .. MaxTime

\* An InstanceDescription sent by a client.  "beat" is a health_check, "data"
\* the payload fields that are stored and never interpreted.
Request == [id : Ids, parent : Ids \cup {None}, children : SUBSET Ids,
            kill : KillReasons \cup {None}, beat : BOOLEAN,
            data : SUBSET {"services", "metrics"}]

ASSUME NoneAssumption ==
    /\ None \notin Ids
    /\ None \notin Int
    /\ None \notin KillReasons \cup InstanceTypes
    /\ None \notin Request
ASSUME InputsAssumption == Requests \subseteq Request /\ AddTypes \subseteq InstanceTypes
ASSUME TimesAssumption ==
    /\ {HealthTimeout, SessionLifetime, MaxLifetime, AgentGrace, MaxTime} \subseteq Nat
    /\ Word \in Nat \ {0}

VARIABLES
    registered,  \* keys of the table
    type, created, health, parent, parentTime, children, kill, data,
                 \* the fields of each entry; None, {} for an absent key
    step,        \* where each TryAddInstance handler stands
    adding,      \* the request it carries
    loop,        \* where the kill loop stands
    loopClock,   \* the timestamp the kill loop read
    verdict,     \* the kill reasons it still has to apply
    now          \* the wall clock, in milliseconds

entries == <<registered, type, created, health, parent, parentTime, children, kill, data>>
handlers == <<step, adding>>
killLoop == <<loop, loopClock, verdict>>
vars == <<entries, handlers, killLoop, now>>

Live == {i \in registered : kill[i] = None}
Provisional == {adding[h].id : h \in {g \in Handlers : step[g] # "idle"}}

----------------------------------------------------------------------------
(* unhealth_instance.                                                      *)

\* u64 subtraction of a release build.
Elapsed(t, since) == (t - since) % Word

LastActivity(i) == IF health[i] = None THEN created[i] ELSE health[i]

\* Mutant: the lifetime counts from the last heartbeat.
BrowserVerdictFromHeartbeat(i, t) ==
    IF parent[i] # None /\ Elapsed(t, parentTime[i]) > SessionLifetime THEN "Timeout"
    ELSE IF Elapsed(t, LastActivity(i)) > HealthTimeout THEN "HealthCheckFailed"
    ELSE IF Elapsed(t, LastActivity(i)) > MaxLifetime THEN "Killed"
    ELSE None

\* Mutant: the session is timed by the last heartbeat, not by the claim.
BrowserVerdictIdleSession(i, t) ==
    IF parent[i] # None /\ Elapsed(t, LastActivity(i)) > SessionLifetime THEN "Timeout"
    ELSE IF Elapsed(t, LastActivity(i)) > HealthTimeout THEN "HealthCheckFailed"
    ELSE IF Elapsed(t, created[i]) > MaxLifetime THEN "Killed"
    ELSE None

BrowserVerdict(i, t) ==
    IF parent[i] # None /\ Elapsed(t, parentTime[i]) > SessionLifetime THEN "Timeout"
    ELSE IF Elapsed(t, LastActivity(i)) > HealthTimeout THEN "HealthCheckFailed"
    ELSE IF Elapsed(t, created[i]) > MaxLifetime THEN "Killed"
    ELSE None

AgentVerdict(i, t) ==
    IF Elapsed(t, created[i]) < AgentGrace THEN None
    ELSE IF Elapsed(t, LastActivity(i)) > HealthTimeout THEN "HealthCheckFailed"
    ELSE IF Elapsed(t, LastActivity(i)) > MaxLifetime THEN "Timeout"
    ELSE None

\* Mutant: agents fall through to the types that are not monitored.
VerdictNoAgents(i, t) == IF type[i] = "Agent" THEN None ELSE BrowserVerdict(i, t)

Verdict(i, t) ==
    CASE type[i] \in {"ChromeBrowser", "FakeInstance"} -> BrowserVerdict(i, t)
      [] type[i] = "Agent" -> AgentVerdict(i, t)
      [] OTHER -> None

----------------------------------------------------------------------------
(* apply_to_instance_description: validation, updates, kill cascade.       *)

\* Mutant: an instance that has a parent may be given another one.
ValidRelationshipTaken(p, c) == p # c /\ kill[p] = None

\* Mutant: a dead parent may be given a child.
ValidRelationshipDead(p, c) == p # c /\ parent[c] = None

ValidRelationship(p, c) == p # c /\ kill[p] = None /\ parent[c] = None

\* Mutant: the check that the instance is not dead is missing.
AcceptsDead(r) ==
    /\ r.id \in registered
    /\ r.parent # None => r.parent \in registered /\ ValidRelationship(r.parent, r.id)
    /\ \A c \in r.children : c \in registered /\ ValidRelationship(r.id, c)

Accepts(r) ==
    /\ r.id \in Live
    /\ r.parent # None => r.parent \in registered /\ ValidRelationship(r.parent, r.id)
    /\ \A c \in r.children : c \in registered /\ ValidRelationship(r.id, c)

\* The parent of r.id is written first, those of r.children after it.
ParentAfter(r) ==
    [i \in Ids |-> IF i \in r.children THEN r.id
                   ELSE IF i = r.id /\ r.parent # None THEN r.parent
                   ELSE parent[i]]

\* Mutant: a claim is not entered in the list of the parent.
ChildrenAfterOneEnd(r) ==
    [i \in Ids |-> children[i] \cup (IF i = r.id THEN r.children ELSE {})]

ChildrenAfter(r) ==
    [i \in Ids |-> children[i] \cup (IF i = r.id THEN r.children ELSE {})
                               \cup (IF i = r.parent THEN {r.id} ELSE {})]

\* Mutant: the cascade stops at the children of the killed instance.
KilledWithOneLevel(r) ==
    IF r.kill = None THEN {} ELSE ChildrenAfter(r)[r.id] \cap (Live \ {r.id})

\* The entries that die with r.id (KillCascade is the loop that finds them).
KilledWith(r) == IF r.kill = None THEN {} ELSE Reached(Live, r.id, ChildrenAfter(r))

\* update_instance_description overwrites a field that is sent, with the time of
\* the server for its timestamp, and keeps one that is not.
HealthAfter(r) == IF r.beat THEN [health EXCEPT ![r.id] = now] ELSE health
DataAfter(r) == [data EXCEPT ![r.id] = @ \cup r.data]

Apply(r) ==
    /\ Accepts(r)
    /\ health' = HealthAfter(r)
    /\ data' = DataAfter(r)
    /\ parent' = ParentAfter(r)
    /\ parentTime' = [i \in Ids |-> IF parent'[i] # parent[i] THEN now ELSE parentTime[i]]
    /\ children' = ChildrenAfter(r)
    /\ kill' = [i \in Ids |-> IF i = r.id THEN r.kill
                              ELSE IF i \in KilledWith(r) THEN "ParentDead"
                              ELSE kill[i]]
    /\ UNCHANGED <<registered, type, created>>

----------------------------------------------------------------------------
(* The handlers.                                                           *)

\* Mutant: the stub replaces whatever the key holds (insert without Entry::Vacant).
TryAddInstanceOver(h, ty, r) ==
    /\ step[h] = "idle"
    /\ r.kill = None /\ ~r.beat /\ "metrics" \notin r.data
    /\ registered' = registered \cup {r.id}
    /\ type' = [type EXCEPT ![r.id] = ty]
    /\ created' = [created EXCEPT ![r.id] = now]
    /\ step' = [step EXCEPT ![h] = "inserted"]
    /\ adding' = [adding EXCEPT ![h] = r]
    /\ UNCHANGED <<health, parent, parentTime, children, kill, data, killLoop, now>>

\* insert_new_instance_description, first section: a vacant key gets a stub.
TryAddInstance(h, ty, r) ==
    /\ step[h] = "idle"
    /\ r.kill = None /\ ~r.beat /\ "metrics" \notin r.data
    /\ r.id \notin registered
    /\ registered' = registered \cup {r.id}
    /\ type' = [type EXCEPT ![r.id] = ty]
    /\ created' = [created EXCEPT ![r.id] = now]
    /\ step' = [step EXCEPT ![h] = "inserted"]
    /\ adding' = [adding EXCEPT ![h] = r]
    /\ UNCHANGED <<health, parent, parentTime, children, kill, data, killLoop, now>>

\* Mutant: the handler gives its request away and goes on.
FinishHalfway(h) == adding' = [adding EXCEPT ![h] = None] /\ UNCHANGED step

Finish(h) == /\ step' = [step EXCEPT ![h] = "idle"]
             /\ adding' = [adding EXCEPT ![h] = None]

\* Second section: the rest of the request is applied to the stub ...
CommitAdd(h) ==
    /\ step[h] = "inserted"
    /\ Apply(adding[h])
    /\ Finish(h)
    /\ UNCHANGED <<killLoop, now>>

\* ... or refused,
RejectAdd(h) ==
    /\ step[h] = "inserted"
    /\ ~Accepts(adding[h])
    /\ step' = [step EXCEPT ![h] = "rejected"]
    /\ UNCHANGED <<adding, entries, killLoop, now>>

\* and a third section removes whatever the key holds by then.
RollBack(h) ==
    LET i == adding[h].id
    IN  /\ step[h] = "rejected"
        /\ registered' = registered \ {i}
        /\ type' = [type EXCEPT ![i] = None]
        /\ created' = [created EXCEPT ![i] = None]
        /\ health' = [health EXCEPT ![i] = None]
        /\ parent' = [parent EXCEPT ![i] = None]
        /\ parentTime' = [parentTime EXCEPT ![i] = None]
        /\ children' = [children EXCEPT ![i] = {}]
        /\ kill' = [kill EXCEPT ![i] = None]
        /\ data' = [data EXCEPT ![i] = {}]
        /\ Finish(h)
        /\ UNCHANGED <<killLoop, now>>

\* The client goes away while the handler waits for the mutex: the server drops
\* the handler where it stands and the stub stays.
DropAdd(h) ==
    /\ step[h] # "idle"
    /\ Finish(h)
    /\ UNCHANGED <<entries, killLoop, now>>

\* try_update_instance_description.
TryUpdateInstanceDescription(r) ==
    /\ "metrics" \notin r.data
    /\ Apply(r)
    /\ UNCHANGED <<handlers, killLoop, now>>

\* post_instance_description: metrics only.
PostInstanceDescription(r) ==
    /\ r.parent = None /\ r.children = {} /\ r.kill = None /\ ~r.beat
    /\ "services" \notin r.data
    /\ Apply(r)
    /\ UNCHANGED <<handlers, killLoop, now>>

\* get_all_instances and get_instance read the table in one section.
GetAllInstances(ty) == {i \in Live : type[i] = ty /\ health[i] # None}

----------------------------------------------------------------------------
(* The kill loop.                                                          *)

\* get_unhealth_instances reads the clock, then waits for the mutex,
KillLoopWake ==
    /\ loop = "sleep"
    /\ loop' = "scan"
    /\ loopClock' = now
    /\ UNCHANGED <<verdict, entries, handlers, now>>

\* and judges every live instance by that clock.
KillLoopScan ==
    /\ loop = "scan"
    /\ loop' = "kill"
    /\ verdict' = [i \in Ids |-> IF i \in Live THEN Verdict(i, loopClock) ELSE None]
    /\ UNCHANGED <<loopClock, entries, handlers, now>>

Condemn(i) == [id |-> i, parent |-> None, children |-> {}, kill |-> verdict[i],
               beat |-> FALSE, data |-> {}]

\* kill_unhealth_instances: one verdict, one section, no second look at health.
KillLoopKill(i) ==
    /\ loop = "kill" /\ verdict[i] # None
    /\ verdict' = [verdict EXCEPT ![i] = None]
    /\ \/ Apply(Condemn(i))
       \/ ~Accepts(Condemn(i)) /\ UNCHANGED entries
    /\ UNCHANGED <<loop, loopClock, handlers, now>>

KillLoopRest ==
    /\ loop = "kill" /\ \A i \in Ids : verdict[i] = None
    /\ loop' = "sleep"
    /\ loopClock' = 0
    /\ UNCHANGED <<verdict, entries, handlers, now>>

----------------------------------------------------------------------------
\* SystemTime is taken not to be set back while the manager runs.
Tick == /\ now < MaxTime
        /\ now' = now + 1
        /\ UNCHANGED <<entries, handlers, killLoop>>

Init ==
    /\ registered = {}
    /\ type = [i \in Ids |-> None]
    /\ created = [i \in Ids |-> None]
    /\ health = [i \in Ids |-> None]
    /\ parent = [i \in Ids |-> None]
    /\ parentTime = [i \in Ids |-> None]
    /\ children = [i \in Ids |-> {}]
    /\ kill = [i \in Ids |-> None]
    /\ data = [i \in Ids |-> {}]
    /\ step = [h \in Handlers |-> "idle"]
    /\ adding = [h \in Handlers |-> None]
    /\ loop = "sleep" /\ loopClock = 0
    /\ verdict = [i \in Ids |-> None]
    /\ now = 0

Next ==
    \/ \E h \in Handlers, ty \in AddTypes, r \in Requests : TryAddInstance(h, ty, r)
    \/ \E h \in Handlers : CommitAdd(h) \/ RejectAdd(h) \/ RollBack(h) \/ DropAdd(h)
    \/ \E r \in Requests : TryUpdateInstanceDescription(r) \/ PostInstanceDescription(r)
    \/ KillLoopWake \/ KillLoopScan \/ KillLoopRest
    \/ \E i \in Ids : KillLoopKill(i)
    \/ Tick

Spec == Init /\ [][Next]_vars

\* The runtime schedules the kill loop again and again and its mutex is fair.
Fairness ==
    /\ WF_vars(KillLoopWake) /\ WF_vars(KillLoopScan) /\ WF_vars(KillLoopRest)
    /\ \A i \in Ids : WF_vars(KillLoopKill(i))

LiveSpec == Spec /\ Fairness

----------------------------------------------------------------------------
(* Properties.                                                             *)

OptionalTime == Times \cup {None}

\* Every field holds a value of its protobuf type, a handler that is not idle
\* carries a request, and no timestamp is ahead of the clock bound.
TypeOK ==
    /\ registered \subseteq Ids
    /\ type \in [Ids -> InstanceTypes \cup {None}]
    /\ created \in [Ids -> OptionalTime]
    /\ health \in [Ids -> OptionalTime]
    /\ parent \in [Ids -> Ids \cup {None}]
    /\ parentTime \in [Ids -> OptionalTime]
    /\ children \in [Ids -> SUBSET Ids]
    /\ kill \in [Ids -> KillReasons \cup {None}]
    /\ data \in [Ids -> SUBSET {"services", "metrics"}]
    /\ step \in [Handlers -> {"idle", "inserted", "rejected"}]
    /\ adding \in [Handlers -> Request \cup {None}]
    /\ \A h \in Handlers : step[h] # "idle" => adding[h] \in Request
    /\ loop \in {"sleep", "scan", "kill"}
    /\ loopClock \in Times
    /\ verdict \in [Ids -> KillReasons \cup {None}]
    /\ now \in Times

\* The entry a handler will remove on refusal is its own: between the sections
\* of insert_new_instance_description the key stays taken, by one handler only.
StubOwnership ==
    \A h \in Handlers : step[h] # "idle" =>
        /\ adding[h].id \in registered
        /\ \A g \in Handlers \ {h} : step[g] # "idle" => adding[g].id # adding[h].id

\* c was attached to the entry p holds now.  (A key that was rolled back and
\* registered anew is created after the links to its former entry.)
AttachedTo(c, p) ==
    /\ {c, p} \subseteq registered
    /\ parent[c] = p
    /\ created[p] < parentTime[c]

\* Both ends of a relationship agree: the cascade, which follows "children",
\* sees every instance whose "parent" names the entry.
LinkBothEnds ==
    \A p, c \in Ids : AttachedTo(c, p) => c \in children[p]

\* No child outlives its parent: whatever request or verdict killed the parent,
\* the same critical section killed its children, theirs and so on.
ParentDeathReaches ==
    \A p, c \in Ids : AttachedTo(c, p) /\ kill[p] # None => kill[c] # None

\* The key of an instance that is not in the table holds no field.
AbsentIsBlank ==
    \A i \in Ids \ registered :
        /\ kill[i] = None /\ parent[i] = None /\ children[i] = {}
        /\ health[i] = None /\ data[i] = {}

\* Creation and links are stamped by the clock, and not ahead of it.
Stamped ==
    \A i \in Ids : /\ i \in registered => created[i] \in 0 .. now
                   /\ parent[i] # None => parentTime[i] \in 0 .. now

\* The cascade is complete along links recorded at both ends, old or new.
DeathIsClosed ==
    \A p, c \in registered :
        c \in children[p] /\ parent[c] = p /\ kill[p] # None => kill[c] # None

\* The inductive invariant.  LinkBothEnds alone is not inductive: it needs the
\* clock (a key registered anew must not look older than a left-over link to it)
\* and absent keys that hold nothing.
IInv == TypeOK /\ StubOwnership /\ AbsentIsBlank /\ Stamped /\ LinkBothEnds /\ DeathIsClosed

\* Death is final: no late heartbeat, claim, metrics report or second verdict
\* changes a dead entry, whose reason, health, payload and children stay.
DeadIsFrozen ==
    [][\A i \in registered \cap registered' : kill[i] # None =>
            /\ kill'[i] = kill[i]
            /\ health'[i] = health[i]
            /\ data'[i] = data[i]
            /\ children'[i] = children[i]]_vars

\* The table implements the promise made to clients about each instance.
Lifecycle == INSTANCE InstanceLifecycle WITH
    present <- registered, provisional <- Provisional, owner <- parent,
    dead <- {i \in registered : kill[i] # None}

\* Racing registrations, roll-backs, claims, kills and lost clients never show a
\* client anything the lifecycle of a single instance rules out: a claimed
\* instance never changes hands, the dead claim nothing and do not come back, and
\* a roll-back removes no instance but the stub of its own registration.
ImplementsLifecycle == Lifecycle!Spec

IsBrowser(i) == type[i] \in {"ChromeBrowser", "FakeInstance"}

\* unhealth_instance holds something against i at this moment.
Overdue(i) ==
    /\ i \in Live
    /\ IsBrowser(i) \/ (type[i] = "Agent" /\ now - created[i] >= AgentGrace)
    /\ now - LastActivity(i) > HealthTimeout

Outlived(i) ==
    /\ i \in Live /\ IsBrowser(i)
    /\ \/ parent[i] # None /\ now - parentTime[i] > SessionLifetime
       \/ now - created[i] > MaxLifetime

\* An instance that stopped sending heartbeats does not stay listed as alive: it
\* resumes them or the kill loop gets to it.
SilentInstancesDie == \A i \in Ids : Overdue(i) ~> ~Overdue(i)

\* A browser past its session or its lifetime dies however often it sends
\* heartbeats, in whichever order they race with the loop's scan.
BrowsersDoNotOutlive == \A i \in Ids : Outlived(i) ~> i \notin Live

\* "The instance has not sent any heartbeat for too long" (the comment on the
\* verdict): whoever is condemned for it was silent for that long.
CondemnedWereSilent ==
    [][KillLoopScan => \A i \in Ids :
            verdict'[i] = "HealthCheckFailed" => now - LastActivity(i) > HealthTimeout]_vars

\* "Stale and dead instances are not included in the response" (the protocol's
\* comment on GetService): an instance that stopped sending heartbeats leaves the
\* lists that GetAllInstances returns, if not at once then before long.
Listed == UNION {GetAllInstances(ty) : ty \in InstanceTypes}
StaleAreUnlisted ==
    \A i \in Ids : (i \in Listed /\ now - LastActivity(i) > HealthTimeout)
                       ~> ~(i \in Listed /\ now - LastActivity(i) > HealthTimeout)
=============================================================================
