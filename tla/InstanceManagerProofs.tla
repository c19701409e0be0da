----------------------- MODULE InstanceManagerProofs -----------------------
(***************************************************************************)
(* Theorems about InstanceManager, for any number of instances, handlers,  *)
(* requests and any values of the time limits.                             *)
(***************************************************************************)
EXTENDS InstanceManager, TLAPS

\* The set of entries a kill reaches is closed: no live child is left behind.
LEMMA ReachedIsClosed ==
    ASSUME NEW live, NEW root, NEW ch,
           NEW p \in Reached(live, root, ch) \cup {root},
           NEW c \in ch[p] \cap (live \ {root})
    PROVE  c \in Reached(live, root, ch)
<1>1. SUFFICES ASSUME NEW S \in SUBSET (live \ {root}), Closed(S, live, root, ch)
               PROVE  c \in S
  BY DEF Reached
<1>2. p \in S \cup {root}
  BY <1>1 DEF Reached
<1>3. QED
  BY <1>1, <1>2 DEF Closed

----------------------------------------------------------------------------
(* What an accepted request does to the table.                             *)

LEMMA ApplyTypes ==
    ASSUME TypeOK, NEW r \in Request, Apply(r)
    PROVE  /\ registered' = registered /\ type' = type /\ created' = created
           /\ health' \in [Ids -> OptionalTime]
           /\ parent' \in [Ids -> Ids \cup {None}]
           /\ parentTime' \in [Ids -> OptionalTime]
           /\ children' \in [Ids -> SUBSET Ids]
           /\ kill' \in [Ids -> KillReasons \cup {None}]
           /\ data' \in [Ids -> SUBSET {"services", "metrics"}]
<1>1. /\ r.id \in Ids /\ r.parent \in Ids \cup {None} /\ r.children \subseteq Ids
      /\ r.kill \in KillReasons \cup {None} /\ r.data \subseteq {"services", "metrics"}
  BY DEF Request
<1>2. registered' = registered /\ type' = type /\ created' = created
  BY DEF Apply
<1>3. health' \in [Ids -> OptionalTime]
  BY <1>1 DEF Apply, HealthAfter, TypeOK, OptionalTime
<1>4. parent' \in [Ids -> Ids \cup {None}]
  BY <1>1 DEF Apply, ParentAfter, TypeOK
<1>5. parentTime' \in [Ids -> OptionalTime]
  BY DEF Apply, TypeOK, OptionalTime
<1>6. children' \in [Ids -> SUBSET Ids]
  BY <1>1 DEF Apply, ChildrenAfter, TypeOK
<1>7. kill' \in [Ids -> KillReasons \cup {None}]
  <2>1. "ParentDead" \in KillReasons
    BY DEF KillReasons
  <2>2. QED
    BY <1>1, <2>1 DEF Apply, TypeOK
<1>8. data' \in [Ids -> SUBSET {"services", "metrics"}]
  BY <1>1 DEF Apply, DataAfter, TypeOK
<1>9. QED
  BY <1>2, <1>3, <1>4, <1>5, <1>6, <1>7, <1>8

\* A claim takes a free, registered instance for a live claimant, is recorded at
\* both ends and stamped by the clock.
LEMMA ApplyClaims ==
    ASSUME TypeOK, NEW r \in Request, Apply(r), NEW c \in Ids, parent'[c] # parent[c]
    PROVE  /\ parent[c] = None /\ c \in registered
           /\ parent'[c] \in Live \ {c}
           /\ c \in children'[parent'[c]]
           /\ parentTime'[c] = now
<1>1. r.id \in Ids /\ r.parent \in Ids \cup {None} /\ r.children \subseteq Ids
  BY DEF Request
<1>2. parent'[c] = ParentAfter(r)[c] /\ children' = ChildrenAfter(r) /\ parentTime'[c] = now
  BY DEF Apply
<1>3. CASE c \in r.children
  <2>1. parent'[c] = r.id /\ c \in children'[r.id]
    BY <1>1, <1>2, <1>3 DEF ParentAfter, ChildrenAfter
  <2>2. c \in registered /\ ValidRelationship(r.id, c) /\ r.id \in Live
    BY <1>3 DEF Apply, Accepts
  <2>3. QED
    BY <1>2, <2>1, <2>2 DEF ValidRelationship
<1>4. CASE c \notin r.children
  <2>1. c = r.id /\ r.parent # None /\ parent'[c] = r.parent
    BY <1>1, <1>2, <1>4 DEF ParentAfter
  <2>2. r.parent \in Ids /\ c \in children'[r.parent]
    BY <1>1, <1>2, <2>1 DEF ChildrenAfter
  <2>3. /\ c \in registered /\ r.parent \in registered
        /\ ValidRelationship(r.parent, r.id)
    BY <2>1 DEF Apply, Accepts, Live
  <2>4. QED
    BY <1>2, <2>1, <2>2, <2>3 DEF ValidRelationship, Live
<1>5. QED
  BY <1>3, <1>4

\* Child lists only grow, and only those of live entries do.
LEMMA ApplyChildren ==
    ASSUME TypeOK, NEW r \in Request, Apply(r), NEW p \in Ids
    PROVE  /\ children[p] \subseteq children'[p]
           /\ p \notin Live => children'[p] = children[p]
<1>1. r.id \in Live /\ (r.parent # None => r.parent \in Live)
  BY DEF Apply, Accepts, ValidRelationship, Live
<1>2. children'[p] = ChildrenAfter(r)[p]
  BY DEF Apply
<1>3. p # None
  BY NoneAssumption
<1>4. p \notin Live => p # r.id /\ p # r.parent
  BY <1>1, <1>3
<1>5. QED
  BY <1>2, <1>4 DEF ChildrenAfter

\* A death is final, only live entries die, and they take along every live child
\* that their list names.
LEMMA ApplyDeaths ==
    ASSUME TypeOK, NEW r \in Request, Apply(r), NEW p \in Ids
    PROVE  /\ p \notin Live => kill'[p] = kill[p]
           /\ kill[p] # None => kill'[p] = kill[p]
           /\ \A c \in Live : p \in Live /\ kill'[p] # None /\ c \in children'[p]
                                => kill'[c] # None
<1>1. r.id \in Live /\ r.id \in Ids /\ r.kill \in KillReasons \cup {None}
  BY DEF Apply, Accepts, Request
<1>2. \A i \in Ids : kill'[i] = IF i = r.id THEN r.kill
                                ELSE IF i \in KilledWith(r) THEN "ParentDead" ELSE kill[i]
  BY DEF Apply
<1>3. KilledWith(r) \subseteq Live
  BY DEF KilledWith, Reached
<1>4. p \notin Live => kill'[p] = kill[p]
  BY <1>1, <1>2, <1>3
<1>5. kill[p] # None => p \notin Live
  BY DEF Live
<1>6. ASSUME NEW c \in Live, p \in Live, kill'[p] # None, c \in children'[p]
      PROVE  kill'[c] # None
  <2>1. c \in Ids /\ "ParentDead" # None
    BY <1>6, NoneAssumption DEF Live, TypeOK, KillReasons
  <2>2. kill[p] = None
    BY <1>6 DEF Live
  <2>3. r.kill # None
    BY <1>2, <1>6, <2>2 DEF KilledWith
  <2>4. p \in KilledWith(r) \cup {r.id}
    BY <1>2, <1>6, <2>2
  <2>5. c = r.id \/ c \in KilledWith(r)
    <3>1. KilledWith(r) = Reached(Live, r.id, ChildrenAfter(r))
      BY <2>3 DEF KilledWith
    <3>2. c \in ChildrenAfter(r)[p]
      BY <1>6 DEF Apply
    <3>3. QED
      BY <1>6, <2>4, <3>1, <3>2, ReachedIsClosed
  <2>6. QED
    BY <1>2, <2>1, <2>3, <2>5
<1>7. QED
  BY <1>4, <1>5, <1>6

----------------------------------------------------------------------------
(* Type correctness.                                                       *)

LEMMA VerdictType ==
    ASSUME NEW i, NEW t
    PROVE  Verdict(i, t) \in KillReasons \cup {None}
<1>1. BrowserVerdict(i, t) \in KillReasons \cup {None}
  BY DEF BrowserVerdict, KillReasons
<1>2. AgentVerdict(i, t) \in KillReasons \cup {None}
  BY DEF AgentVerdict, KillReasons
<1>3. QED
  BY <1>1, <1>2 DEF Verdict

LEMMA CondemnType ==
    ASSUME TypeOK, NEW i \in Ids
    PROVE  Condemn(i) \in Request
BY DEF Condemn, Request, TypeOK

LEMMA TypeInit == Init => TypeOK
BY TimesAssumption DEF Init, TypeOK, OptionalTime, Times

LEMMA TypeStep == TypeOK /\ [Next]_vars => TypeOK'
<1> SUFFICES ASSUME TypeOK, [Next]_vars PROVE TypeOK'
  OBVIOUS
<1> USE TimesAssumption, InputsAssumption DEF TypeOK, OptionalTime, Times
<1>1. ASSUME NEW h \in Handlers, NEW ty \in AddTypes, NEW r \in Requests,
             TryAddInstance(h, ty, r)
      PROVE  TypeOK'
  <2>1. r \in Request /\ r.id \in Ids /\ ty \in InstanceTypes
    BY DEF Request
  <2>2. QED
    BY <1>1, <2>1 DEF TryAddInstance, killLoop
<1>2. ASSUME NEW h \in Handlers, CommitAdd(h)
      PROVE  TypeOK'
  <2>1. adding[h] \in Request
    BY <1>2 DEF CommitAdd
  <2>2. /\ registered' = registered /\ type' = type /\ created' = created
        /\ health' \in [Ids -> OptionalTime]
        /\ parent' \in [Ids -> Ids \cup {None}]
        /\ parentTime' \in [Ids -> OptionalTime]
        /\ children' \in [Ids -> SUBSET Ids]
        /\ kill' \in [Ids -> KillReasons \cup {None}]
        /\ data' \in [Ids -> SUBSET {"services", "metrics"}]
    BY <1>2, <2>1, ApplyTypes DEF CommitAdd
  <2>3. step' \in [Handlers -> {"idle", "inserted", "rejected"}]
        /\ adding' \in [Handlers -> Request \cup {None}]
        /\ \A g \in Handlers : step'[g] # "idle" => adding'[g] \in Request
    BY <1>2 DEF CommitAdd, Finish
  <2>4. QED
    BY <1>2, <2>2, <2>3 DEF CommitAdd, killLoop
<1>3. ASSUME NEW h \in Handlers, RejectAdd(h)
      PROVE  TypeOK'
  BY <1>3 DEF RejectAdd, entries, killLoop
<1>4. ASSUME NEW h \in Handlers, RollBack(h)
      PROVE  TypeOK'
  <2>1. registered' \subseteq Ids
    BY <1>4 DEF RollBack
  <2>2. QED
    BY <1>4, <2>1 DEF RollBack, Finish, killLoop
<1>5. ASSUME NEW h \in Handlers, DropAdd(h)
      PROVE  TypeOK'
  BY <1>5 DEF DropAdd, Finish, entries, killLoop
<1>6. ASSUME NEW r \in Requests,
             TryUpdateInstanceDescription(r) \/ PostInstanceDescription(r)
      PROVE  TypeOK'
  <2>1. Apply(r) /\ UNCHANGED <<handlers, killLoop, now>> /\ r \in Request
    BY <1>6 DEF TryUpdateInstanceDescription, PostInstanceDescription
  <2>2. QED
    BY <2>1, ApplyTypes DEF handlers, killLoop
<1>7. CASE KillLoopWake
  BY <1>7 DEF KillLoopWake, entries, handlers
<1>8. CASE KillLoopScan
  <2>1. verdict' \in [Ids -> KillReasons \cup {None}]
    BY <1>8, VerdictType DEF KillLoopScan
  <2>2. QED
    BY <1>8, <2>1 DEF KillLoopScan, entries, handlers
<1>9. CASE KillLoopRest
  BY <1>9 DEF KillLoopRest, entries, handlers
<1>10. ASSUME NEW i \in Ids, KillLoopKill(i)
       PROVE  TypeOK'
  <2>1. UNCHANGED <<handlers, loop, loopClock, now>>
        /\ verdict' \in [Ids -> KillReasons \cup {None}]
    BY <1>10 DEF KillLoopKill
  <2>2. CASE Apply(Condemn(i))
    <3>1. Condemn(i) \in Request
      BY CondemnType
    <3>2. QED
      BY <2>1, <2>2, <3>1, ApplyTypes DEF handlers
  <2>3. CASE UNCHANGED entries
    BY <2>1, <2>3 DEF entries, handlers
  <2>4. QED
    BY <1>10, <2>2, <2>3 DEF KillLoopKill
<1>11. CASE Tick
  <2>1. now' \in Times
    BY <1>11 DEF Tick
  <2>2. QED
    BY <1>11, <2>1 DEF Tick, entries, handlers, killLoop
<1>12. CASE UNCHANGED vars
  BY <1>12 DEF vars, entries, handlers, killLoop
<1>13. QED
  BY <1>1, <1>2, <1>3, <1>4, <1>5, <1>6, <1>7, <1>8, <1>9, <1>10, <1>11, <1>12 DEF Next

\* Every field of the table, the handlers and the kill loop keeps its type.
THEOREM TypeCorrect == Spec => []TypeOK
BY TypeInit, TypeStep, PTL DEF Spec

----------------------------------------------------------------------------
(* The inductive invariant.                                                *)

\* The parts of IInv that speak of the table.
TableInv == AbsentIsBlank /\ Stamped /\ LinkBothEnds /\ DeathIsClosed

LEMMA ApplyAbsent ==
    ASSUME TypeOK, TableInv, NEW r \in Request, Apply(r)
    PROVE  AbsentIsBlank'
<1> SUFFICES ASSUME NEW i \in Ids \ registered
             PROVE  /\ kill'[i] = None /\ parent'[i] = None /\ children'[i] = {}
                    /\ health'[i] = None /\ data'[i] = {}
  BY ApplyTypes DEF AbsentIsBlank
<1>1. /\ kill[i] = None /\ parent[i] = None /\ children[i] = {}
      /\ health[i] = None /\ data[i] = {} /\ i \notin Live
  BY DEF TableInv, AbsentIsBlank, Live
<1>2. kill'[i] = None /\ children'[i] = {}
  BY <1>1, ApplyDeaths, ApplyChildren
<1>3. parent'[i] = None
  BY <1>1, ApplyClaims
<1>4. health'[i] = None /\ data'[i] = {}
  BY <1>1 DEF Apply, HealthAfter, DataAfter, Accepts, TypeOK, Live
<1>5. QED
  BY <1>2, <1>3, <1>4

LEMMA ApplyStamped ==
    ASSUME TypeOK, TableInv, NEW r \in Request, Apply(r), now' = now
    PROVE  Stamped'
<1> SUFFICES ASSUME NEW i \in Ids
             PROVE  /\ i \in registered => created[i] \in 0 .. now
                    /\ parent'[i] # None => parentTime'[i] \in 0 .. now
  BY ApplyTypes DEF Stamped
<1>1. i \in registered => created[i] \in 0 .. now
  BY DEF TableInv, Stamped
<1>2. now \in 0 .. now
  BY TimesAssumption DEF TypeOK, Times
<1>3. CASE parent'[i] # parent[i]
  BY <1>1, <1>2, <1>3, ApplyClaims
<1>4. CASE parent'[i] = parent[i]
  BY <1>1, <1>4 DEF TableInv, Stamped, Apply
<1>5. QED
  BY <1>3, <1>4

LEMMA ApplyLinks ==
    ASSUME TypeOK, TableInv, NEW r \in Request, Apply(r)
    PROVE  LinkBothEnds'
<1> SUFFICES ASSUME NEW p \in Ids, NEW c \in Ids, AttachedTo(c, p)'
             PROVE  c \in children'[p]
  BY DEF LinkBothEnds
<1>1. CASE parent'[c] # parent[c]
  BY <1>1, ApplyClaims DEF AttachedTo
<1>2. CASE parent'[c] = parent[c]
  <2>1. AttachedTo(c, p)
    BY <1>2, ApplyTypes DEF AttachedTo, Apply
  <2>2. QED
    BY <2>1, ApplyChildren DEF TableInv, LinkBothEnds
<1>3. QED
  BY <1>1, <1>2

LEMMA ApplyDeathClosed ==
    ASSUME TypeOK, TableInv, NEW r \in Request, Apply(r)
    PROVE  DeathIsClosed'
<1> SUFFICES ASSUME NEW p \in registered, NEW c \in registered,
                    c \in children'[p], parent'[c] = p, kill'[p] # None
             PROVE  kill'[c] # None
  BY ApplyTypes DEF DeathIsClosed
<1>1. p \in Ids /\ c \in Ids
  BY DEF TypeOK
<1>2. CASE kill[c] # None
  BY <1>1, <1>2, ApplyDeaths
<1>3. CASE kill[c] = None /\ kill[p] = None
  BY <1>1, <1>3, ApplyDeaths DEF Live
<1>4. CASE kill[c] = None /\ kill[p] # None
  <2>1. p \notin Live
    BY <1>4 DEF Live
  <2>2. c \in children[p]
    BY <1>1, <2>1, ApplyChildren
  <2>3. parent[c] = p
    BY <1>1, <2>1, ApplyClaims
  <2>4. QED
    BY <1>4, <2>2, <2>3 DEF TableInv, DeathIsClosed
<1>5. QED
  BY <1>2, <1>3, <1>4

LEMMA ApplyInv ==
    ASSUME TypeOK, TableInv, NEW r \in Request, Apply(r), now' = now
    PROVE  TableInv'
BY ApplyAbsent, ApplyStamped, ApplyLinks, ApplyDeathClosed DEF TableInv

\* A step that leaves the table alone and does not turn back the clock.
LEMMA IdleInv ==
    ASSUME TypeOK, TableInv, UNCHANGED entries, now' \in Nat, now' >= now
    PROVE  TableInv'
<1>1. AbsentIsBlank' /\ LinkBothEnds' /\ DeathIsClosed'
  BY DEF TableInv, AbsentIsBlank, LinkBothEnds, DeathIsClosed, AttachedTo, entries
<1>2. Stamped'
  BY TimesAssumption DEF TableInv, Stamped, entries, TypeOK, Times
<1>3. QED
  BY <1>1, <1>2 DEF TableInv

LEMMA TryAddInv ==
    ASSUME TypeOK, TableInv, NEW h \in Handlers, NEW ty \in AddTypes,
           NEW r \in Requests, TryAddInstance(h, ty, r)
    PROVE  TableInv'
<1>1. r.id \in Ids \ registered /\ now \in Nat
  BY InputsAssumption, TimesAssumption DEF TryAddInstance, Request, TypeOK, Times
<1>2. /\ registered' = registered \cup {r.id}
      /\ created' = [created EXCEPT ![r.id] = now]
      /\ UNCHANGED <<health, parent, parentTime, children, kill, data, now>>
  BY DEF TryAddInstance
<1>3. AbsentIsBlank'
  BY <1>2 DEF TableInv, AbsentIsBlank
<1>4. Stamped'
  BY <1>1, <1>2 DEF TableInv, Stamped, TypeOK
<1>5. parent[r.id] = None /\ children[r.id] = {} /\ kill[r.id] = None
  BY <1>1 DEF TableInv, AbsentIsBlank
<1>6. LinkBothEnds'
  <2> SUFFICES ASSUME NEW p \in Ids, NEW c \in Ids, AttachedTo(c, p)'
               PROVE  c \in children[p]
    BY <1>2 DEF LinkBothEnds
  <2>1. c # r.id
    BY <1>2, <1>5, NoneAssumption DEF AttachedTo
  <2>2. p # r.id
    <3>1. SUFFICES ASSUME p = r.id PROVE FALSE
      OBVIOUS
    <3>2. created'[p] = now /\ parentTime'[c] \in 0 .. now
      BY <1>1, <1>2, <3>1, NoneAssumption DEF AttachedTo, TableInv, Stamped, TypeOK
    <3>3. QED
      BY <1>1, <3>2 DEF AttachedTo
  <2>3. AttachedTo(c, p)
    BY <1>2, <2>1, <2>2 DEF AttachedTo, TypeOK
  <2>4. QED
    BY <2>3 DEF TableInv, LinkBothEnds
<1>7. DeathIsClosed'
  <2> SUFFICES ASSUME NEW p \in registered', NEW c \in registered',
                      c \in children[p], parent[c] = p, kill[p] # None
               PROVE  kill[c] # None
    BY <1>2 DEF DeathIsClosed
  <2>1. p \in Ids /\ p # r.id
    BY <1>1, <1>2, <1>5 DEF TypeOK
  <2>2. c # r.id
    BY <1>5, <2>1, NoneAssumption
  <2>3. QED
    BY <1>2, <2>1, <2>2 DEF TableInv, DeathIsClosed
<1>8. QED
  BY <1>3, <1>4, <1>6, <1>7 DEF TableInv

LEMMA RollBackInv ==
    ASSUME TypeOK, TableInv, NEW h \in Handlers, RollBack(h)
    PROVE  TableInv'
<1> DEFINE i == adding[h].id
<1>1. /\ registered' = registered \ {i}
      /\ created' = [created EXCEPT ![i] = None]
      /\ health' = [health EXCEPT ![i] = None]
      /\ parent' = [parent EXCEPT ![i] = None]
      /\ parentTime' = [parentTime EXCEPT ![i] = None]
      /\ children' = [children EXCEPT ![i] = {}]
      /\ kill' = [kill EXCEPT ![i] = None]
      /\ data' = [data EXCEPT ![i] = {}]
      /\ now' = now
  BY DEF RollBack
<1>2. i \in Ids
  BY DEF RollBack, TypeOK, Request
<1> HIDE DEF i
<1>3. AbsentIsBlank'
  BY <1>1, <1>2 DEF TableInv, AbsentIsBlank, TypeOK
<1>4. Stamped'
  BY <1>1, <1>2 DEF TableInv, Stamped, TypeOK
<1>5. LinkBothEnds'
  BY <1>1, <1>2 DEF TableInv, LinkBothEnds, AttachedTo, TypeOK
<1>6. DeathIsClosed'
  BY <1>1, <1>2 DEF TableInv, DeathIsClosed, TypeOK
<1>7. QED
  BY <1>3, <1>4, <1>5, <1>6 DEF TableInv

LEMMA TableStep == TypeOK /\ TableInv /\ [Next]_vars => TableInv'
<1> SUFFICES ASSUME TypeOK, TableInv, [Next]_vars PROVE TableInv'
  OBVIOUS
<1>0. now \in Nat
  BY TimesAssumption DEF TypeOK, Times
<1>1. ASSUME NEW h \in Handlers, NEW ty \in AddTypes, NEW r \in Requests,
             TryAddInstance(h, ty, r)
      PROVE  TableInv'
  BY <1>1, TryAddInv
<1>2. ASSUME NEW h \in Handlers, CommitAdd(h)
      PROVE  TableInv'
  <2>1. adding[h] \in Request /\ Apply(adding[h]) /\ now' = now
    BY <1>2 DEF CommitAdd, TypeOK
  <2>2. QED
    BY <2>1, ApplyInv
<1>3. ASSUME NEW h \in Handlers, RejectAdd(h) \/ DropAdd(h)
      PROVE  TableInv'
  <2>1. UNCHANGED <<entries, now>>
    BY <1>3 DEF RejectAdd, DropAdd
  <2>2. QED
    BY <1>0, <2>1, IdleInv
<1>4. ASSUME NEW h \in Handlers, RollBack(h)
      PROVE  TableInv'
  BY <1>4, RollBackInv
<1>5. ASSUME NEW r \in Requests,
             TryUpdateInstanceDescription(r) \/ PostInstanceDescription(r)
      PROVE  TableInv'
  <2>1. Apply(r) /\ now' = now /\ r \in Request
    BY <1>5, InputsAssumption DEF TryUpdateInstanceDescription, PostInstanceDescription
  <2>2. QED
    BY <2>1, ApplyInv
<1>6. CASE KillLoopWake \/ KillLoopScan \/ KillLoopRest
  <2>1. UNCHANGED <<entries, now>>
    BY <1>6 DEF KillLoopWake, KillLoopScan, KillLoopRest
  <2>2. QED
    BY <1>0, <2>1, IdleInv
<1>7. ASSUME NEW i \in Ids, KillLoopKill(i)
      PROVE  TableInv'
  <2>1. now' = now /\ (Apply(Condemn(i)) \/ UNCHANGED entries)
    BY <1>7 DEF KillLoopKill
  <2>2. CASE Apply(Condemn(i))
    BY <2>1, <2>2, CondemnType, ApplyInv
  <2>3. CASE UNCHANGED entries
    BY <1>0, <2>1, <2>3, IdleInv
  <2>4. QED
    BY <2>1, <2>2, <2>3
<1>8. CASE Tick
  <2>1. UNCHANGED entries /\ now' \in Nat /\ now' >= now
    BY <1>0, <1>8 DEF Tick
  <2>2. QED
    BY <2>1, IdleInv
<1>9. CASE UNCHANGED vars
  <2>1. UNCHANGED <<entries, now>>
    BY <1>9 DEF vars
  <2>2. QED
    BY <1>0, <2>1, IdleInv
<1>10. QED
  BY <1>1, <1>2, <1>3, <1>4, <1>5, <1>6, <1>7, <1>8, <1>9 DEF Next

LEMMA OwnershipStep == TypeOK /\ StubOwnership /\ [Next]_vars => StubOwnership'
<1> SUFFICES ASSUME TypeOK, StubOwnership, [Next]_vars PROVE StubOwnership'
  OBVIOUS
<1>1. ASSUME NEW h \in Handlers, NEW ty \in AddTypes, NEW r \in Requests,
             TryAddInstance(h, ty, r)
      PROVE  StubOwnership'
  <2>1. /\ r.id \notin registered /\ registered' = registered \cup {r.id}
        /\ step' = [step EXCEPT ![h] = "inserted"]
        /\ adding' = [adding EXCEPT ![h] = r]
    BY <1>1 DEF TryAddInstance
  <2>2. \A g \in Handlers \ {h} : step[g] # "idle" => adding[g].id \in registered
    BY DEF StubOwnership
  <2>3. QED
    BY <2>1, <2>2 DEF StubOwnership, TypeOK
<1>2. ASSUME NEW h \in Handlers, CommitAdd(h)
      PROVE  StubOwnership'
  <2>1. adding[h] \in Request /\ Apply(adding[h]) /\ Finish(h)
    BY <1>2 DEF CommitAdd, TypeOK
  <2>2. registered' = registered
    BY <2>1, ApplyTypes
  <2>3. QED
    BY <2>1, <2>2 DEF StubOwnership, Finish, TypeOK
<1>3. ASSUME NEW h \in Handlers, RejectAdd(h)
      PROVE  StubOwnership'
  BY <1>3 DEF RejectAdd, StubOwnership, TypeOK, entries
<1>4. ASSUME NEW h \in Handlers, RollBack(h)
      PROVE  StubOwnership'
  <2>1. /\ step[h] # "idle" /\ Finish(h)
        /\ registered' = registered \ {adding[h].id}
    BY <1>4 DEF RollBack
  <2>2. QED
    BY <2>1 DEF StubOwnership, Finish, TypeOK
<1>5. ASSUME NEW h \in Handlers, DropAdd(h)
      PROVE  StubOwnership'
  BY <1>5 DEF DropAdd, Finish, StubOwnership, TypeOK, entries
<1>6. ASSUME UNCHANGED <<registered, handlers>>
      PROVE  StubOwnership'
  BY <1>6 DEF StubOwnership, handlers
<1>7. ASSUME NEW r \in Requests,
             TryUpdateInstanceDescription(r) \/ PostInstanceDescription(r)
      PROVE  UNCHANGED <<registered, handlers>>
  <2>1. Apply(r) /\ UNCHANGED handlers /\ r \in Request
    BY <1>7, InputsAssumption DEF TryUpdateInstanceDescription, PostInstanceDescription
  <2>2. QED
    BY <2>1, ApplyTypes
<1>8. CASE KillLoopWake \/ KillLoopScan \/ KillLoopRest \/ Tick \/ UNCHANGED vars
  BY <1>6, <1>8 DEF KillLoopWake, KillLoopScan, KillLoopRest, Tick, vars, entries
<1>9. ASSUME NEW i \in Ids, KillLoopKill(i)
      PROVE  UNCHANGED <<registered, handlers>>
  <2>1. UNCHANGED handlers /\ (Apply(Condemn(i)) \/ UNCHANGED entries)
    BY <1>9 DEF KillLoopKill
  <2>2. QED
    BY <2>1, CondemnType, ApplyTypes DEF entries
<1>10. QED
  BY <1>1, <1>2, <1>3, <1>4, <1>5, <1>6, <1>7, <1>8, <1>9 DEF Next

\* The strengthening of the safety properties holds of every reachable state.
THEOREM Inductive == Spec => []IInv
<1>1. Init => IInv
  <2>1. Init => AbsentIsBlank /\ Stamped /\ StubOwnership /\ LinkBothEnds /\ DeathIsClosed
    BY DEF Init, AbsentIsBlank, Stamped, StubOwnership, LinkBothEnds, DeathIsClosed,
           AttachedTo
  <2>2. QED
    BY <2>1, TypeInit DEF IInv
<1>2. IInv /\ [Next]_vars => IInv'
  BY TypeStep, TableStep, OwnershipStep DEF IInv, TableInv
<1>3. QED
  BY <1>1, <1>2, PTL DEF Spec

\* No child outlives the parent it is attached to, however the parent died.
THEOREM ParentDeathAlwaysReaches == Spec => []ParentDeathReaches
<1>1. IInv => ParentDeathReaches
  BY DEF IInv, ParentDeathReaches, LinkBothEnds, DeathIsClosed, AttachedTo, TypeOK
<1>2. QED
  BY <1>1, Inductive, PTL

\* The entry a registration rolls back is the one it inserted.
THEOREM StubsAreOwned == Spec => []StubOwnership
<1>1. IInv => StubOwnership
  BY DEF IInv
<1>2. QED
  BY <1>1, Inductive, PTL

----------------------------------------------------------------------------
(* What a step may never do.                                               *)

LEMMA FrozenStep ==
    ASSUME TypeOK, [Next]_vars, NEW i \in registered \cap registered', kill[i] # None
    PROVE  /\ kill'[i] = kill[i] /\ health'[i] = health[i]
           /\ data'[i] = data[i] /\ children'[i] = children[i]
<1> DEFINE Frozen == /\ kill'[i] = kill[i] /\ health'[i] = health[i]
                     /\ data'[i] = data[i] /\ children'[i] = children[i]
<1>0. i \in Ids /\ i \notin Live
  BY DEF TypeOK, Live
<1>1. ASSUME NEW r \in Request, Apply(r)
      PROVE  Frozen
  <2>1. kill'[i] = kill[i] /\ children'[i] = children[i]
    BY <1>0, <1>1, ApplyDeaths, ApplyChildren
  <2>2. i # r.id
    BY <1>0, <1>1 DEF Apply, Accepts
  <2>3. health'[i] = health[i] /\ data'[i] = data[i]
    BY <1>1, <2>2 DEF Apply, HealthAfter, DataAfter, TypeOK
  <2>4. QED
    BY <2>1, <2>3
<1>2. CASE UNCHANGED entries
  BY <1>2 DEF entries
<1>3. ASSUME NEW h \in Handlers, NEW ty \in AddTypes, NEW r \in Requests,
             TryAddInstance(h, ty, r)
      PROVE  Frozen
  BY <1>3 DEF TryAddInstance
<1>4. ASSUME NEW h \in Handlers, RollBack(h)
      PROVE  Frozen
  <2>1. i # adding[h].id
    BY <1>4 DEF RollBack
  <2>2. QED
    BY <1>0, <1>4, <2>1 DEF RollBack, TypeOK
<1>5. ASSUME NEW h \in Handlers, CommitAdd(h)
      PROVE  Frozen
  BY <1>1, <1>5 DEF CommitAdd, TypeOK
<1>6. ASSUME NEW h \in Handlers, RejectAdd(h) \/ DropAdd(h)
      PROVE  Frozen
  BY <1>2, <1>6 DEF RejectAdd, DropAdd
<1>7. ASSUME NEW r \in Requests,
             TryUpdateInstanceDescription(r) \/ PostInstanceDescription(r)
      PROVE  Frozen
  BY <1>1, <1>7, InputsAssumption DEF TryUpdateInstanceDescription, PostInstanceDescription
<1>8. ASSUME NEW j \in Ids, KillLoopKill(j)
      PROVE  Frozen
  BY <1>1, <1>2, <1>8, CondemnType DEF KillLoopKill
<1>9. CASE KillLoopWake \/ KillLoopScan \/ KillLoopRest \/ Tick \/ UNCHANGED vars
  BY <1>2, <1>9 DEF KillLoopWake, KillLoopScan, KillLoopRest, Tick, vars
<1>10. QED
  BY <1>3, <1>4, <1>5, <1>6, <1>7, <1>8, <1>9 DEF Next

\* Nothing that arrives after a death changes the dead entry.
THEOREM DeadStaysFrozen == Spec => DeadIsFrozen
<1>1. ASSUME TypeOK, [Next]_vars
      PROVE  [\A i \in registered \cap registered' : kill[i] # None =>
                  /\ kill'[i] = kill[i]
                  /\ health'[i] = health[i]
                  /\ data'[i] = data[i]
                  /\ children'[i] = children[i]]_vars
  BY <1>1, FrozenStep
<1>2. QED
  BY <1>1, TypeCorrect, PTL DEF Spec, DeadIsFrozen

\* A request is a "Serve" step of the lifecycle.
LEMMA ApplyServes ==
    ASSUME TypeOK, NEW r \in Request, Apply(r), Provisional' \subseteq Provisional
    PROVE  Lifecycle!Serve
<1> DEFINE dead == {i \in registered : kill[i] # None}
<1>1. parent' \in [Ids -> Ids \cup {None}] /\ registered' = registered
  BY ApplyTypes
<1>2. ASSUME NEW i \in Ids, parent'[i] # parent[i]
      PROVE  i \in registered /\ parent[i] = None /\ parent'[i] \in registered \ (dead \cup {i})
  BY <1>2, ApplyClaims DEF Live
<1>3. dead' \subseteq registered /\ dead \subseteq dead'
  <2>1. \A i \in registered : kill[i] # None => kill'[i] = kill[i]
    BY ApplyDeaths DEF TypeOK
  <2>2. QED
    BY <1>1, <2>1
<1>4. QED
  BY <1>1, <1>2, <1>3 DEF Lifecycle!Serve

\* A step that leaves the table alone and starts no registration.
LEMMA IdleServes ==
    ASSUME TypeOK, UNCHANGED entries, Provisional' \subseteq Provisional
    PROVE  Lifecycle!Serve
BY DEF Lifecycle!Serve, entries, TypeOK

LEMMA ProvisionalShrinks ==
    ASSUME TypeOK, NEW h \in Handlers, Finish(h)
    PROVE  Provisional' \subseteq Provisional
BY DEF Finish, Provisional, TypeOK

LEMMA LifecycleStep ==
    ASSUME IInv, [Next]_vars
    PROVE  [Lifecycle!Next]_(Lifecycle!vars)
<1> USE DEF IInv
<1>1. ASSUME NEW h \in Handlers, NEW ty \in AddTypes, NEW r \in Requests,
             TryAddInstance(h, ty, r)
      PROVE  Lifecycle!Next
  <2>1. /\ r.id \in Ids \ registered /\ registered' = registered \cup {r.id}
        /\ kill' = kill /\ parent' = parent
    BY <1>1, InputsAssumption DEF TryAddInstance, Request
  <2>2. Provisional' = Provisional \cup {r.id}
    BY <1>1 DEF TryAddInstance, Provisional, TypeOK
  <2>3. kill[r.id] = None
    BY <2>1 DEF AbsentIsBlank
  <2>4. Lifecycle!Register(r.id)
    BY <2>1, <2>2, <2>3 DEF Lifecycle!Register
  <2>5. QED
    BY <2>1, <2>4 DEF Lifecycle!Next
<1>2. ASSUME NEW h \in Handlers, RollBack(h)
      PROVE  Lifecycle!Next
  <2>0. PICK i \in Ids : i = adding[h].id
    BY <1>2 DEF RollBack, TypeOK, Request
  <2>1. /\ step[h] = "rejected" /\ Finish(h)
        /\ registered' = registered \ {i}
        /\ parent' = [parent EXCEPT ![i] = None]
        /\ kill' = [kill EXCEPT ![i] = None]
    BY <1>2, <2>0 DEF RollBack
  <2>2. i \in Provisional
    BY <2>0, <2>1 DEF Provisional
  <2>3. Provisional' = Provisional \ {i}
    <3>1. \A g \in Handlers \ {h} : step[g] # "idle" => adding[g].id # i
      BY <2>0, <2>1 DEF StubOwnership
    <3>2. /\ \A g \in Handlers \ {h} : step'[g] = step[g] /\ adding'[g] = adding[g]
          /\ step'[h] = "idle"
      BY <2>1 DEF Finish, TypeOK
    <3>3. QED
      BY <2>0, <3>1, <3>2 DEF Provisional
  <2>4. Lifecycle!Withdraw(i)
    BY <2>1, <2>2, <2>3 DEF Lifecycle!Withdraw, TypeOK
  <2>5. QED
    BY <2>4 DEF Lifecycle!Next
<1>3. ASSUME NEW h \in Handlers, CommitAdd(h)
      PROVE  Lifecycle!Next
  <2>1. adding[h] \in Request /\ Apply(adding[h]) /\ Finish(h)
    BY <1>3 DEF CommitAdd, TypeOK
  <2>2. QED
    BY <2>1, ProvisionalShrinks, ApplyServes DEF Lifecycle!Next
<1>4. ASSUME NEW h \in Handlers, DropAdd(h)
      PROVE  Lifecycle!Next
  BY <1>4, ProvisionalShrinks, IdleServes DEF DropAdd, Lifecycle!Next
<1>5. ASSUME NEW h \in Handlers, RejectAdd(h)
      PROVE  Lifecycle!Next
  <2>1. Provisional' \subseteq Provisional
    BY <1>5 DEF RejectAdd, Provisional, TypeOK
  <2>2. QED
    BY <1>5, <2>1, IdleServes DEF RejectAdd, Lifecycle!Next
<1>6. ASSUME UNCHANGED handlers
      PROVE  Provisional' \subseteq Provisional
  BY <1>6 DEF handlers, Provisional
<1>7. ASSUME NEW r \in Requests,
             TryUpdateInstanceDescription(r) \/ PostInstanceDescription(r)
      PROVE  Lifecycle!Next
  <2>1. Apply(r) /\ UNCHANGED handlers /\ r \in Request
    BY <1>7, InputsAssumption DEF TryUpdateInstanceDescription, PostInstanceDescription
  <2>2. QED
    BY <1>6, <2>1, ApplyServes DEF Lifecycle!Next
<1>8. ASSUME NEW i \in Ids, KillLoopKill(i)
      PROVE  Lifecycle!Next
  <2>1. UNCHANGED handlers /\ (Apply(Condemn(i)) \/ UNCHANGED entries)
    BY <1>8 DEF KillLoopKill
  <2>2. QED
    BY <1>6, <2>1, CondemnType, ApplyServes, IdleServes DEF Lifecycle!Next
<1>9. CASE KillLoopWake \/ KillLoopScan \/ KillLoopRest \/ Tick \/ UNCHANGED vars
  <2>1. UNCHANGED <<entries, handlers>>
    BY <1>9 DEF KillLoopWake, KillLoopScan, KillLoopRest, Tick, vars
  <2>2. QED
    BY <1>6, <2>1, IdleServes DEF Lifecycle!Next
<1>10. QED
  BY <1>1, <1>2, <1>3, <1>4, <1>5, <1>7, <1>8, <1>9 DEF Next

\* The instance manager implements the lifecycle it promises for each instance.
THEOREM Refinement == Spec => ImplementsLifecycle
<1>1. Init => Lifecycle!Init
  BY DEF Init, Lifecycle!Init, Provisional
<1>2. QED
  BY <1>1, LifecycleStep, Inductive, PTL DEF Spec, ImplementsLifecycle, Lifecycle!Spec
=============================================================================
