-------------------------- MODULE StatusPageProofs --------------------------
(***************************************************************************)
(* Proofs about the cached status page: what a viewer gets is never older  *)
(* than the cache allows, whatever the table, the clock and the other      *)
(* viewers do between the steps of a refresh.                              *)
(***************************************************************************)
EXTENDS StatusPage, InstanceManagerProofs, FiniteSetTheorems

Row == [registered : Times, connected : OptionalTime, dead : BOOLEAN]
Tables == UNION {[S -> Row] : S \in SUBSET Ids}

\* No row is younger than the copy.
StampedBy(table, t) ==
    \A i \in DOMAIN table :
        /\ table[i].registered <= t
        /\ table[i].connected # None => table[i].connected <= t

\* The cache's mutex has one holder.
OneHolder == \A v, w \in Holders : v = w

\* What a viewer's handler carries: its clock was read after it arrived, its copy
\* was taken after that, and is at least as new as the page in the cache.
VisitOK(v) ==
    /\ visit[v].at \in {"away", "waiting", "reading", "rendering", "served", "old page"}
    /\ visit[v].at \in {"waiting", "reading", "rendering"} => visit[v].arrived \in 0 .. now
    /\ visit[v].at \in {"reading", "rendering"} => visit[v].clock \in visit[v].arrived .. now
    /\ visit[v].at = "rendering" =>
          /\ visit[v].table \in Tables
          /\ visit[v].taken \in visit[v].clock .. now
          /\ StampedBy(visit[v].table, visit[v].taken)
          /\ cached # None => cached.taken <= visit[v].taken

CacheOK ==
    /\ cached \in Dashboard \cup {None} /\ cacheTime \in Int
    /\ cached = None => cacheTime = -(2 * CacheExpiration)
    /\ cached # None => 0 <= cacheTime /\ cacheTime <= cached.taken /\ cached.taken <= now

\* An instance that has a connection time has a parent.
Linked == \A i \in Ids : parentTime[i] # None => parent[i] # None

\* The inductive invariant of the page.
PageInv ==
    /\ visit = [v \in Viewers |-> visit[v]]
    /\ OneHolder /\ CacheOK /\ NewestListed
    /\ \A v \in Viewers : VisitOK(v)

----------------------------------------------------------------------------
(* What the page needs of the table.                                       *)

\* The steps of the page are stuttering steps of the table.
LEMMA PageIsTable == PageSpec => Spec
<1>1. PageInit => Init
  BY DEF PageInit
<1>2. [PageNext]_allVars => [Next]_vars
  BY DEF PageNext, allVars, pageVars, Arrive, LockCache, ViewerStep, CopyTable, Render,
         RenderFails, Leave
<1>3. QED
  BY <1>1, <1>2, PTL DEF PageSpec, Spec

\* Time does not go back.
LEMMA ClockStep ==
    ASSUME TypeOK, [Next]_vars
    PROVE  now' >= now
<1>1. now \in Nat
  BY TimesAssumption DEF TypeOK, Times
<1>2. now' = now \/ now' = now + 1
  BY DEF Next, TryAddInstance, CommitAdd, RejectAdd, RollBack, DropAdd,
         TryUpdateInstanceDescription, PostInstanceDescription, KillLoopWake, KillLoopScan,
         KillLoopRest, KillLoopKill, Tick, vars
<1>3. QED
  BY <1>1, <1>2

LEMMA ApplyLinked ==
    ASSUME TypeOK, Linked, NEW r \in Request, Apply(r)
    PROVE  Linked'
<1> SUFFICES ASSUME NEW i \in Ids, parentTime'[i] # None PROVE parent'[i] # None
  BY DEF Linked
<1>1. CASE parent'[i] # parent[i]
  BY <1>1, ApplyClaims, NoneAssumption DEF Live, TypeOK
<1>2. CASE parent'[i] = parent[i]
  <2>1. parentTime'[i] = parentTime[i]
    BY <1>2 DEF Apply
  <2>2. QED
    BY <1>2, <2>1 DEF Linked
<1>3. QED
  BY <1>1, <1>2

LEMMA LinkedStep == TypeOK /\ Linked /\ [Next]_vars => Linked'
<1> SUFFICES ASSUME TypeOK, Linked, [Next]_vars PROVE Linked'
  OBVIOUS
<1>1. ASSUME UNCHANGED <<parent, parentTime>> PROVE Linked'
  BY <1>1 DEF Linked
<1>2. ASSUME NEW h \in Handlers, CommitAdd(h) PROVE Linked'
  BY <1>2, ApplyLinked DEF CommitAdd, TypeOK
<1>3. ASSUME NEW h \in Handlers, RollBack(h) PROVE Linked'
  BY <1>3 DEF RollBack, Linked, TypeOK
<1>4. ASSUME NEW r \in Requests,
             TryUpdateInstanceDescription(r) \/ PostInstanceDescription(r)
      PROVE  Linked'
  BY <1>4, ApplyLinked, InputsAssumption
     DEF TryUpdateInstanceDescription, PostInstanceDescription
<1>5. ASSUME NEW i \in Ids, KillLoopKill(i) PROVE Linked'
  BY <1>1, <1>5, ApplyLinked, CondemnType DEF KillLoopKill, entries
<1>6. ASSUME NEW h \in Handlers, NEW ty \in AddTypes, NEW r \in Requests,
             TryAddInstance(h, ty, r)
      PROVE  Linked'
  BY <1>1, <1>6 DEF TryAddInstance
<1>7. ASSUME NEW h \in Handlers, RejectAdd(h) \/ DropAdd(h) PROVE Linked'
  BY <1>1, <1>7 DEF RejectAdd, DropAdd, entries
<1>8. CASE KillLoopWake \/ KillLoopScan \/ KillLoopRest \/ Tick \/ UNCHANGED vars
  BY <1>1, <1>8 DEF KillLoopWake, KillLoopScan, KillLoopRest, Tick, vars, entries
<1>9. QED
  BY <1>2, <1>3, <1>4, <1>5, <1>6, <1>7, <1>8 DEF Next

LEMMA TableBase == PageSpec => [](IInv /\ Linked)
<1>1. Init => Linked
  BY DEF Init, Linked
<1>2. Spec => []Linked
  <2>1. TypeOK /\ Linked /\ [Next]_vars => Linked'
    BY LinkedStep
  <2>2. QED
    BY <1>1, <2>1, TypeCorrect, PTL DEF Spec
<1>3. QED
  BY <1>2, PageIsTable, Inductive, PTL

\* A copy of the table has the type of one and is stamped by the clock.
LEMMA CopyIsStamped ==
    ASSUME IInv, Linked
    PROVE  Browsers \in Tables /\ StampedBy(Browsers, now)
<1> DEFINE D == {j \in registered : type[j] = "ChromeBrowser"}
<1>1. D \in SUBSET Ids /\ D \subseteq registered
  BY DEF IInv, TypeOK
<1>2. ASSUME NEW i \in D
      PROVE  /\ created[i] \in Times /\ created[i] <= now
             /\ parentTime[i] \in OptionalTime
             /\ parentTime[i] # None => parentTime[i] <= now
  <2>1. i \in Ids /\ i \in registered /\ now \in Times
    BY <1>1 DEF IInv, TypeOK
  <2>2. created[i] \in 0 .. now /\ (parent[i] # None => parentTime[i] \in 0 .. now)
    BY <2>1 DEF IInv, Stamped
  <2>3. QED
    BY <2>1, <2>2, TimesAssumption DEF Linked, IInv, TypeOK, Times
<1>3. Browsers = [i \in D |-> [registered |-> created[i], connected |-> parentTime[i],
                               dead |-> kill[i] # None]]
  BY DEF Browsers
<1>4. Browsers \in [D -> Row]
  BY <1>2, <1>3 DEF Row
<1>5. StampedBy(Browsers, now)
  BY <1>2, <1>3 DEF StampedBy
<1>6. QED
  BY <1>1, <1>4, <1>5 DEF Tables

----------------------------------------------------------------------------
(* The pages.                                                              *)

\* Up to the clock's bound an age is the difference it should be.
LEMMA AgeIsDifference ==
    ASSUME NEW t \in Times, NEW s \in 0 .. t
    PROVE  Elapsed(t, s) = t - s
<1>1. t - s \in 0 .. Word - 1
  BY TimesAssumption, PageAssumption DEF Times
<1>2. (t - s) % Word = t - s
  BY <1>1, TimesAssumption
<1>3. QED
  BY <1>2 DEF Elapsed

\* The youngest rows are the newest.
LEMMA YoungestAreNewest ==
    ASSUME NEW rows, NEW t \in Times, NEW since, \A i \in rows : since[i] \in 0 .. t,
           NEW some \in Youngest(rows, since, t)
    PROVE  some \subseteq rows /\ Newest(some, rows, since)
<1>1. some \subseteq rows
  BY DEF Youngest
<1>2. ASSUME NEW i \in some, NEW j \in rows \ some
      PROVE  since[i] >= since[j]
  <2>1. Elapsed(t, since[i]) <= Elapsed(t, since[j])
    BY DEF Youngest
  <2>2. since[i] \in 0 .. t /\ since[j] \in 0 .. t /\ t \in Nat
    BY <1>1, TimesAssumption DEF Times
  <2>3. t - since[i] <= t - since[j]
    BY <2>1, <2>2, AgeIsDifference
  <2>4. QED
    BY <2>2, <2>3
<1>3. QED
  BY <1>1, <1>2 DEF Newest

\* A page rendered from a copy has the type of one, says when the copy was taken,
\* and lists its newest rows.
LEMMA PageOfCopy ==
    ASSUME NEW table \in Tables, NEW taken \in Times, NEW t \in taken .. MaxTime,
           StampedBy(table, taken), NEW page \in Pages(table, taken, t)
    PROVE  /\ page \in Dashboard
           /\ page.of = table /\ page.taken = taken
           /\ ListsNewest(page)
<1> DEFINE all == DOMAIN table
           connected == {i \in all : table[i].connected # None}
           healthy == {i \in all : ~ table[i].dead}
           sinceConnected == [i \in connected |-> table[i].connected]
           sinceRegistered == [i \in all |-> table[i].registered]
<1>1. PICK S \in SUBSET Ids : table \in [S -> Row]
  BY DEF Tables
<1>2. all = S /\ all \in SUBSET Ids /\ \A i \in all : table[i] \in Row
  BY <1>1
<1>3. t \in Times /\ taken <= t
  BY TimesAssumption DEF Times
<1>4. \A i \in connected : sinceConnected[i] \in 0 .. t
  BY <1>2, <1>3, TimesAssumption DEF StampedBy, Row, OptionalTime, Times
<1>5. \A i \in all : sinceRegistered[i] \in 0 .. t
  BY <1>2, <1>3, TimesAssumption DEF StampedBy, Row, Times
<1>6. page \in [of : {table}, taken : {taken},
                all : {Cardinality(all)}, healthy : {Cardinality(healthy)},
                available : {Cardinality(healthy \ connected)},
                connections : Youngest(connected, sinceConnected, t),
                registrations : Youngest(all, sinceRegistered, t)]
  BY DEF Pages
<1>7. /\ page.connections \subseteq connected
      /\ Newest(page.connections, connected, sinceConnected)
  <2>1. page.connections \in Youngest(connected, sinceConnected, t)
    BY <1>6
  <2> HIDE DEF connected, sinceConnected
  <2>2. QED
    BY <1>3, <1>4, <2>1, YoungestAreNewest
<1>8. /\ page.registrations \subseteq all
      /\ Newest(page.registrations, all, sinceRegistered)
  <2>1. page.registrations \in Youngest(all, sinceRegistered, t)
    BY <1>6
  <2> HIDE DEF all, sinceRegistered
  <2>2. QED
    BY <1>3, <1>5, <2>1, YoungestAreNewest
<1>9. /\ Cardinality(all) \in Nat /\ Cardinality(healthy) \in Nat
      /\ Cardinality(healthy \ connected) \in Nat
  <2>1. ASSUME NEW T, T \subseteq Ids PROVE Cardinality(T) \in Nat
    BY <2>1, PageAssumption, FS_Subset, FS_CardinalityType
  <2>2. QED
    BY <1>2, <2>1
<1>10. page \in Dashboard
  <2>1. table \in UNION {[T -> Row] : T \in SUBSET Ids}
    BY DEF Tables
  <2>2. page.connections \in SUBSET Ids /\ page.registrations \in SUBSET Ids
    BY <1>2, <1>7, <1>8
  <2>3. page \in [of : Tables, taken : Times, all : Nat, healthy : Nat, available : Nat,
                  connections : SUBSET Ids, registrations : SUBSET Ids]
    BY <1>6, <1>9, <2>2
  <2>4. QED
    BY <2>3 DEF Dashboard, Tables, Row
<1>11. page.of = table /\ page.taken = taken
  BY <1>6
<1>12. ListsNewest(page)
  BY <1>7, <1>8, <1>11 DEF ListsNewest
<1>13. QED
  BY <1>10, <1>11, <1>12

\* A viewer's new state that satisfies VisitOK, with the cache and the clock as they
\* were, keeps the invariant; so does a step of the table.
LEMMA VisitStep ==
    ASSUME PageInv, NEW v \in Viewers, NEW new, visit' = [visit EXCEPT ![v] = new],
           UNCHANGED <<cacheTime, cached, now>>,
           new.at \in {"reading", "rendering"} => v \in Holders \/ Holders = {},
           VisitOK(v)'
    PROVE  PageInv'
<1>1. visit'[v] = new /\ \A w \in Viewers \ {v} : visit'[w] = visit[w]
  BY DEF PageInv
<1>2. visit' = [w \in Viewers |-> visit'[w]]
  BY DEF PageInv
<1>3. OneHolder'
  <2>1. Holders' \subseteq Holders \cup {v}
    BY <1>1 DEF Holders
  <2>2. v \in Holders' => v \in Holders \/ Holders = {}
    BY <1>1 DEF Holders
  <2>3. QED
    BY <2>1, <2>2 DEF PageInv, OneHolder
<1>4. \A w \in Viewers : VisitOK(w)'
  <2>1. ASSUME NEW w \in Viewers \ {v} PROVE VisitOK(w)'
    BY <1>1 DEF VisitOK, PageInv
  <2>2. QED
    BY <2>1
<1>5. CacheOK' /\ NewestListed'
  <2>1. CacheOK /\ NewestListed
    BY DEF PageInv
  <2>2. CacheOK'
    BY <2>1 DEF CacheOK
  <2>3. NewestListed'
    BY <2>1 DEF NewestListed
  <2>4. QED
    BY <2>2, <2>3
<1>6. QED
  BY <1>2, <1>3, <1>4, <1>5 DEF PageInv

\* A refresh that ends: its page is the next one in the cache.
LEMMA RenderStep ==
    ASSUME TypeOK, PageInv, NEW v \in Viewers, Render(v)
    PROVE  /\ PageInv'
           /\ cached' \in Dashboard /\ cached'.taken = visit[v].taken
<1>1. /\ visit' = [visit EXCEPT ![v] = [at |-> "served"]]
      /\ visit[v].at = "rendering" /\ cacheTime' = visit[v].clock /\ now' = now
      /\ cached' \in Pages(visit[v].table, visit[v].taken, now)
  BY DEF Render, Serve, vars
<1>2. VisitOK(v) /\ now \in Times
  BY DEF PageInv, TypeOK
<1>3. /\ visit[v].table \in Tables /\ StampedBy(visit[v].table, visit[v].taken)
      /\ visit[v].arrived \in Nat /\ visit[v].arrived <= visit[v].clock
      /\ visit[v].clock \in Nat /\ visit[v].clock <= visit[v].taken
      /\ visit[v].taken \in Times /\ visit[v].taken <= now
      /\ now \in visit[v].taken .. MaxTime
  BY <1>1, <1>2, TimesAssumption DEF VisitOK, Times
<1>4. /\ cached' \in Dashboard /\ cached'.taken = visit[v].taken
      /\ ListsNewest(cached')
  BY <1>1, <1>3, PageOfCopy
<1>5. cached' # None
  BY <1>4, NoneIsNoPage
<1>6. CacheOK'
  BY <1>1, <1>3, <1>4, <1>5 DEF CacheOK, Dashboard, Times, OptionalTime
<1>7. NewestListed'
  BY <1>4 DEF NewestListed, ListsNewest, Newest
<1>8. visit'[v] = [at |-> "served"] /\ \A w \in Viewers \ {v} : visit'[w] = visit[w]
  BY <1>1 DEF PageInv
<1>9. \A w \in Viewers \ {v} : visit[w].at \notin {"reading", "rendering"}
  BY <1>1 DEF PageInv, OneHolder, Holders
<1>10. \A w \in Viewers : VisitOK(w)'
  <2>1. ASSUME NEW w \in Viewers \ {v} PROVE VisitOK(w)'
    BY <1>1, <1>8, <1>9 DEF VisitOK, PageInv
  <2>2. VisitOK(v)'
    BY <1>8 DEF VisitOK
  <2>3. QED
    BY <2>1, <2>2
<1>11. OneHolder'
  BY <1>8, <1>9 DEF OneHolder, Holders
<1>12. visit' = [w \in Viewers |-> visit'[w]]
  BY <1>1 DEF PageInv
<1>13. QED
  BY <1>4, <1>6, <1>7, <1>10, <1>11, <1>12 DEF PageInv

LEMMA PageStep ==
    ASSUME IInv, Linked, TypeOK', PageInv, [PageNext]_allVars
    PROVE  PageInv'
<1> USE DEF IInv
<1>1. now \in Times /\ now \in Nat
  BY TimesAssumption DEF TypeOK, Times
<1>2. CASE [Next]_vars /\ UNCHANGED pageVars
  <2>1. now' >= now /\ now' \in Nat
    BY <1>2, ClockStep, TimesAssumption DEF TypeOK, Times
  <2>2. ASSUME NEW v \in Viewers PROVE VisitOK(v)'
    <3>1. VisitOK(v) /\ UNCHANGED <<cached, visit>>
      BY <1>2 DEF PageInv, pageVars
    <3>2. ASSUME visit[v].at \in {"waiting", "reading", "rendering"}
          PROVE  visit[v].arrived \in 0 .. now'
      <4>1. visit[v].arrived \in 0 .. now
        BY <3>1, <3>2 DEF VisitOK
      <4>2. QED
        BY <1>1, <2>1, <4>1
    <3>3. ASSUME visit[v].at \in {"reading", "rendering"}
          PROVE  visit[v].clock \in visit[v].arrived .. now'
      <4>1. visit[v].arrived \in 0 .. now /\ visit[v].clock \in visit[v].arrived .. now
        BY <3>1, <3>3 DEF VisitOK
      <4>2. QED
        BY <1>1, <2>1, <4>1
    <3>4. ASSUME visit[v].at = "rendering"
          PROVE  visit[v].taken \in visit[v].clock .. now'
      <4>1. /\ visit[v].arrived \in 0 .. now /\ visit[v].clock \in visit[v].arrived .. now
            /\ visit[v].taken \in visit[v].clock .. now
        BY <3>1, <3>4 DEF VisitOK
      <4>2. QED
        BY <1>1, <2>1, <4>1
    <3>5. QED
      BY <3>1, <3>2, <3>3, <3>4 DEF VisitOK
  <2>3. OneHolder' /\ NewestListed'
    BY <1>2 DEF PageInv, OneHolder, Holders, NewestListed, ListsNewest, Newest, pageVars
  <2>4. CacheOK'
    BY <1>1, <1>2, <2>1 DEF PageInv, CacheOK, Dashboard, pageVars, Times, OptionalTime
  <2>5. visit' = [v \in Viewers |-> visit'[v]]
    BY <1>2 DEF PageInv, pageVars
  <2>6. QED
    BY <2>2, <2>3, <2>4, <2>5 DEF PageInv
<1>3. ASSUME NEW v \in Viewers, Arrive(v) PROVE PageInv'
  <2>1. visit' = [visit EXCEPT ![v] = [at |-> "waiting", arrived |-> now]]
    BY <1>3 DEF Arrive
  <2>2. visit'[v] = [at |-> "waiting", arrived |-> now] /\ now' = now
    BY <1>3, <2>1 DEF Arrive, PageInv, vars
  <2>3. VisitOK(v)'
    BY <1>1, <2>2 DEF VisitOK
  <2>4. QED
    BY <1>3, <2>1, <2>3, VisitStep DEF Arrive, vars
<1>4. ASSUME NEW v \in Viewers, NEW outcome \in {"served", "old page"},
             Serve(v, outcome), UNCHANGED <<vars, cacheTime, cached>>
      PROVE  PageInv'
  <2>1. visit' = [visit EXCEPT ![v] = [at |-> outcome]] /\ visit'[v].at = outcome
    BY <1>4 DEF Serve, PageInv
  <2>2. VisitOK(v)'
    BY <2>1 DEF VisitOK
  <2>3. QED
    BY <1>4, <2>1, <2>2, VisitStep DEF vars
<1>5. ASSUME NEW v \in Viewers, LockCache(v) PROVE PageInv'
  <2> DEFINE new == [at |-> "reading", arrived |-> visit[v].arrived, clock |-> now]
  <2>1. CASE visit' = [visit EXCEPT ![v] = new]
    <3>1. visit[v].at = "waiting" /\ Holders = {} /\ UNCHANGED <<now, cacheTime, cached>>
      BY <1>5 DEF LockCache, vars
    <3>2. /\ visit'[v].at = "reading" /\ visit'[v].arrived = visit[v].arrived
          /\ visit'[v].clock = now
      BY <2>1 DEF PageInv
    <3>3. VisitOK(v)'
      <4>1. visit[v].arrived \in 0 .. now
        BY <3>1 DEF PageInv, VisitOK
      <4>2. visit'[v].arrived \in 0 .. now' /\ visit'[v].clock \in visit'[v].arrived .. now'
        BY <1>1, <3>1, <3>2, <4>1
      <4>3. QED
        BY <3>2, <4>2 DEF VisitOK
    <3>4. QED
      BY <2>1, <3>1, <3>3, VisitStep
  <2>2. QED
    BY <1>4, <1>5, <2>1 DEF LockCache
<1>6. ASSUME NEW v \in Viewers, CopyTable(v) PROVE PageInv'
  <2> DEFINE new == [at |-> "rendering", arrived |-> visit[v].arrived,
                     clock |-> visit[v].clock, table |-> Browsers, taken |-> now]
  <2>1. visit' = [visit EXCEPT ![v] = new] /\ visit[v].at = "reading"
    BY <1>6 DEF CopyTable
  <2>2. UNCHANGED <<now, cacheTime, cached>>
    BY <1>6 DEF CopyTable, vars
  <2>3. v \in Holders
    BY <2>1 DEF Holders
  <2>4. visit'[v] = new
    BY <2>1 DEF PageInv
  <2>5. Browsers \in Tables /\ StampedBy(Browsers, now)
    BY CopyIsStamped
  <2>6. VisitOK(v)'
    <3>1. /\ visit[v].arrived \in 0 .. now
          /\ visit[v].clock \in visit[v].arrived .. now
      BY <2>1 DEF PageInv, VisitOK
    <3>2. cached # None => cached.taken <= now
      BY DEF PageInv, CacheOK
    <3>3. QED
      BY <1>1, <2>2, <2>4, <2>5, <3>1, <3>2 DEF VisitOK
  <2>7. QED
    BY <2>1, <2>2, <2>3, <2>6, VisitStep
<1>7. ASSUME NEW v \in Viewers, Render(v) PROVE PageInv'
  BY <1>7, RenderStep
<1>8. ASSUME NEW v \in Viewers, RenderFails(v) PROVE PageInv'
  BY <1>4, <1>8 DEF RenderFails
<1>9. ASSUME NEW v \in Viewers, Leave(v) PROVE PageInv'
  <2>1. visit' = [visit EXCEPT ![v] = Away] /\ visit'[v].at = "away"
    BY <1>9 DEF Leave, PageInv, Away
  <2>2. VisitOK(v)'
    BY <2>1 DEF VisitOK
  <2>3. QED
    BY <1>9, <2>1, <2>2, VisitStep DEF Leave, vars, Away
<1>10. QED
  BY <1>2, <1>3, <1>5, <1>6, <1>7, <1>8, <1>9 DEF PageNext, ViewerStep, allVars

----------------------------------------------------------------------------
(* The theorems.                                                           *)

LEMMA PageInductive == PageSpec => [](PageInv /\ IInv)
<1>1. ASSUME PageInit PROVE PageInv
  <2>1. visit = [v \in Viewers |-> Away] /\ \A v \in Viewers : visit[v].at = "away"
    BY <1>1 DEF PageInit, Away
  <2>2. OneHolder /\ \A v \in Viewers : VisitOK(v)
    BY <2>1 DEF OneHolder, Holders, VisitOK
  <2>3. CacheOK /\ NewestListed
    BY <1>1, PageAssumption DEF PageInit, CacheOK, NewestListed
  <2>4. QED
    BY <2>1, <2>2, <2>3 DEF PageInv
<1>2. IInv /\ Linked /\ IInv' /\ PageInv /\ [PageNext]_allVars => PageInv'
  BY PageStep DEF IInv
<1>3. QED
  BY <1>1, <1>2, TableBase, PTL DEF PageSpec

\* Every variable of the page holds a value of its type, and the cache is dated
\* neither ahead of the copy it shows nor ahead of the clock.
THEOREM PageTypeCorrect == PageSpec => []PageTypeOK
<1>1. PageInv /\ IInv => PageTypeOK
  BY DEF PageInv, CacheOK, VisitOK, IInv, PageTypeOK
<1>2. QED
  BY <1>1, PageInductive, PTL

\* The rows a page lists are the newest, whenever the table was copied and the page
\* rendered.
THEOREM NewestAlwaysListed == PageSpec => []NewestListed
<1>1. PageInv => NewestListed
  BY DEF PageInv
<1>2. QED
  BY <1>1, PageInductive, PTL

\* What one step does to the page in the cache and to the viewer that is served.
LEMMA PagesStep ==
    ASSUME PageInv, IInv, [PageNext]_allVars
    PROVE  /\ cached # None /\ cached' # cached => cached'.taken >= cached.taken
           /\ \A v \in Viewers :
                 visit[v].at \in {"waiting", "rendering"} /\ visit'[v].at = "served"
                     => cached' # None /\ cached'.taken >= visit[v].arrived - CacheExpiration
<1> USE DEF IInv
<1>1. now \in Nat /\ TypeOK
  BY TimesAssumption DEF TypeOK, Times
<1>2. ASSUME NEW w \in Viewers, Render(w)
      PROVE  /\ cached # None => cached'.taken >= cached.taken
             /\ cached' # None
             /\ cached'.taken >= visit[w].arrived - CacheExpiration
             /\ \A v \in Viewers \ {w} : visit'[v] = visit[v]
  <2>1. visit[w].at = "rendering" /\ VisitOK(w)
    BY <1>2 DEF Render, PageInv
  <2>2. /\ visit[w].arrived \in 0 .. now /\ visit[w].clock \in visit[w].arrived .. now
        /\ visit[w].taken \in visit[w].clock .. now
        /\ cached # None => cached.taken <= visit[w].taken
    BY <2>1 DEF VisitOK
  <2>3. cached' \in Dashboard /\ cached'.taken = visit[w].taken
    BY <1>1, <1>2, RenderStep
  <2>4. cached # None => cached.taken \in Nat
    BY TimesAssumption DEF PageInv, CacheOK, Dashboard, Times
  <2>5. visit[w].taken >= visit[w].arrived - CacheExpiration
    BY <1>1, <2>2, PageAssumption
  <2>6. \A v \in Viewers \ {w} : visit'[v] = visit[v]
    BY <1>2 DEF Render, Serve, PageInv
  <2>7. QED
    BY <1>1, <2>2, <2>3, <2>4, <2>5, <2>6, NoneIsNoPage
<1>3. ASSUME NEW w \in Viewers, LockCache(w), visit'[w].at = "served"
      PROVE  cached # None /\ cached.taken >= visit[w].arrived - CacheExpiration
  <2>1. visit[w].at = "waiting" /\ ~ (now - cacheTime > CacheExpiration)
    BY <1>3 DEF LockCache, PageInv
  <2>2. visit[w].arrived \in 0 .. now
    BY <2>1 DEF PageInv, VisitOK
  <2>3. CacheOK
    BY DEF PageInv
  <2>4. cached # None
    BY <1>1, <2>1, <2>3, PageAssumption DEF CacheOK
  <2>5. cached.taken \in Nat
    BY <2>3, <2>4, TimesAssumption DEF CacheOK, Dashboard, Times
  <2>6. QED
    BY <1>1, <2>1, <2>2, <2>3, <2>4, <2>5, PageAssumption DEF CacheOK
<1>4. CASE \E w \in Viewers : Render(w)
  <2>1. PICK w \in Viewers : Render(w)
    BY <1>4
  <2>2. \A v \in Viewers \ {w} :
            ~ (visit[v].at \in {"waiting", "rendering"} /\ visit[v].at = "served")
    OBVIOUS
  <2>3. QED
    BY <1>2, <2>1, <2>2
<1>5. ASSUME ~ \E w \in Viewers : Render(w)
      PROVE  /\ cached' = cached
             /\ \A v \in Viewers :
                   visit[v].at \in {"waiting", "rendering"} /\ visit'[v].at = "served"
                       => LockCache(v)
  <2>1. CASE UNCHANGED pageVars
    BY <2>1 DEF pageVars
  <2>2. ASSUME NEW w \in Viewers, UNCHANGED cached,
               \A v \in Viewers \ {w} : visit'[v] = visit[v],
               visit'[w].at = "served" => LockCache(w)
        PROVE  \A v \in Viewers :
                   visit[v].at \in {"waiting", "rendering"} /\ visit'[v].at = "served"
                       => LockCache(v)
    BY <2>2
  <2>3. ASSUME NEW w \in Viewers,
               Arrive(w) \/ LockCache(w) \/ CopyTable(w) \/ RenderFails(w) \/ Leave(w)
        PROVE  /\ cached' = cached
               /\ \A v \in Viewers \ {w} : visit'[v] = visit[v]
               /\ visit'[w].at = "served" => LockCache(w)
    <3>1. CASE LockCache(w)
      BY <3>1 DEF LockCache, Serve, PageInv
    <3>2. CASE Arrive(w)
      BY <3>2 DEF Arrive, PageInv
    <3>3. CASE CopyTable(w)
      BY <3>3 DEF CopyTable, PageInv
    <3>4. CASE RenderFails(w)
      BY <3>4 DEF RenderFails, Serve, PageInv
    <3>5. CASE Leave(w)
      BY <3>5 DEF Leave, Away, PageInv
    <3>6. QED
      BY <2>3, <3>1, <3>2, <3>3, <3>4, <3>5
  <2>4. QED
    BY <1>5, <2>1, <2>2, <2>3 DEF PageNext, ViewerStep, allVars
<1>6. QED
  BY <1>3, <1>4, <1>5

\* No viewer is served a page older than the cache allows, the one whose own refresh
\* failed excepted.
THEOREM PagesAreFresh == PageSpec => FreshPages
<1>1. ASSUME PageInv, IInv, [PageNext]_allVars
      PROVE  [\A v \in Viewers :
                 visit[v].at \in {"waiting", "rendering"} /\ visit'[v].at = "served"
                     => cached' # None /\ cached'.taken >= visit[v].arrived - CacheExpiration]_allVars
  BY <1>1, PagesStep
<1>2. QED
  BY <1>1, PageInductive, PTL DEF PageSpec, FreshPages

\* Overlapping refreshes never put an older state of the table into the cache.
THEOREM PagesNeverGoBack == PageSpec => PagesMoveForward
<1>1. ASSUME PageInv, IInv, [PageNext]_allVars
      PROVE  [cached # None /\ cached' # cached => cached'.taken >= cached.taken]_allVars
  BY <1>1, PagesStep
<1>2. QED
  BY <1>1, PageInductive, PTL DEF PageSpec, PagesMoveForward
=============================================================================
