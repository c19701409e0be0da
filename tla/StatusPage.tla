----------------------------- MODULE StatusPage -----------------------------
(***************************************************************************)
(* The status page of the instance manager: handle_get_browsers and        *)
(* create_status_page (service.rs) and the rendering of the dashboard      *)
(* (status_page.rs).  Viewers share a cached page behind a mutex of its    *)
(* own, which a refresh holds while it takes a copy of the table, under    *)
(* the table's mutex, and renders it on another thread.                    *)
(*                                                                         *)
(* The clock of the cache (Instant) and that of the timestamps             *)
(* (SystemTime) are the one clock of InstanceManager.                      *)
(***************************************************************************)
EXTENDS InstanceManager, FiniteSets

CONSTANTS
    Viewers,           \* requests for the page that may overlap
    CacheExpiration,   \* the second after which a page is refreshed
    MaxItems           \* MAX_ITEMS

ASSUME PageAssumption ==
    /\ CacheExpiration \in Nat \ {0} /\ MaxItems \in Nat
    /\ MaxTime < Word      \* ages do not wrap
    /\ IsFiniteSet(Ids)    \* a table in memory

VARIABLES
    cacheTime,   \* last_value.0
    cached,      \* last_value.1
    visit        \* what each viewer's request is doing

pageVars == <<cacheTime, cached, visit>>
allVars == <<vars, pageVars>>

Away == [at |-> "away"]
Holders == {v \in Viewers : visit[v].at \in {"reading", "rendering"}}

----------------------------------------------------------------------------
(* create_status_page and render.                                          *)

\* The copy of the table, as far as the page shows it.
Browsers == [i \in {j \in registered : type[j] = "ChromeBrowser"} |->
    [registered |-> created[i], connected |-> parentTime[i], dead |-> kill[i] # None]]

\* Sorted by age and truncated.  Rows of one age stand in the order of the
\* HashMap, which is arbitrary, so several results are possible.
Youngest(rows, since, t) ==
    {some \in SUBSET rows :
        /\ Cardinality(some) = IF Cardinality(rows) < MaxItems THEN Cardinality(rows) ELSE MaxItems
        /\ \A i \in some, j \in rows \ some : Elapsed(t, since[i]) <= Elapsed(t, since[j])}

\* A page, and the cache before the first one.
Dashboard ==
    [of : UNION {[S -> [registered : Times, connected : OptionalTime, dead : BOOLEAN]] :
                    S \in SUBSET Ids},
     taken : Times, all : Nat, healthy : Nat, available : Nat,
     connections : SUBSET Ids, registrations : SUBSET Ids]

ASSUME NoneIsNoPage == None \notin Dashboard

\* The pages that may come of a copy of the table rendered at time t.  "of" and
\* "taken" are not on the page: they say which state of the table it shows.
Pages(table, taken, t) ==
    LET all == DOMAIN table
        connected == {i \in all : table[i].connected # None}
        healthy == {i \in all : ~ table[i].dead}
    IN  [of : {table}, taken : {taken},
         all : {Cardinality(all)}, healthy : {Cardinality(healthy)},
         available : {Cardinality(healthy \ connected)},
         connections : Youngest(connected, [i \in connected |-> table[i].connected], t),
         registrations : Youngest(all, [i \in all |-> table[i].registered], t)]

----------------------------------------------------------------------------
(* handle_get_browsers.                                                    *)

Arrive(v) ==
    /\ visit[v].at = "away"
    /\ visit' = [visit EXCEPT ![v] = [at |-> "waiting", arrived |-> now]]
    /\ UNCHANGED <<vars, cacheTime, cached>>

\* The handler lets go of the mutex and answers with the page in the cache.
Serve(v, outcome) == visit' = [visit EXCEPT ![v] = [at |-> outcome]]

\* Mutant: the mutex is not kept during the refresh.
LockForTheLook(v) ==
    /\ visit[v].at = "waiting"
    /\ IF now - cacheTime > CacheExpiration
       THEN visit' = [visit EXCEPT ![v] =
                [at |-> "reading", arrived |-> visit[v].arrived, clock |-> now]]
       ELSE Serve(v, "served")
    /\ UNCHANGED <<vars, cacheTime, cached>>

\* The viewer gets the cache's mutex, reads the clock, and takes the page as it
\* is or starts a refresh.
LockCache(v) ==
    /\ visit[v].at = "waiting" /\ Holders = {}
    /\ IF now - cacheTime > CacheExpiration
       THEN visit' = [visit EXCEPT ![v] =
                [at |-> "reading", arrived |-> visit[v].arrived, clock |-> now]]
       ELSE Serve(v, "served")
    /\ UNCHANGED <<vars, cacheTime, cached>>

CopyTable(v) ==
    /\ visit[v].at = "reading"
    /\ visit' = [visit EXCEPT ![v] =
          [at |-> "rendering", arrived |-> visit[v].arrived, clock |-> visit[v].clock,
           table |-> Browsers, taken |-> now]]
    /\ UNCHANGED <<vars, cacheTime, cached>>

\* Mutant: the ages are computed with the clock the cache was judged by.
RenderByOldClock(v) ==
    /\ visit[v].at = "rendering"
    /\ cached' \in Pages(visit[v].table, visit[v].taken, visit[v].clock)
    /\ Serve(v, "served")
    /\ cacheTime' = visit[v].clock
    /\ UNCHANGED vars

\* Mutant: the page is dated when it is stored.
RenderDatedLate(v) ==
    /\ visit[v].at = "rendering"
    /\ cached' \in Pages(visit[v].table, visit[v].taken, now)
    /\ Serve(v, "served")
    /\ cacheTime' = now
    /\ UNCHANGED vars

\* create_status_page reads the wall clock when it has the copy.
Render(v) ==
    /\ visit[v].at = "rendering"
    /\ cached' \in Pages(visit[v].table, visit[v].taken, now)
    /\ Serve(v, "served")
    /\ cacheTime' = visit[v].clock
    /\ UNCHANGED vars

\* Mutant: the time is noted whether there is a new page or not.
RenderFailsStamped(v) ==
    /\ visit[v].at = "rendering"
    /\ Serve(v, "old page")
    /\ cacheTime' = visit[v].clock
    /\ UNCHANGED <<vars, cached>>

\* Mutant: the handler tries again, with the mutex in its hands.
RenderFailsRetried(v) ==
    /\ visit[v].at = "rendering"
    /\ visit' = [visit EXCEPT ![v] =
          [at |-> "reading", arrived |-> visit[v].arrived, clock |-> visit[v].clock]]
    /\ UNCHANGED <<vars, cacheTime, cached>>

\* The rendering thread panics: truncated_string cuts an identifier at its 29th
\* byte, which need not be the end of a character.  The old page is served.
RenderFails(v) ==
    /\ visit[v].at = "rendering"
    /\ Serve(v, "old page")
    /\ UNCHANGED <<vars, cacheTime, cached>>

\* The response is sent; or the viewer goes away earlier and the handler is
\* dropped, with the mutex if it holds it.
Leave(v) ==
    /\ visit[v].at # "away"
    /\ visit' = [visit EXCEPT ![v] = Away]
    /\ UNCHANGED <<vars, cacheTime, cached>>

ViewerStep(v) == CopyTable(v) \/ Render(v) \/ RenderFails(v)

\* The first page is due at once.
PageInit ==
    /\ Init
    /\ cacheTime = -(2 * CacheExpiration)
    /\ cached = None
    /\ visit = [v \in Viewers |-> Away]

PageNext ==
    \/ Next /\ UNCHANGED pageVars
    \/ \E v \in Viewers : Arrive(v) \/ LockCache(v) \/ ViewerStep(v) \/ Leave(v)

\* The mutex of the cache is fair and a rendering ends.
PageFairness ==
    \A v \in Viewers : SF_allVars(LockCache(v)) /\ WF_allVars(ViewerStep(v))

PageSpec == PageInit /\ [][PageNext]_allVars /\ PageFairness

----------------------------------------------------------------------------
(* Properties.                                                             *)

\* Every variable holds a value of its type, and the cache is never dated ahead
\* of the clock or of the copy it shows.
PageTypeOK ==
    /\ TypeOK
    /\ cached \in Dashboard \cup {None}
    /\ cached # None => 0 <= cacheTime /\ cacheTime <= cached.taken /\ cached.taken <= now
    /\ \A v \in Viewers :
          visit[v].at \in {"away", "waiting", "reading", "rendering", "served", "old page"}

(* A viewer sees the table as it was at most CacheExpiration before the    *)
(* request arrived, or later, however long it waited for the mutex and     *)
(* however long renderings take.  Only the viewer whose own refresh failed *)
(* is served an older page (service.rs:236-256).                           *)
FreshPages ==
    [][\A v \in Viewers :
          visit[v].at \in {"waiting", "rendering"} /\ visit'[v].at = "served"
              => cached' # None /\ cached'.taken >= visit[v].arrived - CacheExpiration]_allVars

(* Pages do not go back in time: two refreshes that overlap never leave    *)
(* the older state of the table in the cache (service.rs:236).             *)
PagesMoveForward ==
    [][cached # None /\ cached' # cached => cached'.taken >= cached.taken]_allVars

Newest(some, rows, since) ==
    \A i \in some, j \in rows \ some : since[i] >= since[j]

\* The rows a page lists are the latest of the table it shows.
ListsNewest(page) ==
    LET all == DOMAIN page.of
        connected == {i \in all : page.of[i].connected # None}
    IN  /\ Newest(page.registrations, all, [i \in all |-> page.of[i].registered])
        /\ Newest(page.connections, connected, [i \in connected |-> page.of[i].connected])

(* The rows left after truncation are the latest registrations and the     *)
(* latest connections: no timestamp is ahead of the clock the ages are     *)
(* computed with, which would make the newest row the oldest               *)
(* (service.rs:168, status_page.rs:103-121).                               *)
NewestListed == cached # None => ListsNewest(cached)

(* Every request that waits for the page gets one, unless its sender goes  *)
(* away (service.rs:227-258).                                              *)
ViewersServed ==
    \A v \in Viewers : visit[v].at = "waiting" ~> visit[v].at \in {"served", "old page", "away"}
=============================================================================
