# A formal model of Tzafon-WayPoint

WayPoint runs fleets of headless browsers. This directory holds TLA+ modules for the part of it
that decides which browser is alive, who owns it and when it dies; TLC configurations that check
them on small instances; and proofs that TLAPS checks for every instance. Paths below are relative
to `src/apps/`.

## 1. The system

| Component | Source | State | Operations | Talks to |
|---|---|---|---|---|
| Instance manager: registry | `rust-instance-manager/src/service.rs`, `traits.rs`, `proto-definition/instance_manager.proto` | one table of instances behind one mutex | TryAddInstance, TryUpdateInstanceDescription, PostInstanceDescription, GetAllInstances, GetInstance | called by every process |
| Instance manager: kill loop | `service.rs` 34-106, 260-324 | clock read, verdicts still to apply | scan once a second, kill one by one | the registry, through the mutex |
| Registration and heart beat | `rust-shared/src/utils.rs` | failed beats in a row, cancellation token | add once, beat once a second, give up after 3 failures or 1 refusal | the registry |
| Browser container | `rust-instance-container/src/browser/{main,chrome,tzafonwright}.rs`, `src/lib.rs` | Chrome, Tzafonwright, gateway, token | start, register, exit when anything ends | the registry; accepts connections |
| Ephemeral browser proxy | `rust-instance-container/src/browser/ephemeral_browser_proxy.rs` | two listeners, one task per session | list, choose, claim, connect, kill on close | the registry, containers, clients |
| Socket gateway | `rust-shared/src/socket_gateway/{simple_gateway,http_proxy}.rs` | accept loop, sessions | read a request head, rewrite it, copy bytes both ways | under containers and proxies |
| System metrics loop | `rust-shared/src/metrics/mod.rs` | none | post metrics every 5 s | the registry |
| Status page | `rust-instance-manager/src/status_page.rs`, cache in `service.rs` 227-258 | cached page | render at most once a second | reads the registry |
| Tzafonwright | `tzafonwright/src/tzafonwright/{server,client,models}.py` | one Playwright page; one WebSocket per client | commands and results | Chrome; clients through the proxy |
| Set-up and tools | `server.rs`, `lib.rs`, `cli.rs`, `build.rs`, version check, deployment | none | | |

What is hard, and what makes each part correct:

* **Registry.** The requests race. A registration takes the mutex up to three times (stub,
  rest of the request, roll-back), and the server drops a handler between two of them when its
  client goes away. Relationships are stored at both ends. Correct means: each instance is
  registered once, claimed once and dead for good once dead; a roll-back removes only the stub of
  its own registration; the two ends of a relationship agree; a death reaches the descendants.
* **Kill cascade.** Child lists may hold duplicates, absent and dead entries and circles (two
  requests build one). Correct means: the loop ends and kills exactly the descendants.
* **Kill loop.** It reads the clock before it gets the mutex, and applies its verdicts later, one by
  one. Timestamps are `u64` and their difference wraps. Correct means: what is silent or too old
  dies, what is condemned deserved it.
* **Processes.** Calls fail before or after they are served, the manager restarts and forgets,
  children exit at any moment. Correct means: a container the manager gave up ends.
* **Container.** Chrome, Tzafonwright, the gateway, the heart beat and `main` each may end first, also
  while `main` is still starting the others. Correct means: the end of one is the end of all.
* **Gateway.** Bytes arrive before they are asked for, either side may finish first or break off, and the head
  is not passed on as it came: its bytes are read as characters, trimmed and written as UTF-8. Correct
  means: the server gets the rewritten head and then what the client sent, the session ends.
* **Status page.** Viewers share a cached page behind a second mutex, which is refreshed from a copy of
  the table; clocks are read before and after waits. Correct means: no page older than promised, no
  step back in time, the newest rows on it.
* **Tzafonwright.** Results are matched to commands by their order alone; callers that share a client are
  cancelled and connections break; every connection drives the one page, which the stop takes
  away. Correct means: a result answers its command, nothing waits for good, the page
  outlives the commands.
* **Proxy.** It lists, looks and claims in three calls. Correct means: one client per browser,
  a session on a claim of this proxy only, listeners that always come back.

`PROJECT.json` lists the components and, under "hazards", each such place with its line.

## 2. The modules

| Module | Models |
|---|---|
| `Descendants` | the set of instances that die with a killed one, as a least closed set |
| `InstanceManager` | the registry and the kill loop; extends `Descendants` |
| `InstanceLifecycle` | abstract: what clients are promised about one instance |
| `KillCascade` | the loop that computes `Descendants!Reached`, step by step |
| `Processes` | containers and proxies as clients of the registry: start, registration, heart beat, exit, crash, restart of the manager; extends `InstanceManager` |
| `BrowserProxy` | the whole fleet: listeners and sessions of the proxies; extends `Processes` |
| `ContainerLife` | abstract: what the manager and the proxies can rely on of a container |
| `BrowserContainer` | the inside of one container: children, watchers, gateway, beat, metrics, token, `main` |
| `HttpGateway` | one connection through the HTTP gateway, from the request head to `on_close` |
| `StatusPage` | the cached status page and its viewers; extends `InstanceManager` |
| `TzafonwrightServer` | the server's life, its connections and their handlers |
| `TzafonwrightClient` | the callers of a client, composed with the server it extends |
| `InstanceManagerProofs`, `KillCascadeProofs`, `StatusPageProofs`, `TzafonwrightProofs`, `FleetProofs`, `HttpGatewayProofs`, `BrowserContainerProofs` | theorems |
| `SequenceLemmas` | what the proofs about streams need of sequences, and induction over sets of numbers |
| `MCInstanceManager`, `MCKillCascade`, `MCBrowserProxy`, `MCHttpGateway`, `MCStatusPage`, `MCTzafonwright` | small instances for TLC |

### InstanceManager

State. The `HashMap` is split into one function per field (`type`, `created`, `health`, `parent`,
`parentTime`, `children`, `kill`, `data`) and the set of keys `registered`; an absent key holds
`None` or `{}`. `health` is the timestamp of the last `health_check`, `data` stands for the fields
that are stored and never read (`services`, the metrics). `step` and `adding` are the program
counters of the TryAddInstance handlers, `loop`, `loopClock` and `verdict` those of the kill loop.

Actions. One critical section is one action.

| Action | Code |
|---|---|
| `TryAddInstance` | shape check, first section of `insert_new_instance_description`: a vacant key gets a stub |
| `CommitAdd`, `RejectAdd`, `RollBack` | `apply_to_instance_description` on the stub; its refusal; the removal |
| `DropAdd` | the handler's future is dropped while it waits for the mutex |
| `TryUpdateInstanceDescription`, `PostInstanceDescription` | shape check and `apply_to_instance_description` |
| `KillLoopWake`, `KillLoopScan`, `KillLoopKill`, `KillLoopRest` | clock read; scan; one kill per step; the sleep |
| `Tick` | the wall clock |

`Apply(r)` is all of `apply_to_instance_description`: the checks in `Accepts`, the nine updates, both
ends of the relationships and the cascade. A refused request changes nothing, so it is a
stuttering step. A child list is a set here: its order and its duplicates matter to the loop only,
and `KillCascade` has them.

The five instance types nothing condemns are one value, `"Unmonitored"`. A request names a parent,
children, a kill, a heartbeat and data in any combination the handlers accept.

### Processes and BrowserProxy

Each container and each proxy is an identifier of the registry, and its registration is the handler
of the same name. `proc` is where `main` stands, `retries` the heart beat's counter, `cancelled` the
token. A call and the handling of its answer are one action, since the caller does nothing but
wait in between and then touches its own state only; a lost answer is an action of its own
(`BeatFails`, `ClaimFails`, `OnCloseFails` and `AddDropped`, each before or after the manager served the
call where that makes a difference). Processes do not come back under the same identifier: they
draw a fresh one at each start.

`at` is where a listener stands in `start_http_proxy_connection`: it accepts, reads the head
(without a time limit), lists, then takes the listed instances one by one: look (`GetInstance`),
claim (`Claim`, `ClaimFails`), connect. `session` is the task spawned for the connection. A proxy that
ends takes its listeners and sessions along (`EndOfProxy`), and no `on_close` runs. `served` counts the
sessions of a browser and is read by a property only.

### BrowserContainer and ContainerLife

`main` is where `browser/main.rs` stands, `child` and `watcher` are the two processes and the task that
`select!`s on each, `url` the oneshot channel that brings the DevTools line of Chrome's stderr. `main` looks
at nothing else while it starts the parts: if Chrome dies meanwhile, the pipe ends or the token waits
for it. `Ends` is the return of `main`: the runtime drops its tasks and `kill_on_drop` takes the
children along. What the manager answers is left open here; `Processes` has it, with the container's
inside left out. Both implement `ContainerLife`, so that neither lets the container do what the other
one rules out.

### HttpGateway

A stream is a sequence of lines (request line, header, empty line, data), a path the sequence of its
segments. Keys, values and segments are texts, members of the constant `Text`, on which the code does two
things that are constants too: `Trim` (`parse_header_line`) and `Utf8`. `read_until_empty_line` turns each byte into
the character of that number, which changes no number; `write_arr` writes the characters as UTF-8, so a byte
from 128 on leaves as two (`Written`). `ParsedHeaders` trims, before `ModifyRequest` compares the keys. What is copied
after the head is not converted. `sent` and `read` tell what is in the socket's buffer from what the gateway has taken; the head
is read up to the empty line and not beyond, rewritten (`ModifyRequest`, pure operators; `retain` is a recursive
function, `NotOverridden`), written line by
line, and then `copy_bidirectional` (external) runs until both sides have finished or one breaks. The
error paths before the session (`GiveUp`, a connection to the server that fails) never reach `on_close`.

### StatusPage

`LockCache` is the lock, the reading of the clock and the decision; `CopyTable` the copy under the
registry's mutex; `Render` and `RenderFails` the rendering and what is done with its result, under the
cache's mutex throughout. A viewer may leave at any point, which drops its handler and the mutex. The rows that
survive the truncation are a set: ties are broken by the order of a `HashMap`, so several sets are
possible. A page also carries, for the properties only, the table it shows and when it was copied.

### TzafonwrightServer and TzafonwrightClient

A connection is two queues and two ends, each end "unused", "open" or "closed". The library delivers in
order; when an end closes, the newest of what is under way may be lost. A command is a name: `Reply`
stands for everything `_process_command` may do, as each of its paths ends in one result, if it ends: of the
commands in `MayHang` that is not assumed (section 4). `phase` is where `start()` stands. On the client a step is the code between two awaits, so `send_action` is
`SendAction`, `Receive` (which reads `self.connection` again) and `Deliver`. `Cancel` leaves at one of the
awaits in `Cancellable`; `CancelledError` is not an `Exception`, so no handler of the client sees it.

## 3. The runs

| Run | Instance | Shows |
|---|---|---|
| `registry_races` | 3 instances, 2 handlers, claims, kills, adopt-and-kill; clock to 1, kill loop asleep | `TypeOK`, `StubOwnership`, `IInv`, `ParentDeathReaches`, `ImplementsLifecycle` |
| `registry_timing` | 1 watched instance of each type, heartbeats, metrics, a claimant; kill loop awake, clock to 3 | `DeadIsFrozen`, `SilentInstancesDie`, `BrowsersDoNotOutlive` |
| `kill_cascade` | every graph of 3 instances, lists of up to 2 entries, any of them dead or absent | `TypeOK`, `KillsDescendants`, `LoopEnds` |
| `fleet_claims` | 2 browsers, 1 proxy with 2 listeners, 1 retry, 1 restart of the manager; the clock stands | `FleetTypeOK`, `OneSessionPerBrowser`, `SessionsAreClaims` |
| `fleet_ends` | 1 browser, 1 proxy with 1 listener, 1 restart; kill loop awake, clock to 1, session limit 0 | `ContainersFollow`, `ListenersReturn`, `ContainersLive`, `ExpiredBrowsersEnd` |
| `container` | one container | `TypeOK`, `PartsAreThere`, `OneEndEndsAll`, `ImplementsLife` |
| `gateway` | 5 overrides, 7 client streams (data or a second request behind the head, padded and non-ASCII headers, malformed, without an end), 2 lines of answer | `TypeOK`, `StreamIsKept`, `NothingIsCutOff`, `HeadersAreOverridden`, `PathsStayClean`, `SessionsEnd` |
| `status_page` | 2 browsers, one of which claims the other, 2 viewers, clock to 2, 1 row per list | `PageTypeOK`, `NewestListed`, `FreshPages`, `PagesMoveForward`, `ViewersServed` |
| `tz_client` | 1 caller that is cancelled while it connects or closes only, 2 connections, 3 commands, one of which may never come back | `ClientTypeOK`, `RepliesInOrder`, `ResultIsOfAction`, `NoConnectionLeaked`, `PageOutlivesCommands`, `CallsEnd`, `ServerStops` |
| `finding_*` | the smallest instance that shows it | section 5 |

Why the bounds are enough.

* *Registry.* Three instances give chains, circles and a rival claimant; two handlers give a
  registration that races with another one for the same key. In `registry_races` the kill loop is
  asleep (`KillLoopSleeps`, a state constraint): its kills are kills of a client to the rest of the
  table. A relationship made from the parent's end comes with a kill there, which is the case in which
  the cascade has to see it; adoptions of every other kind are covered by the proofs. `registry_timing`
  has the loop awake and every request about the one instance it watches: the verdict on an instance
  depends on that instance's entry only.
* *Clocks.* Limits are scaled to one or two ticks, so that each is passed within the run; what
  counts is their order and which comes first. `Word` is 16 where the code has 2^64: a
  difference of at most `MaxTime` never reaches it, and a negative one wraps to a value above every
  limit, as in the code.
* *Cascade.* The run has every graph, not only the reachable ones.
* *Fleet.* In `fleet_claims` the clock stands, so that the kill loop condemns nobody and may sleep: deaths come
  from sessions, and forgetting from restarts. One restart is the one that loses a claim, one retry (the code has
  three) separates a failed beat from the last one. In `fleet_ends` time passes: with a session limit
  of zero a claim expires at the next tick, and the health limit lies beyond the clock, so that the session is
  what ends the browser. `MaxRetries` is zero there, as the count is the matter of the other run. Rivals in two
  proxies do what two listeners of one proxy do, except that a session names its proxy, which the proofs cover.
* *Status page.* A cache of one tick expires within two, `MaxItems` is one so that the truncation has
  something to drop. The kill loop sleeps; the page reads the table and never waits for the loop, and
  `ViewersServed` is thereby checked of the behaviours in which the loop does not run.
* *Gateway.* A head with a request line and three headers has one that is overridden, one that is not and one
  that differs in its spelling. Another head has its `Host` key padded, a padded value and a non-ASCII path
  and header; all texts beyond those that clients send are one, `longer`. What lies behind a head, two lines of data or a second head, can
  arrive with it, during the set-up or later. Longer streams, heads and paths are left to the proofs.
* *Tzafonwright.* The second connection is the one after a break, and the third command is the one
  that would get a stale reply. One command of three may hang: each of the others can come before it, after
  it or on the other connection. With one caller at most one command is outstanding on a connection; shared callers and those cancelled in `send_action` are left to the proofs
  (`RepliesInOrder`, `PageOutlivesCommands` and the types hold for any number of them, `NoConnectionLeaked`
  for one caller cancelled anywhere) and to `finding_reply`.

Symmetry is used in runs without liveness only. Every property has a mutant in `PROJECT.json`: a
plausible bug in one definition that makes its run fail. The mutant operators stand just before the
definition they replace.

## 4. Fairness

* `Fairness` (registry): weak fairness of the four kill-loop steps. The loop is a task the
  runtime schedules, it sleeps one second between rounds and tokio's mutex serves waiters in order.
  Nothing is assumed of clients; the clock may stop, and the liveness properties are
  of the form "what is overdue now is dealt with".
* `FleetFairness`: a heart beat that the manager would refuse is sent at last and is refused or fails (of
  those it would accept nothing is assumed, they may come as late as they like); `main` wakes when its
  token is cancelled; a listener past the request head takes its steps; `on_close` runs; the kill loop
  runs. Nothing is assumed of clients (who may never send a head or never close), children, crashes
  and the clock.
* `BrowserContainer!Fairness`: `main` takes its steps, each watcher notices its child or the token, and a
  pipe ends with its writer. The task that reads the pipe may end earlier (a read error, a line that is not
  UTF-8), and Chrome need not speak.
* `HttpGateway!Spec`: the gateway's own steps; the two ends do what they like.
* `PageFairness`: strong fairness of taking the cache's mutex (tokio's mutex is fair, and the viewer in
  front may be any number of others), weak fairness of the refresh.
* `TzafonwrightClient!Fairness`: the event loop runs what can run, the pings of an end find out that the other
  one is closed (both are configured with `ping_interval` and `ping_timeout`), Playwright starts, fails or stops,
  and a command outside `MayHang` comes back. Nothing is assumed of those in `MayHang`: the mouse and the
  keyboard have no time limit (`server.py:111`, 121, 129), and `goto` has the one its client names
  (`models.py:59`, `server.py:100-102`), where 0 is none. Such a command holds up its caller and the
  shutdown, so `CallsEnd` and `ServerStops` except exactly that: a handler that is on one for good. Without
  the exception TLC finds both violated.
* `KillCascade!FairSpec`: nothing awaits inside the loop.

The wall clock is assumed not to be set back while the manager runs. The code takes its timestamps from
`SystemTime` (`rust-shared/src/lib.rs:33`), which may be: timestamps would then be ahead of the clock and their
differences wrap. `NewestListed` (also as proved), `CondemnedWereSilent` and every property about limits that have or have
not passed are about clocks that stand or move forward, at any pace.

## 5. Where the code and its documents disagree

* `finding_wrap` (bug). `get_unhealth_instances` reads the clock and then waits for the mutex
  (`service.rs:262`). A registration, a heartbeat or a claim served during that wait has a later timestamp, the `u64`
  difference wraps in a release build, and the instance is condemned for silence
  (`service.rs:60` says it "has not sent any heartbeat for too long") just after it was heard of. The trace
  has the shortest case, an instance that registers during the wait.
* `finding_stale`. Types that `unhealth_instance` does not judge stay listed for good after their last
  heartbeat (`instance_manager.proto:40`).
* `finding_reply`. A call of `send_action` that is cancelled between its send and its recv (a caller's
  `asyncio.wait_for`) leaves its reply on the connection, and the next call returns it
  (`client.py:66`), although `client.py:52` says that the method "sends an action to the server and
  returns the Result". With one caller that is not cancelled there, `tz_client` shows that results
  answer their actions.

Three more places differ from what their documents say; reading shows them as well as a run would,
and they have none: the age limit of agents is compared with the last heartbeat instead
of the creation (`service.rs:92-97`) and cannot be reached; a child claimed by a stub that is rolled
back keeps the parent's name, and when a client registers that identifier again and kills it, the child
lives (`proto-definition/README.md:165`); a kill request that fails at the end of a session is
only logged, and the browser lives until the session limit (`deployment/README.md:12`), which is what
`ExpiredBrowsersEnd` says of it.

## 6. What is proved

For every set of instances, handlers, requests, viewers, connections, callers, containers, proxies and
listeners, every stream, path and list of headers, and every value of the limits:

| Module | Theorem | Says |
|---|---|---|
| `InstanceManagerProofs` | `TypeCorrect` | `Spec => []TypeOK` |
| | `Inductive` | `Spec => []IInv` |
| | `ParentDeathAlwaysReaches` | `Spec => []ParentDeathReaches` |
| | `StubsAreOwned` | `Spec => []StubOwnership` |
| | `DeadStaysFrozen` | `Spec => DeadIsFrozen` |
| | `Refinement` | `Spec => ImplementsLifecycle` |
| `KillCascadeProofs` | `LoopTypeCorrect` | `Spec => []TypeOK` |
| | `LoopKillsDescendants` | `Spec => []KillsDescendants` |
| `StatusPageProofs` | `PageTypeCorrect` | `PageSpec => []PageTypeOK` |
| | `NewestAlwaysListed` | `PageSpec => []NewestListed` |
| | `PagesAreFresh` | `PageSpec => FreshPages` |
| | `PagesNeverGoBack` | `PageSpec => PagesMoveForward` |
| `TzafonwrightProofs` | `TzTypeCorrect` | `Spec => []ClientTypeOK` |
| | `PageAlwaysOutlives` | `Spec => []PageOutlivesCommands` |
| | `RepliesAlwaysInOrder` | `Spec => []RepliesInOrder` |
| | `SoleCallerGetsItsResults` | `Spec => [](SoleCaller => ResultIsOfAction)` |
| | `SoleCallerLeaksNothing` | `Spec => [](NotShared => NoConnectionLeaked)` |
| `FleetProofs` | `FleetTypeCorrect` | `FleetSpec => []FleetTypeOK` |
| | `BrowsersServeOnce` | `FleetSpec => []OneSessionPerBrowser` |
| | `SessionsAreAlwaysClaims` | `FleetSpec => []SessionsAreClaims` |
| | `FleetContainersLive` | `FleetSpec => ContainersLive` |
| `HttpGatewayProofs` | `GatewayTypeCorrect` | `Spec => [](Given /\ TypeOK)` |
| | `StreamStaysWhole` | `Spec => []StreamIsKept` |
| | `SessionsAreComplete` | `Spec => []NothingIsCutOff` |
| | `OverridesApply` | `Spec => []HeadersAreOverridden` |
| | `PathsAreJoinedClean` | `Spec => []PathsStayClean` |
| `BrowserContainerProofs` | `ContainerTypeCorrect` | `Spec => []TypeOK` |
| | `PartsStayTogether` | `Spec => []PartsAreThere` |
| | `ContainerImplementsLife` | `Spec => ImplementsLife` |

Assumptions: the `ASSUME`s of the modules. `None` is outside the sets it completes, limits are
natural numbers, `Word` is positive, requests and types are of their types, child lists are
sequences of identifiers. For the page: the cache's age limit is positive, identifiers are finitely many
and `MaxTime < Word`, which says that the manager does not run for 2^64 ms; that the clock does not step back is part of
`Tick`. For Tzafonwright: the names of commands are none of the states of a handler or a call, and any of them
may hang. For the gateway: overrides and streams are made of paths, header lines and lines of the other kinds, the
keys of the overriding headers differ (`GatewayAssumption`), and of the conversions that nothing else is
written like an overridden key or like the empty text (`TextAssumption`: UTF-8 is one to one); a stream may be
malformed, empty or without the end of a head.
TLC evaluates them in every run.

*Registry.* "No child outlives its parent" (`ParentDeathReaches`) is not inductive. The cascade
follows `children`, the property speaks of `parent`, so `LinkBothEnds` has to relate the two. It
holds only for links to the entry that has the key now: a stub that is rolled back leaves
`parent` fields behind, and the key may be registered anew. `AttachedTo` tells them apart by the clock
(the link is younger than the entry), hence `Stamped`; a new entry starts with nothing, hence
`AbsentIsBlank`; and links recorded at both ends before are covered by `DeathIsClosed`, the step of
which rests on the lemma that `Reached` is a closed set. `StubOwnership` keeps a roll-back from removing
an entry others rely on, and is what the refinement needs.

*Cascade.* The invariant says that the dead are the dead from before, the root and some of its
descendants, and that every child of a killed entry is dead, absent or still on the stack; with an
empty stack the killed set is closed.

*Status page.* The steps of the page stutter on the table (`PageIsTable`), whose invariants therefore
hold. The mutex has one holder, the clock that holder read lies between its arrival and its copy, the copy
between that clock and now, and no row is younger than the copy. That orders all pages, and as no
difference of timestamps is negative, the truncation by age keeps the newest rows.

*Tzafonwright.* On each connection what was received and is under way answers a prefix of what was sent;
while the client listens and the handler works, what is due comes next, and while both ends are open
there is nothing else (`LineOK`). Breaks cut both at the newest end. A sole caller that is not cancelled in `send_action`
finds its connection quiet before it sends, so the first message that arrives answers its command. Both
hypotheses are needed: `finding_reply` is what a cancellation does.

*Fleet.* That a browser serves one client in its life survives the restarts of the manager, which forgets who
claimed it. The invariant therefore speaks of processes and not of the table alone: a browser with a heartbeat is
`Enrolled`, its registration is behind it, and as it never registers again, an entry it still has is the
one it always had. A claim in that entry is never taken back (`Held`, from `ApplyClaims`); so a browser that
had its session, or is being connected to, is claimed or forgotten for good, and the manager grants
a claim of a free, registered browser only. Most steps take nothing (`QuietKeeps`); the three that do,
`GetInstance`, `Claim` and `Connect`, have a lemma each.

`FleetContainersLive` looks at one container at a time: most steps of the fleet leave all of them as they are
(`Quiet`, `Moves`), and a step of one is a step of `ContainerLife` because a heart beat runs in a running
process only.

*Gateway.* `StreamIsKept` is not inductive: while the head is read nothing is at the server, and while it is
written part of what the server is to see is still with the gateway. `GatewayInv` says for each phase where each
line is: `pending` is the stream up to `read` (`HeadIsRead`); then it is the new head, of which what is
written, followed by the encoding of what is left, stays the encoding (`HeadIsRewritten`, `NewHead`); then the server has the new head
and the stream from `EndOf` to `read`. For `NothingIsCutOff`, an end is passed on
behind everything that side has sent (`EndsAreLast`). `OverridesApply` says of every head that each overriding header arrives once and
nothing else with its key (`OverridesOnce`, which needs that trimming comes before the comparison and that
encoding keeps keys apart), and of heads that the conversions leave alone (`Plain`) that the other headers
arrive as they were sent (`PlainHeadersKept`). That `retain` drops the overridden headers and no other, in order, is proved for headers of any
number: the recursive function exists (`RetainedExists`), and a statement about `NotOverridden` of every prefix is
shown by `SetInduction`. The induction theorems of the library take an operator as a parameter, which the
provers here cannot instantiate; `SequenceLemmas` derives from the minimum of a set (`WFMin`)
an induction about a *set* of numbers, and each use names the set.

*Container.* What has been started follows from where `main` stands (`Started`), and who has ended, the metrics loop
apart, has cancelled the token (`Watched`). Together these give `PartsAreThere`, and with them each step inside is
a step of `ContainerLife` or is not seen outside.

*A sole caller.* That a client leaks nothing needs to say what a call that connects or closes relies on: no
connection is open at the client's end meanwhile (`HeldInv`). Where the caller is cancelled does not
matter. That it is the only one does: two callers that connect at once leave a connection to nobody.

All invariants and all properties of steps that the runs check are proved, and so are the refinements. Only model-checked: the
liveness properties (`SilentInstancesDie`, `BrowsersDoNotOutlive`, `LoopEnds`, `ContainersFollow`,
`ListenersReturn`, `ExpiredBrowsersEnd`, `OneEndEndsAll`, `SessionsEnd`, `ViewersServed`, `CallsEnd`,
`ServerStops`), because they rest on fairness and `ENABLED`, which the prover does not handle; and the findings, which are
counterexamples.

## 7. Not modelled

Layout and wording, the templates, TLS, the command line, the version check (callers of one build
agree), the page of a single instance (it reads one entry and keeps nothing), the encoding of
commands and what each does to the page, the plain TCP gateway and `start_simple_http_gateway`, which nothing
calls, and the tables of `utils.py`, which nothing calls either. Dead instances are never removed from
the table: the model's identifiers are finite, and the code has no limit to check.

## 8. Plan

Done, in this order: registry; cascade; kill loop; abstract lifecycle and refinement; processes and fleet;
proofs of the registry and of the cascade; Tzafonwright; status page; gateway; inside of the container;
time in the fleet; proofs of the status page, of Tzafonwright, of the fleet, of the gateway and of the container.

Next: an abstract pool of browsers (idle, in use, dead) implemented by `BrowserProxy`, and the proof of it.
