---------------------------- MODULE BrowserProxy ----------------------------
(***************************************************************************)
(* The whole deployment: the instance manager, the browser containers and  *)
(* the ephemeral browser proxies (ephemeral_browser_proxy.rs on the        *)
(* gateway of rust-shared/src/socket_gateway).  A proxy has two listeners. *)
(* Each serves one incoming connection at a time until it is connected to  *)
(* a browser or given up; the connected ones run as tasks of their own.    *)
(***************************************************************************)
EXTENDS Processes

CONSTANT Ports   \* the ports a proxy listens on: "CDP", "TZAFONWRIGHT"

VARIABLES
    at,       \* where each listener stands in start_http_proxy_connection
    todo,     \* the listed instances it has not tried yet
    chosen,   \* the instance it is trying
    session,  \* what the session task of each browser does
    host,     \* the proxy that runs this task
    served    \* how many sessions each browser has had

Listeners == Proxies \X Ports
ProxyOf(l) == l[1]

listeners == <<at, todo, chosen>>
sessions == <<session, host, served>>
fleet == <<manager, local, restarts, listeners, sessions>>

FleetInit ==
    /\ ProcessesInit
    /\ at = [l \in Listeners |-> "accept"]
    /\ todo = [l \in Listeners |-> {}]
    /\ chosen = [l \in Listeners |-> None]
    /\ session = [b \in Browsers |-> "none"]
    /\ host = [b \in Browsers |-> None]
    /\ served = [b \in Browsers |-> 0]

FleetTypeOK ==
    /\ ProcessesTypeOK
    /\ at \in [Listeners -> {"accept", "head", "list", "choose", "claim", "connect"}]
    /\ todo \in [Listeners -> SUBSET Browsers]
    /\ chosen \in [Listeners -> Browsers \cup {None}]
    /\ session \in [Browsers -> {"none", "open", "closing"}]
    /\ host \in [Browsers -> Proxies \cup {None}]
    /\ served \in [Browsers -> Nat]

Serving(l) == proc[ProxyOf(l)] = "running"

\* Back to accept, with or without a session; what the attempt held is dropped.
Settle(l) ==
    /\ at' = [at EXCEPT ![l] = "accept"]
    /\ todo' = [todo EXCEPT ![l] = {}]
    /\ chosen' = [chosen EXCEPT ![l] = None]

----------------------------------------------------------------------------
(* start_http_proxy_connection and new_connection.                         *)

Accept(l) ==
    /\ at[l] = "accept" /\ Serving(l)
    /\ at' = [at EXCEPT ![l] = "head"]
    /\ UNCHANGED <<todo, chosen, manager, local, restarts, sessions>>

\* The client sends its request head, for which the listener waits without limit.
ReadHead(l) ==
    /\ at[l] = "head"
    /\ at' = [at EXCEPT ![l] = "list"]
    /\ UNCHANGED <<todo, chosen, manager, local, restarts, sessions>>

\* The client closes or sends no HTTP; or the list cannot be fetched; or no listed
\* instance could be claimed.
GiveUp(l) ==
    /\ at[l] \in {"head", "list"} \/ (at[l] = "choose" /\ todo[l] = {})
    /\ Settle(l)
    /\ UNCHANGED <<manager, local, restarts, sessions>>

ListInstances(l) ==
    /\ at[l] = "list"
    /\ at' = [at EXCEPT ![l] = "choose"]
    /\ todo' = [todo EXCEPT ![l] = GetAllInstances("ChromeBrowser")]
    /\ UNCHANGED <<chosen, manager, local, restarts, sessions>>

\* get_instance answers with a healthy, free and living instance.
Available(b) ==
    /\ b \in Live /\ parent[b] = None
    /\ health[b] # None /\ health[b] > now - HealthTimeout

\* Mutant: the instance stays on the list, to be tried again.
GetInstanceAgain(l, b) ==
    /\ at[l] = "choose" /\ b \in todo[l]
    /\ \/ /\ Available(b)
          /\ at' = [at EXCEPT ![l] = "claim"]
          /\ chosen' = [chosen EXCEPT ![l] = b]
       \/ UNCHANGED <<at, chosen>>
    /\ UNCHANGED <<todo, manager, local, restarts, sessions>>

GetInstance(l, b) ==
    /\ at[l] = "choose" /\ b \in todo[l]
    /\ todo' = [todo EXCEPT ![l] = @ \ {b}]
    /\ \/ /\ Available(b)
          /\ at' = [at EXCEPT ![l] = "claim"]
          /\ chosen' = [chosen EXCEPT ![l] = b]
       \/ UNCHANGED <<at, chosen>>   \* it is not, or the call fails
    /\ UNCHANGED <<manager, local, restarts, sessions>>

\* Mutant: the request of the claim does not name the proxy.
ClaimRequestBlank(l) == BlankRequest(chosen[l])

ClaimRequest(l) == [BlankRequest(chosen[l]) EXCEPT !.parent = ProxyOf(l)]

\* Mutant: any answer counts as success, Bool { value: false } too.
ClaimWhateverAnswer(l) ==
    /\ at[l] = "claim"
    /\ \/ TryUpdateInstanceDescription(ClaimRequest(l))
       \/ ~Accepts(ClaimRequest(l)) /\ UNCHANGED manager
    /\ at' = [at EXCEPT ![l] = "connect"]
    /\ UNCHANGED <<todo, chosen, local, restarts, sessions>>

Claim(l) ==
    /\ at[l] = "claim"
    /\ TryUpdateInstanceDescription(ClaimRequest(l))
    /\ at' = [at EXCEPT ![l] = "connect"]
    /\ UNCHANGED <<todo, chosen, local, restarts, sessions>>

\* The claim is refused, or fails before or after the manager served it: the
\* listener turns to the next instance.
ClaimFails(l) ==
    /\ at[l] = "claim"
    /\ TryUpdateInstanceDescription(ClaimRequest(l)) \/ UNCHANGED manager
    /\ at' = [at EXCEPT ![l] = "choose"]
    /\ chosen' = [chosen EXCEPT ![l] = None]
    /\ UNCHANGED <<todo, local, restarts, sessions>>

\* The session task starts.
Connect(l) ==
    LET b == chosen[l]
    IN  /\ at[l] = "connect"
        /\ proc[b] = "running"
        /\ session' = [session EXCEPT ![b] = "open"]
        /\ host' = [host EXCEPT ![b] = ProxyOf(l)]
        /\ served' = [served EXCEPT ![b] = @ + 1]
        /\ Settle(l)
        /\ UNCHANGED <<manager, local, restarts>>

\* The browser is gone or does not answer: the claim stays.
ConnectFails(l) ==
    /\ at[l] = "connect"
    /\ Settle(l)
    /\ UNCHANGED <<manager, local, restarts, sessions>>

----------------------------------------------------------------------------
(* The session task: copy_bidirectional, then on_close.                    *)

\* Both sides have finished, or a connection broke (HttpGateway).
SessionCloses(b) ==
    /\ session[b] = "open"
    /\ session' = [session EXCEPT ![b] = "closing"]
    /\ UNCHANGED <<host, served, manager, local, restarts, listeners>>

EndSession(b) ==
    /\ session' = [session EXCEPT ![b] = "none"]
    /\ host' = [host EXCEPT ![b] = None]
    /\ UNCHANGED served

KillRequest(b) == [BlankRequest(b) EXCEPT !.kill = "Killed"]

OnClose(b) ==
    /\ session[b] = "closing"
    /\ \/ TryUpdateInstanceDescription(KillRequest(b))
       \/ ~Accepts(KillRequest(b)) /\ UNCHANGED manager
    /\ EndSession(b)
    /\ UNCHANGED <<local, restarts, listeners>>

\* The call fails: a warning is logged.
OnCloseFails(b) ==
    /\ session[b] = "closing"
    /\ EndSession(b)
    /\ UNCHANGED <<manager, local, restarts, listeners>>

----------------------------------------------------------------------------
\* A proxy that ends takes its listeners and its session tasks along, and no
\* on_close runs; a container that ends leaves the sessions to notice.
EndOfProxy(i) ==
    LET mine(l) == ProxyOf(l) = i
        kept(b) == host[b] # i
    IN  /\ at' = [l \in Listeners |-> IF mine(l) THEN "accept" ELSE at[l]]
        /\ todo' = [l \in Listeners |-> IF mine(l) THEN {} ELSE todo[l]]
        /\ chosen' = [l \in Listeners |-> IF mine(l) THEN None ELSE chosen[l]]
        /\ session' = [b \in Browsers |-> IF kept(b) THEN session[b] ELSE "none"]
        /\ host' = [b \in Browsers |-> IF kept(b) THEN host[b] ELSE None]
        /\ UNCHANGED served

ProcessEnds(i) == (Exit(i) \/ Crash(i)) /\ EndOfProxy(i)

ProcessStep(i) ==
    /\ \/ Launch(i) \/ LaunchFails(i)
       \/ AddAccepted(i) \/ AddRejected(i) \/ AddRolledBack(i) \/ AddDropped(i)
       \/ ChildExits(i)
       \/ Beat(i) \/ BeatRefused(i) \/ BeatFails(i)
    /\ UNCHANGED <<listeners, sessions>>

ListenerStep(l) ==
    \/ Accept(l) \/ ReadHead(l) \/ GiveUp(l) \/ ListInstances(l)
    \/ \E b \in Browsers : GetInstance(l, b)
    \/ Claim(l) \/ ClaimFails(l) \/ Connect(l) \/ ConnectFails(l)

SessionStep(b) == SessionCloses(b) \/ OnClose(b) \/ OnCloseFails(b)

FleetNext ==
    \/ \E i \in Ids : ProcessStep(i) \/ ProcessEnds(i)
    \/ \E l \in Listeners : ListenerStep(l)
    \/ \E b \in Browsers : SessionStep(b)
    \/ (ManagerStep \/ RestartManager) /\ UNCHANGED <<listeners, sessions>>

FleetSpec == FleetInit /\ [][FleetNext]_fleet

----------------------------------------------------------------------------
(* Properties.                                                             *)

\* "Ensures each connection gets a fresh browser environment": whatever listeners
\* race for a browser, and across lost answers and restarts of the manager, it is
\* connected to one client in its life, and no second one is about to be.
OneSessionPerBrowser ==
    /\ \A b \in Browsers : served[b] <= 1
    /\ \A l \in Listeners : at[l] = "connect" =>
           /\ served[chosen[l]] = 0
           /\ \A m \in Listeners \ {l} : at[m] = "connect" => chosen[m] # chosen[l]

\* A browser in use is one the manager holds for this very proxy: unless the
\* manager has lost it, its entry names the proxy as its parent.
SessionsAreClaims ==
    /\ \A l \in Listeners : at[l] = "connect" /\ chosen[l] \in registered =>
           parent[chosen[l]] = ProxyOf(l)
    /\ \A b \in Browsers : session[b] # "none" /\ b \in registered =>
           parent[b] = host[b]

\* Calls return or fail, processes and tasks are scheduled, a closed connection is
\* noticed; a beat that the manager would refuse is sent in the end, while a beat
\* that it accepts need never fail.  Nothing is assumed of clients, children,
\* crashes and the clock.
FleetFairness ==
    /\ \A i \in Ids :
           /\ WF_fleet(/\ ~Accepts(BeatRequest(i))
                       /\ BeatRefused(i) \/ BeatFails(i)
                       /\ UNCHANGED <<listeners, sessions>>)
           /\ WF_fleet(Exit(i) /\ EndOfProxy(i))
    /\ \A l \in Listeners :
           WF_fleet(at[l] \notin {"accept", "head"} /\ ListenerStep(l))
    /\ \A b \in Browsers : WF_fleet(OnClose(b) \/ OnCloseFails(b))
    /\ WF_fleet((KillLoopWake \/ KillLoopScan \/ KillLoopRest \/ \E i \in Ids : KillLoopKill(i))
                 /\ UNCHANGED <<local, restarts, listeners, sessions>>)

FleetLiveSpec == FleetSpec /\ FleetFairness

\* A container whose instance is dead or forgotten ends (and its replacement
\* starts afresh): the refused heart beat, or the failing ones, bring it down.
ContainersFollow ==
    \A b \in Browsers : (proc[b] = "running" /\ b \notin Live) ~> proc[b] = "exited"

\* A browser whose session time is over ends, also when nobody serves or remembers
\* it any more: its claim was answered too late, the connection to it failed, its
\* on_close failed, or its proxy is gone.
Expired(b) == parent[b] # None /\ now - parentTime[b] > SessionLifetime
ExpiredBrowsersEnd ==
    \A b \in Browsers : (proc[b] = "running" /\ Expired(b)) ~> proc[b] = "exited"

\* A listener that has read a request head gets back to accept, whatever
\* happens to the instances on its list meanwhile.
ListenersReturn ==
    \A l \in Listeners : at[l] = "list" ~> at[l] = "accept"
=============================================================================
