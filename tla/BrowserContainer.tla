-------------------------- MODULE BrowserContainer --------------------------
(***************************************************************************)
(* Inside one browser container: main (browser/main.rs) starts Chrome, the *)
(* Tzafonwright server and the gateway, registers, and waits for the       *)
(* cancellation token.  Each child has a task that watches it; they, the   *)
(* listener, the heart beat and main share the token.  What the manager    *)
(* answers is left open.                                                   *)
(***************************************************************************)
Children == {"chrome", "tzafonwright"}

VARIABLES
    main,       \* where main stands
    child,      \* the processes it spawned
    watcher,    \* the task that watches each of them
    url,        \* the channel that brings the DevTools line of Chrome's stderr
    listener,   \* the task of the gateway
    beat,       \* the task of the heart beat
    metrics,    \* the task of the metrics loop
    token       \* the cancellation token is cancelled

vars == <<main, child, watcher, url, listener, beat, metrics, token>>
tasks == <<listener, beat, metrics>>

Task == {"none", "running", "ended"}

\* Every variable has its values, and no task outlives main.
TypeOK ==
    /\ main \in {"start chrome", "await url", "start tzafonwright", "start gateway",
                 "connect", "adding", "running", "exited"}
    /\ child \in [Children -> {"none", "up", "gone"}]
    /\ watcher \in [Children -> Task]
    /\ url \in {"none", "sent", "closed"}
    /\ {listener, beat, metrics} \subseteq Task
    /\ token \in BOOLEAN
    /\ main = "exited" => "running" \notin {listener, beat, metrics, watcher["chrome"], watcher["tzafonwright"]}

Init ==
    /\ main = "start chrome"
    /\ child = [c \in Children |-> "none"]
    /\ watcher = [c \in Children |-> "none"]
    /\ url = "none"
    /\ listener = "none" /\ beat = "none" /\ metrics = "none"
    /\ token = FALSE

----------------------------------------------------------------------------
(* main.                                                                   *)

Spawn(c, from, to) ==
    /\ main = from
    /\ main' = to
    /\ child' = [child EXCEPT ![c] = "up"]
    /\ watcher' = [watcher EXCEPT ![c] = "running"]
    /\ UNCHANGED <<url, tasks, token>>

StartChrome == Spawn("chrome", "start chrome", "await url")

UrlReceived ==
    /\ main = "await url" /\ url = "sent"
    /\ main' = "start tzafonwright"
    /\ UNCHANGED <<child, watcher, url, tasks, token>>

StartTzafonwright == Spawn("tzafonwright", "start tzafonwright", "start gateway")

StartGateway ==
    /\ main = "start gateway"
    /\ main' = "connect" /\ listener' = "running"
    /\ UNCHANGED <<child, watcher, url, beat, metrics, token>>

\* get_channel, and try_add_instance is called.
ConnectManager ==
    /\ main = "connect"
    /\ main' = "adding"
    /\ UNCHANGED <<child, watcher, url, tasks, token>>

Added ==
    /\ main = "adding"
    /\ main' = "running" /\ beat' = "running" /\ metrics' = "running"
    /\ UNCHANGED <<child, watcher, url, listener, token>>

\* Mutant: the children are spawned without kill_on_drop.
EndsAlone ==
    /\ main' = "exited"
    /\ watcher' = [c \in Children |-> "ended"]
    /\ listener' = "ended" /\ beat' = "ended" /\ metrics' = "ended"
    /\ UNCHANGED <<child, url, token>>

\* Mutant: the metrics loop has a runtime of its own.
EndsWithoutMetrics ==
    /\ main' = "exited"
    /\ child' = [c \in Children |-> IF child[c] = "up" THEN "gone" ELSE child[c]]
    /\ watcher' = [c \in Children |-> "ended"]
    /\ listener' = "ended" /\ beat' = "ended"
    /\ UNCHANGED <<url, metrics, token>>

\* main returns: the runtime drops its tasks, and the children with them, which
\* kills those that are up.
Ends ==
    /\ main' = "exited"
    /\ child' = [c \in Children |-> IF child[c] = "up" THEN "gone" ELSE child[c]]
    /\ watcher' = [c \in Children |-> "ended"]
    /\ listener' = "ended" /\ beat' = "ended" /\ metrics' = "ended"
    /\ UNCHANGED <<url, token>>

\* A child cannot be spawned, the reader of Chrome's stderr ends without the line,
\* the port is taken, the manager is out of reach or refuses the registration.
StartFails ==
    /\ \/ main \in {"start chrome", "start tzafonwright", "start gateway", "connect", "adding"}
       \/ main = "await url" /\ url = "closed"
    /\ Ends

\* Mutant: main returns when everything is started.
ExitAtOnce == main = "running" /\ Ends

Exit == main = "running" /\ token /\ Ends

MainStep ==
    \/ StartChrome \/ UrlReceived \/ StartTzafonwright \/ StartGateway
    \/ ConnectManager \/ Added \/ StartFails \/ Exit

----------------------------------------------------------------------------
(* The children and the tasks.                                             *)

ChildExits(c) ==
    /\ child[c] = "up"
    /\ child' = [child EXCEPT ![c] = "gone"]
    /\ UNCHANGED <<main, watcher, url, tasks, token>>

\* "DevTools listening on ..." on stderr.
ChromeSpeaks ==
    /\ child["chrome"] = "up" /\ url = "none"
    /\ url' = "sent"
    /\ UNCHANGED <<main, child, watcher, tasks, token>>

\* Mutant: the sender is kept when the task is through with the pipe.
StderrEndsQuietly ==
    /\ child["chrome"] # "none" /\ url = "none"
    /\ UNCHANGED vars

\* The stderr task ends with the pipe, or before it on a line that cannot be read, and
\* drops the sender.
StderrEnds ==
    /\ child["chrome"] # "none" /\ url = "none"
    /\ url' = "closed"
    /\ UNCHANGED <<main, child, watcher, tasks, token>>

\* The child has exited, which cancels the token; or the token is cancelled, and
\* the child is killed.
Watch(c) ==
    /\ watcher[c] = "running"
    /\ child[c] = "gone" \/ token
    /\ child' = [child EXCEPT ![c] = "gone"]
    /\ watcher' = [watcher EXCEPT ![c] = "ended"]
    /\ token' = TRUE
    /\ UNCHANGED <<main, url, tasks>>

\* An error of accept, or the token.
ListenerEnds ==
    /\ listener = "running"
    /\ listener' = "ended" /\ token' = TRUE
    /\ UNCHANGED <<main, child, watcher, url, beat, metrics>>

\* Refused, failed too often, or the token.
BeatEnds ==
    /\ beat = "running"
    /\ beat' = "ended" /\ token' = TRUE
    /\ UNCHANGED <<main, child, watcher, url, listener, metrics>>

\* The token, or a reading that panics: nobody else takes notice.
MetricsEnd ==
    /\ metrics = "running"
    /\ metrics' = "ended"
    /\ UNCHANGED <<main, child, watcher, url, listener, beat, token>>

Next ==
    \/ MainStep
    \/ \E c \in Children : ChildExits(c) \/ Watch(c)
    \/ ChromeSpeaks \/ StderrEnds \/ ListenerEnds \/ BeatEnds \/ MetricsEnd

\* Calls return or fail, tasks are scheduled, a pipe ends with its writer.
Fairness ==
    /\ WF_vars(MainStep) /\ WF_vars(child["chrome"] = "gone" /\ StderrEnds)
    /\ \A c \in Children : WF_vars(Watch(c))

Spec == Init /\ [][Next]_vars /\ Fairness

----------------------------------------------------------------------------
(* Properties.                                                             *)

(* From the registration to the cancellation every part of the container   *)
(* is there, or its watcher has yet to notice that it is gone; and nothing *)
(* of it is left when main has returned (main.rs:66-116).                  *)
PartsAreThere ==
    /\ main \in {"adding", "running"} /\ ~ token =>
          /\ listener = "running"
          /\ \A c \in Children : child[c] # "none" /\ watcher[c] = "running"
    /\ main = "exited" => \A c \in Children : child[c] # "up"

(* The end of any part is the end of the container, also while main is     *)
(* still starting the others and does not look at the token (chrome.rs:71, *)
(* tzafonwright.rs:45, simple_gateway.rs:223, utils.rs:67).                *)
OneEndEndsAll ==
    (\/ \E c \in Children : child[c] = "gone"
     \/ listener = "ended" \/ beat = "ended") ~> main = "exited"

ProcessOf ==
    IF main \in {"adding", "running", "exited"} THEN main ELSE "starting"

Life == INSTANCE ContainerLife WITH
    MayCrash <- FALSE, proc <- ProcessOf, cancelled <- token, beating <- beat = "running"

(* Seen from outside, the container is the process that the manager and    *)
(* the proxies deal with (the life cycle in Processes).                    *)
ImplementsLife == Life!Spec
=============================================================================
