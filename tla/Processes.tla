----------------------------- MODULE Processes -----------------------------
(***************************************************************************)
(* The processes the instance manager keeps track of: browser containers   *)
(* (browser/main.rs, chrome.rs, tzafonwright.rs) and ephemeral browser     *)
(* proxies, with the registration and the heart beat they share            *)
(* (rust-shared/src/utils.rs).  Their calls are the requests of            *)
(* InstanceManager.                                                        *)
(*                                                                         *)
(* A call and the handling of its answer are one action: the caller does   *)
(* nothing but wait, and what it does with the answer touches its own      *)
(* state only.  What other processes do between two calls stays visible.   *)
(***************************************************************************)
EXTENDS InstanceManager

CONSTANTS
    Browsers,     \* browser containers, each with its uuid for identifier
    Proxies,      \* ephemeral browser proxies, likewise
    MaxRetries,   \* MAX_RETRIES
    MaxRestarts   \* bound on the restarts of the instance manager

ASSUME ProcessAssumption ==
    /\ Ids = Browsers \cup Proxies /\ Browsers \cap Proxies = {}
    /\ Handlers = Ids
    /\ {MaxRetries, MaxRestarts} \subseteq Nat

VARIABLES
    proc,       \* where main stands
    retries,    \* failed heart beats in a row; None when the loop has ended
    cancelled,  \* the cancellation token of the process
    restarts    \* restarts of the instance manager so far

local == <<proc, retries, cancelled>>
manager == <<entries, handlers, killLoop, now>>

BlankRequest(i) == [id |-> i, parent |-> None, children |-> {}, kill |-> None,
                    beat |-> FALSE, data |-> {}]
AddRequest(i) == [BlankRequest(i) EXCEPT !.data = IF i \in Browsers THEN {"services"} ELSE {}]
BeatRequest(i) == [BlankRequest(i) EXCEPT !.beat = TRUE]

\* WARMPOOL_CHROME_PROXY is not monitored.
TypeOf(i) == IF i \in Browsers THEN "ChromeBrowser" ELSE "Unmonitored"

ProcessesTypeOK ==
    /\ TypeOK
    /\ proc \in [Ids -> {"starting", "adding", "running", "exited"}]
    /\ retries \in [Ids -> 0 .. MaxRetries \cup {None}]
    /\ cancelled \in [Ids -> BOOLEAN]
    /\ restarts \in 0 .. MaxRestarts

ProcessesInit ==
    /\ Init
    /\ proc = [i \in Ids |-> "starting"]
    /\ retries = [i \in Ids |-> None]
    /\ cancelled = [i \in Ids |-> FALSE]
    /\ restarts = 0

\* What is left of a process that is over.  Its children are killed on drop.
Over(i) ==
    /\ proc' = [proc EXCEPT ![i] = "exited"]
    /\ retries' = [retries EXCEPT ![i] = None]

----------------------------------------------------------------------------
(* Start and end of a process.                                             *)

\* Chrome, Tzafonwright and the gateway are up: the process registers.
Launch(i) ==
    /\ proc[i] = "starting"
    /\ proc' = [proc EXCEPT ![i] = "adding"]
    /\ TryAddInstance(i, TypeOf(i), AddRequest(i))
    /\ UNCHANGED <<retries, cancelled, restarts>>

\* One of them did not start, or the manager cannot be reached.
LaunchFails(i) ==
    /\ proc[i] = "starting"
    /\ Over(i)
    /\ UNCHANGED <<cancelled, manager, restarts>>

\* The registration is accepted: the heart beat starts, unless the answer is lost
\* (or the process is gone).
AddAccepted(i) ==
    /\ CommitAdd(i)
    /\ \/ /\ proc[i] = "adding"
          /\ proc' = [proc EXCEPT ![i] = "running"]
          /\ retries' = [retries EXCEPT ![i] = 0]
       \/ Over(i)
    /\ UNCHANGED <<cancelled, restarts>>

AddRejected(i) == RejectAdd(i) /\ UNCHANGED <<local, restarts>>

AddRolledBack(i) == RollBack(i) /\ Over(i) /\ UNCHANGED <<cancelled, restarts>>

\* The connection breaks while the manager works on the registration.
AddDropped(i) == DropAdd(i) /\ Over(i) /\ UNCHANGED <<cancelled, restarts>>

\* Chrome or Tzafonwright exits, or the listener of the gateway fails.  A main that
\* is still starting goes on to register (BrowserContainer).
ChildExits(i) ==
    /\ i \in Browsers /\ proc[i] # "exited" /\ ~cancelled[i]
    /\ cancelled' = [cancelled EXCEPT ![i] = TRUE]
    /\ UNCHANGED <<proc, retries, manager, restarts>>

\* main waits for the token and returns.
Exit(i) ==
    /\ proc[i] = "running" /\ cancelled[i]
    /\ Over(i)
    /\ UNCHANGED <<cancelled, manager, restarts>>

Crash(i) ==
    /\ proc[i] \in {"adding", "running"}
    /\ Over(i)
    /\ UNCHANGED <<cancelled, manager, restarts>>

----------------------------------------------------------------------------
(* start_heart_beat.                                                       *)

Beating(i) == proc[i] = "running" /\ retries[i] # None

Beat(i) ==
    /\ Beating(i)
    /\ TryUpdateInstanceDescription(BeatRequest(i))
    /\ retries' = [retries EXCEPT ![i] = 0]
    /\ UNCHANGED <<proc, cancelled, restarts>>

\* Mutant: the loop ends and the token is left alone.
EndBeatOnly(i) ==
    /\ retries' = [retries EXCEPT ![i] = None]
    /\ UNCHANGED cancelled

\* The end of the loop cancels the token.
EndBeat(i) ==
    /\ retries' = [retries EXCEPT ![i] = None]
    /\ cancelled' = [cancelled EXCEPT ![i] = TRUE]

\* "Instance is unhealthy should be killed": the manager knows it no more, or dead.
BeatRefused(i) ==
    /\ Beating(i)
    /\ ~Accepts(BeatRequest(i))
    /\ EndBeat(i)
    /\ UNCHANGED <<proc, manager, restarts>>

\* Mutant: the limit on failed beats is one too high.
BeatFailsOnceMore(i) ==
    /\ Beating(i)
    /\ TryUpdateInstanceDescription(BeatRequest(i)) \/ UNCHANGED manager
    /\ \/ retries[i] > MaxRetries /\ EndBeat(i)
       \/ /\ retries[i] <= MaxRetries
          /\ retries' = [retries EXCEPT ![i] = @ + 1]
          /\ UNCHANGED cancelled
    /\ UNCHANGED <<proc, restarts>>

\* The call fails, before or after the manager served it.
BeatFails(i) ==
    /\ Beating(i)
    /\ TryUpdateInstanceDescription(BeatRequest(i)) \/ UNCHANGED manager
    /\ \/ retries[i] = MaxRetries /\ EndBeat(i)
       \/ /\ retries[i] < MaxRetries
          /\ retries' = [retries EXCEPT ![i] = @ + 1]
          /\ UNCHANGED cancelled
    /\ UNCHANGED <<proc, restarts>>

----------------------------------------------------------------------------
\* The manager keeps its table in memory: a restart loses it, with the handlers
\* that were running.  Their clients get an error.
RestartManager ==
    /\ restarts < MaxRestarts
    /\ restarts' = restarts + 1
    /\ registered' = {}
    /\ type' = [i \in Ids |-> None] /\ created' = [i \in Ids |-> None]
    /\ health' = [i \in Ids |-> None] /\ parent' = [i \in Ids |-> None]
    /\ parentTime' = [i \in Ids |-> None] /\ children' = [i \in Ids |-> {}]
    /\ kill' = [i \in Ids |-> None] /\ data' = [i \in Ids |-> {}]
    /\ step' = [h \in Handlers |-> "idle"] /\ adding' = [h \in Handlers |-> None]
    /\ loop' = "sleep" /\ loopClock' = 0 /\ verdict' = [i \in Ids |-> None]
    /\ proc' = [i \in Ids |-> IF proc[i] = "adding" THEN "exited" ELSE proc[i]]
    /\ UNCHANGED <<retries, cancelled, now>>

\* The steps of the manager's own tasks.
ManagerStep ==
    /\ \/ KillLoopWake \/ KillLoopScan \/ KillLoopRest
       \/ \E i \in Ids : KillLoopKill(i)
       \/ Tick
    /\ UNCHANGED <<local, restarts>>

Container(b) == INSTANCE ContainerLife WITH
    MayCrash <- TRUE, proc <- proc[b], cancelled <- cancelled[b],
    beating <- retries[b] # None

\* The containers of the fleet are what BrowserContainer says a container is seen
\* from outside, crashes apart: the same life, whatever the manager, the proxies
\* and lost answers do to it.
ContainersLive ==
    /\ \A b \in Browsers : Container(b)!Init
    /\ [][\A b \in Browsers : [Container(b)!Next]_(Container(b)!life)]_local
=============================================================================
