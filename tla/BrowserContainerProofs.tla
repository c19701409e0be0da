----------------------- MODULE BrowserContainerProofs -----------------------
(***************************************************************************)
(* Proofs about the inside of a browser container: its parts are there     *)
(* when they should be, and the container keeps the life cycle that the    *)
(* instance manager and the proxies rely on.                               *)
(***************************************************************************)
EXTENDS BrowserContainer, TLAPS

\* What main has started when it stands at p, in the order in which it does.
ChromeStartedAt(p) == p # "start chrome"
TzafonwrightStartedAt(p) == p \in {"start gateway", "connect", "adding", "running"}
ListenerStartedAt(p) == p \in {"connect", "adding", "running"}
BeatStartedAt(p) == p = "running"

Started ==
    main # "exited" =>
        /\ child["chrome"] # "none" <=> ChromeStartedAt(main)
        /\ child["tzafonwright"] # "none" <=> TzafonwrightStartedAt(main)
        /\ listener # "none" <=> ListenerStartedAt(main)
        /\ beat # "none" <=> BeatStartedAt(main)
        /\ metrics # "none" <=> BeatStartedAt(main)

\* Whoever has ended, the metrics loop apart, has cancelled the token.
Watched ==
    main # "exited" =>
        /\ \A c \in Children :
               /\ child[c] # "none" <=> watcher[c] # "none"
               /\ watcher[c] = "ended" => token
        /\ listener = "ended" \/ beat = "ended" => token

NothingLeft == main = "exited" => \A c \in Children : child[c] # "up"

ContainerInv == TypeOK /\ Started /\ Watched /\ NothingLeft

----------------------------------------------------------------------------
LEMMA ContainerInvInit == Init => ContainerInv
BY DEF Init, ContainerInv, TypeOK, Started, Watched, NothingLeft, Children, Task,
       ChromeStartedAt, TzafonwrightStartedAt, ListenerStartedAt, BeatStartedAt

\* main spawns a child.
LEMMA SpawnInv ==
    ASSUME ContainerInv, StartChrome \/ StartTzafonwright
    PROVE  ContainerInv'
<1> USE DEF ContainerInv, Children
<1>1. PICK c \in Children, from \in {"start chrome", "start tzafonwright"},
           to \in {"await url", "start gateway"} :
          /\ Spawn(c, from, to)
          /\ \/ c = "chrome" /\ from = "start chrome" /\ to = "await url"
             \/ c = "tzafonwright" /\ from = "start tzafonwright" /\ to = "start gateway"
  BY DEF StartChrome, StartTzafonwright
<1>2. TypeOK'
  BY <1>1 DEF Spawn, tasks, TypeOK, Task
<1>3. /\ main = from /\ main' = to /\ child' = [child EXCEPT ![c] = "up"]
      /\ watcher' = [watcher EXCEPT ![c] = "running"] /\ UNCHANGED <<url, listener, beat, metrics, token>>
  BY <1>1 DEF Spawn, tasks
<1>4. Started'
  BY <1>1, <1>3 DEF TypeOK, Started, ChromeStartedAt, TzafonwrightStartedAt, ListenerStartedAt, BeatStartedAt
<1>5. Watched'
  BY <1>1, <1>3 DEF TypeOK, Watched
<1>6. NothingLeft'
  BY <1>1, <1>3 DEF NothingLeft
<1>7. QED
  BY <1>2, <1>4, <1>5, <1>6

\* main goes on otherwise.
LEMMA MainInv ==
    ASSUME ContainerInv, UrlReceived \/ StartGateway \/ ConnectManager \/ Added
    PROVE  ContainerInv'
<1> USE DEF ContainerInv, UrlReceived, StartGateway, ConnectManager, Added
<1>1. TypeOK'
  BY DEF tasks, TypeOK, Task
<1>2. Started'
  BY DEF tasks, TypeOK, Started, ChromeStartedAt, TzafonwrightStartedAt, ListenerStartedAt, BeatStartedAt
<1>3. Watched'
  BY DEF tasks, Watched
<1>4. NothingLeft'
  BY DEF NothingLeft
<1>5. QED
  BY <1>1, <1>2, <1>3, <1>4

LEMMA EndsInv == ASSUME ContainerInv, Ends PROVE ContainerInv'
BY DEF ContainerInv, Ends, TypeOK, Task, Children, Started, Watched, NothingLeft

\* A child exits, or the task that watches it ends.
LEMMA WatchInv ==
    ASSUME ContainerInv, NEW c \in Children, ChildExits(c) \/ Watch(c)
    PROVE  ContainerInv'
<1> USE DEF ContainerInv, Children
<1>1. /\ child' = [child EXCEPT ![c] = "gone"] /\ UNCHANGED <<main, url, listener, beat, metrics>>
      /\ \/ UNCHANGED <<watcher, token>>
         \/ /\ main # "exited" /\ watcher[c] = "running"
            /\ watcher' = [watcher EXCEPT ![c] = "ended"] /\ token' = TRUE
  BY DEF ChildExits, Watch, tasks, TypeOK
<1>2. TypeOK'
  BY <1>1 DEF TypeOK, Task
<1>3. main # "exited" => child[c] # "none"
  BY DEF ChildExits, Watch, Watched
<1>4. Started'
  BY <1>1, <1>3 DEF TypeOK, Started
<1>5. Watched'
  BY <1>1, <1>3 DEF TypeOK, Watched
<1>6. NothingLeft'
  BY <1>1 DEF TypeOK, NothingLeft
<1>7. QED
  BY <1>2, <1>4, <1>5, <1>6

LEMMA TaskInv ==
    ASSUME ContainerInv,
           \/ ChromeSpeaks \/ StderrEnds \/ ListenerEnds \/ BeatEnds \/ MetricsEnd
           \/ UNCHANGED vars
    PROVE  ContainerInv'
<1> USE DEF ContainerInv, ChromeSpeaks, StderrEnds, ListenerEnds, BeatEnds, MetricsEnd, vars
<1>1. TypeOK'
  BY DEF tasks, TypeOK, Task
<1>2. Started'
  BY DEF tasks, Started
<1>3. Watched'
  BY DEF tasks, Watched
<1>4. NothingLeft'
  BY DEF NothingLeft
<1>5. QED
  BY <1>1, <1>2, <1>3, <1>4

LEMMA ContainerInvStep == ContainerInv /\ [Next]_vars => ContainerInv'
BY SpawnInv, MainInv, EndsInv, WatchInv, TaskInv DEF Next, MainStep, StartFails, Exit

LEMMA ContainerInvHolds == Spec => []ContainerInv
BY ContainerInvInit, ContainerInvStep, PTL DEF Spec

\* No task of a container outlives its main.
THEOREM ContainerTypeCorrect == Spec => []TypeOK
<1>1. ContainerInv => TypeOK
  BY DEF ContainerInv
<1>2. QED
  BY <1>1, ContainerInvHolds, PTL

\* A container that is registered, or being registered, has all its parts, or their watchers
\* are about to notice; one that has ended has left no child behind.
THEOREM PartsStayTogether == Spec => []PartsAreThere
<1>1. ContainerInv => PartsAreThere
  BY DEF ContainerInv, TypeOK, Task, Started, Watched, NothingLeft, PartsAreThere, Children,
         ChromeStartedAt, TzafonwrightStartedAt, ListenerStartedAt
<1>2. QED
  BY <1>1, ContainerInvHolds, PTL

----------------------------------------------------------------------------
(* The life cycle.                                                         *)

LEMMA LifeStep == ContainerInv /\ [Next]_vars => [Life!Next]_(Life!life)
<1> SUFFICES ASSUME ContainerInv, [Next]_vars PROVE [Life!Next]_(Life!life)
  OBVIOUS
<1> USE DEF ProcessOf, Life!life
<1>1. CASE StartChrome \/ UrlReceived \/ StartTzafonwright \/ StartGateway
  BY <1>1 DEF StartChrome, StartTzafonwright, Spawn, UrlReceived, StartGateway, tasks
<1>2. CASE ConnectManager
  BY <1>2 DEF ConnectManager, tasks, Life!Next, Life!Register
<1>3. CASE Added
  BY <1>3 DEF Added, Life!Next, Life!Registered
<1>4. CASE StartFails \/ Exit
  BY <1>4 DEF StartFails, Exit, Ends, Life!Next, Life!End
<1>5. CASE \E c \in Children : ChildExits(c)
  BY <1>5 DEF ChildExits, tasks
<1>6. CASE \E c \in Children : Watch(c)
  <2>1. main # "exited"
    BY <1>6 DEF ContainerInv, TypeOK, Watch, Children
  <2>2. QED
    BY <1>6, <2>1 DEF Watch, tasks, Life!Next, Life!Cancel
<1>7. CASE ListenerEnds
  <2>1. main # "exited"
    BY <1>7 DEF ContainerInv, TypeOK, ListenerEnds
  <2>2. QED
    BY <1>7, <2>1 DEF ListenerEnds, Life!Next, Life!Cancel
<1>8. CASE BeatEnds
  BY <1>8 DEF BeatEnds, Life!Next, Life!StopBeating
<1>9. CASE ChromeSpeaks \/ StderrEnds \/ MetricsEnd \/ UNCHANGED vars
  BY <1>9 DEF ChromeSpeaks, StderrEnds, MetricsEnd, tasks, vars
<1>10. QED
  BY <1>1, <1>2, <1>3, <1>4, <1>5, <1>6, <1>7, <1>8, <1>9 DEF Next, MainStep

\* Whatever happens inside, a container registers once, beats only after that, and once it
\* runs it does not end before its token is cancelled.
THEOREM ContainerImplementsLife == Spec => ImplementsLife
<1>1. Init => Life!Init
  BY DEF Init, Life!Init, ProcessOf
<1>2. QED
  BY <1>1, ContainerInvHolds, LifeStep, PTL DEF Spec, ImplementsLife, Life!Spec
============================================================================
