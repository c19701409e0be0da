------------------------- MODULE MCInstanceManager -------------------------
(***************************************************************************)
(* Small instances of InstanceManager: the requests clients send, and the  *)
(* symmetry of the identifiers and handlers.                               *)
(***************************************************************************)
EXTENDS InstanceManager, TLC

CONSTANT Watched  \* the instances the timing runs follow

Blank(i) == [id |-> i, parent |-> None, children |-> {}, kill |-> None,
             beat |-> FALSE, data |-> {}]

Heartbeats == {[Blank(i) EXCEPT !.beat = TRUE] : i \in Ids}
Claims == {[Blank(i) EXCEPT !.parent = p] : i \in Ids, p \in Ids}
Kills == {[Blank(i) EXCEPT !.kill = "Killed"] : i \in Ids}
Adoptions == {[Blank(i) EXCEPT !.children = {c}] : i \in Ids, c \in Ids}
AdoptAndKill == {[r EXCEPT !.kill = "Killed"] : r \in Adoptions}
MetricsReports == {[Blank(i) EXCEPT !.data = {"metrics"}] : i \in Ids}

SoloRequests == Heartbeats \cup {Blank(i) : i \in Ids}

\* Relationships made from the child's end, and from the parent's by a request that
\* kills at once.
RaceRequests ==
    {r \in Claims \cup AdoptAndKill : r.parent # r.id /\ r.id \notin r.children} \cup Kills

\* One browser or agent that beats, reports and may be claimed, another instance that
\* claims it: what a verdict reads of an entry does not depend on further ones.
TimingRequests == {r \in Heartbeats \cup Claims \cup MetricsReports : r.id \in Watched}
                      \cup {Blank(i) : i \in Ids \ Watched}

\* For the runs that leave the kill loop out: its kills are like a client's.
KillLoopSleeps == loop = "sleep"

Symmetry == Permutations(Ids) \cup Permutations(Handlers)
=============================================================================
