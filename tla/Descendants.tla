---------------------------- MODULE Descendants ----------------------------
(***************************************************************************)
(* Which instances die with a killed one: the reference definition that    *)
(* InstanceManager uses in one step and that the loop of KillCascade       *)
(* computes.                                                               *)
(***************************************************************************)

\* S holds the live children of the root and of its own members.
Closed(S, live, root, children) ==
    \A i \in S \cup {root} : children[i] \cap (live \ {root}) \subseteq S

\* The least closed set: the live instances that a path of live ones links to
\* the root.  What is absent or was dead already is not passed through.
Reached(live, root, children) ==
    {c \in live \ {root} :
        \A S \in SUBSET (live \ {root}) : Closed(S, live, root, children) => c \in S}
=============================================================================
