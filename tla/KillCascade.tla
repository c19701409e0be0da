---------------------------- MODULE KillCascade ----------------------------
(***************************************************************************)
(* The loop at the end of apply_to_instance_description: a stack of        *)
(* children, popped one at a time while the mutex is held.  Child lists    *)
(* may name absent entries, entries that are dead already, an entry twice, *)
(* and each other in a circle.                                             *)
(***************************************************************************)
EXTENDS Descendants, Integers, Sequences

CONSTANTS Ids,
          Lists  \* the child lists an entry may hold

ASSUME ListsAssumption == Lists \subseteq Seq(Ids)

VARIABLES
    present,   \* keys of the table
    children,  \* the child list of each entry
    wasDead,   \* the entries that carried a kill request before this one
    root,      \* the entry the request kills
    dead,      \* the entries that carry a kill request
    stack      \* "children" of the loop

table == <<present, children, wasDead, root>>
vars == <<table, dead, stack>>

Init ==
    /\ present \in SUBSET Ids
    /\ children \in [Ids -> Lists]
    /\ wasDead \in SUBSET present
    /\ root \in present \ wasDead
    /\ dead = wasDead \cup {root}
    /\ stack = children[root]

Top == stack[Len(stack)]
\* Mutant: the loop looks at the top without popping it.
RestWithTop == stack
Rest == SubSeq(stack, 1, Len(stack) - 1)

Skip == /\ stack # << >>
        /\ Top \notin present \/ Top \in dead
        /\ stack' = Rest
        /\ UNCHANGED <<table, dead>>

\* Mutant: the children of a killed entry are not pushed.
KillShallow == /\ stack # << >>
               /\ Top \in present \ dead
               /\ dead' = dead \cup {Top}
               /\ stack' = Rest
               /\ UNCHANGED table

\* Mutant: an absent key gets a kill request.
KillAbsent == /\ stack # << >>
              /\ Top \notin dead
              /\ dead' = dead \cup {Top}
              /\ stack' = Rest \o children[Top]
              /\ UNCHANGED table

Kill == /\ stack # << >>
        /\ Top \in present \ dead
        /\ dead' = dead \cup {Top}
        /\ stack' = Rest \o children[Top]
        /\ UNCHANGED table

\* The loop is over: the mutex is released.
Done == stack = << >> /\ UNCHANGED vars

Next == Skip \/ Kill \/ Done

Spec == Init /\ [][Next]_vars

\* Nothing awaits inside the loop: it runs to its end.
FairSpec == Spec /\ WF_vars(Skip \/ Kill)

----------------------------------------------------------------------------
Members(s) == {s[k] : k \in DOMAIN s}
ChildSets == [i \in Ids |-> Members(children[i])]
Doomed == Reached(present \ wasDead, root, ChildSets)

TypeOK ==
    /\ present \subseteq Ids /\ wasDead \subseteq present /\ root \in present \ wasDead
    /\ children \in [Ids -> Seq(Ids)]
    /\ dead \subseteq present
    /\ stack \in Seq(Ids)

\* Whatever the order of the child lists, the loop kills the descendants of the
\* root and nothing else: no descendant behind a circle or a repeated entry is
\* missed, none behind an absent or dead one is reached.
KillsDescendants == stack = << >> => dead = wasDead \cup {root} \cup Doomed

\* Circles of relationships (which two requests can build) do not trap the loop.
LoopEnds == <>(stack = << >>)
=============================================================================
