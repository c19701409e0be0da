------------------------- MODULE InstanceLifecycle -------------------------
(***************************************************************************)
(* What the instance manager promises its clients about a single instance, *)
(* whatever else they send at the same time: it is registered, provisional *)
(* while its registration runs, claimed at most once and by an instance    *)
(* that is alive, and dead for good once it is dead.  Only a provisional   *)
(* instance may be withdrawn.                                              *)
(***************************************************************************)
CONSTANTS Ids, None

VARIABLES present, provisional, owner, dead

vars == <<present, provisional, owner, dead>>

Init ==
    /\ present = {} /\ provisional = {} /\ dead = {}
    /\ owner = [i \in Ids |-> None]

Register(i) ==
    /\ i \in Ids \ present
    /\ present' = present \cup {i}
    /\ provisional' = provisional \cup {i}
    /\ UNCHANGED <<owner, dead>>

Withdraw(i) ==
    /\ i \in provisional
    /\ present' = present \ {i}
    /\ provisional' = provisional \ {i}
    /\ owner' = [owner EXCEPT ![i] = None]
    /\ dead' = dead \ {i}

\* A request: it may settle a registration, claim instances and kill some.
\* The claimant is alive when it claims; a death takes no claim back.
Serve ==
    /\ provisional' \subseteq provisional
    /\ owner' \in [Ids -> Ids \cup {None}]
    /\ \A i \in Ids : owner'[i] # owner[i] =>
           /\ i \in present /\ owner[i] = None
           /\ owner'[i] \in present \ (dead \cup {i})
    /\ dead' \in SUBSET present /\ dead \subseteq dead'
    /\ UNCHANGED present

Next == (\E i \in Ids : Register(i) \/ Withdraw(i)) \/ Serve

Spec == Init /\ [][Next]_vars
=============================================================================
