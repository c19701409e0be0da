---------------------------- MODULE MCStatusPage ----------------------------
(* A table of two browsers, one of which claims the other, and its viewers.  *)
EXTENDS StatusPage

CONSTANT Claimant

Registrations == {[id |-> i, parent |-> None, children |-> {}, kill |-> None,
                   beat |-> FALSE, data |-> {}] : i \in Ids}
Claims == {[r EXCEPT !.parent = Claimant] : r \in Registrations}

PageRequests == Registrations \cup {r \in Claims : r.id # Claimant}

KillLoopSleeps == loop = "sleep"
=============================================================================
