--------------------------- MODULE ContainerLife ---------------------------
(***************************************************************************)
(* What the instance manager and the proxies can rely on of a container,   *)
(* whatever goes on inside: it asks to be registered once, beats from the  *)
(* moment it knows that it is registered, and once it runs it does not end *)
(* before it has made up its mind to, which the end of its beats is.       *)
(***************************************************************************)
CONSTANT MayCrash   \* whether the process may be killed from outside

VARIABLES
    proc,        \* "starting", "adding" (registering), "running" or "exited"
    cancelled,   \* the container is going to end
    beating      \* its heart beat is running

life == <<proc, cancelled, beating>>

Init == proc = "starting" /\ cancelled = FALSE /\ beating = FALSE

Register == proc = "starting" /\ proc' = "adding" /\ UNCHANGED <<cancelled, beating>>

Registered ==
    /\ proc = "adding" /\ proc' = "running"
    /\ beating' = TRUE
    /\ UNCHANGED cancelled

Cancel == proc # "exited" /\ cancelled' = TRUE /\ UNCHANGED <<proc, beating>>

StopBeating == beating /\ beating' = FALSE /\ cancelled' = TRUE /\ UNCHANGED proc

End ==
    /\ proc \in {"starting", "adding"} \/ cancelled \/ MayCrash
    /\ proc' = "exited" /\ beating' = FALSE
    /\ UNCHANGED cancelled

Next == Register \/ Registered \/ Cancel \/ StopBeating \/ End

Spec == Init /\ [][Next]_life
============================================================================
