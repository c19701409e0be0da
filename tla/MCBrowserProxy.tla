--------------------------- MODULE MCBrowserProxy ---------------------------
(* Small deployments.  Requests and AddTypes are not used: the processes send *)
(* their own.                                                                 *)
EXTENDS BrowserProxy, TLC

AllIds == Browsers \cup Proxies

KillLoopSleeps == loop = "sleep"

Symmetry == Permutations(Browsers) \cup Permutations(Ports)
=============================================================================
