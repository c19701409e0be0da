-------------------------- MODULE MCTzafonwright --------------------------
(* One client, whose caller may reconnect after a break.                   *)
EXTENDS TzafonwrightClient
============================================================================
