--------------------------- MODULE MCKillCascade ---------------------------
(* KillCascade over every graph of three instances and lists of up to two. *)
EXTENDS KillCascade, SequencesExt

ShortLists == BoundedSeq(Ids, 2)
=============================================================================
