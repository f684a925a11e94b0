--------------------------- MODULE MCMessageQueue ---------------------------
(* MessageQueue on small instances. *)
EXTENDS MessageQueue, TLC

Symmetry == Permutations(Task)
=============================================================================
