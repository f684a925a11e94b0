---------------------------- MODULE MCMagenticOne ----------------------------
(* Two participants, two turns and two stalls: a run that replans, one that *)
(* replans twice in a row, and one that reaches its turns.                  *)
EXTENDS MagenticOne
CONSTANTS a, b
MCRoster == <<a, b>>
=============================================================================
