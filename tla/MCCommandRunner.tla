-------------------------- MODULE MCCommandRunner --------------------------
(* CommandRunner for TLC: one possible descendant, and sizes that let every
   comparison of the code come out both ways.                              *)
EXTENDS CommandRunner
============================================================================
