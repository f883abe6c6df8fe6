-------------------------- MODULE MCIdentityFilter --------------------------
(* IdentityFilter for TLC: every distribution of up to MaxLines lines over
   the three sources.                                                      *)
EXTENDS IdentityFilter
============================================================================
