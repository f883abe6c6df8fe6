----------------------------- MODULE MCLogging -----------------------------
(* Logging for TLC: a few threads, each of which begins requests for ever.  *)
EXTENDS Logging
============================================================================
