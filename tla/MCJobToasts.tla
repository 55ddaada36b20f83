---------------------------- MODULE MCJobToasts ----------------------------
(* One visit of a page with one job that may have ended before it.           *)
EXTENDS JobsPanel

CONSTANT j1
============================================================================
