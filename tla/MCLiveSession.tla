--------------------------- MODULE MCLiveSession ---------------------------
(* Two tabs, two live jobs and two attempts.                                *)
EXTENDS LiveSession, TLC

CONSTANTS tab1, tab2

MCTab == {tab1, tab2}
OneTab == {tab1}
Symmetry == Permutations(MCTab)

\* One crash, lost commit, rejected question or end of the session at most.
OneMishap == crashes + faults + Cardinality(rejected) + (IF ended THEN 1 ELSE 0) <= 1

\* `told` changes nothing that follows: one value of it is enough.
NotTold == ~told

\* A task whose job is not queued any more does nothing, now or later; once two
\* requests have overlapped, no property asks for the mastery, and no step reads
\* it but to write it back.
LiveTasks == {j \in tasks : status[j] = "queued"}
Folded == IF overlapped THEN <<>> ELSE <<mastery, [t \in Tab |-> request[t].mastery]>>
Requests == [t \in Tab |-> <<request[t].pc, request[t].force, request[t].job, request[t].ordinal>>]
View == <<ended, attempts, Folded, jobVars, rejected, LiveTasks, wpc, Requests, historyVars,
          faultVars>>
============================================================================
