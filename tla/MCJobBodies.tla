------------------------------ MODULE MCJobBodies ------------------------------
(* Three kinds of bodies on the runner, one behaviour for each.             *)
(* Sheets: one sheet and three rows, two retry requests at once.  Fills:    *)
(* two plans that share a topic, three rows, one request at a time.         *)
(* Switches: two of them among three models, two settings requests at once, *)
(* a chunk on the shelf and one to import.                                  *)
EXTENDS BulkRetry, CoverageFill, EmbeddingSwitch, TLC

CONSTANTS j1, j2, j3, h1, h2, f1, g1, g2, g3, small, large, other

VARIABLE made    \* what the jobs make, for good: "sheets", "fills" or "switches"

MCJob == {j1, j2, j3}
MCHandler == {h1, h2}
MCGap == {g1, g2, g3}
MCTopicOf(g) == IF g = g3 THEN "t2" ELSE "t1"
MCPlans == {<<g1, g3>>, <<g2>>}
MCModel == {small, large, other}
MCChunk == 1..2
MCShelf == {1}

AnyInit == made \in {"sheets", "fills", "switches"} /\ BulkInit /\ FillInit /\ SwitchInit

AnyNext ==
    /\ UNCHANGED made
    /\ \/ made = "sheets" /\ BulkNext /\ UNCHANGED <<fillVars, switchVars>>
       \/ made = "fills" /\ FillNext /\ UNCHANGED <<bulkVars, switchVars>>
       \/ made = "switches" /\ SwitchNext /\ UNCHANGED <<bulkVars, fillVars>>

AnySpec == AnyInit /\ [][AnyNext]_<<made, runnerVars, bulkVars, fillVars, switchVars>>

\* At most one crash, failed request or lost commit, and one job cancelled; of
\* these a fill or a switch has one in all.  Bodies may fail any number of times.
FewMishaps ==
    LET cancelled == Cardinality({j \in Job : asked[j] \/ j \in cancelling}) IN
    /\ crashes + faults <= 1 /\ cancelled <= 1
    /\ made # "sheets" => crashes + faults + cancelled <= 1

\* Two switches are enough.
TwoSwitches == made = "switches" => Cardinality({j \in Job : status[j] # "none"}) <= 2

\* What JobRunner remembers of the units kept changes nothing here but the
\* positions of a sheet.  In a switch, nor does the stock of a job that cannot
\* activate any more, nor what was promised once two switches overlapped.
Stock == [j \in Job |-> IF status[j] \in InFlight /\ j \notin activated THEN stock[j] ELSE {}]
Promise == IF overlapped THEN <<>> ELSE <<Stock, promised, previous>>
SwitchView == <<switchRow, chunkVars, toEmbed, saving, activated, Promise, overlapped>>
View == <<made, rowVars, processVars, faultVars,
          CASE made = "sheets" -> <<kept, bulkVars>>
            [] made = "fills" -> fillVars
            [] made = "switches" -> SwitchView>>

Symmetry == Permutations(MCJob) \cup Permutations(MCHandler) \cup Permutations({large, other})
=============================================================================
