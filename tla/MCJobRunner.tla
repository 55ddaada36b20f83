---------------------------- MODULE MCJobRunner ----------------------------
(* JobRunner on two rows of any kind, one crash and one lost commit. *)
EXTENDS JobRunner

CONSTANTS j1, j2

MCJob == {j1, j2}

\* The rows are interchangeable: j1 is inserted first, and its kind is the lower
\* one.  A behaviour that is left out is the mirror image of one that is not.
Rank(k) == CASE k = "counted" -> 0 [] k = "embedding" -> 1 [] k = "import" -> 2
Ordered == status[j2] # "none" => /\ status[j1] # "none"
                                  /\ Rank(kind[j1]) <= Rank(kind[j2])
=============================================================================
