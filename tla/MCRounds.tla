------------------------------- MODULE MCRounds -------------------------------
(* The rounds of a taxonomy or the lessons of a subject, one behaviour for     *)
(* each: what a round generates does not depend on what it learned.            *)
(* Rounds: one cell, whose target a second revision of the setup lowers or     *)
(* raises; two rounds, so that the second is a next round, a retry, a refill   *)
(* or another setup's first.  Lessons: two rounds of two taxonomies over two   *)
(* reviews; three guidelines, two to merge and what they become.               *)
EXTENDS Rounds, Lessons, TLC

CONSTANTS r1, r2, medium, v1, v2, x1, x2

VARIABLE about    \* what goes on, for good: "rounds" or "lessons"

MCRound == {r1, r2}
MCCell == {medium}
MCCellTargets == {[c \in MCCell |-> 1], [c \in MCCell |-> 2]}
MCReview == {v1, v2}
MCLessonRun == {x1, x2}

AnyInit == about \in {"rounds", "lessons"} /\ Init /\ LessonInit

AnyNext ==
    /\ UNCHANGED about
    /\ \/ about = "rounds" /\ Next /\ UNCHANGED lessonVars
       \/ about = "lessons" /\ LessonNext /\ UNCHANGED roundVars

AnySpec == AnyInit /\ [][AnyNext]_<<about, roundVars, lessonVars>>

\* One crash, lost commit or cancelled round at most.
OneMishap == crashes + faults + Cardinality({r \in Round : asked[r]}) <= 1

\* A second revision that changes nothing is the first.
Revised == Len(setups) = 2 => setups[1] # setups[2]

\* Two guidelines are drafted, and a third is what they were merged into.
TwoDrafted == Len(guides) = 3 => \E i \in Guideline : fate[i] = "merged"

Symmetry == Permutations(MCRound) \cup Permutations(MCReview) \cup Permutations(MCLessonRun)
===============================================================================
