-------------------------------- MODULE Lessons --------------------------------
(***************************************************************************)
(* The lessons of one subject.  A professor's review leaves an outcome row *)
(* that waits for a lesson run; the run at the start of a generation round *)
(* asks a model for edits of the guidelines of each target the waiting     *)
(* reviews are evidence for, the judges first and then one question type   *)
(* after the other, and applies them in code.  Meanwhile the professor     *)
(* confirms and deletes guidelines, and rounds of other taxonomies of the  *)
(* subject run their own lessons over the same rows.                       *)
(*                                                                         *)
(* The three judges learn in one transaction and are one target here.  A   *)
(* model call lasts; what a run read before it stays in its session, and   *)
(* is what the edits are applied to.  A text that is refused is a row      *)
(* nobody reads again, and is left out.                                    *)
(***************************************************************************)
EXTENDS Naturals, FiniteSets, Sequences, SequencesExt

CONSTANTS
    Review,         \* reviews whose question the judges had judged
    Type,           \* question types
    LessonRun,      \* generation rounds of the subject
    MaxGuidelines,  \* bound: guidelines ever written
    MaxEdits,       \* bound: edits of one answer of the model
    MaxBreaks       \* bound: lesson runs that raise or are stopped

Judges == "judges"
Learner == {Judges} \cup Type

ASSUME LessonAssumption == /\ Judges \notin Type /\ IsFiniteSet(Review)
                           /\ {MaxGuidelines, MaxEdits, MaxBreaks} \subseteq Nat

VARIABLES
    outcome,   \* per review: where its row stands, and the targets it teaches
    guides,    \* the guidelines, in the order they were written
    panel,     \* the snapshot the judges read: a set of guidelines, or none yet
    lesson,    \* per round: the locals of its lesson run
    judgedBy,  \* per round: the snapshot its judges read, or none
    \* history: how a guideline was retired, those confirmed while a model was
    \* asked about them, those deleted before a round began, lesson runs broken
    fate, overtaken, goneBefore, breaks

lessonVars == <<outcome, guides, panel, lesson, judgedBy, fate, overtaken, goneBefore, breaks>>

NoPanel == {0}
Guideline == 1 .. Len(guides)
Resting == [at |-> "idle", rows |-> {}, failed |-> {}, left |-> {}, asked |-> "", seen |-> <<>>]

LessonInit ==
    /\ outcome = [r \in Review |-> [row |-> "none", teaches |-> {}]]
    /\ guides = <<>> /\ fate = <<>>
    /\ panel = NoPanel
    /\ lesson = [x \in LessonRun |-> Resting]
    /\ judgedBy = [x \in LessonRun |-> NoPanel]
    /\ overtaken = {} /\ goneBefore = [x \in LessonRun |-> {}] /\ breaks = 0
-----------------------------------------------------------------------------
(* Guidelines. *)

\* ACTIVE_SUPPORT reviews, or the professor's word.
Earned(g) == g.confirmed \/ Cardinality(g.cites) >= 2

\* _settle
Settled(g) == [g EXCEPT !.status = IF Earned(g) THEN "active" ELSE "pending"]

Current == {"pending", "active"}
CurrentOf(t) == {i \in Guideline : guides[i].target = t /\ guides[i].status \in Current}
ActiveOf(table, t) == {i \in 1 .. Len(table) : table[i].target = t /\ table[i].status = "active"}

\* The edits a model may return: of whatever rows it names, each citing reviews
\* it was shown.
Edits(evidence) ==
    {e \in [op : {"add", "support", "merge", "retire"},
            of : SUBSET (1 .. MaxGuidelines), cites : (SUBSET evidence) \ {{}}] :
        Cardinality(e.of) = CASE e.op = "add" -> 0
                              [] e.op = "merge" -> 2
                              [] OTHER -> 1}

\* What a run's session makes of a list of edits: the rows as stored, the rows
\* as the run holds them, and how rows ended.
Drafted(t, cites) ==
    Settled([target |-> t, cites |-> cites, confirmed |-> FALSE, status |-> "pending"])

Added(st, t, cites) ==
    IF Len(st.table) = MaxGuidelines THEN st
    ELSE LET i == Len(st.table) + 1
             g == Drafted(t, cites)
         IN  [table |-> Append(st.table, g), ended |-> Append(st.ended, "none"),
              held |-> [j \in DOMAIN st.held \cup {i} |-> IF j = i THEN g ELSE st.held[j]]]

\* Mutant: the status is left as the first review settled it.
SupportedUnsettled(st, i, cites) ==
    IF cites \subseteq st.held[i].cites THEN st
    ELSE [st EXCEPT !.held[i].cites = @ \cup cites,
                    !.table[i].cites = st.held[i].cites \cup cites]

\* Only the columns that changed in the run's copy are written.
Supported(st, i, cites) ==
    LET old == st.held[i]
        row == st.table[i]
        new == Settled([old EXCEPT !.cites = @ \cup cites])
    IN  IF cites \subseteq old.cites THEN st
        ELSE [st EXCEPT !.held[i] = new,
                        !.table[i] = [row EXCEPT !.cites = new.cites, !.status =
                            IF new.status = old.status THEN row.status ELSE new.status]]

Retiring(st, ids, how) ==
    [table |-> [i \in DOMAIN st.table |->
                    IF i \in ids THEN [st.table[i] EXCEPT !.status = "retired"] ELSE st.table[i]],
     ended |-> [i \in DOMAIN st.ended |-> IF i \in ids THEN how ELSE st.ended[i]],
     held |-> [i \in DOMAIN st.held \ ids |-> st.held[i]]]

\* The merged guideline takes over what the old ones cite, and is not confirmed.
Merged(st, t, ids, cites) ==
    IF Len(st.table) = MaxGuidelines THEN st
    ELSE Retiring(Added(st, t, cites \cup UNION {st.held[i].cites : i \in ids}), ids, "merged")

\* Only the professor retires what the professor confirmed.
Retired(st, i) == IF st.held[i].confirmed THEN st ELSE Retiring(st, {i}, "retired")

\* apply_operations, one edit; an edit of a row that is gone is ignored.
Applied(t, st, e) ==
    IF ~(e.of \subseteq DOMAIN st.held) THEN st
    ELSE CASE e.op = "add" -> Added(st, t, e.cites)
           [] e.op = "merge" -> Merged(st, t, e.of, e.cites)
           [] e.op = "support" -> Supported(st, CHOOSE i \in e.of : TRUE, e.cites)
           [] e.op = "retire" -> Retired(st, CHOOSE i \in e.of : TRUE)
AllApplied(t, start, edits) == FoldLeft(LAMBDA st, e : Applied(t, st, e), start, edits)
-----------------------------------------------------------------------------
(* The professor. *)

\* submit_review and route_review_outcome: one commit, no model.
SubmitReview(r, teaches) ==
    /\ outcome[r].row = "none"
    /\ outcome' = [outcome EXCEPT ![r] = [row |-> "pending", teaches |-> teaches]]
    /\ UNCHANGED <<guides, panel, lesson, judgedBy, fate, overtaken, goneBefore, breaks>>

Confirm(i) ==
    /\ guides[i].status \in Current /\ ~guides[i].confirmed
    /\ guides' = [guides EXCEPT ![i] = Settled([@ EXCEPT !.confirmed = TRUE])]
    /\ overtaken' = IF \E x \in LessonRun : i \in DOMAIN lesson[x].seen
                    THEN overtaken \cup {i} ELSE overtaken
    /\ UNCHANGED <<outcome, panel, lesson, judgedBy, fate, goneBefore, breaks>>

DeleteGuideline(i) ==
    /\ guides[i].status \in Current
    /\ guides' = [guides EXCEPT ![i].status = "retired"]
    /\ fate' = [fate EXCEPT ![i] = "deleted"]
    /\ UNCHANGED <<outcome, panel, lesson, judgedBy, overtaken, goneBefore, breaks>>
-----------------------------------------------------------------------------
(* A lesson run. *)

Teaching(x, t) == {r \in lesson[x].rows : t \in outcome[r].teaches}

\* The round reads which snapshot is the latest, and goes on to generate.
EndLesson(x, snapshot) ==
    /\ lesson' = [lesson EXCEPT ![x] = [Resting EXCEPT !.at = "over"]]
    /\ judgedBy' = [judgedBy EXCEPT ![x] = snapshot]

\* apply_pending_lessons lists the rows that no run has learned from.
StartLesson(x) ==
    /\ lesson[x].at = "idle"
    /\ LET rows == {r \in Review : outcome[r].row = "pending"} IN
           IF rows = {}
           THEN EndLesson(x, panel)
           ELSE /\ lesson' = [lesson EXCEPT ![x] =
                       [@ EXCEPT !.at = "learning", !.rows = rows,
                                 !.left = UNION {outcome[r].teaches : r \in rows}]]
                /\ UNCHANGED judgedBy
    /\ goneBefore' = [goneBefore EXCEPT ![x] = {i \in Guideline : fate[i] = "deleted"}]
    /\ UNCHANGED <<outcome, guides, panel, fate, overtaken, breaks>>

\* The judges' lesson is paused while the panel is trusted with some style.
PauseJudges(x) ==
    /\ Judges \in lesson[x].left /\ lesson[x].asked = ""
    /\ lesson' = [lesson EXCEPT ![x].left = @ \ {Judges}]
    /\ UNCHANGED <<outcome, guides, panel, judgedBy, fate, overtaken, goneBefore, breaks>>

\* distill_guidelines up to the call of the model.
Ask(x, t) ==
    /\ lesson[x].asked = "" /\ t \in lesson[x].left
    /\ t # Judges => Judges \notin lesson[x].left
    /\ lesson' = [lesson EXCEPT ![x].asked = t,
                                ![x].seen = [i \in CurrentOf(t) |-> guides[i]]]
    /\ UNCHANGED <<outcome, guides, panel, judgedBy, fate, overtaken, goneBefore, breaks>>

Answered(x) ==
    [lesson[x] EXCEPT !.asked = "", !.seen = <<>>, !.left = @ \ {lesson[x].asked}]

\* The rows are listed again, but those the session holds keep the values it
\* read.  The judges' lesson is then frozen in a snapshot, which is promoted.
Answer(x) ==
    LET t == lesson[x].asked
        held == [i \in CurrentOf(t) |-> IF i \in DOMAIN lesson[x].seen THEN lesson[x].seen[i]
                                        ELSE guides[i]]
        start == [table |-> guides, held |-> held, ended |-> fate]
    IN  /\ t # ""
        /\ \E n \in 0 .. MaxEdits : \E edits \in [1 .. n -> Edits(Teaching(x, t))] :
               LET st == AllApplied(t, start, edits) IN
               /\ guides' = st.table /\ fate' = st.ended
               /\ panel' = IF t = Judges THEN ActiveOf(st.table, t) ELSE panel
        /\ lesson' = [lesson EXCEPT ![x] = Answered(x)]
        /\ UNCHANGED <<outcome, judgedBy, overtaken, goneBefore, breaks>>

\* The provider fails: the rows concerned stay pending.
NoAnswer(x) ==
    /\ lesson[x].asked # ""
    /\ LET lost == IF lesson[x].asked = Judges THEN lesson[x].rows
                   ELSE Teaching(x, lesson[x].asked)
       IN  lesson' = [lesson EXCEPT ![x] = [Answered(x) EXCEPT !.failed = @ \cup lost]]
    /\ UNCHANGED <<outcome, guides, panel, judgedBy, fate, overtaken, goneBefore, breaks>>

\* What was learned is marked with the round, and no run lists it again.
MarkLearned(x) ==
    /\ lesson[x].at = "learning" /\ lesson[x].left = {}
    /\ outcome' = [r \in Review |-> IF r \in lesson[x].rows \ lesson[x].failed
                                    THEN [outcome[r] EXCEPT !.row = "learned"] ELSE outcome[r]]
    /\ EndLesson(x, panel)
    /\ UNCHANGED <<guides, panel, fate, overtaken, goneBefore, breaks>>

\* The lesson run raises and the round goes on without it.  A stop of the process
\* leaves the same rows, and no round to judge.
BreakLesson(x) ==
    /\ lesson[x].at = "learning" /\ breaks < MaxBreaks
    /\ breaks' = breaks + 1
    /\ EndLesson(x, panel)
    /\ UNCHANGED <<outcome, guides, panel, fate, overtaken, goneBefore>>
-----------------------------------------------------------------------------
LessonNext ==
    \/ \E r \in Review, teaches \in SUBSET Learner :
           Cardinality(teaches \ {Judges}) <= 1 /\ SubmitReview(r, teaches)
    \/ \E i \in Guideline : Confirm(i) \/ DeleteGuideline(i)
    \/ \E x \in LessonRun : \/ StartLesson(x) \/ PauseJudges(x) \/ Answer(x) \/ NoAnswer(x)
                            \/ MarkLearned(x) \/ BreakLesson(x)
                            \/ \E t \in Learner : Ask(x, t)

LessonSpec == LessonInit /\ [][LessonNext]_lessonVars
-----------------------------------------------------------------------------
(* Properties. *)

\* "A guideline is active, and sent, only with at least two distinct supporting
\* reviews or the professor's confirmation" (guidelines.py:13-15), and one that
\* has either is active: whatever runs edit it at once from copies of their own.
ActiveIsEarned ==
    \A i \in Guideline : guides[i].status \in Current =>
        (guides[i].status = "active" <=> Earned(guides[i]))

\* What the professor confirmed is retired by the professor or by a merge, unless
\* the confirmation came while a run that had read it waited for its model.
ConfirmedStays ==
    \A i \in Guideline : guides[i].confirmed /\ guides[i].status = "retired" =>
        fate[i] \in {"deleted", "merged"} \/ i \in overtaken

\* Both: what is sent is what was earned, and stays.
GuidelinesEarned == ActiveIsEarned /\ ConfirmedStays

\* "never sent again" (instructions.py:95): the judges of a round that began
\* after a guideline was deleted do not read it.
DeletedNeverSent == \A x \in LessonRun : judgedBy[x] \cap goneBefore[x] = {}
=============================================================================
