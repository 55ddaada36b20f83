--------------------------- MODULE QuestionSetup ---------------------------
(***************************************************************************)
(* The question setup dialog (app/courses/[courseId]/questions/setup): the *)
(* professor chooses, for the course and per subtopic, the question styles *)
(* that rounds may draw.  The choice is kept in layers: what the course    *)
(* has on, each subtopic's fit (the AI's suggestion, or the saved setup    *)
(* when one is edited), and each subtopic's own additions and removals.    *)
(* Turning a style off may hide its approved questions, at once.           *)
(***************************************************************************)
EXTENDS Naturals, FiniteSets, FiniteSetsExt, Functions

CONSTANTS
    Style, QType, TypeOf,        \* the library; the type of a style
    Subtopic, Fits,              \* the fits a suggestion or a saved setup may have
    CourseTypes,                 \* the types the course allows at the start
    Bank, StyleOf, TagsOf,       \* approved questions: their style, their subtopics
    CellTarget,                  \* questions aimed for in a subtopic
    MaxSwitches,                 \* bound: switches, resets and allowed types
    Course, NoSetup, NoToggle, NoType, NoFit

ASSUME SetupAssumption ==
    /\ TypeOf \in [Style -> QType] /\ Fits \subseteq [Subtopic -> SUBSET Style]
    /\ StyleOf \in [Bank -> Style] /\ TagsOf \in [Bank -> SUBSET Subtopic]
    /\ CellTarget \in [Subtopic -> Nat] /\ MaxSwitches \in Nat
    /\ CourseTypes \subseteq QType
    /\ Course \notin Subtopic /\ NoType \notin QType /\ IsFiniteSet(Bank)

VARIABLES
    saved,       \* the setup the server holds
    allowed,     \* the course's question types, on the server
    hiddenQs,    \* the questions that are hidden
    step,        \* "closed", "loading", "styles" or "targets"
    current,     \* the setup the dialog was given: NoSetup asks the AI
    fit,         \* each subtopic's fit
    layers,      \* what the professor has switched
    courseSeen,  \* the course's types as the dialog read them
    allowedHere, \* types allowed from this dialog
    scope,       \* Course or a subtopic
    toggle,      \* the switch that waits on the question about existing questions
    allowing,    \* the type whose permission is being stored
    hiddenSeen,  \* the hidden questions as the dialog read them
    request,     \* the setup being saved, and whether the dialog that sent it is there
    switches,    \* bound: switches so far
    lastSwitch,  \* history: the last switch of a style in each scope
    moved,       \* history: the saved setup arrived under an open dialog
    cost         \* history: <<cells told, cells that fell>> of the last hiding

serverSetup == <<saved, allowed, hiddenQs>>
choice      == <<current, fit, layers, allowedHere, scope, toggle>>
reads       == <<courseSeen, hiddenSeen>>
setupCalls  == <<allowing, request>>
setupPast   == <<switches, lastSwitch, moved, cost>>
setupVars   == <<serverSetup, step, choice, reads, setupCalls, setupPast>>

Scopes == Subtopic \cup {Course}

-----------------------------------------------------------------------------
(* The layers. *)

Untouched == [s \in Subtopic |-> {}]

ContextAllowed == courseSeen \cup allowedHere

LiveCourseOn(l) == {st \in l.courseOn : TypeOf[st] \in ContextAllowed}

InitialLayers(c, types) ==
    IF c = NoSetup
    THEN [courseOn |-> {st \in Style : TypeOf[st] \in types},
          added |-> Untouched, removed |-> Untouched, baseline |-> Style]
    ELSE LET on == UNION Range(c)
         IN  [courseOn |-> on, added |-> Untouched, removed |-> Untouched, baseline |-> on]

\* A style the course has on and no saved fit accounts for reaches every
\* subtopic; a new setup has no such style.
BaseStyles(l, s) == (fit[s] \cup (Style \ l.baseline)) \cap LiveCourseOn(l)

EffectiveStyles(l, s) ==
    (BaseStyles(l, s) \cup (l.added[s] \cap LiveCourseOn(l))) \ l.removed[s]

StylesIn(l, sc) == IF sc = Course THEN LiveCourseOn(l) ELSE EffectiveStyles(l, sc)

IsCustom(s) == layers.added[s] # {} \/ layers.removed[s] # {}

\* Mutant: a style switched off in a subtopic is only taken from its additions.
SetStylesForgets(l, sc, ids, on) ==
    IF sc = Course
    THEN [l EXCEPT !.courseOn = IF on THEN @ \cup ids ELSE @ \ ids]
    ELSE [l EXCEPT !.added[sc] = IF on THEN @ \cup (ids \cap LiveCourseOn(l)) ELSE @ \ ids]

\* A subtopic can only turn on what the course has on; what its fit has
\* anyway needs no addition, and what its fit lacks needs no removal.
SetStyles(l, sc, ids, on) ==
    LET base == BaseStyles(l, sc)
        live == LiveCourseOn(l)
    IN  CASE sc = Course /\ on  -> [l EXCEPT !.courseOn = @ \cup ids]
          [] sc = Course /\ ~on -> [l EXCEPT !.courseOn = @ \ ids]
          [] sc # Course /\ on  -> [l EXCEPT !.removed[sc] = @ \ (ids \cap live),
                                             !.added[sc] = @ \cup ((ids \cap live) \ base)]
          [] sc # Course /\ ~on -> [l EXCEPT !.added[sc] = @ \ ids,
                                             !.removed[sc] = @ \cup (ids \cap base)]

Missing == {s \in Subtopic : EffectiveStyles(layers, s) = {}}

SaveRequest == [s \in Subtopic |-> EffectiveStyles(layers, s)]

-----------------------------------------------------------------------------
(* Existing questions. *)

InScope(q, sc) == sc = Course \/ sc \in TagsOf[q]

QuestionsIn(sc, ids) == {q \in Bank : InScope(q, sc) /\ StyleOf[q] \in ids}

Approved(s, hid) == {q \in Bank \ hid : s \in TagsOf[q]}

CellsIn(sc) == {s \in Subtopic : sc \in {Course, s} /\ CellTarget[s] > 0}

\* Mutant: the approved questions of a cell are counted in these styles only.
SlotsOfStyles(sc, ids, hid) ==
    Cardinality({s \in CellsIn(sc) :
        Cardinality({q \in Approved(s, hid) : StyleOf[q] \in ids}) >= CellTarget[s]})

\* Cells of the scope that meet their target and would not without these styles.
SlotsBelowTarget(sc, ids, hid) ==
    Cardinality({s \in CellsIn(sc) :
        /\ Cardinality(Approved(s, hid)) >= CellTarget[s]
        /\ Cardinality({q \in Approved(s, hid) : StyleOf[q] \notin ids}) < CellTarget[s]})

-----------------------------------------------------------------------------
(* Opening and closing. *)

OpenSetup(known) ==
    /\ step = "closed"
    /\ known \in {saved, NoSetup}          \* the setup may not have been read yet
    /\ step' = "loading"
    /\ current' = known
    /\ UNCHANGED <<serverSetup, fit, layers, allowedHere, scope, toggle, reads,
                   setupCalls, setupPast>>

\* The suggestion (or, editing, the saved fits), the course and the counts
\* are there: the steps mount and take their starting layers.
Ready(suggested) ==
    /\ step = "loading"
    /\ current # NoSetup => suggested = current
    /\ courseSeen' = allowed /\ hiddenSeen' = hiddenQs
    /\ fit' = suggested
    /\ layers' = InitialLayers(current, allowed)
    /\ step' = "styles"
    /\ scope' = Course /\ toggle' = NoToggle /\ allowedHere' = {}
    /\ lastSwitch' = [sc \in Scopes |-> [st \in Style |-> "none"]]
    /\ moved' = FALSE
    /\ UNCHANGED <<serverSetup, current, setupCalls, switches, cost>>

\* The setup is read while the dialog is open: its fits replace the ones
\* shown, the layers stay.
SetupArrives ==
    /\ step \in {"styles", "targets"} /\ saved # NoSetup /\ current # saved
    /\ current' = saved /\ fit' = saved /\ moved' = TRUE
    /\ UNCHANGED <<serverSetup, step, layers, allowedHere, scope, toggle, reads,
                   setupCalls, switches, lastSwitch, cost>>

Saving == request # NoFit /\ request.here

CloseSetup ==
    /\ step # "closed" /\ step' = "closed" /\ toggle' = NoToggle
    /\ request' = IF request = NoFit THEN NoFit ELSE [request EXCEPT !.here = FALSE]
    /\ UNCHANGED <<serverSetup, current, fit, layers, allowedHere, scope, reads,
                   allowing, setupPast>>

-----------------------------------------------------------------------------
(* The styles step. *)

SetScope(sc) ==
    /\ step = "styles" /\ toggle = NoToggle /\ sc # scope /\ scope' = sc
    /\ UNCHANGED <<serverSetup, step, current, fit, layers, allowedHere, toggle, reads,
                   setupCalls, setupPast>>

GoTo(next) ==
    /\ toggle = NoToggle
    /\ \/ step = "styles" /\ next = "targets"
       \/ step = "targets" /\ next = "styles" /\ ~Saving
    /\ step' = next
    /\ UNCHANGED <<serverSetup, choice, reads, setupCalls, setupPast>>

\* From a subtopic's row of the targets.
AdjustSubtopic(s) ==
    /\ step = "targets" /\ step' = "styles" /\ scope' = s
    /\ UNCHANGED <<serverSetup, current, fit, layers, allowedHere, toggle, reads,
                   setupCalls, setupPast>>

Usable(t) ==
    {st \in Style : TypeOf[st] = t /\ t \in ContextAllowed
                    /\ (scope # Course => st \in LiveCourseOn(layers))}

\* A type's switch covers every usable style to turn on, and the ones that
\* are on to turn off; a style has a switch of its own.
Switchable(on) ==
    LET turned(t) == IF on THEN Usable(t) ELSE Usable(t) \cap StylesIn(layers, scope)
        one(st) == st \in Usable(TypeOf[st]) /\ (st \in StylesIn(layers, scope) <=> ~on)
    IN  ({turned(t) : t \in QType} \cup {{st} : st \in {st \in Style : one(st)}}) \ {{}}

Apply(ids, on) ==
    /\ layers' = SetStyles(layers, scope, ids, on)
    /\ lastSwitch' = [lastSwitch EXCEPT ![scope] =
           [st \in Style |-> IF st \in ids THEN (IF on THEN "on" ELSE "off") ELSE @[st]]]

Toggle(ids, on) ==
    LET changing == {st \in ids : st \in StylesIn(layers, scope) <=> ~on}
        existing == QuestionsIn(scope, changing)
        affected == IF on THEN existing \cap hiddenSeen ELSE existing \ hiddenSeen
    IN  /\ step = "styles" /\ toggle = NoToggle /\ switches < MaxSwitches
        /\ ids \in Switchable(on)
        /\ switches' = switches + 1
        /\ IF affected = {}
           THEN Apply(ids, on) /\ UNCHANGED toggle
           ELSE /\ toggle' = [ids |-> ids, on |-> on, changing |-> changing,
                              counted |-> hiddenSeen,
                              slots |-> IF on THEN 0
                                        ELSE SlotsBelowTarget(scope, changing, hiddenSeen)]
                /\ UNCHANGED <<layers, lastSwitch>>
        /\ UNCHANGED <<serverSetup, step, current, fit, allowedHere, scope, reads,
                       setupCalls, moved, cost>>

\* The question's answer.  With the questions, the server hides or shows them
\* at once, whether or not the setup is ever saved, and the counts are read
\* again.  A hiding the server refuses leaves what answering "without" leaves.
ConfirmToggle(withQuestions) ==
    LET turned == QuestionsIn(scope, toggle.changing)
        after  == IF toggle.on THEN hiddenQs \ turned ELSE hiddenQs \cup turned
        fell   == {s \in CellsIn(scope) :
                      /\ Cardinality(Approved(s, hiddenQs)) >= CellTarget[s]
                      /\ Cardinality(Approved(s, after)) < CellTarget[s]}
    IN  /\ toggle # NoToggle
        /\ Apply(toggle.ids, toggle.on)
        /\ toggle' = NoToggle
        /\ IF withQuestions
           THEN /\ hiddenQs' = after
                /\ cost' = IF toggle.counted # hiddenQs THEN cost
                          ELSE <<toggle.slots, Cardinality(fell)>>
           ELSE UNCHANGED <<hiddenQs, cost>>
        /\ UNCHANGED <<saved, allowed, step, current, fit, allowedHere, scope, reads,
                       setupCalls, switches, moved>>

CancelToggle ==
    /\ toggle # NoToggle /\ toggle' = NoToggle
    /\ UNCHANGED <<serverSetup, step, current, fit, layers, allowedHere, scope, reads,
                   setupCalls, setupPast>>

ReadCounts ==
    /\ step \in {"styles", "targets"} /\ hiddenSeen # hiddenQs
    /\ hiddenSeen' = hiddenQs
    /\ UNCHANGED <<serverSetup, step, choice, courseSeen, setupCalls, setupPast>>

ResetSubtopic ==
    /\ step = "styles" /\ toggle = NoToggle /\ scope # Course /\ IsCustom(scope)
    /\ switches < MaxSwitches /\ switches' = switches + 1
    /\ layers' = [layers EXCEPT !.added[scope] = {}, !.removed[scope] = {}]
    /\ lastSwitch' = [lastSwitch EXCEPT ![scope] = [st \in Style |-> "none"]]
    /\ UNCHANGED <<serverSetup, step, current, fit, allowedHere, scope, toggle, reads,
                   setupCalls, moved, cost>>

\* "Allow for this course" stores the whole list as this dialog knows it, or
\* is refused.
Allow(t) ==
    /\ step = "styles" /\ toggle = NoToggle /\ allowing = NoType
    /\ t \notin ContextAllowed /\ switches < MaxSwitches /\ switches' = switches + 1
    /\ allowing' = t
    /\ allowed' \in {allowed, ContextAllowed \cup {t}}
    /\ UNCHANGED <<saved, hiddenQs, step, choice, reads, request, lastSwitch, moved, cost>>

\* A type never used before starts with all its styles on; a blocked one
\* comes back as it was.  A dialog closed meanwhile is not told.
Allowed ==
    LET ids == {st \in Style : TypeOf[st] = allowing}
    IN  /\ allowing # NoType
        /\ allowing' = NoType
        /\ IF step \in {"closed", "loading"} \/ allowing \notin allowed
           THEN UNCHANGED <<layers, lastSwitch, allowedHere>>
           ELSE /\ allowedHere' = allowedHere \cup {allowing}
                /\ IF ids \cap layers.courseOn # {}
                   THEN UNCHANGED <<layers, lastSwitch>>
                   ELSE /\ layers' = SetStyles(layers, Course, ids, TRUE)
                        /\ lastSwitch' = [lastSwitch EXCEPT ![Course] =
                               [st \in Style |-> IF st \in ids THEN "on" ELSE @[st]]]
        /\ UNCHANGED <<serverSetup, step, current, fit, scope, toggle, reads, request,
                       switches, moved, cost>>

-----------------------------------------------------------------------------
(* Approving. *)

\* Bound: one save in flight, also of a dialog closed since.
Approve ==
    /\ step = "targets" /\ Missing = {} /\ request = NoFit
    /\ request' = [fit |-> SaveRequest, here |-> TRUE]
    /\ UNCHANGED <<serverSetup, step, choice, reads, allowing, setupPast>>

\* Stored; the dialog that asked, if it is still there, closes.
SetupSaved ==
    /\ request # NoFit
    /\ saved' = request.fit /\ request' = NoFit
    /\ IF request.here THEN step' = "closed" /\ toggle' = NoToggle ELSE UNCHANGED <<step, toggle>>
    /\ UNCHANGED <<allowed, hiddenQs, current, fit, layers, allowedHere, scope, reads,
                   allowing, setupPast>>

\* Refused: the error is shown and the dialog stays as it is.
SetupRefused ==
    /\ request # NoFit /\ request' = NoFit
    /\ UNCHANGED <<serverSetup, step, choice, reads, allowing, setupPast>>

-----------------------------------------------------------------------------

SetupInit ==
    /\ saved \in Fits \cup {NoSetup} /\ allowed = CourseTypes /\ hiddenQs = {}
    /\ step = "closed" /\ current = NoSetup
    /\ fit = Untouched /\ layers = InitialLayers(NoSetup, CourseTypes)
    /\ allowedHere = {} /\ scope = Course /\ toggle = NoToggle
    /\ courseSeen = CourseTypes /\ hiddenSeen = {}
    /\ allowing = NoType /\ request = NoFit
    /\ switches = 0 /\ moved = FALSE /\ cost = <<0, 0>>
    /\ lastSwitch = [sc \in Scopes |-> [st \in Style |-> "none"]]

SetupNext ==
    \/ \E known \in Fits \cup {NoSetup} : OpenSetup(known)
    \/ \E f \in Fits \cup {saved} : f # NoSetup /\ Ready(f)
    \/ SetupArrives \/ CloseSetup
    \/ \E sc \in Scopes : SetScope(sc)
    \/ \E next \in {"styles", "targets"} : GoTo(next)
    \/ \E s \in Subtopic : AdjustSubtopic(s)
    \/ \E on \in BOOLEAN : \E ids \in SUBSET Style : Toggle(ids, on)
    \/ \E with \in BOOLEAN : ConfirmToggle(with)
    \/ CancelToggle \/ ReadCounts \/ ResetSubtopic
    \/ \E t \in QType : Allow(t)
    \/ Allowed \/ Approve \/ SetupSaved \/ SetupRefused

SetupSpec == SetupInit /\ [][SetupNext]_setupVars

-----------------------------------------------------------------------------
(* Properties. *)

SetupTypeOK ==
    /\ saved \in [Subtopic -> SUBSET Style] \cup {NoSetup}
    /\ allowed \subseteq QType /\ hiddenQs \subseteq Bank
    /\ step \in {"closed", "loading", "styles", "targets"}
    /\ fit \in [Subtopic -> SUBSET Style] /\ scope \in Scopes
    /\ layers \in [courseOn : SUBSET Style, baseline : SUBSET Style,
                   added : [Subtopic -> SUBSET Style], removed : [Subtopic -> SUBSET Style]]
    /\ request \in [fit : [Subtopic -> SUBSET Style], here : BOOLEAN] \cup {NoFit}
    /\ switches \in 0..MaxSwitches

\* What the professor last said decides: a subtopic has a style exactly when
\* the course has it on, its type is allowed, and the subtopic's own last
\* switch of it (or, untouched since its reset, its fit) says so, whatever
\* the course and the types went through in between (effectiveStyleIds over
\* the additions and removals of setStyles, setup-state.ts:171-267).  A
\* setup that arrives under the open dialog changes the fits and is left out.
LastSwitchDecides ==
    step \in {"styles", "targets"} /\ ~moved =>
        \A s \in Subtopic : EffectiveStyles(layers, s) =
            {st \in LiveCourseOn(layers) :
                \/ lastSwitch[s][st] = "on"
                \/ /\ lastSwitch[s][st] = "none"
                   /\ st \in fit[s] \/ (current # NoSetup /\ st \notin UNION Range(current))}

\* The dialog that offers to hide questions says how many cells of its scope
\* would fall below their target: when it counted fresh, as many fall
\* (slotsBelowTarget, setup-state.ts:368-388).
ToldWhatItCosts == cost[1] = cost[2]
=============================================================================
