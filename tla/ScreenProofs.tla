---------------------------- MODULE ScreenProofs ----------------------------
(***************************************************************************)
(* What is proved of the pages of the web client, each for itself: the     *)
(* question setup dialog, the recipe editor, the review queue, the jobs    *)
(* panel, the page on which a classroom joins and the cache of queries     *)
(* they all share.                                                         *)
(***************************************************************************)
EXTENDS QuestionSetup, RecipeEditor, ReviewQueue, JobsPanel, JoinClassroom, QueryCache,
        FiniteSetTheorems, WellFoundedInduction, TLAPS

Less == {ss \in Nat \X Nat : ss[1] < ss[2]}
-----------------------------------------------------------------------------
(***************************************************************************)
(* Proofs about QuestionSetup for every library of styles, every set of    *)
(* subtopics and fits, every bank and every number of switches.            *)
(***************************************************************************)
StyleSets == [Subtopic -> SUBSET Style]
LayerSets == [courseOn : SUBSET Style, baseline : SUBSET Style,
              added : StyleSets, removed : StyleSets]

(***************************************************************************)
(* The inductive invariant.  The layers remember a subtopic's last switch  *)
(* of a style not as such but as an addition, a removal, or neither when   *)
(* its fit says the same: Settled says which.  A switch that waits on the  *)
(* question about existing questions was offered for styles the course has *)
(* on, and they stay on until it is answered.                              *)
(***************************************************************************)
Natural(s) == fit[s] \cup (Style \ layers.baseline)

Settled(s, st) ==
    /\ lastSwitch[s][st] = "none" => st \notin layers.added[s] /\ st \notin layers.removed[s]
    /\ lastSwitch[s][st] = "on" => /\ st \notin layers.removed[s]
                                   /\ st \in layers.added[s] \/ st \in Natural(s)
    /\ lastSwitch[s][st] = "off" => /\ st \notin layers.added[s]
                                    /\ st \in layers.removed[s] \/ st \notin Natural(s)

HistoryTypes ==
    /\ lastSwitch \in [Scopes -> [Style -> {"none", "on", "off"}]]
    /\ current \in StyleSets \cup {NoSetup}
    /\ courseSeen \subseteq QType /\ allowedHere \subseteq QType
    /\ allowing \in QType \cup {NoType}

ToggleInv ==
    toggle # NoToggle =>
        /\ step = "styles"
        /\ toggle.ids \subseteq Style /\ toggle.on \in BOOLEAN
        /\ scope # Course => toggle.ids \subseteq LiveCourseOn(layers)

LayersInv ==
    step \in {"styles", "targets"} /\ ~moved =>
        /\ layers.baseline = IF current = NoSetup THEN Style ELSE UNION Range(current)
        /\ \A s \in Subtopic : \A st \in Style : Settled(s, st)

SetupInv == SetupTypeOK /\ HistoryTypes /\ ToggleInv /\ LayersInv
-----------------------------------------------------------------------------
\* Every switch the dialog offers is one for styles of the library, and in a
\* subtopic for styles the course has on.
LEMMA OfferedStyles ==
    ASSUME NEW on \in BOOLEAN, NEW ids \in Switchable(on)
    PROVE  ids \subseteq Style /\ (scope # Course => ids \subseteq LiveCourseOn(layers))
<1>1. \A t : Usable(t) \subseteq Style /\ (scope # Course => Usable(t) \subseteq LiveCourseOn(layers))
  BY DEF Usable
<1>2. \/ \E t \in QType : ids \subseteq Usable(t)
      \/ \E st \in Style : ids = {st} /\ st \in Usable(TypeOf[st])
  BY DEF Switchable
<1> QED
  BY <1>1, <1>2

\* A saved setup has styles of the library only.
LEMMA StylesOfSetup == ASSUME NEW c \in StyleSets PROVE UNION Range(c) \subseteq Style
BY DEF StyleSets, Range

\* The layers a dialog starts with.
LEMMA StartingLayers ==
    ASSUME NEW c \in StyleSets \cup {NoSetup}, NEW types
    PROVE  /\ InitialLayers(c, types) \in LayerSets
           /\ InitialLayers(c, types).baseline = IF c = NoSetup THEN Style ELSE UNION Range(c)
           /\ \A s \in Subtopic : /\ InitialLayers(c, types).added[s] = {}
                                  /\ InitialLayers(c, types).removed[s] = {}
<1>1. c # NoSetup => UNION Range(c) \subseteq Style
  BY StylesOfSetup
<1>2. Untouched \in StyleSets /\ \A s \in Subtopic : Untouched[s] = {}
  BY DEF Untouched, StyleSets
<1> QED
  BY <1>1, <1>2 DEF InitialLayers, LayerSets

\* What a switch of the styles ids in the subtopic sc changes of the layers.
SwitchedHere(l, sc, ids, on) ==
    LET live == ids \cap LiveCourseOn(layers)
    IN  /\ l \in LayerSets
        /\ l.courseOn = layers.courseOn /\ l.baseline = layers.baseline
        /\ \A s \in Subtopic \ {sc} : /\ l.added[s] = layers.added[s]
                                      /\ l.removed[s] = layers.removed[s]
        /\ on => /\ l.added[sc] = layers.added[sc] \cup (live \ Natural(sc))
                 /\ l.removed[sc] = layers.removed[sc] \ live
        /\ ~on => /\ l.added[sc] = layers.added[sc] \ ids
                  /\ l.removed[sc] = layers.removed[sc] \cup (live \cap Natural(sc))

LEMMA SwitchHere ==
    ASSUME SetupTypeOK, NEW sc \in Subtopic, NEW ids \in SUBSET Style, NEW on \in BOOLEAN
    PROVE  SwitchedHere(SetStyles(layers, sc, ids, on), sc, ids, on)
<1>1. sc # Course
  BY SetupAssumption
<1>2. layers \in LayerSets /\ fit \in StyleSets
  BY DEF SetupTypeOK, LayerSets, StyleSets
<1>3. BaseStyles(layers, sc) = Natural(sc) \cap LiveCourseOn(layers)
  BY DEF BaseStyles, Natural
<1>4. LiveCourseOn(layers) \subseteq Style
  BY <1>2 DEF LiveCourseOn, LayerSets
<1>5. CASE on
  <2> DEFINE live == ids \cap LiveCourseOn(layers)
             l == [layers EXCEPT !.removed[sc] = @ \ live,
                                 !.added[sc] = @ \cup (live \ BaseStyles(layers, sc))]
  <2>1. SetStyles(layers, sc, ids, on) = l
    BY <1>1, <1>5 DEF SetStyles
  <2>2. live \ BaseStyles(layers, sc) = live \ Natural(sc)
    BY <1>3
  <2>3. l \in LayerSets
    BY <1>2, <1>4 DEF LayerSets, StyleSets
  <2>4. /\ l.courseOn = layers.courseOn /\ l.baseline = layers.baseline
        /\ \A s \in Subtopic \ {sc} : /\ l.added[s] = layers.added[s]
                                      /\ l.removed[s] = layers.removed[s]
        /\ l.added[sc] = layers.added[sc] \cup (live \ BaseStyles(layers, sc))
        /\ l.removed[sc] = layers.removed[sc] \ live
    BY <1>2 DEF LayerSets, StyleSets
  <2> QED
    BY <1>5, <2>1, <2>2, <2>3, <2>4 DEF SwitchedHere
<1>6. CASE ~on
  <2> DEFINE l == [layers EXCEPT !.added[sc] = @ \ ids,
                                 !.removed[sc] = @ \cup (ids \cap BaseStyles(layers, sc))]
  <2>1. SetStyles(layers, sc, ids, on) = l
    BY <1>1, <1>6 DEF SetStyles
  <2>2. ids \cap BaseStyles(layers, sc) = (ids \cap LiveCourseOn(layers)) \cap Natural(sc)
    BY <1>3
  <2>3. l \in LayerSets
    BY <1>2, <1>4 DEF LayerSets, StyleSets
  <2>4. /\ l.courseOn = layers.courseOn /\ l.baseline = layers.baseline
        /\ \A s \in Subtopic \ {sc} : /\ l.added[s] = layers.added[s]
                                      /\ l.removed[s] = layers.removed[s]
        /\ l.added[sc] = layers.added[sc] \ ids
        /\ l.removed[sc] = layers.removed[sc] \cup (ids \cap BaseStyles(layers, sc))
    BY <1>2 DEF LayerSets, StyleSets
  <2> QED
    BY <1>6, <2>1, <2>2, <2>3, <2>4 DEF SwitchedHere
<1> QED
  BY <1>5, <1>6

\* What a switch for the course changes of the layers.
LEMMA SwitchForCourse ==
    ASSUME SetupTypeOK, NEW ids \in SUBSET Style, NEW on \in BOOLEAN
    PROVE  LET l == SetStyles(layers, Course, ids, on)
           IN  /\ l \in LayerSets
               /\ l.baseline = layers.baseline
               /\ l.added = layers.added /\ l.removed = layers.removed
               /\ on => layers.courseOn \subseteq l.courseOn
<1>1. layers \in LayerSets
  BY DEF SetupTypeOK, LayerSets, StyleSets
<1> QED
  BY <1>1 DEF SetStyles, LayerSets

\* A switch that is carried out leaves every style of every subtopic settled.
LEMMA ApplySettles ==
    ASSUME SetupTypeOK, HistoryTypes, NEW ids \in SUBSET Style, NEW on \in BOOLEAN,
           scope # Course => ids \subseteq LiveCourseOn(layers),
           Apply(ids, on), UNCHANGED <<fit, scope>>
    PROVE  /\ layers' \in LayerSets /\ layers'.baseline = layers.baseline
           /\ lastSwitch' \in [Scopes -> [Style -> {"none", "on", "off"}]]
           /\ \A s \in Subtopic : \A st \in Style : Settled(s, st) => Settled(s, st)'
<1>1. layers' = SetStyles(layers, scope, ids, on)
  BY DEF Apply
<1>2. lastSwitch' \in [Scopes -> [Style -> {"none", "on", "off"}]]
  BY DEF Apply, HistoryTypes
<1>3. scope \in Scopes
  BY DEF SetupTypeOK
<1>4. ASSUME NEW s \in Subtopic, NEW st \in Style, s # scope \/ st \notin ids
      PROVE  lastSwitch'[s][st] = lastSwitch[s][st]
  BY <1>4 DEF Apply, HistoryTypes, Scopes
<1>5. CASE scope = Course
  <2>1. /\ layers' \in LayerSets /\ layers'.baseline = layers.baseline
        /\ layers'.added = layers.added /\ layers'.removed = layers.removed
    BY <1>1, <1>5, SwitchForCourse
  <2>2. ASSUME NEW s \in Subtopic, NEW st \in Style, Settled(s, st) PROVE Settled(s, st)'
    <3>1. s # scope
      BY <1>5, SetupAssumption
    <3>2. Natural(s)' = Natural(s)
      BY <2>1 DEF Natural
    <3> QED
      BY <1>4, <2>1, <2>2, <3>1, <3>2 DEF Settled
  <2> QED
    BY <1>2, <2>1, <2>2
<1>6. CASE scope \in Subtopic
  <2>0. ids \cap LiveCourseOn(layers) = ids
    BY <1>6, SetupAssumption
  <2>1. /\ layers' \in LayerSets /\ layers'.baseline = layers.baseline
        /\ \A s \in Subtopic \ {scope} : /\ layers'.added[s] = layers.added[s]
                                         /\ layers'.removed[s] = layers.removed[s]
        /\ on => /\ layers'.added[scope] = layers.added[scope] \cup (ids \ Natural(scope))
                 /\ layers'.removed[scope] = layers.removed[scope] \ ids
        /\ ~on => /\ layers'.added[scope] = layers.added[scope] \ ids
                  /\ layers'.removed[scope] = layers.removed[scope] \cup (ids \cap Natural(scope))
    <3>1. SwitchedHere(layers', scope, ids, on)
      BY <1>1, <1>6, SwitchHere
    <3> QED
      BY <2>0, <3>1 DEF SwitchedHere
  <2>2. ASSUME NEW s \in Subtopic, NEW st \in Style, Settled(s, st) PROVE Settled(s, st)'
    <3>1. Natural(s)' = Natural(s)
      BY <2>1 DEF Natural
    <3>2. CASE s # scope
      BY <1>4, <2>1, <2>2, <3>1, <3>2 DEF Settled
    <3>3. CASE s = scope /\ st \notin ids
      <4>1. /\ st \in layers'.added[s] <=> st \in layers.added[s]
            /\ st \in layers'.removed[s] <=> st \in layers.removed[s]
        BY <2>1, <3>3
      <4> QED
        BY <1>4, <2>2, <3>1, <3>3, <4>1 DEF Settled
    <3>4. CASE s = scope /\ st \in ids
      <4>1. lastSwitch'[s][st] = IF on THEN "on" ELSE "off"
        BY <1>3, <3>4 DEF Apply, HistoryTypes
      <4>2. CASE on
        BY <2>1, <3>1, <3>4, <4>1, <4>2 DEF Settled
      <4>3. CASE ~on
        BY <2>1, <3>1, <3>4, <4>1, <4>3 DEF Settled
      <4> QED
        BY <4>2, <4>3
    <3> QED
      BY <3>2, <3>3, <3>4
  <2> QED
    BY <1>2, <2>1, <2>2
<1> QED
  BY <1>3, <1>5, <1>6 DEF Scopes
-----------------------------------------------------------------------------
(* The steps. *)

\* A step that leaves the choice and its history alone keeps what is said of
\* them, whatever it does to the requests.
LEMMA ChoiceUntouched ==
    ASSUME SetupInv, UNCHANGED <<fit, layers, lastSwitch, current, moved>>,
           step' = step \/ step' \in {"closed", "loading"}
    PROVE  LayersInv'
<1>1. SUFFICES ASSUME step \in {"styles", "targets"}, ~moved PROVE LayersInv'
  BY DEF LayersInv
<1> QED
  BY <1>1 DEF SetupInv, LayersInv, Settled, Natural

\* Every step of the dialog, of its requests and of the server keeps the
\* invariant.
LEMMA SetupInvStep == SetupInv /\ [SetupNext]_setupVars => SetupInv'
<1> SUFFICES ASSUME SetupInv, [SetupNext]_setupVars PROVE SetupInv'
  OBVIOUS
<1>0. SetupTypeOK /\ HistoryTypes /\ ToggleInv /\ LayersInv
  BY DEF SetupInv
<1> USE <1>0, SetupAssumption DEF SetupInv, serverSetup, choice, reads, setupCalls, setupPast
<1>1. ASSUME NEW known \in Fits \cup {NoSetup}, OpenSetup(known) PROVE SetupInv'
  <2>1. LayersInv' /\ ToggleInv'
    BY <1>1 DEF OpenSetup, LayersInv, ToggleInv
  <2> QED
    BY <1>1, <2>1 DEF OpenSetup, SetupTypeOK, HistoryTypes, StyleSets
<1>2. ASSUME NEW f \in Fits \cup {saved}, f # NoSetup, Ready(f) PROVE SetupInv'
  <2>1. f \in StyleSets /\ current \in StyleSets \cup {NoSetup}
    BY <1>2 DEF SetupTypeOK, HistoryTypes, StyleSets
  <2>2. /\ layers' \in LayerSets
        /\ layers'.baseline = IF current = NoSetup THEN Style ELSE UNION Range(current)
        /\ \A s \in Subtopic : layers'.added[s] = {} /\ layers'.removed[s] = {}
    BY <1>2, <2>1, StartingLayers DEF Ready
  <2>3. SetupTypeOK'
    BY <1>2, <2>1, <2>2 DEF Ready, SetupTypeOK, LayerSets, StyleSets, Scopes
  <2>4. HistoryTypes' /\ ToggleInv'
    BY <1>2 DEF Ready, HistoryTypes, ToggleInv, SetupTypeOK
  <2>5. \A s \in Subtopic : \A st \in Style : lastSwitch'[s][st] = "none"
    BY <1>2 DEF Ready, Scopes
  <2>6. LayersInv'
    BY <1>2, <2>2, <2>5 DEF Ready, LayersInv, Settled
  <2> QED
    BY <2>3, <2>4, <2>6
<1>3. CASE SetupArrives
  <2>1. saved \in StyleSets
    BY <1>3 DEF SetupArrives, SetupTypeOK, StyleSets
  <2>2. SetupTypeOK' /\ HistoryTypes'
    BY <1>3, <2>1 DEF SetupArrives, SetupTypeOK, HistoryTypes, StyleSets
  <2>3. LayersInv'
    BY <1>3 DEF SetupArrives, LayersInv
  <2>4. ToggleInv'
    BY <1>3 DEF SetupArrives, ToggleInv, LiveCourseOn, ContextAllowed
  <2> QED
    BY <2>2, <2>3, <2>4
<1>4. CASE CloseSetup
  <2>1. SetupTypeOK'
    BY <1>4 DEF CloseSetup, SetupTypeOK
  <2>2. LayersInv' /\ ToggleInv' /\ HistoryTypes'
    BY <1>4 DEF CloseSetup, LayersInv, ToggleInv, HistoryTypes
  <2> QED
    BY <2>1, <2>2
<1>5. ASSUME NEW sc \in Scopes, SetScope(sc) PROVE SetupInv'
  <2>1. LayersInv'
    BY <1>5, ChoiceUntouched DEF SetScope
  <2>2. SetupTypeOK' /\ HistoryTypes' /\ ToggleInv'
    BY <1>5 DEF SetScope, SetupTypeOK, HistoryTypes, ToggleInv
  <2> QED
    BY <2>1, <2>2
<1>6. ASSUME NEW next \in {"styles", "targets"}, GoTo(next) PROVE SetupInv'
  <2>1. LayersInv'
    BY <1>6 DEF GoTo, LayersInv, Settled, Natural
  <2>2. SetupTypeOK' /\ HistoryTypes' /\ ToggleInv'
    BY <1>6 DEF GoTo, SetupTypeOK, HistoryTypes, ToggleInv
  <2> QED
    BY <2>1, <2>2
<1>7. ASSUME NEW s \in Subtopic, AdjustSubtopic(s) PROVE SetupInv'
  <2>1. LayersInv'
    BY <1>7 DEF AdjustSubtopic, LayersInv, Settled, Natural
  <2>2. SetupTypeOK' /\ HistoryTypes' /\ ToggleInv'
    BY <1>7 DEF AdjustSubtopic, SetupTypeOK, HistoryTypes, ToggleInv, Scopes
  <2> QED
    BY <2>1, <2>2
<1>8. ASSUME NEW on \in BOOLEAN, NEW ids \in SUBSET Style, Toggle(ids, on) PROVE SetupInv'
  <2>1. scope # Course => ids \subseteq LiveCourseOn(layers)
    BY <1>8, OfferedStyles DEF Toggle
  <2>2. /\ step = "styles" /\ switches' \in 0 .. MaxSwitches
        /\ UNCHANGED <<serverSetup, step, current, fit, allowedHere, scope, reads,
                       setupCalls, moved, cost>>
    BY <1>8 DEF Toggle, SetupTypeOK
  <2>3. \/ Apply(ids, on) /\ toggle' = toggle /\ toggle = NoToggle
        \/ /\ toggle'.ids = ids /\ toggle'.on = on
           /\ UNCHANGED <<layers, lastSwitch>>
    BY <1>8 DEF Toggle
  <2>4. CASE Apply(ids, on) /\ toggle' = toggle /\ toggle = NoToggle
    <3>1. /\ layers' \in LayerSets /\ layers'.baseline = layers.baseline
          /\ lastSwitch' \in [Scopes -> [Style -> {"none", "on", "off"}]]
          /\ \A s \in Subtopic : \A st \in Style : Settled(s, st) => Settled(s, st)'
      BY <2>1, <2>2, <2>4, ApplySettles
    <3>2. SetupTypeOK' /\ HistoryTypes' /\ ToggleInv'
      BY <2>2, <2>4, <3>1 DEF SetupTypeOK, HistoryTypes, ToggleInv, LayerSets, StyleSets
    <3>3. LayersInv'
      BY <2>2, <3>1 DEF LayersInv
    <3> QED
      BY <3>2, <3>3
  <2>5. CASE /\ toggle'.ids = ids /\ toggle'.on = on
             /\ UNCHANGED <<layers, lastSwitch>>
    <3>1. LayersInv'
      BY <2>2, <2>5, ChoiceUntouched
    <3>2. SetupTypeOK' /\ HistoryTypes'
      BY <2>2, <2>5 DEF SetupTypeOK, HistoryTypes
    <3>3. ToggleInv'
      BY <2>1, <2>2, <2>5 DEF ToggleInv, LiveCourseOn, ContextAllowed
    <3> QED
      BY <3>1, <3>2, <3>3
  <2> QED
    BY <2>3, <2>4, <2>5
<1>9. ASSUME NEW with \in BOOLEAN, ConfirmToggle(with) PROVE SetupInv'
  <2>1. /\ toggle # NoToggle /\ Apply(toggle.ids, toggle.on) /\ toggle' = NoToggle
        /\ UNCHANGED <<saved, allowed, step, current, fit, allowedHere, scope, reads,
                       setupCalls, switches, moved>>
    BY <1>9 DEF ConfirmToggle
  <2>2. hiddenQs' \subseteq Bank
    BY <1>9 DEF ConfirmToggle, QuestionsIn, SetupTypeOK
  <2>3. /\ toggle.ids \in SUBSET Style /\ toggle.on \in BOOLEAN
        /\ scope # Course => toggle.ids \subseteq LiveCourseOn(layers)
    BY <2>1 DEF ToggleInv
  <2>4. /\ layers' \in LayerSets /\ layers'.baseline = layers.baseline
        /\ lastSwitch' \in [Scopes -> [Style -> {"none", "on", "off"}]]
        /\ \A s \in Subtopic : \A st \in Style : Settled(s, st) => Settled(s, st)'
    BY <2>1, <2>3, ApplySettles
  <2>5. SetupTypeOK' /\ HistoryTypes' /\ ToggleInv'
    BY <2>1, <2>2, <2>4 DEF SetupTypeOK, HistoryTypes, ToggleInv, LayerSets, StyleSets
  <2>6. LayersInv'
    BY <2>1, <2>4 DEF LayersInv
  <2> QED
    BY <2>5, <2>6
<1>10. CASE CancelToggle
  <2>1. LayersInv'
    BY <1>10, ChoiceUntouched DEF CancelToggle
  <2>2. SetupTypeOK' /\ HistoryTypes' /\ ToggleInv'
    BY <1>10 DEF CancelToggle, SetupTypeOK, HistoryTypes, ToggleInv
  <2> QED
    BY <2>1, <2>2
<1>11. CASE ReadCounts
  <2>1. LayersInv'
    BY <1>11, ChoiceUntouched DEF ReadCounts
  <2>2. SetupTypeOK' /\ HistoryTypes' /\ ToggleInv'
    BY <1>11 DEF ReadCounts, SetupTypeOK, HistoryTypes, ToggleInv, LiveCourseOn, ContextAllowed
  <2> QED
    BY <2>1, <2>2
<1>12. CASE ResetSubtopic
  <2>1. scope \in Subtopic /\ layers \in LayerSets
    BY <1>12 DEF ResetSubtopic, SetupTypeOK, Scopes, LayerSets, StyleSets
  <2>2. /\ layers' \in LayerSets /\ layers'.baseline = layers.baseline
        /\ layers'.added[scope] = {} /\ layers'.removed[scope] = {}
        /\ \A s \in Subtopic \ {scope} : /\ layers'.added[s] = layers.added[s]
                                         /\ layers'.removed[s] = layers.removed[s]
    BY <1>12, <2>1 DEF ResetSubtopic, LayerSets, StyleSets
  <2>3. /\ lastSwitch' \in [Scopes -> [Style -> {"none", "on", "off"}]]
        /\ \A st \in Style : lastSwitch'[scope][st] = "none"
        /\ \A s \in Subtopic \ {scope} : lastSwitch'[s] = lastSwitch[s]
    BY <1>12, <2>1 DEF ResetSubtopic, HistoryTypes, Scopes
  <2>4. SetupTypeOK'
    BY <1>12, <2>2 DEF ResetSubtopic, SetupTypeOK, LayerSets, StyleSets
  <2>5. HistoryTypes' /\ ToggleInv'
    BY <1>12, <2>3 DEF ResetSubtopic, HistoryTypes, ToggleInv
  <2>6. ASSUME NEW s \in Subtopic, NEW st \in Style, Settled(s, st) PROVE Settled(s, st)'
    <3>1. Natural(s)' = Natural(s)
      BY <1>12, <2>2 DEF ResetSubtopic, Natural
    <3> QED
      BY <2>2, <2>3, <2>6, <3>1 DEF Settled
  <2>7. LayersInv'
    BY <1>12, <2>2, <2>6 DEF ResetSubtopic, LayersInv
  <2> QED
    BY <2>4, <2>5, <2>7
<1>13. ASSUME NEW t \in QType, Allow(t) PROVE SetupInv'
  <2>1. LayersInv'
    BY <1>13, ChoiceUntouched DEF Allow
  <2>2. allowed' \subseteq QType
    BY <1>13 DEF Allow, ContextAllowed, SetupTypeOK, HistoryTypes
  <2>3. SetupTypeOK' /\ HistoryTypes' /\ ToggleInv'
    BY <1>13, <2>2 DEF Allow, SetupTypeOK, HistoryTypes, ToggleInv
  <2> QED
    BY <2>1, <2>3
<1>14. CASE Allowed
  <2> DEFINE ids == {st \in Style : TypeOf[st] = allowing}
  <2>1. /\ UNCHANGED <<serverSetup, step, current, fit, scope, toggle, reads, request,
                       switches, moved, cost>>
        /\ allowing' = NoType
    BY <1>14 DEF Allowed
  <2>2. CASE UNCHANGED <<layers, lastSwitch>>
    <3>1. allowedHere \subseteq allowedHere' /\ allowedHere' \subseteq QType
      BY <1>14 DEF Allowed, HistoryTypes
    <3>2. LayersInv'
      BY <2>1, <2>2, ChoiceUntouched
    <3>3. SetupTypeOK' /\ HistoryTypes'
      BY <2>1, <2>2, <3>1 DEF SetupTypeOK, HistoryTypes
    <3>4. ToggleInv'
      BY <2>1, <2>2, <3>1 DEF ToggleInv, LiveCourseOn, ContextAllowed
    <3> QED
      BY <3>2, <3>3, <3>4
  <2>3. CASE ~UNCHANGED <<layers, lastSwitch>>
    <3>1. /\ allowedHere' = allowedHere \cup {allowing}
          /\ allowing \in QType
          /\ layers' = SetStyles(layers, Course, ids, TRUE)
          /\ lastSwitch' = [lastSwitch EXCEPT ![Course] =
                               [st \in Style |-> IF st \in ids THEN "on" ELSE @[st]]]
      BY <1>14, <2>3 DEF Allowed, HistoryTypes
    <3> HIDE DEF ids
    <3>2. ids \in SUBSET Style
      BY DEF ids
    <3>3. /\ layers' \in LayerSets /\ layers'.baseline = layers.baseline
          /\ layers'.added = layers.added /\ layers'.removed = layers.removed
          /\ layers.courseOn \subseteq layers'.courseOn
      BY <3>1, <3>2, SwitchForCourse
    <3>4. /\ lastSwitch' \in [Scopes -> [Style -> {"none", "on", "off"}]]
          /\ \A s \in Subtopic : lastSwitch'[s] = lastSwitch[s]
      BY <3>1 DEF HistoryTypes, Scopes
    <3>5. SetupTypeOK' /\ HistoryTypes'
      BY <2>1, <3>1, <3>3, <3>4 DEF SetupTypeOK, HistoryTypes, LayerSets, StyleSets
    <3>6. ToggleInv'
      BY <2>1, <3>1, <3>3 DEF ToggleInv, LiveCourseOn, ContextAllowed
    <3>7. LayersInv'
      BY <2>1, <3>3, <3>4 DEF LayersInv, Settled, Natural
    <3> QED
      BY <3>5, <3>6, <3>7
  <2> QED
    BY <2>2, <2>3
<1>15. CASE Approve
  <2>1. SaveRequest \in StyleSets
    BY DEF SaveRequest, EffectiveStyles, BaseStyles, LiveCourseOn, SetupTypeOK, StyleSets
  <2>2. LayersInv'
    BY <1>15, ChoiceUntouched DEF Approve
  <2>3. SetupTypeOK' /\ HistoryTypes' /\ ToggleInv'
    BY <1>15, <2>1 DEF Approve, SetupTypeOK, HistoryTypes, ToggleInv, StyleSets
  <2> QED
    BY <2>2, <2>3
<1>16. CASE SetupSaved
  <2>1. saved' \in StyleSets
    BY <1>16 DEF SetupSaved, SetupTypeOK, StyleSets
  <2>2. LayersInv'
    BY <1>16, ChoiceUntouched DEF SetupSaved
  <2>3. SetupTypeOK' /\ HistoryTypes' /\ ToggleInv'
    BY <1>16, <2>1 DEF SetupSaved, SetupTypeOK, HistoryTypes, ToggleInv, StyleSets,
                       LiveCourseOn, ContextAllowed
  <2> QED
    BY <2>2, <2>3
<1>17. CASE SetupRefused
  <2>1. LayersInv'
    BY <1>17, ChoiceUntouched DEF SetupRefused
  <2>2. SetupTypeOK' /\ HistoryTypes' /\ ToggleInv'
    BY <1>17 DEF SetupRefused, SetupTypeOK, HistoryTypes, ToggleInv, LiveCourseOn, ContextAllowed
  <2> QED
    BY <2>1, <2>2
<1>18. CASE UNCHANGED setupVars
  <2>1. LayersInv'
    BY <1>18, ChoiceUntouched DEF setupVars
  <2>2. SetupTypeOK' /\ HistoryTypes' /\ ToggleInv'
    BY <1>18 DEF setupVars, SetupTypeOK, HistoryTypes, ToggleInv, LiveCourseOn, ContextAllowed
  <2> QED
    BY <2>1, <2>2
<1> QED
  BY <1>1, <1>2, <1>3, <1>4, <1>5, <1>6, <1>7, <1>8, <1>9, <1>10, <1>11, <1>12, <1>13, <1>14,
     <1>15, <1>16, <1>17, <1>18 DEF SetupNext
-----------------------------------------------------------------------------
\* The page starts with the dialog closed.
LEMMA SetupInvInit == SetupInit => SetupInv
<1> SUFFICES ASSUME SetupInit PROVE SetupInv
  OBVIOUS
<1>1. layers \in LayerSets /\ fit \in StyleSets
  BY StartingLayers DEF SetupInit, Untouched, StyleSets
<1> QED
  BY <1>1, SetupAssumption
     DEF SetupInit, SetupInv, SetupTypeOK, HistoryTypes, ToggleInv, LayersInv, LayerSets,
         StyleSets, Scopes

\* What the dialog holds and what the server has stored always have their
\* types: the layers are sets of styles of the library, for every subtopic.
THEOREM SetupTypes == SetupSpec => []SetupTypeOK
<1>1. SetupInv => SetupTypeOK
  BY DEF SetupInv
<1> QED
  BY <1>1, SetupInvInit, SetupInvStep, PTL DEF SetupSpec

\* A settled style is one a subtopic has exactly when the last switch, or
\* the fit where there is none, says so.
LEMMA SettledDecides == SetupInv => LastSwitchDecides
<1> SUFFICES ASSUME SetupInv, step \in {"styles", "targets"}, ~moved,
                    NEW s \in Subtopic, NEW st \in LiveCourseOn(layers)
             PROVE  st \in EffectiveStyles(layers, s) <=>
                       \/ lastSwitch[s][st] = "on"
                       \/ /\ lastSwitch[s][st] = "none"
                          /\ st \in fit[s] \/ (current # NoSetup /\ st \notin UNION Range(current))
  BY DEF LastSwitchDecides, EffectiveStyles, BaseStyles
<1>1. st \in Style
  BY DEF SetupInv, SetupTypeOK, LiveCourseOn
<1>2. Settled(s, st) /\ layers.baseline = IF current = NoSetup THEN Style ELSE UNION Range(current)
  BY <1>1 DEF SetupInv, LayersInv
<1>3. lastSwitch[s][st] \in {"none", "on", "off"}
  BY <1>1 DEF SetupInv, HistoryTypes, Scopes
<1>4. st \in EffectiveStyles(layers, s) <=>
         (st \in Natural(s) \/ st \in layers.added[s]) /\ st \notin layers.removed[s]
  BY DEF EffectiveStyles, BaseStyles, Natural
<1>5. st \in Natural(s) <=>
         st \in fit[s] \/ (current # NoSetup /\ st \notin UNION Range(current))
  BY <1>1, <1>2 DEF Natural
<1> QED
  BY <1>2, <1>3, <1>4, <1>5 DEF Settled

\* However the professor switches styles for the course and per subtopic,
\* resets subtopics and allows types, a subtopic has exactly the styles its
\* own last switches and its fit give it, among those the course has on.
THEOREM LastWordHolds == SetupSpec => []LastSwitchDecides
<1> QED
  BY SettledDecides, SetupInvInit, SetupInvStep, PTL DEF SetupSpec
-----------------------------------------------------------------------------
(***************************************************************************)
(* What hiding costs.  A waiting switch tells how many cells of its scope  *)
(* fall when the questions of its styles are hidden, counted on what the   *)
(* dialog had read; the scope does not change while it waits.              *)
(***************************************************************************)
CostInv ==
    /\ toggle # NoToggle =>
          toggle.slots = IF toggle.on THEN 0
                         ELSE SlotsBelowTarget(scope, toggle.changing, toggle.counted)
    /\ cost[1] = cost[2]

\* The cells of a scope that fall when these questions are hidden, not those.
Falling(sc, before, now) ==
    {s \in CellsIn(sc) : /\ Cardinality(Approved(s, before)) >= CellTarget[s]
                         /\ Cardinality(Approved(s, now)) < CellTarget[s]}

\* Hiding the questions of some styles leaves a cell of the scope those of the
\* other styles.
LEMMA HiddenOfCell ==
    ASSUME NEW sc, NEW ids, NEW hid, NEW s \in CellsIn(sc)
    PROVE  Approved(s, hid \cup QuestionsIn(sc, ids)) = {q \in Approved(s, hid) : StyleOf[q] \notin ids}
BY DEF CellsIn, Approved, QuestionsIn, InScope

\* The cells that fall are the ones that were told.
LEMMA FallAsTold ==
    ASSUME NEW sc, NEW ids, NEW hid
    PROVE  SlotsBelowTarget(sc, ids, hid) =
           Cardinality(Falling(sc, hid, hid \cup QuestionsIn(sc, ids)))
<1> DEFINE Told == {s \in CellsIn(sc) :
              /\ Cardinality(Approved(s, hid)) >= CellTarget[s]
              /\ Cardinality({q \in Approved(s, hid) : StyleOf[q] \notin ids}) < CellTarget[s]}
<1>1. \A s \in CellsIn(sc) :
         Approved(s, hid \cup QuestionsIn(sc, ids)) = {q \in Approved(s, hid) : StyleOf[q] \notin ids}
  BY HiddenOfCell
<1>2. Told = Falling(sc, hid, hid \cup QuestionsIn(sc, ids))
  BY <1>1 DEF Falling
<1> QED
  BY <1>2 DEF SlotsBelowTarget

\* Showing questions takes no cell below its target.
LEMMA ShowingCostsNothing ==
    ASSUME NEW sc, NEW ids, NEW hid
    PROVE  Cardinality(Falling(sc, hid, hid \ QuestionsIn(sc, ids))) = 0
<1> DEFINE Before(s) == Approved(s, hid)
           After(s) == Approved(s, hid \ QuestionsIn(sc, ids))
<1>1. ASSUME NEW s \in CellsIn(sc)
      PROVE  ~(Cardinality(Before(s)) >= CellTarget[s] /\ Cardinality(After(s)) < CellTarget[s])
  <2>1. Before(s) \in SUBSET After(s) /\ After(s) \in SUBSET Bank
    BY DEF Approved
  <2>2. IsFiniteSet(After(s))
    BY <2>1, FS_Subset, SetupAssumption
  <2>3. IsFiniteSet(Before(s)) /\ Cardinality(Before(s)) <= Cardinality(After(s))
    BY <2>1, <2>2, FS_Subset
  <2>4. Cardinality(Before(s)) \in Nat /\ Cardinality(After(s)) \in Nat /\ CellTarget[s] \in Nat
    BY <2>2, <2>3, FS_CardinalityType, SetupAssumption DEF CellsIn
  <2> HIDE DEF Before, After
  <2> QED
    BY <2>3, <2>4
<1>2. Falling(sc, hid, hid \ QuestionsIn(sc, ids)) = {}
  BY <1>1 DEF Falling
<1> QED
  BY <1>2, FS_EmptySet

\* Every step of the dialog keeps the account: only a switch and its answer
\* touch it.
LEMMA CostInvStep == SetupInv /\ CostInv /\ [SetupNext]_setupVars => CostInv'
<1> SUFFICES ASSUME SetupInv, CostInv, [SetupNext]_setupVars PROVE CostInv'
  OBVIOUS
<1>0. ToggleInv
  BY DEF SetupInv
<1> USE DEF CostInv, serverSetup, choice, reads, setupCalls, setupPast
<1>a. ASSUME cost' = cost, toggle' = toggle, scope' = scope PROVE CostInv'
  BY <1>a DEF SlotsBelowTarget, CellsIn, Approved
<1>b. ASSUME cost' = cost, toggle' = NoToggle PROVE CostInv'
  BY <1>b
<1>1. ASSUME NEW known \in Fits \cup {NoSetup}, OpenSetup(known) PROVE CostInv'
  BY <1>1, <1>a DEF OpenSetup
<1>2. ASSUME NEW f \in Fits \cup {saved}, Ready(f) PROVE CostInv'
  BY <1>2, <1>b DEF Ready
<1>3. CASE SetupArrives
  BY <1>3, <1>a DEF SetupArrives
<1>4. CASE CloseSetup
  BY <1>4, <1>b DEF CloseSetup
<1>5. ASSUME NEW sc \in Scopes, SetScope(sc) PROVE CostInv'
  BY <1>5, <1>b DEF SetScope
<1>6. ASSUME NEW next \in {"styles", "targets"}, GoTo(next) PROVE CostInv'
  BY <1>6, <1>a DEF GoTo
<1>7. ASSUME NEW s \in Subtopic, AdjustSubtopic(s) PROVE CostInv'
  BY <1>0, <1>7, <1>b DEF AdjustSubtopic, ToggleInv
<1>8. ASSUME NEW on \in BOOLEAN, NEW ids \in SUBSET Style, Toggle(ids, on) PROVE CostInv'
  <2> DEFINE changing == {st \in ids : st \in StylesIn(layers, scope) <=> ~on}
             slots == SlotsBelowTarget(scope, changing, hiddenSeen)
  <2>1. /\ cost' = cost /\ scope' = scope
        /\ \/ toggle' = toggle
           \/ toggle' = [ids |-> ids, on |-> on, changing |-> changing, counted |-> hiddenSeen,
                         slots |-> IF on THEN 0 ELSE slots]
    BY <1>8 DEF Toggle
  <2> HIDE DEF changing
  <2>2. ASSUME toggle' = [ids |-> ids, on |-> on, changing |-> changing, counted |-> hiddenSeen,
                          slots |-> IF on THEN 0 ELSE slots]
        PROVE  CostInv'
    <3>1. /\ toggle'.on = on /\ toggle'.changing = changing /\ toggle'.counted = hiddenSeen
          /\ toggle'.slots = IF on THEN 0 ELSE slots
      BY <2>2
    <3> QED
      BY <2>1, <3>1 DEF SlotsBelowTarget, CellsIn, Approved
  <2> QED
    BY <1>a, <2>1, <2>2
<1>9. ASSUME NEW with \in BOOLEAN, ConfirmToggle(with) PROVE CostInv'
  <2> DEFINE turned == QuestionsIn(scope, toggle.changing)
             now == IF toggle.on THEN hiddenQs \ turned ELSE hiddenQs \cup turned
             fell == Falling(scope, hiddenQs, now)
  <2>1. /\ toggle # NoToggle /\ toggle' = NoToggle
        /\ \/ cost' = cost
           \/ toggle.counted = hiddenQs /\ cost' = <<toggle.slots, Cardinality(fell)>>
    BY <1>9 DEF ConfirmToggle, Falling
  <2>2. ASSUME toggle.counted = hiddenQs PROVE toggle.slots = Cardinality(fell)
    <3>1. CASE toggle.on
      <4>1. toggle.slots = 0 /\ now = hiddenQs \ turned
        BY <2>1, <3>1
      <4> QED
        BY <4>1, ShowingCostsNothing
    <3>2. CASE ~toggle.on
      <4>1. /\ toggle.slots = SlotsBelowTarget(scope, toggle.changing, hiddenQs)
            /\ now = hiddenQs \cup turned
        BY <2>1, <2>2, <3>2
      <4> QED
        BY <4>1, FallAsTold
    <3> QED
      BY <3>1, <3>2
  <2> HIDE DEF fell
  <2> QED
    BY <2>1, <2>2
<1>10. CASE CancelToggle
  BY <1>10, <1>b DEF CancelToggle
<1>11. CASE ReadCounts
  BY <1>11, <1>a DEF ReadCounts
<1>12. CASE ResetSubtopic
  BY <1>12, <1>a DEF ResetSubtopic
<1>13. ASSUME NEW t \in QType, Allow(t) PROVE CostInv'
  BY <1>13, <1>a DEF Allow
<1>14. CASE Allowed
  BY <1>14, <1>a DEF Allowed
<1>15. CASE Approve
  BY <1>15, <1>a DEF Approve
<1>16. CASE SetupSaved
  BY <1>16, <1>a, <1>b DEF SetupSaved
<1>17. CASE SetupRefused
  BY <1>17, <1>a DEF SetupRefused
<1>18. CASE UNCHANGED setupVars
  BY <1>18, <1>a DEF setupVars
<1> QED
  BY <1>1, <1>2, <1>3, <1>4, <1>5, <1>6, <1>7, <1>8, <1>9, <1>10, <1>11, <1>12, <1>13, <1>14,
     <1>15, <1>16, <1>17, <1>18 DEF SetupNext

\* As many cells fall as the dialog told when it had counted on what is
\* hidden now, for every bank and every target (setup-state.ts:368-388).
THEOREM CostIsTold == SetupSpec => []ToldWhatItCosts
<1>1. SetupInit => CostInv
  BY DEF SetupInit, CostInv
<1>2. SetupInv /\ CostInv /\ [SetupNext]_setupVars => SetupInv' /\ CostInv'
  BY SetupInvStep, CostInvStep
<1>3. CostInv => ToldWhatItCosts
  BY DEF CostInv, ToldWhatItCosts
<1> QED
  BY <1>1, <1>2, <1>3, SetupInvInit, PTL DEF SetupSpec
-----------------------------------------------------------------------------
(***************************************************************************)
(* Proofs about RecipeEditor for every set of texts and every number of    *)
(* runs of examples and of examples written.                               *)
(***************************************************************************)
(***************************************************************************)
(* The inductive invariant.  Every example the cache holds has one key and *)
(* was written from that key's text; a save in flight sends examples of    *)
(* the text it sends; and an example that was kept is never on screen      *)
(* again to be kept once more: its run is behind the editor's, or the      *)
(* editor knows, or is about to be told, that it was kept.                 *)
(***************************************************************************)
Editors == [known : BOOLEAN, yaml : Texts \cup {NoText}, run : 0 .. MaxShows,
            runText : Texts \cup {NoText}, saved : BOOLEAN]
Examples == [is : {"none", "writing", "failed", "written"}, block : 0 .. MaxBlocks]

\* b was written, from the text.
WrittenFrom(b, text) == b \in 1 .. Len(wroteFrom) /\ wroteFrom[b] = text

KeyOf(k, b) == cache[k].block = b

IsKept(b) == \E row \in tutorials : row.block = b

CacheInv ==
    /\ \A k \in Keys : cache[k].block # 0 => WrittenFrom(cache[k].block, k[2])
    /\ \A k, m \in Keys : cache[k].block # 0 /\ cache[k].block = cache[m].block => k = m
    /\ editor.run # 0 => editor.runText \in Texts

SaveInv ==
    \A b \in save.examples :
        /\ WrittenFrom(b, save.text)
        /\ excused = {} => \A k \in Keys : KeyOf(k, b) => k[1] <= editor.run
        /\ excused = {} /\ save.op = "sent" => ~IsKept(b)

KeptInv ==
    \A row \in tutorials :
        /\ WrittenFrom(row.block, row.text)
        /\ row.copy = 1 \/ excused # {}
        /\ excused = {} => \A k \in Keys : KeyOf(k, row.block) =>
               /\ k[1] <= editor.run
               /\ k[1] = editor.run => editor.saved \/ save.op = "saved"

RecipeInv == RecipeTypeOK /\ CacheInv /\ SaveInv /\ KeptInv
-----------------------------------------------------------------------------
\* A run of examples is the editor's next, of the text it is asked of.
LEMMA NextRun ==
    ASSUME NEW e \in Editors, NEW text \in Texts, e.run < MaxShows
    PROVE  /\ Showing(e, text) \in Editors /\ Showing(e, text).runText = text
           /\ Showing(e, text).run = e.run + 1 /\ Showing(e, text).run > e.run
<1>1. /\ Showing(e, text).run = e.run + 1 /\ Showing(e, text).runText = text
      /\ Showing(e, text).known = e.known /\ Showing(e, text).yaml = e.yaml
      /\ Showing(e, text).saved = FALSE
  BY DEF Showing, Editors
<1>2. e.run + 1 \in 0 .. MaxShows /\ e.run \in Nat
  BY RecipeAssumption DEF Editors
<1>3. Showing(e, text) \in Editors
  <2> DEFINE one == [e EXCEPT !.run = e.run + 1]
             two == [one EXCEPT !.runText = text]
             three == [two EXCEPT !.saved = FALSE]
  <2>1. one \in Editors
    BY <1>2 DEF Editors
  <2> HIDE DEF one
  <2>2. two \in Editors
    BY <2>1 DEF Editors
  <2> HIDE DEF two
  <2>3. three \in Editors
    BY <2>2 DEF Editors
  <2>4. three = Showing(e, text)
    BY DEF Showing, Editors, one, two, three
  <2> QED
    BY <2>3, <2>4
<1> QED
  BY <1>1, <1>2, <1>3

\* What a save keeps was written from the text on screen, has the key on
\* screen, and was not kept before unless a reply was lost or the editor was
\* opened again.
LEMMA KeptNow ==
    ASSUME RecipeInv, NEW b \in ExamplesToKeep, save.op = "none"
    PROVE  /\ b \in Blocks /\ WrittenFrom(b, editor.yaml)
           /\ \A k \in Keys : KeyOf(k, b) => k[1] = editor.run
           /\ excused = {} => ~IsKept(b)
<1>1. /\ editor.run # 0 /\ ~editor.saved /\ editor.runText = editor.yaml
      /\ b = cache[OnScreen].block /\ b \in Blocks
  BY DEF ExamplesToKeep
<1>2. editor.run \in 1 .. MaxShows /\ editor.runText \in Texts
  BY <1>1, RecipeAssumption DEF RecipeInv, RecipeTypeOK, CacheInv, Editors, Examples
<1>3. OnScreen \in Keys /\ OnScreen[1] = editor.run /\ OnScreen[2] = editor.yaml
  BY <1>1, <1>2 DEF OnScreen, Keys
<1>4. b # 0
  BY <1>1 DEF Blocks
<1>5. WrittenFrom(b, editor.yaml)
  BY <1>1, <1>3, <1>4 DEF RecipeInv, CacheInv
<1>6. \A k \in Keys : KeyOf(k, b) => k = OnScreen
  BY <1>1, <1>3, <1>4 DEF RecipeInv, CacheInv, KeyOf
<1>7. ASSUME excused = {}, NEW row \in tutorials, row.block = b PROVE FALSE
  <2>1. KeyOf(OnScreen, row.block)
    BY <1>1, <1>7 DEF KeyOf
  <2>2. editor.saved \/ save.op = "saved"
    BY <1>3, <1>7, <2>1 DEF RecipeInv, KeptInv
  <2> QED
    BY <1>1, <2>2
<1> QED
  BY <1>1, <1>3, <1>5, <1>6, <1>7 DEF IsKept

\* An example that is written gets a number that no other has.
LEMMA WrittenAnew ==
    ASSUME RecipeInv, NEW k \in Keys, ExampleWritten(k) PROVE RecipeInv'
<1> USE RecipeAssumption DEF RecipeInv
<1>0. UNCHANGED <<recipeServer, editor, drafting, save, excused>> /\ k[2] \in Texts
  BY DEF ExampleWritten, Keys
<1>1. CASE /\ k[2] \in Valid /\ Len(wroteFrom) < MaxBlocks
           /\ wroteFrom' = Append(wroteFrom, k[2])
           /\ cache' = [cache EXCEPT ![k] = [is |-> "written", block |-> Len(wroteFrom) + 1]]
  <2>1. /\ wroteFrom' \in Seq(Texts) /\ Len(wroteFrom') = Len(wroteFrom) + 1
        /\ Len(wroteFrom) \in Nat /\ wroteFrom'[Len(wroteFrom) + 1] = k[2]
        /\ \A i \in 1 .. Len(wroteFrom) : wroteFrom'[i] = wroteFrom[i]
    BY <1>0, <1>1 DEF RecipeTypeOK, Editors, Examples
  <2>2. \A b, text : WrittenFrom(b, text) => WrittenFrom(b, text)'
    BY <2>1 DEF WrittenFrom
  <2>3. /\ cache'[k].block = Len(wroteFrom) + 1
        /\ \A m \in Keys \ {k} : cache'[m] = cache[m]
    BY <1>1 DEF RecipeTypeOK, Editors, Examples
  <2>4. \A m \in Keys : cache[m].block # 0 => cache[m].block <= Len(wroteFrom)
    BY <2>1 DEF CacheInv, WrittenFrom
  <2>5. RecipeTypeOK'
    <3>1. cache' \in [Keys -> Examples]
      BY <1>1, <2>1 DEF RecipeTypeOK, Editors, Examples
    <3>2. wroteFrom' \in Seq(Texts) /\ Len(wroteFrom') <= MaxBlocks
      BY <1>1, <2>1
    <3> QED
      BY <1>0, <3>1, <3>2 DEF RecipeTypeOK, recipeServer, Editors, Examples
  <2>6. CacheInv'
    <3>1. ASSUME NEW m \in Keys, cache'[m].block # 0 PROVE WrittenFrom(cache[m].block, m[2])'
      <4>1. CASE m = k
        BY <2>1, <2>3, <4>1 DEF WrittenFrom
      <4>2. CASE m # k
        BY <2>2, <2>3, <3>1, <4>2 DEF CacheInv
      <4> QED
        BY <4>1, <4>2
    <3>2. ASSUME NEW m \in Keys, NEW n \in Keys, cache'[m].block # 0,
                 cache'[m].block = cache'[n].block
          PROVE  m = n
      <4>1. m # k => cache'[m].block <= Len(wroteFrom)
        BY <2>3, <2>4, <3>2
      <4>2. n # k => cache'[n].block <= Len(wroteFrom)
        BY <2>3, <2>4, <3>2
      <4>3. m = k <=> n = k
        BY <2>1, <2>3, <3>2, <4>1, <4>2
      <4> QED
        BY <2>3, <3>2, <4>3 DEF CacheInv
    <3> QED
      BY <1>0, <3>1, <3>2 DEF CacheInv
  <2>7. \A b \in 1 .. Len(wroteFrom) : \A m \in Keys : KeyOf(m, b)' => KeyOf(m, b)
    BY <2>1, <2>3 DEF KeyOf
  <2>8. SaveInv'
    BY <1>0, <2>2, <2>7 DEF SaveInv, WrittenFrom, IsKept, recipeServer
  <2>9. KeptInv'
    BY <1>0, <2>2, <2>7 DEF KeptInv, WrittenFrom, recipeServer
  <2> QED
    BY <2>5, <2>6, <2>8, <2>9
<1>2. CASE cache' = [cache EXCEPT ![k] = Blank("failed")] /\ UNCHANGED wroteFrom
  <2>1. RecipeTypeOK'
    BY <1>0, <1>2 DEF RecipeTypeOK, Blank, recipeServer, Editors, Examples
  <2>2. \A m \in Keys : cache'[m].block = 0 \/ cache'[m] = cache[m]
    BY <1>2 DEF RecipeTypeOK, Blank, Editors, Examples
  <2>3. CacheInv'
    BY <1>0, <1>2, <2>2 DEF CacheInv, WrittenFrom
  <2>4. \A b \in 1 .. Len(wroteFrom) : \A m \in Keys : KeyOf(m, b)' => KeyOf(m, b)
    BY <2>2 DEF KeyOf, RecipeTypeOK, Editors, Examples
  <2>5. SaveInv' /\ KeptInv'
    BY <1>0, <1>2, <2>4 DEF SaveInv, KeptInv, WrittenFrom, IsKept, recipeServer
  <2> QED
    BY <2>1, <2>3, <2>5
<1> QED
  BY <1>1, <1>2 DEF ExampleWritten

\* A step that only blanks cached examples, or none, and leaves the rest but
\* the editor's text alone.
LEMMA OnlyBlanked ==
    ASSUME RecipeInv, UNCHANGED <<recipeServer, save, wroteFrom, excused>>,
           editor' \in Editors,
           \/ editor'.run = editor.run /\ editor'.runText = editor.runText
              /\ editor'.saved = editor.saved
           \/ editor'.run > editor.run /\ editor'.runText \in Texts,
           drafting' \in BOOLEAN,
           cache' \in [Keys -> Examples],
           \A m \in Keys : cache'[m].block = 0 \/ cache'[m] = cache[m]
    PROVE  RecipeInv'
<1>1. RecipeTypeOK'
  BY DEF RecipeInv, RecipeTypeOK, recipeServer, Editors, Examples
<1>2. CacheInv'
  BY DEF RecipeInv, CacheInv, WrittenFrom
<1>3. \A b \in 1 .. Len(wroteFrom) : \A m \in Keys : KeyOf(m, b)' => KeyOf(m, b)
  BY DEF KeyOf, RecipeInv, RecipeTypeOK, Editors, Examples
<1>4. editor.run \in Nat /\ editor'.run \in Nat /\ editor.run <= editor'.run
  BY RecipeAssumption DEF RecipeInv, RecipeTypeOK, Editors, Examples
<1>5. \A k \in Keys : k[1] \in Nat
  BY DEF Keys
<1>6. SaveInv'
  BY <1>3, <1>4, <1>5 DEF RecipeInv, SaveInv, WrittenFrom, IsKept, recipeServer
<1>7. ASSUME NEW row \in tutorials, excused = {}, NEW k \in Keys, KeyOf(k, row.block)'
      PROVE  k[1] <= editor'.run /\ (k[1] = editor'.run => editor'.saved \/ save.op = "saved")
  <2>1. KeyOf(k, row.block)
    BY <1>3, <1>7 DEF RecipeInv, KeptInv, WrittenFrom
  <2>2. k[1] <= editor.run /\ (k[1] = editor.run => editor.saved \/ save.op = "saved")
    BY <1>7, <2>1 DEF RecipeInv, KeptInv
  <2> QED
    BY <1>4, <1>5, <2>2
<1>8. KeptInv'
  BY <1>7 DEF RecipeInv, KeptInv, WrittenFrom, recipeServer
<1> QED
  BY <1>1, <1>2, <1>6, <1>8 DEF RecipeInv
-----------------------------------------------------------------------------
\* Every step of the editor, of its requests and of the server keeps the
\* invariant.
LEMMA RecipeInvStep == RecipeInv /\ [RecipeNext]_recipeVars => RecipeInv'
<1> SUFFICES ASSUME RecipeInv, [RecipeNext]_recipeVars PROVE RecipeInv'
  OBVIOUS
<1> USE RecipeAssumption DEF recipeServer
<1>0. RecipeTypeOK /\ CacheInv /\ SaveInv /\ KeptInv
  BY DEF RecipeInv
<1>1. CASE OpenRecipe
  <2>1. /\ UNCHANGED <<recipeServer, save, wroteFrom>> /\ save.op = "none"
        /\ excused' # {} /\ editor'.run = 0 /\ drafting' = FALSE
    BY <1>1 DEF OpenRecipe, Opened
  <2>2. \A m \in Keys : cache'[m].block = 0 \/ cache'[m] = cache[m]
    BY <1>1 DEF OpenRecipe, Blank
  <2>3. RecipeTypeOK'
    <3>1. editor' \in Editors
      BY <1>0, <1>1 DEF OpenRecipe, Opened, RecipeTypeOK, Editors, Examples
    <3>2. cache' \in [Keys -> Examples]
      BY <1>0, <1>1 DEF OpenRecipe, Blank, RecipeTypeOK, Editors, Examples
    <3>3. excused' \subseteq {"lost", "reopened"}
      BY <1>0, <1>1 DEF OpenRecipe, RecipeTypeOK, Editors, Examples
    <3> QED
      BY <1>0, <2>1, <3>1, <3>2, <3>3 DEF RecipeTypeOK, Editors, Examples
  <2>4. CacheInv'
    BY <1>0, <2>1, <2>2 DEF CacheInv, WrittenFrom
  <2>5. SaveInv' /\ KeptInv'
    BY <1>0, <2>1 DEF SaveInv, KeptInv, WrittenFrom
  <2> QED
    BY <2>3, <2>4, <2>5 DEF RecipeInv
<1>2. CASE AskDraft \/ DraftFails
  BY <1>0, <1>2, OnlyBlanked DEF AskDraft, DraftFails, RecipeTypeOK, Editors, Examples
<1>3. ASSUME NEW t \in Texts, Drafted(t) PROVE RecipeInv'
  <2>1. CASE t \in Valid
    <3>1. [editor EXCEPT !.yaml = t] \in Editors /\ [editor EXCEPT !.yaml = t].run = editor.run
      BY <1>0 DEF RecipeTypeOK, Editors
    <3>2. editor.run < MaxShows /\ editor' = Showing([editor EXCEPT !.yaml = t], t)
      BY <1>3, <2>1 DEF Drafted
    <3>3. editor' \in Editors /\ editor'.runText = t /\ editor'.run > editor.run
      BY <3>1, <3>2, NextRun
    <3> QED
      BY <1>0, <1>3, <3>3, OnlyBlanked DEF Drafted, RecipeTypeOK, Editors, Examples
  <2>2. CASE t \notin Valid
    <3>1. /\ editor'.run = editor.run /\ editor'.runText = editor.runText
          /\ editor'.saved = editor.saved
          /\ editor' \in Editors
      BY <1>0, <1>3, <2>2 DEF Drafted, RecipeTypeOK, Editors, Examples
    <3> QED
      BY <1>0, <1>3, <3>1, OnlyBlanked DEF Drafted, RecipeTypeOK, Editors, Examples
  <2> QED
    BY <2>1, <2>2
<1>4. ASSUME NEW t \in Texts \cup {NoText}, EditText(t) PROVE RecipeInv'
  <2>1. /\ editor'.run = editor.run /\ editor'.runText = editor.runText
        /\ editor'.saved = editor.saved
        /\ editor' \in Editors
    BY <1>0, <1>4 DEF EditText, RecipeTypeOK, Editors, Examples
  <2> QED
    BY <1>0, <1>4, <2>1, OnlyBlanked DEF EditText, RecipeTypeOK, Editors, Examples
<1>5. CASE ShowExamples
  <2>1. editor \in Editors /\ editor.yaml \in Texts
    BY <1>0, <1>5 DEF ShowExamples, RecipeTypeOK, Editors
  <2>2. editor' \in Editors /\ editor'.runText = editor.yaml /\ editor'.run > editor.run
    BY <1>5, <2>1, NextRun DEF ShowExamples
  <2> QED
    BY <1>0, <1>5, <2>1, <2>2, OnlyBlanked DEF ShowExamples, RecipeTypeOK, Editors, Examples
<1>6. CASE AskExample
  <2>1. Blank("writing") \in Examples /\ Blank("writing").block = 0
    BY DEF Blank, Examples
  <2>2. cache \in [Keys -> Examples]
    BY <1>0 DEF RecipeTypeOK, Examples, Editors, Examples
  <2>3. /\ cache' \in [Keys -> Examples]
        /\ \A m \in Keys : cache'[m].block = 0 \/ cache'[m] = cache[m]
    BY <1>6, <2>1, <2>2 DEF AskExample
  <2> QED
    BY <1>0, <1>6, <2>3, OnlyBlanked DEF AskExample, RecipeTypeOK, Editors
<1>7. ASSUME NEW k \in Keys, ExampleWritten(k) PROVE RecipeInv'
  BY <1>7, WrittenAnew
<1>8. ASSUME NEW k \in Keys, ForgetExample(k) PROVE RecipeInv'
  <2>1. /\ cache' \in [Keys -> Examples]
        /\ \A m \in Keys : cache'[m].block = 0 \/ cache'[m] = cache[m]
    BY <1>0, <1>8 DEF ForgetExample, Blank, RecipeTypeOK, Editors, Examples
  <2> QED
    BY <1>0, <1>8, <2>1, OnlyBlanked DEF ForgetExample, RecipeTypeOK, Editors, Examples
<1>9. CASE SaveRecipe
  <2>1. /\ save'.text = editor.yaml /\ save'.examples = ExamplesToKeep /\ save'.op = "sent"
        /\ save.op = "none" /\ editor.yaml \in Texts
        /\ UNCHANGED <<recipeServer, editor, drafting, cache, wroteFrom, excused>>
    BY <1>0, <1>9 DEF SaveRecipe, RecipeTypeOK, Editors, Examples
  <2>2. ASSUME NEW b \in ExamplesToKeep
        PROVE  /\ b \in Blocks /\ WrittenFrom(b, editor.yaml)
               /\ \A k \in Keys : KeyOf(k, b) => k[1] = editor.run
               /\ excused = {} => ~IsKept(b)
    BY <2>1, KeptNow
  <2>3. RecipeTypeOK'
    BY <1>0, <1>9, <2>1, <2>2 DEF SaveRecipe, RecipeTypeOK, Editors, Examples
  <2>4. CacheInv'
    BY <1>0, <2>1 DEF CacheInv, WrittenFrom
  <2>5. editor.run \in Nat
    BY <1>0 DEF RecipeTypeOK, Editors, Examples
  <2>6. SaveInv'
    BY <2>1, <2>2, <2>5 DEF SaveInv, WrittenFrom, IsKept, KeyOf
  <2>7. KeptInv'
    BY <1>0, <2>1 DEF KeptInv, WrittenFrom, KeyOf
  <2> QED
    BY <2>3, <2>4, <2>6, <2>7 DEF RecipeInv
<1>10. CASE SaveReplied
  <2>1. /\ UNCHANGED <<recipeServer, drafting, cache, wroteFrom, excused>>
        /\ save'.op = "none" /\ save'.examples = {}
        /\ editor'.run = editor.run /\ editor'.runText = editor.runText
        /\ editor'.saved = (editor.saved \/ save.op = "saved")
        /\ editor' \in Editors
    BY <1>0, <1>10 DEF SaveReplied, NoSave, RecipeTypeOK, Editors, Examples
  <2>2. RecipeTypeOK'
    BY <1>0, <1>10, <2>1 DEF SaveReplied, NoSave, RecipeTypeOK, Editors, Examples
  <2>3. CacheInv' /\ SaveInv'
    BY <1>0, <2>1 DEF CacheInv, SaveInv, WrittenFrom
  <2>4. KeptInv'
    BY <1>0, <2>1 DEF KeptInv, WrittenFrom, KeyOf
  <2> QED
    BY <2>2, <2>3, <2>4 DEF RecipeInv
<1>11. CASE SaveLost
  <2>1. /\ UNCHANGED <<recipeServer, editor, drafting, cache, wroteFrom>>
        /\ save' = NoSave /\ excused' = excused \cup {"lost"}
    BY <1>11 DEF SaveLost
  <2>2. RecipeTypeOK'
    BY <1>0, <2>1 DEF NoSave, RecipeTypeOK, Editors, Examples
  <2>3. CacheInv' /\ SaveInv' /\ KeptInv'
    BY <1>0, <2>1 DEF CacheInv, SaveInv, KeptInv, WrittenFrom, NoSave
  <2> QED
    BY <2>2, <2>3 DEF RecipeInv
<1>12. CASE StoreRecipe
  <2>1. UNCHANGED <<editor, drafting, cache, wroteFrom, excused>> /\ save.op = "sent"
    BY <1>12 DEF StoreRecipe
  <2>2. CacheInv'
    BY <1>0, <2>1 DEF CacheInv, WrittenFrom
  <2>3. CASE save.text \in Valid /\ (save.known \/ library = NoText)
    <3>1. /\ library' = save.text /\ save'.op = "saved"
          /\ save'.text = save.text /\ save'.examples = save.examples
          /\ save' \in [text : Texts \cup {NoText}, examples : SUBSET Blocks, known : BOOLEAN,
                        op : {"none", "sent", "saved", "refused"}]
      BY <1>0, <1>12, <2>3 DEF StoreRecipe, RecipeTypeOK, Editors, Examples
    <3>2. PICK copied \in SUBSET save.examples :
             tutorials' = tutorials \cup {[block |-> b, text |-> save.text,
                              copy |-> IF Copies(b) = {} THEN 1 ELSE 2] : b \in copied}
      BY <1>12, <2>3 DEF StoreRecipe
    <3>3. ASSUME NEW row \in tutorials' \ tutorials
          PROVE  /\ row.block \in save.examples /\ row.text = save.text
                 /\ row \in [block : Blocks, text : Texts, copy : 1 .. 2]
                 /\ row.copy = 1 \/ excused # {}
      <4>1. PICK b \in copied : row = [block |-> b, text |-> save.text,
                                     copy |-> IF Copies(b) = {} THEN 1 ELSE 2]
        BY <3>2
      <4>2. b \in save.examples /\ b \in Blocks /\ save.text \in Texts
        BY <1>0, <2>3, <3>2 DEF RecipeTypeOK, Editors, Examples
      <4>3. excused = {} => Copies(b) = {}
        BY <1>0, <2>1, <4>2 DEF SaveInv, IsKept, Copies
      <4> QED
        BY <4>1, <4>2, <4>3
    <3>4. tutorials' \subseteq [block : Blocks, text : Texts, copy : 1 .. 2]
      BY <1>0, <3>3 DEF RecipeTypeOK, Editors, Examples
    <3>5. RecipeTypeOK'
      BY <1>0, <2>1, <2>3, <3>1, <3>4 DEF RecipeTypeOK, Editors, Examples
    <3>6. SaveInv'
      BY <1>0, <2>1, <3>1 DEF SaveInv, WrittenFrom, KeyOf
    <3>7. KeptInv'
      <4>1. ASSUME NEW row \in tutorials' \ tutorials
            PROVE  /\ WrittenFrom(row.block, row.text)
                   /\ row.copy = 1 \/ excused # {}
                   /\ excused = {} => \A k \in Keys : KeyOf(k, row.block) => k[1] <= editor.run
        BY <1>0, <3>3 DEF SaveInv
      <4>2. ASSUME NEW row \in tutorials
            PROVE  /\ WrittenFrom(row.block, row.text)
                   /\ row.copy = 1 \/ excused # {}
                   /\ excused = {} => \A k \in Keys : KeyOf(k, row.block) => k[1] <= editor.run
        BY <1>0 DEF KeptInv
      <4> QED
        BY <2>1, <3>1, <4>1, <4>2 DEF KeptInv, WrittenFrom, KeyOf
    <3> QED
      BY <2>2, <3>5, <3>6, <3>7 DEF RecipeInv
  <2>4. CASE ~(save.text \in Valid /\ (save.known \/ library = NoText))
    <3>1. /\ UNCHANGED recipeServer /\ save'.op = "refused"
          /\ save'.text = save.text /\ save'.examples = save.examples
          /\ save' \in [text : Texts \cup {NoText}, examples : SUBSET Blocks, known : BOOLEAN,
                        op : {"none", "sent", "saved", "refused"}]
      BY <1>0, <1>12, <2>4 DEF StoreRecipe, RecipeTypeOK, Editors, Examples
    <3>2. RecipeTypeOK'
      BY <1>0, <2>1, <3>1 DEF RecipeTypeOK, Editors, Examples
    <3>3. SaveInv' /\ KeptInv'
      BY <1>0, <2>1, <3>1 DEF SaveInv, KeptInv, WrittenFrom, KeyOf
    <3> QED
      BY <2>2, <3>2, <3>3 DEF RecipeInv
  <2> QED
    BY <2>3, <2>4
<1>13. CASE UNCHANGED recipeVars
  BY <1>0, <1>13, OnlyBlanked DEF recipeVars, RecipeTypeOK, Editors, Examples
<1> QED
  BY <1>1, <1>2, <1>3, <1>4, <1>5, <1>6, <1>7, <1>8, <1>9, <1>10, <1>11, <1>12, <1>13
     DEF RecipeNext

\* The editor starts on the stored recipe, or on none, with nothing kept.
LEMMA RecipeInvInit == RecipeInit => RecipeInv
<1> SUFFICES ASSUME RecipeInit PROVE RecipeInv
  OBVIOUS
<1>1. RecipeTypeOK
  <2>1. Blank("none") \in Examples /\ NoSave.op = "none" /\ NoSave.examples = {}
    BY RecipeAssumption DEF Blank, Examples, NoSave
  <2>2. cache \in [Keys -> Examples]
    BY <2>1 DEF RecipeInit
  <2>3. editor \in Editors
    BY RecipeAssumption DEF RecipeInit, Opened, Editors
  <2>4. save \in [text : Texts \cup {NoText}, examples : SUBSET Blocks, known : BOOLEAN,
                  op : {"none", "sent", "saved", "refused"}]
    BY DEF RecipeInit, NoSave
  <2>5. wroteFrom \in Seq(Texts) /\ Len(wroteFrom) <= MaxBlocks
    BY RecipeAssumption DEF RecipeInit
  <2> QED
    BY <2>2, <2>3, <2>4, <2>5, RecipeAssumption DEF RecipeInit, RecipeTypeOK, Editors, Examples
<1>2. CacheInv /\ SaveInv /\ KeptInv
  BY DEF RecipeInit, CacheInv, SaveInv, KeptInv, Opened, NoSave, Blank
<1> QED
  BY <1>1, <1>2 DEF RecipeInv

\* The editor, its requests, the cached examples and the kept tutorials
\* always have their types.
THEOREM RecipeTypes == RecipeSpec => []RecipeTypeOK
<1>1. RecipeInv => RecipeTypeOK
  BY DEF RecipeInv
<1> QED
  BY <1>1, RecipeInvInit, RecipeInvStep, PTL DEF RecipeSpec

\* However drafts, edits, runs of examples and saves interleave, a kept
\* tutorial was written from the text it was saved with, and no example is
\* kept twice while no reply is lost and the editor is not opened again.
THEOREM KeptAsWritten == RecipeSpec => []ExamplesKeptRight
<1>1. RecipeInv => ExamplesKeptRight
  BY DEF RecipeInv, KeptInv, WrittenFrom, ExamplesKeptRight
<1> QED
  BY <1>1, RecipeInvInit, RecipeInvStep, PTL DEF RecipeSpec
-----------------------------------------------------------------------------
(***************************************************************************)
(* Proofs about ReviewQueue for every number of questions, every set of    *)
(* audits and every number of skips.                                       *)
(***************************************************************************)
\* A set of question ids that is not empty has a first one.
LEMMA FirstExists ==
    ASSUME NEW S \in SUBSET Nat, S # {} PROVE \E q \in S : \A r \in S : q <= r
<1>1. IsWellFoundedOn(Less, Nat)
  BY NatLessThanWellFounded, Zenon DEF Less, OpToRel
<1>2. \E q \in S : \A r \in S : ~(<<r, q>> \in Less)
  BY <1>1, WFMin
<1>3. ASSUME NEW r \in Nat, NEW q \in Nat, r < q PROVE <<r, q>> \in Less
  BY <1>3 DEF Less
<1>4. PICK q \in S : \A r \in S : ~(<<r, q>> \in Less)
  BY <1>2
<1>5. ASSUME NEW r \in S PROVE q <= r
  <2>1. ~(r < q)
    BY <1>3, <1>4
  <2> QED
    BY <2>1
<1> QED
  BY <1>5

\* The queue answers with the detail of a question, or with none.
LEMMA NextIsDetail == ASSUME ReviewTypeOK, NEW k \in Cursors PROVE NextFor(k) \in Details
<1> DEFINE open == {q \in Unreviewed : q \in Audits \/ q > k}
           first == IF open \cap Audits # {} THEN open \cap Audits ELSE open
<1>1. Cardinality(bank.reviewed) \in 0 .. MaxQuestion
  <2>1. IsFiniteSet(1 .. MaxQuestion) /\ Cardinality(1 .. MaxQuestion) = MaxQuestion
    BY ReviewAssumption, FS_Interval
  <2>2. bank.reviewed \in SUBSET (1 .. MaxQuestion)
    BY DEF ReviewTypeOK
  <2>3. IsFiniteSet(bank.reviewed) /\ Cardinality(bank.reviewed) <= Cardinality(1 .. MaxQuestion)
    BY <2>1, <2>2, FS_Subset
  <2>4. Cardinality(bank.reviewed) \in Nat
    BY <2>3, FS_CardinalityType
  <2> QED
    BY <2>1, <2>3, <2>4, ReviewAssumption
<1>2. first \subseteq 1 .. MaxQuestion
  BY ReviewAssumption DEF Unreviewed, ReviewTypeOK
<1>3. ASSUME open # {} PROVE (CHOOSE q \in first : \A r \in first : q <= r) \in 0 .. MaxQuestion
  <2>1. first # {} /\ first \in SUBSET Nat
    BY <1>2, <1>3, ReviewAssumption
  <2>2. \E q \in first : \A r \in first : q <= r
    BY <2>1, FirstExists
  <2>3. (CHOOSE q \in first : \A r \in first : q <= r) \in first
    BY <2>2
  <2> QED
    BY <1>2, <2>3, ReviewAssumption
<1> HIDE DEF open, first
<1>4. NextFor(k) = IF open = {} THEN NoDetail
                   ELSE [id |-> CHOOSE q \in first : \A r \in first : q <= r,
                         version |-> Cardinality(bank.reviewed)]
  BY DEF NextFor, open, first
<1> QED
  BY <1>1, <1>3, <1>4, ReviewAssumption DEF Details, NoDetail

\* What the page shows is a detail.
LEMMA ShownIsDetail == ASSUME ReviewTypeOK PROVE Shown \in Details
BY ReviewAssumption DEF ReviewTypeOK, Shown, Details, NoDetail
-----------------------------------------------------------------------------
(***************************************************************************)
(* The inductive invariant: a verdict belongs to the detail on show, or to *)
(* none while the page shows none, since every detail that replaces it     *)
(* resets the form; and a round has not produced more questions than the   *)
(* bank holds.                                                             *)
(***************************************************************************)
FormInv ==
    /\ verdict # NotRead => Shown = verdict \/ Shown.id = 0
    /\ review # NotRead => review.confirmed = review.seen
    /\ genRound.produced <= bank.last

ReviewInv == ReviewTypeOK /\ FormInv

\* Moving to another cursor keeps the form's part of the invariant.
LEMMA MoveKeepsForm ==
    ASSUME ReviewInv, NEW k \in Cursors, after' = k, UNCHANGED cached, ResetAt(k)
    PROVE  /\ verdict' \in Details \cup {NotRead}
           /\ verdict' # NotRead => Shown' = verdict' \/ Shown'.id = 0
<1>1. verdict' \in {verdict, NotRead}
  BY DEF ResetAt
<1>2. ASSUME verdict' # NotRead PROVE Shown' = verdict' \/ Shown'.id = 0
  <2>1. k = after \/ cached[k] \in {NotRead, NoDetail}
    BY <1>2 DEF ResetAt
  <2>2. CASE k = after
    BY <1>2, <2>2 DEF Shown, ResetAt, ReviewInv, FormInv
  <2>3. CASE cached[k] \in {NotRead, NoDetail}
    BY <2>3 DEF Shown, NoDetail
  <2> QED
    BY <2>1, <2>2, <2>3
<1> QED
  BY <1>1, <1>2 DEF ReviewInv, ReviewTypeOK

\* The cursor's moves keep the queue's requests in their type.
LEMMA MoveKeepsTypes ==
    ASSUME ReviewInv, NEW k \in Cursors, MoveTo(k), UNCHANGED <<cached, invalid>>
    PROVE  /\ after' \in Cursors /\ superseded' \subseteq Cursors
           /\ queueGet' \in [Cursors -> Details \cup {NotRead, AskedQueue}]
BY DEF MoveTo, ReviewInv, ReviewTypeOK

\* So does every invalidation of the queue.
LEMMA InvalidateKeepsTypes ==
    ASSUME ReviewInv, NEW ks \in SUBSET Cursors, Invalidate(ks)
    PROVE  /\ invalid' \subseteq Cursors /\ superseded' \subseteq Cursors
           /\ queueGet' \in [Cursors -> Details \cup {NotRead, AskedQueue}]
BY DEF Invalidate, ReviewInv, ReviewTypeOK
-----------------------------------------------------------------------------
\* Every step of the page, of the server and of the round keeps the invariant.
LEMMA ReviewInvStep == ReviewInv /\ [ReviewNext]_reviewVars => ReviewInv'
<1> SUFFICES ASSUME ReviewInv, [ReviewNext]_reviewVars PROVE ReviewInv'
  OBVIOUS
<1>0. ReviewTypeOK /\ FormInv /\ Shown \in Details
  BY ShownIsDetail DEF ReviewInv
<1> USE <1>0, ReviewAssumption DEF ReviewInv, serverSide, queueVars
<1>1. ASSUME NEW k \in Cursors, ReadQueue(k) PROVE ReviewInv'
  <2>1. NextFor(k) \in Details
    BY NextIsDetail
  <2> QED
    BY <1>1, <2>1 DEF ReadQueue, ReviewTypeOK, FormInv, Shown
<1>2. ASSUME NEW k \in Cursors, QueueArrives(k) PROVE ReviewInv'
  <2>1. queueGet[k] \in Details
    BY <1>2 DEF QueueArrives, ReviewTypeOK
  <2>2. verdict' \in {verdict, NotRead}
    BY <1>2 DEF QueueArrives, Reset
  <2>3. ReviewTypeOK'
    BY <1>2, <2>1, <2>2 DEF QueueArrives, ReviewTypeOK
  <2>4. CASE k = after
    <3>1. Shown' = IF queueGet[k] = NotRead THEN NoDetail ELSE queueGet[k]
      BY <1>2, <2>4 DEF QueueArrives, Shown, ReviewTypeOK
    <3>2. verdict' # NotRead => queueGet[k].id = 0 \/ queueGet[k] = Shown
      BY <1>2, <2>4 DEF QueueArrives, Reset
    <3>3. verdict' # NotRead => verdict' = verdict
      BY <2>2
    <3> QED
      BY <1>2, <2>3, <3>1, <3>2, <3>3 DEF QueueArrives, FormInv, NoDetail
  <2>5. CASE k # after
    <3>1. Shown' = Shown /\ verdict' = verdict
      BY <1>2, <2>5 DEF QueueArrives, Shown, ReviewTypeOK
    <3> QED
      BY <1>2, <2>3, <3>1 DEF QueueArrives, FormInv
  <2> QED
    BY <2>4, <2>5
<1>3. ASSUME NEW k \in Cursors, Forget(k) PROVE ReviewInv'
  <2>1. Shown' = Shown
    BY <1>3 DEF Forget, Shown, ReviewTypeOK
  <2> QED
    BY <1>3, <2>1 DEF Forget, ReviewTypeOK, FormInv
<1>4. CASE Produce
  BY <1>4 DEF Produce, ReviewTypeOK, FormInv, Shown, Rounds
<1>5. CASE RoundEnds
  BY <1>5 DEF RoundEnds, ReviewTypeOK, FormInv, Shown, Rounds
<1>6. CASE PollRound
  BY <1>6 DEF PollRound, ReviewTypeOK, FormInv, Shown
<1>7. CASE ReadRound
  BY <1>7 DEF ReadRound, ReviewTypeOK, FormInv, Shown
<1>8. CASE RoundArrives
  <2>1. after \in Cursors
    BY DEF ReviewTypeOK
  <2>2. /\ invalid' \subseteq Cursors /\ superseded' \subseteq Cursors
        /\ queueGet' \in [Cursors -> Details \cup {NotRead, AskedQueue}]
    BY <1>8, <2>1, InvalidateKeepsTypes DEF RoundArrives, ReviewTypeOK
  <2>3. watched' \in [round : Rounds, get : Rounds \cup {NotRead, AskedQueue},
                      refreshed : BOOLEAN]
    BY <1>8 DEF RoundArrives, ReviewTypeOK
  <2> QED
    BY <1>8, <2>2, <2>3 DEF RoundArrives, ReviewTypeOK, FormInv, Shown
<1>9. CASE Confirm
  BY <1>9 DEF Confirm, ReviewTypeOK, FormInv, Shown
<1>10. CASE SubmitReview
  <2>1. review' \in [id : 1 .. MaxQuestion, seen : Details, confirmed : Details,
                     reply : {"none", "saved", "refused"}]
    BY <1>10 DEF SubmitReview, ReviewTypeOK, Details
  <2>2. review'.confirmed = review'.seen
    BY <1>10 DEF SubmitReview, FormInv
  <2> QED
    BY <1>10, <2>1, <2>2 DEF SubmitReview, ReviewTypeOK, FormInv, Shown
<1>11. CASE Skip \/ StartAgain
  <2>1. PICK k \in Cursors : MoveTo(k) /\ UNCHANGED <<serverSide, cached, invalid, review, watched>>
    BY <1>11 DEF Skip, StartAgain, Details, Cursors
  <2>2. acts' \in 0 .. MaxActs
    BY <1>11 DEF Skip, StartAgain, Act, ReviewTypeOK
  <2>3. /\ after' \in Cursors /\ superseded' \subseteq Cursors
        /\ queueGet' \in [Cursors -> Details \cup {NotRead, AskedQueue}]
    BY <2>1, MoveKeepsTypes
  <2>4. /\ verdict' \in Details \cup {NotRead}
        /\ verdict' # NotRead => Shown' = verdict' \/ Shown'.id = 0
    BY <2>1, MoveKeepsForm DEF MoveTo
  <2> QED
    BY <2>1, <2>2, <2>3, <2>4 DEF ReviewTypeOK, FormInv
<1>12. CASE StartNext
  BY <1>12 DEF StartNext, ReviewTypeOK, FormInv, Shown, Rounds
<1>13. CASE StoreReview
  <2>1. review' \in [id : 1 .. MaxQuestion, seen : Details, confirmed : Details,
                     reply : {"none", "saved", "refused"}]
    BY <1>13 DEF StoreReview, ReviewTypeOK
  <2>2. review'.confirmed = review.confirmed /\ review'.seen = review.seen
    BY <1>13 DEF StoreReview, ReviewTypeOK
  <2>3. /\ bank' \in [last : 0 .. MaxQuestion, reviewed : SUBSET (1 .. MaxQuestion)]
        /\ bank'.last = bank.last
    BY <1>13 DEF StoreReview, ReviewTypeOK
  <2> QED
    BY <1>13, <2>1, <2>2, <2>3 DEF StoreReview, ReviewTypeOK, FormInv, Shown
<1>14. CASE ReviewSaved
  <2> DEFINE k == IF review.id \in Audits THEN after ELSE review.id
  <2>1. k \in Cursors /\ after \in Cursors
    BY <1>14 DEF ReviewSaved, ReviewTypeOK, Cursors
  <2>2. after' = k /\ Invalidate({after, k}) /\ ResetAt(k) /\ cached' = cached
    BY <1>14 DEF ReviewSaved
  <2> HIDE DEF k
  <2>3. /\ invalid' \subseteq Cursors /\ superseded' \subseteq Cursors
        /\ queueGet' \in [Cursors -> Details \cup {NotRead, AskedQueue}]
    BY <2>1, <2>2, InvalidateKeepsTypes
  <2>4. /\ verdict' \in Details \cup {NotRead}
        /\ verdict' # NotRead => Shown' = verdict' \/ Shown'.id = 0
    BY <2>1, <2>2, MoveKeepsForm
  <2> QED
    BY <1>14, <2>1, <2>2, <2>3, <2>4 DEF ReviewSaved, ReviewTypeOK, FormInv
<1>15. CASE ReviewRefused
  BY <1>15 DEF ReviewRefused, ReviewTypeOK, FormInv, Shown
<1>16. CASE UNCHANGED reviewVars
  BY <1>16 DEF reviewVars, ReviewTypeOK, FormInv, Shown
<1> QED
  BY <1>1, <1>2, <1>3, <1>4, <1>5, <1>6, <1>7, <1>8, <1>9, <1>10, <1>11, <1>12, <1>13, <1>14,
     <1>15, <1>16 DEF ReviewNext, QueueMoves, RoundMoves

\* The page starts with no verdict and nothing in flight but a question.
LEMMA ReviewInvInit == ReviewInit => ReviewInv
<1> SUFFICES ASSUME ReviewInit PROVE ReviewInv
  OBVIOUS
<1>1. after \in Cursors
  BY ReviewAssumption DEF ReviewInit, Cursors
<1> QED
  BY <1>1, ReviewAssumption DEF ReviewInit, ReviewInv, ReviewTypeOK, FormInv, Rounds, Cursors

\* The cursor, the cached answers and the form always have their types.
THEOREM ReviewTypes == ReviewSpec => []ReviewTypeOK
<1>1. ReviewInv => ReviewTypeOK
  BY DEF ReviewInv
<1> QED
  BY <1>1, ReviewInvInit, ReviewInvStep, PTL DEF ReviewSpec

\* A review is only ever sent with the difficulty and the subtopics that were
\* confirmed on the very detail it is about (use-review-form.ts).
THEOREM ReviewedAsShown == ReviewSpec => []SentAsConfirmed
<1>1. ReviewInv => SentAsConfirmed
  BY DEF ReviewInv, FormInv, SentAsConfirmed
<1> QED
  BY <1>1, ReviewInvInit, ReviewInvStep, PTL DEF ReviewSpec
-----------------------------------------------------------------------------
(***************************************************************************)
(* What the page may believe once the round is seen to be over: no more is *)
(* produced, so an answer of the queue that says "nothing" stays right     *)
(* unless it was read before the last invalidation.  Every cached "nothing"*)
(* that is neither stale nor about to be replaced is right, and the one on *)
(* show is fetched again while it is stale.                                *)
(***************************************************************************)
NoneWaiting(k) == \A q \in Unreviewed : q \notin Audits /\ q <= k

RoundSeen ==
    /\ watched.round.status = "done" => watched.refreshed
    /\ watched.refreshed => genRound.status = "done"
    /\ watched.get \notin {NotRead, AskedQueue} /\ watched.get.status = "done"
          => genRound.status = "done"

ReadRight(k)  == queueGet[k] = NoDetail /\ k \notin superseded => NoneWaiting(k)
KnownRight(k) == cached[k] = NoDetail /\ k \notin invalid /\ k \notin superseded
                 /\ queueGet[k] = NotRead => NoneWaiting(k)
AskedAgain    == after \in invalid => queueGet[after] # NotRead

OfferInv ==
    /\ RoundSeen
    /\ watched.refreshed => (\A k \in Cursors : ReadRight(k) /\ KnownRight(k)) /\ AskedAgain

\* The queue says "nothing" exactly when there is nothing.
LEMMA SaysNothing ==
    ASSUME ReviewTypeOK, NEW k \in Cursors PROVE NextFor(k) = NoDetail <=> NoneWaiting(k)
<1> DEFINE open == {q \in Unreviewed : q \in Audits \/ q > k}
           first == IF open \cap Audits # {} THEN open \cap Audits ELSE open
           least == CHOOSE q \in first : \A r \in first : q <= r
<1>1. open = {} <=> NoneWaiting(k)
  <2>1. \A q \in Unreviewed : q \in Nat /\ k \in Nat
    BY ReviewAssumption DEF Unreviewed, ReviewTypeOK, Cursors
  <2>2. \A q \in Unreviewed : q <= k <=> ~(q > k)
    BY <2>1
  <2> QED
    BY <2>2 DEF NoneWaiting
<1>2. first \subseteq 1 .. MaxQuestion
  BY ReviewAssumption DEF Unreviewed, ReviewTypeOK
<1>3. ASSUME open # {} PROVE least # 0
  <2>1. first # {} /\ first \in SUBSET Nat
    BY <1>2, <1>3, ReviewAssumption
  <2>2. \E q \in first : \A r \in first : q <= r
    BY <2>1, FirstExists
  <2>3. least \in first
    BY <2>2
  <2>4. \A n \in 1 .. MaxQuestion : n # 0
    BY ReviewAssumption
  <2> HIDE DEF least
  <2> QED
    BY <1>2, <2>3, <2>4
<1> HIDE DEF least
<1>4. NextFor(k) = IF open = {} THEN NoDetail
                   ELSE [id |-> least, version |-> Cardinality(bank.reviewed)]
  BY DEF NextFor, least
<1> HIDE DEF open
<1>5. ASSUME open # {} PROVE NextFor(k) # NoDetail
  BY <1>3, <1>4, <1>5 DEF NoDetail
<1> QED
  BY <1>1, <1>4, <1>5

\* The markers of a request are no answers.
LEMMA MarkersAreNoData == /\ NoDetail \in Details /\ NotRead \notin Details
                          /\ AskedQueue \notin Details /\ NotRead # AskedQueue
BY ReviewAssumption DEF NoDetail, Details

\* Reviews only make the queue shorter.
LEMMA NothingLasts ==
    ASSUME bank'.last = bank.last, bank.reviewed \subseteq bank'.reviewed, NEW k, NoneWaiting(k)
    PROVE  NoneWaiting(k)'
BY DEF NoneWaiting, Unreviewed

\* A step that leaves the queue's entries and the round alone, and adds at
\* most reviews, keeps what the page may believe.
LEMMA BeliefStands ==
    ASSUME OfferInv, UNCHANGED <<genRound, after, cached, invalid, queueGet, superseded, watched>>,
           bank'.last = bank.last, bank.reviewed \subseteq bank'.reviewed
    PROVE  OfferInv'
<1>1. RoundSeen'
  BY DEF OfferInv, RoundSeen
<1>2. \A k \in Cursors : NoneWaiting(k) => NoneWaiting(k)'
  BY NothingLasts
<1> QED
  BY <1>1, <1>2 DEF OfferInv, ReadRight, KnownRight, AskedAgain

\* Invalidating the queue, the cursor's answer to be fetched again, makes
\* every belief true from scratch.
LEMMA InvalidatedAnew ==
    ASSUME ReviewTypeOK, NEW ks \in SUBSET Cursors, Invalidate(ks), UNCHANGED cached,
           after' \in ks
    PROVE  (\A k \in Cursors : ReadRight(k)' /\ KnownRight(k)') /\ AskedAgain'
<1> USE MarkersAreNoData
<1>1. ASSUME NEW k \in Cursors PROVE ReadRight(k)'
  <2>1. queueGet'[k] = NoDetail => queueGet[k] = NoDetail
    BY DEF Invalidate
  <2>2. queueGet'[k] = NoDetail => k \in superseded'
    BY <2>1 DEF Invalidate
  <2> QED
    BY <2>2 DEF ReadRight
<1>2. ASSUME NEW k \in Cursors PROVE KnownRight(k)'
  <2>1. cached'[k] = NoDetail => k \in invalid'
    BY DEF Invalidate
  <2> QED
    BY <2>1 DEF KnownRight
<1>3. AskedAgain'
  <2>1. after' \in invalid' => cached[after'] # NotRead
    BY DEF Invalidate
  <2>2. cached[after'] # NotRead => queueGet'[after'] = AskedQueue
    BY DEF Invalidate
  <2> QED
    BY <2>1, <2>2 DEF AskedAgain
<1> QED
  BY <1>1, <1>2, <1>3

\* Moving the cursor fetches what is stale there and supersedes nothing new.
LEMMA MoveBelieves ==
    ASSUME ReviewTypeOK, OfferInv, NEW c \in Cursors, MoveTo(c),
           UNCHANGED <<serverSide, cached, invalid, watched>>
    PROVE  OfferInv'
<1> USE MarkersAreNoData
<1>0. after' = c /\ RoundSeen'
  BY DEF MoveTo, OfferInv, RoundSeen, serverSide
<1>1. \E g \in {AskedQueue, NotRead} :
         /\ c \in invalid => g = AskedQueue
         /\ queueGet' = [queueGet EXCEPT ![c] = IF @ = NotRead THEN g ELSE @]
  BY DEF MoveTo
<1>2. PICK g \in {AskedQueue, NotRead} :
         /\ c \in invalid => g = AskedQueue
         /\ queueGet' = [queueGet EXCEPT ![c] = IF @ = NotRead THEN g ELSE @]
  BY <1>1
<1>3. superseded' = {k \in superseded : queueGet'[k] # AskedQueue}
  BY DEF MoveTo
<1>4. ASSUME NEW k \in Cursors
      PROVE  /\ queueGet'[k] \in {queueGet[k], AskedQueue, NotRead}
             /\ queueGet'[k] = NotRead => queueGet[k] = NotRead
             /\ queueGet'[k] = NoDetail => queueGet[k] = NoDetail
             /\ queueGet'[k] # AskedQueue /\ k \notin superseded' => k \notin superseded
  BY <1>2, <1>3 DEF ReviewTypeOK
<1>5. c \in invalid => queueGet'[c] # NotRead
  BY <1>2 DEF ReviewTypeOK
<1>6. \A k : NoneWaiting(k)' <=> NoneWaiting(k)
  BY DEF NoneWaiting, Unreviewed, serverSide
<1>7. watched.refreshed => \A k \in Cursors : ReadRight(k)' /\ KnownRight(k)'
  <2> SUFFICES ASSUME watched.refreshed, NEW k \in Cursors PROVE ReadRight(k)' /\ KnownRight(k)'
    OBVIOUS
  <2>1. ReadRight(k) /\ KnownRight(k)
    BY DEF OfferInv
  <2> QED
    BY <1>4, <1>6, <2>1 DEF ReadRight, KnownRight
<1> QED
  BY <1>0, <1>5, <1>7 DEF OfferInv, AskedAgain
-----------------------------------------------------------------------------
\* Every step of the page, of the server and of the round keeps it.
LEMMA OfferInvStep == ReviewInv /\ OfferInv /\ [ReviewNext]_reviewVars => OfferInv'
<1> SUFFICES ASSUME ReviewInv, OfferInv, [ReviewNext]_reviewVars PROVE OfferInv'
  OBVIOUS
<1>0. ReviewTypeOK
  BY DEF ReviewInv
<1> USE MarkersAreNoData DEF serverSide, queueVars
<1>1. ASSUME NEW c \in Cursors, ReadQueue(c) PROVE OfferInv'
  <2>1. /\ queueGet' = [queueGet EXCEPT ![c] = NextFor(c)]
        /\ UNCHANGED <<bank, genRound, after, cached, invalid, superseded, watched>>
    BY <1>1 DEF ReadQueue
  <2>2. NextFor(c) \in Details /\ (NextFor(c) = NoDetail <=> NoneWaiting(c))
    BY <1>0, NextIsDetail, SaysNothing
  <2>3. \A k : NoneWaiting(k)' <=> NoneWaiting(k)
    BY <2>1 DEF NoneWaiting, Unreviewed
  <2>4. \A k \in Cursors : queueGet'[k] = IF k = c THEN NextFor(c) ELSE queueGet[k]
    BY <1>0, <2>1 DEF ReviewTypeOK
  <2>5. \A k \in Cursors : /\ ReadRight(k) => ReadRight(k)'
                           /\ KnownRight(k) => KnownRight(k)'
    BY <2>1, <2>2, <2>3, <2>4 DEF ReadRight, KnownRight
  <2>6. RoundSeen'
    BY <2>1 DEF OfferInv, RoundSeen
  <2>7. AskedAgain => AskedAgain'
    BY <1>0, <2>1, <2>2, <2>4 DEF AskedAgain, ReviewTypeOK
  <2> QED
    BY <2>1, <2>5, <2>6, <2>7 DEF OfferInv
<1>2. ASSUME NEW c \in Cursors, QueueArrives(c) PROVE OfferInv'
  <2>1. /\ cached' = [cached EXCEPT ![c] = queueGet[c]] /\ invalid' = invalid \ {c}
        /\ queueGet' = [queueGet EXCEPT ![c] = NotRead]
        /\ UNCHANGED <<bank, genRound, after, superseded, watched>>
    BY <1>2 DEF QueueArrives
  <2>2. \A k : NoneWaiting(k)' <=> NoneWaiting(k)
    BY <2>1 DEF NoneWaiting, Unreviewed
  <2>3. \A k \in Cursors :
           /\ cached'[k] = IF k = c THEN queueGet[c] ELSE cached[k]
           /\ queueGet'[k] = IF k = c THEN NotRead ELSE queueGet[k]
    BY <1>0, <2>1 DEF ReviewTypeOK
  <2>4. \A k \in Cursors : ReadRight(k) /\ KnownRight(k) => ReadRight(k)' /\ KnownRight(k)'
    BY <2>1, <2>2, <2>3 DEF ReadRight, KnownRight
  <2>5. RoundSeen'
    BY <2>1 DEF OfferInv, RoundSeen
  <2>6. AskedAgain => AskedAgain'
    BY <1>0, <2>1, <2>3 DEF AskedAgain, ReviewTypeOK
  <2> QED
    BY <2>1, <2>4, <2>5, <2>6 DEF OfferInv
<1>3. ASSUME NEW c \in Cursors, Forget(c) PROVE OfferInv'
  <2>1. /\ c # after /\ queueGet[c] = NotRead
        /\ cached' = [cached EXCEPT ![c] = NotRead] /\ invalid' = invalid \ {c}
        /\ superseded' = superseded \ {c}
        /\ UNCHANGED <<bank, genRound, after, queueGet, watched>>
    BY <1>3 DEF Forget
  <2>2. \A k : NoneWaiting(k)' <=> NoneWaiting(k)
    BY <2>1 DEF NoneWaiting, Unreviewed
  <2>3. \A k \in Cursors : cached'[k] = IF k = c THEN NotRead ELSE cached[k]
    BY <1>0, <2>1 DEF ReviewTypeOK
  <2>4. \A k \in Cursors : ReadRight(k) /\ KnownRight(k) => ReadRight(k)' /\ KnownRight(k)'
    BY <2>1, <2>2, <2>3 DEF ReadRight, KnownRight
  <2>5. RoundSeen'
    BY <2>1 DEF OfferInv, RoundSeen
  <2>6. AskedAgain => AskedAgain'
    BY <2>1 DEF AskedAgain
  <2> QED
    BY <2>1, <2>4, <2>5, <2>6 DEF OfferInv
<1>4. CASE Produce
  <2>1. genRound.status = "running" /\ watched' = watched /\ genRound'.status = "running"
    BY <1>0, <1>4 DEF Produce, ReviewTypeOK, Rounds
  <2> QED
    BY <2>1 DEF OfferInv, RoundSeen
<1>5. CASE RoundEnds
  <2>1. genRound.status = "running" /\ watched' = watched /\ genRound'.status = "done"
    BY <1>0, <1>5 DEF RoundEnds, ReviewTypeOK, Rounds
  <2> QED
    BY <2>1 DEF OfferInv, RoundSeen
<1>6. CASE PollRound \/ ReadRound
  <2>1. /\ UNCHANGED <<bank, genRound, after, cached, invalid, queueGet, superseded>>
        /\ watched'.round = watched.round /\ watched'.refreshed = watched.refreshed
        /\ watched'.get \in {AskedQueue, genRound}
    BY <1>0, <1>6 DEF PollRound, ReadRound, ReviewTypeOK
  <2>2. RoundSeen'
    BY <2>1 DEF OfferInv, RoundSeen
  <2>3. \A k : NoneWaiting(k)' <=> NoneWaiting(k)
    BY <2>1 DEF NoneWaiting, Unreviewed
  <2> QED
    BY <2>1, <2>2, <2>3 DEF OfferInv, ReadRight, KnownRight, AskedAgain
<1>7. CASE RoundArrives
  <2>1. /\ watched.get \notin {NotRead, AskedQueue}
        /\ watched'.round = watched.get /\ watched'.get = NotRead
        /\ watched'.refreshed = (watched.refreshed \/ watched.get.status = "done")
        /\ UNCHANGED <<bank, genRound, after, cached>>
    BY <1>7 DEF RoundArrives
  <2>2. RoundSeen'
    BY <2>1 DEF OfferInv, RoundSeen
  <2>3. CASE News(watched.get)
    <3>1. Invalidate({after}) /\ {after} \in SUBSET Cursors /\ after' \in {after}
      BY <1>0, <1>7, <2>1, <2>3 DEF RoundArrives, ReviewTypeOK
    <3>2. (\A k \in Cursors : ReadRight(k)' /\ KnownRight(k)') /\ AskedAgain'
      BY <1>0, <2>1, <3>1, InvalidatedAnew
    <3> QED
      BY <2>2, <3>2 DEF OfferInv
  <2>4. CASE ~News(watched.get)
    <3>1. UNCHANGED <<invalid, queueGet, superseded>> /\ watched'.refreshed = watched.refreshed
      BY <1>0, <1>7, <2>1, <2>4 DEF RoundArrives, News, ReviewTypeOK
    <3>2. \A k : NoneWaiting(k)' <=> NoneWaiting(k)
      BY <2>1 DEF NoneWaiting, Unreviewed
    <3> QED
      BY <2>1, <2>2, <3>1, <3>2 DEF OfferInv, ReadRight, KnownRight, AskedAgain
  <2> QED
    BY <2>3, <2>4
<1>8. CASE Confirm \/ SubmitReview \/ ReviewRefused \/ UNCHANGED reviewVars
  <2>1. UNCHANGED <<bank, genRound, after, cached, invalid, queueGet, superseded, watched>>
    BY <1>8 DEF Confirm, SubmitReview, ReviewRefused, reviewVars
  <2> QED
    BY <2>1, BeliefStands
<1>9. CASE StoreReview
  <2>1. /\ UNCHANGED <<genRound, after, cached, invalid, queueGet, superseded, watched>>
        /\ bank' = [bank EXCEPT !.reviewed = @ \cup {review.id}] \/ bank' = bank
    BY <1>9 DEF StoreReview
  <2>2. bank'.last = bank.last /\ bank.reviewed \subseteq bank'.reviewed
    BY <1>0, <2>1 DEF ReviewTypeOK
  <2> QED
    BY <2>1, <2>2, BeliefStands
<1>10. CASE Skip \/ StartAgain
  <2>1. Shown \in Details
    BY <1>0, ShownIsDetail
  <2>2. PICK c \in Cursors : MoveTo(c) /\ UNCHANGED <<serverSide, cached, invalid, watched>>
    BY <1>10, <2>1, ReviewAssumption DEF Skip, StartAgain, Details, Cursors
  <2> QED
    BY <1>0, <2>2, MoveBelieves
<1>11. CASE StartNext
  <2>1. /\ genRound.status = "none" /\ watched'.refreshed = watched.refreshed
        /\ watched'.round = watched.round /\ watched'.get = AskedQueue
    BY <1>0, <1>11 DEF StartNext, ReviewTypeOK
  <2> QED
    BY <2>1 DEF OfferInv, RoundSeen
<1>12. CASE ReviewSaved
  <2> DEFINE c == IF review.id \in Audits THEN after ELSE review.id
  <2>1. c \in Cursors /\ after \in Cursors
    BY <1>0, <1>12, ReviewAssumption DEF ReviewSaved, ReviewTypeOK, Cursors
  <2>2. /\ after' = c /\ Invalidate({after, c})
        /\ UNCHANGED <<genRound, cached, watched>>
    BY <1>12 DEF ReviewSaved
  <2> HIDE DEF c
  <2>3. {after, c} \in SUBSET Cursors /\ after' \in {after, c}
    BY <2>1, <2>2
  <2>4. (\A k \in Cursors : ReadRight(k)' /\ KnownRight(k)') /\ AskedAgain'
    BY <1>0, <2>2, <2>3, InvalidatedAnew
  <2>5. RoundSeen'
    BY <2>2 DEF OfferInv, RoundSeen
  <2> QED
    BY <2>4, <2>5 DEF OfferInv
<1> QED
  BY <1>1, <1>2, <1>3, <1>4, <1>5, <1>6, <1>7, <1>8, <1>9, <1>10, <1>11, <1>12
     DEF ReviewNext, QueueMoves, RoundMoves

\* Once the round is seen to be over, the page at rest that says the queue is
\* empty is right, unless its answer was on its way when the queue was
\* invalidated, for every number of questions and every set of audits
\* (use-next-round.ts refetches the queue once more when the round ends).
THEOREM OfferedInTheEnd == ReviewSpec => []ProducedIsOffered
<1>1. ReviewInit => OfferInv
  BY DEF ReviewInit, OfferInv, RoundSeen
<1>2. ReviewInv /\ OfferInv /\ [ReviewNext]_reviewVars => ReviewInv' /\ OfferInv'
  BY ReviewInvStep, OfferInvStep
<1>3. ReviewInv /\ OfferInv => ProducedIsOffered
  <2> SUFFICES ASSUME ReviewInv, OfferInv, watched.round.status = "done",
                      queueGet[after] = NotRead, after \notin superseded,
                      cached[after] = NoDetail
               PROVE  NextFor(after) = NoDetail
    BY DEF ProducedIsOffered
  <2>1. after \in Cursors
    BY DEF ReviewInv, ReviewTypeOK
  <2>2. KnownRight(after) /\ AskedAgain
    BY <2>1 DEF OfferInv, RoundSeen
  <2>3. NoneWaiting(after)
    BY <2>2 DEF KnownRight, AskedAgain
  <2> QED
    BY <2>1, <2>3, SaysNothing DEF ReviewInv
<1> QED
  BY <1>1, <1>2, <1>3, ReviewInvInit, PTL DEF ReviewSpec
-----------------------------------------------------------------------------
(***************************************************************************)
(* Proofs about JobsPanel for every set of jobs and every number of visits *)
(* and presses.  Fairness plays no part in them.                           *)
(***************************************************************************)
Calls == [kind : {"cancel", "retry"}, job : Jobs, heard : BOOLEAN,
          reply : Jobs \cup {"none", "refused", "done"}]

\* A call whose buttons go, and a call that is answered, is still a call.
LEMMA CallSteps ==
    ASSUME NEW c \in Calls, NEW reply \in Jobs \cup {"none", "refused", "done"}
    PROVE  [c EXCEPT !.heard = FALSE] \in Calls /\ [c EXCEPT !.reply = reply] \in Calls
BY DEF Calls

LEMMA UnmountCalls ==
    ASSUME NEW cs \in SUBSET Calls, Unmount(cs) PROVE calls' \subseteq Calls /\ buttons' = {}
<1> SUFFICES ASSUME NEW c \in cs PROVE [c EXCEPT !.heard = FALSE] \in Calls
  BY DEF Unmount
<1> QED
  BY CallSteps

\* Every step keeps the lists, the requests and the window in their types.
LEMMA PanelTypeStep == PanelTypeOK /\ [PanelNext]_panelVars => PanelTypeOK'
<1> SUFFICES ASSUME PanelTypeOK, [PanelNext]_panelVars PROVE PanelTypeOK'
  OBVIOUS
<1> USE PanelAssumption DEF PanelTypeOK, Lists, Statuses, serverJobs, jobsQuery, windowVars,
                            callVars, tellings
<1>1. CASE PollJobs
  BY <1>1 DEF PollJobs
<1>2. CASE ReadJobs
  BY <1>2 DEF ReadJobs, Server
<1>3. CASE ListArrives
  <2>1. list' \in Lists /\ get' = NoJobs
    BY <1>3 DEF ListArrives
  <2>2. list'.job \in [Jobs -> Statuses] /\ list'.job = get.job
    BY <1>3, <2>1 DEF ListArrives
  <2>3. menu' \in [visit : 0 .. MaxVisits, shown : BOOLEAN, before : [Jobs -> Statuses]]
    BY <1>3, <2>2 DEF ListArrives, Watch
  <2>4. told' \in [Jobs -> Nat]
    BY <1>3 DEF ListArrives, Watch
  <2> QED
    BY <1>3, <2>1, <2>3, <2>4 DEF ListArrives
<1>4. CASE LeavePage
  <2>1. calls' \subseteq Calls /\ buttons' = {}
    BY <1>4, UnmountCalls DEF LeavePage, Calls
  <2> QED
    BY <1>4, <2>1 DEF LeavePage, NoneListed, Calls
<1>5. CASE EnterPage
  <2>1. Listed \in [Jobs -> Statuses]
    BY DEF Listed, NoneListed
  <2>2. get' \in Lists \cup {NoJobs, Asked}
    BY <1>5 DEF EnterPage
  <2> QED
    BY <1>5, <2>1, <2>2 DEF EnterPage
<1>6. CASE Collect
  BY <1>6 DEF Collect
<1>7. ASSUME NEW w \in Jobs \cup {"all"}, OpenWindow(w) PROVE PanelTypeOK'
  BY <1>7 DEF OpenWindow
<1>8. CASE CloseWindow
  <2>1. calls' \subseteq Calls /\ buttons' = {}
    BY <1>8, UnmountCalls DEF CloseWindow, Calls
  <2> QED
    BY <1>8, <2>1 DEF CloseWindow, Calls
<1>9. ASSUME NEW j \in Jobs, PressAction("cancel", j) \/ PressAction("retry", j)
      PROVE PanelTypeOK'
  <2> SUFFICES ASSUME NEW kind \in {"cancel", "retry"}, PressAction(kind, j) PROVE PanelTypeOK'
    BY <1>9
  <2>1. [kind |-> kind, job |-> j, heard |-> TRUE, reply |-> "none"] \in Calls
    BY DEF Calls
  <2>2. calls' \subseteq Calls /\ buttons' \subseteq {"cancel", "retry"}
    BY <2>1 DEF PressAction, Calls
  <2>3. pressed' \in 0 .. MaxPresses
    BY DEF PressAction
  <2> QED
    BY <2>2, <2>3 DEF PressAction, Calls
<1>10. ASSUME NEW j \in Jobs, JobQueued(j) \/ JobStarts(j) \/ JobEnds(j) PROVE PanelTypeOK'
  BY <1>10 DEF JobQueued, JobStarts, JobEnds
<1>11. ASSUME NEW c \in calls, CancelServed(c) PROVE PanelTypeOK'
  <2>1. calls' \subseteq Calls
    BY <1>11, CallSteps DEF CancelServed, Answer, Calls
  <2>2. job' \in [Jobs -> Statuses] /\ stopping' \subseteq Jobs
    BY <1>11 DEF CancelServed
  <2> QED
    BY <1>11, <2>1, <2>2 DEF CancelServed, Calls
<1>12. ASSUME NEW c \in calls, NEW new \in Jobs, RetryServed(c, new) PROVE PanelTypeOK'
  <2>1. calls' \subseteq Calls
    BY <1>12, CallSteps DEF RetryServed, Answer, Calls
  <2>2. job' \in [Jobs -> Statuses] /\ retried' \subseteq Jobs
    BY <1>12 DEF RetryServed
  <2> QED
    BY <1>12, <2>1, <2>2 DEF RetryServed, Calls
<1>13. ASSUME NEW c \in calls, ActionReplied(c) PROVE PanelTypeOK'
  <2>1. get' \in Lists \cup {NoJobs, Asked}
    BY <1>13 DEF ActionReplied, Refetch
  <2>2. CASE c.reply \in Jobs /\ menu.shown
    <3>1. calls' \subseteq Calls /\ buttons' = {}
      BY <1>13, <2>2, UnmountCalls DEF ActionReplied, Calls
    <3> QED
      BY <1>13, <2>1, <2>2, <3>1 DEF ActionReplied, Calls
  <2>3. CASE ~(c.reply \in Jobs /\ menu.shown)
    BY <1>13, <2>1, <2>3 DEF ActionReplied
  <2> QED
    BY <2>2, <2>3
<1>14. CASE UNCHANGED panelVars
  BY <1>14 DEF panelVars
<1> QED
  BY <1>1, <1>2, <1>3, <1>4, <1>5, <1>6, <1>7, <1>8, <1>9, <1>10, <1>11, <1>12, <1>13, <1>14
     DEF PanelNext

\* The list, its request and the window of the Jobs button always have the
\* types of the code's states.
THEOREM PanelTypes == PanelSpec => []PanelTypeOK
<1>1. PanelInit => PanelTypeOK
  BY PanelAssumption DEF PanelInit, PanelTypeOK, Statuses, Lists, NoneListed
<1> QED
  BY <1>1, PanelTypeStep, PTL DEF PanelSpec
-----------------------------------------------------------------------------
(***************************************************************************)
(* An end that was seen stays seen.  A list that says a job has ended is   *)
(* right, and every answer on its way behind that list says so too: there  *)
(* is one request at a time, and one that is replaced never lands.         *)
(***************************************************************************)
AnswerKnows(j) == get \in {NoJobs, Asked} \/ get.job[j] = "ended"

SeenInv(j) ==
    /\ get \notin {NoJobs, Asked} /\ get.job[j] = "ended" => job[j] = "ended"
    /\ list # NoJobs /\ list.job[j] = "ended" => job[j] = "ended" /\ AnswerKnows(j)
    /\ menu.before[j] = "ended" => job[j] = "ended" /\ AnswerKnows(j)
    /\ told[j] > 0 => menu.shown /\ menu.before[j] = "ended"
    /\ told[j] <= 1

PanelInv == PanelTypeOK /\ \A j \in Jobs : SeenInv(j)

\* Every step of the button, of its window and of the server keeps it.
LEMMA PanelInvStep == PanelInv /\ [PanelNext]_panelVars => PanelInv'
<1> SUFFICES ASSUME PanelInv, [PanelNext]_panelVars PROVE PanelInv'
  OBVIOUS
<1>0. PanelTypeOK /\ PanelTypeOK'
  BY PanelTypeStep DEF PanelInv
<1> SUFFICES ASSUME NEW k \in Jobs PROVE SeenInv(k)'
  BY <1>0 DEF PanelInv
<1>t. SeenInv(k)
  BY DEF PanelInv
<1> USE <1>0, <1>t DEF SeenInv, AnswerKnows, PanelTypeOK, Lists, Statuses, serverJobs,
                       jobsQuery, windowVars, callVars, tellings
<1>1. CASE PollJobs
  BY <1>1 DEF PollJobs
<1>2. CASE ReadJobs
  <2>1. get'.job[k] = job[k]
    BY <1>2 DEF ReadJobs, Server
  <2> QED
    BY <1>2, <2>1 DEF ReadJobs
<1>3. CASE ListArrives
  <2>1. list' = get /\ get' = NoJobs /\ job' = job /\ get.job[k] \in Statuses
    BY <1>3 DEF ListArrives
  <2>2. list'.job[k] = "ended" => job'[k] = "ended"
    BY <1>3, <2>1 DEF ListArrives
  <2>3. CASE menu.shown
    <3>1. menu'.shown /\ menu'.before[k] = get.job[k]
      BY <1>3, <2>3 DEF ListArrives, Watch
    <3>2. told'[k] = IF k \in Finished(menu.before, get.job) THEN told[k] + 1 ELSE told[k]
      BY <1>3, <2>3 DEF ListArrives, Watch
    <3>3. k \in Finished(menu.before, get.job)
             <=> menu.before[k] \in Active \cup {"none"} /\ get.job[k] = "ended"
      BY DEF Finished
    <3>4. CASE k \in Finished(menu.before, get.job)
      BY <1>3, <2>1, <2>2, <3>1, <3>2, <3>3, <3>4 DEF Active, ListArrives
    <3>5. CASE k \notin Finished(menu.before, get.job)
      BY <1>3, <2>1, <2>2, <3>1, <3>2, <3>5 DEF ListArrives
    <3> QED
      BY <3>4, <3>5
  <2>4. CASE ~menu.shown
    BY <1>3, <2>1, <2>2, <2>4 DEF ListArrives, Watch
  <2> QED
    BY <2>3, <2>4
<1>4. CASE LeavePage
  BY <1>4 DEF LeavePage, NoneListed
<1>5. CASE EnterPage
  <2>1. menu'.shown /\ menu'.before = Listed /\ list' = list /\ told' = told /\ job' = job
    BY <1>5 DEF EnterPage
  <2>2. get' \in {get, Asked} \/ (get = NoJobs /\ get' = NoJobs)
    BY <1>5 DEF EnterPage
  <2>3. told[k] = 0
    BY <1>5 DEF EnterPage
  <2>4. Listed[k] = "ended" => list # NoJobs /\ list.job[k] = "ended"
    BY DEF Listed, NoneListed
  <2> QED
    BY <2>1, <2>2, <2>3, <2>4
<1>6. CASE Collect
  BY <1>6 DEF Collect
<1>7. ASSUME NEW w \in Jobs \cup {"all"}, OpenWindow(w) PROVE SeenInv(k)'
  BY <1>7 DEF OpenWindow
<1>8. CASE CloseWindow
  BY <1>8 DEF CloseWindow
<1>9. ASSUME NEW j \in Jobs, PressAction("cancel", j) \/ PressAction("retry", j)
      PROVE SeenInv(k)'
  BY <1>9 DEF PressAction
<1>10. ASSUME NEW j \in Jobs, JobQueued(j) \/ JobStarts(j) \/ JobEnds(j) PROVE SeenInv(k)'
  BY <1>10 DEF JobQueued, JobStarts, JobEnds
<1>11. ASSUME NEW c \in calls, CancelServed(c) PROVE SeenInv(k)'
  BY <1>11 DEF CancelServed
<1>12. ASSUME NEW c \in calls, NEW new \in Jobs, RetryServed(c, new) PROVE SeenInv(k)'
  BY <1>12 DEF RetryServed
<1>13. ASSUME NEW c \in calls, ActionReplied(c) PROVE SeenInv(k)'
  <2>1. get' \in {get, Asked} /\ UNCHANGED <<list, menu, job, told>>
    BY <1>13 DEF ActionReplied, Refetch
  <2> QED
    BY <2>1
<1>14. CASE UNCHANGED panelVars
  BY <1>14 DEF panelVars
<1> QED
  BY <1>1, <1>2, <1>3, <1>4, <1>5, <1>6, <1>7, <1>8, <1>9, <1>10, <1>11, <1>12, <1>13, <1>14
     DEF PanelNext

\* However polls, refetches, cancels and retries interleave, a visit to a
\* page never announces the end of a job twice (use-job-finished-toasts.ts).
THEOREM ToastsOnce == PanelSpec => []ToldOncePerVisit
<1>1. PanelInit => PanelInv
  <2>1. PanelInit => PanelTypeOK
    BY PanelAssumption DEF PanelInit, PanelTypeOK, Statuses, Lists, NoneListed
  <2> QED
    BY <2>1, PanelAssumption DEF PanelInit, PanelInv, SeenInv, AnswerKnows, NoneListed
<1>2. PanelInv => ToldOncePerVisit
  BY DEF PanelInv, SeenInv, ToldOncePerVisit
<1> QED
  BY <1>1, <1>2, PanelInvStep, PTL DEF PanelSpec
-----------------------------------------------------------------------------
(***************************************************************************)
(* Proofs about JoinClassroom for every set of tabs, names and flows and   *)
(* every number of learners and runs.                                      *)
(***************************************************************************)
CallsTo(n, r) == [op : {"none"} \cup Sent \cup Answered, name : LearnerNames \cup {""},
                  who : 0 .. n, token : 0 .. n, run : 0 .. r]
TabsTo(n, r) == [page : {"closed", "join", "session"}, identity : 0 .. n, asked : BOOLEAN,
                 known : BOOLEAN, trouble : BOOLEAN, active : 0 .. r, run : 0 .. r]

ServerTypes ==
    /\ lastLearner \in 0 .. MaxLearners /\ lastRun \in 0 .. MaxRuns
    /\ DOMAIN learners \subseteq 1 .. lastLearner
    /\ \A l \in DOMAIN learners : learners[l] \in LearnerNames
    /\ DOMAIN openRuns \subseteq 1 .. lastRun
    /\ \A r \in DOMAIN openRuns : openRuns[r] \in DOMAIN learners
    /\ stored \in 0 .. lastLearner
    /\ parted \subseteq (1 .. lastLearner) \X {"forgotten", "replaced", "refused", "swept"}

(***************************************************************************)
(* The inductive invariant.  A start that the server will accept was sent  *)
(* for the identity that was stored, so its learner is the stored one, or  *)
(* was lost on the way; a token that was refused is of no learner there    *)
(* will ever be; and a page that has asked who it is has its answer, or    *)
(* waits for it, or says that it was lost.                                 *)
(***************************************************************************)
SafeSet == {l \in DOMAIN learners :
    l = stored \/ \E why \in {"forgotten", "replaced", "swept"} : <<l, why>> \in parted}

CallInv(c, known, safe) ==
    /\ c.op = "create" => c.name \in LearnerNames
    /\ c.op = "starting" => c.token = c.who /\ c.who \in known
    /\ c.op \in {"start", "starting"} /\ c.token = c.who /\ c.who \in known => c.who \in safe
    /\ c.op = "refused" => c.who \notin known

TabInv(tab, c, known) ==
    /\ c.op \in {"none", "resume", "recognised", "refused"}
    /\ c.op # "none" => /\ tab.page = "join" /\ tab.asked
                        /\ c.who = tab.identity /\ c.who # NoOne
    /\ c.op = "recognised" => c.who \in known
    /\ tab.asked /\ tab.identity \notin {NoOne} \cup known
       => c.op \in {"resume", "refused"} \/ tab.trouble

TypesInv == /\ ServerTypes
            /\ call \in [Tabs -> [Slots -> CallsTo(lastLearner, lastRun)]]
            /\ joinTab \in [Tabs -> TabsTo(lastLearner, lastRun)]

JoinInv ==
    /\ TypesInv
    /\ \A t \in Tabs : \A s \in Slots : CallInv(call[t][s], DOMAIN learners, SafeSet)
    /\ \A t \in Tabs : TabInv(joinTab[t], call[t]["resume"], DOMAIN learners)
    /\ \A r \in DOMAIN openRuns : openRuns[r] \in SafeSet
-----------------------------------------------------------------------------
\* The newest of a set of runs exists.
LEMMA NewestExists ==
    ASSUME NEW n \in Nat, NEW S \in SUBSET (0 .. n), S # {} PROVE Max(S) \in S
<1> DEFINE D == {n - x : x \in S}
<1>1. D \subseteq Nat /\ D # {}
  <2>1. \A x \in S : x \in 0 .. n
    OBVIOUS
  <2>2. \A x \in S : n - x \in Nat
    BY <2>1
  <2> QED
    BY <2>2
<1>2. IsWellFoundedOn(Less, Nat)
  BY NatLessThanWellFounded, Zenon DEF Less, OpToRel
<1> HIDE DEF D
<1>3. PICK d \in D : \A e \in D : ~(<<e, d>> \in Less)
  BY <1>1, <1>2, WFMin
<1>4. PICK x \in S : d = n - x
  BY DEF D
<1>5. ASSUME NEW y \in S PROVE x >= y
  <2>1. n - y \in D
    BY DEF D
  <2>2. ~(<<n - y, n - x>> \in Less)
    BY <1>3, <1>4, <2>1
  <2>3. n - y \in Nat /\ n - x \in Nat
    OBVIOUS
  <2>4. ~(n - y < n - x)
    BY <2>2, <2>3 DEF Less
  <2> QED
    BY <2>4
<1> QED
  BY <1>5 DEF Max

\* The run a learner is told of is one of those that were started.
LEMMA OpenRunType == ASSUME ServerTypes, NEW l PROVE OpenRunOf(l) \in 0 .. lastRun
<1> DEFINE own == {r \in DOMAIN openRuns : openRuns[r] = l}
<1>1. lastRun \in Nat /\ own \in SUBSET (0 .. lastRun) /\ own \subseteq DOMAIN openRuns
  BY DEF ServerTypes
<1>2. own # {} => Max(own) \in own
  BY <1>1, NewestExists
<1> QED
  BY <1>1, <1>2 DEF OpenRunOf, NoRun

\* More learners and more runs leave every call and every tab in its type.
LEMMA TypesGrow ==
    ASSUME NEW n \in Nat, NEW r \in Nat, NEW m \in Nat, NEW q \in Nat, n <= m, r <= q
    PROVE  CallsTo(n, r) \subseteq CallsTo(m, q) /\ TabsTo(n, r) \subseteq TabsTo(m, q)
<1>1. 0 .. n \subseteq 0 .. m /\ 0 .. r \subseteq 0 .. q
  OBVIOUS
<1>2. ASSUME NEW c \in CallsTo(n, r) PROVE c \in CallsTo(m, q)
  BY <1>1 DEF CallsTo
<1>3. ASSUME NEW tab \in TabsTo(n, r) PROVE tab \in TabsTo(m, q)
  BY <1>1 DEF TabsTo
<1> QED
  BY <1>2, <1>3

\* A new identity is one no call and no page has.
LEMMA NobodyNew ==
    ASSUME NEW n \in Nat, NEW r \in Nat,
           NEW known, NEW more, known \subseteq more, more \ known \subseteq {n + 1}
    PROVE  /\ \A c \in CallsTo(n, r) : c.who \in more => c.who \in known
           /\ \A tab \in TabsTo(n, r) : tab.identity \in more => tab.identity \in known
<1>1. ASSUME NEW c \in CallsTo(n, r) PROVE c.who # n + 1
  <2>1. c.who \in 0 .. n
    BY DEF CallsTo
  <2> QED
    BY <2>1
<1>2. \A tab \in TabsTo(n, r) : tab.identity # n + 1
  BY DEF TabsTo
<1> QED
  BY <1>1, <1>2

\* What is said of a call and of a page stands while learners only enrol and
\* identities are only lost as it is recorded.
LEMMA CallStands ==
    ASSUME NEW n \in Nat, NEW r \in Nat, NEW c \in CallsTo(n, r),
           NEW known, NEW more, known \subseteq more, more \ known \subseteq {n + 1},
           NEW safe, NEW held, safe \subseteq held, CallInv(c, known, safe)
    PROVE  CallInv(c, more, held)
<1>1. c.who \in more => c.who \in known
  BY NobodyNew
<1> QED
  BY <1>1 DEF CallInv

LEMMA TabStands ==
    ASSUME NEW n \in Nat, NEW r \in Nat, NEW c \in CallsTo(n, r), NEW tab \in TabsTo(n, r),
           NEW known, NEW more, known \subseteq more, more \ known \subseteq {n + 1},
           TabInv(tab, c, known)
    PROVE  TabInv(tab, c, more)
BY DEF TabInv

Grows == /\ lastLearner <= lastLearner' /\ lastRun <= lastRun'
         /\ DOMAIN learners \subseteq DOMAIN learners'
         /\ DOMAIN learners' \ DOMAIN learners \subseteq {lastLearner + 1}
         /\ SafeSet \subseteq SafeSet'

\* A step of one tab keeps the invariant when it keeps the server's types and
\* what is said of the calls it changes, of its page and of the runs.
LEMMA OneTab ==
    ASSUME JoinInv, ServerTypes', Grows, NEW t \in Tabs,
           call' \in [Tabs -> [Slots -> CallsTo(lastLearner', lastRun')]],
           joinTab' \in [Tabs -> TabsTo(lastLearner', lastRun')],
           \A u \in Tabs \ {t} : call'[u] = call[u] /\ joinTab'[u] = joinTab[u],
           \A v \in Slots : \/ call'[t][v] = call[t][v]
                            \/ CallInv(call'[t][v], DOMAIN learners', SafeSet'),
           TabInv(joinTab'[t], call'[t]["resume"], DOMAIN learners'),
           \A r \in DOMAIN openRuns' : \/ openRuns'[r] \in SafeSet'
                                       \/ r \in DOMAIN openRuns /\ openRuns'[r] = openRuns[r]
    PROVE  JoinInv'
<1>1. lastLearner \in Nat /\ lastRun \in Nat
  BY DEF JoinInv, TypesInv, ServerTypes
<1>2. ASSUME NEW u \in Tabs, NEW v \in Slots
      PROVE  CallInv(call'[u][v], DOMAIN learners', SafeSet')
  <2>1. call[u][v] \in CallsTo(lastLearner, lastRun)
    BY DEF JoinInv, TypesInv
  <2>2. CallInv(call[u][v], DOMAIN learners, SafeSet)
    BY DEF JoinInv
  <2>3. CallInv(call[u][v], DOMAIN learners', SafeSet')
    BY <1>1, <2>1, <2>2, CallStands DEF Grows
  <2> QED
    BY <2>3
<1>3. ASSUME NEW u \in Tabs PROVE TabInv(joinTab'[u], call'[u]["resume"], DOMAIN learners')
  <2>1. /\ call[u]["resume"] \in CallsTo(lastLearner, lastRun)
        /\ joinTab[u] \in TabsTo(lastLearner, lastRun)
    BY DEF JoinInv, TypesInv, Slots
  <2>2. TabInv(joinTab[u], call[u]["resume"], DOMAIN learners')
    BY <1>1, <2>1, TabStands DEF JoinInv, Grows
  <2> QED
    BY <2>2
<1>4. \A r \in DOMAIN openRuns' : openRuns'[r] \in SafeSet'
  BY DEF JoinInv, Grows
<1> QED
  BY <1>2, <1>3, <1>4 DEF JoinInv, TypesInv

\* The runs are as they were, or of learners that can return.
RunsKept == \A r \in DOMAIN openRuns' : \/ openRuns'[r] \in SafeSet'
                                        \/ r \in DOMAIN openRuns /\ openRuns'[r] = openRuns[r]

\* A step that leaves the server and the stored identity alone.
LEMMA Still ==
    ASSUME JoinInv, UNCHANGED <<joinServer, stored, parted>>
    PROVE  ServerTypes' /\ Grows /\ RunsKept /\ SafeSet' = SafeSet
<1>1. lastLearner \in Nat /\ lastRun \in Nat
  BY DEF JoinInv, TypesInv, ServerTypes
<1> QED
  BY <1>1 DEF JoinInv, TypesInv, ServerTypes, Grows, RunsKept, SafeSet, joinServer

\* A step that stores another identity, or none, and records why.
LEMMA Parted ==
    ASSUME JoinInv, UNCHANGED joinServer, stored' \in 0 .. lastLearner,
           NEW why \in {"forgotten", "replaced", "refused", "swept"}, Part(why),
           why = "refused" => stored \notin DOMAIN learners
    PROVE  /\ ServerTypes' /\ Grows /\ RunsKept
           /\ stored' \in DOMAIN learners => stored' \in SafeSet'
<1>1. lastLearner \in Nat /\ lastRun \in Nat
  BY DEF JoinInv, TypesInv, ServerTypes
<1>2. parted \subseteq parted' /\ (stored # NoOne => <<stored, why>> \in parted')
  BY DEF Part
<1>3. ASSUME NEW l \in SafeSet PROVE l \in SafeSet'
  <2>1. l \in DOMAIN learners /\ l # NoOne
    BY DEF SafeSet, JoinInv, TypesInv, ServerTypes, NoOne
  <2>2. CASE l = stored
    BY <1>2, <2>1, <2>2 DEF SafeSet, joinServer
  <2>3. CASE l # stored
    BY <1>2, <2>1, <2>3 DEF SafeSet, joinServer
  <2> QED
    BY <2>2, <2>3
<1>4. ServerTypes'
  <2>1. stored # NoOne => stored \in 1 .. lastLearner
    BY DEF JoinInv, TypesInv, ServerTypes, NoOne
  <2>2. parted' \subseteq (1 .. lastLearner) \X {"forgotten", "replaced", "refused", "swept"}
    BY <2>1 DEF Part, JoinInv, TypesInv, ServerTypes
  <2> QED
    BY <2>2 DEF JoinInv, TypesInv, ServerTypes, joinServer
<1> QED
  BY <1>1, <1>3, <1>4 DEF Grows, RunsKept, SafeSet, joinServer

\* The calls after a reply.
LEMMA Replied ==
    ASSUME JoinInv, ServerTypes', Grows, NEW t \in Tabs, NEW s \in Slots,
           NEW answer, answer \in CallsTo(lastLearner', lastRun'), Reply(t, s, answer)
    PROVE  /\ call' \in [Tabs -> [Slots -> CallsTo(lastLearner', lastRun')]]
           /\ call'[t][s] = answer
           /\ \A v \in Slots \ {s} : call'[t][v] = call[t][v]
           /\ \A u \in Tabs \ {t} : call'[u] = call[u]
<1>1. CallsTo(lastLearner, lastRun) \subseteq CallsTo(lastLearner', lastRun')
  BY TypesGrow DEF JoinInv, TypesInv, ServerTypes, Grows
<1>2. call \in [Tabs -> [Slots -> CallsTo(lastLearner', lastRun')]]
  BY <1>1 DEF JoinInv, TypesInv
<1> QED
  BY <1>2 DEF Reply

\* The pages, when no page changes.
LEMMA PagesStay ==
    ASSUME JoinInv, ServerTypes', Grows, joinTab' = joinTab
    PROVE  joinTab' \in [Tabs -> TabsTo(lastLearner', lastRun')]
<1>1. TabsTo(lastLearner, lastRun) \subseteq TabsTo(lastLearner', lastRun')
  BY TypesGrow DEF JoinInv, TypesInv, ServerTypes, Grows
<1> QED
  BY <1>1 DEF JoinInv, TypesInv

\* A step that only answers a call, or sends one.
LEMMA OneReply ==
    ASSUME JoinInv, ServerTypes', Grows, RunsKept, NEW t \in Tabs, NEW s \in Slots,
           NEW answer, answer \in CallsTo(lastLearner', lastRun'), Reply(t, s, answer),
           joinTab' = joinTab, CallInv(answer, DOMAIN learners', SafeSet'),
           s = "resume" => TabInv(joinTab[t], answer, DOMAIN learners')
    PROVE  JoinInv'
<1>1. /\ call' \in [Tabs -> [Slots -> CallsTo(lastLearner', lastRun')]]
      /\ call'[t][s] = answer
      /\ \A v \in Slots \ {s} : call'[t][v] = call[t][v]
      /\ \A u \in Tabs \ {t} : call'[u] = call[u]
  BY Replied
<1>2. joinTab' \in [Tabs -> TabsTo(lastLearner', lastRun')]
  BY PagesStay
<1>3. TabInv(joinTab'[t], call'[t]["resume"], DOMAIN learners')
  <2>1. CASE s = "resume"
    BY <1>1, <2>1
  <2>2. CASE s # "resume"
    <3>1. call'[t]["resume"] = call[t]["resume"]
      BY <1>1, <2>2 DEF Slots
    <3>2. /\ call[t]["resume"] \in CallsTo(lastLearner, lastRun)
          /\ joinTab[t] \in TabsTo(lastLearner, lastRun)
          /\ lastLearner \in Nat /\ lastRun \in Nat
      BY DEF JoinInv, TypesInv, ServerTypes, Slots
    <3>3. TabInv(joinTab[t], call[t]["resume"], DOMAIN learners')
      BY <3>2, TabStands DEF JoinInv, Grows
    <3> QED
      BY <3>1, <3>3
  <2> QED
    BY <2>1, <2>2
<1> QED
  BY <1>1, <1>2, <1>3, OneTab DEF RunsKept

\* No call, and the calls that differ from another in some fields, are calls.
LEMMA CallFields ==
    ASSUME NEW n \in Nat, NEW r \in Nat, NEW c \in CallsTo(n, r),
           NEW op \in {"none"} \cup Sent \cup Answered, NEW who \in 0 .. n, NEW run \in 0 .. r
    PROVE  /\ [c EXCEPT !.op = op] \in CallsTo(n, r)
           /\ [c EXCEPT !.op = op, !.run = run] \in CallsTo(n, r)
           /\ [c EXCEPT !.op = op, !.who = who] \in CallsTo(n, r)
           /\ [c EXCEPT !.op = op, !.token = who] \in CallsTo(n, r)
<1>1. [c EXCEPT !.op = op] \in CallsTo(n, r)
  BY DEF CallsTo
<1> DEFINE d == [c EXCEPT !.op = op]
<1>2. [d EXCEPT !.run = run] \in CallsTo(n, r)
  BY <1>1 DEF CallsTo
<1>3. [d EXCEPT !.who = who] \in CallsTo(n, r)
  BY <1>1 DEF CallsTo
<1>4. [d EXCEPT !.token = who] \in CallsTo(n, r)
  BY <1>1 DEF CallsTo
<1>5. /\ [d EXCEPT !.run = run] = [c EXCEPT !.op = op, !.run = run]
      /\ [d EXCEPT !.who = who] = [c EXCEPT !.op = op, !.who = who]
      /\ [d EXCEPT !.token = who] = [c EXCEPT !.op = op, !.token = who]
  BY DEF CallsTo
<1> QED
  BY <1>1, <1>2, <1>3, <1>4, <1>5

LEMMA NoCallType ==
    ASSUME NEW n \in Nat, NEW r \in Nat
    PROVE  /\ NoCall \in CallsTo(n, r)
           /\ NoCall.op = "none"
           /\ \A known, safe : CallInv(NoCall, known, safe)
BY DEF NoCall, CallsTo, CallInv, NoOne, NoRun

\* A step that answers a call, or sends one, and changes its page.
LEMMA ReplyAndPage ==
    ASSUME JoinInv, ServerTypes', Grows, RunsKept, NEW t \in Tabs, NEW s \in Slots,
           NEW answer, answer \in CallsTo(lastLearner', lastRun'), Reply(t, s, answer),
           joinTab' \in [Tabs -> TabsTo(lastLearner', lastRun')],
           \A u \in Tabs \ {t} : joinTab'[u] = joinTab[u],
           CallInv(answer, DOMAIN learners', SafeSet'),
           TabInv(joinTab'[t], IF s = "resume" THEN answer ELSE call[t]["resume"],
                  DOMAIN learners')
    PROVE  JoinInv'
<1>1. /\ call' \in [Tabs -> [Slots -> CallsTo(lastLearner', lastRun')]]
      /\ call'[t][s] = answer
      /\ \A v \in Slots \ {s} : call'[t][v] = call[t][v]
      /\ \A u \in Tabs \ {t} : call'[u] = call[u]
  BY Replied
<1>2. call'[t]["resume"] = IF s = "resume" THEN answer ELSE call[t]["resume"]
  BY <1>1 DEF Slots
<1> QED
  BY <1>1, <1>2, OneTab DEF RunsKept

\* A step that drops every call of a page that has gone.
LEMMA PageGone ==
    ASSUME JoinInv, ServerTypes', Grows, RunsKept, NEW t \in Tabs,
           call' \in [Tabs -> [Slots -> CallsTo(lastLearner', lastRun')]],
           joinTab' \in [Tabs -> TabsTo(lastLearner', lastRun')],
           \A u \in Tabs \ {t} : call'[u] = call[u] /\ joinTab'[u] = joinTab[u],
           \A v \in Slots : call'[t][v] \in {call[t][v], NoCall},
           call'[t]["resume"].op = "none", ~joinTab'[t].asked
    PROVE  JoinInv'
<1>1. \A v \in Slots : \/ call'[t][v] = call[t][v]
                       \/ CallInv(call'[t][v], DOMAIN learners', SafeSet')
  BY NoCallType DEF JoinInv, TypesInv, ServerTypes
<1>2. TabInv(joinTab'[t], call'[t]["resume"], DOMAIN learners')
  BY DEF TabInv
<1> QED
  BY <1>1, <1>2, OneTab DEF RunsKept
-----------------------------------------------------------------------------
\* The server's steps keep the invariant.
LEMMA ServerSteps ==
    ASSUME JoinInv, NEW t \in Tabs, NEW s \in Slots,
           AnswerResume(t, s) \/ AnswerCreate(t, s) \/ CheckStart(t, s) \/ InsertRun(t, s)
    PROVE  JoinInv'
<1> DEFINE c == call[t][s]
<1>1. /\ lastLearner \in Nat /\ lastRun \in Nat /\ ServerTypes
      /\ c \in CallsTo(lastLearner, lastRun)
      /\ CallInv(c, DOMAIN learners, SafeSet)
      /\ s = "resume" => TabInv(joinTab[t], c, DOMAIN learners)
  BY DEF JoinInv, TypesInv, ServerTypes
<1>2. c.op # "none" /\ c.op \notin {"resume", "recognised", "refused"} => s # "resume"
  BY <1>1 DEF TabInv
<1>3. c.who \in 0 .. lastLearner /\ c.run \in 0 .. lastRun /\ c.token \in 0 .. lastLearner
  BY <1>1 DEF CallsTo
<1>4. CASE AnswerResume(t, s)
  <2>1. ServerTypes' /\ Grows /\ RunsKept /\ SafeSet' = SafeSet /\ UNCHANGED <<joinServer, joinTab>>
    BY <1>4, Still DEF AnswerResume, joinServer
  <2>2. CASE c.who \in DOMAIN learners
    <3> DEFINE op == IF c.op = "resume" THEN "recognised" ELSE "resolved"
               answer == [c EXCEPT !.op = op, !.run = OpenRunOf(c.who)]
    <3>0. op \in {"none"} \cup Sent \cup Answered /\ OpenRunOf(c.who) \in 0 .. lastRun
      BY <1>1, OpenRunType DEF Answered
    <3> HIDE DEF op
    <3>1. answer \in CallsTo(lastLearner, lastRun)
      <4> HIDE DEF c
      <4> QED
        BY <1>1, <1>3, <3>0, CallFields
    <3>a. op \in {"recognised", "resolved"} /\ (c.op = "resume" => op = "recognised")
      BY DEF op
    <3>2. answer.op = op /\ answer.who = c.who
      BY <1>1 DEF CallsTo
    <3>3. Reply(t, s, answer)
      BY <1>4, <2>2 DEF AnswerResume, op
    <3>4. c.op \in {"resume", "resolve"}
      BY <1>4 DEF AnswerResume
    <3> HIDE DEF answer, c
    <3>5. CallInv(answer, DOMAIN learners, SafeSet)
      BY <3>2, <3>a DEF CallInv
    <3>6. s = "resume" => TabInv(joinTab[t], answer, DOMAIN learners)
      <4>1. s = "resume" => op = "recognised"
        BY <1>1, <3>4, <3>a DEF TabInv
      <4> QED
        BY <1>1, <2>2, <3>2, <3>4, <4>1 DEF TabInv
    <3> QED
      BY <2>1, <3>1, <3>3, <3>5, <3>6, OneReply DEF joinServer
  <2>3. CASE c.who \notin DOMAIN learners
    <3> DEFINE answer == [c EXCEPT !.op = "refused"]
    <3>1. answer \in CallsTo(lastLearner, lastRun)
      BY <1>1, <1>3, CallFields DEF Answered
    <3>2. answer.op = "refused" /\ answer.who = c.who
      BY <1>1 DEF CallsTo
    <3>3. Reply(t, s, answer)
      BY <1>4, <2>3 DEF AnswerResume
    <3>4. c.op \in {"resume", "resolve"}
      BY <1>4 DEF AnswerResume
    <3> HIDE DEF answer, c
    <3>5. CallInv(answer, DOMAIN learners, SafeSet)
      BY <2>3, <3>2 DEF CallInv
    <3>6. s = "resume" => TabInv(joinTab[t], answer, DOMAIN learners)
      BY <1>1, <3>2, <3>4 DEF TabInv
    <3> QED
      BY <2>1, <3>1, <3>3, <3>5, <3>6, OneReply DEF joinServer
  <2> QED
    BY <2>2, <2>3
<1>5. CASE AnswerCreate(t, s)
  <2>1. c.op = "create" /\ UNCHANGED <<openRuns, lastRun, stored, joinTab, parted>>
    BY <1>5 DEF AnswerCreate
  <2>2. c.name \in LearnerNames /\ s # "resume"
    BY <1>1, <1>2, <2>1 DEF CallInv
  <2>3. CASE \E l \in DOMAIN learners : learners[l] = c.name
    <3> DEFINE answer == [c EXCEPT !.op = "taken"]
    <3>1. Reply(t, s, answer) /\ UNCHANGED <<learners, lastLearner>>
      BY <1>5, <2>3 DEF AnswerCreate
    <3>2. ServerTypes' /\ Grows /\ RunsKept
      BY <2>1, <3>1, Still DEF joinServer
    <3>3. answer \in CallsTo(lastLearner, lastRun) /\ answer.op = "taken"
      BY <1>1, <1>3, CallFields DEF Answered, CallsTo
    <3> HIDE DEF answer
    <3>4. CallInv(answer, DOMAIN learners', SafeSet')
      BY <3>3 DEF CallInv
    <3> QED
      BY <2>1, <2>2, <3>1, <3>2, <3>3, <3>4, OneReply
  <2>4. CASE ~\E l \in DOMAIN learners : learners[l] = c.name
    <3> DEFINE answer == [c EXCEPT !.op = "created", !.who = lastLearner + 1]
    <3>1. /\ lastLearner < MaxLearners /\ lastLearner' = lastLearner + 1
          /\ learners' = [l \in DOMAIN learners \cup {lastLearner + 1} |->
                            IF l = lastLearner + 1 THEN c.name ELSE learners[l]]
          /\ Reply(t, s, answer)
      BY <1>5, <2>4 DEF AnswerCreate
    <3>2. c \in CallsTo(lastLearner', lastRun')
      BY <1>1, <2>1, <3>1, TypesGrow
    <3>3. answer \in CallsTo(lastLearner', lastRun') /\ answer.op = "created"
      <4>1. lastLearner + 1 \in 0 .. lastLearner' /\ lastLearner' \in Nat /\ lastRun' \in Nat
        BY <1>1, <2>1, <3>1
      <4>2. answer \in CallsTo(lastLearner', lastRun')
        BY <1>3, <2>1, <3>2, <4>1, CallFields DEF Answered
      <4> QED
        BY <3>2, <4>2 DEF CallsTo
    <3> HIDE DEF answer
    <3>4. ServerTypes'
      <4>1. lastLearner' \in 0 .. MaxLearners
        BY <1>1, <3>1, JoinAssumption DEF ServerTypes
      <4>2. /\ DOMAIN learners' \subseteq 1 .. lastLearner'
            /\ \A l \in DOMAIN learners' : learners'[l] \in LearnerNames
            /\ DOMAIN learners \subseteq DOMAIN learners'
        BY <1>1, <2>2, <3>1 DEF ServerTypes
      <4>3. stored' \in 0 .. lastLearner'
        BY <1>1, <2>1, <3>1 DEF ServerTypes
      <4>4. 1 .. lastLearner \subseteq 1 .. lastLearner'
        BY <1>1, <3>1
      <4>5. parted' \subseteq (1 .. lastLearner') \X {"forgotten", "replaced", "refused", "swept"}
        BY <1>1, <2>1, <4>4 DEF ServerTypes
      <4> QED
        BY <1>1, <2>1, <4>1, <4>2, <4>3, <4>5 DEF ServerTypes
    <3>5. Grows /\ RunsKept
      BY <1>1, <2>1, <3>1 DEF Grows, RunsKept, SafeSet
    <3>6. CallInv(answer, DOMAIN learners', SafeSet')
      BY <3>3 DEF CallInv
    <3> QED
      BY <2>1, <2>2, <3>1, <3>3, <3>4, <3>5, <3>6, OneReply
  <2> QED
    BY <2>3, <2>4
<1>6. CASE CheckStart(t, s)
  <2> DEFINE op == IF c.token # c.who \/ c.who \notin DOMAIN learners THEN "unknown"
                   ELSE IF OpenRunOf(c.who) # NoRun THEN "busy" ELSE "starting"
             answer == [c EXCEPT !.op = op]
  <2>1. ServerTypes' /\ Grows /\ RunsKept /\ SafeSet' = SafeSet /\ UNCHANGED <<joinServer, joinTab>>
    BY <1>6, Still DEF CheckStart, joinServer
  <2>2. c.op = "start" /\ Reply(t, s, answer) /\ s # "resume"
    BY <1>2, <1>6 DEF CheckStart
  <2>3. answer \in CallsTo(lastLearner, lastRun)
    BY <1>1, <1>3, CallFields DEF Answered, Sent
  <2>4. answer.op = op /\ answer.who = c.who /\ answer.token = c.token
    BY <1>1 DEF CallsTo
  <2>5. op = "starting" => c.token = c.who /\ c.who \in DOMAIN learners
    OBVIOUS
  <2>6. op \in {"unknown", "busy", "starting"}
    OBVIOUS
  <2> HIDE DEF answer, c, op
  <2>7. CallInv(answer, DOMAIN learners, SafeSet)
    BY <1>1, <2>2, <2>4, <2>5, <2>6 DEF CallInv
  <2> QED
    BY <2>1, <2>2, <2>3, <2>7, OneReply DEF joinServer
<1>7. CASE InsertRun(t, s)
  <2> DEFINE answer == [c EXCEPT !.op = "started", !.run = lastRun + 1]
  <2>1. /\ c.op = "starting" /\ lastRun < MaxRuns /\ lastRun' = lastRun + 1
        /\ openRuns' = [r \in DOMAIN openRuns \cup {lastRun + 1} |->
                          IF r = lastRun + 1 THEN c.who ELSE openRuns[r]]
        /\ Reply(t, s, answer)
        /\ UNCHANGED <<learners, lastLearner, stored, joinTab, parted>>
    BY <1>7 DEF InsertRun
  <2>2. s # "resume" /\ c.who \in DOMAIN learners /\ c.who \in SafeSet
    BY <1>1, <1>2, <2>1 DEF CallInv
  <2>3. c \in CallsTo(lastLearner', lastRun')
    BY <1>1, <2>1, TypesGrow
  <2>4. answer \in CallsTo(lastLearner', lastRun') /\ answer.op = "started"
    <3>1. lastRun + 1 \in 0 .. lastRun' /\ lastLearner' \in Nat /\ lastRun' \in Nat
      BY <1>1, <2>1
    <3>2. answer \in CallsTo(lastLearner', lastRun')
      BY <1>3, <2>1, <2>3, <3>1, CallFields DEF Answered
    <3> QED
      BY <2>3, <3>2 DEF CallsTo
  <2> HIDE DEF answer, c
  <2>5. ServerTypes'
    BY <1>1, <2>1, <2>2, JoinAssumption DEF ServerTypes
  <2>6. Grows /\ SafeSet' = SafeSet
    BY <1>1, <2>1 DEF Grows, SafeSet
  <2>7. RunsKept
    BY <2>1, <2>2, <2>6 DEF RunsKept
  <2>8. CallInv(answer, DOMAIN learners', SafeSet')
    BY <2>4 DEF CallInv
  <2> QED
    BY <2>1, <2>2, <2>4, <2>5, <2>6, <2>7, <2>8, OneReply
<1> QED
  BY <1>4, <1>5, <1>6, <1>7

\* What a step of a tab starts from.
LEMMA TabFacts ==
    ASSUME JoinInv, NEW t \in Tabs
    PROVE  /\ lastLearner \in Nat /\ lastRun \in Nat /\ ServerTypes /\ "resume" \in Slots
           /\ joinTab \in [Tabs -> TabsTo(lastLearner, lastRun)]
           /\ joinTab[t] \in TabsTo(lastLearner, lastRun)
           /\ call \in [Tabs -> [Slots -> CallsTo(lastLearner, lastRun)]]
           /\ \A s \in Slots : /\ call[t][s] \in CallsTo(lastLearner, lastRun)
                               /\ CallInv(call[t][s], DOMAIN learners, SafeSet)
           /\ TabInv(joinTab[t], call[t]["resume"], DOMAIN learners)
<1>1. /\ joinTab \in [Tabs -> TabsTo(lastLearner, lastRun)]
      /\ call \in [Tabs -> [Slots -> CallsTo(lastLearner, lastRun)]]
      /\ "resume" \in Slots
  BY DEF JoinInv, TypesInv, Slots
<1>2. lastLearner \in Nat /\ lastRun \in Nat /\ ServerTypes
  BY DEF JoinInv, TypesInv, ServerTypes
<1>3. /\ \A s \in Slots : CallInv(call[t][s], DOMAIN learners, SafeSet)
      /\ TabInv(joinTab[t], call[t]["resume"], DOMAIN learners)
  BY DEF JoinInv
<1> QED
  BY <1>1, <1>2, <1>3

\* The pages after one of them changed.
LEMMA OnePage ==
    ASSUME JoinInv, NEW t \in Tabs, NEW tab \in TabsTo(lastLearner, lastRun),
           UNCHANGED <<lastLearner, lastRun>>, joinTab' = [joinTab EXCEPT ![t] = tab]
    PROVE  /\ joinTab' \in [Tabs -> TabsTo(lastLearner', lastRun')]
           /\ joinTab'[t] = tab
           /\ \A u \in Tabs \ {t} : joinTab'[u] = joinTab[u]
BY DEF JoinInv, TypesInv

\* A closed tab and the page of a run hold no identity and have asked nothing.
LEMMA PageTypes ==
    ASSUME NEW n \in Nat, NEW r \in Nat, NEW who \in 0 .. n, NEW run \in 0 .. r
    PROVE  /\ ClosedTab \in TabsTo(n, r) /\ ~ClosedTab.asked
           /\ SessionPage(run) \in TabsTo(n, r) /\ ~SessionPage(run).asked
           /\ [ClosedTab EXCEPT !.page = "join", !.identity = who] \in TabsTo(n, r)
           /\ ~[ClosedTab EXCEPT !.page = "join", !.identity = who].asked
<1>1. ClosedTab \in TabsTo(n, r) /\ ~ClosedTab.asked
  BY DEF ClosedTab, TabsTo, NoOne, NoRun
<1>2. SessionPage(run) \in TabsTo(n, r) /\ ~SessionPage(run).asked
  <2> DEFINE one == [ClosedTab EXCEPT !.page = "session"]
             two == [one EXCEPT !.run = run]
  <2>1. one \in TabsTo(n, r) /\ ~one.asked
    BY <1>1 DEF TabsTo
  <2>2. two \in TabsTo(n, r) /\ ~two.asked
    BY <2>1 DEF TabsTo
  <2>3. SessionPage(run) = two
    BY <1>1 DEF SessionPage, TabsTo
  <2> QED
    BY <2>2, <2>3
<1>3. /\ [ClosedTab EXCEPT !.page = "join", !.identity = who] \in TabsTo(n, r)
      /\ ~[ClosedTab EXCEPT !.page = "join", !.identity = who].asked
  <2> DEFINE one == [ClosedTab EXCEPT !.page = "join"]
             two == [one EXCEPT !.identity = who]
  <2>1. one \in TabsTo(n, r) /\ ~one.asked
    BY <1>1 DEF TabsTo
  <2>2. two \in TabsTo(n, r) /\ ~two.asked
    BY <2>1 DEF TabsTo
  <2>3. two = [ClosedTab EXCEPT !.page = "join", !.identity = who]
    BY <1>1 DEF TabsTo
  <2> QED
    BY <2>2, <2>3
<1> QED
  BY <1>1, <1>2, <1>3

\* The steps of a tab that ask who the learner is, and hear the answer, keep
\* the invariant.
LEMMA IdentitySteps ==
    ASSUME JoinInv, NEW t \in Tabs,
           \/ MountJoin(t) \/ AskWho(t) \/ Recognised(t) \/ Refused(t)
           \/ ForgetIdentity(t) \/ ResumeSession(t)
    PROVE  JoinInv'
<1> DEFINE c == call[t]["resume"]
           tab == joinTab[t]
<1>1. /\ lastLearner \in Nat /\ lastRun \in Nat /\ ServerTypes /\ "resume" \in Slots
      /\ tab \in TabsTo(lastLearner, lastRun) /\ c \in CallsTo(lastLearner, lastRun)
      /\ CallInv(c, DOMAIN learners, SafeSet) /\ TabInv(tab, c, DOMAIN learners)
  BY TabFacts
<1>2. /\ NoCall \in CallsTo(lastLearner, lastRun) /\ NoCall.op = "none"
      /\ \A known, safe : CallInv(NoCall, known, safe)
  BY <1>1, NoCallType
<1>3. CASE MountJoin(t)
  <2> DEFINE new == [ClosedTab EXCEPT !.page = "join", !.identity = stored]
  <2>1. /\ tab.page = "closed" /\ joinTab' = [joinTab EXCEPT ![t] = new]
        /\ UNCHANGED <<joinServer, stored, call, parted>>
    BY <1>3 DEF MountJoin
  <2>2. ServerTypes' /\ Grows /\ RunsKept /\ UNCHANGED joinServer
    BY <2>1, Still
  <2>3. new \in TabsTo(lastLearner, lastRun) /\ ~new.asked
    <3>1. stored \in 0 .. lastLearner /\ 0 \in 0 .. lastRun
      BY <1>1 DEF ServerTypes
    <3> QED
      BY <1>1, <3>1, PageTypes
  <2> HIDE DEF new
  <2>4. /\ joinTab' \in [Tabs -> TabsTo(lastLearner', lastRun')]
        /\ joinTab'[t] = new /\ \A u \in Tabs \ {t} : joinTab'[u] = joinTab[u]
    BY <2>1, <2>2, <2>3, OnePage DEF joinServer
  <2>5. c.op = "none"
    BY <1>1, <2>1 DEF TabInv
  <2>6. call' \in [Tabs -> [Slots -> CallsTo(lastLearner', lastRun')]]
    BY <2>1, <2>2, TabFacts DEF joinServer
  <2> QED
    BY <2>1, <2>2, <2>3, <2>4, <2>5, <2>6, PageGone
<1>4. CASE AskWho(t)
  <2> DEFINE new == [tab EXCEPT !.asked = TRUE]
             answer == [NoCall EXCEPT !.op = "resume", !.who = tab.identity]
  <2>1. /\ tab.page = "join" /\ tab.identity # NoOne
        /\ joinTab' = [joinTab EXCEPT ![t] = new] /\ Reply(t, "resume", answer)
        /\ UNCHANGED <<joinServer, stored, parted>>
    BY <1>4 DEF AskWho
  <2>2. ServerTypes' /\ Grows /\ RunsKept /\ UNCHANGED joinServer
    BY <2>1, Still
  <2>3. new \in TabsTo(lastLearner, lastRun)
    BY <1>1 DEF TabsTo
  <2>4. new.asked /\ new.page = "join" /\ new.identity = tab.identity
    BY <1>1, <2>1 DEF TabsTo
  <2>5. answer \in CallsTo(lastLearner, lastRun)
    <3>1. tab.identity \in 0 .. lastLearner /\ 0 \in 0 .. lastRun
      BY <1>1 DEF TabsTo
    <3>2. "resume" \in {"none"} \cup Sent \cup Answered
      BY DEF Sent
    <3> HIDE DEF tab
    <3> QED
      BY <1>1, <1>2, <3>1, <3>2, CallFields
  <2>6. answer.op = "resume" /\ answer.who = tab.identity
    BY DEF NoCall
  <2> HIDE DEF new, answer
  <2>7. CallInv(answer, DOMAIN learners', SafeSet')
    BY <2>6 DEF CallInv
  <2>8. TabInv(new, answer, DOMAIN learners')
    BY <2>1, <2>4, <2>6 DEF TabInv
  <2>9. /\ joinTab' \in [Tabs -> TabsTo(lastLearner', lastRun')]
        /\ joinTab'[t] = new /\ \A u \in Tabs \ {t} : joinTab'[u] = joinTab[u]
    BY <2>1, <2>2, <2>3, OnePage DEF joinServer
  <2> QED
    BY <1>1, <2>1, <2>2, <2>5, <2>7, <2>8, <2>9, ReplyAndPage DEF joinServer
<1>5. CASE Recognised(t)
  <2> DEFINE one == [tab EXCEPT !.known = TRUE]
             new == [one EXCEPT !.active = c.run]
  <2>1. /\ c.op = "recognised" /\ Reply(t, "resume", NoCall)
        /\ joinTab' = [joinTab EXCEPT ![t].known = TRUE, ![t].active = c.run]
        /\ UNCHANGED <<joinServer, stored, parted>>
    BY <1>5 DEF Recognised
  <2>2. ServerTypes' /\ Grows /\ RunsKept /\ UNCHANGED joinServer
    BY <2>1, Still
  <2>3. joinTab' = [joinTab EXCEPT ![t] = new]
    BY <1>1, <2>1 DEF JoinInv, TypesInv, TabsTo
  <2>4. one \in TabsTo(lastLearner, lastRun) /\ c.run \in 0 .. lastRun
    BY <1>1 DEF TabsTo, CallsTo
  <2>5. new \in TabsTo(lastLearner, lastRun)
    BY <2>4 DEF TabsTo
  <2>6. new.identity = tab.identity
    BY <1>1 DEF TabsTo
  <2> HIDE DEF new, one
  <2>7. tab.identity \in DOMAIN learners
    BY <1>1, <2>1 DEF TabInv
  <2>8. TabInv(new, NoCall, DOMAIN learners')
    BY <1>2, <2>2, <2>6, <2>7 DEF TabInv, joinServer
  <2>9. /\ joinTab' \in [Tabs -> TabsTo(lastLearner', lastRun')]
        /\ joinTab'[t] = new /\ \A u \in Tabs \ {t} : joinTab'[u] = joinTab[u]
    BY <2>2, <2>3, <2>5, OnePage DEF joinServer
  <2> QED
    BY <1>1, <1>2, <2>1, <2>2, <2>8, <2>9, ReplyAndPage DEF joinServer
<1>6. CASE Refused(t)
  <2> DEFINE new == [tab EXCEPT !.identity = NoOne]
             why == IF stored = c.who THEN "refused" ELSE "swept"
  <2>1. /\ c.op = "refused" /\ Reply(t, "resume", NoCall) /\ stored' = NoOne
        /\ joinTab' = [joinTab EXCEPT ![t] = new] /\ Part(why) /\ UNCHANGED joinServer
    BY <1>6 DEF Refused
  <2>2. c.who \notin DOMAIN learners
    BY <1>1, <2>1 DEF CallInv
  <2>3. why \in {"forgotten", "replaced", "refused", "swept"}
        /\ (why = "refused" => stored \notin DOMAIN learners)
    BY <2>2
  <2> HIDE DEF why
  <2>4. ServerTypes' /\ Grows /\ RunsKept
    BY <1>1, <2>1, <2>3, Parted DEF NoOne
  <2>5. new \in TabsTo(lastLearner, lastRun) /\ new.identity = NoOne
    <3>1. NoOne \in 0 .. lastLearner
      BY <1>1 DEF NoOne
    <3> HIDE DEF tab
    <3> QED
      BY <1>1, <3>1 DEF TabsTo
  <2> HIDE DEF new
  <2>6. TabInv(new, NoCall, DOMAIN learners')
    BY <1>2, <2>5 DEF TabInv
  <2>7. /\ joinTab' \in [Tabs -> TabsTo(lastLearner', lastRun')]
        /\ joinTab'[t] = new /\ \A u \in Tabs \ {t} : joinTab'[u] = joinTab[u]
    BY <2>1, <2>5, OnePage DEF joinServer
  <2> QED
    BY <1>1, <1>2, <2>1, <2>4, <2>6, <2>7, ReplyAndPage DEF joinServer
<1>7. CASE ForgetIdentity(t)
  <2> DEFINE one == [tab EXCEPT !.identity = NoOne]
             two == [one EXCEPT !.known = FALSE]
             three == [two EXCEPT !.trouble = FALSE]
             new == [three EXCEPT !.active = NoRun]
  <2>1. /\ Reply(t, "resume", NoCall) /\ stored' = NoOne
        /\ joinTab' = [joinTab EXCEPT ![t].identity = NoOne, ![t].known = FALSE,
                                      ![t].trouble = FALSE, ![t].active = NoRun]
        /\ Part("forgotten") /\ UNCHANGED joinServer
    BY <1>7 DEF ForgetIdentity
  <2>2. ServerTypes' /\ Grows /\ RunsKept
    BY <1>1, <2>1, Parted DEF NoOne
  <2>3. joinTab' = [joinTab EXCEPT ![t] = new]
    BY <1>1, <2>1 DEF JoinInv, TypesInv, TabsTo
  <2>4. one \in TabsTo(lastLearner, lastRun) /\ one.identity = NoOne
    BY <1>1 DEF TabsTo, NoOne
  <2>5. two \in TabsTo(lastLearner, lastRun) /\ two.identity = NoOne
    BY <2>4 DEF TabsTo
  <2>6. three \in TabsTo(lastLearner, lastRun) /\ three.identity = NoOne
    BY <2>5 DEF TabsTo
  <2>7. new \in TabsTo(lastLearner, lastRun) /\ new.identity = NoOne
    <3>1. NoRun \in 0 .. lastRun
      BY <1>1 DEF NoRun
    <3> HIDE DEF three
    <3> QED
      BY <2>6, <3>1 DEF TabsTo
  <2> HIDE DEF new, one, two, three
  <2>8. TabInv(new, NoCall, DOMAIN learners')
    BY <1>2, <2>7 DEF TabInv
  <2>9. /\ joinTab' \in [Tabs -> TabsTo(lastLearner', lastRun')]
        /\ joinTab'[t] = new /\ \A u \in Tabs \ {t} : joinTab'[u] = joinTab[u]
    BY <2>1, <2>3, <2>7, OnePage DEF joinServer
  <2> QED
    BY <1>1, <1>2, <2>1, <2>2, <2>8, <2>9, ReplyAndPage DEF joinServer
<1>8. CASE ResumeSession(t)
  <2> DEFINE new == SessionPage(tab.active)
  <2>1. /\ joinTab' = [joinTab EXCEPT ![t] = new] /\ Reply(t, "resume", NoCall)
        /\ UNCHANGED <<joinServer, stored, parted>>
    BY <1>8 DEF ResumeSession
  <2>2. ServerTypes' /\ Grows /\ RunsKept /\ UNCHANGED joinServer
    BY <2>1, Still
  <2>3. new \in TabsTo(lastLearner, lastRun) /\ ~new.asked
    <3>1. tab.active \in 0 .. lastRun
      BY <1>1 DEF TabsTo
    <3>2. 0 \in 0 .. lastLearner
      BY <1>1
    <3> QED
      BY <1>1, <3>1, <3>2, PageTypes
  <2> HIDE DEF new
  <2>4. TabInv(new, NoCall, DOMAIN learners')
    BY <1>2, <2>3 DEF TabInv
  <2>5. /\ joinTab' \in [Tabs -> TabsTo(lastLearner', lastRun')]
        /\ joinTab'[t] = new /\ \A u \in Tabs \ {t} : joinTab'[u] = joinTab[u]
    BY <2>1, <2>2, <2>3, OnePage DEF joinServer
  <2> QED
    BY <1>1, <1>2, <2>1, <2>2, <2>4, <2>5, ReplyAndPage DEF joinServer
<1> QED
  BY <1>3, <1>4, <1>5, <1>6, <1>7, <1>8

\* The steps of a flow, and of a page that goes, keep the invariant.
LEMMA FlowSteps ==
    ASSUME JoinInv, NEW t \in Tabs, NEW s \in Slots,
           \/ GoToRun(t, s) \/ ResolveConflict(t, s) \/ ShowRefusal(t, s)
           \/ Enrolled(t, s) \/ LoseReply(t, s)
    PROVE  JoinInv'
<1> DEFINE c == call[t][s]
           tab == joinTab[t]
<1>1. /\ lastLearner \in Nat /\ lastRun \in Nat /\ ServerTypes /\ "resume" \in Slots
      /\ tab \in TabsTo(lastLearner, lastRun) /\ c \in CallsTo(lastLearner, lastRun)
      /\ CallInv(c, DOMAIN learners, SafeSet)
      /\ TabInv(tab, call[t]["resume"], DOMAIN learners)
      /\ call[t]["resume"] \in CallsTo(lastLearner, lastRun)
  BY TabFacts
<1>2. /\ NoCall \in CallsTo(lastLearner, lastRun) /\ NoCall.op = "none"
      /\ \A known, safe : CallInv(NoCall, known, safe)
  BY <1>1, NoCallType
<1>3. c.op \notin {"none", "resume", "recognised", "refused"} => s # "resume"
  BY <1>1 DEF TabInv
<1>4. c.who \in 0 .. lastLearner /\ c.run \in 0 .. lastRun /\ c.token \in 0 .. lastLearner
  BY <1>1 DEF CallsTo
<1>5. CASE GoToRun(t, s)
  <2> DEFINE new == SessionPage(c.run)
  <2>1. /\ c.op \in {"started", "resolved"} /\ joinTab' = [joinTab EXCEPT ![t] = new]
        /\ call' = [call EXCEPT ![t][s] = NoCall, ![t]["resume"] = NoCall]
        /\ UNCHANGED <<joinServer, stored, parted>>
    BY <1>5 DEF GoToRun
  <2>2. ServerTypes' /\ Grows /\ RunsKept /\ UNCHANGED joinServer
    BY <2>1, Still
  <2>3. new \in TabsTo(lastLearner, lastRun) /\ ~new.asked
    <3>1. 0 \in 0 .. lastLearner
      BY <1>1
    <3> QED
      BY <1>1, <1>4, <3>1, PageTypes
  <2> HIDE DEF new
  <2>4. /\ joinTab' \in [Tabs -> TabsTo(lastLearner', lastRun')]
        /\ joinTab'[t] = new /\ \A u \in Tabs \ {t} : joinTab'[u] = joinTab[u]
    BY <2>1, <2>2, <2>3, OnePage DEF joinServer
  <2>5. call \in [Tabs -> [Slots -> CallsTo(lastLearner, lastRun)]]
    BY TabFacts
  <2>6. /\ call' \in [Tabs -> [Slots -> CallsTo(lastLearner', lastRun')]]
        /\ \A u \in Tabs \ {t} : call'[u] = call[u]
        /\ \A v \in Slots : call'[t][v] \in {call[t][v], NoCall}
        /\ call'[t]["resume"] = NoCall
    BY <1>1, <1>2, <2>1, <2>2, <2>5 DEF joinServer
  <2> QED
    BY <1>2, <2>2, <2>3, <2>4, <2>6, PageGone
<1>6. CASE ResolveConflict(t, s)
  <2>1. /\ c.op = "busy" /\ s # "resume" /\ UNCHANGED <<joinServer, stored, parted>>
    BY <1>3, <1>6 DEF ResolveConflict
  <2>2. ServerTypes' /\ Grows /\ RunsKept /\ UNCHANGED joinServer
    BY <2>1, Still
  <2>3. CASE c.name = ""
    <3> DEFINE answer == [c EXCEPT !.op = "resolve"]
               one == [tab EXCEPT !.known = FALSE]
               new == [one EXCEPT !.active = NoRun]
    <3>1. /\ Reply(t, s, answer)
          /\ joinTab' = [joinTab EXCEPT ![t].known = FALSE, ![t].active = NoRun]
      BY <1>6, <2>3 DEF ResolveConflict
    <3>2. joinTab' = [joinTab EXCEPT ![t] = new]
      BY <1>1, <3>1 DEF JoinInv, TypesInv, TabsTo
    <3>3. one \in TabsTo(lastLearner, lastRun)
      BY <1>1 DEF TabsTo
    <3>4. new \in TabsTo(lastLearner, lastRun)
      <4>1. NoRun \in 0 .. lastRun
        BY <1>1 DEF NoRun
      <4> HIDE DEF one
      <4> QED
        BY <3>3, <4>1 DEF TabsTo
    <3>5. /\ new.page = tab.page /\ new.identity = tab.identity
          /\ new.asked = tab.asked /\ new.trouble = tab.trouble
      BY <1>1 DEF TabsTo
    <3>6. answer \in CallsTo(lastLearner, lastRun)
      <4>1. "resolve" \in {"none"} \cup Sent \cup Answered
        BY DEF Sent
      <4> HIDE DEF c
      <4> QED
        BY <1>1, <1>4, <4>1, CallFields
    <3>7. answer.op = "resolve"
      BY <1>1 DEF CallsTo
    <3> HIDE DEF answer, one, new
    <3>8. CallInv(answer, DOMAIN learners', SafeSet')
      BY <3>7 DEF CallInv
    <3>9. TabInv(new, call[t]["resume"], DOMAIN learners')
      BY <1>1, <2>2, <3>5 DEF TabInv, joinServer
    <3>10. /\ joinTab' \in [Tabs -> TabsTo(lastLearner', lastRun')]
           /\ joinTab'[t] = new /\ \A u \in Tabs \ {t} : joinTab'[u] = joinTab[u]
      BY <2>2, <3>2, <3>4, OnePage DEF joinServer
    <3> QED
      BY <2>1, <2>2, <3>1, <3>6, <3>8, <3>9, <3>10, ReplyAndPage DEF joinServer
  <2>4. CASE c.name # ""
    <3>1. Reply(t, s, NoCall) /\ joinTab' = joinTab
      BY <1>6, <2>4 DEF ResolveConflict
    <3> QED
      BY <1>2, <2>1, <2>2, <3>1, OneReply DEF joinServer
  <2> QED
    BY <2>3, <2>4
<1>7. CASE ShowRefusal(t, s)
  <2> DEFINE over == c.op = "resolved" /\ c.run = NoRun
             now == tab.known \/ (over /\ tab.page = "join" /\ tab.identity = c.who)
             new == [tab EXCEPT !.known = now]
  <2>1. /\ s \in Flows /\ Reply(t, s, NoCall) /\ UNCHANGED <<joinServer, stored, parted>>
        /\ joinTab' = [joinTab EXCEPT ![t].known = @ \/ (over /\ joinTab[t].page = "join"
                                                     /\ joinTab[t].identity = c.who)]
    BY <1>7 DEF ShowRefusal
  <2>2. ServerTypes' /\ Grows /\ RunsKept /\ UNCHANGED joinServer
    BY <2>1, Still
  <2>3. s # "resume"
    BY <2>1, JoinAssumption
  <2>4. joinTab' = [joinTab EXCEPT ![t] = new]
    BY <2>1
  <2>5. now \in BOOLEAN
    BY <1>1 DEF TabsTo
  <2> HIDE DEF now
  <2>6. new \in TabsTo(lastLearner, lastRun)
    BY <1>1, <2>5 DEF TabsTo
  <2>7. /\ new.page = tab.page /\ new.identity = tab.identity
        /\ new.asked = tab.asked /\ new.trouble = tab.trouble
    BY <1>1 DEF TabsTo
  <2> HIDE DEF new
  <2>8. TabInv(new, call[t]["resume"], DOMAIN learners')
    BY <1>1, <2>2, <2>7 DEF TabInv, joinServer
  <2>9. /\ joinTab' \in [Tabs -> TabsTo(lastLearner', lastRun')]
        /\ joinTab'[t] = new /\ \A u \in Tabs \ {t} : joinTab'[u] = joinTab[u]
    BY <2>2, <2>4, <2>6, OnePage DEF joinServer
  <2> QED
    BY <1>2, <2>1, <2>2, <2>3, <2>8, <2>9, ReplyAndPage DEF joinServer
<1>8. CASE Enrolled(t, s)
  <2> DEFINE answer == [c EXCEPT !.op = "start", !.token = c.who]
  <2>1. /\ c.op = "created" /\ s # "resume" /\ Part("replaced") /\ stored' = c.who
        /\ Reply(t, s, answer) /\ UNCHANGED <<joinServer, joinTab>>
    BY <1>3, <1>8 DEF Enrolled
  <2>2. /\ ServerTypes' /\ Grows /\ RunsKept
        /\ c.who \in DOMAIN learners => c.who \in SafeSet'
    BY <1>4, <2>1, Parted
  <2>3. answer \in CallsTo(lastLearner, lastRun)
    <3>1. "start" \in {"none"} \cup Sent \cup Answered
      BY DEF Sent
    <3> HIDE DEF c
    <3> QED
      BY <1>1, <1>4, <3>1, CallFields
  <2>4. answer.op = "start" /\ answer.who = c.who
    BY <1>1 DEF CallsTo
  <2> HIDE DEF answer
  <2>5. CallInv(answer, DOMAIN learners', SafeSet')
    BY <2>1, <2>2, <2>4 DEF CallInv, joinServer
  <2> QED
    BY <2>1, <2>2, <2>3, <2>5, OneReply DEF joinServer
<1>9. CASE LoseReply(t, s)
  <2> DEFINE now == tab.trouble \/ s = "resume"
             new == [tab EXCEPT !.trouble = now]
  <2>1. /\ Reply(t, s, NoCall) /\ UNCHANGED <<joinServer, stored, parted>>
        /\ joinTab' = [joinTab EXCEPT ![t].trouble = @ \/ s = "resume"]
    BY <1>9 DEF LoseReply
  <2>2. ServerTypes' /\ Grows /\ RunsKept /\ UNCHANGED joinServer
    BY <2>1, Still
  <2>3. joinTab' = [joinTab EXCEPT ![t] = new]
    BY <2>1
  <2>4. now \in BOOLEAN /\ (s = "resume" => now) /\ (tab.trouble => now)
    BY <1>1 DEF TabsTo
  <2> HIDE DEF now
  <2>5. new \in TabsTo(lastLearner, lastRun)
    BY <1>1, <2>4 DEF TabsTo
  <2>6. /\ new.page = tab.page /\ new.identity = tab.identity
        /\ new.asked = tab.asked /\ new.trouble = now
    BY <1>1 DEF TabsTo
  <2> HIDE DEF new
  <2>7. CASE s = "resume"
    <3>1. TabInv(new, NoCall, DOMAIN learners')
      BY <1>2, <2>4, <2>6, <2>7 DEF TabInv
    <3>2. /\ joinTab' \in [Tabs -> TabsTo(lastLearner', lastRun')]
          /\ joinTab'[t] = new /\ \A u \in Tabs \ {t} : joinTab'[u] = joinTab[u]
      BY <2>2, <2>3, <2>5, OnePage DEF joinServer
    <3> QED
      BY <1>2, <2>1, <2>2, <2>7, <3>1, <3>2, ReplyAndPage DEF joinServer
  <2>8. CASE s # "resume"
    <3>1. TabInv(new, call[t]["resume"], DOMAIN learners')
      BY <1>1, <2>2, <2>4, <2>6 DEF TabInv, joinServer
    <3>2. /\ joinTab' \in [Tabs -> TabsTo(lastLearner', lastRun')]
          /\ joinTab'[t] = new /\ \A u \in Tabs \ {t} : joinTab'[u] = joinTab[u]
      BY <2>2, <2>3, <2>5, OnePage DEF joinServer
    <3> QED
      BY <1>2, <2>1, <2>2, <2>8, <3>1, <3>2, ReplyAndPage DEF joinServer
  <2> QED
    BY <2>7, <2>8
<1> QED
  BY <1>5, <1>6, <1>7, <1>8, <1>9

\* A flow that starts keeps the invariant: what it sends is the stored token.
LEMMA StartSteps ==
    ASSUME JoinInv, NEW t \in Tabs, NEW s \in Flows,
           ContinueTraining(t, s) \/ \E n \in LearnerNames : SubmitForm(t, s, n)
    PROVE  JoinInv'
<1> DEFINE tab == joinTab[t]
<1>1. /\ lastLearner \in Nat /\ lastRun \in Nat /\ ServerTypes
      /\ tab \in TabsTo(lastLearner, lastRun)
  BY TabFacts
<1>2. NoCall \in CallsTo(lastLearner, lastRun)
  BY <1>1, NoCallType
<1>3. s \in Slots /\ s # "resume"
  BY JoinAssumption DEF Slots
<1>4. UNCHANGED <<joinServer, stored, parted>> /\ joinTab' = joinTab
  BY DEF ContinueTraining, SubmitForm
<1>5. ServerTypes' /\ Grows /\ RunsKept /\ UNCHANGED joinServer /\ SafeSet' = SafeSet
  BY <1>4, Still
<1>6. CASE ContinueTraining(t, s)
  <2> DEFINE one == [NoCall EXCEPT !.op = "start", !.who = tab.identity]
             answer == [one EXCEPT !.token = stored]
  <2>1. Reply(t, s, answer)
    <3>1. [NoCall EXCEPT !.op = "start", !.who = tab.identity, !.token = stored] = answer
      BY DEF NoCall
    <3> QED
      BY <1>6, <3>1 DEF ContinueTraining
  <2>2. one \in CallsTo(lastLearner, lastRun)
    <3>1. tab.identity \in 0 .. lastLearner /\ 0 \in 0 .. lastRun
      BY <1>1 DEF TabsTo
    <3>2. "start" \in {"none"} \cup Sent \cup Answered
      BY DEF Sent
    <3> HIDE DEF tab
    <3> QED
      BY <1>1, <1>2, <3>1, <3>2, CallFields
  <2>3. answer \in CallsTo(lastLearner, lastRun)
    <3>1. stored \in 0 .. lastLearner
      BY <1>1 DEF ServerTypes
    <3> HIDE DEF one
    <3> QED
      BY <2>2, <3>1 DEF CallsTo
  <2>4. answer.op = "start" /\ answer.token = stored
    BY DEF NoCall
  <2> HIDE DEF answer, one
  <2>5. CallInv(answer, DOMAIN learners', SafeSet')
    BY <1>4, <1>5, <2>4 DEF CallInv, SafeSet, joinServer
  <2> QED
    BY <1>3, <1>4, <1>5, <2>1, <2>3, <2>5, OneReply DEF joinServer
<1>7. ASSUME NEW n \in LearnerNames, SubmitForm(t, s, n) PROVE JoinInv'
  <2> DEFINE answer == [NoCall EXCEPT !.op = "create", !.name = n]
  <2>1. Reply(t, s, answer)
    BY <1>7 DEF SubmitForm
  <2>2. answer \in CallsTo(lastLearner, lastRun)
    <3> DEFINE one == [NoCall EXCEPT !.op = "create"]
               two == [one EXCEPT !.name = n]
    <3>1. one \in CallsTo(lastLearner, lastRun)
      <4>1. "create" \in {"none"} \cup Sent \cup Answered
        BY DEF Sent
      <4> QED
        BY <1>2, <4>1 DEF CallsTo
    <3>2. two = answer
      BY DEF NoCall
    <3> HIDE DEF one, answer
    <3> QED
      BY <3>1, <3>2 DEF CallsTo
  <2>3. answer.op = "create" /\ answer.name = n
    BY DEF NoCall
  <2> HIDE DEF answer
  <2>4. CallInv(answer, DOMAIN learners', SafeSet')
    BY <2>3 DEF CallInv
  <2> QED
    BY <1>3, <1>4, <1>5, <2>1, <2>2, <2>4, OneReply DEF joinServer
<1> QED
  BY <1>6, <1>7

\* A run that is ended, and a tab that is closed, keep the invariant.
LEMMA ClosingSteps ==
    ASSUME JoinInv, NEW t \in Tabs, EndRun(t) \/ CloseTab(t)
    PROVE  JoinInv'
<1> DEFINE c == call[t]["resume"]
           tab == joinTab[t]
<1>1. /\ lastLearner \in Nat /\ lastRun \in Nat /\ ServerTypes /\ "resume" \in Slots
      /\ call \in [Tabs -> [Slots -> CallsTo(lastLearner, lastRun)]]
      /\ TabInv(tab, c, DOMAIN learners)
  BY TabFacts
<1>2. NoCall \in CallsTo(lastLearner, lastRun) /\ NoCall.op = "none"
  BY <1>1, NoCallType
<1>3. ClosedTab \in TabsTo(lastLearner, lastRun) /\ ~ClosedTab.asked
  <2>1. 0 \in 0 .. lastLearner /\ 0 \in 0 .. lastRun
    BY <1>1
  <2> QED
    BY <1>1, <2>1, PageTypes
<1>4. /\ joinTab' = [joinTab EXCEPT ![t] = ClosedTab]
      /\ UNCHANGED <<learners, lastLearner, lastRun, stored, parted>>
  BY DEF EndRun, CloseTab, joinServer
<1>5. /\ joinTab' \in [Tabs -> TabsTo(lastLearner', lastRun')]
      /\ joinTab'[t] = ClosedTab /\ \A u \in Tabs \ {t} : joinTab'[u] = joinTab[u]
  BY <1>3, <1>4, OnePage
<1>6. CASE EndRun(t)
  <2>1. /\ tab.page = "session" /\ call' = call
        /\ openRuns' = [q \in DOMAIN openRuns \ {tab.run} |-> openRuns[q]]
    BY <1>6 DEF EndRun
  <2>2. c.op = "none"
    BY <1>1, <2>1 DEF TabInv
  <2>3. SafeSet' = SafeSet
    BY <1>4 DEF SafeSet
  <2>4. ServerTypes' /\ Grows /\ RunsKept
    BY <1>1, <1>4, <2>1, <2>3 DEF ServerTypes, Grows, RunsKept
  <2>5. call' \in [Tabs -> [Slots -> CallsTo(lastLearner', lastRun')]]
    BY <1>1, <1>4, <2>1
  <2> QED
    BY <1>3, <1>5, <2>1, <2>2, <2>4, <2>5, PageGone
<1>7. CASE CloseTab(t)
  <2>1. /\ call' = [call EXCEPT ![t] = [s \in Slots |-> NoCall]]
        /\ UNCHANGED <<joinServer, stored, parted>>
    BY <1>7 DEF CloseTab
  <2>2. ServerTypes' /\ Grows /\ RunsKept
    BY <2>1, Still
  <2>3. /\ call' \in [Tabs -> [Slots -> CallsTo(lastLearner', lastRun')]]
        /\ \A u \in Tabs \ {t} : call'[u] = call[u]
        /\ \A v \in Slots : call'[t][v] = NoCall
    BY <1>1, <1>2, <1>4, <2>1
  <2> QED
    BY <1>1, <1>2, <1>3, <1>5, <2>2, <2>3, PageGone
<1> QED
  BY <1>6, <1>7
-----------------------------------------------------------------------------
LEMMA JoinInvInit == JoinInit => JoinInv
<1> SUFFICES ASSUME JoinInit PROVE JoinInv
  OBVIOUS
<1>1. /\ lastLearner \in {0, 1} /\ stored = lastLearner /\ lastRun = 0
      /\ DOMAIN learners \subseteq 1 .. lastLearner
      /\ \A l \in DOMAIN learners : learners[l] \in LearnerNames
      /\ DOMAIN openRuns = {} /\ parted = {}
      /\ joinTab = [t \in Tabs |-> ClosedTab]
      /\ call = [t \in Tabs |-> [s \in Slots |-> NoCall]]
  BY DEF JoinInit
<1>2. ServerTypes
  BY <1>1, JoinAssumption DEF ServerTypes
<1>3. lastLearner \in Nat /\ lastRun \in Nat /\ "resume" \in Slots
  BY <1>1 DEF Slots
<1>4. /\ NoCall \in CallsTo(lastLearner, lastRun) /\ NoCall.op = "none"
      /\ \A known, safe : CallInv(NoCall, known, safe)
  BY <1>3, NoCallType
<1>5. ClosedTab \in TabsTo(lastLearner, lastRun) /\ ~ClosedTab.asked
  <2>1. 0 \in 0 .. lastLearner /\ 0 \in 0 .. lastRun
    BY <1>3
  <2> QED
    BY <1>3, <2>1, PageTypes
<1>6. TypesInv
  BY <1>1, <1>2, <1>4, <1>5 DEF TypesInv
<1>7. \A t \in Tabs : TabInv(joinTab[t], call[t]["resume"], DOMAIN learners)
  BY <1>1, <1>3, <1>4, <1>5 DEF TabInv
<1> QED
  BY <1>1, <1>4, <1>6, <1>7 DEF JoinInv

LEMMA JoinInvStep == JoinInv /\ [JoinNext]_joinVars => JoinInv'
<1> SUFFICES ASSUME JoinInv, [JoinNext]_joinVars PROVE JoinInv'
  OBVIOUS
<1>1. CASE UNCHANGED joinVars
  BY <1>1 DEF joinVars, JoinInv, TypesInv, ServerTypes, SafeSet
<1>2. CASE JoinNext
  <2>1. PICK t \in Tabs :
        \/ MountJoin(t) \/ AskWho(t) \/ Recognised(t) \/ Refused(t)
        \/ ForgetIdentity(t) \/ ResumeSession(t)
        \/ EndRun(t) \/ CloseTab(t)
        \/ \E s \in Slots : Delivered(t, s) \/ LoseReply(t, s)
        \/ \E s \in Flows : ContinueTraining(t, s) \/ \E n \in LearnerNames : SubmitForm(t, s, n)
    BY <1>2 DEF JoinNext
  <2>2. CASE \/ MountJoin(t) \/ AskWho(t) \/ Recognised(t) \/ Refused(t)
             \/ ForgetIdentity(t) \/ ResumeSession(t)
    BY <2>2, IdentitySteps
  <2>3. CASE EndRun(t) \/ CloseTab(t)
    BY <2>3, ClosingSteps
  <2>4. ASSUME NEW s \in Slots, Delivered(t, s) \/ LoseReply(t, s) PROVE JoinInv'
    BY <2>4, ServerSteps, FlowSteps DEF Delivered
  <2>5. ASSUME NEW s \in Flows,
               ContinueTraining(t, s) \/ \E n \in LearnerNames : SubmitForm(t, s, n)
        PROVE  JoinInv'
    BY <2>5, StartSteps
  <2> QED
    BY <2>1, <2>2, <2>3, <2>4, <2>5
<1> QED
  BY <1>1, <1>2

THEOREM JoinHolds == JoinSpec => []JoinInv
BY JoinInvInit, JoinInvStep, PTL DEF JoinSpec

\* The types of the whole state, server and browser.
THEOREM JoinTypes == JoinSpec => []JoinTypeOK
<1>1. JoinInv => JoinTypeOK
  BY DEF JoinInv, TypesInv, ServerTypes, JoinTypeOK, CallsTo, TabsTo
<1> QED
  BY <1>1, JoinHolds, PTL

\* However many tabs and flows race, a learner whose run is open has the stored
\* identity, or lost it in a way the page can name.
THEOREM RunnersReturn == JoinSpec => []RunnerCanReturn
<1>1. JoinInv => RunnerCanReturn
  BY DEF JoinInv, SafeSet, RunnerCanReturn
<1> QED
  BY <1>1, JoinHolds, PTL

\* No page goes on greeting a learner that does not exist.
THEOREM StaleGivesWay == JoinSpec => []StaleIdentityGivesWay
<1>1. JoinInv => StaleIdentityGivesWay
  BY DEF JoinInv, TabInv, StaleIdentityGivesWay
<1> QED
  BY <1>1, JoinHolds, PTL

-----------------------------------------------------------------------------
(***************************************************************************)
(* The query cache.  What its rules keep is said of one query and one      *)
(* mutation that changed what it reads; that the reply of the mutation     *)
(* refreshes the query is read off the tables, fact by fact.               *)
(***************************************************************************)
\* A query of a name and a key.
Is(q, name, key) == q.name = name /\ q.key = key

\* Which queries read a fact.
ReadersAre(q) ==
    /\ "user" \in q.reads =>
         \/ Is(q, "me", <<"auth", "me">>) \/ Is(q, "courses", <<"courses", "list">>)
         \/ Is(q, "coursesOverview", <<"courses", "overview">>)
    /\ "verified" \in q.reads =>
         \/ Is(q, "me", <<"auth", "me">>)
    /\ "course" \in q.reads =>
         \/ Is(q, "courses", <<"courses", "list">>) \/ Is(q, "course", <<"courses", "detail">>)
         \/ Is(q, "coursesOverview", <<"courses", "overview">>)
    /\ "book" \in q.reads =>
         \/ Is(q, "coursesOverview", <<"courses", "overview">>)
         \/ Is(q, "books", <<"books", "list">>) \/ Is(q, "book", <<"books", "detail">>)
         \/ Is(q, "tutorialRecipes", <<"tutorials", "recipes">>)
    /\ "taxonomy" \in q.reads =>
         \/ Is(q, "coursesOverview", <<"courses", "overview">>)
         \/ Is(q, "coverage", <<"coverage">>)
         \/ Is(q, "curriculumVersions", <<"curriculum", "versions">>)
         \/ Is(q, "curriculumVersion", <<"curriculum", "version">>)
         \/ Is(q, "approvedCurriculum", <<"curriculum", "approved">>)
         \/ Is(q, "curriculumSubtopic", <<"curriculum", "subtopic">>)
         \/ Is(q, "taxonomyLinks", <<"question-sets", "taxonomy-links">>)
         \/ Is(q, "experimentalCurriculum", <<"experimental-recipes", "curriculum">>)
    /\ "bank" \in q.reads =>
         \/ Is(q, "coursesOverview", <<"courses", "overview">>)
         \/ Is(q, "questions", <<"questions", "list">>)
         \/ Is(q, "reviewQueue", <<"questions", "review-queue">>)
         \/ Is(q, "chunkOutlines", <<"questions", "chunk-outline">>)
         \/ Is(q, "coverage", <<"coverage">>) \/ Is(q, "book", <<"books", "detail">>)
         \/ Is(q, "rerunPreview", <<"evaluation", "rerun-preview">>)
    /\ "status" \in q.reads =>
         \/ Is(q, "coursesOverview", <<"courses", "overview">>)
         \/ Is(q, "questions", <<"questions", "list">>)
         \/ Is(q, "question", <<"questions", "detail">>)
         \/ Is(q, "reviewQueue", <<"questions", "review-queue">>)
         \/ Is(q, "coverage", <<"coverage">>)
         \/ Is(q, "taxonomyLinks", <<"question-sets", "taxonomy-links">>)
         \/ Is(q, "visibility", <<"setup", "visibility">>)
    /\ "review" \in q.reads =>
         \/ Is(q, "coursesOverview", <<"courses", "overview">>)
         \/ Is(q, "question", <<"questions", "detail">>)
         \/ Is(q, "reviewQueue", <<"questions", "review-queue">>)
         \/ Is(q, "judgeStats", <<"judge-prompts", "stats">>)
         \/ Is(q, "judgeScorecard", <<"judges", "scorecard">>)
    /\ "set" \in q.reads =>
         \/ Is(q, "coursesOverview", <<"courses", "overview">>)
         \/ Is(q, "questionSets", <<"question-sets", "list">>)
         \/ Is(q, "taxonomyClassroom", <<"question-sets", "taxonomy">>)
         \/ Is(q, "taxonomyLinks", <<"question-sets", "taxonomy-links">>)
    /\ "model" \in q.reads =>
         \/ Is(q, "health", <<"system", "health">>)
         \/ Is(q, "modelSettings", <<"settings", "roles">>)
    /\ "verdict" \in q.reads =>
         \/ Is(q, "question", <<"questions", "detail">>)
         \/ Is(q, "reviewQueue", <<"questions", "review-queue">>)
         \/ Is(q, "judgeStats", <<"judge-prompts", "stats">>)
         \/ Is(q, "judgeScorecard", <<"judges", "scorecard">>)
    /\ "chunks" \in q.reads =>
         \/ Is(q, "chunkOutlines", <<"questions", "chunk-outline">>)
         \/ Is(q, "chunk", <<"chunks", "detail">>) \/ Is(q, "bookChunks", <<"chunks", "book">>)
    /\ "bookLabel" \in q.reads =>
         \/ Is(q, "chunkOutlines", <<"questions", "chunk-outline">>)
         \/ Is(q, "books", <<"books", "list">>) \/ Is(q, "book", <<"books", "detail">>)
    /\ "fill" \in q.reads =>
         \/ Is(q, "coverage", <<"coverage">>)
    /\ "guideline" \in q.reads =>
         \/ Is(q, "guidelines", <<"instructions", "guidelines">>)
    /\ "panel" \in q.reads =>
         \/ Is(q, "judgePrompts", <<"judge-prompts", "list">>)
         \/ Is(q, "judgeStats", <<"judge-prompts", "stats">>)
    /\ "judgeRun" \in q.reads =>
         \/ Is(q, "rerunPreview", <<"evaluation", "rerun-preview">>)
    /\ "run" \in q.reads =>
         \/ Is(q, "trainingSession", <<"training-sessions", "detail">>)
    /\ "attempt" \in q.reads =>
         \/ Is(q, "nextQuestion", <<"training-sessions", "next">>)
         \/ Is(q, "runProgress", <<"training-sessions", "progress">>)
    /\ "live" \in q.reads =>
         \/ Is(q, "nextQuestion", <<"training-sessions", "next">>)
    /\ "job" \in q.reads =>
         \/ Is(q, "jobs", <<"jobs", "list">>)
    /\ "style" \in q.reads =>
         \/ Is(q, "styles", <<"setup", "styles">>)
    /\ "setup" \in q.reads =>
         \/ Is(q, "currentSetup", <<"setup", "current">>)
    /\ "round" \in q.reads =>
         \/ Is(q, "round", <<"rounds", "detail">>)
    /\ "custom" \in q.reads =>
         \/ Is(q, "customJudges", <<"custom-judges", "list">>)
    /\ "recipe" \in q.reads =>
         \/ Is(q, "tutorialRecipes", <<"tutorials", "recipes">>)
         \/ Is(q, "experimentalRecipes", <<"experimental-recipes", "list">>)
    /\ "decision" \in q.reads =>
         \/ Is(q, "tutorialRecipes", <<"tutorials", "recipes">>)
    /\ "block" \in q.reads =>
         \/ Is(q, "tutorialSample", <<"tutorials", "sample">>)
         \/ Is(q, "tutorialGallery", <<"tutorials", "gallery">>)

\* The table of queries, read by fact.
LEMMA QueriesAre == \A q \in Queries : ReadersAre(q)
<1> SUFFICES ASSUME NEW q \in Queries PROVE ReadersAre(q)
  OBVIOUS
<1> USE DEF Query, Is, ReadersAre
<1>1. CASE q \in AccountQueries
  BY <1>1 DEF AccountQueries
<1>2. CASE q \in CourseQueries
  BY <1>2 DEF CourseQueries
<1>3. CASE q \in QuestionQueries
  BY <1>3 DEF QuestionQueries
<1>4. CASE q \in LibraryQueries
  BY <1>4 DEF LibraryQueries
<1>5. CASE q \in CurriculumQueries
  BY <1>5 DEF CurriculumQueries
<1>6. CASE q \in SetQueries
  BY <1>6 DEF SetQueries
<1>7. CASE q \in JudgeQueries
  BY <1>7 DEF JudgeQueries
<1>8. CASE q \in ClassroomQueries
  BY <1>8 DEF ClassroomQueries
<1>9. CASE q \in SetupQueries
  BY <1>9 DEF SetupQueries
<1>10. CASE q \in StudioQueries
  BY <1>10 DEF StudioQueries
<1> QED
  BY <1>1, <1>2, <1>3, <1>4, <1>5, <1>6, <1>7, <1>8, <1>9, <1>10 DEF Queries

\* The reply of a mutation asks for a query again, or has what it would say.
Refreshed(m, q) == Drops(m, q) \/ Puts(m, q)

\* The pairs that NotRefreshed names.
LeftAlone(m, q) ==
    \/ /\ m.name \notin {"createCourse", "updateCourse", "setVisibility"}
       /\ q.name = "coursesOverview"
    \/ /\ m.name \in {"login", "logout", "register"}
       /\ q.name = "courses"
    \/ /\ m.name = "submitReview"
       /\ q.name \in {"coverage", "visibility", "judgeScorecard"}
    \/ /\ m.name \in {"generateQuestions", "regenerate"}
       /\ q.name \in {"coverage", "book", "taxonomyLinks", "rerunPreview", "visibility"}
    \/ /\ m.name \in {"importYoutube", "deleteBook", "importEnds"}
       /\ q.name = "tutorialRecipes"
    \/ /\ m.name = "deleteBook"
       /\ q.name \in {"chunk", "bookChunks"}
    \/ /\ m.name = "updateBook"
       /\ q.name = "chunkOutlines"
    \/ /\ m.name \in {"importTaxonomy", "updateTree", "updateVersion", "activateVersion",
                      "renameItem", "deleteVersion"}
       /\ q.name \in {"taxonomyLinks", "experimentalCurriculum"}
    \/ /\ m.name \in {"setVisibility", "bulkEnds", "roundEnds"}
       /\ q.name = "taxonomyLinks"
    \/ /\ m.name \in {"saveSetup", "startNextRound"}
       /\ q.name = "jobs"
    \/ /\ m.name = "retryJob"
       /\ q.name = "currentSetup"
    \/ /\ m.name = "judgesEnd"
       /\ q.name \in {"judgeStats", "judgeScorecard"}
    \/ /\ m.name = "tutorialsEnd"
       /\ q.name \in {"tutorialSample", "tutorialGallery"}

\* Each of them is among the pairs.
LEMMA Named ==
    ASSUME NEW m \in Mutations, NEW q \in Queries, LeftAlone(m, q)
    PROVE  <<m.name, q.name>> \in NotRefreshed
<1>1. m.name \in {"importTaxonomy", "updateTree", "updateVersion", "activateVersion",
                 "renameItem", "deleteVersion"} => m.name \in TaxonomyChanges
  BY DEF TaxonomyChanges, TaxonomyMutations, TaxonomyItemMutations, Mutation
<1> QED
  BY <1>1 DEF LeftAlone, NotRefreshed

\* A key begins with each of its prefixes.
LEMMA PrefixOf ==
    /\ \A w : IsPrefix(<<w>>, <<w>>)
    /\ \A w, x : IsPrefix(<<w>>, <<w, x>>) /\ IsPrefix(<<w, x>>, <<w, x>>)
<1> QED
  BY DEF IsPrefix

\* A reply that invalidates the first word of a key, or all of it, refreshes its query.
LEMMA DropsKey ==
    ASSUME NEW m, NEW q \in Queries, <<q.key[1]>> \in m.drops \/ q.key \in m.drops
    PROVE  Refreshed(m, q)
<1>1. \E w, x : q.key = <<w, x>> \/ q.key = <<w>>
  BY DEF Queries, Query, AccountQueries, CourseQueries, QuestionQueries, LibraryQueries,
         CurriculumQueries, SetQueries, JudgeQueries, ClassroomQueries, SetupQueries,
         StudioQueries
<1> QED
  BY <1>1, PrefixOf DEF Drops, Refreshed

\* The tables agree: what a mutation changed is refreshed, or its pair is named.
LEMMA RefreshedOrNamed ==
    ASSUME NEW m \in Mutations, NEW q \in Queries, Affects(m, q)
    PROVE  Refreshed(m, q) \/ <<m.name, q.name>> \in NotRefreshed
<1>0. <<q.key[1]>> \in m.drops \/ q.key \in m.drops => Refreshed(m, q)
  BY DropsKey
<1>1. \E f \in m.writes : f \in q.reads
  BY DEF Affects
<1>2. ReadersAre(q)
  BY QueriesAre
<1> USE DEF Mutation, Is
<1> SUFFICES Refreshed(m, q) \/ LeftAlone(m, q)
  BY Named
<1>3. CASE m \in AccountMutations
  <2>1. CASE m.name = "login"
    <3>1. /\ m.writes = {"user"}
          /\ m.drops = {<<"auth", "me">>}
      BY <1>3, <2>1 DEF AccountMutations
    <3>2. \/ Is(q, "me", <<"auth", "me">>) \/ Is(q, "courses", <<"courses", "list">>)
          \/ Is(q, "coursesOverview", <<"courses", "overview">>)
      BY <1>1, <1>2, <3>1 DEF ReadersAre
    <3> QED
      BY <1>0, <2>1, <3>1, <3>2 DEF LeftAlone
  <2>2. CASE m.name = "logout"
    <3>1. /\ m.writes = {"user"}
          /\ m.drops = {<<"auth", "me">>}
      BY <1>3, <2>2 DEF AccountMutations
    <3>2. \/ Is(q, "me", <<"auth", "me">>) \/ Is(q, "courses", <<"courses", "list">>)
          \/ Is(q, "coursesOverview", <<"courses", "overview">>)
      BY <1>1, <1>2, <3>1 DEF ReadersAre
    <3> QED
      BY <1>0, <2>2, <3>1, <3>2 DEF LeftAlone
  <2>3. CASE m.name = "register"
    <3>1. /\ m.writes = {"user"}
          /\ m.drops = {<<"auth", "me">>}
      BY <1>3, <2>3 DEF AccountMutations
    <3>2. \/ Is(q, "me", <<"auth", "me">>) \/ Is(q, "courses", <<"courses", "list">>)
          \/ Is(q, "coursesOverview", <<"courses", "overview">>)
      BY <1>1, <1>2, <3>1 DEF ReadersAre
    <3> QED
      BY <1>0, <2>3, <3>1, <3>2 DEF LeftAlone
  <2>4. CASE m.name = "verifyEmail"
    <3>1. /\ m.writes = {"verified"}
          /\ m.drops = {<<"auth", "me">>}
      BY <1>3, <2>4 DEF AccountMutations
    <3>2. \/ Is(q, "me", <<"auth", "me">>)
      BY <1>1, <1>2, <3>1 DEF ReadersAre
    <3> QED
      BY <1>0, <2>4, <3>1, <3>2 DEF LeftAlone
  <2> QED
    BY <1>3, <2>1, <2>2, <2>3, <2>4 DEF AccountMutations
<1>4. CASE m \in CourseMutations
  BY <1>0, <1>1, <1>2, <1>4, SMTT(30) DEF CourseMutations, ReadersAre, LeftAlone
<1>5. CASE m \in ReviewMutations
  <2>1. CASE m.name = "submitReview"
    <3>1. /\ m.writes = {"status", "review", "guideline", "panel"}
          /\ m.drops = {<<"questions">>, <<"calibration">>, <<"instructions">>,
                           <<"judge-prompts">>, <<"question-sets", "taxonomy-links">>}
      BY <1>5, <2>1 DEF ReviewMutations
    <3>2. \/ Is(q, "coursesOverview", <<"courses", "overview">>)
          \/ Is(q, "questions", <<"questions", "list">>)
          \/ Is(q, "question", <<"questions", "detail">>)
          \/ Is(q, "reviewQueue", <<"questions", "review-queue">>)
          \/ Is(q, "coverage", <<"coverage">>)
          \/ Is(q, "taxonomyLinks", <<"question-sets", "taxonomy-links">>)
          \/ Is(q, "visibility", <<"setup", "visibility">>)
          \/ Is(q, "judgeStats", <<"judge-prompts", "stats">>)
          \/ Is(q, "judgeScorecard", <<"judges", "scorecard">>)
          \/ Is(q, "guidelines", <<"instructions", "guidelines">>)
          \/ Is(q, "judgePrompts", <<"judge-prompts", "list">>)
      BY <1>1, <1>2, <3>1 DEF ReadersAre
    <3>3. q.name \in {"coursesOverview", "coverage", "visibility", "judgeScorecard"}
            => LeftAlone(m, q)
      BY <2>1 DEF LeftAlone
    <3>4. /\ <<"questions">> \in m.drops /\ <<"instructions">> \in m.drops
          /\ <<"judge-prompts">> \in m.drops /\ <<"question-sets", "taxonomy-links">> \in m.drops
      BY <3>1
    <3> QED
      BY <1>0, <3>2, <3>3, <3>4
  <2> QED
    BY <1>5, <2>1 DEF ReviewMutations
<1>6. CASE m \in RunMutations
  BY <1>0, <1>1, <1>2, <1>6, SMTT(30) DEF RunMutations, ReadersAre, LeftAlone
<1>7. CASE m \in BookMutations
  BY <1>0, <1>1, <1>2, <1>7, SMTT(30) DEF BookMutations, ReadersAre, LeftAlone
<1>8. CASE m \in TaxonomyMutations
  BY <1>0, <1>1, <1>2, <1>8, SMTT(30) DEF TaxonomyMutations, ReadersAre, LeftAlone
<1>9. CASE m \in TaxonomyItemMutations
  BY <1>0, <1>1, <1>2, <1>9, SMTT(30) DEF TaxonomyItemMutations, ReadersAre, LeftAlone
<1>10. CASE m \in SetMutations
  BY <1>0, <1>1, <1>2, <1>10, SMTT(30) DEF SetMutations, ReadersAre, LeftAlone
<1>11. CASE m \in PromptMutations
  BY <1>0, <1>1, <1>2, <1>11, SMTT(30) DEF PromptMutations, ReadersAre, LeftAlone
<1>12. CASE m \in ClassroomMutations
  <2>1. CASE m.name = "requestLiveQuestion"
    <3>1. /\ m.writes = {"live"}
          /\ m.drops = {<<"training-sessions", "next">>}
      BY <1>12, <2>1 DEF ClassroomMutations
    <3>2. \/ Is(q, "nextQuestion", <<"training-sessions", "next">>)
      BY <1>1, <1>2, <3>1 DEF ReadersAre
    <3> QED
      BY <1>0, <2>1, <3>1, <3>2 DEF LeftAlone
  <2>2. CASE m.name = "answerAttempt"
    <3>1. /\ m.writes = {"attempt", "run"}
          /\ m.drops = {<<"training-sessions", "detail">>, <<"training-sessions", "next">>,
                           <<"training-sessions", "progress">>, <<"students">>}
      BY <1>12, <2>2 DEF ClassroomMutations
    <3>2. \/ Is(q, "nextQuestion", <<"training-sessions", "next">>)
          \/ Is(q, "runProgress", <<"training-sessions", "progress">>)
          \/ Is(q, "trainingSession", <<"training-sessions", "detail">>)
      BY <1>1, <1>2, <3>1 DEF ReadersAre
    <3> QED
      BY <1>0, <2>2, <3>1, <3>2 DEF LeftAlone
  <2>3. CASE m.name = "endRun"
    <3>1. /\ m.writes = {"run"}
          /\ m.drops = {<<"training-sessions", "detail">>, <<"students", "progress">>,
                           <<"students">>}
      BY <1>12, <2>3 DEF ClassroomMutations
    <3>2. \/ Is(q, "trainingSession", <<"training-sessions", "detail">>)
      BY <1>1, <1>2, <3>1 DEF ReadersAre
    <3> QED
      BY <1>0, <2>3, <3>1, <3>2 DEF LeftAlone
  <2> QED
    BY <1>12, <2>1, <2>2, <2>3 DEF ClassroomMutations
<1>13. CASE m \in JobMutations
  BY <1>0, <1>1, <1>2, <1>13, SMTT(30) DEF JobMutations, ReadersAre, LeftAlone
<1>14. CASE m \in SetupMutations
  BY <1>0, <1>1, <1>2, <1>14, SMTT(30) DEF SetupMutations, ReadersAre, LeftAlone
<1>15. CASE m \in SettingsMutations
  BY <1>0, <1>1, <1>2, <1>15, SMTT(30) DEF SettingsMutations, ReadersAre, LeftAlone, Replacing,
                                           Refreshed, Puts
<1>16. CASE m \in TutorialMutations
  BY <1>0, <1>1, <1>2, <1>16, SMTT(30) DEF TutorialMutations, ReadersAre, LeftAlone
<1>17. CASE m \in JobEndings
  BY <1>0, <1>1, <1>2, <1>17, SMTT(30) DEF JobEndings, ReadersAre, LeftAlone, OnJobEnd
<1> QED
  BY <1>3, <1>4, <1>5, <1>6, <1>7, <1>8, <1>9, <1>10, <1>11, <1>12, <1>13, <1>14, <1>15,
     <1>16, <1>17 DEF Mutations

\* No reply both replaces and invalidates a query.
LEMMA PutsOnly ==
    ASSUME NEW m \in Mutations, NEW q \in Queries, Puts(m, q)
    PROVE  ~Drops(m, q)
<1>1. m.puts = {<<"settings", "roles">>} /\ m.drops = {<<"system", "health">>}
  BY DEF Puts, Mutations, Mutation, Replacing, AccountMutations, CourseMutations,
         ReviewMutations, RunMutations, BookMutations, TaxonomyMutations, TaxonomyItemMutations,
         SetMutations, PromptMutations, ClassroomMutations, JobMutations, SetupMutations,
         SettingsMutations, TutorialMutations, JobEndings
<1>2. ~IsPrefix(<<"system", "health">>, <<"settings", "roles">>)
  BY DEF IsPrefix
<1> QED
  BY <1>1, <1>2 DEF Puts, Drops
-----------------------------------------------------------------------------
(* Once answered, the copy cannot be of before unless it is marked stale,   *)
(* and no request that was answered before is still on its way; so whoever  *)
(* shows the query holds a copy of after, waits for one, or says it failed. *)
CopyInv ==
    /\ press \in {"served", "answered"} => server = 1
    /\ press = "answered" /\ ~overtaken /\ <<change.name, view.name>> \notin NotRefreshed =>
          /\ fetch # 0
          /\ entry.data # 1 => entry.stale
          /\ mounted /\ fetch = NoFetch /\ ~entry.failed => entry.data = 1

ShownInv == CacheTypeOK /\ Affects(change, view) /\ CopyInv

\* The markers are no data.
LEMMA Markers ==
    /\ NoData # 0 /\ NoData # 1 /\ NoFetch # 0 /\ NoFetch # 1 /\ NoFetch # Unanswered
    /\ Unanswered # 0 /\ Unanswered # 1
<1> QED
  BY CacheAssumption

\* The page starts in it.
LEMMA CacheFirst == CacheInit => ShownInv
<1> SUFFICES ASSUME CacheInit PROVE ShownInv
  OBVIOUS
<1>1. CacheTypeOK
  <2>1. Empty \in [data : {NoData, 0, 1}, stale : BOOLEAN, failed : BOOLEAN]
    BY DEF Empty
  <2>2. change \in Mutations /\ view \in Queries /\ server = 0 /\ press = "idle"
        /\ entry = Empty /\ fetch = NoFetch /\ mounted = FALSE /\ overtaken = FALSE
    BY DEF CacheInit
  <2>3. mounted \in BOOLEAN /\ overtaken \in BOOLEAN
    BY <2>2, Zenon
  <2>4. entry \in [data : {NoData, 0, 1}, stale : BOOLEAN, failed : BOOLEAN]
    BY <2>1, <2>2, Zenon
  <2>5. server \in 0 .. 1
    BY <2>2
  <2> QED
    BY <2>2, <2>3, <2>4, <2>5, Zenon DEF CacheTypeOK
<1>2. Affects(change, view) /\ CopyInv
  BY DEF CacheInit, CopyInv
<1> QED
  BY <1>1, <1>2 DEF ShownInv

\* What a reply does to the copy of a query that its mutation changed.
LEMMA RepliedStep ==
    ASSUME ShownInv, MutationReplied
    PROVE  ShownInv'
<1> USE Markers DEF ShownInv, CacheTypeOK, CopyInv
<1>1. CASE Puts(change, view)
  <2>1. ReplaceView
    BY <1>1, PutsOnly DEF MutationReplied
  <2> QED
    BY <2>1 DEF MutationReplied, ReplaceView, Kept
<1>2. CASE Drops(change, view)
  <2>1. InvalidateView
    BY <1>2, PutsOnly DEF MutationReplied
  <2> QED
    BY <2>1 DEF MutationReplied, InvalidateView, Restarts
<1>3. CASE ~Puts(change, view) /\ ~Drops(change, view)
  <2>1. UNCHANGED <<entry, fetch, overtaken>>
    BY <1>3 DEF MutationReplied
  <2>2. <<change.name, view.name>> \in NotRefreshed
    BY <1>3, RefreshedOrNamed DEF Refreshed
  <2> QED
    BY <2>1, <2>2 DEF MutationReplied
<1> QED
  BY <1>1, <1>2, <1>3

\* Every step keeps it.
LEMMA CacheStep == ShownInv /\ [CacheNext]_cacheVars => ShownInv'
<1> SUFFICES ASSUME ShownInv, [CacheNext]_cacheVars PROVE ShownInv'
  OBVIOUS
<1> USE Markers DEF ShownInv, CacheTypeOK, CopyInv
<1>1. CASE MountView
  BY <1>1 DEF MountView
<1>2. CASE UnmountView
  BY <1>2 DEF UnmountView
<1>3. CASE CollectEntry
  BY <1>3 DEF CollectEntry, Empty
<1>4. CASE GrowOld
  BY <1>4 DEF GrowOld
<1>5. CASE FocusWindow
  BY <1>5 DEF FocusWindow
<1>6. CASE AnswerFetch
  <2>1. /\ fetch' = server /\ server' = server
        /\ UNCHANGED <<change, view, press, entry, mounted, overtaken>>
    BY <1>6 DEF AnswerFetch
  <2>2. server \in {0, 1}
    OBVIOUS
  <2>3. CacheTypeOK' /\ Affects(change, view)'
    BY <2>1, <2>2
  <2> QED
    BY <2>1, <2>2, <2>3
<1>7. CASE FetchArrives
  <2> DEFINE aged == view.name \in Focused
  <2>1. fetch \in {0, 1} /\ fetch' = NoFetch
        /\ UNCHANGED <<change, view, server, press, mounted, overtaken>>
    BY <1>7 DEF FetchArrives
  <2>2. aged \in BOOLEAN
    OBVIOUS
  <2>3. entry' = [data |-> fetch, stale |-> aged, failed |-> FALSE]
    BY <1>7 DEF FetchArrives, Kept
  <2> HIDE DEF aged
  <2>4. CacheTypeOK' /\ Affects(change, view)'
    BY <2>1, <2>2, <2>3
  <2> QED
    BY <2>1, <2>3, <2>4
<1>8. CASE FetchFails
  BY <1>8 DEF FetchFails
<1>9. CASE CallMutation
  BY <1>9 DEF CallMutation
<1>10. CASE ServeMutation
  BY <1>10 DEF ServeMutation
<1>11. CASE MutationFails
  BY <1>11 DEF MutationFails
<1>12. CASE MutationReplied
  BY <1>12, RepliedStep
<1>13. CASE UNCHANGED cacheVars
  BY <1>13 DEF cacheVars
<1> QED
  BY <1>1, <1>2, <1>3, <1>4, <1>5, <1>6, <1>7, <1>8, <1>9, <1>10, <1>11, <1>12, <1>13
     DEF CacheNext

\* The inductive invariant of QueryCache holds in every reachable state.
THEOREM CacheHolds == CacheSpec => []ShownInv
<1> QED
  BY CacheFirst, CacheStep, PTL DEF CacheSpec

\* Once a mutation has answered, no screen at rest shows what it changed as it was before,
\* for every pair of a query and a mutation that NotRefreshed does not name
\* (AnsweredIsShown; the keys each mutation of lib/api/queries.ts invalidates or replaces).
THEOREM AnsweredIsShownAlways == CacheSpec => []AnsweredIsShown
<1>1. ShownInv => AnsweredIsShown
  BY DEF ShownInv, CopyInv, AnsweredIsShown
<1> QED
  BY <1>1, CacheHolds, PTL
=============================================================================
