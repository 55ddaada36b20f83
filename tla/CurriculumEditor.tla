--------------------------- MODULE CurriculumEditor ---------------------------
(***************************************************************************)
(* The curriculum library and the builder it opens in a modal.  A row is   *)
(* fetched and copied into the builder, a blank outline is started, an AI  *)
(* proposal is dropped in, or work kept in this browser is resumed.  What  *)
(* is typed is written to the taxonomy's own slot of localStorage 400 ms   *)
(* after the last change, and forgotten when it is saved or discarded.     *)
(* Fetches, saves and AI requests are asynchronous: their replies act on   *)
(* the page as they find it, whatever was opened since.                    *)
(*                                                                         *)
(* A taxonomy's content is a token: v for what version v holds at first,   *)
(* New for a blank outline, and a number for anything typed or proposed.   *)
(***************************************************************************)
EXTENDS Naturals, FiniteSets

CONSTANTS
    Versions,    \* saved taxonomies
    New,         \* the slot of a taxonomy not saved yet, and the blank outline
    MaxWork,     \* bound: contents typed or proposed
    MaxClicks,   \* bound: times a taxonomy is opened from the page
    MaxSaves     \* bound: saves sent

ASSUME EditorAssumption ==
    /\ New \notin Versions /\ (Versions \cup {New}) \cap (0 .. MaxWork) = {}
    /\ MaxWork \in Nat /\ MaxClicks \in Nat /\ MaxSaves \in Nat

Origins == Versions \cup {New}     \* draftKey: one slot per taxonomy
Contents == Origins \cup 1 .. MaxWork
Nothing == 0                       \* an empty slot, and a baseline nothing matches

VARIABLES
    outline,     \* what the server holds of each version
    kept,        \* localStorage: the unsaved draft of each taxonomy
    shelf,       \* the drafts the page offers to continue, as last read
    opened,      \* the serial of the latest opening
    fetching,    \* versions being fetched to be opened, by serial
    builder,     \* the mounted builder, or none
    discarding,  \* the "Discard your changes?" question is up
    saving,      \* saves in flight
    asking,      \* AI requests in flight, by the mount they were made from
    spent,       \* contents, mounts and saves used so far (bounds)
    owed,        \* the unsaved work on each taxonomy its author has not let go (history)
    crossed      \* a reply met another page than it was sent from (history)

editorVars == <<outline, kept, shelf, opened, fetching, builder, discarding, saving,
                asking, spent, owed, crossed>>

Closed == [mount |-> 0, from |-> New, origin |-> New, draft |-> New, base |-> New,
           stored |-> FALSE, due |-> FALSE, resumed |-> FALSE, busy |-> FALSE,
           confirm |-> FALSE, panel |-> FALSE]

EditorTypeOK ==
    /\ outline \in [Versions -> Contents]
    /\ kept \in [Origins -> Contents \cup {Nothing}]
    /\ shelf \in [Origins -> Contents \cup {Nothing}]
    /\ opened \in Nat
    /\ fetching \subseteq [serial : 1 .. opened, version : Versions]
    /\ builder \in [mount : 0 .. spent.mounts, from : Origins, origin : Origins,
                    draft : Contents, base : Contents \cup {Nothing}, stored : BOOLEAN,
                    due : BOOLEAN, resumed : BOOLEAN, busy : BOOLEAN, confirm : BOOLEAN,
                    panel : BOOLEAN]
    /\ discarding \in BOOLEAN
    /\ saving \subseteq [mount : 1 .. spent.mounts, origin : Origins, draft : Contents,
                         mode : {"edit", "create"}]
    /\ asking \subseteq 1 .. spent.mounts
    /\ owed \in [Origins -> Contents \cup {Nothing}]
    /\ crossed \in BOOLEAN

IsOpen == builder.mount # 0
Dirty == builder.draft # builder.base

\* A late reply that finds the builder closed, re-mounted, or edited since.
Meets(mount, draft) == IsOpen /\ builder.mount = mount /\ builder.draft = draft

-----------------------------------------------------------------------------
(* Opening.  A new source reloads a builder that is mounted, and mounts    *)
(* one that is not.                                                        *)

Load(from, draft, base, resumed, panel) ==
    LET mount == IF IsOpen THEN builder.mount ELSE spent.mounts + 1 IN
    /\ builder' = [mount |-> mount, from |-> from, origin |-> from, draft |-> draft,
                   base |-> base, stored |-> FALSE, due |-> TRUE, resumed |-> resumed,
                   busy |-> IsOpen /\ builder.busy, confirm |-> IsOpen /\ builder.confirm,
                   panel |-> panel]

Mounted(clicks, work) == [mounts |-> IF IsOpen THEN spent.mounts ELSE spent.mounts + 1,
                          work |-> spent.work + work, clicks |-> spent.clicks + clicks,
                          saves |-> spent.saves]

\* "New curriculum" and "Draft with AI": blank, the latter with the AI form beside it.
OpenBlank(panel) ==
    /\ ~IsOpen /\ spent.clicks < MaxClicks
    /\ opened' = opened + 1
    /\ Load(New, New, New, FALSE, panel)
    /\ spent' = Mounted(1, 0)
    /\ UNCHANGED <<outline, kept, shelf, fetching, discarding, saving, asking, owed, crossed>>

\* A row is always read afresh before it opens.
ClickRow(v) ==
    /\ ~IsOpen /\ spent.clicks < MaxClicks
    /\ opened' = opened + 1
    /\ fetching' = fetching \cup {[serial |-> opened + 1, version |-> v]}
    /\ spent' = [spent EXCEPT !.clicks = @ + 1]
    /\ UNCHANGED <<outline, kept, shelf, builder, discarding, saving, asking, owed, crossed>>

\* The row arrives.  Only a later click or a close supersedes it: work continued
\* from the shelf meanwhile does not.
RowArrives(f) ==
    /\ fetching' = fetching \ {f}
    /\ IF f.serial = opened
       THEN /\ Load(f.version, outline[f.version], outline[f.version], FALSE, TRUE)
            /\ spent' = Mounted(0, 0)
            /\ crossed' = (crossed \/ IsOpen)
       ELSE UNCHANGED <<builder, spent, crossed>>
    /\ UNCHANGED <<outline, kept, shelf, opened, discarding, saving, asking, owed>>

RowFails(f) ==
    /\ fetching' = fetching \ {f}
    /\ UNCHANGED <<outline, kept, shelf, opened, builder, discarding, saving, asking, spent,
                   owed, crossed>>

\* "Continue editing" on a kept draft: unsaved by definition.
Continue(o) ==
    /\ ~IsOpen /\ shelf[o] # Nothing /\ spent.clicks < MaxClicks
    /\ Load(o, shelf[o], Nothing, TRUE, o \in Versions)
    /\ spent' = Mounted(1, 0)
    /\ UNCHANGED <<outline, kept, shelf, opened, fetching, discarding, saving, asking, owed,
                   crossed>>

\* "Discard" on a kept draft.
DropShelved(o) ==
    /\ ~IsOpen /\ shelf[o] # Nothing
    /\ kept' = [kept EXCEPT ![o] = Nothing]
    /\ shelf' = kept'
    /\ owed' = [owed EXCEPT ![o] = Nothing]
    /\ UNCHANGED <<outline, opened, fetching, builder, discarding, saving, asking, spent,
                   crossed>>

-----------------------------------------------------------------------------
(* Editing.                                                                *)

\* Something new is typed.  A new outline shares its slot with every other new
\* outline, so beginning one over kept work gives that work up.
Type ==
    LET fresh == spent.work + 1
        o == builder.origin
    IN
    /\ IsOpen /\ spent.work < MaxWork
    /\ builder' = [builder EXCEPT !.draft = fresh, !.due = TRUE]
    /\ spent' = [spent EXCEPT !.work = fresh]
    /\ owed' = [owed EXCEPT ![o] = fresh]
    /\ UNCHANGED <<outline, kept, shelf, opened, fetching, discarding, saving, asking, crossed>>

\* Editing something and then editing it back is not a change.
TypeBack ==
    LET o == builder.origin IN
    /\ IsOpen /\ Dirty /\ builder.base # Nothing
    /\ builder' = [builder EXCEPT !.draft = builder.base, !.due = TRUE]
    /\ owed' = [owed EXCEPT ![o] = IF builder.stored THEN Nothing ELSE kept[o]]
    /\ UNCHANGED <<outline, kept, shelf, opened, fetching, discarding, saving, asking, spent,
                   crossed>>

\* 400 ms after the last change.  An empty outline is not worth keeping.
Autosave ==
    LET o == builder.origin
        keep == Dirty /\ builder.draft # New
    IN
    /\ IsOpen /\ builder.due
    /\ builder' = [builder EXCEPT !.due = FALSE, !.stored = keep]
    /\ kept' = [kept EXCEPT ![o] = IF keep THEN builder.draft
                                   ELSE IF builder.stored THEN Nothing ELSE @]
    /\ UNCHANGED <<outline, shelf, opened, fetching, discarding, saving, asking, spent, owed,
                   crossed>>

\* "Discard draft" on the banner of resumed work: back to a blank new outline.
DiscardResumed ==
    LET o == builder.origin IN
    /\ IsOpen /\ builder.resumed
    /\ kept' = [kept EXCEPT ![o] = Nothing]
    /\ owed' = [owed EXCEPT ![o] = Nothing]
    /\ builder' = [builder EXCEPT !.origin = New, !.draft = New, !.base = New,
                                  !.stored = FALSE, !.resumed = FALSE, !.due = TRUE]
    /\ UNCHANGED <<outline, shelf, opened, fetching, discarding, saving, asking, spent, crossed>>

\* "Keep editing" on that banner.
KeepResumed ==
    /\ IsOpen /\ builder.resumed
    /\ builder' = [builder EXCEPT !.resumed = FALSE]
    /\ UNCHANGED <<outline, kept, shelf, opened, fetching, discarding, saving, asking, spent,
                   owed, crossed>>

-----------------------------------------------------------------------------
(* Saving.                                                                 *)

Send(mode) ==
    /\ ~builder.busy /\ spent.saves < MaxSaves
    /\ saving' = saving \cup {[mount |-> builder.mount, origin |-> builder.origin,
                               draft |-> builder.draft, mode |-> mode]}
    /\ spent' = [spent EXCEPT !.saves = @ + 1]

\* An unfinished outline is refused here.  "Save changes" is sent at once; a new
\* version is confirmed first when it would replace the approved one.
RequestSave(mode) ==
    /\ IsOpen /\ ~builder.busy /\ builder.draft # New
    /\ mode = "edit" => builder.origin # New
    /\ IF mode = "create" /\ Versions # {}
       THEN builder' = [builder EXCEPT !.confirm = TRUE] /\ UNCHANGED <<saving, spent>>
       ELSE Send(mode) /\ builder' = [builder EXCEPT !.busy = TRUE]
    /\ UNCHANGED <<outline, kept, shelf, opened, fetching, discarding, asking, owed, crossed>>

ConfirmSave ==
    /\ IsOpen /\ builder.confirm
    /\ Send("create")
    /\ builder' = [builder EXCEPT !.busy = TRUE]
    /\ UNCHANGED <<outline, kept, shelf, opened, fetching, discarding, asking, owed, crossed>>

CancelConfirm ==
    /\ IsOpen /\ builder.confirm
    /\ builder' = [builder EXCEPT !.confirm = FALSE]
    /\ UNCHANGED <<outline, kept, shelf, opened, fetching, discarding, saving, asking, spent,
                   owed, crossed>>

\* onSaved closes the builder, whichever it is by now, and reads the shelf again.
CloseBuilder ==
    /\ opened' = opened + 1
    /\ builder' = Closed
    /\ discarding' = FALSE
    /\ shelf' = kept'

\* The save is done: the slot of the taxonomy it was sent for is forgotten.
Saved(s) ==
    /\ saving' = saving \ {s}
    /\ outline' = IF s.mode = "edit" THEN [outline EXCEPT ![s.origin] = s.draft] ELSE outline
    /\ kept' = [kept EXCEPT ![s.origin] = Nothing]
    /\ owed' = [owed EXCEPT ![s.origin] = IF @ = s.draft THEN Nothing ELSE @]
    /\ crossed' = (crossed \/ owed'[s.origin] # Nothing \/ (IsOpen /\ ~Meets(s.mount, s.draft)))
    /\ CloseBuilder
    /\ UNCHANGED <<fetching, asking, spent>>

\* Mutant: a save forgets the slot when it is sent, not when it lands.
SaveFailsForgotten(s) ==
    /\ saving' = saving \ {s}
    /\ kept' = [kept EXCEPT ![s.origin] = Nothing]
    /\ builder' = IF IsOpen /\ builder.mount = s.mount
                  THEN [builder EXCEPT !.busy = FALSE, !.confirm = FALSE]
                  ELSE builder
    /\ UNCHANGED <<outline, shelf, opened, fetching, discarding, asking, spent, owed, crossed>>

\* Refused, or the reply was lost after the server had saved: the draft is untouched.
SaveFails(s) ==
    /\ saving' = saving \ {s}
    /\ outline' \in {outline} \cup
         (IF s.mode = "edit" THEN {[outline EXCEPT ![s.origin] = s.draft]} ELSE {})
    /\ builder' = IF IsOpen /\ builder.mount = s.mount
                  THEN [builder EXCEPT !.busy = FALSE,
                                       !.confirm = @ /\ s.mode # "create"]
                  ELSE builder
    /\ UNCHANGED <<kept, shelf, opened, fetching, discarding, asking, spent, owed, crossed>>

-----------------------------------------------------------------------------
(* The AI form beside the builder.                                         *)

AskAI ==
    /\ IsOpen /\ builder.panel /\ builder.mount \notin asking
    /\ asking' = asking \cup {builder.mount}
    /\ UNCHANGED <<outline, kept, shelf, opened, fetching, builder, discarding, saving, spent,
                   owed, crossed>>

\* The proposal goes into the builder that is open, tied to the taxonomy that one
\* was opened with, or into a new one.  In the builder it was asked from it
\* replaces what was there, as the form says.
Proposed(m) ==
    LET fresh == spent.work + 1
        from == IF IsOpen THEN builder.from ELSE New
        replaced == IF IsOpen /\ Dirty THEN {builder.origin} ELSE {}
    IN
    /\ spent.work < MaxWork
    /\ asking' = asking \ {m}
    /\ opened' = opened + 1
    /\ Load(from, fresh, Nothing, FALSE, TRUE)
    /\ spent' = Mounted(0, 1)
    /\ owed' = [o \in Origins |-> IF o = from THEN fresh
                                  ELSE IF o \in replaced /\ kept[o] = Nothing THEN Nothing
                                  ELSE IF o \in replaced THEN kept[o]
                                  ELSE owed[o]]
    /\ crossed' = (crossed \/ ~IsOpen \/ builder.mount # m)
    /\ UNCHANGED <<outline, kept, shelf, fetching, discarding, saving>>

ProposalFails(m) ==
    /\ asking' = asking \ {m}
    /\ UNCHANGED <<outline, kept, shelf, opened, fetching, builder, discarding, saving, spent,
                   owed, crossed>>

-----------------------------------------------------------------------------
(* Closing.                                                                *)

\* Closing with unsaved changes asks first.
RequestClose ==
    /\ IsOpen
    /\ UNCHANGED kept
    /\ IF Dirty
       THEN discarding' = TRUE /\ UNCHANGED <<opened, builder, shelf>>
       ELSE CloseBuilder
    /\ UNCHANGED <<outline, fetching, saving, asking, spent, owed, crossed>>

KeepEditing ==
    /\ discarding
    /\ discarding' = FALSE
    /\ UNCHANGED <<outline, kept, shelf, opened, fetching, builder, saving, asking, spent, owed,
                   crossed>>

\* "Discard changes": the slot first, then the modal.
Discard ==
    /\ discarding /\ IsOpen
    /\ kept' = [kept EXCEPT ![builder.origin] = Nothing]
    /\ owed' = [owed EXCEPT ![builder.origin] = Nothing]
    /\ CloseBuilder
    /\ UNCHANGED <<outline, fetching, saving, asking, spent, crossed>>

\* The page is reloaded or the tab dies: what was kept is read again, and the
\* last 400 ms of typing are gone.
Reload ==
    /\ opened' = 0
    /\ builder' = Closed
    /\ discarding' = FALSE
    /\ fetching' = {} /\ saving' = {} /\ asking' = {}
    /\ shelf' = kept
    /\ owed' = IF builder.due THEN [owed EXCEPT ![builder.origin] = kept[builder.origin]]
               ELSE owed
    /\ UNCHANGED <<outline, kept, spent, crossed>>

-----------------------------------------------------------------------------
EditorInit ==
    /\ outline = [v \in Versions |-> v]
    /\ kept = [o \in Origins |-> Nothing]
    /\ shelf = kept
    /\ opened = 0
    /\ fetching = {} /\ saving = {} /\ asking = {}
    /\ builder = Closed
    /\ discarding = FALSE
    /\ spent = [work |-> 0, mounts |-> 0, clicks |-> 0, saves |-> 0]
    /\ owed = kept
    /\ crossed = FALSE

EditorNext ==
    \/ \E panel \in BOOLEAN : OpenBlank(panel)
    \/ \E v \in Versions : ClickRow(v)
    \/ \E f \in fetching : RowArrives(f) \/ RowFails(f)
    \/ \E o \in Origins : Continue(o) \/ DropShelved(o)
    \/ Type \/ TypeBack \/ Autosave \/ DiscardResumed \/ KeepResumed
    \/ \E mode \in {"edit", "create"} : RequestSave(mode)
    \/ ConfirmSave \/ CancelConfirm
    \/ \E s \in saving : Saved(s) \/ SaveFails(s)
    \/ AskAI
    \/ \E m \in asking : Proposed(m) \/ ProposalFails(m)
    \/ RequestClose \/ KeepEditing \/ Discard \/ Reload

EditorSpec == EditorInit /\ [][EditorNext]_editorVars

-----------------------------------------------------------------------------
(* Properties.                                                             *)

Survives(o) ==
    \/ owed[o] = kept[o]
    \/ IsOpen /\ builder.origin = o /\ builder.draft = owed[o]

\* Until a reply has crossed another page, the work on a taxonomy that its author
\* neither saved nor discarded is in the builder or in that taxonomy's own slot,
\* through closing, resuming, a refused save and opening other taxonomies.
UnsavedWorkSurvives == ~crossed => \A o \in Origins : owed[o] # Nothing => Survives(o)

===============================================================================
