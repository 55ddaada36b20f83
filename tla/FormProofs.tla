----------------------------- MODULE FormProofs -----------------------------
(***************************************************************************)
(* What is proved of the pages on which something is read, written and     *)
(* sent, each for itself: the curriculum builder, the dialog that adds     *)
(* books and videos, the chunk reader and the page a learner trains on.    *)
(* What a page shows and what the server holds are read, changed and       *)
(* answered apart; each invariant says what may still lie between them.    *)
(***************************************************************************)
EXTENDS CurriculumEditor, BookImport, ChunkReader, StudentScreen, FoldLemmas, TLAPS

(***************************************************************************)
(* Proofs about CurriculumEditor for every set of taxonomies and every     *)
(* number of openings, contents and saves.                                 *)
(***************************************************************************)
\* What has been written so far: later contents are new.
Used == Origins \cup 1 .. spent.work

Builders(n) == [mount : 0 .. n, from : Origins, origin : Origins,
                draft : Contents, base : Contents \cup {Nothing}, stored : BOOLEAN,
                due : BOOLEAN, resumed : BOOLEAN, busy : BOOLEAN, confirm : BOOLEAN,
                panel : BOOLEAN]
Saves(n) == [mount : 1 .. n, origin : Origins, draft : Contents, mode : {"edit", "create"}]

PageTypesOK ==
    /\ opened \in Nat /\ fetching \subseteq [serial : 1 .. opened, version : Versions]
    /\ builder \in Builders(spent.mounts) /\ saving \subseteq Saves(spent.mounts)
    /\ asking \subseteq 1 .. spent.mounts
    /\ discarding \in BOOLEAN /\ crossed \in BOOLEAN

WorkTypes ==
    /\ spent \in [work : 0 .. MaxWork, mounts : Nat, clicks : Nat, saves : Nat]
    /\ outline \in [Versions -> Used]
    /\ kept \in [Origins -> 0 .. spent.work]
    /\ shelf \in [Origins -> 0 .. spent.work]
    /\ owed \in [Origins -> 0 .. spent.work]
    /\ builder.draft \in Used /\ builder.base \in Used \cup {Nothing}
    /\ \A s \in saving : s.draft \in Used

(***************************************************************************)
(* The inductive invariant.  Something changed was typed or proposed; the  *)
(* shelf is what is kept while no builder is open.  Work that is owed and  *)
(* changed is what the builder shows, and unchanged it is in its slot,     *)
(* which this builder has then not written: the two cases tell what the    *)
(* autosave may overwrite or clear.  A save that was sent from this mount  *)
(* for another taxonomy was of a content that the builder will not show    *)
(* again, so a reply that finds its own content closes its own taxonomy.   *)
(***************************************************************************)
Mine == owed[builder.origin]
Slot == kept[builder.origin]

PageInv ==
    /\ Dirty => builder.draft \in 1 .. spent.work
    /\ ~IsOpen => shelf = kept /\ ~Dirty
    /\ IsOpen /\ builder.resumed =>
          builder.base = Nothing /\ \A s \in saving : s.mount = builder.mount => s.draft # New

ChangedIsShown == IsOpen /\ Mine # Nothing => IF Dirty THEN Mine = builder.draft
                                              ELSE Mine = Slot /\ ~builder.stored
KeptWhenNotDue == IsOpen /\ ~builder.due => Mine \in {Nothing, Slot}
SentElsewhere  == \A s \in saving : IsOpen /\ s.mount = builder.mount /\ s.origin # builder.origin
                                       => s.draft \notin {builder.draft, builder.base}
AllSurvive     == \A o \in Origins : owed[o] # Nothing => Survives(o)

WorkInv == ~crossed => AllSurvive /\ ChangedIsShown /\ KeptWhenNotDue /\ SentElsewhere

EditorInv == PageTypesOK /\ WorkTypes /\ PageInv /\ WorkInv

EditorTypesInv == PageTypesOK /\ WorkTypes

\* The types the run checks are among them.
LEMMA EditorTypes == EditorTypesInv => EditorTypeOK
<1> SUFFICES ASSUME EditorTypesInv PROVE EditorTypeOK
  OBVIOUS
<1>1. Used \subseteq Contents /\ 0 .. spent.work \subseteq Contents \cup {Nothing}
  BY EditorAssumption DEF EditorTypesInv, WorkTypes, Used, Contents, Nothing
<1>2. kept \in [Origins -> Contents \cup {Nothing}] /\ shelf \in [Origins -> Contents \cup {Nothing}]
  BY <1>1 DEF EditorTypesInv, WorkTypes
<1>3. owed \in [Origins -> Contents \cup {Nothing}] /\ outline \in [Versions -> Contents]
  BY <1>1 DEF EditorTypesInv, WorkTypes
<1> QED
  BY <1>2, <1>3 DEF EditorTypesInv, PageTypesOK, WorkTypes, EditorTypeOK, Builders, Saves

\* Slots, blanks and numbers are apart, and what comes next is new.
LEMMA TokensApart ==
    ASSUME EditorTypesInv
    PROVE  /\ Nothing \notin Origins /\ Nothing \notin Used /\ New \in Origins
           /\ spent.work \in Nat /\ New \notin 0 .. spent.work
           /\ spent.work < MaxWork => /\ spent.work + 1 \in 1 .. MaxWork
                                      /\ spent.work + 1 \notin Used \cup 0 .. spent.work
<1>1. spent.work \in 0 .. MaxWork /\ MaxWork \in Nat
  BY EditorAssumption DEF EditorTypesInv, WorkTypes
<1>2. \A n \in 0 .. MaxWork : n \notin Origins
  BY EditorAssumption DEF Origins
<1>3. Nothing \notin Origins /\ New \in Origins /\ Nothing \notin Used
  BY <1>1, <1>2 DEF Nothing, Used, Origins
<1>4. spent.work + 1 \notin 1 .. spent.work /\ spent.work + 1 \notin 0 .. spent.work
  BY <1>1
<1>5. New \notin 0 .. spent.work
  BY <1>1, <1>2, <1>3
<1>6. spent.work < MaxWork => spent.work + 1 \in 1 .. MaxWork /\ spent.work + 1 \notin Origins
  BY <1>1, <1>2
<1> QED
  BY <1>1, <1>3, <1>4, <1>5, <1>6 DEF Used

\* Time goes on: what was of its type stays so.
LEMMA TypesOnlyGrow ==
    ASSUME EditorTypesInv, spent'.mounts \in Nat, spent'.mounts >= spent.mounts,
           spent'.work \in Nat, spent'.work >= spent.work
    PROVE  /\ Used \subseteq Used' /\ 0 .. spent.work \subseteq 0 .. spent'.work
           /\ Builders(spent.mounts) \subseteq Builders(spent'.mounts)
           /\ Saves(spent.mounts) \subseteq Saves(spent'.mounts)
           /\ 1 .. spent.mounts \subseteq 1 .. spent'.mounts
<1>1. spent.work \in Nat /\ spent.mounts \in Nat
  BY EditorAssumption DEF EditorTypesInv, WorkTypes
<1>2. 1 .. spent.work \subseteq 1 .. spent'.work /\ 0 .. spent.work \subseteq 0 .. spent'.work
  BY <1>1
<1>3. 1 .. spent.mounts \subseteq 1 .. spent'.mounts /\ 0 .. spent.mounts \subseteq 0 .. spent'.mounts
  BY <1>1
<1> QED
  BY <1>2, <1>3 DEF Used, Builders, Saves

\* A builder that is loaded is one of the mounts so far.
LEMMA LoadedTypes ==
    ASSUME EditorTypesInv, NEW from \in Origins, NEW draft \in Contents,
           NEW base \in Contents \cup {Nothing}, NEW resumed \in BOOLEAN, NEW panel \in BOOLEAN,
           Load(from, draft, base, resumed, panel),
           spent'.mounts = IF IsOpen THEN spent.mounts ELSE spent.mounts + 1
    PROVE  /\ builder' \in Builders(spent'.mounts) /\ spent'.mounts \in Nat
           /\ spent'.mounts >= spent.mounts
           /\ builder'.draft = draft /\ builder'.base = base
<1>1. spent.mounts \in Nat /\ builder.mount \in 0 .. spent.mounts
  BY DEF EditorTypesInv, WorkTypes, PageTypesOK, Builders
<1>2. spent'.mounts \in Nat /\ spent'.mounts >= spent.mounts
  BY <1>1
<1>3. (IF IsOpen THEN builder.mount ELSE spent.mounts + 1) \in 0 .. spent'.mounts
  BY <1>1 DEF IsOpen
<1>4. (IsOpen /\ builder.busy) \in BOOLEAN /\ (IsOpen /\ builder.confirm) \in BOOLEAN
  OBVIOUS
<1>5. builder' = [mount |-> IF IsOpen THEN builder.mount ELSE spent.mounts + 1, from |-> from,
                  origin |-> from, draft |-> draft, base |-> base, stored |-> FALSE, due |-> TRUE,
                  resumed |-> resumed, busy |-> IsOpen /\ builder.busy,
                  confirm |-> IsOpen /\ builder.confirm, panel |-> panel]
  BY DEF Load
<1> QED
  BY <1>2, <1>3, <1>4, <1>5 DEF Builders

\* Closing leaves no builder, of its type.
LEMMA ClosedTypes == /\ \A n \in Nat : Closed \in Builders(n)
                     /\ Closed.draft = New /\ Closed.base = New /\ Closed.mount = 0
BY DEF Closed, Builders, Contents, Origins
\* Loading a content that was written, or the next one, keeps the types.
LEMMA LoadingTypes ==
    ASSUME EditorTypesInv, NEW from \in Origins, NEW draft, NEW base,
           NEW resumed \in BOOLEAN, NEW panel \in BOOLEAN, NEW clicks \in Nat, NEW work \in 0 .. 1,
           Load(from, draft, base, resumed, panel), spent' = Mounted(clicks, work),
           spent.work + work <= MaxWork, draft \in Used', base \in Used' \cup {Nothing},
           opened' \in {opened, opened + 1}, fetching' \subseteq fetching,
           asking' \subseteq asking, owed' \in [Origins -> 0 .. spent'.work], crossed' \in BOOLEAN,
           UNCHANGED <<outline, kept, shelf, discarding, saving>>
    PROVE  EditorTypesInv'
<1>0. PageTypesOK /\ WorkTypes /\ MaxWork \in Nat
  BY EditorAssumption DEF EditorTypesInv
<1>1. /\ spent'.mounts = (IF IsOpen THEN spent.mounts ELSE spent.mounts + 1)
      /\ spent'.work = spent.work + work /\ spent'.clicks = spent.clicks + clicks
      /\ spent'.saves = spent.saves
      /\ spent' = [mounts |-> spent'.mounts, work |-> spent'.work, clicks |-> spent'.clicks,
                   saves |-> spent'.saves]
  BY DEF Mounted
<1>2. spent' \in [work : 0 .. MaxWork, mounts : Nat, clicks : Nat, saves : Nat]
  <2>1. /\ spent.work \in 0 .. MaxWork /\ spent.mounts \in Nat /\ spent.clicks \in Nat
        /\ spent.saves \in Nat
    BY <1>0 DEF WorkTypes
  <2>2. spent'.work \in 0 .. MaxWork
    BY <1>0, <1>1, <2>1
  <2>3. spent'.mounts \in Nat
    BY <1>1, <2>1
  <2>4. spent'.clicks \in Nat /\ spent'.saves \in Nat
    BY <1>1, <2>1
  <2>5. spent' = [mounts |-> spent'.mounts, work |-> spent'.work, clicks |-> spent'.clicks,
                  saves |-> spent'.saves]
    BY <1>1
  <2> QED
    BY <2>2, <2>3, <2>4, <2>5
<1>3. spent'.work >= spent.work /\ spent'.work \in Nat
  BY <1>0, <1>1 DEF WorkTypes
<1>4. draft \in Contents /\ base \in Contents \cup {Nothing}
  <2>1. 1 .. spent'.work \subseteq 1 .. MaxWork
    BY <1>0, <1>2
  <2>2. Used' \subseteq Contents
    BY <2>1 DEF Used, Contents
  <2> QED
    BY <2>2
<1>5. /\ builder' \in Builders(spent'.mounts) /\ spent'.mounts \in Nat
      /\ spent'.mounts >= spent.mounts /\ builder'.draft = draft /\ builder'.base = base
  BY <1>1, <1>4, LoadedTypes
<1>6. /\ Used \subseteq Used' /\ 0 .. spent.work \subseteq 0 .. spent'.work
      /\ Saves(spent.mounts) \subseteq Saves(spent'.mounts)
      /\ 1 .. spent.mounts \subseteq 1 .. spent'.mounts
  BY <1>3, <1>5, TypesOnlyGrow
<1>7. PageTypesOK'
  <2>1. fetching' \subseteq [serial : 1 .. opened', version : Versions] /\ opened' \in Nat
    BY <1>0 DEF PageTypesOK
  <2> QED
    BY <1>0, <1>5, <1>6, <2>1 DEF PageTypesOK
<1>8. WorkTypes'
  <2>1. /\ kept' \in [Origins -> 0 .. spent'.work] /\ shelf' \in [Origins -> 0 .. spent'.work]
        /\ outline' \in [Versions -> Used']
    BY <1>0, <1>6 DEF WorkTypes
  <2> QED
    BY <1>0, <1>2, <1>5, <1>6, <2>1 DEF WorkTypes
<1> QED
  BY <1>7, <1>8 DEF EditorTypesInv

\* So does a builder that is changed or closed without a new content.
LEMMA SettlingTypes ==
    ASSUME EditorTypesInv, spent' = spent, outline' \in [Versions -> Used],
           kept' \in [Origins -> 0 .. spent.work], shelf' \in [Origins -> 0 .. spent.work],
           owed' \in [Origins -> 0 .. spent.work],
           \/ opened' \in {opened, opened + 1} /\ fetching' \subseteq fetching
           \/ opened' = 0 /\ fetching' = {},
           builder' \in Builders(spent.mounts), builder'.draft \in Used,
           builder'.base \in Used \cup {Nothing}, saving' \subseteq saving, asking' \subseteq asking,
           discarding' \in BOOLEAN, crossed' \in BOOLEAN
    PROVE  EditorTypesInv'
<1>1. Used' = Used /\ PageTypesOK /\ WorkTypes
  BY DEF EditorTypesInv, Used
<1>2. fetching' \subseteq [serial : 1 .. opened', version : Versions] /\ opened' \in Nat
  BY <1>1 DEF PageTypesOK
<1>3. PageTypesOK'
  BY <1>1, <1>2 DEF PageTypesOK
<1>4. WorkTypes'
  BY <1>1 DEF WorkTypes
<1> QED
  BY <1>3, <1>4 DEF EditorTypesInv
-----------------------------------------------------------------------------
\* Every step of the page keeps the types; what the autosave keeps was written.
LEMMA EditorTypesStep == EditorTypesInv /\ PageInv /\ [EditorNext]_editorVars => EditorTypesInv'
<1> SUFFICES ASSUME EditorTypesInv, PageInv, [EditorNext]_editorVars PROVE EditorTypesInv'
  OBVIOUS
<1>0. /\ spent \in [work : 0 .. MaxWork, mounts : Nat, clicks : Nat, saves : Nat]
      /\ outline \in [Versions -> Used] /\ kept \in [Origins -> 0 .. spent.work]
      /\ shelf \in [Origins -> 0 .. spent.work] /\ owed \in [Origins -> 0 .. spent.work]
      /\ builder \in Builders(spent.mounts)
      /\ builder.draft \in Used /\ builder.base \in Used \cup {Nothing}
      /\ discarding \in BOOLEAN /\ crossed \in BOOLEAN /\ saving \subseteq Saves(spent.mounts)
      /\ \A s \in saving : s.draft \in Used
      /\ fetching \subseteq [serial : 1 .. opened, version : Versions]
  BY DEF EditorTypesInv, PageTypesOK, WorkTypes
<1>01. /\ MaxWork \in Nat /\ New \in Used /\ New \in Origins /\ Versions \subseteq Origins
       /\ Nothing \in 0 .. spent.work /\ 1 .. spent.work \subseteq Used \cap (0 .. spent.work)
       /\ spent.work \in Nat /\ spent.work + 0 <= MaxWork
       /\ 0 \in Nat /\ 1 \in Nat /\ 0 \in 0 .. 1 /\ 1 \in 0 .. 1
  BY <1>0, EditorAssumption DEF Used, Origins, Nothing
<1>02. /\ Closed \in Builders(spent.mounts) /\ Closed.draft = New /\ Closed.base = New
       /\ builder.origin \in Origins /\ builder.from \in Origins
  BY <1>0, ClosedTypes DEF Builders
<1>1. ASSUME NEW panel \in BOOLEAN, OpenBlank(panel) PROVE EditorTypesInv'
  <2>1. /\ Load(New, New, New, FALSE, panel) /\ spent' = Mounted(1, 0) /\ opened' = opened + 1
        /\ UNCHANGED <<outline, kept, shelf, fetching, discarding, saving, asking, owed, crossed>>
    BY <1>1 DEF OpenBlank
  <2>2. spent'.work = spent.work /\ New \in Used' /\ New \in Used' \cup {Nothing}
    BY <1>01, <2>1 DEF Mounted, Used
  <2>3. /\ opened' \in {opened, opened + 1} /\ fetching' \subseteq fetching
        /\ asking' \subseteq asking /\ owed' \in [Origins -> 0 .. spent'.work]
        /\ crossed' \in BOOLEAN /\ FALSE \in BOOLEAN
        /\ UNCHANGED <<outline, kept, shelf, discarding, saving>>
    BY <1>0, <2>1, <2>2
  <2> QED
    BY <1>01, <2>1, <2>2, <2>3, LoadingTypes
<1>2. ASSUME NEW v \in Versions, ClickRow(v) PROVE EditorTypesInv'
  <2>1. /\ opened' = opened + 1
        /\ fetching' = fetching \cup {[serial |-> opened + 1, version |-> v]}
        /\ spent' = [spent EXCEPT !.clicks = @ + 1]
        /\ UNCHANGED <<outline, kept, shelf, builder, discarding, saving, asking, owed, crossed>>
    BY <1>2 DEF ClickRow
  <2>2. /\ spent' \in [work : 0 .. MaxWork, mounts : Nat, clicks : Nat, saves : Nat]
        /\ spent'.work = spent.work /\ spent'.mounts = spent.mounts
    BY <1>0, <2>1
  <2>3. opened \in Nat
    BY DEF EditorTypesInv, PageTypesOK
  <2>4. fetching' \subseteq [serial : 1 .. opened', version : Versions]
    <3>1. \A f \in fetching : f \in [serial : 1 .. opened, version : Versions]
      BY <1>0
    <3>2. 1 .. opened \subseteq 1 .. opened' /\ opened + 1 \in 1 .. opened'
      BY <2>1, <2>3
    <3> QED
      BY <2>1, <3>1, <3>2
  <2>5. Used' = Used
    BY <2>2 DEF Used
  <2> QED
    BY <2>1, <2>2, <2>3, <2>4, <2>5 DEF EditorTypesInv, PageTypesOK, WorkTypes
<1>3. ASSUME NEW f \in fetching, RowArrives(f) PROVE EditorTypesInv'
  <2>1. /\ fetching' = fetching \ {f} /\ f.version \in Versions
        /\ UNCHANGED <<outline, kept, shelf, opened, discarding, saving, asking, owed>>
    BY <1>0, <1>3 DEF RowArrives
  <2>2. CASE f.serial = opened
    <3>1. /\ Load(f.version, outline[f.version], outline[f.version], FALSE, TRUE)
          /\ spent' = Mounted(0, 0) /\ crossed' = (crossed \/ IsOpen)
      BY <1>3, <2>2 DEF RowArrives
    <3>2. spent'.work = spent.work /\ outline[f.version] \in Used
      BY <1>0, <1>01, <2>1, <3>1 DEF Mounted
    <3>3. Used' = Used
      BY <3>2 DEF Used
    <3>4. /\ opened' \in {opened, opened + 1} /\ fetching' \subseteq fetching
          /\ asking' \subseteq asking /\ owed' \in [Origins -> 0 .. spent'.work]
          /\ crossed' \in BOOLEAN /\ FALSE \in BOOLEAN /\ TRUE \in BOOLEAN
          /\ UNCHANGED <<outline, kept, shelf, discarding, saving>>
          /\ f.version \in Origins
          /\ outline[f.version] \in Used' /\ outline[f.version] \in Used' \cup {Nothing}
      BY <1>0, <1>01, <2>1, <3>1, <3>2, <3>3
    <3> QED
      BY <1>01, <3>1, <3>4, LoadingTypes
  <2>3. CASE f.serial # opened
    <3>1. UNCHANGED <<builder, spent, crossed>>
      BY <1>3, <2>3 DEF RowArrives
    <3> QED
      BY <1>0, <2>1, <3>1, SettlingTypes
  <2> QED
    BY <2>2, <2>3
<1>4. ASSUME NEW f \in fetching, RowFails(f) PROVE EditorTypesInv'
  BY <1>0, <1>4, SettlingTypes DEF RowFails
<1>5. ASSUME NEW o \in Origins, Continue(o) PROVE EditorTypesInv'
  <2>1. /\ Load(o, shelf[o], Nothing, TRUE, o \in Versions) /\ spent' = Mounted(1, 0)
        /\ shelf[o] # Nothing
        /\ UNCHANGED <<outline, kept, shelf, opened, fetching, discarding, saving, asking, owed,
                       crossed>>
    BY <1>5 DEF Continue
  <2>2. spent'.work = spent.work /\ shelf[o] \in Used
    BY <1>0, <1>01, <2>1 DEF Mounted, Nothing
  <2>3. Used' = Used
    BY <2>2 DEF Used
  <2>4. /\ opened' \in {opened, opened + 1} /\ fetching' \subseteq fetching
        /\ asking' \subseteq asking /\ owed' \in [Origins -> 0 .. spent'.work]
        /\ crossed' \in BOOLEAN /\ TRUE \in BOOLEAN /\ (o \in Versions) \in BOOLEAN
        /\ UNCHANGED <<outline, kept, shelf, discarding, saving>>
        /\ shelf[o] \in Used' /\ Nothing \in Used' \cup {Nothing}
    BY <1>0, <2>1, <2>2, <2>3
  <2> QED
    BY <1>01, <2>1, <2>4, LoadingTypes
<1>6. ASSUME NEW o \in Origins, DropShelved(o) PROVE EditorTypesInv'
  <2>1. /\ kept' \in [Origins -> 0 .. spent.work] /\ shelf' \in [Origins -> 0 .. spent.work]
        /\ owed' \in [Origins -> 0 .. spent.work]
    BY <1>0, <1>01, <1>6 DEF DropShelved
  <2> QED
    BY <1>0, <1>6, <2>1, SettlingTypes DEF DropShelved
<1>7. CASE Type
  <2>1. /\ spent.work < MaxWork /\ spent' = [spent EXCEPT !.work = spent.work + 1]
        /\ builder' = [builder EXCEPT !.draft = spent.work + 1, !.due = TRUE]
        /\ owed' = [owed EXCEPT ![builder.origin] = spent.work + 1]
        /\ UNCHANGED <<outline, kept, shelf, opened, fetching, discarding, saving, asking, crossed>>
    BY <1>7 DEF Type
  <2>2. /\ spent'.work = spent.work + 1 /\ spent'.mounts = spent.mounts
        /\ spent'.work \in 0 .. MaxWork /\ spent'.work \in 1 .. MaxWork
    BY <1>0, <1>01, <2>1
  <2>3. spent' \in [work : 0 .. MaxWork, mounts : Nat, clicks : Nat, saves : Nat]
    BY <1>0, <2>1, <2>2
  <2>4. /\ Used \subseteq Used' /\ spent'.work \in Used' /\ 0 .. spent.work \subseteq 0 .. spent'.work
        /\ spent'.work \in 0 .. spent'.work
    BY <1>01, <2>2 DEF Used
  <2>5. spent'.work \in Contents
    BY <2>2 DEF Contents
  <2>6. /\ builder' \in Builders(spent'.mounts) /\ builder'.draft \in Used'
        /\ builder'.base \in Used' \cup {Nothing}
    BY <1>0, <2>1, <2>2, <2>4, <2>5 DEF Builders
  <2>7. /\ kept' \in [Origins -> 0 .. spent'.work] /\ shelf' \in [Origins -> 0 .. spent'.work]
        /\ outline' \in [Versions -> Used']
    BY <1>0, <2>1, <2>4
  <2>8. owed' \in [Origins -> 0 .. spent'.work]
    BY <1>0, <2>1, <2>2, <2>4
  <2>9. \A s \in saving' : s.draft \in Used'
    BY <1>0, <2>1, <2>4
  <2> QED
    BY <2>1, <2>2, <2>3, <2>6, <2>7, <2>8, <2>9 DEF EditorTypesInv, PageTypesOK, WorkTypes
<1>8. CASE TypeBack
  <2>1. /\ builder' = [builder EXCEPT !.draft = builder.base, !.due = TRUE]
        /\ builder.base # Nothing
        /\ owed' = [owed EXCEPT ![builder.origin] =
                      IF builder.stored THEN Nothing ELSE kept[builder.origin]]
        /\ UNCHANGED <<outline, kept, shelf, opened, fetching, discarding, saving, asking, spent,
                       crossed>>
    BY <1>8 DEF TypeBack
  <2>2. /\ builder' \in Builders(spent.mounts) /\ builder'.draft = builder.base
        /\ builder'.base = builder.base
    BY <1>0, <2>1 DEF Builders
  <2>3. owed' \in [Origins -> 0 .. spent.work]
    BY <1>0, <1>01, <1>02, <2>1
  <2> QED
    BY <1>0, <2>1, <2>2, <2>3, SettlingTypes
<1>9. CASE Autosave
  <2>1. /\ builder' = [builder EXCEPT !.due = FALSE, !.stored = (Dirty /\ builder.draft # New)]
        /\ kept' = [kept EXCEPT ![builder.origin] =
                      IF Dirty /\ builder.draft # New THEN builder.draft
                      ELSE IF builder.stored THEN Nothing ELSE kept[builder.origin]]
        /\ UNCHANGED <<outline, shelf, opened, fetching, discarding, saving, asking, spent, owed,
                       crossed>>
    BY <1>9 DEF Autosave
  <2>2. /\ builder' \in Builders(spent.mounts) /\ builder'.draft = builder.draft
        /\ builder'.base = builder.base
    BY <1>0, <2>1 DEF Builders
  <2>3. Dirty => builder.draft \in 0 .. spent.work
    BY <1>01 DEF PageInv
  <2>4. kept' \in [Origins -> 0 .. spent.work]
    BY <1>0, <1>01, <1>02, <2>1, <2>3
  <2> QED
    BY <1>0, <2>1, <2>2, <2>4, SettlingTypes
<1>10. CASE DiscardResumed
  <2>1. /\ kept' = [kept EXCEPT ![builder.origin] = Nothing]
        /\ owed' = [owed EXCEPT ![builder.origin] = Nothing]
        /\ builder' = [builder EXCEPT !.origin = New, !.draft = New, !.base = New,
                                  !.stored = FALSE, !.resumed = FALSE, !.due = TRUE]
        /\ UNCHANGED <<outline, shelf, opened, fetching, discarding, saving, asking, spent, crossed>>
    BY <1>10 DEF DiscardResumed
  <2>2. builder' \in Builders(spent.mounts) /\ builder'.draft = New /\ builder'.base = New
    BY <1>0, <1>01, <2>1 DEF Builders, Contents
  <2>3. kept' \in [Origins -> 0 .. spent.work] /\ owed' \in [Origins -> 0 .. spent.work]
    BY <1>0, <1>01, <2>1
  <2> QED
    BY <1>0, <1>01, <2>1, <2>2, <2>3, SettlingTypes
<1>11. CASE KeepResumed \/ CancelConfirm
  <2>1. /\ builder' \in {[builder EXCEPT !.resumed = FALSE], [builder EXCEPT !.confirm = FALSE]}
        /\ UNCHANGED <<outline, kept, shelf, opened, fetching, discarding, saving, asking, spent,
                       owed, crossed>>
    BY <1>11 DEF KeepResumed, CancelConfirm
  <2>2. /\ builder' \in Builders(spent.mounts) /\ builder'.draft = builder.draft
        /\ builder'.base = builder.base
    BY <1>0, <2>1 DEF Builders
  <2> QED
    BY <1>0, <2>1, <2>2, SettlingTypes
<1>12. ASSUME NEW mode \in {"edit", "create"}, RequestSave(mode) \/ ConfirmSave
       PROVE  EditorTypesInv'
  <2>1. /\ builder' \in {[builder EXCEPT !.confirm = TRUE], [builder EXCEPT !.busy = TRUE]}
        /\ IsOpen
        /\ UNCHANGED <<outline, kept, shelf, opened, fetching, discarding, asking, owed, crossed>>
    BY <1>12 DEF RequestSave, ConfirmSave
  <2>2. /\ builder' \in Builders(spent.mounts) /\ builder'.draft = builder.draft
        /\ builder'.base = builder.base
    BY <1>0, <2>1 DEF Builders
  <2>3. CASE UNCHANGED <<saving, spent>>
    BY <1>0, <2>1, <2>2, <2>3, SettlingTypes
  <2>4. CASE Send("edit") \/ Send("create")
    <3>1. /\ spent' = [spent EXCEPT !.saves = @ + 1]
          /\ \E m \in {"edit", "create"} :
               saving' = saving \cup {[mount |-> builder.mount, origin |-> builder.origin,
                                       draft |-> builder.draft, mode |-> m]}
      BY <2>4 DEF Send
    <3>2. /\ spent' \in [work : 0 .. MaxWork, mounts : Nat, clicks : Nat, saves : Nat]
          /\ spent'.work = spent.work /\ spent'.mounts = spent.mounts
      BY <1>0, <3>1
    <3>3. builder.mount \in 1 .. spent.mounts /\ builder.draft \in Contents
      BY <1>0, <2>1 DEF Builders, IsOpen
    <3>4. saving' \subseteq Saves(spent.mounts) /\ \A s \in saving' : s.draft \in Used
      BY <1>0, <1>02, <3>1, <3>3 DEF Saves
    <3>5. Used' = Used
      BY <3>2 DEF Used
    <3> QED
      BY <2>1, <2>2, <3>2, <3>4, <3>5 DEF EditorTypesInv, PageTypesOK, WorkTypes
  <2> QED
    BY <1>12, <2>3, <2>4 DEF RequestSave, ConfirmSave
<1>13. ASSUME NEW s \in saving, Saved(s) PROVE EditorTypesInv'
  <2>1. /\ saving' = saving \ {s}
        /\ outline' \in {outline, [outline EXCEPT ![s.origin] = s.draft]}
        /\ kept' = [kept EXCEPT ![s.origin] = Nothing]
        /\ owed' = [owed EXCEPT ![s.origin] = IF @ = s.draft THEN Nothing ELSE @]
        /\ opened' = opened + 1 /\ builder' = Closed /\ discarding' = FALSE /\ shelf' = kept'
        /\ UNCHANGED <<fetching, asking, spent>>
    BY <1>13 DEF Saved, CloseBuilder
  <2>2. crossed' \in BOOLEAN
    BY <1>13 DEF Saved
  <2>3. /\ kept' \in [Origins -> 0 .. spent.work] /\ owed' \in [Origins -> 0 .. spent.work]
        /\ outline' \in [Versions -> Used]
    BY <1>0, <1>01, <2>1
  <2> QED
    BY <1>0, <1>01, <1>02, <2>1, <2>2, <2>3, SettlingTypes
<1>14. ASSUME NEW s \in saving, SaveFails(s) PROVE EditorTypesInv'
  <2>1. /\ saving' = saving \ {s}
        /\ outline' \in {outline, [outline EXCEPT ![s.origin] = s.draft]}
        /\ \/ builder' = builder
           \/ builder' = [builder EXCEPT !.busy = FALSE, !.confirm = @ /\ s.mode # "create"]
        /\ UNCHANGED <<kept, shelf, opened, fetching, discarding, asking, spent, owed, crossed>>
    BY <1>14 DEF SaveFails
  <2>2. outline' \in [Versions -> Used]
    BY <1>0, <2>1
  <2>3. /\ builder' \in Builders(spent.mounts) /\ builder'.draft = builder.draft
        /\ builder'.base = builder.base
    BY <1>0, <2>1 DEF Builders
  <2> QED
    BY <1>0, <2>1, <2>2, <2>3, SettlingTypes
<1>15. CASE AskAI
  <2>1. /\ IsOpen /\ asking' = asking \cup {builder.mount}
        /\ UNCHANGED <<outline, kept, shelf, opened, fetching, builder, discarding, saving, spent,
                       owed, crossed>>
    BY <1>15 DEF AskAI
  <2>2. builder.mount \in 1 .. spent.mounts
    BY <1>0, <2>1 DEF Builders, IsOpen
  <2>3. Used' = Used
    BY <2>1 DEF Used
  <2> QED
    BY <2>1, <2>2, <2>3 DEF EditorTypesInv, PageTypesOK, WorkTypes
<1>16. ASSUME NEW m \in asking, Proposed(m) PROVE EditorTypesInv'
  <2> DEFINE from == IF IsOpen THEN builder.from ELSE New
             fresh == spent.work + 1
  <2>1. /\ spent.work < MaxWork /\ asking' = asking \ {m} /\ opened' = opened + 1
        /\ Load(from, fresh, Nothing, FALSE, TRUE) /\ spent' = Mounted(0, 1)
        /\ UNCHANGED <<outline, kept, shelf, fetching, discarding, saving>>
    BY <1>16 DEF Proposed
  <2>2. /\ crossed' \in BOOLEAN
        /\ \A o \in Origins : owed'[o] \in {fresh, Nothing, kept[o], owed[o]}
        /\ owed' = [o \in Origins |-> owed'[o]]
    BY <1>16 DEF Proposed
  <2>3. from \in Origins
    BY <1>01, <1>02
  <2> HIDE DEF from
  <2>4. spent'.work = spent.work + 1
    BY <2>1 DEF Mounted
  <2>5. /\ fresh \in 1 .. spent'.work /\ fresh \in 0 .. spent'.work
        /\ 0 .. spent.work \subseteq 0 .. spent'.work /\ spent.work + 1 <= MaxWork
    BY <1>01, <2>1, <2>4
  <2>6. fresh \in Used'
    BY <2>5 DEF Used
  <2>7. \A o \in Origins : owed'[o] \in 0 .. spent'.work
    BY <1>0, <1>01, <2>2, <2>5
  <2>8. owed' \in [Origins -> 0 .. spent'.work]
    BY <2>2, <2>7
  <2> HIDE DEF fresh
  <2>9. /\ opened' \in {opened, opened + 1} /\ fetching' \subseteq fetching
        /\ asking' \subseteq asking /\ FALSE \in BOOLEAN /\ TRUE \in BOOLEAN
        /\ UNCHANGED <<outline, kept, shelf, discarding, saving>>
        /\ Nothing \in Used' \cup {Nothing}
    BY <2>1
  <2> QED
    BY <1>01, <2>1, <2>2, <2>3, <2>5, <2>6, <2>8, <2>9, LoadingTypes
<1>17. ASSUME NEW m \in asking, ProposalFails(m) PROVE EditorTypesInv'
  BY <1>0, <1>17, SettlingTypes DEF ProposalFails
<1>18. CASE RequestClose \/ KeepEditing
  <2>1. /\ UNCHANGED <<outline, kept, fetching, saving, asking, spent, owed, crossed>>
        /\ opened' \in {opened, opened + 1} /\ builder' \in {builder, Closed}
        /\ discarding' \in BOOLEAN /\ shelf' \in {shelf, kept}
    BY <1>18 DEF RequestClose, KeepEditing, CloseBuilder
  <2> QED
    BY <1>0, <1>01, <1>02, <2>1, SettlingTypes
<1>19. CASE Discard
  <2>1. /\ kept' = [kept EXCEPT ![builder.origin] = Nothing]
        /\ owed' = [owed EXCEPT ![builder.origin] = Nothing]
        /\ opened' = opened + 1 /\ builder' = Closed /\ discarding' = FALSE /\ shelf' = kept'
        /\ UNCHANGED <<outline, fetching, saving, asking, spent, crossed>>
    BY <1>19 DEF Discard, CloseBuilder
  <2>2. kept' \in [Origins -> 0 .. spent.work] /\ owed' \in [Origins -> 0 .. spent.work]
    BY <1>0, <1>01, <2>1
  <2> QED
    BY <1>0, <1>01, <1>02, <2>1, <2>2, SettlingTypes
<1>20. CASE Reload
  <2>1. /\ opened' = 0 /\ builder' = Closed /\ discarding' = FALSE /\ fetching' = {}
        /\ saving' = {} /\ asking' = {} /\ shelf' = kept
        /\ owed' \in {owed, [owed EXCEPT ![builder.origin] = kept[builder.origin]]}
        /\ UNCHANGED <<outline, kept, spent, crossed>>
    BY <1>20 DEF Reload
  <2>2. owed' \in [Origins -> 0 .. spent.work]
    BY <1>0, <1>02, <2>1
  <2> QED
    BY <1>0, <1>01, <1>02, <2>1, <2>2, SettlingTypes
<1>21. CASE UNCHANGED editorVars
  BY <1>0, <1>21, SettlingTypes DEF editorVars
<1> QED
  BY <1>1, <1>2, <1>3, <1>4, <1>5, <1>6, <1>7, <1>8, <1>9, <1>10, <1>11, <1>12, <1>13, <1>14,
     <1>15, <1>16, <1>17, <1>18, <1>19, <1>20, <1>21 DEF EditorNext
-----------------------------------------------------------------------------
\* A page that shows and keeps what it did, whatever its marks and requests say.
LEMMA SameWork ==
    ASSUME EditorInv, UNCHANGED <<kept, owed, shelf>>, spent'.work = spent.work,
           \A field \in {"mount", "origin", "draft", "base", "stored", "due"} :
               builder'[field] = builder[field],
           builder'.resumed => builder.resumed, saving' \subseteq saving, crossed' = crossed
    PROVE  PageInv' /\ WorkInv'
<1>0. PageInv /\ WorkInv
  BY DEF EditorInv
<1>1. /\ builder'.mount = builder.mount /\ builder'.origin = builder.origin
      /\ builder'.draft = builder.draft /\ builder'.base = builder.base
      /\ builder'.stored = builder.stored /\ builder'.due = builder.due
  OBVIOUS
<1>2. (IsOpen' <=> IsOpen) /\ (Dirty' <=> Dirty) /\ Mine' = Mine /\ Slot' = Slot
  BY <1>1 DEF IsOpen, Dirty, Mine, Slot
<1>3. PageInv'
  BY <1>0, <1>1, <1>2 DEF PageInv
<1>4. \A o \in Origins : Survives(o) => Survives(o)'
  BY <1>1, <1>2 DEF Survives
<1>5. WorkInv'
  BY <1>0, <1>1, <1>2, <1>4 DEF WorkInv, AllSurvive, ChangedIsShown, KeptWhenNotDue, SentElsewhere
<1> QED
  BY <1>3, <1>5

\* A page that closes its builder once what is owed is kept.
LEMMA ClosedWork ==
    ASSUME builder' = Closed, shelf' = kept',
           ~crossed' => \A o \in Origins : owed'[o] # Nothing => owed'[o] = kept'[o]
    PROVE  PageInv' /\ WorkInv'
<1>1. ~IsOpen' /\ ~Dirty'
  BY ClosedTypes DEF IsOpen, Dirty
<1> QED
  BY <1>1 DEF PageInv, WorkInv, AllSurvive, Survives, ChangedIsShown, KeptWhenNotDue, SentElsewhere

\* A builder that is mounted anew, with a content from the server or with the
\* one in its slot.
LEMMA MountedWork ==
    ASSUME EditorInv, ~IsOpen, NEW from \in Origins, NEW draft, NEW base,
           NEW resumed \in BOOLEAN, NEW panel, Load(from, draft, base, resumed, panel),
           \/ draft = base /\ ~resumed
           \/ base = Nothing /\ draft = kept[from] /\ draft # Nothing,
           UNCHANGED <<kept, owed, shelf, saving, crossed>>, spent'.work = spent.work
    PROVE  PageInv' /\ WorkInv'
<1>0. /\ WorkInv /\ WorkTypes /\ PageTypesOK /\ spent.mounts \in Nat
      /\ kept \in [Origins -> 0 .. spent.work] /\ spent.work \in Nat
  BY EditorAssumption DEF EditorInv, WorkTypes
<1>1. /\ builder'.mount = spent.mounts + 1 /\ builder'.origin = from /\ builder'.draft = draft
      /\ builder'.base = base /\ builder'.stored = FALSE /\ builder'.due = TRUE
      /\ builder'.resumed = resumed
  BY DEF Load
<1>2. IsOpen' /\ (Dirty' <=> draft # base) /\ Mine' = owed[from] /\ Slot' = kept[from]
  BY <1>0, <1>1 DEF IsOpen, Dirty, Mine, Slot
<1>3. \A s \in saving : s.mount # builder'.mount
  BY <1>0, <1>1 DEF PageTypesOK, Saves
<1>4. Dirty' => draft = kept[from] /\ draft \in 1 .. spent.work
  BY <1>0, <1>2 DEF Nothing
<1>5. PageInv'
  <2>1. resumed => base = Nothing
    OBVIOUS
  <2> QED
    BY <1>1, <1>2, <1>3, <1>4, <2>1 DEF PageInv
<1>6. ~crossed => \A o \in Origins : owed[o] # Nothing => owed[o] = kept[o]
  BY <1>0 DEF WorkInv, AllSurvive, Survives
<1>7. WorkInv'
  BY <1>1, <1>2, <1>3, <1>4, <1>6
     DEF WorkInv, AllSurvive, Survives, ChangedIsShown, KeptWhenNotDue, SentElsewhere
<1> QED
  BY <1>5, <1>7
-----------------------------------------------------------------------------
\* Every step of the page keeps the work.
LEMMA EditorWorkStep == EditorInv /\ [EditorNext]_editorVars => PageInv' /\ WorkInv'
<1> SUFFICES ASSUME EditorInv, [EditorNext]_editorVars PROVE PageInv' /\ WorkInv'
  OBVIOUS
<1>0. EditorTypesInv /\ PageTypesOK /\ WorkTypes /\ PageInv /\ WorkInv
  BY DEF EditorInv, EditorTypesInv
<1>00. /\ kept \in [Origins -> 0 .. spent.work] /\ owed \in [Origins -> 0 .. spent.work]
       /\ shelf \in [Origins -> 0 .. spent.work] /\ builder \in Builders(spent.mounts)
       /\ builder.origin \in Origins /\ builder.from \in Origins /\ builder.draft \in Used
       /\ \A s \in saving : s.draft \in Used /\ s.origin \in Origins
       /\ \A f \in fetching : f.version \in Versions
       /\ spent.work \in Nat /\ Versions \subseteq Origins
  BY <1>0, TokensApart DEF PageTypesOK, WorkTypes, Builders, Saves, Origins
<1>01. /\ Nothing \notin Origins /\ Nothing \notin Used /\ New \in Origins
       /\ New \notin 0 .. spent.work
       /\ spent.work < MaxWork => spent.work + 1 \notin Used \cup 0 .. spent.work
  BY <1>0, TokensApart
<1>02. ~crossed => \A o \in Origins \ {builder.origin} : owed[o] # Nothing => owed[o] = kept[o]
  BY <1>0 DEF WorkInv, AllSurvive, Survives
<1>03. ~crossed /\ ~IsOpen => \A o \in Origins : owed[o] # Nothing => owed[o] = kept[o]
  BY <1>0 DEF WorkInv, AllSurvive, Survives
<1>1. ASSUME NEW panel \in BOOLEAN, OpenBlank(panel) PROVE PageInv' /\ WorkInv'
  <2>1. /\ ~IsOpen /\ Load(New, New, New, FALSE, panel) /\ spent' = Mounted(1, 0)
        /\ UNCHANGED <<kept, owed, shelf, saving, crossed>>
    BY <1>1 DEF OpenBlank
  <2>2. spent'.work = spent.work
    BY <1>00, <2>1 DEF Mounted
  <2> QED
    BY <1>01, <2>1, <2>2, MountedWork
<1>2. ASSUME NEW v \in Versions, ClickRow(v) PROVE PageInv' /\ WorkInv'
  <2>1. UNCHANGED <<kept, owed, shelf, builder, saving, crossed>> /\ spent'.work = spent.work
    BY <1>0, <1>2 DEF ClickRow, WorkTypes
  <2> QED
    BY <2>1, SameWork
<1>3. ASSUME NEW f \in fetching, RowArrives(f) PROVE PageInv' /\ WorkInv'
  <2>1. UNCHANGED <<kept, owed, shelf, saving>> /\ f.version \in Origins
    BY <1>00, <1>3 DEF RowArrives
  <2>2. CASE f.serial # opened
    <3>1. UNCHANGED <<builder, spent, crossed>>
      BY <1>3, <2>2 DEF RowArrives
    <3> QED
      BY <2>1, <3>1, SameWork
  <2>3. CASE f.serial = opened
    <3>1. /\ Load(f.version, outline[f.version], outline[f.version], FALSE, TRUE)
          /\ spent' = Mounted(0, 0) /\ crossed' = (crossed \/ IsOpen)
      BY <1>3, <2>3 DEF RowArrives
    <3>2. spent'.work = spent.work
      BY <1>00, <3>1 DEF Mounted
    <3>3. CASE IsOpen
      <4>1. ~Dirty' /\ IsOpen' /\ crossed' /\ ~builder'.resumed
        BY <3>1, <3>3 DEF Load, Dirty, IsOpen
      <4> QED
        BY <4>1 DEF PageInv, WorkInv
    <3>4. CASE ~IsOpen
      <4>1. crossed' = crossed
        BY <1>0, <3>1, <3>4 DEF PageTypesOK
      <4> QED
        BY <2>1, <3>1, <3>2, <3>4, <4>1, MountedWork
    <3> QED
      BY <3>3, <3>4
  <2> QED
    BY <2>2, <2>3
<1>4. ASSUME NEW f \in fetching, RowFails(f) PROVE PageInv' /\ WorkInv'
  BY <1>4, SameWork DEF RowFails
<1>5. ASSUME NEW o \in Origins, Continue(o) PROVE PageInv' /\ WorkInv'
  <2>1. /\ ~IsOpen /\ Load(o, shelf[o], Nothing, TRUE, o \in Versions) /\ spent' = Mounted(1, 0)
        /\ shelf[o] # Nothing /\ UNCHANGED <<kept, owed, shelf, saving, crossed>>
    BY <1>5 DEF Continue
  <2>2. spent'.work = spent.work
    BY <1>00, <2>1 DEF Mounted
  <2>3. shelf[o] = kept[o]
    BY <1>0, <2>1 DEF PageInv
  <2> QED
    BY <2>1, <2>2, <2>3, MountedWork
<1>6. ASSUME NEW o \in Origins, DropShelved(o) PROVE PageInv' /\ WorkInv'
  <2>1. /\ ~IsOpen /\ kept' = [kept EXCEPT ![o] = Nothing] /\ shelf' = kept'
        /\ owed' = [owed EXCEPT ![o] = Nothing]
        /\ UNCHANGED <<builder, saving, spent, crossed>>
    BY <1>6 DEF DropShelved
  <2>2. ~IsOpen' /\ ~Dirty'
    BY <1>0, <2>1 DEF IsOpen, Dirty, PageInv
  <2>3. ~crossed => \A p \in Origins : owed'[p] # Nothing => owed'[p] = kept'[p]
    BY <1>00, <1>03, <2>1
  <2> QED
    BY <2>1, <2>2, <2>3
       DEF PageInv, WorkInv, AllSurvive, Survives, ChangedIsShown, KeptWhenNotDue, SentElsewhere
<1>7. CASE Type
  <2> DEFINE fresh == spent.work + 1
  <2>1. /\ IsOpen /\ spent.work < MaxWork /\ spent' = [spent EXCEPT !.work = fresh]
        /\ builder' = [builder EXCEPT !.draft = fresh, !.due = TRUE]
        /\ owed' = [owed EXCEPT ![builder.origin] = fresh]
        /\ UNCHANGED <<kept, shelf, saving, crossed>>
    BY <1>7 DEF Type
  <2>2. /\ builder'.mount = builder.mount /\ builder'.origin = builder.origin
        /\ builder'.draft = fresh /\ builder'.base = builder.base /\ builder'.due = TRUE
        /\ builder'.stored = builder.stored /\ builder'.resumed = builder.resumed
    BY <1>00, <2>1 DEF Builders
  <2>3. spent'.work = fresh /\ fresh \in 1 .. spent'.work
    BY <1>0, <1>00, <2>1 DEF WorkTypes
  <2>4. fresh # builder.base /\ \A s \in saving : s.draft # fresh
    <3>1. builder.base \in Used \cup (0 .. spent.work)
      BY <1>0, <1>00 DEF WorkTypes, Nothing
    <3> QED
      BY <1>00, <1>01, <2>1, <3>1
  <2> HIDE DEF fresh
  <2>5. IsOpen' /\ Dirty'
    BY <2>1, <2>2, <2>4 DEF IsOpen, Dirty
  <2>6. PageInv'
    BY <1>0, <2>1, <2>2, <2>3, <2>5 DEF PageInv
  <2>7. /\ owed'[builder.origin] = fresh
        /\ \A o \in Origins \ {builder.origin} : owed'[o] = owed[o]
    BY <1>00, <2>1
  <2>8. AllSurvive' \/ crossed'
    BY <1>02, <2>1, <2>2, <2>5, <2>7 DEF AllSurvive, Survives
  <2>9. ChangedIsShown' /\ KeptWhenNotDue'
    BY <2>2, <2>5, <2>7 DEF ChangedIsShown, KeptWhenNotDue, Mine
  <2>10. SentElsewhere' \/ crossed'
    BY <1>0, <2>1, <2>2, <2>4 DEF WorkInv, SentElsewhere
  <2> QED
    BY <2>6, <2>8, <2>9, <2>10 DEF WorkInv
<1>8. CASE TypeBack
  <2>1. /\ IsOpen /\ Dirty /\ builder.base # Nothing
        /\ builder' = [builder EXCEPT !.draft = builder.base, !.due = TRUE]
        /\ owed' = [owed EXCEPT ![builder.origin] =
                      IF builder.stored THEN Nothing ELSE kept[builder.origin]]
        /\ UNCHANGED <<kept, shelf, saving, spent, crossed>>
    BY <1>8 DEF TypeBack
  <2>2. /\ builder'.mount = builder.mount /\ builder'.origin = builder.origin
        /\ builder'.draft = builder.base /\ builder'.base = builder.base /\ builder'.due = TRUE
        /\ builder'.stored = builder.stored /\ builder'.resumed = builder.resumed
    BY <1>00, <2>1 DEF Builders
  <2>3. IsOpen' /\ ~Dirty'
    BY <2>1, <2>2 DEF IsOpen, Dirty
  <2>4. PageInv'
    BY <1>0, <2>1, <2>2, <2>3 DEF PageInv
  <2>5. /\ owed'[builder.origin] = IF builder.stored THEN Nothing ELSE kept[builder.origin]
        /\ \A o \in Origins \ {builder.origin} : owed'[o] = owed[o]
    BY <1>00, <2>1
  <2>6. AllSurvive' \/ crossed'
    BY <1>02, <2>1, <2>5 DEF AllSurvive, Survives
  <2>7. ChangedIsShown' /\ KeptWhenNotDue'
    BY <2>1, <2>2, <2>3, <2>5 DEF ChangedIsShown, KeptWhenNotDue, Mine, Slot
  <2>8. SentElsewhere' \/ crossed'
    BY <1>0, <2>1, <2>2 DEF WorkInv, SentElsewhere, IsOpen
  <2> QED
    BY <2>4, <2>6, <2>7, <2>8 DEF WorkInv
<1>9. CASE Autosave
  <2> DEFINE keep == Dirty /\ builder.draft # New
  <2>1. /\ IsOpen /\ builder' = [builder EXCEPT !.due = FALSE, !.stored = keep]
        /\ kept' = [kept EXCEPT ![builder.origin] =
                      IF keep THEN builder.draft
                      ELSE IF builder.stored THEN Nothing ELSE kept[builder.origin]]
        /\ UNCHANGED <<shelf, saving, spent, owed, crossed>>
    BY <1>9 DEF Autosave
  <2>2. keep <=> Dirty
    BY <1>0, <1>01 DEF PageInv
  <2>3. /\ builder'.mount = builder.mount /\ builder'.origin = builder.origin
        /\ builder'.draft = builder.draft /\ builder'.base = builder.base
        /\ builder'.stored = keep /\ builder'.resumed = builder.resumed
    BY <1>00, <2>1 DEF Builders
  <2> HIDE DEF keep
  <2>4. (IsOpen' <=> IsOpen) /\ (Dirty' <=> Dirty)
    BY <2>3 DEF IsOpen, Dirty
  <2>5. PageInv'
    BY <1>0, <2>1, <2>3, <2>4 DEF PageInv
  <2>6. /\ kept'[builder.origin] = IF keep THEN builder.draft
                                   ELSE IF builder.stored THEN Nothing ELSE kept[builder.origin]
        /\ \A o \in Origins \ {builder.origin} : kept'[o] = kept[o]
    BY <1>00, <2>1
  <2>7. ~crossed => ChangedIsShown
    BY <1>0 DEF WorkInv
  <2>8. ~crossed /\ Mine # Nothing => /\ Mine = kept'[builder.origin]
                                      /\ IF Dirty THEN Mine = builder.draft ELSE ~keep
    BY <2>1, <2>2, <2>6, <2>7 DEF ChangedIsShown, Slot
  <2>9. Mine' = Mine /\ Slot' = kept'[builder.origin] /\ Mine = owed[builder.origin]
    BY <2>1, <2>3 DEF Mine, Slot
  <2>10. AllSurvive' \/ crossed'
    BY <1>02, <2>1, <2>6, <2>8, <2>9 DEF AllSurvive, Survives
  <2>11. ChangedIsShown' \/ crossed'
    BY <2>1, <2>3, <2>4, <2>8, <2>9 DEF ChangedIsShown
  <2>12. KeptWhenNotDue' \/ crossed'
    BY <2>1, <2>8, <2>9 DEF KeptWhenNotDue
  <2>13. SentElsewhere' \/ crossed'
    BY <1>0, <2>1, <2>3 DEF WorkInv, SentElsewhere, IsOpen
  <2> QED
    BY <2>5, <2>10, <2>11, <2>12, <2>13 DEF WorkInv
<1>10. CASE DiscardResumed
  <2>1. /\ IsOpen /\ builder.resumed
        /\ kept' = [kept EXCEPT ![builder.origin] = Nothing]
        /\ owed' = [owed EXCEPT ![builder.origin] = Nothing]
        /\ builder' = [builder EXCEPT !.origin = New, !.draft = New, !.base = New,
                                  !.stored = FALSE, !.resumed = FALSE, !.due = TRUE]
        /\ UNCHANGED <<saving, spent, crossed>>
    BY <1>10 DEF DiscardResumed
  <2>2. /\ builder'.mount = builder.mount /\ builder'.origin = New
        /\ builder'.draft = New /\ builder'.base = New /\ builder'.due = TRUE
        /\ builder'.stored = FALSE /\ builder'.resumed = FALSE
    BY <1>00, <2>1 DEF Builders
  <2>3. IsOpen' /\ ~Dirty'
    BY <2>1, <2>2 DEF IsOpen, Dirty
  <2>4. PageInv'
    BY <2>2, <2>3 DEF PageInv
  <2>5. ~crossed => \A o \in Origins : owed'[o] # Nothing => owed'[o] = kept'[o]
    BY <1>00, <1>02, <2>1
  <2>6. \A s \in saving : s.mount = builder.mount => s.draft # New
    BY <1>0, <2>1 DEF PageInv
  <2>7. WorkInv'
    BY <1>01, <2>1, <2>2, <2>3, <2>5, <2>6
       DEF WorkInv, AllSurvive, Survives, ChangedIsShown, KeptWhenNotDue, SentElsewhere, Mine, Slot
  <2> QED
    BY <2>4, <2>7
<1>11. CASE KeepResumed \/ CancelConfirm
  <2>1. /\ builder' \in {[builder EXCEPT !.resumed = FALSE], [builder EXCEPT !.confirm = FALSE]}
        /\ UNCHANGED <<kept, owed, shelf, saving, spent, crossed>>
    BY <1>11 DEF KeepResumed, CancelConfirm
  <2>2. /\ \A field \in {"mount", "origin", "draft", "base", "stored", "due"} :
              builder'[field] = builder[field]
        /\ builder'.resumed => builder.resumed
    BY <1>00, <2>1 DEF Builders
  <2> QED
    BY <2>1, <2>2, SameWork
<1>12. ASSUME NEW mode \in {"edit", "create"}, RequestSave(mode) \/ ConfirmSave
       PROVE  PageInv' /\ WorkInv'
  <2>1. /\ builder' \in {[builder EXCEPT !.confirm = TRUE], [builder EXCEPT !.busy = TRUE]}
        /\ IsOpen /\ UNCHANGED <<kept, owed, shelf, crossed>>
        /\ UNCHANGED <<saving, spent>> \/ Send("edit") \/ Send("create")
    BY <1>12 DEF RequestSave, ConfirmSave
  <2>2. /\ \A field \in {"mount", "origin", "draft", "base", "stored", "due"} :
              builder'[field] = builder[field]
        /\ builder'.resumed = builder.resumed
    BY <1>00, <2>1 DEF Builders
  <2>3. CASE UNCHANGED <<saving, spent>>
    BY <2>1, <2>2, <2>3, SameWork
  <2>4. CASE Send("edit") \/ Send("create")
    <3>1. PICK m \in {"edit", "create"} :
             /\ spent' = [spent EXCEPT !.saves = @ + 1]
             /\ saving' = saving \cup {[mount |-> builder.mount, origin |-> builder.origin,
                                        draft |-> builder.draft, mode |-> m]}
      BY <2>4 DEF Send
    <3> DEFINE sent == [mount |-> builder.mount, origin |-> builder.origin,
                        draft |-> builder.draft, mode |-> m]
    <3>2. /\ saving' = saving \cup {sent} /\ sent.mount = builder.mount
          /\ sent.origin = builder.origin /\ sent.draft = builder.draft
      BY <3>1
    <3> HIDE DEF sent
    <3>3. spent'.work = spent.work
      BY <1>0, <3>1 DEF WorkTypes
    <3>4. /\ builder'.mount = builder.mount /\ builder'.origin = builder.origin
          /\ builder'.draft = builder.draft /\ builder'.base = builder.base
          /\ builder'.stored = builder.stored /\ builder'.due = builder.due
      BY <2>2
    <3>5. (IsOpen' <=> IsOpen) /\ (Dirty' <=> Dirty) /\ Mine' = Mine /\ Slot' = Slot
      BY <2>1, <3>4 DEF IsOpen, Dirty, Mine, Slot
    <3>6. builder.resumed => builder.draft # New
      BY <1>0, <1>00, <1>01, <2>1 DEF PageInv, Dirty
    <3>7. PageInv'
      BY <1>0, <2>1, <2>2, <3>2, <3>3, <3>4, <3>5, <3>6 DEF PageInv
    <3>8. \A o \in Origins : Survives(o) => Survives(o)'
      BY <2>1, <3>4, <3>5 DEF Survives
    <3>9. WorkInv'
      BY <1>0, <2>1, <3>2, <3>4, <3>5, <3>8
         DEF WorkInv, AllSurvive, ChangedIsShown, KeptWhenNotDue, SentElsewhere
    <3> QED
      BY <3>7, <3>9
  <2> QED
    BY <2>1, <2>3, <2>4
<1>13. ASSUME NEW s \in saving, Saved(s) PROVE PageInv' /\ WorkInv'
  <2>1. /\ kept' = [kept EXCEPT ![s.origin] = Nothing]
        /\ owed' = [owed EXCEPT ![s.origin] = IF @ = s.draft THEN Nothing ELSE @]
        /\ builder' = Closed /\ shelf' = kept'
        /\ crossed' = (crossed \/ owed'[s.origin] # Nothing
                               \/ (IsOpen /\ ~Meets(s.mount, s.draft)))
    BY <1>13 DEF Saved, CloseBuilder
  <2>2. ASSUME ~crossed', NEW o \in Origins, owed'[o] # Nothing PROVE owed'[o] = kept'[o]
    <3>1. ~crossed /\ owed'[s.origin] = Nothing /\ (IsOpen => Meets(s.mount, s.draft))
      BY <2>1, <2>2
    <3>2. o # s.origin /\ owed'[o] = owed[o] /\ kept'[o] = kept[o]
      BY <1>00, <2>1, <2>2, <3>1
    <3>3. IsOpen => builder.origin = s.origin
      BY <1>0, <3>1 DEF WorkInv, SentElsewhere, Meets
    <3> QED
      BY <1>02, <1>03, <2>2, <3>1, <3>2, <3>3
  <2> QED
    BY <2>1, <2>2, ClosedWork
<1>14. ASSUME NEW s \in saving, SaveFails(s) PROVE PageInv' /\ WorkInv'
  <2>1. /\ saving' = saving \ {s} /\ UNCHANGED <<kept, owed, shelf, spent, crossed>>
        /\ \/ builder' = builder
           \/ builder' = [builder EXCEPT !.busy = FALSE, !.confirm = @ /\ s.mode # "create"]
    BY <1>14 DEF SaveFails
  <2>2. /\ \A field \in {"mount", "origin", "draft", "base", "stored", "due"} :
              builder'[field] = builder[field]
        /\ builder'.resumed = builder.resumed
    BY <1>00, <2>1 DEF Builders
  <2> QED
    BY <2>1, <2>2, SameWork
<1>15. CASE AskAI
  BY <1>15, SameWork DEF AskAI
<1>16. ASSUME NEW m \in asking, Proposed(m) PROVE PageInv' /\ WorkInv'
  <2> DEFINE from == IF IsOpen THEN builder.from ELSE New
             fresh == spent.work + 1
             replaced == IF IsOpen /\ Dirty THEN {builder.origin} ELSE {}
  <2>1. /\ spent.work < MaxWork /\ Load(from, fresh, Nothing, FALSE, TRUE)
        /\ spent' = Mounted(0, 1) /\ UNCHANGED <<kept, shelf, saving>>
        /\ owed' = [o \in Origins |-> IF o = from THEN fresh
                                      ELSE IF o \in replaced /\ kept[o] = Nothing THEN Nothing
                                      ELSE IF o \in replaced THEN kept[o]
                                      ELSE owed[o]]
        /\ crossed' = (crossed \/ ~IsOpen \/ builder.mount # m)
    BY <1>16 DEF Proposed
  <2>2. /\ builder'.mount = (IF IsOpen THEN builder.mount ELSE spent.mounts + 1)
        /\ builder'.origin = from /\ builder'.draft = fresh /\ builder'.base = Nothing
        /\ builder'.resumed = FALSE /\ builder'.due = TRUE
    BY <2>1 DEF Load
  <2>3. spent'.work = fresh /\ fresh \in 1 .. fresh /\ fresh # Nothing
    BY <1>00, <2>1 DEF Mounted, Nothing
  <2>4. \A s \in saving : s.draft \notin {fresh, Nothing}
    BY <1>00, <1>01, <2>1
  <2>5. from \in Origins
    BY <1>00, <1>01
  <2>6. IsOpen' /\ Dirty'
    <3>1. builder'.mount # 0
      BY <1>0, <2>2 DEF WorkTypes, IsOpen
    <3> QED
      BY <2>2, <2>3, <3>1 DEF IsOpen, Dirty
  <2>7. \A o \in Origins : owed'[o] = IF o = from THEN fresh
                                      ELSE IF o \in replaced /\ kept[o] = Nothing THEN Nothing
                                      ELSE IF o \in replaced THEN kept[o]
                                      ELSE owed[o]
    BY <2>1
  <2>8. ASSUME ~crossed', NEW o \in Origins, o # from, owed'[o] # Nothing PROVE owed'[o] = kept[o]
    <3>1. ~crossed /\ IsOpen
      BY <2>1, <2>8
    <3>2. CASE o \in replaced
      BY <2>7, <2>8, <3>2
    <3>3. CASE o \notin replaced
      <4>1. owed'[o] = owed[o] /\ (o = builder.origin => ~Dirty)
        BY <2>7, <2>8, <3>1, <3>3
      <4>2. CASE o = builder.origin
        BY <1>0, <2>8, <3>1, <4>1, <4>2 DEF WorkInv, ChangedIsShown, Mine, Slot
      <4>3. CASE o # builder.origin
        BY <1>02, <2>8, <3>1, <4>1, <4>3
      <4> QED
        BY <4>2, <4>3
    <3> QED
      BY <3>2, <3>3
  <2> HIDE DEF from, fresh, replaced
  <2>9. PageInv'
    BY <2>2, <2>3, <2>6 DEF PageInv
  <2>10. owed'[from] = fresh
    BY <2>5, <2>7
  <2>11. AllSurvive' \/ crossed'
    BY <2>1, <2>2, <2>6, <2>8, <2>10 DEF AllSurvive, Survives
  <2>12. ChangedIsShown' /\ KeptWhenNotDue' /\ SentElsewhere'
    BY <2>1, <2>2, <2>4, <2>6, <2>10 DEF ChangedIsShown, KeptWhenNotDue, SentElsewhere, Mine
  <2> QED
    BY <2>9, <2>11, <2>12 DEF WorkInv
<1>17. ASSUME NEW m \in asking, ProposalFails(m) PROVE PageInv' /\ WorkInv'
  BY <1>17, SameWork DEF ProposalFails
<1>18. CASE RequestClose
  <2>1. UNCHANGED <<kept, saving, spent, owed, crossed>> /\ IsOpen
    BY <1>18 DEF RequestClose
  <2>2. CASE Dirty
    <3>1. UNCHANGED <<builder, shelf>>
      BY <1>18, <2>2 DEF RequestClose
    <3> QED
      BY <2>1, <3>1, SameWork
  <2>3. CASE ~Dirty
    <3>1. builder' = Closed /\ shelf' = kept'
      BY <1>18, <2>3 DEF RequestClose, CloseBuilder
    <3>2. ~crossed => \A o \in Origins : owed[o] # Nothing => owed[o] = kept[o]
      BY <1>0, <1>02, <2>1, <2>3 DEF WorkInv, ChangedIsShown, Mine, Slot
    <3> QED
      BY <2>1, <3>1, <3>2, ClosedWork
  <2> QED
    BY <2>2, <2>3
<1>19. CASE KeepEditing
  BY <1>19, SameWork DEF KeepEditing
<1>20. CASE Discard
  <2>1. /\ kept' = [kept EXCEPT ![builder.origin] = Nothing]
        /\ owed' = [owed EXCEPT ![builder.origin] = Nothing]
        /\ builder' = Closed /\ shelf' = kept' /\ crossed' = crossed
    BY <1>20 DEF Discard, CloseBuilder
  <2>2. ~crossed => \A o \in Origins : owed'[o] # Nothing => owed'[o] = kept'[o]
    BY <1>00, <1>02, <2>1
  <2> QED
    BY <2>1, <2>2, ClosedWork
<1>21. CASE Reload
  <2>1. /\ builder' = Closed /\ shelf' = kept /\ UNCHANGED <<kept, crossed>>
        /\ owed' = IF builder.due THEN [owed EXCEPT ![builder.origin] = kept[builder.origin]]
                   ELSE owed
    BY <1>21 DEF Reload
  <2>2. ASSUME ~crossed, NEW o \in Origins, owed'[o] # Nothing PROVE owed'[o] = kept[o]
    <3>1. CASE o # builder.origin
      BY <1>00, <1>02, <2>1, <2>2, <3>1
    <3>2. CASE o = builder.origin /\ builder.due
      BY <1>00, <2>1, <3>2
    <3>3. CASE o = builder.origin /\ ~builder.due
      BY <1>0, <1>03, <2>1, <2>2, <3>3 DEF WorkInv, KeptWhenNotDue, Mine, Slot
    <3> QED
      BY <3>1, <3>2, <3>3
  <2> QED
    BY <2>1, <2>2, ClosedWork
<1>22. CASE UNCHANGED editorVars
  BY <1>22, SameWork DEF editorVars
<1> QED
  BY <1>1, <1>2, <1>3, <1>4, <1>5, <1>6, <1>7, <1>8, <1>9, <1>10, <1>11, <1>12, <1>13, <1>14,
     <1>15, <1>16, <1>17, <1>18, <1>19, <1>20, <1>21, <1>22 DEF EditorNext

\* The page starts with nothing open, kept or owed.
LEMMA EditorInvInit == EditorInit => EditorInv
<1> SUFFICES ASSUME EditorInit PROVE EditorInv
  OBVIOUS
<1>1. /\ builder = Closed /\ shelf = kept /\ owed = kept /\ saving = {} /\ fetching = {}
      /\ asking = {} /\ opened = 0 /\ discarding = FALSE /\ crossed = FALSE
      /\ kept = [o \in Origins |-> Nothing] /\ outline = [v \in Versions |-> v]
      /\ spent = [work |-> 0, mounts |-> 0, clicks |-> 0, saves |-> 0]
  BY DEF EditorInit
<1>2. PageTypesOK
  BY <1>1, ClosedTypes DEF PageTypesOK
<1>3. WorkTypes
  BY <1>1, ClosedTypes, EditorAssumption DEF WorkTypes, Used, Origins, Nothing
<1>4. PageInv /\ WorkInv
  BY <1>1, ClosedTypes DEF PageInv, WorkInv, IsOpen, Dirty, AllSurvive, Survives, ChangedIsShown,
                           KeptWhenNotDue, SentElsewhere
<1> QED
  BY <1>2, <1>3, <1>4 DEF EditorInv

\* One step after the other.
LEMMA EditorInvStep == EditorInv /\ [EditorNext]_editorVars => EditorInv'
BY EditorTypesStep, EditorWorkStep DEF EditorInv, EditorTypesInv

\* What the page, its slots and its requests hold always has its type.
THEOREM EditorTypeCorrect == EditorSpec => []EditorTypeOK
<1>1. EditorInv => EditorTypeOK
  BY EditorTypes DEF EditorInv, EditorTypesInv
<1> QED
  BY <1>1, EditorInvInit, EditorInvStep, PTL DEF EditorSpec

\* Unsaved work on a taxonomy is in the builder or in its own slot until its
\* author saves or discards it or a reply crosses another page, for every
\* number of taxonomies, openings and saves (curriculum-library.tsx).
THEOREM WorkIsNotLost == EditorSpec => []UnsavedWorkSurvives
<1>1. EditorInv => UnsavedWorkSurvives
  BY DEF EditorInv, WorkInv, AllSurvive, UnsavedWorkSurvives
<1> QED
  BY <1>1, EditorInvInit, EditorInvStep, PTL DEF EditorSpec
-----------------------------------------------------------------------------
(***************************************************************************)
(* Proofs about BookImport for every set of files and videos and any       *)
(* number of uploaders and of requests, all of which may be under way.     *)
(***************************************************************************)
Source   == Files \cup Videos
Requests == [what : Source \cup {NoSource}, transcript : Videos \cup {NoSource}, from : Nat,
             at : AtServer \cup ImportAnswered
                  \cup {"none", "accepted", "refused", "unavailable"},
             row : Nat, mine : BOOLEAN]

ImportTypes ==
    /\ uploader \in [n : Nat, choice : Source \cup {NoSource}, transcript : Videos \cup {NoSource},
                     paste : BOOLEAN, book : {0} \cup Imports, video : {0} \cup Imports]
    /\ handed \in Source \cup {NoSource}
    /\ importOf \in [Imports -> Requests]
    /\ books \in Seq([video : Videos, text : Videos])
    /\ uploaders \in Nat /\ accidents \subseteq {"requests", "imports", "lost"}

(***************************************************************************)
(* The inductive invariant.  What an import read of the stored sources is  *)
(* still so when it stores, unless two imports of one video were under way *)
(* at once.  A request that the person still waits for or has the answer   *)
(* of belongs to the uploader that is open, and when no two requests were  *)
(* under way at once none but itself is: so the answer of another neither  *)
(* closes that uploader nor puts another link into it.                     *)
(***************************************************************************)
Reading(r) == importOf[r].at = "looked"
Awaited(r) == importOf[r].mine /\ importOf[r].at \notin {"none", "accepted"}

HeldInv ==
    /\ \A r \in Imports : importOf[r].at \in AtServer => importOf[r].what \in Source
    /\ \A r \in Imports : Reading(r) => /\ importOf[r].what \in Videos
                                        /\ importOf[r].row \in {0} \cup DOMAIN books
    /\ "imports" \notin accidents =>
          /\ \A r, s \in Imports :
                {importOf[r].at, importOf[s].at} \subseteq AtServer
                    /\ importOf[r].what = importOf[s].what => r = s
          /\ \A r \in Imports : Reading(r) =>
                IF importOf[r].row = 0 THEN Existing(importOf[r].what) = {}
                ELSE importOf[r].row \in Existing(importOf[r].what)
          /\ \A i, j \in DOMAIN books : books[i].video = books[j].video => i = j

WatchedInv == \A r \in Watched : importOf[r].what = uploader.choice /\ importOf[r].at # "none"

AwaitedInv == accidents \subseteq {"lost"} =>
    \A r \in Imports : Awaited(r) =>
        /\ UploaderOpen /\ uploader.n = importOf[r].from
        /\ uploader.choice = importOf[r].what /\ r \in Watched
        /\ \A s \in Imports : InFlight(s) => s = r

ImportInv == ImportTypes /\ HeldInv /\ WatchedInv /\ AwaitedInv

LEMMA NoNoRequest == 0 \notin Imports
BY ImportAssumption DEF Imports

\* A person gives up what the uploader's requests were of: nothing that is
\* stored, and nothing at the server, depends on it.
LEMMA GivingUp ==
    ASSUME ImportInv, importOf' = GivenUp, UNCHANGED <<books, accidents, handed, uploaders>>,
           uploader' \in [n : Nat, choice : Source \cup {NoSource},
                          transcript : Videos \cup {NoSource}, paste : BOOLEAN,
                          book : {0} \cup Imports, video : {0} \cup Imports],
           uploader'.book = 0, uploader'.video = 0
    PROVE  ImportInv'
<1>0. ImportTypes /\ HeldInv
  BY DEF ImportInv
<1>1. ASSUME NEW r \in Imports
      PROVE  /\ importOf'[r] \in Requests /\ ~importOf'[r].mine
             /\ importOf'[r].what = importOf[r].what /\ importOf'[r].at = importOf[r].at
             /\ importOf'[r].row = importOf[r].row
  <2>1. importOf'[r] = [importOf[r] EXCEPT !.mine = FALSE] /\ importOf[r] \in Requests
    BY <1>0 DEF GivenUp, ImportTypes
  <2> QED
    BY <2>1 DEF Requests
<1>2. ImportTypes'
  <2>1. importOf' \in [Imports -> Requests]
    BY <1>1 DEF GivenUp
  <2> QED
    BY <1>0, <2>1 DEF ImportTypes
<1>3. HeldInv'
  BY <1>0, <1>1 DEF HeldInv, Reading, Existing
<1>4. WatchedInv'
  BY DEF WatchedInv, Watched
<1>5. AwaitedInv'
  BY <1>1 DEF AwaitedInv, Awaited
<1> QED
  BY <1>2, <1>3, <1>4, <1>5 DEF ImportInv

\* What a person does with the uploader.
LEMMA UploaderSteps ==
    ASSUME ImportInv,
           \/ OpenUploader \/ CloseUploader \/ PasteTranscript
           \/ \E x \in Files \cup Videos \cup {NoSource} : Choose(x)
    PROVE  ImportInv'
<1>0. ImportTypes /\ HeldInv /\ WatchedInv /\ AwaitedInv
  BY DEF ImportInv
<1>1. CASE OpenUploader
  <2>1. /\ ~UploaderOpen /\ uploader' = Uploader(uploaders + 1, NoSource)
        /\ uploaders' = uploaders + 1 /\ handed' = NoSource
        /\ UNCHANGED <<importOf, books, accidents>>
    BY <1>1 DEF OpenUploader
  <2>2. uploader' = [n |-> uploaders + 1, choice |-> NoSource, transcript |-> NoSource,
                     paste |-> FALSE, book |-> 0, video |-> 0]
    BY <2>1 DEF Uploader, NoUploader
  <2>3. ImportTypes'
    <3>1. uploaders + 1 \in Nat
      BY <1>0 DEF ImportTypes
    <3>2. uploader' \in [n : Nat, choice : Source \cup {NoSource},
                         transcript : Videos \cup {NoSource}, paste : BOOLEAN,
                         book : {0} \cup Imports, video : {0} \cup Imports]
      BY <2>2, <3>1
    <3> QED
      BY <1>0, <2>1, <3>1, <3>2 DEF ImportTypes
  <2>4. HeldInv'
    BY <1>0, <2>1 DEF HeldInv, Reading, Existing
  <2>5. WatchedInv'
    BY <2>2 DEF WatchedInv, Watched
  <2>6. AwaitedInv'
    BY <1>0, <2>1 DEF AwaitedInv, Awaited
  <2> QED
    BY <2>3, <2>4, <2>5, <2>6 DEF ImportInv
<1>2. CASE CloseUploader
  <2>1. uploader' = NoUploader /\ importOf' = GivenUp
        /\ UNCHANGED <<handed, books, uploaders, accidents>>
    BY <1>2 DEF CloseUploader
  <2> QED
    BY <2>1, GivingUp DEF NoUploader
<1>3. CASE PasteTranscript
  <2>1. /\ uploader.choice \in Videos /\ uploader' = [uploader EXCEPT !.transcript = uploader.choice]
        /\ UNCHANGED <<handed, importOf, books, uploaders, accidents>>
    BY <1>3 DEF PasteTranscript
  <2>2. ImportTypes'
    BY <1>0, <2>1 DEF ImportTypes
  <2>3. uploader'.n = uploader.n /\ uploader'.choice = uploader.choice
        /\ uploader'.book = uploader.book /\ uploader'.video = uploader.video
    BY <1>0, <2>1 DEF ImportTypes
  <2>4. HeldInv'
    BY <1>0, <2>1 DEF HeldInv, Reading, Existing
  <2>5. WatchedInv' /\ AwaitedInv'
    BY <1>0, <2>1, <2>3 DEF WatchedInv, Watched, AwaitedInv, Awaited, UploaderOpen, InFlight
  <2> QED
    BY <2>2, <2>4, <2>5 DEF ImportInv
<1>4. ASSUME NEW x \in Files \cup Videos \cup {NoSource}, Choose(x) PROVE ImportInv'
  <2>1. /\ uploader' = [uploader EXCEPT !.choice = x, !.paste = FALSE, !.book = 0, !.video = 0]
        /\ importOf' = GivenUp /\ UNCHANGED <<handed, books, uploaders, accidents>>
    BY <1>4 DEF Choose
  <2>2. /\ uploader' \in [n : Nat, choice : Source \cup {NoSource},
                          transcript : Videos \cup {NoSource}, paste : BOOLEAN,
                          book : {0} \cup Imports, video : {0} \cup Imports]
        /\ uploader'.book = 0 /\ uploader'.video = 0
    BY <1>0, <2>1 DEF ImportTypes, Source
  <2> QED
    BY <2>1, <2>2, GivingUp
<1> QED
  BY <1>1, <1>2, <1>3, <1>4

\* A request is sent: from the open uploader, of its choice, and then it is the
\* only one awaited, or from the page with none open, and then none is.
LEMMA Sending ==
    ASSUME ImportInv, NEW r \in Imports, NEW what \in Source,
           NEW transcript \in Videos \cup {NoSource}, NEW from \in Nat,
           SendImport(r, what, transcript, from), UNCHANGED <<handed, books, uploaders>>,
           uploader' \in [n : Nat, choice : Source \cup {NoSource},
                          transcript : Videos \cup {NoSource}, paste : BOOLEAN,
                          book : {0} \cup Imports, video : {0} \cup Imports],
           uploader'.n = uploader.n, uploader'.choice = uploader.choice,
           Watched' \subseteq Watched \cup {r},
           IF from = 0 THEN ~UploaderOpen /\ Watched' = Watched
           ELSE UploaderOpen /\ from = uploader.n /\ what = uploader.choice /\ r \in Watched'
    PROVE  ImportInv'
<1>0. ImportTypes /\ HeldInv /\ WatchedInv /\ AwaitedInv
  BY DEF ImportInv
<1> DEFINE sent == [what |-> what, transcript |-> transcript, from |-> from, at |-> "sent",
                    row |-> 0, mine |-> from # 0]
           base == IF from = 0 THEN importOf ELSE GivenUp
<1>1. /\ importOf[r].at = "none" /\ importOf' = [base EXCEPT ![r] = sent]
      /\ accidents' = accidents
           \cup (IF \E s \in Imports : InFlight(s) THEN {"requests"} ELSE {})
           \cup (IF \E s \in Imports : importOf[s].what = what /\ importOf[s].at \in AtServer
                 THEN {"imports"} ELSE {})
  BY DEF SendImport, IsNext
<1>2. sent \in Requests
  BY DEF Requests, AtServer
<1>3. ASSUME NEW s \in Imports
      PROVE  /\ base[s] \in Requests /\ base[s].what = importOf[s].what
             /\ base[s].at = importOf[s].at /\ base[s].row = importOf[s].row
             /\ base[s].from = importOf[s].from
             /\ base[s].mine = (from = 0 /\ importOf[s].mine)
  <2>1. importOf[s] \in Requests /\ importOf[s].mine \in BOOLEAN
    BY <1>0 DEF ImportTypes, Requests
  <2>2. base[s] = IF from = 0 THEN importOf[s] ELSE [importOf[s] EXCEPT !.mine = FALSE]
    BY DEF GivenUp
  <2> QED
    BY <2>1, <2>2 DEF Requests
<1>4. base \in [Imports -> Requests]
  BY <1>0, <1>3 DEF GivenUp, ImportTypes
<1> HIDE DEF base
<1>5. importOf' \in [Imports -> Requests] /\ importOf'[r] = sent
      /\ \A s \in Imports \ {r} : importOf'[s] = base[s]
  BY <1>1, <1>2, <1>4
<1>6. /\ importOf'[r].at = "sent" /\ importOf'[r].what = what /\ importOf'[r].from = from
      /\ importOf'[r].mine = (from # 0)
      /\ \A s \in Imports \ {r} :
            /\ importOf'[s].what = importOf[s].what /\ importOf'[s].at = importOf[s].at
            /\ importOf'[s].row = importOf[s].row /\ importOf'[s].from = importOf[s].from
            /\ importOf'[s].mine = (from = 0 /\ importOf[s].mine)
  BY <1>3, <1>5
<1> HIDE DEF sent
<1>7. ImportTypes'
  BY <1>0, <1>1, <1>5 DEF ImportTypes
<1>8. HeldInv'
  <2>1. \A s \in Imports : importOf'[s].at \in AtServer => importOf'[s].what \in Source
    BY <1>0, <1>6 DEF HeldInv
  <2>2. \A s \in Imports : Reading(s)' => s # r /\ Reading(s)
    BY <1>6 DEF Reading
  <2>3. \A s \in Imports : Reading(s)' => /\ importOf'[s].what \in Videos
                                          /\ importOf'[s].row \in {0} \cup DOMAIN books'
    BY <1>0, <1>6, <2>2 DEF HeldInv
  <2>4. ASSUME "imports" \notin accidents'
        PROVE  /\ \A q, s \in Imports :
                    {importOf'[q].at, importOf'[s].at} \subseteq AtServer
                        /\ importOf'[q].what = importOf'[s].what => q = s
               /\ \A s \in Imports : Reading(s)' =>
                    IF importOf'[s].row = 0 THEN Existing(importOf'[s].what) = {}
                    ELSE importOf'[s].row \in Existing(importOf'[s].what)
               /\ \A i, j \in DOMAIN books' : books'[i].video = books'[j].video => i = j
    <3>1. /\ "imports" \notin accidents
          /\ \A s \in Imports : importOf[s].at \in AtServer => importOf[s].what # what
      BY <1>1, <2>4
    <3>2. \A q, s \in Imports : {importOf'[q].at, importOf'[s].at} \subseteq AtServer
                        /\ importOf'[q].what = importOf'[s].what => q = s
      BY <1>0, <1>6, <3>1 DEF HeldInv
    <3>3. \A s \in Imports : Reading(s)' =>
                    IF importOf'[s].row = 0 THEN Existing(importOf'[s].what) = {}
                    ELSE importOf'[s].row \in Existing(importOf'[s].what)
      BY <1>0, <1>6, <2>2, <3>1 DEF HeldInv
    <3> QED
      BY <1>0, <3>1, <3>2, <3>3 DEF HeldInv
  <2> QED
    BY <2>1, <2>3, <2>4 DEF HeldInv, Existing
<1>9. WatchedInv'
  <2>1. \A s \in Watched : s \in Imports /\ s # r
    BY <1>0, <1>1 DEF WatchedInv, Watched, ImportTypes
  <2>2. \A s \in Watched : importOf'[s].what = uploader'.choice /\ importOf'[s].at # "none"
    BY <1>0, <1>6, <2>1 DEF WatchedInv
  <2>3. r \in Watched' => importOf'[r].what = uploader'.choice /\ importOf'[r].at # "none"
    <3>1. CASE from = 0
      BY <2>1, <3>1
    <3>2. CASE from # 0
      BY <1>6, <3>2
    <3> QED
      BY <3>1, <3>2
  <2> QED
    BY <2>2, <2>3 DEF WatchedInv
<1>10. AwaitedInv'
  <2> SUFFICES ASSUME accidents' \subseteq {"lost"}, NEW q \in Imports, Awaited(q)'
               PROVE  /\ UploaderOpen' /\ uploader'.n = importOf'[q].from
                      /\ uploader'.choice = importOf'[q].what /\ q \in Watched'
                      /\ \A s \in Imports : InFlight(s)' => s = q
    BY DEF AwaitedInv
  <2>1. accidents \subseteq {"lost"} /\ \A s \in Imports : ~InFlight(s)
    BY <1>1
  <2>2. from # 0 /\ q = r
    <3>1. CASE from = 0
      BY <1>0, <1>6, <2>1, <3>1 DEF AwaitedInv, Awaited
    <3> QED
      BY <1>6, <3>1 DEF Awaited
  <2>3. \A s \in Imports : InFlight(s)' => s = q
    BY <1>6, <2>1, <2>2 DEF InFlight
  <2> QED
    BY <1>6, <2>2, <2>3 DEF UploaderOpen
<1> QED
  BY <1>7, <1>8, <1>9, <1>10 DEF ImportInv

\* A request moves on to an answer or beyond: it is no longer at the server,
\* and nothing becomes awaited or under way by that.
LEMMA Reaching ==
    ASSUME ImportInv, NEW r \in Imports, InFlight(r),
           NEW at \in ImportAnswered \cup {"accepted", "refused", "unavailable"}, Reach(r, at)
    PROVE  /\ importOf' \in [Imports -> Requests]
           /\ \A s \in Imports :
                 /\ importOf'[s].what = importOf[s].what /\ importOf'[s].row = importOf[s].row
                 /\ importOf'[s].from = importOf[s].from /\ importOf'[s].mine = importOf[s].mine
                 /\ importOf'[s].at = IF s = r THEN at ELSE importOf[s].at
           /\ \A s \in Imports :
                 /\ InFlight(s)' => InFlight(s)
                 /\ Awaited(s)' => Awaited(s)
                 /\ Reading(s)' => Reading(s) /\ s # r
                 /\ importOf'[s].at \in AtServer => importOf[s].at \in AtServer
           /\ books' = books /\ accidents \subseteq accidents' => HeldInv'
           /\ uploader' = uploader /\ accidents' \in {accidents, accidents \cup {"lost"}}
                 => WatchedInv' /\ AwaitedInv'
<1>0. ImportTypes /\ HeldInv /\ WatchedInv /\ AwaitedInv
  BY DEF ImportInv
<1>1. importOf' = [importOf EXCEPT ![r].at = at] /\ importOf \in [Imports -> Requests]
  BY <1>0 DEF Reach, ImportTypes
<1>2. at \in AtServer \cup ImportAnswered \cup {"none", "accepted", "refused", "unavailable"}
      /\ at \notin AtServer /\ at # "none"
  BY DEF AtServer, ImportAnswered
<1>3. \A s \in Imports : importOf[s] \in Requests
                         /\ importOf'[s] = IF s = r THEN [importOf[s] EXCEPT !.at = at] ELSE importOf[s]
  BY <1>1
<1>4. importOf' \in [Imports -> Requests]
  <2>1. [importOf[r] EXCEPT !.at = at] \in Requests
    BY <1>2, <1>3 DEF Requests
  <2> QED
    BY <1>1, <2>1
<1>5. \A s \in Imports :
         /\ importOf'[s].what = importOf[s].what /\ importOf'[s].row = importOf[s].row
         /\ importOf'[s].from = importOf[s].from /\ importOf'[s].mine = importOf[s].mine
         /\ importOf'[s].at = IF s = r THEN at ELSE importOf[s].at
  BY <1>3 DEF Requests
<1>6. importOf[r].at \notin {"none", "accepted"}
  BY DEF InFlight, AtServer, ImportAnswered
<1>7. \A s \in Imports :
         /\ InFlight(s)' => InFlight(s)
         /\ Awaited(s)' => Awaited(s)
         /\ Reading(s)' => Reading(s) /\ s # r
         /\ importOf'[s].at \in AtServer => importOf[s].at \in AtServer
  <2> SUFFICES ASSUME NEW s \in Imports
               PROVE  /\ InFlight(s)' => InFlight(s)
                      /\ Awaited(s)' => Awaited(s)
                      /\ Reading(s)' => Reading(s) /\ s # r
                      /\ importOf'[s].at \in AtServer => importOf[s].at \in AtServer
    OBVIOUS
  <2>1. CASE s = r
    BY <1>2, <1>5, <1>6, <2>1 DEF InFlight, Awaited, Reading, AtServer
  <2>2. CASE s # r
    BY <1>5, <2>2 DEF InFlight, Awaited, Reading
  <2> QED
    BY <2>1, <2>2
<1>8. ASSUME books' = books, accidents \subseteq accidents' PROVE HeldInv'
  <2>1. \A s \in Imports : importOf'[s].at \in AtServer => importOf'[s].what \in Source
    BY <1>0, <1>5, <1>7 DEF HeldInv
  <2>2. \A s \in Imports : Reading(s)' => /\ importOf'[s].what \in Videos
                                          /\ importOf'[s].row \in {0} \cup DOMAIN books'
    BY <1>0, <1>5, <1>7, <1>8 DEF HeldInv
  <2>3. ASSUME "imports" \notin accidents'
        PROVE  /\ \A q, s \in Imports :
                    {importOf'[q].at, importOf'[s].at} \subseteq AtServer
                        /\ importOf'[q].what = importOf'[s].what => q = s
               /\ \A s \in Imports : Reading(s)' =>
                    IF importOf'[s].row = 0 THEN Existing(importOf'[s].what) = {}
                    ELSE importOf'[s].row \in Existing(importOf'[s].what)
    BY <1>0, <1>5, <1>7, <1>8, <2>3 DEF HeldInv
  <2> QED
    BY <1>0, <1>8, <2>1, <2>2, <2>3 DEF HeldInv, Existing
<1>9. ASSUME uploader' = uploader, accidents' \in {accidents, accidents \cup {"lost"}}
      PROVE  WatchedInv' /\ AwaitedInv'
  <2>1. Watched \subseteq Imports
    BY <1>0 DEF Watched, ImportTypes
  <2>2. WatchedInv'
    BY <1>0, <1>2, <1>5, <1>9, <2>1 DEF WatchedInv, Watched
  <2>3. AwaitedInv'
    <3>1. accidents' \subseteq {"lost"} => accidents \subseteq {"lost"}
      BY <1>9
    <3> QED
      BY <1>0, <1>5, <1>7, <1>9, <3>1 DEF AwaitedInv, UploaderOpen, Watched
  <2> QED
    BY <2>2, <2>3
<1> QED
  BY <1>4, <1>5, <1>7, <1>8, <1>9

\* The server checks a file or refuses a video; the page is told, or is not.
LEMMA AnswerSteps ==
    ASSUME ImportInv, NEW r \in Imports,
           CheckFile(r) \/ RefuseVideo(r) \/ ImportRefused(r) \/ LoseImportReply(r)
    PROVE  ImportInv'
<1>1. PICK at \in ImportAnswered \cup {"accepted", "refused", "unavailable"} : Reach(r, at)
  BY DEF CheckFile, RefuseVideo, ImportRefused, LoseImportReply, ImportAnswered
<1>2. InFlight(r)
  BY DEF CheckFile, RefuseVideo, ImportRefused, LoseImportReply, InFlight, AtServer, ImportAnswered
<1>3. UNCHANGED <<uploader, handed, books, uploaders>>
      /\ accidents' \in {accidents, accidents \cup {"lost"}}
  BY DEF CheckFile, RefuseVideo, ImportRefused, LoseImportReply
<1>4. importOf' \in [Imports -> Requests] /\ HeldInv' /\ WatchedInv' /\ AwaitedInv'
  BY <1>1, <1>2, <1>3, Reaching
<1>5. ImportTypes'
  BY <1>3, <1>4 DEF ImportInv, ImportTypes
<1> QED
  BY <1>4, <1>5 DEF ImportInv

\* The course's first source of a video, if it has one.
LEMMA FirstOfVideo ==
    ASSUME ImportTypes, NEW v, Existing(v) # {}
    PROVE  (CHOOSE i \in Existing(v) : \A j \in Existing(v) : i <= j) \in Existing(v)
<1>1. Existing(v) \subseteq Nat
  BY DEF ImportTypes, Existing
<1>2. Min(Existing(v)) \in Existing(v)
  BY <1>1, MinIs
<1> QED
  BY <1>2 DEF Min

\* A source is looked for, and the row that was found is kept.
LEMMA LookStep == ASSUME ImportInv, NEW r \in Imports, FindSource(r) PROVE ImportInv'
<1>0. ImportTypes /\ HeldInv /\ WatchedInv /\ AwaitedInv
  BY DEF ImportInv
<1> DEFINE what == importOf[r].what
           row == IF Existing(what) = {} THEN 0
                  ELSE CHOOSE i \in Existing(what) : \A j \in Existing(what) : i <= j
<1>1. /\ importOf[r].at = "sent" /\ what \in Videos
      /\ importOf' = [importOf EXCEPT ![r].at = "looked", ![r].row = row]
      /\ UNCHANGED <<uploader, handed, books, uploaders, accidents>>
  BY DEF FindSource
<1>2. IF row = 0 THEN Existing(what) = {} ELSE row \in Existing(what)
  <2>1. 0 \notin Existing(what)
    BY <1>0 DEF Existing, ImportTypes
  <2> QED
    BY <1>0, <2>1, FirstOfVideo
<1>3. row \in Nat /\ row \in {0} \cup DOMAIN books
  BY <1>0, <1>2 DEF Existing, ImportTypes
<1> HIDE DEF row
<1>4. \A s \in Imports : importOf[s] \in Requests
        /\ importOf'[s] = IF s = r THEN [importOf[s] EXCEPT !.at = "looked", !.row = row] ELSE importOf[s]
  BY <1>0, <1>1 DEF ImportTypes
<1>5. importOf' \in [Imports -> Requests]
  <2>1. [importOf[r] EXCEPT !.at = "looked", !.row = row] \in Requests
    BY <1>3, <1>4 DEF Requests, AtServer
  <2>2. importOf' = [importOf EXCEPT ![r] = [importOf[r] EXCEPT !.at = "looked", !.row = row]]
    BY <1>0, <1>1 DEF ImportTypes
  <2> QED
    BY <1>0, <2>1, <2>2 DEF ImportTypes
<1>6. /\ importOf'[r].at = "looked" /\ importOf'[r].row = row
      /\ \A s \in Imports \ {r} : importOf'[s] = importOf[s]
      /\ \A s \in Imports : importOf'[s].what = importOf[s].what
                            /\ importOf'[s].from = importOf[s].from
                            /\ importOf'[s].mine = importOf[s].mine
  BY <1>4 DEF Requests
<1>7. /\ "looked" \in AtServer /\ importOf[r].at \in AtServer /\ importOf[r].at # "none"
      /\ importOf[r].at # "accepted"
  BY <1>1 DEF AtServer
<1>8. ImportTypes'
  BY <1>0, <1>1, <1>5 DEF ImportTypes
<1>9. HeldInv'
  <2>1. \A s \in Imports : importOf'[s].at \in AtServer => importOf[s].at \in AtServer
    BY <1>6, <1>7
  <2>2. \A s \in Imports : importOf'[s].at \in AtServer => importOf'[s].what \in Source
    BY <1>0, <1>6, <2>1 DEF HeldInv
  <2>3. \A s \in Imports : Reading(s)' => /\ importOf'[s].what \in Videos
                                          /\ importOf'[s].row \in {0} \cup DOMAIN books'
    BY <1>0, <1>1, <1>3, <1>6 DEF HeldInv, Reading
  <2>4. ASSUME "imports" \notin accidents'
        PROVE  /\ \A q, s \in Imports :
                    {importOf'[q].at, importOf'[s].at} \subseteq AtServer
                        /\ importOf'[q].what = importOf'[s].what => q = s
               /\ \A s \in Imports : Reading(s)' =>
                    IF importOf'[s].row = 0 THEN Existing(importOf'[s].what) = {}
                    ELSE importOf'[s].row \in Existing(importOf'[s].what)
    <3>1. "imports" \notin accidents
      BY <1>1, <2>4
    <3>2. \A q, s \in Imports : {importOf'[q].at, importOf'[s].at} \subseteq AtServer
                        /\ importOf'[q].what = importOf'[s].what => q = s
      BY <1>0, <1>6, <2>1, <3>1 DEF HeldInv
    <3>3. \A s \in Imports : Reading(s)' =>
                    IF importOf'[s].row = 0 THEN Existing(importOf'[s].what) = {}
                    ELSE importOf'[s].row \in Existing(importOf'[s].what)
      BY <1>0, <1>2, <1>6, <3>1 DEF HeldInv, Reading
    <3> QED
      BY <3>2, <3>3
  <2>5. books' = books
    BY <1>1
  <2>6. "imports" \notin accidents' => \A m, n \in DOMAIN books' :
                                         books'[m].video = books'[n].video => m = n
    BY <1>0, <1>1 DEF HeldInv
  <2> QED
    BY <2>2, <2>3, <2>4, <2>5, <2>6 DEF HeldInv, Existing
<1>10. WatchedInv'
  <2>1. Watched \subseteq Imports
    BY <1>0 DEF Watched, ImportTypes
  <2> QED
    BY <1>0, <1>1, <1>6, <2>1 DEF WatchedInv, Watched
<1>11. AwaitedInv'
  <2>1. \A s \in Imports : (InFlight(s)' => InFlight(s)) /\ (Awaited(s)' => Awaited(s))
    BY <1>6, <1>7 DEF InFlight, Awaited
  <2>2. accidents' = accidents /\ Watched' = Watched /\ (UploaderOpen' <=> UploaderOpen)
        /\ uploader'.n = uploader.n /\ uploader'.choice = uploader.choice
    BY <1>1 DEF Watched, UploaderOpen
  <2> QED
    BY <1>0, <1>6, <2>1, <2>2 DEF AwaitedInv
<1> QED
  BY <1>8, <1>9, <1>10, <1>11 DEF ImportInv

\* The video is stored: as a new source only where there was none, else in the
\* row that was found, which is still of that video.
LEMMA StoreStep == ASSUME ImportInv, NEW r \in Imports, Store(r) PROVE ImportInv'
<1>0. ImportTypes /\ HeldInv
  BY DEF ImportInv
<1> DEFINE what == importOf[r].what
           row == importOf[r].row
           text == TextOf(r)
<1>1. /\ Reading(r) /\ Reach(r, "will be accepted")
      /\ books' = IF row = 0 THEN Append(books, [video |-> what, text |-> text])
                  ELSE [books EXCEPT ![row].text = text]
      /\ UNCHANGED <<uploader, handed, uploaders, accidents>>
  BY DEF Store, Reading
<1>2. what \in Videos /\ row \in {0} \cup DOMAIN books /\ text \in Videos
  <2>1. what \in Videos /\ row \in {0} \cup DOMAIN books
    BY <1>0, <1>1 DEF HeldInv
  <2>2. importOf[r].transcript \in Videos \cup {NoSource}
    BY <1>0 DEF ImportTypes, Requests
  <2> QED
    BY <2>1, <2>2 DEF TextOf
<1>3. InFlight(r) /\ "will be accepted" \in ImportAnswered
  BY <1>1 DEF Reading, InFlight, AtServer, ImportAnswered
<1>4. /\ importOf' \in [Imports -> Requests] /\ WatchedInv' /\ AwaitedInv'
      /\ \A s \in Imports :
            /\ importOf'[s].what = importOf[s].what /\ importOf'[s].row = importOf[s].row
            /\ Reading(s)' => Reading(s) /\ s # r
            /\ importOf'[s].at \in AtServer => importOf[s].at \in AtServer
  BY <1>1, <1>3, Reaching
<1> HIDE DEF text, what, row
<1>5. /\ books' \in Seq([video : Videos, text : Videos])
      /\ DOMAIN books \subseteq DOMAIN books'
      /\ \A i \in DOMAIN books : books'[i].video = books[i].video
      /\ \A i \in DOMAIN books' \ DOMAIN books :
             row = 0 /\ i = Len(books) + 1 /\ books'[i].video = what
  <2>0. books \in Seq([video : Videos, text : Videos]) /\ Len(books) \in Nat
        /\ DOMAIN books = 1 .. Len(books)
    BY <1>0 DEF ImportTypes
  <2>1. CASE row = 0
    <3>1. [video |-> what, text |-> text] \in [video : Videos, text : Videos]
      BY <1>2
    <3>2. books' = Append(books, [video |-> what, text |-> text])
      BY <1>1, <2>1
    <3> DEFINE new == [video |-> what, text |-> text]
               Rows == [video : Videos, text : Videos]
    <3>3. books \in Seq(Rows) /\ new \in Rows /\ books' = Append(books, new) /\ new.video = what
      BY <2>0, <3>1, <3>2
    <3> HIDE DEF new, Rows
    <3>4. /\ books' \in Seq(Rows) /\ Len(books') = Len(books) + 1 /\ DOMAIN books' = 1 .. Len(books')
          /\ books'[Len(books) + 1] = new /\ \A i \in 1 .. Len(books) : books'[i] = books[i]
      BY <2>0, <3>3
    <3> QED
      BY <2>0, <2>1, <3>3, <3>4 DEF Rows
  <2>2. CASE row # 0
    <3>1. row \in 1 .. Len(books) /\ books' = [books EXCEPT ![row].text = text]
      BY <1>1, <1>2, <2>0, <2>2
    <3>2. books[row] \in [video : Videos, text : Videos]
      <4> DEFINE StoredRows == [video : Videos, text : Videos]
      <4>1. books \in Seq(StoredRows) /\ row \in 1 .. Len(books)
        BY <2>0, <3>1
      <4> HIDE DEF StoredRows
      <4>2. books[row] \in StoredRows
        BY <4>1
      <4> QED
        BY <4>2 DEF StoredRows
    <3>3. /\ [books[row] EXCEPT !.text = text] \in [video : Videos, text : Videos]
          /\ [books[row] EXCEPT !.text = text].video = books[row].video
      BY <1>2, <3>2
    <3> DEFINE new == [books[row] EXCEPT !.text = text]
               Rows == [video : Videos, text : Videos]
    <3>4. books \in Seq(Rows) /\ new \in Rows /\ books' = [books EXCEPT ![row] = new]
          /\ new.video = books[row].video
      BY <2>0, <3>1, <3>3
    <3> HIDE DEF new, Rows
    <3>5. books' \in Seq(Rows) /\ Len(books') = Len(books) /\ DOMAIN books' = DOMAIN books
      BY <2>0, <3>1, <3>4
    <3>6. \A i \in DOMAIN books : books'[i].video = books[i].video
      BY <2>0, <3>1, <3>4
    <3> QED
      BY <3>5, <3>6 DEF Rows
  <2> QED
    BY <2>1, <2>2
<1>6. ImportTypes'
  BY <1>0, <1>1, <1>4, <1>5 DEF ImportTypes
<1>7. HeldInv'
  <2>1. \A s \in Imports : importOf'[s].at \in AtServer => importOf'[s].what \in Source
    BY <1>0, <1>4 DEF HeldInv
  <2>2. \A s \in Imports : Reading(s)' => /\ importOf'[s].what \in Videos
                                          /\ importOf'[s].row \in {0} \cup DOMAIN books'
    BY <1>0, <1>4, <1>5 DEF HeldInv
  <2>3. ASSUME "imports" \notin accidents'
        PROVE  /\ \A q, s \in Imports :
                    {importOf'[q].at, importOf'[s].at} \subseteq AtServer
                        /\ importOf'[q].what = importOf'[s].what => q = s
               /\ \A s \in Imports : Reading(s)' =>
                    IF importOf'[s].row = 0
                    THEN {i \in DOMAIN books' : books'[i].video = importOf'[s].what} = {}
                    ELSE importOf'[s].row \in {i \in DOMAIN books' : books'[i].video = importOf'[s].what}
               /\ \A i, j \in DOMAIN books' : books'[i].video = books'[j].video => i = j
    <3>1. "imports" \notin accidents
      BY <1>1, <2>3
    <3>2. \A q, s \in Imports : {importOf'[q].at, importOf'[s].at} \subseteq AtServer
                        /\ importOf'[q].what = importOf'[s].what => q = s
      BY <1>0, <1>4, <3>1 DEF HeldInv
    <3>3. ASSUME NEW s \in Imports, Reading(s)'
          PROVE  IF importOf'[s].row = 0
                 THEN {i \in DOMAIN books' : books'[i].video = importOf'[s].what} = {}
                 ELSE importOf'[s].row \in {i \in DOMAIN books' : books'[i].video = importOf'[s].what}
      <4>1. Reading(s) /\ s # r /\ importOf[s].at \in AtServer /\ importOf[r].at \in AtServer
        BY <1>1, <1>4, <3>3 DEF Reading, AtServer
      <4>2. importOf[s].what # what
        BY <1>0, <3>1, <4>1 DEF HeldInv, what
      <4>3. IF importOf[s].row = 0 THEN Existing(importOf[s].what) = {}
            ELSE importOf[s].row \in Existing(importOf[s].what)
        BY <1>0, <3>1, <4>1 DEF HeldInv
      <4>4. {i \in DOMAIN books' : books'[i].video = importOf[s].what} = Existing(importOf[s].what)
        BY <1>5, <4>2 DEF Existing
      <4>5. importOf'[s].what = importOf[s].what /\ importOf'[s].row = importOf[s].row
        BY <1>4
      <4> QED
        BY <4>3, <4>4, <4>5
    <3>4. ASSUME NEW m \in DOMAIN books', NEW n \in DOMAIN books', books'[m].video = books'[n].video
          PROVE  m = n
      <4>1. row = 0 => \A k \in DOMAIN books : books[k].video # what
        BY <1>0, <1>1, <3>1 DEF HeldInv, Existing, row, what
      <4>2. \A k, l \in DOMAIN books : books[k].video = books[l].video => k = l
        BY <1>0, <3>1 DEF HeldInv
      <4> QED
        BY <1>5, <3>4, <4>1, <4>2
    <3> QED
      BY <3>2, <3>3, <3>4
  <2> QED
    BY <2>1, <2>2, <2>3 DEF HeldInv, Existing
<1> QED
  BY <1>4, <1>6, <1>7 DEF ImportInv

\* What was accepted closes the uploader, whichever is open: nothing in it was
\* awaited, or the answer is of what was.
LEMMA AcceptedStep == ASSUME ImportInv, NEW r \in Imports, ImportAccepted(r) PROVE ImportInv'
<1>0. ImportTypes /\ HeldInv /\ WatchedInv /\ AwaitedInv
  BY DEF ImportInv
<1>1. /\ importOf[r].at = "will be accepted" /\ Reach(r, "accepted")
      /\ uploader' = IF importOf[r].from = 0 THEN uploader ELSE NoUploader
      /\ UNCHANGED <<handed, books, uploaders, accidents>>
  BY DEF ImportAccepted
<1>2. InFlight(r)
  BY <1>1 DEF InFlight, ImportAnswered
<1>3. /\ importOf' \in [Imports -> Requests] /\ HeldInv'
      /\ uploader' = uploader => WatchedInv' /\ AwaitedInv'
      /\ \A s \in Imports : Awaited(s)' => Awaited(s) /\ s # r
  <2>1. ASSUME NEW s \in Imports, Awaited(s)' PROVE s # r
    <3>1. importOf'[r].at = "accepted"
      BY <1>1, <1>2, Reaching
    <3> QED
      BY <2>1, <3>1 DEF Awaited
  <2> QED
    BY <1>1, <1>2, <2>1, Reaching
<1>4. CASE importOf[r].from = 0
  <2>1. uploader' = uploader
    BY <1>1, <1>4
  <2> QED
    BY <1>0, <1>1, <1>3, <2>1 DEF ImportInv, ImportTypes
<1>5. CASE importOf[r].from # 0
  <2>1. uploader' = NoUploader
    BY <1>1, <1>5
  <2>2. ImportTypes'
    <3>1. NoUploader \in [n : Nat, choice : Source \cup {NoSource},
                          transcript : Videos \cup {NoSource}, paste : BOOLEAN,
                          book : {0} \cup Imports, video : {0} \cup Imports]
      BY DEF NoUploader
    <3> QED
      BY <1>0, <1>1, <1>3, <2>1, <3>1 DEF ImportTypes
  <2>3. WatchedInv'
    BY <2>1 DEF WatchedInv, Watched, NoUploader
  <2>4. accidents' \subseteq {"lost"} => \A s \in Imports : ~Awaited(s)'
    BY <1>0, <1>1, <1>2, <1>3 DEF AwaitedInv
  <2> QED
    BY <1>3, <2>2, <2>3, <2>4 DEF ImportInv, AwaitedInv
<1> QED
  BY <1>4, <1>5

\* Without a transcript, the uploader that sent the link asks for one; a link
\* that was dropped goes to an uploader, which then holds nothing awaited.
LEMMA UnavailableStep == ASSUME ImportInv, NEW r \in Imports, Unavailable(r) PROVE ImportInv'
<1>0. ImportTypes /\ HeldInv /\ WatchedInv /\ AwaitedInv
  BY DEF ImportInv
<1>1. /\ importOf[r].at = "will be unavailable" /\ Reach(r, "unavailable")
      /\ UNCHANGED <<books, accidents>>
  BY DEF Unavailable
<1>2. InFlight(r)
  BY <1>1 DEF InFlight, ImportAnswered
<1>3. /\ importOf' \in [Imports -> Requests] /\ HeldInv'
      /\ uploader' = uploader => WatchedInv' /\ AwaitedInv'
      /\ \A s \in Imports : /\ importOf'[s].what = importOf[s].what
                            /\ importOf'[s].from = importOf[s].from
                            /\ InFlight(s)' => InFlight(s)
                            /\ Awaited(s)' => Awaited(s)
                            /\ importOf'[s].at = IF s = r THEN "unavailable" ELSE importOf[s].at
  BY <1>1, <1>2, Reaching
<1>4. CASE uploader' = uploader /\ UNCHANGED uploaders /\ handed' \in Source \cup {NoSource}
  BY <1>0, <1>1, <1>3, <1>4 DEF ImportInv, ImportTypes
<1>5. CASE importOf[r].from # 0
  <2>1. /\ uploader' = IF uploader.n = importOf[r].from THEN [uploader EXCEPT !.paste = TRUE]
                       ELSE uploader
        /\ UNCHANGED <<handed, uploaders>>
    BY <1>5 DEF Unavailable
  <2>2. /\ uploader' \in [n : Nat, choice : Source \cup {NoSource},
                          transcript : Videos \cup {NoSource}, paste : BOOLEAN,
                          book : {0} \cup Imports, video : {0} \cup Imports]
        /\ uploader'.n = uploader.n /\ uploader'.choice = uploader.choice
        /\ uploader'.book = uploader.book /\ uploader'.video = uploader.video
    BY <1>0, <2>1 DEF ImportTypes
  <2>3. ImportTypes'
    BY <1>0, <1>1, <1>3, <2>1, <2>2 DEF ImportTypes
  <2>4. Watched' = Watched /\ Watched \subseteq Imports /\ (UploaderOpen' <=> UploaderOpen)
    BY <1>0, <2>2 DEF Watched, UploaderOpen, ImportTypes
  <2>5. WatchedInv'
    BY <1>0, <1>3, <2>2, <2>4 DEF WatchedInv
  <2>6. AwaitedInv'
    <3> SUFFICES ASSUME accidents' \subseteq {"lost"}, NEW q \in Imports, Awaited(q)'
                 PROVE  /\ UploaderOpen' /\ uploader'.n = importOf'[q].from
                        /\ uploader'.choice = importOf'[q].what /\ q \in Watched'
                        /\ \A s \in Imports : InFlight(s)' => s = q
      BY DEF AwaitedInv
    <3>1. Awaited(q) /\ accidents \subseteq {"lost"}
      BY <1>1, <1>3
    <3>2. /\ UploaderOpen /\ uploader.n = importOf[q].from
          /\ uploader.choice = importOf[q].what /\ q \in Watched
          /\ \A s \in Imports : InFlight(s) => s = q
      BY <1>0, <3>1 DEF AwaitedInv
    <3> QED
      BY <1>3, <2>2, <2>4, <3>2
  <2> QED
    BY <1>3, <2>3, <2>5, <2>6 DEF ImportInv
<1>6. CASE importOf[r].from = 0
  <2>0. handed' = importOf[r].what /\ importOf[r].what \in Source \cup {NoSource}
    BY <1>0, <1>6 DEF Unavailable, ImportTypes, Requests
  <2>1. CASE UNCHANGED <<uploader, uploaders>>
    BY <1>4, <2>0, <2>1
  <2>2. CASE uploaders' = uploaders + 1 /\ uploader' = Uploader(uploaders + 1, importOf[r].what)
    <3>1. uploader' = [n |-> uploaders + 1, choice |-> importOf[r].what,
                       transcript |-> NoSource, paste |-> importOf[r].what # NoSource,
                       book |-> 0, video |-> 0]
      BY <2>2 DEF Uploader, NoUploader
    <3>2. uploaders + 1 \in Nat
      BY <1>0 DEF ImportTypes
    <3>3. uploader' \in [n : Nat, choice : Source \cup {NoSource},
                         transcript : Videos \cup {NoSource}, paste : BOOLEAN,
                         book : {0} \cup Imports, video : {0} \cup Imports]
      BY <2>0, <3>1, <3>2
    <3>4. ImportTypes'
      BY <1>0, <1>1, <1>3, <2>0, <2>2, <3>2, <3>3 DEF ImportTypes
    <3>5. WatchedInv'
      BY <3>1 DEF WatchedInv, Watched
    <3>6. accidents' \subseteq {"lost"} => \A s \in Imports : ~Awaited(s)'
      BY <1>0, <1>1, <1>2, <1>3, <1>6 DEF AwaitedInv, UploaderOpen
    <3> QED
      BY <1>3, <3>4, <3>5, <3>6 DEF ImportInv, AwaitedInv
  <2> QED
    BY <1>6, <2>1, <2>2 DEF Unavailable
<1> QED
  BY <1>5, <1>6

\* The two ways to send.
LEMMA SubmitStep == ASSUME ImportInv, NEW r \in Imports, SubmitImport(r) PROVE ImportInv'
<1>0. ImportTypes
  BY DEF ImportInv
<1> DEFINE what == uploader.choice
           transcript == IF uploader.paste THEN uploader.transcript ELSE NoSource
           from == uploader.n
<1>1. /\ UploaderOpen /\ what # NoSource /\ SendImport(r, what, transcript, from)
      /\ uploader' = IF uploader.choice \in Files THEN [uploader EXCEPT !.book = r]
                     ELSE [uploader EXCEPT !.book = 0, !.video = r]
      /\ UNCHANGED <<handed, books, uploaders>>
  BY DEF SubmitImport
<1>2. what \in Source /\ transcript \in Videos \cup {NoSource} /\ from \in Nat /\ from # 0
  BY <1>0, <1>1 DEF ImportTypes, UploaderOpen
<1>3. /\ uploader' \in [n : Nat, choice : Source \cup {NoSource},
                        transcript : Videos \cup {NoSource}, paste : BOOLEAN,
                        book : {0} \cup Imports, video : {0} \cup Imports]
      /\ uploader'.n = uploader.n /\ uploader'.choice = uploader.choice
      /\ \/ uploader'.book = r /\ uploader'.video = uploader.video
         \/ uploader'.book = 0 /\ uploader'.video = r
  BY <1>0, <1>1 DEF ImportTypes
<1>4. Watched' \subseteq Watched \cup {r} /\ r \in Watched'
  BY <1>3, NoNoRequest DEF Watched
<1>5. UploaderOpen /\ from = uploader.n /\ what = uploader.choice
  BY <1>1
<1> HIDE DEF what, transcript, from
<1> QED
  BY <1>1, <1>2, <1>3, <1>4, <1>5, Sending

LEMMA DropStep ==
    ASSUME ImportInv, NEW r \in Imports, NEW x \in Files \cup Videos, DropOnPage(r, x)
    PROVE  ImportInv'
<1>1. /\ ~UploaderOpen /\ SendImport(r, x, NoSource, 0)
      /\ UNCHANGED <<uploader, handed, books, uploaders>>
  BY DEF DropOnPage
<1>2. x \in Source /\ NoSource \in Videos \cup {NoSource} /\ 0 \in Nat
  BY DEF Source
<1>3. /\ uploader' \in [n : Nat, choice : Source \cup {NoSource},
                        transcript : Videos \cup {NoSource}, paste : BOOLEAN,
                        book : {0} \cup Imports, video : {0} \cup Imports]
      /\ uploader'.n = uploader.n /\ uploader'.choice = uploader.choice
      /\ Watched' = Watched /\ Watched' \subseteq Watched \cup {r}
  BY <1>1 DEF ImportInv, ImportTypes, Watched
<1> DEFINE from == 0
<1>4. IF from = 0 THEN ~UploaderOpen /\ Watched' = Watched
      ELSE UploaderOpen /\ from = uploader.n /\ x = uploader.choice /\ r \in Watched'
  BY <1>1, <1>3
<1>5. from \in Nat /\ SendImport(r, x, NoSource, from)
  BY <1>1
<1> HIDE DEF from
<1> QED
  BY <1>1, <1>2, <1>3, <1>4, <1>5, Sending

LEMMA ImportInvStep == ImportInv /\ [ImportNext]_importVars => ImportInv'
<1> SUFFICES ASSUME ImportInv, [ImportNext]_importVars PROVE ImportInv'
  OBVIOUS
<1>1. CASE UNCHANGED importVars
  BY <1>1 DEF importVars, ImportInv, ImportTypes, HeldInv, WatchedInv, AwaitedInv, Reading,
              Awaited, Existing, Watched, UploaderOpen, InFlight
<1>2. CASE ImportNext
  <2>1. ASSUME NEW r \in Imports,
               CheckFile(r) \/ RefuseVideo(r) \/ ImportRefused(r) \/ LoseImportReply(r)
        PROVE  ImportInv'
    BY <2>1, AnswerSteps
  <2>2. ASSUME NEW r \in Imports, NEW x \in Files \cup Videos, DropOnPage(r, x) PROVE ImportInv'
    BY <2>2, DropStep
  <2>3. ASSUME NEW r \in Imports,
               \/ SubmitImport(r) \/ FindSource(r) \/ Store(r) \/ ImportAccepted(r) \/ Unavailable(r)
        PROVE  ImportInv'
    BY <2>3, SubmitStep, LookStep, StoreStep, AcceptedStep, UnavailableStep
  <2> QED
    BY <1>2, <2>1, <2>2, <2>3, UploaderSteps DEF ImportNext
<1> QED
  BY <1>1, <1>2

\* At first nothing is sent, and the course holds at most one video.
LEMMA ImportInvInit == ImportInit => ImportInv
<1> SUFFICES ASSUME ImportInit PROVE ImportInv
  OBVIOUS
<1>1. Unsent \in Requests
  BY DEF Unsent, Requests
<1>2. NoUploader \in [n : Nat, choice : Source \cup {NoSource},
                      transcript : Videos \cup {NoSource}, paste : BOOLEAN,
                      book : {0} \cup Imports, video : {0} \cup Imports]
  BY DEF NoUploader
<1>3. books \in Seq([video : Videos, text : Videos])
      /\ \A i, j \in DOMAIN books : books[i].video = books[j].video => i = j
  <2>1. CASE books = <<>>
    BY <2>1
  <2>2. ASSUME NEW v \in Videos, books = <<[video |-> v, text |-> v]>>
        PROVE  books \in Seq([video : Videos, text : Videos]) /\ DOMAIN books = {1}
    BY <2>2
  <2> QED
    BY <2>1, <2>2 DEF ImportInit
<1>4. ImportTypes
  BY <1>1, <1>2, <1>3 DEF ImportInit, ImportTypes
<1>5. \A r \in Imports : importOf[r].at = "none" /\ ~importOf[r].mine
  BY DEF ImportInit, Unsent
<1>6. HeldInv
  BY <1>3, <1>5 DEF HeldInv, Reading, AtServer
<1>7. WatchedInv /\ AwaitedInv
  BY <1>5 DEF ImportInit, WatchedInv, Watched, NoUploader, AwaitedInv, Awaited
<1> QED
  BY <1>4, <1>6, <1>7 DEF ImportInv

LEMMA ImportsHold == ImportSpec => []ImportInv
BY ImportInvInit, ImportInvStep, PTL DEF ImportSpec

\* The uploader, the requests and the sources keep their types.
THEOREM ImportTypesHold == ImportSpec => []ImportTypes
<1>1. ImportInv => ImportTypes
  BY DEF ImportInv
<1> QED
  BY <1>1, ImportsHold, PTL

\* Unless two imports of it were under way at once a course holds a video once,
\* however many requests, closings, drops and lost replies there are.
THEOREM VideosHeldOnce == ImportSpec => []VideoHeldOnce
<1>1. ImportInv => VideoHeldOnce
  BY DEF ImportInv, HeldInv, VideoHeldOnce
<1> QED
  BY <1>1, ImportsHold, PTL

\* What the uploader says is of what it holds, and a refusal that came while no
\* other request was under way is shown on the choice it is of.
THEOREM RefusalsAreOfChoice == ImportSpec => []RefusalIsOfChoice
<1>1. ImportInv => RefusalIsOfChoice
  BY DEF ImportInv, WatchedInv, AwaitedInv, Awaited, RefusalIsOfChoice
<1> QED
  BY <1>1, ImportsHold, PTL
-----------------------------------------------------------------------------
(***************************************************************************)
(* Proofs about ChunkReader for every book, its chunks in reading order,   *)
(* and every number of steps and questions.                                *)
(***************************************************************************)
AnyChunk == {NoChunk} \cup AllChunks
PageNo   == 1 .. Pages

ReaderTypes ==
    /\ chunk \in AnyChunk /\ picked \in AnyChunk
    /\ viewer \in [loaded : BOOLEAN, top : PageNo, noticed : 0 .. Pages, current : PageNo,
                   reported : 0 .. Pages, hold : PageNo]
    /\ questions \in Seq(AllChunks) /\ question \in 0 .. Len(questions)
    /\ writing \in [generate : AnyChunk, regenerate : AnyChunk]
    /\ steps \in Nat /\ place \in PageNo /\ hasty \subseteq {"step", "late"}

(***************************************************************************)
(* The inductive invariant.  Before the book is loaded nothing is noticed  *)
(* and what is selected was picked.  After that, as long as every step     *)
(* waited until the viewer knew of the one before, what is noticed is the  *)
(* page in view, and a page in view that is not shown yet after a pick is  *)
(* of the chunk picked: its report finds that chunk selected and leaves it.*)
(***************************************************************************)
NotLoaded ==
    /\ viewer.top = 1 /\ viewer.current = 1 /\ viewer.noticed = 0 /\ viewer.reported = 0
    /\ picked = chunk /\ (chunk = NoChunk => place = 1)

InView ==
    /\ viewer.top = place
    /\ viewer.noticed # 0 => viewer.noticed = viewer.top /\ viewer.top # viewer.current
    /\ picked # NoChunk => chunk = picked
    /\ picked # NoChunk /\ viewer.top # viewer.current => Covers(picked, viewer.top)

ReaderInv ==
    /\ ReaderTypes
    /\ IF viewer.loaded THEN "step" \notin hasty => InView ELSE NotLoaded
    /\ OpenIsOfChunk

LEMMA ChunkFacts ==
    /\ AllChunks = 1 .. Len(Chunks) /\ NoChunk \notin AllChunks /\ 1 \in AllChunks
    /\ \A c \in AllChunks : Chunks[c].first \in PageNo /\ Covers(c, Chunks[c].first)
<1>1. Chunks \in Seq([first : Nat, last : Nat]) /\ Len(Chunks) \in Nat /\ AllChunks = 1 .. Len(Chunks)
  BY ReaderAssumption DEF AllChunks
<1>2. NoChunk \notin AllChunks
  BY <1>1 DEF NoChunk
<1>3. 1 \in AllChunks
  BY <1>1, ReaderAssumption
<1>4. ASSUME NEW c \in AllChunks PROVE Chunks[c].first \in PageNo /\ Covers(c, Chunks[c].first)
  <2>1. Chunks[c] \in [first : Nat, last : Nat]
    <3> DEFINE S == [first : Nat, last : Nat]
    <3>1. Chunks \in Seq(S) /\ c \in 1 .. Len(Chunks)
      BY <1>1, <1>4
    <3> HIDE DEF S
    <3>2. Chunks[c] \in S
      BY <3>1
    <3> QED
      BY <3>2 DEF S
  <2>2. Chunks[c].first \in 1 .. Chunks[c].last /\ Chunks[c].last <= Pages /\ Pages \in Nat
    BY ReaderAssumption
  <2>3. Chunks[c].first \in Nat /\ Chunks[c].last \in Nat
    BY <2>1
  <2>4. Chunks[c].first \in Chunks[c].first .. Chunks[c].last /\ Chunks[c].first \in 1 .. Pages
    BY <2>2, <2>3
  <2> QED
    BY <1>2, <2>4 DEF Covers, PageNo
<1> QED
  BY <1>1, <1>2, <1>3, <1>4

\* A page is of one of the book's chunks.
LEMMA PageHasChunk == ASSUME NEW pg \in PageNo PROVE ChunkForPage(pg) \in AllChunks
<1> DEFINE begun == {d \in AllChunks : Chunks[d].first <= pg}
           starts == {Chunks[c].first : c \in begun}
           latest == {c \in AllChunks : Chunks[c].first = Max(starts)}
<1>1. ASSUME starts # {} PROVE Min(latest) \in AllChunks
  <2>1. starts \subseteq 1 .. pg /\ pg \in Nat
    BY ChunkFacts, ReaderAssumption DEF PageNo
  <2>2. IsFiniteSet(starts) /\ starts \subseteq Nat
    <3>1. IsFiniteSet(1 .. pg)
      BY <2>1, FS_Interval
    <3> QED
      BY <2>1, <3>1, FS_Subset
  <2>3. Max(starts) \in starts
    BY <1>1, <2>2, FiniteMax
  <2>4. latest # {}
    BY <2>3
  <2>5. latest \subseteq Nat
    BY ChunkFacts
  <2>6. Min(latest) \in latest
    BY <2>4, <2>5, MinIs
  <2> QED
    BY <2>6
<1>2. starts = {} => ChunkForPage(pg) = 1
  BY DEF ChunkForPage
<1>3. starts # {} => ChunkForPage(pg) = Min(latest)
  BY DEF ChunkForPage
<1> QED
  BY <1>1, <1>2, <1>3, ChunkFacts

\* Picking and scrolling keep it: each waits for the last, or is hasty.
LEMMA ReaderMoves ==
    ASSUME ReaderInv, \/ Resize \/ Turn(viewer.current + 1) \/ Turn(viewer.current - 1)
                      \/ \E p \in 1 .. Pages : Scroll(p)
                      \/ \E c \in AllChunks : Pick(c)
    PROVE  ReaderInv'
<1>0. ReaderTypes /\ OpenIsOfChunk /\ (viewer.loaded /\ "step" \notin hasty => InView)
      /\ (~viewer.loaded => NotLoaded)
  BY DEF ReaderInv
<1>1. CASE Resize
  <2>1. /\ viewer.loaded /\ viewer' = [viewer EXCEPT !.top = viewer.hold]
        /\ hasty' = hasty \cup (IF viewer.hold # viewer.top THEN {"step"} ELSE {})
        /\ steps' = steps + 1
        /\ UNCHANGED <<chunk, question, questions, writing, picked, place>>
    BY <1>1 DEF Resize, ReadOn, Forgets
  <2>2. ReaderTypes'
    BY <1>0, <2>1 DEF ReaderTypes
  <2>3. ASSUME "step" \notin hasty' PROVE InView'
    <3>1. "step" \notin hasty /\ viewer.hold = viewer.top /\ viewer' = viewer
      BY <1>0, <2>1, <2>3 DEF ReaderTypes
    <3> QED
      BY <1>0, <2>1, <3>1 DEF InView, Covers
  <2>4. viewer'.loaded /\ OpenIsOfChunk'
    BY <1>0, <2>1 DEF OpenIsOfChunk, ReaderTypes
  <2> QED
    BY <2>2, <2>3, <2>4 DEF ReaderInv
<1>2. ASSUME NEW pg, pg \in PageNo, viewer.loaded, ReadOn, Haste,
             \/ viewer' = [viewer EXCEPT !.top = pg]
             \/ viewer' = [viewer EXCEPT !.hold = pg, !.top = pg],
             picked' = NoChunk, place' = pg, UNCHANGED <<chunk, question, questions, writing>>
      PROVE  ReaderInv'
  <2>1. /\ hasty' = hasty \cup (IF ~Known THEN {"step"} ELSE {}) /\ steps' = steps + 1
        /\ viewer'.loaded /\ viewer'.top = pg /\ viewer'.noticed = viewer.noticed
    BY <1>0, <1>2 DEF ReadOn, Haste, ReaderTypes
  <2>2. ReaderTypes'
    <3>1. viewer' \in [loaded : BOOLEAN, top : PageNo, noticed : 0 .. Pages, current : PageNo,
                       reported : 0 .. Pages, hold : PageNo]
      BY <1>0, <1>2 DEF ReaderTypes
    <3>2. steps' \in Nat /\ hasty' \subseteq {"step", "late"} /\ picked' \in AnyChunk
      BY <1>0, <1>2, <2>1 DEF ReaderTypes, AnyChunk
    <3> QED
      BY <1>0, <1>2, <3>1, <3>2 DEF ReaderTypes
  <2>3. "step" \notin hasty' => InView'
    BY <1>0, <1>2, <2>1 DEF Known, InView, Covers
  <2>4. OpenIsOfChunk'
    BY <1>0, <1>2, <2>1 DEF OpenIsOfChunk
  <2> QED
    BY <2>1, <2>2, <2>3, <2>4 DEF ReaderInv
<1>3. ASSUME NEW pg, Turn(pg) PROVE ReaderInv'
  <2>1. viewer.loaded => Jumped(viewer, pg) = [viewer EXCEPT !.hold = pg, !.top = pg]
    BY <1>0 DEF Jumped, ReaderTypes
  <2> QED
    BY <1>2, <1>3, <2>1 DEF Turn, PageNo
<1>4. ASSUME NEW pg \in 1 .. Pages, Scroll(pg) PROVE ReaderInv'
  BY <1>2, <1>4 DEF Scroll, PageNo
<1>5. ASSUME NEW c \in AllChunks, Pick(c) PROVE ReaderInv'
  <2>0. /\ Chunks[c].first \in PageNo /\ Covers(c, Chunks[c].first) /\ c # NoChunk
    BY ChunkFacts
  <2>1. /\ hasty' = hasty \cup (IF viewer.loaded /\ ~Known THEN {"step"} ELSE {})
        /\ steps' = steps + 1 /\ chunk' = c /\ question' = 0 /\ picked' = c
        /\ UNCHANGED <<questions, writing>>
        /\ viewer' = IF c = chunk THEN viewer ELSE Jumped(viewer, Chunks[c].first)
        /\ place' = IF c = chunk THEN place ELSE Chunks[c].first
    BY <1>5 DEF Pick, ReadOn, Haste, SelectChunk, NoQuestionOpen
  <2>2. Jumped(viewer, Chunks[c].first) = [viewer EXCEPT !.hold = Chunks[c].first,
            !.top = IF viewer.loaded THEN Chunks[c].first ELSE viewer.top]
    BY <1>0 DEF Jumped, ReaderTypes
  <2>3. ReaderTypes'
    <3>1. viewer' \in [loaded : BOOLEAN, top : PageNo, noticed : 0 .. Pages, current : PageNo,
                       reported : 0 .. Pages, hold : PageNo]
      BY <1>0, <2>0, <2>1, <2>2 DEF ReaderTypes
    <3>2. place' \in PageNo /\ steps' \in Nat /\ hasty' \subseteq {"step", "late"}
      BY <1>0, <2>0, <2>1 DEF ReaderTypes
    <3>3. 0 \in 0 .. Len(questions) /\ Len(questions) \in Nat
      BY <1>0 DEF ReaderTypes
    <3> QED
      BY <1>0, <2>1, <3>1, <3>2, <3>3 DEF ReaderTypes, AnyChunk
  <2>4. OpenIsOfChunk'
    BY <2>1 DEF OpenIsOfChunk, NoQuestionOpen
  <2>5. CASE viewer.loaded
    <3>1. ASSUME "step" \notin hasty' PROVE InView'
      <4>1. "step" \notin hasty /\ viewer.noticed = 0 /\ viewer.current = viewer.top
        BY <2>1, <2>5, <3>1 DEF Known
      <4>2. CASE c = chunk
        BY <1>0, <2>1, <2>5, <4>1, <4>2 DEF InView
      <4>3. CASE c # chunk
        <5>1. viewer'.top = Chunks[c].first /\ viewer'.noticed = 0
          BY <1>0, <2>1, <2>2, <2>5, <4>1, <4>3 DEF ReaderTypes
        <5> QED
          BY <2>0, <2>1, <4>3, <5>1 DEF InView, Covers
      <4> QED
        BY <4>2, <4>3
    <3>2. viewer'.loaded
      BY <1>0, <2>1, <2>2, <2>5 DEF ReaderTypes
    <3> QED
      BY <2>3, <2>4, <3>1, <3>2 DEF ReaderInv
  <2>6. CASE ~viewer.loaded
    <3>1. ~viewer'.loaded /\ viewer'.top = viewer.top /\ viewer'.current = viewer.current
          /\ viewer'.noticed = viewer.noticed /\ viewer'.reported = viewer.reported
      BY <1>0, <2>1, <2>2, <2>6 DEF ReaderTypes
    <3> QED
      BY <1>0, <2>0, <2>1, <2>3, <2>4, <2>6, <3>1 DEF ReaderInv, NotLoaded
  <2> QED
    BY <2>5, <2>6
<1> QED
  BY <1>1, <1>3, <1>4, <1>5

\* What is reported selects a chunk only where none that was picked stands:
\* the page is of a chunk picked, or nothing was picked, and then the chunk
\* that is followed is jumped to.
LEMMA ReportKeeps ==
    ASSUME ReaderTypes, OpenIsOfChunk,
           NEW v \in [loaded : BOOLEAN, top : PageNo, noticed : 0 .. Pages, current : PageNo,
                      reported : 0 .. Pages, hold : PageNo],
           v.loaded, v.noticed = 0, Report(v), "step" \notin hasty => v.top = place,
           "step" \notin hasty /\ picked # NoChunk => Covers(picked, v.top) /\ chunk = picked
                                                      /\ v.current = v.top,
           UNCHANGED <<questions, writing, steps, picked, hasty>>
    PROVE  ReaderInv'
<1> DEFINE followed == Follows(v)
           told == [v EXCEPT !.reported = v.current]
<1>1. followed \in AnyChunk /\ (followed # chunk => followed \in AllChunks)
  BY PageHasChunk DEF Follows, ReaderTypes, AnyChunk
<1>2. /\ told \in [loaded : BOOLEAN, top : PageNo, noticed : 0 .. Pages, current : PageNo,
                   reported : 0 .. Pages, hold : PageNo]
      /\ told.loaded /\ told.noticed = 0 /\ told.top = v.top /\ told.current = v.current
  BY DEF PageNo
<1>3. "step" \notin hasty /\ picked # NoChunk => followed = chunk
  BY DEF Follows, Covers
<1>4. CASE followed = chunk
  <2>1. viewer' = told /\ UNCHANGED <<chunk, question, place>>
    BY <1>4 DEF Report
  <2>2. ReaderTypes'
    BY <1>2, <2>1 DEF ReaderTypes
  <2>3. "step" \notin hasty' => InView'
    BY <1>2, <2>1 DEF InView, Covers
  <2>4. OpenIsOfChunk'
    BY <2>1 DEF OpenIsOfChunk
  <2> QED
    BY <1>2, <2>1, <2>2, <2>3, <2>4 DEF ReaderInv
<1>5. CASE followed # chunk
  <2>0. Chunks[followed].first \in PageNo
    BY <1>1, <1>5, ChunkFacts
  <2>1. /\ chunk' = followed /\ question' = 0 /\ viewer' = Jumped(told, Chunks[followed].first)
        /\ place' = Chunks[followed].first
    BY <1>5 DEF Report, SelectChunk, NoQuestionOpen
  <2>2. viewer' = [told EXCEPT !.hold = Chunks[followed].first, !.top = Chunks[followed].first]
    BY <1>2, <2>1 DEF Jumped
  <2>3. /\ viewer' \in [loaded : BOOLEAN, top : PageNo, noticed : 0 .. Pages, current : PageNo,
                        reported : 0 .. Pages, hold : PageNo]
        /\ viewer'.loaded /\ viewer'.noticed = 0 /\ viewer'.top = Chunks[followed].first
    BY <1>2, <2>0, <2>2
  <2>4. 0 \in 0 .. Len(questions)
    BY DEF ReaderTypes
  <2>5. ReaderTypes'
    BY <1>1, <2>0, <2>1, <2>3, <2>4 DEF ReaderTypes
  <2>6. "step" \notin hasty' => InView'
    BY <1>3, <1>5, <2>1, <2>3 DEF InView
  <2>7. OpenIsOfChunk'
    BY <2>1 DEF OpenIsOfChunk, NoQuestionOpen
  <2> QED
    BY <2>3, <2>5, <2>6, <2>7 DEF ReaderInv
<1> QED
  BY <1>4, <1>5

\* The book is loaded, the browser notices a page, the page is shown.
LEMMA ReaderViews ==
    ASSUME ReaderInv, Notice \/ PageShown \/ LoadBook
    PROVE  ReaderInv'
<1>0. ReaderTypes /\ OpenIsOfChunk /\ (viewer.loaded /\ "step" \notin hasty => InView)
      /\ (~viewer.loaded => NotLoaded)
  BY DEF ReaderInv
<1>1. CASE Notice
  <2>1. /\ viewer.loaded /\ viewer.top # viewer.current
        /\ viewer' = [viewer EXCEPT !.noticed = viewer.top]
        /\ UNCHANGED <<chunk, question, questions, writing, steps, picked, place, hasty>>
    BY <1>1 DEF Notice
  <2>2. ReaderTypes' /\ viewer'.loaded
    BY <1>0, <2>1 DEF ReaderTypes, PageNo
  <2>3. "step" \notin hasty' => InView'
    BY <1>0, <2>1 DEF ReaderTypes, InView, Covers
  <2>4. OpenIsOfChunk'
    BY <1>0, <2>1 DEF OpenIsOfChunk
  <2> QED
    BY <2>2, <2>3, <2>4 DEF ReaderInv
<1>2. CASE PageShown
  <2> DEFINE v == [viewer EXCEPT !.current = viewer.noticed, !.hold = viewer.noticed, !.noticed = 0]
  <2>1. /\ viewer.noticed # 0 /\ Report(v) /\ UNCHANGED <<questions, writing, steps, picked, hasty>>
    BY <1>2 DEF PageShown
  <2>2. viewer.loaded
    BY <1>0, <2>1 DEF NotLoaded
  <2>3. /\ v \in [loaded : BOOLEAN, top : PageNo, noticed : 0 .. Pages, current : PageNo,
                  reported : 0 .. Pages, hold : PageNo]
        /\ v.loaded /\ v.noticed = 0 /\ v.top = viewer.top /\ v.current = viewer.noticed
    <3>1. viewer.noticed \in PageNo /\ 0 \in 0 .. Pages
      BY <1>0, <2>1, ReaderAssumption DEF ReaderTypes, PageNo
    <3> QED
      BY <1>0, <2>2, <3>1 DEF ReaderTypes
  <2>4. "step" \notin hasty => v.top = place
    BY <1>0, <2>2, <2>3 DEF InView
  <2>5. "step" \notin hasty /\ picked # NoChunk => Covers(picked, v.top) /\ chunk = picked
                                                      /\ v.current = v.top
    BY <1>0, <2>1, <2>2, <2>3 DEF InView
  <2> HIDE DEF v
  <2> QED
    BY <1>0, <2>1, <2>3, <2>4, <2>5, ReportKeeps
<1>3. CASE LoadBook
  <2>1. ~viewer.loaded /\ NotLoaded /\ UNCHANGED <<questions, writing, steps, picked, hasty>>
    BY <1>0, <1>3 DEF LoadBook
  <2>2. CASE chunk = NoChunk
    <3> DEFINE v == [viewer EXCEPT !.loaded = TRUE]
    <3>1. Report(v)
      BY <1>3, <2>2 DEF LoadBook
    <3>2. /\ v \in [loaded : BOOLEAN, top : PageNo, noticed : 0 .. Pages, current : PageNo,
                    reported : 0 .. Pages, hold : PageNo]
          /\ v.loaded /\ v.noticed = 0 /\ v.top = place /\ picked = NoChunk
      BY <1>0, <2>1, <2>2 DEF ReaderTypes, NotLoaded
    <3> HIDE DEF v
    <3> QED
      BY <1>0, <2>1, <3>1, <3>2, ReportKeeps
  <2>3. CASE chunk # NoChunk
    <3> DEFINE v == [viewer EXCEPT !.loaded = TRUE, !.reported = viewer.current]
               first == Chunks[chunk].first
    <3>1. viewer' = Jumped(v, first) /\ place' = first /\ UNCHANGED <<chunk, question>>
      BY <1>3, <2>3 DEF LoadBook
    <3>2. first \in PageNo /\ Covers(chunk, first)
      BY <1>0, <2>3, ChunkFacts DEF ReaderTypes, AnyChunk
    <3>3. Jumped(v, first) = [viewer EXCEPT !.loaded = TRUE, !.reported = viewer.current,
                                            !.hold = first, !.top = first]
      BY <1>0 DEF Jumped, ReaderTypes
    <3> HIDE DEF first
    <3>4. /\ viewer' \in [loaded : BOOLEAN, top : PageNo, noticed : 0 .. Pages, current : PageNo,
                          reported : 0 .. Pages, hold : PageNo]
          /\ viewer'.loaded /\ viewer'.noticed = 0 /\ viewer'.top = first
      <4>1. viewer.current \in 0 .. Pages
        BY <1>0, ReaderAssumption DEF ReaderTypes, PageNo
      <4> QED
        BY <1>0, <2>1, <3>1, <3>2, <3>3, <4>1 DEF ReaderTypes, NotLoaded
    <3>5. ReaderTypes'
      BY <1>0, <2>1, <3>1, <3>2, <3>4 DEF ReaderTypes
    <3>6. InView'
      BY <2>1, <3>1, <3>2, <3>4 DEF InView, NotLoaded, Covers
    <3>7. OpenIsOfChunk'
      BY <1>0, <2>1, <3>1 DEF OpenIsOfChunk
    <3> QED
      BY <3>4, <3>5, <3>6, <3>7 DEF ReaderInv
  <2> QED
    BY <2>2, <2>3
<1> QED
  BY <1>1, <1>2, <1>3

\* A question that is opened is of the chunk selected, or came late.
LEMMA ReaderQuestions ==
    ASSUME ReaderInv,
           \/ Generate \/ Regenerate \/ CloseDialog
           \/ \E how \in DOMAIN writing : Written(how) \/ WritingFails(how)
           \/ \E q \in DOMAIN questions : OpenQuestion(q)
    PROVE  ReaderInv'
<1>0. ReaderTypes /\ OpenIsOfChunk /\ DOMAIN questions = 1 .. Len(questions)
      /\ Len(questions) \in Nat /\ 0 \in 0 .. Len(questions)
      /\ DOMAIN writing = {"generate", "regenerate"}
  BY DEF ReaderInv, ReaderTypes
<1>1. UNCHANGED <<chunk, viewer, steps, picked, place>>
  BY DEF Generate, Regenerate, CloseDialog, Written, WritingFails, OpenQuestion
<1>2. ASSUME questions' \in Seq(AllChunks), question' \in 0 .. Len(questions'),
             writing' \in [generate : AnyChunk, regenerate : AnyChunk],
             hasty' = hasty \/ hasty' = hasty \cup {"late"}, OpenIsOfChunk'
      PROVE  ReaderInv'
  <2>1. ReaderTypes'
    BY <1>0, <1>1, <1>2 DEF ReaderTypes
  <2>2. ("step" \notin hasty' => InView') <=> ("step" \notin hasty => InView)
    BY <1>1, <1>2 DEF InView, Covers
  <2>3. NotLoaded' <=> NotLoaded
    BY <1>1 DEF NotLoaded
  <2> QED
    BY <1>1, <1>2, <2>1, <2>2, <2>3 DEF ReaderInv
<1>3. CASE Generate
  <2>1. /\ chunk # NoChunk /\ writing' = [writing EXCEPT !.generate = chunk] /\ question' = 0
        /\ hasty' = hasty
    BY <1>3 DEF Generate, NoQuestionOpen
  <2>2. PICK s \in Stored : questions' = s
    BY <1>3 DEF Generate
  <2>3. questions' \in Seq(AllChunks)
    <3>1. writing.generate # NoChunk => writing.generate \in AllChunks
      BY <1>0 DEF ReaderTypes, AnyChunk
    <3> QED
      BY <1>0, <2>2, <3>1 DEF Stored, ReaderTypes
  <2>4. writing' \in [generate : AnyChunk, regenerate : AnyChunk]
    BY <1>0, <2>1 DEF ReaderTypes
  <2>5. OpenIsOfChunk' /\ question' \in 0 .. Len(questions')
    <3>1. Len(questions') \in Nat
      BY <2>3
    <3> QED
      BY <2>1, <3>1 DEF OpenIsOfChunk, NoQuestionOpen
  <2> QED
    BY <1>2, <2>1, <2>3, <2>4, <2>5
<1>4. CASE Regenerate
  <2>1. /\ question # 0 /\ writing' = [writing EXCEPT !.regenerate = questions[question]]
        /\ UNCHANGED <<question, questions, hasty>>
    BY <1>4 DEF Regenerate, NoQuestionOpen
  <2>2. questions[question] \in AnyChunk
    <3>1. question \in 1 .. Len(questions) /\ questions \in Seq(AllChunks)
      BY <1>0, <2>1 DEF ReaderTypes
    <3>2. questions[question] \in AllChunks
      BY <3>1
    <3> QED
      BY <3>2 DEF AnyChunk
  <2>3. writing' \in [generate : AnyChunk, regenerate : AnyChunk]
    BY <1>0, <2>1, <2>2 DEF ReaderTypes
  <2>4. OpenIsOfChunk'
    BY <1>0, <1>1, <2>1 DEF OpenIsOfChunk
  <2> QED
    BY <1>0, <1>2, <2>1, <2>3, <2>4 DEF ReaderTypes
<1>5. CASE CloseDialog
  <2>1. question' = 0 /\ UNCHANGED <<questions, writing, hasty>>
    BY <1>5 DEF CloseDialog, NoQuestionOpen
  <2>2. OpenIsOfChunk'
    BY <2>1 DEF OpenIsOfChunk, NoQuestionOpen
  <2> QED
    BY <1>0, <1>2, <2>1, <2>2 DEF ReaderTypes
<1>6. ASSUME NEW how \in DOMAIN writing, Written(how) PROVE ReaderInv'
  <2>1. /\ writing[how] # NoChunk /\ questions' = Append(questions, writing[how])
        /\ question' = Len(questions') /\ writing' = [writing EXCEPT ![how] = NoChunk]
        /\ hasty' = hasty \cup (IF writing[how] # chunk THEN {"late"} ELSE {})
    BY <1>6 DEF Written
  <2>2. writing[how] \in AllChunks
    BY <1>0, <1>6, <2>1 DEF ReaderTypes, AnyChunk
  <2>3. /\ questions' \in Seq(AllChunks) /\ Len(questions') = Len(questions) + 1
        /\ questions'[Len(questions) + 1] = writing[how]
    BY <1>0, <2>1, <2>2 DEF ReaderTypes
  <2>4. question' \in 0 .. Len(questions')
    BY <1>0, <2>1, <2>3
  <2>5. writing' \in [generate : AnyChunk, regenerate : AnyChunk]
    BY <1>0, <1>6, <2>1 DEF ReaderTypes, AnyChunk
  <2>6. OpenIsOfChunk'
    BY <1>1, <2>1, <2>3 DEF OpenIsOfChunk
  <2>7. hasty' = hasty \/ hasty' = hasty \cup {"late"}
    BY <2>1
  <2> QED
    BY <1>2, <2>3, <2>4, <2>5, <2>6, <2>7
<1>7. ASSUME NEW how \in DOMAIN writing, WritingFails(how) PROVE ReaderInv'
  <2>1. writing' = [writing EXCEPT ![how] = NoChunk] /\ UNCHANGED <<question, questions, hasty>>
    BY <1>7 DEF WritingFails
  <2>2. writing' \in [generate : AnyChunk, regenerate : AnyChunk]
    BY <1>0, <1>7, <2>1 DEF ReaderTypes, AnyChunk
  <2>3. OpenIsOfChunk'
    BY <1>0, <1>1, <2>1 DEF OpenIsOfChunk
  <2> QED
    BY <1>0, <1>2, <2>1, <2>2, <2>3 DEF ReaderTypes
<1>8. ASSUME NEW q \in DOMAIN questions, OpenQuestion(q) PROVE ReaderInv'
  <2>1. questions[q] = chunk /\ question' = q /\ UNCHANGED <<questions, writing, hasty>>
    BY <1>8 DEF OpenQuestion
  <2>2. OpenIsOfChunk' /\ q \in 0 .. Len(questions)
    BY <1>0, <1>1, <1>8, <2>1 DEF OpenIsOfChunk
  <2> QED
    BY <1>0, <1>2, <2>1, <2>2 DEF ReaderTypes
<1> QED
  BY <1>3, <1>4, <1>5, <1>6, <1>7, <1>8

\* Every step keeps it, and so does a step that is not the reader's.
LEMMA ReaderInvStep == ReaderInv /\ [ReaderNext]_readerVars => ReaderInv'
<1> SUFFICES ASSUME ReaderInv, [ReaderNext]_readerVars PROVE ReaderInv'
  OBVIOUS
<1>1. CASE UNCHANGED readerVars
  BY <1>1 DEF readerVars, ReaderInv, ReaderTypes, InView, NotLoaded, OpenIsOfChunk, Covers
<1>2. CASE ReaderNext
  BY <1>2, ReaderMoves, ReaderViews, ReaderQuestions DEF ReaderNext
<1> QED
  BY <1>1, <1>2

\* Nothing is loaded at first; a chunk the URL names counts as picked.
LEMMA ReaderInvInit == ReaderInit => ReaderInv
<1> SUFFICES ASSUME ReaderInit PROVE ReaderInv
  OBVIOUS
<1>1. 1 \in PageNo /\ 0 \in 0 .. Pages
  <2>1. Chunks[1].first \in PageNo /\ Pages \in Nat
    BY ChunkFacts, ReaderAssumption
  <2> QED
    BY <2>1 DEF PageNo
<1>2. chunk \in AllChunks => Chunks[chunk].first \in PageNo
  BY ChunkFacts
<1>3. /\ viewer \in [loaded : BOOLEAN, top : PageNo, noticed : 0 .. Pages, current : PageNo,
                     reported : 0 .. Pages, hold : PageNo]
      /\ ~viewer.loaded
  BY <1>1, <1>2 DEF ReaderInit
<1>4. questions \in Seq(AllChunks) /\ question \in 0 .. Len(questions)
  BY DEF ReaderInit, NoQuestionOpen
<1>5. writing \in [generate : AnyChunk, regenerate : AnyChunk]
  BY DEF ReaderInit, Idle, AnyChunk
<1>6. ReaderTypes
  BY <1>1, <1>3, <1>4, <1>5 DEF ReaderInit, ReaderTypes, AnyChunk
<1>7. OpenIsOfChunk /\ NotLoaded
  BY DEF ReaderInit, OpenIsOfChunk, NotLoaded
<1> QED
  BY <1>3, <1>6, <1>7 DEF ReaderInv

\* Chunk, page and question go together, for any book and any number of picks,
\* scrolls, fits and questions: a chunk picked stays selected until the reader
\* scrolls, the reader stays on the page scrolled to, and the question that is
\* open is of the chunk selected, except after the hurries the property names.
THEOREM ReaderStaysInStep == ReaderSpec => []ReaderInStep
<1>1. ReaderInv => ReaderInStep
  BY DEF ReaderInv, NotLoaded, InView, ReaderInStep, PickKept, PlaceKept
<1> QED
  BY <1>1, ReaderInvInit, ReaderInvStep, PTL DEF ReaderSpec

\* Pages are pages of the book, chunks are chunks of it, and every question is
\* of one.
THEOREM ReaderTypesHold == ReaderSpec => []ReaderTypes
<1>1. ReaderInv => ReaderTypes
  BY DEF ReaderInv
<1> QED
  BY <1>1, ReaderInvInit, ReaderInvStep, PTL DEF ReaderSpec
-----------------------------------------------------------------------------
(***************************************************************************)
(* Proofs about StudentScreen for any number of attempts and submissions.  *)
(***************************************************************************)
SentOne(p) == press[p].op # "none"

Runs == [last : 0 .. MaxAttempts, open : 0 .. MaxAttempts,
         answered : SUBSET Attempts, ended : BOOLEAN,
         supply : {"ready", "cooling", "completed"} \cup Waiting]
ScreenPages(last) == [typed : 0 .. last, result : 0 .. last, answered : 0 .. last,
                      advancing : BOOLEAN]
RunQueries == [says : {"pending", "open", "ended", "error"},
               fetch : {"idle", "sent", "open", "ended"}]
NextQueries(last) == [data : 0 .. last, error : {"none"} \cup Errors,
                      fetch : {"idle", "sent", "question"} \cup Errors, reply : 0 .. last]
Submissions(last) == [op : {"none", "sent", "grading", "graded", "refused"},
                      attempt : 0 .. last, typed : 0 .. last]

ServedTypes ==
    /\ run \in Runs
    /\ run.open \in {NoAttempt, run.last} /\ run.open \notin run.answered
    /\ run.answered \subseteq 1 .. run.last

PageTypes ==
    /\ page \in ScreenPages(run.last) /\ runQuery \in RunQueries
    /\ nextQuery \in NextQueries(run.last) /\ press \in [Presses -> Submissions(run.last)]
    /\ askingLive \in BOOLEAN /\ ending \in {"none", "sent", "ended"}
    /\ mishap \subseteq {"lost", "elsewhere", "twice"}

(***************************************************************************)
(* The inductive invariant.  While no mishap happened to this page, at     *)
(* most one submission is under way, of the open attempt or of one that it *)
(* closed, and attempts only go forward: the one answered is before the    *)
(* one submitted, which is not after the one on screen, and what /next has *)
(* replied is not before that.  So what the page holds or is about to hold *)
(* is open, was closed by the submission under way, or is the attempt      *)
(* answered last, which is not offered again; and a text was typed for the *)
(* question that is held or the one submitted.                             *)
(***************************************************************************)
PressInv ==
    /\ \A p, q \in Presses : SentOne(p) /\ SentOne(q) => p = q
    /\ \A p \in Presses : SentOne(p) =>
          /\ press[p].op # "refused" /\ press[p].typed = press[p].attempt
          /\ IF press[p].op = "graded" THEN press[p].attempt # run.open
             ELSE press[p].attempt = run.open
          /\ page.answered < press[p].attempt /\ press[p].attempt <= nextQuery.data

Accounted(x) ==
    \/ x = run.open \/ x = page.answered
    \/ \E p \in Presses : SentOne(p) /\ press[p].attempt = x

HeldNow ==
    /\ nextQuery.data # NoAttempt => Accounted(nextQuery.data)
    /\ nextQuery.reply # NoAttempt => Accounted(nextQuery.reply) /\ nextQuery.data <= nextQuery.reply
    /\ page.answered <= nextQuery.data

TypedFor ==
    page.typed # NoAttempt =>
        /\ page.typed # page.answered
        /\ \/ page.typed = nextQuery.data
           \/ \E p \in Presses : SentOne(p) /\ press[p].attempt = page.typed

Tidy ==
    /\ \A p \in Presses : IF SentOne(p) THEN press[p].attempt # NoAttempt ELSE press[p] = NoPress
    /\ nextQuery.fetch = "question" <=> nextQuery.reply # NoAttempt

ScreenInv == ServedTypes /\ PageTypes /\ Tidy /\ (mishap = {} => PressInv /\ HeldNow /\ TypedFor)

LEMMA ScreenTypes == ScreenInv => ScreenTypeOK
<1> SUFFICES ASSUME ScreenInv PROVE ScreenTypeOK
  OBVIOUS
<1>1. run.last \in Nat
  BY DEF ScreenInv, ServedTypes, Runs
<1>2. run.open \in 0 .. run.last
  BY <1>1 DEF ScreenInv, ServedTypes, NoAttempt
<1> QED
  BY <1>2 DEF ScreenInv, ServedTypes, PageTypes, ScreenTypeOK, Runs, ScreenPages, RunQueries,
              NextQueries, Submissions

\* More attempts are served and the rest of the run changes: what is on the page
\* keeps its types.
LEMMA MoreServed ==
    ASSUME NEW m \in Nat, NEW n \in Nat, m <= n
    PROVE  /\ ScreenPages(m) \subseteq ScreenPages(n) /\ NextQueries(m) \subseteq NextQueries(n)
           /\ [Presses -> Submissions(m)] \subseteq [Presses -> Submissions(n)]
<1>1. 0 .. m \subseteq 0 .. n
  OBVIOUS
<1>2. ScreenPages(m) \subseteq ScreenPages(n) /\ NextQueries(m) \subseteq NextQueries(n)
      /\ Submissions(m) \subseteq Submissions(n)
  BY <1>1 DEF ScreenPages, NextQueries, Submissions
<1> QED
  BY <1>2

\* /next is asked anew: what it held stays.
LEMMA AskedAnew ==
    ASSUME ScreenInv
    PROVE  /\ Refetched(nextQuery) \in NextQueries(run.last)
           /\ Refetched(nextQuery).data = nextQuery.data
           /\ Refetched(nextQuery).reply = NoAttempt /\ Refetched(nextQuery).fetch = "sent"
           /\ Invalidated \in {nextQuery, Refetched(nextQuery)}
<1>1. nextQuery \in NextQueries(run.last) /\ 0 \in 0 .. run.last
  BY DEF ScreenInv, ServedTypes, PageTypes, Runs
<1>2. Refetched(nextQuery) = [nextQuery EXCEPT !.fetch = "sent", !.reply = NoAttempt,
        !.error = IF nextQuery.data = NoAttempt THEN "none" ELSE nextQuery.error]
  BY <1>1 DEF Refetched, NextQueries
<1> QED
  BY <1>1, <1>2 DEF NextQueries, Invalidated, NoAttempt

\* Nothing that the invariant is about changes but for what is forgotten.
LEMMA Forgotten ==
    ASSUME ScreenInv, press' = press, run'.open = run.open, page'.answered = page.answered,
           page'.typed \in {page.typed, NoAttempt}, nextQuery'.data = nextQuery.data,
           nextQuery'.reply \in {nextQuery.reply, NoAttempt},
           nextQuery'.fetch = "question" <=> nextQuery'.reply # NoAttempt, mishap \subseteq mishap'
    PROVE  /\ Tidy'
           /\ mishap' = {} => PressInv' /\ HeldNow' /\ TypedFor'
<1>1. Tidy'
  BY DEF ScreenInv, Tidy, SentOne
<1> SUFFICES ASSUME mishap' = {} PROVE PressInv' /\ HeldNow' /\ TypedFor'
  BY <1>1
<1>2. PressInv /\ HeldNow /\ TypedFor
  BY DEF ScreenInv
<1>3. PressInv'
  BY <1>2 DEF PressInv, SentOne
<1>4. \A x : Accounted(x) => Accounted(x)'
  BY DEF Accounted, SentOne
<1>5. HeldNow'
  BY <1>2, <1>4 DEF HeldNow
<1>6. TypedFor'
  BY <1>2 DEF TypedFor, SentOne
<1> QED
  BY <1>3, <1>5, <1>6

\* What the server does without anybody's answer being graded.
LEMMA ServerSteps ==
    ASSUME ScreenInv,
           \/ AnswerRun \/ AnswerNext \/ AnswerAsk \/ AnswerEnd
           \/ WritingEnds \/ CoolingEnds \/ BankGrows \/ CurriculumDone \/ Elsewhere
    PROVE  ScreenInv'
<1>0. /\ ServedTypes /\ PageTypes /\ Tidy /\ (mishap = {} => PressInv /\ HeldNow /\ TypedFor)
      /\ run.last \in 0 .. MaxAttempts /\ MaxAttempts \in Nat /\ run.last \in Nat
  BY ScreenAssumption DEF ScreenInv, ServedTypes, Runs
<1>1. CASE AnswerRun
  <2>1. /\ runQuery.fetch = "sent" /\ UNCHANGED <<run, page, nextQuery, press, askingLive, ending, mishap>>
        /\ runQuery' = [runQuery EXCEPT !.fetch = IF run.ended THEN "ended" ELSE "open"]
    BY <1>1 DEF AnswerRun
  <2>2. runQuery' \in RunQueries
    BY <1>0, <2>1 DEF PageTypes, RunQueries
  <2> QED
    BY <1>0, <2>1, <2>2, Forgotten DEF ScreenInv, ServedTypes, PageTypes, Tidy
<1>2. CASE AnswerNext
  <2>1. nextQuery.fetch = "sent" /\ UNCHANGED <<page, runQuery, press, askingLive, ending, mishap>>
    BY <1>2 DEF AnswerNext
  <2>2. nextQuery.reply = NoAttempt /\ nextQuery \in NextQueries(run.last)
    BY <1>0, <2>1 DEF Tidy, PageTypes
  <2>3. CASE \E f \in Errors, s \in {run.supply} \cup Waiting :
               /\ nextQuery' = [nextQuery EXCEPT !.fetch = f, !.reply = NoAttempt]
               /\ run' = [run EXCEPT !.supply = s]
    <3>1. PICK f \in Errors, s \in {run.supply} \cup Waiting :
               /\ nextQuery' = [nextQuery EXCEPT !.fetch = f, !.reply = NoAttempt]
               /\ run' = [run EXCEPT !.supply = s]
      BY <2>3
    <3>2. /\ nextQuery' \in NextQueries(run.last) /\ nextQuery'.data = nextQuery.data
          /\ nextQuery'.reply = NoAttempt /\ nextQuery'.fetch # "question"
      BY <1>0, <2>2, <3>1 DEF NextQueries, NoAttempt, Errors, Waiting
    <3>3. /\ run' \in Runs /\ run'.last = run.last /\ run'.open = run.open
          /\ run'.answered = run.answered
      BY <1>0, <3>1 DEF ServedTypes, Runs
    <3>4. ServedTypes' /\ PageTypes'
      BY <1>0, <2>1, <3>2, <3>3 DEF ServedTypes, PageTypes
    <3>5. Tidy' /\ (mishap' = {} => PressInv' /\ HeldNow' /\ TypedFor')
      BY <2>1, <3>2, <3>3, Forgotten
    <3> QED
      BY <3>4, <3>5 DEF ScreenInv
  <2>4. CASE /\ run.open # NoAttempt /\ run' = run
             /\ nextQuery' = [nextQuery EXCEPT !.fetch = "question", !.reply = run.open]
    <3>1. /\ nextQuery' \in NextQueries(run.last) /\ nextQuery'.data = nextQuery.data
          /\ nextQuery'.reply = run.open /\ nextQuery'.fetch = "question" /\ run.open = run.last
      <4>1. run.open = run.last /\ run.last \in 0 .. run.last
        BY <1>0, <2>4 DEF ServedTypes
      <4> QED
        BY <2>2, <2>4, <4>1 DEF NextQueries
    <3>2. ServedTypes' /\ PageTypes' /\ Tidy'
      BY <1>0, <2>1, <2>4, <3>1 DEF ServedTypes, PageTypes, Tidy, SentOne
    <3>3. ASSUME mishap' = {} PROVE PressInv' /\ HeldNow' /\ TypedFor'
      <4>1. PressInv /\ HeldNow /\ TypedFor /\ nextQuery.data <= run.open
        BY <1>0, <2>1, <2>2, <3>1, <3>3 DEF NextQueries
      <4>2. PressInv'
        BY <2>1, <2>4, <3>1, <4>1 DEF PressInv, SentOne
      <4>3. \A x : Accounted(x)' <=> Accounted(x)
        BY <2>1, <2>4 DEF Accounted, SentOne
      <4>4. HeldNow'
        <5>1. Accounted(nextQuery.reply)'
          BY <2>4, <3>1 DEF Accounted
        <5>2. nextQuery'.data # NoAttempt => Accounted(nextQuery.data)'
          BY <3>1, <4>1, <4>3 DEF HeldNow
        <5>3. nextQuery'.data <= nextQuery'.reply /\ page'.answered <= nextQuery'.data
          BY <2>1, <3>1, <4>1 DEF HeldNow
        <5> QED
          BY <5>1, <5>2, <5>3 DEF HeldNow
      <4>5. TypedFor'
        BY <2>1, <3>1, <4>1 DEF TypedFor, SentOne
      <4> QED
        BY <4>2, <4>4, <4>5
    <3> QED
      BY <3>2, <3>3 DEF ScreenInv
  <2>5. CASE /\ run.open = NoAttempt /\ run.last # MaxAttempts
             /\ nextQuery' = [nextQuery EXCEPT !.fetch = "question", !.reply = run.last + 1]
             /\ \E s \in {"ready", "empty"} :
                  run' = [run EXCEPT !.last = @ + 1, !.open = run.last + 1, !.supply = s]
    <3>1. PICK s \in {"ready", "empty"} :
               run' = [run EXCEPT !.last = run.last + 1, !.open = run.last + 1, !.supply = s]
      BY <1>0, <2>5 DEF ServedTypes, Runs
    <3>2. run.last + 1 \in 1 .. MaxAttempts /\ run.last + 1 \notin run.answered
          /\ run.answered \subseteq 1 .. (run.last + 1)
      BY <1>0, <2>5 DEF ServedTypes
    <3>3. /\ run' \in Runs /\ run'.last = run.last + 1 /\ run'.open = run.last + 1
          /\ run'.answered = run.answered
      <4>1. run.last + 1 \in 0 .. MaxAttempts
            /\ s \in {"ready", "cooling", "completed"} \cup Waiting
        BY <1>0, <3>2 DEF Waiting
      <4> QED
        BY <1>0, <3>1, <4>1 DEF ServedTypes, Runs
    <3>4. ServedTypes'
      BY <3>2, <3>3 DEF ServedTypes
    <3>5. /\ nextQuery' \in NextQueries(run.last + 1) /\ nextQuery'.data = nextQuery.data
          /\ nextQuery'.reply = run.last + 1 /\ nextQuery'.fetch = "question"
      <4>1. nextQuery \in NextQueries(run.last + 1) /\ run.last + 1 \in 0 .. (run.last + 1)
        BY <1>0, <2>2, MoreServed
      <4> QED
        BY <2>5, <4>1 DEF NextQueries
    <3>6. PageTypes'
      <4>1. page \in ScreenPages(run.last + 1) /\ press \in [Presses -> Submissions(run.last + 1)]
        BY <1>0, MoreServed DEF PageTypes
      <4> QED
        BY <1>0, <2>1, <3>3, <3>5, <4>1 DEF PageTypes
    <3>7. Tidy'
      BY <1>0, <2>1, <3>5 DEF Tidy, SentOne, NoAttempt
    <3>8. ASSUME mishap' = {} PROVE PressInv' /\ HeldNow' /\ TypedFor'
      <4>1. PressInv /\ HeldNow /\ TypedFor /\ nextQuery.data \in 0 .. run.last
        BY <1>0, <2>1, <2>2, <3>8 DEF NextQueries
      <4>2. \A p \in Presses : press[p].attempt \in 0 .. run.last /\ page.answered \in 0 .. run.last
        BY <1>0 DEF PageTypes, Submissions, ScreenPages
      <4>3. PressInv'
        BY <1>0, <2>1, <2>5, <3>3, <3>5, <4>1, <4>2 DEF PressInv, SentOne, NoAttempt
      <4>4. \A x : x # NoAttempt /\ Accounted(x) => Accounted(x)'
        BY <2>1, <2>5 DEF Accounted, SentOne
      <4>5. HeldNow'
        <5>1. Accounted(nextQuery.reply)'
          BY <3>3, <3>5 DEF Accounted
        <5>2. nextQuery'.data # NoAttempt => Accounted(nextQuery.data)'
          BY <3>5, <4>1, <4>4 DEF HeldNow
        <5>3. nextQuery'.data <= nextQuery'.reply
          BY <1>0, <3>5, <4>1
        <5>4. page'.answered <= nextQuery'.data
          BY <2>1, <3>5, <4>1 DEF HeldNow
        <5> QED
          BY <5>1, <5>2, <5>3, <5>4 DEF HeldNow
      <4>6. TypedFor'
        BY <2>1, <3>5, <4>1 DEF TypedFor, SentOne
      <4> QED
        BY <4>3, <4>5, <4>6
    <3> QED
      BY <3>4, <3>6, <3>7, <3>8 DEF ScreenInv
  <2>6. \/ \E f \in Errors, s \in {run.supply} \cup Waiting :
               /\ nextQuery' = [nextQuery EXCEPT !.fetch = f, !.reply = NoAttempt]
               /\ run' = [run EXCEPT !.supply = s]
        \/ /\ run.open # NoAttempt /\ run' = run
           /\ nextQuery' = [nextQuery EXCEPT !.fetch = "question", !.reply = run.open]
        \/ /\ run.open = NoAttempt /\ run.last # MaxAttempts
           /\ nextQuery' = [nextQuery EXCEPT !.fetch = "question", !.reply = run.last + 1]
           /\ \E s \in {"ready", "empty"} :
                  run' = [run EXCEPT !.last = @ + 1, !.open = run.last + 1, !.supply = s]
    <3> DEFINE supply == IF run.last = MaxAttempts THEN "completed" ELSE run.supply
               refused(f) == nextQuery' = [nextQuery EXCEPT !.fetch = f, !.reply = NoAttempt]
    <3>1. run = [run EXCEPT !.supply = run.supply]
      BY <1>0 DEF ServedTypes, Runs
    <3>2. ASSUME NEW f \in Errors, refused(f), run' = run
          PROVE  \E g \in Errors, s \in {run.supply} \cup Waiting :
                    /\ nextQuery' = [nextQuery EXCEPT !.fetch = g, !.reply = NoAttempt]
                    /\ run' = [run EXCEPT !.supply = s]
      BY <3>1, <3>2
    <3>3. CASE run.ended
      BY <1>2, <3>2, <3>3 DEF AnswerNext, Errors
    <3>4. CASE ~run.ended /\ run.open # NoAttempt
      BY <1>2, <3>4 DEF AnswerNext
    <3>5. CASE ~run.ended /\ run.open = NoAttempt
      <4>1. CASE supply = "ready" /\ nextQuery' = [nextQuery EXCEPT !.fetch = "question", !.reply = run.last + 1]
                 /\ \E s \in {"ready", "empty"} :
                       run' = [run EXCEPT !.last = @ + 1, !.open = run.last + 1, !.supply = s]
        BY <3>5, <4>1
      <4>2. CASE \E s \in Waiting : refused(s) /\ run' = [run EXCEPT !.supply = s]
        BY <4>2 DEF Errors
      <4>3. CASE supply \in {"generating", "completed", "cooling"} /\ run' = run
                 /\ refused(IF supply = "cooling" THEN "empty" ELSE supply)
        <5>1. (IF supply = "cooling" THEN "empty" ELSE supply) \in Errors
          BY <4>3 DEF Errors, Waiting
        <5> QED
          BY <3>2, <4>3, <5>1
      <4> QED
        BY <1>2, <3>5, <4>1, <4>2, <4>3 DEF AnswerNext
    <3> QED
      BY <3>3, <3>4, <3>5
  <2> QED
    BY <2>3, <2>4, <2>5, <2>6
<1>3. CASE AnswerAsk
  <2>1. /\ askingLive' = FALSE /\ nextQuery' = Invalidated
        /\ run' = run \/ run' = [run EXCEPT !.supply = "generating"]
        /\ UNCHANGED <<page, runQuery, press, ending, mishap>>
    BY <1>3 DEF AnswerAsk
  <2>2. /\ run' \in Runs /\ run'.last = run.last /\ run'.open = run.open
        /\ run'.answered = run.answered
    BY <1>0, <2>1 DEF ServedTypes, Runs, Waiting
  <2>3. /\ nextQuery' \in NextQueries(run.last) /\ nextQuery'.data = nextQuery.data
        /\ nextQuery'.reply \in {nextQuery.reply, NoAttempt}
        /\ nextQuery'.fetch = "question" <=> nextQuery'.reply # NoAttempt
    BY <1>0, <2>1, AskedAnew DEF PageTypes, Tidy
  <2>4. ServedTypes' /\ PageTypes'
    BY <1>0, <2>1, <2>2, <2>3 DEF ServedTypes, PageTypes
  <2>5. Tidy' /\ (mishap' = {} => PressInv' /\ HeldNow' /\ TypedFor')
    BY <2>1, <2>2, <2>3, Forgotten
  <2> QED
    BY <2>4, <2>5 DEF ScreenInv
<1>4. ASSUME run' \in Runs, run'.last = run.last, run'.open = run.open, run'.answered = run.answered,
             ending' \in {"none", "sent", "ended"},
             UNCHANGED <<page, runQuery, nextQuery, press, askingLive, mishap>>
      PROVE  ScreenInv'
  <2>1. ServedTypes' /\ PageTypes'
    BY <1>0, <1>4 DEF ServedTypes, PageTypes
  <2>2. Tidy' /\ (mishap' = {} => PressInv' /\ HeldNow' /\ TypedFor')
    BY <1>0, <1>4, Forgotten DEF Tidy
  <2> QED
    BY <2>1, <2>2 DEF ScreenInv
<1>5. CASE AnswerEnd
  <2>1. run' = [run EXCEPT !.ended = TRUE] /\ ending' = "ended"
        /\ UNCHANGED <<page, runQuery, nextQuery, press, askingLive, mishap>>
    BY <1>5 DEF AnswerEnd
  <2>2. run' \in Runs /\ run'.last = run.last /\ run'.open = run.open /\ run'.answered = run.answered
    BY <1>0, <2>1 DEF ServedTypes, Runs
  <2> QED
    BY <1>4, <2>1, <2>2
<1>6. CASE WritingEnds \/ CoolingEnds \/ BankGrows \/ CurriculumDone
  <2>1. PICK to \in {"ready", "cooling", "empty", "completed"} :
             run' = [run EXCEPT !.supply = to]
             /\ UNCHANGED <<page, runQuery, nextQuery, press, askingLive, ending, mishap>>
    BY <1>6 DEF WritingEnds, CoolingEnds, BankGrows, CurriculumDone, Supply
  <2>2. run' \in Runs /\ run'.last = run.last /\ run'.open = run.open /\ run'.answered = run.answered
    BY <1>0, <2>1 DEF ServedTypes, Runs, Waiting
  <2>3. ending' \in {"none", "sent", "ended"}
    BY <1>0, <2>1 DEF PageTypes
  <2> QED
    BY <1>4, <2>1, <2>2, <2>3
<1>7. CASE Elsewhere
  <2>1. /\ mishap' = mishap \cup {"elsewhere"}
        /\ UNCHANGED <<page, runQuery, nextQuery, press, askingLive, ending>>
        /\ \/ run' = [run EXCEPT !.ended = TRUE]
           \/ /\ run.open # NoAttempt
              /\ run' = [run EXCEPT !.answered = run.answered \cup {run.open}, !.open = NoAttempt]
    BY <1>0, <1>7 DEF Elsewhere, ServedTypes, Runs
  <2>2. ServedTypes'
    <3>1. CASE run' = [run EXCEPT !.ended = TRUE]
      BY <1>0, <3>1 DEF ServedTypes, Runs
    <3>2. CASE /\ run.open # NoAttempt
               /\ run' = [run EXCEPT !.answered = run.answered \cup {run.open}, !.open = NoAttempt]
      <4>1. run.open = run.last /\ run.last \in 1 .. run.last /\ run.last \in Attempts
        BY <1>0, <3>2 DEF ServedTypes, NoAttempt, Attempts
      <4>2. run' \in Runs /\ run'.last = run.last /\ run'.open = NoAttempt
            /\ run'.answered = run.answered \cup {run.last}
        <5>1. 0 \in 0 .. MaxAttempts /\ run.answered \cup {run.open} \in SUBSET Attempts
          BY <1>0, <4>1 DEF ServedTypes, Runs
        <5> QED
          BY <1>0, <3>2, <4>1, <5>1 DEF ServedTypes, Runs, NoAttempt
      <4>3. NoAttempt \notin run'.answered
        BY <1>0, <4>1, <4>2 DEF ServedTypes, NoAttempt
      <4> QED
        BY <1>0, <4>1, <4>2, <4>3 DEF ServedTypes
    <3> QED
      BY <2>1, <3>1, <3>2
  <2>3. run'.last = run.last
    BY <1>0, <2>1 DEF ServedTypes, Runs
  <2>4. PageTypes' /\ Tidy' /\ mishap' # {}
    BY <1>0, <2>1, <2>3 DEF PageTypes, Tidy, SentOne
  <2> QED
    BY <2>2, <2>4 DEF ScreenInv
<1> QED
  BY <1>1, <1>2, <1>3, <1>5, <1>6, <1>7

\* The page's queries: what they hold changes only when a question arrives, and
\* then it goes forward.
LEMMA QuerySteps ==
    ASSUME ScreenInv,
           \/ RunArrives \/ RunLost \/ NextArrives \/ NextLost \/ Poll \/ AskAgain
           \/ AskLive \/ EndSession \/ EndLost
    PROVE  ScreenInv'
<1>0. /\ ServedTypes /\ PageTypes /\ Tidy /\ (mishap = {} => PressInv /\ HeldNow /\ TypedFor)
      /\ run.last \in Nat /\ nextQuery \in NextQueries(run.last)
  BY DEF ScreenInv, ServedTypes, PageTypes, Runs
<1>1. ASSUME UNCHANGED <<run, page, press>>, runQuery' \in RunQueries,
             nextQuery' \in NextQueries(run.last), nextQuery'.data = nextQuery.data,
             nextQuery'.reply \in {nextQuery.reply, NoAttempt},
             nextQuery'.fetch = "question" <=> nextQuery'.reply # NoAttempt,
             askingLive' \in BOOLEAN, ending' \in {"none", "sent", "ended"},
             mishap' \in {mishap, mishap \cup {"lost"}}
      PROVE  ScreenInv'
  <2>1. ServedTypes' /\ PageTypes'
    BY <1>0, <1>1 DEF ServedTypes, PageTypes
  <2>2. mishap \subseteq mishap' /\ run'.open = run.open /\ page'.answered = page.answered
        /\ page'.typed \in {page.typed, NoAttempt}
    BY <1>1
  <2>3. Tidy' /\ (mishap' = {} => PressInv' /\ HeldNow' /\ TypedFor')
    BY <1>1, <2>2, Forgotten
  <2> QED
    BY <2>1, <2>3 DEF ScreenInv
<1>2. /\ runQuery \in RunQueries /\ askingLive \in BOOLEAN /\ ending \in {"none", "sent", "ended"}
      /\ (nextQuery.fetch = "question" <=> nextQuery.reply # NoAttempt)
  BY <1>0 DEF PageTypes, Tidy
<1>3. CASE RunArrives
  <2>1. /\ runQuery' \in RunQueries /\ nextQuery' \in {nextQuery, Refetched(nextQuery)}
        /\ UNCHANGED <<run, page, press, askingLive, ending, mishap>>
    BY <1>2, <1>3 DEF RunArrives, RunQueries
  <2> QED
    BY <1>0, <1>1, <1>2, <2>1, AskedAnew
<1>4. CASE RunLost
  <2>1. runQuery' \in RunQueries /\ UNCHANGED <<run, page, nextQuery, press, askingLive, ending, mishap>>
    BY <1>2, <1>4 DEF RunLost, RunQueries
  <2> QED
    BY <1>0, <1>1, <1>2, <2>1
<1>5. CASE NextLost
  <2>1. /\ nextQuery' = [nextQuery EXCEPT !.error = "unreachable", !.fetch = "idle",
                                          !.reply = NoAttempt]
        /\ UNCHANGED <<run, page, runQuery, press, askingLive, ending, mishap>>
    BY <1>5 DEF NextLost
  <2>2. /\ nextQuery' \in NextQueries(run.last) /\ nextQuery'.data = nextQuery.data
        /\ nextQuery'.reply = NoAttempt /\ nextQuery'.fetch # "question"
    <3>1. 0 \in 0 .. run.last /\ "unreachable" \in Errors
      BY <1>0 DEF Errors
    <3> QED
      BY <1>0, <2>1, <3>1 DEF NextQueries, NoAttempt
  <2> QED
    BY <1>1, <1>2, <2>1, <2>2
<1>6. CASE Poll \/ AskAgain
  <2>1. nextQuery' = Refetched(nextQuery)
        /\ UNCHANGED <<run, page, runQuery, press, askingLive, ending, mishap>>
    BY <1>6 DEF Poll, AskAgain
  <2> QED
    BY <1>1, <1>2, <2>1, AskedAnew
<1>7. CASE AskLive \/ EndSession \/ EndLost
  <2>1. /\ askingLive' \in BOOLEAN /\ ending' \in {"none", "sent", "ended"}
        /\ mishap' \in {mishap, mishap \cup {"lost"}}
        /\ UNCHANGED <<run, page, runQuery, nextQuery, press>>
    BY <1>2, <1>7 DEF AskLive, EndSession, EndLost
  <2> QED
    BY <1>0, <1>1, <1>2, <2>1
<1>8. CASE NextArrives
  <2>0. /\ nextQuery.fetch \notin {"idle", "sent"}
        /\ UNCHANGED <<run, page, runQuery, press, askingLive, ending, mishap>>
    BY <1>8 DEF NextArrives
  <2>1. CASE nextQuery.fetch # "question"
    <3>1. /\ nextQuery.fetch \in Errors /\ nextQuery.reply = NoAttempt
          /\ nextQuery' = [nextQuery EXCEPT !.error = nextQuery.fetch, !.fetch = "idle"]
      BY <1>0, <1>2, <1>8, <2>0, <2>1 DEF NextArrives, NextQueries
    <3>2. /\ nextQuery' \in NextQueries(run.last) /\ nextQuery'.data = nextQuery.data
          /\ nextQuery'.reply = NoAttempt /\ nextQuery'.fetch # "question"
      BY <1>0, <3>1 DEF NextQueries
    <3> QED
      BY <1>1, <1>2, <2>0, <3>2
  <2>2. CASE nextQuery.fetch = "question"
    <3>0. nextQuery.reply \in 0 .. run.last /\ nextQuery.data \in 0 .. run.last
          /\ page.answered \in 0 .. run.last /\ 0 \in 0 .. run.last
          /\ \A p \in Presses : press[p].attempt \in 0 .. run.last
      BY <1>0 DEF NextQueries, PageTypes, ScreenPages, Submissions
    <3>1. /\ nextQuery.reply # NoAttempt
          /\ nextQuery' = [data |-> nextQuery.reply, error |-> "none", fetch |-> "idle",
                           reply |-> NoAttempt]
      BY <1>2, <1>8, <2>2 DEF NextArrives
    <3>2. /\ nextQuery' \in NextQueries(run.last) /\ nextQuery'.data = nextQuery.reply
          /\ nextQuery'.reply = NoAttempt /\ nextQuery'.fetch # "question"
      BY <3>0, <3>1 DEF NextQueries, NoAttempt
    <3>3. ServedTypes' /\ PageTypes' /\ Tidy'
      BY <1>0, <2>0, <3>2 DEF ServedTypes, PageTypes, Tidy, SentOne
    <3>4. ASSUME mishap' = {} PROVE PressInv' /\ HeldNow' /\ TypedFor'
      <4>1. /\ PressInv /\ HeldNow /\ TypedFor /\ nextQuery.data <= nextQuery.reply
            /\ Accounted(nextQuery.reply) /\ page.answered <= nextQuery.data
        BY <1>0, <2>0, <3>1, <3>4 DEF HeldNow
      <4>2. PressInv'
        <5>1. ASSUME NEW p \in Presses, SentOne(p) PROVE press[p].attempt <= nextQuery'.data
          <6>1. press[p].attempt <= nextQuery.data
            BY <4>1, <5>1 DEF PressInv
          <6> QED
            BY <3>0, <3>2, <4>1, <6>1
        <5> QED
          BY <2>0, <4>1, <5>1 DEF PressInv, SentOne
      <4>3. Accounted(nextQuery.data)'
        BY <2>0, <3>2, <4>1 DEF Accounted, SentOne
      <4>4. page'.answered <= nextQuery'.data
        BY <2>0, <3>0, <3>2, <4>1
      <4>5. HeldNow'
        BY <3>2, <4>3, <4>4 DEF HeldNow
      <4>6. ASSUME page.typed # NoAttempt
            PROVE  \/ page.typed = nextQuery.reply
                   \/ \E p \in Presses : SentOne(p) /\ press[p].attempt = page.typed
        <5>1. CASE page.typed = nextQuery.data
          <6>1. Accounted(nextQuery.data) /\ page.typed # page.answered
            BY <4>1, <4>6, <5>1 DEF HeldNow, TypedFor
          <6>2. CASE nextQuery.data = run.open
            <7>1. nextQuery.data = run.last
              BY <1>0, <4>6, <5>1, <6>2 DEF ServedTypes
            <7> QED
              BY <3>0, <4>1, <5>1, <7>1
          <6> QED
            BY <5>1, <6>1, <6>2 DEF Accounted
        <5> QED
          BY <4>1, <4>6, <5>1 DEF TypedFor
      <4>7. TypedFor'
        BY <2>0, <3>2, <4>1, <4>6 DEF TypedFor, SentOne
      <4> QED
        BY <4>2, <4>5, <4>7
    <3> QED
      BY <3>3, <3>4 DEF ScreenInv
  <2> QED
    BY <2>1, <2>2
<1> QED
  BY <1>3, <1>4, <1>5, <1>6, <1>7, <1>8

\* A page that is put up anew holds nothing, and no mishap is known of it.
LEMMA FreshPage ==
    ASSUME ServedTypes, run' = run, page' = NewPage,
           runQuery' = [says |-> "pending", fetch |-> "sent"],
           nextQuery' = [data |-> NoAttempt, error |-> "none", fetch |-> "idle", reply |-> NoAttempt],
           press' = [p \in Presses |-> NoPress], askingLive' = FALSE, ending' = "none", mishap' = {}
    PROVE  ScreenInv'
<1>1. run.last \in Nat /\ 0 \in 0 .. run.last
  BY DEF ServedTypes, Runs
<1>2. NoPress \in Submissions(run.last) /\ NewPage \in ScreenPages(run.last)
  BY <1>1 DEF NoPress, Submissions, NewPage, ScreenPages, NoAttempt
<1>3. nextQuery' \in NextQueries(run.last) /\ runQuery' \in RunQueries
  BY <1>1 DEF NextQueries, RunQueries, NoAttempt
<1>4. ServedTypes' /\ PageTypes'
  BY <1>2, <1>3 DEF ServedTypes, PageTypes
<1>5. \A p \in Presses : press'[p] = NoPress /\ press'[p].op = "none"
  BY DEF NoPress
<1>6. Tidy' /\ PressInv'
  BY <1>5 DEF Tidy, PressInv, SentOne
<1>7. page'.typed = 0 /\ page'.answered = 0 /\ nextQuery'.data = 0 /\ nextQuery'.reply = 0
  BY DEF NewPage, NoAttempt
<1>8. HeldNow' /\ TypedFor'
  BY <1>7 DEF HeldNow, TypedFor, NoAttempt
<1> QED
  BY <1>4, <1>6, <1>8 DEF ScreenInv

\* Typing, moving on to the next question, and leaving the page.
LEMMA PageSteps ==
    ASSUME ScreenInv,
           \/ Advance \/ Dismiss \/ ReloadPage
           \/ \E typed \in Attempts \cup {NoAttempt} : TypeAnswer(typed)
    PROVE  ScreenInv'
<1>0. /\ ServedTypes /\ PageTypes /\ Tidy /\ (mishap = {} => PressInv /\ HeldNow /\ TypedFor)
      /\ run.last \in Nat /\ nextQuery \in NextQueries(run.last) /\ page \in ScreenPages(run.last)
      /\ 0 \in 0 .. run.last
  BY DEF ScreenInv, ServedTypes, PageTypes, Runs
<1>1. CASE ReloadPage
  BY <1>0, <1>1, FreshPage DEF ReloadPage, Remount
<1>2. CASE Advance
  <2>1. /\ page' = [page EXCEPT !.advancing = TRUE, !.typed = NoAttempt]
        /\ nextQuery' = Refetched(nextQuery)
        /\ UNCHANGED <<run, runQuery, press, askingLive, ending, mishap>>
    BY <1>2 DEF Advance
  <2>2. page' \in ScreenPages(run.last) /\ page'.answered = page.answered /\ page'.typed = NoAttempt
    BY <1>0, <2>1 DEF ScreenPages, NoAttempt
  <2>3. ServedTypes' /\ PageTypes'
    BY <1>0, <2>1, <2>2, AskedAnew DEF ServedTypes, PageTypes
  <2>4. Tidy' /\ (mishap' = {} => PressInv' /\ HeldNow' /\ TypedFor')
    <3>1. /\ nextQuery'.data = nextQuery.data /\ nextQuery'.reply = NoAttempt
          /\ nextQuery'.fetch # "question" /\ run'.open = run.open /\ mishap \subseteq mishap'
      BY <2>1, AskedAnew
    <3> QED
      BY <2>1, <2>2, <3>1, Forgotten
  <2> QED
    BY <2>3, <2>4 DEF ScreenInv
<1>3. CASE Dismiss
  <2>1. /\ page' = [page EXCEPT !.advancing = FALSE, !.result = NoAttempt]
        /\ UNCHANGED <<run, runQuery, nextQuery, press, askingLive, ending, mishap>>
    BY <1>3 DEF Dismiss
  <2>2. page' \in ScreenPages(run.last) /\ page'.answered = page.answered /\ page'.typed = page.typed
    BY <1>0, <2>1 DEF ScreenPages, NoAttempt
  <2>3. ServedTypes' /\ PageTypes'
    BY <1>0, <2>1, <2>2 DEF ServedTypes, PageTypes
  <2>4. Tidy' /\ (mishap' = {} => PressInv' /\ HeldNow' /\ TypedFor')
    <3>1. /\ (nextQuery'.fetch = "question" <=> nextQuery'.reply # NoAttempt)
          /\ nextQuery'.data = nextQuery.data /\ nextQuery'.reply = nextQuery.reply
          /\ run'.open = run.open /\ mishap \subseteq mishap'
      BY <1>0, <2>1 DEF Tidy
    <3> QED
      BY <2>1, <2>2, <3>1, Forgotten
  <2> QED
    BY <2>3, <2>4 DEF ScreenInv
<1>4. ASSUME NEW typed \in Attempts \cup {NoAttempt}, TypeAnswer(typed) PROVE ScreenInv'
  <2>1. /\ typed \in {NoAttempt, nextQuery.data} /\ nextQuery.data # page.answered
        /\ page' = [page EXCEPT !.typed = typed]
        /\ UNCHANGED <<run, runQuery, nextQuery, press, askingLive, ending, mishap>>
    BY <1>4 DEF TypeAnswer, Offered, StaleAnswered
  <2>2. page' \in ScreenPages(run.last) /\ page'.answered = page.answered /\ page'.typed = typed
    <3>1. typed \in 0 .. run.last
      BY <1>0, <2>1 DEF NextQueries, NoAttempt
    <3> QED
      BY <1>0, <2>1, <3>1 DEF ScreenPages
  <2>3. ServedTypes' /\ PageTypes' /\ Tidy'
    BY <1>0, <2>1, <2>2 DEF ServedTypes, PageTypes, Tidy, SentOne
  <2>4. ASSUME mishap' = {} PROVE PressInv' /\ HeldNow' /\ TypedFor'
    <3>1. PressInv /\ HeldNow
      BY <1>0, <2>1, <2>4
    <3>2. PressInv'
      BY <2>1, <2>2, <3>1 DEF PressInv, SentOne
    <3>3. \A x : Accounted(x) <=> Accounted(x)'
      BY <2>1, <2>2 DEF Accounted, SentOne
    <3>4. HeldNow'
      BY <2>1, <2>2, <3>1, <3>3 DEF HeldNow
    <3>5. TypedFor'
      BY <2>1, <2>2 DEF TypedFor
    <3> QED
      BY <3>2, <3>4, <3>5
  <2> QED
    BY <2>3, <2>4 DEF ScreenInv
<1> QED
  BY <1>1, <1>2, <1>3, <1>4

\* A submission from its sending to the result.
LEMMA PressSteps ==
    ASSUME ScreenInv, NEW p \in Presses,
           GradeStart(p) \/ GradeEnd(p) \/ Submit(p) \/ Graded(p) \/ NotGraded(p)
    PROVE  ScreenInv'
<1>0. /\ ServedTypes /\ PageTypes /\ Tidy /\ (mishap = {} => PressInv /\ HeldNow /\ TypedFor)
      /\ run.last \in Nat /\ nextQuery \in NextQueries(run.last) /\ page \in ScreenPages(run.last)
      /\ press \in [Presses -> Submissions(run.last)] /\ run \in Runs /\ 0 \in 0 .. run.last
      /\ press[p] \in Submissions(run.last)
  BY DEF ScreenInv, ServedTypes, PageTypes, Runs
<1>01. /\ page.answered \in 0 .. run.last /\ page.typed \in 0 .. run.last
       /\ nextQuery.data \in 0 .. run.last /\ nextQuery.reply \in 0 .. run.last
       /\ \A q \in Presses : press[q].attempt \in 0 .. run.last /\ press[q].typed \in 0 .. run.last
  BY <1>0 DEF ScreenPages, NextQueries, Submissions
<1>02. NoPress \in Submissions(run.last) /\ NoPress.op = "none"
  BY <1>0 DEF NoPress, Submissions, NoAttempt
<1>1. CASE GradeStart(p)
  <2>1. /\ press[p].op = "sent" /\ UNCHANGED <<run, page, runQuery, nextQuery, askingLive, ending, mishap>>
        /\ press' = [press EXCEPT ![p] = [press[p] EXCEPT !.op =
                        IF press[p].attempt \in run.answered THEN "refused" ELSE "grading"]]
    BY <1>0, <1>1 DEF GradeStart
  <2>2. /\ press' \in [Presses -> Submissions(run.last)]
        /\ press'[p].attempt = press[p].attempt /\ press'[p].typed = press[p].typed
        /\ press'[p].op = IF press[p].attempt \in run.answered THEN "refused" ELSE "grading"
        /\ \A q \in Presses \ {p} : press'[q] = press[q]
    BY <1>0, <2>1 DEF Submissions
  <2>3. SentOne(p) /\ \A q \in Presses : SentOne(q)' <=> SentOne(q)
    BY <2>1, <2>2 DEF SentOne
  <2>4. ServedTypes' /\ PageTypes' /\ Tidy'
    BY <1>0, <2>1, <2>2, <2>3 DEF ServedTypes, PageTypes, Tidy
  <2>5. ASSUME mishap' = {} PROVE PressInv' /\ HeldNow' /\ TypedFor'
    <3>1. PressInv /\ HeldNow /\ TypedFor
      BY <1>0, <2>1, <2>5
    <3>2. press[p].attempt = run.open /\ press'[p].op = "grading"
      BY <1>0, <2>1, <2>2, <2>3, <3>1 DEF PressInv, ServedTypes
    <3>3. PressInv'
      BY <2>1, <2>2, <2>3, <3>1, <3>2 DEF PressInv
    <3>4. \A q \in Presses : press'[q].attempt = press[q].attempt
      BY <2>2
    <3>5. \A x : Accounted(x) <=> Accounted(x)'
      BY <2>1, <2>3, <3>4 DEF Accounted
    <3>6. HeldNow'
      BY <2>1, <3>1, <3>5 DEF HeldNow
    <3>7. TypedFor'
      BY <2>1, <2>3, <3>1, <3>4 DEF TypedFor
    <3> QED
      BY <3>3, <3>6, <3>7
  <2> QED
    BY <2>4, <2>5 DEF ScreenInv
<1>2. CASE GradeEnd(p)
  <2> DEFINE done == press[p].attempt
  <2>1. /\ press[p].op = "grading" /\ UNCHANGED <<page, runQuery, nextQuery, askingLive, ending, mishap>>
        /\ press' = [press EXCEPT ![p] = [press[p] EXCEPT !.op = "graded"]]
        /\ run' = [run EXCEPT !.answered = run.answered \cup {done},
                              !.open = IF run.open = done THEN NoAttempt ELSE run.open]
    BY <1>0, <1>2 DEF GradeEnd, Runs
  <2>2. /\ press' \in [Presses -> Submissions(run.last)]
        /\ press'[p].attempt = done /\ press'[p].typed = press[p].typed /\ press'[p].op = "graded"
        /\ \A q \in Presses \ {p} : press'[q] = press[q]
    BY <1>0, <2>1 DEF Submissions
  <2>3. SentOne(p) /\ \A q \in Presses : SentOne(q)' <=> SentOne(q)
    BY <2>1, <2>2 DEF SentOne
  <2>4. done # NoAttempt /\ done \in 1 .. run.last
    <3>1. done # NoAttempt /\ done \in 0 .. run.last
      BY <1>0, <1>01, <2>3 DEF Tidy
    <3> QED
      BY <1>0, <3>1 DEF NoAttempt
  <2> HIDE DEF done
  <2>5. /\ run' \in Runs /\ run'.last = run.last /\ run'.answered = run.answered \cup {done}
        /\ run'.open = IF run.open = done THEN NoAttempt ELSE run.open
    <3>1. 1 .. run.last \subseteq Attempts
      BY <1>0, ScreenAssumption DEF Runs, Attempts
    <3>2. NoAttempt \in 0 .. MaxAttempts
      BY ScreenAssumption DEF NoAttempt
    <3> QED
      BY <1>0, <2>1, <2>4, <3>1, <3>2 DEF Runs
  <2>6. ServedTypes'
    <3>1. run'.open \in {NoAttempt, run.last}
      BY <1>0, <2>5 DEF ServedTypes
    <3>2. run'.open # done /\ run'.answered \subseteq 1 .. run.last
      BY <1>0, <2>4, <2>5 DEF ServedTypes
    <3>3. run'.open \notin run.answered
      <4>1. NoAttempt \notin 1 .. run.last
        BY <1>0 DEF NoAttempt
      <4> QED
        BY <1>0, <2>5, <4>1 DEF ServedTypes
    <3> QED
      BY <2>5, <3>1, <3>2, <3>3 DEF ServedTypes
  <2>7. PageTypes' /\ Tidy'
    BY <1>0, <2>1, <2>2, <2>3, <2>4, <2>5 DEF PageTypes, Tidy, done
  <2>8. ASSUME mishap' = {} PROVE PressInv' /\ HeldNow' /\ TypedFor'
    <3>1. PressInv /\ HeldNow /\ TypedFor
      BY <1>0, <2>1, <2>8
    <3>2. done = run.open /\ run'.open = NoAttempt /\ \A q \in Presses : SentOne(q) => q = p
      BY <2>1, <2>3, <2>5, <3>1 DEF PressInv, done
    <3>3. PressInv'
      BY <2>1, <2>2, <2>3, <2>4, <3>1, <3>2 DEF PressInv, done
    <3>4. \A q \in Presses : press'[q].attempt = press[q].attempt
      BY <2>2 DEF done
    <3>5. ASSUME NEW x, Accounted(x) PROVE Accounted(x)'
      <4>1. CASE x = run.open
        BY <2>2, <2>3, <3>2, <4>1 DEF Accounted
      <4>2. CASE x # run.open
        BY <2>1, <2>3, <3>4, <3>5, <4>2 DEF Accounted
      <4> QED
        BY <4>1, <4>2
    <3>6. HeldNow'
      BY <2>1, <3>1, <3>5 DEF HeldNow
    <3>7. TypedFor'
      BY <2>1, <2>3, <3>1, <3>4 DEF TypedFor
    <3> QED
      BY <3>3, <3>6, <3>7
  <2> QED
    BY <2>6, <2>7, <2>8 DEF ScreenInv
<1>3. CASE Submit(p)
  <2>1. /\ Offered # NoAttempt /\ page.typed # NoAttempt /\ press[p].op = "none"
        /\ press' = [press EXCEPT ![p] = [op |-> "sent", attempt |-> Offered, typed |-> page.typed]]
        /\ mishap' = IF \E q \in Presses : press[q].op # "none" THEN mishap \cup {"twice"} ELSE mishap
        /\ UNCHANGED <<run, page, runQuery, nextQuery, askingLive, ending>>
    BY <1>3 DEF Submit
  <2>2. Offered = nextQuery.data /\ nextQuery.data # page.answered /\ nextQuery.data # NoAttempt
    BY <2>1 DEF Offered, StaleAnswered
  <2>3. /\ press' \in [Presses -> Submissions(run.last)]
        /\ press'[p].op = "sent" /\ press'[p].attempt = nextQuery.data
        /\ press'[p].typed = page.typed
        /\ \A q \in Presses \ {p} : press'[q] = press[q]
    BY <1>0, <1>01, <2>1, <2>2 DEF Submissions
  <2>4. ~SentOne(p) /\ SentOne(p)' /\ \A q \in Presses \ {p} : SentOne(q)' <=> SentOne(q)
    BY <2>1, <2>3 DEF SentOne
  <2>5. ServedTypes' /\ PageTypes' /\ Tidy'
    <3>1. mishap' \subseteq {"lost", "elsewhere", "twice"}
      BY <1>0, <2>1 DEF PageTypes
    <3>2. Tidy'
      BY <1>0, <2>1, <2>2, <2>3, <2>4 DEF Tidy
    <3> QED
      BY <1>0, <2>1, <2>3, <3>1, <3>2 DEF ServedTypes, PageTypes
  <2>6. ASSUME mishap' = {} PROVE PressInv' /\ HeldNow' /\ TypedFor'
    <3>1. PressInv /\ HeldNow /\ TypedFor /\ \A q \in Presses : ~SentOne(q)
      BY <1>0, <2>1, <2>6 DEF SentOne
    <3>2. nextQuery.data = run.open /\ page.typed = nextQuery.data
      BY <2>1, <2>2, <3>1 DEF HeldNow, TypedFor, Accounted
    <3>3. page.answered < nextQuery.data /\ nextQuery.data <= nextQuery.data
      BY <1>0, <1>01, <2>2, <3>1 DEF HeldNow
    <3>4. PressInv'
      BY <2>1, <2>3, <2>4, <3>1, <3>2, <3>3 DEF PressInv
    <3>5. \A x : x \in {run.open, page.answered} => Accounted(x)'
      BY <2>1 DEF Accounted
    <3>6. HeldNow'
      BY <2>1, <3>1, <3>5 DEF HeldNow, Accounted
    <3>7. TypedFor'
      BY <2>1, <3>1, <3>2 DEF TypedFor
    <3> QED
      BY <3>4, <3>6, <3>7
  <2> QED
    BY <2>5, <2>6 DEF ScreenInv
<1>4. CASE Graded(p)
  <2> DEFINE done == press[p].attempt
  <2>1. /\ press[p].op = "graded" /\ press' = [press EXCEPT ![p] = NoPress]
        /\ page' = [page EXCEPT !.result = done, !.answered = done, !.typed = NoAttempt]
        /\ runQuery' = RunInvalidated /\ nextQuery' = Invalidated
        /\ UNCHANGED <<run, askingLive, ending, mishap>>
    BY <1>4 DEF Graded
  <2>2. /\ press' \in [Presses -> Submissions(run.last)] /\ press'[p] = NoPress
        /\ \A q \in Presses \ {p} : press'[q] = press[q]
    BY <1>0, <1>02, <2>1
  <2>3. SentOne(p) /\ ~SentOne(p)' /\ \A q \in Presses \ {p} : SentOne(q)' <=> SentOne(q)
    BY <1>02, <2>1, <2>2 DEF SentOne
  <2>4. done \in 0 .. run.last
    BY <1>01
  <2>5. /\ page' \in ScreenPages(run.last) /\ page'.answered = done /\ page'.typed = NoAttempt
    <3>1. NoAttempt \in 0 .. run.last
      BY <1>0 DEF NoAttempt
    <3> HIDE DEF done
    <3> QED
      BY <1>0, <2>1, <2>4, <3>1 DEF ScreenPages
  <2>6. /\ nextQuery' \in NextQueries(run.last) /\ nextQuery'.data = nextQuery.data
        /\ nextQuery'.reply \in {nextQuery.reply, NoAttempt}
        /\ nextQuery'.fetch = "question" <=> nextQuery'.reply # NoAttempt
    <3>1. CASE nextQuery' = nextQuery
      BY <1>0, <3>1 DEF Tidy
    <3>2. CASE nextQuery' = Refetched(nextQuery)
      BY <3>2, AskedAnew
    <3> QED
      BY <2>1, <3>1, <3>2, AskedAnew
  <2>7. runQuery' \in RunQueries
    BY <1>0, <2>1 DEF PageTypes, RunQueries, RunInvalidated
  <2>8. ServedTypes' /\ PageTypes' /\ Tidy'
    BY <1>0, <2>1, <2>2, <2>3, <2>5, <2>6, <2>7 DEF ServedTypes, PageTypes, Tidy, SentOne
  <2>9. ASSUME mishap' = {} PROVE PressInv' /\ HeldNow' /\ TypedFor'
    <3>1. /\ PressInv /\ HeldNow
          /\ \A q \in Presses : SentOne(q) => q = p
          /\ page.answered < done /\ done <= nextQuery.data
      BY <1>0, <2>1, <2>3, <2>9 DEF PressInv
    <3>2. \A q \in Presses : ~SentOne(q)'
      BY <2>3, <3>1
    <3> HIDE DEF done
    <3>3. PressInv'
      BY <3>2 DEF PressInv
    <3>4. ASSUME NEW x \in 0 .. run.last, Accounted(x), done <= x PROVE Accounted(x)'
      <4>1. x # page.answered
        BY <1>01, <2>4, <3>1, <3>4
      <4>2. x = run.open \/ x = done
        BY <3>1, <3>4, <4>1 DEF Accounted, done
      <4> QED
        BY <2>1, <2>5, <4>2 DEF Accounted
    <3>5. \A x \in {nextQuery.data, nextQuery.reply} : x # NoAttempt => Accounted(x)'
      BY <1>01, <2>4, <3>1, <3>4 DEF HeldNow
    <3>6. HeldNow'
      <4>1. nextQuery'.reply # NoAttempt => nextQuery'.reply = nextQuery.reply
        BY <2>6
      <4> QED
        BY <2>5, <2>6, <3>1, <3>5, <4>1 DEF HeldNow, Accounted
    <3>7. TypedFor'
      BY <2>5 DEF TypedFor
    <3> QED
      BY <3>3, <3>6, <3>7
  <2> QED
    BY <2>8, <2>9 DEF ScreenInv
<1>5. CASE NotGraded(p)
  <2>1. /\ press[p].op \in {"sent", "graded", "refused"} /\ press' = [press EXCEPT ![p] = NoPress]
        /\ mishap' = IF press[p].op = "graded" THEN mishap \cup {"lost"} ELSE mishap
        /\ UNCHANGED <<run, page, runQuery, nextQuery, askingLive, ending>>
    BY <1>5 DEF NotGraded
  <2>2. /\ press' \in [Presses -> Submissions(run.last)] /\ press'[p] = NoPress
        /\ \A q \in Presses \ {p} : press'[q] = press[q]
    BY <1>0, <1>02, <2>1
  <2>3. SentOne(p) /\ ~SentOne(p)' /\ \A q \in Presses \ {p} : SentOne(q)' <=> SentOne(q)
    BY <1>02, <2>1, <2>2 DEF SentOne
  <2>4. ServedTypes' /\ PageTypes' /\ Tidy'
    <3>1. mishap' \subseteq {"lost", "elsewhere", "twice"}
      BY <1>0, <2>1 DEF PageTypes
    <3>2. Tidy'
      BY <1>0, <2>1, <2>2, <2>3 DEF Tidy
    <3> QED
      BY <1>0, <2>1, <2>2, <3>1, <3>2 DEF ServedTypes, PageTypes
  <2>5. ASSUME mishap' = {} PROVE PressInv' /\ HeldNow' /\ TypedFor'
    <3>1. mishap = {} /\ press[p].op # "graded"
      BY <2>1, <2>5
    <3>2. /\ PressInv /\ HeldNow /\ TypedFor
          /\ \A q \in Presses : SentOne(q) => q = p
          /\ press[p].attempt = run.open
          /\ page.answered < press[p].attempt /\ press[p].attempt <= nextQuery.data
      BY <1>0, <2>3, <3>1 DEF PressInv
    <3>3. \A q \in Presses : ~SentOne(q)'
      BY <2>3, <3>2
    <3>4. PressInv'
      BY <3>3 DEF PressInv
    <3>5. ASSUME NEW x, Accounted(x) PROVE Accounted(x)'
      <4>1. x = run.open \/ x = page.answered
        BY <3>2, <3>5 DEF Accounted
      <4> QED
        BY <2>1, <4>1 DEF Accounted
    <3>6. HeldNow'
      BY <2>1, <3>2, <3>5 DEF HeldNow
    <3>7. press[p].attempt = nextQuery.data
      <4>1. press[p].attempt # NoAttempt
        BY <1>0, <2>3 DEF Tidy
      <4>2. press[p].attempt = run.last
        BY <1>0, <3>2, <4>1 DEF ServedTypes
      <4> QED
        BY <1>0, <1>01, <3>2, <4>2
    <3>8. TypedFor'
      BY <2>1, <3>2, <3>7 DEF TypedFor
    <3> QED
      BY <3>4, <3>6, <3>8
  <2> QED
    BY <2>4, <2>5 DEF ScreenInv
<1> QED
  BY <1>1, <1>2, <1>3, <1>4, <1>5

LEMMA ScreenInvStep == ScreenInv /\ [ScreenNext]_screenVars => ScreenInv'
<1> SUFFICES ASSUME ScreenInv, [ScreenNext]_screenVars PROVE ScreenInv'
  OBVIOUS
<1>1. CASE UNCHANGED screenVars
  <2>1. ServedTypes' /\ PageTypes' /\ Tidy'
    BY <1>1 DEF screenVars, ScreenInv, ServedTypes, PageTypes, Tidy, SentOne
  <2>2. PressInv' = PressInv /\ HeldNow' = HeldNow /\ TypedFor' = TypedFor /\ mishap' = mishap
    BY <1>1 DEF screenVars, PressInv, HeldNow, TypedFor, Accounted, SentOne
  <2> QED
    BY <2>1, <2>2 DEF ScreenInv
<1>2. CASE ScreenNext
  BY <1>2, ServerSteps, QuerySteps, PageSteps, PressSteps DEF ScreenNext
<1> QED
  BY <1>1, <1>2

LEMMA ScreenInvInit == ScreenInit => ScreenInv
<1> SUFFICES ASSUME ScreenInit PROVE ScreenInv
  OBVIOUS
<1>1. run.last = 0 /\ run.open = NoAttempt /\ run.answered = {} /\ run \in Runs
  <2> DEFINE from == {"ready", "generating", "empty"}
  <2>1. run \in [last : {0}, open : {0}, answered : {{}}, ended : {FALSE}, supply : from]
    BY DEF ScreenInit, NoAttempt
  <2>2. 0 \in 0 .. MaxAttempts /\ {} \in SUBSET Attempts
    BY ScreenAssumption
  <2>3. from \subseteq {"ready", "cooling", "completed"} \cup Waiting
    BY DEF Waiting
  <2> HIDE DEF from
  <2>4. run \in Runs
    BY <2>1, <2>2, <2>3 DEF Runs
  <2> QED
    BY <2>1, <2>4 DEF NoAttempt
<1>2. 0 \in 0 .. run.last
  BY <1>1
<1>3. NoPress \in Submissions(run.last) /\ NewPage \in ScreenPages(run.last)
  BY <1>2 DEF NoPress, Submissions, NewPage, ScreenPages, NoAttempt
<1>4. nextQuery \in NextQueries(run.last) /\ runQuery \in RunQueries
  BY <1>2 DEF ScreenInit, NextQueries, RunQueries, NoAttempt
<1>5. ServedTypes /\ PageTypes
  BY <1>1, <1>3, <1>4 DEF ScreenInit, ServedTypes, PageTypes
<1>6. \A p \in Presses : press[p] = NoPress /\ press[p].op = "none"
  BY DEF ScreenInit, NoPress
<1>7. nextQuery.fetch = "idle" /\ nextQuery.reply = NoAttempt /\ nextQuery.data = NoAttempt
  BY DEF ScreenInit
<1>8. Tidy /\ PressInv
  BY <1>6, <1>7 DEF Tidy, PressInv, SentOne
<1>9. page.typed = NoAttempt /\ page.answered = NoAttempt
  BY DEF ScreenInit, NewPage
<1>10. HeldNow /\ TypedFor
  BY <1>7, <1>9 DEF HeldNow, TypedFor, NoAttempt
<1> QED
  BY <1>5, <1>8, <1>10 DEF ScreenInv

\* The state of the page and of the run keeps its types (student-session-screen.tsx).
THEOREM ScreenTypesHold == ScreenSpec => []ScreenTypeOK
<1>1. ScreenSpec => []ScreenInv
  BY ScreenInvInit, ScreenInvStep, PTL DEF ScreenSpec
<1> QED
  BY <1>1, ScreenTypes, PTL

\* What the invariant says of the question on offer and of the texts sent.
LEMMA ScreenInvAnswers == ScreenInv => AnswersTheOffered
<1> SUFFICES ASSUME ScreenInv, mishap = {} PROVE AnswersTheOffered
  BY DEF AnswersTheOffered, OfferedIsOpen, TextGoesToItsQuestion
<1>1. PressInv /\ HeldNow
  BY DEF ScreenInv
<1>2. TextGoesToItsQuestion
  BY <1>1 DEF PressInv, SentOne, TextGoesToItsQuestion
<1>3. Offered # NoAttempt => Offered = nextQuery.data /\ nextQuery.data # page.answered
  BY DEF Offered, StaleAnswered
<1>4. OfferedIsOpen
  BY <1>1, <1>3 DEF HeldNow, Accounted, OfferedIsOpen
<1> QED
  BY <1>2, <1>4 DEF AnswersTheOffered

\* Whatever the learner presses and however the replies of the two queries, of
\* the submissions and of the polls interleave, a page to which nothing happened
\* that it was not told offers the question that is open, or whose answer is on
\* its way, and submits a text as the answer of the question it was typed for
\* (student-session-screen.tsx).
THEOREM AnswersGoWhereOffered == ScreenSpec => []AnswersTheOffered
<1>1. ScreenSpec => []ScreenInv
  BY ScreenInvInit, ScreenInvStep, PTL DEF ScreenSpec
<1> QED
  BY <1>1, ScreenInvAnswers, PTL

=============================================================================
