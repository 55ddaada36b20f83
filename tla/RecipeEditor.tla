---------------------------- MODULE RecipeEditor ----------------------------
(***************************************************************************)
(* The editor of a tutorial style: a YAML text that the AI drafts or the   *)
(* professor edits, examples written from it on request, and a save that   *)
(* sends the examples on screen along, to be kept as the style's first     *)
(* tutorials.  Drafting, writing an example and saving take seconds, and   *)
(* the text may be edited, shown again and saved meanwhile.                *)
(*                                                                         *)
(* One subtopic and one guidance level stand for those the examples are    *)
(* of.  The cache of written examples outlives the editor; every editor    *)
(* numbers its runs of examples from 1.  An editor is left between saves.  *)
(***************************************************************************)
EXTENDS Naturals, Sequences

CONSTANTS
    Texts,      \* YAML texts
    Valid,      \* those that parse as a recipe
    NoText,     \* an empty text
    MaxShows,   \* bound: runs of examples in one editor
    MaxBlocks   \* bound: examples written

ASSUME RecipeAssumption ==
    /\ Valid \subseteq Texts /\ NoText \notin Texts
    /\ MaxShows \in Nat /\ MaxBlocks \in Nat

NoSave == [text |-> NoText, examples |-> {}, known |-> FALSE, op |-> "none"]
Blocks == 1 .. MaxBlocks
Blank(state) == [is |-> state, block |-> 0]
Keys == (1 .. MaxShows) \X Texts

VARIABLES
    library,    \* the text of the recipe's row, or none
    tutorials,  \* those kept: the example, the text it was saved with, which copy
    editor,     \* the editor on screen: its recipe is a row, its text, its examples
    drafting,   \* a draft is being written for it
    save,       \* its save
    cache,      \* the cached example of each run and text
    wroteFrom,  \* history: the text each example was written from
    excused     \* history: a reply was lost, the editor was opened again

recipeServer == <<library, tutorials>>
recipeVars == <<library, tutorials, editor, drafting, save, cache, wroteFrom, excused>>

RecipeTypeOK ==
    /\ library \in Texts \cup {NoText}
    /\ tutorials \subseteq [block : Blocks, text : Texts, copy : 1 .. 2]
    /\ editor \in [known : BOOLEAN, yaml : Texts \cup {NoText}, run : 0 .. MaxShows,
                   runText : Texts \cup {NoText}, saved : BOOLEAN]
    /\ drafting \in BOOLEAN
    /\ save \in [text : Texts \cup {NoText}, examples : SUBSET Blocks, known : BOOLEAN,
                 op : {"none", "sent", "saved", "refused"}]
    /\ cache \in [Keys -> [is : {"none", "writing", "failed", "written"}, block : 0 .. MaxBlocks]]
    /\ wroteFrom \in Seq(Texts) /\ Len(wroteFrom) <= MaxBlocks
    /\ excused \subseteq {"lost", "reopened"}

-----------------------------------------------------------------------------
(* The editor.                                                             *)

\* "Show examples": a run that remembers the text it is of.
Showing(e, text) == [e EXCEPT !.run = @ + 1, !.runText = text, !.saved = FALSE]

\* The example on screen, and the ones a save keeps.
OnScreen == <<editor.run, editor.runText>>

\* Mutant: the examples on screen are kept whatever the text has become.
KeepShown == IF editor.run = 0 \/ editor.saved THEN {} ELSE {cache[OnScreen].block} \cap Blocks

ExamplesToKeep ==
    IF editor.run = 0 \/ editor.saved \/ editor.runText # editor.yaml THEN {}
    ELSE {cache[OnScreen].block} \cap Blocks

Opened(text) == [known |-> text # NoText, yaml |-> text, run |-> 0, runText |-> NoText,
                 saved |-> FALSE]

\* An editor is opened on the recipe of the list, or on none.
OpenRecipe ==
    /\ save.op = "none"
    /\ \E text \in {NoText, library} : editor' = Opened(text)
    /\ drafting' = FALSE
    /\ cache' = [k \in Keys |-> IF cache[k].is = "failed" THEN Blank("none") ELSE cache[k]]
    /\ excused' = excused \cup {"reopened"}
    /\ UNCHANGED <<recipeServer, save, wroteFrom>>

AskDraft ==
    /\ ~drafting
    /\ drafting' = TRUE
    /\ UNCHANGED <<recipeServer, editor, save, cache, wroteFrom, excused>>

\* The draft replaces the text, whatever it has become meanwhile; a valid one
\* is shown with examples.
Drafted(text) ==
    /\ drafting
    /\ drafting' = FALSE
    /\ IF text \in Valid
       THEN editor.run < MaxShows /\ editor' = Showing([editor EXCEPT !.yaml = text], text)
       ELSE editor' = [editor EXCEPT !.yaml = text]
    /\ UNCHANGED <<recipeServer, save, cache, wroteFrom, excused>>

DraftFails ==
    /\ drafting
    /\ drafting' = FALSE
    /\ UNCHANGED <<recipeServer, editor, save, cache, wroteFrom, excused>>

\* The text is edited by hand, at any time: what was parsed is not read again.
EditText(text) ==
    /\ editor.yaml # NoText
    /\ editor' = [editor EXCEPT !.yaml = text]
    /\ UNCHANGED <<recipeServer, drafting, save, cache, wroteFrom, excused>>

ShowExamples ==
    /\ editor.yaml # NoText /\ editor.run < MaxShows
    /\ editor' = Showing(editor, editor.yaml)
    /\ UNCHANGED <<recipeServer, drafting, save, cache, wroteFrom, excused>>

\* An example on screen that is not in the cache is asked for, once.
AskExample ==
    /\ editor.run # 0 /\ cache[OnScreen].is = "none"
    /\ cache' = [cache EXCEPT ![OnScreen] = Blank("writing")]
    /\ UNCHANGED <<recipeServer, editor, drafting, save, wroteFrom, excused>>

\* It is written from the text it was asked with, or fails its checks.
ExampleWritten(k) ==
    /\ cache[k].is = "writing"
    /\ \/ /\ k[2] \in Valid /\ Len(wroteFrom) < MaxBlocks
          /\ wroteFrom' = Append(wroteFrom, k[2])
          /\ cache' = [cache EXCEPT ![k] = [is |-> "written", block |-> Len(wroteFrom) + 1]]
       \/ cache' = [cache EXCEPT ![k] = Blank("failed")] /\ UNCHANGED wroteFrom
    /\ UNCHANGED <<recipeServer, editor, drafting, save, excused>>

\* Nobody has shown it for ten minutes.
ForgetExample(k) ==
    /\ cache[k].is = "written" /\ (editor.run = 0 \/ k # OnScreen)
    /\ cache' = [cache EXCEPT ![k] = Blank("none")]
    /\ UNCHANGED <<recipeServer, editor, drafting, save, wroteFrom, excused>>

SaveRecipe ==
    /\ editor.yaml # NoText /\ save.op = "none"
    /\ save' = [text |-> editor.yaml, examples |-> ExamplesToKeep, known |-> editor.known,
                op |-> "sent"]
    /\ UNCHANGED <<recipeServer, editor, drafting, cache, wroteFrom, excused>>

\* onSuccess: the saved recipe is the one edited now, and the examples on
\* screen count as kept.
SaveReplied ==
    /\ save.op \in {"saved", "refused"}
    /\ editor' = IF save.op = "saved" THEN [editor EXCEPT !.known = TRUE, !.saved = TRUE]
                 ELSE editor
    /\ save' = NoSave
    /\ UNCHANGED <<recipeServer, drafting, cache, wroteFrom, excused>>

SaveLost ==
    /\ save.op # "none"
    /\ save' = NoSave
    /\ excused' = excused \cup {"lost"}
    /\ UNCHANGED <<recipeServer, editor, drafting, cache, wroteFrom>>

-----------------------------------------------------------------------------
(* The server: a recipe id is one row's, and a save adds its examples,     *)
(* those that pass the checks again.                                       *)

Copies(b) == {row \in tutorials : row.block = b}

StoreRecipe ==
    /\ save.op = "sent"
    /\ IF save.text \in Valid /\ (save.known \/ library = NoText)
       THEN /\ library' = save.text
            /\ \E kept \in SUBSET save.examples :
                  tutorials' = tutorials \cup {[block |-> b, text |-> save.text,
                                   copy |-> IF Copies(b) = {} THEN 1 ELSE 2] : b \in kept}
            /\ save' = [save EXCEPT !.op = "saved"]
       ELSE /\ save' = [save EXCEPT !.op = "refused"]
            /\ UNCHANGED recipeServer
    /\ UNCHANGED <<editor, drafting, cache, wroteFrom, excused>>

-----------------------------------------------------------------------------

RecipeInit ==
    /\ library \in {NoText} \cup Valid
    /\ tutorials = {}
    /\ editor = Opened(library)
    /\ drafting = FALSE
    /\ save = NoSave
    /\ cache = [k \in Keys |-> Blank("none")]
    /\ wroteFrom = <<>>
    /\ excused = {}

RecipeNext ==
    \/ OpenRecipe \/ AskDraft \/ DraftFails \/ ShowExamples \/ AskExample
    \/ SaveRecipe \/ SaveReplied \/ SaveLost \/ StoreRecipe
    \/ \E t \in Texts : Drafted(t)
    \/ \E t \in Texts \cup {NoText} : EditText(t)
    \/ \E k \in Keys : ExampleWritten(k) \/ ForgetExample(k)

RecipeSpec == RecipeInit /\ [][RecipeNext]_recipeVars

-----------------------------------------------------------------------------
(* Properties                                                              *)

\* "Examples written from this exact YAML, kept as the style's first tutorials"
\* (queries.ts): every tutorial kept was written from the very text it was saved
\* with, whatever was drafted, edited or shown meanwhile; and a save keeps no
\* example again, unless a reply was lost or the editor was opened again.
ExamplesKeptRight ==
    \A row \in tutorials :
        /\ wroteFrom[row.block] = row.text
        /\ row.copy = 1 \/ excused # {}
=============================================================================
