---------------------------- MODULE ParsonsInput ----------------------------
(***************************************************************************)
(* The composer of a Parsons answer: blocks that are dragged and indented, *)
(* and the text the page will submit, which is one line per block.  The    *)
(* page owns the text and the composer the blocks; one effect of the       *)
(* composer reads the text into blocks when the text or the question       *)
(* changed, another writes the blocks as text when the two differ.         *)
(*                                                                         *)
(* What a person does is rendered at once, with the updates queued before  *)
(* it, and its effects run at once; updates made by an effect are rendered *)
(* later, and the effects of that rendering later still.  A person, or a   *)
(* fetched question, may come in between.                                  *)
(***************************************************************************)
EXTENDS Integers, SequencesExt, Filtering

CONSTANTS
    Served,      \* the blocks of each question, in the order served
    NoQuestion,
    MaxIndent,   \* bound: indent levels
    MaxEdits     \* bound: edits, and questions shown or replaced

Questions == DOMAIN Served
Ids(q) == {b.id : b \in ToSet(Served[q])}

ASSUME ParsonsAssumption ==
    /\ NoQuestion \notin Questions /\ MaxIndent \in Nat /\ MaxEdits \in Nat
    /\ \A q \in Questions :
         /\ Served[q] # <<>> /\ Served[q] \in Seq(ToSet(Served[q]))
         /\ \A b \in ToSet(Served[q]) : b.indent \in 0 .. MaxIndent
         /\ \A i, j \in DOMAIN Served[q] : Served[q][i].id = Served[q][j].id => i = j

VARIABLES
    shown,      \* what was rendered: the question, the blocks, the text
    seen,       \* the rendering the effects last ran for
    queued,     \* the blocks and the text once every queued update is applied
    arranged,   \* edits, and questions shown or replaced, so far
    made,       \* history: the question and the lines a person last arranged
    hurried     \* history: something happened before an arrangement was written

parsonsVars == <<shown, seen, queued, arranged, made, hurried>>

-----------------------------------------------------------------------------
(* Blocks and text.                                                        *)

Fresh(q) == [i \in DOMAIN Served[q] |->
               [id |-> Served[q][i].id, indent |-> Served[q][i].indent, of |-> q]]

\* A line keeps a block's name and indent; what the block says is the question's.
Lines(blocks) == [i \in DOMAIN blocks |-> [id |-> blocks[i].id, indent |-> blocks[i].indent]]

\* Mutant: blocks that no line names are left out.
ParseNamedOnly(q, text) ==
    LET placed == Filtered(text, {line \in ToSet(text) : line.id \in Ids(q)})
    IN [i \in DOMAIN placed |-> [id |-> placed[i].id, indent |-> placed[i].indent, of |-> q]]

\* Lines that name no block of the question are dropped, blocks that no line
\* names come last.
Parse(q, text) ==
    LET placed == Filtered(text, {line \in ToSet(text) : line.id \in Ids(q)})
        unnamed == {b \in ToSet(Fresh(q)) : \A line \in ToSet(text) : line.id # b.id}
    IN [i \in DOMAIN placed |-> [id |-> placed[i].id, indent |-> placed[i].indent, of |-> q]]
         \o Filtered(Fresh(q), unnamed)

NoView(text) == [question |-> NoQuestion, blocks |-> <<>>, answer |-> text]

-----------------------------------------------------------------------------
(* Rendering.                                                              *)

\* The two effects, for a rendering that follows another, on the queue.
Effects(view, earlier, queue) ==
    LET read == view.question # earlier.question \/ view.answer # earlier.answer
        lines == Lines(view.blocks)
        write == /\ view.answer # earlier.answer \/ lines # Lines(earlier.blocks)
                 /\ lines # view.answer
    IN [blocks |-> IF read THEN Parse(view.question, view.answer) ELSE queue.blocks,
        answer |-> IF write THEN lines ELSE queue.answer]

OnPage == shown.question # NoQuestion
EffectsRan == seen = shown
Settled == EffectsRan /\ queued.blocks = shown.blocks /\ queued.answer = shown.answer

\* The queue after an update, and after the effects that were still to run.
Updated(queue) == IF EffectsRan THEN queue ELSE Effects(shown, seen, queue)

\* What a person or a query does is rendered and its effects run.
Render(q, queue) ==
    LET view == [question |-> q, blocks |-> Updated(queue).blocks,
                 answer |-> Updated(queue).answer]
    IN /\ shown' = view /\ seen' = view
       /\ queued' = Effects(view, shown, Updated(queue))

\* The composer goes away; the text is the page's and stays.
Unmount(queue) ==
    /\ shown' = NoView(Updated(queue).answer) /\ seen' = shown'
    /\ queued' = [blocks |-> <<>>, answer |-> Updated(queue).answer]

\* Updates of effects, and the effects of their rendering.
RenderQueued ==
    /\ OnPage /\ EffectsRan /\ ~Settled
    /\ shown' = [shown EXCEPT !.blocks = queued.blocks, !.answer = queued.answer]
    /\ UNCHANGED <<seen, queued, arranged, made, hurried>>

RunEffects ==
    /\ OnPage /\ ~EffectsRan
    /\ queued' = Effects(shown, seen, queued)
    /\ seen' = shown
    /\ UNCHANGED <<shown, arranged, made, hurried>>

-----------------------------------------------------------------------------
(* What a person does.                                                     *)

Move == arranged < MaxEdits /\ arranged' = arranged + 1

\* Blocks are changed by a function of what is queued.
Edit(blocks) ==
    /\ OnPage /\ Move
    /\ Render(shown.question, [queued EXCEPT !.blocks = blocks])
    /\ made' = [question |-> shown.question, lines |-> Lines(blocks)]
    /\ hurried' = (hurried \/ ~Settled)

\* The arrows give the indent on screen, one level more or less.
ChangeIndent(b, by) ==
    /\ b.indent + by \in 0 .. MaxIndent
    /\ Edit([i \in DOMAIN queued.blocks |->
               IF queued.blocks[i].id = b.id
               THEN [queued.blocks[i] EXCEPT !.indent = b.indent + by] ELSE queued.blocks[i]])

Place(blocks, id) == CHOOSE i \in DOMAIN blocks : blocks[i].id = id

\* A block is dropped on the place of another.
Drag(id, over) ==
    /\ id # over /\ {id, over} \subseteq {b.id : b \in ToSet(queued.blocks)}
    /\ LET from == Place(queued.blocks, id)
           to == Place(queued.blocks, over)
       IN Edit(InsertAt(RemoveAt(queued.blocks, from), to, queued.blocks[from]))

ResetOrder == Edit(Fresh(shown.question))

\* Another question replaces the one on the page, and the text stays.
ReplaceQuestion(q) ==
    /\ OnPage /\ Move /\ q # shown.question
    /\ Render(q, queued)
    /\ made' = [question |-> q, lines |-> Lines(Parse(q, shown.answer))]
    /\ hurried' = (hurried \/ ~Settled)

\* The question leaves the page: the query failed or the session has ended.
Hide ==
    /\ OnPage
    /\ Unmount(queued)
    /\ UNCHANGED <<arranged, made, hurried>>

\* It comes back with what was assembled, or another comes.
Show(q) ==
    /\ ~OnPage /\ Move
    /\ LET blocks == Parse(q, shown.answer)
       IN /\ Render(q, [blocks |-> blocks, answer |-> shown.answer])
          /\ made' = IF made.question = q THEN made ELSE [question |-> q, lines |-> Lines(blocks)]
    /\ UNCHANGED hurried

\* The answer was graded: the text is cleared and the next question is shown afresh.
Grade ==
    /\ OnPage /\ shown.answer # <<>>
    /\ shown' = NoView(<<>>) /\ seen' = shown'
    /\ queued' = [blocks |-> <<>>, answer |-> <<>>]
    /\ made' = [question |-> NoQuestion, lines |-> <<>>]
    /\ UNCHANGED <<arranged, hurried>>

-----------------------------------------------------------------------------
ParsonsInit ==
    /\ shown = NoView(<<>>) /\ seen = shown
    /\ queued = [blocks |-> <<>>, answer |-> <<>>] /\ arranged = 0
    /\ made = [question |-> NoQuestion, lines |-> <<>>] /\ hurried = FALSE

ParsonsNext ==
    \/ RenderQueued \/ RunEffects \/ ResetOrder \/ Hide \/ Grade
    \/ \E b \in ToSet(shown.blocks), by \in {-1, 1} : ChangeIndent(b, by)
    \/ \E b, o \in ToSet(shown.blocks) : Drag(b.id, o.id)
    \/ \E q \in Questions : ReplaceQuestion(q) \/ Show(q)

\* React runs the tasks it has scheduled.
ParsonsFairness == WF_parsonsVars(RenderQueued) /\ WF_parsonsVars(RunEffects)

ParsonsSpec == ParsonsInit /\ [][ParsonsNext]_parsonsVars /\ ParsonsFairness

-----------------------------------------------------------------------------
(* At rest the text to submit is the arrangement on screen: every block of *)
(* the question on screen once, and, when nothing came in between, what    *)
(* the person arranged, also after the question left the page and came     *)
(* back.                                                                   *)
ArrangementKept ==
    OnPage /\ Settled =>
        /\ Lines(shown.blocks) = shown.answer
        /\ Len(shown.blocks) = Len(Served[shown.question])
        /\ {b.id : b \in ToSet(shown.blocks)} = Ids(shown.question)
        /\ \A b \in ToSet(shown.blocks) : b.of = shown.question
        /\ ~hurried => shown.answer = made.lines

\* "Owns its own ordering state so drag reflow feels instant, and syncs that
\* state out to the parent's plain-text `answer` buffer (and back in ...)":
\* the two come to agree whatever a person does.
AlwaysSyncs == []<>Settled
=============================================================================
