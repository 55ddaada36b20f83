----------------------------- MODULE OutlineEdits -----------------------------
(***************************************************************************)
(* The outline inside the curriculum builder: topics holding subtopics,    *)
(* which are added, removed, moved, collapsed, searched and walked with    *)
(* the arrow keys.  A removal can be undone by its own toast while that is *)
(* on screen, or from a stack, last one first.                             *)
(*                                                                         *)
(* Rows are numbers, never used twice (newId).  Names and descriptions are *)
(* left out; a search is the set of rows whose text it matches.            *)
(***************************************************************************)
EXTENDS Naturals, SequencesExt, Filtering

CONSTANTS
    MaxRows,     \* bound: rows ever added
    UndoDepth,   \* UNDO_DEPTH
    MaxSteps     \* bound: removals and moves

ASSUME OutlineAssumption == MaxRows \in Nat /\ UndoDepth \in Nat \ {0} /\ MaxSteps \in Nat

NoRow == 0
NoSearch == 0 .. MaxRows   \* an empty box matches everything and filters nothing

VARIABLES
    topics,      \* the draft: a sequence of [id, subs]
    undo,        \* removals that can be undone, the latest last
    toasts,      \* removals whose toast still offers to undo them
    selection,   \* [topic, sub]; sub is NoRow when the topic itself is selected
    collapsed,   \* topics whose subtopics are folded away
    hits,        \* the rows the search box matches
    lastRow,     \* the newest row
    edits,       \* removals and moves so far (bound)
    before,      \* the outline before the removals now on the stack (history)
    straight     \* only removals and undos of the last one since then (history)

outlineVars == <<topics, undo, toasts, selection, collapsed, hits, lastRow, edits, before,
                 straight>>

RowsOf(topic) == {topic.id} \cup ToSet(topic.subs)
Rows(draft) == UNION {RowsOf(draft[i]) : i \in DOMAIN draft}
TopicIds(draft) == {draft[i].id : i \in DOMAIN draft}
TopicAt(draft, id) == CHOOSE i \in DOMAIN draft : draft[i].id = id
SubsIn(draft, id) == IF id \in TopicIds(draft) THEN draft[TopicAt(draft, id)].subs ELSE <<>>
SubsOf(id) == SubsIn(topics, id)
IndexOf(seq, x) == SelectInSeq(seq, LAMBDA y : y = x)

\* A removal holds what was taken out, and from where.
TakenRows(r) == RowsOf(r.row)

OutlineTypeOK ==
    /\ Rows(topics) \subseteq 1 .. lastRow
    /\ Len(undo) <= UndoDepth
    /\ selection.topic \in 0 .. lastRow /\ selection.sub \in 0 .. lastRow
    /\ collapsed \subseteq 1 .. lastRow
    /\ hits \subseteq 0 .. MaxRows
    /\ edits \in 0 .. MaxSteps
    /\ straight \in BOOLEAN

-----------------------------------------------------------------------------
(* What the tree shows.                                                    *)

Searching == hits # NoSearch

\* A topic that matches keeps all its subtopics; one shown because a subtopic
\* matched lists only the matching ones.
FilterTree ==
    IF ~Searching THEN topics
    ELSE SelectSeq([i \in DOMAIN topics |->
                      [topics[i] EXCEPT !.subs = IF topics[i].id \in hits THEN @
                                                 ELSE SelectSeq(@, LAMBDA s : s \in hits)]],
                   LAMBDA t : t.id \in hits \/ t.subs # <<>>)

VisibleRows ==
    FlattenSeq([i \in DOMAIN FilterTree |->
        <<[topic |-> FilterTree[i].id, sub |-> NoRow]>> \o
        (IF Searching \/ FilterTree[i].id \notin collapsed
         THEN [j \in DOMAIN FilterTree[i].subs |->
                 [topic |-> FilterTree[i].id, sub |-> FilterTree[i].subs[j]]]
         ELSE <<>>)])

-----------------------------------------------------------------------------
(* Pure edits of the draft.                                                *)

WithSubs(draft, id, subs) ==
    [i \in DOMAIN draft |-> IF draft[i].id = id THEN [draft[i] EXCEPT !.subs = subs] ELSE draft[i]]

Without(seq, x) == Filtered(seq, ToSet(seq) \ {x})

\* Put back at the place it was taken from, or at the end when that is gone.
PutAt(seq, at, x) == InsertAt(seq, IF at <= Len(seq) + 1 THEN at ELSE Len(seq) + 1, x)

\* A subtopic whose topic is gone is dropped.
RestoreRemoval(draft, r) ==
    IF r.kind = "topic" THEN PutAt(draft, r.at, r.row)
    ELSE WithSubs(draft, r.of, PutAt(SubsIn(draft, r.of), r.at, r.row.id))

Moved(seq, at, delta) ==
    IF at + delta \notin DOMAIN seq THEN seq
    ELSE [seq EXCEPT ![at] = seq[at + delta], ![at + delta] = seq[at]]

\* The last UNDO_DEPTH removals are kept.
Trimmed(stack) == SubSeq(stack, IF Len(stack) > UndoDepth THEN 2 ELSE 1, Len(stack))

-----------------------------------------------------------------------------
(* Edits the professor makes.                                              *)

\* An edit that is not a removal starts the history of removals anew.
Bend == straight' = (undo = <<>>) /\ before' = topics'

Select(topic, sub) == selection' = [topic |-> topic, sub |-> sub]

AddTopic ==
    /\ lastRow < MaxRows
    /\ lastRow' = lastRow + 1
    /\ topics' = Append(topics, [id |-> lastRow', subs |-> <<>>])
    /\ hits' = NoSearch
    /\ Select(lastRow', NoRow)
    /\ Bend
    /\ UNCHANGED <<undo, toasts, collapsed, edits>>

AddSubtopic(t) ==
    /\ lastRow < MaxRows
    /\ lastRow' = lastRow + 1
    /\ topics' = WithSubs(topics, t, Append(SubsOf(t), lastRow'))
    /\ hits' = NoSearch
    /\ collapsed' = collapsed \ {t}
    /\ Select(t, lastRow')
    /\ Bend
    /\ UNCHANGED <<undo, toasts, edits>>

\* Land on a neighbour that still exists: the next, else the previous.
Neighbour(seq, at) == IF at + 1 \in DOMAIN seq THEN seq[at + 1]
                      ELSE IF at - 1 \in DOMAIN seq THEN seq[at - 1] ELSE NoRow

\* Remember the removal, and offer to undo it.
Remember(r) ==
    /\ undo' = Trimmed(Append(undo, r))
    /\ toasts' = toasts \cup {r}
    /\ before' = IF undo = <<>> THEN topics ELSE before
    /\ straight' = ((straight \/ undo = <<>>) /\ Len(undo) < UndoDepth)
    /\ edits' = edits + 1

RemoveTopic(t) ==
    LET at == TopicAt(topics, t)
        next == Neighbour([i \in DOMAIN topics |-> topics[i].id], at)
    IN
    /\ edits < MaxSteps
    /\ topics' = Filtered(topics, {row \in ToSet(topics) : row.id # t})
    /\ Remember([kind |-> "topic", serial |-> edits, at |-> at, of |-> NoRow, row |-> topics[at]])
    /\ IF next = NoRow THEN UNCHANGED selection ELSE Select(next, NoRow)
    /\ UNCHANGED <<collapsed, hits, lastRow>>

RemoveSubtopic(t, s) ==
    LET at == IndexOf(SubsOf(t), s) IN
    /\ edits < MaxSteps
    /\ topics' = WithSubs(topics, t, Without(SubsOf(t), s))
    /\ Remember([kind |-> "sub", serial |-> edits, at |-> at, of |-> t,
                 row |-> [id |-> s, subs |-> <<>>]])
    /\ Select(t, Neighbour(SubsOf(t), at))
    /\ UNCHANGED <<collapsed, hits, lastRow>>

MoveTopic(t, up) ==
    LET at == TopicAt(topics, t) IN
    /\ edits < MaxSteps
    /\ selection.topic = t
    /\ topics' = IF up THEN Moved(topics, at, 0 - 1) ELSE Moved(topics, at, 1)
    /\ topics' # topics
    /\ edits' = edits + 1
    /\ Bend
    /\ UNCHANGED <<undo, toasts, selection, collapsed, hits, lastRow>>

MoveSubtopic(t, s, up) ==
    LET at == IndexOf(SubsOf(t), s) IN
    /\ edits < MaxSteps
    /\ selection.topic = t
    /\ topics' = WithSubs(topics, t, Moved(SubsOf(t), at, IF up THEN 0 - 1 ELSE 1))
    /\ topics' # topics
    /\ edits' = edits + 1
    /\ Bend
    /\ UNCHANGED <<undo, toasts, selection, collapsed, hits, lastRow>>

\* Undo one removal: from its toast, or the last from the stack.  Its toast is
\* dismissed, but may be pressed while it leaves the screen.
UndoRemoval(r) ==
    /\ topics' = RestoreRemoval(topics, r)
    /\ undo' = Without(undo, r)
    /\ toasts' \in {toasts, toasts \ {r}}
    /\ IF r.kind = "topic"
       THEN Select(r.row.id, NoRow) /\ UNCHANGED collapsed
       ELSE Select(r.of, r.row.id) /\ collapsed' = collapsed \ {r.of}
    /\ straight' = (straight /\ undo # <<>> /\ r = Last(undo))
    /\ UNCHANGED <<hits, lastRow, edits, before>>

UndoLast == undo # <<>> /\ UndoRemoval(Last(undo))

\* Mutant: a toast puts its row back although it was put back already.
UndoTwice(r) == UndoRemoval(r)

\* A toast whose removal was undone already, or fell off the stack, does nothing.
UndoFromToast(r) ==
    IF r \in ToSet(undo) THEN UndoRemoval(r)
    ELSE toasts' = toasts \ {r} /\ UNCHANGED <<topics, undo, selection, collapsed, hits, lastRow,
                                               edits, before, straight>>

ToastEnds(r) ==
    /\ toasts' = toasts \ {r}
    /\ UNCHANGED <<topics, undo, selection, collapsed, hits, lastRow, edits, before, straight>>

-----------------------------------------------------------------------------
(* Looking around.                                                         *)

Look == UNCHANGED <<topics, undo, toasts, lastRow, edits, before, straight>>

Search ==
    /\ hits' \in {NoSearch} \cup {{row} : row \in Rows(topics)}
    /\ Look /\ UNCHANGED <<selection, collapsed>>

ToggleTopic(t) ==
    /\ collapsed' = IF t \in collapsed THEN collapsed \ {t} ELSE collapsed \cup {t}
    /\ Look /\ UNCHANGED <<selection, hits>>

CollapseAll ==
    /\ collapsed' = TopicIds(topics)
    /\ Select(selection.topic, NoRow)
    /\ Look /\ UNCHANGED hits

ExpandAll == collapsed' = {} /\ Look /\ UNCHANGED <<selection, hits>>

\* The arrow keys walk the rows on screen; a selected row that is not on screen
\* is before them all.
Walk(delta) ==
    LET next == IndexOf(VisibleRows, selection) + delta IN
    /\ next \in DOMAIN VisibleRows
    /\ selection' = VisibleRows[next]
    /\ Look /\ UNCHANGED <<collapsed, hits>>

Left ==
    /\ IF selection.sub # NoRow THEN Select(selection.topic, NoRow) /\ UNCHANGED collapsed
       ELSE /\ ~Searching /\ selection.topic # NoRow
            /\ collapsed' = collapsed \cup {selection.topic}
            /\ UNCHANGED selection
    /\ Look /\ UNCHANGED hits

Right ==
    LET next == IndexOf(VisibleRows, selection) + 1 IN
    /\ selection.sub = NoRow
    /\ IF selection.topic \in collapsed /\ ~Searching
       THEN collapsed' = collapsed \ {selection.topic} /\ UNCHANGED selection
       ELSE /\ next \in DOMAIN VisibleRows /\ VisibleRows[next].topic = selection.topic
            /\ selection' = VisibleRows[next]
            /\ UNCHANGED collapsed
    /\ Look /\ UNCHANGED hits

-----------------------------------------------------------------------------
OutlineInit ==
    /\ topics = <<>> /\ before = <<>>
    /\ undo = <<>> /\ toasts = {}
    /\ selection = [topic |-> NoRow, sub |-> NoRow]
    /\ collapsed = {} /\ hits = NoSearch
    /\ lastRow = 0 /\ edits = 0
    /\ straight = TRUE

OutlineNext ==
    \/ AddTopic
    \/ \E t \in TopicIds(topics) :
          \/ AddSubtopic(t) \/ RemoveTopic(t) \/ ToggleTopic(t)
          \/ \E up \in BOOLEAN : MoveTopic(t, up)
          \/ \E s \in ToSet(SubsOf(t)) :
                RemoveSubtopic(t, s) \/ \E up \in BOOLEAN : MoveSubtopic(t, s, up)
    \/ UndoLast
    \/ \E r \in toasts : UndoFromToast(r) \/ ToastEnds(r)
    \/ Search \/ CollapseAll \/ ExpandAll \/ Left \/ Right
    \/ \E delta \in {1, 0 - 1} : Walk(delta)

OutlineSpec == OutlineInit /\ [][OutlineNext]_outlineVars

-----------------------------------------------------------------------------
(* Properties.                                                             *)

\* No row is in a draft twice, neither of one topic nor of two.
TopicApart(topic) == topic.id \notin ToSet(topic.subs) /\ IsInjective(topic.subs)
RowsApart(draft) ==
    /\ \A i \in DOMAIN draft : TopicApart(draft[i])
    /\ \A i, j \in DOMAIN draft : i # j => RowsOf(draft[i]) \cap RowsOf(draft[j]) = {}

\* Nor is one both in the outline and waiting to be put back.
NoRowTwice ==
    /\ RowsApart(topics)
    /\ \A i \in DOMAIN undo :
          /\ TakenRows(undo[i]) \cap Rows(topics) = {}
          /\ \A j \in DOMAIN undo : i # j => TakenRows(undo[i]) \cap TakenRows(undo[j]) = {}

\* Undoing every removal on the stack, the latest first, brings back the outline
\* as it was before the first of them, every row in its place; and however Undo,
\* its toasts and edits interleave no row is there twice: two rows of one key
\* would be one row to every later edit.
AllUndone(stack, draft) == FoldRight(LAMBDA r, d : RestoreRemoval(d, r), stack, draft)
UndoRestores == NoRowTwice /\ (straight => AllUndone(undo, topics) = before)
=============================================================================
