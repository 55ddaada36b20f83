---------------------------- MODULE ChunkReader ----------------------------
(***************************************************************************)
(* The screen that writes one question from one chunk of a book.  The book *)
(* is a column of PDF pages; the chunk is picked from a list or follows    *)
(* the page in view, and picking one scrolls to its first page.  Questions *)
(* of the chunk are opened in a dialog; writing one takes a while, and the *)
(* professor may pick, scroll and open others meanwhile.                   *)
(*                                                                         *)
(* One page is in view at a time (the pages are fitted to the pane).  The  *)
(* browser notices which page that is some time after it changed and tells *)
(* the viewer later still.  The book stays the same.                       *)
(***************************************************************************)
EXTENDS Naturals, Sequences, FiniteSetsExt

CONSTANTS
    Pages,          \* the book's number of pages
    Chunks,         \* the pages of each chunk, in reading order
    MaxQuestions,   \* bound: questions, and requests for one
    MaxReads        \* bound: picks, scrolls and fits of the pages

NoChunk == 0
AllChunks == DOMAIN Chunks

ASSUME ReaderAssumption ==
    /\ MaxQuestions \in Nat /\ MaxReads \in Nat /\ Pages \in Nat
    /\ Chunks \in Seq([first : Nat, last : Nat])
    /\ AllChunks # {} /\ \A c \in AllChunks : Chunks[c].first \in 1 .. Chunks[c].last
    /\ \A c \in AllChunks : Chunks[c].last <= Pages
    /\ \A c, d \in AllChunks : c <= d => Chunks[c].first <= Chunks[d].first

VARIABLES
    chunk,      \* the chunk selected
    viewer,     \* pages loaded; the page in view, noticed, shown, reported, to hold on to
    question,   \* the question in the dialog
    questions,  \* the chunk each question was written from
    writing,    \* the chunk a question is being written from, or written anew
    steps,
    picked,     \* history: the chunk picked since the reader last scrolled
    place,      \* history: the page the reader scrolled to or picked
    hasty       \* history: a step before the viewer knew of the one before; a late question

readerVars == <<chunk, viewer, question, questions, writing, steps, picked, place, hasty>>

NoQuestionOpen == 0
Idle == [generate |-> NoChunk, regenerate |-> NoChunk]

-----------------------------------------------------------------------------
(* The viewer.                                                             *)

\* The chunk a page is of: of those that start last at or before it, the first.
\* Before any chunk starts it is the first of the book.
ChunkForPage(page) ==
    LET starts == {Chunks[c].first : c \in {d \in AllChunks : Chunks[d].first <= page}}
    IN IF starts = {} THEN 1
       ELSE Min({c \in AllChunks : Chunks[c].first = Max(starts)})

Covers(c, page) == c # NoChunk /\ page \in Chunks[c].first .. Chunks[c].last

\* A jump to a page; before the pages are there it is only remembered.
Jumped(v, page) == [v EXCEPT !.hold = page, !.top = IF v.loaded THEN page ELSE @]

\* Mutant: any page reported decides.
FollowsPage(v) ==
    IF ~v.loaded \/ v.reported = v.current \/ (v.reported = 0 /\ chunk # NoChunk)
    THEN chunk ELSE ChunkForPage(v.current)

\* The chunk to follow when a page is reported, unless it is reported already,
\* is the first report over a chosen chunk, or is a page of that chunk.
Follows(v) ==
    IF \/ ~v.loaded \/ v.reported = v.current
       \/ v.reported = 0 /\ chunk # NoChunk
       \/ Covers(chunk, v.current)
    THEN chunk ELSE ChunkForPage(v.current)

Known == viewer.noticed = 0 /\ viewer.current = viewer.top
ReadOn == steps < MaxReads /\ steps' = steps + 1
Haste == hasty' = hasty \cup (IF viewer.loaded /\ ~Known THEN {"step"} ELSE {})

\* A jump is held on to at once, a scroll when it is shown.
Forgets == hasty' = hasty \cup (IF viewer.hold # viewer.top THEN {"step"} ELSE {})

-----------------------------------------------------------------------------
(* Picking and scrolling.                                                  *)

\* A chunk is selected: an open question no longer applies.
SelectChunk(c) == chunk' = c /\ question' = NoQuestionOpen

\* From the outline or the chunks of the page in view.
Pick(c) ==
    /\ ReadOn /\ Haste
    /\ SelectChunk(c)
    /\ viewer' = IF c = chunk THEN viewer ELSE Jumped(viewer, Chunks[c].first)
    /\ picked' = c
    /\ place' = IF c = chunk THEN place ELSE Chunks[c].first
    /\ UNCHANGED <<questions, writing>>

Scroll(page) ==
    /\ viewer.loaded /\ page # viewer.top /\ ReadOn /\ Haste
    /\ viewer' = [viewer EXCEPT !.top = page]
    /\ picked' = NoChunk /\ place' = page
    /\ UNCHANGED <<chunk, question, questions, writing>>

\* "Prev" and "Next" go by the page shown.
Turn(page) ==
    /\ viewer.loaded /\ page \in 1 .. Pages /\ ReadOn /\ Haste
    /\ viewer' = Jumped(viewer, page)
    /\ picked' = NoChunk /\ place' = page
    /\ UNCHANGED <<chunk, question, questions, writing>>

\* The pages are fitted anew and the page held on to is put back in view.
Resize ==
    /\ viewer.loaded /\ ReadOn /\ Forgets
    /\ viewer' = [viewer EXCEPT !.top = viewer.hold]
    /\ UNCHANGED <<chunk, question, questions, writing, picked, place>>

\* The browser notices the page in view.
Notice ==
    /\ viewer.loaded /\ viewer.noticed = 0 /\ viewer.top # viewer.current
    /\ viewer' = [viewer EXCEPT !.noticed = viewer.top]
    /\ UNCHANGED <<chunk, question, questions, writing, steps, picked, place, hasty>>

\* What is reported may select a chunk, and a newly selected chunk is jumped to.
Report(v) ==
    LET followed == Follows(v)
        told == IF v.loaded THEN [v EXCEPT !.reported = v.current] ELSE v
    IN IF followed = chunk THEN viewer' = told /\ UNCHANGED <<chunk, question, place>>
       ELSE /\ SelectChunk(followed)
            /\ viewer' = Jumped(told, Chunks[followed].first)
            /\ place' = Chunks[followed].first

PageShown ==
    /\ viewer.noticed # 0
    /\ Report([viewer EXCEPT !.current = viewer.noticed, !.hold = viewer.noticed, !.noticed = 0])
    /\ UNCHANGED <<questions, writing, steps, picked, hasty>>

\* The document is loaded: page 1 is reported, and a chosen chunk is jumped to.
LoadBook ==
    /\ ~viewer.loaded
    /\ IF chunk = NoChunk THEN Report([viewer EXCEPT !.loaded = TRUE])
       ELSE /\ viewer' = Jumped([viewer EXCEPT !.loaded = TRUE, !.reported = viewer.current],
                                Chunks[chunk].first)
            /\ place' = Chunks[chunk].first
            /\ UNCHANGED <<chunk, question>>
    /\ UNCHANGED <<questions, writing, steps, picked, hasty>>

-----------------------------------------------------------------------------
(* Questions.                                                              *)

Stored == IF writing.generate = NoChunk THEN {questions}
          ELSE {questions, Append(questions, writing.generate)}

\* The button waits for the question being written; "Generate another" in the
\* dialog does not: the one before is stored or fails, and is not opened.
Generate ==
    /\ chunk # NoChunk
    /\ writing.generate = NoChunk \/ question # NoQuestionOpen
    /\ \E stored \in Stored : Len(stored) < MaxQuestions /\ questions' = stored
    /\ writing' = [writing EXCEPT !.generate = chunk]
    /\ question' = NoQuestionOpen
    /\ UNCHANGED <<chunk, viewer, steps, picked, place, hasty>>

\* "Regenerate with feedback", from the dialog: its chunk is the question's.
Regenerate ==
    /\ question # NoQuestionOpen /\ writing.regenerate = NoChunk
    /\ writing' = [writing EXCEPT !.regenerate = questions[question]]
    /\ UNCHANGED <<chunk, viewer, question, questions, steps, picked, place, hasty>>

\* The question is stored and opened, whatever is selected or open by now.
Written(how) ==
    /\ writing[how] # NoChunk /\ Len(questions) < MaxQuestions
    /\ questions' = Append(questions, writing[how])
    /\ question' = Len(questions')
    /\ writing' = [writing EXCEPT ![how] = NoChunk]
    /\ hasty' = hasty \cup (IF writing[how] # chunk THEN {"late"} ELSE {})
    /\ UNCHANGED <<chunk, viewer, steps, picked, place>>

WritingFails(how) ==
    /\ writing[how] # NoChunk
    /\ writing' = [writing EXCEPT ![how] = NoChunk]
    /\ UNCHANGED <<chunk, viewer, question, questions, steps, picked, place, hasty>>

\* One of the selected chunk's questions is opened, or the dialog is closed.
OpenQuestion(q) ==
    /\ questions[q] = chunk
    /\ question' = q
    /\ UNCHANGED <<chunk, viewer, questions, writing, steps, picked, place, hasty>>

CloseDialog ==
    /\ question' = NoQuestionOpen
    /\ UNCHANGED <<chunk, viewer, questions, writing, steps, picked, place, hasty>>

-----------------------------------------------------------------------------
\* A chunk may be named by the URL.
ReaderInit ==
    /\ chunk \in {NoChunk} \cup AllChunks
    /\ viewer = [loaded |-> FALSE, top |-> 1, noticed |-> 0, current |-> 1, reported |-> 0,
                 hold |-> IF chunk = NoChunk THEN 1 ELSE Chunks[chunk].first]
    /\ question = NoQuestionOpen /\ questions = <<>> /\ writing = Idle
    /\ steps = 0 /\ picked = chunk /\ place = 1 /\ hasty = {}

ReaderNext ==
    \/ Resize \/ Notice \/ PageShown \/ LoadBook
    \/ Generate \/ Regenerate \/ CloseDialog
    \/ \E how \in DOMAIN writing : Written(how) \/ WritingFails(how)
    \/ \E c \in AllChunks : Pick(c)
    \/ \E p \in 1 .. Pages : Scroll(p)
    \/ Turn(viewer.current + 1) \/ Turn(viewer.current - 1)
    \/ \E q \in DOMAIN questions : OpenQuestion(q)

ReaderSpec == ReaderInit /\ [][ReaderNext]_readerVars

-----------------------------------------------------------------------------
(* "one picked from the page panel or the URL must survive the scroll that *)
(* brought it into view": a chunk picked stays selected until the reader   *)
(* scrolls, unless it was picked before the viewer knew of the last scroll.*)
PickKept == picked # NoChunk /\ "step" \notin hasty => chunk = picked

\* The reader stays on the page scrolled to or picked, whatever is resized,
\* once the viewer knows of it.
PlaceKept == viewer.loaded /\ "step" \notin hasty => viewer.top = place

\* "a question open from the previous chunk no longer applies": the question in
\* the dialog is of the selected chunk, unless one arrived late.
OpenIsOfChunk ==
    question # NoQuestionOpen /\ "late" \notin hasty => questions[question] = chunk

\* Chunk, page and question go together.
ReaderInStep == PickKept /\ PlaceKept /\ OpenIsOfChunk
=============================================================================
