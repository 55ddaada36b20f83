--------------------------- MODULE MCFormScreens ---------------------------
(* The screens that hold what a person chose or wrote while requests come    *)
(* and go, and the cache they share, one behaviour for each: a browser shows *)
(* one of them and the others are not open.                                  *)
EXTENDS JoinClassroom, ReviewQueue, QueryCache, CurriculumEditor, OutlineEdits, QuestionSetup,
        RecipeEditor, BookImport, ChunkReader, ParsonsInput

CONSTANTS t1, t2, A, B, y1, y2

VARIABLE screen    \* the screen that is open, for good

\* The question setup's library: two styles of one type and one of another.
MCStyle == {"trace", "fix", "parsons"}
MCQType == {"output", "order"}
MCTypeOf == [st \in MCStyle |-> IF st = "parsons" THEN "order" ELSE "output"]
MCSubtopic == {"loops", "lists"}
MCFits == {[s \in MCSubtopic |-> IF s = "loops" THEN {"trace"} ELSE {"trace", "fix"}],
           [s \in MCSubtopic |-> IF s = "loops" THEN {"parsons"} ELSE {"fix"}]}
MCBank == {1, 2}
MCStyleOf == [q \in MCBank |-> IF q = 1 THEN "trace" ELSE "fix"]
MCTagsOf == [q \in MCBank |-> IF q = 1 THEN {"loops", "lists"} ELSE {"lists"}]
MCCellTarget == [s \in MCSubtopic |-> 1]

ReviewClosed ==
    /\ bank = [last |-> 0, reviewed |-> {}] /\ genRound = [status |-> "none", produced |-> 0]
    /\ after = 0 /\ cached = [k \in Cursors |-> NotRead]
    /\ invalid = {} /\ superseded = {}
    /\ queueGet = [k \in Cursors |-> NotRead]
    /\ verdict = NotRead /\ review = NotRead /\ acts = 0
    /\ watched = [round |-> genRound, get |-> NotRead, refreshed |-> FALSE]

CacheUnused ==
    /\ change \in {m \in Mutations : m.name = "saveSetup"}
    /\ view \in {q \in Queries : q.name = "round"} /\ server = 0 /\ press = "idle"
    /\ entry = Empty /\ fetch = NoFetch /\ mounted = FALSE /\ overtaken = FALSE

\* The reader's book: chunks of two pages that share one, and one of that page only.
MCChunks == <<[first |-> 1, last |-> 2], [first |-> 2, last |-> 3],
              [first |-> 2, last |-> 2]>>

\* Two Parsons questions of two blocks; one block is named alike in both.
MCServed == [q \in {"q1", "q2"} |->
               IF q = "q1" THEN <<[id |-> "a", indent |-> 0], [id |-> "b", indent |-> 0]>>
               ELSE <<[id |-> "c", indent |-> 1], [id |-> "a", indent |-> 0]>>]

Init ==
    /\ screen \in {"join", "review", "cache", "editor", "outline", "setup", "recipe", "books",
                   "reader", "parsons"}
    /\ JoinInit /\ (screen # "join" => stored = 0)
    /\ IF screen = "review" THEN ReviewInit ELSE ReviewClosed
    /\ IF screen = "cache" THEN CacheInit ELSE CacheUnused
    /\ EditorInit /\ OutlineInit
    /\ SetupInit /\ (screen # "setup" => saved = NoSetup)
    /\ RecipeInit /\ (screen # "recipe" => library = NoText)
    /\ ImportInit /\ (screen # "books" => books = <<>>)
    /\ ReaderInit /\ (screen # "reader" => chunk = NoChunk)
    /\ ParsonsInit

Next ==
    /\ UNCHANGED screen
    /\ screen = "join" \/ UNCHANGED joinVars
    /\ screen = "review" \/ UNCHANGED reviewVars
    /\ screen = "cache" \/ UNCHANGED cacheVars
    /\ screen = "editor" \/ UNCHANGED editorVars
    /\ screen = "outline" \/ UNCHANGED outlineVars
    /\ screen = "setup" \/ UNCHANGED setupVars
    /\ screen = "recipe" \/ UNCHANGED recipeVars
    /\ screen = "books" \/ UNCHANGED importVars
    /\ screen = "reader" \/ UNCHANGED readerVars
    /\ screen = "parsons" \/ UNCHANGED parsonsVars
    /\ CASE screen = "join" -> JoinNext
         [] screen = "review" -> ReviewNext
         [] screen = "cache" -> CacheNext
         [] screen = "editor" -> EditorNext
         [] screen = "outline" -> OutlineNext
         [] screen = "setup" -> SetupNext
         [] screen = "recipe" -> RecipeNext
         [] screen = "books" -> ImportNext
         [] screen = "reader" -> ReaderNext
         [] screen = "parsons" -> ParsonsNext

Spec ==
    Init /\ [][Next]_<<screen, joinVars, reviewVars, cacheVars, editorVars, outlineVars,
                       setupVars, recipeVars, importVars, readerVars, parsonsVars>>
=============================================================================
