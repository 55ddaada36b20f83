---------------------------- MODULE QueryCache ----------------------------
(* The browser's copies of what the server owns (lib/api/queries.ts): every  *)
(* query a screen mounts, with its key and the server facts its route reads, *)
(* and every mutation, with the facts its route writes and the keys it       *)
(* refreshes once answered. One mutation and one query that reads what it    *)
(* writes are followed at a time, through one QueryClient: mounts, requests, *)
(* replies and invalidations come in any order.                              *)
(* Facts are coarse on purpose: "bank" is which questions exist, "status"    *)
(* what became of them, "verdict" the judges' results, "panel" their prompts.*)
EXTENDS Naturals, SequencesExt

CONSTANTS NoData,      \* nothing is cached
          NoFetch,     \* no request is out
          Unanswered   \* a request is out that the server has not answered yet

ASSUME CacheAssumption == {NoData, NoFetch, Unanswered} \cap {0, 1} = {} /\ NoFetch # Unanswered

VARIABLES change,      \* the mutation that is followed
          view,        \* the query that is followed
          server,      \* 1 once the mutation's writes are committed
          press,       \* where the mutation is
          entry,       \* the query's cache entry
          fetch,       \* the query's request: none, asked, or what the server read for it
          mounted,     \* a component shows the query
          overtaken    \* history: the reply found a request out that it could not restart

cacheVars == <<change, view, server, press, entry, fetch, mounted, overtaken>>

Query(name, key, reads) == [name |-> name, key |-> key, reads |-> reads]

AccountQueries == {Query("me", <<"auth", "me">>, {"user", "verified"})}

CourseQueries ==
    {Query("courses", <<"courses", "list">>, {"user", "course"}),
     Query("course", <<"courses", "detail">>, {"course"}),
     Query("coursesOverview", <<"courses", "overview">>,
       {"user", "course", "book", "taxonomy", "bank", "status", "review", "set"}),
     Query("health", <<"system", "health">>, {"model"})}

QuestionQueries ==
    {Query("questions", <<"questions", "list">>, {"bank", "status"}),
     Query("question", <<"questions", "detail">>, {"status", "verdict", "review"}),
     Query("reviewQueue", <<"questions", "review-queue">>,
       {"bank", "status", "verdict", "review"}),
     Query("chunkOutlines", <<"questions", "chunk-outline">>, {"bank", "chunks", "bookLabel"}),
     Query("chunk", <<"chunks", "detail">>, {"chunks"}),
     Query("bookChunks", <<"chunks", "book">>, {"chunks"})}

LibraryQueries ==
    {Query("coverage", <<"coverage">>, {"bank", "status", "taxonomy", "fill"}),
     Query("books", <<"books", "list">>, {"book", "bookLabel"}),
     Query("book", <<"books", "detail">>, {"book", "bookLabel", "bank"})}

CurriculumQueries ==
    {Query("curriculumVersions", <<"curriculum", "versions">>, {"taxonomy"}),
     Query("curriculumVersion", <<"curriculum", "version">>, {"taxonomy"}),
     Query("approvedCurriculum", <<"curriculum", "approved">>, {"taxonomy"}),
     Query("curriculumSubtopic", <<"curriculum", "subtopic">>, {"taxonomy"})}

SetQueries ==
    {Query("questionSets", <<"question-sets", "list">>, {"set"}),
     Query("taxonomyClassroom", <<"question-sets", "taxonomy">>, {"set"}),
     Query("taxonomyLinks", <<"question-sets", "taxonomy-links">>,
       {"set", "taxonomy", "status"})}

JudgeQueries ==
    {Query("guidelines", <<"instructions", "guidelines">>, {"guideline"}),
     Query("judgePrompts", <<"judge-prompts", "list">>, {"panel"}),
     Query("judgeStats", <<"judge-prompts", "stats">>, {"panel", "review", "verdict"}),
     Query("judgeScorecard", <<"judges", "scorecard">>, {"review", "verdict"}),
     Query("rerunPreview", <<"evaluation", "rerun-preview">>, {"bank", "judgeRun"})}

ClassroomQueries ==
    {Query("trainingSession", <<"training-sessions", "detail">>, {"run"}),
     Query("nextQuestion", <<"training-sessions", "next">>, {"attempt", "live"}),
     Query("runProgress", <<"training-sessions", "progress">>, {"attempt"})}

SetupQueries ==
    {Query("jobs", <<"jobs", "list">>, {"job"}),
     Query("styles", <<"setup", "styles">>, {"style"}),
     Query("currentSetup", <<"setup", "current">>, {"setup"}),
     Query("visibility", <<"setup", "visibility">>, {"status"}),
     Query("round", <<"rounds", "detail">>, {"round"}),
     Query("customJudges", <<"custom-judges", "list">>, {"custom"})}

StudioQueries ==
    {Query("modelSettings", <<"settings", "roles">>, {"model"}),
     Query("tutorialRecipes", <<"tutorials", "recipes">>, {"recipe", "decision", "book"}),
     Query("tutorialSample", <<"tutorials", "sample">>, {"block"}),
     Query("tutorialGallery", <<"tutorials", "gallery">>, {"block"}),
     Query("experimentalRecipes", <<"experimental-recipes", "list">>, {"recipe"}),
     Query("experimentalCurriculum", <<"experimental-recipes", "curriculum">>, {"taxonomy"})}

Queries ==
    AccountQueries \cup CourseQueries \cup QuestionQueries \cup LibraryQueries \cup CurriculumQueries
      \cup SetQueries \cup JudgeQueries \cup ClassroomQueries \cup SetupQueries \cup StudioQueries

\* What a mutation writes, the key prefixes its reply invalidates, and the keys whose data
\* its reply replaces.
Mutation(name, writes, drops) ==
    [name |-> name, writes |-> writes, drops |-> drops, puts |-> {}]
Replacing(name, writes, drops, puts) ==
    [name |-> name, writes |-> writes, drops |-> drops, puts |-> puts]
AccountMutations ==
    {Mutation("login", {"user"}, {<<"auth", "me">>}),
     Mutation("logout", {"user"}, {<<"auth", "me">>}),
     Mutation("register", {"user"}, {<<"auth", "me">>}),
     Mutation("verifyEmail", {"verified"}, {<<"auth", "me">>})}

CourseMutations ==
    {Mutation("updateCourse", {"course"}, {<<"courses">>}),
     Mutation("createCourse", {"course"}, {<<"courses">>})}

\* Mutant: a review refreshes the questions only.
ReviewOfQuestions ==
    {Mutation("submitReview", {"status", "review", "guideline", "panel"}, {<<"questions">>})}

\* "calibration" is the first word of no key.
ReviewMutations ==
    {Mutation("submitReview", {"status", "review", "guideline", "panel"},
       {<<"questions">>, <<"calibration">>, <<"instructions">>, <<"judge-prompts">>,
        <<"question-sets", "taxonomy-links">>})}

\* The two that wait for their job end once it has made its questions.
RunMutations ==
    {Mutation("generateBatch", {"job"}, {<<"jobs">>}),
     Mutation("generateQuestions", {"bank", "status"},
       {<<"questions">>, <<"system", "counts">>}),
     Mutation("regenerate", {"bank", "status"},
       {<<"questions">>, <<"system", "counts">>}),
     Mutation("generateCoverageRun", {"job", "fill"}, {<<"coverage">>, <<"jobs">>})}

BookMutations ==
    {Mutation("importBook", {"job"}, {<<"jobs">>}),
     Mutation("importYoutube", {"book", "job"}, {<<"books">>, <<"jobs">>}),
     Mutation("updateBook", {"bookLabel"}, {<<"books">>, <<"books", "detail">>}),
     Mutation("deleteBook", {"book", "chunks"}, {<<"books">>, <<"questions">>, <<"system", "counts">>})}

TaxonomyMutations ==
    {Mutation("importTaxonomy", {"taxonomy"},
       {<<"curriculum">>, <<"system", "counts">>, <<"coverage">>}),
     Mutation("updateTree", {"taxonomy"},
       {<<"curriculum">>, <<"system", "counts">>, <<"coverage">>}),
     Mutation("updateVersion", {"taxonomy"}, {<<"curriculum">>, <<"coverage">>}),
     Mutation("activateVersion", {"taxonomy"}, {<<"curriculum">>, <<"coverage">>})}

TaxonomyItemMutations ==
    {Mutation("renameItem", {"taxonomy"}, {<<"curriculum">>, <<"coverage">>}),
     Mutation("deleteVersion", {"taxonomy"},
       {<<"curriculum">>, <<"system", "counts">>, <<"coverage">>, <<"questions">>})}

SetMutations ==
    {Mutation("createQuestionSet", {"set"}, {<<"question-sets">>}),
     Mutation("syncClassroom", {"set"}, {<<"question-sets">>, <<"coverage">>}),
     Mutation("confirmGuideline", {"guideline"}, {<<"instructions">>, <<"system", "counts">>}),
     Mutation("deleteGuideline", {"guideline"}, {<<"instructions">>, <<"system", "counts">>})}

PromptMutations ==
    {Mutation("saveJudgePrompt", {"panel"}, {<<"judge-prompts">>, <<"calibration">>}),
     Mutation("revertJudgePrompt", {"panel"}, {<<"judge-prompts">>, <<"calibration">>})}

ClassroomMutations ==
    {Mutation("requestLiveQuestion", {"live"}, {<<"training-sessions", "next">>}),
     Mutation("answerAttempt", {"attempt", "run"},
       {<<"training-sessions", "detail">>, <<"training-sessions", "next">>,
        <<"training-sessions", "progress">>, <<"students">>}),
     Mutation("endRun", {"run"},
       {<<"training-sessions", "detail">>, <<"students", "progress">>, <<"students">>})}

JobMutations ==
    {Mutation("runJudges", {"judgeRun", "job"}, {<<"evaluation">>, <<"jobs">>}),
     Mutation("cancelJob", {"job", "fill"}, {<<"jobs">>, <<"coverage">>}),
     Mutation("retryJob", {"job", "fill", "judgeRun", "setup"},
       {<<"jobs">>, <<"coverage">>, <<"evaluation">>})}

SetupMutations ==
    {Mutation("createCourseStyle", {"style"}, {<<"setup", "styles">>}),
     Mutation("saveSetup", {"setup", "job"}, {<<"setup", "current">>, <<"rounds">>}),
     Mutation("setVisibility", {"status"},
       {<<"setup", "visibility">>, <<"questions">>, <<"coverage">>, <<"courses">>}),
     Mutation("startNextRound", {"setup", "job"}, {<<"setup">>, <<"rounds">>}),
     Mutation("createCustomJudge", {"custom"}, {<<"custom-judges">>}),
     Mutation("updateCustomJudge", {"custom"}, {<<"custom-judges">>})}

SettingsMutations ==
    {Replacing("saveProvider", {"model"}, {<<"system", "health">>}, {<<"settings", "roles">>}),
     Replacing("resetProvider", {"model"}, {<<"system", "health">>}, {<<"settings", "roles">>}),
     Mutation("saveRole", {"model", "job"}, {<<"settings">>, <<"system", "health">>, <<"jobs">>}),
     Replacing("setRoute", {"model"}, {<<"system", "health">>}, {<<"settings", "roles">>}),
     Mutation("resetRole", {"model", "job"}, {<<"settings">>, <<"system", "health">>, <<"jobs">>})}

TutorialMutations ==
    {Mutation("decideRecipe", {"decision", "block"}, {<<"tutorials">>}),
     Mutation("retireBlock", {"block"}, {<<"tutorials">>}),
     Mutation("pregenerate", {"job"}, {<<"jobs">>}),
     Mutation("saveRecipe", {"recipe", "block"},
       {<<"experimental-recipes", "list">>, <<"tutorials">>}),
     Mutation("deleteRecipe", {"recipe", "block"},
       {<<"experimental-recipes", "list">>, <<"tutorials">>})}

\* What the Studio refreshes when the Jobs list shows that a job has ended.
OnJobEnd == {<<"questions">>, <<"books">>, <<"system", "counts">>, <<"coverage">>, <<"rounds">>,
             <<"setup">>, <<"evaluation">>}

JobEndings ==
    {Mutation("bulkEnds", {"bank", "status", "fill"}, OnJobEnd),
     Mutation("roundEnds", {"bank", "status", "round", "setup"}, OnJobEnd),
     Mutation("importEnds", {"book"}, OnJobEnd),
     Mutation("judgesEnd", {"verdict", "judgeRun"}, OnJobEnd),
     Mutation("tutorialsEnd", {"block"}, OnJobEnd)}

Mutations ==
    AccountMutations \cup CourseMutations \cup ReviewMutations \cup RunMutations \cup BookMutations
      \cup TaxonomyMutations \cup TaxonomyItemMutations \cup SetMutations \cup PromptMutations
      \cup ClassroomMutations \cup JobMutations \cup SetupMutations \cup SettingsMutations
      \cup TutorialMutations \cup JobEndings

Drops(m, q) == \E prefix \in m.drops : IsPrefix(prefix, q.key)
Puts(m, q) == q.key \in m.puts
Affects(m, q) == m.writes \cap q.reads # {}
-----------------------------------------------------------------------------
\* The copy goes stale by age (staleTime) or by invalidation; either way the next mount asks.
Kept(data) == [data |-> data, stale |-> FALSE, failed |-> FALSE]
Empty == [data |-> NoData, stale |-> TRUE, failed |-> FALSE]

\* These are fetched once per page load and never age (staleTime: Infinity).
Lasting == {"styles"}
\* These are stale at once, and a window that gets the focus asks again.
Focused == {"judgePrompts", "judgeStats", "judgeScorecard"}

CacheInit ==
    /\ change \in Mutations
    /\ view \in {q \in Queries : Affects(change, q)}
    /\ server = 0
    /\ press = "idle"
    /\ entry = Empty
    /\ fetch = NoFetch
    /\ mounted = FALSE
    /\ overtaken = FALSE

\* A component that shows the query mounts; a request that is out is joined.
MountView ==
    /\ ~mounted
    /\ mounted' = TRUE
    /\ fetch' = IF entry.stale /\ fetch = NoFetch THEN Unanswered ELSE fetch
    /\ UNCHANGED <<change, view, server, press, entry, overtaken>>

\* Its request goes on without it.
UnmountView ==
    /\ mounted
    /\ mounted' = FALSE
    /\ UNCHANGED <<change, view, server, press, entry, fetch, overtaken>>

\* gcTime: nobody has shown the query for five minutes.
CollectEntry ==
    /\ ~mounted /\ fetch = NoFetch /\ entry.data # NoData
    /\ entry' = Empty
    /\ UNCHANGED <<change, view, server, press, fetch, mounted, overtaken>>

GrowOld ==
    /\ view.name \notin Lasting
    /\ entry.data # NoData /\ ~entry.stale
    /\ entry' = [entry EXCEPT !.stale = TRUE]
    /\ UNCHANGED <<change, view, server, press, fetch, mounted, overtaken>>

FocusWindow ==
    /\ view.name \in Focused
    /\ mounted /\ entry.stale /\ fetch = NoFetch
    /\ fetch' = Unanswered
    /\ UNCHANGED <<change, view, server, press, entry, mounted, overtaken>>

AnswerFetch ==
    /\ fetch = Unanswered
    /\ fetch' = server
    /\ UNCHANGED <<change, view, server, press, entry, mounted, overtaken>>

FetchArrives ==
    /\ fetch \in {0, 1}
    /\ entry' = [Kept(fetch) EXCEPT !.stale = view.name \in Focused]
    /\ fetch' = NoFetch
    /\ UNCHANGED <<change, view, server, press, mounted, overtaken>>

\* The request fails for good: what is cached stays, and the screen says so.
FetchFails ==
    /\ fetch # NoFetch
    /\ entry' = [entry EXCEPT !.stale = TRUE, !.failed = TRUE]
    /\ fetch' = NoFetch
    /\ UNCHANGED <<change, view, server, press, mounted, overtaken>>

CallMutation ==
    /\ press = "idle"
    /\ press' = "sent"
    /\ UNCHANGED <<change, view, server, entry, fetch, mounted, overtaken>>

ServeMutation ==
    /\ press = "sent"
    /\ server' = 1
    /\ press' = "served"
    /\ UNCHANGED <<change, view, entry, fetch, mounted, overtaken>>

\* The call is refused, or its reply is lost: nothing is refreshed either way.
MutationFails ==
    /\ press \in {"sent", "served"}
    /\ press' = "failed"
    /\ UNCHANGED <<change, view, server, entry, fetch, mounted, overtaken>>

\* Invalidating marks the copy stale and, when a component shows it, asks again: a request
\* already out is given up for a new one only when there is a copy to show meanwhile.
Restarts == fetch = NoFetch \/ entry.data # NoData

InvalidateView ==
    /\ entry' = [entry EXCEPT !.stale = TRUE]
    /\ fetch' = IF mounted /\ Restarts THEN Unanswered ELSE fetch
    /\ overtaken' = (fetch = 0 /\ ~(mounted /\ Restarts))

\* setQueryData stops no request that is out.
ReplaceView ==
    /\ entry' = Kept(1)
    /\ fetch' = fetch
    /\ overtaken' = (fetch = 0)

MutationReplied ==
    /\ press = "served"
    /\ press' = "answered"
    /\ CASE Puts(change, view) -> ReplaceView
         [] Drops(change, view) -> InvalidateView
         [] OTHER -> UNCHANGED <<entry, fetch, overtaken>>
    /\ UNCHANGED <<change, view, server, mounted>>

CacheNext ==
    \/ MountView \/ UnmountView \/ CollectEntry \/ GrowOld \/ FocusWindow
    \/ AnswerFetch \/ FetchArrives \/ FetchFails
    \/ CallMutation \/ ServeMutation \/ MutationFails \/ MutationReplied

CacheSpec == CacheInit /\ [][CacheNext]_cacheVars
-----------------------------------------------------------------------------
CacheTypeOK ==
    /\ change \in Mutations /\ view \in Queries
    /\ server \in 0 .. 1
    /\ press \in {"idle", "sent", "served", "answered", "failed"}
    /\ entry \in [data : {NoData, 0, 1}, stale : BOOLEAN, failed : BOOLEAN]
    /\ fetch \in {NoFetch, Unanswered, 0, 1}
    /\ mounted \in BOOLEAN /\ overtaken \in BOOLEAN

TaxonomyChanges == {m.name : m \in TaxonomyMutations \cup TaxonomyItemMutations}

\* The pairs the code leaves alone: the screen keeps its old copy until it is 30 seconds old
\* and mounted again (at once for judgeStats and judgeScorecard, every 30 s for jobs).
NotRefreshed ==
    ({m.name : m \in Mutations} \ {"createCourse", "updateCourse", "setVisibility"})
         \X {"coursesOverview"}
      \cup {"login", "logout", "register"} \X {"courses"}
      \cup {"submitReview"} \X {"coverage", "visibility", "judgeScorecard"}
      \cup {"generateQuestions", "regenerate"}
             \X {"coverage", "book", "taxonomyLinks", "rerunPreview", "visibility"}
      \cup {"importYoutube", "deleteBook", "importEnds"} \X {"tutorialRecipes"}
      \cup {"deleteBook"} \X {"chunk", "bookChunks"}
      \cup {<<"updateBook", "chunkOutlines">>}
      \cup TaxonomyChanges \X {"taxonomyLinks", "experimentalCurriculum"}
      \cup {"setVisibility", "bulkEnds", "roundEnds"} \X {"taxonomyLinks"}
      \cup {"saveSetup", "startNextRound"} \X {"jobs"}
      \cup {<<"retryJob", "currentSetup">>}
      \cup {"judgesEnd"} \X {"judgeStats", "judgeScorecard"}
      \cup {"tutorialsEnd"} \X {"tutorialSample", "tutorialGallery"}

\* Once a mutation has answered, no screen at rest shows what it changed as it was before,
\* whatever was mounted or on its way at the time: but for the pairs named above, and for a
\* request that was out and that the reply could not restart.
AnsweredIsShown ==
    press = "answered" /\ mounted /\ fetch = NoFetch /\ ~entry.failed /\ ~overtaken
      /\ <<change.name, view.name>> \notin NotRefreshed
    => entry.data = 1
=============================================================================
