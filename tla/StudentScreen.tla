---------------------------- MODULE StudentScreen ----------------------------
(***************************************************************************)
(* The page a learner trains on: serve a question, take an answer, show    *)
(* the result, ask for the next.  The page keeps two cached queries (the   *)
(* run and the question being served), polls the second while a question   *)
(* is written, and holds the result on screen until there is something to  *)
(* show instead.  Attempts are numbered in the order they are served.      *)
(*                                                                         *)
(* A fetch is "sent", then holds the reply the server gave it (the server  *)
(* may change before the reply arrives), then is delivered or lost.        *)
(***************************************************************************)
EXTENDS Naturals, FiniteSets

CONSTANTS
    MaxAttempts,  \* bound: questions served in the run
    Presses       \* submissions of one page that may be in flight at once

ASSUME ScreenAssumption == MaxAttempts \in Nat /\ Presses # {}

NoAttempt == 0
Attempts == 1 .. MaxAttempts

VARIABLES
    run,        \* the server's run: served, open and answered attempts, ended, supply
    page,       \* the screen's own state
    runQuery,   \* cached query of the run: what it says, and its fetch
    nextQuery,  \* cached query of /next: data, error, and its fetch
    press,      \* each submission in flight
    askingLive, \* "make me a new question" is in flight
    ending,     \* "end session" is in flight
    mishap      \* lost replies, other tabs, double submissions (history)

screenVars == <<run, page, runQuery, nextQuery, press, askingLive, ending, mishap>>

\* Answers of /next that carry no question.  The first two are polled.
Waiting == {"generating", "empty"}
Errors == Waiting \cup {"completed", "refused", "unreachable"}

NoPress == [op |-> "none", attempt |-> NoAttempt, typed |-> NoAttempt]
NewPage == [typed |-> NoAttempt, result |-> NoAttempt, answered |-> NoAttempt,
            advancing |-> FALSE]

ScreenTypeOK ==
    /\ run \in [last : 0 .. MaxAttempts, open : 0 .. MaxAttempts,
                answered : SUBSET Attempts, ended : BOOLEAN,
                supply : {"ready", "cooling", "completed"} \cup Waiting]
    /\ run.open \in 0 .. run.last /\ run.open \notin run.answered
    /\ page \in [typed : 0 .. run.last, result : 0 .. run.last, answered : 0 .. run.last,
                 advancing : BOOLEAN]
    /\ runQuery \in [says : {"pending", "open", "ended", "error"},
                     fetch : {"idle", "sent", "open", "ended"}]
    /\ nextQuery \in [data : 0 .. run.last, error : {"none"} \cup Errors,
                      fetch : {"idle", "sent", "question"} \cup Errors, reply : 0 .. run.last]
    /\ press \in [Presses -> [op : {"none", "sent", "grading", "graded", "refused"},
                              attempt : 0 .. run.last, typed : 0 .. run.last]]
    /\ askingLive \in BOOLEAN
    /\ ending \in {"none", "sent", "ended"}
    /\ mishap \subseteq {"lost", "elsewhere", "twice"}

-----------------------------------------------------------------------------
(* What the page derives from its state.                                   *)

NextEnabled == runQuery.says = "open" /\ (page.result = NoAttempt \/ page.advancing)
StaleAnswered == nextQuery.data # NoAttempt /\ nextQuery.data = page.answered

\* The question on offer: served right now, in a run still open, not the one
\* just answered, and not while a result is up.
Offered ==
    IF \/ nextQuery.error # "none" \/ runQuery.says # "open"
       \/ StaleAnswered \/ page.result # NoAttempt
    THEN NoAttempt ELSE nextQuery.data

\* Mutant: only a new question dismisses the result.
NextServed ==
    /\ nextQuery.fetch = "idle" /\ nextQuery.error = "none"
    /\ nextQuery.data # NoAttempt /\ ~StaleAnswered

\* /next has settled on anything but "still being written".
NextSettled ==
    /\ nextQuery.fetch = "idle"
    /\ IF nextQuery.error # "none" THEN nextQuery.error # "generating"
       ELSE nextQuery.data # NoAttempt /\ ~StaleAnswered

\* A fetch starts: a query with nothing to show is pending again.
Refetched(q) ==
    [q EXCEPT !.fetch = "sent", !.reply = NoAttempt,
              !.error = IF q.data = NoAttempt THEN "none" ELSE @]

Invalidated == IF NextEnabled THEN Refetched(nextQuery) ELSE nextQuery
RunInvalidated == [runQuery EXCEPT !.fetch = "sent"]

-----------------------------------------------------------------------------
(* The server.                                                             *)

\* GET the run.
AnswerRun ==
    /\ runQuery.fetch = "sent"
    /\ runQuery' = [runQuery EXCEPT !.fetch = IF run.ended THEN "ended" ELSE "open"]
    /\ UNCHANGED <<run, page, nextQuery, press, askingLive, ending, mishap>>

\* GET /next: the open attempt again, else one there is to serve.  With none,
\* a question may be written for the learner, unless writing one just failed.
AnswerNext ==
    /\ nextQuery.fetch = "sent"
    /\ LET reply(f, a) == nextQuery' = [nextQuery EXCEPT !.fetch = f, !.reply = a]
           supply == IF run.last = MaxAttempts THEN "completed" ELSE run.supply
       IN IF run.ended THEN reply("refused", NoAttempt) /\ UNCHANGED run
          ELSE IF run.open # NoAttempt THEN reply("question", run.open) /\ UNCHANGED run
          ELSE \/ /\ supply = "ready"
                  /\ reply("question", run.last + 1)
                  /\ \E s \in {"ready", "empty"} :
                       run' = [run EXCEPT !.last = @ + 1, !.open = run.last + 1, !.supply = s]
               \/ /\ supply = "empty"
                  /\ \E s \in Waiting : reply(s, NoAttempt) /\ run' = [run EXCEPT !.supply = s]
               \/ /\ supply \in {"generating", "completed", "cooling"}
                  /\ reply(IF supply = "cooling" THEN "empty" ELSE supply, NoAttempt)
                  /\ UNCHANGED run
    /\ UNCHANGED <<page, runQuery, press, askingLive, ending, mishap>>

\* POST the answer: read that the attempt has no score, grade it, write.
GradeStart(p) ==
    /\ press[p].op = "sent"
    /\ press' = [press EXCEPT ![p].op = IF press[p].attempt \in run.answered
                                         THEN "refused" ELSE "grading"]
    /\ UNCHANGED <<run, page, runQuery, nextQuery, askingLive, ending, mishap>>

GradeEnd(p) ==
    /\ press[p].op = "grading"
    /\ press' = [press EXCEPT ![p].op = "graded"]
    /\ run' = [run EXCEPT !.answered = @ \cup {press[p].attempt},
                          !.open = IF @ = press[p].attempt THEN NoAttempt ELSE @]
    /\ UNCHANGED <<page, runQuery, nextQuery, askingLive, ending, mishap>>

\* POST live-question: a question is written, even right after one failed, and
\* /next is asked again whatever the answer.
AnswerAsk ==
    /\ askingLive
    /\ askingLive' = FALSE
    /\ \/ UNCHANGED run
       \/ /\ run.supply \in {"empty", "cooling"}
          /\ run' = [run EXCEPT !.supply = "generating"]
    /\ nextQuery' = Invalidated
    /\ UNCHANGED <<page, runQuery, press, ending, mishap>>

AnswerEnd ==
    /\ ending = "sent"
    /\ ending' = "ended"
    /\ run' = [run EXCEPT !.ended = TRUE]
    /\ UNCHANGED <<page, runQuery, nextQuery, press, askingLive, mishap>>

\* The bank moves on: what is being written is done or fails, the cooldown of a
\* failure ends (long after a page that polls was told of it), reviews add
\* questions, and the curriculum may be finished.
Supply(from, to) ==
    /\ run.supply = from
    /\ run' = [run EXCEPT !.supply = to]
    /\ UNCHANGED <<page, runQuery, nextQuery, press, askingLive, ending, mishap>>

WritingEnds == Supply("generating", "ready") \/ Supply("generating", "cooling")
CoolingEnds == ~(NextEnabled /\ nextQuery.error = "generating") /\ Supply("cooling", "empty")
BankGrows == Supply("empty", "ready") \/ Supply("cooling", "ready")
CurriculumDone == Supply("ready", "completed") \/ Supply("empty", "completed")

\* Another tab of the learner answers the open question, or ends the run.
Elsewhere ==
    /\ ~run.ended
    /\ \/ run' = [run EXCEPT !.ended = TRUE]
       \/ /\ run.open # NoAttempt
          /\ run' = [run EXCEPT !.answered = @ \cup {run.open}, !.open = NoAttempt]
    /\ mishap' = mishap \cup {"elsewhere"}
    /\ UNCHANGED <<page, runQuery, nextQuery, press, askingLive, ending>>

-----------------------------------------------------------------------------
(* The page.                                                               *)

\* The run arrives.  The first time it is open, /next is asked.
RunArrives ==
    /\ runQuery.fetch \in {"open", "ended"}
    /\ runQuery' = [says |-> runQuery.fetch, fetch |-> "idle"]
    /\ nextQuery' = IF /\ runQuery.says # "open" /\ runQuery.fetch = "open"
                       /\ nextQuery.data = NoAttempt
                    THEN Refetched(nextQuery) ELSE nextQuery
    /\ UNCHANGED <<run, page, press, askingLive, ending, mishap>>

\* The run cannot be read: an error if there is nothing to show yet.
RunLost ==
    /\ runQuery.fetch # "idle"
    /\ runQuery' = [says |-> IF runQuery.says = "pending" THEN "error" ELSE runQuery.says,
                    fetch |-> "idle"]
    /\ UNCHANGED <<run, page, nextQuery, press, askingLive, ending, mishap>>

\* /next arrives.  An error keeps the question held before it.
NextArrives ==
    /\ nextQuery.fetch \notin {"idle", "sent"}
    /\ nextQuery' =
         IF nextQuery.fetch = "question"
         THEN [data |-> nextQuery.reply, error |-> "none", fetch |-> "idle", reply |-> NoAttempt]
         ELSE [nextQuery EXCEPT !.error = nextQuery.fetch, !.fetch = "idle"]
    /\ UNCHANGED <<run, page, runQuery, press, askingLive, ending, mishap>>

NextLost ==
    /\ nextQuery.fetch # "idle"
    /\ nextQuery' = [nextQuery EXCEPT !.error = "unreachable", !.fetch = "idle",
                                      !.reply = NoAttempt]
    /\ UNCHANGED <<run, page, runQuery, press, askingLive, ending, mishap>>

\* The poll: while the last answer was that there is nothing yet.
Poll ==
    /\ NextEnabled
    /\ nextQuery.fetch = "idle"
    /\ nextQuery.error \in Waiting
    /\ nextQuery' = Refetched(nextQuery)
    /\ UNCHANGED <<run, page, runQuery, press, askingLive, ending, mishap>>

\* The query client asks again when the network comes back; the button does
\* when there is nothing to serve.
AskAgain ==
    /\ NextEnabled
    /\ nextQuery.fetch = "idle"
    /\ nextQuery' = Refetched(nextQuery)
    /\ UNCHANGED <<run, page, runQuery, press, askingLive, ending, mishap>>

\* The learner types in the box of the question on offer, or clears it.
TypeAnswer(typed) ==
    /\ Offered # NoAttempt
    /\ typed \in {NoAttempt, Offered}
    /\ page' = [page EXCEPT !.typed = typed]
    /\ UNCHANGED <<run, runQuery, nextQuery, press, askingLive, ending, mishap>>

\* Submit: the button waits for the submission in flight, Ctrl+Enter does not.
Submit(p) ==
    /\ Offered # NoAttempt
    /\ page.typed # NoAttempt
    /\ press[p].op = "none"
    /\ press' = [press EXCEPT ![p] = [op |-> "sent", attempt |-> Offered, typed |-> page.typed]]
    /\ mishap' = IF \E q \in Presses : press[q].op # "none" THEN mishap \cup {"twice"} ELSE mishap
    /\ UNCHANGED <<run, page, runQuery, nextQuery, askingLive, ending>>

\* Mutant: the screen keeps neither the result nor which question it was of.
GradedUnmarked(p) ==
    /\ press[p].op = "graded"
    /\ press' = [press EXCEPT ![p] = NoPress]
    /\ page' = [page EXCEPT !.typed = NoAttempt]
    /\ runQuery' = RunInvalidated
    /\ nextQuery' = Invalidated
    /\ UNCHANGED <<run, askingLive, ending, mishap>>

\* Mutant: the next question follows at once, in the same answer box.
GradedMovesOn(p) ==
    /\ press[p].op = "graded"
    /\ press' = [press EXCEPT ![p] = NoPress]
    /\ page' = [page EXCEPT !.answered = press[p].attempt]
    /\ runQuery' = RunInvalidated
    /\ nextQuery' = Invalidated
    /\ UNCHANGED <<run, askingLive, ending, mishap>>

\* Graded: the run and /next are asked again, then the result is put up.
Graded(p) ==
    /\ press[p].op = "graded"
    /\ press' = [press EXCEPT ![p] = NoPress]
    /\ page' = [page EXCEPT !.result = press[p].attempt, !.answered = press[p].attempt,
                            !.typed = NoAttempt]
    /\ runQuery' = RunInvalidated
    /\ nextQuery' = Invalidated
    /\ UNCHANGED <<run, askingLive, ending, mishap>>

\* Refused, or the reply is lost: an error is shown, and nothing is asked again.
NotGraded(p) ==
    /\ press[p].op \in {"sent", "graded", "refused"}
    /\ press' = [press EXCEPT ![p] = NoPress]
    /\ mishap' = IF press[p].op = "graded" THEN mishap \cup {"lost"} ELSE mishap
    /\ UNCHANGED <<run, page, runQuery, nextQuery, askingLive, ending>>

\* "Next question": the result stays up while /next is asked.
Advance ==
    /\ page.result # NoAttempt
    /\ ~page.advancing
    /\ page' = [page EXCEPT !.advancing = TRUE, !.typed = NoAttempt]
    /\ nextQuery' = Refetched(nextQuery)
    /\ UNCHANGED <<run, runQuery, press, askingLive, ending, mishap>>

\* The result leaves once /next has settled.
Dismiss ==
    /\ page.advancing
    /\ NextSettled
    /\ page' = [page EXCEPT !.advancing = FALSE, !.result = NoAttempt]
    /\ UNCHANGED <<run, runQuery, nextQuery, press, askingLive, ending, mishap>>

\* "Make me a new question", offered while there is none.
AskLive ==
    /\ runQuery.says \in {"open", "ended"}
    /\ nextQuery.error = "empty"
    /\ ~askingLive
    /\ askingLive' = TRUE
    /\ UNCHANGED <<run, page, runQuery, nextQuery, press, ending, mishap>>

\* "End session"; once done the page is left.
EndSession ==
    /\ runQuery.says = "open"
    /\ ending = "none"
    /\ ending' = "sent"
    /\ UNCHANGED <<run, page, runQuery, nextQuery, press, askingLive, mishap>>

EndLost ==
    /\ ending # "none"
    /\ ending' = "none"
    /\ mishap' = IF ending = "ended" THEN mishap \cup {"lost"} ELSE mishap
    /\ UNCHANGED <<run, page, runQuery, nextQuery, press, askingLive>>

\* The page is left, or reloaded: its state and the cache start anew.
Remount ==
    /\ page' = NewPage
    /\ runQuery' = [says |-> "pending", fetch |-> "sent"]
    /\ nextQuery' = [data |-> NoAttempt, error |-> "none", fetch |-> "idle", reply |-> NoAttempt]
    /\ press' = [p \in Presses |-> NoPress]
    /\ askingLive' = FALSE
    /\ ending' = "none"
    /\ mishap' = {}

ReloadPage ==
    /\ \A p \in Presses : press[p].op # "grading"
    /\ Remount
    /\ UNCHANGED run

-----------------------------------------------------------------------------

ScreenInit ==
    /\ run \in [last : {0}, open : {NoAttempt}, answered : {{}}, ended : {FALSE},
                supply : {"ready", "generating", "empty"}]
    /\ page = NewPage
    /\ runQuery = [says |-> "pending", fetch |-> "sent"]
    /\ nextQuery = [data |-> NoAttempt, error |-> "none", fetch |-> "idle", reply |-> NoAttempt]
    /\ press = [p \in Presses |-> NoPress]
    /\ askingLive = FALSE
    /\ ending = "none"
    /\ mishap = {}

ScreenNext ==
    \/ AnswerRun \/ AnswerNext \/ AnswerAsk \/ AnswerEnd
    \/ WritingEnds \/ CoolingEnds \/ BankGrows \/ CurriculumDone \/ Elsewhere
    \/ RunArrives \/ RunLost \/ NextArrives \/ NextLost \/ Poll \/ AskAgain
    \/ Advance \/ Dismiss \/ AskLive \/ EndSession \/ EndLost \/ ReloadPage
    \/ \E p \in Presses :
         GradeStart(p) \/ GradeEnd(p) \/ Submit(p) \/ Graded(p) \/ NotGraded(p)
    \/ \E typed \in Attempts \cup {NoAttempt} : TypeAnswer(typed)

\* Requests are answered or lost, timers run, and writing ends.  The effect that
\* dismisses a result runs after each render that finds /next settled, however
\* soon /next is asked again, and a learner does not press a button that asks
\* /next anew before every one of its replies: strong fairness.
ScreenFairness ==
    /\ WF_screenVars(AnswerRun \/ RunArrives \/ RunLost)
    /\ WF_screenVars(AnswerNext)
    /\ SF_screenVars(NextArrives \/ NextLost)
    /\ WF_screenVars(Poll)
    /\ SF_screenVars(Dismiss)
    /\ WF_screenVars(WritingEnds)

ScreenSpec == ScreenInit /\ [][ScreenNext]_screenVars /\ ScreenFairness

-----------------------------------------------------------------------------
(* Properties                                                              *)

\* The question on offer is open on the server, unless its own answer is on
\* the way, or the page was not told: a reply was lost, or another tab acted.
\* (A double submission may leave it so as well.)
OfferedIsOpen ==
    Offered # NoAttempt =>
        \/ Offered = run.open
        \/ \E p \in Presses : press[p].attempt = Offered
        \/ mishap # {}

\* A text is submitted as the answer of the question it was typed for, unless
\* the question changed under it: a reply was lost, another tab acted, or the
\* text was submitted twice.
TextGoesToItsQuestion ==
    \A p \in Presses :
        press[p].op # "none" => press[p].typed = press[p].attempt \/ mishap # {}

\* What is on offer is what is open, and what is answered.
AnswersTheOffered == OfferedIsOpen /\ TextGoesToItsQuestion

\* "Next question" is answered: the result gives way to what comes next, or
\* the run is seen to have ended.
ResultGivesWay == page.advancing ~> (~page.advancing \/ runQuery.says = "ended")

=============================================================================
