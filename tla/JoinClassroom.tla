---------------------------- MODULE JoinClassroom ----------------------------
(***************************************************************************)
(* The page behind a classroom link, in several tabs of one browser.  A    *)
(* learner has no account: the browser keeps one identity (the token of    *)
(* one learner) in localStorage, which every tab shares, reads on mount    *)
(* and sends with each request of the student flow.  A tab enrols a new    *)
(* learner and starts a run, or asks who its token is and resumes.         *)
(*                                                                         *)
(* A learner's number stands for its row, its id and its token.  A request *)
(* lives in a slot of its tab: sent, then handled by the server, and its   *)
(* reply delivered or lost.                                                *)
(***************************************************************************)
EXTENDS Naturals, FiniteSetsExt

CONSTANTS
    Tabs,          \* tabs of the browser
    LearnerNames,  \* names a learner may type
    Flows,         \* submissions of the form a tab may have in flight at once
    MaxLearners,   \* bound: learners enrolled
    MaxRuns        \* bound: runs started

ASSUME JoinAssumption ==
    MaxLearners \in Nat \ {0} /\ MaxRuns \in Nat /\ "resume" \notin Flows

NoOne == 0   \* no identity
NoRun == 0

\* Enter submits the form again while it is still being sent, so a tab may run
\* its flow more than once at a time; "resume" is the question asked on mount.
Slots == Flows \cup {"resume"}

VARIABLES
    learners,     \* rows of the students table: id -> name
    lastLearner,  \* the newest learner's id
    openRuns,     \* unfinished runs: run -> learner
    lastRun,      \* the newest run
    stored,       \* the identity in localStorage
    joinTab,      \* what each tab shows and holds
    call,         \* the request in each slot of each tab
    parted        \* how identities that were stored were lost (history)

joinServer == <<learners, lastLearner, openRuns, lastRun>>
joinVars == <<learners, lastLearner, openRuns, lastRun, stored, joinTab, call, parted>>

NoCall == [op |-> "none", name |-> "", who |-> NoOne, token |-> NoOne, run |-> NoRun]

\* The server has these to handle, and the client these to receive.
Sent == {"resume", "resolve", "create", "start", "starting"}
Answered == {"recognised", "refused", "resolved", "created", "taken",
             "started", "busy", "unknown"}

ClosedTab == [page |-> "closed", identity |-> NoOne, asked |-> FALSE,
              known |-> FALSE, trouble |-> FALSE, active |-> NoRun, run |-> NoRun]

\* The page of a run holds nothing of the page it was opened from.
SessionPage(r) == [ClosedTab EXCEPT !.page = "session", !.run = r]

JoinTypeOK ==
    /\ lastLearner \in 0 .. MaxLearners
    /\ lastRun \in 0 .. MaxRuns
    /\ DOMAIN learners \subseteq 1 .. lastLearner
    /\ \A l \in DOMAIN learners : learners[l] \in LearnerNames
    /\ DOMAIN openRuns \subseteq 1 .. lastRun
    /\ \A r \in DOMAIN openRuns : openRuns[r] \in DOMAIN learners
    /\ stored \in 0 .. lastLearner
    /\ parted \subseteq (1 .. lastLearner) \X {"forgotten", "replaced", "refused", "swept"}
    /\ joinTab \in [Tabs -> [page : {"closed", "join", "session"},
                             identity : 0 .. lastLearner, asked : BOOLEAN, known : BOOLEAN,
                             trouble : BOOLEAN, active : 0 .. lastRun, run : 0 .. lastRun]]
    /\ call \in [Tabs -> [Slots -> [op : {"none"} \cup Sent \cup Answered,
                                    name : LearnerNames \cup {""}, who : 0 .. lastLearner,
                                    token : 0 .. lastLearner, run : 0 .. lastRun]]]

-----------------------------------------------------------------------------
(* The server, as the client meets it.                                     *)

\* The learner's unfinished run, newest first, or none.
OpenRunOf(l) ==
    LET own == {r \in DOMAIN openRuns : openRuns[r] = l}
    IN IF own = {} THEN NoRun ELSE Max(own)

Reply(t, s, answer) == call' = [call EXCEPT ![t][s] = answer]

\* POST /students/resume: who holds the token, and its unfinished run.
AnswerResume(t, s) ==
    LET c == call[t][s] IN
    /\ c.op \in {"resume", "resolve"}
    /\ IF c.who \in DOMAIN learners
       THEN Reply(t, s, [c EXCEPT !.op = IF @ = "resume" THEN "recognised" ELSE "resolved",
                                  !.run = OpenRunOf(c.who)])
       ELSE Reply(t, s, [c EXCEPT !.op = "refused"])
    /\ UNCHANGED <<learners, lastLearner, openRuns, lastRun, stored, joinTab, parted>>

\* POST /students: a name is enrolled once.
AnswerCreate(t, s) ==
    LET c == call[t][s] IN
    /\ c.op = "create"
    /\ IF \E l \in DOMAIN learners : learners[l] = c.name
       THEN /\ Reply(t, s, [c EXCEPT !.op = "taken"])
            /\ UNCHANGED <<learners, lastLearner>>
       ELSE /\ lastLearner < MaxLearners
            /\ lastLearner' = lastLearner + 1
            /\ learners' = [l \in DOMAIN learners \cup {lastLearner + 1} |->
                              IF l = lastLearner + 1 THEN c.name ELSE learners[l]]
            /\ Reply(t, s, [c EXCEPT !.op = "created", !.who = lastLearner + 1])
    /\ UNCHANGED <<openRuns, lastRun, stored, joinTab, parted>>

\* POST /training-sessions, first half: only the token's own learner, and only
\* when no run of theirs is open.
CheckStart(t, s) ==
    LET c == call[t][s] IN
    /\ c.op = "start"
    /\ Reply(t, s, [c EXCEPT !.op = IF c.token # c.who \/ c.who \notin DOMAIN learners
                                    THEN "unknown"
                                    ELSE IF OpenRunOf(c.who) # NoRun THEN "busy"
                                    ELSE "starting"])
    /\ UNCHANGED <<learners, lastLearner, openRuns, lastRun, stored, joinTab, parted>>

\* Second half: the run is inserted, whatever was started since the check.
InsertRun(t, s) ==
    LET c == call[t][s] IN
    /\ c.op = "starting"
    /\ lastRun < MaxRuns
    /\ lastRun' = lastRun + 1
    /\ openRuns' = [r \in DOMAIN openRuns \cup {lastRun + 1} |->
                      IF r = lastRun + 1 THEN c.who ELSE openRuns[r]]
    /\ Reply(t, s, [c EXCEPT !.op = "started", !.run = lastRun + 1])
    /\ UNCHANGED <<learners, lastLearner, stored, joinTab, parted>>

-----------------------------------------------------------------------------
(* The browser.                                                            *)

\* The identity the browser loses when it stores another, or none.
Part(why) == parted' = IF stored = NoOne THEN parted ELSE parted \cup {<<stored, why>>}

\* The page is opened or reloaded: the identity is read once, on mount.
MountJoin(t) ==
    /\ joinTab[t].page = "closed"
    /\ joinTab' = [joinTab EXCEPT ![t] = [ClosedTab EXCEPT !.page = "join", !.identity = stored]]
    /\ UNCHANGED <<joinServer, stored, call, parted>>

\* Once the classroom is known too, ask who the token belongs to: once a mount.
AskWho(t) ==
    /\ joinTab[t].page = "join"
    /\ joinTab[t].identity # NoOne
    /\ ~joinTab[t].asked
    /\ joinTab' = [joinTab EXCEPT ![t].asked = TRUE]
    /\ Reply(t, "resume", [NoCall EXCEPT !.op = "resume", !.who = joinTab[t].identity])
    /\ UNCHANGED <<joinServer, stored, parted>>

\* The token is recognised.  (Nobody listens once the page has been left.)
Recognised(t) ==
    LET c == call[t]["resume"] IN
    /\ c.op = "recognised"
    /\ Reply(t, "resume", NoCall)
    /\ joinTab' = [joinTab EXCEPT ![t].known = TRUE, ![t].active = c.run]
    /\ UNCHANGED <<joinServer, stored, parted>>

\* Mutant: a refused token is only reported, and the page keeps it.
RefusedKept(t) ==
    /\ call[t]["resume"].op = "refused"
    /\ Reply(t, "resume", NoCall)
    /\ UNCHANGED <<joinServer, stored, joinTab, parted>>

\* A 404: the page clears the stored identity and offers the form.  What it
\* clears is what is stored now, which another tab may have replaced since.
Refused(t) ==
    LET c == call[t]["resume"] IN
    /\ c.op = "refused"
    /\ Reply(t, "resume", NoCall)
    /\ stored' = NoOne
    /\ joinTab' = [joinTab EXCEPT ![t].identity = NoOne]
    /\ Part(IF stored = c.who THEN "refused" ELSE "swept")
    /\ UNCHANGED joinServer

\* "Not you? Use a different name": whatever the page asked is forgotten too.
ForgetIdentity(t) ==
    /\ joinTab[t].page = "join"
    /\ joinTab[t].identity # NoOne
    /\ stored' = NoOne
    /\ Part("forgotten")
    /\ joinTab' = [joinTab EXCEPT ![t].identity = NoOne, ![t].known = FALSE,
                                  ![t].trouble = FALSE, ![t].active = NoRun]
    /\ Reply(t, "resume", NoCall)
    /\ UNCHANGED joinServer

\* The form is submitted, by the button or by Enter.
SubmitForm(t, s, name) ==
    /\ joinTab[t].page = "join"
    /\ joinTab[t].identity = NoOne
    /\ s \in Flows
    /\ call[t][s].op = "none"
    /\ Reply(t, s, [NoCall EXCEPT !.op = "create", !.name = name])
    /\ UNCHANGED <<joinServer, stored, joinTab, parted>>

\* Mutant: the identity is stored by the page the run opens, after the start.
EnrolledUnstored(t, s) ==
    LET c == call[t][s] IN
    /\ c.op = "created"
    /\ Reply(t, s, [c EXCEPT !.op = "start", !.token = c.who])
    /\ UNCHANGED <<joinServer, stored, joinTab, parted>>

\* Enrolled: the identity is stored, then the run is asked for with its token.
Enrolled(t, s) ==
    LET c == call[t][s] IN
    /\ c.op = "created"
    /\ Part("replaced")
    /\ stored' = c.who
    /\ Reply(t, s, [c EXCEPT !.op = "start", !.token = c.who])
    /\ UNCHANGED <<joinServer, joinTab>>

\* "Continue training": a new run for the identity the page holds, with the
\* token that is stored by now.
ContinueTraining(t, s) ==
    /\ joinTab[t].page = "join"
    /\ joinTab[t].identity # NoOne
    /\ joinTab[t].known
    /\ joinTab[t].active = NoRun
    /\ call[t][s].op = "none"
    /\ \A f \in Flows : call[t][f].op \notin {"start", "starting", "started", "busy", "unknown"}
    /\ Reply(t, s, [NoCall EXCEPT !.op = "start", !.who = joinTab[t].identity,
                                       !.token = stored])
    /\ UNCHANGED <<joinServer, stored, joinTab, parted>>

\* "Resume session": the run the page was told of.
ResumeSession(t) ==
    /\ joinTab[t].page = "join"
    /\ joinTab[t].active # NoRun
    /\ joinTab' = [joinTab EXCEPT ![t] = SessionPage(joinTab[t].active)]
    /\ Reply(t, "resume", NoCall)
    /\ UNCHANGED <<joinServer, stored, parted>>

\* A run was started, or found after a conflict: the tab goes to it, whatever
\* it shows by now.
GoToRun(t, s) ==
    LET c == call[t][s] IN
    /\ \/ c.op = "started"
       \/ c.op = "resolved" /\ c.run # NoRun
    /\ joinTab' = [joinTab EXCEPT ![t] = SessionPage(c.run)]
    /\ call' = [call EXCEPT ![t][s] = NoCall, ![t]["resume"] = NoCall]
    /\ UNCHANGED <<joinServer, stored, parted>>

\* A conflict on "continue" asks which run is open, and what the page was told
\* before is gone; the form only shows the conflict.
ResolveConflict(t, s) ==
    LET c == call[t][s] IN
    /\ c.op = "busy"
    /\ IF c.name = ""
       THEN /\ Reply(t, s, [c EXCEPT !.op = "resolve"])
            /\ joinTab' = [joinTab EXCEPT ![t].known = FALSE, ![t].active = NoRun]
       ELSE Reply(t, s, NoCall) /\ UNCHANGED joinTab
    /\ UNCHANGED <<joinServer, stored, parted>>

\* The other refusals of the flows end them with a message.  When the run that
\* was in the way is over by now, the page may continue again.
ShowRefusal(t, s) ==
    LET c == call[t][s]
        over == c.op = "resolved" /\ c.run = NoRun
    IN /\ s \in Flows
       /\ c.op \in {"taken", "unknown", "refused"} \/ over
       /\ Reply(t, s, NoCall)
       /\ joinTab' = [joinTab EXCEPT ![t].known = @ \/ (over /\ joinTab[t].page = "join"
                                                     /\ joinTab[t].identity = c.who)]
       /\ UNCHANGED <<joinServer, stored, parted>>

\* A request or its reply is lost: the page shows that the API is unreachable.
LoseReply(t, s) ==
    /\ call[t][s].op \in (Sent \cup Answered) \ {"starting"}
    /\ Reply(t, s, NoCall)
    /\ joinTab' = [joinTab EXCEPT ![t].trouble = @ \/ s = "resume"]
    /\ UNCHANGED <<joinServer, stored, parted>>

\* The learner ends the run from its page, if the token stored is its owner's.
EndRun(t) ==
    LET r == joinTab[t].run IN
    /\ joinTab[t].page = "session"
    /\ r \in DOMAIN openRuns
    /\ stored = openRuns[r]
    /\ openRuns' = [q \in DOMAIN openRuns \ {r} |-> openRuns[q]]
    /\ joinTab' = [joinTab EXCEPT ![t] = ClosedTab]
    /\ UNCHANGED <<learners, lastLearner, lastRun, stored, call, parted>>

\* The tab is closed: what it waited for is answered to nobody.  (Closing
\* between the two halves of a start is closing right after them.)
CloseTab(t) ==
    /\ joinTab[t].page # "closed"
    /\ \A s \in Slots : call[t][s].op # "starting"
    /\ joinTab' = [joinTab EXCEPT ![t] = ClosedTab]
    /\ call' = [call EXCEPT ![t] = [s \in Slots |-> NoCall]]
    /\ UNCHANGED <<joinServer, stored, parted>>

-----------------------------------------------------------------------------

\* A new browser, a returning one, or one whose database was recreated since.
JoinInit ==
    /\ stored \in 0 .. 1
    /\ lastLearner = stored
    /\ \/ learners = [l \in {} |-> ""]
       \/ stored = 1 /\ \E n \in LearnerNames : learners = [l \in {1} |-> n]
    /\ openRuns = [r \in {} |-> NoOne]
    /\ lastRun = 0
    /\ joinTab = [t \in Tabs |-> ClosedTab]
    /\ call = [t \in Tabs |-> [s \in Slots |-> NoCall]]
    /\ parted = {}

Delivered(t, s) ==
    \/ AnswerResume(t, s) \/ AnswerCreate(t, s) \/ CheckStart(t, s) \/ InsertRun(t, s)
    \/ GoToRun(t, s) \/ ResolveConflict(t, s) \/ ShowRefusal(t, s) \/ Enrolled(t, s)

JoinNext ==
    \E t \in Tabs :
        \/ MountJoin(t) \/ AskWho(t) \/ Recognised(t) \/ Refused(t)
        \/ ForgetIdentity(t) \/ ResumeSession(t)
        \/ EndRun(t) \/ CloseTab(t)
        \/ \E s \in Slots : Delivered(t, s) \/ LoseReply(t, s)
        \/ \E s \in Flows : ContinueTraining(t, s) \/ \E n \in LearnerNames : SubmitForm(t, s, n)

JoinSpec == JoinInit /\ [][JoinNext]_joinVars

-----------------------------------------------------------------------------
(* Properties                                                              *)

\* "Stored before the run starts": the learner of every unfinished run can
\* return to it from this browser, unless it chose another name, another
\* enrolment took its place, or its identity was lost to a late refusal.
RunnerCanReturn ==
    \A r \in DOMAIN openRuns :
        \/ openRuns[r] = stored
        \/ \E why \in {"forgotten", "replaced", "swept"} : <<openRuns[r], why>> \in parted

\* A learner whose identity no longer exists is not left on a page that greets
\* it: once the page has asked, it is refused and offered the form, unless the
\* question was lost and the page says so.
StaleIdentityGivesWay ==
    \A t \in Tabs :
        (joinTab[t].asked /\ joinTab[t].identity \notin {NoOne} \cup DOMAIN learners)
        => call[t]["resume"].op \in {"resume", "refused"} \/ joinTab[t].trouble

=============================================================================
