----------------------------- MODULE LiveSession -----------------------------
(***************************************************************************)
(* One student's training session: the requests of the tabs it is open in, *)
(* the attempts they open and answer, and the live jobs that generate a    *)
(* question when the bank has nothing new.  A request reads its way to a   *)
(* decision and only then writes: SQLite takes its lock at the first       *)
(* write, so every read before it may be stale when it is acted upon.      *)
(* From its first write to its commit a request is one step.               *)
(***************************************************************************)
EXTENDS Naturals, Sequences, FiniteSetsExt

CONSTANTS
    Tab,          \* the tabs (or clients) a student has the session open in
    MaxJobs,      \* bound on the live jobs of the session
    MaxAttempts,  \* bound on the questions served
    MaxCrashes, MaxFaults   \* bounds on process stops and on lost commits

ASSUME LiveAssumption == {MaxJobs, MaxAttempts, MaxCrashes, MaxFaults} \subseteq Nat

Job == 1..MaxJobs           \* live_question_jobs, by id
Ordinal == 1..MaxAttempts   \* student_attempts of the session, by ordinal

VARIABLES
    ended,       \* ended_at is set
    attempts,    \* per ordinal: the live job it came from (0: the bank), scored
    mastery,     \* how many times each answer is folded into the mastery row
    status, question, attemptOf,   \* columns of a live job
    waited,      \* the time limit of its status has passed: LIVE_JOB_TIMEOUT for a
                 \* job in flight, LIVE_RETRY_COOLDOWN for one that failed
    rejected,    \* live questions the professor rejected
    tasks, wpc,  \* submitted tasks, and the worker of each job
    request,     \* per tab: the step and the locals of its request
    \* history: two requests have overlapped, jobs failed by an expiry that read
    \* them before they were done, the student was told the curriculum is complete
    overlapped, lateExpiry, told,
    up, crashes, faults

jobVars == <<status, question, attemptOf, waited>>
workVars == <<tasks, wpc>>
historyVars == <<overlapped, lateExpiry, told>>
faultVars == <<up, crashes, faults>>
liveVars == <<ended, attempts, mastery, jobVars, rejected, workVars, request,
              historyVars, faultVars>>

InFlight == {"queued", "running"}
Idle == [pc |-> "idle", force |-> FALSE, job |-> 0, ordinal |-> 0, mastery |-> [n \in Ordinal |-> 0]]

Init == /\ ended = FALSE
        /\ attempts = <<>>
        /\ mastery = [n \in Ordinal |-> 0]
        /\ status = [j \in Job |-> "none"]
        /\ question = [j \in Job |-> FALSE]
        /\ attemptOf = [j \in Job |-> 0]
        /\ waited = [j \in Job |-> FALSE]
        /\ rejected = {}
        /\ tasks = {}
        /\ wpc = [j \in Job |-> "idle"]
        /\ request = [t \in Tab |-> Idle]
        /\ overlapped = FALSE
        /\ lateExpiry = {}
        /\ told = FALSE
        /\ up = TRUE /\ crashes = 0 /\ faults = 0

Open == {n \in DOMAIN attempts : ~attempts[n].scored}
Serves(j) == {n \in DOMAIN attempts : attempts[n].job = j}
Active == {j \in Job : status[j] \in InFlight}
Ready == {j \in Job : status[j] = "done" /\ question[j] /\ attemptOf[j] = 0}
Created == {j \in Job : status[j] # "none"}

\* Job j has status x from now on, and its time limit starts again.
Becomes(j, x) == /\ status' = [status EXCEPT ![j] = x]
                 /\ waited' = [waited EXCEPT ![j] = FALSE]

\* The request of tab t moves on, with some of its locals changed.
Step(t, r) == request' = [request EXCEPT ![t] = r]
At(t, pc) == up /\ request[t].pc = pc
-----------------------------------------------------------------------------
(* GET .../next and POST .../live-question: next_for_session. *)

Begin(t, r) ==
    /\ At(t, "idle")
    /\ Step(t, r)
    /\ overlapped' = (overlapped \/ \E u \in Tab \ {t} : request[u].pc # "idle")
    /\ UNCHANGED <<ended, attempts, mastery, jobVars, rejected, workVars, lateExpiry, told,
                   faultVars>>

\* open_run: refused once the session has ended.
Ask(t, force) == ~ended /\ Begin(t, [Idle EXCEPT !.pc = "resume", !.force = force])

\* The reads of a request: nothing but its own locals changes.
Reading(t, r) ==
    /\ Step(t, r)
    /\ UNCHANGED <<ended, attempts, mastery, jobVars, rejected, workVars, historyVars,
                   faultVars>>

\* Mutant: a request does not look for the question that is outstanding.
ResumeNothing(t) ==
    /\ At(t, "resume")
    /\ Reading(t, [request[t] EXCEPT !.pc = "ready"])

\* resume: an open attempt is the answer, refused when its question was rejected.
Resume(t) ==
    /\ At(t, "resume")
    /\ Reading(t, IF Open # {} THEN Idle ELSE [request[t] EXCEPT !.pc = "ready"])

\* jobs.ready: the oldest finished question that no attempt holds.
FindReady(t) ==
    /\ At(t, "ready")
    /\ \/ /\ Ready = {}
          /\ Reading(t, [request[t] EXCEPT !.pc = "active"])
       \/ /\ Ready # {} /\ Min(Ready) \notin rejected
          /\ Reading(t, [Idle EXCEPT !.pc = "place", !.job = Min(Ready)])

\* next_ordinal, read by serve_live.
Place(t) ==
    /\ At(t, "place")
    /\ Reading(t, [request[t] EXCEPT !.pc = "serve", !.ordinal = Len(attempts) + 1])

\* The answer is the job in flight, run once more after the response if queued.
Wait(j, st) == IF st[j] = "queued" THEN [Idle EXCEPT !.pc = "respond", !.job = j] ELSE Idle

\* jobs.active: one still in time is the answer, one out of time is to be failed.
FindActive(t) ==
    /\ At(t, "active")
    /\ \/ /\ Active = {}
          /\ Reading(t, [request[t] EXCEPT !.pc = "draw"])
       \/ \E j \in Active :
              Reading(t, IF waited[j] THEN [request[t] EXCEPT !.pc = "expire", !.job = j]
                                      ELSE Wait(j, status))

\* _in_cooldown of the latest job.
InCooldown(st, w) ==
    \E j \in Job : /\ st[j] = "failed" /\ ~w[j]
                   /\ \A k \in Job : st[k] # "none" => k <= j

\* plan_draw, and what is made of it: a fresh question is served; a repeat or
\* nothing makes a live job unless one failed moments ago or it is not possible;
\* then a repeat is served after all, and nothing is refused.
Decisions(force, cooling) ==
    {"fresh", "repeat", "nothing"} \cup (IF cooling /\ ~force THEN {} ELSE {"generate"})

Draw(t) ==
    /\ At(t, "draw")
    /\ \E d \in Decisions(request[t].force, InCooldown(status, waited)) :
           Reading(t, CASE d = "generate" -> [Idle EXCEPT !.pc = "create"]
                        [] d = "nothing" -> Idle
                        [] OTHER -> [Idle EXCEPT !.pc = "serve", !.ordinal = Len(attempts) + 1])

\* Every topic is past the ceiling: runs.end is flushed and CurriculumCompleted
\* raised through the route, so all the request wrote is rolled back, and the
\* student told.
CompleteCurriculum(t) ==
    /\ At(t, "draw") \/ At(t, "expire") \/ (At(t, "ready") /\ Ready \cap rejected # {})
    /\ Step(t, Idle)
    /\ told' = TRUE
    /\ UNCHANGED <<ended, attempts, mastery, jobVars, rejected, workVars, overlapped,
                   lateExpiry, faultVars>>

\* The attempt row, from live job j or (0) from the bank.
AddAttempt(j) ==
    /\ attempts' = Append(attempts, [job |-> j, scored |-> FALSE])
    /\ attemptOf' = IF j = 0 THEN attemptOf ELSE [attemptOf EXCEPT ![j] = Len(attempts) + 1]

\* Mutant: a second insert at one ordinal replaces the row that is there.
ServeOver(t) ==
    /\ At(t, "serve")
    /\ Len(attempts) < MaxAttempts
    /\ attempts' = [n \in 1..(IF request[t].ordinal > Len(attempts)
                              THEN request[t].ordinal ELSE Len(attempts)) |->
                    IF n = request[t].ordinal
                    THEN [job |-> request[t].job, scored |-> FALSE] ELSE attempts[n]]
    /\ Step(t, Idle)
    /\ UNCHANGED <<ended, mastery, jobVars, rejected, workVars, historyVars, faultVars>>

\* serve_plan and serve_live: the attempt is inserted at the ordinal that was
\* read; a second insert at one ordinal breaks the unique constraint.
Serve(t) ==
    /\ At(t, "serve")
    /\ Len(attempts) < MaxAttempts
    /\ \/ request[t].ordinal = Len(attempts) + 1 /\ AddAttempt(request[t].job)
       \/ request[t].ordinal <= Len(attempts) /\ UNCHANGED <<attempts, attemptOf>>
    /\ Step(t, Idle)
    /\ UNCHANGED <<ended, mastery, status, question, waited, rejected, workVars,
                   historyVars, faultVars>>

\* Mutant: the active job is not looked for again under the lock.
CreateUnchecked(t) ==
    /\ At(t, "create")
    /\ \E j \in Job \ Created :
           /\ Becomes(j, "queued")
           /\ Step(t, [Idle EXCEPT !.pc = "respond", !.job = j])
    /\ UNCHANGED <<ended, attempts, mastery, question, attemptOf, rejected, workVars,
                   historyVars, faultVars>>

\* _lock_run, the active job once more, and _create_job; st and w are the jobs
\* as this request has left them.
CreateIn(t, st, w) ==
    LET active == {j \in Job : st[j] \in InFlight}
        free == {j \in Job : st[j] = "none"}
    IN \/ /\ active # {}
          /\ status' = st /\ waited' = w
          /\ Step(t, Wait(Min(active), st))
       \/ /\ active = {} /\ free # {}
          /\ status' = [st EXCEPT ![Min(free)] = "queued"] /\ waited' = w
          /\ Step(t, Wait(Min(free), status'))

Create(t) ==
    /\ At(t, "create")
    /\ CreateIn(t, status, waited)
    /\ UNCHANGED <<ended, attempts, mastery, question, attemptOf, rejected, workVars,
                   historyVars, faultVars>>

\* A request that failed a job (st and w are the jobs then) holds the lock: the
\* rest of next_for_session is the same step.
Conclude(t, st, w) ==
    \E d \in Decisions(request[t].force, InCooldown(st, w)) :
        \/ /\ d \in {"fresh", "repeat"} /\ Len(attempts) < MaxAttempts
           /\ AddAttempt(0)
           /\ status' = st /\ waited' = w
           /\ Step(t, Idle)
        \/ /\ d = "nothing"
           /\ status' = st /\ waited' = w
           /\ Step(t, Idle)
           /\ UNCHANGED <<attempts, attemptOf>>
        \/ /\ d = "generate"
           /\ CreateIn(t, st, w)
           /\ UNCHANGED <<attempts, attemptOf>>

\* _expire_stale: the job is failed whatever it has become since it was read.
Expire(t) ==
    /\ At(t, "expire")
    /\ LET j == request[t].job IN
           /\ Conclude(t, [status EXCEPT ![j] = "failed"], [waited EXCEPT ![j] = FALSE])
           /\ lateExpiry' = IF status[j] = "done" THEN lateExpiry \cup {j} ELSE lateExpiry
    /\ UNCHANGED <<ended, mastery, question, rejected, workVars, overlapped, told, faultVars>>

\* _serve_ready, when the question was rejected before it was served.  Its cooldown
\* counts from the time it was done, which may have passed.
DropRejected(t) ==
    /\ At(t, "ready") /\ Ready # {} /\ Min(Ready) \in rejected
    /\ \E over \in BOOLEAN :
           Conclude(t, [status EXCEPT ![Min(Ready)] = "failed"],
                    [waited EXCEPT ![Min(Ready)] = over])
    /\ UNCHANGED <<ended, mastery, question, rejected, workVars, historyVars, faultVars>>

\* After the response, its background task runs.
Respond(t) ==
    /\ At(t, "respond")
    /\ tasks' = tasks \cup {request[t].job}
    /\ Step(t, Idle)
    /\ UNCHANGED <<ended, attempts, mastery, jobVars, rejected, wpc, historyVars, faultVars>>
-----------------------------------------------------------------------------
(* POST .../attempts/{attempt_id}/answer: submit_answer. *)

\* The attempt is read and is not answered yet.
Answer(t, n) ==
    /\ n \in Open
    /\ Begin(t, [Idle EXCEPT !.pc = "grade", !.ordinal = n])

\* The answer is graded, and then the mastery row is read.
Grade(t) ==
    /\ At(t, "grade")
    /\ Reading(t, [request[t] EXCEPT !.pc = "fold", !.mastery = mastery])

\* The score is folded into what was read, and stored, in one commit.
Fold(t) ==
    /\ At(t, "fold")
    /\ LET n == request[t].ordinal IN
           /\ mastery' = [request[t].mastery EXCEPT ![n] = @ + 1]
           /\ attempts' = [attempts EXCEPT ![n].scored = TRUE]
    /\ Step(t, Idle)
    /\ UNCHANGED <<ended, jobVars, rejected, workVars, historyVars, faultVars>>

\* POST .../end.
End == /\ up /\ ~ended /\ ended' = TRUE
       /\ UNCHANGED <<attempts, mastery, jobVars, rejected, workVars, request, historyVars,
                      faultVars>>
-----------------------------------------------------------------------------
(* run_live_job, and the world around it. *)

Claim(j) ==
    /\ up /\ j \in tasks
    /\ tasks' = tasks \ {j}
    /\ \/ /\ status[j] = "queued"
          /\ Becomes(j, "running")
          /\ wpc' = [wpc EXCEPT ![j] = "generate"]
       \/ /\ status[j] # "queued"
          /\ UNCHANGED <<status, waited, wpc>>
    /\ UNCHANGED <<ended, attempts, mastery, question, attemptOf, rejected, request,
                   historyVars, faultVars>>

\* The worker of job j is done with it.
Leave(j) ==
    /\ up /\ wpc[j] = "generate"
    /\ wpc' = [wpc EXCEPT ![j] = "idle"]
    /\ UNCHANGED <<ended, attempts, mastery, attemptOf, rejected, tasks, request,
                   historyVars, up, crashes>>

\* Mutant: a worker whose job has expired stores its question and leaves the job.
FinishIfRunning(j) ==
    /\ Leave(j)
    /\ question' = [question EXCEPT ![j] = TRUE]
    /\ IF status[j] = "running" THEN Becomes(j, "done") ELSE UNCHANGED <<status, waited>>
    /\ UNCHANGED faults

\* The question and DONE, in one commit, whatever the job has become.
Finish(j) ==
    /\ Leave(j)
    /\ question' = [question EXCEPT ![j] = TRUE]
    /\ Becomes(j, "done")
    /\ UNCHANGED faults

\* No usable draft, a provider error, or a commit that raised.
Fail(j) == Leave(j) /\ Becomes(j, "failed") /\ UNCHANGED <<question, faults>>

\* The failure cannot be recorded either: the job stays running.
FailLost(j) ==
    /\ Leave(j) /\ faults < MaxFaults
    /\ faults' = faults + 1
    /\ UNCHANGED <<status, question, waited>>

\* The time limit of the latest job passes: ten minutes in flight, five once
\* failed.  That of an earlier job is not looked at.
Elapse(j) ==
    /\ status[j] \in InFlight \cup {"failed"} /\ ~waited[j]
    /\ Created = 1..j
    /\ waited' = [waited EXCEPT ![j] = TRUE]
    /\ UNCHANGED <<ended, attempts, mastery, status, question, attemptOf, rejected, workVars,
                   request, historyVars, faultVars>>

\* The professor rejects a live question from the review queue.
Reject(j) ==
    /\ up /\ question[j] /\ j \notin rejected
    /\ rejected' = rejected \cup {j}
    /\ UNCHANGED <<ended, attempts, mastery, jobVars, workVars, request, historyVars, faultVars>>

\* The process stops.  fail_interrupted_jobs leaves live jobs alone: the next
\* request runs a queued one again, and fails a running one in time.
Crash ==
    /\ up /\ crashes < MaxCrashes
    /\ up' = FALSE /\ crashes' = crashes + 1
    /\ tasks' = {}
    /\ wpc' = [j \in Job |-> "idle"]
    /\ request' = [t \in Tab |-> Idle]
    /\ UNCHANGED <<ended, attempts, mastery, jobVars, rejected, historyVars, faults>>

Recover == /\ ~up /\ up' = TRUE
           /\ UNCHANGED <<ended, attempts, mastery, jobVars, rejected, workVars, request,
                          historyVars, crashes, faults>>
-----------------------------------------------------------------------------
Serving(t) == \/ Resume(t) \/ FindReady(t) \/ Place(t) \/ FindActive(t) \/ Draw(t)
              \/ CompleteCurriculum(t) \/ Serve(t) \/ Create(t) \/ Expire(t)
              \/ DropRejected(t) \/ Respond(t)

Answering(t) == Grade(t) \/ Fold(t)

Working(j) == Claim(j) \/ Finish(j) \/ Fail(j)

Next == \/ \E t \in Tab : \/ \E force \in BOOLEAN : Ask(t, force)
                          \/ \E n \in Ordinal : Answer(t, n)
                          \/ Serving(t) \/ Answering(t)
        \/ \E j \in Job : Working(j) \/ FailLost(j) \/ Elapse(j) \/ Reject(j)
        \/ End \/ Crash \/ Recover

Spec == Init /\ [][Next]_liveVars
-----------------------------------------------------------------------------
(* Properties. *)

\* The values of the rows, of the workers and of the requests; attempt_id is
\* the last attempt made from the job's question.
LiveTypeOK ==
    /\ ended \in BOOLEAN
    /\ attempts \in Seq([job : {0} \cup Job, scored : BOOLEAN])
    /\ Len(attempts) <= MaxAttempts
    /\ mastery \in [Ordinal -> 0..Cardinality(Tab)]
    /\ status \in [Job -> {"none", "done", "failed"} \cup InFlight]
    /\ question \in [Job -> BOOLEAN]
    /\ attemptOf \in [Job -> {0} \cup Ordinal]
    /\ \A j \in Job : attemptOf[j] = IF Serves(j) = {} THEN 0 ELSE Max(Serves(j))
    /\ waited \in [Job -> BOOLEAN]
    /\ rejected \subseteq {j \in Job : question[j]}
    /\ tasks \subseteq Created
    /\ wpc \in [Job -> {"idle", "generate"}]
    /\ \A t \in Tab : /\ request[t].job \in {0} \cup Created
                      /\ request[t].pc = "serve" /\ request[t].job # 0
                         => question[request[t].job]

\* At most one live job of a session is in flight, however many tabs poll: a
\* second would pay for a second question.
OneLiveJob == Cardinality(Active) <= 1

\* One request at a time: at most one attempt is open, a live question is served
\* at most once, and mastery holds every answered attempt once and no other,
\* whatever workers, expiries and crashes do meanwhile.
FoldedOnce(n) == mastery[n] = IF n \in DOMAIN attempts /\ attempts[n].scored THEN 1 ELSE 0
OnceWhenAlone ==
    ~overlapped => /\ Cardinality(Open) <= 1
                   /\ \A j \in Job : Cardinality(Serves(j)) <= 1
                   /\ \A n \in Ordinal : FoldedOnce(n)

\* However many tabs, an attempt that is answered stays answered, and a question
\* served stays at its ordinal.
AnswersStand ==
    [][\A n \in DOMAIN attempts :
           /\ n \in DOMAIN attempts'
           /\ attempts'[n].job = attempts[n].job
           /\ attempts[n].scored => attempts'[n].scored]_liveVars

\* A live question that was stored is served, or will be to the next request that
\* finds nothing open, or was rejected: it is lost only to an expiry that read
\* its job before it was done.
NoLiveQuestionLost ==
    \A j \in Job : question[j] => \/ attemptOf[j] # 0 \/ status[j] = "done"
                                  \/ j \in rejected \/ j \in lateExpiry

\* A student told that the curriculum is complete has a session that has ended
\* ("The session is ended alongside this error rather than left open with no way
\* to serve again", errors.py:214).
CompletedSessionEnds == told => ended
=============================================================================
