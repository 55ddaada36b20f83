------------------------------ MODULE JudgeRuns ------------------------------
(***************************************************************************)
(* Judging the question bank again.  A run is submitted as one provider    *)
(* job per metric and chunk of the bank, and only then stored; the         *)
(* collector thread and the professor's button poll it, each on a session  *)
(* of its own.  A poll loads the run's row, asks the provider about every  *)
(* job, reads which questions are recorded, records the others one commit  *)
(* at a time, and writes the counts and the status last, from the row it   *)
(* loaded first (expire_on_commit is off).                                 *)
(***************************************************************************)
EXTENDS Naturals, Sequences, FiniteSetsExt

CONSTANTS
    Run,        \* the runs that may be submitted, by run_id
    Question,   \* the eligible bank, by question id
    Metric,     \* the judges' panel
    Plan,       \* the provider jobs of a run: a metric and a chunk of questions each
    Poller,     \* who polls; Collector is the thread, the others press the button
    Collector,
    MaxBad,     \* bound on the provider jobs that give up or leave an error line
    Generated,  \* the questions whose generation left a judgement
    MaxFaults   \* bound on the calls and commits that raise and on process stops

Batch == DOMAIN Plan

ASSUME JudgeAssumption ==
    /\ Question \subseteq Nat /\ IsFiniteSet(Question) /\ Metric # {}
    /\ Plan \in Seq([metric : Metric, questions : SUBSET Question])
    /\ \A m \in Metric, q \in Question :
           \E b \in Batch : Plan[b].metric = m /\ q \in Plan[b].questions
    /\ Collector \in Poller
    /\ Generated \subseteq Question
    /\ {MaxBad, MaxFaults} \subseteq Nat

VARIABLES
    submitting, sent,         \* submissions under way, and how many jobs each has sent
    provider, line,           \* the provider: the state of a job, the line of a request
    status, judged, failed,   \* columns of the run's row
    history,                  \* question_evaluations: the status recorded, or "none"
    current,                  \* questions.pedagogical_eval: its status
    poll,                     \* per poller: the step and the locals of its poll
    \* history: evaluations made with a line of every metric, runs whose polls
    \* overlapped or stopped half-way
    whole, disturbed,
    bad, faults

rowVars == <<status, judged, failed>>
evalVars == <<history, current, whole>>
submitVars == <<submitting, sent>>
providerVars == <<provider, line, bad>>
judgeVars == <<submitVars, providerVars, rowVars, evalVars, poll, disturbed, faults>>

GaveUp == {"failed", "expired"}
Terminal == GaveUp \cup {"completed"}
Unfinished == {"submitted", "in_progress"}
Informative == {"completed", "partial"}

NoLines == [m \in Metric |-> [q \in Question |-> "none"]]
NoJobs == [b \in Batch |-> "none"]
Idle == [pc |-> "idle"]

Init == /\ submitting = {}
        /\ sent = [r \in Run |-> 0]
        /\ provider = [r \in Run |-> [b \in Batch |-> "none"]]
        /\ line = [r \in Run |-> NoLines]
        /\ status = [r \in Run |-> "none"]
        /\ judged = [r \in Run |-> 0]
        /\ failed = [r \in Run |-> 0]
        /\ history = [r \in Run |-> [q \in Question |-> "none"]]
        /\ current = [q \in Question |-> IF q \in Generated THEN "completed" ELSE "none"]
        /\ poll = [p \in Poller |-> Idle]
        /\ whole = {}
        /\ disturbed = {}
        /\ bad = 0 /\ faults = 0

Recorded(r) == {q \in Question : history[r][q] # "none"}
-----------------------------------------------------------------------------
(* POST /evaluation/batch-runs. *)

\* submit_judge_run: no run of the course is being judged.
Submit(r) ==
    /\ r \notin submitting /\ sent[r] = 0
    /\ \A s \in Run : status[s] \notin Unfinished
    /\ submitting' = submitting \cup {r}
    /\ UNCHANGED <<sent, providerVars, rowVars, evalVars, poll, disturbed, faults>>

\* submit_batch: the next job of the run is at the provider.
Send(r) ==
    /\ r \in submitting /\ sent[r] < Len(Plan)
    /\ sent' = [sent EXCEPT ![r] = @ + 1]
    /\ provider' = [provider EXCEPT ![r][sent'[r]] = "running"]
    /\ UNCHANGED <<submitting, line, bad, rowVars, evalVars, poll, disturbed, faults>>

\* The row, once every job is sent.
Store(r) ==
    /\ r \in submitting /\ sent[r] = Len(Plan)
    /\ submitting' = submitting \ {r}
    /\ status' = [status EXCEPT ![r] = "submitted"]
    /\ UNCHANGED <<sent, providerVars, judged, failed, evalVars, poll, disturbed,
                   faults>>

\* The provider refuses a job, or the commit raises: the jobs sent stay paid for
\* and belong to no run.
SubmitRaises(r) ==
    /\ r \in submitting /\ faults < MaxFaults
    /\ submitting' = submitting \ {r}
    /\ faults' = faults + 1
    /\ UNCHANGED <<sent, providerVars, rowVars, evalVars, poll, disturbed>>
-----------------------------------------------------------------------------
(* The provider. *)

\* Job b of run r ends as x: the questions in `ok` got an answer, those in
\* `error` an error line, and the others of its chunk no line.
ProviderEnds(r, b, x, ok, error) ==
    /\ provider[r][b] = "running"
    /\ provider' = [provider EXCEPT ![r][b] = x]
    /\ line' = [line EXCEPT ![r][Plan[b].metric] =
                    [q \in Question |-> CASE q \in ok -> "ok"
                                          [] q \in error -> "error"
                                          [] OTHER -> @[q]]]
    /\ UNCHANGED <<submitVars, rowVars, evalVars, poll, disturbed, faults>>

\* A completed job answers every question, some with an error line; one that
\* gave up (failed, expired, cancelled) left any of its lines behind.
Answers(r, b) ==
    \E error \in SUBSET Plan[b].questions :
        /\ bad' = IF error = {} THEN bad ELSE bad + 1
        /\ bad' <= MaxBad
        /\ ProviderEnds(r, b, "completed", Plan[b].questions \ error, error)

GivesUp(r, b) ==
    /\ bad < MaxBad /\ bad' = bad + 1
    /\ \E x \in GaveUp, ok \in SUBSET Plan[b].questions :
           \E error \in SUBSET (Plan[b].questions \ ok) : ProviderEnds(r, b, x, ok, error)
-----------------------------------------------------------------------------
(* poll_and_ingest. *)

\* Mutant: one job that completed completes the run.
RunStatusOfAny(jobs) ==
    CASE \E b \in Batch : jobs[b] = "expired" -> "expired"
      [] \E b \in Batch : jobs[b] = "failed" -> "failed"
      [] \E b \in Batch : jobs[b] = "completed" -> "completed"
      [] OTHER -> "in_progress"

\* _run_status: one job that gave up ends the run.
RunStatus(jobs) ==
    CASE \E b \in Batch : jobs[b] = "expired" -> "expired"
      [] (\E b \in Batch : jobs[b] = "failed") /\ (\A b \in Batch : jobs[b] # "expired")
           -> "failed"
      [] \A b \in Batch : jobs[b] = "completed" -> "completed"
      [] OTHER -> "in_progress"

Missing(lines, q) == {m \in Metric : lines[m][q] = "none"}

\* The questions a poll has still to record: some line of theirs has come, and
\* every metric's has unless the run has ended.
Due(w) == {q \in Question \ w.already :
              /\ Missing(w.lines, q) # Metric
              /\ Missing(w.lines, q) = {} \/ RunStatus(w.jobs) \in Terminal}

\* evaluation_from_metrics.
Evaluation(lines, q) ==
    LET answered == {m \in Metric : lines[m][q] = "ok"}
    IN CASE answered = {} -> "error"
         [] answered = Metric -> "completed"
         [] OTHER -> "partial"

\* Mutant: the latest evaluation is always the current one.
AlwaysCurrent(existing, incoming) == TRUE

MayBecomeCurrent(existing, incoming) == incoming \in Informative \/ existing \notin Informative

At(p, pc) == poll[p].pc = pc
Step(p, w) == poll' = [poll EXCEPT ![p] = w]

\* Mutant: a run that was found in progress is not polled again.
LoadSubmitted(p, r) ==
    /\ At(p, "idle")
    /\ status[r] = "submitted"
    /\ Step(p, [pc |-> "fetch", run |-> r,
                status |-> status[r], judged |-> judged[r], failed |-> failed[r],
                jobs |-> NoJobs, lines |-> NoLines, already |-> {},
                ingested |-> 0, errors |-> 0])
    /\ UNCHANGED <<submitVars, providerVars, rowVars, evalVars, disturbed, faults>>

\* The run's row is loaded; one that failed or expired is not polled again.
Load(p, r) ==
    /\ At(p, "idle")
    /\ status[r] \notin GaveUp \cup {"none"}
    /\ Step(p, [pc |-> "fetch", run |-> r,
                status |-> status[r], judged |-> judged[r], failed |-> failed[r],
                jobs |-> NoJobs, lines |-> NoLines, already |-> {},
                ingested |-> 0, errors |-> 0])
    /\ disturbed' = IF \E o \in Poller \ {p} : poll[o].pc # "idle" /\ poll[o].run = r
                    THEN disturbed \cup {r} ELSE disturbed
    /\ UNCHANGED <<submitVars, providerVars, rowVars, evalVars, faults>>

\* fetch_status of every job.
Fetch(p) ==
    /\ At(p, "fetch")
    /\ LET r == poll[p].run IN
           Step(p, [poll[p] EXCEPT !.pc = "already", !.jobs = provider[r], !.lines = line[r]])
    /\ UNCHANGED <<submitVars, providerVars, rowVars, evalVars, disturbed, faults>>

\* question_ids_for_run.
ReadAlready(p) ==
    /\ At(p, "already")
    /\ Step(p, [poll[p] EXCEPT !.pc = "record", !.already = Recorded(poll[p].run)])
    /\ UNCHANGED <<submitVars, providerVars, rowVars, evalVars, disturbed, faults>>

\* record_evaluation of the next question, and its commit.  A question recorded
\* meanwhile breaks the unique constraint, and the poll raises.
Record(p) ==
    LET w == poll[p]
        r == w.run
        q == Min(Due(w))
        e == Evaluation(w.lines, q)
    IN /\ At(p, "record") /\ Due(w) # {}
       /\ \/ /\ q \notin Recorded(r)
             /\ history' = [history EXCEPT ![r][q] = e]
             /\ current' = IF MayBecomeCurrent(current[q], e)
                           THEN [current EXCEPT ![q] = e] ELSE current
             /\ whole' = IF Missing(w.lines, q) = {} THEN whole \cup {<<r, q>>} ELSE whole
             /\ Step(p, IF e \in Informative
                        THEN [w EXCEPT !.already = @ \cup {q}, !.ingested = @ + 1]
                        ELSE [w EXCEPT !.already = @ \cup {q}, !.errors = @ + 1])
          \/ /\ q \in Recorded(r)
             /\ Step(p, Idle)
             /\ UNCHANGED evalVars
       /\ UNCHANGED <<submitVars, providerVars, rowVars, disturbed, faults>>

\* Mutant: the counts are those of this poll.
CloseCountsAfresh(p) ==
    LET w == poll[p]
        r == w.run
    IN /\ At(p, "record") /\ Due(w) = {}
       /\ judged' = [judged EXCEPT ![r] = w.ingested]
       /\ failed' = [failed EXCEPT ![r] = w.errors]
       /\ status' = [status EXCEPT ![r] = RunStatus(w.jobs)]
       /\ Step(p, Idle)
       /\ UNCHANGED <<submitVars, providerVars, evalVars, disturbed, faults>>

\* The counts and the status, from the row as it was loaded: a column this poll
\* leaves as it loaded it is not written.
Close(p) ==
    LET w == poll[p]
        r == w.run
    IN /\ At(p, "record") /\ Due(w) = {}
       /\ judged' = IF w.ingested = 0 THEN judged
                    ELSE [judged EXCEPT ![r] = w.judged + w.ingested]
       /\ failed' = IF w.errors = 0 THEN failed
                    ELSE [failed EXCEPT ![r] = w.failed + w.errors]
       /\ status' = IF RunStatus(w.jobs) = w.status THEN status
                    ELSE [status EXCEPT ![r] = RunStatus(w.jobs)]
       /\ Step(p, Idle)
       /\ UNCHANGED <<submitVars, providerVars, evalVars, disturbed, faults>>

\* What a poll that stops now leaves uncounted.
HalfDone(p) == IF At(p, "record") /\ poll[p].ingested + poll[p].errors > 0
               THEN {poll[p].run} ELSE {}

\* The provider, or a commit, raises: the route answers with the error, and the
\* collector leaves the run for its next pass.
Raise(p) ==
    /\ ~At(p, "idle") /\ faults < MaxFaults
    /\ faults' = faults + 1
    /\ disturbed' = disturbed \cup HalfDone(p)
    /\ Step(p, Idle)
    /\ UNCHANGED <<submitVars, providerVars, rowVars, evalVars>>

\* The process stops and starts again; the start-up recovery has nothing to do
\* for judge runs, since the collector picks them up.
Restart ==
    /\ faults < MaxFaults /\ faults' = faults + 1
    /\ submitting' = {}
    /\ disturbed' = disturbed \cup UNION {HalfDone(p) : p \in Poller}
    /\ poll' = [p \in Poller |-> Idle]
    /\ UNCHANGED <<sent, providerVars, rowVars, evalVars>>
-----------------------------------------------------------------------------
Submission(r) == Submit(r) \/ Send(r) \/ Store(r) \/ SubmitRaises(r)
Provider(r, b) == Answers(r, b) \/ GivesUp(r, b)
PollOn(p) == Fetch(p) \/ ReadAlready(p) \/ Record(p) \/ Close(p)

\* A pass of the collector reaches every unfinished run.
Collect(r) == status[r] \in Unfinished /\ Load(Collector, r)

Next == \/ \E r \in Run : \/ Submission(r)
                          \/ \E b \in Batch : Provider(r, b)
                          \/ \E p \in Poller : Load(p, r)
        \/ \E p \in Poller : PollOn(p) \/ Raise(p)
        \/ Restart

\* The provider ends every job within a day, the collector's thread goes on, and
\* its passes come back to every unfinished run.  The professor's polls owe nothing.
Fairness == /\ \A r \in Run : WF_judgeVars(\E b \in Batch : Provider(r, b))
            /\ WF_judgeVars(PollOn(Collector))
            /\ \A r \in Run : SF_judgeVars(Collect(r))

Spec == Init /\ [][Next]_judgeVars
FairSpec == Spec /\ Fairness
-----------------------------------------------------------------------------
(* Properties. *)

\* The values of the rows and of the polls.  A row names every job of its run
\* (provider_batch_ids), and no poll takes a question for recorded that is not.
JudgeTypeOK ==
    /\ submitting \subseteq Run
    /\ sent \in [Run -> 0..Len(Plan)]
    /\ provider \in [Run -> [Batch -> {"none", "running", "completed"} \cup GaveUp]]
    /\ line \in [Run -> [Metric -> [Question -> {"none", "ok", "error"}]]]
    /\ status \in [Run -> {"none"} \cup Unfinished \cup Terminal]
    /\ judged \in [Run -> 0..Cardinality(Question)]
    /\ failed \in [Run -> 0..Cardinality(Question)]
    /\ history \in [Run -> [Question -> {"none", "error"} \cup Informative]]
    /\ current \in [Question -> {"none", "error"} \cup Informative]
    /\ \A r \in Run : status[r] # "none" => sent[r] = Len(Plan)
    /\ \A p \in Poller : poll[p].pc # "idle" =>
           poll[p].already \subseteq Recorded(poll[p].run)

\* The counts the Jobs page shows are those of the history: never more, and
\* exactly those once no poll is at work, unless two polls of the run overlapped
\* or one stopped half-way.
Judged(r) == {q \in Question : history[r][q] \in Informative}
Erred(r) == {q \in Question : history[r][q] = "error"}
Polled(r) == \E p \in Poller : poll[p].pc # "idle" /\ poll[p].run = r

CountsMatchHistory ==
    \A r \in Run : /\ judged[r] <= Cardinality(Judged(r))
                   /\ failed[r] <= Cardinality(Erred(r))
                   /\ r \notin disturbed /\ ~Polled(r) =>
                          /\ judged[r] = Cardinality(Judged(r))
                          /\ failed[r] = Cardinality(Erred(r))

\* A question is recorded without one of its metrics only in a run one of whose
\* jobs gave up, never because its lines were still on their way; and a run is
\* completed only once every question of it is recorded from every metric's line,
\* whichever poll wrote the status.
RecordedWhole ==
    \A r \in Run, q \in Question :
        /\ q \in Recorded(r) => \/ <<r, q>> \in whole
                                \/ \E b \in Batch : provider[r][b] \in GaveUp
        /\ status[r] = "completed" => <<r, q>> \in whole

\* A question that was judged, at its generation or by a run, keeps a judgement: a
\* run that could not reach the model never blanks it.
JudgementKept ==
    \A q \in Question :
        q \in Generated \/ (\E r \in Run : q \in Judged(r)) => current[q] \in Informative

\* What a poll records is whole and stays.
JudgedForGood == RecordedWhole /\ JudgementKept

\* Every run comes to an end and stays there, though a poll that started earlier
\* may put it back in progress for a while.
RunsSettle ==
    \A r \in Run : status[r] # "none" ~> [](status[r] \in Terminal)

\* A run that failed or expired has no job the provider still works on ("A failed
\* or expired run has nothing left to collect; re-polling it would only re-ask the
\* provider about a job it already gave up on", batch_service.py:417).
NothingLeftToCollect ==
    \A r \in Run, b \in Batch : status[r] \in GaveUp => provider[r][b] # "running"
=============================================================================
