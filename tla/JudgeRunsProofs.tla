--------------------------- MODULE JudgeRunsProofs ---------------------------
(***************************************************************************)
(* What is proved of the judge runs: the counts of a run are those of its  *)
(* history unless two of its polls overlapped or one stopped half-way, and *)
(* what a poll records is whole and stays.                                 *)
(*                                                                         *)
(* A poll works on copies: of the run's row, of the provider's answers, of *)
(* the questions recorded.  The invariant says what these copies are worth *)
(* while others write: a job that ended stays as it was seen, a question   *)
(* recorded stays recorded, the counts never exceed the history; and only  *)
(* the poll that is alone on its run knows that they are the history.      *)
(***************************************************************************)
EXTENDS JudgeRuns, FoldLemmas

JobStates == {"none", "running", "completed"} \cup GaveUp
LineStates == {"none", "ok", "error"}
RunStates == {"none"} \cup Unfinished \cup Terminal
Marks == {"none", "error"} \cup Informative
Polls == [pc : {"fetch", "already", "record"}, run : Run, status : RunStates, judged : Nat,
          failed : Nat, jobs : [Batch -> JobStates], lines : [Metric -> [Question -> LineStates]],
          already : SUBSET Question, ingested : Nat, errors : Nat]

JudgeTypes ==
    /\ submitting \subseteq Run /\ sent \in [Run -> 0..Len(Plan)]
    /\ provider \in [Run -> [Batch -> JobStates]]
    /\ line \in [Run -> [Metric -> [Question -> LineStates]]]
    /\ status \in [Run -> RunStates] /\ judged \in [Run -> Nat] /\ failed \in [Run -> Nat]
    /\ history \in [Run -> [Question -> Marks]] /\ current \in [Question -> Marks]
    /\ poll \in [Poller -> Polls \cup {Idle}]

\* A job of a run is at the provider once it is sent; a stored run sent them all.
SentInv ==
    /\ \A r \in Run, b \in Batch : b > sent[r] => provider[r][b] = "none"
    /\ \A r \in Run : status[r] # "none" => sent[r] = Len(Plan)

\* A job that completed has a line of every question of its chunk.
Answered(jobs, lines) ==
    \A b \in Batch : jobs[b] = "completed" =>
        \A q \in Plan[b].questions : lines[Plan[b].metric][q] # "none"

AllAnswered == \A r \in Run : Answered(provider[r], line[r])

\* What a poll remembers of the provider and of the history is still so.
Remembers(w) ==
    /\ sent[w.run] = Len(Plan)
    /\ w.already \subseteq Recorded(w.run)
    /\ \A b \in Batch : w.jobs[b] \in Terminal => provider[w.run][b] = w.jobs[b]
    /\ Answered(w.jobs, w.lines)
    /\ w.pc # "record" => w.ingested = 0 /\ w.errors = 0
    /\ w.judged + w.ingested <= Cardinality(Judged(w.run))
    /\ w.failed + w.errors <= Cardinality(Erred(w.run))

\* The only poll of a run nobody disturbed has recorded all that the counts lack.
Alone(w) ==
    w.run \notin disturbed =>
        /\ judged[w.run] = w.judged /\ failed[w.run] = w.failed
        /\ w.judged + w.ingested = Cardinality(Judged(w.run))
        /\ w.failed + w.errors = Cardinality(Erred(w.run))
        /\ w.pc = "record" => w.already = Recorded(w.run)

Knows(w) == w # Idle => Remembers(w) /\ Alone(w)

\* Two polls of one run have disturbed it.
Apart ==
    \A p, o \in Poller : p # o /\ poll[p] # Idle /\ poll[o] # Idle /\ poll[p].run = poll[o].run
        => poll[p].run \in disturbed

JudgeInv ==
    /\ JudgeTypes /\ SentInv /\ AllAnswered
    /\ (\A p \in Poller : Knows(poll[p])) /\ Apart
    /\ CountsMatchHistory /\ RecordedWhole /\ JudgementKept
-----------------------------------------------------------------------------
(***************************************************************************)
(* The plan, the history's counts and the locals of a poll.                *)
(***************************************************************************)
LEMMA PlanFacts ==
    ASSUME JudgeAssumption
    PROVE  /\ Len(Plan) \in Nat /\ Batch = 1..Len(Plan)
           /\ \A b \in Batch : Plan[b].metric \in Metric /\ Plan[b].questions \subseteq Question
<1>1. Plan \in Seq([metric : Metric, questions : SUBSET Question])
  BY DEF JudgeAssumption
<1>2. Len(Plan) \in Nat /\ Batch = 1..Len(Plan)
  BY <1>1 DEF Batch
<1>3. ASSUME NEW b \in Batch PROVE Plan[b].metric \in Metric /\ Plan[b].questions \subseteq Question
  <2> DEFINE Job == [metric : Metric, questions : SUBSET Question]
  <2>1. \A x \in Job : x.metric \in Metric /\ x.questions \subseteq Question
    OBVIOUS
  <2> HIDE DEF Job
  <2>2. Plan[b] \in Job
    <3>1. Plan \in Seq(Job) /\ b \in 1..Len(Plan)
      BY <1>1, <1>2 DEF Job
    <3> QED
      BY <3>1
  <2> QED
    BY <2>1, <2>2
<1> QED
  BY <1>2, <1>3

\* A poll that is at work is a record of its locals.
LEMMA AtWork ==
    ASSUME JudgeTypes, NEW p \in Poller
    PROVE  /\ (poll[p].pc # "idle") <=> (poll[p] # Idle)
           /\ (poll[p] # Idle) => poll[p] \in Polls
<1>1. poll[p] \in Polls \cup {Idle}
  BY DEF JudgeTypes
<1>2. poll[p] \in Polls => poll[p].pc # "idle"
  BY DEF Polls
<1>3. Idle.pc = "idle"
  BY DEF Idle
<1> QED
  BY <1>1, <1>2, <1>3

\* The counts of the history are numbers, no larger than the bank.
LEMMA CountsAreNat ==
    ASSUME JudgeAssumption, NEW r \in Run
    PROVE  /\ IsFiniteSet(Judged(r)) /\ IsFiniteSet(Erred(r))
           /\ Cardinality(Judged(r)) \in Nat /\ Cardinality(Erred(r)) \in Nat
           /\ Cardinality(Question) \in Nat
           /\ Cardinality(Judged(r)) <= Cardinality(Question)
           /\ Cardinality(Erred(r)) <= Cardinality(Question)
<1>1. Judged(r) \in SUBSET Question /\ Erred(r) \in SUBSET Question
  BY DEF Judged, Erred
<1>2. IsFiniteSet(Question)
  BY DEF JudgeAssumption
<1>3. IsFiniteSet(Judged(r)) /\ Cardinality(Judged(r)) <= Cardinality(Question)
  BY <1>1, <1>2, FS_Subset
<1>4. IsFiniteSet(Erred(r)) /\ Cardinality(Erred(r)) <= Cardinality(Question)
  BY <1>1, <1>2, FS_Subset
<1> QED
  BY <1>2, <1>3, <1>4, FS_CardinalityType

\* What the status computed from the jobs says of them.
LEMMA StatusSays ==
    ASSUME NEW jobs \in [Batch -> JobStates]
    PROVE  /\ RunStatus(jobs) \in {"in_progress"} \cup Terminal
           /\ RunStatus(jobs) = "completed" => \A b \in Batch : jobs[b] = "completed"
           /\ RunStatus(jobs) \in GaveUp => \E b \in Batch : jobs[b] \in GaveUp
<1>1. CASE \E b \in Batch : jobs[b] = "expired"
  BY <1>1 DEF RunStatus, Terminal, GaveUp
<1>2. CASE (\A b \in Batch : jobs[b] # "expired") /\ \E b \in Batch : jobs[b] = "failed"
  BY <1>2 DEF RunStatus, Terminal, GaveUp
<1>3. CASE /\ \A b \in Batch : jobs[b] # "expired" /\ jobs[b] # "failed"
           /\ \A b \in Batch : jobs[b] = "completed"
  BY <1>3 DEF RunStatus, Terminal, GaveUp
<1>4. CASE /\ \A b \in Batch : jobs[b] # "expired" /\ jobs[b] # "failed"
           /\ \E b \in Batch : jobs[b] # "completed"
  BY <1>4 DEF RunStatus, Terminal, GaveUp
<1> QED
  BY <1>1, <1>2, <1>3, <1>4

\* Once every job of the plan completed no question lacks a line.
LEMMA NoneMissing ==
    ASSUME JudgeAssumption, NEW jobs, NEW lines, Answered(jobs, lines),
           \A b \in Batch : jobs[b] = "completed", NEW q \in Question
    PROVE  Missing(lines, q) = {}
<1>1. ASSUME NEW m \in Metric PROVE lines[m][q] # "none"
  <2>1. PICK b \in Batch : Plan[b].metric = m /\ q \in Plan[b].questions
    BY DEF JudgeAssumption
  <2> QED
    BY <2>1 DEF Answered
<1> QED
  BY <1>1 DEF Missing

\* A poll of no run says nothing; what one knows depends on the run's columns, its
\* history and the provider's answers only.
LEMMA KnowsFrame ==
    ASSUME NEW w, Knows(w),
           UNCHANGED <<judged, failed, history>>, sent'[w.run] = sent[w.run],
           w.run \in disturbed => w.run \in disturbed',
           \A b \in Batch : provider[w.run][b] \in Terminal =>
                                provider'[w.run][b] = provider[w.run][b]
    PROVE  Knows(w)'
<1> SUFFICES ASSUME w # Idle PROVE Remembers(w)' /\ Alone(w)'
  BY DEF Knows
<1>1. Remembers(w) /\ Alone(w)
  BY DEF Knows
<1>2. /\ Recorded(w.run)' = Recorded(w.run) /\ Judged(w.run)' = Judged(w.run)
      /\ Erred(w.run)' = Erred(w.run)
  BY DEF Recorded, Judged, Erred
<1>3. Remembers(w)'
  BY <1>1, <1>2 DEF Remembers
<1>4. Alone(w)'
  BY <1>1, <1>2 DEF Alone
<1> QED
  BY <1>3, <1>4

\* The initial state.
LEMMA JudgeInit == ASSUME JudgeAssumption, Init PROVE JudgeInv
<1>1. JudgeTypes
  <2>1. Len(Plan) \in Nat
    BY PlanFacts
  <2> QED
    BY <2>1 DEF Init, JudgeTypes, JobStates, LineStates, RunStates, Marks, Informative, NoLines,
                JudgeAssumption
<1>2. SentInv /\ AllAnswered
  BY DEF Init, SentInv, AllAnswered, Answered
<1>3. (\A p \in Poller : Knows(poll[p])) /\ Apart
  BY DEF Init, Knows, Apart
<1>4. ASSUME NEW r \in Run PROVE Judged(r) = {} /\ Erred(r) = {} /\ Recorded(r) = {}
  BY DEF Init, Judged, Erred, Recorded, Informative
<1>5. CountsMatchHistory
  <2>1. ASSUME NEW r \in Run
        PROVE  /\ judged[r] = 0 /\ failed[r] = 0
               /\ Cardinality(Judged(r)) = 0 /\ Cardinality(Erred(r)) = 0
    BY <1>4, FS_EmptySet DEF Init
  <2> QED
    BY <2>1 DEF CountsMatchHistory
<1>6. RecordedWhole
  BY <1>4 DEF Init, RecordedWhole
<1>7. JudgementKept
  BY <1>4 DEF Init, JudgementKept, Informative
<1> QED
  BY <1>1, <1>2, <1>3, <1>5, <1>6, <1>7 DEF JudgeInv
-----------------------------------------------------------------------------
(***************************************************************************)
(* Submissions and the provider.                                           *)
(***************************************************************************)
\* What a step that only moves jobs and statuses leaves as it was.
LEMMA Elsewhere ==
    ASSUME JudgeInv, UNCHANGED <<judged, failed, evalVars, poll, disturbed>>
    PROVE  /\ CountsMatchHistory' /\ JudgementKept' /\ Apart'
           /\ \A r \in Run : Recorded(r)' = Recorded(r)
<1>1. \A r \in Run : Judged(r)' = Judged(r) /\ Erred(r)' = Erred(r) /\ Recorded(r)' = Recorded(r)
  BY DEF evalVars, Judged, Erred, Recorded
<1>2. \A r \in Run : Polled(r)' = Polled(r)
  BY DEF Polled
<1>3. CountsMatchHistory'
  BY <1>1, <1>2 DEF JudgeInv, CountsMatchHistory
<1>4. JudgementKept'
  BY <1>1 DEF JudgeInv, JudgementKept, evalVars
<1>5. Apart'
  BY DEF JudgeInv, Apart
<1> QED
  BY <1>1, <1>3, <1>4, <1>5

\* Such a step keeps the invariant when no status becomes "completed" by it and
\* the jobs that ended stay as they are.
LEMMA JobsMove ==
    ASSUME JudgeInv, UNCHANGED <<judged, failed, evalVars, poll, disturbed>>,
           JudgeTypes', SentInv', AllAnswered',
           \A r \in Run : status'[r] = "completed" => status[r] = "completed",
           \A r \in Run : sent[r] = Len(Plan) => sent'[r] = sent[r],
           \A r \in Run, b \in Batch : provider[r][b] \in Terminal =>
                                           provider'[r][b] = provider[r][b]
    PROVE  JudgeInv'
<1>1. CountsMatchHistory' /\ JudgementKept' /\ Apart'
  BY Elsewhere
<1>2. \A r \in Run : Recorded(r)' = Recorded(r)
  BY Elsewhere
<1>3. RecordedWhole'
  <2>1. \A r \in Run, b \in Batch : provider[r][b] \in GaveUp => provider'[r][b] \in GaveUp
    BY DEF Terminal
  <2>2. ASSUME NEW r \in Run, NEW q \in Question, q \in Recorded(r)'
        PROVE  <<r, q>> \in whole' \/ \E b \in Batch : provider'[r][b] \in GaveUp
    BY <1>2, <2>1, <2>2 DEF JudgeInv, RecordedWhole, evalVars
  <2>3. ASSUME NEW r \in Run, NEW q \in Question, status'[r] = "completed"
        PROVE  <<r, q>> \in whole'
    BY <2>3 DEF JudgeInv, RecordedWhole, evalVars
  <2> QED
    BY <2>2, <2>3 DEF RecordedWhole
<1>4. ASSUME NEW p \in Poller PROVE Knows(poll[p])'
  <2>1. PICK w : w = poll[p]
    OBVIOUS
  <2>2. CASE w = Idle
    BY <2>1, <2>2 DEF Knows
  <2>3. CASE w # Idle
    <3>1. Knows(w) /\ w \in Polls
      BY <2>1, <2>3, AtWork DEF JudgeInv
    <3>2. w.run \in Run /\ sent[w.run] = Len(Plan)
      BY <3>1, <2>3 DEF Polls, Knows, Remembers
    <3>3. Knows(w)'
      BY <3>1, <3>2, KnowsFrame DEF evalVars
    <3>4. w = poll'[p]
      BY <2>1
    <3> QED
      BY <3>3, <3>4
  <2> QED
    BY <2>2, <2>3
<1> QED
  BY <1>1, <1>3, <1>4 DEF JudgeInv

LEMMA SubmitKeeps ==
    ASSUME JudgeAssumption, JudgeInv, NEW r \in Run, Submit(r) \/ SubmitRaises(r)
    PROVE  JudgeInv'
<1>1. UNCHANGED <<sent, provider, line, rowVars, evalVars, poll, disturbed>>
  BY DEF Submit, SubmitRaises, providerVars
<1>2. submitting' \subseteq Run
  BY DEF Submit, SubmitRaises, JudgeInv, JudgeTypes
<1>3. JudgeTypes'
  BY <1>1, <1>2 DEF JudgeInv, JudgeTypes, rowVars, evalVars
<1>4. SentInv' /\ AllAnswered'
  BY <1>1 DEF JudgeInv, SentInv, AllAnswered, rowVars
<1> QED
  BY <1>1, <1>3, <1>4, JobsMove DEF rowVars

LEMMA SendKeeps ==
    ASSUME JudgeAssumption, JudgeInv, NEW r \in Run, Send(r)
    PROVE  JudgeInv'
<1>1. PICK n : n = sent[r] + 1
  OBVIOUS
<1>2. JudgeTypes /\ SentInv /\ AllAnswered /\ Len(Plan) \in Nat /\ Batch = 1..Len(Plan)
  BY PlanFacts DEF JudgeInv
<1>3. /\ sent[r] \in Nat /\ sent[r] < Len(Plan) /\ n \in Batch
      /\ sent' = [sent EXCEPT ![r] = n] /\ sent'[r] = n
  BY <1>1, <1>2 DEF Send, JudgeTypes
<1>4. provider' = [provider EXCEPT ![r][n] = "running"]
  BY <1>3 DEF Send
<1>5. UNCHANGED <<submitting, line, rowVars, evalVars, poll, disturbed>>
  BY DEF Send
<1>6. provider[r][n] = "none"
  BY <1>1, <1>2, <1>3 DEF SentInv
<1>7. \A s \in Run, b \in Batch :
          provider'[s][b] = IF s = r /\ b = n THEN "running" ELSE provider[s][b]
  BY <1>2, <1>3, <1>4 DEF JudgeTypes
<1>8. \A s \in Run : sent'[s] = IF s = r THEN n ELSE sent[s]
  BY <1>2, <1>3 DEF JudgeTypes
<1>9. JudgeTypes'
  <2>1. provider' \in [Run -> [Batch -> JobStates]]
    BY <1>2, <1>3, <1>4 DEF JudgeTypes, JobStates
  <2>2. sent' \in [Run -> 0..Len(Plan)]
    BY <1>2, <1>3 DEF JudgeTypes
  <2> QED
    BY <1>2, <1>5, <2>1, <2>2 DEF JudgeTypes, rowVars, evalVars
<1>10. SentInv'
  <2>1. ASSUME NEW s \in Run, NEW b \in Batch, b > sent'[s] PROVE provider'[s][b] = "none"
    <3>1. sent[s] \in Nat /\ b \in Nat
      BY <1>2 DEF JudgeTypes
    <3>2. b > sent[s] /\ ~(s = r /\ b = n)
      BY <1>1, <1>3, <1>8, <2>1, <3>1
    <3> QED
      BY <1>2, <1>7, <3>2 DEF SentInv
  <2>2. status[r] = "none"
    BY <1>2, <1>3 DEF SentInv
  <2> QED
    BY <1>2, <1>5, <1>8, <2>1, <2>2 DEF SentInv, rowVars
<1>11. AllAnswered'
  BY <1>2, <1>5, <1>7 DEF AllAnswered, Answered
<1>12. \A s \in Run, b \in Batch : provider[s][b] \in Terminal => provider'[s][b] = provider[s][b]
  BY <1>6, <1>7 DEF Terminal, GaveUp
<1>13. \A s \in Run : sent[s] = Len(Plan) => sent'[s] = sent[s]
  BY <1>3, <1>8
<1> QED
  BY <1>5, <1>9, <1>10, <1>11, <1>12, <1>13, JobsMove DEF rowVars

LEMMA StoreKeeps ==
    ASSUME JudgeAssumption, JudgeInv, NEW r \in Run, Store(r)
    PROVE  JudgeInv'
<1>1. UNCHANGED <<sent, provider, line, judged, failed, evalVars, poll, disturbed>>
  BY DEF Store, providerVars
<1>2. /\ submitting' = submitting \ {r} /\ sent[r] = Len(Plan)
      /\ status' = [status EXCEPT ![r] = "submitted"]
  BY DEF Store
<1>3. JudgeTypes'
  <2>1. status' \in [Run -> RunStates] /\ submitting' \subseteq Run
    BY <1>2 DEF JudgeInv, JudgeTypes, RunStates, Unfinished
  <2> QED
    BY <1>1, <2>1 DEF JudgeInv, JudgeTypes, evalVars
<1>4. \A s \in Run : status'[s] = IF s = r THEN "submitted" ELSE status[s]
  BY <1>2 DEF JudgeInv, JudgeTypes
<1>5. SentInv' /\ AllAnswered'
  BY <1>1, <1>2, <1>4 DEF JudgeInv, SentInv, AllAnswered
<1>6. \A s \in Run : status'[s] = "completed" => status[s] = "completed"
  BY <1>4
<1> QED
  BY <1>1, <1>3, <1>5, <1>6, JobsMove

\* However a job ends, its lines are there with it.
LEMMA ProviderKeeps ==
    ASSUME JudgeAssumption, JudgeInv, NEW r \in Run, NEW b \in Batch, NEW x \in Terminal,
           NEW ok \in SUBSET Plan[b].questions, NEW error \in SUBSET Plan[b].questions,
           ProviderEnds(r, b, x, ok, error),
           x = "completed" => ok \cup error = Plan[b].questions
    PROVE  JudgeInv'
<1>1. UNCHANGED <<submitting, sent, rowVars, evalVars, poll, disturbed>>
  BY DEF ProviderEnds, submitVars
<1>2. JudgeTypes /\ SentInv /\ AllAnswered
  BY DEF JudgeInv
<1>3. PICK m \in Metric : m = Plan[b].metric
  BY PlanFacts
<1>4. provider[r][b] = "running" /\ provider' = [provider EXCEPT ![r][b] = x]
  BY DEF ProviderEnds
<1>5. \A s \in Run, c \in Batch :
          provider'[s][c] = IF s = r /\ c = b THEN x ELSE provider[s][c]
  BY <1>2, <1>4 DEF JudgeTypes
<1>6. PICK row : row = [q \in Question |-> CASE q \in ok -> "ok"
                                             [] q \in error -> "error"
                                             [] OTHER -> line[r][m][q]]
  OBVIOUS
<1>7. line' = [line EXCEPT ![r][m] = row]
  BY <1>3, <1>6 DEF ProviderEnds
<1>8. row \in [Question -> LineStates]
  <2>1. \A q \in Question : line[r][m][q] \in LineStates
    BY <1>2 DEF JudgeTypes
  <2> QED
    BY <1>6, <2>1 DEF LineStates
<1>9. \A s \in Run, n \in Metric : line'[s][n] = IF s = r /\ n = m THEN row ELSE line[s][n]
  BY <1>2, <1>7 DEF JudgeTypes
<1>10. JudgeTypes'
  <2>1. provider' \in [Run -> [Batch -> JobStates]]
    BY <1>2, <1>4 DEF JudgeTypes, JobStates, Terminal
  <2>2. line' \in [Run -> [Metric -> [Question -> LineStates]]]
    BY <1>2, <1>7, <1>8 DEF JudgeTypes
  <2> QED
    BY <1>1, <1>2, <2>1, <2>2 DEF JudgeTypes, rowVars, evalVars
<1>11. SentInv'
  BY <1>1, <1>2, <1>4, <1>5 DEF SentInv, rowVars
<1>12. AllAnswered'
  <2>1. ASSUME NEW s \in Run, NEW c \in Batch, provider'[s][c] = "completed",
               NEW q \in Plan[c].questions
        PROVE  line'[s][Plan[c].metric][q] # "none"
    <3>1. q \in Question /\ Plan[c].metric \in Metric
      BY PlanFacts
    <3>2. line[s][Plan[c].metric][q] # "none" => line'[s][Plan[c].metric][q] # "none"
      BY <1>6, <1>9, <3>1
    <3>3. CASE s = r /\ c = b
      <4>1. q \in ok \cup error /\ Plan[c].metric = m
        BY <1>3, <1>5, <2>1, <3>3
      <4>2. row[q] # "none"
        BY <1>6, <3>1, <4>1
      <4> QED
        BY <1>9, <3>3, <4>1, <4>2
    <3>4. CASE ~(s = r /\ c = b)
      <4>1. provider[s][c] = "completed"
        BY <1>5, <2>1, <3>4
      <4> QED
        BY <1>2, <3>2, <4>1 DEF AllAnswered, Answered
    <3> QED
      BY <3>3, <3>4
  <2> QED
    BY <2>1 DEF AllAnswered, Answered
<1>13. \A s \in Run, c \in Batch : provider[s][c] \in Terminal => provider'[s][c] = provider[s][c]
  BY <1>4, <1>5 DEF Terminal, GaveUp
<1> QED
  BY <1>1, <1>10, <1>11, <1>12, <1>13, JobsMove DEF rowVars

LEMMA AnswerKeeps ==
    ASSUME JudgeAssumption, JudgeInv, NEW r \in Run, NEW b \in Batch, Provider(r, b)
    PROVE  JudgeInv'
<1>1. CASE Answers(r, b)
  <2>1. PICK error \in SUBSET Plan[b].questions :
            ProviderEnds(r, b, "completed", Plan[b].questions \ error, error)
    BY <1>1 DEF Answers
  <2>2. "completed" \in Terminal /\ Plan[b].questions \ error \in SUBSET Plan[b].questions
    BY DEF Terminal
  <2> QED
    BY <2>1, <2>2, ProviderKeeps
<1>2. CASE GivesUp(r, b)
  <2>1. PICK x \in GaveUp, ok \in SUBSET Plan[b].questions :
            \E error \in SUBSET (Plan[b].questions \ ok) : ProviderEnds(r, b, x, ok, error)
    BY <1>2 DEF GivesUp
  <2>2. PICK error \in SUBSET (Plan[b].questions \ ok) : ProviderEnds(r, b, x, ok, error)
    BY <2>1
  <2>3. x \in Terminal /\ x # "completed" /\ error \in SUBSET Plan[b].questions
    BY DEF Terminal, GaveUp
  <2> QED
    BY <2>2, <2>3, ProviderKeeps
<1> QED
  BY <1>1, <1>2 DEF Provider
-----------------------------------------------------------------------------
(***************************************************************************)
(* Polls.                                                                  *)
(***************************************************************************)
\* A step of one poll that leaves the provider, the rows and the history alone
\* keeps what the other polls know.
LEMMA OthersKnow ==
    ASSUME JudgeInv, NEW p \in Poller, NEW v, poll' = [poll EXCEPT ![p] = v],
           v \in Polls \cup {Idle}, Knows(v)',
           UNCHANGED <<submitVars, providerVars, rowVars, evalVars>>, disturbed \subseteq disturbed'
    PROVE  /\ JudgeTypes' /\ SentInv' /\ AllAnswered' /\ RecordedWhole' /\ JudgementKept'
           /\ \A o \in Poller : Knows(poll[o])'
           /\ \A r \in Run : Judged(r)' = Judged(r) /\ Erred(r)' = Erred(r)
<1>1. JudgeTypes /\ poll \in [Poller -> Polls \cup {Idle}]
  BY DEF JudgeInv, JudgeTypes
<1>2. JudgeTypes'
  <2>1. poll' \in [Poller -> Polls \cup {Idle}]
    <3> DEFINE P == Polls \cup {Idle}
    <3>1. poll \in [Poller -> P] /\ v \in P
      BY <1>1
    <3> HIDE DEF P
    <3>2. poll' \in [Poller -> P]
      BY <3>1
    <3> QED
      BY <3>2 DEF P
  <2> QED
    BY <1>1, <2>1 DEF JudgeTypes, submitVars, providerVars, rowVars, evalVars
<1>3. SentInv' /\ AllAnswered'
  BY DEF JudgeInv, SentInv, AllAnswered, submitVars, providerVars, rowVars
<1>4. \A r \in Run : /\ Judged(r)' = Judged(r) /\ Erred(r)' = Erred(r)
                     /\ Recorded(r)' = Recorded(r)
  BY DEF evalVars, Judged, Erred, Recorded
<1>5. RecordedWhole'
  BY <1>4 DEF JudgeInv, RecordedWhole, providerVars, rowVars, evalVars
<1>6. JudgementKept'
  BY <1>4 DEF JudgeInv, JudgementKept, evalVars
<1>7. ASSUME NEW o \in Poller PROVE Knows(poll[o])'
  <2>1. CASE o = p
    <3>1. v = poll'[p]
      BY <1>1
    <3> QED
      BY <2>1, <3>1
  <2>2. CASE o # p
    <3>1. PICK w : w = poll[o]
      OBVIOUS
    <3>2. w = poll'[o]
      BY <1>1, <2>2, <3>1
    <3>3. Knows(w)
      BY <3>1 DEF JudgeInv
    <3>4. Knows(w)'
      BY <3>3, KnowsFrame DEF submitVars, providerVars, rowVars, evalVars
    <3> QED
      BY <3>2, <3>4
  <2> QED
    BY <2>1, <2>2
<1> QED
  BY <1>2, <1>3, <1>4, <1>5, <1>6, <1>7

\* A poll at work keeps its run's counts out of the exact half of CountsMatchHistory.
LEMMA StillPolled ==
    ASSUME JudgeInv, NEW p \in Poller, NEW v \in Polls, poll[p] # Idle,
           poll' = [poll EXCEPT ![p] = v], v.run = poll[p].run, Knows(v)',
           UNCHANGED <<submitVars, providerVars, rowVars, evalVars, disturbed>>
    PROVE  JudgeInv'
<1>1. JudgeTypes /\ poll \in [Poller -> Polls \cup {Idle}] /\ v \in Polls \cup {Idle}
  BY DEF JudgeInv, JudgeTypes
<1>2. /\ JudgeTypes' /\ SentInv' /\ AllAnswered' /\ RecordedWhole' /\ JudgementKept'
      /\ \A o \in Poller : Knows(poll[o])'
      /\ \A r \in Run : Judged(r)' = Judged(r) /\ Erred(r)' = Erred(r)
  BY <1>1, OthersKnow
<1>3. \A o \in Poller : poll'[o] = IF o = p THEN v ELSE poll[o]
  BY <1>1
<1>4. v # Idle /\ v.pc # "idle" /\ Idle.pc = "idle"
  BY DEF Polls, Idle
<1>5. Apart'
  BY <1>3, <1>4 DEF JudgeInv, Apart
<1>6. ASSUME NEW r \in Run PROVE Polled(r) => Polled(r)'
  <2>1. SUFFICES ASSUME NEW o \in Poller, poll[o].pc # "idle", poll[o].run = r
                 PROVE  poll'[o].pc # "idle" /\ poll'[o].run = r
    BY DEF Polled
  <2> QED
    BY <1>3, <1>4, <2>1
<1>7. CountsMatchHistory'
  BY <1>2, <1>6 DEF JudgeInv, CountsMatchHistory, rowVars
<1> QED
  BY <1>2, <1>5, <1>7 DEF JudgeInv

LEMMA LoadKeeps ==
    ASSUME JudgeAssumption, JudgeInv, NEW p \in Poller, NEW r \in Run, Load(p, r)
    PROVE  JudgeInv'
<1> DEFINE new == [pc |-> "fetch", run |-> r, status |-> status[r], judged |-> judged[r],
                   failed |-> failed[r], jobs |-> NoJobs, lines |-> NoLines,
                   already |-> {}, ingested |-> 0, errors |-> 0]
<1>1. PICK v : v = new
  OBVIOUS
<1> HIDE DEF new
<1>2. JudgeTypes /\ SentInv /\ CountsMatchHistory /\ poll \in [Poller -> Polls \cup {Idle}]
  BY DEF JudgeInv, JudgeTypes
<1>3. /\ poll[p] = Idle /\ status[r] # "none" /\ poll' = [poll EXCEPT ![p] = v]
      /\ UNCHANGED <<submitVars, providerVars, rowVars, evalVars>>
      /\ disturbed \subseteq disturbed'
      /\ (\E o \in Poller \ {p} : poll[o].pc # "idle" /\ poll[o].run = r) => r \in disturbed'
      /\ \A s \in Run : s # r => (s \in disturbed' <=> s \in disturbed)
  <2>1. poll[p].pc = "idle" => poll[p] = Idle
    BY <1>2, AtWork
  <2> QED
    BY <1>1, <2>1 DEF Load, At, Step, new
<1>4. v \in Polls
  <2>1. NoJobs \in [Batch -> JobStates] /\ NoLines \in [Metric -> [Question -> LineStates]]
    BY DEF NoJobs, NoLines, JobStates, LineStates
  <2> QED
    BY <1>1, <1>2, <2>1 DEF JudgeTypes, Polls, new
<1>5. /\ v.run = r /\ v.judged = judged[r] /\ v.failed = failed[r] /\ v.pc = "fetch"
      /\ v.already = {} /\ v.ingested = 0 /\ v.errors = 0 /\ v.jobs = NoJobs
  BY <1>1 DEF new
<1>6. /\ judged[r] \in Nat /\ failed[r] \in Nat
      /\ Cardinality(Judged(r)) \in Nat /\ Cardinality(Erred(r)) \in Nat
  BY <1>2, CountsAreNat DEF JudgeTypes
<1>7. Knows(v)'
  <2>1. Remembers(v)
    <3>1. \A b \in Batch : v.jobs[b] \notin Terminal /\ v.jobs[b] # "completed"
      BY <1>5 DEF NoJobs, Terminal, GaveUp
    <3>2. /\ v.judged + v.ingested <= Cardinality(Judged(v.run))
          /\ v.failed + v.errors <= Cardinality(Erred(v.run))
      BY <1>2, <1>5, <1>6 DEF CountsMatchHistory
    <3>3. sent[v.run] = Len(Plan)
      BY <1>2, <1>3, <1>5 DEF SentInv
    <3> QED
      BY <1>5, <3>1, <3>2, <3>3 DEF Remembers, Answered
  <2>2. r \notin disturbed' =>
            /\ v.judged + v.ingested = Cardinality(Judged(r))
            /\ v.failed + v.errors = Cardinality(Erred(r))
    <3> SUFFICES ASSUME r \notin disturbed' PROVE ~Polled(r) /\ r \notin disturbed
      BY <1>2, <1>5, <1>6 DEF CountsMatchHistory
    <3>1. Idle.pc = "idle"
      BY DEF Idle
    <3> QED
      BY <1>3, <3>1 DEF Polled
  <2>3. (Remembers(v) /\ Alone(v))'
    <3>1. Recorded(r)' = Recorded(r) /\ Judged(r)' = Judged(r) /\ Erred(r)' = Erred(r)
      BY <1>3 DEF evalVars, Recorded, Judged, Erred
    <3>2. Remembers(v)'
      BY <1>3, <1>5, <2>1, <3>1 DEF Remembers, submitVars, providerVars
    <3>3. Alone(v)'
      BY <1>3, <1>5, <2>2, <3>1 DEF Alone, rowVars
    <3> QED
      BY <3>2, <3>3
  <2> QED
    BY <2>3 DEF Knows
<1>8. /\ JudgeTypes' /\ SentInv' /\ AllAnswered' /\ RecordedWhole' /\ JudgementKept'
      /\ \A o \in Poller : Knows(poll[o])'
      /\ \A s \in Run : Judged(s)' = Judged(s) /\ Erred(s)' = Erred(s)
  BY <1>3, <1>4, <1>7, OthersKnow
<1>9. \A o \in Poller : poll'[o] = IF o = p THEN v ELSE poll[o]
  BY <1>2, <1>3
<1>10. v # Idle /\ v.pc # "idle" /\ Idle.pc = "idle"
  BY <1>4 DEF Polls, Idle
<1>11. Apart'
  <2>1. SUFFICES ASSUME NEW o1 \in Poller, NEW o2 \in Poller, o1 # o2, poll'[o1] # Idle,
                        poll'[o2] # Idle, poll'[o1].run = poll'[o2].run
                 PROVE  poll'[o1].run \in disturbed'
    BY DEF Apart
  <2>2. ASSUME NEW o \in Poller, poll[o] # Idle, o # p, poll[o].run = r PROVE r \in disturbed'
    <3>1. poll[o].pc # "idle"
      BY <1>2, <2>2, AtWork
    <3> QED
      BY <1>3, <2>2, <3>1
  <2>3. CASE o1 = p
    BY <1>5, <1>9, <2>1, <2>2, <2>3
  <2>4. CASE o2 = p
    BY <1>5, <1>9, <2>1, <2>2, <2>4
  <2>5. CASE o1 # p /\ o2 # p
    BY <1>3, <1>9, <2>1, <2>5 DEF JudgeInv, Apart
  <2> QED
    BY <2>3, <2>4, <2>5
<1>12. CountsMatchHistory'
  <2>1. Polled(r)'
    BY <1>5, <1>9, <1>10 DEF Polled
  <2>2. ASSUME NEW s \in Run, Polled(s) PROVE Polled(s)'
    BY <1>3, <1>9, <1>10, <2>2 DEF Polled
  <2> QED
    BY <1>2, <1>3, <1>8, <2>1, <2>2 DEF CountsMatchHistory, rowVars
<1> QED
  BY <1>8, <1>11, <1>12 DEF JudgeInv
-----------------------------------------------------------------------------
LEMMA FetchKeeps ==
    ASSUME JudgeAssumption, JudgeInv, NEW p \in Poller, Fetch(p)
    PROVE  JudgeInv'
<1>1. PICK w : w = poll[p]
  OBVIOUS
<1>2. /\ w.pc = "fetch" /\ poll[p] # Idle /\ w \in Polls /\ Knows(w) /\ w # Idle
  <2>1. w.pc = "fetch"
    BY <1>1 DEF Fetch, At
  <2>2. Idle.pc = "idle"
    BY DEF Idle
  <2> QED
    BY <1>1, <2>1, <2>2, AtWork DEF JudgeInv
<1>3. PICK v : v = [w EXCEPT !.pc = "already", !.jobs = provider[w.run], !.lines = line[w.run]]
  OBVIOUS
<1>4. /\ poll' = [poll EXCEPT ![p] = v]
      /\ UNCHANGED <<submitVars, providerVars, rowVars, evalVars, disturbed>>
  BY <1>1, <1>3 DEF Fetch, Step
<1>5. w.run \in Run
  BY <1>2 DEF Polls
<1>6. /\ v \in Polls /\ v.run = w.run /\ v.pc = "already" /\ v.jobs = provider[w.run]
      /\ v.lines = line[w.run] /\ v.already = w.already /\ v.judged = w.judged
      /\ v.failed = w.failed /\ v.ingested = w.ingested /\ v.errors = w.errors
  <2>1. provider[w.run] \in [Batch -> JobStates]
    BY <1>5 DEF JudgeInv, JudgeTypes
  <2>2. line[w.run] \in [Metric -> [Question -> LineStates]]
    BY <1>5 DEF JudgeInv, JudgeTypes
  <2> QED
    BY <1>2, <1>3, <2>1, <2>2 DEF Polls
<1>7. Remembers(v) /\ Alone(v)
  <2>1. Remembers(w) /\ Alone(w)
    BY <1>2 DEF Knows
  <2>2. Answered(v.jobs, v.lines)
    BY <1>5, <1>6 DEF JudgeInv, AllAnswered
  <2>3. Remembers(v)
    BY <1>2, <1>6, <2>1, <2>2 DEF Remembers
  <2>4. Alone(v)
    BY <1>2, <1>6, <2>1 DEF Alone
  <2> QED
    BY <2>3, <2>4
<1>8. Knows(v)'
  <2>1. Knows(v)
    BY <1>7 DEF Knows
  <2> QED
    BY <1>4, <2>1, KnowsFrame DEF submitVars, providerVars, rowVars, evalVars
<1> QED
  BY <1>1, <1>2, <1>4, <1>6, <1>8, StillPolled

LEMMA ReadAlreadyKeeps ==
    ASSUME JudgeAssumption, JudgeInv, NEW p \in Poller, ReadAlready(p)
    PROVE  JudgeInv'
<1>1. PICK w : w = poll[p]
  OBVIOUS
<1>2. /\ w.pc = "already" /\ poll[p] # Idle /\ w \in Polls /\ Knows(w) /\ w # Idle
  <2>1. w.pc = "already"
    BY <1>1 DEF ReadAlready, At
  <2>2. Idle.pc = "idle"
    BY DEF Idle
  <2> QED
    BY <1>1, <2>1, <2>2, AtWork DEF JudgeInv
<1>3. PICK v : v = [w EXCEPT !.pc = "record", !.already = Recorded(w.run)]
  OBVIOUS
<1>4. /\ poll' = [poll EXCEPT ![p] = v]
      /\ UNCHANGED <<submitVars, providerVars, rowVars, evalVars, disturbed>>
  BY <1>1, <1>3 DEF ReadAlready, Step
<1>5. w.run \in Run /\ Recorded(w.run) \in SUBSET Question
  BY <1>2 DEF Polls, Recorded
<1>6. /\ v \in Polls /\ v.run = w.run /\ v.pc = "record" /\ v.jobs = w.jobs
      /\ v.lines = w.lines /\ v.already = Recorded(w.run) /\ v.judged = w.judged
      /\ v.failed = w.failed /\ v.ingested = w.ingested /\ v.errors = w.errors
  BY <1>2, <1>3, <1>5 DEF Polls
<1>7. Remembers(w) /\ Alone(w)
  BY <1>2 DEF Knows
<1>8. Remembers(v)
  BY <1>6, <1>7 DEF Remembers
<1>9. Alone(v)
  BY <1>6, <1>7 DEF Alone
<1>10. Knows(v)'
  <2>1. Knows(v)
    BY <1>8, <1>9 DEF Knows
  <2> QED
    BY <1>4, <2>1, KnowsFrame DEF submitVars, providerVars, rowVars, evalVars
<1> QED
  BY <1>1, <1>2, <1>4, <1>6, <1>10, StillPolled

\* A poll that ends without writing its row keeps the invariant when the run is
\* disturbed by it unless it had nothing left to write.
LEMMA PollsEnd ==
    ASSUME JudgeAssumption, JudgeInv, NEW P \in SUBSET Poller,
           poll' = [o \in Poller |-> IF o \in P THEN Idle ELSE poll[o]],
           UNCHANGED <<sent, provider, line, rowVars, evalVars>>, submitting' \subseteq submitting,
           disturbed \subseteq disturbed',
           \A o \in P : poll[o] # Idle /\ poll[o].run \notin disturbed'
                            => poll[o].ingested = 0 /\ poll[o].errors = 0
    PROVE  JudgeInv'
<1>1. JudgeTypes /\ poll \in [Poller -> Polls \cup {Idle}]
  BY DEF JudgeInv, JudgeTypes
<1>2. \A o \in Poller : poll'[o] = IF o \in P THEN Idle ELSE poll[o]
  OBVIOUS
<1>3. JudgeTypes'
  <2>1. poll' \in [Poller -> Polls \cup {Idle}]
    <3> DEFINE S == Polls \cup {Idle}
    <3>1. poll \in [Poller -> S] /\ Idle \in S
      BY <1>1
    <3> HIDE DEF S
    <3>2. poll' \in [Poller -> S]
      BY <3>1
    <3> QED
      BY <3>2 DEF S
  <2> QED
    BY <1>1, <2>1 DEF JudgeTypes, rowVars, evalVars
<1>4. SentInv' /\ AllAnswered'
  BY DEF JudgeInv, SentInv, AllAnswered, rowVars
<1>5. \A r \in Run : /\ Judged(r)' = Judged(r) /\ Erred(r)' = Erred(r)
                     /\ Recorded(r)' = Recorded(r)
  BY DEF evalVars, Judged, Erred, Recorded
<1>6. RecordedWhole'
  <2>1. status' = status /\ provider' = provider /\ whole' = whole
    BY DEF rowVars, evalVars
  <2>2. ASSUME NEW r \in Run, NEW q \in Question, q \in Recorded(r)'
        PROVE  <<r, q>> \in whole' \/ \E b \in Batch : provider'[r][b] \in GaveUp
    <3>1. q \in Recorded(r)
      BY <1>5, <2>2
    <3>2. RecordedWhole
      BY DEF JudgeInv
    <3>3. <<r, q>> \in whole \/ \E b \in Batch : provider[r][b] \in GaveUp
      BY <3>1, <3>2 DEF RecordedWhole
    <3> QED
      BY <2>1, <3>3
  <2>3. ASSUME NEW r \in Run, NEW q \in Question, status'[r] = "completed"
        PROVE  <<r, q>> \in whole'
    BY <2>1, <2>3 DEF JudgeInv, RecordedWhole
  <2> QED
    BY <2>2, <2>3 DEF RecordedWhole
<1>7. JudgementKept'
  BY <1>5 DEF JudgeInv, JudgementKept, evalVars
<1>8. ASSUME NEW o \in Poller PROVE Knows(poll[o])'
  <2>1. CASE o \in P
    BY <1>2, <2>1 DEF Knows
  <2>2. CASE o \notin P
    <3>1. PICK w : w = poll[o]
      OBVIOUS
    <3>2. w = poll'[o] /\ Knows(w)
      BY <1>2, <2>2, <3>1 DEF JudgeInv
    <3>3. Knows(w)'
      BY <3>2, KnowsFrame DEF rowVars, evalVars
    <3> QED
      BY <3>2, <3>3
  <2> QED
    BY <2>1, <2>2
<1>9. Apart'
  BY <1>2 DEF JudgeInv, Apart
<1>10. ASSUME NEW r \in Run, r \notin disturbed', ~Polled(r)'
       PROVE  judged[r] = Cardinality(Judged(r)) /\ failed[r] = Cardinality(Erred(r))
  <2>1. r \notin disturbed
    BY <1>10
  <2>2. CASE ~Polled(r)
    BY <2>1, <2>2 DEF JudgeInv, CountsMatchHistory
  <2>3. CASE Polled(r)
    <3>1. PICK o \in Poller : poll[o].pc # "idle" /\ poll[o].run = r
      BY <2>3 DEF Polled
    <3>2. o \in P
      BY <1>2, <1>10, <3>1 DEF Polled
    <3>3. PICK w : w = poll[o]
      OBVIOUS
    <3>4. w # Idle /\ w \in Polls /\ Alone(w) /\ w.run = r /\ w.ingested = 0 /\ w.errors = 0
      BY <1>1, <1>10, <3>1, <3>2, <3>3, AtWork DEF JudgeInv, Knows
    <3>5. w.judged \in Nat /\ w.failed \in Nat
      BY <3>4 DEF Polls
    <3> QED
      BY <2>1, <3>4, <3>5 DEF Alone
  <2> QED
    BY <2>2, <2>3
<1>11. CountsMatchHistory'
  BY <1>5, <1>10 DEF JudgeInv, CountsMatchHistory, rowVars
<1> QED
  BY <1>3, <1>4, <1>6, <1>7, <1>8, <1>9, <1>11 DEF JudgeInv

\* A poll that has something uncounted is half done.
LEMMA HalfDoneSays ==
    ASSUME JudgeInv, NEW p \in Poller, poll[p] # Idle, poll[p].run \notin HalfDone(p)
    PROVE  poll[p].ingested = 0 /\ poll[p].errors = 0
<1>1. PICK w : w = poll[p]
  OBVIOUS
<1>2. w \in Polls /\ w # Idle /\ Remembers(w)
  BY <1>1, AtWork DEF JudgeInv, Knows
<1>3. w.ingested \in Nat /\ w.errors \in Nat
  BY <1>2 DEF Polls
<1>4. CASE w.pc # "record"
  BY <1>1, <1>2, <1>4 DEF Remembers
<1>5. CASE w.pc = "record"
  <2>1. ~(w.ingested + w.errors > 0)
    BY <1>1, <1>5 DEF HalfDone, At
  <2> QED
    BY <1>1, <1>3, <2>1
<1> QED
  BY <1>4, <1>5

LEMMA RaiseKeeps ==
    ASSUME JudgeAssumption, JudgeInv, NEW p \in Poller, Raise(p)
    PROVE  JudgeInv'
<1>1. poll \in [Poller -> Polls \cup {Idle}]
  BY DEF JudgeInv, JudgeTypes
<1>2. poll' = [o \in Poller |-> IF o \in {p} THEN Idle ELSE poll[o]]
  BY <1>1 DEF Raise, Step
<1>3. /\ UNCHANGED <<submitting, sent, provider, line, rowVars, evalVars>>
      /\ disturbed' = disturbed \cup HalfDone(p)
  BY DEF Raise, submitVars, providerVars
<1>4. \A o \in {p} : poll[o] # Idle /\ poll[o].run \notin disturbed'
                         => poll[o].ingested = 0 /\ poll[o].errors = 0
  BY <1>3, HalfDoneSays
<1>5. {p} \in SUBSET Poller /\ disturbed \subseteq disturbed' /\ submitting' \subseteq submitting
  BY <1>3
<1>6. UNCHANGED <<sent, provider, line, rowVars, evalVars>>
  BY <1>3
<1> QED
  BY <1>2, <1>4, <1>5, <1>6, PollsEnd

LEMMA RestartKeeps ==
    ASSUME JudgeAssumption, JudgeInv, Restart
    PROVE  JudgeInv'
<1>1. /\ UNCHANGED <<sent, provider, line, rowVars, evalVars>>
      /\ submitting' = {} /\ disturbed' = disturbed \cup UNION {HalfDone(p) : p \in Poller}
      /\ poll' = [o \in Poller |-> IF o \in Poller THEN Idle ELSE poll[o]]
  BY DEF Restart, providerVars
<1>2. \A o \in Poller : poll[o] # Idle /\ poll[o].run \notin disturbed'
                         => poll[o].ingested = 0 /\ poll[o].errors = 0
  BY <1>1, HalfDoneSays
<1> QED
  BY <1>1, <1>2, PollsEnd

\* What the history counts once a question without an evaluation gets one.
LEMMA OneMore ==
    ASSUME JudgeAssumption, JudgeTypes, NEW r \in Run, NEW q \in Question,
           NEW e \in {"error"} \cup Informative, q \notin Recorded(r),
           history' = [history EXCEPT ![r][q] = e]
    PROVE  /\ \A s \in Run, x \in Question :
                  history'[s][x] = IF s = r /\ x = q THEN e ELSE history[s][x]
           /\ \A s \in Run : Recorded(s)' = IF s = r THEN Recorded(s) \cup {q} ELSE Recorded(s)
           /\ \A s \in Run : Judged(s) \subseteq Judged(s)'
           /\ \A s \in Run \ {r} : Judged(s)' = Judged(s) /\ Erred(s)' = Erred(s)
           /\ e \in Informative => /\ Cardinality(Judged(r)') = Cardinality(Judged(r)) + 1
                                   /\ Erred(r)' = Erred(r)
           /\ e \notin Informative => /\ Cardinality(Erred(r)') = Cardinality(Erred(r)) + 1
                                      /\ Judged(r)' = Judged(r)
           /\ Cardinality(Judged(r)) <= Cardinality(Judged(r)')
           /\ Cardinality(Erred(r)) <= Cardinality(Erred(r)')
<1>1. \A s \in Run, x \in Question :
          history'[s][x] = IF s = r /\ x = q THEN e ELSE history[s][x]
  BY DEF JudgeTypes
<1>2. history[r][q] = "none"
  BY DEF Recorded
<1>3. "none" \notin Informative /\ "error" \notin Informative /\ e # "none"
  BY DEF Informative
<1>4. \A s \in Run : Recorded(s)' = IF s = r THEN Recorded(s) \cup {q} ELSE Recorded(s)
  BY <1>1, <1>3 DEF Recorded
<1>5. \A s \in Run \ {r} : Judged(s)' = Judged(s) /\ Erred(s)' = Erred(s)
  BY <1>1 DEF Judged, Erred
<1>6. q \notin Judged(r) /\ q \notin Erred(r)
  BY <1>2, <1>3 DEF Judged, Erred
<1>7. /\ IsFiniteSet(Judged(r)) /\ IsFiniteSet(Erred(r))
      /\ Cardinality(Judged(r)) \in Nat /\ Cardinality(Erred(r)) \in Nat
  BY CountsAreNat
<1>8. CASE e \in Informative
  <2>1. Judged(r)' = Judged(r) \cup {q}
    BY <1>1, <1>8 DEF Judged
  <2>2. Erred(r)' = Erred(r)
    BY <1>1, <1>2, <1>3, <1>8 DEF Erred
  <2>3. Cardinality(Judged(r)') = Cardinality(Judged(r)) + 1
    BY <1>6, <1>7, <2>1, FS_AddElement
  <2>4. \A s \in Run : Judged(s) \subseteq Judged(s)'
    BY <1>5, <2>1
  <2> QED
    BY <1>1, <1>4, <1>5, <1>7, <1>8, <2>2, <2>3, <2>4
<1>9. CASE e \notin Informative
  <2>1. Erred(r)' = Erred(r) \cup {q}
    BY <1>1, <1>9 DEF Erred
  <2>2. Judged(r)' = Judged(r)
    BY <1>1, <1>2, <1>3, <1>9 DEF Judged
  <2>3. Cardinality(Erred(r)') = Cardinality(Erred(r)) + 1
    BY <1>6, <1>7, <2>1, FS_AddElement
  <2>4. \A s \in Run : Judged(s) \subseteq Judged(s)'
    BY <1>5, <2>2
  <2> QED
    BY <1>1, <1>4, <1>5, <1>7, <1>9, <2>2, <2>3, <2>4
<1> QED
  BY <1>8, <1>9

\* A poll that records a question whose lines have not all come knows of a job
\* that gave up.
LEMMA MissingMeansGaveUp ==
    ASSUME JudgeAssumption, NEW w \in Polls, Remembers(w), NEW q \in Due(w),
           Missing(w.lines, q) # {}
    PROVE  \E b \in Batch : provider[w.run][b] \in GaveUp
<1>1. q \in Question /\ RunStatus(w.jobs) \in Terminal
  BY DEF Due
<1>2. w.jobs \in [Batch -> JobStates]
  BY DEF Polls
<1>3. ~\A b \in Batch : w.jobs[b] = "completed"
  BY <1>1, NoneMissing DEF Remembers
<1>4. RunStatus(w.jobs) \in GaveUp
  BY <1>1, <1>2, <1>3, StatusSays DEF Terminal
<1>5. PICK b \in Batch : w.jobs[b] \in GaveUp
  BY <1>2, <1>4, StatusSays
<1>6. provider[w.run][b] = w.jobs[b]
  BY <1>5 DEF Remembers, Terminal
<1> QED
  BY <1>5, <1>6

LEMMA EvaluationType ==
    ASSUME NEW lines, NEW q PROVE Evaluation(lines, q) \in {"error"} \cup Informative
<1> DEFINE answered == {m \in Metric : lines[m][q] = "ok"}
<1>1. Evaluation(lines, q) = CASE answered = {} -> "error"
                               [] answered = Metric -> "completed"
                               [] OTHER -> "partial"
  BY DEF Evaluation
<1> HIDE DEF answered
<1>2. CASE answered = {} /\ answered # Metric
  BY <1>1, <1>2
<1>3. CASE answered # {} /\ answered = Metric
  BY <1>1, <1>3 DEF Informative
<1>4. CASE answered # {} /\ answered # Metric
  BY <1>1, <1>4 DEF Informative
<1>5. CASE answered = {} /\ answered = Metric
  BY <1>1, <1>5 DEF Informative
<1> QED
  BY <1>2, <1>3, <1>4, <1>5

\* One more to what a poll has counted is one more to the sum.
LEMMA CountOneMore ==
    ASSUME NEW m \in Nat, NEW n \in Nat PROVE m + (n + 1) = (m + n) + 1
OBVIOUS

\* The locals of a poll once it recorded question q as e.
Counted(v, w, q, e) ==
    /\ v.run = w.run /\ v.pc = w.pc /\ v.jobs = w.jobs /\ v.lines = w.lines
    /\ v.judged = w.judged /\ v.failed = w.failed /\ v.already = w.already \cup {q}
    /\ e \in Informative => v.ingested = w.ingested + 1 /\ v.errors = w.errors
    /\ e \notin Informative => v.ingested = w.ingested /\ v.errors = w.errors + 1

\* A question is recorded by the poll that found it missing.
LEMMA RecordsOne ==
    ASSUME JudgeAssumption, JudgeInv, NEW p \in Poller,
           NEW w \in Polls, w = poll[p], w # Idle, w.pc = "record",
           NEW q \in Due(w), q \notin Recorded(w.run),
           NEW e \in {"error"} \cup Informative,
           history' = [history EXCEPT ![w.run][q] = e],
           current' = IF MayBecomeCurrent(current[q], e)
                      THEN [current EXCEPT ![q] = e] ELSE current,
           whole' = IF Missing(w.lines, q) = {} THEN whole \cup {<<w.run, q>>} ELSE whole,
           NEW v \in Polls, poll' = [poll EXCEPT ![p] = v],
           Counted(v, w, q, e),
           UNCHANGED <<submitVars, providerVars, rowVars, disturbed>>
    PROVE  JudgeInv'
<1>1. PICK r \in Run : r = w.run
  BY DEF Polls
<1>2. q \in Question /\ q \notin w.already
  BY DEF Due
<1>3. JudgeTypes /\ Remembers(w) /\ Alone(w)
  BY DEF JudgeInv, Knows
<1>4. /\ UNCHANGED <<submitting, sent, provider, line, status, judged, failed, disturbed>>
  BY DEF submitVars, providerVars, rowVars
<1>5. /\ \A s \in Run, x \in Question :
             history'[s][x] = IF s = r /\ x = q THEN e ELSE history[s][x]
      /\ \A s \in Run : Recorded(s)' = IF s = r THEN Recorded(s) \cup {q} ELSE Recorded(s)
      /\ \A s \in Run : Judged(s) \subseteq Judged(s)'
      /\ \A s \in Run \ {r} : Judged(s)' = Judged(s) /\ Erred(s)' = Erred(s)
      /\ e \in Informative => /\ Cardinality(Judged(r)') = Cardinality(Judged(r)) + 1
                              /\ Erred(r)' = Erred(r)
      /\ e \notin Informative => /\ Cardinality(Erred(r)') = Cardinality(Erred(r)) + 1
                                 /\ Judged(r)' = Judged(r)
      /\ Cardinality(Judged(r)) <= Cardinality(Judged(r)')
      /\ Cardinality(Erred(r)) <= Cardinality(Erred(r)')
  <2>1. history' = [history EXCEPT ![r][q] = e] /\ q \notin Recorded(r)
    BY <1>1
  <2>2. JudgeTypes /\ r \in Run /\ q \in Question /\ e \in {"error"} \cup Informative
    BY <1>2, <1>3
  <2> QED
    BY <2>1, <2>2, OneMore, Zenon
<1>6. /\ v.run = r /\ v.pc = "record" /\ v.jobs = w.jobs /\ v.lines = w.lines
      /\ v.judged = w.judged /\ v.failed = w.failed /\ v.already = w.already \cup {q}
      /\ e \in Informative => v.ingested = w.ingested + 1 /\ v.errors = w.errors
      /\ e \notin Informative => v.ingested = w.ingested /\ v.errors = w.errors + 1
  BY <1>1 DEF Counted
<1>7. /\ w.judged \in Nat /\ w.failed \in Nat /\ w.ingested \in Nat /\ w.errors \in Nat
      /\ Cardinality(Judged(r)) \in Nat /\ Cardinality(Erred(r)) \in Nat
  BY CountsAreNat DEF Polls
<1>8. /\ Cardinality(Judged(r)') \in Nat /\ Cardinality(Erred(r)') \in Nat
  BY <1>5, <1>7
<1>9. \A o \in Poller : poll'[o] = IF o = p THEN v ELSE poll[o]
  BY <1>3 DEF JudgeTypes
<1>10. v # Idle /\ v.pc # "idle" /\ Idle.pc = "idle"
  BY DEF Polls, Idle
<1>11. JudgeTypes'
  <2>1. history' \in [Run -> [Question -> Marks]]
    <3>1. e \in Marks
      BY DEF Marks
    <3> QED
      BY <1>1, <1>2, <1>3, <3>1 DEF JudgeTypes
  <2>2. current' \in [Question -> Marks]
    BY <1>2, <1>3 DEF JudgeTypes, Marks
  <2>3. poll' \in [Poller -> Polls \cup {Idle}]
    <3> DEFINE P == Polls \cup {Idle}
    <3>1. poll \in [Poller -> P] /\ v \in P
      BY <1>3 DEF JudgeTypes
    <3> HIDE DEF P
    <3>2. poll' \in [Poller -> P]
      BY <3>1
    <3> QED
      BY <3>2 DEF P
  <2> QED
    BY <1>3, <1>4, <2>1, <2>2, <2>3 DEF JudgeTypes
<1>12. SentInv' /\ AllAnswered'
  BY <1>4 DEF JudgeInv, SentInv, AllAnswered
<1>13. Remembers(v)'
  <2>1. v.already \subseteq Recorded(r)'
    BY <1>1, <1>3, <1>5, <1>6 DEF Remembers
  <2>2. /\ v.judged + v.ingested <= Cardinality(Judged(r)')
        /\ v.failed + v.errors <= Cardinality(Erred(r)')
    <3>1. /\ w.judged + w.ingested <= Cardinality(Judged(r))
          /\ w.failed + w.errors <= Cardinality(Erred(r))
      BY <1>1, <1>3 DEF Remembers
    <3>2. CASE e \in Informative
      <4>1. /\ v.ingested = w.ingested + 1 /\ v.errors = w.errors
            /\ v.judged = w.judged /\ v.failed = w.failed
        BY <1>6, <3>2
      <4>2. Cardinality(Judged(r)') = Cardinality(Judged(r)) + 1 /\ Erred(r)' = Erred(r)
        BY <1>5, <3>2
      <4> QED
        BY <1>7, <3>1, <4>1, <4>2
    <3>3. CASE e \notin Informative
      <4>1. /\ v.ingested = w.ingested /\ v.errors = w.errors + 1
            /\ v.judged = w.judged /\ v.failed = w.failed
        BY <1>6, <3>3
      <4>2. Cardinality(Erred(r)') = Cardinality(Erred(r)) + 1 /\ Judged(r)' = Judged(r)
        BY <1>5, <3>3
      <4> QED
        BY <1>7, <3>1, <4>1, <4>2
    <3> QED
      BY <3>2, <3>3
  <2> QED
    BY <1>1, <1>3, <1>4, <1>6, <2>1, <2>2 DEF Remembers
<1>14. Alone(v)'
  <2>1. SUFFICES ASSUME r \notin disturbed
                 PROVE  /\ judged[r] = v.judged /\ failed[r] = v.failed
                        /\ v.judged + v.ingested = Cardinality(Judged(r)')
                        /\ v.failed + v.errors = Cardinality(Erred(r)')
                        /\ v.already = Recorded(r)'
    BY <1>4, <1>6 DEF Alone
  <2>2. /\ judged[r] = w.judged /\ failed[r] = w.failed
        /\ w.judged + w.ingested = Cardinality(Judged(r))
        /\ w.failed + w.errors = Cardinality(Erred(r))
        /\ w.already = Recorded(r)
    BY <1>1, <1>3, <2>1 DEF Alone
  <2>3. v.already = Recorded(r)'
    BY <1>5, <1>6, <2>2
  <2>4. CASE e \in Informative
    <3>1. /\ v.ingested = w.ingested + 1 /\ v.errors = w.errors
          /\ v.judged = w.judged /\ v.failed = w.failed
      BY <1>6, <2>4
    <3>2. Cardinality(Judged(r)') = Cardinality(Judged(r)) + 1 /\ Erred(r)' = Erred(r)
      BY <1>5, <2>4
    <3>3. v.judged + v.ingested = Cardinality(Judged(r)')
      <4>1. v.judged + v.ingested = w.judged + (w.ingested + 1)
        BY <3>1
      <4>2. v.judged + v.ingested = (w.judged + w.ingested) + 1
        BY <1>7, <4>1, CountOneMore, Zenon
      <4> QED
        BY <2>2, <3>2, <4>2
    <3>4. v.failed + v.errors = Cardinality(Erred(r)')
      BY <1>7, <2>2, <3>1, <3>2
    <3> QED
      BY <2>2, <2>3, <3>1, <3>3, <3>4
  <2>5. CASE e \notin Informative
    <3>1. /\ v.ingested = w.ingested /\ v.errors = w.errors + 1
          /\ v.judged = w.judged /\ v.failed = w.failed
      BY <1>6, <2>5
    <3>2. Cardinality(Erred(r)') = Cardinality(Erred(r)) + 1 /\ Judged(r)' = Judged(r)
      BY <1>5, <2>5
    <3>3. v.judged + v.ingested = Cardinality(Judged(r)')
      BY <1>7, <2>2, <3>1, <3>2
    <3>4. v.failed + v.errors = Cardinality(Erred(r)')
      BY <1>7, <2>2, <3>1, <3>2
    <3> QED
      BY <2>2, <2>3, <3>1, <3>3, <3>4
  <2> QED
    BY <2>4, <2>5
<1>15. ASSUME NEW o \in Poller PROVE Knows(poll[o])'
  <2>1. CASE o = p
    <3>1. v = poll'[o]
      BY <1>9, <2>1
    <3> QED
      BY <1>13, <1>14, <3>1 DEF Knows
  <2>2. CASE o # p
    <3>1. PICK x : x = poll[o]
      OBVIOUS
    <3>2. x = poll'[o] /\ Knows(x)
      BY <1>9, <2>2, <3>1 DEF JudgeInv
    <3>3. Knows(x)'
      <4> SUFFICES ASSUME x # Idle PROVE Remembers(x)' /\ Alone(x)'
        BY DEF Knows
      <4>1. x \in Polls /\ Remembers(x) /\ Alone(x)
        BY <1>3, <3>1, <3>2, AtWork DEF Knows
      <4>2. /\ x.run \in Run /\ x.judged \in Nat /\ x.failed \in Nat /\ x.ingested \in Nat
            /\ x.errors \in Nat
        BY <4>1 DEF Polls
      <4>3. x.already \subseteq Recorded(x.run)'
        BY <1>5, <4>1, <4>2 DEF Remembers
      <4>4. /\ x.judged + x.ingested <= Cardinality(Judged(x.run)')
            /\ x.failed + x.errors <= Cardinality(Erred(x.run)')
        <5>1. /\ x.judged + x.ingested <= Cardinality(Judged(x.run))
              /\ x.failed + x.errors <= Cardinality(Erred(x.run))
          BY <4>1 DEF Remembers
        <5>2. CASE x.run = r
          <6>1. /\ x.judged + x.ingested <= Cardinality(Judged(r))
                /\ x.failed + x.errors <= Cardinality(Erred(r))
            BY <5>1, <5>2
          <6>2. /\ Cardinality(Judged(r)) <= Cardinality(Judged(r)')
                /\ Cardinality(Erred(r)) <= Cardinality(Erred(r)')
            BY <1>5
          <6>3. x.judged + x.ingested \in Nat /\ x.failed + x.errors \in Nat
            BY <4>2
          <6>4. x.judged + x.ingested <= Cardinality(Judged(r)')
            BY <1>7, <1>8, <6>1, <6>2, <6>3
          <6>5. x.failed + x.errors <= Cardinality(Erred(r)')
            BY <1>7, <1>8, <6>1, <6>2, <6>3
          <6> QED
            BY <5>2, <6>4, <6>5
        <5>3. CASE x.run # r
          BY <1>5, <4>2, <5>1, <5>3
        <5> QED
          BY <5>2, <5>3
      <4>5. Remembers(x)'
        BY <1>4, <4>1, <4>3, <4>4 DEF Remembers
      <4>6. Alone(x)'
        <5>1. CASE x.run = r
          <6>1. r \in disturbed
            BY <1>1, <2>2, <3>1, <5>1 DEF JudgeInv, Apart
          <6> QED
            BY <1>4, <5>1, <6>1 DEF Alone
        <5>2. CASE x.run # r
          <6>1. /\ Recorded(x.run)' = Recorded(x.run) /\ Judged(x.run)' = Judged(x.run)
                /\ Erred(x.run)' = Erred(x.run)
            BY <1>5, <4>2, <5>2
          <6> QED
            BY <1>4, <4>1, <6>1 DEF Alone
        <5> QED
          BY <5>1, <5>2
      <4> QED
        BY <4>5, <4>6
    <3> QED
      BY <3>2, <3>3
  <2> QED
    BY <2>1, <2>2
<1>16. Apart'
  BY <1>1, <1>4, <1>6, <1>9, <1>10 DEF JudgeInv, Apart
<1>17. CountsMatchHistory'
  <2>1. Polled(r)'
    BY <1>6, <1>9, <1>10 DEF Polled
  <2>2. ASSUME NEW s \in Run PROVE Polled(s) => Polled(s)'
    BY <1>1, <1>6, <1>9, <1>10 DEF Polled
  <2>3. CountsMatchHistory
    BY DEF JudgeInv
  <2>4. ASSUME NEW s \in Run, s # r
        PROVE  /\ judged[s] <= Cardinality(Judged(s)')
               /\ failed[s] <= Cardinality(Erred(s)')
               /\ s \notin disturbed /\ ~Polled(s)' =>
                      /\ judged[s] = Cardinality(Judged(s)')
                      /\ failed[s] = Cardinality(Erred(s)')
    BY <1>5, <2>2, <2>3, <2>4 DEF CountsMatchHistory
  <2>5. judged[r] <= Cardinality(Judged(r)') /\ failed[r] <= Cardinality(Erred(r)')
    <3>1. judged[r] <= Cardinality(Judged(r)) /\ failed[r] <= Cardinality(Erred(r))
      BY <2>3 DEF CountsMatchHistory
    <3>2. judged[r] \in Nat /\ failed[r] \in Nat
      BY <1>3 DEF JudgeTypes
    <3> QED
      BY <1>5, <1>7, <1>8, <3>1, <3>2
  <2> QED
    BY <1>4, <2>1, <2>4, <2>5 DEF CountsMatchHistory
<1>18. RecordedWhole'
  <2>1. RecordedWhole /\ whole \subseteq whole'
    BY DEF JudgeInv
  <2>2. ASSUME NEW s \in Run, NEW x \in Question, x \in Recorded(s)'
        PROVE  <<s, x>> \in whole' \/ \E b \in Batch : provider'[s][b] \in GaveUp
    <3>1. CASE s = r /\ x = q
      <4>1. CASE Missing(w.lines, q) = {}
        BY <1>1, <3>1, <4>1
      <4>2. CASE Missing(w.lines, q) # {}
        BY <1>1, <1>3, <1>4, <3>1, <4>2, MissingMeansGaveUp
      <4> QED
        BY <4>1, <4>2
    <3>2. CASE ~(s = r /\ x = q)
      <4>1. x \in Recorded(s)
        BY <1>5, <2>2, <3>2
      <4>2. <<s, x>> \in whole \/ \E b \in Batch : provider[s][b] \in GaveUp
        BY <2>1, <4>1 DEF RecordedWhole
      <4> QED
        BY <1>4, <2>1, <4>2
    <3> QED
      BY <3>1, <3>2
  <2>3. ASSUME NEW s \in Run, NEW x \in Question, status'[s] = "completed"
        PROVE  <<s, x>> \in whole'
    BY <1>4, <2>1, <2>3 DEF RecordedWhole
  <2> QED
    BY <2>2, <2>3 DEF RecordedWhole
<1>19. JudgementKept'
  <2>1. SUFFICES ASSUME NEW x \in Question,
                        x \in Generated \/ \E s \in Run : x \in Judged(s)'
                 PROVE  current'[x] \in Informative
    BY DEF JudgementKept
  <2>2. CASE x # q
    <3>1. x \in Generated \/ \E s \in Run : x \in Judged(s)
      BY <1>5, <2>1, <2>2 DEF Judged
    <3>2. current[x] \in Informative
      BY <3>1 DEF JudgeInv, JudgementKept
    <3> QED
      BY <1>2, <1>3, <2>2, <3>2 DEF JudgeTypes
  <2>3. CASE x = q /\ e \in Informative
    BY <1>2, <1>3, <2>3 DEF JudgeTypes, MayBecomeCurrent
  <2>4. CASE x = q /\ e \notin Informative
    <3>1. x \in Generated \/ \E s \in Run : x \in Judged(s)
      BY <1>5, <2>1, <2>4
    <3>2. current[q] \in Informative
      BY <2>4, <3>1 DEF JudgeInv, JudgementKept
    <3> QED
      BY <2>4, <3>2 DEF MayBecomeCurrent
  <2> QED
    BY <2>2, <2>3, <2>4
<1> QED
  BY <1>11, <1>12, <1>15, <1>16, <1>17, <1>18, <1>19 DEF JudgeInv
-----------------------------------------------------------------------------
LEMMA RecordKeeps ==
    ASSUME JudgeAssumption, JudgeInv, NEW p \in Poller, Record(p)
    PROVE  JudgeInv'
<1>1. PICK w : w = poll[p]
  OBVIOUS
<1>2. /\ w.pc = "record" /\ poll[p] # Idle /\ w \in Polls /\ w # Idle
      /\ Remembers(w) /\ Alone(w)
  <2>1. w.pc = "record"
    BY <1>1 DEF Record, At
  <2>2. Idle.pc = "idle"
    BY DEF Idle
  <2> QED
    BY <1>1, <2>1, <2>2, AtWork DEF JudgeInv, Knows
<1>3. PICK q : q = Min(Due(w))
  OBVIOUS
<1>4. q \in Due(w)
  <2>1. Due(w) \subseteq Nat
    BY DEF Due, JudgeAssumption
  <2>2. Due(w) # {}
    BY <1>1 DEF Record
  <2> QED
    BY <1>3, <2>1, <2>2, MinIs
<1>5. PICK e \in {"error"} \cup Informative : e = Evaluation(w.lines, q)
  BY EvaluationType
<1>6. UNCHANGED <<submitVars, providerVars, rowVars, disturbed, faults>>
  BY DEF Record
<1>7. CASE /\ q \notin Recorded(w.run)
           /\ history' = [history EXCEPT ![w.run][q] = e]
           /\ current' = IF MayBecomeCurrent(current[q], e)
                         THEN [current EXCEPT ![q] = e] ELSE current
           /\ whole' = IF Missing(w.lines, q) = {} THEN whole \cup {<<w.run, q>>} ELSE whole
           /\ Step(p, IF e \in Informative
                      THEN [w EXCEPT !.already = @ \cup {q}, !.ingested = @ + 1]
                      ELSE [w EXCEPT !.already = @ \cup {q}, !.errors = @ + 1])
  <2>1. PICK v : v = IF e \in Informative
                     THEN [w EXCEPT !.already = @ \cup {q}, !.ingested = @ + 1]
                     ELSE [w EXCEPT !.already = @ \cup {q}, !.errors = @ + 1]
    OBVIOUS
  <2>2. poll' = [poll EXCEPT ![p] = v]
    BY <1>7, <2>1 DEF Step
  <2>3. w.already \cup {q} \in SUBSET Question /\ w.ingested + 1 \in Nat /\ w.errors + 1 \in Nat
    BY <1>2, <1>4 DEF Polls, Due
  <2>4. v \in Polls /\ Counted(v, w, q, e)
    <3>1. CASE e \in Informative
      <4>1. v = [w EXCEPT !.already = w.already \cup {q}, !.ingested = w.ingested + 1]
        BY <2>1, <3>1
      <4> QED
        BY <1>2, <2>3, <3>1, <4>1 DEF Polls, Counted
    <3>2. CASE e \notin Informative
      <4>1. v = [w EXCEPT !.already = w.already \cup {q}, !.errors = w.errors + 1]
        BY <2>1, <3>2
      <4> QED
        BY <1>2, <2>3, <3>2, <4>1 DEF Polls, Counted
    <3> QED
      BY <3>1, <3>2
  <2> QED
    BY <1>1, <1>2, <1>4, <1>5, <1>6, <1>7, <2>2, <2>4, RecordsOne
<1>8. CASE q \in Recorded(w.run) /\ Step(p, Idle) /\ UNCHANGED evalVars
  <2>1. poll \in [Poller -> Polls \cup {Idle}]
    BY DEF JudgeInv, JudgeTypes
  <2>2. poll' = [o \in Poller |-> IF o \in {p} THEN Idle ELSE poll[o]]
    BY <1>8, <2>1 DEF Step
  <2>3. w.run \in disturbed
    BY <1>2, <1>4, <1>8 DEF Alone, Due
  <2>4. /\ UNCHANGED <<sent, provider, line, rowVars, evalVars>>
        /\ submitting' \subseteq submitting /\ disturbed' = disturbed
    BY <1>6, <1>8 DEF submitVars, providerVars
  <2>5. \A o \in {p} : poll[o] # Idle /\ poll[o].run \notin disturbed'
                           => poll[o].ingested = 0 /\ poll[o].errors = 0
    BY <1>1, <2>3, <2>4
  <2>6. {p} \in SUBSET Poller /\ disturbed \subseteq disturbed'
    BY <2>4
  <2> QED
    BY <2>2, <2>4, <2>5, <2>6, PollsEnd
<1> QED
  BY <1>1, <1>3, <1>5, <1>7, <1>8 DEF Record

\* What is due to a poll is nothing only when every question is recorded, if all
\* the jobs it saw completed.
LEMMA CompletedIsWhole ==
    ASSUME JudgeAssumption, JudgeInv, NEW w \in Polls, Remembers(w),
           Due(w) = {}, RunStatus(w.jobs) = "completed", NEW q \in Question
    PROVE  <<w.run, q>> \in whole
<1>1. w.run \in Run /\ w.jobs \in [Batch -> JobStates]
  BY DEF Polls
<1>2. \A b \in Batch : w.jobs[b] = "completed"
  BY <1>1, StatusSays
<1>3. Missing(w.lines, q) = {} /\ Metric # {}
  BY <1>2, NoneMissing DEF Remembers, JudgeAssumption
<1>4. q \in Recorded(w.run)
  BY <1>3 DEF Due, Remembers
<1>5. \A b \in Batch : provider[w.run][b] = "completed"
  BY <1>2 DEF Remembers, Terminal
<1>6. \A b \in Batch : provider[w.run][b] \notin GaveUp
  BY <1>5 DEF GaveUp
<1>7. RecordedWhole
  BY DEF JudgeInv
<1> QED
  BY <1>1, <1>4, <1>6, <1>7 DEF RecordedWhole

LEMMA CloseKeeps ==
    ASSUME JudgeAssumption, JudgeInv, NEW p \in Poller, Close(p)
    PROVE  JudgeInv'
<1>1. PICK w : w = poll[p]
  OBVIOUS
<1>2. /\ w.pc = "record" /\ poll[p] # Idle /\ w \in Polls /\ w # Idle
      /\ Remembers(w) /\ Alone(w)
  <2>1. w.pc = "record"
    BY <1>1 DEF Close, At
  <2>2. Idle.pc = "idle"
    BY DEF Idle
  <2> QED
    BY <1>1, <2>1, <2>2, AtWork DEF JudgeInv, Knows
<1>3. PICK r \in Run : r = w.run
  BY <1>2 DEF Polls
<1>4. PICK st : st = RunStatus(w.jobs)
  OBVIOUS
<1>5. /\ judged' = IF w.ingested = 0 THEN judged
                   ELSE [judged EXCEPT ![r] = w.judged + w.ingested]
      /\ failed' = IF w.errors = 0 THEN failed
                   ELSE [failed EXCEPT ![r] = w.failed + w.errors]
      /\ status' = IF st = w.status THEN status ELSE [status EXCEPT ![r] = st]
      /\ poll' = [poll EXCEPT ![p] = Idle]
      /\ Due(w) = {}
      /\ UNCHANGED <<submitVars, providerVars, evalVars, disturbed>>
  BY <1>1, <1>3, <1>4 DEF Close, Step
<1>6. UNCHANGED <<submitting, sent, provider, line, history, current, whole, disturbed>>
  BY <1>5 DEF submitVars, providerVars, evalVars
<1>7. JudgeTypes /\ CountsMatchHistory /\ RecordedWhole
  BY DEF JudgeInv
<1>8. /\ w.judged \in Nat /\ w.failed \in Nat /\ w.ingested \in Nat /\ w.errors \in Nat
      /\ w.jobs \in [Batch -> JobStates]
  BY <1>2 DEF Polls
<1>9. st \in RunStates
  BY <1>4, <1>8, StatusSays DEF RunStates, Unfinished
<1>10. \A s \in Run : /\ Judged(s)' = Judged(s) /\ Erred(s)' = Erred(s)
                      /\ Recorded(s)' = Recorded(s)
  BY <1>6 DEF Judged, Erred, Recorded
<1>11. \A o \in Poller : poll'[o] = IF o = p THEN Idle ELSE poll[o]
  BY <1>5, <1>7 DEF JudgeTypes
<1>12. \A s \in Run : s # r => /\ judged'[s] = judged[s] /\ failed'[s] = failed[s]
                               /\ status'[s] = status[s]
  BY <1>5, <1>7 DEF JudgeTypes
<1>13. /\ judged'[r] = IF w.ingested = 0 THEN judged[r] ELSE w.judged + w.ingested
       /\ failed'[r] = IF w.errors = 0 THEN failed[r] ELSE w.failed + w.errors
       /\ status'[r] = status[r] \/ status'[r] = st
  BY <1>5, <1>7 DEF JudgeTypes
<1>14. JudgeTypes'
  <2>1. judged' \in [Run -> Nat] /\ failed' \in [Run -> Nat]
    <3>1. w.judged + w.ingested \in Nat /\ w.failed + w.errors \in Nat
      <4>1. \A m \in Nat, n \in Nat : m + n \in Nat
        OBVIOUS
      <4> QED
        BY <1>8, <4>1, Zenon
    <3>2. judged \in [Run -> Nat] /\ failed \in [Run -> Nat]
      BY <1>7 DEF JudgeTypes
    <3>3. judged' \in [Run -> Nat]
      BY <1>5, <3>1, <3>2
    <3>4. failed' \in [Run -> Nat]
      BY <1>5, <3>1, <3>2
    <3> QED
      BY <3>3, <3>4
  <2>2. status' \in [Run -> RunStates]
    BY <1>5, <1>7, <1>9 DEF JudgeTypes
  <2>3. poll' \in [Poller -> Polls \cup {Idle}]
    <3> DEFINE P == Polls \cup {Idle}
    <3>1. poll \in [Poller -> P] /\ Idle \in P
      BY <1>7 DEF JudgeTypes
    <3> HIDE DEF P
    <3>2. poll' \in [Poller -> P]
      BY <1>5, <3>1
    <3> QED
      BY <3>2 DEF P
  <2> QED
    BY <1>6, <1>7, <2>1, <2>2, <2>3 DEF JudgeTypes
<1>15. SentInv' /\ AllAnswered'
  <2>1. sent[r] = Len(Plan)
    BY <1>2, <1>3 DEF Remembers
  <2>2. \A s \in Run : status'[s] # "none" => sent'[s] = Len(Plan)
    BY <1>6, <1>12, <2>1 DEF JudgeInv, SentInv
  <2> QED
    BY <1>6, <2>2 DEF JudgeInv, SentInv, AllAnswered
<1>16. ASSUME NEW o \in Poller PROVE Knows(poll[o])'
  <2>1. CASE o = p
    BY <1>11, <2>1 DEF Knows
  <2>2. CASE o # p
    <3>1. PICK x : x = poll[o]
      OBVIOUS
    <3>2. x = poll'[o] /\ Knows(x)
      BY <1>11, <2>2, <3>1 DEF JudgeInv
    <3>3. Knows(x)'
      <4> SUFFICES ASSUME x # Idle PROVE Remembers(x)' /\ Alone(x)'
        BY DEF Knows
      <4>1. x \in Polls /\ Remembers(x) /\ Alone(x)
        BY <1>7, <3>1, <3>2, AtWork DEF Knows
      <4>2. x.run \in Run
        BY <4>1 DEF Polls
      <4>3. Remembers(x)'
        BY <1>6, <1>10, <4>1, <4>2 DEF Remembers
      <4>4. CASE x.run = r
        <5>1. r \in disturbed
          BY <1>1, <1>2, <1>3, <2>2, <3>1, <4>4 DEF JudgeInv, Apart
        <5> QED
          BY <1>6, <4>3, <4>4, <5>1 DEF Alone
      <4>5. CASE x.run # r
        <5>1. Alone(x)'
          BY <1>6, <1>10, <1>12, <4>1, <4>2, <4>5 DEF Alone
        <5> QED
          BY <4>3, <5>1
      <4> QED
        BY <4>4, <4>5
    <3> QED
      BY <3>2, <3>3
  <2> QED
    BY <2>1, <2>2
<1>17. Apart'
  BY <1>6, <1>11 DEF JudgeInv, Apart
<1>18. CountsMatchHistory'
  <2>1. ASSUME NEW s \in Run, s # r PROVE Polled(s) => Polled(s)'
    BY <1>1, <1>3, <1>11, <2>1 DEF Polled
  <2>2. ASSUME NEW s \in Run, s # r
        PROVE  /\ judged'[s] <= Cardinality(Judged(s))
               /\ failed'[s] <= Cardinality(Erred(s))
               /\ s \notin disturbed /\ ~Polled(s)' =>
                      /\ judged'[s] = Cardinality(Judged(s))
                      /\ failed'[s] = Cardinality(Erred(s))
    BY <1>7, <1>12, <2>1, <2>2 DEF CountsMatchHistory
  <2>3. judged'[r] <= Cardinality(Judged(r)) /\ failed'[r] <= Cardinality(Erred(r))
    BY <1>2, <1>3, <1>7, <1>13 DEF CountsMatchHistory, Remembers
  <2>4. ASSUME r \notin disturbed
        PROVE  judged'[r] = Cardinality(Judged(r)) /\ failed'[r] = Cardinality(Erred(r))
    <3>1. /\ judged[r] = w.judged /\ failed[r] = w.failed
          /\ w.judged + w.ingested = Cardinality(Judged(r))
          /\ w.failed + w.errors = Cardinality(Erred(r))
      BY <1>2, <1>3, <2>4 DEF Alone
    <3> QED
      BY <1>8, <1>13, <3>1
  <2> QED
    BY <1>6, <1>10, <2>2, <2>3, <2>4 DEF CountsMatchHistory
<1>19. RecordedWhole'
  <2>1. ASSUME NEW s \in Run, NEW q \in Question, q \in Recorded(s)'
        PROVE  <<s, q>> \in whole' \/ \E b \in Batch : provider'[s][b] \in GaveUp
    <3>1. q \in Recorded(s)
      BY <1>10, <2>1
    <3>2. <<s, q>> \in whole \/ \E b \in Batch : provider[s][b] \in GaveUp
      BY <1>7, <3>1 DEF RecordedWhole
    <3> QED
      BY <1>6, <3>2
  <2>2. ASSUME NEW s \in Run, NEW q \in Question, status'[s] = "completed"
        PROVE  <<s, q>> \in whole'
    <3>1. CASE status[s] = "completed"
      BY <1>6, <1>7, <3>1 DEF RecordedWhole
    <3>2. CASE status[s] # "completed"
      <4>1. s = r /\ st = "completed"
        BY <1>12, <1>13, <2>2, <3>2
      <4> QED
        BY <1>2, <1>3, <1>4, <1>5, <1>6, <4>1, CompletedIsWhole
    <3> QED
      BY <3>1, <3>2
  <2> QED
    BY <2>1, <2>2 DEF RecordedWhole
<1>20. JudgementKept'
  BY <1>6, <1>10 DEF JudgeInv, JudgementKept
<1> QED
  BY <1>14, <1>15, <1>16, <1>17, <1>18, <1>19, <1>20 DEF JudgeInv
-----------------------------------------------------------------------------
LEMMA JudgeStutter == ASSUME JudgeInv, UNCHANGED judgeVars PROVE JudgeInv'
<1>1. UNCHANGED <<judged, failed, evalVars, poll, disturbed>>
  BY DEF judgeVars, rowVars
<1>2. UNCHANGED <<submitting, sent, provider, line, status>>
  BY DEF judgeVars, submitVars, providerVars, rowVars
<1>3. JudgeTypes'
  BY <1>1, <1>2 DEF JudgeInv, JudgeTypes, evalVars
<1>4. SentInv' /\ AllAnswered'
  BY <1>2 DEF JudgeInv, SentInv, AllAnswered
<1> QED
  BY <1>1, <1>2, <1>3, <1>4, JobsMove

LEMMA JudgeStep == ASSUME JudgeAssumption, JudgeInv, Next PROVE JudgeInv'
<1>1. ASSUME NEW r \in Run, Submission(r) PROVE JudgeInv'
  BY <1>1, SubmitKeeps, SendKeeps, StoreKeeps DEF Submission
<1>2. ASSUME NEW r \in Run, NEW b \in Batch, Provider(r, b) PROVE JudgeInv'
  BY <1>2, AnswerKeeps
<1>3. ASSUME NEW r \in Run, NEW p \in Poller, Load(p, r) PROVE JudgeInv'
  BY <1>3, LoadKeeps
<1>4. ASSUME NEW p \in Poller, PollOn(p) PROVE JudgeInv'
  BY <1>4, FetchKeeps, ReadAlreadyKeeps, RecordKeeps, CloseKeeps DEF PollOn
<1>5. ASSUME NEW p \in Poller, Raise(p) PROVE JudgeInv'
  BY <1>5, RaiseKeeps
<1>6. CASE Restart
  BY <1>6, RestartKeeps
<1> QED
  BY <1>1, <1>2, <1>3, <1>4, <1>5, <1>6 DEF Next

\* However submissions, the provider, the polls, raising calls and restarts
\* interleave, what a poll remembers of the others is still so, and only a run
\* whose polls overlapped or stopped half-way has counts that lack a question.
THEOREM JudgeHolds == Spec => []JudgeInv
<1>1. Init => JudgeInv
  BY JudgeAssumption, JudgeInit
<1>2. JudgeInv /\ [Next]_judgeVars => JudgeInv'
  BY JudgeAssumption, JudgeStep, JudgeStutter
<1> QED
  BY <1>1, <1>2, PTL DEF Spec

\* The counts of a run's row (batch_service.py, poll_and_ingest) never exceed the
\* evaluations in its history, and are exactly theirs once no poll is at work on a
\* run that no two polls and no fault disturbed, for any bank, plan and pollers.
THEOREM CountsAreHistory == Spec => []CountsMatchHistory
<1>1. JudgeInv => CountsMatchHistory
  BY DEF JudgeInv
<1> QED
  BY <1>1, JudgeHolds, PTL

\* No evaluation is recorded without a metric whose line is still to come, a run is
\* completed only when every question of it is recorded from every metric, and a
\* question that was judged is never left without a judgement
\* (evaluation_repository.py), whichever polls overlap.
THEOREM JudgementsStand == Spec => []JudgedForGood
<1>1. JudgeInv => JudgedForGood
  BY DEF JudgeInv, JudgedForGood
<1> QED
  BY <1>1, JudgeHolds, PTL

\* The rows and the polls keep their types: the counts are at most the size of the
\* bank, a stored run names every job, and no poll takes a question for recorded
\* that is not.
THEOREM JudgeTypeCorrect == Spec => []JudgeTypeOK
<1>1. ASSUME JudgeInv PROVE JudgeTypeOK
  <2>1. JudgeTypes /\ SentInv /\ CountsMatchHistory
    BY <1>1 DEF JudgeInv
  <2>2. Cardinality(Question) \in Nat
    BY JudgeAssumption, FS_CardinalityType DEF JudgeAssumption
  <2>3. ASSUME NEW r \in Run
        PROVE  judged[r] \in 0..Cardinality(Question) /\ failed[r] \in 0..Cardinality(Question)
    <3>1. /\ judged[r] \in Nat /\ failed[r] \in Nat
          /\ judged[r] <= Cardinality(Judged(r)) /\ failed[r] <= Cardinality(Erred(r))
      BY <2>1 DEF JudgeTypes, CountsMatchHistory
    <3> QED
      BY <2>2, <3>1, JudgeAssumption, CountsAreNat
  <2>4. /\ judged \in [Run -> 0..Cardinality(Question)]
        /\ failed \in [Run -> 0..Cardinality(Question)]
    BY <2>1, <2>3 DEF JudgeTypes
  <2>5. ASSUME NEW p \in Poller, poll[p].pc # "idle"
        PROVE  poll[p].already \subseteq Recorded(poll[p].run)
    BY <1>1, <2>1, <2>5, AtWork DEF JudgeInv, Knows, Remembers
  <2> QED
    BY <2>1, <2>4, <2>5
    DEF JudgeTypes, SentInv, JudgeTypeOK, JobStates, LineStates, RunStates, Marks
<1> QED
  BY <1>1, JudgeHolds, PTL
=============================================================================
