---------------------------- MODULE CoverageFill ----------------------------
(***************************************************************************)
(* Coverage fills on top of JobRunner.  A fill tries each of its gap       *)
(* targets once: a question is generated, the gap is skipped for want of a *)
(* source, or the provider fails and the run goes on.  A start is refused  *)
(* while a fill on one of its topics is in flight; the check and the       *)
(* insert are two transactions.  A retry of a fill goes through the same   *)
(* check, with the targets the stopped job did not reach or the finished   *)
(* one lists as failed.                                                    *)
(***************************************************************************)
EXTENDS JobRunner, Sequences, SequencesExt

CONSTANTS
    Request,     \* concurrent start and retry requests
    Gap,         \* subtopic and difficulty pairs
    TopicOf(_),  \* the topic of a gap's subtopic
    Plans,       \* the sequences of gaps a professor may ask to fill
    MaxFills,    \* bound on the fills started anew
    NoFill

ASSUME FillAssumption ==
    /\ \A plan \in Plans : plan \in Seq(Gap) /\ Len(plan) \in 1..MaxUnits
    /\ MaxFills \in Nat
    /\ "counted" \in Kind
    /\ NoFill \notin Job

Outcome == {"generated", "skipped", "failed"}

VARIABLES
    targets,    \* request.targets; topic_ids are their topics
    failed,     \* result.failed: written when the job is DONE
    fillRetriedBy,  \* request.retried_by
    outcome,    \* the body's lists, one outcome per target handled,
    failing,    \* and of these its list of the targets that failed
    firstFill,       \* history: the fill this chain of retries began with
    fpc, fjob, ftargets, fchild    \* the requests

fillRow == <<targets, failed, fillRetriedBy, firstFill>>
requestVars == <<fpc, fjob, ftargets, fchild>>
bodyLists == <<outcome, failing>>
fillVars == <<fillRow, bodyLists, requestVars>>
fillAllVars == <<runnerVars, fillVars>>

FillInit ==
    /\ Init
    /\ targets = [j \in Job |-> <<>>]
    /\ failed = [j \in Job |-> <<>>]
    /\ fillRetriedBy = [j \in Job |-> NoFill]
    /\ outcome = [j \in Job |-> <<>>]
    /\ failing = [j \in Job |-> <<>>]
    /\ firstFill = [j \in Job |-> NoFill]
    /\ fpc = [h \in Request |-> "idle"]
    /\ fjob = [h \in Request |-> NoFill]
    /\ ftargets = [h \in Request |-> <<>>]
    /\ fchild = [h \in Request |-> NoFill]
-----------------------------------------------------------------------------
(* The requests. *)

Topics(gaps) == {TopicOf(g) : g \in ToSet(gaps)}

\* Mutant: only fills that already run count as active.
RunningTopics == UNION {Topics(targets[j]) : j \in {k \in Job : status[k] = "running"}}

\* active_generation_topic_ids
ActiveTopics == UNION {Topics(targets[j]) : j \in {k \in Job : status[k] \in InFlight}}

\* Mutant: the target in progress is taken for done.
RetryTargetsAfter(j) == IF status[j] # "done"
                        THEN SubSeq(targets[j], done[j] + 2, Len(targets[j]))
                        ELSE failed[j]

\* coverage_retry_targets
RetryTargets(j) == IF status[j] # "done"
                   THEN SubSeq(targets[j], done[j] + 1, Len(targets[j]))
                   ELSE failed[j]

\* _retry_label
RetriableFill(j) == status[j] \in Ended /\ fillRetriedBy[j] = NoFill /\ RetryTargets(j) # <<>>

\* Request h moves on to step pc with these locals.
Go(h, pcNext, j, gaps, c) ==
    /\ fpc' = [fpc EXCEPT ![h] = pcNext]
    /\ fjob' = [fjob EXCEPT ![h] = j]
    /\ ftargets' = [ftargets EXCEPT ![h] = gaps]
    /\ fchild' = [fchild EXCEPT ![h] = c]

Return(h) == Go(h, "idle", NoFill, <<>>, NoFill)

\* POST /coverage/generation-runs.
StartFill(h, plan) ==
    /\ up /\ fpc[h] = "idle"
    /\ Cardinality({j \in Job : firstFill[j] = j}) < MaxFills
    /\ Go(h, "topics", NoFill, plan, NoFill)
    /\ UNCHANGED <<runnerVars, fillRow, bodyLists>>

\* POST /jobs/{job_id}/retry of a fill.
RetryFill(h, j) ==
    /\ up /\ fpc[h] = "idle" /\ RetriableFill(j)
    /\ Go(h, "topics", j, RetryTargets(j), NoFill)
    /\ UNCHANGED <<runnerVars, fillRow, bodyLists>>

\* queue_coverage_fill: refused while one of the topics is generating.
CheckTopics(h) ==
    /\ up /\ fpc[h] = "topics"
    /\ \/ /\ Topics(ftargets[h]) \cap ActiveTopics = {}
          /\ Go(h, "insert", fjob[h], ftargets[h], NoFill)
       \/ /\ Topics(ftargets[h]) \cap ActiveTopics # {}
          /\ Return(h)
    /\ UNCHANGED <<runnerVars, fillRow, bodyLists>>

\* queue_coverage_fill: the job is inserted; a retry has its parent to mark.
InsertFill(h, c) ==
    /\ fpc[h] = "insert"
    /\ Insert(c, "counted", Len(ftargets[h]))
    /\ targets' = [targets EXCEPT ![c] = ftargets[h]]
    /\ \/ /\ fjob[h] = NoFill
          /\ firstFill' = [firstFill EXCEPT ![c] = c]
          /\ Return(h)
       \/ /\ fjob[h] # NoFill
          /\ firstFill' = [firstFill EXCEPT ![c] = firstFill[fjob[h]]]
          /\ Go(h, "mark", fjob[h], <<>>, c)
    /\ UNCHANGED <<failed, fillRetriedBy, bodyLists>>

MarkRetried(h) ==
    /\ up /\ fpc[h] = "mark"
    /\ fillRetriedBy' = [fillRetriedBy EXCEPT ![fjob[h]] = fchild[h]]
    /\ Return(h)
    /\ UNCHANGED <<runnerVars, targets, failed, firstFill, bodyLists>>

\* The marking commit raises: the inserted job is never run.
MarkLost(h) ==
    /\ fpc[h] = "mark"
    /\ RespondLost(fchild[h])
    /\ Return(h)
    /\ UNCHANGED <<fillRow, bodyLists>>

FillRespond(j) ==
    /\ \A h \in Request : ~(fpc[h] = "mark" /\ fchild[h] = j)
    /\ Respond(j) \/ RespondLost(j)
    /\ UNCHANGED fillVars
-----------------------------------------------------------------------------
(* The worker: run_generation_for_gaps. *)

\* The next target is handled.  Only a generated question is a commit; every
\* outcome is counted by on_target, and a provider failure is listed.
HandleTarget(j, o) ==
    /\ Work(j)
    /\ outcome' = [outcome EXCEPT ![j] = Append(@, o)]
    /\ failing' = IF o = "failed"
                  THEN [failing EXCEPT ![j] = Append(@, targets[j][kept[j] + 1])]
                  ELSE failing
    /\ UNCHANGED <<fillRow, requestVars>>

\* DONE, with the result: the failed targets are stored only here.
FinishFill(j) ==
    /\ Close(j)
    /\ failed' = [failed EXCEPT ![j] = failing[j]]
    /\ UNCHANGED <<targets, fillRetriedBy, firstFill, bodyLists, requestVars>>

\* The rest of the runner's steps.
FillRecord(j) == /\ Claim(j) \/ Count(j) \/ Check(j) \/ RecordEnd(j) \/ Trouble(j) \/ Cancel(j)
                 /\ UNCHANGED fillVars

FillCrash == /\ Crash
             /\ fpc' = [h \in Request |-> "idle"]
             /\ fjob' = [h \in Request |-> NoFill]
             /\ ftargets' = [h \in Request |-> <<>>]
             /\ fchild' = [h \in Request |-> NoFill]
             /\ UNCHANGED <<fillRow, bodyLists>>

FillRecover == Recover /\ UNCHANGED fillVars
-----------------------------------------------------------------------------
FillNext ==
    \/ \E h \in Request : \/ \E plan \in Plans : StartFill(h, plan)
                          \/ \E j \in Job : RetryFill(h, j) \/ InsertFill(h, j)
                          \/ CheckTopics(h) \/ MarkRetried(h) \/ MarkLost(h)
    \/ \E j \in Job : \/ FillRespond(j) \/ FillRecord(j) \/ FinishFill(j)
                      \/ \E o \in Outcome : HandleTarget(j, o)
    \/ FillCrash \/ FillRecover

FillSpec == FillInit /\ [][FillNext]_fillAllVars
-----------------------------------------------------------------------------
(* Properties. *)

\* The values of the columns, of the body's lists and of the requests.
FillTypeOK ==
    /\ TypeOK
    /\ targets \in [Job -> Seq(Gap)]
    /\ failed \in [Job -> Seq(Gap)]
    /\ outcome \in [Job -> Seq(Outcome)]
    /\ failing \in [Job -> Seq(Gap)]
    /\ fillRetriedBy \in [Job -> Job \cup {NoFill}]
    /\ firstFill \in [Job -> Job \cup {NoFill}]
    /\ fpc \in [Request -> {"idle", "topics", "insert", "mark"}]
    /\ fjob \in [Request -> Job \cup {NoFill}]
    /\ ftargets \in [Request -> Seq(Gap)]
    /\ fchild \in [Request -> Job \cup {NoFill}]

\* One start or retry at a time: two fills in flight never share a topic, which is
\* what the check before a start is for ("refuse a second, overlapping run on the same gaps", coverage.py:86).
NoOverlappingFills ==
    \A j, k \in Job : j # k /\ {status[j], status[k]} \subseteq InFlight
                      => Topics(targets[j]) \cap Topics(targets[k]) = {}

Chain(r) == {j \in Job : firstFill[j] = r}

\* Some job of the chain handled gap g with one of these outcomes.
Settled(r, g, outcomes) ==
    \E j \in Chain(r) : \E i \in DOMAIN outcome[j] :
        targets[j][i] = g /\ outcome[j][i] \in outcomes

\* Some job of the chain in flight, or open to a retry, still has gap g to do.
Owed(r, g) ==
    \E j \in Chain(r) : \/ status[j] \in InFlight /\ g \in ToSet(targets[j])
                        \/ RetriableFill(j) /\ g \in ToSet(RetryTargets(j))

\* A gap a professor asked for is tried or still owed: no stop, failure, crash or
\* retry drops a target that was never reached.  And when every job of the chain
\* ran to its end, a gap the provider failed on is still owed.
NoTargetForgotten ==
    \A r \in {j \in Job : firstFill[j] = j} : \A g \in ToSet(targets[r]) :
        \/ Owed(r, g)
        \/ Settled(r, g, {"generated", "skipped"})
        \/ Settled(r, g, {"failed"}) /\ \E j \in Chain(r) : status[j] = "failed"
=============================================================================
