-------------------------------- MODULE Rounds --------------------------------
(***************************************************************************)
(* Generation rounds of one taxonomy.  Saving a setup starts its round 1,  *)
(* the professor asks for next rounds (of any revision of the setup) or    *)
(* retries a failed one, and a student's session starts a refill; all take *)
(* the taxonomy's lock, check that no round is in flight, plan the targets *)
(* from what the cells hold, and insert the row in one transaction.  A     *)
(* round tries its targets one by one, each in one commit with its         *)
(* counters, while reviews, students and other generation move the cells.  *)
(***************************************************************************)
EXTENDS Naturals, Sequences, FiniteSetsExt, Functions

CONSTANTS
    Round,         \* the rows of generation_rounds that may ever be inserted
    Cell,          \* subtopic and difficulty pairs
    CellTargets,   \* the cell_targets a setup may be saved with
    MaxSetups,     \* bound on the revisions saved
    RoundSize,     \* DEFAULT_ROUND_SIZE
    LowStock, UnseenTarget,   \* the refill's LOW_STOCK and UNSEEN_TARGET
    MaxElsewhere,  \* bound on the questions that enter cells from elsewhere
    MaxCrashes, MaxFaults     \* bounds on process stops and on lost commits

ASSUME RoundAssumption ==
    /\ IsFiniteSet(Cell)
    /\ \A t \in CellTargets : t \in [Cell -> Nat]
    /\ {MaxSetups, RoundSize, LowStock, UnseenTarget} \subseteq Nat
    /\ {MaxElsewhere, MaxCrashes, MaxFaults} \subseteq Nat

VARIABLES
    setups,      \* the cell_targets of each saved revision, latest last
    \* columns of the round
    status, setup, planned, asked, counts,
    \* the process: as in JobRunner, and the loop's remaining targets and
    \* whether the provider failed on one
    responding, tasks, pc, left, providerFailed,
    bank,        \* how many questions of each cell are in each state
    \* history: questions stored per round, targets counted after the stop
    \* was asked for, questions that did not come from a round, and the
    \* rounds a student's session started
    stored, late, elsewhere, refills,
    up, crashes, faults

roundRow == <<status, setup, planned, asked, counts>>
processVars == <<responding, tasks, pc, left, providerFailed>>
historyVars == <<stored, late, elsewhere, refills>>
faultVars == <<up, crashes, faults>>
roundVars == <<setups, roundRow, processVars, bank, historyVars, faultVars>>

InFlight == {"queued", "running"}
Ended == {"done", "failed"}
PC == {"idle", "prepare", "check", "try", "close", "stop", "fail"}
\* What comes of a target; "dropped" stands for the dropped and skipped columns.
Outcome == {"produced", "dropped"}

\* A question of a cell waits for review, is approved (fresh until the student
\* was served it, then seen), or was rejected.
Standing == {"pending", "fresh", "seen", "out"}

None == [c \in Cell |-> 0]

Init == /\ setups = <<>>
        /\ status = [r \in Round |-> "none"]
        /\ setup = [r \in Round |-> 0]
        /\ planned = [r \in Round |-> None]
        /\ asked = [r \in Round |-> FALSE]
        /\ counts = [r \in Round |-> [o \in Outcome |-> 0]]
        /\ responding = {} /\ tasks = {}
        /\ pc = [r \in Round |-> "idle"]
        /\ left = [r \in Round |-> None]
        /\ providerFailed = [r \in Round |-> FALSE]
        /\ bank = [c \in Cell |-> [k \in Standing |-> 0]]
        /\ stored = [r \in Round |-> 0]
        /\ late = [r \in Round |-> 0]
        /\ elsewhere = None /\ refills = {}
        /\ up = TRUE /\ crashes = 0 /\ faults = 0

Total(f) == SumFunction(f)
-----------------------------------------------------------------------------
(* Planning. *)

\* Mutant: pending questions do not fill a cell.
ApprovedOnly(c) == bank[c]["fresh"] + bank[c]["seen"]

\* cell_counts: approved and pending questions fill a cell.
CellCount(c) == bank[c]["pending"] + bank[c]["fresh"] + bank[c]["seen"]

Missing(target, have) == IF have < target THEN target - have ELSE 0

\* Below target, by the setup's own count.
CoverageDeficit(s) == [c \in Cell |-> Missing(setups[s][c], CellCount(c))]

\* inventory_deficits: cells low on questions the student has not seen; pending
\* reviews reserve capacity.
StockDeficit(s) ==
    [c \in Cell |-> IF setups[s][c] > 0 /\ bank[c]["fresh"] <= LowStock
                    THEN Missing(UnseenTarget, bank[c]["fresh"] + bank[c]["pending"])
                    ELSE 0]

\* plan_targets: at most size targets, in no cell more than it is missing;
\* a cell with no style or no open facet may get fewer.
Plans(deficit, size) ==
    {p \in [Cell -> 0..size] : Total(p) <= size /\ \A c \in Cell : p[c] <= deficit[c]}

\* Mutant: only rounds of the same setup revision are looked at.
ActiveOfSetup(s) == {r \in Round : status[r] \in InFlight /\ setup[r] = s}

\* active_round: of any setup revision of the taxonomy.
ActiveRounds(s) == {r \in Round : status[r] \in InFlight}

\* The row of a new round of revision s, queued unless it has no target.
InsertRound(r, s, plan) ==
    /\ status[r] = "none"
    /\ ActiveRounds(s) = {}
    /\ status' = [status EXCEPT ![r] = IF plan = None THEN "done" ELSE "queued"]
    /\ setup' = [setup EXCEPT ![r] = s]
    /\ planned' = [planned EXCEPT ![r] = plan]
    /\ left' = [left EXCEPT ![r] = plan]
    /\ UNCHANGED <<asked, counts, pc, providerFailed, bank, stored, late, elsewhere,
                   faultVars>>

\* save_setup: the revision and its round 1, in one commit; round 1 may be empty.
SaveSetup(r, t) ==
    /\ up /\ Len(setups) < MaxSetups
    /\ setups' = Append(setups, t)
    /\ \E plan \in Plans([c \in Cell |-> Missing(t[c], CellCount(c))], RoundSize) :
           InsertRound(r, Len(setups) + 1, plan)
    /\ responding' = responding \cup {r}
    /\ UNCHANGED <<tasks, refills>>

\* queue_next_round, for any revision: an empty round is refused.
NextRound(r, s, size) ==
    /\ up
    /\ \E plan \in Plans(CoverageDeficit(s), size) :
           plan # None /\ InsertRound(r, s, plan)
    /\ responding' = responding \cup {r}
    /\ UNCHANGED <<setups, tasks, refills>>

\* retry_job: the next round of a failed round's setup, no larger than it was.
RetryRound(r, old) ==
    /\ status[old] = "failed"
    /\ NextRound(r, setup[old], IF Total(planned[old]) > 0 THEN Total(planned[old]) ELSE 1)

\* schedule_refill: plans under the lock for the current revision, commits, and
\* runs the round in the same task.
Refill(r) ==
    /\ up /\ setups # <<>>
    /\ \E plan \in Plans(StockDeficit(Len(setups)), RoundSize) :
           /\ plan # None
           /\ InsertRound(r, Len(setups), plan)
    /\ tasks' = tasks \cup {r}
    /\ refills' = refills \cup {r}
    /\ UNCHANGED <<setups, responding>>

Respond(r) == /\ up /\ r \in responding
              /\ responding' = responding \ {r}
              /\ tasks' = tasks \cup {r}
              /\ UNCHANGED <<setups, roundRow, pc, left, providerFailed,
                             bank, historyVars, faultVars>>

\* The request raises after its commit: the round's task never runs.
RespondLost(r) == /\ up /\ r \in responding /\ faults < MaxFaults
                  /\ responding' = responding \ {r}
                  /\ faults' = faults + 1
                  /\ UNCHANGED <<setups, roundRow, tasks, pc, left,
                                 providerFailed, bank, historyVars, up, crashes>>
-----------------------------------------------------------------------------
(* run_round. *)

\* The claim: only a queued round is run.
Claim(r) ==
    /\ up /\ r \in tasks
    /\ tasks' = tasks \ {r}
    /\ \/ /\ status[r] = "queued"
          /\ status' = [status EXCEPT ![r] = "running"]
          /\ pc' = [pc EXCEPT ![r] = "prepare"]
       \/ /\ status[r] # "queued"
          /\ UNCHANGED <<status, pc>>
    /\ UNCHANGED <<setups, setup, planned, asked, counts, responding,
                   left, providerFailed, bank, historyVars, faultVars>>

\* The claiming update raises (a locked database): run_round records a failure.
ClaimFault(r) ==
    /\ up /\ r \in tasks /\ status[r] = "queued" /\ faults < MaxFaults
    /\ tasks' = tasks \ {r}
    /\ pc' = [pc EXCEPT ![r] = "fail"]
    /\ faults' = faults + 1
    /\ UNCHANGED <<setups, roundRow, responding, left, providerFailed, bank, historyVars,
                   up, crashes>>

\* The worker moves to pcNext and changes nothing else.
Goto(r, pcNext) ==
    /\ pc' = [pc EXCEPT ![r] = pcNext]
    /\ UNCHANGED <<setups, roundRow, responding, tasks, left,
                   providerFailed, bank, historyVars, faultVars>>

\* The worker returns, and its locals are gone.
Leave(r) == /\ pc' = [pc EXCEPT ![r] = "idle"]
            /\ left' = [left EXCEPT ![r] = None]
            /\ providerFailed' = [providerFailed EXCEPT ![r] = FALSE]

\* Lessons and facets, each in commits of their own: they never stop a round.
Prepare(r) == up /\ pc[r] = "prepare" /\ Goto(r, "check")

\* The head of the loop: raise_if_cancelled while there is a target left, and
\* the error of a round whose every target failed.
Check(r) ==
    /\ up /\ pc[r] = "check"
    /\ \/ left[r] # None /\ asked[r] /\ Goto(r, "stop")
       \/ left[r] # None /\ ~asked[r] /\ Goto(r, "try")
       \/ /\ left[r] = None
          /\ Goto(r, IF counts[r]["produced"] = 0 /\ providerFailed[r]
                     THEN "fail" ELSE "close")

\* What one target's commit does to the worker and the row besides its counter.
Tried(r, c) ==
    /\ up /\ pc[r] = "try" /\ left[r][c] > 0
    /\ left' = [left EXCEPT ![r][c] = @ - 1]
    /\ late' = IF asked[r] THEN [late EXCEPT ![r] = @ + 1] ELSE late
    /\ pc' = [pc EXCEPT ![r] = "check"]
    /\ UNCHANGED <<setups, status, setup, planned, asked, responding, tasks,
                   elsewhere, refills, faultVars>>

\* Mutant: the question is committed and the counters are written with those
\* of the next target.
ProduceUncounted(r, c, k) ==
    /\ Tried(r, c)
    /\ bank' = [bank EXCEPT ![c][k] = @ + 1]
    /\ stored' = [stored EXCEPT ![r] = @ + 1]
    /\ UNCHANGED <<counts, providerFailed>>

\* A question is stored, for review or approved by trust routing, in the commit
\* that counts it.
Produce(r, c, k) ==
    /\ Tried(r, c)
    /\ bank' = [bank EXCEPT ![c][k] = @ + 1]
    /\ stored' = [stored EXCEPT ![r] = @ + 1]
    /\ counts' = [counts EXCEPT ![r]["produced"] = @ + 1]
    /\ UNCHANGED providerFailed

\* No question comes of the target: dropped after its attempts, skipped (a
\* saturated cell, a lesson that cannot support a hard question), or lost to the
\* provider, which counts as dropped.
NoQuestion(r, c, failed) ==
    /\ Tried(r, c)
    /\ counts' = [counts EXCEPT ![r]["dropped"] = @ + 1]
    /\ providerFailed' = [providerFailed EXCEPT ![r] = @ \/ failed]
    /\ UNCHANGED <<bank, stored>>

\* Anything else the round does raises: what was not committed is rolled back.
RunFails(r) == up /\ pc[r] \in {"prepare", "try", "close"} /\ Goto(r, "fail")

Close(r) ==
    /\ up /\ pc[r] = "close"
    /\ status' = [status EXCEPT ![r] = "done"]
    /\ Leave(r)
    /\ UNCHANGED <<setups, setup, planned, asked, counts, responding, tasks,
                   bank, historyVars, faultVars>>

\* Mutant: a cancelled round goes back to the queue.
RequeueCancelled(r) ==
    /\ up /\ pc[r] \in {"stop", "fail"}
    /\ status' = [status EXCEPT ![r] = IF pc[r] = "stop" THEN "queued" ELSE "failed"]
    /\ Leave(r)
    /\ UNCHANGED <<setups, setup, planned, asked, counts, responding, tasks,
                   bank, historyVars, faultVars>>

\* except JobCancelled, and except Exception.
RecordEnd(r) ==
    /\ up /\ pc[r] \in {"stop", "fail"}
    /\ status' = [status EXCEPT ![r] = "failed"]
    /\ Leave(r)
    /\ UNCHANGED <<setups, setup, planned, asked, counts, responding, tasks,
                   bank, historyVars, faultVars>>

\* That write fails too: the row stays running.
RecordLost(r) ==
    /\ up /\ pc[r] \in {"stop", "fail"} /\ faults < MaxFaults
    /\ Leave(r)
    /\ faults' = faults + 1
    /\ UNCHANGED <<setups, roundRow, responding, tasks, bank, historyVars,
                   up, crashes>>
-----------------------------------------------------------------------------
(* Cancelling and restarting, as for any job. *)

\* cancel_job: a queued round ends now, a running one is asked to stop.  (The
\* check and the write are two transactions, which JobRunner tells apart.)
Cancel(r) ==
    /\ up /\ status[r] \in InFlight
    /\ asked' = [asked EXCEPT ![r] = TRUE]
    /\ status' = [status EXCEPT ![r] = IF @ = "queued" THEN "failed" ELSE @]
    /\ UNCHANGED <<setups, setup, planned, counts, processVars, bank, historyVars, faultVars>>

Crash ==
    /\ up /\ crashes < MaxCrashes
    /\ up' = FALSE /\ crashes' = crashes + 1
    /\ responding' = {} /\ tasks' = {}
    /\ pc' = [r \in Round |-> "idle"]
    /\ left' = [r \in Round |-> None]
    /\ providerFailed' = [r \in Round |-> FALSE]
    /\ UNCHANGED <<setups, roundRow, bank, historyVars, faults>>

\* Mutant: a restart forgets the rounds.
RecoverJobsOnly ==
    /\ ~up /\ up' = TRUE
    /\ UNCHANGED <<setups, roundRow, processVars, bank, historyVars, crashes, faults>>

\* fail_interrupted_jobs covers rounds too.
Recover ==
    /\ ~up /\ up' = TRUE
    /\ status' = [r \in Round |-> IF status[r] \in InFlight THEN "failed" ELSE status[r]]
    /\ UNCHANGED <<setups, setup, planned, asked, counts, processVars, bank, historyVars,
                   crashes, faults>>
-----------------------------------------------------------------------------
(* What else moves the cells. *)

Move(c, from, to) ==
    /\ up /\ bank[c][from] > 0
    /\ bank' = [bank EXCEPT ![c][from] = @ - 1, ![c][to] = @ + 1]
    /\ UNCHANGED <<setups, roundRow, processVars, stored, late, refills, faultVars>>

\* submit_review.  A review may be given to a question in any state.
Approve(c) == Move(c, "pending", "fresh") /\ UNCHANGED elsewhere

Reject(c) == /\ \E k \in {"pending", "fresh", "seen"} : Move(c, k, "out")
             /\ UNCHANGED elsewhere

\* A rejected question approved after all is fresh or seen as it was before.
Reinstate(c) == /\ Total(elsewhere) < MaxElsewhere
                /\ \E k \in {"fresh", "seen"} : Move(c, "out", k)
                /\ elsewhere' = [elsewhere EXCEPT ![c] = @ + 1]

\* The student is served an approved question.
ServeQuestion(c) == Move(c, "fresh", "seen") /\ UNCHANGED elsewhere

\* A question enters the cell from elsewhere: bulk generation, a coverage fill,
\* one more tag, a corrected difficulty.
OtherQuestion(c, k) ==
    /\ up /\ Total(elsewhere) < MaxElsewhere
    /\ bank' = [bank EXCEPT ![c][k] = @ + 1]
    /\ elsewhere' = [elsewhere EXCEPT ![c] = @ + 1]
    /\ UNCHANGED <<setups, roundRow, processVars, stored, late, refills, faultVars>>
-----------------------------------------------------------------------------
Target(r) == \E c \in Cell :
    \/ \E k \in {"pending", "fresh"} : Produce(r, c, k)
    \/ \E failed \in BOOLEAN : NoQuestion(r, c, failed)

Worker(r) == \/ Claim(r) \/ Prepare(r) \/ Check(r) \/ Target(r) \/ Close(r)
             \/ RecordEnd(r)

Start(r) == \/ \E t \in CellTargets : SaveSetup(r, t)
            \/ \E s \in 1..Len(setups) : NextRound(r, s, RoundSize)
            \/ \E old \in Round : RetryRound(r, old)
            \/ Refill(r)

Next == \/ \E r \in Round : \/ Start(r) \/ Respond(r) \/ RespondLost(r)
                            \/ Worker(r) \/ ClaimFault(r) \/ RunFails(r) \/ RecordLost(r)
                            \/ Cancel(r)
        \/ \E c \in Cell : \/ Approve(c) \/ Reject(c) \/ Reinstate(c) \/ ServeQuestion(c)
                           \/ \E k \in {"pending", "fresh"} : OtherQuestion(c, k)
        \/ Crash \/ Recover

Spec == Init /\ [][Next]_roundVars
-----------------------------------------------------------------------------
(* Properties. *)

\* The values of the columns, of the loop's locals and of the cells.
RoundTypeOK ==
    /\ setups \in Seq(CellTargets)
    /\ status \in [Round -> {"none"} \cup InFlight \cup Ended]
    /\ setup \in [Round -> 0..MaxSetups]
    /\ planned \in [Round -> [Cell -> 0..RoundSize]]
    /\ asked \in [Round -> BOOLEAN]
    /\ counts \in [Round -> [Outcome -> 0..RoundSize]]
    /\ {responding, tasks} \subseteq SUBSET Round
    /\ pc \in [Round -> PC]
    /\ left \in [Round -> [Cell -> 0..RoundSize]]
    /\ providerFailed \in [Round -> BOOLEAN]
    /\ bank \in [Cell -> [Standing -> Nat]]
    /\ stored \in [Round -> 0..RoundSize]
    /\ late \in [Round -> 0..RoundSize]
    /\ elsewhere \in [Cell -> Nat] /\ refills \subseteq Round
    /\ up \in BOOLEAN /\ crashes \in 0..MaxCrashes /\ faults \in 0..MaxFaults

\* One round at a time generates for a taxonomy, whichever revisions of the
\* setup and whichever of professor and student started them.
OneActiveRound ==
    \A r, s \in Round : {status[r], status[s]} \subseteq InFlight => r = s

Counted(r) == counts[r]["produced"] + counts[r]["dropped"]

\* A round's counters are those of its questions and of the targets it tried,
\* through stops, failures and crashes; a done round tried them all, and one
\* with no question and a failed provider is not done.
CountersMatch ==
    \A r \in Round :
        /\ counts[r]["produced"] = stored[r]
        /\ pc[r] \in {"check", "try"} => Counted(r) + Total(left[r]) = Total(planned[r])
        /\ status[r] = "done" => Counted(r) = Total(planned[r])
        /\ pc[r] = "close" /\ stored[r] = 0 => ~providerFailed[r]

\* What cell c holds, and what the round in flight may still add to it.
SumOver(f(_), S) == SumFunction([r \in S |-> f(r)])
Committed(c) ==
    CellCount(c) + SumOver(LAMBDA r : left[r][c], {r \in Round : status[r] \in InFlight})

\* A cell is never filled over the highest target it was given, but for what
\* refills planned and what did not come from rounds; and a refill stocks it up to
\* UNSEEN_TARGET and no further, counting the reviews that wait.
RefillStopsAtTarget(r, c) ==
    status[r] \in InFlight /\ planned[r][c] > 0
    => bank[c]["fresh"] + bank[c]["pending"] + left[r][c] <= UnseenTarget + elsewhere[c]

NoOverfill ==
    \A c \in Cell :
        /\ Committed(c) <= Max({setups[s][c] : s \in DOMAIN setups} \cup {0})
                           + SumOver(LAMBDA r : planned[r][c], refills) + elsewhere[c]
        /\ \A r \in refills : RefillStopsAtTarget(r, c)

\* While the server is up, a round in flight has somebody who will move it: it
\* blocks its taxonomy for ever (until a restart) only after a lost commit.
HasOwner(r) == r \in responding \/ r \in tasks \/ pc[r] # "idle"
BlockedOnlyByFault ==
    \A r \in Round : up /\ status[r] \in InFlight /\ ~HasOwner(r) => faults > 0

\* Rounds keep the promises of JobContract: what is kept is the targets tried.
Contract == INSTANCE JobContract WITH Job <- Round, kept <- [r \in Round |-> Counted(r)]
ImplementsContract == Contract!Spec
===============================================================================
