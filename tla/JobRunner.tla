------------------------------ MODULE JobRunner ------------------------------
(***************************************************************************)
(* The life of a row of background_jobs: the request that inserts it, the  *)
(* task the job queue runs once the response is sent, the runner's claim,  *)
(* its progress commits, the professor's cancel on another session, the    *)
(* failures of each step, and the restart that fails what was in flight.   *)
(* Every step is one database transaction, so the steps of requests, of    *)
(* workers and of a restart interleave here exactly where they can in the  *)
(* process (sync handlers and tasks share one thread pool).                *)
(***************************************************************************)
EXTENDS Naturals

CONSTANTS
    Job,         \* the rows that may ever be inserted
    Kind,        \* the kinds of body in use, a subset of AllKinds
    MaxUnits,    \* bound on a job's total
    MaxCrashes,  \* bound on the times the process stops
    MaxFaults    \* bound on the commits that fail and lose something

\* How a body reports: "counted" bodies commit each unit and then call
\* progress (bulk, coverage, regeneration, pre-generation); "embedding" is one
\* that first recounts its total; "import" is one step and never looks at a
\* cancel once it runs.
AllKinds == {"counted", "embedding", "import"}

ASSUME RunnerAssumption == /\ Kind \subseteq AllKinds
                           /\ MaxUnits \in Nat \ {0}
                           /\ MaxCrashes \in Nat
                           /\ MaxFaults \in Nat

VARIABLES
    \* columns of the row
    status, kind, units, done, asked, error,
    \* the process: requests that committed a row and have not yet responded,
    \* submitted tasks, cancel requests past their checks, worker threads
    responding, tasks, cancelling, pc,
    \* what the bodies committed (history): all units, and those kept after
    \* the stop was asked for
    kept, late,
    up, crashes, faults

rowVars == <<status, kind, units, done, asked, error>>
processVars == <<responding, tasks, cancelling, pc>>
historyVars == <<kept, late>>
faultVars == <<up, crashes, faults>>
runnerVars == <<rowVars, processVars, historyVars, faultVars>>

InFlight == {"queued", "running"}
Ended == {"done", "failed"}
Status == {"none"} \cup InFlight \cup Ended
Error == {"none", "cancelled", "interrupted", "error"}
PC == {"idle", "size", "work", "count", "check", "stop", "fail", "close"}

Init == /\ status = [j \in Job |-> "none"]
        /\ kind = [j \in Job |-> "counted"]
        /\ units = [j \in Job |-> 0]
        /\ done = [j \in Job |-> 0]
        /\ asked = [j \in Job |-> FALSE]
        /\ error = [j \in Job |-> "none"]
        /\ responding = {} /\ tasks = {} /\ cancelling = {}
        /\ pc = [j \in Job |-> "idle"]
        /\ kept = [j \in Job |-> 0]
        /\ late = [j \in Job |-> 0]
        /\ up = TRUE /\ crashes = 0 /\ faults = 0
-----------------------------------------------------------------------------
(* Starting a job. *)

\* create_job and the commit that follows it: the row is there, the task is
\* not (it starts after the response).  Regenerations and imports have total 1; a
\* switch of the embedding model is inserted with total 0.
Insert(j, k, n) ==
    /\ up /\ status[j] = "none"
    /\ k = "import" => n = 1
    /\ n = 0 => k = "embedding"
    /\ status' = [status EXCEPT ![j] = "queued"]
    /\ kind' = [kind EXCEPT ![j] = k]
    /\ units' = [units EXCEPT ![j] = n]
    /\ responding' = responding \cup {j}
    /\ UNCHANGED <<done, asked, error, tasks, cancelling, pc, historyVars, faultVars>>

\* Mutant: the task is submitted on a queue the response does not run.
RespondDropsTask(j) ==
    /\ up /\ j \in responding
    /\ responding' = responding \ {j}
    /\ UNCHANGED <<rowVars, tasks, cancelling, pc, historyVars, faultVars>>

\* The response is sent: the job queue runs the submitted task.
Respond(j) ==
    /\ up /\ j \in responding
    /\ responding' = responding \ {j}
    /\ tasks' = tasks \cup {j}
    /\ UNCHANGED <<rowVars, cancelling, pc, historyVars, faultVars>>

\* The request raises after its commit: its background tasks never run.
RespondLost(j) ==
    /\ up /\ j \in responding /\ faults < MaxFaults
    /\ responding' = responding \ {j}
    /\ faults' = faults + 1
    /\ UNCHANGED <<rowVars, tasks, cancelling, pc, historyVars, up, crashes>>
-----------------------------------------------------------------------------
(* The worker: execute() and the bodies it runs. *)

\* Mutant: a body that reports a unit before it commits it.
CountsFirst(j) == IF kind[j] = "embedding" THEN "size" ELSE "count"

First(j) == IF kind[j] = "embedding" THEN "size" ELSE "work"

\* The atomic claim: run the body only if the row is still queued.
Claim(j) ==
    /\ up /\ j \in tasks
    /\ tasks' = tasks \ {j}
    /\ \/ /\ status[j] = "queued"
          /\ status' = [status EXCEPT ![j] = "running"]
          /\ pc' = [pc EXCEPT ![j] = First(j)]
       \/ /\ status[j] # "queued"
          /\ UNCHANGED <<status, pc>>
    /\ UNCHANGED <<kind, units, done, asked, error, responding, cancelling,
                   historyVars, faultVars>>

\* The claiming update raises (a locked database): execute records a failure.
ClaimFault(j) ==
    /\ up /\ j \in tasks /\ faults < MaxFaults
    /\ tasks' = tasks \ {j}
    /\ pc' = [pc EXCEPT ![j] = "fail"]
    /\ faults' = faults + 1
    /\ UNCHANGED <<rowVars, responding, cancelling, historyVars, up, crashes>>

\* An embedding body recounts the chunks that are still missing.
Size(j, n) ==
    /\ up /\ pc[j] = "size"
    /\ units' = [units EXCEPT ![j] = n]
    /\ pc' = [pc EXCEPT ![j] = IF n = 0 THEN "close" ELSE "work"]
    /\ UNCHANGED <<status, kind, done, asked, error, responding, tasks, cancelling,
                   historyVars, faultVars>>

\* The body commits one unit of work.
Work(j) ==
    /\ up /\ pc[j] = "work"
    /\ kept' = [kept EXCEPT ![j] = @ + 1]
    /\ late' = IF asked[j] THEN [late EXCEPT ![j] = @ + 1] ELSE late
    /\ pc' = [pc EXCEPT ![j] = IF kind[j] = "import" THEN "close" ELSE "count"]
    /\ UNCHANGED <<rowVars, responding, tasks, cancelling, faultVars>>

\* The body raises before it commits the unit: provider, parser, database.
WorkFails(j) ==
    /\ up /\ pc[j] \in {"size", "work"}
    /\ pc' = [pc EXCEPT ![j] = "fail"]
    /\ UNCHANGED <<rowVars, responding, tasks, cancelling, historyVars, faultVars>>

\* progress(): the count, in a commit of its own, ...
Count(j) ==
    /\ up /\ pc[j] = "count"
    /\ done' = [done EXCEPT ![j] = @ + 1]
    /\ pc' = [pc EXCEPT ![j] = "check"]
    /\ UNCHANGED <<status, kind, units, asked, error, responding, tasks, cancelling,
                   historyVars, faultVars>>

\* ... which may fail and leave the unit uncounted ...
CountFault(j) ==
    /\ up /\ pc[j] = "count" /\ faults < MaxFaults
    /\ pc' = [pc EXCEPT ![j] = "fail"]
    /\ faults' = faults + 1
    /\ UNCHANGED <<rowVars, responding, tasks, cancelling, historyVars, up, crashes>>

\* Mutants: a cancelled loop that breaks and returns, and one that reads a
\* stale copy of the column and never stops for it.
CheckBreaks(j) ==
    /\ up /\ pc[j] = "check"
    /\ pc' = [pc EXCEPT ![j] = IF asked[j] \/ done[j] = units[j] THEN "close" ELSE "work"]
    /\ UNCHANGED <<rowVars, responding, tasks, cancelling, historyVars, faultVars>>

CheckIsStale(j) ==
    /\ up /\ pc[j] = "check"
    /\ pc' = [pc EXCEPT ![j] = IF done[j] < units[j] THEN "work" ELSE "close"]
    /\ UNCHANGED <<rowVars, responding, tasks, cancelling, historyVars, faultVars>>

\* ... and then raise_if_cancelled, reading the column fresh.
Check(j) ==
    /\ up /\ pc[j] = "check"
    /\ pc' = [pc EXCEPT ![j] = CASE asked[j] -> "stop"
                                 [] ~asked[j] /\ done[j] < units[j] -> "work"
                                 [] OTHER -> "close"]
    /\ UNCHANGED <<rowVars, responding, tasks, cancelling, historyVars, faultVars>>

\* The body returned: DONE and the result.  An import's count is written here.
Close(j) ==
    /\ up /\ pc[j] = "close"
    /\ status' = [status EXCEPT ![j] = "done"]
    /\ done' = IF kind[j] = "import" THEN [done EXCEPT ![j] = 1] ELSE done
    /\ pc' = [pc EXCEPT ![j] = "idle"]
    /\ UNCHANGED <<kind, units, asked, error, responding, tasks, cancelling,
                   historyVars, faultVars>>

\* The DONE commit raises: the job is recorded as failed instead.
CloseFault(j) ==
    /\ up /\ pc[j] = "close" /\ faults < MaxFaults
    /\ pc' = [pc EXCEPT ![j] = "fail"]
    /\ faults' = faults + 1
    /\ UNCHANGED <<rowVars, responding, tasks, cancelling, historyVars, up, crashes>>

\* except JobCancelled, and except Exception: the row is loaded and written,
\* whatever its status is.
RecordEnd(j) ==
    /\ up /\ pc[j] \in {"stop", "fail"}
    /\ status' = [status EXCEPT ![j] = "failed"]
    /\ error' = [error EXCEPT ![j] = IF pc[j] = "stop" THEN "cancelled" ELSE "error"]
    /\ pc' = [pc EXCEPT ![j] = "idle"]
    /\ UNCHANGED <<kind, units, done, asked, responding, tasks, cancelling,
                   historyVars, faultVars>>

\* Recording the end fails: logged after a failure, raised out of the task
\* after a cancel; either way the row stays as it was.
RecordLost(j) ==
    /\ up /\ pc[j] \in {"stop", "fail"} /\ faults < MaxFaults
    /\ pc' = [pc EXCEPT ![j] = "idle"]
    /\ faults' = faults + 1
    /\ UNCHANGED <<rowVars, responding, tasks, cancelling, historyVars, up, crashes>>
-----------------------------------------------------------------------------
(* Cancelling, and restarting. *)

\* cancel_job loads the row and refuses one that has ended, and a running
\* import; the writes come later, in a transaction of their own.
CancelCheck(j) ==
    /\ up /\ status[j] \in InFlight
    /\ ~ (kind[j] = "import" /\ status[j] = "running")
    /\ cancelling' = cancelling \cup {j}
    /\ UNCHANGED <<rowVars, responding, tasks, pc, historyVars, faultVars>>

\* A row that is still queued ends now; any other is only asked to stop.
CancelWrite(j) ==
    /\ up /\ j \in cancelling
    /\ cancelling' = cancelling \ {j}
    /\ asked' = [asked EXCEPT ![j] = TRUE]
    /\ \/ /\ status[j] = "queued"
          /\ status' = [status EXCEPT ![j] = "failed"]
          /\ error' = [error EXCEPT ![j] = "cancelled"]
       \/ /\ status[j] # "queued"
          /\ UNCHANGED <<status, error>>
    /\ UNCHANGED <<kind, units, done, responding, tasks, pc, historyVars, faultVars>>

\* The process stops: requests, tasks and threads are gone, the rows stay.
Crash ==
    /\ up /\ crashes < MaxCrashes
    /\ up' = FALSE /\ crashes' = crashes + 1
    /\ responding' = {} /\ tasks' = {} /\ cancelling' = {}
    /\ pc' = [j \in Job |-> "idle"]
    /\ UNCHANGED <<rowVars, historyVars, faults>>

\* Mutant: a restart fails what was running and trusts that a queued row will
\* still be run.
RecoverRunning ==
    /\ ~up /\ up' = TRUE
    /\ status' = [j \in Job |-> IF status[j] = "running" THEN "failed" ELSE status[j]]
    /\ error' = [j \in Job |-> IF status[j] = "running" THEN "interrupted" ELSE error[j]]
    /\ UNCHANGED <<kind, units, done, asked, processVars, historyVars, crashes, faults>>

\* fail_interrupted_jobs, run by the lifespan before any request is served.
Recover ==
    /\ ~up /\ up' = TRUE
    /\ status' = [j \in Job |-> IF status[j] \in InFlight THEN "failed" ELSE status[j]]
    /\ error' = [j \in Job |-> IF status[j] \in InFlight THEN "interrupted" ELSE error[j]]
    /\ UNCHANGED <<kind, units, done, asked, processVars, historyVars, crashes, faults>>
-----------------------------------------------------------------------------
\* What the worker does about the row, apart from the units of work themselves.
Record(j) == \/ Claim(j) \/ Count(j) \/ Check(j) \/ Close(j) \/ RecordEnd(j)
             \/ \E n \in 0..MaxUnits : Size(j, n)

Worker(j) == Work(j) \/ Record(j)

Trouble(j) == \/ WorkFails(j) \/ ClaimFault(j) \/ CountFault(j) \/ CloseFault(j)
              \/ RecordLost(j)

Cancel(j) == CancelCheck(j) \/ CancelWrite(j)

Next == \/ \E j \in Job :
              \/ \E k \in Kind, n \in 0..MaxUnits : Insert(j, k, n)
              \/ Respond(j) \/ RespondLost(j)
              \/ Worker(j) \/ Trouble(j) \/ Cancel(j)
        \/ Crash \/ Recover

Spec == Init /\ [][Next]_runnerVars

\* The thread pool keeps running what it holds, a handler returns, and the
\* process is started again: each is fair.  Nobody has to cancel, and no
\* failure has to happen.
Fairness == /\ \A j \in Job : WF_runnerVars(Worker(j)) /\ WF_runnerVars(Respond(j))
            /\ WF_runnerVars(Recover)

FairSpec == Spec /\ Fairness
-----------------------------------------------------------------------------
(* Properties. *)

\* The values each column and each thread can take (models.BackgroundJobRow).
TypeOK == /\ status \in [Job -> Status]
          /\ kind \in [Job -> AllKinds]
          /\ units \in [Job -> Nat]
          /\ done \in [Job -> Nat]
          /\ asked \in [Job -> BOOLEAN]
          /\ error \in [Job -> Error]
          /\ responding \in SUBSET Job
          /\ tasks \in SUBSET Job
          /\ cancelling \in SUBSET Job
          /\ pc \in [Job -> PC]
          /\ kept \in [Job -> Nat]
          /\ late \in [Job -> Nat]
          /\ up \in BOOLEAN
          /\ crashes \in 0..MaxCrashes
          /\ faults \in 0..MaxFaults

\* The progress counter never claims work that was not committed, and never
\* falls more than one unit behind what was: what a retry resumes from.
CountTrailsByOne ==
    \A j \in Job : /\ done[j] <= kept[j] /\ kept[j] <= done[j] + 1
                   /\ kept[j] <= units[j]

\* A job whose error says it was cancelled was asked to stop, and one that is
\* done has every unit counted: the three ends the Jobs page shows are true.
EndsTruthfully ==
    \A j \in Job : /\ error[j] = "cancelled" => asked[j]
                   /\ status[j] = "done" => done[j] = units[j] /\ error[j] = "none"

\* While the server is up, a row in flight has somebody who will move it,
\* unless a failed commit lost that somebody: only then does a job hang until
\* the next restart.
HasOwner(j) == j \in responding \/ j \in tasks \/ pc[j] # "idle"
StrandedOnlyByFault ==
    \A j \in Job : up /\ status[j] \in InFlight /\ ~HasOwner(j) => faults > 0

\* A row that ended is never revived: no claim, cancel, failure record or
\* restart moves it to another status.
EndedStaysEnded ==
    [][\A j \in Job : status[j] \in Ended => status'[j] = status[j]]_runnerVars

\* Every job started ends, or is stranded by a lost commit.
EveryJobEnds ==
    \A j \in Job : status[j] \in InFlight
                   ~> (status[j] \in Ended \/ (faults > 0 /\ ~HasOwner(j)))

\* The runner keeps the promises of JobContract.
Contract == INSTANCE JobContract
ImplementsContract == Contract!Spec
=============================================================================
