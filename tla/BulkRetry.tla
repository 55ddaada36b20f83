------------------------------ MODULE BulkRetry ------------------------------
(***************************************************************************)
(* Bulk generation and its retries, on top of JobRunner.  A spec sheet is  *)
(* compiled to a plan of SheetSize questions; a job makes them in order;   *)
(* one that stopped part-way is retried by a new job whose start_at skips  *)
(* what was counted.  The retry request checks the parent, inserts the     *)
(* child, and marks the parent in three transactions, so two requests or a *)
(* crash can fall between them.                                            *)
(***************************************************************************)
EXTENDS JobRunner, FiniteSets

CONSTANTS
    Handler,     \* concurrent retry requests
    SheetSize,   \* questions in a compiled sheet
    MaxSheets,   \* bound on the sheets queued: chains do not interact
    NoJob        \* "no job" in retriedBy and parent

ASSUME BulkAssumption == /\ SheetSize = MaxUnits
                         /\ MaxSheets \in Nat
                         /\ "counted" \in Kind
                         /\ NoJob \notin Job

Position == 1..SheetSize

VARIABLES
    total,      \* the row's total
    startAt,    \* request.start_at
    retriedBy,  \* request.retried_by
    parent,     \* history: the job this one retries
    root,       \* history: the first job of the chain, one per sheet
    copies,     \* history: copies[r][p], stored questions for position p of sheet r
    hpc, hjob, hchild     \* the retry requests: step, job and new job

bulkRow == <<total, startAt, retriedBy, parent, root>>
handlerVars == <<hpc, hjob, hchild>>
bulkVars == <<bulkRow, copies, handlerVars>>
allVars == <<runnerVars, bulkVars>>

BulkInit ==
    /\ Init
    /\ total = [j \in Job |-> 0]
    /\ startAt = [j \in Job |-> 0]
    /\ retriedBy = [j \in Job |-> NoJob]
    /\ parent = [j \in Job |-> NoJob]
    /\ root = [j \in Job |-> NoJob]
    /\ copies = [r \in Job |-> [p \in Position |-> 0]]
    /\ hpc = [h \in Handler |-> "idle"]
    /\ hjob = [h \in Handler |-> NoJob]
    /\ hchild = [h \in Handler |-> NoJob]

\* queue_bulk_generation's row: the loop runs over the plan from start_at on.
QueueBulk(j, n, start) ==
    /\ Insert(j, "counted", SheetSize - start)
    /\ total' = [total EXCEPT ![j] = n]
    /\ startAt' = [startAt EXCEPT ![j] = start]

\* A spec sheet is queued.
StartBulk(j) ==
    /\ Cardinality({r \in Job : root[r] = r}) < MaxSheets
    /\ QueueBulk(j, SheetSize, 0)
    /\ root' = [root EXCEPT ![j] = j]
    /\ UNCHANGED <<retriedBy, parent, copies, handlerVars>>

\* _generate_specs stores the next question of the plan and commits it; the
\* count comes after, in JobRunner's Count.
MakeQuestion(j) ==
    /\ Work(j)
    /\ copies' = [copies EXCEPT ![root[j]][startAt[j] + kept[j] + 1] = @ + 1]
    /\ UNCHANGED <<bulkRow, handlerVars>>
-----------------------------------------------------------------------------
(* POST /jobs/{job_id}/retry. *)

\* _retry_label: what this job may still be retried for.
Retriable(j) == /\ status[j] = "failed"
                /\ retriedBy[j] = NoJob
                /\ total[j] # done[j]

\* The request loads the job and finds something to retry.
RetryCheck(h, j) ==
    /\ up /\ hpc[h] = "idle"
    /\ Retriable(j)
    /\ hpc' = [hpc EXCEPT ![h] = "insert"]
    /\ hjob' = [hjob EXCEPT ![h] = j]
    /\ UNCHANGED <<runnerVars, bulkRow, copies, hchild>>

\* Mutants: a retry that skips the question in progress, and one that counts
\* from the start of the sheet rather than from its parent's start_at.
RetrySkipsOne(h, c) ==
    LET j == hjob[h] IN
    /\ hpc[h] = "insert"
    /\ QueueBulk(c, total[j] - done[j], startAt[j] + done[j] + 1)
    /\ root' = [root EXCEPT ![c] = root[j]]
    /\ parent' = [parent EXCEPT ![c] = j]
    /\ hpc' = [hpc EXCEPT ![h] = "mark"]
    /\ hchild' = [hchild EXCEPT ![h] = c]
    /\ UNCHANGED <<retriedBy, copies, hjob>>

RetryForgetsOffset(h, c) ==
    LET j == hjob[h] IN
    /\ hpc[h] = "insert"
    /\ QueueBulk(c, total[j] - done[j], done[j])
    /\ root' = [root EXCEPT ![c] = root[j]]
    /\ parent' = [parent EXCEPT ![c] = j]
    /\ hpc' = [hpc EXCEPT ![h] = "mark"]
    /\ hchild' = [hchild EXCEPT ![h] = c]
    /\ UNCHANGED <<retriedBy, copies, hjob>>

\* retry_bulk_generation: a new job for the questions that were not counted.
RetryInsert(h, c) ==
    LET j == hjob[h] IN
    /\ hpc[h] = "insert"
    /\ QueueBulk(c, total[j] - done[j], startAt[j] + done[j])
    /\ root' = [root EXCEPT ![c] = root[j]]
    /\ parent' = [parent EXCEPT ![c] = j]
    /\ hpc' = [hpc EXCEPT ![h] = "mark"]
    /\ hchild' = [hchild EXCEPT ![h] = c]
    /\ UNCHANGED <<retriedBy, copies, hjob>>

Finish(h) == /\ hpc' = [hpc EXCEPT ![h] = "idle"]
             /\ hjob' = [hjob EXCEPT ![h] = NoJob]
             /\ hchild' = [hchild EXCEPT ![h] = NoJob]

\* The parent is marked, in the request's last commit.
RetryMark(h) ==
    /\ up /\ hpc[h] = "mark"
    /\ retriedBy' = [retriedBy EXCEPT ![hjob[h]] = hchild[h]]
    /\ Finish(h)
    /\ UNCHANGED <<runnerVars, total, startAt, parent, root, copies>>

\* That commit raises: the new job's task is never run and nothing is marked.
RetryMarkLost(h) ==
    /\ hpc[h] = "mark"
    /\ RespondLost(hchild[h])
    /\ Finish(h)
    /\ UNCHANGED <<bulkRow, copies>>

\* The response of a retry is sent only after the parent is marked.
Marking(c) == \E h \in Handler : hpc[h] = "mark" /\ hchild[h] = c

BulkRespond(j) ==
    /\ ~Marking(j)
    /\ Respond(j) \/ RespondLost(j)
    /\ UNCHANGED bulkVars

\* The runner's other steps leave the bulk columns alone.
BulkRecord(j) == /\ Record(j) \/ Trouble(j) \/ Cancel(j)
                 /\ UNCHANGED bulkVars

BulkCrash == /\ Crash
             /\ hpc' = [h \in Handler |-> "idle"]
             /\ hjob' = [h \in Handler |-> NoJob]
             /\ hchild' = [h \in Handler |-> NoJob]
             /\ UNCHANGED <<bulkRow, copies>>

BulkRecover == Recover /\ UNCHANGED bulkVars
-----------------------------------------------------------------------------
BulkNext ==
    \/ \E j \in Job : StartBulk(j) \/ MakeQuestion(j) \/ BulkRespond(j) \/ BulkRecord(j)
    \/ \E h \in Handler : \/ \E j \in Job : RetryCheck(h, j) \/ RetryInsert(h, j)
                          \/ RetryMark(h) \/ RetryMarkLost(h)
    \/ BulkCrash \/ BulkRecover

BulkSpec == BulkInit /\ [][BulkNext]_allVars
-----------------------------------------------------------------------------
(* Properties. *)

\* The values of the columns and of the requests; a row covers its sheet from
\* start_at to the end, so that total and start_at never drift apart.
BulkTypeOK ==
    /\ TypeOK
    /\ \A j \in Job : status[j] # "none" => startAt[j] + total[j] = SheetSize
    /\ total \in [Job -> Nat]
    /\ startAt \in [Job -> Nat]
    /\ retriedBy \in [Job -> Job \cup {NoJob}]
    /\ parent \in [Job -> Job \cup {NoJob}]
    /\ root \in [Job -> Job \cup {NoJob}]
    /\ copies \in [Job -> [Position -> Nat]]
    /\ hpc \in [Handler -> {"idle", "insert", "mark"}]
    /\ hjob \in [Handler -> Job \cup {NoJob}]
    /\ hchild \in [Handler -> Job \cup {NoJob}]

\* Position p of a sheet is still to be made by job j: j has not counted it,
\* and is in flight or can be retried.
Owes(j, p) == /\ p > startAt[j] + done[j]
              /\ status[j] \in InFlight \/ Retriable(j)

\* No question of a sheet is ever lost: it is stored, or some job of the chain
\* in flight or open to a retry still owes it.
NoQuestionLost ==
    \A r \in Job : status[r] # "none" /\ root[r] = r =>
        \A p \in Position : \/ copies[r][p] > 0
                            \/ \E j \in Job : root[j] = r /\ Owes(j, p)

Siblings(j, k) == j # k /\ parent[j] # NoJob /\ parent[j] = parent[k]

\* The question at position p was stored by job j, whose worker has gone
\* without counting it.
Uncounted(j, p) == /\ pc[j] # "count" /\ kept[j] = done[j] + 1
                   /\ p = startAt[j] + kept[j]

\* A question is stored twice only if its count was lost between the two
\* commits, or if its job was retried by two requests at once.
MadeTwiceOnlyByKnownPaths ==
    \A r \in Job, p \in Position : copies[r][p] > 1 =>
        \/ \E j \in Job : root[j] = r /\ Uncounted(j, p)
        \/ \E j, k \in Job : root[j] = r /\ Siblings(j, k)

\* Each position of a sheet is made, and once.
SheetMadeOnce == NoQuestionLost /\ MadeTwiceOnlyByKnownPaths
=============================================================================
