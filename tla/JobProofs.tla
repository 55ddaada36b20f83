----------------------------- MODULE JobProofs ------------------------------
(***************************************************************************)
(* What is proved of the job runner, and of the bodies that jobs run: bulk *)
(* sheets, coverage fills and switches of the embedding model.  Everything *)
(* is for every set of rows, every number of units, of crashes and of lost *)
(* commits.  The bodies' steps are the runner's with more state, so the    *)
(* runner's invariant comes first and each body's rests on it.             *)
(***************************************************************************)
EXTENDS BulkRetry, CoverageFill, EmbeddingSwitch, FoldLemmas, SequenceTheorems, TLAPS

\* Every step keeps every column and every thread in its set of values.
LEMMA TypeStep == TypeOK /\ [Next]_runnerVars => TypeOK'
<1> SUFFICES ASSUME TypeOK, [Next]_runnerVars PROVE TypeOK'
  OBVIOUS
<1> USE RunnerAssumption DEF TypeOK, Status, InFlight, Ended, Error, PC, AllKinds,
                             historyVars, faultVars, rowVars
<1>1. ASSUME NEW j \in Job, NEW k \in Kind, NEW n \in 0..MaxUnits, Insert(j, k, n)
      PROVE TypeOK'
  BY <1>1 DEF Insert
<1>2. ASSUME NEW j \in Job, Respond(j) \/ RespondLost(j) PROVE TypeOK'
  BY <1>2 DEF Respond, RespondLost
<1>3. ASSUME NEW j \in Job, Claim(j) PROVE TypeOK'
  BY <1>3 DEF Claim, First
<1>4. ASSUME NEW j \in Job, NEW n \in 0..MaxUnits, Size(j, n) PROVE TypeOK'
  BY <1>4 DEF Size
<1>5. ASSUME NEW j \in Job, Work(j) PROVE TypeOK'
  BY <1>5 DEF Work
<1>6. ASSUME NEW j \in Job, Count(j) PROVE TypeOK'
  BY <1>6 DEF Count
<1>7. ASSUME NEW j \in Job, Check(j) PROVE TypeOK'
  BY <1>7 DEF Check
<1>8. ASSUME NEW j \in Job, Close(j) PROVE TypeOK'
  BY <1>8 DEF Close
<1>9. ASSUME NEW j \in Job, RecordEnd(j) PROVE TypeOK'
  BY <1>9 DEF RecordEnd
<1>10. ASSUME NEW j \in Job,
              WorkFails(j) \/ ClaimFault(j) \/ CountFault(j) \/ CloseFault(j) \/ RecordLost(j)
       PROVE TypeOK'
  BY <1>10 DEF WorkFails, ClaimFault, CountFault, CloseFault, RecordLost
<1>11. ASSUME NEW j \in Job, CancelCheck(j) \/ CancelWrite(j) PROVE TypeOK'
  BY <1>11 DEF CancelCheck, CancelWrite
<1>12. CASE Crash
  <2>1. pc' \in [Job -> PC]
    BY <1>12 DEF Crash
  <2>2. up' \in BOOLEAN
    BY <1>12 DEF Crash
  <2>3. crashes' \in 0..MaxCrashes
    BY <1>12 DEF Crash
  <2>4. responding' \in SUBSET Job /\ tasks' \in SUBSET Job /\ cancelling' \in SUBSET Job
    BY <1>12 DEF Crash
  <2> QED
    BY <1>12, <2>1, <2>2, <2>3, <2>4 DEF Crash
<1>13. CASE Recover
  <2>1. status' \in [Job -> Status] /\ error' \in [Job -> Error]
    BY <1>13 DEF Recover
  <2> QED
    BY <1>13, <2>1 DEF Recover, processVars
<1>14. CASE UNCHANGED runnerVars
  BY <1>14 DEF runnerVars, processVars
<1> QED
  BY <1>1, <1>2, <1>3, <1>4, <1>5, <1>6, <1>7, <1>8, <1>9, <1>10, <1>11, <1>12, <1>13, <1>14
     DEF Next, Worker, Record, Trouble, Cancel

\* The rows and the threads of the job runner always have the types of the
\* models' columns and of the steps of execute().
THEOREM TypeCorrect == Spec => []TypeOK
<1>1. Init => TypeOK
  BY RunnerAssumption DEF Init, TypeOK, Status, InFlight, Ended, Error, PC, AllKinds
<1> QED
  BY <1>1, TypeStep, PTL DEF Spec
-----------------------------------------------------------------------------
(***************************************************************************)
(* The inductive invariant.  The properties alone are not inductive: they  *)
(* need to know where the worker stands, so each step of execute() is      *)
(* tied to the status of its row and to the distance between what was      *)
(* committed and what was counted.                                         *)
(***************************************************************************)
Begun == {"size", "work", "count", "check", "stop", "close"}

ThreadInv(j) ==
    /\ pc[j] \in Begun => status[j] = "running"
    /\ pc[j] = "fail" => status[j] \in {"queued", "running", "failed"}
    /\ pc[j] = "stop" => asked[j]
    /\ j \in responding \cup tasks => status[j] \in {"queued", "failed"} /\ pc[j] = "idle"
    /\ ~(j \in responding /\ j \in tasks)
    /\ j \in cancelling => status[j] # "none"
    /\ ~up => pc[j] = "idle" /\ j \notin responding /\ j \notin tasks

CountInv(j) ==
    /\ status[j] \in {"none", "queued"} => kept[j] = 0 /\ done[j] = 0 /\ late[j] = 0
    /\ status[j] = "queued" /\ kind[j] # "embedding" => units[j] > 0
    /\ kind[j] = "import" => units[j] = 1 /\ pc[j] \notin {"size", "count", "check"}
    /\ pc[j] = "size" => kept[j] = 0
    /\ pc[j] \in {"size", "work", "check"} => kept[j] = done[j]
    /\ pc[j] = "work" => kept[j] < units[j]
    /\ pc[j] = "count" => kept[j] = done[j] + 1
    /\ pc[j] = "close" => /\ kept[j] = units[j]
                          /\ kind[j] # "import" => done[j] = kept[j]
    /\ done[j] <= kept[j] /\ kept[j] <= done[j] + 1 /\ kept[j] <= units[j]

EndInv(j) ==
    /\ late[j] # 0 => asked[j]
    /\ pc[j] \in {"size", "work"} => late[j] = 0
    /\ status[j] \notin {"failed"} => error[j] = "none"
    /\ error[j] = "cancelled" => asked[j]
    /\ status[j] = "done" => done[j] = units[j]
    /\ up /\ status[j] \in InFlight /\ ~HasOwner(j) => faults > 0

RowInv(j) == ThreadInv(j) /\ CountInv(j) /\ EndInv(j)

RunnerInv == TypeOK /\ \A j \in Job : RowInv(j)

\* Every step keeps the invariant of every row.
LEMMA RowStep == RunnerInv /\ [Next]_runnerVars => \A i \in Job : RowInv(i)'
<1> SUFFICES ASSUME RunnerInv, [Next]_runnerVars, NEW i \in Job PROVE RowInv(i)'
  OBVIOUS
<1> TypeOK /\ TypeOK' /\ RowInv(i)
  BY TypeStep DEF RunnerInv
<1> USE RunnerAssumption DEF TypeOK, RowInv, ThreadInv, CountInv, EndInv, HasOwner, Begun,
          Status, InFlight, Ended, Error, PC, AllKinds, historyVars, faultVars, rowVars
<1>1. ASSUME NEW j \in Job, NEW k \in Kind, NEW n \in 0..MaxUnits, Insert(j, k, n)
      PROVE RowInv(i)'
  BY <1>1 DEF Insert
<1>2. ASSUME NEW j \in Job, NEW n \in 0..MaxUnits, Size(j, n) PROVE RowInv(i)'
  BY <1>2 DEF Size
<1>3. ASSUME NEW j \in Job, Respond(j) \/ RespondLost(j) PROVE RowInv(i)'
  BY <1>3 DEF Respond, RespondLost
<1>4. ASSUME NEW j \in Job, Claim(j) PROVE RowInv(i)'
  <2>1. CASE status[j] = "queued"
    <3>1. ThreadInv(i)'
      BY <1>4, <2>1 DEF Claim, First
    <3>2. CountInv(i)'
      BY <1>4, <2>1 DEF Claim, First
    <3>3. EndInv(i)'
      BY <1>4, <2>1 DEF Claim, First
    <3> QED
      BY <3>1, <3>2, <3>3
  <2>2. CASE status[j] # "queued"
    BY <1>4, <2>2 DEF Claim
  <2> QED
    BY <2>1, <2>2
<1>5. ASSUME NEW j \in Job, Work(j) PROVE RowInv(i)'
  BY <1>5 DEF Work
<1>6. ASSUME NEW j \in Job, Count(j) PROVE RowInv(i)'
  BY <1>6 DEF Count
<1>7. ASSUME NEW j \in Job, Check(j) PROVE RowInv(i)'
  BY <1>7 DEF Check
<1>8. ASSUME NEW j \in Job, Close(j) PROVE RowInv(i)'
  BY <1>8 DEF Close
<1>9. ASSUME NEW j \in Job, RecordEnd(j) PROVE RowInv(i)'
  BY <1>9 DEF RecordEnd
<1>10. ASSUME NEW j \in Job, WorkFails(j) \/ ClaimFault(j) PROVE RowInv(i)'
  <2>1. CASE WorkFails(j)
    BY <2>1 DEF WorkFails
  <2>2. CASE ClaimFault(j)
    BY <2>2 DEF ClaimFault
  <2> QED
    BY <1>10, <2>1, <2>2
<1>11. ASSUME NEW j \in Job, CountFault(j) \/ CloseFault(j) PROVE RowInv(i)'
  BY <1>11 DEF CountFault, CloseFault
<1>12. ASSUME NEW j \in Job, RecordLost(j) PROVE RowInv(i)'
  BY <1>12 DEF RecordLost
<1>13. ASSUME NEW j \in Job, CancelCheck(j) PROVE RowInv(i)'
  BY <1>13 DEF CancelCheck
<1>14. ASSUME NEW j \in Job, CancelWrite(j) PROVE RowInv(i)'
  BY <1>14 DEF CancelWrite
<1>15. CASE Crash
  BY <1>15 DEF Crash
<1>16. CASE Recover
  BY <1>16 DEF Recover, processVars
<1>17. CASE UNCHANGED runnerVars
  BY <1>17 DEF runnerVars, processVars
<1> QED
  BY <1>1, <1>2, <1>3, <1>4, <1>5, <1>6, <1>7, <1>8, <1>9, <1>10, <1>11, <1>12, <1>13, <1>14, <1>15, <1>16, <1>17
     DEF Next, Worker, Record, Trouble, Cancel

\* Every step keeps the invariant, ...
LEMMA RunnerStep == RunnerInv /\ [Next]_runnerVars => RunnerInv'
<1> SUFFICES ASSUME RunnerInv, [Next]_runnerVars PROVE RunnerInv'
  OBVIOUS
<1>1. TypeOK'
  BY TypeStep DEF RunnerInv
<1>2. (\A i \in Job : RowInv(i))'
  BY RowStep
<1> QED
  BY <1>1, <1>2 DEF RunnerInv

\* ... which holds at the start, when no row is there.
LEMMA RunnerStart == Init => RunnerInv
BY RunnerAssumption DEF Init, RunnerInv, TypeOK, RowInv, ThreadInv, CountInv, EndInv,
     HasOwner, Begun, Status, InFlight, Ended, Error, PC, AllKinds

\* RunnerInv holds in every state the job runner reaches.
THEOREM Invariance == Spec => []RunnerInv
BY RunnerStart, RunnerStep, PTL DEF Spec

\* However a run is interrupted, the progress counter (row.done) is at most one
\* unit behind what the body committed and never ahead of it.
THEOREM CountIsSafe == Spec => []CountTrailsByOne
<1>1. RunnerInv => CountTrailsByOne
  BY DEF RunnerInv, RowInv, CountInv, CountTrailsByOne
<1> QED
  BY <1>1, Invariance, PTL

\* A job the Jobs page shows as cancelled was asked to stop, and one it shows as
\* done counted all its units.
THEOREM EndsAreTrue == Spec => []EndsTruthfully
<1>1. RunnerInv => EndsTruthfully
  BY DEF RunnerInv, RowInv, EndInv, EndsTruthfully
<1> QED
  BY <1>1, Invariance, PTL

\* Without a lost commit, every row in flight has a request, a task or a thread
\* that will move it.
THEOREM NoJobHangsAlone == Spec => []StrandedOnlyByFault
<1>1. RunnerInv => StrandedOnlyByFault
  BY DEF RunnerInv, RowInv, EndInv, StrandedOnlyByFault
<1> QED
  BY <1>1, Invariance, PTL

\* A step of the runner is a step of JobContract or leaves its view unchanged.
LEMMA ContractStep == RunnerInv /\ [Next]_runnerVars => [Contract!Next]_(Contract!contractVars)
<1> SUFFICES ASSUME RunnerInv, [Next]_runnerVars
             PROVE  Contract!Next \/ UNCHANGED Contract!contractVars
  BY DEF Contract!contractVars
<1> USE DEF Contract!contractVars, historyVars, faultVars, rowVars
<1> TypeOK /\ \A j \in Job : RowInv(j)
  BY DEF RunnerInv
<1>1. ASSUME NEW j \in Job, NEW k \in Kind, NEW n \in 0..MaxUnits, Insert(j, k, n)
      PROVE  Contract!Accept(j)
  BY <1>1 DEF Insert, Contract!Accept
<1>2. ASSUME NEW j \in Job, Claim(j)
      PROVE  Contract!Begin(j) \/ UNCHANGED Contract!contractVars
  BY <1>2 DEF Claim, Contract!Begin
<1>3. ASSUME NEW j \in Job, Work(j)
      PROVE  Contract!Keep(j)
  <2>1. status[j] = "running" /\ late[j] = 0
    BY <1>3 DEF Work, RowInv, ThreadInv, EndInv, Begun
  <2> QED
    BY <1>3, <2>1 DEF Work, TypeOK, Contract!Keep
<1>4. ASSUME NEW j \in Job, Close(j)
      PROVE  Contract!End(j, "done")
  BY <1>4 DEF Close, RowInv, ThreadInv, Begun, Contract!End
<1>5. ASSUME NEW j \in Job, RecordEnd(j)
      PROVE  Contract!End(j, "failed") \/ UNCHANGED Contract!contractVars
  BY <1>5 DEF RecordEnd, RowInv, ThreadInv, Begun, TypeOK, Contract!End
<1>6. ASSUME NEW j \in Job, CancelWrite(j)
      PROVE  Contract!StopQueued(j) \/ Contract!StopBegun(j)
  BY <1>6 DEF CancelWrite, RowInv, ThreadInv, TypeOK, Status, InFlight, Ended,
              Contract!StopQueued, Contract!StopBegun, Contract!Ended
<1>7. CASE Recover
  <2>1. Contract!Restart
    BY <1>7 DEF Recover, processVars, InFlight, Contract!Restart, Contract!InFlight
  <2> QED
    BY <2>1 DEF Contract!Next
<1>8. ASSUME NEW j \in Job, \/ Respond(j) \/ RespondLost(j) \/ Count(j) \/ Check(j)
                            \/ \E n \in 0..MaxUnits : Size(j, n)
      PROVE  UNCHANGED Contract!contractVars
  BY <1>8 DEF Respond, RespondLost, Count, Check, Size
<1>9. ASSUME NEW j \in Job, \/ WorkFails(j) \/ ClaimFault(j) \/ CountFault(j) \/ CloseFault(j)
                            \/ RecordLost(j) \/ CancelCheck(j)
      PROVE  UNCHANGED Contract!contractVars
  BY <1>9 DEF WorkFails, ClaimFault, CountFault, CloseFault, RecordLost, CancelCheck
<1>10. CASE Crash
  BY <1>10 DEF Crash
<1>11. CASE UNCHANGED runnerVars
  BY <1>11 DEF runnerVars
<1> QED
  BY <1>1, <1>2, <1>3, <1>4, <1>5, <1>6, <1>7, <1>8, <1>9, <1>10, <1>11
     DEF Next, Worker, Record, Trouble, Cancel, Contract!Next, Contract!Ended

\* The runner keeps every promise of JobContract: an ended job stays ended and
\* keeps nothing more, a queued job asked to stop never begins, a running one
\* keeps at most the unit in flight, a restart leaves nothing in flight.
THEOREM Refinement == Spec => ImplementsContract
<1>1. Init => Contract!Init
  BY DEF Init, Contract!Init
<1> QED
  BY <1>1, ContractStep, Invariance, PTL DEF Spec, ImplementsContract, Contract!Spec

\* No claim, cancel, failure record or restart revives a row that has ended.
THEOREM EndIsFinal == Spec => EndedStaysEnded
<1> DEFINE Still == \A j \in Job : status[j] \in Ended => status'[j] = status[j]
<1>1. RunnerInv /\ [Next]_runnerVars => [Still]_runnerVars
  <2> SUFFICES ASSUME RunnerInv, [Next]_runnerVars, NEW i \in Job, status[i] \in Ended
               PROVE  status'[i] = status[i]
    BY Zenon DEF Still
  <2>1. TypeOK
    BY DEF RunnerInv
  <2>2. Contract!Next \/ UNCHANGED Contract!contractVars
    BY ContractStep DEF Contract!contractVars
  <2>3. CASE UNCHANGED Contract!contractVars
    BY <2>3 DEF Contract!contractVars
  <2>4. CASE Contract!Restart
    BY <2>4 DEF Contract!Restart, Contract!InFlight, Ended
  <2>5. ASSUME NEW j \in Job, \/ Contract!Accept(j) \/ Contract!AcceptEmpty(j)
                              \/ Contract!Begin(j) \/ Contract!Keep(j)
                              \/ Contract!StopQueued(j) \/ Contract!StopBegun(j)
        PROVE  status'[i] = status[i]
    BY <2>1, <2>5 DEF TypeOK, Ended, Contract!Accept, Contract!AcceptEmpty, Contract!Begin,
                      Contract!Keep, Contract!StopQueued, Contract!StopBegun
  <2>6. ASSUME NEW j \in Job, NEW s \in Ended, Contract!End(j, s)
        PROVE  status'[i] = status[i]
    BY <2>1, <2>6 DEF TypeOK, Ended, Contract!End
  <2> QED
    BY <2>2, <2>3, <2>4, <2>5, <2>6 DEF Contract!Next, Contract!Ended, Ended
<1> QED
  BY <1>1, Invariance, PTL DEF Spec, EndedStaysEnded

-----------------------------------------------------------------------------
(***************************************************************************)
(* The bodies.  A retry of a sheet or of a fill is queued for what its     *)
(* parent left, so the question is always whether what one row has not     *)
(* done is owed by another.  The invariants answer it with a depth of the  *)
(* rows, where a retry is one deeper than the row it retries: what a row   *)
(* has not done is stored, or owed by a row that is as deep or deeper.  A  *)
(* switch is not retried: while switches come one at a time, the list one  *)
(* works through and the vectors it has stored cover the chunks it         *)
(* promised, so the model it makes active answers for all of them.         *)
(***************************************************************************)

\* Bulk runs and fills count their units.
OnlyCounted == \A i \in Job : kind[i] = "counted" /\ pc[i] # "size"

\* A step of the runner that neither inserts a row nor keeps a unit.
Quiet ==
    /\ UNCHANGED <<units, kind, kept>>
    /\ \A i \in Job :
           /\ status'[i] = "none" <=> status[i] = "none"
           /\ status[i] \in Ended => status'[i] = status[i]
           /\ status[i] \in InFlight => status'[i] \in InFlight \cup {"failed"} \/ done[i] = units[i]
           /\ pc'[i] = "size" => pc[i] = "size"
           /\ pc'[i] = "count" => pc[i] = "count"
           /\ \/ done'[i] = done[i]
              \/ /\ done'[i] = done[i] + 1 /\ kept[i] = done[i] + 1
                 /\ pc[i] = "count" /\ status[i] = "running" /\ status'[i] = "running"

\* The runner's steps for a counted body, other than the unit of work itself, are quiet.
LEMMA QuietSteps ==
    ASSUME RunnerInv, OnlyCounted, NEW j \in Job,
           \/ Respond(j) \/ RespondLost(j) \/ Record(j) \/ Trouble(j) \/ Cancel(j)
    PROVE  Quiet
<1>0. TypeOK /\ (\A i \in Job : RowInv(i)) /\ \A i \in Job : kind[i] = "counted" /\ pc[i] # "size"
  BY DEF RunnerInv, OnlyCounted
<1> USE DEF TypeOK, Status, InFlight, Ended, PC
<1>1. CASE Respond(j) \/ RespondLost(j)
  BY <1>0, <1>1 DEF Respond, RespondLost, rowVars, historyVars, Quiet
<1>2. CASE Claim(j)
  BY <1>0, <1>2 DEF Claim, First, rowVars, historyVars, Quiet
<1>3. CASE Count(j)
  BY <1>0, <1>3 DEF Count, historyVars, Quiet, RowInv, ThreadInv, CountInv, Begun
<1>4. CASE Check(j)
  BY <1>0, <1>4 DEF Check, rowVars, historyVars, Quiet
<1>5. CASE Close(j)
  <2>1. done[j] = units[j] /\ status[j] = "running"
    BY <1>0, <1>5 DEF Close, RowInv, ThreadInv, CountInv, Begun
  <2>2. /\ UNCHANGED <<units, kind, kept, done>> /\ status' = [status EXCEPT ![j] = "done"]
        /\ pc' = [pc EXCEPT ![j] = "idle"]
    BY <1>0, <1>5 DEF Close, historyVars
  <2> QED
    BY <1>0, <2>1, <2>2 DEF Quiet
<1>6. CASE RecordEnd(j)
  <2>1. status[j] \in InFlight \cup {"failed"}
    BY <1>0, <1>6 DEF RecordEnd, RowInv, ThreadInv, Begun
  <2> QED
    BY <1>0, <1>6, <2>1 DEF RecordEnd, historyVars, Quiet
<1>7. ASSUME NEW n \in 0..MaxUnits, Size(j, n) PROVE FALSE
  BY <1>0, <1>7 DEF Size
<1>8. CASE Trouble(j)
  BY <1>0, <1>8 DEF Trouble, WorkFails, ClaimFault, CountFault, CloseFault, RecordLost, rowVars,
                    historyVars, Quiet
<1>9. CASE Cancel(j)
  <2>1. CASE CancelCheck(j)
    BY <1>0, <2>1 DEF CancelCheck, rowVars, historyVars, Quiet
  <2>2. CASE CancelWrite(j)
    BY <1>0, <2>2 DEF CancelWrite, historyVars, Quiet
  <2> QED
    BY <1>9, <2>1, <2>2 DEF Cancel
<1> QED
  BY <1>1, <1>2, <1>3, <1>4, <1>5, <1>6, <1>7, <1>8, <1>9 DEF Record

\* So are a crash and the restart after it.
LEMMA QuietRestart == ASSUME RunnerInv, OnlyCounted, Crash \/ Recover PROVE Quiet
<1>0. TypeOK /\ \A i \in Job : kind[i] = "counted" /\ pc[i] # "size"
  BY DEF RunnerInv, OnlyCounted
<1> QED
  BY <1>0 DEF Crash, Recover, rowVars, processVars, historyVars, Quiet, InFlight, Ended

\* A row that has ended counts nothing more.
LEMMA EndedFrozen ==
    ASSUME Quiet, NEW j \in Job, status[j] \in Ended
    PROVE  status'[j] = status[j] /\ done'[j] = done[j]
BY DEF Quiet, Ended
-----------------------------------------------------------------------------
(***************************************************************************)
(* Sheets.  The rows of a sheet share a root; each covers the sheet from   *)
(* its start_at to the end.                                                *)
(***************************************************************************)
SheetRows ==
    /\ \A j \in Job : kind[j] = "counted" /\ pc[j] # "size"
    /\ \A j \in Job : status[j] = "none" =>
           root[j] = NoJob /\ parent[j] = NoJob /\ retriedBy[j] = NoJob
    /\ \A j \in Job : status[j] # "none" =>
           /\ startAt[j] + total[j] = SheetSize /\ units[j] = total[j]
           /\ root[j] \in Job /\ status[root[j]] # "none" /\ root[root[j]] = root[j]
    /\ \A j \in Job : root[j] = j => startAt[j] = 0
    /\ \A j \in Job : parent[j] # NoJob => /\ root[parent[j]] = root[j] /\ root[j] # j
                                           /\ status[parent[j]] = "failed"
    /\ \A j \in Job : retriedBy[j] # NoJob => status[j] = "failed"

\* A request that found a job to retry knows one that stays failed; the child
\* it inserted waits for its response.
RetryHeld(h) ==
    /\ hpc[h] # "idle" => hjob[h] \in Job /\ status[hjob[h]] = "failed"
    /\ hpc[h] = "mark" =>
           /\ hchild[h] \in responding /\ done[hchild[h]] = 0 /\ status[hchild[h]] # "none"
           /\ parent[hchild[h]] = hjob[h] /\ root[hchild[h]] = root[hjob[h]]
           /\ startAt[hchild[h]] = startAt[hjob[h]] + done[hjob[h]]
           /\ \A i \in Handler : hpc[i] = "mark" /\ hchild[i] = hchild[h] => i = h

\* What is stored is what some job of the sheet made.
MadeBy(j, p) == startAt[j] < p /\ p <= startAt[j] + kept[j]
StoredIsMade ==
    /\ \A j \in Job, p \in Position : status[j] # "none" /\ MadeBy(j, p) => copies[root[j]][p] > 0
    /\ \A r \in Job, p \in Position :
           copies[r][p] > 0 => \E j \in Job : root[j] = r /\ MadeBy(j, p)

\* A depth of the rows: a child is one deeper than its parent.
DepthOK(depth) == \A c \in Job : parent[c] # NoJob => depth[c] = depth[parent[c]] + 1

\* A position that a row has not counted is stored, or owed by one as deep or deeper.
OwedBelow(depth, j, p) == \E k \in Job : root[k] = root[j] /\ Owes(k, p) /\ depth[k] >= depth[j]
StillOwed(depth) ==
    \A j \in Job, p \in Position : status[j] # "none" /\ p > startAt[j] + done[j] =>
        copies[root[j]][p] > 0 \/ OwedBelow(depth, j, p)

\* Unless one was retried twice, the rows of a sheet stand in a line, and each but
\* the last failed and left the rest to those below.
Forked(r) == \E a, b \in Job : root[a] = r /\ Siblings(a, b)
LeftTo(depth, i, k) ==
    /\ depth[i] # depth[k]
    /\ depth[i] < depth[k] => /\ status[i] = "failed" /\ startAt[k] >= startAt[i] + done[i]
                              /\ \E x \in Job : parent[x] = i /\ root[x] = root[i]
InLine(depth) ==
    \A i, k \in Job : root[i] # NoJob /\ root[i] = root[k] /\ i # k =>
        Forked(root[i]) \/ LeftTo(depth, i, k)

SheetCore == /\ RunnerInv /\ BulkTypeOK /\ SheetRows /\ \A h \in Handler : RetryHeld(h)
SheetDepth == \E depth \in [Job -> Nat] : DepthOK(depth) /\ StillOwed(depth) /\ InLine(depth)
SheetInv == SheetCore /\ StoredIsMade /\ MadeTwiceOnlyByKnownPaths /\ SheetDepth
-----------------------------------------------------------------------------
\* A sheet has positions, as many as a job may have units.
LEMMA SheetUnits ==
    ASSUME BulkAssumption, RunnerAssumption
    PROVE  SheetSize \in Nat \ {0} /\ SheetSize = MaxUnits
BY DEF BulkAssumption, RunnerAssumption

\* The part of a sheet that a row has not counted.
LEMMA RowLeft ==
    ASSUME SheetCore, NEW j \in Job, status[j] # "none"
    PROVE  /\ startAt[j] \in Nat /\ done[j] \in Nat /\ kept[j] \in Nat /\ total[j] \in Nat
           /\ startAt[j] + total[j] = SheetSize /\ units[j] = total[j]
           /\ done[j] <= kept[j] /\ kept[j] <= done[j] + 1 /\ kept[j] <= total[j]
BY DEF SheetCore, RunnerInv, TypeOK, RowInv, CountInv, BulkTypeOK, SheetRows

\* A step of bulk generation is a step of the runner.
LEMMA BulkRuns ==
    ASSUME SheetCore, [BulkNext]_allVars PROVE [Next]_runnerVars
<1>1. CASE UNCHANGED allVars
  BY <1>1 DEF allVars
<1>2. ASSUME NEW j \in Job, StartBulk(j) PROVE Next
  <2>1. Insert(j, "counted", SheetSize - 0)
    BY <1>2 DEF StartBulk, QueueBulk
  <2>2. SheetSize - 0 \in 0..MaxUnits /\ "counted" \in Kind
    BY SheetUnits, BulkAssumption, RunnerAssumption
  <2> QED
    BY <2>1, <2>2 DEF Next
<1>3. ASSUME NEW j \in Job, MakeQuestion(j) \/ BulkRespond(j) \/ BulkRecord(j) PROVE Next
  BY <1>3 DEF MakeQuestion, BulkRespond, BulkRecord, Next, Worker
<1>4. ASSUME NEW h \in Handler, NEW c \in Job, RetryInsert(h, c) PROVE Next
  <2> DEFINE n == SheetSize - (startAt[hjob[h]] + done[hjob[h]])
  <2>1. Insert(c, "counted", n)
    BY <1>4 DEF RetryInsert, QueueBulk
  <2>2. hjob[h] \in Job /\ status[hjob[h]] # "none"
    BY <1>4 DEF RetryInsert, SheetCore, RetryHeld
  <2>3. n \in 0..MaxUnits /\ "counted" \in Kind
    BY <2>2, RowLeft, SheetUnits, BulkAssumption, RunnerAssumption
  <2> QED
    BY <2>1, <2>3 DEF Next
<1>5. ASSUME NEW h \in Handler, NEW j \in Job, RetryCheck(h, j) PROVE UNCHANGED runnerVars
  BY <1>5 DEF RetryCheck
<1>6. ASSUME NEW h \in Handler, RetryMark(h) PROVE UNCHANGED runnerVars
  BY <1>6 DEF RetryMark
<1>7. ASSUME NEW h \in Handler, RetryMarkLost(h) PROVE Next
  <2>1. RespondLost(hchild[h]) /\ hchild[h] \in Job
    BY <1>7 DEF RetryMarkLost, SheetCore, RetryHeld, RunnerInv, TypeOK
  <2> QED
    BY <2>1 DEF Next
<1>8. CASE BulkCrash \/ BulkRecover
  BY <1>8 DEF BulkCrash, BulkRecover, Next
<1> QED
  BY <1>1, <1>2, <1>3, <1>4, <1>5, <1>6, <1>7, <1>8 DEF BulkNext

\* Such a step keeps the rows when the columns of the sheet are as they were.
LEMMA CoreQuiet ==
    ASSUME SheetCore, RunnerInv', Quiet, UNCHANGED <<bulkRow, copies>>,
           hpc' \in [Handler -> {"idle", "insert", "mark"}],
           hjob' \in [Handler -> Job \cup {NoJob}], hchild' \in [Handler -> Job \cup {NoJob}],
           \A h \in Handler : RetryHeld(h)'
    PROVE  SheetCore'
<1>1. UNCHANGED <<total, startAt, retriedBy, parent, root, copies, units, kind, kept>>
  BY DEF bulkRow, Quiet
<1>2. BulkTypeOK'
  <2>1. TypeOK'
    BY DEF RunnerInv
  <2> QED
    BY <1>1, <2>1 DEF SheetCore, BulkTypeOK, Quiet
<1>3. SheetRows'
  <2>0. SheetRows
    BY DEF SheetCore
  <2>1. \A j \in Job : kind'[j] = "counted" /\ pc'[j] # "size"
    BY <1>1, <2>0 DEF SheetRows, Quiet
  <2>2. \A j \in Job : status'[j] = "none" =>
            root'[j] = NoJob /\ parent'[j] = NoJob /\ retriedBy'[j] = NoJob
    BY <1>1, <2>0 DEF SheetRows, Quiet
  <2>3. \A j \in Job : status'[j] # "none" =>
            /\ startAt'[j] + total'[j] = SheetSize /\ units'[j] = total'[j]
            /\ root'[j] \in Job /\ status'[root'[j]] # "none" /\ root'[root'[j]] = root'[j]
    BY <1>1, <2>0 DEF SheetRows, Quiet
  <2>4. \A j \in Job : root'[j] = j => startAt'[j] = 0
    BY <1>1, <2>0 DEF SheetRows
  <2>5. \A j \in Job : parent'[j] # NoJob => /\ root'[parent'[j]] = root'[j] /\ root'[j] # j
                                             /\ status'[parent'[j]] = "failed"
    <3>1. \A j \in Job : parent[j] # NoJob => parent[j] \in Job
      BY DEF SheetCore, BulkTypeOK
    <3> QED
      BY <1>1, <2>0, <3>1 DEF SheetRows, Quiet, Ended
  <2>6. \A j \in Job : retriedBy'[j] # NoJob => status'[j] = "failed"
    BY <1>1, <2>0 DEF SheetRows, Quiet, Ended
  <2> QED
    BY <2>1, <2>2, <2>3, <2>4, <2>5, <2>6 DEF SheetRows
<1> QED
  BY <1>2, <1>3 DEF SheetCore

\* What one row owes it still owes, or it is stored.
LEMMA OwesQuiet ==
    ASSUME SheetCore, StoredIsMade, Quiet, UNCHANGED <<bulkRow, copies>>,
           NEW k \in Job, NEW p \in Position, Owes(k, p)
    PROVE  Owes(k, p)' \/ copies[root[k]][p] > 0
<1>1. UNCHANGED <<total, startAt, retriedBy, parent, root, copies, units, kind, kept>>
  BY DEF bulkRow, Quiet
<1>2. p > startAt[k] + done[k] /\ status[k] \in InFlight \cup {"failed"} /\ status[k] # "none"
  BY DEF Owes, Retriable, InFlight
<1>3. /\ startAt[k] \in Nat /\ done[k] \in Nat /\ kept[k] \in Nat /\ total[k] \in Nat
      /\ startAt[k] + total[k] = SheetSize /\ units[k] = total[k]
  BY <1>2, RowLeft
<1>4. p \in Nat /\ p <= SheetSize
  BY SheetUnits, BulkAssumption, RunnerAssumption DEF Position
<1>5. retriedBy[k] = NoJob
  BY DEF Owes, Retriable, SheetCore, SheetRows, InFlight
<1>6. CASE done'[k] # done[k] /\ p = startAt[k] + done[k] + 1
  <2>1. MadeBy(k, p)
    BY <1>3, <1>6 DEF Quiet, MadeBy
  <2> QED
    BY <1>2, <2>1 DEF StoredIsMade
<1>7. CASE done'[k] # done[k] /\ p # startAt[k] + done[k] + 1
  <2>1. done'[k] = done[k] + 1 /\ status'[k] = "running"
    BY <1>7 DEF Quiet
  <2>2. p > startAt[k] + done'[k]
    BY <1>2, <1>3, <1>4, <1>7, <2>1
  <2> QED
    BY <1>1, <2>1, <2>2 DEF Owes, InFlight
<1>8. CASE done'[k] = done[k]
  <2>1. done[k] # total[k]
    BY <1>2, <1>3, <1>4
  <2>2. status'[k] \in InFlight \cup {"failed"}
    BY <1>2, <1>3, <2>1 DEF Quiet, InFlight, Ended
  <2> QED
    BY <1>1, <1>2, <1>5, <1>8, <2>1, <2>2 DEF Owes, Retriable
<1> QED
  BY <1>6, <1>7, <1>8

\* A quiet step keeps the invariant when the requests hold what they should.
LEMMA SheetQuiet ==
    ASSUME SheetInv, SheetCore', Quiet, UNCHANGED <<bulkRow, copies>> PROVE SheetInv'
<1>0. SheetCore /\ StoredIsMade /\ MadeTwiceOnlyByKnownPaths
  BY DEF SheetInv
<1>1. UNCHANGED <<total, startAt, retriedBy, parent, root, copies, units, kind, kept>>
  BY DEF bulkRow, Quiet
<1>2. StoredIsMade'
  BY <1>0, <1>1 DEF StoredIsMade, MadeBy, Quiet
<1>3. ASSUME NEW j \in Job, NEW p \in Position, Uncounted(j, p) PROVE Uncounted(j, p)'
  BY <1>1, <1>3 DEF Uncounted, Quiet
<1>4. MadeTwiceOnlyByKnownPaths'
  BY <1>0, <1>1, <1>3 DEF MadeTwiceOnlyByKnownPaths, Siblings
<1>5. PICK depth \in [Job -> Nat] : DepthOK(depth) /\ StillOwed(depth) /\ InLine(depth)
  BY DEF SheetInv, SheetDepth
<1>6. DepthOK(depth)'
  BY <1>1, <1>5 DEF DepthOK
<1>7. StillOwed(depth)'
  <2> SUFFICES ASSUME NEW j \in Job, NEW p \in Position, status'[j] # "none",
                      p > startAt[j] + done'[j], ~(copies[root[j]][p] > 0)
               PROVE  OwedBelow(depth, j, p)'
    BY <1>1 DEF StillOwed
  <2>1. status[j] # "none"
    BY DEF Quiet
  <2>2. startAt[j] \in Nat /\ done[j] \in Nat /\ p \in Nat
    BY <1>0, <2>1, RowLeft, SheetUnits, BulkAssumption, RunnerAssumption DEF Position
  <2>3. p > startAt[j] + done[j]
    BY <2>2 DEF Quiet
  <2>4. PICK k \in Job : root[k] = root[j] /\ Owes(k, p) /\ depth[k] >= depth[j]
    BY <1>5, <2>1, <2>3 DEF StillOwed, OwedBelow
  <2>5. Owes(k, p)'
    BY <1>0, <2>4, OwesQuiet
  <2> QED
    BY <1>1, <2>4, <2>5 DEF OwedBelow
<1>8. InLine(depth)'
  <2> SUFFICES ASSUME NEW i \in Job, NEW k \in Job, root[i] # NoJob, root[i] = root[k], i # k,
                      ~Forked(root[i])
               PROVE  LeftTo(depth, i, k)'
    BY <1>1 DEF InLine, Forked, Siblings
  <2>1. LeftTo(depth, i, k)
    BY <1>5 DEF InLine
  <2> QED
    BY <1>1, <2>1, EndedFrozen DEF LeftTo, Ended
<1> QED
  BY <1>2, <1>4, <1>6, <1>7, <1>8 DEF SheetInv, SheetDepth

\* A request that is where it was keeps what it holds.
LEMMA HeldKept ==
    ASSUME SheetCore, Quiet, UNCHANGED <<startAt, parent, root>>, NEW h \in Handler,
           hpc'[h] = hpc[h], hjob'[h] = hjob[h], hchild'[h] = hchild[h],
           hpc[h] = "mark" => hchild[h] \in responding',
           \A i \in Handler : hpc'[i] = "mark" => hpc[i] = "mark" /\ hchild'[i] = hchild[i]
    PROVE  RetryHeld(h)'
<1>1. RetryHeld(h) /\ responding \subseteq Job /\ \A i \in Job : ThreadInv(i)
  BY DEF SheetCore, RunnerInv, TypeOK, RowInv
<1>2. hpc[h] # "idle" => /\ hjob[h] \in Job /\ status'[hjob[h]] = "failed"
                         /\ done'[hjob[h]] = done[hjob[h]]
  BY <1>1, EndedFrozen DEF RetryHeld, Ended
<1>3. ASSUME hpc[h] = "mark"
      PROVE  hchild[h] \in Job /\ status'[hchild[h]] # "none" /\ done'[hchild[h]] = 0
  <2>1. hchild[h] \in Job /\ pc[hchild[h]] = "idle" /\ status[hchild[h]] # "none"
        /\ done[hchild[h]] = 0
    BY <1>1, <1>3 DEF RetryHeld, ThreadInv
  <2> QED
    BY <2>1 DEF Quiet
<1> QED
  BY <1>1, <1>2, <1>3 DEF RetryHeld

\* Each quiet step of the sheets.
LEMMA SheetQuietSteps ==
    ASSUME SheetInv, RunnerInv',
           \/ UNCHANGED allVars
           \/ \E j \in Job : BulkRespond(j) \/ BulkRecord(j)
           \/ \E h \in Handler, j \in Job : RetryCheck(h, j)
           \/ \E h \in Handler : RetryMarkLost(h)
           \/ BulkCrash \/ BulkRecover
    PROVE  SheetInv'
<1>0. /\ SheetCore /\ RunnerInv /\ OnlyCounted /\ TypeOK /\ \A h \in Handler : RetryHeld(h)
      /\ hpc \in [Handler -> {"idle", "insert", "mark"}]
      /\ hjob \in [Handler -> Job \cup {NoJob}] /\ hchild \in [Handler -> Job \cup {NoJob}]
  BY DEF SheetInv, SheetCore, RunnerInv, BulkTypeOK, SheetRows, OnlyCounted
<1>1. ASSUME Quiet, UNCHANGED bulkVars, \A h \in Handler : hpc[h] = "mark" => hchild[h] \in responding'
      PROVE  SheetInv'
  <2>1. \A h \in Handler : RetryHeld(h)'
    BY <1>0, <1>1, HeldKept DEF bulkVars, bulkRow, handlerVars
  <2> QED
    BY <1>0, <1>1, <2>1, CoreQuiet, SheetQuiet DEF bulkVars, handlerVars
<1>2. CASE UNCHANGED allVars
  <2>1. UNCHANGED <<status, kind, units, done, kept, pc, responding>> /\ UNCHANGED bulkVars
    BY <1>2 DEF allVars, runnerVars, rowVars, processVars, historyVars
  <2>2. Quiet
    BY <2>1 DEF Quiet
  <2> QED
    BY <1>0, <1>1, <2>1, <2>2 DEF RetryHeld
<1>3. ASSUME NEW j \in Job, BulkRespond(j) PROVE SheetInv'
  <2>1. Quiet
    BY <1>0, <1>3, QuietSteps DEF BulkRespond
  <2>2. \A h \in Handler : hpc[h] = "mark" => hchild[h] \in responding'
    BY <1>0, <1>3 DEF BulkRespond, Respond, RespondLost, Marking, RetryHeld
  <2> QED
    BY <1>1, <1>3, <2>1, <2>2 DEF BulkRespond
<1>4. ASSUME NEW j \in Job, BulkRecord(j) PROVE SheetInv'
  <2>1. Quiet
    BY <1>0, <1>4, QuietSteps DEF BulkRecord
  <2>2. responding' = responding
    BY <1>4 DEF BulkRecord, Record, Claim, Count, Check, Close, RecordEnd, Size, Trouble,
                WorkFails, ClaimFault, CountFault, CloseFault, RecordLost, Cancel, CancelCheck,
                CancelWrite
  <2> QED
    BY <1>0, <1>1, <1>4, <2>1, <2>2 DEF BulkRecord, RetryHeld
<1>5. CASE BulkRecover
  <2>1. Quiet
    BY <1>0, <1>5, QuietRestart DEF BulkRecover
  <2>2. responding' = responding
    BY <1>5 DEF BulkRecover, Recover, processVars
  <2> QED
    BY <1>0, <1>1, <1>5, <2>1, <2>2 DEF BulkRecover, RetryHeld
<1>6. CASE BulkCrash
  <2>1. Quiet
    BY <1>0, <1>6, QuietRestart DEF BulkCrash
  <2>2. /\ hpc' = [h \in Handler |-> "idle"] /\ hjob' = [h \in Handler |-> NoJob]
        /\ hchild' = [h \in Handler |-> NoJob] /\ UNCHANGED <<bulkRow, copies>>
    BY <1>6 DEF BulkCrash
  <2>3. \A h \in Handler : RetryHeld(h)'
    BY <2>2 DEF RetryHeld
  <2> QED
    BY <1>0, <2>1, <2>2, <2>3, CoreQuiet, SheetQuiet
<1>7. ASSUME NEW h \in Handler, NEW j \in Job, RetryCheck(h, j) PROVE SheetInv'
  <2>1. /\ UNCHANGED <<status, kind, units, done, kept, pc, responding, bulkRow, copies, hchild>>
        /\ hpc' = [hpc EXCEPT ![h] = "insert"] /\ hjob' = [hjob EXCEPT ![h] = j]
        /\ status[j] = "failed"
    BY <1>7 DEF RetryCheck, Retriable, runnerVars, rowVars, processVars, historyVars
  <2>2. Quiet
    BY <2>1 DEF Quiet
  <2>3. RetryHeld(h)'
    BY <1>0, <2>1 DEF RetryHeld
  <2>4. ASSUME NEW i \in Handler \ {h} PROVE RetryHeld(i)'
    <3>1. UNCHANGED <<startAt, parent, root>>
      BY <2>1 DEF bulkRow
    <3>2. hpc'[i] = hpc[i] /\ hjob'[i] = hjob[i] /\ hchild'[i] = hchild[i]
      BY <1>0, <2>1
    <3>3. hpc[i] = "mark" => hchild[i] \in responding'
      BY <1>0, <2>1 DEF RetryHeld
    <3>4. \A x \in Handler : hpc'[x] = "mark" => hpc[x] = "mark" /\ hchild'[x] = hchild[x]
      BY <1>0, <2>1
    <3> QED
      BY <1>0, <2>2, <3>1, <3>2, <3>3, <3>4, HeldKept
  <2> QED
    BY <1>0, <2>1, <2>2, <2>3, <2>4, CoreQuiet, SheetQuiet
<1>8. ASSUME NEW h \in Handler, RetryMarkLost(h) PROVE SheetInv'
  <2>1. /\ hpc[h] = "mark" /\ hchild[h] \in Job /\ RespondLost(hchild[h])
        /\ hpc' = [hpc EXCEPT ![h] = "idle"] /\ hjob' = [hjob EXCEPT ![h] = NoJob]
        /\ hchild' = [hchild EXCEPT ![h] = NoJob] /\ UNCHANGED <<bulkRow, copies>>
        /\ responding' = responding \ {hchild[h]}
    BY <1>0, <1>8 DEF RetryMarkLost, Finish, RespondLost, RetryHeld, TypeOK
  <2>2. Quiet
    BY <1>0, <2>1, QuietSteps
  <2>3. RetryHeld(h)'
    BY <1>0, <2>1 DEF RetryHeld
  <2>4. ASSUME NEW i \in Handler \ {h} PROVE RetryHeld(i)'
    <3>1. UNCHANGED <<startAt, parent, root>>
      BY <2>1 DEF bulkRow
    <3>2. hpc'[i] = hpc[i] /\ hjob'[i] = hjob[i] /\ hchild'[i] = hchild[i]
      BY <1>0, <2>1
    <3>3. hpc[i] = "mark" => hchild[i] \in responding'
      BY <1>0, <2>1 DEF RetryHeld
    <3>4. \A x \in Handler : hpc'[x] = "mark" => hpc[x] = "mark" /\ hchild'[x] = hchild[x]
      BY <1>0, <2>1
    <3> QED
      BY <1>0, <2>2, <3>1, <3>2, <3>3, <3>4, HeldKept
  <2> QED
    BY <1>0, <2>1, <2>2, <2>3, <2>4, CoreQuiet, SheetQuiet
<1> QED
  BY <1>2, <1>3, <1>4, <1>5, <1>6, <1>7, <1>8

\* The parent is marked: what it owed is owed by those below its child.
LEMMA SheetMark == ASSUME SheetInv, RunnerInv', NEW h \in Handler, RetryMark(h) PROVE SheetInv'
<1> DEFINE j == hjob[h]
           c == hchild[h]
<1>0. SheetCore /\ RetryHeld(h) /\ BulkTypeOK /\ SheetRows /\ TypeOK
  BY DEF SheetInv, SheetCore, BulkTypeOK
<1>1. /\ hpc[h] = "mark" /\ retriedBy' = [retriedBy EXCEPT ![j] = c]
      /\ UNCHANGED <<status, kind, units, done, kept, pc, responding>>
      /\ UNCHANGED <<total, startAt, parent, root, copies>>
      /\ hpc' = [hpc EXCEPT ![h] = "idle"] /\ hjob' = [hjob EXCEPT ![h] = NoJob]
      /\ hchild' = [hchild EXCEPT ![h] = NoJob]
  BY DEF RetryMark, Finish, runnerVars, rowVars, processVars, historyVars
<1>2. /\ j \in Job /\ c \in Job /\ status[j] = "failed" /\ parent[c] = j /\ root[c] = root[j]
      /\ startAt[c] = startAt[j] + done[j] /\ done[c] = 0 /\ status[c] # "none"
  BY <1>0, <1>1 DEF RetryHeld, TypeOK
<1>3. Quiet
  BY <1>1 DEF Quiet
<1>4. BulkTypeOK'
  <2>1. TypeOK'
    BY DEF RunnerInv
  <2> QED
    BY <1>0, <1>1, <1>2, <2>1 DEF BulkTypeOK
<1>5. SheetRows'
  <2>1. \A i \in Job : retriedBy'[i] = retriedBy[i] \/ i = j
    BY <1>0, <1>1 DEF BulkTypeOK
  <2> HIDE DEF j, c
  <2> QED
    BY <1>0, <1>1, <1>2, <2>1 DEF SheetRows
<1>6. \A i \in Handler : RetryHeld(i)'
  <2>1. RetryHeld(h)'
    BY <1>0, <1>1 DEF RetryHeld, BulkTypeOK
  <2>2. ASSUME NEW i \in Handler \ {h} PROVE RetryHeld(i)'
    <3>1. UNCHANGED <<startAt, parent, root>>
      BY <1>1
    <3>2. hpc'[i] = hpc[i] /\ hjob'[i] = hjob[i] /\ hchild'[i] = hchild[i]
      BY <1>0, <1>1 DEF BulkTypeOK
    <3>3. hpc[i] = "mark" => hchild[i] \in responding'
      BY <1>0, <1>1 DEF SheetCore, RetryHeld
    <3>4. \A x \in Handler : hpc'[x] = "mark" => hpc[x] = "mark" /\ hchild'[x] = hchild[x]
      BY <1>0, <1>1 DEF BulkTypeOK
    <3> QED
      BY <1>0, <1>3, <3>1, <3>2, <3>3, <3>4, HeldKept
  <2> QED
    BY <2>1, <2>2
<1>7. StoredIsMade'
  BY <1>1 DEF SheetInv, StoredIsMade, MadeBy
<1>8. MadeTwiceOnlyByKnownPaths'
  BY <1>1 DEF SheetInv, MadeTwiceOnlyByKnownPaths, Uncounted, Siblings
<1>9. PICK depth \in [Job -> Nat] : DepthOK(depth) /\ StillOwed(depth) /\ InLine(depth)
  BY DEF SheetInv, SheetDepth
<1>10. DepthOK(depth)'
  BY <1>1, <1>9 DEF DepthOK
<1>11. InLine(depth)'
  BY <1>1, <1>9 DEF InLine, Forked, Siblings, LeftTo
<1>12. ASSUME NEW k \in Job \ {j}, NEW p \in Position, Owes(k, p) PROVE Owes(k, p)'
  BY <1>0, <1>1, <1>12 DEF Owes, Retriable, BulkTypeOK
<1>13. StillOwed(depth)'
  <2> SUFFICES ASSUME NEW i \in Job, NEW p \in Position, status[i] # "none",
                      p > startAt[i] + done[i], ~(copies[root[i]][p] > 0)
               PROVE  OwedBelow(depth, i, p)'
    BY <1>1 DEF StillOwed
  <2>1. PICK k \in Job : root[k] = root[i] /\ Owes(k, p) /\ depth[k] >= depth[i]
    BY <1>9 DEF StillOwed, OwedBelow
  <2>2. CASE k # j
    BY <1>1, <1>12, <2>1, <2>2 DEF OwedBelow
  <2>3. CASE k = j
    <3>1. p > startAt[c] + done[c]
      <4>1. p > startAt[j] + done[j] /\ startAt[j] \in Nat /\ done[j] \in Nat
        BY <1>0, <1>2, <2>1, <2>3 DEF Owes, BulkTypeOK, TypeOK
      <4> QED
        BY <1>2, <4>1
    <3>2. OwedBelow(depth, c, p)
      BY <1>2, <1>9, <2>1, <2>3, <3>1 DEF StillOwed
    <3>3. PICK x \in Job : root[x] = root[c] /\ Owes(x, p) /\ depth[x] >= depth[c]
      BY <3>2 DEF OwedBelow
    <3>4. depth[c] = depth[j] + 1
      BY <1>2, <1>9, BulkAssumption DEF DepthOK
    <3>5. x # j /\ depth[x] >= depth[i]
      <4>1. depth[x] \in Nat /\ depth[c] \in Nat /\ depth[j] \in Nat /\ depth[i] \in Nat
        BY <1>2, <1>9, <3>3
      <4> QED
        BY <2>1, <2>3, <3>3, <3>4, <4>1
    <3>6. Owes(x, p)'
      BY <1>12, <3>3, <3>5
    <3> QED
      BY <1>1, <1>2, <2>1, <2>3, <3>3, <3>5, <3>6 DEF OwedBelow
  <2> QED
    BY <2>2, <2>3
<1> HIDE DEF j, c
<1>14. SheetCore'
  BY <1>4, <1>5, <1>6 DEF SheetCore
<1> QED
  BY <1>7, <1>8, <1>10, <1>11, <1>13, <1>14 DEF SheetInv, SheetDepth

\* A question is stored: a second copy of it means that an earlier row stored it
\* and failed before it counted it, or that a row was retried twice.
LEMMA SheetMake == ASSUME SheetInv, RunnerInv', NEW j \in Job, MakeQuestion(j) PROVE SheetInv'
<1> DEFINE p == startAt[j] + kept[j] + 1
           r == root[j]
<1>0. /\ SheetCore /\ BulkTypeOK /\ SheetRows /\ TypeOK /\ StoredIsMade
      /\ MadeTwiceOnlyByKnownPaths /\ \A i \in Job : RowInv(i)
  BY DEF SheetInv, SheetCore, BulkTypeOK, RunnerInv
<1>1. /\ pc[j] = "work" /\ kept' = [kept EXCEPT ![j] = @ + 1] /\ pc' = [pc EXCEPT ![j] = "count"]
      /\ UNCHANGED <<status, kind, units, done, responding>>
      /\ UNCHANGED <<total, startAt, retriedBy, parent, root, hpc, hjob, hchild>>
      /\ copies' = [copies EXCEPT ![r][p] = @ + 1]
  BY <1>0 DEF MakeQuestion, Work, rowVars, bulkRow, handlerVars, SheetRows
<1>2. /\ status[j] = "running" /\ status[j] # "none" /\ kept[j] = done[j] /\ kept[j] < units[j]
  BY <1>0, <1>1 DEF RowInv, ThreadInv, CountInv, Begun
<1>3. /\ startAt[j] \in Nat /\ kept[j] \in Nat /\ p \in Nat /\ p \in Position /\ r \in Job
      /\ p = startAt[j] + kept[j] + 1
  <2>1. /\ startAt[j] \in Nat /\ kept[j] \in Nat /\ total[j] \in Nat
        /\ startAt[j] + total[j] = SheetSize /\ units[j] = total[j] /\ SheetSize \in Nat
    BY <1>0, <1>2, RowLeft, SheetUnits, BulkAssumption, RunnerAssumption
  <2>2. r \in Job
    BY <1>0, <1>2 DEF SheetRows
  <2> QED
    BY <1>2, <2>1, <2>2 DEF Position
<1> HIDE DEF p, r
<1>4. /\ \A i \in Job : kept'[i] = IF i = j THEN kept[i] + 1 ELSE kept[i]
      /\ \A i \in Job : pc'[i] = IF i = j THEN "count" ELSE pc[i]
  BY <1>0, <1>1 DEF TypeOK
<1>5. \A x \in Job, q \in Position : copies'[x][q] = IF x = r /\ q = p THEN copies[x][q] + 1
                                                    ELSE copies[x][q]
  BY <1>0, <1>1, <1>3 DEF BulkTypeOK
<1>6. \A x \in Job, q \in Position : copies[x][q] \in Nat
  BY <1>0 DEF BulkTypeOK
<1>7. SheetCore'
  <2>1. TypeOK'
    BY DEF RunnerInv
  <2>2. copies' \in [Job -> [Position -> Nat]]
    <3>1. copies \in [Job -> [Position -> Nat]] /\ copies[r][p] + 1 \in Nat
      BY <1>0, <1>3, <1>6 DEF BulkTypeOK
    <3>2. copies' = [copies EXCEPT ![r] = [copies[r] EXCEPT ![p] = copies[r][p] + 1]]
      BY <1>1
    <3> QED
      BY <1>3, <3>1, <3>2
  <2>3. BulkTypeOK'
    BY <1>0, <1>1, <2>1, <2>2 DEF BulkTypeOK
  <2>4. \A i \in Job : pc'[i] # "size"
    BY <1>0, <1>4 DEF SheetRows
  <2>5. SheetRows'
    BY <1>0, <1>1, <2>4 DEF SheetRows
  <2>6. \A h \in Handler : RetryHeld(h)'
    BY <1>0, <1>1 DEF SheetCore, RetryHeld
  <2> QED
    BY <2>3, <2>5, <2>6 DEF SheetCore
<1>8. \A i \in Job, q \in Position : /\ startAt[i] \in Nat /\ kept[i] \in Nat /\ done[i] \in Nat
                                     /\ q \in Nat
  BY <1>0, SheetUnits, BulkAssumption, RunnerAssumption DEF BulkTypeOK, TypeOK, Position
<1>9. StoredIsMade'
  <2>1. ASSUME NEW i \in Job, NEW q \in Position, status[i] # "none", MadeBy(i, q)'
        PROVE  copies'[root[i]][q] > 0
    <3>1. root[i] \in Job
      BY <1>0, <2>1 DEF SheetRows
    <3>2. CASE i = j /\ q = p
      BY <1>2, <1>3, <1>5, <1>6, <3>1, <3>2 DEF r
    <3>3. CASE ~(i = j /\ q = p)
      <4>1. MadeBy(i, q)
        BY <1>1, <1>3, <1>4, <1>8, <2>1, <3>3 DEF MadeBy
      <4>2. copies[root[i]][q] > 0
        BY <1>0, <2>1, <4>1 DEF StoredIsMade
      <4> QED
        BY <1>5, <1>6, <3>1, <4>2
    <3> QED
      BY <3>2, <3>3
  <2>2. ASSUME NEW x \in Job, NEW q \in Position, copies'[x][q] > 0
        PROVE  \E i \in Job : root[i] = x /\ MadeBy(i, q)'
    <3>1. CASE x = r /\ q = p
      <4>1. root[j] = x /\ MadeBy(j, q)'
        BY <1>1, <1>3, <1>4, <3>1 DEF MadeBy, r
      <4> QED
        BY <4>1
    <3>2. CASE ~(x = r /\ q = p)
      <4>1. PICK i \in Job : root[i] = x /\ MadeBy(i, q)
        BY <1>0, <1>5, <2>2, <3>2 DEF StoredIsMade
      <4>2. MadeBy(i, q)'
        BY <1>1, <1>4, <1>8, <4>1 DEF MadeBy
      <4> QED
        BY <4>1, <4>2
    <3> QED
      BY <3>1, <3>2
  <2> QED
    BY <1>1, <2>1, <2>2 DEF StoredIsMade
<1>10. PICK depth \in [Job -> Nat] : DepthOK(depth) /\ StillOwed(depth) /\ InLine(depth)
  BY DEF SheetInv, SheetDepth
<1>11. MadeTwiceOnlyByKnownPaths'
  <2> SUFFICES ASSUME NEW x \in Job, NEW q \in Position, copies'[x][q] > 1,
                      ~ \E a, b \in Job : root[a] = x /\ Siblings(a, b)
               PROVE  \E i \in Job : root[i] = x /\ Uncounted(i, q)'
    BY <1>1 DEF MadeTwiceOnlyByKnownPaths, Siblings
  <2>1. CASE x = r /\ q = p
    <3>1. copies[r][p] > 0
      BY <1>3, <1>5, <1>6, <2>1
    <3>2. PICK i \in Job : root[i] = r /\ MadeBy(i, p)
      BY <1>0, <1>3, <3>1 DEF StoredIsMade
    <3>3. i # j
      BY <1>3, <3>2 DEF MadeBy
    <3>4. root[i] # NoJob /\ root[i] = root[j] /\ ~Forked(root[i])
      BY <1>3, <2>1, <3>2, BulkAssumption DEF Forked, r
    <3>5. LeftTo(depth, i, j) /\ LeftTo(depth, j, i)
      BY <1>10, <3>3, <3>4 DEF InLine
    <3>6. status[i] = "failed" /\ startAt[j] >= startAt[i] + done[i]
      <4>1. depth[i] \in Nat /\ depth[j] \in Nat
        OBVIOUS
      <4> QED
        BY <1>2, <3>5, <4>1 DEF LeftTo
    <3>7. pc[i] # "count" /\ kept[i] <= done[i] + 1
      BY <1>0, <3>6 DEF RowInv, ThreadInv, CountInv, Begun
    <3>8. kept[i] = done[i] + 1 /\ p = startAt[i] + kept[i]
      <4>1. /\ startAt[i] \in Nat /\ kept[i] \in Nat /\ done[i] \in Nat
            /\ p <= startAt[i] + kept[i]
        BY <1>3, <1>8, <3>2 DEF MadeBy
      <4> QED
        BY <1>3, <3>6, <3>7, <4>1
    <3>9. Uncounted(i, q)'
      BY <1>1, <1>4, <2>1, <3>3, <3>7, <3>8 DEF Uncounted
    <3> QED
      BY <2>1, <3>2, <3>9
  <2>2. CASE ~(x = r /\ q = p)
    <3>1. copies[x][q] > 1
      BY <1>5, <2>2
    <3>2. PICK i \in Job : root[i] = x /\ Uncounted(i, q)
      BY <1>0, <3>1 DEF MadeTwiceOnlyByKnownPaths
    <3>3. i # j
      BY <1>2, <1>3, <3>2 DEF Uncounted
    <3> QED
      BY <1>1, <1>4, <3>2, <3>3 DEF Uncounted
  <2> QED
    BY <2>1, <2>2
<1>12. DepthOK(depth)' /\ InLine(depth)'
  BY <1>1, <1>10 DEF DepthOK, InLine, Forked, Siblings, LeftTo
<1>13. StillOwed(depth)'
  <2> SUFFICES ASSUME NEW i \in Job, NEW q \in Position, status[i] # "none",
                      q > startAt[i] + done[i]
               PROVE  copies'[root[i]][q] > 0 \/ OwedBelow(depth, i, q)'
    BY <1>1 DEF StillOwed
  <2>1. copies[root[i]][q] > 0 \/ OwedBelow(depth, i, q)
    BY <1>10 DEF StillOwed
  <2>2. OwedBelow(depth, i, q) => OwedBelow(depth, i, q)'
    BY <1>1 DEF OwedBelow, Owes, Retriable
  <2>3. root[i] \in Job
    BY <1>0 DEF SheetRows
  <2> QED
    BY <1>5, <1>6, <2>1, <2>2, <2>3
<1> QED
  BY <1>7, <1>9, <1>11, <1>12, <1>13 DEF SheetInv, SheetDepth

\* Row c is inserted with start s, root x and parent a: the first of a sheet, or
\* the retry of a row that failed.
NewRow(c, s, x, a) ==
    /\ status[c] = "none"
    /\ status' = [status EXCEPT ![c] = "queued"] /\ kind' = [kind EXCEPT ![c] = "counted"]
    /\ units' = [units EXCEPT ![c] = SheetSize - s] /\ total' = [total EXCEPT ![c] = SheetSize - s]
    /\ startAt' = [startAt EXCEPT ![c] = s] /\ root' = [root EXCEPT ![c] = x]
    /\ parent' = [parent EXCEPT ![c] = a] /\ responding' = responding \cup {c}
    /\ UNCHANGED <<done, kept, pc, copies, retriedBy>>
    /\ s \in 0..SheetSize
    /\ \/ a = NoJob /\ x = c /\ s = 0
       \/ a \in Job /\ status[a] = "failed" /\ x = root[a] /\ s = startAt[a] + done[a]

\* No row knows a row that is not there yet.
LEMMA Unknown ==
    ASSUME SheetCore, NEW c \in Job, status[c] = "none"
    PROVE  /\ root[c] = NoJob /\ parent[c] = NoJob /\ retriedBy[c] = NoJob
           /\ done[c] = 0 /\ kept[c] = 0 /\ c \notin responding
           /\ \A i \in Job : root[i] # c /\ parent[i] # c
           /\ \A i \in Job : root[i] # NoJob => i # c /\ status[i] # "none" /\ root[i] \in Job
           /\ \A h \in Handler : hjob[h] = c => hpc[h] = "idle"
           /\ \A h \in Handler : hpc[h] = "mark" => hchild[h] # c
<1>1. /\ SheetRows /\ TypeOK /\ BulkTypeOK /\ c # NoJob /\ \A i \in Job : RowInv(i)
  BY BulkAssumption DEF SheetCore, RunnerInv
<1>2. /\ root[c] = NoJob /\ parent[c] = NoJob /\ retriedBy[c] = NoJob
      /\ done[c] = 0 /\ kept[c] = 0 /\ c \notin responding
  BY <1>1 DEF SheetRows, RowInv, CountInv, ThreadInv
<1>3. \A i \in Job : root[i] # c
  <2>1. ASSUME NEW i \in Job, root[i] = c PROVE FALSE
    <3>1. status[i] # "none" => status[root[i]] # "none"
      BY <1>1 DEF SheetRows
    <3>2. status[i] = "none" => root[i] = NoJob
      BY <1>1 DEF SheetRows
    <3> QED
      BY <1>1, <2>1, <3>1, <3>2
  <2> QED
    BY <2>1
<1>4. \A i \in Job : parent[i] # c
  <2>1. ASSUME NEW i \in Job, parent[i] = c PROVE FALSE
    <3>1. status[parent[i]] = "failed"
      BY <1>1, <2>1 DEF SheetRows
    <3> QED
      BY <2>1, <3>1
  <2> QED
    BY <2>1
<1>5. \A i \in Job : root[i] # NoJob => i # c /\ status[i] # "none" /\ root[i] \in Job
  BY <1>1, <1>2 DEF SheetRows
<1>6. \A h \in Handler : hjob[h] = c => hpc[h] = "idle"
  BY DEF SheetCore, RetryHeld
<1>7. \A h \in Handler : hpc[h] = "mark" => hchild[h] # c
  BY DEF SheetCore, RetryHeld
<1> QED
  BY <1>2, <1>3, <1>4, <1>5, <1>6, <1>7

\* A new row has the columns its place in the sheet asks for.
LEMMA NewRows ==
    ASSUME SheetCore, NEW c \in Job, NEW s, NEW x, NEW a, NewRow(c, s, x, a)
    PROVE  /\ SheetRows' /\ startAt' \in [Job -> Nat] /\ total' \in [Job -> Nat]
           /\ parent' \in [Job -> Job \cup {NoJob}] /\ root' \in [Job -> Job \cup {NoJob}]
           /\ \A j \in Job : status'[j] # "none" => startAt'[j] + total'[j] = SheetSize
<1>0. /\ SheetRows /\ TypeOK /\ BulkTypeOK /\ c # NoJob /\ s \in Nat /\ SheetSize - s \in Nat
      /\ s + (SheetSize - s) = SheetSize
  BY SheetUnits, BulkAssumption, RunnerAssumption DEF SheetCore, RunnerInv, NewRow
<1>1. /\ x \in Job /\ a \in Job \cup {NoJob} /\ a # c
      /\ x = c => s = 0 /\ a = NoJob
      /\ a # NoJob => a \in Job /\ status[a] = "failed" /\ x = root[a] /\ x # c
      /\ x # c => x = root[a] /\ a \in Job /\ root[x] = x /\ status[x] # "none"
  BY <1>0, Unknown DEF NewRow, SheetRows
<1>2. /\ \A j \in Job : status'[j] = IF j = c THEN "queued" ELSE status[j]
      /\ \A j \in Job : kind'[j] = IF j = c THEN "counted" ELSE kind[j]
      /\ \A j \in Job : units'[j] = IF j = c THEN SheetSize - s ELSE units[j]
      /\ \A j \in Job : total'[j] = IF j = c THEN SheetSize - s ELSE total[j]
      /\ \A j \in Job : startAt'[j] = IF j = c THEN s ELSE startAt[j]
      /\ \A j \in Job : root'[j] = IF j = c THEN x ELSE root[j]
      /\ \A j \in Job : parent'[j] = IF j = c THEN a ELSE parent[j]
      /\ UNCHANGED <<done, kept, pc, copies, retriedBy>> /\ status[c] = "none"
  BY <1>0 DEF NewRow, TypeOK, BulkTypeOK
<1>3. /\ startAt' \in [Job -> Nat] /\ total' \in [Job -> Nat]
      /\ parent' \in [Job -> Job \cup {NoJob}] /\ root' \in [Job -> Job \cup {NoJob}]
  BY <1>0, <1>1 DEF NewRow, BulkTypeOK
<1>4. /\ root[c] = NoJob /\ retriedBy[c] = NoJob
      /\ \A i \in Job : root[i] # c /\ parent[i] # c
  BY <1>2, Unknown
<1>5. SheetRows'
  <2>1. \A j \in Job : kind'[j] = "counted" /\ pc'[j] # "size"
    BY <1>0, <1>2 DEF SheetRows
  <2>2. \A j \in Job : status'[j] = "none" =>
            root'[j] = NoJob /\ parent'[j] = NoJob /\ retriedBy'[j] = NoJob
    BY <1>0, <1>2 DEF SheetRows
  <2>3. ASSUME NEW j \in Job, status'[j] # "none"
        PROVE  /\ startAt'[j] + total'[j] = SheetSize /\ units'[j] = total'[j]
               /\ root'[j] \in Job /\ status'[root'[j]] # "none" /\ root'[root'[j]] = root'[j]
    <3>1. CASE j = c
      BY <1>0, <1>1, <1>2, <3>1
    <3>2. CASE j # c
      BY <1>0, <1>2, <1>4, <2>3, <3>2 DEF SheetRows
    <3> QED
      BY <3>1, <3>2
  <2>4. \A j \in Job : root'[j] = j => startAt'[j] = 0
    BY <1>0, <1>1, <1>2 DEF SheetRows
  <2>5. ASSUME NEW j \in Job, parent'[j] # NoJob
        PROVE  /\ root'[parent'[j]] = root'[j] /\ root'[j] # j /\ status'[parent'[j]] = "failed"
    <3>1. CASE j = c
      BY <1>1, <1>2, <2>5, <3>1
    <3>2. CASE j # c
      <4>1. parent[j] \in Job /\ parent[j] # c
        BY <1>0, <1>2, <1>4, <2>5, <3>2 DEF BulkTypeOK
      <4> QED
        BY <1>0, <1>2, <2>5, <3>2, <4>1 DEF SheetRows
    <3> QED
      BY <3>1, <3>2
  <2>6. \A j \in Job : retriedBy'[j] # NoJob => status'[j] = "failed"
    BY <1>0, <1>2, <1>4 DEF SheetRows
  <2> QED
    BY <2>1, <2>2, <2>3, <2>4, <2>5, <2>6 DEF SheetRows
<1> QED
  BY <1>3, <1>5 DEF SheetRows

\* A new row is below its parent, in line with the rows above it unless one of
\* them has another child; it owes all that its parent left.
LEMMA NewDepth ==
    ASSUME SheetInv, NEW c \in Job, NEW s, NEW x, NEW a, NewRow(c, s, x, a) PROVE SheetDepth'
<1>0. /\ SheetCore /\ SheetRows /\ TypeOK /\ BulkTypeOK /\ c # NoJob /\ s \in Nat
  BY SheetUnits, BulkAssumption, RunnerAssumption DEF SheetInv, SheetCore, RunnerInv, NewRow
<1>1. /\ \A j \in Job : status'[j] = IF j = c THEN "queued" ELSE status[j]
      /\ \A j \in Job : startAt'[j] = IF j = c THEN s ELSE startAt[j]
      /\ \A j \in Job : total'[j] = IF j = c THEN SheetSize - s ELSE total[j]
      /\ \A j \in Job : root'[j] = IF j = c THEN x ELSE root[j]
      /\ \A j \in Job : parent'[j] = IF j = c THEN a ELSE parent[j]
      /\ UNCHANGED <<done, kept, pc, copies, retriedBy>> /\ status[c] = "none"
      /\ \/ a = NoJob /\ x = c
         \/ a \in Job /\ a # c /\ status[a] = "failed" /\ x = root[a] /\ s = startAt[a] + done[a]
  BY <1>0 DEF NewRow, TypeOK, BulkTypeOK
<1>2. /\ root[c] = NoJob /\ done[c] = 0
      /\ \A i \in Job : root[i] # c /\ parent[i] # c
      /\ \A i \in Job : root[i] # NoJob => i # c /\ status[i] # "none" /\ root[i] \in Job
  BY <1>0, <1>1, Unknown
<1>3. PICK old \in [Job -> Nat] : DepthOK(old) /\ StillOwed(old) /\ InLine(old)
  BY DEF SheetInv, SheetDepth
<1>4. PICK depth \in [Job -> Nat] : /\ \A i \in Job : i # c => depth[i] = old[i]
                                    /\ a # NoJob => depth[c] = old[a] + 1
  <2> DEFINE d == [old EXCEPT ![c] = IF a = NoJob THEN 0 ELSE old[a] + 1]
  <2>1. /\ d \in [Job -> Nat] /\ \A i \in Job : i # c => d[i] = old[i]
        /\ a # NoJob => d[c] = old[a] + 1
    BY <1>1
  <2> QED
    BY <2>1
<1>5. \A i \in Job : depth[i] \in Nat /\ old[i] \in Nat
  BY <1>4
<1>6. DepthOK(depth)'
  <2> SUFFICES ASSUME NEW i \in Job, parent'[i] # NoJob PROVE depth[i] = depth[parent'[i]] + 1
    BY DEF DepthOK
  <2>1. CASE i = c
    BY <1>1, <1>4, <2>1
  <2>2. CASE i # c
    <3>1. parent[i] \in Job /\ parent[i] # c /\ parent'[i] = parent[i]
      BY <1>0, <1>1, <1>2, <2>2 DEF BulkTypeOK
    <3> QED
      BY <1>3, <1>4, <2>2, <3>1 DEF DepthOK
  <2> QED
    BY <2>1, <2>2
<1>7. StillOwed(depth)'
  <2> SUFFICES ASSUME NEW i \in Job, NEW p \in Position, status'[i] # "none",
                      p > startAt'[i] + done[i], ~(copies[root'[i]][p] > 0)
               PROVE  OwedBelow(depth, i, p)'
    BY <1>1 DEF StillOwed
  <2>1. CASE i = c
    <3>1. Owes(c, p)'
      BY <1>1, <2>1 DEF Owes, InFlight
    <3>2. depth[c] >= depth[c]
      BY <1>5
    <3> QED
      BY <2>1, <3>1, <3>2 DEF OwedBelow
  <2>2. CASE i # c
    <3>1. status[i] # "none" /\ p > startAt[i] + done[i] /\ ~(copies[root[i]][p] > 0)
      BY <1>1, <2>2
    <3>2. PICK k \in Job : root[k] = root[i] /\ Owes(k, p) /\ old[k] >= old[i]
      BY <1>3, <3>1 DEF StillOwed, OwedBelow
    <3>3. k # c
      BY <1>1, <3>2 DEF Owes, Retriable, InFlight
    <3>4. Owes(k, p)'
      BY <1>1, <3>2, <3>3 DEF Owes, Retriable
    <3> QED
      BY <1>1, <1>4, <2>2, <3>2, <3>3, <3>4 DEF OwedBelow
  <2> QED
    BY <2>1, <2>2
<1>8. ASSUME NEW i \in Job, i # c, root[i] # NoJob, Forked(root[i]) PROVE Forked(root[i])'
  <2>1. PICK u, v \in Job : root[u] = root[i] /\ Siblings(u, v)
    BY <1>8 DEF Forked
  <2>2. u # c /\ v # c
    BY <1>0, <1>1, Unknown, <2>1 DEF Siblings
  <2> QED
    BY <1>1, <1>8, <2>1, <2>2 DEF Forked, Siblings
<1>9. ASSUME NEW i \in Job, i # c, a \in Job, a # c, root[i] = root[a], root[i] # NoJob, old[a] < old[i],
             i # a, LeftTo(old, a, i)
      PROVE  Forked(root[a])'
  <2>1. PICK y \in Job : parent[y] = a /\ root[y] = root[a]
    BY <1>9 DEF LeftTo
  <2>2. y # c
    BY <1>2, <1>9, <2>1
  <2>3. Siblings(y, c)' /\ root'[y] = root'[a]
    BY <1>0, <1>1, <1>9, <2>1, <2>2, BulkAssumption DEF Siblings
  <2> QED
    BY <1>1, <1>9, <2>3 DEF Forked
<1>10. ASSUME NEW i \in Job, i # c, root'[i] = root'[c], root[i] # NoJob
       PROVE  /\ a \in Job /\ a # c /\ a # NoJob /\ root[i] = root[a] /\ x = root[a]
              /\ Forked(x)' \/ i = a \/ (old[i] < old[a] /\ LeftTo(old, i, a))
  <2>1. /\ a \in Job /\ a # c /\ a # NoJob /\ root[i] = root[a] /\ x = root[a]
    BY <1>1, <1>2, <1>10, BulkAssumption
  <2>2. CASE i # a /\ Forked(root[i])
    <3>1. Forked(root[i])'
      BY <1>8, <1>10, <2>2
    <3>2. root'[i] = x
      BY <1>1, <1>10, <2>1
    <3> QED
      BY <2>1, <3>1, <3>2 DEF Forked
  <2>3. CASE i # a /\ ~Forked(root[i])
    <3>1. LeftTo(old, i, a) /\ LeftTo(old, a, i)
      BY <1>3, <1>10, <2>1, <2>3 DEF InLine
    <3>2. old[a] < old[i] \/ old[i] < old[a]
      BY <1>5, <2>1, <3>1 DEF LeftTo
    <3>3. CASE old[a] < old[i]
      <4>1. Forked(root[a])'
        BY <1>9, <1>10, <2>1, <2>3, <3>1, <3>3
      <4>2. root'[a] = x
        BY <1>1, <2>1
      <4> QED
        BY <2>1, <4>1, <4>2 DEF Forked
    <3> QED
      BY <2>1, <3>1, <3>2, <3>3
  <2> QED
    BY <2>1, <2>2, <2>3
<1>11. ASSUME NEW i \in Job, i # c, root'[i] = root'[c], root[i] # NoJob, ~Forked(x)'
       PROVE  LeftTo(depth, i, c)' /\ LeftTo(depth, c, i)'
  <2>1. /\ a \in Job /\ a # c /\ a # NoJob /\ root[i] = root[a] /\ x = root[a]
        /\ i = a \/ (old[i] < old[a] /\ LeftTo(old, i, a))
    BY <1>10, <1>11
  <2>2. depth[i] = old[i] /\ depth[c] = old[a] + 1 /\ depth[i] < depth[c] /\ ~(depth[c] < depth[i])
    BY <1>4, <1>5, <1>11, <2>1
  <2>3. /\ startAt[i] \in Nat /\ done[i] \in Nat /\ startAt[a] \in Nat /\ done[a] \in Nat
        /\ s = startAt[a] + done[a] /\ status[a] = "failed"
    BY <1>0, <1>1, <2>1 DEF BulkTypeOK, TypeOK
  <2>4. status[i] = "failed" /\ s >= startAt[i] + done[i]
    BY <2>1, <2>2, <2>3, <1>5 DEF LeftTo
  <2>5. \E y \in Job : parent'[y] = i /\ root'[y] = root'[i]
    <3>1. CASE i = a
      BY <1>1, <1>11, <3>1
    <3>2. CASE i # a
      <4>1. PICK y \in Job : parent[y] = i /\ root[y] = root[i]
        BY <2>1, <3>2 DEF LeftTo
      <4>2. y # c
        BY <1>2, <1>11, <4>1
      <4> QED
        BY <1>1, <1>11, <4>1, <4>2
    <3> QED
      BY <3>1, <3>2
  <2>6. LeftTo(depth, i, c)'
    BY <1>1, <1>11, <2>2, <2>4, <2>5 DEF LeftTo
  <2>7. LeftTo(depth, c, i)'
    BY <2>2 DEF LeftTo
  <2> QED
    BY <2>6, <2>7
<1>12. InLine(depth)'
  <2> SUFFICES ASSUME NEW i \in Job, NEW k \in Job, root'[i] # NoJob, root'[i] = root'[k], i # k,
                      ~Forked(root[i])'
               PROVE  LeftTo(depth, i, k)'
    BY DEF InLine
  <2>0. root'[i] = x => ~Forked(x)'
    BY DEF Forked
  <2>1. CASE i = c
    <3>1. k # c /\ root[k] = root'[k] /\ root'[i] = x
      BY <1>1, <2>1
    <3> QED
      BY <1>11, <2>0, <2>1, <3>1
  <2>2. CASE k = c
    <3>1. i # c /\ root[i] = root'[i] /\ root'[i] = x
      BY <1>1, <2>2
    <3> QED
      BY <1>11, <2>0, <2>2, <3>1
  <2>3. CASE i # c /\ k # c
    <3>1. root[i] = root[k] /\ root[i] # NoJob /\ root'[i] = root[i]
      BY <1>1, <2>3
    <3>2. LeftTo(old, i, k)
      BY <1>3, <1>8, <2>3, <3>1 DEF InLine
    <3>3. (\E y \in Job : parent[y] = i /\ root[y] = root[i])
             => \E y \in Job : parent'[y] = i /\ root'[y] = root'[i]
      BY <1>1, <1>2, <2>3, <3>1
    <3> QED
      BY <1>1, <1>4, <2>3, <3>2, <3>3 DEF LeftTo
  <2> QED
    BY <2>1, <2>2, <2>3
<1> QED
  BY <1>4, <1>6, <1>7, <1>12 DEF SheetDepth

\* A new row keeps the invariant, when the requests hold what they should.
LEMMA SheetNew ==
    ASSUME SheetInv, RunnerInv', NEW c \in Job, NEW s, NEW x, NEW a, NewRow(c, s, x, a),
           hpc' \in [Handler -> {"idle", "insert", "mark"}],
           hjob' \in [Handler -> Job \cup {NoJob}], hchild' \in [Handler -> Job \cup {NoJob}],
           \A h \in Handler : RetryHeld(h)'
    PROVE  SheetInv'
<1>0. SheetCore /\ BulkTypeOK /\ StoredIsMade /\ MadeTwiceOnlyByKnownPaths /\ TypeOK'
  BY DEF SheetInv, SheetCore, RunnerInv
<1>1. SheetCore'
  <2>1. BulkTypeOK'
    BY <1>0, NewRows DEF BulkTypeOK, NewRow
  <2> QED
    BY <1>0, <2>1, NewRows DEF SheetCore
<1>2. /\ \A j \in Job : startAt'[j] = IF j = c THEN s ELSE startAt[j]
      /\ \A j \in Job : root'[j] = IF j = c THEN x ELSE root[j]
      /\ \A j \in Job : parent'[j] = IF j = c THEN a ELSE parent[j]
      /\ \A j \in Job : status'[j] = IF j = c THEN "queued" ELSE status[j]
      /\ UNCHANGED <<done, kept, pc, copies>> /\ status[c] = "none" /\ s \in Nat
  BY <1>0, SheetUnits DEF NewRow, BulkTypeOK, TypeOK
<1>3. /\ root[c] = NoJob /\ kept[c] = 0 /\ done[c] = 0 /\ parent[c] = NoJob
      /\ \A i \in Job : parent[i] # c /\ (root[i] \in Job => i # c)
  BY <1>0, <1>2, Unknown, BulkAssumption
<1>4. StoredIsMade'
  <2>1. ASSUME NEW j \in Job, NEW p \in Position, status'[j] # "none", MadeBy(j, p)'
        PROVE  copies[root'[j]][p] > 0
    <3>1. CASE j = c
      <4>1. s < p /\ p <= s + 0 /\ p \in Nat
        BY <1>2, <1>3, <2>1, <3>1, SheetUnits DEF MadeBy, Position
      <4> QED
        BY <1>2, <4>1
    <3>2. CASE j # c
      BY <1>0, <1>2, <2>1, <3>2 DEF StoredIsMade, MadeBy
    <3> QED
      BY <3>1, <3>2
  <2>2. ASSUME NEW r \in Job, NEW p \in Position, copies[r][p] > 0
        PROVE  \E j \in Job : root'[j] = r /\ MadeBy(j, p)'
    <3>1. PICK j \in Job : root[j] = r /\ MadeBy(j, p)
      BY <1>0, <2>2 DEF StoredIsMade
    <3> QED
      BY <1>2, <1>3, <3>1 DEF MadeBy
  <2> QED
    BY <1>2, <2>1, <2>2 DEF StoredIsMade
<1>5. MadeTwiceOnlyByKnownPaths'
  <2> SUFFICES ASSUME NEW r \in Job, NEW p \in Position, copies[r][p] > 1
               PROVE  \/ \E j \in Job : root'[j] = r /\ Uncounted(j, p)'
                      \/ \E j, k \in Job : root'[j] = r /\ Siblings(j, k)'
    BY <1>2 DEF MadeTwiceOnlyByKnownPaths
  <2>1. ASSUME NEW j \in Job, root[j] = r, Uncounted(j, p)
        PROVE  root'[j] = r /\ Uncounted(j, p)'
    BY <1>2, <1>3, <2>1 DEF Uncounted
  <2>2. ASSUME NEW j \in Job, NEW k \in Job, root[j] = r, Siblings(j, k)
        PROVE  root'[j] = r /\ Siblings(j, k)'
    BY <1>2, <1>3, <2>2 DEF Siblings
  <2> QED
    BY <1>0, <2>1, <2>2 DEF MadeTwiceOnlyByKnownPaths
<1> QED
  BY <1>1, <1>4, <1>5, NewDepth DEF SheetInv

\* A sheet is queued.
LEMMA SheetStart == ASSUME SheetInv, RunnerInv', NEW j \in Job, StartBulk(j) PROVE SheetInv'
<1>0. SheetCore /\ BulkTypeOK /\ TypeOK /\ \A h \in Handler : RetryHeld(h)
  BY DEF SheetInv, SheetCore, BulkTypeOK
<1>10. /\ QueueBulk(j, SheetSize, 0) /\ root' = [root EXCEPT ![j] = j]
      /\ UNCHANGED <<retriedBy, parent, copies, handlerVars>>
  BY Zenon DEF StartBulk
<1>1. status[j] = "none" /\ SheetSize \in Nat /\ SheetSize - 0 = SheetSize
  BY <1>10, SheetUnits, BulkAssumption, RunnerAssumption DEF QueueBulk, Insert
<1>2. parent' = [parent EXCEPT ![j] = NoJob]
  <2>1. parent[j] = NoJob /\ parent' = parent
    BY <1>0, <1>1, <1>10, Unknown
  <2> QED
    BY <1>0, <2>1 DEF BulkTypeOK
<1>3. NewRow(j, 0, j, NoJob)
  <2>1. Insert(j, "counted", SheetSize) /\ total' = [total EXCEPT ![j] = SheetSize - 0]
        /\ startAt' = [startAt EXCEPT ![j] = 0]
    BY <1>10, <1>1 DEF QueueBulk
  <2>2. UNCHANGED <<done, kept, pc, copies, retriedBy>> /\ units' = [units EXCEPT ![j] = SheetSize - 0]
    BY <1>10, <1>1, <2>1 DEF Insert, historyVars
  <2>3. 0 \in 0..SheetSize
    BY <1>1
  <2> QED
    BY <1>10, <1>1, <1>2, <2>1, <2>2, <2>3 DEF NewRow, Insert
<1>4. /\ UNCHANGED <<hpc, hjob, hchild, done>> /\ responding' = responding \cup {j}
      /\ \A i \in Job : i # j => /\ status'[i] = status[i] /\ startAt'[i] = startAt[i]
                                 /\ root'[i] = root[i] /\ parent'[i] = parent[i]
  BY <1>0, <1>10, <1>3 DEF NewRow, BulkTypeOK, TypeOK, handlerVars
<1>5. ASSUME NEW h \in Handler PROVE RetryHeld(h)'
  <2>1. /\ hpc[h] # "idle" => hjob[h] # j
        /\ hpc[h] = "mark" => hchild[h] # j /\ hchild[h] \in Job
    BY <1>0, <1>1, Unknown DEF RetryHeld, TypeOK
  <2> QED
    BY <1>0, <1>4, <2>1 DEF RetryHeld
<1> QED
  BY <1>0, <1>3, <1>4, <1>5, SheetNew DEF BulkTypeOK

\* A retry is queued for what its parent did not count.
LEMMA SheetRetry ==
    ASSUME SheetInv, RunnerInv', NEW h \in Handler, NEW c \in Job, RetryInsert(h, c) PROVE SheetInv'
<1> DEFINE a == hjob[h]
<1>0. SheetCore /\ BulkTypeOK /\ TypeOK /\ \A i \in Handler : RetryHeld(i)
  BY DEF SheetInv, SheetCore, BulkTypeOK
<1>1. /\ hpc[h] = "insert" /\ status[c] = "none" /\ a \in Job /\ status[a] = "failed"
  BY <1>0 DEF RetryInsert, QueueBulk, Insert, RetryHeld
<1>2. /\ startAt[a] + done[a] \in 0..SheetSize
      /\ total[a] - done[a] = SheetSize - (startAt[a] + done[a])
  <2>1. /\ startAt[a] \in Nat /\ done[a] \in Nat /\ kept[a] \in Nat /\ total[a] \in Nat
        /\ startAt[a] + total[a] = SheetSize /\ done[a] <= kept[a] /\ kept[a] <= total[a]
    BY <1>0, <1>1, RowLeft
  <2> QED
    BY <2>1, SheetUnits, BulkAssumption, RunnerAssumption
<1>3. NewRow(c, startAt[a] + done[a], root[a], a)
  BY <1>1, <1>2 DEF NewRow, RetryInsert, QueueBulk, Insert, historyVars
<1>4. /\ hpc' = [hpc EXCEPT ![h] = "mark"] /\ hchild' = [hchild EXCEPT ![h] = c] /\ hjob' = hjob
      /\ done' = done /\ responding' = responding \cup {c}
      /\ \A i \in Job : i # c => /\ status'[i] = status[i] /\ startAt'[i] = startAt[i]
                                 /\ root'[i] = root[i] /\ parent'[i] = parent[i]
      /\ status'[c] = "queued" /\ startAt'[c] = startAt[a] + done[a] /\ root'[c] = root[a]
      /\ parent'[c] = a
  BY <1>0, <1>3 DEF NewRow, BulkTypeOK, TypeOK, RetryInsert
<1> HIDE DEF a
<1>5. a # c /\ done[c] = 0 /\ root'[a] = root[a] /\ hjob[h] = a
  BY <1>0, <1>1, <1>4, Unknown DEF a
<1>6. RetryHeld(h)'
  <2>1. ASSUME NEW i \in Handler, hpc'[i] = "mark", hchild'[i] = hchild'[h] PROVE i = h
    <3>1. hchild'[h] = c
      BY <1>0, <1>4 DEF BulkTypeOK
    <3> QED
      BY <1>0, <1>1, <1>4, <2>1, <3>1, Unknown DEF BulkTypeOK
  <2>2. hchild'[h] = c /\ hpc'[h] = "mark" /\ hjob'[h] = a
    BY <1>0, <1>4, <1>5 DEF BulkTypeOK
  <2> QED
    BY <1>1, <1>4, <1>5, <2>1, <2>2 DEF RetryHeld
<1>7. ASSUME NEW i \in Handler \ {h} PROVE RetryHeld(i)'
  <2>1. /\ hpc[i] # "idle" => hjob[i] # c /\ hjob[i] \in Job
        /\ hpc[i] = "mark" => hchild[i] # c /\ hchild[i] \in Job
    BY <1>0, <1>1, Unknown DEF RetryHeld, TypeOK
  <2>2. /\ hpc'[i] = hpc[i] /\ hjob'[i] = hjob[i] /\ hchild'[i] = hchild[i]
        /\ hchild'[h] = c
        /\ \A x \in Handler : x # h => hpc'[x] = hpc[x] /\ hchild'[x] = hchild[x]
    BY <1>0, <1>4 DEF BulkTypeOK
  <2>3. RetryHeld(i)
    BY <1>0
  <2>4. hpc'[i] # "idle" => hjob'[i] \in Job /\ status'[hjob'[i]] = "failed"
    BY <1>4, <2>1, <2>2, <2>3 DEF RetryHeld
  <2>5. ASSUME hpc'[i] = "mark"
        PROVE  /\ hchild'[i] \in responding' /\ done'[hchild'[i]] = 0
               /\ status'[hchild'[i]] # "none" /\ parent'[hchild'[i]] = hjob'[i]
               /\ root'[hchild'[i]] = root'[hjob'[i]]
               /\ startAt'[hchild'[i]] = startAt'[hjob'[i]] + done'[hjob'[i]]
    BY <1>4, <2>1, <2>2, <2>3, <2>5 DEF RetryHeld
  <2>6. ASSUME hpc'[i] = "mark", NEW x \in Handler, hpc'[x] = "mark", hchild'[x] = hchild'[i]
        PROVE  x = i
    BY <2>1, <2>2, <2>3, <2>6 DEF RetryHeld
  <2> QED
    BY <2>4, <2>5, <2>6 DEF RetryHeld
<1>8. /\ hpc' \in [Handler -> {"idle", "insert", "mark"}]
      /\ hjob' \in [Handler -> Job \cup {NoJob}] /\ hchild' \in [Handler -> Job \cup {NoJob}]
  BY <1>0, <1>4 DEF BulkTypeOK
<1>9. \A i \in Handler : RetryHeld(i)'
  BY <1>6, <1>7
<1> QED
  BY <1>3, <1>8, <1>9, SheetNew

\* Every step keeps the invariant.
LEMMA SheetStep == SheetInv /\ [BulkNext]_allVars => SheetInv'
<1> SUFFICES ASSUME SheetInv, [BulkNext]_allVars PROVE SheetInv'
  OBVIOUS
<1>1. RunnerInv'
  BY BulkRuns, RunnerStep DEF SheetInv, SheetCore
<1>2. ASSUME NEW j \in Job, StartBulk(j) PROVE SheetInv'
  BY <1>1, <1>2, SheetStart
<1>3. ASSUME NEW j \in Job, MakeQuestion(j) PROVE SheetInv'
  BY <1>1, <1>3, SheetMake
<1>4. ASSUME NEW h \in Handler, NEW c \in Job, RetryInsert(h, c) PROVE SheetInv'
  BY <1>1, <1>4, SheetRetry
<1>5. ASSUME NEW h \in Handler, RetryMark(h) PROVE SheetInv'
  BY <1>1, <1>5, SheetMark
<1> QED
  BY <1>1, <1>2, <1>3, <1>4, <1>5, SheetQuietSteps DEF BulkNext

\* The invariant holds at the start, when no row is there.
LEMMA SheetInit == BulkInit => SheetInv
<1> SUFFICES ASSUME BulkInit PROVE SheetInv
  OBVIOUS
<1>1. RunnerInv
  BY RunnerStart DEF BulkInit
<1>2. /\ \A j \in Job : /\ status[j] = "none" /\ kind[j] = "counted" /\ pc[j] = "idle"
                        /\ root[j] = NoJob /\ parent[j] = NoJob /\ retriedBy[j] = NoJob
      /\ \A r \in Job, p \in Position : copies[r][p] = 0
      /\ \A h \in Handler : hpc[h] = "idle"
  BY DEF BulkInit, Init
<1>3. BulkTypeOK
  BY <1>1, <1>2 DEF RunnerInv, BulkInit, BulkTypeOK
<1>4. SheetCore
  BY <1>1, <1>2, <1>3, BulkAssumption DEF SheetCore, SheetRows, RetryHeld
<1>5. StoredIsMade /\ MadeTwiceOnlyByKnownPaths
  BY <1>2 DEF StoredIsMade, MadeTwiceOnlyByKnownPaths
<1>6. SheetDepth
  <2> DEFINE d == [j \in Job |-> 0]
  <2>1. d \in [Job -> Nat]
    OBVIOUS
  <2> HIDE DEF d
  <2>2. DepthOK(d) /\ StillOwed(d) /\ InLine(d)
    BY <1>2 DEF DepthOK, StillOwed, InLine
  <2> QED
    BY <2>1, <2>2 DEF SheetDepth
<1> QED
  BY <1>4, <1>5, <1>6 DEF SheetInv

\* SheetInv holds in every state bulk generation reaches.
THEOREM SheetsHold == BulkSpec => []SheetInv
BY SheetInit, SheetStep, PTL DEF BulkSpec

\* Bulk generation is a body of the job runner: what is proved of the runner
\* holds of it.
THEOREM BulkIsARunner == BulkSpec => Spec
<1>1. BulkInit => Init
  BY DEF BulkInit
<1>2. SheetInv => SheetCore
  BY DEF SheetInv
<1> QED
  BY <1>1, <1>2, BulkRuns, SheetsHold, PTL DEF BulkSpec, Spec

\* The columns of bulk jobs and the steps of retry requests have their types.
THEOREM BulkTypeCorrect == BulkSpec => []BulkTypeOK
<1>1. SheetInv => BulkTypeOK
  BY DEF SheetInv, SheetCore
<1> QED
  BY <1>1, SheetsHold, PTL

\* Whatever is interrupted, cancelled or retried, each question of a sheet is
\* stored or still owed by a job in flight or open to a retry, and it is stored
\* twice only when its count was lost or a job was retried by two requests.
THEOREM SheetsMadeOnce == BulkSpec => []SheetMadeOnce
<1>1. SheetInv => SheetMadeOnce
  <2> SUFFICES ASSUME SheetInv PROVE NoQuestionLost
    BY DEF SheetInv, SheetMadeOnce
  <2> SUFFICES ASSUME NEW r \in Job, status[r] # "none", root[r] = r, NEW p \in Position,
                      ~(copies[r][p] > 0)
               PROVE  \E j \in Job : root[j] = r /\ Owes(j, p)
    BY DEF NoQuestionLost
  <2>1. startAt[r] = 0 /\ done[r] \in Nat /\ kept[r] \in Nat /\ done[r] <= kept[r]
    BY RowLeft DEF SheetInv, SheetCore, SheetRows
  <2>2. p \in Nat /\ p > 0
    BY SheetUnits, BulkAssumption, RunnerAssumption DEF Position
  <2>3. p > startAt[r] + done[r]
    <3>1. ~MadeBy(r, p)
      BY DEF SheetInv, StoredIsMade
    <3> QED
      BY <2>1, <2>2, <3>1 DEF MadeBy
  <2>4. PICK depth \in [Job -> Nat] : StillOwed(depth)
    BY DEF SheetInv, SheetDepth
  <2> QED
    BY <2>3, <2>4 DEF StillOwed, OwedBelow
<1> QED
  BY <1>1, SheetsHold, PTL
-----------------------------------------------------------------------------
(***************************************************************************)
(* Fills.                                                                  *)
(***************************************************************************)
FillRows ==
    /\ OnlyCounted
    /\ \A j \in Job : status[j] = "none" => firstFill[j] = NoFill /\ fillRetriedBy[j] = NoFill
    /\ \A j \in Job : status[j] # "none" =>
           /\ firstFill[j] \in Job /\ status[firstFill[j]] # "none"
           /\ units[j] = Len(targets[j]) /\ units[j] <= MaxUnits
    /\ \A j \in Job : status[j] = "done" => failed[j] = failing[j]
    /\ \A j \in Job : fillRetriedBy[j] # NoFill => status[j] \in Ended

\* The body's lists say of every target that was handled how it went.
ListsInv ==
    \A j \in Job : /\ Len(outcome[j]) = kept[j] /\ Len(failing[j]) <= kept[j]
                   /\ \A i \in 1..kept[j] :
                          outcome[j][i] = "failed" => targets[j][i] \in ToSet(failing[j])

\* A request holds a plan, or what an ended fill left; the fill it inserted has that.
RequestHeld(h) ==
    /\ fpc[h] # "idle" /\ fjob[h] # NoFill => fjob[h] \in Job /\ status[fjob[h]] \in Ended
    /\ fpc[h] \in {"topics", "insert"} => /\ fjob[h] = NoFill => ftargets[h] \in Plans
                                          /\ fjob[h] # NoFill => ftargets[h] = RetryTargets(fjob[h])
    /\ fpc[h] = "mark" => /\ fjob[h] # NoFill /\ fchild[h] \in Job /\ status[fchild[h]] # "none"
                          /\ targets[fchild[h]] = RetryTargets(fjob[h])
                          /\ firstFill[fchild[h]] = firstFill[fjob[h]]

FillCore == /\ RunnerInv /\ FillTypeOK /\ FillRows /\ ListsInv
            /\ \A h \in Request : RequestHeld(h)

\* One job still has a gap to do.
OwesGap(j, g) == \/ status[j] \in InFlight /\ g \in ToSet(targets[j])
                 \/ RetriableFill(j) /\ g \in ToSet(RetryTargets(j))

\* A gap that need not be owed any more.
Tried(r, g) ==
    \/ Settled(r, g, {"generated", "skipped"})
    \/ Settled(r, g, {"failed"}) /\ \E j \in Chain(r) : status[j] = "failed"

\* With a depth of the rows, where the fill of a retry is one deeper than the fill it
\* retries, each target of a fill was tried or is owed by one as deep or deeper.
MarkDepth(depth) == \A h \in Request : fpc[h] = "mark" => depth[fchild[h]] = depth[fjob[h]] + 1
OwedAt(depth, r, j, g) == \E k \in Chain(r) : OwesGap(k, g) /\ depth[k] >= depth[j]
GapsKept(depth) ==
    \A r, j \in Job : status[j] # "none" /\ firstFill[j] = r =>
        \A g \in ToSet(targets[j]) : Tried(r, g) \/ OwedAt(depth, r, j, g)

FillDepth == \E depth \in [Job -> Nat] : MarkDepth(depth) /\ GapsKept(depth)
FillInv == FillCore /\ FillDepth
-----------------------------------------------------------------------------
\* What is appended to a list is all that the list gains.
LEMMA ToSetAppend ==
    ASSUME NEW S, NEW s \in Seq(S), NEW e \in S PROVE ToSet(Append(s, e)) = ToSet(s) \cup {e}
<1> DEFINE t == Append(s, e)
<1>1. /\ Len(s) \in Nat /\ DOMAIN s = 1..Len(s) /\ DOMAIN t = 1..(Len(s) + 1)
      /\ t[Len(s) + 1] = e /\ \A i \in 1..Len(s) : t[i] = s[i]
  OBVIOUS
<1> HIDE DEF t
<1>2. ASSUME NEW x \in ToSet(t) PROVE x \in ToSet(s) \cup {e}
  <2>1. PICK i \in 1..(Len(s) + 1) : x = t[i]
    BY <1>1, <1>2 DEF ToSet
  <2>2. i = Len(s) + 1 \/ i \in 1..Len(s)
    BY <1>1, <2>1
  <2> QED
    BY <1>1, <2>1, <2>2 DEF ToSet
<1>3. ASSUME NEW x \in ToSet(s) \cup {e} PROVE x \in ToSet(t)
  <2>1. CASE x = e
    <3>1. Len(s) + 1 \in DOMAIN t
      BY <1>1
    <3> QED
      BY <1>1, <2>1, <3>1 DEF ToSet
  <2>2. CASE x \in ToSet(s)
    <3>1. PICK i \in 1..Len(s) : x = s[i]
      BY <1>1, <2>2 DEF ToSet
    <3>2. i \in DOMAIN t /\ t[i] = x
      BY <1>1, <3>1
    <3> QED
      BY <3>2 DEF ToSet
  <2> QED
    BY <1>3, <2>1, <2>2
<1>4. ToSet(t) = ToSet(s) \cup {e}
  BY <1>2, <1>3
<1> QED
  BY <1>4 DEF t

\* The targets after the first d of them.
LEMMA Rest ==
    ASSUME NEW S, NEW s \in Seq(S), NEW d \in Nat
    PROVE  /\ SubSeq(s, d + 1, Len(s)) \in Seq(S)
           /\ d <= Len(s) => Len(SubSeq(s, d + 1, Len(s))) = Len(s) - d
           /\ \A i \in 1..Len(s) : i > d => s[i] \in ToSet(SubSeq(s, d + 1, Len(s)))
           /\ ToSet(SubSeq(s, d + 1, Len(s))) \subseteq ToSet(s)
<1> DEFINE t == SubSeq(s, d + 1, Len(s))
<1>1. /\ t \in Seq(S) /\ Len(t) = (IF d + 1 <= Len(s) THEN Len(s) - (d + 1) + 1 ELSE 0)
      /\ \A i \in 1 .. Len(s) - (d + 1) + 1 : t[i] = s[d + 1 + i - 1]
  <2>1. d + 1 \in Int /\ Len(s) \in Int /\ \A i \in (d + 1)..Len(s) : s[i] \in S
    OBVIOUS
  <2> QED
    BY <2>1, SubSeqProperties
<1> HIDE DEF t
<1>2. /\ DOMAIN t = 1..Len(t) /\ DOMAIN s = 1..Len(s)
      /\ \A i \in 1 .. Len(s) - d : t[i] = s[d + i]
  <2>1. Len(s) \in Nat /\ Len(s) - (d + 1) + 1 = Len(s) - d
    OBVIOUS
  <2>2. ASSUME NEW i \in 1 .. Len(s) - d PROVE t[i] = s[d + i]
    <3>1. d + 1 + i - 1 = d + i /\ i \in 1 .. Len(s) - (d + 1) + 1
      BY <2>1, <2>2
    <3>2. t[i] = s[d + 1 + i - 1]
      BY <1>1, <3>1
    <3> QED
      BY <3>1, <3>2
  <2> QED
    BY <1>1, <2>2
<1>3. PICK n \in Nat : n = Len(s)
  OBVIOUS
<1>4. Len(t) = IF d + 1 <= n THEN n - d ELSE 0
  BY <1>1, <1>3
<1>5. ASSUME NEW i \in 1..Len(t) PROVE t[i] = s[d + i] /\ d + i \in 1..n
  <2>1. CASE d + 1 <= n
    <3>1. Len(t) = n - d
      BY <1>4, <2>1
    <3>2. i \in 1 .. n - d
      BY <3>1
    <3> QED
      BY <1>2, <1>3, <3>2
  <2>2. CASE ~(d + 1 <= n)
    <3>1. Len(t) = 0
      BY <1>4, <2>2
    <3>2. i \in 1..0
      BY <3>1
    <3> QED
      BY <3>2
  <2> QED
    BY <2>1, <2>2
<1>6. ASSUME NEW i \in 1..n, i > d PROVE s[i] \in ToSet(t)
  <2>1. i - d \in 1 .. n - d /\ i - d \in 1..Len(t) /\ d + (i - d) = i
    BY <1>4, <1>6
  <2>2. i - d \in DOMAIN t /\ t[i - d] = s[i]
    BY <1>2, <1>3, <2>1
  <2> QED
    BY <2>2 DEF ToSet
<1>7. ToSet(t) \subseteq ToSet(s)
  BY <1>2, <1>3, <1>5 DEF ToSet
<1>8. d <= n => Len(t) = n - d
  BY <1>3, <1>4
<1> QED
  BY <1>1, <1>3, <1>6, <1>7, <1>8 DEF t

\* What a retry of an ended fill would try.
LEMMA RetryRest ==
    ASSUME FillCore, NEW j \in Job, status[j] # "none"
    PROVE  /\ RetryTargets(j) \in Seq(Gap) /\ Len(RetryTargets(j)) \in 0..MaxUnits
           /\ status[j] # "done" => \A i \in 1..Len(targets[j]) :
                  i > done[j] => targets[j][i] \in ToSet(RetryTargets(j))
           /\ status[j] = "done" => RetryTargets(j) = failing[j]
<1>1. /\ targets[j] \in Seq(Gap) /\ failing[j] \in Seq(Gap) /\ done[j] \in Nat /\ kept[j] \in Nat
      /\ units[j] = Len(targets[j]) /\ units[j] <= MaxUnits /\ done[j] <= kept[j]
      /\ kept[j] <= units[j] /\ Len(failing[j]) <= kept[j] /\ units[j] \in Nat
      /\ status[j] = "done" => failed[j] = failing[j]
  BY DEF FillCore, FillTypeOK, FillRows, ListsInv, RunnerInv, TypeOK, RowInv, CountInv
<1>2. CASE status[j] # "done"
  <2>1. RetryTargets(j) = SubSeq(targets[j], done[j] + 1, Len(targets[j]))
    BY <1>2 DEF RetryTargets
  <2> DEFINE t == SubSeq(targets[j], done[j] + 1, Len(targets[j]))
  <2>2. /\ t \in Seq(Gap) /\ Len(t) = Len(targets[j]) - done[j]
        /\ \A i \in 1..Len(targets[j]) : i > done[j] => targets[j][i] \in ToSet(t)
    <3>1. done[j] <= Len(targets[j])
      BY <1>1
    <3> QED
      BY <1>1, <3>1, Rest
  <2> HIDE DEF t
  <2>3. Len(t) \in 0..MaxUnits
    BY <1>1, <2>2, RunnerAssumption
  <2>4. RetryTargets(j) = t
    BY <2>1 DEF t
  <2> QED
    BY <1>2, <2>2, <2>3, <2>4
<1>3. CASE status[j] = "done"
  <2>1. RetryTargets(j) = failing[j]
    BY <1>1, <1>3 DEF RetryTargets
  <2> QED
    BY <1>1, <1>3, <2>1, RunnerAssumption
<1> QED
  BY <1>2, <1>3

\* A step of fills is a step of the runner.
LEMMA FillRuns == ASSUME FillCore, [FillNext]_fillAllVars PROVE [Next]_runnerVars
<1>1. CASE UNCHANGED fillAllVars
  BY <1>1 DEF fillAllVars
<1>2. ASSUME NEW h \in Request, \/ \E plan \in Plans : StartFill(h, plan)
                                \/ \E j \in Job : RetryFill(h, j)
                                \/ CheckTopics(h) \/ MarkRetried(h)
      PROVE  UNCHANGED runnerVars
  BY <1>2 DEF StartFill, RetryFill, CheckTopics, MarkRetried
<1>3. ASSUME NEW h \in Request, NEW c \in Job, InsertFill(h, c) PROVE Next
  <2>1. Insert(c, "counted", Len(ftargets[h])) /\ fpc[h] = "insert"
    BY <1>3 DEF InsertFill
  <2>2. Len(ftargets[h]) \in 0..MaxUnits
    <3>1. RequestHeld(h)
      BY DEF FillCore
    <3>2. CASE fjob[h] = NoFill
      BY <2>1, <3>1, <3>2, FillAssumption, RunnerAssumption DEF RequestHeld
    <3>3. CASE fjob[h] # NoFill
      BY <2>1, <3>1, <3>3, RetryRest DEF RequestHeld, Ended
    <3> QED
      BY <3>2, <3>3
  <2> QED
    BY <2>1, <2>2, FillAssumption DEF Next
<1>4. ASSUME NEW h \in Request, MarkLost(h) PROVE Next
  <2>1. RespondLost(fchild[h]) /\ fchild[h] \in Job
    BY <1>4 DEF MarkLost, FillCore, RequestHeld
  <2> QED
    BY <2>1 DEF Next
<1>5. ASSUME NEW j \in Job, \/ FillRespond(j) \/ FillRecord(j) \/ FinishFill(j)
                            \/ \E o \in Outcome : HandleTarget(j, o)
      PROVE  Next
  BY <1>5 DEF FillRespond, FillRecord, FinishFill, HandleTarget, Next, Worker, Record, Trouble
<1>6. CASE FillCrash \/ FillRecover
  BY <1>6 DEF FillCrash, FillRecover, Next
<1> QED
  BY <1>1, <1>2, <1>3, <1>4, <1>5, <1>6 DEF FillNext

\* A step that inserts no fill, handles no target and marks none as retried.
FillQuiet ==
    /\ Quiet
    /\ UNCHANGED <<targets, fillRetriedBy, firstFill, bodyLists>>
    /\ \A i \in Job : /\ status[i] \in Ended => failed'[i] = failed[i]
                      /\ status'[i] = "done" => failed'[i] = failing[i]

\* What a retry of a fill that ended would try stays as it is.
LEMMA RetryFrozen ==
    ASSUME FillQuiet, NEW j \in Job, status[j] \in Ended
    PROVE  status'[j] = status[j] /\ RetryTargets(j)' = RetryTargets(j)
<1>1. status'[j] = status[j] /\ done'[j] = done[j] /\ failed'[j] = failed[j] /\ targets' = targets
  BY EndedFrozen DEF FillQuiet
<1> QED
  BY <1>1 DEF RetryTargets

\* A request that does not move holds what it held.
LEMMA RequestFrozen ==
    ASSUME FillQuiet, NEW h \in Request, RequestHeld(h),
           fpc'[h] = fpc[h], fjob'[h] = fjob[h], ftargets'[h] = ftargets[h], fchild'[h] = fchild[h]
    PROVE  RequestHeld(h)'
<1>1. \A j \in Job : status'[j] = "none" <=> status[j] = "none"
  BY DEF FillQuiet, Quiet
<1>2. targets' = targets /\ firstFill' = firstFill
  BY DEF FillQuiet
<1>3. fpc[h] # "idle" /\ fjob[h] # NoFill =>
          /\ fjob[h] \in Job /\ status[fjob[h]] \in Ended /\ status'[fjob[h]] \in Ended
          /\ RetryTargets(fjob[h])' = RetryTargets(fjob[h])
  <2>1. ASSUME fpc[h] # "idle", fjob[h] # NoFill
        PROVE  fjob[h] \in Job /\ status[fjob[h]] \in Ended
    BY <2>1 DEF RequestHeld
  <2>2. ASSUME fpc[h] # "idle", fjob[h] # NoFill
        PROVE  /\ status'[fjob[h]] = status[fjob[h]]
               /\ RetryTargets(fjob[h])' = RetryTargets(fjob[h])
    BY <2>1, <2>2, RetryFrozen
  <2> QED
    BY <2>1, <2>2
<1>4. fpc'[h] # "idle" /\ fjob'[h] # NoFill => fjob'[h] \in Job /\ status'[fjob'[h]] \in Ended
  BY <1>3
<1>5. fpc'[h] \in {"topics", "insert"} =>
          /\ fjob'[h] = NoFill => ftargets'[h] \in Plans
          /\ fjob'[h] # NoFill => ftargets'[h] = RetryTargets(fjob[h])'
  BY <1>3 DEF RequestHeld
<1>6. fpc'[h] = "mark" =>
          /\ fjob'[h] # NoFill /\ fchild'[h] \in Job /\ status'[fchild'[h]] # "none"
          /\ targets'[fchild'[h]] = RetryTargets(fjob[h])'
          /\ firstFill'[fchild'[h]] = firstFill'[fjob'[h]]
  BY <1>1, <1>2, <1>3 DEF RequestHeld
<1> QED
  BY <1>4, <1>5, <1>6 DEF RequestHeld

\* Such a step forgets no gap: one in a stopped fill is behind its count and was
\* tried, or is what a retry of it begins with.
LEMMA FillStays ==
    ASSUME FillInv, RunnerInv', FillTypeOK', FillQuiet, \A h \in Request : RequestHeld(h)',
           \A h \in Request : fpc'[h] = "mark" => /\ fpc[h] = "mark" /\ fchild'[h] = fchild[h]
                                                  /\ fjob'[h] = fjob[h]
    PROVE  FillInv'
<1>1. /\ FillCore /\ OnlyCounted /\ RunnerInv /\ FillTypeOK /\ FillRows /\ ListsInv
      /\ UNCHANGED <<units, kind, kept, targets, fillRetriedBy, firstFill, outcome, failing>>
      /\ \A i \in Job : /\ status'[i] = "none" <=> status[i] = "none"
                        /\ status[i] \in Ended => status'[i] = status[i]
                        /\ pc'[i] = "size" => pc[i] = "size"
                        /\ status'[i] = "done" => failed'[i] = failing[i]
  BY DEF FillInv, FillCore, FillRows, FillQuiet, Quiet, bodyLists
<1>2. FillRows'
  <2>1. OnlyCounted'
    BY <1>1 DEF OnlyCounted
  <2>2. \A j \in Job : status'[j] # "none" =>
           /\ firstFill'[j] \in Job /\ status'[firstFill'[j]] # "none"
           /\ units'[j] = Len(targets'[j]) /\ units'[j] <= MaxUnits
    BY <1>1 DEF FillRows
  <2>3. \A j \in Job : fillRetriedBy'[j] # NoFill => status'[j] \in Ended
    BY <1>1 DEF FillRows
  <2> QED
    BY <1>1, <2>1, <2>2, <2>3 DEF FillRows
<1>3. ListsInv'
  BY <1>1 DEF ListsInv
<1>4. ASSUME NEW r, NEW g, Tried(r, g) PROVE Tried(r, g)'
  <2>1. Chain(r)' = Chain(r) /\ \A os : Settled(r, g, os)' <=> Settled(r, g, os)
    BY <1>1 DEF Chain, Settled
  <2>2. \A j \in Job : status[j] = "failed" => status'[j] = "failed"
    BY <1>1 DEF Ended
  <2> QED
    BY <1>4, <2>1, <2>2 DEF Tried, Chain
<1>5. ASSUME NEW r, NEW k \in Job, NEW g, firstFill[k] = r, OwesGap(k, g)
      PROVE  OwesGap(k, g)' \/ Tried(r, g)'
  <2>1. CASE status[k] \in Ended
    <3>1. status'[k] = status[k] /\ RetryTargets(k)' = RetryTargets(k)
      BY <2>1, RetryFrozen
    <3>2. RetriableFill(k) /\ g \in ToSet(RetryTargets(k))
      BY <1>5, <2>1 DEF OwesGap, InFlight, Ended
    <3> QED
      BY <1>1, <3>1, <3>2 DEF OwesGap, RetriableFill
  <2>2. CASE status[k] \in InFlight /\ status'[k] \in InFlight
    BY <1>1, <1>5, <2>2 DEF OwesGap, InFlight, Ended, RetriableFill
  <2>3. CASE status[k] \in InFlight /\ status'[k] \notin InFlight
    <3>1. g \in ToSet(targets[k]) /\ status[k] # "none" /\ fillRetriedBy[k] = NoFill
      BY <1>1, <1>5, <2>3 DEF OwesGap, InFlight, Ended, RetriableFill, FillRows
    <3>2. /\ status'[k] \in Ended /\ status'[k] # "none"
          /\ targets[k] \in Seq(Gap) /\ outcome[k] \in Seq(Outcome) /\ failing[k] \in Seq(Gap)
          /\ Len(outcome[k]) = kept[k] /\ kept[k] \in Nat /\ kept[k] <= Len(targets[k])
          /\ done'[k] \in Nat /\ done'[k] <= kept[k]
      <4>1. /\ targets[k] \in Seq(Gap) /\ outcome[k] \in Seq(Outcome) /\ failing[k] \in Seq(Gap)
            /\ Len(outcome[k]) = kept[k] /\ kept[k] \in Nat /\ kept[k] <= units[k]
            /\ units[k] = Len(targets[k])
        BY <1>1, <3>1 DEF FillTypeOK, TypeOK, ListsInv, RunnerInv, RowInv, CountInv, FillRows
      <4>2. done'[k] \in Nat /\ done'[k] <= kept[k]
        BY <1>1 DEF RunnerInv, TypeOK, RowInv, CountInv
      <4>3. status'[k] \in Ended /\ status'[k] # "none"
        BY <1>1, <2>3, <3>1 DEF RunnerInv, TypeOK, Status
      <4> QED
        BY <4>1, <4>2, <4>3
    <3>3. PICK i \in 1..Len(targets[k]) : targets[k][i] = g
      BY <3>1, <3>2 DEF ToSet
    <3>4. FillCore'
      BY <1>2, <1>3 DEF FillCore
    <3>5. k \in Chain(r)' /\ DOMAIN outcome[k] = 1..kept[k]
      BY <1>1, <1>5, <3>2 DEF Chain
    <3>6. CASE i <= kept[k] /\ outcome[k][i] \in {"generated", "skipped"}
      <4>1. i \in 1..kept[k]
        BY <3>2, <3>6
      <4> QED
        BY <1>1, <3>3, <3>5, <3>6, <4>1 DEF Tried, Settled
    <3>7. CASE i <= kept[k] /\ outcome[k][i] \notin {"generated", "skipped"} /\ status'[k] = "failed"
      <4>1. i \in 1..kept[k] /\ outcome[k][i] = "failed"
        BY <3>2, <3>7 DEF Outcome
      <4> QED
        BY <1>1, <3>3, <3>5, <3>7, <4>1 DEF Tried, Settled
    <3>8. CASE i <= kept[k] /\ outcome[k][i] \notin {"generated", "skipped"} /\ status'[k] = "done"
      <4>1. i \in 1..kept[k] /\ outcome[k][i] = "failed"
        BY <3>2, <3>8 DEF Outcome
      <4>2. g \in ToSet(failing[k])
        BY <1>1, <3>3, <4>1 DEF ListsInv
      <4>3. RetryTargets(k)' = failing[k]
        BY <1>1, <3>8 DEF RetryTargets
      <4>4. failing[k] # <<>>
        BY <4>2 DEF ToSet
      <4> QED
        BY <1>1, <3>1, <3>2, <4>2, <4>3, <4>4 DEF OwesGap, RetriableFill
    <3>9. CASE i > done'[k] /\ status'[k] = "failed"
      <4>1. g \in ToSet(RetryTargets(k)')
        <5>1. RetryTargets(k)' = SubSeq(targets[k], done'[k] + 1, Len(targets[k]))
          BY <1>1, <3>9 DEF RetryTargets
        <5> QED
          BY <3>2, <3>3, <3>9, <5>1, Rest
      <4>2. RetryTargets(k)' # <<>>
        BY <4>1 DEF ToSet
      <4> QED
        BY <1>1, <3>1, <3>2, <4>1, <4>2 DEF OwesGap, RetriableFill
    <3>10. i <= kept[k] \/ i > done'[k]
      BY <3>2
    <3>11. CASE i > kept[k] /\ status'[k] = "done"
      <4>1. done'[k] = units[k] /\ units[k] = Len(targets[k])
        BY <1>1, <3>1, <3>11 DEF RunnerInv, RowInv, EndInv, FillRows
      <4> QED
        BY <3>2, <3>11, <4>1
    <3> QED
      BY <3>2, <3>6, <3>7, <3>8, <3>9, <3>10, <3>11 DEF Ended
  <2> QED
    BY <1>5, <2>1, <2>2, <2>3 DEF OwesGap, RetriableFill
<1>6. PICK depth \in [Job -> Nat] : MarkDepth(depth) /\ GapsKept(depth)
  BY DEF FillInv, FillDepth
<1>7. MarkDepth(depth)'
  BY <1>6 DEF MarkDepth
<1>8. GapsKept(depth)'
  <2> SUFFICES ASSUME NEW r \in Job, NEW j \in Job, status'[j] # "none", firstFill'[j] = r,
                      NEW g \in ToSet(targets'[j])
               PROVE  Tried(r, g)' \/ OwedAt(depth, r, j, g)'
    BY DEF GapsKept
  <2>1. status[j] # "none" /\ g \in ToSet(targets[j]) /\ firstFill[j] = r
    BY <1>1
  <2>2. CASE Tried(r, g)
    BY <1>4, <2>2
  <2>3. CASE OwedAt(depth, r, j, g)
    <3>1. PICK k \in Job : firstFill[k] = r /\ OwesGap(k, g) /\ depth[k] >= depth[j]
      BY <2>3 DEF OwedAt, Chain
    <3>2. OwesGap(k, g)' \/ Tried(r, g)'
      BY <1>5, <3>1
    <3> QED
      BY <1>1, <3>1, <3>2 DEF OwedAt, Chain
  <2> QED
    BY <1>6, <2>1, <2>2, <2>3 DEF GapsKept
<1> QED
  BY <1>2, <1>3, <1>7, <1>8 DEF FillInv, FillCore, FillDepth

\* The runner's invariant is kept.
LEMMA FillRunner == ASSUME FillInv, [FillNext]_fillAllVars PROVE RunnerInv' /\ TypeOK'
BY FillRuns, RunnerStep DEF FillInv, FillCore, RunnerInv

\* A request moves on, and the fills stay as they are.
LEMMA FillRequests ==
    ASSUME FillInv, RunnerInv', NEW h \in Request, NEW p \in {"idle", "topics", "insert", "mark"},
           NEW j \in Job \cup {NoFill}, NEW gaps \in Seq(Gap), Go(h, p, j, gaps, NoFill),
           UNCHANGED <<targets, failed, fillRetriedBy, firstFill, bodyLists>>, FillQuiet,
           p # "mark" /\ RequestHeld(h)'
    PROVE  FillInv'
<1>1. /\ FillTypeOK /\ TypeOK' /\ \A i \in Request : RequestHeld(i)
  BY DEF FillInv, FillCore, RunnerInv
<1>2. /\ fpc' = [fpc EXCEPT ![h] = p] /\ fjob' = [fjob EXCEPT ![h] = j]
      /\ ftargets' = [ftargets EXCEPT ![h] = gaps] /\ fchild' = [fchild EXCEPT ![h] = NoFill]
  BY DEF Go
<1>3. FillTypeOK'
  BY <1>1, <1>2 DEF FillTypeOK, bodyLists
<1>4. \A i \in Request : i # h => /\ fpc'[i] = fpc[i] /\ fjob'[i] = fjob[i]
                                  /\ ftargets'[i] = ftargets[i] /\ fchild'[i] = fchild[i]
  BY <1>1, <1>2 DEF FillTypeOK
<1>5. ASSUME NEW i \in Request, i # h PROVE RequestHeld(i)'
  BY <1>1, <1>4, <1>5, RequestFrozen
<1>6. fpc'[h] = p
  BY <1>1, <1>2 DEF FillTypeOK
<1>7. \A i \in Request : RequestHeld(i)'
  BY <1>5
<1>8. \A i \in Request : fpc'[i] = "mark" => /\ fpc[i] = "mark" /\ fchild'[i] = fchild[i]
                                             /\ fjob'[i] = fjob[i]
  BY <1>4, <1>6
<1> QED
  BY <1>3, <1>7, <1>8, FillStays

\* A step that leaves the rows as they are is quiet.
LEMMA NothingRun ==
    ASSUME FillCore, UNCHANGED <<runnerVars, targets, failed, fillRetriedBy, firstFill, bodyLists>>
    PROVE  FillQuiet
BY DEF FillCore, FillRows, runnerVars, rowVars, processVars, historyVars, FillQuiet, Quiet

\* A request is started, or checks its topics.
LEMMA FillAsks ==
    ASSUME FillInv, RunnerInv', NEW h \in Request,
           \/ \E plan \in Plans : StartFill(h, plan)
           \/ \E j \in Job : RetryFill(h, j)
           \/ CheckTopics(h)
    PROVE  FillInv'
<1>0. /\ FillCore /\ FillTypeOK /\ RequestHeld(h) /\ NoFill \notin Job /\ <<>> \in Seq(Gap)
      /\ UNCHANGED <<runnerVars, targets, failed, fillRetriedBy, firstFill, bodyLists>>
  <2>1. UNCHANGED <<runnerVars, fillRow, bodyLists>>
    BY Zenon DEF StartFill, RetryFill, CheckTopics
  <2>2. FillCore /\ FillTypeOK /\ RequestHeld(h) /\ NoFill \notin Job
    BY FillAssumption DEF FillInv, FillCore
  <2>3. <<>> \in Seq(Gap)
    OBVIOUS
  <2> QED
    BY <2>1, <2>2, <2>3 DEF fillRow
<1>1. FillQuiet
  BY <1>0, NothingRun
<1>2. \A j : RetryTargets(j)' = RetryTargets(j)
  BY <1>0 DEF RetryTargets, runnerVars, rowVars
<1>3. status' = status
  BY <1>0 DEF runnerVars, rowVars
<1>4. ASSUME NEW plan \in Plans, StartFill(h, plan) PROVE FillInv'
  <2>1. Go(h, "topics", NoFill, plan, NoFill) /\ plan \in Seq(Gap)
    BY <1>4, FillAssumption DEF StartFill
  <2>2. fpc'[h] = "topics" /\ fjob'[h] = NoFill /\ ftargets'[h] = plan
    BY <1>0, <2>1 DEF Go, FillTypeOK
  <2>3. RequestHeld(h)'
    BY <2>2, <1>4 DEF RequestHeld
  <2> QED
    BY <1>0, <1>1, <2>1, <2>3, FillRequests
<1>5. ASSUME NEW j \in Job, RetryFill(h, j) PROVE FillInv'
  <2>1. Go(h, "topics", j, RetryTargets(j), NoFill) /\ status[j] \in Ended
    BY <1>5 DEF RetryFill, RetriableFill
  <2>2. RetryTargets(j) \in Seq(Gap)
    BY <1>0, <2>1, RetryRest DEF Ended
  <2>3. fpc'[h] = "topics" /\ fjob'[h] = j /\ ftargets'[h] = RetryTargets(j)'
    BY <1>0, <1>2, <2>1 DEF Go, FillTypeOK
  <2>4. RequestHeld(h)'
    BY <1>0, <1>3, <2>1, <2>3 DEF RequestHeld, RetryTargets
  <2> QED
    BY <1>0, <1>1, <2>1, <2>2, <2>4, FillRequests
<1>6. CASE CheckTopics(h)
  <2>1. fpc[h] = "topics"
    BY <1>6 DEF CheckTopics
  <2>2. CASE Go(h, "insert", fjob[h], ftargets[h], NoFill)
    <3>1. ftargets[h] \in Seq(Gap) /\ fjob[h] \in Job \cup {NoFill}
      BY <1>0 DEF FillTypeOK
    <3>2. fpc'[h] = "insert" /\ fjob'[h] = fjob[h] /\ ftargets'[h] = ftargets[h]
      BY <1>0, <2>2 DEF Go, FillTypeOK
    <3>3. RequestHeld(h)'
      BY <1>0, <1>3, <2>1, <3>2 DEF RequestHeld, RetryTargets, runnerVars, rowVars
    <3> QED
      BY <1>0, <1>1, <2>2, <3>1, <3>3, FillRequests
  <2>3. CASE Return(h)
    <3>1. Go(h, "idle", NoFill, <<>>, NoFill)
      BY <2>3 DEF Return
    <3>2. fpc'[h] = "idle"
      BY <1>0, <3>1 DEF Go, FillTypeOK
    <3>3. RequestHeld(h)'
      BY <3>2 DEF RequestHeld
    <3> QED
      BY <1>0, <1>1, <3>1, <3>3, FillRequests
  <2> QED
    BY <1>6, <2>2, <2>3 DEF CheckTopics
<1> QED
  BY <1>4, <1>5, <1>6

\* Of the runner's steps only Close ends a fill as done.
LEMMA OnlyCloseIsDone ==
    ASSUME TypeOK, NEW j \in Job,
           \/ Respond(j) \/ RespondLost(j) \/ Claim(j) \/ Count(j) \/ Check(j) \/ RecordEnd(j)
           \/ Trouble(j) \/ Cancel(j)
    PROVE  \A i \in Job : status'[i] = "done" => status[i] = "done"
<1> USE DEF TypeOK
<1>1. CASE Respond(j) \/ RespondLost(j) \/ Count(j) \/ Check(j) \/ Trouble(j)
  <2>1. status' = status
    BY <1>1 DEF Respond, RespondLost, Count, Check, Trouble, WorkFails, ClaimFault, CountFault,
                CloseFault, RecordLost, rowVars
  <2> QED
    BY <2>1
<1>2. CASE Claim(j) \/ RecordEnd(j) \/ CancelCheck(j) \/ CancelWrite(j)
  BY <1>2 DEF Claim, RecordEnd, CancelCheck, CancelWrite, rowVars
<1> QED
  BY <1>1, <1>2 DEF Cancel

\* The runner's own steps, and a restart.
LEMMA FillRecords ==
    ASSUME FillInv, RunnerInv', NEW j \in Job, FillRespond(j) \/ FillRecord(j) \/ FinishFill(j)
    PROVE  FillInv'
<1>0. /\ FillCore /\ FillTypeOK /\ RunnerInv /\ FillRows /\ OnlyCounted /\ TypeOK /\ TypeOK'
      /\ \A h \in Request : RequestHeld(h)
  BY DEF FillInv, FillCore, FillRows, RunnerInv
<1>1. Quiet
  BY <1>0, QuietSteps DEF FillRespond, FillRecord, FinishFill, Record
<1>2. UNCHANGED <<targets, fillRetriedBy, firstFill, bodyLists, fpc, fjob, ftargets, fchild>>
  BY DEF FillRespond, FillRecord, FinishFill, fillVars, fillRow, requestVars
<1>3. /\ failed' \in [Job -> Seq(Gap)]
      /\ \A i \in Job : /\ status[i] \in Ended => failed'[i] = failed[i]
                        /\ status'[i] = "done" => failed'[i] = failing[i]
  <2>1. CASE FillRespond(j) \/ FillRecord(j)
    <3>1. failed' = failed
      BY <2>1 DEF FillRespond, FillRecord, fillVars, fillRow
    <3>2. \A i \in Job : status'[i] = "done" => status[i] = "done"
      BY <1>0, <2>1, OnlyCloseIsDone DEF FillRespond, FillRecord
    <3> QED
      BY <1>0, <3>1, <3>2 DEF FillTypeOK, FillRows
  <2>2. CASE FinishFill(j)
    <3>1. failed' = [failed EXCEPT ![j] = failing[j]] /\ status[j] = "running"
          /\ \A i \in Job : i # j => status'[i] = status[i]
      BY <1>0, <2>2 DEF FinishFill, Close, RunnerInv, RowInv, ThreadInv, Begun, TypeOK
    <3> QED
      BY <1>0, <3>1 DEF FillTypeOK, FillRows, Ended
  <2> QED
    BY <2>1, <2>2
<1>4. FillQuiet
  BY <1>1, <1>2, <1>3 DEF FillQuiet
<1>5. \A h \in Request : RequestHeld(h)'
  BY <1>0, <1>2, <1>4, RequestFrozen
<1>6. FillTypeOK'
  BY <1>0, <1>2, <1>3 DEF FillTypeOK, bodyLists
<1> QED
  BY <1>2, <1>4, <1>5, <1>6, FillStays

\* The request of a retry loses its commit.
LEMMA FillMarkLost ==
    ASSUME FillInv, RunnerInv', NEW h \in Request, MarkLost(h) PROVE FillInv'
<1>0. /\ FillCore /\ FillTypeOK /\ RunnerInv /\ FillRows /\ OnlyCounted /\ TypeOK
      /\ RequestHeld(h) /\ <<>> \in Seq(Gap)
  BY DEF FillInv, FillCore, FillRows, RunnerInv
<1>1. /\ fchild[h] \in Job /\ RespondLost(fchild[h]) /\ Go(h, "idle", NoFill, <<>>, NoFill)
      /\ UNCHANGED <<targets, failed, fillRetriedBy, firstFill, bodyLists>>
  BY <1>0 DEF MarkLost, RequestHeld, Return, fillRow
<1>2. Quiet /\ \A i \in Job : status'[i] = "done" => status[i] = "done"
  BY <1>0, <1>1, QuietSteps, OnlyCloseIsDone
<1>3. FillQuiet
  BY <1>0, <1>1, <1>2 DEF FillQuiet, FillRows
<1>4. fpc'[h] = "idle"
  BY <1>0, <1>1 DEF Go, FillTypeOK
<1>5. RequestHeld(h)'
  BY <1>4 DEF RequestHeld
<1> QED
  BY <1>0, <1>1, <1>3, <1>5, FillRequests

\* A crash takes the requests, and a restart fails what was in flight.
LEMMA FillRestart == ASSUME FillInv, RunnerInv', FillCrash \/ FillRecover PROVE FillInv'
<1>0. /\ FillCore /\ FillTypeOK /\ RunnerInv /\ FillRows /\ OnlyCounted /\ TypeOK /\ TypeOK'
      /\ \A h \in Request : RequestHeld(h)
  BY DEF FillInv, FillCore, FillRows, RunnerInv
<1>1. Quiet
  BY <1>0, QuietRestart DEF FillCrash, FillRecover
<1>2. /\ UNCHANGED <<targets, failed, fillRetriedBy, firstFill, bodyLists>>
      /\ \A i \in Job : status'[i] = "done" => status[i] = "done"
  BY <1>0 DEF FillCrash, FillRecover, fillVars, fillRow, Crash, Recover, rowVars, TypeOK
<1>3. FillQuiet
  BY <1>0, <1>1, <1>2 DEF FillQuiet, FillRows
<1>4. CASE FillCrash
  <2>1. /\ fpc' = [h \in Request |-> "idle"] /\ fjob' = [h \in Request |-> NoFill]
        /\ ftargets' = [h \in Request |-> <<>>] /\ fchild' = [h \in Request |-> NoFill]
    BY <1>4 DEF FillCrash
  <2>2. FillTypeOK'
    BY <1>0, <1>2, <2>1 DEF FillTypeOK, bodyLists
  <2>3. \A h \in Request : RequestHeld(h)' /\ fpc'[h] # "mark"
    BY <2>1 DEF RequestHeld
  <2> QED
    BY <1>3, <2>2, <2>3, FillStays
<1>5. CASE FillRecover
  <2>1. UNCHANGED <<fpc, fjob, ftargets, fchild>>
    BY <1>5 DEF FillRecover, fillVars, requestVars
  <2>2. FillTypeOK'
    BY <1>0, <1>2, <2>1 DEF FillTypeOK, bodyLists
  <2>3. \A h \in Request : RequestHeld(h)'
    BY <1>0, <1>3, <2>1, RequestFrozen
  <2> QED
    BY <1>3, <2>1, <2>2, <2>3, FillStays
<1> QED
  BY <1>4, <1>5

\* A target is handled: it is the next one, and its outcome is listed.
LEMMA FillHandles ==
    ASSUME FillInv, RunnerInv', NEW j \in Job, NEW o \in Outcome, HandleTarget(j, o) PROVE FillInv'
<1>0. /\ FillCore /\ FillTypeOK /\ RunnerInv /\ FillRows /\ OnlyCounted /\ TypeOK /\ TypeOK' /\ ListsInv
      /\ \A h \in Request : RequestHeld(h)
  BY DEF FillInv, FillCore, FillRows, RunnerInv
<1> DEFINE n == kept[j] + 1
<1>1. /\ status[j] = "running" /\ kept[j] \in Nat /\ kept[j] < units[j] /\ units[j] = Len(targets[j])
      /\ targets[j] \in Seq(Gap) /\ n \in 1..Len(targets[j]) /\ targets[j][n] \in Gap
      /\ outcome[j] \in Seq(Outcome) /\ failing[j] \in Seq(Gap)
      /\ Len(outcome[j]) = kept[j] /\ Len(failing[j]) \in Nat /\ Len(failing[j]) <= kept[j]
  <2>1. status[j] = "running" /\ kept[j] < units[j] /\ kept[j] \in Nat /\ units[j] \in Nat
    BY <1>0 DEF HandleTarget, Work, RunnerInv, RowInv, CountInv, ThreadInv, Begun, TypeOK
  <2>2. /\ units[j] = Len(targets[j]) /\ targets[j] \in Seq(Gap) /\ outcome[j] \in Seq(Outcome)
        /\ failing[j] \in Seq(Gap) /\ Len(outcome[j]) = kept[j] /\ Len(failing[j]) <= kept[j]
    BY <1>0, <2>1 DEF FillRows, FillTypeOK, ListsInv
  <2>3. n \in 1..Len(targets[j])
    BY <2>1, <2>2
  <2> QED
    BY <2>1, <2>2, <2>3
<1> HIDE DEF n
<1>2. /\ UNCHANGED <<status, kind, units, done, asked, error, up, crashes, faults>>
      /\ UNCHANGED <<targets, failed, fillRetriedBy, firstFill, fpc, fjob, ftargets, fchild>>
      /\ kept' = [kept EXCEPT ![j] = n] /\ pc' = [pc EXCEPT ![j] = "count"]
      /\ outcome' = [outcome EXCEPT ![j] = Append(outcome[j], o)]
      /\ failing' = IF o = "failed" THEN [failing EXCEPT ![j] = Append(failing[j], targets[j][n])]
                                    ELSE failing
  BY <1>0 DEF HandleTarget, Work, rowVars, faultVars, fillRow, requestVars, OnlyCounted, n
<1>3. /\ Append(outcome[j], o) \in Seq(Outcome) /\ Len(Append(outcome[j], o)) = n
      /\ Append(outcome[j], o)[n] = o
      /\ \A i \in 1..kept[j] : Append(outcome[j], o)[i] = outcome[j][i] /\ i \in 1..n
      /\ Append(failing[j], targets[j][n]) \in Seq(Gap)
      /\ Len(Append(failing[j], targets[j][n])) <= n
      /\ ToSet(Append(failing[j], targets[j][n])) = ToSet(failing[j]) \cup {targets[j][n]}
      /\ n \in Nat /\ kept[j] <= n
  BY <1>1, ToSetAppend DEF n
<1>4. FillTypeOK'
  BY <1>0, <1>2, <1>3 DEF FillTypeOK
<1>5. FillRows'
  <2>1. OnlyCounted'
    BY <1>0, <1>2 DEF OnlyCounted, TypeOK
  <2>2. \A i \in Job : status'[i] = "done" => failed'[i] = failing'[i]
    BY <1>0, <1>1, <1>2 DEF FillRows
  <2> QED
    BY <1>0, <1>2, <2>1, <2>2 DEF FillRows
<1>6. ListsInv'
  <2> SUFFICES ASSUME NEW i \in Job
               PROVE  /\ Len(outcome'[i]) = kept'[i] /\ Len(failing'[i]) <= kept'[i]
                      /\ \A m \in 1..kept'[i] :
                             outcome'[i][m] = "failed" => targets'[i][m] \in ToSet(failing'[i])
    BY DEF ListsInv
  <2>1. CASE i # j
    <3>1. /\ outcome'[i] = outcome[i] /\ kept'[i] = kept[i] /\ failing'[i] = failing[i]
          /\ targets' = targets
      BY <1>0, <1>2, <2>1 DEF FillTypeOK, TypeOK
    <3> QED
      BY <1>0, <3>1 DEF ListsInv
  <2>2. CASE i = j
    <3>1. /\ outcome'[j] = Append(outcome[j], o) /\ kept'[j] = n /\ targets' = targets
          /\ failing'[j] = IF o = "failed" THEN Append(failing[j], targets[j][n]) ELSE failing[j]
      BY <1>0, <1>2 DEF FillTypeOK, TypeOK
    <3>2. ToSet(failing[j]) \subseteq ToSet(failing'[j]) /\ Len(failing'[j]) <= n
      BY <1>1, <1>3, <3>1
    <3>3. ASSUME NEW m \in 1..n, outcome'[j][m] = "failed" PROVE targets[j][m] \in ToSet(failing'[j])
      <4>1. CASE m = n
        BY <1>3, <3>1, <3>3, <4>1
      <4>2. CASE m # n
        <5>1. m \in 1..kept[j]
          BY <1>1, <4>2 DEF n
        <5>2. outcome[j][m] = "failed"
          BY <1>3, <3>1, <3>3, <5>1
        <5> QED
          BY <1>0, <3>2, <5>1, <5>2 DEF ListsInv
      <4> QED
        BY <4>1, <4>2
    <3> QED
      BY <1>3, <2>2, <3>1, <3>2, <3>3
  <2> QED
    BY <2>1, <2>2
<1>7. \A k : RetryTargets(k)' = RetryTargets(k) /\ Chain(k)' = Chain(k)
  BY <1>2 DEF RetryTargets, Chain
<1>8. \A k, g : OwesGap(k, g)' <=> OwesGap(k, g)
  BY <1>2, <1>7 DEF OwesGap, RetriableFill
<1>9. ASSUME NEW r, NEW g, Tried(r, g) PROVE Tried(r, g)'
  <2>1. ASSUME NEW os, Settled(r, g, os) PROVE Settled(r, g, os)'
    <3>1. PICK k \in Chain(r) : \E i \in DOMAIN outcome[k] : targets[k][i] = g /\ outcome[k][i] \in os
      BY <2>1 DEF Settled
    <3>2. PICK i \in DOMAIN outcome[k] : targets[k][i] = g /\ outcome[k][i] \in os
      BY <3>1
    <3>3. i \in DOMAIN outcome'[k] /\ outcome'[k][i] = outcome[k][i]
      <4>1. CASE k = j
        <5>1. outcome'[j] = Append(outcome[j], o) /\ i \in 1..kept[j]
          BY <1>0, <1>1, <1>2, <3>2, <4>1 DEF FillTypeOK
        <5>2. DOMAIN outcome'[j] = 1..n
          BY <1>3, <5>1
        <5> QED
          BY <1>3, <4>1, <5>1, <5>2
      <4>2. CASE k # j
        <5>1. outcome'[k] = outcome[k]
          BY <1>0, <1>2, <3>1, <4>2 DEF FillTypeOK, Chain
        <5> QED
          BY <5>1
      <4> QED
        BY <4>1, <4>2
    <3> QED
      BY <1>2, <1>7, <3>2, <3>3 DEF Settled
  <2> QED
    BY <1>2, <1>7, <1>9, <2>1 DEF Tried
<1>10. PICK depth \in [Job -> Nat] : MarkDepth(depth) /\ GapsKept(depth)
  BY DEF FillInv, FillDepth
<1>11. MarkDepth(depth)'
  BY <1>2, <1>10 DEF MarkDepth
<1>12. GapsKept(depth)'
  <2> SUFFICES ASSUME NEW r \in Job, NEW i \in Job, status'[i] # "none", firstFill'[i] = r,
                      NEW g \in ToSet(targets'[i])
               PROVE  Tried(r, g)' \/ OwedAt(depth, r, i, g)'
    BY DEF GapsKept
  <2>1. Tried(r, g) \/ OwedAt(depth, r, i, g)
    BY <1>2, <1>10 DEF GapsKept
  <2>2. OwedAt(depth, r, i, g) => OwedAt(depth, r, i, g)'
    BY <1>7, <1>8 DEF OwedAt
  <2> QED
    BY <1>9, <2>1, <2>2
<1>13. ASSUME NEW h \in Request PROVE RequestHeld(h)'
  <2>1. RequestHeld(h)
    BY <1>0
  <2> QED
    BY <1>2, <2>1 DEF RequestHeld, RetryTargets
<1> QED
  BY <1>4, <1>5, <1>6, <1>11, <1>12, <1>13 DEF FillInv, FillCore, FillDepth

\* A fill is inserted: it begins a chain, or goes on with what an ended fill left.
LEMMA FillInsert ==
    ASSUME FillInv, RunnerInv', NEW h \in Request, NEW c \in Job, InsertFill(h, c) PROVE FillInv'
<1>0. /\ FillCore /\ FillTypeOK /\ RunnerInv /\ FillRows /\ OnlyCounted /\ TypeOK /\ TypeOK' /\ ListsInv
      /\ \A i \in Request : RequestHeld(i)
  BY DEF FillInv, FillCore, FillRows, RunnerInv
<1>1. NoFill \notin Job /\ <<>> \in Seq(Gap)
  <2>1. <<>> \in Seq(Gap)
    OBVIOUS
  <2> QED
    BY <2>1, FillAssumption
<1> DEFINE a == fjob[h]
           gaps == ftargets[h]
           chain == IF a = NoFill THEN c ELSE firstFill[a]
<1>2. /\ fpc[h] = "insert" /\ status[c] = "none" /\ RequestHeld(h)
      /\ Insert(c, "counted", Len(gaps)) /\ targets' = [targets EXCEPT ![c] = gaps]
      /\ UNCHANGED <<failed, fillRetriedBy, outcome, failing>>
  BY <1>0 DEF InsertFill, Insert, bodyLists
<1>3. /\ firstFill' = [firstFill EXCEPT ![c] = chain]
      /\ \/ a = NoFill /\ Go(h, "idle", NoFill, <<>>, NoFill)
         \/ a # NoFill /\ Go(h, "mark", a, <<>>, c)
  BY DEF InsertFill, Return
<1>4. a # NoFill => /\ a \in Job /\ a # c /\ status[a] \in Ended /\ status[a] # "none"
                    /\ gaps = RetryTargets(a)
  BY <1>0, <1>2 DEF RequestHeld, FillTypeOK, Ended
<1>5. gaps \in Seq(Gap) /\ Len(gaps) \in 0..MaxUnits
  <2>1. CASE a = NoFill
    BY <1>2, <2>1, FillAssumption, RunnerAssumption DEF RequestHeld
  <2>2. CASE a # NoFill
    BY <1>0, <1>4, <2>2, RetryRest
  <2> QED
    BY <2>1, <2>2
<1>6. /\ firstFill[c] = NoFill /\ fillRetriedBy[c] = NoFill /\ kept[c] = 0
      /\ \A i \in Job : firstFill[i] # c
      /\ \A i \in Request : /\ fpc[i] # "idle" => fjob[i] # c
                            /\ fpc[i] = "mark" => fchild[i] # c /\ fchild[i] \in Job
  <2>1. firstFill[c] = NoFill /\ fillRetriedBy[c] = NoFill /\ kept[c] = 0
    BY <1>0, <1>2 DEF FillRows, RunnerInv, RowInv, CountInv
  <2>2. ASSUME NEW i \in Job, firstFill[i] = c PROVE FALSE
    <3>1. status[i] # "none" => status[firstFill[i]] # "none"
      BY <1>0 DEF FillRows
    <3>2. status[i] = "none" => firstFill[i] = NoFill
      BY <1>0 DEF FillRows
    <3> QED
      BY <1>1, <1>2, <2>2, <3>1, <3>2
  <2>3. ASSUME NEW i \in Request, fpc[i] # "idle", fjob[i] = c PROVE FALSE
    BY <1>0, <1>1, <1>2, <2>3 DEF RequestHeld, Ended
  <2>4. ASSUME NEW i \in Request, fpc[i] = "mark" PROVE fchild[i] # c /\ fchild[i] \in Job
    BY <1>0, <1>2, <2>4 DEF RequestHeld
  <2> QED
    BY <2>1, <2>2, <2>3, <2>4
<1>7. chain \in Job /\ (chain = c \/ status[chain] # "none") /\ (a # NoFill => chain = firstFill[a])
  BY <1>0, <1>4 DEF FillRows
<1> HIDE DEF a, gaps, chain
<1>8. /\ \A i \in Job : status'[i] = IF i = c THEN "queued" ELSE status[i]
      /\ \A i \in Job : units'[i] = IF i = c THEN Len(gaps) ELSE units[i]
      /\ \A i \in Job : targets'[i] = IF i = c THEN gaps ELSE targets[i]
      /\ \A i \in Job : firstFill'[i] = IF i = c THEN chain ELSE firstFill[i]
      /\ \A i \in Job : kind'[i] = IF i = c THEN "counted" ELSE kind[i]
      /\ UNCHANGED <<done, pc, kept>>
  BY <1>0, <1>2, <1>3 DEF Insert, FillTypeOK, TypeOK, historyVars
<1>9. /\ \A i \in Request : i # h => /\ fpc'[i] = fpc[i] /\ fjob'[i] = fjob[i]
                                     /\ ftargets'[i] = ftargets[i] /\ fchild'[i] = fchild[i]
      /\ a = NoFill => fpc'[h] = "idle"
      /\ a # NoFill => fpc'[h] = "mark" /\ fjob'[h] = a /\ fchild'[h] = c
  BY <1>0, <1>3 DEF Go, FillTypeOK
<1>10. FillTypeOK'
  <2>1. firstFill' \in [Job -> Job \cup {NoFill}] /\ targets' \in [Job -> Seq(Gap)]
    BY <1>0, <1>2, <1>3, <1>5, <1>7 DEF FillTypeOK
  <2>2. /\ fpc' \in [Request -> {"idle", "topics", "insert", "mark"}]
        /\ fjob' \in [Request -> Job \cup {NoFill}] /\ ftargets' \in [Request -> Seq(Gap)]
        /\ fchild' \in [Request -> Job \cup {NoFill}]
    <3>1. CASE a = NoFill
      <4>1. Go(h, "idle", NoFill, <<>>, NoFill)
        BY <1>3, <3>1
      <4> QED
        BY <1>0, <1>1, <4>1 DEF Go, FillTypeOK
    <3>2. CASE a # NoFill
      <4>1. Go(h, "mark", a, <<>>, c) /\ a \in Job
        BY <1>3, <1>4, <3>2
      <4> QED
        BY <1>0, <1>1, <4>1 DEF Go, FillTypeOK
    <3> QED
      BY <3>1, <3>2
  <2> QED
    BY <1>0, <1>2, <2>1, <2>2 DEF FillTypeOK
<1>11. FillRows'
  <2>1. OnlyCounted'
    BY <1>0, <1>8 DEF OnlyCounted
  <2>2. \A i \in Job : status'[i] = "none" => firstFill'[i] = NoFill /\ fillRetriedBy'[i] = NoFill
    BY <1>0, <1>2, <1>8 DEF FillRows
  <2>3. ASSUME NEW i \in Job, status'[i] # "none"
        PROVE  /\ firstFill'[i] \in Job /\ status'[firstFill'[i]] # "none"
               /\ units'[i] = Len(targets'[i]) /\ units'[i] <= MaxUnits
    <3>1. CASE i = c
      <4>1. Len(gaps) <= MaxUnits
        BY <1>5, RunnerAssumption
      <4> QED
        BY <1>7, <1>8, <3>1, <4>1
    <3>2. CASE i # c
      BY <1>0, <1>8, <2>3, <3>2 DEF FillRows
    <3> QED
      BY <3>1, <3>2
  <2>4. \A i \in Job : status'[i] = "done" => failed'[i] = failing'[i]
    BY <1>0, <1>2, <1>8 DEF FillRows
  <2>5. \A i \in Job : fillRetriedBy'[i] # NoFill => status'[i] \in Ended
    BY <1>0, <1>2, <1>6, <1>8 DEF FillRows
  <2> QED
    BY <2>1, <2>2, <2>3, <2>4, <2>5 DEF FillRows
<1>12. ListsInv'
  <2> SUFFICES ASSUME NEW i \in Job
               PROVE  /\ Len(outcome[i]) = kept[i] /\ Len(failing[i]) <= kept[i]
                      /\ \A m \in 1..kept[i] :
                             outcome[i][m] = "failed" => targets'[i][m] \in ToSet(failing[i])
    BY <1>2, <1>8 DEF ListsInv
  <2>1. CASE i = c
    <3>1. \A m \in 1..0 : FALSE
      OBVIOUS
    <3> QED
      BY <1>0, <1>6, <2>1, <3>1 DEF ListsInv
  <2>2. CASE i # c
    BY <1>0, <1>8, <2>2 DEF ListsInv
  <2> QED
    BY <2>1, <2>2
<1>13. ASSUME NEW k \in Job, k # c PROVE RetryTargets(k)' = RetryTargets(k)
  BY <1>2, <1>8, <1>13 DEF RetryTargets
<1>14. ASSUME NEW i \in Request PROVE RequestHeld(i)'
  <2>1. CASE i # h
    <3>1. /\ fpc[i] # "idle" /\ fjob[i] # NoFill => /\ fjob[i] \in Job /\ fjob[i] # c
                                                    /\ status'[fjob[i]] \in Ended
                                                    /\ RetryTargets(fjob[i])' = RetryTargets(fjob[i])
      <4> SUFFICES ASSUME fpc[i] # "idle", fjob[i] # NoFill
                   PROVE  /\ fjob[i] \in Job /\ fjob[i] # c /\ status'[fjob[i]] \in Ended
                          /\ RetryTargets(fjob[i])' = RetryTargets(fjob[i])
        OBVIOUS
      <4>1. fjob[i] \in Job /\ fjob[i] # c /\ status[fjob[i]] \in Ended /\ fjob'[i] = fjob[i]
        BY <1>0, <1>6, <1>9, <2>1 DEF RequestHeld
      <4>2. /\ status'[fjob[i]] = status[fjob[i]] /\ targets'[fjob[i]] = targets[fjob[i]]
            /\ done' = done /\ failed' = failed
        BY <1>2, <1>8, <4>1
      <4> QED
        BY <4>1, <4>2 DEF RetryTargets
    <3>2. fpc'[i] = "mark" => /\ fjob'[i] # NoFill /\ fchild'[i] \in Job /\ status'[fchild'[i]] # "none"
                              /\ targets'[fchild'[i]] = RetryTargets(fjob[i])'
                              /\ firstFill'[fchild'[i]] = firstFill'[fjob'[i]]
      BY <1>0, <1>6, <1>8, <1>9, <2>1, <3>1 DEF RequestHeld
    <3> QED
      BY <1>0, <1>9, <2>1, <3>1, <3>2 DEF RequestHeld
  <2>2. CASE i = h
    <3>1. CASE a = NoFill
      BY <1>9, <2>2, <3>1 DEF RequestHeld
    <3>2. CASE a # NoFill
      <4>1. fpc'[h] = "mark" /\ fjob'[h] = a /\ fchild'[h] = c
        BY <1>9, <3>2
      <4>2. a \in Job /\ a # c /\ status'[a] \in Ended /\ status'[c] # "none"
        BY <1>4, <1>8, <3>2
      <4>3. targets'[c] = RetryTargets(fjob[h])'
        <5>1. RetryTargets(fjob[h])' = RetryTargets(a)
          BY <1>2, <1>8, <4>1, <4>2 DEF RetryTargets
        <5> QED
          BY <1>4, <1>8, <3>2, <5>1
      <4>4. firstFill'[c] = firstFill'[a]
        BY <1>7, <1>8, <3>2, <4>2
      <4> QED
        BY <2>2, <3>2, <4>1, <4>2, <4>3, <4>4 DEF RequestHeld
    <3> QED
      BY <3>1, <3>2
  <2> QED
    BY <2>1, <2>2
<1>15. PICK old \in [Job -> Nat] : MarkDepth(old) /\ GapsKept(old)
  BY DEF FillInv, FillDepth
<1>16. PICK depth \in [Job -> Nat] : /\ \A i \in Job : i # c => depth[i] = old[i]
                                     /\ a # NoFill => depth[c] = old[a] + 1
  <2> DEFINE d == [old EXCEPT ![c] = IF a = NoFill THEN 0 ELSE old[a] + 1]
  <2>1. /\ d \in [Job -> Nat] /\ \A i \in Job : i # c => d[i] = old[i]
        /\ a # NoFill => d[c] = old[a] + 1
    BY <1>4
  <2> QED
    BY <2>1
<1>17. MarkDepth(depth)'
  <2> SUFFICES ASSUME NEW i \in Request, fpc'[i] = "mark"
               PROVE  depth[fchild'[i]] = depth[fjob'[i]] + 1
    BY DEF MarkDepth
  <2>1. CASE i = h
    BY <1>4, <1>9, <1>16, <2>1
  <2>2. CASE i # h
    <3>1. /\ fpc[i] = "mark" /\ fchild[i] \in Job /\ fchild[i] # c /\ fjob[i] \in Job /\ fjob[i] # c
          /\ fchild'[i] = fchild[i] /\ fjob'[i] = fjob[i]
      BY <1>0, <1>6, <1>9, <2>2 DEF RequestHeld
    <3> QED
      BY <1>15, <1>16, <3>1 DEF MarkDepth
  <2> QED
    BY <2>1, <2>2
<1>18. GapsKept(depth)'
  <2> SUFFICES ASSUME NEW r \in Job, NEW j \in Job, status'[j] # "none", firstFill'[j] = r,
                      NEW g \in ToSet(targets'[j])
               PROVE  Tried(r, g)' \/ OwedAt(depth, r, j, g)'
    BY DEF GapsKept
  <2>1. CASE j = c
    <3>1. OwesGap(c, g)'
      BY <1>8, <2>1 DEF OwesGap, InFlight
    <3>2. c \in Chain(r)' /\ depth[c] >= depth[c]
      BY <1>16, <2>1 DEF Chain
    <3> QED
      BY <2>1, <3>1, <3>2 DEF OwedAt
  <2>2. CASE j # c
    <3>1. status[j] # "none" /\ firstFill[j] = r /\ g \in ToSet(targets[j])
      BY <1>8, <2>2
    <3>2. \A k \in Chain(r) : k \in Job /\ k # c /\ k \in Chain(r)'
      BY <1>1, <1>6, <1>8 DEF Chain
    <3>3. ASSUME NEW os, Settled(r, g, os) PROVE Settled(r, g, os)'
      <4>1. PICK k \in Chain(r) : \E i \in DOMAIN outcome[k] : targets[k][i] = g /\ outcome[k][i] \in os
        BY <3>3 DEF Settled
      <4> QED
        BY <1>2, <1>8, <3>2, <4>1 DEF Settled
    <3>4. CASE Tried(r, g)
      BY <1>8, <3>2, <3>3, <3>4 DEF Tried
    <3>5. CASE OwedAt(depth, r, j, g) \/ OwedAt(old, r, j, g)
      <4>1. PICK k \in Chain(r) : OwesGap(k, g) /\ (depth[k] >= depth[j] \/ old[k] >= old[j])
        BY <3>5 DEF OwedAt
      <4>2. k \in Job /\ k # c /\ k \in Chain(r)' /\ depth[k] >= depth[j]
        BY <1>16, <2>2, <3>2, <4>1
      <4>3. OwesGap(k, g)'
        BY <1>2, <1>8, <1>13, <4>1, <4>2 DEF OwesGap, RetriableFill
      <4> QED
        BY <4>2, <4>3 DEF OwedAt
    <3> QED
      BY <1>15, <3>1, <3>4, <3>5 DEF GapsKept
  <2> QED
    BY <2>1, <2>2
<1> QED
  BY <1>10, <1>11, <1>12, <1>14, <1>17, <1>18 DEF FillInv, FillCore, FillDepth

\* The parent is marked: what it left, the retry or a deeper one owes.
LEMMA FillMark == ASSUME FillInv, RunnerInv', NEW h \in Request, MarkRetried(h) PROVE FillInv'
<1>0. /\ FillCore /\ FillTypeOK /\ RunnerInv /\ FillRows /\ OnlyCounted /\ TypeOK /\ TypeOK' /\ ListsInv
      /\ \A i \in Request : RequestHeld(i)
  BY DEF FillInv, FillCore, FillRows, RunnerInv
<1> DEFINE a == fjob[h]
           c == fchild[h]
<1>1. /\ fpc[h] = "mark" /\ a \in Job /\ c \in Job /\ status[a] \in Ended /\ status[c] # "none"
      /\ targets[c] = RetryTargets(a) /\ firstFill[c] = firstFill[a]
  BY <1>0 DEF MarkRetried, RequestHeld, FillTypeOK
<1>2. /\ fillRetriedBy' = [fillRetriedBy EXCEPT ![a] = c]
      /\ Go(h, "idle", NoFill, <<>>, NoFill)
      /\ UNCHANGED <<status, kind, units, done, pc, kept, targets, failed, firstFill, outcome, failing>>
  BY DEF MarkRetried, Return, runnerVars, rowVars, processVars, historyVars, bodyLists
<1> HIDE DEF a, c
<1>3. FillTypeOK'
  <2>1. <<>> \in Seq(Gap)
    OBVIOUS
  <2> QED
    BY <1>0, <1>1, <1>2, <2>1 DEF Go, FillTypeOK
<1>4. FillRows'
  BY <1>0, <1>1, <1>2 DEF FillRows, OnlyCounted, FillTypeOK, Ended
<1>5. ListsInv'
  BY <1>0, <1>2 DEF ListsInv
<1>6. /\ fpc'[h] = "idle"
      /\ \A i \in Request : i # h => /\ fpc'[i] = fpc[i] /\ fjob'[i] = fjob[i]
                                     /\ ftargets'[i] = ftargets[i] /\ fchild'[i] = fchild[i]
  BY <1>0, <1>2 DEF Go, FillTypeOK
<1>7. ASSUME NEW i \in Request PROVE RequestHeld(i)'
  <2>1. CASE i = h
    BY <1>6, <2>1 DEF RequestHeld
  <2>2. CASE i # h
    <3>1. RequestHeld(i)
      BY <1>0
    <3> QED
      BY <1>2, <1>6, <2>2, <3>1 DEF RequestHeld, RetryTargets
  <2> QED
    BY <2>1, <2>2
<1>8. PICK depth \in [Job -> Nat] : MarkDepth(depth) /\ GapsKept(depth)
  BY DEF FillInv, FillDepth
<1>9. MarkDepth(depth)'
  BY <1>6, <1>8 DEF MarkDepth
<1>10. depth[c] = depth[a] + 1 /\ depth[a] \in Nat /\ \A k \in Job : depth[k] \in Nat
  BY <1>1, <1>8 DEF MarkDepth, a, c
<1>11. \A k : RetryTargets(k)' = RetryTargets(k) /\ Chain(k)' = Chain(k)
  BY <1>2 DEF RetryTargets, Chain
<1>12. ASSUME NEW k \in Job, NEW g, k # a, OwesGap(k, g) PROVE OwesGap(k, g)'
  <2>1. fillRetriedBy'[k] = fillRetriedBy[k]
    BY <1>0, <1>2, <1>12 DEF FillTypeOK
  <2> QED
    BY <1>2, <1>11, <1>12, <2>1 DEF OwesGap, RetriableFill
<1>13. \A r, g : Tried(r, g)' <=> Tried(r, g)
  BY <1>2, <1>11 DEF Tried, Settled
<1>14. GapsKept(depth)'
  <2> SUFFICES ASSUME NEW r \in Job, NEW j \in Job, status'[j] # "none", firstFill'[j] = r,
                      NEW g \in ToSet(targets'[j]), ~Tried(r, g)
               PROVE  OwedAt(depth, r, j, g)'
    BY <1>13 DEF GapsKept
  <2>1. PICK k \in Chain(r) : OwesGap(k, g) /\ depth[k] >= depth[j]
    BY <1>2, <1>8 DEF GapsKept, OwedAt
  <2>2. k \in Job /\ firstFill[k] = r
    BY <2>1 DEF Chain
  <2>3. CASE k # a
    BY <1>11, <1>12, <2>1, <2>2, <2>3 DEF OwedAt
  <2>4. CASE k = a
    <3>1. g \in ToSet(targets[c]) /\ firstFill[c] = r
      BY <1>1, <2>1, <2>2, <2>4 DEF OwesGap, InFlight, Ended
    <3>2. PICK m \in Chain(r) : OwesGap(m, g) /\ depth[m] >= depth[c]
      BY <1>1, <1>8, <3>1 DEF GapsKept, OwedAt
    <3>3. m \in Job /\ m # a /\ depth[m] >= depth[j]
      <4>1. m \in Job
        BY <3>2 DEF Chain
      <4> QED
        BY <1>10, <2>1, <2>4, <3>2, <4>1
    <3> QED
      BY <1>11, <1>12, <3>2, <3>3 DEF OwedAt
  <2> QED
    BY <2>3, <2>4
<1> QED
  BY <1>3, <1>4, <1>5, <1>7, <1>9, <1>14 DEF FillInv, FillCore, FillDepth

\* Every step keeps the invariant.
LEMMA FillStep == FillInv /\ [FillNext]_fillAllVars => FillInv'
<1> SUFFICES ASSUME FillInv, [FillNext]_fillAllVars PROVE FillInv'
  OBVIOUS
<1>1. RunnerInv'
  BY FillRunner
<1>2. ASSUME NEW h \in Request, \/ \E plan \in Plans : StartFill(h, plan)
                                \/ \E j \in Job : RetryFill(h, j)
                                \/ CheckTopics(h)
      PROVE  FillInv'
  BY <1>1, <1>2, FillAsks
<1>3. ASSUME NEW h \in Request, NEW j \in Job, InsertFill(h, j) PROVE FillInv'
  BY <1>1, <1>3, FillInsert
<1>4. ASSUME NEW h \in Request, MarkRetried(h) PROVE FillInv'
  BY <1>1, <1>4, FillMark
<1>5. ASSUME NEW h \in Request, MarkLost(h) PROVE FillInv'
  BY <1>1, <1>5, FillMarkLost
<1>6. ASSUME NEW j \in Job, FillRespond(j) \/ FillRecord(j) \/ FinishFill(j) PROVE FillInv'
  BY <1>1, <1>6, FillRecords
<1>7. ASSUME NEW j \in Job, NEW o \in Outcome, HandleTarget(j, o) PROVE FillInv'
  BY <1>1, <1>7, FillHandles
<1>8. CASE FillCrash \/ FillRecover
  BY <1>1, <1>8, FillRestart
<1>9. CASE UNCHANGED fillAllVars
  <2>1. /\ FillCore /\ FillTypeOK /\ TypeOK' /\ \A h \in Request : RequestHeld(h)
    BY <1>1 DEF FillInv, FillCore, RunnerInv
  <2>2. /\ UNCHANGED <<runnerVars, targets, failed, fillRetriedBy, firstFill, bodyLists>>
        /\ UNCHANGED <<fpc, fjob, ftargets, fchild>>
    BY <1>9 DEF fillAllVars, fillVars, fillRow, requestVars
  <2>3. FillQuiet
    BY <2>1, <2>2, NothingRun
  <2>4. FillTypeOK' /\ \A h \in Request : RequestHeld(h)'
    BY <2>1, <2>2, <2>3, RequestFrozen DEF FillTypeOK, bodyLists
  <2> QED
    BY <1>1, <2>2, <2>3, <2>4, FillStays
<1> QED
  BY <1>2, <1>3, <1>4, <1>5, <1>6, <1>7, <1>8, <1>9 DEF FillNext

\* The invariant holds at the start, when no row is there.
LEMMA FillsStart == FillInit => FillInv
<1> SUFFICES ASSUME FillInit PROVE FillInv
  OBVIOUS
<1>1. RunnerInv
  BY RunnerStart DEF FillInit
<1>2. /\ \A j \in Job : /\ status[j] = "none" /\ kind[j] = "counted" /\ pc[j] = "idle" /\ kept[j] = 0
                        /\ firstFill[j] = NoFill /\ fillRetriedBy[j] = NoFill
                        /\ outcome[j] = <<>> /\ failing[j] = <<>>
      /\ \A h \in Request : fpc[h] = "idle"
  BY DEF FillInit, Init
<1>3. FillTypeOK
  <2>1. <<>> \in Seq(Gap) /\ <<>> \in Seq(Outcome)
    OBVIOUS
  <2> QED
    BY <1>1, <2>1 DEF RunnerInv, FillInit, FillTypeOK
<1>4. FillRows /\ \A h \in Request : RequestHeld(h)
  BY <1>2 DEF FillRows, OnlyCounted, RequestHeld
<1>5. ListsInv
  <2>1. \A i \in 1..0 : FALSE
    OBVIOUS
  <2>2. Len(<<>>) = 0
    OBVIOUS
  <2> SUFFICES ASSUME NEW j \in Job
               PROVE  /\ Len(outcome[j]) = kept[j] /\ Len(failing[j]) <= kept[j]
                      /\ \A i \in 1..kept[j] :
                             outcome[j][i] = "failed" => targets[j][i] \in ToSet(failing[j])
    BY DEF ListsInv
  <2>3. kept[j] = 0 /\ outcome[j] = <<>> /\ failing[j] = <<>>
    BY <1>2
  <2>4. Len(outcome[j]) = kept[j] /\ Len(failing[j]) <= kept[j]
    BY <2>2, <2>3
  <2> QED
    BY <2>1, <2>3, <2>4
<1>6. FillDepth
  <2> DEFINE d == [j \in Job |-> 0]
  <2>1. d \in [Job -> Nat]
    OBVIOUS
  <2> HIDE DEF d
  <2>2. MarkDepth(d) /\ GapsKept(d)
    BY <1>2 DEF MarkDepth, GapsKept
  <2> QED
    BY <2>1, <2>2 DEF FillDepth
<1> QED
  BY <1>1, <1>3, <1>4, <1>5, <1>6 DEF FillInv, FillCore

\* FillInv holds in every state coverage fills reach.
THEOREM FillsHold == FillSpec => []FillInv
BY FillsStart, FillStep, PTL DEF FillSpec

\* Coverage fills are bodies of the job runner: what is proved of the runner
\* holds of them.
THEOREM FillIsARunner == FillSpec => Spec
<1>1. FillInit => Init
  BY DEF FillInit
<1>2. FillInv => FillCore
  BY DEF FillInv
<1> QED
  BY <1>1, <1>2, FillRuns, FillsHold, PTL DEF FillSpec, Spec

\* The columns of fills, the body's lists and the requests have their types.
THEOREM FillTypeCorrect == FillSpec => []FillTypeOK
<1>1. FillInv => FillTypeOK
  BY DEF FillInv, FillCore
<1> QED
  BY <1>1, FillsHold, PTL

\* Whatever stops, fails, crashes or is retried, each gap a professor asked to fill
\* was tried by some fill of the chain, or is still owed by one in flight or open
\* to a retry.
THEOREM NoTargetIsForgotten == FillSpec => []NoTargetForgotten
<1>1. FillInv => NoTargetForgotten
  <2> SUFFICES ASSUME FillInv, NEW r \in Job, firstFill[r] = r, NEW g \in ToSet(targets[r]),
                      ~Owed(r, g)
               PROVE  Tried(r, g)
    BY DEF NoTargetForgotten, Tried
  <2>1. status[r] # "none"
    BY FillAssumption DEF FillInv, FillCore, FillRows
  <2>2. PICK depth \in [Job -> Nat] : GapsKept(depth)
    BY DEF FillInv, FillDepth
  <2>3. ASSUME OwedAt(depth, r, r, g) PROVE FALSE
    BY <2>3 DEF OwedAt, OwesGap, Owed, Chain
  <2> QED
    BY <2>1, <2>2, <2>3 DEF GapsKept
<1> QED
  BY <1>1, FillsHold, PTL

\* What a request checked is still so when it inserts.
CheckHolds == \A h \in Request : fpc[h] = "insert" => Topics(ftargets[h]) \cap ActiveTopics = {}
OverlapInv == FillInv /\ NoOverlappingFills /\ CheckHolds

\* A step that puts no fill in flight keeps what a check found.
LEMMA NoneStarts ==
    ASSUME OverlapInv,
           \A i \in Job : status'[i] \in InFlight => status[i] \in InFlight,
           targets' = targets,
           \A h \in Request : fpc'[h] = "insert" =>
               \/ fpc[h] = "insert" /\ ftargets'[h] = ftargets[h]
               \/ Topics(ftargets'[h]) \cap ActiveTopics = {}
    PROVE  NoOverlappingFills' /\ CheckHolds'
<1>1. NoOverlappingFills'
  BY DEF OverlapInv, NoOverlappingFills, Topics
<1>2. ActiveTopics' \subseteq ActiveTopics
  BY DEF ActiveTopics, Topics
<1>3. ASSUME NEW h \in Request, fpc'[h] = "insert" PROVE Topics(ftargets'[h]) \cap ActiveTopics' = {}
  <2>1. Topics(ftargets'[h]) \cap ActiveTopics = {}
    BY <1>3 DEF OverlapInv, CheckHolds
  <2> QED
    BY <1>2, <2>1
<1> QED
  BY <1>1, <1>3 DEF CheckHolds, Topics

\* The other steps put no fill in flight, and leave each request at its check or past it.
LEMMA OnlyInserts ==
    ASSUME FillInv, [FillNext]_fillAllVars,
           ~(\E h \in Request, c \in Job : InsertFill(h, c))
    PROVE  /\ \A i \in Job : status'[i] \in InFlight => status[i] \in InFlight
           /\ targets' = targets
           /\ \A h \in Request : fpc'[h] = "insert" =>
                  \/ fpc[h] = "insert" /\ ftargets'[h] = ftargets[h]
                  \/ Topics(ftargets'[h]) \cap ActiveTopics = {}
<1>0. /\ FillTypeOK /\ RunnerInv /\ OnlyCounted /\ TypeOK /\ \A h \in Request : RequestHeld(h)
  BY DEF FillInv, FillCore, FillRows, RunnerInv
<1>1. TypeOK'
  BY FillRunner
<1>2. ASSUME Quiet PROVE \A i \in Job : status'[i] \in InFlight => status[i] \in InFlight
  BY <1>0, <1>2 DEF Quiet, TypeOK, Status, InFlight, Ended
<1>3. ASSUME NEW h \in Request, NEW p, NEW j, NEW gaps, NEW c, Go(h, p, j, gaps, c), p # "insert"
      PROVE  \A i \in Request : fpc'[i] = "insert" => fpc[i] = "insert" /\ ftargets'[i] = ftargets[i]
  BY <1>0, <1>3 DEF Go, FillTypeOK
<1>4. ASSUME NEW h \in Request, NEW plan \in Plans, StartFill(h, plan)
      PROVE  /\ status' = status /\ targets' = targets
             /\ \A i \in Request : fpc'[i] = "insert" => fpc[i] = "insert" /\ ftargets'[i] = ftargets[i]
  BY <1>3, <1>4 DEF StartFill, runnerVars, rowVars, fillRow
<1>5. ASSUME NEW h \in Request, NEW j \in Job, RetryFill(h, j)
      PROVE  /\ status' = status /\ targets' = targets
             /\ \A i \in Request : fpc'[i] = "insert" => fpc[i] = "insert" /\ ftargets'[i] = ftargets[i]
  BY <1>3, <1>5 DEF RetryFill, runnerVars, rowVars, fillRow
<1>6. ASSUME NEW h \in Request, CheckTopics(h)
      PROVE  /\ status' = status /\ targets' = targets
             /\ \A i \in Request : fpc'[i] = "insert" =>
                    \/ fpc[i] = "insert" /\ ftargets'[i] = ftargets[i]
                    \/ Topics(ftargets'[i]) \cap ActiveTopics = {}
  <2>1. status' = status /\ targets' = targets
    BY <1>6 DEF CheckTopics, runnerVars, rowVars, fillRow
  <2>2. CASE Topics(ftargets[h]) \cap ActiveTopics = {} /\ Go(h, "insert", fjob[h], ftargets[h], NoFill)
    BY <1>0, <2>1, <2>2 DEF Go, FillTypeOK
  <2>3. CASE Return(h)
    BY <1>3, <2>1, <2>3 DEF Return
  <2> QED
    BY <1>6, <2>2, <2>3 DEF CheckTopics
<1>7. ASSUME NEW h \in Request, MarkRetried(h)
      PROVE  /\ status' = status /\ targets' = targets
             /\ \A i \in Request : fpc'[i] = "insert" => fpc[i] = "insert" /\ ftargets'[i] = ftargets[i]
  BY <1>3, <1>7 DEF MarkRetried, Return, runnerVars, rowVars
<1>8. ASSUME NEW h \in Request, MarkLost(h)
      PROVE  /\ status' = status /\ targets' = targets
             /\ \A i \in Request : fpc'[i] = "insert" => fpc[i] = "insert" /\ ftargets'[i] = ftargets[i]
  BY <1>3, <1>8 DEF MarkLost, Return, RespondLost, rowVars, fillRow
<1>9. ASSUME NEW j \in Job, FillRespond(j) \/ FillRecord(j) \/ FinishFill(j)
      PROVE  Quiet /\ targets' = targets /\ fpc' = fpc /\ ftargets' = ftargets
  BY <1>0, <1>9, QuietSteps DEF FillRespond, FillRecord, FinishFill, Record, fillVars, fillRow,
                                requestVars
<1>10. ASSUME NEW j \in Job, NEW o \in Outcome, HandleTarget(j, o)
       PROVE  status' = status /\ targets' = targets /\ fpc' = fpc /\ ftargets' = ftargets
  BY <1>10 DEF HandleTarget, Work, rowVars, fillRow, requestVars
<1>11. ASSUME FillCrash \/ FillRecover
       PROVE  /\ Quiet /\ targets' = targets
              /\ \A i \in Request : fpc'[i] = "insert" => fpc[i] = "insert" /\ ftargets'[i] = ftargets[i]
  BY <1>0, <1>11, QuietRestart DEF FillCrash, FillRecover, fillVars, fillRow, requestVars
<1>12. CASE UNCHANGED fillAllVars
  BY <1>12 DEF fillAllVars, runnerVars, rowVars, fillVars, fillRow, requestVars
<1> QED
  BY <1>2, <1>4, <1>5, <1>6, <1>7, <1>8, <1>9, <1>10, <1>11, <1>12 DEF FillNext

\* One request inserts what it checked: nothing came between.
LEMMA InsertApart ==
    ASSUME \A x, y \in Request : x = y, OverlapInv, FillInv',
           NEW h \in Request, NEW c \in Job, InsertFill(h, c)
    PROVE  NoOverlappingFills' /\ CheckHolds'
<1>0. FillTypeOK /\ TypeOK
  BY DEF OverlapInv, FillInv, FillCore, RunnerInv
<1>1. /\ \A i \in Job : status'[i] = IF i = c THEN "queued" ELSE status[i]
      /\ \A i \in Job : targets'[i] = IF i = c THEN ftargets[h] ELSE targets[i]
      /\ fpc[h] = "insert"
  BY <1>0 DEF InsertFill, Insert, FillTypeOK, TypeOK
<1>2. fpc'[h] # "insert"
  BY <1>0 DEF InsertFill, Return, Go, FillTypeOK
<1>3. ASSUME NEW k \in Job, k # c, status'[k] \in InFlight
      PROVE  Topics(targets[k]) \cap Topics(ftargets[h]) = {}
  <2>1. Topics(targets[k]) \subseteq ActiveTopics
    BY <1>1, <1>3 DEF ActiveTopics
  <2>2. Topics(ftargets[h]) \cap ActiveTopics = {}
    BY <1>1 DEF OverlapInv, CheckHolds
  <2> QED
    BY <2>1, <2>2
<1>4. NoOverlappingFills'
  <2> SUFFICES ASSUME NEW j \in Job, NEW k \in Job, j # k, {status'[j], status'[k]} \subseteq InFlight
               PROVE  Topics(targets'[j]) \cap Topics(targets'[k]) = {}
    BY DEF NoOverlappingFills, Topics
  <2>1. CASE j = c
    BY <1>1, <1>3, <2>1
  <2>2. CASE k = c
    BY <1>1, <1>3, <2>2
  <2>3. CASE j # c /\ k # c
    BY <1>1, <2>3 DEF OverlapInv, NoOverlappingFills
  <2> QED
    BY <2>1, <2>2, <2>3
<1> QED
  BY <1>2, <1>4 DEF CheckHolds

\* As long as one professor's request runs at a time, fills in flight are on different topics.
THEOREM FillsApart ==
    ASSUME \A x, y \in Request : x = y PROVE FillSpec => []NoOverlappingFills
<1>1. FillInit => OverlapInv
  <2> SUFFICES ASSUME FillInit PROVE OverlapInv
    OBVIOUS
  <2>1. (\A j \in Job : status[j] = "none") /\ \A h \in Request : fpc[h] = "idle"
    BY DEF FillInit, Init
  <2> QED
    BY <2>1, FillsStart DEF OverlapInv, NoOverlappingFills, CheckHolds, InFlight
<1>2. OverlapInv /\ [FillNext]_fillAllVars => OverlapInv'
  <2> SUFFICES ASSUME OverlapInv, [FillNext]_fillAllVars PROVE OverlapInv'
    OBVIOUS
  <2>1. FillInv /\ FillInv'
    BY FillStep DEF OverlapInv
  <2>2. CASE \E h \in Request, c \in Job : InsertFill(h, c)
    BY <2>1, <2>2, InsertApart DEF OverlapInv
  <2>3. CASE ~(\E h \in Request, c \in Job : InsertFill(h, c))
    BY <2>1, <2>3, OnlyInserts, NoneStarts DEF OverlapInv
  <2> QED
    BY <2>2, <2>3
<1>3. OverlapInv => NoOverlappingFills
  BY DEF OverlapInv
<1> QED
  BY <1>1, <1>2, <1>3, PTL DEF FillSpec

-----------------------------------------------------------------------------
(***************************************************************************)
(* Switches of the embedding model.                                        *)
(***************************************************************************)
Embedding == {"work", "count", "check", "close"}

\* A job whose activating commit was made has only its DONE left to write, and
\* misses it only by a crash or a lost commit.
Activated(j) ==
    /\ status[j] \in {"running", "done", "failed"} /\ pc[j] \in {"close", "fail", "idle"}
    /\ pc[j] = "close" \/ status[j] = "done" \/ faults + crashes > 0

SwitchRows ==
    /\ \A j \in Job : status[j] # "none" => kind[j] = "embedding"
    /\ pending # None => pending \notin activated
    /\ \A j \in activated : Activated(j)
    /\ \A j \in Job : status[j] # "none" /\ j \notin activated =>
           pending = j \/ \E k \in Job \ {j} : status[k] # "none"
    /\ \A j \in Job : status[j] = "done" => j \in activated
    /\ \A j \in Job : pc[j] \in Embedding => Cardinality(toEmbed[j]) = units[j] - kept[j]

\* One switch at a time: the list and the vectors cover the stock.
Alone ==
    /\ \A j, k \in Job : status[j] \in InFlight /\ status[k] \in InFlight => j = k
    /\ \A j \in Job : status[j] \in InFlight /\ j \notin activated => pending = j
    /\ \A j \in Job : pc[j] \in Embedding => stock[j] \subseteq vectors[target[j]] \cup toEmbed[j]
    /\ \A m \in {active, previous} : promised[m] \subseteq vectors[m]

SwitchHistoryOK == /\ activated \subseteq Job /\ stock \in [Job -> SUBSET Chunk]
                   /\ promised \in [Model -> SUBSET Chunk] /\ previous \in Model
                   /\ overlapped \in BOOLEAN

SwitchInv == /\ RunnerInv /\ SwitchTypeOK /\ SwitchHistoryOK /\ SwitchRows
             /\ ~overlapped => Alone
-----------------------------------------------------------------------------
\* Sets of chunks are finite, so their sizes are numbers.
LEMMA ChunkSets ==
    ASSUME SwitchAssumption, SwitchTypeOK, NEW S, S \subseteq chunks
    PROVE  /\ IsFiniteSet(S) /\ Cardinality(S) \in Nat /\ S \subseteq Nat /\ S \subseteq Chunk
           /\ RunnerAssumption => Cardinality(S) \in 0..MaxUnits
<1>1. S \in SUBSET Chunk /\ IsFiniteSet(Chunk) /\ S \subseteq Nat
  BY DEF SwitchAssumption, SwitchTypeOK
<1>2. IsFiniteSet(S) /\ Cardinality(S) <= Cardinality(Chunk)
  BY <1>1, FS_Subset
<1>3. Cardinality(S) \in Nat /\ Cardinality(Chunk) \in Nat
  BY <1>1, <1>2, FS_CardinalityType
<1>4. RunnerAssumption => Cardinality(S) \in 0..MaxUnits
  BY <1>2, <1>3 DEF SwitchAssumption, RunnerAssumption
<1> QED
  BY <1>1, <1>2, <1>3, <1>4

\* A worker that is about to embed has something left to embed.
LEMMA GroupLeft ==
    ASSUME SwitchAssumption, SwitchInv, NEW j \in Job, pc[j] = "work"
    PROVE  /\ Min(toEmbed[j]) \in toEmbed[j] /\ Min(toEmbed[j]) \in chunks
           /\ Cardinality(toEmbed[j] \ {Min(toEmbed[j])}) = units[j] - (kept[j] + 1)
<1>1. toEmbed[j] \subseteq chunks /\ Cardinality(toEmbed[j]) = units[j] - kept[j]
      /\ kept[j] \in Nat /\ units[j] \in Nat /\ kept[j] < units[j] /\ SwitchTypeOK
  BY DEF SwitchInv, SwitchTypeOK, SwitchRows, RunnerInv, TypeOK, RowInv, CountInv, Embedding
<1>2. IsFiniteSet(toEmbed[j]) /\ toEmbed[j] \subseteq Nat
  BY <1>1, ChunkSets
<1>3. toEmbed[j] # {}
  BY <1>1, <1>2, FS_EmptySet
<1>4. Min(toEmbed[j]) \in toEmbed[j]
  BY <1>2, <1>3, MinIs
<1>5. Cardinality(toEmbed[j] \ {Min(toEmbed[j])}) = Cardinality(toEmbed[j]) - 1
  BY <1>2, <1>4, FS_RemoveElement
<1> QED
  BY <1>1, <1>4, <1>5

\* The runner's invariant holds of a switch: its steps are steps of the runner,
\* but for the last look at a cancel.
LEMMA SwitchRuns ==
    ASSUME SwitchInv, [SwitchNext]_switchAllVars
    PROVE  [Next]_runnerVars \/ \E j \in Job : StopLate(j)
<1>1. CASE UNCHANGED switchAllVars
  BY <1>1 DEF switchAllVars
<1>2. ASSUME NEW h \in Admin, NEW m \in Model, SaveCheck(h, m) PROVE UNCHANGED runnerVars
  BY <1>2 DEF SaveCheck
<1>3. ASSUME NEW h \in Admin, NEW j \in Job, StartSwitch(h, j) PROVE Next
  <2>1. Insert(j, "embedding", 0) /\ "embedding" \in Kind /\ 0 \in 0..MaxUnits
    BY <1>3, SwitchAssumption, RunnerAssumption DEF StartSwitch
  <2> QED
    BY <2>1 DEF Next
<1>4. ASSUME NEW j \in Job, TakeStock(j) PROVE Next
  <2> DEFINE n == Cardinality(Lacking(target[j]))
  <2>1. n \in 0..MaxUnits
    BY ChunkSets, SwitchAssumption, RunnerAssumption DEF SwitchInv, Lacking
  <2>2. Size(j, n)
    BY <1>4 DEF TakeStock
  <2> QED
    BY <2>1, <2>2 DEF Next, Worker, Record
<1>5. ASSUME NEW j \in Job, SwitchFails(j) \/ EmbedGroup(j) \/ SwitchClose(j) \/ SwitchRecord(j)
      PROVE  Next
  BY <1>5 DEF SwitchFails, EmbedGroup, SwitchClose, SwitchRecord, Next, Worker, Record, Trouble
<1>6. ASSUME NEW j \in Job, Activate(j) PROVE UNCHANGED runnerVars
  BY <1>6 DEF Activate
<1>7. ASSUME NEW c \in Chunk, Import(c) \/ EmbedActive(c) PROVE UNCHANGED runnerVars
  BY <1>7 DEF Import, EmbedActive
<1>8. CASE SwitchCrash \/ SwitchRecover
  BY <1>8 DEF SwitchCrash, SwitchRecover, Next
<1> QED
  BY <1>1, <1>2, <1>3, <1>4, <1>5, <1>6, <1>7, <1>8 DEF SwitchNext

\* The runner's invariant is kept.
LEMMA SwitchRunner == ASSUME SwitchInv, [SwitchNext]_switchAllVars PROVE RunnerInv'
<1>1. RunnerInv
  BY DEF SwitchInv
<1>2. ASSUME NEW j \in Job, StopLate(j) PROVE RunnerInv'
  <2>0. TypeOK /\ \A i \in Job : RowInv(i)
    BY <1>1 DEF RunnerInv
  <2>1. /\ up /\ pc[j] = "close" /\ asked[j] /\ pc' = [pc EXCEPT ![j] = "stop"]
        /\ UNCHANGED <<status, kind, units, done, asked, error, responding, tasks, cancelling,
                       kept, late, up, crashes, faults>>
    BY <1>2 DEF StopLate, rowVars, historyVars, faultVars
  <2>2. TypeOK'
    BY <2>0, <2>1 DEF TypeOK, PC
  <2>3. ASSUME NEW i \in Job PROVE RowInv(i)'
    <3>1. RowInv(i) /\ pc'[i] = IF i = j THEN "stop" ELSE pc[i]
      BY <2>0, <2>1 DEF TypeOK
    <3> QED
      BY <2>0, <2>1, <3>1 DEF RowInv, ThreadInv, CountInv, EndInv, HasOwner, Begun, TypeOK
  <2> QED
    BY <2>2, <2>3 DEF RunnerInv
<1> QED
  BY <1>1, <1>2, SwitchRuns, RunnerStep

\* A step of the runner that inserts no row, lists nothing and embeds nothing.
SwitchQuiet ==
    /\ kind' = kind
    /\ \A i \in Job : /\ status'[i] = "none" <=> status[i] = "none"
                      /\ status'[i] \in InFlight => status[i] \in InFlight
                      /\ status'[i] = "done" => status[i] = "done" \/ i \in activated
                      /\ pc'[i] \in Embedding =>
                             /\ pc[i] \in Embedding /\ units'[i] = units[i] /\ kept'[i] = kept[i]
                      /\ i \in activated => Activated(i)'

\* A quiet step that leaves the columns and the chunks as they are keeps the invariant.
LEMMA SwitchFrame ==
    ASSUME SwitchInv, RunnerInv', SwitchQuiet, UNCHANGED <<switchRow, chunkVars, switchHistory>>,
           toEmbed' \in [Job -> SUBSET chunks],
           \A i \in Job : pc'[i] \in Embedding => toEmbed'[i] = toEmbed[i],
           saving' \in [Admin -> Model \cup {None}]
    PROVE  SwitchInv'
<1>0. /\ SwitchTypeOK /\ SwitchHistoryOK /\ SwitchRows /\ TypeOK /\ TypeOK'
      /\ (~overlapped => Alone)
  BY DEF SwitchInv, RunnerInv
<1>1. /\ UNCHANGED <<active, pending, target, chunks, vectors>>
      /\ UNCHANGED <<activated, stock, promised, previous, overlapped>> /\ kind' = kind
  BY DEF switchRow, chunkVars, switchHistory, SwitchQuiet
<1>2. pending # None => status'[pending] \in InFlight \cup {"failed"}
  BY <1>0 DEF SwitchTypeOK, SwitchRows, SwitchQuiet, TypeOK, Status, InFlight, Ended
<1>3. SwitchTypeOK'
  BY <1>0, <1>1, <1>2 DEF SwitchTypeOK
<1>4. SwitchHistoryOK'
  BY <1>0, <1>1 DEF SwitchHistoryOK
<1>5. SwitchRows'
  BY <1>0, <1>1 DEF SwitchRows, SwitchQuiet, SwitchHistoryOK
<1>6. ~overlapped => Alone'
  BY <1>0, <1>1 DEF Alone, SwitchQuiet
<1> QED
  BY <1>1, <1>3, <1>4, <1>5, <1>6 DEF SwitchInv

\* The steps of the runner are such steps.
LEMMA SwitchRecords ==
    ASSUME SwitchInv, RunnerInv', NEW j \in Job,
           SwitchRecord(j) \/ SwitchFails(j) \/ SwitchClose(j) \/ StopLate(j)
    PROVE  SwitchQuiet
<1>0. /\ TypeOK /\ SwitchRows /\ activated \subseteq Job /\ crashes \in Nat /\ faults \in Nat
      /\ \A i \in Job : RowInv(i)
  BY RunnerAssumption DEF SwitchInv, RunnerInv, SwitchHistoryOK, TypeOK
<1> USE DEF TypeOK, Status, InFlight, Ended, PC, Embedding
<1>1. \A i \in activated : Activated(i) /\ i \in Job
  BY <1>0 DEF SwitchRows
<1>2. ASSUME NEW i \in activated
      PROVE  /\ pc[i] = "fail" => faults + crashes > 0 /\ status[i] # "done"
             /\ i \in tasks => status[i] = "failed" /\ faults + crashes > 0
             /\ pc[i] = "close" => status[i] = "running"
  BY <1>0, <1>1 DEF RowInv, ThreadInv, Begun, Activated
<1>3. CASE Respond(j) \/ RespondLost(j)
  BY <1>0, <1>1, <1>3 DEF Respond, RespondLost, rowVars, historyVars, faultVars, SwitchQuiet, Activated
<1>4. CASE Claim(j)
  <2>1. kind[j] = "embedding" /\ status[j] # "none"
    BY <1>0, <1>4 DEF Claim, RowInv, ThreadInv, SwitchRows
  <2>2. CASE status[j] = "queued"
    <3>1. /\ status' = [status EXCEPT ![j] = "running"] /\ pc' = [pc EXCEPT ![j] = "size"]
          /\ UNCHANGED <<kind, units, kept, faults, crashes>>
      BY <1>4, <2>1, <2>2 DEF Claim, First, historyVars, faultVars
    <3>2. j \notin activated
      BY <1>1, <2>2 DEF Activated
    <3> QED
      BY <1>0, <1>1, <2>2, <3>1, <3>2 DEF SwitchQuiet, Activated
  <2>3. CASE status[j] # "queued"
    BY <1>0, <1>1, <1>4, <2>3 DEF Claim, historyVars, faultVars, SwitchQuiet, Activated
  <2> QED
    BY <2>2, <2>3
<1>5. CASE Count(j) \/ Check(j)
  <2>1. /\ UNCHANGED <<status, kind, units, kept, faults, crashes>> /\ pc[j] \in {"count", "check"}
        /\ \E s \in PC : pc' = [pc EXCEPT ![j] = s]
    BY <1>0, <1>5 DEF Count, Check, rowVars, historyVars, faultVars
  <2>2. j \notin activated
    BY <1>1, <2>1 DEF Activated
  <2> QED
    BY <1>0, <1>1, <2>1, <2>2 DEF SwitchQuiet, Activated
<1>6. CASE RecordEnd(j)
  <2>1. /\ status' = [status EXCEPT ![j] = "failed"] /\ pc' = [pc EXCEPT ![j] = "idle"]
        /\ UNCHANGED <<kind, units, kept, faults, crashes>> /\ pc[j] \in {"stop", "fail"}
    BY <1>6 DEF RecordEnd, historyVars, faultVars
  <2>2. status[j] # "none"
    BY <1>0, <2>1 DEF RowInv, ThreadInv, Begun
  <2>3. ASSUME NEW i \in activated PROVE Activated(i)'
    BY <1>0, <1>1, <1>2, <2>1 DEF Activated
  <2> QED
    BY <1>0, <1>1, <2>1, <2>2, <2>3 DEF SwitchQuiet
<1>7. CASE ClaimFault(j)
  <2>1. /\ pc' = [pc EXCEPT ![j] = "fail"] /\ faults' = faults + 1 /\ crashes' = crashes /\ j \in tasks
        /\ UNCHANGED <<status, kind, units, kept>>
    BY <1>7 DEF ClaimFault, rowVars, historyVars
  <2> QED
    BY <1>0, <1>1, <2>1 DEF SwitchQuiet, Activated
<1>8. CASE CountFault(j) \/ CloseFault(j)
  <2>1. /\ pc' = [pc EXCEPT ![j] = "fail"] /\ faults' = faults + 1 /\ crashes' = crashes
        /\ UNCHANGED <<status, kind, units, kept>>
    BY <1>8 DEF CountFault, CloseFault, rowVars, historyVars
  <2> QED
    BY <1>0, <1>1, <2>1 DEF SwitchQuiet, Activated
<1>9. CASE RecordLost(j)
  <2>1. /\ pc' = [pc EXCEPT ![j] = "idle"] /\ faults' = faults + 1 /\ crashes' = crashes
        /\ UNCHANGED <<status, kind, units, kept>>
    BY <1>9 DEF RecordLost, rowVars, historyVars
  <2> QED
    BY <1>0, <1>1, <2>1 DEF SwitchQuiet, Activated
<1>10. CASE CancelCheck(j)
  BY <1>0, <1>1, <1>10 DEF CancelCheck, rowVars, historyVars, faultVars, SwitchQuiet, Activated
<1>11. CASE CancelWrite(j)
  BY <1>0, <1>1, <1>11 DEF CancelWrite, historyVars, faultVars, SwitchQuiet, Activated
<1>12. CASE SwitchFails(j)
  <2>1. /\ pc' = [pc EXCEPT ![j] = "fail"] /\ pc[j] \in {"size", "work"}
        /\ UNCHANGED <<status, kind, units, kept, faults, crashes>>
    BY <1>12 DEF SwitchFails, WorkFails, rowVars, historyVars, faultVars
  <2>2. j \notin activated
    BY <1>1, <2>1 DEF Activated
  <2> QED
    BY <1>0, <1>1, <2>1, <2>2 DEF SwitchQuiet, Activated
<1>13. CASE StopLate(j)
  <2>1. /\ pc' = [pc EXCEPT ![j] = "stop"] /\ j \notin activated
        /\ UNCHANGED <<status, kind, units, kept, faults, crashes>>
    BY <1>13 DEF StopLate, rowVars, historyVars, faultVars
  <2> QED
    BY <1>0, <1>1, <2>1 DEF SwitchQuiet, Activated
<1>14. CASE SwitchClose(j)
  <2>1. /\ status' = [status EXCEPT ![j] = "done"] /\ pc' = [pc EXCEPT ![j] = "idle"]
        /\ UNCHANGED <<kind, units, kept, faults, crashes>> /\ j \in activated /\ pc[j] = "close"
    BY <1>14 DEF SwitchClose, Close, historyVars, faultVars
  <2>2. status[j] = "running"
    BY <1>2, <2>1
  <2> QED
    BY <1>0, <1>1, <2>1, <2>2 DEF SwitchQuiet, Activated
<1> QED
  BY <1>3, <1>4, <1>5, <1>6, <1>7, <1>8, <1>9, <1>10, <1>11, <1>12, <1>13, <1>14
     DEF SwitchRecord, Cancel

\* A crash and a restart leave the switch's columns alone.
LEMMA SwitchRestart == ASSUME SwitchInv, Crash \/ Recover PROVE SwitchQuiet
<1>0. /\ TypeOK /\ SwitchRows /\ activated \subseteq Job /\ crashes \in Nat /\ faults \in Nat
      /\ \A i \in Job : RowInv(i)
  BY RunnerAssumption DEF SwitchInv, RunnerInv, SwitchHistoryOK, TypeOK
<1>1. \A i \in activated : Activated(i) /\ i \in Job
  BY <1>0 DEF SwitchRows
<1>2. CASE Crash
  <2>1. /\ \A i \in Job : pc'[i] = "idle"
        /\ UNCHANGED <<status, kind, units, kept, faults>> /\ crashes' = crashes + 1
    BY <1>2 DEF Crash, rowVars, historyVars
  <2> QED
    BY <1>0, <1>1, <2>1 DEF SwitchQuiet, Activated, Embedding
<1>3. CASE Recover
  <2>1. /\ \A i \in Job : status'[i] = IF status[i] \in InFlight THEN "failed" ELSE status[i]
        /\ UNCHANGED <<kind, units, kept, faults, crashes, pc>>
        /\ \A i \in Job : pc[i] = "idle"
    BY <1>0, <1>3 DEF Recover, processVars, historyVars, RowInv, ThreadInv
  <2> QED
    BY <1>0, <1>1, <2>1 DEF SwitchQuiet, Activated, Embedding, InFlight
<1> QED
  BY <1>2, <1>3

\* The runner's other steps keep the invariant.
LEMMA SwitchQuietSteps ==
    ASSUME SwitchInv, RunnerInv',
           \/ UNCHANGED switchAllVars
           \/ \E h \in Admin, m \in Model : SaveCheck(h, m)
           \/ \E j \in Job : SwitchRecord(j) \/ SwitchFails(j) \/ SwitchClose(j) \/ StopLate(j)
           \/ SwitchCrash \/ SwitchRecover
    PROVE  SwitchInv'
<1>0. /\ SwitchTypeOK /\ toEmbed \in [Job -> SUBSET chunks] /\ saving \in [Admin -> Model \cup {None}]
      /\ \A i \in activated : Activated(i) /\ i \in Job
  BY DEF SwitchInv, SwitchTypeOK, SwitchRows, SwitchHistoryOK
<1>1. ASSUME UNCHANGED runnerVars PROVE SwitchQuiet
  BY <1>0, <1>1 DEF runnerVars, rowVars, processVars, historyVars, faultVars, SwitchQuiet, Activated
<1>2. ASSUME SwitchQuiet, UNCHANGED switchVars PROVE SwitchInv'
  BY <1>0, <1>2, SwitchFrame DEF switchVars
<1>3. CASE UNCHANGED switchAllVars
  BY <1>1, <1>2, <1>3 DEF switchAllVars
<1>4. ASSUME NEW h \in Admin, NEW m \in Model, SaveCheck(h, m) PROVE SwitchInv'
  <2>1. saving' \in [Admin -> Model \cup {None}]
    BY <1>0, <1>4 DEF SaveCheck
  <2> QED
    BY <1>0, <1>1, <1>4, <2>1, SwitchFrame DEF SaveCheck
<1>5. ASSUME NEW j \in Job, SwitchRecord(j) \/ SwitchFails(j) \/ SwitchClose(j) \/ StopLate(j)
      PROVE  SwitchInv'
  <2>1. UNCHANGED switchVars
    BY <1>5 DEF SwitchRecord, SwitchFails, SwitchClose, StopLate
  <2> QED
    BY <1>2, <1>5, <2>1, SwitchRecords
<1>6. CASE SwitchRecover
  BY <1>2, <1>6, SwitchRestart DEF SwitchRecover
<1>7. CASE SwitchCrash
  <2>1. /\ toEmbed' \in [Job -> SUBSET chunks] /\ saving' \in [Admin -> Model \cup {None}]
        /\ UNCHANGED <<switchRow, chunkVars, switchHistory>>
    BY <1>7 DEF SwitchCrash
  <2>2. \A i \in Job : pc'[i] \notin Embedding
    BY <1>7 DEF SwitchCrash, Crash, Embedding
  <2> QED
    BY <1>7, <2>1, <2>2, SwitchRestart, SwitchFrame DEF SwitchCrash
<1> QED
  BY <1>3, <1>4, <1>5, <1>6, <1>7

\* A switch starts: alone, if no other is in flight.
LEMMA SwitchStarts ==
    ASSUME SwitchInv, RunnerInv', NEW h \in Admin, NEW j \in Job, StartSwitch(h, j) PROVE SwitchInv'
<1>0. /\ SwitchTypeOK /\ SwitchHistoryOK /\ SwitchRows /\ TypeOK /\ TypeOK'
      /\ (~overlapped => Alone) /\ \A i \in Job : RowInv(i) /\ (RowInv(i))'
  BY DEF SwitchInv, RunnerInv
<1>1. /\ status[j] = "none" /\ saving[h] \in Model /\ pending' = j
      /\ status' = [status EXCEPT ![j] = "queued"] /\ kind' = [kind EXCEPT ![j] = "embedding"]
      /\ units' = [units EXCEPT ![j] = 0] /\ target' = [target EXCEPT ![j] = saving[h]]
      /\ saving' = [saving EXCEPT ![h] = None] /\ UNCHANGED <<pc, kept, crashes, faults>>
      /\ UNCHANGED <<active, chunks, vectors, toEmbed, activated, stock, promised, previous>>
      /\ overlapped' = (overlapped \/ \E k \in Job : status[k] \in InFlight)
  BY <1>0 DEF StartSwitch, Insert, historyVars, faultVars, chunkVars, SwitchTypeOK
<1>2. /\ pc[j] \notin Embedding /\ j \notin activated
      /\ \A i \in Job : pc[i] \in Embedding => status[i] = "running" /\ i # j
  BY <1>0, <1>1 DEF RowInv, ThreadInv, Begun, Embedding, SwitchRows, Activated
<1>3. SwitchTypeOK'
  BY <1>0, <1>1 DEF SwitchTypeOK, TypeOK, InFlight
<1>4. SwitchHistoryOK'
  BY <1>0, <1>1 DEF SwitchHistoryOK
<1>5. SwitchRows'
  <2>1. \A i \in Job : status'[i] # "none" => kind'[i] = "embedding"
    BY <1>0, <1>1 DEF SwitchRows, TypeOK
  <2>2. \A i \in activated : Activated(i)'
    BY <1>0, <1>1, <1>2 DEF SwitchRows, Activated, TypeOK, SwitchHistoryOK
  <2>3. ASSUME NEW i \in Job, status'[i] # "none"
        PROVE  pending' = i \/ \E k \in Job \ {i} : status'[k] # "none"
    BY <1>0, <1>1 DEF TypeOK
  <2>4. \A i \in Job : status'[i] = "done" => i \in activated
    BY <1>0, <1>1 DEF SwitchRows, TypeOK
  <2>5. \A i \in Job : pc'[i] \in Embedding => Cardinality(toEmbed'[i]) = units'[i] - kept'[i]
    BY <1>0, <1>1, <1>2 DEF SwitchRows, TypeOK
  <2> QED
    BY <1>1, <1>2, <2>1, <2>2, <2>3, <2>4, <2>5 DEF SwitchRows
<1>6. ASSUME ~overlapped' PROVE Alone'
  <2>1. /\ Alone /\ \A k \in Job : status[k] \notin InFlight
    BY <1>0, <1>1, <1>6
  <2>2. \A k \in Job : status'[k] \in InFlight => k = j
    BY <1>0, <1>1, <2>1 DEF TypeOK
  <2>3. \A i \in Job : pc'[i] \notin Embedding
    BY <1>1, <1>2, <2>1 DEF InFlight
  <2>4. \A m \in {active, previous} : promised[m] \subseteq vectors[m]
    BY <2>1 DEF Alone
  <2> QED
    BY <1>1, <2>2, <2>3, <2>4 DEF Alone
<1> QED
  BY <1>3, <1>4, <1>5, <1>6 DEF SwitchInv

\* The worker lists what its model lacks.
LEMMA SwitchLists ==
    ASSUME SwitchAssumption, SwitchInv, RunnerInv', NEW j \in Job, TakeStock(j) PROVE SwitchInv'
<1> DEFINE list == chunks \ vectors[target[j]]
           n == Cardinality(list)
<1>0. /\ SwitchTypeOK /\ SwitchHistoryOK /\ SwitchRows /\ TypeOK /\ TypeOK'
      /\ (~overlapped => Alone) /\ \A i \in Job : RowInv(i)
  BY DEF SwitchInv, RunnerInv
<1>1. /\ pending = j /\ pc[j] = "size" /\ units' = [units EXCEPT ![j] = n]
      /\ pc' = [pc EXCEPT ![j] = IF n = 0 THEN "close" ELSE "work"]
      /\ toEmbed' = [toEmbed EXCEPT ![j] = list] /\ stock' = [stock EXCEPT ![j] = chunks]
      /\ UNCHANGED <<status, kind, kept, crashes, faults, saving>>
      /\ UNCHANGED <<active, pending, target, chunks, vectors>>
      /\ UNCHANGED <<activated, promised, previous, overlapped>>
  BY DEF TakeStock, Size, Lacking, historyVars, faultVars, switchRow, chunkVars
<1>2. list \subseteq chunks /\ n \in Nat /\ chunks \subseteq Chunk
  BY <1>0, ChunkSets DEF SwitchTypeOK
<1> HIDE DEF n
<1>3. kept[j] = 0 /\ j \notin activated
  BY <1>0, <1>1 DEF RowInv, CountInv, SwitchRows, SwitchTypeOK
<1>4. SwitchTypeOK' /\ SwitchHistoryOK'
  BY <1>0, <1>1, <1>2 DEF SwitchTypeOK, SwitchHistoryOK
<1>5. SwitchRows'
  <2>1. \A i \in activated : Activated(i)'
    BY <1>0, <1>1, <1>3 DEF SwitchRows, Activated, TypeOK, SwitchHistoryOK
  <2>2. ASSUME NEW i \in Job, pc'[i] \in Embedding
        PROVE  Cardinality(toEmbed'[i]) = units'[i] - kept'[i]
    <3>1. CASE i = j
      <4>1. toEmbed'[j] = list /\ units'[j] = n /\ kept'[j] = 0
        BY <1>0, <1>1, <1>3 DEF SwitchTypeOK, TypeOK
      <4> QED
        BY <1>2, <3>1, <4>1 DEF n
    <3>2. CASE i # j
      BY <1>0, <1>1, <2>2, <3>2 DEF SwitchTypeOK, TypeOK, SwitchRows
    <3> QED
      BY <3>1, <3>2
  <2> QED
    BY <1>0, <1>1, <2>1, <2>2 DEF SwitchRows
<1>6. ASSUME ~overlapped PROVE Alone'
  <2>1. Alone
    BY <1>0, <1>6
  <2>2. ASSUME NEW i \in Job, pc'[i] \in Embedding
        PROVE  stock'[i] \subseteq vectors'[target'[i]] \cup toEmbed'[i]
    <3>1. CASE i = j
      <4>1. toEmbed'[j] = list /\ stock'[j] = chunks
        BY <1>0, <1>1 DEF SwitchTypeOK, SwitchHistoryOK
      <4> QED
        BY <1>1, <3>1, <4>1
    <3>2. CASE i # j
      BY <1>0, <1>1, <2>1, <2>2, <3>2 DEF SwitchTypeOK, SwitchHistoryOK, TypeOK, Alone
    <3> QED
      BY <3>1, <3>2
  <2> QED
    BY <1>1, <2>1, <2>2 DEF Alone
<1> QED
  BY <1>1, <1>4, <1>5, <1>6 DEF SwitchInv

\* The next group is embedded.
LEMMA SwitchEmbeds ==
    ASSUME SwitchAssumption, SwitchInv, RunnerInv', NEW j \in Job, EmbedGroup(j) PROVE SwitchInv'
<1> DEFINE c == Min(toEmbed[j])
           t == target[j]
<1>0. /\ SwitchTypeOK /\ SwitchHistoryOK /\ SwitchRows /\ TypeOK /\ TypeOK'
      /\ (~overlapped => Alone) /\ \A i \in Job : RowInv(i)
  BY DEF SwitchInv, RunnerInv
<1>1. /\ pc[j] = "work" /\ kept' = [kept EXCEPT ![j] = @ + 1]
      /\ vectors' = [vectors EXCEPT ![t] = vectors[t] \cup {c}]
      /\ toEmbed' = [toEmbed EXCEPT ![j] = toEmbed[j] \ {c}]
      /\ UNCHANGED <<status, kind, units, crashes, faults, saving, chunks>>
      /\ UNCHANGED <<active, pending, target>>
      /\ UNCHANGED <<activated, stock, promised, previous, overlapped>>
  BY DEF EmbedGroup, Work, rowVars, faultVars, switchRow, switchHistory
<1>2. /\ c \in toEmbed[j] /\ c \in chunks
      /\ Cardinality(toEmbed[j] \ {c}) = units[j] - (kept[j] + 1)
  BY <1>1, GroupLeft
<1>3. pc' = [pc EXCEPT ![j] = "count"]
  <2>1. kind[j] = "embedding"
    BY <1>0, <1>1 DEF RowInv, ThreadInv, Begun, SwitchRows
  <2> QED
    BY <2>1 DEF EmbedGroup, Work
<1> HIDE DEF c, t
<1>4. t \in Model /\ vectors[t] \subseteq chunks /\ j \notin activated
  BY <1>0, <1>1 DEF SwitchTypeOK, SwitchRows, Activated, t
<1>5. \A m \in Model : vectors'[m] = IF m = t THEN vectors[t] \cup {c} ELSE vectors[m]
  BY <1>0, <1>1, <1>4 DEF SwitchTypeOK
<1>6. \A i \in Job : toEmbed'[i] = IF i = j THEN toEmbed[j] \ {c} ELSE toEmbed[i]
  BY <1>0, <1>1 DEF SwitchTypeOK
<1>7. SwitchTypeOK' /\ SwitchHistoryOK'
  BY <1>0, <1>1, <1>2, <1>4 DEF SwitchTypeOK, SwitchHistoryOK
<1>8. SwitchRows'
  <2>1. \A i \in activated : Activated(i)'
    BY <1>0, <1>1, <1>3, <1>4 DEF SwitchRows, Activated, TypeOK, SwitchHistoryOK
  <2>2. ASSUME NEW i \in Job, pc'[i] \in Embedding
        PROVE  Cardinality(toEmbed'[i]) = units'[i] - kept'[i]
    <3>1. CASE i = j
      BY <1>0, <1>1, <1>2, <1>6, <3>1 DEF TypeOK
    <3>2. CASE i # j
      BY <1>0, <1>1, <1>3, <1>6, <2>2, <3>2 DEF TypeOK, SwitchRows
    <3> QED
      BY <3>1, <3>2
  <2> QED
    BY <1>0, <1>1, <2>1, <2>2 DEF SwitchRows
<1>9. ASSUME ~overlapped PROVE Alone'
  <2>1. Alone
    BY <1>0, <1>9
  <2>2. ASSUME NEW i \in Job, pc'[i] \in Embedding
        PROVE  stock[i] \subseteq vectors'[target[i]] \cup toEmbed'[i]
    <3>1. stock[i] \subseteq vectors[target[i]] \cup toEmbed[i] /\ target[i] \in Model
      BY <1>0, <1>1, <1>3, <2>1, <2>2 DEF Alone, TypeOK, Embedding, SwitchTypeOK
    <3>2. CASE i = j
      BY <1>5, <1>6, <3>1, <3>2 DEF t
    <3>3. CASE i # j
      BY <1>5, <1>6, <3>1, <3>3
    <3> QED
      BY <3>2, <3>3
  <2>3. \A m \in {active, previous} : promised[m] \subseteq vectors'[m]
    BY <1>0, <1>5, <2>1 DEF Alone, SwitchTypeOK, SwitchHistoryOK
  <2> QED
    BY <1>1, <2>1, <2>2, <2>3 DEF Alone
<1> QED
  BY <1>1, <1>7, <1>8, <1>9 DEF SwitchInv

\* A chunk comes, or is embedded in the active model.
LEMMA SwitchImports ==
    ASSUME SwitchInv, RunnerInv', NEW c \in Chunk, Import(c) \/ EmbedActive(c) PROVE SwitchInv'
<1>0. /\ SwitchTypeOK /\ SwitchHistoryOK /\ SwitchRows /\ (~overlapped => Alone)
  BY DEF SwitchInv
<1>1. /\ UNCHANGED <<status, kind, units, kept, pc, crashes, faults>>
      /\ UNCHANGED <<active, pending, target, toEmbed, saving>>
      /\ UNCHANGED <<activated, stock, promised, previous, overlapped>>
  BY DEF Import, EmbedActive, runnerVars, rowVars, processVars, historyVars, faultVars,
         switchRow, switchHistory
<1>2. /\ vectors' \in [Model -> SUBSET chunks'] /\ chunks \subseteq chunks' /\ chunks' \subseteq Chunk
      /\ \A m \in Model : vectors[m] \subseteq vectors'[m]
  BY <1>0 DEF SwitchTypeOK, Import, EmbedActive, Lacking
<1>3. TypeOK'
  BY DEF RunnerInv
<1>4. toEmbed \in [Job -> SUBSET chunks']
  BY <1>0, <1>2 DEF SwitchTypeOK
<1>5. SwitchTypeOK' /\ SwitchHistoryOK'
  BY <1>0, <1>1, <1>2, <1>3, <1>4 DEF SwitchTypeOK, SwitchHistoryOK
<1>6. SwitchRows'
  BY <1>0, <1>1 DEF SwitchRows, Activated
<1>7. ASSUME ~overlapped PROVE Alone'
  <2>1. Alone
    BY <1>0, <1>7
  <2>2. \A i \in Job : pc[i] \in Embedding => stock[i] \subseteq vectors'[target[i]] \cup toEmbed[i]
    BY <1>0, <1>2, <2>1 DEF Alone, SwitchTypeOK
  <2>3. \A m \in {active, previous} : promised[m] \subseteq vectors'[m]
    BY <1>0, <1>2, <2>1 DEF Alone, SwitchTypeOK, SwitchHistoryOK
  <2> QED
    BY <1>1, <2>1, <2>2, <2>3 DEF Alone
<1> QED
  BY <1>1, <1>5, <1>6, <1>7 DEF SwitchInv

\* The activating commit: all that was taken stock of is embedded.
LEMMA SwitchActivates ==
    ASSUME SwitchAssumption, SwitchInv, RunnerInv', NEW j \in Job, Activate(j) PROVE SwitchInv'
<1> DEFINE t == target[j]
<1>0. /\ SwitchTypeOK /\ SwitchHistoryOK /\ SwitchRows /\ TypeOK /\ TypeOK'
      /\ (~overlapped => Alone) /\ \A i \in Job : RowInv(i)
  BY DEF SwitchInv, RunnerInv
<1>1. /\ pc[j] = "close" /\ j \notin activated /\ active' = t /\ pending' = None
      /\ vectors' = [m \in Model |-> IF m \in {t, active} THEN vectors[m] ELSE {}]
      /\ activated' = activated \cup {j} /\ promised' = [promised EXCEPT ![t] = stock[j]]
      /\ previous' = active
      /\ UNCHANGED <<status, kind, units, kept, pc, crashes, faults>>
      /\ UNCHANGED <<target, chunks, toEmbed, saving, stock, overlapped>>
  BY DEF Activate, runnerVars, rowVars, processVars, historyVars, faultVars
<1>2. /\ status[j] = "running" /\ kept[j] = units[j] /\ t \in Model /\ stock[j] \subseteq Chunk
  BY <1>0, <1>1 DEF RowInv, ThreadInv, CountInv, Begun, SwitchTypeOK, SwitchHistoryOK
<1>3. toEmbed[j] = {}
  <2>1. Cardinality(toEmbed[j]) = units[j] - kept[j]
    BY <1>0, <1>1 DEF SwitchRows, Embedding
  <2>2. IsFiniteSet(toEmbed[j]) /\ units[j] \in Nat
    BY <1>0, ChunkSets DEF SwitchTypeOK, TypeOK
  <2> QED
    BY <1>2, <2>1, <2>2, FS_EmptySet
<1> HIDE DEF t
<1>4. SwitchTypeOK'
  BY <1>0, <1>1, <1>2 DEF SwitchTypeOK
<1>5. SwitchHistoryOK'
  BY <1>0, <1>1, <1>2 DEF SwitchHistoryOK, SwitchTypeOK
<1>6. SwitchRows'
  <2>1. \A i \in activated' : Activated(i)'
    BY <1>0, <1>1, <1>2 DEF SwitchRows, Activated
  <2>2. ASSUME NEW i \in Job, status[i] # "none", i \notin activated'
        PROVE  \E k \in Job \ {i} : status[k] # "none"
    BY <1>1, <1>2, <2>2
  <2> QED
    BY <1>0, <1>1, <2>1, <2>2 DEF SwitchRows
<1>7. ASSUME ~overlapped PROVE Alone'
  <2>1. Alone
    BY <1>0, <1>7
  <2>2. \A i \in Job : status[i] \in InFlight => i = j
    BY <1>2, <2>1 DEF Alone, InFlight
  <2>3. stock[j] \subseteq vectors[t]
    BY <1>1, <1>3, <2>1 DEF Alone, Embedding, t
  <2>4. \A i \in Job : pc[i] \in Embedding => i = j
    BY <1>0, <2>2 DEF RowInv, ThreadInv, Begun, Embedding, InFlight
  <2>5. \A i \in Job : pc[i] \in Embedding => stock[i] \subseteq vectors'[target[i]] \cup toEmbed[i]
    BY <1>1, <1>2, <2>3, <2>4 DEF t
  <2>6. promised'[t] \subseteq vectors'[t]
    BY <1>0, <1>1, <1>2, <2>3 DEF SwitchHistoryOK
  <2>7. promised'[active] \subseteq vectors'[active]
    <3>1. CASE active = t
      BY <2>6, <3>1
    <3>2. CASE active # t
      BY <1>0, <1>1, <2>1, <3>2 DEF SwitchTypeOK, SwitchHistoryOK, Alone
    <3> QED
      BY <3>1, <3>2
  <2> QED
    BY <1>1, <2>2, <2>5, <2>6, <2>7 DEF Alone
<1> QED
  BY <1>1, <1>4, <1>5, <1>6, <1>7 DEF SwitchInv

\* Every step keeps the invariant.
LEMMA SwitchStep == SwitchInv /\ [SwitchNext]_switchAllVars => SwitchInv'
<1> SUFFICES ASSUME SwitchInv, [SwitchNext]_switchAllVars PROVE SwitchInv'
  OBVIOUS
<1>1. RunnerInv'
  BY SwitchRunner
<1>2. ASSUME NEW h \in Admin, NEW j \in Job, StartSwitch(h, j) PROVE SwitchInv'
  BY <1>1, <1>2, SwitchStarts
<1>3. ASSUME NEW j \in Job, TakeStock(j) \/ EmbedGroup(j) \/ Activate(j) PROVE SwitchInv'
  BY <1>1, <1>3, SwitchAssumption, SwitchLists, SwitchEmbeds, SwitchActivates
<1>4. ASSUME NEW c \in Chunk, Import(c) \/ EmbedActive(c) PROVE SwitchInv'
  BY <1>1, <1>4, SwitchImports
<1> QED
  BY <1>1, <1>2, <1>3, <1>4, SwitchQuietSteps DEF SwitchNext

\* The invariant holds at the start, when no switch is there.
LEMMA SwitchStart == SwitchInit => SwitchInv
<1> SUFFICES ASSUME SwitchInit PROVE SwitchInv
  OBVIOUS
<1>1. RunnerInv
  BY RunnerStart DEF SwitchInit
<1>2. /\ active = EnvModel /\ pending = None /\ previous = EnvModel /\ promised = vectors
      /\ chunks = Shelf /\ activated = {} /\ EnvModel \in Model /\ Shelf \subseteq Chunk
      /\ vectors = [m \in Model |-> IF m = EnvModel THEN Shelf ELSE {}]
      /\ \A j \in Job : status[j] = "none" /\ pc[j] = "idle"
  BY SwitchAssumption DEF SwitchInit, Init
<1>3. SwitchTypeOK
  BY <1>1, <1>2 DEF SwitchInit, SwitchTypeOK, RunnerInv
<1>4. SwitchHistoryOK
  BY <1>2 DEF SwitchInit, SwitchHistoryOK
<1>5. SwitchRows /\ Alone
  BY <1>2 DEF SwitchRows, Alone, Embedding, InFlight
<1> QED
  BY <1>1, <1>3, <1>4, <1>5 DEF SwitchInv

\* SwitchInv holds in every state a switch reaches.
THEOREM SwitchesHold == SwitchSpec => []SwitchInv
BY SwitchStart, SwitchStep, PTL DEF SwitchSpec

\* The settings row, the requests and the vectors have their types.
THEOREM SwitchTypeCorrect == SwitchSpec => []SwitchTypeOK
<1>1. SwitchInv => SwitchTypeOK
  BY DEF SwitchInv
<1> QED
  BY <1>1, SwitchesHold, PTL

\* Switched one at a time, the active model and the one before it have a vector
\* of every chunk their switch took stock of; and a switch that failed has not
\* touched the active row, but for a lost or interrupted DONE.
THEOREM SwitchesAreWhole == SwitchSpec => []SwitchIsAllOrNothing
<1>1. SwitchInv => SwitchIsAllOrNothing
  <2> SUFFICES ASSUME SwitchInv PROVE FailedLeavesActive
    BY DEF SwitchInv, Alone, SwitchIsAllOrNothing, SwitchIsComplete
  <2>1. \A j \in Job : j \in activated /\ status[j] = "failed" => faults + crashes > 0
    BY DEF SwitchInv, SwitchRows, Activated, RunnerInv, RowInv, ThreadInv, Begun
  <2> QED
    BY <2>1 DEF SwitchInv, SwitchRows, FailedLeavesActive
<1> QED
  BY <1>1, SwitchesHold, PTL

=============================================================================
