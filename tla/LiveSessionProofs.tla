-------------------------- MODULE LiveSessionProofs --------------------------
(***************************************************************************)
(* Proofs about LiveSession for every number of tabs, jobs, questions      *)
(* served, crashes and lost commits.                                       *)
(***************************************************************************)
EXTENDS LiveSession, FiniteSetTheorems, WellFoundedInduction, TLAPS

Places == {"idle", "resume", "ready", "place", "serve", "active", "respond", "expire",
           "draw", "create", "grade", "fold"}
Requests == [pc : Places, force : BOOLEAN, job : {0} \cup Job, ordinal : Nat,
             mastery : [Ordinal -> Nat]]
Attempts == [job : {0} \cup Job, scored : BOOLEAN]
Statuses == {"none", "done", "failed"} \cup InFlight

TypesInv ==
    /\ attempts \in Seq(Attempts)
    /\ mastery \in [Ordinal -> Nat]
    /\ status \in [Job -> Statuses]
    /\ question \in [Job -> BOOLEAN]
    /\ attemptOf \in [Job -> Nat]
    /\ wpc \in [Job -> {"idle", "generate"}]
    /\ request \in [Tab -> Requests]

(***************************************************************************)
(* The inductive invariant.  A job is queued once in its life, so it is    *)
(* claimed once, and its worker is the only one that can still fail it     *)
(* without having looked at it: while it works there is no question yet,   *)
(* and once there is one the job is done, or was failed from outside.      *)
(***************************************************************************)
WorkerInv == \A j \in Job :
    /\ wpc[j] = "generate" => status[j] \notin {"none", "queued"} /\ ~question[j]
    /\ question[j] => status[j] \in {"done", "failed"}

OneActive == \A i, j \in Job : {status[i], status[j]} \subseteq InFlight => i = j

LiveInv == TypesInv /\ WorkerInv /\ OneActive /\ NoLiveQuestionLost
-----------------------------------------------------------------------------
\* The least of a set of numbers is one of them.
Less == {ss \in Nat \X Nat : ss[1] < ss[2]}

LEMMA LeastExists == ASSUME NEW S \in SUBSET Nat, S # {} PROVE Min(S) \in S
<1>1. IsWellFoundedOn(Less, Nat)
  BY NatLessThanWellFounded, Zenon DEF Less, OpToRel
<1>2. PICK x \in S : \A y \in S : ~(<<y, x>> \in Less)
  BY <1>1, WFMin
<1>3. ASSUME NEW y \in S PROVE x <= y
  <2>1. x \in Nat /\ y \in Nat /\ ~(<<y, x>> \in Less)
    BY <1>2
  <2>2. ~(y < x)
    BY <2>1 DEF Less
  <2> QED
    BY <2>1, <2>2
<1> QED
  BY <1>3 DEF Min

LEMMA JobsAreNumbers == Job \subseteq Nat /\ 0 \notin Job
BY LiveAssumption DEF Job

\* A request after a step is a request.
LEMMA RequestTypes ==
    ASSUME NEW r \in Requests, NEW pc \in Places, NEW j \in {0} \cup Job, NEW n \in Nat,
           NEW force \in BOOLEAN, NEW m \in [Ordinal -> Nat]
    PROVE  /\ Idle \in Requests
           /\ [r EXCEPT !.pc = pc] \in Requests
           /\ [r EXCEPT !.pc = pc, !.force = force] \in Requests
           /\ [r EXCEPT !.pc = pc, !.job = j] \in Requests
           /\ [r EXCEPT !.pc = pc, !.ordinal = n] \in Requests
           /\ [r EXCEPT !.pc = pc, !.mastery = m] \in Requests
<1> DEFINE one == [r EXCEPT !.pc = pc]
<1>1. one \in Requests
  BY DEF Requests
<1>2. [one EXCEPT !.force = force] \in Requests
  BY <1>1 DEF Requests
<1>3. [one EXCEPT !.job = j] \in Requests
  BY <1>1 DEF Requests
<1>4. [one EXCEPT !.ordinal = n] \in Requests
  BY <1>1 DEF Requests
<1>5. [one EXCEPT !.mastery = m] \in Requests
  BY <1>1 DEF Requests
<1>6. /\ [one EXCEPT !.force = force] = [r EXCEPT !.pc = pc, !.force = force]
      /\ [one EXCEPT !.job = j] = [r EXCEPT !.pc = pc, !.job = j]
      /\ [one EXCEPT !.ordinal = n] = [r EXCEPT !.pc = pc, !.ordinal = n]
      /\ [one EXCEPT !.mastery = m] = [r EXCEPT !.pc = pc, !.mastery = m]
  BY DEF Requests
<1>7. Idle \in Requests
  BY DEF Idle, Requests, Places
<1> QED
  BY <1>1, <1>2, <1>3, <1>4, <1>5, <1>6, <1>7

LEMMA Stepped ==
    ASSUME TypesInv, NEW t \in Tab, NEW r \in Requests, Step(t, r)
    PROVE  request' \in [Tab -> Requests]
BY DEF TypesInv, Step

\* What a request starts from.
LEMMA RequestFacts ==
    ASSUME TypesInv, NEW t \in Tab
    PROVE  /\ request[t] \in Requests /\ Idle \in Requests
           /\ request[t].job \in {0} \cup Job /\ request[t].force \in BOOLEAN
           /\ request[t].ordinal \in Nat /\ request[t].mastery \in [Ordinal -> Nat]
           /\ Len(attempts) \in Nat
<1>1. request[t] \in Requests
  BY DEF TypesInv
<1>2. Idle \in Requests
  BY DEF Idle, Requests, Places
<1>3. Len(attempts) \in Nat
  BY DEF TypesInv
<1> QED
  BY <1>1, <1>2, <1>3 DEF Requests

\* A step of a request that only moves on.
LEMMA Quiet ==
    ASSUME LiveInv, UNCHANGED <<attempts, mastery, status, question, attemptOf, lateExpiry>>,
           rejected \subseteq rejected', request' \in [Tab -> Requests],
           wpc' \in [Job -> {"idle", "generate"}],
           \A j \in Job : wpc'[j] \in {"idle", wpc[j]}
    PROVE  LiveInv'
<1>1. TypesInv'
  BY DEF LiveInv, TypesInv
<1>2. WorkerInv'
  BY DEF LiveInv, WorkerInv
<1>3. OneActive'
  BY DEF LiveInv, OneActive
<1>4. NoLiveQuestionLost'
  BY DEF LiveInv, NoLiveQuestionLost
<1> QED
  BY <1>1, <1>2, <1>3, <1>4 DEF LiveInv
-----------------------------------------------------------------------------
\* The reads of a request, its start and its end keep the invariant.
LEMMA ReadSteps ==
    ASSUME LiveInv, NEW t \in Tab,
           \/ \E force \in BOOLEAN : Ask(t, force)
           \/ \E n \in Ordinal : Answer(t, n)
           \/ Resume(t) \/ FindReady(t) \/ Place(t) \/ FindActive(t) \/ Draw(t)
           \/ CompleteCurriculum(t) \/ Respond(t) \/ Grade(t)
    PROVE  LiveInv'
<1>1. /\ UNCHANGED <<attempts, mastery, status, question, attemptOf, lateExpiry, rejected, wpc>>
  BY DEF Ask, Answer, Begin, Resume, FindReady, Place, FindActive, Draw, CompleteCurriculum,
         Respond, Grade, Reading, jobVars, workVars, historyVars
<1>2. /\ request[t] \in Requests /\ Idle \in Requests /\ mastery \in [Ordinal -> Nat]
      /\ Len(attempts) + 1 \in Nat /\ 0 \in {0} \cup Job /\ Ordinal \subseteq Nat /\ 0 \in Nat
      /\ TypesInv
  BY RequestFacts, LiveAssumption DEF LiveInv, TypesInv, Ordinal
<1>3. {"resume", "ready", "place", "serve", "active", "respond", "expire", "draw", "create",
       "grade", "fold"} \subseteq Places
  BY DEF Places
<1>4. \E r \in Requests : Step(t, r)
  <2>1. CASE \E force \in BOOLEAN : Ask(t, force)
    BY <1>2, <1>3, <2>1, RequestTypes DEF Ask, Begin
  <2>2. CASE \E n \in Ordinal : Answer(t, n)
    BY <1>2, <1>3, <2>2, RequestTypes DEF Answer, Begin
  <2>3. CASE Resume(t)
    BY <1>2, <1>3, <2>3, RequestTypes DEF Resume, Reading
  <2>4. CASE FindReady(t)
    <3>1. Ready # {} => Min(Ready) \in Job
      BY JobsAreNumbers, LeastExists DEF Ready
    <3>2. CASE Reading(t, [request[t] EXCEPT !.pc = "active"])
      BY <1>2, <1>3, <3>2, RequestTypes DEF Reading
    <3>3. CASE Ready # {} /\ Reading(t, [Idle EXCEPT !.pc = "place", !.job = Min(Ready)])
      BY <1>2, <1>3, <3>1, <3>3, RequestTypes DEF Reading
    <3> QED
      BY <2>4, <3>2, <3>3 DEF FindReady
  <2>5. CASE Place(t)
    BY <1>2, <1>3, <2>5, RequestTypes DEF Place, Reading
  <2>6. CASE FindActive(t)
    <3>1. CASE Reading(t, [request[t] EXCEPT !.pc = "draw"])
      BY <1>2, <1>3, <3>1, RequestTypes DEF Reading
    <3>2. ASSUME NEW j \in Active,
                 Reading(t, IF waited[j] THEN [request[t] EXCEPT !.pc = "expire", !.job = j]
                                         ELSE Wait(j, status))
          PROVE  \E r \in Requests : Step(t, r)
      <4>1. j \in {0} \cup Job
        BY DEF Active
      <4>2. [request[t] EXCEPT !.pc = "expire", !.job = j] \in Requests
        BY <1>2, <1>3, <4>1, RequestTypes
      <4>3. Wait(j, status) \in Requests
        BY <1>2, <1>3, <4>1, RequestTypes DEF Wait
      <4> QED
        BY <3>2, <4>2, <4>3 DEF Reading
    <3> QED
      BY <2>6, <3>1, <3>2 DEF FindActive
  <2>7. CASE Draw(t)
    <3>1. PICK d \in Decisions(request[t].force, InCooldown(status, waited)) :
          Reading(t, CASE d = "generate" -> [Idle EXCEPT !.pc = "create"]
                       [] d = "nothing" -> Idle
                       [] OTHER -> [Idle EXCEPT !.pc = "serve", !.ordinal = Len(attempts) + 1])
      BY <2>7 DEF Draw
    <3>2. [Idle EXCEPT !.pc = "create"] \in Requests
      BY <1>2, <1>3, RequestTypes
    <3>3. [Idle EXCEPT !.pc = "serve", !.ordinal = Len(attempts) + 1] \in Requests
      BY <1>2, <1>3, RequestTypes
    <3> QED
      BY <1>2, <3>1, <3>2, <3>3 DEF Reading
  <2>8. CASE CompleteCurriculum(t) \/ Respond(t)
    BY <1>2, <2>8 DEF CompleteCurriculum, Respond
  <2>9. CASE Grade(t)
    BY <1>2, <1>3, <2>9, RequestTypes DEF Grade, Reading
  <2> QED
    BY <2>1, <2>2, <2>3, <2>4, <2>5, <2>6, <2>7, <2>8, <2>9
<1>5. request' \in [Tab -> Requests]
  BY <1>2, <1>4, Stepped
<1> QED
  BY <1>1, <1>5, Quiet DEF LiveInv, TypesInv

\* What goes on around the requests keeps the invariant.
LEMMA OutsideSteps ==
    ASSUME LiveInv, End \/ Crash \/ Recover \/ \E j \in Job : Elapse(j) \/ Reject(j)
    PROVE  LiveInv'
<1>1. Idle \in Requests
  BY DEF Idle, Requests, Places
<1>2. UNCHANGED <<attempts, mastery, status, question, attemptOf, lateExpiry>>
  BY DEF End, Crash, Recover, Elapse, Reject, jobVars, historyVars
<1>3. rejected \subseteq rejected'
  BY DEF End, Crash, Recover, Elapse, Reject
<1>4. /\ request' \in [Tab -> Requests] /\ wpc' \in [Job -> {"idle", "generate"}]
      /\ \A j \in Job : wpc'[j] \in {"idle", wpc[j]}
  <2>1. CASE Crash
    BY <1>1, <2>1 DEF Crash
  <2>2. CASE ~Crash
    BY <2>2 DEF LiveInv, TypesInv, End, Recover, Elapse, Reject, workVars
  <2> QED
    BY <2>1, <2>2
<1> QED
  BY <1>2, <1>3, <1>4, Quiet
-----------------------------------------------------------------------------
\* The jobs are as st has them, but for one that may be queued when none is in
\* flight.
Queues(st) ==
    \/ status' = st
    \/ \E j \in Job : /\ st[j] = "none" /\ \A i \in Job : st[i] \notin InFlight
                      /\ status' = [st EXCEPT ![j] = "queued"]

LEMMA WaitType ==
    ASSUME NEW j \in Job, NEW st PROVE Wait(j, st) \in Requests
<1>1. "respond" \in Places /\ j \in {0} \cup Job
  BY DEF Places
<1>2. Idle \in Requests
  BY DEF Idle, Requests, Places
<1>3. [Idle EXCEPT !.pc = "respond"] \in Requests
  BY <1>1, <1>2 DEF Requests
<1>4. [[Idle EXCEPT !.pc = "respond"] EXCEPT !.job = j] \in Requests
  BY <1>1, <1>3 DEF Requests
<1>5. [Idle EXCEPT !.pc = "respond", !.job = j]
      = [[Idle EXCEPT !.pc = "respond"] EXCEPT !.job = j]
  BY DEF Idle
<1> QED
  BY <1>2, <1>4, <1>5 DEF Wait

LEMMA CreateQueues ==
    ASSUME TypesInv, NEW t \in Tab, NEW st \in [Job -> Statuses], NEW w, CreateIn(t, st, w)
    PROVE  Queues(st) /\ request' \in [Tab -> Requests]
<1> DEFINE active == {j \in Job : st[j] \in InFlight}
           free == {j \in Job : st[j] = "none"}
<1>1. active \in SUBSET Nat /\ free \in SUBSET Nat
  BY JobsAreNumbers
<1>2. CASE active # {} /\ status' = st /\ Step(t, Wait(Min(active), st))
  <2>1. Min(active) \in Job
    BY <1>1, <1>2, LeastExists
  <2> QED
    BY <1>2, <2>1, WaitType, Stepped DEF Queues
<1>3. CASE /\ active = {} /\ free # {}
           /\ status' = [st EXCEPT ![Min(free)] = "queued"]
           /\ Step(t, Wait(Min(free), status'))
  <2>1. Min(free) \in free
    BY <1>1, <1>3, LeastExists
  <2>2. Min(free) \in Job
    BY <2>1
  <2> QED
    BY <1>3, <2>1, <2>2, WaitType, Stepped DEF Queues
<1> QED
  BY <1>2, <1>3 DEF CreateIn

\* A new attempt is recorded, and no job is freed of the attempts it had.
LEMMA Attempted ==
    ASSUME TypesInv, NEW j \in {0} \cup Job, AddAttempt(j)
    PROVE  /\ attempts' \in Seq(Attempts) /\ attemptOf' \in [Job -> Nat]
           /\ \A i \in Job : attemptOf[i] # 0 => attemptOf'[i] # 0
           /\ \A n \in DOMAIN attempts : n \in DOMAIN attempts' /\ attempts'[n] = attempts[n]
<1>1. attempts \in Seq(Attempts) /\ Len(attempts) + 1 \in Nat \ {0}
      /\ attemptOf \in [Job -> Nat]
  BY DEF TypesInv
<1> DEFINE new == [job |-> j, scored |-> FALSE]
<1>2. new \in Attempts
  BY DEF Attempts
<1>3. attempts' = Append(attempts, new)
  BY DEF AddAttempt
<1> HIDE DEF new
<1>4. /\ attempts' \in Seq(Attempts)
      /\ \A n \in DOMAIN attempts : n \in DOMAIN attempts' /\ attempts'[n] = attempts[n]
  BY <1>1, <1>2, <1>3
<1>5. /\ attemptOf' \in [Job -> Nat]
      /\ \A i \in Job : attemptOf[i] # 0 => attemptOf'[i] # 0
  BY <1>1 DEF AddAttempt
<1> QED
  BY <1>4, <1>5

\* The attempts after a step: those there were, and perhaps one more.
Served == /\ attempts' \in Seq(Attempts) /\ attemptOf' \in [Job -> Nat]
          /\ \A i \in Job : attemptOf[i] # 0 => attemptOf'[i] # 0
          /\ \A n \in DOMAIN attempts : n \in DOMAIN attempts' /\ attempts'[n] = attempts[n]

LEMMA ConcludeQueues ==
    ASSUME TypesInv, NEW t \in Tab, NEW st \in [Job -> Statuses], NEW w, Conclude(t, st, w)
    PROVE  Queues(st) /\ request' \in [Tab -> Requests] /\ Served
<1>1. Idle \in Requests
  BY RequestFacts
<1>2. CASE AddAttempt(0) /\ status' = st /\ Step(t, Idle)
  BY <1>1, <1>2, Attempted, Stepped DEF Served, Queues
<1>3. CASE status' = st /\ Step(t, Idle) /\ UNCHANGED <<attempts, attemptOf>>
  BY <1>1, <1>3, Stepped DEF Served, Queues, TypesInv
<1>4. CASE CreateIn(t, st, w) /\ UNCHANGED <<attempts, attemptOf>>
  BY <1>4, CreateQueues DEF Served, TypesInv
<1> QED
  BY <1>2, <1>3, <1>4 DEF Conclude

\* A step that fails jobs, queues one and serves one keeps the invariant when
\* every finished job it fails is rejected or recorded as failed late.
LEMMA JobsKept ==
    ASSUME LiveInv, UNCHANGED <<mastery, question, wpc, rejected>>,
           NEW st \in [Job -> Statuses], Queues(st), Served, request' \in [Tab -> Requests],
           \A j \in Job : st[j] \in {status[j], "failed"},
           \A j \in Job : status[j] = "done" /\ st[j] # "done"
                          => j \in rejected \/ j \in lateExpiry',
           lateExpiry \subseteq lateExpiry'
    PROVE  LiveInv'
<1>1. CASE status' = st
  <2>1. TypesInv'
    BY <1>1 DEF LiveInv, TypesInv, Served
  <2>2. WorkerInv'
    BY <1>1 DEF LiveInv, WorkerInv
  <2>3. OneActive'
    BY <1>1 DEF LiveInv, OneActive, InFlight
  <2>4. NoLiveQuestionLost'
    BY <1>1 DEF LiveInv, NoLiveQuestionLost, Served
  <2> QED
    BY <2>1, <2>2, <2>3, <2>4 DEF LiveInv
<1>2. ASSUME NEW k \in Job, st[k] = "none", \A i \in Job : st[i] \notin InFlight,
             status' = [st EXCEPT ![k] = "queued"]
      PROVE  LiveInv'
  <2>1. TypesInv'
    BY <1>2 DEF LiveInv, TypesInv, Served, Statuses, InFlight
  <2>2. status[k] = "none" /\ status'[k] = "queued" /\ \A j \in Job \ {k} : status'[j] = st[j]
    BY <1>2
  <2>3. wpc[k] # "generate" /\ ~question[k]
    BY <2>2 DEF LiveInv, WorkerInv
  <2>4. WorkerInv'
    BY <2>2, <2>3 DEF LiveInv, WorkerInv, TypesInv
  <2>5. OneActive'
    BY <1>2, <2>2 DEF OneActive
  <2>6. NoLiveQuestionLost'
    BY <2>2, <2>3 DEF LiveInv, NoLiveQuestionLost, Served
  <2> QED
    BY <2>1, <2>4, <2>5, <2>6 DEF LiveInv
<1> QED
  BY <1>1, <1>2 DEF Queues

\* The writes of a request keep the invariant, and every attempt as it was but
\* for the one it scores.
LEMMA WriteSteps ==
    ASSUME LiveInv, NEW t \in Tab,
           Serve(t) \/ Create(t) \/ Expire(t) \/ DropRejected(t)
    PROVE  LiveInv' /\ Served
<1>1. /\ TypesInv /\ request[t].job \in {0} \cup Job /\ Idle \in Requests
      /\ status \in [Job -> Statuses]
  BY RequestFacts DEF LiveInv, TypesInv
<1>2. CASE Serve(t)
  <2>1. Served
    <3>1. CASE AddAttempt(request[t].job)
      BY <1>1, <3>1, Attempted DEF Served
    <3>2. CASE UNCHANGED <<attempts, attemptOf>>
      BY <1>1, <3>2 DEF Served, TypesInv
    <3> QED
      BY <1>2, <3>1, <3>2 DEF Serve
  <2>2. /\ UNCHANGED <<mastery, question, wpc, rejected, lateExpiry, status>>
        /\ request' \in [Tab -> Requests]
    BY <1>1, <1>2, Stepped DEF Serve, workVars, historyVars
  <2> QED
    BY <1>1, <2>1, <2>2, JobsKept DEF Queues
<1>3. CASE Create(t)
  <2>1. /\ UNCHANGED <<attempts, attemptOf, mastery, question, wpc, rejected, lateExpiry>>
        /\ CreateIn(t, status, waited)
    BY <1>3 DEF Create, workVars, historyVars
  <2>2. Queues(status) /\ request' \in [Tab -> Requests]
    BY <1>1, <2>1, CreateQueues
  <2>3. Served
    BY <1>1, <2>1 DEF Served, TypesInv
  <2> QED
    BY <1>1, <2>1, <2>2, <2>3, JobsKept
<1>4. CASE Expire(t)
  <2> DEFINE j == request[t].job
             st == [status EXCEPT ![j] = "failed"]
  <2>1. /\ UNCHANGED <<mastery, question, wpc, rejected>>
        /\ Conclude(t, st, [waited EXCEPT ![j] = FALSE])
        /\ lateExpiry' = IF status[j] = "done" THEN lateExpiry \cup {j} ELSE lateExpiry
    BY <1>4 DEF Expire, workVars
  <2>2. st \in [Job -> Statuses] /\ \A i \in Job : st[i] = IF i = j THEN "failed" ELSE status[i]
    BY <1>1 DEF Statuses
  <2> HIDE DEF st
  <2>3. Queues(st) /\ request' \in [Tab -> Requests] /\ Served
    BY <1>1, <2>1, <2>2, ConcludeQueues
  <2>4. \A i \in Job : status[i] = "done" /\ st[i] # "done" => i \in lateExpiry'
    BY <2>1, <2>2
  <2> QED
    BY <2>1, <2>2, <2>3, <2>4, JobsKept
<1>5. CASE DropRejected(t)
  <2> DEFINE j == Min(Ready)
             st == [status EXCEPT ![j] = "failed"]
  <2>1. /\ UNCHANGED <<mastery, question, wpc, rejected, lateExpiry>> /\ j \in rejected
        /\ \E over \in BOOLEAN : Conclude(t, st, [waited EXCEPT ![j] = over])
    BY <1>5 DEF DropRejected, workVars, historyVars
  <2> HIDE DEF j
  <2>2. st \in [Job -> Statuses] /\ \A i \in Job : st[i] = IF i = j THEN "failed" ELSE status[i]
    BY <1>1 DEF Statuses
  <2> HIDE DEF st
  <2>3. Queues(st) /\ request' \in [Tab -> Requests] /\ Served
    BY <1>1, <2>1, <2>2, ConcludeQueues
  <2> QED
    BY <2>1, <2>2, <2>3, JobsKept
<1> QED
  BY <1>2, <1>3, <1>4, <1>5

\* An answer is scored once and for all, at the place it was served.
LEMMA FoldStep ==
    ASSUME LiveInv, NEW t \in Tab, Fold(t)
    PROVE  /\ LiveInv'
           /\ DOMAIN attempts' = DOMAIN attempts
           /\ \A n \in DOMAIN attempts : /\ attempts'[n].job = attempts[n].job
                                         /\ attempts[n].scored => attempts'[n].scored
<1> DEFINE n == request[t].ordinal
<1>1. /\ mastery' = [request[t].mastery EXCEPT ![n] = @ + 1]
      /\ attempts' = [attempts EXCEPT ![n].scored = TRUE]
      /\ UNCHANGED <<status, question, attemptOf, wpc, rejected, lateExpiry>>
      /\ Step(t, Idle)
  BY DEF Fold, jobVars, workVars, historyVars
<1>2. TypesInv /\ request[t].mastery \in [Ordinal -> Nat] /\ Idle \in Requests /\ n \in Nat
  BY RequestFacts DEF LiveInv
<1> HIDE DEF n
<1>3. mastery' \in [Ordinal -> Nat]
  <2> DEFINE m == request[t].mastery
  <2>1. m \in [Ordinal -> Nat] /\ mastery' = [m EXCEPT ![n] = @ + 1]
    BY <1>1, <1>2
  <2> HIDE DEF m
  <2>2. [m EXCEPT ![n] = @ + 1] = [m EXCEPT ![n] = m[n] + 1]
    OBVIOUS
  <2>3. \A i \in Ordinal : m[i] \in Nat /\ m[i] + 1 \in Nat
    BY <2>1
  <2>4. [m EXCEPT ![n] = m[n] + 1] \in [Ordinal -> Nat]
    BY <2>1, <2>3
  <2> QED
    BY <2>1, <2>2, <2>4
<1>4. attempts \in Seq(Attempts)
  BY <1>2 DEF TypesInv
<1>5. ASSUME NEW i \in DOMAIN attempts
      PROVE  /\ attempts[i] \in Attempts
             /\ attempts'[i] = IF i = n THEN [attempts[i] EXCEPT !.scored = TRUE] ELSE attempts[i]
  <2>1. DOMAIN attempts = 1 .. Len(attempts) /\ \A k \in 1 .. Len(attempts) : attempts[k] \in Attempts
    BY <1>4
  <2>2. attempts'[i] = IF i = n THEN [attempts[i] EXCEPT !.scored = TRUE] ELSE attempts[i]
    BY <1>1
  <2> QED
    BY <2>1, <2>2
<1>6. ASSUME NEW i \in DOMAIN attempts
      PROVE  /\ attempts'[i] \in Attempts /\ attempts'[i].job = attempts[i].job
             /\ attempts[i].scored => attempts'[i].scored
  BY <1>5 DEF Attempts
<1>7. attempts' \in Seq(Attempts) /\ DOMAIN attempts' = DOMAIN attempts
  <2>1. Len(attempts) \in Nat /\ attempts \in [1 .. Len(attempts) -> Attempts]
    BY <1>4
  <2>2. attempts' \in [1 .. Len(attempts) -> Attempts]
    BY <1>1, <1>6, <2>1
  <2> QED
    BY <2>1, <2>2
<1>8. request' \in [Tab -> Requests]
  BY <1>1, <1>2, Stepped
<1>9. TypesInv'
  BY <1>1, <1>2, <1>3, <1>7, <1>8 DEF TypesInv
<1>10. WorkerInv' /\ OneActive' /\ NoLiveQuestionLost'
  BY <1>1 DEF LiveInv, WorkerInv, OneActive, NoLiveQuestionLost
<1> QED
  BY <1>6, <1>7, <1>9, <1>10 DEF LiveInv

\* A worker's steps keep the invariant: its job is the only one it touches.
LEMMA WorkSteps ==
    ASSUME LiveInv, NEW j \in Job, Claim(j) \/ Finish(j) \/ Fail(j) \/ FailLost(j)
    PROVE  LiveInv' /\ UNCHANGED attempts
<1>1. UNCHANGED <<attempts, mastery, attemptOf, rejected, lateExpiry, request>>
  BY DEF Claim, Finish, Fail, FailLost, Leave, historyVars
<1>2. CASE /\ status' = status /\ question' = question
           /\ wpc' = wpc \/ wpc' = [wpc EXCEPT ![j] = "idle"]
  <2>1. TypesInv'
    BY <1>1, <1>2 DEF LiveInv, TypesInv
  <2>2. WorkerInv' /\ OneActive' /\ NoLiveQuestionLost'
    BY <1>1, <1>2 DEF LiveInv, TypesInv, WorkerInv, OneActive, NoLiveQuestionLost
  <2> QED
    BY <1>1, <2>1, <2>2 DEF LiveInv
<1>3. CASE /\ status[j] = "queued" /\ Becomes(j, "running")
           /\ wpc' = [wpc EXCEPT ![j] = "generate"] /\ question' = question
  <2>1. TypesInv'
    BY <1>1, <1>3 DEF LiveInv, TypesInv, Becomes, Statuses, InFlight
  <2>2. WorkerInv'
    BY <1>3 DEF LiveInv, TypesInv, WorkerInv, Becomes
  <2>3. OneActive'
    BY <1>3 DEF LiveInv, TypesInv, OneActive, Becomes, InFlight
  <2>4. NoLiveQuestionLost'
    BY <1>1, <1>3 DEF LiveInv, TypesInv, WorkerInv, NoLiveQuestionLost, Becomes
  <2> QED
    BY <1>1, <2>1, <2>2, <2>3, <2>4 DEF LiveInv
<1>4. ASSUME NEW x \in {"done", "failed"}, wpc[j] = "generate", Becomes(j, x),
             wpc' = [wpc EXCEPT ![j] = "idle"],
             question' = IF x = "done" THEN [question EXCEPT ![j] = TRUE] ELSE question
      PROVE  LiveInv'
  <2>1. TypesInv'
    BY <1>1, <1>4 DEF LiveInv, TypesInv, Becomes, Statuses
  <2>2. WorkerInv'
    BY <1>4 DEF LiveInv, TypesInv, WorkerInv, Becomes
  <2>3. OneActive'
    BY <1>4 DEF LiveInv, TypesInv, OneActive, Becomes, InFlight
  <2>4. NoLiveQuestionLost'
    BY <1>1, <1>4 DEF LiveInv, TypesInv, WorkerInv, NoLiveQuestionLost, Becomes
  <2> QED
    BY <2>1, <2>2, <2>3, <2>4 DEF LiveInv
<1>5. CASE Claim(j)
  <2>1. question' = question
    BY <1>5 DEF Claim
  <2>2. \/ status' = status /\ wpc' = wpc
        \/ /\ status[j] = "queued" /\ Becomes(j, "running")
           /\ wpc' = [wpc EXCEPT ![j] = "generate"]
    BY <1>5 DEF Claim
  <2> QED
    BY <1>1, <1>2, <1>3, <2>1, <2>2
<1>6. CASE Finish(j)
  BY <1>1, <1>4, <1>6 DEF Finish, Leave
<1>7. CASE Fail(j)
  BY <1>1, <1>4, <1>7 DEF Fail, Leave
<1>8. CASE FailLost(j)
  <2>1. status' = status /\ question' = question /\ wpc' = [wpc EXCEPT ![j] = "idle"]
    BY <1>8 DEF FailLost, Leave
  <2> QED
    BY <1>1, <1>2, <2>1
<1> QED
  BY <1>1, <1>5, <1>6, <1>7, <1>8
-----------------------------------------------------------------------------
LEMMA LiveInvInit == Init => LiveInv
<1> SUFFICES ASSUME Init PROVE LiveInv
  OBVIOUS
<1>1. Idle \in Requests
  BY DEF Idle, Requests, Places
<1>2. TypesInv
  BY <1>1 DEF Init, TypesInv, Statuses
<1> QED
  BY <1>2 DEF Init, LiveInv, WorkerInv, OneActive, InFlight, NoLiveQuestionLost

AttemptsKept == \A n \in DOMAIN attempts :
    /\ n \in DOMAIN attempts'
    /\ attempts'[n].job = attempts[n].job
    /\ attempts[n].scored => attempts'[n].scored

LEMMA LiveInvStep == LiveInv /\ [Next]_liveVars => LiveInv' /\ AttemptsKept
<1> SUFFICES ASSUME LiveInv, [Next]_liveVars PROVE LiveInv' /\ AttemptsKept
  OBVIOUS
<1>1. UNCHANGED attempts => AttemptsKept
  BY DEF AttemptsKept
<1>2. CASE UNCHANGED liveVars
  <2>1. /\ UNCHANGED <<attempts, mastery, status, question, attemptOf, lateExpiry>>
        /\ UNCHANGED <<rejected, request, wpc>>
    BY <1>2 DEF liveVars, jobVars, workVars, historyVars
  <2> QED
    BY <1>1, <2>1, Quiet DEF LiveInv, TypesInv
<1>3. ASSUME NEW t \in Tab,
             \/ \E force \in BOOLEAN : Ask(t, force)
             \/ \E n \in Ordinal : Answer(t, n)
             \/ Resume(t) \/ FindReady(t) \/ Place(t) \/ FindActive(t) \/ Draw(t)
             \/ CompleteCurriculum(t) \/ Respond(t) \/ Grade(t)
      PROVE  LiveInv' /\ AttemptsKept
  <2>1. UNCHANGED attempts
    BY <1>3 DEF Ask, Answer, Begin, Resume, FindReady, Place, FindActive, Draw,
                CompleteCurriculum, Respond, Grade, Reading
  <2> QED
    BY <1>1, <1>3, <2>1, ReadSteps
<1>4. ASSUME NEW t \in Tab, Serve(t) \/ Create(t) \/ Expire(t) \/ DropRejected(t)
      PROVE  LiveInv' /\ AttemptsKept
  BY <1>4, WriteSteps DEF Served, AttemptsKept
<1>5. ASSUME NEW t \in Tab, Fold(t) PROVE LiveInv' /\ AttemptsKept
  BY <1>5, FoldStep DEF AttemptsKept
<1>6. ASSUME NEW j \in Job, Claim(j) \/ Finish(j) \/ Fail(j) \/ FailLost(j)
      PROVE  LiveInv' /\ AttemptsKept
  BY <1>1, <1>6, WorkSteps
<1>7. ASSUME End \/ Crash \/ Recover \/ \E j \in Job : Elapse(j) \/ Reject(j)
      PROVE  LiveInv' /\ AttemptsKept
  BY <1>1, <1>7, OutsideSteps DEF End, Crash, Recover, Elapse, Reject
<1> QED
  BY <1>2, <1>3, <1>4, <1>5, <1>6, <1>7 DEF Next, Serving, Answering, Working

THEOREM LiveHolds == Spec => []LiveInv
<1>1. LiveInv /\ [Next]_liveVars => LiveInv'
  BY LiveInvStep
<1> QED
  BY <1>1, LiveInvInit, PTL DEF Spec

\* However many tabs poll, and whatever expires, one live job is in flight.
THEOREM OneJobInFlight == Spec => []OneLiveJob
<1>1. LiveInv => OneLiveJob
  <2> SUFFICES ASSUME LiveInv PROVE Cardinality(Active) <= 1
    BY DEF OneLiveJob
  <2>1. CASE Active = {}
    BY <2>1, FS_EmptySet
  <2>2. CASE Active # {}
    <3>1. PICK j \in Active : TRUE
      BY <2>2
    <3>2. Active = {j}
      BY <3>1 DEF LiveInv, OneActive, Active
    <3> QED
      BY <3>2, FS_Singleton
  <2> QED
    BY <2>1, <2>2
<1> QED
  BY <1>1, LiveHolds, PTL

\* A live question that was paid for waits for the student, was served, or was
\* rejected; it is lost only to a request that failed its job on a stale read.
THEOREM QuestionsSurvive == Spec => []NoLiveQuestionLost
<1>1. LiveInv => NoLiveQuestionLost
  BY DEF LiveInv
<1> QED
  BY <1>1, LiveHolds, PTL

\* No interleaving of tabs takes back an answer or moves a question.
THEOREM AnswersNeverUndone == Spec => AnswersStand
<1>1. LiveInv /\ [Next]_liveVars => [AttemptsKept]_liveVars
  BY LiveInvStep
<1> QED
  BY <1>1, LiveHolds, PTL DEF Spec, AnswersStand, AttemptsKept
-----------------------------------------------------------------------------
(***************************************************************************)
(* One request at a time.  What a request has read is then still so when   *)
(* it writes: past `resume` nothing is open, a question about to be placed *)
(* has no attempt, an answer being graded is still open and its mastery is *)
(* the one that was read.  Jobs, workers and crashes touch none of these.  *)
(***************************************************************************)
Clear == {"ready", "place", "serve", "active", "draw", "expire", "create"}

Holds(r) ==
    /\ r.pc \in Clear => Open = {}
    /\ r.pc \in {"place", "serve"} /\ r.job # 0 => attemptOf[r.job] = 0
    /\ r.pc \in {"grade", "fold"} => r.ordinal \in Open /\ r.ordinal \in Ordinal
    /\ r.pc = "fold" => r.mastery = mastery

\* Every other tab is idle.
Alone(t) == \A u \in Tab \ {t} : request[u].pc = "idle"

Sole ==
    /\ \A t \in Tab : request[t].pc # "idle" => Alone(t)
    /\ \A m, n \in Open : m = n
    /\ \A j \in Job : \A m, n \in Serves(j) : m = n
    /\ \A n \in Ordinal : FoldedOnce(n)
    /\ \A t \in Tab : Holds(request[t])

Unserved == \A j \in Job : attemptOf[j] = 0 => Serves(j) = {}

OnceInv == Unserved /\ (~overlapped => Sole)

LEMMA OnceInit == Init => OnceInv
<1> SUFFICES ASSUME Init PROVE OnceInv
  OBVIOUS
<1>1. DOMAIN attempts = {}
  BY DEF Init
<1>2. Open = {} /\ \A j \in Job : Serves(j) = {}
  BY <1>1 DEF Open, Serves
<1>3. \A n \in Ordinal : FoldedOnce(n)
  BY <1>1 DEF Init, FoldedOnce
<1>4. \A t \in Tab : request[t].pc = "idle"
  BY DEF Init, Idle
<1> QED
  BY <1>2, <1>3, <1>4 DEF OnceInv, Unserved, Sole, Alone, Holds, Clear

\* A step that leaves the attempts, the mastery and every request but one alone.
LEMMA Moves ==
    ASSUME LiveInv, OnceInv, NEW t \in Tab, NEW r, Step(t, r),
           UNCHANGED <<attempts, mastery, attemptOf>>,
           ~overlapped' => ~overlapped /\ Alone(t) /\ Holds(r)
    PROVE  OnceInv'
<1>1. Open' = Open /\ \A j \in Job : Serves(j)' = Serves(j)
  BY DEF Open, Serves
<1>2. \A n \in Ordinal : FoldedOnce(n)' = FoldedOnce(n)
  BY DEF FoldedOnce
<1>3. Unserved'
  BY <1>1 DEF OnceInv, Unserved
<1>4. \A u \in Tab : request'[u] = IF u = t THEN r ELSE request[u]
  BY DEF LiveInv, TypesInv, Step
<1>5. ASSUME ~overlapped' PROVE Sole'
  <2>1. Sole /\ Alone(t) /\ Holds(r)
    BY <1>5 DEF OnceInv
  <2>2. Alone(t)'
    BY <1>4, <2>1 DEF Alone
  <2>3. \A u \in Tab : request'[u].pc # "idle" => Alone(u)'
    BY <1>4, <2>1, <2>2 DEF Alone
  <2>4. ASSUME NEW u \in Tab PROVE Holds(request[u])'
    <3>1. PICK x : x = request'[u]
      OBVIOUS
    <3>2. Holds(x)
      BY <1>4, <2>1, <3>1 DEF Sole
    <3>3. Holds(x)'
      BY <1>1, <3>2 DEF Holds
    <3> QED
      BY <3>1, <3>3
  <2> QED
    BY <1>1, <1>2, <2>1, <2>3, <2>4 DEF Sole
<1> QED
  BY <1>3, <1>5 DEF OnceInv

\* The request that is at work is the only one, as long as no two overlapped.
LEMMA SoleRequest ==
    ASSUME OnceInv, NEW t \in Tab, request[t].pc # "idle", ~overlapped
    PROVE  Alone(t) /\ Holds(request[t])
BY DEF OnceInv, Sole

LEMMA IdleHolds == Holds(Idle) /\ \A j : Holds([Idle EXCEPT !.pc = "respond", !.job = j])
BY DEF Holds, Idle, Clear

LEMMA StartsOnce ==
    ASSUME LiveInv, OnceInv, NEW t \in Tab,
           \/ \E force \in BOOLEAN : Ask(t, force)
           \/ \E n \in Ordinal : Answer(t, n)
    PROVE  OnceInv'
<1>1. PICK r : Begin(t, r) /\ Holds(r)
  <2>1. CASE \E force \in BOOLEAN : Ask(t, force)
    <3>1. PICK force \in BOOLEAN : Begin(t, [Idle EXCEPT !.pc = "resume", !.force = force])
      BY <2>1 DEF Ask
    <3>2. Holds([Idle EXCEPT !.pc = "resume", !.force = force])
      BY DEF Holds, Idle, Clear
    <3> QED
      BY <3>1, <3>2
  <2>2. CASE \E n \in Ordinal : Answer(t, n)
    <3>1. PICK n \in Ordinal : n \in Open
                               /\ Begin(t, [Idle EXCEPT !.pc = "grade", !.ordinal = n])
      BY <2>2 DEF Answer
    <3>2. Holds([Idle EXCEPT !.pc = "grade", !.ordinal = n])
      BY <3>1 DEF Holds, Idle, Clear
    <3> QED
      BY <3>1, <3>2
  <2> QED
    BY <2>1, <2>2
<1>2. Step(t, r) /\ UNCHANGED <<attempts, mastery, attemptOf>>
  BY <1>1 DEF Begin, jobVars
<1>3. ~overlapped' => ~overlapped /\ Alone(t)
  BY <1>1 DEF Begin, Alone
<1> QED
  BY <1>1, <1>2, <1>3, Moves

LEMMA ReadsOnce ==
    ASSUME LiveInv, OnceInv, NEW t \in Tab,
           \/ Resume(t) \/ FindReady(t) \/ Place(t) \/ FindActive(t) \/ Draw(t)
           \/ CompleteCurriculum(t) \/ Respond(t) \/ Grade(t)
    PROVE  OnceInv'
<1>1. /\ request[t].pc # "idle" /\ UNCHANGED <<attempts, mastery, attemptOf, overlapped>>
  BY DEF At, Resume, FindReady, Place, FindActive, Draw, CompleteCurriculum, Respond, Grade,
         Reading, jobVars, historyVars
<1>2. PICK x \in Requests : x = request[t]
  BY RequestFacts DEF LiveInv
<1>3. ~overlapped => Alone(t) /\ Holds(x)
  BY <1>1, <1>2, SoleRequest
<1>4. SUFFICES \E r : Step(t, r) /\ (Holds(x) => Holds(r))
  BY <1>1, <1>3, Moves
<1>5. CASE CompleteCurriculum(t) \/ Respond(t)
  BY <1>5, IdleHolds DEF CompleteCurriculum, Respond
<1>6. CASE Resume(t)
  <2>1. Step(t, IF Open # {} THEN Idle ELSE [x EXCEPT !.pc = "ready"])
    BY <1>2, <1>6 DEF Resume, Reading
  <2>2. Open = {} => Holds([x EXCEPT !.pc = "ready"])
    BY DEF Holds, Requests
  <2> QED
    BY <2>1, <2>2, IdleHolds
<1>7. CASE FindReady(t)
  <2>1. x.pc = "ready"
    BY <1>2, <1>7 DEF FindReady, At
  <2>2. CASE Reading(t, [x EXCEPT !.pc = "active"])
    <3>1. Holds(x) => Holds([x EXCEPT !.pc = "active"])
      BY <2>1 DEF Holds, Requests, Clear
    <3> QED
      BY <2>2, <3>1 DEF Reading
  <2>3. CASE Ready # {} /\ Reading(t, [Idle EXCEPT !.pc = "place", !.job = Min(Ready)])
    <3>1. Min(Ready) \in Ready
      <4>1. Ready \in SUBSET Nat
        BY JobsAreNumbers DEF Ready
      <4> QED
        BY <2>3, <4>1, LeastExists
    <3>2. PICK j : j = Min(Ready)
      OBVIOUS
    <3>3. attemptOf[j] = 0
      BY <3>1, <3>2 DEF Ready
    <3>4. Holds(x) => Holds([Idle EXCEPT !.pc = "place", !.job = j])
      BY <2>1, <3>3 DEF Holds, Idle, Clear
    <3> QED
      BY <2>3, <3>2, <3>4 DEF Reading
  <2> QED
    BY <1>2, <1>7, <2>2, <2>3 DEF FindReady
<1>8. CASE Place(t)
  <2>1. x.pc = "place" /\ Step(t, [x EXCEPT !.pc = "serve", !.ordinal = Len(attempts) + 1])
    BY <1>2, <1>8 DEF Place, At, Reading
  <2>2. PICK n : n = Len(attempts) + 1
    OBVIOUS
  <2>3. PICK y : y = [x EXCEPT !.pc = "serve", !.ordinal = n]
    OBVIOUS
  <2>4. y.pc = "serve" /\ y.job = x.job
    BY <2>3 DEF Requests
  <2>5. Holds(x) => Holds(y)
    BY <2>1, <2>4 DEF Holds, Clear
  <2> QED
    BY <2>1, <2>2, <2>3, <2>5
<1>9. CASE FindActive(t)
  <2>1. x.pc = "active"
    BY <1>2, <1>9 DEF FindActive, At
  <2>2. CASE Reading(t, [x EXCEPT !.pc = "draw"])
    <3>1. Holds(x) => Holds([x EXCEPT !.pc = "draw"])
      BY <2>1 DEF Holds, Requests, Clear
    <3> QED
      BY <2>2, <3>1 DEF Reading
  <2>3. ASSUME NEW j \in Active,
               Reading(t, IF waited[j] THEN [x EXCEPT !.pc = "expire", !.job = j]
                                       ELSE Wait(j, status))
        PROVE  \E r : Step(t, r) /\ (Holds(x) => Holds(r))
    <3>1. Holds(x) => Holds([x EXCEPT !.pc = "expire", !.job = j])
      BY <2>1 DEF Holds, Requests, Clear
    <3>2. Holds(Wait(j, status))
      BY IdleHolds DEF Wait
    <3> QED
      BY <2>3, <3>1, <3>2 DEF Reading
  <2> QED
    BY <1>2, <1>9, <2>2, <2>3 DEF FindActive
<1>10. CASE Draw(t)
  <2>1. x.pc = "draw"
    BY <1>2, <1>10 DEF Draw, At
  <2>2. PICK n : n = Len(attempts) + 1
    OBVIOUS
  <2>3. PICK d : Step(t, CASE d = "generate" -> [Idle EXCEPT !.pc = "create"]
                          [] d = "nothing" -> Idle
                          [] OTHER -> [Idle EXCEPT !.pc = "serve", !.ordinal = n])
    BY <1>10, <2>2 DEF Draw, Reading
  <2>4. Holds(x) => Holds([Idle EXCEPT !.pc = "create"])
    BY <2>1 DEF Holds, Idle, Clear
  <2>5. Holds(x) => Holds([Idle EXCEPT !.pc = "serve", !.ordinal = n])
    BY <2>1 DEF Holds, Idle, Clear
  <2>6. CASE d = "generate"
    BY <2>3, <2>4, <2>6
  <2>7. CASE d = "nothing"
    BY <2>3, <2>7, IdleHolds
  <2>8. CASE d # "generate" /\ d # "nothing"
    BY <2>3, <2>5, <2>8
  <2> QED
    BY <2>6, <2>7, <2>8
<1>11. CASE Grade(t)
  <2>1. x.pc = "grade" /\ Step(t, [x EXCEPT !.pc = "fold", !.mastery = mastery])
    BY <1>2, <1>11 DEF Grade, At, Reading
  <2>2. Holds(x) => Holds([x EXCEPT !.pc = "fold", !.mastery = mastery])
    BY <2>1 DEF Holds, Requests, Clear
  <2> QED
    BY <2>1, <2>2
<1> QED
  BY <1>5, <1>6, <1>7, <1>8, <1>9, <1>10, <1>11

\* An attempt opened by the only request at work, when none is open and its
\* question has none.
LEMMA ServesOnce ==
    ASSUME LiveInv, OnceInv, NEW t \in Tab, NEW r, Step(t, r), Holds(r)', NEW j \in {0} \cup Job,
           AddAttempt(j), UNCHANGED <<mastery, overlapped>>,
           ~overlapped => Alone(t) /\ Open = {} /\ (j # 0 => attemptOf[j] = 0)
    PROVE  OnceInv'
<1> DEFINE new == [job |-> j, scored |-> FALSE]
<1>1. /\ attempts \in Seq(Attempts) /\ Len(attempts) \in Nat /\ attemptOf \in [Job -> Nat]
      /\ attempts' = Append(attempts, new) /\ new \in Attempts
  BY DEF LiveInv, TypesInv, AddAttempt, Attempts
<1>2. PICK k : k = Len(attempts) + 1
  OBVIOUS
<1>3. new.job = j /\ new.scored = FALSE
  OBVIOUS
<1> HIDE DEF new
<1>4. /\ DOMAIN attempts = 1 .. Len(attempts) /\ DOMAIN attempts' = 1 .. k /\ k \in Nat \ {0}
      /\ k \notin DOMAIN attempts /\ DOMAIN attempts' = DOMAIN attempts \cup {k}
      /\ attempts'[k] = new /\ \A n \in DOMAIN attempts : attempts'[n] = attempts[n]
  BY <1>1, <1>2
<1>5. attemptOf' = IF j = 0 THEN attemptOf ELSE [attemptOf EXCEPT ![j] = k]
  BY <1>2 DEF AddAttempt
<1>6. \A i \in Job : Serves(i)' = IF i = j THEN Serves(i) \cup {k} ELSE Serves(i)
  BY <1>3, <1>4 DEF Serves
<1>7. Unserved'
  <2>1. ASSUME NEW i \in Job, attemptOf'[i] = 0 PROVE Serves(i)' = {}
    <3>1. i # j /\ attemptOf[i] = 0
      BY <1>1, <1>4, <1>5, <2>1, JobsAreNumbers
    <3> QED
      BY <1>6, <3>1 DEF OnceInv, Unserved
  <2> QED
    BY <2>1 DEF Unserved
<1>8. \A u \in Tab : request'[u] = IF u = t THEN r ELSE request[u]
  BY DEF LiveInv, TypesInv, Step
<1>9. ASSUME ~overlapped PROVE Sole'
  <2>1. Sole /\ Alone(t) /\ Open = {} /\ (j # 0 => attemptOf[j] = 0)
    BY <1>9 DEF OnceInv
  <2>2. Open' = {k}
    BY <1>3, <1>4, <2>1 DEF Open
  <2>3. ASSUME NEW i \in Job PROVE \A m, n \in Serves(i)' : m = n
    <3>1. CASE i = j
      <4>1. Serves(i) = {}
        BY <2>1, <3>1, JobsAreNumbers DEF OnceInv, Unserved
      <4> QED
        BY <1>6, <3>1, <4>1
    <3>2. CASE i # j
      BY <1>6, <2>1, <3>2 DEF Sole
    <3> QED
      BY <3>1, <3>2
  <2>4. ASSUME NEW n \in Ordinal PROVE FoldedOnce(n)'
    <3>1. FoldedOnce(n)
      BY <2>1 DEF Sole
    <3> QED
      BY <1>3, <1>4, <3>1 DEF FoldedOnce
  <2>5. Alone(t)'
    BY <1>8, <2>1 DEF Alone
  <2>6. \A u \in Tab : request'[u].pc # "idle" => Alone(u)'
    BY <1>8, <2>1, <2>5 DEF Alone
  <2>7. ASSUME NEW u \in Tab PROVE Holds(request[u])'
    <3>1. CASE u = t
      <4>1. r = request'[u]
        BY <1>8, <3>1
      <4> QED
        BY <4>1
    <3>2. CASE u # t
      <4>1. request'[u].pc = "idle"
        BY <1>8, <2>1, <3>2 DEF Alone
      <4> QED
        BY <4>1 DEF Holds, Clear
    <3> QED
      BY <3>1, <3>2
  <2> QED
    BY <2>2, <2>3, <2>4, <2>6, <2>7 DEF Sole
<1> QED
  BY <1>7, <1>9 DEF OnceInv

\* A job in flight or a new one is the answer of a request, which writes nothing
\* about attempts.
LEMMA CreatesOnce ==
    ASSUME NEW t \in Tab, NEW st, NEW w, CreateIn(t, st, w)
    PROVE  \E r : Step(t, r) /\ Holds(r) /\ Holds(r)'
<1>1. PICK j, s : Step(t, Wait(j, s))
  BY DEF CreateIn
<1>2. Holds(Wait(j, s)) /\ Holds(Wait(j, s))'
  <2>1. PICK r : r = Wait(j, s)
    OBVIOUS
  <2>2. r.pc \notin Clear \cup {"place", "serve", "grade", "fold"}
    BY <2>1 DEF Wait, Idle, Clear
  <2>3. Holds(r) /\ Holds(r)'
    BY <2>2 DEF Holds
  <2> QED
    BY <2>1, <2>3
<1> QED
  BY <1>1, <1>2

LEMMA IdleAfter == Holds(Idle)'
<1>1. Idle.pc \notin Clear \cup {"place", "serve", "grade", "fold"}
  BY DEF Idle, Clear
<1> QED
  BY <1>1 DEF Holds

LEMMA ConcludesOnce ==
    ASSUME LiveInv, OnceInv, NEW t \in Tab, request[t].pc \in {"expire", "ready"},
           NEW st, NEW w, Conclude(t, st, w), UNCHANGED <<mastery, overlapped>>
    PROVE  OnceInv'
<1>1. ~overlapped => Alone(t) /\ Open = {}
  BY SoleRequest DEF Holds, Clear
<1>2. CASE AddAttempt(0) /\ Step(t, Idle)
  BY <1>1, <1>2, IdleAfter, ServesOnce
<1>3. CASE Step(t, Idle) /\ UNCHANGED <<attempts, attemptOf>>
  BY <1>1, <1>3, IdleHolds, Moves
<1>4. CASE CreateIn(t, st, w) /\ UNCHANGED <<attempts, attemptOf>>
  BY <1>1, <1>4, CreatesOnce, Moves
<1> QED
  BY <1>2, <1>3, <1>4 DEF Conclude

LEMMA WritesOnce ==
    ASSUME LiveInv, OnceInv, NEW t \in Tab,
           Serve(t) \/ Create(t) \/ Expire(t) \/ DropRejected(t)
    PROVE  OnceInv'
<1>1. UNCHANGED <<mastery, overlapped>>
  BY DEF Serve, Create, Expire, DropRejected, historyVars
<1>2. CASE Serve(t)
  <2>1. request[t].pc = "serve" /\ Step(t, Idle) /\ request[t].job \in {0} \cup Job
    BY <1>2, RequestFacts DEF Serve, At, LiveInv
  <2>2. ~overlapped => /\ Alone(t) /\ Open = {}
                       /\ request[t].job # 0 => attemptOf[request[t].job] = 0
    BY <2>1, SoleRequest DEF Holds, Clear
  <2>3. CASE AddAttempt(request[t].job)
    BY <1>1, <2>1, <2>2, <2>3, IdleAfter, ServesOnce
  <2>4. CASE UNCHANGED <<attempts, attemptOf>>
    BY <1>1, <2>1, <2>2, <2>4, IdleHolds, Moves
  <2> QED
    BY <1>2, <2>3, <2>4 DEF Serve
<1>3. CASE Create(t)
  <2>1. /\ request[t].pc = "create" /\ CreateIn(t, status, waited)
        /\ UNCHANGED <<attempts, attemptOf>>
    BY <1>3 DEF Create, At
  <2>2. ~overlapped => Alone(t)
    BY <2>1, SoleRequest
  <2>3. PICK r : Step(t, r) /\ Holds(r)
    BY <2>1, CreatesOnce
  <2> QED
    BY <1>1, <2>1, <2>2, <2>3, Moves
<1>4. CASE Expire(t)
  <2>1. PICK st, w : request[t].pc = "expire" /\ Conclude(t, st, w)
    BY <1>4 DEF Expire, At
  <2> QED
    BY <1>1, <2>1, ConcludesOnce
<1>5. CASE DropRejected(t)
  <2>1. PICK st, w : request[t].pc = "ready" /\ Conclude(t, st, w)
    BY <1>5 DEF DropRejected, At
  <2> QED
    BY <1>1, <2>1, ConcludesOnce
<1> QED
  BY <1>2, <1>3, <1>4, <1>5

\* The only answer being graded is folded into the mastery it read, which is the
\* mastery there is.
LEMMA FoldsOnce ==
    ASSUME LiveInv, OnceInv, NEW t \in Tab, Fold(t)
    PROVE  OnceInv'
<1>1. PICK n : n = request[t].ordinal
  OBVIOUS
<1>2. /\ mastery' = [request[t].mastery EXCEPT ![n] = @ + 1]
      /\ attempts' = [attempts EXCEPT ![n].scored = TRUE]
      /\ Step(t, Idle) /\ request[t].pc = "fold"
      /\ UNCHANGED <<attemptOf, overlapped>>
  BY <1>1 DEF Fold, At, jobVars, historyVars
<1>3. /\ DOMAIN attempts' = DOMAIN attempts
      /\ \A i \in DOMAIN attempts : attempts'[i].job = attempts[i].job
  BY FoldStep
<1>4. \A j \in Job : Serves(j)' = Serves(j)
  BY <1>3 DEF Serves
<1>5. Unserved'
  BY <1>2, <1>4 DEF OnceInv, Unserved
<1>6. \A u \in Tab : request'[u] = IF u = t THEN Idle ELSE request[u]
  BY <1>2 DEF LiveInv, TypesInv, Step
<1>7. ASSUME ~overlapped PROVE Sole'
  <2>1. Sole /\ Alone(t) /\ n \in Open /\ n \in Ordinal /\ request[t].mastery = mastery
    BY <1>1, <1>2, <1>7, SoleRequest DEF OnceInv, Holds
  <2>2. mastery \in [Ordinal -> Nat] /\ attempts \in Seq(Attempts)
    BY DEF LiveInv, TypesInv
  <2>3. mastery' = [mastery EXCEPT ![n] = mastery[n] + 1]
    BY <1>2, <2>1
  <2>4. ASSUME NEW i \in DOMAIN attempts
        PROVE  attempts'[i].scored = IF i = n THEN TRUE ELSE attempts[i].scored
    <3>1. attempts[i] \in Attempts
      BY <2>2
    <3>2. attempts'[i] = IF i = n THEN [attempts[i] EXCEPT !.scored = TRUE] ELSE attempts[i]
      BY <1>2
    <3> QED
      BY <3>1, <3>2 DEF Attempts
  <2>5. n \in DOMAIN attempts /\ ~attempts[n].scored
    BY <2>1 DEF Open
  <2>6. Open' \subseteq Open
    BY <1>3, <2>4 DEF Open
  <2>7. ASSUME NEW i \in Ordinal PROVE FoldedOnce(i)'
    <3>1. FoldedOnce(i)
      BY <2>1 DEF Sole
    <3>2. CASE i = n
      <4>1. mastery[i] = 0
        BY <2>5, <3>1, <3>2 DEF FoldedOnce
      <4>2. mastery'[i] = 1
        BY <2>2, <2>3, <3>2, <4>1
      <4>3. i \in DOMAIN attempts' /\ attempts'[i].scored
        BY <1>3, <2>4, <2>5, <3>2
      <4> QED
        BY <4>2, <4>3 DEF FoldedOnce
    <3>3. CASE i # n
      <4>1. mastery'[i] = mastery[i]
        BY <2>2, <2>3, <3>3
      <4>2. i \in DOMAIN attempts' => attempts'[i].scored = attempts[i].scored
        BY <1>3, <2>4, <3>3
      <4> QED
        BY <1>3, <3>1, <4>1, <4>2 DEF FoldedOnce
    <3> QED
      BY <3>2, <3>3
  <2>8. \A u \in Tab : request'[u].pc = "idle"
    BY <1>6, <2>1 DEF Alone, Idle
  <2>9. \A u \in Tab : Holds(request[u])'
    BY <2>8 DEF Holds, Clear
  <2> QED
    BY <1>4, <2>1, <2>6, <2>7, <2>8, <2>9 DEF Sole
<1> QED
  BY <1>2, <1>5, <1>7 DEF OnceInv

\* What happens around the requests changes neither attempts nor mastery; a crash
\* ends every request.
LEMMA AroundOnce ==
    ASSUME LiveInv, OnceInv, UNCHANGED <<attempts, mastery, attemptOf, overlapped>>,
           request' = request \/ request' = [t \in Tab |-> Idle]
    PROVE  OnceInv'
<1>1. Open' = Open /\ \A j \in Job : Serves(j)' = Serves(j)
  BY DEF Open, Serves
<1>2. \A n \in Ordinal : FoldedOnce(n)' = FoldedOnce(n)
  BY DEF FoldedOnce
<1>3. Unserved'
  BY <1>1 DEF OnceInv, Unserved
<1>4. ASSUME ~overlapped PROVE Sole'
  <2>1. Sole
    BY <1>4 DEF OnceInv
  <2>2. ASSUME NEW u \in Tab PROVE Holds(request[u])' /\ (request'[u].pc # "idle" => Alone(u)')
    <3>1. CASE request' = request
      <4>1. PICK x : x = request[u]
        OBVIOUS
      <4>2. Holds(x)
        BY <2>1, <4>1 DEF Sole
      <4>3. Holds(x)'
        BY <1>1, <4>2 DEF Holds
      <4>4. Alone(u) => Alone(u)'
        BY <3>1 DEF Alone
      <4>5. request'[u] = x
        BY <3>1, <4>1
      <4>6. request'[u].pc # "idle" => Alone(u)'
        BY <2>1, <4>1, <4>4, <4>5 DEF Sole
      <4> QED
        BY <4>3, <4>5, <4>6
    <3>2. CASE request' = [t \in Tab |-> Idle]
      <4>1. request'[u].pc = "idle"
        BY <3>2 DEF Idle
      <4> QED
        BY <4>1 DEF Holds, Clear
    <3> QED
      BY <3>1, <3>2
  <2> QED
    BY <1>1, <1>2, <2>1, <2>2 DEF Sole
<1> QED
  BY <1>3, <1>4 DEF OnceInv

LEMMA OnceStep == LiveInv /\ OnceInv /\ [Next]_liveVars => OnceInv'
<1> SUFFICES ASSUME LiveInv, OnceInv, [Next]_liveVars PROVE OnceInv'
  OBVIOUS
<1>1. CASE UNCHANGED liveVars
  <2>1. UNCHANGED <<attempts, mastery, attemptOf, overlapped, request>>
    BY <1>1 DEF liveVars, jobVars, historyVars
  <2> QED
    BY <2>1, AroundOnce
<1>2. ASSUME NEW t \in Tab, (\E force \in BOOLEAN : Ask(t, force)) \/ \E n \in Ordinal : Answer(t, n)
      PROVE  OnceInv'
  BY <1>2, StartsOnce
<1>3. ASSUME NEW t \in Tab, \/ Resume(t) \/ FindReady(t) \/ Place(t) \/ FindActive(t) \/ Draw(t)
                            \/ CompleteCurriculum(t) \/ Respond(t) \/ Grade(t)
      PROVE  OnceInv'
  BY <1>3, ReadsOnce
<1>4. ASSUME NEW t \in Tab, Serve(t) \/ Create(t) \/ Expire(t) \/ DropRejected(t)
      PROVE  OnceInv'
  BY <1>4, WritesOnce
<1>5. ASSUME NEW t \in Tab, Fold(t) PROVE OnceInv'
  BY <1>5, FoldsOnce
<1>6. ASSUME NEW j \in Job, Claim(j) \/ Finish(j) \/ Fail(j) \/ FailLost(j) PROVE OnceInv'
  <2>1. UNCHANGED <<attempts, mastery, attemptOf, overlapped, request>>
    BY <1>6 DEF Claim, Finish, Fail, FailLost, Leave, historyVars
  <2> QED
    BY <2>1, AroundOnce
<1>7. ASSUME End \/ Crash \/ Recover \/ \E j \in Job : Elapse(j) \/ Reject(j) PROVE OnceInv'
  <2>1. /\ UNCHANGED <<attempts, mastery, attemptOf, overlapped>>
        /\ request' = request \/ request' = [t \in Tab |-> Idle]
    BY <1>7 DEF End, Crash, Recover, Elapse, Reject, jobVars, historyVars
  <2> QED
    BY <2>1, AroundOnce
<1> QED
  BY <1>1, <1>2, <1>3, <1>4, <1>5, <1>6, <1>7 DEF Next, Serving, Answering, Working

\* A set whose members are all equal has at most one.
LEMMA AtMostOne ==
    ASSUME NEW S, \A m, n \in S : m = n PROVE Cardinality(S) <= 1
<1>1. CASE S = {}
  BY <1>1, FS_EmptySet
<1>2. CASE S # {}
  <2>1. PICK m \in S : S = {m}
    BY <1>2
  <2>2. Cardinality({m}) = 1
    BY FS_Singleton
  <2> QED
    BY <2>1, <2>2
<1> QED
  BY <1>1, <1>2

\* As long as requests come one at a time, whatever jobs, workers, expiries and
\* crashes do: one attempt is open at most, a live question is served once at most,
\* and the mastery row holds each answer once (training/service.py).
THEOREM AloneMeansOnce == Spec => []OnceWhenAlone
<1>1. OnceInv => OnceWhenAlone
  <2> SUFFICES ASSUME Sole PROVE /\ Cardinality(Open) <= 1
                                 /\ \A j \in Job : Cardinality(Serves(j)) <= 1
                                 /\ \A n \in Ordinal : FoldedOnce(n)
    BY DEF OnceInv, OnceWhenAlone
  <2>1. Cardinality(Open) <= 1
    BY AtMostOne DEF Sole
  <2>2. \A j \in Job : Cardinality(Serves(j)) <= 1
    BY AtMostOne DEF Sole
  <2> QED
    BY <2>1, <2>2 DEF Sole
<1>2. Init => OnceInv
  BY OnceInit
<1>3. LiveInv /\ OnceInv /\ [Next]_liveVars => OnceInv'
  BY OnceStep
<1> QED
  BY <1>1, <1>2, <1>3, LiveHolds, PTL DEF Spec
=============================================================================
