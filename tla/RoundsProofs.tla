----------------------------- MODULE RoundsProofs -----------------------------
(***************************************************************************)
(* What is proved of the loop from a round of questions to the guidelines  *)
(* the next round is written with: Rounds first, then Lessons.             *)
(*                                                                         *)
(* Rounds, for every set of rounds, cells and targets, every size of a     *)
(* round and every number of crashes and lost commits.  Three invariants:  *)
(* RoundInv (who moves a round), RowsInv (a round's row against its worker *)
(* and its counters) and, for each cell, Room (what the cell may still be  *)
(* given).                                                                 *)
(***************************************************************************)
EXTENDS Rounds, Lessons, FoldLemmas, TLAPS

TypesInv ==
    /\ status \in [Round -> {"none"} \cup InFlight \cup Ended]
    /\ pc \in [Round -> PC]
    /\ faults \in Nat

(***************************************************************************)
(* The inductive invariant.  A claimed round has its worker, and a queued  *)
(* one has a request, a task or a worker: so a task that finds its round   *)
(* claimed, and gives up, leaves it to somebody.                           *)
(***************************************************************************)
Owned(r) == up /\ faults = 0 => /\ status[r] = "queued" => HasOwner(r)
                                /\ status[r] = "running" => pc[r] # "idle"

RoundInv == TypesInv /\ OneActiveRound /\ \A r \in Round : Owned(r)

-----------------------------------------------------------------------------
\* A step of one round that starts none keeps the invariant when it leaves that
\* round to somebody, or ends it.
LEMMA OneRound ==
    ASSUME RoundInv, NEW r \in Round, TypesInv', up' = up, faults' >= faults,
           \A s \in Round \ {r} : status'[s] = status[s] /\ pc'[s] = pc[s],
           \A s \in Round \ {r} : /\ s \in responding => s \in responding'
                                  /\ s \in tasks => s \in tasks',
           status'[r] \in InFlight => status[r] \in InFlight,
           Owned(r)'
    PROVE  RoundInv'
<1>1. OneActiveRound'
  BY DEF RoundInv, OneActiveRound
<1>2. ASSUME NEW s \in Round \ {r} PROVE Owned(s)'
  <2>1. Owned(s) /\ faults \in Nat /\ faults' \in Nat
    BY DEF RoundInv, TypesInv
  <2>2. faults' = 0 => faults = 0
    BY <2>1
  <2> QED
    BY <2>1, <2>2 DEF Owned, HasOwner
<1> QED
  BY <1>1, <1>2 DEF RoundInv

\* A round is inserted when none is in flight, and somebody will run it.
LEMMA StartSteps ==
    ASSUME RoundInv, NEW r \in Round, Start(r) PROVE RoundInv'
<1>1. \E s, plan : InsertRound(r, s, plan)
  BY DEF Start, SaveSetup, NextRound, RetryRound, Refill
<1>2. /\ responding \subseteq responding' /\ tasks \subseteq tasks'
      /\ r \in responding' \/ r \in tasks'
  BY DEF Start, SaveSetup, NextRound, RetryRound, Refill
<1>3. /\ \A s \in Round : status[s] \notin InFlight
      /\ UNCHANGED <<pc, up, faults>>
      /\ \E x \in {"done", "queued"} : status' = [status EXCEPT ![r] = x]
  BY <1>1 DEF InsertRound, ActiveRounds, faultVars
<1>4. TypesInv'
  BY <1>3 DEF RoundInv, TypesInv, InFlight, Ended
<1>5. OneActiveRound'
  BY <1>3 DEF RoundInv, TypesInv, OneActiveRound
<1>6. \A s \in Round : Owned(s)'
  BY <1>2, <1>3 DEF RoundInv, TypesInv, Owned, HasOwner, InFlight
<1> QED
  BY <1>4, <1>5, <1>6 DEF RoundInv

\* The request that queued a round hands it to a task, or is lost.
LEMMA RespondSteps ==
    ASSUME RoundInv, NEW r \in Round, Respond(r) \/ RespondLost(r) PROVE RoundInv'
<1>1. /\ UNCHANGED <<status, pc, up>> /\ tasks \subseteq tasks'
      /\ responding' = responding \ {r}
  BY DEF Respond, RespondLost, roundRow, faultVars
<1>2. faults \in Nat
  BY DEF RoundInv, TypesInv
<1>3. faults' \in Nat /\ faults' >= faults
  BY <1>2 DEF Respond, RespondLost, faultVars
<1>4. TypesInv'
  BY <1>1, <1>3 DEF RoundInv, TypesInv
<1>5. Owned(r)'
  <2>1. CASE Respond(r)
    BY <1>1, <2>1 DEF Respond, RoundInv, Owned, HasOwner, faultVars
  <2>2. CASE RespondLost(r)
    BY <1>2, <2>2 DEF RespondLost, Owned
  <2> QED
    BY <2>1, <2>2
<1> QED
  BY <1>1, <1>3, <1>4, <1>5, OneRound

\* A task claims its round, or leaves it alone.
LEMMA ClaimSteps ==
    ASSUME RoundInv, NEW r \in Round, Claim(r) \/ ClaimFault(r) PROVE RoundInv'
<1>1. faults \in Nat
  BY DEF RoundInv, TypesInv
<1>2. CASE Claim(r)
  <2>1. /\ UNCHANGED <<responding, up, faults>> /\ tasks' = tasks \ {r}
        /\ \/ /\ status[r] = "queued" /\ status' = [status EXCEPT ![r] = "running"]
              /\ pc' = [pc EXCEPT ![r] = "prepare"]
           \/ status[r] # "queued" /\ status' = status /\ pc' = pc
    BY <1>2 DEF Claim, faultVars
  <2>2. TypesInv'
    BY <1>1, <2>1 DEF RoundInv, TypesInv, InFlight, PC
  <2>3. Owned(r)'
    BY <2>1 DEF RoundInv, TypesInv, Owned, HasOwner
  <2>4. status'[r] \in InFlight => status[r] \in InFlight
    BY <2>1 DEF RoundInv, TypesInv, InFlight
  <2> QED
    <3>1. \A s \in Round \ {r} : status'[s] = status[s] /\ pc'[s] = pc[s]
      BY <2>1 DEF RoundInv, TypesInv
    <3>2. \A s \in Round \ {r} : /\ s \in responding => s \in responding'
                                 /\ s \in tasks => s \in tasks'
      BY <2>1
    <3>3. faults' >= faults /\ up' = up
      BY <1>1, <2>1
    <3> QED
      BY <2>2, <2>3, <2>4, <3>1, <3>2, <3>3, OneRound
<1>3. CASE ClaimFault(r)
  <2>1. /\ UNCHANGED <<status, responding, up>> /\ tasks' = tasks \ {r}
        /\ pc' = [pc EXCEPT ![r] = "fail"] /\ faults' = faults + 1
    BY <1>3 DEF ClaimFault, roundRow
  <2>2. TypesInv' /\ faults' >= faults /\ faults' # 0
    BY <1>1, <2>1 DEF RoundInv, TypesInv, PC
  <2>3. Owned(r)'
    BY <2>2 DEF Owned
  <2> QED
    BY <2>1, <2>2, <2>3, OneRound
<1> QED
  BY <1>2, <1>3

\* The worker moves on, or ends its round.
LEMMA WorkSteps ==
    ASSUME RoundInv, NEW r \in Round,
           \/ Prepare(r) \/ Check(r) \/ Target(r) \/ RunFails(r)
           \/ Close(r) \/ RecordEnd(r) \/ RecordLost(r)
    PROVE  RoundInv'
<1>1. UNCHANGED <<responding, tasks, up>>
  BY DEF Prepare, Check, Target, Produce, NoQuestion, Tried, RunFails, Goto, Close, RecordEnd,
         RecordLost, faultVars
<1>2. faults \in Nat
  BY DEF RoundInv, TypesInv
<1>3. ASSUME NEW x \in PC \ {"idle"}, pc' = [pc EXCEPT ![r] = x],
             status' = status, faults' = faults
      PROVE  RoundInv'
  <2>1. TypesInv'
    BY <1>3 DEF RoundInv, TypesInv
  <2>2. Owned(r)'
    BY <1>3 DEF RoundInv, TypesInv, Owned, HasOwner
  <2> QED
    BY <1>1, <1>2, <1>3, <2>1, <2>2, OneRound
<1>4. CASE Prepare(r) \/ Check(r) \/ RunFails(r)
  <2>1. \E x \in {"check", "stop", "try", "fail", "close"} : Goto(r, x)
    BY <1>4 DEF Prepare, Check, RunFails
  <2>2. \E x \in PC \ {"idle"} :
            pc' = [pc EXCEPT ![r] = x] /\ status' = status /\ faults' = faults
    BY <2>1 DEF Goto, roundRow, faultVars, PC
  <2> QED
    BY <1>3, <2>2
<1>5. CASE Target(r)
  <2>1. \E c \in Cell : Tried(r, c)
    BY <1>5 DEF Target, Produce, NoQuestion
  <2>2. pc' = [pc EXCEPT ![r] = "check"] /\ status' = status /\ faults' = faults
    BY <2>1 DEF Tried, faultVars
  <2> QED
    BY <1>3, <2>2 DEF PC
<1>6. CASE Close(r) \/ RecordEnd(r)
  <2>1. /\ pc' = [pc EXCEPT ![r] = "idle"] /\ faults' = faults
        /\ \E x \in Ended : status' = [status EXCEPT ![r] = x]
    BY <1>6 DEF Close, RecordEnd, Leave, Ended, faultVars
  <2>2. TypesInv'
    BY <2>1 DEF RoundInv, TypesInv, PC
  <2>3. status'[r] \in Ended
    BY <2>1 DEF RoundInv, TypesInv
  <2>4. Owned(r)' /\ status'[r] \notin InFlight
    BY <2>3 DEF Owned, Ended, InFlight
  <2> QED
    BY <1>1, <1>2, <2>1, <2>2, <2>4, OneRound
<1>7. CASE RecordLost(r)
  <2>1. pc' = [pc EXCEPT ![r] = "idle"] /\ faults' = faults + 1 /\ status' = status
    BY <1>7 DEF RecordLost, Leave, roundRow
  <2>2. TypesInv' /\ faults' >= faults /\ faults' # 0
    BY <1>2, <2>1 DEF RoundInv, TypesInv, PC
  <2>3. Owned(r)'
    BY <2>2 DEF Owned
  <2> QED
    BY <1>1, <2>1, <2>2, <2>3, OneRound
<1> QED
  BY <1>4, <1>5, <1>6, <1>7

\* Cancelling ends a queued round and leaves a running one to its worker.
LEMMA CancelStep ==
    ASSUME RoundInv, NEW r \in Round, Cancel(r) PROVE RoundInv'
<1>1. /\ UNCHANGED <<responding, tasks, pc, up, faults>>
      /\ status' = [status EXCEPT ![r] = IF status[r] = "queued" THEN "failed" ELSE status[r]]
  BY DEF Cancel, processVars, faultVars
<1>2. TypesInv'
  BY <1>1 DEF RoundInv, TypesInv, Ended
<1>3. status'[r] = IF status[r] = "queued" THEN "failed" ELSE status[r]
  BY <1>1 DEF RoundInv, TypesInv
<1>4. Owned(r)' /\ (status'[r] \in InFlight => status[r] \in InFlight)
  BY <1>1, <1>3 DEF RoundInv, Owned, HasOwner, InFlight
<1>5. faults' >= faults
  BY <1>1 DEF RoundInv, TypesInv
<1> QED
  BY <1>1, <1>2, <1>4, <1>5, OneRound

\* A process that stops owns nothing, and one that starts fails what it finds.
LEMMA RestartSteps ==
    ASSUME RoundInv, Crash \/ Recover PROVE RoundInv'
<1>1. CASE Crash
  <2>1. status' = status /\ pc' = [r \in Round |-> "idle"] /\ faults' = faults /\ ~up'
    BY <1>1 DEF Crash, roundRow
  <2> QED
    BY <2>1 DEF RoundInv, TypesInv, PC, OneActiveRound, Owned
<1>2. CASE Recover
  <2>1. /\ status' = [r \in Round |-> IF status[r] \in InFlight THEN "failed" ELSE status[r]]
        /\ pc' = pc /\ faults' = faults
    BY <1>2 DEF Recover, processVars
  <2>2. \A r \in Round : status'[r] \in {"none"} \cup InFlight \cup Ended
                         /\ status'[r] \notin InFlight
    BY <2>1 DEF RoundInv, TypesInv, InFlight, Ended
  <2>3. TypesInv'
    BY <2>1, <2>2 DEF RoundInv, TypesInv
  <2> QED
    BY <2>2, <2>3 DEF RoundInv, OneActiveRound, Owned, InFlight
<1> QED
  BY <1>1, <1>2

\* What moves the cells moves no round.
LEMMA CellSteps ==
    ASSUME RoundInv, NEW c \in Cell,
           \/ Approve(c) \/ Reject(c) \/ Reinstate(c) \/ ServeQuestion(c)
           \/ \E k \in {"pending", "fresh"} : OtherQuestion(c, k)
    PROVE  RoundInv'
<1>1. UNCHANGED <<roundRow, processVars, faultVars>>
  BY DEF Approve, Reject, Reinstate, ServeQuestion, OtherQuestion, Move
<1> QED
  BY <1>1 DEF RoundInv, TypesInv, OneActiveRound, Owned, HasOwner, roundRow, processVars,
              faultVars

LEMMA RoundInvInit == Init => RoundInv
<1> SUFFICES ASSUME Init PROVE RoundInv
  OBVIOUS
<1> QED
  BY DEF Init, RoundInv, TypesInv, PC, OneActiveRound, Owned, InFlight

LEMMA RoundInvStep == RoundInv /\ [Next]_roundVars => RoundInv'
<1> SUFFICES ASSUME RoundInv, [Next]_roundVars PROVE RoundInv'
  OBVIOUS
<1>1. CASE UNCHANGED roundVars
  BY <1>1 DEF RoundInv, TypesInv, OneActiveRound, Owned, HasOwner, roundVars, roundRow,
              processVars, faultVars
<1>2. ASSUME NEW r \in Round, Start(r) \/ Respond(r) \/ RespondLost(r) \/ Cancel(r)
      PROVE  RoundInv'
  BY <1>2, StartSteps, RespondSteps, CancelStep
<1>3. ASSUME NEW r \in Round, Worker(r) \/ ClaimFault(r) \/ RunFails(r) \/ RecordLost(r)
      PROVE  RoundInv'
  BY <1>3, ClaimSteps, WorkSteps DEF Worker
<1>4. ASSUME NEW c \in Cell,
             \/ Approve(c) \/ Reject(c) \/ Reinstate(c) \/ ServeQuestion(c)
             \/ \E k \in {"pending", "fresh"} : OtherQuestion(c, k)
      PROVE  RoundInv'
  BY <1>4, CellSteps
<1>5. CASE Crash \/ Recover
  BY <1>5, RestartSteps
<1> QED
  BY <1>1, <1>2, <1>3, <1>4, <1>5 DEF Next

THEOREM RoundsHold == Spec => []RoundInv
BY RoundInvInit, RoundInvStep, PTL DEF Spec

\* One round generates for a taxonomy at a time, whoever starts them.
THEOREM OneRoundAtATime == Spec => []OneActiveRound
<1>1. RoundInv => OneActiveRound
  BY DEF RoundInv
<1> QED
  BY <1>1, RoundsHold, PTL

\* Unless a commit was lost, a round in flight always has somebody to move it
\* while the server is up, so it cannot block its taxonomy for ever.
THEOREM NoOrphanRounds == Spec => []BlockedOnlyByFault
<1>1. RoundInv => BlockedOnlyByFault
  <2> SUFFICES ASSUME RoundInv, NEW r \in Round, up, status[r] \in InFlight, ~HasOwner(r)
               PROVE  faults > 0
    BY DEF BlockedOnlyByFault
  <2>1. Owned(r) /\ faults \in Nat
    BY DEF RoundInv, TypesInv
  <2>2. faults # 0
    BY <2>1 DEF Owned, HasOwner, InFlight
  <2> QED
    BY <2>1, <2>2
<1> QED
  BY <1>1, RoundsHold, PTL

-----------------------------------------------------------------------------
(***************************************************************************)
(* The row of a round, its worker and its counters.  Place says where the  *)
(* worker of a row may be, Tally what the row has counted by then.         *)
(***************************************************************************)
\* The columns, the loop's locals and the cells have their types.
LedgerTypes ==
    /\ setups \in Seq([Cell -> Nat])
    /\ planned \in [Round -> [Cell -> Nat]]
    /\ left \in [Round -> [Cell -> Nat]]
    /\ asked \in [Round -> BOOLEAN]
    /\ providerFailed \in [Round -> BOOLEAN]
    /\ counts \in [Round -> [Outcome -> Nat]]
    /\ stored \in [Round -> Nat]
    /\ late \in [Round -> Nat]
    /\ bank \in [Cell -> [Standing -> Nat]]
    /\ elsewhere \in [Cell -> Nat]
    /\ refills \subseteq Round /\ IsFiniteSet(refills)
    /\ setup \in [Round -> Nat]
    /\ \A r \in Round : status[r] # "none" => setup[r] \in 1..Len(setups)

LEMMA TotalNat == ASSUME NEW f \in [Cell -> Nat] PROVE Total(f) \in Nat
<1>1. DOMAIN f = Cell /\ \A c \in Cell : f[c] \in Nat
  OBVIOUS
<1> QED
  BY <1>1, SumNat, RoundAssumption DEF Total, SumFunction

LEMMA TotalNone == None \in [Cell -> Nat] /\ Total(None) = 0
<1>1. None \in [Cell -> Nat] /\ \A c \in Cell : None[c] = 0
  BY DEF None
<1>2. CASE Cell = {}
  <2>1. DOMAIN None = {}
    BY <1>2 DEF None
  <2> QED
    BY <1>1, <2>1, SumEmpty DEF Total, SumFunction
<1>3. CASE Cell # {}
  <2> DEFINE F == {T \in SUBSET Cell : SumFunctionOnSet(None, T) = 0}
  <2>1. ASSUME NEW T \in SUBSET Cell, \A V \in SUBSET T : V # T => V \in F PROVE T \in F
    <3>1. CASE T = {}
      BY <3>1, SumEmpty
    <3>2. CASE T # {}
      <4>1. IsFiniteSet(T)
        BY RoundAssumption, FS_Subset
      <4>2. /\ AnyOf(T) \in T
            /\ SumFunctionOnSet(None, T) = None[AnyOf(T)] + SumFunctionOnSet(None, T \ {AnyOf(T)})
        BY <3>2, <4>1, SumAny
      <4>3. SumFunctionOnSet(None, T \ {AnyOf(T)}) = 0
        BY <2>1, <4>2
      <4> QED
        BY <1>1, <4>2, <4>3
    <3> QED
      BY <3>1, <3>2
  <2> HIDE DEF F
  <2>2. Cell \in F
    BY <2>1, SubsetInduction, RoundAssumption
  <2>3. DOMAIN None = Cell
    BY DEF None
  <2> QED
    BY <1>1, <2>2, <2>3 DEF F, Total, SumFunction
<1> QED
  BY <1>2, <1>3

\* A target tried is one less to try.
LEMMA TotalTried ==
    ASSUME NEW f \in [Cell -> Nat], NEW c \in Cell, f[c] > 0
    PROVE  /\ [f EXCEPT ![c] = @ - 1] \in [Cell -> Nat]
           /\ Total([f EXCEPT ![c] = @ - 1]) = Total(f) - 1
<1> DEFINE g == [f EXCEPT ![c] = @ - 1]
<1>1. g \in [Cell -> Nat] /\ g[c] = f[c] - 1 /\ \A x \in Cell \ {c} : g[x] = f[x]
  OBVIOUS
<1> HIDE DEF g
<1>2. Total(g) + f[c] = Total(f) + g[c]
  BY <1>1, SumChange, RoundAssumption DEF Total
<1>3. Total(g) \in Nat /\ Total(f) \in Nat
  BY <1>1, TotalNat
<1>4. Total(g) = Total(f) - 1
  BY <1>1, <1>2, <1>3
<1> QED
  BY <1>1, <1>4 DEF g

LEMMA PlanIs ==
    ASSUME NEW d, NEW size, size \in Nat, NEW p \in Plans(d, size)
    PROVE  p \in [Cell -> Nat] /\ \A c \in Cell : p[c] <= d[c]
BY DEF Plans


\* What the ways to start a round have in common: its plan is no more than what
\* revision s is missing, or no more than the stock of the last revision wants.
AskedFor(r, s, plan) ==
    /\ up /\ InsertRound(r, s, plan)
    /\ responding' = responding \cup {r} /\ tasks' = tasks /\ refills' = refills
    /\ setups' = setups \/ \E t \in [Cell -> Nat] : setups' = Append(setups, t)
    /\ s \in 1..Len(setups')
    /\ \A c \in Cell : plan[c] <= Missing(setups'[s][c], CellCount(c))

RefilledBy(r, s, plan) ==
    /\ up /\ InsertRound(r, s, plan)
    /\ responding' = responding /\ tasks' = tasks \cup {r} /\ refills' = refills \cup {r}
    /\ setups' = setups
    /\ s \in 1..Len(setups)
    /\ \A c \in Cell : plan[c] <= StockDeficit(s)[c]

LEMMA StartIs ==
    ASSUME LedgerTypes, NEW r \in Round, Start(r)
    PROVE  \E s \in Nat, plan \in [Cell -> Nat] : AskedFor(r, s, plan) \/ RefilledBy(r, s, plan)
<1> DEFINE Goal ==
        \E s \in Nat, plan \in [Cell -> Nat] : AskedFor(r, s, plan) \/ RefilledBy(r, s, plan)
<1>1. ASSUME NEW t \in CellTargets, SaveSetup(r, t) PROVE Goal
  <2> DEFINE d == [c \in Cell |-> Missing(t[c], CellCount(c))]
             s == Len(setups) + 1
  <2>1. PICK plan \in Plans(d, RoundSize) : InsertRound(r, s, plan)
    BY <1>1 DEF SaveSetup
  <2>2. t \in [Cell -> Nat] /\ RoundSize \in Nat
    BY RoundAssumption
  <2>3. plan \in [Cell -> Nat] /\ \A c \in Cell : plan[c] <= d[c]
    BY <2>2, PlanIs
  <2>4. /\ responding' = responding \cup {r} /\ tasks' = tasks /\ refills' = refills
        /\ setups' = Append(setups, t)
    BY <1>1 DEF SaveSetup
  <2>5. s \in 1..Len(setups') /\ s \in Nat /\ setups'[s] = t
    BY <2>2, <2>4 DEF LedgerTypes
  <2>6. \A c \in Cell : plan[c] <= Missing(setups'[s][c], CellCount(c))
    BY <2>3, <2>5
  <2> HIDE DEF s, d
  <2>7. AskedFor(r, s, plan)
    BY <1>1, <2>1, <2>2, <2>4, <2>5, <2>6 DEF AskedFor, SaveSetup
  <2> QED
    BY <2>3, <2>5, <2>7
<1>2. ASSUME NEW s \in 1..Len(setups), NEW size \in Nat, NextRound(r, s, size) PROVE Goal
  <2>1. PICK plan \in Plans(CoverageDeficit(s), size) : InsertRound(r, s, plan)
    BY <1>2 DEF NextRound
  <2>2. plan \in [Cell -> Nat] /\ \A c \in Cell : plan[c] <= CoverageDeficit(s)[c]
    BY PlanIs
  <2>3. /\ responding' = responding \cup {r} /\ tasks' = tasks /\ refills' = refills
        /\ setups' = setups
    BY <1>2 DEF NextRound
  <2>4. \A c \in Cell : plan[c] <= Missing(setups'[s][c], CellCount(c))
    BY <2>2, <2>3 DEF CoverageDeficit
  <2>5. AskedFor(r, s, plan)
    BY <1>2, <2>1, <2>3, <2>4 DEF AskedFor, NextRound
  <2> QED
    BY <2>2, <2>5
<1>3. ASSUME NEW old \in Round, RetryRound(r, old) PROVE Goal
  <2>1. status[old] # "none"
    BY <1>3 DEF RetryRound
  <2>2. setup[old] \in 1..Len(setups)
    BY <2>1 DEF LedgerTypes
  <2>3. Total(planned[old]) \in Nat
    BY TotalNat DEF LedgerTypes
  <2> QED
    BY <1>2, <1>3, <2>2, <2>3 DEF RetryRound
<1>4. CASE Refill(r)
  <2> DEFINE s == Len(setups)
  <2>1. PICK plan \in Plans(StockDeficit(s), RoundSize) : InsertRound(r, s, plan)
    BY <1>4 DEF Refill
  <2>2. plan \in [Cell -> Nat] /\ \A c \in Cell : plan[c] <= StockDeficit(s)[c]
    BY PlanIs, RoundAssumption
  <2>3. s \in 1..Len(setups) /\ s \in Nat
    BY <1>4 DEF Refill, LedgerTypes
  <2> HIDE DEF s
  <2>4. RefilledBy(r, s, plan)
    BY <1>4, <2>1, <2>2, <2>3 DEF Refill, RefilledBy
  <2> QED
    BY <2>2, <2>3, <2>4
<1>5. RoundSize \in Nat
  BY RoundAssumption
<1> QED
  BY <1>1, <1>2, <1>3, <1>4, <1>5 DEF Start

Started(r) == r \in responding \cup tasks

Place(r) ==
    /\ pc[r] \in {"prepare", "check", "try", "close", "stop"} => status[r] = "running"
    /\ pc[r] = "fail" => status[r] \in {"queued", "running", "failed"}
    /\ Started(r) => pc[r] = "idle" /\ status[r] \in {"queued", "failed", "done"}
    /\ ~(r \in responding /\ r \in tasks)
    /\ ~up => pc[r] = "idle" /\ ~Started(r)
    /\ pc[r] = "stop" => asked[r]

Tally(r) ==
    /\ counts[r]["produced"] = stored[r]
    /\ status[r] = "none" => Counted(r) = 0 /\ late[r] = 0
    /\ Started(r) /\ status[r] = "queued" =>
           Counted(r) = 0 /\ late[r] = 0 /\ left[r] = planned[r]
    /\ pc[r] \in {"prepare", "check", "try"} => Counted(r) + Total(left[r]) = Total(planned[r])
    /\ pc[r] = "close" => /\ Counted(r) = Total(planned[r])
                          /\ stored[r] = 0 => ~providerFailed[r]
    /\ status[r] = "done" => Counted(r) = Total(planned[r])
    /\ pc[r] \in {"prepare", "try"} => late[r] = 0
    /\ late[r] # 0 => asked[r]

\* Everything that Place and Tally look at.
Same(r) ==
    /\ status'[r] = status[r] /\ pc'[r] = pc[r] /\ asked'[r] = asked[r]
    /\ counts'[r] = counts[r] /\ stored'[r] = stored[r] /\ late'[r] = late[r]
    /\ left'[r] = left[r] /\ planned'[r] = planned[r] /\ providerFailed'[r] = providerFailed[r]
    /\ (r \in responding)' = (r \in responding) /\ (r \in tasks)' = (r \in tasks)

LEMMA SameKept ==
    ASSUME NEW r \in Round, Same(r), up' = up, Place(r) /\ Tally(r)
    PROVE  Place(r)' /\ Tally(r)'
<1>1. Place(r)'
  BY DEF Same, Place, Started
<1>2. Tally(r)'
  BY DEF Same, Tally, Started, Counted
<1> QED
  BY <1>1, <1>2

RowsInv == TypesInv /\ LedgerTypes /\ \A r \in Round : Place(r) /\ Tally(r)

\* A step of one round keeps the rows if it keeps the types and that round's row.
LEMMA OneRow ==
    ASSUME RowsInv, NEW r \in Round, TypesInv', LedgerTypes', up' = up,
           \A s \in Round \ {r} : Same(s), Place(r)', Tally(r)'
    PROVE  RowsInv'
<1>1. \A s \in Round \ {r} : Place(s)' /\ Tally(s)'
  BY SameKept DEF RowsInv
<1> QED
  BY <1>1 DEF RowsInv

LEMMA RowsStart == ASSUME RowsInv, NEW r \in Round, Start(r) PROVE RowsInv'
<1>1. PICK s \in Nat, plan \in [Cell -> Nat] : AskedFor(r, s, plan) \/ RefilledBy(r, s, plan)
  BY StartIs DEF RowsInv
<1> DEFINE x == IF plan = None THEN "done" ELSE "queued"
<1>2. /\ up /\ status[r] = "none"
      /\ status' = [status EXCEPT ![r] = x] /\ setup' = [setup EXCEPT ![r] = s]
      /\ planned' = [planned EXCEPT ![r] = plan] /\ left' = [left EXCEPT ![r] = plan]
      /\ UNCHANGED <<asked, counts, pc, providerFailed, bank, stored, late, elsewhere>>
      /\ UNCHANGED <<up, crashes, faults>>
  BY <1>1 DEF AskedFor, RefilledBy, InsertRound, faultVars
<1>3. /\ responding \subseteq responding' /\ responding' \subseteq responding \cup {r}
      /\ tasks \subseteq tasks' /\ tasks' \subseteq tasks \cup {r}
      /\ refills' = refills \/ refills' = refills \cup {r}
      /\ responding' = responding \/ tasks' = tasks
  BY <1>1 DEF AskedFor, RefilledBy
<1>4. TypesInv'
  BY <1>2 DEF RowsInv, TypesInv, InFlight, Ended
<1>5. LedgerTypes'
  <2>1. setups' \in Seq([Cell -> Nat]) /\ Len(setups') >= Len(setups) /\ s \in 1..Len(setups')
    <3>1. setups \in Seq([Cell -> Nat])
      BY DEF RowsInv, LedgerTypes
    <3>2. setups' = setups \/ \E t \in [Cell -> Nat] : setups' = Append(setups, t)
      BY <1>1 DEF AskedFor, RefilledBy
    <3>3. s \in 1..Len(setups')
      BY <1>1 DEF AskedFor, RefilledBy
    <3>4. ASSUME NEW t \in [Cell -> Nat], setups' = Append(setups, t)
          PROVE  setups' \in Seq([Cell -> Nat]) /\ Len(setups') >= Len(setups)
      BY <3>1, <3>4
    <3> QED
      BY <3>1, <3>2, <3>3, <3>4
  <2>2. IsFiniteSet(refills') /\ refills' \subseteq Round
    <3>1. IsFiniteSet(refills) /\ refills \subseteq Round
      BY DEF RowsInv, LedgerTypes
    <3>2. IsFiniteSet(refills \cup {r})
      BY <3>1, FS_AddElement
    <3> QED
      BY <1>3, <3>1, <3>2
  <2>3. /\ planned' \in [Round -> [Cell -> Nat]] /\ left' \in [Round -> [Cell -> Nat]]
        /\ setup' \in [Round -> Nat]
    BY <1>2 DEF RowsInv, LedgerTypes
  <2>4. \A q \in Round : status'[q] # "none" => setup'[q] \in 1..Len(setups')
    BY <1>2, <2>1 DEF RowsInv, LedgerTypes, TypesInv
  <2> QED
    BY <1>2, <2>1, <2>2, <2>3, <2>4 DEF RowsInv, LedgerTypes
<1>6. \A q \in Round \ {r} : Same(q)
  BY <1>2, <1>3 DEF Same, RowsInv, TypesInv, LedgerTypes
<1>7. status'[r] = x /\ planned'[r] = plan /\ left'[r] = plan /\ pc'[r] = "idle"
  <2>1. status'[r] = x /\ planned'[r] = plan /\ left'[r] = plan
    BY <1>2 DEF RowsInv, TypesInv, LedgerTypes
  <2>2. Place(r) /\ pc[r] \in PC
    BY DEF RowsInv, TypesInv
  <2>3. pc[r] = "idle"
    BY <1>2, <2>2 DEF Place, PC
  <2> QED
    BY <1>2, <2>1, <2>3
<1>8. Place(r)'
  <2>1. ~Started(r)
    BY <1>2 DEF RowsInv, Place
  <2> QED
    BY <1>2, <1>3, <1>7, <2>1 DEF Place, Started
<1>9. Tally(r)'
  <2>1. Counted(r)' = 0 /\ late'[r] = 0 /\ counts'[r]["produced"] = stored'[r]
    BY <1>2 DEF RowsInv, Tally, Counted
  <2>2. plan = None => Total(plan) = 0
    BY TotalNone
  <2> QED
    BY <1>7, <2>1, <2>2 DEF Tally
<1> QED
  BY <1>2, <1>4, <1>5, <1>6, <1>8, <1>9, OneRow

LEMMA RowsRespond ==
    ASSUME RowsInv, NEW r \in Round, Respond(r) \/ RespondLost(r) PROVE RowsInv'
<1>1. /\ r \in responding /\ responding' = responding \ {r}
      /\ tasks' = tasks \/ tasks' = tasks \cup {r}
      /\ UNCHANGED <<setups, status, setup, planned, asked, counts, pc, left, providerFailed, bank,
                     stored, late, elsewhere, refills, up>>
  BY DEF Respond, RespondLost, roundRow, historyVars, faultVars
<1>2. TypesInv'
  BY <1>1 DEF Respond, RespondLost, faultVars, RowsInv, TypesInv
<1>3. LedgerTypes'
  BY <1>1 DEF RowsInv, LedgerTypes
<1>4. \A q \in Round \ {r} : Same(q)
  BY <1>1 DEF Same
<1>5. Place(r)'
  BY <1>1 DEF RowsInv, Place, Started
<1>6. Tally(r)'
  BY <1>1 DEF RowsInv, Tally, Started, Counted
<1> QED
  BY <1>1, <1>2, <1>3, <1>4, <1>5, <1>6, OneRow

LEMMA RowsClaim ==
    ASSUME RowsInv, NEW r \in Round, Claim(r) \/ ClaimFault(r) PROVE RowsInv'
<1>1. /\ r \in tasks /\ tasks' = tasks \ {r}
      /\ UNCHANGED <<setups, setup, planned, asked, counts, responding, left, providerFailed, bank,
                     stored, late, elsewhere, refills, up>>
      /\ \/ /\ status[r] = "queued" /\ status' = [status EXCEPT ![r] = "running"]
            /\ pc' = [pc EXCEPT ![r] = "prepare"]
         \/ status[r] # "queued" /\ status' = status /\ pc' = pc
         \/ status[r] = "queued" /\ status' = status /\ pc' = [pc EXCEPT ![r] = "fail"]
  BY DEF Claim, ClaimFault, roundRow, historyVars, faultVars
<1>2. TypesInv'
  BY <1>1 DEF Claim, ClaimFault, faultVars, RowsInv, TypesInv, PC, InFlight
<1>3. LedgerTypes'
  BY <1>1 DEF RowsInv, LedgerTypes, TypesInv
<1>4. \A q \in Round \ {r} : Same(q)
  BY <1>1 DEF Same, RowsInv, TypesInv
<1>5. Place(r)'
  BY <1>1 DEF RowsInv, Place, Started, TypesInv
<1>6. Tally(r)'
  <2>1. Total(planned[r]) \in Nat
    BY TotalNat DEF RowsInv, LedgerTypes
  <2> QED
    BY <1>1, <2>1 DEF RowsInv, Tally, Place, Started, Counted, TypesInv
<1> QED
  BY <1>1, <1>2, <1>3, <1>4, <1>5, <1>6, OneRow

LEMMA RowsMove ==
    ASSUME RowsInv, NEW r \in Round, Prepare(r) \/ Check(r) \/ RunFails(r) PROVE RowsInv'
<1>1. UNCHANGED <<setups, status, setup, planned, asked, counts, responding, tasks, left,
                  providerFailed, bank, stored, late, elsewhere, refills, up, faults>>
  BY DEF Prepare, Check, RunFails, Goto, roundRow, historyVars, faultVars
<1>2. \/ /\ pc[r] = "prepare" /\ pc' = [pc EXCEPT ![r] = "check"]
      \/ /\ pc[r] = "check" /\ asked[r] /\ pc' = [pc EXCEPT ![r] = "stop"]
      \/ /\ pc[r] = "check" /\ ~asked[r] /\ pc' = [pc EXCEPT ![r] = "try"]
      \/ /\ pc[r] = "check" /\ left[r] = None /\ pc' = [pc EXCEPT ![r] = "close"]
         /\ counts[r]["produced"] = 0 => ~providerFailed[r]
      \/ /\ pc[r] \in {"prepare", "check", "try", "close"} /\ pc' = [pc EXCEPT ![r] = "fail"]
  BY DEF Prepare, Check, RunFails, Goto
<1>3. TypesInv'
  BY <1>1, <1>2 DEF RowsInv, TypesInv, PC
<1>4. LedgerTypes'
  BY <1>1 DEF RowsInv, LedgerTypes
<1>5. \A q \in Round \ {r} : Same(q)
  BY <1>1, <1>2 DEF Same, RowsInv, TypesInv
<1>6. Place(r)'
  BY <1>1, <1>2 DEF RowsInv, Place, Started, TypesInv
<1>7. Tally(r)'
  <2>1. Total(planned[r]) \in Nat /\ Total(None) = 0 /\ Counted(r) \in Nat
    BY TotalNat, TotalNone DEF RowsInv, LedgerTypes, Counted, Outcome
  <2> QED
    BY <1>1, <1>2, <2>1 DEF RowsInv, Tally, Place, Started, Counted, TypesInv
<1> QED
  BY <1>1, <1>3, <1>4, <1>5, <1>6, <1>7, OneRow

LEMMA RowsTarget == ASSUME RowsInv, NEW r \in Round, Target(r) PROVE RowsInv'
<1>1. PICK c \in Cell : \/ \E k \in {"pending", "fresh"} : Produce(r, c, k)
                        \/ \E failed \in BOOLEAN : NoQuestion(r, c, failed)
  BY DEF Target
<1>2. /\ pc[r] = "try" /\ left[r][c] > 0
      /\ left' = [left EXCEPT ![r] = [left[r] EXCEPT ![c] = left[r][c] - 1]]
      /\ late' = IF asked[r] THEN [late EXCEPT ![r] = late[r] + 1] ELSE late
      /\ pc' = [pc EXCEPT ![r] = "check"]
      /\ UNCHANGED <<setups, status, setup, planned, asked, responding, tasks, elsewhere, refills,
                     up, faults>>
  BY <1>1 DEF Produce, NoQuestion, Tried, faultVars
<1>3. \E o \in Outcome :
          counts' = [counts EXCEPT ![r] = [counts[r] EXCEPT ![o] = counts[r][o] + 1]]
          /\ stored' = IF o = "produced" THEN [stored EXCEPT ![r] = stored[r] + 1] ELSE stored
  BY <1>1 DEF Produce, NoQuestion, Outcome
<1>4. bank' \in [Cell -> [Standing -> Nat]] /\ providerFailed' \in [Round -> BOOLEAN]
      /\ \A q \in Round \ {r} : providerFailed'[q] = providerFailed[q]
  <2>1. bank \in [Cell -> [Standing -> Nat]] /\ providerFailed \in [Round -> BOOLEAN]
    BY DEF RowsInv, LedgerTypes
  <2>2. ASSUME NEW k \in {"pending", "fresh"}, Produce(r, c, k)
        PROVE  bank' \in [Cell -> [Standing -> Nat]] /\ providerFailed' = providerFailed
    BY <2>1, <2>2 DEF Produce, Standing
  <2>3. ASSUME NEW failed \in BOOLEAN, NoQuestion(r, c, failed)
        PROVE  /\ bank' = bank
               /\ providerFailed' = [providerFailed EXCEPT ![r] = providerFailed[r] \/ failed]
    BY <2>3 DEF NoQuestion
  <2>4. \A failed \in BOOLEAN : (providerFailed[r] \/ failed) \in BOOLEAN
    OBVIOUS
  <2> QED
    BY <1>1, <2>1, <2>2, <2>3, <2>4
<1>5. TypesInv'
  BY <1>2 DEF RowsInv, TypesInv, PC
<1>6. /\ left'[r] \in [Cell -> Nat] /\ Total(left'[r]) = Total(left[r]) - 1
      /\ left' \in [Round -> [Cell -> Nat]]
  <2>1. left[r] \in [Cell -> Nat] /\ left \in [Round -> [Cell -> Nat]]
    BY DEF RowsInv, LedgerTypes
  <2> DEFINE g == [left[r] EXCEPT ![c] = @ - 1]
  <2>2. g \in [Cell -> Nat] /\ Total(g) = Total(left[r]) - 1
    BY <1>2, <2>1, TotalTried
  <2>3. left' = [left EXCEPT ![r] = g]
    BY <1>2
  <2> HIDE DEF g
  <2> QED
    BY <2>1, <2>2, <2>3
<1>7. /\ counts' \in [Round -> [Outcome -> Nat]] /\ Counted(r)' = Counted(r) + 1
      /\ stored' \in [Round -> Nat] /\ counts'[r]["produced"] = stored'[r]
      /\ \A q \in Round \ {r} : counts'[q] = counts[q] /\ stored'[q] = stored[q]
  <2>1. /\ counts[r] \in [Outcome -> Nat] /\ counts \in [Round -> [Outcome -> Nat]]
        /\ stored \in [Round -> Nat] /\ counts[r]["produced"] = stored[r]
    BY DEF RowsInv, LedgerTypes, Tally
  <2> QED
    BY <1>3, <2>1 DEF Counted, Outcome
<1>8. late' \in [Round -> Nat] /\ (late'[r] # 0 => asked'[r])
      /\ \A q \in Round \ {r} : late'[q] = late[q]
  BY <1>2 DEF RowsInv, LedgerTypes, Tally
<1>9. LedgerTypes'
  BY <1>2, <1>4, <1>6, <1>7, <1>8 DEF RowsInv, LedgerTypes
<1>10. \A q \in Round \ {r} : Same(q)
  BY <1>2, <1>4, <1>7, <1>8 DEF Same, RowsInv, TypesInv, LedgerTypes
<1>11. Place(r)'
  BY <1>2 DEF RowsInv, Place, Started, TypesInv
<1>12. Tally(r)'
  <2>1. /\ Total(left[r]) \in Nat /\ Counted(r) \in Nat
        /\ Counted(r) + Total(left[r]) = Total(planned[r])
    BY <1>2, TotalNat DEF RowsInv, LedgerTypes, Tally, Counted, Outcome
  <2>2. Counted(r)' + Total(left'[r]) = Total(planned'[r])
    BY <1>2, <1>6, <1>7, <2>1
  <2>3. pc'[r] = "check" /\ status'[r] = "running" /\ ~Started(r)'
    BY <1>2 DEF RowsInv, Place, Started, TypesInv
  <2> QED
    BY <1>7, <1>8, <2>2, <2>3 DEF Tally
<1> QED
  BY <1>2, <1>5, <1>9, <1>10, <1>11, <1>12, OneRow

LEMMA RowsEnd ==
    ASSUME RowsInv, NEW r \in Round, Close(r) \/ RecordEnd(r) \/ RecordLost(r) PROVE RowsInv'
<1>1. /\ UNCHANGED <<setups, setup, planned, asked, counts, responding, tasks, bank, stored, late,
                     elsewhere, refills, up>>
      /\ pc' = [pc EXCEPT ![r] = "idle"] /\ left' = [left EXCEPT ![r] = None]
      /\ providerFailed' = [providerFailed EXCEPT ![r] = FALSE]
      /\ \/ pc[r] = "close" /\ status' = [status EXCEPT ![r] = "done"]
         \/ pc[r] \in {"stop", "fail"} /\ status' = [status EXCEPT ![r] = "failed"]
         \/ pc[r] \in {"stop", "fail"} /\ status' = status
  BY DEF Close, RecordEnd, RecordLost, Leave, roundRow, historyVars, faultVars
<1>2. TypesInv'
  BY <1>1 DEF Close, RecordEnd, RecordLost, faultVars, RowsInv, TypesInv, PC, Ended
<1>3. LedgerTypes'
  <2>1. left' \in [Round -> [Cell -> Nat]]
    BY <1>1, TotalNone DEF RowsInv, LedgerTypes
  <2>2. \A q \in Round : status'[q] # "none" => setup'[q] \in 1..Len(setups')
    BY <1>1 DEF RowsInv, LedgerTypes, Place, TypesInv
  <2> QED
    BY <1>1, <2>1, <2>2 DEF RowsInv, LedgerTypes
<1>4. \A q \in Round \ {r} : Same(q)
  BY <1>1 DEF Same, RowsInv, TypesInv, LedgerTypes
<1>5. Place(r)'
  BY <1>1 DEF RowsInv, Place, Started, TypesInv
<1>6. Tally(r)'
  BY <1>1 DEF RowsInv, Tally, Place, Started, Counted, TypesInv
<1> QED
  BY <1>1, <1>2, <1>3, <1>4, <1>5, <1>6, OneRow

LEMMA RowsCancel == ASSUME RowsInv, NEW r \in Round, Cancel(r) PROVE RowsInv'
<1>1. /\ UNCHANGED <<setups, setup, planned, counts, responding, tasks, pc, left, providerFailed,
                     bank, stored, late, elsewhere, refills, up, faults>>
      /\ status[r] \in InFlight
      /\ asked' = [asked EXCEPT ![r] = TRUE]
      /\ status' = [status EXCEPT ![r] = IF status[r] = "queued" THEN "failed" ELSE status[r]]
  BY DEF Cancel, processVars, historyVars, faultVars
<1>2. TypesInv'
  BY <1>1 DEF RowsInv, TypesInv, Ended
<1>3. LedgerTypes'
  BY <1>1 DEF RowsInv, LedgerTypes, TypesInv, InFlight
<1>4. \A q \in Round \ {r} : Same(q)
  BY <1>1 DEF Same, RowsInv, TypesInv, LedgerTypes
<1>5. Place(r)'
  BY <1>1 DEF RowsInv, Place, Started, TypesInv, LedgerTypes
<1>6. Tally(r)'
  BY <1>1 DEF RowsInv, Tally, Place, Started, Counted, TypesInv, LedgerTypes, InFlight
<1> QED
  BY <1>1, <1>2, <1>3, <1>4, <1>5, <1>6, OneRow

LEMMA RowsRestart == ASSUME RowsInv, Crash \/ Recover PROVE RowsInv'
<1>1. CASE Crash
  <2>1. /\ ~up' /\ responding' = {} /\ tasks' = {}
        /\ pc' = [r \in Round |-> "idle"] /\ left' = [r \in Round |-> None]
        /\ providerFailed' = [r \in Round |-> FALSE]
        /\ UNCHANGED <<setups, status, setup, planned, asked, counts, bank, stored, late,
                       elsewhere, refills, faults>>
    BY <1>1 DEF Crash, roundRow, historyVars
  <2>2. TypesInv'
    BY <2>1 DEF RowsInv, TypesInv, PC
  <2>3. LedgerTypes'
    <3>1. left' \in [Round -> [Cell -> Nat]] /\ providerFailed' \in [Round -> BOOLEAN]
      BY <2>1, TotalNone
    <3> QED
      BY <2>1, <3>1 DEF RowsInv, LedgerTypes
  <2>4. ASSUME NEW r \in Round PROVE Place(r)' /\ Tally(r)'
    <3>1. pc'[r] = "idle" /\ ~Started(r)'
      BY <2>1 DEF Started
    <3>2. Place(r)'
      BY <2>1, <3>1 DEF RowsInv, Place, Started
    <3>3. Tally(r)'
      BY <2>1, <3>1 DEF RowsInv, Tally, Counted
    <3> QED
      BY <3>2, <3>3
  <2> QED
    BY <2>2, <2>3, <2>4 DEF RowsInv
<1>2. CASE Recover
  <2>1. /\ ~up /\ up'
        /\ status' = [r \in Round |-> IF status[r] \in InFlight THEN "failed" ELSE status[r]]
        /\ UNCHANGED <<setups, setup, planned, asked, counts, responding, tasks, pc, left,
                       providerFailed, bank, stored, late, elsewhere, refills, faults>>
    BY <1>2 DEF Recover, processVars, historyVars
  <2>2. TypesInv'
    BY <2>1 DEF RowsInv, TypesInv, Ended
  <2>3. LedgerTypes'
    BY <2>1 DEF RowsInv, LedgerTypes, InFlight
  <2>4. ASSUME NEW r \in Round PROVE Place(r)' /\ Tally(r)'
    <3>1. pc[r] = "idle" /\ ~Started(r)
      BY <2>1 DEF RowsInv, Place
    <3>2. status'[r] = IF status[r] \in InFlight THEN "failed" ELSE status[r]
      BY <2>1
    <3>3. Place(r)'
      BY <2>1, <3>1 DEF RowsInv, Place, Started
    <3>4. Tally(r)'
      BY <2>1, <3>1, <3>2 DEF RowsInv, Tally, Counted, Started, InFlight
    <3> QED
      BY <3>3, <3>4
  <2> QED
    BY <2>2, <2>3, <2>4 DEF RowsInv
<1> QED
  BY <1>1, <1>2

\* What moves the cells moves no round's row.
CellStep(c) ==
    \/ Approve(c) \/ Reject(c) \/ Reinstate(c) \/ ServeQuestion(c)
    \/ \E k \in {"pending", "fresh"} : OtherQuestion(c, k)

LEMMA RowsCell == ASSUME RowsInv, NEW c \in Cell, CellStep(c) PROVE RowsInv'
<1>1. UNCHANGED <<setups, status, setup, planned, asked, counts, responding, tasks, pc, left,
                  providerFailed, stored, late, refills, up, faults>>
  BY DEF CellStep, Approve, Reject, Reinstate, ServeQuestion, OtherQuestion, Move, roundRow,
         processVars, faultVars
<1>2. bank' \in [Cell -> [Standing -> Nat]] /\ elsewhere' \in [Cell -> Nat]
  <2>1. bank \in [Cell -> [Standing -> Nat]] /\ elsewhere \in [Cell -> Nat]
    BY DEF RowsInv, LedgerTypes
  <2>2. ASSUME NEW from \in Standing, NEW to \in Standing, Move(c, from, to)
        PROVE  bank' \in [Cell -> [Standing -> Nat]]
    <3>1. bank[c] \in [Standing -> Nat] /\ bank[c][from] > 0
      BY <2>1, <2>2 DEF Move
    <3> DEFINE one == [bank[c] EXCEPT ![from] = @ - 1]
               two == [one EXCEPT ![to] = @ + 1]
    <3>2. one \in [Standing -> Nat]
      BY <3>1
    <3> HIDE DEF one
    <3>3. two \in [Standing -> Nat]
      BY <3>2
    <3> USE DEF one
    <3>4. bank' = [bank EXCEPT ![c] = two]
      BY <2>1, <2>2 DEF Move
    <3> HIDE DEF two
    <3> QED
      BY <2>1, <3>3, <3>4
  <2>3. CASE \E k \in {"pending", "fresh"} : OtherQuestion(c, k)
    BY <2>1, <2>3 DEF OtherQuestion, Standing
  <2>4. CASE Approve(c) \/ Reject(c) \/ Reinstate(c) \/ ServeQuestion(c)
    BY <2>1, <2>2, <2>4 DEF Approve, Reject, Reinstate, ServeQuestion, Standing
  <2> QED
    BY <2>3, <2>4 DEF CellStep
<1>3. TypesInv' /\ LedgerTypes'
  BY <1>1, <1>2 DEF RowsInv, TypesInv, LedgerTypes
<1>4. \A r \in Round : Same(r)
  BY <1>1 DEF Same
<1> QED
  BY <1>1, <1>3, <1>4, SameKept DEF RowsInv

-----------------------------------------------------------------------------
(* What a cell may still be given. *)

\* The highest target cell c was given, what refills planned for it, and the
\* most that rounds may bring it to.
HighestOf(q, c) == Max({q[s][c] : s \in DOMAIN q} \cup {0})
RefilledOf(p, S, c) == SumFunctionOnSet([r \in S |-> p[r][c]], S)
Limit(c) == HighestOf(setups, c) + RefilledOf(planned, refills, c) + elsewhere[c]

\* Questions of c that a student who has not seen them may get.
Stock(c) == bank[c]["fresh"] + bank[c]["pending"]

Room(c) ==
    /\ CellCount(c) <= Limit(c)
    /\ \A r \in Round : status[r] \in InFlight => CellCount(c) + left[r][c] <= Limit(c)
    /\ \A r \in refills : /\ status[r] # "none"
                          /\ status[r] \in InFlight /\ planned[r][c] > 0
                             => Stock(c) + left[r][c] <= UnseenTarget + elsewhere[c]

LEMMA HighestIs ==
    ASSUME NEW q \in Seq([Cell -> Nat]), NEW c \in Cell
    PROVE  /\ HighestOf(q, c) \in Nat
           /\ \A s \in 1..Len(q) : q[s][c] <= HighestOf(q, c)
           /\ HighestOf(q, c) \in {q[s][c] : s \in 1..Len(q)} \cup {0}
<1> DEFINE n == Len(q)
           V == {q[s][c] : s \in 1..n}
           f == [s \in 1..n |-> q[s][c]]
<1>1. n \in Nat /\ DOMAIN q = 1..n /\ \A s \in 1..n : q[s][c] \in Nat
  OBVIOUS
<1>2. IsFiniteSet(V)
  <2>1. f \in Surjection(1..n, V)
    BY DEF Surjection
  <2>2. IsFiniteSet(1..n)
    BY <1>1, FS_Interval
  <2> QED
    BY <2>1, <2>2, FS_Surjection
<1>3. IsFiniteSet(V \cup {0})
  BY <1>2, FS_AddElement
<1>4. V \cup {0} \subseteq Nat /\ V \cup {0} # {}
  BY <1>1
<1>5. HighestOf(q, c) = Max(V \cup {0})
  BY <1>1 DEF HighestOf
<1>6. Max(V \cup {0}) \in V \cup {0} /\ \A x \in V \cup {0} : x <= Max(V \cup {0})
  BY <1>3, <1>4, FiniteMax
<1> QED
  BY <1>4, <1>5, <1>6

\* A revision saved later lowers the highest target of no cell.
LEMMA HighestGrows ==
    ASSUME NEW q \in Seq([Cell -> Nat]), NEW t \in [Cell -> Nat], NEW c \in Cell
    PROVE  HighestOf(Append(q, t), c) >= HighestOf(q, c)
<1> DEFINE a == Append(q, t)
<1>1. a \in Seq([Cell -> Nat])
  OBVIOUS
<1>2. \A s \in 1..Len(q) : s \in 1..Len(a) /\ a[s] = q[s]
  OBVIOUS
<1> HIDE DEF a
<1>3. HighestOf(a, c) \in Nat /\ \A s \in 1..Len(a) : a[s][c] <= HighestOf(a, c)
  BY <1>1, HighestIs
<1>4. HighestOf(q, c) \in Nat /\ HighestOf(q, c) \in {q[s][c] : s \in 1..Len(q)} \cup {0}
  BY HighestIs
<1>5. HighestOf(a, c) >= HighestOf(q, c)
  BY <1>2, <1>3, <1>4
<1> QED
  BY <1>5 DEF a

LEMMA RefilledNat ==
    ASSUME NEW p \in [Round -> [Cell -> Nat]], NEW S \in SUBSET Round, IsFiniteSet(S),
           NEW c \in Cell
    PROVE  RefilledOf(p, S, c) \in Nat
<1> DEFINE f == [r \in S |-> p[r][c]]
<1>1. \A r \in S : f[r] \in Nat
  OBVIOUS
<1> HIDE DEF f
<1>2. SumFunctionOnSet(f, S) \in Nat
  BY <1>1, SumNat
<1> QED
  BY <1>2 DEF f, RefilledOf

\* What refills planned is not changed by the plan of a round that is none.
LEMMA RefilledSame ==
    ASSUME NEW p \in [Round -> [Cell -> Nat]], NEW S \in SUBSET Round, IsFiniteSet(S),
           NEW c \in Cell, NEW r \in Round \ S, NEW plan \in [Cell -> Nat]
    PROVE  RefilledOf([p EXCEPT ![r] = plan], S, c) = RefilledOf(p, S, c)
<1> DEFINE f == [q \in S |-> p[q][c]]
           g == [q \in S |-> [p EXCEPT ![r] = plan][q][c]]
<1>1. \A q \in S : g[q] = f[q]
  OBVIOUS
<1> HIDE DEF f, g
<1>2. SumFunctionOnSet(g, S) = SumFunctionOnSet(f, S)
  BY <1>1, SumSame
<1> QED
  BY <1>2 DEF f, g, RefilledOf

\* One more refill adds what it plans.
LEMMA RefilledMore ==
    ASSUME NEW p \in [Round -> [Cell -> Nat]], NEW S \in SUBSET Round, IsFiniteSet(S),
           NEW c \in Cell, NEW r \in Round \ S, NEW plan \in [Cell -> Nat]
    PROVE  RefilledOf([p EXCEPT ![r] = plan], S \cup {r}, c) = RefilledOf(p, S, c) + plan[c]
<1> DEFINE T == S \cup {r}
           f == [q \in S |-> p[q][c]]
           g == [q \in T |-> [p EXCEPT ![r] = plan][q][c]]
<1>1. (\A q \in T : g[q] \in Nat) /\ g[r] = plan[c] /\ \A q \in S : g[q] = f[q] /\ f[q] \in Nat
  OBVIOUS
<1>2. T \ {r} = S /\ r \in T /\ IsFiniteSet(T)
  BY FS_AddElement
<1>3. RefilledOf(p, S, c) = SumFunctionOnSet(f, S)
      /\ RefilledOf([p EXCEPT ![r] = plan], T, c) = SumFunctionOnSet(g, T)
  BY DEF RefilledOf
<1>4. plan[c] \in Nat
  OBVIOUS
<1> HIDE DEF f, g, T
<1>5. SumFunctionOnSet(g, T) = g[r] + SumFunctionOnSet(g, T \ {r})
  BY <1>1, <1>2, SumRemove
<1>6. SumFunctionOnSet(g, S) = SumFunctionOnSet(f, S) /\ SumFunctionOnSet(f, S) \in Nat
  BY <1>1, SumSame, SumNat
<1>7. SumFunctionOnSet(g, T) = SumFunctionOnSet(f, S) + plan[c]
  <2>1. SumFunctionOnSet(g, T) = plan[c] + SumFunctionOnSet(f, S)
    BY <1>1, <1>2, <1>5, <1>6, Zenon
  <2> QED
    BY <1>4, <1>6, <2>1
<1>8. RefilledOf([p EXCEPT ![r] = plan], T, c) = RefilledOf(p, S, c) + plan[c]
  BY <1>3, <1>7, Zenon
<1> QED
  BY <1>8 DEF T

LEMMA CellNat ==
    ASSUME LedgerTypes, NEW c \in Cell
    PROVE  /\ bank[c]["pending"] \in Nat /\ bank[c]["fresh"] \in Nat /\ bank[c]["seen"] \in Nat
           /\ CellCount(c) \in Nat /\ Stock(c) \in Nat /\ elsewhere[c] \in Nat
           /\ Limit(c) \in Nat
           /\ \A r \in Round : left[r][c] \in Nat /\ planned[r][c] \in Nat
<1>1. \A k \in Standing : bank[c][k] \in Nat
  BY DEF LedgerTypes
<1>2. elsewhere[c] \in Nat /\ \A r \in Round : left[r][c] \in Nat /\ planned[r][c] \in Nat
  BY DEF LedgerTypes
<1>3. HighestOf(setups, c) \in Nat /\ RefilledOf(planned, refills, c) \in Nat
  BY HighestIs, RefilledNat DEF LedgerTypes
<1>4. bank[c]["pending"] \in Nat /\ bank[c]["fresh"] \in Nat /\ bank[c]["seen"] \in Nat
  BY <1>1 DEF Standing
<1>5. CellCount(c) \in Nat /\ Stock(c) \in Nat
  BY <1>4 DEF CellCount, Stock
<1>6. Limit(c) \in Nat
  BY <1>2, <1>3 DEF Limit
<1> QED
  BY <1>2, <1>4, <1>5, <1>6

\* A step that starts no round keeps the room of c when the questions it adds
\* come from the targets left, or from elsewhere.
LEMMA RoomKept ==
    ASSUME LedgerTypes, LedgerTypes', NEW c \in Cell, Room(c), NEW more \in Nat,
           UNCHANGED <<setups, planned, refills>>, elsewhere'[c] = elsewhere[c] + more,
           CellCount(c)' <= Limit(c) + more,
           \A r \in Round :
               /\ status[r] # "none" => status'[r] # "none"
               /\ status'[r] \in InFlight =>
                      /\ status[r] \in InFlight
                      /\ CellCount(c)' + left'[r][c] <= CellCount(c) + left[r][c] + more
                      /\ Stock(c)' + left'[r][c] <= Stock(c) + left[r][c] + more
    PROVE  Room(c)'
<1>1. Limit(c)' = Limit(c) + more
  <2>1. HighestOf(setups, c) \in Nat /\ RefilledOf(planned, refills, c) \in Nat
        /\ elsewhere[c] \in Nat
    BY HighestIs, RefilledNat DEF LedgerTypes
  <2>2. Limit(c)' = HighestOf(setups, c) + RefilledOf(planned, refills, c) + elsewhere'[c]
    BY DEF Limit
  <2> QED
    BY <2>1, <2>2 DEF Limit
<1>2. /\ CellCount(c) \in Nat /\ Stock(c) \in Nat /\ Limit(c) \in Nat /\ elsewhere[c] \in Nat
      /\ UnseenTarget \in Nat
      /\ \A r \in Round : left[r][c] \in Nat /\ planned[r][c] \in Nat
  BY CellNat, RoundAssumption
<1>3. CellCount(c)' \in Nat /\ Stock(c)' \in Nat /\ \A r \in Round : left'[r][c] \in Nat
  <2>1. \A k \in Standing : bank'[c][k] \in Nat
    BY DEF LedgerTypes
  <2>2. \A r \in Round : left'[r][c] \in Nat
    BY DEF LedgerTypes
  <2> QED
    BY <2>1, <2>2 DEF CellCount, Stock, Standing
<1>4. ASSUME NEW r \in Round, status'[r] \in InFlight
      PROVE  CellCount(c)' + left'[r][c] <= Limit(c)'
  <2>1. CellCount(c) + left[r][c] <= Limit(c)
    BY <1>4 DEF Room
  <2> QED
    BY <1>1, <1>2, <1>3, <1>4, <2>1
<1>5. ASSUME NEW r \in refills', status'[r] \in InFlight, planned'[r][c] > 0
      PROVE  Stock(c)' + left'[r][c] <= UnseenTarget + elsewhere'[c]
  <2>1. r \in Round /\ r \in refills /\ planned[r][c] > 0
    BY <1>5 DEF LedgerTypes
  <2>2. Stock(c) + left[r][c] <= UnseenTarget + elsewhere[c]
    BY <1>5, <2>1 DEF Room
  <2> QED
    BY <1>2, <1>3, <1>5, <2>1, <2>2
<1>6. \A r \in refills' : status'[r] # "none"
  BY DEF Room, LedgerTypes
<1>7. UnseenTarget' = UnseenTarget
  OBVIOUS
<1> QED
  BY <1>1, <1>4, <1>5, <1>6, <1>7 DEF Room

\* A new round has room for its plan.
LEMMA RoomStart ==
    ASSUME RowsInv, RowsInv', NEW c \in Cell, Room(c), NEW r \in Round, Start(r)
    PROVE  Room(c)'
<1>0. LedgerTypes /\ LedgerTypes'
  BY DEF RowsInv
<1>1. PICK s \in Nat, plan \in [Cell -> Nat] : AskedFor(r, s, plan) \/ RefilledBy(r, s, plan)
  BY <1>0, StartIs
<1>2. /\ status[r] = "none" /\ \A q \in Round : status[q] \notin InFlight
      /\ \A q \in Round \ {r} : status'[q] = status[q] /\ planned'[q] = planned[q]
      /\ status'[r] # "none" /\ left'[r] = plan /\ planned' = [planned EXCEPT ![r] = plan]
      /\ planned'[r] = plan /\ UNCHANGED <<bank, elsewhere>>
  <2>1. InsertRound(r, s, plan)
    BY <1>1 DEF AskedFor, RefilledBy
  <2> QED
    BY <1>0, <2>1 DEF InsertRound, ActiveRounds, RowsInv, TypesInv, LedgerTypes
<1>3. r \notin refills
  BY <1>2 DEF Room
<1>4. /\ CellCount(c) \in Nat /\ Limit(c) \in Nat /\ CellCount(c)' = CellCount(c)
      /\ Stock(c)' = Stock(c) /\ Stock(c) \in Nat /\ elsewhere[c] \in Nat
      /\ elsewhere'[c] = elsewhere[c] /\ plan[c] \in Nat
      /\ UnseenTarget \in Nat
  BY <1>0, <1>2, CellNat, RoundAssumption DEF CellCount, Stock
<1>5. /\ HighestOf(setups, c) \in Nat /\ HighestOf(setups', c) \in Nat
      /\ HighestOf(setups', c) >= HighestOf(setups, c)
  <2>1. setups' = setups \/ \E t \in [Cell -> Nat] : setups' = Append(setups, t)
    BY <1>1 DEF AskedFor, RefilledBy
  <2>2. setups \in Seq([Cell -> Nat]) /\ setups' \in Seq([Cell -> Nat])
    BY <1>0 DEF LedgerTypes
  <2>3. HighestOf(setups, c) \in Nat /\ HighestOf(setups', c) \in Nat
    BY <2>2, HighestIs
  <2>4. ASSUME NEW t \in [Cell -> Nat], setups' = Append(setups, t)
        PROVE  HighestOf(setups', c) >= HighestOf(setups, c)
    <3>1. HighestOf(Append(setups, t), c) >= HighestOf(setups, c)
      BY <2>2, HighestGrows
    <3> QED
      BY <2>4, <3>1
  <2> QED
    BY <2>1, <2>3, <2>4
<1>6. RefilledOf(planned, refills, c) \in Nat
  BY <1>0, RefilledNat DEF LedgerTypes
<1>7. CellCount(c) <= Limit(c)
  BY DEF Room
<1>8. CASE AskedFor(r, s, plan)
  <2>1. refills' = refills
    BY <1>8 DEF AskedFor
  <2>2. RefilledOf(planned', refills', c) = RefilledOf(planned, refills, c)
    <3>1. /\ planned \in [Round -> [Cell -> Nat]] /\ refills \in SUBSET Round
          /\ IsFiniteSet(refills) /\ r \in Round \ refills
      BY <1>0, <1>3 DEF LedgerTypes
    <3>2. RefilledOf([planned EXCEPT ![r] = plan], refills, c) = RefilledOf(planned, refills, c)
      BY <3>1, RefilledSame
    <3> QED
      BY <1>2, <2>1, <3>2, Zenon
  <2>3. /\ Limit(c) = HighestOf(setups, c) + RefilledOf(planned, refills, c) + elsewhere[c]
        /\ Limit(c)' = HighestOf(setups', c) + RefilledOf(planned, refills, c) + elsewhere[c]
    BY <1>4, <2>2 DEF Limit
  <2>4. CellCount(c) <= Limit(c)'
    BY <1>4, <1>5, <1>6, <1>7, <2>3
  <2>5. setups'[s][c] \in Nat /\ setups'[s][c] <= HighestOf(setups', c)
    <3>1. s \in 1..Len(setups') /\ setups' \in Seq([Cell -> Nat])
      BY <1>0, <1>8 DEF AskedFor, LedgerTypes
    <3>2. \A v \in 1..Len(setups') : setups'[v][c] <= HighestOf(setups', c)
      BY <3>1, HighestIs
    <3>3. setups'[s] \in [Cell -> Nat]
      BY <3>1
    <3> QED
      BY <3>1, <3>2, <3>3
  <2>6. CellCount(c) + plan[c] <= Limit(c)'
    <3>1. plan[c] <= Missing(setups'[s][c], CellCount(c))
      BY <1>8 DEF AskedFor
    <3>2. plan[c] = 0 \/ CellCount(c) + plan[c] <= setups'[s][c]
      BY <1>4, <2>5, <3>1 DEF Missing
    <3>3. setups'[s][c] <= Limit(c)'
      BY <1>4, <1>5, <1>6, <2>3, <2>5
    <3>4. Limit(c)' \in Nat
      BY <1>4, <1>5, <1>6, <2>3
    <3> QED
      BY <1>4, <2>4, <2>5, <3>2, <3>3, <3>4
  <2>7. \A q \in Round : status'[q] \in InFlight => CellCount(c)' + left'[q][c] <= Limit(c)'
    BY <1>2, <1>4, <2>6
  <2>8. \A q \in refills' : status'[q] # "none" /\ status'[q] \notin InFlight
    BY <1>0, <1>2, <1>3, <2>1 DEF Room, LedgerTypes
  <2> QED
    BY <1>4, <2>4, <2>7, <2>8 DEF Room
<1>9. CASE RefilledBy(r, s, plan)
  <2>1. refills' = refills \cup {r} /\ setups' = setups
    BY <1>9 DEF RefilledBy
  <2>2. RefilledOf(planned', refills', c) = RefilledOf(planned, refills, c) + plan[c]
    <3>1. /\ planned \in [Round -> [Cell -> Nat]] /\ refills \in SUBSET Round
          /\ IsFiniteSet(refills) /\ r \in Round \ refills
      BY <1>0, <1>3 DEF LedgerTypes
    <3>2. RefilledOf([planned EXCEPT ![r] = plan], refills \cup {r}, c)
              = RefilledOf(planned, refills, c) + plan[c]
      BY <3>1, RefilledMore
    <3> QED
      BY <1>2, <2>1, <3>2, Zenon
  <2>3. /\ Limit(c) = HighestOf(setups, c) + RefilledOf(planned, refills, c) + elsewhere[c]
        /\ Limit(c)' = HighestOf(setups, c) + (RefilledOf(planned, refills, c) + plan[c])
                       + elsewhere[c]
    BY <1>4, <2>1, <2>2 DEF Limit
  <2>4. CellCount(c) + plan[c] <= Limit(c)' /\ CellCount(c) <= Limit(c)'
    BY <1>4, <1>5, <1>6, <1>7, <2>3
  <2>5. \A q \in Round : status'[q] \in InFlight => CellCount(c)' + left'[q][c] <= Limit(c)'
    BY <1>2, <1>4, <2>4
  <2>6. plan[c] > 0 => Stock(c) + plan[c] <= UnseenTarget
    <3>1. plan[c] <= StockDeficit(s)[c]
      BY <1>9 DEF RefilledBy
    <3>2. StockDeficit(s)[c] = IF setups[s][c] > 0 /\ bank[c]["fresh"] <= LowStock
                               THEN Missing(UnseenTarget, Stock(c)) ELSE 0
      BY DEF StockDeficit, Stock
    <3>3. plan[c] > 0 => plan[c] <= Missing(UnseenTarget, Stock(c))
      BY <1>4, <3>1, <3>2
    <3> QED
      BY <1>4, <3>3 DEF Missing
  <2>7. \A q \in refills' :
            /\ status'[q] # "none"
            /\ status'[q] \in InFlight /\ planned'[q][c] > 0
               => Stock(c)' + left'[q][c] <= UnseenTarget + elsewhere'[c]
    <3>1. Stock(c)' + left'[r][c] <= UnseenTarget + elsewhere'[c] \/ ~(planned'[r][c] > 0)
      BY <1>2, <1>4, <2>6
    <3>2. ASSUME NEW q \in refills PROVE status'[q] # "none" /\ status'[q] \notin InFlight
      BY <1>0, <1>2, <1>3 DEF Room, LedgerTypes
    <3> QED
      BY <1>2, <2>1, <3>1, <3>2
  <2> QED
    BY <1>4, <2>4, <2>5, <2>7 DEF Room
<1> QED
  BY <1>1, <1>8, <1>9

\* What moves the cells adds to them no more than is counted as coming from
\* elsewhere.
LEMMA CellMoves ==
    ASSUME LedgerTypes, NEW d \in Cell, CellStep(d), NEW c \in Cell
    PROVE  \E more \in Nat : /\ elsewhere'[c] = elsewhere[c] + more
                             /\ CellCount(c)' <= CellCount(c) + more
                             /\ Stock(c)' <= Stock(c) + more
<1>1. /\ bank[c]["pending"] \in Nat /\ bank[c]["fresh"] \in Nat /\ bank[c]["seen"] \in Nat
      /\ elsewhere[c] \in Nat /\ 0 \in Nat /\ 1 \in Nat
  BY CellNat
<1>2. bank \in [Cell -> [Standing -> Nat]] /\ elsewhere \in [Cell -> Nat]
  BY DEF LedgerTypes
<1>3. CASE c # d
  <2>1. bank'[c] = bank[c] /\ elsewhere'[c] = elsewhere[c]
    BY <1>2, <1>3 DEF CellStep, Approve, Reject, Reinstate, ServeQuestion, OtherQuestion, Move
  <2>2. elsewhere'[c] = elsewhere[c] + 0 /\ CellCount(c)' <= CellCount(c) + 0
        /\ Stock(c)' <= Stock(c) + 0
    BY <1>1, <2>1 DEF CellCount, Stock
  <2> QED
    BY <1>1, <2>2
<1>4. CASE c = d
  <2>1. ASSUME NEW from \in Standing, NEW to \in Standing, from # to, Move(c, from, to)
        PROVE  /\ bank[c][from] > 0 /\ bank'[c][from] = bank[c][from] - 1
               /\ bank'[c][to] = bank[c][to] + 1
               /\ \A k \in Standing \ {from, to} : bank'[c][k] = bank[c][k]
    <3>1. bank' = [bank EXCEPT ![c] = [[bank[c] EXCEPT ![from] = bank[c][from] - 1]
                                       EXCEPT ![to] = bank[c][to] + 1]]
      BY <1>2, <2>1 DEF Move
    <3>2. bank'[c] = [[bank[c] EXCEPT ![from] = bank[c][from] - 1] EXCEPT ![to] = bank[c][to] + 1]
      BY <1>2, <3>1
    <3> QED
      BY <1>2, <2>1, <3>2 DEF Move
  <2>2. CASE Approve(c)
    <3>1. /\ bank'[c]["pending"] = bank[c]["pending"] - 1
          /\ bank'[c]["fresh"] = bank[c]["fresh"] + 1 /\ bank'[c]["seen"] = bank[c]["seen"]
          /\ elsewhere'[c] = elsewhere[c]
      BY <2>1, <2>2 DEF Approve, Standing
    <3>2. elsewhere'[c] = elsewhere[c] + 0 /\ CellCount(c)' <= CellCount(c) + 0
          /\ Stock(c)' <= Stock(c) + 0
      BY <1>1, <3>1 DEF CellCount, Stock
    <3> QED
      BY <1>1, <3>2
  <2>3. CASE Reject(c)
    <3>1. PICK k \in {"pending", "fresh", "seen"} : Move(c, k, "out")
      BY <2>3 DEF Reject
    <3>2. /\ bank'[c][k] = bank[c][k] - 1 /\ elsewhere'[c] = elsewhere[c]
          /\ \A x \in {"pending", "fresh", "seen"} \ {k} : bank'[c][x] = bank[c][x]
      BY <2>1, <2>3, <3>1 DEF Reject, Standing
    <3>3. elsewhere'[c] = elsewhere[c] + 0 /\ CellCount(c)' <= CellCount(c) + 0
          /\ Stock(c)' <= Stock(c) + 0
      BY <1>1, <3>2 DEF CellCount, Stock
    <3> QED
      BY <1>1, <3>3
  <2>4. CASE Reinstate(c)
    <3>1. PICK k \in {"fresh", "seen"} : Move(c, "out", k)
      BY <2>4 DEF Reinstate
    <3>2. /\ bank'[c][k] = bank[c][k] + 1 /\ elsewhere'[c] = elsewhere[c] + 1
          /\ \A x \in {"pending", "fresh", "seen"} \ {k} : bank'[c][x] = bank[c][x]
      <4>1. \A x \in Standing \ {"out", k} : bank'[c][x] = bank[c][x]
        BY <2>1, <3>1 DEF Standing
      <4>2. elsewhere'[c] = elsewhere[c] + 1
        BY <1>2, <2>4 DEF Reinstate
      <4>3. bank'[c][k] = bank[c][k] + 1
        BY <2>1, <3>1 DEF Standing
      <4> QED
        BY <4>1, <4>2, <4>3 DEF Standing
    <3>3. CellCount(c)' <= CellCount(c) + 1 /\ Stock(c)' <= Stock(c) + 1
      BY <1>1, <3>2 DEF CellCount, Stock
    <3> QED
      BY <1>1, <3>2, <3>3
  <2>5. CASE ServeQuestion(c)
    <3>1. /\ bank'[c]["fresh"] = bank[c]["fresh"] - 1
          /\ bank'[c]["seen"] = bank[c]["seen"] + 1 /\ bank'[c]["pending"] = bank[c]["pending"]
          /\ elsewhere'[c] = elsewhere[c]
      BY <2>1, <2>5 DEF ServeQuestion, Standing
    <3>2. elsewhere'[c] = elsewhere[c] + 0 /\ CellCount(c)' <= CellCount(c) + 0
          /\ Stock(c)' <= Stock(c) + 0
      BY <1>1, <3>1 DEF CellCount, Stock
    <3> QED
      BY <1>1, <3>2
  <2>6. ASSUME NEW k \in {"pending", "fresh"}, OtherQuestion(c, k)
        PROVE  /\ elsewhere'[c] = elsewhere[c] + 1
               /\ CellCount(c)' <= CellCount(c) + 1 /\ Stock(c)' <= Stock(c) + 1
    <3>1. bank' = [bank EXCEPT ![c] = [bank[c] EXCEPT ![k] = bank[c][k] + 1]]
          /\ elsewhere' = [elsewhere EXCEPT ![c] = elsewhere[c] + 1]
      BY <2>6 DEF OtherQuestion
    <3>2. bank'[c] = [bank[c] EXCEPT ![k] = bank[c][k] + 1] /\ elsewhere'[c] = elsewhere[c] + 1
      BY <1>2, <3>1
    <3>3. bank[c] \in [Standing -> Nat] /\ k \in Standing
      BY <1>2 DEF Standing
    <3>4. /\ bank'[c][k] = bank[c][k] + 1
          /\ \A x \in {"pending", "fresh", "seen"} \ {k} : bank'[c][x] = bank[c][x]
      BY <3>2, <3>3 DEF Standing
    <3> QED
      BY <1>1, <3>2, <3>4 DEF CellCount, Stock
  <2> QED
    BY <1>1, <1>4, <2>2, <2>3, <2>4, <2>5, <2>6 DEF CellStep
<1> QED
  BY <1>3, <1>4

LEMMA RoomCell ==
    ASSUME RowsInv, RowsInv', NEW c \in Cell, Room(c), NEW d \in Cell, CellStep(d)
    PROVE  Room(c)'
<1>0. LedgerTypes /\ LedgerTypes'
  BY DEF RowsInv
<1>1. PICK more \in Nat : /\ elsewhere'[c] = elsewhere[c] + more
                          /\ CellCount(c)' <= CellCount(c) + more
                          /\ Stock(c)' <= Stock(c) + more
  BY <1>0, CellMoves
<1>2. UNCHANGED <<setups, planned, refills, status, left>>
  BY DEF CellStep, Approve, Reject, Reinstate, ServeQuestion, OtherQuestion, Move, roundRow,
         processVars
<1>3. /\ CellCount(c) \in Nat /\ Stock(c) \in Nat /\ Limit(c) \in Nat /\ CellCount(c) <= Limit(c)
      /\ \A r \in Round : left[r][c] \in Nat
  BY <1>0, CellNat DEF Room
<1>4. CellCount(c)' \in Nat /\ Stock(c)' \in Nat
  <2>1. \A k \in Standing : bank'[c][k] \in Nat
    BY <1>0 DEF LedgerTypes
  <2> QED
    BY <2>1 DEF CellCount, Stock, Standing
<1>5. CellCount(c)' <= Limit(c) + more
  BY <1>1, <1>3, <1>4
<1>6. \A r \in Round :
          /\ CellCount(c)' + left'[r][c] <= CellCount(c) + left[r][c] + more
          /\ Stock(c)' + left'[r][c] <= Stock(c) + left[r][c] + more
  BY <1>1, <1>2, <1>3, <1>4
<1> QED
  BY <1>0, <1>1, <1>2, <1>5, <1>6, RoomKept

\* A step that leaves the cells alone keeps their room when it puts no round in
\* flight and adds nothing to what a round has left.
LEMMA RoomLeft ==
    ASSUME LedgerTypes, LedgerTypes', NEW c \in Cell, Room(c),
           UNCHANGED <<setups, planned, refills, elsewhere, bank>>,
           \A r \in Round : /\ status[r] # "none" => status'[r] # "none"
                            /\ status'[r] \in InFlight => status[r] \in InFlight
                            /\ left'[r][c] <= left[r][c]
    PROVE  Room(c)'
<1>1. /\ CellCount(c)' = CellCount(c) /\ Stock(c)' = Stock(c) /\ elsewhere'[c] = elsewhere[c] + 0
      /\ 0 \in Nat /\ CellCount(c) \in Nat /\ Stock(c) \in Nat /\ Limit(c) \in Nat
      /\ CellCount(c) <= Limit(c)
  BY CellNat DEF CellCount, Stock, Room
<1>2. \A r \in Round : left[r][c] \in Nat /\ left'[r][c] \in Nat
  BY DEF LedgerTypes
<1>3. /\ CellCount(c)' <= Limit(c) + 0
      /\ \A r \in Round : /\ CellCount(c)' + left'[r][c] <= CellCount(c) + left[r][c] + 0
                          /\ Stock(c)' + left'[r][c] <= Stock(c) + left[r][c] + 0
  BY <1>1, <1>2
<1> QED
  BY <1>1, <1>3, RoomKept

\* A question stored is one of the targets of the one round in flight.
LEMMA RoomTarget ==
    ASSUME RowsInv, RowsInv', OneActiveRound, NEW c \in Cell, Room(c), NEW r \in Round, Target(r)
    PROVE  Room(c)'
<1>0. LedgerTypes /\ LedgerTypes'
  BY DEF RowsInv
<1>1. PICK d \in Cell : \/ \E k \in {"pending", "fresh"} : Produce(r, d, k)
                        \/ \E failed \in BOOLEAN : NoQuestion(r, d, failed)
  BY DEF Target
<1>2. /\ pc[r] = "try" /\ left[r][d] > 0
      /\ left' = [left EXCEPT ![r] = [left[r] EXCEPT ![d] = left[r][d] - 1]]
      /\ UNCHANGED <<setups, status, planned, elsewhere, refills>>
  BY <1>1 DEF Produce, NoQuestion, Tried
<1>3. /\ left'[r][d] = left[r][d] - 1
      /\ \A x \in Cell \ {d} : left'[r][x] = left[r][x]
      /\ \A q \in Round \ {r} : left'[q] = left[q]
  <2>1. left \in [Round -> [Cell -> Nat]]
    BY <1>0 DEF LedgerTypes
  <2>2. left'[r] = [left[r] EXCEPT ![d] = left[r][d] - 1]
    BY <1>2, <2>1
  <2> QED
    BY <1>2, <2>1, <2>2
<1>4. status[r] \in InFlight
  BY <1>2 DEF RowsInv, Place, InFlight
<1>5. /\ CellCount(c) \in Nat /\ Stock(c) \in Nat /\ Limit(c) \in Nat /\ elsewhere[c] \in Nat
      /\ \A q \in Round : left[q][c] \in Nat
  BY <1>0, CellNat
<1>6. CASE bank'[c] = bank[c]
  <2>1. CellCount(c)' = CellCount(c) /\ Stock(c)' = Stock(c)
    BY <1>6 DEF CellCount, Stock
  <2>2. \A q \in Round : left'[q][c] <= left[q][c]
    BY <1>3, <1>5
  <2>3. \A q \in Round : left'[q][c] \in Nat
    BY <1>0 DEF LedgerTypes
  <2>4. /\ CellCount(c)' <= Limit(c) + 0 /\ elsewhere'[c] = elsewhere[c] + 0
        /\ \A q \in Round : /\ CellCount(c)' + left'[q][c] <= CellCount(c) + left[q][c] + 0
                            /\ Stock(c)' + left'[q][c] <= Stock(c) + left[q][c] + 0
    BY <1>2, <1>5, <2>1, <2>2, <2>3 DEF Room
  <2> QED
    BY <1>0, <1>2, <2>4, RoomKept
<1>7. CASE bank'[c] # bank[c]
  <2>1. PICK k \in {"pending", "fresh"} : Produce(r, d, k)
    BY <1>1, <1>7 DEF NoQuestion
  <2>2. bank \in [Cell -> [Standing -> Nat]] /\ k \in Standing
    BY <1>0 DEF LedgerTypes, Standing
  <2>3. bank' = [bank EXCEPT ![d] = [bank[d] EXCEPT ![k] = bank[d][k] + 1]]
    BY <2>1 DEF Produce
  <2>4. c = d /\ bank'[c] = [bank[c] EXCEPT ![k] = bank[c][k] + 1]
    BY <1>7, <2>2, <2>3
  <2>5. /\ bank'[c][k] = bank[c][k] + 1
        /\ \A x \in {"pending", "fresh", "seen"} \ {k} : bank'[c][x] = bank[c][x]
    BY <2>2, <2>4 DEF Standing
  <2>6. bank[c]["pending"] \in Nat /\ bank[c]["fresh"] \in Nat /\ bank[c]["seen"] \in Nat
    BY <1>0, CellNat
  <2>7. CellCount(c)' = CellCount(c) + 1 /\ Stock(c)' = Stock(c) + 1
    BY <2>5, <2>6 DEF CellCount, Stock
  <2>8. CellCount(c) + left[r][c] <= Limit(c) /\ left[r][c] > 0
    BY <1>2, <1>4, <2>4 DEF Room
  <2>9. CellCount(c)' <= Limit(c) + 0 /\ elsewhere'[c] = elsewhere[c] + 0
    BY <1>2, <1>5, <2>7, <2>8
  <2>10. \A q \in Round : status'[q] \in InFlight => q = r
    BY <1>2, <1>4 DEF OneActiveRound
  <2>11. /\ CellCount(c)' + left'[r][c] <= CellCount(c) + left[r][c] + 0
         /\ Stock(c)' + left'[r][c] <= Stock(c) + left[r][c] + 0
    BY <1>3, <1>5, <2>4, <2>7
  <2> QED
    BY <1>0, <1>2, <1>4, <2>9, <2>10, <2>11, RoomKept
<1> QED
  BY <1>6, <1>7

RoomStays(c) ==
    /\ UNCHANGED <<setups, planned, refills, elsewhere, bank>>
    /\ \A r \in Round : /\ status[r] # "none" => status'[r] # "none"
                        /\ status'[r] \in InFlight => status[r] \in InFlight
                        /\ left'[r][c] <= left[r][c]

LEMMA OtherSteps ==
    ASSUME RowsInv, NEW r \in Round, NEW c \in Cell,
           \/ Respond(r) \/ RespondLost(r) \/ Claim(r) \/ ClaimFault(r) \/ Prepare(r) \/ Check(r)
           \/ RunFails(r) \/ Close(r) \/ RecordEnd(r) \/ RecordLost(r) \/ Cancel(r)
    PROVE  RoomStays(c)
<1>1. /\ left \in [Round -> [Cell -> Nat]]
      /\ status \in [Round -> {"none"} \cup InFlight \cup Ended]
  BY DEF RowsInv, LedgerTypes, TypesInv
<1>2. \A q \in Round : left[q][c] \in Nat
  BY <1>1
<1>3. CASE \/ Respond(r) \/ RespondLost(r) \/ Claim(r) \/ ClaimFault(r) \/ Prepare(r) \/ Check(r)
           \/ RunFails(r) \/ Cancel(r)
  <2>1. UNCHANGED <<setups, planned, refills, elsewhere, bank, left>>
    BY <1>3 DEF Respond, RespondLost, Claim, ClaimFault, Prepare, Check, RunFails, Cancel, Goto,
                roundRow, historyVars, processVars
  <2>2. \/ status' = status
        \/ status[r] = "queued" /\ status' = [status EXCEPT ![r] = "running"]
        \/ /\ status[r] \in InFlight
           /\ status' = [status EXCEPT ![r] = IF status[r] = "queued" THEN "failed"
                                              ELSE status[r]]
    BY <1>3 DEF Respond, RespondLost, Claim, ClaimFault, Prepare, Check, RunFails, Cancel, Goto,
                roundRow
  <2>3. \A q \in Round : /\ status[q] # "none" => status'[q] # "none"
                         /\ status'[q] \in InFlight => status[q] \in InFlight
    BY <1>1, <2>2 DEF InFlight
  <2> QED
    BY <1>2, <2>1, <2>3 DEF RoomStays
<1>4. CASE Close(r) \/ RecordEnd(r) \/ RecordLost(r)
  <2>1. /\ UNCHANGED <<setups, planned, refills, elsewhere, bank>>
        /\ left' = [left EXCEPT ![r] = None]
    BY <1>4 DEF Close, RecordEnd, RecordLost, Leave, roundRow, historyVars
  <2>2. status' = status \/ \E x \in Ended : status' = [status EXCEPT ![r] = x]
    BY <1>4 DEF Close, RecordEnd, RecordLost, Ended, roundRow
  <2>3. \A q \in Round : /\ status[q] # "none" => status'[q] # "none"
                         /\ status'[q] \in InFlight => status[q] \in InFlight
    BY <1>1, <2>2 DEF InFlight, Ended
  <2>4. \A q \in Round : left'[q][c] <= left[q][c]
    BY <1>1, <1>2, <2>1 DEF None
  <2> QED
    BY <2>1, <2>3, <2>4 DEF RoomStays
<1> QED
  BY <1>3, <1>4

LEMMA RestartStays ==
    ASSUME RowsInv, NEW c \in Cell, Crash \/ Recover PROVE RoomStays(c)
<1>1. \A q \in Round : left[q][c] \in Nat
  BY DEF RowsInv, LedgerTypes
<1>2. CASE Crash
  <2>1. /\ UNCHANGED <<setups, planned, refills, elsewhere, bank, status>>
        /\ left' = [r \in Round |-> None]
    BY <1>2 DEF Crash, roundRow, historyVars
  <2> QED
    BY <1>1, <2>1 DEF None, RoomStays
<1>3. CASE Recover
  <2>1. /\ UNCHANGED <<setups, planned, refills, elsewhere, bank, left>>
        /\ status' = [r \in Round |-> IF status[r] \in InFlight THEN "failed" ELSE status[r]]
    BY <1>3 DEF Recover, processVars, historyVars
  <2> QED
    BY <1>1, <2>1 DEF InFlight, RoomStays
<1> QED
  BY <1>2, <1>3

LEMMA RoomStaysKept ==
    ASSUME RowsInv, RowsInv', NEW c \in Cell, Room(c), RoomStays(c) PROVE Room(c)'
BY RoomLeft DEF RowsInv, RoomStays

LEMMA RowsInvInit == Init => RowsInv
<1> SUFFICES ASSUME Init PROVE RowsInv
  OBVIOUS
<1>1. None \in [Cell -> Nat] /\ Total(None) = 0
  BY TotalNone
<1>2. TypesInv
  BY DEF Init, TypesInv, PC
<1>3. LedgerTypes
  BY <1>1, FS_EmptySet DEF Init, LedgerTypes
<1>4. ASSUME NEW r \in Round PROVE Place(r) /\ Tally(r)
  <2>1. Place(r)
    BY DEF Init, Place, Started
  <2>2. Tally(r)
    BY <1>1 DEF Init, Tally, Started, Counted, Outcome
  <2> QED
    BY <2>1, <2>2
<1> QED
  BY <1>2, <1>3, <1>4 DEF RowsInv

LEMMA RowsInvStep == RowsInv /\ [Next]_roundVars => RowsInv'
<1> SUFFICES ASSUME RowsInv, [Next]_roundVars PROVE RowsInv'
  OBVIOUS
<1>1. CASE UNCHANGED roundVars
  <2>1. UNCHANGED <<setups, status, setup, planned, asked, counts, responding, tasks, pc, left,
                    providerFailed, bank, stored, late, elsewhere, refills, up, faults>>
    BY <1>1 DEF roundVars, roundRow, processVars, historyVars, faultVars
  <2>2. TypesInv' /\ LedgerTypes'
    BY <2>1 DEF RowsInv, TypesInv, LedgerTypes
  <2>3. \A r \in Round : Same(r)
    BY <2>1 DEF Same
  <2> QED
    BY <2>1, <2>2, <2>3, SameKept DEF RowsInv
<1>2. ASSUME NEW r \in Round, Start(r) \/ Respond(r) \/ RespondLost(r) \/ Cancel(r)
      PROVE  RowsInv'
  BY <1>2, RowsStart, RowsRespond, RowsCancel
<1>3. ASSUME NEW r \in Round, Worker(r) \/ ClaimFault(r) \/ RunFails(r) \/ RecordLost(r)
      PROVE  RowsInv'
  BY <1>3, RowsClaim, RowsMove, RowsTarget, RowsEnd DEF Worker
<1>4. ASSUME NEW c \in Cell, CellStep(c) PROVE RowsInv'
  BY <1>4, RowsCell
<1>5. CASE Crash \/ Recover
  BY <1>5, RowsRestart
<1> QED
  BY <1>1, <1>2, <1>3, <1>4, <1>5 DEF Next, CellStep

LEMMA RoomInit == ASSUME Init, NEW c \in Cell PROVE Room(c)
<1>1. LedgerTypes
  BY RowsInvInit DEF RowsInv
<1>2. Limit(c) \in Nat
  BY <1>1, CellNat
<1>3. CellCount(c) = 0
  BY DEF Init, CellCount, Standing
<1>4. refills = {} /\ \A r \in Round : status[r] \notin InFlight
  BY DEF Init, InFlight
<1> QED
  BY <1>2, <1>3, <1>4 DEF Room

LEMMA RoomStep ==
    ASSUME RowsInv, RowsInv', OneActiveRound, NEW c \in Cell, Room(c), [Next]_roundVars
    PROVE  Room(c)'
<1>1. CASE UNCHANGED roundVars
  <2>1. UNCHANGED <<setups, planned, refills, elsewhere, bank, status, left>>
    BY <1>1 DEF roundVars, roundRow, processVars, historyVars
  <2>2. \A r \in Round : left[r][c] \in Nat
    BY DEF RowsInv, LedgerTypes
  <2>3. RoomStays(c)
    BY <2>1, <2>2 DEF RoomStays
  <2> QED
    BY <2>3, RoomStaysKept
<1>2. ASSUME NEW r \in Round, Start(r) PROVE Room(c)'
  BY <1>2, RoomStart
<1>3. ASSUME NEW r \in Round,
             \/ Respond(r) \/ RespondLost(r) \/ Worker(r) \/ ClaimFault(r) \/ RunFails(r)
             \/ RecordLost(r) \/ Cancel(r)
      PROVE  Room(c)'
  <2>1. CASE Target(r)
    BY <2>1, RoomTarget
  <2>2. CASE ~Target(r)
    <3>1. \/ Respond(r) \/ RespondLost(r) \/ Claim(r) \/ ClaimFault(r) \/ Prepare(r) \/ Check(r)
          \/ RunFails(r) \/ Close(r) \/ RecordEnd(r) \/ RecordLost(r) \/ Cancel(r)
      BY <1>3, <2>2 DEF Worker
    <3>2. RoomStays(c)
      BY <3>1, OtherSteps
    <3> QED
      BY <3>2, RoomStaysKept
  <2> QED
    BY <2>1, <2>2
<1>4. ASSUME NEW d \in Cell, CellStep(d) PROVE Room(c)'
  BY <1>4, RoomCell
<1>5. CASE Crash \/ Recover
  <2>1. RoomStays(c)
    BY <1>5, RestartStays
  <2> QED
    BY <2>1, RoomStaysKept
<1> QED
  BY <1>1, <1>2, <1>3, <1>4, <1>5 DEF Next, CellStep

\* What the rounds in flight have left for c is what the one of them has left.
LEMMA CommittedIs ==
    ASSUME RowsInv, OneActiveRound, NEW c \in Cell, Room(c)
    PROVE  Committed(c) <= Limit(c)
<1> DEFINE A == {r \in Round : status[r] \in InFlight}
           f == [r \in A |-> left[r][c]]
<1>1. Committed(c) = CellCount(c) + SumFunctionOnSet(f, A)
  <2>1. DOMAIN f = A
    OBVIOUS
  <2>2. Committed(c) = CellCount(c) + SumFunction(f)
    BY DEF Committed, SumOver
  <2> HIDE DEF f, A
  <2> QED
    BY <2>1, <2>2 DEF SumFunction
<1>2. CellCount(c) \in Nat /\ Limit(c) \in Nat /\ \A r \in Round : left[r][c] \in Nat
  BY CellNat DEF RowsInv
<1>3. CASE A = {}
  <2>1. SumFunctionOnSet(f, A) = 0
    BY <1>3, SumEmpty
  <2>2. CellCount(c) <= Limit(c)
    BY DEF Room
  <2> HIDE DEF f, A
  <2> QED
    BY <1>1, <1>2, <2>1, <2>2
<1>4. ASSUME NEW r \in A PROVE Committed(c) <= Limit(c)
  <2>1. A = {r} /\ A \ {r} = {}
    BY DEF OneActiveRound
  <2>2. IsFiniteSet(A)
    BY <2>1, FS_Singleton
  <2>3. (\A x \in A : f[x] \in Nat) /\ f[r] = left[r][c]
    BY <1>2
  <2>4. CellCount(c) + left[r][c] <= Limit(c) /\ left[r][c] \in Nat
    BY <1>2 DEF Room
  <2> HIDE DEF f, A
  <2>5. SumFunctionOnSet(f, A) = f[r] + SumFunctionOnSet(f, A \ {r})
    BY <2>2, <2>3, SumRemove
  <2>6. SumFunctionOnSet(f, A \ {r}) = 0
    BY <2>1, SumEmpty
  <2>7. SumFunctionOnSet(f, A) = left[r][c]
    BY <2>3, <2>4, <2>5, <2>6
  <2> QED
    BY <1>1, <2>4, <2>7
<1> QED
  BY <1>3, <1>4

LEMMA RoomMeans ==
    ASSUME RowsInv, OneActiveRound, \A c \in Cell : Room(c) PROVE NoOverfill
<1> SUFFICES ASSUME NEW c \in Cell
             PROVE  /\ Committed(c) <= Max({setups[s][c] : s \in DOMAIN setups} \cup {0})
                                       + SumOver(LAMBDA r : planned[r][c], refills)
                                       + elsewhere[c]
                    /\ \A r \in refills : RefillStopsAtTarget(r, c)
  BY DEF NoOverfill
<1>1. SumOver(LAMBDA r : planned[r][c], refills) = RefilledOf(planned, refills, c)
  BY DEF SumOver, RefilledOf, SumFunction
<1>2. Committed(c) <= Max({setups[s][c] : s \in DOMAIN setups} \cup {0})
                      + SumOver(LAMBDA r : planned[r][c], refills) + elsewhere[c]
  BY <1>1, CommittedIs DEF Limit, HighestOf
<1>3. \A r \in refills : RefillStopsAtTarget(r, c)
  BY DEF Room, RefillStopsAtTarget, Stock
<1> QED
  BY <1>2, <1>3

LEMMA TallyMeans == ASSUME RowsInv PROVE CountersMatch
BY DEF RowsInv, Tally, CountersMatch

-----------------------------------------------------------------------------
(* The contract, and the theorems. *)

\* The view of JobContract does not change when its rows, counters and late
\* units do not.
LEMMA ContractStutters ==
    ASSUME UNCHANGED <<status, asked, counts, late>> PROVE UNCHANGED Contract!contractVars
<1>1. [r \in Round |-> Counted(r)]' = [r \in Round |-> Counted(r)]
  BY DEF Counted
<1> QED
  BY <1>1 DEF Contract!contractVars

\* A target tried is a unit kept, and the one in flight when the stop came.
LEMMA ContractKeep == ASSUME RowsInv, NEW r \in Round, Target(r) PROVE Contract!Keep(r)
<1> DEFINE kept == [q \in Round |-> Counted(q)]
<1>1. PICK c \in Cell : \/ \E k \in {"pending", "fresh"} : Produce(r, c, k)
                        \/ \E failed \in BOOLEAN : NoQuestion(r, c, failed)
  BY DEF Target
<1>2. /\ pc[r] = "try" /\ UNCHANGED <<status, asked>>
      /\ late' = IF asked[r] THEN [late EXCEPT ![r] = late[r] + 1] ELSE late
  BY <1>1 DEF Produce, NoQuestion, Tried
<1>3. \E o \in Outcome :
          counts' = [counts EXCEPT ![r] = [counts[r] EXCEPT ![o] = counts[r][o] + 1]]
  BY <1>1 DEF Produce, NoQuestion, Outcome
<1>4. counts \in [Round -> [Outcome -> Nat]]
  BY DEF RowsInv, LedgerTypes
<1>5. Counted(r)' = Counted(r) + 1 /\ \A q \in Round \ {r} : Counted(q)' = Counted(q)
  BY <1>3, <1>4 DEF Counted, Outcome
<1>6. kept' = [kept EXCEPT ![r] = kept[r] + 1]
  BY <1>5
<1>7. status[r] = "running" /\ late[r] = 0
  BY <1>2 DEF RowsInv, Place, Tally
<1>8. \/ ~asked[r] /\ UNCHANGED late
      \/ asked[r] /\ late[r] = 0 /\ late' = [late EXCEPT ![r] = 1]
  BY <1>2, <1>7
<1> HIDE DEF kept
<1> QED
  BY <1>2, <1>6, <1>7, <1>8 DEF Contract!Keep, kept

\* A step of the rounds is a step of JobContract or leaves its view unchanged.
LEMMA ContractStep == RowsInv /\ [Next]_roundVars => [Contract!Next]_(Contract!contractVars)
<1> SUFFICES ASSUME RowsInv, [Next]_roundVars
             PROVE  Contract!Next \/ UNCHANGED Contract!contractVars
  BY DEF Contract!contractVars
<1>0. status \in [Round -> {"none"} \cup InFlight \cup Ended]
  BY DEF RowsInv, TypesInv
<1>1. ASSUME NEW r \in Round, Start(r) PROVE Contract!Accept(r) \/ Contract!AcceptEmpty(r)
  <2>1. \E s, plan : InsertRound(r, s, plan)
    BY <1>1 DEF Start, SaveSetup, NextRound, RetryRound, Refill
  <2>2. /\ status[r] = "none" /\ UNCHANGED <<asked, counts, late>>
        /\ \E x \in {"done", "queued"} : status' = [status EXCEPT ![r] = x]
    BY <2>1 DEF InsertRound
  <2>3. [q \in Round |-> Counted(q)]' = [q \in Round |-> Counted(q)]
    BY <2>2 DEF Counted
  <2> QED
    BY <2>2, <2>3 DEF Contract!Accept, Contract!AcceptEmpty
<1>2. ASSUME NEW r \in Round, Claim(r)
      PROVE  Contract!Begin(r) \/ UNCHANGED Contract!contractVars
  <2>1. /\ UNCHANGED <<asked, counts, late>>
        /\ \/ status[r] = "queued" /\ status' = [status EXCEPT ![r] = "running"]
           \/ status' = status
    BY <1>2 DEF Claim, historyVars
  <2>2. [q \in Round |-> Counted(q)]' = [q \in Round |-> Counted(q)]
    BY <2>1 DEF Counted
  <2> QED
    BY <2>1, <2>2, ContractStutters DEF Contract!Begin
<1>3. ASSUME NEW r \in Round, Target(r) PROVE Contract!Keep(r)
  BY <1>3, ContractKeep
<1>4. ASSUME NEW r \in Round, Close(r) \/ RecordEnd(r)
      PROVE  \/ \E s \in Contract!Ended : Contract!End(r, s)
             \/ UNCHANGED Contract!contractVars
  <2>1. /\ UNCHANGED <<asked, counts, late>>
        /\ \/ pc[r] = "close" /\ status' = [status EXCEPT ![r] = "done"]
           \/ pc[r] \in {"stop", "fail"} /\ status' = [status EXCEPT ![r] = "failed"]
    BY <1>4 DEF Close, RecordEnd, historyVars
  <2>2. [q \in Round |-> Counted(q)]' = [q \in Round |-> Counted(q)]
    BY <2>1 DEF Counted
  <2>3. pc[r] = "close" => status[r] = "running"
    BY DEF RowsInv, Place
  <2>4. pc[r] \in {"stop", "fail"} => status[r] \in {"queued", "running", "failed"}
    BY DEF RowsInv, Place
  <2>5. CASE status' = [status EXCEPT ![r] = "done"] /\ pc[r] = "close"
    <3>1. Contract!End(r, "done")
      BY <2>1, <2>2, <2>3, <2>5 DEF Contract!End
    <3> QED
      BY <3>1 DEF Contract!Ended
  <2>6. CASE status' = [status EXCEPT ![r] = "failed"] /\ status[r] \in {"queued", "running"}
    <3>1. Contract!End(r, "failed")
      BY <2>1, <2>2, <2>6 DEF Contract!End
    <3> QED
      BY <3>1 DEF Contract!Ended
  <2>7. CASE status' = [status EXCEPT ![r] = "failed"] /\ status[r] = "failed"
    <3>1. status' = status
      BY <1>0, <2>7
    <3> QED
      BY <2>1, <3>1, ContractStutters
  <2> QED
    BY <2>1, <2>4, <2>5, <2>6, <2>7
<1>5. ASSUME NEW r \in Round, Cancel(r) PROVE Contract!StopQueued(r) \/ Contract!StopBegun(r)
  <2>1. /\ UNCHANGED <<counts, late>> /\ status[r] \in InFlight
        /\ asked' = [asked EXCEPT ![r] = TRUE]
        /\ status' = [status EXCEPT ![r] = IF status[r] = "queued" THEN "failed" ELSE status[r]]
    BY <1>5 DEF Cancel, historyVars
  <2>2. [q \in Round |-> Counted(q)]' = [q \in Round |-> Counted(q)]
    BY <2>1 DEF Counted
  <2>3. status[r] = "running" => status' = status
    BY <1>0, <2>1
  <2> QED
    BY <2>1, <2>2, <2>3 DEF InFlight, Contract!StopQueued, Contract!StopBegun
<1>6. CASE Recover
  <2>1. /\ UNCHANGED <<asked, counts, late>>
        /\ status' = [r \in Round |-> IF status[r] \in InFlight THEN "failed" ELSE status[r]]
    BY <1>6 DEF Recover, historyVars
  <2>2. [q \in Round |-> Counted(q)]' = [q \in Round |-> Counted(q)]
    BY <2>1 DEF Counted
  <2>3. Contract!Restart
    BY <2>1, <2>2 DEF InFlight, Contract!Restart, Contract!InFlight
  <2> QED
    BY <2>3 DEF Contract!Next
<1>7. ASSUME NEW r \in Round,
             \/ Respond(r) \/ RespondLost(r) \/ ClaimFault(r) \/ Prepare(r) \/ Check(r)
             \/ RunFails(r) \/ RecordLost(r)
      PROVE  UNCHANGED Contract!contractVars
  <2>1. UNCHANGED <<status, asked, counts, late>>
    BY <1>7 DEF Respond, RespondLost, ClaimFault, Prepare, Check, RunFails, RecordLost, Goto,
                roundRow, historyVars
  <2> QED
    BY <2>1, ContractStutters
<1>8. ASSUME NEW c \in Cell, CellStep(c) PROVE UNCHANGED Contract!contractVars
  <2>1. UNCHANGED <<status, asked, counts, late>>
    BY <1>8 DEF CellStep, Approve, Reject, Reinstate, ServeQuestion, OtherQuestion, Move,
                roundRow
  <2> QED
    BY <2>1, ContractStutters
<1>9. CASE Crash \/ UNCHANGED roundVars
  <2>1. UNCHANGED <<status, asked, counts, late>>
    BY <1>9 DEF Crash, roundVars, roundRow, historyVars
  <2> QED
    BY <2>1, ContractStutters
<1>10. ASSUME NEW r \in Round,
              \/ Start(r) \/ Respond(r) \/ RespondLost(r) \/ Worker(r) \/ ClaimFault(r)
              \/ RunFails(r) \/ RecordLost(r) \/ Cancel(r)
       PROVE  Contract!Next \/ UNCHANGED Contract!contractVars
  <2>1. CASE Start(r)
    BY <1>1, <2>1 DEF Contract!Next
  <2>2. CASE Claim(r)
    BY <1>2, <2>2 DEF Contract!Next
  <2>3. CASE Target(r)
    BY <1>3, <2>3 DEF Contract!Next
  <2>4. CASE Close(r) \/ RecordEnd(r)
    BY <1>4, <2>4 DEF Contract!Next
  <2>5. CASE Cancel(r)
    BY <1>5, <2>5 DEF Contract!Next
  <2> QED
    BY <1>7, <1>10, <2>1, <2>2, <2>3, <2>4, <2>5 DEF Worker
<1> QED
  BY <1>6, <1>8, <1>9, <1>10 DEF Next, CellStep

THEOREM RowsHold == Spec => []RowsInv
BY RowsInvInit, RowsInvStep, PTL DEF Spec

\* A round's counters are those of its questions and of the targets it tried,
\* through stops, failures and crashes.
THEOREM CountersAreRight == Spec => []CountersMatch
BY RowsHold, TallyMeans, PTL

\* Whatever reviews, students and other generation do to a cell between the plan
\* of a round and its targets, the round does not fill it over its target, and a
\* refill stocks it up to UNSEEN_TARGET at most.
THEOREM NoCellOverfilled == Spec => []NoOverfill
<1> DEFINE Rooms == \A c \in Cell : Room(c)
<1>1. Init => Rooms
  BY RoomInit
<1>2. RowsInv /\ RowsInv' /\ OneActiveRound /\ Rooms /\ [Next]_roundVars => Rooms'
  <2> SUFFICES ASSUME RowsInv, RowsInv', OneActiveRound, Rooms, [Next]_roundVars, NEW c \in Cell
               PROVE  Room(c)'
    OBVIOUS
  <2> QED
    BY RoomStep
<1>3. RowsInv /\ OneActiveRound /\ Rooms => NoOverfill
  BY RoomMeans
<1> HIDE DEF Rooms
<1> QED
  BY <1>1, <1>2, <1>3, RowsHold, OneRoundAtATime, PTL DEF Spec

\* A round keeps every promise of JobContract: ended it stays ended and tries no
\* more targets, cancelled while queued it never begins, cancelled while it runs
\* it tries at most the target in flight, and a restart leaves none in flight.
THEOREM RoundsKeepContract == Spec => ImplementsContract
<1>1. Init => Contract!Init
  BY DEF Init, Contract!Init, Counted, Outcome
<1> QED
  BY <1>1, ContractStep, RowsHold, PTL DEF Spec, ImplementsContract, Contract!Spec

(***************************************************************************)
(* Lessons.  A run edits from the copies it read (held, and before that    *)
(* seen), so what is invariant is how a copy may differ from its row: the  *)
(* row may have been confirmed since, which is recorded, or have become    *)
(* active; it is never pending again.                                      *)
(***************************************************************************)
GuidelineRow == [target : Learner, cites : (SUBSET Review) \ {{}}, confirmed : BOOLEAN,
                 status : {"pending", "active", "retired"}]
Fate == {"none", "deleted", "merged", "retired"}
Copies(n) == UNION {[S -> GuidelineRow] : S \in SUBSET (1 .. n)}
RunState(n) == [at : {"idle", "learning", "over"}, rows : SUBSET Review, failed : SUBSET Review,
                left : SUBSET Learner, asked : Learner \cup {""}, seen : Copies(n)]

LessonTypes ==
    /\ outcome \in [Review -> [row : {"none", "pending", "learned"}, teaches : SUBSET Learner]]
    /\ guides \in Seq(GuidelineRow) /\ Len(guides) <= MaxGuidelines
    /\ fate \in Seq(Fate) /\ Len(fate) = Len(guides)
    /\ lesson \in [LessonRun -> RunState(Len(guides))]

\* A row, by what is sent of it.
RowEarned(g) == g.status \in Current => (g.status = "active" <=> Earned(g))

\* A row that the professor confirmed, by how it ended.
RowStays(g, how, wasHeld) ==
    g.confirmed /\ g.status = "retired" => how \in {"deleted", "merged"} \/ wasHeld

\* A copy of a row: wasHeld says that the row was confirmed while it was held.
CopyOf(c, g, wasHeld) ==
    /\ c.status \in Current /\ RowEarned(c)
    /\ c.confirmed => g.confirmed
    /\ g.confirmed /\ ~c.confirmed => wasHeld
    /\ c.status = "active" /\ g.status \in Current => g.status = "active"

CopiesTrue(x) ==
    \A i \in DOMAIN lesson[x].seen : CopyOf(lesson[x].seen[i], guides[i], i \in overtaken)

LessonInv ==
    /\ LessonTypes
    /\ \A i \in Guideline : RowEarned(guides[i]) /\ RowStays(guides[i], fate[i], i \in overtaken)
    /\ \A x \in LessonRun : CopiesTrue(x)
-----------------------------------------------------------------------------
(* What applying edits keeps, of the rows and of the copies of the run that *)
(* applies them: a row that is not current stays so, and the copies held    *)
(* are of current rows.                                                     *)
AsBefore(old, g) ==
    /\ g.confirmed = old.confirmed
    /\ g.status \in Current => /\ old.status \in Current
                               /\ old.status = "active" => g.status = "active"

SessionTypes(st) ==
    /\ guides \in Seq(GuidelineRow)
    /\ st \in [table : Seq(GuidelineRow), held : Copies(MaxGuidelines), ended : Seq(Fate)]
    /\ Len(guides) <= Len(st.table) /\ Len(st.table) <= MaxGuidelines
    /\ Len(st.ended) = Len(st.table)
    /\ DOMAIN st.held \subseteq 1 .. Len(st.table)

SessionOK(st) ==
    /\ SessionTypes(st)
    /\ \A i \in 1 .. Len(st.table) :
          RowEarned(st.table[i]) /\ RowStays(st.table[i], st.ended[i], i \in overtaken)
    /\ \A i \in DOMAIN st.held : /\ st.table[i].status \in Current
                                 /\ CopyOf(st.held[i], st.table[i], i \in overtaken)
    /\ \A i \in 1 .. Len(guides) : AsBefore(guides[i], st.table[i])

\* The fold over the edits stays in a set that each edit stays in.
LEMMA EditsFold ==
    ASSUME NEW t, NEW St, NEW start \in St, NEW n \in Nat, NEW edits, DOMAIN edits = 1 .. n,
           \A st \in St, k \in 1 .. n : Applied(t, st, edits[k]) \in St
    PROVE  AllApplied(t, start, edits) \in St
<1> DEFINE D == 1 .. n
           ch == [s \in SUBSET D |-> Max(s)]
           f == [p \in St \X D |-> Applied(t, p[1], edits[p[2]])]
           Computes(g) == g = [s \in SUBSET D |-> IF s = {} THEN start
                                      ELSE Applied(t, g[s \ {Max(s)}], edits[Max(s)])]
           fold == CHOOSE g : Computes(g)
<1>1. IsFiniteSet(D) /\ \A s \in SUBSET D : s # {} => Max(s) \in s
  BY LastPicked
<1>2. Picks(ch, D)
  BY <1>1 DEF Picks
<1>3. Steps(f, D, St)
  BY DEF Steps
<1>4. \A v \in St, k \in D : f[<<v, k>>] = Applied(t, v, edits[k])
  OBVIOUS
<1>5. \A s \in SUBSET D : ch[s] = Max(s)
  OBVIOUS
<1>6. AllApplied(t, start, edits) = fold[D]
  BY DEF AllApplied, FoldLeft, MapThenFoldSet
<1> HIDE DEF D, ch, f
<1>7. \E g : Computes(g)
  <2>1. PICK g : FoldsTo(g, f, ch, D, St, start)
    <3>1. IsFiniteSet(D) /\ start \in St
      BY <1>1
    <3> QED
      BY <3>1, <1>2, <1>3, FoldExists
  <2>2. ASSUME NEW s \in SUBSET D
        PROVE  g[s] = IF s = {} THEN start ELSE Applied(t, g[s \ {Max(s)}], edits[Max(s)])
    <3>1. s # {} => Max(s) \in D
      BY <1>1
    <3> QED
      BY <1>4, <1>5, <2>1, <3>1 DEF FoldsTo
  <2>3. Computes(g)
    BY <2>1, <2>2 DEF FoldsTo
  <2> QED
    BY <2>3
<1>8. Computes(fold)
  BY <1>7
<1> HIDE DEF fold
<1>9. fold[{}] = start
  BY <1>8
<1>10. ASSUME NEW s \in SUBSET D, s # {}, fold[s \ {ch[s]}] \in St
       PROVE  fold[s] = f[<<fold[s \ {ch[s]}], ch[s]>>]
  <2>1. Max(s) \in D
    BY <1>1, <1>10
  <2> QED
    <3>1. ch[s] = Max(s)
      BY <1>5
    <3>2. f[<<fold[s \ {Max(s)}], Max(s)>>] = Applied(t, fold[s \ {Max(s)}], edits[Max(s)])
      BY <1>4, <1>10, <2>1, <3>1
    <3>3. fold[s] = Applied(t, fold[s \ {Max(s)}], edits[Max(s)])
      BY <1>8, <1>10
    <3> QED
      BY <3>1, <3>2, <3>3
<1>11. FoldsWithin(fold, f, ch, D, St, start)
  BY <1>9, <1>10 DEF FoldsWithin
<1>12. \A s \in SUBSET D : fold[s] \in St
  BY <1>1, <1>2, <1>3, <1>11, FoldValues
<1> QED
  BY <1>6, <1>12

LEMMA CopiesAre ==
    ASSUME NEW n, NEW h
    PROVE  h \in Copies(n) <=> /\ h = [i \in DOMAIN h |-> h[i]] /\ DOMAIN h \subseteq 1 .. n
                               /\ \A i \in DOMAIN h : h[i] \in GuidelineRow
<1> DEFINE R == GuidelineRow
<1> HIDE DEF R
<1>1. h \in UNION {[S -> R] : S \in SUBSET (1 .. n)}
        <=> /\ h = [i \in DOMAIN h |-> h[i]] /\ DOMAIN h \subseteq 1 .. n
            /\ \A i \in DOMAIN h : h[i] \in R
  OBVIOUS
<1> QED
  BY <1>1 DEF Copies, R

\* A settled row is active when it is earned and pending when it is not.
LEMMA SettledIs ==
    ASSUME LessonAssumption, NEW g \in GuidelineRow
    PROVE  /\ Settled(g) \in GuidelineRow /\ Settled(g).status \in Current
           /\ RowEarned(Settled(g)) /\ (Settled(g).status = "active" <=> Earned(g))
           /\ Settled(g).confirmed = g.confirmed /\ Settled(g).cites = g.cites
  BY DEF Settled, GuidelineRow, Current, RowEarned, Earned

LEMMA DraftedIs ==
    ASSUME LessonAssumption, NEW t \in Learner, NEW cites \in SUBSET Review, cites # {}
    PROVE  /\ Drafted(t, cites) \in GuidelineRow /\ Drafted(t, cites).status \in Current
           /\ RowEarned(Drafted(t, cites)) /\ ~Drafted(t, cites).confirmed
<1> DEFINE g == [target |-> t, cites |-> cites, confirmed |-> FALSE, status |-> "pending"]
<1>1. g \in GuidelineRow /\ ~g.confirmed
  BY DEF GuidelineRow
<1>2. Drafted(t, cites) = Settled(g)
  BY DEF Drafted
<1> HIDE DEF g
<1> QED
  BY <1>1, <1>2, SettledIs

LEMMA AddedOK ==
    ASSUME LessonAssumption, NEW st, SessionOK(st), NEW t \in Learner,
           NEW cites \in SUBSET Review, cites # {}
    PROVE  /\ SessionOK(Added(st, t, cites)) /\ DOMAIN st.held \subseteq DOMAIN Added(st, t, cites).held
<1>1. CASE Len(st.table) = MaxGuidelines
  BY <1>1 DEF Added
<1>2. CASE Len(st.table) # MaxGuidelines
  <2> DEFINE n == Len(st.table) + 1
             g == Drafted(t, cites)
             table == Append(st.table, g)
             ended == Append(st.ended, "none")
             held == [j \in DOMAIN st.held \cup {n} |-> IF j = n THEN g ELSE st.held[j]]
             new == Added(st, t, cites)
             R == GuidelineRow
  <2>1. new = [table |-> table, ended |-> ended, held |-> held]
    BY <1>2 DEF Added
  <2>2. /\ g \in R /\ g.status \in Current /\ RowEarned(g) /\ ~g.confirmed
    BY DraftedIs
  <2>3. /\ st.table \in Seq(R) /\ st.held \in Copies(MaxGuidelines) /\ st.ended \in Seq(Fate)
        /\ Len(guides) <= Len(st.table) /\ Len(st.table) <= MaxGuidelines
        /\ Len(st.ended) = Len(st.table) /\ DOMAIN st.held \subseteq 1 .. Len(st.table)
    BY DEF SessionOK, SessionTypes
  <2>4. MaxGuidelines \in Nat /\ Len(st.table) \in Nat
    BY <2>3 DEF LessonAssumption
  <2> HIDE DEF g, R
  <2>5. /\ table \in Seq(R) /\ Len(table) = n /\ table[n] = g
        /\ \A i \in 1 .. Len(st.table) : table[i] = st.table[i]
    BY <2>2, <2>3
  <2>6. /\ ended \in Seq(Fate) /\ Len(ended) = n
        /\ \A i \in 1 .. Len(st.table) : ended[i] = st.ended[i]
    BY <2>3 DEF Fate
  <2>7. /\ DOMAIN held = DOMAIN st.held \cup {n} /\ held[n] = g /\ n \notin DOMAIN st.held
        /\ \A i \in DOMAIN st.held : held[i] = st.held[i]
    BY <2>3, <2>4
  <2>8. \A i \in DOMAIN st.held : st.held[i] \in R
    BY <2>3, CopiesAre DEF R
  <2>9. n \in 1 .. MaxGuidelines /\ DOMAIN held \subseteq 1 .. n
    BY <1>2, <2>3, <2>4, <2>7
  <2>10. held \in Copies(MaxGuidelines)
    <3>1. \A i \in DOMAIN held : held[i] \in R
      BY <2>2, <2>7, <2>8
    <3>2. held = [i \in DOMAIN held |-> held[i]] /\ DOMAIN held \subseteq 1 .. MaxGuidelines
      BY <2>9, <2>4
    <3> HIDE DEF held
    <3> QED
      BY <3>1, <3>2, CopiesAre DEF R
  <2> HIDE DEF table, ended, held, new
  <2>11. new.table = table /\ new.ended = ended /\ new.held = held
    BY <2>1
  <2>12. SessionTypes(new)
    <3>1. new \in [table : Seq(R), held : Copies(MaxGuidelines), ended : Seq(Fate)]
      BY <2>1, <2>5, <2>6, <2>10
    <3>2. Len(guides) <= n /\ n <= MaxGuidelines
      <4>1. guides \in Seq(R) /\ Len(guides) \in Nat
        BY DEF SessionOK, SessionTypes, R
      <4> QED
        BY <2>3, <2>4, <2>9, <4>1
    <3> QED
      BY <3>1, <3>2, <2>5, <2>6, <2>9, <2>11 DEF SessionOK, SessionTypes, R
  <2>13. ASSUME NEW i \in 1 .. n
         PROVE  RowEarned(table[i]) /\ RowStays(table[i], ended[i], i \in overtaken)
    <3>1. CASE i = n
      BY <2>2, <2>5, <3>1 DEF RowStays
    <3>2. CASE i # n
      <4>1. i \in 1 .. Len(st.table)
        BY <2>4, <3>2
      <4> QED
        BY <2>5, <2>6, <4>1 DEF SessionOK
    <3> QED
      BY <3>1, <3>2
  <2>14. ASSUME NEW i \in DOMAIN held
         PROVE  table[i].status \in Current /\ CopyOf(held[i], table[i], i \in overtaken)
    <3>1. CASE i = n
      BY <2>2, <2>5, <2>7, <3>1 DEF CopyOf
    <3>2. CASE i # n
      <4>1. i \in DOMAIN st.held /\ i \in 1 .. Len(st.table)
        BY <2>3, <2>7, <3>2
      <4> QED
        BY <2>5, <2>7, <4>1 DEF SessionOK
    <3> QED
      BY <3>1, <3>2
  <2>15. ASSUME NEW i \in 1 .. Len(guides) PROVE AsBefore(guides[i], table[i])
    <3>1. i \in 1 .. Len(st.table)
      BY <2>3, <2>4
    <3> QED
      BY <2>5, <3>1 DEF SessionOK
  <2> QED
    BY <2>5, <2>7, <2>11, <2>12, <2>13, <2>14, <2>15 DEF SessionOK, new
<1> QED
  BY <1>1, <1>2

LEMMA RetiringOK ==
    ASSUME LessonAssumption, NEW st, SessionOK(st), NEW ids, ids \subseteq DOMAIN st.held,
           NEW how \in Fate,
           how = "merged" \/ \A i \in ids : ~st.held[i].confirmed
    PROVE  SessionOK(Retiring(st, ids, how))
<1> DEFINE n == Len(st.table)
           table == [i \in DOMAIN st.table |->
                       IF i \in ids THEN [st.table[i] EXCEPT !.status = "retired"] ELSE st.table[i]]
           ended == [i \in DOMAIN st.ended |-> IF i \in ids THEN how ELSE st.ended[i]]
           held == [i \in DOMAIN st.held \ ids |-> st.held[i]]
           new == Retiring(st, ids, how)
           R == GuidelineRow
<1>1. new.table = table /\ new.ended = ended /\ new.held = held
      /\ new = [table |-> table, ended |-> ended, held |-> held]
  BY DEF Retiring
<1>2. /\ st.table \in Seq(R) /\ st.held \in Copies(MaxGuidelines) /\ st.ended \in Seq(Fate)
      /\ Len(guides) <= n /\ n <= MaxGuidelines
      /\ Len(st.ended) = n /\ DOMAIN st.held \subseteq 1 .. n
  BY DEF SessionOK, SessionTypes
<1>3. n \in Nat
  BY <1>2
<1>4. ASSUME NEW i \in 1 .. n
      PROVE  /\ st.table[i] \in R /\ st.ended[i] \in Fate
             /\ RowEarned(st.table[i]) /\ RowStays(st.table[i], st.ended[i], i \in overtaken)
  <2>1. RowEarned(st.table[i]) /\ RowStays(st.table[i], st.ended[i], i \in overtaken)
    BY DEF SessionOK
  <2> HIDE DEF R
  <2> QED
    BY <1>2, <2>1
<1>5. ASSUME NEW g \in R
      PROVE  /\ [g EXCEPT !.status = "retired"] \in R
             /\ [g EXCEPT !.status = "retired"].status = "retired"
             /\ [g EXCEPT !.status = "retired"].confirmed = g.confirmed
  BY DEF GuidelineRow
<1>6. ASSUME NEW i \in 1 .. n
      PROVE  /\ table[i] \in R /\ table[i].confirmed = st.table[i].confirmed
             /\ i \in ids => table[i].status = "retired" /\ ended[i] = how
             /\ i \notin ids => table[i] = st.table[i] /\ ended[i] = st.ended[i]
             /\ ended[i] \in Fate
  <2>1. i \in DOMAIN st.table /\ i \in DOMAIN st.ended
    BY <1>2, <1>3
  <2> HIDE DEF R
  <2> QED
    BY <1>4, <1>5, <2>1
<1>7. table \in Seq(R) /\ Len(table) = n /\ ended \in Seq(Fate) /\ Len(ended) = n
  <2>1. DOMAIN st.table = 1 .. n /\ DOMAIN st.ended = 1 .. n
    BY <1>2
  <2>2. DOMAIN table = 1 .. n /\ DOMAIN ended = 1 .. n
    BY <2>1
  <2>3. table = [i \in 1 .. n |-> table[i]] /\ ended = [i \in 1 .. n |-> ended[i]]
    BY <2>1
  <2> HIDE DEF R, table, ended, n
  <2> QED
    BY <1>3, <1>6, <2>2, <2>3
<1>8. /\ DOMAIN held = DOMAIN st.held \ ids /\ held = [i \in DOMAIN held |-> held[i]]
      /\ \A i \in DOMAIN held : held[i] = st.held[i]
  OBVIOUS
<1>9. held \in Copies(MaxGuidelines)
  <2>1. \A i \in DOMAIN st.held : st.held[i] \in R /\ i \in 1 .. MaxGuidelines
    BY <1>2, CopiesAre
  <2>2. \A i \in DOMAIN held : held[i] \in R /\ i \in 1 .. MaxGuidelines
    BY <1>8, <2>1
  <2> HIDE DEF held
  <2> QED
    BY <1>8, <2>2, CopiesAre
<1> HIDE DEF table, ended, held, new
<1>10. SessionTypes(new)
  <2>1. DOMAIN held \subseteq 1 .. n
    BY <1>2, <1>8
  <2>2. guides \in Seq(R)
    BY DEF SessionOK, SessionTypes
  <2>3. new \in [table : Seq(R), held : Copies(MaxGuidelines), ended : Seq(Fate)]
    BY <1>1, <1>7, <1>9
  <2> HIDE DEF R
  <2> QED
    BY <1>1, <1>2, <1>7, <2>1, <2>2, <2>3 DEF SessionTypes, R
<1>11. ASSUME NEW i \in 1 .. n
       PROVE  RowEarned(table[i]) /\ RowStays(table[i], ended[i], i \in overtaken)
  <2>1. CASE i \in ids
    <3>1. RowEarned(table[i])
      BY <1>6, <2>1 DEF RowEarned, Current
    <3>2. st.table[i].confirmed /\ ~st.held[i].confirmed => i \in overtaken
      BY <2>1 DEF SessionOK, CopyOf
    <3>3. RowStays(table[i], ended[i], i \in overtaken)
      BY <1>6, <2>1, <3>2 DEF RowStays
    <3> QED
      BY <3>1, <3>3
  <2>2. CASE i \notin ids
    BY <1>4, <1>6, <2>2
  <2> QED
    BY <2>1, <2>2
<1>12. ASSUME NEW i \in DOMAIN held
       PROVE  table[i].status \in Current /\ CopyOf(held[i], table[i], i \in overtaken)
  <2>1. i \in DOMAIN st.held /\ i \notin ids /\ i \in 1 .. n
    BY <1>2, <1>8
  <2>2. table[i] = st.table[i] /\ held[i] = st.held[i]
    BY <1>6, <1>8, <2>1
  <2> QED
    BY <2>1, <2>2 DEF SessionOK
<1>13. ASSUME NEW i \in 1 .. Len(guides) PROVE AsBefore(guides[i], table[i])
  <2>1. Len(guides) \in Nat
    BY DEF SessionOK, SessionTypes
  <2>2. i \in 1 .. n
    BY <1>2, <1>3, <2>1
  <2>3. AsBefore(guides[i], st.table[i])
    BY DEF SessionOK
  <2>4. table[i].status \in Current => table[i].status = st.table[i].status
    BY <1>6, <2>2 DEF Current
  <2> QED
    BY <1>6, <2>2, <2>3, <2>4 DEF AsBefore
<1> QED
  BY <1>1, <1>7, <1>10, <1>11, <1>12, <1>13 DEF SessionOK, new, n

\* A review that is new to a guideline is its second, or a later one.
LEMMA TwoCited ==
    ASSUME LessonAssumption, NEW old \in (SUBSET Review) \ {{}}, NEW cites \in SUBSET Review,
           ~(cites \subseteq old)
    PROVE  Cardinality(old \cup cites) >= 2
<1>1. PICK a \in old : TRUE
  OBVIOUS
<1>2. PICK b \in cites : b \notin old
  OBVIOUS
<1>3. IsFiniteSet(old \cup cites)
  BY FS_Subset DEF LessonAssumption
<1>4. {a, b} \subseteq old \cup cites /\ a # b
  BY <1>2
<1>5. Cardinality({a, b}) = 2
  <2>1. IsFiniteSet({a}) /\ Cardinality({a}) = 1
    BY FS_Singleton
  <2>2. Cardinality({a} \cup {b}) = Cardinality({a}) + 1
    BY <1>4, <2>1, FS_AddElement
  <2>3. {a} \cup {b} = {a, b}
    OBVIOUS
  <2> QED
    BY <2>1, <2>2, <2>3
<1>6. Cardinality({a, b}) <= Cardinality(old \cup cites) /\ Cardinality(old \cup cites) \in Nat
  BY <1>3, <1>4, FS_Subset, FS_CardinalityType
<1> QED
  BY <1>5, <1>6

LEMMA SupportedOK ==
    ASSUME LessonAssumption, NEW st, SessionOK(st), NEW k \in DOMAIN st.held,
           NEW cites \in SUBSET Review
    PROVE  SessionOK(Supported(st, k, cites))
<1> DEFINE n == Len(st.table)
           old == st.held[k]
           copy == Settled([old EXCEPT !.cites = @ \cup cites])
           g == st.table[k]
           row == [g EXCEPT !.cites = copy.cites,
                            !.status = IF copy.status = old.status THEN g.status ELSE copy.status]
           table == [st.table EXCEPT ![k] = row]
           held == [st.held EXCEPT ![k] = copy]
           new == Supported(st, k, cites)
           R == GuidelineRow
<1>1. CASE cites \subseteq old.cites
  BY <1>1 DEF Supported
<1>2. CASE ~(cites \subseteq old.cites)
  <2>1. /\ st = [table |-> st.table, held |-> st.held, ended |-> st.ended]
        /\ st.table \in Seq(R) /\ st.held \in Copies(MaxGuidelines) /\ st.ended \in Seq(Fate)
        /\ Len(guides) <= n /\ n <= MaxGuidelines /\ guides \in Seq(R)
        /\ Len(st.ended) = n /\ DOMAIN st.held \subseteq 1 .. n
    BY DEF SessionOK, SessionTypes
  <2>2. /\ st.held = [i \in DOMAIN st.held |-> st.held[i]]
        /\ \A i \in DOMAIN st.held : st.held[i] \in R /\ i \in 1 .. MaxGuidelines
    BY <2>1, CopiesAre
  <2>3. k \in 1 .. n /\ g \in R /\ old \in R
    <3> HIDE DEF R
    <3> QED
      BY <2>1, <2>2
  <2>4. [old EXCEPT !.cites = @ \cup cites] \in R /\ old.cites \in (SUBSET Review) \ {{}}
    BY <2>3 DEF GuidelineRow
  <2>5. /\ [old EXCEPT !.cites = @ \cup cites].cites = old.cites \cup cites
        /\ [old EXCEPT !.cites = @ \cup cites].confirmed = old.confirmed
    BY <2>3 DEF GuidelineRow
  <2>6. Cardinality(old.cites \cup cites) >= 2
    BY <1>2, <2>4, TwoCited
  <2>7. /\ copy \in R /\ copy.status = "active" /\ RowEarned(copy)
        /\ copy.cites = old.cites \cup cites /\ copy.confirmed = old.confirmed
    <3>1. Earned([old EXCEPT !.cites = @ \cup cites])
      BY <2>5, <2>6 DEF Earned
    <3> QED
      BY <2>4, <2>5, <3>1, SettledIs
  <2>8. g.status \in Current /\ CopyOf(old, g, k \in overtaken) /\ RowEarned(g)
    BY <2>3 DEF SessionOK
  <2> HIDE DEF copy
  <2>9. row \in R /\ row.confirmed = g.confirmed /\ row.status = "active"
        /\ row.cites = old.cites \cup cites
    <3>1. copy.cites \in (SUBSET Review) \ {{}}
      BY <2>7 DEF GuidelineRow
    <3>2. (IF copy.status = old.status THEN g.status ELSE copy.status) = "active"
      BY <2>7, <2>8 DEF CopyOf
    <3>3. row = [g EXCEPT !.cites = copy.cites, !.status = "active"]
      BY <3>2, <2>3 DEF GuidelineRow
    <3> QED
      BY <2>3, <2>7, <3>1, <3>3 DEF GuidelineRow
  <2>10. RowEarned(row)
    BY <2>6, <2>9 DEF RowEarned, Earned
  <2>11. new = [table |-> table, held |-> held, ended |-> st.ended]
    <3>1. new = [st EXCEPT !.held[k] = copy, !.table[k] = row]
      BY <1>2 DEF Supported, copy
    <3> HIDE DEF row
    <3> QED
      BY <2>1, <3>1
  <2> HIDE DEF row
  <2>12. /\ table \in Seq(R) /\ Len(table) = n /\ table[k] = row
         /\ \A i \in (1 .. n) \ {k} : table[i] = st.table[i]
    <3> HIDE DEF R
    <3> QED
      BY <2>1, <2>3, <2>9
  <2>13. /\ DOMAIN held = DOMAIN st.held /\ held = [i \in DOMAIN held |-> held[i]]
         /\ held[k] = copy /\ \A i \in DOMAIN held \ {k} : held[i] = st.held[i]
    BY <2>2
  <2> HIDE DEF table, held
  <2>14. held \in Copies(MaxGuidelines)
    <3>1. \A i \in DOMAIN held : held[i] \in R /\ i \in 1 .. MaxGuidelines
      BY <2>2, <2>7, <2>13
    <3> QED
      BY <2>13, <3>1, CopiesAre
  <2> HIDE DEF new
  <2>15. SessionTypes(new)
    <3> HIDE DEF R
    <3> QED
      BY <2>1, <2>11, <2>12, <2>13, <2>14 DEF SessionTypes, R
  <2>16. ASSUME NEW i \in 1 .. n
         PROVE  RowEarned(table[i]) /\ RowStays(table[i], st.ended[i], i \in overtaken)
    <3>1. CASE i = k
      BY <2>9, <2>10, <2>12, <3>1 DEF RowStays
    <3>2. CASE i # k
      BY <2>12, <3>2 DEF SessionOK
    <3> QED
      BY <3>1, <3>2
  <2>17. ASSUME NEW i \in DOMAIN held
         PROVE  table[i].status \in Current /\ CopyOf(held[i], table[i], i \in overtaken)
    <3>1. CASE i = k
      <4>1. CopyOf(copy, row, i \in overtaken)
        BY <2>7, <2>8, <2>9, <3>1 DEF CopyOf, Current
      <4> QED
        BY <2>9, <2>12, <2>13, <3>1, <4>1 DEF Current
    <3>2. CASE i # k
      <4>1. i \in DOMAIN st.held /\ i \in 1 .. n
        BY <2>1, <2>13
      <4> QED
        BY <2>12, <2>13, <3>2, <4>1 DEF SessionOK
    <3> QED
      BY <3>1, <3>2
  <2>18. ASSUME NEW i \in 1 .. Len(guides) PROVE AsBefore(guides[i], table[i])
    <3>1. Len(guides) \in Nat /\ n \in Nat
      BY <2>1
    <3>2. i \in 1 .. n
      BY <2>1, <3>1
    <3>3. AsBefore(guides[i], st.table[i])
      BY DEF SessionOK
    <3>4. CASE i = k
      BY <2>8, <2>9, <2>12, <3>3, <3>4 DEF AsBefore
    <3>5. CASE i # k
      BY <2>12, <3>2, <3>3, <3>5
    <3> QED
      BY <3>4, <3>5
  <2> QED
    BY <2>11, <2>12, <2>15, <2>16, <2>17, <2>18 DEF SessionOK, new, n
<1> QED
  BY <1>1, <1>2

\* Merging keeps a session within its types and its copies true.
LEMMA MergedOK ==
    ASSUME LessonAssumption, NEW st, SessionOK(st), NEW t \in Learner,
           NEW ids, ids \subseteq DOMAIN st.held, NEW cites \in SUBSET Review, cites # {}
    PROVE  SessionOK(Merged(st, t, ids, cites))
<1> DEFINE all == cites \cup UNION {st.held[i].cites : i \in ids}
<1>1. CASE Len(st.table) = MaxGuidelines
  BY <1>1 DEF Merged
<1>2. CASE Len(st.table) # MaxGuidelines
  <2>1. \A i \in ids : st.held[i].cites \in SUBSET Review
    <3>1. st.held \in Copies(MaxGuidelines)
      BY DEF SessionOK, SessionTypes
    <3>2. \A i \in ids : st.held[i] \in GuidelineRow
      BY <3>1, CopiesAre
    <3> QED
      BY <3>2 DEF GuidelineRow
  <2>2. all \in SUBSET Review /\ all # {}
    BY <2>1
  <2>3. Merged(st, t, ids, cites) = Retiring(Added(st, t, all), ids, "merged")
    BY <1>2 DEF Merged
  <2> HIDE DEF all
  <2>4. SessionOK(Added(st, t, all)) /\ ids \subseteq DOMAIN Added(st, t, all).held
    BY <2>2, AddedOK
  <2>5. "merged" \in Fate
    BY DEF Fate
  <2> QED
    BY <2>3, <2>4, <2>5, RetiringOK
<1> QED
  BY <1>1, <1>2

\* So does retiring.
LEMMA RetiredOK ==
    ASSUME LessonAssumption, NEW st, SessionOK(st), NEW i \in DOMAIN st.held
    PROVE  SessionOK(Retired(st, i))
<1>1. CASE st.held[i].confirmed
  BY <1>1 DEF Retired
<1>2. CASE ~st.held[i].confirmed
  <2>1. "retired" \in Fate /\ {i} \subseteq DOMAIN st.held
    BY DEF Fate
  <2>2. \A j \in {i} : ~st.held[j].confirmed
    BY <1>2
  <2>3. SessionOK(Retiring(st, {i}, "retired"))
    BY <2>1, <2>2, RetiringOK
  <2> QED
    BY <1>2, <2>3 DEF Retired
<1> QED
  BY <1>1, <1>2

\* One edit, whatever rows it names.
LEMMA AppliedOK ==
    ASSUME LessonAssumption, NEW st, SessionOK(st), NEW t \in Learner,
           NEW evidence \in SUBSET Review, NEW e \in Edits(evidence)
    PROVE  SessionOK(Applied(t, st, e))
<1>1. /\ e.op \in {"add", "support", "merge", "retire"}
      /\ e.cites \in SUBSET Review /\ e.cites # {}
      /\ e.op \in {"support", "retire"} => Cardinality(e.of) = 1
      /\ IsFiniteSet(e.of)
  <2>1. e.of \in SUBSET (1 .. MaxGuidelines)
    BY DEF Edits
  <2>2. IsFiniteSet(1 .. MaxGuidelines)
    BY FS_Interval DEF LessonAssumption
  <2>3. IsFiniteSet(e.of)
    BY <2>1, <2>2, FS_Subset
  <2>4. /\ e.op \in {"add", "support", "merge", "retire"}
        /\ e.cites \in (SUBSET evidence) \ {{}}
    BY DEF Edits
  <2>5. e.op \in {"support", "retire"} => Cardinality(e.of) = 1
    BY DEF Edits
  <2> QED
    BY <2>3, <2>4, <2>5
<1>2. CASE ~(e.of \subseteq DOMAIN st.held)
  BY <1>2 DEF Applied
<1>3. CASE e.of \subseteq DOMAIN st.held /\ e.op = "add"
  <2>1. SessionOK(Added(st, t, e.cites))
    BY <1>1, AddedOK
  <2> QED
    BY <1>3, <2>1 DEF Applied
<1>4. CASE e.of \subseteq DOMAIN st.held /\ e.op = "merge"
  <2>1. SessionOK(Merged(st, t, e.of, e.cites))
    BY <1>1, <1>4, MergedOK
  <2> QED
    BY <1>4, <2>1 DEF Applied
<1>5. CASE e.of \subseteq DOMAIN st.held /\ e.op \in {"support", "retire"}
  <2> DEFINE k == CHOOSE i \in e.of : TRUE
  <2>1. e.of # {}
    BY <1>1, <1>5, FS_EmptySet
  <2>2. k \in DOMAIN st.held
    BY <1>5, <2>1
  <2>3. Applied(t, st, e) = IF e.op = "support" THEN Supported(st, k, e.cites) ELSE Retired(st, k)
    BY <1>5 DEF Applied
  <2> HIDE DEF k
  <2>4. SessionOK(Supported(st, k, e.cites)) /\ SessionOK(Retired(st, k))
    BY <1>1, <2>2, SupportedOK, RetiredOK
  <2> QED
    BY <2>3, <2>4
<1> QED
  BY <1>1, <1>2, <1>3, <1>4, <1>5

-----------------------------------------------------------------------------
\* The rows a run reads, and what they are worth.
LEMMA CopyOfRow ==
    ASSUME LessonInv, NEW t, NEW i \in CurrentOf(t)
    PROVE  /\ i \in Guideline /\ guides[i] \in GuidelineRow /\ guides[i].status \in Current
           /\ CopyOf(guides[i], guides[i], i \in overtaken)
<1>1. i \in Guideline /\ guides[i].status \in Current
  BY DEF CurrentOf
<1>2. RowEarned(guides[i])
  BY <1>1 DEF LessonInv
<1>3. guides[i] \in GuidelineRow
  <2> DEFINE R == GuidelineRow
  <2> HIDE DEF R
  <2>1. guides \in Seq(R) /\ i \in 1 .. Len(guides)
    BY <1>1 DEF LessonInv, LessonTypes, Guideline, R
  <2>2. guides[i] \in R
    BY <2>1
  <2> QED
    BY <2>2 DEF R
<1> QED
  BY <1>1, <1>2, <1>3 DEF CopyOf

\* The edits of an answer start from rows and copies that are in order.
LEMMA AnswerStarts ==
    ASSUME LessonAssumption, LessonInv, NEW x \in LessonRun, NEW t, NEW held,
           held = [i \in CurrentOf(t) |-> IF i \in DOMAIN lesson[x].seen THEN lesson[x].seen[i]
                                          ELSE guides[i]]
    PROVE  SessionOK([table |-> guides, held |-> held, ended |-> fate])
<1> DEFINE st == [table |-> guides, held |-> held, ended |-> fate]
           R == GuidelineRow
<1>1. st.table = guides /\ st.held = held /\ st.ended = fate
  OBVIOUS
<1>2. /\ guides \in Seq(R) /\ Len(guides) <= MaxGuidelines /\ Len(guides) \in Nat
      /\ fate \in Seq(Fate) /\ Len(fate) = Len(guides)
  BY DEF LessonInv, LessonTypes
<1>3. lesson[x].seen \in Copies(Len(guides))
  BY DEF LessonInv, LessonTypes, RunState
<1>4. ASSUME NEW i \in CurrentOf(t)
      PROVE  /\ i \in 1 .. Len(guides) /\ held[i] \in R /\ guides[i].status \in Current
             /\ CopyOf(held[i], guides[i], i \in overtaken)
  <2>1. /\ i \in Guideline /\ guides[i] \in R /\ guides[i].status \in Current
        /\ CopyOf(guides[i], guides[i], i \in overtaken)
    BY CopyOfRow
  <2>2. CASE i \in DOMAIN lesson[x].seen
    <3>1. held[i] = lesson[x].seen[i]
      BY <2>2
    <3>2. held[i] \in R
      BY <1>3, <2>2, <3>1, CopiesAre
    <3>3. CopyOf(held[i], guides[i], i \in overtaken)
      BY <2>2, <3>1 DEF LessonInv, CopiesTrue
    <3> QED
      BY <2>1, <3>2, <3>3 DEF Guideline
  <2>3. CASE i \notin DOMAIN lesson[x].seen
    <3>1. held[i] = guides[i]
      BY <2>3
    <3> QED
      BY <2>1, <3>1 DEF Guideline
  <2> QED
    BY <2>2, <2>3
<1>5. DOMAIN held = CurrentOf(t) /\ held = [i \in DOMAIN held |-> held[i]]
  OBVIOUS
<1>6. DOMAIN held \subseteq 1 .. Len(guides) /\ DOMAIN held \subseteq 1 .. MaxGuidelines
  <2>1. MaxGuidelines \in Nat
    BY DEF LessonAssumption
  <2> QED
    BY <1>2, <1>4, <1>5, <2>1
<1>7. held \in Copies(MaxGuidelines)
  <2> HIDE DEF R
  <2>1. \A i \in DOMAIN held : held[i] \in R
    BY <1>4, <1>5
  <2> QED
    BY <1>5, <1>6, <2>1, CopiesAre DEF R
<1>8. SessionTypes(st)
  <2> HIDE DEF R
  <2>1. st \in [table : Seq(R), held : Copies(MaxGuidelines), ended : Seq(Fate)]
    BY <1>2, <1>7
  <2> QED
    BY <1>1, <1>2, <1>6, <2>1 DEF SessionTypes, R
<1>9. \A i \in 1 .. Len(guides) : RowEarned(guides[i]) /\ RowStays(guides[i], fate[i], i \in overtaken)
  BY DEF LessonInv, Guideline
<1>10. \A i \in 1 .. Len(guides) : AsBefore(guides[i], guides[i])
  BY DEF AsBefore
<1> HIDE DEF st
<1>11. SessionOK(st)
  BY <1>1, <1>4, <1>5, <1>8, <1>9, <1>10 DEF SessionOK
<1> QED
  BY <1>11 DEF st

\* What a run makes of an answer: all its edits.
LEMMA AnswerEnds ==
    ASSUME LessonAssumption, LessonInv, NEW x \in LessonRun, Answer(x)
    PROVE  \E st : SessionOK(st) /\ guides' = st.table /\ fate' = st.ended
<1> DEFINE t == lesson[x].asked
           held == [i \in CurrentOf(t) |-> IF i \in DOMAIN lesson[x].seen THEN lesson[x].seen[i]
                                           ELSE guides[i]]
           start == [table |-> guides, held |-> held, ended |-> fate]
           ev == Teaching(x, t)
<1>1. t # "" /\ \E n \in 0 .. MaxEdits : \E edits \in [1 .. n -> Edits(ev)] :
          /\ guides' = AllApplied(t, start, edits).table
          /\ fate' = AllApplied(t, start, edits).ended
  BY DEF Answer
<1>2. PICK n \in 0 .. MaxEdits : \E edits \in [1 .. n -> Edits(ev)] :
          /\ guides' = AllApplied(t, start, edits).table
          /\ fate' = AllApplied(t, start, edits).ended
  BY <1>1
<1>3. PICK edits \in [1 .. n -> Edits(ev)] :
          /\ guides' = AllApplied(t, start, edits).table
          /\ fate' = AllApplied(t, start, edits).ended
  BY <1>2
<1>4. t \in Learner /\ ev \in SUBSET Review
  <2>1. lesson[x] \in RunState(Len(guides))
    BY DEF LessonInv, LessonTypes
  <2>2. t \in Learner \cup {""} /\ lesson[x].rows \in SUBSET Review
    BY <2>1 DEF RunState
  <2> QED
    BY <1>1, <2>2 DEF Teaching
<1>5. SessionOK(start)
  BY AnswerStarts
<1> DEFINE Sessions == [table : Seq(GuidelineRow), held : Copies(MaxGuidelines), ended : Seq(Fate)]
           St == {st \in Sessions : SessionOK(st)}
<1> HIDE DEF start, held, ev, t, Sessions
<1>6. \A st : st \in St <=> SessionOK(st)
  BY DEF SessionOK, SessionTypes, Sessions
<1> HIDE DEF St
<1>7. DOMAIN edits = 1 .. n /\ n \in Nat /\ \A k \in 1 .. n : edits[k] \in Edits(ev)
  BY DEF LessonAssumption
<1>8. \A st \in St, k \in 1 .. n : Applied(t, st, edits[k]) \in St
  BY <1>4, <1>6, <1>7, AppliedOK
<1>9. start \in St
  BY <1>5, <1>6
<1>10. AllApplied(t, start, edits) \in St
  BY <1>7, <1>8, <1>9, EditsFold
<1> QED
  BY <1>3, <1>6, <1>10

\* More rows make no copy wrong.
LEMMA MoreRows ==
    ASSUME NEW m \in Nat, NEW n \in Nat, m <= n, NEW run \in RunState(m)
    PROVE  run \in RunState(n)
<1>1. run.seen \in Copies(m)
  BY DEF RunState
<1>2. run.seen \in Copies(n)
  <2>1. 1 .. m \subseteq 1 .. n
    OBVIOUS
  <2> QED
    BY <1>1, <2>1, CopiesAre
<1> QED
  BY <1>2 DEF RunState

\* A run that is resting, or has its answer, holds no copy.
LEMMA EmptyHands ==
    ASSUME NEW n \in Nat
    PROVE  /\ [Resting EXCEPT !.at = "over"] \in RunState(n)
           /\ DOMAIN [Resting EXCEPT !.at = "over"].seen = {}
           /\ \A run \in RunState(n) :
                 /\ [run EXCEPT !.asked = "", !.seen = <<>>, !.left = @ \ {run.asked}] \in RunState(n)
                 /\ DOMAIN [run EXCEPT !.asked = "", !.seen = <<>>, !.left = @ \ {run.asked}].seen = {}
<1> DEFINE none == <<>>
           Learned(run) == [run EXCEPT !.asked = "", !.seen = none, !.left = @ \ {run.asked}]
<1>1. DOMAIN none = {} /\ none = [i \in {} |-> none[i]]
  OBVIOUS
<1>2. Resting = [at |-> "idle", rows |-> {}, failed |-> {}, left |-> {}, asked |-> "",
                 seen |-> none]
  BY DEF Resting
<1> HIDE DEF none
<1>3. none \in Copies(n)
  BY <1>1, CopiesAre
<1>4. Resting \in RunState(n) /\ Resting.seen = none
  BY <1>2, <1>3 DEF RunState
<1>5. [Resting EXCEPT !.at = "over"] \in RunState(n) /\ [Resting EXCEPT !.at = "over"].seen = none
  BY <1>4 DEF RunState
<1>6. ASSUME NEW run \in RunState(n)
      PROVE  Learned(run) \in RunState(n) /\ Learned(run).seen = none
  <2>1. run.left \ {run.asked} \in SUBSET Learner
    BY DEF RunState
  <2> QED
    BY <1>3, <2>1 DEF RunState
<1> QED
  BY <1>1, <1>5, <1>6 DEF none

\* A step that changes one run, which then holds true copies, and no row.
LEMMA OneRun ==
    ASSUME LessonInv, NEW x \in LessonRun, NEW run, run \in RunState(Len(guides)),
           lesson' = [lesson EXCEPT ![x] = run], UNCHANGED <<guides, fate, overtaken>>,
           outcome' \in [Review -> [row : {"none", "pending", "learned"}, teaches : SUBSET Learner]],
           \A i \in DOMAIN run.seen : CopyOf(run.seen[i], guides[i], i \in overtaken)
    PROVE  LessonInv'
<1>1. lesson \in [LessonRun -> RunState(Len(guides))]
  BY DEF LessonInv, LessonTypes
<1>2. lesson' \in [LessonRun -> RunState(Len(guides'))]
  <2> DEFINE S == RunState(Len(guides))
  <2>1. S = RunState(Len(guides'))
    OBVIOUS
  <2> HIDE DEF S
  <2>2. lesson' \in [LessonRun -> S]
    BY <1>1 DEF S
  <2> QED
    BY <2>1, <2>2
<1>3. LessonTypes'
  BY <1>2 DEF LessonInv, LessonTypes
<1>4. \A i \in Guideline' : (RowEarned(guides[i]) /\ RowStays(guides[i], fate[i], i \in overtaken))'
  <2>1. Guideline' = Guideline
    BY DEF Guideline
  <2>2. \A i \in Guideline : RowEarned(guides[i]) /\ RowStays(guides[i], fate[i], i \in overtaken)
    BY DEF LessonInv
  <2> QED
    BY <2>1, <2>2 DEF RowEarned, RowStays, Earned, Current
<1>5. ASSUME NEW y \in LessonRun PROVE CopiesTrue(y)'
  <2>1. CASE y = x
    <3>1. lesson'[y] = run
      BY <1>1, <2>1
    <3> QED
      BY <3>1 DEF CopiesTrue, CopyOf, RowEarned, Earned, Current
  <2>2. CASE y # x
    <3>1. lesson'[y] = lesson[y]
      BY <1>1, <2>2
    <3>2. CopiesTrue(y)
      BY DEF LessonInv
    <3> QED
      BY <3>1, <3>2 DEF CopiesTrue, CopyOf, RowEarned, Earned, Current
  <2> QED
    BY <2>1, <2>2
<1> QED
  BY <1>3, <1>4, <1>5 DEF LessonInv

\* The model's answer: its edits are made one after another to rows and copies that stay true.
LEMMA AnswerSteps ==
    ASSUME LessonAssumption, LessonInv, NEW x \in LessonRun, Answer(x) PROVE LessonInv'
<1>1. PICK st : SessionOK(st) /\ guides' = st.table /\ fate' = st.ended
  BY AnswerEnds
<1>2. /\ guides' \in Seq(GuidelineRow) /\ Len(guides') <= MaxGuidelines
      /\ fate' \in Seq(Fate) /\ Len(fate') = Len(guides')
      /\ Len(guides) <= Len(guides')
  BY <1>1 DEF SessionOK, SessionTypes
<1>3. /\ outcome' = outcome /\ overtaken' = overtaken
      /\ lesson' = [lesson EXCEPT ![x] = Answered(x)]
  BY DEF Answer
<1>4. /\ lesson \in [LessonRun -> RunState(Len(guides))] /\ guides \in Seq(GuidelineRow)
      /\ outcome \in [Review -> [row : {"none", "pending", "learned"}, teaches : SUBSET Learner]]
  BY DEF LessonInv, LessonTypes
<1>5. Len(guides) \in Nat /\ Len(guides') \in Nat
  BY <1>2, <1>4
<1>6. Answered(x) \in RunState(Len(guides)) /\ DOMAIN Answered(x).seen = {}
  <2>1. lesson[x] \in RunState(Len(guides))
    BY <1>4
  <2> QED
    BY <1>5, <2>1, EmptyHands DEF Answered
<1>7. /\ lesson'[x] = Answered(x)
      /\ \A y \in LessonRun \ {x} : lesson'[y] = lesson[y]
      /\ lesson' = [y \in LessonRun |-> lesson'[y]]
  BY <1>3, <1>4
<1>8. LessonTypes'
  <2>1. \A y \in LessonRun : lesson'[y] \in RunState(Len(guides))
    BY <1>4, <1>6, <1>7
  <2>2. \A y \in LessonRun : lesson'[y] \in RunState(Len(guides'))
    BY <1>2, <1>5, <2>1, MoreRows
  <2>3. lesson' \in [LessonRun -> RunState(Len(guides'))]
    BY <1>7, <2>2
  <2> QED
    BY <1>2, <1>3, <1>4, <2>3 DEF LessonTypes
<1>9. \A i \in Guideline' : (RowEarned(guides[i]) /\ RowStays(guides[i], fate[i], i \in overtaken))'
  <2>1. \A i \in 1 .. Len(st.table) :
          RowEarned(st.table[i]) /\ RowStays(st.table[i], st.ended[i], i \in overtaken)
    BY <1>1 DEF SessionOK
  <2>2. \A i \in 1 .. Len(guides') :
          RowEarned(guides'[i]) /\ RowStays(guides'[i], fate'[i], i \in overtaken')
    BY <1>1, <1>3, <2>1
  <2> QED
    BY <2>2 DEF Guideline, RowEarned, RowStays, Earned, Current
<1>10. ASSUME NEW y \in LessonRun PROVE CopiesTrue(y)'
  <2>1. CASE y = x
    BY <1>6, <1>7, <2>1 DEF CopiesTrue
  <2>2. CASE y # x
    <3>1. lesson'[y] = lesson[y]
      BY <1>7, <2>2
    <3>2. ASSUME NEW i \in DOMAIN lesson[y].seen
          PROVE  CopyOf(lesson[y].seen[i], guides'[i], i \in overtaken)
      <4>1. CopyOf(lesson[y].seen[i], guides[i], i \in overtaken)
        BY DEF LessonInv, CopiesTrue
      <4>2. i \in 1 .. Len(guides)
        <5>1. lesson[y].seen \in Copies(Len(guides))
          BY <1>4 DEF RunState
        <5> QED
          BY <5>1, CopiesAre
      <4>3. AsBefore(guides[i], guides'[i])
        BY <1>1, <4>2 DEF SessionOK
      <4> QED
        BY <4>1, <4>3 DEF CopyOf, AsBefore
    <3> QED
      BY <1>3, <3>1, <3>2 DEF CopiesTrue, CopyOf, RowEarned, Earned, Current
  <2> QED
    BY <2>1, <2>2
<1> QED
  BY <1>8, <1>9, <1>10 DEF LessonInv

\* A step that leaves the rows, and holds no copy that was not held.
LEMMA RunSteps ==
    ASSUME LessonAssumption, LessonInv, NEW x \in LessonRun,
           \/ StartLesson(x) \/ PauseJudges(x) \/ NoAnswer(x) \/ MarkLearned(x) \/ BreakLesson(x)
    PROVE  LessonInv'
<1> DEFINE run == lesson[x]
           S == RunState(Len(guides))
           O == [Review -> [row : {"none", "pending", "learned"}, teaches : SUBSET Learner]]
           over == [Resting EXCEPT !.at = "over"]
           Rows(r) == DOMAIN r.seen = {} \/ r.seen = run.seen
<1>1. lesson \in [LessonRun -> S] /\ run \in S /\ outcome \in O /\ Len(guides) \in Nat
  <2>1. guides \in Seq(GuidelineRow)
    BY DEF LessonInv, LessonTypes
  <2> QED
    BY <2>1 DEF LessonInv, LessonTypes
<1>2. over \in S /\ Rows(over)
  BY <1>1, EmptyHands
<1>3. UNCHANGED <<guides, fate, overtaken>>
  BY DEF StartLesson, EndLesson, PauseJudges, NoAnswer, MarkLearned, BreakLesson
<1>4. outcome' \in O
  <2>1. CASE MarkLearned(x)
    <3>1. outcome' = [r \in Review |-> IF r \in lesson[x].rows \ lesson[x].failed
                                      THEN [outcome[r] EXCEPT !.row = "learned"] ELSE outcome[r]]
      BY <2>1 DEF MarkLearned
    <3>2. \A o \in [row : {"none", "pending", "learned"}, teaches : SUBSET Learner] :
            [o EXCEPT !.row = "learned"] \in [row : {"none", "pending", "learned"},
                                             teaches : SUBSET Learner]
      OBVIOUS
    <3> QED
      BY <1>1, <3>1, <3>2
  <2>2. CASE ~MarkLearned(x)
    <3>1. outcome' = outcome
      BY <2>2 DEF StartLesson, PauseJudges, NoAnswer, BreakLesson
    <3> QED
      BY <1>1, <3>1
  <2> QED
    BY <2>1, <2>2
<1>5. \E new \in S : Rows(new) /\ lesson' = [lesson EXCEPT ![x] = new]
  <2>1. CASE StartLesson(x)
    <3> DEFINE rows == {r \in Review : outcome[r].row = "pending"}
               targets == UNION {outcome[r].teaches : r \in rows}
               new == [run EXCEPT !.at = "learning", !.rows = rows, !.left = targets]
    <3>1. \A r \in rows : outcome[r].teaches \in SUBSET Learner
      BY <1>1
    <3>2. targets \in SUBSET Learner /\ rows \in SUBSET Review
      BY <3>1
    <3>3. \/ lesson' = [lesson EXCEPT ![x] = over]
          \/ lesson' = [lesson EXCEPT ![x] = new]
      BY <2>1 DEF StartLesson, EndLesson
    <3> HIDE DEF rows, targets
    <3>4. new \in S /\ new.seen = run.seen
      BY <1>1, <3>2 DEF RunState
    <3> HIDE DEF new, over, S
    <3> QED
      BY <1>2, <3>3, <3>4
  <2>2. CASE PauseJudges(x)
    <3> DEFINE new == [run EXCEPT !.left = @ \ {Judges}]
    <3>1. lesson' = [lesson EXCEPT ![x] = new]
      BY <2>2 DEF PauseJudges
    <3>2. run.left \ {Judges} \in SUBSET Learner
      BY <1>1 DEF RunState
    <3>3. new \in S /\ new.seen = run.seen
      BY <1>1, <3>2 DEF RunState
    <3> HIDE DEF new, S
    <3> QED
      BY <3>1, <3>3
  <2>3. CASE NoAnswer(x)
    <3> DEFINE lost == IF run.asked = Judges THEN run.rows ELSE Teaching(x, run.asked)
               answered == Answered(x)
               new == [answered EXCEPT !.failed = @ \cup lost]
    <3>1. lesson' = [lesson EXCEPT ![x] = new]
      BY <2>3 DEF NoAnswer
    <3>2. lost \in SUBSET Review
      BY <1>1 DEF RunState, Teaching
    <3>3. answered \in S /\ DOMAIN answered.seen = {}
      BY <1>1, EmptyHands DEF Answered
    <3> HIDE DEF lost, answered
    <3>4. answered.failed \cup lost \in SUBSET Review
      BY <3>2, <3>3 DEF RunState
    <3>5. new \in S /\ new.seen = answered.seen
      BY <3>3, <3>4 DEF RunState
    <3> HIDE DEF new, S
    <3> QED
      BY <3>1, <3>3, <3>5
  <2>4. CASE MarkLearned(x) \/ BreakLesson(x)
    <3>1. lesson' = [lesson EXCEPT ![x] = over]
      BY <2>4 DEF MarkLearned, BreakLesson, EndLesson
    <3> HIDE DEF over, S
    <3> QED
      BY <1>2, <3>1
  <2> QED
    BY <2>1, <2>2, <2>3, <2>4
<1>6. PICK new \in S : Rows(new) /\ lesson' = [lesson EXCEPT ![x] = new]
  BY <1>5
<1>7. \A i \in DOMAIN new.seen : CopyOf(new.seen[i], guides[i], i \in overtaken)
  BY <1>6 DEF LessonInv, CopiesTrue
<1>8. new \in RunState(Len(guides))
  BY <1>6
<1>9. outcome' \in [Review -> [row : {"none", "pending", "learned"}, teaches : SUBSET Learner]]
  BY <1>4
<1> HIDE DEF Rows
<1> QED
  BY <1>3, <1>6, <1>7, <1>8, <1>9, OneRun

\* Asking starts a run from copies of the rows as they are.
LEMMA AskSteps ==
    ASSUME LessonAssumption, LessonInv, NEW x \in LessonRun, NEW t \in Learner, Ask(x, t)
    PROVE  LessonInv'
<1> DEFINE run == lesson[x]
           held == [i \in CurrentOf(t) |-> guides[i]]
           new == [run EXCEPT !.asked = t, !.seen = held]
<1>1. /\ lesson \in [LessonRun -> RunState(Len(guides))] /\ run \in RunState(Len(guides))
      /\ outcome \in [Review -> [row : {"none", "pending", "learned"}, teaches : SUBSET Learner]]
  BY DEF LessonInv, LessonTypes
<1>2. lesson' = [lesson EXCEPT ![x] = new]
  <2>1. lesson' = [lesson EXCEPT ![x].asked = t, ![x].seen = held]
    BY DEF Ask
  <2> HIDE DEF held
  <2> QED
    BY <1>1, <2>1
<1>3. /\ DOMAIN held = CurrentOf(t) /\ held = [i \in DOMAIN held |-> held[i]]
      /\ \A i \in DOMAIN held : held[i] = guides[i]
  OBVIOUS
<1> HIDE DEF held
<1>4. \A i \in DOMAIN held : /\ i \in 1 .. Len(guides) /\ held[i] \in GuidelineRow
                             /\ CopyOf(held[i], guides[i], i \in overtaken)
  BY <1>3, CopyOfRow DEF Guideline
<1>5. held \in Copies(Len(guides))
  BY <1>3, <1>4, CopiesAre
<1>6. new \in RunState(Len(guides)) /\ new.seen = held
  BY <1>1, <1>5 DEF RunState
<1>7. UNCHANGED <<outcome, guides, fate, overtaken>>
  BY DEF Ask
<1> HIDE DEF new
<1>8. \A i \in DOMAIN new.seen : CopyOf(new.seen[i], guides[i], i \in overtaken)
  BY <1>4, <1>6
<1>9. outcome' \in [Review -> [row : {"none", "pending", "learned"}, teaches : SUBSET Learner]]
  BY <1>1, <1>7
<1> QED
  BY <1>2, <1>6, <1>7, <1>8, <1>9, OneRun

\* A new review is of no run yet.
LEMMA SubmitReviewSteps ==
    ASSUME LessonInv, NEW r \in Review, NEW teaches \in SUBSET Learner, SubmitReview(r, teaches)
    PROVE  LessonInv'
<1>1. UNCHANGED <<guides, fate, overtaken, lesson>>
  BY DEF SubmitReview
<1>2. outcome' \in [Review -> [row : {"none", "pending", "learned"}, teaches : SUBSET Learner]]
  <2> DEFINE O == [row : {"none", "pending", "learned"}, teaches : SUBSET Learner]
             o == [row |-> "pending", teaches |-> teaches]
  <2>1. outcome \in [Review -> O] /\ outcome' = [outcome EXCEPT ![r] = o]
    BY DEF SubmitReview, LessonInv, LessonTypes
  <2>2. o \in O
    OBVIOUS
  <2> HIDE DEF O, o
  <2>3. outcome' \in [Review -> O]
    BY <2>1, <2>2
  <2> QED
    BY <2>3 DEF O
<1> QED
  BY <1>1, <1>2 DEF LessonInv, LessonTypes, Guideline, CopiesTrue, CopyOf, RowEarned, RowStays,
                    Earned, Current

\* A step of the professor changes one row, and the rest with it.
LEMMA OneGuideline ==
    ASSUME LessonInv, NEW i \in Guideline, NEW g \in GuidelineRow, NEW how \in Fate,
           guides' = [guides EXCEPT ![i] = g], fate' = [fate EXCEPT ![i] = how],
           UNCHANGED <<outcome, lesson>>, overtaken \subseteq overtaken',
           RowEarned(g), RowStays(g, how, i \in overtaken'),
           \A x \in LessonRun : i \in DOMAIN lesson[x].seen =>
               CopyOf(lesson[x].seen[i], g, i \in overtaken')
    PROVE  LessonInv'
<1> DEFINE n == Len(guides)
<1>1. /\ guides \in Seq(GuidelineRow) /\ n <= MaxGuidelines
      /\ fate \in Seq(Fate) /\ Len(fate) = n
      /\ lesson \in [LessonRun -> RunState(n)] /\ i \in 1 .. n
      /\ outcome \in [Review -> [row : {"none", "pending", "learned"}, teaches : SUBSET Learner]]
  BY DEF LessonInv, LessonTypes, Guideline
<1>2. /\ guides' \in Seq(GuidelineRow) /\ Len(guides') = n
      /\ fate' \in Seq(Fate) /\ Len(fate') = n
      /\ guides'[i] = g /\ fate'[i] = how
      /\ \A j \in (1 .. n) \ {i} : guides'[j] = guides[j] /\ fate'[j] = fate[j]
  <2> DEFINE R == GuidelineRow
             F == Fate
  <2>1. guides \in Seq(R) /\ fate \in Seq(F) /\ g \in R /\ how \in F
    BY <1>1
  <2> HIDE DEF R, F
  <2>2. /\ guides' \in Seq(R) /\ Len(guides') = n /\ guides'[i] = g
        /\ \A j \in (1 .. n) \ {i} : guides'[j] = guides[j]
    BY <1>1, <2>1
  <2>3. /\ fate' \in Seq(F) /\ Len(fate') = n /\ fate'[i] = how
        /\ \A j \in (1 .. n) \ {i} : fate'[j] = fate[j]
    BY <1>1, <2>1
  <2> QED
    BY <2>2, <2>3 DEF R, F
<1>3. LessonTypes'
  <2> DEFINE S == RunState(n)
  <2>1. S = RunState(Len(guides'))
    BY <1>2
  <2> HIDE DEF S
  <2>2. lesson' \in [LessonRun -> S]
    BY <1>1 DEF S
  <2>3. lesson' \in [LessonRun -> RunState(Len(guides'))]
    BY <2>1, <2>2
  <2> QED
    BY <1>1, <1>2, <2>3 DEF LessonTypes
<1>4. ASSUME NEW j \in 1 .. n
      PROVE  RowEarned(guides'[j]) /\ RowStays(guides'[j], fate'[j], j \in overtaken')
  <2>1. CASE j = i
    BY <1>2, <2>1
  <2>2. CASE j # i
    <3>1. RowEarned(guides[j]) /\ RowStays(guides[j], fate[j], j \in overtaken)
      BY DEF LessonInv, Guideline
    <3>2. guides'[j] = guides[j] /\ fate'[j] = fate[j]
      BY <1>2, <2>2
    <3> QED
      BY <3>1, <3>2 DEF RowStays
  <2> QED
    BY <2>1, <2>2
<1>5. \A j \in Guideline' : (RowEarned(guides[j]) /\ RowStays(guides[j], fate[j], j \in overtaken))'
  <2>1. Guideline' = 1 .. n
    BY <1>2 DEF Guideline
  <2> QED
    BY <1>4, <2>1 DEF RowEarned, RowStays, Earned, Current
<1>6. ASSUME NEW x \in LessonRun PROVE CopiesTrue(x)'
  <2>1. ASSUME NEW j \in DOMAIN lesson[x].seen
        PROVE  CopyOf(lesson[x].seen[j], guides'[j], j \in overtaken')
    <3>1. CASE j = i
      BY <1>2, <3>1
    <3>2. CASE j # i
      <4>1. CopyOf(lesson[x].seen[j], guides[j], j \in overtaken)
        BY DEF LessonInv, CopiesTrue
      <4>2. j \in 1 .. n
        <5>1. lesson[x].seen \in Copies(n)
          BY <1>1 DEF RunState
        <5> QED
          BY <5>1, CopiesAre
      <4>3. guides'[j] = guides[j]
        BY <1>2, <3>2, <4>2
      <4> QED
        BY <4>1, <4>3 DEF CopyOf
    <3> QED
      BY <3>1, <3>2
  <2> QED
    BY <2>1 DEF CopiesTrue, CopyOf, RowEarned, Earned, Current
<1> QED
  BY <1>3, <1>5, <1>6 DEF LessonInv

\* What the professor may act on: a current row.
LEMMA RowOf ==
    ASSUME LessonInv, NEW i \in Guideline
    PROVE  guides[i] \in GuidelineRow /\ fate[i] \in Fate
           /\ guides \in Seq(GuidelineRow) /\ fate = [fate EXCEPT ![i] = fate[i]]
<1> DEFINE R == GuidelineRow
           F == Fate
<1>1. guides \in Seq(R) /\ fate \in Seq(F) /\ i \in 1 .. Len(guides) /\ Len(fate) = Len(guides)
  BY DEF LessonInv, LessonTypes, Guideline
<1> HIDE DEF R, F
<1>2. guides[i] \in R /\ fate[i] \in F /\ fate = [fate EXCEPT ![i] = fate[i]]
  BY <1>1
<1> QED
  BY <1>1, <1>2 DEF R, F

\* Confirming a guideline changes no evidence.
LEMMA ConfirmSteps ==
    ASSUME LessonAssumption, LessonInv, NEW i \in Guideline, Confirm(i) PROVE LessonInv'
<1> DEFINE g == guides[i]
           new == Settled([g EXCEPT !.confirmed = TRUE])
<1>1. g \in GuidelineRow /\ fate[i] \in Fate /\ fate = [fate EXCEPT ![i] = fate[i]]
  BY RowOf
<1>2. g.status \in Current
  BY DEF Confirm
<1>3. [g EXCEPT !.confirmed = TRUE] \in GuidelineRow /\ [g EXCEPT !.confirmed = TRUE].confirmed
  BY <1>1 DEF GuidelineRow
<1>4. new \in GuidelineRow /\ RowEarned(new) /\ new.confirmed /\ new.status = "active"
  BY <1>3, SettledIs DEF Earned
<1>5. /\ guides' = [guides EXCEPT ![i] = new] /\ UNCHANGED <<outcome, lesson>>
      /\ fate' = [fate EXCEPT ![i] = fate[i]]
  <2>1. guides' = [guides EXCEPT ![i] = new] /\ UNCHANGED <<outcome, lesson, fate>>
    BY DEF Confirm
  <2> QED
    BY <1>1, <2>1
<1>6. overtaken \subseteq overtaken'
      /\ \A x \in LessonRun : i \in DOMAIN lesson[x].seen => i \in overtaken'
  BY DEF Confirm
<1> HIDE DEF new
<1>7. RowStays(new, fate[i], i \in overtaken')
  BY <1>4 DEF RowStays
<1>8. ASSUME NEW x \in LessonRun, i \in DOMAIN lesson[x].seen
      PROVE  CopyOf(lesson[x].seen[i], new, i \in overtaken')
  <2>1. CopyOf(lesson[x].seen[i], g, i \in overtaken)
    BY <1>8 DEF LessonInv, CopiesTrue
  <2> QED
    BY <1>4, <1>6, <1>8, <2>1 DEF CopyOf
<1> QED
  BY <1>1, <1>4, <1>5, <1>6, <1>7, <1>8, OneGuideline

\* Deleting one keeps what the others rest on.
LEMMA DeleteGuidelineSteps ==
    ASSUME LessonAssumption, LessonInv, NEW i \in Guideline, DeleteGuideline(i) PROVE LessonInv'
<1> DEFINE g == guides[i]
           new == [g EXCEPT !.status = "retired"]
<1>1. g \in GuidelineRow
  BY RowOf
<1>2. new \in GuidelineRow /\ new.status = "retired" /\ new.confirmed = g.confirmed
  BY <1>1 DEF GuidelineRow
<1>3. RowEarned(new)
  BY <1>2 DEF RowEarned, Current
<1>4. /\ guides' = [guides EXCEPT ![i] = new] /\ UNCHANGED <<outcome, lesson, overtaken>>
      /\ fate' = [fate EXCEPT ![i] = "deleted"]
  <2>1. guides' = [guides EXCEPT ![i].status = "retired"]
    BY DEF DeleteGuideline
  <2>2. guides' = [guides EXCEPT ![i] = new]
    BY <2>1
  <2> QED
    BY <2>2 DEF DeleteGuideline
<1> HIDE DEF new
<1>5. RowStays(new, "deleted", i \in overtaken') /\ "deleted" \in Fate
  BY DEF RowStays, Fate
<1>6. ASSUME NEW x \in LessonRun, i \in DOMAIN lesson[x].seen
      PROVE  CopyOf(lesson[x].seen[i], new, i \in overtaken')
  <2>1. CopyOf(lesson[x].seen[i], g, i \in overtaken)
    BY <1>6 DEF LessonInv, CopiesTrue
  <2> QED
    BY <1>2, <1>4, <2>1 DEF CopyOf, Current
<1> QED
  BY <1>2, <1>3, <1>4, <1>5, <1>6, OneGuideline

-----------------------------------------------------------------------------
\* The rows, their copies and what they are worth, in every reachable state.
THEOREM LessonsHold == LessonSpec => []LessonInv
<1> USE LessonAssumption
<1>1. LessonInit => LessonInv
  <2> SUFFICES ASSUME LessonInit PROVE LessonInv
    OBVIOUS
  <2> DEFINE none == <<>>
  <2>1. guides = none /\ fate = none /\ none \in Seq(GuidelineRow) /\ none \in Seq(Fate)
        /\ Len(none) = 0
    BY DEF LessonInit
  <2>2. Resting = [at |-> "idle", rows |-> {}, failed |-> {}, left |-> {}, asked |-> "",
                   seen |-> none]
    BY DEF Resting
  <2>3. DOMAIN none = {} /\ none = [i \in {} |-> none[i]]
    OBVIOUS
  <2> HIDE DEF none
  <2>4. none \in Copies(0)
    BY <2>3, CopiesAre
  <2>5. Resting \in RunState(0) /\ Resting.seen = none
    BY <2>2, <2>4 DEF RunState
  <2>6. lesson \in [LessonRun -> RunState(0)] /\ \A x \in LessonRun : lesson[x].seen = none
    BY <2>5 DEF LessonInit
  <2>7. outcome \in [Review -> [row : {"none", "pending", "learned"}, teaches : SUBSET Learner]]
    BY DEF LessonInit
  <2>8. LessonTypes
    <3>1. 0 <= MaxGuidelines
      BY DEF LessonAssumption
    <3> QED
      BY <2>1, <2>6, <2>7, <3>1 DEF LessonTypes
  <2>9. Guideline = {}
    BY <2>1 DEF Guideline
  <2> QED
    BY <2>3, <2>6, <2>8, <2>9 DEF LessonInv, CopiesTrue
<1>2. LessonInv /\ [LessonNext]_lessonVars => LessonInv'
  <2> SUFFICES ASSUME LessonInv, [LessonNext]_lessonVars PROVE LessonInv'
    OBVIOUS
  <2>1. ASSUME NEW r \in Review, NEW teaches \in SUBSET Learner, SubmitReview(r, teaches)
        PROVE  LessonInv'
    BY <2>1, SubmitReviewSteps
  <2>2. ASSUME NEW i \in Guideline, Confirm(i) \/ DeleteGuideline(i) PROVE LessonInv'
    BY <2>2, ConfirmSteps, DeleteGuidelineSteps
  <2>3. ASSUME NEW x \in LessonRun,
               \/ StartLesson(x) \/ PauseJudges(x) \/ NoAnswer(x) \/ MarkLearned(x) \/ BreakLesson(x)
        PROVE  LessonInv'
    BY <2>3, RunSteps
  <2>4. ASSUME NEW x \in LessonRun, Answer(x) PROVE LessonInv'
    BY <2>4, AnswerSteps
  <2>5. ASSUME NEW x \in LessonRun, NEW t \in Learner, Ask(x, t) PROVE LessonInv'
    BY <2>5, AskSteps
  <2>6. CASE UNCHANGED lessonVars
    BY <2>6 DEF lessonVars, LessonInv, LessonTypes, Guideline, CopiesTrue, CopyOf, RowEarned,
                RowStays, Earned, Current
  <2> QED
    BY <2>1, <2>2, <2>3, <2>4, <2>5, <2>6 DEF LessonNext
<1> QED
  BY <1>1, <1>2, PTL DEF LessonSpec

\* What is sent of the guidelines is what was earned, and what the professor
\* confirmed stays, whatever rounds edit the guidelines from copies of their own.
THEOREM GuidelinesEarnedAlways == LessonSpec => []GuidelinesEarned
<1>1. LessonInv => GuidelinesEarned
  BY DEF LessonInv, GuidelinesEarned, ActiveIsEarned, ConfirmedStays, RowEarned, RowStays
<1> QED
  BY <1>1, LessonsHold, PTL
===============================================================================
