----------------------------- MODULE JobContract -----------------------------
(***************************************************************************)
(* What a background job promises the professor who started it, whatever   *)
(* threads, sessions and restarts carry it out (src/app/jobs and the       *)
(* documentation at the head of its modules):                              *)
(*   - a job that has ended stays ended, and keeps nothing more;           *)
(*   - a queued job asked to stop ends at once and never begins;           *)
(*   - a running job asked to stop keeps at most the one unit of work that *)
(*     was in flight ("finishes the question in flight, already paid for"); *)
(*   - a restart leaves no job in flight.                                  *)
(* JobRunner and Rounds implement this module.                             *)
(***************************************************************************)
EXTENDS Naturals

CONSTANT Job              \* the rows that may ever exist

VARIABLES
    status,   \* status[j]: "none" before the row exists, then RoundStatus
    asked,    \* asked[j]: cancel_requested_at is set
    kept,     \* kept[j]: units of work (questions, gaps, groups) committed
    late      \* late[j]: units kept after the stop was asked for

contractVars == <<status, asked, kept, late>>

InFlight == {"queued", "running"}
Ended == {"done", "failed"}

Init == /\ status = [j \in Job |-> "none"]
        /\ asked = [j \in Job |-> FALSE]
        /\ kept = [j \in Job |-> 0]
        /\ late = [j \in Job |-> 0]

Accept(j) == /\ status[j] = "none"
             /\ status' = [status EXCEPT ![j] = "queued"]
             /\ UNCHANGED <<asked, kept, late>>

\* A job with nothing to do is done as it is accepted.
AcceptEmpty(j) == /\ status[j] = "none"
                  /\ status' = [status EXCEPT ![j] = "done"]
                  /\ UNCHANGED <<asked, kept, late>>

Begin(j) == /\ status[j] = "queued"
            /\ status' = [status EXCEPT ![j] = "running"]
            /\ UNCHANGED <<asked, kept, late>>

\* A unit is kept.  Once a stop is asked for, one more may be: the unit that
\* was in flight.
Keep(j) == /\ status[j] = "running"
           /\ kept' = [kept EXCEPT ![j] = @ + 1]
           /\ \/ ~asked[j] /\ UNCHANGED late
              \/ asked[j] /\ late[j] = 0 /\ late' = [late EXCEPT ![j] = 1]
           /\ UNCHANGED <<status, asked>>

\* A running job ends as done or failed; a queued one can only fail.
End(j, s) == /\ status[j] = "running" \/ (status[j] = "queued" /\ s = "failed")
             /\ status' = [status EXCEPT ![j] = s]
             /\ UNCHANGED <<asked, kept, late>>

\* Asked to stop while queued: the job ends in the same step.
StopQueued(j) == /\ status[j] = "queued"
                 /\ status' = [status EXCEPT ![j] = "failed"]
                 /\ asked' = [asked EXCEPT ![j] = TRUE]
                 /\ UNCHANGED <<kept, late>>

\* Asked to stop once it began; the request may also arrive after the end.
StopBegun(j) == /\ status[j] \in Ended \cup {"running"}
                /\ asked' = [asked EXCEPT ![j] = TRUE]
                /\ UNCHANGED <<status, kept, late>>

Restart == /\ status' = [j \in Job |-> IF status[j] \in InFlight
                                       THEN "failed" ELSE status[j]]
           /\ UNCHANGED <<asked, kept, late>>

Next == \/ \E j \in Job : \/ Accept(j) \/ AcceptEmpty(j) \/ Begin(j) \/ Keep(j)
                          \/ \E s \in Ended : End(j, s)
                          \/ StopQueued(j) \/ StopBegun(j)
        \/ Restart

Spec == Init /\ [][Next]_contractVars
=============================================================================
