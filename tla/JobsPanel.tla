------------------------------ MODULE JobsPanel ------------------------------
(***************************************************************************)
(* The Jobs button of the course header and its run window.  One query     *)
(* polls the list of jobs; an effect compares every list with the one      *)
(* before and announces the jobs that ended in between.  The window        *)
(* cancels and retries a job and follows the job a retry started.  The     *)
(* button belongs to the page header: it is unmounted and mounted again    *)
(* as the professor moves around, while the cached list and the requests   *)
(* in flight live on.                                                      *)
(***************************************************************************)
EXTENDS Naturals, FiniteSets

CONSTANTS
    Jobs,         \* job ids
    NoJobs,       \* no list in the cache, or none in flight
    Asked,        \* a list was asked for and the server has not read it
    MaxVisits,    \* bound: pages with the header visited
    MaxPresses    \* bound: presses of Cancel and Retry

ASSUME PanelAssumption ==
    NoJobs # Asked /\ MaxVisits \in Nat \ {0} /\ MaxPresses \in Nat

Statuses == {"none", "queued", "running", "ended"}
Active == {"queued", "running"}      \* isActive

VARIABLES
    job,        \* the server's status of each job
    stopping,   \* jobs asked to stop
    retried,    \* jobs that were retried
    list,       \* the cached list: what the server said when it was read
    get,        \* the GET in flight: NoJobs, Asked, or the list on its way back
    menu,       \* the mounted header button, or none
    window,     \* ?job=: "closed", "all" or a job
    buttons,    \* what is pending in the mounted JobActions
    calls,      \* Cancel and Retry requests in flight
    pressed,    \* presses so far (bound)
    told,       \* announcements of each job in this visit (history)
    old         \* jobs that had ended when the page was loaded afresh (history)

serverJobs == <<job, stopping, retried>>
jobsQuery == <<list, get>>
windowVars == <<window, buttons>>
callVars == <<calls, pressed>>
tellings == <<told, old>>
panelVars == <<serverJobs, jobsQuery, menu, windowVars, callVars, tellings>>

Lists == [job : [Jobs -> Statuses], stopping : SUBSET Jobs, retried : SUBSET Jobs]
NoneListed == [j \in Jobs |-> "none"]
Listed == IF list = NoJobs THEN NoneListed ELSE list.job
Server == [job |-> job, stopping |-> stopping, retried |-> retried]

PanelTypeOK ==
    /\ job \in [Jobs -> Statuses]
    /\ stopping \subseteq Jobs /\ retried \subseteq Jobs
    /\ list \in Lists \cup {NoJobs}
    /\ get \in Lists \cup {NoJobs, Asked}
    /\ menu \in [visit : 0 .. MaxVisits, shown : BOOLEAN, before : [Jobs -> Statuses]]
    /\ window \in Jobs \cup {"closed", "all"}
    /\ buttons \subseteq {"cancel", "retry"}
    /\ calls \subseteq [kind : {"cancel", "retry"}, job : Jobs, heard : BOOLEAN,
                        reply : Jobs \cup {"none", "refused", "done"}]
    /\ pressed \in 0 .. MaxPresses
    /\ told \in [Jobs -> Nat]
    /\ old \subseteq Jobs
-----------------------------------------------------------------------------
(* The list query and the effect that watches it. *)

\* Mutant: a watch that looks only at the jobs that were running.
FinishedRunning(was, now) == {j \in Jobs : was[j] = "running" /\ now[j] = "ended"}

\* useJobFinishedToasts: the jobs not active now that were active, or not
\* listed at all, before.
Finished(was, now) ==
    {j \in Jobs : was[j] \in Active \cup {"none"} /\ now[j] = "ended"}

\* Mutant: a watch that keeps only the active jobs of the list before.
WatchActive(now) ==
    IF menu.shown
    THEN /\ menu' = [menu EXCEPT !.before =
                        [j \in Jobs |-> IF now[j] \in Active THEN now[j] ELSE "none"]]
         /\ told' = [j \in Jobs |->
                        IF j \in Finished(menu.before, now) THEN told[j] + 1 ELSE told[j]]
    ELSE UNCHANGED <<menu, told>>

\* The effect after a list landed in the cache under a mounted button.
Watch(now) ==
    IF menu.shown
    THEN /\ menu' = [menu EXCEPT !.before = now]
         /\ told' = [j \in Jobs |->
                        IF j \in Finished(menu.before, now) THEN told[j] + 1 ELSE told[j]]
    ELSE UNCHANGED <<menu, told>>

\* invalidateQueries(jobs): a fetch in flight is dropped for a new one when
\* there is a list already, and kept otherwise; nothing is fetched unwatched.
Refetch == get' = IF menu.shown /\ (list # NoJobs \/ get = NoJobs) THEN Asked ELSE get

PollJobs ==
    /\ menu.shown /\ get = NoJobs
    /\ get' = Asked
    /\ UNCHANGED <<list, menu, serverJobs, windowVars, callVars, tellings>>

\* GET /api/jobs reads the jobs.
ReadJobs ==
    /\ get = Asked
    /\ get' = Server
    /\ UNCHANGED <<list, menu, serverJobs, windowVars, callVars, tellings>>

ListArrives ==
    /\ get \notin {NoJobs, Asked}
    /\ list' = get
    /\ get' = NoJobs
    /\ Watch(get.job)
    /\ UNCHANGED <<old, serverJobs, windowVars, callVars>>

\* The buttons of the window go, and nothing shows that calls cs are pending.
Unmount(cs) == /\ buttons' = {}
               /\ calls' = {[c EXCEPT !.heard = FALSE] : c \in cs}

\* The page is left for one without the header; its window and buttons go.
LeavePage ==
    /\ menu.shown
    /\ menu' = [menu EXCEPT !.shown = FALSE, !.before = NoneListed]
    /\ window' = "closed"
    /\ Unmount(calls)
    /\ told' = [j \in Jobs |-> 0]
    /\ old' = {}
    /\ UNCHANGED <<pressed, serverJobs, jobsQuery>>

\* A page with the header mounts: the effect first runs on the cached list,
\* or on an empty one; a list that is missing or stale is fetched.
EnterPage ==
    /\ ~menu.shown /\ menu.visit < MaxVisits
    /\ menu' = [visit |-> menu.visit + 1, shown |-> TRUE, before |-> Listed]
    /\ get' \in IF get # NoJobs THEN {get}
                ELSE IF list = NoJobs THEN {Asked} ELSE {Asked, NoJobs}
    /\ old' = IF list = NoJobs THEN {j \in Jobs : job[j] = "ended"} ELSE {}
    /\ UNCHANGED <<list, told, serverJobs, windowVars, callVars>>

\* An unwatched list is collected five minutes later.
Collect ==
    /\ ~menu.shown /\ get = NoJobs /\ list # NoJobs
    /\ list' = NoJobs
    /\ UNCHANGED <<get, menu, serverJobs, windowVars, callVars, tellings>>
-----------------------------------------------------------------------------
(* The run window. *)

\* "View all" lands on an active job, or on the first of the list.
Selected ==
    IF window \in Jobs THEN {window} \cap {j \in Jobs : Listed[j] # "none"}
    ELSE IF window = "closed" THEN {}
    ELSE IF \E j \in Jobs : Listed[j] \in Active THEN {j \in Jobs : Listed[j] \in Active}
    ELSE {j \in Jobs : Listed[j] # "none"}

\* A row of the popover or of the window, a toast's View, or "View all jobs".
OpenWindow(w) ==
    /\ menu.shown /\ window # w
    /\ w \in Jobs => Listed[w] # "none"
    /\ window' = w
    /\ UNCHANGED <<menu, buttons, serverJobs, jobsQuery, callVars, tellings>>

CloseWindow ==
    /\ window # "closed"
    /\ window' = "closed"
    /\ Unmount(calls)
    /\ UNCHANGED <<menu, pressed, serverJobs, jobsQuery, tellings>>

CanCancel(j) == Listed[j] \in Active /\ j \notin list.stopping
RetryLabel(j) == Listed[j] = "ended" /\ j \notin list.retried

\* stop() and again(): a pending button is disabled, the other one is not.
PressAction(kind, j) ==
    /\ menu.shown /\ j \in Selected
    /\ pressed < MaxPresses
    /\ kind \notin buttons
    /\ IF kind = "cancel" THEN CanCancel(j) ELSE RetryLabel(j)
    /\ pressed' = pressed + 1
    /\ buttons' = buttons \cup {kind}
    /\ calls' = calls \cup {[kind |-> kind, job |-> j, heard |-> TRUE,
                             reply |-> "none"]}
    /\ UNCHANGED <<menu, window, serverJobs, jobsQuery, tellings>>

Answer(c, reply) == calls' = (calls \ {c}) \cup {[c EXCEPT !.reply = reply]}

\* POST /cancel ends a queued job and asks a running one to stop.
CancelServed(c) ==
    /\ c \in calls /\ c.kind = "cancel" /\ c.reply = "none"
    /\ IF job[c.job] \in Active
       THEN /\ stopping' = stopping \cup {c.job}
            /\ job' = [job EXCEPT ![c.job] = IF @ = "queued" THEN "ended" ELSE @]
            /\ Answer(c, "done")
       ELSE Answer(c, "refused") /\ UNCHANGED <<job, stopping>>
    /\ UNCHANGED <<retried, menu, pressed, jobsQuery, windowVars, tellings>>

\* POST /retry starts a new job, once.
RetryServed(c, new) ==
    /\ c \in calls /\ c.kind = "retry" /\ c.reply = "none"
    /\ IF job[c.job] = "ended" /\ c.job \notin retried
       THEN /\ job[new] = "none"
            /\ job' = [job EXCEPT ![new] = "queued"]
            /\ retried' = retried \cup {c.job}
            /\ Answer(c, new)
       ELSE Answer(c, "refused") /\ UNCHANGED <<job, retried>>
    /\ UNCHANGED <<stopping, menu, pressed, jobsQuery, windowVars, tellings>>

\* The reply: success refetches the list, and a retry moves the window to the
\* job it started, whatever the window shows by then.  That job is not listed
\* yet: the pane shows none and its buttons go.
ActionReplied(c) ==
    /\ c \in calls /\ c.reply # "none"
    /\ IF c.reply = "refused" THEN UNCHANGED get ELSE Refetch
    /\ IF c.reply \in Jobs /\ menu.shown
       THEN window' = c.reply /\ Unmount(calls \ {c})
       ELSE /\ UNCHANGED window
            /\ calls' = calls \ {c}
            /\ buttons' = IF c.heard THEN buttons \ {c.kind} ELSE buttons
    /\ UNCHANGED <<list, menu, pressed, serverJobs, tellings>>
-----------------------------------------------------------------------------
(* The server's jobs. *)

JobQueued(j) ==
    /\ job[j] = "none"
    /\ job' = [job EXCEPT ![j] = "queued"]
    /\ UNCHANGED <<stopping, retried, menu, jobsQuery, windowVars, callVars, tellings>>

JobStarts(j) ==
    /\ job[j] = "queued"
    /\ job' = [job EXCEPT ![j] = "running"]
    /\ UNCHANGED <<stopping, retried, menu, jobsQuery, windowVars, callVars, tellings>>

JobEnds(j) ==
    /\ job[j] = "running"
    /\ job' = [job EXCEPT ![j] = "ended"]
    /\ UNCHANGED <<stopping, retried, menu, jobsQuery, windowVars, callVars, tellings>>
-----------------------------------------------------------------------------
\* A course page is loaded: some jobs ran before, and nothing is cached.
PanelInit ==
    /\ job \in [Jobs -> Statuses]
    /\ stopping = {} /\ retried = {}
    /\ list = NoJobs /\ get = Asked
    /\ menu = [visit |-> 1, shown |-> TRUE, before |-> NoneListed]
    /\ window = "closed"
    /\ buttons = {}
    /\ calls = {} /\ pressed = 0
    /\ told = [j \in Jobs |-> 0]
    /\ old = {j \in Jobs : job[j] = "ended"}

PanelNext ==
    \/ PollJobs \/ ReadJobs \/ ListArrives \/ LeavePage \/ EnterPage \/ Collect
    \/ \E w \in Jobs \cup {"all"} : OpenWindow(w)
    \/ CloseWindow
    \/ \E j \in Jobs : \/ PressAction("cancel", j) \/ PressAction("retry", j)
                       \/ JobQueued(j) \/ JobStarts(j) \/ JobEnds(j)
    \/ \E c \in calls : \/ CancelServed(c) \/ ActionReplied(c)
                        \/ \E new \in Jobs : RetryServed(c, new)

\* The poll's timer and the network.  Nothing else has to happen.
PanelFairness == WF_panelVars(PollJobs) /\ WF_panelVars(ReadJobs) /\ WF_panelVars(ListArrives)

PanelSpec == PanelInit /\ [][PanelNext]_panelVars /\ PanelFairness
-----------------------------------------------------------------------------
(* Properties. *)

\* An end is announced once while a page is shown, however the polls and the
\* refetches that Cancel and Retry ask for interleave: a toast and seven
\* invalidations each time (use-job-finished-toasts.ts:38-46).
ToldOncePerVisit == \A j \in Jobs : told[j] <= 1

\* A job the button has seen at work is announced when it ends, unless the
\* page is left first (use-job-finished-toasts.ts:6-9).
EndIsTold ==
    \A j \in Jobs :
        (menu.shown /\ menu.before[j] \in Active /\ job[j] = "ended")
            ~> (told[j] > 0 \/ ~menu.shown)

\* "jobs that were already finished on page load are not announced"
\* (use-job-finished-toasts.ts:21-22).
PageLoadIsQuiet == \A j \in old : told[j] = 0
=============================================================================
