-------------------------- MODULE MCPollingScreens --------------------------
(* The screens that ask the server again and again, one behaviour for each:  *)
(* a browser shows one of them and the other is not open.                    *)
EXTENDS JobsPanel, StudentScreen

CONSTANTS j1, j2, p1

VARIABLE screen    \* the screen that is open, for good

PanelClosed ==
    /\ job = [j \in Jobs |-> "none"] /\ stopping = {} /\ retried = {}
    /\ list = NoJobs /\ get = NoJobs
    /\ menu = [visit |-> 1, shown |-> FALSE, before |-> NoneListed]
    /\ window = "closed" /\ buttons = {} /\ calls = {} /\ pressed = 0
    /\ told = [j \in Jobs |-> 0] /\ old = {}

ScreenClosed ==
    /\ run = [last |-> 0, open |-> NoAttempt, answered |-> {}, ended |-> FALSE, supply |-> "ready"]
    /\ page = NewPage /\ press = [p \in Presses |-> NoPress]
    /\ runQuery = [says |-> "pending", fetch |-> "idle"]
    /\ nextQuery = [data |-> NoAttempt, error |-> "none", fetch |-> "idle", reply |-> NoAttempt]
    /\ askingLive = FALSE /\ ending = "none" /\ mishap = {}

Init ==
    /\ screen \in {"jobs", "session"}
    /\ IF screen = "jobs" THEN PanelInit ELSE PanelClosed
    /\ IF screen = "session" THEN ScreenInit ELSE ScreenClosed

Next ==
    /\ UNCHANGED screen
    /\ \/ screen = "jobs" /\ PanelNext /\ UNCHANGED screenVars
       \/ screen = "session" /\ ScreenNext /\ UNCHANGED panelVars

\* A screen that is not open has no fair step to take: no request is out.
Spec ==
    /\ Init /\ [][Next]_<<screen, panelVars, screenVars>>
    /\ PanelFairness /\ ScreenFairness

=============================================================================
