--------------------------- MODULE EmbeddingSwitch ---------------------------
(***************************************************************************)
(* Switching the embedding model.  The new configuration is stored as a    *)
(* pending row, a job on top of JobRunner embeds every chunk that lacks a  *)
(* vector in the new model, and one commit makes the pending row the       *)
(* active one.  Books are imported and searched all the while, in the      *)
(* active model.                                                           *)
(***************************************************************************)
EXTENDS JobRunner, FiniteSetsExt

CONSTANTS
    Admin,   \* concurrent requests that save the embeddings settings
    Model,     \* embedding models
    EnvModel,  \* the one configured before any row is saved
    Chunk,     \* chunks, in the order they are embedded
    Shelf,     \* those of the books imported before
    None       \* no pending row, no request under way

ASSUME SwitchAssumption == /\ EnvModel \in Model
                           /\ Chunk \subseteq Nat /\ Shelf \subseteq Chunk
                           /\ IsFiniteSet(Chunk) /\ Cardinality(Chunk) <= MaxUnits
                           /\ None \notin Job \cup Model
                           /\ "embedding" \in Kind

VARIABLES
    active,      \* the model of the embeddings row, or the configured one
    pending,     \* the job of the pending row, or None
    target,      \* per job: the model it switches to
    chunks,      \* the current chunks with text
    vectors,     \* per model: the chunks that have a vector
    toEmbed,     \* per job: what is left of the list its worker made
    saving,      \* per request past its checks: the model it asks for
    \* history: jobs whose activating commit was made, the chunks each job took
    \* stock of, what each model was activated with, the model replaced last, two
    \* switches were in flight at once
    activated, stock, promised, previous, overlapped

switchRow == <<active, pending, target>>
chunkVars == <<chunks, vectors>>
switchHistory == <<activated, stock, promised, previous, overlapped>>
switchVars == <<switchRow, chunkVars, toEmbed, saving, switchHistory>>
switchAllVars == <<runnerVars, switchVars>>

SwitchInit ==
    /\ Init
    /\ active = EnvModel
    /\ pending = None
    /\ target = [j \in Job |-> EnvModel]
    /\ chunks = Shelf
    /\ vectors = [m \in Model |-> IF m = EnvModel THEN Shelf ELSE {}]
    /\ toEmbed = [j \in Job |-> {}]
    /\ saving = [h \in Admin |-> None]
    /\ activated = {}
    /\ stock = [j \in Job |-> {}]
    /\ promised = vectors
    /\ previous = EnvModel
    /\ overlapped = FALSE
-----------------------------------------------------------------------------
(* PUT /settings/embeddings. *)

\* switch_job is in flight.
Switching == pending # None /\ status[pending] \in InFlight

\* _save_or_switch: no switch is running, and the row names a new model.
\* start_switch looks for a running switch again: the last look is the one here.
SaveCheck(h, m) ==
    /\ up /\ saving[h] = None
    /\ ~Switching /\ m # active
    /\ saving' = [saving EXCEPT ![h] = m]
    /\ UNCHANGED <<runnerVars, switchRow, chunkVars, toEmbed, switchHistory>>

\* start_switch: the job, and the pending row merged over the one there was.
StartSwitch(h, j) ==
    /\ saving[h] # None
    /\ Insert(j, "embedding", 0)
    /\ pending' = j
    /\ target' = [target EXCEPT ![j] = saving[h]]
    /\ saving' = [saving EXCEPT ![h] = None]
    /\ overlapped' = (overlapped \/ \E k \in Job : status[k] \in InFlight)
    /\ UNCHANGED <<active, chunkVars, toEmbed, activated, stock, promised, previous>>
-----------------------------------------------------------------------------
(* _switch, the body of the job. *)

Lacking(m) == chunks \ vectors[m]

\* Mutant: the list is what no model has embedded.
TakeStockOfUnembedded(j) ==
    LET list == chunks \ UNION {vectors[m] : m \in Model} IN
    /\ pending = j
    /\ Size(j, Cardinality(list))
    /\ toEmbed' = [toEmbed EXCEPT ![j] = list]
    /\ stock' = [stock EXCEPT ![j] = chunks]
    /\ UNCHANGED <<switchRow, chunkVars, saving, activated, promised, previous, overlapped>>

\* The pending row is still this job's: the chunks without a vector are listed.
TakeStock(j) ==
    /\ pending = j
    /\ Size(j, Cardinality(Lacking(target[j])))
    /\ toEmbed' = [toEmbed EXCEPT ![j] = Lacking(target[j])]
    /\ stock' = [stock EXCEPT ![j] = chunks]
    /\ UNCHANGED <<switchRow, chunkVars, saving, activated, promised, previous, overlapped>>

\* "A newer embedding switch replaced this one", or the provider raises.
SwitchFails(j) ==
    /\ pc[j] = "size" \/ pc[j] = "work"
    /\ WorkFails(j)
    /\ UNCHANGED switchVars

\* backfill embeds the next group and commits it; vectors that another job wrote
\* meanwhile are kept.
EmbedGroup(j) ==
    /\ Work(j)
    /\ LET c == Min(toEmbed[j]) IN
           /\ vectors' = [vectors EXCEPT ![target[j]] = @ \cup {c}]
           /\ toEmbed' = [toEmbed EXCEPT ![j] = @ \ {c}]
    /\ UNCHANGED <<switchRow, chunks, saving, switchHistory>>

\* Mutant: the cancel is looked at after the activating commit.
StopAfter(j) ==
    /\ up /\ pc[j] = "close" /\ j \in activated /\ asked[j]
    /\ pc' = [pc EXCEPT ![j] = "stop"]
    /\ UNCHANGED <<rowVars, responding, tasks, cancelling, historyVars, faultVars, switchVars>>

\* The last look at the cancel, and nothing is activated.
StopLate(j) ==
    /\ up /\ pc[j] = "close" /\ j \notin activated /\ asked[j]
    /\ pc' = [pc EXCEPT ![j] = "stop"]
    /\ UNCHANGED <<rowVars, responding, tasks, cancelling, historyVars, faultVars, switchVars>>

\* The activating commit: the pending row becomes the active one, whoever wrote
\* it last, and the vectors of older models are deleted.
Activate(j) ==
    /\ up /\ pc[j] = "close" /\ j \notin activated /\ ~asked[j]
    /\ active' = target[j]
    /\ pending' = None
    /\ vectors' = [m \in Model |-> IF m \in {target[j], active} THEN vectors[m] ELSE {}]
    /\ activated' = activated \cup {j}
    /\ promised' = [promised EXCEPT ![target[j]] = stock[j]]
    /\ previous' = active
    /\ UNCHANGED <<runnerVars, target, chunks, toEmbed, saving, stock, overlapped>>

\* DONE, in a commit of its own.
SwitchClose(j) == j \in activated /\ Close(j) /\ UNCHANGED switchVars
-----------------------------------------------------------------------------
(* The rest of the process. *)

\* A book is imported, and its chunks have no vector yet.
Import(c) ==
    /\ up /\ c \notin chunks
    /\ chunks' = chunks \cup {c}
    /\ UNCHANGED <<runnerVars, switchRow, vectors, toEmbed, saving, switchHistory>>

\* The embedding job of an import, or a search, embeds what the active model lacks.
EmbedActive(c) ==
    /\ up /\ c \in Lacking(active)
    /\ vectors' = [vectors EXCEPT ![active] = @ \cup {c}]
    /\ UNCHANGED <<runnerVars, switchRow, chunks, toEmbed, saving, switchHistory>>

\* The runner's own steps for the job.
SwitchRecord(j) ==
    /\ \/ Respond(j) \/ RespondLost(j) \/ Claim(j) \/ Count(j) \/ Check(j) \/ RecordEnd(j)
       \/ ClaimFault(j) \/ CountFault(j) \/ CloseFault(j) \/ RecordLost(j)
       \/ Cancel(j)
    /\ UNCHANGED switchVars

SwitchCrash == /\ Crash
               /\ toEmbed' = [j \in Job |-> {}]
               /\ saving' = [h \in Admin |-> None]
               /\ UNCHANGED <<switchRow, chunkVars, switchHistory>>

SwitchRecover == Recover /\ UNCHANGED switchVars
-----------------------------------------------------------------------------
SwitchNext ==
    \/ \E h \in Admin : \/ \E m \in Model : SaveCheck(h, m)
                          \/ \E j \in Job : StartSwitch(h, j)
    \/ \E j \in Job : \/ TakeStock(j) \/ SwitchFails(j) \/ EmbedGroup(j)
                      \/ StopLate(j) \/ Activate(j) \/ SwitchClose(j)
                      \/ SwitchRecord(j)
    \/ \E c \in Chunk : Import(c) \/ EmbedActive(c)
    \/ SwitchCrash \/ SwitchRecover

SwitchSpec == SwitchInit /\ [][SwitchNext]_switchAllVars
-----------------------------------------------------------------------------
(* Properties. *)

\* The values of the rows, of the requests and of the workers; the pending row
\* is never that of a job that is done.
SwitchTypeOK ==
    /\ TypeOK
    /\ active \in Model
    /\ pending \in Job \cup {None}
    /\ pending # None => status[pending] \in InFlight \cup {"failed"}
    /\ target \in [Job -> Model]
    /\ chunks \subseteq Chunk
    /\ vectors \in [Model -> SUBSET chunks]
    /\ toEmbed \in [Job -> SUBSET chunks]
    /\ saving \in [Admin -> Model \cup {None}]

\* Switches one at a time: the active model has a vector of every chunk its
\* switch took stock of, and so has the model it replaced ("switching back costs
\* nothing"), whatever failed, was cancelled or was imported meanwhile.
SwitchIsComplete ==
    ~overlapped => \A m \in {active, previous} : promised[m] \subseteq vectors[m]

\* A job that failed or was cancelled has not touched the active row, unless a
\* crash or a lost commit fell between its activating commit and its DONE; and
\* its pending row stays until the next switch replaces it.
FailedLeavesActive ==
    \A j \in Job : kind[j] = "embedding" /\ status[j] = "failed" =>
        \/ j \in activated /\ faults + crashes > 0
        \/ j \notin activated /\ (pending = j \/ \E k \in Job \ {j} : status[k] # "none")

\* A switch of models is made whole or not at all.
SwitchIsAllOrNothing == SwitchIsComplete /\ FailedLeavesActive

=============================================================================
