----------------------------- MODULE ReviewQueue -----------------------------
(***************************************************************************)
(* The review screen: a cursor in the URL over the unreviewed questions, a *)
(* cached answer of the queue for each cursor, the verdict form of the     *)
(* question on show, a submission in flight, and a watched round whose     *)
(* questions join the queue while the professor reviews.                   *)
(*                                                                         *)
(* What the page shows of a question is its id and a version: it carries   *)
(* the judges' trust, counted from the reviews stored so far, so that      *)
(* every review stored changes the detail of the others.                   *)
(***************************************************************************)
EXTENDS Naturals, FiniteSets

CONSTANTS
    MaxQuestion,   \* bound: questions, numbered from 1
    MaxActs,       \* bound: skips and restarts of the pass
    Audits,        \* judge-rejected drafts, offered first whatever the cursor
    NotRead,       \* a queue answer not in the cache; nothing in flight
    AskedQueue     \* a request the server has not read yet

Cursors == 0 .. MaxQuestion          \* 0: no ?after=
NoDetail == [id |-> 0, version |-> 0]
Details == [id : 0 .. MaxQuestion, version : 0 .. MaxQuestion]

ASSUME ReviewAssumption ==
    /\ MaxQuestion \in Nat /\ MaxActs \in Nat /\ Audits \subseteq 1 .. MaxQuestion
    /\ NotRead # AskedQueue /\ {NotRead, AskedQueue} \cap Details = {}

VARIABLES
    bank,       \* the last question produced, and the reviewed ones
    genRound,   \* the round's status and the questions it produced
    after,      \* ?after=
    cached,     \* the cached answer of the queue for each cursor
    invalid,    \* cursors whose cached answer was invalidated
    queueGet,   \* the request in flight for each cursor
    verdict,    \* the form: the detail it was confirmed on, or NotRead
    review,     \* the submission in flight, or NotRead
    superseded, \* history: cursors whose answer was read before they were invalidated
    acts,       \* skips and restarts so far (bound)
    watched     \* the round as last read, the read in flight, the final refresh

serverSide == <<bank, genRound>>
queueVars == <<cached, invalid, queueGet, superseded>>
reviewVars == <<serverSide, after, queueVars, verdict, review, acts, watched>>

Rounds == [status : {"none", "running", "done"}, produced : 0 .. MaxQuestion]

ReviewTypeOK ==
    /\ bank \in [last : 0 .. MaxQuestion, reviewed : SUBSET (1 .. MaxQuestion)]
    /\ genRound \in Rounds
    /\ after \in Cursors
    /\ cached \in [Cursors -> Details \cup {NotRead}]
    /\ invalid \subseteq Cursors
    /\ queueGet \in [Cursors -> Details \cup {NotRead, AskedQueue}]
    /\ superseded \subseteq Cursors
    /\ verdict \in Details \cup {NotRead}
    /\ review \in [id : 1 .. MaxQuestion, seen : Details, confirmed : Details,
                   reply : {"none", "saved", "refused"}] \cup {NotRead}
    /\ acts \in 0 .. MaxActs
    /\ watched \in [round : Rounds, get : Rounds \cup {NotRead, AskedQueue},
                    refreshed : BOOLEAN]
-----------------------------------------------------------------------------
(* The server. *)

Unreviewed == (1 .. bank.last) \ bank.reviewed

\* list_unreviewed: audits first, then by id; the cursor spares the audits.
NextFor(k) ==
    LET open == {q \in Unreviewed : q \in Audits \/ q > k}
        first == IF open \cap Audits # {} THEN open \cap Audits ELSE open
    IN IF open = {} THEN NoDetail
       ELSE [id |-> CHOOSE q \in first : \A r \in first : q <= r,
             version |-> Cardinality(bank.reviewed)]

\* A question is generated, judged and committed with the round's counter.
Produce ==
    /\ genRound.status = "running" /\ bank.last < MaxQuestion
    /\ bank' = [bank EXCEPT !.last = @ + 1]
    /\ genRound' = [genRound EXCEPT !.produced = @ + 1]
    /\ UNCHANGED <<after, queueVars, verdict, review, acts, watched>>

RoundEnds ==
    /\ genRound.status = "running"
    /\ genRound' = [genRound EXCEPT !.status = "done"]
    /\ UNCHANGED <<bank, after, queueVars, verdict, review, acts, watched>>
-----------------------------------------------------------------------------
(* The queue's query: one cache entry per cursor. *)

Shown == IF cached[after] = NotRead THEN NoDetail ELSE cached[after]

\* useReviewForm: every new detail resets the form.
\* Mutant: a form that is reset only for another question.
ResetForQuestion(detail) ==
    verdict' = IF detail.id \in {0, Shown.id} THEN verdict ELSE NotRead

Reset(detail) == verdict' = IF detail.id = 0 \/ detail = Shown THEN verdict ELSE NotRead

\* The detail cached for another cursor is another object, whatever it says.
ResetAt(k) == verdict' = IF k = after \/ cached[k] \in {NotRead, NoDetail} THEN verdict ELSE NotRead

\* invalidateQueries: every cached answer is stale, and those of the cursors
\* ks are fetched again; a fetch in flight is dropped only once there is data.
Invalidate(ks) ==
    /\ invalid' = {c \in Cursors : cached[c] # NotRead}
    /\ queueGet' = [c \in Cursors |->
                       IF c \in ks /\ (cached[c] # NotRead \/ queueGet[c] = NotRead)
                       THEN AskedQueue ELSE queueGet[c]]
    /\ superseded' = {c \in Cursors : /\ queueGet'[c] # AskedQueue
                                      /\ c \in superseded \/ queueGet[c] \in Details}

\* The queue for another cursor: what is cached is shown at once, and fetched
\* again when it was invalidated or is old.
MoveTo(k) ==
    /\ after' = k
    /\ queueGet' \in
         {[queueGet EXCEPT ![k] = IF @ = NotRead THEN g ELSE @] :
            g \in IF cached[k] = NotRead \/ k \in invalid THEN {AskedQueue}
                  ELSE {AskedQueue, NotRead}}
    /\ superseded' = {c \in superseded : queueGet'[c] # AskedQueue}
    /\ ResetAt(k)

ReadQueue(k) ==
    /\ queueGet[k] = AskedQueue
    /\ queueGet' = [queueGet EXCEPT ![k] = NextFor(k)]
    /\ UNCHANGED <<serverSide, after, cached, invalid, superseded, verdict, review, acts, watched>>

QueueArrives(k) ==
    /\ queueGet[k] \notin {NotRead, AskedQueue}
    /\ cached' = [cached EXCEPT ![k] = queueGet[k]]
    /\ invalid' = invalid \ {k}
    /\ queueGet' = [queueGet EXCEPT ![k] = NotRead]
    /\ IF k = after THEN Reset(queueGet[k]) ELSE UNCHANGED verdict
    /\ UNCHANGED <<serverSide, after, superseded, review, acts, watched>>

\* An answer nobody shows is dropped from the cache after five minutes.
Forget(k) ==
    /\ k # after /\ cached[k] # NotRead /\ queueGet[k] = NotRead
    /\ cached' = [cached EXCEPT ![k] = NotRead]
    /\ invalid' = invalid \ {k}
    /\ superseded' = superseded \ {k}
    /\ UNCHANGED <<serverSide, after, queueGet, verdict, review, acts, watched>>
-----------------------------------------------------------------------------
(* The professor. *)

Act == acts < MaxActs /\ acts' = acts + 1

\* Difficulty and subtopics are confirmed or corrected.
Confirm ==
    /\ Shown.id # 0 /\ verdict = NotRead
    /\ verdict' = Shown
    /\ UNCHANGED <<serverSide, after, queueVars, review, acts, watched>>

SubmitReview ==
    /\ Shown.id # 0 /\ verdict # NotRead /\ review = NotRead
    /\ review' = [id |-> Shown.id, seen |-> Shown, confirmed |-> verdict, reply |-> "none"]
    /\ UNCHANGED <<serverSide, after, queueVars, verdict, acts, watched>>

\* Skip is offered while a review saves, and not for an audit.
Skip ==
    /\ Shown.id # 0 /\ Shown.id \notin Audits
    /\ MoveTo(Shown.id)
    /\ Act
    /\ UNCHANGED <<serverSide, cached, invalid, review, watched>>

\* "End of this pass": start again from the first unreviewed question.
StartAgain ==
    /\ cached[after] = NoDetail /\ after # 0
    /\ MoveTo(0)
    /\ Act
    /\ UNCHANGED <<serverSide, cached, invalid, review, watched>>

\* "Generate next round", when none is being generated.
StartNext ==
    /\ genRound.status = "none"
    /\ genRound' = [status |-> "running", produced |-> 0]
    /\ watched' = [watched EXCEPT !.get = AskedQueue]
    /\ UNCHANGED <<bank, after, queueVars, verdict, review, acts>>

\* POST /review stores the review, or refuses it.
StoreReview ==
    /\ review # NotRead /\ review.reply = "none"
    /\ \/ /\ bank' = [bank EXCEPT !.reviewed = @ \cup {review.id}]
          /\ review' = [review EXCEPT !.reply = "saved"]
       \/ review' = [review EXCEPT !.reply = "refused"] /\ UNCHANGED bank
    /\ UNCHANGED <<genRound, after, queueVars, verdict, acts, watched>>

\* The reply of a saved review invalidates the questions and moves the cursor
\* to the question it was about, wherever the cursor is by then.
ReviewSaved ==
    /\ review # NotRead /\ review.reply = "saved"
    /\ LET k == IF review.id \in Audits THEN after ELSE review.id IN
       /\ after' = k
       /\ Invalidate({after, k})
       /\ ResetAt(k)
    /\ review' = NotRead
    /\ UNCHANGED <<serverSide, cached, acts, watched>>

ReviewRefused ==
    /\ review # NotRead /\ review.reply = "refused"
    /\ review' = NotRead
    /\ UNCHANGED <<serverSide, after, queueVars, verdict, acts, watched>>
-----------------------------------------------------------------------------
(* useNextRound: the watched round is polled until it is done. *)

PollRound ==
    /\ watched.get = NotRead /\ watched.round.status = "running"
    /\ watched' = [watched EXCEPT !.get = AskedQueue]
    /\ UNCHANGED <<serverSide, after, queueVars, verdict, review, acts>>

ReadRound ==
    /\ watched.get = AskedQueue
    /\ watched' = [watched EXCEPT !.get = genRound]
    /\ UNCHANGED <<serverSide, after, queueVars, verdict, review, acts>>

\* The queue is refetched for every question produced, and when the round ends.
\* Mutant: a queue refetched only for the questions produced while it runs.
NewsWhileRunning(seen) == seen.status = "running" /\ seen.produced # watched.round.produced

News(seen) == \/ seen.produced \notin {0, watched.round.produced}
              \/ seen.status = "done" /\ ~watched.refreshed

RoundArrives ==
    /\ watched.get \notin {NotRead, AskedQueue}
    /\ watched' = [round |-> watched.get, get |-> NotRead,
                   refreshed |-> watched.refreshed \/ watched.get.status = "done"]
    /\ IF News(watched.get) THEN Invalidate({after}) ELSE UNCHANGED <<invalid, queueGet, superseded>>
    /\ UNCHANGED <<serverSide, after, cached, verdict, review, acts>>
-----------------------------------------------------------------------------
\* The page is loaded, with ?round= when a round is being generated.
ReviewInit ==
    /\ bank \in [last : 0 .. MaxQuestion, reviewed : {{}}]
    /\ genRound \in [status : {"none", "running"}, produced : {0}]
    /\ after \in 0 .. bank.last
    /\ cached = [k \in Cursors |-> NotRead]
    /\ invalid = {}
    /\ superseded = {}
    /\ queueGet = [k \in Cursors |-> IF k = after THEN AskedQueue ELSE NotRead]
    /\ verdict = NotRead
    /\ review = NotRead
    /\ acts = 0
    /\ watched = [round |-> [status |-> "none", produced |-> 0],
                  get |-> IF genRound.status = "running" THEN AskedQueue ELSE NotRead,
                  refreshed |-> FALSE]

QueueMoves == \E k \in Cursors : ReadQueue(k) \/ QueueArrives(k)
RoundMoves == Produce \/ RoundEnds \/ PollRound \/ ReadRound \/ RoundArrives

ReviewNext ==
    \/ QueueMoves \/ RoundMoves
    \/ \E k \in Cursors : Forget(k)
    \/ Confirm \/ SubmitReview \/ Skip \/ StartAgain \/ StartNext
    \/ StoreReview \/ ReviewSaved \/ ReviewRefused

ReviewSpec == ReviewInit /\ [][ReviewNext]_reviewVars
-----------------------------------------------------------------------------
(* Properties. *)

\* A review is sent for the very detail its difficulty and subtopics were
\* confirmed on: a question or a judges' answer that changed under the form
\* has to be confirmed again ("requires explicit confirmation").
SentAsConfirmed == review # NotRead => review.confirmed = review.seen

\* Once the round is seen to be over, a page at rest that says the queue is
\* empty is right: "the queue is refetched as every one lands, so the review
\* starts on the first", and once more when the round ends. The exception is an
\* answer that was on its way when the queue was invalidated.
ProducedIsOffered ==
    (watched.round.status = "done" /\ queueGet[after] = NotRead /\ after \notin superseded)
    => ~(cached[after] = NoDetail /\ NextFor(after) # NoDetail)
=============================================================================
