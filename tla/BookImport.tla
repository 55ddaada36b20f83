----------------------------- MODULE BookImport -----------------------------
(***************************************************************************)
(* Adding a book or a video to a course: the uploader, which holds one     *)
(* file or link at a time, drops on the page beside it, and the requests   *)
(* they send.  Uploading a large file or fetching a transcript takes       *)
(* seconds, and the uploader stays open and may be given something else,   *)
(* closed and opened again meanwhile.                                      *)
(*                                                                         *)
(* A file that is accepted becomes a job; a video is stored by its request,*)
(* as a new source or as the next version of the one the course has.  A    *)
(* video whose transcript cannot be fetched is sent again with a pasted    *)
(* one; a person pastes the transcript of the video on screen.             *)
(***************************************************************************)
EXTENDS Naturals, Sequences, FiniteSets

CONSTANTS
    Files, Videos,
    NoSource,
    MaxRequests,    \* bound: requests sent
    MaxAtOnce,      \* bound: requests under way at once
    MaxUploaders    \* bound: times the uploader is opened

ASSUME ImportAssumption ==
    /\ Files \cap Videos = {} /\ NoSource \notin Files \cup Videos
    /\ MaxRequests \in Nat /\ MaxAtOnce \in Nat /\ MaxUploaders \in Nat

Imports == 1 .. MaxRequests

VARIABLES
    uploader,   \* the dialog: which one it is (0: none is open) and what it holds
    handed,     \* the link a drop handed to the uploader
    importOf,    \* each request: what it sends, from where, how far it is
    books,      \* the stored videos: which, and the video its transcript is of
    uploaders,     \* uploaders opened so far
    accidents     \* history: two requests at once, imports of one video, lost replies

importVars == <<uploader, handed, importOf, books, uploaders, accidents>>

Unsent == [what |-> NoSource, transcript |-> NoSource, from |-> 0, at |-> "none", row |-> 0,
           mine |-> FALSE]

\* Where a request is: at the server up to "stored", its answer on the way, settled.
AtServer == {"sent", "looked"}
ImportAnswered == {"will be accepted", "will be refused", "will be unavailable"}
InFlight(r) == importOf[r].at \in AtServer \cup ImportAnswered

NoUploader == [n |-> 0, choice |-> NoSource, transcript |-> NoSource, paste |-> FALSE,
           book |-> 0, video |-> 0]
Uploader(n, link) == [NoUploader EXCEPT !.n = n, !.choice = link, !.paste = link # NoSource]

UploaderOpen == uploader.n # 0
Watched == {uploader.book, uploader.video} \ {0}
ImportPending == \E r \in Watched : InFlight(r)

-----------------------------------------------------------------------------
(* The uploader.                                                           *)

\* "Upload content": an empty uploader.
OpenUploader ==
    /\ ~UploaderOpen /\ uploaders < MaxUploaders
    /\ uploaders' = uploaders + 1
    /\ handed' = NoSource
    /\ uploader' = Uploader(uploaders + 1, NoSource)
    /\ UNCHANGED <<importOf, books, accidents>>

\* What a person does with the uploader gives up what its requests were of.
GivenUp == [r \in Imports |-> [importOf[r] EXCEPT !.mine = FALSE]]

CloseUploader ==
    /\ UploaderOpen
    /\ uploader' = NoUploader
    /\ importOf' = GivenUp
    /\ UNCHANGED <<handed, books, uploaders, accidents>>

\* Mutant: only the paste box is put away.
ChooseOnly(x) ==
    /\ UploaderOpen /\ x # uploader.choice
    /\ uploader' = [uploader EXCEPT !.choice = x, !.paste = FALSE]
    /\ importOf' = GivenUp
    /\ UNCHANGED <<handed, books, uploaders, accidents>>

\* A file or a link replaces the other, also while one is being sent; results
\* of what was there are put away, the transcript stays.
Choose(x) ==
    /\ UploaderOpen /\ x # uploader.choice
    /\ uploader' = [uploader EXCEPT !.choice = x, !.paste = FALSE, !.book = 0, !.video = 0]
    /\ importOf' = GivenUp
    /\ UNCHANGED <<handed, books, uploaders, accidents>>

PasteTranscript ==
    /\ uploader.paste /\ uploader.choice \in Videos
    /\ uploader' = [uploader EXCEPT !.transcript = uploader.choice]
    /\ UNCHANGED <<handed, importOf, books, uploaders, accidents>>

\* The next request is sent.
IsNext(r) == importOf[r].at = "none" /\ \A s \in 1 .. r - 1 : importOf[s].at # "none"

SendImport(r, what, transcript, from) ==
    /\ IsNext(r) /\ Cardinality({s \in Imports : InFlight(s)}) < MaxAtOnce
    /\ importOf' = [(IF from = 0 THEN importOf ELSE GivenUp) EXCEPT ![r] =
         [what |-> what, transcript |-> transcript, from |-> from, at |-> "sent", row |-> 0,
          mine |-> from # 0]]
    /\ accidents' = accidents
         \cup (IF \E s \in Imports : InFlight(s) THEN {"requests"} ELSE {})
         \cup (IF \E s \in Imports : importOf[s].what = what /\ importOf[s].at \in AtServer
               THEN {"imports"} ELSE {})

SubmitImport(r) ==
    /\ UploaderOpen /\ ~ImportPending /\ uploader.choice # NoSource
    /\ uploader.paste => uploader.transcript # NoSource
    /\ SendImport(r, uploader.choice, IF uploader.paste THEN uploader.transcript ELSE NoSource,
            uploader.n)
    /\ uploader' = IF uploader.choice \in Files THEN [uploader EXCEPT !.book = r]
                   ELSE [uploader EXCEPT !.book = 0, !.video = r]
    /\ UNCHANGED <<handed, books, uploaders>>

\* A drop beside the uploader is sent at once; with the uploader open it is ignored.
DropOnPage(r, x) ==
    /\ ~UploaderOpen
    /\ SendImport(r, x, NoSource, 0)
    /\ UNCHANGED <<uploader, handed, books, uploaders>>

-----------------------------------------------------------------------------
(* The server.                                                             *)

Reach(r, at) == importOf' = [importOf EXCEPT ![r].at = at]

\* A file is checked and becomes a job, or is refused.
CheckFile(r) ==
    /\ importOf[r].at = "sent" /\ importOf[r].what \in Files
    /\ \E answer \in {"will be accepted", "will be refused"} : Reach(r, answer)
    /\ UNCHANGED <<uploader, handed, books, uploaders, accidents>>

\* A video that is gone, or a transcript without times, is refused; without a
\* pasted transcript there may be none to fetch.
RefuseVideo(r) ==
    /\ importOf[r].at = "sent" /\ importOf[r].what \in Videos
    /\ \/ Reach(r, "will be refused")
       \/ importOf[r].transcript = NoSource /\ Reach(r, "will be unavailable")
    /\ UNCHANGED <<uploader, handed, books, uploaders, accidents>>

\* The transcript that is stored.
TextOf(r) == IF importOf[r].transcript = NoSource THEN importOf[r].what ELSE importOf[r].transcript

Existing(video) == {i \in DOMAIN books : books[i].video = video}

\* Mutant: a pasted transcript is a source of its own.
FindSourceUnpasted(r) ==
    /\ importOf[r].at = "sent" /\ importOf[r].what \in Videos
    /\ importOf' = [importOf EXCEPT ![r].at = "looked", ![r].row =
         IF Existing(importOf[r].what) = {} \/ importOf[r].transcript # NoSource THEN 0
         ELSE CHOOSE i \in Existing(importOf[r].what) : \A j \in Existing(importOf[r].what) : i <= j]
    /\ UNCHANGED <<uploader, handed, books, uploaders, accidents>>

\* With a transcript at hand, the course's first source of the video is read.
FindSource(r) ==
    /\ importOf[r].at = "sent" /\ importOf[r].what \in Videos
    /\ importOf' = [importOf EXCEPT ![r].at = "looked", ![r].row =
         IF Existing(importOf[r].what) = {} THEN 0
         ELSE CHOOSE i \in Existing(importOf[r].what) : \A j \in Existing(importOf[r].what) : i <= j]
    /\ UNCHANGED <<uploader, handed, books, uploaders, accidents>>

\* The same transcript changes nothing, another is the next version.
Store(r) ==
    /\ importOf[r].at = "looked"
    /\ books' = IF importOf[r].row = 0
                THEN Append(books, [video |-> importOf[r].what, text |-> TextOf(r)])
                ELSE [books EXCEPT ![importOf[r].row].text = TextOf(r)]
    /\ Reach(r, "will be accepted")
    /\ UNCHANGED <<uploader, handed, uploaders, accidents>>

-----------------------------------------------------------------------------
(* Replies.                                                                *)

\* What was accepted closes the uploader, whichever is open.
ImportAccepted(r) ==
    /\ importOf[r].at = "will be accepted"
    /\ Reach(r, "accepted")
    /\ uploader' = IF importOf[r].from = 0 THEN uploader ELSE NoUploader
    /\ UNCHANGED <<handed, books, uploaders, accidents>>

\* A refusal is shown where it is watched, and a lost reply like a refusal.
ImportRefused(r) ==
    /\ importOf[r].at = "will be refused"
    /\ Reach(r, "refused")
    /\ UNCHANGED <<uploader, handed, books, uploaders, accidents>>

\* A request that gets no answer is shown as a failure, whatever became of it.
LoseImportReply(r) ==
    /\ importOf[r].at \in ImportAnswered
    /\ "lost" \notin accidents
    /\ Reach(r, "refused")
    /\ accidents' = accidents \cup {"lost"}
    /\ UNCHANGED <<uploader, handed, books, uploaders>>

\* Without a transcript, the uploader that sent the link shows the paste box,
\* and the page hands a dropped link to an uploader, a fresh one unless it has it.
Unavailable(r) ==
    /\ importOf[r].at = "will be unavailable"
    /\ Reach(r, "unavailable")
    /\ IF importOf[r].from # 0
       THEN /\ uploader' = IF uploader.n = importOf[r].from
                           THEN [uploader EXCEPT !.paste = TRUE] ELSE uploader
            /\ UNCHANGED <<handed, uploaders>>
       ELSE /\ handed' = importOf[r].what
            /\ IF UploaderOpen /\ handed = importOf[r].what THEN UNCHANGED <<uploader, uploaders>>
               ELSE /\ uploaders < MaxUploaders /\ uploaders' = uploaders + 1
                    /\ uploader' = Uploader(uploaders + 1, importOf[r].what)
    /\ UNCHANGED <<books, accidents>>

-----------------------------------------------------------------------------
\* The course may hold a video already.
ImportInit ==
    /\ uploader = NoUploader /\ handed = NoSource
    /\ importOf = [r \in Imports |-> Unsent]
    /\ books \in {<<>>} \cup {<<[video |-> v, text |-> v]>> : v \in Videos}
    /\ uploaders = 0 /\ accidents = {}

ImportNext ==
    \/ OpenUploader \/ CloseUploader \/ PasteTranscript
    \/ \E x \in Files \cup Videos \cup {NoSource} : Choose(x)
    \/ \E r \in Imports :
         \/ SubmitImport(r) \/ \E x \in Files \cup Videos : DropOnPage(r, x)
         \/ CheckFile(r) \/ RefuseVideo(r) \/ FindSource(r) \/ Store(r)
         \/ ImportAccepted(r) \/ ImportRefused(r) \/ LoseImportReply(r) \/ Unavailable(r)

ImportSpec == ImportInit /\ [][ImportNext]_importVars

-----------------------------------------------------------------------------
(* What the uploader says is of what it holds; and a refusal that came     *)
(* while nothing else was on its way leaves the uploader open with the     *)
(* choice it is of, and says so.                                           *)
RefusalIsOfChoice ==
    /\ \A r \in Watched : importOf[r].what = uploader.choice
    /\ \A r \in Imports :
         importOf[r].mine /\ importOf[r].at \in {"refused", "unavailable"} /\ accidents \subseteq {"lost"}
         => /\ uploader.choice = importOf[r].what
            /\ importOf[r].at = "refused" => r \in Watched

\* "The same video again returns the source already imported; a different pasted
\* transcript becomes its next version": unless two imports of it were under way
\* at once, a course holds a video once.
VideoHeldOnce ==
    "imports" \notin accidents =>
        \A i, j \in DOMAIN books : books[i].video = books[j].video => i = j
=============================================================================
