----------------------------- MODULE SyncQueue ------------------------------
(***************************************************************************)
(* The assessment form of the inspector's app and its queue of mutations   *)
(* in IndexedDB (inspector/src/components/assessment/assessment-form.tsx,  *)
(* inspector/src/lib/idb.ts, sync.ts, upload.ts), against the report on    *)
(* the server (module Report).                                             *)
(*                                                                         *)
(* A request may be refused, fail on its way, or be carried out without    *)
(* its answer coming back.  The app may be closed and opened at any time.  *)
(***************************************************************************)
EXTENDS Naturals, Report

CONSTANTS
    MaxAttempts,   \* MAX_ATTEMPTS (6 in the code)
    MaxEdits,      \* bound: changes of the form, each a version of the assessment
    MaxPhotos,     \* bound: photos and videos taken
    MaxFailures,   \* bound: requests the network or the server fails, and crashes of the app
    MaxQueued      \* bound: mutations ever queued

ASSUME SyncQueueAssumption ==
    /\ {MaxEdits, MaxPhotos, MaxFailures, MaxQueued} \subseteq Nat
    /\ MaxAttempts \in Nat \ {0}

VARIABLES
    form,       \* the version on the screen
    edits,      \* how many there have been
    timer,      \* the debounced save is pending
    phase,      \* of handleSubmit: editing, submitting, sent
    draft,      \* IndexedDB store drafts: a version, Empty when there is none
    queue,      \* IndexedDB store sync_queue: a set, read in the order of the keys
    nextKey,    \* its autoIncrement
    batch,      \* what a running flush has yet to send
    photos,     \* uploadState of each: none, stored (in S3), done, error
    registered, \* the photos in the evidence of the report on the server
    tries,      \* of each, how often a flush has failed to register it
    online,     \* navigator.onLine
    failures,   \* how many there have been
    server      \* the report on the server

formVars == <<form, edits, timer, phase, draft>>
queueVars == <<queue, nextKey, batch, tries>>
serverVars == <<server, registered, failures>>
syncVars == <<formVars, photos, queueVars, serverVars, online>>

Photo == 1 .. MaxPhotos
NoPhoto == 0

\* edit: the version a save_draft carries; Empty for the other kinds, and for a
\* save whose fields the server does not know.
SyncRequest == [kind : {"save_draft", "register_evidence", "score_area", "submit_report"},
            edit : 0 .. MaxEdits, photo : Photo \cup {NoPhoto}]

DraftRequest(edit) == [kind |-> "save_draft", edit |-> edit, photo |-> NoPhoto]
EvidenceRequest(photo) == [kind |-> "register_evidence", edit |-> Empty, photo |-> photo]
AreaRequest == [kind |-> "score_area", edit |-> Empty, photo |-> NoPhoto]
SubmitRequest == [kind |-> "submit_report", edit |-> Empty, photo |-> NoPhoto]

Mutation == [key : Nat, request : SyncRequest, attempts : 0 .. MaxAttempts - 1]

SyncInit ==
    /\ form = Empty /\ edits = 0 /\ timer = FALSE /\ phase = "editing"
    /\ draft = Empty
    /\ queue = {} /\ nextKey = 1
    /\ batch = {}
    /\ photos = [p \in Photo |-> "none"]
    /\ registered = {}
    /\ tries = [p \in Photo |-> 0]
    /\ online \in BOOLEAN
    /\ failures = 0
    /\ server = NewReport

-----------------------------------------------------------------------------
(* Requests *)

Accepts(report, kind) ==
    IF kind = "submit_report" THEN MaySubmit(report) ELSE Editable(report)

\* The form sends the pin with every version it saves; scores go to the area
\* (module Valuation).
Applied(report, request) ==
    CASE request.kind = "save_draft"        -> Saved(report, request.edit, request.edit # Empty)
      [] request.kind = "register_evidence" -> Registered(report)
      [] request.kind = "score_area"        -> report
      [] request.kind = "submit_report"     -> Submitted(report)

CarriedOut(request) ==
    /\ server' = Applied(server, request)
    /\ registered' = registered \cup ({request.photo} \ {NoPhoto})

\* What may come of a request: it is answered; it fails; its answer is lost;
\* it is refused or there is no network.
Outcomes(request) ==
    IF online /\ Accepts(server, request.kind)
    THEN {[ok |-> TRUE,  applied |-> TRUE,  failures |-> failures],
          [ok |-> FALSE, applied |-> FALSE, failures |-> failures + 1],
          [ok |-> FALSE, applied |-> TRUE,  failures |-> failures + 1]}
    ELSE {[ok |-> FALSE, applied |-> FALSE, failures |-> failures]}

Happens(request, outcome) ==
    /\ outcome.failures <= MaxFailures
    /\ failures' = outcome.failures
    /\ IF outcome.applied THEN CarriedOut(request) ELSE UNCHANGED <<server, registered>>

\* A network that goes while the flush runs is one of the failures.
InFlush(outcome) ==
    IF online THEN outcome ELSE [outcome EXCEPT !.failures = failures + 1]

Enqueue(request) ==
    /\ nextKey <= MaxQueued
    /\ nextKey' = nextKey + 1
    /\ queue' = queue \cup {[key |-> nextKey, request |-> request, attempts |-> 0]}

\* A request of the form; unless it is answered, this goes to the queue.
SendOrQueue(request, queued) ==
    \E outcome \in Outcomes(request) :
       /\ Happens(request, outcome)
       /\ IF outcome.ok THEN UNCHANGED <<queue, nextKey>> ELSE Enqueue(queued)

-----------------------------------------------------------------------------
(* The queue: flush *)

Dequeued(m) == {other \in queue : other.key # m.key}

Failed(m) ==
    Dequeued(m) \cup
    {[other EXCEPT !.attempts = m.attempts + 1] : other \in {o \in queue : o.key = m.key}}

\* Faults: a failed mutation is given up at once, or is tried for ever.
GivenUp(m)      == Dequeued(m)
TriedForEver(m) == IF m.attempts + 1 >= MaxAttempts THEN queue ELSE Failed(m)

\* bumpAttempts, and the drop after too many attempts.
Bumped(m) == IF m.attempts + 1 >= MaxAttempts THEN Dequeued(m) ELSE Failed(m)

\* "Stop on first error"
AfterError == {}

StartFlush ==
    /\ online
    /\ batch = {}
    /\ queue # {}
    /\ batch' = queue
    /\ UNCHANGED <<formVars, photos, queue, nextKey, tries, serverVars, online>>

IsNext(m) == m \in batch /\ \A other \in batch : m.key <= other.key

FlushOne ==
    /\ \E m \in batch :
           /\ IsNext(m)
           /\ \E outcome \in Outcomes(m.request) :
                 /\ Happens(m.request, InFlush(outcome))
                 /\ queue' = IF outcome.ok THEN Dequeued(m) ELSE Bumped(m)
                 /\ batch' = IF outcome.ok THEN batch \ {m} ELSE AfterError
                 /\ tries' = [p \in Photo |->
                       IF p = m.request.photo /\ ~outcome.ok THEN tries[p] + 1 ELSE tries[p]]
    /\ UNCHANGED <<formVars, photos, nextKey, online>>

-----------------------------------------------------------------------------
(* The form *)

\* updateForm: the timer of the earlier change is cleared.
EditForm ==
    /\ phase # "sent"
    /\ edits < MaxEdits
    /\ edits' = edits + 1
    /\ form'  = edits'
    /\ timer' = TRUE
    /\ UNCHANGED <<phase, draft, photos, queueVars, serverVars, online>>

\* The callback of the timer, 500 ms after the last change.
AutoSave ==
    /\ timer
    /\ timer' = FALSE
    /\ draft' = form
    /\ Enqueue(DraftRequest(form))
    /\ UNCHANGED <<form, edits, phase, photos, batch, tries, serverVars, online>>

\* uploadMedia up to the store: when the signature or the PUT fails, the photo
\* shows an error and is neither registered nor queued.
UploadPhoto(p) ==
    /\ phase # "sent"
    /\ photos[p] = "none"
    /\ \/ /\ online /\ Editable(server)
          /\ photos' = [photos EXCEPT ![p] = "stored"]
          /\ UNCHANGED failures
       \/ /\ photos' = [photos EXCEPT ![p] = "error"]
          /\ IF online /\ Editable(server)
             THEN failures < MaxFailures /\ failures' = failures + 1
             ELSE UNCHANGED failures
    /\ UNCHANGED <<formVars, queueVars, server, registered, online>>

\* uploadMedia from there: the photo is registered now, or queued.
RegisterPhoto(p) ==
    /\ photos[p] = "stored"
    /\ photos' = [photos EXCEPT ![p] = "done"]
    /\ SendOrQueue(EvidenceRequest(p), EvidenceRequest(p))
    /\ UNCHANGED <<formVars, batch, tries, online>>

\* The button of the infrastructure scores; a version of the form has them.
SendScores ==
    /\ phase # "sent"
    /\ form # Empty
    /\ SendOrQueue(AreaRequest, AreaRequest)
    /\ UNCHANGED <<formVars, photos, batch, tries, online>>

\* handleSubmit, first half.  What is queued when the save fails is the
\* assessment, not the fields around it: a save without a field the server knows.
SaveBeforeSubmit ==
    /\ phase = "editing"
    /\ form # Empty
    /\ phase' = "submitting"
    /\ draft' = form
    /\ SendOrQueue(DraftRequest(form), DraftRequest(Empty))
    /\ UNCHANGED <<form, edits, timer, photos, batch, tries, online>>

\* handleSubmit, second half: a refusal is queued like a failure, and the local
\* draft is deleted in both cases.
Submit ==
    /\ phase = "submitting"
    /\ phase' = "sent"
    /\ draft' = Empty
    /\ SendOrQueue(SubmitRequest, SubmitRequest)
    /\ UNCHANGED <<form, edits, timer, photos, batch, tries, online>>

\* The tab is closed, or the browser crashes, and opened again: the form shows
\* the local draft, and the timer, the flush and the uploads are gone.  What the
\* flush was sending may have arrived.
Reopen ==
    /\ failures < MaxFailures
    /\ failures' = failures + 1
    /\ form'  = draft
    /\ timer' = FALSE
    /\ phase' = "editing"
    /\ batch' = {}
    /\ photos' = [p \in Photo |-> IF photos[p] = "stored" THEN "error" ELSE photos[p]]
    /\ \/ UNCHANGED <<server, registered>>
       \/ \E m \in batch : /\ IsNext(m) /\ online /\ Accepts(server, m.request.kind)
                            /\ CarriedOut(m.request)
    /\ UNCHANGED <<edits, draft, queue, nextKey, tries, online>>

-----------------------------------------------------------------------------

Connectivity ==
    /\ online' = ~online
    /\ UNCHANGED <<formVars, photos, queueVars, serverVars>>

\* The administrator sends the report back (module Inspections).
Query ==
    /\ server.status = "PENDING"
    /\ server' = [server EXCEPT !.status = "QUERIED"]
    /\ UNCHANGED <<formVars, photos, queueVars, registered, failures, online>>

SyncNext ==
    \/ StartFlush
    \/ FlushOne
    \/ EditForm
    \/ AutoSave
    \/ \E p \in Photo : UploadPhoto(p) \/ RegisterPhoto(p)
    \/ SendScores
    \/ SaveBeforeSubmit
    \/ Submit
    \/ Reopen
    \/ Connectivity
    \/ Query

SyncSpec == SyncInit /\ [][SyncNext]_syncVars

\* startSyncLoop flushes every minute while the app is open, and a request ends.
SyncFairness == WF_syncVars(StartFlush) /\ WF_syncVars(FlushOne)

-----------------------------------------------------------------------------
(* Properties *)

\* Types; a mutation in the queue has attempts left.
SyncTypeOK ==
    /\ {form, edits, draft} \subseteq 0 .. MaxEdits
    /\ timer \in BOOLEAN /\ online \in BOOLEAN
    /\ phase \in {"editing", "submitting", "sent"}
    /\ queue \subseteq Mutation /\ batch \subseteq Mutation
    /\ photos \in [Photo -> {"none", "stored", "done", "error"}]
    /\ registered \subseteq Photo
    /\ server.status \in ReportStatus

\* A photo the app shows as done is in the evidence of the report, waits in the
\* queue, or was sent MaxAttempts times from there in vain: lost answers,
\* crashes, refusals, and the failures of other mutations cost no photo.
EvidenceIsKept ==
    \A p \in Photo : photos[p] = "done" =>
        \/ p \in registered
        \/ \E m \in queue : m.request = EvidenceRequest(p)
        \/ tries[p] >= MaxAttempts

\* Every mutation in the queue has attempts left, and no photo that is done is
\* lost before its attempts are used up (sync.ts, upload.ts).
SyncInv == SyncTypeOK /\ EvidenceIsKept

\* "Drop after too many attempts so the queue doesn't lock up"
\* (inspector/src/lib/sync.ts:83): once the device stays connected the queue
\* empties, whatever the server refuses.
QueueDoesNotLockUp == <>[]online => []<>(queue = {})
=============================================================================
