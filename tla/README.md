# BeeBop: a verification project

BeeBop is a property marketplace for Abuja: seekers negotiate offers with
landlords, a trusted agent conducts a visit where one is needed, both parties
sign an agreement with one-time passwords and pay a facilitation fee through
Paystack; short-lets are booked by the night; inspectors verify listings, which
earn badges. The back end (`backend/app`, FastAPI, async SQLAlchemy, PostgreSQL,
Redis, Celery) carries this logic; the web front end and the inspectors' offline
PWA are clients of its API.

This directory holds TLA+ modules for that logic, the TLC configurations that
check them on small instances, and proofs checked by TLAPS. Paths below are
relative to `backend/app/`, those of `docs/` and `inspector/` to the repository.

## 1. The system

### 1.1 Components

| Component | State it keeps | Operations | What makes it correct | Here |
|---|---|---|---|---|
| Offers `offers/` | `offers`: status, round, parent, whose turn, deadline, reminders sent | submit, counter, accept, reject; sweep every minute | rounds form a chain with a cap; one live round per seeker; acceptance is final and carried out; expiry only after 48 hours; each reminder once, in order | `Offers` |
| Agreements `agreements/` | `agreements`: status, signatures, payment references; PDF in S3; charges at Paystack; the listing's status | generate, request OTP, sign, charge, confirm by webhook, download, renewal prompt | one per offer; no signature lost or doubled; SIGNED means paid; what is paid is completed; the listing leaves the market once | `Agreements` |
| Short-let bookings `bookings/` | `bookings`: dates, status, decision, deadline, reference, access details, check-in; payouts | submit, accept, decline, cancel, confirm by webhook, check-in; release and auto-decline sweeps | no night twice; confirmed means paid; final states are final; every request ends; access on the day | `Bookings` |
| Visits `visits/`, `agents/` | `visits`: status, agent, deadline, report | request, assign, confirm or conflict, report, cancel, approve, query, flag | the agent who confirmed conducts; over is over; agreements unlocked only by a report | `Visits` |
| Payment webhook `payments/routes.py` | none | dispatch a Paystack event to agreements or bookings | repetition, delay and order change nothing | `Agreements`, `Bookings` |
| Fees and prices `payments/fees.py`, `bookings/pricing.py` | none | pure functions, and the charges made with them | parts add up to the kobo; the guest pays what the calendar shows | `Fees`, `Prices` |
| Listings `listings/`, administration `admin/service.py` | `listings`, photos, documents, badges | draft, submit, photos, documents; review documents, award, publish, suspend, delist, restore, delete | the tier agrees with the badges, badges rest on documents; one cover, distinct orders | `Listings`, `Gallery` |
| Student inventory `listings/student_inventory.py` | unit types, rooms | create, update, occupancy | an occupied room keeps its gender tag; bed counts stay in range | `Inventory` |
| Inspections `inspector/`, `admin/review_service.py`, `verification/badges.py` | reports, evidence, badges | assign, start, save, evidence, submit, approve, query, reject | a submitted report is complete, and locked; a badge rests on one approval | `Inspections`, `Report` |
| Valuation report `verification/reports.py`, `inspector/area_scoring.py` | a column, a Redis key, the scores of areas | generate, store, cache, read, invalidate | what is shown shows the present scores | `Valuation` |
| Inspector PWA `inspector/src` | the form, IndexedDB drafts and queue | edit, autosave, photos, scores, submit; enqueue, flush, retry, drop | no evidence is given up before its last attempt; the queue empties | `SyncQueue`, `Report` |
| OTP `auth/otp_service.py` | Redis: code, attempts, rate counter | request, verify | a code works once, guesses and requests are bounded | `Otp`; precondition of signing |
| Accounts and refresh tokens `auth/` | `users`; Redis: current token per user | login, rotate, replay, logout, set email, invite | a token is exchanged once; a replay ends the login | `Accounts` |
| Onboarding `users/`, `integrations/nimc.py`, `cac.py`, `admin/service.py` | role, account type, verification, documents | profile, NIN and CAC checks with retries, upload, review | a verification fits the account; an approval stands | `Onboarding` |
| Notifications `notifications/` | rows, Celery tasks | dispatch, deliver, retry, read | nothing is told of what was rolled back; a message is sent, bounded times, and complete | `Templates`, `Notifications`; counted in `Offers` |
| AI search `ai_search/` | chat session in Redis | a turn: interpret with retries and fallback, merge, search, save; clear | an ordinal means a listing of the list the user was shown | `ChatSession` |
| Search, bookmarks, dashboards | set of bookmarks | queries | | a turn's search in `ChatSession`, the host's calendar in `Prices`; the rest is read-only |
| Clients of external services `integrations/` | none | I/O | | their effects are state of the modules that use them |
| Chat messages, front end, seeds | | | | not modelled (section 5) |

### 1.2 How they interact

- **Calls.** `accept_offer` inserts a visit, or calls
  `generate_agreement_for_offer`; so does the approval of a visit report. The
  approval of an inspection issues a badge and caches a valuation report. Every
  service calls `dispatch_notification`.
- **Shared rows.** `listings.status` is written by administrators, flagged
  visits, inspections' review and the webhook. `submit_offer` reads `visits`.
- **Messages.** Paystack's webhooks (repeated, late, in any order), Celery tasks,
  one-time passwords, the mutations queued by the inspectors' PWA.
- **Time.** Celery Beat (`notifications/celery_app.py`): offer expiry every
  minute, access release every hour, auto-decline every 30 minutes, renewal
  prompts daily. A run does not wait for the previous one. Redis keys expire.

### 1.3 What is hard

Every request is one `AsyncSession` (`database.py:18-39`) at PostgreSQL's READ
COMMITTED level: it reads rows, checks, sets attributes and commits at the end.
No read takes a row lock, no table has a version column, and the uniqueness that
the services check is not a constraint of the schema. What a guard read may
therefore be stale when the write it guards is made. An UPDATE names only the
columns whose value the session changed, so two sessions also *merge* into rows
that neither of them had in mind. Beyond the database: charges and PDFs are made
before the commit and survive a roll-back; notification tasks are queued before
it; Redis commands take effect one by one; webhooks and sweeps race with people;
deadlines pass; the inspectors' app loses its network between a request and its
answer.

`PROJECT.json` lists each hazard at its line, with the properties that cover it.

## 2. The modules

A database session is modelled the same way everywhere. `Begin...` reads the rows
and runs the guards of the service function, up to its last early return;
`Commit...` makes the writes of the function on whatever the rows hold by then,
restricted to the columns that the session changed, and `Abort` ends the session
without a commit. Commits that write one row are ordered by the row lock of the
UPDATE. Where a function does something no roll-back undoes *between* two writes
(a PDF, a charge, a Redis command, a task), that is a step of its own.
`Overlap` (a constant of the four transactional modules, and in the others a
variable that `Init` picks from `Modes`) says whether sessions may be open at the
same time: without, one sees the code's logic, one request after the other,
failing anywhere; with it, what concurrent requests make of it.

The core:

| Module | Code | Contents |
|---|---|---|
| `Offers` | `offers/service.py`, `offers/sweeper.py` | Rows of `offers`; the visits and agreements an acceptance asks for; requests; sweeps. An offer's age is one of four values, the marks 24, 36 and 48 hours being all the sweeper can tell apart. |
| `Negotiation` | docstring of `offers/service.py` | Abstract: per seeker the live round and the number of acceptances. |
| `Agreements` | `agreements/service.py`, `renewal.py`, webhook | Rows of `agreements`; the signatures the stored PDF shows; charges issued and paid at Paystack; webhooks owed; the listing's status. A sign session has the phases *read*, *stored* (PDF in S3), *charged*. |
| `Deal` | docstring of `agreements/service.py` | Abstract: stage of the agreement for each offer, and whether its fees are settled. |
| `Bookings` | `bookings/service.py`, `availability.py`, `sweeper.py`, webhook | Rows of `bookings` over days `0..LastDay`; charges; payouts; today; the two sweeps. |
| `Calendar` | docstrings of `bookings/` | Abstract: state and nights of each booking; a night is held for one booking. |
| `Visits` | `visits/service.py`, `agents/service.py` | Rows of `visits`, with ghost variables for who confirmed and which reviews were committed; whether the agreement was asked for; the listing's status. |
| `Conduct` | docstrings of `visits/` and `agents/` | Abstract: phase, agent, author and reviews of each visit; one agent takes it on, for good, and an agreement follows an approval only. |

Around it:

| Module | Code | Contents |
|---|---|---|
| `Sessions` | `database.py` | The open modes and the row a commit writes: the columns whose value differs from the one read, over the row as it is then. |
| `Listings` | `listings/service.py`, `admin/service.py`, `admin/review_service.py` | One listing's row, its documents and badges. Payments and flagged visits change its status as the modules above do. |
| `Gallery` | photos in `listings/service.py` | Rows, order, cover; a request is one step, since the owner alone makes them. |
| `Inventory` | `listings/student_inventory.py` | Unit types and rooms; update and occupancy. |
| `Report` | `inspector/service.py` | The row of a report, and what saving, evidence and submission make of it. Shared by the next two. |
| `Inspections` | `inspector/`, `admin/review_service.py`, `verification/badges.py` | Reports on one listing, the four verdicts, the badge. |
| `Examination` | docstrings of `inspector/service.py` | Abstract: stage, holder and content of each report, and the number of badges; one open report to an inspector, reviewed as it was handed in. |
| `SyncQueue` | `inspector/src/lib`, `inspector/src/components/assessment` | The form, its debounced save, the local draft, the upload and registration of photos, the scores of the area, the queue, its flush; requests refused, lost, or carried out without an answer; closing and reopening the app. |
| `Valuation` | `verification/reports.py`, `inspector/area_scoring.py` | Area scores per cell, the stored report, the cached one, readers that take several steps. |
| `Otp` | `auth/otp_service.py` | One step per Redis command; a request may end after any; each key may expire at any moment. |
| `Accounts` | `auth/service.py`, `refresh_store.py` | Rows of `users`, the current token in Redis; a login is a step per statement or command; rotation, replay, logout. |
| `Logins` | docstring of `auth/refresh_store.py` | Abstract: the login of each user, and those ever begun; one at a time, none comes back. |
| `Onboarding` | `users/service.py`, `integrations/nimc.py`, `cac.py`, `admin/service.py` | The user's role, account type, NIN and CAC verification, documents and their review. |
| `Templates`, `Notifications` | `notifications/` | What each renderer shows and what each call passes; then one notification's row, its transaction, its task, the provider and the marks. |
| `Fees`, `Prices` | `payments/fees.py`, `bookings/pricing.py`, `dashboards/service.py` | The fee functions in kobo with both roundings; a stay counted night by night, its quote, charge and payout; the three kinds of agreement. |
| `ChatSession` | `ai_search/service.py`, `session_store.py`, `search/service.py` | The stored session, a turn (three attempts of the model, then the word lists), the merge of parameters, the search, ordinals; in the panel, the window of the last reply and the list before it. |
| `MC...` | | Instances for TLC. `MCPlatform` and `MCServices` hold several components each: a variable `focus` picks the one a behaviour moves, and the others stay in one initial state. |
| `OffersProofs`, `AgreementsProofs`, `BookingsProofs`, `VisitsProofs` | | Theorems about the core and its abstract specifications (section 4). |
| `ListingsProofs` | | Theorems about `Listings`, `Gallery`, `Inventory`. |
| `InspectionsProofs` | | Theorems about `Inspections`, `Valuation`, `SyncQueue`. |
| `AccountsProofs` | | Theorems about `Onboarding`, `Otp`, `Accounts`. |
| `ServicesProofs` | | Theorems about `Prices`, `Templates`, `Notifications`, `ChatSession`. |

Operators whose comment starts with *Fault:* are deliberate mistakes, each next
to the definition it stands in for. They are used by nothing; `PROJECT.json`
("mutants") pairs each with the property that must fail when it is put in place.

Left out on purpose: wording and views; the checks on `listing.status` when an
offer is submitted (other components may change it at any time, so a submission
is merely possible); the code sent for a signature in `Agreements` (it lets a
party sign; with e-mail and WhatsApp codes a party can have two signing requests
open). `Visits` takes the agents who once inspected the listing as a constant: a
user has one role, so only a former inspector can be both. SUSPENDED stands for
DELISTED too in `Visits`.

## 3. What is checked

Runs that must pass:

| Run | Instance | Shows |
|---|---|---|
| `offers_overlap` | 1 seeker, 2 rows, 1 request and 1 sweep that overlap, fairness | `OffersInv` (types; rounds form threads), `ExpiredOnlyAfterWindow`, `NoticesMatchFlags`, `AcceptedIsCarriedOut`, `ClosedStaysClosed`: stale writes may replace one answer by another, but never break the chain of rounds or the turn-taking, expire early, send a notice the flags do not show, lose a visit or an agreement, or reopen a round. `EveryRoundIsClosed`: what is put to a party is answered or expires |
| `offers_serial` | 2 seekers, 3 rows, one session at a time | `Offers` implements `Negotiation` |
| `agreements_overlap` | 1 agreement, 2 sessions, 1 charge per leg, fairness | `AgreementsInv` (nobody signs twice, status and signatures agree), `SignedIsPaid`, and `MoneyIsNotStuck`: the leg whose webhook comes last completes the agreement |
| `agreements_serial` | 1 offer, 2 rows, 2 charges, one session at a time | `SignedIsShown` (the PDF in S3 shows what was signed; the listing leaves the market for a signed agreement only), `SignaturesAccumulate`, and `Agreements` implements `Deal` |
| `bookings_overlap` | 1 booking, 2 sessions, 2 charges, fairness | `BookingsInv` (confirmed means paid), `MoneyIsNotStuck`, and `EveryRequestIsDecided` for the requests a host has to answer |
| `bookings_serial` | 2 bookings, 3 days, 1 turnaround day, one session at a time | `AccessIsDue`, `PayoutAtMostOnce`, and `Bookings` implements `Calendar` |
| `visits_serial` | 2 visits, 3 agents (1 former inspector), one session at a time | `VisitsInv` (an agreement has the report of an agent who confirmed and never inspected the listing), `ConductedByConfirmer`, and `Visits` implements `Conduct` (which includes that a visit that is over is final) |
| `platform` | 7 components, with and without overlap, 2 sessions | see below |
| `services` | 5 components, fairness | see below |

The parts of `platform` and `services`; *serial* parts are claimed of one session
at a time only, and the modules say so in the property (`~overlap => ...`):

| Property | Component | Says |
|---|---|---|
| `ListingsInv` | `Listings` | a tier shown has its badge, and a physical badge has a document badge under it; serial: the documents a badge was awarded on are still there, and there is one badge of a type |
| `OneCoverDistinctOrder` | `Gallery` | a gallery with photos has one cover, and no two photos in one place |
| `OccupantsAreSafe` | `Inventory` | serial: the tag of an occupied room is locked, its beds do not fall below its guests, it is not deleted |
| `OtpInv` | `Otp` | codes per window stay under the limit, whatever fails between two commands; serial: the guesses at a code are limited, and it works once |
| `AccountsInv` | `Accounts` | an email finds one account; serial: a token is exchanged once, and after a replay or a logout nothing of that login is current |
| `ImplementsLogins` | `Accounts` | serial: implements `Logins`; a rotation carries a login on, and one that was replaced or ended has no current token again |
| `OnboardingInv` | `Onboarding` | who was told of an approval is verified; serial: a verification fits the role and the account type, the number of an agency is the one CAC confirmed, a user waits for a review or has the reason of a rejection |
| `ChatInv` | `ChatSession` | results are those of a search; serial: "the second one" is the second listing of the window when that shows more than one, and of the last list otherwise, or nothing |
| `InspectionsInv` | `Inspections` | a submitted report is complete; serial: an inspector has one open report, and the badge rests on one approved, complete report |
| `ImplementsExamination` | `Inspections` | serial: implements `Examination`; what is reviewed is what was handed in, and a verdict is final |
| `ReportShowsScores` | `Valuation` | serial, and no request rolled back after its write to Redis: cached and stored report show the present scores |
| `SyncInv` | `SyncQueue` | a photo shown as done is in the evidence of the report, waits in the queue, or was sent from there `MaxAttempts` times in vain |
| `QueueDoesNotLockUp` | `SyncQueue` | once the device stays online the queue empties, whatever the server refuses |
| `NotificationsInv` | `Notifications` | nobody is told of what was rolled back; SENT means delivered; nobody gets a message more than 1 + `max_retries` times; a committed row has a task |
| `OnlyDetailsAreBlank` | `Templates` | every call supplies what the messages of its event show, but for access details the host never saved |
| `QueuedIsSettled` | `Notifications` | a row leaves QUEUED, unless its task was lost with its worker or used up its retries |
| `QuoteFitsCalendar` | `Prices` | the guest pays what the host's calendar shows for the days of the stay |
| `AmountsAddUp` | `Prices` | charge = payout + fees to the kobo; the payout is the quoted one, within a kobo; a rent's two shares make its fee, within a kobo |

Runs that must find a violation check a statement of a docstring or comment each;
the quotation is with the finding in `PROJECT.json`:

| Run | Violated | How |
|---|---|---|
| `offers_accept_swept` | `AcceptanceIsTerminal` | an acceptance between the sweep's SELECT and its commit is overwritten by EXPIRED |
| `agreements_lost_signature` | `SignaturesAccumulate` | both parties sign at once, and each session writes back the list it read |
| `bookings_double` | `NightsDisjoint` | two submissions pass the conflict check before either inserts |

All three properties are *proved* without overlap (`AcceptanceStands`,
`NoSignatureIsLost`, `NightsStayDisjoint`) and fail with it. That is the point of
`Overlap`: it tells flaws of logic from flaws of isolation.

### 3.1 Bounds

- *Two sessions.* What goes wrong between sessions needs two: the guards and
  writes touch one row, so a third session adds nothing that a second, ended and
  started again, does not do. In `offers_overlap` the two are a request and a
  sweep. The theorems hold for any number.
- *Rows.* Relations between rows are pairwise (parent and child, two bookings,
  two agreements of an offer), hence two; `offers_serial` has three, a thread as
  long as the cap, or a thread beside another seeker's.
- *`MaxRounds`* is the 3 of the code. The two rows of `offers_overlap` do not
  reach it; that overlapping counters cannot pass the cap is the theorem
  `ThreadsAreWellFormed`, for any cap and any number of rows.
- *`MaxCharges`* bounds how often one agreement or booking is charged: 2 lets a
  payment for an earlier charge meet a later reference. It is 1 in
  `agreements_overlap` and `bookings_serial`, to keep them small.
- *`LastDay`* is 2 in `bookings_serial`: three days make stays before, at and
  after each other, with a turnaround day; 1 in `bookings_double`; 0 in
  `bookings_overlap`, whose properties are about one booking's status and money.
  The host's deadline passes independently of the days.
- *`Visits`* is checked without overlap; the theorems of section 4 cover its
  overlapping sessions.
- *`VisitsOutstanding`* (a CONSTRAINT) leaves completed visits out of
  `offers_serial`, whose property does not depend on them.
- *`Category`* is RENT in the agreement runs: both parties owe a fee and the
  agreement waits for two legs. In a sale only the seller is invoiced: the same
  control with one leg.
- *`platform`.* Two sessions. One document and at most two badges of a type (the
  second is the mistake); three photos at places 0..3; a room of two beds; one
  address with two codes, one window after the first, `RateLimit` 1 and two
  guesses (5 and 5 in the code: only reaching the limit matters); two users, one
  email, one telephone number, three tokens (one spent, one replayed, one
  current); two NIMC attempts, the code's number; chats of two turns with one
  category and one amenity, the model's three attempts, two results, so that
  there is a second one to name.
- *Where overlap is narrowed* (`MCPlatform`, `MCServices`): overlapping requests
  on a listing are those on a RENT one, overlapping chat turns see a market that
  does not change, overlapping inspection requests are about one report, a seeker
  who becomes a landlord has no preferences yet, and the gallery is serial.
- *`services`.* Two reports of one inspector; places at 4 and 13 (two cells,
  one with another's anchor in reach of truncation) with scores up to 2; one
  edit, two photos (one's failures must not cost the other), three queued
  mutations, and two failures of network, server or app with `MaxAttempts` 2 (6 in
  the code): a mutation may fail on all of its attempts and be dropped, by
  refusals or by failures, while others go ahead. Three retries of a task, as in
  the code. Stays of up to eight nights (a week and a night, so every weekend
  pattern) at three rates; nine deal prices around the tier and the half-kobo.
- *Deadlock* is checked in the runs of the core. When all rows are used up,
  administrators, sweeps and repeated webhooks still move. It is not checked in
  `platform` and `services`, whose components really may come to an end: a
  delivered message, a priced stay, a chat out of turns.
- *Timing assumptions.* A charge is paid only after the session that initialised
  it has ended. `Tick` needs one committed release run per day: the hourly task
  may fail, but not 24 times in a row. Offers age independently of each other.

### 3.2 Fairness

Nobody has to submit, answer, sign, pay, assign or cancel. Fair are

- time: offers age, deadlines pass (weak);
- sweeps: started again and again by Beat (weak; strong for auto-decline, which
  starts only when there is something to do), and not every run fails (strong on
  the commit, since a failed run ends without one); the renewal prompt (weak);
- webhooks: Paystack repeats an unanswered one (strong on the delivery, which
  may be disabled between attempts), and not every answer fails (strong);
- the end of an open session, by roll-back if nothing else (weak);
- the PWA: `startSyncLoop` flushes every minute while the app is open, and a
  request ends, one way or another (weak on `StartFlush` and `FlushOne`);
- Celery: a worker takes the next step of a task, which may be its loss (weak on
  `Deliver`).

### 3.3 Other disagreements met while modelling

The models show these too, but no run checks them as violations: each is a step
or two away from the code quoted, and listed so that a reader of the modules is
not surprised. The properties of section 3 that are *serial*, or name an
exception, name it because of them.

Offers and agreements:

- `offers/service.py:150`: two submissions of one seeker that overlap pass the
  duplicate check, and two rounds are live (serially excluded:
  `NegotiationIsKept`).
- `offers/sweeper.py:94`: after a gap of the beat, the urgent 36-hour reminder is
  followed a minute later by the 24-hour one.
- `offers/sweeper.py:109`: two runs of the sweep that overlap send a notice twice;
  the flags (`models/offer.py:64`) only protect runs in sequence, which is why
  `FlagsTellTheNotices` assumes one sweeper.
- `offers/service.py:292`: whether a visit is needed is the flag set at
  submission, not what is true at acceptance (`docs/sprint-8-status.md:45`).
- `offers/service.py:95`: COUNTERED rounds count as open for ever, so a seeker whose
  negotiation ended cannot make a new offer on the listing.
- `agreements/service.py:91`: two approvals that overlap draw up two agreements.
- `agreements/service.py:111`: a tenancy that starts on 29 February gets an end
  date that does not exist, and its agreement is never drawn up.
- `agreements/service.py:439`: a webhook repeated after completion takes a suspended
  listing back to AGREED (`docs/sprint-10-status.md:58` calls webhooks
  idempotent).
- `agreements/service.py:275`: when the invoice of a sale fails, the PDF with both
  signatures is in S3 and can be downloaded (`docs/sprint-10-status.md:17`).
- `agreements/service.py:634`: the renewal query asks for ACTIVE, which nothing sets.

Bookings and prices:

- `bookings/availability.py:86`: the turnaround is kept after the stays in the table
  and not after the one asked for.
- `bookings/service.py:473`: checking in completes the booking, and its nights are
  free again. Two check-ins that overlap both transfer the payout.
- `bookings/service.py:259`: a repeated acceptance makes a second charge; the first
  reference is forgotten.
- `bookings/service.py:397`: a webhook session confirms a booking that was closed
  after it read it.
- `bookings/sweeper.py:32`: a guest who cancels while a release run is open gets
  the access details all the same.
- `bookings/sweeper.py:34`: a stay confirmed after the last release run of its day
  never gets its access details.
- `bookings/sweeper.py:49`: an accepted request that waits for its payment is
  declined for the host's silence.
- `bookings/sweeper.py:51`: an instant booking that is never paid has no deadline and
  blocks its nights. `EveryRequestIsDecided` leaves instant bookings out.
- `bookings/pricing.py`: for a base total with half a kobo the payout is one kobo
  below the quote (`AmountsAddUp` allows for it); the guest's fee falls from
  10 % to 8 % of the whole at the tier, so one night more can cost less in all.

Visits, listings and inspections:

- `visits/service.py:142`: reassignment and confirmation that overlap leave a SCHEDULED
  visit with an agent who has not confirmed.
- `agents/service.py:329`: cancellation and review that overlap reopen or overwrite
  a visit that is over.
- `agents/service.py:516`: a flagged report completes the visit, which
  `models/_enums.py:106` describes as an approval (`docs/sprint-9-status.md:14` agrees
  with the code).
- `agents/service.py:524`: flagging writes LIVE_UNVERIFIED over a suspension made
  in the meantime.
- `admin/service.py:480` says of a delisted listing that it "cannot go live"; the
  approval of an inspection assigned before makes it FULLY_VERIFIED
  (`admin/review_service.py:261`), and the webhook of an older offer AGREED.
- `admin/service.py:587` leaves a restored listing to a new document review, but
  with its badge still active the award raises `document_badge_exists`. A draft
  that was suspended is public after the restoration.
- Two document reviews that overlap issue two badges, and every later look-up for
  one raises (`OneBadgePerType` is serial).
- `models/badge.py:3-4` calls the combination of badges derived and not stored;
  `listings.status` stores it.
- `models/student_accommodation.py:5` speaks of a constraint of the database; the
  lock of the tag is a check of the service, and two requests that overlap pass it.
- `listings/student_inventory.py:4`: the rooms of a self-contained unit carry ANY,
  but an update may give them another tag.
- `inspector/service.py:6` forgets QUERIED among the states in which a report may
  be edited; `docs/sprint-6-status.md:17` calls photos optional, which the server
  requires.
- `verification/reports.py`: a listing whose status has moved on without its badge
  keeps a cached report that nothing refreshes; a roll-back after the cache was
  written leaves the report of scores that never were; a reader that overlaps an
  update caches the old ones.
- `inspector/area_scoring.py:30` truncates towards zero, and `area_scores` has no
  unique constraint: two first scores of a cell that overlap make two rows.

The inspectors' app:

- `assessment-form.tsx:194`: when the save before a submission fails, what is
  queued lacks the fields of the form, and the submission deletes the local draft:
  the last change is lost ("the inspector never loses progress",
  `docs/sprint-6-status.md:52`). `EvidenceIsKept` is therefore about evidence.
- `sync.ts:82-85`: after six failures of any kind, those of the network and the
  server included, the registration of a photo is dropped for good, although the
  page shows the photo as done and nothing tells the inspector.
  `EvidenceIsKept` names this exception and shows that it is the only one.
- `upload.ts:47-58`: a photo whose signature or transfer fails, as both do without
  a network, is neither registered nor queued, although `upload.ts:9-10` speaks of
  an offline device; the page shows an error and offers no retry
  (`photo-capture-section.tsx:115-120`). Closing the app loses uploads in flight.
- A direct save overtakes older saves in the queue, which then overwrite it; a
  direct submission overtakes evidence in the queue, which is then refused.

Accounts, one-time passwords, onboarding:

- `auth/service.py:127`: telephone numbers are not unique; with two accounts of one
  number the login raises and both are locked out. `EmailFindsOne` is about emails.
- `auth/otp_service.py:96`: two verifications of one code that overlap both succeed;
  wrong guesses that overlap count once, and may write a record back over a newer
  code or after its deletion (lines 119-125).
- `auth/otp_service.py:81-82`: a crash between INCR and EXPIRE leaves a counter
  without an end, and its address is refused for ever once the limit is reached.
- `auth/schemas.py:27` lower-cases the email of a request but the schema of the
  verification does not.
- `auth/routes.py:76-77`: two refreshes with one token that overlap both succeed,
  and a revocation between check and record is undone.
- `integrations/nimc.py:107` promises a retry on a server error; only time-outs are
  retried.
- Blank names pass the length check and are stripped afterwards; two changes of
  account type that overlap leave the verification of both; a rejection that read
  before a new upload drops it; approval and rejection that overlap tell the user
  both.

Notifications and chat:

- `notifications/templates.py:6` promises a WhatsApp renderer for every event with
  that channel; `booking.cancelled` has none and its row always fails.
- `inspector/service.py:333` dispatches `inspection.submitted`, which is not
  registered: nobody is told, although the comment says who should be.
- `docs/sprint-4-status.md:48` calls retries idempotent; a task whose mark failed
  sends its message again, since the status is not looked at.
- A row whose task was lost with its worker, or that came before the commit four
  times, stays QUEUED (`QueuedIsSettled` names both); a broker that does not answer
  fails the request that made the call.
- `ai_search/service.py:1148`: an ordinal shows a listing that has been taken down
  since. A turn that ends late, or a clear while a turn runs, is overwritten by the
  other (`docs/sprint-13-status.md:12`). `OrdinalIsInTheList` is serial for this reason.
- `ai_search/service.py:357-364`: a reply that points at one listing makes it the
  whole window of the panel (`frontend/src/components/chat-search.tsx:186-187`,
  246-254), while the session keeps the older list: after "the second one", "the
  first one" is not the listing in the window, but the first of the list above it
  in the conversation. `OrdinalIsInTheList` says which list counts.
- `bookings/service.py:446`: a host need not save access details, and the sweep
  does not ask (`bookings/sweeper.py:32-36`): on the day the guest is sent an email
  with nothing where the details belong, and what is saved later is not sent
  (`access_details_released_at` is set). `OnlyDetailsAreBlank` names this call.
- `ai_search/prompts.py:34` lets the user override parameters; lists of locations
  and amenities only grow. `docs/architecture.md:56` says two retries, and there are
  three attempts.

## 4. What is proved

Eight modules of theorems, for any values of the constants: any sets of rows,
users and workers, any bounds. They assume the named ASSUME of the modules they
are about, which TLC evaluates in the runs, and what the table says: *serial* is
`~Overlap` of the core, and in the modules where `Init` picks the mode it stands
in the property itself (`~overlap => ...`), next to what holds with overlap.

Every safety property of the passing runs is a theorem.

| Module | Theorem | States | Assumes |
|---|---|---|---|
| `OffersProofs` | `TypeCorrectness` | `TypeOK` | |
| | `ThreadsAreWellFormed` | `OffersInv` | |
| | `NoEarlyExpiry` | `ExpiredOnlyAfterWindow` | |
| | `AcceptanceIsCarriedOut` | `AcceptedIsCarriedOut` | |
| | `ClosedForGood` | `ClosedStaysClosed` | |
| | `FlagsTellTheNotices` | `NoticesMatchFlags` | one sweeper |
| | `NegotiationIsKept` | `Offers` implements `Negotiation` | serial |
| | `AcceptanceStands` | `AcceptanceIsTerminal` | serial |
| `AgreementsProofs` | `SignaturesFitStatus` | `AgreementsInv` | |
| | `SignedAgreementsArePaid` | `SignedIsPaid` | |
| | `DealIsKept` | `Agreements` implements `Deal` | serial |
| | `TheWorldSeesWhatIsSigned` | `SignedIsShown` | serial |
| | `NoSignatureIsLost` | `SignaturesAccumulate` | serial |
| `BookingsProofs` | `ConfirmedBookingsArePaid` | `BookingsInv` | |
| | `AccessWaitsForTheDay` | `AccessIsDue` | |
| | `CalendarIsKept` | `Bookings` implements `Calendar` | serial |
| | `PaidOutOnce` | `PayoutAtMostOnce` | serial |
| | `NightsStayDisjoint` | `NightsDisjoint` | serial |
| `VisitsProofs` | `AgreementsRestOnReports` | `VisitsInv` | |
| | `ConfirmersConduct` | `ConductedByConfirmer` | serial |
| | `OverForGood` | `OverIsFinal` | serial |
| | `ConductIsKept` | `Visits` implements `Conduct` | serial |
| `ListingsProofs` | `TiersRestOnBadges` | `ListingsInv` | |
| | `CoverAndOrder` | `OneCoverDistinctOrder` | |
| | `OccupantsKeepTheirBeds` | `OccupantsAreSafe` | |
| `InspectionsProofs` | `ReportsEarnBadges` | `InspectionsInv` | |
| | `ReportsAreLocked` | `LockedWhileReviewed` | |
| | `ExaminationIsKept` | `Inspections` implements `Examination` | serial |
| | `ReportsAreFresh` | `ReportShowsScores` | no negative coordinate |
| | `EvidenceSurvives` | `SyncInv` | |
| `AccountsProofs` | `VerificationIsSound` | `OnboardingInv` | |
| | `CodesAreLimited` | `OtpInv` | |
| | `LoginsAreSound` | `AccountsInv` | |
| | `LoginsEndForGood` | `Accounts` implements `Logins` | serial |
| `ServicesProofs` | `NotificationsAreSound` | `NotificationsInv` | |
| | `MessagesAreBounded` | at most 1 + `MaxRetries` messages | |
| | `OnlyDetailsAreMissing` | `OnlyDetailsAreBlank` | |
| | `MoneyIsAccountedFor` | `AmountsAddUp` | |
| | `GuestsPayTheCalendar` | `QuoteFitsCalendar` | |
| | `SessionsHoldTogether` | `ChatInv` | |

What is assumed of the constants, beyond types: `None` is nobody's address
(`NullAssumption`); the chat keeps an even number of turns, as `MAX_TURNS` = 10 is,
so that trimming removes whole exchanges, and there are finitely many categories
and amenities, `Nothing` not among them (`ChatAssumption`); a mutation has at least
one attempt (`SyncQueueAssumption`).
`ReportsAreFresh` has a hypothesis of its own: no coordinate is negative, as in
Nigeria. TLC refutes the theorem without it: south of the equator `snap_to_cell`
truncates towards zero (`inspector/area_scoring.py:30`) while the refresh after a
change of scores looks for the listings above the anchor of the cell
(`verification/reports.py:248-251`), and misses some.

**With overlap.** None of these properties is inductive: a session acts on what it
read some steps ago, and nothing in the tables says what that was. Each `IInv`
therefore says what is left of a session's guards, and of its reads, when it
commits; it is kept because the columns in question are written once, or grow.

- `Offers`: `RequestsAgree` (what an open request has read of its round is still
  so: the turn, the visit flag, a round number below the cap) and `PlansAreDue`
  (what a sweep is about to expire has its whole window behind it). The lemma
  `StepKeepsRows` says of every step that a row keeps its round, parent, seeker,
  turn, flag and author, a closed row stays closed, and an age that has reached the
  window stays there.
- `Visits`: `RowsAgree` (no former inspector is on a row, and what is past
  AGENT_ASSIGNED was confirmed) and `SessionsAgree` (a session that reports or
  reviews has a confirmation behind it, one that reviews also a report).
- `Agreements`: `RowsAgree`, `PaidIsIssued`, and `SessionsAgree`: a session signs
  for a party that is not in the list it read, or confirms a charge that is paid
  in full.
- `Bookings`: `RowsAgree` and `SessionsAgree`: a session that confirms, checks in or
  releases has a payment of that booking behind it, and one that releases a day
  of check-in that has come.
- `Listings` (`LifeInv`): a session that will show a tier has read that tier,
  finds its badge, or issues it (`WritesFit`); nothing revokes a badge, so this
  stands until the commit.
- `Inspections` (`ReviewInv`): a report only grows. What a session writes over a row
  is at least what the row it read was (`Grows`), and a report that is handed in
  has all its content, so merging the two keeps it complete.
- `Onboarding` (`UserInv`): a verification is not taken back, and a session that
  will tell of an approval writes it too.
- `Otp` (`CodesInv`): the codes sent to an address and those about to be sent are at
  most what the counters of its windows counted (`SendsCounted`), whichever command
  a request stops at.
- `Accounts` (`LoginInv`): every row is found under the address it was made for, and
  a login that is about to insert one has one the index does not have
  (`RowsAreFound`); a token and its family belong to one user (`TokensHaveOwners`).
- `Inventory` (`RoomsInv`): what an update computed is in range and in the same unit.
- `ChatSession` (`SessionInv`): whatever is saved over whatever is stored, it is of
  whole exchanges, with parameters and results that go together. Lemmas about
  sequences say that a suffix of even length of whole exchanges is one.
- `SyncQueue` (`QueueInv`): mutations differ in their key, what a flush has yet to
  send is in the queue (`QueueIsKeyed`), and the attempts of the registration of a
  photo are failures counted for that photo (`AttemptsWereMade`), so a drop at the
  last attempt leaves `MaxAttempts` of them behind.
- `Gallery` (`GalleryInv`) has no sessions, but a cover in the gallery and a finite
  one: the new place is one above the highest.
- `Notifications`: where the row is follows from the transaction, a loaded task
  has a row, a delivery has a task, and each run sends once. For
  `OnlyDetailsAreBlank` the lemma `CallsFit` goes through the 31 calls of
  `dispatch_notification` and their renderers, and `WithoutDetailsFits` says what the
  call without access details lacks; a row has a channel of a registered template
  (`BlankInv`).
- `Prices`: lemmas about division bound each rounding; the invariant says what
  the amounts on the table are at each stage, `UpliftSoFar` what the nights
  counted so far have added, and `CountedSoFar` that they come to the rates of
  their days on the calendar. The calendar's total is a fold over a set of days,
  and the loop takes them in order; that a sum does not depend on the order
  (`SumWithout`), and that the fold computes it (`CalendarSum`), is proved without
  an induction theorem, from a smallest subset of the stay for which it would fail.

**One session at a time.** The invariants add `Alone` (one session is open) and that
its guards still hold of what it read (`RequestHolds` and `SweepHolds` in
`Offers`, `StillSo` in `Bookings`, `Holds` in `Visits`, `Fresh` in `Agreements`,
`GuardsHold` in `Listings`, `ReportsAgree` in `Inspections`, `VisitIsFresh` in
`Onboarding`, `OfTheList` in `ChatSession`), with what the rows themselves then keep
(`RowsFit`, `PayoutFits`, `OnePerOffer`, `Fits`, `BadgesAreFinal`, `RowFits`,
`GuessesCounted`, `ExchangedIsOld`). In `Valuation` (`ShowsScores`) it is that a report
made by an open session fits the scores its transaction sees, and that Redis is
ahead of the tables only while the session that wrote it is open. The
refinement proofs then have one case per action: a step of the abstract
specification, or a stutter. `NightsStayDisjoint` is not proved on the rows but
read off `CalendarIsKept`: the abstract calendar holds a night for one booking. Three
of them need one more fact: for `Conduct`, that nobody has confirmed a visit that can
still be assigned (`NotTakenOn`), so nobody takes one on twice; for `Examination`, what
an open session is about to do to the row it read (`EachDoes`: assign, edit, hand in
or judge it), which holds with overlap too, so that a commit is one of these steps as
soon as the row is still the one that was read; for `Logins`, that a token to be
exchanged is the current one, which `OneByOne` has.

Only model-checked: liveness (`EveryRoundIsClosed`, both `MoneyIsNotStuck`,
`EveryRequestIsDecided`, `QueueDoesNotLockUp`, `QueuedIsSettled`), since fairness and
ENABLED are out of the prover's reach.

Some modules are written for these proofs: the queue of `SyncQueue` is a set of
mutations that carry their keys, the order in which reports were handed in
(`Inspections`) a relation, and the registry of `Templates` a set of records.

## 5. What is left

Done: the four transactional components with four abstract specifications and
the proofs about them; the services around them, two of them with an abstract
specification; the inspectors' app.

Worth doing next:

1. **`Pipeline`**: `Offers`, `Visits`, `Agreements` and `Listings` composed, with two
   seekers on one listing: one listing, at most one deal. Today each module
   carries the part of the others' state it reads or writes.
2. **Refinement** of an abstract ladder of tiers by `Listings`, and of a store of one
   code per address by `Otp`, as for `Inspections` and `Accounts`: what the proofs of
   section 4 say of single properties, said of the whole component.
3. An abstract queue for `SyncQueue` (each mutation applied once, in order), once the
   app keeps that promise: today it does not (section 3.3).

Not modelled:

- *Clients of external services*: pure I/O; what callers rely on is in their
  modules.
- *Chat messages*: tables without operations.
- *Web front end*: pages over the API, with no state that the server relies on
  except the session identifier and the listings of the window and the last list,
  which `ChatSession` has.
- *Seed scripts and migrations*: test data and the schema; the constraints of the
  schema (and their absence) are in the models.
- *Views and dashboards*: read-only queries.
- *What the model makes of prose*, and the word lists of the fallback: text
  processing; `ChatSession` takes any interpretation.
- *Wording* of templates and layout of PDFs; signatures of webhooks and tokens;
  the bytes of a photo (that their transfer may fail is modelled).
