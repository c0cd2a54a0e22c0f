# A formal model of the Xenia platform

This directory holds TLA+ specifications of the parts of Xenia where several actors
meet: channel webhooks and bookings, the outbox and the workflow engine, door
credentials, staff sessions, the knowledge index and the AI concierge, tasks and
maintenance, billing, notifications, pricing, and how people get in. TLC checks each on
a small instance, and TLAPS proves the main safety properties for every instance.
Everything is translated from the code; where a document or a comment promises
something else, [Findings](#5-findings) says so.

To check everything: `tlc -config X.cfg M` for the runs of `PROJECT.json`, and
`tlapm M.tla` for the eight `*Proofs` modules.

## 1. Inventory

Xenia is an API (`apps/api`, NestJS), a worker process (`services/workers`), an AI
service (`services/ai-concierge`, Python), a web dashboard (`apps/web`) with its SDK
(`packages/sdk`), over one Postgres database (`packages/db`) and Redis Streams.

| Component | State | Operations | Meets others through |
|---|---|---|---|
| Booking service | `bookings`, `availability_blocks`, `outbox` | `confirm`, `cancel`, one transaction each, then an audit write | the exclusion constraint; the outbox |
| Channel ingestion | `webhook_events`, `booking_external_refs`, `guests` | `ingestWebhook`: record, then guest, confirm or cancel, reference, outcome | calls the booking service; redelivered by channels |
| Calendar | `availability_blocks` | manual block, remove block | the same constraint |
| Outbox relay | `outbox.status`, streams | select pending, publish, mark | a timer whose ticks overlap |
| Consumer and workflow engine | streams' pending list, `workflow_runs`, `run_steps` | read, run each workflow's actions, acknowledge | inserts tasks and credentials |
| Access | `access_credentials`, `access_events`, lock codes | issue, revoke | lock provider; scheduler; maintenance |
| Access scheduler | the same rows | activate, expire | a timer whose ticks overlap |
| Sessions | `refresh_tokens`; the SDK's `refreshInFlight`; the tab's ref; localStorage | login, refresh (rotate), logout, reload | any number of tabs and calls |
| Onboarding | `users`, `organizations`, `memberships`, `invitations`, `magic_links` | register, invite, accept, issue, verify | sessions |
| Knowledge base | `property_facts`, `kb_documents` | add, create, update, delete; reindex requests nobody waits for | HTTP to the AI service |
| RAG ingestion | `kb_chunks`, advisory locks | rebuild a scope; walk the organization; `chunk_text` | reads what the API edits |
| Messaging, concierge, agent | `conversations`, `messages` | post, respond, hand off | HTTP to the AI service, LLM |
| Tasks, maintenance | `tasks`, `task_assignments`, `staff`, tickets, vendors, `units.status` | assign, accept, complete; assign vendor, resolve | pages that go stale; access; outbox |
| Billing | `subscriptions`, `payouts` | checkout, cancel, provider events, payout | the payment provider; a form that is sent again |
| Notifications | `notifications`, `delivery_log` | notify | message providers |
| Pricing | rules, suggestions, `rate_calendar` | create rule, evaluate, accept | the booking calendar; a page that goes stale |

What makes each one correct, and what is hard about it:

- **Bookings and channels.** No night is held twice; an event books once however often
  it is delivered; what `webhook_events` says happened, happened. Hard: each handler is
  several transactions, and a failure or a crash between two of them leaves the earlier
  ones.
- **Event spine.** A committed row is published and marked; how often it is repeated is
  bounded; the run tables tell what the engine did. Hard: overlapping timer ticks, and a
  worker that stops anywhere.
- **Access.** A credential is active only in its window, a revocation holds, every
  credential ends up expired or revoked, and the lock knows the codes of those that are good. Hard: the scheduler writes rows it selected earlier, by id.
- **Sessions.** A tab spends a refresh token once, never signs itself out, never signs
  itself back in, and no call hangs. Hard: 401s at any time, rotation without a
  transaction, tabs that share storage but not memory.
- **Onboarding.** An invitation or a magic link lets one call in; nobody is left with half
  an account. Hard: check-then-act on every token, four inserts with nothing around them.
- **Knowledge.** No passage twice, never back to an older text, stale only while a rebuild
  is coming; a text that is cut into passages loses nothing. Hard: any number of rebuilds
  at once, each reading and writing at different moments.
- **Concierge.** A guest is never left in silence, no message is answered twice, an
  emergency reaches a human. Hard: the message to answer is looked up after it was
  stored, and the AI service may answer late or never.
- **Tasks and maintenance.** A job that is done stays done, an accepted task has somebody
  who accepted it, a vendor's key is on record. Hard: no handler looks at the status it
  overwrites; only the pages' buttons do, and pages go stale.
- **Billing.** A bill is paid once, the books say whether money moved, an organization has
  one subscription. Hard: the money moves between two transactions.
- **Notifications and pricing.** One message per dedupe key; one rate per suggestion, and
  the same price for the same day. Hard: look, then insert; two reads and a write.

`PROJECT.json` lists 32 components with their status and 40 hazards at their lines; each
hazard names the properties that would catch it going wrong.

## 2. Modules

| Module | Models | Steps |
|---|---|---|
| `StayLedger` | nothing of the code: what reservations promise | take nights, free nights |
| `PassageShelf` | nothing of the code: what the knowledge index promises | edit, take away, rebuild a scope at once |
| `Reservations` | booking, channels, calendar, guests, the constraint, the audit call | one transaction |
| `EventSpine` | relay, bus, consumer, engine, workflow definitions | one database or Redis call |
| `AccessLifecycle` | access service, lock provider, scheduler | one database or provider call |
| `Sessions` | token service, login/refresh/logout, SDK, web session store | one statement, or one turn of the browser's event loop |
| `KnowledgeIndex` | knowledge base, `addFact`, ingestion | one statement of a rebuild; one transaction of an edit |
| `Operations` | tasks, maintenance, vendors, staff, roles, the two pages | one handler; a click and its arrival |
| `Onboarding` | register, invitations, magic links and their pages | one statement |
| `Billing` | payouts and the subscription, the provider, the billing page | one transaction or provider call |
| `Notifications` | `notify` | one transaction or send |
| `Pricing` | the rules engine of `packages/shared`, the service, the page | one transaction; one rule of the loop |
| `Concierge` | messaging, the gateway to the AI service, the agent's verdict | one transaction or call |
| `ChunkText` | `chunk_text` | one pass of its loop |
| `ReservationsProofs`, `EventSpineProofs`, `EntryProofs` (access, onboarding), `SessionsProofs`, `KnowledgeIndexProofs`, `OperationsProofs`, `OfficeProofs` (billing, notifications, pricing), `AssistantProofs` (concierge, `chunk_text`) | theorems | |
| `MC*` | small instances for TLC | |

Two conventions run through all of them. A call that may happen several times is a finite
set of one-shot names, and a row is named by the call that inserts it. `faults` counts what
the environment breaks - a failing statement, a lost answer, a stop of the process - and
`MaxFaults` bounds it; several properties say that something bad happens at most once per
fault, or only when calls overlap, which is stronger than excusing every behaviour with a
fault in it.

### Reservations

A call (a delivery, a direct confirmation, a manual block, a block removal) is a program
counter over transactions. Each inserts at most one row per table, so rows are named by
their calls: `booking[r]`, `block[r]`, `outbox[r]`. `ConfirmBooking` is the whole
transaction of `confirm` (booking, block, outbox row) and is enabled where
`availability_no_overlap` accepts the block; `ConfirmConflict` is 23P01 and
`ConfirmRejected` the range error of inverted dates. `Rescue` maps the step that failed to
what the `catch` of `ingestWebhook` does. `StepFails` fails a transaction, `Die` stops the
process that serves a call. `unblocked` is a history variable: bookings whose block the
calendar endpoint deleted.

The refinement maps the ledger to the confirmed stays whose block was not deleted, and the
manual blocks; `ImplementsLedger` is `StayLedger!Spec` under that mapping.

### EventSpine

Up to `Ticks` relay ticks interleave; each holds the rows it selected and has not handled,
and the row it has published and not marked. Streams are sequences, `pos` and `pel` are the
consumer group. The consumer's batch and the engine's position are local state that
`Crash` loses; the database and the streams survive it, as do rows already committed.

### AccessLifecycle

A credential is issued by the API (lock code first, then the row) or inserted by the engine
without a code, as the code does. A tick selects rows due at the clock value it started
with, then for each updates the status by id and inserts the event. `codes` is what
the lock knows: the API puts a code in before it writes the row and takes it out after it has
revoked the row; the scheduler never calls the lock, since both of its calls are TODOs.

### Sessions

A pair of tokens is named by the login or by the request whose refresh issued it. `row`,
`next` are `refresh_tokens`; `RotateSelect`, `RotateInsert`, `RotateRevoke` and the
membership lookup are the statements of a refresh. `session[t]` is the tab's `sessionRef`,
`stored` is localStorage, `flight[t]` is `refreshInFlight`. A delivered refresh stores the
pair, clears the flight and retries every waiting call in one step, because no other task
runs between the promise's callbacks. A reload (`gone`) drops the tab's memory and reads
localStorage.

### Onboarding

`register`, `acceptInvitation` and `verifyMagicLink` are program counters over their
statements: the look at the users (or at the token), the insert of the user, of the
organization, of the membership, the session. A password is hashed between the look and
the insert, so two calls easily look at once; the unique e-mail then refuses one of them,
and no constraint refuses a second membership or a second use of a token. `call[c].spent`
remembers the tokens that were used up when a call began: it is what tells an overlap from
a reuse.

### KnowledgeIndex and ChunkText

Sources have a version each, and a chunk carries its source's version and the rebuild that
wrote it. A rebuild is one READ COMMITTED transaction in five statements: `Lock`,
`GatherFacts`, `GatherDocuments`, `Erase`, `Write`; `Write` includes the commit. Rows
another transaction commits after `Erase` are not erased, which is how duplicates would
come about. A document deleted after it was read refuses the insert (`WriteRefused`). In
Postgres a delete that meets a rebuild holding its chunks may instead end in a deadlock
that aborts either side: aborting the rebuild is `WriteRefused`, aborting the delete is the
delete not happening.

Who searches the index knows nothing of rebuilds. `PassageShelf` is what there is to find:
for each source the versions of its passages, exchanged for a whole scope at once, never for
older ones, and gone with their document. `Shelf` reads that off the chunks, and
`ImplementsShelf` is `PassageShelf!Spec` under this mapping: of a rebuild's five statements
only `Write` is a step of the shelf, the other four are stutters, and a delete takes the
passages with it in one.

`ChunkText` is the loop of `chunk_text`, one pass a step. A text is its length and the
places of its blanks (after `" ".join(text.split())` there are none at the ends and no two
in a row), a passage the interval it holds. `Cut` takes the end that `rfind` would; the
reference definition is `NothingLost`: whole words where they fit, every character where
they do not.

### Concierge

A conversation is `log`, the messages by `sentAt`, each with who sent it, in which call,
and for a reply the place of the message it answers. `postMessage` stores and, for a guest,
calls `respond`, which reads the last message, waits five seconds for the AI service,
stores the reply and hands off, or hands off from its `catch`. The AI service is
`Verdict`: a message with a hint escalates, anything else may be answered or escalated,
as the model or the offline score decides. `TimeOut` may happen at any moment of the wait,
so the clock needs no variable; a late answer is dropped because nothing reads it.

### Operations

`seen[u]` is what a user's page has loaded. A click turns what the page shows into a
request (`Click` keeps in `saw` what it showed), and a request arrives at any later time.
The handlers (`Assign`, `Accept`, `Complete`, `Resolve`, ...) have the guards they have in
the code - a role, an offer of the task - and none on the status they overwrite.
`assignVendor` is two steps, the credential's transaction and its own. `Reload` is SWR's
revalidation.

### Billing, Notifications, Pricing

In `Billing` a payout is five steps around the transfer, a checkout is a look, a write and
an audit row; the form of a bill is a client that waits for one answer at a time and stays
open on an error. `Notifications` is a look for the dedupe key, a row, and for each channel
a send and a log row. `Pricing` is an evaluation with its two reads, the loop over the rules
highest priority first (ties in the order the database returned them), rounding to whole
cents, and the accept that appends to `rate_calendar`. Of the four fields a rule may ask
about (`FIELDS`, pricing.ts:40) two are kept, `leadTimeDays` and `occupancy`, which depend on
when one looks; `weekday` and `gapNights` go through the same comparison. "The same day" of
`SameDaySamePrice` is therefore the same lead time and the same occupancy.

## 3. Runs

| Run | States | Shows |
|---|---|---|
| `reservations` | 590 k | nights held once, one booking per event, recorded outcomes and answers, owners of unprocessed events, refinement |
| `events` | 250 k | relay: repeats are bounded, a fault strands one read at most and nothing else strands any, pending rows are published; engine: runs and acknowledgements can be believed, entries are acknowledged |
| `access` | 258 k | windows; a lost event and a stray code cost a fault each; revocations settle; rows end up expired or revoked |
| `sessions` | 272 k | the single flight, no stranded tab, logout final, calls settle |
| `knowledge` | 321 k | no duplicates, staleness explained, rebuilds end; refinement of the shelf, so no regress |
| `operations` | 1.59 M | accepted tasks have a taker, an unrecorded key costs a fault, only a stale page undoes a job |
| `onboarding` | 300 k | tokens are used twice only by overlapping calls, half accounts cost a fault |
| `office` | 248 k | payouts, subscription, notifications, prices: once per fault or per overlap |
| `assistant` | 478 k | silence costs a fault, double answers cost a crossing, hints reach the host, posts come back, texts are cut without loss |
| `double_booked`, `emergency_missed`, `expired_codes` | | the three findings with a run |

`office` and `assistant` each put modules together that share no state: `MCOffice` and
`MCAssistant` choose in the initial state which of them moves (`office`, `part`), so a run
has the sum of their behaviours and not the product. `MCEventSpine` chooses in the same way
between the two halves of the worker (`half`), and `MCOnboarding` between the calls
that use an invitation and those that use a link.

**Bounds.** Calls, ticks, rebuilds, logins, payouts and requests are one-shot names, because
identities only matter by equality.

- `reservations`: three calls, so two race while a third redelivers, cancels, blocks or
  removes; three nights, so stays can overlap, touch, be empty and be inverted; five events,
  so a cancellation can come first and a creation can reuse a reference.
- `events`, relay half: two ticks, two rows, a select of one row, so ticks overlap on the same
  row and leave another behind. That no row is left pending is shown for traffic that ends.
  Engine half: one row and one tick at a time; two workflows, so one can fail or be disabled
  while the other is running; one has an unknown action and one a stub. The fairness is that
  of `EventSpine` for the ticks a half has.
- `access`: three instants, so a window is before, now and past; a zero-length window.
- `sessions`: two tabs, two calls and one login, so two calls of a tab share a flight, or
  each tab, or a page and its reload, runs one of its own. A login after a logout and a third
  call are beyond this run (a second login or a third call takes more than five minutes): the
  three safety properties are proved for any number of them, and `CallsSettle` rests on two
  calls and one login.
- `knowledge`: three rebuilds, so one waits for the lock while another is inside and a third
  is started; two versions; a unit's scope and the shared one.
- `operations`: one task, one ticket, a manager and a cleaner, two requests on their way: two
  clicks cross in every order, from pages loaded at every moment. Two offers, so a task is
  reassigned; a vendor id that is no vendor's.
- `onboarding`: two registrations over two e-mails; three accepts of one invitation or two
  uses of one link (a behaviour has calls of one kind, `door`: the two tokens share nothing
  but the organization), two faults.
- `office`: three payouts with two faults, so a bill is paid a third time if anything but a
  fault allows it; a payee that does not exist and an amount of zero cents. Three checkouts.
  Two notifications with one key and one without, two channels. Three rules, two of one
  priority; two clicks.
- `assistant`: two guests' posts, one with a hint, and either a manager who asks for a reply
  or a host and a guest of another conversation. Texts of at most eleven characters in
  passages of four, overlapping by two: long enough for words longer than a passage, blanks
  at every place of it, and a fourth passage.
- `MaxFaults` is one in all runs but `office` (two) and `emergency_missed` and `expired_codes`
  (none: these need no failure); `onboarding` bounds its faults by `MaxEntryFaults`, two.

Symmetry (`Interchangeable`) is used where names of one kind are alike and no liveness is
checked: offers, e-mails and calls of one kind, payouts and checkouts.

All specifications stop when their one-shot calls are used up, hence
`CHECK_DEADLOCK FALSE`; where something must happen, a liveness property says so.

**Fairness.** Only what the code keeps doing: the relay's and the scheduler's timers and the
consumer's loop (`services/workers/src/index.ts`), the passage of time, the answering of a
request that was sent (`Sessions`), the AI service's work on a request it has, with the
database granting a lock that is free (`KnowledgeIndex`; weak fairness of a waiting rebuild
is enough because requests are finite and every holder ends), the statements of a guest's
post and the five-second timer (`Concierge`: the AI service itself need never answer, so
`PostsComeBack` rests on the timer alone), and a Python loop that runs on (`ChunkText`).
`Operations`, `Onboarding`, `Billing`, `Notifications` and `Pricing` state none: nothing in
them must happen. No fairness on users, on API calls, or on failures.

**Properties that only TLC checks.** The seven liveness properties (`PendingIsPublished`,
`EntriesAcknowledged`, `KeysAreTakenBack`, `CallsSettle`, `ReindexesEnd`, `PostsComeBack`,
`ChunkingEnds`): progress under fairness is out of TLAPS's reach here. Two have a safety half
that is proved, `MarkedIsStreamed` and `RunsComeBeforeAcks`. Every invariant, every action
property and both refinements that the runs check are also theorems.

Every property of a passing run has a mutant in `PROJECT.json`: a plausible bug in a mapped
definition, kept beside it, that breaks the property on the same instance. The type
invariants are proved (section 4) and are not among the runs' properties.

## 4. Proofs

The theorems hold for any sets of calls, tabs, ticks, documents and bills, any dates and any
number of faults. They assume only the `ASSUME`s of the modules, which give constants their
types, keep names apart (`None` is not a row, a request is not a login), say which sets are
finite where something is counted and, for the index, that a fact belongs to a unit.

**Reservations** (`TypeCorrect`, `BlocksMirror`, `NoNightHeldTwice`, `LedgerImplemented`,
`IngestionIdempotent`, `OutcomesTrue`, `ReceivedOwned`). `NightsHeldOnce` is not inductive: a booking's nights are protected
by its block, so `LedgerInv` adds that blocks are pairwise disjoint (`BlocksDisjoint`), that
a confirmed booking has its block (`BlocksMirrorBookings`), and that rows exist only once a
call has reached the step that inserts them (`RowsFollowSteps`, `StepsFitCalls`,
`NamesExist`). Idempotence needs that of all deliveries of an event only the one that
inserted the webhook row goes on (`OneTaker`). The outcomes need more: that delivery is the only
one that writes for its event, and what `MarkWebhook` will say must already be true one step
before (`DeliveriesInOrder`: a delivery about to mark a creation as processed has written the
reference, one about to mark a conflict has no booking). What it said stays true because
other calls insert rows under their own names, a reference is written once, and a cancelled
booking stays cancelled (`StepKeeps`). `IngestInv` is all of this with the two properties.
The answers of direct confirmations are counted (`AnswersInv`): a caller that goes on to the
audit write has its booking, one that was refused has none, and a step makes nobody
`Misled` but the failing or dying one, which is one fault for one caller.

**EventSpine** (`SpineTypes`, `RunTablesAreTrue`, `StrandingCostsAFault`,
`CopiesAreBounded`, `MarkedIsStreamed`, `RunsComeBeforeAcks`). The engine believes that the
run it starts is new. It is, because the batch is the last entries the group was given (`BatchIsLast`) and what the engine has not
come to is untouched (`Untouched`, `RowsAreOfRuns`); the run it is in has exactly the steps
before the current one (`CurrentRun`), every other run a prefix (`Truthful`). What is
stranded is what is pending below the batch (`LowIsStranded`): reading and acknowledging add
nothing there, and a fault adds the rest of the batch, one read at most (`StrandInv`). That an
acknowledgement comes after the runs holds through every fault (`EntryInHand`): of the current
entry, each workflow the engine read and has no longer to run has a run that ended, an ended
run is never opened again, and a fault lets go of the batch without acknowledging it. For the
relay
`CopiesInv` is an account: a tick that has a row in its batch may stream it once
(`MayCopy`), one that has streamed and not marked it is `Sent`; a published row is never
selected again, and a failure or a crash can only take ticks out of the account, at a price
of one copy or of all the ticks.

**AccessLifecycle** (`EntryProofs`: `AccessTypes`, `AccessTimeBoxed`, `AccessRevocation`,
`AccessLogged`, `AccessCodes`). A tick may write
long after it selected, so the invariant says that the rows it holds were due at a clock
value that is past (`TicksAreJustified`), and that a credential whose row is not inserted is
held by nobody. For the codes `RecordsInv` adds the order of the API's calls (`CallsInOrder`: a code
is in the lock before the row that needs it, and leaves it only after a revocation has been
logged) and the count of the stray ones (`StraysCostFaults`): only a call cut short between the
lock and the row leaves a code nothing accounts for, and a fault cuts one call short. `AccessLogged` is about steps:
one that leaves a credential untold is the fault of the tick that was about to write its event
(`UntoldCostsATick`).

**Onboarding** (`EntryProofs`: `EntryTypesHold`, `TokensOnce`, `HalvesCostFaults`). That a
token is spent once follows from what a call past its look has seen: the token was unused
then, so it was not among those already spent when the call began. Half-made accounts are
counted: `EntryInv` says who made each user and each organization and at which statement that
call is, so a half-made one has a maker that is still at work, or one that a fault stopped
(`CostFaults`). A step of a call leaves no new half behind; a fault ends one call, which was
making one user and one organization at most.

**Sessions** (`SessionTypes`, `TokenPresentedOnce`, `TabNeverStranded`, `SignedOutStaysOut`).
The hard case is a 401 that arrives after another call's refresh is over. The invariant says
that a pair enters a tab or localStorage only by being delivered, once (`HeldDelivered`), so
a token that a tab has presented and let go of can never come back to it (`SpentLetGo`); and
the tab lets go of it no later than it clears the flight.

**KnowledgeIndex** (`KnowledgeTypes`, `ChunksNotDuplicated`, `IndexNeverRegresses`,
`StaleHasARebuild`, `ShelfImplemented`, `OneTextFound`). The lock gives one transaction at a time a scope (`OneInside`); others
only take rows away from it by deleting documents. So what it erased is all there is when it
writes (`ErasedAll`), and what it read is no older than what it replaces (`ReadCovers`, since
versions grow and a row's version is one the source has had, `ChunksAreTrue`). For staleness
the property asks for a rebuild that will not be refused: one that has read a document
deleted since is bound to fail, and what keeps the invariant is the rebuild which that
deletion has started. The refinement follows from the same facts: what `Write` puts in is one
passage of each source it read, no older than what it takes out, and of no source that is gone,
since those refuse it; a source that is gone had a version (`GoneWereThere`), so `TakeAway`
is a step of the shelf.

**Operations** (`OperationsTypes`, `TakersExist`, `KeysAreRecorded`, `DoneUntilStaleClick`).
That only a stale page undoes a finished job follows from what a request carries: its page
showed the job undone when it was clicked (`RequestsAreOffered`, `VisitsAreOffered`), since a
page never shows a row that is not there (`SeenBehind`). Keys are counted as they are in the
access module: a visit is for a vendor that exists when it is clicked or for an id that never
will, so a call that ends in an error without a fault leaves nothing `Abandoned`, and a fault
ends one call (`KeysStep`).

**Billing, Notifications, Pricing** (`OfficeProofs`: `BillingTypesHold`, `PaidOncePerFault`,
`BooksWrongPerFault`, `SecondPlanOverlaps`, `SentOncePerKey`, `ExtraRatesStale`,
`PriceTypesHold`, `DayHasOnePrice`). The count
of payments is not inductive: it must include payouts whose money may still move. `MayMove`
are those of a bill, `Loose` those of them whose "ok" no form is waiting for; a fault makes
one more loose and nothing else does, so a bill whose form is open has at most `faults` loose
ones, and one whose form closed at most `1 + faults` (`LooseBounded`). `Wrong` counts rows
that are wrong or will be when their call is over. For plans and notifications the invariant
is that a call past its look found nothing, so nothing was there when it began.

`DayHasOnePrice` compares two loops that take the rules in different orders of reading, at
different moments, and its statement is about results. The invariant (`AnswersInv`) says that
for one day and one set of rules without a tie there is a function, from the rules that are
left to the price so far and the reasons for it, which every evaluation of that day and those
rules follows (`Follow`). It exists because the loop takes the rules by priority, so the sets
that can be left form a chain, and the next rule of a set is the same whatever order the rows
came in; a step of any evaluation extends the function by one place or agrees with it
(`NextPlace`). No induction over the rules is needed: time does it.

**Concierge and chunk_text** (`AssistantProofs`: `ConciergeTypes`, `HintsHandedOff`,
`AnsweredOncePerCrossing`, `SilenceCostsAFault`, `ChunkTextLosesNothing`, `PassagesFit`).
`SilenceCostsAFault` counts guests: a step other than a fault makes no guest silent, since a
call that is over has stored a reply or told the host, and a fault moves one call
(`SilentOnlyByFault`, `OneGuestMore`). For `chunk_text` the loop invariant
(`TextInv`) is that the passages so far hold every short word that begins before the last
end, and that this end is a blank or as far as one may go with no blank in between: the next
passage begins before it, and reaches at least as far.

## 5. Findings

`PROJECT.json` lists 24, each at its line with the sentence it contradicts. Three are refuted
by a run:

1. `double_booked`: `DELETE /calendar/blocks/:id` takes the block of a confirmed booking,
   against "No double-booking, ever" (README.md:232).
2. `emergency_missed`: `respond` answers the last message of the conversation; when another
   one is stored first, a guest's emergency is never looked at (README.md:363).
3. `expired_codes`: the scheduler expires a credential in the tables and leaves its code in the
   lock, against "expire (revoke on lock)" (access-scheduler.ts:6) and "auto-revoke at
   checkout" (apps/api/src/modules/access/README.md:4). `CodesFollowRows` does not speak of
   expired credentials.

Read off the model or the code, without a run:

- *Events.* At-least-once delivery ends at the consumer, whose pending entries are never read
  again; consumers are not idempotent, so two ticks make two runs of one event; a webhook
  whose processing failed is never processed again; nobody consumes `booking.cancelled`;
  billing events are not persisted or deduplicated.
- *Rows without a constraint.* Two guests for one e-mail; two uses of one magic link or
  invitation; two notifications for one dedupe key.
- *Access.* A transition can miss its access event; the code of a vendor's visit is dropped
  before anybody reads it.
- *Sessions.* Two tabs race one refresh token; a refresh from before a logout, answered after
  a new login, replaces the new session's tokens.
- *Dashboard.* A cleaner invited from the team page has no staff row and cannot accept; an
  owner who cancelled cannot subscribe again.
- *Money.* A payout whose money moved can be marked failed and offered again.
- *Assistant.* The endpoint that triggers a reply answers the last speaker, whoever that is;
  an empty retrieval does not escalate when a provider is configured; retrieval runs before
  the guardrail; the returning-guest memory is never visible under row-level security; a
  shared document's edit is not indexed; passages begin inside words.

## 6. Not modelled

Isolation between organizations (one organization per model: row-level security is a filter
of the database, and the queries' `WHERE` clauses do not interact), role checks beyond the
task, ticket and page ones (pure comparisons), the token signatures and hashes, the LLM
providers, embeddings and similarity search, language detection and the wording of prompts,
tracing, seeds, simulation and migrations, and the dashboard's pages as far as they only
fetch, render and submit one call at a time. Endless traffic is not modelled either: rows are
finite, so a row that `relayOnce`, which selects in no order, might starve under load is
published here once the others are. `PROJECT.json` gives the reason per component.

## 7. Plan

1. The composition of `Reservations`, `EventSpine` and `AccessLifecycle` through the outbox,
   from a confirmed stay to a key that is taken back: what the missing consumer of
   `booking.cancelled` costs, as a property.
2. Abstract specifications of a conversation (every guest message is answered or handed over,
   but for faults) and of a delivery log (a row is streamed before it counts as published),
   which `Concierge` and `EventSpine` implement.
3. More safety halves of the liveness properties as theorems: what a key that was taken back
   may still become, which call a waiting page waits for.
4. The remaining pages (bookings, properties, guests) where they decide by what they loaded.
