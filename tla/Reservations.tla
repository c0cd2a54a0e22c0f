---------------------------- MODULE Reservations ----------------------------
(***************************************************************************)
(* Bookings, the availability calendar and channel webhooks of apps/api.   *)
(*                                                                         *)
(* Every call runs as a sequence of database transactions (withTenant); a  *)
(* transaction is one action, and what happens between two of them is      *)
(* anything other calls do.  A call inserts at most one row in each table, *)
(* so the row is named by the call that inserted it, and its dates are the *)
(* dates of that call.  A transaction can fail (StepFails) and the process *)
(* that serves a call can stop (Die), both up to MaxFaults times.          *)
(***************************************************************************)
EXTENDS Integers, FiniteSets

CONSTANTS
  Requests,   \* the calls, one shot each; also the ids of the rows they insert
  Units, Days,
  Refs,       \* external booking references of one channel
  Emails,     \* guest e-mail addresses
  Events,     \* provider event ids of one channel
  Payload,    \* what each provider event says; a redelivery says the same
  Calls,      \* the calls the model makes
  MaxFaults,  \* bound on failed transactions and stopped processes
  None

Stay == [unit : Units, from : Days, to : Days]

PayloadType ==
  [type : {"booking.created", "booking.cancelled"},
   ref : Refs, stay : Stay, email : Emails \cup {None}]

CallType ==
  [kind : {"deliver"}, event : Events]
    \cup [kind : {"confirm", "block"}, stay : Stay]
    \cup [kind : {"remove"}]

BookingStatus == {"confirmed", "cancelled"}
BlockSource == {"booking", "manual"}
WebhookStatus == {"received", "processed", "conflict", "failed"}
OutboxType == {"booking.confirmed", "booking.cancelled", "booking.conflict_detected"}

ASSUME DaysAssumption == Days \subseteq Int
ASSUME PayloadAssumption == Payload \in [Events -> PayloadType]
ASSUME CallsAssumption == Calls \subseteq CallType
ASSUME FaultsAssumption == MaxFaults \in Nat
ASSUME NoneAssumption ==
  /\ None \notin Requests \cup Emails \cup Stay \cup CallType
  /\ None \notin BookingStatus \cup BlockSource \cup WebhookStatus \cup OutboxType

VARIABLES
  pc,         \* where each call is
  call,       \* what each call asks for
  found,      \* the guest row or booking row a call has read
  booking,    \* bookings: status of the row a call inserted, or None
  block,      \* availability_blocks: source of the row a call inserted, or None
  guests,     \* guests: the calls that inserted a row
  webhook,    \* webhook_events: status of each provider event, or None
  extRef,     \* booking_external_refs: the booking each reference names
  outbox,     \* outbox: event type of the row a call inserted, or None
  unblocked,  \* history: bookings whose block DELETE /calendar/blocks removed
  faults

database == <<booking, block, guests, webhook, extRef, outbox>>
vars == <<pc, call, found, database, unblocked, faults>>

----------------------------------------------------------------------------
(* Where a call stops: answered, failed with an exception, or abandoned. *)
Answers == {"ok", "processed", "duplicate", "conflict", "error", "dead"}

(* The steps inside the try block of ingestWebhook. *)
TrySteps == {"findGuest", "insertGuest", "confirm", "audit", "insertRef",
             "findRef", "cancel", "markProcessed"}

(* Steps whose exception leaves the handler as it is. *)
BareSteps == {"record", "markConflict", "emitConflict", "auditConflict",
              "markFailed", "insertBlock", "deleteBlock"}

InFlight == TrySteps \cup BareSteps

Delivers(r) == call[r] # None /\ call[r].kind = "deliver"
PayloadOf(r) == Payload[call[r].event]
StayOf(r) == IF Delivers(r) THEN PayloadOf(r).stay ELSE call[r].stay

(* Where an exception other than a booking conflict takes the call. *)
Rescue(r) ==
  IF pc[r] \in TrySteps /\ Delivers(r) THEN "markFailed" ELSE "error"

----------------------------------------------------------------------------
(* Mutant of Overlap: only a stay arriving inside another one clashes. *)
OverlapAtArrival(s, t) == s.unit = t.unit /\ t.from <= s.from /\ s.from < t.to

(* The exclusion constraint on availability_blocks: half-open ranges of one
   unit; an empty range overlaps nothing, inverted bounds are an error. *)
Overlap(s, t) ==
  /\ s.unit = t.unit
  /\ s.from < s.to /\ t.from < t.to
  /\ s.from < t.to /\ t.from < s.to

Inverted(s) == s.to < s.from

(* Mutant of Excluded: availability is read off the bookings. *)
ExcludedByBookings(s) ==
  \E q \in Requests : booking[q] = "confirmed" /\ Overlap(s, StayOf(q))

Excluded(s) == \E q \in Requests : block[q] # None /\ Overlap(s, StayOf(q))

Goto(r, step) == pc' = [pc EXCEPT ![r] = step]

----------------------------------------------------------------------------
Init ==
  /\ pc = [r \in Requests |-> "idle"]
  /\ call = [r \in Requests |-> None]
  /\ found = [r \in Requests |-> None]
  /\ booking = [r \in Requests |-> None]
  /\ block = [r \in Requests |-> None]
  /\ guests = {}
  /\ webhook = [e \in Events |-> None]
  /\ extRef = [x \in Refs |-> None]
  /\ outbox = [r \in Requests |-> None]
  /\ unblocked = {}
  /\ faults = 0

FirstStep ==
  [deliver |-> "record", confirm |-> "confirm",
   block |-> "insertBlock", remove |-> "deleteBlock"]

(* A request reaches the API; a webhook has passed the secret check, and the
   schema that asks a creation for its unit and dates. *)
Start(r, c) ==
  /\ pc[r] = "idle"
  /\ call' = [call EXCEPT ![r] = c]
  /\ Goto(r, FirstStep[c.kind])
  /\ UNCHANGED <<found, database, unblocked, faults>>

(* ingestWebhook: insert the event, unless its id is already there. *)
RecordEvent(r) ==
  /\ pc[r] = "record"
  /\ webhook[call[r].event] = None
  /\ webhook' = [webhook EXCEPT ![call[r].event] = "received"]
  /\ Goto(r, IF PayloadOf(r).type = "booking.cancelled" THEN "findRef"
             ELSE IF PayloadOf(r).email = None THEN "confirm"
             ELSE "findGuest")
  /\ UNCHANGED <<call, found, booking, block, guests, extRef, outbox, unblocked, faults>>

(* Mutant of RecordDuplicate: a redelivery of a failed creation is retried. *)
RecordRetry(r) ==
  /\ pc[r] = "record"
  /\ webhook[call[r].event] # None
  /\ Goto(r, IF webhook[call[r].event] = "failed" /\ PayloadOf(r).type = "booking.created"
             THEN "confirm" ELSE "duplicate")
  /\ UNCHANGED <<call, found, database, unblocked, faults>>

RecordDuplicate(r) ==
  /\ pc[r] = "record"
  /\ webhook[call[r].event] # None
  /\ Goto(r, "duplicate")
  /\ UNCHANGED <<call, found, database, unblocked, faults>>

(* processCreated: select the guest by e-mail, insert it when there is none.
   One transaction, but READ COMMITTED and no unique constraint: another
   call can insert between the select and the insert. *)
FindGuest(r) ==
  LET rows == {g \in guests : PayloadOf(g).email = PayloadOf(r).email} IN
  /\ pc[r] = "findGuest"
  /\ IF rows = {}
     THEN Goto(r, "insertGuest") /\ UNCHANGED found
     ELSE Goto(r, "confirm") /\ \E g \in rows : found' = [found EXCEPT ![r] = g]
  /\ UNCHANGED <<call, database, unblocked, faults>>

InsertGuest(r) ==
  /\ pc[r] = "insertGuest"
  /\ guests' = guests \cup {r}
  /\ found' = [found EXCEPT ![r] = r]
  /\ Goto(r, "confirm")
  /\ UNCHANGED <<call, booking, block, webhook, extRef, outbox, unblocked, faults>>

(* BookingService.confirm: booking, block and outbox row in one transaction. *)
ConfirmBooking(r) ==
  /\ pc[r] = "confirm"
  /\ ~Inverted(StayOf(r)) /\ ~Excluded(StayOf(r))
  /\ booking' = [booking EXCEPT ![r] = "confirmed"]
  /\ block' = [block EXCEPT ![r] = "booking"]
  /\ outbox' = [outbox EXCEPT ![r] = "booking.confirmed"]
  /\ Goto(r, "audit")
  /\ UNCHANGED <<call, found, guests, webhook, extRef, unblocked, faults>>

(* Mutant of ConfirmConflict: the refusal of a direct confirmation is swallowed. *)
ConflictSwallowed(r) ==
  /\ pc[r] = "confirm"
  /\ Excluded(StayOf(r))
  /\ Goto(r, IF Delivers(r) THEN "markConflict" ELSE "ok")
  /\ UNCHANGED <<call, found, database, unblocked, faults>>

ConfirmConflict(r) ==
  /\ pc[r] = "confirm"
  /\ Excluded(StayOf(r))
  /\ Goto(r, IF Delivers(r) THEN "markConflict" ELSE "conflict")
  /\ UNCHANGED <<call, found, database, unblocked, faults>>

ConfirmRejected(r) ==
  /\ pc[r] = "confirm"
  /\ Inverted(StayOf(r))
  /\ Goto(r, Rescue(r))
  /\ UNCHANGED <<call, found, database, unblocked, faults>>

(* The audit row is written after the commit, in a transaction of its own. *)
AuditConfirmed(r) ==
  /\ pc[r] = "audit"
  /\ Goto(r, IF Delivers(r) THEN "insertRef" ELSE "ok")
  /\ UNCHANGED <<call, found, database, unblocked, faults>>

(* Mutant of InsertRef: the insert ignores a reference that exists. *)
InsertRefOnce(r) ==
  LET ref == PayloadOf(r).ref IN
  /\ pc[r] = "insertRef"
  /\ extRef' = [extRef EXCEPT ![ref] = IF @ = None THEN r ELSE @]
  /\ Goto(r, "markProcessed")
  /\ UNCHANGED <<call, found, booking, block, guests, webhook, outbox, unblocked, faults>>

(* Mutant of FindRef: the lookup is made outside the try block. *)
FindRefUncaught(r) ==
  LET ref == PayloadOf(r).ref IN
  /\ pc[r] = "findRef"
  /\ Goto(r, IF extRef[ref] = None THEN "error" ELSE "cancel")
  /\ found' = [found EXCEPT ![r] = extRef[ref]]
  /\ UNCHANGED <<call, database, unblocked, faults>>

(* processCreated: the channel's name for the booking, unique per channel. *)
InsertRef(r) ==
  LET ref == PayloadOf(r).ref IN
  /\ pc[r] = "insertRef"
  /\ IF extRef[ref] = None
     THEN extRef' = [extRef EXCEPT ![ref] = r] /\ Goto(r, "markProcessed")
     ELSE UNCHANGED extRef /\ Goto(r, "markFailed")
  /\ UNCHANGED <<call, found, booking, block, guests, webhook, outbox, unblocked, faults>>

(* processCancelled: read the reference, then BookingService.cancel. *)
FindRef(r) ==
  LET ref == PayloadOf(r).ref IN
  /\ pc[r] = "findRef"
  /\ IF extRef[ref] = None
     THEN Goto(r, "markFailed") /\ UNCHANGED found
     ELSE Goto(r, "cancel") /\ found' = [found EXCEPT ![r] = extRef[ref]]
  /\ UNCHANGED <<call, database, unblocked, faults>>

(* Mutant of CancelBooking: the block is not deleted. *)
CancelKeepingBlock(r) ==
  /\ pc[r] = "cancel"
  /\ booking' = [booking EXCEPT ![found[r]] = "cancelled"]
  /\ outbox' = [outbox EXCEPT ![r] = "booking.cancelled"]
  /\ Goto(r, "markProcessed")
  /\ UNCHANGED <<call, found, block, guests, webhook, extRef, unblocked, faults>>

CancelBooking(r) ==
  LET b == found[r] IN
  /\ pc[r] = "cancel"
  /\ booking' = [booking EXCEPT ![b] = "cancelled"]
  /\ block' = [block EXCEPT ![b] = IF @ = "booking" THEN None ELSE @]
  /\ outbox' = [outbox EXCEPT ![r] = "booking.cancelled"]
  /\ Goto(r, "markProcessed")
  /\ UNCHANGED <<call, found, guests, webhook, extRef, unblocked, faults>>

(* markWebhook, for each of the three outcomes of ingestWebhook. *)
MarkWebhook(r, step, status, next) ==
  /\ pc[r] = step
  /\ webhook' = [webhook EXCEPT ![call[r].event] = status]
  /\ Goto(r, next)
  /\ UNCHANGED <<call, found, booking, block, guests, extRef, outbox, unblocked, faults>>

MarkProcessed(r) == MarkWebhook(r, "markProcessed", "processed", "processed")
MarkConflict(r) == MarkWebhook(r, "markConflict", "conflict", "emitConflict")
MarkFailed(r) == MarkWebhook(r, "markFailed", "failed", "error")

(* The conflict branch: outbox row, then audit, each in its transaction. *)
EmitConflict(r) ==
  /\ pc[r] = "emitConflict"
  /\ outbox' = [outbox EXCEPT ![r] = "booking.conflict_detected"]
  /\ Goto(r, "auditConflict")
  /\ UNCHANGED <<call, found, booking, block, guests, webhook, extRef, unblocked, faults>>

AuditConflict(r) ==
  /\ pc[r] = "auditConflict"
  /\ Goto(r, "conflict")
  /\ UNCHANGED <<call, found, database, unblocked, faults>>

(* CalendarService.createManualBlock. *)
InsertBlock(r) ==
  /\ pc[r] = "insertBlock"
  /\ ~Inverted(StayOf(r)) /\ ~Excluded(StayOf(r))
  /\ block' = [block EXCEPT ![r] = "manual"]
  /\ Goto(r, "ok")
  /\ UNCHANGED <<call, found, booking, guests, webhook, extRef, outbox, unblocked, faults>>

InsertBlockRefused(r) ==
  /\ pc[r] = "insertBlock"
  /\ Inverted(StayOf(r)) \/ Excluded(StayOf(r))
  /\ Goto(r, IF Inverted(StayOf(r)) THEN "error" ELSE "conflict")
  /\ UNCHANGED <<call, found, database, unblocked, faults>>

(* CalendarService.removeBlock deletes a block by id, whatever its source;
   the booking behind it, if there is one, is left alone. *)
RemoveBlock(r) ==
  /\ pc[r] = "deleteBlock"
  /\ \E q \in Requests :
       /\ block' = [block EXCEPT ![q] = None]
       /\ unblocked' = IF block[q] = "booking" THEN unblocked \cup {q} ELSE unblocked
  /\ Goto(r, "ok")
  /\ UNCHANGED <<call, found, booking, guests, webhook, extRef, outbox, faults>>

(* The current transaction of the call fails and rolls back. *)
StepFails(r) ==
  /\ pc[r] \in InFlight
  /\ faults < MaxFaults
  /\ faults' = faults + 1
  /\ Goto(r, Rescue(r))
  /\ UNCHANGED <<call, found, database, unblocked>>

(* The process serving the call stops between two transactions. *)
Die(r) ==
  /\ pc[r] \in InFlight
  /\ faults < MaxFaults
  /\ faults' = faults + 1
  /\ Goto(r, "dead")
  /\ UNCHANGED <<call, found, database, unblocked>>

Step(r) ==
  \/ RecordEvent(r) \/ RecordDuplicate(r)
  \/ FindGuest(r) \/ InsertGuest(r)
  \/ ConfirmBooking(r) \/ ConfirmConflict(r) \/ ConfirmRejected(r)
  \/ AuditConfirmed(r) \/ InsertRef(r)
  \/ FindRef(r) \/ CancelBooking(r)
  \/ MarkProcessed(r) \/ MarkConflict(r) \/ MarkFailed(r)
  \/ EmitConflict(r) \/ AuditConflict(r)
  \/ InsertBlock(r) \/ InsertBlockRefused(r) \/ RemoveBlock(r)

Next ==
  \E r \in Requests :
    \/ \E c \in Calls : Start(r, c)
    \/ Step(r)
    \/ StepFails(r)
    \/ Die(r)

Spec == Init /\ [][Next]_vars

----------------------------------------------------------------------------
(* Every row and every call has one of the values the schema and the handlers
   give it. *)
TypeOK ==
  /\ pc \in [Requests -> {"idle"} \cup InFlight \cup Answers]
  /\ call \in [Requests -> Calls \cup {None}]
  /\ found \in [Requests -> Requests \cup {None}]
  /\ booking \in [Requests -> BookingStatus \cup {None}]
  /\ block \in [Requests -> BlockSource \cup {None}]
  /\ guests \subseteq Requests
  /\ webhook \in [Events -> WebhookStatus \cup {None}]
  /\ extRef \in [Refs -> Requests \cup {None}]
  /\ outbox \in [Requests -> OutboxType \cup {None}]
  /\ unblocked \subseteq Requests
  /\ faults \in 0 .. MaxFaults

(* bookings and availability_blocks agree: a booking holds its nights exactly
   while it is confirmed, unless the calendar API deleted its block. *)
BlocksMirrorBookings ==
  \A b \in Requests :
    block[b] = "booking" <=> (booking[b] = "confirmed" /\ b \notin unblocked)

Stays(b) == booking[b] = "confirmed" /\ b \notin unblocked

(* The ledger as a reader of bookings sees it: the confirmed stays whose block
   nobody deleted, and the manual blocks. *)
Ledger ==
  [r \in Requests |-> IF Stays(r) \/ block[r] = "manual" THEN StayOf(r) ELSE None]

L == INSTANCE StayLedger WITH Ids <- Requests, ledger <- Ledger

(* No double-booking: no night of a unit is held by two confirmed bookings, or
   by a booking and a manual block, as long as no booking's block is deleted. *)
NightsHeldOnce == L!Exclusive

(* The transactions of confirm, cancel and the calendar API, interleaved and
   failing as they may, take and free nights one stay at a time. *)
ImplementsLedger == L!Spec

(* Idempotent ingestion: however often, concurrently or brokenly an event is
   delivered, it makes one booking at most. *)
OneBookingPerEvent ==
  \A r, q \in Requests :
    ( /\ booking[r] # None /\ booking[q] # None
      /\ Delivers(r) /\ Delivers(q) /\ call[r].event = call[q].event )
    => r = q

(* A processed creation is known by its reference, a processed cancellation
   has cancelled that booking, and a conflict has booked nothing. *)
OutcomeIsTrue(e) ==
  LET p == Payload[e] IN
  /\ (webhook[e] = "processed" /\ p.type = "booking.created") =>
       /\ extRef[p.ref] # None
       /\ call[extRef[p.ref]].event = e
       /\ booking[extRef[p.ref]] # None
  /\ (webhook[e] = "processed" /\ p.type = "booking.cancelled") =>
       extRef[p.ref] # None /\ booking[extRef[p.ref]] = "cancelled"
  /\ webhook[e] \in {None, "conflict"} =>
       \A r \in Requests : Delivers(r) /\ call[r].event = e => booking[r] = None

RecordedOutcomesAreTrue == \A e \in Events : OutcomeIsTrue(e)

Confirms(r) == call[r] # None /\ call[r].kind = "confirm"

(* Direct confirmations that failed or never came back, of bookings that are
   there: the caller will try again and find its own nights taken. *)
Misled == {r \in Requests : Confirms(r) /\ pc[r] \in {"error", "dead"} /\ booking[r] # None}

AnswersAreTrue ==
  /\ \A r \in Requests : Confirms(r) =>
       /\ pc[r] = "ok" => booking[r] # None
       /\ pc[r] = "conflict" => booking[r] = None
  /\ Cardinality(Misled) <= faults

(* What webhook_events says of an event is what happened to the booking, and so
   is what the caller of a direct confirmation is told; a caller who is told of
   a failure though the booking stands has cost a fault of its own, the audit
   write after the commit that failed or was never reached. *)
OutcomesAreTrue == RecordedOutcomesAreTrue /\ AnswersAreTrue

(* An event stays "received" only while a call works on it, or after the call
   that recorded it failed or died: nothing else loses a webhook. *)
ReceivedEventsHaveAnOwner ==
  \A e \in Events : webhook[e] = "received" =>
    \E r \in Requests :
      /\ Delivers(r) /\ call[r].event = e
      /\ \/ pc[r] \in TrySteps \cup {"markConflict", "markFailed"}
         \/ pc[r] \in {"error", "dead"} /\ faults > 0

----------------------------------------------------------------------------
(* README.md says "No double-booking, ever."  Refuted: a manager can delete the
   block of a confirmed booking. *)
NoDoubleBookingEver ==
  \A a, b \in Requests :
    (a # b /\ booking[a] = "confirmed" /\ booking[b] = "confirmed")
      => ~Overlap(StayOf(a), StayOf(b))
=============================================================================
