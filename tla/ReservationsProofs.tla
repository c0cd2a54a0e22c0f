------------------------- MODULE ReservationsProofs -------------------------
(***************************************************************************)
(* What holds of Reservations for every set of calls, units, dates, events *)
(* and any bound on faults.  LedgerInv is the inductive invariant of the   *)
(* calendar: its parts tie the step a call has reached to its rows.        *)
(***************************************************************************)
EXTENDS Reservations, FiniteSetTheorems, TLAPS

(* Steps a channel delivery takes once it has recorded its event. *)
Working ==
  TrySteps \cup {"markConflict", "emitConflict", "auditConflict", "markFailed"}

(* A call takes only the steps of its kind. *)
StepsFitCalls ==
  \A r \in Requests :
    /\ pc[r] = "idle" <=> call[r] = None
    /\ pc[r] \in {"record"} \cup (Working \ {"confirm", "audit"}) => Delivers(r)
    /\ pc[r] \in {"confirm", "audit"} => call[r].kind \in {"deliver", "confirm"}
    /\ pc[r] = "insertBlock" => call[r].kind = "block"
    /\ pc[r] = "deleteBlock" => call[r].kind = "remove"

(* A call that has not reached its insert owns no booking and no block. *)
Early == {"idle", "record", "findGuest", "insertGuest", "confirm", "insertBlock"}

RowsFollowSteps ==
  \A r \in Requests :
    /\ pc[r] \in Early => booking[r] = None /\ block[r] = None
    /\ block[r] # None => call[r].kind \in {"deliver", "confirm", "block"}
    /\ booking[r] # None => block[r] # "manual"
    /\ r \in unblocked => booking[r] # None

(* References and the cancellations that read them name bookings. *)
NamesExist ==
  /\ \A x \in Refs : extRef[x] # None => booking[extRef[x]] # None
  /\ \A r \in Requests :
       /\ pc[r] \in {"audit", "insertRef"} => booking[r] # None
       /\ pc[r] = "cancel" => found[r] \in Requests /\ booking[found[r]] # None

(* What the exclusion constraint keeps true of the table itself. *)
BlocksDisjoint ==
  \A p, q \in Requests :
    (p # q /\ block[p] # None /\ block[q] # None) => ~Overlap(StayOf(p), StayOf(q))

LedgerInv ==
  /\ TypeOK
  /\ StepsFitCalls
  /\ RowsFollowSteps
  /\ NamesExist
  /\ BlocksMirrorBookings
  /\ BlocksDisjoint

----------------------------------------------------------------------------
(* None is no status, no source and no event type. *)
LEMMA NoneDiffers ==
  None \notin {"confirmed", "cancelled", "booking", "manual", "received", "processed",
               "failed", "conflict", "booking.confirmed", "booking.cancelled", "booking.conflict_detected"}
BY NoneAssumption DEF BookingStatus, BlockSource, WebhookStatus, OutboxType

(* The values a call record can have, by kind. *)
LEMMA CallShape ==
  ASSUME NEW c \in CallType
  PROVE  /\ c.kind \in {"deliver", "confirm", "block", "remove"}
         /\ c.kind = "deliver" => c.event \in Events
         /\ c.kind \in {"confirm", "block"} => c.stay \in Stay
         /\ FirstStep[c.kind] \in {"record", "confirm", "insertBlock", "deleteBlock"}
         /\ c # None
BY NoneAssumption DEF CallType, FirstStep

(* Every answer, step and status is one of those listed.  TypeOK needs to know
   that only deliveries look up a reference, so it is proved with StepsFitCalls. *)
LEMMA TypeInit == Init => TypeOK /\ StepsFitCalls
BY FaultsAssumption DEF Init, TypeOK, BookingStatus, BlockSource, WebhookStatus, OutboxType, StepsFitCalls, Working, TrySteps

LEMMA PayloadShape ==
  ASSUME TypeOK, NEW r \in Requests, Delivers(r)
  PROVE  /\ call[r].event \in Events
         /\ PayloadOf(r) \in PayloadType
         /\ PayloadOf(r).ref \in Refs
         /\ PayloadOf(r).stay \in Stay
<1>1. call[r] \in CallType /\ call[r].kind = "deliver"
  BY CallsAssumption DEF TypeOK, Delivers
<1>2. call[r].event \in Events
  BY <1>1, CallShape
<1> QED
  BY <1>2, PayloadAssumption DEF PayloadOf, PayloadType

LEMMA TypeStart ==
  ASSUME TypeOK, NEW r \in Requests, NEW c \in Calls, Start(r, c)
  PROVE  TypeOK'
<1>1. FirstStep[c.kind] \in {"record", "confirm", "insertBlock", "deleteBlock"}
  BY CallShape, CallsAssumption
<1> QED
  BY <1>1 DEF TypeOK, Start, Goto, database, InFlight, BareSteps, TrySteps

LEMMA TypeStep ==
  ASSUME TypeOK, StepsFitCalls, NEW r \in Requests, Step(r)
  PROVE  TypeOK'
<1> USE DEF TypeOK, BookingStatus, BlockSource, WebhookStatus, OutboxType, Goto, database, Answers, InFlight, BareSteps, TrySteps
<1>1. CASE RecordEvent(r) BY <1>1 DEF RecordEvent
<1>2. CASE RecordDuplicate(r) BY <1>2 DEF RecordDuplicate
<1>3. CASE FindGuest(r) BY <1>3 DEF FindGuest
<1>4. CASE InsertGuest(r) BY <1>4 DEF InsertGuest
<1>5. CASE ConfirmBooking(r) BY <1>5 DEF ConfirmBooking
<1>6. CASE ConfirmConflict(r) BY <1>6 DEF ConfirmConflict
<1>7. CASE ConfirmRejected(r) BY <1>7 DEF ConfirmRejected, Rescue
<1>8. CASE AuditConfirmed(r) BY <1>8 DEF AuditConfirmed
<1>9. CASE InsertRef(r) BY <1>9 DEF InsertRef
<1>10. CASE FindRef(r)
  <2>1. PayloadOf(r).ref \in Refs
    BY <1>10, PayloadShape DEF FindRef, StepsFitCalls, Working
  <2> QED BY <1>10, <2>1 DEF FindRef
<1>11. CASE CancelBooking(r) BY <1>11 DEF CancelBooking
<1>12. CASE MarkProcessed(r) BY <1>12 DEF MarkProcessed, MarkWebhook
<1>13. CASE MarkConflict(r) BY <1>13 DEF MarkConflict, MarkWebhook
<1>14. CASE MarkFailed(r) BY <1>14 DEF MarkFailed, MarkWebhook
<1>15. CASE EmitConflict(r) BY <1>15 DEF EmitConflict
<1>16. CASE AuditConflict(r) BY <1>16 DEF AuditConflict
<1>17. CASE InsertBlock(r) BY <1>17 DEF InsertBlock
<1>18. CASE InsertBlockRefused(r) BY <1>18 DEF InsertBlockRefused
<1>19. CASE RemoveBlock(r) BY <1>19 DEF RemoveBlock
<1> QED
  BY <1>1, <1>2, <1>3, <1>4, <1>5, <1>6, <1>7, <1>8, <1>9, <1>10, <1>11, <1>12,
     <1>13, <1>14, <1>15, <1>16, <1>17, <1>18, <1>19 DEF Step

LEMMA TypeFault ==
  ASSUME TypeOK, NEW r \in Requests, StepFails(r) \/ Die(r)
  PROVE  TypeOK'
BY FaultsAssumption
   DEF TypeOK, StepFails, Die, Rescue, Goto, database, Answers, InFlight, BareSteps

(* Calls stay on the path of their kind. *)
LEMMA CallsNext ==
  ASSUME TypeOK, StepsFitCalls, [Next]_vars
  PROVE  StepsFitCalls'
<1> USE DEF StepsFitCalls, Working, TrySteps, Goto
<1>1. ASSUME NEW r \in Requests, NEW c \in Calls, Start(r, c)
      PROVE  StepsFitCalls'
  <2>1. c \in CallType
    BY CallsAssumption
  <2>2. /\ c # None
        /\ c.kind = "deliver" => FirstStep[c.kind] = "record"
        /\ c.kind = "confirm" => FirstStep[c.kind] = "confirm"
        /\ c.kind = "block" => FirstStep[c.kind] = "insertBlock"
        /\ c.kind = "remove" => FirstStep[c.kind] = "deleteBlock"
        /\ c.kind \in {"deliver", "confirm", "block", "remove"}
    BY <2>1, CallShape DEF FirstStep
  <2> QED BY <1>1, <2>2 DEF TypeOK, Start, Delivers
<1>2. ASSUME NEW r \in Requests, Step(r)
      PROVE  StepsFitCalls'
  <2>1. call' = call
    BY <1>2 DEF Step, RecordEvent, RecordDuplicate, FindGuest, InsertGuest, ConfirmBooking,
       ConfirmConflict, ConfirmRejected, AuditConfirmed, InsertRef, FindRef, CancelBooking,
       MarkProcessed, MarkConflict, MarkFailed, MarkWebhook, EmitConflict, AuditConflict,
       InsertBlock, InsertBlockRefused, RemoveBlock
  <2>2. \A q \in Requests : q # r => pc'[q] = pc[q]
    BY <1>2 DEF TypeOK, Step, RecordEvent, RecordDuplicate, FindGuest, InsertGuest, ConfirmBooking,
       ConfirmConflict, ConfirmRejected, AuditConfirmed, InsertRef, FindRef, CancelBooking,
       MarkProcessed, MarkConflict, MarkFailed, MarkWebhook, EmitConflict, AuditConflict,
       InsertBlock, InsertBlockRefused, RemoveBlock
  <2>3. /\ call[r] # None /\ pc'[r] # "idle"
        /\ pc'[r] \in {"record"} \cup (Working \ {"confirm", "audit"}) => Delivers(r)
        /\ pc'[r] \in {"confirm", "audit"} => call[r].kind \in {"deliver", "confirm"}
        /\ pc'[r] # "insertBlock" /\ pc'[r] # "deleteBlock"
    BY <1>2 DEF TypeOK, Delivers, Rescue, Step, RecordEvent, RecordDuplicate, FindGuest, InsertGuest, ConfirmBooking,
       ConfirmConflict, ConfirmRejected, AuditConfirmed, InsertRef, FindRef, CancelBooking,
       MarkProcessed, MarkConflict, MarkFailed, MarkWebhook, EmitConflict, AuditConflict,
       InsertBlock, InsertBlockRefused, RemoveBlock
  <2> QED BY <2>1, <2>2, <2>3 DEF Delivers
<1>3. ASSUME NEW r \in Requests, StepFails(r) \/ Die(r)
      PROVE  StepsFitCalls'
  BY <1>3 DEF TypeOK, StepFails, Die, Rescue, Delivers, InFlight, BareSteps
<1>4. CASE UNCHANGED vars
  BY <1>4 DEF vars, Delivers
<1> QED BY <1>1, <1>2, <1>3, <1>4 DEF Next

LEMMA TypeNext == TypeOK /\ StepsFitCalls /\ [Next]_vars => TypeOK' /\ StepsFitCalls'
<1> SUFFICES ASSUME TypeOK, StepsFitCalls, [Next]_vars PROVE TypeOK' /\ StepsFitCalls'
  OBVIOUS
<1>1. CASE Next
  BY <1>1, TypeStart, TypeStep, TypeFault, CallsNext DEF Next
<1>2. CASE UNCHANGED vars
  BY <1>2, CallsNext DEF TypeOK, vars, database
<1> QED BY <1>1, <1>2

(* The types of every table, call and counter hold in every state. *)
THEOREM TypeCorrect == Spec => []TypeOK
<1>1. Spec => [](TypeOK /\ StepsFitCalls)
  BY TypeInit, TypeNext, PTL DEF Spec
<1> QED BY <1>1, PTL

----------------------------------------------------------------------------
(* What no step of a call does: change what a call asked for, move another
   call, or return to the start. *)
LEMMA StepFrame ==
  ASSUME TypeOK, NEW r \in Requests, Step(r)
  PROVE  /\ call' = call
         /\ \A q \in Requests : StayOf(q)' = StayOf(q)
         /\ \A q \in Requests : q # r => pc'[q] = pc[q]
         /\ pc'[r] \in Early => pc[r] \in Early
         /\ pc'[r] = "insertRef" => pc[r] = "audit"
         /\ pc'[r] = "cancel" => pc[r] = "findRef"
<1> USE DEF TypeOK, Step, Goto, Early, RecordEvent, RecordDuplicate, FindGuest, InsertGuest,
       ConfirmBooking, ConfirmConflict, ConfirmRejected, AuditConfirmed, InsertRef, FindRef,
       CancelBooking, MarkProcessed, MarkConflict, MarkFailed, MarkWebhook, EmitConflict,
       AuditConflict, InsertBlock, InsertBlockRefused, RemoveBlock
<1>1. call' = call
  OBVIOUS
<1>2. \A q \in Requests : q # r => pc'[q] = pc[q]
  OBVIOUS
<1>3. /\ pc'[r] \in Early => pc[r] \in Early
      /\ pc'[r] = "insertRef" => pc[r] = "audit"
      /\ pc'[r] = "cancel" => pc[r] = "findRef"
  BY DEF Rescue
<1> QED
  BY <1>1, <1>2, <1>3 DEF StayOf, Delivers, PayloadOf

(* The steps that insert, cancel, free or name a stay; all others leave
   bookings, blocks and references alone. *)
LEMMA StepQuiet ==
  ASSUME TypeOK, NEW r \in Requests, Step(r),
         ~ConfirmBooking(r), ~CancelBooking(r), ~InsertBlock(r), ~RemoveBlock(r), ~InsertRef(r)
  PROVE  UNCHANGED <<booking, block, extRef, unblocked>>
BY DEF Step, RecordEvent, RecordDuplicate, FindGuest, InsertGuest, ConfirmConflict,
       ConfirmRejected, AuditConfirmed, FindRef, MarkProcessed, MarkConflict, MarkFailed,
       MarkWebhook, EmitConflict, AuditConflict, InsertBlockRefused, database

LEMMA StepRows ==
  ASSUME LedgerInv, NEW r \in Requests, Step(r)
  PROVE  RowsFollowSteps' /\ BlocksMirrorBookings'
<1> USE DEF LedgerInv, TypeOK, BookingStatus, BlockSource, WebhookStatus, OutboxType, RowsFollowSteps, BlocksMirrorBookings
<1>0. call' = call /\ \A q \in Requests : pc'[q] \in Early => pc[q] \in Early
  BY StepFrame
<1>1. CASE ConfirmBooking(r)
  <2>1. pc[r] = "confirm" /\ booking[r] = None /\ r \notin unblocked /\ pc'[r] = "audit"
    BY <1>1 DEF ConfirmBooking, Goto, Early
  <2>2. call[r].kind \in {"deliver", "confirm"}
    BY <2>1 DEF StepsFitCalls
  <2> QED BY <1>0, <1>1, <2>1, <2>2 DEF ConfirmBooking, Early
<1>2. CASE CancelBooking(r)
  <2> DEFINE b == found[r]
  <2>1. b \in Requests /\ booking[b] # None
    BY <1>2 DEF CancelBooking, NamesExist
  <2>2. /\ booking' = [booking EXCEPT ![b] = "cancelled"]
        /\ block' = [block EXCEPT ![b] = IF block[b] = "booking" THEN None ELSE block[b]]
        /\ unblocked' = unblocked
    BY <1>2, <2>1 DEF CancelBooking
  <2>3. RowsFollowSteps'
    BY <1>0, <2>1, <2>2, NoneDiffers
  <2>4. BlocksMirrorBookings'
    BY <2>1, <2>2, NoneDiffers
  <2> QED BY <2>3, <2>4
<1>3. CASE InsertBlock(r)
  <2>1. pc[r] = "insertBlock" /\ booking[r] = None /\ pc'[r] = "ok" /\ call[r].kind = "block"
    BY <1>3 DEF InsertBlock, Goto, Early, StepsFitCalls
  <2> QED BY <1>0, <1>3, <2>1 DEF InsertBlock, Early
<1>4. CASE RemoveBlock(r)
  <2>1. PICK q \in Requests :
          /\ block' = [block EXCEPT ![q] = None]
          /\ unblocked' = IF block[q] = "booking" THEN unblocked \cup {q} ELSE unblocked
    BY <1>4 DEF RemoveBlock
  <2>2. booking' = booking
    BY <1>4 DEF RemoveBlock
  <2>3. RowsFollowSteps'
    BY <1>0, <2>1, <2>2, NoneDiffers
  <2>4. BlocksMirrorBookings'
    BY <2>1, <2>2, NoneDiffers
  <2> QED BY <2>3, <2>4
<1>5. CASE InsertRef(r)
  BY <1>0, <1>5 DEF InsertRef
<1>6. CASE ~ConfirmBooking(r) /\ ~CancelBooking(r) /\ ~InsertBlock(r) /\ ~RemoveBlock(r) /\ ~InsertRef(r)
  BY <1>0, <1>6, StepQuiet
<1> QED BY <1>1, <1>2, <1>3, <1>4, <1>5, <1>6

LEMMA StepNames ==
  ASSUME LedgerInv, NEW r \in Requests, Step(r)
  PROVE  NamesExist'
<1> USE DEF LedgerInv, TypeOK, BookingStatus, BlockSource, WebhookStatus, OutboxType, NamesExist
<1>1. \A b \in Requests : booking[b] # None => booking'[b] # None
  <2>1. CASE ConfirmBooking(r) BY <2>1, NoneDiffers DEF ConfirmBooking
  <2>2. CASE CancelBooking(r) BY <2>2, NoneDiffers DEF CancelBooking
  <2>3. CASE InsertBlock(r) BY <2>3 DEF InsertBlock
  <2>4. CASE RemoveBlock(r) BY <2>4 DEF RemoveBlock
  <2>5. CASE InsertRef(r) BY <2>5 DEF InsertRef
  <2> QED BY <2>1, <2>2, <2>3, <2>4, <2>5, StepQuiet
<1>2. \A q \in Requests : pc'[q] \in {"audit", "insertRef"} => booking'[q] # None
  <2>1. CASE ConfirmBooking(r)
    BY <1>1, <2>1, NoneDiffers, StepFrame DEF ConfirmBooking
  <2>2. CASE ~ConfirmBooking(r)
    <3>1. pc'[r] # "audit"
      BY <2>2 DEF Step, Goto, Rescue, RecordEvent, RecordDuplicate, FindGuest, InsertGuest,
         ConfirmConflict, ConfirmRejected, AuditConfirmed, InsertRef, FindRef, CancelBooking,
         MarkProcessed, MarkConflict, MarkFailed, MarkWebhook, EmitConflict, AuditConflict,
         InsertBlock, InsertBlockRefused, RemoveBlock
    <3> QED BY <1>1, <3>1, StepFrame
  <2> QED BY <2>1, <2>2
<1>3. \A q \in Requests :
        pc'[q] = "cancel" => found'[q] \in Requests /\ booking'[found'[q]] # None
  <2>1. CASE FindRef(r)
    <3>1. pc[r] = "findRef"
      BY <2>1 DEF FindRef
    <3>2. PayloadOf(r).ref \in Refs
      BY <3>1, PayloadShape DEF StepsFitCalls, Working, TrySteps
    <3>3. \A q \in Requests : q # r => pc'[q] = pc[q] /\ found'[q] = found[q]
      BY <2>1 DEF FindRef, Goto
    <3>4. pc'[r] = "cancel" => found'[r] \in Requests /\ booking[found'[r]] # None
      BY <2>1, <3>2 DEF FindRef, Goto
    <3> QED BY <1>1, <3>3, <3>4
  <2>2. CASE ~FindRef(r)
    <3>1. pc'[r] # "cancel"
      BY <2>2, StepFrame DEF Step, Goto, Rescue, RecordEvent, RecordDuplicate, FindGuest,
         InsertGuest, ConfirmBooking, ConfirmConflict, ConfirmRejected, AuditConfirmed,
         InsertRef, CancelBooking, MarkProcessed, MarkConflict, MarkFailed, MarkWebhook,
         EmitConflict, AuditConflict, InsertBlock, InsertBlockRefused, RemoveBlock
    <3>2. \A q \in Requests : q # r => found'[q] = found[q]
      BY DEF Step, database, RecordEvent, RecordDuplicate, FindGuest, InsertGuest, ConfirmBooking,
         ConfirmConflict, ConfirmRejected, AuditConfirmed, InsertRef, FindRef, CancelBooking,
         MarkProcessed, MarkConflict, MarkFailed, MarkWebhook, EmitConflict, AuditConflict,
         InsertBlock, InsertBlockRefused, RemoveBlock
    <3> QED BY <1>1, <3>1, <3>2, StepFrame
  <2> QED BY <2>1, <2>2
<1>4. \A x \in Refs : extRef'[x] # None => booking'[extRef'[x]] # None
  <2>1. CASE InsertRef(r)
    <3>1. pc[r] = "insertRef"
      BY <2>1 DEF InsertRef
    <3> QED BY <1>1, <2>1, <3>1 DEF InsertRef
  <2>2. CASE ~InsertRef(r)
    <3>1. extRef' = extRef
      BY <2>2, StepQuiet DEF ConfirmBooking, CancelBooking, InsertBlock, RemoveBlock
    <3> QED BY <1>1, <3>1
  <2> QED BY <2>1, <2>2
<1> QED BY <1>2, <1>3, <1>4

(* The constraint compares a new block with every block there is. *)
LEMMA StepDisjoint ==
  ASSUME LedgerInv, NEW r \in Requests, Step(r)
  PROVE  BlocksDisjoint'
<1> USE DEF LedgerInv, TypeOK, BlocksDisjoint
<1>0. \A q \in Requests : StayOf(q)' = StayOf(q)
  BY StepFrame
<1>1. CASE ConfirmBooking(r) \/ InsertBlock(r)
  <2>1. /\ ~Excluded(StayOf(r))
        /\ \A q \in Requests : q # r => block'[q] = block[q]
    BY <1>1 DEF ConfirmBooking, InsertBlock
  <2>2. \A q \in Requests : block[q] # None => ~Overlap(StayOf(r), StayOf(q))
    BY <2>1 DEF Excluded
  <2>3. \A q \in Requests :
          Overlap(StayOf(q), StayOf(r)) => Overlap(StayOf(r), StayOf(q))
    BY DEF Overlap
  <2> QED BY <1>0, <2>1, <2>2, <2>3 DEF Overlap
<1>2. CASE ~ConfirmBooking(r) /\ ~InsertBlock(r)
  <2>1. \A q \in Requests : block'[q] # None => block[q] # None
    <3>1. CASE CancelBooking(r) BY <3>1 DEF CancelBooking
    <3>2. CASE RemoveBlock(r) BY <3>2 DEF RemoveBlock
    <3>3. CASE InsertRef(r) BY <3>3 DEF InsertRef
    <3> QED BY <1>2, <3>1, <3>2, <3>3, StepQuiet
  <2> QED BY <1>0, <2>1 DEF Overlap
<1> QED BY <1>1, <1>2

(* A call that starts, fails or dies leaves the tables alone. *)
LEMMA StartKeepsLedger ==
  ASSUME LedgerInv, NEW r \in Requests, NEW c \in Calls, Start(r, c)
  PROVE  /\ RowsFollowSteps' /\ NamesExist' /\ BlocksMirrorBookings' /\ BlocksDisjoint'
         /\ \A q \in Requests : block[q] # None => StayOf(q)' = StayOf(q)
<1> USE DEF LedgerInv, TypeOK
<1>1. c \in CallType
  BY CallsAssumption
<1>2. FirstStep[c.kind] \in {"record", "confirm", "insertBlock", "deleteBlock"}
  BY <1>1, CallShape
<1>3. /\ UNCHANGED <<found, booking, block, extRef, unblocked>>
      /\ pc[r] = "idle" /\ booking[r] = None /\ block[r] = None
      /\ pc'[r] \in {"record", "confirm", "insertBlock", "deleteBlock"}
      /\ \A q \in Requests : q # r => pc'[q] = pc[q] /\ call'[q] = call[q]
  BY <1>2 DEF Start, Goto, database, RowsFollowSteps, Early
<1>4. \A q \in Requests : block[q] # None => StayOf(q)' = StayOf(q)
  BY <1>3 DEF StayOf, Delivers, PayloadOf
<1>5. RowsFollowSteps'
  BY <1>3 DEF RowsFollowSteps
<1>6. NamesExist'
  BY <1>3 DEF NamesExist
<1>7. BlocksMirrorBookings'
  BY <1>3 DEF BlocksMirrorBookings
<1>8. BlocksDisjoint'
  BY <1>3, <1>4 DEF BlocksDisjoint
<1> QED BY <1>4, <1>5, <1>6, <1>7, <1>8

LEMMA FaultKeepsLedger ==
  ASSUME LedgerInv, NEW r \in Requests, StepFails(r) \/ Die(r)
  PROVE  /\ RowsFollowSteps' /\ NamesExist' /\ BlocksMirrorBookings' /\ BlocksDisjoint'
         /\ UNCHANGED <<call, booking, block, extRef, unblocked>>
<1> USE DEF LedgerInv, TypeOK
<1>1. /\ UNCHANGED <<call, found, booking, block, extRef, unblocked>>
      /\ pc'[r] \in {"markFailed", "error", "dead"}
      /\ \A q \in Requests : q # r => pc'[q] = pc[q]
  BY DEF StepFails, Die, Rescue, Goto, database
<1>2. RowsFollowSteps'
  BY <1>1 DEF RowsFollowSteps, Early
<1>3. NamesExist'
  BY <1>1 DEF NamesExist
<1>4. BlocksMirrorBookings'
  BY <1>1 DEF BlocksMirrorBookings
<1>5. BlocksDisjoint'
  BY <1>1 DEF BlocksDisjoint, StayOf, Delivers, PayloadOf
<1> QED BY <1>1, <1>2, <1>3, <1>4, <1>5

LEMMA LedgerInit == Init => LedgerInv
<1>1. Init => TypeOK /\ StepsFitCalls
  BY TypeInit
<1>2. Init => RowsFollowSteps /\ NamesExist /\ BlocksMirrorBookings /\ BlocksDisjoint
  BY NoneDiffers DEF Init, RowsFollowSteps, NamesExist, BlocksMirrorBookings, BlocksDisjoint
<1> QED BY <1>1, <1>2 DEF LedgerInv

LEMMA LedgerNext == LedgerInv /\ [Next]_vars => LedgerInv'
<1> SUFFICES ASSUME LedgerInv, [Next]_vars PROVE LedgerInv'
  OBVIOUS
<1>1. TypeOK' /\ StepsFitCalls'
  BY TypeNext DEF LedgerInv
<1>2. RowsFollowSteps' /\ NamesExist' /\ BlocksMirrorBookings' /\ BlocksDisjoint'
  <2>1. CASE Next
    BY <2>1, StepRows, StepNames, StepDisjoint, StartKeepsLedger, FaultKeepsLedger DEF Next
  <2>2. CASE UNCHANGED vars
    BY <2>2 DEF LedgerInv, vars, database, RowsFollowSteps, NamesExist, BlocksMirrorBookings,
       BlocksDisjoint, StayOf, Delivers, PayloadOf
  <2> QED BY <2>1, <2>2
<1> QED BY <1>1, <1>2 DEF LedgerInv

LEMMA LedgerCorrect == Spec => []LedgerInv
BY LedgerInit, LedgerNext, PTL DEF Spec

(* bookings and availability_blocks agree in every state: a booking holds its
   nights exactly while it is confirmed and nobody has deleted its block. *)
THEOREM BlocksMirror == Spec => []BlocksMirrorBookings
BY LedgerCorrect, PTL DEF LedgerInv

----------------------------------------------------------------------------
(* The ledger read off bookings is the ledger of the blocks, and every stay in
   it is one somebody asked for. *)
LedgerOfBlocks ==
  /\ Ledger = [r \in Requests |-> IF block[r] # None THEN StayOf(r) ELSE None]
  /\ \A r \in Requests : block[r] # None => StayOf(r) \in Stay /\ StayOf(r) # None

LEMMA LedgerIsBlocks == LedgerInv => LedgerOfBlocks
<1> SUFFICES ASSUME LedgerInv PROVE LedgerOfBlocks
  OBVIOUS
<1> USE DEF LedgerInv, TypeOK, BlockSource
<1>1. \A r \in Requests : (Stays(r) \/ block[r] = "manual") <=> block[r] # None
  BY NoneDiffers DEF BlocksMirrorBookings, Stays
<1>2. ASSUME NEW r \in Requests, block[r] # None
      PROVE  StayOf(r) \in Stay
  <2>1. call[r].kind \in {"deliver", "confirm", "block"}
    BY <1>2 DEF RowsFollowSteps
  <2>2. call[r] # None
    BY <1>2 DEF RowsFollowSteps, StepsFitCalls, Early
  <2>3. call[r] \in CallType
    BY <2>2, CallsAssumption
  <2>4. CASE Delivers(r)
    BY <2>4, PayloadShape DEF StayOf
  <2>5. CASE ~Delivers(r)
    BY <2>1, <2>2, <2>3, <2>5, CallShape DEF StayOf, Delivers
  <2> QED BY <2>4, <2>5
<1> QED BY <1>1, <1>2, NoneAssumption DEF Ledger, LedgerOfBlocks

LEMMA LedgerIsBlocksNext == LedgerInv' => LedgerOfBlocks'
BY LedgerIsBlocks, PTL

LEMMA LedgerExclusive == LedgerInv => NightsHeldOnce
<1> SUFFICES ASSUME LedgerInv PROVE L!Exclusive
  BY DEF NightsHeldOnce
<1> QED
  BY LedgerIsBlocks DEF LedgerOfBlocks, LedgerInv, BlocksDisjoint, Overlap, L!Exclusive, L!Clash

(* No double-booking: no night is held twice by stays whose block stands. *)
THEOREM NoNightHeldTwice == Spec => []NightsHeldOnce
BY LedgerCorrect, LedgerExclusive, PTL

LEMMA InitImplements == Init => L!Init
<1> SUFFICES ASSUME Init PROVE Ledger = [r \in Requests |-> None]
  BY DEF L!Init
<1> QED BY NoneDiffers DEF Init, Ledger, Stays

(* One name's row, before and after, decides a ledger step. *)
LEMMA StepImplements ==
  ASSUME LedgerInv, LedgerInv', NEW r \in Requests, Step(r)
  PROVE  L!Next \/ UNCHANGED Ledger
<1> USE DEF LedgerInv, TypeOK
<1>0. /\ Ledger = [q \in Requests |-> IF block[q] # None THEN StayOf(q) ELSE None]
      /\ Ledger' = [q \in Requests |-> IF block'[q] # None THEN StayOf(q) ELSE None]
      /\ \A q \in Requests : block[q] # None => StayOf(q) \in Stay /\ StayOf(q) # None
      /\ \A q \in Requests : block'[q] # None => StayOf(q) \in Stay /\ StayOf(q) # None
  <2>1. \A q \in Requests : StayOf(q)' = StayOf(q)
    BY StepFrame
  <2> QED BY <2>1, LedgerIsBlocks, LedgerIsBlocksNext DEF LedgerOfBlocks
<1>1. CASE ConfirmBooking(r) \/ InsertBlock(r)
  <2>1. block[r] = None
    BY <1>1 DEF ConfirmBooking, InsertBlock, RowsFollowSteps, Early
  <2>2. /\ block'[r] # None
        /\ \A q \in Requests : q # r => block'[q] = block[q]
    BY <1>1, NoneDiffers DEF ConfirmBooking, InsertBlock
  <2>3. \A q \in Requests : block[q] # None => ~Overlap(StayOf(r), StayOf(q))
    BY <1>1 DEF ConfirmBooking, InsertBlock, Excluded
  <2>4. L!Reserve(r)
    BY <1>0, <2>1, <2>2, <2>3 DEF L!Reserve, L!Clash, Overlap
  <2> QED BY <2>4 DEF L!Next
<1>2. ASSUME NEW b \in Requests, block'[b] = None,
             \A q \in Requests : q # b => block'[q] = block[q]
      PROVE  L!Next \/ UNCHANGED Ledger
  <2>1. CASE block[b] = None
    BY <1>0, <1>2, <2>1
  <2>2. CASE block[b] # None
    <3>1. L!Release(b)
      BY <1>0, <1>2, <2>2 DEF L!Release
    <3> QED BY <3>1 DEF L!Next
  <2> QED BY <2>1, <2>2
<1>3. CASE CancelBooking(r)
  <2>1. found[r] \in Requests /\ booking[found[r]] # None
    BY <1>3 DEF CancelBooking, NamesExist
  <2>2. block[found[r]] \in {"booking", None}
    BY <2>1 DEF RowsFollowSteps, BlockSource
  <2>3. /\ block'[found[r]] = None
        /\ \A q \in Requests : q # found[r] => block'[q] = block[q]
    BY <1>3, <2>1, <2>2 DEF CancelBooking
  <2> QED BY <1>2, <2>1, <2>3
<1>4. CASE RemoveBlock(r)
  <2>1. PICK q \in Requests : block' = [block EXCEPT ![q] = None]
    BY <1>4 DEF RemoveBlock
  <2> QED BY <1>2, <2>1
<1>5. CASE ~ConfirmBooking(r) /\ ~CancelBooking(r) /\ ~InsertBlock(r) /\ ~RemoveBlock(r)
  <2>1. block' = block
    BY <1>5, StepQuiet DEF InsertRef
  <2> QED BY <1>0, <2>1
<1> QED BY <1>1, <1>3, <1>4, <1>5

LEMMA NextImplements == LedgerInv /\ LedgerInv' /\ [Next]_vars => [L!Next]_Ledger
<1> SUFFICES ASSUME LedgerInv, LedgerInv', [Next]_vars
             PROVE  L!Next \/ UNCHANGED Ledger
  OBVIOUS
<1>1. ASSUME NEW r \in Requests, NEW c \in Calls, Start(r, c)
      PROVE  UNCHANGED Ledger
  <2>1. block' = block
    BY <1>1 DEF Start, database
  <2>2. \A q \in Requests : block[q] # None => StayOf(q)' = StayOf(q)
    BY <1>1, StartKeepsLedger
  <2> QED BY <2>1, <2>2, LedgerIsBlocks, LedgerIsBlocksNext DEF LedgerOfBlocks
<1>2. ASSUME NEW r \in Requests, StepFails(r) \/ Die(r)
      PROVE  UNCHANGED Ledger
  <2>1. UNCHANGED <<call, booking, block, unblocked>>
    BY <1>2, FaultKeepsLedger
  <2> QED BY <2>1 DEF Ledger, Stays, StayOf, Delivers, PayloadOf
<1>3. CASE UNCHANGED vars
  BY <1>3 DEF vars, database, Ledger, Stays, StayOf, Delivers, PayloadOf
<1> QED BY <1>1, <1>2, <1>3, StepImplements DEF Next

(* Every behaviour of the handlers is one of the ledger: nights are taken only
   when free and freed one stay at a time. *)
THEOREM LedgerImplemented == Spec => ImplementsLedger
<1>1. LedgerInv /\ LedgerInv' /\ [Next]_vars => [L!Next]_Ledger
  BY NextImplements
<1> QED BY InitImplements, <1>1, LedgerCorrect, PTL DEF Spec, ImplementsLedger, L!Spec
----------------------------------------------------------------------------
(* A delivery has taken its event once it has left "record" to work on it, and
   for good once it has made a booking. *)
Took(r) == Delivers(r) /\ (pc[r] \in Working \/ booking[r] # None)

(* An event is taken by one delivery, the one that inserted its row. *)
OneTaker ==
  /\ \A r \in Requests : Took(r) => webhook[call[r].event] # None
  /\ \A r, q \in Requests :
       (Took(r) /\ Took(q) /\ call[r].event = call[q].event) => r = q

LEMMA TakerStep ==
  ASSUME LedgerInv, OneTaker, NEW r \in Requests, Step(r)
  PROVE  OneTaker'
<1> USE DEF LedgerInv, TypeOK
<1>1. /\ \A q \in Requests : Delivers(q)' = Delivers(q)
      /\ call' = call
  BY StepFrame DEF Delivers
<1>2. \A e \in Events : webhook[e] # None => webhook'[e] # None
  BY NoneDiffers DEF Step, database, RecordEvent, RecordDuplicate, FindGuest, InsertGuest,
     ConfirmBooking, ConfirmConflict, ConfirmRejected, AuditConfirmed, InsertRef, FindRef,
     CancelBooking, MarkProcessed, MarkConflict, MarkFailed, MarkWebhook, EmitConflict,
     AuditConflict, InsertBlock, InsertBlockRefused, RemoveBlock
<1>3. \A q \in Requests : Delivers(q) => call[q].event \in Events
  BY PayloadShape
<1>4. ASSUME NEW q \in Requests, Took(q)', ~Took(q)
      PROVE  q = r /\ RecordEvent(r)
  <2>1. booking'[q] # None => booking[q] # None \/ (q = r /\ pc[r] = "confirm")
    <3>1. CASE ConfirmBooking(r) BY <3>1 DEF ConfirmBooking
    <3>2. CASE CancelBooking(r) BY <3>2 DEF CancelBooking, NamesExist
    <3>3. CASE InsertBlock(r) \/ RemoveBlock(r) \/ InsertRef(r)
      BY <3>3 DEF InsertBlock, RemoveBlock, InsertRef
    <3> QED BY <3>1, <3>2, <3>3, StepQuiet
  <2>2. ~RecordEvent(r) => (pc'[r] \in Working => pc[r] \in Working)
    BY DEF Working, TrySteps, Step, Goto, Rescue, RecordDuplicate, FindGuest,
       InsertGuest, ConfirmBooking, ConfirmConflict, ConfirmRejected, AuditConfirmed, InsertRef,
       FindRef, CancelBooking, MarkProcessed, MarkConflict, MarkFailed, MarkWebhook,
       EmitConflict, AuditConflict, InsertBlock, InsertBlockRefused, RemoveBlock
  <2>3. q # r => pc'[q] = pc[q]
    BY StepFrame
  <2>4. pc[q] \notin Working /\ booking[q] = None /\ (pc'[q] \in Working \/ booking'[q] # None)
    BY <1>1, <1>4 DEF Took
  <2>5. booking'[q] = None
    BY <2>1, <2>4 DEF Working, TrySteps
  <2> QED BY <2>2, <2>3, <2>4, <2>5
<1>5. CASE RecordEvent(r)
  <2>1. webhook[call[r].event] = None /\ webhook'[call[r].event] # None
    BY <1>3, <1>5, NoneDiffers DEF RecordEvent, StepsFitCalls
  <2>2. \A q \in Requests : Took(q) => call[q].event # call[r].event
    BY <2>1 DEF OneTaker
  <2>3. \A q \in Requests : Took(q)' => Took(q) \/ q = r
    BY <1>4
  <2> QED BY <1>1, <1>2, <1>3, <2>1, <2>2, <2>3 DEF OneTaker, Took
<1>6. CASE ~RecordEvent(r)
  <2>1. \A q \in Requests : Took(q)' => Took(q)
    BY <1>4, <1>6
  <2> QED BY <1>1, <1>2, <1>3, <2>1 DEF OneTaker, Took
<1> QED BY <1>5, <1>6

LEMMA TakerNext == LedgerInv /\ OneTaker /\ [Next]_vars => OneTaker'
<1> SUFFICES ASSUME LedgerInv, OneTaker, [Next]_vars PROVE OneTaker'
  OBVIOUS
<1>1. ASSUME NEW r \in Requests, NEW c \in Calls, Start(r, c)
      PROVE  OneTaker'
  <2>1. c \in CallType
    BY CallsAssumption
  <2>2. FirstStep[c.kind] \in {"record", "confirm", "insertBlock", "deleteBlock"}
    BY <2>1, CallShape
  <2>3. c.kind = "deliver" => FirstStep[c.kind] = "record"
    BY <2>1 DEF FirstStep
  <2>4. booking' = booking /\ webhook' = webhook /\ booking[r] = None /\ pc'[r] = FirstStep[c.kind]
    BY <1>1 DEF Start, Goto, database, LedgerInv, TypeOK, RowsFollowSteps, Early
  <2>5. \A q \in Requests : q # r => pc'[q] = pc[q] /\ call'[q] = call[q]
    BY <1>1 DEF Start, Goto, LedgerInv, TypeOK
  <2>6. call'[r] = c
    BY <1>1 DEF Start, LedgerInv, TypeOK
  <2>7. ~Took(r)'
    BY <2>3, <2>4, <2>6 DEF Took, Delivers, Working, TrySteps
  <2> QED BY <2>4, <2>5, <2>7 DEF OneTaker, Took, Delivers
<1>2. ASSUME NEW r \in Requests, Step(r)
      PROVE  OneTaker'
  BY <1>2, TakerStep
<1>3. ASSUME NEW r \in Requests, StepFails(r) \/ Die(r)
      PROVE  OneTaker'
  <2>1. UNCHANGED <<call, booking, webhook>> /\ \A q \in Requests : q # r => pc'[q] = pc[q]
    BY <1>3 DEF StepFails, Die, Goto, database, LedgerInv, TypeOK
  <2>2. pc'[r] \in Working => pc[r] \in Working
    BY <1>3 DEF StepFails, Die, Goto, Rescue, LedgerInv, TypeOK, Working, TrySteps
  <2>3. \A q \in Requests : Took(q)' => Took(q)
    BY <2>1, <2>2 DEF Took, Delivers
  <2> QED BY <2>1, <2>3 DEF OneTaker
<1>4. CASE UNCHANGED vars
  BY <1>4 DEF vars, database, OneTaker, Took, Delivers
<1> QED BY <1>1, <1>2, <1>3, <1>4 DEF Next

(* However often an event is delivered, at most one delivery makes a booking. *)
THEOREM IngestionIdempotent == Spec => []OneBookingPerEvent
<1>1. Init => OneTaker
  BY DEF Init, OneTaker, Took, Delivers
<1>2. OneTaker => OneBookingPerEvent
  BY DEF OneTaker, OneBookingPerEvent, Took
<1> QED BY <1>1, <1>2, TakerNext, LedgerCorrect, PTL DEF Spec

----------------------------------------------------------------------------
(* The steps a delivery takes between recording its event and closing it. *)
Open == TrySteps \cup {"markConflict", "markFailed"}

(* A delivery at work: its event is open, its steps are those of its type,
   and what it is about to report has happened. *)
InOrder(r) ==
  LET ref == PayloadOf(r).ref IN
  /\ pc[r] \in {"findGuest", "insertGuest", "confirm", "audit", "insertRef"} =>
       PayloadOf(r).type = "booking.created"
  /\ pc[r] \in {"findRef", "cancel"} => PayloadOf(r).type = "booking.cancelled"
  /\ pc[r] \in Open => webhook[call[r].event] = "received"
  /\ pc[r] = "markConflict" => booking[r] = None
  /\ pc[r] = "cancel" => found[r] = extRef[ref]
  /\ pc[r] = "markProcessed" =>
       IF PayloadOf(r).type = "booking.created" THEN extRef[ref] = r
       ELSE extRef[ref] # None /\ booking[extRef[ref]] = "cancelled"

DeliveriesInOrder == \A r \in Requests : Delivers(r) => InOrder(r)

IngestInv ==
  /\ LedgerInv /\ OneTaker /\ DeliveriesInOrder
  /\ RecordedOutcomesAreTrue /\ ReceivedEventsHaveAnOwner

(* Whose event it is, and what nobody takes back: a reference, a booking's
   row, a cancellation; only the delivery at work on an event moves it. *)
LEMMA StepKeeps ==
  ASSUME IngestInv, NEW r \in Requests, Step(r)
  PROVE  /\ \A x \in Refs : extRef[x] # None => extRef'[x] = extRef[x]
         /\ \A b \in Requests :
              /\ booking[b] = "cancelled" => booking'[b] = "cancelled"
              /\ booking[b] # None => booking'[b] # None
              /\ booking[b] = None /\ ~(b = r /\ pc[r] = "confirm") => booking'[b] = None
         /\ \A q \in Requests : q # r => found'[q] = found[q]
         /\ \A e \in Events :
              \/ webhook'[e] = webhook[e]
              \/ /\ Delivers(r) /\ call[r].event = e
                 /\ \/ pc[r] = "record" /\ webhook[e] = None
                    \/ pc[r] \in {"markProcessed", "markConflict", "markFailed"}
<1> USE DEF IngestInv, LedgerInv, TypeOK
<1>1. \A x \in Refs : extRef[x] # None => extRef'[x] = extRef[x]
  BY StepQuiet DEF ConfirmBooking, CancelBooking, InsertBlock, RemoveBlock, InsertRef
<1>2. ASSUME NEW b \in Requests
      PROVE  /\ booking[b] = "cancelled" => booking'[b] = "cancelled"
             /\ booking[b] # None => booking'[b] # None
             /\ booking[b] = None /\ ~(b = r /\ pc[r] = "confirm") => booking'[b] = None
  <2>1. CASE ConfirmBooking(r)
    <3>1. pc[r] = "confirm" /\ booking[r] = None
      BY <2>1 DEF ConfirmBooking, RowsFollowSteps, Early
    <3> QED
      BY <2>1, <3>1, NoneDiffers DEF ConfirmBooking
  <2>2. CASE CancelBooking(r)
    BY <2>2, NoneDiffers DEF CancelBooking, NamesExist
  <2>3. CASE InsertBlock(r) \/ RemoveBlock(r) \/ InsertRef(r)
    BY <2>3 DEF InsertBlock, RemoveBlock, InsertRef
  <2> QED
    BY <2>1, <2>2, <2>3, StepQuiet
<1>3. \A q \in Requests : q # r => found'[q] = found[q]
  BY DEF Step, database, RecordEvent, RecordDuplicate, FindGuest, InsertGuest, ConfirmBooking,
     ConfirmConflict, ConfirmRejected, AuditConfirmed, InsertRef, FindRef, CancelBooking,
     MarkProcessed, MarkConflict, MarkFailed, MarkWebhook, EmitConflict, AuditConflict,
     InsertBlock, InsertBlockRefused, RemoveBlock
<1>4. ASSUME NEW e \in Events, webhook'[e] # webhook[e]
      PROVE  /\ Delivers(r) /\ call[r].event = e
             /\ \/ pc[r] = "record" /\ webhook[e] = None
                \/ pc[r] \in {"markProcessed", "markConflict", "markFailed"}
  <2>1. RecordEvent(r) \/ MarkProcessed(r) \/ MarkConflict(r) \/ MarkFailed(r)
    BY <1>4 DEF Step, database, RecordDuplicate, FindGuest, InsertGuest, ConfirmBooking,
       ConfirmConflict, ConfirmRejected, AuditConfirmed, InsertRef, FindRef, CancelBooking,
       EmitConflict, AuditConflict, InsertBlock, InsertBlockRefused, RemoveBlock
  <2>2. Delivers(r)
    BY <2>1 DEF StepsFitCalls, Working, TrySteps, RecordEvent, MarkProcessed, MarkConflict, MarkFailed, MarkWebhook
  <2> QED
    BY <1>4, <2>1, <2>2, PayloadShape DEF RecordEvent, MarkProcessed, MarkConflict, MarkFailed, MarkWebhook
<1> QED
  BY <1>1, <1>2, <1>3, <1>4

LEMMA OthersInOrder ==
  ASSUME IngestInv, NEW r \in Requests, Step(r), NEW q \in Requests, q # r, Delivers(q)
  PROVE  InOrder(q)'
<1>1. /\ call' = call /\ pc'[q] = pc[q] /\ found'[q] = found[q]
      /\ PayloadOf(q)' = PayloadOf(q)
  BY StepFrame, StepKeeps DEF IngestInv, LedgerInv, PayloadOf
<1>2. call[q].event \in Events /\ PayloadOf(q).ref \in Refs
  BY PayloadShape DEF IngestInv, LedgerInv
<1>3. InOrder(q)
  BY DEF IngestInv, DeliveriesInOrder
<1>4. ASSUME pc[q] \in Open
      PROVE  webhook'[call[q].event] = "received"
  <2>1. webhook[call[q].event] = "received" /\ Took(q)
    BY <1>3, <1>4 DEF InOrder, Took, Open, Working
  <2>2. Delivers(r) /\ call[r].event = call[q].event => ~Took(r)
    BY <2>1 DEF IngestInv, OneTaker
  <2>3. pc[r] \in {"markProcessed", "markConflict", "markFailed"} /\ Delivers(r) => Took(r)
    BY DEF Took, Working, TrySteps
  <2> QED
    BY <1>2, <2>1, <2>2, <2>3, StepKeeps, NoneDiffers
<1>5. pc[q] = "cancel" => found[q] \in Requests /\ booking[found[q]] # None
  BY DEF IngestInv, LedgerInv, NamesExist
<1>6. pc[q] \in {"markProcessed", "cancel"} /\ extRef[PayloadOf(q).ref] # None =>
        extRef'[PayloadOf(q).ref] = extRef[PayloadOf(q).ref]
  BY <1>2, StepKeeps
<1>7. pc[q] = "markConflict" => booking'[q] = None
  BY <1>3, StepKeeps DEF InOrder
<1>8. extRef[PayloadOf(q).ref] \in Requests \cup {None}
  BY <1>2 DEF IngestInv, LedgerInv, TypeOK
<1>9. pc[q] = "cancel" => found'[q] = extRef'[PayloadOf(q).ref]
  BY <1>1, <1>3, <1>5, <1>6, NoneAssumption DEF InOrder
<1>10. pc[q] = "markProcessed" =>
         IF PayloadOf(q).type = "booking.created" THEN extRef'[PayloadOf(q).ref] = q
         ELSE extRef'[PayloadOf(q).ref] # None /\ booking'[extRef'[PayloadOf(q).ref]] = "cancelled"
  BY <1>3, <1>6, <1>8, StepKeeps, NoneAssumption DEF InOrder
<1> QED
  BY <1>1, <1>3, <1>4, <1>7, <1>9, <1>10 DEF InOrder

(* The delivery that takes the step. *)
LEMMA ActorInOrder ==
  ASSUME IngestInv, NEW r \in Requests, Step(r), Delivers(r)
  PROVE  InOrder(r)'
<1> USE DEF Goto, Open, TrySteps
<1>1. /\ call' = call /\ PayloadOf(r)' = PayloadOf(r) /\ r \in DOMAIN pc /\ r \in DOMAIN found
  BY StepFrame DEF IngestInv, LedgerInv, PayloadOf, TypeOK
<1>2. /\ call[r].event \in Events /\ PayloadOf(r).ref \in Refs
      /\ PayloadOf(r).type \in {"booking.created", "booking.cancelled"}
  BY PayloadShape DEF IngestInv, LedgerInv, PayloadType
<1>3. InOrder(r)
  BY DEF IngestInv, DeliveriesInOrder
<1>4. /\ booking[r] \in BookingStatus \cup {None}
      /\ webhook \in [Events -> WebhookStatus \cup {None}]
      /\ extRef \in [Refs -> Requests \cup {None}]
      /\ booking \in [Requests -> BookingStatus \cup {None}]
  BY DEF IngestInv, LedgerInv, TypeOK
<1> USE <1>1, <1>2, <1>3 DEF InOrder
<1>5. CASE RecordEvent(r) \/ RecordDuplicate(r)
  BY <1>4, <1>5 DEF RecordEvent, RecordDuplicate
<1>6. CASE FindGuest(r) \/ InsertGuest(r)
  BY <1>6 DEF FindGuest, InsertGuest, database
<1>7. CASE ConfirmBooking(r)
  BY <1>7 DEF ConfirmBooking
<1>8. CASE ConfirmConflict(r)
  <2>1. pc[r] = "confirm" /\ booking[r] = None
    BY <1>8 DEF ConfirmConflict, IngestInv, LedgerInv, RowsFollowSteps, Early
  <2> QED
    BY <1>8, <2>1 DEF ConfirmConflict, database
<1>9. CASE ConfirmRejected(r) \/ AuditConfirmed(r)
  BY <1>9 DEF ConfirmRejected, AuditConfirmed, Rescue, database
<1>10. CASE InsertRef(r)
  BY <1>4, <1>10 DEF InsertRef
<1>11. CASE FindRef(r)
  BY <1>11 DEF FindRef, database
<1>12. CASE CancelBooking(r)
  <2>1. found[r] \in Requests /\ found[r] = extRef[PayloadOf(r).ref] /\ PayloadOf(r).type = "booking.cancelled"
    BY <1>12 DEF CancelBooking, IngestInv, LedgerInv, NamesExist
  <2> QED
    BY <1>4, <1>12, <2>1, NoneAssumption DEF CancelBooking
<1>13. CASE MarkProcessed(r) \/ MarkConflict(r) \/ MarkFailed(r)
  BY <1>13 DEF MarkProcessed, MarkConflict, MarkFailed, MarkWebhook
<1>14. CASE EmitConflict(r) \/ AuditConflict(r)
  BY <1>14 DEF EmitConflict, AuditConflict
<1>15. ~InsertBlock(r) /\ ~InsertBlockRefused(r)
  BY DEF InsertBlock, InsertBlockRefused, IngestInv, LedgerInv, StepsFitCalls, Delivers
<1>16. CASE RemoveBlock(r)
  BY <1>16 DEF RemoveBlock
<1> QED
  BY <1>5, <1>6, <1>7, <1>8, <1>9, <1>10, <1>11, <1>12, <1>13, <1>14, <1>15, <1>16 DEF Step

(* What MarkWebhook says of its event has happened. *)
LEMMA OutcomesStep ==
  ASSUME IngestInv, NEW r \in Requests, Step(r)
  PROVE  RecordedOutcomesAreTrue'
<1> SUFFICES ASSUME NEW e \in Events PROVE OutcomeIsTrue(e)'
  BY DEF RecordedOutcomesAreTrue
<1> DEFINE p == Payload[e]
<1>1. /\ call' = call /\ p \in PayloadType /\ p.ref \in Refs
      /\ p.type \in {"booking.created", "booking.cancelled"}
      /\ extRef[p.ref] \in Requests \cup {None}
  BY StepFrame, PayloadAssumption DEF IngestInv, LedgerInv, TypeOK, PayloadType
<1>2. OutcomeIsTrue(e)
  BY DEF IngestInv, RecordedOutcomesAreTrue
<1>3. CASE webhook'[e] = webhook[e]
  <2>1. extRef[p.ref] # None => extRef'[p.ref] = extRef[p.ref] /\ extRef[p.ref] \in Requests
    BY <1>1, StepKeeps
  <2>2. ASSUME webhook[e] = "processed", p.type = "booking.created"
        PROVE  /\ extRef'[p.ref] # None /\ call'[extRef'[p.ref]].event = e
               /\ booking'[extRef'[p.ref]] # None
    BY <1>1, <1>2, <2>1, <2>2, StepKeeps DEF OutcomeIsTrue
  <2>3. ASSUME webhook[e] = "processed", p.type = "booking.cancelled"
        PROVE  extRef'[p.ref] # None /\ booking'[extRef'[p.ref]] = "cancelled"
    BY <1>2, <2>1, <2>3, StepKeeps DEF OutcomeIsTrue
  <2>4. ASSUME webhook[e] \in {None, "conflict"}, NEW q \in Requests, Delivers(q), call[q].event = e
        PROVE  booking'[q] = None
    <3>1. booking[q] = None
      BY <1>2, <2>4 DEF OutcomeIsTrue
    <3>2. pc[q] # "confirm"
      BY <2>4, NoneDiffers DEF IngestInv, DeliveriesInOrder, InOrder, Open, TrySteps
    <3> QED
      BY <3>1, <3>2, StepKeeps
  <2> QED
    BY <1>1, <1>3, <2>2, <2>3, <2>4 DEF OutcomeIsTrue, Delivers
<1>4. CASE webhook'[e] # webhook[e]
  <2>1. Delivers(r) /\ call[r].event = e /\ PayloadOf(r) = p
    BY <1>4, StepKeeps DEF PayloadOf
  <2>2. InOrder(r)
    BY <2>1 DEF IngestInv, DeliveriesInOrder
  <2>3. RecordEvent(r) \/ MarkProcessed(r) \/ MarkConflict(r) \/ MarkFailed(r)
    BY <1>4 DEF Step, database, RecordDuplicate, FindGuest, InsertGuest, ConfirmBooking,
       ConfirmConflict, ConfirmRejected, AuditConfirmed, InsertRef, FindRef, CancelBooking,
       EmitConflict, AuditConflict, InsertBlock, InsertBlockRefused, RemoveBlock
  <2>4. UNCHANGED <<booking, extRef>> /\ e \in DOMAIN webhook
    BY <2>3 DEF RecordEvent, MarkProcessed, MarkConflict, MarkFailed, MarkWebhook, IngestInv, LedgerInv, TypeOK
  <2>5. CASE RecordEvent(r) \/ MarkFailed(r)
    <3>1. webhook'[e] \in {"received", "failed"}
      BY <2>1, <2>4, <2>5 DEF RecordEvent, MarkFailed, MarkWebhook
    <3> QED
      BY <3>1, NoneDiffers DEF OutcomeIsTrue
  <2>6. CASE MarkProcessed(r)
    <3>1. pc[r] = "markProcessed" /\ webhook'[e] = "processed"
      BY <2>1, <2>4, <2>6 DEF MarkProcessed, MarkWebhook
    <3>2. extRef[p.ref] # None => booking[extRef[p.ref]] # None
      BY <1>1 DEF IngestInv, LedgerInv, NamesExist
    <3>3. r # None
      BY NoneAssumption
    <3>4. p.type = "booking.created" => extRef[p.ref] = r
      BY <2>1, <2>2, <3>1 DEF InOrder
    <3>5. p.type # "booking.created" => extRef[p.ref] # None /\ booking[extRef[p.ref]] = "cancelled"
      BY <2>1, <2>2, <3>1 DEF InOrder
    <3> QED
      BY <1>1, <2>1, <2>4, <3>1, <3>2, <3>3, <3>4, <3>5, NoneDiffers DEF OutcomeIsTrue
  <2>7. CASE MarkConflict(r)
    <3>1. pc[r] = "markConflict" /\ webhook'[e] = "conflict"
      BY <2>1, <2>4, <2>7 DEF MarkConflict, MarkWebhook
    <3>2. booking[r] = None /\ Took(r)
      BY <2>1, <2>2, <3>1 DEF InOrder, Took, Working
    <3>3. ASSUME NEW q \in Requests, Delivers(q), call[q].event = e
          PROVE  booking[q] = None
      BY <2>1, <3>2, <3>3 DEF Took, IngestInv, OneTaker
    <3> QED
      BY <1>1, <2>4, <3>1, <3>3, NoneDiffers DEF OutcomeIsTrue, Delivers
  <2> QED
    BY <2>3, <2>5, <2>6, <2>7
<1> QED
  BY <1>3, <1>4

(* A delivery works on its event until it is closed, or fails. *)
Owns(r, e) ==
  /\ Delivers(r) /\ call[r].event = e
  /\ pc[r] \in Open \/ (pc[r] \in {"error", "dead"} /\ faults > 0)

LEMMA OwnersAre == ReceivedEventsHaveAnOwner <=>
                     \A e \in Events : webhook[e] = "received" => \E r \in Requests : Owns(r, e)
BY DEF ReceivedEventsHaveAnOwner, Owns, Open

LEMMA OwnersStep ==
  ASSUME IngestInv, NEW r \in Requests, Step(r)
  PROVE  \A e \in Events : webhook'[e] = "received" => \E q \in Requests : Owns(q, e)'
<1> SUFFICES ASSUME NEW e \in Events, webhook'[e] = "received"
             PROVE  \E q \in Requests : Owns(q, e)'
  OBVIOUS
<1>1. /\ call' = call /\ faults' = faults /\ \A q \in Requests : q # r => pc'[q] = pc[q]
      /\ r \in DOMAIN pc /\ webhook \in [Events -> WebhookStatus \cup {None}]
  BY StepFrame DEF IngestInv, LedgerInv, TypeOK, Step, database, RecordEvent, RecordDuplicate, FindGuest,
     InsertGuest, ConfirmBooking, ConfirmConflict, ConfirmRejected, AuditConfirmed, InsertRef, FindRef,
     CancelBooking, MarkProcessed, MarkConflict, MarkFailed, MarkWebhook, EmitConflict, AuditConflict,
     InsertBlock, InsertBlockRefused, RemoveBlock
<1>2. CASE webhook[e] = "received"
  <2>1. PICK q \in Requests : Owns(q, e)
    BY <1>2, OwnersAre DEF IngestInv
  <2>2. CASE q # r
    BY <1>1, <2>1, <2>2 DEF Owns, Delivers
  <2>3. CASE q = r
    <3>1. Delivers(r) /\ call[r].event = e /\ pc[r] \in Open
      BY <2>1, <2>3 DEF Owns, Step, RecordEvent, RecordDuplicate, FindGuest,
         InsertGuest, ConfirmBooking, ConfirmConflict, ConfirmRejected, AuditConfirmed, InsertRef, FindRef,
         CancelBooking, MarkProcessed, MarkConflict, MarkFailed, MarkWebhook, EmitConflict, AuditConflict,
         InsertBlock, InsertBlockRefused, RemoveBlock
    <3>2. ~MarkProcessed(r) /\ ~MarkConflict(r) /\ ~MarkFailed(r)
      BY <1>1, <3>1 DEF MarkProcessed, MarkConflict, MarkFailed, MarkWebhook
    <3>3. pc'[r] \in Open
      BY <1>1, <3>1, <3>2 DEF Open, TrySteps, Goto, Rescue, Step, RecordEvent, RecordDuplicate, FindGuest,
         InsertGuest, ConfirmBooking, ConfirmConflict, ConfirmRejected, AuditConfirmed, InsertRef, FindRef,
         CancelBooking, EmitConflict, AuditConflict, InsertBlock, InsertBlockRefused, RemoveBlock
    <3> QED
      BY <1>1, <3>1, <3>3 DEF Owns, Delivers
  <2> QED
    BY <2>2, <2>3
<1>3. CASE webhook[e] # "received"
  <2>1. Delivers(r) /\ call[r].event = e
    BY <1>3, StepKeeps
  <2>2. RecordEvent(r)
    BY <1>1, <1>3, <2>1 DEF Step, database, RecordDuplicate, FindGuest, InsertGuest, ConfirmBooking,
       ConfirmConflict, ConfirmRejected, AuditConfirmed, InsertRef, FindRef, CancelBooking,
       MarkProcessed, MarkConflict, MarkFailed, MarkWebhook,
       EmitConflict, AuditConflict, InsertBlock, InsertBlockRefused, RemoveBlock
  <2>3. pc'[r] \in Open
    BY <1>1, <2>2 DEF RecordEvent, Goto, Open, TrySteps
  <2> QED
    BY <1>1, <2>1, <2>3 DEF Owns, Delivers
<1> QED
  BY <1>2, <1>3

(* A call that begins, fails or dies touches no event and no booking. *)
LEMMA StartKeepsIngest ==
  ASSUME IngestInv, NEW r \in Requests, NEW c \in Calls, Start(r, c)
  PROVE  DeliveriesInOrder' /\ RecordedOutcomesAreTrue' /\ ReceivedEventsHaveAnOwner'
<1>1. /\ UNCHANGED <<found, booking, extRef, webhook, faults>>
      /\ pc[r] = "idle" /\ call[r] = None /\ booking[r] = None
      /\ pc'[r] \in {"record", "confirm", "insertBlock", "deleteBlock"}
      /\ call'[r] = c /\ (Delivers(r)' => pc'[r] = "record")
      /\ \A q \in Requests : q # r => pc'[q] = pc[q] /\ call'[q] = call[q]
  <2>1. c \in CallType
    BY CallsAssumption
  <2>2. /\ FirstStep[c.kind] \in {"record", "confirm", "insertBlock", "deleteBlock"}
        /\ c.kind = "deliver" => FirstStep[c.kind] = "record"
    BY <2>1, CallShape DEF FirstStep
  <2> QED
    BY <2>2 DEF Start, Goto, database, Delivers, IngestInv, LedgerInv, TypeOK, StepsFitCalls, RowsFollowSteps, Early
<1>2. DeliveriesInOrder'
  BY <1>1 DEF IngestInv, DeliveriesInOrder, InOrder, Delivers, PayloadOf, Open, TrySteps
<1>3. \A x \in Refs : extRef[x] # None => extRef[x] \in Requests \ {r}
  BY <1>1 DEF IngestInv, LedgerInv, NamesExist, TypeOK
<1>4. RecordedOutcomesAreTrue'
  <2> SUFFICES ASSUME NEW e \in Events PROVE OutcomeIsTrue(e)'
    BY DEF RecordedOutcomesAreTrue
  <2>1. OutcomeIsTrue(e) /\ Payload[e].ref \in Refs
    BY PayloadAssumption DEF IngestInv, RecordedOutcomesAreTrue, PayloadType
  <2> QED
    BY <1>1, <1>3, <2>1 DEF OutcomeIsTrue, Delivers
<1>5. ReceivedEventsHaveAnOwner'
  <2> SUFFICES ASSUME NEW e \in Events, webhook[e] = "received"
               PROVE  \E q \in Requests : Owns(q, e)'
    BY <1>1 DEF ReceivedEventsHaveAnOwner, Owns, Open
  <2>1. PICK q \in Requests : Owns(q, e)
    BY OwnersAre DEF IngestInv
  <2> QED
    BY <1>1, <2>1 DEF Owns, Delivers
<1> QED
  BY <1>2, <1>4, <1>5

LEMMA FaultKeepsIngest ==
  ASSUME IngestInv, NEW r \in Requests, StepFails(r) \/ Die(r)
  PROVE  DeliveriesInOrder' /\ RecordedOutcomesAreTrue' /\ ReceivedEventsHaveAnOwner'
<1>1. /\ UNCHANGED <<call, found, booking, extRef, webhook>> /\ faults' > 0
      /\ \A q \in Requests : q # r => pc'[q] = pc[q]
      /\ pc'[r] \in {"markFailed", "error", "dead"}
      /\ pc'[r] = "markFailed" => pc[r] \in TrySteps
  BY FaultsAssumption DEF StepFails, Die, Rescue, Goto, database, IngestInv, LedgerInv, TypeOK
<1>2. DeliveriesInOrder'
  <2> SUFFICES ASSUME NEW q \in Requests, Delivers(q)
               PROVE  InOrder(q)'
    BY <1>1 DEF DeliveriesInOrder, Delivers
  <2>1. InOrder(q) /\ PayloadOf(q)' = PayloadOf(q)
    BY <1>1 DEF IngestInv, DeliveriesInOrder, PayloadOf
  <2>2. pc'[q] \in Open => pc[q] \in Open
    BY <1>1 DEF Open, TrySteps
  <2>3. pc'[q] = pc[q] \/ pc'[q] \in {"markFailed", "error", "dead"}
    BY <1>1
  <2> QED
    BY <1>1, <2>1, <2>2, <2>3 DEF InOrder
<1>3. RecordedOutcomesAreTrue'
  <2> SUFFICES ASSUME NEW e \in Events PROVE OutcomeIsTrue(e)'
    BY DEF RecordedOutcomesAreTrue
  <2>1. OutcomeIsTrue(e)
    BY DEF IngestInv, RecordedOutcomesAreTrue
  <2> QED
    BY <1>1, <2>1 DEF OutcomeIsTrue, Delivers
<1>4. ReceivedEventsHaveAnOwner'
  <2> SUFFICES ASSUME NEW e \in Events, webhook[e] = "received"
               PROVE  \E q \in Requests : Owns(q, e)'
    BY <1>1 DEF ReceivedEventsHaveAnOwner, Owns, Open
  <2>1. PICK q \in Requests : Owns(q, e)
    BY OwnersAre DEF IngestInv
  <2> QED
    BY <1>1, <2>1 DEF Owns, Delivers, Open
<1> QED
  BY <1>2, <1>3, <1>4

LEMMA IngestInit == Init => IngestInv
<1> SUFFICES ASSUME Init PROVE IngestInv
  OBVIOUS
<1>1. LedgerInv
  BY LedgerInit
<1>2. OneTaker /\ DeliveriesInOrder /\ RecordedOutcomesAreTrue /\ ReceivedEventsHaveAnOwner
  BY NoneDiffers DEF Init, OneTaker, Took, DeliveriesInOrder, RecordedOutcomesAreTrue, OutcomeIsTrue,
     ReceivedEventsHaveAnOwner, Delivers
<1> QED
  BY <1>1, <1>2 DEF IngestInv

LEMMA IngestNext == IngestInv /\ [Next]_vars => IngestInv'
<1> SUFFICES ASSUME IngestInv, [Next]_vars PROVE IngestInv'
  OBVIOUS
<1>1. LedgerInv' /\ OneTaker'
  BY LedgerNext, TakerNext DEF IngestInv
<1>2. ASSUME NEW r \in Requests, Step(r)
      PROVE  DeliveriesInOrder' /\ RecordedOutcomesAreTrue' /\ ReceivedEventsHaveAnOwner'
  <2>1. \A q \in Requests : Delivers(q)' = Delivers(q)
    BY <1>2, StepFrame DEF IngestInv, LedgerInv, Delivers
  <2>2. DeliveriesInOrder'
    <3> SUFFICES ASSUME NEW q \in Requests, Delivers(q)'
                 PROVE  InOrder(q)'
      BY DEF DeliveriesInOrder
    <3>1. Delivers(q)
      BY <2>1
    <3> QED
      BY <1>2, <3>1, OthersInOrder, ActorInOrder
  <2>3. ReceivedEventsHaveAnOwner'
    <3> SUFFICES ASSUME NEW e \in Events, webhook'[e] = "received"
                 PROVE  \E q \in Requests : Owns(q, e)'
      BY DEF ReceivedEventsHaveAnOwner, Owns, Open
    <3> QED
      BY <1>2, OwnersStep
  <2> QED
    BY <1>2, <2>2, <2>3, OutcomesStep
<1>3. CASE UNCHANGED vars
  <2>1. UNCHANGED <<pc, call, found, booking, extRef, webhook, faults>>
    BY <1>3 DEF vars, database
  <2>2. DeliveriesInOrder'
    BY <2>1 DEF IngestInv, DeliveriesInOrder, InOrder, PayloadOf, Delivers
  <2>3. RecordedOutcomesAreTrue'
    <3> SUFFICES ASSUME NEW e \in Events PROVE OutcomeIsTrue(e)'
      BY DEF RecordedOutcomesAreTrue
    <3>1. OutcomeIsTrue(e)
      BY DEF IngestInv, RecordedOutcomesAreTrue
    <3> QED
      BY <2>1, <3>1 DEF OutcomeIsTrue, Delivers
  <2>4. ReceivedEventsHaveAnOwner'
    BY <2>1 DEF IngestInv, ReceivedEventsHaveAnOwner, Delivers
  <2> QED
    BY <1>1, <2>2, <2>3, <2>4 DEF IngestInv
<1>4. ASSUME NEW r \in Requests, (\E c \in Calls : Start(r, c)) \/ StepFails(r) \/ Die(r)
      PROVE  DeliveriesInOrder' /\ RecordedOutcomesAreTrue' /\ ReceivedEventsHaveAnOwner'
  BY <1>4, StartKeepsIngest, FaultKeepsIngest
<1> QED
  BY <1>1, <1>2, <1>3, <1>4 DEF IngestInv, Next

LEMMA IngestCorrect == Spec => []IngestInv
BY IngestInit, IngestNext, PTL DEF Spec

(* A caller of confirm is misled only by a fault of its own. *)
MisledStep ==
  \/ Misled' \subseteq Misled /\ faults' = faults
  \/ faults' = faults + 1 /\ \E x : Misled' \subseteq Misled \cup {x}

ToldTrue(r) ==
  Confirms(r) => /\ pc[r] = "ok" => booking[r] # None
                 /\ pc[r] = "conflict" => booking[r] = None

AnswersInv == (\A r \in Requests : ToldTrue(r)) /\ IsFiniteSet(Misled) /\ Cardinality(Misled) <= faults

LEMMA StepAnswers ==
  ASSUME IngestInv, \A q \in Requests : ToldTrue(q), NEW r \in Requests, Step(r)
  PROVE  (\A q \in Requests : ToldTrue(q)') /\ MisledStep
<1> USE DEF IngestInv, LedgerInv
<1>1. /\ call' = call /\ \A q \in Requests : Confirms(q)' = Confirms(q)
      /\ \A q \in Requests : q # r => pc'[q] = pc[q]
  BY StepFrame DEF Confirms
<1>2. \A q \in Requests : q # r => (booking'[q] = None) = (booking[q] = None)
  BY StepKeeps
<1>3. ASSUME Confirms(r)
      PROVE  /\ pc'[r] = "ok" => booking'[r] # None
             /\ pc'[r] \in {"conflict", "error", "dead"} => booking'[r] = None
  <2>1. ~Delivers(r) /\ call[r] # None /\ call[r].kind = "confirm"
    BY <1>3 DEF Confirms, Delivers
  <2>2. pc[r] \in {"confirm", "audit"}
    BY <2>1 DEF StepsFitCalls, Working, TrySteps, Step, RecordEvent, RecordDuplicate, FindGuest, InsertGuest,
       ConfirmBooking, ConfirmConflict, ConfirmRejected, AuditConfirmed, InsertRef, FindRef, CancelBooking,
       MarkProcessed, MarkConflict, MarkFailed, MarkWebhook, EmitConflict, AuditConflict, InsertBlock,
       InsertBlockRefused, RemoveBlock
  <2>3. CASE pc[r] = "confirm"
    <3>1. booking[r] = None
      BY <2>3 DEF RowsFollowSteps, Early
    <3>2. ConfirmBooking(r) \/ ConfirmConflict(r) \/ ConfirmRejected(r)
      BY <2>3 DEF Step, RecordEvent, RecordDuplicate, FindGuest, InsertGuest,
         AuditConfirmed, InsertRef, FindRef, CancelBooking, MarkProcessed, MarkConflict, MarkFailed,
         MarkWebhook, EmitConflict, AuditConflict, InsertBlock, InsertBlockRefused, RemoveBlock
    <3> QED
      BY <2>1, <2>3, <3>1, <3>2 DEF TypeOK, ConfirmBooking, ConfirmConflict, ConfirmRejected, Rescue, Goto, database
  <2>4. CASE pc[r] = "audit"
    <3>1. booking[r] # None
      BY <2>4 DEF NamesExist
    <3>2. AuditConfirmed(r)
      BY <2>4 DEF Step, RecordEvent, RecordDuplicate, FindGuest, InsertGuest,
         ConfirmBooking, ConfirmConflict, ConfirmRejected, InsertRef, FindRef, CancelBooking, MarkProcessed,
         MarkConflict, MarkFailed, MarkWebhook, EmitConflict, AuditConflict, InsertBlock, InsertBlockRefused, RemoveBlock
    <3> QED
      BY <2>1, <3>1, <3>2 DEF TypeOK, AuditConfirmed, Goto, database
  <2> QED
    BY <2>2, <2>3, <2>4
<1>4. \A q \in Requests : ToldTrue(q)'
  BY <1>1, <1>2, <1>3 DEF ToldTrue
<1>5. \A q \in Misled' : q \in Misled
  BY <1>1, <1>2, <1>3 DEF Misled
<1>6. faults' = faults
  BY DEF Step, RecordEvent, RecordDuplicate, FindGuest, InsertGuest, ConfirmBooking, ConfirmConflict,
     ConfirmRejected, AuditConfirmed, InsertRef, FindRef, CancelBooking, MarkProcessed, MarkConflict,
     MarkFailed, MarkWebhook, EmitConflict, AuditConflict, InsertBlock, InsertBlockRefused, RemoveBlock
<1> QED
  BY <1>4, <1>5, <1>6 DEF MisledStep

LEMMA OthersAnswers ==
  ASSUME IngestInv, \A q \in Requests : ToldTrue(q), NEW r \in Requests,
         (\E c \in Calls : Start(r, c)) \/ StepFails(r) \/ Die(r)
  PROVE  (\A q \in Requests : ToldTrue(q)') /\ MisledStep
<1> USE DEF IngestInv, LedgerInv, TypeOK
<1>1. ASSUME NEW c \in Calls, Start(r, c)
      PROVE  (\A q \in Requests : ToldTrue(q)') /\ MisledStep
  <2>1. FirstStep[c.kind] \in {"record", "confirm", "insertBlock", "deleteBlock"}
    BY CallShape, CallsAssumption
  <2>2. /\ UNCHANGED <<booking, faults>> /\ pc'[r] \in {"record", "confirm", "insertBlock", "deleteBlock"}
        /\ \A q \in Requests : q # r => pc'[q] = pc[q] /\ Confirms(q)' = Confirms(q)
    BY <1>1, <2>1 DEF Start, Goto, database, Confirms
  <2>3. \A q \in Misled' : q \in Misled
    BY <2>2 DEF Misled
  <2> QED
    BY <2>2, <2>3 DEF ToldTrue, MisledStep
<1>2. CASE StepFails(r) \/ Die(r)
  <2>1. /\ UNCHANGED <<booking, call>> /\ pc'[r] \in {"markFailed", "error", "dead"} /\ faults' = faults + 1
        /\ \A q \in Requests : q # r => pc'[q] = pc[q]
    BY <1>2 DEF StepFails, Die, Rescue, Goto, database
  <2>2. \A q \in Misled' : q \in Misled \cup {r}
    BY <2>1 DEF Misled, Confirms
  <2> QED
    BY <2>1, <2>2 DEF ToldTrue, MisledStep, Confirms
<1> QED
  BY <1>1, <1>2

LEMMA AnswersNext == IngestInv /\ AnswersInv /\ [Next]_vars => AnswersInv'
<1> SUFFICES ASSUME IngestInv, AnswersInv, [Next]_vars PROVE AnswersInv'
  OBVIOUS
<1>1. (\A q \in Requests : ToldTrue(q)') /\ MisledStep
  <2>1. CASE UNCHANGED vars
    BY <2>1 DEF vars, database, AnswersInv, ToldTrue, Confirms, MisledStep, Misled
  <2>2. ASSUME NEW r \in Requests, Step(r) PROVE (\A q \in Requests : ToldTrue(q)') /\ MisledStep
    BY <2>2, StepAnswers DEF AnswersInv
  <2>3. ASSUME NEW r \in Requests, (\E c \in Calls : Start(r, c)) \/ StepFails(r) \/ Die(r)
        PROVE  (\A q \in Requests : ToldTrue(q)') /\ MisledStep
    BY <2>3, OthersAnswers DEF AnswersInv
  <2> QED
    BY <2>1, <2>2, <2>3 DEF Next
<1>2. faults \in Nat /\ Cardinality(Misled) \in Nat /\ IsFiniteSet(Misled) /\ Cardinality(Misled) <= faults
  BY FS_CardinalityType DEF IngestInv, LedgerInv, TypeOK, AnswersInv
<1>3. CASE Misled' \subseteq Misled /\ faults' = faults
  <2>1. IsFiniteSet(Misled') /\ Cardinality(Misled') <= Cardinality(Misled) /\ Cardinality(Misled') \in Nat
    BY <1>2, <1>3, FS_Subset, FS_CardinalityType
  <2> QED
    BY <1>1, <1>2, <1>3, <2>1 DEF AnswersInv
<1>4. ASSUME NEW x, faults' = faults + 1, Misled' \subseteq Misled \cup {x}
      PROVE  AnswersInv'
  <2>1. /\ IsFiniteSet(Misled \cup {x})
        /\ Cardinality(Misled \cup {x}) \in {Cardinality(Misled), Cardinality(Misled) + 1}
    BY <1>2, FS_AddElement
  <2>2. /\ IsFiniteSet(Misled') /\ Cardinality(Misled') \in Nat
        /\ Cardinality(Misled') <= Cardinality(Misled \cup {x})
    BY <1>4, <2>1, FS_Subset, FS_CardinalityType
  <2> QED
    BY <1>1, <1>2, <1>4, <2>1, <2>2 DEF AnswersInv
<1> QED
  BY <1>1, <1>3, <1>4 DEF MisledStep

(* What webhook_events says of an event, and what confirm tells a direct
   caller, is what happened to the booking, whatever deliveries, cancellations
   and failures cross; who is told of a failure of a booking that stands is
   told so by a fault. *)
THEOREM OutcomesTrue == Spec => []OutcomesAreTrue
<1>1. Init => AnswersInv
  <2> SUFFICES ASSUME Init PROVE AnswersInv
    OBVIOUS
  <2>1. Misled = {} /\ faults = 0 /\ \A r \in Requests : ToldTrue(r)
    BY DEF Init, Misled, ToldTrue, Confirms
  <2> QED
    BY <2>1, FS_EmptySet DEF AnswersInv
<1>2. IngestInv /\ AnswersInv => OutcomesAreTrue
  BY DEF IngestInv, AnswersInv, OutcomesAreTrue, AnswersAreTrue, ToldTrue
<1> QED
  BY <1>1, <1>2, AnswersNext, IngestCorrect, PTL DEF Spec

(* An event is left open only by the delivery that recorded it, and only
   because it failed or died. *)
THEOREM ReceivedOwned == Spec => []ReceivedEventsHaveAnOwner
BY IngestCorrect, PTL DEF IngestInv
=============================================================================
