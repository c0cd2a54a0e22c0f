------------------------------- MODULE Billing -------------------------------
(***************************************************************************)
(* Payouts to staff and vendors and the subscription of an organization:   *)
(* BillingService, its payment provider and the billing page.              *)
(*                                                                         *)
(* A payout is a row, a transfer and an update with nothing around them:   *)
(* the money moves between two transactions.  A bill is what a user wants  *)
(* to pay once: the form stays open after an error, and the user sends it  *)
(* again.  A checkout looks for the organization's row and then updates or *)
(* inserts one, and nothing stops two of them from looking at once.        *)
(***************************************************************************)
EXTENDS Naturals, FiniteSets

CONSTANTS
  Bills,      \* what users want to pay, one form each
  Unknown,    \* bills whose payee is no staff row and no vendor row
  Worthless,  \* bills of an amount that rounds to zero cents
  Payouts,    \* calls of createPayout, one shot each; also the rows they insert
  Checkouts,  \* calls of checkout, one shot each; also the rows they insert
  MaxFaults,  \* bound on calls cut off, failing writes and lost answers
  None

ASSUME BillsAssumption == Unknown \cup Worthless \subseteq Bills /\ IsFiniteSet(Payouts)
ASSUME NoneAssumption == None \notin Bills \cup Payouts \cup Checkouts
ASSUME FaultsAssumption == MaxFaults \in Nat

VARIABLES
  payout,    \* each createPayout call: where it is, for which bill
  row,       \* payouts.status of the row a call inserts
  moved,     \* calls whose money the provider has transferred
  waiting,   \* the call each form waits for, or None: its loading flag
  sent,      \* bills whose form closed with "Payout sent"
  checkout,  \* each checkout call: where it is, the rows there were when it
             \* began, the row it has found
  sub,       \* subscriptions.status, by the checkout that inserted the row
  shown,     \* what the page has loaded of the subscription
  cancels,   \* a cancellation is on its way
  faults

money == <<payout, row, moved, waiting, sent>>
plan == <<checkout, sub, shown, cancels>>
vars == <<money, plan, faults>>

Over == {"ok", "error", "gone"}
PayoutSteps == {"insert", "transfer", "update", "audit", "catch"}
RowStatus == {"none", "pending", "paid", "failed"}
SubStatus == {"none", "active", "cancelled"}

Init ==
  /\ payout = [p \in Payouts |-> [at |-> "idle", bill |-> None]]
  /\ row = [p \in Payouts |-> "none"]
  /\ moved = {} /\ sent = {}
  /\ waiting = [b \in Bills |-> None]
  /\ checkout = [c \in Checkouts |-> [at |-> "idle", had |-> {}, found |-> None]]
  /\ sub = [c \in Checkouts |-> "none"]
  /\ shown = "none" /\ cancels = FALSE
  /\ faults = 0

----------------------------------------------------------------------------
(* Payouts. *)

(* Mutant of SubmitPayout: the button does not wait for an answer. *)
SubmitTwice(p, b) ==
  /\ payout[p].at = "idle" /\ b \notin sent
  /\ payout' = [payout EXCEPT ![p] = [at |-> "insert", bill |-> b]]
  /\ waiting' = [waiting EXCEPT ![b] = p]
  /\ UNCHANGED <<row, moved, sent, plan, faults>>

(* PayoutForm's submit: the button is disabled while an answer is awaited. *)
SubmitPayout(p, b) ==
  /\ payout[p].at = "idle" /\ waiting[b] = None /\ b \notin sent
  /\ payout' = [payout EXCEPT ![p] = [at |-> "insert", bill |-> b]]
  /\ waiting' = [waiting EXCEPT ![b] = p]
  /\ UNCHANGED <<row, moved, sent, plan, faults>>

Go(p, from, to) == payout[p].at = from /\ payout' = [payout EXCEPT ![p].at = to]

PayeeNotFound(p) ==
  /\ Go(p, "insert", "error") /\ payout[p].bill \in Unknown
  /\ UNCHANGED <<row, moved, waiting, sent, plan, faults>>

InsertPending(p) ==
  /\ Go(p, "insert", "transfer") /\ payout[p].bill \notin Unknown
  /\ row' = [row EXCEPT ![p] = "pending"]
  /\ UNCHANGED <<moved, waiting, sent, plan, faults>>

(* The provider refuses what is not a positive number of cents. *)
Transfer(p) ==
  /\ IF payout[p].bill \in Worthless
     THEN Go(p, "transfer", "catch") /\ UNCHANGED moved
     ELSE Go(p, "transfer", "update") /\ moved' = moved \cup {p}
  /\ UNCHANGED <<row, waiting, sent, plan, faults>>

MarkPaid(p) ==
  /\ Go(p, "update", "audit")
  /\ row' = [row EXCEPT ![p] = "paid"]
  /\ UNCHANGED <<moved, waiting, sent, plan, faults>>

RecordPayout(p) ==
  /\ Go(p, "audit", "ok")
  /\ UNCHANGED <<row, moved, waiting, sent, plan, faults>>

(* Mutant of MarkFailed: the catch rethrows and leaves the row. *)
Rethrow(p) ==
  /\ Go(p, "catch", "error")
  /\ UNCHANGED <<row, moved, waiting, sent, plan, faults>>

(* The catch: whatever was thrown, the transfer or what came after it. *)
MarkFailed(p) ==
  /\ Go(p, "catch", "error")
  /\ row' = [row EXCEPT ![p] = "failed"]
  /\ UNCHANGED <<moved, waiting, sent, plan, faults>>

Fault == faults < MaxFaults /\ faults' = faults + 1

(* A database call throws, inside the try or outside it. *)
PayoutThrows(p) ==
  /\ Fault
  /\ \/ Go(p, "insert", "error") \/ Go(p, "catch", "error")
     \/ Go(p, "update", "catch") \/ Go(p, "audit", "catch")
  /\ UNCHANGED <<row, moved, waiting, sent, plan>>

(* The API stops: the call ends where it is. *)
PayoutCutOff(p) ==
  /\ Fault
  /\ \E s \in PayoutSteps : Go(p, s, "gone")
  /\ UNCHANGED <<row, moved, waiting, sent, plan>>

(* The form closes on an answer and stays open on an error. *)
Answered(b) ==
  /\ waiting[b] # None /\ payout[waiting[b]].at \in Over
  /\ sent' = IF payout[waiting[b]].at = "ok" THEN sent \cup {b} ELSE sent
  /\ waiting' = [waiting EXCEPT ![b] = None]
  /\ UNCHANGED <<payout, row, moved, plan, faults>>

(* The connection breaks: an error to the form, whatever the server does. *)
AnswerLost(b) ==
  /\ waiting[b] # None /\ Fault
  /\ waiting' = [waiting EXCEPT ![b] = None]
  /\ UNCHANGED <<payout, row, moved, sent, plan>>

----------------------------------------------------------------------------
(* The subscription. *)

Rows == {c \in Checkouts : sub[c] # "none"}

(* getSubscription returns some row of the organization. *)
LoadSubscription ==
  /\ shown' \in IF Rows = {} THEN {"none"} ELSE {sub[c] : c \in Rows}
  /\ shown' # shown
  /\ UNCHANGED <<money, checkout, sub, cancels, faults>>

(* Each plan of the dialog has a button, and a loading flag, of its own. *)
ClickPlan(c) ==
  /\ checkout[c].at = "idle" /\ shown = "none"
  /\ checkout' = [checkout EXCEPT ![c] = [at |-> "look", had |-> Rows, found |-> None]]
  /\ UNCHANGED <<money, sub, shown, cancels, faults>>

(* Mutant of FindRow: the look finds nothing. *)
FindNone(c) ==
  /\ checkout[c].at = "look"
  /\ checkout' = [checkout EXCEPT ![c].at = "write", ![c].found = None]
  /\ UNCHANGED <<money, sub, shown, cancels, faults>>

(* The provider has activated the plan; the transaction reads committed. *)
FindRow(c) ==
  /\ checkout[c].at = "look"
  /\ \E f \in IF Rows = {} THEN {None} ELSE Rows :
       checkout' = [checkout EXCEPT ![c].at = "write", ![c].found = f]
  /\ UNCHANGED <<money, sub, shown, cancels, faults>>

WriteRow(c) ==
  /\ checkout[c].at = "write"
  /\ sub' = [sub EXCEPT ![IF checkout[c].found = None THEN c ELSE checkout[c].found] = "active"]
  /\ checkout' = [checkout EXCEPT ![c].at = "audit"]
  /\ UNCHANGED <<money, shown, cancels, faults>>

RecordCheckout(c) ==
  /\ checkout[c].at = "audit"
  /\ checkout' = [checkout EXCEPT ![c].at = "ok"]
  /\ UNCHANGED <<money, sub, shown, cancels, faults>>

CheckoutThrows(c) ==
  /\ checkout[c].at \in {"look", "write", "audit"} /\ Fault
  /\ checkout' = [checkout EXCEPT ![c].at = "error"]
  /\ UNCHANGED <<money, sub, shown, cancels>>

(* Every row of the organization, and no word to the provider. *)
SetAll(status) == sub' = [c \in Checkouts |-> IF c \in Rows THEN status ELSE "none"]

ClickCancel ==
  /\ shown = "active" /\ ~cancels /\ cancels' = TRUE
  /\ UNCHANGED <<money, checkout, sub, shown, faults>>

Cancel ==
  /\ cancels /\ cancels' = FALSE
  /\ SetAll("cancelled")
  /\ UNCHANGED <<money, checkout, shown, faults>>

(* invoice.paid and subscription.cancelled, at any time, any number of times. *)
ProviderEvent ==
  /\ \E status \in {"active", "cancelled"} : SetAll(status)
  /\ UNCHANGED <<money, checkout, shown, cancels, faults>>

----------------------------------------------------------------------------
PayoutStep(p) ==
  \/ PayeeNotFound(p) \/ InsertPending(p) \/ Transfer(p) \/ MarkPaid(p)
  \/ RecordPayout(p) \/ MarkFailed(p)

Next ==
  \/ \E p \in Payouts : PayoutStep(p) \/ PayoutThrows(p) \/ PayoutCutOff(p)
  \/ \E p \in Payouts, b \in Bills : SubmitPayout(p, b)
  \/ \E b \in Bills : Answered(b) \/ AnswerLost(b)
  \/ \E c \in Checkouts : ClickPlan(c) \/ FindRow(c) \/ WriteRow(c) \/ RecordCheckout(c) \/ CheckoutThrows(c)
  \/ LoadSubscription \/ ClickCancel \/ Cancel \/ ProviderEvent

Spec == Init /\ [][Next]_vars

----------------------------------------------------------------------------
(* Calls and rows have their types. *)
TypeOK ==
  /\ payout \in [Payouts -> [at : {"idle"} \cup PayoutSteps \cup Over, bill : Bills \cup {None}]]
  /\ row \in [Payouts -> RowStatus]
  /\ moved \subseteq Payouts /\ sent \subseteq Bills
  /\ waiting \in [Bills -> Payouts \cup {None}]
  /\ checkout \in [Checkouts -> [at : {"idle", "look", "write", "audit", "ok", "error"},
                                 had : SUBSET Checkouts, found : Checkouts \cup {None}]]
  /\ sub \in [Checkouts -> SubStatus]
  /\ shown \in SubStatus /\ cancels \in BOOLEAN
  /\ faults \in Nat

(* The payouts of a bill whose money has moved. *)
PaidFor(b) == {p \in moved : payout[p].bill = b}

(* A bill is paid more than once only as often as something failed: a user *)
(* who sends the form until it says so, and a form that can be sent again  *)
(* after an error, do not pay twice by themselves.                         *)
PaidTwiceOnlyByFaults == \A b \in Bills : Cardinality(PaidFor(b)) <= 1 + faults

(* When a call is over, its row says whether the money moved; each row     *)
(* that says something else, or is pending for ever, took a fault.         *)
BooksWrongOnlyByFaults ==
  Cardinality({p \in Payouts :
    payout[p].at \in Over /\ row[p] # "none" /\ row[p] # IF p \in moved THEN "paid" ELSE "failed"})
  <= faults

(* An organization gets a second subscription row only from checkouts that *)
(* overlap: one that began when there was a row never inserts another,     *)
(* however stale the page it was clicked on.                               *)
SecondPlanOnlyByOverlap ==
  \A c, d \in Rows : c # d => c \notin checkout[d].had
=============================================================================
