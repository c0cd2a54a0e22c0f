---------------------------- MODULE OfficeProofs ----------------------------
(***************************************************************************)
(* What holds of Billing, Notifications and Pricing for any bills, calls,  *)
(* keys, channels, rules and clicks and any number of faults.              *)
(***************************************************************************)
EXTENDS Billing, Notifications, Pricing, FiniteSetTheorems, TLAPS

(* The payouts of a bill whose money has moved or still may. *)
MayMove(b) == {p \in Payouts : /\ payout[p].bill = b
                               /\ p \in moved \/ payout[p].at \in {"insert", "transfer"}}

(* Those of them that no answer "ok" is to come for on the form. *)
Loose(b) == {p \in MayMove(b) : waiting[b] # p \/ payout[p].at \in {"catch", "error", "gone"}}

(* What a payout's step tells of its row and of its money. *)
PayoutsAdvance ==
  \A p \in Payouts :
    LET at == payout[p].at IN
    /\ at \in {"idle", "insert"} => row[p] = "none"
    /\ at \in {"idle", "insert", "transfer"} => p \notin moved
    /\ at \in {"update", "audit", "ok"} => p \in moved
    /\ at \in {"audit", "ok"} => row[p] = "paid"
    /\ at = "transfer" \/ p \in moved => row[p] # "none"

(* The payouts whose row is wrong, or will be when their call is over. *)
Wrong == {p \in Payouts : \/ /\ payout[p].at \in Over /\ row[p] # "none"
                             /\ row[p] # IF p \in moved THEN "paid" ELSE "failed"
                          \/ payout[p].at = "catch" /\ p \in moved}

LooseBounded ==
  \A b \in Bills : IF b \in sent THEN Cardinality(MayMove(b)) <= 1 + faults
                   ELSE Cardinality(Loose(b)) <= faults

BillingInv == TypeOK /\ PayoutsAdvance /\ LooseBounded /\ Cardinality(Wrong) <= faults

----------------------------------------------------------------------------
(* Counting payouts. *)

LEMMA FewerPayouts ==
  ASSUME NEW S \in SUBSET Payouts, NEW T \in SUBSET S
  PROVE  Cardinality(S) \in Nat /\ Cardinality(T) \in Nat /\ Cardinality(T) <= Cardinality(S)
<1>1. IsFiniteSet(S)
  BY BillsAssumption, FS_Subset
<1>2. IsFiniteSet(T) /\ Cardinality(T) <= Cardinality(S)
  BY <1>1, FS_Subset
<1> QED
  BY <1>1, <1>2, FS_CardinalityType

LEMMA OnePayoutMore ==
  ASSUME NEW S \in SUBSET Payouts, NEW p \in Payouts, NEW T \in SUBSET (S \cup {p})
  PROVE  Cardinality(T) <= Cardinality(S) + 1
<1>1. IsFiniteSet(S)
  BY BillsAssumption, FS_Subset
<1>2. Cardinality(S) \in Nat /\ Cardinality(S) <= Cardinality(S) + 1
  BY <1>1, FS_CardinalityType
<1>3. Cardinality(S \cup {p}) <= Cardinality(S) + 1
  <2>1. Cardinality(S \cup {p}) = IF p \in S THEN Cardinality(S) ELSE Cardinality(S) + 1
    BY <1>1, FS_AddElement, Zenon
  <2> QED
    BY <1>2, <2>1
<1>4. /\ Cardinality(T) \in Nat /\ Cardinality(S \cup {p}) \in Nat
      /\ Cardinality(T) <= Cardinality(S \cup {p})
  BY FewerPayouts
<1> QED
  BY <1>2, <1>3, <1>4

LEMMA MayMoveIsLooseOrAwaited ==
  ASSUME NEW b \in Bills
  PROVE  Cardinality(MayMove(b)) <= Cardinality(Loose(b)) + 1
<1>1. CASE waiting[b] \in Payouts
  BY <1>1, OnePayoutMore DEF MayMove, Loose
<1>2. CASE waiting[b] \notin Payouts
  <2>1. MayMove(b) = Loose(b)
    BY <1>2 DEF MayMove, Loose
  <2> QED
    BY <2>1, FewerPayouts DEF MayMove
<1> QED
  BY <1>1, <1>2

LEMMA BillingInit == Init => BillingInv
<1> SUFFICES ASSUME Init PROVE BillingInv
  OBVIOUS
<1>1. TypeOK
  BY DEF Init, TypeOK, RowStatus, SubStatus
<1>2. PayoutsAdvance
  BY DEF Init, PayoutsAdvance
<1>3. Wrong = {} /\ \A b \in Bills : Loose(b) = {}
  BY DEF Init, Wrong, Loose, MayMove, Over
<1>4. Cardinality(Wrong) = 0 /\ \A b \in Bills : b \notin sent /\ Cardinality(Loose(b)) = 0
  BY <1>3, FS_EmptySet, Zenon DEF Init
<1>5. faults = 0
  BY DEF Init
<1>6. LooseBounded /\ Cardinality(Wrong) <= faults
  BY <1>4, <1>5 DEF LooseBounded
<1> QED
  BY <1>1, <1>2, <1>6 DEF BillingInv

----------------------------------------------------------------------------
(* What each step of a payout does to its call, its row and its money. *)
LEMMA StepOfPayout ==
  ASSUME NEW p \in Payouts, PayoutStep(p) \/ PayoutThrows(p) \/ PayoutCutOff(p)
  PROVE  \E s \in PayoutSteps \cup Over : payout' = [payout EXCEPT ![p].at = s]
<1> DEFINE Goes(s) == payout' = [payout EXCEPT ![p].at = s]
<1>1. CASE PayoutStep(p)
  <2>1. Goes("error") \/ Goes("transfer") \/ Goes("catch") \/ Goes("update") \/ Goes("audit") \/ Goes("ok")
    BY <1>1 DEF PayoutStep, PayeeNotFound, InsertPending, Transfer, MarkPaid, RecordPayout, MarkFailed, Go
  <2> QED
    BY <2>1 DEF PayoutSteps, Over
<1>2. CASE PayoutThrows(p) \/ PayoutCutOff(p)
  <2>1. Goes("error") \/ Goes("catch") \/ Goes("gone")
    BY <1>2 DEF PayoutThrows, PayoutCutOff, Go
  <2> QED
    BY <2>1 DEF PayoutSteps, Over
<1> QED
  BY <1>1, <1>2

(* Calls and rows keep their types. *)
LEMMA BillingTypes == TypeOK /\ [Next]_vars => TypeOK'
<1> SUFFICES ASSUME TypeOK, [Next]_vars PROVE TypeOK'
  OBVIOUS
<1> USE FaultsAssumption DEF TypeOK, money, plan
<1>1. ASSUME NEW p \in Payouts, PayoutStep(p) \/ PayoutThrows(p) \/ PayoutCutOff(p)
      PROVE  TypeOK'
  <2>1. \E s \in PayoutSteps \cup Over : payout' = [payout EXCEPT ![p].at = s]
    BY <1>1, StepOfPayout
  <2>2. payout' \in [Payouts -> [at : {"idle"} \cup PayoutSteps \cup Over, bill : Bills \cup {None}]]
    BY <2>1
  <2>3. row' \in [Payouts -> RowStatus] /\ moved' \subseteq Payouts /\ faults' \in Nat
    BY <1>1 DEF PayoutStep, PayeeNotFound, InsertPending, Transfer, MarkPaid, RecordPayout, MarkFailed,
       PayoutThrows, PayoutCutOff, Fault, RowStatus
  <2>4. UNCHANGED <<waiting, sent, plan>>
    BY <1>1 DEF PayoutStep, PayeeNotFound, InsertPending, Transfer, MarkPaid, RecordPayout, MarkFailed,
       PayoutThrows, PayoutCutOff
  <2> QED
    BY <2>2, <2>3, <2>4
<1>2. ASSUME NEW p \in Payouts, NEW b \in Bills, SubmitPayout(p, b)
      PROVE  TypeOK'
  BY <1>2 DEF SubmitPayout, PayoutSteps
<1>3. ASSUME NEW b \in Bills, Answered(b) \/ AnswerLost(b)
      PROVE  TypeOK'
  BY <1>3 DEF Answered, AnswerLost, Fault
<1>4. ASSUME NEW c \in Checkouts, ClickPlan(c) \/ FindRow(c) \/ WriteRow(c) \/ RecordCheckout(c) \/ CheckoutThrows(c)
      PROVE  TypeOK'
  BY <1>4 DEF ClickPlan, FindRow, WriteRow, RecordCheckout, CheckoutThrows, Rows, SubStatus, Fault
<1>5. CASE LoadSubscription \/ ClickCancel \/ Cancel \/ ProviderEvent
  <2>1. CASE LoadSubscription
    BY <2>1 DEF LoadSubscription, Rows, SubStatus
  <2>2. CASE ClickCancel
    BY <2>2 DEF ClickCancel
  <2>3. CASE Cancel
    BY <2>3 DEF Cancel, SetAll, SubStatus
  <2>4. CASE ProviderEvent
    BY <2>4 DEF ProviderEvent, SetAll, SubStatus
  <2> QED
    BY <1>5, <2>1, <2>2, <2>3, <2>4
<1>6. CASE UNCHANGED vars
  BY <1>6 DEF vars
<1> QED
  BY <1>1, <1>2, <1>3, <1>4, <1>5, <1>6 DEF Next
LEMMA PayoutsAdvanceStep == TypeOK /\ PayoutsAdvance /\ [Next]_vars => PayoutsAdvance'
<1> SUFFICES ASSUME TypeOK, PayoutsAdvance, [Next]_vars PROVE PayoutsAdvance'
  OBVIOUS
<1> USE DEF TypeOK, PayoutsAdvance, money
<1>1. ASSUME NEW p \in Payouts, PayoutStep(p)
      PROVE  PayoutsAdvance'
  <2>1. CASE PayeeNotFound(p) BY <2>1 DEF PayeeNotFound, Go
  <2>2. CASE InsertPending(p) BY <2>2 DEF InsertPending, Go
  <2>3. CASE Transfer(p)
    <3>1. CASE payout[p].bill \in Worthless BY <2>3, <3>1 DEF Transfer, Go
    <3>2. CASE payout[p].bill \notin Worthless BY <2>3, <3>2 DEF Transfer, Go
    <3> QED BY <3>1, <3>2
  <2>4. CASE MarkPaid(p) BY <2>4 DEF MarkPaid, Go
  <2>5. CASE RecordPayout(p) BY <2>5 DEF RecordPayout, Go
  <2>6. CASE MarkFailed(p) BY <2>6 DEF MarkFailed, Go
  <2> QED
    BY <1>1, <2>1, <2>2, <2>3, <2>4, <2>5, <2>6 DEF PayoutStep
<1>2. ASSUME NEW p \in Payouts, PayoutThrows(p) \/ PayoutCutOff(p)
      PROVE  PayoutsAdvance'
  BY <1>2 DEF PayoutThrows, PayoutCutOff, Go
<1>3. ASSUME NEW p \in Payouts, NEW b \in Bills, SubmitPayout(p, b)
      PROVE  PayoutsAdvance'
  BY <1>3 DEF SubmitPayout
<1>4. (\E b \in Bills : Answered(b) \/ AnswerLost(b)) => UNCHANGED <<payout, row, moved>>
  BY DEF Answered, AnswerLost
<1>5. /\ (\E c \in Checkouts : ClickPlan(c) \/ FindRow(c) \/ WriteRow(c) \/ RecordCheckout(c) \/ CheckoutThrows(c)) => UNCHANGED money
      /\ LoadSubscription \/ ClickCancel \/ Cancel \/ ProviderEvent => UNCHANGED money
  BY DEF ClickPlan, FindRow, WriteRow, RecordCheckout, CheckoutThrows, LoadSubscription, ClickCancel, Cancel, ProviderEvent
<1>6. UNCHANGED vars => UNCHANGED money
  BY DEF vars
<1> QED
  BY <1>1, <1>2, <1>3, <1>4, <1>5, <1>6 DEF Next

----------------------------------------------------------------------------
(* Nothing failed: nothing is added to the payouts that count.             *)
Quiet ==
  /\ faults' = faults /\ Wrong' \subseteq Wrong
  /\ \A b \in Bills : IF b \in sent' THEN MayMove(b)' \subseteq MayMove(b)
                     ELSE b \notin sent /\ Loose(b)' \subseteq Loose(b)

(* A fault adds one payout.                                                *)
Faulty ==
  /\ faults' = faults + 1 /\ sent' = sent
  /\ \E p \in Payouts :
       /\ Wrong' \subseteq Wrong \cup {p}
       /\ \A b \in Bills : MayMove(b)' \subseteq MayMove(b) /\ Loose(b)' \subseteq Loose(b) \cup {p}

LEMMA QuietPreserves ==
  ASSUME BillingInv, Quiet
  PROVE  (LooseBounded /\ Cardinality(Wrong) <= faults)'
<1> USE DEF BillingInv, TypeOK
<1>1. Cardinality(Wrong') \in Nat /\ Cardinality(Wrong) \in Nat /\ Cardinality(Wrong') <= Cardinality(Wrong)
  BY FewerPayouts DEF Quiet, Wrong
<1>2. ASSUME NEW b \in Bills, b \in sent'
      PROVE  Cardinality(MayMove(b)') <= 1 + faults
  <2>1. /\ Cardinality(MayMove(b)') \in Nat /\ Cardinality(MayMove(b)) \in Nat
        /\ Cardinality(MayMove(b)') <= Cardinality(MayMove(b))
    BY <1>2, FewerPayouts DEF Quiet, MayMove
  <2>2. Cardinality(Loose(b)) \in Nat /\ Cardinality(MayMove(b)) <= Cardinality(Loose(b)) + 1
    BY MayMoveIsLooseOrAwaited, FewerPayouts DEF Loose, MayMove
  <2> QED
    BY <2>1, <2>2 DEF LooseBounded
<1>3. ASSUME NEW b \in Bills, b \notin sent'
      PROVE  Cardinality(Loose(b)') <= faults
  <2>1. /\ Cardinality(Loose(b)') \in Nat /\ Cardinality(Loose(b)) \in Nat
        /\ Cardinality(Loose(b)') <= Cardinality(Loose(b))
    BY <1>3, FewerPayouts DEF Quiet, Loose, MayMove
  <2> QED
    BY <1>3, <2>1 DEF LooseBounded, Quiet
<1>4. faults' = faults
  BY DEF Quiet
<1> QED
  BY <1>1, <1>2, <1>3, <1>4 DEF LooseBounded

LEMMA FaultyPreserves ==
  ASSUME BillingInv, Faulty
  PROVE  (LooseBounded /\ Cardinality(Wrong) <= faults)'
<1> USE DEF BillingInv, TypeOK
<1>1. PICK p \in Payouts :
        /\ Wrong' \subseteq Wrong \cup {p}
        /\ \A b \in Bills : MayMove(b)' \subseteq MayMove(b) /\ Loose(b)' \subseteq Loose(b) \cup {p}
  BY DEF Faulty
<1>2. Cardinality(Wrong) \in Nat /\ Cardinality(Wrong') <= Cardinality(Wrong) + 1
  BY <1>1, FewerPayouts, OnePayoutMore DEF Wrong
<1>3. ASSUME NEW b \in Bills
      PROVE  /\ Cardinality(MayMove(b)') \in Nat /\ Cardinality(MayMove(b)) \in Nat
             /\ Cardinality(MayMove(b)') <= Cardinality(MayMove(b))
  BY <1>1, FewerPayouts DEF MayMove
<1>4. ASSUME NEW b \in Bills
      PROVE  Cardinality(Loose(b)) \in Nat /\ Cardinality(Loose(b)') <= Cardinality(Loose(b)) + 1
  BY <1>1, FewerPayouts, OnePayoutMore DEF Loose, MayMove
<1>5. \A b \in Bills : Cardinality(Loose(b)') \in Nat
  BY FewerPayouts DEF Loose, MayMove
<1>6. Cardinality(Wrong') \in Nat
  BY FewerPayouts DEF Wrong
<1>7. faults' = faults + 1 /\ sent' = sent
  BY DEF Faulty
<1> QED
  BY <1>2, <1>3, <1>4, <1>5, <1>6, <1>7 DEF LooseBounded

(* Every step is quiet or faulty. *)
LEMMA PayoutStepsAreQuiet ==
  ASSUME BillingInv, NEW p \in Payouts, PayoutStep(p)
  PROVE  Quiet
<1> USE DEF BillingInv, TypeOK, PayoutsAdvance
<1>1. UNCHANGED <<waiting, sent, faults>> /\ \A q \in Payouts : payout'[q].bill = payout[q].bill
  BY DEF PayoutStep, PayeeNotFound, InsertPending, Transfer, MarkPaid, RecordPayout, MarkFailed, Go
<1>2. \A q \in Payouts \ {p} : payout'[q] = payout[q] /\ row'[q] = row[q] /\ (q \in moved' <=> q \in moved)
  BY DEF PayoutStep, PayeeNotFound, InsertPending, Transfer, MarkPaid, RecordPayout, MarkFailed, Go
<1>3. p \in moved' => p \in moved \/ payout[p].at = "transfer"
  BY DEF PayoutStep, PayeeNotFound, InsertPending, Transfer, MarkPaid, RecordPayout, MarkFailed, Go
<1>4. /\ payout'[p].at \in {"insert", "transfer"} => payout[p].at = "insert"
      /\ payout'[p].at \in {"catch", "error", "gone"} /\ p \in moved' => payout[p].at = "catch" /\ p \in moved
  BY DEF PayoutStep, PayeeNotFound, InsertPending, Transfer, MarkPaid, RecordPayout, MarkFailed, Go
<1>5. p \in Wrong' => p \in Wrong
  BY DEF Wrong, Over, PayoutStep, PayeeNotFound, InsertPending, Transfer, MarkPaid, RecordPayout, MarkFailed, Go
<1>6. Wrong' \subseteq Wrong
  BY <1>2, <1>5 DEF Wrong
<1>7. \A b \in Bills : MayMove(b)' \subseteq MayMove(b)
  BY <1>1, <1>2, <1>3, <1>4 DEF MayMove
<1>8. \A b \in Bills : Loose(b)' \subseteq Loose(b)
  BY <1>1, <1>2, <1>4, <1>7 DEF Loose, MayMove
<1> QED
  BY <1>1, <1>6, <1>7, <1>8 DEF Quiet

LEMMA PayoutFaults ==
  ASSUME BillingInv, NEW p \in Payouts, PayoutThrows(p) \/ PayoutCutOff(p)
  PROVE  Faulty
<1> USE DEF BillingInv, TypeOK
<1>1. /\ UNCHANGED <<waiting, sent, row, moved>> /\ faults' = faults + 1
      /\ \A q \in Payouts : payout'[q].bill = payout[q].bill
      /\ \A q \in Payouts \ {p} : payout'[q] = payout[q]
      /\ payout'[p].at \notin {"insert", "transfer"}
  BY DEF PayoutThrows, PayoutCutOff, Fault, Go
<1>2. Wrong' \subseteq Wrong \cup {p}
  BY <1>1 DEF Wrong
<1>3. \A b \in Bills : MayMove(b)' \subseteq MayMove(b)
  BY <1>1 DEF MayMove
<1>4. \A b \in Bills : Loose(b)' \subseteq Loose(b) \cup {p}
  BY <1>1 DEF Loose, MayMove
<1> QED
  BY <1>1, <1>2, <1>3, <1>4 DEF Faulty

LEMMA FormSteps ==
  ASSUME BillingInv, NEW b \in Bills,
         Answered(b) \/ AnswerLost(b) \/ \E p \in Payouts : SubmitPayout(p, b)
  PROVE  Quiet \/ Faulty
<1> USE DEF BillingInv, TypeOK, PayoutsAdvance
<1>1. ASSUME NEW p \in Payouts, SubmitPayout(p, b)
      PROVE  Quiet
  <2>1. /\ UNCHANGED <<row, moved, sent, faults>>
        /\ payout'[p] = [at |-> "insert", bill |-> b] /\ payout[p].at = "idle" /\ p \notin moved
        /\ \A q \in Payouts \ {p} : payout'[q] = payout[q]
        /\ waiting'[b] = p /\ waiting[b] = None /\ b \notin sent
        /\ \A c \in Bills \ {b} : waiting'[c] = waiting[c]
    BY <1>1 DEF SubmitPayout
  <2>2. Wrong' \subseteq Wrong
    BY <2>1 DEF Wrong, Over
  <2>3. \A c \in Bills \ {b} : MayMove(c)' \subseteq MayMove(c) /\ Loose(c)' \subseteq Loose(c)
    BY <2>1, SMTT(30) DEF MayMove, Loose
  <2>4. Loose(b)' \subseteq Loose(b)
    BY <2>1, NoneAssumption DEF MayMove, Loose
  <2> QED
    BY <2>1, <2>2, <2>3, <2>4 DEF Quiet
<1>2. CASE Answered(b)
  <2>1. /\ UNCHANGED <<payout, row, moved, faults>>
        /\ \A c \in Bills \ {b} : waiting'[c] = waiting[c] /\ (c \in sent' <=> c \in sent)
        /\ b \in sent => b \in sent'
        /\ b \notin sent' => payout[waiting[b]].at \in {"error", "gone"} /\ waiting[b] \in Payouts
    BY <1>2 DEF Answered, Over
  <2>2. Wrong' = Wrong /\ \A c \in Bills : MayMove(c)' = MayMove(c)
    BY <2>1 DEF Wrong, MayMove
  <2>3. \A c \in Bills : c \notin sent' => c \notin sent /\ Loose(c)' \subseteq Loose(c)
    BY <2>1, <2>2 DEF Loose
  <2> QED
    BY <2>1, <2>2, <2>3 DEF Quiet
<1>3. CASE AnswerLost(b)
  <2>1. /\ UNCHANGED <<payout, row, moved, sent>> /\ faults' = faults + 1
        /\ \A c \in Bills \ {b} : waiting'[c] = waiting[c]
        /\ waiting[b] \in Payouts
    BY <1>3 DEF AnswerLost, Fault
  <2>2. Wrong' = Wrong /\ \A c \in Bills : MayMove(c)' = MayMove(c)
    BY <2>1 DEF Wrong, MayMove
  <2>3. \A c \in Bills : Loose(c)' \subseteq Loose(c) \cup {waiting[b]}
    BY <2>1, <2>2 DEF Loose
  <2> QED
    BY <2>1, <2>2, <2>3 DEF Faulty
<1> QED
  BY <1>1, <1>2, <1>3
LEMMA BillingStep == BillingInv /\ [Next]_vars => BillingInv'
<1> SUFFICES ASSUME BillingInv, [Next]_vars PROVE BillingInv'
  OBVIOUS
<1>1. TypeOK' /\ PayoutsAdvance'
  BY BillingTypes, PayoutsAdvanceStep DEF BillingInv
<1>2. ASSUME UNCHANGED money, UNCHANGED faults \/ faults' = faults + 1
      PROVE  (LooseBounded /\ Cardinality(Wrong) <= faults)'
  <2>1. /\ Wrong' = Wrong /\ sent' = sent
        /\ \A b \in Bills : MayMove(b)' = MayMove(b) /\ Loose(b)' = Loose(b)
    BY <1>2 DEF money, Wrong, MayMove, Loose
  <2>2. Cardinality(Wrong) \in Nat
        /\ \A b \in Bills : Cardinality(MayMove(b)) \in Nat /\ Cardinality(Loose(b)) \in Nat
    BY FewerPayouts DEF Wrong, MayMove, Loose
  <2>3. faults \in Nat
    BY DEF BillingInv, TypeOK
  <2> QED
    BY <1>2, <2>1, <2>2, <2>3 DEF BillingInv, LooseBounded
<1>3. ASSUME NEW c \in Checkouts, ClickPlan(c) \/ FindRow(c) \/ WriteRow(c) \/ RecordCheckout(c) \/ CheckoutThrows(c)
      PROVE  UNCHANGED money /\ (UNCHANGED faults \/ faults' = faults + 1)
  BY <1>3 DEF ClickPlan, FindRow, WriteRow, RecordCheckout, CheckoutThrows, Fault
<1>4. LoadSubscription \/ ClickCancel \/ Cancel \/ ProviderEvent \/ UNCHANGED vars
        => UNCHANGED money /\ UNCHANGED faults
  BY DEF LoadSubscription, ClickCancel, Cancel, ProviderEvent, vars
<1>5. Quiet \/ Faulty => (LooseBounded /\ Cardinality(Wrong) <= faults)'
  BY QuietPreserves, FaultyPreserves
<1>6. (LooseBounded /\ Cardinality(Wrong) <= faults)'
  BY <1>2, <1>3, <1>4, <1>5, PayoutStepsAreQuiet, PayoutFaults, FormSteps DEF Next
<1> QED
  BY <1>1, <1>6 DEF BillingInv

LEMMA BillingInvariant == Spec => []BillingInv
BY BillingInit, BillingStep, PTL DEF Spec

(* Calls and rows of BillingService, and the page, have their types.       *)
THEOREM BillingTypesHold == Spec => []TypeOK
<1>1. BillingInv => TypeOK
  BY DEF BillingInv
<1> QED
  BY <1>1, BillingInvariant, PTL

(* createPayout and its form pay a bill more than once only as often as    *)
(* something failed.                                                       *)
THEOREM PaidOncePerFault == Spec => []PaidTwiceOnlyByFaults
<1>1. ASSUME BillingInv, NEW b \in Bills
      PROVE  Cardinality(PaidFor(b)) <= 1 + faults
  <2>1. PaidFor(b) \subseteq MayMove(b) /\ MayMove(b) \subseteq Payouts
    BY <1>1 DEF PaidFor, MayMove, BillingInv, TypeOK
  <2>2. /\ Cardinality(PaidFor(b)) \in Nat /\ Cardinality(MayMove(b)) \in Nat
        /\ Cardinality(PaidFor(b)) <= Cardinality(MayMove(b))
    BY <2>1, FewerPayouts
  <2>3. Cardinality(Loose(b)) \in Nat /\ Cardinality(MayMove(b)) <= Cardinality(Loose(b)) + 1
    BY MayMoveIsLooseOrAwaited, FewerPayouts DEF Loose, MayMove
  <2> QED
    BY <1>1, <2>2, <2>3 DEF BillingInv, LooseBounded, TypeOK
<1>2. BillingInv => PaidTwiceOnlyByFaults
  BY <1>1 DEF PaidTwiceOnlyByFaults
<1> QED
  BY <1>2, BillingInvariant, PTL

(* The payouts whose row does not say whether their money moved are at     *)
(* most as many as the faults.                                             *)
THEOREM BooksWrongPerFault == Spec => []BooksWrongOnlyByFaults
<1>1. ASSUME BillingInv
      PROVE  BooksWrongOnlyByFaults
  <2> DEFINE Bad == {p \in Payouts : payout[p].at \in Over /\ row[p] # "none"
                                     /\ row[p] # IF p \in moved THEN "paid" ELSE "failed"}
  <2>1. Bad \subseteq Wrong /\ Wrong \subseteq Payouts
    BY DEF Wrong
  <2>2. Cardinality(Bad) \in Nat /\ Cardinality(Wrong) \in Nat /\ Cardinality(Bad) <= Cardinality(Wrong)
    BY <2>1, FewerPayouts
  <2>3. Cardinality(Bad) <= faults
    BY <1>1, <2>2 DEF BillingInv, TypeOK
  <2> QED
    BY <2>3 DEF BooksWrongOnlyByFaults
<1> QED
  BY <1>1, BillingInvariant, PTL

----------------------------------------------------------------------------
(* The subscription. *)

(* A checkout that inserts a row has found none, so none was there when it *)
(* began.                                                                  *)
Founding ==
  \A c \in Checkouts :
    /\ checkout[c].had \subseteq Rows
    /\ sub[c] # "none" => checkout[c].at \in {"audit", "ok", "error"} /\ checkout[c].had = {}
    /\ checkout[c].at = "write" =>
         IF checkout[c].found = None THEN checkout[c].had = {} ELSE checkout[c].found \in Rows

PlanInv == TypeOK /\ Founding

LEMMA PlanStep == PlanInv /\ [Next]_vars => PlanInv'
<1> SUFFICES ASSUME PlanInv, [Next]_vars PROVE Founding'
  BY BillingTypes DEF PlanInv
<1> USE NoneAssumption DEF PlanInv, TypeOK, Founding, Rows, SubStatus
<1>1. CASE UNCHANGED <<checkout, sub>>
  BY <1>1
<1>2. ASSUME NEW c \in Checkouts, ClickPlan(c)
      PROVE  Founding'
  BY <1>2 DEF ClickPlan
<1>3. ASSUME NEW c \in Checkouts, FindRow(c)
      PROVE  Founding'
  BY <1>3 DEF FindRow
<1>4. ASSUME NEW c \in Checkouts, WriteRow(c)
      PROVE  Founding'
  BY <1>4 DEF WriteRow
<1>5. ASSUME NEW c \in Checkouts, RecordCheckout(c) \/ CheckoutThrows(c)
      PROVE  Founding'
  BY <1>5 DEF RecordCheckout, CheckoutThrows
<1>6. CASE Cancel \/ ProviderEvent
  <2>1. UNCHANGED checkout /\ \A c \in Checkouts : sub'[c] # "none" <=> sub[c] # "none"
    BY <1>6 DEF Cancel, ProviderEvent, SetAll
  <2> QED
    BY <2>1
<1>7. (\E p \in Payouts : PayoutStep(p) \/ PayoutThrows(p) \/ PayoutCutOff(p)) => UNCHANGED plan
  BY DEF PayoutStep, PayeeNotFound, InsertPending, Transfer, MarkPaid, RecordPayout, MarkFailed,
     PayoutThrows, PayoutCutOff
<1>8. /\ (\E p \in Payouts, b \in Bills : SubmitPayout(p, b)) => UNCHANGED plan
      /\ (\E b \in Bills : Answered(b) \/ AnswerLost(b)) => UNCHANGED plan
  BY DEF SubmitPayout, Answered, AnswerLost
<1>9. LoadSubscription \/ ClickCancel \/ UNCHANGED vars => UNCHANGED <<checkout, sub>>
  BY DEF LoadSubscription, ClickCancel, vars, plan
<1> QED
  BY <1>1, <1>2, <1>3, <1>4, <1>5, <1>6, <1>7, <1>8, <1>9 DEF Next, plan

(* An organization gets a second subscription row only from checkouts that *)
(* overlap.                                                                *)
THEOREM SecondPlanOverlaps == Spec => []SecondPlanOnlyByOverlap
<1>1. Init => PlanInv
  BY BillingInit DEF BillingInv, PlanInv, Founding, Init, Rows
<1>2. PlanInv => SecondPlanOnlyByOverlap
  BY DEF PlanInv, Founding, SecondPlanOnlyByOverlap, Rows
<1> QED
  BY <1>1, <1>2, PlanStep, PTL DEF Spec

----------------------------------------------------------------------------
(* Notifications. *)

(* A call past its look has found no row of its key, so none was there     *)
(* when it began.                                                          *)
PastLook(n) == notice[n].at = "insert" \/ n \in rows

NotifyInv ==
  /\ NotifyTypeOK
  /\ \A n \in Notices :
       /\ n \in rows => notice[n].at \notin {"idle", "look", "insert"}
       /\ notice[n].had \subseteq rows
       /\ PastLook(n) /\ KeyOf[n] # NoKey => \A m \in notice[n].had : m = n \/ KeyOf[m] # KeyOf[n]

LEMMA NotifyInitInv == NotifyInit => NotifyInv
BY DEF NotifyInit, NotifyInv, NotifyTypeOK, PastLook

LEMMA NotifyStep == NotifyInv /\ [NotifyNext]_notifyVars => NotifyInv'
<1> SUFFICES ASSUME NotifyInv, [NotifyNext]_notifyVars PROVE NotifyInv'
  OBVIOUS
<1> USE DEF NotifyInv, NotifyTypeOK, PastLook
<1>1. ASSUME NEW n \in Notices, Notify(n) PROVE NotifyInv'
  BY <1>1 DEF Notify
<1>2. ASSUME NEW n \in Notices, Look(n) PROVE NotifyInv'
  BY <1>2 DEF Look, To, Same
<1>3. ASSUME NEW n \in Notices, InsertSent(n) PROVE NotifyInv'
  BY <1>3 DEF InsertSent, To
<1>4. ASSUME NEW n \in Notices, NEW c \in Channels, Send(n, c) PROVE NotifyInv'
  BY <1>4 DEF Send
<1>5. ASSUME NEW n \in Notices, Log(n) PROVE NotifyInv'
  BY <1>5 DEF Log
<1>6. ASSUME NEW n \in Notices, Finish(n) \/ SendFails(n) PROVE NotifyInv'
  BY <1>6, SendAssumption DEF Finish, SendFails, To
<1>7. CASE UNCHANGED notifyVars
  BY <1>7 DEF notifyVars
<1> QED
  BY <1>1, <1>2, <1>3, <1>4, <1>5, <1>6, <1>7 DEF NotifyNext

(* Two notify calls with one dedupe key both send only when neither began  *)
(* after the other's row was there.                                        *)
THEOREM SentOncePerKey == NotifySpec => []SentTwiceOnlyByOverlap
<1>1. NotifyInv => SentTwiceOnlyByOverlap
  BY DEF NotifyInv, NotifyTypeOK, PastLook, SentTwiceOnlyByOverlap
<1>2. NotifySpec => []NotifyInv
  BY NotifyInitInv, NotifyStep, PTL DEF NotifySpec
<1> QED
  BY <1>1, <1>2, PTL

----------------------------------------------------------------------------
(* Pricing. *)

(* What has a rate is accepted, in the tables and on the page, and a page  *)
(* that shows a suggestion unaccepted knows no rate of it.                 *)
Accepted ==
  /\ \A s \in Suggestions :
       /\ run[s].at # "done" => offered[s] = "none"
       /\ offered[s] # "accepted" => rates[s] = {}
       /\ seen.status[s] # "accepted" => seen.rates[s] = {}
       /\ seen.status[s] # "none" => offered[s] # "none"
       /\ \A k \in rates[s] : click[k].at = "ok"
  /\ \A k \in Clicks :
       /\ click[k].at # "idle" => click[k].suggestion \in Suggestions /\ click[k].knew = {}
       /\ click[k].at = "sent" => offered[click[k].suggestion] # "none"

PriceInv == PriceTypeOK /\ Accepted

LEMMA PriceInitInv == PriceInit => PriceInv
BY PricesAssumption DEF PriceInit, PriceInv, PriceTypeOK, Accepted

(* Whole cents stay whole. *)
LEMMA AdjustedIsInt == ASSUME NEW r \in Rules, NEW x \in Int PROVE Adjusted(x, r) \in Int
<1> DEFINE p == IF Percent[r] = Nothing THEN x ELSE AddPercent(x, Percent[r])
<1>1. Percent \in [Rules -> (-90 .. 300) \cup {Nothing}] /\ Absolute \in [Rules -> Int \cup {Nothing}]
  BY RulesAssumption, Zenon
<1>2. Percent[r] \in (-90 .. 300) \cup {Nothing} /\ Absolute[r] \in Int \cup {Nothing}
  BY <1>1
<1>3. (-90 .. 300) \subseteq Int
  OBVIOUS
<1>4. Percent[r] \in Int \cup {Nothing}
  BY <1>2, <1>3, Zenon
<1>5. \A y, z \in Int : AddPercent(y, z) \in Int /\ y + z \in Int
  BY DEF AddPercent
<1>6. p \in Int
  BY <1>4, <1>5, Zenon
<1>7. (IF Absolute[r] = Nothing THEN p ELSE p + Absolute[r]) \in Int
  BY <1>2, <1>5, <1>6, Zenon
<1> QED
  BY <1>7, Zenon DEF Adjusted

LEMMA PriceTypes == PriceTypeOK /\ [PriceNext]_priceVars => PriceTypeOK'
<1> SUFFICES ASSUME PriceTypeOK, [PriceNext]_priceVars PROVE PriceTypeOK'
  OBVIOUS
<1> DEFINE At == {"idle", "rules", "loop", "done"}
           Run == [at : At, lead : {0} \cup LeadTimes, occupancy : 0 .. Nights,
                   read : SUBSET Rules, todo : SUBSET Rules, price : Int, fired : Seq(Rules)]
<1> USE DEF PriceTypeOK
<1>1. ASSUME NEW s \in Suggestions, NEW x \in Run, run' = [run EXCEPT ![s] = x],
             offered' \in [Suggestions -> {"none", "suggested", "accepted"}],
             UNCHANGED <<rules, occupied, rates, seen, click>>
      PROVE  PriceTypeOK'
  BY <1>1
<1>2. ASSUME NEW s \in Suggestions, Evaluate(s)
      PROVE  PriceTypeOK'
  <2> DEFINE old == run[s]
  <2>0. old \in Run /\ rules \in SUBSET Rules /\ occupied \in 0 .. Nights
    OBVIOUS
  <2>1. ASSUME NEW lead \in LeadTimes, ReadOccupancy(s, lead)
        PROVE  PriceTypeOK'
    <3>1. [old EXCEPT !.at = "rules", !.lead = lead, !.occupancy = occupied] \in Run
      BY <2>0
    <3> QED
      BY <1>1, <2>1, <3>1 DEF ReadOccupancy
  <2>2. CASE ReadRules(s)
    <3>1. [old EXCEPT !.at = "loop", !.read = rules, !.todo = rules] \in Run
      BY <2>0
    <3> QED
      BY <1>1, <2>2, <3>1 DEF ReadRules
  <2>3. CASE InsertSuggestion(s)
    <3>1. [old EXCEPT !.at = "done"] \in Run
      BY <2>0
    <3> QED
      BY <1>1, <2>3, <3>1 DEF InsertSuggestion
  <2>4. ASSUME NEW r \in Rules, Apply(s, r)
        PROVE  PriceTypeOK'
    <3> DEFINE price == IF Applies(r, old.lead, old.occupancy) THEN Adjusted(old.price, r) ELSE old.price
               fired == IF Applies(r, old.lead, old.occupancy) /\ Explained(r)
                        THEN Append(old.fired, r) ELSE old.fired
    <3>0. old.price \in Int
      BY <2>0
    <3>1. price \in Int
      BY <3>0, AdjustedIsInt
    <3>2. fired \in Seq(Rules)
      BY <2>0
    <3>3. run' = [run EXCEPT ![s] = [old EXCEPT !.todo = @ \ {r}, !.price = price, !.fired = fired]]
      BY <2>4 DEF Apply
    <3> HIDE DEF price, fired
    <3>4. [old EXCEPT !.todo = @ \ {r}, !.price = price, !.fired = fired] \in Run
      BY <2>0, <3>1, <3>2
    <3> QED
      BY <1>1, <2>4, <3>3, <3>4 DEF Apply
  <2> QED
    BY <1>2, <2>1, <2>2, <2>3, <2>4 DEF Evaluate
<1>3. ASSUME NEW k \in Clicks, Accept(k)
      PROVE  PriceTypeOK'
  BY <1>3 DEF Accept
<1>4. ASSUME NEW k \in Clicks, NEW s \in Suggestions, ClickAccept(k, s)
      PROVE  PriceTypeOK'
  BY <1>4 DEF ClickAccept
<1>5. (\E r \in Rules : CreateRule(r)) \/ (\E n \in 0 .. Nights : Occupy(n)) \/ Load \/ UNCHANGED priceVars
        => PriceTypeOK'
  BY DEF CreateRule, Occupy, Load, priceVars
<1> QED
  BY <1>2, <1>3, <1>4, <1>5 DEF PriceNext

(* An evaluation moves no other evaluation. *)
LEMMA OwnRunOnly ==
  ASSUME PriceTypeOK, NEW s \in Suggestions, Evaluate(s)
  PROVE  \A u \in Suggestions \ {s} : run'[u] = run[u]
<1>1. DOMAIN run = Suggestions
  BY DEF PriceTypeOK
<1>2. ASSUME NEW lead \in LeadTimes, ReadOccupancy(s, lead)
      PROVE  \A u \in Suggestions \ {s} : run'[u] = run[u]
  BY <1>1, <1>2 DEF ReadOccupancy
<1>3. CASE ReadRules(s)
  BY <1>1, <1>3 DEF ReadRules
<1>4. CASE InsertSuggestion(s)
  BY <1>1, <1>4 DEF InsertSuggestion
<1>5. ASSUME NEW r \in Rules, Apply(s, r)
      PROVE  \A u \in Suggestions \ {s} : run'[u] = run[u]
  BY <1>1, <1>5 DEF Apply
<1> QED
  BY <1>2, <1>3, <1>4, <1>5 DEF Evaluate

LEMMA PriceStep == PriceInv /\ [PriceNext]_priceVars => PriceInv'
<1> SUFFICES ASSUME PriceInv, [PriceNext]_priceVars PROVE Accepted'
  BY PriceTypes DEF PriceInv
<1> USE DEF PriceInv, PriceTypeOK, Accepted
<1>1. ASSUME NEW s \in Suggestions, Evaluate(s)
      PROVE  Accepted'
  <2>1. UNCHANGED <<rates, seen, click>> /\ run[s].at # "done" /\ offered[s] = "none"
    BY <1>1 DEF Evaluate, ReadOccupancy, ReadRules, InsertSuggestion, Apply
  <2>2. \A u \in Suggestions \ {s} : run'[u] = run[u]
    BY <1>1, OwnRunOnly
  <2>3. UNCHANGED offered \/ (run'[s].at = "done" /\ offered' = [offered EXCEPT ![s] = "suggested"])
    <3>1. InsertSuggestion(s) => run'[s].at = "done" /\ offered' = [offered EXCEPT ![s] = "suggested"]
      BY DEF InsertSuggestion
    <3>2. Evaluate(s) => InsertSuggestion(s) \/ UNCHANGED offered
      BY DEF Evaluate, ReadOccupancy, ReadRules, Apply
    <3> QED
      BY <1>1, <3>1, <3>2
  <2>4. rates[s] = {} /\ \A k \in Clicks : click[k].at = "sent" => click[k].suggestion # s
    <3>1. rates[s] = {}
      BY <2>1
    <3>2. ASSUME NEW k \in Clicks, click[k].at = "sent"
          PROVE  click[k].suggestion # s
      BY <2>1, <3>2
    <3> QED
      BY <3>1, <3>2
  <2>5. CASE UNCHANGED offered
    BY <2>1, <2>2, <2>5
  <2>6. CASE run'[s].at = "done" /\ offered' = [offered EXCEPT ![s] = "suggested"]
    BY <2>1, <2>2, <2>4, <2>6
  <2> QED
    BY <2>3, <2>5, <2>6
<1>2. ASSUME NEW k \in Clicks, Accept(k)
      PROVE  Accepted'
  BY <1>2 DEF Accept
<1>3. ASSUME NEW k \in Clicks, NEW s \in Suggestions, ClickAccept(k, s)
      PROVE  Accepted'
  <2>1. /\ click[k].at = "idle" /\ seen.status[s] = "suggested"
        /\ UNCHANGED <<run, offered, rates, seen>>
    BY <1>3 DEF ClickAccept, Acceptable
  <2>2. seen.rates[s] = {} /\ offered[s] # "none"
    BY <2>1
  <2>3. /\ click'[k] = [at |-> "sent", suggestion |-> s, knew |-> {}]
        /\ \A j \in Clicks \ {k} : click'[j] = click[j]
    BY <1>3, <2>2 DEF ClickAccept
  <2>4. \A u \in Suggestions : \A j \in rates[u] : click'[j].at = "ok"
    <3> TAKE u \in Suggestions
    <3> TAKE j \in rates[u]
    <3>1. j \in Clicks /\ click[j].at = "ok"
      OBVIOUS
    <3>2. j # k
      BY <2>1, <3>1
    <3> QED
      BY <2>3, <3>1, <3>2
  <2>5. \A j \in Clicks :
          /\ click'[j].at # "idle" => click'[j].suggestion \in Suggestions /\ click'[j].knew = {}
          /\ click'[j].at = "sent" => offered[click'[j].suggestion] # "none"
    BY <2>2, <2>3
  <2> QED
    BY <2>1, <2>4, <2>5
<1>4. (\E r \in Rules : CreateRule(r)) \/ (\E n \in 0 .. Nights : Occupy(n)) \/ Load \/ UNCHANGED priceVars
        => Accepted'
  BY DEF CreateRule, Occupy, Load, priceVars
<1> QED
  BY <1>1, <1>2, <1>3, <1>4 DEF PriceNext

(* Every accepted price beyond the first came from a page loaded before    *)
(* the first: whatever clicks, loads and evaluations cross.                *)
THEOREM ExtraRatesStale == PriceSpec => []ExtraRatesOnlyByStaleClicks
<1>1. PriceInv => ExtraRatesOnlyByStaleClicks
  BY DEF PriceInv, PriceTypeOK, Accepted, ExtraRatesOnlyByStaleClicks
<1> QED
  BY <1>1, PriceInitInv, PriceStep, PTL DEF PriceSpec

----------------------------------------------------------------------------
(* Why one day has one price.  The rules an evaluation has left are the rules
   it read up to some priority, so the evaluations of one day and one set of
   rules all pass the same sets; an answer is kept for each set one of them has
   passed, and each answer is one rule away from the answer before. *)
Answers == [price : Int, fired : Seq(Rules)]
NoRuleYet == [price |-> Base, fired |-> <<>>]

After(x, r, lead, occupancy) ==
  [price |-> IF Applies(r, lead, occupancy) THEN Adjusted(x.price, r) ELSE x.price,
   fired |-> IF Applies(r, lead, occupancy) /\ Explained(r) THEN Append(x.fired, r) ELSE x.fired]

FirstOf(rs, r) == r \in rs /\ \A q \in rs : Priority[q] <= Priority[r]
LeftOf(rs) == {left \in SUBSET rs :
                 \A q \in left, p \in rs : Priority[p] <= Priority[q] => p \in left}

(* The answers by what is left, as far as the evaluations at places have come. *)
Follow(answer, places, lead, occupancy, rs) ==
  /\ answer \in [SUBSET Rules -> Answers] /\ answer[rs] = NoRuleYet
  /\ \A x \in places :
       /\ x.left \in LeftOf(rs) /\ answer[x.left] = x.answer
       /\ \A left \in LeftOf(rs), r \in Rules : FirstOf(left, r) /\ x.left \subseteq left \ {r} =>
            answer[left \ {r}] = After(answer[left], r, lead, occupancy)

Sees(s, lead, occupancy, rs) ==
  /\ run[s].at \in {"loop", "done"}
  /\ run[s].lead = lead /\ run[s].occupancy = occupancy /\ run[s].read = rs
Place(s) == [left |-> run[s].todo, answer |-> [price |-> run[s].price, fired |-> run[s].fired]]
Places(lead, occupancy, rs) == {Place(s) : s \in {u \in Suggestions : Sees(u, lead, occupancy, rs)}}

Agree(lead, occupancy, rs) ==
  \E answer : Follow(answer, Places(lead, occupancy, rs), lead, occupancy, rs)

DaysAgree ==
  \A lead \in {0} \cup LeadTimes, occupancy \in 0 .. Nights, rs \in SUBSET Rules :
    Untied(rs) => Agree(lead, occupancy, rs)

RunsStartAndEnd ==
  \A s \in Suggestions :
    /\ run[s].at \in {"idle", "rules"} => run[s].price = Base /\ run[s].fired = <<>>
    /\ run[s].at = "done" => run[s].todo = {}

AnswersInv == PriceTypeOK /\ RunsStartAndEnd /\ DaysAgree

(* Sets of rules left. *)
LEMMA PrioritiesAreInts == \A r \in Rules : Priority[r] \in Int
<1>1. Priority \in [Rules -> 0 .. 100]
  BY RulesAssumption, Zenon
<1> QED
  BY <1>1

LEMMA LeftAfterFirst ==
  ASSUME NEW rs \in SUBSET Rules, Untied(rs), NEW left \in LeftOf(rs), NEW r, FirstOf(left, r)
  PROVE  left \ {r} \in LeftOf(rs)
<1>1. ASSUME NEW q \in left \ {r}, NEW p \in rs, Priority[p] <= Priority[q]
      PROVE  p \in left \ {r}
  <2>1. p \in left /\ q \in rs /\ r \in rs
    BY <1>1 DEF LeftOf, FirstOf
  <2>2. Priority[q] < Priority[r]
    BY <1>1, <2>1, PrioritiesAreInts DEF FirstOf, Untied
  <2> QED
    BY <1>1, <2>1, <2>2, PrioritiesAreInts
<1>2. left \ {r} \subseteq rs
  BY DEF LeftOf
<1> QED
  BY <1>1, <1>2 DEF LeftOf

LEMMA OneWayThere ==
  ASSUME NEW rs \in SUBSET Rules, NEW a \in LeftOf(rs), NEW b \in LeftOf(rs), NEW r, NEW q,
         FirstOf(a, r), FirstOf(b, q), a \ {r} = b \ {q}
  PROVE  a = b /\ r = q
<1>1. r \in a /\ q \in b /\ r \in rs /\ q \in rs
  BY DEF FirstOf, LeftOf
<1>2. r = q
  <2>1. CASE Priority[q] <= Priority[r]
    BY <1>1, <2>1 DEF LeftOf
  <2>2. CASE Priority[r] <= Priority[q]
    BY <1>1, <2>2 DEF LeftOf
  <2> QED
    BY <1>1, <2>1, <2>2, PrioritiesAreInts
<1> QED
  BY <1>1, <1>2

LEMMA EarlierIsWider ==
  ASSUME NEW rs \in SUBSET Rules, NEW a \in LeftOf(rs), NEW b \in LeftOf(rs), NEW r, NEW q,
         FirstOf(a, r), FirstOf(b, q), a \ {r} \subseteq b \ {q}, a \ {r} # b \ {q}
  PROVE  a \subseteq b \ {q}
<1>1. PICK p \in b \ {q} : p \notin a \ {r}
  OBVIOUS
<1>2. r \in a /\ q \in b /\ r \in rs /\ q \in rs /\ p \in rs
  BY <1>1 DEF FirstOf, LeftOf
<1>3. CASE p = r
  BY <1>1, <1>3
<1>4. CASE p # r
  <2>1. p \notin a
    BY <1>1, <1>4
  <2>2. Priority[r] < Priority[p]
    BY <1>2, <2>1, PrioritiesAreInts DEF LeftOf
  <2>3. Priority[p] <= Priority[q]
    BY <1>1 DEF FirstOf
  <2>4. r \in b
    BY <1>1, <1>2, <2>2, PrioritiesAreInts DEF LeftOf
  <2>5. r # q
    BY <1>2, <2>2, <2>3, PrioritiesAreInts
  <2> QED
    BY <2>4, <2>5
<1> QED
  BY <1>3, <1>4

LEMMA FewerPlaces ==
  ASSUME NEW answer, NEW places, NEW lead, NEW occupancy, NEW rs,
         Follow(answer, places, lead, occupancy, rs), NEW fewer \in SUBSET places
  PROVE  Follow(answer, fewer, lead, occupancy, rs)
BY DEF Follow

LEMMA NewPlaceAtStart ==
  ASSUME NEW answer, NEW places, NEW lead, NEW occupancy, NEW rs \in SUBSET Rules,
         Follow(answer, places, lead, occupancy, rs)
  PROVE  Follow(answer, places \cup {[left |-> rs, answer |-> NoRuleYet]}, lead, occupancy, rs)
<1> DEFINE x == [left |-> rs, answer |-> NoRuleYet]
<1>1. rs \in LeftOf(rs) /\ answer[rs] = NoRuleYet
  BY DEF LeftOf, Follow
<1>2. ASSUME NEW left \in LeftOf(rs), NEW r \in Rules, FirstOf(left, r), rs \subseteq left \ {r}
      PROVE  FALSE
  BY <1>2 DEF LeftOf, FirstOf
<1>3. x.left = rs /\ x.answer = NoRuleYet
  OBVIOUS
<1> HIDE DEF x
<1> QED
  BY <1>1, <1>2, <1>3 DEF Follow

(* An evaluation that takes its first rule comes to the answer there is, or
   is the first to come that far and gives it. *)
LEMMA NextPlace ==
  ASSUME NEW answer, NEW places, NEW lead, NEW occupancy, NEW rs \in SUBSET Rules, Untied(rs),
         Follow(answer, places, lead, occupancy, rs),
         NEW x \in places, NEW r \in Rules, FirstOf(x.left, r),
         NEW y, y.left = x.left \ {r}, y.answer = After(x.answer, r, lead, occupancy), y.answer \in Answers
  PROVE  \E next : Follow(next, places \cup {y}, lead, occupancy, rs)
<1>1. x.left \in LeftOf(rs) /\ y.left \in LeftOf(rs) /\ answer[x.left] = x.answer /\ r \in x.left
  BY LeftAfterFirst DEF Follow, FirstOf
<1>2. CASE \E z \in places : z.left \subseteq y.left
  <2>1. PICK z \in places : z.left \subseteq y.left
    BY <1>2
  <2>2. answer[y.left] = y.answer
    BY <1>1, <2>1 DEF Follow
  <2>3. ASSUME NEW left \in LeftOf(rs), NEW q \in Rules, FirstOf(left, q), y.left \subseteq left \ {q}
        PROVE  answer[left \ {q}] = After(answer[left], q, lead, occupancy)
    <3>1. z.left \subseteq left \ {q}
      BY <2>1, <2>3
    <3> QED
      BY <2>3, <3>1 DEF Follow
  <2>4. Follow(answer, places \cup {y}, lead, occupancy, rs)
    BY <1>1, <2>2, <2>3 DEF Follow
  <2> QED
    BY <2>4
<1>3. CASE \A z \in places : ~(z.left \subseteq y.left)
  <2> DEFINE next == [answer EXCEPT ![y.left] = y.answer]
  <2>1. answer \in [SUBSET Rules -> Answers] /\ answer[rs] = NoRuleYet /\ y.left \in SUBSET Rules
    BY <1>1 DEF Follow, LeftOf
  <2>2. /\ next \in [SUBSET Rules -> Answers] /\ next[y.left] = y.answer
        /\ \A left \in SUBSET Rules : left # y.left => next[left] = answer[left]
    BY <2>1
  <2>3. rs # y.left /\ x.left # y.left
    BY <1>1 DEF LeftOf
  <2>4. next[rs] = NoRuleYet /\ next[x.left] = x.answer
    BY <1>1, <2>1, <2>2, <2>3 DEF LeftOf
  <2>5. LeftOf(rs) \subseteq SUBSET Rules /\ \A left \in LeftOf(rs) : \A q : left \ {q} \in SUBSET Rules
    BY DEF LeftOf
  <2> HIDE DEF next
  <2>6. ASSUME NEW z \in places
        PROVE  /\ z.left \in LeftOf(rs) /\ next[z.left] = z.answer
               /\ \A left \in LeftOf(rs), q \in Rules : FirstOf(left, q) /\ z.left \subseteq left \ {q} =>
                    next[left \ {q}] = After(next[left], q, lead, occupancy)
    <3>1. z.left \in LeftOf(rs) /\ z.left # y.left /\ answer[z.left] = z.answer
      BY <1>3 DEF Follow
    <3>2. ASSUME NEW left \in LeftOf(rs), NEW q \in Rules, FirstOf(left, q), z.left \subseteq left \ {q}
          PROVE  next[left \ {q}] = After(next[left], q, lead, occupancy)
      <4>1. left # y.left /\ left \ {q} # y.left
        BY <1>3, <3>2
      <4>2. answer[left \ {q}] = After(answer[left], q, lead, occupancy)
        BY <3>2 DEF Follow
      <4> QED
        BY <2>2, <2>5, <4>1, <4>2
    <3> QED
      BY <2>2, <2>5, <3>1, <3>2
  <2>7. ASSUME NEW left \in LeftOf(rs), NEW q \in Rules, FirstOf(left, q), y.left \subseteq left \ {q}
        PROVE  next[left \ {q}] = After(next[left], q, lead, occupancy)
    <3>1. CASE left \ {q} = y.left
      <4>1. left = x.left /\ q = r
        BY <1>1, <2>7, <3>1, OneWayThere
      <4> QED
        BY <2>2, <2>4, <3>1, <4>1
    <3>2. CASE left \ {q} # y.left
      <4>1. x.left \subseteq left \ {q}
        BY <1>1, <2>7, <3>2, EarlierIsWider
      <4> QED
        BY <2>6, <2>7, <4>1
    <3> QED
      BY <3>1, <3>2
  <2>8. Follow(next, places \cup {y}, lead, occupancy, rs)
    BY <1>1, <2>2, <2>4, <2>6, <2>7 DEF Follow
  <2> QED
    BY <2>8
<1> QED
  BY <1>2, <1>3

LEMMA AnswersInit == PriceInit => AnswersInv
<1> SUFFICES ASSUME PriceInit PROVE AnswersInv
  OBVIOUS
<1>1. PriceTypeOK
  BY PriceInitInv DEF PriceInv
<1>2. RunsStartAndEnd
  BY DEF PriceInit, RunsStartAndEnd
<1>3. ASSUME NEW lead, NEW occupancy, NEW rs \in SUBSET Rules
      PROVE  Agree(lead, occupancy, rs)
  <2> DEFINE answer == [left \in SUBSET Rules |-> NoRuleYet]
  <2>1. NoRuleYet \in Answers
    BY PricesAssumption DEF NoRuleYet, Answers
  <2>2. answer \in [SUBSET Rules -> Answers] /\ answer[rs] = NoRuleYet
    BY <2>1
  <2>3. Places(lead, occupancy, rs) = {}
    BY DEF PriceInit, Places, Sees
  <2> HIDE DEF answer
  <2>4. Follow(answer, Places(lead, occupancy, rs), lead, occupancy, rs)
    BY <2>2, <2>3 DEF Follow
  <2> QED
    BY <2>4 DEF Agree
<1> QED
  BY <1>1, <1>2, <1>3 DEF AnswersInv, DaysAgree

LEMMA AnswersStep == AnswersInv /\ [PriceNext]_priceVars => AnswersInv'
<1> SUFFICES ASSUME AnswersInv, [PriceNext]_priceVars PROVE AnswersInv'
  OBVIOUS
<1>1. PriceTypeOK /\ PriceTypeOK'
  BY PriceTypes DEF AnswersInv
<1>2. ASSUME UNCHANGED run PROVE RunsStartAndEnd' /\ DaysAgree'
  <2>1. ASSUME NEW lead, NEW occupancy, NEW rs
        PROVE  Places(lead, occupancy, rs)' = Places(lead, occupancy, rs)
    BY <1>2 DEF Places, Place, Sees
  <2>2. \A lead, occupancy, rs : Agree(lead, occupancy, rs) => Agree(lead, occupancy, rs)'
    BY <2>1 DEF Agree
  <2> QED
    BY <1>2, <2>2 DEF AnswersInv, RunsStartAndEnd, DaysAgree
<1>3. ASSUME NEW s \in Suggestions, \A u \in Suggestions \ {s} : run'[u] = run[u],
             NEW lead, NEW occupancy, NEW rs
      PROVE  /\ Places(lead, occupancy, rs)' \subseteq Places(lead, occupancy, rs) \cup {Place(s)'}
             /\ ~Sees(s, lead, occupancy, rs)' => Places(lead, occupancy, rs)' \subseteq Places(lead, occupancy, rs)
  BY <1>3 DEF Places, Place, Sees
<1>4. ASSUME NEW s \in Suggestions, Evaluate(s)
      PROVE  RunsStartAndEnd'
  <2>1. \A u \in Suggestions \ {s} : run'[u] = run[u]
    BY <1>1, <1>4, OwnRunOnly
  <2>2. run[s] \in [at : {"idle", "rules", "loop", "done"}, lead : {0} \cup LeadTimes,
                    occupancy : 0 .. Nights, read : SUBSET Rules, todo : SUBSET Rules,
                    price : Int, fired : Seq(Rules)] /\ DOMAIN run = Suggestions
    BY <1>1 DEF PriceTypeOK
  <2>3. \/ /\ run[s].at \in {"idle", "rules"} /\ run'[s].price = run[s].price /\ run'[s].fired = run[s].fired
           /\ run'[s].at \in {"rules", "loop"}
        \/ run'[s].at = "loop"
        \/ run'[s].at = "done" /\ run'[s].todo = {}
    <3>1. ASSUME NEW lead \in LeadTimes, ReadOccupancy(s, lead)
          PROVE  /\ run[s].at = "idle" /\ run'[s].price = run[s].price /\ run'[s].fired = run[s].fired
                 /\ run'[s].at = "rules"
      BY <2>2, <3>1 DEF ReadOccupancy
    <3>2. ReadRules(s) => run'[s].at = "loop"
      BY <2>2 DEF ReadRules
    <3>3. InsertSuggestion(s) => run'[s].at = "done" /\ run'[s].todo = {}
      BY <2>2 DEF InsertSuggestion
    <3>4. ASSUME NEW r \in Rules, Apply(s, r) PROVE run'[s].at = "loop"
      BY <2>2, <3>4 DEF Apply
    <3> QED
      BY <1>4, <3>1, <3>2, <3>3, <3>4 DEF Evaluate
  <2> QED
    BY <2>1, <2>3 DEF AnswersInv, RunsStartAndEnd
<1>5. ASSUME NEW s \in Suggestions, Evaluate(s)
      PROVE  DaysAgree'
  <2>1. \A u \in Suggestions \ {s} : run'[u] = run[u]
    BY <1>1, <1>5, OwnRunOnly
  <2>2. SUFFICES ASSUME NEW lead \in {0} \cup LeadTimes, NEW occupancy \in 0 .. Nights,
                        NEW rs \in SUBSET Rules, Untied(rs)
                 PROVE  Agree(lead, occupancy, rs)'
    BY DEF DaysAgree
  <2>3. PICK answer : Follow(answer, Places(lead, occupancy, rs), lead, occupancy, rs)
    BY <2>2 DEF AnswersInv, DaysAgree, Agree
  <2>4. ASSUME NEW next, NEW more, Follow(next, more, lead, occupancy, rs),
               Places(lead, occupancy, rs)' \subseteq more
        PROVE  Agree(lead, occupancy, rs)'
    BY <2>4, FewerPlaces DEF Agree
  <2>5. ASSUME ~Sees(s, lead, occupancy, rs)' PROVE Agree(lead, occupancy, rs)'
    BY <1>3, <2>1, <2>3, <2>4, <2>5
  <2>6. ASSUME NEW d \in LeadTimes, ReadOccupancy(s, d)
        PROVE  Agree(lead, occupancy, rs)'
    <3>1. ~Sees(s, lead, occupancy, rs)'
      BY <1>1, <2>6 DEF ReadOccupancy, Sees, PriceTypeOK
    <3> QED
      BY <2>5, <3>1
  <2>7. CASE ReadRules(s)
    <3>1. ASSUME Sees(s, lead, occupancy, rs)'
          PROVE  Place(s)' = [left |-> rs, answer |-> NoRuleYet]
      BY <1>1, <2>7, <3>1 DEF ReadRules, AnswersInv, RunsStartAndEnd, PriceTypeOK, Place, Sees, NoRuleYet
    <3>2. Follow(answer, Places(lead, occupancy, rs) \cup {[left |-> rs, answer |-> NoRuleYet]},
                 lead, occupancy, rs)
      BY <2>3, NewPlaceAtStart
    <3>3. CASE Sees(s, lead, occupancy, rs)'
      <4>1. Places(lead, occupancy, rs)' \subseteq
              Places(lead, occupancy, rs) \cup {[left |-> rs, answer |-> NoRuleYet]}
        BY <1>3, <2>1, <3>1, <3>3
      <4> QED
        BY <2>4, <3>2, <4>1
    <3> QED
      BY <2>5, <3>3
  <2>8. CASE InsertSuggestion(s)
    <3>1. ASSUME Sees(s, lead, occupancy, rs)'
          PROVE  Sees(s, lead, occupancy, rs) /\ Place(s)' = Place(s)
      <4>1. run[s].at = "loop" /\ run' = [run EXCEPT ![s] = [run[s] EXCEPT !.at = "done"]]
        BY <2>8 DEF InsertSuggestion
      <4>2. run'[s] = [run[s] EXCEPT !.at = "done"]
        BY <1>1, <4>1 DEF PriceTypeOK
      <4>3. /\ run'[s].todo = run[s].todo /\ run'[s].price = run[s].price /\ run'[s].fired = run[s].fired
            /\ run'[s].lead = run[s].lead /\ run'[s].occupancy = run[s].occupancy
            /\ run'[s].read = run[s].read
        BY <1>1, <4>2 DEF PriceTypeOK
      <4> QED
        BY <3>1, <4>1, <4>3 DEF Place, Sees
    <3>2. ASSUME Sees(s, lead, occupancy, rs)' PROVE Place(s)' \in Places(lead, occupancy, rs)
      BY <3>1, <3>2 DEF Places
    <3>3. CASE Sees(s, lead, occupancy, rs)'
      <4>1. Places(lead, occupancy, rs)' \subseteq Places(lead, occupancy, rs)
        BY <1>3, <2>1, <3>2, <3>3
      <4> QED
        BY <2>3, <2>4, <4>1
    <3> QED
      BY <2>5, <3>3
  <2>9. ASSUME NEW r \in Rules, Apply(s, r)
        PROVE  Agree(lead, occupancy, rs)'
    <3>1. CASE Sees(s, lead, occupancy, rs)'
      <4>1. /\ run[s].at = "loop" /\ FirstOf(run[s].todo, r)
            /\ run'[s] = [run[s] EXCEPT !.todo = @ \ {r},
                 !.price = IF Applies(r, run[s].lead, run[s].occupancy) THEN Adjusted(@, r) ELSE @,
                 !.fired = IF Applies(r, run[s].lead, run[s].occupancy) /\ Explained(r)
                           THEN Append(@, r) ELSE @]
        BY <1>1, <2>9 DEF Apply, First, FirstOf, PriceTypeOK
      <4>2. Sees(s, lead, occupancy, rs)
        BY <1>1, <3>1, <4>1 DEF Sees, PriceTypeOK
      <4>3. /\ run'[s].todo = run[s].todo \ {r}
            /\ run'[s].price = IF Applies(r, lead, occupancy) THEN Adjusted(run[s].price, r) ELSE run[s].price
            /\ run'[s].fired = IF Applies(r, lead, occupancy) /\ Explained(r)
                               THEN Append(run[s].fired, r) ELSE run[s].fired
        BY <1>1, <4>1, <4>2 DEF Sees, PriceTypeOK
      <4>4. Place(s) \in Places(lead, occupancy, rs) /\ Place(s).left = run[s].todo
            /\ Place(s).answer = [price |-> run[s].price, fired |-> run[s].fired]
        BY <4>2 DEF Place, Places
      <4>5. /\ Place(s)'.left = Place(s).left \ {r}
            /\ Place(s)'.answer = After(Place(s).answer, r, lead, occupancy)
        BY <4>3, <4>4 DEF Place, After
      <4>6. Place(s)'.answer \in Answers
        BY <1>1 DEF Place, Answers, PriceTypeOK
      <4>7. FirstOf(Place(s).left, r)
        BY <4>1, <4>4
      <4>8. PICK next : Follow(next, Places(lead, occupancy, rs) \cup {Place(s)'}, lead, occupancy, rs)
        BY <2>2, <2>3, <2>9, <4>4, <4>5, <4>6, <4>7, NextPlace
      <4> QED
        BY <1>3, <2>1, <2>4, <4>8
    <3> QED
      BY <2>5, <3>1
  <2> QED
    BY <1>5, <2>6, <2>7, <2>8, <2>9 DEF Evaluate
<1>6. ASSUME NEW k \in Clicks, Accept(k) \/ \E s \in Suggestions : ClickAccept(k, s)
      PROVE  UNCHANGED run
  BY <1>6 DEF Accept, ClickAccept
<1>7. (\E r \in Rules : CreateRule(r)) \/ (\E n \in 0 .. Nights : Occupy(n)) \/ Load \/ UNCHANGED priceVars
        => UNCHANGED run
  BY DEF CreateRule, Occupy, Load, priceVars
<1>8. RunsStartAndEnd' /\ DaysAgree'
  BY <1>2, <1>4, <1>5, <1>6, <1>7 DEF PriceNext
<1> QED
  BY <1>1, <1>8 DEF AnswersInv

(* Evaluations, rows and clicks have their types, for any rules. *)
THEOREM PriceTypesHold == PriceSpec => []PriceTypeOK
<1>1. PriceInv => PriceTypeOK
  BY DEF PriceInv
<1> QED
  BY <1>1, PriceInitInv, PriceStep, PTL DEF PriceSpec

(* evaluate: two evaluations of one day that read the same rules, no two of
   one priority, suggest the same price for the same reasons. *)
THEOREM DayHasOnePrice == PriceSpec => []SameDaySamePrice
<1>1. ASSUME AnswersInv, NEW s \in Suggestions, NEW u \in Suggestions,
             run[s].at = "done", run[u].at = "done", Untied(run[s].read),
             run[u].lead = run[s].lead, run[u].occupancy = run[s].occupancy, run[u].read = run[s].read
      PROVE  run[s].price = run[u].price /\ run[s].fired = run[u].fired
  <2> DEFINE lead == run[s].lead
             occupancy == run[s].occupancy
             rs == run[s].read
  <2>1. lead \in {0} \cup LeadTimes /\ occupancy \in 0 .. Nights /\ rs \in SUBSET Rules
    BY <1>1 DEF AnswersInv, PriceTypeOK
  <2>2. Place(s) \in Places(lead, occupancy, rs) /\ Place(u) \in Places(lead, occupancy, rs)
    BY <1>1 DEF Places, Sees
  <2>3. PICK answer : Follow(answer, Places(lead, occupancy, rs), lead, occupancy, rs)
    BY <1>1, <2>1 DEF AnswersInv, DaysAgree, Agree
  <2>4. Place(s).left = {} /\ Place(u).left = {}
    BY <1>1 DEF AnswersInv, RunsStartAndEnd, Place
  <2>5. Place(s).answer = Place(u).answer
    BY <2>2, <2>3, <2>4 DEF Follow
  <2> QED
    BY <2>5 DEF Place
<1>2. AnswersInv => SameDaySamePrice
  BY <1>1 DEF SameDaySamePrice
<1> QED
  BY <1>2, AnswersInit, AnswersStep, PTL DEF PriceSpec
=============================================================================
