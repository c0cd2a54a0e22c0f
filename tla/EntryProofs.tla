---------------------------- MODULE EntryProofs -----------------------------
(***************************************************************************)
(* What holds of AccessLifecycle, the codes on the doors, for every set of *)
(* credentials and windows and any number of overlapping ticks; and of     *)
(* Onboarding, the accounts, for any number of calls and tokens.           *)
(***************************************************************************)
EXTENDS AccessLifecycle, Onboarding, FiniteSetTheorems, TLAPS

(* A tick's rows were chosen by the clock value it carries, which is past;
   the row it has just updated is one of them. *)
TicksAreJustified ==
  \A t \in Ticks :
    /\ tick[t].done # None => tick[t].done \in tick[t].rows
    /\ \A c \in tick[t].rows :
         /\ tick[t].phase = "activate" => Window[c].from <= tick[t].at
         /\ tick[t].phase = "expire" => Window[c].to <= tick[t].at
         /\ tick[t].phase # "idle"

(* A credential that is still being issued has no row, and no tick holds it. *)
Unissued(c) == issue[c] \in {"idle"} \cup IssueStep
NoRowBeforeInsert ==
  \A c \in Creds :
    /\ Unissued(c) => cred[c] = None /\ ~Held(c)
    /\ issue[c] \in IssueStep => c \notin ByEngine

AccessInv == TypeOK /\ TicksAreJustified /\ NoRowBeforeInsert /\ TimeBoxed

----------------------------------------------------------------------------
LEMMA NoneIsNoStatus == None \notin {"pending", "active", "expired", "revoked"}
BY NoneAssumption DEF CredStatus

LEMMA AccessInit == Init => AccessInv
BY HorizonAssumption, FaultsAssumption, NoneIsNoStatus
   DEF Init, Idle, AccessInv, TypeOK, TicksAreJustified, NoRowBeforeInsert, TimeBoxed, Held, Unissued, IssueStep

(* What a call of the API or of the engine does to one credential. *)
LEMMA CallsPreserve ==
  ASSUME AccessInv, NEW c \in Creds,
         IssueNext(c) \/ RevokeNext(c) \/ IssueBreaks(c) \/ RevokeBreaks(c)
  PROVE  AccessInv'
<1> USE DEF AccessInv
<1>1. TypeOK'
  <2> USE DEF TypeOK, Record, CredStatus, EventKind, IssueStep, RevokeStep, Ended
  <2>1. CASE IssueBreaks(c) BY <2>1, FaultsAssumption DEF IssueBreaks
  <2>2. CASE RevokeBreaks(c) BY <2>2, FaultsAssumption DEF RevokeBreaks
  <2>3. CASE Lookup(c) BY <2>3 DEF Lookup
  <2>4. CASE IssueCode(c) \/ IssueCodeFails(c) \/ InsertCredential(c) \/ EngineInsert(c)
    BY <2>4 DEF NoRowBeforeInsert, IssueCode, IssueCodeFails, InsertCredential, EngineInsert
  <2>5. CASE RevokeRow(c) BY <2>5 DEF RevokeRow
  <2>6. CASE RevokeCode(c) BY <2>6 DEF RevokeCode
  <2> QED BY <2>1, <2>2, <2>3, <2>4, <2>5, <2>6 DEF IssueNext, RevokeNext
<1>2. UNCHANGED <<tick, now>>
  BY DEF IssueNext, RevokeNext, IssueBreaks, RevokeBreaks, Lookup, IssueCode, IssueCodeFails,
     InsertCredential, EngineInsert, RevokeRow, RevokeCode
<1>3. TicksAreJustified'
  BY <1>2 DEF TicksAreJustified
<1>4. /\ \A d \in Creds : cred'[d] = cred[d] \/ cred'[d] \in {"pending", "revoked"}
      /\ \A d \in Creds : Unissued(d)' => Unissued(d) /\ cred'[d] = cred[d]
      /\ \A d \in Creds : issue'[d] \in IssueStep => d \notin ByEngine
  BY NoneIsNoStatus DEF TypeOK, NoRowBeforeInsert, Unissued, IssueNext, RevokeNext, IssueBreaks, RevokeBreaks,
     Lookup, IssueCode, IssueCodeFails, InsertCredential, EngineInsert, RevokeRow, RevokeCode,
     IssueStep
<1>5. NoRowBeforeInsert' /\ TimeBoxed'
  BY <1>2, <1>4 DEF NoRowBeforeInsert, TimeBoxed, Held
<1> QED BY <1>1, <1>3, <1>5

(* What a tick of the scheduler does. *)
LEMMA TicksPreserve ==
  ASSUME AccessInv, NEW t \in Ticks, TickNext(t) \/ TickBreaks(t)
  PROVE  AccessInv'
<1> USE NoneIsNoStatus, NoneAssumption, HorizonAssumption, WindowAssumption
    DEF AccessInv, TypeOK, TicksAreJustified, NoRowBeforeInsert, TimeBoxed, Held, Unissued
<1>1. CASE BeginTick(t)
  BY <1>1 DEF BeginTick, ToActivate
<1>2. CASE UpdateRow(t)
  BY <1>2 DEF UpdateRow, Target, CredStatus
<1>3. CASE WriteEvent(t)
  BY <1>3 DEF WriteEvent, Record, EventOf, EventKind
<1>4. CASE SecondHalf(t)
  <2>1. /\ tick'[t] = [phase |-> "expire", at |-> tick[t].at,
                       rows |-> ToExpire(tick[t].at), done |-> None]
        /\ \A s \in Ticks : s # t => tick'[s] = tick[s]
        /\ tick' = [tick EXCEPT ![t] = tick'[t]]
    BY <1>4 DEF SecondHalf
  <2>2. tick[t].rows = {}
    BY <1>4 DEF SecondHalf
  <2>3. UNCHANGED <<now, cred, log, codes, issue, revoke, faults>>
    BY <1>4 DEF SecondHalf
  <2>4. TypeOK'
    BY <2>1, <2>2, <2>3 DEF ToExpire
  <2>5. TicksAreJustified'
    BY <2>1, <2>2, <2>3 DEF ToExpire
  <2>6. NoRowBeforeInsert'
    BY <2>1, <2>2, <2>3 DEF ToExpire
  <2> QED BY <2>3, <2>4, <2>5, <2>6
<1>5. CASE EndTick(t)
  BY <1>5 DEF EndTick, Idle
<1>6. CASE TickBreaks(t)
  <2>1. UNCHANGED <<now, cred, log, codes, issue, revoke>> /\ faults' \in 0 .. MaxFaults
    BY <1>6, FaultsAssumption DEF TickBreaks
  <2>2. \A s \in Ticks : tick'[s] = tick[s] \/ tick'[s] = Idle
    BY <1>6 DEF TickBreaks
  <2>3. tick' = [s \in Ticks |-> tick'[s]]
    BY <1>6 DEF TickBreaks
  <2>4. Idle \in [phase : {"idle", "activate", "expire"}, at : 0 .. now,
                  rows : SUBSET Creds, done : Creds \cup {None}]
    BY DEF Idle
  <2>5. TypeOK'
    BY <2>1, <2>2, <2>3, <2>4
  <2>6. Idle.rows = {} /\ Idle.done = None
    BY DEF Idle
  <2>7. TicksAreJustified'
    BY <2>1, <2>2, <2>6
  <2>8. NoRowBeforeInsert'
    BY <2>1, <2>2, <2>6
  <2> QED BY <2>1, <2>5, <2>7, <2>8
<1> QED BY <1>1, <1>2, <1>3, <1>4, <1>5, <1>6 DEF TickNext

LEMMA AccessNext == AccessInv /\ [Next]_vars => AccessInv'
<1> SUFFICES ASSUME AccessInv, [Next]_vars PROVE AccessInv'
  OBVIOUS
<1>1. CASE Advance
  BY <1>1, HorizonAssumption, WindowAssumption
     DEF Advance, AccessInv, TypeOK, TicksAreJustified, NoRowBeforeInsert, TimeBoxed, Held, Unissued
<1>2. CASE UNCHANGED vars
  BY <1>2 DEF vars, AccessInv, TypeOK, TicksAreJustified, NoRowBeforeInsert, TimeBoxed, Held, Unissued
<1> QED BY <1>1, <1>2, CallsPreserve, TicksPreserve DEF Next

LEMMA AccessCorrect == Spec => []AccessInv
BY AccessInit, AccessNext, PTL DEF Spec

(* The types of rows, calls and ticks hold in every state. *)
THEOREM AccessTypes == Spec => []TypeOK
BY AccessCorrect, PTL DEF AccessInv

(* However many ticks overlap, no credential is active before its window or
   expired before the window's end. *)
THEOREM AccessTimeBoxed == Spec => []TimeBoxed
BY AccessCorrect, PTL DEF AccessInv

----------------------------------------------------------------------------
LEMMA SettledStays ==
  ASSUME AccessInv, [Next]_vars, NEW c \in Creds, cred[c] = "revoked", ~Held(c)
  PROVE  cred'[c] = "revoked" /\ ~Held(c)'
<1> USE NoneIsNoStatus DEF AccessInv, TypeOK, Held
<1>1. ~Unissued(c)
  BY DEF NoRowBeforeInsert
<1>2. ASSUME NEW d \in Creds, IssueNext(d) \/ RevokeNext(d) \/ IssueBreaks(d) \/ RevokeBreaks(d)
      PROVE  cred'[c] = "revoked" /\ ~Held(c)'
  BY <1>1, <1>2 DEF Unissued, IssueNext, RevokeNext, IssueBreaks, RevokeBreaks, Lookup, IssueCode,
     IssueCodeFails, InsertCredential, EngineInsert, RevokeRow, RevokeCode, IssueStep
<1>3. ASSUME NEW t \in Ticks, TickNext(t) \/ TickBreaks(t)
      PROVE  cred'[c] = "revoked" /\ ~Held(c)'
  BY <1>3 DEF TickNext, TickBreaks, BeginTick, UpdateRow, WriteEvent, SecondHalf, EndTick,
     ToActivate, ToExpire, Idle
<1>4. CASE Advance \/ UNCHANGED vars
  BY <1>4 DEF Advance, vars
<1> QED BY <1>2, <1>3, <1>4 DEF Next

(* A revocation is undone only by a tick already holding the row. *)
THEOREM AccessRevocation == Spec => RevocationSettles
<1>1. AccessInv /\ [Next]_vars =>
        [\A c \in Creds :
           cred[c] = "revoked" /\ ~Held(c) => cred'[c] = "revoked" /\ ~Held(c)']_vars
  BY SettledStays
<1> QED BY <1>1, AccessCorrect, PTL DEF Spec, RevocationSettles

----------------------------------------------------------------------------
(* Events and codes. *)

(* A set that counts faults: the same or smaller while nothing fails, one
   larger at most when something does. *)
LEMMA OneMoreAtMost ==
  ASSUME NEW S, NEW T, NEW n \in Nat, NEW m \in Nat, IsFiniteSet(S), Cardinality(S) <= n,
         (T \subseteq S /\ m = n) \/ (m = n + 1 /\ \E x : T \subseteq S \cup {x})
  PROVE  IsFiniteSet(T) /\ Cardinality(T) <= m
<1>1. Cardinality(S) \in Nat
  BY FS_CardinalityType
<1>2. CASE T \subseteq S /\ m = n
  <2>1. IsFiniteSet(T) /\ Cardinality(T) <= Cardinality(S) /\ Cardinality(T) \in Nat
    BY <1>2, FS_Subset, FS_CardinalityType
  <2> QED
    BY <1>1, <1>2, <2>1
<1>3. ASSUME NEW x, m = n + 1, T \subseteq S \cup {x}
      PROVE  IsFiniteSet(T) /\ Cardinality(T) <= m
  <2>1. /\ IsFiniteSet(S \cup {x})
        /\ Cardinality(S \cup {x}) = Cardinality(S) \/ Cardinality(S \cup {x}) = Cardinality(S) + 1
    BY FS_AddElement
  <2>2. IsFiniteSet(T) /\ Cardinality(T) <= Cardinality(S \cup {x}) /\ Cardinality(T) \in Nat
    BY <1>3, <2>1, FS_Subset, FS_CardinalityType
  <2> QED
    BY <1>1, <1>3, <2>1, <2>2
<1> QED
  BY <1>2, <1>3

(* The revocation of a credential follows its row, and is on record from the
   moment it begins; a code is in the lock before the row that needs it, and
   stays there until a revocation, whatever the scheduler makes of the row; a
   tick holds rows that are there. *)
CallsInOrder ==
  \A c \in Creds :
    /\ Unissued(c) => revoke[c] = "idle"
    /\ revoke[c] # "idle" => "revoked" \in log[c]
    /\ issue[c] = "insert" => c \in codes
    /\ c \notin ByEngine /\ cred[c] # None /\ "revoked" \notin log[c] => c \in codes
    /\ Held(c) => cred[c] # None

StraysCostFaults == IsFiniteSet(Stray) /\ Cardinality(Stray) <= faults

RecordsInv == AccessInv /\ CallsInOrder /\ StraysCostFaults

LEMMA RecordsInit == Init => RecordsInv
<1> SUFFICES ASSUME Init PROVE CallsInOrder /\ StraysCostFaults
  BY AccessInit DEF RecordsInv
<1>1. CallsInOrder
  BY NoneIsNoStatus DEF Init, Idle, Held, CallsInOrder
<1>2. Stray = {} /\ faults = 0
  BY DEF Init, Stray
<1> QED
  BY <1>1, <1>2, FS_EmptySet DEF StraysCostFaults

(* A step that leaves a code stray is a fault of the call that had it. *)
StrayStep ==
  \/ Stray' \subseteq Stray /\ faults' = faults
  \/ faults' = faults + 1 /\ \E x : Stray' \subseteq Stray \cup {x}

LEMMA CallsKeepRecords ==
  ASSUME RecordsInv, NEW c \in Creds,
         IssueNext(c) \/ RevokeNext(c) \/ IssueBreaks(c) \/ RevokeBreaks(c)
  PROVE  CallsInOrder' /\ StrayStep
<1>1. CallsInOrder'
  BY NoneIsNoStatus DEF RecordsInv, AccessInv, TypeOK, NoRowBeforeInsert, Unissued, IssueStep, Record,
     CallsInOrder, Held, IssueNext, RevokeNext, IssueBreaks, RevokeBreaks, RevokeStep, Lookup, IssueCode,
     IssueCodeFails, InsertCredential, EngineInsert, RevokeRow, RevokeCode
<1>2. CASE IssueNext(c) \/ RevokeNext(c)
  <2>1. \A d \in Stray' : d \in Stray
    BY <1>2, NoneIsNoStatus DEF RecordsInv, AccessInv, TypeOK, NoRowBeforeInsert, Unissued, IssueStep,
       Stray, Ended, CallsInOrder, IssueNext, RevokeNext, Lookup, IssueCode,
       IssueCodeFails, InsertCredential, EngineInsert, RevokeRow, RevokeCode
  <2>2. faults' = faults
    BY <1>2 DEF IssueNext, RevokeNext, Lookup, IssueCode,
       IssueCodeFails, InsertCredential, EngineInsert, RevokeRow, RevokeCode
  <2> QED
    BY <1>1, <2>1, <2>2 DEF StrayStep
<1>3. CASE IssueBreaks(c) \/ RevokeBreaks(c)
  <2>1. \A d \in Stray' : d \in Stray \cup {c}
    BY <1>3 DEF Stray, IssueBreaks, RevokeBreaks, RecordsInv, AccessInv, TypeOK
  <2>2. faults' = faults + 1
    BY <1>3 DEF IssueBreaks, RevokeBreaks
  <2> QED
    BY <1>1, <2>1, <2>2 DEF StrayStep
<1> QED
  BY <1>2, <1>3

LEMMA TicksKeepRecords ==
  ASSUME RecordsInv, NEW t \in Ticks, TickNext(t) \/ TickBreaks(t)
  PROVE  CallsInOrder' /\ StrayStep
<1> USE NoneIsNoStatus, NoneAssumption DEF RecordsInv, AccessInv, TypeOK, TicksAreJustified, Held, Idle
<1>1. UNCHANGED <<codes, issue, revoke>> /\ \A c \in Creds : log[c] \subseteq log'[c]
  BY DEF TickNext, TickBreaks, BeginTick, UpdateRow, WriteEvent, Record, SecondHalf, EndTick
<1>2. \A c \in Creds : (cred[c] # None) = (cred'[c] # None)
  BY DEF CallsInOrder, TickNext, TickBreaks, BeginTick, UpdateRow, Target, WriteEvent, SecondHalf, EndTick
<1>3. \A c \in Creds : Unissued(c)' = Unissued(c)
  BY <1>1 DEF Unissued
<1>4. \A c \in Creds : Held(c)' => cred[c] # None
  <2>1. CASE SecondHalf(t)
    <3>1. tick'[t].rows = ToExpire(tick[t].at) /\ \A s \in Ticks : s # t => tick'[s] = tick[s]
      BY <2>1 DEF SecondHalf
    <3> QED
      BY <3>1 DEF ToExpire, CallsInOrder
  <2>2. CASE ~SecondHalf(t)
    BY <2>2 DEF CallsInOrder, TickNext, TickBreaks, BeginTick, ToActivate, UpdateRow, WriteEvent, EndTick
  <2> QED
    BY <2>1, <2>2
<1>5. CallsInOrder'
  BY <1>1, <1>2, <1>3, <1>4 DEF CallsInOrder
<1>6. Stray' \subseteq Stray
  BY <1>1, <1>2 DEF Stray
<1>7. faults' = faults \/ faults' = faults + 1
  BY DEF TickNext, TickBreaks, BeginTick, UpdateRow, WriteEvent, SecondHalf, EndTick
<1>8. Stray' \subseteq Stray \cup {t}
  BY <1>6
<1> QED
  BY <1>5, <1>6, <1>7, <1>8 DEF StrayStep

LEMMA RecordsNext == RecordsInv /\ [Next]_vars => RecordsInv'
<1> SUFFICES ASSUME RecordsInv, [Next]_vars PROVE CallsInOrder' /\ StraysCostFaults'
  BY AccessNext DEF RecordsInv
<1>1. CallsInOrder' /\ StrayStep
  <2>1. CASE Advance \/ UNCHANGED vars
    BY <2>1 DEF Advance, vars, RecordsInv, CallsInOrder, Unissued, Held, StrayStep, Stray
  <2> QED
    BY <2>1, CallsKeepRecords, TicksKeepRecords DEF Next
<1>2. faults \in Nat /\ faults' \in Nat
  BY AccessNext DEF RecordsInv, AccessInv, TypeOK
<1>3. IsFiniteSet(Stray) /\ Cardinality(Stray) <= faults
  BY DEF RecordsInv, StraysCostFaults
<1>4. IsFiniteSet(Stray') /\ Cardinality(Stray') <= faults'
  BY <1>1, <1>2, <1>3, OneMoreAtMost DEF StrayStep
<1> QED
  BY <1>1, <1>4 DEF StraysCostFaults

LEMMA RecordsCorrect == Spec => []RecordsInv
BY RecordsInit, RecordsNext, PTL DEF Spec

(* For any credentials, ticks and faults: the lock knows the code of every API
   credential that is pending or active and was never revoked, and the codes it
   keeps for no row or past a revocation are at most as many as the faults. *)
THEOREM AccessCodes == Spec => []CodesFollowRows
<1>1. RecordsInv => CodesFollowRows
  BY NoneIsNoStatus DEF RecordsInv, CallsInOrder, StraysCostFaults, CodesFollowRows
<1> QED
  BY <1>1, RecordsCorrect, PTL

(* No call takes an event back. *)
LEMMA LogGrows ==
  ASSUME TypeOK, [Next]_vars
  PROVE  \A c \in Creds : log[c] \subseteq log'[c]
<1> USE DEF TypeOK, Record
<1>1. ASSUME NEW c \in Creds, IssueNext(c) \/ RevokeNext(c) \/ IssueBreaks(c) \/ RevokeBreaks(c)
      PROVE  \A d \in Creds : log[d] \subseteq log'[d]
  BY <1>1 DEF IssueNext, RevokeNext, IssueBreaks, RevokeBreaks, Lookup, IssueCode,
     IssueCodeFails, InsertCredential, EngineInsert, RevokeRow, RevokeCode
<1>2. ASSUME NEW t \in Ticks, TickNext(t) \/ TickBreaks(t)
      PROVE  \A d \in Creds : log[d] \subseteq log'[d]
  BY <1>2 DEF TickNext, TickBreaks, BeginTick, UpdateRow, WriteEvent, SecondHalf, EndTick
<1>3. CASE Advance \/ UNCHANGED vars
  BY <1>3 DEF Advance, vars
<1> QED
  BY <1>1, <1>2, <1>3 DEF Next

(* Only a tick that breaks off with a row in hand leaves it untold. *)
LEMMA UntoldCostsATick ==
  ASSUME AccessInv, [Next]_vars, NEW c \in Creds, Untold(c)', ~Untold(c)
  PROVE  faults' = faults + 1 /\ \E t \in Ticks : tick[t].done = c /\ tick'[t].done = None
<1> USE NoneIsNoStatus, NoneAssumption DEF AccessInv, TypeOK
<1>1. log[c] \subseteq log'[c]
  BY LogGrows
<1>2. ASSUME UNCHANGED tick, 
             \/ cred'[c] \in {cred[c], "pending"}
             \/ ("revoked" \in log'[c] /\ cred'[c] = "revoked")
      PROVE  FALSE
  BY <1>1, <1>2 DEF Untold
<1>3. ASSUME NEW d \in Creds, IssueNext(d) \/ RevokeNext(d) \/ IssueBreaks(d) \/ RevokeBreaks(d)
      PROVE  FALSE
  <2>1. tick' = tick
    BY <1>3 DEF IssueNext, RevokeNext, IssueBreaks, RevokeBreaks, Lookup, IssueCode,
       IssueCodeFails, InsertCredential, EngineInsert, RevokeRow, RevokeCode
  <2>2. \/ cred'[c] \in {cred[c], "pending"}
        \/ ("revoked" \in log'[c] /\ cred'[c] = "revoked")
    BY <1>3 DEF IssueNext, RevokeNext, IssueBreaks, RevokeBreaks, Lookup, IssueCode,
       IssueCodeFails, InsertCredential, EngineInsert, RevokeRow, RevokeCode, Record
  <2> QED
    BY <1>2, <2>1, <2>2
<1>4. CASE Advance \/ UNCHANGED vars
  BY <1>2, <1>4 DEF Advance, vars
<1>5. ASSUME NEW t \in Ticks, UpdateRow(t)
      PROVE  FALSE
  <2>1. PICK d \in tick[t].rows : /\ tick[t].done = None
                                  /\ cred' = [cred EXCEPT ![d] = Target(t)]
                                  /\ tick' = [tick EXCEPT ![t].done = d]
    BY <1>5 DEF UpdateRow
  <2>2. log' = log /\ d \in Creds /\ \A s \in Ticks : tick'[s].phase = tick[s].phase
    BY <1>5, <2>1 DEF UpdateRow
  <2>3. CASE d = c
    BY <2>1, <2>2, <2>3 DEF Untold, Target, TicksAreJustified
  <2>4. CASE d # c
    <3>1. \A s \in Ticks : tick'[s].done = c <=> tick[s].done = c
      BY <2>1, <2>4
    <3> QED
      BY <2>1, <2>2, <2>4, <3>1 DEF Untold
  <2> QED
    BY <2>3, <2>4
<1>6. ASSUME NEW t \in Ticks, WriteEvent(t)
      PROVE  FALSE
  <2>1. /\ cred' = cred /\ tick[t].done \in Creds
        /\ log' = [log EXCEPT ![tick[t].done] = @ \cup {EventOf(t)}]
        /\ \A s \in Ticks : s # t => tick'[s] = tick[s]
    BY <1>6 DEF WriteEvent, Record
  <2>2. EventOf(t) = IF tick[t].phase = "activate" THEN "granted" ELSE "expired"
    BY DEF EventOf
  <2>3. tick[t].phase # "idle"
    BY <2>1 DEF TicksAreJustified
  <2> QED
    BY <2>1, <2>2, <2>3 DEF Untold
<1>7. ASSUME NEW t \in Ticks, BeginTick(t) \/ SecondHalf(t) \/ EndTick(t)
      PROVE  FALSE
  <2>1. tick[t].done = None /\ cred' = cred /\ log' = log
    BY <1>7 DEF BeginTick, SecondHalf, EndTick, Idle, TicksAreJustified
  <2>2. \A s \in Ticks : s # t => tick'[s] = tick[s]
    BY <1>7 DEF BeginTick, SecondHalf, EndTick
  <2> QED
    BY <2>1, <2>2 DEF Untold
<1>8. ASSUME NEW t \in Ticks, TickBreaks(t)
      PROVE  faults' = faults + 1 /\ \E s \in Ticks : tick[s].done = c /\ tick'[s].done = None
  <2>1. /\ cred' = cred /\ log' = log /\ faults' = faults + 1
        /\ \A s \in Ticks : tick'[s] = tick[s] \/ tick'[s].done = None
    BY <1>8 DEF TickBreaks, Idle
  <2>2. \E s \in Ticks : tick[s].done = c /\ tick'[s] # tick[s]
    BY <2>1 DEF Untold
  <2> QED
    BY <2>1, <2>2
<1> QED
  BY <1>3, <1>4, <1>5, <1>6, <1>7, <1>8 DEF Next, TickNext

(* For any credentials, ticks and faults: a status without its event has cost
   the failure or stop of a tick, and only in the row that tick had in hand. *)
THEOREM AccessLogged == Spec => TransitionsLogged
<1>1. AccessInv /\ [Next]_vars =>
        [\A c \in Creds :
           Untold(c)' => \/ Untold(c)
                         \/ /\ faults' = faults + 1
                            /\ \E t \in Ticks : tick[t].done = c /\ tick'[t].done = None]_vars
  BY UntoldCostsATick
<1> QED
  BY <1>1, AccessCorrect, PTL DEF Spec, TransitionsLogged

----------------------------------------------------------------------------
(* Onboarding: how people get in. *)

(* A call takes the steps of its kind, for an e-mail and with the token it
   was made for, and what was used up when it began still is. *)
PathOf(c) ==
  LET at == call[c].at IN
  /\ c \in Registrations => at \notin {"find", "spend"} /\ call[c].token = Absent
  /\ c \in Accepts => at \notin {"org", "spend"}
  /\ c \in Verifies => at \in {"idle", "look", "spend"} \cup Over
  /\ at # "idle" /\ c \notin Verifies => call[c].email \in Emails
  /\ at # "idle" /\ c \notin Registrations =>
       call[c].token \in Tokens /\ token[call[c].token].org \in Registrations
  /\ call[c].spent \subseteq Spent
  /\ at \notin {"idle", "look", "refused", "error"} => call[c].token \notin call[c].spent

CallsOnPath == \A c \in Calls : PathOf(c)

InvitationsNameSomebody == \A t \in Invitations : token[t].org # Absent => token[t].email \in Emails

(* Who inserted a user is on the way to its membership, unless it failed. *)
MakerJoins(e) ==
  LET c == maker[e] IN
  Exists(e) =>
    /\ c \in Calls /\ call[c].email = e
    /\ \/ call[c].at \in {"org", "join", "error"}
       \/ call[c].at \in {"session", "ok"} /\ MembershipsOf(e) # {}

FounderJoins(o) ==
  \/ call[o].at \in {"join", "error"}
  \/ call[o].at \in {"session", "ok"} /\ \E m \in members : m.org = o

(* The two kinds of half an account. *)
HalfUsers == {e \in Emails : /\ Exists(e) /\ MembershipsOf(e) = {}
                             /\ call[maker[e]].at \in Over}
HalfOrgs == {o \in orgs : call[o].at \in Over /\ \A m \in members : m.org # o}

CostFaults(S) == IsFiniteSet(S) /\ Cardinality(S) <= entryFaults

EntryInv ==
  /\ EntryTypeOK /\ CallsOnPath /\ InvitationsNameSomebody
  /\ \A e \in Emails : MakerJoins(e)
  /\ \A o \in orgs : FounderJoins(o)
  /\ CostFaults(HalfUsers) /\ CostFaults(HalfOrgs)

LEMMA EntryInitInv == EntryInit => EntryInv
<1> SUFFICES ASSUME EntryInit PROVE EntryInv
  OBVIOUS
<1>1. EntryTypeOK /\ CallsOnPath /\ InvitationsNameSomebody
  BY TokensAssumption DEF EntryInit, EntryTypeOK, CallsOnPath, PathOf, InvitationsNameSomebody, Spent, Tokens, Calls
<1>2. (\A e \in Emails : MakerJoins(e)) /\ \A o \in orgs : FounderJoins(o)
  BY DEF EntryInit, MakerJoins, Exists
<1>3. HalfUsers = {} /\ HalfOrgs = {}
  BY DEF EntryInit, HalfUsers, HalfOrgs, Exists
<1>4. IsFiniteSet({}) /\ Cardinality({}) = 0
  BY FS_EmptySet
<1>5. CostFaults({})
  BY <1>4 DEF CostFaults, EntryInit
<1> QED
  BY <1>1, <1>2, <1>3, <1>5 DEF EntryInv

(* One call moves; only calls and faults, or only tokens, are touched by most
   steps. *)
LEMMA OneCallMoves ==
  ASSUME EntryTypeOK, NEW c \in Calls, NEW from, NEW to, Go(c, from, to)
  PROVE  /\ call[c].at = from /\ call'[c] = [call[c] EXCEPT !.at = to]
         /\ call' \in [Calls -> [at : {to} \cup {"idle", "find"} \cup Steps \cup Over, email : Emails \cup {Absent},
                         token : Tokens \cup {Absent}, spent : SUBSET Tokens]]
         /\ \A d \in Calls : /\ d # c => call'[d] = call[d]
                             /\ call'[d].email = call[d].email /\ call'[d].token = call[d].token
                             /\ call'[d].spent = call[d].spent
BY DEF EntryTypeOK, Go

(* A row of a token that is used up or given out, a call that goes on. *)
TokenRows == [org : Registrations \cup {Absent}, email : Emails \cup {Absent},
              used : BOOLEAN, over : BOOLEAN]
CallStates == [at : {"idle", "find"} \cup Steps \cup Over, email : Emails \cup {Absent},
               token : Tokens \cup {Absent}, spent : SUBSET Tokens]

LEMMA RowTypes ==
  /\ \A k \in TokenRows : [k EXCEPT !.used = TRUE] \in TokenRows
  /\ \A k \in TokenRows, o \in Registrations, e \in Emails \cup {Absent} :
       [k EXCEPT !.org = o, !.email = e] \in TokenRows
  /\ \A k \in CallStates, at \in {"idle", "find"} \cup Steps \cup Over :
       [k EXCEPT !.at = at] \in CallStates
BY DEF TokenRows, CallStates

LEMMA PutRow ==
  ASSUME NEW S, NEW R, NEW f \in [S -> R], NEW x \in S, NEW r \in R
  PROVE  [f EXCEPT ![x] = r] \in [S -> R]
OBVIOUS

LEMMA EntryTypes == EntryTypeOK /\ CallsOnPath /\ InvitationsNameSomebody /\ [EntryNext]_entryVars => EntryTypeOK'
<1> SUFFICES ASSUME EntryTypeOK, CallsOnPath, InvitationsNameSomebody, [EntryNext]_entryVars
             PROVE  EntryTypeOK'
  OBVIOUS
<1> USE DEF EntryTypeOK, Steps, Over
<1>1. ASSUME NEW c \in Registrations, NEW e \in Emails, Register(c, e)
      PROVE  EntryTypeOK'
  BY <1>1 DEF Register, Begin, Spent, Calls
<1>2. ASSUME NEW c \in Calls, NEW t \in Tokens, UseToken(c, t)
      PROVE  EntryTypeOK'
  BY <1>2 DEF UseToken, Begin, Spent
<1>3. ASSUME NEW c \in Calls,
             LookForUser(c) \/ OpenSession(c) \/ CheckInvitation(c) \/ FindUser(c) \/ CheckLink(c)
      PROVE  EntryTypeOK'
  BY <1>3 DEF LookForUser, OpenSession, CheckInvitation, FindUser, CheckLink, Go
<1>4. ASSUME NEW c \in Calls, InsertUser(c)
      PROVE  EntryTypeOK'
  <2>1. call[c].email \in Emails
    BY <1>4 DEF InsertUser, CallsOnPath, PathOf, Calls
  <2> QED
    BY <1>4, <2>1 DEF InsertUser, Go
<1>5. ASSUME NEW c \in Calls, InsertOrg(c)
      PROVE  EntryTypeOK'
  <2>1. c \in Registrations
    BY <1>5 DEF InsertOrg, Go, CallsOnPath, PathOf, Calls
  <2> QED
    BY <1>5, <2>1 DEF InsertOrg, Go
<1>6. ASSUME NEW c \in Calls, Join(c)
      PROVE  EntryTypeOK'
  <2>1. call[c].at = "join" /\ c \notin Verifies
    BY <1>6 DEF Join, Go, CallsOnPath, PathOf
  <2>2. call[c].email \in Emails /\ OrgOf(c) \in Registrations
    BY <2>1 DEF CallsOnPath, PathOf, OrgOf, Calls
  <2>3. members' \subseteq [user : Emails, org : Registrations, by : Calls]
    BY <1>6, <2>2 DEF Join
  <2>4. token' \in [Tokens -> TokenRows]
    <3>1. \A t \in Tokens : token[t] \in TokenRows
      BY DEF TokenRows
    <3>2. \A t \in Tokens : [token[t] EXCEPT !.used = TRUE] \in TokenRows
      BY <3>1, RowTypes
    <3> QED
      BY <1>6, <3>1, <3>2 DEF Join
  <2>5. call' \in [Calls -> CallStates]
    <3>1. call' = [call EXCEPT ![c] = [call[c] EXCEPT !.at = "session"]]
      BY <1>6 DEF Join, Go
    <3>2. call[c] \in CallStates /\ call \in [Calls -> CallStates]
      BY DEF CallStates
    <3>3. [call[c] EXCEPT !.at = "session"] \in CallStates
      BY <3>2 DEF CallStates
    <3> QED
      BY <3>1, <3>2, <3>3, PutRow
  <2>6. UNCHANGED <<maker, orgs, entryFaults>>
    BY <1>6 DEF Join
  <2> QED
    BY <2>3, <2>4, <2>5, <2>6 DEF TokenRows, CallStates
<1>7. ASSUME NEW c \in Calls, SpendLink(c)
      PROVE  EntryTypeOK'
  <2>1. call[c].token \in Tokens
    BY <1>7 DEF SpendLink, Go, CallsOnPath, PathOf
  <2>2. token' \in [Tokens -> TokenRows]
    <3>1. token' = [token EXCEPT ![call[c].token] = [token[call[c].token] EXCEPT !.used = TRUE]]
      BY <1>7, <2>1 DEF SpendLink
    <3>2. token \in [Tokens -> TokenRows] /\ token[call[c].token] \in TokenRows
      BY <2>1 DEF TokenRows
    <3>3. [token[call[c].token] EXCEPT !.used = TRUE] \in TokenRows
      BY <3>2, RowTypes
    <3> QED
      BY <2>1, <3>1, <3>2, <3>3, PutRow
  <2>3. call' \in [Calls -> CallStates]
    <3>1. call' = [call EXCEPT ![c] = [call[c] EXCEPT !.at = "ok"]]
      BY <1>7 DEF SpendLink, Go
    <3>2. call[c] \in CallStates /\ call \in [Calls -> CallStates]
      BY DEF CallStates
    <3>3. [call[c] EXCEPT !.at = "ok"] \in CallStates
      BY <3>2 DEF CallStates
    <3> QED
      BY <3>1, <3>2, <3>3, PutRow
  <2>4. UNCHANGED <<maker, orgs, members, entryFaults>>
    BY <1>7 DEF SpendLink
  <2> QED
    BY <2>2, <2>3, <2>4 DEF TokenRows, CallStates
<1>8. ASSUME NEW c \in Calls, Fail(c)
      PROVE  EntryTypeOK'
  BY <1>8, EntryFaultsAssumption DEF Fail
<1>9. ASSUME NEW t \in Tokens, Expire(t)
      PROVE  EntryTypeOK'
  BY <1>9 DEF Expire
<1>10. ASSUME NEW t \in Tokens, NEW org \in orgs,
              IssueMagicLink(t, org) \/ \E e \in Emails : CreateInvitation(t, org, e)
       PROVE  EntryTypeOK'
  <2>1. PICK e \in Emails \cup {Absent} : Issue(t, org, e)
    BY <1>10 DEF IssueMagicLink, CreateInvitation
  <2>2. token' \in [Tokens -> TokenRows]
    <3>1. token' = [token EXCEPT ![t] = [token[t] EXCEPT !.org = org, !.email = e]]
      BY <2>1 DEF Issue
    <3>2. token \in [Tokens -> TokenRows] /\ token[t] \in TokenRows /\ org \in Registrations
      BY DEF TokenRows
    <3>3. [token[t] EXCEPT !.org = org, !.email = e] \in TokenRows
      BY <3>2, RowTypes
    <3> QED
      BY <3>1, <3>2, <3>3, PutRow
  <2> QED
    BY <2>1, <2>2 DEF Issue, TokenRows
<1>11. CASE UNCHANGED entryVars
  BY <1>11 DEF entryVars
<1> QED
  BY <1>1, <1>2, <1>3, <1>4, <1>5, <1>6, <1>7, <1>8, <1>9, <1>10, <1>11 DEF EntryNext

(* A token given out keeps its organization and its e-mail; a token used up
   stays used up. *)
TokensStay ==
  \A t \in Tokens :
    /\ token[t].used => token'[t].used
    /\ token[t].org # Absent => token'[t].org = token[t].org /\ token'[t].email = token[t].email

LEMMA TokensStayGiven == EntryTypeOK /\ CallsOnPath /\ [EntryNext]_entryVars => TokensStay
<1> SUFFICES ASSUME EntryTypeOK, CallsOnPath, [EntryNext]_entryVars, NEW t \in Tokens
             PROVE  /\ token[t].used => token'[t].used
                    /\ token[t].org # Absent => token'[t].org = token[t].org /\ token'[t].email = token[t].email
  BY DEF TokensStay
<1> USE DEF EntryTypeOK
<1>1. ASSUME NEW c \in Calls, Join(c)
      PROVE  token'[t] = token[t] \/ token'[t] = [token[t] EXCEPT !.used = TRUE]
  BY <1>1 DEF Join
<1>2. ASSUME NEW c \in Calls, SpendLink(c)
      PROVE  token'[t] = token[t] \/ token'[t] = [token[t] EXCEPT !.used = TRUE]
  BY <1>2 DEF SpendLink
<1>3. ASSUME NEW u \in Tokens, Expire(u)
      PROVE  token'[t] = token[t] \/ token'[t] = [token[t] EXCEPT !.over = TRUE]
  BY <1>3 DEF Expire
<1>4. ASSUME NEW u \in Tokens, NEW org \in orgs,
             IssueMagicLink(u, org) \/ \E e \in Emails : CreateInvitation(u, org, e)
      PROVE  \/ token'[t] = token[t]
             \/ token[t].org = Absent /\ token'[t].used = token[t].used
  BY <1>4 DEF IssueMagicLink, CreateInvitation, Issue
<1>5. ASSUME NEW c \in Registrations, NEW e \in Emails, Register(c, e)
      PROVE  token' = token
  BY <1>5 DEF Register, Begin
<1>6. ASSUME NEW c \in Calls,
             \/ LookForUser(c) \/ InsertUser(c) \/ InsertOrg(c) \/ OpenSession(c)
             \/ CheckInvitation(c) \/ FindUser(c) \/ CheckLink(c) \/ Fail(c)
             \/ \E u \in Tokens : UseToken(c, u)
      PROVE  token' = token
  BY <1>6 DEF LookForUser, InsertUser, InsertOrg, OpenSession, CheckInvitation, FindUser,
              CheckLink, Fail, UseToken, Begin
<1>7. CASE UNCHANGED entryVars
  BY <1>7 DEF entryVars
<1> QED
  BY <1>1, <1>2, <1>3, <1>4, <1>5, <1>6, <1>7 DEF EntryNext

LEMMA SpentGrows ==
  ASSUME TokensStay PROVE Spent \subseteq Spent'
BY DEF TokensStay, Spent

(* A call that does not move is where it was on its path. *)
LEMMA PathKept ==
  ASSUME EntryTypeOK, TokensStay, NEW d \in Calls, PathOf(d), call'[d] = call[d]
  PROVE  PathOf(d)'
<1>1. Spent \subseteq Spent'
  BY SpentGrows
<1>2. call[d].token \in Tokens /\ token[call[d].token].org \in Registrations
        => token'[call[d].token].org \in Registrations
  BY TokensAssumption, CallsAssumption DEF TokensStay, Calls
<1> QED
  BY <1>1, <1>2 DEF PathOf

(* A call that moves on stays on its path when it goes to a step of its kind
   and was not made for a token used up before. *)
LEMMA PathAfterGo ==
  ASSUME EntryTypeOK, TokensStay, NEW c \in Calls, PathOf(c), NEW from, NEW to, Go(c, from, to),
         from # "idle", to \notin {"idle", "look"},
         c \in Registrations => to \notin {"find", "spend"},
         c \in Accepts => to \notin {"org", "spend"},
         c \in Verifies => to \in {"spend"} \cup Over,
         to \notin {"refused", "error"} => call[c].token \notin call[c].spent
  PROVE  PathOf(c)'
<1>1. Spent \subseteq Spent'
  BY SpentGrows
<1>2. call[c].token \in Tokens /\ token[call[c].token].org \in Registrations
        => token'[call[c].token].org \in Registrations
  BY TokensAssumption, CallsAssumption DEF TokensStay, Calls
<1>3. /\ call[c].at = from /\ call'[c].at = to /\ call'[c].email = call[c].email
      /\ call'[c].token = call[c].token /\ call'[c].spent = call[c].spent
  BY DEF EntryTypeOK, Go
<1> QED
  BY <1>1, <1>2, <1>3 DEF PathOf

LEMMA OthersStay ==
  ASSUME EntryTypeOK, CallsOnPath, TokensStay, NEW c \in Calls, PathOf(c)',
         \A d \in Calls \ {c} : call'[d] = call[d]
  PROVE  CallsOnPath'
<1> SUFFICES ASSUME NEW d \in Calls PROVE PathOf(d)'
  BY DEF CallsOnPath
<1>1. CASE d = c
  BY <1>1
<1>2. CASE d # c
  BY <1>2, PathKept DEF CallsOnPath
<1> QED
  BY <1>1, <1>2

LEMMA PathsKept ==
  EntryTypeOK /\ CallsOnPath /\ InvitationsNameSomebody /\ [EntryNext]_entryVars => CallsOnPath'
<1> SUFFICES ASSUME EntryTypeOK, CallsOnPath, InvitationsNameSomebody, [EntryNext]_entryVars
             PROVE  CallsOnPath'
  OBVIOUS
<1>0. TokensStay
  BY TokensStayGiven
<1>a. ASSUME NEW c \in Calls, NEW from, NEW to, Go(c, from, to), PathOf(c)'
      PROVE  CallsOnPath'
  <2>1. \A d \in Calls \ {c} : call'[d] = call[d]
    BY <1>a, OneCallMoves
  <2> QED
    BY <1>0, <1>a, <2>1, OthersStay
<1>1. ASSUME NEW c \in Registrations, NEW e \in Emails, Register(c, e)
      PROVE  CallsOnPath'
  <2>1. c \in Calls /\ c \notin Accepts /\ c \notin Verifies /\ Absent \notin Tokens
    BY CallsAssumption, TokensAssumption DEF Calls
  <2>2. /\ call'[c] = [at |-> "look", email |-> e, token |-> Absent, spent |-> Spent]
        /\ \A d \in Calls \ {c} : call'[d] = call[d]
    BY <1>1, <2>1 DEF Register, Begin, EntryTypeOK
  <2>3. PathOf(c)'
    BY <1>0, <2>1, <2>2, SpentGrows DEF PathOf
  <2> QED
    BY <1>0, <2>1, <2>2, <2>3, OthersStay
<1>2. ASSUME NEW c \in Calls, NEW t \in Tokens, UseToken(c, t)
      PROVE  CallsOnPath'
  <2>1. /\ call'[c] = [at |-> "look", email |-> token[t].email, token |-> t, spent |-> Spent]
        /\ \A d \in Calls \ {c} : call'[d] = call[d]
        /\ token' = token /\ token[t].org \in Registrations
    BY <1>2 DEF UseToken, Begin, EntryTypeOK
  <2>2. c \notin Registrations /\ (c \notin Verifies => t \in Invitations)
    BY <1>2, CallsAssumption DEF UseToken
  <2>3. c \notin Verifies => token[t].email \in Emails
    BY <1>2, <2>2 DEF UseToken, InvitationsNameSomebody
  <2>4. PathOf(c)'
    BY <1>0, <2>1, <2>2, <2>3, SpentGrows DEF PathOf, Over
  <2> QED
    BY <1>0, <2>1, <2>4, OthersStay
<1>3. ASSUME NEW c \in Calls, LookForUser(c)
      PROVE  CallsOnPath'
  <2>1. PathOf(c) /\ c \in Registrations /\ call[c].token = Absent /\ call[c].spent \subseteq Tokens
    BY <1>3 DEF LookForUser, CallsOnPath, PathOf, EntryTypeOK
  <2>2. Absent \notin call[c].spent /\ c \notin Accepts /\ c \notin Verifies
    BY <2>1, CallsAssumption, TokensAssumption DEF Tokens
  <2>3. PICK to \in {"refused", "user"} : Go(c, "look", to)
    BY <1>3 DEF LookForUser
  <2>4. PathOf(c)'
    BY <1>0, <2>1, <2>2, <2>3, PathAfterGo
  <2> QED
    BY <1>a, <2>3, <2>4
<1>4. ASSUME NEW c \in Calls, InsertUser(c)
      PROVE  CallsOnPath'
  <2>1. PathOf(c) /\ c \notin Verifies /\ call[c].token \notin call[c].spent
    BY <1>4 DEF InsertUser, CallsOnPath, PathOf, Over
  <2>2. PICK to \in {"error", "org", "join"} :
          Go(c, "user", to) /\ (c \in Registrations \/ to # "org")
    BY <1>4 DEF InsertUser
  <2>3. c \in Accepts => c \notin Registrations
    BY CallsAssumption
  <2>4. PathOf(c)'
    BY <1>0, <2>1, <2>2, <2>3, PathAfterGo
  <2> QED
    BY <1>a, <2>2, <2>4
<1>5. ASSUME NEW c \in Calls, InsertOrg(c) \/ Join(c)
      PROVE  CallsOnPath'
  <2>1. PICK from \in {"org", "join"}, to \in {"join", "session"} : Go(c, from, to)
    BY <1>5 DEF InsertOrg, Join
  <2>2. PathOf(c) /\ call[c].at = from /\ c \notin Verifies /\ call[c].token \notin call[c].spent
    BY <2>1 DEF Go, CallsOnPath, PathOf, Over
  <2>3. PathOf(c)'
    BY <1>0, <2>1, <2>2, PathAfterGo
  <2> QED
    BY <1>a, <2>1, <2>3
<1>6. ASSUME NEW c \in Calls, OpenSession(c) \/ SpendLink(c)
      PROVE  CallsOnPath'
  <2>1. PICK from \in {"session", "spend"} : Go(c, from, "ok")
    BY <1>6 DEF OpenSession, SpendLink
  <2>2. PathOf(c) /\ call[c].at = from /\ call[c].token \notin call[c].spent
    BY <2>1 DEF Go, CallsOnPath, PathOf
  <2>3. PathOf(c)'
    BY <1>0, <2>1, <2>2, PathAfterGo DEF Over
  <2> QED
    BY <1>a, <2>1, <2>3
<1>7. ASSUME NEW c \in Calls, CheckInvitation(c) \/ CheckLink(c)
      PROVE  CallsOnPath'
  <2>1. /\ PathOf(c) /\ call[c].at = "look" /\ c \notin Registrations
        /\ call[c].token \in Tokens /\ call[c].spent \subseteq Spent
    BY <1>7, CallsAssumption DEF CheckInvitation, CheckLink, CallsOnPath, PathOf
  <2>2. PICK to \in {"refused", "find", "spend"} :
          /\ Go(c, "look", to)
          /\ \/ to = "refused"
             \/ Valid(call[c].token) /\ ((to = "find" /\ c \in Accepts) \/ (to = "spend" /\ c \in Verifies))
    <3>1. CASE ~Valid(call[c].token)
      BY <1>7, <3>1 DEF CheckInvitation, CheckLink
    <3>2. CASE Valid(call[c].token) /\ CheckInvitation(c)
      BY <3>2 DEF CheckInvitation
    <3>3. CASE Valid(call[c].token) /\ CheckLink(c)
      BY <3>3 DEF CheckLink
    <3> QED
      BY <1>7, <3>1, <3>2, <3>3
  <2>3. Valid(call[c].token) => call[c].token \notin call[c].spent
    BY <2>1 DEF Valid, Spent
  <2>4. (c \in Accepts => c \notin Verifies)
    BY CallsAssumption
  <2>5. PathOf(c)'
    BY <1>0, <2>1, <2>2, <2>3, <2>4, PathAfterGo DEF Over
  <2> QED
    BY <1>a, <2>2, <2>5
<1>8. ASSUME NEW c \in Calls, FindUser(c)
      PROVE  CallsOnPath'
  <2>1. PICK to \in {"join", "user"} : Go(c, "find", to)
    BY <1>8 DEF FindUser
  <2>2. PathOf(c) /\ call[c].at = "find" /\ c \notin Verifies /\ call[c].token \notin call[c].spent
    BY <2>1 DEF Go, CallsOnPath, PathOf, Over
  <2>3. PathOf(c)'
    BY <1>0, <2>1, <2>2, PathAfterGo
  <2> QED
    BY <1>a, <2>1, <2>3
<1>9. ASSUME NEW c \in Calls, Fail(c)
      PROVE  CallsOnPath'
  <2>1. PathOf(c) /\ call[c].at # "idle" /\ Go(c, call[c].at, "error")
    BY <1>9 DEF Fail, Go, CallsOnPath
  <2>2. PathOf(c)'
    BY <1>0, <2>1, PathAfterGo DEF Over
  <2> QED
    BY <1>a, <2>1, <2>2
<1>10. ASSUME NEW t \in Tokens,
              \/ Expire(t)
              \/ \E org \in orgs : IssueMagicLink(t, org) \/ \E e \in Emails : CreateInvitation(t, org, e)
       PROVE  CallsOnPath'
  <2>1. call' = call
    BY <1>10 DEF Expire, IssueMagicLink, CreateInvitation, Issue
  <2> QED
    BY <1>0, <2>1, PathKept DEF CallsOnPath
<1>11. CASE UNCHANGED entryVars
  BY <1>0, <1>11, PathKept DEF CallsOnPath, entryVars
<1> QED
  BY <1>1, <1>2, <1>3, <1>4, <1>5, <1>6, <1>7, <1>8, <1>9, <1>10, <1>11 DEF EntryNext

LEMMA InvitationsKept ==
  EntryTypeOK /\ CallsOnPath /\ InvitationsNameSomebody /\ [EntryNext]_entryVars => InvitationsNameSomebody'
<1> SUFFICES ASSUME EntryTypeOK, CallsOnPath, InvitationsNameSomebody, [EntryNext]_entryVars,
                    NEW t \in Invitations, token'[t].org # Absent
             PROVE  token'[t].email \in Emails
  BY DEF InvitationsNameSomebody
<1>0. t \in Tokens
  BY DEF Tokens
<1>1. CASE token[t].org # Absent
  BY <1>0, <1>1, TokensStayGiven DEF TokensStay, InvitationsNameSomebody
<1>2. CASE token[t].org = Absent
  <2> USE DEF EntryTypeOK
  <2>1. ASSUME NEW u \in Tokens, NEW org \in orgs, NEW e \in Emails, CreateInvitation(u, org, e)
        PROVE  token'[t].email \in Emails
    BY <1>0, <1>2, <2>1 DEF CreateInvitation, Issue
  <2>2. ASSUME NEW u \in Tokens, NEW org \in orgs, IssueMagicLink(u, org)
        PROVE  token'[t].org = Absent
    BY <1>0, <1>2, <2>2, TokensAssumption DEF IssueMagicLink, Issue
  <2>3. ASSUME NEW u \in Tokens, Expire(u)
        PROVE  token'[t].org = Absent
    BY <1>0, <1>2, <2>3 DEF Expire
  <2>4. ASSUME NEW c \in Calls, Join(c) \/ SpendLink(c)
        PROVE  token'[t].org = Absent
    BY <1>0, <1>2, <2>4 DEF Join, SpendLink
  <2>5. ASSUME NEW c \in Registrations, NEW e \in Emails, Register(c, e)
        PROVE  token' = token
    BY <2>5 DEF Register, Begin
  <2>6. ASSUME NEW c \in Calls,
               \/ LookForUser(c) \/ InsertUser(c) \/ InsertOrg(c) \/ OpenSession(c)
               \/ CheckInvitation(c) \/ FindUser(c) \/ CheckLink(c) \/ Fail(c)
               \/ \E u \in Tokens : UseToken(c, u)
        PROVE  token' = token
    BY <2>6 DEF LookForUser, InsertUser, InsertOrg, OpenSession, CheckInvitation, FindUser,
                CheckLink, Fail, UseToken, Begin
  <2>7. CASE UNCHANGED entryVars
    BY <1>2, <2>7 DEF entryVars
  <2> QED
    BY <1>2, <2>1, <2>2, <2>3, <2>4, <2>5, <2>6, <2>7 DEF EntryNext
<1> QED
  BY <1>1, <1>2

(* What a step that is no fault does to the accounts: a call goes on to the
   insert after, a user or an organization is of a call about to join, and who
   goes past the join is a member. *)
GoesOn(d) ==
  /\ call[d].at # "idle" => call'[d].email = call[d].email
  /\ call[d].at = "org" => call'[d].at \in {"org", "join"}
  /\ call[d].at = "join" =>
       \/ call'[d].at = "join"
       \/ /\ call'[d].at = "session"
          /\ \E m \in members' : m.user = call[d].email /\ (d \in Registrations => m.org = d)
  /\ call[d].at = "session" => call'[d].at \in {"session", "ok"}
  /\ call[d].at \in {"ok", "error"} => call'[d].at = call[d].at

MakerStays(e) ==
  \/ maker'[e] = maker[e]
  \/ /\ maker[e] = Absent /\ maker'[e] \in Calls
     /\ call'[maker'[e]].at \in {"org", "join"} /\ call'[maker'[e]].email = e

AccountsProgress ==
  /\ \A d \in Calls : GoesOn(d)
  /\ members \subseteq members'
  /\ \A e \in Emails : MakerStays(e)
  /\ \A o \in orgs' : o \in orgs \/ call'[o].at = "join"
  /\ entryFaults' = entryFaults

LEMMA UnmovedGoesOn ==
  ASSUME NEW d \in Calls, call'[d] = call[d] PROVE GoesOn(d)
BY DEF GoesOn

LEMMA ProgressBy ==
  ASSUME EntryTypeOK, NEW c \in Calls, NEW from, NEW to, Go(c, from, to), GoesOn(c),
         UNCHANGED <<maker, orgs, members, entryFaults>>
  PROVE  AccountsProgress
<1>1. \A d \in Calls : d # c => call'[d] = call[d]
  BY OneCallMoves
<1>2. \A d \in Calls : GoesOn(d)
  BY <1>1, UnmovedGoesOn
<1> QED
  BY <1>2 DEF AccountsProgress, MakerStays

LEMMA StepsProgress ==
  EntryTypeOK /\ CallsOnPath /\ [EntryNext]_entryVars => AccountsProgress \/ \E c \in Calls : Fail(c)
<1> SUFFICES ASSUME EntryTypeOK, CallsOnPath, [EntryNext]_entryVars, ~\E c \in Calls : Fail(c)
             PROVE  AccountsProgress
  OBVIOUS
<1>1. ASSUME NEW c \in Calls, call[c].at = "idle",
             \A d \in Calls \ {c} : call'[d] = call[d], UNCHANGED <<maker, orgs, members, entryFaults>>
      PROVE  AccountsProgress
  <2>1. \A d \in Calls : GoesOn(d)
    BY <1>1 DEF GoesOn
  <2> QED
    BY <1>1, <2>1 DEF AccountsProgress, MakerStays
<1>2. ASSUME NEW c \in Registrations, NEW e \in Emails, Register(c, e)
      PROVE  AccountsProgress
  BY <1>1, <1>2 DEF Register, Begin, EntryTypeOK, Calls
<1>3. ASSUME NEW c \in Calls, NEW t \in Tokens, UseToken(c, t)
      PROVE  AccountsProgress
  BY <1>1, <1>3 DEF UseToken, Begin, EntryTypeOK
<1>4. ASSUME NEW c \in Calls, LookForUser(c) \/ CheckInvitation(c) \/ FindUser(c) \/ CheckLink(c) \/ SpendLink(c)
      PROVE  AccountsProgress
  <2>1. PICK from \in {"look", "find", "spend"},
             to \in {"refused", "user", "find", "join", "spend", "ok"} : Go(c, from, to)
    BY <1>4 DEF LookForUser, CheckInvitation, FindUser, CheckLink, SpendLink
  <2>2. GoesOn(c)
    BY <2>1, OneCallMoves DEF GoesOn
  <2>3. UNCHANGED <<maker, orgs, members, entryFaults>>
    BY <1>4 DEF LookForUser, CheckInvitation, FindUser, CheckLink, SpendLink
  <2> QED
    BY <2>1, <2>2, <2>3, ProgressBy
<1>5. ASSUME NEW c \in Calls, OpenSession(c)
      PROVE  AccountsProgress
  <2>1. Go(c, "session", "ok") /\ UNCHANGED <<maker, orgs, members, entryFaults>>
    BY <1>5 DEF OpenSession
  <2>2. GoesOn(c)
    <3>1. call[c].at = "session" /\ call'[c].email = call[c].email /\ call'[c].at = "ok"
      BY <2>1 DEF Go, EntryTypeOK
    <3> QED
      BY <3>1 DEF GoesOn
  <2> QED
    BY <2>1, <2>2, ProgressBy
<1>6. ASSUME NEW c \in Calls, InsertUser(c)
      PROVE  AccountsProgress
  <2>1. call[c].at = "user" /\ call[c].email \in Emails
    BY <1>6 DEF InsertUser, CallsOnPath, PathOf, Over
  <2>2. PICK to \in {"error", "org", "join"} : Go(c, "user", to) /\ (to = "error" => UNCHANGED maker)
    BY <1>6 DEF InsertUser
  <2>3. GoesOn(c)
    <3>1. call'[c].email = call[c].email
      BY <2>2 DEF Go, EntryTypeOK
    <3> QED
      BY <2>1, <3>1 DEF GoesOn
  <2>4. \A d \in Calls : GoesOn(d)
    BY <2>2, <2>3, OneCallMoves, UnmovedGoesOn
  <2>5. ASSUME NEW e \in Emails PROVE MakerStays(e)
    <3>1. CASE Exists(call[c].email)
      BY <1>6, <3>1 DEF InsertUser, MakerStays
    <3>2. CASE ~Exists(call[c].email)
      <4>1. maker' = [maker EXCEPT ![call[c].email] = c] /\ to # "error"
        BY <1>6, <2>2, <3>2 DEF InsertUser, Go, EntryTypeOK
      <4>2. call'[c].at \in {"org", "join"} /\ call'[c].email = call[c].email
        BY <2>2, <4>1 DEF Go, EntryTypeOK
      <4>3. CASE e = call[c].email
        BY <2>1, <3>2, <4>1, <4>2, <4>3 DEF MakerStays, Exists, EntryTypeOK
      <4>4. CASE e # call[c].email
        BY <2>1, <4>1, <4>4 DEF MakerStays, EntryTypeOK
      <4> QED
        BY <4>3, <4>4
    <3> QED
      BY <3>1, <3>2
  <2>6. UNCHANGED <<orgs, members, entryFaults>>
    BY <1>6 DEF InsertUser
  <2> QED
    BY <2>4, <2>5, <2>6 DEF AccountsProgress
<1>7. ASSUME NEW c \in Calls, InsertOrg(c)
      PROVE  AccountsProgress
  <2>1. Go(c, "org", "join") /\ orgs' = orgs \cup {c} /\ UNCHANGED <<maker, members, entryFaults>>
    BY <1>7 DEF InsertOrg
  <2>2. call[c].at = "org" /\ call'[c].email = call[c].email /\ call'[c].at = "join"
    BY <2>1 DEF Go, EntryTypeOK
  <2>3. GoesOn(c)
    BY <2>2 DEF GoesOn
  <2>4. \A d \in Calls : GoesOn(d)
    BY <2>1, <2>3, OneCallMoves, UnmovedGoesOn
  <2> QED
    BY <2>1, <2>2, <2>4 DEF AccountsProgress, MakerStays
<1>8. ASSUME NEW c \in Calls, Join(c)
      PROVE  AccountsProgress
  <2>1. Go(c, "join", "session") /\ UNCHANGED <<maker, orgs, entryFaults>>
    BY <1>8 DEF Join
  <2>2. members' = members \cup {[user |-> call[c].email, org |-> OrgOf(c), by |-> c]}
    BY <1>8 DEF Join
  <2>3. call[c].at = "join" /\ call'[c].email = call[c].email /\ call'[c].at = "session"
    BY <2>1 DEF Go, EntryTypeOK
  <2>4. GoesOn(c)
    <3> DEFINE m == [user |-> call[c].email, org |-> OrgOf(c), by |-> c]
    <3>1. m \in members' /\ m.user = call[c].email /\ m.org = OrgOf(c)
      BY <2>2
    <3>2. c \in Registrations => OrgOf(c) = c
      BY DEF OrgOf
    <3> HIDE DEF m
    <3> QED
      BY <2>3, <3>1, <3>2 DEF GoesOn
  <2>5. \A d \in Calls : GoesOn(d)
    BY <2>1, <2>4, OneCallMoves, UnmovedGoesOn
  <2> QED
    BY <2>1, <2>2, <2>5 DEF AccountsProgress, MakerStays
<1>9. ASSUME NEW t \in Tokens,
              \/ Expire(t)
              \/ \E org \in orgs : IssueMagicLink(t, org) \/ \E e \in Emails : CreateInvitation(t, org, e)
      PROVE  AccountsProgress
  BY <1>9, UnmovedGoesOn DEF Expire, IssueMagicLink, CreateInvitation, Issue, AccountsProgress, MakerStays
<1>10. CASE UNCHANGED entryVars
  BY <1>10, UnmovedGoesOn DEF entryVars, AccountsProgress, MakerStays
<1> QED
  BY <1>2, <1>3, <1>4, <1>5, <1>6, <1>7, <1>8, <1>9, <1>10 DEF EntryNext

(* A fault ends one call and touches no row. *)
LEMMA FaultStops ==
  ASSUME EntryTypeOK, NEW c \in Calls, Fail(c)
  PROVE  /\ call'[c].at = "error" /\ \A d \in Calls : d # c => call'[d] = call[d]
         /\ \A d \in Calls : call'[d].email = call[d].email
         /\ call[c].at \notin Over
         /\ UNCHANGED <<maker, orgs, members>> /\ entryFaults' = entryFaults + 1
BY DEF Fail, EntryTypeOK

LEMMA AccountsKept ==
  EntryInv /\ [EntryNext]_entryVars => /\ \A e \in Emails : MakerJoins(e)'
                                       /\ \A o \in orgs' : FounderJoins(o)'
<1> SUFFICES ASSUME EntryInv, [EntryNext]_entryVars
             PROVE  /\ \A e \in Emails : MakerJoins(e)'
                    /\ \A o \in orgs' : FounderJoins(o)'
  OBVIOUS
<1> USE DEF EntryInv
<1>1. ASSUME AccountsProgress, NEW e \in Emails PROVE MakerJoins(e)'
  <2>1. CASE maker'[e] = maker[e] /\ Exists(e)
    <3> DEFINE c == maker[e]
    <3>1. c \in Calls /\ call[c].email = e /\ GoesOn(c) /\ call[c].at # "idle"
      BY <1>1, <2>1 DEF MakerJoins, AccountsProgress
    <3>2. call'[c].email = e
      BY <3>1 DEF GoesOn
    <3>3. CASE call[c].at \in {"org", "error"}
      BY <2>1, <3>1, <3>2, <3>3 DEF GoesOn, MakerJoins
    <3>4. CASE call[c].at = "join"
      BY <2>1, <3>1, <3>2, <3>4 DEF GoesOn, MakerJoins, MembershipsOf
    <3>5. CASE call[c].at \in {"session", "ok"} /\ MembershipsOf(e) # {}
      <4>1. MembershipsOf(e)' # {}
        BY <1>1, <3>5 DEF AccountsProgress, MembershipsOf
      <4> QED
        BY <2>1, <3>1, <3>2, <3>5, <4>1 DEF GoesOn, MakerJoins
    <3> QED
      BY <2>1, <3>3, <3>4, <3>5 DEF MakerJoins
  <2>2. CASE maker'[e] = maker[e] /\ ~Exists(e)
    BY <2>2 DEF MakerJoins, Exists
  <2>3. CASE maker'[e] # maker[e]
    BY <1>1, <2>3 DEF AccountsProgress, MakerStays, MakerJoins
  <2> QED
    BY <2>1, <2>2, <2>3
<1>2. ASSUME AccountsProgress, NEW o \in orgs' PROVE FounderJoins(o)'
  <2>1. CASE o \notin orgs
    BY <1>2, <2>1 DEF AccountsProgress, FounderJoins
  <2>2. CASE o \in orgs
    <3>1. FounderJoins(o) /\ o \in Registrations /\ o \in Calls /\ GoesOn(o)
      BY <1>2, <2>2 DEF EntryTypeOK, AccountsProgress, Calls
    <3>2. CASE call[o].at = "error"
      BY <3>1, <3>2 DEF GoesOn, FounderJoins
    <3>3. CASE call[o].at = "join"
      BY <3>1, <3>3 DEF GoesOn, FounderJoins
    <3>4. CASE call[o].at \in {"session", "ok"} /\ \E m \in members : m.org = o
      BY <1>2, <3>1, <3>4 DEF GoesOn, FounderJoins, AccountsProgress
    <3> QED
      BY <3>1, <3>2, <3>3, <3>4 DEF FounderJoins
  <2> QED
    BY <2>1, <2>2
<1>3. ASSUME NEW c \in Calls, Fail(c)
      PROVE  /\ \A e \in Emails : MakerJoins(e)'
             /\ \A o \in orgs' : FounderJoins(o)'
  <2>1. ASSUME NEW e \in Emails PROVE MakerJoins(e)'
    BY <1>3, FaultStops DEF MakerJoins, Exists, MembershipsOf
  <2>2. ASSUME NEW o \in orgs' PROVE FounderJoins(o)'
    <3>1. o \in orgs /\ o \in Calls /\ FounderJoins(o) /\ UNCHANGED members
      BY <1>3, FaultStops DEF EntryTypeOK, Calls
    <3> QED
      BY <1>3, <3>1, FaultStops DEF FounderJoins
  <2> QED
    BY <2>1, <2>2
<1> QED
  BY <1>1, <1>2, <1>3, StepsProgress

LEMMA MoreFaults ==
  ASSUME EntryTypeOK, NEW S, CostFaults(S), NEW T,
         \/ T \subseteq S /\ entryFaults' = entryFaults
         \/ entryFaults' = entryFaults + 1 /\ \E x : T \subseteq S \cup {x}
  PROVE  CostFaults(T)'
<1>1. entryFaults \in Nat /\ entryFaults' \in Nat
  BY DEF EntryTypeOK
<1>2. IsFiniteSet(S) /\ Cardinality(S) <= entryFaults
  BY DEF CostFaults
<1> QED
  BY <1>1, <1>2, OneMoreAtMost DEF CostFaults

(* Only a fault makes a half account of one that was not. *)
LEMMA HalvesKept ==
  ASSUME EntryInv, EntryTypeOK', AccountsProgress
  PROVE  HalfUsers' \subseteq HalfUsers /\ HalfOrgs' \subseteq HalfOrgs
<1> USE DEF EntryInv, Over
<1>1. ASSUME NEW e \in HalfUsers' PROVE e \in HalfUsers
  <2>1. /\ e \in Emails /\ Exists(e)' /\ MembershipsOf(e)' = {}
        /\ call'[maker'[e]].at \in Over /\ MakerStays(e) /\ MakerJoins(e)
    BY <1>1 DEF HalfUsers, AccountsProgress
  <2>2. MembershipsOf(e) = {}
    BY <2>1 DEF MembershipsOf, AccountsProgress
  <2>3. maker'[e] = maker[e] /\ Exists(e)
    BY <2>1 DEF MakerStays, Exists
  <2>4. maker[e] \in Calls /\ GoesOn(maker[e])
    BY <2>1, <2>3 DEF MakerJoins, AccountsProgress
  <2>5. call[maker[e]].at = "error"
    BY <2>1, <2>2, <2>3, <2>4 DEF MakerJoins, GoesOn
  <2> QED
    BY <2>1, <2>2, <2>3, <2>5 DEF HalfUsers
<1>2. ASSUME NEW o \in HalfOrgs' PROVE o \in HalfOrgs
  <2>1. /\ o \in orgs' /\ call'[o].at \in Over /\ \A m \in members' : m.org # o
    BY <1>2 DEF HalfOrgs
  <2>2. /\ o \in orgs /\ o \in Calls /\ o \in Registrations /\ FounderJoins(o) /\ GoesOn(o)
        /\ \A m \in members : m.org # o
    BY <2>1 DEF AccountsProgress, EntryTypeOK, Calls
  <2>3. call[o].at = "error"
    BY <2>1, <2>2 DEF FounderJoins, GoesOn
  <2> QED
    BY <2>2, <2>3 DEF HalfOrgs
<1> QED
  BY <1>1, <1>2

LEMMA FaultHalves ==
  ASSUME EntryInv, NEW c \in Calls, Fail(c)
  PROVE  /\ HalfUsers' \subseteq HalfUsers \cup {call[c].email}
         /\ HalfOrgs' \subseteq HalfOrgs \cup {c}
<1> USE DEF EntryInv
<1>1. ASSUME NEW e \in HalfUsers' PROVE e \in HalfUsers \cup {call[c].email}
  BY <1>1, FaultStops DEF HalfUsers, MakerJoins, Exists, MembershipsOf
<1>2. ASSUME NEW o \in HalfOrgs' PROVE o \in HalfOrgs \cup {c}
  <2>1. o \in orgs /\ o \in Calls /\ members' = members /\ call'[o].at \in Over
        /\ \A m \in members : m.org # o
    BY <1>2, FaultStops DEF HalfOrgs, EntryTypeOK, Calls
  <2> QED
    BY <2>1, FaultStops DEF HalfOrgs
<1> QED
  BY <1>1, <1>2

LEMMA EntryStep == EntryInv /\ [EntryNext]_entryVars => EntryInv'
<1> SUFFICES ASSUME EntryInv, [EntryNext]_entryVars PROVE EntryInv'
  OBVIOUS
<1>1. EntryTypeOK' /\ CallsOnPath' /\ InvitationsNameSomebody'
  BY EntryTypes, PathsKept, InvitationsKept DEF EntryInv
<1>2. (\A e \in Emails : MakerJoins(e)') /\ \A o \in orgs' : FounderJoins(o)'
  BY AccountsKept
<1>3. AccountsProgress \/ \E c \in Calls : Fail(c)
  BY StepsProgress DEF EntryInv
<1>4. CostFaults(HalfUsers)' /\ CostFaults(HalfOrgs)'
  <2>1. CASE AccountsProgress
    <3>1. HalfUsers' \subseteq HalfUsers /\ HalfOrgs' \subseteq HalfOrgs /\ entryFaults' = entryFaults
      BY <1>1, <2>1, HalvesKept DEF AccountsProgress
    <3>2. EntryTypeOK /\ CostFaults(HalfUsers) /\ CostFaults(HalfOrgs)
      BY DEF EntryInv
    <3> QED
      BY <3>1, <3>2, MoreFaults DEF CostFaults
  <2>2. ASSUME NEW c \in Calls, Fail(c)
        PROVE  CostFaults(HalfUsers)' /\ CostFaults(HalfOrgs)'
    <3>1. /\ HalfUsers' \subseteq HalfUsers \cup {call[c].email}
          /\ HalfOrgs' \subseteq HalfOrgs \cup {c} /\ entryFaults' = entryFaults + 1
      BY <2>2, FaultHalves, FaultStops DEF EntryInv
    <3>2. EntryTypeOK /\ CostFaults(HalfUsers) /\ CostFaults(HalfOrgs)
      BY DEF EntryInv
    <3> QED
      BY <3>1, <3>2, MoreFaults DEF CostFaults
  <2> QED
    BY <1>3, <2>1, <2>2
<1> QED
  BY <1>1, <1>2, <1>4 DEF EntryInv

LEMMA EntryInvariant == EntrySpec => []EntryInv
<1>1. EntryInv /\ UNCHANGED entryVars => EntryInv'
  BY EntryStep
<1> QED
  BY EntryInitInv, EntryStep, PTL DEF EntrySpec

(* Onboarding: rows and calls have their types, for any number of calls,   *)
(* tokens and faults. *)
THEOREM EntryTypesHold == EntrySpec => []EntryTypeOK
<1>1. EntryInv => EntryTypeOK
  BY DEF EntryInv
<1> QED
  BY <1>1, EntryInvariant, PTL

(* acceptInvitation and verifyMagicLink let nobody in with a token that was *)
(* used up before the call began. *)
THEOREM TokensOnce == EntrySpec => []UsedTwiceOnlyByOverlap
<1>1. EntryInv => UsedTwiceOnlyByOverlap
  BY DEF EntryInv, CallsOnPath, PathOf, UsedTwiceOnlyByOverlap
<1> QED
  BY <1>1, EntryInvariant, PTL

(* register and acceptInvitation: as many half accounts as faults, at most. *)
THEOREM HalvesCostFaults == EntrySpec => []HalfMadeOnlyByFaults
<1>1. EntryInv => HalfMadeOnlyByFaults
  BY DEF EntryInv, CostFaults, HalfUsers, HalfOrgs, HalfMadeOnlyByFaults
<1> QED
  BY <1>1, EntryInvariant, PTL
=============================================================================
