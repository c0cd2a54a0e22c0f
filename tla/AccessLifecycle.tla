--------------------------- MODULE AccessLifecycle ---------------------------
(***************************************************************************)
(* Door credentials: issued by the API (AccessService) or by the workflow  *)
(* engine, revoked by the API, activated and expired by the scheduler of   *)
(* services/workers.                                                       *)
(*                                                                         *)
(* A credential is named by the call that inserts its row.  The scheduler  *)
(* is a timer: ticks overlap, and each one works through rows it selected  *)
(* earlier, writing by id whatever has happened to the row since.  A tick  *)
(* compares windows with the clock value it started with.  The audit rows  *)
(* with which the API's calls end are left out: nothing here reads them.   *)
(***************************************************************************)
EXTENDS Integers, FiniteSets

CONSTANTS
  Creds,      \* credentials, each one named by the call that issues it
  ByEngine,   \* those inserted by the workflow engine, not by the API
  Window,     \* validity of each credential, [from, to]
  Ticks,      \* scheduler ticks that can be in progress at once
  Horizon,    \* the model's last instant
  MaxFaults,  \* bound on failed database calls and process stops together
  None

CredStatus == {"pending", "active", "expired", "revoked"}
EventKind == {"issued", "granted", "expired", "revoked"}

ASSUME EngineAssumption == ByEngine \subseteq Creds
ASSUME HorizonAssumption == Horizon \in Nat
ASSUME WindowAssumption == Window \in [Creds -> [from : 0 .. Horizon, to : 0 .. Horizon]]
ASSUME FaultsAssumption == MaxFaults \in Nat
ASSUME NoneAssumption == None \notin Creds \cup CredStatus

VARIABLES
  now,      \* the clock
  cred,     \* access_credentials: status of each row, or None
  log,      \* access_events: the kinds of event written for each credential
  codes,    \* credentials whose code the lock provider knows
  issue,    \* where the call that issues each credential is
  revoke,   \* where the call that revokes each credential is
  tick,     \* each tick: phase, its clock value, rows left, the row just updated
  faults

vars == <<now, cred, log, codes, issue, revoke, tick, faults>>

(* A call is idle, between two steps, or has ended one way or another. *)
IssueStep == {"provider", "insert"}
RevokeStep == {"provider"}
Ended == {"ok", "refused", "error"}

Idle == [phase |-> "idle", at |-> 0, rows |-> {}, done |-> None]

Init ==
  /\ now = 0
  /\ cred = [c \in Creds |-> None]
  /\ log = [c \in Creds |-> {}]
  /\ codes = {}
  /\ issue = [c \in Creds |-> "idle"]
  /\ revoke = [c \in Creds |-> "idle"]
  /\ tick = [t \in Ticks |-> Idle]
  /\ faults = 0

Record(c, kind) == log' = [log EXCEPT ![c] = @ \cup {kind}]

----------------------------------------------------------------------------
(* issueCredential and the engine's action. *)

(* Read the booking and the lock, and check the window. *)
Lookup(c) ==
  /\ issue[c] = "idle" /\ c \notin ByEngine
  /\ issue' = [issue EXCEPT ![c] =
                 IF Window[c].from < Window[c].to THEN "provider" ELSE "refused"]
  /\ UNCHANGED <<now, cred, log, codes, revoke, tick, faults>>

IssueCode(c) ==
  /\ issue[c] = "provider"
  /\ codes' = codes \cup {c}
  /\ issue' = [issue EXCEPT ![c] = "insert"]
  /\ UNCHANGED <<now, cred, log, revoke, tick, faults>>

(* The lock is offline: nothing has been written yet. *)
IssueCodeFails(c) ==
  /\ issue[c] = "provider"
  /\ issue' = [issue EXCEPT ![c] = "error"]
  /\ UNCHANGED <<now, cred, log, codes, revoke, tick, faults>>

InsertCredential(c) ==
  /\ issue[c] = "insert"
  /\ cred' = [cred EXCEPT ![c] = "pending"]
  /\ Record(c, "issued")
  /\ issue' = [issue EXCEPT ![c] = "ok"]
  /\ UNCHANGED <<now, codes, revoke, tick, faults>>

(* access.issueCredential of the engine: a row without code, event or check. *)
EngineInsert(c) ==
  /\ issue[c] = "idle" /\ c \in ByEngine
  /\ cred' = [cred EXCEPT ![c] = "pending"]
  /\ issue' = [issue EXCEPT ![c] = "ok"]
  /\ UNCHANGED <<now, log, codes, revoke, tick, faults>>

----------------------------------------------------------------------------
(* revokeCredential: one call per credential (a second one repeats it). *)

(* Mutant of RevokeRow: the lock is told only of active credentials. *)
RevokeActive(c) ==
  /\ revoke[c] = "idle" /\ cred[c] # None
  /\ cred' = [cred EXCEPT ![c] = "revoked"]
  /\ Record(c, "revoked")
  /\ revoke' = [revoke EXCEPT ![c] =
                  IF cred[c] = "active" /\ c \notin ByEngine THEN "provider" ELSE "ok"]
  /\ UNCHANGED <<now, codes, issue, tick, faults>>

RevokeRow(c) ==
  /\ revoke[c] = "idle" /\ cred[c] # None
  /\ cred' = [cred EXCEPT ![c] = "revoked"]
  /\ Record(c, "revoked")
  /\ revoke' = [revoke EXCEPT ![c] = IF c \in ByEngine THEN "ok" ELSE "provider"]
  /\ UNCHANGED <<now, codes, issue, tick, faults>>

RevokeCode(c) ==
  /\ revoke[c] = "provider"
  /\ codes' = codes \ {c}
  /\ revoke' = [revoke EXCEPT ![c] = "ok"]
  /\ UNCHANGED <<now, cred, log, issue, tick, faults>>

----------------------------------------------------------------------------
(* tickAccessLifecycle. *)

(* Mutants: validFrom is not looked at; a stay that is over is not activated;
   every row past validTo is expired. *)
SelectAnyPending(at) == {c \in Creds : cred[c] = "pending"}
SelectAllPast(at) == {c \in Creds : cred[c] # None /\ Window[c].to <= at}
SelectOpen(at) ==
  {c \in Creds : cred[c] = "pending" /\ Window[c].from <= at /\ at < Window[c].to}

ToActivate(at) == {c \in Creds : cred[c] = "pending" /\ Window[c].from <= at}
ToExpire(at) == {c \in Creds : cred[c] = "active" /\ Window[c].to <= at}

(* The timer fires.  A tick that finds nothing to do, with no other at work,
   changes nothing and is left out. *)
BeginTick(t) ==
  /\ tick[t] = Idle
  /\ \/ ToActivate(now) \cup ToExpire(now) # {}
     \/ \E s \in Ticks : tick[s].rows # {}
  /\ tick' = [tick EXCEPT ![t] =
                [phase |-> "activate", at |-> now, rows |-> ToActivate(now), done |-> None]]
  /\ UNCHANGED <<now, cred, log, codes, issue, revoke, faults>>

(* What the tick writes, to access_events and to the row. *)
EventOf(t) == IF tick[t].phase = "activate" THEN "granted" ELSE "expired"
Target(t) == IF tick[t].phase = "activate" THEN "active" ELSE "expired"

(* UPDATE ... WHERE id: the row's present status is not asked. *)
UpdateRow(t) ==
  /\ tick[t].done = None
  /\ \E c \in tick[t].rows :
       /\ cred' = [cred EXCEPT ![c] = Target(t)]
       /\ tick' = [tick EXCEPT ![t].done = c]
  /\ UNCHANGED <<now, log, codes, issue, revoke, faults>>

(* Mutant of WriteEvent: no event for a row that has been revoked since. *)
WriteEventUnlessRevoked(t) ==
  LET c == tick[t].done IN
  /\ c # None
  /\ log' = [log EXCEPT ![c] = IF "revoked" \in @ THEN @ ELSE @ \cup {EventOf(t)}]
  /\ tick' = [tick EXCEPT ![t].rows = @ \ {c}, ![t].done = None]
  /\ UNCHANGED <<now, cred, codes, issue, revoke, faults>>

WriteEvent(t) ==
  LET c == tick[t].done IN
  /\ c # None
  /\ Record(c, EventOf(t))
  /\ tick' = [tick EXCEPT ![t].rows = @ \ {c}, ![t].done = None]
  /\ UNCHANGED <<now, cred, codes, issue, revoke, faults>>

(* The first loop is done: select what has ended at the tick's own time. *)
SecondHalf(t) ==
  /\ tick[t].phase = "activate" /\ tick[t].rows = {}
  /\ tick' = [tick EXCEPT ![t] =
                [phase |-> "expire", at |-> @.at, rows |-> ToExpire(@.at), done |-> None]]
  /\ UNCHANGED <<now, cred, log, codes, issue, revoke, faults>>

EndTick(t) ==
  /\ tick[t].phase = "expire" /\ tick[t].rows = {}
  /\ tick' = [tick EXCEPT ![t] = Idle]
  /\ UNCHANGED <<now, cred, log, codes, issue, revoke, faults>>

----------------------------------------------------------------------------
(* The environment. *)

Advance ==
  /\ now < Horizon
  /\ now' = now + 1
  /\ UNCHANGED <<cred, log, codes, issue, revoke, tick, faults>>

(* A database call fails, or the process stops, in the middle of a call. *)
IssueBreaks(c) ==
  /\ issue[c] \in IssueStep
  /\ faults < MaxFaults
  /\ faults' = faults + 1
  /\ issue' = [issue EXCEPT ![c] = "error"]
  /\ UNCHANGED <<now, cred, log, codes, revoke, tick>>

RevokeBreaks(c) ==
  /\ revoke[c] \in RevokeStep
  /\ faults < MaxFaults
  /\ faults' = faults + 1
  /\ revoke' = [revoke EXCEPT ![c] = "error"]
  /\ UNCHANGED <<now, cred, log, codes, issue, tick>>

(* An exception ends one tick, a crash of the worker ends all of them. *)
TickBreaks(t) ==
  /\ tick[t] # Idle
  /\ faults < MaxFaults
  /\ faults' = faults + 1
  /\ \/ tick' = [tick EXCEPT ![t] = Idle]
     \/ tick' = [s \in Ticks |-> Idle]
  /\ UNCHANGED <<now, cred, log, codes, issue, revoke>>

IssueNext(c) ==
  \/ Lookup(c) \/ IssueCode(c) \/ IssueCodeFails(c) \/ InsertCredential(c)
  \/ EngineInsert(c)

RevokeNext(c) == RevokeRow(c) \/ RevokeCode(c)

TickNext(t) == BeginTick(t) \/ UpdateRow(t) \/ WriteEvent(t) \/ SecondHalf(t) \/ EndTick(t)

Next ==
  \/ \E c \in Creds : IssueNext(c) \/ RevokeNext(c) \/ IssueBreaks(c) \/ RevokeBreaks(c)
  \/ \E t \in Ticks : TickNext(t) \/ TickBreaks(t)
  \/ Advance

(* Time passes and the timer of the worker keeps firing; calls of the API may
   never be made. *)
Fairness == WF_vars(Advance) /\ \A t \in Ticks : WF_vars(TickNext(t))

Spec == Init /\ [][Next]_vars /\ Fairness

----------------------------------------------------------------------------
(* Every row, call and tick has one of the values the schema and the code
   give it. *)
TypeOK ==
  /\ now \in 0 .. Horizon
  /\ cred \in [Creds -> CredStatus \cup {None}]
  /\ log \in [Creds -> SUBSET EventKind]
  /\ codes \subseteq Creds \ ByEngine
  /\ issue \in [Creds -> {"idle"} \cup IssueStep \cup Ended]
  /\ revoke \in [Creds -> {"idle"} \cup RevokeStep \cup Ended]
  /\ tick \in [Ticks -> [phase : {"idle", "activate", "expire"}, at : 0 .. now,
                         rows : SUBSET Creds, done : Creds \cup {None}]]
  /\ faults \in 0 .. MaxFaults

Held(c) == \E t \in Ticks : c \in tick[t].rows

(* No door opens early and no key is taken early: whatever ticks overlap and
   however stale their rows are, a credential is active only once its window
   has begun, and expired only once it has ended. *)
TimeBoxed ==
  \A c \in Creds :
    /\ cred[c] = "active" => Window[c].from <= now
    /\ cred[c] = "expired" => Window[c].to <= now

(* A status that access_events does not tell of, with no tick about to. *)
Untold(c) ==
  LET Missing(status, kind, phase) ==
        /\ cred[c] = status /\ kind \notin log[c]
        /\ \A t \in Ticks : ~(tick[t].done = c /\ tick[t].phase = phase)
  IN \/ Missing("active", "granted", "activate")
     \/ Missing("expired", "expired", "expire")
     \/ cred[c] = "revoked" /\ "revoked" \notin log[c]

(* Every change of status gets its access_event: a credential is left untold by
   nothing but the failure or stop of a tick caught between writing its row and
   writing its event, and of no other row. *)
TransitionsLogged ==
  [][\A c \in Creds :
       Untold(c)' => \/ Untold(c)
                     \/ /\ faults' = faults + 1
                        /\ \E t \in Ticks : tick[t].done = c /\ tick'[t].done = None]_vars

(* Codes in the lock that no call accounts for any more: of a credential whose
   row was never written, or which was revoked by a call that is over. *)
Stray ==
  {c \in codes : \/ cred[c] = None /\ issue[c] # "insert"
                 \/ revoke[c] \in Ended}

(* The door opens to every API credential that is pending or active and was
   never revoked; and each code that the lock has kept for no row, or past the
   answer to a revocation, has cost a fault of its own.  Of expired credentials
   this says nothing: ExpiredCodesAreRevoked does. *)
CodesFollowRows ==
  /\ \A c \in Creds \ ByEngine :
       cred[c] \in {"pending", "active"} /\ "revoked" \notin log[c] => c \in codes
  /\ Cardinality(Stray) <= faults

(* "auto-revoke at checkout": once the scheduler is done with an expired
   credential, the lock has forgotten its code. *)
ExpiredCodesAreRevoked ==
  \A c \in Creds : cred[c] = "expired" /\ ~Held(c) => c \notin codes

(* A revocation can be undone by a tick that selected the row before it, and by
   nothing else: once no tick holds the row, it stays revoked and unselected. *)
RevocationSettles ==
  [][\A c \in Creds :
       cred[c] = "revoked" /\ ~Held(c) => cred'[c] = "revoked" /\ ~Held(c)']_vars

(* No key outlives its stay: when its window has ended, a credential ends up
   expired or revoked for good, whatever fails and whatever ticks overlap. *)
KeysAreTakenBack ==
  \A c \in Creds :
    cred[c] # None ~> [](cred[c] \in {"expired", "revoked"})
=============================================================================
