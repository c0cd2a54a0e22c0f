----------------------------- MODULE Operations -----------------------------
(***************************************************************************)
(* Turnover tasks and maintenance tickets: the handlers of apps/api and    *)
(* the dashboard pages that call them.                                     *)
(*                                                                         *)
(* No handler looks at the status it overwrites: what keeps a task or a    *)
(* ticket on its course are the buttons a page offers, and a page offers   *)
(* them by the list it loaded last.  A click is a request that may arrive  *)
(* at any later time, in any order.  Each handler is one transaction,      *)
(* except the assignment of a vendor, which issues a door credential in a  *)
(* transaction of its own first.                                           *)
(***************************************************************************)
EXTENDS Naturals, FiniteSets

CONSTANTS
  Tasks, Tickets,
  Managers,      \* users who may manage: owner, admin and manager
  Cleaners,      \* users of role cleaner
  Staff,         \* ids of staff rows
  Offers,        \* ids of task_assignments rows
  Vendors,       \* ids of vendors rows
  Visits,        \* calls of assignVendor, one shot each; also their credentials
  MaxRequests,   \* bound on the clicks on their way
  MaxFaults,     \* bound on failing database and lock calls
  None

Jobs == Tasks \cup Tickets
Users == Managers \cup Cleaners

ASSUME JobsAssumption == Tasks \cap Tickets = {}
ASSUME UsersAssumption == None \notin Users \cup Staff \cup Vendors \cup Jobs
ASSUME OperationsBounds == MaxRequests \in Nat /\ MaxFaults \in Nat

VARIABLES
  status,    \* tasks.status, maintenance_tickets.status
  unit,      \* units.status of the unit all jobs are about: ready, or dirty,
             \* under maintenance or blocked, which nothing here tells apart
  crew,      \* the staff rows
  profile,   \* staff.userId
  offer,     \* task_assignments
  vendors,   \* the vendors rows
  visit,     \* each assignVendor call: where it is and what it asked for
  issued,    \* access credentials issued for visits
  named,     \* credentials a vendor_assignments row names
  announced, \* outbox rows, as pairs of an event and a job
  seen,      \* what each user's page has loaded
  requests,  \* clicks on their way to the server
  faults

jobs == <<status, unit, offer, announced>>
people == <<crew, profile, vendors>>
keys == <<visit, issued, named, faults>>
vars == <<jobs, people, keys, seen, requests>>

TaskStatus == {"pending", "assigned", "accepted", "completed"}
TicketStatus == {"open", "assigned", "resolved"}
Done == {"completed", "resolved"}
UnitStatus == {"ready", "other"}
Request == [op : {"create", "assign", "accept", "complete", "resolve"},
            by : Users, job : Jobs, staff : Staff \cup {None},
            saw : {"absent"} \cup TaskStatus \cup TicketStatus]

Init ==
  /\ status = [j \in Jobs |-> "absent"]
  /\ unit = "ready"
  /\ crew = {}
  /\ profile = [s \in Staff |-> None]
  /\ offer = [o \in Offers |-> [task |-> None, staff |-> None, state |-> "absent"]]
  /\ vendors = {}
  /\ visit = [v \in Visits |-> [at |-> "idle", ticket |-> None, vendor |-> None, saw |-> "absent"]]
  /\ issued = {} /\ named = {}
  /\ announced = {}
  /\ seen = [u \in Users |-> status]
  /\ requests = {}
  /\ faults = 0

----------------------------------------------------------------------------
(* The pages. *)

(* SWR loads the list when the page opens, on focus and after a mutation. *)
Reload(u) ==
  /\ seen[u] # status
  /\ seen' = [seen EXCEPT ![u] = status]
  /\ UNCHANGED <<jobs, people, keys, requests>>

(* A dialog keeps the job it was opened for, so opening it and sending it  *)
(* are one click: the request arrives any time later.                      *)
InFlight == Cardinality(requests) + Cardinality({v \in Visits : visit[v].at \in {"issue", "assign"}})

Click(op, u, j, s) ==
  /\ InFlight < MaxRequests
  /\ requests' = requests \cup
       {[op |-> op, by |-> u, job |-> j, staff |-> s, saw |-> seen[u][j]]}
  /\ UNCHANGED <<jobs, people, keys, seen>>

(* A form for a new row: the server makes the id, so no page knows it yet. *)
Fresh(j) == status[j] = "absent" /\ \A r \in requests : r.job # j

ClickNewTask(u, t) == u \in Managers /\ Fresh(t) /\ Click("create", u, t, None)

ClickNewTicket(u, k) == Fresh(k) /\ Click("create", u, k, None)

(* Mutant of Assignable: the button is there for every task. *)
AssignableAlways == TaskStatus
Assignable == {"pending", "assigned"}
Completable == {"accepted", "in_progress"}

ClickAssign(u, t, s) ==
  u \in Managers /\ seen[u][t] \in Assignable /\ s \in crew /\ Click("assign", u, t, s)

ClickAccept(u, t) ==
  u \in Cleaners /\ seen[u][t] = "assigned" /\ Click("accept", u, t, None)

ClickComplete(u, t) == seen[u][t] \in Completable /\ Click("complete", u, t, None)

Resolvable == {"open", "assigned"}

ClickResolve(u, k) ==
  u \in Managers /\ seen[u][k] \in Resolvable /\ Click("resolve", u, k, None)

(* The form offers the vendors it loaded; another client may send an id    *)
(* that is no vendor's.  A key is granted if a time is given and asked for.*)
ClickAssignVendor(v, u, k, w, grant) ==
  /\ InFlight < MaxRequests
  /\ u \in Managers /\ visit[v].at = "idle" /\ seen[u][k] = "open"
  /\ w \in vendors \cup {None}
  /\ visit' = [visit EXCEPT ![v] = [at |-> IF grant THEN "issue" ELSE "assign",
                                    ticket |-> k, vendor |-> w, saw |-> seen[u][k]]]
  /\ UNCHANGED <<jobs, people, issued, named, faults, seen, requests>>

----------------------------------------------------------------------------
(* TasksService. *)

InsertStaff(s, c) == crew' = crew \cup {s} /\ profile' = [profile EXCEPT ![s] = c]

(* The team page sends no userId, another client may. *)
CreateStaff(s, c) ==
  /\ s \notin crew
  /\ InsertStaff(s, c)
  /\ UNCHANGED <<jobs, vendors, keys, seen, requests>>

(* The roles the controllers let through, of those a page has a button    *)
(* for: owners and admins pass every guard, but none offers them Accept.   *)
TaskRoles(op) ==
  CASE op \in {"create", "assign"} -> Managers
    [] op = "accept" -> Cleaners
    [] op = "complete" -> Users
    [] OTHER -> {}
TicketRoles(op) ==
  CASE op = "create" -> Users
    [] op = "resolve" -> Managers
    [] OTHER -> {}

Arrive(op, r) ==
  /\ r \in requests /\ r.op = op
  /\ r.by \in IF r.job \in Tasks THEN TaskRoles(op) ELSE TicketRoles(op)
  /\ requests' = requests \ {r}

CreateTask(r) ==
  /\ Arrive("create", r) /\ r.job \in Tasks
  /\ status' = [status EXCEPT ![r.job] = "pending"]
  /\ announced' = announced \cup {<<"task.created", r.job>>}
  /\ UNCHANGED <<unit, offer, people, keys, seen>>

(* A workflow's create_task step inserts the row and no event. *)
EngineCreatesTask(t) ==
  /\ Fresh(t)
  /\ status' = [status EXCEPT ![t] = "pending"]
  /\ UNCHANGED <<unit, offer, announced, people, keys, seen, requests>>

Assign(r, o) ==
  /\ Arrive("assign", r) /\ offer[o].state = "absent"
  /\ offer' = [offer EXCEPT ![o] = [task |-> r.job, staff |-> r.staff, state |-> "offered"]]
  /\ status' = [status EXCEPT ![r.job] = "assigned"]
  /\ UNCHANGED <<unit, announced, people, keys, seen>>

(* The rows of task t offered to a staff row of user u. *)
OffersTo(u, t) ==
  {o \in Offers : /\ offer[o].state # "absent" /\ offer[o].task = t
                  /\ offer[o].staff \in crew /\ profile[offer[o].staff] = u}

(* Mutant of Accept: no offer is looked for. *)
AcceptUnoffered(r, o) ==
  /\ Arrive("accept", r)
  /\ status' = [status EXCEPT ![r.job] = "accepted"]
  /\ UNCHANGED <<unit, offer, announced, people, keys, seen>>

(* Any offer of the task to me will do, an accepted or completed one too. *)
Accept(r, o) ==
  /\ Arrive("accept", r) /\ o \in OffersTo(r.by, r.job)
  /\ offer' = [offer EXCEPT ![o].state = "accepted"]
  /\ status' = [status EXCEPT ![r.job] = "accepted"]
  /\ UNCHANGED <<unit, announced, people, keys, seen>>

(* A task completed makes its unit ready and says so. *)
Complete(r, os) ==
  /\ Arrive("complete", r)
  /\ IF r.by \in Cleaners THEN \E o \in OffersTo(r.by, r.job) : os = {o} ELSE os = {}
  /\ offer' = [o \in Offers |-> IF o \in os THEN [offer[o] EXCEPT !.state = "completed"] ELSE offer[o]]
  /\ status' = [status EXCEPT ![r.job] = "completed"]
  /\ unit' = "ready"
  /\ announced' = announced \cup {<<"task.completed", r.job>>, <<"unit.ready", r.job>>}
  /\ UNCHANGED <<people, keys, seen>>

(* No staff row is mine, or the one that was read has no offer of the     *)
(* task: 403.  A user may have several staff rows; one of them is read.    *)
Forbidden(r) ==
  /\ \/ Arrive("accept", r)
     \/ Arrive("complete", r) /\ r.by \in Cleaners
  /\ LET Mine == {s \in crew : profile[s] = r.by}
     IN  Mine = {} \/ \E s \in Mine : \A o \in OffersTo(r.by, r.job) : offer[o].staff # s
  /\ UNCHANGED <<jobs, people, keys, seen>>

(* The only other writer of a unit's status: its page. *)
SetStatus(s) == unit' = s

UpdateUnit(s) ==
  /\ unit # s /\ SetStatus(s)
  /\ UNCHANGED <<status, offer, announced, people, keys, seen, requests>>

----------------------------------------------------------------------------
(* MaintenanceService. *)

InsertVendor(w) == vendors' = vendors \cup {w}

CreateVendor(w) ==
  /\ w \notin vendors /\ InsertVendor(w)
  /\ UNCHANGED <<jobs, crew, profile, keys, seen, requests>>

OpenTicket(r) ==
  /\ Arrive("create", r) /\ r.job \in Tickets
  /\ status' = [status EXCEPT ![r.job] = "open"]
  /\ announced' = announced \cup {<<"maintenance.ticket.opened", r.job>>}
  /\ UNCHANGED <<unit, offer, people, keys, seen>>

(* issueCredential, in a transaction of its own, before the vendor is known. *)
IssueForVisit(v) ==
  /\ visit[v].at = "issue"
  /\ issued' = issued \cup {v}
  /\ visit' = [visit EXCEPT ![v].at = "assign"]
  /\ UNCHANGED <<jobs, people, named, faults, seen, requests>>

(* Mutant of AssignVendor: the row does not name the credential. *)
AssignVendorUnnamed(v) ==
  /\ visit[v].at = "assign" /\ visit[v].vendor \in vendors
  /\ status' = [status EXCEPT ![visit[v].ticket] = "assigned"]
  /\ visit' = [visit EXCEPT ![v].at = "answered"]
  /\ UNCHANGED <<unit, offer, announced, people, issued, named, faults, seen, requests>>

AssignVendor(v) ==
  /\ visit[v].at = "assign" /\ visit[v].vendor \in vendors
  /\ named' = named \cup ({v} \cap issued)
  /\ status' = [status EXCEPT ![visit[v].ticket] = "assigned"]
  /\ visit' = [visit EXCEPT ![v].at = "answered"]
  /\ UNCHANGED <<unit, offer, announced, people, issued, faults, seen, requests>>

VendorNotFound(v) ==
  /\ visit[v].at = "assign" /\ visit[v].vendor \notin vendors
  /\ visit' = [visit EXCEPT ![v].at = "failed"]
  /\ UNCHANGED <<jobs, people, issued, named, faults, seen, requests>>

(* The lock, the credential's transaction, its audit row or the assignment *)
(* fails: the credential may have been committed by then.                  *)
VisitFails(v, lost) ==
  /\ visit[v].at \in {"issue", "assign"} /\ faults < MaxFaults
  /\ lost => visit[v].at = "issue"
  /\ issued' = IF lost THEN issued \cup {v} ELSE issued
  /\ visit' = [visit EXCEPT ![v].at = "failed"]
  /\ faults' = faults + 1
  /\ UNCHANGED <<jobs, people, named, seen, requests>>

Resolve(r) ==
  /\ Arrive("resolve", r)
  /\ status' = [status EXCEPT ![r.job] = "resolved"]
  /\ UNCHANGED <<unit, offer, announced, people, keys, seen>>

----------------------------------------------------------------------------
Clicks(u) ==
  \/ \E t \in Tasks : ClickNewTask(u, t) \/ ClickAccept(u, t) \/ ClickComplete(u, t)
  \/ \E t \in Tasks, s \in Staff : ClickAssign(u, t, s)
  \/ \E k \in Tickets : ClickNewTicket(u, k) \/ ClickResolve(u, k)
  \/ \E v \in Visits, k \in Tickets, w \in Vendors \cup {None}, grant \in BOOLEAN :
       ClickAssignVendor(v, u, k, w, grant)

Handle(r) ==
  \/ CreateTask(r) \/ OpenTicket(r) \/ Resolve(r) \/ Forbidden(r)
  \/ \E o \in Offers : Assign(r, o) \/ Accept(r, o)
  \/ \E os \in SUBSET Offers : Complete(r, os)

HandleVisit(v) ==
  \/ IssueForVisit(v) \/ AssignVendor(v) \/ VendorNotFound(v)
  \/ \E lost \in BOOLEAN : VisitFails(v, lost)

Next ==
  \/ \E u \in Users : Reload(u) \/ Clicks(u)
  \/ \E r \in requests : Handle(r)
  \/ \E v \in Visits : HandleVisit(v)
  \/ \E t \in Tasks : EngineCreatesTask(t)
  \/ \E s \in Staff, c \in Cleaners \cup {None} : CreateStaff(s, c)
  \/ \E s \in UnitStatus : UpdateUnit(s)
  \/ \E w \in Vendors : CreateVendor(w)

Spec == Init /\ [][Next]_vars

----------------------------------------------------------------------------
(* Rows, calls and pages have their types. *)
TypeOK ==
  /\ status \in [Jobs -> {"absent"} \cup TaskStatus \cup TicketStatus]
  /\ unit \in UnitStatus
  /\ crew \subseteq Staff
  /\ profile \in [Staff -> Cleaners \cup {None}]
  /\ offer \in [Offers -> [task : Tasks \cup {None}, staff : Staff \cup {None},
                           state : {"absent", "offered", "accepted", "completed"}]]
  /\ vendors \subseteq Vendors
  /\ visit \in [Visits -> [at : {"idle", "issue", "assign", "answered", "failed"},
                           ticket : Tickets \cup {None}, vendor : Vendors \cup {None},
                           saw : {"absent"} \cup TaskStatus \cup TicketStatus]]
  /\ issued \subseteq Visits /\ named \subseteq Visits
  /\ announced \subseteq {"task.created", "task.completed", "unit.ready",
                          "maintenance.ticket.opened"} \X Jobs
  /\ seen \in [Users -> [Jobs -> {"absent"} \cup TaskStatus \cup TicketStatus]]
  /\ requests \subseteq Request
  /\ faults \in Nat

(* A task that counts as accepted has somebody who accepted it, whatever   *)
(* reassignments, late accepts and completions crossed: the row and the    *)
(* task's status tell one story.                                           *)
AcceptedTasksHaveATaker ==
  \A t \in Tasks : status[t] = "accepted" =>
    \E o \in Offers : offer[o].task = t /\ offer[o].state = "accepted"

(* Keys of visits that answered an error although the vendor is there.     *)
Abandoned ==
  {v \in issued \ named : visit[v].at = "failed" /\ visit[v].vendor \in vendors}

KeysFollowVisits ==
  /\ named \subseteq issued
  /\ \A v \in issued \ named : visit[v].at \in {"assign", "failed"}

(* A door credential issued for a visit is the one the vendor's assignment *)
(* names, unless the call is still under way or has answered an error; and *)
(* an error leaves a working key behind that nobody has a record of only   *)
(* for a vendor id that is no vendor's, or at a fault for each key.        *)
NoUnrecordedKeys == KeysFollowVisits /\ Cardinality(Abandoned) <= faults

(* A completed task and a resolved ticket are taken back only by a request *)
(* whose sender's page showed the job undone when the button or the dialog *)
(* was opened.  The handlers would take any; the buttons are what keeps a  *)
(* finished job finished.                                                  *)
UndoneOnlyByStalePages ==
  [][\A j \in Jobs : status[j] \in Done /\ status'[j] \notin Done =>
       \/ \E r \in requests \ requests' : r.job = j /\ r.saw \notin Done
       \/ \E v \in Visits : /\ visit[v].at # "answered" /\ visit'[v].at = "answered"
                            /\ visit[v].ticket = j /\ visit[v].saw \notin Done]_vars
=============================================================================
