-------------------------- MODULE OperationsProofs --------------------------
(***************************************************************************)
(* What holds of Operations for any tasks, tickets, users, staff and       *)
(* vendors, and for any number of clicks and visits under way.             *)
(***************************************************************************)
EXTENDS Operations, FiniteSetTheorems, TLAPS

(* No page shows a row that is not there. *)
SeenBehind == \A u \in Users, j \in Jobs : status[j] = "absent" => seen[u][j] = "absent"

(* What the page that sent a request showed of its job. *)
RequestsAreOffered ==
  \A r \in requests : r.op \in {"create", "assign", "accept"} => r.saw \notin Done

VisitsAreOffered ==
  \A v \in Visits : visit[v].at \in {"issue", "assign"} => visit[v].saw = "open"

OperationsInv ==
  /\ TypeOK /\ SeenBehind /\ RequestsAreOffered /\ VisitsAreOffered
  /\ AcceptedTasksHaveATaker /\ KeysFollowVisits

----------------------------------------------------------------------------
LEMMA OperationsInit == Init => OperationsInv
BY OperationsBounds DEF Init, OperationsInv, TypeOK, SeenBehind, RequestsAreOffered, VisitsAreOffered,
   AcceptedTasksHaveATaker, KeysFollowVisits, Users, Jobs, UnitStatus

(* A page is loaded or clicked. *)
LEMMA PagesPreserve ==
  ASSUME OperationsInv, NEW u \in Users, Reload(u) \/ Clicks(u)
  PROVE  OperationsInv'
<1> USE DEF OperationsInv
<1>1. CASE Reload(u)
  BY <1>1 DEF Reload, TypeOK, SeenBehind, RequestsAreOffered, VisitsAreOffered,
     AcceptedTasksHaveATaker, KeysFollowVisits, jobs, people, keys
<1>2. ASSUME NEW op \in {"create", "assign", "accept", "complete", "resolve"}, NEW j \in Jobs,
             NEW s \in Staff \cup {None}, Click(op, u, j, s),
             op \in {"create", "assign", "accept"} => seen[u][j] \notin Done
      PROVE  OperationsInv'
  <2> DEFINE new == [op |-> op, by |-> u, job |-> j, staff |-> s, saw |-> seen[u][j]]
  <2>1. new \in Request
    BY DEF TypeOK, Request
  <2>2. requests' = requests \cup {new} /\ UNCHANGED <<jobs, people, keys, seen>>
    BY <1>2 DEF Click
  <2>3. RequestsAreOffered'
    BY <1>2, <2>2 DEF RequestsAreOffered
  <2> QED
    BY <2>1, <2>2, <2>3 DEF TypeOK, SeenBehind, VisitsAreOffered, AcceptedTasksHaveATaker,
       KeysFollowVisits, jobs, people, keys
<1>3. ASSUME NEW t \in Tasks, ClickNewTask(u, t) \/ ClickAccept(u, t) \/ ClickComplete(u, t)
      PROVE  OperationsInv'
  BY <1>2, <1>3 DEF ClickNewTask, ClickAccept, ClickComplete, Fresh, SeenBehind, Done, Jobs
<1>4. ASSUME NEW t \in Tasks, NEW s \in Staff, ClickAssign(u, t, s)
      PROVE  OperationsInv'
  BY <1>2, <1>4 DEF ClickAssign, Assignable, Done, Jobs
<1>5. ASSUME NEW k \in Tickets, ClickNewTicket(u, k) \/ ClickResolve(u, k)
      PROVE  OperationsInv'
  BY <1>2, <1>5 DEF ClickNewTicket, ClickResolve, Fresh, SeenBehind, Done, Jobs
<1>6. ASSUME NEW v \in Visits, NEW k \in Tickets, NEW w \in Vendors \cup {None}, NEW grant \in BOOLEAN,
             ClickAssignVendor(v, u, k, w, grant)
      PROVE  OperationsInv'
  BY <1>6 DEF ClickAssignVendor, TypeOK, SeenBehind, RequestsAreOffered, VisitsAreOffered,
     AcceptedTasksHaveATaker, KeysFollowVisits, jobs, people, Jobs
<1> QED
  BY <1>1, <1>3, <1>4, <1>5, <1>6 DEF Clicks

(* A request arrives. *)
LEMMA RequestsPreserve ==
  ASSUME OperationsInv, NEW r \in requests, Handle(r)
  PROVE  OperationsInv'
<1> USE DEF OperationsInv
<1>1. r \in Request /\ r.job \in Jobs /\ requests' \subseteq requests
  BY DEF TypeOK, Request, Handle, CreateTask, OpenTicket, Resolve, Forbidden, Assign, Accept, Complete, Arrive
<1>2. UNCHANGED <<people, keys, seen>>
  BY DEF Handle, CreateTask, OpenTicket, Resolve, Forbidden, Assign, Accept, Complete
<1>3. /\ status' \in [Jobs -> {"absent"} \cup TaskStatus \cup TicketStatus]
      /\ \A j \in Jobs : status'[j] = "absent" => status[j] = "absent"
  BY <1>1 DEF TypeOK, TaskStatus, TicketStatus, Handle, CreateTask, OpenTicket, Resolve, Forbidden,
     Assign, Accept, Complete, jobs
<1>4. unit' \in UnitStatus /\ announced' \subseteq {"task.created", "task.completed", "unit.ready",
                                                   "maintenance.ticket.opened"} \X Jobs
  BY <1>1 DEF TypeOK, UnitStatus, Handle, CreateTask, OpenTicket, Resolve, Forbidden,
     Assign, Accept, Complete, jobs
<1>5. /\ offer' \in [Offers -> [task : Tasks \cup {None}, staff : Staff \cup {None},
                                state : {"absent", "offered", "accepted", "completed"}]]
      /\ AcceptedTasksHaveATaker'
  <2> USE DEF TypeOK, AcceptedTasksHaveATaker
  <2>1. CASE CreateTask(r) \/ OpenTicket(r) \/ Resolve(r) \/ Forbidden(r)
    BY <1>1, <2>1 DEF CreateTask, OpenTicket, Resolve, Forbidden, jobs, Jobs
  <2>2. ASSUME NEW o \in Offers, Assign(r, o)
        PROVE  /\ offer' \in [Offers -> [task : Tasks \cup {None}, staff : Staff \cup {None},
                                         state : {"absent", "offered", "accepted", "completed"}]]
               /\ AcceptedTasksHaveATaker'
    <3>1. r.job \in Tasks /\ r.staff \in Staff \cup {None}
      BY <1>1, <2>2 DEF Assign, Arrive, TicketRoles, Request
    <3> QED
      BY <1>1, <2>2, <3>1 DEF Assign, Jobs
  <2>3. ASSUME NEW o \in Offers, Accept(r, o)
        PROVE  /\ offer' \in [Offers -> [task : Tasks \cup {None}, staff : Staff \cup {None},
                                         state : {"absent", "offered", "accepted", "completed"}]]
               /\ AcceptedTasksHaveATaker'
    BY <1>1, <2>3 DEF Accept, OffersTo, Jobs
  <2>4. ASSUME NEW os \in SUBSET Offers, Complete(r, os)
        PROVE  /\ offer' \in [Offers -> [task : Tasks \cup {None}, staff : Staff \cup {None},
                                         state : {"absent", "offered", "accepted", "completed"}]]
               /\ AcceptedTasksHaveATaker'
    <3>1. \A o \in os : offer[o].task = r.job
      BY <2>4 DEF Complete, OffersTo
    <3>2. \A o \in Offers : offer'[o] = IF o \in os THEN [offer[o] EXCEPT !.state = "completed"] ELSE offer[o]
      BY <2>4 DEF Complete
    <3>3. offer' \in [Offers -> [task : Tasks \cup {None}, staff : Staff \cup {None},
                                 state : {"absent", "offered", "accepted", "completed"}]]
      BY <2>4 DEF Complete
    <3>4. \A t \in Tasks : status'[t] = "accepted" => status[t] = "accepted" /\ t # r.job
      BY <1>1, <2>4 DEF Complete, Jobs
    <3> QED
      BY <3>1, <3>2, <3>3, <3>4
  <2> QED
    BY <2>1, <2>2, <2>3, <2>4 DEF Handle
<1> QED
  BY <1>1, <1>2, <1>3, <1>4, <1>5 DEF TypeOK, SeenBehind, RequestsAreOffered, VisitsAreOffered,
     KeysFollowVisits, people, keys

VisitRow == [at : {"idle", "issue", "assign", "answered", "failed"},
             ticket : Tickets \cup {None}, vendor : Vendors \cup {None},
             saw : {"absent"} \cup TaskStatus \cup TicketStatus]

(* A step of assignVendor. *)
LEMMA VisitsPreserve ==
  ASSUME OperationsInv, NEW v \in Visits, HandleVisit(v)
  PROVE  OperationsInv'
<1> USE DEF OperationsInv
<1>1. /\ UNCHANGED <<unit, offer, announced, people, seen, requests>>
      /\ issued' \subseteq Visits /\ named' \subseteq Visits
      /\ faults' \in Nat
  BY DEF TypeOK, jobs, HandleVisit, IssueForVisit, AssignVendor, VendorNotFound, VisitFails
<1>2. /\ status' \in [Jobs -> {"absent"} \cup TaskStatus \cup TicketStatus]
      /\ \A j \in Jobs : status'[j] = "absent" => status[j] = "absent"
  BY DEF TypeOK, TicketStatus, jobs, HandleVisit, IssueForVisit, AssignVendor, VendorNotFound, VisitFails
<1>3. /\ visit' \in [Visits -> VisitRow]
      /\ VisitsAreOffered'
  <2>1. \/ visit[v].at = "issue" /\ visit' = [visit EXCEPT ![v].at = "assign"]
        \/ visit' = [visit EXCEPT ![v].at = "answered"]
        \/ visit' = [visit EXCEPT ![v].at = "failed"]
    BY DEF HandleVisit, IssueForVisit, AssignVendor, VendorNotFound, VisitFails
  <2>2. visit \in [Visits -> VisitRow]
    BY DEF TypeOK, VisitRow
  <2>3. \A a \in {"assign", "answered", "failed"} : [visit EXCEPT ![v].at = a] \in [Visits -> VisitRow]
    BY <2>2 DEF VisitRow
  <2>4. VisitsAreOffered'
    BY <2>1, <2>2 DEF VisitsAreOffered, VisitRow
  <2> QED
    BY <2>1, <2>3, <2>4
<1>4. TypeOK' /\ SeenBehind' /\ RequestsAreOffered'
  <2>1. TypeOK'
    BY <1>1, <1>2, <1>3 DEF TypeOK, people, VisitRow
  <2>2. SeenBehind' /\ RequestsAreOffered'
    BY <1>1, <1>2 DEF SeenBehind, RequestsAreOffered
  <2> QED
    BY <2>1, <2>2
<1>5. AcceptedTasksHaveATaker'
  BY DEF TypeOK, AcceptedTasksHaveATaker, jobs, Jobs,
     HandleVisit, IssueForVisit, AssignVendor, VendorNotFound, VisitFails
<1>6. KeysFollowVisits'
  BY DEF TypeOK, KeysFollowVisits, HandleVisit, IssueForVisit, AssignVendor, VendorNotFound, VisitFails
<1> QED
  BY <1>3, <1>4, <1>5, <1>6

(* The rest: the engine, the forms for people, the unit's page. *)
LEMMA OthersPreserve ==
  ASSUME OperationsInv,
         \/ \E t \in Tasks : EngineCreatesTask(t)
         \/ \E s \in Staff, c \in Cleaners \cup {None} : CreateStaff(s, c)
         \/ \E s \in UnitStatus : UpdateUnit(s)
         \/ \E w \in Vendors : CreateVendor(w)
         \/ UNCHANGED vars
  PROVE  OperationsInv'
<1> USE DEF OperationsInv, TypeOK, SeenBehind, RequestsAreOffered, VisitsAreOffered,
            AcceptedTasksHaveATaker, KeysFollowVisits
<1>1. ASSUME NEW t \in Tasks, EngineCreatesTask(t) PROVE OperationsInv'
  BY <1>1 DEF EngineCreatesTask, people, keys, Jobs, TaskStatus
<1>2. ASSUME NEW s \in Staff, NEW c \in Cleaners \cup {None}, CreateStaff(s, c) PROVE OperationsInv'
  BY <1>2 DEF CreateStaff, InsertStaff, jobs, keys
<1>3. ASSUME NEW s \in UnitStatus, UpdateUnit(s) PROVE OperationsInv'
  BY <1>3 DEF UpdateUnit, SetStatus, people, keys
<1>4. ASSUME NEW w \in Vendors, CreateVendor(w) PROVE OperationsInv'
  BY <1>4 DEF CreateVendor, InsertVendor, jobs, keys
<1>5. CASE UNCHANGED vars
  BY <1>5 DEF vars, jobs, people, keys
<1> QED
  BY <1>1, <1>2, <1>3, <1>4, <1>5

LEMMA OperationsStep == OperationsInv /\ [Next]_vars => OperationsInv'
BY PagesPreserve, RequestsPreserve, VisitsPreserve, OthersPreserve DEF Next

LEMMA OperationsInvariant == Spec => []OperationsInv
BY OperationsInit, OperationsStep, PTL DEF Spec

----------------------------------------------------------------------------
(* Rows, calls and pages have their types: TasksService, MaintenanceService *)
(* and the two pages.                                                      *)
THEOREM OperationsTypes == Spec => []TypeOK
<1>1. OperationsInv => TypeOK
  BY DEF OperationsInv
<1> QED
  BY <1>1, OperationsInvariant, PTL

(* An accepted task has an accepted assignment, whatever assignments,      *)
(* accepts and completions cross on their way to TasksService.             *)
THEOREM TakersExist == Spec => []AcceptedTasksHaveATaker
<1>1. OperationsInv => AcceptedTasksHaveATaker
  BY DEF OperationsInv
<1> QED
  BY <1>1, OperationsInvariant, PTL

(* A visit is for a vendor its form knew, or for an id that is no vendor's; *)
(* the keys left behind are counted by the faults.                          *)
KeysInv ==
  /\ \A v \in Visits : visit[v].vendor \in vendors \cup {None}
  /\ IsFiniteSet(Abandoned) /\ Cardinality(Abandoned) <= faults

KeysStep ==
  \/ Abandoned' \subseteq Abandoned /\ faults' = faults
  \/ faults' = faults + 1 /\ \E x : Abandoned' \subseteq Abandoned \cup {x}

(* Steps that leave the visits alone, one that adds a vendor among them.    *)
LEMMA QuietKeys ==
  ASSUME OperationsInv, KeysInv, UNCHANGED keys, vendors \subseteq vendors', None \notin vendors'
  PROVE  (\A v \in Visits : visit'[v].vendor \in vendors' \cup {None}) /\ KeysStep
<1>1. UNCHANGED <<visit, issued, named, faults>> /\ issued \subseteq Visits
  BY DEF keys, OperationsInv, TypeOK
<1>2. \A v \in Abandoned' : v \in Abandoned
  BY <1>1 DEF Abandoned, KeysInv
<1> QED
  BY <1>1, <1>2 DEF KeysInv, KeysStep

LEMMA KeysNext == OperationsInv /\ KeysInv /\ [Next]_vars => KeysInv'
<1> SUFFICES ASSUME OperationsInv, KeysInv, [Next]_vars PROVE KeysInv'
  OBVIOUS
<1> DEFINE Good == (\A v \in Visits : visit'[v].vendor \in vendors' \cup {None}) /\ KeysStep
<1>0. None \notin Vendors /\ vendors \subseteq Vendors
  BY UsersAssumption DEF OperationsInv, TypeOK
<1>1. ASSUME UNCHANGED <<keys, vendors>> PROVE Good
  BY <1>0, <1>1, QuietKeys
<1>2. ASSUME NEW w \in Vendors, CreateVendor(w) PROVE Good
  <2>1. UNCHANGED keys /\ vendors' = vendors \cup {w}
    BY <1>2 DEF CreateVendor, InsertVendor
  <2> QED
    BY <1>0, <2>1, QuietKeys
<1>3. ASSUME NEW u \in Users, Reload(u) \/ Clicks(u) PROVE Good
  <2>1. CASE UNCHANGED <<keys, vendors>>
    BY <1>1, <2>1
  <2>2. ASSUME NEW v \in Visits, NEW k \in Tickets, NEW w \in Vendors \cup {None}, NEW grant \in BOOLEAN,
               ClickAssignVendor(v, u, k, w, grant)
        PROVE  Good
    <3>1. /\ UNCHANGED <<vendors, issued, named, faults>> /\ visit[v].at = "idle"
          /\ w \in vendors \cup {None}
          /\ visit' = [visit EXCEPT ![v] = [at |-> IF grant THEN "issue" ELSE "assign",
                                            ticket |-> k, vendor |-> w, saw |-> seen[u][k]]]
      BY <2>2 DEF ClickAssignVendor, people
    <3>2. \A x \in Visits : x # v => visit'[x] = visit[x]
      BY <3>1
    <3>3. visit'[v].at # "failed" /\ visit'[v].vendor = w
      BY <3>1 DEF OperationsInv, TypeOK
    <3>4. \A x \in Visits : visit'[x].vendor \in vendors' \cup {None}
      BY <3>1, <3>2, <3>3 DEF KeysInv
    <3>5. \A x \in Abandoned' : x \in Abandoned
      BY <3>1, <3>2, <3>3 DEF Abandoned, OperationsInv, TypeOK
    <3> QED
      BY <3>1, <3>4, <3>5 DEF KeysStep
  <2> QED
    BY <1>3, <2>1, <2>2 DEF Reload, Clicks, ClickNewTask, ClickAccept, ClickComplete, ClickAssign,
       ClickNewTicket, ClickResolve, Click, people
<1>4. ASSUME NEW r \in requests, Handle(r) PROVE Good
  BY <1>1, <1>4 DEF Handle, CreateTask, OpenTicket, Resolve, Forbidden, Assign, Accept, Complete, people
<1>5. ASSUME NEW v \in Visits, HandleVisit(v) PROVE Good
  <2>1. /\ vendors' = vendors
        /\ \A x \in Visits : visit'[x].vendor = visit[x].vendor
        /\ \A x \in Visits : x # v => visit'[x] = visit[x]
    <3>1. /\ vendors' = vendors
          /\ \E a : visit' = [visit EXCEPT ![v].at = a]
      BY <1>5 DEF HandleVisit, IssueForVisit, AssignVendor, VendorNotFound, VisitFails, people
    <3>2. visit \in [Visits -> VisitRow]
      BY DEF OperationsInv, TypeOK, VisitRow
    <3> QED
      BY <3>1, <3>2 DEF VisitRow
  <2>2. \A x \in Visits : x # v => (x \in issued' <=> x \in issued) /\ (x \in named' <=> x \in named)
    BY <1>5 DEF HandleVisit, IssueForVisit, AssignVendor, VendorNotFound, VisitFails
  <2>3. CASE \E lost \in BOOLEAN : VisitFails(v, lost)
    <3>1. faults' = faults + 1
      BY <2>3 DEF VisitFails
    <3>2. \A x \in Abandoned' : x \in Abandoned \cup {v}
      BY <1>5, <2>1, <2>2, OperationsStep DEF Abandoned, OperationsInv, TypeOK,
         HandleVisit, IssueForVisit, AssignVendor, VendorNotFound, VisitFails
    <3> QED
      BY <2>1, <3>1, <3>2 DEF KeysStep, KeysInv
  <2>4. CASE IssueForVisit(v) \/ AssignVendor(v) \/ VendorNotFound(v)
    <3>1. /\ faults' = faults /\ visit'[v].at \in {"assign", "answered", "failed"}
          /\ visit'[v].at = "failed" => visit[v].vendor \notin vendors
          /\ issued' \subseteq Visits
      BY <2>4 DEF IssueForVisit, AssignVendor, VendorNotFound, OperationsInv, TypeOK
    <3>2. \A x \in Abandoned' : x \in Abandoned
      BY <2>1, <2>2, <3>1 DEF Abandoned
    <3> QED
      BY <2>1, <3>1, <3>2 DEF KeysStep, KeysInv
  <2> QED
    BY <1>5, <2>3, <2>4 DEF HandleVisit
<1>6. ASSUME \/ \E t \in Tasks : EngineCreatesTask(t)
             \/ \E s \in Staff, c \in Cleaners \cup {None} : CreateStaff(s, c)
             \/ \E s \in UnitStatus : UpdateUnit(s)
             \/ UNCHANGED vars
      PROVE  Good
  BY <1>1, <1>6 DEF EngineCreatesTask, CreateStaff, UpdateUnit, vars, people
<1>7. Good
  BY <1>2, <1>3, <1>4, <1>5, <1>6 DEF Next
<1>8. /\ faults \in Nat /\ Cardinality(Abandoned) \in Nat
      /\ IsFiniteSet(Abandoned) /\ Cardinality(Abandoned) <= faults
  BY FS_CardinalityType DEF OperationsInv, TypeOK, KeysInv
<1>9. CASE Abandoned' \subseteq Abandoned /\ faults' = faults
  <2>1. /\ IsFiniteSet(Abandoned') /\ Cardinality(Abandoned') \in Nat
        /\ Cardinality(Abandoned') <= Cardinality(Abandoned)
    BY <1>8, <1>9, FS_Subset, FS_CardinalityType
  <2> QED
    BY <1>7, <1>8, <1>9, <2>1 DEF KeysInv
<1>10. ASSUME NEW x, faults' = faults + 1, Abandoned' \subseteq Abandoned \cup {x}
       PROVE  KeysInv'
  <2>1. /\ IsFiniteSet(Abandoned \cup {x})
        /\ Cardinality(Abandoned \cup {x}) \in {Cardinality(Abandoned), Cardinality(Abandoned) + 1}
    BY <1>8, FS_AddElement
  <2>2. /\ IsFiniteSet(Abandoned') /\ Cardinality(Abandoned') \in Nat
        /\ Cardinality(Abandoned') <= Cardinality(Abandoned \cup {x})
    BY <1>10, <2>1, FS_Subset, FS_CardinalityType
  <2> QED
    BY <1>7, <1>8, <1>10, <2>1, <2>2 DEF KeysInv
<1> QED
  BY <1>7, <1>9, <1>10 DEF KeysStep

(* A door credential of an assignVendor call is named by the assignment     *)
(* that call made, unless it is under way or answered an error; and the     *)
(* keys that errors leave behind for a vendor that is there are at most as  *)
(* many as the faults.                                                      *)
THEOREM KeysAreRecorded == Spec => []NoUnrecordedKeys
<1>1. Init => KeysInv
  <2> SUFFICES ASSUME Init PROVE KeysInv
    OBVIOUS
  <2>1. Abandoned = {} /\ faults = 0 /\ \A v \in Visits : visit[v].vendor = None
    BY DEF Init, Abandoned
  <2> QED
    BY <2>1, FS_EmptySet DEF KeysInv
<1>2. OperationsInv /\ KeysInv => NoUnrecordedKeys
  BY DEF OperationsInv, KeysInv, NoUnrecordedKeys
<1> QED
  BY <1>1, <1>2, KeysNext, OperationsInvariant, PTL DEF Spec

(* Only a click on a page that still showed a job undone takes it back     *)
(* after it is done.                                                       *)
THEOREM DoneUntilStaleClick == Spec => UndoneOnlyByStalePages
<1> DEFINE Undone(j) == status[j] \in Done /\ status'[j] \notin Done
           ByPage(j) == \/ \E r \in requests \ requests' : r.job = j /\ r.saw \notin Done
                        \/ \E v \in Visits : /\ visit[v].at # "answered" /\ visit'[v].at = "answered"
                                             /\ visit[v].ticket = j /\ visit[v].saw \notin Done
<1>1. ASSUME OperationsInv, Next, NEW j \in Jobs, Undone(j)
      PROVE  ByPage(j)
  <2> USE <1>1 DEF OperationsInv, TypeOK, Done
  <2>1. ASSUME NEW r \in requests, Handle(r) PROVE ByPage(j)
    <3>1. r \notin requests' /\ r.job = j /\ r.op \in {"create", "assign", "accept"}
      BY <2>1 DEF Handle, CreateTask, OpenTicket, Resolve, Forbidden, Assign, Accept, Complete, Arrive, jobs
    <3> QED
      BY <3>1 DEF RequestsAreOffered
  <2>2. ASSUME NEW v \in Visits, HandleVisit(v) PROVE ByPage(j)
    BY <2>2 DEF VisitsAreOffered, HandleVisit, IssueForVisit, AssignVendor, VendorNotFound, VisitFails, jobs
  <2>3. ASSUME NEW t \in Tasks, EngineCreatesTask(t) PROVE FALSE
    BY <2>3 DEF EngineCreatesTask, Fresh, Jobs
  <2>4. ASSUME status' = status PROVE FALSE
    BY <2>4
  <2>5. (\E u \in Users : Reload(u) \/ Clicks(u)) => status' = status
    BY DEF Reload, Clicks, ClickNewTask, ClickAccept, ClickComplete, ClickAssign, ClickNewTicket,
       ClickResolve, ClickAssignVendor, Click, jobs
  <2>6. /\ (\E s \in Staff, c \in Cleaners \cup {None} : CreateStaff(s, c)) => status' = status
        /\ (\E s \in UnitStatus : UpdateUnit(s)) => status' = status
        /\ (\E w \in Vendors : CreateVendor(w)) => status' = status
    BY DEF CreateStaff, UpdateUnit, CreateVendor, jobs
  <2> QED
    BY <2>1, <2>2, <2>3, <2>4, <2>5, <2>6 DEF Next
<1>2. OperationsInv /\ [Next]_vars => [\A j \in Jobs : Undone(j) => ByPage(j)]_vars
  BY <1>1
<1> QED
  BY <1>2, OperationsInvariant, PTL DEF Spec, UndoneOnlyByStalePages
=============================================================================
