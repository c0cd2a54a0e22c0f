----------------------------- MODULE Onboarding -----------------------------
(***************************************************************************)
(* How people get in: registration of an owner, invitations of staff, and  *)
(* magic links of guests, vendors and cleaners.                            *)
(*                                                                         *)
(* A registration is four inserts with nothing around them.  A token is    *)
(* checked in one statement and used up in another, after a password has   *)
(* been hashed and a user perhaps inserted.  Users are unique by e-mail;   *)
(* memberships are not unique at all.                                      *)
(***************************************************************************)
EXTENDS Naturals, FiniteSets

CONSTANTS
  Emails,
  Registrations, \* calls of register, one shot each; also the orgs they insert
  Accepts,       \* calls of acceptInvitation, one shot each
  Verifies,      \* calls of verifyMagicLink, one shot each
  Invitations,   \* ids of invitations rows
  Links,         \* ids of magic_links rows
  MaxEntryFaults, \* bound on failing statements and API stops
  Absent

Calls == Registrations \cup Accepts \cup Verifies
Tokens == Invitations \cup Links

ASSUME CallsAssumption ==
  /\ Registrations \cap Accepts = {} /\ Registrations \cap Verifies = {}
  /\ Accepts \cap Verifies = {} /\ IsFiniteSet(Calls)
ASSUME TokensAssumption == Invitations \cap Links = {} /\ Absent \notin Emails \cup Tokens \cup Calls
ASSUME EntryFaultsAssumption == MaxEntryFaults \in Nat

VARIABLES
  maker,   \* users: the call that inserted the row of an e-mail, or Absent
  orgs,    \* organizations, by the call that inserted the row
  members, \* memberships: user, org, and the call that inserted the row
  token,   \* invitations and magic_links: org, email, is it used up, is it over
  call,    \* each call: where it is, its e-mail and token, the tokens used up before
  entryFaults

entryVars == <<maker, orgs, members, token, call, entryFaults>>

Over == {"ok", "refused", "error"}
Steps == {"look", "user", "org", "join", "spend", "session"}

EntryInit ==
  /\ maker = [e \in Emails |-> Absent]
  /\ orgs = {} /\ members = {}
  /\ token = [t \in Tokens |-> [org |-> Absent, email |-> Absent, used |-> FALSE, over |-> FALSE]]
  /\ call = [c \in Calls |-> [at |-> "idle", email |-> Absent, token |-> Absent, spent |-> {}]]
  /\ entryFaults = 0

Spent == {t \in Tokens : token[t].used}
Exists(e) == maker[e] # Absent
MembershipsOf(e) == {m \in members : m.user = e}

Begin(c, e, t) ==
  /\ call[c].at = "idle"
  /\ call' = [call EXCEPT ![c] = [at |-> "look", email |-> e, token |-> t, spent |-> Spent]]
  /\ UNCHANGED <<maker, orgs, members, token, entryFaults>>

Go(c, from, to) == call[c].at = from /\ call' = [call EXCEPT ![c].at = to]

----------------------------------------------------------------------------
(* Registration, and what it has in common with an invitation. *)

Register(c, e) == c \in Registrations /\ Begin(c, e, Absent)

(* Mutant of LookForUser: the organization is inserted first. *)
LookAfterOrg(c) ==
  /\ c \in Registrations /\ call[c].at = "look"
  /\ Go(c, "look", IF Exists(call[c].email) THEN "refused" ELSE "user")
  /\ orgs' = orgs \cup {c}
  /\ UNCHANGED <<maker, members, token, entryFaults>>

(* After a look at the users, a password is hashed. *)
LookForUser(c) ==
  /\ c \in Registrations /\ call[c].at = "look"
  /\ Go(c, "look", IF Exists(call[c].email) THEN "refused" ELSE "user")
  /\ UNCHANGED <<maker, orgs, members, token, entryFaults>>

(* The unique e-mail refuses the second of two that looked at once. *)
InsertUser(c) ==
  /\ call[c].at = "user"
  /\ IF Exists(call[c].email)
     THEN Go(c, "user", "error") /\ UNCHANGED maker
     ELSE /\ Go(c, "user", IF c \in Registrations THEN "org" ELSE "join")
          /\ maker' = [maker EXCEPT ![call[c].email] = c]
  /\ UNCHANGED <<orgs, members, token, entryFaults>>

InsertOrg(c) ==
  /\ Go(c, "org", "join")
  /\ orgs' = orgs \cup {c}
  /\ UNCHANGED <<maker, members, token, entryFaults>>

OrgOf(c) == IF c \in Registrations THEN c ELSE token[call[c].token].org

(* An invitation is used up in the transaction of the membership. *)
Join(c) ==
  /\ Go(c, "join", "session")
  /\ members' = members \cup {[user |-> call[c].email, org |-> OrgOf(c), by |-> c]}
  /\ token' = [t \in Tokens |-> IF t = call[c].token THEN [token[t] EXCEPT !.used = TRUE] ELSE token[t]]
  /\ UNCHANGED <<maker, orgs, entryFaults>>

(* issueSession inserts a refresh token. *)
OpenSession(c) ==
  /\ Go(c, "session", "ok")
  /\ UNCHANGED <<maker, orgs, members, token, entryFaults>>

----------------------------------------------------------------------------
(* Tokens. *)

Issue(t, org, e) ==
  /\ token[t].org = Absent /\ org \in orgs
  /\ token' = [token EXCEPT ![t].org = org, ![t].email = e]
  /\ UNCHANGED <<maker, orgs, members, call, entryFaults>>

(* Only members with a role call these: somebody is in the organization. *)
CreateInvitation(t, org, e) ==
  t \in Invitations /\ (\E m \in members : m.org = org) /\ Issue(t, org, e)

IssueMagicLink(t, org) ==
  t \in Links /\ (\E m \in members : m.org = org) /\ Issue(t, org, Absent)

Expire(t) ==
  /\ token[t].org # Absent /\ ~token[t].over
  /\ token' = [token EXCEPT ![t].over = TRUE]
  /\ UNCHANGED <<maker, orgs, members, call, entryFaults>>

(* Mutant of Valid: a token is good until it expires. *)
ValidUntilExpired(t) == token[t].org # Absent /\ ~token[t].over
Valid(t) == token[t].org # Absent /\ ~token[t].used /\ ~token[t].over

(* The call names a token; the invitation names the e-mail. *)
UseToken(c, t) ==
  /\ \/ c \in Accepts /\ t \in Invitations
     \/ c \in Verifies /\ t \in Links
  /\ token[t].org # Absent
  /\ Begin(c, token[t].email, t)

CheckInvitation(c) ==
  /\ c \in Accepts /\ call[c].at = "look"
  /\ Go(c, "look", IF Valid(call[c].token) THEN "find" ELSE "refused")
  /\ UNCHANGED <<maker, orgs, members, token, entryFaults>>

(* A user there is keeps the password there is. *)
FindUser(c) ==
  /\ call[c].at = "find"
  /\ Go(c, "find", IF Exists(call[c].email) THEN "join" ELSE "user")
  /\ UNCHANGED <<maker, orgs, members, token, entryFaults>>

CheckLink(c) ==
  /\ c \in Verifies /\ call[c].at = "look"
  /\ Go(c, "look", IF Valid(call[c].token) THEN "spend" ELSE "refused")
  /\ UNCHANGED <<maker, orgs, members, token, entryFaults>>

(* The access token is only signed: nothing is stored of the session. *)
SpendLink(c) ==
  /\ Go(c, "spend", "ok")
  /\ token' = [token EXCEPT ![call[c].token].used = TRUE]
  /\ UNCHANGED <<maker, orgs, members, entryFaults>>

(* A statement fails or the API stops; what was inserted stays. *)
Fail(c) ==
  /\ entryFaults < MaxEntryFaults /\ entryFaults' = entryFaults + 1
  /\ call[c].at \notin Over \cup {"idle"}
  /\ call' = [call EXCEPT ![c].at = "error"]
  /\ UNCHANGED <<maker, orgs, members, token>>

----------------------------------------------------------------------------
EntryNext ==
  \/ \E c \in Registrations, e \in Emails : Register(c, e)
  \/ \E c \in Calls :
       \/ LookForUser(c) \/ InsertUser(c) \/ InsertOrg(c) \/ Join(c) \/ OpenSession(c)
       \/ CheckInvitation(c) \/ FindUser(c) \/ CheckLink(c) \/ SpendLink(c) \/ Fail(c)
       \/ \E t \in Tokens : UseToken(c, t)
  \/ \E t \in Tokens :
       \/ Expire(t)
       \/ \E org \in orgs : IssueMagicLink(t, org) \/ \E e \in Emails : CreateInvitation(t, org, e)

EntrySpec == EntryInit /\ [][EntryNext]_entryVars

----------------------------------------------------------------------------
(* Rows and calls have their types. *)
EntryTypeOK ==
  /\ maker \in [Emails -> Calls \cup {Absent}]
  /\ orgs \subseteq Registrations
  /\ members \subseteq [user : Emails, org : Registrations, by : Calls]
  /\ token \in [Tokens -> [org : Registrations \cup {Absent}, email : Emails \cup {Absent},
                           used : BOOLEAN, over : BOOLEAN]]
  /\ call \in [Calls -> [at : {"idle", "find"} \cup Steps \cup Over, email : Emails \cup {Absent},
                         token : Tokens \cup {Absent}, spent : SUBSET Tokens]]
  /\ entryFaults \in Nat

(* A token lets two calls in only when they overlap: a call that begins    *)
(* once an invitation or a link was used is refused.                       *)
UsedTwiceOnlyByOverlap ==
  \A c \in Calls : call[c].at = "ok" => call[c].token \notin call[c].spent

(* Whoever's account is half made - a user in no organization, or an       *)
(* organization with nobody in it, when the call that made it is over -    *)
(* took a fault: a refused e-mail or a lost race leaves nothing behind.    *)
HalfMadeOnlyByFaults ==
  /\ Cardinality({e \in Emails : /\ Exists(e) /\ MembershipsOf(e) = {}
                                 /\ call[maker[e]].at \in Over}) <= entryFaults
  /\ Cardinality({o \in orgs : /\ call[o].at \in Over
                               /\ \A m \in members : m.org # o}) <= entryFaults
=============================================================================
