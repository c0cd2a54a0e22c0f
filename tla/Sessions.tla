------------------------------ MODULE Sessions ------------------------------
(***************************************************************************)
(* Staff sessions end to end: the refresh tokens of apps/api, the SDK that *)
(* answers a 401 with one refresh and one retry, and the web app that      *)
(* keeps the session in each tab's memory and in localStorage.             *)
(*                                                                         *)
(* A login, and the refresh a request starts, issue one pair of an access  *)
(* and a refresh token at most: the pair is named by the login or by the   *)
(* request.  Rotation is three statements with no transaction around them, *)
(* so other calls run between any two.  Tabs share localStorage but look   *)
(* at it only when they load.                                              *)
(***************************************************************************)
EXTENDS Naturals

CONSTANTS
  Tabs,       \* tabs of one browser, each with a client of its own
  Requests,   \* API calls, one shot each; also the pairs their refreshes issue
  Logins,     \* logins, one shot each; also the pairs they issue
  MaxFaults,  \* bound on lost answers and failed database calls
  None

Tokens == Requests \cup Logins

ASSUME TokensAssumption ==
  /\ Requests \cap Logins = {}
  /\ None \notin Requests \cup Logins \cup Tabs
ASSUME FaultsAssumption == MaxFaults \in Nat

VARIABLES
  row,      \* refresh_tokens: "absent", "live" or "revoked"
  next,     \* refresh_tokens.replacedById
  access,   \* pairs whose access token has not expired
  session,  \* the pair in each tab's memory, or None
  stored,   \* the pair in localStorage, or None
  login,    \* each login: where it is, in which tab
  logout,   \* pairs sent to /auth/logout: "no", "sent" or "over"
  req,      \* each API call: where it is, in which tab, with which pair
  refresh,  \* the refresh each API call started: where it is, for which pair
  flight,   \* refreshInFlight: the call whose refresh a tab waits for, or None
  faults

server == <<row, next, access>>
browser == <<session, stored, flight>>
vars == <<server, browser, login, logout, req, refresh, faults>>

Rotating == {"select", "insert", "revoke", "member"}
Reply == {"accepted", "refused"}
Open == {"sent", "waiting", "retried"}

Init ==
  /\ row = [i \in Tokens |-> "absent"]
  /\ next = [i \in Tokens |-> None]
  /\ access = {}
  /\ session = [t \in Tabs |-> None]
  /\ stored = None
  /\ login = [l \in Logins |-> [at |-> "idle", tab |-> None]]
  /\ logout = [i \in Tokens |-> "no"]
  /\ req = [q \in Requests |-> [at |-> "idle", tab |-> None, token |-> None]]
  /\ refresh = [q \in Requests |-> [at |-> "none", old |-> None]]
  /\ flight = [t \in Tabs |-> None]
  /\ faults = 0

(* persist: the tab's memory and the browser's storage change together. *)
Persist(t, i) == session' = [session EXCEPT ![t] = i] /\ stored' = i

----------------------------------------------------------------------------
(* Signing in and out. *)

(* A login succeeds on the server: issueRefresh is one insert. *)
SubmitLogin(l, t) ==
  /\ login[l].at = "idle" /\ session[t] = None
  /\ row' = [row EXCEPT ![l] = "live"]
  /\ access' = access \cup {l}
  /\ login' = [login EXCEPT ![l] = [at |-> "sent", tab |-> t]]
  /\ UNCHANGED <<next, browser, logout, req, refresh, faults>>

LoginAnswered(l) ==
  /\ login[l].at = "sent"
  /\ Persist(login[l].tab, l)
  /\ login' = [login EXCEPT ![l].at = "over"]
  /\ UNCHANGED <<server, flight, logout, req, refresh, faults>>

(* The session goes first; the revocation is sent and not waited for. *)
Logout(t) ==
  /\ session[t] # None
  /\ logout' = [logout EXCEPT ![session[t]] = "sent"]
  /\ Persist(t, None)
  /\ UNCHANGED <<server, flight, login, req, refresh, faults>>

RevokeRefresh(i) ==
  /\ logout[i] = "sent"
  /\ row' = [row EXCEPT ![i] = "revoked"]
  /\ logout' = [logout EXCEPT ![i] = "over"]
  /\ UNCHANGED <<next, access, browser, login, req, refresh, faults>>

(* A tab is opened or reloaded: it reads localStorage and forgets the rest. *)
Load(t) ==
  /\ session' = [session EXCEPT ![t] = stored]
  /\ flight' = [flight EXCEPT ![t] = None]
  /\ login' = [l \in Logins |-> IF login[l].at = "sent" /\ login[l].tab = t
                                THEN [login[l] EXCEPT !.at = "over"] ELSE login[l]]
  /\ req' = [q \in Requests |-> IF req[q].at \in Open /\ req[q].tab = t
                                THEN [req[q] EXCEPT !.at = "gone"] ELSE req[q]]
  /\ UNCHANGED <<server, stored, logout, refresh, faults>>

----------------------------------------------------------------------------
(* XeniaClient.request, refreshOnce and doRefresh. *)

Send(q, t) ==
  /\ req[q].at = "idle" /\ session[t] # None
  /\ req' = [req EXCEPT ![q] = [at |-> "sent", tab |-> t, token |-> session[t]]]
  /\ UNCHANGED <<server, browser, login, logout, refresh, faults>>

(* Any answer but a 401 ends the call, a lost one too; and so does a 401 to the
   retry, or in a tab that has been signed out. *)
Settle(q) ==
  /\ req[q].at \in {"sent", "retried"}
  /\ req' = [req EXCEPT ![q].at = "settled"]
  /\ UNCHANGED <<server, browser, login, logout, refresh, faults>>

Refresh401(q) ==
  req[q].at = "sent" /\ req[q].token \notin access /\ session[req[q].tab] # None

Start(q) ==
  /\ refresh' = [refresh EXCEPT ![q] = [at |-> "select", old |-> session[req[q].tab]]]
  /\ flight' = [flight EXCEPT ![req[q].tab] = q]

(* Mutant of Unauthorized: every 401 starts a refresh of its own. *)
StartAlways(q) ==
  /\ Refresh401(q)
  /\ Start(q)
  /\ req' = [req EXCEPT ![q].at = "waiting"]
  /\ UNCHANGED <<server, session, stored, login, logout, faults>>

(* The first 401 of a tab starts a refresh, the others join it. *)
Unauthorized(q) ==
  /\ Refresh401(q)
  /\ IF flight[req[q].tab] = None THEN Start(q) ELSE UNCHANGED <<refresh, flight>>
  /\ req' = [req EXCEPT ![q].at = "waiting"]
  /\ UNCHANGED <<server, session, stored, login, logout, faults>>

----------------------------------------------------------------------------
(* POST /auth/refresh: rotateRefresh, then the membership and a new JWT. *)

(* Whether the token's thirty days are over is left open. *)
RotateSelect(q) ==
  /\ refresh[q].at = "select"
  /\ \E expired \in BOOLEAN :
       refresh' = [refresh EXCEPT ![q].at =
         IF row[refresh[q].old] = "live" /\ ~expired THEN "insert" ELSE "refused"]
  /\ UNCHANGED <<server, browser, login, logout, req, faults>>

RotateInsert(q) ==
  /\ refresh[q].at = "insert"
  /\ row' = [row EXCEPT ![q] = "live"]
  /\ refresh' = [refresh EXCEPT ![q].at = "revoke"]
  /\ UNCHANGED <<next, access, browser, login, logout, req, faults>>

RotateRevoke(q) ==
  LET old == refresh[q].old IN
  /\ refresh[q].at = "revoke"
  /\ row' = [row EXCEPT ![old] = "revoked"]
  /\ next' = [next EXCEPT ![old] = q]
  /\ refresh' = [refresh EXCEPT ![q].at = "member"]
  /\ UNCHANGED <<access, browser, login, logout, req, faults>>

(* No code removes a membership: the role is found and the JWT signed. *)
SignAccess(q) ==
  /\ refresh[q].at = "member"
  /\ access' = access \cup {q}
  /\ refresh' = [refresh EXCEPT ![q].at = "accepted"]
  /\ UNCHANGED <<row, next, browser, login, logout, req, faults>>

Waiters(t) == {q \in Requests : req[q].tab = t /\ req[q].at = "waiting"}

Retry(t, i) ==
  /\ flight' = [flight EXCEPT ![t] = None]
  /\ req' = [p \in Requests |-> IF p \in Waiters(t)
                                THEN [req[p] EXCEPT !.at = "retried", !.token = i]
                                ELSE req[p]]
  /\ UNCHANGED <<server, login, logout, refresh, faults>>

Accepted(t) == flight[t] # None /\ refresh[flight[t]].at = "accepted"

(* Mutants of RefreshAccepted: a signed-out tab is not noticed; only localStorage
   learns of the new pair. *)
RefreshRestores(t) ==
  Accepted(t) /\ Persist(t, flight[t]) /\ Retry(t, flight[t])
RefreshStores(t) ==
  /\ Accepted(t)
  /\ stored' = IF session[t] = None THEN stored ELSE flight[t]
  /\ Retry(t, session[t])
  /\ UNCHANGED session

(* The promise settles: the session, if there still is one, takes the new pair,
   refreshInFlight is cleared, and every call that waits retries. *)
RefreshAccepted(t) ==
  /\ Accepted(t)
  /\ IF session[t] = None
     THEN Retry(t, None) /\ UNCHANGED <<session, stored>>
     ELSE Retry(t, flight[t]) /\ Persist(t, flight[t])

(* ... or every call that waits fails, and onSessionExpired signs the tab out,
   whoever is signed in by now. *)
SignOut(t, failing) ==
  /\ Persist(t, None)
  /\ flight' = [flight EXCEPT ![t] = None]
  /\ req' = [p \in Requests |-> IF p \in failing THEN [req[p] EXCEPT !.at = "settled"]
                                ELSE req[p]]

(* Mutant of RefreshRefused: only the call that started the refresh learns. *)
RefusedToOne(t) ==
  /\ flight[t] # None /\ refresh[flight[t]].at = "refused"
  /\ SignOut(t, {flight[t]})
  /\ UNCHANGED <<server, login, logout, refresh, faults>>

RefreshRefused(t) ==
  /\ flight[t] # None /\ refresh[flight[t]].at = "refused"
  /\ SignOut(t, Waiters(t))
  /\ UNCHANGED <<server, login, logout, refresh, faults>>

----------------------------------------------------------------------------
(* Time and faults. *)

AccessExpires(i) ==
  /\ i \in access
  /\ access' = access \ {i}
  /\ UNCHANGED <<row, next, browser, login, logout, req, refresh, faults>>

(* The answer to a refresh is lost, or the network is down: the client gives
   up, the server may still be at work. *)
RefreshLost(t) ==
  /\ flight[t] # None /\ faults < MaxFaults
  /\ faults' = faults + 1
  /\ SignOut(t, Waiters(t))
  /\ UNCHANGED <<server, login, logout, refresh>>

(* A statement of the rotation fails, or the API process stops. *)
RotateFails(q) ==
  /\ refresh[q].at \in Rotating /\ faults < MaxFaults
  /\ faults' = faults + 1
  /\ refresh' = [refresh EXCEPT ![q].at = "refused"]
  /\ UNCHANGED <<server, browser, login, logout, req>>

RequestStep(q) == Settle(q) \/ Unauthorized(q)

RotateStep(q) == RotateSelect(q) \/ RotateInsert(q) \/ RotateRevoke(q) \/ SignAccess(q)

Next ==
  \/ \E l \in Logins : LoginAnswered(l) \/ \E t \in Tabs : SubmitLogin(l, t)
  \/ \E t \in Tabs : Logout(t) \/ Load(t) \/ RefreshAccepted(t) \/ RefreshRefused(t)
                       \/ RefreshLost(t)
  \/ \E q \in Requests :
       \/ \E t \in Tabs : Send(q, t)
       \/ RequestStep(q) \/ RotateStep(q) \/ RotateFails(q)
  \/ \E i \in Tokens : RevokeRefresh(i) \/ AccessExpires(i)

(* What is sent is answered: the API works on, and its answers arrive. *)
Fairness ==
  /\ \A q \in Requests : WF_vars(RequestStep(q)) /\ WF_vars(RotateStep(q))
  /\ \A t \in Tabs : WF_vars(RefreshAccepted(t) \/ RefreshRefused(t))

Spec == Init /\ [][Next]_vars /\ Fairness

----------------------------------------------------------------------------
(* Every row, call and tab has one of the values the schema, the SDK and the
   web app give it. *)
TypeOK ==
  /\ row \in [Tokens -> {"absent", "live", "revoked"}]
  /\ next \in [Tokens -> Requests \cup {None}]
  /\ access \subseteq Tokens
  /\ session \in [Tabs -> Tokens \cup {None}]
  /\ stored \in Tokens \cup {None}
  /\ login \in [Logins -> [at : {"idle", "sent", "over"}, tab : Tabs \cup {None}]]
  /\ logout \in [Tokens -> {"no", "sent", "over"}]
  /\ req \in [Requests -> [at : {"idle", "settled", "gone"} \cup Open,
                           tab : Tabs \cup {None}, token : Tokens \cup {None}]]
  /\ refresh \in [Requests -> [at : {"none"} \cup Rotating \cup Reply,
                               old : Tokens \cup {None}]]
  /\ flight \in [Tabs -> Requests \cup {None}]
  /\ faults \in 0 .. MaxFaults

(* The single flight does its work: however many calls of a tab meet an expired
   access token, and whenever their 401s arrive, the tab never presents a
   refresh token twice, unless a reload made it forget that it had. *)
PresentedOnce ==
  \A p, q \in Requests :
    ( /\ p # q /\ req[p].tab = req[q].tab
      /\ refresh[p].at # "none" /\ refresh[q].at # "none" )
    => \/ refresh[p].old # refresh[q].old
       \/ "gone" \in {req[p].at, req[q].at}

(* A tab never works itself into a dead session: the token it holds has been
   revoked only by a logout, by another tab, by a page that was reloaded in
   between, or by the very refresh the tab is waiting for. *)
NeverStranded ==
  \A t \in Tabs :
    (session[t] # None /\ row[session[t]] = "revoked") =>
      \/ logout[session[t]] # "no"
      \/ \E q \in Requests :
           /\ refresh[q].old = session[t]
           /\ req[q].tab # t \/ req[q].at = "gone" \/ flight[t] = q

(* Signing out is final: whatever late refresh is answered, a signed-out tab has
   a session again only through a login made in it or by loading the page. *)
LogoutSticks ==
  [][\A t \in Tabs :
       (session[t] = None /\ session'[t] # None) =>
         \/ \E l \in Logins : login[l] = [at |-> "sent", tab |-> t] /\ session'[t] = l
         \/ session'[t] = stored]_vars

(* Every API call settles: a 401 is followed by a refresh and by one retry, not
   by a loop of them, and no caller is left waiting for a refresh. *)
CallsSettle ==
  \A q \in Requests : req[q].at = "sent" ~> req[q].at \in {"settled", "gone"}
=============================================================================
