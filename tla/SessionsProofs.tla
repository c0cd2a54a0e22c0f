--------------------------- MODULE SessionsProofs ---------------------------
(***************************************************************************)
(* Theorems about Sessions, for any tabs, requests, logins and faults.     *)
(*                                                                         *)
(* The argument for the single flight: a pair enters a tab or localStorage *)
(* only when it is delivered, and it is delivered once (HeldDelivered).    *)
(* So a token that a tab has presented, once the tab has let go of it, can *)
(* come back neither to the tab nor to localStorage (SpentLetGo), and the  *)
(* tab lets go of it no later than it clears refreshInFlight.              *)
(***************************************************************************)
EXTENDS Sessions, TLAPS

Started(q) == refresh[q].at # "none"

Delivered(i) ==
  \/ i \in Logins /\ login[i].at = "over"
  \/ i \in Requests /\ refresh[i].at = "accepted" /\ \A t \in Tabs : flight[t] # i

(* refreshInFlight is a refresh some call of the tab still waits for. *)
FlightsFly ==
  \A t \in Tabs : flight[t] # None =>
    /\ req[flight[t]].tab = t
    /\ req[flight[t]].at = "waiting"
    /\ Started(flight[t])

(* A call belongs to a tab, and one that has not seen its 401 has started no
   refresh. *)
FreshCalls ==
  \A q \in Requests :
    /\ req[q].at # "idle" => req[q].tab \in Tabs
    /\ Started(q) => req[q].at \notin {"idle", "sent"} /\ refresh[q].old \in Tokens

HeldDelivered ==
  /\ \A t \in Tabs : session[t] # None => Delivered(session[t])
  /\ stored # None => Delivered(stored)
  /\ \A q \in Requests : Started(q) => Delivered(refresh[q].old)

SpentLetGo ==
  \A p \in Requests : (Started(p) /\ req[p].at # "gone") =>
    /\ session[req[p].tab] # refresh[p].old => stored # refresh[p].old
    /\ flight[req[p].tab] # p => session[req[p].tab] # refresh[p].old

RevokedForCause ==
  \A i \in Tokens : row[i] = "revoked" =>
    logout[i] # "no" \/ \E q \in Requests : Started(q) /\ refresh[q].old = i

SessionInv ==
  /\ TypeOK /\ FlightsFly /\ FreshCalls /\ HeldDelivered /\ SpentLetGo
  /\ RevokedForCause /\ PresentedOnce

Calls == [at : {"idle", "settled", "gone"} \cup Open,
          tab : Tabs \cup {None}, token : Tokens \cup {None}]

(* The retry of the calls that wait moves nothing but them. *)
LEMMA RetryEffect ==
  ASSUME TypeOK, NEW t \in Tabs, NEW i \in Tokens \cup {None}, Retry(t, i)
  PROVE  /\ req' \in [Requests -> Calls]
         /\ \A p \in Requests :
              /\ req'[p].tab = req[p].tab
              /\ req'[p].at = IF req[p].tab = t /\ req[p].at = "waiting"
                              THEN "retried" ELSE req[p].at
<1>1. req \in [Requests -> Calls]
  BY DEF TypeOK, Calls
<1>2. req' = [p \in Requests |-> IF p \in Waiters(t)
                                 THEN [req[p] EXCEPT !.at = "retried", !.token = i]
                                 ELSE req[p]]
  BY DEF Retry
<1>3. ASSUME NEW p \in Requests
      PROVE  /\ req'[p] \in Calls
             /\ req'[p].tab = req[p].tab
             /\ req'[p].at = IF req[p].tab = t /\ req[p].at = "waiting"
                             THEN "retried" ELSE req[p].at
  <2>1. CASE p \in Waiters(t)
    <3>1. req'[p] = [req[p] EXCEPT !.at = "retried", !.token = i]
      BY <1>2, <2>1
    <3>2. req[p].tab = t /\ req[p].at = "waiting" /\ req[p] \in Calls
      BY <1>1, <2>1 DEF Waiters
    <3>3. req'[p] = [at |-> "retried", tab |-> req[p].tab, token |-> i]
      BY <3>1, <3>2 DEF Calls
    <3> QED
      BY <3>2, <3>3 DEF Calls, Open
  <2>2. CASE p \notin Waiters(t)
    BY <1>1, <1>2, <2>2 DEF Waiters
  <2> QED
    BY <2>1, <2>2
<1> QED
  BY <1>2, <1>3

(* What the acceptance of a refresh does to each variable, seen from outside. *)
AcceptedSeen(t) ==
  /\ flight[t] \in Requests /\ refresh[flight[t]].at = "accepted"
  /\ flight' = [flight EXCEPT ![t] = None]
  /\ session' = [session EXCEPT ![t] = IF session[t] = None THEN None ELSE flight[t]]
  /\ stored' = IF session[t] = None THEN stored ELSE flight[t]
  /\ req' \in [Requests -> Calls]
  /\ \A p \in Requests :
       /\ req'[p].tab = req[p].tab
       /\ req'[p].at = IF req[p].tab = t /\ req[p].at = "waiting"
                       THEN "retried" ELSE req[p].at
  /\ UNCHANGED <<row, next, access, login, logout, refresh, faults>>

LEMMA AcceptedEffect ==
  ASSUME TypeOK, NEW t \in Tabs, RefreshAccepted(t)
  PROVE  AcceptedSeen(t)
<1>1. flight[t] \in Requests /\ refresh[flight[t]].at = "accepted"
  BY DEF RefreshAccepted, Accepted, TypeOK
<1>2. CASE session[t] = None
  <2>1. Retry(t, None) /\ UNCHANGED <<session, stored>>
    BY <1>2 DEF RefreshAccepted
  <2>2. session' = [session EXCEPT ![t] = None]
    BY <1>2, <2>1 DEF TypeOK
  <2>3. /\ flight' = [flight EXCEPT ![t] = None]
        /\ UNCHANGED <<row, next, access, login, logout, refresh, faults>>
    BY <2>1 DEF Retry, server
  <2> QED
    BY <1>1, <1>2, <2>1, <2>2, <2>3, RetryEffect DEF AcceptedSeen
<1>3. CASE session[t] # None
  <2>1. Retry(t, flight[t]) /\ Persist(t, flight[t])
    BY <1>3 DEF RefreshAccepted
  <2>2. /\ flight' = [flight EXCEPT ![t] = None]
        /\ UNCHANGED <<row, next, access, login, logout, refresh, faults>>
    BY <2>1 DEF Retry, server
  <2>3. flight[t] \in Tokens \cup {None}
    BY <1>1 DEF Tokens
  <2> QED
    BY <1>1, <1>3, <2>1, <2>2, <2>3, RetryEffect DEF Persist, AcceptedSeen
<1> QED
  BY <1>2, <1>3

(* A 401 starts a refresh of the tab's token, or joins the one in flight. *)
UnauthorizedSeen(q) ==
  /\ req[q].at = "sent" /\ req[q].tab \in Tabs
  /\ session[req[q].tab] \in Tokens /\ ~Started(q)
  /\ req' = [req EXCEPT ![q].at = "waiting"]
  /\ UNCHANGED <<row, next, access, session, stored, login, logout, faults>>
  /\ \/ /\ flight[req[q].tab] = None
        /\ refresh' = [refresh EXCEPT ![q] =
                         [at |-> "select", old |-> session[req[q].tab]]]
        /\ flight' = [flight EXCEPT ![req[q].tab] = q]
     \/ UNCHANGED <<refresh, flight>> /\ flight[req[q].tab] # None

LEMMA UnauthorizedEffect ==
  ASSUME TypeOK, FreshCalls, NEW q \in Requests, Unauthorized(q)
  PROVE  UnauthorizedSeen(q)
<1>1. req[q].at = "sent" /\ session[req[q].tab] # None
  BY DEF Unauthorized, Refresh401
<1>2. req[q].tab \in Tabs /\ ~Started(q)
  BY <1>1 DEF FreshCalls
<1>3. session[req[q].tab] \in Tokens
  BY <1>1, <1>2 DEF TypeOK
<1> QED
  BY <1>1, <1>2, <1>3 DEF UnauthorizedSeen, Unauthorized, Start, server

(* Every step keeps the types. *)
LEMMA TypeStep ==
  ASSUME TypeOK, FreshCalls, [Next]_vars
  PROVE  TypeOK'
<1>1. ASSUME NEW l \in Logins, LoginAnswered(l) PROVE TypeOK'
  <2>1. /\ session' = [session EXCEPT ![login[l].tab] = l] /\ stored' = l
        /\ login' = [login EXCEPT ![l].at = "over"]
        /\ UNCHANGED <<row, next, access, flight, logout, req, refresh, faults>>
    BY <1>1 DEF LoginAnswered, Persist, server
  <2>2. l \in Tokens
    BY DEF Tokens
  <2>3. (session \in [Tabs -> Tokens \cup {None}])' /\ (stored \in Tokens \cup {None})'
    BY <2>1, <2>2 DEF TypeOK
  <2>4. (login \in [Logins -> [at : {"idle", "sent", "over"}, tab : Tabs \cup {None}]])'
    BY <2>1 DEF TypeOK
  <2> QED
    BY <2>1, <2>3, <2>4 DEF TypeOK
<1>2. ASSUME NEW l \in Logins, NEW t \in Tabs, SubmitLogin(l, t) PROVE TypeOK'
  BY <1>2 DEF SubmitLogin, TypeOK, Tokens, browser
<1>3. ASSUME NEW t \in Tabs, Logout(t) PROVE TypeOK'
  BY <1>3 DEF Logout, Persist, TypeOK, server
<1>4. ASSUME NEW t \in Tabs, Load(t) PROVE TypeOK'
  BY <1>4, FaultsAssumption DEF Load, Open, TypeOK, Tokens, server
<1>5. ASSUME NEW t \in Tabs, RefreshAccepted(t) PROVE TypeOK'
  <2>1. AcceptedSeen(t)
    BY <1>5, AcceptedEffect
  <2> QED
    BY <2>1 DEF AcceptedSeen, TypeOK, Tokens, Calls
<1>6. ASSUME NEW t \in Tabs, RefreshRefused(t) PROVE TypeOK'
  BY <1>6
  DEF RefreshRefused, SignOut, Waiters, Persist, TypeOK, Open, Reply, server
<1>7. ASSUME NEW t \in Tabs, RefreshLost(t) PROVE TypeOK'
  <2>1. /\ faults < MaxFaults /\ faults' = faults + 1 /\ SignOut(t, Waiters(t))
        /\ UNCHANGED <<row, next, access, login, logout, refresh>>
    BY <1>7 DEF RefreshLost, server
  <2>2. faults' \in 0 .. MaxFaults
    BY <2>1, FaultsAssumption DEF TypeOK
  <2>3. /\ session' \in [Tabs -> Tokens \cup {None}] /\ stored' \in Tokens \cup {None}
        /\ flight' \in [Tabs -> Requests \cup {None}]
    BY <2>1 DEF SignOut, Persist, TypeOK
  <2>4. req' \in [Requests -> [at : {"idle", "settled", "gone"} \cup Open,
                             tab : Tabs \cup {None}, token : Tokens \cup {None}]]
    <3>0. req \in [Requests -> Calls] /\ \A c \in Calls : [c EXCEPT !.at = "settled"] \in Calls
      <4>1. req \in [Requests -> Calls]
        BY DEF TypeOK, Calls
      <4>2. \A c \in Calls : [c EXCEPT !.at = "settled"] \in Calls
        BY DEF Calls
      <4> QED
        BY <4>1, <4>2
    <3>1. \A p \in Requests : req[p] \in Calls /\ [req[p] EXCEPT !.at = "settled"] \in Calls
      BY <3>0
    <3>2. req' = [p \in Requests |-> IF p \in Waiters(t) THEN [req[p] EXCEPT !.at = "settled"]
                                                         ELSE req[p]]
      BY <2>1 DEF SignOut
    <3> QED
      BY <3>1, <3>2 DEF Calls
  <2> QED
    BY <2>1, <2>2, <2>3, <2>4 DEF TypeOK
<1>8. ASSUME NEW q \in Requests, NEW t \in Tabs, Send(q, t) PROVE TypeOK'
  BY <1>8 DEF Send, TypeOK, Open, server, browser
<1>9. ASSUME NEW q \in Requests, Settle(q) PROVE TypeOK'
  BY <1>9 DEF Settle, TypeOK, server, browser
<1>10. ASSUME NEW q \in Requests, Unauthorized(q) PROVE TypeOK'
  <2>1. UnauthorizedSeen(q)
    BY <1>10, UnauthorizedEffect
  <2>2. req \in [Requests -> Calls] /\ [req[q] EXCEPT !.at = "waiting"] \in Calls
    BY DEF TypeOK, Calls, Open
  <2>3. req' \in [Requests -> Calls]
    BY <2>1, <2>2 DEF UnauthorizedSeen
  <2>4. (flight \in [Tabs -> Requests \cup {None}])'
    BY <2>1 DEF UnauthorizedSeen, TypeOK
  <2>5. refresh' \in [Requests -> [at : {"none"} \cup Rotating \cup Reply,
                                  old : Tokens \cup {None}]]
    <3>1. [at |-> "select", old |-> session[req[q].tab]]
            \in [at : {"none"} \cup Rotating \cup Reply, old : Tokens \cup {None}]
      BY <2>1 DEF UnauthorizedSeen, Rotating
    <3> QED
      BY <2>1, <3>1 DEF UnauthorizedSeen, TypeOK
  <2> QED
    BY <2>1, <2>3, <2>4, <2>5 DEF UnauthorizedSeen, TypeOK, Calls
<1>11. ASSUME NEW q \in Requests, RotateSelect(q) PROVE TypeOK'
  BY <1>11 DEF RotateSelect, TypeOK, Rotating, Reply, server, browser
<1>12. ASSUME NEW q \in Requests, RotateInsert(q) PROVE TypeOK'
  BY <1>12 DEF RotateInsert, TypeOK, Tokens, Rotating, browser
<1>13. ASSUME NEW q \in Requests, RotateRevoke(q) PROVE TypeOK'
  <2>1. refresh[q].old \in Tokens
    BY <1>13 DEF RotateRevoke, FreshCalls, Started
  <2> QED
    BY <1>13, <2>1 DEF RotateRevoke, TypeOK, Rotating, browser
<1>14. ASSUME NEW q \in Requests, SignAccess(q) PROVE TypeOK'
  BY <1>14 DEF SignAccess, TypeOK, Tokens, Reply, browser
<1>15. ASSUME NEW q \in Requests, RotateFails(q) PROVE TypeOK'
  <2>1. /\ refresh' = [refresh EXCEPT ![q].at = "refused"]
        /\ faults < MaxFaults /\ faults' = faults + 1
        /\ UNCHANGED <<row, next, access, session, stored, login, logout, req, flight>>
    BY <1>15 DEF RotateFails, server, browser
  <2>2. faults' \in 0 .. MaxFaults
    BY <2>1, FaultsAssumption DEF TypeOK
  <2>3. refresh' \in [Requests -> [at : {"none"} \cup Rotating \cup Reply,
                                  old : Tokens \cup {None}]]
    BY <2>1 DEF TypeOK, Reply
  <2> QED
    BY <2>1, <2>2, <2>3 DEF TypeOK
<1>16. ASSUME NEW i \in Tokens, RevokeRefresh(i) PROVE TypeOK'
  BY <1>16 DEF RevokeRefresh, TypeOK, browser
<1>17. ASSUME NEW i \in Tokens, AccessExpires(i) PROVE TypeOK'
  BY <1>17 DEF AccessExpires, TypeOK, browser
<1>18. CASE UNCHANGED vars
  BY <1>18 DEF vars, TypeOK, server, browser
<1>19. QED
  BY <1>1, <1>2, <1>3, <1>4, <1>5, <1>6, <1>7, <1>8, <1>9, <1>10, <1>11,
     <1>12, <1>13, <1>14, <1>15, <1>16, <1>17, <1>18
  DEF Next, RequestStep, RotateStep

(* Every step keeps the promise of a tab and its starter together. *)
LEMMA FlightStep ==
  ASSUME TypeOK, FlightsFly, FreshCalls, [Next]_vars
  PROVE  FlightsFly'
<1>1. ASSUME NEW l \in Logins, LoginAnswered(l) PROVE FlightsFly'
  BY <1>1 DEF LoginAnswered, FlightsFly, Started
<1>2. ASSUME NEW l \in Logins, NEW t \in Tabs, SubmitLogin(l, t)
      PROVE  FlightsFly'
  BY <1>2 DEF SubmitLogin, FlightsFly, Started, browser
<1>3. ASSUME NEW t \in Tabs, Logout(t) PROVE FlightsFly'
  BY <1>3 DEF Logout, FlightsFly, Started
<1>4. ASSUME NEW t \in Tabs, Load(t) PROVE FlightsFly'
  BY <1>4 DEF Load, TypeOK, FlightsFly, Started
<1>5. ASSUME NEW t \in Tabs, RefreshAccepted(t) PROVE FlightsFly'
  <2>1. AcceptedSeen(t)
    BY <1>5, AcceptedEffect
  <2> QED
    BY <2>1 DEF AcceptedSeen, TypeOK, FlightsFly, Started
<1>6. ASSUME NEW t \in Tabs, RefreshRefused(t) PROVE FlightsFly'
  BY <1>6 DEF RefreshRefused, SignOut, Waiters, TypeOK, FlightsFly, Started
<1>7. ASSUME NEW t \in Tabs, RefreshLost(t) PROVE FlightsFly'
  BY <1>7 DEF RefreshLost, SignOut, Waiters, TypeOK, FlightsFly, Started
<1>8. ASSUME NEW q \in Requests, NEW t \in Tabs, Send(q, t) PROVE FlightsFly'
  BY <1>8 DEF Send, FlightsFly, Started, browser
<1>9. ASSUME NEW q \in Requests, Settle(q) PROVE FlightsFly'
  BY <1>9 DEF Settle, FlightsFly, Started, browser
<1>10. ASSUME NEW q \in Requests, Unauthorized(q) PROVE FlightsFly'
  <2>1. UnauthorizedSeen(q)
    BY <1>10, UnauthorizedEffect
  <2> QED
    BY <2>1 DEF UnauthorizedSeen, TypeOK, FlightsFly, Started
<1>11. ASSUME NEW q \in Requests, RotateSelect(q) PROVE FlightsFly'
  BY <1>11 DEF RotateSelect, FlightsFly, Started, browser
<1>12. ASSUME NEW q \in Requests, RotateInsert(q) PROVE FlightsFly'
  BY <1>12 DEF RotateInsert, FlightsFly, Started, browser
<1>13. ASSUME NEW q \in Requests, RotateRevoke(q) PROVE FlightsFly'
  BY <1>13 DEF RotateRevoke, FlightsFly, Started, browser
<1>14. ASSUME NEW q \in Requests, SignAccess(q) PROVE FlightsFly'
  BY <1>14 DEF SignAccess, FlightsFly, Started, browser
<1>15. ASSUME NEW q \in Requests, RotateFails(q) PROVE FlightsFly'
  BY <1>15 DEF RotateFails, FlightsFly, Started, browser
<1>16. ASSUME NEW i \in Tokens, RevokeRefresh(i) PROVE FlightsFly'
  BY <1>16 DEF RevokeRefresh, FlightsFly, Started, browser
<1>17. ASSUME NEW i \in Tokens, AccessExpires(i) PROVE FlightsFly'
  BY <1>17 DEF AccessExpires, FlightsFly, Started, browser
<1>18. CASE UNCHANGED vars
  BY <1>18 DEF vars, FlightsFly, Started, browser
<1>19. QED
  BY <1>1, <1>2, <1>3, <1>4, <1>5, <1>6, <1>7, <1>8, <1>9, <1>10, <1>11,
     <1>12, <1>13, <1>14, <1>15, <1>16, <1>17, <1>18
  DEF Next, RequestStep, RotateStep

(* A refresh is started by a 401 only. *)
LEMMA FreshStep ==
  ASSUME TypeOK, FlightsFly, FreshCalls, [Next]_vars
  PROVE  FreshCalls'
<1>1. ASSUME NEW l \in Logins, LoginAnswered(l) PROVE FreshCalls'
  BY <1>1 DEF LoginAnswered, FreshCalls, Started
<1>2. ASSUME NEW l \in Logins, NEW t \in Tabs, SubmitLogin(l, t)
      PROVE  FreshCalls'
  BY <1>2 DEF SubmitLogin, FreshCalls, Started
<1>3. ASSUME NEW t \in Tabs, Logout(t) PROVE FreshCalls'
  BY <1>3 DEF Logout, FreshCalls, Started
<1>4. ASSUME NEW t \in Tabs, Load(t) PROVE FreshCalls'
  BY <1>4 DEF Load, FreshCalls, Started
<1>5. ASSUME NEW t \in Tabs, RefreshAccepted(t) PROVE FreshCalls'
  <2>1. AcceptedSeen(t)
    BY <1>5, AcceptedEffect
  <2> QED
    BY <2>1 DEF AcceptedSeen, FreshCalls, Started
<1>6. ASSUME NEW t \in Tabs, RefreshRefused(t) PROVE FreshCalls'
  BY <1>6 DEF RefreshRefused, SignOut, Waiters, FreshCalls, Started
<1>7. ASSUME NEW t \in Tabs, RefreshLost(t) PROVE FreshCalls'
  BY <1>7 DEF RefreshLost, SignOut, Waiters, FreshCalls, Started
<1>8. ASSUME NEW q \in Requests, NEW t \in Tabs, Send(q, t) PROVE FreshCalls'
  BY <1>8 DEF Send, FreshCalls, Started
<1>9. ASSUME NEW q \in Requests, Settle(q) PROVE FreshCalls'
  BY <1>9 DEF Settle, FreshCalls, Started
<1>10. ASSUME NEW q \in Requests, Unauthorized(q) PROVE FreshCalls'
  <2>1. UnauthorizedSeen(q)
    BY <1>10, UnauthorizedEffect
  <2> QED
    BY <2>1 DEF UnauthorizedSeen, TypeOK, FreshCalls, Started
<1>11. ASSUME NEW q \in Requests, RotateSelect(q) PROVE FreshCalls'
  BY <1>11 DEF RotateSelect, FreshCalls, Started
<1>12. ASSUME NEW q \in Requests, RotateInsert(q) PROVE FreshCalls'
  BY <1>12 DEF RotateInsert, FreshCalls, Started
<1>13. ASSUME NEW q \in Requests, RotateRevoke(q) PROVE FreshCalls'
  BY <1>13 DEF RotateRevoke, FreshCalls, Started
<1>14. ASSUME NEW q \in Requests, SignAccess(q) PROVE FreshCalls'
  BY <1>14 DEF SignAccess, FreshCalls, Started
<1>15. ASSUME NEW q \in Requests, RotateFails(q) PROVE FreshCalls'
  BY <1>15 DEF RotateFails, FreshCalls, Started, Rotating
<1>16. ASSUME NEW i \in Tokens, RevokeRefresh(i) PROVE FreshCalls'
  BY <1>16 DEF RevokeRefresh, FreshCalls, Started
<1>17. ASSUME NEW i \in Tokens, AccessExpires(i) PROVE FreshCalls'
  BY <1>17 DEF AccessExpires, FreshCalls, Started
<1>18. CASE UNCHANGED vars
  BY <1>18 DEF vars, FreshCalls, Started
<1>19. QED
  BY <1>1, <1>2, <1>3, <1>4, <1>5, <1>6, <1>7, <1>8, <1>9, <1>10, <1>11,
     <1>12, <1>13, <1>14, <1>15, <1>16, <1>17, <1>18
  DEF Next, RequestStep, RotateStep

(* What a tab or localStorage holds has been delivered. *)
LEMMA HeldStep ==
  ASSUME TypeOK, FlightsFly, FreshCalls, HeldDelivered, [Next]_vars
  PROVE  HeldDelivered'
<1>1. ASSUME NEW l \in Logins, LoginAnswered(l) PROVE HeldDelivered'
  BY <1>1 DEF LoginAnswered, Persist, TypeOK, HeldDelivered, Delivered, Started
<1>2. ASSUME NEW l \in Logins, NEW t \in Tabs, SubmitLogin(l, t)
      PROVE  HeldDelivered'
  BY <1>2 DEF SubmitLogin, HeldDelivered, Delivered, Started, browser
<1>3. ASSUME NEW t \in Tabs, Logout(t) PROVE HeldDelivered'
  BY <1>3 DEF Logout, Persist, HeldDelivered, Delivered, Started
<1>4. ASSUME NEW t \in Tabs, Load(t) PROVE HeldDelivered'
  BY <1>4, TokensAssumption DEF Load, HeldDelivered, Delivered, Started
<1>5. ASSUME NEW t \in Tabs, RefreshAccepted(t) PROVE HeldDelivered'
  <2>1. AcceptedSeen(t)
    BY <1>5, AcceptedEffect
  <2> QED
    BY <2>1, TokensAssumption
    DEF AcceptedSeen, TypeOK, FlightsFly, HeldDelivered, Delivered, Started
<1>6. ASSUME NEW t \in Tabs, RefreshRefused(t) PROVE HeldDelivered'
  BY <1>6, TokensAssumption
  DEF RefreshRefused, SignOut, Persist, HeldDelivered, Delivered, Started
<1>7. ASSUME NEW t \in Tabs, RefreshLost(t) PROVE HeldDelivered'
  BY <1>7, TokensAssumption
  DEF RefreshLost, SignOut, Persist, HeldDelivered, Delivered, Started
<1>8. ASSUME NEW q \in Requests, NEW t \in Tabs, Send(q, t) PROVE HeldDelivered'
  BY <1>8 DEF Send, HeldDelivered, Delivered, Started, browser
<1>9. ASSUME NEW q \in Requests, Settle(q) PROVE HeldDelivered'
  BY <1>9 DEF Settle, HeldDelivered, Delivered, Started, browser
<1>10. ASSUME NEW q \in Requests, Unauthorized(q) PROVE HeldDelivered'
  <2>1. UnauthorizedSeen(q)
    BY <1>10, UnauthorizedEffect
  <2>2. ASSUME NEW i \in Tokens, Delivered(i) PROVE Delivered(i)'
    <3>0. DOMAIN refresh = Requests /\ DOMAIN flight = Tabs
      BY DEF TypeOK
    <3>1. /\ ~ Started(q) /\ login' = login
          /\ \A p \in Requests \ {q} : refresh'[p] = refresh[p]
          /\ \A t \in Tabs : flight'[t] \in {flight[t], q}
      BY <2>1, <3>0 DEF UnauthorizedSeen
    <3>2. i \in Requests => i # q \/ ~(refresh[i].at = "accepted")
      BY <3>1 DEF Started
    <3> QED
      BY <2>2, <3>1, <3>2 DEF Delivered
  <2>3. ASSUME NEW p \in Requests, Started(p)'
        PROVE  \/ Started(p) /\ refresh'[p] = refresh[p]
               \/ refresh'[p].old = session[req[q].tab]
    <3>1. DOMAIN refresh = Requests
      BY DEF TypeOK
    <3>2. CASE refresh' = [refresh EXCEPT ![q] = [at |-> "select", old |-> session[req[q].tab]]]
      BY <2>3, <3>1, <3>2 DEF Started
    <3>3. CASE refresh' = refresh
      BY <2>3, <3>3 DEF Started
    <3> QED
      BY <2>1, <3>2, <3>3 DEF UnauthorizedSeen
  <2>4. session' = session /\ stored' = stored
    BY <2>1 DEF UnauthorizedSeen
  <2>5. /\ \A t \in Tabs : session[t] # None => session[t] \in Tokens
        /\ stored # None => stored \in Tokens
        /\ req[q].tab \in Tabs /\ session[req[q].tab] # None
    BY <2>1, TokensAssumption DEF UnauthorizedSeen, TypeOK, Tokens
  <2> QED
    BY <2>1, <2>2, <2>3, <2>4, <2>5 DEF HeldDelivered, FreshCalls
<1>11. ASSUME NEW q \in Requests, RotateSelect(q) PROVE HeldDelivered'
  BY <1>11 DEF RotateSelect, HeldDelivered, Delivered, Started, browser
<1>12. ASSUME NEW q \in Requests, RotateInsert(q) PROVE HeldDelivered'
  BY <1>12 DEF RotateInsert, HeldDelivered, Delivered, Started, browser
<1>13. ASSUME NEW q \in Requests, RotateRevoke(q) PROVE HeldDelivered'
  BY <1>13 DEF RotateRevoke, HeldDelivered, Delivered, Started, browser
<1>14. ASSUME NEW q \in Requests, SignAccess(q) PROVE HeldDelivered'
  BY <1>14 DEF SignAccess, HeldDelivered, Delivered, Started, browser
<1>15. ASSUME NEW q \in Requests, RotateFails(q) PROVE HeldDelivered'
  BY <1>15 DEF RotateFails, HeldDelivered, Delivered, Started, Rotating, browser
<1>16. ASSUME NEW i \in Tokens, RevokeRefresh(i) PROVE HeldDelivered'
  BY <1>16 DEF RevokeRefresh, HeldDelivered, Delivered, Started, browser
<1>17. ASSUME NEW i \in Tokens, AccessExpires(i) PROVE HeldDelivered'
  BY <1>17 DEF AccessExpires, HeldDelivered, Delivered, Started, browser
<1>18. CASE UNCHANGED vars
  BY <1>18 DEF vars, HeldDelivered, Delivered, Started, browser
<1>19. QED
  BY <1>1, <1>2, <1>3, <1>4, <1>5, <1>6, <1>7, <1>8, <1>9, <1>10, <1>11,
     <1>12, <1>13, <1>14, <1>15, <1>16, <1>17, <1>18
  DEF Next, RequestStep, RotateStep

(* A token that was presented and let go of does not come back. *)
LEMMA SpentStep ==
  ASSUME TypeOK, FlightsFly, FreshCalls, HeldDelivered, SpentLetGo, [Next]_vars
  PROVE  SpentLetGo'
<1>1. ASSUME NEW l \in Logins, LoginAnswered(l) PROVE SpentLetGo'
  BY <1>1, TokensAssumption
  DEF LoginAnswered, Persist, HeldDelivered, SpentLetGo, Delivered, Started
<1>2. ASSUME NEW l \in Logins, NEW t \in Tabs, SubmitLogin(l, t)
      PROVE  SpentLetGo'
  BY <1>2 DEF SubmitLogin, SpentLetGo, Started, browser
<1>3. ASSUME NEW t \in Tabs, Logout(t) PROVE SpentLetGo'
  BY <1>3, TokensAssumption
  DEF Logout, Persist, HeldDelivered, SpentLetGo, Delivered, Started
<1>4. ASSUME NEW t \in Tabs, Load(t) PROVE SpentLetGo'
  BY <1>4 DEF Load, Open, FlightsFly, SpentLetGo, Started
<1>5. ASSUME NEW t \in Tabs, RefreshAccepted(t) PROVE SpentLetGo'
  <2>1. AcceptedSeen(t)
    BY <1>5, AcceptedEffect
  <2> QED
    BY <2>1, TokensAssumption
    DEF AcceptedSeen, TypeOK, HeldDelivered, SpentLetGo, Delivered, Started
<1>6. ASSUME NEW t \in Tabs, RefreshRefused(t) PROVE SpentLetGo'
  BY <1>6, TokensAssumption
  DEF RefreshRefused, SignOut, Waiters, Persist, TypeOK, HeldDelivered,
      SpentLetGo, Delivered, Started
<1>7. ASSUME NEW t \in Tabs, RefreshLost(t) PROVE SpentLetGo'
  BY <1>7, TokensAssumption
  DEF RefreshLost, SignOut, Waiters, Persist, TypeOK, HeldDelivered, SpentLetGo,
      Delivered, Started
<1>8. ASSUME NEW q \in Requests, NEW t \in Tabs, Send(q, t) PROVE SpentLetGo'
  BY <1>8 DEF Send, FreshCalls, SpentLetGo, Started, browser
<1>9. ASSUME NEW q \in Requests, Settle(q) PROVE SpentLetGo'
  BY <1>9 DEF Settle, SpentLetGo, Started, browser
<1>10. ASSUME NEW q \in Requests, Unauthorized(q) PROVE SpentLetGo'
  <2>1. UnauthorizedSeen(q)
    BY <1>10, UnauthorizedEffect
  <2> QED
    BY <2>1, TokensAssumption
    DEF UnauthorizedSeen, TypeOK, FreshCalls, SpentLetGo, Started
<1>11. ASSUME NEW q \in Requests, RotateSelect(q) PROVE SpentLetGo'
  BY <1>11 DEF RotateSelect, SpentLetGo, Started, browser
<1>12. ASSUME NEW q \in Requests, RotateInsert(q) PROVE SpentLetGo'
  BY <1>12 DEF RotateInsert, SpentLetGo, Started, browser
<1>13. ASSUME NEW q \in Requests, RotateRevoke(q) PROVE SpentLetGo'
  BY <1>13 DEF RotateRevoke, SpentLetGo, Started, browser
<1>14. ASSUME NEW q \in Requests, SignAccess(q) PROVE SpentLetGo'
  BY <1>14 DEF SignAccess, SpentLetGo, Started, browser
<1>15. ASSUME NEW q \in Requests, RotateFails(q) PROVE SpentLetGo'
  BY <1>15 DEF RotateFails, SpentLetGo, Started, Rotating, browser
<1>16. ASSUME NEW i \in Tokens, RevokeRefresh(i) PROVE SpentLetGo'
  BY <1>16 DEF RevokeRefresh, SpentLetGo, Started, browser
<1>17. ASSUME NEW i \in Tokens, AccessExpires(i) PROVE SpentLetGo'
  BY <1>17 DEF AccessExpires, SpentLetGo, Started, browser
<1>18. CASE UNCHANGED vars
  BY <1>18 DEF vars, SpentLetGo, Started, browser
<1>19. QED
  BY <1>1, <1>2, <1>3, <1>4, <1>5, <1>6, <1>7, <1>8, <1>9, <1>10, <1>11,
     <1>12, <1>13, <1>14, <1>15, <1>16, <1>17, <1>18
  DEF Next, RequestStep, RotateStep

(* A row is revoked by a logout or by the refresh that presented it. *)
LEMMA CauseStep ==
  ASSUME TypeOK, FreshCalls, RevokedForCause, [Next]_vars
  PROVE  RevokedForCause'
<1>1. ASSUME NEW l \in Logins, LoginAnswered(l) PROVE RevokedForCause'
  BY <1>1 DEF LoginAnswered, RevokedForCause, Started, server
<1>2. ASSUME NEW l \in Logins, NEW t \in Tabs, SubmitLogin(l, t)
      PROVE  RevokedForCause'
  BY <1>2 DEF SubmitLogin, RevokedForCause, Started
<1>3. ASSUME NEW t \in Tabs, Logout(t) PROVE RevokedForCause'
  BY <1>3 DEF Logout, RevokedForCause, Started, server
<1>4. ASSUME NEW t \in Tabs, Load(t) PROVE RevokedForCause'
  BY <1>4 DEF Load, RevokedForCause, Started, server
<1>5. ASSUME NEW t \in Tabs, RefreshAccepted(t) PROVE RevokedForCause'
  <2>1. AcceptedSeen(t)
    BY <1>5, AcceptedEffect
  <2> QED
    BY <2>1 DEF AcceptedSeen, RevokedForCause, Started
<1>6. ASSUME NEW t \in Tabs, RefreshRefused(t) PROVE RevokedForCause'
  BY <1>6 DEF RefreshRefused, RevokedForCause, Started, server
<1>7. ASSUME NEW t \in Tabs, RefreshLost(t) PROVE RevokedForCause'
  BY <1>7 DEF RefreshLost, RevokedForCause, Started, server
<1>8. ASSUME NEW q \in Requests, NEW t \in Tabs, Send(q, t)
      PROVE  RevokedForCause'
  BY <1>8 DEF Send, RevokedForCause, Started, server
<1>9. ASSUME NEW q \in Requests, Settle(q) PROVE RevokedForCause'
  BY <1>9 DEF Settle, RevokedForCause, Started, server
<1>10. ASSUME NEW q \in Requests, Unauthorized(q) PROVE RevokedForCause'
  <2>1. UnauthorizedSeen(q)
    BY <1>10, UnauthorizedEffect
  <2> QED
    BY <2>1 DEF UnauthorizedSeen, TypeOK, RevokedForCause, Started
<1>11. ASSUME NEW q \in Requests, RotateSelect(q) PROVE RevokedForCause'
  BY <1>11 DEF RotateSelect, RevokedForCause, Started, server
<1>12. ASSUME NEW q \in Requests, RotateInsert(q) PROVE RevokedForCause'
  BY <1>12 DEF RotateInsert, RevokedForCause, Started
<1>13. ASSUME NEW q \in Requests, RotateRevoke(q) PROVE RevokedForCause'
  BY <1>13 DEF RotateRevoke, RevokedForCause, Started
<1>14. ASSUME NEW q \in Requests, SignAccess(q) PROVE RevokedForCause'
  BY <1>14 DEF SignAccess, RevokedForCause, Started
<1>15. ASSUME NEW q \in Requests, RotateFails(q) PROVE RevokedForCause'
  BY <1>15 DEF RotateFails, RevokedForCause, Started, server
<1>16. ASSUME NEW i \in Tokens, RevokeRefresh(i) PROVE RevokedForCause'
  BY <1>16 DEF RevokeRefresh, RevokedForCause, Started
<1>17. ASSUME NEW i \in Tokens, AccessExpires(i) PROVE RevokedForCause'
  BY <1>17 DEF AccessExpires, RevokedForCause, Started
<1>18. CASE UNCHANGED vars
  BY <1>18 DEF vars, RevokedForCause, Started, server
<1>19. QED
  BY <1>1, <1>2, <1>3, <1>4, <1>5, <1>6, <1>7, <1>8, <1>9, <1>10, <1>11,
     <1>12, <1>13, <1>14, <1>15, <1>16, <1>17, <1>18
  DEF Next, RequestStep, RotateStep

(* A 401 presents a token the tab has not presented before. *)
LEMMA OnceStep ==
  ASSUME TypeOK, FlightsFly, FreshCalls, SpentLetGo, PresentedOnce, [Next]_vars
  PROVE  PresentedOnce'
<1>1. ASSUME NEW l \in Logins, LoginAnswered(l) PROVE PresentedOnce'
  BY <1>1 DEF LoginAnswered, PresentedOnce
<1>2. ASSUME NEW l \in Logins, NEW t \in Tabs, SubmitLogin(l, t)
      PROVE  PresentedOnce'
  BY <1>2 DEF SubmitLogin, PresentedOnce
<1>3. ASSUME NEW t \in Tabs, Logout(t) PROVE PresentedOnce'
  BY <1>3 DEF Logout, PresentedOnce
<1>4. ASSUME NEW t \in Tabs, Load(t) PROVE PresentedOnce'
  BY <1>4 DEF Load, PresentedOnce
<1>5. ASSUME NEW t \in Tabs, RefreshAccepted(t) PROVE PresentedOnce'
  <2>1. AcceptedSeen(t)
    BY <1>5, AcceptedEffect
  <2> QED
    BY <2>1 DEF AcceptedSeen, PresentedOnce
<1>6. ASSUME NEW t \in Tabs, RefreshRefused(t) PROVE PresentedOnce'
  BY <1>6 DEF RefreshRefused, SignOut, Waiters, PresentedOnce
<1>7. ASSUME NEW t \in Tabs, RefreshLost(t) PROVE PresentedOnce'
  BY <1>7 DEF RefreshLost, SignOut, Waiters, PresentedOnce
<1>8. ASSUME NEW q \in Requests, NEW t \in Tabs, Send(q, t) PROVE PresentedOnce'
  BY <1>8 DEF Send, FreshCalls, PresentedOnce, Started
<1>9. ASSUME NEW q \in Requests, Settle(q) PROVE PresentedOnce'
  BY <1>9 DEF Settle, PresentedOnce
<1>10. ASSUME NEW q \in Requests, Unauthorized(q) PROVE PresentedOnce'
  <2>1. UnauthorizedSeen(q)
    BY <1>10, UnauthorizedEffect
  <2>2. CASE UNCHANGED <<refresh, flight>>
    BY <2>1, <2>2 DEF UnauthorizedSeen, PresentedOnce
  <2>3. CASE flight[req[q].tab] = None /\ refresh' = [refresh EXCEPT ![q] =
                                     [at |-> "select", old |-> session[req[q].tab]]]
    <3>1. \A p \in Requests \ {q} : refresh'[p] = refresh[p] /\ req'[p] = req[p]
      BY <2>1, <2>3 DEF UnauthorizedSeen
    <3>2. req'[q].tab = req[q].tab /\ refresh'[q].old = session[req[q].tab]
      BY <2>1, <2>3 DEF UnauthorizedSeen, TypeOK
    <3>3. \A p \in Requests \ {q} :
            (Started(p) /\ req[p].at # "gone" /\ req[p].tab = req[q].tab)
              => refresh[p].old # session[req[q].tab]
      BY <2>3, TokensAssumption DEF SpentLetGo
    <3> QED
      BY <3>1, <3>2, <3>3 DEF PresentedOnce, Started
  <2> QED
    BY <2>1, <2>2, <2>3 DEF UnauthorizedSeen
<1>11. ASSUME NEW q \in Requests, RotateSelect(q) PROVE PresentedOnce'
  BY <1>11 DEF RotateSelect, PresentedOnce
<1>12. ASSUME NEW q \in Requests, RotateInsert(q) PROVE PresentedOnce'
  BY <1>12 DEF RotateInsert, PresentedOnce
<1>13. ASSUME NEW q \in Requests, RotateRevoke(q) PROVE PresentedOnce'
  BY <1>13 DEF RotateRevoke, PresentedOnce
<1>14. ASSUME NEW q \in Requests, SignAccess(q) PROVE PresentedOnce'
  BY <1>14 DEF SignAccess, PresentedOnce
<1>15. ASSUME NEW q \in Requests, RotateFails(q) PROVE PresentedOnce'
  BY <1>15 DEF RotateFails, PresentedOnce, Rotating
<1>16. ASSUME NEW i \in Tokens, RevokeRefresh(i) PROVE PresentedOnce'
  BY <1>16 DEF RevokeRefresh, PresentedOnce
<1>17. ASSUME NEW i \in Tokens, AccessExpires(i) PROVE PresentedOnce'
  BY <1>17 DEF AccessExpires, PresentedOnce
<1>18. CASE UNCHANGED vars
  BY <1>18 DEF vars, PresentedOnce
<1>19. QED
  BY <1>1, <1>2, <1>3, <1>4, <1>5, <1>6, <1>7, <1>8, <1>9, <1>10, <1>11,
     <1>12, <1>13, <1>14, <1>15, <1>16, <1>17, <1>18
  DEF Next, RequestStep, RotateStep

(* The invariant holds at the start and is kept by every step. *)
LEMMA SessionInvInit == Init => SessionInv
  BY TokensAssumption, FaultsAssumption
  DEF Init, SessionInv, TypeOK, FlightsFly, FreshCalls, HeldDelivered, SpentLetGo,
      RevokedForCause, PresentedOnce, Delivered, Started, Open, Rotating, Reply

LEMMA SessionInvStep == SessionInv /\ [Next]_vars => SessionInv'
  BY TypeStep, FlightStep, FreshStep, HeldStep, SpentStep, CauseStep, OnceStep
  DEF SessionInv

LEMMA SessionInvAlways == Spec => []SessionInv
<1>1. Init => SessionInv
  BY SessionInvInit
<1>2. SessionInv /\ [Next]_vars => SessionInv'
  BY SessionInvStep
<1> QED
  BY <1>1, <1>2, PTL DEF Spec

(* Rows, calls, refreshes and tabs keep the values the schema, the SDK and the
   web app give them. *)
THEOREM SessionTypes == Spec => []TypeOK
<1>1. SessionInv => TypeOK
  BY DEF SessionInv
<1> QED
  BY <1>1, SessionInvAlways, PTL

(* For any number of tabs and calls, and whenever their 401s arrive, refreshOnce
   never presents one refresh token twice from one page. *)
THEOREM TokenPresentedOnce == Spec => []PresentedOnce
<1>1. SessionInv => PresentedOnce
  BY DEF SessionInv
<1> QED
  BY <1>1, SessionInvAlways, PTL

(* A tab's own refreshes, in any interleaving with the statements of
   rotateRefresh, never leave it holding a token they have revoked. *)
THEOREM TabNeverStranded == Spec => []NeverStranded
<1>1. ASSUME SessionInv PROVE NeverStranded
  <2> SUFFICES ASSUME NEW t \in Tabs, session[t] # None, row[session[t]] = "revoked",
                      logout[session[t]] = "no"
               PROVE  \E q \in Requests :
                        /\ refresh[q].old = session[t]
                        /\ req[q].tab # t \/ req[q].at = "gone" \/ flight[t] = q
    BY DEF NeverStranded
  <2>1. session[t] \in Tokens
    BY <1>1 DEF SessionInv, TypeOK
  <2>2. PICK q \in Requests : Started(q) /\ refresh[q].old = session[t]
    BY <1>1, <2>1 DEF SessionInv, RevokedForCause
  <2>3. req[q].tab # t \/ req[q].at = "gone" \/ flight[t] = q
    BY <1>1, <2>2 DEF SessionInv, SpentLetGo
  <2> QED
    BY <2>2, <2>3
<1> QED
  BY <1>1, SessionInvAlways, PTL

(* A step that gives a signed-out tab a session is a login's answer or a load. *)
LEMMA SignedInStep ==
  ASSUME SessionInv, [Next]_vars, NEW t \in Tabs, session[t] = None, session'[t] # None
  PROVE  \/ \E l \in Logins : login[l] = [at |-> "sent", tab |-> t] /\ session'[t] = l
         \/ session'[t] = stored
<1>1. TypeOK /\ FreshCalls
  BY DEF SessionInv
<1>2. session' # session
  OBVIOUS
<1>3. ASSUME NEW l \in Logins, LoginAnswered(l)
      PROVE  login[l] = [at |-> "sent", tab |-> t] /\ session'[t] = l
  BY <1>1, <1>3 DEF LoginAnswered, Persist, TypeOK
<1>4. ASSUME NEW s \in Tabs, Load(s) PROVE session'[t] = stored
  BY <1>1, <1>4 DEF Load, TypeOK
<1>5. ASSUME NEW s \in Tabs, Logout(s) PROVE FALSE
  BY <1>1, <1>5 DEF Logout, Persist, TypeOK
<1>6. ASSUME NEW s \in Tabs, RefreshAccepted(s) PROVE FALSE
  <2>1. session' = [session EXCEPT ![s] = IF session[s] = None THEN None ELSE flight[s]]
    BY <1>1, <1>6, AcceptedEffect DEF AcceptedSeen
  <2> QED
    BY <1>1, <2>1 DEF TypeOK
<1>7. ASSUME NEW s \in Tabs, RefreshRefused(s) \/ RefreshLost(s) PROVE FALSE
  BY <1>1, <1>7 DEF RefreshRefused, RefreshLost, SignOut, Persist, TypeOK
<1>8. \/ \E l \in Logins : LoginAnswered(l)
      \/ \E s \in Tabs : Load(s) \/ Logout(s) \/ RefreshAccepted(s)
                           \/ RefreshRefused(s) \/ RefreshLost(s)
  BY <1>2 DEF Next, RequestStep, RotateStep, SubmitLogin, Send, Settle,
     Unauthorized, RotateSelect, RotateInsert, RotateRevoke, SignAccess, RotateFails,
     RevokeRefresh, AccessExpires, vars, browser
<1> QED
  BY <1>3, <1>4, <1>5, <1>6, <1>7, <1>8

(* No answer to a refresh, however late, signs a tab in again after logout(). *)
THEOREM SignedOutStaysOut == Spec => LogoutSticks
<1>1. SessionInv /\ [Next]_vars =>
        [\A t \in Tabs :
           (session[t] = None /\ session'[t] # None) =>
             \/ \E l \in Logins : login[l] = [at |-> "sent", tab |-> t] /\ session'[t] = l
             \/ session'[t] = stored]_vars
  BY SignedInStep
<1> QED
  BY <1>1, SessionInvAlways, PTL DEF Spec, LogoutSticks
=============================================================================
