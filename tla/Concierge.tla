----------------------------- MODULE Concierge -----------------------------
(***************************************************************************)
(* One conversation with a guest: the messaging API, its gateway to the AI *)
(* service, and the AI service.                                            *)
(*                                                                         *)
(* A message is stored, and then the last message of the conversation is   *)
(* read and sent to the AI; storing, reading, asking, storing the reply    *)
(* and handing off to the host are each a transaction or a call of their   *)
(* own.  The AI service answers one request at a time, retrieval and       *)
(* generation block its event loop, and its caller waits five seconds: an  *)
(* answer comes at any time or never, and a late one is dropped.           *)
(***************************************************************************)
EXTENDS Naturals, Sequences, FiniteSets

CONSTANTS
  GuestPosts,   \* postMessage calls of guests, one shot each; also the messages
  HostPosts,    \* postMessage calls of staff
  Manual,       \* calls of the endpoint that triggers a reply
  Strangers,    \* guest posts of a guest the conversation is not with
  Urgent,       \* posts with an escalation hint
  MaxFaults     \* bound on failing calls and API stops

Posts == GuestPosts \cup HostPosts
Calls == Posts \cup Manual

ASSUME PostsAssumption ==
  /\ Strangers \subseteq GuestPosts /\ Urgent \subseteq Posts
  /\ GuestPosts \cap HostPosts = {} /\ Posts \cap Manual = {}
  /\ IsFiniteSet(Calls)
ASSUME ConciergeAssumption == MaxFaults \in Nat

VARIABLES
  status, \* conversations.status
  log,    \* messages by sentAt: who sent it, in which call, answering which place
  call,   \* each call: where it is, the place of the message it read
  faults

vars == <<status, log, call, faults>>

Over == {"ok", "refused", "error"}
Verdicts == {"reply", "escalate"}

Init ==
  /\ status = "open" /\ log = <<>>
  /\ call = [c \in Calls |-> [at |-> "idle", last |-> 0]]
  /\ faults = 0

Go(c, from, to) == call[c].at = from /\ call' = [call EXCEPT ![c].at = to]

Say(from, c, place) == log' = Append(log, [from |-> from, by |-> c, to |-> place])

----------------------------------------------------------------------------
(* Messaging. *)

(* Only a guest's message goes to the concierge. *)
PostMessage(c) ==
  /\ c \in Posts \ Strangers
  /\ Go(c, "idle", IF c \in GuestPosts THEN "read" ELSE "ok")
  /\ Say(IF c \in GuestPosts THEN "guest" ELSE "host", c, 0)
  /\ UNCHANGED <<status, faults>>

NotYours(c) ==
  /\ c \in Strangers /\ Go(c, "idle", "refused")
  /\ UNCHANGED <<status, log, faults>>

----------------------------------------------------------------------------
(* The AI service. *)

HasHint(place) == log[place].from \in {"guest", "host"} /\ log[place].by \in Urgent

(* Mutant of Verdict: the model has its way. *)
VerdictOfModel(c) == Verdicts

(* A message with a hint escalates, as a failing retrieval or provider     *)
(* does.  Otherwise the model decides, or offline the best chunk's score.  *)
Verdict(c) == IF HasHint(call[c].last) THEN {"escalate"} ELSE Verdicts

----------------------------------------------------------------------------
(* The gateway. *)

AtRespond(c) == call[c].at = IF c \in Manual THEN "idle" ELSE "read"

(* Mutant of Respond: the order is ascending. *)
RespondToFirst(c) ==
  /\ AtRespond(c) /\ log # <<>>
  /\ call' = [call EXCEPT ![c] = [at |-> "wait", last |-> 1]]
  /\ UNCHANGED <<status, log, faults>>

(* The last message, whoever sent it, goes to the AI service. *)
Respond(c) ==
  /\ AtRespond(c) /\ log # <<>>
  /\ call' = [call EXCEPT ![c] = [at |-> "wait", last |-> Len(log)]]
  /\ UNCHANGED <<status, log, faults>>

NothingToAnswer(c) ==
  /\ AtRespond(c) /\ log = <<>>
  /\ call' = [call EXCEPT ![c].at = "refused"]
  /\ UNCHANGED <<status, log, faults>>

StoreReply(c, v) ==
  /\ call[c].at = "wait" /\ v \in Verdict(c)
  /\ Go(c, "wait", IF v = "escalate" THEN "tell" ELSE "ok")
  /\ Say("ai", c, call[c].last)
  /\ UNCHANGED <<status, faults>>

(* Mutant of TimeOut: no signal, a hung service is waited for. *)
TimeOutNever(c) ==
  /\ Go(c, "wait", "catch") /\ FALSE
  /\ UNCHANGED <<status, log, faults>>

(* Five seconds are over. *)
TimeOut(c) ==
  /\ Go(c, "wait", "catch")
  /\ UNCHANGED <<status, log, faults>>

(* The transaction also writes human.handoff.requested to the outbox. *)
TellHost(c) == status' = "handoff" /\ Say("system", c, call[c].last)

(* Mutant of HandOff: the catch hands nothing off. *)
HandOffInTry(c) ==
  /\ \/ Go(c, "tell", "ok") /\ TellHost(c)
     \/ Go(c, "catch", "ok") /\ UNCHANGED <<status, log>>
  /\ UNCHANGED faults

(* From the try, or from the catch. *)
HandOff(c) ==
  /\ Go(c, "tell", "ok") \/ Go(c, "catch", "ok")
  /\ TellHost(c)
  /\ UNCHANGED faults

Fault == faults < MaxFaults /\ faults' = faults + 1

(* A fetch or a transaction fails: to the catch from inside the try, to    *)
(* the caller from outside.                                                *)
Fail(c) ==
  /\ Fault
  /\ \/ \E s \in {"read", "catch"} : Go(c, s, "error")
     \/ \E s \in {"wait", "tell"} : Go(c, s, "catch")
  /\ UNCHANGED <<status, log>>

(* The hand-off commits and its acknowledgement is lost. *)
HandOffUnheard(c) ==
  /\ Fault
  /\ Go(c, "tell", "catch") \/ Go(c, "catch", "error")
  /\ TellHost(c)

(* The API stops: the call ends where it is. *)
CutOff(c) ==
  /\ Fault
  /\ \E s \in {"read", "wait", "tell", "catch"} : Go(c, s, "error")
  /\ UNCHANGED <<status, log>>

----------------------------------------------------------------------------
Step(c) == Respond(c) \/ TimeOut(c) \/ HandOff(c)

Next ==
  \E c \in Calls :
    \/ PostMessage(c) \/ NotYours(c) \/ NothingToAnswer(c) \/ Step(c)
    \/ \E v \in Verdicts : StoreReply(c, v)
    \/ Fail(c) \/ HandOffUnheard(c) \/ CutOff(c)

(* The API runs on with what it has begun; the AI service need never answer. *)
Fairness == \A c \in GuestPosts : WF_vars(Step(c))

Spec == Init /\ [][Next]_vars /\ Fairness

----------------------------------------------------------------------------
(* Rows and calls have their types. *)
TypeOK ==
  /\ status \in {"open", "handoff"}
  /\ log \in Seq([from : {"guest", "host", "ai", "system"}, by : Calls, to : Nat])
  /\ call \in [Calls -> [at : Over \cup {"idle", "read", "wait", "tell", "catch"}, last : Nat]]
  /\ faults \in Nat

Said(from, c) == {i \in 1 .. Len(log) : log[i].from = from /\ log[i].by = c}

(* A guest whose message was stored hears something for it once its call   *)
(* is over - a reply, or that the host was told - whatever the AI does;    *)
(* each guest left in silence took a fault of the API's own.               *)
SilenceOnlyByFaults ==
  Cardinality({c \in GuestPosts : /\ call[c].at \in Over /\ Said("guest", c) # {}
                                  /\ Said("ai", c) \cup Said("system", c) = {}}) <= faults

(* The AI answers one message twice only for posts that cross: a post      *)
(* stored after a reply is not answered by that reply's question again.    *)
(* Managers who ask for another reply are exempt.                          *)
AnsweredTwiceOnlyByOverlap ==
  \A i, j \in 1 .. Len(log) :
    /\ i < j /\ log[i].from = "ai" /\ log[j].from = "ai" /\ log[i].to = log[j].to
    /\ log[j].by \in GuestPosts
    => \E p \in Said("guest", log[j].by) : p < i

(* A message with a hint that the AI was asked about is in the host's      *)
(* hands when the call is over: by the guardrail, a timeout or a failure.  *)
HintsReachTheHost ==
  \A c \in Calls : call[c].at = "ok" /\ call[c].last # 0 /\ HasHint(call[c].last) =>
    status = "handoff" /\ Said("system", c) # {}

(* A guest's post comes back although the AI service hangs. *)
PostsComeBack == \A c \in GuestPosts : call[c].at = "read" ~> call[c].at \in Over

(* README.md: keywords of an emergency escalate immediately.  But a call   *)
(* answers the last message, and by the time it reads, the one it posted   *)
(* may not be the last any more.                                           *)
EmergenciesEscalate ==
  \A c \in GuestPosts \cap Urgent : call[c].at = "ok" => status = "handoff"
=============================================================================
