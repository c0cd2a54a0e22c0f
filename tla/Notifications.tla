---------------------------- MODULE Notifications ----------------------------
(***************************************************************************)
(* The fan-out point for messages to humans.  A call that carries a dedupe *)
(* key looks for a notification with that key, inserts one that already    *)
(* says 'sent', and then sends on one channel after the other, logging     *)
(* each delivery.  Each of these is a transaction or a provider call of    *)
(* its own.                                                                *)
(***************************************************************************)
EXTENDS Naturals, FiniteSets

CONSTANTS
  Notices,       \* calls of notify, one shot each; also the rows they insert
  Keys,          \* (recipient, template, dedupe key) triples
  KeyOf,         \* the triple of each call, or NoKey: a call without a dedupe key
  Channels,
  MaxSendFaults, \* bound on failing sends and writes, and on calls cut off
  NoKey

ASSUME KeyOfAssumption == KeyOf \in [Notices -> Keys \cup {NoKey}] /\ NoKey \notin Keys
ASSUME ChannelsAssumption == IsFiniteSet(Notices) /\ IsFiniteSet(Channels)
ASSUME SendAssumption == MaxSendFaults \in Nat

VARIABLES
  notice,    \* each call: where it is, the rows there were when it began
  rows,      \* notifications, by the call that inserted the row
  out,       \* per call, the channels the provider has sent on
  logged,    \* per call, the channels delivery_log has
  sendFaults

notifyVars == <<notice, rows, out, logged, sendFaults>>

NotifyInit ==
  /\ notice = [n \in Notices |-> [at |-> "idle", had |-> {}]]
  /\ rows = {}
  /\ out = [n \in Notices |-> {}] /\ logged = [n \in Notices |-> {}]
  /\ sendFaults = 0

(* The rows of a call's key. *)
Same(n) == {r \in rows : KeyOf[r] = KeyOf[n] /\ KeyOf[n] # NoKey}

To(n, from, to) == notice[n].at = from /\ notice' = [notice EXCEPT ![n].at = to]

Notify(n) ==
  /\ notice[n].at = "idle"
  /\ notice' = [notice EXCEPT ![n] = [at |-> "look", had |-> rows]]
  /\ UNCHANGED <<rows, out, logged, sendFaults>>

(* Mutant of Look: every call sends. *)
LookAway(n) ==
  /\ To(n, "look", "insert")
  /\ UNCHANGED <<rows, out, logged, sendFaults>>

Look(n) ==
  /\ To(n, "look", IF Same(n) # {} THEN "deduped" ELSE "insert")
  /\ UNCHANGED <<rows, out, logged, sendFaults>>

InsertSent(n) ==
  /\ To(n, "insert", "send")
  /\ rows' = rows \cup {n}
  /\ UNCHANGED <<out, logged, sendFaults>>

(* The channels are taken in turn: none is sent before the last is logged. *)
Send(n, c) ==
  /\ notice[n].at = "send" /\ out[n] = logged[n] /\ c \notin out[n]
  /\ out' = [out EXCEPT ![n] = @ \cup {c}]
  /\ UNCHANGED <<notice, rows, logged, sendFaults>>

Log(n) ==
  /\ notice[n].at = "send" /\ out[n] # logged[n]
  /\ logged' = [logged EXCEPT ![n] = out[n]]
  /\ UNCHANGED <<notice, rows, out, sendFaults>>

Finish(n) ==
  /\ To(n, "send", "ok") /\ logged[n] = Channels
  /\ UNCHANGED <<rows, out, logged, sendFaults>>

(* A send or a write throws, or the API stops. *)
SendFails(n) ==
  /\ notice[n].at \in {"look", "insert", "send"} /\ sendFaults < MaxSendFaults
  /\ notice' = [notice EXCEPT ![n].at = "error"]
  /\ sendFaults' = sendFaults + 1
  /\ UNCHANGED <<rows, out, logged>>

NotifyNext ==
  \E n \in Notices :
    \/ Notify(n) \/ Look(n) \/ InsertSent(n) \/ Log(n) \/ Finish(n) \/ SendFails(n)
    \/ \E c \in Channels : Send(n, c)

NotifySpec == NotifyInit /\ [][NotifyNext]_notifyVars

----------------------------------------------------------------------------
(* Calls and rows have their types. *)
NotifyTypeOK ==
  /\ notice \in [Notices -> [at : {"idle", "look", "insert", "send", "ok", "deduped", "error"},
                          had : SUBSET Notices]]
  /\ rows \subseteq Notices
  /\ out \in [Notices -> SUBSET Channels] /\ logged \in [Notices -> SUBSET Channels]
  /\ sendFaults \in Nat

(* Two calls with one key both send only when neither began after the row  *)
(* of the other was there: a retry after an answer never sends again.      *)
SentTwiceOnlyByOverlap ==
  \A m, n \in rows : m # n /\ KeyOf[m] = KeyOf[n] /\ KeyOf[m] # NoKey => m \notin notice[n].had
=============================================================================
