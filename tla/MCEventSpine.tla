---------------------------- MODULE MCEventSpine ----------------------------
(* Two halves of the worker, each with the other as simple as it may be; a
   behaviour is of one half.

   "relay": two bookings are confirmed and two relay ticks overlap; there are no
   workflows.  "engine": one booking is confirmed and one tick at a time relays
   it; users create, enable and disable two workflows.  One workflow is the
   seeded arrival automation, cut to a task and a stub; the other has a single
   action with an unknown name. *)
EXTENDS EventSpine, TLC

CONSTANTS a, b, t1, t2, w1, w2

MCTypeOf == [r \in Rows |-> "booking.confirmed"]

MCDefinition ==
  [w \in Workflows |->
     IF w = w1 THEN <<"tasks.createCleaning", "messaging.startPreArrivalSequence">>
     ELSE <<"unknown.action">>]

VARIABLE half
halfVars == <<half, vars>>

HalfInit ==
  /\ half \in {"relay", "engine"}
  /\ Init
  /\ half = "relay" => \A w \in Workflows : workflow[w] = "absent"

(* What the API and a second tick do not do in a half. *)
InHalf ==
  /\ UNCHANGED half
  /\ half = "relay" => UNCHANGED workflow
  /\ half = "engine" => UNCHANGED <<status[b], tick[t2]>>

HalfNext == Next /\ InHalf

(* As in EventSpine, for the ticks that the half has. *)
HalfFairness ==
  /\ \A t \in Ticks : WF_halfVars(RelayStep(t) /\ InHalf)
  /\ WF_halfVars(ConsumerStep /\ InHalf)

HalfSpec == HalfInit /\ [][HalfNext]_halfVars /\ HalfFairness
=============================================================================
