------------------------------ MODULE MCOffice ------------------------------
(* Three services of the back office that share no state: billing, pricing *)
(* and notifications; and in billing, payouts and the subscription.  A     *)
(* behaviour moves one of them and leaves the others where they began.     *)
(* Billing: a payable bill, one for nobody and one of no cents, and three  *)
(* payouts; three checkouts.  Notifications: two calls with one key and    *)
(* one without, on two channels.  Pricing: three rules, two of one         *)
(* priority, two evaluations and two clicks; see Office.cfg.               *)
EXTENDS Billing, Notifications, Pricing, TLC

CONSTANTS b1, b2, b3, p1, p2, p3, c1, c2, c3
CONSTANTS n1, n2, n3, ca, cb, key
CONSTANTS s1, s2, k1, k2, ra, rb, rc

Interchangeable == Permutations(Payouts) \cup Permutations(Checkouts)

MCKeyOf == n1 :> key @@ n2 :> key @@ n3 :> NoKey

MCConditions ==
     ra :> {[field |-> "occupancy", cmp |-> "gte", bound |-> 1]}
  @@ rb :> {[field |-> "leadTimeDays", cmp |-> "lt", bound |-> 3]}
  @@ rc :> {}
MCPercent == ra :> -10 @@ rb :> Nothing @@ rc :> 15
MCAbsolute == ra :> Nothing @@ rb :> -5 @@ rc :> Nothing
MCPriority == ra :> 2 @@ rb :> 1 @@ rc :> 1

VARIABLE office
officeVars == <<office, vars, notifyVars, priceVars>>

OfficeInit ==
  /\ office \in {"payouts", "subscription", "notifications", "pricing"}
  /\ Init /\ NotifyInit /\ PriceInit

OfficeNext ==
  /\ UNCHANGED office
  /\ \/ office = "payouts" /\ Next /\ UNCHANGED <<plan, notifyVars, priceVars>>
     \/ office = "subscription" /\ Next /\ UNCHANGED <<money, notifyVars, priceVars>>
     \/ office = "notifications" /\ NotifyNext /\ UNCHANGED <<vars, priceVars>>
     \/ office = "pricing" /\ PriceNext /\ UNCHANGED <<vars, notifyVars>>

OfficeSpec == OfficeInit /\ [][OfficeNext]_officeVars
=============================================================================
