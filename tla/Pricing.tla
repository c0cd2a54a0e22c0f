------------------------------- MODULE Pricing -------------------------------
(***************************************************************************)
(* Pricing suggestions: the rules engine of packages/shared, the service   *)
(* that stores what it says and puts accepted prices on the rate calendar, *)
(* and the page.                                                           *)
(*                                                                         *)
(* Amounts are whole cents.  An evaluation reads the occupancy and the     *)
(* rules in two transactions and stores its result in a third; its loop    *)
(* over the rules is one step per rule, highest priority first, rules of   *)
(* one priority in whatever order the database returned them.              *)
(***************************************************************************)
EXTENDS Integers, Sequences, FiniteSets

CONSTANTS
  Suggestions,  \* evaluations, one shot each; also the rows they insert
  Rules,        \* pricing_rules rows
  Conditions,   \* per rule, a set of [field, cmp, bound]
  Percent,      \* per rule, effect.adjustPct, or Nothing
  Absolute,     \* per rule, effect.adjustAbs in cents, or Nothing
  Priority,     \* per rule
  Base,         \* the base price asked for, in cents
  LeadTimes,    \* days between now and the day asked for
  Nights,       \* the nights of the forward window
  Clicks,       \* accept calls, one shot each
  Nothing

(* Two of the four fields a rule may ask about, the two that depend on when one
   looks; weekday and gapNights go through the same comparison. *)
Fields == {"leadTimeDays", "occupancy"}
Comparators == {"lt", "lte", "gt", "gte", "eq"}

ASSUME RulesAssumption ==
  /\ IsFiniteSet(Rules)
  /\ Conditions \in [Rules -> SUBSET [field : Fields, cmp : Comparators, bound : Int]]
  /\ Percent \in [Rules -> (-90 .. 300) \cup {Nothing}]
  /\ Absolute \in [Rules -> Int \cup {Nothing}]
  /\ Priority \in [Rules -> 0 .. 100]
ASSUME PricesAssumption ==
  /\ Base \in Nat \ {0} /\ LeadTimes \subseteq Nat /\ Nights \in Nat \ {0}
  /\ Nothing \notin Int \cup Suggestions

VARIABLES
  rules,     \* the rules created so far, all enabled
  occupied,  \* booked nights of the unit's forward window
  run,       \* per evaluation: where it is, what it has read and computed
  offered,   \* pricing_suggestions.status
  rates,     \* rate_calendar, as the accept calls that inserted a row, per suggestion
  seen,      \* what the page has loaded: status, and the rates there were then
  click      \* each accept call: where it is, its suggestion, the rates its page knew

priceVars == <<rules, occupied, run, offered, rates, seen, click>>

PriceInit ==
  /\ rules = {} /\ occupied = 0
  /\ run = [s \in Suggestions |-> [at |-> "idle", lead |-> 0, occupancy |-> 0,
                                   read |-> {}, todo |-> {}, price |-> Base, fired |-> <<>>]]
  /\ offered = [s \in Suggestions |-> "none"]
  /\ rates = [s \in Suggestions |-> {}]
  /\ seen = [status |-> offered, rates |-> rates]
  /\ click = [k \in Clicks |-> [at |-> "idle", suggestion |-> Nothing, knew |-> {}]]

CreateRule(r) ==
  /\ r \notin rules
  /\ rules' = rules \cup {r}
  /\ UNCHANGED <<occupied, run, offered, rates, seen, click>>

(* Bookings and blocks come and go. *)
Occupy(n) ==
  /\ occupied' = n /\ n # occupied
  /\ UNCHANGED <<rules, run, offered, rates, seen, click>>

----------------------------------------------------------------------------
(* evaluate, in packages/shared. *)

Matches(value, c) ==
  CASE c.cmp = "lt"  -> value < c.bound
    [] c.cmp = "lte" -> value <= c.bound
    [] c.cmp = "gt"  -> value > c.bound
    [] c.cmp = "gte" -> value >= c.bound
    [] c.cmp = "eq"  -> value = c.bound

(* Occupancy is a share of the window; its bounds are in nights here. *)
Applies(r, lead, occupancy) ==
  \A c \in Conditions[r] : Matches(IF c.field = "occupancy" THEN occupancy ELSE lead, c)

(* Math.round of cents: halves go up, below zero too. *)
AddPercent(price, pct) == (2 * price * (100 + pct) + 100) \div 200

(* The percentage first, then the absolute adjustment. *)
Adjusted(price, r) ==
  LET p == IF Percent[r] = Nothing THEN price ELSE AddPercent(price, Percent[r])
  IN  IF Absolute[r] = Nothing THEN p ELSE p + Absolute[r]

Explained(r) == Percent[r] # Nothing \/ Absolute[r] # Nothing

----------------------------------------------------------------------------
(* PricingService. *)

ReadOccupancy(s, lead) ==
  /\ run[s].at = "idle"
  /\ run' = [run EXCEPT ![s].at = "rules", ![s].lead = lead, ![s].occupancy = occupied]
  /\ UNCHANGED <<rules, occupied, offered, rates, seen, click>>

ReadRules(s) ==
  /\ run[s].at = "rules"
  /\ run' = [run EXCEPT ![s].at = "loop", ![s].read = rules, ![s].todo = rules]
  /\ UNCHANGED <<rules, occupied, offered, rates, seen, click>>

(* Mutant of First: rules are taken in the order of the database. *)
FirstRead(s, r) == r \in run[s].todo
First(s, r) == r \in run[s].todo /\ \A q \in run[s].todo : Priority[q] <= Priority[r]

(* A rule that has no effect on prices fires without a reason. *)
Apply(s, r) ==
  /\ run[s].at = "loop" /\ First(s, r)
  /\ run' = [run EXCEPT
       ![s].todo = @ \ {r},
       ![s].price = IF Applies(r, run[s].lead, run[s].occupancy) THEN Adjusted(@, r) ELSE @,
       ![s].fired = IF Applies(r, run[s].lead, run[s].occupancy) /\ Explained(r)
                    THEN Append(@, r) ELSE @]
  /\ UNCHANGED <<rules, occupied, offered, rates, seen, click>>

(* Its transaction also writes pricing.suggestion.created to the outbox,   *)
(* which nothing reads.                                                    *)
InsertSuggestion(s) ==
  /\ run[s].at = "loop" /\ run[s].todo = {}
  /\ run' = [run EXCEPT ![s].at = "done"]
  /\ offered' = [offered EXCEPT ![s] = "suggested"]
  /\ UNCHANGED <<rules, occupied, rates, seen, click>>

(* The status is overwritten whatever it is. *)
Accept(k) ==
  /\ click[k].at = "sent" /\ click' = [click EXCEPT ![k].at = "ok"]
  /\ offered' = [offered EXCEPT ![click[k].suggestion] = "accepted"]
  /\ rates' = [rates EXCEPT ![click[k].suggestion] = @ \cup {k}]
  /\ UNCHANGED <<rules, occupied, run, seen>>

----------------------------------------------------------------------------
(* The page: the button has no loading flag, only the loaded status. *)

Load ==
  /\ seen' = [status |-> offered, rates |-> rates] /\ seen' # seen
  /\ UNCHANGED <<rules, occupied, run, offered, rates, click>>

(* Mutant of Acceptable: the button stays. *)
AcceptableAlways == {"suggested", "accepted"}
Acceptable == {"suggested"}

ClickAccept(k, s) ==
  /\ click[k].at = "idle" /\ seen.status[s] \in Acceptable
  /\ click' = [click EXCEPT ![k] = [at |-> "sent", suggestion |-> s, knew |-> seen.rates[s]]]
  /\ UNCHANGED <<rules, occupied, run, offered, rates, seen>>

Evaluate(s) ==
  \/ \E lead \in LeadTimes : ReadOccupancy(s, lead)
  \/ ReadRules(s) \/ InsertSuggestion(s)
  \/ \E r \in Rules : Apply(s, r)

PriceNext ==
  \/ \E r \in Rules : CreateRule(r)
  \/ \E n \in 0 .. Nights : Occupy(n)
  \/ \E s \in Suggestions : Evaluate(s)
  \/ \E k \in Clicks : Accept(k) \/ \E s \in Suggestions : ClickAccept(k, s)
  \/ Load

PriceSpec == PriceInit /\ [][PriceNext]_priceVars

----------------------------------------------------------------------------
(* Evaluations, rows and clicks have their types. *)
PriceTypeOK ==
  /\ rules \subseteq Rules /\ occupied \in 0 .. Nights
  /\ run \in [Suggestions -> [at : {"idle", "rules", "loop", "done"}, lead : {0} \cup LeadTimes,
                              occupancy : 0 .. Nights, read : SUBSET Rules, todo : SUBSET Rules,
                              price : Int, fired : Seq(Rules)]]
  /\ offered \in [Suggestions -> {"none", "suggested", "accepted"}]
  /\ rates \in [Suggestions -> SUBSET Clicks]
  /\ seen \in [status : [Suggestions -> {"none", "suggested", "accepted"}],
              rates : [Suggestions -> SUBSET Clicks]]
  /\ click \in [Clicks -> [at : {"idle", "sent", "ok"}, suggestion : Suggestions \cup {Nothing},
                           knew : SUBSET Clicks]]

Untied(rs) == \A q, r \in rs : q # r => Priority[q] # Priority[r]

(* The answer depends on the day and on the rules alone: whatever order    *)
(* the database returns the rules in, two evaluations that saw the same    *)
(* lead time, occupancy and rules suggest the same price for the same      *)
(* reasons.  Rules of one priority are exempt: the sort leaves them as     *)
(* they came, and nothing orders them.                                     *)
SameDaySamePrice ==
  \A s, u \in Suggestions :
    LET a == run[s]
        b == run[u]
    IN  /\ a.at = "done" /\ b.at = "done" /\ Untied(a.read)
        /\ <<a.lead, a.occupancy, a.read>> = <<b.lead, b.occupancy, b.read>>
        => a.price = b.price /\ a.fired = b.fired

(* A suggestion is entered on the rate calendar only by clicks on pages    *)
(* loaded when it had no entry: the server takes every call, and what a    *)
(* page shows must tell whether the price was entered, for a second entry  *)
(* to take a page that was loaded before the first.                        *)
ExtraRatesOnlyByStaleClicks ==
  \A s \in Suggestions : \A k \in rates[s] : click[k].knew = {}
=============================================================================
