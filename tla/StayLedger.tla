----------------------------- MODULE StayLedger -----------------------------
(***************************************************************************)
(* What the reservation side of the platform promises, with no database,   *)
(* no channels and no failures: a ledger of the stays that currently hold  *)
(* nights, in which two stays of one unit never share a night.             *)
(* Module Reservations is shown to implement it.                           *)
(***************************************************************************)
EXTENDS Integers

CONSTANTS
  Ids,      \* names of the stays: bookings and manual blocks
  Stay,     \* the stays that can be asked for, [unit, from, to]
  None      \* no stay

VARIABLE ledger   \* the stay each name holds, or None

(* Half-open ranges [from, to): a turnover on one day does not clash, and
   an empty range clashes with nothing (Postgres tstzrange and &&). *)
Clash(s, t) ==
  /\ s.unit = t.unit
  /\ s.from < s.to /\ t.from < t.to
  /\ s.from < t.to /\ t.from < s.to

Init == ledger = [i \in Ids |-> None]

(* Name i takes nights nobody holds: ledger'[i] is the stay it takes. *)
Reserve(i) ==
  /\ ledger[i] = None
  /\ ledger'[i] \in Stay
  /\ \A j \in Ids : ledger[j] # None => ~Clash(ledger'[i], ledger[j])
  /\ ledger' = [ledger EXCEPT ![i] = ledger'[i]]

Release(i) ==
  /\ ledger[i] # None
  /\ ledger' = [ledger EXCEPT ![i] = None]

Next == \E i \in Ids : Release(i) \/ Reserve(i)

Spec == Init /\ [][Next]_ledger

(* No night of a unit is held twice: README.md, invariant 1. *)
Exclusive ==
  \A i, j \in Ids :
    (i # j /\ ledger[i] # None /\ ledger[j] # None) => ~Clash(ledger[i], ledger[j])
=============================================================================
