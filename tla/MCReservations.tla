--------------------------- MODULE MCReservations ---------------------------
(* A small town for Reservations: one unit, three nights, one channel.  Event
   e1 books nights 0-2 under reference x; e2 wants an overlapping night for
   the same guest under y; e3 cancels x; e4 is a modification the channel sends
   as a second creation under x; e5 has its dates the wrong way round.  Users of
   the API confirm an overlapping stay, a zero-night stay and an inverted one,
   and managers block a night and delete blocks. *)
EXTENDS Reservations, TLC

CONSTANTS r1, r2, r3, u, x, y, g, e1, e2, e3, e4, e5

S(from, to) == [unit |-> u, from |-> from, to |-> to]

Event(type, ref, stay, email) ==
  [type |-> type, ref |-> ref, stay |-> stay, email |-> email]

MCPayload ==
     e1 :> Event("booking.created", x, S(0, 2), g)
  @@ e2 :> Event("booking.created", y, S(1, 3), g)
  @@ e3 :> Event("booking.cancelled", x, S(0, 2), None)
  @@ e4 :> Event("booking.created", x, S(2, 3), None)
  @@ e5 :> Event("booking.created", y, S(2, 1), None)

MCCalls ==
  [kind : {"deliver"}, event : Events]
    \cup [kind : {"confirm"}, stay : {S(1, 2), S(1, 1), S(2, 1)}]
    \cup [kind : {"block"}, stay : {S(0, 1), S(3, 2)}]
    \cup [kind : {"remove"}]

MCDays == 0 .. 3
=============================================================================
