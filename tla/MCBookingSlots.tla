--------------------------- MODULE MCBookingSlots ---------------------------
(* Small instances of BookingSlots for TLC. *)
EXTENDS BookingSlots, TLC

CONSTANTS salon, Starts

\* Half an hour each, at the times the instance names.
MCSlots == {[provider |-> salon, start |-> t, duration |-> 30] : t \in Starts}
MCHours == [p \in Providers |-> [from |-> 600, to |-> 1020]]

Symmetry == Permutations(Bookings) \cup Permutations(Workers)
=============================================================================
