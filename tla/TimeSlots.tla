----------------------------- MODULE TimeSlots -----------------------------
(***************************************************************************)
(* The arithmetic of a day of appointments, in minutes since midnight      *)
(* (src/modules/bookings/bookings.service.ts).  A slot is what a booking   *)
(* asks of a provider; times that cannot be parsed are not slots.          *)
(***************************************************************************)
EXTENDS Integers

End(s) == s.start + s.duration

\* isWithinWindow: the appointment starts and ends within the opening hours.
WithinWindow(s, from, to) == s.start >= from /\ End(s) <= to

\* findConflictingBooking, and the look at the other entries of a multi-booking:
\* five minutes are added to both ends, and five taken off the new start.
Conflicts(existing, new) ==
  /\ existing.provider = new.provider
  /\ existing.start < End(new) + 5
  /\ End(existing) + 5 > new.start - 5

-----------------------------------------------------------------------------
\* What is meant: the provider serves both at once, or has less than n minutes
\* between them.
Closer(s, t, n) == s.provider = t.provider /\ s.start < End(t) + n /\ t.start < End(s) + n
=============================================================================
