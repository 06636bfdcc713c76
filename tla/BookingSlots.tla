---------------------------- MODULE BookingSlots ----------------------------
(***************************************************************************)
(* How bookings come by their slots (src/modules/bookings/                 *)
(* bookings.service.ts): createBooking for one person and for several, the *)
(* bookings made by the provider (createBookingForCustomer, and checkIn of *)
(* the walk-in queue), which check nothing, and the status changes, which  *)
(* decide whether a booking still takes its slot: updateBookingStatus, and *)
(* the queue's updateStatus (modules/qr-checkin/qr-checkin.service.ts).    *)
(*                                                                         *)
(* One day; a booking of another day conflicts with nothing.  The checks   *)
(* of a call and its insert are separate statements with no lock.          *)
(***************************************************************************)
EXTENDS TimeSlots, FiniteSets

CONSTANTS
  Providers,
  Customers,
  Slots,       \* slots asked for: [provider, start, duration]
  Hours,       \* [Providers -> [from, to]]: opening hours or working hours
  Bookings,    \* bound: rows
  Workers,     \* calls that may be in flight at the same time
  MaxParty,    \* bound: persons of one createBooking call
  Asked,       \* bound: statuses a request may ask for
  MaxChanges,  \* bound: status changes
  Unchecked,   \* TRUE if bookings are also made by the provider
  Revivals     \* TRUE if a booking may return from an inactive status

ASSUME SlotsAssumption ==
  /\ Slots # {} /\ Customers # {}
  /\ Slots \subseteq [provider : Providers, start : Nat, duration : Nat \ {0}]
  /\ Hours \in [Providers -> [from : Nat, to : Nat]]
  /\ Asked \subseteq {"pending", "confirmed", "in_progress", "completed", "cancelled", "no_show"}
  /\ MaxParty \in Nat /\ MaxChanges \in Nat
  /\ Unchecked \in BOOLEAN /\ Revivals \in BOOLEAN

VARIABLES
  status,    \* Booking.status; "none" if there is no row
  slot,      \* the slot of a row
  owner,     \* the customer of a row
  call,      \* what each worker is doing
  changes,   \* status changes so far
  rivals,    \* for a row: those inserted between its call's first check and its insert
  unchecked, \* rows made by the provider
  revived    \* rows that returned from an inactive status

table == <<status, slot, owner>>
history == <<rivals, unchecked, revived>>
vars == <<table, call, changes, history>>

ActiveStatuses == {"pending", "confirmed", "in_progress"}
Statuses == ActiveStatuses \cup {"completed", "cancelled", "no_show"}
Rows == {b \in Bookings : status[b] # "none"}
Active == {b \in Bookings : status[b] \in ActiveStatuses}
Free == Bookings \ Rows

Steps == {"idle", "duplicate", "check", "insert"}
Calls == [step : Steps, customer : Customers, todo : SUBSET Slots,
          valid : SUBSET Slots, since : SUBSET Bookings]
AnySlot == CHOOSE s \in Slots : TRUE
AnyCustomer == CHOOSE c \in Customers : TRUE
Idle == [step |-> "idle", customer |-> AnyCustomer, todo |-> {}, valid |-> {}, since |-> {}]

Init ==
  /\ status = [b \in Bookings |-> "none"]
  /\ slot = [b \in Bookings |-> AnySlot]
  /\ owner = [b \in Bookings |-> AnyCustomer]
  /\ call = [w \in Workers |-> Idle]
  /\ changes = 0
  /\ rivals = [b \in Bookings |-> {}]
  /\ unchecked = {} /\ revived = {}

Return(w) == call' = [call EXCEPT ![w] = Idle]

\* The rows in f's range are inserted; every call in flight is told (rivals).
Created(f, c) ==
  LET new == {f[s] : s \in DOMAIN f}
      slotOf(b) == CHOOSE s \in DOMAIN f : f[s] = b
  IN /\ status' = [b \in Bookings |-> IF b \in new THEN "pending" ELSE status[b]]
     /\ slot' = [b \in Bookings |-> IF b \in new THEN slotOf(b) ELSE slot[b]]
     /\ owner' = [b \in Bookings |-> IF b \in new THEN c ELSE owner[b]]
Tell(k, new) == [k EXCEPT !.since = IF k.step = "idle" THEN {} ELSE k.since \cup new]

-----------------------------------------------------------------------------
\* createBooking: one person, or several (persons with the same slot at one
\* provider are refused, so a party is a set of slots).
CreateBooking(w, c, party) ==
  /\ call[w].step = "idle"
  /\ call' = [call EXCEPT ![w] =
       [step |-> IF Cardinality(party) = 1 THEN "duplicate" ELSE "check",
        customer |-> c, todo |-> party, valid |-> {}, since |-> {}]]
  /\ UNCHANGED <<table, changes, history>>

Duplicates(c, s) ==
  {b \in Rows : owner[b] = c /\ slot[b].provider = s.provider /\ slot[b].start = s.start}

\* findDuplicateBooking: a booking by the same customer at the same time,
\* whatever has become of it, is taken for this one if it is not a minute old.
FindDuplicate(w) ==
  /\ call[w].step = "duplicate"
  /\ \/ /\ \E s \in call[w].todo : Duplicates(call[w].customer, s) # {}
        /\ Return(w)
     \/ call' = [call EXCEPT ![w].step = "check"]
  /\ UNCHANGED <<table, changes, history>>

Available(s) == WithinWindow(s, Hours[s.provider].from, Hours[s.provider].to)

\* What createBooking checks for each slot, and evaluateAvailability answers: the
\* provider is there and at work, and no active booking conflicts.
Bookable(s) == Available(s) /\ \A b \in Active : ~Conflicts(slot[b], s)

\* Mutant: the members of a party are checked against the table only.
CheckSlotAlone(w) ==
  /\ call[w].step = "check"
  /\ \E s \in call[w].todo :
       IF Bookable(s)
         THEN call' = [call EXCEPT ![w].todo = @ \ {s}, ![w].valid = @ \cup {s},
                                   ![w].step = IF call[w].todo = {s} THEN "insert" ELSE @]
         ELSE Return(w)
  /\ UNCHANGED <<table, changes, history>>

\* assertAvailability and findConflictingBooking, for one person after the
\* other, in any order; one that fails fails the call.
CheckSlot(w) ==
  /\ call[w].step = "check"
  /\ \E s \in call[w].todo :
       IF /\ Bookable(s)
          /\ \A t \in call[w].valid : ~Conflicts(t, s)
         THEN call' = [call EXCEPT ![w].todo = @ \ {s}, ![w].valid = @ \cup {s},
                                   ![w].step = IF call[w].todo = {s} THEN "insert" ELSE @]
         ELSE Return(w)
  /\ UNCHANGED <<table, changes, history>>

\* The rows are inserted, those of a party in one transaction.
InsertBookings(w) ==
  /\ call[w].step = "insert"
  /\ \E f \in [call[w].valid -> Free] :
       /\ \A s, t \in call[w].valid : f[s] = f[t] => s = t
       /\ LET new == {f[s] : s \in call[w].valid}
          IN /\ Created(f, call[w].customer)
             /\ rivals' = [b \in Bookings |->
                             IF b \in new THEN call[w].since ELSE rivals[b]]
             /\ call' = [u \in Workers |-> IF u = w THEN Idle ELSE Tell(call[u], new)]
  /\ UNCHANGED <<changes, unchecked, revived>>

\* The row is inserted as it is, without a look at the hours or the table.
InsertUnchecked(c, s) ==
  /\ Unchecked
  /\ \E b \in Free :
       /\ Created([t \in {s} |-> b], c)
       /\ unchecked' = unchecked \cup {b}
       /\ call' = [u \in Workers |-> Tell(call[u], {b})]
  /\ UNCHANGED <<changes, rivals, revived>>

\* A provider books for a customer, whose account is made if there is none, and
\* a walk-in checks in for a slot that starts now.
CreateBookingForCustomer(c, s) == InsertUnchecked(c, s)
CheckIn(c, s) == InsertUnchecked(c, s)

\* Whoever takes a slot again after giving it up is noted.
ChangeStatus(b, s) ==
  /\ b \in Rows /\ s # status[b]
  /\ changes < MaxChanges /\ changes' = changes + 1
  /\ b \notin Active /\ s \in ActiveStatuses => Revivals
  /\ status' = [status EXCEPT ![b] = s]
  /\ revived' = IF b \notin Active /\ s \in ActiveStatuses THEN revived \cup {b} ELSE revived
  /\ UNCHANGED <<slot, owner, call, rivals, unchecked>>

\* updateBookingStatus: any status may be asked for, but a booking in progress
\* is not cancelled, and one that starts within two hours may not be.
UpdateBookingStatus(b, s) ==
  ~(s = "cancelled" /\ status[b] = "in_progress") /\ ChangeStatus(b, s)

\* updateStatus of the queue: four statuses, from whatever the booking is.
QueueStatuses == {"confirmed", "in_progress", "completed", "cancelled"}
UpdateStatus(b, s) == s \in QueueStatuses /\ ChangeStatus(b, s)

Parties == {p \in SUBSET Slots : Cardinality(p) \in 1..MaxParty}

Next ==
  \/ \E w \in Workers :
       \/ \E c \in Customers, p \in Parties : CreateBooking(w, c, p)
       \/ FindDuplicate(w) \/ CheckSlot(w) \/ InsertBookings(w)
  \/ \E c \in Customers, s \in Slots : CreateBookingForCustomer(c, s) \/ CheckIn(c, s)
  \/ \E b \in Bookings, s \in Asked : UpdateBookingStatus(b, s) \/ UpdateStatus(b, s)

Spec == Init /\ [][Next]_vars

-----------------------------------------------------------------------------
\* Rows, calls and histories have their types.
TypeOK ==
  /\ status \in [Bookings -> Statuses \cup {"none"}]
  /\ slot \in [Bookings -> Slots] /\ owner \in [Bookings -> Customers]
  /\ unchecked \subseteq Rows /\ revived \subseteq Rows
  /\ rivals \in [Bookings -> SUBSET Bookings]
  /\ call \in [Workers -> Calls]
  /\ changes \in 0..MaxChanges

\* The only ways to two active bookings closer than five minutes at a provider:
\* their calls were in flight together, the provider made one of them, or one
\* returned from an inactive status.  Everything else (sequences of calls,
\* parties, cancellations) is caught by findConflictingBooking.
ClashExplained ==
  \A b, c \in Active :
    b # c /\ Closer(slot[b], slot[c], 5) =>
      \/ b \in rivals[c] \/ c \in rivals[b]
      \/ {b, c} \cap (unchecked \cup revived) # {}
=============================================================================
