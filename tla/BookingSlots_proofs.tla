------------------------- MODULE BookingSlots_proofs -------------------------
(***************************************************************************)
(* Proofs about BookingSlots, for any number of providers, slots, rows and *)
(* calls in flight, parties of any size and any sequence of status changes. *)
(***************************************************************************)
EXTENDS BookingSlots, TLAPS

\* A slot found free of conflicts keeps five minutes to the slot it was compared
\* with, whichever of the two was booked first (findConflictingBooking asks for
\* five before an existing booking and ten after it).
THEOREM NoConflictKeepsDistance ==
  ASSUME NEW e \in [provider : Providers, start : Nat, duration : Nat \ {0}],
         NEW n \in [provider : Providers, start : Nat, duration : Nat \ {0}],
         ~Conflicts(e, n)
  PROVE  ~Closer(e, n, 5) /\ ~Closer(n, e, 5)
<1>1. /\ e.start \in Nat /\ e.duration \in Nat
      /\ n.start \in Nat /\ n.duration \in Nat
  OBVIOUS
<1>2. QED
  BY <1>1 DEF Conflicts, Closer, End

\* Being close is symmetric.
LEMMA CloserSymmetric ==
  ASSUME NEW s, NEW t, Closer(s, t, 5)
  PROVE  Closer(t, s, 5)
  BY DEF Closer

-----------------------------------------------------------------------------
\* What the slots of a call in flight may rely on: they keep their distance from
\* each other, and from every active booking that was there when they were
\* checked and has been active ever since.
Holds(k) ==
  /\ k.step = "idle" => k.valid = {}
  /\ \A s \in k.valid :
       /\ \A t \in k.valid : s # t => ~Closer(s, t, 5)
       /\ \A b \in Active : Closer(slot[b], s, 5) => b \in k.since \cup revived

ChecksHold == \A w \in Workers : Holds(call[w])

IInv == TypeOK /\ ClashExplained /\ ChecksHold

\* It holds of the empty table.
LEMMA InitIInv == Init => IInv
<1> SUFFICES ASSUME Init PROVE IInv
  OBVIOUS
<1>1. AnySlot \in Slots /\ AnyCustomer \in Customers
  BY SlotsAssumption DEF AnySlot, AnyCustomer
<1>2. Idle \in Calls /\ Idle.valid = {}
  BY <1>1 DEF Idle, Calls, Steps
<1>3. call = [w \in Workers |-> Idle]
  BY DEF Init
<1>4. TypeOK
  BY <1>1, <1>2, <1>3, SlotsAssumption DEF Init, TypeOK, Rows
<1>5. Active = {}
  BY DEF Init, Active, ActiveStatuses
<1>6. ClashExplained /\ ChecksHold
  BY <1>2, <1>3, <1>5 DEF ClashExplained, ChecksHold, Holds
<1>7. QED
  BY <1>4, <1>6 DEF IInv

\* A step of a call that leaves the tables alone.
LEMMA CallStep ==
  ASSUME IInv, NEW w \in Workers, NEW k \in Calls,
         call' = [call EXCEPT ![w] = k], UNCHANGED <<table, changes, history>>, Holds(k)
  PROVE  IInv'
<1>1. Rows' = Rows /\ Active' = Active
  BY DEF Rows, Active, table
<1>2. TypeOK'
  BY <1>1 DEF IInv, TypeOK, table, history
<1>3. ClashExplained'
  BY <1>1 DEF IInv, ClashExplained, table, history
<1>4. ChecksHold'
  BY <1>1 DEF IInv, TypeOK, ChecksHold, Holds, table, history
<1>5. QED
  BY <1>2, <1>3, <1>4 DEF IInv

\* createBooking starts, or finds a duplicate, or does not.
LEMMA StartsIInv ==
  ASSUME IInv, NEW w \in Workers,
         \/ \E c \in Customers, p \in Parties : CreateBooking(w, c, p)
         \/ FindDuplicate(w)
  PROVE  IInv'
<1>1. AnyCustomer \in Customers
  BY SlotsAssumption DEF AnyCustomer
<1>2. Idle \in Calls /\ Holds(Idle) /\ call[w] \in Calls
  BY <1>1 DEF Idle, Calls, Steps, IInv, TypeOK, Holds
<1>3. ASSUME NEW c \in Customers, NEW p \in Parties, CreateBooking(w, c, p)
      PROVE  IInv'
  <2> DEFINE k == [step |-> IF Cardinality(p) = 1 THEN "duplicate" ELSE "check",
                   customer |-> c, todo |-> p, valid |-> {}, since |-> {}]
  <2>1. k \in Calls /\ Holds(k)
    BY DEF Calls, Steps, Parties, Holds
  <2>2. call' = [call EXCEPT ![w] = k] /\ UNCHANGED <<table, changes, history>>
    BY <1>3 DEF CreateBooking
  <2>3. QED
    BY <2>1, <2>2, CallStep
<1>4. CASE FindDuplicate(w)
  <2> DEFINE k == [call[w] EXCEPT !.step = "check"]
  <2>1. /\ k \in Calls /\ k.step = "check"
        /\ k.valid = call[w].valid /\ k.since = call[w].since
    BY <1>2 DEF Calls, Steps
  <2>2. UNCHANGED <<table, changes, history>>
    BY <1>4 DEF FindDuplicate
  <2>3. CASE call' = [call EXCEPT ![w] = Idle]
    BY <1>2, <2>2, <2>3, CallStep
  <2>4. CASE call' = [call EXCEPT ![w] = k]
    BY <2>1, <2>2, <2>4, CallStep DEF IInv, ChecksHold, Holds
  <2>5. QED
    BY <1>4, <2>3, <2>4 DEF FindDuplicate, Return
<1>5. QED
  BY <1>3, <1>4

\* One more slot is checked: it keeps its distance from all active bookings and
\* from the slots checked before it.
LEMMA CheckSlotIInv ==
  ASSUME IInv, NEW w \in Workers, CheckSlot(w)
  PROVE  IInv'
<1>1. call[w] \in Calls /\ UNCHANGED <<table, changes, history>>
  BY DEF IInv, TypeOK, CheckSlot
<1>2. CASE Return(w)
  <2>1. Idle \in Calls /\ Holds(Idle)
    BY SlotsAssumption DEF Idle, Calls, Steps, AnyCustomer, Holds
  <2>2. QED
    BY <1>1, <1>2, <2>1, CallStep DEF Return
<1>3. CASE ~Return(w)
  <2>1. PICK s \in call[w].todo :
          /\ \A b \in Active : ~Conflicts(slot[b], s)
          /\ \A t \in call[w].valid : ~Conflicts(t, s)
          /\ call' = [call EXCEPT ![w].todo = @ \ {s}, ![w].valid = @ \cup {s},
                                  ![w].step = IF call[w].todo = {s} THEN "insert" ELSE @]
    BY <1>3 DEF CheckSlot, Bookable
  <2> DEFINE k == [call[w] EXCEPT !.todo = @ \ {s}, !.valid = @ \cup {s},
                                  !.step = IF call[w].todo = {s} THEN "insert" ELSE @]
  <2>2. call' = [call EXCEPT ![w] = k]
    BY <2>1 DEF IInv, TypeOK
  <2>3. /\ k \in Calls /\ k.step \in {"check", "insert"}
        /\ k.valid = call[w].valid \cup {s} /\ k.since = call[w].since
    BY <1>1, <2>1 DEF Calls, Steps, CheckSlot
  <2>4. s \in Slots /\ call[w].valid \subseteq Slots /\ \A b \in Active : slot[b] \in Slots
    BY <1>1 DEF Calls, IInv, TypeOK, Active
  <2>5. \A t \in call[w].valid : ~Closer(t, s, 5) /\ ~Closer(s, t, 5)
    BY <2>1, <2>4, NoConflictKeepsDistance, SlotsAssumption
  <2>6. \A b \in Active : ~Closer(slot[b], s, 5)
    BY <2>1, <2>4, NoConflictKeepsDistance, SlotsAssumption
  <2> HIDE DEF k
  <2>7. Holds(k)
    BY <2>3, <2>5, <2>6 DEF IInv, ChecksHold, Holds
  <2>8. QED
    BY <1>1, <2>2, <2>3, <2>7, CallStep
<1>4. QED
  BY <1>2, <1>3
-----------------------------------------------------------------------------
(* Rows are inserted.                                                       *)

\* What an insert does to the set of active bookings, and to the rows.
LEMMA CreatedRows ==
  ASSUME TypeOK, NEW new \in SUBSET Free,
         \A b \in Bookings : status'[b] = IF b \in new THEN "pending" ELSE status[b]
  PROVE  Active' = Active \cup new /\ Rows' = Rows \cup new
  BY DEF TypeOK, Active, Rows, Free, ActiveStatuses, Statuses

\* A call in flight that is told of new rows still holds what it relies on.
LEMMA TellHolds ==
  ASSUME IInv, NEW new \in SUBSET Free, Active' = Active \cup new, revived' = revived,
         \A b \in Bookings \ new : slot'[b] = slot[b], NEW u \in Workers,
         call'[u] = Tell(call[u], new)
  PROVE  call'[u] \in Calls /\ Holds(call[u])'
<1>1. call[u] \in Calls /\ Holds(call[u]) /\ new \subseteq Bookings
  BY DEF IInv, TypeOK, ChecksHold, Free
<1>2. /\ call'[u] \in Calls /\ call'[u].valid = call[u].valid /\ call'[u].step = call[u].step
      /\ call'[u].since = IF call[u].step = "idle" THEN {} ELSE call[u].since \cup new
  BY <1>1 DEF Tell, Calls
<1>3. \A b \in Active' : b \in new \/ (b \in Active /\ slot'[b] = slot[b])
  BY DEF Active
<1>4. QED
  BY <1>1, <1>2, <1>3 DEF Holds

\* The rows of a call are inserted: those it did not see came in while it was in
\* flight.
LEMMA InsertBookingsIInv ==
  ASSUME IInv, NEW w \in Workers, InsertBookings(w)
  PROVE  IInv'
<1> DEFINE V == call[w].valid
<1>1. /\ call[w] \in Calls /\ Holds(call[w]) /\ V \in SUBSET Slots
      /\ call[w].customer \in Customers /\ call[w].since \subseteq Bookings
  BY DEF IInv, TypeOK, ChecksHold, Calls
<1>2. PICK f \in [V -> Free] :
        /\ \A s, t \in V : f[s] = f[t] => s = t
        /\ Created(f, call[w].customer)
        /\ rivals' = [b \in Bookings |->
                        IF b \in {f[s] : s \in V} THEN call[w].since ELSE rivals[b]]
        /\ call' = [u \in Workers |-> IF u = w THEN Idle ELSE Tell(call[u], {f[s] : s \in V})]
  BY DEF InsertBookings
<1> DEFINE new == {f[s] : s \in V}
<1>3. TypeOK /\ UNCHANGED <<changes, unchecked, revived>>
  BY DEF IInv, InsertBookings
<1>4. /\ new \subseteq Free
      /\ Active' = Active \cup new /\ Rows' = Rows \cup new
      /\ status' \in [Bookings -> Statuses \cup {"none"}]
      /\ slot' \in [Bookings -> Slots] /\ owner' \in [Bookings -> Customers]
      /\ \A s \in V : slot'[f[s]] = s
      /\ \A b \in Bookings \ new : slot'[b] = slot[b]
  <2> DEFINE slotOf(b) == CHOOSE s \in V : f[s] = b
  <2>1. new \in SUBSET Free /\ new \subseteq Bookings /\ DOMAIN f = V
    BY DEF Free
  <2>2. /\ status' = [b \in Bookings |-> IF b \in new THEN "pending" ELSE status[b]]
        /\ slot' = [b \in Bookings |-> IF b \in new THEN slotOf(b) ELSE slot[b]]
        /\ owner' = [b \in Bookings |-> IF b \in new THEN call[w].customer ELSE owner[b]]
    BY <1>2, <2>1 DEF Created
  <2>3. \A s \in V : slotOf(f[s]) = s /\ f[s] \in new
    BY <1>2
  <2>4. \A b \in new : slotOf(b) \in Slots
    BY <1>1, <2>3
  <2> HIDE DEF new, V, slotOf
  <2>5. \A b \in Bookings : status'[b] = IF b \in new THEN "pending" ELSE status[b]
    BY <2>2
  <2>6. Active' = Active \cup new /\ Rows' = Rows \cup new
    BY <1>3, <2>1, <2>5, CreatedRows
  <2>7. /\ status' \in [Bookings -> Statuses \cup {"none"}]
        /\ slot' \in [Bookings -> Slots] /\ owner' \in [Bookings -> Customers]
    BY <1>1, <1>3, <2>2, <2>4 DEF TypeOK, Statuses, ActiveStatuses
  <2>8. \A s \in V : slot'[f[s]] = s
    BY <2>1, <2>2, <2>3
  <2>9. \A b \in Bookings \ new : slot'[b] = slot[b]
    BY <2>2
  <2>10. QED
    BY <2>1, <2>6, <2>7, <2>8, <2>9
<1>5. \A b \in new : \E s \in V : b = f[s] /\ slot'[b] = s
  BY <1>4
<1>6. /\ \A b \in new : rivals'[b] = call[w].since
      /\ \A b \in Bookings \ new : rivals'[b] = rivals[b]
      /\ rivals' \in [Bookings -> SUBSET Bookings]
  BY <1>1, <1>2, <1>3, <1>4 DEF TypeOK, Free
<1>7. /\ call'[w] = Idle /\ DOMAIN call' = Workers
      /\ \A u \in Workers : u # w => call'[u] = Tell(call[u], new)
      /\ call' = [u \in Workers |-> call'[u]]
  BY <1>2
<1> HIDE DEF new, V
<1>8. \A u \in Workers : call'[u] \in Calls /\ Holds(call[u])'
  <2>1. Idle \in Calls /\ (call'[w] = Idle => Holds(call[w])')
    BY SlotsAssumption DEF Idle, Calls, Steps, AnyCustomer, Holds
  <2>2. ASSUME NEW u \in Workers, u # w
        PROVE  call'[u] \in Calls /\ Holds(call[u])'
    BY <1>3, <1>4, <1>7, <2>2, TellHolds
  <2>3. QED
    BY <1>7, <2>1, <2>2
<1>9. TypeOK'
  BY <1>3, <1>4, <1>6, <1>7, <1>8 DEF TypeOK, Free
<1>10. ClashExplained'
  <2>1. SUFFICES ASSUME NEW b \in Active', NEW c \in Active', b # c,
                        Closer(slot'[b], slot'[c], 5)
                 PROVE  \/ b \in rivals'[c] \/ c \in rivals'[b]
                        \/ {b, c} \cap (unchecked' \cup revived') # {}
    BY DEF ClashExplained
  <2>2. Active \subseteq Bookings \ new
    BY <1>4 DEF Active, Free, Rows, ActiveStatuses
  <2>3. CASE b \in Active /\ c \in Active
    BY <1>3, <1>4, <1>6, <2>1, <2>2, <2>3 DEF IInv, ClashExplained
  <2>4. CASE b \in new /\ c \in new
    <3>1. PICK s \in V, t \in V : b = f[s] /\ c = f[t] /\ slot'[b] = s /\ slot'[c] = t
      BY <1>5, <2>4
    <3>2. s # t
      BY <2>1, <3>1
    <3>3. QED
      BY <1>1, <2>1, <3>1, <3>2 DEF Holds, V
  <2>5. CASE b \in new /\ c \in Active
    <3>1. PICK s \in V : slot'[b] = s /\ rivals'[b] = call[w].since /\ slot'[c] = slot[c]
      BY <1>4, <1>5, <1>6, <2>2, <2>5
    <3>2. Closer(slot[c], s, 5)
      BY <2>1, <3>1, CloserSymmetric
    <3>3. QED
      BY <1>1, <1>3, <2>5, <3>1, <3>2 DEF Holds, V
  <2>6. CASE c \in new /\ b \in Active
    <3>1. PICK s \in V : slot'[c] = s /\ rivals'[c] = call[w].since /\ slot'[b] = slot[b]
      BY <1>4, <1>5, <1>6, <2>2, <2>6
    <3>2. Closer(slot[b], s, 5)
      BY <2>1, <3>1
    <3>3. QED
      BY <1>1, <1>3, <2>6, <3>1, <3>2 DEF Holds, V
  <2>7. QED
    BY <1>4, <2>3, <2>4, <2>5, <2>6
<1>11. ChecksHold'
  BY <1>8 DEF ChecksHold
<1>12. QED
  BY <1>9, <1>10, <1>11 DEF IInv

\* A booking is made without a check: it is noted as unchecked.
LEMMA InsertUncheckedIInv ==
  ASSUME IInv, NEW c \in Customers, NEW s \in Slots, InsertUnchecked(c, s)
  PROVE  IInv'
<1>1. PICK b \in Free :
        /\ Created([t \in {s} |-> b], c) /\ unchecked' = unchecked \cup {b}
        /\ call' = [u \in Workers |-> Tell(call[u], {b})]
  BY DEF InsertUnchecked
<1> DEFINE f == [t \in {s} |-> b]
<1>2. {f[t] : t \in {s}} = {b}
  OBVIOUS
<1>3. TypeOK /\ UNCHANGED <<changes, rivals, revived>> /\ b \in Bookings
  BY DEF IInv, InsertUnchecked, Free
<1>4. /\ Active' = Active \cup {b} /\ Rows' = Rows \cup {b}
      /\ status' \in [Bookings -> Statuses \cup {"none"}]
      /\ slot' \in [Bookings -> Slots] /\ owner' \in [Bookings -> Customers]
      /\ \A d \in Bookings \ {b} : slot'[d] = slot[d]
  <2> DEFINE slotOf(d) == CHOOSE t \in {s} : f[t] = d
  <2>1. DOMAIN f = {s} /\ slotOf(b) = s /\ {b} \in SUBSET Free
    OBVIOUS
  <2>2. /\ status' = [d \in Bookings |-> IF d \in {b} THEN "pending" ELSE status[d]]
        /\ slot' = [d \in Bookings |-> IF d \in {b} THEN slotOf(d) ELSE slot[d]]
        /\ owner' = [d \in Bookings |-> IF d \in {b} THEN c ELSE owner[d]]
    BY <1>1, <1>2, <2>1 DEF Created
  <2> HIDE DEF f, slotOf
  <2>3. \A d \in Bookings : status'[d] = IF d \in {b} THEN "pending" ELSE status[d]
    BY <2>2
  <2>4. Active' = Active \cup {b} /\ Rows' = Rows \cup {b}
    BY <1>3, <2>1, <2>3, CreatedRows
  <2>5. /\ status' \in [Bookings -> Statuses \cup {"none"}]
        /\ slot' \in [Bookings -> Slots] /\ owner' \in [Bookings -> Customers]
    BY <1>3, <2>1, <2>2 DEF TypeOK, Statuses, ActiveStatuses
  <2>6. \A d \in Bookings \ {b} : slot'[d] = slot[d]
    BY <2>2
  <2>7. QED
    BY <2>4, <2>5, <2>6
<1>5. /\ DOMAIN call' = Workers /\ call' = [u \in Workers |-> call'[u]]
      /\ \A u \in Workers : call'[u] = Tell(call[u], {b})
  BY <1>1
<1>6. \A u \in Workers : call'[u] \in Calls /\ Holds(call[u])'
  BY <1>3, <1>4, <1>5, TellHolds
<1>7. TypeOK'
  BY <1>1, <1>3, <1>4, <1>5, <1>6 DEF TypeOK
<1>8. ClashExplained'
  BY <1>1, <1>3, <1>4 DEF IInv, ClashExplained, Active
<1>9. ChecksHold'
  BY <1>6 DEF ChecksHold
<1>10. QED
  BY <1>7, <1>8, <1>9 DEF IInv

\* A status changes: whoever becomes active again is noted as revived.
LEMMA UpdateStatusIInv ==
  ASSUME IInv, NEW b \in Bookings, NEW s \in Asked, UpdateBookingStatus(b, s) \/ UpdateStatus(b, s)
  PROVE  IInv'
<1>1. /\ b \in Rows /\ status' = [status EXCEPT ![b] = s] /\ s \in Statuses
      /\ UNCHANGED <<slot, owner, call, rivals, unchecked>>
      /\ changes' = changes + 1 /\ changes < MaxChanges
      /\ revived' = IF b \notin Active /\ s \in ActiveStatuses THEN revived \cup {b} ELSE revived
  BY SlotsAssumption DEF UpdateBookingStatus, UpdateStatus, ChangeStatus, Statuses, ActiveStatuses
<1>2. status \in [Bookings -> Statuses \cup {"none"}] /\ "none" \notin Statuses
  BY DEF IInv, TypeOK, Statuses, ActiveStatuses
<1>3. Rows' = Rows
  BY <1>1, <1>2 DEF Rows
<1>4. Active' \subseteq Active \cup revived' /\ revived \subseteq revived' /\ revived' \subseteq Rows
  BY <1>1, <1>2 DEF Active, IInv, TypeOK
<1>5. TypeOK'
  <2>1. changes' \in 0..MaxChanges
    BY <1>1, SlotsAssumption DEF IInv, TypeOK
  <2>2. QED
    BY <1>1, <1>2, <1>3, <1>4, <2>1 DEF IInv, TypeOK
<1>6. ClashExplained'
  BY <1>1, <1>4 DEF IInv, ClashExplained
<1>7. ChecksHold'
  BY <1>1, <1>4 DEF IInv, ChecksHold, Holds
<1>8. QED
  BY <1>5, <1>6, <1>7 DEF IInv

\* Every step keeps the invariant.
LEMMA StepIInv == IInv /\ [Next]_vars => IInv'
<1> SUFFICES ASSUME IInv, [Next]_vars PROVE IInv'
  OBVIOUS
<1>1. CASE UNCHANGED vars
  <2>1. Rows' = Rows /\ Active' = Active
    BY <1>1 DEF Rows, Active, vars, table
  <2>2. QED
    BY <1>1, <2>1 DEF vars, table, history, IInv, TypeOK, ClashExplained, ChecksHold, Holds
<1>2. QED
  BY <1>1, StartsIInv, CheckSlotIInv, InsertBookingsIInv, InsertUncheckedIInv,
     UpdateStatusIInv DEF Next, CreateBookingForCustomer, CheckIn

-----------------------------------------------------------------------------
\* Rows, calls and histories keep their types.
THEOREM TypeCorrect == Spec => []TypeOK
<1>1. IInv => TypeOK
  BY DEF IInv
<1>2. QED
  BY InitIInv, StepIInv, <1>1, PTL DEF Spec

\* Two active bookings stand closer than five minutes only if their calls were in
\* flight together, the provider made one of them, or one was revived.
THEOREM ClashExplainedCorrect == Spec => []ClashExplained
<1>1. IInv => ClashExplained
  BY DEF IInv
<1>2. QED
  BY InitIInv, StepIInv, <1>1, PTL DEF Spec
=============================================================================
