------------------------ MODULE WalkInCheckout_proofs ------------------------
(***************************************************************************)
(* Proofs about WalkInCheckout, for any number of checkout rows, calls in  *)
(* flight and faults.  A row is made by one call, which alone can record   *)
(* its link; any call may find it and clear it away.                       *)
(***************************************************************************)
EXTENDS WalkInCheckout, TLAPS

Making == {"pay", "open", "record", "undoPayments", "undoCheckout"}
Clearing == {"clearPayments", "clearCheckout"}

\* Worker w is making the row r, or clearing it away.
Makes(w, r) == call[w].step \in Making /\ call[w].row = r
Clears(w, r) == call[w].step \in Clearing /\ call[w].row = r

\* What ChargeExplained says of a charge, said of a row before it is charged.
Explained(r) == bookingPaid \/ r \in overtaken \cup refused

\* A call makes or clears a row that was created; one call makes a row, until
\* it records the link.
OneMaker ==
  /\ \A w \in Workers :
       /\ call[w].step = "idle" => call[w] = Idle
       /\ call[w].step \in Making \cup Clearing =>
            call[w].row \in Rows /\ status[call[w].row] # "none"
       /\ call[w].step \in Making => call[w].row \notin linked
  /\ \A w, u \in Workers :
       (w # u /\ call[w].step \in Making /\ call[u].step \in Making) =>
         call[w].row # call[u].row

\* A row that was not created yet has nothing; a link is recorded after the
\* payment was created, handed out when recorded, and charged when handed out.
LinkOrder ==
  /\ \A r \in Unused : payment[r] = "none" /\ r \notin halfCleared
  /\ \A w \in Workers : call[w].step \in {"open", "record"} => payment[call[w].row] # "none"
  /\ \A r \in linked : status[r] # "none" /\ payment[r] # "none"
  /\ given \subseteq linked /\ charged \subseteq given
  /\ heard \subseteq charged /\ settling \subseteq linked

\* A checkout without its payment is being deleted, or that was cut short.
PaymentDeleted ==
  \A r \in Present : payment[r] = "deleted" =>
    \/ r \in halfCleared
    \/ \E w \in Workers : call[w].row = r /\ call[w].step \in {"clearCheckout", "undoCheckout"}

\* A row is cleared away, fails, or is paid past its booking only for the reasons
\* ChargeExplained gives.
RemovalExplained ==
  /\ \A r \in Rows :
       /\ status[r] = "failed" => r \in refused
       /\ status[r] = "paid" => Explained(r)
       /\ (status[r] = "deleted" /\ r \in linked) => Explained(r)
  /\ \A w \in Workers : call[w].step \in Clearing => Explained(call[w].row)
  /\ \A r \in halfCleared :
       Explained(r) \/ (r \notin linked /\ \A w \in Workers : ~Makes(w, r))

\* A payment is taken only after the calls now in flight looked at the booking.
PaidSince ==
  \A r \in Rows : payment[r] = "paid" =>
    /\ bookingPaid
    /\ \A w \in Workers : call[w].step # "idle" => r \in call[w].paidSince

IInv ==
  /\ TypeOK /\ OneMaker /\ LinkOrder /\ PaymentDeleted /\ RemovalExplained
  /\ PaidSince /\ ChargeExplained

USE DEF Making, Clearing

-----------------------------------------------------------------------------
\* Worker w goes on with k, the others with what they did.
Becomes(w, k) ==
  /\ k \in Calls
  /\ call' \in [Workers -> Calls]
  /\ call'[w] = k
  /\ \A u \in Workers \ {w} : call'[u] = call[u]

\* A call changes its step, its row or both, and remembers what was settled.
LEMMA GoesOn ==
  ASSUME TypeOK, NEW w \in Workers, NEW step \in Steps, NEW r \in Rows \cup {None},
         \/ Goto(w, step) /\ r = call[w].row
         \/ GotoWith(w, step, r)
  PROVE  \E k \in Calls : /\ Becomes(w, k) /\ k.step = step /\ k.row = r
                          /\ k.paidSince = call[w].paidSince
<1> DEFINE c == call[w]
           k == [step |-> step, row |-> r, paidSince |-> c.paidSince]
<1>1. call \in [Workers -> Calls] /\ c \in Calls
  BY DEF TypeOK
<1>2. k \in Calls /\ k.step = step /\ k.row = r /\ k.paidSince = call[w].paidSince
  BY <1>1 DEF Calls
<1>3. call' = [call EXCEPT ![w] = k]
  <2>1. CASE Goto(w, step) /\ r = call[w].row
    <3>1. [c EXCEPT !.step = step] = k
      BY <1>1, <2>1 DEF Calls
    <3>2. call' = [call EXCEPT ![w] = [c EXCEPT !.step = step]]
      BY <2>1, <1>1 DEF Goto
    <3>3. QED  BY <3>1, <3>2
  <2>2. CASE GotoWith(w, step, r)
    <3>1. [c EXCEPT !.step = step] = [step |-> step, row |-> c.row, paidSince |-> c.paidSince]
      BY <1>1 DEF Calls
    <3>2. [[step |-> step, row |-> c.row, paidSince |-> c.paidSince] EXCEPT !.row = r] = k
      OBVIOUS
    <3>3. call' = [call EXCEPT ![w] = [[c EXCEPT !.step = step] EXCEPT !.row = r]]
      BY <2>2, <1>1 DEF GotoWith
    <3>4. QED  BY <3>1, <3>2, <3>3
  <2>3. QED  BY <2>1, <2>2
<1> HIDE DEF k
<1>4. Becomes(w, k)
  BY <1>1, <1>2, <1>3 DEF Becomes
<1>5. QED  BY <1>2, <1>4

\* A call ends.
LEMMA Returns ==
  ASSUME TypeOK, NEW w \in Workers, Return(w)
  PROVE  Becomes(w, Idle) /\ Idle.step = "idle" /\ Idle.row = None
<1>1. Idle \in Calls /\ Idle.step = "idle" /\ Idle.row = None
  BY DEF Idle, Calls, Steps
<1> HIDE DEF Idle
<1>2. QED  BY <1>1 DEF TypeOK, Return, Becomes

\* The call of w moves along without touching a table: whom it makes or clears
\* was made or cleared by it before, or need not be explained.
LEMMA CallMoves ==
  ASSUME IInv, NEW w \in Workers, NEW k \in Calls, Becomes(w, k),
         UNCHANGED <<tables, charged, declined, events, refused>>,
         given' \subseteq linked /\ given \subseteq given' /\ opened' \subseteq Rows,
         faults' \in 0..MaxFaults, overtaken' \subseteq Rows, halfCleared' \subseteq Rows,
         overtaken \subseteq overtaken',
         \/ k = Idle
         \/ k.step \in {"find", "create"}
         \/ k.step = "clearPayments" /\ k.row \in Present /\ Explained(k.row)'
         \/ /\ k.row = call[w].row /\ call[w].step \in {"pay", "open", "record"}
            /\ k.step \in Making \ {"open", "undoCheckout"}
            /\ k.step = "record" => call[w].step = "open",
         k = Idle \/ k.paidSince = call[w].paidSince,
         (k.step # "idle" /\ call[w].step = "idle") => ~bookingPaid,
         k.step = "idle" => k = Idle,
         IF call[w].step \in {"clearCheckout", "undoCheckout"}
           THEN k = Idle /\ halfCleared' = halfCleared \cup {call[w].row}
           ELSE halfCleared' = halfCleared
  PROVE  IInv'
<1> USE DEF tables, events
<1>0. Idle.step = "idle" /\ Idle.row = None
  BY DEF Idle
<1> HIDE DEF Idle
<1>1. /\ \A u \in Workers : call'[u] = IF u = w THEN k ELSE call[u]
      /\ \A r \in Rows : Explained(r) => Explained(r)'
      /\ k.step \in Steps /\ k.row \in Rows \cup {None}
  BY DEF Becomes, Explained, Calls
<1>2. TypeOK'
  BY DEF IInv, TypeOK, Becomes, Present
<1>3. OneMaker'
  BY <1>0, <1>1 DEF IInv, OneMaker, Present, TypeOK
<1>4. LinkOrder'
  BY <1>0, <1>1 DEF IInv, LinkOrder, OneMaker, TypeOK, Unused
<1>5. PaymentDeleted'
  <2> SUFFICES ASSUME NEW r \in Present, payment[r] = "deleted"
               PROVE  \/ r \in halfCleared'
                      \/ \E u \in Workers : call'[u].row = r
                           /\ call'[u].step \in {"clearCheckout", "undoCheckout"}
    BY DEF PaymentDeleted, Present
  <2>1. CASE r \in halfCleared
    BY <2>1
  <2>2. CASE \E u \in Workers : call[u].row = r /\ call[u].step \in {"clearCheckout", "undoCheckout"}
    BY <1>1, <2>2
  <2>3. QED  BY <2>1, <2>2 DEF IInv, PaymentDeleted
<1>6. RemovalExplained'
  <2>1. \A r \in Rows :
          /\ status[r] = "failed" => r \in refused'
          /\ status[r] = "paid" => Explained(r)'
          /\ (status[r] = "deleted" /\ r \in linked) => Explained(r)'
    BY <1>1 DEF IInv, RemovalExplained
  <2>2. \A u \in Workers, r \in Rows :
          call'[u].step \in Clearing /\ call'[u].row = r => Explained(r)'
    <3>1. \A u \in Workers \ {w}, r \in Rows : Clears(u, r) => Explained(r)'
      BY <1>1 DEF IInv, RemovalExplained, Clears
    <3>2. k.step \in Clearing => k.row \in Rows /\ Explained(k.row)'
      BY <1>0, <1>1 DEF Present
    <3>3. QED  BY <1>1, <3>1, <3>2 DEF Clears
  <2>3. ASSUME NEW r \in Rows, r \in halfCleared', ~Explained(r)',
               r \in linked \/ \E u \in Workers : call'[u].step \in Making /\ call'[u].row = r
        PROVE  FALSE
    <3>1. CASE r \in halfCleared
      BY <1>0, <1>1, <2>3, <3>1 DEF IInv, RemovalExplained, Makes, TypeOK
    <3>2. CASE r = call[w].row /\ call[w].step \in {"clearCheckout", "undoCheckout"} /\ k = Idle
      <4>1. call[w].step = "undoCheckout" /\ r \notin linked
        BY <1>1, <2>3, <3>2 DEF IInv, RemovalExplained, OneMaker
      <4>2. \A u \in Workers \ {w} : ~Makes(u, r)
        BY <3>2, <4>1 DEF IInv, OneMaker, Makes
      <4>3. QED  BY <1>0, <1>1, <2>3, <3>2, <4>1, <4>2 DEF Makes
    <3>3. QED  BY <2>3, <3>1, <3>2
  <2>4. QED  BY <1>0, <1>1, <1>3, <2>1, <2>2, <2>3 DEF RemovalExplained, OneMaker, Makes
<1>7. PaidSince'
  BY <1>0, <1>1 DEF IInv, PaidSince, TypeOK
<1>8. ChargeExplained'
  BY <1>1 DEF IInv, ChargeExplained, Explained, TypeOK
<1>9. QED  BY <1>2, <1>3, <1>4, <1>5, <1>6, <1>7, <1>8 DEF IInv

LEMMA InitializePaymentStep ==
  ASSUME IInv, NEW w \in Workers, InitializePayment(w)
  PROVE  IInv'
<1>1. call[w].row \in Rows \cup {None} /\ "find" \in Steps
  BY DEF IInv, TypeOK, Calls, Steps
<1>2. PICK k \in Calls : /\ Becomes(w, k) /\ k.step = "find"
                         /\ k.paidSince = call[w].paidSince
  BY <1>1, GoesOn DEF InitializePayment, IInv
<1>3. QED
  BY <1>2, CallMoves DEF InitializePayment, tables, paystack, events, history, IInv, TypeOK, LinkOrder

LEMMA FindCheckoutStep ==
  ASSUME IInv, NEW w \in Workers, FindCheckout(w)
  PROVE  IInv'
<1> USE DEF tables, paystack, events, history
<1>1. CASE Goto(w, "create") /\ UNCHANGED <<given, overtaken>>
  <2>1. call[w].row \in Rows \cup {None} /\ "create" \in Steps
    BY DEF IInv, TypeOK, Calls, Steps
  <2>2. PICK k \in Calls : /\ Becomes(w, k) /\ k.step = "create"
                           /\ k.paidSince = call[w].paidSince
    BY <1>1, <2>1, GoesOn DEF IInv
  <2>3. QED
    BY <1>1, <2>2, CallMoves DEF FindCheckout, IInv, TypeOK, LinkOrder
<1>2. ASSUME NEW r \in Present, r \in linked, Return(w), given' = given \cup {r},
             overtaken' = overtaken
      PROVE  IInv'
  <2>1. Becomes(w, Idle) /\ Idle \in Calls
    BY <1>2, Returns DEF IInv, Becomes
  <2>2. call[w].step = "find" /\ r \in Rows
    BY DEF FindCheckout, Present
  <2>3. QED
    BY <1>2, <2>1, <2>2, CallMoves DEF FindCheckout, IInv, TypeOK, LinkOrder
<1>3. ASSUME NEW r \in Present, ~(r \in linked /\ status[r] = "pending"),
             GotoWith(w, "clearPayments", r),
             overtaken' = IF r \in linked THEN overtaken ELSE overtaken \cup {r},
             given' = given
      PROVE  IInv'
  <2>1. r \in Rows /\ r \in Rows \cup {None} /\ "clearPayments" \in Steps
    BY DEF Present, Steps
  <2>2. PICK k \in Calls : /\ Becomes(w, k) /\ k.step = "clearPayments" /\ k.row = r
                           /\ k.paidSince = call[w].paidSince
    BY <1>3, <2>1, GoesOn DEF IInv
  <2>3. Explained(r)'
    BY <1>3, <2>1 DEF FindCheckout, IInv, RemovalExplained, Explained, Present
  <2>4. QED
    BY <1>3, <2>1, <2>2, <2>3, CallMoves DEF FindCheckout, IInv, TypeOK, LinkOrder
<1>4. QED
  BY <1>1, <1>2, <1>3 DEF FindCheckout

LEMMA OpenTransactionStep ==
  ASSUME IInv, NEW w \in Workers, OpenTransaction(w)
  PROVE  IInv'
<1> USE DEF tables, paystack, events, history
<1>1. /\ call[w].row \in Rows /\ call[w].row \in Rows \cup {None}
      /\ "record" \in Steps /\ "undoPayments" \in Steps
  BY DEF OpenTransaction, IInv, OneMaker, TypeOK, Calls, Steps
<1>2. \A kind : Fault(kind) => faults' \in 0..MaxFaults
  BY WalkInAssumption DEF IInv, TypeOK, Fault
<1>3. CASE Goto(w, "record") /\ opened' = opened \cup {call[w].row} /\ UNCHANGED faults
  <2>1. PICK k \in Calls : /\ Becomes(w, k) /\ k.step = "record" /\ k.row = call[w].row
                           /\ k.paidSince = call[w].paidSince
    BY <1>1, <1>3, GoesOn DEF IInv
  <2>2. QED
    BY <1>1, <1>3, <2>1, CallMoves DEF OpenTransaction, IInv, TypeOK, LinkOrder
<1>4. CASE Goto(w, "undoPayments") /\ opened' \in {opened, opened \cup {call[w].row}}
           /\ faults' \in 0..MaxFaults
  <2>1. PICK k \in Calls : /\ Becomes(w, k) /\ k.step = "undoPayments" /\ k.row = call[w].row
                           /\ k.paidSince = call[w].paidSince
    BY <1>1, <1>4, GoesOn DEF IInv
  <2>2. QED
    BY <1>1, <1>4, <2>1, CallMoves DEF OpenTransaction, IInv, TypeOK, LinkOrder
<1>5. QED
  BY <1>2, <1>3, <1>4 DEF OpenTransaction

LEMMA CrashStep ==
  ASSUME IInv, NEW w \in Workers, Crash(w)
  PROVE  IInv'
<1> USE DEF tables, paystack, events, history
<1>1. Becomes(w, Idle) /\ Idle \in Calls /\ Idle.step = "idle"
  BY Returns DEF Crash, IInv, Becomes
<1>2. faults' \in 0..MaxFaults
  BY WalkInAssumption DEF Crash, Fault, IInv, TypeOK
<1>3. call[w].step \in {"clearCheckout", "undoCheckout"} => call[w].row \in Rows
  BY DEF IInv, OneMaker
<1>4. QED
  BY <1>1, <1>2, <1>3, CallMoves DEF Crash, IInv, TypeOK, LinkOrder

\* What is gone, failed, paid or being cleared away stays explained if what
\* comes to it is, and if nobody takes up a row that was left half cleared.
LEMMA StaysExplained ==
  ASSUME IInv, OneMaker', UNCHANGED halfCleared,
         \A s \in Rows : Explained(s) => Explained(s)',
         \A s \in Rows :
           /\ status'[s] = "failed" => s \in refused'
           /\ status'[s] = "paid" => Explained(s)'
           /\ (status'[s] = "deleted" /\ s \in linked') => Explained(s)',
         \A u \in Workers, s \in Rows : Clears(u, s)' => Clears(u, s) \/ Explained(s)',
         \A s \in halfCleared : \/ Explained(s)'
                                \/ /\ s \in linked' => s \in linked
                                   /\ \A u \in Workers : Makes(u, s)' => Makes(u, s)
  PROVE  RemovalExplained'
<1>1. \A u \in Workers, s \in Rows : Clears(u, s)' => Explained(s)'
  BY DEF IInv, RemovalExplained, Clears
<1>2. halfCleared \subseteq Rows
  BY DEF IInv, TypeOK
<1>3. \A s \in halfCleared :
        Explained(s)' \/ (s \notin linked' /\ \A u \in Workers : ~Makes(u, s)')
  BY <1>2 DEF IInv, RemovalExplained
<1>4. QED
  BY <1>1, <1>3 DEF RemovalExplained, OneMaker, Clears

\* The payments of a checkout are deleted on the way to deleting the checkout.
LEMMA DeletePaymentsStep ==
  ASSUME IInv, NEW w \in Workers, DeletePayments(w)
  PROVE  IInv'
<1> USE DEF tables, paystack, events, history
<1> DEFINE r == call[w].row
           clearing == call[w].step = "clearPayments"
           next == IF clearing THEN "clearCheckout" ELSE "undoCheckout"
<1>1. r \in Rows /\ r \in Rows \cup {None} /\ next \in Steps
  BY DEF DeletePayments, IInv, OneMaker, TypeOK, Steps
<1>2. PICK k \in Calls : /\ Becomes(w, k) /\ k.step = next /\ k.row = r
                         /\ k.paidSince = call[w].paidSince
  BY <1>1, GoesOn DEF DeletePayments, IInv
<1>3. /\ payment' \in [Rows -> {"none", "pending", "paid", "deleted"}]
      /\ \A s \in Rows : payment'[s] # payment[s] =>
           s = r /\ payment'[s] = "deleted" /\ payment[s] # "none"
  BY DEF DeletePayments, IInv, TypeOK
<1>4. \A u \in Workers : call'[u] = IF u = w THEN k ELSE call[u]
  BY <1>2 DEF Becomes
<1>5. call[w].step \in {"clearPayments", "undoPayments"}
  BY DEF DeletePayments
<1>6. UNCHANGED <<status, linked, bookingPaid, paystack, events, faults, history>>
  BY DEF DeletePayments
<1>7. TypeOK'
  BY <1>2, <1>3, <1>6 DEF IInv, TypeOK, Becomes, Present
<1>8. OneMaker'
  BY <1>2, <1>4, <1>5, <1>6 DEF IInv, OneMaker
<1>9. LinkOrder'
  BY <1>2, <1>3, <1>4, <1>6 DEF IInv, LinkOrder, OneMaker, TypeOK, Unused
<1>10. PaymentDeleted'
  <2> SUFFICES ASSUME NEW s \in Present, payment'[s] = "deleted", s \notin halfCleared
               PROVE  \E u \in Workers : call'[u].row = s
                        /\ call'[u].step \in {"clearCheckout", "undoCheckout"}
    BY <1>6 DEF PaymentDeleted, Present
  <2>1. CASE s = r
    BY <1>2, <1>4, <2>1
  <2>2. CASE s # r
    <3>1. PICK u \in Workers : call[u].row = s /\ call[u].step \in {"clearCheckout", "undoCheckout"}
      BY <1>3, <2>2 DEF IInv, PaymentDeleted, Present
    <3>2. QED  BY <1>4, <1>5, <3>1
  <2>3. QED  BY <2>1, <2>2
<1>11. RemovalExplained'
  <2>1. \A s \in Rows : Explained(s)' <=> Explained(s)
    BY <1>6 DEF Explained
  <2>2. \A u \in Workers, s \in Rows : Makes(u, s)' => Makes(u, s)
    BY <1>2, <1>4, <1>5 DEF Makes
  <2>3. \A u \in Workers, s \in Rows : Clears(u, s)' => Clears(u, s)
    BY <1>2, <1>4, <1>5 DEF Clears
  <2>4. \A s \in Rows : /\ status[s] = "failed" => s \in refused
                        /\ status[s] = "paid" => Explained(s)
                        /\ (status[s] = "deleted" /\ s \in linked) => Explained(s)
    BY DEF IInv, RemovalExplained
  <2>5. QED
    BY <1>6, <1>8, <2>1, <2>2, <2>3, <2>4, StaysExplained DEF IInv, TypeOK
<1>12. PaidSince'
  BY <1>2, <1>3, <1>4, <1>5, <1>6 DEF IInv, PaidSince, TypeOK
<1>13. ChargeExplained'
  BY <1>6 DEF IInv, ChargeExplained
<1>14. QED  BY <1>7, <1>8, <1>9, <1>10, <1>11, <1>12, <1>13 DEF IInv

\* A row may be deleted: it is unlinked, or its removal was explained.
LEMMA DeleteCheckoutStep ==
  ASSUME IInv, NEW w \in Workers, DeleteCheckout(w)
  PROVE  IInv'
<1> USE DEF tables, paystack, events, history
<1> DEFINE r == call[w].row
<1>1. r \in Rows /\ call[w].step \in {"clearCheckout", "undoCheckout"}
  BY DEF DeleteCheckout, IInv, OneMaker
<1>2. PICK k \in Calls : /\ Becomes(w, k)
                         /\ \/ k = Idle
                            \/ k.step = "create" /\ k.paidSince = call[w].paidSince
  <2>1. CASE Goto(w, "create")
    <3>1. r \in Rows \cup {None} /\ "create" \in Steps
      BY <1>1 DEF Steps
    <3>2. QED  BY <2>1, <3>1, GoesOn DEF IInv
  <2>2. CASE Return(w)
    BY <2>2, Returns DEF IInv, Becomes
  <2>3. QED  BY <2>1, <2>2 DEF DeleteCheckout
<1>3. /\ status' \in [Rows -> {"none", "pending", "paid", "failed", "deleted"}]
      /\ \A s \in Rows : status'[s] = IF s = r THEN "deleted" ELSE status[s]
  BY <1>1 DEF DeleteCheckout, IInv, TypeOK
<1>4. \A u \in Workers : call'[u] = IF u = w THEN k ELSE call[u]
  BY <1>2 DEF Becomes
<1>5. Idle.step = "idle"
  BY DEF Idle
<1>6. UNCHANGED <<payment, linked, bookingPaid, paystack, events, faults, history>>
  BY DEF DeleteCheckout
<1> HIDE DEF Idle
<1>7. TypeOK'
  BY <1>2, <1>3, <1>6 DEF IInv, TypeOK, Becomes, Present
<1>8. OneMaker'
  BY <1>1, <1>2, <1>3, <1>4, <1>5, <1>6 DEF IInv, OneMaker
<1>9. LinkOrder'
  BY <1>2, <1>3, <1>4, <1>5, <1>6 DEF IInv, LinkOrder, OneMaker, TypeOK, Unused
<1>10. PaymentDeleted'
  <2> SUFFICES ASSUME NEW s \in Present, s # r, payment[s] = "deleted", s \notin halfCleared
               PROVE  \E u \in Workers : call'[u].row = s
                        /\ call'[u].step \in {"clearCheckout", "undoCheckout"}
    BY <1>3, <1>6 DEF PaymentDeleted, Present
  <2>1. PICK u \in Workers : call[u].row = s /\ call[u].step \in {"clearCheckout", "undoCheckout"}
    BY DEF IInv, PaymentDeleted
  <2>2. QED  BY <1>4, <2>1
<1>11. RemovalExplained'
  <2>1. \A s \in Rows : Explained(s)' <=> Explained(s)
    BY <1>6 DEF Explained
  <2>2. \A u \in Workers, s \in Rows : (Makes(u, s)' => Makes(u, s)) /\ (Clears(u, s)' => Clears(u, s))
    BY <1>2, <1>4, <1>5 DEF Makes, Clears
  <2>3. r \in linked => Explained(r)
    BY <1>1 DEF IInv, OneMaker, RemovalExplained
  <2>4. \A s \in Rows : /\ status'[s] = "failed" => s \in refused
                        /\ status'[s] = "paid" => Explained(s)
                        /\ (status'[s] = "deleted" /\ s \in linked) => Explained(s)
    BY <1>3, <2>3 DEF IInv, RemovalExplained
  <2>5. QED
    BY <1>6, <1>8, <2>1, <2>2, <2>4, StaysExplained DEF IInv, TypeOK
<1>12. PaidSince'
  BY <1>1, <1>2, <1>4, <1>5, <1>6 DEF IInv, PaidSince, TypeOK
<1>13. ChargeExplained'
  BY <1>6 DEF IInv, ChargeExplained
<1>14. QED  BY <1>7, <1>8, <1>9, <1>10, <1>11, <1>12, <1>13 DEF IInv

\* A row is created by one call, and nothing is known of it before.
LEMMA CreateCheckoutStep ==
  ASSUME IInv, NEW w \in Workers, CreateCheckout(w)
  PROVE  IInv'
<1> USE DEF tables, paystack, events, history
<1>1. CASE Return(w) /\ UNCHANGED status
  <2>1. Becomes(w, Idle) /\ Idle \in Calls
    BY <1>1, Returns DEF IInv, Becomes
  <2>2. QED
    BY <1>1, <2>1, CallMoves DEF CreateCheckout, IInv, TypeOK, LinkOrder
<1>2. ASSUME NEW r \in Unused, Present = {}, GotoWith(w, "pay", r),
             status' = [status EXCEPT ![r] = "pending"]
      PROVE  IInv'
  <2>1. r \in Rows /\ r \in Rows \cup {None} /\ "pay" \in Steps
    BY DEF Unused, Steps
  <2>2. PICK k \in Calls : /\ Becomes(w, k) /\ k.step = "pay" /\ k.row = r
                           /\ k.paidSince = call[w].paidSince
    BY <1>2, <2>1, GoesOn DEF IInv
  <2>3. /\ status' \in [Rows -> {"none", "pending", "paid", "failed", "deleted"}]
        /\ \A s \in Rows : status'[s] = IF s = r THEN "pending" ELSE status[s]
        /\ status[r] = "none" /\ payment[r] = "none" /\ r \notin linked \cup halfCleared
    BY <1>2, <2>1 DEF IInv, TypeOK, LinkOrder, Unused
  <2>4. \A u \in Workers : call'[u] = IF u = w THEN k ELSE call[u]
    BY <2>2 DEF Becomes
  <2>5. /\ UNCHANGED <<payment, linked, bookingPaid, paystack, events, faults, history>>
        /\ call[w].step = "create"
    BY DEF CreateCheckout
  <2>6. TypeOK'
    BY <1>2, <2>2, <2>3, <2>5 DEF IInv, TypeOK, Becomes, Present
  <2>7. OneMaker'
    BY <2>1, <2>2, <2>3, <2>4, <2>5 DEF IInv, OneMaker
  <2>8. LinkOrder'
    BY <2>2, <2>3, <2>4, <2>5 DEF IInv, LinkOrder, OneMaker, TypeOK, Unused
  <2>9. PaymentDeleted'
    BY <1>2, <2>3, <2>5 DEF PaymentDeleted, Present
  <2>10. RemovalExplained'
    <3>1. \A s \in Rows : Explained(s)' <=> Explained(s)
      BY <2>5 DEF Explained
    <3>2. \A u \in Workers, s \in Rows : Clears(u, s)' => Clears(u, s)
      BY <2>2, <2>4 DEF Clears
    <3>3. \A u \in Workers, s \in halfCleared : Makes(u, s)' => Makes(u, s)
      BY <2>2, <2>3, <2>4 DEF Makes
    <3>4. \A s \in Rows : /\ status'[s] = "failed" => s \in refused
                          /\ status'[s] = "paid" => Explained(s)
                          /\ (status'[s] = "deleted" /\ s \in linked) => Explained(s)
      BY <2>3 DEF IInv, RemovalExplained
    <3>5. QED
      BY <2>5, <2>7, <3>1, <3>2, <3>3, <3>4, StaysExplained DEF IInv, TypeOK
  <2>11. PaidSince'
    BY <2>2, <2>3, <2>4, <2>5 DEF IInv, PaidSince, TypeOK
  <2>12. ChargeExplained'
    BY <2>5 DEF IInv, ChargeExplained
  <2>13. QED  BY <2>6, <2>7, <2>8, <2>9, <2>10, <2>11, <2>12 DEF IInv
<1>3. QED
  BY <1>1, <1>2 DEF CreateCheckout

LEMMA CreatePaymentStep ==
  ASSUME IInv, NEW w \in Workers, CreatePayment(w)
  PROVE  IInv'
<1> USE DEF tables, paystack, events, history
<1> DEFINE r == call[w].row
<1>1. r \in Rows /\ r \in Rows \cup {None} /\ "open" \in Steps /\ call[w].step = "pay"
  BY DEF CreatePayment, IInv, OneMaker, Steps
<1>2. CASE r \notin Present
  <2>1. Becomes(w, Idle) /\ Idle \in Calls
    BY <1>2, Returns DEF CreatePayment, IInv, Becomes
  <2>2. QED
    BY <1>1, <1>2, <2>1, CallMoves DEF CreatePayment, IInv, TypeOK, LinkOrder
<1>3. CASE r \in Present
  <2>1. PICK k \in Calls : /\ Becomes(w, k) /\ k.step = "open" /\ k.row = r
                           /\ k.paidSince = call[w].paidSince
    BY <1>1, <1>3, GoesOn DEF CreatePayment, IInv
  <2>2. /\ payment' \in [Rows -> {"none", "pending", "paid", "deleted"}]
        /\ \A s \in Rows : payment'[s] = IF s = r THEN "pending" ELSE payment[s]
    BY <1>1, <1>3 DEF CreatePayment, IInv, TypeOK
  <2>3. \A u \in Workers : call'[u] = IF u = w THEN k ELSE call[u]
    BY <2>1 DEF Becomes
  <2>4. UNCHANGED <<status, linked, bookingPaid, paystack, events, faults, history>>
    BY DEF CreatePayment
  <2>5. TypeOK'
    BY <2>1, <2>2, <2>4 DEF IInv, TypeOK, Becomes, Present
  <2>6. OneMaker'
    BY <1>1, <2>1, <2>3, <2>4 DEF IInv, OneMaker
  <2>7. LinkOrder'
    BY <1>1, <1>3, <2>1, <2>2, <2>3, <2>4 DEF IInv, LinkOrder, OneMaker, TypeOK, Unused, Present
  <2>8. PaymentDeleted'
    <3> SUFFICES ASSUME NEW s \in Present, payment[s] = "deleted", s \notin halfCleared
                 PROVE  \E u \in Workers : call'[u].row = s
                          /\ call'[u].step \in {"clearCheckout", "undoCheckout"}
      BY <2>2, <2>4 DEF PaymentDeleted, Present
    <3>1. PICK u \in Workers : call[u].row = s /\ call[u].step \in {"clearCheckout", "undoCheckout"}
      BY DEF IInv, PaymentDeleted
    <3>2. QED  BY <1>1, <2>3, <3>1
  <2>9. RemovalExplained'
    <3>1. \A s \in Rows : Explained(s)' <=> Explained(s)
      BY <2>4 DEF Explained
    <3>2. \A u \in Workers, s \in Rows : (Makes(u, s)' => Makes(u, s)) /\ (Clears(u, s)' => Clears(u, s))
      BY <1>1, <2>1, <2>3 DEF Makes, Clears
    <3>3. \A s \in Rows : /\ status[s] = "failed" => s \in refused
                          /\ status[s] = "paid" => Explained(s)
                          /\ (status[s] = "deleted" /\ s \in linked) => Explained(s)
      BY DEF IInv, RemovalExplained
    <3>4. QED
      BY <2>4, <2>6, <3>1, <3>2, <3>3, StaysExplained DEF IInv, TypeOK
  <2>10. PaidSince'
    BY <1>1, <2>1, <2>2, <2>3, <2>4 DEF IInv, PaidSince, TypeOK
  <2>11. ChargeExplained'
    BY <2>4 DEF IInv, ChargeExplained
  <2>12. QED  BY <2>5, <2>6, <2>7, <2>8, <2>9, <2>10, <2>11 DEF IInv
<1>4. QED  BY <1>2, <1>3

\* The one call that makes a row records its link: a row that was left half
\* cleared has no such call, or was found by another one before.
LEMMA RecordLinkStep ==
  ASSUME IInv, NEW w \in Workers, RecordLink(w)
  PROVE  IInv'
<1> USE DEF tables, paystack, events, history
<1> DEFINE r == call[w].row
<1>1. /\ r \in Rows /\ r \in Rows \cup {None} /\ "undoPayments" \in Steps
      /\ call[w].step = "record" /\ Makes(w, r)
  BY DEF RecordLink, IInv, OneMaker, Steps, Makes
<1>2. CASE r \notin Present
  <2>1. PICK k \in Calls : /\ Becomes(w, k) /\ k.step = "undoPayments" /\ k.row = r
                           /\ k.paidSince = call[w].paidSince
    BY <1>1, <1>2, GoesOn DEF RecordLink, IInv
  <2>2. QED
    BY <1>1, <1>2, <2>1, CallMoves DEF RecordLink, IInv, TypeOK, LinkOrder
<1>3. CASE r \in Present
  <2>1. Becomes(w, Idle) /\ Idle \in Calls /\ Idle.step = "idle"
    BY <1>3, Returns DEF RecordLink, IInv, Becomes
  <2> HIDE DEF Idle
  <2>2. linked' = linked \cup {r} /\ given' = given \cup {r}
    BY <1>3 DEF RecordLink
  <2>3. \A u \in Workers : call'[u] = IF u = w THEN Idle ELSE call[u]
    BY <2>1 DEF Becomes
  <2>4. UNCHANGED <<status, payment, bookingPaid, opened, charged, declined, events, faults, history>>
    BY DEF RecordLink
  <2>5. TypeOK'
    BY <1>1, <2>1, <2>2, <2>4 DEF IInv, TypeOK, Becomes, Present
  <2>6. OneMaker'
    BY <1>1, <2>1, <2>2, <2>3, <2>4 DEF IInv, OneMaker
  <2>7. LinkOrder'
    BY <1>1, <2>1, <2>2, <2>3, <2>4 DEF IInv, LinkOrder, OneMaker, TypeOK, Unused
  <2>8. PaymentDeleted'
    <3> SUFFICES ASSUME NEW s \in Present, payment[s] = "deleted", s \notin halfCleared
                 PROVE  \E u \in Workers : call'[u].row = s
                          /\ call'[u].step \in {"clearCheckout", "undoCheckout"}
      BY <2>4 DEF PaymentDeleted, Present
    <3>1. PICK u \in Workers : call[u].row = s /\ call[u].step \in {"clearCheckout", "undoCheckout"}
      BY DEF IInv, PaymentDeleted
    <3>2. QED  BY <1>1, <2>3, <3>1
  <2>9. RemovalExplained'
    <3>1. \A s \in Rows : Explained(s)' <=> Explained(s)
      BY <2>4 DEF Explained
    <3>2. \A u \in Workers, s \in Rows : (Makes(u, s)' => Makes(u, s)) /\ (Clears(u, s)' => Clears(u, s))
      BY <2>1, <2>3 DEF Makes, Clears
    <3>3. \A s \in Rows : /\ status[s] = "failed" => s \in refused
                          /\ status[s] = "paid" => Explained(s)
                          /\ (status[s] = "deleted" /\ s \in linked') => Explained(s)
      BY <1>3, <2>2 DEF IInv, RemovalExplained, Present
    <3>4. r \in halfCleared => Explained(r)
      BY <1>1 DEF IInv, RemovalExplained
    <3>5. QED
      BY <2>2, <2>4, <2>6, <3>1, <3>2, <3>3, <3>4, StaysExplained DEF IInv, TypeOK
  <2>10. PaidSince'
    BY <1>1, <2>1, <2>3, <2>4 DEF IInv, PaidSince, TypeOK
  <2>11. ChargeExplained'
    BY <2>4 DEF IInv, ChargeExplained
  <2>12. QED  BY <2>5, <2>6, <2>7, <2>8, <2>9, <2>10, <2>11 DEF IInv
<1>4. QED  BY <1>2, <1>3

-----------------------------------------------------------------------------
\* Someone pays, or an event or a poll is taken up, and no table changes.
LEMMA Notices ==
  ASSUME IInv, UNCHANGED <<tables, opened, given, call, faults, history>>,
         declined' \subseteq Rows, failing' \subseteq Rows, mismatch' \in BOOLEAN,
         charged' \subseteq given, heard' \subseteq charged', settling' \subseteq linked,
         \A r \in heard' \ settling' : Explained(r)
  PROVE  IInv'
<1> USE DEF tables, history
<1>1. TypeOK'
  BY DEF IInv, TypeOK, Present, LinkOrder
<1>2. OneMaker' /\ LinkOrder' /\ PaymentDeleted' /\ PaidSince'
  BY DEF IInv, OneMaker, LinkOrder, PaymentDeleted, PaidSince, Present, Unused
<1>3. RemovalExplained'
  BY DEF IInv, RemovalExplained, Explained, Makes
<1>4. ChargeExplained'
  BY DEF ChargeExplained, Explained
<1>5. QED  BY <1>1, <1>2, <1>3, <1>4 DEF IInv

\* A linked row that is gone was cleared away, which is explained.
LEMMA GoneExplained ==
  ASSUME IInv, NEW r \in linked, r \notin Present
  PROVE  Explained(r)
<1>1. r \in Rows /\ status[r] = "deleted"
  BY DEF IInv, TypeOK, LinkOrder, Present
<1>2. QED  BY <1>1 DEF IInv, RemovalExplained

\* The payment of a linked row is deleted by a call that was explained.
LEMMA PaymentGoneExplained ==
  ASSUME IInv, NEW r \in linked \cap Present, payment[r] \notin {"pending", "paid"}
  PROVE  Explained(r)
<1>1. r \in Rows /\ payment[r] = "deleted"
  BY DEF IInv, TypeOK, LinkOrder
<1>2. CASE r \in halfCleared
  BY <1>2 DEF IInv, RemovalExplained
<1>3. CASE \E w \in Workers : call[w].row = r /\ call[w].step \in {"clearCheckout", "undoCheckout"}
  <2>1. PICK w \in Workers : call[w].row = r /\ call[w].step \in {"clearCheckout", "undoCheckout"}
    BY <1>3
  <2>2. call[w].step = "clearCheckout"
    BY <2>1 DEF IInv, OneMaker
  <2>3. QED  BY <2>1, <2>2 DEF IInv, RemovalExplained
<1>4. QED  BY <1>1, <1>2, <1>3 DEF IInv, PaymentDeleted

LEMMA EventSteps ==
  ASSUME IInv, NEW r \in Rows,
         Pay(r) \/ Decline(r) \/ HearOfFailure(r) \/ HearOfCharge(r) \/ VerifyCheckout(r)
  PROVE  IInv'
<1> USE DEF paystack, events, tables, history
<1>1. \A s \in heard \ settling : Explained(s)
  BY DEF IInv, ChargeExplained, Explained
<1>2. CASE Pay(r)
  BY <1>1, <1>2, Notices DEF Pay, IInv, TypeOK, LinkOrder
<1>3. CASE Decline(r)
  BY <1>1, <1>3, Notices DEF Decline, IInv, TypeOK, LinkOrder
<1>4. CASE HearOfFailure(r)
  BY <1>1, <1>4, Notices DEF HearOfFailure, IInv, TypeOK, LinkOrder
<1>5. CASE HearOfCharge(r)
  <2>1. r \in linked
    BY <1>5 DEF HearOfCharge, IInv, LinkOrder
  <2>2. r \notin Present => Explained(r)
    BY <2>1, GoneExplained
  <2>3. QED
    BY <1>1, <1>5, <2>1, <2>2, Notices DEF HearOfCharge, IInv, TypeOK, LinkOrder
<1>6. CASE VerifyCheckout(r)
  BY <1>1, <1>6, Notices DEF VerifyCheckout, IInv, TypeOK, LinkOrder
<1>7. QED  BY <1>2, <1>3, <1>4, <1>5, <1>6

LEMMA FindMismatchStep ==
  ASSUME IInv, FindMismatch
  PROVE  IInv'
<1>1. \A s \in heard \ settling : Explained(s)
  BY DEF IInv, ChargeExplained, Explained
<1>2. QED
  BY <1>1, Notices DEF FindMismatch, paystack, tables, history, IInv, TypeOK, LinkOrder

\* What is there stays explained when rows fail, are paid or the booking is:
\* the calls go on, remembering what was settled.
LEMMA Settles ==
  ASSUME IInv, UNCHANGED <<linked, paystack, heard, faults, overtaken, halfCleared>>,
         failing' \subseteq Rows, mismatch' \in BOOLEAN, settling' \subseteq settling,
         refused' \subseteq Rows, refused \subseteq refused',
         bookingPaid' \in BOOLEAN, bookingPaid => bookingPaid',
         status' \in [Rows -> {"none", "pending", "paid", "failed", "deleted"}],
         payment' \in [Rows -> {"none", "pending", "paid", "deleted"}],
         \A s \in Rows : status'[s] # status[s] =>
           /\ s \in Present
           /\ \/ status'[s] = "paid" /\ Explained(s)'
              \/ status'[s] = "failed" /\ s \in refused',
         \A s \in Rows : payment'[s] # payment[s] =>
           /\ payment[s] \in {"pending", "paid"} /\ payment'[s] = "paid" /\ bookingPaid'
           /\ \A w \in Workers : call[w].step # "idle" => s \in call'[w].paidSince,
         call' \in [Workers -> Calls],
         \A w \in Workers :
           /\ call'[w].step = call[w].step /\ call'[w].row = call[w].row
           /\ call[w].paidSince \subseteq call'[w].paidSince
           /\ call[w].step = "idle" => call'[w] = Idle,
         \A s \in settling \ settling' : Explained(s)'
  PROVE  IInv'
<1> USE DEF paystack
<1>1. /\ UNCHANGED <<linked, opened, given, charged, declined, heard, faults, overtaken, halfCleared>>
      /\ \A s \in Rows : Explained(s) => Explained(s)'
  BY DEF Explained
<1>2. \A s \in Rows : (s \in Present)' <=> s \in Present
  BY DEF IInv, TypeOK, Present
<1>3. TypeOK'
  BY <1>1, <1>2 DEF IInv, TypeOK, Present
<1>4. OneMaker'
  BY <1>1 DEF IInv, OneMaker, Present
<1>5. LinkOrder'
  BY <1>1 DEF IInv, LinkOrder, OneMaker, TypeOK, Unused, Present
<1>6. PaymentDeleted'
  <2> SUFFICES ASSUME NEW s \in Present, payment[s] = "deleted", s \notin halfCleared
               PROVE  \E u \in Workers : call'[u].row = s
                        /\ call'[u].step \in {"clearCheckout", "undoCheckout"}
    BY <1>1, <1>2 DEF PaymentDeleted, Present
  <2>1. PICK u \in Workers : call[u].row = s /\ call[u].step \in {"clearCheckout", "undoCheckout"}
    BY DEF IInv, PaymentDeleted
  <2>2. QED  BY <2>1
<1>7. RemovalExplained'
  <2>1. \A u \in Workers, s \in Rows : (Makes(u, s)' <=> Makes(u, s)) /\ (Clears(u, s)' <=> Clears(u, s))
    BY DEF Makes, Clears
  <2>2. \A s \in Rows : /\ status'[s] = "failed" => s \in refused'
                        /\ status'[s] = "paid" => Explained(s)'
                        /\ (status'[s] = "deleted" /\ s \in linked) => Explained(s)'
    BY <1>1 DEF IInv, RemovalExplained
  <2>3. QED
    BY <1>1, <1>4, <2>1, <2>2, StaysExplained DEF IInv, TypeOK
<1>8. PaidSince'
  BY DEF IInv, PaidSince, TypeOK
<1>9. ChargeExplained'
  BY <1>1 DEF IInv, ChargeExplained, Explained, TypeOK
<1>10. QED  BY <1>3, <1>4, <1>5, <1>6, <1>7, <1>8, <1>9 DEF IInv

\* The calls in flight learn that the row r was settled.
LEMMA CallsHear ==
  ASSUME IInv, NEW r \in Rows,
         call' = [w \in Workers |->
                    IF call[w] = Idle THEN Idle
                    ELSE [call[w] EXCEPT !.paidSince = @ \cup {r}]]
  PROVE  /\ call' \in [Workers -> Calls]
         /\ \A w \in Workers :
              /\ call'[w].step = call[w].step /\ call'[w].row = call[w].row
              /\ call[w].paidSince \subseteq call'[w].paidSince
              /\ call[w].step = "idle" => call'[w] = Idle
              /\ call[w].step # "idle" => r \in call'[w].paidSince
<1>1. Idle \in Calls /\ Idle.step = "idle"
  BY DEF Idle, Calls, Steps
<1> SUFFICES ASSUME NEW w \in Workers
             PROVE  /\ call'[w] \in Calls
                    /\ call'[w].step = call[w].step /\ call'[w].row = call[w].row
                    /\ call[w].paidSince \subseteq call'[w].paidSince
                    /\ call[w].step = "idle" => call'[w] = Idle
                    /\ call[w].step # "idle" => r \in call'[w].paidSince
  OBVIOUS
<1>2. call[w] \in Calls /\ (call[w].step = "idle" => call[w] = Idle)
  BY DEF IInv, TypeOK, OneMaker
<1>3. CASE call[w] = Idle
  BY <1>1, <1>3
<1>4. CASE call[w] # Idle
  <2> DEFINE c == [call[w] EXCEPT !.paidSince = @ \cup {r}]
  <2>1. /\ c \in Calls /\ c.step = call[w].step /\ c.row = call[w].row
        /\ c.paidSince = call[w].paidSince \cup {r}
    BY <1>2 DEF Calls
  <2>2. call'[w] = c
    BY <1>4
  <2> HIDE DEF c
  <2>3. QED  BY <1>2, <1>4, <2>1, <2>2
<1>5. QED  BY <1>3, <1>4

LEMMA MarkCheckoutFailedStep ==
  ASSUME IInv, NEW r \in Rows, MarkCheckoutFailed(r)
  PROVE  IInv'
<1>1. \A w \in Workers : call[w].step = "idle" => call[w] = Idle
  BY DEF IInv, OneMaker
<1>2. \A s \in Rows : status'[s] # status[s] =>
        s = r /\ r \in Present /\ status'[s] = "failed" /\ r \in refused'
  BY DEF MarkCheckoutFailed, IInv, TypeOK
<1>3. /\ status' \in [Rows -> {"none", "pending", "paid", "failed", "deleted"}]
      /\ refused' \subseteq Rows /\ refused \subseteq refused' /\ failing' \subseteq Rows
  BY DEF MarkCheckoutFailed, IInv, TypeOK
<1>4. UNCHANGED <<payment, linked, bookingPaid, paystack, heard, settling, mismatch,
                  call, faults, overtaken, halfCleared>>
  BY DEF MarkCheckoutFailed
<1>5. QED
  BY <1>1, <1>2, <1>3, <1>4, Settles DEF IInv, TypeOK

\* A payment that lost its checkout is settled.
LEMMA VerifyPaymentStep ==
  ASSUME IInv, NEW r \in Rows, VerifyPayment(r)
  PROVE  IInv'
<1>1. /\ call' \in [Workers -> Calls]
      /\ \A w \in Workers :
           /\ call'[w].step = call[w].step /\ call'[w].row = call[w].row
           /\ call[w].paidSince \subseteq call'[w].paidSince
           /\ call[w].step = "idle" => call'[w] = Idle
           /\ call[w].step # "idle" => r \in call'[w].paidSince
  BY CallsHear DEF VerifyPayment
<1>2. /\ payment' \in [Rows -> {"none", "pending", "paid", "deleted"}] /\ bookingPaid' = TRUE
      /\ \A s \in Rows : payment'[s] # payment[s] =>
           s = r /\ payment[s] = "pending" /\ payment'[s] = "paid"
  BY DEF VerifyPayment, IInv, TypeOK
<1>3. UNCHANGED <<status, linked, paystack, heard, settling, failing, mismatch, faults,
                  overtaken, refused, halfCleared>>
  BY DEF VerifyPayment, events, history
<1>4. QED
  BY <1>1, <1>2, <1>3, Settles DEF IInv, TypeOK

\* A checkout is paid with its booking, or past it for a reason; one that is
\* gone, or whose payment goes under its hands, was being cleared away.
LEMMA MarkCheckoutPaidStep ==
  ASSUME IInv, NEW r \in Rows, MarkCheckoutPaid(r)
  PROVE  IInv'
<1>1. /\ r \in linked /\ settling' \subseteq settling /\ settling \ settling' \subseteq {r}
      /\ UNCHANGED <<linked, paystack, heard, failing, mismatch, faults, overtaken, refused, halfCleared>>
  BY DEF MarkCheckoutPaid, history, IInv, LinkOrder
<1>2. CASE /\ r \in Present
           /\ status' = [status EXCEPT ![r] = "paid"]
           /\ IF payment[r] \in {"pending", "paid"}
                THEN payment' = [payment EXCEPT ![r] = "paid"] /\ bookingPaid' = TRUE
                ELSE UNCHANGED <<payment, bookingPaid>>
           /\ call' = [w \in Workers |->
                         IF call[w] = Idle THEN Idle
                         ELSE [call[w] EXCEPT !.paidSince = @ \cup {r}]]
  <2>1. /\ call' \in [Workers -> Calls]
        /\ \A w \in Workers :
             /\ call'[w].step = call[w].step /\ call'[w].row = call[w].row
             /\ call[w].paidSince \subseteq call'[w].paidSince
             /\ call[w].step = "idle" => call'[w] = Idle
             /\ call[w].step # "idle" => r \in call'[w].paidSince
    BY <1>2, CallsHear
  <2>2. Explained(r)'
    <3>1. CASE payment[r] \in {"pending", "paid"}
      BY <1>2, <3>1 DEF Explained
    <3>2. CASE payment[r] \notin {"pending", "paid"}
      BY <1>1, <1>2, <3>2, PaymentGoneExplained DEF Explained
    <3>3. QED  BY <3>1, <3>2
  <2>3. /\ status' \in [Rows -> {"none", "pending", "paid", "failed", "deleted"}]
        /\ \A s \in Rows : status'[s] # status[s] => s = r /\ status'[s] = "paid"
    BY <1>2 DEF IInv, TypeOK
  <2>4. /\ payment' \in [Rows -> {"none", "pending", "paid", "deleted"}]
        /\ \A s \in Rows : payment'[s] # payment[s] =>
             s = r /\ payment[s] = "pending" /\ payment'[s] = "paid" /\ bookingPaid'
        /\ bookingPaid' \in BOOLEAN /\ (bookingPaid => bookingPaid')
    BY <1>2 DEF IInv, TypeOK
  <2>5. QED
    BY <1>1, <1>2, <2>1, <2>2, <2>3, <2>4, Settles DEF IInv, TypeOK
<1>3. CASE /\ \/ r \notin Present
              \/ \E w \in Workers : call[w].step = "clearCheckout" /\ call[w].row = r
           /\ UNCHANGED <<status, payment, bookingPaid, call>>
  <2>1. Explained(r)
    <3>1. CASE r \notin Present
      BY <1>1, <3>1, GoneExplained
    <3>2. CASE \E w \in Workers : call[w].step = "clearCheckout" /\ call[w].row = r
      BY <3>2 DEF IInv, RemovalExplained
    <3>3. QED  BY <1>3, <3>1, <3>2
  <2>2. Explained(r)'
    BY <1>1, <1>3, <2>1 DEF Explained
  <2>3. \A w \in Workers : call[w].step = "idle" => call[w] = Idle
    BY DEF IInv, OneMaker
  <2>4. QED
    BY <1>1, <1>3, <2>2, <2>3, Settles DEF IInv, TypeOK
<1>4. QED  BY <1>2, <1>3 DEF MarkCheckoutPaid

LEMMA SyncMismatchStep ==
  ASSUME IInv, SyncMismatch
  PROVE  IInv'
<1>1. \A w \in Workers : call[w].step = "idle" => call[w] = Idle
  BY DEF IInv, OneMaker
<1>2. /\ UNCHANGED <<status, payment, linked, paystack, heard, settling, failing, call, faults>>
      /\ UNCHANGED <<overtaken, refused, halfCleared>> /\ mismatch' = FALSE /\ bookingPaid' = TRUE
  BY DEF SyncMismatch, history
<1>3. QED
  BY <1>1, <1>2, Settles DEF IInv, TypeOK

-----------------------------------------------------------------------------
LEMMA InitIInv == Init => IInv
<1> SUFFICES ASSUME Init PROVE IInv
  OBVIOUS
<1>1. Idle \in Calls /\ Idle.step = "idle" /\ \A w \in Workers : call[w] = Idle
  BY DEF Init, Idle, Calls, Steps
<1>2. call \in [Workers -> Calls]
  BY <1>1 DEF Init
<1>3. \A r \in Rows : status[r] = "none" /\ payment[r] = "none"
  BY DEF Init
<1>4. Present = {} /\ faults \in 0..MaxFaults
  BY <1>3, WalkInAssumption DEF Init, Present
<1> HIDE DEF Idle
<1>5. TypeOK
  BY <1>2, <1>4 DEF Init, TypeOK
<1>6. OneMaker
  BY <1>1 DEF OneMaker
<1>7. LinkOrder
  BY <1>1, <1>3 DEF Init, LinkOrder, Unused
<1>8. PaymentDeleted /\ RemovalExplained /\ PaidSince /\ ChargeExplained
  BY <1>1, <1>3, <1>4 DEF Init, PaymentDeleted, RemovalExplained, PaidSince, ChargeExplained
<1>9. QED  BY <1>5, <1>6, <1>7, <1>8 DEF IInv

LEMMA NextIInv == IInv /\ [Next]_vars => IInv'
<1> SUFFICES ASSUME IInv, [Next]_vars PROVE IInv'
  OBVIOUS
<1>1. ASSUME NEW w \in Workers, InitializePayment(w) \/ Continue(w) \/ Crash(w)
      PROVE  IInv'
  BY <1>1, InitializePaymentStep, FindCheckoutStep, DeletePaymentsStep, DeleteCheckoutStep,
     CreateCheckoutStep, CreatePaymentStep, OpenTransactionStep, RecordLinkStep, CrashStep
     DEF Continue
<1>2. ASSUME NEW r \in Rows,
             \/ Pay(r) \/ Decline(r)
             \/ HearOfFailure(r) \/ MarkCheckoutFailed(r)
             \/ HearOfCharge(r) \/ MarkCheckoutPaid(r)
             \/ VerifyCheckout(r) \/ VerifyPayment(r)
      PROVE  IInv'
  BY <1>2, EventSteps, MarkCheckoutFailedStep, MarkCheckoutPaidStep, VerifyPaymentStep
<1>3. CASE FindMismatch \/ SyncMismatch
  BY <1>3, FindMismatchStep, SyncMismatchStep
<1>4. CASE UNCHANGED vars
  BY <1>4 DEF vars, tables, paystack, events, history, IInv, TypeOK, OneMaker, LinkOrder,
     PaymentDeleted, RemovalExplained, PaidSince, ChargeExplained, Explained, Makes,
     Present, Unused
<1>5. QED  BY <1>1, <1>2, <1>3, <1>4 DEF Next

LEMMA Inductive == Spec => []IInv
BY InitIInv, NextIInv, PTL DEF Spec

\* Rows, Paystack's records, events and calls have their types, and one
\* checkout of the walk-in booking exists at a time, however many calls of
\* initializePayment are in flight.
THEOREM TypeCorrect == Spec => []TypeOK
<1>1. IInv => TypeOK
  BY DEF IInv
<1>2. QED  BY <1>1, Inductive, PTL

\* A charge that was taken up and left the booking unpaid has one of two
\* causes in initializePayment: a call found the checkout before its link was
\* recorded, or a declined attempt had made it look dead.
THEOREM ChargeExplainedCorrect == Spec => []ChargeExplained
<1>1. IInv => ChargeExplained
  BY DEF IInv
<1>2. QED  BY <1>1, Inductive, PTL

\* A checkout with a link has the payment through which its charge reaches the
\* booking, unless a call is between the two deletes or was cut short there.
THEOREM PaymentBehindLinkCorrect == Spec => []PaymentBehindLink
<1>1. IInv => PaymentBehindLink
  <2> SUFFICES ASSUME IInv, NEW r \in linked \cap Present,
                      payment[r] \notin {"pending", "paid"}, r \notin halfCleared
               PROVE  \E w \in Workers : call[w].step = "clearCheckout" /\ call[w].row = r
    BY DEF PaymentBehindLink
  <2>1. payment[r] = "deleted"
    BY DEF IInv, TypeOK, LinkOrder
  <2>2. PICK w \in Workers : call[w].row = r /\ call[w].step \in {"clearCheckout", "undoCheckout"}
    BY <2>1 DEF IInv, PaymentDeleted
  <2>3. QED  BY <2>2 DEF IInv, OneMaker
<1>2. QED  BY <1>1, Inductive, PTL

\* payment.deleteMany takes away the record of a payment that was made only in
\* a call that looked at the booking before the payment was made.
THEOREM PaidClearedByLateCallCorrect == Spec => PaidClearedByLateCall
<1>1. IInv /\ [Next]_vars =>
        [\A r \in Rows : payment[r] = "paid" /\ payment'[r] = "deleted" =>
           \E w \in Workers : call[w].row = r /\ r \in call[w].paidSince]_vars
  <2> SUFFICES ASSUME IInv, Next, NEW r \in Rows, payment[r] = "paid", payment'[r] = "deleted"
               PROVE  \E w \in Workers : call[w].row = r /\ r \in call[w].paidSince
    OBVIOUS
  <2>1. ASSUME NEW w \in Workers, DeletePayments(w)
        PROVE  call[w].row = r /\ r \in call[w].paidSince
    BY <2>1 DEF DeletePayments, IInv, TypeOK, PaidSince
  <2>2. ASSUME NEW w \in Workers, ~DeletePayments(w),
               InitializePayment(w) \/ Continue(w) \/ Crash(w)
        PROVE  FALSE
    BY <2>2 DEF InitializePayment, Continue, FindCheckout, DeleteCheckout, CreateCheckout,
       CreatePayment, OpenTransaction, RecordLink, Crash, tables, IInv, TypeOK
  <2>3. ASSUME NEW s \in Rows,
               \/ Pay(s) \/ Decline(s)
               \/ HearOfFailure(s) \/ MarkCheckoutFailed(s)
               \/ HearOfCharge(s) \/ MarkCheckoutPaid(s)
               \/ VerifyCheckout(s) \/ VerifyPayment(s)
        PROVE  FALSE
    BY <2>3 DEF Pay, Decline, HearOfFailure, MarkCheckoutFailed, HearOfCharge, MarkCheckoutPaid,
       VerifyCheckout, VerifyPayment, tables, IInv, TypeOK
  <2>4. CASE FindMismatch \/ SyncMismatch
    BY <2>4 DEF FindMismatch, SyncMismatch, tables
  <2>5. QED  BY <2>1, <2>2, <2>3, <2>4 DEF Next
<1>2. QED  BY <1>1, Inductive, PTL DEF Spec, PaidClearedByLateCall
=============================================================================
