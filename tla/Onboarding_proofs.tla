-------------------------- MODULE Onboarding_proofs --------------------------
(***************************************************************************)
(* Theorems about Onboarding and the Collections it extends, for any       *)
(* number of calls in flight, things to collect, fields and faults.        *)
(***************************************************************************)
EXTENDS Onboarding, FiniteSetTheorems, WellFoundedInduction, TLAPS

-----------------------------------------------------------------------------
(* Every step is one of the lists, which leaves the row alone, or the other *)
(* way round.                                                               *)

\* A list of addresses is kept well.
Kept(l) ==
  /\ IsFiniteSet(l) /\ Cardinality(l) <= MaxSavedAddresses
  /\ \A d, e \in l : d.of = e.of /\ d.id <= e.id => d = e \/ ~e.neat

\* The entries of a list were made before.
MadeBy(l, n) == \A e \in l : e.id <= n

\* What a call that reads a list and writes it back makes of it.
ListChange(w) ==
  \E out, in \in SUBSET Entry :
    /\ Change(w, (list \ out) \cup in, out, in)
    /\ out \subseteq list
    /\ what # "favourites"
    /\ what = "addresses" /\ Kept(list) /\ MadeBy(list, made) => Kept((list \ out) \cup in)
    /\ what = "addresses" => \A e \in in : e.id = made + 1

LEMMA ChangeForm ==
  ASSUME NEW w \in Workers, NEW put, NEW out \in SUBSET Entry, NEW in \in SUBSET Entry,
         Change(w, put, out, in), out \subseteq list, what # "favourites",
         put = (list \ out) \cup in,
         what = "addresses" /\ Kept(list) /\ MadeBy(list, made) => Kept(put),
         what = "addresses" => \A e \in in : e.id = made + 1
  PROVE  ListChange(w)
  BY DEF ListChange

\* The topics of the two halves.
LEMMA Halves ==
  ASSUME [Next]_vars
  PROVE  \/ KeepNext /\ UNCHANGED onboardVars
         \/ what \in {"profile", "account"} /\ OnboardNext /\ UNCHANGED keepVars
         \/ UNCHANGED <<keepVars, onboardVars>>
  BY DEF Next, vars

LEMMA FreshEntry ==
  ASSUME KeepTypeOK, NEW t \in Things, made < MaxEntries
  PROVE  Fresh(t) \in Entry /\ Fresh(t).of = t /\ Fresh(t).id = made + 1 /\ Fresh(t).neat = TRUE
  BY CollectionsAssumption DEF KeepTypeOK, Fresh, Entry

\* Of some numbers one is the smallest.
LEMMA SmallestId ==
  ASSUME NEW S \in SUBSET Nat, S # {}
  PROVE  \E m \in S : \A n \in S : m <= n
  <1>1. IsWellFoundedOn(OpToRel(<, Nat), Nat)
    BY NatLessThanWellFounded
  <1>2. OpToRel(<, Nat) = {p \in Nat \X Nat : p[1] < p[2]}
    BY DEF OpToRel
  <1> DEFINE R == {p \in Nat \X Nat : p[1] < p[2]}
  <1>3. IsWellFoundedOn(R, Nat)
    BY <1>1, <1>2
  <1>4. PICK m \in S : \A n \in S : ~(<<n, m>> \in R)
    <2> HIDE DEF R
    <2> QED
      BY <1>3, WFMin
  <1>5. \A n \in S : <<n, m>> \in Nat \X Nat /\ <<n, m>>[1] = n /\ <<n, m>>[2] = m
    BY <1>4
  <1>6. \A n \in S : ~(n < m)
    BY <1>4, <1>5
  <1> QED
    BY <1>4, <1>6

\* Room is made for one more address.
LEMMA RoomMade ==
  ASSUME NEW l \in SUBSET Entry, Kept(l)
  PROVE  /\ Shift(l) \subseteq l /\ IsFiniteSet(Shift(l))
         /\ Cardinality(Shift(l)) \in Nat /\ Cardinality(Shift(l)) + 1 <= MaxSavedAddresses
  <1>1. IsFiniteSet(l) /\ Cardinality(l) \in Nat /\ Cardinality(l) <= MaxSavedAddresses
    BY FS_CardinalityType DEF Kept
  <1>2. Shift(l) \subseteq l
    BY DEF Shift
  <1>3. IsFiniteSet(Shift(l)) /\ Cardinality(Shift(l)) \in Nat
    BY <1>1, <1>2, FS_Subset, FS_CardinalityType
  <1>4. CASE ~(Cardinality(l) >= MaxSavedAddresses)
    BY <1>1, <1>2, <1>3, <1>4, CollectionsAssumption DEF Shift
  <1>5. CASE Cardinality(l) >= MaxSavedAddresses
    <2>1. l # {}
      BY <1>1, <1>5, FS_EmptySet, CollectionsAssumption
    <2> DEFINE Ids == {e.id : e \in l}
    <2>2. \A e \in l : e.id \in Nat
      BY DEF Entry
    <2>3. Ids # {} /\ Ids \in SUBSET Nat
      BY <2>1, <2>2
    <2>4. PICK m \in Ids : \A n \in Ids : m <= n
      <3> HIDE DEF Ids
      <3> QED
        BY <2>3, SmallestId
    <2>5. PICK e \in l : e.id = m
      BY <2>4
    <2>6. e \in Oldest(l)
      BY <2>4, <2>5 DEF Oldest
    <2>7. Shift(l) \subseteq l \ {e}
      BY <1>5, <2>6 DEF Shift
    <2>8. IsFiniteSet(l \ {e}) /\ Cardinality(l \ {e}) = Cardinality(l) - 1
      BY <1>1, <2>5, FS_RemoveElement
    <2>9. Cardinality(Shift(l)) <= Cardinality(l \ {e})
      BY <2>7, <2>8, FS_Subset
    <2> QED
      BY <1>1, <1>2, <1>3, <2>8, <2>9, CollectionsAssumption
  <1> QED
    BY <1>4, <1>5

\* All the calls on a list change it in one form.
LEMMA AppendChange ==
  ASSUME KeepTypeOK, NEW w \in Workers, NEW t \in Things, what \notin {"favourites", "addresses"}, Append(w, t)
  PROVE  ListChange(w)
  <1>1. made < MaxEntries
    BY DEF Append, Change
  <1>2. Fresh(t) \in Entry
    BY <1>1, FreshEntry
  <1>3. list \cup {Fresh(t)} = (list \ {}) \cup {Fresh(t)} /\ {} \in SUBSET Entry /\ {} \subseteq list
    OBVIOUS
  <1> QED
    BY <1>2, <1>3, ChangeForm DEF Append

LEMMA ReplaceChange ==
  ASSUME KeepTypeOK, NEW w \in Workers, NEW t \in Things, what \notin {"favourites", "addresses"}, Replace(w, t)
  PROVE  ListChange(w)
  <1>1. made < MaxEntries
    BY DEF Replace, Change
  <1>2. Fresh(t) \in Entry
    BY <1>1, FreshEntry
  <1>3. Of(t) \in SUBSET Entry /\ Of(t) \subseteq list
    BY DEF Of, KeepTypeOK
  <1> QED
    BY <1>2, <1>3, ChangeForm DEF Replace

LEMMA OverwriteChange ==
  ASSUME KeepTypeOK, NEW w \in Workers, NEW T \in SUBSET Things, what \notin {"favourites", "addresses"}, Overwrite(w, T)
  PROVE  ListChange(w)
  <1>1. made < MaxEntries
    BY DEF Overwrite, Change
  <1> DEFINE in == {Fresh(t) : t \in T}
  <1>2. in \in SUBSET Entry
    BY <1>1, FreshEntry
  <1>3. list \in SUBSET Entry
    BY DEF KeepTypeOK
  <1>4. (list \ list) \cup in = in
    OBVIOUS
  <1>5. Change(w, in, list, in)
    BY DEF Overwrite
  <1> HIDE DEF in
  <1> QED
    BY <1>2, <1>3, <1>4, <1>5, ChangeForm

LEMMA AddressChange ==
  ASSUME KeepTypeOK, NEW w \in Workers
  PROVE  /\ \A t \in Things, neat \in BOOLEAN : SaveAddress(w, t, neat) => ListChange(w)
         /\ \A id : DeleteAddress(w, id) => ListChange(w)
  <1>1. list \in SUBSET Entry
    BY DEF KeepTypeOK
  <1>2. ASSUME NEW t \in Things, NEW neat \in BOOLEAN, SaveAddress(w, t, neat) PROVE ListChange(w)
    <2> DEFINE new == [Fresh(t) EXCEPT !.neat = neat]
               out == list \ Shift(list)
    <2>1. Fresh(t) \in Entry /\ Fresh(t).of = t /\ Fresh(t).id = made + 1
      BY <1>2, FreshEntry DEF SaveAddress, Change
    <2>2. new \in Entry /\ new.of = t /\ new.id = made + 1 /\ new.neat = neat
      BY <2>1 DEF Entry
    <2>3. Shift(list) \subseteq list
      BY DEF Shift
    <2>4. list \ out = Shift(list) /\ out \in SUBSET Entry /\ out \subseteq list
      BY <1>1, <2>3
    <2>5. /\ Change(w, Shift(list) \cup {new}, out, {new}) /\ what # "favourites"
          /\ neat => Of(t) = {}
      BY <1>2 DEF SaveAddress
    <2> HIDE DEF new, out
    <2>6. ASSUME Kept(list), MadeBy(list, made) PROVE Kept(Shift(list) \cup {new})
      <3>1. /\ IsFiniteSet(Shift(list)) /\ Cardinality(Shift(list)) \in Nat
            /\ Cardinality(Shift(list)) + 1 <= MaxSavedAddresses
        BY <1>1, <2>6, RoomMade
      <3>2. /\ IsFiniteSet(Shift(list) \cup {new})
            /\ Cardinality(Shift(list) \cup {new}) <= MaxSavedAddresses
        BY <3>1, FS_AddElement, CollectionsAssumption
      <3>3. \A e \in list : e.id \in Nat /\ e.id <= made /\ made \in Nat
        BY <1>1, <2>6, CollectionsAssumption DEF MadeBy, Entry, KeepTypeOK
      <3>4. \A e \in list : ~(new.id <= e.id) /\ (neat => e.of # t)
        BY <2>2, <2>5, <3>3 DEF Of
      <3>5. ASSUME NEW d \in Shift(list) \cup {new}, NEW e \in Shift(list) \cup {new},
                   d.of = e.of, d.id <= e.id
            PROVE  d = e \/ ~e.neat
        <4>1. CASE e = new
          BY <2>2, <2>3, <3>4, <3>5, <4>1
        <4>2. CASE e # new
          BY <2>3, <2>6, <3>4, <3>5, <4>2 DEF Kept
        <4> QED
          BY <4>1, <4>2
      <3> QED
        BY <3>2, <3>5 DEF Kept
    <2> QED
      BY <2>2, <2>4, <2>5, <2>6, ChangeForm
  <1>3. ASSUME NEW id, DeleteAddress(w, id) PROVE ListChange(w)
    <2>1. Numbered(id) \subseteq list /\ Numbered(id) \in SUBSET Entry
      BY <1>1 DEF Numbered
    <2>2. list \ Numbered(id) = (list \ Numbered(id)) \cup {} /\ {} \in SUBSET Entry
      OBVIOUS
    <2>3. Kept(list) => Kept(list \ Numbered(id))
      <3> SUFFICES ASSUME Kept(list) PROVE Kept(list \ Numbered(id))
        OBVIOUS
      <3>1. IsFiniteSet(list) /\ Cardinality(list) \in Nat /\ list \ Numbered(id) \subseteq list
        BY FS_CardinalityType DEF Kept
      <3>2. /\ IsFiniteSet(list \ Numbered(id)) /\ Cardinality(list \ Numbered(id)) \in Nat
            /\ Cardinality(list \ Numbered(id)) <= Cardinality(list)
        BY <3>1, FS_Subset, FS_CardinalityType
      <3> QED
        BY <3>1, <3>2, CollectionsAssumption DEF Kept
    <2> QED
      BY <1>3, <2>1, <2>2, <2>3, ChangeForm DEF DeleteAddress
  <1> QED
    BY <1>2, <1>3

LEMMA ServiceChange ==
  ASSUME KeepTypeOK, NEW w \in Workers, NEW id
  PROVE  /\ \A t \in Things : UpdateService(w, id, t) => ListChange(w)
         /\ DeleteService(w, id) => ListChange(w)
  <1>1. list \in SUBSET Entry
    BY DEF KeepTypeOK
  <1>2. ASSUME NEW t \in Things, UpdateService(w, id, t) PROVE ListChange(w)
    <2>1. PICK e \in Numbered(id) :
            Change(w, (list \ {e}) \cup {[e EXCEPT !.of = t]}, {e}, {[e EXCEPT !.of = t]})
      BY <1>2 DEF UpdateService
    <2>2. e \in list /\ e \in Entry /\ [e EXCEPT !.of = t] \in Entry
      BY <1>1, <2>1 DEF Numbered, Entry
    <2>3. what \notin {"favourites", "addresses"}
      BY <1>2 DEF UpdateService
    <2> QED
      BY <2>1, <2>2, <2>3, ChangeForm
  <1>3. ASSUME DeleteService(w, id) PROVE ListChange(w)
    <2>1. Numbered(id) \subseteq list /\ Numbered(id) \in SUBSET Entry
      BY <1>1 DEF Numbered
    <2>2. list \ Numbered(id) = (list \ Numbered(id)) \cup {} /\ {} \in SUBSET Entry
      OBVIOUS
    <2> QED
      BY <1>3, <2>1, <2>2, ChangeForm DEF DeleteService
  <1> QED
    BY <1>2, <1>3

\* What a step of the lists may be.
LEMMA KeepSteps ==
  ASSUME KeepTypeOK, KeepNext
  PROVE  \/ \E w \in Workers :
              \/ what # "favourites" /\ ListChange(w)
              \/ WriteBack(w) \/ CreateFavourite(w) \/ DeleteFavourite(w)
              \/ \E t \in Things : \E op \in FavouriteOps : FindFavourite(w, op, t)
         \/ \E t \in Things : UpsertFavourite(t)
  <1>1. ASSUME NEW w \in Workers, NEW t \in Things,
               \/ \E neat \in BOOLEAN : SaveAddress(w, t, neat)
               \/ AddService(w, t) \/ UploadSalonGallery(w, t)
               \/ AddStylistPortfolioItem(w, t) \/ UpdateStylistPricing(w, t)
        PROVE  ListChange(w)
    BY <1>1, AddressChange, AppendChange, ReplaceChange
    DEF AddService, UploadSalonGallery, AddStylistPortfolioItem, UpdateStylistPricing
  <1>2. ASSUME NEW w \in Workers, NEW T \in SUBSET Things,
               UpdateSalonLists(w, T) \/ UpdateStylistProfile(w, T)
        PROVE  ListChange(w)
    <2>1. ASSUME NEW t \in T PROVE t \in Things
      OBVIOUS
    <2> QED
      BY <1>2, <2>1, AppendChange, OverwriteChange DEF UpdateSalonLists, UpdateStylistProfile
  <1>3. ASSUME NEW w \in Workers, UpdateStylistBasics(w) PROVE ListChange(w)
    BY <1>3, ReplaceChange, CollectionsAssumption DEF UpdateStylistBasics
  <1>4. \A w \in Workers : ListChange(w) => what # "favourites"
    BY DEF ListChange
  <1> QED
    BY <1>1, <1>2, <1>3, <1>4, AddressChange, ServiceChange DEF KeepNext

-----------------------------------------------------------------------------
(* The lists.                                                               *)

\* What a call that has come to a step may rely on.
CallsRely ==
  \A w \in Workers :
    /\ call[w].step = "write" => what # "favourites"
    /\ call[w].step = "create" =>
         /\ what = "favourites" /\ call[w].op \in {"add", "toggle"}
         /\ \E e \in Entry : call[w].in = {e}
    /\ call[w].step = "delete" =>
         /\ what = "favourites" /\ call[w].op \in {"remove", "toggle"}
         /\ \E e \in Entry : call[w].out = {e}

\* The unique index of the favourites.
OneRow == what = "favourites" => \A d, e \in list : d.of = e.of => d = e

\* The copy of a call is what it was asked for, but for what it has missed.
CopiesExplained ==
  \A w \in Workers : call[w].step = "write" =>
    \A e \in Entry \ call[w].missed :
      e \in call[w].put <=> (e \in list /\ e \notin call[w].out) \/ e \in call[w].in

\* The lists of addresses, and the copies of them.
AllKept ==
  what = "addresses" =>
    /\ Kept(list) /\ MadeBy(list, made)
    /\ \A w \in Workers : call[w].step = "write" => Kept(call[w].put) /\ MadeBy(call[w].put, made)

KeepInv == KeepTypeOK /\ CallsRely /\ OneRow /\ CopiesExplained /\ LossExplained /\ AllKept

LEMMA KeepInitInv ==
  ASSUME NEW topics \in SUBSET Topics, KeepInit(topics)
  PROVE  KeepInv
  <1>1. KeepTypeOK
    BY CollectionsAssumption DEF KeepInit, KeepTypeOK, Idle, Calls
  <1>2. \A w \in Workers : call[w].step = "idle"
    BY DEF KeepInit, Idle
  <1>3. Kept({})
    BY FS_EmptySet, CollectionsAssumption DEF Kept
  <1> QED
    BY <1>1, <1>2, <1>3 DEF KeepInv, CallsRely, OneRow, CopiesExplained, LossExplained, AllKept,
                            MadeBy, KeepInit

\* A call that has read.
LEMMA ListChangeKeeps ==
  ASSUME KeepInv, NEW w \in Workers, ListChange(w)
  PROVE  KeepInv'
  <1>1. PICK out \in SUBSET Entry, in \in SUBSET Entry :
          /\ Change(w, (list \ out) \cup in, out, in)
          /\ out \subseteq list /\ what # "favourites"
          /\ what = "addresses" /\ Kept(list) /\ MadeBy(list, made) => Kept((list \ out) \cup in)
          /\ what = "addresses" => \A e \in in : e.id = made + 1
    BY DEF ListChange
  <1> DEFINE c == [step |-> "write", op |-> "list", put |-> (list \ out) \cup in,
                   out |-> out, in |-> in, missed |-> {}]
  <1>2. /\ call' = [call EXCEPT ![w] = c]
        /\ made < MaxEntries /\ made' = (IF in = {} THEN made ELSE made + 1)
        /\ UNCHANGED <<what, list, answer, wanted, crossed>>
    BY <1>1 DEF Change
  <1>3. KeepTypeOK
    BY DEF KeepInv
  <1>4. c \in Calls
    BY <1>3 DEF Calls, KeepTypeOK
  <1>5. call'[w] = c /\ \A u \in Workers : u # w => call'[u] = call[u]
    BY <1>2, <1>3 DEF KeepTypeOK
  <1>6. KeepTypeOK'
    <2>1. call' \in [Workers -> Calls]
      BY <1>2, <1>3, <1>4 DEF KeepTypeOK
    <2>2. made' \in 0..MaxEntries
      BY <1>2, <1>3, CollectionsAssumption DEF KeepTypeOK
    <2> QED
      BY <1>2, <1>3, <2>1, <2>2 DEF KeepTypeOK
  <1>7. CallsRely'
    BY <1>1, <1>2, <1>5 DEF CallsRely, KeepInv
  <1>8. CopiesExplained'
    BY <1>2, <1>5 DEF CopiesExplained, KeepInv
  <1>9. AllKept'
    <2> SUFFICES ASSUME what = "addresses" PROVE AllKept'
      BY <1>2 DEF AllKept
    <2>1. /\ Kept(list) /\ MadeBy(list, made)
          /\ \A u \in Workers : call[u].step = "write" => Kept(call[u].put) /\ MadeBy(call[u].put, made)
      BY DEF KeepInv, AllKept
    <2>2. made \in Nat /\ made' \in {made, made + 1} /\ (in # {} => made' = made + 1)
      BY <1>2, <1>3, CollectionsAssumption DEF KeepTypeOK
    <2>3. ASSUME NEW l \in SUBSET Entry, MadeBy(l, made) PROVE MadeBy(l, made')
      BY <2>2, <2>3 DEF MadeBy, Entry
    <2> DEFINE put == (list \ out) \cup in
    <2>4. put \in SUBSET Entry /\ Kept(put)
      BY <1>1, <1>3, <2>1 DEF KeepTypeOK
    <2>5. MadeBy(put, made')
      <3> SUFFICES ASSUME NEW e \in put PROVE e.id <= made'
        BY DEF MadeBy
      <3>1. CASE e \in list
        BY <1>3, <2>1, <2>2, <3>1 DEF MadeBy, Entry, KeepTypeOK
      <3>2. CASE e \in in
        BY <1>1, <2>2, <3>2
      <3> QED
        BY <3>1, <3>2
    <2>6. MadeBy(list, made')
      BY <1>3, <2>1, <2>3 DEF KeepTypeOK
    <2>7. c.step = "write" /\ c.put = put
      OBVIOUS
    <2> HIDE DEF put, c
    <2>8. ASSUME NEW u \in Workers, call'[u].step = "write"
          PROVE  Kept(call'[u].put) /\ MadeBy(call'[u].put, made')
      <3>1. CASE u = w
        BY <1>5, <2>4, <2>5, <2>7, <3>1
      <3>2. CASE u # w
        <4>1. call'[u] = call[u] /\ call[u].put \in SUBSET Entry
          BY <1>3, <1>5, <3>2 DEF KeepTypeOK, Calls
        <4> QED
          BY <2>1, <2>3, <2>8, <4>1
      <3> QED
        BY <3>1, <3>2
    <2> QED
      BY <1>2, <2>1, <2>6, <2>8 DEF AllKept, Kept
  <1> QED
    BY <1>2, <1>6, <1>7, <1>8, <1>9 DEF KeepInv, OneRow, LossExplained

\* A call that writes: the others have missed it.
LEMMA WriteBackKeeps ==
  ASSUME KeepInv, NEW w \in Workers, WriteBack(w)
  PROVE  KeepInv'
  <1> DEFINE c == call[w]
             changed == (list \ c.put) \cup (c.put \ list)
  <1>1. /\ c.step = "write" /\ list' = c.put
        /\ wanted' = (wanted \ c.out) \cup c.in /\ crossed' = crossed \cup c.missed
        /\ UNCHANGED <<what, made, answer>>
    BY DEF WriteBack
  <1>2. KeepTypeOK /\ c \in Calls
    BY DEF KeepInv, KeepTypeOK
  <1>3. /\ call'[w] = Idle
        /\ \A u \in Workers : u # w =>
             call'[u] = IF call[u].step = "write" THEN [call[u] EXCEPT !.missed = @ \cup changed] ELSE call[u]
    BY DEF WriteBack
  <1>4. c.put \in SUBSET Entry /\ c.out \in SUBSET Entry /\ c.in \in SUBSET Entry /\ c.missed \in SUBSET Entry
    BY <1>2 DEF Calls
  <1>5. changed \in SUBSET Entry
    BY <1>2, <1>4 DEF KeepTypeOK
  <1> HIDE DEF changed
  <1>6. \A u \in Workers : call'[u] \in Calls
    <2>1. Idle \in Calls
      BY DEF Idle, Calls
    <2>2. ASSUME NEW u \in Workers, call[u].step = "write"
          PROVE  [call[u] EXCEPT !.missed = @ \cup changed] \in Calls
      BY <1>2, <1>5 DEF KeepTypeOK, Calls
    <2> QED
      BY <1>2, <1>3, <2>1, <2>2 DEF KeepTypeOK
  <1>7. KeepTypeOK'
    <2>1. call' \in [Workers -> Calls]
      BY <1>6 DEF WriteBack
    <2> QED
      BY <1>1, <1>2, <1>4, <2>1 DEF KeepTypeOK
  <1>8. ASSUME NEW u \in Workers, call'[u].step # "idle"
        PROVE  /\ u # w /\ call[u] \in Calls
               /\ call'[u].step = call[u].step /\ call'[u].op = call[u].op /\ call'[u].put = call[u].put
               /\ call'[u].out = call[u].out /\ call'[u].in = call[u].in
               /\ call'[u].step = "write" => call'[u].missed = call[u].missed \cup changed
    <2>1. u # w
      BY <1>3, <1>8 DEF Idle
    <2>2. call[u] \in Calls
      BY <1>2 DEF KeepTypeOK
    <2> QED
      BY <1>3, <2>1, <2>2 DEF Calls
  <1>9. CallsRely'
    BY <1>1, <1>8 DEF CallsRely, KeepInv
  <1>10. OneRow'
    BY <1>1 DEF OneRow, CallsRely, KeepInv
  <1>11. CopiesExplained'
    <2> SUFFICES ASSUME NEW u \in Workers, call'[u].step = "write", NEW e \in Entry \ call'[u].missed
                 PROVE  e \in call'[u].put <=> (e \in list' /\ e \notin call'[u].out) \/ e \in call'[u].in
      BY DEF CopiesExplained
    <2>1. e \notin changed /\ e \in Entry \ call[u].missed /\ call[u].step = "write"
      BY <1>8
    <2>2. e \in list <=> e \in list'
      BY <1>1, <2>1 DEF changed
    <2>3. e \in call[u].put <=> (e \in list /\ e \notin call[u].out) \/ e \in call[u].in
      BY <2>1 DEF CopiesExplained, KeepInv
    <2> QED
      BY <1>8, <2>2, <2>3
  <1>12. LossExplained'
    <2> SUFFICES ASSUME what # "favourites", NEW e \in Entry \ crossed' PROVE e \in list' <=> e \in wanted'
      BY <1>1 DEF LossExplained
    <2>1. e \in Entry \ crossed /\ e \in Entry \ c.missed
      BY <1>1
    <2>2. e \in list <=> e \in wanted
      BY <2>1 DEF LossExplained, KeepInv
    <2>3. e \in c.put <=> (e \in list /\ e \notin c.out) \/ e \in c.in
      BY <1>1, <2>1 DEF CopiesExplained, KeepInv
    <2> QED
      BY <1>1, <2>2, <2>3
  <1>13. AllKept'
    BY <1>1, <1>8 DEF AllKept, Kept, MadeBy, KeepInv
  <1> QED
    BY <1>7, <1>9, <1>10, <1>11, <1>12, <1>13 DEF KeepInv

\* A call on the favourites that goes on, or returns.
LEMMA FavouriteCalls ==
  ASSUME KeepInv, what = "favourites", NEW w \in Workers, NEW c \in Calls,
         call' = [call EXCEPT ![w] = c],
         \/ c = Idle
         \/ c.step = "create" /\ c.op \in {"add", "toggle"} /\ \E e \in Entry : c.in = {e}
         \/ c.step = "delete" /\ c.op \in {"remove", "toggle"} /\ \E e \in Entry : c.out = {e},
         what' = what
  PROVE  /\ call' \in [Workers -> Calls]
         /\ CallsRely' /\ CopiesExplained' /\ AllKept' /\ LossExplained'
  <1>1. call \in [Workers -> Calls] /\ CallsRely
    BY DEF KeepInv, KeepTypeOK
  <1>2. call'[w] = c /\ \A u \in Workers : u # w => call'[u] = call[u]
    BY <1>1
  <1>3. c.step # "write" /\ Idle.step = "idle"
    BY DEF Idle
  <1>4. \A u \in Workers : call'[u].step # "write"
    BY <1>1, <1>2, <1>3 DEF CallsRely
  <1>5. CallsRely'
    BY <1>1, <1>2, <1>3 DEF CallsRely
  <1> QED
    BY <1>1, <1>4, <1>5 DEF CopiesExplained, AllKept, LossExplained

\* The row of a favourite is the only one.
LEMMA FavouriteRow ==
  ASSUME KeepInv, what = "favourites", NEW t \in Things, Of(t) # {}
  PROVE  \E e \in Entry : Of(t) = {e} /\ e \in list /\ e.of = t
  <1>1. PICK e \in list : e.of = t
    BY DEF Of
  <1>2. e \in Entry
    BY <1>1 DEF KeepInv, KeepTypeOK
  <1>3. Of(t) = {e}
    BY <1>1 DEF Of, KeepInv, OneRow
  <1> QED
    BY <1>1, <1>2, <1>3

LEMMA AnswerType ==
  ASSUME NEW op \in FavouriteOps, NEW t \in Things, NEW a \in BOOLEAN, NEW b \in BOOLEAN, Answer(op, t, a, b)
  PROVE  answer' \subseteq FavouriteOps \X Things \X BOOLEAN \X BOOLEAN
  <1>1. <<op, t, a, b>> \in FavouriteOps \X Things \X BOOLEAN \X BOOLEAN
    OBVIOUS
  <1> QED
    BY <1>1 DEF Answer

LEMMA FindKeeps ==
  ASSUME KeepInv, NEW w \in Workers, NEW op \in FavouriteOps, NEW t \in Things, FindFavourite(w, op, t)
  PROVE  KeepInv'
  <1>1. KeepTypeOK /\ what = "favourites" /\ made < MaxEntries /\ UNCHANGED <<what, list, wanted, crossed>>
    BY DEF FindFavourite, KeepInv
  <1>2. Idle \in Calls
    BY DEF Idle, Calls
  <1>3. CASE UNCHANGED <<call, made>> /\ \E a, b \in BOOLEAN : Answer(op, t, a, b)
    <2>1. answer' \subseteq FavouriteOps \X Things \X BOOLEAN \X BOOLEAN
      BY <1>3, AnswerType
    <2>2. KeepTypeOK'
      BY <1>1, <1>3, <2>1 DEF KeepTypeOK
    <2> QED
      BY <1>1, <1>3, <2>2 DEF KeepInv, CallsRely, OneRow, CopiesExplained, LossExplained, AllKept, Kept,
  MadeBy
  <1>4. CASE /\ Of(t) = {} /\ op \in {"add", "toggle"}
             /\ call' = [call EXCEPT ![w] = [Idle EXCEPT !.step = "create", !.op = op, !.in = {Fresh(t)}]]
             /\ made' = made + 1 /\ UNCHANGED answer
    <2> DEFINE c == [Idle EXCEPT !.step = "create", !.op = op, !.in = {Fresh(t)}]
    <2>1. Fresh(t) \in Entry
      BY <1>1, FreshEntry
    <2>2. c \in Calls /\ c.step = "create" /\ c.op = op /\ c.in = {Fresh(t)}
      BY <2>1 DEF Idle, Calls
    <2> HIDE DEF c
    <2>3. call' = [call EXCEPT ![w] = c]
      BY <1>4 DEF c
    <2>4. /\ call' \in [Workers -> Calls]
          /\ CallsRely' /\ CopiesExplained' /\ AllKept' /\ LossExplained'
      BY <1>1, <1>4, <2>1, <2>2, <2>3, FavouriteCalls
    <2>5. made' \in 0..MaxEntries
      BY <1>1, <1>4, CollectionsAssumption DEF KeepTypeOK
    <2> QED
      BY <1>1, <1>4, <2>4, <2>5 DEF KeepInv, KeepTypeOK, OneRow
  <1>5. CASE /\ Of(t) # {} /\ op \in {"remove", "toggle"}
             /\ call' = [call EXCEPT ![w] = [Idle EXCEPT !.step = "delete", !.op = op, !.out = Of(t)]]
             /\ UNCHANGED <<answer, made>>
    <2> DEFINE c == [Idle EXCEPT !.step = "delete", !.op = op, !.out = Of(t)]
    <2>1. PICK e \in Entry : Of(t) = {e}
      BY <1>1, <1>5, FavouriteRow
    <2>2. c \in Calls /\ c.step = "delete" /\ c.op = op /\ c.out = {e}
      BY <2>1 DEF Idle, Calls
    <2> HIDE DEF c
    <2>3. call' = [call EXCEPT ![w] = c]
      BY <1>5 DEF c
    <2>4. /\ call' \in [Workers -> Calls]
          /\ CallsRely' /\ CopiesExplained' /\ AllKept' /\ LossExplained'
      BY <1>1, <1>5, <2>2, <2>3, FavouriteCalls
    <2> QED
      BY <1>1, <1>5, <2>4 DEF KeepInv, KeepTypeOK, OneRow
  <1>6. CASE op = "add" /\ Of(t) # {}
    <2>1. Answer(op, t, TRUE, TRUE) /\ UNCHANGED <<call, made>>
      BY <1>6 DEF FindFavourite
    <2> QED
      BY <1>3, <2>1
  <1>7. CASE op = "remove" /\ Of(t) = {}
    <2>1. Answer(op, t, FALSE, FALSE) /\ UNCHANGED <<call, made>>
      BY <1>7 DEF FindFavourite
    <2> QED
      BY <1>3, <2>1
  <1>8. CASE op # "remove" /\ Of(t) = {}
    BY <1>4, <1>8 DEF FindFavourite, FavouriteOps
  <1>9. CASE op # "add" /\ Of(t) # {}
    BY <1>5, <1>9 DEF FindFavourite, FavouriteOps
  <1> QED
    BY <1>6, <1>7, <1>8, <1>9

\* The rows of the favourites, with one more or one less.
LEMMA CreateKeeps ==
  ASSUME KeepInv, NEW w \in Workers, CreateFavourite(w)
  PROVE  /\ KeepInv'
         /\ \/ UNCHANGED <<list, answer, what>>
            \/ \E e \in Entry : /\ what = "favourites" /\ what' = what /\ Of(e.of) = {} /\ list' = list \cup {e}
                                /\ \E op \in {"add", "toggle"} : Answer(op, e.of, FALSE, TRUE)
  <1>1. /\ KeepTypeOK /\ what = "favourites" /\ call[w].op \in {"add", "toggle"}
        /\ UNCHANGED <<what, made, wanted, crossed>> /\ call' = [call EXCEPT ![w] = Idle]
    BY DEF CreateFavourite, KeepInv, CallsRely, Return
  <1>2. PICK e \in Entry : call[w].in = {e}
    BY DEF CreateFavourite, KeepInv, CallsRely
  <1>3. IF Of(e.of) = {} THEN list' = list \cup {e} /\ Answer(call[w].op, e.of, FALSE, TRUE)
                         ELSE UNCHANGED <<list, answer>>
    BY <1>2 DEF CreateFavourite
  <1>4. Idle \in Calls
    BY DEF Idle, Calls
  <1>5. /\ call' \in [Workers -> Calls]
        /\ CallsRely' /\ CopiesExplained' /\ AllKept' /\ LossExplained'
    BY <1>1, <1>4, FavouriteCalls
  <1>6. list' \in SUBSET Entry /\ answer' \subseteq FavouriteOps \X Things \X BOOLEAN \X BOOLEAN
    <2>1. e.of \in Things /\ call[w].op \in FavouriteOps
      BY <1>1 DEF Entry, FavouriteOps
    <2>2. answer' \subseteq FavouriteOps \X Things \X BOOLEAN \X BOOLEAN
      BY <1>1, <1>3, <2>1, AnswerType DEF KeepTypeOK
    <2> QED
      BY <1>1, <1>3, <2>2 DEF KeepTypeOK
  <1>7. OneRow'
    BY <1>1, <1>3 DEF OneRow, Of, KeepInv
  <1>8. KeepInv'
    BY <1>1, <1>5, <1>6, <1>7 DEF KeepInv, KeepTypeOK
  <1> QED
    BY <1>1, <1>3, <1>8

LEMMA DeleteKeeps ==
  ASSUME KeepInv, NEW w \in Workers, DeleteFavourite(w)
  PROVE  /\ KeepInv'
         /\ \/ UNCHANGED <<list, answer, what>>
            \/ \E e \in list : /\ what = "favourites" /\ what' = what /\ list' = list \ {e}
                               /\ \E op \in {"remove", "toggle"} : Answer(op, e.of, TRUE, FALSE)
  <1>1. /\ KeepTypeOK /\ what = "favourites" /\ call[w].op \in {"remove", "toggle"}
        /\ UNCHANGED <<what, made, wanted, crossed>> /\ call' = [call EXCEPT ![w] = Idle]
    BY DEF DeleteFavourite, KeepInv, CallsRely, Return
  <1>2. PICK e \in Entry : call[w].out = {e}
    BY DEF DeleteFavourite, KeepInv, CallsRely
  <1>3. IF e \in list THEN list' = list \ {e} /\ Answer(call[w].op, e.of, TRUE, FALSE)
                      ELSE UNCHANGED <<list, answer>>
    BY <1>2 DEF DeleteFavourite
  <1>4. Idle \in Calls
    BY DEF Idle, Calls
  <1>5. /\ call' \in [Workers -> Calls]
        /\ CallsRely' /\ CopiesExplained' /\ AllKept' /\ LossExplained'
    BY <1>1, <1>4, FavouriteCalls
  <1>6. list' \in SUBSET Entry /\ answer' \subseteq FavouriteOps \X Things \X BOOLEAN \X BOOLEAN
    <2>1. e.of \in Things /\ call[w].op \in FavouriteOps
      BY <1>1 DEF Entry, FavouriteOps
    <2>2. answer' \subseteq FavouriteOps \X Things \X BOOLEAN \X BOOLEAN
      BY <1>1, <1>3, <2>1, AnswerType DEF KeepTypeOK
    <2> QED
      BY <1>1, <1>3, <2>2 DEF KeepTypeOK
  <1>7. OneRow'
    BY <1>1, <1>3 DEF OneRow, KeepInv
  <1>8. KeepInv'
    BY <1>1, <1>5, <1>6, <1>7 DEF KeepInv, KeepTypeOK
  <1> QED
    BY <1>1, <1>3, <1>8

LEMMA UpsertKeeps ==
  ASSUME KeepInv, NEW t \in Things, UpsertFavourite(t)
  PROVE  KeepInv'
  <1>1. /\ KeepTypeOK /\ what = "favourites" /\ made < MaxEntries /\ Of(t) = {}
        /\ list' = list \cup {Fresh(t)} /\ made' = made + 1
        /\ UNCHANGED <<what, call, wanted, crossed>>
    BY DEF UpsertFavourite, KeepInv
  <1>2. Fresh(t) \in Entry /\ Fresh(t).of = t
    BY <1>1, FreshEntry
  <1>3. answer' \subseteq FavouriteOps \X Things \X BOOLEAN \X BOOLEAN
    <2>1. "add" \in FavouriteOps /\ Answer("add", t, FALSE, TRUE)
      BY DEF FavouriteOps, UpsertFavourite
    <2> QED
      BY <2>1, AnswerType
  <1>4. made' \in 0..MaxEntries
    BY <1>1, CollectionsAssumption DEF KeepTypeOK
  <1>5. OneRow'
    BY <1>1, <1>2 DEF OneRow, Of, KeepInv
  <1>6. \A w \in Workers : call[w].step # "write"
    BY <1>1 DEF KeepInv, CallsRely
  <1> QED
    BY <1>1, <1>2, <1>3, <1>4, <1>5, <1>6
    DEF KeepInv, KeepTypeOK, CallsRely, CopiesExplained, LossExplained, AllKept

LEMMA KeepStep == KeepInv /\ [Next]_vars => KeepInv'
  <1> SUFFICES ASSUME KeepInv, [Next]_vars PROVE KeepInv'
    OBVIOUS
  <1>1. CASE KeepNext
    BY <1>1, KeepSteps, ListChangeKeeps, WriteBackKeeps, FindKeeps, CreateKeeps, DeleteKeeps, UpsertKeeps
    DEF KeepInv
  <1>2. CASE UNCHANGED keepVars
    BY <1>2 DEF keepVars, KeepInv, KeepTypeOK, CallsRely, OneRow, CopiesExplained, LossExplained, AllKept, Kept,
  MadeBy
  <1> QED
    BY <1>1, <1>2, Halves DEF Next

LEMMA KeepInvHolds == Spec => []KeepInv
  <1>1. Init => KeepInv
    <2>1. Lists \in SUBSET Topics /\ {"profile", "account"} \in SUBSET Topics
      BY DEF Topics
    <2> QED
      BY <2>1, KeepInitInv DEF Init
  <1> QED
    BY <1>1, KeepStep, PTL DEF Spec

\* A list holds what the calls on it asked for, but for what was changed while
\* a call held an older copy.
THEOREM LossIsExplained == Spec => []LossExplained
  <1>1. KeepInv => LossExplained
    BY DEF KeepInv
  <1> QED
    BY <1>1, KeepInvHolds, PTL

\* No more than MAX_SAVED_ADDRESSES addresses are kept, and none again that was not
\* sent with blanks around its city or state.
THEOREM AddressesAreKept == Spec => []AddressesKept
  <1>1. KeepInv => AddressesKept
    BY DEF KeepInv, AllKept, Kept, AddressesKept
  <1> QED
    BY <1>1, KeepInvHolds, PTL

-----------------------------------------------------------------------------
(* The favourites implement FavouriteSet.                                   *)

Favs == IF what = "favourites" THEN {e.of : e \in list} ELSE {}

\* One answered call of the abstract specification.
LEMMA AddIsAnswered ==
  ASSUME KeepTypeOK, what = "favourites", what' = what, NEW e \in Entry, Of(e.of) = {},
         list' = list \cup {e}, NEW op \in {"add", "toggle"}, Answer(op, e.of, FALSE, TRUE)
  PROVE  Favourites!Next
  <1>1. e.of \in Things /\ op \in Favourites!Ops
    BY DEF Entry, Favourites!Ops
  <1>2. e.of \notin Favs
    BY DEF Favs, Of
  <1>3. Favs' = Favs \cup {e.of}
    BY DEF Favs
  <1>4. (op = "add" \/ (op = "toggle" /\ ~(e.of \in Favs))) = TRUE /\ (e.of \in Favs) = FALSE
    BY <1>2
  <1>5. answer' = {<<op, e.of, FALSE, TRUE>>}
    BY DEF Answer
  <1>6. Favourites!Answered(op, e.of)
    BY <1>3, <1>4, <1>5 DEF Favourites!Answered, Favs
  <1> QED
    BY <1>1, <1>6 DEF Favourites!Next

LEMMA RemoveIsAnswered ==
  ASSUME KeepTypeOK, OneRow, what = "favourites", what' = what, NEW e \in list,
         list' = list \ {e}, NEW op \in {"remove", "toggle"}, Answer(op, e.of, TRUE, FALSE)
  PROVE  Favourites!Next
  <1>1. e.of \in Things /\ op \in Favourites!Ops
    BY DEF KeepTypeOK, Entry, Favourites!Ops
  <1>2. e.of \in Favs
    BY DEF Favs
  <1>3. Favs' = Favs \ {e.of}
    BY DEF Favs, OneRow
  <1>4. (op = "add" \/ (op = "toggle" /\ ~(e.of \in Favs))) = FALSE /\ (e.of \in Favs) = TRUE
    BY <1>2
  <1>5. answer' = {<<op, e.of, TRUE, FALSE>>}
    BY DEF Answer
  <1>6. Favourites!Answered(op, e.of)
    BY <1>3, <1>4, <1>5 DEF Favourites!Answered, Favs
  <1> QED
    BY <1>1, <1>6 DEF Favourites!Next

\* So is an answer that leaves the rows alone.
LEMMA NothingIsAnswered ==
  ASSUME KeepTypeOK, UNCHANGED <<what, list>>, what = "favourites", NEW t \in Things,
         \/ Of(t) # {} /\ Answer("add", t, TRUE, TRUE)
         \/ Of(t) = {} /\ Answer("remove", t, FALSE, FALSE)
  PROVE  Favourites!Next
  <1>1. Favs' = Favs /\ (t \in Favs <=> Of(t) # {})
    BY DEF Favs, Of
  <1>2. CASE Of(t) # {} /\ Answer("add", t, TRUE, TRUE)
    <2>1. (t \in Favs) = TRUE /\ Favs' = Favs \cup {t}
      BY <1>1, <1>2
    <2>2. Favourites!Answered("add", t)
      BY <1>2, <2>1 DEF Favourites!Answered, Favs, Answer
    <2> QED
      BY <2>2 DEF Favourites!Next, Favourites!Ops
  <1>3. CASE Of(t) = {} /\ Answer("remove", t, FALSE, FALSE)
    <2>1. (t \in Favs) = FALSE /\ Favs' = Favs \ {t}
      BY <1>1, <1>3
    <2>2. Favourites!Answered("remove", t)
      BY <1>3, <2>1 DEF Favourites!Answered, Favs, Answer
    <2> QED
      BY <2>2 DEF Favourites!Next, Favourites!Ops
  <1> QED
    BY <1>2, <1>3

LEMMA FavouriteStep == KeepInv /\ [Next]_vars => [Favourites!Next]_(Favourites!vars)
  <1> SUFFICES ASSUME KeepInv, [Next]_vars PROVE Favourites!Next \/ UNCHANGED Favourites!vars
    OBVIOUS
  <1>1. KeepTypeOK /\ OneRow
    BY DEF KeepInv
  <1>2. CASE UNCHANGED <<what, list, answer>>
    BY <1>2 DEF Favourites!vars
  <1>3. ASSUME NEW w \in Workers, ListChange(w) PROVE UNCHANGED <<what, list, answer>>
    BY <1>3 DEF ListChange, Change
  <1>4. ASSUME NEW w \in Workers, WriteBack(w) PROVE UNCHANGED Favourites!vars
    <2>1. what # "favourites" /\ what' = what /\ answer' = answer
      BY <1>4 DEF WriteBack, KeepInv, CallsRely
    <2> QED
      BY <2>1 DEF Favourites!vars
  <1>5. ASSUME NEW w \in Workers, CreateFavourite(w) PROVE Favourites!Next \/ UNCHANGED <<what, list, answer>>
    BY <1>1, <1>5, CreateKeeps, AddIsAnswered
  <1>6. ASSUME NEW w \in Workers, DeleteFavourite(w) PROVE Favourites!Next \/ UNCHANGED <<what, list, answer>>
    BY <1>1, <1>6, DeleteKeeps, RemoveIsAnswered
  <1>7. ASSUME NEW w \in Workers, NEW t \in Things, NEW op \in FavouriteOps, FindFavourite(w, op, t)
        PROVE  Favourites!Next \/ UNCHANGED <<what, list, answer>>
    <2>1. what = "favourites" /\ UNCHANGED <<what, list>>
      BY <1>7 DEF FindFavourite
    <2>2. CASE op = "add" /\ Of(t) # {}
      <3>1. Answer("add", t, TRUE, TRUE)
        BY <1>7, <2>2 DEF FindFavourite
      <3> QED
        BY <1>1, <2>1, <2>2, <3>1, NothingIsAnswered
    <2>3. CASE op = "remove" /\ Of(t) = {}
      <3>1. Answer("remove", t, FALSE, FALSE)
        BY <1>7, <2>3 DEF FindFavourite
      <3> QED
        BY <1>1, <2>1, <2>3, <3>1, NothingIsAnswered
    <2>4. CASE op # "remove" /\ Of(t) = {}
      BY <1>7, <2>1, <2>4 DEF FindFavourite
    <2>5. CASE op # "add" /\ Of(t) # {}
      BY <1>7, <2>1, <2>5 DEF FindFavourite
    <2> QED
      BY <2>2, <2>3, <2>4, <2>5
  <1>8. ASSUME NEW t \in Things, UpsertFavourite(t) PROVE Favourites!Next
    <2>1. Fresh(t) \in Entry /\ Fresh(t).of = t
      BY <1>1, <1>8, FreshEntry DEF UpsertFavourite
    <2>2. /\ what = "favourites" /\ what' = what /\ Of(Fresh(t).of) = {} /\ list' = list \cup {Fresh(t)}
          /\ Answer("add", Fresh(t).of, FALSE, TRUE)
      BY <1>8, <2>1 DEF UpsertFavourite
    <2> QED
      BY <1>1, <2>1, <2>2, AddIsAnswered
  <1>9. CASE UNCHANGED keepVars
    BY <1>2, <1>9 DEF keepVars
  <1>10. CASE KeepNext
    BY <1>1, <1>2, <1>3, <1>4, <1>5, <1>6, <1>7, <1>8, <1>10, KeepSteps
  <1> QED
    BY <1>9, <1>10, Halves

\* Each answer about a favourite is true at the moment it takes effect.
THEOREM FavouritesAreAtomic == Spec => FavouritesAtomic
  <1>1. Init => Favourites!Init
    BY DEF Init, KeepInit, Favourites!Init
  <1> QED
    BY <1>1, FavouriteStep, KeepInvHolds, PTL DEF Spec, FavouritesAtomic, Favourites!Spec

-----------------------------------------------------------------------------
(* The row of a salon and its account.                                      *)

RowTypes ==
  /\ salon \in Salons
  /\ bank \in 0..MaxAccounts /\ subaccount \in 0..MaxAccounts /\ accounts \in 0..MaxAccounts
  /\ request \in [Workers -> Requests]
  /\ faults \in 0..MaxFaults
  /\ uncounted \subseteq {"crossed", "upload", "name"} /\ unnoted \in BOOLEAN

\* The count of a request that has missed nothing is right.
CountsRely ==
  \A w \in Workers : request[w].step = "save" /\ ~request[w].missed =>
    (request[w].completed <=> (salon.filled \ request[w].clear) \cup request[w].fill = Fields)

\* A request has the account it opened; the row follows the first one.
AccountsRely ==
  \A w \in Workers :
    /\ request[w].step = "insert" => request[w].account # 0
    /\ request[w].step = "note" => request[w].account = subaccount /\ subaccount # 0

RowInv == RowTypes /\ CountsRely /\ CompletedExplained /\ AccountsRely /\ BankDetailsExplained

\* What of a request is replaced, the others keep theirs.
LEMMA OneRequest ==
  ASSUME RowTypes, NEW w \in Workers, NEW r \in Requests, request' = [request EXCEPT ![w] = r]
  PROVE  /\ request' \in [Workers -> Requests] /\ request'[w] = r
         /\ \A u \in Workers : u # w => request'[u] = request[u]
  BY DEF RowTypes

LEMMA NoRequestType == NoRequest \in Requests /\ NoRequest.step = "idle"
  BY OnboardingAssumption DEF NoRequest, Requests

LEMMA GotoType ==
  ASSUME RowTypes, NEW w \in Workers, NEW step \in {"upload", "gateway", "insert", "note"}, Goto(w, step)
  PROVE  /\ request' \in [Workers -> Requests]
         /\ request'[w] = [request[w] EXCEPT !.step = step]
         /\ request'[w].step = step /\ request'[w].account = request[w].account
         /\ \A u \in Workers : u # w => request'[u] = request[u]
  <1> DEFINE r == [request[w] EXCEPT !.step = step]
  <1>1. r \in Requests /\ r.step = step /\ r.account = request[w].account
    BY DEF RowTypes, Requests
  <1>2. request' = [request EXCEPT ![w] = r]
    BY DEF Goto
  <1> QED
    BY <1>1, <1>2, OneRequest

LEMMA DoneType ==
  ASSUME RowTypes, NEW w \in Workers, Done(w)
  PROVE  /\ request' \in [Workers -> Requests]
         /\ request'[w] = NoRequest
         /\ \A u \in Workers : u # w => request'[u] = request[u]
  BY NoRequestType, OneRequest DEF Done

\* A request that ends with nothing written takes nothing away that matters.
LEMMA DoneKeeps ==
  ASSUME RowInv, NEW w \in Workers, Done(w), UNCHANGED <<profileVars, accountVars>>,
         faults' \in 0..MaxFaults, faults' >= faults,
         request[w].step = "note" => faults' > 0
  PROVE  RowInv'
  <1>1. RowTypes
    BY DEF RowInv
  <1>2. /\ request' \in [Workers -> Requests] /\ request'[w].step = "idle"
        /\ \A u \in Workers : u # w => request'[u] = request[u]
    BY <1>1, DoneType, NoRequestType
  <1>3. RowTypes' /\ CountsRely' /\ CompletedExplained' /\ AccountsRely'
    BY <1>2 DEF RowInv, RowTypes, CountsRely, CompletedExplained, AccountsRely, profileVars, accountVars
  <1>4. faults \in Nat /\ faults' \in Nat
    BY OnboardingAssumption DEF RowInv, RowTypes
  <1>5. BankDetailsExplained'
    BY <1>2, <1>4 DEF RowInv, BankDetailsExplained, accountVars
  <1> QED
    BY <1>3, <1>5 DEF RowInv

\* A request that begins.
LEMMA BeginKeeps ==
  ASSUME RowInv, NEW w \in Workers, NEW r \in Requests, request' = [request EXCEPT ![w] = r],
         request[w].step = "idle", r.step \in {"save", "rename", "create", "upload", "gateway"},
         r.step = "save" => (r.completed <=> (salon.filled \ r.clear) \cup r.fill = Fields),
         UNCHANGED <<profileVars, accountVars, faults>>
  PROVE  RowInv'
  <1>1. RowTypes
    BY DEF RowInv
  <1>2. /\ request' \in [Workers -> Requests] /\ request'[w] = r
        /\ \A u \in Workers : u # w => request'[u] = request[u]
    BY <1>1, OneRequest
  <1> QED
    BY <1>2 DEF RowInv, RowTypes, CountsRely, CompletedExplained, AccountsRely, BankDetailsExplained,
                profileVars, accountVars

\* Whoever holds an older copy of the fields knows that it does.
LEMMA WrittenKeeps ==
  ASSUME RowTypes, CountsRely, NEW w \in Workers, NEW filled, Written(w, filled),
         salon'.filled = filled
  PROVE  /\ request' \in [Workers -> Requests] /\ CountsRely'
         /\ request'[w].step = "idle"
         /\ \A u \in Workers : u # w => /\ request'[u].step = request[u].step
                                        /\ request'[u].account = request[u].account
  <1>1. ASSUME NEW u \in Workers
        PROVE  /\ request'[u] \in Requests
               /\ u = w => request'[u].step = "idle"
               /\ u # w => /\ request'[u].step = request[u].step
                           /\ request'[u].account = request[u].account
               /\ request'[u].step = "save" /\ ~request'[u].missed =>
                    (request'[u].completed <=> (filled \ request'[u].clear) \cup request'[u].fill = Fields)
    <2>1. request[u] \in Requests
      BY DEF RowTypes
    <2>2. CASE u = w
      BY <2>2, NoRequestType DEF Written
    <2>3. CASE u # w /\ request[u].step = "save" /\ filled # salon.filled
      <3>1. request'[u] = [request[u] EXCEPT !.missed = TRUE]
        BY <2>3 DEF Written
      <3> QED
        BY <2>1, <2>3, <3>1 DEF Requests
    <2>4. CASE u # w /\ ~(request[u].step = "save" /\ filled # salon.filled)
      <3>1. request'[u] = request[u]
        BY <2>4 DEF Written
      <3> QED
        BY <2>1, <2>4, <3>1 DEF CountsRely
    <2> QED
      BY <2>2, <2>3, <2>4
  <1>2. request' \in [Workers -> Requests]
    BY <1>1 DEF Written
  <1>3. CountsRely'
    BY <1>1 DEF CountsRely
  <1> QED
    BY <1>1, <1>2, <1>3

\* The fields are written.
LEMMA SaveKeeps ==
  ASSUME RowInv, NEW w \in Workers, SaveSalon(w)
  PROVE  RowInv'
  <1> DEFINE r == request[w]
             filled == (salon.filled \ r.clear) \cup r.fill
  <1>1. RowTypes /\ r \in Requests /\ salon \in Salons /\ r.step = "save" /\ UNCHANGED <<accountVars, faults>>
    BY DEF RowInv, RowTypes, SaveSalon
  <1>2. CASE Done(w) /\ UNCHANGED profileVars
    <2>1. faults' \in 0..MaxFaults /\ faults' >= faults
      BY <1>1, OnboardingAssumption DEF RowTypes
    <2> QED
      BY <1>1, <1>2, <2>1, DoneKeeps
  <1>3. CASE /\ salon' = [there |-> TRUE, filled |-> filled, completed |-> r.completed]
             /\ uncounted' = IF r.missed /\ ~(r.completed <=> filled = Fields)
                              THEN {"crossed"} ELSE {}
             /\ Written(w, filled)
    <2>1. salon' \in Salons /\ salon'.filled = filled /\ salon'.completed = r.completed
      BY <1>1, <1>3 DEF Salons, Requests
    <2>2. /\ request' \in [Workers -> Requests] /\ CountsRely' /\ request'[w].step = "idle"
          /\ \A u \in Workers : u # w => /\ request'[u].step = request[u].step
                                         /\ request'[u].account = request[u].account
      BY <1>1, <1>3, <2>1, WrittenKeeps DEF RowInv
    <2>3. CompletedExplained'
      BY <1>1, <1>3, <2>1 DEF RowInv, CountsRely, CompletedExplained
    <2>4. AccountsRely' /\ BankDetailsExplained'
      BY <1>1, <2>2 DEF RowInv, AccountsRely, BankDetailsExplained, accountVars
    <2>5. RowTypes'
      BY <1>1, <1>3, <2>1, <2>2 DEF RowTypes, accountVars
    <2> QED
      BY <2>2, <2>3, <2>4, <2>5 DEF RowInv
  <1> QED
    BY <1>2, <1>3 DEF SaveSalon

\* A row without fields is made for an upload.
LEMMA CreateKeepsRow ==
  ASSUME RowInv, NEW w \in Workers, CreateSalon(w)
  PROVE  RowInv'
  <1>1. RowTypes /\ salon \in Salons /\ request[w].step = "create" /\ UNCHANGED <<uncounted, accountVars, faults>>
    BY DEF RowInv, RowTypes, CreateSalon
  <1>2. CASE Done(w) /\ UNCHANGED salon
    <2>1. faults' \in 0..MaxFaults /\ faults' >= faults
      BY <1>1, OnboardingAssumption DEF RowTypes
    <2> QED
      BY <1>1, <1>2, <2>1, DoneKeeps DEF profileVars
  <1>3. CASE Goto(w, "upload") /\ salon' = [salon EXCEPT !.there = TRUE]
    <2>1. salon' \in Salons /\ salon'.filled = salon.filled /\ salon'.completed = salon.completed
      BY <1>1, <1>3 DEF Salons
    <2>2. /\ request' \in [Workers -> Requests] /\ request'[w].step = "upload"
          /\ \A u \in Workers : u # w => request'[u] = request[u]
      BY <1>1, <1>3, GotoType
    <2> QED
      BY <1>1, <2>1, <2>2 DEF RowInv, RowTypes, CountsRely, CompletedExplained, AccountsRely,
                              BankDetailsExplained, accountVars
  <1> QED
    BY <1>2, <1>3 DEF CreateSalon

\* An upload fills a field, and is not counted.
LEMMA PictureKeeps ==
  ASSUME RowInv, NEW w \in Workers, SetPicture(w)
  PROVE  RowInv'
  <1> DEFINE filled == salon.filled \cup request[w].fill
  <1>1. RowTypes /\ salon \in Salons /\ request[w] \in Requests /\ request[w].step = "upload" /\ UNCHANGED <<accountVars, faults>>
    BY DEF RowInv, RowTypes, SetPicture
  <1>2. salon' = [salon EXCEPT !.filled = filled] /\ LeftOut(filled, "upload") /\ Written(w, filled)
    BY DEF SetPicture
  <1>3. salon' \in Salons /\ salon'.filled = filled /\ salon'.completed = salon.completed
    BY <1>1, <1>2 DEF Salons, Requests
  <1>4. /\ request' \in [Workers -> Requests] /\ CountsRely' /\ request'[w].step = "idle"
        /\ \A u \in Workers : u # w => /\ request'[u].step = request[u].step
                                       /\ request'[u].account = request[u].account
    BY <1>1, <1>2, <1>3, WrittenKeeps DEF RowInv
  <1>5. CompletedExplained'
    <2>1. salon.filled = Fields => filled = Fields
      BY <1>1 DEF Requests
    <2> QED
      BY <1>2, <1>3, <2>1 DEF RowInv, CompletedExplained, LeftOut
  <1>6. AccountsRely' /\ BankDetailsExplained'
    BY <1>1, <1>4 DEF RowInv, AccountsRely, BankDetailsExplained, accountVars
  <1>7. RowTypes'
    BY <1>1, <1>2, <1>3, <1>4 DEF RowTypes, LeftOut, accountVars
  <1> QED
    BY <1>4, <1>5, <1>6, <1>7 DEF RowInv

\* So is a name, and it may be blank.
LEMMA RenameKeeps ==
  ASSUME RowInv, NEW w \in Workers, SaveBusinessName(w)
  PROVE  RowInv'
  <1> DEFINE r == request[w]
             filled == (salon.filled \ r.clear) \cup r.fill
  <1>1. RowTypes /\ r \in Requests /\ salon \in Salons /\ r.step = "rename" /\ UNCHANGED <<accountVars, faults>>
    BY DEF RowInv, RowTypes, SaveBusinessName
  <1>2. CASE Done(w) /\ UNCHANGED profileVars
    <2>1. faults' \in 0..MaxFaults /\ faults' >= faults
      BY <1>1, OnboardingAssumption DEF RowTypes
    <2> QED
      BY <1>1, <1>2, <2>1, DoneKeeps
  <1>3. CASE /\ salon' = [salon EXCEPT !.there = TRUE, !.filled = filled]
             /\ LeftOut(filled, "name") /\ Written(w, filled)
    <2>1. salon' \in Salons /\ salon'.filled = filled /\ salon'.completed = salon.completed
      BY <1>1, <1>3 DEF Salons, Requests
    <2>2. /\ request' \in [Workers -> Requests] /\ CountsRely' /\ request'[w].step = "idle"
          /\ \A u \in Workers : u # w => /\ request'[u].step = request[u].step
                                         /\ request'[u].account = request[u].account
      BY <1>1, <1>3, <2>1, WrittenKeeps DEF RowInv
    <2>3. CompletedExplained'
      BY <1>1, <1>3, <2>1 DEF RowInv, CompletedExplained, LeftOut
    <2>4. AccountsRely' /\ BankDetailsExplained'
      BY <1>1, <2>2 DEF RowInv, AccountsRely, BankDetailsExplained, accountVars
    <2>5. RowTypes'
      BY <1>1, <1>3, <2>1, <2>2 DEF RowTypes, LeftOut, accountVars
    <2> QED
      BY <2>2, <2>3, <2>4, <2>5 DEF RowInv
  <1> QED
    BY <1>2, <1>3 DEF SaveBusinessName

\* Paystack opens an account, whether or not it can say so.
LEMMA OpenKeeps ==
  ASSUME RowInv, NEW w \in Workers, OpenAccount(w)
  PROVE  RowInv'
  <1>1. /\ RowTypes /\ request[w] \in Requests /\ request[w].step = "gateway"
        /\ accounts < MaxAccounts /\ accounts' = accounts + 1 /\ accounts \in Nat /\ accounts' \in 0..MaxAccounts
        /\ UNCHANGED <<profileVars, bank, subaccount, unnoted>>
    BY OnboardingAssumption DEF RowInv, RowTypes, OpenAccount
  <1>2. faults' \in 0..MaxFaults /\ faults' >= faults
    BY <1>1, OnboardingAssumption DEF OpenAccount, Fault, RowTypes
  <1>3. CASE request' = [request EXCEPT ![w].step = "insert", ![w].account = accounts + 1]
    <2> DEFINE r == [request[w] EXCEPT !.step = "insert", !.account = accounts + 1]
    <2>1. r \in Requests /\ r.step = "insert" /\ r.account = accounts + 1
      BY <1>1 DEF Requests
    <2>2. request' = [request EXCEPT ![w] = r]
      BY <1>3
    <2> HIDE DEF r
    <2>3. /\ request' \in [Workers -> Requests] /\ request'[w] = r
          /\ \A u \in Workers : u # w => request'[u] = request[u]
      BY <1>1, <2>1, <2>2, OneRequest
    <2>4. faults > 0 => faults' > 0
      BY <1>1, <1>2, OnboardingAssumption DEF RowTypes
    <2> QED
      BY <1>1, <1>2, <2>1, <2>3, <2>4
      DEF RowInv, RowTypes, CountsRely, CompletedExplained, AccountsRely, BankDetailsExplained, profileVars
  <1>4. CASE Done(w)
    <2>1. /\ request' \in [Workers -> Requests] /\ request'[w].step = "idle"
          /\ \A u \in Workers : u # w => request'[u] = request[u]
      BY <1>1, <1>4, DoneType, NoRequestType
    <2>2. faults > 0 => faults' > 0
      BY <1>1, <1>2, OnboardingAssumption DEF RowTypes
    <2> QED
      BY <1>1, <1>2, <2>1, <2>2
      DEF RowInv, RowTypes, CountsRely, CompletedExplained, AccountsRely, BankDetailsExplained, profileVars
  <1> QED
    BY <1>3, <1>4 DEF OpenAccount

\* The row is made once, and noted from then on.
LEMMA InsertKeepsRow ==
  ASSUME RowInv, NEW w \in Workers, InsertSubaccount(w)
  PROVE  RowInv'
  <1>1. /\ RowTypes /\ request[w] \in Requests /\ request[w].step = "insert" /\ request[w].account # 0
        /\ UNCHANGED <<profileVars, bank, accounts, unnoted, faults>>
    BY DEF RowInv, RowTypes, InsertSubaccount, AccountsRely
  <1>2. CASE subaccount = 0 /\ subaccount' = request[w].account /\ Goto(w, "note")
    <2>1. /\ request' \in [Workers -> Requests] /\ request'[w].step = "note"
          /\ request'[w].account = request[w].account
          /\ \A u \in Workers : u # w => request'[u] = request[u]
      BY <1>1, <1>2, GotoType
    <2>2. subaccount' \in 0..MaxAccounts /\ bank = 0
      BY <1>1, <1>2 DEF RowInv, BankDetailsExplained, Requests
    <2> QED
      BY <1>1, <1>2, <2>1, <2>2
      DEF RowInv, RowTypes, CountsRely, CompletedExplained, AccountsRely, BankDetailsExplained, profileVars
  <1>3. CASE Done(w) /\ UNCHANGED subaccount
    <2>1. faults' \in 0..MaxFaults /\ faults' >= faults
      BY <1>1, OnboardingAssumption DEF RowTypes
    <2> QED
      BY <1>1, <1>3, <2>1, DoneKeeps DEF accountVars
  <1> QED
    BY <1>2, <1>3 DEF InsertSubaccount

LEMMA NoteKeeps ==
  ASSUME RowInv, NEW w \in Workers, UpdateProviderBankDetails(w)
  PROVE  RowInv'
  <1>1. /\ RowTypes /\ request[w] \in Requests /\ request[w].step = "note"
        /\ request[w].account = subaccount /\ subaccount # 0 /\ Done(w)
        /\ UNCHANGED <<profileVars, subaccount, accounts, faults>>
    BY DEF RowInv, RowTypes, UpdateProviderBankDetails, AccountsRely
  <1>2. /\ request' \in [Workers -> Requests] /\ request'[w].step = "idle"
        /\ \A u \in Workers : u # w => request'[u] = request[u]
    BY <1>1, DoneType, NoRequestType
  <1>3. (bank' = subaccount /\ unnoted' = unnoted) \/ (unnoted' = TRUE /\ bank' = bank)
    BY <1>1 DEF UpdateProviderBankDetails
  <1>4. BankDetailsExplained'
    BY <1>1, <1>3 DEF RowInv, BankDetailsExplained
  <1> QED
    BY <1>1, <1>2, <1>3, <1>4
    DEF RowInv, RowTypes, CountsRely, CompletedExplained, AccountsRely, profileVars

LEMMA CrashKeeps ==
  ASSUME RowInv, NEW w \in Workers, CrashRequest(w)
  PROVE  RowInv'
  <1>1. faults' \in 0..MaxFaults /\ faults' > faults /\ faults \in Nat /\ faults' \in Nat
    BY OnboardingAssumption DEF CrashRequest, Fault, RowInv, RowTypes
  <1>2. faults' >= faults /\ faults' > 0
    BY <1>1
  <1> QED
    BY <1>1, <1>2, DoneKeeps DEF CrashRequest

\* The reads of the row.
LEMMA ReadsKeep ==
  ASSUME RowInv, NEW w \in Workers,
         \/ \E fill, clear \in SUBSET Fields : UpdateSalonFields(w, fill, clear)
         \/ \E f \in Pictures : UploadPicture(w, f)
         \/ \E name \in SUBSET {BusinessName} : UpdateUser(w, name)
         \/ CreateSubaccount(w)
  PROVE  RowInv'
  <1>1. RowTypes /\ salon \in Salons
    BY DEF RowInv, RowTypes
  <1>2. ASSUME NEW fill \in SUBSET Fields, NEW clear \in SUBSET Fields, UpdateSalonFields(w, fill, clear)
        PROVE  RowInv'
    <2> DEFINE r == [NoRequest EXCEPT !.step = "save", !.fill = fill, !.clear = clear, !.found = salon.there,
                                      !.completed = (salon.filled \ clear) \cup fill = Fields]
    <2>1. r \in Requests /\ r.step = "save" /\ r.fill = fill /\ r.clear = clear
          /\ (r.completed <=> (salon.filled \ clear) \cup fill = Fields)
      <3>1. salon.there \in BOOLEAN /\ ((salon.filled \ clear) \cup fill = Fields) \in BOOLEAN
        BY <1>1 DEF Salons
      <3> QED
        BY <3>1, NoRequestType DEF Requests
    <2>2. request' = [request EXCEPT ![w] = r] /\ request[w].step = "idle" /\ UNCHANGED <<profileVars, accountVars, faults>>
      BY <1>2 DEF UpdateSalonFields
    <2> HIDE DEF r
    <2> QED
      BY <2>1, <2>2, BeginKeeps
  <1>3. ASSUME NEW f \in Pictures, UploadPicture(w, f) PROVE RowInv'
    <2> DEFINE r == [NoRequest EXCEPT !.step = IF salon.there THEN "upload" ELSE "create", !.fill = {f}]
    <2>1. r \in Requests /\ r.step \in {"upload", "create"}
      <3>1. {f} \in SUBSET Fields
        BY OnboardingAssumption
      <3>2. (IF salon.there THEN "upload" ELSE "create") \in {"upload", "create"}
        OBVIOUS
      <3> QED
        BY <3>1, <3>2, NoRequestType DEF Requests
    <2>2. request' = [request EXCEPT ![w] = r] /\ request[w].step = "idle" /\ UNCHANGED <<profileVars, accountVars, faults>>
      BY <1>3 DEF UploadPicture
    <2> HIDE DEF r
    <2> QED
      BY <2>1, <2>2, BeginKeeps
  <1>4. ASSUME CreateSubaccount(w) PROVE RowInv'
    <2> DEFINE r == [request[w] EXCEPT !.step = "gateway"]
    <2>1. r \in Requests /\ r.step = "gateway"
      BY <1>1 DEF RowTypes, Requests
    <2>2. request' = [request EXCEPT ![w] = r] /\ request[w].step = "idle" /\ UNCHANGED <<profileVars, accountVars, faults>>
      BY <1>4 DEF CreateSubaccount, Goto
    <2> HIDE DEF r
    <2> QED
      BY <2>1, <2>2, BeginKeeps
  <1>5. ASSUME NEW name \in SUBSET {BusinessName}, UpdateUser(w, name) PROVE RowInv'
    <2> DEFINE r == [NoRequest EXCEPT !.step = "rename", !.fill = name, !.clear = {BusinessName} \ name,
                                      !.found = salon.there]
    <2>1. r \in Requests /\ r.step = "rename"
      <3>1. name \in SUBSET Fields /\ {BusinessName} \ name \in SUBSET Fields
        BY OnboardingAssumption
      <3>2. salon.there \in BOOLEAN
        BY <1>1 DEF Salons
      <3> QED
        BY <3>1, <3>2, NoRequestType DEF Requests
    <2>2. request' = [request EXCEPT ![w] = r] /\ request[w].step = "idle" /\ UNCHANGED <<profileVars, accountVars, faults>>
      BY <1>5 DEF UpdateUser
    <2> HIDE DEF r
    <2> QED
      BY <2>1, <2>2, BeginKeeps
  <1> QED
    BY <1>2, <1>3, <1>4, <1>5

-----------------------------------------------------------------------------
(* The nightly job.                                                         *)

JobTypes ==
  /\ reminded \subseteq Kinds /\ age \in 0..2 /\ job \in Jobs
  /\ mails \in [Kinds -> Nat] /\ faults \in Nat

\* The mail that was sent and whose flag is about to be set.
Unflagged(k) == job.step = "flag" /\ First(job.due) = k

JobInv ==
  /\ JobTypes
  /\ job.step # "idle" => job.due \cap reminded = {}
  /\ job.step \in {"mail", "flag"} => job.due # {}
  /\ \A k \in Kinds :
       /\ mails[k] <= faults + (IF k \in reminded \/ Unflagged(k) THEN 1 ELSE 0)
       /\ k \in reminded \/ Unflagged(k) => mails[k] > 0

\* The first thing to do is one of them.
LEMMA FirstOf ==
  ASSUME NEW due \in SUBSET Kinds, due # {}
  PROVE  First(due) \in due
  BY DEF First, Kinds

LEMMA OnwardTo ==
  ASSUME NEW due \in SUBSET Kinds, Onward(due)
  PROVE  /\ job' \in Jobs /\ job'.step \in {"idle", "mail"}
         /\ job'.step # "idle" => job'.due = due /\ due # {}
  BY DEF Onward, Asleep, Jobs

LEMMA RemindedFromInv == JobInv => RemindedOnce
  <1> SUFFICES ASSUME JobInv, NEW k \in Kinds
               PROVE  mails[k] <= 1 + faults /\ (k \in reminded => mails[k] > 0)
    BY DEF RemindedOnce
  <1>1. mails[k] \in Nat /\ faults \in Nat
    BY DEF JobInv, JobTypes
  <1> QED
    BY <1>1 DEF JobInv

LEMMA SendKeeps == JobInv /\ SendMail => JobInv'
  <1> SUFFICES ASSUME JobInv, SendMail PROVE JobInv'
    OBVIOUS
  <1> DEFINE k == First(job.due)
  <1>1. /\ job \in Jobs /\ job.due \in SUBSET Kinds /\ job.step = "mail" /\ job.due # {}
        /\ job.due \cap reminded = {} /\ mails \in [Kinds -> Nat] /\ faults \in Nat
        /\ UNCHANGED <<reminded, age>>
    BY DEF JobInv, JobTypes, Jobs, SendMail
  <1>2. k \in job.due /\ k \in Kinds /\ k \notin reminded
    BY <1>1, FirstOf
  <1>3. \A i \in Kinds : /\ mails[i] \in Nat
                         /\ mails[i] <= faults + (IF i \in reminded THEN 1 ELSE 0)
                         /\ i \in reminded => mails[i] > 0
    BY <1>1 DEF JobInv, JobTypes, Unflagged
  <1>4. CASE mails' = [mails EXCEPT ![k] = @ + 1] /\ job' = [job EXCEPT !.step = "flag"] /\ UNCHANGED faults
    <2>1. job' \in Jobs /\ job'.step = "flag" /\ job'.due = job.due
      BY <1>1, <1>4 DEF Jobs
    <2>2. \A i \in Kinds : Unflagged(i)' <=> i = k
      BY <2>1 DEF Unflagged
    <2> HIDE DEF k
    <2>3. mails' \in [Kinds -> Nat] /\ mails'[k] = mails[k] + 1 /\ \A i \in Kinds : i # k => mails'[i] = mails[i]
      BY <1>1, <1>2, <1>4
    <2>4. ASSUME NEW i \in Kinds
          PROVE  /\ mails'[i] <= faults' + (IF i \in reminded' \/ Unflagged(i)' THEN 1 ELSE 0)
                 /\ i \in reminded' \/ Unflagged(i)' => mails'[i] > 0
      <3>1. CASE i = k
        BY <1>1, <1>2, <1>3, <1>4, <2>2, <2>3, <3>1
      <3>2. CASE i # k
        BY <1>1, <1>3, <1>4, <2>2, <2>3, <3>2
      <3> QED
        BY <3>1, <3>2
    <2> QED
      BY <1>1, <1>4, <2>1, <2>3, <2>4 DEF JobInv, JobTypes
  <1>5. CASE Fault /\ Onward(job.due \ {k}) /\ UNCHANGED mails
    <2> HIDE DEF k
    <2>1. /\ job' \in Jobs /\ job'.step \in {"idle", "mail"}
          /\ job'.step # "idle" => job'.due = job.due \ {k} /\ job'.due # {}
      BY <1>1, <1>5, OnwardTo
    <2>2. faults' = faults + 1
      BY <1>5 DEF Fault
    <2>3. \A i \in Kinds : ~Unflagged(i)'
      BY <2>1 DEF Unflagged
    <2> QED
      BY <1>1, <1>3, <1>5, <2>1, <2>2, <2>3 DEF JobInv, JobTypes
  <1> QED
    BY <1>4, <1>5 DEF SendMail

LEMMA FlagKeeps == JobInv /\ SetFlag => JobInv'
  <1> SUFFICES ASSUME JobInv, SetFlag PROVE JobInv'
    OBVIOUS
  <1> DEFINE k == First(job.due)
  <1>1. /\ job \in Jobs /\ job.due \in SUBSET Kinds /\ job.step = "flag" /\ job.due # {}
        /\ job.due \cap reminded = {} /\ mails \in [Kinds -> Nat] /\ faults \in Nat
        /\ reminded \subseteq Kinds /\ UNCHANGED <<mails, age>> /\ Onward(job.due \ {k})
    BY DEF JobInv, JobTypes, Jobs, SetFlag
  <1>2. k \in job.due /\ k \in Kinds /\ k \notin reminded
    BY <1>1, FirstOf
  <1>3. \A i \in Kinds : /\ mails[i] \in Nat
                         /\ mails[i] <= faults + (IF i \in reminded \/ i = k THEN 1 ELSE 0)
                         /\ i \in reminded \/ i = k => mails[i] > 0
    BY <1>1 DEF JobInv, JobTypes, Unflagged
  <1>4. (reminded' = reminded \cup {k} /\ faults' = faults) \/ (faults' = faults + 1 /\ reminded' = reminded)
    BY DEF SetFlag, Fault
  <1> HIDE DEF k
  <1>5. /\ job' \in Jobs /\ job'.step \in {"idle", "mail"}
        /\ job'.step # "idle" => job'.due = job.due \ {k} /\ job'.due # {}
    BY <1>1, OnwardTo
  <1>6. \A i \in Kinds : ~Unflagged(i)'
    BY <1>5 DEF Unflagged
  <1>7. ASSUME NEW i \in Kinds
        PROVE  /\ mails'[i] <= faults' + (IF i \in reminded' \/ Unflagged(i)' THEN 1 ELSE 0)
               /\ i \in reminded' \/ Unflagged(i)' => mails'[i] > 0
    <2>1. CASE reminded' = reminded \cup {k} /\ faults' = faults
      BY <1>1, <1>3, <1>6, <2>1
    <2>2. CASE faults' = faults + 1 /\ reminded' = reminded
      BY <1>1, <1>3, <1>6, <2>2
    <2> QED
      BY <1>4, <2>1, <2>2
  <1> QED
    BY <1>1, <1>2, <1>4, <1>5, <1>7 DEF JobInv, JobTypes

LEMMA QueryKeeps ==
  ASSUME JobInv, NEW k \in Kinds, Query(k)
  PROVE  JobInv'
  <1> DEFINE unread == job.unread \ {k}
             due == job.due \cup (IF Due(k) THEN {k} ELSE {})
  <1>1. /\ job \in Jobs /\ job.step = "query" /\ job.due \cap reminded = {}
        /\ UNCHANGED <<reminded, age, mails, faults>>
    BY DEF JobInv, JobTypes, Query
  <1>2. due \in SUBSET Kinds /\ due \cap reminded = {}
    BY <1>1 DEF Jobs, Due
  <1>3. (unread = {} /\ Onward(due)) \/ job' = [job EXCEPT !.unread = unread, !.due = due]
    BY DEF Query
  <1>4. job.unread \in SUBSET Kinds
    BY <1>1 DEF Jobs
  <1> HIDE DEF due
  <1>5. /\ job' \in Jobs /\ job'.step \in {"idle", "mail", "query"}
        /\ job'.step # "idle" => job'.due = due
        /\ job'.step = "mail" => job'.due # {}
    <2>1. CASE Onward(due)
      BY <1>2, <2>1, OnwardTo
    <2>2. CASE job' = [job EXCEPT !.unread = unread, !.due = due]
      BY <1>1, <1>2, <1>4, <2>2 DEF Jobs
    <2> QED
      BY <1>3, <2>1, <2>2
  <1>6. \A i \in Kinds : ~Unflagged(i)' /\ ~Unflagged(i)
    BY <1>1, <1>5 DEF Unflagged
  <1> QED
    BY <1>1, <1>2, <1>5, <1>6 DEF JobInv, JobTypes

LEMMA CrashJobKeeps == JobInv /\ CrashJob => JobInv'
  <1> SUFFICES ASSUME JobInv, CrashJob PROVE JobInv'
    OBVIOUS
  <1>1. faults' = faults + 1 /\ job' = Asleep /\ UNCHANGED <<reminded, age, mails>>
    BY DEF CrashJob, Fault
  <1>2. Asleep \in Jobs /\ Asleep.step = "idle"
    BY DEF Asleep, Jobs
  <1>3. faults \in Nat /\ \A k \in Kinds : mails[k] \in Nat
    BY DEF JobInv, JobTypes
  <1>4. \A k \in Kinds : mails[k] <= faults + 1 /\ (k \in reminded => mails[k] > 0)
    BY <1>3 DEF JobInv
  <1>5. \A k \in Kinds : ~Unflagged(k)'
    BY <1>1, <1>2 DEF Unflagged
  <1> QED
    BY <1>1, <1>2, <1>3, <1>4, <1>5 DEF JobInv, JobTypes

LEMMA JobBegins ==
  ASSUME JobInv, \/ StartJob
                 \/ Tick
                 \/ UNCHANGED jobVars /\ faults' >= faults /\ faults' \in Nat
  PROVE  JobInv'
  <1>1. JobTypes /\ \A k \in Kinds : mails[k] \in Nat /\ faults \in Nat
    BY DEF JobInv, JobTypes
  <1>2. CASE StartJob
    <2>1. job = Asleep /\ job' = [step |-> "query", unread |-> Kinds, due |-> {}] /\ UNCHANGED <<reminded, age, mails, faults>>
      BY <1>2 DEF StartJob
    <2>2. job' \in Jobs /\ job'.step = "query" /\ job'.due = {} /\ job.step = "idle"
      BY <2>1 DEF Jobs, Asleep
    <2>3. \A k \in Kinds : ~Unflagged(k)' /\ ~Unflagged(k)
      BY <2>2 DEF Unflagged
    <2> QED
      BY <1>1, <2>1, <2>2, <2>3 DEF JobInv, JobTypes
  <1>3. CASE Tick
    BY <1>1, <1>3 DEF Tick, JobInv, JobTypes, Unflagged
  <1>4. CASE UNCHANGED jobVars /\ faults' >= faults /\ faults' \in Nat
    BY <1>1, <1>4 DEF jobVars, JobInv, JobTypes, Unflagged
  <1> QED
    BY <1>2, <1>3, <1>4

-----------------------------------------------------------------------------
(* Together.                                                                *)

\* A step of the job leaves the row alone.
LEMMA RowUnmoved ==
  ASSUME RowInv, UNCHANGED <<profileVars, accountVars, request>>,
         faults' \in 0..MaxFaults, faults' >= faults
  PROVE  RowInv'
  <1>1. faults \in Nat /\ faults' \in Nat /\ (faults > 0 => faults' > 0)
    BY OnboardingAssumption DEF RowInv, RowTypes
  <1> QED
    BY <1>1 DEF RowInv, RowTypes, CountsRely, CompletedExplained, AccountsRely, BankDetailsExplained,
                profileVars, accountVars

\* Faults are counted.
LEMMA FaultsCounted ==
  ASSUME RowInv, UNCHANGED faults \/ Fault
  PROVE  faults' \in 0..MaxFaults /\ faults' >= faults /\ faults' \in Nat
  BY OnboardingAssumption DEF RowInv, RowTypes, Fault

LEMMA OnboardStep == RowInv /\ JobInv /\ OnboardNext => RowInv' /\ JobInv'
  <1> SUFFICES ASSUME RowInv, JobInv, OnboardNext PROVE RowInv' /\ JobInv'
    OBVIOUS
  <1>1. ASSUME NEW w \in Workers,
               \/ \E fill, clear \in SUBSET Fields : UpdateSalonFields(w, fill, clear)
               \/ \E f \in Pictures : UploadPicture(w, f)
               \/ \E name \in SUBSET {BusinessName} : UpdateUser(w, name)
               \/ CreateSubaccount(w)
        PROVE  RowInv' /\ JobInv'
    <2>1. UNCHANGED <<jobVars, faults>>
      BY <1>1 DEF UpdateSalonFields, UploadPicture, UpdateUser, CreateSubaccount
    <2> QED
      BY <1>1, <2>1, ReadsKeep, JobBegins, FaultsCounted
  <1>2. ASSUME NEW w \in Workers,
               \/ SaveSalon(w) \/ CreateSalon(w) \/ SetPicture(w) \/ SaveBusinessName(w)
               \/ InsertSubaccount(w) \/ UpdateProviderBankDetails(w)
        PROVE  RowInv' /\ JobInv'
    <2>1. UNCHANGED <<jobVars, faults>>
      BY <1>2 DEF SaveSalon, CreateSalon, SetPicture, SaveBusinessName, InsertSubaccount, UpdateProviderBankDetails
    <2> QED
      BY <1>2, <2>1, SaveKeeps, CreateKeepsRow, PictureKeeps, RenameKeeps, InsertKeepsRow, NoteKeeps, JobBegins, FaultsCounted
  <1>3. ASSUME NEW w \in Workers, OpenAccount(w) \/ CrashRequest(w)
        PROVE  RowInv' /\ JobInv'
    <2>1. UNCHANGED jobVars /\ (UNCHANGED faults \/ Fault)
      BY <1>3 DEF OpenAccount, CrashRequest
    <2> QED
      BY <1>3, <2>1, OpenKeeps, CrashKeeps, JobBegins, FaultsCounted
  <1>4. CASE Nightly \/ CrashJob \/ Tick
    <2>1. UNCHANGED <<profileVars, accountVars, request>> /\ (UNCHANGED faults \/ Fault)
      BY <1>4 DEF Nightly, StartJob, Query, SendMail, SetFlag, CrashJob, Tick
    <2>2. RowInv'
      BY <2>1, RowUnmoved, FaultsCounted
    <2>3. JobInv'
      BY <1>4, JobBegins, QueryKeeps, SendKeeps, FlagKeeps, CrashJobKeeps DEF Nightly
    <2> QED
      BY <2>2, <2>3
  <1> QED
    BY <1>1, <1>2, <1>3, <1>4 DEF OnboardNext

LEMMA OnboardInitInv ==
  ASSUME NEW there \in SUBSET BOOLEAN, OnboardInit(there)
  PROVE  RowInv /\ JobInv
  <1>1. salon \in Salons /\ salon.filled \subseteq {BusinessName} /\ salon.completed = FALSE
    BY OnboardingAssumption DEF OnboardInit, Salons
  <1>2. \A w \in Workers : request[w] = NoRequest
    BY DEF OnboardInit
  <1>3. request \in [Workers -> Requests]
    BY NoRequestType DEF OnboardInit
  <1>4. /\ bank = 0 /\ subaccount = 0 /\ accounts = 0 /\ faults = 0 /\ uncounted = {} /\ unnoted = FALSE
        /\ reminded = {} /\ age = 0 /\ job = Asleep /\ mails = [k \in Kinds |-> 0]
    BY DEF OnboardInit
  <1>5. RowTypes
    <2>1. 0 \in 0..MaxAccounts /\ 0 \in 0..MaxFaults
      BY OnboardingAssumption
    <2> QED
      BY <1>1, <1>3, <1>4, <2>1 DEF RowTypes
  <1>6. CountsRely /\ AccountsRely /\ BankDetailsExplained
    BY <1>2, <1>4, NoRequestType DEF CountsRely, AccountsRely, BankDetailsExplained
  <1>7. CompletedExplained
    <2>1. salon.filled # Fields
      BY <1>1, OnboardingAssumption
    <2> QED
      BY <1>1, <2>1 DEF CompletedExplained
  <1>8. Asleep \in Jobs /\ Asleep.step = "idle"
    BY DEF Asleep, Jobs
  <1>9. JobInv
    BY <1>4, <1>8 DEF JobInv, JobTypes, Unflagged
  <1> QED
    BY <1>5, <1>6, <1>7, <1>9 DEF RowInv

LEMMA OnboardInvHolds == Spec => [](RowInv /\ JobInv)
  <1>1. Init => RowInv /\ JobInv
    BY OnboardInitInv DEF Init
  <1>2. RowInv /\ JobInv /\ [Next]_vars => (RowInv /\ JobInv)'
    <2> SUFFICES ASSUME RowInv, JobInv, [Next]_vars PROVE RowInv' /\ JobInv'
      OBVIOUS
    <2>1. CASE UNCHANGED onboardVars
      <3>1. UNCHANGED <<profileVars, accountVars, request, jobVars, faults>>
        BY <2>1 DEF onboardVars
      <3> QED
        BY <3>1, RowUnmoved, JobBegins, FaultsCounted
    <2> QED
      BY <2>1, OnboardStep, Halves
  <1> QED
    BY <1>1, <1>2, PTL DEF Spec

\* The variables have the types the code gives them.
THEOREM TypeCorrect == Spec => []TypeOK
  <1>1. KeepInv /\ RowInv /\ JobInv => TypeOK
    BY DEF KeepInv, RowInv, RowTypes, JobInv, JobTypes, TypeOK
  <1> QED
    BY <1>1, KeepInvHolds, OnboardInvHolds, PTL

\* profileCompleted tells whether the fields are filled, but for the uploads and
\* the new names, which are not counted, and the requests that crossed; no upload
\* leaves a salon complete by its flag alone.
THEOREM CompletedIsExplained == Spec => []CompletedExplained
  <1>1. RowInv => CompletedExplained
    BY DEF RowInv
  <1> QED
    BY <1>1, OnboardInvHolds, PTL

\* The bank details on a profile are those of the subaccount that is paid.
THEOREM BankDetailsAreExplained == Spec => []BankDetailsExplained
  <1>1. RowInv => BankDetailsExplained
    BY DEF RowInv
  <1> QED
    BY <1>1, OnboardInvHolds, PTL

\* A salon gets each reminder once, and once more only after a fault.
THEOREM RemindersAreSentOnce == Spec => []RemindedOnce
  BY RemindedFromInv, OnboardInvHolds, PTL
=============================================================================
