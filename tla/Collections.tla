---------------------------- MODULE Collections -----------------------------
(***************************************************************************)
(* What customers, stylists and salons collect: saved addresses, services, *)
(* pictures, portfolio items, prices and opening times, favourites.        *)
(*                                                                         *)
(* All but the favourites are one JSON (or array) column of a row: a call  *)
(* reads the whole list, changes its copy, and writes the whole list back, *)
(* in two statements with nothing to hold them together.  The favourites   *)
(* are rows of a table with a unique index, inserted and deleted one by    *)
(* one.  The lists share no state: a behaviour is about one of them, or    *)
(* about what Onboarding adds: the other columns of a salon's row, and its *)
(* account.                                                                *)
(*                                                                         *)
(* An entry is numbered when it is made.  Entries are only ever put at the *)
(* end of a list, so their numbers give the order of the array.            *)
(***************************************************************************)
EXTENDS Naturals, FiniteSets

CONSTANTS
  Things,            \* what an entry is of: an address, a service, a provider
  Picture,           \* the portfolio category 'profile'
  Workers,           \* calls that may be in flight at the same time
  MaxSavedAddresses, \* MAX_SAVED_ADDRESSES
  MaxEntries         \* bound: entries ever made

ASSUME CollectionsAssumption ==
  /\ Picture \in Things
  /\ MaxSavedAddresses \in Nat \ {0}
  /\ MaxEntries \in Nat

VARIABLES
  what,     \* which list the behaviour is about
  list,     \* its entries
  made,     \* how many entries were made
  call,     \* what each worker is doing
  answer,   \* the last answer about a favourite
  wanted,   \* what the calls that were carried out asked for, in their order
  crossed   \* entries that a call changed while another held an older copy

keepVars == <<what, list, made, call, answer, wanted, crossed>>

Lists == {"addresses", "services", "gallery", "portfolio", "prices", "favourites"}
\* neat: FALSE for an address that was sent with blanks around its city or state,
\* which are cut off when it is stored.
Entry == [id : 1..MaxEntries, of : Things, neat : BOOLEAN]
Topics == Lists \cup {"profile", "account"}
FavouriteOps == {"add", "remove", "toggle"}

\* A call between its read and its write: the list it is going to write; the
\* entries it was asked to take out and to put in; what was changed since.
Calls == [step : {"idle", "write", "create", "delete"}, op : FavouriteOps \cup {"list"},
          put : SUBSET Entry, out : SUBSET Entry, in : SUBSET Entry, missed : SUBSET Entry]
Idle == [step |-> "idle", op |-> "list", put |-> {}, out |-> {}, in |-> {}, missed |-> {}]

KeepInit(topics) ==
  /\ what \in topics
  /\ list = {} /\ made = 0
  /\ call = [w \in Workers |-> Idle]
  /\ answer = {} /\ wanted = {} /\ crossed = {}

Fresh(t) == [id |-> made + 1, of |-> t, neat |-> TRUE]
Of(t) == {e \in list : e.of = t}
Numbered(id) == {e \in list : e.id = id}

\* The read of a call, and what it makes of it.
Change(w, put, out, in) ==
  /\ call[w].step = "idle"
  /\ made < MaxEntries
  /\ call' = [call EXCEPT ![w] = [step |-> "write", op |-> "list", put |-> put,
                                  out |-> out, in |-> in, missed |-> {}]]
  /\ made' = IF in = {} THEN made ELSE made + 1
  /\ UNCHANGED <<what, list, answer, wanted, crossed>>

Append(w, t) == Change(w, list \cup {Fresh(t)}, {}, {Fresh(t)})
Replace(w, t) == Change(w, (list \ Of(t)) \cup {Fresh(t)}, Of(t), {Fresh(t)})
\* Written over with a list of at most one entry: a bound on the input.
Overwrite(w, T) ==
  Cardinality(T) <= 1 /\ Change(w, {Fresh(t) : t \in T}, list, {Fresh(t) : t \in T})

-----------------------------------------------------------------------------
\* UsersService.
Oldest(l) == {e \in l : \A f \in l : e.id <= f.id}

\* Mutant: room is made for an address too late.
ShiftAtLimit(l) == IF Cardinality(l) > MaxSavedAddresses THEN l \ Oldest(l) ELSE l

\* Ten addresses are kept: the oldest makes room for an eleventh.
Shift(l) == IF Cardinality(l) >= MaxSavedAddresses THEN l \ Oldest(l) ELSE l

\* An address that is saved already is not saved again, unless it is sent with
\* blanks: what is stored, without them, is compared with what was sent.
SaveAddress(w, t, neat) ==
  LET new == [Fresh(t) EXCEPT !.neat = neat]
  IN /\ what = "addresses"
     /\ neat => Of(t) = {}
     /\ Change(w, Shift(list) \cup {new}, list \ Shift(list), {new})

DeleteAddress(w, id) ==
  /\ what = "addresses"
  /\ Change(w, list \ Numbered(id), Numbered(id), {})

-----------------------------------------------------------------------------
\* The services of a salon (QrCheckinService) and its gallery (UploadsService).
AddService(w, t) == what = "services" /\ Append(w, t)

\* updateService: a service keeps its id; one that is not there is refused.
UpdateService(w, id, t) ==
  /\ what = "services"
  /\ \E e \in Numbered(id) :
       /\ e.of # t
       /\ Change(w, (list \ {e}) \cup {[e EXCEPT !.of = t]}, {e}, {[e EXCEPT !.of = t]})

\* Mutant: splice(-1, 1) for a service that is not there takes out the last.
DeleteServiceOrLast(w, id) ==
  /\ what = "services"
  /\ Change(w, IF Numbered(id) = {} THEN {e \in list : \E f \in list : f.id > e.id}
                                    ELSE list \ Numbered(id), Numbered(id), {})

DeleteService(w, id) ==
  /\ what = "services"
  /\ Numbered(id) # {}
  /\ Change(w, list \ Numbered(id), Numbered(id), {})

UploadSalonGallery(w, t) == what = "gallery" /\ Append(w, t)

\* updateSalonDetails writes `services' and `business_gallery' over; pictures
\* sent as `businessGallery' are put behind the ones it read.
UpdateSalonLists(w, T) ==
  \/ what \in {"services", "gallery"} /\ Overwrite(w, T)
  \/ what = "gallery" /\ \E t \in T : Append(w, t)

-----------------------------------------------------------------------------
\* The portfolio, prices and opening times of a stylist (ProvidersService).

\* updateStylistBasics: a new profile picture takes the place of the old one.
UpdateStylistBasics(w) == what = "portfolio" /\ Replace(w, Picture)

\* addStylistPortfolioItem, under any category.
AddStylistPortfolioItem(w, t) == what = "portfolio" /\ Append(w, t)

UpdateStylistProfile(w, T) == what \in {"portfolio", "prices"} /\ Overwrite(w, T)

\* updateStylistPricing and updateStylistAvailability: { ...current, ...dto }.
UpdateStylistPricing(w, t) == what = "prices" /\ Replace(w, t)

-----------------------------------------------------------------------------
\* The write of a call on a list: the whole column, from its copy.
WriteBack(w) ==
  LET c == call[w]
      changed == (list \ c.put) \cup (c.put \ list)
  IN /\ c.step = "write"
     /\ list' = c.put
     /\ wanted' = (wanted \ c.out) \cup c.in
     /\ crossed' = crossed \cup c.missed
     /\ call' = [u \in Workers |->
                   IF u = w THEN Idle
                   ELSE IF call[u].step = "write"
                     THEN [call[u] EXCEPT !.missed = @ \cup changed]
                     ELSE call[u]]
     /\ UNCHANGED <<what, made, answer>>

-----------------------------------------------------------------------------
\* FavouritesService.  The answer names the call and tells whether the
\* provider was a favourite before, and whether it is one now.
Answer(op, t, before, after) == answer' = {<<op, t, before, after>>}

\* Every call looks for the row first.  What it does not have to insert or to
\* delete it answers at once.
FindFavourite(w, op, t) ==
  /\ what = "favourites"
  /\ call[w].step = "idle"
  /\ made < MaxEntries
  /\ CASE op = "add" /\ Of(t) # {}    -> Answer(op, t, TRUE, TRUE) /\ UNCHANGED <<call, made>>
       [] op = "remove" /\ Of(t) = {} -> Answer(op, t, FALSE, FALSE) /\ UNCHANGED <<call, made>>
       [] op # "remove" /\ Of(t) = {} ->
            /\ call' = [call EXCEPT ![w] = [Idle EXCEPT !.step = "create", !.op = op, !.in = {Fresh(t)}]]
            /\ made' = made + 1 /\ UNCHANGED answer
       [] OTHER ->
            /\ call' = [call EXCEPT ![w] = [Idle EXCEPT !.step = "delete", !.op = op, !.out = Of(t)]]
            /\ UNCHANGED <<answer, made>>
  /\ UNCHANGED <<what, list, wanted, crossed>>

Return(w) == call' = [call EXCEPT ![w] = Idle]

\* Mutant: no unique index.
InsertFavourite(w) ==
  /\ call[w].step = "create"
  /\ Return(w)
  /\ list' = list \cup call[w].in
  /\ \A e \in call[w].in : Answer(call[w].op, e.of, FALSE, TRUE)
  /\ UNCHANGED <<what, made, wanted, crossed>>

\* The unique index refuses a second row: the call throws.
CreateFavourite(w) ==
  /\ call[w].step = "create"
  /\ Return(w)
  /\ \A e \in call[w].in :
       IF Of(e.of) = {}
         THEN list' = list \cup {e} /\ Answer(call[w].op, e.of, FALSE, TRUE)
         ELSE UNCHANGED <<list, answer>>
  /\ UNCHANGED <<what, made, wanted, crossed>>

\* The row is deleted by its id: if it is gone by now, the call throws, also
\* when the provider is a favourite again, under another row.
DeleteFavourite(w) ==
  /\ call[w].step = "delete"
  /\ Return(w)
  /\ \A e \in call[w].out :
       IF e \in list
         THEN list' = list \ {e} /\ Answer(call[w].op, e.of, TRUE, FALSE)
         ELSE UNCHANGED <<list, answer>>
  /\ UNCHANGED <<what, made, wanted, crossed>>

\* createBookingForCustomer makes the provider a favourite of the customer, in
\* one statement, which counts as an answered call.
UpsertFavourite(t) ==
  /\ what = "favourites"
  /\ made < MaxEntries
  /\ Of(t) = {}
  /\ list' = list \cup {Fresh(t)}
  /\ made' = made + 1
  /\ Answer("add", t, FALSE, TRUE)
  /\ UNCHANGED <<what, call, wanted, crossed>>

-----------------------------------------------------------------------------
KeepNext ==
  \/ \E w \in Workers :
       \/ \E t \in Things :
            \/ \E neat \in BOOLEAN : SaveAddress(w, t, neat)
            \/ AddService(w, t) \/ UploadSalonGallery(w, t)
            \/ AddStylistPortfolioItem(w, t) \/ UpdateStylistPricing(w, t)
            \/ \E op \in FavouriteOps : FindFavourite(w, op, t)
       \/ \E id \in 1..made :
            \/ DeleteAddress(w, id) \/ DeleteService(w, id)
            \/ \E t \in Things : UpdateService(w, id, t)
       \/ \E T \in SUBSET Things : UpdateSalonLists(w, T) \/ UpdateStylistProfile(w, T)
       \/ UpdateStylistBasics(w)
       \/ WriteBack(w) \/ CreateFavourite(w) \/ DeleteFavourite(w)
  \/ \E t \in Things : UpsertFavourite(t)

-----------------------------------------------------------------------------
\* The variables have the types the code gives them.
KeepTypeOK ==
  /\ what \in Topics
  /\ made \in 0..MaxEntries
  /\ list \in SUBSET Entry /\ wanted \in SUBSET Entry /\ crossed \in SUBSET Entry
  /\ call \in [Workers -> Calls]
  /\ answer \subseteq FavouriteOps \X Things \X BOOLEAN \X BOOLEAN

\* A list holds what the calls on it asked for, one after the other: an entry
\* that is missing, or is back, was changed while another call held an older
\* copy of the list and wrote it back later (addService, saveAddress,
\* uploadSalonGallery, addStylistPortfolioItem, updateStylistPricing).
LossExplained ==
  what # "favourites" => \A e \in Entry \ crossed : e \in list <=> e \in wanted

\* Whatever calls race, no more than MAX_SAVED_ADDRESSES addresses are kept, and
\* an address is kept again only if it was sent with blanks around its city or
\* state (saveAddress): each write is a whole list that was as it should be.
AddressesKept ==
  what = "addresses" =>
    /\ Cardinality(list) <= MaxSavedAddresses
    /\ \A d, e \in list : d.of = e.of /\ d.id <= e.id => d = e \/ ~e.neat

\* The favourites implement FavouriteSet: each answer of addFavourite,
\* removeFavourite and toggleFavourite is true at the moment it takes effect,
\* although each looks first and writes later.
Favourites == INSTANCE FavouriteSet
  WITH Things <- Things,
       favs <- IF what = "favourites" THEN {e.of : e \in list} ELSE {},
       answer <- answer
FavouritesAtomic == Favourites!Spec
=============================================================================
