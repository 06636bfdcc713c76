----------------------------- MODULE Onboarding -----------------------------
(***************************************************************************)
(* How a salon becomes complete: ProvidersService.updateSalonDetails,      *)
(* UploadsService and AuthService.updateUser fill the fields of its row,   *)
(* the nightly job of SalonOnboardingReminderService writes to the ones    *)
(* that are not done after two and after four days, and                    *)
(* PaymentsService.createSubaccount gives it an account to be paid on.     *)
(* One salon.                                                              *)
(*                                                                         *)
(* The lists of the same row are Collections' business, which this module  *)
(* extends to a specification of all that is kept about somebody: what a   *)
(* behaviour is about is chosen at the start.                              *)
(***************************************************************************)
EXTENDS Collections

CONSTANTS
  Fields,       \* SALON_PROFILE_REQUIRED_FIELDS
  Pictures,     \* those of them that uploads set: the logo and the banner
  BusinessName, \* the one that updateUser sets
  MaxSent,      \* bound: fields that one request sends
  MaxAccounts,  \* bound: subaccounts Paystack ever opens
  MaxFaults     \* bound: calls that fail and crashes

ASSUME OnboardingAssumption ==
  /\ Pictures \subseteq Fields /\ Pictures # {} /\ BusinessName \in Fields \ Pictures
  /\ MaxSent \in Nat /\ MaxAccounts \in Nat /\ MaxFaults \in Nat

VARIABLES
  salon,      \* the row: whether it is there, its filled fields, profileCompleted
  bank,       \* its bankDetails, by the number of the subaccount; 0 for none
  subaccount, \* the row of Subaccount, likewise
  accounts,   \* Paystack: subaccounts it has opened
  reminded,   \* reminder_48h_sent and reminder_96h_sent
  age,        \* of the row: 0, or 1 after 48 hours, 2 after 96 hours
  request,    \* what each worker is doing
  job,        \* what the nightly job is doing
  mails,      \* how many reminders of each kind were sent
  faults,     \* things that went wrong so far
  uncounted,  \* what made profileCompleted wrong, if it is
  unnoted     \* a subaccount was made when there was no row to note it on

profileVars == <<salon, uncounted>>
accountVars == <<bank, subaccount, accounts, unnoted>>
jobVars == <<reminded, age, job, mails>>
onboardVars == <<profileVars, accountVars, jobVars, request, faults>>

Kinds == {"48h", "96h"}
DueAt(k) == IF k = "48h" THEN 1 ELSE 2

Salons == [there : BOOLEAN, filled : SUBSET Fields, completed : BOOLEAN]
Requests ==
  [step : {"idle", "save", "rename", "create", "upload", "gateway", "insert", "note"},
   fill : SUBSET Fields, clear : SUBSET Fields, found : BOOLEAN, completed : BOOLEAN,
   missed : BOOLEAN, account : 0..MaxAccounts]
NoRequest == [step |-> "idle", fill |-> {}, clear |-> {}, found |-> FALSE, completed |-> FALSE,
         missed |-> FALSE, account |-> 0]
Jobs == [step : {"idle", "query", "mail", "flag"}, unread : SUBSET Kinds, due : SUBSET Kinds]
Asleep == [step |-> "idle", unread |-> {}, due |-> {}]

\* A row that sign-up or the salon's QR code made may have its name.
OnboardInit(there) ==
  /\ salon \in [there : there, filled : SUBSET {BusinessName}, completed : {FALSE}]
  /\ salon.there \/ salon.filled = {}
  /\ bank = 0 /\ subaccount = 0 /\ accounts = 0
  /\ reminded = {} /\ age = 0
  /\ request = [w \in Workers |-> NoRequest]
  /\ job = Asleep
  /\ mails = [k \in Kinds |-> 0]
  /\ faults = 0
  /\ uncounted = {} /\ unnoted = FALSE

Goto(w, step) == request' = [request EXCEPT ![w].step = step]
Done(w) == request' = [request EXCEPT ![w] = NoRequest]
Fault == faults < MaxFaults /\ faults' = faults + 1

-----------------------------------------------------------------------------
\* The fields of the row are written by w, if it is not refused: whoever holds
\* an older copy of them has missed it.
Written(w, filled) ==
  request' = [u \in Workers |->
                IF u = w THEN NoRequest
                ELSE IF request[u].step = "save" /\ filled # salon.filled
                  THEN [request[u] EXCEPT !.missed = TRUE]
                  ELSE request[u]]

\* The fields are changed, and profileCompleted is not counted again.
LeftOut(filled, how) ==
  uncounted' = IF salon.completed <=> filled = Fields THEN {}
               ELSE IF salon.completed <=> salon.filled = Fields THEN {how}
               ELSE uncounted

\* Mutant: what was read is not part of the count.
UpdateSalonFieldsAlone(w, fill, clear) ==
  /\ what = "profile"
  /\ request[w].step = "idle"
  /\ fill \cap clear = {} /\ Cardinality(fill \cup clear) <= MaxSent
  /\ request' = [request EXCEPT ![w] =
                   [NoRequest EXCEPT !.step = "save", !.fill = fill, !.clear = clear,
                                !.found = salon.there, !.completed = fill = Fields]]
  /\ UNCHANGED <<profileVars, accountVars, jobVars, faults>>

\* updateSalonDetails reads the row, and counts the fields of its copy.
UpdateSalonFields(w, fill, clear) ==
  LET merged == (salon.filled \ clear) \cup fill
  IN /\ what = "profile"
     /\ request[w].step = "idle"
     /\ fill \cap clear = {} /\ Cardinality(fill \cup clear) <= MaxSent
     /\ request' = [request EXCEPT ![w] =
                      [NoRequest EXCEPT !.step = "save", !.fill = fill, !.clear = clear,
                                   !.found = salon.there, !.completed = merged = Fields]]
     /\ UNCHANGED <<profileVars, accountVars, jobVars, faults>>

\* The fields it was given are written, with the count.  If it found no row it
\* makes one, which the unique index on userId refuses to a second call.
SaveSalon(w) ==
  LET r == request[w]
      filled == (salon.filled \ r.clear) \cup r.fill
  IN /\ r.step = "save"
     /\ IF ~r.found /\ salon.there
          THEN Done(w) /\ UNCHANGED profileVars
          ELSE /\ salon' = [there |-> TRUE, filled |-> filled, completed |-> r.completed]
               /\ uncounted' = IF r.missed /\ ~(r.completed <=> filled = Fields)
                                THEN {"crossed"} ELSE {}
               /\ Written(w, filled)
     /\ UNCHANGED <<accountVars, jobVars, faults>>

\* uploadSalonLogo, uploadSalonBanner: getSalonOrThrow makes a row if it finds
\* none ...
UploadPicture(w, f) ==
  /\ request[w].step = "idle"
  /\ request' = [request EXCEPT ![w] =
                   [NoRequest EXCEPT !.step = IF salon.there THEN "upload" ELSE "create", !.fill = {f}]]
  /\ UNCHANGED <<profileVars, accountVars, jobVars, faults>>

CreateSalon(w) ==
  /\ request[w].step = "create"
  /\ IF salon.there
       THEN Done(w) /\ UNCHANGED salon
       ELSE Goto(w, "upload") /\ salon' = [salon EXCEPT !.there = TRUE]
  /\ UNCHANGED <<uncounted, accountVars, jobVars, faults>>

\* ... and the picture is set.  profileCompleted is not counted again.
SetPicture(w) ==
  LET filled == salon.filled \cup request[w].fill
  IN /\ request[w].step = "upload"
     /\ salon' = [salon EXCEPT !.filled = filled]
     /\ LeftOut(filled, "upload")
     /\ Written(w, filled)
     /\ UNCHANGED <<accountVars, jobVars, faults>>

\* updateUser looks for the row ...
UpdateUser(w, name) ==
  /\ request[w].step = "idle"
  /\ request' = [request EXCEPT ![w] =
                   [NoRequest EXCEPT !.step = "rename", !.fill = name,
                                !.clear = {BusinessName} \ name, !.found = salon.there]]
  /\ UNCHANGED <<profileVars, accountVars, jobVars, faults>>

\* ... and writes the name, which may be blank, or makes a row with it.
\* profileCompleted is not counted again.
SaveBusinessName(w) ==
  LET r == request[w]
      filled == (salon.filled \ r.clear) \cup r.fill
  IN /\ r.step = "rename"
     /\ IF ~r.found /\ salon.there
          THEN Done(w) /\ UNCHANGED profileVars
          ELSE /\ salon' = [salon EXCEPT !.there = TRUE, !.filled = filled]
               /\ LeftOut(filled, "name")
               /\ Written(w, filled)
     /\ UNCHANGED <<accountVars, jobVars, faults>>

-----------------------------------------------------------------------------
\* createSubaccount: one that is there is refused; Paystack opens the account;
\* the row is made, which the unique index on userId refuses to a second call;
\* the profile, if there is one, notes it.
CreateSubaccount(w) ==
  /\ what = "account"
  /\ request[w].step = "idle"
  /\ subaccount = 0
  /\ Goto(w, "gateway")
  /\ UNCHANGED <<profileVars, accountVars, jobVars, faults>>

\* External: Paystack's answer may be lost.
OpenAccount(w) ==
  /\ request[w].step = "gateway"
  /\ accounts < MaxAccounts
  /\ accounts' = accounts + 1
  /\ \/ /\ request' = [request EXCEPT ![w].step = "insert", ![w].account = accounts + 1]
        /\ UNCHANGED faults
     \/ Fault /\ Done(w)
  /\ UNCHANGED <<profileVars, bank, subaccount, unnoted, jobVars>>

\* Mutant: the row is written over.
UpsertSubaccount(w) ==
  /\ request[w].step = "insert"
  /\ subaccount' = request[w].account /\ Goto(w, "note")
  /\ UNCHANGED <<profileVars, bank, accounts, unnoted, jobVars, faults>>

InsertSubaccount(w) ==
  /\ request[w].step = "insert"
  /\ IF subaccount = 0
       THEN subaccount' = request[w].account /\ Goto(w, "note")
       ELSE Done(w) /\ UNCHANGED subaccount
  /\ UNCHANGED <<profileVars, bank, accounts, unnoted, jobVars, faults>>

UpdateProviderBankDetails(w) ==
  /\ request[w].step = "note"
  /\ Done(w)
  /\ IF salon.there
       THEN bank' = request[w].account /\ UNCHANGED unnoted
       ELSE unnoted' = TRUE /\ UNCHANGED bank
  /\ UNCHANGED <<profileVars, subaccount, accounts, jobVars, faults>>

\* The process stops in the middle of a request, or a statement of it throws.
CrashRequest(w) ==
  /\ request[w].step # "idle"
  /\ Fault
  /\ Done(w)
  /\ UNCHANGED <<profileVars, accountVars, jobVars>>

-----------------------------------------------------------------------------
\* handleSalonOnboardingReminders: both batches are queried, each in a
\* statement of its own, in no fixed order.
StartJob ==
  /\ what = "profile"
  /\ job = Asleep
  /\ salon.there
  /\ job' = [step |-> "query", unread |-> Kinds, due |-> {}]
  /\ UNCHANGED <<profileVars, accountVars, reminded, age, mails, request, faults>>

\* Mutant: the batches are sent whatever the flags say.
DueAgain(k) == ~salon.completed /\ age >= DueAt(k)

Due(k) == ~salon.completed /\ age >= DueAt(k) /\ k \notin reminded

\* Whoever is done goes on with the next thing.
Onward(due) == job' = IF due = {} THEN Asleep ELSE [step |-> "mail", unread |-> {}, due |-> due]

Query(k) ==
  LET unread == job.unread \ {k}
      due == job.due \cup (IF Due(k) THEN {k} ELSE {})
  IN /\ job.step = "query"
     /\ k \in job.unread
     /\ IF unread = {} THEN Onward(due)
                       ELSE job' = [job EXCEPT !.unread = unread, !.due = due]
     /\ UNCHANGED <<profileVars, accountVars, reminded, age, mails, request, faults>>

\* The 48 hour batch goes first.  A mail that fails is logged and left.
First(due) == IF "48h" \in due THEN "48h" ELSE "96h"

SendMail ==
  LET k == First(job.due)
  IN /\ job.step = "mail"
     /\ \/ /\ mails' = [mails EXCEPT ![k] = @ + 1]
           /\ job' = [job EXCEPT !.step = "flag"]
           /\ UNCHANGED faults
        \/ Fault /\ Onward(job.due \ {k}) /\ UNCHANGED mails
     /\ UNCHANGED <<profileVars, accountVars, reminded, age, request>>

\* Mutant: both flags are set after either mail.
SetBothFlags ==
  /\ job.step = "flag"
  /\ reminded' = reminded \cup Kinds
  /\ Onward(job.due \ {First(job.due)})
  /\ UNCHANGED <<profileVars, accountVars, age, mails, request, faults>>

\* The flag is set after its mail, if that statement does not fail.
SetFlag ==
  /\ job.step = "flag"
  /\ Onward(job.due \ {First(job.due)})
  /\ \/ reminded' = reminded \cup {First(job.due)} /\ UNCHANGED faults
     \/ Fault /\ UNCHANGED reminded
  /\ UNCHANGED <<profileVars, accountVars, age, mails, request>>

\* The process stops in the middle of the job.
CrashJob ==
  /\ job.step # "idle"
  /\ Fault
  /\ job' = Asleep
  /\ UNCHANGED <<profileVars, accountVars, reminded, age, mails, request>>

\* Two days pass; a night's job is done by then.
Tick ==
  /\ what = "profile"
  /\ salon.there /\ age < 2 /\ job = Asleep
  /\ age' = age + 1
  /\ UNCHANGED <<profileVars, accountVars, reminded, job, mails, request, faults>>

-----------------------------------------------------------------------------
Nightly == StartJob \/ (\E k \in Kinds : Query(k)) \/ SendMail \/ SetFlag

OnboardNext ==
  \/ \E w \in Workers :
       \/ \E fill, clear \in SUBSET Fields : UpdateSalonFields(w, fill, clear)
       \/ SaveSalon(w)
       \/ \E f \in Pictures : UploadPicture(w, f)
       \/ CreateSalon(w) \/ SetPicture(w)
       \/ \E name \in SUBSET {BusinessName} : UpdateUser(w, name)
       \/ SaveBusinessName(w)
       \/ CreateSubaccount(w) \/ OpenAccount(w) \/ InsertSubaccount(w)
       \/ UpdateProviderBankDetails(w) \/ CrashRequest(w)
  \/ Nightly \/ CrashJob \/ Tick

Init ==
  \/ KeepInit(Lists) /\ OnboardInit({FALSE})
  \/ KeepInit({"profile", "account"}) /\ OnboardInit(BOOLEAN)

Next ==
  \/ KeepNext /\ UNCHANGED onboardVars
  \/ what \in {"profile", "account"} /\ OnboardNext /\ UNCHANGED keepVars

vars == <<keepVars, onboardVars>>

\* The scheduler starts the job every night and what it awaits comes back, and
\* the days go by however often the job runs.
Spec == Init /\ [][Next]_vars /\ WF_vars(Nightly /\ UNCHANGED keepVars) /\ SF_vars(Tick /\ UNCHANGED keepVars)

-----------------------------------------------------------------------------
\* The variables have the types the code gives them.
TypeOK ==
  /\ KeepTypeOK
  /\ salon \in Salons
  /\ bank \in 0..MaxAccounts /\ subaccount \in 0..MaxAccounts /\ accounts \in 0..MaxAccounts
  /\ reminded \subseteq Kinds /\ age \in 0..2
  /\ request \in [Workers -> Requests]
  /\ job \in Jobs
  /\ mails \in [Kinds -> Nat] /\ faults \in 0..MaxFaults
  /\ uncounted \subseteq {"crossed", "upload", "name"} /\ unnoted \in BOOLEAN

\* profileCompleted, on which the reminders depend, tells whether all required
\* fields are filled (updateSalonDetails), unless it was made wrong by a request
\* that read the row before another one wrote it, and counted fields as they were,
\* by a new name (updateUser), or by an upload of the logo or the banner, neither
\* of which is counted.  An upload never leaves a salon complete by its flag alone.
CompletedExplained ==
  /\ salon.completed /\ salon.filled # Fields => uncounted \cap {"crossed", "name"} # {}
  /\ ~salon.completed /\ salon.filled = Fields => uncounted # {}

\* A salon gets each reminder once (sendReminderEmail), and once more only for
\* every time that the job was cut off before the flag was set; a flag is never
\* set without its mail.
RemindedOnce ==
  \A k \in Kinds :
    /\ mails[k] <= 1 + faults
    /\ k \in reminded => mails[k] > 0

\* The bank details on a profile are those of the subaccount that is paid
\* (createSubaccount), whatever calls race; they are missing only if there was
\* no profile at that time, or a call was cut off.
BankDetailsExplained ==
  /\ bank \in {0, subaccount}
  /\ subaccount # 0 /\ bank = 0 =>
       unnoted \/ faults > 0 \/ \E w \in Workers : request[w].step = "note"

\* A salon that stays incomplete is reminded of it in the end, twice, whatever
\* went wrong in between.
RemindedInTheEnd ==
  <>[](what = "profile" /\ salon.there /\ ~salon.completed) => \A k \in Kinds : <>(mails[k] > 0)
=============================================================================
